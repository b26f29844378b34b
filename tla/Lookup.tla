------------------------------- MODULE Lookup -------------------------------
(***************************************************************************)
(* What the file store promises to those who look a message up: a store to *)
(* which messages are only added, and lookups that are answered in one     *)
(* step, with no cache, prefix map or index file in sight.                 *)
(*                                                                         *)
(* KepIndex.tla is shown to implement this specification: a lookup of many *)
(* steps, beside writers, the loading of the index and other lookups, is   *)
(* answered as by a single look at the store.                              *)
(***************************************************************************)
CONSTANTS Hash, Tag, None, Reader

VARIABLES
  stored, \* <<t, h>>: message h is stored under tag t
  listed, \* those a catalogue lists
  loaded, \* the tags whose catalogue is loaded
  stage,  \* stage[r]: "idle", "asked" or "told"
  asked,  \* asked[r]: the message r looks for
  due,    \* due[r]: "there is none" would be wrong
  answer  \* answer[r]: the tag r is told

store == <<stored, listed, loaded>>
lvars == <<store, stage, asked, due, answer>>

Init == /\ stored = {} /\ listed = {} /\ loaded = {}
        /\ stage = [r \in Reader |-> "idle"]
        /\ asked = [r \in Reader |-> None] /\ answer = [r \in Reader |-> None]
        /\ due = [r \in Reader |-> FALSE]

\* A message is stored, for good.
Save(x) == stored' = stored \cup {x} /\ UNCHANGED <<listed, loaded, stage, asked, due, answer>>

\* A stored message is listed, for good.
List(x) == /\ x \in stored
           /\ listed' = listed \cup {x}
           /\ UNCHANGED <<stored, loaded, stage, asked, due, answer>>

Load(t) == loaded' = loaded \cup {t} /\ UNCHANGED <<stored, listed, stage, asked, due, answer>>

\* r asks for h, which must be found if a loaded catalogue lists it now.
Ask(r, h) ==
  /\ stage[r] = "idle" /\ stage' = [stage EXCEPT ![r] = "asked"]
  /\ asked' = [asked EXCEPT ![r] = h]
  /\ due' = [due EXCEPT ![r] = \E t \in loaded : <<t, h>> \in listed]
  /\ UNCHANGED <<store, answer>>

\* A file that cannot be read excuses.
Excuse(r) == /\ stage[r] = "asked"
             /\ due' = [due EXCEPT ![r] = FALSE]
             /\ UNCHANGED <<store, stage, asked, answer>>

\* r is told a tag under which the message is stored now, or that there is
\* none if that is not wrong.
Tell(r, t) ==
  /\ stage[r] = "asked" /\ stage' = [stage EXCEPT ![r] = "told"]
  /\ IF t = None THEN ~due[r] ELSE <<t, asked[r]>> \in stored
  /\ answer' = [answer EXCEPT ![r] = t]
  /\ UNCHANGED <<store, asked, due>>

\* r goes on with what it was told.
Leave(r) ==
  /\ stage[r] = "told" /\ stage' = [stage EXCEPT ![r] = "idle"]
  /\ asked' = [asked EXCEPT ![r] = None] /\ answer' = [answer EXCEPT ![r] = None]
  /\ due' = [due EXCEPT ![r] = FALSE]
  /\ UNCHANGED store

\* A restart: what is stored and listed stays, all else is gone.
Restart ==
  /\ loaded' = {}
  /\ stage' = [r \in Reader |-> "idle"]
  /\ asked' = [r \in Reader |-> None] /\ answer' = [r \in Reader |-> None]
  /\ due' = [r \in Reader |-> FALSE]
  /\ UNCHANGED <<stored, listed>>

Next == \/ \E x \in Tag \X Hash : Save(x) \/ List(x)
        \/ \E t \in Tag : Load(t)
        \/ \E r \in Reader : \/ \E h \in Hash : Ask(r, h)
                             \/ Excuse(r) \/ Leave(r)
                             \/ \E t \in Tag \cup {None} : Tell(r, t)
        \/ Restart

Spec == Init /\ [][Next]_lvars
=============================================================================
