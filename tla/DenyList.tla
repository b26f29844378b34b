------------------------------ MODULE DenyList ------------------------------
(***************************************************************************)
(* What the operator is promised of the deny list: however many requests   *)
(* run at once, each ban and each unban changes the list in one step, on   *)
(* its own suffix and nothing else, and no later than it is answered.  The *)
(* file holds the whole list as it once was, or nothing that can be read   *)
(* while it is written, and a restart starts from the file.  Admin         *)
(* implements this (ImplementsDenyList): there each request copies a map   *)
(* under a lock and swaps the copy in.                                     *)
(***************************************************************************)
CONSTANTS
  Suffix, \* domain suffixes that may be banned
  Banner, \* those who may ask at once
  None    \* nothing asked, or no readable file

VARIABLES
  list,  \* the suffixes refused
  asked, \* asked[b]: the request of b that is not answered yet, or None
  file   \* the list that was saved, or None

vars == <<list, asked, file>>

Request == [what : Suffix, add : BOOLEAN]
Quiet == [b \in Banner |-> None]
FromFile == IF file = None THEN {} ELSE file

Init ==
  /\ file \in {None} \cup SUBSET Suffix
  /\ list = FromFile
  /\ asked = Quiet

\* Only what is on the list can be lifted.
Ask(b, r) ==
  /\ asked[b] = None
  /\ r.add \/ r.what \in list
  /\ asked' = [asked EXCEPT ![b] = r]
  /\ UNCHANGED <<list, file>>

\* The request takes effect at once and is answered.
Serve(b) ==
  LET r == asked[b] IN
  /\ r \in Request
  /\ list' = IF r.add THEN list \cup {r.what} ELSE list \ {r.what}
  /\ asked' = [asked EXCEPT ![b] = None]
  /\ UNCHANGED file

Truncate == file' = None /\ UNCHANGED <<list, asked>>

Save == file' = list /\ UNCHANGED <<list, asked>>

Restart == list' = FromFile /\ asked' = Quiet /\ UNCHANGED file

Next == \/ \E b \in Banner : Serve(b) \/ \E r \in Request : Ask(b, r)
        \/ Truncate \/ Save \/ Restart

Spec == Init /\ [][Next]_vars
=============================================================================
