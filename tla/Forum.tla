------------------------------- MODULE Forum -------------------------------
(***************************************************************************)
(* What a kep-edge node promises of its archive, with no goroutine, file   *)
(* handle or cache in sight.  The archive is a set of stored messages, the *)
(* subset that a catalogue lists, the messages that have a thread of their *)
(* own, and the replies and edits attached to each thread.                 *)
(*                                                                         *)
(* Ingest.tla is shown to implement this specification: however its        *)
(* goroutines interleave, crash or fail half way, the files on disk only   *)
(* change by the five steps below.                                         *)
(***************************************************************************)
CONSTANTS
  Hash,   \* the messages, named by their t_hash
  None,   \* stands for "no target"
  Post,   \* Post[h]: the signed content of message h, a record as in Ingest
  EditTag \* the tag of a message that edits another one

VARIABLES
  stored, \* messages that have an .mdb file
  listed, \* messages that some tag index lists
  open,   \* messages with a thread file
  thread  \* thread[p]: the messages attached to p

fvars == <<stored, listed, open, thread>>

Init == /\ stored = {}
        /\ listed = {}
        /\ open = {}
        /\ thread = [h \in Hash |-> {}]

\* A message reaches the disk.  Nothing ever takes it away again.
Save(h) == /\ stored' = stored \cup {h}
           /\ UNCHANGED <<listed, open, thread>>

\* Only a stored message is listed.
List(h) == /\ h \in stored
           /\ listed' = listed \cup {h}
           /\ UNCHANGED <<stored, open, thread>>

\* A listed message that points nowhere starts a thread, which is empty:
\* opening it a second time forgets what was attached to it.
OpenThread(h) == /\ h \in listed
                 /\ Post[h].target = None
                 /\ open' = open \cup {h}
                 /\ thread' = [thread EXCEPT ![h] = {}]
                 /\ UNCHANGED <<stored, listed>>

\* A listed message may join the thread of its target when that is listed
\* too; an edit only when its author wrote the target.
MayJoin(h) == LET p == Post[h].target
              IN  /\ {h, p} \subseteq listed
                  /\ Post[h].tag = EditTag => Post[p].author = Post[h].author

\* The target of a message that may join gets a thread if it has none.  That
\* the message joins does not follow.
MakeRoom(h) == /\ MayJoin(h)
               /\ open' = open \cup {Post[h].target}
               /\ UNCHANGED <<stored, listed, thread>>

\* The message joins the thread there is.
Attach(h) == /\ MayJoin(h)
             /\ Post[h].target \in open
             /\ thread' = [thread EXCEPT ![Post[h].target] = @ \cup {h}]
             /\ UNCHANGED <<stored, listed, open>>

Next == \E h \in Hash : \/ Save(h) \/ List(h)
                       \/ OpenThread(h) \/ MakeRoom(h) \/ Attach(h)

Spec == Init /\ [][Next]_fvars
=============================================================================
