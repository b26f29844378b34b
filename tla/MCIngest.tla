------------------------------ MODULE MCIngest ------------------------------
(***************************************************************************)
(* A small forum for Ingest: a topic, a reply to it, an edit of the reply  *)
(* by its author and an edit of the reply forged by somebody else.  A      *)
(* configuration takes the ones it needs.  With a window of 1 the topic    *)
(* can be delivered at the times 0 and 1, so before and after a reset of   *)
(* the seen map, the reply and the forged edit at 0 and the edit at 1.     *)
(***************************************************************************)
EXTENDS Ingest, TLC

CONSTANTS topic, reply, edit, forged, \* messages
          alice, bob                  \* authors

Signed(tag, target, root, author, time) ==
  [tag |-> tag, target |-> target, root |-> root, author |-> author,
   perm |-> 0, time |-> time]

MCPost == [h \in Hash |->
  CASE h = topic  -> Signed(3, None, None, alice, 0)
    [] h = reply  -> Signed(ReplyTag, topic, None, bob, -1)
    [] h = edit   -> Signed(ChangeTag, reply, topic, bob, 2)
    [] h = forged -> Signed(ChangeTag, reply, topic, alice, -1)]

Workers == Permutations(Worker)
=============================================================================
