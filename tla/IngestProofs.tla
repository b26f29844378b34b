---------------------------- MODULE IngestProofs ----------------------------
(***************************************************************************)
(* Proofs about Ingest for every set of messages, goroutines and tokens,   *)
(* every clock and any number of crashes.                                  *)
(*                                                                         *)
(* The disk invariants are not inductive alone: that Link and Attach leave *)
(* the disk closed depends on what the goroutine found out several steps   *)
(* earlier.  WorkerOK records it.  It survives the steps of all other      *)
(* goroutines because Stored, Listed and open only grow, and survives a    *)
(* crash because a crash leaves no goroutine.                              *)
(***************************************************************************)
EXTENDS Ingest, FiniteSetTheorems, TLAPS

\* What goroutine w may rely on at its stage.
WorkerOK(w) ==
  LET h == job[w].hash IN
  /\ pc[w] # "idle" => job[w] \in Job
  /\ pc[w] \in {"fill", "list", "link", "attach"} => <<job[w].tag, h>> \in file
  /\ pc[w] = "send" => h \in Stored
  /\ pc[w] \in {"link", "attach"} => <<job[w].tag, h>> \in idx
  /\ pc[w] = "attach" => HasTarget(h) /\ Post[h].target \in open
  /\ pc[w] = "change" => HasTarget(h)
  /\ pc[w] \in {"change", "limit", "fill", "list", "link", "attach"} /\ HasTarget(h) =>
       Post[h].target \in Listed
  /\ pc[w] \in {"limit", "fill", "list", "link", "attach"} /\ IsEdit(h) =>
       HasTarget(h) /\ Post[Post[h].target].author = Post[h].author

WorkersOK == \A w \in Worker : WorkerOK(w)

IInv == TypeOK /\ WorkersOK /\ IndexClosed /\ EditsByAuthor /\ ForwardedIsStored

-----------------------------------------------------------------------------
\* The fields of a message that name other messages.
LEMMA PostFields ==
  ASSUME NEW h \in Hash
  PROVE  /\ Post[h].target \in Hash \cup {None}
         /\ Post[h].root \in Hash \cup {None}
         /\ Post[h].tag \in Tag
         /\ Post[h].root # None => Post[h].target # None
  <1>1. Post[h] \in PostType
    BY ConstantsAssumption
  <1>2. Post[h].root # None => Post[h].target # None
    BY ConstantsAssumption
  <1>. QED
    BY <1>1, <1>2 DEF PostType

\* What is stored or listed stays so when files and lines are only added.
LEMMA StoreGrows ==
  ASSUME file \subseteq file', idx \subseteq idx'
  PROVE  Stored \subseteq Stored' /\ Listed \subseteq Listed'
  BY DEF Stored, Listed

\* A target that ensureParent accepts is listed.
LEMMA ParentListed ==
  ASSUME TypeOK, IndexClosed, NEW h \in Hash, HasTarget(h), ParentThere(h)
  PROVE  Post[h].target \in Listed /\ Post[h].target \in Hash
  <1>1. Post[h].target \in Hash
    BY PostFields DEF HasTarget
  <1>2. CASE HasRoot(h)
    <2>1. Post[h].root \in Hash
      BY <1>2, PostFields DEF HasRoot
    <2>. QED
      BY <1>1, <1>2, <2>1 DEF ParentThere, IndexClosed
  <1>3. CASE ~HasRoot(h)
    BY <1>1, <1>3 DEF ParentThere, IndexClosed
  <1>. QED
    BY <1>2, <1>3

\* A step that changes neither the disk nor what was sent, and leaves every
\* goroutine with less to rely on or what it had, keeps the disk invariants.
LEMMA DiskUntouched ==
  ASSUME IInv, UNCHANGED <<disk, sent>>
  PROVE  IndexClosed' /\ EditsByAuthor' /\ ForwardedIsStored'
  BY DEF IInv, disk, IndexClosed, EditsByAuthor, ForwardedIsStored,
         Stored, Listed, IsEdit

\* Goroutines that do not move keep what they rely on.
LEMMA OthersOK ==
  ASSUME WorkersOK, file \subseteq file', idx \subseteq idx', open \subseteq open',
         NEW w \in Worker, NEW v \in Worker, v # w,
         pc'[v] = pc[v], job'[v] = job[v]
  PROVE  WorkerOK(v)'
  <1>1. WorkerOK(v)
    BY DEF WorkersOK
  <1>2. Stored \subseteq Stored' /\ Listed \subseteq Listed'
    BY StoreGrows
  <1>. QED
    BY <1>1, <1>2 DEF WorkerOK, HasTarget, IsEdit

-----------------------------------------------------------------------------
\* A goroutine that has ended relies on nothing.
LEMMA ReturnOK ==
  ASSUME TypeOK, NEW w \in Worker, Return(w)
  PROVE  /\ WorkerOK(w)'
         /\ \A v \in Worker \ {w} : pc'[v] = pc[v] /\ job'[v] = job[v]
         /\ pc' \in [Worker -> Stage] /\ job' \in [Worker -> Job \cup {NoJob}]
  BY DEF TypeOK, Return, WorkerOK, Stage

\* A goroutine that goes on keeps its job.
LEMMA GotoKeeps ==
  ASSUME TypeOK, NEW w \in Worker, NEW s \in Stage, Goto(w, s)
  PROVE  /\ pc'[w] = s /\ job'[w] = job[w]
         /\ \A v \in Worker \ {w} : pc'[v] = pc[v] /\ job'[v] = job[v]
         /\ pc' \in [Worker -> Stage] /\ job' \in [Worker -> Job \cup {NoJob}]
  BY DEF TypeOK, Goto

\* A delivery is a job.
LEMMA DeliveryIsJob ==
  ASSUME NEW h \in Hash, NEW t \in Arrives, NEW from \in Token
  PROVE  [hash |-> h, tag |-> t, from |-> from] \in Job
  <1>1. t \in Tag
    BY ConstantsAssumption
  <1>. QED
    BY <1>1 DEF Job

\* The steps that read: no file changes and nothing is sent.
LEMMA VerifyStep ==
  ASSUME IInv, NEW w \in Worker, Deliver(w) \/ Verify(w)
  PROVE  IInv'
  <1>. USE DEF IInv
  <1>1. UNCHANGED <<disk, sent>>
    BY DEF Deliver, Verify, Receive, CheckSeen, MarkSeen, RejectKey, CheckParent,
           CheckChange, RateLimit
  <1>2. IndexClosed' /\ EditsByAuthor' /\ ForwardedIsStored'
    BY <1>1, DiskUntouched
  <1>3. file' = file /\ idx' = idx /\ open' = open /\ Stored' = Stored /\ Listed' = Listed
    BY <1>1 DEF disk, Stored, Listed
  <1>. DEFINE Others == \A v \in Worker \ {w} : pc'[v] = pc[v] /\ job'[v] = job[v]
  <1>. SUFFICES TypeOK' /\ WorkerOK(w)' /\ Others
    BY <1>2, <1>3, OthersOK DEF WorkersOK
  <1>4. ASSUME NEW h \in Hash, NEW t \in Arrives, NEW from \in Token,
               Receive(w, h, t, from)
        PROVE  TypeOK' /\ WorkerOK(w)' /\ Others
    <2>1. [hash |-> h, tag |-> t, from |-> from] \in Job
      BY DeliveryIsJob
    <2>2. TypeOK'
      BY <1>1, <1>4, <2>1 DEF TypeOK, Receive, disk, Stage
    <2>3. WorkerOK(w)'
      BY <1>4, <2>1 DEF TypeOK, Receive, WorkerOK
    <2>. QED
      BY <1>4, <2>2, <2>3 DEF TypeOK, Receive
  <1>5. ASSUME pc[w] # "idle", Return(w), UNCHANGED <<node, seen>>
        PROVE  TypeOK' /\ WorkerOK(w)' /\ Others
    BY <1>1, <1>5, ReturnOK DEF TypeOK, node, disk
  <1>6. ASSUME NEW s \in Stage, s \in {"des", "parent"}, pc[w] # "idle",
               Goto(w, s), seen' \in [Hash -> Nat], UNCHANGED node
        PROVE  TypeOK' /\ WorkerOK(w)' /\ Others
    <2>1. TypeOK' /\ Others /\ pc'[w] = s /\ job'[w] = job[w]
      BY <1>1, <1>6, GotoKeeps DEF TypeOK, node, disk
    <2>2. WorkerOK(w)'
      BY <1>6, <2>1 DEF WorkersOK, WorkerOK
    <2>. QED
      BY <2>1, <2>2
  <1>7. CASE CheckSeen(w)
    BY <1>5, <1>6, <1>7 DEF CheckSeen, Stage, node, TypeOK
  <1>8. CASE MarkSeen(w)
    <2>1. job[w].hash \in Hash
      BY <1>8 DEF MarkSeen, WorkersOK, WorkerOK, Job
    <2>2. seen' \in [Hash -> Nat]
      BY <1>8, <2>1 DEF MarkSeen, TypeOK
    <2>. QED
      BY <1>6, <1>8, <2>2 DEF MarkSeen, Stage
  <1>9. CASE RejectKey(w)
    BY <1>5, <1>9 DEF RejectKey
  <1>10. CASE CheckParent(w)
    <2>. DEFINE h == job[w].hash
    <2>1. job[w] \in Job /\ h \in Hash
      BY <1>10 DEF CheckParent, WorkersOK, WorkerOK, Job
    <2>2. CASE Return(w)
      BY <1>5, <1>10, <2>2 DEF CheckParent
    <2>3. CASE /\ HasTarget(h) /\ ParentThere(h)
               /\ Goto(w, IF IsEdit(h) \/ HasRoot(h) THEN "change" ELSE "limit")
      <3>1. TypeOK' /\ Others /\ job'[w] = job[w]
            /\ pc'[w] = IF IsEdit(h) \/ HasRoot(h) THEN "change" ELSE "limit"
        BY <1>1, <1>10, <2>3, GotoKeeps DEF CheckParent, TypeOK, node, disk, Stage
      <3>2. Post[h].target \in Listed
        BY <2>1, <2>3, ParentListed
      <3>3. WorkerOK(w)'
        <4>1. CASE IsEdit(h) \/ HasRoot(h)
          BY <1>3, <2>1, <2>3, <3>1, <3>2, <4>1 DEF WorkerOK, IsEdit, HasTarget
        <4>2. CASE ~(IsEdit(h) \/ HasRoot(h))
          BY <1>3, <2>1, <2>3, <3>1, <3>2, <4>2 DEF WorkerOK, IsEdit, HasTarget
        <4>. QED
          BY <4>1, <4>2
      <3>. QED
        BY <3>1, <3>3
    <2>4. CASE ~HasTarget(h) /\ ~IsEdit(h) /\ Goto(w, "limit")
      <3>1. TypeOK' /\ Others /\ job'[w] = job[w] /\ pc'[w] = "limit"
        BY <1>1, <1>10, <2>4, GotoKeeps DEF CheckParent, TypeOK, node, disk, Stage
      <3>. QED
        BY <2>1, <2>4, <3>1 DEF WorkerOK, IsEdit, HasTarget
    <2>. QED
      BY <1>10, <2>2, <2>3, <2>4 DEF CheckParent
  <1>11. CASE CheckChange(w)
    <2>. DEFINE h == job[w].hash
    <2>1. job[w] \in Job /\ h \in Hash
      BY <1>11 DEF CheckChange, WorkersOK, WorkerOK, Job
    <2>2. CASE Return(w)
      BY <1>5, <1>11, <2>2 DEF CheckChange
    <2>3. CASE Post[Post[h].target].author = Post[h].author /\ Goto(w, "limit")
      <3>1. TypeOK' /\ Others /\ job'[w] = job[w] /\ pc'[w] = "limit"
        BY <1>1, <1>11, <2>3, GotoKeeps DEF CheckChange, TypeOK, node, disk, Stage
      <3>2. HasTarget(h) /\ Post[h].target \in Listed
        BY <1>11 DEF CheckChange, WorkersOK, WorkerOK
      <3>. QED
        BY <1>3, <2>1, <2>3, <3>1, <3>2 DEF WorkerOK, IsEdit, HasTarget
    <2>. QED
      BY <1>11, <2>2, <2>3 DEF CheckChange
  <1>12. CASE RateLimit(w)
    BY <1>5, <1>12 DEF RateLimit
  <1>. QED
    BY <1>4, <1>7, <1>8, <1>9, <1>10, <1>11, <1>12 DEF Deliver, Verify

\* The steps that write: files and lines are added in an order that keeps
\* the disk closed.
LEMMA StoreStep ==
  ASSUME IInv, NEW w \in Worker, Store(w)
  PROVE  IInv'
  <1>. USE DEF IInv
  <1>. DEFINE h == job[w].hash
              t == job[w].tag
              p == Post[h].target
              Others == \A v \in Worker \ {w} : pc'[v] = pc[v] /\ job'[v] = job[v]
  <1>1. job[w] \in Job /\ h \in Hash /\ t \in Tag
    BY DEF Store, CreateFile, FillFile, ListIdx, Link, Attach, DiskError, Send,
           WorkersOK, WorkerOK, Job
  <1>2. WorkerOK(w)
    BY DEF WorkersOK
  <1>3. CASE CreateFile(w)
    <2>1. TypeOK' /\ Others /\ pc'[w] = "fill" /\ job'[w] = job[w]
      <3>1. <<t, h>> \in Tag \X Hash
        BY <1>1
      <3>. QED
        BY <1>3, <3>1, GotoKeeps DEF CreateFile, TypeOK, node, Stage
    <2>2. file \subseteq file' /\ idx' = idx /\ open' = open /\ Listed' = Listed
      BY <1>3 DEF CreateFile, Listed
    <2>3. WorkerOK(w)'
      BY <1>1, <1>2, <1>3, <2>1, <2>2 DEF CreateFile, WorkerOK, HasTarget, IsEdit
    <2>4. WorkersOK'
      BY <2>1, <2>2, <2>3, OthersOK DEF WorkersOK
    <2>5. IndexClosed' /\ EditsByAuthor' /\ ForwardedIsStored'
      BY <1>3, <2>2, StoreGrows
      DEF CreateFile, IndexClosed, EditsByAuthor, ForwardedIsStored, IsEdit
    <2>. QED
      BY <2>1, <2>4, <2>5
  <1>4. CASE FillFile(w)
    <2>1. TypeOK' /\ Others /\ pc'[w] = "list" /\ job'[w] = job[w]
      BY <1>2, <1>4, GotoKeeps DEF FillFile, TypeOK, node, Stage, WorkerOK
    <2>2. file' = file /\ idx' = idx /\ open' = open
          /\ Listed' = Listed /\ Stored' = Stored
      BY <1>4 DEF FillFile, Listed, Stored
    <2>3. WorkerOK(w)'
      BY <1>1, <1>2, <1>4, <2>1, <2>2 DEF FillFile, WorkerOK, HasTarget, IsEdit
    <2>4. WorkersOK'
      BY <2>1, <2>2, <2>3, OthersOK DEF WorkersOK
    <2>5. IndexClosed' /\ EditsByAuthor' /\ ForwardedIsStored'
      BY <1>4, <2>2
      DEF FillFile, IndexClosed, EditsByAuthor, ForwardedIsStored, IsEdit
    <2>. QED
      BY <2>1, <2>4, <2>5
  <1>5. CASE ListIdx(w)
    <2>1. TypeOK' /\ Others /\ pc'[w] = "link" /\ job'[w] = job[w]
      <3>1. <<t, h>> \in Tag \X Hash
        BY <1>1
      <3>. QED
        BY <1>1, <1>5, <3>1, GotoKeeps DEF ListIdx, TypeOK, node, Stage
    <2>2. file' = file /\ idx \subseteq idx' /\ open' = open /\ Listed \subseteq Listed'
          /\ Stored' = Stored /\ <<t, h>> \in idx'
      BY <1>5, StoreGrows DEF ListIdx, Stored
    <2>3. WorkerOK(w)'
      BY <1>1, <1>2, <1>5, <2>1, <2>2 DEF ListIdx, WorkerOK, HasTarget, IsEdit
    <2>4. WorkersOK'
      BY <2>1, <2>2, <2>3, OthersOK DEF WorkersOK
    <2>5. idx' \subseteq file'
      BY <1>2, <1>5 DEF ListIdx, WorkerOK, IndexClosed
    <2>6. IndexClosed' /\ EditsByAuthor' /\ ForwardedIsStored'
      BY <1>5, <2>2, <2>5
      DEF ListIdx, IndexClosed, EditsByAuthor, ForwardedIsStored, IsEdit
    <2>. QED
      BY <2>1, <2>4, <2>6
  <1>6. CASE Link(w)
    <2>1. file' = file /\ idx' = idx /\ Listed' = Listed /\ Stored' = Stored /\ sent' = sent
      BY <1>6 DEF Link, Listed, Stored
    <2>2. h \in Listed /\ h \in Stored
      BY <1>2, <1>6 DEF Link, WorkerOK, Listed, Stored
    <2>3. CASE HasTarget(h)
      <3>1. Others /\ pc'[w] = "attach" /\ job'[w] = job[w]
            /\ pc' \in [Worker -> Stage] /\ job' \in [Worker -> Job \cup {NoJob}]
        BY <1>6, <2>3, GotoKeeps DEF Link, Stage
      <3>2. p \in Hash /\ p \in Listed /\ (IsEdit(h) => Post[p].author = Post[h].author)
        BY <1>1, <1>2, <1>6, <2>3, PostFields DEF Link, WorkerOK, HasTarget
      <3>3. open' = open \cup {p} /\ sub' = sub
        BY <1>6, <2>3 DEF Link
      <3>4. WorkerOK(w)'
        BY <1>1, <1>2, <1>6, <2>1, <2>3, <3>1, <3>2, <3>3
        DEF Link, WorkerOK, HasTarget, IsEdit
      <3>5. WorkersOK'
        BY <2>1, <3>1, <3>3, <3>4, OthersOK DEF WorkersOK
      <3>6. TypeOK'
        BY <1>6, <2>1, <3>1, <3>2, <3>3 DEF Link, TypeOK, node
      <3>7. IndexClosed' /\ EditsByAuthor' /\ ForwardedIsStored'
        BY <2>1, <3>2, <3>3 DEF IndexClosed, EditsByAuthor, ForwardedIsStored, IsEdit
      <3>. QED
        BY <3>5, <3>6, <3>7
    <2>4. CASE ~HasTarget(h)
      <3>1. Others /\ pc'[w] = "send" /\ job'[w] = job[w]
            /\ pc' \in [Worker -> Stage] /\ job' \in [Worker -> Job \cup {NoJob}]
        BY <1>6, <2>4, GotoKeeps DEF Link, Stage
      <3>2. open' = open \cup {h} /\ sub' = [sub EXCEPT ![h] = {}]
        BY <1>6, <2>4 DEF Link
      <3>3. WorkerOK(w)'
        BY <1>1, <2>1, <2>2, <3>1 DEF WorkerOK
      <3>4. WorkersOK'
        BY <2>1, <3>1, <3>2, <3>3, OthersOK DEF WorkersOK
      <3>5. TypeOK'
        BY <1>1, <1>6, <2>1, <3>1, <3>2 DEF Link, TypeOK, node
      <3>6. IndexClosed'
        BY <2>1, <2>2, <3>2 DEF IndexClosed, TypeOK
      <3>7. EditsByAuthor'
        BY <1>1, <3>2 DEF EditsByAuthor, TypeOK, IsEdit
      <3>8. ForwardedIsStored'
        BY <2>1 DEF ForwardedIsStored
      <3>. QED
        BY <3>4, <3>5, <3>6, <3>7, <3>8
    <2>. QED
      BY <2>3, <2>4
  <1>7. CASE Attach(w)
    <2>1. Others /\ pc'[w] = "send" /\ job'[w] = job[w]
          /\ pc' \in [Worker -> Stage] /\ job' \in [Worker -> Job \cup {NoJob}]
      BY <1>7, GotoKeeps DEF Attach, Stage
    <2>2. file' = file /\ idx' = idx /\ open' = open /\ sent' = sent
          /\ Listed' = Listed /\ Stored' = Stored
      BY <1>7 DEF Attach, Listed, Stored
    <2>3. h \in Listed /\ h \in Stored /\ p \in open
      BY <1>2, <1>7 DEF Attach, WorkerOK, Listed, Stored
    <2>4. p \in Hash /\ (IsEdit(h) => Post[p].author = Post[h].author)
      BY <1>1, <1>2, <1>7, PostFields DEF Attach, WorkerOK, HasTarget
    <2>5. sub' = [sub EXCEPT ![p] = @ \cup {h}]
      BY <1>7 DEF Attach
    <2>6. WorkerOK(w)'
      BY <1>1, <2>1, <2>2, <2>3 DEF WorkerOK
    <2>7. WorkersOK'
      BY <2>1, <2>2, <2>6, OthersOK DEF WorkersOK
    <2>8. TypeOK'
      BY <1>1, <1>7, <2>1, <2>2, <2>4, <2>5 DEF Attach, TypeOK, node
    <2>9. IndexClosed'
      BY <2>2, <2>3, <2>4, <2>5 DEF IndexClosed, TypeOK
    <2>10. EditsByAuthor'
      BY <1>1, <2>4, <2>5 DEF EditsByAuthor, TypeOK, IsEdit
    <2>11. ForwardedIsStored'
      BY <2>2 DEF ForwardedIsStored
    <2>. QED
      BY <2>7, <2>8, <2>9, <2>10, <2>11
  <1>8. CASE DiskError(w)
    <2>1. UNCHANGED <<file, whole, idx, open, sub, sent>>
      BY <1>8 DEF DiskError
    <2>2. TypeOK' /\ WorkerOK(w)' /\ Others
      BY <1>1, <1>8, ReturnOK DEF DiskError, TypeOK, node
    <2>3. WorkersOK'
      BY <2>1, <2>2, OthersOK DEF WorkersOK
    <2>4. IndexClosed' /\ EditsByAuthor' /\ ForwardedIsStored'
      BY <2>1 DEF IndexClosed, EditsByAuthor, ForwardedIsStored, Stored, Listed, IsEdit
    <2>. QED
      BY <2>2, <2>3, <2>4
  <1>9. CASE Send(w)
    <2>1. h \in Stored
      BY <1>2, <1>9 DEF Send, WorkerOK
    <2>2. UNCHANGED disk
      BY <1>9 DEF Send
    <2>3. TypeOK' /\ WorkerOK(w)' /\ Others
      BY <1>1, <1>9, <2>2, ReturnOK DEF Send, TypeOK, node, disk
    <2>4. WorkersOK'
      BY <2>2, <2>3, OthersOK DEF WorkersOK, disk
    <2>5. IndexClosed' /\ EditsByAuthor' /\ ForwardedIsStored'
      BY <1>9, <2>1, <2>2
      DEF Send, disk, IndexClosed, EditsByAuthor, ForwardedIsStored, Stored, Listed, IsEdit
    <2>. QED
      BY <2>3, <2>4, <2>5
  <1>. QED
    BY <1>3, <1>4, <1>5, <1>6, <1>7, <1>8, <1>9 DEF Store

\* The steps of the node as a whole.
LEMMA NodeStep ==
  ASSUME IInv, (\E h \in Hash : Resend(h)) \/ Reset \/ Tick \/ Crash \/ UNCHANGED vars
  PROVE  IInv'
  <1>. USE DEF IInv
  <1>1. CASE \E h \in Hash : Resend(h)
    <2>1. PICK h \in Hash : Resend(h)
      BY <1>1
    <2>2. h \in Stored
      BY <2>1 DEF Resend, ReadOK, Candidates, Stored
    <2>3. sent' = sent \cup {h} /\ UNCHANGED <<node, seen, disk, pc, job>>
      BY <2>1 DEF Resend
    <2>4. TypeOK'
      BY <2>3 DEF TypeOK, node, disk
    <2>5. WorkersOK'
      BY <2>3 DEF WorkersOK, WorkerOK, disk, Stored, Listed, HasTarget, IsEdit
    <2>6. IndexClosed' /\ EditsByAuthor' /\ ForwardedIsStored'
      BY <2>2, <2>3
      DEF IndexClosed, EditsByAuthor, ForwardedIsStored, disk, Stored, Listed, IsEdit
    <2>. QED
      BY <2>4, <2>5, <2>6
  <1>2. CASE Reset \/ Tick \/ UNCHANGED vars
    <2>1. UNCHANGED <<disk, sent, pc, job>>
      BY <1>2 DEF Reset, Tick, vars
    <2>2. TypeOK'
      BY <1>2, <2>1 DEF Reset, Tick, vars, TypeOK, disk, node
    <2>3. WorkersOK'
      BY <2>1 DEF WorkersOK, WorkerOK, disk, Stored, Listed, HasTarget, IsEdit
    <2>. QED
      BY <2>1, <2>2, <2>3, DiskUntouched
  <1>3. CASE Crash
    <2>1. UNCHANGED <<disk, sent>>
      BY <1>3 DEF Crash
    <2>2. TypeOK'
      BY <1>3, <2>1 DEF Crash, TypeOK, disk, Stage
    <2>3. WorkersOK'
      BY <1>3 DEF Crash, WorkersOK, WorkerOK
    <2>. QED
      BY <2>1, <2>2, <2>3, DiskUntouched
  <1>. QED
    BY <1>1, <1>2, <1>3

-----------------------------------------------------------------------------
\* The strengthened invariant holds in every reachable state.
THEOREM Inductive == Spec => []IInv
  <1>1. Init => IInv
    BY DEF Init, IInv, TypeOK, WorkersOK, WorkerOK, IndexClosed, EditsByAuthor,
           ForwardedIsStored, Stored, Stage
  <1>2. IInv /\ [Next]_vars => IInv'
    <2>1. ASSUME IInv, Next
          PROVE  IInv'
      BY <2>1, VerifyStep, StoreStep, NodeStep DEF Next
    <2>2. ASSUME IInv, UNCHANGED vars
          PROVE  IInv'
      BY <2>2, NodeStep
    <2>. QED
      BY <2>1, <2>2
  <1>. QED
    BY <1>1, <1>2, PTL DEF Spec

\* The variables keep their types whatever the goroutines do.
THEOREM TypeCorrect == Spec => []TypeOK
  BY Inductive, PTL DEF IInv

\* The disk is closed in every state, so also after every crash and every
\* failed system call: nothing on it dangles.
THEOREM DiskClosed == Spec => []IndexClosed
  BY Inductive, PTL DEF IInv

\* No interleaving lets an edit by somebody else into a thread.
THEOREM AuthorsOnly == Spec => []EditsByAuthor
  BY Inductive, PTL DEF IInv

\* The node has a file of everything it ever handed to its neighbours.
THEOREM ForwardsKept == Spec => []ForwardedIsStored
  BY Inductive, PTL DEF IInv

-----------------------------------------------------------------------------
(* Refinement of the abstract archive.                                      *)

\* A step that changes no file stutters in the archive.
LEMMA QuietStep ==
  ASSUME UNCHANGED disk
  PROVE  UNCHANGED Archive!fvars
  BY DEF disk, Archive!fvars, Stored, Listed

\* Adding a file or a line adds its message to the messages that have one.
LEMMA Projection ==
  ASSUME NEW S, NEW t, NEW h
  PROVE  {x[2] : x \in S \cup {<<t, h>>}} = {x[2] : x \in S} \cup {h}
  <1>1. <<t, h>>[2] = h
    OBVIOUS
  <1>2. ASSUME NEW y \in {x[2] : x \in S} \cup {h}
        PROVE  y \in {x[2] : x \in S \cup {<<t, h>>}}
    BY <1>1
  <1>3. ASSUME NEW y \in {x[2] : x \in S \cup {<<t, h>>}}
        PROVE  y \in {x[2] : x \in S} \cup {h}
    BY <1>1
  <1>. QED
    BY <1>2, <1>3

\* Every step of the pipeline is a step of the archive or changes none of it.
LEMMA StepSimulation ==
  ASSUME IInv, [Next]_vars
  PROVE  [Archive!Next]_(Archive!fvars)
  <1>1. CASE UNCHANGED vars
    BY <1>1, QuietStep DEF vars
  <1>2. CASE (\E h \in Hash : Resend(h)) \/ Reset \/ Tick \/ Crash
    <2>1. UNCHANGED disk
      BY <1>2 DEF Resend, Reset, Tick, Crash
    <2>. QED
      BY <2>1, QuietStep
  <1>3. ASSUME NEW w \in Worker, Deliver(w) \/ Verify(w)
        PROVE  [Archive!Next]_(Archive!fvars)
    <2>1. UNCHANGED disk
      BY <1>3 DEF Deliver, Verify, Receive, CheckSeen, MarkSeen, RejectKey,
                  CheckParent, CheckChange, RateLimit
    <2>. QED
      BY <2>1, QuietStep
  <1>4. ASSUME NEW w \in Worker, Store(w)
        PROVE  [Archive!Next]_(Archive!fvars)
    <2>. DEFINE h == job[w].hash
                p == Post[h].target
    <2>1. WorkerOK(w) /\ job[w] \in Job /\ h \in Hash
      BY <1>4 DEF IInv, Store, CreateFile, FillFile, ListIdx, Link, Attach, DiskError, Send,
                  WorkersOK, WorkerOK, Job
    <2>2. CASE CreateFile(w)
      <3>1. Stored' = Stored \cup {h} /\ Listed' = Listed
        <4>1. file' = file \cup {<<job[w].tag, h>>} /\ idx' = idx
          BY <2>2 DEF CreateFile
        <4>2. {x[2] : x \in file'} = {x[2] : x \in file} \cup {h}
          BY <4>1, Projection
        <4>. QED
          BY <4>1, <4>2 DEF Stored, Listed
      <3>2. Archive!Save(h)
        BY <2>2, <3>1 DEF CreateFile, Archive!Save
      <3>. QED
        BY <2>1, <3>2 DEF Archive!Next
    <2>3. CASE ListIdx(w)
      <3>1. Listed' = Listed \cup {h} /\ Stored' = Stored
        <4>1. idx' = idx \cup {<<job[w].tag, h>>} /\ file' = file
          BY <2>3 DEF ListIdx
        <4>2. {x[2] : x \in idx'} = {x[2] : x \in idx} \cup {h}
          BY <4>1, Projection
        <4>. QED
          BY <4>1, <4>2 DEF Stored, Listed
      <3>2. h \in Stored
        BY <2>1, <2>3 DEF ListIdx, WorkerOK, Stored
      <3>3. Archive!List(h)
        BY <2>3, <3>1, <3>2 DEF ListIdx, Archive!List
      <3>. QED
        BY <2>1, <3>3 DEF Archive!Next
    <2>4. CASE Link(w)
      <3>1. Listed' = Listed /\ Stored' = Stored /\ h \in Listed
        BY <2>1, <2>4 DEF Link, Stored, Listed, WorkerOK
      <3>2. CASE HasTarget(h)
        <4>1. p \in Listed /\ (IsEdit(h) => Post[p].author = Post[h].author)
          BY <2>1, <2>4, <3>2 DEF Link, WorkerOK
        <4>2. Archive!MakeRoom(h)
          BY <2>4, <3>1, <3>2, <4>1
          DEF Link, Archive!MakeRoom, Archive!MayJoin, IsEdit
        <4>. QED
          BY <2>1, <4>2 DEF Archive!Next
      <3>3. CASE ~HasTarget(h)
        <4>1. Archive!OpenThread(h)
          BY <2>4, <3>1, <3>3 DEF Link, Archive!OpenThread, HasTarget
        <4>. QED
          BY <2>1, <4>1 DEF Archive!Next
      <3>. QED
        BY <3>2, <3>3
    <2>5. CASE Attach(w)
      <3>1. Listed' = Listed /\ Stored' = Stored /\ h \in Listed
        BY <2>1, <2>5 DEF Attach, Stored, Listed, WorkerOK
      <3>2. p \in Listed /\ p \in open /\ (IsEdit(h) => Post[p].author = Post[h].author)
        BY <2>1, <2>5 DEF Attach, WorkerOK
      <3>3. Archive!Attach(h)
        BY <2>5, <3>1, <3>2 DEF Attach, Archive!Attach, Archive!MayJoin, IsEdit
      <3>. QED
        BY <2>1, <3>3 DEF Archive!Next
    <2>6. CASE FillFile(w) \/ DiskError(w) \/ Send(w)
      <3>1. UNCHANGED <<file, idx, open, sub>>
        BY <2>6 DEF FillFile, DiskError, Send, disk
      <3>. QED
        BY <3>1 DEF Archive!fvars, Stored, Listed
    <2>. QED
      BY <1>4, <2>2, <2>3, <2>4, <2>5, <2>6 DEF Store
  <1>. QED
    BY <1>1, <1>2, <1>3, <1>4 DEF Next

\* The pipeline implements the abstract archive, for any number of messages,
\* goroutines and crashes.
THEOREM Refinement == Spec => ImplementsForum
  <1>1. Init => Archive!Init
    BY DEF Init, Archive!Init, Stored, Listed
  <1>2. IInv /\ [Next]_vars => [Archive!Next]_(Archive!fvars)
    BY StepSimulation
  <1>. QED
    BY <1>1, <1>2, Inductive, PTL DEF Spec, ImplementsForum, Archive!Spec

-----------------------------------------------------------------------------
(* Deduplication.  A copy is accepted although the message is marked only   *)
(* when its goroutine had looked at the map before: the marks a message has *)
(* and the goroutines that may still add one are never more than there are  *)
(* goroutines.                                                              *)

\* Goroutines that found h unmarked and have not marked it yet.
Marking(h) == {v \in Worker : pc[v] = "des" /\ job[v].hash = h}

MarksBounded ==
  \A h \in Hash : seen[h] = 0 \/ seen[h] + Cardinality(Marking(h)) <= Cardinality(Worker)

\* The goroutines about to mark a message are finitely many.
LEMMA MarkingFinite ==
  ASSUME NEW h \in Hash
  PROVE  /\ IsFiniteSet(Marking(h)) /\ Cardinality(Marking(h)) \in Nat
         /\ Cardinality(Worker) \in Nat
         /\ Cardinality(Marking(h)) <= Cardinality(Worker)
  <1>1. IsFiniteSet(Worker)
    BY WorkerAssumption
  <1>2. Marking(h) \subseteq Worker
    BY DEF Marking
  <1>3. IsFiniteSet(Marking(h)) /\ Cardinality(Marking(h)) <= Cardinality(Worker)
    BY <1>1, <1>2, FS_Subset
  <1>. QED
    BY <1>1, <1>3, FS_CardinalityType

\* A step that adds no goroutine about to mark h and does not raise seen[h].
LEMMA FewerMarking ==
  ASSUME NEW h \in Hash, TypeOK, MarksBounded,
         seen'[h] = seen[h], Marking(h)' \subseteq Marking(h)
  PROVE  seen'[h] = 0 \/ seen'[h] + Cardinality(Marking(h)') <= Cardinality(Worker)
  <1>1. /\ Cardinality(Marking(h)') \in Nat /\ Cardinality(Marking(h)) \in Nat
        /\ Cardinality(Worker) \in Nat
        /\ Cardinality(Marking(h)') <= Cardinality(Marking(h))
    BY MarkingFinite, FS_Subset, FS_CardinalityType
  <1>2. seen[h] \in Nat
    BY DEF TypeOK
  <1>. QED
    BY <1>1, <1>2 DEF MarksBounded

\* The step that looks at the map and the step that marks.
LEMMA CheckMark ==
  ASSUME IInv, MarksBounded, NEW w \in Worker, CheckSeen(w) \/ MarkSeen(w)
  PROVE  MarksBounded'
  <1>0. TypeOK /\ job[w].hash \in Hash
    BY DEF IInv, CheckSeen, MarkSeen, WorkersOK, WorkerOK, Job
  <1>. SUFFICES ASSUME NEW g \in Hash, g = job[w].hash
                PROVE  MarksBounded'
    BY <1>0
  <1>1. TypeOK
    BY <1>0
  <1>2. CASE CheckSeen(w)
    <2>1. seen' = seen
      BY <1>2 DEF CheckSeen
    <2>2. ASSUME NEW h \in Hash, seen[h] # 0
          PROVE  Marking(h)' \subseteq Marking(h)
      <3>1. CASE Return(w)
        BY <1>1, <3>1 DEF TypeOK, Return, Marking
      <3>2. CASE Goto(w, "des") /\ seen[g] = 0
        BY <1>1, <2>2, <3>2 DEF TypeOK, Goto, Marking
      <3>. QED
        BY <1>2, <3>1, <3>2 DEF CheckSeen
    <2>. QED
      BY <1>1, <2>1, <2>2, FewerMarking DEF MarksBounded
  <1>3. CASE MarkSeen(w)
    <2>1. ASSUME NEW h \in Hash, h # g
          PROVE  seen'[h] = seen[h] /\ Marking(h)' \subseteq Marking(h)
      BY <1>1, <1>3, <2>1 DEF MarkSeen, TypeOK, Goto, Marking
    <2>2. seen'[g] = seen[g] + 1 /\ seen[g] \in Nat
      BY <1>1, <1>3 DEF MarkSeen, TypeOK
    <2>3. w \in Marking(g)
      BY <1>3 DEF MarkSeen, Marking
    <2>4. Marking(g)' = Marking(g) \ {w}
      BY <1>1, <1>3 DEF MarkSeen, TypeOK, Goto, Marking
    <2>5. Cardinality(Marking(g)') = Cardinality(Marking(g)) - 1
      BY <1>1, <2>3, <2>4, MarkingFinite, FS_RemoveElement, ZenonT(30)
    <2>6. seen'[g] + Cardinality(Marking(g)') <= Cardinality(Worker)
      <3>1. Cardinality(Marking(g)) \in Nat /\ Cardinality(Worker) \in Nat
            /\ Cardinality(Marking(g)) <= Cardinality(Worker)
        BY <1>1, MarkingFinite
      <3>2. seen[g] = 0 \/ seen[g] + Cardinality(Marking(g)) <= Cardinality(Worker)
        BY <1>1 DEF MarksBounded
      <3>. DEFINE a == seen[g]
                  b == Cardinality(Marking(g))
                  n == Cardinality(Worker)
                  c == Cardinality(Marking(g)')
      <3>3. a \in Nat /\ b \in Nat /\ n \in Nat /\ b <= n /\ c = b - 1
            /\ (a = 0 \/ a + b <= n) /\ seen'[g] = a + 1
        BY <2>2, <2>5, <3>1, <3>2
      <3>. HIDE DEF a, b, n, c
      <3>4. seen'[g] + c <= n
        BY <3>3
      <3>. QED
        BY <3>4 DEF c, n
    <2>7. ASSUME NEW h \in Hash
          PROVE  seen'[h] = 0 \/ seen'[h] + Cardinality(Marking(h)') <= Cardinality(Worker)
      <3>1. CASE h = g
        BY <2>6, <3>1
      <3>2. CASE h # g
        BY <1>1, <2>1, <3>2, FewerMarking
      <3>. QED
        BY <3>1, <3>2
    <2>. QED
      BY <2>7 DEF MarksBounded
  <1>. QED
    BY <1>2, <1>3

\* All other steps of a goroutine take it nowhere near marking.
LEMMA OtherWorkerStep ==
  ASSUME IInv, MarksBounded, NEW w \in Worker,
         \/ Deliver(w) \/ RejectKey(w) \/ CheckParent(w) \/ CheckChange(w)
         \/ RateLimit(w) \/ Store(w)
  PROVE  MarksBounded'
  <1>1. TypeOK
    BY DEF IInv
  <1>2. seen' = seen
    BY DEF Deliver, Receive, RejectKey, CheckParent, CheckChange, RateLimit,
           Store, CreateFile, FillFile, ListIdx, Link, Attach, DiskError, Send
  <1>3. /\ pc'[w] # "des"
        /\ \A v \in Worker \ {w} : pc'[v] = pc[v] /\ job'[v] = job[v]
    <2>1. CASE \E s \in Stage \ {"des"} : Goto(w, s)
      BY <1>1, <2>1 DEF TypeOK, Goto
    <2>2. CASE Return(w)
      BY <1>1, <2>2 DEF TypeOK, Return
    <2>3. CASE Deliver(w)
      BY <1>1, <2>3 DEF TypeOK, Deliver, Receive
    <2>. QED
      BY <2>1, <2>2, <2>3
      DEF RejectKey, CheckParent, CheckChange, RateLimit, Store, CreateFile,
          FillFile, ListIdx, Link, Attach, DiskError, Send, Stage
  <1>4. \A h \in Hash : Marking(h)' \subseteq Marking(h)
    BY <1>3 DEF Marking
  <1>. QED
    BY <1>1, <1>2, <1>4, FewerMarking DEF MarksBounded

\* Between two resets, and within one life of the process, a message is
\* accepted at most once by each goroutine, so a copy that arrives after the
\* first was marked is always dropped.
THEOREM CopiesOverlap == Spec => []DuplicatesOverlap
  <1>1. Init => MarksBounded
    BY DEF Init, MarksBounded
  <1>2. IInv /\ MarksBounded /\ [Next]_vars => MarksBounded'
    <2>. SUFFICES ASSUME IInv, MarksBounded, [Next]_vars
                  PROVE  MarksBounded'
      OBVIOUS
    <2>1. CASE \E w \in Worker : Deliver(w) \/ Verify(w) \/ Store(w)
      BY <2>1, CheckMark, OtherWorkerStep DEF Verify
    <2>2. CASE Reset \/ Crash
      BY <2>2 DEF Reset, Crash, MarksBounded
    <2>3. CASE (\E h \in Hash : Resend(h)) \/ Tick \/ UNCHANGED vars
      <3>1. seen' = seen /\ pc' = pc /\ job' = job
        BY <2>3 DEF Resend, Tick, vars
      <3>2. \A h \in Hash : Marking(h)' = Marking(h)
        BY <3>1 DEF Marking
      <3>. QED
        BY <3>1, <3>2, FewerMarking DEF MarksBounded, IInv
    <2>. QED
      BY <2>1, <2>2, <2>3 DEF Next
  <1>3. IInv /\ MarksBounded => DuplicatesOverlap
    <2>. SUFFICES ASSUME IInv, MarksBounded, NEW h \in Hash
                  PROVE  seen[h] <= Cardinality(Worker)
      BY DEF DuplicatesOverlap
    <2>1. seen[h] \in Nat
      BY DEF IInv, TypeOK
    <2>. QED
      BY <2>1, MarkingFinite DEF MarksBounded
  <1>. QED
    BY <1>1, <1>2, <1>3, Inductive, PTL DEF Spec
=============================================================================
