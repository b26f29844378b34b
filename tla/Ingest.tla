------------------------------- MODULE Ingest -------------------------------
(***************************************************************************)
(* The ingest pipeline of one kep-edge node: what checkAndVeify_kep        *)
(* (server.go), ParseAndVerify, IngestMDB (verify/verify.go) and ReadHash  *)
(* (kepdb/kepdb.go) do to the files of kep-data and to the map of messages *)
(* already seen.  handleMsg starts one goroutine per "data" message and    *)
(* answers +OK at once; here a Worker is such a goroutine, and every step  *)
(* between two accesses to shared state is an action of its own.           *)
(*                                                                         *)
(* Abstracted: signatures, hashes and the DNS answers, which decide only   *)
(* whether a delivery is dropped (a drop that leaves the state alone is a  *)
(* delivery that never happened, or a step to "idle"); the deny list and   *)
(* the rate limiters, which drop too; the network behind Nextmsg (Sent is  *)
(* what was handed to it); a name of which a failed write leaves a part in *)
(* a thread file.  Time is in ticks of any length.                         *)
(***************************************************************************)
EXTENDS Integers, FiniteSets

CONSTANTS
  Worker,   \* the goroutines that may run at the same time
  Hash,     \* the messages, named by t_hash
  Author,   \* pairs of a domain and its main key
  None,     \* no message: an empty pointer, an idle worker's job
  Post,     \* Post[h]: what the author of h signed
  Arrives,  \* the values of the unsigned second tag that deliveries carry
  Token,    \* the tokens msgHandler accepts
  Local,    \* Skip_token, the token of the node's own user
  MaxTag,   \* the last public tag
  Window,   \* how far a post's time may be from the node's clock
  Period,   \* ticks between two resets of the seen map (one hour)
  MaxTime,  \* bound on the clock
  MaxCrash  \* bound on the number of crashes

Tag == 0..65535
PublicTag == 0..65533
ReplyTag == 0          \* the only public tag a message with a target may have
ChangeTag == 65534     \* an edit of an existing message
PrivateTag == 65535    \* a private message

PostType == [tag : Tag, target : Hash \cup {None}, root : Hash \cup {None},
             author : Author, perm : 0..255, time : Int]

ASSUME WorkerAssumption == IsFiniteSet(Worker)

ASSUME ConstantsAssumption ==
  /\ None \notin Hash
  /\ Post \in [Hash -> PostType]
  /\ \A h \in Hash : Post[h].root # None => Post[h].target # None
  /\ Arrives \subseteq Tag
  /\ MaxTag \in PublicTag
  /\ Window \in Nat /\ Period \in Nat /\ MaxTime \in Nat /\ MaxCrash \in Nat

VARIABLES
  now,     \* the node's clock
  epoch,   \* when the seen map was last emptied
  crashes, \* crashes so far
  seen,    \* ttlMap: seen[h] counts the Stores of h; Load finds h iff it is > 0
  file,    \* <<t, h>>: kep-data/<t>/<h>.mdb exists
  whole,   \* those of them that hold the whole message
  idx,     \* <<t, h>>: tag_<t>.idx has a line for h
  idxFile, \* t: tag_<t>.idx exists
  used,    \* kepdb.usedTags: the tags whose index existed at the last start
  open,    \* h: kep-data/index/<h>.txt exists
  sub,     \* sub[p]: the messages listed in index/<p>.txt
  pc,      \* where each worker is
  job,     \* what it works on: hash, second tag and sending token
  sent     \* messages handed to Nextmsg

disk == <<file, whole, idx, idxFile, open, sub>>
vars == <<now, epoch, crashes, seen, disk, used, pc, job, sent>>

Job == [hash : Hash, tag : Tag, from : Token]
NoJob == None

Stage == {"idle", "seen", "des", "parent", "change", "limit", "fill",
          "list", "link", "attach", "send"}

-----------------------------------------------------------------------------
(* What the code can tell about a message and about the disk.              *)

IsEdit(h) == Post[h].tag = ChangeTag
IsPrivate(h) == Post[h].tag = PrivateTag
HasTarget(h) == Post[h].target # None
HasRoot(h) == Post[h].root # None

\* checkAndVeify_kep: a message with a target is a reply or an edit.
PointerFits(h) == HasTarget(h) => Post[h].tag \in {ReplyTag, ChangeTag}

\* ParseAndVerify: the post's time is close to the node's clock.
Fresh(h) == now - Post[h].time \in -Window..Window

\* ParseAndVerify: public tags are at most MaxTag, the second one too.
TagInRange(h, t) == Post[h].tag < ChangeTag => Post[h].tag <= MaxTag /\ t <= MaxTag

\* Messages with a line in some tag index, and with a file.
Listed == {x[2] : x \in idx}
Stored == {x[2] : x \in file}

\* ensureParent: the target's thread file exists; for a target that lives in
\* another message's thread, that thread file exists and names the target.
ParentThere(h) == IF HasRoot(h)
                  THEN Post[h].root \in open /\ Post[h].target \in sub[Post[h].root]
                  ELSE Post[h].target \in open

\* kepdb.findFileByIndex looks only under the tags of the last start.  It
\* finds every message listed there, and may find one that has a file but no
\* line when another message shares the first two bytes of its hash.
Candidates(h) == {x \in file : x[2] = h /\ x[1] \in used}
MustFind(h) == \E t \in used : <<t, h>> \in idx

\* ReadHash returns a whole message, which Resolv can parse.
ReadOK(h) == \E x \in Candidates(h) : x \in whole
ReadFails(h) == ~MustFind(h) \/ \E x \in Candidates(h) : x \notin whole

-----------------------------------------------------------------------------
Init == /\ now = 0 /\ epoch = 0 /\ crashes = 0
        /\ seen = [h \in Hash |-> 0]
        /\ file = {} /\ whole = {} /\ idx = {} /\ idxFile = {} /\ used = {}
        /\ open = {} /\ sub = [h \in Hash |-> {}]
        /\ pc = [w \in Worker |-> "idle"]
        /\ job = [w \in Worker |-> NoJob]
        /\ sent = {}

\* A worker's next stage, and the end of a goroutine, with or without error.
Goto(w, stage) == /\ pc' = [pc EXCEPT ![w] = stage]
                  /\ UNCHANGED job
Return(w) == /\ pc' = [pc EXCEPT ![w] = "idle"]
             /\ job' = [job EXCEPT ![w] = NoJob]

node == <<now, epoch, crashes, used>>

\* A delivery that passes the checks that read no shared state: the pointer
\* against the tag, the time window, the signatures.  Any other delivery is
\* answered and forgotten.
Receive(w, h, t, from) ==
  /\ pc[w] = "idle"
  /\ PointerFits(h) /\ Fresh(h)
  /\ pc' = [pc EXCEPT ![w] = "seen"]
  /\ job' = [job EXCEPT ![w] = [hash |-> h, tag |-> t, from |-> from]]
  /\ UNCHANGED <<now, epoch, crashes, used, seen, disk, sent>>

\* Mutant: a copy of a message already marked is accepted like the first.
AcceptCopy(w) ==
  /\ pc[w] = "seen"
  /\ IF TagInRange(job[w].hash, job[w].tag) THEN Goto(w, "des") ELSE Return(w)
  /\ UNCHANGED <<node, seen, disk, sent>>

\* The tag range and the seen map, read before the DNS lookup of the
\* author's key digests.
CheckSeen(w) ==
  /\ pc[w] = "seen"
  /\ IF TagInRange(job[w].hash, job[w].tag) /\ seen[job[w].hash] = 0
     THEN Goto(w, "des") ELSE Return(w)
  /\ UNCHANGED <<node, seen, disk, sent>>

\* The lookup is over and the digest may be known; a special tag must have
\* arrived unchanged.  Only now is the message marked as seen.
MarkSeen(w) ==
  LET h == job[w].hash IN
  /\ pc[w] = "des"
  /\ Post[h].tag >= ChangeTag => job[w].tag = Post[h].tag
  /\ seen' = [seen EXCEPT ![h] = @ + 1]
  /\ Goto(w, "parent")
  /\ UNCHANGED <<node, disk, sent>>

\* The lookup failed, the digest is unknown or the special tag was changed.
RejectKey(w) ==
  /\ pc[w] = "des"
  /\ Return(w)
  /\ UNCHANGED <<node, seen, disk, sent>>

\* Mutant: the target is not looked up.
SkipParent(w) ==
  LET h == job[w].hash IN
  /\ pc[w] = "parent"
  /\ IF IsEdit(h) \/ HasRoot(h) THEN Goto(w, "change") ELSE Goto(w, "limit")
  /\ UNCHANGED <<node, seen, disk, sent>>

\* The target must be known; an edit must have one.
CheckParent(w) ==
  LET h == job[w].hash IN
  /\ pc[w] = "parent"
  /\ CASE HasTarget(h) /\ ~ParentThere(h) -> Return(w)
       [] HasTarget(h) /\ ParentThere(h) ->
            Goto(w, IF IsEdit(h) \/ HasRoot(h) THEN "change" ELSE "limit")
       [] ~HasTarget(h) -> IF IsEdit(h) THEN Return(w) ELSE Goto(w, "limit")
  /\ UNCHANGED <<node, seen, disk, sent>>

\* Mutant: the edited message is read, its author is not compared.
SkipAuthor(w) ==
  LET h == job[w].hash IN
  /\ pc[w] = "change"
  /\ IF ReadOK(Post[h].target) /\ IsEdit(h) THEN Goto(w, "limit") ELSE Return(w)
  /\ UNCHANGED <<node, seen, disk, sent>>

\* Only the author of a message may edit it, and only an edit may point
\* into another message's thread.
CheckChange(w) ==
  LET h == job[w].hash
      p == Post[h].target IN
  /\ pc[w] = "change"
  /\ \/ /\ ReadOK(p) /\ Post[p].author = Post[h].author /\ IsEdit(h)
        /\ Goto(w, "limit")
     \/ /\ ReadFails(p) \/ Post[p].author # Post[h].author \/ ~IsEdit(h)
        /\ Return(w)
  /\ UNCHANGED <<node, seen, disk, sent>>

\* Mutant: a limited message is not stored but still forwarded.
ForwardLimited(w) ==
  /\ pc[w] = "limit"
  /\ Goto(w, "send")
  /\ UNCHANGED <<node, seen, disk, sent>>

\* A rate limiter drops the message, or a private one lacks permission 255.
RateLimit(w) ==
  /\ pc[w] = "limit"
  /\ Return(w)
  /\ UNCHANGED <<node, seen, disk, sent>>

\* Past the limiters, os.WriteFile opens the message's file, which truncates
\* the file if it exists...
CreateFile(w) ==
  LET h == job[w].hash IN
  /\ pc[w] = "limit"
  /\ IsPrivate(h) => Post[h].perm = 255
  /\ file' = file \cup {<<job[w].tag, h>>}
  /\ whole' = whole \ {<<job[w].tag, h>>}
  /\ Goto(w, "fill")
  /\ UNCHANGED <<node, seen, idx, idxFile, open, sub, sent>>

\* Mutant: the file is written under the signed tag, not the second one.
FillSignedTag(w) ==
  /\ pc[w] = "fill"
  /\ whole' = whole \cup {<<Post[job[w].hash].tag, job[w].hash>>}
  /\ Goto(w, "list")
  /\ UNCHANGED <<node, seen, file, idx, idxFile, open, sub, sent>>

\* ... and then writes it.
FillFile(w) ==
  /\ pc[w] = "fill"
  /\ whole' = whole \cup {<<job[w].tag, job[w].hash>>}
  /\ Goto(w, "list")
  /\ UNCHANGED <<node, seen, file, idx, idxFile, open, sub, sent>>

\* The line in tag_<t>.idx, which is created with its first handle.
ListIdx(w) ==
  /\ pc[w] = "list"
  /\ idxFile' = idxFile \cup {job[w].tag}
  /\ idx' = idx \cup {<<job[w].tag, job[w].hash>>}
  /\ Goto(w, "link")
  /\ UNCHANGED <<node, seen, file, whole, open, sub, sent>>

\* AppendSubIndex opens a thread file: a message without a target gets an
\* empty one (os.Create truncates), for the others the file of their target is
\* created if it does not exist...
Link(w) ==
  LET h == job[w].hash
      p == Post[h].target IN
  /\ pc[w] = "link"
  /\ IF HasTarget(h)
     THEN open' = open \cup {p} /\ UNCHANGED sub /\ Goto(w, "attach")
     ELSE /\ open' = open \cup {h}
          /\ sub' = [sub EXCEPT ![h] = {}]
          /\ Goto(w, "send")
  /\ UNCHANGED <<node, seen, file, whole, idx, idxFile, sent>>

\* Mutant: an edit of a reply joins the thread of the root.
AttachToRoot(w) ==
  LET h == job[w].hash
      p == IF HasRoot(h) THEN Post[h].root ELSE Post[h].target IN
  /\ pc[w] = "attach"
  /\ sub' = [sub EXCEPT ![p] = @ \cup {h}]
  /\ Goto(w, "send")
  /\ UNCHANGED <<node, seen, file, whole, idx, idxFile, open, sent>>

\* ... and only then is the message's name appended to it.
Attach(w) ==
  LET h == job[w].hash
      p == Post[h].target IN
  /\ pc[w] = "attach"
  /\ sub' = [sub EXCEPT ![p] = @ \cup {h}]
  /\ Goto(w, "send")
  /\ UNCHANGED <<node, seen, file, whole, idx, idxFile, open, sent>>

\* Mutant: an error of WriteMDB does not keep the thread from being linked.
IgnoreListError(w) ==
  /\ pc[w] \in {"fill", "list", "link", "attach"}
  /\ IF pc[w] = "list" THEN Goto(w, "link") ELSE Return(w)
  /\ UNCHANGED <<node, seen, disk, sent>>

\* A system call of the steps above fails and ingest ends there, with all that
\* the earlier calls left on the disk (if it is the first, as if the message had
\* been dropped before); the index file may have been created before the write
\* to it failed.
DiskError(w) ==
  /\ pc[w] \in {"fill", "list", "link", "attach"}
  /\ \/ idxFile' = idxFile
     \/ pc[w] = "list" /\ idxFile' = idxFile \cup {job[w].tag}
  /\ Return(w)
  /\ UNCHANGED <<node, seen, file, whole, idx, open, sub, sent>>

\* Forward to the neighbours; a private message only when it is our own.
Send(w) ==
  /\ pc[w] = "send"
  /\ sent' = IF IsPrivate(job[w].hash) /\ job[w].from # Local
             THEN sent ELSE sent \cup {job[w].hash}
  /\ Return(w)
  /\ UNCHANGED <<node, seen, disk>>

\* The operator's "resend" of apiHandler: read a message back and forward it.
Resend(h) ==
  /\ ReadOK(h)
  /\ sent' = sent \cup {h}
  /\ UNCHANGED <<node, seen, disk, pc, job>>

\* NewTTLMap replaces the map of seen messages every Period ticks.
Reset ==
  /\ now >= epoch + Period
  /\ seen' = [h \in Hash |-> 0]
  /\ epoch' = now
  /\ UNCHANGED <<now, crashes, used, disk, pc, job, sent>>

Tick ==
  /\ now < MaxTime
  /\ now' = now + 1
  /\ UNCHANGED <<epoch, crashes, used, seen, disk, pc, job, sent>>

\* The process dies and is started again: goroutines and the seen map are
\* gone, the disk stays, and kepdb.index_Init looks for index files.
Crash ==
  /\ crashes < MaxCrash
  /\ crashes' = crashes + 1
  /\ seen' = [h \in Hash |-> 0]
  /\ epoch' = now
  /\ used' = idxFile
  /\ pc' = [w \in Worker |-> "idle"]
  /\ job' = [w \in Worker |-> NoJob]
  /\ UNCHANGED <<now, disk, sent>>

Deliver(w) == \E h \in Hash, t \in Arrives, from \in Token :
                Receive(w, h, t, from)

Verify(w) == CheckSeen(w) \/ MarkSeen(w) \/ RejectKey(w) \/ CheckParent(w)
             \/ CheckChange(w) \/ RateLimit(w)

Store(w) == CreateFile(w) \/ FillFile(w) \/ ListIdx(w) \/ Link(w)
            \/ Attach(w) \/ DiskError(w) \/ Send(w)

Next == \/ \E w \in Worker : Deliver(w) \/ Verify(w) \/ Store(w)
        \/ \E h \in Hash : Resend(h)
        \/ Reset \/ Tick \/ Crash

Spec == Init /\ [][Next]_vars

-----------------------------------------------------------------------------
(* Properties.                                                             *)

\* The variables have their types (the one type invariant of this module).
TypeOK ==
  /\ now \in Nat /\ epoch \in Nat /\ crashes \in Nat
  /\ seen \in [Hash -> Nat]
  /\ file \subseteq Tag \X Hash /\ whole \subseteq file /\ idx \subseteq Tag \X Hash
  /\ idxFile \subseteq Tag /\ used \subseteq Tag
  /\ open \subseteq Hash /\ sub \in [Hash -> SUBSET Hash]
  /\ pc \in [Worker -> Stage] /\ job \in [Worker -> Job \cup {NoJob}]
  /\ sent \subseteq Hash

\* Whatever crashes, disk errors and interleavings leave behind, the disk can
\* be read from the top down: a listed message has a file, a thread file
\* belongs to a listed message, and so does every name in it.
IndexClosed ==
  /\ idx \subseteq file
  /\ open \subseteq Listed
  /\ \A p \in Hash : sub[p] # {} => p \in open /\ sub[p] \subseteq Listed

\* A thread names only messages that point to its head, and an edit found
\* there was written by the author of the message it edits.
EditsByAuthor ==
  \A p \in Hash : \A c \in sub[p] :
    Post[c].target = p /\ (IsEdit(c) => Post[c].author = Post[p].author)

\* Nothing is forwarded that the node could not answer for: every message
\* handed to the neighbours, by a goroutine or by "resend", has a file here,
\* whatever failed or crashed before and after.
ForwardedIsStored == sent \subseteq Stored

\* Within one life of the seen map a message is accepted at most once by each
\* goroutine that was already under way: a delivery that begins after the
\* message was marked is never accepted again.
DuplicatesOverlap == \A h \in Hash : seen[h] <= Cardinality(Worker)

\* The files implement the abstract archive, however the steps interleave.
Archive == INSTANCE Forum WITH stored <- Stored, listed <- Listed,
                               thread <- sub, EditTag <- ChangeTag
ImplementsForum == Archive!Spec

\* verify.go 395: a duplicate is dropped.  So no goroutine lists a message
\* that some index lists already.
ListedOnce ==
  [][\A w \in Worker : pc[w] = "list" /\ pc'[w] = "link"
                         => job[w].hash \notin Listed]_vars

\* verify.go 396: a message refused because it "already exists" is stored, or
\* another goroutine is about to store it.
RefusedExists ==
  [][\A w \in Worker :
       pc[w] = "seen" /\ pc'[w] = "idle" /\ crashes' = crashes
       /\ TagInRange(job[w].hash, job[w].tag)
         => \/ job[w].hash \in Stored
            \/ \E v \in Worker \ {w} : pc[v] # "idle" /\ job[v].hash = job[w].hash]_vars
=============================================================================
