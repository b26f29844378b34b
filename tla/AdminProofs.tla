---------------------------- MODULE AdminProofs ----------------------------
(***************************************************************************)
(* Proofs about Admin for any number of suffixes, tokens, handlers and     *)
(* restarts.                                                               *)
(*                                                                         *)
(* A ban can be lost in two ways: by another handler that writes back a    *)
(* copy made before it, which the lock rules out (Copied), and by an unban *)
(* that was asked for before the ban was answered, which is why a ban      *)
(* counts only when no such unban is under way (Lifting).  Copied also     *)
(* makes each request one atomic change of the abstract deny list.         *)
(***************************************************************************)
EXTENDS Admin, TLAPS

\* A handler that is not idle has something to do.
Busy == \A b \in Banner : bpc[b] # "idle" => bjob[b] \in Job(Suffix)

\* Who has copied the map holds the lock, and the map is still the one copied.
Copied == \A b \in Banner : bpc[b] = "assign" =>
            lock = b /\ copy[b] = Changed(deny, bjob[b])

\* A suffix somebody is lifting does not count as banned.
Lifting == \A b \in Banner : bpc[b] # "idle" /\ ~bjob[b].add => bjob[b].what \notin banned

BanInv == TypeOK /\ Busy /\ Copied /\ Lifting /\ NoLostBan

\* changeMap keeps within a set that has the key.
LEMMA ChangedType ==
  ASSUME NEW S, NEW R \in SUBSET S, NEW j \in Job(S)
  PROVE  Changed(R, j) \subseteq S
  BY DEF Changed, Job

\* What is loaded from a file has its type.
LEMMA Loaded ==
  ASSUME TypeOK
  PROVE  /\ Denied(denyFile) \subseteq Suffix
         /\ Accepted(tokenFile) \in [Token \cup {Local} -> Url \cup {None}]
  <1>1. "" \in Url
    BY AdminAssumption
  <1>2. tokenFile \in {None} \cup [Token -> Url \cup {None}]
    BY DEF TypeOK
  <1>3. Accepted(tokenFile) \in [Token \cup {Local} -> Url \cup {None}]
    BY <1>1, <1>2 DEF Accepted
  <1>. QED
    BY <1>3 DEF TypeOK, Denied

\* The handlers of ban and unban.
LEMMA BanStep ==
  ASSUME BanInv, NEW b \in Banner,
         Ban(b) \/ \E x \in Suffix : BanBegin(b, x) \/ UnbanBegin(b, x)
  PROVE  BanInv'
  <1>. USE DEF BanInv, BStep, saving
  <1>1. ASSUME NEW x \in Suffix, BanBegin(b, x)
        PROVE  BanInv'
    <2>1. TypeOK' /\ Busy'
      BY <1>1 DEF BanBegin, TypeOK, Busy, Job
    <2>2. Copied' /\ Lifting' /\ NoLostBan'
      BY <1>1 DEF BanBegin, TypeOK, Copied, Lifting, NoLostBan
    <2>. QED
      BY <2>1, <2>2
  <1>2. ASSUME NEW x \in Suffix, UnbanBegin(b, x)
        PROVE  BanInv'
    <2>1. TypeOK' /\ Busy'
      BY <1>2 DEF UnbanBegin, TypeOK, Busy, Job
    <2>2. Copied' /\ Lifting' /\ NoLostBan'
      BY <1>2 DEF UnbanBegin, TypeOK, Copied, Lifting, NoLostBan
    <2>. QED
      BY <2>1, <2>2
  <1>3. CASE BCopy(b)
    <2>1. bjob[b] \in Job(Suffix) /\ Changed(deny, bjob[b]) \subseteq Suffix
      BY <1>3, ChangedType DEF BCopy, Busy, TypeOK
    <2>2. TypeOK' /\ Busy'
      BY <1>3, <2>1 DEF BCopy, TypeOK, Busy
    <2>3. Copied' /\ Lifting' /\ NoLostBan'
      BY <1>3, AdminAssumption DEF BCopy, TypeOK, Copied, Lifting, NoLostBan
    <2>. QED
      BY <2>2, <2>3
  <1>4. CASE BAssign(b)
    <2>1. bjob[b] \in Job(Suffix) /\ bpc[b] = "assign" /\ lock = b
      BY <1>4 DEF BAssign, Busy, Copied
    <2>2. deny' = Changed(deny, bjob[b])
      BY <1>4 DEF BAssign, Copied
    <2>3. banned' = banned \/ (bjob[b].add /\ banned' = banned \cup {bjob[b].what})
      BY <1>4 DEF BAssign
    <2>4. TypeOK' /\ Busy'
      <3>1. deny' \subseteq Suffix /\ banned' \subseteq Suffix
        BY <2>1, <2>2, <2>3, ChangedType DEF TypeOK, Job
      <3>. QED
        BY <1>4, <3>1 DEF BAssign, TypeOK, Busy
    <2>5. Copied'
      BY <1>4, <2>1 DEF BAssign, TypeOK, Copied
    <2>6. NoLostBan'
      BY <2>1, <2>2, <2>3 DEF Changed, NoLostBan, Lifting
    <2>7. Lifting'
      <3>. SUFFICES ASSUME NEW c \in Banner, bpc'[c] # "idle", ~bjob'[c].add
                    PROVE  bjob'[c].what \notin banned'
        BY DEF Lifting
      <3>1. c # b /\ bpc[c] # "idle" /\ bjob'[c] = bjob[c]
        BY <1>4 DEF BAssign, TypeOK
      <3>2. bjob[c] \in Job(Suffix) /\ bjob[c].what \notin banned /\ bjob[c].add = FALSE
        BY <3>1 DEF Busy, Lifting, Job
      <3>3. bjob[c] = [what |-> bjob[c].what, add |-> FALSE]
        BY <3>2 DEF Job
      <3>4. CASE bjob[c].what = bjob[b].what
        <4>1. banned' = banned
          BY <1>4, <3>3, <3>4 DEF BAssign
        <4>. QED
          BY <3>1, <3>2, <4>1
      <3>5. CASE bjob[c].what # bjob[b].what
        BY <2>3, <3>1, <3>2, <3>5
      <3>. QED
        BY <3>4, <3>5
    <2>. QED
      BY <2>4, <2>5, <2>6, <2>7
  <1>. QED
    BY <1>1, <1>2, <1>3, <1>4 DEF Ban

\* The handler of "neighbor" touches only the neighbours.
LEMMA KeepStep ==
  ASSUME BanInv, Keep
  PROVE  BanInv'
  <1>. USE DEF BanInv, denying, saving
  <1>1. Copied' /\ Lifting' /\ NoLostBan' /\ Busy'
    BY DEF Keep, SetNeighbour, DelNeighbour, Copied, Lifting, NoLostBan, Busy
  <1>2. tokens' \in [Token \cup {Local} -> Url \cup {None}]
    BY DEF Keep, SetNeighbour, DelNeighbour, TypeOK
  <1>3. TypeOK'
    BY <1>2 DEF Keep, SetNeighbour, DelNeighbour, TypeOK
  <1>. QED
    BY <1>1, <1>3

\* saveTask touches only the files.
LEMMA SaveStep ==
  ASSUME BanInv, Save
  PROVE  BanInv'
  <1>1. Copied' /\ Lifting' /\ NoLostBan' /\ Busy'
    BY DEF BanInv, Save, STruncDeny, SEncode, STruncToken, SWriteToken, denying,
           Copied, Lifting, NoLostBan, Busy
  <1>2. TypeOK'
    BY DEF BanInv, Save, STruncDeny, SEncode, STruncToken, SWriteToken, SStep,
           denying, TypeOK
  <1>. QED
    BY <1>1, <1>2 DEF BanInv

\* A restart forgets everything but the files.
LEMMA RestartStep ==
  ASSUME BanInv, Restart
  PROVE  BanInv'
  <1>1. TypeOK'
    <2>1. deny' \subseteq Suffix /\ tokens' \in [Token \cup {Local} -> Url \cup {None}]
      BY Loaded DEF BanInv, Restart
    <2>2. crashes' \in 0..MaxCrash
      <3>1. MaxCrash \in Nat
        BY AdminAssumption
      <3>2. crashes \in 0..MaxCrash /\ crashes < MaxCrash /\ crashes' = crashes + 1
        BY DEF BanInv, Restart, TypeOK
      <3>. QED
        BY <3>1, <3>2
    <2>3. /\ denyFile' \in {None} \cup SUBSET Suffix
          /\ tokenFile' \in {None} \cup [Token -> Url \cup {None}]
      BY DEF BanInv, Restart, TypeOK
    <2>4. /\ banned' \subseteq Suffix /\ lock' \in Banner \cup {None}
          /\ bpc' \in [Banner -> {"idle", "lock", "assign"}]
          /\ bjob' \in [Banner -> Job(Suffix) \cup {None}]
          /\ copy' \in [Banner -> SUBSET Suffix]
          /\ spc' \in {"sleep", "encode", "tokens", "write"}
          /\ snap' \in {None} \cup [Token -> Url \cup {None}]
      BY DEF Restart
    <2>. QED
      BY <2>1, <2>2, <2>3, <2>4, Zenon DEF TypeOK
  <1>2. Copied' /\ Lifting' /\ NoLostBan' /\ Busy'
    BY DEF Restart, Copied, Lifting, NoLostBan, Busy
  <1>. QED
    BY <1>1, <1>2 DEF BanInv

\* BanInv is an invariant of the operator's interface.
THEOREM AdminInductive == Spec => []BanInv
  <1>1. Init => BanInv
    <2>. SUFFICES ASSUME Init
                  PROVE  BanInv
      OBVIOUS
    <2>1. tokens \in [Token \cup {Local} -> Url \cup {None}]
      BY AdminAssumption DEF Init, Accepted
    <2>2. TypeOK
      <3>1. deny \subseteq Suffix /\ crashes \in 0..MaxCrash
        <4>1. MaxCrash \in Nat
          BY AdminAssumption
        <4>2. deny = Denied(denyFile) /\ denyFile \in {None, {}} /\ crashes = 0
          BY DEF Init
        <4>. QED
          BY <4>1, <4>2 DEF Denied
      <3>2. /\ banned \subseteq Suffix /\ lock \in Banner \cup {None}
            /\ bpc \in [Banner -> {"idle", "lock", "assign"}]
            /\ bjob \in [Banner -> Job(Suffix) \cup {None}]
            /\ copy \in [Banner -> SUBSET Suffix]
            /\ spc \in {"sleep", "encode", "tokens", "write"}
            /\ snap \in {None} \cup [Token -> Url \cup {None}]
        BY DEF Init
      <3>3. /\ denyFile \in {None} \cup SUBSET Suffix
            /\ tokenFile \in {None} \cup [Token -> Url \cup {None}]
        BY DEF Init
      <3>. QED
        BY <2>1, <3>1, <3>2, <3>3, Zenon DEF TypeOK
    <2>. QED
      BY <2>2 DEF Init, BanInv, Busy, Copied, Lifting, NoLostBan
  <1>2. BanInv /\ [Next]_vars => BanInv'
    <2>1. BanInv /\ UNCHANGED vars => BanInv'
      BY DEF BanInv, TypeOK, Busy, Copied, Lifting, NoLostBan, vars, denying, saving
    <2>. QED
      BY <2>1, BanStep, KeepStep, SaveStep, RestartStep DEF Next
  <1>. QED
    BY <1>1, <1>2, PTL DEF Spec

\* The maps, files and handlers of apiHandler and saveTask keep their types.
THEOREM AdminTypes == Spec => []TypeOK
  BY AdminInductive, PTL DEF BanInv

\* However many handlers ban and unban at once, no answered ban is lost.
THEOREM BansKept == Spec => []NoLostBan
  BY AdminInductive, PTL DEF BanInv

-----------------------------------------------------------------------------
\* A handler that is idle has nothing to do.
Rested == \A b \in Banner : bpc[b] = "idle" => bjob[b] = None

LEMMA RestedStep ==
  ASSUME BanInv, Rested, [Next]_vars
  PROVE  Rested'
  <1>1. ASSUME NEW b \in Banner,
               Ban(b) \/ \E x \in Suffix : BanBegin(b, x) \/ UnbanBegin(b, x)
        PROVE  Rested'
    BY <1>1 DEF Ban, BCopy, BAssign, BanBegin, UnbanBegin, BStep, Rested, BanInv, TypeOK
  <1>2. CASE Restart
    BY <1>2 DEF Restart, Rested
  <1>3. CASE UNCHANGED <<bpc, bjob>>
    BY <1>3 DEF Rested
  <1>4. CASE UNCHANGED vars \/ Save \/ Keep
    <2>1. UNCHANGED denying
      BY <1>4 DEF vars, Save, STruncDeny, SEncode, STruncToken, SWriteToken,
                  Keep, SetNeighbour, DelNeighbour
    <2>. QED
      BY <2>1, <1>3 DEF denying
  <1>. QED
    BY <1>1, <1>2, <1>4 DEF Next

\* The steps of ban and unban: a request is asked, and served at the swap.
LEMMA BanSim ==
  ASSUME BanInv, Rested, NEW b \in Banner,
         Ban(b) \/ \E x \in Suffix : BanBegin(b, x) \/ UnbanBegin(b, x)
  PROVE  [ListOfDenied!Next]_(ListOfDenied!vars)
  <1>1. ASSUME NEW x \in Suffix, BanBegin(b, x)
        PROVE  ListOfDenied!Ask(b, [what |-> x, add |-> TRUE])
    BY <1>1 DEF BanBegin, BStep, Rested, saving, ListOfDenied!Ask
  <1>2. ASSUME NEW x \in Suffix, UnbanBegin(b, x)
        PROVE  ListOfDenied!Ask(b, [what |-> x, add |-> FALSE])
    BY <1>2 DEF UnbanBegin, BStep, Rested, saving, ListOfDenied!Ask
  <1>3. CASE BCopy(b)
    BY <1>3 DEF BCopy, saving, ListOfDenied!vars
  <1>4. CASE BAssign(b)
    <2>1. bjob[b] \in ListOfDenied!Request /\ deny' = Changed(deny, bjob[b])
      BY <1>4 DEF BAssign, BStep, BanInv, Busy, Copied, Job, ListOfDenied!Request
    <2>2. ListOfDenied!Serve(b)
      BY <1>4, <2>1 DEF BAssign, saving, Changed, ListOfDenied!Serve
    <2>. QED
      BY <2>2 DEF ListOfDenied!Next
  <1>5. \A x \in Suffix, w \in BOOLEAN : [what |-> x, add |-> w] \in ListOfDenied!Request
    BY DEF ListOfDenied!Request
  <1>. QED
    BY <1>1, <1>2, <1>3, <1>4, <1>5 DEF Ban, ListOfDenied!Next

\* The steps of everybody else.
LEMMA OtherSim ==
  ASSUME UNCHANGED vars \/ Save \/ Restart \/ Keep
  PROVE  [ListOfDenied!Next]_(ListOfDenied!vars)
  <1>1. CASE Restart
    BY <1>1 DEF Restart, Denied, ListOfDenied!Restart, ListOfDenied!FromFile,
                ListOfDenied!Quiet, ListOfDenied!Next
  <1>2. CASE STruncDeny
    BY <1>2 DEF STruncDeny, denying, ListOfDenied!Truncate, ListOfDenied!Next
  <1>3. CASE SEncode
    BY <1>3 DEF SEncode, denying, ListOfDenied!Save, ListOfDenied!Next
  <1>4. CASE UNCHANGED vars \/ STruncToken \/ SWriteToken \/ Keep
    BY <1>4 DEF vars, denying, saving, STruncToken, SWriteToken, Keep, SetNeighbour,
                DelNeighbour, ListOfDenied!vars
  <1>. QED
    BY <1>1, <1>2, <1>3, <1>4 DEF Save

\* However its steps interleave with those of other requests, of saveTask and
\* of restarts, a ban or unban changes the deny list once, by its own suffix;
\* what a save leaves to be read is the list as it once was, and a restart
\* starts from it.
THEOREM DenyListRefinement == Spec => ImplementsDenyList
  <1>1. Init => Rested /\ ListOfDenied!Init
    BY DEF Init, Rested, Denied, ListOfDenied!Init, ListOfDenied!FromFile, ListOfDenied!Quiet
  <1>2. BanInv /\ Rested /\ [Next]_vars => Rested'
    BY RestedStep
  <1>3. BanInv /\ Rested /\ [Next]_vars => [ListOfDenied!Next]_(ListOfDenied!vars)
    BY BanSim, OtherSim DEF Next
  <1>. QED
    BY <1>1, <1>2, <1>3, AdminInductive, PTL DEF Spec, ImplementsDenyList, ListOfDenied!Spec
=============================================================================
