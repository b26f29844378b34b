--------------------------- MODULE KeyCacheProofs ---------------------------
(***************************************************************************)
(* Proofs about KeyCache for any keys, messages, times and changes.        *)
(*                                                                         *)
(* Two facts are followed from the author's records to the verdict on a    *)
(* message: how old the newest of what is there can be (Recent), and since *)
(* when nothing published is missing (Holds).  Both are known of the       *)
(* file's records, of an answer a goroutine has in its hands, and of the   *)
(* lists in the structs, with the bound that belongs to the place.  They   *)
(* survive the change of what is published because every bound lies in     *)
(* the past, and the reuse of a struct because nobody has it.              *)
(***************************************************************************)
EXTENDS KeyCache, TLAPS

\* Every posting key published since time t is in the list.
Holds(des, t) == \A d \in Digest : Standing(d, t) => d \in des

\* All of them were published at time t or later.
AllRecent(des, t) == \A d \in des : Recent(d, t)

\* Goroutines and clocks.
Times ==
  /\ now <= resetAt /\ resetAt <= now + Hour /\ dns.lastupdate <= now
  /\ \A w \in Worker :
       work[w].pc # "idle" => work[w].at <= now /\ now <= work[w].at + Delay
  /\ \A e \in Entry : heap[e].last <= now
  /\ \A x \in Key \cup Digest : from[x] >= 0

\* What a goroutine has in its hands at each stage.
Handy(r) ==
  /\ r.pc = "idle" => r.back = "idle"
  /\ r.pc # "idle" => r.back \in {"key", "scan", "rescan"}
  /\ r.entry # Nil <=> r.back \in {"scan", "rescan"}
  /\ r.pc \in {"last", "scan", "check", "rescan"} => r.entry # Nil
  /\ r.pc \in {"check", "rescan"} \/ r.back = "rescan" => r.digest \in Digest
  /\ r.pc = "got" => r.got \in Zone
  /\ r.pc \in {"stat", "read"} => local

Shape == /\ \A w \in Worker : Handy(work[w])
         /\ cache # Nil => heap[cache].key \in Key

\* The file's records are those of the last look, and the file's as long as its
\* time of modification is the one noted, but for a goroutine about to read.
RecordsKnown ==
  local =>
    /\ \A x \in {dns.records.key} \cup dns.records.des : Recent(x, dns.lastupdate)
    /\ Holds(dns.records.des, dns.lastupdate - 1)
    /\ dns.lasttime = mtime /\ (\A w \in Worker : work[w].pc # "read") =>
         dns.records = zone

\* How old the keys in the map, in a struct in use and in an answer can be.
KeysRecent ==
  /\ cache # Nil => /\ AllRecent(heap[cache].des, resetAt - Hour - Lag)
                    /\ Recent(heap[cache].key, resetAt - Hour - Delay - Lag)
  /\ \A w \in Worker : work[w].entry # Nil =>
       AllRecent(heap[work[w].entry].des, work[w].at - Hour - Lag)
  /\ \A w \in Worker : work[w].pc = "got" =>
       /\ Recent(work[w].got.key, work[w].at - Lag)
       /\ work[w].entry # Nil /\ work[w].entry = cache =>
            AllRecent(work[w].got.des, resetAt - Hour - Lag)
       /\ \A v \in Worker : work[w].entry # Nil /\ work[v].entry = work[w].entry =>
            AllRecent(work[w].got.des, work[v].at - Hour - Lag)

\* Since when no posting key is missing in a struct and in an answer.
ListsHold ==
  /\ \A e \in Entry : Holds(heap[e].des, heap[e].last - Delay - 1 - Lag)
  /\ \A w \in Worker :
       /\ work[w].pc = "got" => Holds(work[w].got.des, work[w].at - 1 - Lag)
       /\ work[w].pc \in {"last", "rescan"} =>
            Holds(heap[work[w].entry].des, work[w].at - Delay - 1 - Lag)

\* A goroutine whose list nobody has replaced does not find its digest there.
NotThere ==
  \A w \in Worker : work[w].pc = "check" /\ ~work[w].raced =>
    work[w].digest \notin heap[work[w].entry].des

KInv == /\ Times /\ Shape /\ NotThere
        /\ ~excused => RecordsKnown /\ KeysRecent /\ ListsHold

-----------------------------------------------------------------------------
(* Types.                                                                  *)

LEMMA Bounds ==
  /\ Renew \in Nat /\ Renew > 0 /\ Hour \in Nat /\ Reload \in Nat /\ Delay \in Nat
  /\ Nil \notin Key /\ Nil \notin Digest /\ Nil \notin Entry /\ Nil \notin Worker
  /\ Never \in Int /\ Lag \in Nat
  BY KeyCacheAssumption DEF Never, Lag

LEMMA IdleIsWork == Idle \in Work
  BY DEF Work, Idle, Stage

LEMMA TypeInit == Init => TypeOK
  <1>. SUFFICES ASSUME Init PROVE TypeOK
    OBVIOUS
  <1>1. zone \in Zone /\ mtime \in Int /\ now = 0 /\ Version \subseteq Zone
    BY KeyCacheAssumption DEF Init
  <1>2. dns \in [records : Zone, lasttime : Int, lastupdate : Nat,
                 lock : Worker \cup {Nil}] /\ dns.lock = Nil
    BY <1>1 DEF Init, LocalDNS
  <1>3. heap \in [Entry -> Struct] /\ cache \in Entry \cup {Nil}
    BY DEF Init, Struct
  <1>4. work \in [Worker -> Work] /\ \A w \in Worker : work[w] = Idle
    BY IdleIsWork DEF Init
  <1>5. resetAt \in Nat /\ local \in BOOLEAN /\ excused \in BOOLEAN /\ changes \in Nat
    BY Bounds DEF Init
  <1>6. from \in [Key \cup Digest -> Int] /\ upto \in [Key \cup Digest -> Int]
    BY Bounds DEF Init
  <1>7. \A w \in Worker : work[w].pc \in {"stat", "read"} <=> dns.lock = w
    BY <1>2, <1>4, Bounds DEF Idle
  <1>. QED
    BY <1>1, <1>2, <1>3, <1>4, <1>5, <1>6, <1>7 DEF TypeOK

\* Only w's work changes, and keeps its type.
Only(w) == work' = [work EXCEPT ![w] = work'[w]] /\ work'[w] \in Work

\* What the steps of a goroutine leave of its work.
LEMMA StepGoes ==
  ASSUME TypeOK, NEW w \in Worker, NEW s \in Stage,
         work' = [work EXCEPT ![w].pc = s]
  PROVE  /\ Only(w)
         /\ work'[w].pc = s /\ work'[w].digest = work[w].digest
         /\ work'[w].at = work[w].at /\ work'[w].entry = work[w].entry
         /\ work'[w].got = work[w].got /\ work'[w].back = work[w].back
         /\ work'[w].raced = work[w].raced
  <1>. DEFINE q == [work[w] EXCEPT !.pc = s]
  <1>1. work \in [Worker -> Work] /\ work[w] \in Work
    BY DEF TypeOK
  <1>2. work' = [work EXCEPT ![w] = q]
    BY <1>1
  <1>3. work'[w] = q
    BY <1>1, <1>2
  <1>. HIDE DEF q
  <1>4. work' = [work EXCEPT ![w] = work'[w]]
    BY <1>2, <1>3
  <1>. QED
    BY <1>1, <1>3, <1>4 DEF Only, Work, Stage, q

LEMMA StepAnswer ==
  ASSUME TypeOK, NEW w \in Worker, NEW z \in Zone,
         Answered(w, z)
  PROVE  /\ Only(w)
         /\ work'[w].pc = "got" /\ work'[w].digest = work[w].digest
         /\ work'[w].at = work[w].at /\ work'[w].entry = work[w].entry
         /\ work'[w].got = z /\ work'[w].back = work[w].back
         /\ work'[w].raced = work[w].raced
  <1>. DEFINE q == [work[w] EXCEPT !.pc = "got", !.got = z]
  <1>1. work \in [Worker -> Work] /\ work[w] \in Work
    BY DEF TypeOK
  <1>2. work' = [work EXCEPT ![w] = q]
    BY <1>1 DEF Answered
  <1>3. work'[w] = q
    BY <1>1, <1>2
  <1>. HIDE DEF q
  <1>4. work' = [work EXCEPT ![w] = work'[w]]
    BY <1>2, <1>3
  <1>. QED
    BY <1>1, <1>3, <1>4 DEF Only, Work, Stage, q

LEMMA StepEntry ==
  ASSUME TypeOK, NEW w \in Worker, NEW e \in Entry,
         work' = [work EXCEPT ![w].pc = "scan", ![w].entry = e, ![w].back = "scan",
                              ![w].got = NoRecords]
  PROVE  /\ Only(w)
         /\ work'[w].pc = "scan" /\ work'[w].digest = work[w].digest
         /\ work'[w].at = work[w].at /\ work'[w].entry = e
         /\ work'[w].got = NoRecords /\ work'[w].back = "scan"
         /\ work'[w].raced = work[w].raced
  <1>. DEFINE q == [work[w] EXCEPT !.pc = "scan", !.entry = e, !.back = "scan",
                                    !.got = NoRecords]
  <1>1. work \in [Worker -> Work] /\ work[w] \in Work
    BY DEF TypeOK
  <1>2. work' = [work EXCEPT ![w] = q]
    BY <1>1
  <1>3. work'[w] = q
    BY <1>1, <1>2
  <1>. HIDE DEF q
  <1>4. work' = [work EXCEPT ![w] = work'[w]]
    BY <1>2, <1>3
  <1>. QED
    BY <1>1, <1>3, <1>4 DEF Only, Work, Stage, q

LEMMA StepMayRenew ==
  ASSUME TypeOK, NEW w \in Worker, NEW d \in Digest, NEW b \in BOOLEAN,
         work' = [work EXCEPT ![w].pc = "check", ![w].digest = d, ![w].raced = b]
  PROVE  /\ Only(w)
         /\ work'[w].pc = "check" /\ work'[w].digest = d
         /\ work'[w].at = work[w].at /\ work'[w].entry = work[w].entry
         /\ work'[w].got = work[w].got /\ work'[w].back = work[w].back
         /\ work'[w].raced = b
  <1>. DEFINE q == [work[w] EXCEPT !.pc = "check", !.digest = d, !.raced = b]
  <1>1. work \in [Worker -> Work] /\ work[w] \in Work
    BY DEF TypeOK
  <1>2. work' = [work EXCEPT ![w] = q]
    BY <1>1
  <1>3. work'[w] = q
    BY <1>1, <1>2
  <1>. HIDE DEF q
  <1>4. work' = [work EXCEPT ![w] = work'[w]]
    BY <1>2, <1>3
  <1>. QED
    BY <1>1, <1>3, <1>4 DEF Only, Work, Stage, q

LEMMA StepRenews ==
  ASSUME TypeOK, NEW w \in Worker,
         work' = [work EXCEPT ![w].pc = "ask", ![w].back = "rescan", ![w].raced = FALSE]
  PROVE  /\ Only(w)
         /\ work'[w].pc = "ask" /\ work'[w].digest = work[w].digest
         /\ work'[w].at = work[w].at /\ work'[w].entry = work[w].entry
         /\ work'[w].got = work[w].got /\ work'[w].back = "rescan"
         /\ work'[w].raced = FALSE
  <1>. DEFINE q == [work[w] EXCEPT !.pc = "ask", !.back = "rescan", !.raced = FALSE]
  <1>1. work \in [Worker -> Work] /\ work[w] \in Work
    BY DEF TypeOK
  <1>2. work' = [work EXCEPT ![w] = q]
    BY <1>1
  <1>3. work'[w] = q
    BY <1>1, <1>2
  <1>. HIDE DEF q
  <1>4. work' = [work EXCEPT ![w] = work'[w]]
    BY <1>2, <1>3
  <1>. QED
    BY <1>1, <1>3, <1>4 DEF Only, Work, Stage, q

LEMMA StepEnds ==
  ASSUME TypeOK, NEW w \in Worker, Ends(w)
  PROVE  /\ Only(w) /\ work'[w] = Idle
         /\ work'[w].pc = "idle" /\ work'[w].back = "idle" /\ work'[w].entry = Nil
  <1>1. work'[w] = Idle /\ work' = [work EXCEPT ![w] = Idle]
    BY DEF Ends, TypeOK
  <1>2. Idle.pc = "idle" /\ Idle.back = "idle" /\ Idle.entry = Nil
    BY DEF Idle
  <1>. QED
    BY <1>1, <1>2, IdleIsWork DEF Only

LEMMA StepBegins ==
  ASSUME TypeOK, NEW w \in Worker, NEW s \in Stage, NEW e \in Entry \cup {Nil},
         NEW b \in {"key", "scan"}, Begins(w, s, e, b)
  PROVE  /\ Only(w)
         /\ work'[w].pc = s /\ work'[w].at = now
         /\ work'[w].entry = e /\ work'[w].back = b
         /\ work[w].pc = "idle" /\ UNCHANGED <<world, dns, cache, heap, excused>>
  <1>. DEFINE q == [Idle EXCEPT !.pc = s, !.at = now, !.entry = e, !.back = b]
  <1>1. work \in [Worker -> Work] /\ now \in Int
    BY DEF TypeOK
  <1>2. /\ work' = [work EXCEPT ![w] = q] /\ work[w].pc = "idle"
        /\ UNCHANGED <<world, dns, cache, heap, excused>>
    BY DEF Begins
  <1>3. work'[w] = q
    BY <1>1, <1>2
  <1>. HIDE DEF q
  <1>4. work' = [work EXCEPT ![w] = work'[w]]
    BY <1>2, <1>3
  <1>5. q \in Work /\ q.pc = s /\ q.at = now /\ q.entry = e /\ q.back = b
    BY <1>1 DEF q, Idle, Work, Stage
  <1>. QED
    BY <1>2, <1>3, <1>4, <1>5 DEF Only

\* PutDes: w has stored its list, and those about to look at the time of the old one
\* have raced.
LEMMA StepDes ==
  ASSUME TypeOK, NEW w \in Worker, PutDes(w)
  PROVE  /\ work' \in [Worker -> Work]
         /\ work'[w].pc = "last" /\ work'[w].raced = work[w].raced
         /\ \A v \in Worker :
              /\ work'[v].digest = work[v].digest /\ work'[v].at = work[v].at
              /\ work'[v].entry = work[v].entry /\ work'[v].back = work[v].back
              /\ v # w => work'[v].pc = work[v].pc /\ work'[v].got = work[v].got
              /\ v # w /\ work[v].pc = "check" /\ work[v].entry = work[w].entry =>
                   work'[v].raced
              /\ v # w /\ ~(work[v].pc = "check" /\ work[v].entry = work[w].entry) =>
                   work'[v].raced = work[v].raced
  <1>1. work \in [Worker -> Work]
    BY DEF TypeOK
  <1>2. work'[w] = [work[w] EXCEPT !.pc = "last", !.got = NoRecords]
    BY DEF PutDes
  <1>3. ASSUME NEW v \in Worker, v # w
        PROVE  work'[v] = IF work[v].pc = "check" /\ work[v].entry = work[w].entry
                          THEN [work[v] EXCEPT !.raced = TRUE] ELSE work[v]
    BY <1>3 DEF PutDes
  <1>4. /\ work'[w] \in Work /\ work'[w].pc = "last" /\ work'[w].raced = work[w].raced
        /\ work'[w].digest = work[w].digest /\ work'[w].at = work[w].at
        /\ work'[w].entry = work[w].entry /\ work'[w].back = work[w].back
    BY <1>1, <1>2, ZenonT(30) DEF Work, Stage
  <1>5. ASSUME NEW v \in Worker, v # w
        PROVE  /\ work'[v] \in Work
               /\ work'[v].digest = work[v].digest /\ work'[v].at = work[v].at
               /\ work'[v].entry = work[v].entry /\ work'[v].back = work[v].back
               /\ work'[v].pc = work[v].pc /\ work'[v].got = work[v].got
               /\ work[v].pc = "check" /\ work[v].entry = work[w].entry => work'[v].raced
               /\ ~(work[v].pc = "check" /\ work[v].entry = work[w].entry) =>
                    work'[v].raced = work[v].raced
    <2>1. CASE work[v].pc = "check" /\ work[v].entry = work[w].entry
      BY <1>1, <1>3, <1>5, <2>1 DEF Work
    <2>2. CASE ~(work[v].pc = "check" /\ work[v].entry = work[w].entry)
      BY <1>1, <1>3, <1>5, <2>2
    <2>. QED
      BY <2>1, <2>2
  <1>6. work' \in [Worker -> Work]
    <2>1. \A v \in Worker : work'[v] \in Work
      BY <1>4, <1>5
    <2>2. work' = [v \in Worker |-> work'[v]]
      BY DEF PutDes
    <2>. QED
      BY <2>1, <2>2
  <1>. QED
    BY <1>4, <1>5, <1>6

\* The types are kept if w has the file's lock afterwards or not as its stage says,
\* and nobody else gets or loses it.
LEMMA TypeOnly ==
  ASSUME TypeOK, NEW w \in Worker, Only(w), UNCHANGED world, excused' \in BOOLEAN,
         dns' \in [records : Zone, lasttime : Int, lastupdate : Nat,
                   lock : Worker \cup {Nil}],
         cache' \in Entry \cup {Nil}, heap' \in [Entry -> Struct],
         \/ /\ dns'.lock = dns.lock
            /\ work'[w].pc \in {"stat", "read"} <=> work[w].pc \in {"stat", "read"}
         \/ dns.lock \in {w, Nil} /\ dns'.lock = w /\ work'[w].pc \in {"stat", "read"}
         \/ dns.lock = w /\ dns'.lock = Nil /\ work'[w].pc \notin {"stat", "read"}
  PROVE  TypeOK'
  <1>1. work' \in [Worker -> Work] /\ \A v \in Worker : v # w => work'[v] = work[v]
    BY DEF TypeOK, Only
  <1>2. \A v \in Worker : work'[v].pc \in {"stat", "read"} <=> dns'.lock = v
    BY <1>1, Bounds DEF TypeOK
  <1>. QED
    BY <1>1, <1>2 DEF TypeOK, world

LEMMA TypeStep == TypeOK /\ Shape /\ [Next]_vars => TypeOK'
  <1>. SUFFICES ASSUME TypeOK, Shape, [Next]_vars PROVE TypeOK'
    OBVIOUS
  <1>0. /\ dns \in [records : Zone, lasttime : Int, lastupdate : Nat,
                    lock : Worker \cup {Nil}]
        /\ cache \in Entry \cup {Nil} /\ heap \in [Entry -> Struct]
        /\ work \in [Worker -> Work] /\ excused \in BOOLEAN /\ now \in Nat
        /\ zone \in Zone /\ mtime \in Int /\ local \in BOOLEAN
    BY DEF TypeOK
  <1>1. CASE Tick
    BY <1>1 DEF TypeOK, Tick
  <1>2. CASE Reset
    BY <1>2, Bounds DEF TypeOK, Reset, NewCache
  <1>3. ASSUME NEW z \in Version, Change(z) PROVE TypeOK'
    <2>1. z \in Zone
      BY KeyCacheAssumption
    <2>2. /\ from' \in [Key \cup Digest -> Int] /\ upto' \in [Key \cup Digest -> Int]
          /\ mtime' \in Int /\ changes' \in Nat
      BY <1>3 DEF TypeOK, Change
    <2>3. excused' \in BOOLEAN
      BY <1>3 DEF TypeOK, Change
    <2>. QED
      BY <1>3, <2>1, <2>2, <2>3 DEF TypeOK, Change
  <1>4. ASSUME NEW w \in Worker, AskServer(w) \/ AskRecords(w) PROVE TypeOK'
    <2>1. PICK z \in Zone : /\ Answered(w, z) /\ UNCHANGED <<world, dns, cache, heap>>
                            /\ excused' \in BOOLEAN /\ work[w].pc = "ask"
      BY <1>0, <1>4 DEF AskServer, AskRecords
    <2>2. Only(w) /\ work'[w].pc = "got"
      BY <2>1, StepAnswer
    <2>. QED
      BY <1>0, <2>1, <2>2, TypeOnly
  <1>5. ASSUME NEW w \in Worker, AskFile(w) \/ StatNew(w) PROVE TypeOK'
    <2>1. PICK s \in {"stat", "read"} : /\ work' = [work EXCEPT ![w].pc = s]
                                        /\ UNCHANGED <<world, cache, heap, excused>>
      BY <1>5 DEF AskFile, StatNew, Goes
    <2>2. dns' \in [records : Zone, lasttime : Int, lastupdate : Nat,
                    lock : Worker \cup {Nil}] /\ dns'.lock = w /\ dns.lock \in {w, Nil}
      BY <1>0, <1>5 DEF AskFile, StatNew, TypeOK
    <2>3. Only(w) /\ work'[w].pc = s
      BY <2>1, StepGoes DEF Stage
    <2>. QED
      BY <1>0, <2>1, <2>2, <2>3, TypeOnly
  <1>6. ASSUME NEW w \in Worker, StatSame(w) \/ ReadFile(w) PROVE TypeOK'
    <2>1. PICK z \in Zone : Answered(w, z) /\ UNCHANGED <<world, cache, heap, excused>>
      BY <1>0, <1>6 DEF StatSame, ReadFile
    <2>2. dns' \in [records : Zone, lasttime : Int, lastupdate : Nat,
                    lock : Worker \cup {Nil}] /\ dns'.lock = Nil /\ dns.lock = w
      BY <1>0, <1>6, ZenonT(30) DEF StatSame, ReadFile, Unlock, TypeOK
    <2>3. Only(w) /\ work'[w].pc = "got"
      BY <2>1, StepAnswer
    <2>. QED
      BY <1>0, <2>1, <2>2, <2>3, TypeOnly
  <1>7. ASSUME NEW w \in Worker, LookupFails(w) PROVE TypeOK'
    <2>1. Ends(w) /\ UNCHANGED <<world, cache, heap>> /\ work[w].pc \in {"ask", "stat", "read"}
      BY <1>7 DEF LookupFails
    <2>2. Only(w) /\ work'[w].pc = "idle"
      BY <2>1, StepEnds
    <2>3. CASE work[w].pc = "ask"
      <3>1. UNCHANGED <<dns, excused>>
        BY <1>7, <2>3 DEF LookupFails
      <3>. QED
        BY <1>0, <2>1, <2>2, <2>3, <3>1, TypeOnly
    <2>4. CASE work[w].pc # "ask"
      <3>1. dns' = [dns EXCEPT !.lock = Nil] /\ excused' = TRUE /\ dns.lock = w
        BY <1>7, <2>4 DEF LookupFails, Unlock, TypeOK
      <3>2. dns' \in [records : Zone, lasttime : Int, lastupdate : Nat,
                      lock : Worker \cup {Nil}] /\ dns'.lock = Nil
        BY <1>0, <3>1
      <3>. QED
        BY <1>0, <2>1, <2>2, <3>1, <3>2, TypeOnly
    <2>. QED
      BY <2>3, <2>4
  <1>8. ASSUME NEW w \in Worker, Hit(w) \/ Miss(w) PROVE TypeOK'
    <2>1. PICK s \in {"scan", "ask"}, e \in Entry \cup {Nil}, b \in {"key", "scan"} :
            Begins(w, s, e, b)
      BY <1>0, <1>8 DEF Hit, Miss
    <2>2. /\ Only(w) /\ work'[w].pc = s /\ work[w].pc = "idle"
          /\ UNCHANGED <<world, dns, cache, heap, excused>>
      BY <2>1, StepBegins DEF Stage
    <2>. QED
      BY <1>0, <2>2, TypeOnly
  <1>9. ASSUME NEW w \in Worker, NEW e \in Entry, PutKey(w, e) PROVE TypeOK'
    <2>1. /\ work[w].pc = "got" /\ cache' = e
          /\ heap' = [heap EXCEPT ![e] = [key |-> work[w].got.key, des |-> {}, last |-> 0]]
          /\ UNCHANGED <<world, dns, excused>>
      BY <1>9 DEF PutKey
    <2>2. work[w].got.key \in Key \cup {Nil}
      BY <1>0 DEF Work, Zone, NoRecords
    <2>3. heap' \in [Entry -> Struct]
      BY <1>0, <2>1, <2>2 DEF Struct
    <2>4. Only(w) /\ work'[w].pc \in {"idle", "scan"}
      <3>1. CASE Ends(w)
        BY <3>1, StepEnds
      <3>2. CASE work' = [work EXCEPT ![w].pc = "scan", ![w].entry = e, ![w].back = "scan",
                                      ![w].got = NoRecords]
        BY <3>2, StepEntry
      <3>. QED
        BY <1>9, <3>1, <3>2 DEF PutKey
    <2>. QED
      BY <1>0, <2>1, <2>3, <2>4, TypeOnly
  <1>10. ASSUME NEW w \in Worker, PutDes(w) PROVE TypeOK'
    <2>1. /\ work[w].pc = "got" /\ UNCHANGED <<world, dns, cache, excused>>
          /\ heap' = [heap EXCEPT ![work[w].entry].des = work[w].got.des]
      BY <1>10 DEF PutDes
    <2>2. work[w].got.des \in SUBSET Digest
      BY <1>0 DEF Work, Zone, NoRecords
    <2>3. heap' \in [Entry -> Struct]
      BY <1>0, <2>1, <2>2 DEF Struct
    <2>4. /\ work' \in [Worker -> Work]
          /\ \A v \in Worker : work'[v].pc \in {"stat", "read"} <=> work[v].pc \in {"stat", "read"}
      BY <1>10, <2>1, StepDes
    <2>. QED
      BY <2>1, <2>3, <2>4 DEF TypeOK, world
  <1>11. ASSUME NEW w \in Worker, PutLast(w) PROVE TypeOK'
    <2>1. /\ work[w].pc = "last" /\ UNCHANGED <<world, dns, cache, excused>>
          /\ heap' = [heap EXCEPT ![work[w].entry].last = work[w].at]
          /\ work' = [work EXCEPT ![w].pc = work[w].back]
      BY <1>11 DEF PutLast, Goes
    <2>2. work[w].back \in {"scan", "rescan"} /\ work[w].at \in Int
      BY <1>0, <2>1 DEF Shape, Handy, Work
    <2>3. Only(w) /\ work'[w].pc \in {"scan", "rescan"}
      BY <2>1, <2>2, StepGoes DEF Stage
    <2>4. heap' \in [Entry -> Struct]
      BY <1>0, <2>1, <2>2 DEF Struct
    <2>. QED
      BY <1>0, <2>1, <2>3, <2>4, TypeOnly
  <1>12. ASSUME NEW w \in Worker, NoList(w) \/ RenewList(w) PROVE TypeOK'
    <2>1. /\ work[w].pc \in {"scan", "check"}
          /\ UNCHANGED <<world, dns, cache, heap, excused>>
      BY <1>12 DEF NoList, RenewList
    <2>2. Only(w) /\ work'[w].pc = "ask"
      <3>1. CASE NoList(w)
        BY <3>1, StepGoes DEF NoList, Goes, Stage
      <3>2. CASE RenewList(w)
        BY <3>2, StepRenews DEF RenewList
      <3>. QED
        BY <1>12, <3>1, <3>2
    <2>. QED
      BY <1>0, <2>1, <2>2, TypeOnly
  <1>13. ASSUME NEW w \in Worker, NEW d \in Digest, NotListed(w, d) PROVE TypeOK'
    <2>. DEFINE b == d \in Listed(w)
    <2>0. b \in BOOLEAN
      OBVIOUS
    <2>. HIDE DEF b
    <2>1. /\ work' = [work EXCEPT ![w].pc = "check", ![w].digest = d, ![w].raced = b]
          /\ UNCHANGED <<world, dns, cache, heap, excused>> /\ work[w].pc = "scan"
      BY <1>13 DEF NotListed, b
    <2>2. Only(w) /\ work'[w].pc = "check"
      BY <2>0, <2>1, StepMayRenew
    <2>. QED
      BY <1>0, <2>1, <2>2, TypeOnly
  <1>14. ASSUME NEW w \in Worker,
                (\E d \in Digest : Accept(w, d)) \/ RefuseYoung(w) \/ RefuseRenewed(w)
         PROVE  TypeOK'
    <2>1. /\ Ends(w) /\ work[w].pc \in {"scan", "rescan", "check"}
          /\ UNCHANGED <<world, dns, cache, heap, excused>>
      BY <1>14 DEF Accept, RefuseYoung, RefuseRenewed
    <2>2. Only(w) /\ work'[w].pc = "idle"
      BY <2>1, StepEnds
    <2>. QED
      BY <1>0, <2>1, <2>2, TypeOnly
  <1>15. CASE UNCHANGED vars
    BY <1>15 DEF TypeOK, vars
  <1>. QED
    BY <1>1, <1>2, <1>3, <1>4, <1>5, <1>6, <1>7, <1>8, <1>9, <1>10, <1>11, <1>12,
       <1>13, <1>14, <1>15 DEF Next

-----------------------------------------------------------------------------
(* What is known of keys.                                                  *)

LEMMA Older ==
  ASSUME TypeOK, NEW x \in Key \cup Digest, NEW s \in Int, NEW t \in Int, s <= t,
         Recent(x, t)
  PROVE  Recent(x, s)
  BY DEF Recent, TypeOK

LEMMA OlderList ==
  ASSUME TypeOK, NEW des \in SUBSET Digest, NEW s \in Int, NEW t \in Int, s <= t,
         AllRecent(des, t)
  PROVE  AllRecent(des, s)
  BY Older DEF AllRecent

LEMMA Earlier ==
  ASSUME TypeOK, NEW des, NEW s \in Int, NEW t \in Int, s <= t, Holds(des, t)
  PROVE  Holds(des, s)
  BY DEF Holds, Standing, TypeOK

\* What is published now.
LEMMA ZoneIs ==
  ASSUME TypeOK, NEW t
  PROVE  Recent(zone.key, t) /\ AllRecent(zone.des, t) /\ Holds(zone.des, t)
  <1>1. zone.key \in Key /\ zone.key \notin Digest
    BY KeyCacheAssumption DEF TypeOK, Zone
  <1>. QED
    BY <1>1 DEF Recent, AllRecent, Holds, Standing, Published

\* The clocks and the author, as a goroutine's step finds and leaves them.
LEMMA SameWorld ==
  ASSUME UNCHANGED world
  PROVE  /\ \A x, t : Recent(x, t)' <=> Recent(x, t)
         /\ \A des, t : AllRecent(des, t)' <=> AllRecent(des, t)
         /\ \A des, t : Holds(des, t)' <=> Holds(des, t)
  BY DEF world, Recent, AllRecent, Holds, Standing, Published

LEMMA Others ==
  ASSUME TypeOK, NEW w \in Worker, Only(w)
  PROVE  \A v \in Worker : v # w => work'[v] = work[v]
  BY DEF TypeOK, Only

\* The types of what the bounds are made of.
LEMMA Typed ==
  ASSUME TypeOK
  PROVE  /\ now \in Nat /\ resetAt \in Nat /\ dns.lastupdate \in Nat
         /\ \A w \in Worker : /\ work[w].at \in Int /\ work[w].got.des \in SUBSET Digest
                              /\ work[w].entry \in Entry \cup {Nil}
         /\ \A e \in Entry : heap[e].last \in Int /\ heap[e].des \in SUBSET Digest
         /\ dns.records \in Zone
  BY DEF TypeOK, Work, Struct, Zone, NoRecords

LEMMA InitInv == Init => KInv
  <1>. SUFFICES ASSUME Init PROVE KInv
    OBVIOUS
  <1>1. /\ \A w \in Worker : work[w] = Idle
        /\ \A e \in Entry : heap[e] = [key |-> Nil, des |-> {}, last |-> 0]
        /\ cache = Nil /\ now = 0 /\ resetAt = Hour
        /\ dns.records = zone /\ dns.lastupdate = 0
        /\ \A x \in Key \cup Digest : from[x] = 0
    BY DEF Init, LocalDNS
  <1>2. TypeOK
    BY TypeInit
  <1>3. \A w \in Worker : /\ work[w].pc = "idle" /\ work[w].back = "idle"
                          /\ work[w].entry = Nil
    BY <1>1 DEF Idle
  <1>4. Times
    BY <1>1, <1>3, Bounds DEF Times
  <1>5. Shape /\ NotThere
    BY <1>1, <1>3 DEF Shape, Handy, NotThere
  <1>6. RecordsKnown
    BY <1>1, <1>2, ZoneIs DEF RecordsKnown, AllRecent
  <1>7. KeysRecent
    BY <1>1, <1>3 DEF KeysRecent
  <1>8. ListsHold
    <2>1. ASSUME NEW e \in Entry PROVE Holds(heap[e].des, heap[e].last - Delay - 1 - Lag)
      <3>1. heap[e].last = 0
        BY <1>1
      <3>. QED
        BY <1>1, <3>1, Bounds DEF Holds, Standing
    <2>. QED
      BY <1>3, <2>1 DEF ListsHold
  <1>. QED
    BY <1>4, <1>5, <1>6, <1>7, <1>8 DEF KInv

-----------------------------------------------------------------------------
(* The surroundings.                                                       *)

LEMMA ChangeRecent ==
  ASSUME TypeOK, NEW z, Change(z), NEW x \in Key \cup Digest, NEW t \in Int, t <= now,
         Recent(x, t)
  PROVE  Recent(x, t)'
  <1>1. upto'[x] = IF x \in Published THEN now ELSE upto[x]
    BY DEF Change, TypeOK
  <1>. QED
    BY <1>1 DEF Recent

LEMMA ChangeHolds ==
  ASSUME TypeOK, NEW z, Change(z), NEW des, NEW t \in Int, t < now, Holds(des, t)
  PROVE  Holds(des, t)'
  <1>. SUFFICES ASSUME NEW d \in Digest, Standing(d, t)' PROVE d \in des
    BY DEF Holds
  <1>1. from'[d] = IF d \in Published THEN from[d] ELSE now
    BY DEF Change, TypeOK
  <1>2. from'[d] <= t
    BY DEF Standing
  <1>3. d \in Published /\ from[d] <= t
    BY <1>1, <1>2, Typed
  <1>. QED
    BY <1>3 DEF Holds, Standing

LEMMA ChangeKeeps ==
  ASSUME TypeOK, KInv, NEW z, Change(z)
  PROVE  KInv'
  <1>1. /\ UNCHANGED <<now, local, dns, cache, heap, work, resetAt>>
        /\ mtime' = (IF local THEN now ELSE mtime)
        /\ excused' = (excused \/ (local /\ dns.lasttime = now))
        /\ from' = [x \in DOMAIN from |-> IF x \in Published THEN from[x] ELSE now]
    BY DEF Change
  <1>2. Times'
    BY <1>1, Typed DEF KInv, Times, TypeOK
  <1>3. Shape' /\ NotThere'
    BY <1>1 DEF KInv, Shape, Handy, NotThere
  <1>. SUFFICES ASSUME ~excused' PROVE RecordsKnown' /\ KeysRecent' /\ ListsHold'
    BY <1>2, <1>3 DEF KInv
  <1>4. ~excused /\ RecordsKnown /\ KeysRecent /\ ListsHold
    BY <1>1 DEF KInv
  <1>5. RecordsKnown'
    <2>. SUFFICES ASSUME local PROVE RecordsKnown'
      BY <1>1 DEF RecordsKnown
    <2>1. dns.lasttime # mtime'
      BY <1>1
    <2>2. dns.lastupdate \in Int /\ dns.lastupdate <= now /\ dns.lastupdate - 1 < now
      BY Typed DEF KInv, Times
    <2>3. \A x \in {dns.records.key} \cup dns.records.des : x \in Key \cup Digest
      BY Typed DEF Zone
    <2>4. \A x \in {dns.records.key} \cup dns.records.des : Recent(x, dns.lastupdate)'
      BY <1>1, <1>4, <2>2, <2>3, ChangeRecent DEF RecordsKnown
    <2>5. Holds(dns.records.des, dns.lastupdate - 1)'
      BY <1>1, <1>4, <2>2, ChangeHolds DEF RecordsKnown
    <2>. QED
      BY <1>1, <2>1, <2>4, <2>5 DEF RecordsKnown
  <1>6. ASSUME NEW des \in SUBSET Digest, NEW t \in Int, t <= now, AllRecent(des, t)
        PROVE  AllRecent(des, t)'
    BY <1>6, ChangeRecent DEF AllRecent
  <1>7. Lag' = Lag
    BY <1>1 DEF Lag
  <1>8. KeysRecent'
    <2>1. ASSUME cache # Nil
          PROVE  /\ AllRecent(heap[cache].des, resetAt - Hour - Lag)'
                 /\ Recent(heap[cache].key, resetAt - Hour - Delay - Lag)'
      <3>1. resetAt - Hour - Lag <= now /\ resetAt - Hour - Delay - Lag <= now
            /\ resetAt - Hour - Lag \in Int /\ resetAt - Hour - Delay - Lag \in Int
        BY Typed, Bounds DEF KInv, Times
      <3>2. heap[cache].des \in SUBSET Digest /\ heap[cache].key \in Key
        BY <2>1, Typed DEF TypeOK, KInv, Shape
      <3>3. AllRecent(heap[cache].des, resetAt - Hour - Lag)
            /\ Recent(heap[cache].key, resetAt - Hour - Delay - Lag)
        BY <1>4, <2>1 DEF KeysRecent
      <3>. QED
        BY <1>1, <1>6, <1>7, <3>1, <3>2, <3>3, ChangeRecent
    <2>2. ASSUME NEW w \in Worker, work[w].entry # Nil
          PROVE  AllRecent(heap[work[w].entry].des, work[w].at - Hour - Lag)'
      <3>1. work[w].at <= now /\ work[w].at \in Int
        BY <2>2, Typed DEF KInv, Times, Shape, Handy
      <3>2. work[w].at - Hour - Lag <= now /\ work[w].at - Hour - Lag \in Int
        BY <3>1, Typed, Bounds
      <3>3. heap[work[w].entry].des \in SUBSET Digest
        BY <2>2, Typed
      <3>. QED
        BY <1>1, <1>4, <1>6, <1>7, <2>2, <3>2, <3>3 DEF KeysRecent
    <2>3. ASSUME NEW w \in Worker, work[w].pc = "got"
          PROVE  /\ Recent(work[w].got.key, work[w].at - Lag)'
                 /\ work[w].entry # Nil /\ work[w].entry = cache =>
                      AllRecent(work[w].got.des, resetAt - Hour - Lag)'
                 /\ \A v \in Worker : work[w].entry # Nil /\ work[v].entry = work[w].entry =>
                      AllRecent(work[w].got.des, work[v].at - Hour - Lag)'
      <3>1. work[w].got.key \in Key /\ work[w].got.des \in SUBSET Digest
        BY <2>3, Typed DEF KInv, Shape, Handy, Zone
      <3>2. /\ work[w].at - Lag <= now /\ work[w].at - Lag \in Int
            /\ resetAt - Hour - Lag <= now /\ resetAt - Hour - Lag \in Int
        BY <2>3, Typed, Bounds DEF KInv, Times
      <3>3. Recent(work[w].got.key, work[w].at - Lag)'
        BY <1>1, <1>4, <1>7, <2>3, <3>1, <3>2, ChangeRecent DEF KeysRecent
      <3>4. work[w].entry # Nil /\ work[w].entry = cache =>
              AllRecent(work[w].got.des, resetAt - Hour - Lag)'
        BY <1>1, <1>4, <1>6, <1>7, <2>3, <3>1, <3>2 DEF KeysRecent
      <3>5. ASSUME NEW v \in Worker, work[w].entry # Nil, work[v].entry = work[w].entry
            PROVE  AllRecent(work[w].got.des, work[v].at - Hour - Lag)'
        <4>1. work[v].at <= now
          BY <3>5 DEF KInv, Times, Shape, Handy
        <4>2. work[v].at - Hour - Lag <= now /\ work[v].at - Hour - Lag \in Int
          BY <4>1, Typed, Bounds
        <4>3. AllRecent(work[w].got.des, work[v].at - Hour - Lag)
          BY <1>4, <2>3, <3>5 DEF KeysRecent
        <4>. QED
          BY <1>1, <1>6, <1>7, <3>1, <4>2, <4>3
      <3>. QED
        BY <3>3, <3>4, <3>5
    <2>. QED
      BY <1>1, <2>1, <2>2, <2>3 DEF KeysRecent
  <1>9. ListsHold'
    <2>1. ASSUME NEW e \in Entry PROVE Holds(heap[e].des, heap[e].last - Delay - 1 - Lag)'
      <3>1. heap[e].last - Delay - 1 - Lag < now /\ heap[e].last - Delay - 1 - Lag \in Int
        BY Typed, Bounds DEF KInv, Times
      <3>. QED
        BY <1>1, <1>4, <1>7, <3>1, ChangeHolds DEF ListsHold
    <2>2. ASSUME NEW w \in Worker, work[w].pc = "got"
          PROVE  Holds(work[w].got.des, work[w].at - 1 - Lag)'
      <3>1. work[w].at - 1 - Lag < now /\ work[w].at - 1 - Lag \in Int
        BY <2>2, Typed, Bounds DEF KInv, Times
      <3>. QED
        BY <1>1, <1>4, <1>7, <2>2, <3>1, ChangeHolds DEF ListsHold
    <2>3. ASSUME NEW w \in Worker, work[w].pc \in {"last", "rescan"}
          PROVE  Holds(heap[work[w].entry].des, work[w].at - Delay - 1 - Lag)'
      <3>1. work[w].at - Delay - 1 - Lag < now /\ work[w].at - Delay - 1 - Lag \in Int
        BY <2>3, Typed, Bounds DEF KInv, Times
      <3>. QED
        BY <1>1, <1>4, <1>7, <2>3, <3>1, ChangeHolds DEF ListsHold
    <2>. QED
      BY <1>1, <2>1, <2>2, <2>3 DEF ListsHold
  <1>. QED
    BY <1>5, <1>8, <1>9

LEMMA TickKeeps ==
  ASSUME TypeOK, KInv, Tick
  PROVE  KInv'
  <1>1. /\ now' = now + 1 /\ now < resetAt
        /\ UNCHANGED <<local, zone, mtime, dns, cache, heap, work, resetAt, from, upto,
                       excused>>
        /\ \A w \in Worker : work[w].pc # "idle" => now < work[w].at + Delay
    BY DEF Tick
  <1>2. Times'
    BY <1>1, Typed, Bounds DEF KInv, Times
  <1>3. Shape' /\ NotThere'
    BY <1>1 DEF KInv, Shape, Handy, NotThere
  <1>4. /\ \A x, t : Recent(x, t)' <=> Recent(x, t)
        /\ \A des, t : AllRecent(des, t)' <=> AllRecent(des, t)
        /\ \A des, t : Holds(des, t)' <=> Holds(des, t)
    BY <1>1 DEF Recent, AllRecent, Holds, Standing, Published
  <1>5. Lag' = Lag
    BY <1>1 DEF Lag
  <1>6. RecordsKnown => RecordsKnown'
    BY <1>1, <1>4 DEF RecordsKnown
  <1>7. KeysRecent => KeysRecent'
    BY <1>1, <1>4, <1>5 DEF KeysRecent
  <1>8. ListsHold => ListsHold'
    BY <1>1, <1>4, <1>5 DEF ListsHold
  <1>. QED
    BY <1>1, <1>2, <1>3, <1>6, <1>7, <1>8 DEF KInv

\* After the replacement only those who hold a struct know it.
LEMMA ResetKeeps ==
  ASSUME TypeOK, KInv, Reset
  PROVE  KInv'
  <1>1. /\ resetAt' = now + Hour /\ now = resetAt /\ cache' = Nil
        /\ UNCHANGED <<now, local, zone, mtime, dns, heap, work, from, upto, excused>>
    BY DEF Reset, NewCache
  <1>2. Times'
    BY <1>1, Typed, Bounds DEF KInv, Times
  <1>3. Shape' /\ NotThere'
    BY <1>1 DEF KInv, Shape, Handy, NotThere
  <1>4. /\ \A x, t : Recent(x, t)' <=> Recent(x, t)
        /\ \A des, t : AllRecent(des, t)' <=> AllRecent(des, t)
        /\ \A des, t : Holds(des, t)' <=> Holds(des, t)
    BY <1>1 DEF Recent, AllRecent, Holds, Standing, Published
  <1>5. Lag' = Lag
    BY <1>1 DEF Lag
  <1>6. RecordsKnown => RecordsKnown'
    BY <1>1, <1>4 DEF RecordsKnown
  <1>7. KeysRecent => KeysRecent'
    BY <1>1, <1>4, <1>5 DEF KeysRecent
  <1>8. ListsHold => ListsHold'
    BY <1>1, <1>4, <1>5 DEF ListsHold
  <1>. QED
    BY <1>1, <1>2, <1>3, <1>6, <1>7, <1>8 DEF KInv

-----------------------------------------------------------------------------
(* The steps of a goroutine that leave the structs alone.                  *)

\* w's step is one of those, at the time it began or that it begins at.
Reads(w) ==
  /\ Only(w) /\ UNCHANGED <<world, cache, heap>>
  /\ work'[w].pc # "idle" => \/ work[w].pc # "idle" /\ work'[w].at = work[w].at
                             \/ work'[w].at = now
  /\ work'[w].pc = "check" /\ ~work'[w].raced =>
       work'[w].digest \notin heap[work'[w].entry].des
  /\ dns'.lastupdate \in {dns.lastupdate, now}
  /\ Handy(work'[w])

LEMMA ReadsShape ==
  ASSUME TypeOK, KInv, NEW w \in Worker, Reads(w)
  PROVE  Times' /\ Shape' /\ NotThere'
  <1>1. \A v \in Worker : v # w => work'[v] = work[v]
    BY Others DEF Reads
  <1>2. Times'
    BY <1>1, Typed, Bounds DEF KInv, Times, Reads, world
  <1>3. Shape'
    BY <1>1 DEF KInv, Shape, Reads, Handy, world
  <1>4. NotThere'
    BY <1>1 DEF KInv, NotThere, Reads, world
  <1>. QED
    BY <1>2, <1>3, <1>4

\* A step that brings w no answer: what w then holds it held before, or has just
\* found in the map.
LEMMA Quiet ==
  ASSUME TypeOK, KInv, NEW w \in Worker, Reads(w), KeysRecent, ListsHold,
         work'[w].pc \notin {"got", "last", "rescan"},
         work'[w].entry # Nil =>
           \/ work'[w].entry = work[w].entry /\ work'[w].at = work[w].at
           \/ work'[w].entry = cache /\ work'[w].at = now
  PROVE  KeysRecent' /\ ListsHold'
  <1>1. \A v \in Worker : v # w => work'[v] = work[v]
    BY Others DEF Reads
  <1>2. UNCHANGED <<world, cache, heap, now, resetAt, local>>
    BY DEF Reads, world
  <1>3. /\ \A x, t : Recent(x, t)' <=> Recent(x, t)
        /\ \A des, t : AllRecent(des, t)' <=> AllRecent(des, t)
        /\ \A des, t : Holds(des, t)' <=> Holds(des, t)
    BY <1>2, SameWorld
  <1>4. Lag' = Lag
    BY <1>2 DEF Lag
  <1>5. ListsHold'
    BY <1>1, <1>2, <1>3, <1>4 DEF ListsHold
  <1>6. ASSUME NEW des \in SUBSET Digest, AllRecent(des, resetAt - Hour - Lag)
        PROVE  AllRecent(des, now - Hour - Lag)
    <2>1. now - Hour - Lag <= resetAt - Hour - Lag
      BY Typed, Bounds DEF KInv, Times
    <2>. QED
      BY <1>6, <2>1, Typed, Bounds, OlderList
  <1>7. ASSUME NEW v \in Worker, work'[v].entry # Nil
        PROVE  AllRecent(heap[work'[v].entry].des, work'[v].at - Hour - Lag)
    <2>1. CASE v # w \/ (work'[w].entry = work[w].entry /\ work'[w].at = work[w].at)
      BY <1>1, <1>7, <2>1 DEF KeysRecent
    <2>2. CASE v = w /\ work'[w].entry = cache /\ work'[w].at = now
      BY <1>6, <1>7, <2>2, Typed DEF KeysRecent, TypeOK
    <2>. QED
      BY <1>7, <2>1, <2>2
  <1>8. ASSUME NEW u \in Worker, work'[u].pc = "got"
        PROVE  /\ Recent(work'[u].got.key, work'[u].at - Lag)
               /\ work'[u].entry # Nil /\ work'[u].entry = cache =>
                    AllRecent(work'[u].got.des, resetAt - Hour - Lag)
               /\ \A v \in Worker : work'[u].entry # Nil /\ work'[v].entry = work'[u].entry =>
                    AllRecent(work'[u].got.des, work'[v].at - Hour - Lag)
    <2>1. u # w /\ work'[u] = work[u]
      BY <1>1, <1>8
    <2>2. /\ Recent(work[u].got.key, work[u].at - Lag)
          /\ work[u].entry # Nil /\ work[u].entry = cache =>
               AllRecent(work[u].got.des, resetAt - Hour - Lag)
      BY <1>8, <2>1 DEF KeysRecent
    <2>3. ASSUME NEW v \in Worker, work[u].entry # Nil, work'[v].entry = work[u].entry
          PROVE  AllRecent(work[u].got.des, work'[v].at - Hour - Lag)
      <3>1. CASE v # w \/ (work'[w].entry = work[w].entry /\ work'[w].at = work[w].at)
        BY <1>1, <1>8, <2>1, <2>3, <3>1 DEF KeysRecent
      <3>2. CASE v = w /\ work'[w].entry = cache /\ work'[w].at = now
        BY <1>6, <2>2, <2>3, <3>2, Typed
      <3>. QED
        BY <2>3, <3>1, <3>2
    <2>. QED
      BY <2>1, <2>2, <2>3
  <1>9. cache # Nil => /\ AllRecent(heap[cache].des, resetAt - Hour - Lag)
                       /\ Recent(heap[cache].key, resetAt - Hour - Delay - Lag)
    BY DEF KeysRecent
  <1>10. KeysRecent'
    BY <1>2, <1>3, <1>4, <1>7, <1>8, <1>9 DEF KeysRecent
  <1>. QED
    BY <1>5, <1>10

\* An answer of now, or with a file of Reload ago at most.
LEMMA Answers ==
  ASSUME TypeOK, KInv, NEW w \in Worker, NEW z \in Zone, Answered(w, z), Reads(w),
         work[w].pc \in {"ask", "stat", "read"}, KeysRecent, ListsHold,
         Recent(z.key, now - Lag), AllRecent(z.des, now - Lag),
         Holds(z.des, work[w].at - 1 - Lag)
  PROVE  KeysRecent' /\ ListsHold'
  <1>1. /\ \A v \in Worker : v # w => work'[v] = work[v]
        /\ work'[w].pc = "got" /\ work'[w].got = z
        /\ work'[w].entry = work[w].entry /\ work'[w].at = work[w].at
    BY Others, StepAnswer DEF Reads
  <1>2. UNCHANGED <<world, cache, heap, now, resetAt, local>>
    BY DEF Reads, world
  <1>3. /\ \A x, t : Recent(x, t)' <=> Recent(x, t)
        /\ \A des, t : AllRecent(des, t)' <=> AllRecent(des, t)
        /\ \A des, t : Holds(des, t)' <=> Holds(des, t)
    BY <1>2, SameWorld
  <1>4. Lag' = Lag
    BY <1>2 DEF Lag
  <1>5. ListsHold'
    BY <1>1, <1>2, <1>3, <1>4 DEF ListsHold
  <1>6. z.key \in Key /\ z.des \in SUBSET Digest
    BY DEF Zone
  <1>7. Recent(z.key, work[w].at - Lag)
    <2>1. work[w].at - Lag <= now - Lag
      BY Typed, Bounds DEF KInv, Times
    <2>. QED
      BY <1>6, <2>1, Typed, Bounds, Older
  <1>8. AllRecent(z.des, resetAt - Hour - Lag)
    <2>1. resetAt - Hour - Lag <= now - Lag
      BY Typed, Bounds DEF KInv, Times
    <2>. QED
      BY <1>6, <2>1, Typed, Bounds, OlderList
  <1>9. ASSUME NEW v \in Worker, work[v].entry # Nil
        PROVE  AllRecent(z.des, work[v].at - Hour - Lag)
    <2>1. work[v].at <= now
      BY <1>9 DEF KInv, Times, Shape, Handy
    <2>2. work[v].at - Hour - Lag <= now - Lag
      BY <2>1, Typed, Bounds
    <2>. QED
      BY <1>6, <2>2, Typed, Bounds, OlderList
  <1>10. \A v \in Worker : work'[v].entry = work[v].entry /\ work'[v].at = work[v].at
    BY <1>1
  <1>11. ASSUME NEW u \in Worker, work'[u].pc = "got"
         PROVE  /\ Recent(work'[u].got.key, work[u].at - Lag)
                /\ work[u].entry # Nil /\ work[u].entry = cache =>
                     AllRecent(work'[u].got.des, resetAt - Hour - Lag)
                /\ \A v \in Worker : work[u].entry # Nil /\ work[v].entry = work[u].entry =>
                     AllRecent(work'[u].got.des, work[v].at - Hour - Lag)
    <2>1. CASE u = w
      BY <1>1, <1>7, <1>8, <1>9, <2>1
    <2>2. CASE u # w
      BY <1>1, <1>11, <2>2 DEF KeysRecent
    <2>. QED
      BY <2>1, <2>2
  <1>12. /\ cache # Nil => /\ AllRecent(heap[cache].des, resetAt - Hour - Lag)
                           /\ Recent(heap[cache].key, resetAt - Hour - Delay - Lag)
         /\ \A v \in Worker : work[v].entry # Nil =>
              AllRecent(heap[work[v].entry].des, work[v].at - Hour - Lag)
    BY DEF KeysRecent
  <1>13. KeysRecent'
    BY <1>2, <1>3, <1>4, <1>10, <1>11, <1>12 DEF KeysRecent
  <1>. QED
    BY <1>5, <1>13

\* The file's records as they were.
LEMMA SameRecords ==
  ASSUME UNCHANGED world, RecordsKnown,
         \A v \in Worker : work[v].pc = "read" => work'[v].pc = "read",
         dns'.records = dns.records, dns'.lasttime = dns.lasttime,
         dns'.lastupdate = dns.lastupdate
  PROVE  RecordsKnown'
  <1>1. UNCHANGED <<local, mtime, zone>>
    BY DEF world
  <1>2. (\A v \in Worker : work'[v].pc # "read") => \A v \in Worker : work[v].pc # "read"
    OBVIOUS
  <1>3. /\ \A x, t : Recent(x, t)' <=> Recent(x, t)
        /\ \A des, t : Holds(des, t)' <=> Holds(des, t)
    BY SameWorld
  <1>. QED
    BY <1>1, <1>2, <1>3 DEF RecordsKnown

\* Messages begin, are refused or accepted, and go on to a lookup.
LEMMA QuietStep ==
  ASSUME TypeOK, KInv, NEW w \in Worker,
         \/ Hit(w) \/ Miss(w) \/ NoList(w) \/ RenewList(w) \/ RefuseYoung(w)
         \/ RefuseRenewed(w) \/ AskFile(w)
         \/ \E d \in Digest : Accept(w, d) \/ NotListed(w, d)
         \/ LookupFails(w) /\ work[w].pc = "ask"
  PROVE  KInv'
  <1>0. Handy(work[w]) /\ work[w] \in Work
    BY DEF KInv, Shape, TypeOK
  <1>1. /\ UNCHANGED <<world, cache, heap>>
        /\ dns'.records = dns.records /\ dns'.lasttime = dns.lasttime
        /\ dns'.lastupdate = dns.lastupdate /\ excused' = excused
        /\ work[w].pc # "read"
    <2>1. CASE AskFile(w)
      BY <2>1 DEF AskFile, TypeOK
    <2>2. CASE Hit(w) \/ Miss(w)
      BY <2>2 DEF Hit, Miss, Begins
    <2>3. CASE NoList(w) \/ RenewList(w) \/ RefuseYoung(w) \/ RefuseRenewed(w)
      BY <2>3 DEF NoList, RenewList, RefuseYoung, RefuseRenewed
    <2>4. CASE \E d \in Digest : Accept(w, d) \/ NotListed(w, d)
      BY <2>4 DEF Accept, NotListed
    <2>5. CASE LookupFails(w) /\ work[w].pc = "ask"
      BY <2>5 DEF LookupFails
    <2>. QED
      BY <2>1, <2>2, <2>3, <2>4, <2>5
  <1>2. /\ Only(w) /\ Handy(work'[w]) /\ work'[w].pc \notin {"got", "last", "rescan"}
        /\ work'[w].pc # "idle" => \/ work[w].pc # "idle" /\ work'[w].at = work[w].at
                                   \/ work'[w].at = now
        /\ work'[w].pc = "check" /\ ~work'[w].raced =>
             work'[w].digest \notin heap[work'[w].entry].des
        /\ work'[w].entry # Nil =>
             \/ work'[w].entry = work[w].entry /\ work'[w].at = work[w].at
             \/ work'[w].entry = cache /\ work'[w].at = now
    <2>1. CASE Hit(w)
      <3>1. cache # Nil /\ cache \in Entry \cup {Nil} /\ Begins(w, "scan", cache, "scan")
        BY <2>1 DEF Hit, TypeOK
      <3>. QED
        BY <3>1, StepBegins DEF Stage, Handy
    <2>2. CASE Miss(w)
      BY <2>2, StepBegins DEF Miss, Stage, Handy
    <2>3. CASE NoList(w)
      <3>1. work' = [work EXCEPT ![w].pc = "ask"] /\ work[w].pc = "scan"
        BY <2>3 DEF NoList, Goes
      <3>. QED
        BY <1>0, <3>1, StepGoes DEF Stage, Handy
    <2>4. CASE AskFile(w)
      <3>1. work' = [work EXCEPT ![w].pc = "stat"] /\ work[w].pc = "ask" /\ local
        BY <2>4 DEF AskFile, Goes
      <3>. QED
        BY <1>0, <3>1, StepGoes DEF Stage, Handy
    <2>5. CASE RenewList(w)
      <3>1. /\ work' = [work EXCEPT ![w].pc = "ask", ![w].back = "rescan", ![w].raced = FALSE]
            /\ work[w].pc = "check"
        BY <2>5 DEF RenewList
      <3>. QED
        BY <1>0, <3>1, StepRenews DEF Handy
    <2>6. CASE \E d \in Digest : NotListed(w, d)
      <3>0. PICK d \in Digest : NotListed(w, d)
        BY <2>6
      <3>1. /\ work[w].pc = "scan"
            /\ work' = [work EXCEPT ![w].pc = "check", ![w].digest = d,
                                    ![w].raced = (d \in Listed(w))]
        BY <3>0 DEF NotListed
      <3>. DEFINE b == d \in Listed(w)
      <3>2. b \in BOOLEAN /\ (~b => d \notin Listed(w))
        BY <3>1
      <3>. HIDE DEF b
      <3>3. work' = [work EXCEPT ![w].pc = "check", ![w].digest = d, ![w].raced = b]
        BY <3>1 DEF b
      <3>4. /\ Only(w) /\ work'[w].pc = "check" /\ work'[w].digest = d
            /\ work'[w].at = work[w].at /\ work'[w].entry = work[w].entry
            /\ work'[w].back = work[w].back /\ work'[w].raced = b
        BY <3>2, <3>3, StepMayRenew
      <3>5. Handy(work'[w])
        BY <1>0, <3>1, <3>4 DEF Handy
      <3>6. ~b => d \notin heap[work[w].entry].des
        BY <3>2 DEF Listed
      <3>. QED
        BY <3>1, <3>4, <3>5, <3>6
    <2>7. CASE Ends(w)
      BY <2>7, StepEnds DEF Handy
    <2>8. \/ Hit(w) \/ Miss(w) \/ NoList(w) \/ RenewList(w) \/ AskFile(w)
          \/ (\E d \in Digest : NotListed(w, d)) \/ Ends(w)
      BY DEF Accept, RefuseYoung, RefuseRenewed, LookupFails
    <2>. QED
      BY <2>1, <2>2, <2>3, <2>4, <2>5, <2>6, <2>7, <2>8
  <1>3. Reads(w)
    BY <1>1, <1>2 DEF Reads
  <1>4. Times' /\ Shape' /\ NotThere'
    BY <1>3, ReadsShape
  <1>5. ASSUME ~excused PROVE RecordsKnown' /\ KeysRecent' /\ ListsHold'
    <2>1. \A v \in Worker : work[v].pc = "read" => work'[v].pc = "read"
      BY <1>1, <1>2, Others
    <2>. QED
      BY <1>1, <1>2, <1>3, <1>5, <2>1, SameRecords, Quiet DEF KInv
  <1>. QED
    BY <1>1, <1>4, <1>5 DEF KInv

-----------------------------------------------------------------------------
(* Lookups.                                                                *)

LEMMA AnswerReads ==
  ASSUME TypeOK, KInv, NEW w \in Worker, NEW z \in Zone, Answered(w, z),
         work[w].pc \in {"ask", "stat", "read"}, UNCHANGED <<world, cache, heap>>,
         dns'.lastupdate \in {dns.lastupdate, now}
  PROVE  Reads(w)
  <1>1. Handy(work[w])
    BY DEF KInv, Shape
  <1>. QED
    BY <1>1, StepAnswer DEF Reads, Handy

\* The records have just been found to be the file's.
LEMMA FreshRecords ==
  ASSUME TypeOK, UNCHANGED world, dns'.records = zone, dns'.lastupdate = now
  PROVE  RecordsKnown'
  <1>1. /\ \A x, t : Recent(x, t)' <=> Recent(x, t)
        /\ \A des, t : Holds(des, t)' <=> Holds(des, t)
    BY SameWorld
  <1>2. zone' = zone
    BY DEF world
  <1>3. \A x \in {zone.key} \cup zone.des : Recent(x, now)
    BY ZoneIs DEF AllRecent
  <1>4. Holds(zone.des, now - 1)
    BY ZoneIs
  <1>. QED
    BY <1>1, <1>2, <1>3, <1>4 DEF RecordsKnown

LEMMA AskServerKeeps ==
  ASSUME TypeOK, KInv, NEW w \in Worker, AskServer(w)
  PROVE  KInv'
  <1>1. /\ Answered(w, zone) /\ work[w].pc = "ask" /\ zone \in Zone
        /\ UNCHANGED <<world, dns, cache, heap, excused>>
    BY DEF AskServer, TypeOK
  <1>2. Reads(w)
    BY <1>1, AnswerReads
  <1>3. Times' /\ Shape' /\ NotThere'
    BY <1>2, ReadsShape
  <1>4. ASSUME ~excused PROVE RecordsKnown' /\ KeysRecent' /\ ListsHold'
    <2>1. \A v \in Worker : work[v].pc = "read" => work'[v].pc = "read"
      BY <1>1, <1>2, Others DEF Reads
    <2>2. RecordsKnown'
      BY <1>1, <1>4, <2>1, SameRecords DEF KInv
    <2>. QED
      BY <1>1, <1>2, <1>4, <2>2, ZoneIs, Answers DEF KInv
  <1>. QED
    BY <1>1, <1>3, <1>4 DEF KInv

LEMMA AskRecordsKeeps ==
  ASSUME TypeOK, KInv, NEW w \in Worker, AskRecords(w)
  PROVE  KInv'
  <1>1. /\ Answered(w, dns.records) /\ work[w].pc = "ask" /\ dns.records \in Zone
        /\ local /\ excused' = (excused \/ Due) /\ UNCHANGED <<world, dns, cache, heap>>
    BY Typed DEF AskRecords
  <1>2. Reads(w)
    BY <1>1, AnswerReads
  <1>3. Times' /\ Shape' /\ NotThere'
    BY <1>2, ReadsShape
  <1>4. ASSUME ~excused, ~Due PROVE RecordsKnown' /\ KeysRecent' /\ ListsHold'
    <2>1. \A v \in Worker : work[v].pc = "read" => work'[v].pc = "read"
      BY <1>1, <1>2, Others DEF Reads
    <2>2. RecordsKnown'
      BY <1>1, <1>4, <2>1, SameRecords DEF KInv
    <2>3. now - Lag <= dns.lastupdate /\ now - Lag \in Int /\ dns.lastupdate \in Int
      BY <1>1, <1>4, Bounds, Typed DEF Due, Lag
    <2>4. dns.records.key \in Key /\ dns.records.des \in SUBSET Digest
      BY <1>1 DEF Zone
    <2>5. /\ Recent(dns.records.key, dns.lastupdate)
          /\ AllRecent(dns.records.des, dns.lastupdate)
          /\ Holds(dns.records.des, dns.lastupdate - 1)
      BY <1>1, <1>4 DEF KInv, RecordsKnown, AllRecent
    <2>6. Recent(dns.records.key, now - Lag)
      BY <2>3, <2>4, <2>5, Older
    <2>7. AllRecent(dns.records.des, now - Lag)
      BY <2>3, <2>4, <2>5, OlderList
    <2>8. work[w].at \in Int /\ work[w].at <= now /\ now \in Int /\ Lag \in Int
      BY <1>1, Typed, Bounds DEF KInv, Times
    <2>9. /\ work[w].at - 1 - Lag <= dns.lastupdate - 1
          /\ work[w].at - 1 - Lag \in Int /\ dns.lastupdate - 1 \in Int
      BY <2>3, <2>8
    <2>10. Holds(dns.records.des, work[w].at - 1 - Lag)
      BY <2>5, <2>9, Earlier
    <2>. QED
      BY <1>1, <1>2, <1>4, <2>2, <2>6, <2>7, <2>10, Answers DEF KInv
  <1>. QED
    BY <1>1, <1>3, <1>4 DEF KInv

\* The file has been looked at under the lock.
LEMMA LookKeeps ==
  ASSUME TypeOK, KInv, NEW w \in Worker, StatSame(w) \/ ReadFile(w)
  PROVE  KInv'
  <1>1. PICK z \in Zone :
          /\ Answered(w, z) /\ work[w].pc \in {"stat", "read"}
          /\ UNCHANGED <<world, cache, heap, excused>>
          /\ dns'.records = z /\ dns'.lastupdate = now
          /\ (StatSame(w) /\ z = dns.records /\ dns.lasttime = mtime) \/ z = zone
    <2>1. CASE StatSame(w)
      <3>1. dns'.records = dns.records /\ dns'.lastupdate = now
        BY <2>1 DEF StatSame, Unlock, TypeOK
      <3>. QED
        BY <2>1, <3>1, Typed DEF StatSame
    <2>2. CASE ReadFile(w)
      <3>1. dns'.records = zone /\ dns'.lastupdate = now
        BY <2>2 DEF ReadFile, Unlock, TypeOK
      <3>. QED
        BY <2>2, <3>1 DEF ReadFile, TypeOK
    <2>. QED
      BY <2>1, <2>2
  <1>2. Reads(w)
    BY <1>1, AnswerReads
  <1>3. Times' /\ Shape' /\ NotThere'
    BY <1>2, ReadsShape
  <1>4. ASSUME ~excused PROVE RecordsKnown' /\ KeysRecent' /\ ListsHold'
    <2>1. z = zone
      <3>1. CASE StatSame(w) /\ z = dns.records /\ dns.lasttime = mtime
        <4>1. \A v \in Worker : work[v].pc # "read"
          BY <3>1 DEF StatSame, TypeOK
        <4>2. local
          BY <1>1 DEF KInv, Shape, Handy
        <4>. QED
          BY <1>4, <3>1, <4>1, <4>2 DEF KInv, RecordsKnown
      <3>. QED
        BY <1>1, <3>1
    <2>2. RecordsKnown'
      BY <1>1, <2>1, FreshRecords
    <2>3. /\ Recent(z.key, now - Lag) /\ AllRecent(z.des, now - Lag)
          /\ Holds(z.des, work[w].at - 1 - Lag)
      BY <2>1, ZoneIs
    <2>. QED
      BY <1>1, <1>2, <1>4, <2>2, <2>3, Answers DEF KInv
  <1>. QED
    BY <1>1, <1>3, <1>4 DEF KInv

LEMMA StatNewKeeps ==
  ASSUME TypeOK, KInv, NEW w \in Worker, StatNew(w)
  PROVE  KInv'
  <1>1. /\ work[w].pc = "stat" /\ work' = [work EXCEPT ![w].pc = "read"]
        /\ UNCHANGED <<world, cache, heap, excused>>
        /\ dns'.records = dns.records /\ dns'.lastupdate = dns.lastupdate
    BY DEF StatNew, Goes, TypeOK
  <1>2. /\ Only(w) /\ work'[w].pc = "read" /\ work'[w].at = work[w].at
        /\ work'[w].entry = work[w].entry /\ work'[w].back = work[w].back
        /\ work'[w].digest = work[w].digest
    BY <1>1, StepGoes DEF Stage
  <1>3. Reads(w)
    BY <1>1, <1>2 DEF Reads, Handy, KInv, Shape
  <1>4. Times' /\ Shape' /\ NotThere'
    BY <1>3, ReadsShape
  <1>5. RecordsKnown => RecordsKnown'
    BY <1>1, <1>2, SameWorld DEF RecordsKnown, world
  <1>6. KeysRecent /\ ListsHold => KeysRecent' /\ ListsHold'
    BY <1>2, <1>3, Quiet
  <1>. QED
    BY <1>1, <1>4, <1>5, <1>6 DEF KInv

LEMMA LookupFailsKeeps ==
  ASSUME TypeOK, KInv, NEW w \in Worker, LookupFails(w), work[w].pc # "ask"
  PROVE  KInv'
  <1>1. /\ Ends(w) /\ UNCHANGED <<world, cache, heap>> /\ excused'
        /\ dns'.lastupdate = dns.lastupdate
    BY DEF LookupFails, Unlock, TypeOK
  <1>2. Only(w) /\ work'[w] = Idle /\ work'[w].pc = "idle"
    BY <1>1, StepEnds
  <1>3. Reads(w)
    BY <1>1, <1>2 DEF Reads, Handy, Idle
  <1>. QED
    BY <1>1, <1>3, ReadsShape DEF KInv

-----------------------------------------------------------------------------
(* Stores.                                                                 *)

\* A struct nobody has gets the main key and goes into the map.
LEMMA PutKeyKeeps ==
  ASSUME TypeOK, KInv, NEW w \in Worker, NEW e \in Entry, PutKey(w, e)
  PROVE  KInv'
  <1>0. Handy(work[w])
    BY Bounds DEF KInv, Shape
  <1>1. /\ work[w].pc = "got" /\ work[w].back = "key" /\ work[w].entry = Nil
        /\ work[w].got.key \in Key /\ cache' = e /\ e # Nil /\ cache # e
        /\ \A v \in Worker : work[v].entry # e
        /\ UNCHANGED <<world, dns, excused>>
    BY <1>0 DEF PutKey, InUse, Handy, Zone
  <1>2. /\ heap'[e].key = work[w].got.key /\ heap'[e].des = {} /\ heap'[e].last = 0
        /\ \A x \in Entry : x # e => heap'[x] = heap[x]
    BY DEF PutKey, TypeOK
  <1>3. /\ Only(w) /\ work'[w].pc \in {"idle", "scan"}
        /\ work'[w].pc = "scan" => work'[w].at = work[w].at
        /\ work'[w].entry \in {Nil, e} /\ Handy(work'[w])
    <2>1. CASE Ends(w)
      BY <2>1, StepEnds DEF Handy
    <2>2. CASE work' = [work EXCEPT ![w].pc = "scan", ![w].entry = e, ![w].back = "scan",
                                    ![w].got = NoRecords]
      BY <1>1, <2>2, StepEntry DEF Handy
    <2>. QED
      BY <2>1, <2>2 DEF PutKey
  <1>4. \A v \in Worker : v # w => work'[v] = work[v]
    BY <1>3, Others
  <1>5. UNCHANGED <<now, local, resetAt, from>> /\ Lag' = Lag
    BY <1>1 DEF world, Lag
  <1>6. ASSUME NEW v \in Worker, work'[v].entry # Nil, v # w
        PROVE  /\ work'[v] = work[v] /\ work[v].entry \in Entry
               /\ heap'[work[v].entry] = heap[work[v].entry]
    BY <1>1, <1>2, <1>4, <1>6, Typed
  <1>7. Times'
    BY <1>1, <1>2, <1>3, <1>4, <1>5, Typed DEF KInv, Times
  <1>8. Shape'
    BY <1>1, <1>2, <1>3, <1>4, <1>5 DEF KInv, Shape, Handy
  <1>9. NotThere'
    <2>. SUFFICES ASSUME NEW v \in Worker, work'[v].pc = "check", ~work'[v].raced
                  PROVE  work'[v].digest \notin heap'[work'[v].entry].des
      BY DEF NotThere
    <2>1. v # w /\ work'[v] = work[v] /\ work[v].entry # Nil
      BY <1>3, <1>4 DEF KInv, Shape, Handy
    <2>. QED
      BY <1>6, <2>1 DEF KInv, NotThere
  <1>. SUFFICES ASSUME ~excused PROVE RecordsKnown' /\ KeysRecent' /\ ListsHold'
    BY <1>1, <1>7, <1>8, <1>9 DEF KInv
  <1>10. RecordsKnown /\ KeysRecent /\ ListsHold
    BY DEF KInv
  <1>11. /\ \A x, t : Recent(x, t)' <=> Recent(x, t)
         /\ \A des, t : AllRecent(des, t)' <=> AllRecent(des, t)
         /\ \A des, t : Holds(des, t)' <=> Holds(des, t)
    BY <1>1, SameWorld
  <1>12. RecordsKnown'
    BY <1>1, <1>4, <1>10, SameRecords
  <1>13. KeysRecent'
    <2>1. Recent(work[w].got.key, resetAt - Hour - Delay - Lag)
      <3>1. Recent(work[w].got.key, work[w].at - Lag)
        BY <1>1, <1>10 DEF KeysRecent
      <3>2. /\ resetAt \in Int /\ now \in Int /\ work[w].at \in Int
            /\ resetAt <= now + Hour /\ now <= work[w].at + Delay
        BY <1>1, Typed DEF KInv, Times
      <3>3. resetAt - Hour - Delay - Lag <= work[w].at - Lag
        BY <3>2, Bounds
      <3>. QED
        BY <1>1, <3>1, <3>2, <3>3, Bounds, Older
    <2>2. ASSUME NEW t PROVE AllRecent({}, t)
      BY DEF AllRecent
    <2>3. ASSUME NEW v \in Worker, work'[v].entry # Nil
          PROVE  AllRecent(heap'[work'[v].entry].des, work'[v].at - Hour - Lag)
      <3>1. CASE v = w
        BY <1>2, <1>3, <2>2, <2>3, <3>1
      <3>2. CASE v # w
        BY <1>6, <1>10, <2>3, <3>2 DEF KeysRecent
      <3>. QED
        BY <3>1, <3>2
    <2>4. ASSUME NEW u \in Worker, work'[u].pc = "got"
          PROVE  /\ Recent(work'[u].got.key, work'[u].at - Lag)
                 /\ ~(work'[u].entry # Nil /\ work'[u].entry = e)
                 /\ \A v \in Worker : work'[u].entry # Nil /\ work'[v].entry = work'[u].entry =>
                      AllRecent(work'[u].got.des, work'[v].at - Hour - Lag)
      <3>1. u # w /\ work'[u] = work[u] /\ work[u].entry # e
        BY <1>1, <1>3, <1>4, <2>4
      <3>2. ASSUME NEW v \in Worker, work[u].entry # Nil, work'[v].entry = work[u].entry
            PROVE  AllRecent(work[u].got.des, work'[v].at - Hour - Lag)
        <4>1. v # w
          BY <1>3, <3>1, <3>2
        <4>. QED
          BY <1>4, <1>10, <2>4, <3>1, <3>2, <4>1 DEF KeysRecent
      <3>. QED
        BY <1>10, <2>4, <3>1, <3>2 DEF KeysRecent
    <2>. QED
      BY <1>1, <1>2, <1>5, <1>11, <2>1, <2>2, <2>3, <2>4 DEF KeysRecent
  <1>14. ListsHold'
    <2>1. ASSUME NEW x \in Entry
          PROVE  Holds(heap'[x].des, heap'[x].last - Delay - 1 - Lag)
      <3>1. CASE x = e
        <4>1. ASSUME NEW d \in Digest PROVE ~Standing(d, 0 - Delay - 1 - Lag)
          BY Bounds DEF Standing, KInv, Times, TypeOK
        <4>. QED
          BY <1>2, <3>1, <4>1 DEF Holds
      <3>. QED
        BY <1>2, <1>10, <3>1 DEF ListsHold
    <2>2. ASSUME NEW v \in Worker, work'[v].pc \in {"got", "last", "rescan"}
          PROVE  v # w /\ work'[v] = work[v]
      BY <1>3, <1>4, <2>2
    <2>3. ASSUME NEW v \in Worker, work'[v].pc \in {"last", "rescan"}
          PROVE  heap'[work[v].entry] = heap[work[v].entry]
      <3>1. work[v].entry # Nil
        BY <2>2, <2>3 DEF KInv, Shape, Handy
      <3>. QED
        BY <1>6, <2>2, <2>3, <3>1
    <2>. QED
      BY <1>5, <1>10, <1>11, <2>1, <2>2, <2>3 DEF ListsHold
  <1>. QED
    BY <1>12, <1>13, <1>14

\* The list goes into the struct, whoever has that too.
LEMMA PutDesKeeps ==
  ASSUME TypeOK, KInv, NEW w \in Worker, PutDes(w)
  PROVE  KInv'
  <1>. DEFINE E == work[w].entry
  <1>1. /\ work[w].pc = "got" /\ E \in Entry /\ E # Nil
        /\ work[w].back \in {"scan", "rescan"}
        /\ UNCHANGED <<world, dns, cache, excused>>
    BY Typed DEF PutDes, KInv, Shape, Handy
  <1>2. /\ heap'[E].des = work[w].got.des /\ heap'[E].key = heap[E].key
        /\ heap'[E].last = heap[E].last
        /\ \A x \in Entry : x # E => heap'[x] = heap[x]
    BY <1>1 DEF PutDes, TypeOK, Struct
  <1>3. /\ work'[w].pc = "last"
        /\ \A v \in Worker :
             /\ work'[v].digest = work[v].digest /\ work'[v].at = work[v].at
             /\ work'[v].entry = work[v].entry /\ work'[v].back = work[v].back
             /\ v # w => work'[v].pc = work[v].pc /\ work'[v].got = work[v].got
    BY StepDes
  <1>4. ASSUME NEW v \in Worker, work'[v].pc = "check", ~work'[v].raced
        PROVE  v # w /\ ~work[v].raced /\ work[v].entry # E
    BY <1>3, <1>4, StepDes
  <1>. HIDE DEF E
  <1>5. UNCHANGED <<now, local, resetAt, from>> /\ Lag' = Lag
    BY <1>1 DEF world, Lag
  <1>6. Times'
    <2>1. \A x \in Entry : heap'[x].last = heap[x].last
      BY <1>2
    <2>2. \A v \in Worker : work'[v].pc # "idle" => work[v].pc # "idle"
      BY <1>1, <1>3
    <2>. QED
      BY <1>1, <1>3, <1>5, <2>1, <2>2 DEF KInv, Times
  <1>7. Shape'
    <2>1. ASSUME NEW v \in Worker PROVE Handy(work'[v])
      <3>1. Handy(work[v])
        BY DEF KInv, Shape
      <3>2. CASE v = w
        BY <1>1, <1>3, <3>1, <3>2 DEF Handy, E
      <3>3. CASE v # w
        BY <1>3, <3>1, <3>3 DEF Handy
      <3>. QED
        BY <3>2, <3>3
    <2>2. cache # Nil => heap'[cache].key = heap[cache].key
      BY <1>2 DEF TypeOK
    <2>. QED
      BY <1>1, <1>5, <2>1, <2>2 DEF KInv, Shape, Handy
  <1>8. NotThere'
    <2>. SUFFICES ASSUME NEW v \in Worker, work'[v].pc = "check", ~work'[v].raced
                  PROVE  work'[v].digest \notin heap'[work'[v].entry].des
      BY DEF NotThere
    <2>1. v # w /\ ~work[v].raced /\ work[v].entry # E /\ work[v].pc = "check"
      BY <1>3, <1>4
    <2>2. work[v].entry \in Entry
      BY <2>1, Typed DEF KInv, Shape, Handy
    <2>. QED
      BY <1>2, <1>3, <2>1, <2>2 DEF KInv, NotThere
  <1>. SUFFICES ASSUME ~excused PROVE RecordsKnown' /\ KeysRecent' /\ ListsHold'
    BY <1>1, <1>6, <1>7, <1>8 DEF KInv
  <1>9. RecordsKnown /\ KeysRecent /\ ListsHold
    BY DEF KInv
  <1>10. /\ \A x, t : Recent(x, t)' <=> Recent(x, t)
         /\ \A des, t : AllRecent(des, t)' <=> AllRecent(des, t)
         /\ \A des, t : Holds(des, t)' <=> Holds(des, t)
    BY <1>1, SameWorld
  <1>11. RecordsKnown'
    BY <1>1, <1>3, <1>9, SameRecords
  <1>12. KeysRecent'
    <2>1. ASSUME cache # Nil
          PROVE  /\ AllRecent(heap'[cache].des, resetAt - Hour - Lag)
                 /\ Recent(heap'[cache].key, resetAt - Hour - Delay - Lag)
      <3>1. CASE cache = E
        BY <1>1, <1>2, <1>9, <2>1, <3>1 DEF KeysRecent, E
      <3>2. CASE cache # E
        BY <1>2, <1>9, <2>1, <3>2 DEF KeysRecent, TypeOK
      <3>. QED
        BY <3>1, <3>2
    <2>2. ASSUME NEW v \in Worker, work[v].entry # Nil
          PROVE  AllRecent(heap'[work[v].entry].des, work[v].at - Hour - Lag)
      <3>1. CASE work[v].entry = E
        BY <1>1, <1>2, <1>9, <2>2, <3>1 DEF KeysRecent, E
      <3>2. CASE work[v].entry # E
        BY <1>2, <1>9, <2>2, <3>2, Typed DEF KeysRecent
      <3>. QED
        BY <3>1, <3>2
    <2>3. ASSUME NEW u \in Worker, work'[u].pc = "got"
          PROVE  u # w /\ work[u].pc = "got" /\ work'[u].got = work[u].got
      BY <1>3, <2>3
    <2>. QED
      BY <1>1, <1>3, <1>5, <1>9, <1>10, <2>1, <2>2, <2>3 DEF KeysRecent
  <1>13. ListsHold'
    <2>0. /\ work[w].at \in Int /\ now \in Int /\ now <= work[w].at + Delay
          /\ Holds(work[w].got.des, work[w].at - 1 - Lag)
      BY <1>1, <1>9, Typed DEF KInv, Times, ListsHold
    <2>1. ASSUME NEW t \in Int, t <= now PROVE Holds(work[w].got.des, t - Delay - 1 - Lag)
      <3>1. /\ t - Delay - 1 - Lag <= work[w].at - 1 - Lag
            /\ t - Delay - 1 - Lag \in Int /\ work[w].at - 1 - Lag \in Int
        BY <2>0, <2>1, Bounds
      <3>. QED
        BY <2>0, <3>1, Earlier
    <2>2. ASSUME NEW x \in Entry PROVE Holds(heap'[x].des, heap'[x].last - Delay - 1 - Lag)
      <3>1. CASE x = E
        <4>1. heap[E].last \in Int /\ heap[E].last <= now
          BY <1>1, Typed DEF KInv, Times
        <4>. QED
          BY <1>2, <2>1, <3>1, <4>1
      <3>2. CASE x # E
        BY <1>2, <1>9, <3>2 DEF ListsHold
      <3>. QED
        BY <3>1, <3>2
    <2>3. ASSUME NEW u \in Worker, work'[u].pc = "got"
          PROVE  Holds(work'[u].got.des, work'[u].at - 1 - Lag)
      BY <1>3, <1>9, <2>3 DEF ListsHold
    <2>4. ASSUME NEW u \in Worker, work'[u].pc \in {"last", "rescan"}
          PROVE  Holds(heap'[work[u].entry].des, work[u].at - Delay - 1 - Lag)
      <3>1. CASE work[u].entry = E
        <4>1. work[u].pc # "idle"
          BY <1>1, <1>3, <2>4
        <4>2. work[u].at \in Int /\ work[u].at <= now
          BY <4>1, Typed DEF KInv, Times
        <4>. QED
          BY <1>2, <2>1, <3>1, <4>2
      <3>2. CASE work[u].entry # E
        <4>1. u # w /\ work[u].pc \in {"last", "rescan"} /\ work[u].entry \in Entry
          BY <1>3, <2>4, <3>2, Typed DEF E, KInv, Shape, Handy
        <4>. QED
          BY <1>2, <1>9, <3>2, <4>1 DEF ListsHold
      <3>. QED
        BY <3>1, <3>2
    <2>. QED
      BY <1>3, <1>5, <1>10, <2>2, <2>3, <2>4 DEF ListsHold
  <1>. QED
    BY <1>11, <1>12, <1>13

\* The time goes into the struct, which may have another list by now.
LEMMA PutLastKeeps ==
  ASSUME TypeOK, KInv, NEW w \in Worker, PutLast(w)
  PROVE  KInv'
  <1>. DEFINE E == work[w].entry
  <1>0. Handy(work[w])
    BY DEF KInv, Shape
  <1>1. /\ work[w].pc = "last" /\ E \in Entry /\ work[w].back \in {"scan", "rescan"}
        /\ UNCHANGED <<world, dns, cache, excused>>
    BY <1>0, Typed DEF PutLast, Handy
  <1>2. /\ heap'[E].last = work[w].at
        /\ \A x \in Entry : /\ heap'[x].des = heap[x].des /\ heap'[x].key = heap[x].key
                            /\ x # E => heap'[x].last = heap[x].last
    BY <1>1 DEF PutLast, TypeOK, Struct
  <1>3. /\ Only(w) /\ work'[w].pc = work[w].back /\ work'[w].digest = work[w].digest
        /\ work'[w].at = work[w].at /\ work'[w].entry = work[w].entry
        /\ work'[w].back = work[w].back
    <2>1. work[w].back \in Stage /\ work' = [work EXCEPT ![w].pc = work[w].back]
      BY <1>1 DEF Stage, PutLast, Goes
    <2>. QED
      BY <2>1, StepGoes
  <1>. HIDE DEF E
  <1>4. \A v \in Worker : v # w => work'[v] = work[v]
    BY <1>3, Others
  <1>5. UNCHANGED <<now, local, resetAt, from>> /\ Lag' = Lag
    BY <1>1 DEF world, Lag
  <1>6. Times'
    BY <1>1, <1>2, <1>3, <1>4, <1>5 DEF KInv, Times, E
  <1>7. Shape'
    <2>1. Handy(work'[w])
      BY <1>0, <1>1, <1>3 DEF Handy
    <2>2. cache # Nil => heap'[cache].key = heap[cache].key
      BY <1>2 DEF TypeOK
    <2>. QED
      BY <1>1, <1>4, <1>5, <2>1, <2>2 DEF KInv, Shape, Handy
  <1>8. \A v \in Worker : work'[v].entry = work[v].entry /\ work'[v].at = work[v].at
    BY <1>3, <1>4
  <1>9. \A v \in Worker : work[v].entry # Nil =>
          heap'[work[v].entry].des = heap[work[v].entry].des
    BY <1>2, Typed
  <1>10. NotThere'
    <2>. SUFFICES ASSUME NEW v \in Worker, work'[v].pc = "check", ~work'[v].raced
                  PROVE  work'[v].digest \notin heap'[work'[v].entry].des
      BY DEF NotThere
    <2>1. v # w /\ work'[v] = work[v]
      BY <1>1, <1>3, <1>4
    <2>2. work[v].entry # Nil
      BY <2>1 DEF KInv, Shape, Handy
    <2>. QED
      BY <1>9, <2>1, <2>2 DEF KInv, NotThere
  <1>. SUFFICES ASSUME ~excused PROVE RecordsKnown' /\ KeysRecent' /\ ListsHold'
    BY <1>1, <1>6, <1>7, <1>10 DEF KInv
  <1>11. RecordsKnown /\ KeysRecent /\ ListsHold
    BY DEF KInv
  <1>12. /\ \A x, t : Recent(x, t)' <=> Recent(x, t)
         /\ \A des, t : AllRecent(des, t)' <=> AllRecent(des, t)
         /\ \A des, t : Holds(des, t)' <=> Holds(des, t)
    BY <1>1, SameWorld
  <1>13. RecordsKnown'
    BY <1>1, <1>4, <1>11, SameRecords
  <1>14. \A u \in Worker : work'[u].pc = "got" => u # w /\ work'[u] = work[u]
    BY <1>1, <1>3, <1>4
  <1>15. KeysRecent'
    <2>1. cache # Nil => /\ heap'[cache].des = heap[cache].des
                         /\ heap'[cache].key = heap[cache].key
      BY <1>2 DEF TypeOK
    <2>. QED
      BY <1>1, <1>5, <1>8, <1>9, <1>11, <1>12, <1>14, <2>1 DEF KeysRecent
  <1>16. ListsHold'
    <2>1. Holds(heap[E].des, work[w].at - Delay - 1 - Lag)
      BY <1>1, <1>11 DEF ListsHold, E
    <2>2. ASSUME NEW x \in Entry PROVE Holds(heap'[x].des, heap'[x].last - Delay - 1 - Lag)
      <3>1. CASE x = E
        BY <1>2, <2>1, <3>1
      <3>2. CASE x # E
        BY <1>2, <1>11, <3>2 DEF ListsHold
      <3>. QED
        BY <3>1, <3>2
    <2>3. ASSUME NEW u \in Worker, work'[u].pc \in {"last", "rescan"}
          PROVE  Holds(heap'[work[u].entry].des, work[u].at - Delay - 1 - Lag)
      <3>1. work[u].pc \in {"last", "rescan"} /\ work[u].entry # Nil
        BY <1>1, <1>4, <2>3 DEF KInv, Shape, Handy
      <3>. QED
        BY <1>9, <1>11, <3>1 DEF ListsHold
    <2>. QED
      BY <1>5, <1>8, <1>11, <1>12, <1>14, <2>2, <2>3 DEF ListsHold
  <1>. QED
    BY <1>13, <1>15, <1>16

-----------------------------------------------------------------------------
(* The invariant, and what it says.                                        *)

LEMMA InvStep == TypeOK /\ KInv /\ [Next]_vars => KInv'
  <1>. SUFFICES ASSUME TypeOK, KInv, [Next]_vars PROVE KInv'
    OBVIOUS
  <1>1. CASE Tick
    BY <1>1, TickKeeps
  <1>2. CASE Reset
    BY <1>2, ResetKeeps
  <1>3. CASE \E z \in Version : Change(z)
    BY <1>3, ChangeKeeps
  <1>4. ASSUME NEW w \in Worker, AskServer(w) \/ AskRecords(w) PROVE KInv'
    BY <1>4, AskServerKeeps, AskRecordsKeeps
  <1>5. ASSUME NEW w \in Worker, StatSame(w) \/ ReadFile(w) \/ StatNew(w) PROVE KInv'
    BY <1>5, LookKeeps, StatNewKeeps
  <1>6. ASSUME NEW w \in Worker, LookupFails(w) PROVE KInv'
    BY <1>6, LookupFailsKeeps, QuietStep
  <1>7. ASSUME NEW w \in Worker, (\E e \in Entry : PutKey(w, e)) \/ PutDes(w) \/ PutLast(w)
        PROVE  KInv'
    BY <1>7, PutKeyKeeps, PutDesKeeps, PutLastKeeps
  <1>8. ASSUME NEW w \in Worker,
               \/ Hit(w) \/ Miss(w) \/ NoList(w) \/ RenewList(w) \/ RefuseYoung(w)
               \/ RefuseRenewed(w) \/ AskFile(w)
               \/ \E d \in Digest : Accept(w, d) \/ NotListed(w, d)
        PROVE  KInv'
    BY <1>8, QuietStep
  <1>9. CASE UNCHANGED vars
    <2>1. /\ UNCHANGED <<now, local, zone, mtime, dns, cache, heap, work, resetAt>>
          /\ UNCHANGED <<world, from, upto, excused>>
      BY <1>9 DEF vars, world
    <2>2. /\ \A x, t : Recent(x, t)' <=> Recent(x, t)
          /\ \A des, t : AllRecent(des, t)' <=> AllRecent(des, t)
          /\ \A des, t : Holds(des, t)' <=> Holds(des, t)
      BY <2>1, SameWorld
    <2>3. Lag' = Lag
      BY <2>1 DEF Lag
    <2>4. Times' /\ Shape' /\ NotThere'
      BY <2>1 DEF KInv, Times, Shape, Handy, NotThere
    <2>5. RecordsKnown => RecordsKnown'
      BY <2>1, <2>2 DEF RecordsKnown
    <2>6. KeysRecent => KeysRecent'
      BY <2>1, <2>2, <2>3 DEF KeysRecent
    <2>7. ListsHold => ListsHold'
      BY <2>1, <2>2, <2>3 DEF ListsHold
    <2>. QED
      BY <2>1, <2>4, <2>5, <2>6, <2>7 DEF KInv
  <1>. QED
    BY <1>1, <1>2, <1>3, <1>4, <1>5, <1>6, <1>7, <1>8, <1>9 DEF Next

LEMMA Always == Spec => [](TypeOK /\ KInv)
  <1>1. Init => TypeOK /\ KInv
    BY TypeInit, InitInv
  <1>2. TypeOK /\ KInv /\ [Next]_vars => (TypeOK /\ KInv)'
    BY TypeStep, InvStep DEF KInv
  <1>. QED
    BY <1>1, <1>2, PTL DEF Spec

\* Type correctness, and the file's lock is with one goroutine at most.
THEOREM TypeCorrect == Spec => []TypeOK
  BY Always, PTL

\* The main key in the map was the author's within the hour and the time of a
\* message, with a file and Reload (mainkey_cache, update_localDNS).
THEOREM KeyStaysRecent == Spec => []KeyRecent
  <1>1. TypeOK /\ KInv => KeyRecent
    <2>. SUFFICES ASSUME TypeOK, KInv, cache # Nil, ~excused
                  PROVE  Recent(heap[cache].key, now - Hour - Delay - Lag)
      BY DEF KeyRecent
    <2>1. Recent(heap[cache].key, resetAt - Hour - Delay - Lag) /\ heap[cache].key \in Key
      BY DEF KInv, KeysRecent, Shape
    <2>2. now \in Int /\ resetAt \in Int /\ now <= resetAt
      BY Typed DEF KInv, Times
    <2>3. now - Hour - Delay - Lag <= resetAt - Hour - Delay - Lag
      BY <2>2, Bounds
    <2>. QED
      BY <2>1, <2>2, <2>3, Bounds, Older
  <1>. QED
    BY <1>1, Always, PTL

\* Whatever list a goroutine sees, also a torn one, is of keys of the last hour.
LEMMA SeenRecent ==
  ASSUME TypeOK, KInv, ~excused, NEW w \in Worker, NEW d \in Digest, Accept(w, d)
  PROVE  Recent(d, now - Hour - Delay - Lag)
  <1>1. KeysRecent /\ work[w].entry # Nil /\ work[w].pc # "idle"
    BY DEF KInv, Shape, Handy, Accept
  <1>2. PICK s \in Seen(w) : d \in s
    BY DEF Accept
  <1>3. \/ d \in Listed(w)
        \/ \E v \in Storing(w) : d \in work[v].got.des
    <2>1. \/ s = Listed(w)
          \/ \E v \in Storing(w) : s \in (SUBSET Listed(w)) \cup (SUBSET work[v].got.des)
      BY Zenon DEF Seen
    <2>2. ASSUME NEW v \in Storing(w), s \in (SUBSET Listed(w)) \cup (SUBSET work[v].got.des)
          PROVE  d \in Listed(w) \/ d \in work[v].got.des
      <3>1. s \subseteq Listed(w) \/ s \subseteq work[v].got.des
        BY <2>2
      <3>. QED
        BY <1>2, <3>1, Zenon
    <2>. QED
      BY <1>2, <2>1, <2>2, Zenon
  <1>4. Recent(d, work[w].at - Hour - Lag)
    <2>1. CASE d \in Listed(w)
      BY <1>1, <2>1 DEF KeysRecent, AllRecent, Listed
    <2>2. CASE \E v \in Storing(w) : d \in work[v].got.des
      <3>1. PICK v \in Storing(w) : d \in work[v].got.des
        BY <2>2
      <3>2. v \in Worker /\ work[v].pc = "got" /\ work[v].entry = work[w].entry
        BY DEF Storing
      <3>. QED
        BY <1>1, <3>1, <3>2 DEF KeysRecent, AllRecent
    <2>. QED
      BY <1>3, <2>1, <2>2
  <1>5. now \in Int /\ work[w].at \in Int /\ now <= work[w].at + Delay
    BY <1>1, Typed DEF KInv, Times
  <1>6. now - Hour - Delay - Lag <= work[w].at - Hour - Lag
    BY <1>5, Bounds
  <1>. QED
    BY <1>4, <1>5, <1>6, Bounds, Older

\* No message is accepted under a posting key withdrawn longer ago than the map,
\* one message and with a file Reload can keep it (ParseAndVerify, NewTTLMap).
THEOREM WithdrawnRefused == Spec => AcceptedFresh
  <1>1. TypeOK /\ KInv =>
          \A w \in Worker, d \in Digest : Accept(w, d) /\ ~excused =>
            Recent(d, now - Hour - Delay - Lag)
    BY SeenRecent
  <1>. QED
    BY <1>1, Always, PTL DEF AcceptedFresh

\* A refusal rests on a list that has everything published long enough.
LEMMA RefusalFounded ==
  ASSUME TypeOK, KInv, ~excused, NEW w \in Worker,
         (RefuseYoung(w) /\ ~work[w].raced) \/ Missed(w),
         Standing(work[w].digest, now - Renew - 2 * Delay - Lag)
  PROVE  FALSE
  <1>. DEFINE E == work[w].entry
              t == now - Renew - 2 * Delay - Lag
  <1>1. /\ ListsHold /\ E \in Entry /\ work[w].digest \in Digest
        /\ work[w].pc \in {"check", "rescan"}
    BY Typed DEF KInv, Shape, Handy, RefuseYoung, RefuseRenewed, Missed
  <1>2. /\ now \in Int /\ work[w].at \in Int /\ heap[E].last \in Int
        /\ now <= work[w].at + Delay
    BY <1>1, Typed DEF KInv, Times
  <1>. HIDE DEF E
  <1>3. t \in Int /\ Standing(work[w].digest, t)
    BY <1>2, Bounds
  <1>4. CASE RefuseYoung(w) /\ ~work[w].raced
    <2>1. heap[E].last + Renew > work[w].at /\ work[w].digest \notin heap[E].des
      BY <1>4 DEF KInv, NotThere, RefuseYoung, Young, E
    <2>2. Holds(heap[E].des, heap[E].last - Delay - 1 - Lag)
      BY <1>1 DEF ListsHold
    <2>3. /\ t <= heap[E].last - Delay - 1 - Lag
          /\ heap[E].last - Delay - 1 - Lag \in Int
      BY <1>2, <2>1, Bounds
    <2>. HIDE DEF t
    <2>4. Holds(heap[E].des, t)
      BY <1>3, <2>2, <2>3, Earlier
    <2>. QED
      BY <1>1, <1>3, <2>1, <2>4 DEF Holds
  <1>5. CASE Missed(w)
    <2>1. work[w].digest \notin heap[E].des /\ work[w].pc = "rescan"
      BY <1>5 DEF RefuseRenewed, Missed, Listed, E
    <2>2. Holds(heap[E].des, work[w].at - Delay - 1 - Lag)
      BY <1>1, <2>1 DEF ListsHold, E
    <2>3. t <= work[w].at - Delay - 1 - Lag /\ work[w].at - Delay - 1 - Lag \in Int
      BY <1>2, Bounds
    <2>. HIDE DEF t
    <2>4. Holds(heap[E].des, t)
      BY <1>3, <2>2, <2>3, Earlier
    <2>. QED
      BY <1>1, <1>3, <2>1, <2>4 DEF Holds
  <1>. QED
    BY <1>4, <1>5

\* A posting key published for two lookups and two messages is not refused, in
\* whatever order lists and their times are stored (ParseAndVerify), but for a
\* torn read that misses it and a list replaced before lastcache is read.
THEOREM StandingKept == Spec => StandingAccepted
  <1>1. TypeOK /\ KInv =>
          \A w \in Worker :
            ((RefuseYoung(w) /\ ~work[w].raced) \/ Missed(w)) /\ ~excused =>
              ~Standing(work[w].digest, now - Renew - 2 * Delay - Lag)
    BY RefusalFounded
  <1>. QED
    BY <1>1, Always, PTL DEF StandingAccepted
=============================================================================
