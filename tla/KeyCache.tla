------------------------------ MODULE KeyCache ------------------------------
(***************************************************************************)
(* What a node takes for an author's keys: mainkey_cache and its dnsCache  *)
(* entries (verify/verify.go) as ParseAndVerify uses them, the hourly      *)
(* replacement of the map, and the lookups behind them (verify/dns.go),    *)
(* of a DNS server or of a file that is read again from time to time.      *)
(*                                                                         *)
(* One author's domain: entries of different domains meet nowhere but in   *)
(* the file, which is one unit here too.  A message is the digest of its   *)
(* posting key; its main key is the author's or not, the rest is good.     *)
(* An entry is a struct on the heap: a goroutine goes on using the one it  *)
(* has loaded when the map no longer holds it.  des = {} stands for nil:   *)
(* DesLookup never returns an empty list, a domain without one is a lookup *)
(* that fails.                                                             *)
(*                                                                         *)
(* Abstracted: a domain comes into the file or leaves it at no time.  One  *)
(* that the file does not have is asked of the system's server if          *)
(* localAndDNS is set (~local here: the look at the file before that       *)
(* decides nothing), and is a lookup that fails if not.                    *)
(***************************************************************************)
EXTENDS Integers, FiniteSets

CONSTANTS
  Key, Digest, \* the author's main keys and posting keys
  Version,     \* the sets of records the author may publish
  Worker,      \* goroutines in ParseAndVerify at the same time
  Entry,       \* room for dnsCache structs
  Nil,
  Renew,       \* 120 s: a list younger than that is not looked up again
  Hour,        \* between two replacements of the map
  Reload,      \* 300 s: records of the file older than that are read again
  Delay,       \* bound on the time a message is worked on
  MaxTime,     \* bound on the clock
  MaxChange    \* bound on the changes of what the author publishes

Zone == [key : Key, des : (SUBSET Digest) \ {{}}]
NoRecords == [key |-> Nil, des |-> {}]
Stage == {"idle", "ask", "stat", "read", "got", "last", "scan", "check", "rescan"}
Idle == [pc |-> "idle", digest |-> Nil, at |-> 0, entry |-> Nil,
         got |-> NoRecords, back |-> "idle", raced |-> FALSE]
Work == [pc : Stage, digest : Digest \cup {Nil}, at : Int,
         entry : Entry \cup {Nil}, got : Zone \cup {NoRecords},
         back : {"idle", "key", "scan", "rescan"}, raced : BOOLEAN]
Struct == [key : Key \cup {Nil}, des : SUBSET Digest, last : Int]

ASSUME KeyCacheAssumption ==
  /\ Nil \notin Key \cup Digest \cup Entry \cup Worker /\ Key \cap Digest = {}
  /\ Version \subseteq Zone
  /\ Renew \in Nat \ {0} /\ Hour \in Nat /\ Reload \in Nat /\ Delay \in Nat
  /\ MaxTime \in Nat /\ MaxChange \in Nat

VARIABLES
  now,
  local,       \* custom_dns names a file, which has the domain
  zone,        \* the records the author publishes, with the server or in the file
  mtime,       \* when the file was written
  dns,         \* localDNS and its lock
  cache,       \* the author's entry in mainkey_cache
  heap,        \* the dnsCache structs
  work,        \* what the goroutines do
  resetAt,     \* when the map is replaced next
  from, upto,  \* history: since when, and until when, a key is published
  excused,     \* history: the records of the file may be old (see AcceptedFresh)
  changes

vars == <<now, local, zone, mtime, dns, cache, heap, work, resetAt, from, upto,
          excused, changes>>
world == <<now, local, zone, mtime, resetAt, from, upto, changes>>

Never == 0 - Hour - Renew - Reload - 2 * Delay - 2
Published == {zone.key} \cup zone.des
LocalDNS(records, lasttime, lastupdate) ==
  [records |-> records, lasttime |-> lasttime, lastupdate |-> lastupdate, lock |-> Nil]

Init ==
  /\ now = 0 /\ local \in BOOLEAN /\ zone \in Version
  /\ mtime \in IF local THEN {0 - 1, 0} ELSE {0}
  /\ dns = LocalDNS(zone, mtime, now)
  /\ cache = Nil
  /\ heap = [e \in Entry |-> [key |-> Nil, des |-> {}, last |-> 0]]
  /\ work = [w \in Worker |-> Idle]
  /\ resetAt = Hour
  /\ from = [x \in Key \cup Digest |-> 0]
  /\ upto = [x \in Key \cup Digest |-> Never]
  /\ excused = FALSE /\ changes = 0

Goes(w, s) == work' = [work EXCEPT ![w].pc = s]
Ends(w) == work' = [work EXCEPT ![w] = Idle]

-----------------------------------------------------------------------------
(* The surroundings.                                                       *)

\* Nothing is worked on for longer than Delay, and the map is replaced in time.
Tick ==
  /\ now < MaxTime /\ now < resetAt
  /\ \A w \in Worker : work[w].pc # "idle" => now < work[w].at + Delay
  /\ now' = now + 1
  /\ UNCHANGED <<local, zone, mtime, dns, cache, heap, work, resetAt, from, upto,
                 excused, changes>>

\* The author publishes other records.  A second version of the file in the
\* second in which it has been looked at cannot be told from the first.
Change(z) ==
  /\ changes < MaxChange /\ changes' = changes + 1
  /\ z # zone /\ zone' = z
  /\ mtime' = IF local THEN now ELSE mtime
  /\ from' = [x \in DOMAIN from |-> IF x \in Published THEN from[x] ELSE now]
  /\ upto' = [x \in DOMAIN upto |-> IF x \in Published THEN now ELSE upto[x]]
  /\ excused' = (excused \/ (local /\ dns.lasttime = now))
  /\ UNCHANGED <<now, local, dns, cache, heap, work, resetAt>>

\* Mutant: the hourly cleaning forgets the messages, not the keys.
KeepKeys == UNCHANGED cache

\* The hourly replacement of the map; the structs live on with their users.
NewCache == cache' = Nil

Reset ==
  /\ now = resetAt /\ resetAt' = now + Hour
  /\ NewCache
  /\ UNCHANGED <<now, local, zone, mtime, dns, heap, work, from, upto, excused, changes>>

-----------------------------------------------------------------------------
(* NSLookupTXT and update_localDNS.                                        *)

\* Mutant: records once read are good for ever.
NeverDue == FALSE

\* Mutant: the lock is given back by the happy path only.
KeepLock(d) == d

Unlock(d) == [d EXCEPT !.lock = Nil]

Due == dns.lastupdate + Reload < now
Answered(w, records) ==
  work' = [work EXCEPT ![w].pc = "got", ![w].got = records]

\* A server's answer is what is published when it answers.
AskServer(w) ==
  /\ work[w].pc = "ask" /\ ~local
  /\ Answered(w, zone)
  /\ UNCHANGED <<world, dns, cache, heap, excused>>

\* The records of the file as they are: young enough, or another goroutine has
\* the lock; then they are used whatever their age.
AskRecords(w) ==
  /\ work[w].pc = "ask" /\ local
  /\ ~Due \/ dns.lock # Nil
  /\ Answered(w, dns.records)
  /\ excused' = (excused \/ Due)
  /\ UNCHANGED <<world, dns, cache, heap>>

AskFile(w) ==
  /\ work[w].pc = "ask" /\ local /\ Due /\ dns.lock = Nil
  /\ dns' = [dns EXCEPT !.lock = w]
  /\ Goes(w, "stat")
  /\ UNCHANGED <<world, cache, heap, excused>>

\* Same time of modification: the records are taken for good.
StatSame(w) ==
  /\ work[w].pc = "stat" /\ dns.lasttime = mtime
  /\ dns' = Unlock([dns EXCEPT !.lastupdate = now])
  /\ Answered(w, dns.records)
  /\ UNCHANGED <<world, cache, heap, excused>>

StatNew(w) ==
  /\ work[w].pc = "stat" /\ dns.lasttime # mtime
  /\ dns' = [dns EXCEPT !.lasttime = mtime]
  /\ Goes(w, "read")
  /\ UNCHANGED <<world, cache, heap, excused>>

ReadFile(w) ==
  /\ work[w].pc = "read"
  /\ dns' = Unlock([dns EXCEPT !.records = zone, !.lastupdate = now])
  /\ Answered(w, zone)
  /\ UNCHANGED <<world, cache, heap, excused>>

\* A lookup fails and the message is refused.  After a failed read lasttime
\* says that the file has been read.
LookupFails(w) ==
  /\ work[w].pc \in {"ask", "stat", "read"}
  /\ Ends(w)
  /\ IF work[w].pc = "ask" THEN UNCHANGED <<dns, excused>>
     ELSE dns' = Unlock(dns) /\ excused' = TRUE
  /\ UNCHANGED <<world, cache, heap>>

-----------------------------------------------------------------------------
(* ParseAndVerify.                                                         *)

Begins(w, s, e, b) ==
  /\ work[w].pc = "idle"
  /\ work' = [work EXCEPT ![w] =
                [Idle EXCEPT !.pc = s, !.at = now, !.entry = e, !.back = b]]
  /\ UNCHANGED <<world, dns, cache, heap, excused>>

\* The cache has the main key (that of the message, or nothing else happens).
Hit(w) == cache # Nil /\ Begins(w, "scan", cache, "scan")

Miss(w) == cache = Nil /\ Begins(w, "ask", Nil, "key")

\* The new entry replaces what others may have stored in the meantime; the main
\* key of the message may be another.
InUse(e) == cache = e \/ \E w \in Worker : work[w].entry = e

PutKey(w, e) ==
  /\ work[w].pc = "got" /\ work[w].back = "key"
  /\ e \in Entry /\ ~InUse(e)
  /\ heap' = [heap EXCEPT ![e] = [key |-> work[w].got.key, des |-> {}, last |-> 0]]
  /\ cache' = e
  /\ \/ Ends(w)
     \/ work' = [work EXCEPT ![w].pc = "scan", ![w].entry = e, ![w].back = "scan",
                             ![w].got = NoRecords]
  /\ UNCHANGED <<world, dns, excused>>

\* dns_cached.des = des_s, and in a statement of its own dns_cached.lastcache.
PutDes(w) ==
  /\ work[w].pc = "got" /\ work[w].back # "key"
  /\ heap' = [heap EXCEPT ![work[w].entry].des = work[w].got.des]
  /\ work' = [v \in Worker |->
                IF v = w THEN [work[w] EXCEPT !.pc = "last", !.got = NoRecords]
                ELSE IF work[v].pc = "check" /\ work[v].entry = work[w].entry
                THEN [work[v] EXCEPT !.raced = TRUE] ELSE work[v]]
  /\ UNCHANGED <<world, dns, cache, excused>>

PutLast(w) ==
  /\ work[w].pc = "last"
  /\ heap' = [heap EXCEPT ![work[w].entry].last = work[w].at]
  /\ Goes(w, work[w].back)
  /\ UNCHANGED <<world, dns, cache, excused>>

\* The list as w reads it.  A slice is several words: while another goroutine
\* stores one, only a part of the old or of the new one may be seen.
Listed(w) == heap[work[w].entry].des
Storing(w) ==
  {v \in Worker \ {w} : /\ work[v].pc = "got" /\ work[v].back # "key"
                        /\ work[v].entry = work[w].entry /\ Listed(w) # {}}
Seen(w) == {Listed(w)} \cup UNION {(SUBSET Listed(w)) \cup (SUBSET work[v].got.des) :
                                     v \in Storing(w)}

NoList(w) ==
  /\ work[w].pc = "scan" /\ Listed(w) = {}
  /\ Goes(w, "ask")
  /\ UNCHANGED <<world, dns, cache, heap, excused>>

\* d is the digest of the message, and in the list.
Accept(w, d) ==
  /\ work[w].pc \in {"scan", "rescan"} /\ Listed(w) # {}
  /\ work[w].pc = "rescan" => work[w].digest = d
  /\ \E s \in Seen(w) : d \in s
  /\ Ends(w)
  /\ UNCHANGED <<world, dns, cache, heap, excused>>

NotListed(w, d) ==
  /\ work[w].pc = "scan" /\ Listed(w) # {}
  /\ \E s \in Seen(w) : d \notin s
  /\ work' = [work EXCEPT ![w].pc = "check", ![w].digest = d,
                          ![w].raced = (d \in Listed(w))]
  /\ UNCHANGED <<world, dns, cache, heap, excused>>

\* Mutant: a list once looked up is not renewed.
NoRenewal(w) == heap[work[w].entry].last > 0 - 1

\* The list is too young to be looked up again.
Young(w) == heap[work[w].entry].last + Renew > work[w].at

RenewList(w) ==
  /\ work[w].pc = "check" /\ ~Young(w)
  /\ work' = [work EXCEPT ![w].pc = "ask", ![w].back = "rescan", ![w].raced = FALSE]
  /\ UNCHANGED <<world, dns, cache, heap, excused>>

\* "not found in cache", and "not found in renew" below.
RefuseYoung(w) ==
  /\ work[w].pc = "check" /\ Young(w)
  /\ Ends(w)
  /\ UNCHANGED <<world, dns, cache, heap, excused>>

RefuseRenewed(w) ==
  /\ work[w].pc = "rescan"
  /\ \E s \in Seen(w) : work[w].digest \notin s
  /\ Ends(w)
  /\ UNCHANGED <<world, dns, cache, heap, excused>>

Next ==
  \/ Tick \/ Reset \/ \E z \in Version : Change(z)
  \/ \E w \in Worker :
       \/ AskServer(w) \/ AskRecords(w) \/ AskFile(w)
       \/ StatSame(w) \/ StatNew(w) \/ ReadFile(w) \/ LookupFails(w)
       \/ Hit(w) \/ Miss(w)
       \/ \E e \in Entry : PutKey(w, e)
       \/ PutDes(w) \/ PutLast(w)
       \/ NoList(w) \/ \E d \in Digest : Accept(w, d) \/ NotListed(w, d)
       \/ RenewList(w) \/ RefuseYoung(w) \/ RefuseRenewed(w)

Spec == Init /\ [][Next]_vars

-----------------------------------------------------------------------------
(* Properties.                                                             *)

\* The types of the variables, and the file's lock is with the one who looks.
TypeOK ==
  /\ now \in Nat /\ local \in BOOLEAN /\ zone \in Zone /\ mtime \in Int
  /\ dns \in [records : Zone, lasttime : Int, lastupdate : Nat,
              lock : Worker \cup {Nil}]
  /\ cache \in Entry \cup {Nil} /\ heap \in [Entry -> Struct]
  /\ work \in [Worker -> Work] /\ resetAt \in Nat
  /\ from \in [Key \cup Digest -> Int] /\ upto \in [Key \cup Digest -> Int]
  /\ excused \in BOOLEAN /\ changes \in Nat
  /\ \A w \in Worker : work[w].pc \in {"stat", "read"} <=> dns.lock = w

Lag == IF local THEN Reload ELSE 0

\* x was published at time t or later; x has been published since t.
Recent(x, t) == x \in Published \/ upto[x] >= t
Standing(x, t) == x \in Published /\ from[x] <= t

\* A posting key the author has withdrawn is accepted until the cached list goes
\* with the hourly replacement of the map, and no longer than that and the time
\* one message takes (ParseAndVerify, NewTTLMap); with a file, Reload longer.
\* With a file nothing is promised once the file has been changed in the second
\* in which it was looked at, a look at it has failed, or a goroutine has used
\* old records because another had the lock (update_localDNS).
AcceptedFresh ==
  [][\A w \in Worker, d \in Digest : Accept(w, d) /\ ~excused =>
       Recent(d, now - Hour - Delay - Lag)]_vars

\* The main key in the map was the author's within the same time, although a
\* lookup from before a replacement may be stored after it: from then on
\* messages under a new main key are no longer refused.
KeyRecent ==
  cache # Nil /\ ~excused => Recent(heap[cache].key, now - Hour - Delay - Lag)

\* The digest is refused and the renewed list does not have it.
Missed(w) == RefuseRenewed(w) /\ work[w].digest \notin Listed(w)

\* A message is not refused for its posting key when that has been published
\* for the time between two lookups and the time of two messages, in whatever
\* order goroutines store lists and lastcache.  Two data races are excepted, and
\* nothing else that goroutines do to each other: a torn read that misses a key
\* the list has, before the renewal (raced) or after it, and a list replaced
\* between a goroutine's reads of the list and of lastcache (raced).
StandingAccepted ==
  [][\A w \in Worker :
       ((RefuseYoung(w) /\ ~work[w].raced) \/ Missed(w)) /\ ~excused =>
         ~Standing(work[w].digest, now - Renew - 2 * Delay - Lag)]_vars
=============================================================================
