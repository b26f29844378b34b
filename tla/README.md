# A verification project for kep-edge

kep-edge is a node of the Knowledge-Exchange-Protocol, a distributed forum.
Neighbours push signed messages to it over HTTP; it verifies them against keys
published in DNS, writes them to a directory of files, and pushes them on. This
project models the parts of the node where goroutines, timers, files, caches and
failures meet, and a network of such nodes; it checks the models with TLC and
proves their invariants with TLAPS.

## 1. Inventory

| Component (source) | State | Operations | What is hard | What makes it correct | Module |
|---|---|---|---|---|---|
| Ingest pipeline (`server.go` 143-337, `verify/verify.go`) | `ttlMap` of seen messages; files `<tag>/<hash>.mdb`, `tag_<t>.idx`, `index/<hash>.txt` | `checkAndVeify_kep`, `ParseAndVerify`, `IngestMDB`, hourly reset | one goroutine per message; a DNS lookup between reading and writing `ttlMap`; four writes without a transaction; crashes | files refer only to what exists; only authors edit; what is forwarded is stored; duplicates are dropped | `Ingest` |
| kepdb (`kepdb/kepdb.go`) | `usedTags`, prefix maps, path cache | `ReadHash`, `ReadTag`, `index_Init` | a start that runs beside the first lookups; caches next to files that change; lines cut off in the middle | what is answered exists; what is listed is found; the newest first | `KepIndex` |
| Health check (`send/send.go`) | `nextloop`, `stateList`, 失效List (dead nodes), 检查中 (checks under way) | `Nextmsg`, `fail`, `succeed`, `set_aliveFail`, `auto_chk`, `recover_node`, `Append`, `Remove` | timers, three background loops and the operator over shared maps, without a common lock | a dead neighbour is never forgotten, recovers when it is up, is found out when it is down | `Health` |
| Operator interface (`server.go` 568-834) | `deny_Map`, `token_Map`, two files | ban, unban, resend, neighbor set/del, `saveTask` | copy on write under a lock that readers do not take; `nextloop` without a lock; files emptied before they are written | no lost ban; bans and neighbours are saved | `Admin`, `Health` for `nextloop` |
| Gossip (`change_Packet`, `Nextmsg`, `handleMsg`) | TTL byte of a message, seen map and files of every node | forward to all but the sender, resend | a byte that wraps; circles; copies that overtake each other; nodes that forget | TTL bounds the hops; messages stop; they reach everybody; private ones stay | `Gossip` |
| Author keys (`verify/verify.go` 296-442, `verify/dns.go`) | main key and digest cache; local records | lookup, renewal after 120 s, hourly reset | cached answers that are stale; a struct shared without a lock; a file read under a `TryLock` | a withdrawn key is refused in time; a published one is not refused for long | `KeyCache` |
| Rate limits (`getLimiter`, `limit/limit.go`) | limiter per token and domain; counters | `Allow`, `GetLimit`, two cleaners | racing first calls; limiters deleted and maps replaced under use | one burst; no more than the limit in a period | `Limits` |
| pbb cache (`pbb/pbb.go`) | map, ring, size | `Store`, `Load`, `cleanup`, `randClean` | several atomics that must agree | bounded | environment of `KepIndex` |
| Parser, clock, log, psl, config | - | pure or I/O | - | not a state machine (the log: order of two writers) | - |

Calls between them: `msgHandler` starts the pipeline under a known token
(`token_Map`) whose limiter allows it; the pipeline reads the seen map, the key
cache, kepdb, the limiters and `deny_Map`, in this order, writes the files and ends in
`send.Nextmsg`; `Nextmsg` feeds the health check with failures and is filtered by
it; the operator changes `deny_Map`, `token_Map` and `nextloop` and may call
`Nextmsg` with a stored message. The hourly reset empties the seen map and the key
cache together; the counters have a cleaner of their own.

## 2. Modules

| Module | Role |
|---|---|
| `Forum` | the abstract archive: stored, listed and threaded messages |
| `Ingest`, `MCIngest`, `IngestProofs` | the pipeline of one node down to single file operations; implements `Forum` |
| `Lookup` | the abstract lookup: what is stored, listed and loaded, and an answer in one step |
| `KepIndex`, `MCKepIndex`, `KepIndexProofs` | the store's index and lookups, with its start, caches and torn lines; implements `Lookup` |
| `Health`, `MCHealth`, `HealthProofs` | breaker, checks, sweep, recovery, the operator's requests, neighbours |
| `DenyList` | the abstract deny list, changed by one suffix at a time |
| `Admin`, `AdminProofs` | deny list, `token_Map`, saving, restarts; implements `DenyList` |
| `Flood` | the abstract network: who has a message, and from whom |
| `Gossip`, `MCGossip`, `GossipProofs`, `GossipDelivery` | a network of nodes; implements `Flood`; that it delivers has a module of its own |
| `KeyCache`, `MCKeyCache`, `KeyCacheProofs` | an author's keys, from what is published to the verdict on a message |
| `Limits`, `MCLimits`, `LimitsProofs` | one key's limiters and counters |

An `MC` module holds the values TLC needs, a `Proofs` module the theorems.
Definitions whose comment begins with "Mutant:" are not part of a model. Each
stands before the definition it varies and differs from it the way a plausible bug
would; put in its place it makes TLC find the property it is listed with in
`PROJECT.json` violated.

The modules meet at their edges: a verdict that one of them decides is a choice
left open in another. `Ingest` takes `ReadHash`, the limiters and the keys as a
`ReadOK`, a `RateLimit` and a `RejectKey` that may or may not happen, and
`KepIndex`, `Limits` and `KeyCache` say what happens inside; `Gossip` takes the
whole of a node's refusals as `Drop` and of its breakers as `Lose`, which `Ingest`
and `Health` detail.

### Ingest

A `Worker` is a goroutine inside `checkAndVeify_kep`; `pc` says where it is
between two accesses to shared state:

    idle -Receive-> seen -CheckSeen-> des -MarkSeen-> parent -CheckParent->
      [change -CheckChange->] limit -CreateFile-> fill -FillFile-> list
      -ListIdx-> link -Link-> [attach -Attach->] send -Send-> idle

Every error return leads back to `idle`. `seen[h]` counts the `Store`s of `h` in
`ttlMap`; the code sees only whether it is zero, the count is what
`DuplicatesOverlap` speaks of. `file`, `whole`, `idx`, `idxFile`, `open` and `sub`
are the disk: an `.mdb` file exists, holds all its bytes, has an index line, the
index file exists, a thread file exists, and what it lists. `Link` opens a thread
file, which creates it, and `Attach` writes a name into it: a crash or a failed write
in between leaves an open thread with nothing in it, and `Forum` has the two as steps
of their own (`MakeRoom`, `Attach`). `file` and `idx` are
indexed by the second tag, which the sender does not sign. `used` is kepdb's list of
tags, filled by `index_Init` at a start. `Crash` keeps the disk and forgets the
rest. `Resend` is the operator's resend.

A message is a model value; `Post[h]` holds what its author signed: tag, target,
root of the target's thread, author, permission and time. A rejected signature, an
unknown digest, a banned domain or an exhausted limiter drops the message: where
that comes before any change of state it is a delivery that did not happen, after
it a step to `idle` that is always possible (`RejectKey`, `RateLimit`).

### KepIndex

A reader `r` inside `ReadHash` is at `at[r]`: the path cache (`FromCache`), the tag
last seen with the hash's first two bytes (`ByPrefix`), the range over `usedTags`
(`ByMap`, then `ByIndex` or `ScanError` for each tag), the second look of
`FindALLFile` (`Stat`) and the store in the cache (`SetCache`). `index_Init` is
`BootGlob`, then `BootTag`, `BootLog`, and `BootRead` or `BootError` for each tag,
beside all that. `SaveFile`, `AppendLine` and `CutLine` are `WriteMDB`'s file and
line.

A 65-byte line is three cells: the half of the hash with its prefix, the other
half, the newline. That is enough for a line to be cut in the middle and for the
records of `index_Init` and `ReadTag`, which count 65 bytes from the start or the
end of the file, to fall out of step with the lines: `index_Init` then learns
whatever prefixes the bytes happen to give (`HeadKeys`). Hashes may share a prefix
and a slot of the cache; `Evict` lets pbb clear a slot whenever it likes, which
covers every order of its cleanings.

To `Lookup` a lookup is three events: `Begin` asks, the step at which the reader's
path is settled tells, `Finish` leaves. `due` is `owed`: a tag that was loaded when
the lookup began lists the message, and no file has failed to open since. All else
(`FromCache`'s misses, the ranges, the caches and their cleaning) is invisible there.

### Health

`chain[a][s]` is one run of `set_aliveFail` for address `a`: waiting for its first
ping, its second one, or about to list the node as dead. There is more than one
`Slot` because a mark is taken over after 180 s while the first run may still wait
for a ping. `dead[a]` is the table of `a` on the list of dead nodes and `todo[a]`
the copy `recover_node` works through; the code shares the table between them by
pointer, which `PutTable` models by value (an equal new table counts as the same
one). `alive := false` and listing the node, and delisting it and `alive := true`,
are separate steps. Durations are left out: a timer may fire at any time after it
was set.

`loop` is `nextloop`, a set of pairs of a token and an address: a token may have
several addresses (set anew with another URL the old entry stays) and an address
several tokens. `job[q]` is a "neighbor set" or "neighbor del" under way, access by
access: `Append` copies `nextloop`, writes it, makes the state, sets it alive;
`Remove` reads `nextloop`, deletes each state and then each table, and writes what is
left of its copy. Nothing orders two requests, so each may write over what the other
wrote. `wiped` is history: the dead addresses that the second delete of a `Remove`
took off the list after they had been made known again.

### Admin

`ban` and `unban` are a copy of the map under the lock and an assignment;
`neighbor` is one access to `token_Map`, with a URL or without; what it does to
`nextloop` and the health check is in `Health`, and nothing in `Admin` depends on it.
`saveTask` empties and writes each file in separate steps; `Restart` loads whatever the
files hold. `banned` is history: the suffixes whose ban was answered, less those
somebody has asked to lift since. To `DenyList` the copies and the lock are
invisible: a request is asked when its handler begins and takes effect in the step
that swaps the copy in.

### Gossip

A goroutine that handles a message at some node is a task in a bag, because there
may be two alike: it checks the TTL, the window and the seen map (`Check`), marks
(`Mark`), stores and begins `Nextmsg` (`Store`), and then sends to one neighbour
after the other (`Send`, or `Lose` if that one is skipped or does not answer). The
neighbour gets a task of its own before the sender goes on, as `handleMsg` answers
before it verifies. The bytes of a message are shared by the file and the sends of
one goroutine, and `change_Packet` writes into them after the file: `disk[n][m]` is
the byte as it came, what is sent is one less, modulo 256. `Reset`, `GrowOld` and
`Crash` are the hourly reset, the time window and a restart.

`pushed` and `disturbed` are history: which private messages an operator has sent
on, and whether anything was lost, dropped or forgotten. `Dist` is given with a
network, bounded by its links; nothing else is assumed of it. `Flood` sees the
files and `pushed` alone.

### KeyCache

The author publishes a `zone`: a main key and a list of posting keys, with a DNS
server or in the file of `custom_dns` with its `mtime`. A worker is a goroutine
in `ParseAndVerify`: it finds the struct in the map (`Hit`) or looks the main key up
(`Miss` ... `PutKey`), looks the list up if there is none (`NoList` ... `PutDes`,
`PutLast`), and looks for its message's digest there (`Accept`, `NotListed`); one
that is not listed is refused (`RefuseYoung`) or looked up again (`RenewList` ...
`RefuseRenewed`). `AskServer` to `LookupFails` are the lookup, with
`update_localDNS`'s `TryLock`, its comparison of time stamps and the order in which
it notes the time and reads.

What the code shares, the model shares: structs are on a heap, so that a goroutine
goes on using one that the hourly replacement has thrown out, or stores one from
before it afterwards; `des` and `lastcache` are stored and read one at a time; a
slice being stored may be seen in part (`Seen`), in the first look and in the one
after a renewal. One author is enough, since entries of different domains meet only
in the file, which is one unit; the author's domain is in the file always or never,
and one the file does not have is asked of a server (`localAndDNS`) or fails. `raced`
marks a goroutine that missed in such a part a digest the list has, or whose list was
replaced between its reading the list and its reading `lastcache`.

With a file, `excused` is set when the code can no longer know how old its records
are: a look at the file failed after its time was noted, the file was changed in
the second of a look, or a goroutine used records past their time because another
held the lock. Each of the three is a real state of the code; without any one of
them TLC finds the bounds broken.

### Limits

`limiterMap` and `counterMap` hold one key's limiter and counter; both live on a heap
like the structs above. A limiter of `golang.org/x/time/rate` is a bucket. `Load`,
`Touch`, `LoadOrStore`, `Allow` and `Deny` are `getLimiter` and its use; `Look` and
`Delete` the cleaner, which reads `lastUsed` and deletes in two steps; `LoadCounter`
to `LoadInt32` are `GetLimit`, whose first call in a period stores a zero and then
reads it; `CleanLimit` replaces the counters. `debt` is history: what has been
allowed and is not yet made up for at the limiter's rate.

`LimitsAssumption` relates the times: two requests fit into two hours, and in two
hours a limiter gets back two bursts and what comes in during three requests. The
code's numbers (7200 s, requests of seconds, a burst of one minute's messages)
satisfy it by far.

## 3. Runs

| Run | Instance | Shows |
|---|---|---|
| `ingest` | 2 symmetric goroutines, a topic, a reply, an edit and a forged edit, clock to 1, reset period 1, 1 crash | types; files closed under reference; only authors edit; forwarded is stored; duplicates only from goroutines already under way; implements `Forum` |
| `ingest_duplicate` | 2 goroutines, 1 topic | violation: a duplicate is listed twice |
| `ingest_refused` | 1 goroutine, a topic and its reply | violation: "already exist" for a message that was marked, dropped and never stored |
| `health` | 1 neighbour, 2 checks at once, 1 sender, 1 request at a time | no dead neighbour is forgotten; marks have owners; recovery and detection |
| `health_shared` | 2 tokens, 1 address | violation: deleting one token makes the other unreachable |
| `health_unstarted` | no token file at the start | violation: a neighbour set later never recovers |
| `admin` | 2 handlers of ban, 2 suffixes, a neighbour with a URL or without, 1 restart | types; no lost ban; each request changes the list once (`ImplementsDenyList`); both files are saved again and again, and a deleted neighbour leaves its file |
| `kepindex` | 2 messages with one prefix and one slot, 2 tags, 1 reader, files that grow by a line while shorter than one, `ReadTag` asked for 2, 1 fault, 1 crash | what is answered exists; what is listed is found; the newest first behind a torn line; implements `Lookup` |
| `gossip` | 4 nodes, 2 ways to one of them and a circle; a public message with TTL 4, a private one, one with TTL 251; 1 post, 1 event | every hop costs a TTL; no goroutine hands on a private message that a neighbour delivered; messages spread only from nodes that stored them (`ImplementsFlood`); they stop; undisturbed they have reached everybody then (`Delivered`, `Reaches`) |
| `gossip_resend` | the same nodes, a private message, 1 resend | violation: a neighbour whose operator resends a private message hands it on |
| `keycache` | 2 goroutines, 2 versions of the records, server or file, 1 change, clock to 5 | how long withdrawn keys live on in the cache; how soon published ones are accepted |
| `limits` | 2 goroutines, bursts of 2, limit 1, clock to 9, 1 new period | one burst, two after a race; limit and two messages per goroutine |

The five violation runs are disagreements between the code and its own comments,
log lines, errors or readme, quoted in `PROJECT.json` under `findings`. The two
`ingest` ones share a cause: `ttlMap` is read at line 393 and written at line 449,
before the parent check and the disk.

### Bounds

`Ingest`: one message of each kind reaches every branch of the pipeline, because
no check looks at more than a message, its target and its target's root. Two
goroutines are enough for every race: each step touches one message and one
thread. One crash suffices, since what a crash leaves behind depends on the disk
only and the steps after it are those of a fresh node. With a clock to one, a window
of one and a period of one, the topic is acceptable at both times, the reply and the
forged edit at the first, the edit at the second; the reset falls between them, so a
message that has been seen comes again as a new one. Private messages are in none of
its runs, as they differ only in never having a thread; the theorems cover them.

`Health`: a cap of one on `failNum` and waits of two rounds make the recovery wait,
fail, wait again and reach the cap; two overlapping checks are the most that one
mark can confuse. One request at a time meets everything but another request: the
checks, the sweep, the recovery and `auto_chk`'s start, which makes an address known
again between a `Remove`'s two deletes (`wiped`). Two requests are more than TLC
finishes with the liveness properties; what several do to each other is covered by
the theorems alone.

`KepIndex`: two messages that share everything two hashes can share, under two tags;
a cut line needs one more line behind it; a crash makes `index_Init` read it. A file
gets both messages behind a torn line and `ReadTag` is asked for two, so that their
order is examined; a tag with more messages than `ReadTag` returns is covered by the
theorem `TagsNewestFirst` alone.

`Gossip`: the node in the middle gets a copy by a way of one and by a way of two
hops, so that copies with different TTLs overtake each other; the circle brings a
message back to nodes that have forgotten it. The number of resets is not bounded;
a resend, a crash and a message growing old are alternatives.

`KeyCache`: a lookup, a renewal and two replacements of the map fit into the clock,
a change may fall before, between or after them, and each of the bounds in the
properties is reached: with one unit less TLC finds a violation.

`Limits`: the shortest idle time the assumption allows for two tokens and requests of
one unit; the bounds are reached as well, two bursts and the limit with two
messages for each goroutine.

The theorems need none of these bounds. Deadlock is not checked: a bounded clock
and a bounded number of crashes let the models stop, and a node with nothing to do
is not an error.

### Fairness

`Health`: weak fairness of each timer chain, of the sweep, of the recovery and of a
request that has begun: timers fire, pings end after ten seconds at most, and a
handler only works on maps. Nothing is assumed of senders, of the operator's
beginning a request or of the neighbours. `Admin`: weak fairness of the ban handlers'
and of `saveTask`'s steps, strong fairness of taking `deny_lock`, since `sync.Mutex`
hands the lock to a waiter that has waited for a millisecond. `Gossip`: weak fairness
of the goroutines' work taken together: lookups, file operations and sends end, as
the resolver and the HTTP client have timeouts; nothing is assumed of posts, resets
or crashes. `Ingest`, `KepIndex`, `KeyCache` and `Limits` state safety only.

### Where the properties stop

`Ingest` does not say that every goroutine ends: it would hold by the shape of the
pipeline, and what could prevent it, the file locks and the archive log's channel,
is not modelled. `ImplementsForum` allows a thread to be emptied by opening it again,
because a topic stored a second time does that, and a thread that is open and empty.

Two `neighbor` requests at once may each write over the other's `nextloop`, which
then disagrees with `token_Map`, as it does after a set without a URL or with a new
one. `Health` has these states, and no property excludes them: nothing in the
repository promises otherwise. `DeadIsQueued` exempts the addresses in `wiped`, which
only a `Remove` beside another request or beside `auto_chk`'s start can leave off the
list. `NeighbourTracked` is stated for its violation run. `Recovers` assumes a
neighbour that stays configured and up, and `Detects` one that stays configured and
down. `BansSaved` and `NeighboursSaved` do not speak of a restart that finds a file
emptied and not yet written; the model has it.

`Delivered` and `Reaches` need a connected network, tokens that tell the sender of a
message from every other neighbour and from clients (it is passed over by its token:
who shares it is passed over too), and a TTL of at least the number of nodes: with
less, a copy that comes by a longer way first can use the TTL up, and the better copy
is dropped as a duplicate.
`Network` states the first two; `MCGossip` assumes it of its instance, so that TLC
evaluates it. `Stops` needs a bound on resends.
A comment says that private messages are not forwarded to the next hop
(`server.go` 208); that is `PrivateNotForwarded`, and `gossip_resend` shows that a
resend breaks it. `PrivateSpread` is what is left: it allows for the resend.

`AcceptedFresh`, `KeyRecent` and `StandingAccepted` say nothing once `excused` is
set: what happens in those states of the file is modelled and not bounded. Of two
goroutines on one struct `StandingAccepted` excepts two data races: a torn read of
the list that misses a key the list has, in the first look or after the renewal, and a
list replaced between a goroutine's reads of the list and of `lastcache`. `CountKept` counts
what `GetLimit` lets through, not what a limiter denies before. `RateKept` is about a
limiter with one rpm; a change of a neighbour's rpm does not reach a limiter in use.

## 4. Proofs

All theorems hold for any messages, goroutines, neighbours, networks, handlers,
crashes and time bounds, from the assumptions named in the modules
(`WorkerAssumption`, `ConstantsAssumption`, `SlotAssumption`, `HealthAssumption`,
`AdminAssumption`, `KepIndexAssumption`, `GossipAssumption`,
`KeyCacheAssumption`, `LimitsAssumption`), which TLC evaluates in the runs.

`IngestProofs`. `IndexClosed` is not inductive: whether `Link` keeps it depends on
what the goroutine found out steps earlier. The inductive invariant `IInv` adds
what each stage knows of its message (its target is listed, or its author was
compared, or its file and line exist); those facts survive the steps of others
because stored and listed messages only become more, and a crash because it
leaves no goroutine. From it follow `TypeCorrect`, `DiskClosed`, `AuthorsOnly`,
`ForwardsKept` and `Refinement`, which maps every step to one of `Forum` or to a
stutter. `CopiesOverlap` has an argument of its own: once
a message is marked, its marks and the goroutines still between the check and the
mark are together never more than the goroutines there are, because no other gets
past the check. This is where `Worker` must be finite.

`KepIndexProofs`. `AnswersExist` rests on files never disappearing, so that whatever a
cache or a map says of a file that was there stays true; a slot is compared with the
whole hash, so a shared one answers for the hash it holds. `ListedFound` follows a
reader through the range: `owed` says that one of the tags ahead of `pos`, within
`last`, is logged and lists the hash, and stays so while lines are appended and tags
join behind. `LookupRefinement` maps every step with these two facts: the step that
settles a path is `Tell` because the file is there, and it tells that there is none
only if nothing is owed; what an index file contains it goes on containing, whatever is
appended behind it. `TagsNewestFirst` is about sequences: the cells written since the last
cut are a suffix of the file that consists of whole lines, so counting records back
from the end meets them one by one.

`HealthProofs`. `DeadIsQueued` and `MarkHasCheck` are inductive with the types.
`DeadIsQueued` rests on the order of writes: a check clears `alive` before it lists
the node, the recovery delists it before it sets `alive`, `Append` makes a state
only to set it alive in its next step, and `Remove` deletes the state before the
table. Any number of requests run beside them, on any tokens and addresses; the one
order among them that does lose a dead neighbour is what `wiped` records.

`AdminProofs`. `NoLostBan` needs that the map still is the one a handler copied,
which the lock gives, and that no handler lifts a suffix that counts as banned.
`DenyListRefinement` uses the first fact again, that the copy in a handler's hand is
the list with its own change made (`Copied`), and that an idle handler has nothing to
do (`Rested`); it is what makes `BAssign` a change by one suffix.

`GossipProofs`. `GInv` says of every task what `HopBudget` says of a file: distance and
TTL together are at most the TTL the message began with; a hop adds one to the
distance at most and takes one from the byte, which does not wrap because what is
sent on was at most 250 and more than one. For `PrivateSpread` it says of a task with a
private message how it got there. `FloodRefinement` adds `FInv`: a task that sends has
its message on its node's disk, and any other task has it by a post or from a linked
node that has it on disk. Files are never deleted, so this survives everything.

`GossipDelivery`. `Delivered` is the deepest of the safety properties, because the
seen map works against the TTL: a node keeps the first copy to arrive, also when it has
fewer hops left, and its neighbours may count on a copy that stops there. The
inductive invariant `DInv` (checked by TLC on `gossip`'s instance before it was proved)
says of an undisturbed message that

- every copy has been at as many different marked nodes as it has made hops
  (`Travelled`, `Stored`): the node it came from is passed over, and any other node it
  visits twice drops it, so `TTL0` less its TTL counts nodes;
- a node that has it marked has it or is about to store it (`Kept`);
- what a node that has it owes to each neighbour is done, on its way or still ahead in
  the node's loop, unless every node has it marked (`Owed`).

A copy whose TTL runs out, at a TTL of at least the number of nodes, has been at
all of them: that is the last case of `Owed`. With no goroutine left the nodes that
have the message are closed under links, so they are all nodes, as the network is
connected. `UndisturbedDelivers` assumes `Network`, which the operators of a network
set up, and no bound on nodes, messages or posts. `StoppingReaches` concludes that of
`Reaches` only `Stops` rests on fairness.

`KeyCacheProofs`. Two facts are followed from the zone to the verdict: how old the newest
of what is there can be, and since when nothing published is missing. `KInv` states
both, with the bound that belongs to the place, of the file's records
(`RecordsKnown`), of the struct in the map, of the structs goroutines hold and of the
answers in their hands (`KeysRecent`, `ListsHold`). They survive a change by the
author because every bound lies in the past, a store into a shared struct because
goroutines that share it began within the time of one message, and the reuse of a
struct because nobody has it. The properties' bounds are the sums: an hour, a
message and the reload time for `AcceptedFresh`; the renewal time, two messages and
the reload time for `StandingAccepted`. Both are action properties and follow from
`KInv` step by step.

`LimitsProofs`. `RateKept` needs that the key has one limiter that counts. Without a race
the debt is at most what the limiter in the map has given out; a limiter that was idle
for two hours is full, so its deletion changes nothing. After a race two limiters
count, the deleted one for as long as a request holds it. `CountKept` is a sum: the
messages let through are at most what the counters returned up to the limit, and one
for each goroutine that waits to read the zero it has stored or still holds a
counter of the period before.

Only model-checked: the liveness properties `Recovers`, `Detects`, `BansSaved`,
`NeighboursSaved` and `Stops` (liveness under fairness is out of the prover's
reach), `Reaches` as far as it rests on `Stops`, and the violation runs.
Every safety property and every refinement that a passing run checks is a theorem.

## 5. Plan

Done: `Forum`, `Ingest`, `Health`, `Admin`, `KepIndex`, `Gossip`, `KeyCache` and `Limits`
with their runs and proofs, and the abstract `Lookup`, `DenyList` and `Flood`. What
would add most, if the project goes on:

1. `PbbCache`: the map, ring and size of pbb as separate atomics. It would say how far
   the cache may grow; `KepIndex` already shows that no lookup depends on it.
2. The first sweep of `auto_chk` with `nextloop` as a sequence, whose index a `Remove`
   can put out of range.
3. `Admin` and `Health` together: `token_Map` beside `nextloop` and the requests that
   change both.
4. The rpm as a variable of `Limits`.
5. The archive log with its two writers.

## 6. Not modelled

Cryptography, the byte layout of messages, the text of DNS records and HTTP
requests, TLS, custom pages, configuration and the suffix rules of psl decide
whether and under which key a message is handled, and change no state. The clock of a
node is one that only goes forward: a synchronisation with a time server can set
the real one back, within the tolerance of the window. pbb's own bookkeeping and the
archive log are left out as section 5 says.

Go leaves a data race undefined below the level of one access. `KeyCache` models the
one on the digests' slice as a choice of what is seen; the assignment of a
`sync.Map` that others use (`verify.go` 100, 101) is one step in the models, and
`path_log`, a plain map filled beside its readers, ends the process at worst, which
`Crash` of `KepIndex` allows at any time.
