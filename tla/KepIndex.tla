------------------------------ MODULE KepIndex ------------------------------
(***************************************************************************)
(* The file store and hash index of kepdb/kepdb.go: how ReadHash finds the *)
(* file of a message through a path cache, two maps of hash prefixes and   *)
(* the index files, while index_Init still fills those maps, WriteMDB      *)
(* (verify/verify.go) appends to the files and the process crashes.        *)
(*                                                                         *)
(* A line of tag_<t>.idx is 65 bytes, 64 of them the hash.  Here it is     *)
(* three cells: the half of the hash that holds the prefix, the other half *)
(* and the newline, so that a write can be cut off in the middle and every *)
(* later line starts at an offset that is no multiple of a line.           *)
(*                                                                         *)
(* Abstracted: what a file holds; the bucket pbb chooses for a hash is a   *)
(* Slot, and pbb may clear a slot at any time.  path_log is a plain Go map *)
(* that index_Init fills while others read it: what the runtime does when  *)
(* it notices is to end the process, which Crash allows at any time.       *)
(***************************************************************************)
EXTENDS Integers, Sequences, FiniteSets

CONSTANTS
  Hash,      \* the messages, named by t_hash
  Tag,       \* tags, each a directory and an index file
  Prefix,    \* the first two bytes of hashes
  PrefixOf,  \* PrefixOf[h]: those of h
  Slot,      \* 64-bit keys of the path cache
  SlotOf,    \* SlotOf[h]: the key of h; different hashes may share one
  None,      \* no tag, no hash, an empty slot
  Reader,    \* goroutines inside ReadHash
  Arrives,   \* <<t, h>>: h is stored under t if it comes
  MaxTagNum, \* how many messages ReadTag returns at most (8192)
  MaxLines,  \* bound: an index file of that many lines gets only those already begun
  MaxFault,  \* bound on failing writes and reads
  MaxCrash   \* bound on crashes

Cell == Hash \X (1..3)
Line(h) == <<<<h, 1>>, <<h, 2>>, <<h, 3>>>>
Entry == [hash : Hash, tag : Tag]
Stage == {"idle", "cache", "prefix", "tags", "scan", "stat", "set", "done"}

ASSUME KepIndexAssumption ==
  /\ Arrives \subseteq Tag \X Hash
  /\ PrefixOf \in [Hash -> Prefix] /\ SlotOf \in [Hash -> Slot]
  /\ None \notin Tag /\ None \notin Hash /\ None \notin Entry
  /\ MaxTagNum \in Nat /\ MaxLines \in Nat /\ MaxFault \in Nat /\ MaxCrash \in Nat

VARIABLES
  file,      \* <<t, h>>: kep-data/<t>/<h>.mdb exists
  idx,       \* idx[t]: the cells of tag_<t>.idx
  made,      \* tags whose index file exists
  pending,   \* <<t, h>>: WriteMDB has written the file and not yet the line
  tail,      \* history: tail[t], the hashes listed whole since the last cut line
  boot,      \* where index_Init is
  todo,      \* the tags it has still to load
  cur,       \* the tag it is loading
  used,      \* usedTags
  logged,    \* the keys of path_log
  dataMap,   \* dataMap[t]: prefixes believed to occur under t
  prefixMap, \* prefixMap[p]: the tag last seen with prefix p
  cache,     \* cache[s]: hash and path stored in slot s
  at,        \* where each reader is
  want,      \* the hash it looks for
  pos, last, \* its position in usedTags, and where its range ends
  path,      \* the tag under which it found the file
  owed,      \* history: the hash was listed under a loaded tag when it began
  faults, crashes

disk == <<file, idx, made, pending, tail>>
booting == <<boot, todo, cur, used, logged>>
maps == <<dataMap, prefixMap>>
reading == <<at, want, pos, last, path, owed>>
bounds == <<faults, crashes>>
vars == <<disk, booting, maps, cache, reading, bounds>>

\* bytes.Contains: the two halves of the hash next to each other.
Contains(s, h) == \E i \in 1..(Len(s) - 1) : s[i] = <<h, 1>> /\ s[i + 1] = <<h, 2>>
Listed(t, h) == Contains(idx[t], h)

\* The first cells of the records index_Init reads.  One that is not the
\* start of a hash decodes to some other two bytes, or to none.
Heads(s) == {s[i] : i \in {j \in 1..Len(s) : (j - 1) % 3 = 0}}
HeadKeys(s) ==
  {{PrefixOf[c[1]] : c \in {d \in Heads(s) : d[2] = 1}} \cup junk :
     junk \in IF \A c \in Heads(s) : c[2] = 1 THEN {{}} ELSE SUBSET Prefix}

\* Mutant: the block of the newest lines is returned in the order of the file.
ReadTagOldestFirst(s) ==
  LET count == Len(s) \div 3
      limit == IF count < MaxTagNum THEN count ELSE MaxTagNum
      offset == Len(s) - limit * 3
  IN  [i \in 1..limit |->
         SubSeq(s, offset + (i - 1) * 3 + 1, offset + (i - 1) * 3 + 2)]

\* ReadTag: the last records of the file, the newest first.
ReadTag(s) ==
  LET count == Len(s) \div 3
      limit == IF count < MaxTagNum THEN count ELSE MaxTagNum
      offset == Len(s) - limit * 3
  IN  [i \in 1..limit |->
         SubSeq(s, offset + (limit - i) * 3 + 1, offset + (limit - i) * 3 + 2)]

\* The variables of a process that has just started.
Init == /\ file = {} /\ made = {} /\ pending = {}
        /\ idx = [t \in Tag |-> <<>>] /\ tail = [t \in Tag |-> <<>>]
        /\ boot = "glob" /\ todo = {} /\ cur = None /\ used = <<>> /\ logged = {}
        /\ dataMap = [t \in Tag |-> {}] /\ prefixMap = [p \in Prefix |-> None]
        /\ cache = [s \in Slot |-> None]
        /\ at = [r \in Reader |-> "idle"]
        /\ want = [r \in Reader |-> None] /\ path = [r \in Reader |-> None]
        /\ pos = [r \in Reader |-> 0] /\ last = [r \in Reader |-> 0]
        /\ owed = [r \in Reader |-> FALSE]
        /\ faults = 0 /\ crashes = 0

-----------------------------------------------------------------------------
(* WriteMDB, for a message that has passed the checks of Ingest.           *)

\* Mutant: the line is written although the file was not.
ListUnsaved(t, h) ==
  /\ <<t, h>> \notin pending
  /\ Len(idx[t]) < 3 * MaxLines
  /\ pending' = pending \cup {<<t, h>>}
  /\ UNCHANGED <<file, idx, made, tail, booting, maps, cache, reading, bounds>>

\* The file of the message; if its write fails, an empty one may be left...
SaveFile(t, h) ==
  /\ <<t, h>> \notin pending
  /\ Len(idx[t]) < 3 * MaxLines
  /\ file' = file \cup {<<t, h>>}
  /\ pending' \in {pending, pending \cup {<<t, h>>}}
  /\ UNCHANGED <<idx, made, tail, booting, maps, cache, reading, bounds>>

\* ... and its line, appended under the tag's lock.
AppendLine(t, h) ==
  /\ <<t, h>> \in pending
  /\ pending' = pending \ {<<t, h>>}
  /\ idx' = [idx EXCEPT ![t] = @ \o Line(h)]
  /\ tail' = [tail EXCEPT ![t] = Append(@, h)]
  /\ made' = made \cup {t}
  /\ UNCHANGED <<file, booting, maps, cache, reading, bounds>>

\* The write fails after some cells, or none: a full disk.
CutLine(t, h) ==
  /\ <<t, h>> \in pending
  /\ faults < MaxFault /\ faults' = faults + 1
  /\ pending' = pending \ {<<t, h>>}
  /\ \E k \in 0..2 :
       /\ idx' = [idx EXCEPT ![t] = @ \o SubSeq(Line(h), 1, k)]
       /\ tail' = IF k = 0 THEN tail ELSE [tail EXCEPT ![t] = <<>>]
  /\ made' = made \cup {t}
  /\ UNCHANGED <<file, booting, maps, cache, reading, crashes>>

-----------------------------------------------------------------------------
(* index_Init, in a goroutine main does not wait for.                      *)

\* The maps are emptied and the index files found.
BootGlob ==
  /\ boot = "glob"
  /\ boot' = "next" /\ todo' = made /\ used' = <<>> /\ logged' = {}
  /\ UNCHANGED <<cur, disk, maps, cache, reading, bounds>>

\* A file's tag joins usedTags...
BootTag(t) ==
  /\ boot = "next" /\ t \in todo
  /\ boot' = "log" /\ cur' = t /\ todo' = todo \ {t}
  /\ used' = Append(used, t)
  /\ UNCHANGED <<logged, disk, maps, cache, reading, bounds>>

\* ... then path_log, with an empty map...
BootLog ==
  /\ boot = "log"
  /\ boot' = "read" /\ logged' = logged \cup {cur}
  /\ UNCHANGED <<todo, cur, used, disk, maps, cache, reading, bounds>>

\* What a tag's records say about prefixes goes into both maps.
Learn(t, keys) ==
  /\ dataMap' = [dataMap EXCEPT ![t] = @ \cup keys]
  /\ prefixMap' = [p \in Prefix |-> IF p \in keys THEN t ELSE prefixMap[p]]

\* ... which is filled from the records of the file.
BootRead ==
  /\ boot = "read"
  /\ boot' = "next" /\ cur' = None
  /\ \E keys \in HeadKeys(idx[cur]) : Learn(cur, keys)
  /\ UNCHANGED <<todo, used, logged, disk, cache, reading, bounds>>

\* The file cannot be read: the tag stays, its map empty.
BootError ==
  /\ boot = "read"
  /\ faults < MaxFault /\ faults' = faults + 1
  /\ boot' = "next" /\ cur' = None
  /\ UNCHANGED <<todo, used, logged, disk, maps, cache, reading, crashes>>

-----------------------------------------------------------------------------
(* findHashFile.                                                           *)

Step(r, from, to) == at[r] = from /\ at' = [at EXCEPT ![r] = to]
Key(r) == PrefixOf[want[r]]

Begin(r, h) ==
  /\ Step(r, "idle", "cache")
  /\ want' = [want EXCEPT ![r] = h]
  /\ owed' = [owed EXCEPT ![r] = \E i \in 1..Len(used) :
                                   used[i] \in logged /\ Listed(used[i], h)]
  /\ UNCHANGED <<pos, last, path, disk, booting, maps, cache, bounds>>

\* Mutant: the slot's own hash is not compared.
AnySlot(r) ==
  LET c == cache[SlotOf[want[r]]] IN
  /\ at[r] = "cache"
  /\ IF c # None
     THEN /\ path' = [path EXCEPT ![r] = c.tag]
          /\ at' = [at EXCEPT ![r] = "done"]
     ELSE /\ at' = [at EXCEPT ![r] = "prefix"]
          /\ UNCHANGED path
  /\ UNCHANGED <<want, pos, last, owed, disk, booting, maps, cache, bounds>>

\* cacheGet: a path found before is returned without another look.
FromCache(r) ==
  LET c == cache[SlotOf[want[r]]] IN
  /\ at[r] = "cache"
  /\ IF c # None /\ c.hash = want[r]
     THEN /\ path' = [path EXCEPT ![r] = c.tag]
          /\ at' = [at EXCEPT ![r] = "done"]
     ELSE /\ at' = [at EXCEPT ![r] = "prefix"]
          /\ UNCHANGED path
  /\ UNCHANGED <<want, pos, last, owed, disk, booting, maps, cache, bounds>>

\* Mutant: when the last tag with this prefix has no such file, there is none.
TrustPrefix(r) ==
  LET t == prefixMap[Key(r)] IN
  /\ at[r] = "prefix"
  /\ IF t = None
     THEN /\ at' = [at EXCEPT ![r] = "tags"]
          /\ pos' = [pos EXCEPT ![r] = 1] /\ last' = [last EXCEPT ![r] = Len(used)]
          /\ UNCHANGED path
     ELSE /\ at' = [at EXCEPT ![r] = IF <<t, want[r]>> \in file THEN "stat" ELSE "done"]
          /\ path' = [path EXCEPT ![r] = IF <<t, want[r]>> \in file THEN t ELSE None]
          /\ UNCHANGED <<pos, last>>
  /\ UNCHANGED <<want, owed, disk, booting, maps, cache, bounds>>

\* The tag last seen with this prefix, if it has such a file; otherwise the
\* range over usedTags begins, as long as they are now.
ByPrefix(r) ==
  LET t == prefixMap[Key(r)] IN
  /\ at[r] = "prefix"
  /\ IF t # None /\ <<t, want[r]>> \in file
     THEN /\ at' = [at EXCEPT ![r] = "stat"]
          /\ path' = [path EXCEPT ![r] = t]
          /\ UNCHANGED <<pos, last>>
     ELSE /\ at' = [at EXCEPT ![r] = "tags"]
          /\ pos' = [pos EXCEPT ![r] = 1] /\ last' = [last EXCEPT ![r] = Len(used)]
          /\ UNCHANGED path
  /\ UNCHANGED <<want, owed, disk, booting, maps, cache, bounds>>

\* A tag of the range that path_log does not know is skipped; under one with
\* this prefix the file may be there.
ByMap(r) ==
  LET t == used[pos[r]] IN
  /\ at[r] = "tags" /\ pos[r] <= last[r]
  /\ IF t \notin logged
     THEN pos' = [pos EXCEPT ![r] = @ + 1] /\ UNCHANGED <<at, path>>
     ELSE /\ UNCHANGED pos
          /\ IF Key(r) \in dataMap[t] /\ <<t, want[r]>> \in file
             THEN at' = [at EXCEPT ![r] = "stat"] /\ path' = [path EXCEPT ![r] = t]
             ELSE at' = [at EXCEPT ![r] = "scan"] /\ UNCHANGED path
  /\ UNCHANGED <<want, last, owed, disk, booting, maps, cache, bounds>>

\* Otherwise the whole index file is searched, and both maps learn from it.
ByIndex(r) ==
  LET t == used[pos[r]] IN
  /\ at[r] = "scan"
  /\ IF Listed(t, want[r])
     THEN /\ Learn(t, {Key(r)})
          /\ at' = [at EXCEPT ![r] = "stat"] /\ path' = [path EXCEPT ![r] = t]
          /\ UNCHANGED pos
     ELSE /\ at' = [at EXCEPT ![r] = "tags"] /\ pos' = [pos EXCEPT ![r] = @ + 1]
          /\ UNCHANGED <<path, maps>>
  /\ UNCHANGED <<want, last, owed, disk, booting, cache, bounds>>

\* The index file cannot be read; the lookup goes on and owes nothing now.
ScanError(r) ==
  /\ Step(r, "scan", "tags")
  /\ faults < MaxFault /\ faults' = faults + 1
  /\ pos' = [pos EXCEPT ![r] = @ + 1]
  /\ owed' = [owed EXCEPT ![r] = FALSE]
  /\ UNCHANGED <<want, last, path, disk, booting, maps, cache, crashes>>

NotFound(r) ==
  /\ pos[r] > last[r] /\ Step(r, "tags", "done")
  /\ UNCHANGED <<want, pos, last, path, owed, disk, booting, maps, cache, bounds>>

\* FindALLFile looks once more whether the file is there.
Stat(r) ==
  /\ at[r] = "stat"
  /\ IF <<path[r], want[r]>> \in file
     THEN at' = [at EXCEPT ![r] = "set"] /\ UNCHANGED path
     ELSE at' = [at EXCEPT ![r] = "done"] /\ path' = [path EXCEPT ![r] = None]
  /\ UNCHANGED <<want, pos, last, owed, disk, booting, maps, cache, bounds>>

\* cacheSet: the path goes into the slot, whatever was there.
SetCache(r) ==
  /\ Step(r, "set", "done")
  /\ cache' = [cache EXCEPT ![SlotOf[want[r]]] = [hash |-> want[r], tag |-> path[r]]]
  /\ UNCHANGED <<want, pos, last, path, owed, disk, booting, maps, bounds>>

\* ReadHash reads the file found, or returns the error.
Finish(r) ==
  /\ Step(r, "done", "idle")
  /\ want' = [want EXCEPT ![r] = None] /\ path' = [path EXCEPT ![r] = None]
  /\ pos' = [pos EXCEPT ![r] = 0] /\ last' = [last EXCEPT ![r] = 0]
  /\ owed' = [owed EXCEPT ![r] = FALSE]
  /\ UNCHANGED <<disk, booting, maps, cache, bounds>>

\* pbb makes room.
Evict(s) ==
  /\ cache[s] # None
  /\ cache' = [cache EXCEPT ![s] = None]
  /\ UNCHANGED <<disk, booting, maps, reading, bounds>>

\* The process ends between two steps and a new one starts.
Crash ==
  /\ crashes < MaxCrash /\ crashes' = crashes + 1
  /\ pending' = {}
  /\ boot' = "glob" /\ todo' = {} /\ cur' = None /\ used' = <<>> /\ logged' = {}
  /\ dataMap' = [t \in Tag |-> {}] /\ prefixMap' = [p \in Prefix |-> None]
  /\ cache' = [s \in Slot |-> None]
  /\ at' = [r \in Reader |-> "idle"]
  /\ want' = [r \in Reader |-> None] /\ path' = [r \in Reader |-> None]
  /\ pos' = [r \in Reader |-> 0] /\ last' = [r \in Reader |-> 0]
  /\ owed' = [r \in Reader |-> FALSE]
  /\ UNCHANGED <<file, idx, made, tail, faults>>

Write == \E x \in Arrives : \/ SaveFile(x[1], x[2]) \/ AppendLine(x[1], x[2])
                             \/ CutLine(x[1], x[2])
Boot == BootGlob \/ (\E t \in Tag : BootTag(t)) \/ BootLog \/ BootRead \/ BootError
Find(r) == \/ FromCache(r) \/ ByPrefix(r) \/ ByMap(r) \/ ByIndex(r) \/ ScanError(r)
           \/ NotFound(r) \/ Stat(r) \/ SetCache(r) \/ Finish(r)

Next == \/ Write \/ Boot
        \/ \E r \in Reader : Find(r) \/ \E h \in Hash : Begin(r, h)
        \/ \E s \in Slot : Evict(s)
        \/ Crash

Spec == Init /\ [][Next]_vars

-----------------------------------------------------------------------------
(* Properties.                                                             *)

\* The variables have their types (the one type invariant of this module).
TypeOK ==
  /\ file \subseteq Tag \X Hash /\ pending \subseteq file /\ made \subseteq Tag
  /\ idx \in [Tag -> Seq(Cell)] /\ tail \in [Tag -> Seq(Hash)]
  /\ boot \in {"glob", "next", "log", "read"}
  /\ todo \subseteq Tag /\ cur \in Tag \cup {None}
  /\ boot \in {"log", "read"} => cur # None
  /\ used \in Seq(Tag) /\ logged \subseteq Tag
  /\ dataMap \in [Tag -> SUBSET Prefix] /\ prefixMap \in [Prefix -> Tag \cup {None}]
  /\ cache \in [Slot -> Entry \cup {None}]
  /\ at \in [Reader -> Stage] /\ want \in [Reader -> Hash \cup {None}]
  /\ pos \in [Reader -> Nat] /\ last \in [Reader -> Nat]
  /\ path \in [Reader -> Tag \cup {None}] /\ owed \in [Reader -> BOOLEAN]
  /\ faults \in Nat /\ crashes \in Nat

\* A path ReadHash is given names a file of the message asked for, whether it
\* comes from the cache, a prefix map or an index line, also when two hashes
\* share a slot or a prefix.
AnswerExists ==
  \A r \in Reader : at[r] = "done" /\ path[r] # None => <<path[r], want[r]>> \in file

\* A message whose line was in the index of a loaded tag when the lookup began
\* is found: neither cut lines, nor other messages with its prefix, nor a
\* start that is still under way hides it.
ListedIsFound ==
  \A r \in Reader : at[r] = "done" /\ owed[r] => path[r] # None

\* ReadTag lists the messages written since the last line that was cut off,
\* the newest first, however many cells that line had.
NewestFirst ==
  \A t \in Tag : \A i \in 1..Len(tail[t]) :
    i <= MaxTagNum =>
      /\ i \in DOMAIN ReadTag(idx[t])
      /\ ReadTag(idx[t])[i] = SubSeq(Line(tail[t][Len(tail[t]) + 1 - i]), 1, 2)

\* What a user of the store sees of it: the messages with a line, the tags
\* index_Init has got to, how far a lookup is and what it came to.
AllListed == {x \in Tag \X Hash : Listed(x[1], x[2])}
Loaded == {used[i] : i \in 1..Len(used)} \cap logged
StageOf == [r \in Reader |-> CASE at[r] = "idle" -> "idle"
                               [] at[r] = "done" -> "told"
                               [] OTHER -> "asked"]
AnswerOf == [r \in Reader |-> IF at[r] = "done" THEN path[r] ELSE None]

\* A lookup is answered as if it had looked at the whole store at once: with a
\* tag that has the message at that moment, or that there is none only if no
\* loaded catalogue listed it when the lookup began; index lines appear only
\* for stored messages, and no later line, cut or whole, takes one away.
Lookups == INSTANCE Lookup WITH
  stored <- file, listed <- AllListed, loaded <- Loaded,
  stage <- StageOf, asked <- want, due <- owed, answer <- AnswerOf
ImplementsLookup == Lookups!Spec
=============================================================================
