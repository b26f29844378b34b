--------------------------- MODULE KepIndexProofs ---------------------------
(***************************************************************************)
(* Proofs about KepIndex for any messages, tags, readers, collisions of    *)
(* slots and prefixes, faults and crashes.                                 *)
(*                                                                         *)
(* A lookup is split over many steps, so the invariant says what a reader  *)
(* knows at each of them: the file it has found exists, and a message it   *)
(* owes is listed in the part of usedTags it has still to look at.  Both   *)
(* survive the steps of others because files and index lines only become   *)
(* more; that an index line has a file is ListedSaved.                     *)
(***************************************************************************)
EXTENDS KepIndex, SequenceTheorems, TLAPS

\* An index line names a file.
ListedSaved == \A t \in Tag, h \in Hash : Listed(t, h) => <<t, h>> \in file

\* A slot of the cache holds a path that exists.
CacheTrue == \A s \in Slot : cache[s] # None => <<cache[s].tag, cache[s].hash>> \in file

\* Before index_Init has looked for index files nothing is loaded.
GlobEmpty == boot = "glob" => used = <<>> /\ logged = {}

Owes(r, from, to) ==
  \E i \in from..to : used[i] \in logged /\ Listed(used[i], want[r])

\* What reader r knows.
Knows(r) ==
  /\ at[r] # "idle" => want[r] \in Hash
  /\ at[r] \in {"stat", "set"} => path[r] \in Tag /\ <<path[r], want[r]>> \in file
  /\ at[r] = "done" /\ path[r] # None => <<path[r], want[r]>> \in file
  /\ at[r] \in {"idle", "cache", "prefix", "tags", "scan"} => path[r] = None
  /\ at[r] = "done" /\ owed[r] => path[r] # None
  /\ at[r] \in {"cache", "prefix"} /\ owed[r] => Owes(r, 1, Len(used))
  /\ at[r] \in {"tags", "scan"} => pos[r] >= 1 /\ last[r] <= Len(used)
  /\ at[r] \in {"tags", "scan"} /\ owed[r] => Owes(r, pos[r], last[r])
  /\ at[r] = "scan" => pos[r] <= last[r] /\ used[pos[r]] \in logged

KInv == /\ TypeOK /\ ListedSaved /\ CacheTrue /\ GlobEmpty
        /\ \A r \in Reader : Knows(r)

-----------------------------------------------------------------------------
(* Index lines.                                                            *)

\* The cells of a line.
LEMMA Lines ==
  ASSUME NEW h \in Hash
  PROVE  /\ Line(h) \in Seq(Cell) /\ Len(Line(h)) = 3
         /\ Line(h)[1] = <<h, 1>> /\ Line(h)[2] = <<h, 2>> /\ Line(h)[3] = <<h, 3>>
  BY DEF Line, Cell

\* The first cells of a line.
LEMMA CutLines ==
  ASSUME NEW h \in Hash, NEW k \in 0..2
  PROVE  /\ SubSeq(Line(h), 1, k) \in Seq(Cell) /\ Len(SubSeq(Line(h), 1, k)) = k
         /\ \A i \in 1..k : SubSeq(Line(h), 1, k)[i] = <<h, i>>
  <1>1. Line(h) \in Seq(Cell) /\ Len(Line(h)) = 3
    BY Lines
  <1>2. \A i \in 1..3 : Line(h)[i] = <<h, i>>
    BY Lines
  <1>3. SubSeq(Line(h), 1, k) \in Seq(Cell)
    <2>1. \A i \in 1..k : Line(h)[i] \in Cell
      BY <1>2 DEF Cell
    <2>. QED
      BY <2>1, SubSeqProperties
  <1>4. Len(SubSeq(Line(h), 1, k)) = k /\ \A i \in 1..k : SubSeq(Line(h), 1, k)[i] = Line(h)[i]
    BY <1>1, SubSeqProperties
  <1>. QED
    BY <1>2, <1>3, <1>4

\* What is appended to a file comes after what was there.
LEMMA Concat ==
  ASSUME NEW s \in Seq(Cell), NEW x \in Seq(Cell)
  PROVE  /\ s \o x \in Seq(Cell) /\ Len(s \o x) = Len(s) + Len(x)
         /\ \A i \in 1..Len(s) : (s \o x)[i] = s[i]
         /\ \A i \in 1..Len(x) : (s \o x)[Len(s) + i] = x[i]
  BY ConcatProperties

\* Cells of one hash appended to a file list at most that hash, and hide none.
LEMMA Appending ==
  ASSUME NEW s \in Seq(Cell), NEW x \in Seq(Cell), NEW g \in Hash, NEW h \in Hash,
         \A i \in 1..Len(x) : x[i] = <<g, i>>
  PROVE  /\ s \o x \in Seq(Cell)
         /\ Contains(s, h) => Contains(s \o x, h)
         /\ Contains(s \o x, h) => Contains(s, h) \/ h = g
  <1>1. /\ s \o x \in Seq(Cell) /\ Len(s \o x) = Len(s) + Len(x)
        /\ \A i \in 1..Len(s) : (s \o x)[i] = s[i]
        /\ \A i \in 1..Len(x) : (s \o x)[Len(s) + i] = x[i]
    BY Concat
  <1>2. Contains(s, h) => Contains(s \o x, h)
    BY <1>1, SMTT(30) DEF Contains
  <1>3. ASSUME Contains(s \o x, h), h # g
        PROVE  Contains(s, h)
    <2>1. PICK i \in 1..(Len(s) + Len(x) - 1) :
            (s \o x)[i] = <<h, 1>> /\ (s \o x)[i + 1] = <<h, 2>>
      BY <1>1, <1>3, SMTT(30) DEF Contains
    <2>2. ASSUME i + 1 > Len(s)
          PROVE  FALSE
      <3>1. (i + 1) - Len(s) \in 1..Len(x)
        BY <2>2
      <3>2. (s \o x)[i + 1] = x[(i + 1) - Len(s)]
        BY <1>1, <3>1
      <3>3. x[(i + 1) - Len(s)] = <<g, (i + 1) - Len(s)>>
        BY <3>1
      <3>. QED
        BY <2>1, <3>2, <3>3, <1>3
    <2>3. i \in 1..(Len(s) - 1)
      BY <2>2
    <2>4. s[i] = <<h, 1>> /\ s[i + 1] = <<h, 2>>
      BY <1>1, <2>1, <2>3
    <2>. QED
      BY <2>3, <2>4 DEF Contains
  <1>. QED
    BY <1>1, <1>2, <1>3

\* A step that only adds files and lines, and leaves readers and loaded tags
\* alone, takes nothing from what a reader knows.
LEMMA KnowsMore ==
  ASSUME NEW r \in Reader, Knows(r), file \subseteq file',
         UNCHANGED reading, used' = used, logged \subseteq logged',
         \A t \in logged, h \in Hash : Listed(t, h) => Listed(t, h)'
  PROVE  Knows(r)'
  BY DEF Knows, Owes, reading

-----------------------------------------------------------------------------
LEMMA KInit == Init => KInv
  <1>. SUFFICES ASSUME Init PROVE KInv
    OBVIOUS
  <1>1. TypeOK
    BY DEF Init, TypeOK, Stage
  <1>2. ListedSaved
    BY DEF Init, ListedSaved, Listed, Contains
  <1>3. CacheTrue /\ GlobEmpty /\ \A r \in Reader : Knows(r)
    BY DEF Init, CacheTrue, GlobEmpty, Knows
  <1>. QED
    BY <1>1, <1>2, <1>3 DEF KInv

\* WriteMDB.
LEMMA WriteStep ==
  ASSUME KInv, Write
  PROVE  KInv'
  <1>. USE DEF KInv
  <1>0. PICK t \in Tag, h \in Hash : SaveFile(t, h) \/ AppendLine(t, h) \/ CutLine(t, h)
    BY KepIndexAssumption DEF Write
  <1>1. CASE SaveFile(t, h)
    <2>1. TypeOK'
      BY <1>1 DEF SaveFile, TypeOK, booting, maps, reading, bounds
    <2>2. ListedSaved' /\ CacheTrue' /\ GlobEmpty'
      BY <1>1 DEF SaveFile, ListedSaved, CacheTrue, GlobEmpty, Listed, booting
    <2>3. \A r \in Reader : Knows(r)'
      <3>1. \A u, g : Listed(u, g) => Listed(u, g)'
        BY <1>1 DEF SaveFile, Listed
      <3>. QED
        BY <1>1, <3>1, KnowsMore DEF SaveFile, booting
    <2>. QED
      BY <2>1, <2>2, <2>3
  <1>2. ASSUME NEW x \in Seq(Cell), \A i \in 1..Len(x) : x[i] = <<h, i>>,
               idx' = [idx EXCEPT ![t] = @ \o x],
               tail' \in [Tag -> Seq(Hash)], made' = made \cup {t},
               <<t, h>> \in pending, pending' = pending \ {<<t, h>>},
               faults' \in Nat, UNCHANGED <<file, booting, maps, cache, reading, crashes>>
        PROVE  KInv'
    <2>1. idx[t] \in Seq(Cell) /\ idx \in [Tag -> Seq(Cell)]
      BY DEF TypeOK
    <2>2. idx[t] \o x \in Seq(Cell)
      BY <1>2, <2>1, Appending
    <2>3. TypeOK'
      BY <1>2, <2>2 DEF TypeOK, booting, maps, reading
    <2>4. \A u \in Tag, g \in Hash : Listed(u, g) => Listed(u, g)'
      BY <1>2, <2>1, Appending, ZenonT(30) DEF Listed
    <2>5. \A u \in Tag, g \in Hash : Listed(u, g)' => Listed(u, g) \/ (u = t /\ g = h)
      BY <1>2, <2>1, Appending DEF Listed
    <2>6. ListedSaved'
      BY <1>2, <2>5 DEF ListedSaved, TypeOK
    <2>7. CacheTrue' /\ GlobEmpty'
      BY <1>2 DEF CacheTrue, GlobEmpty, booting
    <2>8. \A r \in Reader : Knows(r)'
      BY <1>2, <2>4, KnowsMore DEF booting, TypeOK
    <2>. QED
      BY <2>3, <2>6, <2>7, <2>8
  <1>3. CASE AppendLine(t, h)
    <2>1. tail' \in [Tag -> Seq(Hash)]
      BY <1>3 DEF AppendLine, TypeOK
    <2>2. \A i \in 1..Len(Line(h)) : Line(h)[i] = <<h, i>>
      BY Lines
    <2>. QED
      BY <1>2, <1>3, <2>1, <2>2, Lines DEF AppendLine, bounds, TypeOK
  <1>4. CASE CutLine(t, h)
    <2>1. PICK k \in 0..2 :
            /\ idx' = [idx EXCEPT ![t] = @ \o SubSeq(Line(h), 1, k)]
            /\ tail' = IF k = 0 THEN tail ELSE [tail EXCEPT ![t] = <<>>]
      BY <1>4 DEF CutLine
    <2>2. tail' \in [Tag -> Seq(Hash)]
      BY <2>1 DEF TypeOK
    <2>3. /\ SubSeq(Line(h), 1, k) \in Seq(Cell)
          /\ \A i \in 1..Len(SubSeq(Line(h), 1, k)) : SubSeq(Line(h), 1, k)[i] = <<h, i>>
      BY CutLines
    <2>4. faults' \in Nat
      BY <1>4 DEF CutLine, TypeOK
    <2>. QED
      BY <1>2, <1>4, <2>1, <2>2, <2>3, <2>4 DEF CutLine
  <1>. QED
    BY <1>0, <1>1, <1>3, <1>4

\* index_Init only adds tags, apart from its first step.
LEMMA BootStep ==
  ASSUME KInv, Boot
  PROVE  KInv'
  <1>. USE DEF KInv
  <1>1. CASE BootGlob
    <2>1. used = <<>> /\ logged = {} /\ used' = used /\ logged' = logged
      BY <1>1 DEF BootGlob, GlobEmpty
    <2>2. TypeOK' /\ ListedSaved' /\ CacheTrue' /\ GlobEmpty'
      BY <1>1, <2>1 DEF BootGlob, TypeOK, ListedSaved, CacheTrue, GlobEmpty, Listed,
                        disk, maps, reading, bounds
    <2>3. \A r \in Reader : Knows(r)'
      BY <1>1, <2>1, KnowsMore DEF BootGlob, disk, Listed
    <2>. QED
      BY <2>2, <2>3
  <1>2. ASSUME NEW t \in Tag, BootTag(t)
        PROVE  KInv'
    <2>1. /\ used \in Seq(Tag) /\ used' = Append(used, t) /\ used' \in Seq(Tag)
          /\ Len(used') = Len(used) + 1
          /\ \A i \in 1..Len(used) : used'[i] = used[i]
      BY <1>2, AppendProperties DEF BootTag, TypeOK
    <2>2. t # None
      BY KepIndexAssumption
    <2>3. TypeOK' /\ ListedSaved' /\ CacheTrue' /\ GlobEmpty'
      BY <1>2, <2>1, <2>2 DEF BootTag, TypeOK, ListedSaved, CacheTrue, GlobEmpty, Listed,
                        disk, maps, reading, bounds
    <2>4. ASSUME NEW r \in Reader
          PROVE  Knows(r)'
      <3>1. Len(used) \in Nat /\ pos[r] \in Nat /\ last[r] \in Nat /\ Knows(r)
        BY <2>1 DEF TypeOK
      <3>2. idx' = idx /\ file' = file /\ logged' = logged /\ UNCHANGED reading
        BY <1>2 DEF BootTag, disk
      <3>3. ASSUME NEW from \in Nat, from >= 1, NEW to \in Nat, to <= Len(used), Owes(r, from, to)
            PROVE  \E i \in from..to : used'[i] \in logged' /\ Contains(idx'[used'[i]], want'[r])
        <4>1. PICK i \in from..to : used[i] \in logged /\ Contains(idx[used[i]], want[r])
          BY <3>3 DEF Owes, Listed
        <4>2. used'[i] = used[i]
          BY <2>1, <3>1, <3>3
        <4>. QED
          BY <3>2, <4>1, <4>2 DEF reading
      <3>4. at[r] = "scan" => used'[pos[r]] = used[pos[r]]
        BY <2>1, <3>1 DEF Knows
      <3>5. at[r] \in {"cache", "prefix"} /\ owed[r] => Owes(r, 1, Len(used))'
        <4>1. CASE Owes(r, 1, Len(used))
          <5>1. PICK i \in 1..Len(used) :
                  used'[i] \in logged' /\ Contains(idx'[used'[i]], want'[r])
            BY <3>1, <3>3, <4>1
          <5>2. i \in 1..Len(used')
            BY <2>1, <3>1
          <5>. QED
            BY <5>1, <5>2 DEF Owes, Listed
        <4>2. at[r] \in {"cache", "prefix"} /\ owed[r] => Owes(r, 1, Len(used))
          BY <3>1 DEF Knows
        <4>. QED
          BY <4>1, <4>2
      <3>6. at[r] \in {"tags", "scan"} /\ owed[r] => Owes(r, pos[r], last[r])'
        <4>1. CASE at[r] \in {"tags", "scan"} /\ Owes(r, pos[r], last[r])
          <5>1. pos[r] >= 1 /\ last[r] <= Len(used)
            BY <3>1, <4>1 DEF Knows
          <5>2. \E i \in pos[r]..last[r] : used'[i] \in logged' /\ Contains(idx'[used'[i]], want'[r])
            BY <3>1, <3>3, <4>1, <5>1
          <5>. QED
            BY <3>2, <5>2 DEF Owes, Listed, reading
        <4>. QED
          BY <3>1, <4>1 DEF Knows
      <3>. QED
        BY <2>1, <3>1, <3>2, <3>4, <3>5, <3>6 DEF Knows, reading
    <2>. QED
      BY <2>3, <2>4
  <1>3. CASE BootLog
    <2>1. TypeOK' /\ ListedSaved' /\ CacheTrue' /\ GlobEmpty'
      BY <1>3 DEF BootLog, TypeOK, ListedSaved, CacheTrue, GlobEmpty, Listed,
                  disk, maps, reading, bounds
    <2>2. \A r \in Reader : Knows(r)'
      BY <1>3, KnowsMore DEF BootLog, disk, Listed
    <2>. QED
      BY <2>1, <2>2
  <1>4. ASSUME NEW keys \in HeadKeys(idx[cur]), boot = "read", Learn(cur, keys), boot' = "next", cur' = None,
               UNCHANGED <<todo, used, logged, disk, cache, reading, bounds>>
        PROVE  KInv'
    <2>1. cur \in Tag /\ idx[cur] \in Seq(Cell)
      BY <1>4 DEF TypeOK
    <2>2. \A c \in Heads(idx[cur]) : c[1] \in Hash
      BY <2>1 DEF Heads, Cell
    <2>3. keys \subseteq Prefix
      BY <1>4, <2>2, KepIndexAssumption DEF HeadKeys
    <2>4. dataMap' \in [Tag -> SUBSET Prefix] /\ prefixMap' \in [Prefix -> Tag \cup {None}]
      BY <1>4, <2>1, <2>3 DEF Learn, TypeOK
    <2>5. TypeOK' /\ ListedSaved' /\ CacheTrue' /\ GlobEmpty'
      BY <1>4, <2>4 DEF TypeOK, ListedSaved, CacheTrue, GlobEmpty, Listed, disk, reading, bounds
    <2>6. \A r \in Reader : Knows(r)'
      BY <1>4, KnowsMore DEF disk, Listed
    <2>. QED
      BY <2>5, <2>6
  <1>5. CASE BootError
    <2>1. TypeOK' /\ ListedSaved' /\ CacheTrue' /\ GlobEmpty'
      BY <1>5 DEF BootError, TypeOK, ListedSaved, CacheTrue, GlobEmpty, Listed,
                  disk, maps, reading, bounds
    <2>2. \A r \in Reader : Knows(r)'
      BY <1>5, KnowsMore DEF BootError, disk, Listed
    <2>. QED
      BY <2>1, <2>2
  <1>. QED
    BY <1>1, <1>2, <1>3, <1>4, <1>5 DEF Boot, BootRead

-----------------------------------------------------------------------------
(* findHashFile.                                                           *)

\* A step of another reader takes nothing from what this one knows.
LEMMA KnowsStill ==
  ASSUME NEW q \in Reader, Knows(q), UNCHANGED <<disk, used, logged>>,
         at'[q] = at[q], want'[q] = want[q], pos'[q] = pos[q], last'[q] = last[q],
         path'[q] = path[q], owed'[q] = owed[q]
  PROVE  Knows(q)'
  BY DEF Knows, Owes, Listed, disk

\* The variables of the lookups are functions on the readers.
LEMMA ReadingTypes ==
  ASSUME KInv
  PROVE  /\ at \in [Reader -> Stage] /\ pos \in [Reader -> Nat] /\ last \in [Reader -> Nat]
         /\ path \in [Reader -> Tag \cup {None}] /\ owed \in [Reader -> BOOLEAN]
         /\ dataMap \in [Tag -> SUBSET Prefix] /\ prefixMap \in [Prefix -> Tag \cup {None}]
  BY DEF KInv, TypeOK

\* A lookup that has found nothing holds no path.
LEMMA NoPath ==
  ASSUME KInv, NEW r \in Reader, at[r] \in {"idle", "cache", "prefix", "tags", "scan"}
  PROVE  path[r] = None
  BY DEF KInv, Knows

\* The frame of a step of reader r: what it must show is what r knows after it.
LEMMA ReaderFrame ==
  ASSUME KInv, NEW r \in Reader, TypeOK', CacheTrue', Knows(r)',
         UNCHANGED <<disk, booting>>,
         \A q \in Reader \ {r} :
           /\ at'[q] = at[q] /\ want'[q] = want[q] /\ pos'[q] = pos[q]
           /\ last'[q] = last[q] /\ path'[q] = path[q] /\ owed'[q] = owed[q]
  PROVE  KInv'
  <1>1. \A q \in Reader \ {r} : Knows(q)'
    BY KnowsStill DEF KInv, booting
  <1>2. ListedSaved' /\ GlobEmpty'
    BY DEF KInv, ListedSaved, Listed, GlobEmpty, disk, booting
  <1>. QED
    BY <1>1, <1>2 DEF KInv

\* A lookup begins: what it owes is in the whole of usedTags.
LEMMA BeginStep ==
  ASSUME KInv, NEW r \in Reader, NEW h \in Hash, Begin(r, h)
  PROVE  KInv'
  <1>. USE DEF Begin, Step
  <1>1. TypeOK'
    BY DEF KInv, TypeOK, Stage, disk, booting, maps, bounds
  <1>2. CacheTrue'
    BY DEF KInv, CacheTrue, disk
  <1>3. at'[r] = "cache" /\ want'[r] = h /\ (owed'[r] => Owes(r, 1, Len(used))')
    BY DEF KInv, TypeOK, Owes, Listed, disk, booting
  <1>5. path'[r] = None
    BY NoPath
  <1>4. Knows(r)'
    BY <1>3, <1>5 DEF Knows
  <1>. QED
    BY <1>1, <1>2, <1>4, ReaderFrame DEF KInv, TypeOK

\* The path cache holds only paths that exist.
LEMMA CacheStep ==
  ASSUME KInv, NEW r \in Reader, FromCache(r)
  PROVE  KInv'
  <1>. USE DEF FromCache
  <1>. DEFINE c == cache[SlotOf[want[r]]]
  <1>1. /\ at[r] = "cache" /\ want[r] \in Hash /\ SlotOf[want[r]] \in Slot
        /\ c \in Entry \cup {None}
    BY KepIndexAssumption DEF KInv, Knows, TypeOK
  <1>2. CacheTrue' /\ CacheTrue
    BY DEF KInv, CacheTrue, disk
  <1>3. CASE c # None /\ c.hash = want[r]
    <2>1. c.tag \in Tag /\ <<c.tag, want[r]>> \in file
      BY <1>1, <1>2, <1>3 DEF CacheTrue, Entry
    <2>2. TypeOK'
      BY <1>1, <1>3, <2>1 DEF KInv, TypeOK, Stage, disk, booting, maps, bounds
    <2>3. at'[r] = "done" /\ path'[r] = c.tag /\ want'[r] = want[r] /\ file' = file
      BY <1>1, <1>3 DEF KInv, TypeOK, disk
    <2>4. c.tag # None
      BY <2>1, KepIndexAssumption
    <2>5. Knows(r)'
      BY <1>1, <2>1, <2>3, <2>4 DEF Knows
    <2>. QED
      BY <1>2, <1>3, <2>2, <2>5, ReaderFrame DEF KInv, TypeOK
  <1>4. CASE ~(c # None /\ c.hash = want[r])
    <2>1. TypeOK'
      BY <1>1, <1>4 DEF KInv, TypeOK, Stage, disk, booting, maps, bounds
    <2>2. at'[r] = "prefix" /\ want'[r] = want[r] /\ owed'[r] = owed[r] /\ path'[r] = None
      BY <1>1, <1>4, NoPath DEF KInv, TypeOK
    <2>3. Knows(r)'
      BY <1>1, <2>2 DEF KInv, Knows, Owes, Listed, disk, booting
    <2>. QED
      BY <1>2, <1>4, <2>1, <2>3, ReaderFrame DEF KInv, TypeOK
  <1>. QED
    BY <1>3, <1>4

\* The prefix map only proposes; the range begins at the first tag.
LEMMA PrefixStep ==
  ASSUME KInv, NEW r \in Reader, ByPrefix(r)
  PROVE  KInv'
  <1>. USE DEF ByPrefix
  <1>. DEFINE t == prefixMap[Key(r)]
  <1>1. at[r] = "prefix" /\ want[r] \in Hash /\ Key(r) \in Prefix
    BY KepIndexAssumption DEF KInv, Knows, Key
  <1>2. t \in Tag \cup {None} /\ Len(used) \in Nat
    BY <1>1 DEF KInv, TypeOK
  <1>3. CacheTrue'
    BY DEF KInv, CacheTrue, disk
  <1>4. CASE t # None /\ <<t, want[r]>> \in file
    <2>1. TypeOK'
      BY <1>2, <1>4 DEF KInv, TypeOK, Stage, disk, booting, maps, bounds
    <2>2. at'[r] = "stat" /\ path'[r] = t /\ want'[r] = want[r] /\ file' = file
      BY <1>4 DEF KInv, TypeOK, disk
    <2>3. Knows(r)'
      BY <1>1, <1>2, <1>4, <2>2 DEF Knows
    <2>. QED
      BY <1>3, <1>4, <2>1, <2>3, ReaderFrame DEF KInv, TypeOK
  <1>5. CASE ~(t # None /\ <<t, want[r]>> \in file)
    <2>0. pos' \in [Reader -> Nat] /\ last' \in [Reader -> Nat] /\ at' \in [Reader -> Stage]
      <3>1. /\ pos' = [pos EXCEPT ![r] = 1] /\ last' = [last EXCEPT ![r] = Len(used)]
            /\ at' = [at EXCEPT ![r] = "tags"]
        BY <1>5
      <3>. QED
        BY <1>2, <3>1, ReadingTypes DEF Stage
    <2>1. TypeOK'
      BY <1>5, <2>0 DEF KInv, TypeOK, disk, booting, maps, bounds
    <2>2. /\ at'[r] = "tags" /\ want'[r] = want[r] /\ owed'[r] = owed[r]
          /\ pos'[r] = 1 /\ last'[r] = Len(used) /\ used' = used /\ path'[r] = None
      BY <1>1, <1>5, NoPath DEF KInv, TypeOK, booting
    <2>3. owed[r] => Owes(r, pos[r], last[r])'
      BY <1>1, <2>2 DEF KInv, Knows, Owes, Listed, disk, booting
    <2>4. Knows(r)'
      BY <1>1, <1>2, <2>2, <2>3 DEF Knows
    <2>. QED
      BY <1>3, <1>5, <2>1, <2>4, ReaderFrame DEF KInv, TypeOK
  <1>. QED
    BY <1>4, <1>5

\* A tag of the range: skipped if nothing is owed there.
LEMMA MapStep ==
  ASSUME KInv, NEW r \in Reader, ByMap(r)
  PROVE  KInv'
  <1>. USE DEF ByMap
  <1>. DEFINE t == used[pos[r]]
  <1>1. /\ at[r] = "tags" /\ want[r] \in Hash /\ pos[r] \in Nat /\ last[r] \in Nat
        /\ pos[r] >= 1 /\ pos[r] <= last[r] /\ last[r] <= Len(used)
        /\ Len(used) \in Nat /\ pos[r] \in 1..Len(used)
    <2>1. pos[r] \in Nat /\ last[r] \in Nat /\ used \in Seq(Tag) /\ Len(used) \in Nat
      BY DEF KInv, TypeOK
    <2>2. Knows(r)
      BY DEF KInv
    <2>. QED
      BY <2>1, <2>2 DEF Knows
  <1>2. t \in Tag
    BY <1>1 DEF KInv, TypeOK
  <1>3. CacheTrue'
    BY DEF KInv, CacheTrue, disk
  <1>4. CASE t \notin logged
    <2>0. pos' \in [Reader -> Nat]
      <3>1. pos' = [pos EXCEPT ![r] = @ + 1]
        BY <1>4
      <3>. QED
        BY <3>1, ReadingTypes
    <2>1. TypeOK'
      BY <1>4, <2>0 DEF KInv, TypeOK, disk, booting, maps, bounds
    <2>2. /\ at'[r] = "tags" /\ pos'[r] = pos[r] + 1 /\ last'[r] = last[r]
          /\ want'[r] = want[r] /\ owed'[r] = owed[r] /\ used' = used /\ path'[r] = None
      BY <1>1, <1>4, NoPath DEF KInv, TypeOK, booting
    <2>3. owed[r] => Owes(r, pos[r] + 1, last[r])
      <3>1. owed[r] => Owes(r, pos[r], last[r])
        BY <1>1 DEF KInv, Knows
      <3>. QED
        BY <1>1, <1>4, <3>1 DEF Owes
    <2>4. owed'[r] => Owes(r, pos[r], last[r])'
      BY <2>2, <2>3 DEF Owes, Listed, disk, booting
    <2>5. Knows(r)'
      BY <1>1, <2>2, <2>4 DEF Knows
    <2>. QED
      BY <1>3, <1>4, <2>1, <2>5, ReaderFrame DEF KInv, TypeOK
  <1>5. CASE t \in logged /\ Key(r) \in dataMap[t] /\ <<t, want[r]>> \in file
    <2>1. TypeOK'
      BY <1>1, <1>2, <1>5 DEF KInv, TypeOK, Stage, disk, booting, maps, bounds
    <2>2. at'[r] = "stat" /\ path'[r] = t /\ want'[r] = want[r] /\ file' = file
      BY <1>5 DEF KInv, TypeOK, disk
    <2>3. Knows(r)'
      BY <1>1, <1>2, <1>5, <2>2 DEF Knows
    <2>. QED
      BY <1>3, <1>5, <2>1, <2>3, ReaderFrame DEF KInv, TypeOK
  <1>6. CASE t \in logged /\ ~(Key(r) \in dataMap[t] /\ <<t, want[r]>> \in file)
    <2>1. TypeOK'
      BY <1>1, <1>6 DEF KInv, TypeOK, Stage, disk, booting, maps, bounds
    <2>2. /\ at'[r] = "scan" /\ pos'[r] = pos[r] /\ last'[r] = last[r]
          /\ want'[r] = want[r] /\ owed'[r] = owed[r] /\ used' = used /\ logged' = logged
          /\ path'[r] = None
      BY <1>1, <1>6, NoPath DEF KInv, TypeOK, booting
    <2>3. owed'[r] => Owes(r, pos[r], last[r])'
      BY <1>1, <2>2 DEF KInv, Knows, Owes, Listed, disk
    <2>4. Knows(r)'
      BY <1>1, <1>6, <2>2, <2>3 DEF Knows
    <2>. QED
      BY <1>3, <1>6, <2>1, <2>4, ReaderFrame DEF KInv, TypeOK
  <1>. QED
    BY <1>4, <1>5, <1>6

\* The index file of a tag: what it lists exists.
LEMMA IndexStep ==
  ASSUME KInv, NEW r \in Reader, ByIndex(r)
  PROVE  KInv'
  <1>. USE DEF ByIndex
  <1>. DEFINE t == used[pos[r]]
  <1>1. /\ at[r] = "scan" /\ want[r] \in Hash /\ pos[r] \in Nat /\ last[r] \in Nat
        /\ pos[r] >= 1 /\ pos[r] <= last[r] /\ last[r] <= Len(used)
        /\ Len(used) \in Nat /\ pos[r] \in 1..Len(used)
    <2>1. pos[r] \in Nat /\ last[r] \in Nat /\ used \in Seq(Tag) /\ Len(used) \in Nat
      BY DEF KInv, TypeOK
    <2>2. Knows(r)
      BY DEF KInv
    <2>. QED
      BY <2>1, <2>2 DEF Knows
  <1>2. t \in Tag /\ Key(r) \in Prefix
    BY <1>1, KepIndexAssumption DEF KInv, TypeOK, Key
  <1>3. CacheTrue'
    BY DEF KInv, CacheTrue, disk
  <1>4. CASE Listed(t, want[r])
    <2>0. /\ at' \in [Reader -> Stage] /\ path' \in [Reader -> Tag \cup {None}]
          /\ dataMap' \in [Tag -> SUBSET Prefix] /\ prefixMap' \in [Prefix -> Tag \cup {None}]
      <3>1. /\ at' = [at EXCEPT ![r] = "stat"] /\ path' = [path EXCEPT ![r] = t]
            /\ Learn(t, {Key(r)})
        BY <1>4
      <3>2. at' \in [Reader -> Stage] /\ path' \in [Reader -> Tag \cup {None}]
        BY <1>2, <3>1, ReadingTypes DEF Stage
      <3>3. dataMap' \in [Tag -> SUBSET Prefix] /\ prefixMap' \in [Prefix -> Tag \cup {None}]
        BY <1>2, <3>1, ReadingTypes DEF Learn
      <3>. QED
        BY <3>2, <3>3
    <2>1. TypeOK'
      BY <1>4, <2>0 DEF KInv, TypeOK, disk, booting, bounds
    <2>2. at'[r] = "stat" /\ path'[r] = t /\ want'[r] = want[r] /\ file' = file
      BY <1>4 DEF KInv, TypeOK, disk
    <2>3. <<t, want[r]>> \in file
      BY <1>1, <1>2, <1>4 DEF KInv, ListedSaved
    <2>4. Knows(r)'
      BY <1>1, <1>2, <2>2, <2>3 DEF Knows
    <2>. QED
      BY <1>3, <1>4, <2>1, <2>4, ReaderFrame DEF KInv, TypeOK
  <1>5. CASE ~Listed(t, want[r])
    <2>0. pos' \in [Reader -> Nat] /\ at' \in [Reader -> Stage]
      <3>1. pos' = [pos EXCEPT ![r] = @ + 1] /\ at' = [at EXCEPT ![r] = "tags"]
        BY <1>5
      <3>. QED
        BY <3>1, ReadingTypes DEF Stage
    <2>1. TypeOK'
      BY <1>5, <2>0 DEF KInv, TypeOK, disk, booting, maps, bounds
    <2>2. /\ at'[r] = "tags" /\ pos'[r] = pos[r] + 1 /\ last'[r] = last[r]
          /\ want'[r] = want[r] /\ owed'[r] = owed[r] /\ used' = used /\ path'[r] = None
      BY <1>1, <1>5, NoPath DEF KInv, TypeOK, booting
    <2>3. owed[r] => Owes(r, pos[r] + 1, last[r])
      <3>1. owed[r] => Owes(r, pos[r], last[r])
        BY <1>1 DEF KInv, Knows
      <3>. QED
        BY <1>1, <1>5, <3>1 DEF Owes
    <2>4. owed'[r] => Owes(r, pos[r], last[r])'
      BY <2>2, <2>3 DEF Owes, Listed, disk, booting
    <2>5. Knows(r)'
      BY <1>1, <2>2, <2>4 DEF Knows
    <2>. QED
      BY <1>3, <1>5, <2>1, <2>5, ReaderFrame DEF KInv, TypeOK
  <1>. QED
    BY <1>4, <1>5

\* An index file that cannot be read ends the claim.
LEMMA ScanErrorStep ==
  ASSUME KInv, NEW r \in Reader, ScanError(r)
  PROVE  KInv'
  <1>. USE DEF ScanError, Step
  <1>1. /\ at[r] = "scan" /\ want[r] \in Hash /\ pos[r] \in Nat /\ last[r] \in Nat
        /\ pos[r] >= 1 /\ last[r] <= Len(used)
    <2>1. pos[r] \in Nat /\ last[r] \in Nat
      BY DEF KInv, TypeOK
    <2>. QED
      BY <2>1 DEF KInv, Knows
  <1>2. CacheTrue'
    BY DEF KInv, CacheTrue, disk
  <1>3. /\ pos' \in [Reader -> Nat] /\ at' \in [Reader -> Stage]
        /\ owed' \in [Reader -> BOOLEAN] /\ faults' \in Nat
    BY <1>1 DEF KInv, TypeOK, Stage
  <1>4. TypeOK'
    BY <1>3 DEF KInv, TypeOK, disk, booting, maps
  <1>5. /\ at'[r] = "tags" /\ pos'[r] = pos[r] + 1 /\ last'[r] = last[r]
        /\ want'[r] = want[r] /\ ~owed'[r] /\ used' = used /\ path'[r] = None
    BY <1>1, NoPath DEF KInv, TypeOK, booting
  <1>6. Knows(r)'
    BY <1>1, <1>5 DEF Knows
  <1>. QED
    BY <1>2, <1>4, <1>6, ReaderFrame DEF KInv, TypeOK

\* The range is at its end: nothing is owed.
LEMMA NotFoundStep ==
  ASSUME KInv, NEW r \in Reader, NotFound(r)
  PROVE  KInv'
  <1>. USE DEF NotFound, Step
  <1>1. at[r] = "tags" /\ want[r] \in Hash /\ pos[r] \in Nat /\ last[r] \in Nat
    BY DEF KInv, Knows, TypeOK
  <1>2. CacheTrue' /\ TypeOK'
    BY DEF KInv, CacheTrue, TypeOK, Stage, disk, booting, maps, bounds
  <1>3. ~owed[r]
    <2>1. owed[r] => Owes(r, pos[r], last[r])
      BY <1>1 DEF KInv, Knows
    <2>. QED
      BY <1>1, <2>1 DEF Owes
  <1>4. at'[r] = "done" /\ want'[r] = want[r] /\ ~owed'[r] /\ path'[r] = None
    BY <1>1, <1>3, ReadingTypes DEF KInv, Knows
  <1>5. Knows(r)'
    BY <1>1, <1>4 DEF Knows
  <1>. QED
    BY <1>2, <1>5, ReaderFrame DEF KInv, TypeOK

\* The second look.
LEMMA StatStep ==
  ASSUME KInv, NEW r \in Reader, Stat(r)
  PROVE  KInv'
  <1>. USE DEF Stat
  <1>1. at[r] = "stat" /\ want[r] \in Hash /\ path[r] \in Tag /\ <<path[r], want[r]>> \in file
    BY DEF KInv, Knows
  <1>2. CacheTrue'
    BY DEF KInv, CacheTrue, disk
  <1>3. at' = [at EXCEPT ![r] = "set"] /\ path' = path
    BY <1>1
  <1>4. TypeOK'
    BY <1>3 DEF KInv, TypeOK, Stage, disk, booting, maps, bounds
  <1>5. at'[r] = "set" /\ want'[r] = want[r] /\ path'[r] = path[r] /\ file' = file
    BY <1>3, ReadingTypes DEF disk
  <1>6. Knows(r)'
    BY <1>1, <1>5 DEF Knows
  <1>. QED
    BY <1>2, <1>3, <1>4, <1>6, ReaderFrame, ReadingTypes

\* The slot gets a path that exists.
LEMMA SetCacheStep ==
  ASSUME KInv, NEW r \in Reader, SetCache(r)
  PROVE  KInv'
  <1>. USE DEF SetCache, Step
  <1>. DEFINE e == [hash |-> want[r], tag |-> path[r]]
  <1>1. /\ at[r] = "set" /\ want[r] \in Hash /\ path[r] \in Tag
        /\ <<path[r], want[r]>> \in file /\ e \in Entry /\ path[r] # None
    BY KepIndexAssumption DEF KInv, Knows, Entry
  <1>2. cache' = [cache EXCEPT ![SlotOf[want[r]]] = e] /\ cache \in [Slot -> Entry \cup {None}]
    BY DEF KInv, TypeOK
  <1>3. CacheTrue'
    <2>. SUFFICES ASSUME NEW s \in Slot, cache'[s] # None
                  PROVE  <<cache'[s].tag, cache'[s].hash>> \in file
      BY DEF CacheTrue, disk
    <2>1. CASE s = SlotOf[want[r]]
      BY <1>1, <1>2, <2>1
    <2>2. CASE s # SlotOf[want[r]]
      BY <1>2, <2>2 DEF KInv, CacheTrue
    <2>. QED
      BY <2>1, <2>2
  <1>4. cache' \in [Slot -> Entry \cup {None}]
    BY <1>1, <1>2
  <1>5. TypeOK'
    BY <1>4 DEF KInv, TypeOK, Stage, disk, booting, maps, bounds
  <1>6. at'[r] = "done" /\ want'[r] = want[r] /\ path'[r] = path[r] /\ file' = file
    BY ReadingTypes DEF disk
  <1>7. Knows(r)'
    BY <1>1, <1>6 DEF Knows
  <1>. QED
    BY <1>3, <1>5, <1>7, ReaderFrame, ReadingTypes

LEMMA FinishStep ==
  ASSUME KInv, NEW r \in Reader, Finish(r)
  PROVE  KInv'
  <1>. USE DEF Finish, Step
  <1>1. CacheTrue'
    BY DEF KInv, CacheTrue, disk
  <1>2. TypeOK'
    BY DEF KInv, TypeOK, Stage, disk, booting, maps, bounds
  <1>3. at'[r] = "idle" /\ path'[r] = None
    BY ReadingTypes
  <1>4. Knows(r)'
    BY <1>3 DEF Knows
  <1>. QED
    BY <1>1, <1>2, <1>4, ReaderFrame DEF KInv, TypeOK

-----------------------------------------------------------------------------
\* pbb clears a slot.
LEMMA EvictStep ==
  ASSUME KInv, NEW s \in Slot, Evict(s)
  PROVE  KInv'
  <1>. USE DEF Evict
  <1>1. TypeOK'
    BY DEF KInv, TypeOK, disk, booting, maps, reading, bounds
  <1>2. CacheTrue'
    BY DEF KInv, TypeOK, CacheTrue, disk
  <1>3. ListedSaved' /\ GlobEmpty'
    BY DEF KInv, ListedSaved, Listed, GlobEmpty, disk, booting
  <1>4. \A r \in Reader : Knows(r)'
    BY KnowsStill DEF KInv, booting, reading
  <1>. QED
    BY <1>1, <1>2, <1>3, <1>4 DEF KInv

\* A new process knows nothing; the files are as they were.
LEMMA CrashStep ==
  ASSUME KInv, Crash
  PROVE  KInv'
  <1>. USE DEF Crash
  <1>1. TypeOK'
    BY DEF KInv, TypeOK, Stage
  <1>2. CacheTrue' /\ GlobEmpty'
    BY DEF CacheTrue, GlobEmpty
  <1>3. ListedSaved'
    BY DEF KInv, ListedSaved, Listed
  <1>4. \A r \in Reader : Knows(r)'
    BY DEF Knows
  <1>. QED
    BY <1>1, <1>2, <1>3, <1>4 DEF KInv

LEMMA StutterStep ==
  ASSUME KInv, UNCHANGED vars
  PROVE  KInv'
  BY DEF KInv, TypeOK, ListedSaved, CacheTrue, GlobEmpty, Knows, Owes, Listed,
         vars, disk, booting, maps, reading, bounds

LEMMA KNext == KInv /\ [Next]_vars => KInv'
  <1>. SUFFICES ASSUME KInv, [Next]_vars PROVE KInv'
    OBVIOUS
  <1>1. ASSUME NEW r \in Reader, Find(r) PROVE KInv'
    BY <1>1, CacheStep, PrefixStep, MapStep, IndexStep, ScanErrorStep, NotFoundStep,
       StatStep, SetCacheStep, FinishStep DEF Find
  <1>. QED
    BY <1>1, WriteStep, BootStep, BeginStep, EvictStep, CrashStep, StutterStep DEF Next

LEMMA KAlways == Spec => []KInv
  BY KInit, KNext, PTL DEF Spec

\* Type correctness of the store and index, for any constants.
THEOREM KepTypes == Spec => []TypeOK
  <1>1. KInv => TypeOK
    BY DEF KInv
  <1>. QED
    BY <1>1, KAlways, PTL

\* Whatever ReadHash is told to open exists and is the message it was asked for.
THEOREM AnswersExist == Spec => []AnswerExists
  <1>1. KInv => AnswerExists
    BY DEF KInv, Knows, AnswerExists
  <1>. QED
    BY <1>1, KAlways, PTL

\* A listed message of a loaded tag is found.
THEOREM ListedFound == Spec => []ListedIsFound
  <1>1. KInv => ListedIsFound
    BY DEF KInv, Knows, ListedIsFound
  <1>. QED
    BY <1>1, KAlways, PTL

-----------------------------------------------------------------------------
(* ReadTag counts its records from the end of the file.                    *)

\* The lines written since the last cut are the last cells of the file.
Ends(s, w) ==
  /\ 3 * Len(w) <= Len(s)
  /\ \A j \in 1..Len(w) :
       /\ s[Len(s) - 3 * Len(w) + 3 * j - 2] = <<w[j], 1>>
       /\ s[Len(s) - 3 * Len(w) + 3 * j - 1] = <<w[j], 2>>

TailEnds == \A t \in Tag : Ends(idx[t], tail[t])

\* One more line at the end of both.
LEMMA EndsMore ==
  ASSUME NEW s \in Seq(Cell), NEW w \in Seq(Hash), NEW h \in Hash, Ends(s, w)
  PROVE  Ends(s \o Line(h), Append(w, h))
  <1>. DEFINE s2 == s \o Line(h)
              w2 == Append(w, h)
  <1>1. /\ Line(h) \in Seq(Cell) /\ Len(Line(h)) = 3
        /\ Line(h)[1] = <<h, 1>> /\ Line(h)[2] = <<h, 2>>
    BY Lines
  <1>2. /\ Len(s2) = Len(s) + 3 /\ \A i \in 1..Len(s) : s2[i] = s[i]
        /\ \A i \in 1..3 : s2[Len(s) + i] = Line(h)[i]
    <2>1. ASSUME NEW x \in Seq(Cell), Len(x) = 3
          PROVE  /\ Len(s \o x) = Len(s) + 3 /\ \A i \in 1..Len(s) : (s \o x)[i] = s[i]
                 /\ \A i \in 1..3 : (s \o x)[Len(s) + i] = x[i]
      <3>1. /\ Len(s \o x) = Len(s) + Len(x) /\ \A i \in 1..Len(s) : (s \o x)[i] = s[i]
            /\ \A i \in 1..Len(x) : (s \o x)[Len(s) + i] = x[i]
        BY Concat
      <3>. QED
        BY <2>1, <3>1
    <2>. QED
      BY <1>1, <2>1
  <1>3. /\ Len(w2) = Len(w) + 1 /\ w2[Len(w) + 1] = h
        /\ \A j \in 1..Len(w) : w2[j] = w[j]
    BY AppendProperties
  <1>4. Len(s) \in Nat /\ Len(w) \in Nat /\ 3 * Len(w) <= Len(s)
    BY DEF Ends
  <1>. HIDE DEF s2, w2
  <1>5. Len(s2) - 3 * Len(w2) = Len(s) - 3 * Len(w)
    BY <1>2, <1>3, <1>4
  <1>6. ASSUME NEW j \in 1..Len(w2)
        PROVE  /\ s2[Len(s) - 3 * Len(w) + 3 * j - 2] = <<w2[j], 1>>
               /\ s2[Len(s) - 3 * Len(w) + 3 * j - 1] = <<w2[j], 2>>
    <2>1. CASE j \in 1..Len(w)
      <3>. DEFINE a == Len(s) - 3 * Len(w) + 3 * j - 2
      <3>1. a \in 1..Len(s) /\ a + 1 \in 1..Len(s)
        BY <1>4, <2>1
      <3>2. s[a] = <<w[j], 1>> /\ s[a + 1] = <<w[j], 2>>
        <4>1. a + 1 = Len(s) - 3 * Len(w) + 3 * j - 1
          BY <1>4, <2>1
        <4>. QED
          BY <2>1, <4>1 DEF Ends
      <3>3. s2[a] = <<w2[j], 1>> /\ s2[a + 1] = <<w2[j], 2>>
        BY <1>2, <1>3, <2>1, <3>1, <3>2
      <3>4. a + 1 = Len(s) - 3 * Len(w) + 3 * j - 1
        BY <1>4, <2>1
      <3>. QED
        BY <3>3, <3>4
    <2>2. CASE j = Len(w) + 1
      <3>1. /\ Len(s) - 3 * Len(w) + 3 * j - 2 = Len(s) + 1
            /\ Len(s) - 3 * Len(w) + 3 * j - 1 = Len(s) + 2
        BY <1>4, <2>2
      <3>2. s2[Len(s) + 1] = <<h, 1>> /\ s2[Len(s) + 2] = <<h, 2>>
        BY <1>1, <1>2
      <3>. QED
        BY <1>3, <2>2, <3>1, <3>2
    <2>. QED
      BY <1>3, <1>4, <2>1, <2>2
  <1>7. 3 * Len(w2) <= Len(s2)
    BY <1>2, <1>3, <1>4
  <1>8. Ends(s2, w2)
    BY <1>5, <1>6, <1>7 DEF Ends
  <1>. QED
    BY <1>8 DEF s2, w2

LEMMA TailStep == KInv /\ TailEnds /\ [Next]_vars => TailEnds'
  <1>. SUFFICES ASSUME KInv, TailEnds, [Next]_vars, NEW u \in Tag
                PROVE  Ends(idx[u], tail[u])'
    BY DEF TailEnds
  <1>1. Ends(idx[u], tail[u])
    BY DEF TailEnds
  <1>2. /\ idx \in [Tag -> Seq(Cell)] /\ tail \in [Tag -> Seq(Hash)]
        /\ idx[u] \in Seq(Cell) /\ tail[u] \in Seq(Hash)
    BY DEF KInv, TypeOK
  <1>3. CASE UNCHANGED <<idx, tail>>
    BY <1>1, <1>3 DEF Ends
  <1>4. ASSUME NEW t \in Tag, NEW h \in Hash, AppendLine(t, h)
        PROVE  Ends(idx[u], tail[u])'
    <2>1. CASE u = t
      <3>1. idx'[u] = idx[u] \o Line(h) /\ tail'[u] = Append(tail[u], h)
        BY <1>2, <1>4, <2>1 DEF AppendLine
      <3>2. Ends(idx'[u], tail'[u])
        BY <1>1, <1>2, <3>1, EndsMore
      <3>. QED
        BY <3>2 DEF Ends
    <2>2. CASE u # t
      <3>1. idx'[u] = idx[u] /\ tail'[u] = tail[u]
        BY <1>2, <1>4, <2>2 DEF AppendLine
      <3>. QED
        BY <1>1, <3>1 DEF Ends
    <2>. QED
      BY <2>1, <2>2
  <1>5. ASSUME NEW t \in Tag, NEW h \in Hash, CutLine(t, h)
        PROVE  Ends(idx[u], tail[u])'
    <2>1. PICK k \in 0..2 :
            /\ idx' = [idx EXCEPT ![t] = @ \o SubSeq(Line(h), 1, k)]
            /\ tail' = IF k = 0 THEN tail ELSE [tail EXCEPT ![t] = <<>>]
      BY <1>5 DEF CutLine
    <2>2. CASE u # t \/ k = 0
      <3>1. k = 0 => SubSeq(Line(h), 1, k) = <<>>
        BY SubSeqEmpty
      <3>2. idx'[u] = idx[u] /\ tail'[u] = tail[u]
        BY <1>2, <2>1, <2>2, <3>1, ConcatEmptySeq
      <3>. QED
        BY <1>1, <3>2 DEF Ends
    <2>3. CASE u = t /\ k # 0
      <3>1. tail'[u] = <<>> /\ idx'[u] = idx[u] \o SubSeq(Line(h), 1, k)
        BY <1>2, <2>1, <2>3
      <3>2. Len(idx'[u]) \in Nat
        <4>1. SubSeq(Line(h), 1, k) \in Seq(Cell)
          BY CutLines
        <4>. QED
          BY <1>2, <3>1, <4>1, ConcatProperties
      <3>3. Len(tail'[u]) = 0
        BY <3>1
      <3>. QED
        BY <3>2, <3>3 DEF Ends
    <2>. QED
      BY <2>2, <2>3
  <1>6. ASSUME Write, \A t \in Tag, h \in Hash : ~AppendLine(t, h) /\ ~CutLine(t, h)
        PROVE  UNCHANGED <<idx, tail>>
    BY <1>6, KepIndexAssumption DEF Write, SaveFile
  <1>7. ASSUME Boot \/ Crash \/ (\E s \in Slot : Evict(s)) \/ UNCHANGED vars
        PROVE  UNCHANGED <<idx, tail>>
    BY <1>7 DEF Boot, BootGlob, BootTag, BootLog, BootRead, BootError, Crash, Evict, vars, disk
  <1>8. ASSUME NEW r \in Reader, Find(r) \/ \E h \in Hash : Begin(r, h)
        PROVE  UNCHANGED <<idx, tail>>
    BY <1>8 DEF Find, Begin, FromCache, ByPrefix, ByMap, ByIndex, ScanError, NotFound,
       Stat, SetCache, Finish, disk
  <1>. QED
    BY <1>3, <1>4, <1>5, <1>6, <1>7, <1>8 DEF Next

\* Where ReadTag finds its i-th record in a file of m cells.
LEMMA Offsets ==
  ASSUME NEW m \in Nat, NEW n \in Nat, NEW i \in Nat, NEW k \in Nat,
         1 <= i, i <= n, i <= k, 3 * n <= m,
         NEW limit, limit = IF m \div 3 < k THEN m \div 3 ELSE k
  PROVE  /\ limit \in Nat /\ i <= limit
         /\ (m - limit * 3) + (limit - i) * 3 + 1 = m - 3 * i + 1
         /\ (m - limit * 3) + (limit - i) * 3 + 2 = m - 3 * i + 2
  <1>1. m \div 3 \in Nat /\ n <= m \div 3
    OBVIOUS
  <1>2. limit \in Nat /\ i <= limit
    BY <1>1
  <1>. QED
    BY <1>2

\* It reads the lines at the end of the file, the last first.
LEMMA ReadsTail ==
  ASSUME NEW s \in Seq(Cell), NEW w \in Seq(Hash), Ends(s, w),
         NEW i \in 1..Len(w), i <= MaxTagNum
  PROVE  /\ i \in DOMAIN ReadTag(s)
         /\ ReadTag(s)[i] = SubSeq(Line(w[Len(w) + 1 - i]), 1, 2)
  <1>. DEFINE m == Len(s)
              n == Len(w)
              j == n + 1 - i
              h == w[j]
              a == m - 3 * i + 1
  <1>1. m \in Nat /\ n \in Nat /\ i \in Nat /\ 1 <= i /\ i <= n /\ 3 * n <= m
        /\ MaxTagNum \in Nat /\ j \in 1..n
    <2>1. m \in Nat /\ n \in Nat /\ i \in 1..n
      OBVIOUS
    <2>2. 3 * n <= m
      BY DEF Ends
    <2>3. MaxTagNum \in Nat
      BY KepIndexAssumption
    <2>. HIDE DEF m, n
    <2>. QED
      BY <2>1, <2>2, <2>3
  <1>2. h \in Hash /\ s[m - 3 * n + 3 * j - 2] = <<h, 1>> /\ s[m - 3 * n + 3 * j - 1] = <<h, 2>>
    <2>1. j \in 1..Len(w) /\ w[j] \in Hash
      BY <1>1
    <2>2. /\ s[Len(s) - 3 * Len(w) + 3 * j - 2] = <<w[j], 1>>
          /\ s[Len(s) - 3 * Len(w) + 3 * j - 1] = <<w[j], 2>>
      <3>. HIDE DEF j
      <3>. QED
        BY <2>1, Zenon DEF Ends
    <2>. QED
      BY <2>1, <2>2
  <1>. HIDE DEF h
  <1>3. /\ m - 3 * n + 3 * j - 2 = a /\ m - 3 * n + 3 * j - 1 = a + 1
        /\ a \in 1..m /\ a + 1 \in 1..m /\ a + 1 = m - 3 * i + 2
    BY <1>1
  <1>4. s[a] = <<h, 1>> /\ s[a + 1] = <<h, 2>>
    BY <1>2, <1>3
  <1>5. i \in DOMAIN ReadTag(s) /\ ReadTag(s)[i] = SubSeq(s, a, a + 1)
    <2>. DEFINE count == m \div 3
                limit == IF count < MaxTagNum THEN count ELSE MaxTagNum
    <2>1. /\ limit \in Nat /\ i <= limit
          /\ (m - limit * 3) + (limit - i) * 3 + 1 = a
          /\ (m - limit * 3) + (limit - i) * 3 + 2 = a + 1
      <3>. HIDE DEF m, n
      <3>. QED
        BY <1>1, <1>3, Offsets
    <2>2. ReadTag(s) = [k \in 1..limit |->
                          SubSeq(s, (m - limit * 3) + (limit - k) * 3 + 1,
                                    (m - limit * 3) + (limit - k) * 3 + 2)]
      BY DEF ReadTag
    <2>. HIDE DEF limit
    <2>3. i \in 1..limit
      BY <1>1, <2>1
    <2>. QED
      BY <2>1, <2>2, <2>3
  <1>. DEFINE x == SubSeq(s, a, a + 1)
              y == SubSeq(Line(h), 1, 2)
  <1>6. x \in Seq(Cell) /\ Len(x) = 2 /\ x[1] = s[a] /\ x[2] = s[a + 1]
    <2>. HIDE DEF a
    <2>1. a \in Int /\ a + 1 \in Int /\ (\A k \in a..(a + 1) : s[k] \in Cell)
      BY <1>1, <1>3
    <2>2. /\ x \in Seq(Cell) /\ Len(x) = 2
          /\ \A k \in 1..((a + 1) - a + 1) : x[k] = s[a + k - 1]
      BY <2>1, SubSeqProperties
    <2>3. x[1] = s[a + 1 - 1] /\ x[2] = s[a + 2 - 1]
      BY <2>1, <2>2
    <2>. QED
      BY <2>1, <2>2, <2>3
  <1>7. y \in Seq(Cell) /\ Len(y) = 2 /\ y[1] = <<h, 1>> /\ y[2] = <<h, 2>>
    BY <1>2, CutLines
  <1>. HIDE DEF x, y
  <1>8. x = y
    <2>1. x[1] = y[1] /\ x[2] = y[2]
      BY <1>4, <1>6, <1>7
    <2>2. \A k \in 1..2 : x[k] = y[k]
      BY <2>1
    <2>. QED
      BY <1>6, <1>7, <2>2, SeqEqual
  <1>. QED
    BY <1>5, <1>8 DEF x, y, h

\* ReadTag lists what was written since the last cut line, newest first.
THEOREM TagsNewestFirst == Spec => []NewestFirst
  <1>1. Init => TailEnds
    BY DEF Init, TailEnds, Ends
  <1>2. KInv /\ TailEnds => NewestFirst
    BY ReadsTail DEF NewestFirst, TailEnds, KInv, TypeOK
  <1>. QED
    BY <1>1, <1>2, KInit, KNext, TailStep, PTL DEF Spec
-----------------------------------------------------------------------------
(* Refinement of the lookup in one step.                                   *)

Asking == {"cache", "prefix", "tags", "scan", "stat", "set"}

\* A step that changes nothing a user of the store sees.
LEMMA Unseen ==
  ASSUME UNCHANGED <<file, idx, used, logged, at, want, owed>>,
         \A r \in Reader : at[r] = "done" => path'[r] = path[r]
  PROVE  UNCHANGED Lookups!lvars
  <1>1. AllListed' = AllListed /\ Loaded' = Loaded
    BY DEF AllListed, Listed, Loaded
  <1>2. StageOf' = StageOf /\ AnswerOf' = AnswerOf
    BY DEF StageOf, AnswerOf
  <1>. QED
    BY <1>1, <1>2 DEF Lookups!lvars, Lookups!store

\* A step of a lookup is hidden, or tells its answer.
LEMMA Asks ==
  ASSUME KInv, KInv', NEW r \in Reader, UNCHANGED <<file, idx, used, logged, want, owed>>,
         at[r] \in Asking, NEW s \in Asking \cup {"done"}, at' = [at EXCEPT ![r] = s],
         \A q \in Reader \ {r} : path'[q] = path[q]
  PROVE  [Lookups!Next]_(Lookups!lvars)
  <1>1. AllListed' = AllListed /\ Loaded' = Loaded
    BY DEF AllListed, Listed, Loaded
  <1>2. at \in [Reader -> Stage] /\ path' \in [Reader -> Tag \cup {None}]
    BY ReadingTypes DEF KInv, TypeOK
  <1>3. CASE s \in Asking
    <2>1. StageOf' = StageOf
      BY <1>2, <1>3 DEF StageOf, Asking
    <2>2. AnswerOf' = AnswerOf
      BY <1>2, <1>3 DEF AnswerOf, Asking
    <2>. QED
      BY <1>1, <2>1, <2>2 DEF Lookups!lvars, Lookups!store
  <1>4. CASE s = "done"
    <2>1. StageOf[r] = "asked" /\ StageOf' = [StageOf EXCEPT ![r] = "told"]
      BY <1>2, <1>4 DEF StageOf, Asking
    <2>2. AnswerOf' = [AnswerOf EXCEPT ![r] = path'[r]]
      BY <1>2, <1>4 DEF AnswerOf, Asking
    <2>3. IF path'[r] = None THEN ~owed[r] ELSE <<path'[r], want[r]>> \in file
      BY <1>2, <1>4 DEF KInv, Knows
    <2>4. Lookups!Tell(r, path'[r])
      BY <1>1, <2>1, <2>2, <2>3 DEF Lookups!Tell, Lookups!store
    <2>. QED
      BY <1>2, <2>4 DEF Lookups!Next
  <1>. QED
    BY <1>3, <1>4

\* WriteMDB stores a message, or lists a stored one.
LEMMA WriteSim ==
  ASSUME KInv, Write
  PROVE  [Lookups!Next]_(Lookups!lvars)
  <1>0. PICK t \in Tag, h \in Hash : SaveFile(t, h) \/ AppendLine(t, h) \/ CutLine(t, h)
    BY KepIndexAssumption DEF Write
  <1>1. UNCHANGED <<Loaded, StageOf, AnswerOf, want, owed>>
    BY <1>0 DEF SaveFile, AppendLine, CutLine, booting, reading, Loaded, StageOf, AnswerOf
  <1>2. CASE SaveFile(t, h)
    <2>1. AllListed' = AllListed /\ file' = file \cup {<<t, h>>}
      BY <1>2 DEF SaveFile, AllListed, Listed
    <2>2. Lookups!Save(<<t, h>>)
      BY <1>1, <2>1 DEF Lookups!Save
    <2>. QED
      BY <2>2 DEF Lookups!Next
  <1>3. ASSUME NEW x \in Seq(Cell), \A i \in 1..Len(x) : x[i] = <<h, i>>,
               idx' = [idx EXCEPT ![t] = @ \o x], file' = file, <<t, h>> \in pending
        PROVE  [Lookups!Next]_(Lookups!lvars)
    <2>1. idx[t] \in Seq(Cell) /\ idx \in [Tag -> Seq(Cell)] /\ <<t, h>> \in file
      BY <1>3 DEF KInv, TypeOK
    <2>2. \A u \in Tag, g \in Hash : Listed(u, g) => Listed(u, g)'
      <3>1. ASSUME NEW g \in Hash, Listed(t, g)
            PROVE  Listed(t, g)'
        BY <1>3, <2>1, <3>1, Appending DEF Listed
      <3>2. ASSUME NEW u \in Tag, u # t, NEW g \in Hash, Listed(u, g)
            PROVE  Listed(u, g)'
        BY <1>3, <2>1, <3>2 DEF Listed, Contains
      <3>. QED
        BY <3>1, <3>2
    <2>3. \A u \in Tag, g \in Hash : Listed(u, g)' => Listed(u, g) \/ (u = t /\ g = h)
      BY <1>3, <2>1, Appending DEF Listed
    <2>4. AllListed' = AllListed \/ AllListed' = AllListed \cup {<<t, h>>}
      <3>1. \A u \in Tag, g \in Hash : <<u, g>> \in AllListed <=> Listed(u, g)
        BY DEF AllListed
      <3>2. \A u \in Tag, g \in Hash : <<u, g>> \in AllListed' <=> Listed(u, g)'
        BY DEF AllListed
      <3>3. AllListed \subseteq Tag \X Hash /\ AllListed' \subseteq Tag \X Hash
        BY DEF AllListed
      <3>4. AllListed \subseteq AllListed'
        BY <2>2, <3>1, <3>2, <3>3
      <3>5. AllListed' \subseteq AllListed \cup {<<t, h>>}
        BY <2>3, <3>1, <3>2, <3>3
      <3>. QED
        BY <3>4, <3>5
    <2>5. CASE AllListed' = AllListed
      BY <1>1, <1>3, <2>5 DEF Lookups!lvars, Lookups!store
    <2>6. CASE AllListed' = AllListed \cup {<<t, h>>}
      <3>1. Lookups!List(<<t, h>>)
        BY <1>1, <1>3, <2>1, <2>6 DEF Lookups!List
      <3>. QED
        BY <3>1 DEF Lookups!Next
    <2>. QED
      BY <2>4, <2>5, <2>6
  <1>4. CASE AppendLine(t, h)
    <2>1. \A i \in 1..Len(Line(h)) : Line(h)[i] = <<h, i>>
      BY Lines
    <2>. QED
      BY <1>3, <1>4, <2>1, Lines DEF AppendLine
  <1>5. CASE CutLine(t, h)
    <2>1. PICK k \in 0..2 : idx' = [idx EXCEPT ![t] = @ \o SubSeq(Line(h), 1, k)]
      BY <1>5 DEF CutLine
    <2>. QED
      BY <1>3, <1>5, <2>1, CutLines DEF CutLine
  <1>. QED
    BY <1>0, <1>2, <1>4, <1>5
\* index_Init loads a tag when both usedTags and path_log have it.
LEMMA BootSim ==
  ASSUME KInv, Boot
  PROVE  [Lookups!Next]_(Lookups!lvars)
  <1>1. UNCHANGED <<file, idx, reading, StageOf, AnswerOf, AllListed>>
    BY DEF Boot, BootGlob, BootTag, BootLog, BootRead, BootError, disk, reading, StageOf,
           AnswerOf, AllListed, Listed
  <1>2. Loaded' = Loaded \/ \E t \in Tag : Loaded' = Loaded \cup {t}
    <2>1. CASE BootGlob
      BY <2>1 DEF BootGlob, KInv, GlobEmpty, Loaded
    <2>2. ASSUME NEW t \in Tag, BootTag(t)
          PROVE  Loaded' = Loaded \cup {t} \/ Loaded' = Loaded
      <3>1. /\ Len(used') = Len(used) + 1 /\ Len(used) \in Nat
            /\ \A i \in 1..Len(used) : used'[i] = used[i]
            /\ used'[Len(used) + 1] = t /\ logged' = logged
        BY <2>2, AppendProperties DEF BootTag, KInv, TypeOK
      <3>2. {used'[i] : i \in 1..Len(used')} = {used[i] : i \in 1..Len(used)} \cup {t}
        BY <3>1
      <3>. QED
        BY <3>1, <3>2 DEF Loaded
    <2>3. CASE BootLog
      <3>1. cur \in Tag /\ used' = used /\ logged' = logged \cup {cur}
        BY <2>3 DEF BootLog, KInv, TypeOK
      <3>2. Loaded' = Loaded \cup {cur} \/ Loaded' = Loaded
        BY <3>1 DEF Loaded
      <3>. QED
        BY <3>1, <3>2
    <2>4. CASE BootRead \/ BootError
      BY <2>4 DEF BootRead, BootError, Loaded
    <2>. QED
      BY <2>1, <2>2, <2>3, <2>4 DEF Boot
  <1>3. CASE Loaded' = Loaded
    BY <1>1, <1>3 DEF Lookups!lvars, Lookups!store, reading
  <1>4. ASSUME NEW t \in Tag, Loaded' = Loaded \cup {t}
        PROVE  [Lookups!Next]_(Lookups!lvars)
    <2>1. Lookups!Load(t)
      BY <1>1, <1>4 DEF Lookups!Load, reading
    <2>. QED
      BY <2>1 DEF Lookups!Next
  <1>. QED
    BY <1>2, <1>3, <1>4

LEMMA BeginSim ==
  ASSUME KInv, NEW r \in Reader, NEW h \in Hash, Begin(r, h)
  PROVE  [Lookups!Next]_(Lookups!lvars)
  <1>1. /\ at[r] = "idle" /\ at' = [at EXCEPT ![r] = "cache"] /\ path' = path
        /\ UNCHANGED <<file, idx, used, logged>>
    BY DEF Begin, Step, disk, booting
  <1>2. AllListed' = AllListed /\ Loaded' = Loaded
    BY <1>1 DEF AllListed, Listed, Loaded
  <1>3. at \in [Reader -> Stage]
    BY ReadingTypes
  <1>4. StageOf[r] = "idle" /\ StageOf' = [StageOf EXCEPT ![r] = "asked"]
    BY <1>1, <1>3 DEF StageOf
  <1>5. AnswerOf' = AnswerOf
    BY <1>1, <1>3 DEF AnswerOf
  <1>6. (\E i \in 1..Len(used) : used[i] \in logged /\ Listed(used[i], h))
          = (\E t \in Loaded : <<t, h>> \in AllListed)
    <2>1. \A i \in 1..Len(used) : used[i] \in Tag
      BY DEF KInv, TypeOK
    <2>2. \A t \in Tag : <<t, h>> \in AllListed <=> Listed(t, h)
      BY DEF AllListed
    <2>. QED
      BY <2>1, <2>2 DEF Loaded
  <1>7. owed' = [owed EXCEPT ![r] = \E t \in Loaded : <<t, h>> \in AllListed]
    BY <1>6 DEF Begin
  <1>8. Lookups!Ask(r, h)
    BY <1>1, <1>2, <1>4, <1>5, <1>7 DEF Lookups!Ask, Lookups!store, Begin
  <1>. QED
    BY <1>8 DEF Lookups!Next

LEMMA FindSim ==
  ASSUME KInv, KInv', NEW r \in Reader, Find(r)
  PROVE  [Lookups!Next]_(Lookups!lvars)
  <1>0. at \in [Reader -> Stage] /\ path \in [Reader -> Tag \cup {None}]
    BY ReadingTypes
  <1>1. CASE FromCache(r) \/ ByPrefix(r) \/ ByMap(r) \/ ByIndex(r) \/ NotFound(r) \/ Stat(r) \/ SetCache(r)
    <2>1. /\ UNCHANGED <<file, idx, used, logged, want, owed>> /\ at[r] \in Asking
          /\ \A q \in Reader \ {r} : path'[q] = path[q]
      BY <1>0, <1>1 DEF FromCache, ByPrefix, ByMap, ByIndex, NotFound, Stat, SetCache, Step,
                        disk, booting, Asking
    <2>2. \E s \in Asking \cup {"done"} : at' = [at EXCEPT ![r] = s]
      BY <1>0, <1>1 DEF FromCache, ByPrefix, ByMap, ByIndex, NotFound, Stat, SetCache, Step, Asking
    <2>. QED
      BY <2>1, <2>2, Asks
  <1>2. CASE ScanError(r)
    <2>1. /\ at[r] = "scan" /\ at' = [at EXCEPT ![r] = "tags"]
          /\ UNCHANGED <<file, idx, used, logged, want, path>> /\ owed' = [owed EXCEPT ![r] = FALSE]
      BY <1>2 DEF ScanError, Step, disk, booting
    <2>2. AllListed' = AllListed /\ Loaded' = Loaded
      BY <2>1 DEF AllListed, Listed, Loaded
    <2>3. StageOf[r] = "asked" /\ StageOf' = StageOf /\ AnswerOf' = AnswerOf
      BY <1>0, <2>1 DEF StageOf, AnswerOf
    <2>4. Lookups!Excuse(r)
      BY <2>1, <2>2, <2>3 DEF Lookups!Excuse, Lookups!store
    <2>. QED
      BY <2>4 DEF Lookups!Next
  <1>3. CASE Finish(r)
    <2>1. /\ at[r] = "done" /\ at' = [at EXCEPT ![r] = "idle"]
          /\ UNCHANGED <<file, idx, used, logged>> /\ owed' = [owed EXCEPT ![r] = FALSE]
          /\ want' = [want EXCEPT ![r] = None] /\ path' = [path EXCEPT ![r] = None]
      BY <1>3 DEF Finish, Step, disk, booting
    <2>2. AllListed' = AllListed /\ Loaded' = Loaded
      BY <2>1 DEF AllListed, Listed, Loaded
    <2>3. StageOf[r] = "told" /\ StageOf' = [StageOf EXCEPT ![r] = "idle"]
      BY <1>0, <2>1 DEF StageOf
    <2>4. AnswerOf' = [AnswerOf EXCEPT ![r] = None]
      BY <1>0, <2>1 DEF AnswerOf
    <2>5. Lookups!Leave(r)
      BY <2>1, <2>2, <2>3, <2>4 DEF Lookups!Leave, Lookups!store
    <2>. QED
      BY <2>5 DEF Lookups!Next
  <1>. QED
    BY <1>1, <1>2, <1>3 DEF Find

LEMMA CrashSim ==
  ASSUME Crash
  PROVE  [Lookups!Next]_(Lookups!lvars)
  <1>1. AllListed' = AllListed /\ Loaded' = {} /\ file' = file
    BY DEF Crash, AllListed, Listed, Loaded
  <1>2. StageOf' = [r \in Reader |-> "idle"] /\ AnswerOf' = [r \in Reader |-> None]
    BY DEF Crash, StageOf, AnswerOf
  <1>3. Lookups!Restart
    BY <1>1, <1>2 DEF Lookups!Restart, Crash
  <1>. QED
    BY <1>3 DEF Lookups!Next

\* Every step of the store, the start and the lookups is a step of the lookup
\* in one step, or hidden.
LEMMA LookupSim ==
  ASSUME KInv, KInv', [Next]_vars
  PROVE  [Lookups!Next]_(Lookups!lvars)
  <1>1. CASE UNCHANGED vars
    BY <1>1, Unseen DEF vars, disk, booting, reading
  <1>2. ASSUME NEW s \in Slot, Evict(s)
        PROVE  [Lookups!Next]_(Lookups!lvars)
    BY <1>2, Unseen DEF Evict, disk, booting, reading
  <1>. QED
    BY <1>1, <1>2, WriteSim, BootSim, BeginSim, FindSim, CrashSim DEF Next

\* A lookup beside writers, the start of the index and other lookups, with
\* collisions, faults and crashes, is answered as by one look at the store.
THEOREM LookupRefinement == Spec => ImplementsLookup
  <1>1. Init => Lookups!Init
    BY DEF Init, Lookups!Init, AllListed, Listed, Contains, Loaded, StageOf, AnswerOf
  <1>2. KInv /\ KInv' /\ [Next]_vars => [Lookups!Next]_(Lookups!lvars)
    BY LookupSim
  <1>. QED
    BY <1>1, <1>2, KAlways, PTL DEF Spec, ImplementsLookup, Lookups!Spec
=============================================================================
