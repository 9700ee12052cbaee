-------------------------- MODULE ZipExtractProofs --------------------------
(***************************************************************************)
(* What is proved of ZipReader and ZipExtract, for every archive and every *)
(* limit:                                                                  *)
(*   StagedIsArchive         what is handed on is what the archive holds   *)
(*   WritesStayInside        nothing is written outside the staging        *)
(*                           directory                                     *)
(*   LimitsAlwaysHold        the limits hold for the bytes on the disk     *)
(*   ReturnsClean            every way out closes and removes what it must *)
(*   AcceptedDirectorySound  an accepted directory, its heap sort and its  *)
(*                           binary search                                 *)
(*   WellFormedOpens         where the scan stops, and what it opens       *)
(* Where a fact is about a recursively defined function or a sum, it is    *)
(* shown by taking the least number for which it fails.                    *)
(***************************************************************************)
EXTENDS ZipExtract, TLAPS, FiniteSetTheorems
----------------------------------------------------------------------------
\* The reader: what it has found out about the archive holds from the moment
\* it is found out until the archive is closed.
ArchiveFields == {"mode", "open", "closes", "total", "size", "start", "cdirOfs", "zip64", "ext64",
                  "numDisk", "offsets", "sorted", "heap"}

ReaderInv ==
  /\ disk \in Layouts
  /\ DOMAIN z = ArchiveFields
  /\ z.total \in Nat /\ z.size \in Int /\ z.offsets \in Seq(Nat)
  /\ ofs \in Int
  /\ pc = "end" => ofs \in DOMAIN disk.ends
  /\ pc \in {"closed", "scan", "end", "read"} => z.offsets = <<>>
  /\ pc = "read" => z.total > 0
  /\ pc = "index" => Len(z.offsets) < z.total
  /\ pc \in {"read", "index", "sort", "ready"} => z.total * CdhSize <= U32
  /\ pc \in {"sort", "ready", "ended"} => z.total <= Len(Entries)

\* A file as the archive's entries up to the current one leave it
Checked(p) ==
  LET f == staging[p]
      e == Entries[f.of]
  IN  /\ f.of \in 1..(idx - 1)
      /\ e.segs = p
      /\ f.bytes = Stat(e).uncomp
      /\ Stat(e).comp # 0 => e.crcMatches /\ ~e.damaged
      /\ \A j \in (f.of + 1)..(idx - 1) : IsDirectory(Entries[j]) \/ Entries[j].segs # p

Staged == [kind : {"file", "dir"}, of : Nat, bytes : Nat]

\* Where extractToStaging is, and what it keeps there
PlaceInv ==
  /\ step \in {"begin", "open", "count", "entry", "local", "extract", "manifest", "returned"}
  /\ idx \in Nat /\ outOfs \in Nat /\ entryBytes \in Nat /\ totalBytes \in Nat
  /\ step \in {"count", "entry", "local", "extract", "manifest"} => pc = "ready"
  /\ step \in {"begin", "open", "count"} => staging = <<>> /\ idx = 0
  /\ step \in {"entry", "local", "extract"} => idx \in 1..z.total
  /\ step = "manifest" => idx = z.total + 1
  /\ outcome # "none" => step = "returned"
  /\ outcome # "staged" /\ step = "returned" => staging = <<>>
  /\ outcome = "staged" => pc = "ended" /\ idx = z.total + 1

TreeInv ==
  /\ DOMAIN staging \subseteq Seq(STRING)
  /\ \A p \in DOMAIN staging :
       /\ staging[p] \in Staged
       /\ \A k \in 1..Len(p) : p[k] # ".."
       /\ staging[p].kind = "file" =>
            /\ staging[p].of \in 1..Len(Entries)
            /\ LET e == Entries[staging[p].of] IN ~e.rooted /\ ~e.drive /\ ~e.symlink

\* The file being written is the current entry's; the others are done.
ContentInv ==
  /\ step \in {"entry", "manifest", "returned"} =>
       \A p \in DOMAIN staging : staging[p].kind = "file" => Checked(p)
  /\ step \in {"local", "extract"} =>
       /\ Entry.segs \in DOMAIN staging
       /\ staging[Entry.segs] = [kind |-> "file", of |-> idx, bytes |-> outOfs]
       /\ EntryAllowed /\ ~IsDirectory(Entry)
       /\ \A p \in DOMAIN staging : (staging[p].kind = "file" /\ p # Entry.segs) => Checked(p)
  /\ step = "local" => outOfs = 0
  /\ step = "extract" => Stat(Entry).comp # 0

\* The limits, with the counters they are kept by
CountersInv ==
  /\ entryBytes <= MaxEntryBytes /\ totalBytes <= MaxTotalBytes
  /\ step \in {"local", "extract"} => entryBytes = outOfs
  /\ idx > 0 => z.total <= MaxEntries /\ idx <= z.total + 1
  /\ \A p \in DOMAIN staging : staging[p].bytes <= MaxEntryBytes
----------------------------------------------------------------------------
(***************************************************************************)
(* Least and greatest elements                                             *)
(***************************************************************************)
\* A set of numbers that is not empty has a least element.
LEMMA LeastExists ==
  ASSUME NEW S \in SUBSET Nat, S # {}
  PROVE  \E x \in S : \A y \in S : x <= y
<1> DEFINE R == {ss \in Nat \X Nat : ss[1] < ss[2]}
<1>1. IsWellFoundedOn(R, Nat) BY NatLessThanWellFounded DEF OpToRel
<1>2. PICK x \in S : \A y \in S : ~(<<y, x>> \in R)
  <2> HIDE DEF R
  <2> QED BY <1>1, WFMin
<1>3. \A a, b \in Nat : a < b => <<a, b>> \in R OBVIOUS
<1> HIDE DEF R
<1>4. \A y \in S : ~(y < x) BY <1>2, <1>3
<1>5. \A y \in S : x <= y BY <1>4
<1> QED BY <1>5

\* A set of integers with an upper bound has a greatest element: the one
\* mz_zip_reader_locate_header_sig stops at exists.
LEMMA LatestExists ==
  ASSUME NEW S \in SUBSET Int, S # {}, NEW u \in Int, \A s \in S : s <= u
  PROVE  Latest(S) \in S /\ \A y \in S : y <= Latest(S)
<1> DEFINE T == {u - s : s \in S}
<1>1. T \in SUBSET Nat /\ T # {}
  <2>1. \A s \in S : u - s \in Nat OBVIOUS
  <2>2. PICK s \in S : TRUE OBVIOUS
  <2>3. u - s \in T OBVIOUS
  <2> QED BY <2>1, <2>3
<1>2. PICK d \in T : \A y \in T : d <= y BY <1>1, LeastExists
<1>3. PICK x \in S : d = u - x OBVIOUS
<1>4. \A y \in S : y <= x
  <2> SUFFICES ASSUME NEW y \in S PROVE y <= x OBVIOUS
  <2>1. u - y \in T OBVIOUS
  <2> HIDE DEF T
  <2> QED BY <2>1, <1>2, <1>3
<1> QED BY <1>3, <1>4 DEF Latest

(***************************************************************************)
(* The reader                                                              *)
(***************************************************************************)
\* mz_zip_reader_end_internal keeps what was read of the directory's size.
LEMMA EndInternalShape ==
  ASSUME ReaderInv
  PROVE  /\ DOMAIN EndInternal = ArchiveFields
         /\ EndInternal.total = z.total /\ EndInternal.size = z.size
         /\ EndInternal.offsets \in Seq(Nat)
BY DEF ReaderInv, EndInternal, ArchiveFields

LEMMA RejectKeepsReader ==
  ASSUME ReaderInv, Reject
  PROVE  ReaderInv'
BY EndInternalShape DEF ReaderInv, Reject, Entries

\* A count that fits a directory whose size is a 32-bit number
LEMMA FieldsTyped ==
  ASSUME ReaderInv, pc = "end", FieldsFit
  PROVE  /\ Fields.total \in Nat /\ Fields.cdirSize \in Nat /\ Fields.cdirOfs \in Nat
         /\ Fields.cdirSize <= U32
BY LayoutAssumption DEF ReaderInv, Fields, FieldsFit, IsEnd

LEMMA ReaderInitHolds ==
  ASSUME Init PROVE ReaderInv
BY DEF Init, ReaderInit, ReaderInv, Closed, ArchiveFields

LEMMA ReaderStepHolds ==
  ASSUME ReaderInv, ReaderNext
  PROVE  ReaderInv'
<1> USE DEF ArchiveFields
<1>1. CASE InitFile
  BY <1>1, LayoutAssumption, SizeAssumption DEF InitFile, ReaderInv, Entries, GreaterOf
<1>2. CASE InitFails
  BY <1>2 DEF InitFails, ReaderInv, Entries
<1>3. CASE ScanChunk
  <2> DEFINE n == LesserOf(ScanBuf, z.size - ofs)
  <2>1. n \in Int BY SizeAssumption DEF LesserOf, ReaderInv
  <2>2. FoundInBuffer \subseteq DOMAIN disk.ends BY DEF FoundInBuffer
  <2>3. FoundInBuffer \subseteq Int BY <2>2, LayoutAssumption DEF ReaderInv
  <2>4. \A s \in FoundInBuffer : s <= ofs + n - SigSize BY DEF FoundInBuffer
  <2>5. ofs + n - SigSize \in Int BY <2>1, SizeAssumption DEF ReaderInv
  <2>6. FoundInBuffer # {} => Latest(FoundInBuffer) \in DOMAIN disk.ends
    <3> HIDE DEF n
    <3> QED BY <2>2, <2>3, <2>4, <2>5, LatestExists
  <2>7. DOMAIN disk.ends \subseteq Int BY LayoutAssumption DEF ReaderInv
  <2>8. CASE Reject BY <2>8, RejectKeepsReader
  <2>9. CASE FoundInBuffer # {} /\ pc' = "end" /\ ofs' = Latest(FoundInBuffer) /\ UNCHANGED <<disk, z, left>>
    BY <1>3, <2>9, <2>6, <2>7 DEF ScanChunk, ReaderInv, Entries
  <2>10. CASE ofs' = ofs - ScanStep /\ UNCHANGED <<disk, pc, z, left>>
    BY <1>3, <2>10, SizeAssumption DEF ScanChunk, ReaderInv, Entries, ScanStep
  <2> QED BY <1>3, <2>8, <2>9, <2>10 DEF ScanChunk
<1>4. CASE ReadEnd
  <2>1. CASE Reject BY <2>1, RejectKeepsReader
  <2>2. CASE ~Reject
    <3> DEFINE f == Fields
    <3>1. FieldsFit /\ FieldsSane(f) BY <1>4, <2>2 DEF ReadEnd
    <3>2. f.total \in Nat /\ f.cdirSize \in Nat /\ f.cdirOfs \in Nat /\ f.cdirSize <= U32
      BY <1>4, <3>1, FieldsTyped DEF ReadEnd
    <3>3. f.total * CdhSize <= U32
      <4>1. f.cdirSize >= f.total * CdhSize BY <3>1 DEF FieldsSane, CountFits
      <4>2. f.total * CdhSize \in Nat BY <3>2, SizeAssumption
      <4>3. U32 \in Nat BY SizeAssumption
      <4> QED BY <3>2, <4>1, <4>2, <4>3
    <3>4. ArchiveOfs(f) \in Int
      <4>1. {End64Size, Loc64Size} \subseteq Nat BY SizeAssumption
      <4>2. ofs \in Int BY DEF ReaderInv
      <4> HIDE DEF f
      <4> QED BY <3>2, <4>1, <4>2 DEF ArchiveOfs
    <3>5. /\ z' = [z EXCEPT !.total = f.total, !.zip64 = HasLocator, !.numDisk = f.numDisk,
                            !.cdirOfs = f.cdirOfs, !.heap = TopOf(f.total),
                            !.start = ArchiveOfs(f), !.size = @ - ArchiveOfs(f)]
          /\ pc' = IF f.total = 0 THEN "sort" ELSE "read"
          /\ UNCHANGED <<disk, ofs>>
      BY <1>4, <2>2 DEF ReadEnd
    <3>6. pc = "end" BY <1>4 DEF ReadEnd
    <3>7. z'.total = f.total /\ z'.size = z.size - ArchiveOfs(f) /\ z'.offsets = z.offsets
          /\ DOMAIN z' = ArchiveFields
      BY <3>5 DEF ReaderInv
    <3>8. Len(disk.entries) \in Nat BY LayoutAssumption DEF ReaderInv
    <3> HIDE DEF f
    <3> QED BY <3>2, <3>3, <3>4, <3>5, <3>6, <3>7, <3>8 DEF ReaderInv, Entries
  <2> QED BY <2>1, <2>2
<1>5. CASE AllocFails BY <1>5, RejectKeepsReader DEF AllocFails
<1>6. CASE ReadDir
  BY <1>6, RejectKeepsReader DEF ReadDir, ReaderInv, Entries
<1>7. CASE IndexEntry
  <2>1. CASE Reject BY <2>1, RejectKeepsReader
  <2>2. CASE ~Reject
    <3> DEFINE i == Len(z.offsets) + 1
    <3>1. i <= Len(Entries) BY <1>7, <2>2 DEF IndexEntry, HeaderAt
    <3>2. /\ z'.offsets = Append(z.offsets, i) /\ z'.total = z.total /\ z'.size = z.size
          /\ DOMAIN z' = ArchiveFields
          /\ pc' = IF i = z.total THEN "sort" ELSE "index"
          /\ UNCHANGED <<disk, ofs>>
      BY <1>7, <2>2 DEF IndexEntry, ReaderInv
    <3>3. pc = "index" BY <1>7 DEF IndexEntry
    <3>4. i \in Nat /\ i <= z.total /\ z'.offsets \in Seq(Nat) /\ Len(z'.offsets) = i
      BY <3>2, <3>3 DEF ReaderInv
    <3> HIDE DEF i
    <3> QED BY <3>1, <3>2, <3>3, <3>4 DEF ReaderInv, Entries
  <2> QED BY <2>1, <2>2
<1>8. CASE SortStep
  <2>1. /\ z'.offsets = z.offsets /\ z'.total = z.total /\ z'.size = z.size
        /\ DOMAIN z' = ArchiveFields
    BY <1>8 DEF SortStep, ReaderInv
  <2>2. pc = "sort" /\ pc' \in {"sort", "ready"} /\ UNCHANGED <<disk, ofs>>
    BY <1>8 DEF SortStep
  <2> QED BY <2>1, <2>2 DEF ReaderInv, Entries
<1> QED BY <1>1, <1>2, <1>3, <1>4, <1>5, <1>6, <1>7, <1>8 DEF ReaderNext

(***************************************************************************)
(* mz_zip_reader_file_stat                                                 *)
(***************************************************************************)
LEMMA EntryTyped ==
  ASSUME ReaderInv, NEW i \in 1..Len(Entries)
  PROVE  IsEntry(Entries[i])
BY LayoutAssumption DEF ReaderInv, Entries

\* Of the zip64 field's values the uncompressed size is the first.
LEMMA FirstTaken ==
  ASSUME NEW e, e.uncomp = U32
  PROVE  /\ Taken(e, 1) = 1 /\ Taken(e, 3) \in Nat /\ Taken(e, 3) >= 1
<1> DEFINE one == {j \in 1..1 : Takes(e)[j]}
           all == {j \in 1..3 : Takes(e)[j]}
<1>1. Takes(e)[1] = TRUE BY DEF Takes
<1>2. one = {1}
  <2>1. 1..1 = {1} OBVIOUS
  <2> QED BY <1>1, <2>1
<1>3. IsFiniteSet(1..3)
  <2>1. \A a, b \in Int : IsFiniteSet(a..b) BY FS_Interval
  <2>2. 1 \in Int /\ 3 \in Int OBVIOUS
  <2> QED BY <2>1, <2>2, Zenon
<1>4. all \in SUBSET (1..3) /\ {1} \in SUBSET all BY <1>1
<1>5. IsFiniteSet(all) BY <1>3, <1>4, FS_Subset
<1>6. Cardinality({1}) = 1 BY FS_Singleton
<1>7. Cardinality({1}) <= Cardinality(all) BY <1>4, <1>5, FS_Subset
<1>8. Cardinality(all) \in Nat BY <1>5, FS_CardinalityType
<1> HIDE DEF one, all
<1> QED BY <1>2, <1>6, <1>7, <1>8 DEF Taken, one, all

LEMMA Vals64Typed ==
  ASSUME NEW e, IsEntry(e), Field64(e) # {}
  PROVE  Vals64(e) \in Seq(Nat)
<1>1. Field64(e) \in SUBSET Nat BY DEF Field64, IsEntry
<1>2. \E k \in Field64(e) : \A j \in Field64(e) : k <= j BY <1>1, LeastExists
<1> DEFINE k == CHOOSE k \in Field64(e) : \A j \in Field64(e) : k <= j
<1>3. k \in Field64(e) BY <1>2
<1>4. k \in DOMAIN e.extra BY <1>3 DEF Field64
<1> HIDE DEF k
<1>5. e.extra[k].vals \in Seq(Nat) BY <1>4 DEF IsEntry
<1> QED BY <1>5 DEF Vals64, k

\* An entry whose statistics can be had has a size, which is what the
\* directory says or the zip64 field says in its place.
LEMMA StatTyped ==
  ASSUME NEW e, IsEntry(e), ~StatFails(e)
  PROVE  Stat(e).uncomp \in Nat
<1> DEFINE wide == Overflows(e) /\ Field64(e) # {}
<1>1. Stat(e).uncomp = IF wide THEN InOrder(e, 1, e.uncomp) ELSE e.uncomp
  BY DEF Stat, IsEntry
<1>2. CASE ~wide BY <1>1, <1>2 DEF IsEntry
<1>3. CASE wide /\ ~Takes(e)[1]
  BY <1>1, <1>3 DEF IsEntry, InOrder
<1>4. CASE wide /\ Takes(e)[1]
  <2>1. e.uncomp = U32 BY <1>4 DEF Takes
  <2>2. Taken(e, 1) = 1 /\ Taken(e, 3) \in Nat /\ Taken(e, 3) >= 1 BY <2>1, FirstTaken
  <2>3. DOMAIN e.extra # {} BY <1>4 DEF Field64
  <2>4. e.extraLen > 0 BY <2>3 DEF IsEntry
  <2>5. ~(Len(Vals64(e)) < Taken(e, 3)) BY <1>4, <2>4 DEF StatFails
  <2>6. Vals64(e) \in Seq(Nat) BY <1>4, Vals64Typed
  <2>7. Vals64(e)[1] \in Nat BY <2>2, <2>5, <2>6
  <2> QED BY <1>1, <1>4, <2>2, <2>7 DEF InOrder
<1> QED BY <1>2, <1>3, <1>4

(***************************************************************************)
(* One step of extractToStaging                                            *)
(***************************************************************************)
\* The inductive invariant
Inv == ReaderInv /\ PlaceInv /\ TreeInv /\ ContentInv /\ CountersInv

LEMMA InitHolds == Init => Inv
<1> SUFFICES ASSUME Init PROVE Inv OBVIOUS
<1>1. ReaderInv BY ReaderInitHolds
<1>2. DOMAIN staging = {} BY DEF Init
<1> QED
  BY <1>1, <1>2, LimitAssumption
  DEF Inv, Init, PlaceInv, TreeInv, ContentInv, CountersInv

\* failAndCleanStaging leaves nothing for the invariant to speak of.
LEMMA FailKeeps ==
  ASSUME Inv, FailAndClean
  PROVE  Inv'
<1>1. z'.total = z.total /\ z'.size = z.size /\ DOMAIN z' = ArchiveFields /\ z'.offsets \in Seq(Nat)
  BY EndInternalShape DEF FailAndClean, Inv, ReaderInv
<1>2. ReaderInv' BY <1>1 DEF FailAndClean, Inv, ReaderInv, Entries
<1>3. staging' = <<>> /\ DOMAIN staging' = {} BY DEF FailAndClean, RemoveRecursively
<1>4. PlaceInv' BY <1>3 DEF FailAndClean, Inv, PlaceInv
<1>5. TreeInv' BY <1>3 DEF TreeInv
<1>6. ContentInv' BY <1>3 DEF FailAndClean, ContentInv
<1>7. CountersInv' BY <1>1, <1>3 DEF FailAndClean, Inv, CountersInv
<1> QED BY <1>2, <1>4, <1>5, <1>6, <1>7 DEF Inv

\* static_cast<int> of the entry count is exact: a directory of at most
\* 2^32 - 1 bytes has no room for as many headers as an int cannot count.
LEMMA CastExact ==
  ASSUME NEW n \in Nat, n * CdhSize <= U32
  PROVE  AsInt(n) = n
<1>1. CdhSize \in Nat /\ CdhSize > 0 /\ IntMax \in Nat /\ U32 \in Nat /\ CdhSize * (IntMax + 1) > U32
  BY SizeAssumption, LimitAssumption
<1>2. n <= IntMax
  <2> SUFFICES ASSUME n >= IntMax + 1 PROVE FALSE BY <1>1
  <2>1. n * CdhSize >= (IntMax + 1) * CdhSize BY <1>1
  <2> QED BY <1>1, <2>1
<1> QED BY <1>2 DEF AsInt

LEMMA BeginKeeps ==
  ASSUME Inv, Begin PROVE Inv'
<1>1. ReaderInv' BY DEF Begin, Refuse, Inv, ReaderInv, readerVars, Entries
<1>2. DOMAIN staging = {} /\ staging' = staging BY DEF Begin, Refuse, Inv, PlaceInv
<1>3. PlaceInv' BY DEF Begin, Refuse, Inv, PlaceInv, readerVars
<1>4. TreeInv' BY <1>2 DEF TreeInv
<1>5. ContentInv' BY <1>2 DEF Begin, Refuse, ContentInv
<1>6. CountersInv' BY <1>2 DEF Begin, Refuse, Inv, CountersInv, PlaceInv
<1> QED BY <1>1, <1>3, <1>4, <1>5, <1>6 DEF Inv

LEMMA OpenKeeps ==
  ASSUME Inv, Open PROVE Inv'
<1>1. CASE FailAndClean BY <1>1, FailKeeps
<1>2. CASE ~FailAndClean
  <2>1. /\ ReaderNext /\ step = "open" /\ step' = (IF pc' = "ready" THEN "count" ELSE "open")
        /\ UNCHANGED <<idx, outOfs, entryBytes, totalBytes, staged, staging, outcome>>
    BY <1>2 DEF Open
  <2>2. ReaderInv' BY <2>1, ReaderStepHolds DEF Inv
  <2>3. idx = 0 /\ DOMAIN staging = {} BY <2>1 DEF Inv, PlaceInv
  <2>4. PlaceInv' BY <2>1, <2>3 DEF Inv, PlaceInv
  <2>5. TreeInv' BY <2>1, <2>3 DEF TreeInv
  <2>6. ContentInv' BY <2>1, <2>3 DEF ContentInv
  <2>7. CountersInv' BY <2>1, <2>3 DEF Inv, CountersInv
  <2> QED BY <2>2, <2>4, <2>5, <2>6, <2>7 DEF Inv
<1> QED BY <1>1, <1>2

LEMMA CountKeeps ==
  ASSUME Inv, Count PROVE Inv'
<1>1. CASE FailAndClean BY <1>1, FailKeeps
<1>2. CASE ~FailAndClean
  <2>1. /\ step = "count" /\ ~(AsInt(z.total) > MaxEntries)
        /\ idx' = 1 /\ step' = (IF z.total = 0 THEN "manifest" ELSE "entry")
        /\ UNCHANGED <<readerVars, staged, outcome>>
        /\ UNCHANGED <<outOfs, entryBytes, totalBytes, staging>>
    BY <1>2 DEF Count, Goes
  <2>2. ReaderInv' BY <2>1 DEF Inv, ReaderInv, readerVars, Entries
  <2>3. idx = 0 /\ DOMAIN staging = {} /\ z.total \in Nat /\ pc = "ready"
    BY <2>1 DEF Inv, PlaceInv, ReaderInv
  <2>4. z.total <= MaxEntries
    <3>1. AsInt(z.total) = z.total BY <2>3, CastExact DEF Inv, ReaderInv
    <3> QED BY <2>1, <2>3, <3>1, LimitAssumption
  <2>5. PlaceInv' BY <2>1, <2>3 DEF Inv, PlaceInv, readerVars
  <2>6. TreeInv' BY <2>1, <2>3 DEF TreeInv
  <2>7. ContentInv' BY <2>1, <2>3 DEF ContentInv
  <2>8. CountersInv' BY <2>1, <2>3, <2>4 DEF Inv, CountersInv, readerVars
  <2> QED BY <2>2, <2>5, <2>6, <2>7, <2>8 DEF Inv
<1> QED BY <1>1, <1>2

\* What writing into the tree does
LEMMA PutShape ==
  ASSUME NEW s, NEW P, NEW v
  PROVE  /\ DOMAIN Put(s, P, v) = DOMAIN s \cup P
         /\ \A p \in P : Put(s, P, v)[p] = v
         /\ \A p \in DOMAIN s : p \notin P => Put(s, P, v)[p] = s[p]
BY DEF Put

\* mkpath only adds directories.
LEMMA WithDirsShape ==
  ASSUME NEW s, NEW P
  PROVE  /\ DOMAIN WithDirs(s, P) = DOMAIN s \cup P
         /\ \A p \in DOMAIN s : WithDirs(s, P)[p] = s[p]
         /\ \A p \in P : p \notin DOMAIN s => WithDirs(s, P)[p] = Dir
<1> DEFINE Q == P \ DOMAIN s
<1>1. DOMAIN s \cup Q = DOMAIN s \cup P OBVIOUS
<1>2. \A p \in DOMAIN s : p \notin Q OBVIOUS
<1>3. \A p \in P : p \notin DOMAIN s => p \in Q OBVIOUS
<1>4. WithDirs(s, P) = Put(s, Q, Dir) BY DEF WithDirs
<1> HIDE DEF Q
<1>5. /\ DOMAIN Put(s, Q, Dir) = DOMAIN s \cup Q
      /\ \A p \in Q : Put(s, Q, Dir)[p] = Dir
      /\ \A p \in DOMAIN s : p \notin Q => Put(s, Q, Dir)[p] = s[p]
  BY DEF Put
<1> QED BY <1>1, <1>2, <1>3, <1>4, <1>5, Zenon

\* The directories above a path without ".." are paths without "..".
Plainly(p) == p \in Seq(STRING) /\ \A k \in 1..Len(p) : p[k] # ".."

LEMMA AbovePlain ==
  ASSUME NEW p, Plainly(p), NEW q \in Above(p)
  PROVE  Plainly(q) /\ q # p
<1>1. PICK k \in 1..(Len(p) - 1) : q = SubSeq(p, 1, k) BY DEF Above
<1>2. p \in Seq(STRING) /\ Len(p) \in Nat /\ k \in Nat /\ k < Len(p)
  BY <1>1 DEF Plainly
<1>3. q \in Seq(STRING) /\ Len(q) = k /\ \A j \in 1..k : q[j] = p[j]
  BY <1>1, <1>2
<1> QED BY <1>2, <1>3 DEF Plainly

LEMMA AllowedPlain ==
  ASSUME ReaderInv, idx \in 1..Len(Entries), EntryAllowed
  PROVE  /\ Plainly(Entry.segs) /\ ~Entry.rooted /\ ~Entry.drive /\ ~Entry.symlink
         /\ Stat(Entry).uncomp \in Nat
<1>1. IsEntry(Entry) BY EntryTyped DEF Entry
<1>2. Entry.segs \in Seq(STRING) BY <1>1 DEF IsEntry
<1>3. DOMAIN Entry.segs = 1..Len(Entry.segs) BY <1>2
<1>4. Stat(Entry).uncomp \in Nat BY <1>1, StatTyped DEF EntryAllowed
<1> QED BY <1>2, <1>3, <1>4 DEF EntryAllowed, IsSafeRelativePath, IsSymlinkEntry, Plainly

LEMMA NextKeeps ==
  ASSUME Inv, step \in {"entry", "local", "extract"}, NEW d, NextEntry(d), TreeInv',
         \A p \in DOMAIN staging' : staging'[p].kind = "file" => Checked(p)',
         \A p \in DOMAIN staging' : staging'[p].bytes <= MaxEntryBytes
  PROVE  Inv'
<1>1. /\ idx' = idx + 1 /\ outOfs' = 0 /\ entryBytes' = 0 /\ totalBytes' = totalBytes
      /\ step' = (IF idx = z.total THEN "manifest" ELSE "entry")
      /\ UNCHANGED <<disk, pc, z, ofs, left, staged, outcome>>
  BY DEF NextEntry, NextIdx, Goes, readerVars
<1>2. idx \in 1..z.total /\ z.total \in Nat /\ pc = "ready" BY DEF Inv, PlaceInv, ReaderInv
<1>3. ReaderInv' BY <1>1 DEF Inv, ReaderInv, Entries
<1>4. PlaceInv' BY <1>1, <1>2 DEF Inv, PlaceInv
<1>5. ContentInv' BY <1>1 DEF ContentInv
<1>6. CountersInv' BY <1>1, <1>2, LimitAssumption DEF Inv, CountersInv
<1> QED BY <1>3, <1>4, <1>5, <1>6 DEF Inv

\* A file that was done stays done when the next entry is a directory or
\* has another name.
LEMMA CheckedStays ==
  ASSUME Inv, idx \in Nat, NEW p \in DOMAIN staging, staging[p].kind = "file", Checked(p),
         p \in DOMAIN staging', staging'[p] = staging[p], idx' = idx + 1, disk' = disk,
         IsDirectory(Entry) \/ Entry.segs # p
  PROVE  Checked(p)'
<1>1. Entries' = Entries BY DEF Entries
<1>2. staging[p].of \in 1..(idx - 1) BY DEF Checked
<1>3. \A j \in (staging[p].of + 1)..(idx + 1 - 1) : IsDirectory(Entries[j]) \/ Entries[j].segs # p
  <2> SUFFICES ASSUME NEW j \in (staging[p].of + 1)..(idx + 1 - 1)
               PROVE  IsDirectory(Entries[j]) \/ Entries[j].segs # p
    OBVIOUS
  <2>1. CASE j = idx BY <2>1 DEF Entry
  <2>2. CASE j # idx
    <3>1. j \in (staging[p].of + 1)..(idx - 1) BY <1>2, <2>2
    <3> QED BY <3>1 DEF Checked
  <2> QED BY <2>1, <2>2
<1>4. staging[p].of \in 1..(idx + 1 - 1) BY <1>2
<1>5. /\ Entries[staging[p].of].segs = p
      /\ staging[p].bytes = Stat(Entries[staging[p].of]).uncomp
      /\ Stat(Entries[staging[p].of]).comp # 0 =>
           Entries[staging[p].of].crcMatches /\ ~Entries[staging[p].of].damaged
  BY DEF Checked
<1> QED BY <1>1, <1>3, <1>4, <1>5 DEF Checked

LEMMA AtEntry ==
  ASSUME Inv, step \in {"entry", "local", "extract"}
  PROVE  /\ idx \in Nat /\ idx \in 1..Len(Entries) /\ Len(Entries) \in Nat /\ pc = "ready"
BY LayoutAssumption DEF Inv, PlaceInv, ReaderInv, Entries

LEMMA CheckKeeps ==
  ASSUME Inv, CheckEntry PROVE Inv'
<1> DEFINE p == Entry.segs
           ups == Above(p)
<1>1. step = "entry" BY DEF CheckEntry
<1>2. /\ idx \in Nat /\ idx \in 1..Len(Entries) /\ Len(Entries) \in Nat /\ pc = "ready"
  BY <1>1, AtEntry
<1>3. CASE FailAndClean BY <1>3, FailKeeps
<1>4. ASSUME EntryAllowed PROVE Plainly(p) /\ ~Entry.rooted /\ ~Entry.drive /\ ~Entry.symlink
  BY <1>2, <1>4, AllowedPlain DEF Inv
<1>5. ASSUME EntryAllowed, NEW q \in ups PROVE Plainly(q) /\ q # p BY <1>4, <1>5, AbovePlain
<1>6. \A q \in DOMAIN staging : staging[q].kind = "file" => Checked(q)
  BY <1>1 DEF Inv, ContentInv
<1>7. Dir \in Staged /\ Dir.kind # "file" /\ Dir.bytes = 0 BY DEF Dir, Staged
<1>8. CASE EntryAllowed /\ IsDirectory(Entry) /\ NextEntry(WithDirs(staging, ups \cup {p}))
  <2> DEFINE P == ups \cup {p}
  <2>1. staging' = WithDirs(staging, P) /\ idx' = idx + 1 /\ disk' = disk
    BY <1>8 DEF NextEntry, NextIdx, Goes, readerVars
  <2> HIDE DEF P
  <2>2. /\ DOMAIN staging' = DOMAIN staging \cup P
        /\ \A q \in DOMAIN staging : staging'[q] = staging[q]
        /\ \A q \in P : q \notin DOMAIN staging => staging'[q] = Dir
    BY <2>1, WithDirsShape
  <2>3. \A q \in P : Plainly(q) BY <1>4, <1>5, <1>8 DEF P
  <2>4. TreeInv'
    <3> SUFFICES ASSUME NEW q \in DOMAIN staging'
                 PROVE  /\ Plainly(q) /\ staging'[q] \in Staged
                        /\ staging'[q].kind = "file" =>
                             /\ staging'[q].of \in 1..Len(Entries)
                             /\ LET e == Entries[staging'[q].of] IN ~e.rooted /\ ~e.drive /\ ~e.symlink
      BY <2>1 DEF TreeInv, Plainly, Entries
    <3>1. CASE q \in DOMAIN staging BY <2>2, <3>1 DEF Inv, TreeInv, Plainly
    <3>2. CASE q \notin DOMAIN staging BY <1>7, <2>2, <2>3, <3>2
    <3> QED BY <3>1, <3>2
  <2>5. ASSUME NEW q \in DOMAIN staging', staging'[q].kind = "file" PROVE Checked(q)'
    <3>1. q \in DOMAIN staging BY <1>7, <2>2, <2>5
    <3>2. staging'[q] = staging[q] /\ staging[q].kind = "file" /\ Checked(q) BY <1>6, <2>2, <2>5, <3>1
    <3> QED BY <1>2, <1>8, <2>1, <2>5, <3>1, <3>2, CheckedStays
  <2>6. ASSUME NEW q \in DOMAIN staging' PROVE staging'[q].bytes <= MaxEntryBytes
    BY <1>7, <2>2, LimitAssumption DEF Inv, CountersInv
  <2> QED BY <1>1, <1>8, <2>4, <2>5, <2>6, NextKeeps
<1>9. CASE /\ EntryAllowed /\ ~IsDirectory(Entry)
           /\ staging' = Put(WithDirs(staging, ups), {p}, [kind |-> "file", of |-> idx, bytes |-> 0])
           /\ outOfs' = 0 /\ entryBytes' = 0
           /\ Goes("local")
           /\ UNCHANGED <<idx, totalBytes>>
  <2> DEFINE new == [kind |-> "file", of |-> idx, bytes |-> 0]
             s == WithDirs(staging, ups)
  <2>1. /\ DOMAIN s = DOMAIN staging \cup ups
        /\ \A q \in DOMAIN staging : s[q] = staging[q]
        /\ \A q \in ups : q \notin DOMAIN staging => s[q] = Dir
    BY WithDirsShape
  <2>2. /\ DOMAIN staging' = DOMAIN s \cup {p} /\ staging'[p] = new
        /\ \A q \in DOMAIN s : q # p => staging'[q] = s[q]
    BY <1>9 DEF Put
  <2>3. /\ step' = "local" /\ outOfs' = 0 /\ entryBytes' = 0
        /\ UNCHANGED <<disk, pc, z, ofs, left, staged, outcome, idx, totalBytes>>
    BY <1>9 DEF Goes, readerVars
  <2>4. new \in Staged /\ new.of = idx /\ new.bytes = 0 BY <1>2 DEF Staged
  <2> HIDE DEF new, s
  <2>5. Entry' = Entry /\ Entries' = Entries BY <2>3 DEF Entry, Entries
  <2>6. ReaderInv' BY <2>3 DEF Inv, ReaderInv, Entries
  <2>7. PlaceInv' BY <1>1, <1>2, <2>3 DEF Inv, PlaceInv
  <2>8. TreeInv'
    <3> SUFFICES ASSUME NEW q \in DOMAIN staging'
                 PROVE  /\ Plainly(q) /\ staging'[q] \in Staged
                        /\ staging'[q].kind = "file" =>
                             /\ staging'[q].of \in 1..Len(Entries)
                             /\ LET e == Entries[staging'[q].of] IN ~e.rooted /\ ~e.drive /\ ~e.symlink
      BY <2>5 DEF TreeInv, Plainly
    <3>1. CASE q = p
      BY <1>2, <1>4, <1>9, <2>2, <2>4, <3>1 DEF Entry
    <3>2. CASE q # p /\ q \in DOMAIN staging BY <2>1, <2>2, <3>2 DEF Inv, TreeInv, Plainly
    <3>3. CASE q # p /\ q \notin DOMAIN staging BY <1>5, <1>7, <1>9, <2>1, <2>2, <3>3, ZenonT(60)
    <3> QED BY <3>1, <3>2, <3>3
  <2>9. ContentInv'
    <3>1. EntryAllowed' BY <1>9, <2>3, <2>5 DEF EntryAllowed
    <3>2. ASSUME NEW q \in DOMAIN staging', staging'[q].kind = "file", q # p PROVE Checked(q)'
      <4>1. q \in DOMAIN staging /\ staging'[q] = staging[q] BY <1>7, <2>1, <2>2, <3>2
      <4>2. Checked(q) BY <1>6, <3>2, <4>1
      <4> QED BY <2>3, <2>5, <4>1, <4>2 DEF Checked
    <3> QED BY <1>9, <2>2, <2>3, <2>5, <3>1, <3>2 DEF ContentInv, new
  <2>10. CountersInv'
    <3>1. ASSUME NEW q \in DOMAIN staging' PROVE staging'[q].bytes <= MaxEntryBytes
      BY <1>7, <2>1, <2>2, <2>4, LimitAssumption DEF Inv, CountersInv
    <3> QED BY <2>3, <3>1, LimitAssumption DEF Inv, CountersInv
  <2> QED BY <2>6, <2>7, <2>8, <2>9, <2>10 DEF Inv
<1> QED BY <1>3, <1>8, <1>9 DEF CheckEntry

\* When the current entry's file is done, all of them are.
LEMMA DoneKeeps ==
  ASSUME Inv, step \in {"local", "extract"}, NextEntry(staging),
         outOfs = Stat(Entry).uncomp, Stat(Entry).comp # 0 => Entry.crcMatches /\ ~Entry.damaged
  PROVE  Inv'
<1> DEFINE p == Entry.segs
<1>1. /\ idx \in Nat /\ idx \in 1..Len(Entries) /\ Len(Entries) \in Nat /\ pc = "ready" BY AtEntry
<1>2. staging' = staging /\ idx' = idx + 1 /\ disk' = disk
  BY DEF NextEntry, NextIdx, Goes, readerVars
<1>3. /\ p \in DOMAIN staging /\ staging[p] = [kind |-> "file", of |-> idx, bytes |-> outOfs]
      /\ \A q \in DOMAIN staging : (staging[q].kind = "file" /\ q # p) => Checked(q)
  BY DEF Inv, ContentInv
<1>4. Entries' = Entries BY <1>2 DEF Entries
<1>5. TreeInv' BY <1>2, <1>4 DEF Inv, TreeInv
<1>6. ASSUME NEW q \in DOMAIN staging', staging'[q].kind = "file" PROVE Checked(q)'
  <2>1. CASE q = p
    <3>1. staging'[q].of = idx /\ staging'[q].bytes = outOfs BY <1>2, <1>3, <2>1
    <3>2. Entries[idx] = Entry BY DEF Entry
    <3>3. \A j \in (idx + 1)..(idx + 1 - 1) : FALSE BY <1>1
    <3>4. idx \in 1..(idx + 1 - 1) BY <1>1
    <3> HIDE DEF p
    <3> QED BY <1>2, <1>4, <2>1, <3>1, <3>2, <3>3, <3>4 DEF Checked, p
  <2>2. CASE q # p
    BY <1>1, <1>2, <1>3, <1>6, <2>2, CheckedStays
  <2> QED BY <2>1, <2>2
<1>7. ASSUME NEW q \in DOMAIN staging' PROVE staging'[q].bytes <= MaxEntryBytes
  BY <1>2 DEF Inv, CountersInv
<1> QED BY <1>5, <1>6, <1>7, NextKeeps

LEMMA LocalKeeps ==
  ASSUME Inv, LocalHeader PROVE Inv'
<1>1. step = "local" BY DEF LocalHeader
<1>2. /\ idx \in Nat /\ idx \in 1..Len(Entries) /\ Len(Entries) \in Nat /\ pc = "ready" BY <1>1, AtEntry
<1>3. outOfs = 0 /\ EntryAllowed BY <1>1 DEF Inv, ContentInv
<1>4. Stat(Entry).uncomp \in Nat BY <1>2, <1>3, AllowedPlain DEF Inv
<1>5. CASE FailAndClean BY <1>5, FailKeeps
<1>6. CASE Stat(Entry).comp = 0 /\ NextEntry(staging)
  <2>1. Stat(Entry).uncomp = 0 BY <1>3, <1>4, <1>6 DEF EntryAllowed, SizesPlausible
  <2> QED BY <1>1, <1>3, <1>6, <2>1, DoneKeeps
<1>7. CASE Stat(Entry).comp # 0 /\ Goes("extract") /\ UNCHANGED <<idx, outOfs, entryBytes, totalBytes, staging>>
  <2>1. step' = "extract" /\ UNCHANGED <<disk, pc, z, ofs, left, staged, outcome, idx, outOfs, entryBytes, totalBytes, staging>>
    BY <1>7 DEF Goes, readerVars
  <2>2. Entry' = Entry /\ Entries' = Entries BY <2>1 DEF Entry, Entries
  <2>3. ReaderInv' BY <2>1 DEF Inv, ReaderInv, Entries
  <2>4. PlaceInv' BY <1>1, <2>1 DEF Inv, PlaceInv
  <2>5. TreeInv' BY <2>1, <2>2 DEF Inv, TreeInv
  <2>6. ContentInv' BY <1>1, <1>7, <2>1, <2>2 DEF Inv, ContentInv, EntryAllowed, Checked
  <2>7. CountersInv' BY <1>1, <2>1 DEF Inv, CountersInv
  <2> QED BY <2>3, <2>4, <2>5, <2>6, <2>7 DEF Inv
<1> QED BY <1>5, <1>6, <1>7 DEF LocalHeader

LEMMA ExtractKeeps ==
  ASSUME Inv, NEW n \in 1..Piece, Extract(n) PROVE Inv'
<1> DEFINE p == Entry.segs
<1>1. step = "extract" BY DEF Extract
<1>2. /\ idx \in Nat /\ idx \in 1..Len(Entries) /\ Len(Entries) \in Nat /\ pc = "ready" BY <1>1, AtEntry
<1>3. CASE FailAndClean BY <1>3, FailKeeps
<1>4. CASE ~FailAndClean
  <2>1. /\ WithinLimits(entryBytes + n, totalBytes + n)
        /\ outOfs' = outOfs + n /\ entryBytes' = entryBytes + n /\ totalBytes' = totalBytes + n
        /\ staging' = [staging EXCEPT ![p].bytes = @ + n]
        /\ step' = "extract"
        /\ UNCHANGED <<disk, pc, z, ofs, left, staged, outcome, idx>>
    BY <1>4 DEF Extract, Goes, readerVars
  <2>2. n \in Nat /\ entryBytes + n <= MaxEntryBytes /\ totalBytes + n <= MaxTotalBytes
    BY <2>1, LimitAssumption DEF WithinLimits
  <2>3. /\ p \in DOMAIN staging /\ staging[p] = [kind |-> "file", of |-> idx, bytes |-> outOfs]
        /\ \A q \in DOMAIN staging : (staging[q].kind = "file" /\ q # p) => Checked(q)
        /\ entryBytes = outOfs /\ entryBytes \in Nat /\ totalBytes \in Nat
    BY <1>1 DEF Inv, ContentInv, CountersInv, PlaceInv
  <2>4. /\ DOMAIN staging' = DOMAIN staging
        /\ staging'[p] = [kind |-> "file", of |-> idx, bytes |-> outOfs + n]
        /\ \A q \in DOMAIN staging : q # p => staging'[q] = staging[q]
    BY <2>1, <2>3
  <2>5. Entry' = Entry /\ Entries' = Entries BY <2>1 DEF Entry, Entries
  <2> HIDE DEF p
  <2>6. ReaderInv' BY <2>1 DEF Inv, ReaderInv, Entries
  <2>7. PlaceInv' BY <1>1, <2>1, <2>2, <2>3 DEF Inv, PlaceInv
  <2>8. TreeInv'
    <3> SUFFICES ASSUME NEW q \in DOMAIN staging'
                 PROVE  /\ Plainly(q) /\ staging'[q] \in Staged
                        /\ staging'[q].kind = "file" =>
                             /\ staging'[q].of \in 1..Len(Entries)
                             /\ LET e == Entries[staging'[q].of] IN ~e.rooted /\ ~e.drive /\ ~e.symlink
      BY <2>5 DEF TreeInv, Plainly
    <3>1. /\ Plainly(q) /\ staging[q] \in Staged
          /\ staging[q].kind = "file" =>
               /\ staging[q].of \in 1..Len(Entries)
               /\ LET e == Entries[staging[q].of] IN ~e.rooted /\ ~e.drive /\ ~e.symlink
      BY <2>4 DEF Inv, TreeInv, Plainly
    <3>2. CASE q # p BY <2>4, <3>1, <3>2
    <3>3. CASE q = p
      <4>1. outOfs + n \in Nat BY <2>2, <2>3
      <4>2. staging'[q] \in Staged BY <1>2, <2>4, <3>3, <4>1 DEF Staged
      <4>3. staging'[q].of = staging[q].of /\ staging'[q].kind = staging[q].kind BY <2>3, <2>4, <3>3
      <4> QED BY <3>1, <4>2, <4>3
    <3> QED BY <3>2, <3>3
  <2>9. ContentInv'
    <3>1. EntryAllowed' BY <1>1, <2>1, <2>5 DEF EntryAllowed, Inv, ContentInv
    <3>2. ASSUME NEW q \in DOMAIN staging', staging'[q].kind = "file", q # p PROVE Checked(q)'
      <4>1. q \in DOMAIN staging /\ staging'[q] = staging[q] BY <2>4, <3>2
      <4>2. Checked(q) BY <2>3, <3>2, <4>1
      <4> QED BY <2>1, <2>5, <4>1, <4>2 DEF Checked
    <3>3. Stat(Entry).comp # 0 /\ ~IsDirectory(Entry) BY <1>1 DEF Inv, ContentInv
    <3> QED BY <2>1, <2>3, <2>4, <2>5, <3>1, <3>2, <3>3 DEF ContentInv, p
  <2>10. CountersInv'
    <3>1. ASSUME NEW q \in DOMAIN staging' PROVE staging'[q].bytes <= MaxEntryBytes
      BY <2>2, <2>3, <2>4 DEF Inv, CountersInv
    <3> QED BY <2>1, <2>2, <2>3, <3>1 DEF Inv, CountersInv
  <2> QED BY <2>6, <2>7, <2>8, <2>9, <2>10 DEF Inv
<1> QED BY <1>3, <1>4

LEMMA DoneOrFailedKeeps ==
  ASSUME Inv, EntryDone PROVE Inv'
<1>1. CASE FailAndClean BY <1>1, FailKeeps
<1>2. CASE ~FailAndClean
  <2>1. step = "extract" /\ ~Entry.damaged /\ ContentMatches /\ NextEntry(staging)
    BY <1>2 DEF EntryDone
  <2> QED BY <2>1, DoneKeeps DEF ContentMatches
<1> QED BY <1>1, <1>2

LEMMA ManifestKeeps ==
  ASSUME Inv, Manifest PROVE Inv'
<1>1. CASE FailAndClean BY <1>1, FailKeeps
<1>2. CASE ~FailAndClean
  <2>1. /\ step = "manifest" /\ outcome' = "staged" /\ step' = "returned"
        /\ z' = EndInternal /\ pc' = "ended"
        /\ UNCHANGED <<disk, ofs, left, idx, outOfs, entryBytes, totalBytes, staged, staging>>
    BY <1>2 DEF Manifest
  <2>2. pc = "ready" /\ idx = z.total + 1 BY <2>1 DEF Inv, PlaceInv
  <2>3. z'.total = z.total /\ z'.size = z.size /\ DOMAIN z' = ArchiveFields /\ z'.offsets \in Seq(Nat)
    BY <2>1, EndInternalShape DEF Inv
  <2>4. Entries' = Entries BY <2>1 DEF Entries
  <2>5. ReaderInv' BY <2>1, <2>2, <2>3 DEF Inv, ReaderInv, Entries
  <2>6. PlaceInv' BY <2>1, <2>2, <2>3 DEF Inv, PlaceInv
  <2>7. TreeInv' BY <2>1, <2>4 DEF Inv, TreeInv
  <2>8. ContentInv' BY <2>1, <2>4 DEF Inv, ContentInv, Checked
  <2>9. CountersInv' BY <2>1, <2>3 DEF Inv, CountersInv
  <2> QED BY <2>5, <2>6, <2>7, <2>8, <2>9 DEF Inv
<1> QED BY <1>1, <1>2

LEMMA StutterKeeps ==
  ASSUME Inv, UNCHANGED vars PROVE Inv'
<1>1. UNCHANGED <<disk, pc, z, ofs, left>>
      /\ UNCHANGED <<step, idx, outOfs, entryBytes, totalBytes, staged, staging, outcome>>
  BY DEF vars, readerVars, stageVars
<1>2. Entry' = Entry /\ Entries' = Entries BY <1>1 DEF Entry, Entries
<1>3. ReaderInv' BY <1>1 DEF Inv, ReaderInv, Entries
<1>4. PlaceInv' BY <1>1 DEF Inv, PlaceInv
<1>5. TreeInv' BY <1>1, <1>2 DEF Inv, TreeInv
<1>6. ContentInv' BY <1>1, <1>2 DEF Inv, ContentInv, EntryAllowed, Checked
<1>7. CountersInv' BY <1>1 DEF Inv, CountersInv
<1> QED BY <1>3, <1>4, <1>5, <1>6, <1>7 DEF Inv

LEMMA InvInvariant == Spec => []Inv
<1>1. Inv /\ [Next]_vars => Inv'
  <2> SUFFICES ASSUME Inv, [Next]_vars PROVE Inv' OBVIOUS
  <2>1. CASE Begin BY <2>1, BeginKeeps
  <2>2. CASE Open BY <2>2, OpenKeeps
  <2>3. CASE Count BY <2>3, CountKeeps
  <2>4. CASE CheckEntry BY <2>4, CheckKeeps
  <2>5. CASE LocalHeader BY <2>5, LocalKeeps
  <2>6. ASSUME NEW n \in 1..Piece, Extract(n) PROVE Inv' BY <2>6, ExtractKeeps
  <2>7. CASE ExtractFails BY <2>7, FailKeeps DEF ExtractFails
  <2>8. CASE EntryDone BY <2>8, DoneOrFailedKeeps
  <2>9. CASE Manifest BY <2>9, ManifestKeeps
  <2>10. CASE UNCHANGED vars BY <2>10, StutterKeeps
  <2> QED BY <2>1, <2>2, <2>3, <2>4, <2>5, <2>6, <2>7, <2>8, <2>9, <2>10 DEF Next
<1> QED BY <1>1, InitHolds, PTL DEF Spec

\* A staged archive is the archive: every file that extractToStaging leaves
\* in a directory it hands on has passed the size and CRC checks of
\* mz_zip_reader_extract_to_callback, and no later entry has its name.
THEOREM StagedIsArchive == Spec => []StagedIsTheArchive
<1>1. Inv => StagedIsTheArchive
  <2> SUFFICES ASSUME Inv, outcome = "staged", NEW p \in Unpacked, staging[p].kind = "file"
               PROVE  LET e == Entries[staging[p].of] IN
                        /\ e.segs = p
                        /\ staging[p].bytes = Stat(e).uncomp
                        /\ Stat(e).comp # 0 => e.crcMatches /\ ~e.damaged
                        /\ \A j \in (staging[p].of + 1)..(idx - 1) : IsDirectory(Entries[j]) \/ Entries[j].segs # p
    BY DEF StagedIsTheArchive
  <2>1. step = "returned" BY DEF Inv, PlaceInv
  <2>2. Checked(p) BY <2>1 DEF Inv, ContentInv, Unpacked
  <2> QED BY <2>2 DEF Checked
<1> QED BY <1>1, InvInvariant, PTL

(***************************************************************************)
(* Inside the staging directory                                            *)
(***************************************************************************)
\* Followed segment by segment a path without ".." only descends.
LEMMA PlainDescends ==
  ASSUME NEW p, Plainly(p)
  PROVE  \A d \in Depth(p) : d >= 0
<1> DEFINE Step(f, k) == IF k = 0 THEN 0 ELSE f[k - 1] + (IF p[k] = ".." THEN -1 ELSE 1)
           Rec(f) == f = [k \in 0..Len(p) |-> Step(f, k)]
           D == CHOOSE f : Rec(f)
           id == [k \in 0..Len(p) |-> k]
<1>1. Len(p) \in Nat /\ \A k \in 1..Len(p) : p[k] # ".." BY DEF Plainly
<1>2. Rec(id)
  <2>1. \A k \in 0..Len(p) : Step(id, k) = k BY <1>1
  <2> QED BY <2>1
<1>3. Rec(D) BY <1>2
<1>4. Depth(p) = {D[k] : k \in 0..Len(p)} BY DEF Depth
<1>5. \A k \in 0..Len(p) : D[k] = Step(D, k)
  <2> HIDE DEF D
  <2> QED BY <1>3
<1> HIDE DEF D
<1> DEFINE Bad == {k \in 0..Len(p) : ~(D[k] \in Nat)}
<1>6. Bad = {}
  <2> SUFFICES ASSUME Bad # {} PROVE FALSE OBVIOUS
  <2>0. Bad \in SUBSET Nat BY <1>1
  <2>1. PICK k \in Bad : \A j \in Bad : k <= j
    <3> HIDE DEF Bad
    <3> QED BY <2>0, LeastExists
  <2>2. k # 0 BY <1>1, <1>5
  <2>3. D[k - 1] \in Nat BY <1>1, <2>1, <2>2
  <2>4. D[k] = D[k - 1] + 1 BY <1>1, <1>5, <2>2
  <2> QED BY <2>3, <2>4
<1> QED BY <1>4, <1>6

\* Nothing extractToStaging writes lies outside the staging directory:
\* isSafeRelativePath and isSymlinkEntry refuse, before anything is
\* created, every name that would lead there.
THEOREM WritesStayInside == Spec => []StaysInside
<1>1. Inv => StaysInside
  <2> SUFFICES ASSUME Inv, NEW p \in Unpacked
               PROVE  /\ \A d \in Depth(p) : d >= 0
                      /\ LET e == Entries[staging[p].of] IN
                           staging[p].kind = "file" => ~e.rooted /\ ~e.drive /\ ~e.symlink
    BY DEF StaysInside
  <2>1. Plainly(p) BY DEF Inv, TreeInv, Plainly, Unpacked
  <2>2. \A d \in Depth(p) : d >= 0 BY <2>1, PlainDescends
  <2>3. LET e == Entries[staging[p].of] IN
          staging[p].kind = "file" => ~e.rooted /\ ~e.drive /\ ~e.symlink
    BY DEF Inv, TreeInv, Unpacked
  <2> QED BY <2>2, <2>3
<1> QED BY <1>1, InvInvariant, PTL

(***************************************************************************)
(* Sums over finite sets                                                   *)
(***************************************************************************)
\* Induction over the subsets of a finite set: among the sets for which a
\* claim fails is one that it holds for without any one of its elements.
LEMMA SmallestSet ==
  ASSUME NEW S, IsFiniteSet(S), NEW B \in SUBSET (SUBSET S), B # {}
  PROVE  \E s \in B : \A x \in s : s \ {x} \notin B
<1> DEFINE sizes == {Cardinality(s) : s \in B}
<1>1. \A s \in B : IsFiniteSet(s) /\ Cardinality(s) \in Nat BY FS_Subset, FS_CardinalityType
<1>2. sizes \in SUBSET Nat /\ sizes # {} BY <1>1
<1>3. PICK k \in sizes : \A j \in sizes : k <= j
  <2> HIDE DEF sizes
  <2> QED BY <1>2, LeastExists
<1>4. PICK s \in B : k = Cardinality(s) BY <1>3
<1>5. ASSUME NEW x \in s, s \ {x} \in B PROVE FALSE
  <2>1. Cardinality(s \ {x}) = Cardinality(s) - 1 BY <1>1, <1>5, FS_RemoveElement
  <2>2. Cardinality(s \ {x}) \in sizes BY <1>5
  <2>3. k <= Cardinality(s \ {x})
    <3> HIDE DEF sizes
    <3> QED BY <1>3, <2>2
  <2> QED BY <1>1, <1>4, <2>1, <2>3
<1> QED BY <1>5

\* MapThenSumSet takes a set's elements in the order of CHOOSE.
First(s) == CHOOSE x \in s : TRUE
SumStep(it, g, s) == IF s = {} THEN 0 ELSE g[First(s)] + it[s \ {First(s)}]
IsSum(it, g, S) == it = [s \in SUBSET S |-> SumStep(it, g, s)]

LEMMA IsSumAt ==
  ASSUME NEW it, NEW g, NEW S, IsSum(it, g, S), NEW s \in SUBSET S
  PROVE  /\ s = {} => it[s] = 0
         /\ s # {} => /\ First(s) \in s
                      /\ it[s] = g[First(s)] + it[s \ {First(s)}]
<1>1. it[s] = SumStep(it, g, s) BY DEF IsSum
<1>2. s # {} => First(s) \in s BY DEF First
<1> QED BY <1>1, <1>2 DEF SumStep

LEMMA SumTyped ==
  ASSUME NEW it, NEW g, NEW S, IsFiniteSet(S), IsSum(it, g, S), \A x \in S : g[x] \in Nat
  PROVE  \A s \in SUBSET S : it[s] \in Nat
<1> DEFINE B == {s \in SUBSET S : it[s] \notin Nat}
<1> SUFFICES ASSUME B # {} PROVE FALSE OBVIOUS
<1>1. B \in SUBSET (SUBSET S) OBVIOUS
<1>2. PICK s \in B : \A x \in s : s \ {x} \notin B
  <2> HIDE DEF B
  <2> QED BY <1>1, SmallestSet
<1>3. s \in SUBSET S /\ it[s] \notin Nat OBVIOUS
<1>4. s # {}
  <2>1. s = {} => it[s] = 0 BY <1>3, IsSumAt
  <2> QED BY <1>3, <2>1
<1>5. First(s) \in s /\ it[s] = g[First(s)] + it[s \ {First(s)}] BY <1>3, <1>4, IsSumAt
<1>6. it[s \ {First(s)}] \in Nat BY <1>2, <1>3, <1>5
<1> QED BY <1>3, <1>5, <1>6

\* The order does not matter: any element may be taken first.
LEMMA SumRemove ==
  ASSUME NEW it, NEW g, NEW S, IsFiniteSet(S), IsSum(it, g, S), \A x \in S : g[x] \in Nat,
         NEW t \in SUBSET S, NEW y \in t
  PROVE  it[t] = g[y] + it[t \ {y}]
<1> DEFINE B == {s \in SUBSET S : ~(\A x \in s : it[s] = g[x] + it[s \ {x}])}
<1> SUFFICES ASSUME B # {} PROVE FALSE OBVIOUS
<1>1. B \in SUBSET (SUBSET S) OBVIOUS
<1>2. PICK s \in B : \A x \in s : s \ {x} \notin B
  <2> HIDE DEF B
  <2> QED BY <1>1, SmallestSet
<1>3. s \in SUBSET S /\ \E x \in s : it[s] # g[x] + it[s \ {x}] OBVIOUS
<1>4. PICK x \in s : it[s] # g[x] + it[s \ {x}] BY <1>3
<1> DEFINE c == First(s)
<1>5. c \in s /\ it[s] = g[c] + it[s \ {c}] BY <1>3, <1>4, IsSumAt
<1> HIDE DEF c
<1>6. c # x BY <1>4, <1>5
<1>7. s \ {c} \notin B /\ s \ {x} \notin B
  <2> HIDE DEF B
  <2> QED BY <1>2, <1>4, <1>5
<1>8. s \ {c} \in SUBSET S /\ s \ {x} \in SUBSET S /\ x \in s \ {c} /\ c \in s \ {x}
  BY <1>3, <1>4, <1>5, <1>6
<1>9. it[s \ {c}] = g[x] + it[(s \ {c}) \ {x}] BY <1>7, <1>8
<1>10. it[s \ {x}] = g[c] + it[(s \ {x}) \ {c}] BY <1>7, <1>8
<1>11. (s \ {c}) \ {x} = (s \ {x}) \ {c} /\ (s \ {c}) \ {x} \in SUBSET S BY <1>8
<1>12. it[(s \ {c}) \ {x}] \in Nat BY <1>11, SumTyped
<1>13. g[x] \in Nat /\ g[c] \in Nat BY <1>3, <1>4, <1>5
<1>14. PICK r \in Nat : r = it[(s \ {c}) \ {x}] /\ r = it[(s \ {x}) \ {c}] BY <1>11, <1>12
<1>15. it[s \ {c}] = g[x] + r /\ it[s \ {x}] = g[c] + r BY <1>9, <1>10, <1>14
<1>16. it[s] = g[c] + (g[x] + r) BY <1>5, <1>15
<1>17. g[c] + (g[x] + r) = g[x] + (g[c] + r) BY <1>13
<1> QED BY <1>4, <1>15, <1>16, <1>17

\* Sums grow with what is summed.
LEMMA SumBounded ==
  ASSUME NEW S, IsFiniteSet(S), NEW a, NEW g, IsSum(a, g, S), NEW b, NEW h, IsSum(b, h, S),
         \A x \in S : g[x] \in Nat /\ h[x] \in Nat,
         NEW p, NEW n \in Nat, \A x \in S : h[x] <= g[x] + (IF x = p THEN n ELSE 0)
  PROVE  b[S] <= a[S] + n
<1> DEFINE extra(s) == IF p \in s THEN n ELSE 0
           B == {s \in SUBSET S : ~(b[s] <= a[s] + extra(s))}
<1>1. B = {}
  <2> SUFFICES ASSUME B # {} PROVE FALSE OBVIOUS
  <2>1. B \in SUBSET (SUBSET S) OBVIOUS
  <2>2. PICK s \in B : \A x \in s : s \ {x} \notin B
    <3> HIDE DEF B
    <3> QED BY <2>1, SmallestSet
  <2>3. s \in SUBSET S /\ ~(b[s] <= a[s] + extra(s)) OBVIOUS
  <2>4. s # {}
    <3> SUFFICES ASSUME s = {} PROVE FALSE OBVIOUS
    <3>1. a[s] = 0 /\ b[s] = 0 /\ extra(s) = 0 BY <2>3, IsSumAt
    <3> QED BY <2>3, <3>1
  <2> DEFINE c == First(s)
  <2>5. /\ c \in s /\ a[s] = g[c] + a[s \ {c}] /\ b[s] = h[c] + b[s \ {c}]
    BY <2>3, <2>4, IsSumAt
  <2> HIDE DEF c
  <2>6. s \ {c} \in SUBSET S /\ s \ {c} \notin B BY <2>2, <2>3, <2>5
  <2>7. b[s \ {c}] <= a[s \ {c}] + extra(s \ {c}) BY <2>6
  <2>8. a[s \ {c}] \in Nat /\ b[s \ {c}] \in Nat BY <2>6, SumTyped
  <2>9. g[c] \in Nat /\ h[c] \in Nat /\ h[c] <= g[c] + (IF c = p THEN n ELSE 0) BY <2>3, <2>5
  <2>10. (IF c = p THEN n ELSE 0) + extra(s \ {c}) = extra(s) BY <2>5
  <2>11. extra(s \ {c}) \in Nat /\ extra(s) \in Nat OBVIOUS
  <2> HIDE DEF extra, B
  <2>12. CASE c = p BY <2>3, <2>5, <2>7, <2>8, <2>9, <2>10, <2>11, <2>12
  <2>13. CASE c # p BY <2>3, <2>5, <2>7, <2>8, <2>9, <2>10, <2>11, <2>13
  <2> QED BY <2>12, <2>13
<1>2. b[S] <= a[S] + extra(S) BY <1>1
<1>3. a[S] \in Nat /\ b[S] \in Nat BY SumTyped
<1> QED BY <1>2, <1>3

LEMMA SumExists ==
  ASSUME NEW S, IsFiniteSet(S), NEW g
  PROVE  \E it : IsSum(it, g, S)
<1> DEFINE Sub(n) == {s \in SUBSET S : Cardinality(s) <= n}
           Rec(it, n) == it = [s \in Sub(n) |-> SumStep(it, g, s)]
           Bad == {n \in Nat : ~(\E it : Rec(it, n))}
<1>1. \A s \in SUBSET S : /\ IsFiniteSet(s) /\ Cardinality(s) \in Nat
                          /\ Cardinality(s) <= Cardinality(S)
                          /\ Cardinality(s) = 0 <=> s = {}
  BY FS_Subset, FS_CardinalityType, FS_EmptySet
<1>2. Bad = {}
  <2> SUFFICES ASSUME Bad # {} PROVE FALSE OBVIOUS
  <2>1. Bad \in SUBSET Nat OBVIOUS
  <2>2. PICK k \in Bad : \A j \in Bad : k <= j
    <3> HIDE DEF Bad
    <3> QED BY <2>1, LeastExists
  <2>3. k \in Nat /\ ~(\E it : Rec(it, k)) OBVIOUS
  <2>4. k # 0
    <3> SUFFICES ASSUME k = 0 PROVE FALSE OBVIOUS
    <3> DEFINE zero == [s \in Sub(k) |-> 0]
    <3>1. \A s \in Sub(k) : s = {} BY <1>1
    <3>2. \A s \in Sub(k) : SumStep(zero, g, s) = 0 BY <3>1 DEF SumStep
    <3> HIDE DEF Sub
    <3>3. Rec(zero, k) BY <3>2
    <3> QED BY <2>3, <3>3
  <2>5. k - 1 \in Nat /\ k - 1 \notin Bad
    <3> HIDE DEF Bad
    <3> QED BY <2>2, <2>3, <2>4
  <2>6. PICK h : Rec(h, k - 1) BY <2>5
  <2> DEFINE it == [s \in Sub(k) |-> SumStep(h, g, s)]
  <2>7. \A s \in Sub(k - 1) : h[s] = SumStep(h, g, s) BY <2>6
  <2>8. ASSUME NEW s \in Sub(k) PROVE SumStep(it, g, s) = SumStep(h, g, s)
    <3>1. CASE s = {} BY <3>1 DEF SumStep
    <3>2. CASE s # {}
      <4> DEFINE c == First(s)
                 t == s \ {c}
      <4>1. c \in s BY <3>2 DEF First
      <4>2. s \in SUBSET S /\ Cardinality(s) <= k /\ t \in SUBSET S BY <2>8
      <4>3. Cardinality(t) = Cardinality(s) - 1
        <5> HIDE DEF c
        <5> QED BY <1>1, <4>1, <4>2, FS_RemoveElement
      <4>4. t \in Sub(k - 1) /\ t \in Sub(k)
        <5> HIDE DEF t
        <5> QED BY <1>1, <2>3, <4>2, <4>3
      <4> HIDE DEF t, Sub
      <4>5. it[t] = SumStep(h, g, t) BY <4>4
      <4>6. it[t] = h[t] BY <2>7, <4>4, <4>5
      <4> QED BY <3>2, <4>6 DEF SumStep, t
    <3> QED BY <3>1, <3>2
  <2>9. it = [s \in Sub(k) |-> SumStep(it, g, s)]
    <3> HIDE DEF Sub
    <3> QED BY <2>8
  <2>10. Rec(it, k) BY <2>9
  <2> QED BY <2>3, <2>10
<1>3. Cardinality(S) \in Nat BY FS_CardinalityType
<1>4. PICK it : Rec(it, Cardinality(S)) BY <1>2, <1>3
<1>5. Sub(Cardinality(S)) = SUBSET S BY <1>1
<1> HIDE DEF Sub
<1>6. IsSum(it, g, S) BY <1>4, <1>5 DEF IsSum
<1> QED BY <1>6

\* What MapThenSumSet computes for the bytes of a tree's files is a sum.
BytesOf(f) == [q \in DOMAIN f |-> f[q].bytes]
SumBytes(f, S) == MapThenSumSet(LAMBDA q : f[q].bytes, S)

LEMMA SumBytesIsSum ==
  ASSUME NEW f, NEW S \in SUBSET DOMAIN f, IsFiniteSet(S)
  PROVE  \E it : IsSum(it, BytesOf(f), S) /\ SumBytes(f, S) = it[S]
<1> DEFINE Rec(it) == it = [s \in SUBSET S |->
              IF s = {} THEN 0 ELSE LET x == CHOOSE x \in s : TRUE IN f[x].bytes + it[s \ {x}]]
           I == CHOOSE it : Rec(it)
<1>1. ASSUME NEW it PROVE Rec(it) <=> IsSum(it, BytesOf(f), S)
  <2>1. \A s \in SUBSET S : s # {} => First(s) \in DOMAIN f BY DEF First
  <2>2. \A s \in SUBSET S :
          (IF s = {} THEN 0 ELSE LET x == CHOOSE x \in s : TRUE IN f[x].bytes + it[s \ {x}])
            = SumStep(it, BytesOf(f), s)
    BY <2>1 DEF SumStep, First, BytesOf
  <2> QED BY <2>2 DEF IsSum
<1>2. \E it : Rec(it)
  <2>1. PICK it : IsSum(it, BytesOf(f), S) BY SumExists
  <2>2. Rec(it) BY <1>1, <2>1
  <2> HIDE DEF Rec
  <2> QED BY <2>2
<1>3. Rec(I)
  <2> HIDE DEF Rec
  <2> QED BY <1>2
<1>4. SumBytes(f, S) = I[S] BY DEF SumBytes, MapThenSumSet, MapThenFoldSet
<1> QED BY <1>1, <1>3, <1>4

\* A tree with more files, none of which holds more than before but one
\* that holds n bytes more, holds at most n bytes more.
LEMMA SumGrows ==
  ASSUME NEW f, NEW h, IsFiniteSet(DOMAIN h), DOMAIN f \subseteq DOMAIN h,
         \A x \in DOMAIN f : f[x].bytes \in Nat,
         \A x \in DOMAIN h : h[x].bytes \in Nat,
         NEW p, NEW n \in Nat,
         \A x \in DOMAIN h : h[x].bytes <= (IF x \in DOMAIN f THEN f[x].bytes ELSE 0)
                                            + (IF x = p THEN n ELSE 0)
  PROVE  /\ SumBytes(f, DOMAIN f) \in Nat /\ SumBytes(h, DOMAIN h) \in Nat
         /\ SumBytes(h, DOMAIN h) <= SumBytes(f, DOMAIN f) + n
<1> DEFINE S == DOMAIN f
           T == DOMAIN h
           g == BytesOf(f)
           m == [x \in T |-> IF x \in S THEN g[x] ELSE 0]
<1>1. IsFiniteSet(S) BY FS_Subset
<1>2. PICK a : IsSum(a, g, S) /\ SumBytes(f, S) = a[S] BY <1>1, SumBytesIsSum
<1>3. PICK b : IsSum(b, BytesOf(h), T) /\ SumBytes(h, T) = b[T] BY SumBytesIsSum
<1>4. PICK c : IsSum(c, m, T) BY SumExists
<1>5. /\ \A x \in S : g[x] \in Nat /\ g[x] = f[x].bytes
      /\ \A x \in T : BytesOf(h)[x] \in Nat /\ BytesOf(h)[x] = h[x].bytes
  BY DEF BytesOf
<1>6. \A x \in T : m[x] \in Nat /\ (x \in S => m[x] = g[x]) /\ (x \notin S => m[x] = 0)
  BY <1>5
<1> HIDE DEF g
<1>7. b[T] <= c[T] + n
  <2>1. \A x \in T : BytesOf(h)[x] <= m[x] + (IF x = p THEN n ELSE 0) BY <1>5, <1>6
  <2>2. \A x \in T : m[x] \in Nat /\ BytesOf(h)[x] \in Nat BY <1>5, <1>6
  <2> HIDE DEF m
  <2> QED BY <1>3, <1>4, <2>1, <2>2, SumBounded
<1>8. c[T] = c[S]
  <2> DEFINE B == {u \in SUBSET T : S \subseteq u /\ c[u] # c[S]}
  <2> SUFFICES ASSUME B # {} PROVE FALSE OBVIOUS
  <2>1. B \in SUBSET (SUBSET T) OBVIOUS
  <2>2. PICK u \in B : \A x \in u : u \ {x} \notin B
    <3> HIDE DEF B
    <3> QED BY <2>1, SmallestSet
  <2>3. u \in SUBSET T /\ S \subseteq u /\ c[u] # c[S] OBVIOUS
  <2>4. PICK x \in u : x \notin S BY <2>3
  <2>5. u \ {x} \in SUBSET T /\ S \subseteq u \ {x} /\ u \ {x} \notin B BY <2>2, <2>3, <2>4
  <2>6. c[u \ {x}] = c[S] BY <2>5
  <2>7. c[u] = m[x] + c[u \ {x}]
    <3> HIDE DEF m, B
    <3> QED BY <1>4, <1>6, <2>3, <2>4, SumRemove
  <2>8. m[x] = 0 BY <1>6, <2>3, <2>4
  <2>9. c[u \ {x}] \in Nat
    <3> HIDE DEF m, B
    <3> QED BY <1>4, <1>6, <2>5, SumTyped
  <2> QED BY <2>3, <2>6, <2>7, <2>8, <2>9
<1>9. c[S] <= a[S]
  <2> DEFINE r == [s \in SUBSET S |-> c[s]]
  <2>1. ASSUME NEW s \in SUBSET S PROVE c[s] = SumStep(r, m, s)
    <3>1. s \in SUBSET T OBVIOUS
    <3>2. /\ s = {} => c[s] = 0
          /\ s # {} => First(s) \in s /\ c[s] = m[First(s)] + c[s \ {First(s)}]
      <4> HIDE DEF m
      <4> QED BY <1>4, <3>1, IsSumAt
    <3>3. s # {} => r[s \ {First(s)}] = c[s \ {First(s)}] OBVIOUS
    <3> HIDE DEF m, r
    <3> QED BY <3>2, <3>3 DEF SumStep
  <2>2. IsSum(r, m, S)
    <3> HIDE DEF m
    <3> QED BY <2>1 DEF IsSum
  <2>3. \A x \in S : m[x] \in Nat /\ m[x] <= g[x] + (IF x = p THEN 0 ELSE 0) BY <1>5, <1>6
  <2>4. r[S] <= a[S] + 0
    <3>1. 0 \in Nat OBVIOUS
    <3> HIDE DEF m, r
    <3> QED BY <1>1, <1>2, <1>5, <2>2, <2>3, <3>1, SumBounded
  <2>5. r[S] = c[S] OBVIOUS
  <2>6. a[S] \in Nat BY <1>1, <1>2, <1>5, SumTyped
  <2> QED BY <2>4, <2>5, <2>6
<1>10. a[S] \in Nat BY <1>1, <1>2, <1>5, SumTyped
<1>11. b[T] \in Nat BY <1>3, <1>5, SumTyped
<1>12. c[T] \in Nat
  <2> HIDE DEF m
  <2> QED BY <1>4, <1>6, SumTyped
<1> HIDE DEF m
<1> QED BY <1>2, <1>3, <1>7, <1>8, <1>9, <1>10, <1>11, <1>12

(***************************************************************************)
(* The limits                                                              *)
(***************************************************************************)
\* Files that are overwritten count in liveTotalBytes but no longer on the
\* disk, so the sum may be less.
SumInv ==
  /\ IsFiniteSet(DOMAIN staging)
  /\ SumBytes(staging, DOMAIN staging) <= totalBytes

LEMMA AboveFinite ==
  ASSUME NEW p, Plainly(p)
  PROVE  IsFiniteSet(Above(p))
<1> DEFINE n == Len(p) - 1
           cut == [k \in 1..n |-> SubSeq(p, 1, k)]
<1>1. n \in Int BY DEF Plainly
<1>2. IsFiniteSet(1..n)
  <2> HIDE DEF n
  <2>1. \A a, b \in Int : IsFiniteSet(a..b) BY FS_Interval
  <2>2. 1 \in Int OBVIOUS
  <2> QED BY <1>1, <2>1, <2>2, Zenon
<1>3. Above(p) = {cut[k] : k \in 1..n} BY DEF Above
<1>4. cut \in Surjection(1..n, Above(p))
  <2>1. DOMAIN cut = 1..n OBVIOUS
  <2>2. \A k \in 1..n : cut[k] \in Above(p) BY <1>3
  <2>3. \A q \in Above(p) : \E k \in 1..n : cut[k] = q BY <1>3
  <2>4. cut \in [1..n -> Above(p)] BY <2>2
  <2> HIDE DEF cut, n
  <2> QED BY <2>3, <2>4 DEF Surjection
<1> HIDE DEF cut, n
<1> QED BY <1>2, <1>4, FS_Surjection

LEMMA EmptySum ==
  ASSUME staging' = <<>>, totalBytes' \in Nat
  PROVE  SumInv'
<1>1. DOMAIN staging' = {} OBVIOUS
<1>2. IsFiniteSet({}) BY FS_EmptySet
<1>3. SumBytes(staging', {}) = 0
  <2>1. PICK it : IsSum(it, BytesOf(staging'), {}) /\ SumBytes(staging', {}) = it[{}]
    BY <1>1, <1>2, SumBytesIsSum
  <2> QED BY <2>1, IsSumAt
<1> QED BY <1>1, <1>2, <1>3 DEF SumInv, SumBytes, MapThenSumSet, MapThenFoldSet

LEMMA GrowthKeeps ==
  ASSUME Inv, Inv', SumInv, NEW p, NEW n \in Nat, totalBytes' = totalBytes + n,
         IsFiniteSet(DOMAIN staging'), DOMAIN staging \subseteq DOMAIN staging',
         \A x \in DOMAIN staging' :
           staging'[x].bytes <= (IF x \in DOMAIN staging THEN staging[x].bytes ELSE 0)
                                + (IF x = p THEN n ELSE 0)
  PROVE  SumInv'
<1>1. \A x \in DOMAIN staging : staging[x].bytes \in Nat BY DEF Inv, TreeInv, Staged
<1>2. \A x \in DOMAIN staging' : staging'[x].bytes \in Nat BY DEF Inv, TreeInv, Staged
<1>3. /\ SumBytes(staging, DOMAIN staging) \in Nat /\ SumBytes(staging', DOMAIN staging') \in Nat
      /\ SumBytes(staging', DOMAIN staging') <= SumBytes(staging, DOMAIN staging) + n
  BY <1>1, <1>2, SumGrows
<1>4. totalBytes \in Nat BY DEF Inv, PlaceInv
<1>5. SumBytes(staging', DOMAIN staging') <= totalBytes' BY <1>3, <1>4 DEF SumInv
<1> QED BY <1>5 DEF SumInv, SumBytes, MapThenSumSet, MapThenFoldSet

LEMMA SameTreeKeeps ==
  ASSUME SumInv, UNCHANGED <<staging, totalBytes>>
  PROVE  SumInv'
BY DEF SumInv, SumBytes, MapThenSumSet, MapThenFoldSet

LEMMA FailKeepsSum ==
  ASSUME Inv, FailAndClean PROVE SumInv'
BY EmptySum DEF FailAndClean, RemoveRecursively, Inv, PlaceInv

LEMMA CheckKeepsSum ==
  ASSUME Inv, Inv', SumInv, CheckEntry PROVE SumInv'
<1> DEFINE p == Entry.segs
           ups == Above(p)
<1>1. /\ idx \in Nat /\ idx \in 1..Len(Entries) /\ Len(Entries) \in Nat /\ pc = "ready"
  BY AtEntry DEF CheckEntry
<1>2. CASE FailAndClean BY <1>2, FailKeepsSum
<1>3. ASSUME EntryAllowed PROVE IsFiniteSet(ups)
  <2>1. Plainly(p) BY <1>1, <1>3, AllowedPlain DEF Inv
  <2> QED BY <2>1, AboveFinite
<1>4. totalBytes \in Nat /\ Dir.bytes = 0 BY DEF Inv, PlaceInv, Dir
<1>5. \A x \in DOMAIN staging : staging[x].bytes \in Nat BY DEF Inv, TreeInv, Staged
<1>6. CASE EntryAllowed /\ NextEntry(WithDirs(staging, ups \cup {p}))
  <2> DEFINE P == ups \cup {p}
  <2>1. staging' = WithDirs(staging, P) /\ totalBytes' = totalBytes + 0
    BY <1>4, <1>6 DEF NextEntry
  <2>2. IsFiniteSet(P) BY <1>3, <1>6, FS_AddElement
  <2> HIDE DEF P
  <2>3. /\ DOMAIN staging' = DOMAIN staging \cup P
        /\ \A q \in DOMAIN staging : staging'[q] = staging[q]
        /\ \A q \in P : q \notin DOMAIN staging => staging'[q] = Dir
    BY <2>1, WithDirsShape, ZenonT(60)
  <2>4. IsFiniteSet(DOMAIN staging') BY <2>2, <2>3, FS_Union DEF SumInv
  <2>5. \A x \in DOMAIN staging' :
          staging'[x].bytes <= (IF x \in DOMAIN staging THEN staging[x].bytes ELSE 0)
                               + (IF x = p THEN 0 ELSE 0)
    BY <1>4, <1>5, <2>3
  <2>6. DOMAIN staging \subseteq DOMAIN staging' BY <2>3
  <2>7. 0 \in Nat OBVIOUS
  <2> HIDE DEF p
  <2> QED BY <2>1, <2>4, <2>5, <2>6, <2>7, GrowthKeeps
<1>7. CASE /\ EntryAllowed
           /\ staging' = Put(WithDirs(staging, ups), {p}, [kind |-> "file", of |-> idx, bytes |-> 0])
           /\ UNCHANGED totalBytes
  <2> DEFINE new == [kind |-> "file", of |-> idx, bytes |-> 0]
             s == WithDirs(staging, ups)
  <2>1. /\ DOMAIN s = DOMAIN staging \cup ups
        /\ \A q \in DOMAIN staging : s[q] = staging[q]
        /\ \A q \in ups : q \notin DOMAIN staging => s[q] = Dir
    BY WithDirsShape
  <2>2. /\ DOMAIN staging' = DOMAIN s \cup {p} /\ staging'[p] = new
        /\ \A q \in DOMAIN s : q # p => staging'[q] = s[q]
    BY <1>7 DEF Put
  <2>3. new.bytes = 0 OBVIOUS
  <2> HIDE DEF new, s
  <2>4. IsFiniteSet(DOMAIN staging')
    <3>1. IsFiniteSet(DOMAIN s) BY <1>3, <1>7, <2>1, FS_Union DEF SumInv
    <3> QED BY <2>2, <3>1, FS_AddElement
  <2>5. ASSUME NEW x \in DOMAIN staging'
        PROVE  staging'[x].bytes <= (IF x \in DOMAIN staging THEN staging[x].bytes ELSE 0)
                                    + (IF x = p THEN 0 ELSE 0)
    <3>1. CASE x = p BY <1>5, <2>2, <2>3, <3>1
    <3>2. CASE x # p BY <1>4, <1>5, <2>1, <2>2, <3>2
    <3> QED BY <3>1, <3>2
  <2>6. DOMAIN staging \subseteq DOMAIN staging' BY <2>1, <2>2
  <2>7. 0 \in Nat /\ totalBytes' = totalBytes + 0 BY <1>4, <1>7
  <2> HIDE DEF p
  <2> QED BY <2>4, <2>5, <2>6, <2>7, GrowthKeeps
<1> QED BY <1>2, <1>6, <1>7 DEF CheckEntry

LEMMA ExtractKeepsSum ==
  ASSUME Inv, Inv', SumInv, NEW n \in 1..Piece, Extract(n) PROVE SumInv'
<1> DEFINE p == Entry.segs
<1>1. CASE FailAndClean BY <1>1, FailKeepsSum
<1>2. CASE ~FailAndClean
  <2>1. /\ step = "extract" /\ totalBytes' = totalBytes + n
        /\ staging' = [staging EXCEPT ![p].bytes = @ + n]
    BY <1>2 DEF Extract
  <2>2. /\ p \in DOMAIN staging /\ staging[p] = [kind |-> "file", of |-> idx, bytes |-> outOfs]
    BY <2>1 DEF Inv, ContentInv
  <2>3. /\ DOMAIN staging' = DOMAIN staging
        /\ staging'[p].bytes = staging[p].bytes + n
        /\ \A q \in DOMAIN staging : q # p => staging'[q] = staging[q]
    BY <2>1, <2>2
  <2> HIDE DEF p
  <2>4. \A x \in DOMAIN staging : staging[x].bytes \in Nat BY DEF Inv, TreeInv, Staged
  <2>5. n \in Nat BY LimitAssumption
  <2>6. ASSUME NEW x \in DOMAIN staging'
        PROVE  staging'[x].bytes <= (IF x \in DOMAIN staging THEN staging[x].bytes ELSE 0)
                                    + (IF x = p THEN n ELSE 0)
    <3>1. CASE x = p BY <2>3, <2>4, <2>5, <3>1
    <3>2. CASE x # p BY <2>3, <2>4, <3>2
    <3> QED BY <3>1, <3>2
  <2>7. IsFiniteSet(DOMAIN staging') BY <2>3 DEF SumInv
  <2> QED BY <2>1, <2>3, <2>5, <2>6, <2>7, GrowthKeeps
<1> QED BY <1>1, <1>2

LEMMA SumInvariant == Spec => []SumInv
<1>1. Init => SumInv
  <2> SUFFICES ASSUME Init PROVE SumInv OBVIOUS
  <2>1. DOMAIN staging = {} /\ totalBytes = 0 BY DEF Init
  <2>2. IsFiniteSet({}) BY FS_EmptySet
  <2>3. SumBytes(staging, {}) = 0
    <3>1. PICK it : IsSum(it, BytesOf(staging), {}) /\ SumBytes(staging, {}) = it[{}]
      BY <2>1, <2>2, SumBytesIsSum
    <3> QED BY <3>1, IsSumAt
  <2> QED BY <2>1, <2>2, <2>3 DEF SumInv
<1>2. SumInv /\ Inv /\ Inv' /\ [Next]_vars => SumInv'
  <2> SUFFICES ASSUME SumInv, Inv, Inv', [Next]_vars PROVE SumInv' OBVIOUS
  <2>1. CASE FailAndClean BY <2>1, FailKeepsSum
  <2>2. CASE UNCHANGED <<staging, totalBytes>> BY <2>2, SameTreeKeeps
  <2>3. CASE Begin BY <2>2, <2>3 DEF Begin, Refuse
  <2>4. CASE Open BY <2>1, <2>2, <2>4 DEF Open
  <2>5. CASE Count BY <2>1, <2>2, <2>5 DEF Count
  <2>6. CASE CheckEntry BY <2>6, CheckKeepsSum
  <2>7. CASE LocalHeader BY <2>1, <2>2, <2>7 DEF LocalHeader, NextEntry
  <2>8. ASSUME NEW n \in 1..Piece, Extract(n) PROVE SumInv' BY <2>8, ExtractKeepsSum
  <2>9. CASE ExtractFails BY <2>1, <2>9 DEF ExtractFails
  <2>10. CASE EntryDone BY <2>1, <2>2, <2>10 DEF EntryDone, NextEntry
  <2>11. CASE Manifest BY <2>1, <2>2, <2>11 DEF Manifest
  <2>12. CASE UNCHANGED vars BY <2>2, <2>12 DEF vars, stageVars
  <2> QED BY <2>3, <2>4, <2>5, <2>6, <2>7, <2>8, <2>9, <2>10, <2>11, <2>12 DEF Next
<1> QED BY <1>1, <1>2, InvInvariant, PTL DEF Spec

\* The limits hold for what reaches the disk, whatever the archive's headers
\* claim: for every file (liveExtractWriteCallback counts before it writes),
\* for all of them together, and for the number of entries.
THEOREM LimitsAlwaysHold == Spec => []LimitsHold
<1>1. Inv /\ SumInv => LimitsHold
  <2> SUFFICES ASSUME Inv, SumInv PROVE LimitsHold OBVIOUS
  <2>1. SumOf(Unpacked) <= totalBytes BY DEF SumInv, SumOf, SumBytes, Unpacked, MapThenSumSet, MapThenFoldSet
  <2>2. idx - 1 <= MaxEntries
    <3>1. idx \in Nat /\ z.total \in Nat /\ MaxEntries \in Nat BY LimitAssumption DEF Inv, PlaceInv, ReaderInv
    <3> QED BY <3>1 DEF Inv, CountersInv
  <2> QED BY <2>1, <2>2 DEF LimitsHold, Inv, CountersInv, Unpacked
<1> QED BY <1>1, InvInvariant, SumInvariant, PTL

(***************************************************************************)
(* The ways out of extractToStaging                                        *)
(***************************************************************************)
\* The FILE is open exactly while the reader is, and is closed by whichever
\* of its three owners has it: the failed initialisation, the rejection, or
\* the reader guard.
FileInv ==
  /\ pc \in {"closed", "scan", "end", "read", "index", "sort", "ready", "rejected", "ended"}
  /\ pc = "closed" => z.mode = "invalid" /\ z.open = FALSE /\ z.closes = 0
  /\ pc \in {"scan", "end", "read", "index", "sort", "ready"} =>
       z.mode = "reading" /\ z.open = TRUE /\ z.closes = 0 /\ disk.opens
  /\ pc \in {"rejected", "ended"} => z.open = FALSE /\ z.closes = IF disk.opens THEN 1 ELSE 0

WayInv ==
  /\ step = "begin" => pc = "closed"
  /\ step \notin {"begin", "returned"} => ReachesArchive
  /\ step = "returned" => IF ReachesArchive THEN pc \in {"rejected", "ended"} ELSE pc = "closed"
  /\ step = "begin" => staged = FALSE
  /\ outcome = "failed" => staged = FALSE

LEMMA EndInternalCloses ==
  ASSUME ReaderInv, z.mode = "reading", z.open = TRUE, z.closes = 0
  PROVE  EndInternal.open = FALSE /\ EndInternal.closes = 1
BY DEF ReaderInv, ArchiveFields, EndInternal

LEMMA ReaderKeepsFile ==
  ASSUME ReaderInv, FileInv, ReaderNext PROVE FileInv'
<1> USE DEF ArchiveFields
<1>1. CASE InitFile BY <1>1 DEF InitFile, ReaderInv, FileInv
<1>2. CASE InitFails BY <1>2 DEF InitFails, ReaderInv, FileInv
<1>3. CASE Reject /\ pc \in {"scan", "end", "read", "index"}
  BY <1>3, EndInternalCloses DEF Reject, FileInv
<1>4. CASE ~Reject /\ ScanChunk BY <1>4 DEF ScanChunk, FileInv
<1>5. CASE ~Reject /\ ReadEnd
  <2>1. /\ pc = "end" /\ pc' \in {"sort", "read"} /\ disk' = disk
        /\ z'.mode = z.mode /\ z'.open = z.open /\ z'.closes = z.closes
    BY <1>5 DEF ReadEnd, ReaderInv
  <2> QED BY <2>1 DEF FileInv
<1>6. CASE ~Reject /\ ReadDir BY <1>6 DEF ReadDir, FileInv
<1>7. CASE ~Reject /\ IndexEntry
  <2>1. /\ pc = "index" /\ pc' \in {"sort", "index"} /\ disk' = disk
        /\ z'.mode = z.mode /\ z'.open = z.open /\ z'.closes = z.closes
    BY <1>7 DEF IndexEntry, ReaderInv
  <2> QED BY <2>1 DEF FileInv
<1>8. CASE SortStep
  <2>1. /\ pc = "sort" /\ pc' \in {"sort", "ready"} /\ disk' = disk
        /\ z'.mode = z.mode /\ z'.open = z.open /\ z'.closes = z.closes
    BY <1>8 DEF SortStep, ReaderInv
  <2> QED BY <2>1 DEF FileInv
<1>9. ScanChunk \/ ReadEnd \/ AllocFails \/ ReadDir \/ IndexEntry => pc \in {"scan", "end", "read", "index"}
  BY DEF ScanChunk, ReadEnd, AllocFails, ReadDir, IndexEntry
<1> QED BY <1>1, <1>2, <1>3, <1>4, <1>5, <1>6, <1>7, <1>8, <1>9 DEF ReaderNext, AllocFails

LEMMA FailKeepsFile ==
  ASSUME Inv, FileInv, WayInv, FailAndClean, step \notin {"begin", "returned"},
         step = "open" => pc = "rejected"
  PROVE  FileInv' /\ WayInv'
<1>1. /\ step' = "returned" /\ outcome' = "failed" /\ staged' = FALSE /\ disk' = disk
  BY DEF FailAndClean, RemoveRecursively
<1>2. ReachesArchive /\ ReachesArchive' BY <1>1 DEF WayInv, ReachesArchive
<1>3. CASE pc = "ready"
  <2>1. z' = EndInternal /\ pc' = "ended" BY <1>3 DEF FailAndClean
  <2>2. z'.open = FALSE /\ z'.closes = 1 /\ disk.opens BY <1>3, <2>1, EndInternalCloses DEF FileInv, Inv
  <2> QED BY <1>1, <1>2, <2>1, <2>2 DEF FileInv, WayInv
<1>4. CASE pc # "ready"
  <2>1. UNCHANGED <<z, pc>> BY <1>4 DEF FailAndClean
  <2>2. step = "open" BY <1>4 DEF Inv, PlaceInv
  <2> QED BY <1>1, <1>2, <2>1, <2>2 DEF FileInv, WayInv
<1> QED BY <1>3, <1>4

LEMMA StepKeepsFile ==
  ASSUME Inv, FileInv, WayInv, [Next]_vars PROVE FileInv' /\ WayInv'
<1> DEFINE Stays == UNCHANGED readerVars /\ UNCHANGED <<staged, outcome>>
                    /\ step \notin {"begin", "returned"} /\ step' \notin {"begin", "returned"}
<1>1. ASSUME Stays PROVE FileInv' /\ WayInv'
  <2>1. UNCHANGED <<disk, pc, z>> BY <1>1 DEF readerVars
  <2> QED BY <1>1, <2>1 DEF FileInv, WayInv, ReachesArchive
<1>2. CASE FailAndClean /\ step \notin {"begin", "open", "returned"} BY <1>2, FailKeepsFile
<1>3. CASE Begin
  <2>1. UNCHANGED <<disk, pc, z>> BY <1>3 DEF Begin, Refuse, readerVars
  <2>2. FileInv' BY <2>1 DEF FileInv
  <2>3. step = "begin" /\ pc = "closed" /\ staged = FALSE /\ outcome # "failed"
    BY <1>3 DEF Begin, WayInv, Inv, PlaceInv
  <2>4. CASE ReachesArchive
    <3>1. step' = "open" /\ outcome' = outcome BY <1>3, <2>4 DEF Begin, ReachesArchive
    <3> QED BY <2>1, <2>2, <2>3, <2>4, <3>1 DEF WayInv, ReachesArchive
  <2>5. CASE ~ReachesArchive
    <3>1. step' = "returned" /\ staged' = staged BY <1>3, <2>5 DEF Begin, Refuse, ReachesArchive
    <3> QED BY <2>1, <2>2, <2>3, <2>5, <3>1 DEF WayInv, ReachesArchive
  <2> QED BY <2>4, <2>5
<1>4. CASE Open
  <2>1. CASE pc = "rejected" BY <1>4, <2>1, FailKeepsFile DEF Open
  <2>2. CASE pc # "rejected"
    <3>1. ReaderNext /\ step = "open" /\ step' \in {"count", "open"} /\ UNCHANGED <<staged, outcome>>
      BY <1>4, <2>2 DEF Open
    <3>2. FileInv' BY <3>1, ReaderKeepsFile DEF Inv
    <3>3. disk' = disk
      BY <3>1 DEF ReaderNext, InitFile, InitFails, ScanChunk, ReadEnd, AllocFails, ReadDir, IndexEntry,
                  SortStep, Reject
    <3> QED BY <3>1, <3>2, <3>3 DEF WayInv, ReachesArchive
  <2> QED BY <2>1, <2>2
<1>5. CASE Count BY <1>1, <1>2, <1>5 DEF Count, Goes
<1>6. CASE CheckEntry BY <1>1, <1>2, <1>6 DEF CheckEntry, NextEntry, Goes
<1>7. CASE LocalHeader BY <1>1, <1>2, <1>7 DEF LocalHeader, NextEntry, Goes
<1>8. ASSUME NEW n \in 1..Piece, Extract(n) PROVE FileInv' /\ WayInv'
  BY <1>1, <1>2, <1>8 DEF Extract, Goes
<1>9. CASE ExtractFails BY <1>2, <1>9 DEF ExtractFails
<1>10. CASE EntryDone BY <1>1, <1>2, <1>10 DEF EntryDone, NextEntry, Goes
<1>11. CASE Manifest
  <2>1. CASE FailAndClean BY <1>2, <1>11, <2>1 DEF Manifest
  <2>2. CASE ~FailAndClean
    <3>1. /\ step = "manifest" /\ step' = "returned" /\ outcome' = "staged"
          /\ z' = EndInternal /\ pc' = "ended" /\ disk' = disk
      BY <1>11, <2>2 DEF Manifest
    <3>2. pc = "ready" BY <3>1 DEF Inv, PlaceInv
    <3>3. z'.open = FALSE /\ z'.closes = 1 /\ disk.opens
      BY <3>1, <3>2, EndInternalCloses DEF FileInv, Inv
    <3> QED BY <3>1, <3>3 DEF FileInv, WayInv, ReachesArchive
  <2> QED BY <2>1, <2>2
<1>12. CASE UNCHANGED vars
  <2>1. UNCHANGED <<disk, pc, z, step, staged, outcome>> BY <1>12 DEF vars, readerVars, stageVars
  <2> QED BY <2>1 DEF FileInv, WayInv, ReachesArchive
<1> QED BY <1>3, <1>4, <1>5, <1>6, <1>7, <1>8, <1>9, <1>10, <1>11, <1>12 DEF Next

\* Whenever extractToStaging has returned, by any of its early returns, an
\* archive it opened is closed, exactly once, and a failure has left no
\* staging directory.
THEOREM ReturnsClean == Spec => [](step = "returned" => NothingOpen)
<1>1. Init => FileInv /\ WayInv
  BY DEF Init, ReaderInit, Closed, FileInv, WayInv
<1>2. FileInv /\ WayInv => (step = "returned" => NothingOpen)
  BY DEF FileInv, WayInv, NothingOpen
<1>3. Inv /\ FileInv /\ WayInv /\ [Next]_vars => FileInv' /\ WayInv' BY StepKeepsFile
<1> QED BY <1>1, <1>2, <1>3, InvInvariant, PTL DEF Spec

(***************************************************************************)
(* mz_zip_reader_sort_central_dir_offsets_by_filename                      *)
(*                                                                         *)
(* v holds the ranks of the names in the order of the index, from 0.       *)
(***************************************************************************)
Kids(i) == {2 * i + 1, 2 * i + 2}
AtRest(v, end, root) == \A c \in Kids(root) : c < end => v[c] <= v[root]

\* From start on every element is at least as large as its children, but
\* the root that is sinking; what is above that root is as large as what is
\* below it.
HeapBut(v, start, end, root) ==
  /\ \A i \in Nat : (i >= start /\ i # root) => AtRest(v, end, i)
  /\ \A i \in Nat : (i >= start /\ root \in Kids(i)) => \A c \in Kids(root) : c < end => v[c] <= v[i]

\* What lies behind the heap is sorted, and no element before is larger.
TailSorted(v, end, n) == \A i, j \in 0..(n - 1) : (i < j /\ j >= end) => v[i] <= v[j]

Exchange(v, a, b) == [v EXCEPT ![a] = v[b], ![b] = v[a]]

LEMMA KidsApart ==
  ASSUME NEW i \in Nat, NEW j \in Nat, NEW c \in Kids(i)
  PROVE  /\ c \in Nat /\ c > i
         /\ c \in Kids(j) => i = j
BY DEF Kids

LEMMA SinkKeepsHeap ==
  ASSUME NEW n \in Nat, NEW v \in [0..(n - 1) -> Nat], NEW start \in Nat, NEW end \in 0..n, NEW root \in Nat,
         NEW child \in Kids(root), start <= root, child < end, v[root] < v[child],
         \A c \in Kids(root) : c < end => v[c] <= v[child],
         HeapBut(v, start, end, root), TailSorted(v, end, n)
  PROVE  /\ HeapBut(Exchange(v, root, child), start, end, child)
         /\ TailSorted(Exchange(v, root, child), end, n)
<1> DEFINE w == Exchange(v, root, child)
<1>1. child \in Nat /\ child > root BY KidsApart
<1>2. root \in 0..(n - 1) /\ child \in 0..(n - 1) BY <1>1
<1>3. /\ w[root] = v[child] /\ w[child] = v[root]
      /\ \A i \in 0..(n - 1) : (i # root /\ i # child) => w[i] = v[i]
  BY <1>1, <1>2 DEF Exchange
<1>4. \A i \in 0..(n - 1) : v[i] \in Nat OBVIOUS
<1> HIDE DEF w
<1>5. ASSUME NEW i \in Nat, i >= start, i # child, NEW c \in Kids(i), c < end PROVE w[c] <= w[i]
  <2>1. c \in Nat /\ c > i /\ c \in 0..(n - 1) /\ i \in 0..(n - 1)
    <3>1. c \in Nat /\ c > i BY KidsApart
    <3> QED BY <3>1, <1>5
  <2>2. CASE i = root
    <3>1. CASE c = child BY <1>2, <1>3, <1>4, <2>2, <3>1
    <3>2. CASE c # child
      <4>1. c # root BY <2>1, <2>2
      <4>2. v[c] <= v[child] BY <1>5, <2>2
      <4> QED BY <1>3, <2>1, <2>2, <3>2, <4>1, <4>2
    <3> QED BY <3>1, <3>2
  <2>3. CASE i # root
    <3>1. w[i] = v[i] BY <1>3, <1>5, <2>1, <2>3
    <3>2. c # child BY <1>5, <2>3, KidsApart
    <3>3. CASE c = root
      <4>1. v[child] <= v[i] BY <1>5, <3>3 DEF HeapBut
      <4> QED BY <1>3, <3>1, <3>3, <4>1
    <3>4. CASE c # root
      <4>1. v[c] <= v[i] BY <1>5, <2>3 DEF HeapBut, AtRest
      <4> QED BY <1>3, <2>1, <3>1, <3>2, <3>4, <4>1
    <3> QED BY <3>3, <3>4
  <2> QED BY <2>2, <2>3
<1>6. ASSUME NEW i \in Nat, i >= start, child \in Kids(i), NEW c \in Kids(child), c < end PROVE w[c] <= w[i]
  <2>1. i = root BY <1>6, KidsApart
  <2>2. c \in Nat /\ c > child /\ c \in 0..(n - 1)
    <3>1. c \in Nat /\ c > child BY <1>1, KidsApart
    <3> QED BY <1>1, <1>6, <3>1
  <2>3. w[c] = v[c] BY <1>1, <1>3, <2>2
  <2>4. v[c] <= v[child] BY <1>1, <1>6 DEF HeapBut, AtRest
  <2> QED BY <1>3, <2>1, <2>3, <2>4
<1>7. HeapBut(w, start, end, child) BY <1>5, <1>6 DEF HeapBut, AtRest
<1>8. TailSorted(w, end, n)
  <2> SUFFICES ASSUME NEW i \in 0..(n - 1), NEW j \in 0..(n - 1), i < j, j >= end PROVE w[i] <= w[j]
    BY DEF TailSorted
  <2>1. j # root /\ j # child /\ root < j /\ child < j BY <1>1, <1>2
  <2>2. w[j] = v[j] BY <1>3, <2>1
  <2>3. v[i] <= v[j] /\ v[root] <= v[j] /\ v[child] <= v[j] BY <1>2, <2>1 DEF TailSorted
  <2>4. CASE i = root BY <1>3, <2>2, <2>3, <2>4
  <2>5. CASE i = child BY <1>3, <2>2, <2>3, <2>5
  <2>6. CASE i # root /\ i # child BY <1>3, <2>2, <2>3, <2>6
  <2> QED BY <2>4, <2>5, <2>6
<1> QED BY <1>7, <1>8 DEF w

LEMMA NextRootKeepsHeap ==
  ASSUME NEW v, NEW start \in Nat \ {0}, NEW end \in Nat, NEW root \in Nat,
         HeapBut(v, start, end, root), AtRest(v, end, root)
  PROVE  HeapBut(v, start - 1, end, start - 1)
<1>1. ASSUME NEW i \in Nat, i >= start - 1, i # start - 1 PROVE AtRest(v, end, i)
  <2>1. i >= start BY <1>1
  <2> QED BY <2>1 DEF HeapBut
<1>2. ASSUME NEW i \in Nat, i >= start - 1, start - 1 \in Kids(i) PROVE FALSE
  <2>1. start - 1 \in Nat /\ start - 1 > i BY <1>2, KidsApart
  <2> QED BY <1>2, <2>1
<1> QED BY <1>1, <1>2 DEF HeapBut

\* The first element of a heap is its largest.
LEMMA TopIsLargest ==
  ASSUME NEW n \in Nat, NEW v \in [0..(n - 1) -> Nat], NEW end \in 1..n,
         \A i \in Nat : AtRest(v, end, i)
  PROVE  \A i \in 0..(end - 1) : v[i] <= v[0]
<1> DEFINE Bad == {i \in 0..(end - 1) : ~(v[i] <= v[0])}
<1> SUFFICES ASSUME Bad # {} PROVE FALSE OBVIOUS
<1>1. Bad \in SUBSET Nat OBVIOUS
<1>2. PICK k \in Bad : \A j \in Bad : k <= j
  <2> HIDE DEF Bad
  <2> QED BY <1>1, LeastExists
<1>3. k \in 0..(end - 1) /\ ~(v[k] <= v[0]) OBVIOUS
<1>4. k # 0 BY <1>3
<1> DEFINE q == (k - 1) \div 2
<1>5. q \in Nat /\ q < k /\ k \in Kids(q) BY <1>3, <1>4 DEF Kids
<1> HIDE DEF q
<1>6. v[k] <= v[q] BY <1>3, <1>5 DEF AtRest
<1>7. q \in 0..(end - 1) /\ q \notin Bad
  <2>1. q \in 0..(end - 1) BY <1>3, <1>5
  <2>2. k \in Nat BY <1>3
  <2> HIDE DEF Bad
  <2>3. ~(k <= q) BY <1>5, <2>2
  <2> QED BY <1>2, <2>1, <2>3
<1>8. v[q] <= v[0] BY <1>7
<1>9. v[k] \in Nat /\ v[q] \in Nat /\ v[0] \in Nat BY <1>3, <1>7
<1> QED BY <1>3, <1>6, <1>8, <1>9

LEMMA PopKeepsHeap ==
  ASSUME NEW n \in Nat, NEW v \in [0..(n - 1) -> Nat], NEW end \in 2..n, NEW root \in Nat,
         HeapBut(v, 0, end, root), AtRest(v, end, root), TailSorted(v, end, n)
  PROVE  /\ HeapBut(Exchange(v, end - 1, 0), 0, end - 1, 0)
         /\ TailSorted(Exchange(v, end - 1, 0), end - 1, n)
<1> DEFINE last == end - 1
           w == Exchange(v, last, 0)
<1>1. \A i \in Nat : AtRest(v, end, i) BY DEF HeapBut
<1>2. \A i \in 0..(end - 1) : v[i] <= v[0] BY <1>1, TopIsLargest, SMTT(30)
<1>3. last \in 0..(n - 1) /\ last > 0 /\ 0 \in 0..(n - 1) OBVIOUS
<1>4. /\ w[last] = v[0] /\ w[0] = v[last]
      /\ \A i \in 0..(n - 1) : (i # last /\ i # 0) => w[i] = v[i]
  BY <1>3 DEF Exchange
<1>5. \A i \in 0..(n - 1) : v[i] \in Nat OBVIOUS
<1> HIDE DEF w
<1>6. ASSUME NEW i \in Nat, i # 0, NEW c \in Kids(i), c < last PROVE w[c] <= w[i]
  <2>1. c \in Nat /\ c > i BY KidsApart
  <2>2. c \in 0..(n - 1) /\ i \in 0..(n - 1) /\ c < end /\ i # last /\ c # last /\ c # 0 BY <1>6, <2>1
  <2>3. v[c] <= v[i] BY <1>1, <2>2 DEF AtRest
  <2> QED BY <1>4, <1>6, <2>2, <2>3
<1>7. ASSUME NEW i \in Nat, 0 \in Kids(i) PROVE FALSE
  BY <1>7, KidsApart
<1>8. HeapBut(w, 0, last, 0) BY <1>6, <1>7 DEF HeapBut, AtRest
<1>9. TailSorted(w, last, n)
  <2> SUFFICES ASSUME NEW i \in 0..(n - 1), NEW j \in 0..(n - 1), i < j, j >= last PROVE w[i] <= w[j]
    BY DEF TailSorted
  <2>1. CASE j = last
    <3>1. w[j] = v[0] BY <1>4, <2>1
    <3>2. CASE i = 0
      <4>1. v[last] <= v[0] BY <1>2
      <4> QED BY <1>4, <3>1, <3>2, <4>1
    <3>3. CASE i # 0
      <4>1. i \in 0..(end - 1) /\ i # last BY <2>1
      <4> QED BY <1>2, <1>4, <3>1, <3>3, <4>1
    <3> QED BY <3>2, <3>3
  <2>2. CASE j # last
    <3>1. j >= end /\ last < j /\ j # 0 BY <2>2
    <3>2. w[j] = v[j] BY <1>4, <2>2, <3>1
    <3>3. v[i] <= v[j] /\ v[last] <= v[j] /\ v[0] <= v[j] BY <1>3, <3>1 DEF TailSorted
    <3>4. CASE i = 0 BY <1>4, <3>2, <3>3, <3>4
    <3>5. CASE i = last BY <1>4, <3>2, <3>3, <3>5
    <3>6. CASE i # 0 /\ i # last BY <1>4, <3>2, <3>3, <3>6
    <3> QED BY <3>4, <3>5, <3>6
  <2> QED BY <2>1, <2>2
<1> QED BY <1>8, <1>9 DEF w

(***************************************************************************)
(* Recursion over numbers                                                  *)
(***************************************************************************)
Recursive(f, n, x0, F) == f = [k \in 0..n |-> IF k = 0 THEN x0 ELSE F[k][f[k - 1]]]

LEMMA RecursionExists ==
  ASSUME NEW n \in Nat, NEW x0, NEW F
  PROVE  \E f : Recursive(f, n, x0, F)
<1> DEFINE Val(f, k) == IF k = 0 THEN x0 ELSE F[k][f[k - 1]]
           Rec(f, m) == f = [k \in 0..m |-> Val(f, k)]
           Bad == {m \in Nat : ~(\E f : Rec(f, m))}
<1>1. Bad = {}
  <2> SUFFICES ASSUME Bad # {} PROVE FALSE OBVIOUS
  <2>1. Bad \in SUBSET Nat OBVIOUS
  <2>2. PICK m \in Bad : \A j \in Bad : m <= j
    <3> HIDE DEF Bad
    <3> QED BY <2>1, LeastExists
  <2>3. m \in Nat /\ ~(\E f : Rec(f, m)) OBVIOUS
  <2>4. m # 0
    <3> SUFFICES ASSUME m = 0 PROVE FALSE OBVIOUS
    <3> DEFINE one == [k \in 0..m |-> x0]
    <3>1. \A k \in 0..m : k = 0 OBVIOUS
    <3>2. Rec(one, m) BY <3>1
    <3> QED BY <2>3, <3>2
  <2>5. m - 1 \in Nat /\ m - 1 \notin Bad
    <3> HIDE DEF Bad
    <3> QED BY <2>2, <2>3, <2>4
  <2>6. PICK h : Rec(h, m - 1) BY <2>5
  <2> DEFINE f == [k \in 0..m |-> Val(h, k)]
  <2>7. \A k \in 0..(m - 1) : h[k] = Val(h, k) BY <2>6
  <2>8. ASSUME NEW k \in 0..m PROVE Val(f, k) = Val(h, k)
    <3>1. CASE k = 0 BY <3>1
    <3>2. CASE k # 0
      <4>1. k - 1 \in 0..(m - 1) /\ k - 1 \in 0..m BY <2>3, <3>2
      <4>2. f[k - 1] = Val(h, k - 1) BY <4>1
      <4>3. f[k - 1] = h[k - 1]
        <5> HIDE DEF f, Val
        <5> QED BY <2>7, <4>1, <4>2
      <4> HIDE DEF f
      <4> QED BY <3>2, <4>3
    <3> QED BY <3>1, <3>2
  <2>9. Rec(f, m)
    <3> HIDE DEF Val
    <3> QED BY <2>8
  <2> HIDE DEF f, Rec
  <2> QED BY <2>3, <2>9
<1>2. n \notin Bad BY <1>1
<1>3. PICK f : Rec(f, n) BY <1>2
<1>4. Recursive(f, n, x0, F) BY <1>3 DEF Recursive
<1> QED BY <1>4

\* The sums that HeaderBytes is defined by
SumsTo(f, w, n) == f = [i \in 0..n |-> IF i = 0 THEN 0 ELSE f[i - 1] + w[i]]

LEMMA SumsToTyped ==
  ASSUME NEW n \in Nat, NEW m \in Nat, m <= n, NEW w \in [1..n -> Nat], NEW f, SumsTo(f, w, m)
  PROVE  \A i \in 0..m : f[i] \in Nat
<1> DEFINE Bad == {i \in 0..m : f[i] \notin Nat}
<1> SUFFICES ASSUME Bad # {} PROVE FALSE OBVIOUS
<1>1. Bad \in SUBSET Nat OBVIOUS
<1>2. PICK k \in Bad : \A j \in Bad : k <= j
  <2> HIDE DEF Bad
  <2> QED BY <1>1, LeastExists
<1>3. k \in 0..m /\ f[k] \notin Nat OBVIOUS
<1>4. f[k] = IF k = 0 THEN 0 ELSE f[k - 1] + w[k] BY <1>3 DEF SumsTo
<1>5. k # 0 BY <1>3, <1>4
<1>6. k - 1 \in 0..m /\ k - 1 \notin Bad
  <2>1. k \in Nat /\ k - 1 \in 0..m /\ ~(k <= k - 1) BY <1>3, <1>5
  <2> HIDE DEF Bad
  <2> QED BY <1>2, <2>1
<1>7. w[k] \in Nat BY <1>3, <1>5
<1> QED BY <1>3, <1>4, <1>5, <1>6, <1>7

LEMMA SumsToExist ==
  ASSUME NEW n \in Nat, NEW m \in Nat, m <= n, NEW w \in [1..n -> Nat]
  PROVE  \E f : SumsTo(f, w, m)
<1> DEFINE F == [k \in 1..m |-> [x \in Nat |-> x + w[k]]]
<1>1. PICK f : Recursive(f, m, 0, F)
  <2> HIDE DEF F
  <2> QED BY RecursionExists
<1> DEFINE Bad == {i \in 0..m : f[i] \notin Nat}
<1>2. \A k \in 0..m : f[k] = IF k = 0 THEN 0 ELSE F[k][f[k - 1]]
  <2> HIDE DEF F
  <2> QED BY <1>1 DEF Recursive
<1>3. Bad = {}
  <2> SUFFICES ASSUME Bad # {} PROVE FALSE OBVIOUS
  <2>1. Bad \in SUBSET Nat OBVIOUS
  <2>2. PICK k \in Bad : \A j \in Bad : k <= j
    <3> HIDE DEF Bad
    <3> QED BY <2>1, LeastExists
  <2>3. k \in 0..m /\ f[k] \notin Nat OBVIOUS
  <2>4. k # 0
    <3> HIDE DEF F
    <3> QED BY <1>2, <2>3
  <2>5. k - 1 \in 0..m /\ k - 1 \notin Bad
    <3>1. k \in Nat /\ k - 1 \in 0..m /\ ~(k <= k - 1) BY <2>3, <2>4
    <3> HIDE DEF Bad
    <3> QED BY <2>2, <3>1
  <2>6. f[k - 1] \in Nat BY <2>5
  <2>7. k \in 1..m BY <2>3, <2>4
  <2>8. f[k] = F[k][f[k - 1]]
    <3> HIDE DEF F
    <3> QED BY <1>2, <2>3, <2>4
  <2>9. F[k][f[k - 1]] = f[k - 1] + w[k] BY <2>6, <2>7
  <2>10. w[k] \in Nat
    <3>1. k \in 1..n BY <2>7
    <3> QED BY <3>1
  <2> HIDE DEF F
  <2> QED BY <2>3, <2>6, <2>8, <2>9, <2>10
<1>4. \A k \in 0..m : (IF k = 0 THEN 0 ELSE F[k][f[k - 1]]) = (IF k = 0 THEN 0 ELSE f[k - 1] + w[k])
  <2> SUFFICES ASSUME NEW k \in 0..m, k # 0 PROVE F[k][f[k - 1]] = f[k - 1] + w[k] OBVIOUS
  <2>1. k - 1 \in 0..m /\ k \in 1..m OBVIOUS
  <2>2. f[k - 1] \in Nat BY <1>3, <2>1
  <2> QED BY <2>1, <2>2
<1>5. f = [k \in 0..m |-> IF k = 0 THEN 0 ELSE f[k - 1] + w[k]]
  <2> HIDE DEF F
  <2> QED BY <1>1, <1>4 DEF Recursive
<1>6. SumsTo(f, w, m) BY <1>5 DEF SumsTo
<1> QED BY <1>6

LEMMA SumsToAgree ==
  ASSUME NEW n \in Nat, NEW m \in Nat, m <= n, NEW w \in [1..n -> Nat],
         NEW f, SumsTo(f, w, m), NEW h, SumsTo(h, w, n)
  PROVE  f[m] = h[m]
<1> DEFINE Bad == {i \in 0..m : f[i] # h[i]}
<1>1. Bad = {}
  <2> SUFFICES ASSUME Bad # {} PROVE FALSE OBVIOUS
  <2>1. Bad \in SUBSET Nat OBVIOUS
  <2>2. PICK k \in Bad : \A j \in Bad : k <= j
    <3> HIDE DEF Bad
    <3> QED BY <2>1, LeastExists
  <2>3. k \in 0..m /\ k \in 0..n /\ f[k] # h[k] OBVIOUS
  <2>4. /\ f[k] = IF k = 0 THEN 0 ELSE f[k - 1] + w[k]
        /\ h[k] = IF k = 0 THEN 0 ELSE h[k - 1] + w[k]
    BY <2>3 DEF SumsTo
  <2>5. k # 0 BY <2>3, <2>4
  <2>6. k - 1 \in 0..m /\ k - 1 \notin Bad
    <3>1. k \in Nat /\ k - 1 \in 0..m /\ ~(k <= k - 1) BY <2>3, <2>5
    <3> HIDE DEF Bad
    <3> QED BY <2>2, <3>1
  <2>7. f[k - 1] = h[k - 1] BY <2>6
  <2> QED BY <2>3, <2>4, <2>5, <2>7
<1> QED BY <1>1

Sizes(n) == [i \in 1..n |-> HeaderSize(Entries[i])]

LEMMA SizesTyped ==
  ASSUME ReaderInv, NEW n \in Nat, n <= Len(Entries)
  PROVE  Sizes(n) \in [1..n -> Nat]
<1> SUFFICES ASSUME NEW i \in 1..n PROVE HeaderSize(Entries[i]) \in Nat BY DEF Sizes
<1>1. Len(Entries) \in Nat BY LayoutAssumption DEF ReaderInv, Entries
<1>2. i \in 1..Len(Entries) BY <1>1
<1>3. IsEntry(Entries[i]) BY <1>2, EntryTyped
<1>4. PICK e : e = Entries[i] OBVIOUS
<1>5. e.nameLen \in Nat /\ e.extraLen \in Nat /\ e.commentLen \in Nat BY <1>3, <1>4 DEF IsEntry
<1>6. CdhSize \in Nat BY SizeAssumption
<1>7. HeaderSize(e) \in Nat BY <1>5, <1>6 DEF HeaderSize
<1> QED BY <1>4, <1>7

LEMMA HeaderBytesSum ==
  ASSUME ReaderInv, NEW n \in Nat, n <= Len(Entries), NEW m \in Nat, m <= n
  PROVE  \E f : SumsTo(f, Sizes(n), m) /\ HeaderBytes(m) = f[m]
<1> DEFINE Rec(f) == f = [i \in 0..m |-> IF i = 0 THEN 0 ELSE f[i - 1] + HeaderSize(Entries[i])]
           D == CHOOSE f : Rec(f)
<1>1. ASSUME NEW f PROVE Rec(f) <=> SumsTo(f, Sizes(n), m)
  <2>1. \A i \in 0..m : (IF i = 0 THEN 0 ELSE f[i - 1] + HeaderSize(Entries[i]))
                         = (IF i = 0 THEN 0 ELSE f[i - 1] + Sizes(n)[i])
    BY DEF Sizes
  <2> QED BY <2>1 DEF SumsTo
<1>2. \E f : Rec(f)
  <2>1. PICK f : SumsTo(f, Sizes(n), m) BY SumsToExist, SizesTyped
  <2>2. Rec(f) BY <1>1, <2>1
  <2> HIDE DEF Rec
  <2> QED BY <2>2
<1>3. Rec(D)
  <2> HIDE DEF Rec
  <2> QED BY <1>2
<1>4. HeaderBytes(m) = D[m] BY DEF HeaderBytes
<1> QED BY <1>1, <1>3, <1>4

LEMMA HeaderBytesStep ==
  ASSUME ReaderInv, NEW n \in Nat, n <= Len(Entries)
  PROVE  /\ HeaderBytes(n) \in Nat
         /\ n = 0 => HeaderBytes(n) = 0
         /\ n # 0 => HeaderBytes(n) = HeaderBytes(n - 1) + HeaderSize(Entries[n])
<1>1. PICK f : SumsTo(f, Sizes(n), n) /\ HeaderBytes(n) = f[n] BY HeaderBytesSum
<1>2. f[n] \in Nat BY <1>1, SizesTyped, SumsToTyped
<1>3. f[n] = IF n = 0 THEN 0 ELSE f[n - 1] + Sizes(n)[n] BY <1>1 DEF SumsTo
<1>4. ASSUME n # 0 PROVE HeaderBytes(n) = HeaderBytes(n - 1) + HeaderSize(Entries[n])
  <2>1. n - 1 \in Nat /\ n - 1 <= n BY <1>4
  <2>2. PICK h : SumsTo(h, Sizes(n), n - 1) /\ HeaderBytes(n - 1) = h[n - 1] BY <2>1, HeaderBytesSum
  <2>3. h[n - 1] = f[n - 1] BY <1>1, <2>1, <2>2, SizesTyped, SumsToAgree
  <2>4. Sizes(n)[n] = HeaderSize(Entries[n]) BY <1>4 DEF Sizes
  <2> QED BY <1>1, <1>3, <1>4, <2>2, <2>3, <2>4
<1> QED BY <1>1, <1>2, <1>3, <1>4

(***************************************************************************)
(* mz_zip_locate_file_binary_search                                        *)
(***************************************************************************)
RankAt(m) == Entries[z.sorted[m + 1]].rank
IndexTyped(n) ==
  /\ Len(z.sorted) = n
  /\ \A m \in 0..(n - 1) : z.sorted[m + 1] \in Nat \ {0} /\ RankAt(m) \in Nat
Ordered(n) == \A a, b \in 0..(n - 1) : a < b => RankAt(a) <= RankAt(b)

Ranges == [l : Int, h : Int, at : Nat]
Middle(s) == s.l + (s.h - s.l) \div 2
Probe(s, rank) ==
  IF s.at # 0 \/ s.l > s.h THEN s
  ELSE IF RankAt(Middle(s)) = rank THEN [s EXCEPT !.at = z.sorted[Middle(s) + 1]]
  ELSE IF RankAt(Middle(s)) < rank THEN [s EXCEPT !.l = Middle(s) + 1]
  ELSE [s EXCEPT !.h = Middle(s) - 1]

\* After k comparisons the name, if it is there and not found yet, lies
\* between l and h, and of the n places at most n - k are left.
Searching(s, k, n, rank) ==
  /\ s \in Ranges /\ s.l >= 0 /\ s.h <= n - 1
  /\ s.at # 0 => \E m \in 0..(n - 1) : s.at = z.sorted[m + 1] /\ RankAt(m) = rank
  /\ s.at = 0 => /\ \A m \in 0..(n - 1) : RankAt(m) = rank => s.l <= m /\ m <= s.h
                 /\ s.l <= s.h => s.h - s.l + 1 <= n - k

LEMMA ProbeNarrows ==
  ASSUME NEW n \in Nat, IndexTyped(n), Ordered(n), NEW rank \in Int, NEW k \in Nat,
         NEW s, Searching(s, k, n, rank)
  PROVE  Searching(Probe(s, rank), k + 1, n, rank)
<1> DEFINE m == Middle(s)
<1>1. s \in Ranges /\ s.l \in Int /\ s.h \in Int /\ s.at \in Nat /\ s.l >= 0 /\ s.h <= n - 1
  BY DEF Searching, Ranges
<1>2. CASE s.at # 0 \/ s.l > s.h
  <2>1. Probe(s, rank) = s BY <1>2 DEF Probe
  <2>2. Searching(s, k + 1, n, rank) BY <1>1, <1>2 DEF Searching
  <2> QED BY <2>1, <2>2
<1>3. CASE s.at = 0 /\ s.l <= s.h
  <2>1. m \in Int /\ s.l <= m /\ m <= s.h BY <1>1, <1>3 DEF Middle
  <2>2. m \in 0..(n - 1) BY <1>1, <2>1
  <2>3. z.sorted[m + 1] \in Nat \ {0} /\ RankAt(m) \in Nat BY <2>2 DEF IndexTyped
  <2>4. s.h - s.l + 1 <= n - k /\ \A j \in 0..(n - 1) : RankAt(j) = rank => s.l <= j /\ j <= s.h
    BY <1>3 DEF Searching
  <2>5. \A j \in 0..(n - 1) : RankAt(j) \in Nat BY DEF IndexTyped
  <2>6. ~(s.l > s.h) BY <1>1, <1>3
  <2> HIDE DEF m
  <2>7. CASE RankAt(m) = rank
    <3>1. Probe(s, rank) = [s EXCEPT !.at = z.sorted[m + 1]] BY <1>3, <2>6, <2>7 DEF Probe, m
    <3>2. PICK t : t = [s EXCEPT !.at = z.sorted[m + 1]] OBVIOUS
    <3>3. t \in Ranges /\ t.l = s.l /\ t.h = s.h /\ t.at = z.sorted[m + 1]
      BY <1>1, <2>3, <3>2 DEF Ranges
    <3>4. Searching(t, k + 1, n, rank) BY <1>1, <2>2, <2>3, <2>7, <3>3 DEF Searching
    <3> QED BY <3>1, <3>2, <3>4
  <2>8. CASE RankAt(m) # rank /\ RankAt(m) < rank
    <3>1. Probe(s, rank) = [s EXCEPT !.l = m + 1] BY <1>3, <2>6, <2>8 DEF Probe, m
    <3>2. PICK t : t = [s EXCEPT !.l = m + 1] OBVIOUS
    <3>3. t \in Ranges /\ t.l = m + 1 /\ t.h = s.h /\ t.at = 0
      BY <1>1, <1>3, <2>1, <3>2 DEF Ranges
    <3>4. ASSUME NEW j \in 0..(n - 1), RankAt(j) = rank PROVE m + 1 <= j
      <4>1. CASE j = m BY <2>8, <3>4, <4>1
      <4>2. CASE j < m
        <5>1. RankAt(j) <= RankAt(m) BY <2>2, <4>2 DEF Ordered
        <5> QED BY <2>3, <2>8, <3>4, <5>1
      <4> QED BY <2>2, <4>1, <4>2
    <3>5. m + 1 <= s.h => s.h - (m + 1) + 1 <= n - (k + 1) BY <1>1, <2>1, <2>4
    <3>6. Searching(t, k + 1, n, rank) BY <1>1, <2>1, <2>4, <3>3, <3>4, <3>5 DEF Searching
    <3> QED BY <3>1, <3>2, <3>6
  <2>9. CASE RankAt(m) # rank /\ ~(RankAt(m) < rank)
    <3>1. Probe(s, rank) = [s EXCEPT !.h = m - 1] BY <1>3, <2>6, <2>9 DEF Probe, m
    <3>2. PICK t : t = [s EXCEPT !.h = m - 1] OBVIOUS
    <3>3. t \in Ranges /\ t.l = s.l /\ t.h = m - 1 /\ t.at = 0
      BY <1>1, <1>3, <2>1, <3>2 DEF Ranges
    <3>4. ASSUME NEW j \in 0..(n - 1), RankAt(j) = rank PROVE j <= m - 1
      <4>1. CASE j = m BY <2>9, <3>4, <4>1
      <4>2. CASE m < j
        <5>1. RankAt(m) <= RankAt(j) BY <2>2, <4>2 DEF Ordered
        <5> QED BY <2>3, <2>9, <3>4, <5>1
      <4> QED BY <2>2, <4>1, <4>2
    <3>5. s.l <= m - 1 => (m - 1) - s.l + 1 <= n - (k + 1) BY <1>1, <2>1, <2>4
    <3>6. Searching(t, k + 1, n, rank) BY <1>1, <2>1, <2>2, <2>4, <3>3, <3>4, <3>5 DEF Searching
    <3> QED BY <3>1, <3>2, <3>6
  <2> QED BY <2>7, <2>8, <2>9
<1> QED BY <1>1, <1>2, <1>3

LEMMA SearchFinds ==
  ASSUME NEW n \in Nat, IndexTyped(n), Ordered(n), NEW rank \in Int
  PROVE  /\ LocateFile(rank) # 0 =>
              \E m \in 0..(n - 1) : LocateFile(rank) = z.sorted[m + 1] /\ RankAt(m) = rank
         /\ LocateFile(rank) = 0 => \A m \in 0..(n - 1) : RankAt(m) # rank
<1> DEFINE Start == [l |-> 0, h |-> n - 1, at |-> 0]
           F == [k \in 1..n |-> [s \in Ranges |-> Probe(s, rank)]]
           Rec(f) == f = [k \in 0..n |-> IF k = 0 THEN Start ELSE Probe(f[k - 1], rank)]
           D == CHOOSE f : Rec(f)
<1>1. Searching(Start, 0, n, rank) BY DEF Searching, Ranges
<1>2. ASSUME NEW f, NEW k \in 0..n,
             \A j \in 0..n : f[j] = IF j = 0 THEN Start ELSE Probe(f[j - 1], rank)
      PROVE  Searching(f[k], k, n, rank)
  <2> DEFINE Bad == {j \in 0..n : ~Searching(f[j], j, n, rank)}
  <2> SUFFICES ASSUME Bad # {} PROVE FALSE OBVIOUS
  <2>1. Bad \in SUBSET Nat OBVIOUS
  <2>2. PICK i \in Bad : \A j \in Bad : i <= j
    <3> HIDE DEF Bad
    <3> QED BY <2>1, LeastExists
  <2>3. i \in 0..n /\ ~Searching(f[i], i, n, rank) OBVIOUS
  <2>4. i # 0
    <3> HIDE DEF Start
    <3> QED BY <1>1, <1>2, <2>3
  <2>5. i - 1 \in 0..n /\ i - 1 \notin Bad
    <3>1. i \in Nat /\ i - 1 \in 0..n /\ ~(i <= i - 1) BY <2>3, <2>4
    <3> HIDE DEF Bad
    <3> QED BY <2>2, <3>1
  <2>6. Searching(f[i - 1], i - 1, n, rank) BY <2>5
  <2>7. i - 1 \in Nat /\ (i - 1) + 1 = i BY <2>3, <2>4
  <2>8. Searching(Probe(f[i - 1], rank), (i - 1) + 1, n, rank) BY <2>6, <2>7, ProbeNarrows
  <2>9. f[i] = Probe(f[i - 1], rank)
    <3> HIDE DEF Start
    <3> QED BY <1>2, <2>3, <2>4
  <2> QED BY <2>3, <2>7, <2>8, <2>9
<1>3. \E f : Rec(f)
  <2>1. PICK f : Recursive(f, n, Start, F)
    <3> HIDE DEF F, Start
    <3> QED BY RecursionExists
  <2>2. \A k \in 0..n : f[k] = IF k = 0 THEN Start ELSE F[k][f[k - 1]]
    <3> HIDE DEF F, Start
    <3> QED BY <2>1 DEF Recursive
  <2> DEFINE Bad == {j \in 0..n : ~Searching(f[j], j, n, rank)}
  <2>3. Bad = {}
    <3> SUFFICES ASSUME Bad # {} PROVE FALSE OBVIOUS
    <3>1. Bad \in SUBSET Nat OBVIOUS
    <3>2. PICK i \in Bad : \A j \in Bad : i <= j
      <4> HIDE DEF Bad
      <4> QED BY <3>1, LeastExists
    <3>3. i \in 0..n /\ ~Searching(f[i], i, n, rank) OBVIOUS
    <3>4. i # 0
      <4> HIDE DEF Start, F
      <4> QED BY <1>1, <2>2, <3>3
    <3>5. i - 1 \in 0..n /\ i - 1 \notin Bad
      <4>1. i \in Nat /\ i - 1 \in 0..n /\ ~(i <= i - 1) BY <3>3, <3>4
      <4> HIDE DEF Bad
      <4> QED BY <3>2, <4>1
    <3>6. Searching(f[i - 1], i - 1, n, rank) BY <3>5
    <3>7. i - 1 \in Nat /\ (i - 1) + 1 = i /\ i \in 1..n BY <3>3, <3>4
    <3>8. Searching(Probe(f[i - 1], rank), (i - 1) + 1, n, rank) BY <3>6, <3>7, ProbeNarrows
    <3>9. f[i] = F[i][f[i - 1]]
      <4> HIDE DEF Start, F
      <4> QED BY <2>2, <3>3, <3>4
    <3>10. F[i][f[i - 1]] = Probe(f[i - 1], rank)
      <4>1. f[i - 1] \in Ranges BY <3>6 DEF Searching
      <4> QED BY <3>7, <4>1
    <3> HIDE DEF F
    <3> QED BY <3>3, <3>7, <3>8, <3>9, <3>10
  <2>4. \A k \in 0..n : (IF k = 0 THEN Start ELSE F[k][f[k - 1]])
                         = (IF k = 0 THEN Start ELSE Probe(f[k - 1], rank))
    <3> SUFFICES ASSUME NEW k \in 0..n, k # 0 PROVE F[k][f[k - 1]] = Probe(f[k - 1], rank) OBVIOUS
    <3>1. k - 1 \in 0..n /\ k \in 1..n OBVIOUS
    <3>2. f[k - 1] \in Ranges
      <4>1. Searching(f[k - 1], k - 1, n, rank) BY <2>3, <3>1
      <4> QED BY <4>1 DEF Searching
    <3> QED BY <3>1, <3>2
  <2>5. Rec(f)
    <3> HIDE DEF F, Start
    <3> QED BY <2>1, <2>4 DEF Recursive
  <2> HIDE DEF Rec
  <2> QED BY <2>5
<1>4. Rec(D)
  <2> HIDE DEF Rec
  <2> QED BY <1>3
<1>5. LocateFile(rank) = D[n].at
  <2>1. Len(z.sorted) = n BY DEF IndexTyped
  <2> QED BY <2>1 DEF LocateFile, Probe, Middle, RankAt
<1>6. \A j \in 0..n : D[j] = IF j = 0 THEN Start ELSE Probe(D[j - 1], rank)
  <2> HIDE DEF D, Start
  <2> QED BY <1>4
<1> HIDE DEF D
<1>7. Searching(D[n], n, n, rank)
  <2> HIDE DEF Start
  <2> QED BY <1>2, <1>6
<1>8. D[n].at = 0 => \A m \in 0..(n - 1) : RankAt(m) # rank
  <2>1. D[n].l \in Int /\ D[n].h \in Int BY <1>7 DEF Searching, Ranges
  <2>2. D[n].at = 0 => ~(D[n].l <= D[n].h) BY <1>7, <2>1 DEF Searching
  <2> QED BY <1>7, <2>1, <2>2 DEF Searching
<1> QED BY <1>5, <1>7, <1>8 DEF Searching

(***************************************************************************)
(* The directory's invariant                                               *)
(***************************************************************************)
Ranks == [m \in 0..(z.total - 1) |-> RankAt(m)]

\* The bytes of the headers indexed so far and the bytes left are those of
\* the directory, which ends before the end records; what was indexed fits.
SpanInv ==
  /\ z.start \in Int /\ z.cdirOfs \in Int /\ left \in Int
  /\ pc \in {"scan", "end"} => z.size = disk.size
  /\ pc \in {"read", "index", "sort", "ready"} =>
       /\ z.start >= 0 /\ z.start + z.size = disk.size /\ left >= 0
       /\ Len(z.offsets) <= Len(Entries)
       /\ z.start + z.cdirOfs + HeaderBytes(Len(z.offsets)) + left <= ofs
       /\ \A i \in 1..Len(z.offsets) :
            Entries[i].comp # U32 => Entries[i].ofs + LdhSize + Entries[i].comp <= z.size
  /\ pc \in {"sort", "ready"} => Len(z.offsets) = z.total

\* The index is the order of the directory until it is sorted, a permutation
\* of it while it is sorted, and in the order of the names afterwards.
Permuted ==
  /\ z.sorted \in Seq(Nat) /\ Len(z.sorted) = z.total
  /\ \A k \in 1..z.total : z.sorted[k] \in 1..z.total
  /\ \A i \in 1..z.total : \E k \in 1..z.total : z.sorted[k] = i

HeapShape ==
  /\ z.heap \in [root : Nat, start : Nat, end : Nat]
  /\ z.heap.start <= z.heap.root /\ z.heap.root < z.heap.end /\ z.heap.end <= z.total
  /\ HeapBut(Ranks, z.heap.start, z.heap.end, z.heap.root)
  /\ TailSorted(Ranks, z.heap.end, z.total)

IndexInv ==
  /\ pc \in {"closed", "scan", "end", "read"} => z.sorted = <<>>
  /\ pc \in {"read", "index"} => z.heap = TopOf(z.total)
  /\ pc = "index" => /\ z.sorted \in Seq(Nat) /\ Len(z.sorted) = Len(z.offsets)
                     /\ \A k \in 1..Len(z.sorted) : z.sorted[k] = k
  /\ pc \in {"sort", "ready"} => Permuted
  /\ pc = "sort" /\ z.total > 1 => HeapShape
  /\ pc = "ready" => Ordered(z.total)

\* The sums depend on the entries only.
BytesUpTo(es, n) ==
  LET sum[i \in 0..n] == IF i = 0 THEN 0 ELSE sum[i - 1] + HeaderSize(es[i]) IN sum[n]

LEMMA HeaderBytesIs == \A n : HeaderBytes(n) = BytesUpTo(Entries, n)
BY DEF HeaderBytes, BytesUpTo

DirInv == SpanInv /\ IndexInv

\* Once the archive is rejected or closed nothing is left to say of it.
LEMMA ClosedKeepsDir ==
  ASSUME DirInv, pc' \in {"rejected", "ended"}, z'.start = z.start, z'.cdirOfs = z.cdirOfs, left' = left
  PROVE  DirInv'
BY DEF DirInv, SpanInv, IndexInv

LEMMA EndInternalSpan ==
  ASSUME ReaderInv
  PROVE  EndInternal.start = z.start /\ EndInternal.cdirOfs = z.cdirOfs
BY DEF ReaderInv, EndInternal, ArchiveFields

LEMMA RejectKeepsDir ==
  ASSUME ReaderInv, DirInv, Reject PROVE DirInv'
BY EndInternalSpan, ClosedKeepsDir DEF Reject

LEMMA SameReaderKeepsDir ==
  ASSUME DirInv, UNCHANGED readerVars PROVE DirInv'
<1>1. UNCHANGED <<disk, pc, z, ofs, left>> BY DEF readerVars
<1>2. Entries' = Entries BY <1>1 DEF Entries
<1>3. SpanInv' BY <1>1, <1>2, HeaderBytesIs DEF DirInv, SpanInv, HeaderBytes, BytesUpTo
<1>4. Ranks' = Ranks BY <1>1, <1>2 DEF Ranks, RankAt
<1>5. HeapShape' = HeapShape BY <1>1, <1>4 DEF HeapShape
<1>6. IndexInv' BY <1>1, <1>2, <1>5 DEF DirInv, IndexInv, Permuted, Ordered, RankAt
<1> QED BY <1>3, <1>6 DEF DirInv

LEMMA InitFileKeepsDir ==
  ASSUME ReaderInv, DirInv, InitFile PROVE DirInv'
<1>1. /\ pc = "closed" /\ pc' = "scan" /\ UNCHANGED <<disk, left>>
      /\ z'.size = disk.size /\ z'.start = z.start /\ z'.cdirOfs = z.cdirOfs
      /\ z'.sorted = z.sorted
  BY DEF InitFile, ReaderInv, ArchiveFields
<1> QED BY <1>1 DEF DirInv, SpanInv, IndexInv

LEMMA InitFailsKeepsDir ==
  ASSUME ReaderInv, DirInv, InitFails PROVE DirInv'
<1>1. pc' = "rejected" /\ z'.start = z.start /\ z'.cdirOfs = z.cdirOfs /\ left' = left
  BY DEF InitFails, ReaderInv, ArchiveFields
<1> QED BY <1>1, ClosedKeepsDir

LEMMA ScanKeepsDir ==
  ASSUME ReaderInv, DirInv, ScanChunk PROVE DirInv'
<1>1. CASE Reject BY <1>1, RejectKeepsDir
<1>2. CASE ~Reject
  <2>1. pc = "scan" /\ pc' \in {"scan", "end"} /\ UNCHANGED <<disk, z, left>>
    BY <1>2 DEF ScanChunk
  <2> QED BY <2>1 DEF DirInv, SpanInv, IndexInv
<1> QED BY <1>1, <1>2

LEMMA ReadEndKeepsDir ==
  ASSUME ReaderInv, ReaderInv', DirInv, ReadEnd PROVE DirInv'
<1>1. CASE Reject BY <1>1, RejectKeepsDir
<1>2. CASE ~Reject
  <2> DEFINE f == Fields
             a == ArchiveOfs(f)
  <2>1. pc = "end" /\ FieldsFit /\ FieldsSane(f) /\ StartFits(f) BY <1>2 DEF ReadEnd
  <2>2. /\ f.total \in Nat /\ f.cdirSize \in Nat /\ f.cdirOfs \in Nat
    BY <2>1, FieldsTyped
  <2>3. ofs \in Int /\ z.size \in Int /\ {End64Size, Loc64Size} \subseteq Nat
    BY SizeAssumption DEF ReaderInv
  <2>4. a \in Int /\ a >= 0 /\ a + f.cdirOfs + f.cdirSize <= ofs
    <3> HIDE DEF f
    <3> QED BY <2>1, <2>2, <2>3 DEF ArchiveOfs, StartFits
  <2>5. /\ z' = [z EXCEPT !.total = f.total, !.zip64 = HasLocator, !.numDisk = f.numDisk,
                          !.cdirOfs = f.cdirOfs, !.heap = TopOf(f.total),
                          !.start = a, !.size = @ - a]
        /\ left' = f.cdirSize
        /\ pc' = IF f.total = 0 THEN "sort" ELSE "read"
        /\ UNCHANGED <<disk, ofs>>
    BY <1>2 DEF ReadEnd
  <2> HIDE DEF a, f
  <2>6. /\ z'.total = f.total /\ z'.cdirOfs = f.cdirOfs /\ z'.heap = TopOf(f.total)
        /\ z'.start = a /\ z'.size = z.size - a /\ z'.offsets = z.offsets /\ z'.sorted = z.sorted
    BY <2>5 DEF ReaderInv, ArchiveFields
  <2>7. z.offsets = <<>> /\ z.sorted = <<>> /\ z.size = disk.size
    BY <2>1 DEF ReaderInv, DirInv, SpanInv, IndexInv
  <2>8. Len(Entries) \in Nat /\ Entries' = Entries BY <2>5, LayoutAssumption DEF ReaderInv, Entries
  <2>9. BytesUpTo(Entries', Len(z'.offsets)) = 0
    <3>1. 0 \in Nat /\ 0 <= Len(Entries) BY <2>8
    <3>2. HeaderBytes(0) = 0 BY <3>1, HeaderBytesStep
    <3>3. BytesUpTo(Entries, 0) = 0 BY <3>2, HeaderBytesIs
    <3>4. Len(z'.offsets) = 0 BY <2>6, <2>7
    <3> QED BY <2>8, <3>3, <3>4
  <2>10. HeaderBytes(Len(z.offsets))' = BytesUpTo(Entries', Len(z'.offsets))
    BY DEF HeaderBytes, BytesUpTo
  <2>11. SpanInv'
    <3>1. /\ z'.start >= 0 /\ z'.start + z'.size = disk'.size /\ left' >= 0
          /\ Len(z'.offsets) = 0
          /\ z'.start + z'.cdirOfs + 0 + left' <= ofs'
      BY <2>2, <2>3, <2>4, <2>5, <2>6, <2>7
    <3> QED BY <2>2, <2>4, <2>5, <2>6, <2>8, <2>9, <2>10, <3>1 DEF SpanInv
  <2>12. IndexInv'
    <3>1. z'.sorted = <<>> /\ z'.sorted \in Seq(Nat) /\ Len(z'.sorted) = 0 BY <2>6, <2>7
    <3>2. pc' \in {"read", "sort"} /\ (pc' = "sort" => z'.total = 0) BY <2>5, <2>6
    <3>3. pc' = "sort" => Permuted' BY <3>1, <3>2 DEF Permuted
    <3>4. ~(pc' = "sort" /\ z'.total > 1) BY <3>2
    <3> QED BY <2>6, <3>1, <3>2, <3>3, <3>4 DEF IndexInv
  <2> QED BY <2>11, <2>12 DEF DirInv
<1> QED BY <1>1, <1>2

LEMMA ReadDirKeepsDir ==
  ASSUME ReaderInv, DirInv, ReadDir PROVE DirInv'
<1>1. CASE Reject BY <1>1, RejectKeepsDir
<1>2. CASE ~Reject
  <2>1. pc = "read" /\ pc' = "index" /\ UNCHANGED <<disk, z, ofs, left>> BY <1>2 DEF ReadDir
  <2>2. Entries' = Entries BY <2>1 DEF Entries
  <2>3. z.offsets = <<>> /\ z.sorted = <<>> BY <2>1 DEF ReaderInv, DirInv, IndexInv
  <2>4. SpanInv' BY <2>1, <2>2 DEF DirInv, SpanInv, HeaderBytes
  <2>5. IndexInv' BY <2>1, <2>3 DEF DirInv, IndexInv
  <2> QED BY <2>4, <2>5 DEF DirInv
<1> QED BY <1>1, <1>2

\* The heap to begin with: nothing behind its last parent has a child.
LEMMA TopIsHeap ==
  ASSUME NEW n \in Nat, n > 1, NEW v
  PROVE  /\ TopOf(n) \in [root : Nat, start : Nat, end : Nat]
         /\ TopOf(n).root = TopOf(n).start /\ TopOf(n).end = n /\ TopOf(n).root < n
         /\ HeapBut(v, TopOf(n).start, n, TopOf(n).root)
         /\ TailSorted(v, n, n)
<1> DEFINE t == (n - 2) \div 2
<1>1. TopOf(n) = [root |-> t, start |-> t, end |-> n] BY DEF TopOf
<1>2. t \in Nat /\ t < n /\ 2 * t + 1 >= n - 2 BY Z3
<1>3. \A i \in Nat : (i >= t /\ i # t) => 2 * i + 1 >= n BY <1>2
<1> HIDE DEF t
<1>4. \A i \in Nat : (i >= t /\ i # t) => AtRest(v, n, i) BY <1>3 DEF AtRest, Kids
<1>5. \A i \in Nat : ~(i >= t /\ t \in Kids(i)) BY <1>2 DEF Kids
<1>6. HeapBut(v, t, n, t) BY <1>4, <1>5 DEF HeapBut
<1>7. TailSorted(v, n, n) BY DEF TailSorted
<1> QED BY <1>1, <1>2, <1>6, <1>7

LEMMA IndexKeepsDir ==
  ASSUME ReaderInv, ReaderInv', DirInv, IndexEntry PROVE DirInv'
<1>1. CASE Reject BY <1>1, RejectKeepsDir
<1>2. CASE ~Reject
  <2> DEFINE i == Len(z.offsets) + 1
             e == Entries[i]
  <2>1. /\ pc = "index" /\ i <= Len(Entries) /\ EntrySane(e)
        /\ z'.offsets = Append(z.offsets, i) /\ z'.sorted = Append(z.sorted, i)
        /\ z'.total = z.total /\ z'.size = z.size /\ z'.start = z.start /\ z'.cdirOfs = z.cdirOfs
        /\ z'.heap = z.heap
        /\ left' = left - HeaderSize(e)
        /\ pc' = IF i = z.total THEN "sort" ELSE "index"
        /\ UNCHANGED <<disk, ofs>>
    BY <1>2 DEF IndexEntry, HeaderAt, ReaderInv, ArchiveFields
  <2>2. z.offsets \in Seq(Nat) /\ Len(Entries) \in Nat /\ Entries' = Entries /\ z.total \in Nat
    BY <2>1, LayoutAssumption DEF ReaderInv, Entries
  <2>3. i \in Nat /\ i - 1 = Len(z.offsets) /\ Len(z'.offsets) = i /\ i \in 1..Len(Entries)
    BY <2>1, <2>2
  <2>4. IsEntry(e) BY <2>3, EntryTyped
  <2> HIDE DEF i, e
  <2>5. HeaderSize(e) \in Nat
    <3>1. e.nameLen \in Nat /\ e.extraLen \in Nat /\ e.commentLen \in Nat BY <2>4 DEF IsEntry
    <3>2. CdhSize \in Nat BY SizeAssumption
    <3> QED BY <3>1, <3>2 DEF HeaderSize
  <2>6. /\ z.start \in Int /\ z.cdirOfs \in Int /\ left \in Int /\ ofs \in Int
        /\ z.start >= 0 /\ z.start + z.size = disk.size /\ left >= 0
        /\ z.start + z.cdirOfs + HeaderBytes(i - 1) + left <= ofs
        /\ \A k \in 1..(i - 1) :
            Entries[k].comp # U32 => Entries[k].ofs + LdhSize + Entries[k].comp <= z.size
    BY <2>1, <2>3 DEF ReaderInv, DirInv, SpanInv
  <2>7. HeaderBytes(i) = HeaderBytes(i - 1) + HeaderSize(e) /\ HeaderBytes(i - 1) \in Nat
    <3>1. i - 1 \in Nat /\ i - 1 <= Len(Entries) /\ i # 0 BY <2>2, <2>3
    <3>2. HeaderBytes(i - 1) \in Nat BY <3>1, HeaderBytesStep
    <3>3. HeaderBytes(i) = HeaderBytes(i - 1) + HeaderSize(Entries[i]) BY <2>1, <2>3, <3>1, HeaderBytesStep
    <3> QED BY <3>2, <3>3 DEF e
  <2>8. HeaderBytes(Len(z.offsets))' = HeaderBytes(i)
    <3>1. HeaderBytes(Len(z.offsets))' = BytesUpTo(Entries', Len(z'.offsets)) BY DEF HeaderBytes, BytesUpTo
    <3>2. HeaderBytes(i) = BytesUpTo(Entries, i) BY HeaderBytesIs
    <3> QED BY <2>2, <2>3, <3>1, <3>2
  <2>9. HeaderSize(e) <= left /\ (e.comp # U32 => e.ofs + LdhSize + e.comp <= z.size)
    BY <2>1 DEF EntrySane, DataFits
  <2>10. SpanInv'
    <3>1. left' \in Int /\ left' >= 0 /\ z'.start + z'.cdirOfs + HeaderBytes(i) + left' <= ofs'
      <4>1. left' = left - HeaderSize(e) /\ ofs' = ofs /\ z'.start = z.start /\ z'.cdirOfs = z.cdirOfs BY <2>1
      <4>2. PICK h \in Nat : h = HeaderSize(e) BY <2>5
      <4>3. PICK b \in Nat : b = HeaderBytes(i - 1) BY <2>7
      <4>4. HeaderBytes(i) = b + h /\ h <= left /\ z.start + z.cdirOfs + b + left <= ofs
        BY <2>6, <2>7, <2>9, <4>2, <4>3
      <4> QED BY <2>6, <4>1, <4>2, <4>4
    <3>2. ASSUME NEW k \in 1..i, Entries[k].comp # U32
          PROVE  Entries[k].ofs + LdhSize + Entries[k].comp <= z.size
      <4>1. CASE k = i BY <2>9, <3>2, <4>1 DEF e
      <4>2. CASE k # i
        <5>1. k \in 1..(i - 1) BY <2>3, <4>2
        <5> QED BY <2>6, <3>2, <5>1
      <4> QED BY <4>1, <4>2
    <3>3. pc' \in {"index", "sort"} /\ (pc' = "sort" => i = z.total) BY <2>1
    <3> QED BY <2>1, <2>2, <2>3, <2>6, <2>8, <3>1, <3>2, <3>3 DEF SpanInv
  <2>11. /\ z'.sorted \in Seq(Nat) /\ Len(z'.sorted) = i /\ \A k \in 1..i : z'.sorted[k] = k
    <3>1. z.sorted \in Seq(Nat) /\ Len(z.sorted) = i - 1 /\ \A k \in 1..(i - 1) : z.sorted[k] = k
      BY <2>1, <2>3 DEF DirInv, IndexInv
    <3>2. z'.sorted \in Seq(Nat) /\ Len(z'.sorted) = i /\ z'.sorted[i] = i
      BY <2>1, <2>3, <3>1
    <3>3. \A k \in 1..(i - 1) : z'.sorted[k] = z.sorted[k] BY <2>1, <2>3, <3>1
    <3>4. ASSUME NEW k \in 1..i PROVE z'.sorted[k] = k
      <4>1. CASE k = i BY <3>2, <4>1
      <4>2. CASE k # i
        <5>1. k \in 1..(i - 1) BY <2>3, <4>2
        <5> QED BY <3>1, <3>3, <5>1
      <4> QED BY <4>1, <4>2
    <3> QED BY <3>2, <3>4
  <2>12. z'.heap = TopOf(z'.total) BY <2>1 DEF DirInv, IndexInv
  <2>13. ASSUME pc' = "sort" PROVE Permuted' /\ (z'.total > 1 => HeapShape')
    <3>1. z'.total = i BY <2>1, <2>13
    <3>2. Permuted' BY <2>3, <2>11, <3>1 DEF Permuted
    <3>3. ASSUME i > 1 PROVE HeapShape'
      <4>1. PICK n \in Nat : n = i BY <2>3
      <4>2. PICK v : v = Ranks' OBVIOUS
      <4>3. /\ TopOf(n) \in [root : Nat, start : Nat, end : Nat]
            /\ TopOf(n).root = TopOf(n).start /\ TopOf(n).end = n /\ TopOf(n).root < n
            /\ HeapBut(v, TopOf(n).start, n, TopOf(n).root)
            /\ TailSorted(v, n, n)
        BY <3>3, <4>1, TopIsHeap
      <4>4. z'.heap = TopOf(n) /\ z'.total = n BY <2>12, <3>1, <4>1
      <4> QED BY <4>2, <4>3, <4>4 DEF HeapShape
    <3> QED BY <3>1, <3>2, <3>3
  <2>14. IndexInv'
    <3>1. pc' \in {"index", "sort"} BY <2>1
    <3> QED BY <2>3, <2>11, <2>12, <2>13, <3>1 DEF IndexInv
  <2> QED BY <2>10, <2>14 DEF DirInv
<1> QED BY <1>1, <1>2

LEMMA RanksTyped ==
  ASSUME ReaderInv, pc \in {"sort", "ready"}, Permuted
  PROVE  /\ Ranks \in [0..(z.total - 1) -> Nat]
         /\ IndexTyped(z.total)
         /\ \A k \in 1..z.total : Entries[z.sorted[k]].rank \in Nat
<1>1. z.total \in Nat /\ z.total <= Len(Entries) /\ Len(Entries) \in Nat
  BY LayoutAssumption DEF ReaderInv, Entries
<1>2. ASSUME NEW k \in 1..z.total
      PROVE  z.sorted[k] \in Nat \ {0} /\ Entries[z.sorted[k]].rank \in Nat
  <2>1. z.sorted[k] \in 1..Len(Entries) BY <1>1 DEF Permuted
  <2>2. IsEntry(Entries[z.sorted[k]]) BY <2>1, EntryTyped
  <2> QED BY <2>1, <2>2, SMTT(30) DEF IsEntry
<1>3. ASSUME NEW m \in 0..(z.total - 1)
      PROVE  z.sorted[m + 1] \in Nat \ {0} /\ RankAt(m) \in Nat
  <2>1. m + 1 \in 1..z.total BY <1>1
  <2> QED BY <1>2, <2>1 DEF RankAt
<1>4. Len(z.sorted) = z.total BY DEF Permuted
<1> QED BY <1>2, <1>3, <1>4 DEF Ranks, IndexTyped

LEMMA SwapKeepsIndex ==
  ASSUME ReaderInv, Permuted, NEW a \in 0..(z.total - 1), NEW b \in 0..(z.total - 1), a # b,
         z'.sorted = SwapIn(z.sorted, a, b), z'.total = z.total, disk' = disk
  PROVE  Permuted' /\ Ranks' = Exchange(Ranks, a, b)
<1> DEFINE n == z.total
           s == z.sorted
           t == SwapIn(s, a, b)
<1>1. n \in Nat /\ s \in Seq(Nat) /\ Len(s) = n /\ DOMAIN s = 1..n BY DEF ReaderInv, Permuted
<1>2. a + 1 \in 1..n /\ b + 1 \in 1..n /\ a + 1 # b + 1 BY <1>1
<1>3. s[a + 1] \in 1..n /\ s[b + 1] \in 1..n BY <1>2 DEF Permuted
<1>4. /\ t[a + 1] = s[b + 1] /\ t[b + 1] = s[a + 1] /\ DOMAIN t = 1..n
      /\ \A k \in 1..n : (k # a + 1 /\ k # b + 1) => t[k] = s[k]
  BY <1>1, <1>2 DEF SwapIn
<1>5. t \in Seq(Nat) /\ Len(t) = n
  BY <1>1, <1>2, <1>3, SMTT(30) DEF SwapIn
<1> HIDE DEF t
<1>6. \A k \in 1..n : t[k] \in 1..n
  <2>1. \A k \in 1..n : s[k] \in 1..n BY DEF Permuted
  <2> QED BY <1>3, <1>4, <2>1
<1>7. ASSUME NEW i \in 1..n PROVE \E k \in 1..n : t[k] = i
  <2>1. PICK k \in 1..n : s[k] = i BY DEF Permuted
  <2>2. CASE k = a + 1 BY <1>2, <1>4, <2>1, <2>2
  <2>3. CASE k = b + 1 BY <1>2, <1>4, <2>1, <2>3
  <2>4. CASE k # a + 1 /\ k # b + 1 BY <1>4, <2>1, <2>4
  <2> QED BY <2>2, <2>3, <2>4
<1>8. z'.sorted = t BY DEF t
<1>9. Permuted' BY <1>5, <1>6, <1>7, <1>8 DEF Permuted
<1>10. Entries' = Entries BY DEF Entries
<1>11. Ranks' = [m \in 0..(n - 1) |-> Entries[t[m + 1]].rank] BY <1>8, <1>10 DEF Ranks, RankAt
<1>12. /\ DOMAIN Ranks = 0..(n - 1)
       /\ \A m \in 0..(n - 1) : Ranks[m] = Entries[s[m + 1]].rank
  BY DEF Ranks, RankAt
<1>13. ASSUME NEW m \in 0..(n - 1) PROVE Entries[t[m + 1]].rank = Exchange(Ranks, a, b)[m]
  <2>1. m + 1 \in 1..n BY <1>1
  <2>2. CASE m = a BY <1>1, <1>4, <1>12, <2>2 DEF Exchange
  <2>3. CASE m = b BY <1>1, <1>4, <1>12, <2>3 DEF Exchange
  <2>4. CASE m # a /\ m # b
    <3>1. m + 1 # a + 1 /\ m + 1 # b + 1 BY <1>1, <2>4
    <3>2. t[m + 1] = s[m + 1] BY <1>4, <2>1, <3>1
    <3> QED BY <1>12, <2>4, <3>2 DEF Exchange
  <2> QED BY <2>2, <2>3, <2>4
<1>14. Exchange(Ranks, a, b) = [m \in 0..(n - 1) |-> Exchange(Ranks, a, b)[m]]
  BY <1>12 DEF Exchange
<1>15. Ranks' = Exchange(Ranks, a, b) BY <1>11, <1>13, <1>14
<1> QED BY <1>9, <1>15

LEMMA SortKeepsDir ==
  ASSUME ReaderInv, ReaderInv', DirInv, SortStep PROVE DirInv'
<1> DEFINE n == z.total
           h == z.heap
           v == Ranks
           one == 2 * h.root + 1
           child == LargerChild(z.sorted, one, h.end)
<1>1. /\ pc = "sort" /\ pc' \in {"sort", "ready"} /\ UNCHANGED <<disk, ofs, left>>
      /\ z'.total = z.total /\ z'.offsets = z.offsets /\ z'.size = z.size /\ z'.start = z.start
      /\ z'.cdirOfs = z.cdirOfs
  BY DEF SortStep, ReaderInv, ArchiveFields
<1>2. Entries' = Entries BY <1>1 DEF Entries
<1>3. SpanInv' BY <1>1, <1>2 DEF DirInv, SpanInv, HeaderBytes
<1>4. Permuted /\ n \in Nat /\ Len(z.sorted) = n BY <1>1 DEF DirInv, IndexInv, ReaderInv, Permuted
<1>5. v \in [0..(n - 1) -> Nat] /\ \A m \in 0..(n - 1) : v[m] = Entries[z.sorted[m + 1]].rank
  BY <1>1, <1>4, RanksTyped DEF Ranks, RankAt
<1>6. CASE Len(z.sorted) <= 1
  <2>1. pc' = "ready" /\ z' = z BY <1>6 DEF SortStep
  <2>2. n <= 1 BY <1>4, <1>6
  <2>3. Ordered(n)' BY <1>1, <1>4, <2>2 DEF Ordered
  <2>4. Permuted' BY <1>4, <2>1 DEF Permuted
  <2>5. IndexInv' BY <2>1, <2>3, <2>4 DEF IndexInv, Ordered
  <2> QED BY <1>3, <2>5 DEF DirInv
<1>7. CASE ~(Len(z.sorted) <= 1)
  <2>1. n > 1 /\ HeapShape BY <1>1, <1>4, <1>7 DEF DirInv, IndexInv
  <2>2. /\ h \in [root : Nat, start : Nat, end : Nat] /\ h.root \in Nat /\ h.start \in Nat /\ h.end \in Nat
        /\ h.start <= h.root /\ h.root < h.end /\ h.end <= n
        /\ HeapBut(v, h.start, h.end, h.root) /\ TailSorted(v, h.end, n)
    BY <2>1 DEF HeapShape
  <2>3. one < h.end =>
          /\ child \in Kids(h.root) /\ child < h.end
          /\ \A c \in Kids(h.root) : c < h.end => v[c] <= v[child]
    <3> SUFFICES ASSUME one < h.end
                 PROVE  /\ child \in Kids(h.root) /\ child < h.end
                        /\ \A c \in Kids(h.root) : c < h.end => v[c] <= v[child]
      OBVIOUS
    <3>a. one \in Nat
      <4> HIDE DEF h
      <4> QED BY <2>2
    <3> HIDE DEF one, v, h
    <3>b. one \in 0..(n - 1) /\ (one + 1 < h.end => one + 1 \in 0..(n - 1))
      <4> HIDE DEF n
      <4> QED BY <1>4, <2>2, <3>a
    <3>1. one \in 0..(n - 1) /\ v[one] = Entries[z.sorted[one + 1]].rank BY <1>5, <3>b
    <3>2. one + 1 < h.end => one + 1 \in 0..(n - 1) /\ v[one + 1] = Entries[z.sorted[one + 2]].rank
      <4> SUFFICES ASSUME one + 1 < h.end
                   PROVE  one + 1 \in 0..(n - 1) /\ v[one + 1] = Entries[z.sorted[one + 2]].rank
        OBVIOUS
      <4>1. (one + 1) + 1 = one + 2 BY <3>a
      <4>2. v[one + 1] = Entries[z.sorted[(one + 1) + 1]].rank BY <1>5, <3>b
      <4> QED BY <3>b, <4>1, <4>2
    <3>3. child = IF one + 1 < h.end /\ v[one] < v[one + 1] THEN one + 1 ELSE one
      BY <3>1, <3>2 DEF LargerChild, NameLess, h
    <3>4. v[one] \in Nat /\ (one + 1 < h.end => v[one + 1] \in Nat) BY <1>5, <3>1, <3>2
    <3>5. Kids(h.root) = {one, one + 1} BY <2>2 DEF Kids, one
    <3> HIDE DEF child
    <3>6. CASE one + 1 < h.end /\ v[one] < v[one + 1] BY <3>3, <3>4, <3>5, <3>6
    <3>7. CASE ~(one + 1 < h.end /\ v[one] < v[one + 1]) BY <3>3, <3>4, <3>5, <3>7
    <3> QED BY <3>6, <3>7
  <2>4. CASE one < h.end /\ NameLess(z.sorted[h.root + 1], z.sorted[child + 1])
    <3>1. child \in Nat /\ child > h.root BY <2>2, <2>3, <2>4, KidsApart
    <3>2. h.root \in 0..(n - 1) /\ child \in 0..(n - 1) /\ h.root # child
      BY <1>4, <2>2, <2>3, <2>4, <3>1, SMTT(30)
    <3>3. v[h.root] < v[child] BY <1>5, <2>4, <3>2 DEF NameLess
    <3>4. /\ z' = [z EXCEPT !.sorted = SwapIn(@, h.root, child), !.heap.root = child] /\ pc' = "sort"
      BY <1>1, <1>7, <2>4 DEF SortStep
    <3>5. /\ z'.sorted = SwapIn(z.sorted, h.root, child)
          /\ z'.heap.root = child /\ z'.heap.start = h.start /\ z'.heap.end = h.end
          /\ z'.heap \in [root : Nat, start : Nat, end : Nat]
      <4> HIDE DEF child
      <4> QED BY <2>2, <3>1, <3>4 DEF ReaderInv, ArchiveFields
    <3> HIDE DEF child, v, h, one
    <3>6. Permuted' /\ Ranks' = Exchange(Ranks, h.root, child)
      BY <1>1, <1>4, <3>2, <3>5, SwapKeepsIndex DEF n
    <3>7. h.end \in 0..n BY <2>2
    <3>8. HeapBut(Exchange(v, h.root, child), h.start, h.end, child)
          /\ TailSorted(Exchange(v, h.root, child), h.end, n)
      BY <1>4, <1>5, <2>2, <2>3, <2>4, <3>3, <3>7, SinkKeepsHeap
    <3>9. HeapShape' BY <1>1, <2>2, <2>3, <2>4, <3>1, <3>5, <3>6, <3>8 DEF HeapShape, v
    <3>10. IndexInv' BY <3>4, <3>6, <3>9 DEF IndexInv
    <3> QED BY <1>3, <3>10 DEF DirInv
  <2>5. CASE ~(one < h.end /\ NameLess(z.sorted[h.root + 1], z.sorted[child + 1]))
    <3>1. AtRest(v, h.end, h.root)
      <4>1. CASE ~(one < h.end)
        <5>1. \A c \in Kids(h.root) : ~(c < h.end) BY <2>2, <4>1 DEF Kids
        <5> QED BY <5>1 DEF AtRest
      <4>2. CASE one < h.end
        <5>1. child \in 0..(n - 1) /\ h.root \in 0..(n - 1)
          <6>1. child \in Nat BY <2>2, <2>3, <4>2, KidsApart
          <6> QED BY <1>4, <2>2, <2>3, <4>2, <6>1
        <5>2. ~(v[h.root] < v[child]) BY <1>5, <2>5, <4>2, <5>1 DEF NameLess
        <5>3. v[h.root] \in Nat /\ v[child] \in Nat BY <1>5, <5>1
        <5>4. \A c \in Kids(h.root) : c < h.end => v[c] <= v[child] BY <2>3, <4>2
        <5>5. \A c \in Kids(h.root) : c < h.end => v[c] \in Nat
          <6> SUFFICES ASSUME NEW c \in Kids(h.root), c < h.end PROVE v[c] \in Nat OBVIOUS
          <6>1. c \in Nat BY <2>2, KidsApart
          <6>2. c \in 0..(n - 1) BY <1>4, <2>2, <6>1
          <6> HIDE DEF v
          <6> QED BY <1>5, <6>2
        <5> HIDE DEF v, child, h, n
        <5> QED BY <5>2, <5>3, <5>4, <5>5 DEF AtRest
      <4> QED BY <4>1, <4>2
    <3>2. CASE h.start > 0
      <4>1. /\ z' = [z EXCEPT !.heap.start = @ - 1, !.heap.root = h.start - 1] /\ pc' = "sort"
        BY <1>1, <1>7, <2>5, <3>2 DEF SortStep
      <4>2. /\ z'.sorted = z.sorted
            /\ z'.heap.root = h.start - 1 /\ z'.heap.start = h.start - 1 /\ z'.heap.end = h.end
            /\ z'.heap \in [root : Nat, start : Nat, end : Nat]
        <5>1. DOMAIN z = ArchiveFields BY DEF ReaderInv
        <5>2. h.start - 1 \in Nat BY <2>2, <3>2
        <5>3. z'.sorted = z.sorted BY <4>1, <5>1 DEF ArchiveFields
        <5>4. z'.heap = [h EXCEPT !.start = @ - 1, !.root = h.start - 1]
          BY <4>1, <5>1, <2>2 DEF ArchiveFields
        <5> HIDE DEF h
        <5> QED BY <2>2, <5>2, <5>3, <5>4
      <4>3. Ranks' = v /\ Permuted' BY <1>1, <1>2, <1>4, <4>2 DEF Ranks, RankAt, Permuted
      <4>4. HeapBut(v, h.start - 1, h.end, h.start - 1)
        <5> HIDE DEF v
        <5> QED BY <2>2, <3>1, <3>2, NextRootKeepsHeap
      <4>5. HeapShape' BY <1>1, <2>2, <3>2, <4>2, <4>3, <4>4 DEF HeapShape
      <4>6. IndexInv' BY <4>1, <4>3, <4>5 DEF IndexInv
      <4> QED BY <1>3, <4>6 DEF DirInv
    <3>3. CASE ~(h.start > 0) /\ h.end > 1
      <4>1. /\ z' = [z EXCEPT !.sorted = SwapIn(@, h.end - 1, 0), !.heap.root = 0, !.heap.end = @ - 1]
            /\ pc' = "sort"
        BY <1>1, <1>7, <2>5, <3>3 DEF SortStep
      <4>2. /\ z'.sorted = SwapIn(z.sorted, h.end - 1, 0)
            /\ z'.heap.root = 0 /\ z'.heap.start = h.start /\ z'.heap.end = h.end - 1
            /\ z'.heap \in [root : Nat, start : Nat, end : Nat]
        <5>1. DOMAIN z = ArchiveFields BY DEF ReaderInv
        <5>2. h.end - 1 \in Nat BY <2>2, <3>3
        <5>3. z'.sorted = SwapIn(z.sorted, h.end - 1, 0) BY <4>1, <5>1 DEF ArchiveFields
        <5>4. z'.heap = [h EXCEPT !.root = 0, !.end = @ - 1]
          BY <4>1, <5>1, <2>2 DEF ArchiveFields
        <5> HIDE DEF h
        <5>5. z'.heap.root = 0 /\ z'.heap.start = h.start /\ z'.heap.end = h.end - 1 BY <2>2, <5>4
        <5>6. z'.heap \in [root : Nat, start : Nat, end : Nat]
          <6>1. PICK g, e : g = h /\ e = h.end - 1 OBVIOUS
          <6>2. g \in [root : Nat, start : Nat, end : Nat] /\ e \in Nat BY <2>2, <5>2, <6>1
          <6>3. z'.heap = [g EXCEPT !.root = 0, !.end = e] BY <2>2, <5>4, <6>1
          <6>4. 0 \in Nat OBVIOUS
          <6> QED BY <6>2, <6>3, <6>4
        <5> QED BY <5>3, <5>5, <5>6
      <4>3. h.start = 0 /\ h.end \in 2..n /\ h.end - 1 \in 0..(n - 1) /\ 0 \in 0..(n - 1) /\ h.end - 1 # 0
        BY <1>4, <2>2, <3>3
      <4> HIDE DEF v, h
      <4>4. Permuted' /\ Ranks' = Exchange(Ranks, h.end - 1, 0)
        BY <1>1, <1>4, <4>2, <4>3, SwapKeepsIndex DEF n
      <4>5. /\ HeapBut(Exchange(v, h.end - 1, 0), 0, h.end - 1, 0)
            /\ TailSorted(Exchange(v, h.end - 1, 0), h.end - 1, n)
        BY <1>4, <1>5, <2>2, <3>1, <4>3, PopKeepsHeap
      <4>6. HeapShape'
        <5>1. z'.heap.start <= z'.heap.root /\ z'.heap.root < z'.heap.end /\ z'.heap.end <= z'.total
          <6>1. z'.heap.root = 0 /\ z'.heap.start = 0 /\ z'.heap.end = h.end - 1 /\ z'.total = n
            BY <1>1, <4>2, <4>3 DEF n
          <6>2. h.end - 1 > 0 /\ h.end - 1 <= n BY <1>4, <4>3
          <6> QED BY <4>3, <6>1, <6>2
        <5>2. HeapBut(Ranks', z'.heap.start, z'.heap.end, z'.heap.root)
          BY <4>2, <4>3, <4>4, <4>5 DEF v
        <5>3. TailSorted(Ranks', z'.heap.end, z'.total)
          BY <1>1, <4>2, <4>4, <4>5 DEF v, n
        <5> QED BY <4>2, <5>1, <5>2, <5>3 DEF HeapShape
      <4>7. IndexInv' BY <4>1, <4>4, <4>6 DEF IndexInv
      <4> QED BY <1>3, <4>7 DEF DirInv
    <3>4. CASE ~(h.start > 0) /\ ~(h.end > 1)
      <4>1. z' = z /\ pc' = "ready" BY <1>1, <1>7, <2>5, <3>4 DEF SortStep
      <4>2. h.end = 1 BY <2>2, <3>4
      <4>3. ASSUME NEW a \in 0..(n - 1), NEW b \in 0..(n - 1), a < b PROVE RankAt(a) <= RankAt(b)
        <5>1. v[a] <= v[b] BY <2>2, <4>2, <4>3 DEF TailSorted
        <5> QED BY <1>5, <5>1 DEF RankAt
      <4>4. Permuted' /\ Ordered(z.total)' BY <1>2, <1>4, <4>1, <4>3 DEF Permuted, Ordered, RankAt
      <4>5. IndexInv' BY <4>1, <4>4 DEF IndexInv
      <4> QED BY <1>3, <4>5 DEF DirInv
    <3> QED BY <3>2, <3>3, <3>4
  <2> QED BY <2>4, <2>5
<1> QED BY <1>6, <1>7

LEMMA ReaderKeepsDir ==
  ASSUME ReaderInv, ReaderInv', DirInv, ReaderNext PROVE DirInv'
BY InitFileKeepsDir, InitFailsKeepsDir, ScanKeepsDir, ReadEndKeepsDir, RejectKeepsDir,
   ReadDirKeepsDir, IndexKeepsDir, SortKeepsDir DEF ReaderNext, AllocFails

LEMMA DirInitHolds ==
  ASSUME Init PROVE DirInv
BY DEF Init, ReaderInit, Closed, DirInv, SpanInv, IndexInv

\* What extractToStaging does to the reader: nothing, a step of opening it,
\* or closing it.
LEMMA WhatTheReaderDoes ==
  ASSUME [Next]_vars
  PROVE  \/ UNCHANGED readerVars \/ ReaderNext
         \/ pc' = "ended" /\ z' = EndInternal /\ left' = left
<1> DEFINE Does == \/ UNCHANGED readerVars \/ ReaderNext
                   \/ pc' = "ended" /\ z' = EndInternal /\ left' = left
<1>1. CASE FailAndClean BY <1>1 DEF FailAndClean, readerVars
<1>2. CASE Begin BY <1>2 DEF Begin, Refuse
<1>3. CASE Open BY <1>1, <1>3 DEF Open
<1>4. CASE Count BY <1>1, <1>4 DEF Count, Goes
<1>5. CASE CheckEntry BY <1>1, <1>5 DEF CheckEntry, NextEntry, Goes
<1>6. CASE LocalHeader BY <1>1, <1>6 DEF LocalHeader, NextEntry, Goes
<1>7. ASSUME NEW n \in 1..Piece, Extract(n) PROVE Does BY <1>1, <1>7 DEF Extract, Goes
<1>8. CASE ExtractFails BY <1>1, <1>8 DEF ExtractFails
<1>9. CASE EntryDone BY <1>1, <1>9 DEF EntryDone, NextEntry, Goes
<1>10. CASE Manifest BY <1>1, <1>10 DEF Manifest
<1>11. CASE UNCHANGED vars BY <1>11 DEF vars
<1> QED BY <1>2, <1>3, <1>4, <1>5, <1>6, <1>7, <1>8, <1>9, <1>10, <1>11 DEF Next

LEMMA DirInvariant == Spec => []DirInv
<1>1. Inv /\ Inv' /\ DirInv /\ [Next]_vars => DirInv'
  <2> SUFFICES ASSUME Inv, Inv', DirInv, [Next]_vars PROVE DirInv' OBVIOUS
  <2>1. ReaderInv /\ ReaderInv' BY DEF Inv
  <2>2. CASE pc' = "ended" /\ z' = EndInternal /\ left' = left
    BY <2>1, <2>2, EndInternalSpan, ClosedKeepsDir
  <2> QED BY <2>1, <2>2, WhatTheReaderDoes, SameReaderKeepsDir, ReaderKeepsDir
<1> QED BY <1>1, DirInitHolds, InvInvariant, PTL DEF Spec

LEMMA DirInvSound ==
  ASSUME ReaderInv, DirInv, pc = "ready" PROVE DirectorySound
<1> DEFINE n == z.total
<1>1. n \in Nat /\ n <= Len(Entries) /\ Len(Entries) \in Nat
  BY LayoutAssumption DEF ReaderInv, Entries
<1>2. /\ Permuted /\ Ordered(n) /\ Len(z.offsets) = n
      /\ z.start \in Int /\ z.cdirOfs \in Int /\ left \in Int /\ z.size \in Int /\ ofs \in Int
      /\ z.start >= 0 /\ z.start + z.size = disk.size /\ left >= 0
      /\ z.start + z.cdirOfs + HeaderBytes(n) + left <= ofs
  BY DEF DirInv, SpanInv, IndexInv, ReaderInv
<1>3. /\ IndexTyped(n) /\ \A k \in 1..n : Entries[z.sorted[k]].rank \in Nat BY <1>2, RanksTyped
<1>4. HeaderBytes(n) \in Nat BY <1>1, HeaderBytesStep
<1>5. z.start + z.cdirOfs + HeaderBytes(n) <= ofs
  <2> HIDE DEF n
  <2> QED BY <1>2, <1>4
<1>6. ASSUME NEW i \in 1..n, Entries[i].comp # U32
      PROVE  z.start + Entries[i].ofs + LdhSize + Entries[i].comp <= disk.size
  <2>1. i \in 1..Len(Entries) /\ i \in 1..Len(z.offsets) BY <1>1, <1>2
  <2>2. Entries[i].ofs \in Nat /\ Entries[i].comp \in Nat /\ LdhSize \in Nat
    BY <2>1, EntryTyped, SizeAssumption DEF IsEntry
  <2>3. Entries[i].ofs + LdhSize + Entries[i].comp <= z.size
    BY <1>6, <2>1 DEF DirInv, SpanInv
  <2>4. PICK a, b, c : a = Entries[i].ofs /\ b = Entries[i].comp /\ c = disk.size OBVIOUS
  <2>5. a \in Nat /\ b \in Nat /\ LdhSize \in Nat /\ a + LdhSize + b <= z.size /\ z.start + z.size = c
    BY <1>2, <2>2, <2>3, <2>4
  <2>6. z.start + a + LdhSize + b <= c
    <3> HIDE DEF n
    <3> QED BY <1>2, <2>5
  <2> QED BY <2>4, <2>6
<1>7. DOMAIN z.sorted = 1..n /\ Len(z.sorted) = n BY <1>2 DEF Permuted
<1>8. {z.sorted[k] : k \in DOMAIN z.sorted} = 1..n
  <2>1. \A k \in 1..n : z.sorted[k] \in 1..n BY <1>2 DEF Permuted
  <2>2. \A i \in 1..n : \E k \in 1..n : z.sorted[k] = i BY <1>2 DEF Permuted
  <2> HIDE DEF n
  <2> QED BY <1>7, <2>1, <2>2
<1>9. ASSUME NEW k \in 2..Len(z.sorted) PROVE ~NameLess(z.sorted[k], z.sorted[k - 1])
  <2>1. k - 1 \in 0..(n - 1) /\ k - 2 \in 0..(n - 1) /\ k - 2 < k - 1 /\ k \in 1..n /\ k - 1 \in 1..n
    BY <1>1, <1>7
  <2>2. (k - 2) + 1 = k - 1 /\ (k - 1) + 1 = k BY <2>1
  <2>3. RankAt(k - 2) <= RankAt(k - 1) BY <1>2, <2>1 DEF Ordered
  <2>4. Entries[z.sorted[k - 1]].rank <= Entries[z.sorted[k]].rank BY <2>2, <2>3 DEF RankAt
  <2>5. Entries[z.sorted[k - 1]].rank \in Nat /\ Entries[z.sorted[k]].rank \in Nat BY <1>3, <2>1
  <2> QED BY <2>4, <2>5 DEF NameLess
<1>10. ASSUME NEW i \in 1..n
       PROVE  LocateFile(Entries[i].rank) # 0 /\ Entries[LocateFile(Entries[i].rank)].rank = Entries[i].rank
  <2>1. i \in 1..Len(Entries) BY <1>1
  <2>2. PICK r : r = Entries[i].rank OBVIOUS
  <2>3. r \in Int BY <2>1, <2>2, EntryTyped DEF IsEntry
  <2>4. PICK k \in 1..n : z.sorted[k] = i BY <1>2 DEF Permuted
  <2>5. k - 1 \in 0..(n - 1) /\ (k - 1) + 1 = k BY <1>1, <2>4
  <2>6. RankAt(k - 1) = r BY <2>2, <2>4, <2>5 DEF RankAt
  <2>7. LocateFile(r) # 0 BY <1>1, <1>2, <1>3, <2>3, <2>5, <2>6, SearchFinds
  <2>8. PICK m \in 0..(n - 1) : LocateFile(r) = z.sorted[m + 1] /\ RankAt(m) = r
    BY <1>1, <1>2, <1>3, <2>3, <2>7, SearchFinds
  <2>9. Entries[LocateFile(r)].rank = r BY <2>8 DEF RankAt
  <2> QED BY <2>2, <2>7, <2>9
<1>11. LocateFile(-1) = 0
  <2>1. \A m \in 0..(n - 1) : RankAt(m) \in Nat BY <1>3 DEF IndexTyped
  <2>2. \A m \in 0..(n - 1) : RankAt(m) # -1
    <3> HIDE DEF n
    <3> QED BY <2>1
  <2>3. -1 \in Int OBVIOUS
  <2>4. LocateFile(-1) # 0 => \E m \in 0..(n - 1) : LocateFile(-1) = z.sorted[m + 1] /\ RankAt(m) = -1
    BY <1>1, <1>2, <1>3, <2>3, SearchFinds
  <2> QED BY <2>2, <2>4
<1> QED BY <1>2, <1>5, <1>6, <1>8, <1>9, <1>10, <1>11 DEF DirectorySound

\* Of every archive mz_zip_reader_init accepts: the headers of the entries
\* lie inside the directory that was read, entries of known size inside the
\* file, and heap sort leaves a permutation in which the binary search of
\* mz_zip_locate_file_binary_search finds every name there is and no other.
THEOREM AcceptedDirectorySound == Spec => []DirectorySound
<1>1. Inv /\ DirInv => DirectorySound
  <2>1. ASSUME Inv, DirInv, pc = "ready" PROVE DirectorySound BY <2>1, DirInvSound DEF Inv
  <2>2. ASSUME pc # "ready" PROVE DirectorySound BY <2>2 DEF DirectorySound
  <2> QED BY <2>1, <2>2
<1> QED BY <1>1, InvInvariant, DirInvariant, PTL

(***************************************************************************)
(* Opening a well-formed archive                                           *)
(***************************************************************************)
\* The scan's buffers lie a step apart, counted from the file's end, unless
\* the whole file fits into one.
Buffered == LesserOf(ScanBuf, disk.size - ofs)

ScanPlace ==
  \/ disk.size <= ScanBuf /\ ofs = 0
  \/ disk.size >= ScanBuf /\ \E j \in Nat : ofs = disk.size - ScanBuf - j * ScanStep

\* No end record lies behind what the next buffer holds.
ScanInv ==
  /\ disk.size - ofs >= SigSize /\ ScanPlace
  /\ \A s \in RoomyEnds : s <= ofs + Buffered - SigSize

\* What is known of a well-formed archive while its directory is indexed
IndexedSoFar ==
  /\ z.total = Len(Entries) /\ z.numDisk = 0
  /\ z.start + z.cdirOfs = disk.cdirAt
  /\ left = HeaderBytes(z.total) - HeaderBytes(Len(z.offsets))
  /\ disk.cdirAt + HeaderBytes(z.total) <= disk.size
  /\ \A i \in 1..z.total : WellFormedEntry(Entries[i], z.start)

OpenInv ==
  /\ pc \in {"closed", "scan", "end"} => z.start = 0
  /\ pc = "scan" => ScanInv
  /\ pc \in {"read", "index"} => (WellFormed => IndexedSoFar)
  /\ SoundArchiveOpens

LEMMA HeaderSizeTyped ==
  ASSUME ReaderInv, NEW i \in 1..Len(Entries)
  PROVE  HeaderSize(Entries[i]) \in Nat /\ HeaderSize(Entries[i]) >= CdhSize
<1>1. PICK e : e = Entries[i] OBVIOUS
<1>2. IsEntry(e) BY <1>1, EntryTyped
<1>3. e.nameLen \in Nat /\ e.extraLen \in Nat /\ e.commentLen \in Nat /\ CdhSize \in Nat
  BY <1>2, SizeAssumption DEF IsEntry
<1>4. PICK a, b, c : a = e.nameLen /\ b = e.extraLen /\ c = e.commentLen OBVIOUS
<1>5. a \in Nat /\ b \in Nat /\ c \in Nat /\ CdhSize \in Nat BY <1>3, <1>4
<1>6. CdhSize + a + b + c \in Nat /\ CdhSize + a + b + c >= CdhSize BY <1>5
<1>7. HeaderSize(e) = CdhSize + a + b + c BY <1>4 DEF HeaderSize
<1> QED BY <1>1, <1>6, <1>7

\* A directory is at least as long as its headers without names.
LEMMA HeaderBytesAtLeast ==
  ASSUME ReaderInv, NEW n \in Nat, n <= Len(Entries)
  PROVE  HeaderBytes(n) >= n * CdhSize
<1> DEFINE Bad == {k \in 0..n : ~(HeaderBytes(k) >= k * CdhSize)}
<1> SUFFICES ASSUME Bad # {} PROVE FALSE OBVIOUS
<1>1. Bad \in SUBSET Nat OBVIOUS
<1>2. PICK k \in Bad : \A j \in Bad : k <= j
  <2> HIDE DEF Bad
  <2> QED BY <1>1, LeastExists
<1>3. k \in 0..n /\ ~(HeaderBytes(k) >= k * CdhSize) OBVIOUS
<1>4. Len(Entries) \in Nat /\ CdhSize \in Nat BY LayoutAssumption, SizeAssumption DEF ReaderInv, Entries
<1>5. k \in Nat /\ k <= Len(Entries) BY <1>3, <1>4
<1>6. /\ HeaderBytes(k) \in Nat /\ (k = 0 => HeaderBytes(k) = 0)
      /\ k # 0 => HeaderBytes(k) = HeaderBytes(k - 1) + HeaderSize(Entries[k])
  BY <1>5, HeaderBytesStep
<1>7. k # 0 BY <1>3, <1>4, <1>6
<1>8. k - 1 \in 0..n /\ ~(k <= k - 1) BY <1>3, <1>7
<1>9. k - 1 \notin Bad
  <2> HIDE DEF Bad
  <2> QED BY <1>2, <1>8
<1>10. HeaderBytes(k - 1) >= (k - 1) * CdhSize BY <1>8, <1>9
<1>11. k - 1 \in Nat /\ k - 1 <= Len(Entries) /\ k \in 1..Len(Entries) BY <1>5, <1>7
<1>12. HeaderBytes(k - 1) \in Nat BY <1>11, HeaderBytesStep
<1>13. HeaderSize(Entries[k]) \in Nat /\ HeaderSize(Entries[k]) >= CdhSize BY <1>11, HeaderSizeTyped
<1>14. k * CdhSize = (k - 1) * CdhSize + CdhSize BY <1>4, <1>5
<1>15. (k - 1) * CdhSize \in Int /\ k * CdhSize \in Int BY <1>4, <1>5
<1>16. PICK a, b : a = (k - 1) * CdhSize /\ b = k * CdhSize OBVIOUS
<1> HIDE DEF Bad
<1> QED BY <1>3, <1>4, <1>6, <1>7, <1>10, <1>12, <1>13, <1>14, <1>15, <1>16

LEMMA HeaderBytesGrow ==
  ASSUME ReaderInv, NEW m \in Nat, NEW n \in Nat, m <= n, n <= Len(Entries)
  PROVE  HeaderBytes(m) <= HeaderBytes(n)
<1> DEFINE Bad == {k \in m..n : ~(HeaderBytes(m) <= HeaderBytes(k))}
<1> SUFFICES ASSUME Bad # {} PROVE FALSE OBVIOUS
<1>1. Bad \in SUBSET Nat OBVIOUS
<1>2. PICK k \in Bad : \A j \in Bad : k <= j
  <2> HIDE DEF Bad
  <2> QED BY <1>1, LeastExists
<1>3. k \in m..n /\ ~(HeaderBytes(m) <= HeaderBytes(k)) OBVIOUS
<1>4. Len(Entries) \in Nat BY LayoutAssumption DEF ReaderInv, Entries
<1>5. k \in Nat /\ k <= Len(Entries) /\ m <= Len(Entries) BY <1>3, <1>4
<1>6. HeaderBytes(m) \in Nat /\ HeaderBytes(k) \in Nat BY <1>5, HeaderBytesStep
<1>7. k # m BY <1>3, <1>6
<1>8. k - 1 \in m..n /\ ~(k <= k - 1) /\ k # 0 BY <1>3, <1>7
<1>9. k - 1 \notin Bad
  <2> HIDE DEF Bad
  <2> QED BY <1>2, <1>8
<1>10. HeaderBytes(m) <= HeaderBytes(k - 1) BY <1>8, <1>9
<1>11. k - 1 \in Nat /\ k - 1 <= Len(Entries) /\ k \in 1..Len(Entries) BY <1>5, <1>8
<1>12. HeaderBytes(k - 1) \in Nat /\ HeaderBytes(k) = HeaderBytes(k - 1) + HeaderSize(Entries[k])
  BY <1>5, <1>8, <1>11, HeaderBytesStep
<1>13. HeaderSize(Entries[k]) \in Nat BY <1>11, HeaderSizeTyped
<1> HIDE DEF Bad
<1> QED BY <1>3, <1>6, <1>10, <1>12, <1>13

\* The last end record that leaves room for a record, if there is one
LEMMA LastEnd ==
  ASSUME ReaderInv, RoomyEnds # {}
  PROVE  /\ Latest(RoomyEnds) \in RoomyEnds /\ Latest(RoomyEnds) \in Nat
         /\ Latest(RoomyEnds) <= disk.size - EndSize
         /\ \A s \in RoomyEnds : s <= Latest(RoomyEnds)
<1>1. disk.size \in Nat /\ DOMAIN disk.ends \subseteq Nat /\ EndSize \in Nat
  BY LayoutAssumption, SizeAssumption DEF ReaderInv
<1>2. RoomyEnds \in SUBSET Int /\ \A s \in RoomyEnds : s \in Nat /\ s <= disk.size - EndSize
  BY <1>1 DEF RoomyEnds
<1>3. disk.size - EndSize \in Int BY <1>1
<1> QED BY <1>2, <1>3, LatestExists

\* Where the scan stops
LEMMA FoundIsLast ==
  ASSUME ReaderInv, z.size = disk.size, ScanInv, FoundInBuffer # {}
  PROVE  Latest(FoundInBuffer) = Latest(RoomyEnds)
<1> DEFINE top == ofs + Buffered - SigSize
<1>1. FoundInBuffer = {s \in RoomyEnds : ofs <= s /\ s <= top}
  BY DEF FoundInBuffer, RoomyEnds, Buffered
<1>2. disk.size \in Nat /\ ofs \in Int /\ SigSize \in Nat /\ ScanBuf \in Nat /\ DOMAIN disk.ends \subseteq Nat
  BY LayoutAssumption, SizeAssumption DEF ReaderInv
<1>3. top \in Int BY <1>2 DEF Buffered, LesserOf
<1>4. FoundInBuffer \in SUBSET Int /\ \A s \in FoundInBuffer : s <= top BY <1>1, <1>2 DEF RoomyEnds
<1>5. PICK f : f = Latest(FoundInBuffer) OBVIOUS
<1>6. f \in FoundInBuffer /\ \A y \in FoundInBuffer : y <= f
  <2> HIDE DEF top
  <2> QED BY <1>3, <1>4, <1>5, LatestExists
<1>7. f \in RoomyEnds /\ RoomyEnds # {} /\ ofs <= f /\ f \in Int BY <1>1, <1>4, <1>6
<1>8. PICK l : l = Latest(RoomyEnds) OBVIOUS
<1>9. l \in RoomyEnds /\ l \in Nat /\ f <= l BY <1>7, <1>8, LastEnd
<1>10. l <= top BY <1>9 DEF ScanInv
<1>11. ofs <= l
  <2> HIDE DEF top
  <2> QED BY <1>2, <1>7, <1>9
<1>12. l \in FoundInBuffer BY <1>1, <1>9, <1>10, <1>11
<1>13. l <= f BY <1>6, <1>12
<1> QED BY <1>5, <1>7, <1>8, <1>9, <1>13

LEMMA StepsTyped ==
  /\ ScanStep \in Nat /\ ScanStep >= 1 /\ ScanStep = ScanBuf - SigSize + 1
  /\ ScanBuf \in Nat /\ SigSize \in Nat /\ SigSize >= 1 /\ EndSize \in Nat /\ SigSize <= EndSize
  /\ SigSize <= ScanBuf /\ U16 \in Nat
BY SizeAssumption DEF ScanStep

LEMMA InitFileScans ==
  ASSUME ReaderInv, ReaderInv', InitFile PROVE ScanInv'
<1>1. disk' = disk /\ ofs' = GreaterOf(disk.size - ScanBuf, 0) /\ disk.size >= EndSize BY DEF InitFile
<1>2. disk.size \in Nat BY LayoutAssumption DEF ReaderInv
<1>3. PICK n, o : n = disk.size /\ o = ofs' OBVIOUS
<1>4. n \in Nat /\ n >= EndSize /\ disk'.size = n
      /\ ((n <= ScanBuf /\ o = 0) \/ (n > ScanBuf /\ o = n - ScanBuf))
  BY <1>1, <1>2, <1>3, StepsTyped DEF GreaterOf
<1>5. o \in Int /\ n - o >= SigSize BY <1>4, StepsTyped
<1>6. LesserOf(ScanBuf, n - o) = n - o BY <1>4, StepsTyped DEF LesserOf
<1>7. ScanPlace'
  <2>1. CASE n <= ScanBuf /\ o = 0 BY <1>3, <1>4, <2>1 DEF ScanPlace
  <2>2. CASE n > ScanBuf /\ o = n - ScanBuf
    <3>1. o = n - ScanBuf - 0 * ScanStep /\ 0 \in Nat BY <1>4, <2>2, StepsTyped
    <3>2. n >= ScanBuf BY <1>4, <2>2, StepsTyped
    <3> QED BY <1>3, <1>4, <3>1, <3>2 DEF ScanPlace, ScanStep
  <2> QED BY <1>4, <2>1, <2>2
<1>8. ASSUME NEW s \in RoomyEnds' PROVE s <= o + (n - o) - SigSize
  <2>1. s \in Nat /\ n - s >= EndSize
    BY <1>1, <1>4, <1>8, LayoutAssumption DEF RoomyEnds, ReaderInv
  <2> QED BY <1>4, <1>5, <2>1, StepsTyped
<1>9. Buffered' = n - o BY <1>3, <1>4, <1>6 DEF Buffered, LesserOf
<1> QED BY <1>3, <1>4, <1>5, <1>7, <1>8, <1>9 DEF ScanInv

\* A step back: the three bytes seen twice leave no gap.
LEMMA StepBackScans ==
  ASSUME ReaderInv, z.size = disk.size, ScanInv, FoundInBuffer = {}, ofs # 0,
         ofs' = ofs - ScanStep, disk' = disk
  PROVE  ScanInv'
<1>1. disk.size \in Nat /\ ofs \in Int /\ DOMAIN disk.ends \subseteq Nat BY LayoutAssumption DEF ReaderInv
<1>2. PICK n, o, p : n = disk.size /\ o = ofs /\ p = ofs' OBVIOUS
<1>3. n \in Nat /\ o \in Int /\ p \in Int /\ p = o - ScanStep /\ n - o >= SigSize /\ disk'.size = n
  BY <1>1, <1>2, StepsTyped DEF ScanInv
<1>4. n - p >= ScanBuf /\ n - p >= SigSize BY <1>3, StepsTyped
<1>5. LesserOf(ScanBuf, n - p) = ScanBuf BY <1>3, <1>4, StepsTyped DEF LesserOf
<1>6. Buffered' = ScanBuf BY <1>2, <1>3, <1>5 DEF Buffered, LesserOf
<1>7. ScanPlace'
  <2>1. PICK j \in Nat : n >= ScanBuf /\ o = n - ScanBuf - j * ScanStep BY <1>2 DEF ScanInv, ScanPlace
  <2>2. j + 1 \in Nat /\ (j + 1) * ScanStep = j * ScanStep + ScanStep BY <2>1, StepsTyped
  <2>3. j * ScanStep \in Int BY <2>1, StepsTyped
  <2>4. PICK a : a = j * ScanStep OBVIOUS
  <2>5. p = n - ScanBuf - (a + ScanStep) BY <1>3, <2>1, <2>3, <2>4, StepsTyped
  <2>6. p = n - ScanBuf - (j + 1) * ScanStep BY <2>2, <2>4, <2>5
  <2> QED BY <1>2, <1>3, <2>1, <2>2, <2>6 DEF ScanPlace, ScanStep
<1>8. ASSUME NEW s \in RoomyEnds' PROVE s <= p + ScanBuf - SigSize
  <2>1. s \in RoomyEnds BY <1>8 DEF RoomyEnds
  <2>2. s \in Nat BY <1>1, <2>1 DEF RoomyEnds
  <2>3. ~(o <= s)
    <3>1. s <= o + Buffered - SigSize BY <1>2, <2>1 DEF ScanInv
    <3>2. ASSUME o <= s PROVE s \in FoundInBuffer
      BY <1>2, <2>1, <3>1, <3>2 DEF FoundInBuffer, RoomyEnds, Buffered
    <3> QED BY <3>2
  <2> QED BY <1>3, <2>2, <2>3, StepsTyped
<1> QED BY <1>2, <1>3, <1>4, <1>6, <1>7, <1>8 DEF ScanInv

\* A scan that gives up has not missed an end record within its reach.
LEMMA UnreadIsOutOfReach ==
  ASSUME ReaderInv, ScanInv, ofs < 0, NEW s \in RoomyEnds
  PROVE  ~ScanReaches(s)
<1>1. disk.size \in Nat /\ ofs \in Int /\ DOMAIN disk.ends \subseteq Nat BY LayoutAssumption DEF ReaderInv
<1>2. PICK n, o : n = disk.size /\ o = ofs OBVIOUS
<1>3. n \in Nat /\ o \in Int /\ o < 0 /\ s \in Nat BY <1>1, <1>2 DEF RoomyEnds
<1>4. PICK j \in Nat : o = n - ScanBuf - j * ScanStep
  BY <1>2, <1>3 DEF ScanInv, ScanPlace
<1>5. PICK t : t = ScanStep OBVIOUS
<1>6. t \in Nat /\ t >= 1 /\ t = ScanBuf - SigSize + 1 /\ o = n - ScanBuf - j * t BY <1>4, <1>5, StepsTyped
<1>7. j * t \in Nat BY <1>6
<1>8. s <= o + ScanBuf - SigSize
  <2>1. s <= o + Buffered - SigSize BY <1>2 DEF ScanInv
  <2>2. Buffered \in Int /\ Buffered <= ScanBuf BY <1>1, StepsTyped DEF Buffered, LesserOf
  <2> QED BY <1>3, <2>1, <2>2, StepsTyped
<1>9. s < o + t BY <1>3, <1>6, <1>8, StepsTyped
<1>10. SUFFICES ASSUME ScanReaches(s) PROVE FALSE OBVIOUS
<1>11. CASE s >= n - ScanBuf
  <2>1. o + t > n - ScanBuf BY <1>3, <1>6, <1>9, <1>11, StepsTyped
  <2>2. j * t < t
    <3>1. PICK a : a = j * t OBVIOUS
    <3>2. a \in Nat /\ o = n - ScanBuf - a BY <1>6, <1>7, <3>1
    <3>3. a < t BY <1>3, <1>6, <2>1, <3>2, StepsTyped
    <3> QED BY <3>1, <3>3
  <2>3. j = 0
    <3>1. \A a \in Nat : a >= 1 => a * t >= t BY <1>6
    <3>2. ~(j >= 1)
      <4>1. ASSUME j >= 1 PROVE FALSE
        <5>1. j * t >= t BY <3>1, <4>1
        <5> QED BY <1>6, <1>7, <2>2, <5>1
      <4> QED BY <4>1
    <3> QED BY <3>2
  <2>4. o = n - ScanBuf
    <3>1. j * t = 0 BY <1>6, <2>3
    <3> QED BY <1>3, <1>6, <3>1, StepsTyped
  \* a file shorter than the buffer is read from its beginning
  <2>5. n >= ScanBuf \/ o = 0
    BY <1>2 DEF ScanInv, ScanPlace
  <2> QED BY <1>3, <2>4, <2>5, StepsTyped
<1>12. CASE \E k \in 1..n : 0 <= n - ScanBuf - k * t /\ n - ScanBuf - k * t <= s
  <2>1. PICK k \in 1..n : 0 <= n - ScanBuf - k * t /\ n - ScanBuf - k * t <= s BY <1>12
  <2>2. k \in Nat /\ k * t \in Nat BY <1>6
  <2>3. PICK a, b : a = j * t /\ b = k * t OBVIOUS
  <2>4. a \in Nat /\ b \in Nat /\ o = n - ScanBuf - a /\ 0 <= n - ScanBuf - b /\ n - ScanBuf - b <= s
    BY <1>6, <1>7, <2>1, <2>2, <2>3
  <2>5. b < a /\ a < b + t BY <1>3, <1>6, <1>9, <2>4, StepsTyped
  <2>6. k < j
    <3>1. ASSUME k >= j PROVE FALSE
      <4>1. k * t >= j * t BY <1>6, <2>2, <3>1
      <4> QED BY <2>3, <2>4, <2>5, <4>1
    <3> QED BY <2>2, <3>1
  <2>7. j >= k + 1 BY <2>2, <2>6
  <2>8. j * t >= (k + 1) * t BY <1>6, <2>2, <2>7
  <2>9. (k + 1) * t = k * t + t BY <1>6, <2>2
  <2>10. a >= b + t BY <2>3, <2>8, <2>9
  <2> QED BY <1>6, <2>4, <2>5, <2>10
<1> QED BY <1>2, <1>5, <1>10, <1>11, <1>12 DEF ScanReaches

LEMMA SameArchive ==
  ASSUME disk' = disk
  PROVE  /\ Entries' = Entries /\ RoomyEnds' = RoomyEnds /\ WellFormed' = WellFormed
         /\ \A n : HeaderBytes(n)' = HeaderBytes(n)
         /\ \A s : ScanReaches(s)' = ScanReaches(s)
         /\ \A e, s : WellFormedEntry(e, s)' = WellFormedEntry(e, s)
<1>1. Entries' = Entries /\ RoomyEnds' = RoomyEnds BY DEF Entries, RoomyEnds
<1>2. \A n : HeaderBytes(n)' = HeaderBytes(n) BY <1>1 DEF HeaderBytes
<1>3. \A s : ScanReaches(s)' = ScanReaches(s) BY DEF ScanReaches
<1>4. \A e, s : WellFormedEntry(e, s)' = WellFormedEntry(e, s) BY DEF WellFormedEntry
<1>5. WellFormed' = WellFormed
  BY <1>1, <1>2 DEF WellFormed, WellFormedEntry, HeaderBytes, Entries, RoomyEnds
<1> QED BY <1>1, <1>2, <1>3, <1>4, <1>5

\* What is left to show of a step that rejects the archive
LEMMA RejectedOpens ==
  ASSUME pc' = "rejected", disk' = disk,
         (WellFormed /\ ~disk.lowMemory) => ~ScanReaches(Latest(RoomyEnds))
  PROVE  OpenInv'
<1>1. WellFormed' = WellFormed /\ RoomyEnds' = RoomyEnds BY SameArchive
<1>2. ScanReaches(Latest(RoomyEnds))' = ScanReaches(Latest(RoomyEnds)) BY <1>1 DEF ScanReaches, RoomyEnds
<1>3. SoundArchiveOpens' BY <1>1, <1>2 DEF SoundArchiveOpens
<1> QED BY <1>3 DEF OpenInv

LEMMA InitFileOpens ==
  ASSUME ReaderInv, ReaderInv', OpenInv, InitFile PROVE OpenInv'
<1>1. pc = "closed" /\ pc' = "scan" /\ z'.start = z.start
  BY DEF InitFile, ReaderInv, ArchiveFields
<1>2. ScanInv' BY InitFileScans
<1>3. SoundArchiveOpens' BY <1>1 DEF SoundArchiveOpens
<1> QED BY <1>1, <1>2, <1>3 DEF OpenInv

LEMMA InitFailsOpens ==
  ASSUME ReaderInv, InitFails PROVE OpenInv'
<1>1. pc' = "rejected" /\ disk' = disk /\ (~disk.opens \/ disk.size < EndSize \/ disk.lowMemory)
  BY DEF InitFails
<1>2. ASSUME WellFormed, ~disk.lowMemory PROVE FALSE
  <2>1. disk.opens /\ RoomyEnds # {} BY <1>2 DEF WellFormed
  <2>2. Latest(RoomyEnds) \in Nat /\ Latest(RoomyEnds) <= disk.size - EndSize BY <2>1, LastEnd
  <2>3. disk.size \in Nat /\ EndSize \in Nat BY LayoutAssumption, SizeAssumption DEF ReaderInv
  <2> QED BY <1>1, <1>2, <2>1, <2>2, <2>3
<1> QED BY <1>1, <1>2, RejectedOpens

LEMMA ScanOpens ==
  ASSUME ReaderInv, SpanInv, OpenInv, ScanChunk PROVE OpenInv'
<1>1. pc = "scan" /\ ScanInv /\ z.start = 0 /\ z.size = disk.size
  BY DEF ScanChunk, OpenInv, SpanInv
<1>2. disk.size \in Nat /\ ofs \in Int /\ DOMAIN disk.ends \subseteq Nat BY LayoutAssumption DEF ReaderInv
<1>3. CASE Reject
  <2> SUFFICES ASSUME WellFormed PROVE ~ScanReaches(Latest(RoomyEnds))
    BY <1>3, RejectedOpens DEF Reject
  <2>1. PICK s : s = Latest(RoomyEnds) OBVIOUS
  <2>2. RoomyEnds # {} /\ disk.size - s <= U16 + EndSize BY <2>1 DEF WellFormed
  <2>3. s \in RoomyEnds /\ s \in Nat BY <2>1, <2>2, LastEnd
  <2>4. s <= ofs + Buffered - SigSize BY <1>1, <2>3 DEF ScanInv
  <2>5. CASE ~Reads(ofs, Buffered)
    <3>1. Buffered \in Int /\ Buffered <= disk.size - ofs
      BY <1>2, StepsTyped DEF Buffered, LesserOf
    <3>2. ~(ofs >= 0 /\ ofs + Buffered <= disk.size) BY <1>1, <1>2, <2>5, <3>1 DEF Reads
    <3>3. ofs < 0 BY <1>2, <3>1, <3>2
    <3> QED BY <1>1, <2>1, <2>3, <3>3, UnreadIsOutOfReach
  <2>6. CASE Reads(ofs, Buffered)
    <3>1. FoundInBuffer = {} /\ (ofs = 0 \/ disk.size - ofs >= U16 + EndSize)
      <4>1. Buffered = LesserOf(ScanBuf, z.size - ofs) BY <1>1 DEF Buffered
      <4>2. pc' = "rejected" BY <1>3 DEF Reject
      <4> QED BY <1>1, <2>6, <4>1, <4>2 DEF ScanChunk
    <3>2. ofs <= s BY <1>2, <2>2, <2>3, <3>1, StepsTyped
    <3>3. s \in FoundInBuffer BY <1>1, <2>3, <2>4, <3>2 DEF FoundInBuffer, RoomyEnds, Buffered
    <3> QED BY <3>1, <3>3
  <2> QED BY <2>5, <2>6
<1>4. CASE ~Reject /\ FoundInBuffer # {}
  <2>1. pc' = "end" /\ ofs' = Latest(FoundInBuffer) /\ UNCHANGED <<disk, z, left>>
    BY <1>4 DEF ScanChunk
  <2>2. ofs' = Latest(RoomyEnds) BY <1>1, <1>4, <2>1, FoundIsLast
  <2>3. RoomyEnds' = RoomyEnds BY <2>1, SameArchive
  <2>4. SoundArchiveOpens' BY <2>1, <2>2, <2>3 DEF SoundArchiveOpens
  <2> QED BY <1>1, <2>1, <2>4 DEF OpenInv
<1>5. CASE ~Reject /\ FoundInBuffer = {}
  <2>1. ofs' = ofs - ScanStep /\ ofs # 0 /\ UNCHANGED <<disk, pc, z, left>> BY <1>5 DEF ScanChunk
  <2>2. ScanInv' BY <1>1, <1>5, <2>1, StepBackScans
  <2>3. SoundArchiveOpens' BY <1>1, <2>1 DEF SoundArchiveOpens
  <2> QED BY <1>1, <2>1, <2>2, <2>3 DEF OpenInv
<1> QED BY <1>3, <1>4, <1>5

\* The fields of a well-formed archive's end records are taken as they are.
LEMMA WellFormedFields ==
  ASSUME ReaderInv, pc = "end", WellFormed, ofs = Latest(RoomyEnds), z.start = 0, z.size = disk.size
  PROVE  /\ HasLocator => End64Found
         /\ FieldsFit /\ FieldsSane(Fields) /\ StartFits(Fields)
         /\ Fields.total = Len(Entries) /\ Fields.numDisk = 0
         /\ Fields.cdirSize = HeaderBytes(Len(Entries))
         /\ ArchiveOfs(Fields) + Fields.cdirOfs = disk.cdirAt
         /\ disk.cdirAt + HeaderBytes(Len(Entries)) <= disk.size
         /\ \A i \in 1..Len(Entries) : WellFormedEntry(Entries[i], ArchiveOfs(Fields))
<1> DEFINE wide == disk.locator.at = ofs - Loc64Size
           more == IF wide THEN End64Size + Loc64Size ELSE 0
           f == IF wide THEN disk.end64 ELSE disk.ends[ofs]
<1>1. /\ RoomyEnds # {} /\ f.total = Len(Entries) /\ f.onDisk = f.total /\ f.numDisk = 0 /\ f.cdirDisk = 0
      /\ f.cdirSize = HeaderBytes(f.total) /\ f.cdirOfs <= disk.cdirAt
      /\ disk.cdirAt + f.cdirSize + more = ofs
      /\ \A i \in 1..f.total : WellFormedEntry(Entries[i], disk.cdirAt - f.cdirOfs)
  BY DEF WellFormed
<1>2. wide => /\ disk.end64.at >= 0 /\ disk.end64.at + End64Size <= disk.locator.at
              /\ disk.end64.at \in {disk.locator.at - End64Size, disk.locator.ofs}
              /\ disk.end64.record >= End64Rest /\ disk.locator.disks = 1
              /\ f.total <= U32 /\ f.cdirSize <= U32
  BY DEF WellFormed
<1>3. ofs \in Nat /\ ofs <= disk.size - EndSize /\ ofs \in DOMAIN disk.ends
  BY <1>1, LastEnd DEF RoomyEnds
<1>4. /\ disk.size \in Nat /\ disk.cdirAt \in Nat /\ Len(Entries) \in Nat
      /\ disk.end64.at \in Int /\ disk.locator.at \in Int /\ disk.locator.ofs \in Int
  BY LayoutAssumption DEF ReaderInv, Entries
<1>5. EndSize \in Nat /\ Loc64Size \in Nat /\ End64Size \in Nat /\ CdhSize \in Nat BY SizeAssumption
<1>6. wide <=> HasLocator
  <2>1. ASSUME wide PROVE ofs >= Loc64Size + End64Size BY <1>2, <1>3, <1>4, <1>5, <2>1
  <2> QED BY <2>1 DEF HasLocator
<1>7. Fields = f BY <1>6 DEF Fields
<1>8. ASSUME wide PROVE End64Found
  <2>1. PICK a : a = disk.end64.at OBVIOUS
  <2>2. a \in Int /\ a >= 0 /\ a + End64Size <= ofs - Loc64Size BY <1>2, <1>4, <1>8, <2>1
  <2>3. a = (ofs - Loc64Size) - End64Size \/ a = disk.locator.ofs BY <1>2, <1>8, <2>1
  <2>4. a + End64Size <= disk.size BY <1>3, <1>4, <1>5, <2>2
  <2>5. End64At(a) BY <1>4, <1>5, <2>1, <2>2, <2>4 DEF End64At, Reads
  <2>6. a <= z.size - End64Size BY <1>4, <1>5, <2>2, <2>4
  <2> QED BY <2>3, <2>5, <2>6 DEF End64Found
<1>9. PICK t, c, o, d, n, m : /\ t = f.total /\ c = f.cdirSize /\ o = f.cdirOfs
                              /\ d = disk.cdirAt /\ n = disk.size /\ m = more
  OBVIOUS
<1>10. /\ t \in Nat /\ c \in Nat /\ o \in Nat /\ d \in Nat /\ n \in Nat /\ m \in Nat
       /\ t = Len(Entries) /\ c = HeaderBytes(t) /\ o <= d /\ d + c + m = ofs
  <2>1. t \in Nat /\ t = Len(Entries) /\ c = HeaderBytes(t) BY <1>1, <1>4, <1>9
  <2>2. c \in Nat BY <2>1, HeaderBytesStep, <1>4
  <2>3. o \in Nat
    <3>1. IsEnd(disk.end64) /\ IsEnd(disk.ends[ofs]) BY <1>3, LayoutAssumption DEF ReaderInv
    <3> QED BY <1>9, <3>1 DEF IsEnd
  <2>4. m \in Nat BY <1>5, <1>9
  <2>5. o <= d /\ d + c + m = ofs BY <1>1, <1>9
  <2> QED BY <1>4, <1>9, <2>1, <2>2, <2>3, <2>4, <2>5
<1> HIDE DEF f, more
<1>11. c >= t * CdhSize BY <1>4, <1>10, HeaderBytesAtLeast
<1>12. FieldsFit
  <2>1. ASSUME wide PROVE f = disk.end64 BY <2>1 DEF f
  <2> QED BY <1>1, <1>2, <1>6, <2>1 DEF FieldsFit
<1>13. ArchiveOfs(f) = d - o
  <2>1. (IF HasLocator THEN End64Size + Loc64Size ELSE 0) = m BY <1>6, <1>9 DEF more
  <2>2. ofs - (o + c) - m = d - o BY <1>3, <1>10
  <2> QED BY <1>9, <2>1, <2>2 DEF ArchiveOfs
<1>14. d - o \in Int /\ d - o >= 0 /\ (d - o) + o = d BY <1>10
<1>15. /\ c <= n /\ o <= n - c /\ ofs >= o + c /\ d + c <= n
  <2>1. ofs \in Nat /\ ofs <= n - EndSize BY <1>3, <1>9
  <2> QED BY <1>5, <1>10, <2>1
<1>16. FieldsSane(f)
  <2>1. CountFits(f) BY <1>1, <1>9, <1>11 DEF CountFits
  <2>2. f.cdirSize <= z.size /\ f.cdirOfs <= z.size - f.cdirSize /\ ofs >= f.cdirOfs + f.cdirSize
    BY <1>9, <1>15
  <2> QED BY <1>1, <2>1, <2>2 DEF FieldsSane
<1>17. StartFits(f) BY <1>13, <1>14 DEF StartFits
<1>18. \A i \in 1..Len(Entries) : WellFormedEntry(Entries[i], ArchiveOfs(f)) BY <1>1, <1>9, <1>10, <1>13
<1>19. /\ f.total = Len(Entries) /\ f.numDisk = 0 /\ f.cdirSize = HeaderBytes(Len(Entries))
       /\ ArchiveOfs(f) + f.cdirOfs = disk.cdirAt /\ disk.cdirAt + HeaderBytes(Len(Entries)) <= disk.size
  BY <1>1, <1>9, <1>10, <1>13, <1>14, <1>15
<1> QED BY <1>6, <1>7, <1>8, <1>12, <1>16, <1>17, <1>18, <1>19

LEMMA ReadEndOpens ==
  ASSUME ReaderInv, ReaderInv', SpanInv, OpenInv, ReadEnd PROVE OpenInv'
<1>1. pc = "end" /\ ofs = Latest(RoomyEnds) /\ z.start = 0 /\ z.size = disk.size
      /\ z.offsets = <<>> /\ DOMAIN z = ArchiveFields
  BY DEF ReadEnd, OpenInv, SpanInv, SoundArchiveOpens, ReaderInv
<1>2. CASE Reject
  <2>1. pc' = "rejected" /\ disk' = disk BY <1>2 DEF Reject
  <2>2. (HasLocator /\ ~End64Found) \/ ~FieldsFit \/ ~FieldsSane(Fields) \/ ~StartFits(Fields)
    BY <2>1 DEF ReadEnd
  <2>3. ~WellFormed BY <1>1, <2>2, WellFormedFields
  <2> QED BY <2>1, <2>3, RejectedOpens
<1>3. CASE ~Reject
  <2>1. /\ z' = [z EXCEPT !.total = Fields.total, !.zip64 = HasLocator, !.numDisk = Fields.numDisk,
                          !.cdirOfs = Fields.cdirOfs, !.heap = TopOf(Fields.total),
                          !.start = ArchiveOfs(Fields), !.size = @ - ArchiveOfs(Fields)]
        /\ left' = Fields.cdirSize /\ pc' \in {"sort", "read"} /\ UNCHANGED <<disk, ofs>>
    BY <1>3 DEF ReadEnd
  <2>2. /\ z'.total = Fields.total /\ z'.numDisk = Fields.numDisk /\ z'.cdirOfs = Fields.cdirOfs
        /\ z'.start = ArchiveOfs(Fields) /\ z'.offsets = <<>>
    BY <1>1, <2>1 DEF ArchiveFields
  <2>3. /\ Entries' = Entries /\ WellFormed' = WellFormed
        /\ \A n : HeaderBytes(n)' = HeaderBytes(n)
        /\ \A e, s : WellFormedEntry(e, s)' = WellFormedEntry(e, s)
    BY <2>1, SameArchive
  <2>4. ASSUME WellFormed PROVE IndexedSoFar'
    <3>1. /\ Fields.total = Len(Entries) /\ Fields.numDisk = 0
          /\ Fields.cdirSize = HeaderBytes(Len(Entries))
          /\ ArchiveOfs(Fields) + Fields.cdirOfs = disk.cdirAt
          /\ disk.cdirAt + HeaderBytes(Len(Entries)) <= disk.size
          /\ \A i \in 1..Len(Entries) : WellFormedEntry(Entries[i], ArchiveOfs(Fields))
      BY <1>1, <2>4, WellFormedFields
    <3>2. PICK n : n = Len(Entries) OBVIOUS
    <3>3. n \in Nat BY <3>2, LayoutAssumption DEF ReaderInv, Entries
    <3>4. HeaderBytes(0) = 0 /\ HeaderBytes(n) \in Nat BY <3>2, <3>3, HeaderBytesStep
    <3>5. left' = HeaderBytes(n) - HeaderBytes(0) BY <2>1, <3>1, <3>2, <3>4
    <3>6. z'.total = n /\ Len(z'.offsets) = 0 BY <2>2, <3>1, <3>2
    <3>7. left' = HeaderBytes(z.total)' - HeaderBytes(Len(z.offsets))'
      BY <2>3, <3>5, <3>6 DEF HeaderBytes
    <3>8. HeaderBytes(z.total)' = HeaderBytes(n) BY <2>3, <3>6 DEF HeaderBytes
    <3>9. \A i \in 1..z'.total : WellFormedEntry(Entries[i], z.start)'
      BY <2>1, <2>2, <2>3, <3>1, <3>2, <3>6 DEF WellFormedEntry
    <3> QED BY <2>1, <2>2, <2>3, <3>1, <3>2, <3>6, <3>7, <3>8, <3>9 DEF IndexedSoFar
  <2>5. SoundArchiveOpens' BY <2>1 DEF SoundArchiveOpens
  <2> QED BY <2>1, <2>3, <2>4, <2>5 DEF OpenInv
<1> QED BY <1>2, <1>3

LEMMA ReadDirOpens ==
  ASSUME ReaderInv, SpanInv, OpenInv, ReadDir PROVE OpenInv'
<1>1. pc = "read" /\ disk' = disk BY DEF ReadDir, Reject
<1>2. CASE Reject
  <2>1. pc' = "rejected" /\ ~Reads(z.cdirOfs, left) BY <1>1, <1>2 DEF ReadDir, Reject
  <2>2. ASSUME WellFormed PROVE FALSE
    <3>1. IndexedSoFar /\ z.offsets = <<>> BY <1>1, <2>2 DEF OpenInv, ReaderInv
    <3>2. PICK n, b : n = Len(Entries) /\ b = HeaderBytes(n) OBVIOUS
    <3>3. n \in Nat /\ disk.cdirAt \in Nat /\ disk.size \in Nat
      BY <3>2, LayoutAssumption DEF ReaderInv, Entries
    <3>4. b \in Nat /\ HeaderBytes(0) = 0 BY <3>2, <3>3, HeaderBytesStep
    <3>5. /\ z.total = n /\ left = b - HeaderBytes(Len(z.offsets)) /\ z.start + z.cdirOfs = disk.cdirAt
          /\ disk.cdirAt + b <= disk.size
      BY <3>1, <3>2 DEF IndexedSoFar
    <3>6. left = b BY <3>1, <3>4, <3>5
    <3>7. Reads(z.cdirOfs, left) BY <3>3, <3>4, <3>5, <3>6 DEF Reads
    <3> QED BY <2>1, <3>7
  <2> QED BY <1>1, <2>1, <2>2, RejectedOpens
<1>3. CASE ~Reject
  <2>1. pc' = "index" /\ UNCHANGED <<disk, z, ofs, left>> BY <1>3 DEF ReadDir
  <2>2. WellFormed' = WellFormed BY <2>1, SameArchive
  <2>3. WellFormed => IndexedSoFar' BY <1>1, <2>1, ZenonT(60) DEF OpenInv, IndexedSoFar, WellFormedEntry, HeaderBytes, Entries
  <2>4. SoundArchiveOpens' BY <2>1 DEF SoundArchiveOpens
  <2> QED BY <2>1, <2>2, <2>3, <2>4 DEF OpenInv
<1> QED BY <1>2, <1>3

LEMMA IndexOpens ==
  ASSUME ReaderInv, SpanInv, OpenInv, IndexEntry PROVE OpenInv'
<1> DEFINE i == Len(z.offsets) + 1
           e == Entries[i]
<1>1. pc = "index" /\ disk' = disk BY DEF IndexEntry, Reject
<1>2. /\ z.offsets \in Seq(Nat) /\ Len(z.offsets) < z.total /\ z.total \in Nat
      /\ Len(Entries) \in Nat
  BY <1>1, LayoutAssumption DEF ReaderInv, Entries
<1>3. i \in Nat /\ i # 0 /\ i - 1 = Len(z.offsets) /\ i - 1 \in Nat /\ i <= z.total BY <1>2
<1> HIDE DEF i
<1>4. ASSUME WellFormed
      PROVE  /\ IndexedSoFar /\ i \in 1..Len(Entries) /\ i <= Len(Entries) /\ i - 1 <= Len(Entries)
             /\ HeaderBytes(i) = HeaderBytes(i - 1) + HeaderSize(e)
             /\ HeaderBytes(i) \in Nat /\ HeaderBytes(i - 1) \in Nat /\ HeaderBytes(z.total) \in Nat
             /\ HeaderBytes(i) <= HeaderBytes(z.total)
             /\ HeaderSize(e) \in Nat /\ HeaderSize(e) >= CdhSize
  <2>1. IndexedSoFar BY <1>1, <1>4 DEF OpenInv
  <2>2. z.total = Len(Entries) BY <2>1 DEF IndexedSoFar
  <2>3. i \in 1..Len(Entries) /\ i <= Len(Entries) /\ i - 1 <= Len(Entries) BY <1>2, <1>3, <2>2
  <2>4. /\ HeaderBytes(i) = HeaderBytes(i - 1) + HeaderSize(e)
        /\ HeaderBytes(i) \in Nat /\ HeaderBytes(i - 1) \in Nat /\ HeaderBytes(z.total) \in Nat
    BY <1>2, <1>3, <2>2, <2>3, HeaderBytesStep
  <2>5. HeaderBytes(i) <= HeaderBytes(z.total) BY <1>2, <1>3, <2>2, HeaderBytesGrow
  <2>6. HeaderSize(e) \in Nat /\ HeaderSize(e) >= CdhSize BY <2>3, HeaderSizeTyped
  <2> QED BY <2>1, <2>3, <2>4, <2>5, <2>6
<1>5. CASE Reject
  <2>1. pc' = "rejected" BY <1>5 DEF Reject
  <2>2. \/ left < CdhSize \/ ~HeaderAt(i) \/ ~FieldsReadable(e) \/ ~EntrySane(e)
    <3>1. pc' # "sort" /\ pc' # "index" BY <2>1
    <3> QED BY <3>1 DEF IndexEntry, i
  <2>3. ASSUME WellFormed PROVE FALSE
    <3> HIDE DEF e
    <3>1. IndexedSoFar BY <1>4, <2>3
    <3>2. PICK w : w = Entries[i] OBVIOUS
    <3>3. WellFormedEntry(w, z.start) /\ IsEntry(w) /\ w = e
      <4>1. i \in 1..z.total BY <1>2, <1>3
      <4> QED BY <1>4, <2>3, <3>1, <3>2, <4>1, EntryTyped DEF IndexedSoFar, e
    <3>4. left = HeaderBytes(z.total) - HeaderBytes(i - 1) BY <1>3, <3>1 DEF IndexedSoFar
    <3>5. HeaderSize(w) <= left /\ ~(left < CdhSize)
      <4>1. PICK a, b, c, h : /\ a = HeaderBytes(i - 1) /\ b = HeaderBytes(i)
                              /\ c = HeaderBytes(z.total) /\ h = HeaderSize(w)
        OBVIOUS
      <4>2. /\ a \in Nat /\ b \in Nat /\ c \in Nat /\ h \in Nat /\ b = a + h /\ b <= c /\ h >= CdhSize
            /\ left = c - a /\ CdhSize \in Nat
        BY <1>4, <2>3, <3>3, <3>4, <4>1, SizeAssumption DEF e
      <4>3. h <= left /\ ~(left < CdhSize) BY <4>2
      <4> QED BY <4>1, <4>3
    <3>6. HeaderAt(i) BY <1>4, <2>3, <3>1 DEF HeaderAt, IndexedSoFar
    <3>7. FieldsReadable(w) BY <3>3 DEF WellFormedEntry, FieldsReadable
    <3>8. ~SizesContradict(w) BY <3>3 DEF WellFormedEntry, SizesContradict
    <3>9. DataFits(w)
      <4>1. CASE w.comp = U32 BY <4>1 DEF DataFits
      <4>2. CASE w.comp # U32
        <5>1. PICK a, b, t, n, d, y : /\ a = w.ofs /\ b = w.comp /\ t = z.start /\ n = disk.size
                                      /\ d = disk.cdirAt /\ y = HeaderBytes(z.total)
          OBVIOUS
        <5>2. /\ a \in Nat /\ b \in Nat /\ d \in Nat /\ n \in Nat /\ y \in Nat /\ LdhSize \in Nat
              /\ t \in Int /\ z.size \in Int
          BY <1>4, <2>3, <3>3, <5>1, LayoutAssumption, SizeAssumption DEF IsEntry, ReaderInv, SpanInv
        <5>3. t + a + LdhSize + b <= d BY <3>3, <4>2, <5>1 DEF WellFormedEntry
        <5>4. d + y <= n /\ t + z.size = n BY <1>1, <3>1, <5>1 DEF IndexedSoFar, SpanInv
        <5>5. a + LdhSize + b <= z.size BY <5>2, <5>3, <5>4
        <5> QED BY <5>1, <5>5 DEF DataFits
      <4> QED BY <4>1, <4>2
    <3>10. w.disk # U16 /\ (w.disk = z.numDisk \/ w.disk = 1)
      BY <3>1, <3>3, SizeAssumption DEF WellFormedEntry, IndexedSoFar
    <3>11. EntrySane(w) BY <3>3, <3>5, <3>8, <3>9, <3>10 DEF EntrySane, WellFormedEntry
    <3> QED BY <2>2, <3>3, <3>5, <3>6, <3>7, <3>11
  <2> QED BY <1>1, <2>1, <2>3, RejectedOpens
<1>6. CASE ~Reject
  <2>1. /\ z'.offsets = Append(z.offsets, i) /\ z'.total = z.total /\ z'.start = z.start
        /\ z'.cdirOfs = z.cdirOfs /\ z'.numDisk = z.numDisk
        /\ left' = left - HeaderSize(e) /\ pc' \in {"sort", "index"} /\ UNCHANGED <<disk, ofs>>
    BY <1>6 DEF IndexEntry, ReaderInv, ArchiveFields, i
  <2>2. Len(z'.offsets) = i BY <1>2, <1>3, <2>1
  <2>3. /\ Entries' = Entries /\ WellFormed' = WellFormed
        /\ \A n : HeaderBytes(n)' = HeaderBytes(n)
    BY <2>1, SameArchive
  <2>4. ASSUME WellFormed PROVE IndexedSoFar'
    <3>1. IndexedSoFar /\ left = HeaderBytes(z.total) - HeaderBytes(i - 1)
      BY <1>3, <1>4, <2>4 DEF IndexedSoFar
    <3>2. left' = HeaderBytes(z.total) - HeaderBytes(i)
      <4>1. PICK a, b, c, h : /\ a = HeaderBytes(i - 1) /\ b = HeaderBytes(i)
                              /\ c = HeaderBytes(z.total) /\ h = HeaderSize(e)
        OBVIOUS
      <4>2. a \in Nat /\ b \in Nat /\ c \in Nat /\ h \in Nat /\ b = a + h /\ left' = (c - a) - h
        BY <1>4, <2>1, <2>4, <3>1, <4>1
      <4>3. left' = c - b BY <4>2
      <4> QED BY <4>1, <4>3
    <3>3. HeaderBytes(z.total)' = HeaderBytes(z.total) BY <2>1, <2>3 DEF HeaderBytes
    <3>4. HeaderBytes(Len(z.offsets))' = HeaderBytes(i) BY <2>2, <2>3 DEF HeaderBytes
    <3>5. \A k \in 1..z'.total : WellFormedEntry(Entries[k], z.start)'
      BY <2>1, <2>3, <3>1 DEF IndexedSoFar, WellFormedEntry
    <3> QED BY <2>1, <2>3, <3>1, <3>2, <3>3, <3>4, <3>5 DEF IndexedSoFar
  <2>5. SoundArchiveOpens' BY <2>1 DEF SoundArchiveOpens
  <2> QED BY <2>1, <2>3, <2>4, <2>5 DEF OpenInv
<1> QED BY <1>5, <1>6

LEMMA SameReaderOpens ==
  ASSUME OpenInv, UNCHANGED readerVars PROVE OpenInv'
<1>1. UNCHANGED <<disk, pc, z, ofs, left>> BY DEF readerVars
<1>2. /\ Entries' = Entries /\ RoomyEnds' = RoomyEnds /\ WellFormed' = WellFormed BY <1>1, SameArchive
<1>3. ScanInv' = ScanInv BY <1>1, <1>2 DEF ScanInv, ScanPlace, Buffered, LesserOf
<1>4. IndexedSoFar' = IndexedSoFar BY <1>1, <1>2 DEF IndexedSoFar, WellFormedEntry, HeaderBytes
<1>5. SoundArchiveOpens' = SoundArchiveOpens BY <1>1, <1>2 DEF SoundArchiveOpens, ScanReaches
<1> QED BY <1>1, <1>2, <1>3, <1>4, <1>5 DEF OpenInv

LEMMA EndedOpens ==
  ASSUME pc' \in {"sort", "ready", "ended"} PROVE OpenInv'
BY DEF OpenInv, SoundArchiveOpens

LEMMA ReaderOpens ==
  ASSUME ReaderInv, ReaderInv', SpanInv, OpenInv, ReaderNext PROVE OpenInv'
<1>1. CASE AllocFails
  <2>1. pc' = "rejected" /\ disk' = disk /\ disk.lowMemory BY <1>1 DEF AllocFails, Reject
  <2> QED BY <2>1, RejectedOpens
<1>2. CASE SortStep
  <2>1. pc' \in {"sort", "ready"} BY <1>2 DEF SortStep
  <2> QED BY <2>1, EndedOpens
<1> QED BY <1>1, <1>2, InitFileOpens, InitFailsOpens, ScanOpens, ReadEndOpens, ReadDirOpens, IndexOpens
    DEF ReaderNext

\* The scan stops at the last end record with room for itself; an archive
\* that is as the format has it is only rejected where the step back of
\* mz_zip_reader_locate_header_sig has left the file before its end record.
THEOREM WellFormedOpens == Spec => []SoundArchiveOpens
<1>1. Init => OpenInv BY DEF Init, ReaderInit, Closed, OpenInv, SoundArchiveOpens
<1>2. Inv /\ Inv' /\ DirInv /\ OpenInv /\ [Next]_vars => OpenInv'
  <2> SUFFICES ASSUME Inv, Inv', DirInv, OpenInv, [Next]_vars PROVE OpenInv' OBVIOUS
  <2>1. ReaderInv /\ ReaderInv' /\ SpanInv BY DEF Inv, DirInv
  <2>2. UNCHANGED readerVars \/ ReaderNext \/ pc' = "ended" BY WhatTheReaderDoes
  <2> QED BY <2>1, <2>2, SameReaderOpens, ReaderOpens, EndedOpens
<1>3. OpenInv => SoundArchiveOpens BY DEF OpenInv
<1> QED BY <1>1, <1>2, <1>3, InvInvariant, DirInvariant, PTL DEF Spec
=============================================================================
