----------------------------- MODULE ZipReader -----------------------------
(***************************************************************************)
(* miniz's archive reader as ZipInstaller uses it: mz_zip_reader_init_file *)
(* (open, find the end record, read and index the central directory),      *)
(* mz_zip_reader_file_stat, and mz_zip_reader_end.                         *)
(*                                                                         *)
(* An archive is a layout: where its records lie and what their fields     *)
(* say, which may contradict where things really are.  Sizes of records    *)
(* and widths of fields are constants, in the proportions of the format.   *)
(***************************************************************************)
EXTENDS Integers, Sequences, FiniteSets

CONSTANTS
  EndSize, CdhSize, LdhSize,   \* 22, 46, 30: end record, directory and local headers
  Loc64Size, End64Size, End64Rest, \* 20, 56, 44: zip64 locator, end record, its least length field
  ScanBuf, SigSize,            \* 4096, 4: the backward scan's buffer, a signature
  U16, U32, U64,               \* 2^16 - 1, 2^32 - 1, 2^64 - 1
  Layouts                      \* the archives

ASSUME SizeAssumption ==
  /\ {EndSize, CdhSize, LdhSize, Loc64Size, End64Size} \subseteq Nat \ {0}
  /\ SigSize \in Nat \ {0} /\ ScanBuf \in Nat /\ SigSize <= ScanBuf /\ SigSize <= EndSize
  /\ U16 \in Nat \ {0} /\ U32 \in Nat /\ U64 \in Nat

\* What the fields of an archive can hold, whatever they claim
IsEntry(e) ==
  /\ {"comp", "uncomp", "ofs"} \subseteq DOMAIN e
  /\ e.comp \in Nat /\ e.uncomp \in Nat /\ e.ofs \in Nat
  /\ {e.nameLen, e.extraLen, e.commentLen, e.localLen, e.real, e.rank} \subseteq Nat
  /\ e.segs \in Seq(STRING)
  /\ DOMAIN e.extra \subseteq Nat /\ (DOMAIN e.extra # {} => e.extraLen > 0)
  /\ \A k \in DOMAIN e.extra : e.extra[k].vals \in Seq(Nat)

IsEnd(f) == {f.total, f.cdirSize, f.cdirOfs} \subseteq Nat

ASSUME LayoutAssumption ==
  \A l \in Layouts :
    /\ l.size \in Nat /\ DOMAIN l.ends \subseteq Nat
    /\ IsEnd(l.end64)
    /\ l.cdirAt \in Nat /\ {l.end64.at, l.locator.at, l.locator.ofs} \subseteq Int
    /\ \A s \in DOMAIN l.ends : IsEnd(l.ends[s]) /\ l.ends[s].cdirSize <= U32
    /\ Len(l.entries) \in Nat
    /\ \A i \in 1..Len(l.entries) : IsEntry(l.entries[i])

VARIABLES
  disk,     \* the archive file
  pc,       \* where mz_zip_reader_init_file is; "ready" when it succeeded
  z,        \* mz_zip_archive and its m_pState
  ofs,      \* cur_file_ofs of the scan
  left      \* n: bytes of the central directory not indexed yet

readerVars == <<disk, pc, z, ofs, left>>

LesserOf(a, b) == IF a <= b THEN a ELSE b
GreaterOf(a, b) == IF a <= b THEN b ELSE a

Closed == [mode |-> "invalid", open |-> FALSE, closes |-> 0, total |-> 0, size |-> 0,
           start |-> 0, cdirOfs |-> 0, zip64 |-> FALSE, ext64 |-> FALSE, numDisk |-> 0,
           offsets |-> <<>>, sorted |-> <<>>, heap |-> [root |-> 0, start |-> 0, end |-> 0]]

ReaderInit ==
  /\ disk \in Layouts
  /\ pc = "closed" /\ z = Closed /\ ofs = 0 /\ left = 0

\* m_pRead: a read that reaches beyond the file comes back short.
Reads(at, n) == z.start + at >= 0 /\ z.start + at + n <= disk.size

\* mz_zip_reader_end_internal: the arrays and the FILE go, once.
LeaksFile == [z EXCEPT !.mode = "invalid", !.offsets = <<>>, !.sorted = <<>>] \* mutant
EndInternal ==
  IF z.mode # "reading" THEN z
  ELSE [z EXCEPT !.mode = "invalid", !.offsets = <<>>, !.sorted = <<>>,
                 !.open = FALSE, !.closes = IF z.open THEN @ + 1 ELSE @]

Reject == pc' = "rejected" /\ z' = EndInternal /\ UNCHANGED <<disk, ofs, left>>

(***************************************************************************)
(* Opening                                                                 *)
(***************************************************************************)
\* A file too small to be an archive, or one for which there is no memory
\* (mz_zip_reader_init_internal), is closed again before there is any
\* reader state.
InitFile ==
  /\ pc = "closed" /\ z.mode = "invalid" /\ disk.opens /\ disk.size >= EndSize
  /\ pc' = "scan"
  /\ z' = [z EXCEPT !.mode = "reading", !.open = TRUE, !.size = disk.size]
  /\ ofs' = GreaterOf(disk.size - ScanBuf, 0)
  /\ UNCHANGED <<disk, left>>

InitFails ==
  /\ pc = "closed" /\ z.mode = "invalid"
  /\ ~disk.opens \/ disk.size < EndSize \/ disk.lowMemory
  /\ pc' = "rejected"
  /\ z' = [z EXCEPT !.closes = IF disk.opens THEN @ + 1 ELSE @]
  /\ UNCHANGED <<disk, ofs, left>>

\* mz_zip_reader_locate_header_sig: from the end towards the beginning, a
\* buffer at a time, the first three bytes of a buffer seen again with the
\* next one so that no signature falls between two buffers.  The step back
\* is computed without sign (sizeof is 64 bits wide and unsigned), so the
\* maximum with 0 never applies: an offset before the file's beginning stays
\* negative, and mz_zip_file_read_func refuses it.
NoOverlap == ScanBuf \* mutant
ScanStep ==
  ScanBuf - (SigSize - 1)

FoundInBuffer ==
  LET n == LesserOf(ScanBuf, z.size - ofs) IN
    {s \in DOMAIN disk.ends : ofs <= s /\ s <= ofs + n - SigSize /\ z.size - s >= EndSize}

Latest(S) == CHOOSE x \in S : \A y \in S : y <= x

ScanChunk ==
  /\ pc = "scan"
  /\ IF ~Reads(ofs, LesserOf(ScanBuf, z.size - ofs)) THEN Reject
     ELSE IF FoundInBuffer # {}
     THEN pc' = "end" /\ ofs' = Latest(FoundInBuffer) /\ UNCHANGED <<disk, z, left>>
     ELSE IF ofs = 0 \/ z.size - ofs >= U16 + EndSize THEN Reject
     ELSE ofs' = ofs - ScanStep /\ UNCHANGED <<disk, pc, z, left>>

(***************************************************************************)
(* The end records                                                         *)
(***************************************************************************)
\* A zip64 locator lies right before the end record, if there is one.
HasLocator == ofs >= Loc64Size + End64Size /\ disk.locator.at = ofs - Loc64Size

\* mz_zip_reader_eocd64_valid
End64At(at) == Reads(at, End64Size) /\ at = disk.end64.at

\* The zip64 end record: right before the locator, else where the locator
\* says, else none.
End64Found ==
  \/ End64At(ofs - Loc64Size - End64Size)
  \/ disk.locator.ofs <= z.size - End64Size /\ End64At(disk.locator.ofs)

\* Fields of the end record that was found; the zip64 one overrides it.
Fields == IF HasLocator THEN disk.end64 ELSE disk.ends[ofs]
FieldsFit ==
  HasLocator => /\ disk.end64.record >= End64Rest
                /\ disk.locator.disks = 1
                /\ disk.end64.total <= U32 /\ disk.end64.onDisk <= U32 /\ disk.end64.cdirSize <= U32

\* The checks on the fields; none looks at an entry.
CountFits(f) == f.total = f.onDisk /\ f.cdirSize >= f.total * CdhSize

FieldsSane(f) ==
  /\ CountFits(f)
  /\ (f.numDisk # 0 \/ f.cdirDisk # 0) => f.numDisk = 1 /\ f.cdirDisk = 1
  /\ f.cdirSize <= z.size /\ f.cdirOfs <= z.size - f.cdirSize
  /\ ofs >= f.cdirOfs + f.cdirSize

\* What lies between the directory and the end record is the length of what
\* was put before the archive (a self-extractor's program, say).
ArchiveOfs(f) ==
  ofs - (f.cdirOfs + f.cdirSize) - (IF HasLocator THEN End64Size + Loc64Size ELSE 0)

StartFits(f) ==
  ArchiveOfs(f) >= 0

\* The last element of the heap that has a child
TopOf(size) ==
  LET start == IF size < 2 THEN 0 ELSE (size - 2) \div 2
  IN  [root |-> start, start |-> start, end |-> size]

ReadEnd ==
  /\ pc = "end"
  /\ LET f == Fields IN
     IF \/ HasLocator /\ ~End64Found
        \/ ~FieldsFit \/ ~FieldsSane(f) \/ ~StartFits(f)
     THEN Reject
     ELSE /\ z' = [z EXCEPT !.total = f.total, !.zip64 = HasLocator, !.numDisk = f.numDisk,
                            !.cdirOfs = f.cdirOfs, !.heap = TopOf(f.total),
                            !.start = ArchiveOfs(f), !.size = @ - ArchiveOfs(f)]
          /\ left' = f.cdirSize
          /\ pc' = IF f.total = 0 THEN "sort" ELSE "read"
          /\ UNCHANGED <<disk, ofs>>

\* mz_zip_array_resize for the directory and its two indexes may fail; so
\* may the read of the directory.
AllocFails == pc = "read" /\ disk.lowMemory /\ Reject
ReadDir ==
  /\ pc = "read"
  /\ IF Reads(z.cdirOfs, left) THEN pc' = "index" /\ UNCHANGED <<disk, z, ofs, left>> ELSE Reject

(***************************************************************************)
(* The central directory                                                   *)
(***************************************************************************)
\* The record that lies at the place where the reader looks next, if the
\* directory really is there.
Entries == disk.entries
HeaderAt(i) == z.start + z.cdirOfs = disk.cdirAt /\ i <= Len(Entries)

HeaderSize(e) == CdhSize + e.nameLen + e.extraLen + e.commentLen
Overflows(e) == GreaterOf(GreaterOf(e.comp, e.uncomp), e.ofs) = U32

\* The extra data is a list of fields; one that claims more bytes than are
\* left is "bad".
Field64(e) == {k \in DOMAIN e.extra : e.extra[k].id = "zip64"}
BadField(e) == {k \in DOMAIN e.extra : e.extra[k].id = "bad"}
FieldsReadable(e) ==
  \A b \in BadField(e) : \E k \in Field64(e) : k < b

\* The stored-entry test reads method and time as one 32-bit number.
SizesContradict(e) ==
  /\ e.comp # U32 /\ e.uncomp # U32
  /\ \/ e.method = 0 /\ e.time = 0 /\ e.uncomp # e.comp
     \/ e.uncomp # 0 /\ e.comp = 0

TrustsOffset(e) == TRUE \* mutant
DataFits(e) ==
  e.comp = U32 \/ e.ofs + LdhSize + e.comp <= z.size

EntrySane(e) ==
  /\ ~SizesContradict(e)
  /\ e.disk # U16 /\ (e.disk = z.numDisk \/ e.disk = 1)
  /\ DataFits(e)
  /\ "masked" \notin e.flags
  /\ HeaderSize(e) <= left

IndexEntry ==
  /\ pc = "index"
  /\ LET i == Len(z.offsets) + 1
         e == Entries[i]
         looks64 == ~z.ext64 /\ e.extraLen > 0 /\ Overflows(e)
         found64 == looks64 /\ Field64(e) # {}
     IN  IF left < CdhSize \/ ~HeaderAt(i) THEN Reject
         ELSE IF (looks64 /\ ~FieldsReadable(e)) \/ ~EntrySane(e) THEN Reject
         ELSE /\ z' = [z EXCEPT !.offsets = Append(@, i), !.sorted = Append(@, i),
                                !.zip64 = @ \/ found64, !.ext64 = @ \/ found64]
              /\ left' = left - HeaderSize(e)
              /\ pc' = IF i = z.total THEN "sort" ELSE "index"
              /\ UNCHANGED <<disk, ofs>>

\* Heap sort by lower-cased name, in place (names as their rank).
NameLess(i, j) == Entries[i].rank < Entries[j].rank
SwapIn(s, a, b) == [s EXCEPT ![a + 1] = s[b + 1], ![b + 1] = s[a + 1]]

LargerChild(s, one, end) ==
  IF one + 1 < end /\ NameLess(s[one + 1], s[one + 2]) THEN one + 1 ELSE one

\* One comparison of either loop: the root sinks below its larger child; at
\* rest, the next root up is taken while the heap is built, and then the
\* heap's top goes behind its shrinking end.
SortStep ==
  /\ pc = "sort"
  /\ LET h == z.heap
         one == 2 * h.root + 1
         child == LargerChild(z.sorted, one, h.end)
     IN  IF Len(z.sorted) <= 1 THEN pc' = "ready" /\ UNCHANGED z
         ELSE IF one < h.end /\ NameLess(z.sorted[h.root + 1], z.sorted[child + 1])
         THEN z' = [z EXCEPT !.sorted = SwapIn(@, h.root, child), !.heap.root = child] /\ UNCHANGED pc
         ELSE IF h.start > 0
         THEN z' = [z EXCEPT !.heap.start = @ - 1, !.heap.root = h.start - 1] /\ UNCHANGED pc
         ELSE IF h.end > 1
         THEN z' = [z EXCEPT !.sorted = SwapIn(@, h.end - 1, 0), !.heap.root = 0, !.heap.end = @ - 1]
              /\ UNCHANGED pc
         ELSE pc' = "ready" /\ UNCHANGED z
  /\ UNCHANGED <<disk, ofs, left>>

ReaderNext ==
  InitFile \/ InitFails \/ ScanChunk \/ ReadEnd \/ AllocFails \/ ReadDir \/ IndexEntry \/ SortStep

(***************************************************************************)
(* Asking about an entry                                                   *)
(***************************************************************************)
IsEncrypted(e) == e.flags \cap {"encrypted", "strong"} # {}
IsSupported(e) == e.method \in {0, 8} /\ ~IsEncrypted(e) /\ "patch" \notin e.flags
IsDirectory(e) == e.slash \/ e.dosDir

\* A field of 32 ones stands for the next value of the zip64 extra field,
\* in the order uncompressed size, compressed size, offset.
Takes(e) == <<e.uncomp = U32, e.comp = U32, e.ofs = U32>>
Taken(e, k) == Cardinality({j \in 1..k : Takes(e)[j]})
Vals64(e) == e.extra[CHOOSE k \in Field64(e) : \A j \in Field64(e) : k <= j].vals
InOrder(e, k, plain) == IF Takes(e)[k] THEN Vals64(e)[Taken(e, k)] ELSE plain

StatFails(e) ==
  /\ Overflows(e) /\ e.extraLen > 0
  /\ \/ ~FieldsReadable(e)
     \/ Field64(e) # {} /\ Len(Vals64(e)) < Taken(e, 3)

Stat(e) ==
  LET wide == Overflows(e) /\ Field64(e) # {} IN
  [e EXCEPT !.uncomp = IF wide THEN InOrder(e, 1, @) ELSE @,
            !.comp = IF wide THEN InOrder(e, 2, @) ELSE @,
            !.ofs = IF wide THEN InOrder(e, 3, @) ELSE @]

\* mz_zip_locate_file_binary_search on the sorted index
LocateFile(rank) ==
  LET size == Len(z.sorted)
      look[k \in 0..size] ==
        IF k = 0 THEN [l |-> 0, h |-> size - 1, at |-> 0]
        ELSE LET s == look[k - 1]
                 m == s.l + (s.h - s.l) \div 2
                 i == z.sorted[m + 1]
             IN  IF s.at # 0 \/ s.l > s.h THEN s
                 ELSE IF Entries[i].rank = rank THEN [s EXCEPT !.at = i]
                 ELSE IF Entries[i].rank < rank THEN [s EXCEPT !.l = m + 1]
                 ELSE [s EXCEPT !.h = m - 1]
  IN  look[size].at

(***************************************************************************)
(* Properties                                                              *)
(***************************************************************************)
HeaderBytes(n) ==
  LET sum[i \in 0..n] == IF i = 0 THEN 0 ELSE sum[i - 1] + HeaderSize(Entries[i]) IN sum[n]

\* An archive as the format has it: the last end record's fields, or those
\* of the zip64 record its locator leads to, say how many headers there
\* are, how long they are together and where they begin, counted from the
\* archive's own beginning; the headers end where the end records begin,
\* and what they describe lies before them.
RoomyEnds == {s \in DOMAIN disk.ends : disk.size - s >= EndSize}

WellFormedEntry(e, start) ==
  /\ e.disk = 0 /\ "masked" \notin e.flags /\ BadField(e) = {}
  /\ (e.comp # U32 /\ e.uncomp # U32) =>
       (e.method = 0 => e.comp = e.uncomp) /\ (e.comp = 0 => e.uncomp = 0)
  /\ e.comp # U32 => start + e.ofs + LdhSize + e.comp <= disk.cdirAt

WellFormed ==
  LET s == Latest(RoomyEnds)
      wide == disk.locator.at = s - Loc64Size
      f == IF wide THEN disk.end64 ELSE disk.ends[s]
  IN  /\ disk.opens /\ RoomyEnds # {} /\ disk.size - s <= U16 + EndSize
      /\ wide => /\ disk.end64.at >= 0 /\ disk.end64.at + End64Size <= disk.locator.at
                 /\ disk.end64.at \in {disk.locator.at - End64Size, disk.locator.ofs}
                 /\ disk.end64.record >= End64Rest /\ disk.locator.disks = 1
                 /\ f.total <= U32 /\ f.cdirSize <= U32
      /\ f.total = Len(Entries) /\ f.onDisk = f.total /\ f.numDisk = 0 /\ f.cdirDisk = 0
      /\ f.cdirSize = HeaderBytes(f.total) /\ f.cdirOfs <= disk.cdirAt
      /\ disk.cdirAt + f.cdirSize + (IF wide THEN End64Size + Loc64Size ELSE 0) = s
      /\ \A i \in 1..f.total : WellFormedEntry(Entries[i], disk.cdirAt - f.cdirOfs)

\* The scan stops at the last end-record signature that leaves room for a
\* record, wherever a buffer boundary falls, and a well-formed archive is
\* opened: with a comment, with bytes before it, with zip64 records.  The
\* buffers behind the last one are only read where a whole step back stays
\* inside the file.
ScanReaches(s) ==
  \/ s >= disk.size - ScanBuf
  \/ \E k \in 1..disk.size : LET start == disk.size - ScanBuf - k * ScanStep IN 0 <= start /\ start <= s
SoundArchiveOpens ==
  /\ pc = "end" => ofs = Latest(RoomyEnds)
  /\ (pc = "rejected" /\ WellFormed /\ ~disk.lowMemory) => ~ScanReaches(Latest(RoomyEnds))

\* An accepted directory: every entry's header lies inside the directory as
\* read, every entry of known size lies inside the archive, the entry count is
\* no more than the directory can hold, and the sorted index is a permutation
\* in name order in which the binary search finds exactly the names there are.
DirectorySound ==
  pc = "ready" =>
    /\ Len(z.offsets) = z.total
    /\ z.start >= 0 /\ z.start + z.cdirOfs + HeaderBytes(z.total) <= ofs
    /\ \A i \in 1..z.total :
         Entries[i].comp # U32 => z.start + Entries[i].ofs + LdhSize + Entries[i].comp <= disk.size
    /\ {z.sorted[k] : k \in DOMAIN z.sorted} = 1..z.total
    /\ \A k \in 2..Len(z.sorted) : ~NameLess(z.sorted[k], z.sorted[k - 1])
    /\ \A i \in 1..z.total : LET at == LocateFile(Entries[i].rank) IN
         at # 0 /\ Entries[at].rank = Entries[i].rank
    /\ LocateFile(-1) = 0
=============================================================================
