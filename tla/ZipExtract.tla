----------------------------- MODULE ZipExtract -----------------------------
(***************************************************************************)
(* ZipInstaller::extractToStaging (src/ZipInstaller.cpp) over the archive  *)
(* reader: an untrusted archive is unpacked entry by entry into a fresh    *)
(* staging directory, under limits that are checked against the entry's    *)
(* header and again against the bytes that really come out.                *)
(*                                                                         *)
(* mz_zip_reader_extract_to_callback is here with everything but the       *)
(* inflating, which module Inflate models: the decompressor hands out the  *)
(* entry's real bytes in pieces, and reports a damaged stream.             *)
(***************************************************************************)
EXTENDS ZipReader, FiniteSetsExt

CONSTANTS
  MaxEntries, MaxEntryBytes, MaxTotalBytes, MaxRatio,  \* ZipInstaller::Limits
  IntMax,        \* largest int: the entry count is compared as an int
  Piece          \* largest piece passed to the write callback

\* An entry count beyond an int is beyond what a directory of 32 bits' size
\* can hold.
ASSUME LimitAssumption ==
  /\ {MaxEntries, MaxEntryBytes, MaxTotalBytes, MaxRatio, IntMax} \subseteq Nat
  /\ Piece \in Nat \ {0}
  /\ CdhSize * (IntMax + 1) > U32

VARIABLES
  step,          \* where extractToStaging is
  idx,           \* i, the entry being extracted (from 1)
  outOfs,        \* out_buf_ofs of the entry
  entryBytes,    \* entryBytesSoFar
  totalBytes,    \* liveTotalBytes
  staged,        \* whether the staging directory exists
  staging,       \* what is in it: a function from paths to files and directories
  outcome        \* "none" until it returns

stageVars == <<step, idx, outOfs, entryBytes, totalBytes, staged, staging, outcome>>
vars == <<readerVars, stageVars>>

Init ==
  /\ ReaderInit
  /\ step = "begin" /\ idx = 0 /\ outOfs = 0 /\ entryBytes = 0 /\ totalBytes = 0
  /\ staged = FALSE /\ staging = <<>> /\ outcome = "none"

Entry == Entries[idx]

\* Early return before there is a staging directory
Refuse ==
  /\ outcome' = "failed" /\ step' = "returned"
  /\ UNCHANGED <<readerVars, idx, outOfs, entryBytes, totalBytes, staged, staging>>

\* failAndCleanStaging, and the reader guard's mz_zip_reader_end on the way
\* out when the reader was opened.  The removal is taken to succeed; the code
\* does not look at its result.
RemoveRecursively ==
  staged' = FALSE /\ staging' = <<>>

FailAndClean ==
  /\ RemoveRecursively
  /\ outcome' = "failed" /\ step' = "returned"
  /\ IF pc = "ready" THEN z' = EndInternal /\ pc' = "ended" ELSE UNCHANGED <<z, pc>>
  /\ UNCHANGED <<disk, ofs, left, idx, outOfs, entryBytes, totalBytes>>

Goes(s) == step' = s /\ UNCHANGED <<readerVars, staged, outcome>>

Begin ==
  /\ step = "begin"
  /\ IF ~disk.exists \/ ~disk.pluginsDir \/ ~disk.stagingDir THEN Refuse
     ELSE /\ staged' = TRUE /\ step' = "open"
          /\ UNCHANGED <<readerVars, idx, outOfs, entryBytes, totalBytes, staging, outcome>>

Open ==
  /\ step = "open"
  /\ IF pc = "rejected" THEN FailAndClean
     ELSE ReaderNext /\ step' = (IF pc' = "ready" THEN "count" ELSE "open")
          /\ UNCHANGED <<idx, outOfs, entryBytes, totalBytes, staged, staging, outcome>>

\* static_cast<int>(numFiles)
AsInt(n) == IF n <= IntMax THEN n ELSE n - 2 * (IntMax + 1)

Count ==
  /\ step = "count"
  /\ IF AsInt(z.total) > MaxEntries THEN FailAndClean
     ELSE /\ idx' = 1
          /\ Goes(IF z.total = 0 THEN "manifest" ELSE "entry")
          /\ UNCHANGED <<outOfs, entryBytes, totalBytes, staging>>

(***************************************************************************)
(* The checks on an entry's header                                         *)
(***************************************************************************)
\* A name is its segments, and whether it starts with a separator or a
\* drive letter.
OnlyFirstSegment(e) == e.segs # <<>> /\ ~e.rooted /\ ~e.drive /\ e.segs[1] # ".." \* mutant
IsSafeRelativePath(e) ==
  /\ e.segs # <<>> /\ ~e.rooted /\ ~e.drive
  /\ \A k \in DOMAIN e.segs : e.segs[k] # ".."

IsSymlinkEntry(e) == e.symlink

SizesPlausible(s) ==
  /\ s.uncomp <= MaxEntryBytes
  /\ ~(s.uncomp > 0 /\ s.comp = 0)
  /\ ~(s.comp > 0 /\ s.uncomp \div s.comp > MaxRatio)

EntryAllowed ==
  /\ ~StatFails(Entry)
  /\ ~IsEncrypted(Entry) /\ IsSupported(Entry)
  /\ IsSafeRelativePath(Entry) /\ ~IsSymlinkEntry(Entry)
  /\ SizesPlausible(Stat(Entry))

\* Paths and the files and directories above them
Above(p) == {SubSeq(p, 1, k) : k \in 1..(Len(p) - 1)}
StagedAs(p, kind) == p \in DOMAIN staging /\ staging[p].kind = kind
Put(s, paths, v) == [p \in DOMAIN s \cup paths |-> IF p \in paths THEN v ELSE s[p]]
Dir == [kind |-> "dir", of |-> 0, bytes |-> 0]
WithDirs(s, paths) == Put(s, paths \ DOMAIN s, Dir)

NextIdx == idx + 1

NextEntry(d) ==
  /\ idx' = NextIdx /\ outOfs' = 0 /\ entryBytes' = 0
  /\ staging' = d
  /\ Goes(IF idx = z.total THEN "manifest" ELSE "entry")
  /\ UNCHANGED totalBytes

\* mkpath fails where a file is in the way; open fails on a directory.
CheckEntry ==
  /\ step = "entry"
  /\ LET p == Entry.segs
         ups == Above(p)
     IN  IF ~EntryAllowed THEN FailAndClean
         ELSE IF IsDirectory(Entry)
         THEN IF \E q \in ups \cup {p} : StagedAs(q, "file") THEN FailAndClean
              ELSE NextEntry(WithDirs(staging, ups \cup {p}))
         ELSE IF (\E q \in ups : StagedAs(q, "file")) \/ StagedAs(p, "dir") THEN FailAndClean
         ELSE /\ staging' = Put(WithDirs(staging, ups), {p}, [kind |-> "file", of |-> idx, bytes |-> 0])
              /\ outOfs' = 0 /\ entryBytes' = 0
              /\ Goes("local")
              /\ UNCHANGED <<idx, totalBytes>>

(***************************************************************************)
(* mz_zip_reader_extract_to_callback and the write callback                *)
(***************************************************************************)
\* Offsets are 64 bits wide; a zip64 field may hold any of them.
Wide(n) == n % (U64 + 1)

\* An entry without compressed bytes is done at once.  Otherwise its local
\* header must be where the directory says, and its data inside the archive.
LocalHeader ==
  /\ step = "local"
  /\ LET s == Stat(Entry) IN
     IF s.comp = 0 THEN NextEntry(staging)
     ELSE IF \/ ~Reads(s.ofs, LdhSize)
             \/ z.start + s.ofs # Entry.at
             \/ Wide(s.ofs + LdhSize + Entry.localLen + s.comp) > z.size
     THEN FailAndClean
     ELSE Goes("extract") /\ UNCHANGED <<idx, outOfs, entryBytes, totalBytes, staging>>

\* What the stream really holds: a stored entry as many bytes as it takes
\* in the archive, a deflated one whatever it inflates to.
RealBytes == IF Entry.method = 0 THEN Stat(Entry).comp ELSE Entry.real

\* liveExtractWriteCallback counts before it writes.
EntryOnly(entry, total) == entry <= MaxEntryBytes \* mutant
WithinLimits(entry, total) ==
  entry <= MaxEntryBytes /\ total <= MaxTotalBytes

\* A stored entry is passed on without comparing it with the declared size
\* on the way; a deflated one is stopped as soon as it is longer.
Extract(n) ==
  /\ step = "extract" /\ outOfs < RealBytes
  /\ n <= RealBytes - outOfs
  /\ Entry.method = 0 => n = LesserOf(Piece, RealBytes - outOfs)
  /\ IF Entry.method = 0 /\ ~Reads(Stat(Entry).ofs + LdhSize + Entry.localLen + outOfs, n)
     THEN FailAndClean
     ELSE IF ~WithinLimits(entryBytes + n, totalBytes + n) THEN FailAndClean
     ELSE IF Entry.method # 0 /\ outOfs + n > Stat(Entry).uncomp THEN FailAndClean
     ELSE /\ outOfs' = outOfs + n
          /\ entryBytes' = entryBytes + n
          /\ totalBytes' = totalBytes + n
          /\ staging' = [staging EXCEPT ![Entry.segs].bytes = @ + n]
          /\ Goes("extract")
          /\ UNCHANGED idx

\* No memory, the archive cannot be read, the file cannot be written, the
\* stream is damaged.
ExtractFails ==
  /\ step = "extract" /\ (disk.lowMemory \/ disk.ioFails \/ Entry.damaged)
  /\ FailAndClean

\* The end of the entry: the size and the CRC-32 must be the declared ones.
SkipsCrc == outOfs = Stat(Entry).uncomp \* mutant
ContentMatches ==
  outOfs = Stat(Entry).uncomp /\ Entry.crcMatches

EntryDone ==
  /\ step = "extract" /\ outOfs = RealBytes /\ ~Entry.damaged
  /\ IF ContentMatches THEN NextEntry(staging) ELSE FailAndClean

(***************************************************************************)
(* The manifest                                                            *)
(***************************************************************************)
ManifestPath == <<"manifest.json">>

Manifest ==
  /\ step = "manifest"
  /\ IF ~StagedAs(ManifestPath, "file") THEN FailAndClean
     ELSE IF ~Entries[staging[ManifestPath].of].manifestOk THEN FailAndClean
     ELSE /\ outcome' = "staged" /\ step' = "returned"
          /\ z' = EndInternal /\ pc' = "ended"
          /\ UNCHANGED <<disk, ofs, left, idx, outOfs, entryBytes, totalBytes, staged, staging>>

Next ==
  \/ Begin \/ Open \/ Count \/ CheckEntry \/ LocalHeader
  \/ \E n \in 1..Piece : Extract(n)
  \/ ExtractFails \/ EntryDone \/ Manifest

Spec == Init /\ [][Next]_vars /\ WF_vars(Next)

(***************************************************************************)
(* Properties                                                              *)
(***************************************************************************)
Unpacked == DOMAIN staging

\* The limits hold for what reaches the disk, whatever the headers claim:
\* for every file, for all of them together, and for their number.
SumOf(S) == MapThenSumSet(LAMBDA p : staging[p].bytes, S)
LimitsHold ==
  /\ \A p \in Unpacked : staging[p].bytes <= MaxEntryBytes
  /\ SumOf(Unpacked) <= totalBytes /\ totalBytes <= MaxTotalBytes
  /\ idx - 1 <= MaxEntries

\* Nothing is written outside the staging directory: followed segment by
\* segment from it, a path never rises above it, and no symbolic link is
\* created on the way.
Depth(p) ==
  LET d[k \in 0..Len(p)] ==
        IF k = 0 THEN 0 ELSE d[k - 1] + (IF p[k] = ".." THEN -1 ELSE 1)
  IN  {d[k] : k \in 0..Len(p)}
StaysInside ==
  \A p \in Unpacked :
    /\ \A d \in Depth(p) : d >= 0
    /\ LET e == Entries[staging[p].of] IN
         staging[p].kind = "file" => ~e.rooted /\ ~e.drive /\ ~e.symlink

\* A staged archive is the archive: every file holds exactly the content of
\* an entry with its name, the last one if there are several, checked
\* against the entry's size and CRC; only an entry that takes no bytes in
\* the archive goes unchecked, and it comes out empty.
StagedIsTheArchive ==
  outcome = "staged" =>
    \A p \in Unpacked : staging[p].kind = "file" =>
      LET e == Entries[staging[p].of] IN
        /\ e.segs = p
        /\ staging[p].bytes = Stat(e).uncomp
        /\ Stat(e).comp # 0 => e.crcMatches /\ ~e.damaged
        /\ \A j \in (staging[p].of + 1)..(idx - 1) : IsDirectory(Entries[j]) \/ Entries[j].segs # p

\* extractToStaging returns, on contradictory archives too, and then it has
\* closed an archive it opened exactly once, and a failure has left no
\* staging directory.
ReachesArchive == disk.exists /\ disk.pluginsDir /\ disk.stagingDir
NothingOpen ==
  /\ ~z.open
  /\ z.closes = (IF ReachesArchive /\ disk.opens THEN 1 ELSE 0)
  /\ outcome = "failed" => ~staged
EndsClean == <>[](step = "returned" /\ NothingOpen)
=============================================================================
