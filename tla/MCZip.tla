------------------------------- MODULE MCZip -------------------------------
(***************************************************************************)
(* Archives for ZipExtract, with record sizes small enough that prefixes,  *)
(* comments and scan buffers meet at every offset.                         *)
(***************************************************************************)
EXTENDS ZipExtract, SequencesExt

\* A deflated manifest of three bytes; the variants change some of it.
Plain == [method |-> 8, time |-> 1, comp |-> 2, uncomp |-> 3, real |-> 3, ofs |-> 0,
          nameLen |-> 1, extraLen |-> 0, commentLen |-> 0, extra |-> <<>>, disk |-> 0,
          flags |-> {}, slash |-> FALSE, dosDir |-> FALSE, rank |-> 1,
          segs |-> <<"manifest.json">>, rooted |-> FALSE, drive |-> FALSE, symlink |-> FALSE,
          at |-> 0, localLen |-> 1, damaged |-> FALSE, crcMatches |-> TRUE, manifestOk |-> TRUE,
          data |-> 2, shift |-> 0]
A == [Plain EXCEPT !.segs = <<"a">>, !.rank = 2, !.method = 0, !.comp = 3]
Folder == [A EXCEPT !.slash = TRUE, !.comp = 0, !.uncomp = 0, !.real = 0, !.data = 0]
Zip64(e, vals) ==
  [e EXCEPT !.comp = U32, !.uncomp = U32, !.extraLen = 1, !.extra = <<[id |-> "zip64", vals |-> vals]>>]

\* Entries that agree with what is stored for them
GoodEntries == {
  Plain, A, Folder,
  [A EXCEPT !.segs = <<"a", "b">>, !.rank = 3],
  [Folder EXCEPT !.slash = FALSE, !.dosDir = TRUE],
  [A EXCEPT !.comp = 0, !.uncomp = 0, !.real = 0, !.data = 0],
  [A EXCEPT !.method = 8, !.comp = 1, !.data = 1],
  [Plain EXCEPT !.commentLen = 2],
  Zip64(A, <<3, 3>>), Zip64(Plain, <<3, 2>>),
  [Zip64(A, <<3, 3>>) EXCEPT !.extraLen = 2, !.extra = <<[id |-> "other", vals |-> <<>>]>> \o @]}

\* Entries whose fields contradict each other, the archive or the limits
BadEntries == {
  [Plain EXCEPT !.manifestOk = FALSE], [Plain EXCEPT !.segs = <<>>],
  [A EXCEPT !.segs = <<"..", "x">>], [A EXCEPT !.segs = <<"a", "..", "..", "x">>],
  [A EXCEPT !.rooted = TRUE], [A EXCEPT !.drive = TRUE], [A EXCEPT !.symlink = TRUE],
  [A EXCEPT !.flags = {"encrypted"}], [A EXCEPT !.flags = {"patch"}], [A EXCEPT !.flags = {"masked"}],
  [A EXCEPT !.method = 12],
  [Plain EXCEPT !.real = 6], [Plain EXCEPT !.real = 2], [Plain EXCEPT !.crcMatches = FALSE],
  [A EXCEPT !.crcMatches = FALSE], [Plain EXCEPT !.damaged = TRUE],
  [A EXCEPT !.uncomp = 2], [A EXCEPT !.uncomp = 2, !.time = 0],
  [Plain EXCEPT !.uncomp = 5, !.real = 5], [Plain EXCEPT !.uncomp = 4, !.comp = 1, !.real = 4],
  [Plain EXCEPT !.comp = 0], [A EXCEPT !.comp = 0, !.uncomp = U32],
  Zip64(A, <<3>>), Zip64(A, <<>>), Zip64(Plain, <<3, U64 - 1>>), Zip64(A, <<3, U64 - 1>>),
  [Zip64(A, <<3, 3>>) EXCEPT !.extra = <<[id |-> "bad", vals |-> <<>>]>>],
  [Zip64(A, <<3, 3>>) EXCEPT !.extra = <<[id |-> "other", vals |-> <<>>]>>],
  [A EXCEPT !.disk = 1], [A EXCEPT !.disk = U16], [A EXCEPT !.disk = 2],
  [A EXCEPT !.shift = 1], [A EXCEPT !.shift = 30], [A EXCEPT !.comp = 30, !.uncomp = 30],
  [A EXCEPT !.commentLen = 30]}

\* The archive's parts in a row: bytes that do not belong to it, the local
\* headers and their data, the directory, the zip64 records, the end
\* record and its comment.
Placed(es, at, start) ==
  LET from[i \in 0..Len(es)] == IF i = 0 THEN at ELSE from[i - 1] + LdhSize + 1 + es[i].data
  IN  [i \in DOMAIN es |-> [es[i] EXCEPT !.at = from[i - 1],
                            !.ofs = from[i - 1] - start + es[i].shift]]
NoRecord == [total |-> 0, onDisk |-> 0, numDisk |-> 0, cdirDisk |-> 0, cdirSize |-> 0, cdirOfs |-> 0]

Lay(prefix, relative, es, zip64, comment) ==
  LET lead == prefix + (IF zip64 = "displaced" THEN End64Size ELSE 0)
      start == IF relative THEN prefix ELSE 0
      placed == Placed(es, lead, start)
      dirAt == FoldLeft(LAMBDA n, e : n + LdhSize + 1 + e.data, lead, es)
      dirSize == FoldLeft(LAMBDA n, e : n + CdhSize + e.nameLen + e.extraLen + e.commentLen, 0, es)
      endAt == dirAt + dirSize + (IF zip64 = "none" THEN 0 ELSE Loc64Size + End64Size)
      rec == [total |-> Len(es), onDisk |-> Len(es), numDisk |-> 0, cdirDisk |-> 0,
              cdirSize |-> dirSize, cdirOfs |-> dirAt - start]
      end64At == CASE zip64 = "adjacent" -> dirAt + dirSize [] zip64 = "displaced" -> 0 [] OTHER -> -1
  IN  [size |-> endAt + EndSize + comment, opens |-> TRUE, ends |-> endAt :> rec,
       locator |-> [at |-> IF zip64 = "none" THEN -1 ELSE endAt - Loc64Size,
                    ofs |-> IF zip64 = "displaced" THEN 0 ELSE dirAt + dirSize - start, disks |-> 1],
       end64 |-> rec @@ [at |-> end64At, record |-> End64Rest],
       cdirAt |-> dirAt, entries |-> placed,
       lowMemory |-> FALSE, exists |-> TRUE, pluginsDir |-> TRUE, stagingDir |-> TRUE, ioFails |-> FALSE]

\* Every place of the end record relative to the file's end and beginning
Containers ==
  {Lay(p, r, <<Plain>>, k, c) : p \in {0, 2}, r \in BOOLEAN,
     k \in {"none", "adjacent", "displaced", "missing"}, c \in 0..U16}
  \cup {Lay(p, FALSE, <<Plain>>, "none", c) : p \in {0, 10}, c \in 0..U16}

\* One entry of each kind before and after a good one
OneOf(es) ==
  UNION {{Lay(p, TRUE, <<e, Plain>>, "none", 0), Lay(p, TRUE, <<Plain, e>>, "none", 1)} :
         e \in es, p \in {0, 2}}
Pairs == OneOf(GoodEntries) \cup OneOf(BadEntries)
  \cup {Lay(0, TRUE, <<e, f, Plain>>, "none", 0) : e \in GoodEntries, f \in GoodEntries}

\* Directories of several names, in every order
Ranked(rs) == [i \in DOMAIN rs |-> [Folder EXCEPT !.rank = rs[i]]]
Orders == {Lay(0, TRUE, Ranked(rs), "none", 0) : rs \in UNION {[1..n -> 1..n] : n \in 0..4}}

\* End records that contradict the archive, on one that is otherwise good
Two == Lay(2, TRUE, <<A, Plain>>, "none", 0)
Changed(l, r) == [l EXCEPT !.ends = [s \in DOMAIN @ |-> r]]
Rec == LET s == CHOOSE x \in DOMAIN Two.ends : TRUE IN Two.ends[s]
BadEnds == {Changed(Two, r) : r \in {
  [Rec EXCEPT !.total = 3, !.onDisk = 3], [Rec EXCEPT !.total = 1, !.onDisk = 1],
  [Rec EXCEPT !.total = 1], [Rec EXCEPT !.total = 9, !.onDisk = 9],
  [Rec EXCEPT !.numDisk = 1], [Rec EXCEPT !.numDisk = 1, !.cdirDisk = 1],
  [Rec EXCEPT !.cdirSize = @ - 1], [Rec EXCEPT !.cdirSize = @ + 1], [Rec EXCEPT !.cdirSize = U32],
  [Rec EXCEPT !.cdirOfs = @ + 1], [Rec EXCEPT !.cdirOfs = @ - 1], [Rec EXCEPT !.cdirOfs = U32]}}
  \cup LET w == Lay(0, TRUE, <<Plain>>, "adjacent", 0) IN
       {[w EXCEPT !.end64 = e] : e \in {
          [w.end64 EXCEPT !.record = End64Rest - 1], [w.end64 EXCEPT !.total = U32 + 1],
          [w.end64 EXCEPT !.cdirSize = U32 + 1], [w.end64 EXCEPT !.cdirOfs = @ + 2]}}
       \cup {[w EXCEPT !.locator.disks = 2]}

\* A signature inside the comment: the scan takes it for the end record
\* when a record would fit behind it.
FalseEnds ==
  {LET l == Lay(0, TRUE, <<Plain>>, "none", c) IN
     [l EXCEPT !.ends = @ @@ ((l.size - c + k) :> NoRecord)] :
   c \in 1..6, k \in 0..3}

\* What surrounds the archive
Environments ==
  LET l == Lay(0, TRUE, <<Plain, A>>, "none", 0) IN
  {[l EXCEPT !.exists = FALSE], [l EXCEPT !.pluginsDir = FALSE], [l EXCEPT !.stagingDir = FALSE],
   [l EXCEPT !.lowMemory = TRUE], [l EXCEPT !.ioFails = TRUE],
   [l EXCEPT !.opens = FALSE], [l EXCEPT !.size = EndSize - 1]}

MCLayouts == Containers \cup Pairs \cup Orders \cup BadEnds \cup FalseEnds \cup Environments
=============================================================================
