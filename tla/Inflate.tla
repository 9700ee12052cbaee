------------------------------ MODULE Inflate ------------------------------
(***************************************************************************)
(* tinfl_decompress (src/miniz.c), the coroutine that expands every        *)
(* deflated entry of a plugin archive.  A call gets a piece of the input   *)
(* and a window of the output buffer, runs until one of them is used up,   *)
(* and is resumed by the next call at the point where it stopped.          *)
(*                                                                         *)
(* One action is one step between two points where the C code may return.  *)
(* The format's numbers are constants: bytes of 8 bits, codes of at most   *)
(* 15 bits, a first-level table indexed by 10 bits, and so on.  The runs   *)
(* scale them down together, keeping the relations the code relies on      *)
(* (two bytes hold a whole code, four bytes hold two).                     *)
(*                                                                         *)
(* The zip reader calls the coroutine without the zlib header and the      *)
(* Adler-32 check, so those branches are left out.                         *)
(***************************************************************************)
EXTENDS Integers, Sequences, FiniteSets, Bits

CONSTANTS
  ByteBits,            \* 8
  MaxCode,             \* 15, the longest Huffman code
  FastBits,            \* 10, TINFL_FAST_LOOKUP_BITS
  NumSyms,             \* <<288, 32, 19>>: symbols of the three tables
  FixedSizes,          \* code sizes of the two tables of a static block
  SizeBits, MinSizes,  \* <<5,5,4>>, <<257,1,4>>: the three table sizes
  ClBits, Dezigzag,    \* 3, s_length_dezigzag
  RepBits, RepBase,    \* <<2,3,7>>, <<3,3,11>>: repeat codes 16, 17, 18
  LenBase, LenExtra, DistBase, DistExtra

\* Two bytes hold a whole code.  A table that says it has as many symbols as
\* its field can say has no more than the arrays hold; a first-level entry is
\* the code's length above 9 bits of symbol; every symbol that is not a
\* literal has its base and its extra bits; one path of tree nodes fits.
ASSUME FormatAssumption ==
  /\ {ByteBits, MaxCode, FastBits, ClBits} \subseteq Nat \ {0}
  /\ FastBits < MaxCode /\ MaxCode <= 2 * ByteBits
  /\ Pow2[ClBits] <= MaxCode + 1
  /\ NumSyms \in [1..3 -> 1..512] /\ NumSyms[3] <= MaxCode + 4
  /\ \A t \in 1..3 : MaxCode - FastBits <= NumSyms[t]
  /\ \A t \in 1..2 : FixedSizes[t] \in [1..NumSyms[t] -> 0..MaxCode]
  /\ SizeBits \in [1..3 -> 0..MaxCode] /\ MinSizes \in [1..3 -> Nat \ {0}]
  /\ \A t \in 1..3 : MinSizes[t] + Pow2[SizeBits[t]] - 1 <= NumSyms[t]
  /\ Dezigzag \in [1..NumSyms[3] -> 0..(NumSyms[3] - 1)]
  /\ RepBits \in [1..3 -> 0..MaxCode] /\ RepBase \in [1..3 -> Nat \ {0}]
  /\ \A i \in 1..3 : RepBase[i] + Pow2[RepBits[i]] <= RepBase[3] + Pow2[RepBits[3]]
  /\ LET lengths == 1..(NumSyms[1] - 1 - Pow2[ByteBits]) IN
       LenBase \in [lengths -> Nat] /\ LenExtra \in [lengths -> 0..MaxCode]
  /\ DistBase \in [1..NumSyms[2] -> Nat] /\ DistExtra \in [1..NumSyms[2] -> 0..MaxCode]

VARIABLES
  stream,              \* the compressed bytes
  pos, inBeg, inEnd,   \* pIn_buf_cur, pIn_buf_next, pIn_buf_end
  moreInput,           \* TINFL_FLAG_HAS_MORE_INPUT
  wrap,                \* no TINFL_FLAG_USING_NON_WRAPPING_OUTPUT_BUF
  buf,                 \* pOut_buf_start[..], a sequence of bytes
  outCur, outBeg,      \* pOut_buf_cur, pOut_buf_next; the end is Len(buf)
  r,                   \* struct tinfl_decompressor and the locals saved in it
  status               \* "running" during a call, then what it returned

inVars  == <<stream, inBeg, inEnd, moreInput>>
outVars == <<wrap, buf, outBeg, outCur>>
tinflVars == <<inVars, pos, outVars, r, status>>

EOB == Pow2[ByteBits]      \* symbol 256
Byte == 0..(Pow2[ByteBits] - 1)
outEnd == Len(buf)

Least(S) == CHOOSE x \in S : \A y \in S : x <= y
Smaller(a, b) == IF a <= b THEN a ELSE b
Larger(a, b) == IF a <= b THEN b ELSE a

(***************************************************************************)
(* The decoding tables                                                     *)
(***************************************************************************)
\* total_syms and next_code: the first code of every length.
TotalSyms(t, l) ==
  Cardinality({i \in 0..(r.size[t] - 1) : r.codeSize[t][i] = l})

NextCode(t) ==
  LET next[l \in 1..(MaxCode + 1)] ==
        IF l = 1 THEN 0 ELSE 2 * (next[l - 1] + TotalSyms(t, l - 1))
  IN  next

UsedSyms(t) ==
  Cardinality({i \in 0..(r.size[t] - 1) : r.codeSize[t][i] # 0})

RevCode(code, size) ==
  LET rev[i \in 0..size] ==
        IF i = 0 THEN 0 ELSE 2 * rev[i - 1] + Bit(code, i - 1)
  IN  rev[size]

\* A code of at most FastBits bits fills every entry of the first level
\* whose low bits are the code.
FillLookUp(lookUp, rev, size, sym) ==
  [k \in DOMAIN lookUp |-> IF k % Pow2[size] = rev THEN size * 512 + sym ELSE lookUp[k]]

\* A longer one hangs a path of tree nodes below its first-level entry.
\* Nodes are the negative numbers -1, -3, -5, ... and a node n owns the
\* two slots -n - 1 and -n of the tree; an empty slot gets a new node.
Descend(s, bit) ==
  LET slot == -(s.cur - bit) - 1 IN
    IF s.tree[slot] = 0
    THEN [cur |-> s.next, tree |-> [s.tree EXCEPT ![slot] = s.next], next |-> s.next - 2]
    ELSE [s EXCEPT !.cur = s.tree[slot]]

GrowPath(tree, node, treeNext, rev, size) ==
  LET at[k \in 0..(size - FastBits - 1)] ==
        IF k = 0 THEN [cur |-> node, tree |-> tree, next |-> treeNext]
        ELSE Descend(at[k - 1], Bit(rev, FastBits + k - 1))
      end == at[size - FastBits - 1]
  IN  [tree |-> [end.tree EXCEPT ![-(end.cur - Bit(rev, size - 1)) - 1] = r.sym],
       treeNext |-> end.next]

\* Decoding: the entry for the low bits of bb, followed down the tree for
\* codes longer than FastBits.  A tree entry is < 0 inside and a symbol at
\* the leaves; a first-level entry carries the code length above bit 9.
Walk(t, bb) ==
  LET at[j \in FastBits..(MaxCode + 1)] ==
        IF j = FastBits THEN r.lookUp[t][bb % Pow2[FastBits]]
        ELSE IF at[j - 1] >= 0 THEN at[j - 1]
        ELSE r.tree[t][-at[j - 1] - 1 + Bit(bb, j - 1)]
  IN  at

Decode(t, bb) ==
  LET first == r.lookUp[t][bb % Pow2[FastBits]]
      walk == Walk(t, bb)
      leaf == Least({j \in (FastBits + 1)..(MaxCode + 1) : walk[j] >= 0})
  IN  IF first >= 0 THEN [len |-> first \div 512, sym |-> first % 512]
                    ELSE [len |-> leaf, sym |-> walk[leaf]]

\* TINFL_HUFF_BITBUF_FILL's test: the bits at hand hold a whole code.
HoldsCode(t) ==
  LET first == r.lookUp[t][r.bitBuf % Pow2[FastBits]] IN
    IF first >= 0 THEN first \div 512 # 0 /\ r.numBits >= first \div 512
    ELSE \E j \in (FastBits + 1)..r.numBits : Walk(t, r.bitBuf)[Smaller(j, MaxCode + 1)] >= 0

(***************************************************************************)
(* Reading bits, and leaving the call                                      *)
(***************************************************************************)
BitsOf(n) == r.bitBuf % Pow2[n]
Drop(d, n) == [d EXCEPT !.bitBuf = @ \div Pow2[n], !.numBits = @ - n]
\* n bytes of input appended to the bit buffer
Append8(d, n) ==
  LET word[k \in 0..n] ==
        IF k = 0 THEN 0 ELSE word[k - 1] + stream[pos + k] * Pow2[ByteBits * (k - 1)]
  IN  [d EXCEPT !.bitBuf = @ + word[n] * Pow2[d.numBits], !.numBits = @ + ByteBits * n]

HuffTable == [rle |-> 2, litSlow |-> 0, dist |-> 1]   \* states 16, 23, 26
BitStates == {"header", "rawHeader", "sizes", "clen", "rleExtra", "lenExtra", "distExtra"}
States == BitStates \cup DOMAIN HuffTable \cup
          {"rawBits", "rawOut", "rawCopy", "lensDone", "build", "insert", "lit", "litOut", "match",
           "copy", "align", "done", "failed"}

\* The bits a TINFL_GET_BITS point waits for.
Need ==
  CASE r.state = "header" -> 3
    [] r.state = "sizes" -> SizeBits[r.counter + 1]
    [] r.state = "clen" -> ClBits
    [] r.state = "rleExtra" -> RepBits[r.dist - MaxCode]
    [] r.state \in {"lenExtra", "distExtra"} -> r.numExtra
    [] OTHER -> ByteBits

Running(s) == status = "running" /\ r.state = s
HasBits(s) == Running(s) /\ r.numBits >= Need
Filling == r.state \in DOMAIN HuffTable /\ r.fill
WantsByte ==
  \/ r.state \in BitStates /\ r.numBits < Need
  \/ Filling /\ r.numBits < MaxCode /\ ~HoldsCode(HuffTable[r.state])
HuffReady(s) ==
  /\ Running(s)
  /\ \/ r.numBits >= MaxCode
     \/ r.fill /\ HoldsCode(HuffTable[s])

\* common_exit: unless the caller is asked for input, whole bytes left in
\* the bit buffer go back to it, as far as this call read them.
PutsNothingBack(p, d, st) == 0 \* mutant
PutBack(p, d, st) ==
  IF st \in {"needs_more_input", "cannot_make_progress"} THEN 0
  ELSE Smaller(p - inBeg, d.numBits \div ByteBits)

ReturnAt(p, d, st) ==
  LET back == PutBack(p, d, st)
      left == d.numBits - back * ByteBits
  IN  /\ status' = st
      /\ pos' = p - back
      /\ r' = [d EXCEPT !.numBits = left, !.bitBuf = @ % Pow2[left]]
      /\ UNCHANGED <<inVars, outVars>>

Return(d, st) == ReturnAt(pos, d, st)
ReturnInput ==
  Return(r, IF moreInput THEN "needs_more_input" ELSE "cannot_make_progress")

Step(d) == r' = d /\ UNCHANGED <<inVars, pos, outVars, status>>
Goto(s) == [r EXCEPT !.state = s]
Fail(d) == Return([d EXCEPT !.state = "failed"], "failed")
Write(d, b) ==
  /\ r' = d
  /\ buf' = [buf EXCEPT ![outCur + 1] = b]
  /\ outCur' = outCur + 1
  /\ UNCHANGED <<inVars, pos, wrap, outBeg, status>>

GetByte ==
  /\ status = "running" /\ WantsByte
  /\ pos < inEnd
  /\ r' = Append8(r, 1)
  /\ pos' = pos + 1
  /\ UNCHANGED <<inVars, outVars, status>>

InputEnds == status = "running" /\ WantsByte /\ pos = inEnd /\ ReturnInput

\* TINFL_HUFF_DECODE's entry: two bytes at once while the input holds them,
\* else one at a time, and no more than the code needs.
HuffEnter ==
  /\ status = "running" /\ r.state \in DOMAIN HuffTable
  /\ ~r.fill /\ r.numBits < MaxCode
  /\ IF inEnd - pos < 2
     THEN Step([r EXCEPT !.fill = TRUE])
     ELSE /\ r' = Append8(r, 2)
          /\ pos' = pos + 2
          /\ UNCHANGED <<inVars, outVars, status>>

(***************************************************************************)
(* Block headers and stored blocks                                         *)
(***************************************************************************)
NoCodes(t) == [i \in 0..(NumSyms[t + 1] - 1) |-> 0]

\* Code sizes of a static block
StaticTables(d) ==
  [d EXCEPT !.size = [t \in 0..2 |-> IF t < 2 THEN NumSyms[t + 1] ELSE @[t]],
            !.codeSize = [t \in 0..2 |-> IF t < 2 THEN [i \in DOMAIN @[t] |-> FixedSizes[t + 1][i + 1]]
                                                  ELSE @[t]],
            !.state = "build"]

Header ==
  /\ HasBits("header")
  /\ LET f == BitsOf(3)
         d == [Drop(r, 3) EXCEPT !.final = f, !.type = f \div 2, !.counter = 0]
     IN  CASE f \div 2 = 0 -> Step([Drop(d, d.numBits % ByteBits) EXCEPT !.state = "rawHeader",
                                                                      !.raw = <<>>])
           [] f \div 2 = 1 -> Step(StaticTables(d))
           [] f \div 2 = 2 -> Step([d EXCEPT !.state = "sizes"])
           [] OTHER -> Fail(d)

BlockEnd(d) == Step([d EXCEPT !.state = IF d.final % 2 = 1 THEN "align" ELSE "header"])

RawLength(raw) == raw[1] + raw[2] * Pow2[ByteBits]
RawHeader ==
  /\ HasBits("rawHeader")
  /\ LET raw == Append(r.raw, BitsOf(ByteBits))
         d == [Drop(r, ByteBits) EXCEPT !.raw = raw]
     IN  IF Len(raw) < 4 THEN Step(d)
         ELSE IF RawLength(raw) + RawLength(SubSeq(raw, 3, 4)) # Pow2[2 * ByteBits] - 1
         THEN Fail(d)
         ELSE Step([d EXCEPT !.counter = RawLength(raw), !.state = "rawBits"])

\* Stored bytes that are already in the bit buffer come out of it first.
RawBits ==
  /\ Running("rawBits")
  /\ IF r.counter = 0 \/ r.numBits = 0 THEN Step(Goto("rawCopy"))
     ELSE Step([Drop(r, ByteBits) EXCEPT !.dist = BitsOf(ByteBits),
                                           !.state = "rawOut"])

RawOut ==
  /\ Running("rawOut")
  /\ IF outCur >= outEnd THEN Return(r, "has_more_output")
     ELSE Write([Goto("rawBits") EXCEPT !.counter = @ - 1], r.dist)

RawCopy ==
  /\ Running("rawCopy")
  /\ IF r.counter = 0 THEN BlockEnd(r)
     ELSE IF outCur >= outEnd THEN Return(r, "has_more_output")
     ELSE IF pos >= inEnd THEN ReturnInput
     ELSE LET n == Smaller(Smaller(outEnd - outCur, inEnd - pos), r.counter) IN
          /\ buf' = [i \in DOMAIN buf |->
                       IF i \in (outCur + 1)..(outCur + n) THEN stream[pos + i - outCur] ELSE buf[i]]
          /\ outCur' = outCur + n
          /\ pos' = pos + n
          /\ r' = [r EXCEPT !.counter = @ - n]
          /\ UNCHANGED <<inVars, wrap, outBeg, status>>

(***************************************************************************)
(* Dynamic blocks: table sizes, the code length code, the code lengths     *)
(***************************************************************************)
Sizes ==
  /\ HasBits("sizes")
  /\ LET d == [Drop(r, Need) EXCEPT !.size[r.counter] = BitsOf(Need) + MinSizes[r.counter + 1],
                                    !.counter = @ + 1]
     IN  IF d.counter < 3 THEN Step(d)
         ELSE Step([d EXCEPT !.codeSize[2] = NoCodes(2), !.counter = 0, !.state = "clen"])

Clen ==
  /\ HasBits("clen")
  /\ LET d == [Drop(r, ClBits) EXCEPT !.codeSize[2][Dezigzag[r.counter + 1]] = BitsOf(ClBits),
                                      !.counter = @ + 1]
     IN  IF d.counter < r.size[2] THEN Step(d)
         ELSE Step([d EXCEPT !.size[2] = NumSyms[3], !.state = "build"])

\* tinfl_clear_tree and the check that the code is complete
CompleteCode(t, next) == next[MaxCode + 1] = Pow2[MaxCode + 1] \/ UsedSyms(t) <= 1

Build ==
  /\ Running("build")
  /\ LET t == r.type
         next == NextCode(t)
         d == [r EXCEPT !.lookUp[t] = [k \in 0..(Pow2[FastBits] - 1) |-> 0],
                        !.tree[t] = [k \in 0..(2 * NumSyms[t + 1] - 1) |-> 0],
                        !.next = [l \in 1..(MaxCode + 1) |-> next[l]],
                        !.sym = 0, !.treeNext = -1, !.state = "insert"]
     IN  IF CompleteCode(t, next) THEN Step(d) ELSE Fail(d)

\* One symbol enters the table; after the last one the next table is built.
Inserted ==
  LET t == r.type
      size == r.codeSize[t][r.sym]
      rev == RevCode(r.next[size], size)
      low == rev % Pow2[FastBits]
      fresh == r.lookUp[t][low] = 0
      grown == GrowPath(r.tree[t], IF fresh THEN r.treeNext ELSE r.lookUp[t][low],
                        IF fresh THEN r.treeNext - 2 ELSE r.treeNext, rev, size)
  IN  IF size = 0 THEN r
      ELSE IF size <= FastBits
      THEN [r EXCEPT !.next[size] = @ + 1, !.lookUp[t] = FillLookUp(@, rev, size, r.sym)]
      ELSE [r EXCEPT !.next[size] = @ + 1,
                     !.lookUp[t][low] = IF fresh THEN r.treeNext ELSE @,
                     !.tree[t] = grown.tree, !.treeNext = grown.treeNext]

AfterTable(d) ==
  CASE d.type = 2 -> [d EXCEPT !.counter = 0, !.fill = FALSE, !.state = "rle"]
    [] d.type = 1 -> [d EXCEPT !.type = 0, !.state = "build"]
    [] OTHER -> [d EXCEPT !.type = -1, !.state = "lit"]

Insert ==
  /\ Running("insert")
  /\ IF r.sym < r.size[r.type] THEN Step([Inserted EXCEPT !.sym = @ + 1]) ELSE Step(AfterTable(r))

\* The sizes of m_len_codes: a repeat that starts at the last length may go
\* beyond what is counted.
MaxLens == NumSyms[1] + NumSyms[2] + RepBase[3] + Pow2[RepBits[3]] - 2
TotalLens == r.size[0] + r.size[1]
MoreLens(d) == [d EXCEPT !.state = IF d.counter < TotalLens THEN "rle" ELSE "lensDone"]

LensDone ==
  /\ Running("lensDone")
  /\ IF r.counter # TotalLens THEN Fail(r)
     ELSE Step([r EXCEPT !.codeSize = [t \in 0..2 |->
                  CASE t = 0 -> [i \in DOMAIN @[0] |-> IF i < r.size[0] THEN r.lenCodes[i] ELSE @[0][i]]
                    [] t = 1 -> [i \in DOMAIN @[1] |-> IF i < r.size[1] THEN r.lenCodes[r.size[0] + i] ELSE @[1][i]]
                    [] OTHER -> @[2]],
                  !.type = 1, !.state = "build"])

Rle ==
  /\ HuffReady("rle")
  /\ LET c == Decode(2, r.bitBuf)
         d == [Drop(r, c.len) EXCEPT !.dist = c.sym, !.fill = FALSE]
     IN  IF c.sym <= MaxCode
         THEN Step(MoreLens([d EXCEPT !.lenCodes[r.counter] = c.sym, !.counter = @ + 1]))
         ELSE IF c.sym = MaxCode + 1 /\ r.counter = 0 THEN Fail(d)
         ELSE Step([d EXCEPT !.state = "rleExtra"])

RepeatsZero(c) == 0 \* mutant
RepeatedLen(c) == IF c = MaxCode + 1 THEN r.lenCodes[r.counter - 1] ELSE 0
RleExtra ==
  /\ HasBits("rleExtra")
  /\ LET s == BitsOf(Need) + RepBase[r.dist - MaxCode]
         v == RepeatedLen(r.dist)
     IN  Step(MoreLens([Drop(r, Need) EXCEPT
                 !.lenCodes = [i \in DOMAIN @ |-> IF i \in r.counter..(r.counter + s - 1) THEN v ELSE @[i]],
                 !.counter = @ + s]))

(***************************************************************************)
(* Literals and matches                                                    *)
(***************************************************************************)
\* The loop's top.  With four bytes of input and two of output at hand it
\* decodes two symbols at once without looking at either limit again.
LitFast(d) ==
  LET c1 == Decode(0, d.bitBuf)
      d1 == Drop(d, c1.len)
      c2 == Decode(0, d1.bitBuf)
      d2 == Drop(d1, c2.len)
      first == [buf EXCEPT ![outCur + 1] = c1.sym]
  IN  IF c1.len = 0 THEN [r |-> d1, buf |-> buf, n |-> 0, ok |-> FALSE]
      ELSE IF c1.sym >= EOB
      THEN [r |-> [d1 EXCEPT !.counter = c1.sym, !.state = "match"], buf |-> buf, n |-> 0, ok |-> TRUE]
      ELSE IF c2.len = 0 THEN [r |-> d2, buf |-> buf, n |-> 0, ok |-> FALSE]
      ELSE IF c2.sym >= EOB
      THEN [r |-> [d2 EXCEPT !.counter = c2.sym, !.state = "match"], buf |-> first, n |-> 1, ok |-> TRUE]
      ELSE [r |-> d2, buf |-> [first EXCEPT ![outCur + 2] = c2.sym], n |-> 2, ok |-> TRUE]

IgnoresOutputRoom == inEnd - pos < 4 \* mutant
NearTheEnd == inEnd - pos < 4 \/ outEnd - outCur < 2

Lit ==
  /\ Running("lit")
  /\ IF NearTheEnd THEN Step([r EXCEPT !.state = "litSlow", !.fill = FALSE])
     ELSE LET take == IF r.numBits < 2 * MaxCode THEN 4 ELSE 0
              s == LitFast(Append8(r, take))
          IN  IF s.ok
              THEN /\ r' = s.r /\ buf' = s.buf /\ outCur' = outCur + s.n
                   /\ pos' = pos + take
                   /\ UNCHANGED <<inVars, wrap, outBeg, status>>
              ELSE ReturnAt(pos + take, [s.r EXCEPT !.state = "failed"], "failed")

LitSlow ==
  /\ HuffReady("litSlow")
  /\ LET c == Decode(0, r.bitBuf) IN
       Step([Drop(r, c.len) EXCEPT !.counter = c.sym, !.fill = FALSE,
                                   !.state = IF c.sym >= EOB THEN "match" ELSE "litOut"])

LitOut ==
  /\ Running("litOut")
  /\ IF outCur >= outEnd THEN Return(r, "has_more_output") ELSE Write(Goto("lit"), r.counter)

Match ==
  /\ Running("match")
  /\ IF r.counter = EOB THEN BlockEnd(r)
     ELSE LET k == r.counter - EOB IN
          Step([r EXCEPT !.numExtra = LenExtra[k], !.counter = LenBase[k], !.fill = FALSE,
                         !.state = IF LenExtra[k] > 0 THEN "lenExtra" ELSE "dist"])

LenExtraBits ==
  /\ HasBits("lenExtra")
  /\ Step([Drop(r, Need) EXCEPT !.counter = @ + BitsOf(Need), !.state = "dist"])

\* The distance is known: fail if it points before the output (checked only
\* when the buffer does not wrap), copy at once if both ends stay inside
\* the buffer, else byte by byte.
CrossesEnd(src, len) == Larger(outCur, src) + len > outEnd

CopyMatch(d) ==
  LET src == IF wrap THEN (outCur - d.dist) % outEnd ELSE outCur - d.dist
      at(k) == IF src < outCur THEN src + (k % (outCur - src)) ELSE src + k
  IN  IF ~wrap /\ (d.dist = 0 \/ d.dist > outCur)
      THEN Fail(d)
      ELSE IF CrossesEnd(src, d.counter)
      THEN Step([d EXCEPT !.ofs = outCur, !.state = "copy"])
      ELSE /\ buf' = [i \in DOMAIN buf |->
                        IF i \in (outCur + 1)..(outCur + d.counter)
                        THEN buf[at(i - outCur - 1) + 1] ELSE buf[i]]
           /\ outCur' = outCur + d.counter
           /\ r' = [d EXCEPT !.ofs = outCur, !.state = "lit"]
           /\ UNCHANGED <<inVars, pos, wrap, outBeg, status>>

Dist ==
  /\ HuffReady("dist")
  /\ LET c == Decode(1, r.bitBuf)
         d == [Drop(r, c.len) EXCEPT !.numExtra = DistExtra[c.sym + 1], !.dist = DistBase[c.sym + 1],
                                     !.fill = FALSE, !.state = "distExtra"]
     IN  IF d.numExtra > 0 THEN Step(d) ELSE CopyMatch(d)

DistExtraBits ==
  /\ HasBits("distExtra")
  /\ CopyMatch([Drop(r, Need) EXCEPT !.dist = @ + BitsOf(Need)])

\* pOut_buf_start[(dist_from_out_buf_start++ - dist) & out_buf_size_mask]
Copy ==
  /\ Running("copy")
  /\ IF r.counter = 0 THEN Step(Goto("lit"))
     ELSE IF outCur >= outEnd THEN Return(r, "has_more_output")
     ELSE Write([r EXCEPT !.counter = @ - 1, !.ofs = @ + 1],
                buf[1 + (IF wrap THEN (r.ofs - r.dist) % outEnd ELSE r.ofs - r.dist)])

\* The end of the stream: drop the rest of the last byte, give the bytes
\* read ahead back.
Align ==
  /\ Running("align")
  /\ LET d == Drop(r, r.numBits % ByteBits) IN Return([d EXCEPT !.state = "done"], "done")

\* TINFL_CR_RETURN_FOREVER
Again ==
  /\ status = "running" /\ r.state \in {"done", "failed"}
  /\ Return(r, r.state)

Coroutine ==
  \/ GetByte \/ InputEnds \/ HuffEnter \/ Header \/ RawHeader \/ RawBits \/ RawOut \/ RawCopy
  \/ Sizes \/ Clen \/ Build \/ Insert \/ Rle \/ RleExtra \/ LensDone
  \/ Lit \/ LitSlow \/ LitOut \/ Match \/ LenExtraBits \/ Dist \/ DistExtraBits \/ Copy
  \/ Align \/ Again

\* tinfl_init and case 0 of the coroutine
TinflInit ==
  /\ pos = 0 /\ inBeg = 0 /\ inEnd = 0
  /\ outCur = 0 /\ outBeg = 0
  /\ r = [state |-> "header", numBits |-> 0, bitBuf |-> 0, fill |-> FALSE,
          final |-> 0, type |-> 0, raw |-> <<>>,
          size |-> [t \in 0..2 |-> 0], codeSize |-> [t \in 0..2 |-> NoCodes(t)],
          lenCodes |-> [i \in 0..(MaxLens - 1) |-> 0],
          lookUp |-> [t \in 0..2 |-> [k \in 0..(Pow2[FastBits] - 1) |-> 0]],
          tree |-> [t \in 0..2 |-> [k \in 0..(2 * NumSyms[t + 1] - 1) |-> 0]],
          next |-> [l \in 1..(MaxCode + 1) |-> 0], sym |-> 0, treeNext |-> -1,
          counter |-> 0, dist |-> 0, numExtra |-> 0, ofs |-> 0]
=============================================================================
