----------------------------- MODULE MCInflate -----------------------------
(* A scaled-down deflate: bytes of 2 bits, codes of at most 4, a first-level *)
(* table of 4 entries, literals 0..3, end of block 4, lengths 5..7.  The     *)
(* streams are written by the encoder below from tokens, independently of    *)
(* the decoder.                                                              *)
EXTENDS InflateCallers

MCNumSyms == <<8, 4, 8>>
MCFixedSizes == << <<2, 3, 3, 3, 3, 3, 4, 4>>, <<2, 2, 2, 2>> >>
MCSizeBits == <<2, 2, 2>>
MCMinSizes == <<5, 1, 5>>
MCDezigzag == <<5, 6, 7, 0, 3, 2, 1, 4>>
MCRepBits == <<1, 1, 2>>
MCRepBase == <<3, 3, 5>>
MCLenBase == <<3, 4, 6>>
MCLenExtra == <<0, 1, 1>>
MCDistBase == <<1, 2, 3, 5>>
MCDistExtra == <<0, 0, 1, 1>>

(* Bits *)
Lsb(v, n) == [i \in 1..n |-> Bit(v, i - 1)]
Msb(v, n) == [i \in 1..n |-> Bit(v, n - i)]
(* Canonical codes in closed form: shorter codes first, symbols of one       *)
(* length in order.                                                          *)
CanonicalCode(sizes, s) ==
  LET count(l) == Cardinality({q \in DOMAIN sizes : sizes[q] = l})
      shorter[l \in 0..(sizes[s] - 1)] ==
        IF l = 0 THEN 0 ELSE shorter[l - 1] + count(l) * 2^(sizes[s] - l)
  IN  shorter[sizes[s] - 1] + Cardinality({q \in DOMAIN sizes : q < s /\ sizes[q] = sizes[s]})
Code(sizes, s) ==
  Msb(CanonicalCode([i \in 0..(Len(sizes) - 1) |-> sizes[i + 1]], s), sizes[s + 1])
Flat(ss) == LET f[i \in 0..Len(ss)] == IF i = 0 THEN <<>> ELSE f[i - 1] \o ss[i] IN f[Len(ss)]

(* Tokens: literals <<b>> and matches <<len, dist>> *)
Slot(base, extra, v) ==
  CHOOSE k \in 1..Len(base) : base[k] <= v /\ v < base[k] + 2^extra[k]
Token(lit, dist, t) ==
  IF Len(t) = 1 THEN Code(lit, t[1])
  ELSE LET l == Slot(MCLenBase, MCLenExtra, t[1])
           d == Slot(MCDistBase, MCDistExtra, t[2])
       IN  Code(lit, EOB + l) \o Lsb(t[1] - MCLenBase[l], MCLenExtra[l])
           \o Code(dist, d - 1) \o Lsb(t[2] - MCDistBase[d], MCDistExtra[d])
Tokens(lit, dist, ts) ==
  Flat([i \in 1..Len(ts) |-> Token(lit, dist, ts[i])]) \o Code(lit, EOB)

(* What the tokens expand to *)
ExpandOne(out, t) ==
  IF Len(t) = 1 THEN Append(out, t[1])
  ELSE out \o [k \in 1..t[1] |-> out[Len(out) - t[2] + 1 + ((k - 1) % t[2])]]

(* Blocks *)
Runs(cl, lens) ==
  LET n == Len(lens)
      from[i \in 1..(n + 1)] ==
        IF i > n THEN <<>>
        ELSE LET run == Least({k \in 1..(n - i + 1) : i + k > n \/ lens[i + k] # lens[i]})
                 Repeat(c, base, bits) ==
                   LET k == Smaller(run, base + 2^bits - 1)
                   IN  Code(cl, c) \o Lsb(k - base, bits) \o from[i + k]
             IN  IF lens[i] = 0 /\ run >= 5 /\ cl[8] # 0 THEN Repeat(7, 5, 2)
                 ELSE IF lens[i] = 0 /\ run >= 3 /\ cl[7] # 0 THEN Repeat(6, 3, 1)
                 ELSE IF i > 1 /\ run >= 3 /\ cl[6] # 0 /\ lens[i - 1] = lens[i] THEN Repeat(5, 3, 1)
                 ELSE Code(cl, lens[i]) \o from[i + 1]
  IN  from[1]

Tables(cl, lit, dist) ==
  Lsb(Len(lit) - 5, 2) \o Lsb(Len(dist) - 1, 2) \o Lsb(3, 2)
    \o Flat([i \in 1..8 |-> Lsb(cl[MCDezigzag[i] + 1], 2)])
    \o Runs(cl, lit \o dist)

Pad(bits) == bits \o [i \in 1..((2 - (Len(bits) % 2)) % 2) |-> 0]
PutBlock(bits, b, last) ==
  LET head == bits \o <<IF last THEN 1 ELSE 0>> \o Lsb(b.type, 2) IN
  CASE b.type = 0 ->
         Pad(head) \o Lsb(Len(b.data), 4) \o Lsb(15 - Len(b.data), 4)
           \o Flat([i \in 1..Len(b.data) |-> Lsb(b.data[i], 2)])
    [] b.type = 1 -> head \o Tokens(MCFixedSizes[1], MCFixedSizes[2], b.ts)
    [] OTHER -> head \o Tables(b.cl, b.lit, b.dist) \o Tokens(b.lit, b.dist, b.ts)

Bytes(bits) == LET p == Pad(bits) IN [i \in 1..(Len(p) \div 2) |-> p[2*i - 1] + 2 * p[2*i]]
BitsOfBlocks(bs) ==
  LET f[k \in 0..Len(bs)] == IF k = 0 THEN <<>> ELSE PutBlock(f[k - 1], bs[k], k = Len(bs))
  IN  f[Len(bs)]
ContentOf(bs) ==
  LET f[k \in 0..Len(bs)] ==
        IF k = 0 THEN <<>>
        ELSE IF bs[k].type = 0 THEN f[k - 1] \o bs[k].data
        ELSE LET g[i \in 0..Len(bs[k].ts)] ==
                   IF i = 0 THEN f[k - 1] ELSE ExpandOne(g[i - 1], bs[k].ts[i])
             IN  g[Len(bs[k].ts)]
  IN  f[Len(bs)]

Stored(data) == [type |-> 0, data |-> data]
Fixed(ts) == [type |-> 1, ts |-> ts]
Dynamic(cl, lit, dist, ts) == [type |-> 2, cl |-> cl, lit |-> lit, dist |-> dist, ts |-> ts]

AllCl == <<3, 3, 3, 3, 3, 3, 3, 3>>
FewCl == <<1, 3, 3, 3, 3, 0, 0, 0>>
OneDist == <<1>>
Deep == <<1, 0, 0, 0, 2, 3, 4, 4>>

Archives ==
  { << Fixed(<< <<0>>, <<3>>, <<1>>, <<2>>, <<2>>, <<0>>, <<1>> >>) >>,
    << Fixed(<< <<1>>, <<7, 1>>, <<2>>, <<6, 5>>, <<3, 2>> >>) >>,
    << Stored(<<1, 2, 3>>), Fixed(<< <<3, 2>>, <<4, 3>>, <<0>> >>) >>,
    << Fixed(<< <<3>>, <<2>> >>), Stored(<<1>>) >>,
    << Stored(<<>>) >>,
    << Dynamic(AllCl, <<0, 0, 0, 0, 1>>, OneDist, <<>>), Fixed(<< <<2>>, <<1>> >>) >>,
    << Dynamic(AllCl, Deep, <<0, 0, 0, 1>>, << <<0>>, <<0>>, <<0>>, <<0>>, <<0>>, <<6, 5>>, <<7, 6>>, <<0>> >>) >>,
    << Dynamic(AllCl, <<2, 0, 0, 2, 1>>, OneDist, << <<0>>, <<3>> >>), Stored(<<1, 2, 3>>),
       Dynamic(FewCl, <<2, 2, 0, 0, 2, 2>>, OneDist, << <<1>>, <<3, 1>>, <<0>> >>) >>,
    << Dynamic(AllCl, <<2, 3, 3, 3, 3, 3, 4, 4>>, <<1, 2, 3, 3>>, << <<1>>, <<2>>, <<3>>, <<4, 3>>, <<7, 2>> >>) >> }

ShortArchives == {bs \in Archives : \A k \in DOMAIN bs : bs[k].type # 2}

Case(c, bs, tail, rbuf, ubuf, faulty) ==
  LET data == Bytes(BitsOfBlocks(bs)) IN
  [caller |-> c, stream |-> data \o tail, length |-> Len(data), content |-> ContentOf(bs),
   declared |-> Len(ContentOf(bs)), valid |-> TRUE, rbuf |-> rbuf, ubuf |-> ubuf, faulty |-> faulty]

(* Damage: one byte changed, or the end cut off *)
Flip(d, i) == [d EXCEPT ![i] = (d[i] + 2) % 4]
Damaged(c, bs, rbuf) ==
  LET good == Case(c, bs, <<>>, rbuf, 2, FALSE)
      bad == {Flip(good.stream, i) : i \in 1..Len(good.stream)}
             \cup {SubSeq(good.stream, 1, n) : n \in 1..(Len(good.stream) - 1)}
  IN  {[good EXCEPT !.stream = d, !.valid = FALSE] : d \in bad}

CONSTANTS Tails, ReadSizes, UserSizes, BadSizes
MCCases ==
  {Case(c, bs, tail, n, u, FALSE) : c \in {"iter", "zlib"}, bs \in Archives, tail \in Tails,
                                    n \in ReadSizes, u \in UserSizes}
  \cup {Case(c, bs, tail, n, 1, FALSE) : c \in {"callback", "mem"}, bs \in Archives,
                                         tail \in Tails, n \in ReadSizes}
  \cup {Case(c, bs, tail, 1, 1, FALSE) : c \in {"heap", "sink", "once"}, bs \in Archives, tail \in Tails}
  \cup {Case(c, bs, <<>>, 3, 3, TRUE) : c \in {"callback", "iter", "mem", "sink"}, bs \in Archives}
  \cup UNION {Damaged("callback", bs, n) : bs \in Archives, n \in BadSizes}
  \cup UNION {Damaged(c, bs, n) : c \in {"iter", "mem", "zlib"}, bs \in ShortArchives, n \in BadSizes}

(* x^4 + x + 1, reflected.  At full width, the standard check value: the     *)
(* CRC-32 of the digits 1 to 9 is 0xCBF43926.                                *)
MCCrcPoly == {2, 3}
Full == INSTANCE Crc32 WITH ByteBits <- 8, CrcBits <- 32,
                            CrcPoly <- {5, 8, 9, 15, 19, 20, 21, 23, 24, 26, 27, 29, 30, 31}
ASSUME CrcCheckValue ==
  Full!Crc(Full!CrcInit, [i \in 1..9 |-> 48 + i])
    = {1, 2, 5, 8, 11, 12, 13, 18, 20, 21, 22, 23, 24, 25, 27, 30, 31}

MCTails == {<<>>, <<2, 1, 3, 1, 2>>}
=============================================================================
