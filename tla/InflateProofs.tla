--------------------------- MODULE InflateProofs ---------------------------
(***************************************************************************)
(* Proofs about the decompressor and the loops that drive it               *)
(* (InflateCallers), for every value of the format's constants, every      *)
(* stream, sound or damaged, and every way to cut input and output into    *)
(* pieces.                                                                 *)
(*                                                                         *)
(*  - Numbers: recursive functions over an interval, powers of two,        *)
(*    quotients, single bits, reversed codes.                              *)
(*  - Tables: a code the completeness check accepts has room for all its   *)
(*    tree nodes, and a walk down a table ends at a symbol.                *)
(*  - The coroutine: CoInv is kept by each of its steps (one lemma each).  *)
(*  - The callers: Inv adds where the next window starts and what has been *)
(*    handed on; it implies TypeOK.                                        *)
(*  - The checksum: piece by piece it is that of the whole, and no change  *)
(*    within one register's width of bits leaves it as it was.             *)
(***************************************************************************)
EXTENDS InflateCallers, TLAPS, FiniteSetTheorems, SequenceTheorems
----------------------------------------------------------------------------
(***************************************************************************)
(* Numbers                                                                 *)
(***************************************************************************)
\* A set of numbers that is not empty has a least element.
LEMMA LeastNumber ==
  ASSUME NEW S \in SUBSET Nat, S # {}
  PROVE  \E x \in S : \A y \in S : x <= y
<1> DEFINE R == {ss \in Nat \X Nat : ss[1] < ss[2]}
<1>1. IsWellFoundedOn(R, Nat) BY NatLessThanWellFounded DEF OpToRel
<1>2. PICK x \in S : \A y \in S : ~(<<y, x>> \in R)
  <2> HIDE DEF R
  <2> QED BY <1>1, WFMin
<1>3. \A a, b \in Nat : a < b => <<a, b>> \in R OBVIOUS
<1> HIDE DEF R
<1>4. \A y \in S : ~(y < x) BY <1>2, <1>3
<1>5. \A y \in S : x <= y BY <1>4
<1> QED BY <1>5

\* Induction, for a set of numbers: what holds of the first one and of every
\* next one holds of all of them.
LEMMA Reaches ==
  ASSUME NEW a \in Int, NEW b \in Int, NEW S,
         a \in S, \A k \in a..(b - 1) : k \in S => k + 1 \in S
  PROVE  \A k \in a..b : k \in S
<1> DEFINE Bad == {i \in Nat : i <= b - a /\ a + i \notin S}
<1>1. Bad = {}
  <2> SUFFICES ASSUME Bad # {} PROVE FALSE OBVIOUS
  <2>1. Bad \in SUBSET Nat OBVIOUS
  <2>2. PICK i \in Bad : \A j \in Bad : i <= j
    <3> HIDE DEF Bad
    <3> QED BY <2>1, LeastNumber
  <2>3. i \in Nat /\ i <= b - a /\ a + i \notin S OBVIOUS
  <2>4. i # 0 BY <2>3
  <2>5. i - 1 \in Nat /\ ~(i <= i - 1) /\ i - 1 <= b - a BY <2>3, <2>4
  <2>6. i - 1 \notin Bad
    <3> HIDE DEF Bad
    <3> QED BY <2>2, <2>5
  <2>7. a + (i - 1) \in S BY <2>5, <2>6
  <2>8. a + (i - 1) \in a..(b - 1) /\ (a + (i - 1)) + 1 = a + i BY <2>3, <2>5
  <2> HIDE DEF Bad
  <2> QED BY <2>3, <2>7, <2>8
<1> SUFFICES ASSUME NEW k \in a..b PROVE k \in S OBVIOUS
<1>2. k - a \in Nat /\ k - a <= b - a /\ a + (k - a) = k OBVIOUS
<1>3. k - a \notin Bad
  <2> HIDE DEF Bad
  <2> QED BY <1>1
<1> QED BY <1>2, <1>3

(***************************************************************************)
(* Functions defined by recursion over an interval                         *)
(***************************************************************************)
Recurs(f, a, b, x0, F) == f = [k \in a..b |-> IF k = a THEN x0 ELSE F[k][f[k - 1]]]

LEMMA RecursionHolds ==
  ASSUME NEW a \in Int, NEW b \in Int, a <= b, NEW x0, NEW F
  PROVE  \E f : Recurs(f, a, b, x0, F)
<1> DEFINE S == {m \in Int : \E f : Recurs(f, a, m, x0, F)}
<1>1. a \in S
  <2> DEFINE one == [k \in a..a |-> x0]
  <2>1. \A k \in a..a : k = a OBVIOUS
  <2>2. one = [k \in a..a |-> IF k = a THEN x0 ELSE F[k][one[k - 1]]] BY <2>1
  <2>3. Recurs(one, a, a, x0, F)
    <3> HIDE DEF one
    <3> QED BY <2>2 DEF Recurs
  <2> QED BY <2>3
<1>2. ASSUME NEW m \in a..(b - 1), m \in S PROVE m + 1 \in S
  <2>1. PICK h : Recurs(h, a, m, x0, F) BY <1>2
  <2> DEFINE f == [k \in a..(m + 1) |-> IF k = a THEN x0 ELSE F[k][h[k - 1]]]
  <2>2. \A k \in a..m : h[k] = IF k = a THEN x0 ELSE F[k][h[k - 1]] BY <2>1 DEF Recurs
  <2>3. \A k \in a..m : f[k] = h[k]
    <3> SUFFICES ASSUME NEW k \in a..m PROVE f[k] = h[k] OBVIOUS
    <3>1. k \in a..(m + 1) OBVIOUS
    <3>2. f[k] = IF k = a THEN x0 ELSE F[k][h[k - 1]] BY <3>1
    <3> QED BY <2>2, <3>2
  <2>4. \A k \in a..(m + 1) : k # a => k - 1 \in a..m OBVIOUS
  <2>5. \A k \in a..(m + 1) : (IF k = a THEN x0 ELSE F[k][h[k - 1]]) = (IF k = a THEN x0 ELSE F[k][f[k - 1]])
    <3> HIDE DEF f
    <3> QED BY <2>3, <2>4
  <2>6. f = [k \in a..(m + 1) |-> IF k = a THEN x0 ELSE F[k][f[k - 1]]]
    <3>1. f = [k \in a..(m + 1) |-> IF k = a THEN x0 ELSE F[k][h[k - 1]]] OBVIOUS
    <3> HIDE DEF f
    <3> QED BY <2>5, <3>1
  <2>7. Recurs(f, a, m + 1, x0, F)
    <3> HIDE DEF f
    <3> QED BY <2>6 DEF Recurs
  <2> QED BY <2>7
<1>3. b \in S
  <2> HIDE DEF S
  <2>1. \A k \in a..b : k \in S BY <1>1, <1>2, Reaches
  <2> QED BY <2>1
<1> QED BY <1>3

\* Such a function is determined by its first value and its rule.
LEMMA RecursionUnique ==
  ASSUME NEW a \in Int, NEW b \in Int, NEW m \in Int, m <= b, NEW x0, NEW F, NEW f, NEW g,
         Recurs(f, a, b, x0, F), Recurs(g, a, m, x0, F)
  PROVE  \A k \in a..m : f[k] = g[k]
<1> DEFINE S == {k \in Int : f[k] = g[k]}
<1> SUFFICES ASSUME a <= m PROVE \A k \in a..m : k \in S OBVIOUS
<1>1. \A k \in a..b : f[k] = IF k = a THEN x0 ELSE F[k][f[k - 1]] BY DEF Recurs
<1>2. \A k \in a..m : g[k] = IF k = a THEN x0 ELSE F[k][g[k - 1]] BY DEF Recurs
<1>3. a \in S
  <2>1. a \in a..b /\ a \in a..m OBVIOUS
  <2>2. f[a] = x0 /\ g[a] = x0 BY <1>1, <1>2, <2>1
  <2> QED BY <2>2
<1>4. ASSUME NEW k \in a..(m - 1), k \in S PROVE k + 1 \in S
  <2>1. k + 1 \in a..b /\ k + 1 \in a..m /\ (k + 1) - 1 = k /\ k + 1 # a OBVIOUS
  <2>2. f[k + 1] = F[k + 1][f[k]] BY <1>1, <2>1
  <2>3. g[k + 1] = F[k + 1][g[k]] BY <1>2, <2>1
  <2> QED BY <1>4, <2>1, <2>2, <2>3
<1> HIDE DEF S
<1> QED BY <1>3, <1>4, Reaches

(***************************************************************************)
(* Powers of two                                                           *)
(***************************************************************************)
LEMMA Pow2Rule == Pow2 = [n \in Nat |-> IF n = 0 THEN 1 ELSE 2 * Pow2[n - 1]]
<1> DEFINE F == [k \in Nat |-> [x \in Nat |-> 2 * x]]
           G(n) == CHOOSE g : Recurs(g, 0, n, 1, F)
           f == [n \in Nat |-> G(n)[n]]
<1>1. \A n \in Nat : Recurs(G(n), 0, n, 1, F)
  <2> SUFFICES ASSUME NEW n \in Nat PROVE Recurs(G(n), 0, n, 1, F) OBVIOUS
  <2>1. \E g : Recurs(g, 0, n, 1, F)
    <3> HIDE DEF F
    <3> QED BY RecursionHolds
  <2> HIDE DEF F
  <2> QED BY <2>1
<1>2. \A n \in Nat : \A k \in 0..n : G(n)[k] = IF k = 0 THEN 1 ELSE F[k][G(n)[k - 1]]
  <2> HIDE DEF F, G
  <2> QED BY <1>1 DEF Recurs
<1>3. \A n \in Nat : \A k \in 0..n : G(n)[k] \in Nat
  <2> SUFFICES ASSUME NEW n \in Nat PROVE \A k \in 0..n : G(n)[k] \in Nat OBVIOUS
  <2> DEFINE S == {k \in 0..n : G(n)[k] \in Nat}
  <2>1. 0 \in S
    <3>1. 0 \in 0..n OBVIOUS
    <3>2. G(n)[0] = 1
      <4> HIDE DEF F, G
      <4> QED BY <1>2, <3>1
    <3> HIDE DEF F, G
    <3> QED BY <3>1, <3>2
  <2>2. ASSUME NEW k \in 0..(n - 1), k \in S PROVE k + 1 \in S
    <3>1. k + 1 \in 0..n /\ (k + 1) - 1 = k /\ k + 1 # 0 /\ k + 1 \in Nat OBVIOUS
    <3>2. G(n)[k + 1] = F[k + 1][G(n)[k]]
      <4> HIDE DEF F, G
      <4> QED BY <1>2, <3>1
    <3>3. G(n)[k] \in Nat BY <2>2
    <3> HIDE DEF G
    <3>4. F[k + 1][G(n)[k]] = 2 * G(n)[k] BY <3>1, <3>3
    <3> HIDE DEF F
    <3> QED BY <3>1, <3>2, <3>3, <3>4
  <2>3. \A k \in 0..n : k \in S
    <3> HIDE DEF S
    <3> QED BY <2>1, <2>2, Reaches
  <2> QED BY <2>3
<1>4. \A n \in Nat : f[n] = IF n = 0 THEN 1 ELSE 2 * f[n - 1]
  <2> SUFFICES ASSUME NEW n \in Nat PROVE f[n] = IF n = 0 THEN 1 ELSE 2 * f[n - 1] OBVIOUS
  <2>0. n \in 0..n /\ f[n] = G(n)[n] OBVIOUS
  <2>1. CASE n = 0
    <3> HIDE DEF F, G, f
    <3> QED BY <1>2, <2>0, <2>1
  <2>2. CASE n # 0
    <3>1. n - 1 \in Nat /\ n - 1 \in 0..n /\ n - 1 \in 0..(n - 1) /\ n - 1 <= n BY <2>2
    <3>2. f[n - 1] = G(n - 1)[n - 1] BY <3>1
    <3>3. G(n)[n - 1] = G(n - 1)[n - 1]
      <4>1. Recurs(G(n), 0, n, 1, F) /\ Recurs(G(n - 1), 0, n - 1, 1, F)
        <5> HIDE DEF F, G
        <5> QED BY <1>1, <3>1
      <4> HIDE DEF F, G
      <4> QED BY <3>1, <4>1, RecursionUnique
    <3>4. G(n)[n - 1] \in Nat
      <4> HIDE DEF F, G
      <4> QED BY <1>3, <3>1
    <3>5. G(n)[n] = F[n][G(n)[n - 1]]
      <4> HIDE DEF F, G
      <4> QED BY <1>2, <2>0, <2>2
    <3>6. F[n][G(n)[n - 1]] = 2 * G(n)[n - 1]
      <4> HIDE DEF G
      <4> QED BY <3>4
    <3> HIDE DEF F, G, f
    <3> QED BY <2>0, <2>2, <3>2, <3>3, <3>5, <3>6
  <2> QED BY <2>1, <2>2
<1>5. f = [n \in Nat |-> IF n = 0 THEN 1 ELSE 2 * f[n - 1]]
  <2>1. f = [n \in Nat |-> f[n]] OBVIOUS
  <2> HIDE DEF f
  <2> QED BY <1>4, <2>1
<1>6. \E g : g = [n \in Nat |-> IF n = 0 THEN 1 ELSE 2 * g[n - 1]]
  <2> HIDE DEF f
  <2> QED BY <1>5
<1> QED BY <1>6 DEF Pow2

LEMMA Pow2Type ==
  /\ Pow2[0] = 1
  /\ \A n \in Nat : Pow2[n] \in Nat /\ Pow2[n] >= 1
  /\ \A n \in Nat : Pow2[n + 1] = 2 * Pow2[n]
<1>1. \A n \in Nat : Pow2[n] = IF n = 0 THEN 1 ELSE 2 * Pow2[n - 1] BY Pow2Rule
<1>2. Pow2[0] = 1 BY <1>1
<1>3. \A n \in Nat : Pow2[n + 1] = 2 * Pow2[n]
  <2> SUFFICES ASSUME NEW n \in Nat PROVE Pow2[n + 1] = 2 * Pow2[n] OBVIOUS
  <2>1. n + 1 \in Nat /\ n + 1 # 0 /\ (n + 1) - 1 = n OBVIOUS
  <2> QED BY <1>1, <2>1
<1>4. ASSUME NEW n \in Nat PROVE Pow2[n] \in Nat /\ Pow2[n] >= 1
  <2> DEFINE S == {k \in Nat : Pow2[k] \in Nat /\ Pow2[k] >= 1}
  <2>1. 0 \in S BY <1>2
  <2>2. ASSUME NEW k \in 0..(n - 1), k \in S PROVE k + 1 \in S BY <1>3, <2>2
  <2>3. \A k \in 0..n : k \in S
    <3> HIDE DEF S
    <3> QED BY <2>1, <2>2, Reaches
  <2> QED BY <2>3
<1> QED BY <1>2, <1>3, <1>4

LEMMA Pow2Sum == \A a, b \in Nat : Pow2[a + b] = Pow2[a] * Pow2[b]
<1> SUFFICES ASSUME NEW a \in Nat, NEW b \in Nat PROVE Pow2[a + b] = Pow2[a] * Pow2[b] OBVIOUS
<1> DEFINE S == {k \in Nat : Pow2[a + k] = Pow2[a] * Pow2[k]}
<1>1. 0 \in S BY Pow2Type
<1>2. ASSUME NEW k \in 0..(b - 1), k \in S PROVE k + 1 \in S
  <2>1. Pow2[(a + k) + 1] = 2 * Pow2[a + k] /\ Pow2[k + 1] = 2 * Pow2[k] BY Pow2Type
  <2>2. Pow2[a + k] = Pow2[a] * Pow2[k] BY <1>2
  <2>3. a + (k + 1) = (a + k) + 1 OBVIOUS
  <2>4. Pow2[a] \in Nat /\ Pow2[k] \in Nat BY Pow2Type
  <2>5. 2 * (Pow2[a] * Pow2[k]) = Pow2[a] * (2 * Pow2[k]) BY <2>4
  <2> QED BY <2>1, <2>2, <2>3, <2>5
<1>3. \A k \in 0..b : k \in S
  <2> HIDE DEF S
  <2> QED BY <1>1, <1>2, Reaches
<1> QED BY <1>3

LEMMA Pow2Monotone == \A a, b \in Nat : a <= b => Pow2[a] <= Pow2[b]
<1> SUFFICES ASSUME NEW a \in Nat, NEW b \in Nat, a <= b PROVE Pow2[a] <= Pow2[b] OBVIOUS
<1>1. b - a \in Nat /\ a + (b - a) = b OBVIOUS
<1>2. Pow2[b] = Pow2[a] * Pow2[b - a] BY <1>1, Pow2Sum
<1>3. Pow2[a] \in Nat /\ Pow2[b - a] \in Nat /\ Pow2[b - a] >= 1 BY <1>1, Pow2Type
<1>4. \A x, y \in Nat : y >= 1 => x <= x * y OBVIOUS
<1> QED BY <1>2, <1>3, <1>4

(***************************************************************************)
(* Quotients                                                               *)
(***************************************************************************)
LEMMA DivMod ==
  ASSUME NEW x \in Int, NEW a \in Nat, a >= 1
  PROVE  x \div a \in Int /\ x % a \in 0..(a - 1) /\ x = (x \div a) * a + (x % a)
OBVIOUS

LEMMA DivUnique ==
  ASSUME NEW a \in Nat, NEW q \in Int, NEW s \in 0..(a - 1), a >= 1
  PROVE  (q * a + s) \div a = q /\ (q * a + s) % a = s
OBVIOUS

LEMMA DivNat ==
  ASSUME NEW x \in Nat, NEW a \in Nat, a >= 1
  PROVE  x \div a \in Nat /\ x \div a <= x /\ x % a \in Nat /\ x % a < a /\ x % a <= x
<1>1. x \div a \in Int /\ x % a \in 0..(a - 1) /\ x = (x \div a) * a + (x % a) BY DivMod
<1>2. \A q \in Int, s \in 0..(a - 1) : x = q * a + s => q >= 0 /\ q <= x /\ s <= x
  <2> SUFFICES ASSUME NEW q \in Int, NEW s \in 0..(a - 1), x = q * a + s PROVE q >= 0 /\ q <= x /\ s <= x
    OBVIOUS
  <2>1. q >= 0
    <3> SUFFICES ASSUME q <= -1 PROVE FALSE OBVIOUS
    <3>1. q * a <= -a OBVIOUS
    <3> QED BY <3>1
  <2>2. q * a >= q BY <2>1
  <2> QED BY <2>1, <2>2
<1> QED BY <1>1, <1>2

\* x below the product of a and b leaves less than b when a is taken out.
LEMMA DivBelow ==
  ASSUME NEW a \in Nat, NEW b \in Nat, NEW x \in Nat, a >= 1, x < a * b
  PROVE  x \div a < b
<1>1. x \div a \in Nat /\ x % a \in 0..(a - 1) /\ x = (x \div a) * a + (x % a)
  <2>1. x \in Int OBVIOUS
  <2>2. x % a \in 0..(a - 1) /\ x = (x \div a) * a + (x % a) BY <2>1, DivMod
  <2>3. x \div a \in Nat BY DivNat
  <2> QED BY <2>2, <2>3
<1>2. \A q \in Nat, s \in Nat : (q * a + s < a * b) => q < b
  <2> SUFFICES ASSUME NEW q \in Nat, NEW s \in Nat, q * a + s < a * b, q >= b PROVE FALSE OBVIOUS
  <2>1. q * a >= b * a OBVIOUS
  <2> QED BY <2>1
<1> QED BY <1>1, <1>2

LEMMA DivDiv ==
  ASSUME NEW a \in Nat, NEW b \in Nat, NEW x \in Nat, a >= 1, b >= 1
  PROVE  (x \div a) \div b = x \div (a * b)
OBVIOUS

LEMMA DivMonotone ==
  ASSUME NEW x \in Nat, NEW y \in Nat, NEW a \in Nat, a >= 1, x <= y
  PROVE  x \div a <= y \div a
<1>1. x \div a \in Nat /\ x % a \in 0..(a - 1) /\ x = (x \div a) * a + (x % a)
  <2>1. x \in Int OBVIOUS
  <2>2. x % a \in 0..(a - 1) /\ x = (x \div a) * a + (x % a) BY <2>1, DivMod
  <2>3. x \div a \in Nat BY DivNat
  <2> QED BY <2>2, <2>3
<1>2. y \div a \in Nat /\ y % a \in 0..(a - 1) /\ y = (y \div a) * a + (y % a)
  <2>1. y \in Int OBVIOUS
  <2>2. y % a \in 0..(a - 1) /\ y = (y \div a) * a + (y % a) BY <2>1, DivMod
  <2>3. y \div a \in Nat BY DivNat
  <2> QED BY <2>2, <2>3
<1>3. \A p, q \in Nat, s, t \in 0..(a - 1) : p * a + s <= q * a + t => p <= q
  <2> SUFFICES ASSUME NEW p \in Nat, NEW q \in Nat, NEW s \in 0..(a - 1), NEW t \in 0..(a - 1),
                      p * a + s <= q * a + t, p >= q + 1
               PROVE FALSE OBVIOUS
  <2>1. p * a >= (q + 1) * a OBVIOUS
  <2>2. (q + 1) * a = q * a + a OBVIOUS
  <2> QED BY <2>1, <2>2
<1> QED BY <1>1, <1>2, <1>3

(***************************************************************************)
(* Bits, and codes written backwards                                       *)
(***************************************************************************)
LEMMA BitType == \A x, i \in Nat : Bit(x, i) \in {0, 1}
<1> SUFFICES ASSUME NEW x \in Nat, NEW i \in Nat PROVE Bit(x, i) \in {0, 1} OBVIOUS
<1>1. Pow2[i] \in Nat /\ Pow2[i] >= 1 BY Pow2Type
<1>2. x \div Pow2[i] \in Nat BY <1>1, DivNat
<1> QED BY <1>2 DEF Bit

LEMMA ShiftShift ==
  ASSUME NEW x \in Nat, NEW i \in Nat, NEW j \in Nat
  PROVE  (x \div Pow2[i]) \div Pow2[j] = x \div Pow2[i + j]
<1>1. Pow2[i] \in Nat /\ Pow2[i] >= 1 /\ Pow2[j] \in Nat /\ Pow2[j] >= 1 BY Pow2Type
<1>2. Pow2[i + j] = Pow2[i] * Pow2[j] BY Pow2Sum
<1> QED BY <1>1, <1>2, DivDiv

LEMMA ShiftType ==
  ASSUME NEW x \in Nat, NEW i \in Nat
  PROVE  x \div Pow2[i] \in Nat /\ x \div Pow2[i] <= x /\ x % Pow2[i] \in 0..(Pow2[i] - 1)
<1>1. Pow2[i] \in Nat /\ Pow2[i] >= 1 BY Pow2Type
<1>2. x \div Pow2[i] \in Nat /\ x \div Pow2[i] <= x /\ x % Pow2[i] \in Nat /\ x % Pow2[i] < Pow2[i] BY <1>1, DivNat
<1> QED BY <1>1, <1>2

LEMMA ShiftBelow ==
  ASSUME NEW a \in Nat, NEW b \in Nat, NEW x \in Nat, x < Pow2[a + b]
  PROVE  x \div Pow2[a] < Pow2[b]
<1>1. Pow2[a] \in Nat /\ Pow2[a] >= 1 /\ Pow2[b] \in Nat BY Pow2Type
<1>2. Pow2[a + b] = Pow2[a] * Pow2[b] BY Pow2Sum
<1> QED BY <1>1, <1>2, DivBelow

LEMMA BitOfShift ==
  ASSUME NEW x \in Nat, NEW i \in Nat, NEW j \in Nat
  PROVE  Bit(x \div Pow2[i], j) = Bit(x, i + j)
BY ShiftShift DEF Bit

\* One bit more of the prefix
LEMMA NextBit ==
  ASSUME NEW x \in Nat, NEW i \in Nat
  PROVE  x \div Pow2[i] = 2 * (x \div Pow2[i + 1]) + Bit(x, i)
<1>1. Pow2[1] = 2
  <2>1. Pow2[0 + 1] = 2 * Pow2[0] /\ Pow2[0] = 1 BY Pow2Type
  <2> QED BY <2>1
<1>2. (x \div Pow2[i]) \div 2 = x \div Pow2[i + 1]
  <2>1. 1 \in Nat OBVIOUS
  <2>2. (x \div Pow2[i]) \div Pow2[1] = x \div Pow2[i + 1] BY <2>1, ShiftShift
  <2> QED BY <1>1, <2>2
<1>3. x \div Pow2[i] \in Nat BY ShiftType
<1>4. \A y \in Nat : y = 2 * (y \div 2) + (y % 2) OBVIOUS
<1> QED BY <1>2, <1>3, <1>4 DEF Bit

\* RevCode by recursion over the number of bits.
LEMMA RevRule ==
  ASSUME NEW c \in Nat
  PROVE  /\ RevCode(c, 0) = 0
         /\ \A i \in Nat : RevCode(c, i + 1) = 2 * RevCode(c, i) + Bit(c, i)
         /\ \A i \in Nat : RevCode(c, i) \in Nat
<1> DEFINE F == [k \in Nat |-> [x \in Nat |-> 2 * x + Bit(c, k - 1)]]
           Rec(f, n) == f = [i \in 0..n |-> IF i = 0 THEN 0 ELSE 2 * f[i - 1] + Bit(c, i - 1)]
           G(n) == CHOOSE f : Rec(f, n)
<1>1. \A n \in Nat : Rec(G(n), n) /\ Recurs(G(n), 0, n, 0, F) /\ \A i \in 0..n : G(n)[i] \in Nat
  <2> SUFFICES ASSUME NEW n \in Nat
               PROVE  Rec(G(n), n) /\ Recurs(G(n), 0, n, 0, F) /\ \A i \in 0..n : G(n)[i] \in Nat
    OBVIOUS
  <2>0. \A k \in Nat, x \in Nat : F[k][x] = 2 * x + Bit(c, k - 1) OBVIOUS
  <2>1. PICK g : Recurs(g, 0, n, 0, F)
    <3> HIDE DEF F
    <3> QED BY RecursionHolds
  <2>2. ASSUME NEW f,
               \A k \in 0..n : \/ f[k] = (IF k = 0 THEN 0 ELSE F[k][f[k - 1]])
                               \/ f[k] = (IF k = 0 THEN 0 ELSE 2 * f[k - 1] + Bit(c, k - 1))
        PROVE  \A i \in 0..n : f[i] \in Nat
    <3> DEFINE S == {i \in 0..n : f[i] \in Nat}
    <3> HIDE DEF F
    <3>1. 0 \in S BY <2>2
    <3>2. ASSUME NEW k \in 0..(n - 1), k \in S PROVE k + 1 \in S
      <4>1. k + 1 \in 0..n /\ (k + 1) - 1 = k /\ k + 1 # 0 /\ k + 1 \in Nat /\ k \in Nat OBVIOUS
      <4>2. f[k] \in Nat /\ Bit(c, k) \in {0, 1} BY <3>2, <4>1, BitType
      <4>3. F[k + 1][f[k]] = 2 * f[k] + Bit(c, k) BY <2>0, <4>1, <4>2
      <4>4. f[k + 1] = 2 * f[k] + Bit(c, k) BY <2>2, <4>1, <4>3
      <4> QED BY <4>1, <4>2, <4>4
    <3>3. \A k \in 0..n : k \in S
      <4> HIDE DEF S
      <4> QED BY <3>1, <3>2, Reaches
    <3> QED BY <3>3
  <2>3. \A i \in 0..n : i # 0 => i - 1 \in 0..n /\ i \in Nat OBVIOUS
  <2>4. Rec(g, n)
    <3>1. g = [i \in 0..n |-> IF i = 0 THEN 0 ELSE F[i][g[i - 1]]]
      <4> HIDE DEF F
      <4> QED BY <2>1 DEF Recurs
    <3>2. \A i \in 0..n : g[i] = IF i = 0 THEN 0 ELSE F[i][g[i - 1]]
      <4> HIDE DEF F
      <4> QED BY <3>1
    <3>3. \A i \in 0..n : g[i] \in Nat
      <4> HIDE DEF F
      <4> QED BY <2>2, <3>2
    <3>4. \A i \in 0..n : (IF i = 0 THEN 0 ELSE F[i][g[i - 1]]) = (IF i = 0 THEN 0 ELSE 2 * g[i - 1] + Bit(c, i - 1))
      <4> HIDE DEF F
      <4> QED BY <2>0, <2>3, <3>3
    <3> HIDE DEF F
    <3> QED BY <3>1, <3>4
  <2>5. Rec(G(n), n) BY <2>4
  <2> DEFINE f == G(n)
  <2>6. f = [i \in 0..n |-> IF i = 0 THEN 0 ELSE 2 * f[i - 1] + Bit(c, i - 1)] BY <2>5
  <2> HIDE DEF f, F
  <2>7. \A k \in 0..n : f[k] = IF k = 0 THEN 0 ELSE 2 * f[k - 1] + Bit(c, k - 1) BY <2>6
  <2>8. \A i \in 0..n : f[i] \in Nat BY <2>2, <2>7
  <2>9. \A i \in 0..n : (IF i = 0 THEN 0 ELSE F[i][f[i - 1]]) = (IF i = 0 THEN 0 ELSE 2 * f[i - 1] + Bit(c, i - 1))
    BY <2>0, <2>3, <2>8
  <2>10. Recurs(f, 0, n, 0, F) BY <2>6, <2>9 DEF Recurs
  <2> QED BY <2>5, <2>8, <2>10 DEF f
<1>2. \A n \in Nat : RevCode(c, n) = G(n)[n] BY DEF RevCode
<1> HIDE DEF F
<1>3. \A n \in Nat : RevCode(c, n) \in Nat
  <2> SUFFICES ASSUME NEW n \in Nat PROVE RevCode(c, n) \in Nat OBVIOUS
  <2>1. n \in 0..n OBVIOUS
  <2> HIDE DEF G, Rec
  <2> QED BY <1>1, <1>2, <2>1
<1>4. RevCode(c, 0) = 0
  <2> DEFINE f == G(0)
  <2>1. f = [i \in 0..0 |-> IF i = 0 THEN 0 ELSE 2 * f[i - 1] + Bit(c, i - 1)] BY <1>1
  <2>2. RevCode(c, 0) = f[0] BY <1>2
  <2> HIDE DEF f
  <2>3. 0 \in 0..0 OBVIOUS
  <2> QED BY <2>1, <2>2, <2>3
<1>5. ASSUME NEW i \in Nat PROVE RevCode(c, i + 1) = 2 * RevCode(c, i) + Bit(c, i)
  <2> DEFINE f == G(i + 1)
             g == G(i)
  <2>1. f = [k \in 0..(i + 1) |-> IF k = 0 THEN 0 ELSE 2 * f[k - 1] + Bit(c, k - 1)] BY <1>1
  <2>2. RevCode(c, i + 1) = f[i + 1] /\ RevCode(c, i) = g[i] BY <1>2
  <2>3. Recurs(f, 0, i + 1, 0, F) /\ Recurs(g, 0, i, 0, F) BY <1>1
  <2> HIDE DEF f, g
  <2>4. i + 1 \in 0..(i + 1) /\ i + 1 # 0 /\ (i + 1) - 1 = i /\ i \in 0..i /\ i <= i + 1 OBVIOUS
  <2>5. f[i] = g[i] BY <2>3, <2>4, RecursionUnique
  <2>6. f[i + 1] = 2 * f[i] + Bit(c, i) BY <2>1, <2>4
  <2> QED BY <2>2, <2>5, <2>6
<1> QED BY <1>3, <1>4, <1>5

LEMMA RevBelow ==
  ASSUME NEW c \in Nat, NEW s \in Nat
  PROVE  RevCode(c, s) \in 0..(Pow2[s] - 1)
<1> DEFINE S == {i \in Nat : RevCode(c, i) \in 0..(Pow2[i] - 1)}
<1>1. 0 \in S
  <2>1. RevCode(c, 0) = 0 BY RevRule
  <2>2. Pow2[0] = 1 BY Pow2Type
  <2> QED BY <2>1, <2>2
<1>2. ASSUME NEW i \in 0..(s - 1), i \in S PROVE i + 1 \in S
  <2>1. i \in Nat /\ RevCode(c, i) \in 0..(Pow2[i] - 1) BY <1>2
  <2>2. Pow2[i] \in Nat /\ Pow2[i + 1] = 2 * Pow2[i] BY <2>1, Pow2Type
  <2>3. RevCode(c, i + 1) = 2 * RevCode(c, i) + Bit(c, i) /\ Bit(c, i) \in {0, 1} BY <2>1, RevRule, BitType
  <2> QED BY <2>1, <2>2, <2>3
<1>3. \A i \in 0..s : i \in S
  <2> HIDE DEF S
  <2> QED BY <1>1, <1>2, Reaches
<1> QED BY <1>3

\* The first j bits of a code are the low j bits of the code written backwards.
LEMMA RevSplit ==
  ASSUME NEW c \in Nat, NEW m \in Nat, NEW j \in Nat
  PROVE  RevCode(c, m + j) = RevCode(c, m) * Pow2[j] + RevCode(c \div Pow2[m], j)
<1> DEFINE p == c \div Pow2[m]
           S == {i \in Nat : RevCode(c, m + i) = RevCode(c, m) * Pow2[i] + RevCode(p, i)}
<1>0. p \in Nat BY ShiftType
<1>1. \A i \in Nat : Bit(p, i) = Bit(c, m + i) BY BitOfShift
<1> HIDE DEF p
<1>2. 0 \in S
  <2>1. RevCode(p, 0) = 0 BY <1>0, RevRule
  <2>2. RevCode(c, m) \in Nat BY RevRule
  <2>3. Pow2[0] = 1 /\ m + 0 = m BY Pow2Type
  <2> QED BY <2>1, <2>2, <2>3
<1>3. ASSUME NEW i \in 0..(j - 1), i \in S PROVE i + 1 \in S
  <2>1. i \in Nat /\ m + i \in Nat /\ m + (i + 1) = (m + i) + 1 OBVIOUS
  <2>2. RevCode(c, m + i) = RevCode(c, m) * Pow2[i] + RevCode(p, i) BY <1>3
  <2>3. RevCode(c, (m + i) + 1) = 2 * RevCode(c, m + i) + Bit(c, m + i) BY <2>1, RevRule
  <2>4. RevCode(p, i + 1) = 2 * RevCode(p, i) + Bit(p, i) BY <1>0, <2>1, RevRule
  <2>5. Pow2[i + 1] = 2 * Pow2[i] /\ Pow2[i] \in Nat BY <2>1, Pow2Type
  <2>6. RevCode(c, m) \in Nat /\ RevCode(p, i) \in Nat BY <1>0, <2>1, RevRule
  <2>7. 2 * (RevCode(c, m) * Pow2[i] + RevCode(p, i)) = RevCode(c, m) * (2 * Pow2[i]) + 2 * RevCode(p, i)
    BY <2>5, <2>6
  <2>8. Bit(p, i) = Bit(c, m + i) /\ Bit(p, i) \in {0, 1} BY <1>0, <1>1, <2>1, BitType
  <2>9. RevCode(c, m + (i + 1)) = RevCode(c, m) * (2 * Pow2[i]) + 2 * RevCode(p, i) + Bit(p, i)
    BY <2>1, <2>2, <2>3, <2>7, <2>8
  <2>10. RevCode(c, m) * (2 * Pow2[i]) \in Nat BY <2>5, <2>6
  <2> QED BY <2>1, <2>4, <2>5, <2>6, <2>8, <2>9, <2>10
<1>4. \A i \in 0..j : i \in S
  <2> HIDE DEF S
  <2> QED BY <1>2, <1>3, Reaches
<1> QED BY <1>4 DEF p

LEMMA RevPrefix ==
  ASSUME NEW c \in Nat, NEW s \in Nat, NEW j \in 0..s
  PROVE  /\ RevCode(c, s) % Pow2[j] = RevCode(c \div Pow2[s - j], j)
         /\ RevCode(c, s) \div Pow2[j] = RevCode(c, s - j)
<1>1. s - j \in Nat /\ j \in Nat /\ (s - j) + j = s OBVIOUS
<1>2. RevCode(c, s) = RevCode(c, s - j) * Pow2[j] + RevCode(c \div Pow2[s - j], j)
  <2> DEFINE m == s - j
  <2>1. m \in Nat /\ m + j = s BY <1>1
  <2> HIDE DEF m
  <2>2. RevCode(c, m + j) = RevCode(c, m) * Pow2[j] + RevCode(c \div Pow2[m], j) BY <1>1, <2>1, RevSplit
  <2>3. RevCode(c, s) = RevCode(c, m) * Pow2[j] + RevCode(c \div Pow2[m], j) BY <2>1, <2>2
  <2> QED BY <2>3 DEF m
<1>3. c \div Pow2[s - j] \in Nat BY <1>1, ShiftType
<1>4. RevCode(c \div Pow2[s - j], j) \in 0..(Pow2[j] - 1) BY <1>1, <1>3, RevBelow
<1>5. RevCode(c, s - j) \in Int BY <1>1, RevRule
<1>6. Pow2[j] \in Nat /\ Pow2[j] >= 1 BY <1>1, Pow2Type
<1> DEFINE a == Pow2[j]
           q == RevCode(c, s - j)
           z == RevCode(c \div Pow2[s - j], j)
           w == RevCode(c, s)
<1>7. w = q * a + z /\ z \in 0..(a - 1) /\ q \in Int /\ a \in Nat /\ a >= 1 BY <1>2, <1>4, <1>5, <1>6
<1>8. w % a = z /\ w \div a = q
  <2> HIDE DEF a, q, z, w
  <2>1. (q * a + z) \div a = q /\ (q * a + z) % a = z BY <1>7, DivUnique
  <2> QED BY <1>7, <2>1
<1> QED BY <1>8

LEMMA RevBit ==
  ASSUME NEW c \in Nat, NEW s \in Nat, NEW j \in 0..(s - 1)
  PROVE  Bit(RevCode(c, s), j) = Bit(c, s - j - 1)
<1>1. j \in 0..s /\ s - j - 1 \in Nat /\ (s - j - 1) + 1 = s - j OBVIOUS
<1>2. RevCode(c, s) \div Pow2[j] = RevCode(c, s - j) BY <1>1, RevPrefix
<1>3. RevCode(c, (s - j - 1) + 1) = 2 * RevCode(c, s - j - 1) + Bit(c, s - j - 1) BY <1>1, RevRule
<1>4. RevCode(c, s - j - 1) \in Nat /\ Bit(c, s - j - 1) \in {0, 1} BY <1>1, RevRule, BitType
<1>5. \A x \in Nat, b \in {0, 1} : (2 * x + b) % 2 = b OBVIOUS
<1> QED BY <1>1, <1>2, <1>3, <1>4, <1>5 DEF Bit

\* Codes of one length that are the same backwards are the same.
LEMMA RevInjective ==
  ASSUME NEW s \in Nat
  PROVE  \A p, q \in 0..(Pow2[s] - 1) : RevCode(p, s) = RevCode(q, s) => p = q
<1> DEFINE S == {i \in Nat : \A p, q \in 0..(Pow2[i] - 1) : RevCode(p, i) = RevCode(q, i) => p = q}
<1>1. 0 \in S
  <2>1. Pow2[0] = 1 BY Pow2Type
  <2> QED BY <2>1
<1>2. ASSUME NEW i \in 0..(s - 1), i \in S PROVE i + 1 \in S
  <2>1. i \in Nat /\ i + 1 = 1 + i OBVIOUS
  <2>2. SUFFICES ASSUME NEW p \in 0..(Pow2[i + 1] - 1), NEW q \in 0..(Pow2[i + 1] - 1),
                        RevCode(p, i + 1) = RevCode(q, i + 1)
                 PROVE  p = q
    BY <2>1
  <2>3. Pow2[1] = 2 /\ Pow2[i] \in Nat /\ Pow2[i] >= 1 /\ Pow2[i + 1] = 2 * Pow2[i]
    <3>1. Pow2[0 + 1] = 2 * Pow2[0] /\ Pow2[0] = 1 BY Pow2Type
    <3> QED BY <2>1, <3>1, Pow2Type
  <2>4. ASSUME NEW c \in 0..(Pow2[i + 1] - 1)
        PROVE  /\ c \div 2 \in 0..(Pow2[i] - 1) /\ c % 2 \in {0, 1} /\ c = 2 * (c \div 2) + (c % 2)
               /\ RevCode(c, i + 1) = (c % 2) * Pow2[i] + RevCode(c \div 2, i)
               /\ RevCode(c \div 2, i) \in 0..(Pow2[i] - 1)
    <3>1. c \in Nat /\ c < 2 * Pow2[i] BY <2>3
    <3>2. c \div 2 \in 0..(Pow2[i] - 1) /\ c % 2 \in {0, 1} /\ c = 2 * (c \div 2) + (c % 2) BY <2>3, <3>1
    <3>3. RevCode(c, 0 + 1) = 2 * RevCode(c, 0) + Bit(c, 0) /\ RevCode(c, 0) = 0 BY <3>1, RevRule
    <3>4. Bit(c, 0) = c % 2
      <4>1. Pow2[0] = 1 /\ c \div 1 = c BY <3>1, Pow2Type
      <4> QED BY <4>1 DEF Bit
    <3>5. RevCode(c, 1) = c % 2 BY <3>2, <3>3, <3>4
    <3>6. RevCode(c, 1 + i) = RevCode(c, 1) * Pow2[i] + RevCode(c \div Pow2[1], i) BY <2>1, <3>1, RevSplit
    <3>7. RevCode(c \div 2, i) \in 0..(Pow2[i] - 1)
      <4>1. c \div 2 \in Nat BY <3>2
      <4> QED BY <2>1, <4>1, RevBelow
    <3> QED BY <2>1, <2>3, <3>2, <3>5, <3>6, <3>7
  <2>5. \A a, b \in {0, 1} : \A x, y \in 0..(Pow2[i] - 1) :
           a * Pow2[i] + x = b * Pow2[i] + y => a = b /\ x = y
    BY <2>3
  <2>6. p % 2 = q % 2 /\ RevCode(p \div 2, i) = RevCode(q \div 2, i)
    <3> DEFINE a == p % 2  b == q % 2  x == RevCode(p \div 2, i)  y == RevCode(q \div 2, i)
    <3>1. a \in {0, 1} /\ b \in {0, 1} /\ x \in 0..(Pow2[i] - 1) /\ y \in 0..(Pow2[i] - 1) BY <2>4
    <3>2. a * Pow2[i] + x = b * Pow2[i] + y BY <2>2, <2>4
    <3> HIDE DEF a, b, x, y
    <3>3. a = b /\ x = y BY <2>5, <3>1, <3>2
    <3> QED BY <3>3 DEF a, b, x, y
  <2>7. p \div 2 = q \div 2 BY <1>2, <2>4, <2>6
  <2> QED BY <2>4, <2>6, <2>7
<1>3. \A i \in 0..s : i \in S
  <2> HIDE DEF S
  <2> QED BY <1>1, <1>2, Reaches
<1>4. s \in S
  <2> HIDE DEF S
  <2> QED BY <1>3
<1> QED BY <1>4

\* A recursion whose k-th value is in G[k] if the one before is in G[k - 1].
LEMMA RecursionStays ==
  ASSUME NEW a \in Int, NEW b \in Int, NEW f, NEW F, NEW G, f[a] \in G[a],
         \A k \in (a + 1)..b : \A x \in G[k - 1] : F[k][x] \in G[k],
         \A k \in (a + 1)..b : f[k - 1] \in G[k - 1] => f[k] = F[k][f[k - 1]]
  PROVE  \A k \in a..b : f[k] \in G[k]
<1> DEFINE S == {k \in Int : f[k] \in G[k]}
<1>1. a \in S OBVIOUS
<1>2. ASSUME NEW k \in a..(b - 1), k \in S PROVE k + 1 \in S
  <2>1. k + 1 \in (a + 1)..b /\ (k + 1) - 1 = k /\ k + 1 \in Int OBVIOUS
  <2>2. f[k + 1] = F[k + 1][f[k]] BY <1>2, <2>1
  <2>3. F[k + 1][f[k]] \in G[k + 1] BY <1>2, <2>1
  <2> QED BY <2>1, <2>2, <2>3
<1>3. \A k \in a..b : k \in S
  <2> HIDE DEF S
  <2> QED BY <1>1, <1>2, Reaches
<1> QED BY <1>3

LEMMA RecursionIn ==
  ASSUME NEW a \in Int, NEW b \in Int, a <= b, NEW x0, NEW F, NEW G, x0 \in G[a],
         \A k \in (a + 1)..b : \A x \in G[k - 1] : F[k][x] \in G[k]
  PROVE  \E f : Recurs(f, a, b, x0, F) /\ \A k \in a..b : f[k] \in G[k]
<1>2. PICK f : Recurs(f, a, b, x0, F) BY RecursionHolds
<1>3. f = [k \in a..b |-> IF k = a THEN x0 ELSE F[k][f[k - 1]]] BY <1>2 DEF Recurs
<1>4. f[a] \in G[a] BY <1>3
<1>5. \A k \in (a + 1)..b : f[k] = F[k][f[k - 1]]
  <2>1. \A k \in (a + 1)..b : k \in a..b /\ k # a OBVIOUS
  <2> QED BY <1>3, <2>1
<1>6. \A k \in a..b : f[k] \in G[k]
  <2>1. \A k \in (a + 1)..b : f[k - 1] \in G[k - 1] => f[k] = F[k][f[k - 1]] BY <1>5
  <2>2. \A k \in (a + 1)..b : \A x \in G[k - 1] : F[k][x] \in G[k] OBVIOUS
  <2> QED BY <1>4, <2>1, <2>2, RecursionStays, ZenonT(60)
<1> QED BY <1>2, <1>6

(***************************************************************************)
(* The tree below the first-level table                                    *)
(*                                                                         *)
(* E[l] is the first number after the codes of l bits, so that a prefix of *)
(* l bits from E[l] on belongs to longer codes.  The tree node created as  *)
(* the k-th (from 0) is the number -(2k + 1) and owns the slots 2k and     *)
(* 2k + 1.  D[k] is its depth and P[k] the prefix of the codes below it.   *)
(* H bounds the prefixes nodes are made for.                               *)
(***************************************************************************)
Node(k) == -(2 * k + 1)

\* Canonical codes: longer ones follow the shorter ones.
Codes(E) ==
  /\ E \in [1..MaxCode -> Nat]
  /\ \A l \in 1..MaxCode : E[l] <= Pow2[l]
  /\ \A l \in 1..(MaxCode - 1) : 2 * E[l] <= E[l + 1]

\* Nodes stand for different prefixes, none of which is a code.
Inner(E, H, m, D, P) ==
  /\ m \in Nat
  /\ D \in [0..(m - 1) -> FastBits..(MaxCode - 1)] /\ P \in [0..(m - 1) -> Nat]
  /\ \A k \in 0..(m - 1) : E[D[k]] <= P[k] /\ P[k] < H[D[k]]
  /\ \A j, k \in 0..(m - 1) : D[j] = D[k] /\ P[j] = P[k] => j = k

\* However they are chosen, there are slots for them.
Roomy(E, H, N) ==
  /\ N \in 1..512
  /\ H \in [1..MaxCode -> Nat]
  /\ \A l \in 1..MaxCode : H[l] <= Pow2[l]
  /\ \A m, D, P : Inner(E, H, m, D, P) => m <= N

FirstLevel == 0..(Pow2[FastBits] - 1)
Slots(N) == 0..(2 * N - 1)

FirstLevelOK(E, N, lu, m, D, P) ==
  /\ lu \in [FirstLevel -> Int]
  /\ \A i \in FirstLevel : lu[i] < 0 =>
       \E k \in 0..(m - 1) : lu[i] = Node(k) /\ D[k] = FastBits /\ RevCode(P[k], FastBits) = i
  /\ \A i \in FirstLevel : lu[i] > 0 =>
       \E l \in 1..FastBits, y \in 0..(N - 1) : \E c \in 0..(E[l] - 1) :
         i % Pow2[l] = RevCode(c, l) /\ lu[i] = l * 512 + y

SlotsOK(E, N, tr, m, D, P) ==
  /\ tr \in [Slots(N) -> Int]
  /\ \A i \in Slots(N) : tr[i] < N /\ (i >= 2 * m => tr[i] = 0)
  /\ \A k \in 0..(m - 1), b \in {0, 1} : tr[2 * k + b] < 0 =>
       \E j \in 0..(m - 1) : tr[2 * k + b] = Node(j) /\ D[j] = D[k] + 1 /\ P[j] = 2 * P[k] + b
  /\ \A k \in 0..(m - 1), b \in {0, 1} : tr[2 * k + b] > 0 => 2 * P[k] + b < E[D[k] + 1]

\* Every node hangs where its prefix says.
Linked(lu, tr, m, D, P) ==
  \A k \in 0..(m - 1) :
    \/ D[k] = FastBits /\ lu[RevCode(P[k], FastBits)] = Node(k)
    \/ \E j \in 0..(m - 1), b \in {0, 1} :
         D[k] = D[j] + 1 /\ P[k] = 2 * P[j] + b /\ tr[2 * j + b] = Node(k)

Trie(E, H, N, lu, tr, m, D, P) ==
  /\ Inner(E, H, m, D, P)
  /\ FirstLevelOK(E, N, lu, m, D, P)
  /\ SlotsOK(E, N, tr, m, D, P)
  /\ Linked(lu, tr, m, D, P)

LEMMA Format ==
  /\ ByteBits \in Nat /\ ByteBits >= 1 /\ MaxCode \in Nat /\ FastBits \in Nat /\ FastBits >= 1
  /\ ClBits \in Nat /\ ClBits >= 1 /\ FastBits < MaxCode /\ MaxCode <= 2 * ByteBits
  /\ Pow2[FastBits] \in Nat /\ Pow2[FastBits] >= 1
  /\ Pow2[ByteBits] \in Nat /\ Pow2[ByteBits] >= 1
<1>1. {ByteBits, MaxCode, FastBits, ClBits} \subseteq Nat \ {0} BY FormatAssumption
<1>2. FastBits < MaxCode /\ MaxCode <= 2 * ByteBits BY FormatAssumption
<1>3. ByteBits \in Nat \ {0} /\ MaxCode \in Nat \ {0} /\ FastBits \in Nat \ {0} /\ ClBits \in Nat \ {0} BY <1>1
<1>4. Pow2[FastBits] \in Nat /\ Pow2[FastBits] >= 1 BY <1>3, Pow2Type
<1>5. Pow2[ByteBits] \in Nat /\ Pow2[ByteBits] >= 1 BY <1>3, Pow2Type
<1> QED BY <1>2, <1>3, <1>4, <1>5

Longer(f, m, x) == [k \in 0..m |-> IF k = m THEN x ELSE f[k]]

\* Room for one node more.
LEMMA OneMore ==
  ASSUME NEW E, NEW H, NEW N, Codes(E), Roomy(E, H, N), NEW m, NEW D, NEW P, Inner(E, H, m, D, P),
         NEW d \in FastBits..(MaxCode - 1), NEW p \in Nat, E[d] <= p, p < H[d],
         \A k \in 0..(m - 1) : ~(D[k] = d /\ P[k] = p)
  PROVE  Inner(E, H, m + 1, Longer(D, m, d), Longer(P, m, p)) /\ m + 1 <= N
<1> DEFINE D2 == Longer(D, m, d)
           P2 == Longer(P, m, p)
<1>1. m \in Nat /\ (m + 1) - 1 = m BY DEF Inner
<1>2. \A k \in 0..m : k # m => k \in 0..(m - 1) BY <1>1
<1>3. \A k \in 0..(m - 1) : k \in 0..m /\ k # m BY <1>1
<1>4. \A k \in 0..(m - 1) : D[k] \in FastBits..(MaxCode - 1) /\ P[k] \in Nat BY DEF Inner
<1>5. \A k \in 0..m : D2[k] = (IF k = m THEN d ELSE D[k]) /\ P2[k] = (IF k = m THEN p ELSE P[k]) BY DEF Longer
<1>6. D2 \in [0..m -> FastBits..(MaxCode - 1)] /\ P2 \in [0..m -> Nat] BY <1>2, <1>4 DEF Longer
<1> HIDE DEF D2, P2
<1>7. \A k \in 0..m : E[D2[k]] <= P2[k] /\ P2[k] < H[D2[k]] BY <1>2, <1>5 DEF Inner
<1>8. \A j, k \in 0..m : D2[j] = D2[k] /\ P2[j] = P2[k] => j = k BY <1>2, <1>5 DEF Inner
<1>9. Inner(E, H, m + 1, D2, P2) BY <1>1, <1>6, <1>7, <1>8 DEF Inner
<1>10. m + 1 <= N BY <1>9 DEF Roomy
<1> QED BY <1>9, <1>10 DEF D2, P2

\* What every node's number says.
LEMMA NodeFacts ==
  /\ \A k \in Nat : Node(k) \in Int /\ Node(k) < 0
  /\ \A j, k \in Nat : Node(j) = Node(k) => j = k
BY DEF Node

\* A prefix of FastBits bits from E on is prefix of no short code.
LEMMA LongPrefix ==
  ASSUME NEW E, Codes(E), NEW l \in 1..MaxCode, NEW j \in l..MaxCode, NEW p \in Nat, E[j] <= p
  PROVE  E[l] <= p \div Pow2[j - l]
<1> DEFINE S == {i \in l..MaxCode : \A q \in Nat : E[i] <= q => E[l] <= q \div Pow2[i - l]}
<1>0. MaxCode \in Nat BY Format
<1>1. l \in S
  <2>1. l - l = 0 /\ Pow2[0] = 1 /\ l \in l..MaxCode BY <1>0, Pow2Type
  <2>2. \A q \in Nat : q \div 1 = q OBVIOUS
  <2> QED BY <2>1, <2>2
<1>2. ASSUME NEW i \in l..(MaxCode - 1), i \in S PROVE i + 1 \in S
  <2>1. i + 1 \in l..MaxCode /\ i \in 1..(MaxCode - 1) /\ i \in 1..MaxCode /\ i + 1 \in 1..MaxCode
        /\ i - l \in Nat /\ (i + 1) - l = 1 + (i - l)
    BY <1>0
  <2> SUFFICES ASSUME NEW q \in Nat, E[i + 1] <= q PROVE E[l] <= q \div Pow2[(i + 1) - l] BY <2>1
  <2>2. 2 * E[i] <= E[i + 1] /\ E[i] \in Nat /\ E[i + 1] \in Nat BY <2>1 DEF Codes
  <2>3. q \div 2 \in Nat /\ E[i] <= q \div 2 BY <2>2
  <2>4. E[l] <= (q \div 2) \div Pow2[i - l] BY <1>2, <2>3
  <2>5. Pow2[1] = 2
    <3>1. Pow2[0 + 1] = 2 * Pow2[0] /\ Pow2[0] = 1 BY Pow2Type
    <3> QED BY <3>1
  <2>6. (q \div Pow2[1]) \div Pow2[i - l] = q \div Pow2[1 + (i - l)]
    <3>1. 1 \in Nat OBVIOUS
    <3> QED BY <2>1, <3>1, ShiftShift
  <2> QED BY <2>1, <2>4, <2>5, <2>6
<1>3. \A i \in l..MaxCode : i \in S
  <2> HIDE DEF S
  <2> QED BY <1>0, <1>1, <1>2, Reaches
<1> QED BY <1>3

LEMMA NotShort ==
  ASSUME NEW E, Codes(E), NEW p \in 0..(Pow2[FastBits] - 1), E[FastBits] <= p,
         NEW l \in 1..FastBits, NEW c \in 0..(E[l] - 1)
  PROVE  RevCode(p, FastBits) % Pow2[l] # RevCode(c, l)
<1>1. FastBits \in Nat /\ MaxCode \in Nat /\ l \in 0..FastBits /\ l \in Nat /\ l \in 1..MaxCode
      /\ FastBits \in l..MaxCode /\ FastBits - l \in Nat /\ l + (FastBits - l) = FastBits
      /\ (FastBits - l) + l = FastBits /\ p \in Nat
  BY Format
<1>2. RevCode(p, FastBits) % Pow2[l] = RevCode(p \div Pow2[FastBits - l], l) BY <1>1, RevPrefix
<1>3. E[l] <= p \div Pow2[FastBits - l] BY <1>1, LongPrefix
<1>4. p \div Pow2[FastBits - l] \in 0..(Pow2[l] - 1)
  <2>1. p < Pow2[(FastBits - l) + l] BY <1>1, Format
  <2>2. p \div Pow2[FastBits - l] < Pow2[l] BY <1>1, <2>1, ShiftBelow
  <2>3. p \div Pow2[FastBits - l] \in Nat BY <1>1, ShiftType
  <2>4. Pow2[l] \in Nat BY <1>1, Pow2Type
  <2> QED BY <2>2, <2>3, <2>4
<1>5. E[l] \in Nat /\ E[l] <= Pow2[l] /\ Pow2[l] \in Nat BY <1>1, Pow2Type DEF Codes
<1>6. c \in 0..(Pow2[l] - 1) BY <1>5
<1>7. c # p \div Pow2[FastBits - l]
  <2> DEFINE q == p \div Pow2[FastBits - l]
  <2>1. E[l] <= q /\ q \in Nat /\ c < E[l] /\ c \in Nat BY <1>3, <1>4, <1>5
  <2> HIDE DEF q
  <2>2. c # q BY <1>5, <2>1
  <2> QED BY <2>2 DEF q
<1>8. RevCode(p \div Pow2[FastBits - l], l) # RevCode(c, l) BY <1>1, <1>4, <1>6, <1>7, RevInjective
<1> QED BY <1>2, <1>8

\* The first-level entry of a long code is free, or the node of its prefix.
LEMMA RootOf ==
  ASSUME NEW E, NEW H, NEW N, Codes(E), Roomy(E, H, N), NEW lu, NEW tr, NEW m, NEW D, NEW P,
         Trie(E, H, N, lu, tr, m, D, P), NEW p \in Nat, E[FastBits] <= p, p < H[FastBits]
  PROVE  LET i == RevCode(p, FastBits) IN
           /\ i \in FirstLevel /\ lu[i] <= 0 /\ lu[i] \in Int
           /\ lu[i] < 0 => \E k \in 0..(m - 1) : lu[i] = Node(k) /\ D[k] = FastBits /\ P[k] = p
           /\ lu[i] = 0 => \A k \in 0..(m - 1) : ~(D[k] = FastBits /\ P[k] = p)
<1> DEFINE i == RevCode(p, FastBits)
<1>1. FastBits \in Nat /\ FastBits \in 1..MaxCode /\ Pow2[FastBits] \in Nat BY Format
<1>2. H[FastBits] \in Nat /\ H[FastBits] <= Pow2[FastBits] BY <1>1 DEF Roomy
<1>3. p \in 0..(Pow2[FastBits] - 1) BY <1>1, <1>2
<1>4. i \in FirstLevel BY <1>1, RevBelow DEF FirstLevel
<1>5. lu[i] \in Int BY <1>4 DEF Trie, FirstLevelOK
<1>6. ~(lu[i] > 0)
  <2> SUFFICES ASSUME lu[i] > 0 PROVE FALSE OBVIOUS
  <2>1. PICK l \in 1..FastBits, y \in 0..(N - 1) : \E c \in 0..(E[l] - 1) :
          i % Pow2[l] = RevCode(c, l) /\ lu[i] = l * 512 + y
    <3> HIDE DEF i
    <3> QED BY <1>4 DEF Trie, FirstLevelOK
  <2>2. PICK c \in 0..(E[l] - 1) : i % Pow2[l] = RevCode(c, l) BY <2>1
  <2> QED BY <1>3, <2>2, NotShort
<1>7. m \in Nat /\ D \in [0..(m - 1) -> FastBits..(MaxCode - 1)] /\ P \in [0..(m - 1) -> Nat] BY DEF Trie, Inner
<1>8. \A k \in 0..(m - 1) : D[k] = FastBits => P[k] \in 0..(Pow2[FastBits] - 1)
  <2> SUFFICES ASSUME NEW k \in 0..(m - 1), D[k] = FastBits PROVE P[k] \in 0..(Pow2[FastBits] - 1) OBVIOUS
  <2>1. P[k] \in Nat /\ P[k] < H[FastBits] BY <1>7 DEF Trie, Inner
  <2> QED BY <1>1, <1>2, <2>1
<1>9. ASSUME lu[i] < 0 PROVE \E k \in 0..(m - 1) : lu[i] = Node(k) /\ D[k] = FastBits /\ P[k] = p
  <2>1. PICK k \in 0..(m - 1) : lu[i] = Node(k) /\ D[k] = FastBits /\ RevCode(P[k], FastBits) = i
    <3> HIDE DEF i
    <3> QED BY <1>4, <1>9 DEF Trie, FirstLevelOK
  <2>2. P[k] = p BY <1>1, <1>3, <1>8, <2>1, RevInjective
  <2> QED BY <2>1, <2>2
<1>10. ASSUME lu[i] = 0, NEW k \in 0..(m - 1), D[k] = FastBits, P[k] = p PROVE FALSE
  <2>1. Node(k) < 0 BY <1>7, NodeFacts
  <2>2. lu[i] # Node(k) BY <1>10, <2>1, <1>7, NodeFacts
  <2>3. PICK j \in 0..(m - 1), b \in {0, 1} : D[k] = D[j] + 1
    <3> HIDE DEF i
    <3>1. \/ D[k] = FastBits /\ lu[RevCode(P[k], FastBits)] = Node(k)
          \/ \E j \in 0..(m - 1), b \in {0, 1} : D[k] = D[j] + 1 /\ P[k] = 2 * P[j] + b /\ tr[2 * j + b] = Node(k)
      BY DEF Trie, Linked
    <3>2. RevCode(P[k], FastBits) = i BY <1>10 DEF i
    <3> QED BY <2>2, <3>1, <3>2
  <2>4. D[j] \in FastBits..(MaxCode - 1) BY <1>7
  <2> QED BY <1>1, <1>10, <2>3, <2>4
<1> HIDE DEF i
<1>11. lu[i] <= 0 BY <1>5, <1>6
<1> QED BY <1>4, <1>5, <1>9, <1>10, <1>11 DEF i

LEMMA LongerFacts ==
  ASSUME NEW f, NEW m \in Nat, NEW x
  PROVE  Longer(f, m, x)[m] = x /\ \A k \in 0..(m - 1) : Longer(f, m, x)[k] = f[k]
BY DEF Longer

\* A long code whose first-level entry is free gets a node there.
LEMMA FreshRoot ==
  ASSUME NEW E, NEW H, NEW N, Codes(E), Roomy(E, H, N), NEW lu, NEW tr, NEW m, NEW D, NEW P,
         Trie(E, H, N, lu, tr, m, D, P), NEW p \in Nat, E[FastBits] <= p, p < H[FastBits],
         lu[RevCode(p, FastBits)] = 0
  PROVE  /\ Trie(E, H, N, [lu EXCEPT ![RevCode(p, FastBits)] = Node(m)], tr, m + 1,
                 Longer(D, m, FastBits), Longer(P, m, p))
         /\ m + 1 <= N
<1> DEFINE i == RevCode(p, FastBits)
           lu2 == [lu EXCEPT ![i] = Node(m)]
           D2 == Longer(D, m, FastBits)
           P2 == Longer(P, m, p)
<1>0. FastBits \in FastBits..(MaxCode - 1) /\ FastBits \in Nat BY Format
<1>1. i \in FirstLevel /\ \A k \in 0..(m - 1) : ~(D[k] = FastBits /\ P[k] = p) BY RootOf
<1>2. Inner(E, H, m, D, P) BY DEF Trie
<1>3. Inner(E, H, m + 1, D2, P2) /\ m + 1 <= N BY <1>0, <1>1, <1>2, OneMore
<1>4. m \in Nat /\ (m + 1) - 1 = m /\ N \in Nat BY <1>2 DEF Inner, Roomy
<1>5. \A k \in 0..(m - 1) : D2[k] = D[k] /\ P2[k] = P[k] BY <1>4, LongerFacts
<1>6. D2[m] = FastBits /\ P2[m] = p
  <2>1. m \in 0..m BY <1>4
  <2> QED BY <2>1 DEF Longer
<1>7. \A k \in 0..m : k = m \/ k \in 0..(m - 1) BY <1>4
<1>8. \A k \in 0..(m - 1) : k \in 0..m BY <1>4
<1>9. m \in 0..m BY <1>4
<1>10. lu \in [FirstLevel -> Int] /\ Node(m) \in Int /\ Node(m) < 0 BY <1>4, NodeFacts DEF Trie, FirstLevelOK
<1>11. lu2 \in [FirstLevel -> Int] /\ lu2[i] = Node(m) /\ \A a \in FirstLevel : a # i => lu2[a] = lu[a]
  BY <1>1, <1>10
<1> HIDE DEF lu2, D2, P2
<1>12. FirstLevelOK(E, N, lu2, m + 1, D2, P2)
  <2>1. ASSUME NEW a \in FirstLevel, lu2[a] < 0
        PROVE  \E k \in 0..m : lu2[a] = Node(k) /\ D2[k] = FastBits /\ RevCode(P2[k], FastBits) = a
    <3>1. CASE a = i BY <3>1, <1>6, <1>9, <1>11
    <3>2. CASE a # i
      <4>1. PICK k \in 0..(m - 1) : lu[a] = Node(k) /\ D[k] = FastBits /\ RevCode(P[k], FastBits) = a
        BY <1>11, <2>1, <3>2 DEF Trie, FirstLevelOK
      <4> QED BY <4>1, <1>5, <1>8, <1>11, <3>2
    <3> QED BY <3>1, <3>2
  <2>2. ASSUME NEW a \in FirstLevel, lu2[a] > 0
        PROVE  \E l \in 1..FastBits, y \in 0..(N - 1) : \E c \in 0..(E[l] - 1) :
                 a % Pow2[l] = RevCode(c, l) /\ lu2[a] = l * 512 + y
    <3>1. a # i BY <1>10, <1>11, <2>2
    <3>2. lu2[a] = lu[a] BY <1>11, <3>1
    <3> QED BY <2>2, <3>2 DEF Trie, FirstLevelOK
  <2>3. 0..((m + 1) - 1) = 0..m BY <1>4
  <2>4. \A a \in FirstLevel : lu2[a] < 0 =>
          \E k \in 0..((m + 1) - 1) : lu2[a] = Node(k) /\ D2[k] = FastBits /\ RevCode(P2[k], FastBits) = a
    BY <2>1, <2>3
  <2>5. \A a \in FirstLevel : lu2[a] > 0 =>
          \E l \in 1..FastBits, y \in 0..(N - 1) : \E c \in 0..(E[l] - 1) :
            a % Pow2[l] = RevCode(c, l) /\ lu2[a] = l * 512 + y
    BY <2>2
  <2> QED BY <1>11, <2>4, <2>5 DEF FirstLevelOK
<1>13. SlotsOK(E, N, tr, m + 1, D2, P2)
  <2>1. tr \in [Slots(N) -> Int] BY DEF Trie, SlotsOK
  <2>2. \A a \in Slots(N) : tr[a] < N /\ (a >= 2 * (m + 1) => tr[a] = 0)
    <3> SUFFICES ASSUME NEW a \in Slots(N) PROVE tr[a] < N /\ (a >= 2 * (m + 1) => tr[a] = 0) OBVIOUS
    <3>1. tr[a] < N /\ (a >= 2 * m => tr[a] = 0) BY DEF Trie, SlotsOK
    <3>2. a \in Nat BY <1>4 DEF Slots
    <3> QED BY <1>4, <3>1, <3>2
  <2>3. \A b \in {0, 1} : tr[2 * m + b] = 0
    <3> SUFFICES ASSUME NEW b \in {0, 1} PROVE tr[2 * m + b] = 0 OBVIOUS
    <3>1. 2 * m + b \in Slots(N) /\ 2 * m + b >= 2 * m BY <1>3, <1>4 DEF Slots
    <3> QED BY <3>1 DEF Trie, SlotsOK
  <2>4. ASSUME NEW k \in 0..m, NEW b \in {0, 1}, tr[2 * k + b] < 0
        PROVE  \E j \in 0..m : tr[2 * k + b] = Node(j) /\ D2[j] = D2[k] + 1 /\ P2[j] = 2 * P2[k] + b
    <3>1. k \in 0..(m - 1) BY <1>7, <2>3, <2>4
    <3>2. PICK j \in 0..(m - 1) : tr[2 * k + b] = Node(j) /\ D[j] = D[k] + 1 /\ P[j] = 2 * P[k] + b
      BY <2>4, <3>1 DEF Trie, SlotsOK
    <3> QED BY <1>5, <1>8, <3>1, <3>2
  <2>5. ASSUME NEW k \in 0..m, NEW b \in {0, 1}, tr[2 * k + b] > 0
        PROVE  2 * P2[k] + b < E[D2[k] + 1]
    <3>1. k \in 0..(m - 1) BY <1>7, <2>3, <2>5
    <3>2. 2 * P[k] + b < E[D[k] + 1] BY <2>5, <3>1 DEF Trie, SlotsOK
    <3> QED BY <1>5, <3>1, <3>2
  <2> QED BY <1>4, <2>1, <2>2, <2>4, <2>5 DEF SlotsOK
<1>14. Linked(lu2, tr, m + 1, D2, P2)
  <2>1. ASSUME NEW k \in 0..m
        PROVE  \/ D2[k] = FastBits /\ lu2[RevCode(P2[k], FastBits)] = Node(k)
               \/ \E j \in 0..m, b \in {0, 1} :
                    D2[k] = D2[j] + 1 /\ P2[k] = 2 * P2[j] + b /\ tr[2 * j + b] = Node(k)
    <3>1. CASE k = m BY <1>6, <1>11, <3>1
    <3>2. CASE k \in 0..(m - 1)
      <4>1. \/ D[k] = FastBits /\ lu[RevCode(P[k], FastBits)] = Node(k)
            \/ \E j \in 0..(m - 1), b \in {0, 1} :
                 D[k] = D[j] + 1 /\ P[k] = 2 * P[j] + b /\ tr[2 * j + b] = Node(k)
        BY <3>2 DEF Trie, Linked
      <4>2. CASE D[k] = FastBits /\ lu[RevCode(P[k], FastBits)] = Node(k)
        <5>1. RevCode(P[k], FastBits) # i
          <6>1. Node(k) < 0 /\ Node(k) \in Int BY <3>2, NodeFacts
          <6>2. lu[i] = 0 OBVIOUS
          <6> HIDE DEF i
          <6> QED BY <4>2, <6>1, <6>2
        <5>2. RevCode(P[k], FastBits) \in FirstLevel
          <6>1. P[k] \in Nat BY <1>2, <3>2 DEF Inner
          <6> QED BY <1>0, <6>1, RevBelow DEF FirstLevel
        <5> QED BY <1>5, <1>11, <3>2, <4>2, <5>1, <5>2
      <4>3. CASE \E j \in 0..(m - 1), b \in {0, 1} :
                 D[k] = D[j] + 1 /\ P[k] = 2 * P[j] + b /\ tr[2 * j + b] = Node(k)
        BY <1>5, <1>8, <3>2, <4>3
      <4> QED BY <4>1, <4>2, <4>3
    <3> QED BY <1>7, <3>1, <3>2
  <2> QED BY <1>4, <2>1 DEF Linked
<1>15. Trie(E, H, N, lu2, tr, m + 1, D2, P2) BY <1>3, <1>12, <1>13, <1>14 DEF Trie
<1> QED BY <1>3, <1>15 DEF lu2, D2, P2

\* The slot for the next bit of a longer code is free, or its child.
LEMMA ChildOf ==
  ASSUME NEW E, NEW H, NEW N, Codes(E), Roomy(E, H, N), NEW lu, NEW tr, NEW m, NEW D, NEW P,
         Trie(E, H, N, lu, tr, m, D, P), NEW k \in 0..(m - 1), NEW b \in {0, 1},
         D[k] + 1 <= MaxCode - 1, E[D[k] + 1] <= 2 * P[k] + b
  PROVE  /\ 2 * k + b \in Slots(N) /\ tr[2 * k + b] \in Int /\ tr[2 * k + b] <= 0
         /\ tr[2 * k + b] < 0 =>
              \E j \in 0..(m - 1) : tr[2 * k + b] = Node(j) /\ D[j] = D[k] + 1 /\ P[j] = 2 * P[k] + b
         /\ tr[2 * k + b] = 0 => \A j \in 0..(m - 1) : ~(D[j] = D[k] + 1 /\ P[j] = 2 * P[k] + b)
<1>1. m \in Nat /\ D \in [0..(m - 1) -> FastBits..(MaxCode - 1)] /\ P \in [0..(m - 1) -> Nat]
      /\ \A i, j \in 0..(m - 1) : D[i] = D[j] /\ P[i] = P[j] => i = j
  BY DEF Trie, Inner
<1>2. m <= N /\ N \in Nat BY DEF Trie, Roomy
<1>3. 2 * k + b \in Slots(N) BY <1>1, <1>2 DEF Slots
<1>4. tr[2 * k + b] \in Int BY <1>3 DEF Trie, SlotsOK
<1>5. D[k] \in Nat /\ D[k] + 1 \in 1..MaxCode
  <2>1. D[k] \in FastBits..(MaxCode - 1) BY <1>1
  <2>2. FastBits \in Nat /\ MaxCode \in Nat BY Format
  <2> QED BY <2>1, <2>2
<1>6. E[D[k] + 1] \in Nat /\ P[k] \in Nat BY <1>1, <1>5 DEF Codes
<1>7. ~(tr[2 * k + b] > 0)
  <2> SUFFICES ASSUME tr[2 * k + b] > 0 PROVE FALSE OBVIOUS
  <2>1. 2 * P[k] + b < E[D[k] + 1] BY DEF Trie, SlotsOK
  <2> QED BY <1>6, <2>1
<1>8. tr[2 * k + b] < 0 =>
        \E j \in 0..(m - 1) : tr[2 * k + b] = Node(j) /\ D[j] = D[k] + 1 /\ P[j] = 2 * P[k] + b
  BY DEF Trie, SlotsOK
<1>9. ASSUME tr[2 * k + b] = 0, NEW j \in 0..(m - 1), D[j] = D[k] + 1, P[j] = 2 * P[k] + b PROVE FALSE
  <2>1. D[k] \in FastBits..(MaxCode - 1) /\ FastBits \in Nat /\ MaxCode \in Nat BY <1>1, Format
  <2>2. D[j] # FastBits BY <1>9, <2>1
  <2>3. PICK i \in 0..(m - 1), a \in {0, 1} :
          D[j] = D[i] + 1 /\ P[j] = 2 * P[i] + a /\ tr[2 * i + a] = Node(j)
    BY <2>2 DEF Trie, Linked
  <2>4. D[i] \in Int /\ P[i] \in Nat BY <1>1, <2>1
  <2>5. D[i] = D[k]
    <3>1. D[i] + 1 = D[k] + 1 BY <1>9, <2>3
    <3> QED BY <1>5, <2>4, <3>1
  <2>6. P[i] = P[k] /\ a = b BY <1>6, <1>9, <2>3, <2>4
  <2>7. i = k BY <1>1, <2>5, <2>6
  <2>8. Node(j) < 0 /\ Node(j) \in Int BY NodeFacts
  <2> QED BY <1>9, <2>3, <2>6, <2>7, <2>8
<1> QED BY <1>3, <1>4, <1>7, <1>8, <1>9

LEMMA SlotNumbers ==
  \A i, j \in Nat, a, b \in {0, 1} : 2 * i + a = 2 * j + b => i = j /\ a = b
OBVIOUS

\* A longer code whose next slot is free gets a node there.
LEMMA FreshChild ==
  ASSUME NEW E, NEW H, NEW N, Codes(E), Roomy(E, H, N), NEW lu, NEW tr, NEW m, NEW D, NEW P,
         Trie(E, H, N, lu, tr, m, D, P), NEW k \in 0..(m - 1), NEW b \in {0, 1},
         D[k] + 1 <= MaxCode - 1, E[D[k] + 1] <= 2 * P[k] + b, 2 * P[k] + b < H[D[k] + 1],
         tr[2 * k + b] = 0
  PROVE  /\ Trie(E, H, N, lu, [tr EXCEPT ![2 * k + b] = Node(m)], m + 1,
                 Longer(D, m, D[k] + 1), Longer(P, m, 2 * P[k] + b))
         /\ m + 1 <= N
<1> DEFINE s == 2 * k + b
           d == D[k] + 1
           p == 2 * P[k] + b
           tr2 == [tr EXCEPT ![s] = Node(m)]
           D2 == Longer(D, m, d)
           P2 == Longer(P, m, p)
<1>1. Inner(E, H, m, D, P) BY DEF Trie
<1>2. m \in Nat /\ (m + 1) - 1 = m /\ N \in Nat /\ k \in Nat BY <1>1 DEF Inner, Roomy
<1>3. D[k] \in FastBits..(MaxCode - 1) /\ P[k] \in Nat /\ d \in FastBits..(MaxCode - 1) /\ p \in Nat
  <2>1. D[k] \in FastBits..(MaxCode - 1) /\ P[k] \in Nat BY <1>1 DEF Inner
  <2> QED BY <2>1, Format
<1>4. s \in Slots(N) /\ \A j \in 0..(m - 1) : ~(D[j] = d /\ P[j] = p) BY ChildOf
<1>5. Inner(E, H, m + 1, D2, P2) /\ m + 1 <= N
  <2>1. E[d] <= p /\ p < H[d] OBVIOUS
  <2> HIDE DEF d, p
  <2> QED BY <1>1, <1>3, <1>4, <2>1, OneMore
<1>6. \A j \in 0..(m - 1) : D2[j] = D[j] /\ P2[j] = P[j] BY <1>2, LongerFacts
<1>7. D2[m] = d /\ P2[m] = p
  <2>1. m \in 0..m BY <1>2
  <2> QED BY <2>1 DEF Longer
<1>8. \A j \in 0..m : j = m \/ j \in 0..(m - 1) BY <1>2
<1>9. \A j \in 0..(m - 1) : j \in 0..m /\ j \in Nat BY <1>2
<1>10. m \in 0..m /\ 0..((m + 1) - 1) = 0..m BY <1>2
<1>11. tr \in [Slots(N) -> Int] /\ Node(m) \in Int /\ Node(m) < 0 BY <1>2, NodeFacts DEF Trie, SlotsOK
<1>12. tr2 \in [Slots(N) -> Int] /\ tr2[s] = Node(m) /\ \A a \in Slots(N) : a # s => tr2[a] = tr[a]
  BY <1>4, <1>11
<1>13. s < 2 * m /\ s \in Nat BY <1>2
<1>14. tr[s] = 0 OBVIOUS
<1>15. \A j \in 0..m, a \in {0, 1} : 2 * j + a \in Slots(N) BY <1>2, <1>5 DEF Slots
<1>16. \A j \in 0..m, a \in {0, 1} : 2 * j + a = s => j = k /\ a = b BY <1>2, SlotNumbers
<1>17. s = 2 * k + b OBVIOUS
<1> HIDE DEF s, tr2, D2, P2
<1>18. FirstLevelOK(E, N, lu, m + 1, D2, P2)
  <2>1. \A a \in FirstLevel : lu[a] < 0 =>
          \E j \in 0..((m + 1) - 1) : lu[a] = Node(j) /\ D2[j] = FastBits /\ RevCode(P2[j], FastBits) = a
    <3> SUFFICES ASSUME NEW a \in FirstLevel, lu[a] < 0
                 PROVE  \E j \in 0..m : lu[a] = Node(j) /\ D2[j] = FastBits /\ RevCode(P2[j], FastBits) = a
      BY <1>10
    <3>1. PICK j \in 0..(m - 1) : lu[a] = Node(j) /\ D[j] = FastBits /\ RevCode(P[j], FastBits) = a
      BY DEF Trie, FirstLevelOK
    <3> QED BY <1>6, <1>9, <3>1
  <2> QED BY <2>1 DEF Trie, FirstLevelOK
<1>19. SlotsOK(E, N, tr2, m + 1, D2, P2)
  <2>2. \A a \in Slots(N) : tr2[a] < N /\ (a >= 2 * (m + 1) => tr2[a] = 0)
    <3> SUFFICES ASSUME NEW a \in Slots(N) PROVE tr2[a] < N /\ (a >= 2 * (m + 1) => tr2[a] = 0) OBVIOUS
    <3>1. tr[a] < N /\ (a >= 2 * m => tr[a] = 0) BY DEF Trie, SlotsOK
    <3>2. a \in Nat BY <1>2 DEF Slots
    <3>3. CASE a = s BY <1>2, <1>11, <1>12, <1>13, <3>3
    <3>4. CASE a # s BY <1>2, <1>12, <3>1, <3>2, <3>4
    <3> QED BY <3>3, <3>4
  <2>3. \A a \in {0, 1} : tr2[2 * m + a] = 0
    <3> SUFFICES ASSUME NEW a \in {0, 1} PROVE tr2[2 * m + a] = 0 OBVIOUS
    <3>1. 2 * m + a \in Slots(N) /\ 2 * m + a >= 2 * m BY <1>2, <1>5 DEF Slots
    <3>2. tr[2 * m + a] = 0 BY <3>1 DEF Trie, SlotsOK
    <3>3. 2 * m + a # s BY <1>2, <1>13
    <3> QED BY <1>12, <3>1, <3>2, <3>3
  <2>4. ASSUME NEW i \in 0..m, NEW a \in {0, 1}, tr2[2 * i + a] < 0
        PROVE  \E j \in 0..m : tr2[2 * i + a] = Node(j) /\ D2[j] = D2[i] + 1 /\ P2[j] = 2 * P2[i] + a
    <3>1. i \in 0..(m - 1) BY <1>8, <2>3, <2>4
    <3>2. CASE 2 * i + a = s
      <4>1. i = k /\ a = b BY <1>9, <1>16, <3>1, <3>2
      <4>2. tr2[2 * i + a] = Node(m) BY <1>12, <3>2
      <4>3. D2[m] = D2[i] + 1 /\ P2[m] = 2 * P2[i] + a BY <1>6, <1>7, <4>1
      <4> QED BY <1>10, <4>2, <4>3
    <3>3. CASE 2 * i + a # s
      <4>1. tr2[2 * i + a] = tr[2 * i + a] BY <1>12, <1>15, <3>3
      <4>2. PICK j \in 0..(m - 1) : tr[2 * i + a] = Node(j) /\ D[j] = D[i] + 1 /\ P[j] = 2 * P[i] + a
        BY <2>4, <3>1, <4>1 DEF Trie, SlotsOK
      <4> QED BY <1>6, <1>9, <3>1, <4>1, <4>2
    <3> QED BY <3>2, <3>3
  <2>5. ASSUME NEW i \in 0..m, NEW a \in {0, 1}, tr2[2 * i + a] > 0
        PROVE  2 * P2[i] + a < E[D2[i] + 1]
    <3>1. i \in 0..(m - 1) BY <1>8, <2>3, <2>5
    <3>2. 2 * i + a # s BY <1>11, <1>12, <2>5
    <3>3. tr2[2 * i + a] = tr[2 * i + a] BY <1>12, <1>15, <3>2
    <3>4. 2 * P[i] + a < E[D[i] + 1] BY <2>5, <3>1, <3>3 DEF Trie, SlotsOK
    <3> QED BY <1>6, <3>1, <3>4
  <2> QED BY <1>10, <1>12, <2>2, <2>4, <2>5 DEF SlotsOK
<1>20. Linked(lu, tr2, m + 1, D2, P2)
  <2>1. ASSUME NEW i \in 0..m
        PROVE  \/ D2[i] = FastBits /\ lu[RevCode(P2[i], FastBits)] = Node(i)
               \/ \E j \in 0..m, a \in {0, 1} :
                    D2[i] = D2[j] + 1 /\ P2[i] = 2 * P2[j] + a /\ tr2[2 * j + a] = Node(i)
    <3>1. CASE i = m
      <4>1. D2[i] = D2[k] + 1 /\ P2[i] = 2 * P2[k] + b BY <1>6, <1>7, <3>1
      <4>2. tr2[2 * k + b] = Node(i) BY <1>12, <1>17, <3>1
      <4> QED BY <1>9, <4>1, <4>2
    <3>2. CASE i \in 0..(m - 1)
      <4>1. \/ D[i] = FastBits /\ lu[RevCode(P[i], FastBits)] = Node(i)
            \/ \E j \in 0..(m - 1), a \in {0, 1} :
                 D[i] = D[j] + 1 /\ P[i] = 2 * P[j] + a /\ tr[2 * j + a] = Node(i)
        BY <3>2 DEF Trie, Linked
      <4>2. CASE D[i] = FastBits /\ lu[RevCode(P[i], FastBits)] = Node(i) BY <1>6, <3>2, <4>2
      <4>3. ASSUME NEW j \in 0..(m - 1), NEW a \in {0, 1},
                   D[i] = D[j] + 1, P[i] = 2 * P[j] + a, tr[2 * j + a] = Node(i)
            PROVE  D2[i] = D2[j] + 1 /\ P2[i] = 2 * P2[j] + a /\ tr2[2 * j + a] = Node(i) /\ j \in 0..m
        <5>1. Node(i) < 0 /\ Node(i) \in Int BY <3>2, NodeFacts
        <5>2. 2 * j + a # s BY <1>14, <4>3, <5>1
        <5> QED BY <1>6, <1>9, <1>12, <1>15, <3>2, <4>3, <5>2
      <4> QED BY <4>1, <4>2, <4>3
    <3> QED BY <1>8, <3>1, <3>2
  <2> QED BY <1>10, <2>1 DEF Linked
<1>21. Trie(E, H, N, lu, tr2, m + 1, D2, P2) BY <1>5, <1>18, <1>19, <1>20 DEF Trie
<1> QED BY <1>5, <1>21 DEF s, tr2, D2, P2

\* At the last bit of a code its symbol enters the slot, over no node.
LEMMA PutLeaf ==
  ASSUME NEW E, NEW H, NEW N, Codes(E), Roomy(E, H, N), NEW lu, NEW tr, NEW m, NEW D, NEW P,
         Trie(E, H, N, lu, tr, m, D, P), NEW k \in 0..(m - 1), NEW b \in {0, 1},
         2 * P[k] + b < E[D[k] + 1], NEW y \in 0..(N - 1)
  PROVE  /\ Trie(E, H, N, lu, [tr EXCEPT ![2 * k + b] = y], m, D, P)
         /\ 2 * k + b \in Slots(N)
<1> DEFINE s == 2 * k + b
           tr2 == [tr EXCEPT ![s] = y]
<1>1. m \in Nat /\ D \in [0..(m - 1) -> FastBits..(MaxCode - 1)] /\ P \in [0..(m - 1) -> Nat]
      /\ \A j \in 0..(m - 1) : E[D[j]] <= P[j]
  BY DEF Trie, Inner
<1>2. m <= N /\ N \in Nat BY DEF Trie, Roomy
<1>3. s \in Slots(N) /\ s < 2 * m /\ \A j \in 0..(m - 1), a \in {0, 1} : 2 * j + a \in Slots(N)
  BY <1>1, <1>2 DEF Slots
<1>4. tr \in [Slots(N) -> Int] BY DEF Trie, SlotsOK
<1>5. tr2 \in [Slots(N) -> Int] /\ tr2[s] = y /\ \A a \in Slots(N) : a # s => tr2[a] = tr[a]
  BY <1>2, <1>3, <1>4
<1>6. \A j \in 0..(m - 1), a \in {0, 1} : 2 * j + a = s => j = k /\ a = b
  <2>1. \A j \in 0..(m - 1) : j \in Nat BY <1>1
  <2>2. k \in Nat BY <2>1
  <2> QED BY <2>1, <2>2, SlotNumbers
<1> HIDE DEF s, tr2
<1>7. SlotsOK(E, N, tr2, m, D, P)
  <2>1. \A a \in Slots(N) : tr2[a] < N /\ (a >= 2 * m => tr2[a] = 0)
    <3> SUFFICES ASSUME NEW a \in Slots(N) PROVE tr2[a] < N /\ (a >= 2 * m => tr2[a] = 0) OBVIOUS
    <3>1. tr[a] < N /\ (a >= 2 * m => tr[a] = 0) BY DEF Trie, SlotsOK
    <3>2. CASE a = s BY <1>1, <1>2, <1>3, <1>5, <3>2 DEF Slots
    <3>3. CASE a # s BY <1>5, <3>1, <3>3
    <3> QED BY <3>2, <3>3
  <2>2. \A i \in 0..(m - 1), a \in {0, 1} : tr2[2 * i + a] < 0 =>
          \E j \in 0..(m - 1) : tr2[2 * i + a] = Node(j) /\ D[j] = D[i] + 1 /\ P[j] = 2 * P[i] + a
    <3> SUFFICES ASSUME NEW i \in 0..(m - 1), NEW a \in {0, 1}, tr2[2 * i + a] < 0
                 PROVE  \E j \in 0..(m - 1) : tr2[2 * i + a] = Node(j) /\ D[j] = D[i] + 1 /\ P[j] = 2 * P[i] + a
      OBVIOUS
    <3>1. 2 * i + a # s BY <1>2, <1>5
    <3>2. tr2[2 * i + a] = tr[2 * i + a] BY <1>3, <1>5, <3>1
    <3> QED BY <3>2 DEF Trie, SlotsOK
  <2>3. \A i \in 0..(m - 1), a \in {0, 1} : tr2[2 * i + a] > 0 => 2 * P[i] + a < E[D[i] + 1]
    <3> SUFFICES ASSUME NEW i \in 0..(m - 1), NEW a \in {0, 1}, tr2[2 * i + a] > 0
                 PROVE  2 * P[i] + a < E[D[i] + 1]
      OBVIOUS
    <3>1. CASE 2 * i + a = s BY <1>6, <3>1
    <3>2. CASE 2 * i + a # s
      <4>1. tr2[2 * i + a] = tr[2 * i + a] BY <1>3, <1>5, <3>2
      <4> QED BY <4>1 DEF Trie, SlotsOK
    <3> QED BY <3>1, <3>2
  <2> QED BY <1>5, <2>1, <2>2, <2>3 DEF SlotsOK
<1>8. Linked(lu, tr2, m, D, P)
  <2> SUFFICES ASSUME NEW i \in 0..(m - 1)
               PROVE  \/ D[i] = FastBits /\ lu[RevCode(P[i], FastBits)] = Node(i)
                      \/ \E j \in 0..(m - 1), a \in {0, 1} :
                           D[i] = D[j] + 1 /\ P[i] = 2 * P[j] + a /\ tr2[2 * j + a] = Node(i)
    BY DEF Linked
  <2>1. \/ D[i] = FastBits /\ lu[RevCode(P[i], FastBits)] = Node(i)
        \/ \E j \in 0..(m - 1), a \in {0, 1} :
             D[i] = D[j] + 1 /\ P[i] = 2 * P[j] + a /\ tr[2 * j + a] = Node(i)
    BY DEF Trie, Linked
  <2>2. ASSUME NEW j \in 0..(m - 1), NEW a \in {0, 1},
               D[i] = D[j] + 1, P[i] = 2 * P[j] + a, tr[2 * j + a] = Node(i)
        PROVE  tr2[2 * j + a] = Node(i)
    <3>1. 2 * j + a # s
      <4> SUFFICES ASSUME 2 * j + a = s PROVE FALSE OBVIOUS
      <4>1. j = k /\ a = b BY <1>6
      <4>2. E[D[i]] <= P[i] /\ P[i] \in Nat BY <1>1
      <4>3. D[i] \in FastBits..(MaxCode - 1) BY <1>1
      <4>4. D[i] \in 1..MaxCode BY <4>3, Format
      <4>5. E[D[i]] \in Nat BY <4>4 DEF Codes
      <4>6. P[i] < E[D[i]] BY <2>2, <4>1
      <4> QED BY <4>2, <4>5, <4>6
    <3> QED BY <1>3, <1>5, <2>2, <3>1
  <2> QED BY <2>1, <2>2
<1>9. Trie(E, H, N, lu, tr2, m, D, P) BY <1>7, <1>8 DEF Trie
<1> QED BY <1>3, <1>9 DEF s, tr2

\* A code of at most FastBits bits fills first-level entries, over no node.
LEMMA FillShort ==
  ASSUME NEW E, NEW H, NEW N, Codes(E), Roomy(E, H, N), NEW lu, NEW tr, NEW m, NEW D, NEW P,
         Trie(E, H, N, lu, tr, m, D, P), NEW l \in 1..FastBits, NEW c \in 0..(E[l] - 1),
         NEW y \in 0..(N - 1)
  PROVE  Trie(E, H, N, FillLookUp(lu, RevCode(c, l), l, y), tr, m, D, P)
<1> DEFINE lu2 == FillLookUp(lu, RevCode(c, l), l, y)
<1>1. m \in Nat /\ D \in [0..(m - 1) -> FastBits..(MaxCode - 1)] /\ P \in [0..(m - 1) -> Nat]
  BY DEF Trie, Inner
<1>2. N \in Nat /\ FastBits \in Nat /\ FastBits \in 1..MaxCode /\ Pow2[FastBits] \in Nat BY Format DEF Roomy
<1>3. lu \in [FirstLevel -> Int] BY DEF Trie, FirstLevelOK
<1>4. \A i \in FirstLevel : lu2[i] = IF i % Pow2[l] = RevCode(c, l) THEN l * 512 + y ELSE lu[i]
  BY <1>3 DEF FillLookUp
<1>5. l * 512 + y \in Nat /\ l * 512 + y > 0 BY <1>2
<1>6. lu2 \in [FirstLevel -> Int] BY <1>3, <1>5 DEF FillLookUp
<1> HIDE DEF lu2
<1>7. FirstLevelOK(E, N, lu2, m, D, P)
  <2>1. \A i \in FirstLevel : lu2[i] < 0 =>
          \E k \in 0..(m - 1) : lu2[i] = Node(k) /\ D[k] = FastBits /\ RevCode(P[k], FastBits) = i
    <3> SUFFICES ASSUME NEW i \in FirstLevel, lu2[i] < 0
                 PROVE  \E k \in 0..(m - 1) : lu2[i] = Node(k) /\ D[k] = FastBits /\ RevCode(P[k], FastBits) = i
      OBVIOUS
    <3>1. lu2[i] = lu[i] BY <1>4, <1>5
    <3> QED BY <3>1 DEF Trie, FirstLevelOK
  <2>2. \A i \in FirstLevel : lu2[i] > 0 =>
          \E h \in 1..FastBits, x \in 0..(N - 1) : \E e \in 0..(E[h] - 1) :
            i % Pow2[h] = RevCode(e, h) /\ lu2[i] = h * 512 + x
    <3> SUFFICES ASSUME NEW i \in FirstLevel, lu2[i] > 0
                 PROVE  \E h \in 1..FastBits, x \in 0..(N - 1) : \E e \in 0..(E[h] - 1) :
                          i % Pow2[h] = RevCode(e, h) /\ lu2[i] = h * 512 + x
      OBVIOUS
    <3>1. CASE i % Pow2[l] = RevCode(c, l)
      <4>1. lu2[i] = l * 512 + y BY <1>4, <3>1
      <4> QED BY <3>1, <4>1
    <3>2. CASE i % Pow2[l] # RevCode(c, l)
      <4>1. lu2[i] = lu[i] BY <1>4, <3>2
      <4> QED BY <4>1 DEF Trie, FirstLevelOK
    <3> QED BY <3>1, <3>2
  <2> QED BY <1>6, <2>1, <2>2 DEF FirstLevelOK
<1>8. Linked(lu2, tr, m, D, P)
  <2>1. ASSUME NEW k \in 0..(m - 1), D[k] = FastBits, lu[RevCode(P[k], FastBits)] = Node(k)
        PROVE  lu2[RevCode(P[k], FastBits)] = Node(k)
    <3>1. P[k] \in Nat /\ E[FastBits] <= P[k] /\ P[k] < H[FastBits] BY <1>1, <2>1 DEF Trie, Inner
    <3>2. H[FastBits] <= Pow2[FastBits] /\ H[FastBits] \in Nat BY <1>2 DEF Roomy
    <3>3. P[k] \in 0..(Pow2[FastBits] - 1) BY <1>2, <3>1, <3>2
    <3>4. RevCode(P[k], FastBits) % Pow2[l] # RevCode(c, l) BY <3>1, <3>3, NotShort
    <3>5. RevCode(P[k], FastBits) \in FirstLevel BY <1>2, <3>1, RevBelow DEF FirstLevel
    <3> QED BY <1>4, <2>1, <3>4, <3>5
  <2> QED BY <2>1 DEF Trie, Linked
<1>9. Trie(E, H, N, lu2, tr, m, D, P) BY <1>7, <1>8 DEF Trie
<1> QED BY <1>9 DEF lu2

\* Along the path of code c of s bits, k levels below the first: the node
\* reached stands for the code's first FastBits + k bits.
OnPath(E, H, N, lu, c, s, k, x) ==
  \E tr, m, D, P : \E j \in 0..(m - 1) :
    /\ Trie(E, H, N, lu, tr, m, D, P)
    /\ D[j] = FastBits + k /\ P[j] = c \div Pow2[s - FastBits - k]
    /\ x = [cur |-> Node(j), tree |-> tr, next |-> Node(m)]

\* A long code: its proper prefixes are no codes, and nodes may stand for them.
LongCode(E, H, c, s) ==
  /\ s \in (FastBits + 1)..MaxCode /\ c \in Nat /\ c < E[s]
  /\ \A j \in FastBits..(s - 1) : E[j] <= c \div Pow2[s - j] /\ c \div Pow2[s - j] < H[j]

LEMMA OnPathNext ==
  ASSUME NEW E, NEW H, NEW N, Codes(E), Roomy(E, H, N), NEW lu, NEW c, NEW s, LongCode(E, H, c, s),
         NEW k \in 1..(s - FastBits - 1), NEW x, OnPath(E, H, N, lu, c, s, k - 1, x)
  PROVE  OnPath(E, H, N, lu, c, s, k, Descend(x, Bit(RevCode(c, s), FastBits + k - 1)))
<1> DEFINE b == Bit(RevCode(c, s), FastBits + k - 1)
           e == s - FastBits - k
<1>1. s \in Nat /\ FastBits \in Nat /\ MaxCode \in Nat /\ c \in Nat /\ k \in Nat /\ e \in Nat
      /\ FastBits + k - 1 \in 0..(s - 1) /\ FastBits + k \in FastBits..(s - 1)
      /\ s - (FastBits + k - 1) - 1 = e /\ s - FastBits - (k - 1) = e + 1 /\ s - (FastBits + k) = e
      /\ FastBits + (k - 1) + 1 = FastBits + k /\ FastBits + k <= MaxCode - 1
  BY Format DEF LongCode
<1>2. b = Bit(c, e)
  <2>1. \A i \in 0..(s - 1) : Bit(RevCode(c, s), i) = Bit(c, s - i - 1) BY <1>1, RevBit
  <2> QED BY <1>1, <2>1
<1>3. b \in {0, 1} BY <1>1, <1>2, BitType
<1>4. PICK tr, m, D, P : \E j \in 0..(m - 1) :
          /\ Trie(E, H, N, lu, tr, m, D, P)
          /\ D[j] = FastBits + (k - 1) /\ P[j] = c \div Pow2[s - FastBits - (k - 1)]
          /\ x = [cur |-> Node(j), tree |-> tr, next |-> Node(m)]
  BY DEF OnPath
<1>5. PICK j \in 0..(m - 1) :
          /\ Trie(E, H, N, lu, tr, m, D, P)
          /\ D[j] = FastBits + (k - 1) /\ P[j] = c \div Pow2[s - FastBits - (k - 1)]
          /\ x = [cur |-> Node(j), tree |-> tr, next |-> Node(m)]
  BY <1>4
<1>6. m \in Nat /\ j \in Nat BY <1>5 DEF Trie, Inner
<1>7. P[j] = c \div Pow2[e + 1] /\ D[j] + 1 = FastBits + k BY <1>1, <1>5
<1>8. c \div Pow2[e] = 2 * P[j] + b BY <1>1, <1>2, <1>7, NextBit
<1>9. E[FastBits + k] <= c \div Pow2[e] /\ c \div Pow2[e] < H[FastBits + k]
  <2>1. \A i \in FastBits..(s - 1) : E[i] <= c \div Pow2[s - i] /\ c \div Pow2[s - i] < H[i] BY DEF LongCode
  <2> QED BY <1>1, <2>1
<1> HIDE DEF b, e
<1>10. E[D[j] + 1] <= 2 * P[j] + b /\ 2 * P[j] + b < H[D[j] + 1] /\ D[j] + 1 <= MaxCode - 1
  BY <1>1, <1>7, <1>8, <1>9
<1>11. /\ 2 * j + b \in Slots(N) /\ tr[2 * j + b] \in Int /\ tr[2 * j + b] <= 0
       /\ tr[2 * j + b] < 0 =>
            \E i \in 0..(m - 1) : tr[2 * j + b] = Node(i) /\ D[i] = D[j] + 1 /\ P[i] = 2 * P[j] + b
  BY <1>3, <1>5, <1>10, ChildOf
<1>12. -(x.cur - b) - 1 = 2 * j + b BY <1>3, <1>5, <1>6 DEF Node
<1>13. x.tree = tr /\ x.next = Node(m) BY <1>5
<1>14. CASE tr[2 * j + b] = 0
  <2> DEFINE tr2 == [tr EXCEPT ![2 * j + b] = Node(m)]
             D2 == Longer(D, m, D[j] + 1)
             P2 == Longer(P, m, 2 * P[j] + b)
  <2>1. Trie(E, H, N, lu, tr2, m + 1, D2, P2) BY <1>3, <1>5, <1>10, <1>14, FreshChild
  <2>2. Node(m) - 2 = Node(m + 1) /\ m \in 0..((m + 1) - 1) BY <1>6 DEF Node
  <2>3. Descend(x, b) = [cur |-> Node(m), tree |-> tr2, next |-> Node(m + 1)]
    BY <1>12, <1>13, <1>14, <2>2 DEF Descend
  <2>4. D2[m] = FastBits + k /\ P2[m] = c \div Pow2[e] BY <1>6, <1>7, <1>8, LongerFacts
  <2>5. P2[m] = c \div Pow2[s - FastBits - k] BY <2>4 DEF e
  <2> HIDE DEF tr2, D2, P2
  <2>6. OnPath(E, H, N, lu, c, s, k, Descend(x, b)) BY <2>1, <2>2, <2>3, <2>4, <2>5 DEF OnPath
  <2> QED BY <2>6 DEF b
<1>15. CASE tr[2 * j + b] < 0
  <2>1. PICK i \in 0..(m - 1) : tr[2 * j + b] = Node(i) /\ D[i] = D[j] + 1 /\ P[i] = 2 * P[j] + b
    BY <1>11, <1>15
  <2>2. tr[2 * j + b] # 0 BY <1>11, <1>15
  <2>3. Descend(x, b) = [cur |-> Node(i), tree |-> tr, next |-> Node(m)]
    BY <1>5, <1>12, <1>13, <2>1, <2>2 DEF Descend
  <2>4. D[i] = FastBits + k /\ P[i] = c \div Pow2[s - FastBits - k] BY <1>7, <1>8, <2>1 DEF e
  <2>5. OnPath(E, H, N, lu, c, s, k, Descend(x, b)) BY <1>5, <2>3, <2>4 DEF OnPath
  <2> QED BY <2>5 DEF b
<1> QED BY <1>11, <1>14, <1>15

\* A long code hangs its path and its symbol in the tree.
LEMMA GrowPathKeeps ==
  ASSUME NEW E, NEW H, NEW N, Codes(E), Roomy(E, H, N), NEW lu, NEW tr, NEW m, NEW D, NEW P,
         Trie(E, H, N, lu, tr, m, D, P), NEW c, NEW s, LongCode(E, H, c, s), NEW j \in 0..(m - 1),
         D[j] = FastBits, P[j] = c \div Pow2[s - FastBits], r.sym \in 0..(N - 1)
  PROVE  LET g == GrowPath(tr, Node(j), Node(m), RevCode(c, s), s) IN
           \E m2, D2, P2 : Trie(E, H, N, lu, g.tree, m2, D2, P2) /\ g.treeNext = Node(m2)
<1> DEFINE n == s - FastBits - 1
           x0 == [cur |-> Node(j), tree |-> tr, next |-> Node(m)]
           b(k) == Bit(RevCode(c, s), FastBits + k - 1)
           X == [cur : Int, tree : [Slots(N) -> Int], next : Int]
           F == [k \in Nat |-> [x \in X |-> Descend(x, b(k))]]
           Rec(f) == f = [k \in 0..n |-> IF k = 0 THEN x0 ELSE Descend(f[k - 1], b(k))]
           at == CHOOSE f : Rec(f)
           On(k, x) == OnPath(E, H, N, lu, c, s, k, x)
<1>1. s \in Nat /\ FastBits \in Nat /\ n \in Nat /\ c \in Nat BY Format DEF LongCode
<1>2. \A k, x : On(k, x) => x \in X
  <2> SUFFICES ASSUME NEW k, NEW x, On(k, x) PROVE x \in X OBVIOUS
  <2>1. PICK tr1, m1, D1, P1 : \E i \in 0..(m1 - 1) :
          Trie(E, H, N, lu, tr1, m1, D1, P1) /\ x = [cur |-> Node(i), tree |-> tr1, next |-> Node(m1)]
    BY DEF OnPath
  <2>2. PICK i \in 0..(m1 - 1) :
          Trie(E, H, N, lu, tr1, m1, D1, P1) /\ x = [cur |-> Node(i), tree |-> tr1, next |-> Node(m1)]
    BY <2>1
  <2>3. m1 \in Nat /\ i \in Nat /\ tr1 \in [Slots(N) -> Int] BY <2>2 DEF Trie, Inner, SlotsOK
  <2>4. Node(i) \in Int /\ Node(m1) \in Int BY <2>3, NodeFacts
  <2> QED BY <2>2, <2>3, <2>4
<1>3. On(0, x0)
  <2>1. FastBits + 0 = FastBits /\ s - FastBits - 0 = s - FastBits BY <1>1
  <2> QED BY <2>1 DEF OnPath
<1>4. ASSUME NEW k \in 1..n, NEW x, On(k - 1, x) PROVE On(k, Descend(x, b(k)))
  <2>1. k \in 1..(s - FastBits - 1) OBVIOUS
  <2> QED BY <1>4, <2>1, OnPathNext
<1>5. \A k \in Nat, x \in X : F[k][x] = Descend(x, b(k)) OBVIOUS
<1> HIDE DEF F, X, On, x0, n, b
<1>6. ASSUME NEW f, f[0] = x0, \A k \in 1..n : f[k - 1] \in X => f[k] = Descend(f[k - 1], b(k))
      PROVE  \A k \in 0..n : On(k, f[k])
  <2> DEFINE S == {k \in 0..n : On(k, f[k])}
  <2>1. 0 \in S BY <1>1, <1>3, <1>6
  <2>2. ASSUME NEW k \in 0..(n - 1), k \in S PROVE k + 1 \in S
    <3>1. k + 1 \in 1..n /\ (k + 1) - 1 = k /\ k + 1 \in 0..n BY <1>1
    <3>2. On(k, f[k]) BY <2>2
    <3>3. f[k + 1] = Descend(f[k], b(k + 1)) BY <1>2, <1>6, <3>1, <3>2
    <3>4. On(k + 1, Descend(f[k], b(k + 1))) BY <1>4, <3>1, <3>2
    <3> QED BY <3>1, <3>3, <3>4
  <2>3. \A k \in 0..n : k \in S
    <3> HIDE DEF S
    <3> QED BY <1>1, <2>1, <2>2, Reaches
  <2> QED BY <2>3
<1>7. \E f : Rec(f)
  <2>1. PICK f : Recurs(f, 0, n, x0, F) BY <1>1, RecursionHolds
  <2>2. f = [k \in 0..n |-> IF k = 0 THEN x0 ELSE F[k][f[k - 1]]] BY <2>1 DEF Recurs
  <2>3. \A k \in 0..n : k # 0 => k \in 1..n /\ k - 1 \in 0..n /\ k \in Nat BY <1>1
  <2>4. \A k \in 1..n : k \in 0..n /\ k # 0 /\ k \in Nat BY <1>1
  <2>5. \A k \in 0..n : On(k, f[k])
    <3>1. f[0] = x0 BY <1>1, <2>2
    <3>2. \A k \in 1..n : f[k - 1] \in X => f[k] = Descend(f[k - 1], b(k)) BY <1>5, <2>2, <2>4
    <3> QED BY <1>6, <3>1, <3>2
  <2>6. \A k \in 0..n : (IF k = 0 THEN x0 ELSE F[k][f[k - 1]]) = (IF k = 0 THEN x0 ELSE Descend(f[k - 1], b(k)))
    BY <1>2, <1>5, <2>3, <2>5
  <2>7. Rec(f) BY <2>2, <2>6
  <2> QED BY <2>7
<1>8. Rec(at) BY <1>7
<1>9. GrowPath(tr, Node(j), Node(m), RevCode(c, s), s) =
        [tree |-> [at[n].tree EXCEPT ![-(at[n].cur - Bit(RevCode(c, s), s - 1)) - 1] = r.sym],
         treeNext |-> at[n].next]
  BY DEF GrowPath, n, x0, b
<1> HIDE DEF at
<1>10. at = [k \in 0..n |-> IF k = 0 THEN x0 ELSE Descend(at[k - 1], b(k))] BY <1>8
<1>11. On(n, at[n])
  <2>1. at[0] = x0 BY <1>1, <1>10
  <2>2. \A k \in 1..n : k \in 0..n /\ k # 0 BY <1>1
  <2>3. \A k \in 1..n : at[k] = Descend(at[k - 1], b(k)) BY <1>10, <2>2
  <2>4. n \in 0..n BY <1>1
  <2> QED BY <1>6, <2>1, <2>3, <2>4
<1>12. PICK tr1, m1, D1, P1 : \E i \in 0..(m1 - 1) :
        /\ Trie(E, H, N, lu, tr1, m1, D1, P1)
        /\ D1[i] = FastBits + n /\ P1[i] = c \div Pow2[s - FastBits - n]
        /\ at[n] = [cur |-> Node(i), tree |-> tr1, next |-> Node(m1)]
  BY <1>11 DEF On, OnPath
<1>13. PICK i \in 0..(m1 - 1) :
        /\ Trie(E, H, N, lu, tr1, m1, D1, P1)
        /\ D1[i] = FastBits + n /\ P1[i] = c \div Pow2[s - FastBits - n]
        /\ at[n] = [cur |-> Node(i), tree |-> tr1, next |-> Node(m1)]
  BY <1>12
<1>14. s - FastBits - n = 1 /\ FastBits + n + 1 = s /\ s - 1 \in 0..(s - 1) /\ s - (s - 1) - 1 = 0
  BY <1>1 DEF n, LongCode
<1>15. Bit(RevCode(c, s), s - 1) = Bit(c, 0)
  <2>1. \A q \in 0..(s - 1) : Bit(RevCode(c, s), q) = Bit(c, s - q - 1) BY <1>1, RevBit
  <2> QED BY <1>14, <2>1
<1>16. c = 2 * P1[i] + Bit(c, 0)
  <2>1. 0 \in Nat /\ 0 + 1 = 1 /\ Pow2[0] = 1 BY Pow2Type
  <2>2. c \div Pow2[0] = 2 * (c \div Pow2[0 + 1]) + Bit(c, 0) BY <1>1, <2>1, NextBit
  <2>3. c \div 1 = c BY <1>1
  <2> QED BY <1>13, <1>14, <2>1, <2>2, <2>3
<1>17. Bit(c, 0) \in {0, 1} BY <1>1, BitType
<1>18. 2 * P1[i] + Bit(c, 0) < E[D1[i] + 1]
  <2>1. c < E[s] BY DEF LongCode
  <2> QED BY <1>13, <1>14, <1>16, <2>1
<1>19. Trie(E, H, N, lu, [tr1 EXCEPT ![2 * i + Bit(c, 0)] = r.sym], m1, D1, P1)
  BY <1>13, <1>17, <1>18, PutLeaf
<1>20. -(at[n].cur - Bit(RevCode(c, s), s - 1)) - 1 = 2 * i + Bit(c, 0)
  <2>1. i \in Nat BY <1>13 DEF Trie, Inner
  <2> QED BY <1>13, <1>15, <1>17, <2>1 DEF Node
<1>21. at[n].tree = tr1 /\ at[n].next = Node(m1) BY <1>13
<1> DEFINE g == GrowPath(tr, Node(j), Node(m), RevCode(c, s), s)
<1>22. g.tree = [tr1 EXCEPT ![2 * i + Bit(c, 0)] = r.sym] /\ g.treeNext = Node(m1)
  <2> DEFINE q == -(at[n].cur - Bit(RevCode(c, s), s - 1)) - 1
             y == r.sym
  <2>1. g = [tree |-> [at[n].tree EXCEPT ![q] = y], treeNext |-> at[n].next] BY <1>9
  <2>2. q = 2 * i + Bit(c, 0) BY <1>20
  <2> HIDE DEF q, g
  <2>3. g.tree = [at[n].tree EXCEPT ![q] = y] /\ g.treeNext = at[n].next
    <3> HIDE DEF y
    <3> QED BY <2>1
  <2> QED BY <1>21, <2>2, <2>3
<1> HIDE DEF g
<1>23. Trie(E, H, N, lu, g.tree, m1, D1, P1) BY <1>19, <1>22
<1>24. \E m2, D2, P2 : Trie(E, H, N, lu, g.tree, m2, D2, P2) /\ g.treeNext = Node(m2) BY <1>22, <1>23
<1> QED BY <1>24 DEF g

(***************************************************************************)
(* How many nodes a code needs                                             *)
(***************************************************************************)
LEMMA Apart ==
  ASSUME NEW S, NEW T, IsFiniteSet(S), IsFiniteSet(T), S \cap T = {}
  PROVE  IsFiniteSet(S \cup T) /\ Cardinality(S \cup T) = Cardinality(S) + Cardinality(T)
<1>1. IsFiniteSet(S \cup T) /\ Cardinality(S \cup T) = Cardinality(S) + Cardinality(T) - Cardinality(S \cap T)
  BY FS_Union
<1>2. Cardinality(S \cap T) = 0 BY FS_EmptySet
<1>3. Cardinality(S) \in Nat /\ Cardinality(T) \in Nat BY FS_CardinalityType
<1> QED BY <1>1, <1>2, <1>3

LEMMA Fewer ==
  ASSUME NEW S, NEW T, IsFiniteSet(S), IsFiniteSet(T), NEW f \in [S -> T],
         \A x, y \in S : f[x] = f[y] => x = y
  PROVE  Cardinality(S) <= Cardinality(T)
<1>1. ~(Cardinality(T) < Cardinality(S))
  <2> SUFFICES ASSUME Cardinality(T) < Cardinality(S) PROVE FALSE OBVIOUS
  <2>1. PICK x \in S, y \in S : x # y /\ f[x] = f[y] BY FS_PigeonHole
  <2> QED BY <2>1
<1>2. Cardinality(S) \in Nat /\ Cardinality(T) \in Nat BY FS_CardinalityType
<1> QED BY <1>1, <1>2

\* The symbols of a table of n symbols whose code has l bits, or more than l.
WithSize(cs, n, l) == {i \in 0..(n - 1) : cs[i] = l}
Above(cs, n, l) == {i \in 0..(n - 1) : cs[i] > l}

LEMMA WithSizeFinite ==
  ASSUME NEW cs, NEW n \in Nat, NEW l
  PROVE  /\ IsFiniteSet(WithSize(cs, n, l)) /\ Cardinality(WithSize(cs, n, l)) \in Nat
         /\ IsFiniteSet(Above(cs, n, l)) /\ Cardinality(Above(cs, n, l)) \in Nat
         /\ Cardinality(Above(cs, n, l)) <= n
<1>1. IsFiniteSet(0..(n - 1)) /\ Cardinality(0..(n - 1)) = n
  <2>1. 0 \in Int /\ n - 1 \in Int /\ (n - 1) - 0 + 1 = n OBVIOUS
  <2>2. IsFiniteSet(0..(n - 1)) /\ Cardinality(0..(n - 1)) = IF 0 > n - 1 THEN 0 ELSE (n - 1) - 0 + 1
    BY <2>1, FS_Interval
  <2> QED BY <2>1, <2>2
<1>2. WithSize(cs, n, l) \in SUBSET (0..(n - 1)) /\ Above(cs, n, l) \in SUBSET (0..(n - 1)) BY DEF WithSize, Above
<1>3. IsFiniteSet(WithSize(cs, n, l)) /\ IsFiniteSet(Above(cs, n, l)) BY <1>1, <1>2, FS_Subset
<1>4. Cardinality(Above(cs, n, l)) <= n BY <1>1, <1>2, FS_Subset
<1> QED BY <1>3, <1>4, FS_CardinalityType

LEMMA AboveNext ==
  ASSUME NEW cs, NEW n \in Nat, NEW l \in Nat, \A i \in 0..(n - 1) : cs[i] \in Nat
  PROVE  Cardinality(Above(cs, n, l)) = Cardinality(Above(cs, n, l + 1)) + Cardinality(WithSize(cs, n, l + 1))
<1>1. Above(cs, n, l) = Above(cs, n, l + 1) \cup WithSize(cs, n, l + 1) BY DEF Above, WithSize
<1>2. Above(cs, n, l + 1) \cap WithSize(cs, n, l + 1) = {} BY DEF Above, WithSize
<1>3. IsFiniteSet(WithSize(cs, n, l + 1)) /\ IsFiniteSet(Above(cs, n, l + 1)) BY WithSizeFinite
<1> QED BY <1>1, <1>2, <1>3, Apart

\* The first code of every length, and E[l] behind the last one of l bits.
Firsts(cs, n, next) ==
  /\ next \in [1..(MaxCode + 1) -> Nat]
  /\ next[1] = 0
  /\ \A l \in 1..MaxCode : next[l + 1] = 2 * (next[l] + Cardinality(WithSize(cs, n, l)))

CodeEnds(cs, n, next) == [l \in 1..MaxCode |-> next[l] + Cardinality(WithSize(cs, n, l))]

SizesOK(cs, n, N) ==
  /\ N \in 1..512 /\ n \in 0..N /\ MaxCode - FastBits <= N
  /\ \A i \in 0..(n - 1) : cs[i] \in 0..MaxCode

LEMMA EndsFacts ==
  ASSUME NEW cs, NEW n, NEW N, NEW next, SizesOK(cs, n, N), Firsts(cs, n, next)
  PROVE  LET E == CodeEnds(cs, n, next)  IN
         /\ E \in [1..MaxCode -> Nat]
         /\ \A l \in 1..MaxCode : next[l + 1] = 2 * E[l]
         /\ \A l \in 1..(MaxCode - 1) : E[l + 1] = 2 * E[l] + Cardinality(WithSize(cs, n, l + 1))
         /\ E[1] = Cardinality(WithSize(cs, n, 1))
         /\ \A l \in 1..MaxCode : E[l] = next[l] + Cardinality(WithSize(cs, n, l))
<1> DEFINE E == CodeEnds(cs, n, next)
           C(l) == Cardinality(WithSize(cs, n, l))
<1>1. MaxCode \in Nat /\ MaxCode >= 1 /\ n \in Nat BY Format DEF SizesOK
<1>2. \A l : C(l) \in Nat BY <1>1, WithSizeFinite
<1>3. \A l \in 1..MaxCode : l \in 1..(MaxCode + 1) /\ l + 1 \in 1..(MaxCode + 1) BY <1>1
<1>4. \A l \in 1..MaxCode : next[l] \in Nat /\ next[l + 1] = 2 * (next[l] + C(l)) BY <1>3 DEF Firsts
<1>5. \A l \in 1..MaxCode : E[l] = next[l] + C(l) BY DEF CodeEnds
<1>6. E \in [1..MaxCode -> Nat] BY <1>2, <1>4 DEF CodeEnds
<1> HIDE DEF E, C
<1>7. \A l \in 1..MaxCode : next[l + 1] = 2 * E[l] BY <1>4, <1>5
<1>8. \A l \in 1..(MaxCode - 1) : E[l + 1] = 2 * E[l] + C(l + 1)
  <2> SUFFICES ASSUME NEW l \in 1..(MaxCode - 1) PROVE E[l + 1] = 2 * E[l] + C(l + 1) OBVIOUS
  <2>1. l \in 1..MaxCode /\ l + 1 \in 1..MaxCode BY <1>1
  <2> QED BY <1>5, <1>7, <2>1
<1>9. E[1] = C(1)
  <2>1. next[1] = 0 /\ 1 \in 1..MaxCode BY <1>1 DEF Firsts
  <2> QED BY <1>2, <1>5, <2>1
<1> QED BY <1>5, <1>6, <1>7, <1>8, <1>9 DEF E, C

\* A complete code: E reaches all ones at the longest length.
LEMMA CompleteCodes ==
  ASSUME NEW cs, NEW n, NEW N, NEW next, SizesOK(cs, n, N), Firsts(cs, n, next),
         next[MaxCode + 1] = Pow2[MaxCode + 1]
  PROVE  LET E == CodeEnds(cs, n, next) IN Codes(E) /\ E[MaxCode] = Pow2[MaxCode]
<1> DEFINE E == CodeEnds(cs, n, next)
           C(l) == Cardinality(WithSize(cs, n, l))
           S == {l \in Int : E[MaxCode - l] <= Pow2[MaxCode - l]}
<1>1. MaxCode \in Nat /\ MaxCode >= 1 /\ n \in Nat BY Format DEF SizesOK
<1>2. \A l : C(l) \in Nat BY <1>1, WithSizeFinite
<1>3. /\ E \in [1..MaxCode -> Nat]
      /\ \A l \in 1..MaxCode : next[l + 1] = 2 * E[l]
      /\ \A l \in 1..(MaxCode - 1) : E[l + 1] = 2 * E[l] + C(l + 1)
  BY EndsFacts
<1> HIDE DEF E, C
<1>4. MaxCode \in 1..MaxCode BY <1>1
<1>5. E[MaxCode] = Pow2[MaxCode]
  <2>1. Pow2[MaxCode + 1] = 2 * Pow2[MaxCode] /\ Pow2[MaxCode] \in Nat BY <1>1, Pow2Type
  <2>2. E[MaxCode] \in Nat BY <1>3, <1>4
  <2> QED BY <1>3, <1>4, <2>1, <2>2
<1>6. \A l \in 1..(MaxCode - 1) : 2 * E[l] <= E[l + 1]
  <2> SUFFICES ASSUME NEW l \in 1..(MaxCode - 1) PROVE 2 * E[l] <= E[l + 1] OBVIOUS
  <2>1. l \in 1..MaxCode BY <1>1
  <2>2. E[l] \in Nat /\ C(l + 1) \in Nat BY <1>2, <1>3, <2>1
  <2> QED BY <1>3, <2>2
<1>7. \A l \in 0..(MaxCode - 1) : l \in S
  <2>1. 0 \in S
    <3>1. MaxCode - 0 = MaxCode /\ Pow2[MaxCode] \in Nat BY <1>1, Pow2Type
    <3> QED BY <1>5, <3>1
  <2>2. ASSUME NEW l \in 0..((MaxCode - 1) - 1), l \in S PROVE l + 1 \in S
    <3> DEFINE j == MaxCode - (l + 1)
    <3>1. j \in 1..(MaxCode - 1) /\ j + 1 = MaxCode - l /\ j \in Nat /\ j \in 1..MaxCode BY <1>1
    <3> HIDE DEF j
    <3>2. 2 * E[j] <= E[j + 1] /\ E[j + 1] <= Pow2[j + 1] BY <1>6, <2>2, <3>1
    <3>3. Pow2[j + 1] = 2 * Pow2[j] /\ Pow2[j] \in Nat BY <3>1, Pow2Type
    <3>4. E[j] \in Nat /\ E[j + 1] \in Nat
      <4>1. j + 1 \in 1..MaxCode BY <1>1, <3>1
      <4> QED BY <1>3, <3>1, <4>1
    <3>5. E[j] <= Pow2[j] BY <3>2, <3>3, <3>4
    <3> QED BY <1>1, <3>5 DEF j
  <2>3. 0 \in Int /\ MaxCode - 1 \in Int BY <1>1
  <2> HIDE DEF S
  <2> QED BY <2>1, <2>2, <2>3, Reaches
<1>8. \A l \in 1..MaxCode : E[l] <= Pow2[l]
  <2> SUFFICES ASSUME NEW l \in 1..MaxCode PROVE E[l] <= Pow2[l] OBVIOUS
  <2>1. MaxCode - l \in 0..(MaxCode - 1) /\ MaxCode - (MaxCode - l) = l BY <1>1
  <2> QED BY <1>7, <2>1
<1>9. Codes(E) BY <1>3, <1>6, <1>8 DEF Codes
<1> QED BY <1>5, <1>9 DEF E

\* The nodes from depth l on, and the prefixes of l bits that need one, are
\* together no more than the codes longer than l.
LEMMA CompleteRoomy ==
  ASSUME NEW cs, NEW n, NEW N, NEW next, SizesOK(cs, n, N), Firsts(cs, n, next),
         next[MaxCode + 1] = Pow2[MaxCode + 1]
  PROVE  Roomy(CodeEnds(cs, n, next), [l \in 1..MaxCode |-> Pow2[l]], N)
<1> DEFINE E == CodeEnds(cs, n, next)
           H == [l \in 1..MaxCode |-> Pow2[l]]
           C(l) == Cardinality(WithSize(cs, n, l))
           L(l) == Cardinality(Above(cs, n, l))
<1>1. MaxCode \in Nat /\ MaxCode >= 1 /\ n \in Nat /\ N \in Nat /\ n <= N /\ FastBits \in Nat
      /\ FastBits >= 1 /\ FastBits < MaxCode
  BY Format DEF SizesOK
<1>2. \A l : C(l) \in Nat /\ L(l) \in Nat /\ L(l) <= n BY <1>1, WithSizeFinite
<1>3. \A l \in Nat : L(l) = L(l + 1) + C(l + 1)
  <2>1. \A i \in 0..(n - 1) : cs[i] \in Nat BY <1>1 DEF SizesOK
  <2> QED BY <1>1, <2>1, AboveNext
<1>4. Codes(E) /\ E[MaxCode] = Pow2[MaxCode] BY CompleteCodes
<1>5. /\ E \in [1..MaxCode -> Nat]
      /\ \A l \in 1..(MaxCode - 1) : E[l + 1] = 2 * E[l] + C(l + 1)
  BY EndsFacts
<1>6. \A l \in 1..MaxCode : H[l] = Pow2[l] /\ Pow2[l] \in Nat
  <2>1. \A l \in 1..MaxCode : l \in Nat BY <1>1
  <2> QED BY <2>1, Pow2Type
<1>7. H \in [1..MaxCode -> Nat] BY <1>6
<1> HIDE DEF E, H, C, L
<1>8. ASSUME NEW m, NEW D, NEW P, Inner(E, H, m, D, P) PROVE m <= N
  <2> DEFINE Deep(l) == {k \in 0..(m - 1) : D[k] >= l}
             At(l) == {k \in 0..(m - 1) : D[k] = l}
             S == {q \in Int : Cardinality(Deep(MaxCode - q)) + (Pow2[MaxCode - q] - E[MaxCode - q]) <= L(MaxCode - q)}
  <2>1. m \in Nat /\ \A k \in 0..(m - 1) : D[k] \in FastBits..(MaxCode - 1) /\ P[k] \in Nat
                       /\ E[D[k]] <= P[k] /\ P[k] < H[D[k]]
    BY <1>8 DEF Inner
  <2>2. IsFiniteSet(0..(m - 1)) /\ Cardinality(0..(m - 1)) = m
    <3>1. 0 \in Int /\ m - 1 \in Int /\ (m - 1) - 0 + 1 = m BY <2>1
    <3>2. IsFiniteSet(0..(m - 1)) /\ Cardinality(0..(m - 1)) = IF 0 > m - 1 THEN 0 ELSE (m - 1) - 0 + 1
      BY <3>1, FS_Interval
    <3> QED BY <2>1, <3>1, <3>2
  <2>3. \A l : IsFiniteSet(Deep(l)) /\ Cardinality(Deep(l)) \in Nat /\ IsFiniteSet(At(l)) /\ Cardinality(At(l)) \in Nat
    <3> SUFFICES ASSUME NEW l PROVE IsFiniteSet(Deep(l)) /\ Cardinality(Deep(l)) \in Nat
                                    /\ IsFiniteSet(At(l)) /\ Cardinality(At(l)) \in Nat
      OBVIOUS
    <3>1. Deep(l) \in SUBSET (0..(m - 1)) /\ At(l) \in SUBSET (0..(m - 1)) OBVIOUS
    <3>2. IsFiniteSet(Deep(l)) /\ IsFiniteSet(At(l)) BY <2>2, <3>1, FS_Subset
    <3> QED BY <3>2, FS_CardinalityType
  <2>4. ASSUME NEW l \in FastBits..(MaxCode - 1)
        PROVE  Cardinality(Deep(l)) = Cardinality(Deep(l + 1)) + Cardinality(At(l))
    <3>1. Deep(l) = Deep(l + 1) \cup At(l) BY <1>1, <2>1
    <3>2. Deep(l + 1) \cap At(l) = {} BY <1>1, <2>1
    <3> HIDE DEF Deep, At
    <3> QED BY <2>3, <3>1, <3>2, Apart
  <2>5. ASSUME NEW l \in FastBits..(MaxCode - 1) PROVE Cardinality(At(l)) <= Pow2[l] - E[l]
    <3>1. l \in 1..MaxCode /\ E[l] \in Nat /\ Pow2[l] \in Nat /\ E[l] <= Pow2[l] BY <1>1, <1>4, <1>6 DEF Codes
    <3> DEFINE f == [k \in At(l) |-> P[k]]
    <3>2. f \in [At(l) -> E[l]..(Pow2[l] - 1)] BY <1>6, <2>1, <3>1
    <3>3. \A j, k \in At(l) : f[j] = f[k] => j = k BY <1>8 DEF Inner
    <3>4. IsFiniteSet(E[l]..(Pow2[l] - 1)) /\ Cardinality(E[l]..(Pow2[l] - 1)) = Pow2[l] - E[l]
      <4> DEFINE a == E[l]
                 b == Pow2[l] - 1
      <4>1. a \in Int /\ b \in Int /\ a <= b + 1 /\ b - a + 1 = Pow2[l] - E[l] BY <3>1
      <4> HIDE DEF a, b
      <4>2. IsFiniteSet(a..b) /\ Cardinality(a..b) = IF a > b THEN 0 ELSE b - a + 1 BY <4>1, FS_Interval
      <4>3. IsFiniteSet(a..b) /\ Cardinality(a..b) = b - a + 1 BY <4>1, <4>2
      <4> QED BY <4>1, <4>3 DEF a, b
    <3> HIDE DEF f, At
    <3>5. Cardinality(At(l)) <= Cardinality(E[l]..(Pow2[l] - 1)) BY <2>3, <3>2, <3>3, <3>4, Fewer
    <3> QED BY <3>4, <3>5
  <2>6. 0 \in S
    <3>1. MaxCode - 0 = MaxCode BY <1>1
    <3>2. Deep(MaxCode) = {} BY <1>1, <2>1
    <3>3. Cardinality(Deep(MaxCode)) = 0 BY <3>2, FS_EmptySet
    <3>4. L(MaxCode) \in Nat /\ Pow2[MaxCode] \in Nat BY <1>1, <1>2, Pow2Type
    <3> HIDE DEF Deep
    <3> QED BY <1>4, <3>1, <3>3, <3>4
  <2>7. ASSUME NEW q \in 0..((MaxCode - FastBits) - 1), q \in S PROVE q + 1 \in S
    <3> DEFINE l == MaxCode - (q + 1)
    <3>1. l \in FastBits..(MaxCode - 1) /\ l + 1 = MaxCode - q /\ l \in 1..(MaxCode - 1) /\ l \in Nat
          /\ l \in 1..MaxCode /\ l + 1 \in 1..MaxCode
      BY <1>1
    <3>2. q + 1 \in Int OBVIOUS
    <3>3. Cardinality(Deep(MaxCode - q)) + (Pow2[MaxCode - q] - E[MaxCode - q]) <= L(MaxCode - q) BY <2>7
    <3> HIDE DEF l, Deep, At
    <3>4. Cardinality(Deep(l + 1)) + (Pow2[l + 1] - E[l + 1]) <= L(l + 1) BY <3>1, <3>3
    <3>5. Pow2[l + 1] = 2 * Pow2[l] /\ E[l + 1] = 2 * E[l] + C(l + 1) BY <1>5, <3>1, Pow2Type
    <3>6. L(l) = L(l + 1) + C(l + 1) BY <1>3, <3>1
    <3>7. Cardinality(Deep(l)) <= Cardinality(Deep(l + 1)) + (Pow2[l] - E[l])
      <4>1. Cardinality(Deep(l)) = Cardinality(Deep(l + 1)) + Cardinality(At(l)) BY <2>4, <3>1
      <4>2. Cardinality(At(l)) <= Pow2[l] - E[l] BY <2>5, <3>1
      <4>3. Pow2[l] \in Nat /\ E[l] \in Nat BY <1>5, <1>6, <3>1
      <4>4. Cardinality(At(l)) \in Nat /\ Cardinality(Deep(l + 1)) \in Nat BY <2>3
      <4> QED BY <4>1, <4>2, <4>3, <4>4
    <3>8. Pow2[l] \in Nat /\ E[l] \in Nat /\ C(l + 1) \in Nat /\ L(l + 1) \in Nat
      BY <1>2, <1>5, <1>6, <3>1
    <3>9. Cardinality(Deep(l)) \in Nat /\ Cardinality(Deep(l + 1)) \in Nat BY <2>3
    <3>10. Cardinality(Deep(l)) + (Pow2[l] - E[l]) <= L(l) BY <3>4, <3>5, <3>6, <3>7, <3>8, <3>9
    <3> QED BY <3>2, <3>10 DEF l
  <2>8. \A q \in 0..(MaxCode - FastBits) : q \in S
    <3>1. 0 \in Int /\ MaxCode - FastBits \in Int BY <1>1
    <3> HIDE DEF S
    <3> QED BY <2>6, <2>7, <3>1, Reaches
  <2>9. Cardinality(Deep(FastBits)) + (Pow2[FastBits] - E[FastBits]) <= L(FastBits)
    <3>1. MaxCode - FastBits \in 0..(MaxCode - FastBits) /\ MaxCode - (MaxCode - FastBits) = FastBits BY <1>1
    <3>2. MaxCode - FastBits \in S BY <2>8, <3>1
    <3> HIDE DEF Deep
    <3> QED BY <3>1, <3>2
  <2>10. Deep(FastBits) = 0..(m - 1) BY <1>1, <2>1
  <2>11. E[FastBits] \in Nat /\ Pow2[FastBits] \in Nat /\ E[FastBits] <= Pow2[FastBits]
    <3>1. FastBits \in 1..MaxCode BY <1>1
    <3> QED BY <1>4, <1>6, <3>1 DEF Codes
  <2>12. m + (Pow2[FastBits] - E[FastBits]) <= L(FastBits) BY <2>2, <2>9, <2>10
  <2>13. L(FastBits) \in Nat /\ L(FastBits) <= n BY <1>2
  <2> QED BY <1>1, <2>1, <2>11, <2>12, <2>13
<1>9. N \in 1..512 BY DEF SizesOK
<1>10. \A l \in 1..MaxCode : H[l] <= Pow2[l] BY <1>6
<1>11. Roomy(E, H, N) BY <1>7, <1>8, <1>9, <1>10 DEF Roomy
<1> QED BY <1>11 DEF E, H

\* A single code: E is 0 up to its length, and no other code follows.
LEMMA SingleCodes ==
  ASSUME NEW cs, NEW n, NEW N, NEW next, SizesOK(cs, n, N), Firsts(cs, n, next),
         Cardinality({i \in 0..(n - 1) : cs[i] # 0}) <= 1
  PROVE  LET E == CodeEnds(cs, n, next) IN
         /\ Codes(E)
         /\ \A l \in 1..MaxCode : Cardinality(WithSize(cs, n, l)) > 0 =>
              E[l] = 1 /\ next[l] = 0 /\ \A j \in 1..(l - 1) : E[j] = 0
<1> DEFINE E == CodeEnds(cs, n, next)
           C(l) == Cardinality(WithSize(cs, n, l))
           U == {i \in 0..(n - 1) : cs[i] # 0}
           Quiet(l) == \A j \in (l + 1)..MaxCode : C(j) = 0
           S == {l \in 1..MaxCode : E[l] = 0 \/ (E[l] <= Pow2[l] /\ Quiet(l))}
<1>1. MaxCode \in Nat /\ MaxCode >= 1 /\ n \in Nat BY Format DEF SizesOK
<1>2. \A l : C(l) \in Nat /\ IsFiniteSet(WithSize(cs, n, l)) BY <1>1, WithSizeFinite
<1>3. IsFiniteSet(U) /\ Cardinality(U) <= 1 /\ Cardinality(U) \in Nat
  <2>1. 0 \in Int /\ n - 1 \in Int BY <1>1
  <2>2. IsFiniteSet(0..(n - 1)) BY <2>1, FS_Interval
  <2>3. U \in SUBSET (0..(n - 1)) OBVIOUS
  <2>4. IsFiniteSet(U) BY <2>2, <2>3, FS_Subset
  <2> QED BY <2>4, FS_CardinalityType
<1>4. \A x, y \in U : x = y
  <2>1. CASE Cardinality(U) = 0
    <3>1. U = {} BY <1>3, <2>1, FS_EmptySet
    <3> QED BY <3>1
  <2>2. CASE Cardinality(U) = 1
    <3>1. PICK x : U = {x} BY <1>3, <2>2, FS_Singleton
    <3> QED BY <3>1
  <2> QED BY <1>3, <2>1, <2>2
<1>5. \A l \in 1..MaxCode : WithSize(cs, n, l) \subseteq U BY <1>1 DEF WithSize
<1>6. \A l \in 1..MaxCode : C(l) > 0 => \E x \in U : WithSize(cs, n, l) = {x}
  <2> SUFFICES ASSUME NEW l \in 1..MaxCode, C(l) > 0 PROVE \E x \in U : WithSize(cs, n, l) = {x} OBVIOUS
  <2>1. C(l) # 0 OBVIOUS
  <2>2. WithSize(cs, n, l) # {} BY <2>1, FS_EmptySet
  <2> HIDE DEF U
  <2> QED BY <1>4, <1>5, <2>2
<1>7. \A l \in 1..MaxCode : C(l) > 0 => C(l) = 1 BY <1>6, FS_Singleton
<1>8. \A j, l \in 1..MaxCode : C(l) > 0 /\ j # l => C(j) = 0
  <2> SUFFICES ASSUME NEW j \in 1..MaxCode, NEW l \in 1..MaxCode, C(l) > 0, j # l, C(j) > 0 PROVE FALSE BY <1>2
  <2>1. PICK x \in U : WithSize(cs, n, l) = {x} BY <1>6
  <2>2. PICK y \in U : WithSize(cs, n, j) = {y} BY <1>6
  <2>3. x = y BY <1>4
  <2>4. cs[x] = l /\ cs[x] = j
    <3> HIDE DEF U
    <3>1. x \in WithSize(cs, n, l) /\ x \in WithSize(cs, n, j) BY <2>1, <2>2, <2>3
    <3> QED BY <3>1 DEF WithSize
  <2> QED BY <2>4
<1>9. /\ E \in [1..MaxCode -> Nat]
      /\ \A l \in 1..MaxCode : next[l + 1] = 2 * E[l]
      /\ \A l \in 1..(MaxCode - 1) : E[l + 1] = 2 * E[l] + C(l + 1)
      /\ E[1] = C(1)
      /\ \A l \in 1..MaxCode : E[l] = next[l] + C(l)
  BY EndsFacts
<1> HIDE DEF E, C, U
<1>10. 1 \in S
  <2>1. 1 \in 1..MaxCode BY <1>1
  <2>2. Pow2[1] \in Nat /\ Pow2[1] >= 1 BY Pow2Type
  <2>3. CASE C(1) = 0 BY <1>9, <2>1, <2>3
  <2>4. CASE C(1) > 0
    <3>1. E[1] <= Pow2[1] BY <1>7, <1>9, <2>1, <2>2, <2>4
    <3>2. \A j \in (1 + 1)..MaxCode : j \in 1..MaxCode /\ j # 1 BY <1>1
    <3>3. Quiet(1) BY <1>8, <2>1, <2>4, <3>2
    <3> QED BY <2>1, <3>1, <3>3
  <2> QED BY <1>2, <2>3, <2>4
<1>11. ASSUME NEW l \in 1..(MaxCode - 1), l \in S PROVE l + 1 \in S
  <2>1. l \in 1..MaxCode /\ l + 1 \in 1..MaxCode /\ l \in Nat BY <1>1
  <2>2. E[l + 1] = 2 * E[l] + C(l + 1) /\ E[l] \in Nat /\ C(l + 1) \in Nat BY <1>2, <1>9, <2>1
  <2>3. Pow2[l + 1] = 2 * Pow2[l] /\ Pow2[l] \in Nat /\ Pow2[l] >= 1 BY <2>1, Pow2Type
  <2>4. CASE E[l] = 0 /\ C(l + 1) = 0
    <3>1. E[l + 1] = 0 BY <2>2, <2>4
    <3> QED BY <2>1, <3>1
  <2>5. CASE E[l] = 0 /\ C(l + 1) > 0
    <3>1. C(l + 1) = 1 BY <1>7, <2>1, <2>5
    <3>2. E[l + 1] <= Pow2[l + 1] BY <2>2, <2>3, <2>5, <3>1
    <3>3. \A j \in ((l + 1) + 1)..MaxCode : j \in 1..MaxCode /\ j # l + 1 BY <1>1, <2>1
    <3>4. Quiet(l + 1) BY <1>8, <2>1, <2>5, <3>3
    <3> QED BY <2>1, <3>2, <3>4
  <2>6. CASE E[l] # 0
    <3>1. E[l] <= Pow2[l] /\ Quiet(l) BY <1>11, <2>6
    <3>2. l + 1 \in (l + 1)..MaxCode /\ \A j \in ((l + 1) + 1)..MaxCode : j \in (l + 1)..MaxCode BY <1>1, <2>1
    <3>3. C(l + 1) = 0 BY <3>1, <3>2
    <3>4. E[l + 1] <= Pow2[l + 1] BY <2>2, <2>3, <3>1, <3>3
    <3>5. Quiet(l + 1) BY <3>1, <3>2
    <3> QED BY <2>1, <3>4, <3>5
  <2> QED BY <2>2, <2>4, <2>5, <2>6
<1>12. \A l \in 1..MaxCode : l \in S
  <2>1. 1 \in Int /\ MaxCode \in Int BY <1>1
  <2> HIDE DEF S
  <2> QED BY <1>10, <1>11, <2>1, Reaches
<1>13. Codes(E)
  <2>1. \A l \in 1..MaxCode : E[l] <= Pow2[l]
    <3> SUFFICES ASSUME NEW l \in 1..MaxCode PROVE E[l] <= Pow2[l] OBVIOUS
    <3>1. E[l] = 0 \/ E[l] <= Pow2[l] BY <1>12
    <3>2. l \in Nat BY <1>1
    <3>3. Pow2[l] \in Nat BY <3>2, Pow2Type
    <3> QED BY <3>1, <3>3
  <2>2. \A l \in 1..(MaxCode - 1) : 2 * E[l] <= E[l + 1]
    <3> SUFFICES ASSUME NEW l \in 1..(MaxCode - 1) PROVE 2 * E[l] <= E[l + 1] OBVIOUS
    <3>1. l \in 1..MaxCode BY <1>1
    <3>2. E[l] \in Nat /\ C(l + 1) \in Nat BY <1>2, <1>9, <3>1
    <3> QED BY <1>9, <3>2
  <2> QED BY <1>9, <2>1, <2>2 DEF Codes
<1>14. ASSUME NEW l \in 1..MaxCode, C(l) > 0
       PROVE  E[l] = 1 /\ next[l] = 0 /\ \A j \in 1..(l - 1) : E[j] = 0
  <2>1. \A j \in 1..(l - 1) : E[j] = 0
    <3> SUFFICES ASSUME NEW j \in 1..(l - 1) PROVE E[j] = 0 OBVIOUS
    <3>1. j \in 1..MaxCode /\ l \in (j + 1)..MaxCode BY <1>1
    <3>2. E[j] = 0 \/ Quiet(j) BY <1>12, <3>1
    <3>3. C(l) # 0 BY <1>14
    <3> QED BY <3>1, <3>2, <3>3
  <2>2. E[l] = 1
    <3>1. CASE l = 1 BY <1>7, <1>9, <1>14, <3>1
    <3>2. CASE l # 1
      <4>1. l - 1 \in 1..(MaxCode - 1) /\ (l - 1) + 1 = l /\ l - 1 \in 1..(l - 1) BY <1>1, <3>2
      <4>2. E[l] = 2 * E[l - 1] + C(l) BY <1>9, <4>1
      <4>3. C(l) = 1 /\ E[l - 1] = 0 BY <1>7, <1>14, <2>1, <4>1
      <4> QED BY <4>2, <4>3
    <3> QED BY <3>1, <3>2
  <2>3. next[l] = 0
    <3>1. next[l] \in Nat
      <4>1. l \in 1..(MaxCode + 1) BY <1>1
      <4> QED BY <4>1 DEF Firsts
    <3>2. E[l] = next[l] + C(l) /\ C(l) = 1 BY <1>7, <1>9, <1>14
    <3> QED BY <2>2, <3>1, <3>2
  <2> QED BY <2>1, <2>2, <2>3
<1> QED BY <1>13, <1>14 DEF E, C

\* Its nodes all stand for zeros: one per depth.
LEMMA SingleRoomy ==
  ASSUME NEW cs, NEW n, NEW N, SizesOK(cs, n, N), NEW E
  PROVE  Roomy(E, [l \in 1..MaxCode |-> 1], N)
<1> DEFINE H == [l \in 1..MaxCode |-> 1]
<1>1. MaxCode \in Nat /\ MaxCode >= 1 /\ N \in Nat /\ FastBits \in Nat /\ FastBits >= 1 /\ FastBits < MaxCode
      /\ MaxCode - FastBits <= N
  BY Format DEF SizesOK
<1>2. H \in [1..MaxCode -> Nat] /\ \A l \in 1..MaxCode : H[l] = 1 OBVIOUS
<1> HIDE DEF H
<1>3. ASSUME NEW m, NEW D, NEW P, Inner(E, H, m, D, P) PROVE m <= N
  <2>1. m \in Nat /\ \A k \in 0..(m - 1) : D[k] \in FastBits..(MaxCode - 1) /\ P[k] \in Nat /\ P[k] < H[D[k]]
    BY <1>3 DEF Inner
  <2>2. D \in [0..(m - 1) -> FastBits..(MaxCode - 1)] BY <1>3 DEF Inner
  <2>3. \A k \in 0..(m - 1) : P[k] = 0
    <3> SUFFICES ASSUME NEW k \in 0..(m - 1) PROVE P[k] = 0 OBVIOUS
    <3>1. D[k] \in 1..MaxCode BY <1>1, <2>1
    <3> QED BY <1>2, <2>1, <3>1
  <2>4. \A j, k \in 0..(m - 1) : D[j] = D[k] => j = k BY <1>3, <2>3 DEF Inner
  <2>5. IsFiniteSet(0..(m - 1)) /\ Cardinality(0..(m - 1)) = m
    <3>1. 0 \in Int /\ m - 1 \in Int /\ (m - 1) - 0 + 1 = m BY <2>1
    <3>2. IsFiniteSet(0..(m - 1)) /\ Cardinality(0..(m - 1)) = IF 0 > m - 1 THEN 0 ELSE (m - 1) - 0 + 1
      BY <3>1, FS_Interval
    <3> QED BY <2>1, <3>1, <3>2
  <2>6. IsFiniteSet(FastBits..(MaxCode - 1)) /\ Cardinality(FastBits..(MaxCode - 1)) = MaxCode - FastBits
    <3>1. FastBits \in Int /\ MaxCode - 1 \in Int /\ (MaxCode - 1) - FastBits + 1 = MaxCode - FastBits
          /\ ~(FastBits > MaxCode - 1)
      BY <1>1
    <3>2. IsFiniteSet(FastBits..(MaxCode - 1))
          /\ Cardinality(FastBits..(MaxCode - 1)) = IF FastBits > MaxCode - 1 THEN 0 ELSE (MaxCode - 1) - FastBits + 1
      BY <3>1, FS_Interval
    <3> QED BY <3>1, <3>2
  <2>7. m <= MaxCode - FastBits
    <3> DEFINE A == 0..(m - 1)
               B == FastBits..(MaxCode - 1)
    <3>1. IsFiniteSet(A) /\ IsFiniteSet(B) /\ D \in [A -> B] /\ \A j, k \in A : D[j] = D[k] => j = k
      BY <2>2, <2>4, <2>5, <2>6
    <3> HIDE DEF A, B
    <3>2. Cardinality(A) <= Cardinality(B) BY <3>1, Fewer
    <3> QED BY <2>5, <2>6, <3>2 DEF A, B
  <2> QED BY <1>1, <2>1, <2>7
<1>4. N \in 1..512 BY DEF SizesOK
<1>5. \A l \in 1..MaxCode : H[l] <= Pow2[l]
  <2> SUFFICES ASSUME NEW l \in 1..MaxCode PROVE H[l] <= Pow2[l] OBVIOUS
  <2>1. l \in Nat BY <1>1
  <2> QED BY <1>2, <2>1, Pow2Type
<1>6. Roomy(E, H, N) BY <1>2, <1>3, <1>4, <1>5 DEF Roomy
<1> QED BY <1>6 DEF H

\* What the completeness check buys: every code of every table it lets
\* through can be entered, and the nodes this takes fit the tree.
LEMMA TableFits ==
  ASSUME NEW cs, NEW n, NEW N, NEW next, SizesOK(cs, n, N), Firsts(cs, n, next),
         \/ next[MaxCode + 1] = Pow2[MaxCode + 1]
         \/ Cardinality({i \in 0..(n - 1) : cs[i] # 0}) <= 1
  PROVE  LET E == CodeEnds(cs, n, next) IN
         \E H : /\ Codes(E) /\ Roomy(E, H, N)
                /\ \A l \in (FastBits + 1)..MaxCode, c \in Nat :
                     next[l] <= c /\ c < E[l] => LongCode(E, H, c, l)
<1> DEFINE E == CodeEnds(cs, n, next)
<1>1. MaxCode \in Nat /\ FastBits \in Nat /\ FastBits >= 1 /\ FastBits < MaxCode /\ n \in Nat
  BY Format DEF SizesOK
<1>2. /\ E \in [1..MaxCode -> Nat]
      /\ \A l \in 1..MaxCode : next[l + 1] = 2 * E[l]
      /\ \A l \in 1..MaxCode : E[l] = next[l] + Cardinality(WithSize(cs, n, l))
  BY EndsFacts
<1>3. ASSUME next[MaxCode + 1] = Pow2[MaxCode + 1]
      PROVE  \E H : /\ Codes(E) /\ Roomy(E, H, N)
                    /\ \A l \in (FastBits + 1)..MaxCode, c \in Nat :
                         next[l] <= c /\ c < E[l] => LongCode(E, H, c, l)
  <2> DEFINE H == [l \in 1..MaxCode |-> Pow2[l]]
  <2>1. Codes(E) BY <1>3, CompleteCodes
  <2>2. Roomy(E, H, N) BY <1>3, CompleteRoomy
  <2> HIDE DEF E
  <2>3. ASSUME NEW l \in (FastBits + 1)..MaxCode, NEW c \in Nat, next[l] <= c, c < E[l],
               NEW j \in FastBits..(l - 1)
        PROVE  E[j] <= c \div Pow2[l - j] /\ c \div Pow2[l - j] < H[j]
    <3>1. l \in 1..MaxCode /\ l - 1 \in 1..MaxCode /\ (l - 1) + 1 = l /\ j \in 1..MaxCode /\ j \in Nat
          /\ l - 1 \in j..MaxCode /\ (l - 1) - j \in Nat /\ 1 + ((l - 1) - j) = l - j /\ l - j \in Nat
          /\ (l - j) + j = l
      BY <1>1
    <3>2. next[l] = 2 * E[l - 1] /\ E[l - 1] \in Nat BY <1>2, <3>1
    <3>3. c \div 2 \in Nat /\ E[l - 1] <= c \div 2 BY <2>3, <3>2
    <3>4. E[j] <= (c \div 2) \div Pow2[(l - 1) - j] BY <2>1, <3>1, <3>3, LongPrefix
    <3>5. (c \div 2) \div Pow2[(l - 1) - j] = c \div Pow2[l - j]
      <4>1. Pow2[1] = 2
        <5>1. Pow2[0 + 1] = 2 * Pow2[0] /\ Pow2[0] = 1 BY Pow2Type
        <5> QED BY <5>1
      <4>2. 1 \in Nat OBVIOUS
      <4>3. (c \div Pow2[1]) \div Pow2[(l - 1) - j] = c \div Pow2[1 + ((l - 1) - j)] BY <3>1, <4>2, ShiftShift
      <4> QED BY <3>1, <4>1, <4>3
    <3>6. c < Pow2[(l - j) + j]
      <4>1. E[l] <= Pow2[l] /\ E[l] \in Nat BY <2>1, <3>1 DEF Codes
      <4>2. l \in Nat BY <1>1
      <4>3. Pow2[l] \in Nat BY <4>2, Pow2Type
      <4> QED BY <2>3, <3>1, <4>1, <4>3
    <3>7. c \div Pow2[l - j] < Pow2[j]
      <4> DEFINE a == l - j
      <4>1. a \in Nat /\ c < Pow2[a + j] BY <3>1, <3>6
      <4> HIDE DEF a
      <4>2. c \div Pow2[a] < Pow2[j] BY <3>1, <4>1, ShiftBelow
      <4> QED BY <4>2 DEF a
    <3>8. H[j] = Pow2[j] BY <3>1
    <3> QED BY <3>4, <3>5, <3>7, <3>8
  <2> HIDE DEF H
  <2>4. \A l \in (FastBits + 1)..MaxCode, c \in Nat : next[l] <= c /\ c < E[l] => LongCode(E, H, c, l)
    BY <2>3 DEF LongCode
  <2> QED BY <2>1, <2>2, <2>4
<1>4. ASSUME Cardinality({i \in 0..(n - 1) : cs[i] # 0}) <= 1
      PROVE  \E H : /\ Codes(E) /\ Roomy(E, H, N)
                    /\ \A l \in (FastBits + 1)..MaxCode, c \in Nat :
                         next[l] <= c /\ c < E[l] => LongCode(E, H, c, l)
  <2> DEFINE H == [l \in 1..MaxCode |-> 1]
  <2>1. /\ Codes(E)
        /\ \A l \in 1..MaxCode : Cardinality(WithSize(cs, n, l)) > 0 =>
             E[l] = 1 /\ next[l] = 0 /\ \A j \in 1..(l - 1) : E[j] = 0
    BY <1>4, SingleCodes
  <2>2. Roomy(E, H, N) BY SingleRoomy
  <2> HIDE DEF E
  <2>3. ASSUME NEW l \in (FastBits + 1)..MaxCode, NEW c \in Nat, next[l] <= c, c < E[l],
               NEW j \in FastBits..(l - 1)
        PROVE  E[j] <= c \div Pow2[l - j] /\ c \div Pow2[l - j] < H[j]
    <3>1. l \in 1..MaxCode /\ l \in 1..(MaxCode + 1) /\ j \in 1..(l - 1) /\ j \in 1..MaxCode /\ l - j \in Nat BY <1>1
    <3>2. Cardinality(WithSize(cs, n, l)) \in Nat BY <1>1, WithSizeFinite
    <3>3. next[l] \in Nat BY <3>1 DEF Firsts
    <3>4. Cardinality(WithSize(cs, n, l)) > 0 BY <1>2, <2>3, <3>1, <3>2, <3>3
    <3>5. E[l] = 1 /\ E[j] = 0 BY <2>1, <3>1, <3>4
    <3>6. c = 0 BY <2>3, <3>5
    <3>7. 0 \div Pow2[l - j] = 0
      <4>1. Pow2[l - j] \in Nat /\ Pow2[l - j] >= 1 BY <3>1, Pow2Type
      <4>2. 0 \in Nat OBVIOUS
      <4>3. 0 \div Pow2[l - j] \in Nat /\ 0 \div Pow2[l - j] <= 0 BY <4>1, <4>2, DivNat
      <4> QED BY <4>3
    <3>8. H[j] = 1 BY <3>1
    <3> QED BY <3>5, <3>6, <3>7, <3>8
  <2> HIDE DEF H
  <2>4. \A l \in (FastBits + 1)..MaxCode, c \in Nat : next[l] <= c /\ c < E[l] => LongCode(E, H, c, l)
    BY <2>3 DEF LongCode
  <2> QED BY <2>1, <2>2, <2>4
<1> QED BY <1>3, <1>4

(***************************************************************************)
(* The first codes                                                         *)
(***************************************************************************)
LEMMA NextCodeRule ==
  ASSUME NEW t, r.size[t] \in Nat
  PROVE  Firsts(r.codeSize[t], r.size[t], NextCode(t))
<1> DEFINE C(l) == TotalSyms(t, l)
           a == 1
           b == MaxCode + 1
           Rec(f) == f = [l \in a..b |-> IF l = a THEN 0 ELSE 2 * (f[l - 1] + C(l - 1))]
           f0 == CHOOSE f : Rec(f)
           G == [k \in a..b |-> Nat]
           F == [k \in a..b |-> [x \in Nat |-> 2 * (x + C(k - 1))]]
<1>1. a \in Int /\ b \in Int /\ a <= b /\ MaxCode \in Nat BY Format
<1>2. \A l : C(l) = Cardinality(WithSize(r.codeSize[t], r.size[t], l)) BY DEF TotalSyms, WithSize
<1>3. \A l : C(l) \in Nat BY <1>2, WithSizeFinite
<1>4. NextCode(t) = f0 BY DEF NextCode
<1> HIDE DEF C
<1>5. \A k \in a..b, x \in Nat : F[k][x] = 2 * (x + C(k - 1)) OBVIOUS
<1>6. \A k \in a..b : G[k] = Nat OBVIOUS
<1>7. \A k \in (a + 1)..b : k \in a..b /\ k - 1 \in a..b /\ k # a BY <1>1
<1>8. \A k \in a..b : k # a => k - 1 \in a..b BY <1>1
<1>9. a \in a..b BY <1>1
<1> HIDE DEF F, G, a, b
<1>10. 0 \in G[a] BY <1>6, <1>9
<1>11. \A k \in (a + 1)..b : \A x \in G[k - 1] : F[k][x] \in G[k] BY <1>3, <1>5, <1>6, <1>7
<1>12. PICK g : Recurs(g, a, b, 0, F) /\ \A k \in a..b : g[k] \in G[k] BY <1>1, <1>10, <1>11, RecursionIn
<1>13. Rec(g)
  <2>1. g = [k \in a..b |-> IF k = a THEN 0 ELSE F[k][g[k - 1]]] BY <1>12 DEF Recurs
  <2>2. \A k \in a..b : (IF k = a THEN 0 ELSE F[k][g[k - 1]]) = (IF k = a THEN 0 ELSE 2 * (g[k - 1] + C(k - 1)))
    BY <1>5, <1>6, <1>8, <1>12
  <2> QED BY <2>1, <2>2
<1>14. Rec(f0) BY <1>13
<1> HIDE DEF f0
<1>15. f0 = [l \in a..b |-> IF l = a THEN 0 ELSE 2 * (f0[l - 1] + C(l - 1))] BY <1>14
<1>16. \A l \in a..b : f0[l] = IF l = a THEN 0 ELSE 2 * (f0[l - 1] + C(l - 1)) BY <1>15
<1>17. \A k \in a..b : f0[k] \in Nat
  <2>1. f0[a] = 0 BY <1>9, <1>16
  <2>2. \A k \in (a + 1)..b : f0[k - 1] \in G[k - 1] => f0[k] = F[k][f0[k - 1]] BY <1>5, <1>6, <1>7, <1>16
  <2>3. f0[a] \in G[a] BY <1>10, <2>1
  <2>4. \A k \in a..b : f0[k] \in G[k] BY <1>1, <1>11, <2>2, <2>3, RecursionStays, ZenonT(60)
  <2> QED BY <1>6, <2>4
<1>18. f0 \in [a..b -> Nat] BY <1>15, <1>17
<1>19. \A l \in 1..MaxCode : f0[l + 1] = 2 * (f0[l] + C(l))
  <2> SUFFICES ASSUME NEW l \in 1..MaxCode PROVE f0[l + 1] = 2 * (f0[l] + C(l)) OBVIOUS
  <2>1. l + 1 \in a..b /\ l + 1 # a /\ (l + 1) - 1 = l BY <1>1 DEF a, b
  <2> QED BY <1>16, <2>1
<1>20. f0[1] = 0 BY <1>9, <1>16 DEF a
<1> QED BY <1>2, <1>4, <1>18, <1>19, <1>20 DEF Firsts, a, b

(***************************************************************************)
(* Decoding                                                                *)
(***************************************************************************)
\* What a finished or unfinished table always is: entries of the first level
\* are codes or nodes of depth FastBits, a node's slots hold symbols or nodes
\* one level down, and no node is as deep as the longest code.
TableOK(N, lu, tr) ==
  /\ N \in 1..512
  /\ lu \in [FirstLevel -> Int] /\ tr \in [Slots(N) -> Int]
  /\ \A i \in Slots(N) : tr[i] < N
  /\ \A i \in FirstLevel : lu[i] > 0 => \E l \in 1..FastBits, y \in 0..(N - 1) : lu[i] = l * 512 + y
  /\ \E m \in 0..N : \E D \in [0..(m - 1) -> FastBits..(MaxCode - 1)] :
       /\ \A i \in FirstLevel : lu[i] < 0 => \E k \in 0..(m - 1) : lu[i] = Node(k) /\ D[k] = FastBits
       /\ \A k \in 0..(m - 1), b \in {0, 1} : tr[2 * k + b] < 0 =>
            \E j \in 0..(m - 1) : tr[2 * k + b] = Node(j) /\ D[j] = D[k] + 1

LEMMA TrieTable ==
  ASSUME NEW E, NEW H, NEW N, Roomy(E, H, N), NEW lu, NEW tr, NEW m, NEW D, NEW P,
         Trie(E, H, N, lu, tr, m, D, P)
  PROVE  TableOK(N, lu, tr) /\ m \in 0..N
<1>0. Inner(E, H, m, D, P) BY DEF Trie
<1>1. N \in 1..512 /\ m <= N /\ m \in Nat
  <2>1. m \in Nat BY <1>0 DEF Inner
  <2>2. N \in 1..512 /\ m <= N BY <1>0 DEF Roomy
  <2> QED BY <2>1, <2>2
<1>2. m \in 0..N BY <1>1
<1>3. D \in [0..(m - 1) -> FastBits..(MaxCode - 1)] BY DEF Trie, Inner
<1>4. lu \in [FirstLevel -> Int] /\ tr \in [Slots(N) -> Int] /\ \A i \in Slots(N) : tr[i] < N
  BY DEF Trie, FirstLevelOK, SlotsOK
<1>5. \A i \in FirstLevel : lu[i] > 0 => \E l \in 1..FastBits, y \in 0..(N - 1) : lu[i] = l * 512 + y
  BY DEF Trie, FirstLevelOK
<1>6. \A i \in FirstLevel : lu[i] < 0 => \E k \in 0..(m - 1) : lu[i] = Node(k) /\ D[k] = FastBits
  BY DEF Trie, FirstLevelOK
<1>7. \A k \in 0..(m - 1), b \in {0, 1} : tr[2 * k + b] < 0 =>
            \E j \in 0..(m - 1) : tr[2 * k + b] = Node(j) /\ D[j] = D[k] + 1
  BY DEF Trie, SlotsOK
<1>8. \E n \in 0..N : \E A \in [0..(n - 1) -> FastBits..(MaxCode - 1)] :
        /\ \A i \in FirstLevel : lu[i] < 0 => \E k \in 0..(n - 1) : lu[i] = Node(k) /\ A[k] = FastBits
        /\ \A k \in 0..(n - 1), b \in {0, 1} : tr[2 * k + b] < 0 =>
             \E j \in 0..(n - 1) : tr[2 * k + b] = Node(j) /\ A[j] = A[k] + 1
  <2> WITNESS m \in 0..N
  <2> WITNESS D \in [0..(m - 1) -> FastBits..(MaxCode - 1)]
  <2> QED BY <1>6, <1>7, Zenon
<1>9. TableOK(N, lu, tr) BY <1>1, <1>4, <1>5, <1>8, Zenon DEF TableOK
<1> QED BY <1>2, <1>9

\* The empty table
LEMMA NoTable ==
  ASSUME NEW N \in 1..512
  PROVE  TableOK(N, [k \in FirstLevel |-> 0], [k \in Slots(N) |-> 0])
<1> DEFINE lu == [k \in FirstLevel |-> 0]
           tr == [k \in Slots(N) |-> 0]
           D == [k \in 0..(0 - 1) |-> FastBits]
<1>1. lu \in [FirstLevel -> Int] /\ tr \in [Slots(N) -> Int] /\ \A i \in Slots(N) : tr[i] < N OBVIOUS
<1>2. 0..(0 - 1) = {} /\ 0 \in 0..N OBVIOUS
<1>3. D \in [0..(0 - 1) -> FastBits..(MaxCode - 1)] BY <1>2
<1>4. \A i \in FirstLevel : lu[i] = 0 OBVIOUS
<1> HIDE DEF D, lu, tr
<1>5. \E m \in 0..N : \E D1 \in [0..(m - 1) -> FastBits..(MaxCode - 1)] :
       /\ \A i \in FirstLevel : lu[i] < 0 => \E k \in 0..(m - 1) : lu[i] = Node(k) /\ D1[k] = FastBits
       /\ \A k \in 0..(m - 1), b \in {0, 1} : tr[2 * k + b] < 0 =>
            \E j \in 0..(m - 1) : tr[2 * k + b] = Node(j) /\ D1[j] = D1[k] + 1
  <2>1. \A i \in FirstLevel : ~(lu[i] < 0) BY <1>4
  <2> WITNESS 0 \in 0..N
  <2> WITNESS D \in [0..(0 - 1) -> FastBits..(MaxCode - 1)]
  <2> QED BY <1>2, <2>1
<1>6. \A i \in FirstLevel : ~(lu[i] > 0) BY <1>4
<1>7. TableOK(N, lu, tr) BY <1>1, <1>5, <1>6 DEF TableOK
<1> QED BY <1>7 DEF lu, tr

\* Down the tree from a node of the first level: a node at every step, then a
\* symbol, at the longest code's length at the latest.
LEMMA WalkFacts ==
  ASSUME NEW t, NEW N, TableOK(N, r.lookUp[t], r.tree[t]), NEW bb \in Nat,
         r.lookUp[t][bb % Pow2[FastBits]] < 0
  PROVE  LET w == Walk(t, bb) IN
         /\ \A j \in (FastBits + 1)..(MaxCode + 1) : w[j] \in Int /\ w[j] < N
         /\ w[MaxCode] >= 0
<1> DEFINE lu == r.lookUp[t]
           tr == r.tree[t]
           a == FastBits
           b == MaxCode + 1
           x0 == lu[bb % Pow2[FastBits]]
           Down(j, x) == IF x >= 0 THEN x ELSE tr[-x - 1 + Bit(bb, j - 1)]
           Rec(f) == f = [j \in a..b |-> IF j = a THEN x0 ELSE Down(j, f[j - 1])]
           w == CHOOSE f : Rec(f)
<1>1. a \in Nat /\ b \in Nat /\ a < b /\ MaxCode \in Nat /\ FastBits < MaxCode /\ FastBits >= 1 BY Format
<1>2. bb % Pow2[FastBits] \in FirstLevel
  <2>1. bb % Pow2[FastBits] \in 0..(Pow2[FastBits] - 1) BY <1>1, ShiftType
  <2> QED BY <2>1 DEF FirstLevel
<1>3. x0 < 0 OBVIOUS
<1>4. Walk(t, bb) = w
  <2>1. \A f : Rec(f) <=> (f = [j \in FastBits..(MaxCode + 1) |->
          IF j = FastBits THEN r.lookUp[t][bb % Pow2[FastBits]]
          ELSE IF f[j - 1] >= 0 THEN f[j - 1]
          ELSE r.tree[t][-f[j - 1] - 1 + Bit(bb, j - 1)]])
    OBVIOUS
  <2> QED BY DEF Walk
<1>5. N \in 1..512 /\ N \in Nat /\ tr \in [Slots(N) -> Int] /\ x0 \in Int /\ \A i \in Slots(N) : tr[i] < N
  BY <1>2 DEF TableOK
<1>6. PICK m \in 0..N : \E D \in [0..(m - 1) -> FastBits..(MaxCode - 1)] :
       /\ \A i \in FirstLevel : lu[i] < 0 => \E k \in 0..(m - 1) : lu[i] = Node(k) /\ D[k] = FastBits
       /\ \A k \in 0..(m - 1), c \in {0, 1} : tr[2 * k + c] < 0 =>
            \E j \in 0..(m - 1) : tr[2 * k + c] = Node(j) /\ D[j] = D[k] + 1
  BY DEF TableOK
<1>7. PICK D \in [0..(m - 1) -> FastBits..(MaxCode - 1)] :
       /\ \A i \in FirstLevel : lu[i] < 0 => \E k \in 0..(m - 1) : lu[i] = Node(k) /\ D[k] = FastBits
       /\ \A k \in 0..(m - 1), c \in {0, 1} : tr[2 * k + c] < 0 =>
            \E j \in 0..(m - 1) : tr[2 * k + c] = Node(j) /\ D[j] = D[k] + 1
  BY <1>6
<1> DEFINE NodesAt(j) == {Node(k) : k \in {i \in 0..(m - 1) : D[i] = j}}
           G == [j \in a..b |-> NodesAt(j) \cup 0..(N - 1)]
           F == [j \in a..b |-> [x \in Int |-> Down(j, x)]]
<1>8. x0 \in NodesAt(a)
  <2>1. PICK k \in 0..(m - 1) : lu[bb % Pow2[FastBits]] = Node(k) /\ D[k] = FastBits BY <1>2, <1>3, <1>7
  <2> QED BY <2>1
<1>9. ASSUME NEW j \in (a + 1)..b, NEW x \in NodesAt(j - 1) PROVE Down(j, x) \in NodesAt(j) \cup 0..(N - 1)
  <2>1. PICK k \in 0..(m - 1) : D[k] = j - 1 /\ x = Node(k) OBVIOUS
  <2>2. j \in Nat /\ j - 1 \in Nat /\ (j - 1) + 1 = j /\ k \in Nat BY <1>1
  <2>3. Bit(bb, j - 1) \in {0, 1} BY <2>2, BitType
  <2> DEFINE c == Bit(bb, j - 1)
  <2> HIDE DEF c
  <2>4. c \in {0, 1} BY <2>3 DEF c
  <2>5. -x - 1 + c = 2 * k + c /\ x < 0 /\ x \in Int BY <2>1, <2>2, <2>4 DEF Node
  <2>6. Down(j, x) = tr[2 * k + c]
    <3>1. ~(x >= 0) BY <2>5
    <3>2. Down(j, x) = tr[-x - 1 + c] BY <3>1 DEF c
    <3> QED BY <2>5, <3>2
  <2>7. 2 * k + c \in Slots(N) BY <1>5, <2>2, <2>4 DEF Slots
  <2>8. tr[2 * k + c] \in Int /\ tr[2 * k + c] < N BY <1>5, <2>7
  <2>9. CASE tr[2 * k + c] < 0
    <3>1. PICK i \in 0..(m - 1) : tr[2 * k + c] = Node(i) /\ D[i] = D[k] + 1 BY <1>7, <2>4, <2>9
    <3>2. D[i] = j BY <2>1, <2>2, <3>1
    <3>3. Node(i) \in NodesAt(j) BY <3>2
    <3> HIDE DEF NodesAt, Down
    <3> QED BY <2>6, <3>1, <3>3
  <2>10. CASE ~(tr[2 * k + c] < 0)
    <3>1. tr[2 * k + c] \in 0..(N - 1) BY <1>5, <2>8, <2>10
    <3> HIDE DEF NodesAt, Down
    <3> QED BY <2>6, <3>1
  <2> QED BY <2>9, <2>10
<1>10. \A j \in a..b, x \in Int : F[j][x] = Down(j, x) OBVIOUS
<1>11. \A j \in a..b : G[j] = NodesAt(j) \cup 0..(N - 1) OBVIOUS
<1>12. \A j : NodesAt(j) \subseteq Int BY NodeFacts
<1>13. \A j \in (a + 1)..b : j \in a..b /\ j - 1 \in a..b /\ j # a BY <1>1
<1>14. \A j \in a..b : j # a => j - 1 \in a..b BY <1>1
<1>15. a \in a..b BY <1>1
<1>16. \A j, x : x \in 0..(N - 1) => Down(j, x) = x BY <1>5
<1>17. NodesAt(MaxCode) = {}
  <2>1. \A i \in 0..(m - 1) : D[i] \in FastBits..(MaxCode - 1) OBVIOUS
  <2>2. \A i \in 0..(m - 1) : D[i] # MaxCode BY <1>1, <2>1
  <2> QED BY <2>2
<1>18. MaxCode \in a..b /\ \A j \in (FastBits + 1)..(MaxCode + 1) : j \in (a + 1)..b BY <1>1
<1> HIDE DEF F, G, NodesAt, Down, a, b, x0, lu, tr
<1>19. 0..(N - 1) \subseteq Int OBVIOUS
<1>20. \A j \in (a + 1)..b : \A x \in G[j - 1] : F[j][x] \in G[j]
  <2> SUFFICES ASSUME NEW j \in (a + 1)..b, NEW x \in G[j - 1] PROVE F[j][x] \in G[j] OBVIOUS
  <2>1. x \in NodesAt(j - 1) \cup 0..(N - 1) BY <1>11, <1>13
  <2>2. x \in Int BY <1>12, <1>19, <2>1
  <2>3. F[j][x] = Down(j, x) BY <1>10, <1>13, <2>2
  <2>4. Down(j, x) \in NodesAt(j) \cup 0..(N - 1) BY <1>9, <1>16, <2>1
  <2> QED BY <1>11, <1>13, <2>3, <2>4
<1>21. x0 \in G[a] BY <1>8, <1>11, <1>15
<1>22. \A j \in a..b : G[j] \subseteq Int BY <1>11, <1>12, <1>19
<1>23. PICK g : Recurs(g, a, b, x0, F) /\ \A j \in a..b : g[j] \in G[j]
  <2>1. a \in Int /\ b \in Int /\ a <= b BY <1>1
  <2> QED BY <1>20, <1>21, <2>1, RecursionIn
<1>24. Rec(g)
  <2>1. g = [j \in a..b |-> IF j = a THEN x0 ELSE F[j][g[j - 1]]] BY <1>23 DEF Recurs
  <2>2. \A j \in a..b : (IF j = a THEN x0 ELSE F[j][g[j - 1]]) = (IF j = a THEN x0 ELSE Down(j, g[j - 1]))
    BY <1>10, <1>14, <1>22, <1>23
  <2> QED BY <2>1, <2>2
<1>25. Rec(w) BY <1>24
<1> HIDE DEF w
<1>26. w = [j \in a..b |-> IF j = a THEN x0 ELSE Down(j, w[j - 1])] BY <1>25
<1>27. \A j \in a..b : w[j] = IF j = a THEN x0 ELSE Down(j, w[j - 1]) BY <1>26
<1>28. \A j \in a..b : w[j] \in G[j]
  <2>1. w[a] \in G[a] BY <1>15, <1>21, <1>27
  <2>2. \A j \in (a + 1)..b : w[j - 1] \in G[j - 1] => w[j] = F[j][w[j - 1]] BY <1>10, <1>13, <1>22, <1>27
  <2>3. a \in Int /\ b \in Int BY <1>1
  <2> QED BY <1>20, <2>1, <2>2, <2>3, RecursionStays, ZenonT(60)
<1>29. w[MaxCode] >= 0
  <2>1. w[MaxCode] \in 0..(N - 1) BY <1>11, <1>17, <1>18, <1>28
  <2> QED BY <2>1
<1>30. \A j \in (FastBits + 1)..(MaxCode + 1) : w[j] \in Int /\ w[j] < N
  <2> SUFFICES ASSUME NEW j \in (FastBits + 1)..(MaxCode + 1) PROVE w[j] \in Int /\ w[j] < N OBVIOUS
  <2>1. j \in a..b BY <1>13, <1>18
  <2>2. w[j] \in NodesAt(j) \cup 0..(N - 1) BY <1>11, <1>28, <2>1
  <2>3. CASE w[j] \in 0..(N - 1) BY <1>5, <2>3
  <2>4. CASE w[j] \in NodesAt(j)
    <3>1. PICK k \in 0..(m - 1) : w[j] = Node(k) BY <2>4 DEF NodesAt
    <3>2. Node(k) < 0 /\ Node(k) \in Int BY NodeFacts
    <3> QED BY <1>5, <3>1, <3>2
  <2> QED BY <2>2, <2>3, <2>4
<1> QED BY <1>4, <1>29, <1>30

\* A decoded symbol is one of the table's; its code is no longer than the
\* longest one, nor than the bits at hand when they were found to hold it.
LEMMA DecodeFacts ==
  ASSUME NEW t, NEW N, TableOK(N, r.lookUp[t], r.tree[t]), NEW bb \in Nat
  PROVE  /\ Decode(t, bb).len \in 0..MaxCode /\ Decode(t, bb).sym \in 0..(N - 1)
         /\ bb = r.bitBuf /\ r.numBits \in Nat /\ HoldsCode(t) => Decode(t, bb).len <= r.numBits
<1> DEFINE first == r.lookUp[t][bb % Pow2[FastBits]]
           w == Walk(t, bb)
           Leaves == {j \in (FastBits + 1)..(MaxCode + 1) : w[j] >= 0}
           leaf == Least(Leaves)
<1>1. FastBits \in Nat /\ MaxCode \in Nat /\ FastBits < MaxCode /\ FastBits >= 1 BY Format
<1>2. bb % Pow2[FastBits] \in FirstLevel
  <2>1. bb % Pow2[FastBits] \in 0..(Pow2[FastBits] - 1) BY <1>1, ShiftType
  <2> QED BY <2>1 DEF FirstLevel
<1>3. first \in Int /\ N \in 1..512 BY <1>2 DEF TableOK
<1>4. first > 0 => \E l \in 1..FastBits, y \in 0..(N - 1) : first = l * 512 + y
  <2> DEFINE lu == r.lookUp[t]
             i == bb % Pow2[FastBits]
  <2>1. \A k \in FirstLevel : lu[k] > 0 => \E l \in 1..FastBits, y \in 0..(N - 1) : lu[k] = l * 512 + y
    BY DEF TableOK
  <2>2. i \in FirstLevel /\ first = lu[i] BY <1>2
  <2> HIDE DEF i, lu, first
  <2> QED BY <2>1, <2>2
<1>5. Decode(t, bb) = IF first >= 0 THEN [len |-> first \div 512, sym |-> first % 512]
                                    ELSE [len |-> leaf, sym |-> w[leaf]]
  BY DEF Decode
<1>6. bb = r.bitBuf => (HoldsCode(t) <=> IF first >= 0 THEN first \div 512 # 0 /\ r.numBits >= first \div 512
            ELSE \E j \in (FastBits + 1)..r.numBits : w[Smaller(j, MaxCode + 1)] >= 0)
  BY DEF HoldsCode
<1>7. CASE first >= 0
  <2> HIDE DEF first, w, Leaves, leaf
  <2>1. Decode(t, bb).len = first \div 512 /\ Decode(t, bb).sym = first % 512 BY <1>5, <1>7
  <2>2. first \div 512 \in 0..MaxCode /\ first % 512 \in 0..(N - 1)
    <3>1. CASE first = 0 BY <1>1, <1>3, <3>1
    <3>2. CASE first > 0
      <4>1. PICK l \in 1..FastBits, y \in 0..(N - 1) : first = l * 512 + y BY <1>4, <3>2
      <4>2. l \in Nat /\ y \in 0..511 BY <1>1, <1>3
      <4>3. first \div 512 = l /\ first % 512 = y BY <4>1, <4>2
      <4> QED BY <1>1, <4>1, <4>3
    <3> QED BY <1>3, <1>7, <3>1, <3>2
  <2>3. bb = r.bitBuf /\ r.numBits \in Nat /\ HoldsCode(t) => first \div 512 <= r.numBits BY <1>6, <1>7, <2>2
  <2> QED BY <2>1, <2>2, <2>3
<1>8. CASE first < 0
  <2>1. \A j \in (FastBits + 1)..(MaxCode + 1) : w[j] \in Int /\ w[j] < N BY <1>8, WalkFacts
  <2>2. w[MaxCode] >= 0 BY <1>8, WalkFacts
  <2> HIDE DEF first, w
  <2>3. MaxCode \in Leaves BY <1>1, <2>2
  <2>4. Leaves \in SUBSET Nat /\ Leaves # {} BY <1>1, <2>3
  <2>5. leaf \in Leaves /\ \A j \in Leaves : leaf <= j
    <3> HIDE DEF Leaves
    <3>1. \E x \in Leaves : \A y \in Leaves : x <= y BY <2>4, LeastNumber
    <3> QED BY <3>1 DEF Least
  <2> HIDE DEF leaf
  <2>6. leaf \in 0..MaxCode /\ w[leaf] \in 0..(N - 1)
    <3>1. leaf <= MaxCode /\ leaf \in (FastBits + 1)..(MaxCode + 1) /\ w[leaf] >= 0 BY <2>3, <2>5
    <3>2. w[leaf] \in Int /\ w[leaf] < N BY <2>1, <3>1
    <3> QED BY <1>1, <1>3, <3>1, <3>2
  <2>7. ~(first >= 0) BY <1>3, <1>8
  <2>8. Decode(t, bb).len = leaf /\ Decode(t, bb).sym = w[leaf] BY <1>5, <2>7
  <2>9. ASSUME bb = r.bitBuf, r.numBits \in Nat, HoldsCode(t) PROVE leaf <= r.numBits
    <3>1. PICK j \in (FastBits + 1)..r.numBits : w[Smaller(j, MaxCode + 1)] >= 0 BY <1>6, <2>7, <2>9
    <3>2. Smaller(j, MaxCode + 1) \in (FastBits + 1)..(MaxCode + 1) /\ Smaller(j, MaxCode + 1) <= j
      BY <1>1, <2>9 DEF Smaller
    <3>3. Smaller(j, MaxCode + 1) \in Leaves BY <3>1, <3>2
    <3>4. leaf <= Smaller(j, MaxCode + 1) BY <2>5, <3>3
    <3> QED BY <1>1, <2>6, <2>9, <3>2, <3>4
  <2> QED BY <2>6, <2>8, <2>9
<1> QED BY <1>3, <1>7, <1>8

(***************************************************************************)
(* Building a table                                                        *)
(***************************************************************************)
\* The symbols from sym on whose code has l bits.
Left(cs, sym, n, l) == {i \in sym..(n - 1) : cs[i] = l}

\* Symbols below sym are in the table, and the next code of every length is
\* the one that leaves room for those still to come.
Waiting(cs, n, sym, next, E, H) ==
  /\ \A l \in 1..MaxCode : next[l] + Cardinality(Left(cs, sym, n, l)) = E[l]
  /\ \A l \in (FastBits + 1)..MaxCode, c \in Nat : next[l] <= c /\ c < E[l] => LongCode(E, H, c, l)

Entering(cs, n, N, sym, next, lu, tr, tn) ==
  \E E, H, m, D, P :
    /\ Codes(E) /\ Roomy(E, H, N) /\ Trie(E, H, N, lu, tr, m, D, P) /\ tn = Node(m)
    /\ Waiting(cs, n, sym, next, E, H)

LEMMA LeftFinite ==
  ASSUME NEW cs, NEW sym \in Int, NEW n \in Int, NEW l
  PROVE  IsFiniteSet(Left(cs, sym, n, l)) /\ Cardinality(Left(cs, sym, n, l)) \in Nat
<1>1. n - 1 \in Int OBVIOUS
<1>2. IsFiniteSet(sym..(n - 1)) BY <1>1, FS_Interval
<1>3. Left(cs, sym, n, l) \in SUBSET (sym..(n - 1)) BY DEF Left
<1>4. IsFiniteSet(Left(cs, sym, n, l)) BY <1>2, <1>3, FS_Subset
<1> QED BY <1>4, FS_CardinalityType

LEMMA LeftNext ==
  ASSUME NEW cs, NEW n \in Nat, NEW sym \in 0..(n - 1)
  PROVE  /\ Cardinality(Left(cs, sym, n, cs[sym])) = Cardinality(Left(cs, sym + 1, n, cs[sym])) + 1
         /\ \A l : l # cs[sym] => Left(cs, sym, n, l) = Left(cs, sym + 1, n, l)
<1>1. sym..(n - 1) = {sym} \cup ((sym + 1)..(n - 1)) /\ sym \notin (sym + 1)..(n - 1) OBVIOUS
<1>2. \A l : l # cs[sym] => Left(cs, sym, n, l) = Left(cs, sym + 1, n, l) BY <1>1 DEF Left
<1> DEFINE T == Left(cs, sym + 1, n, cs[sym])
<1>3. Left(cs, sym, n, cs[sym]) = T \cup {sym} BY <1>1 DEF Left
<1>4. sym \notin T BY <1>1 DEF Left
<1>5. IsFiniteSet(T) BY LeftFinite
<1> HIDE DEF T
<1>6. Cardinality(T \cup {sym}) = Cardinality(T) + 1 BY <1>4, <1>5, FS_AddElement
<1> QED BY <1>2, <1>3, <1>6 DEF T

\* tinfl_clear_tree: nothing entered yet.
LEMMA BuildEntering ==
  ASSUME NEW cs, NEW n, NEW N, NEW next, SizesOK(cs, n, N), Firsts(cs, n, next),
         \/ next[MaxCode + 1] = Pow2[MaxCode + 1]
         \/ Cardinality({i \in 0..(n - 1) : cs[i] # 0}) <= 1
  PROVE  Entering(cs, n, N, 0, next, [k \in FirstLevel |-> 0], [k \in Slots(N) |-> 0], -1)
<1> DEFINE E == CodeEnds(cs, n, next)
           lu == [k \in FirstLevel |-> 0]
           tr == [k \in Slots(N) |-> 0]
           D == [k \in 0..(0 - 1) |-> FastBits]
           P == [k \in 0..(0 - 1) |-> 0]
<1>1. PICK H : /\ Codes(E) /\ Roomy(E, H, N)
               /\ \A l \in (FastBits + 1)..MaxCode, c \in Nat : next[l] <= c /\ c < E[l] => LongCode(E, H, c, l)
  BY TableFits
<1>2. \A l \in 1..MaxCode : E[l] = next[l] + Cardinality(WithSize(cs, n, l)) BY EndsFacts
<1>3. \A l : Left(cs, 0, n, l) = WithSize(cs, n, l) BY DEF Left, WithSize
<1>4. 0..(0 - 1) = {} /\ 0 \in Nat /\ N \in Nat /\ N >= 1 BY DEF SizesOK
<1>5. lu \in [FirstLevel -> Int] /\ tr \in [Slots(N) -> Int] /\ (\A i \in FirstLevel : lu[i] = 0)
      /\ \A i \in Slots(N) : tr[i] = 0 /\ tr[i] < N
  BY <1>4
<1>6. Inner(E, H, 0, D, P)
  <2>1. D \in [0..(0 - 1) -> FastBits..(MaxCode - 1)] /\ P \in [0..(0 - 1) -> Nat] BY <1>4
  <2> HIDE DEF D, P, E
  <2> QED BY <1>4, <2>1 DEF Inner
<1> HIDE DEF D, P, E, lu, tr
<1>7. FirstLevelOK(E, N, lu, 0, D, P)
  <2>1. \A i \in FirstLevel : ~(lu[i] < 0) /\ ~(lu[i] > 0) BY <1>5
  <2> QED BY <1>5, <2>1 DEF FirstLevelOK
<1>8. SlotsOK(E, N, tr, 0, D, P) BY <1>4, <1>5 DEF SlotsOK
<1>9. Linked(lu, tr, 0, D, P) BY <1>4 DEF Linked
<1>10. Trie(E, H, N, lu, tr, 0, D, P) BY <1>6, <1>7, <1>8, <1>9 DEF Trie
<1>11. Node(0) = -1 BY DEF Node
<1>12. Waiting(cs, n, 0, next, E, H) BY <1>1, <1>2, <1>3 DEF Waiting
<1>13. Entering(cs, n, N, 0, next, lu, tr, -1) BY <1>1, <1>10, <1>11, <1>12 DEF Entering
<1> QED BY <1>13 DEF lu, tr

LEMMA EnteringTable ==
  ASSUME NEW cs, NEW n, NEW N, NEW sym, NEW next, NEW lu, NEW tr, NEW tn,
         Entering(cs, n, N, sym, next, lu, tr, tn)
  PROVE  TableOK(N, lu, tr) /\ -tn \in 1..(2 * N + 1)
<1>1. PICK E, H, m, D, P :
        Codes(E) /\ Roomy(E, H, N) /\ Trie(E, H, N, lu, tr, m, D, P) /\ tn = Node(m)
  BY DEF Entering
<1>2. TableOK(N, lu, tr) /\ m \in 0..N BY <1>1, TrieTable
<1>3. N \in 1..512 BY <1>2 DEF TableOK
<1>4. -tn \in 1..(2 * N + 1) BY <1>1, <1>2, <1>3 DEF Node
<1> QED BY <1>2, <1>4

\* The next symbol has no code.
LEMMA EnterNone ==
  ASSUME NEW cs, NEW n \in Nat, NEW N, NEW sym \in 0..(n - 1), NEW next, NEW lu, NEW tr, NEW tn,
         Entering(cs, n, N, sym, next, lu, tr, tn), cs[sym] = 0
  PROVE  Entering(cs, n, N, sym + 1, next, lu, tr, tn)
<1>1. \A l \in 1..MaxCode : Left(cs, sym, n, l) = Left(cs, sym + 1, n, l)
  <2>1. \A l \in 1..MaxCode : l # cs[sym] OBVIOUS
  <2> QED BY <2>1, LeftNext
<1>2. PICK E, H, m, D, P :
    /\ Codes(E) /\ Roomy(E, H, N) /\ Trie(E, H, N, lu, tr, m, D, P) /\ tn = Node(m)
    /\ Waiting(cs, n, sym, next, E, H)
  BY DEF Entering
<1>3. Waiting(cs, n, sym + 1, next, E, H) BY <1>1, <1>2 DEF Waiting
<1> QED BY <1>2, <1>3 DEF Entering

\* The code of a symbol lies below the end of its length, and the rest holds
\* with the next number.
LEMMA CodeTaken ==
  ASSUME NEW cs, NEW n \in Nat, NEW sym \in 0..(n - 1), NEW next \in [1..(MaxCode + 1) -> Nat],
         NEW nx,
         NEW E, Codes(E), NEW H, NEW l \in 1..MaxCode, cs[sym] = l, nx = [next EXCEPT ![l] = @ + 1],
         Waiting(cs, n, sym, next, E, H)
  PROVE  /\ next[l] \in Nat /\ next[l] < E[l]
         /\ l > FastBits => LongCode(E, H, next[l], l)
         /\ Waiting(cs, n, sym + 1, nx, E, H)
<1>0. /\ \A j \in 1..MaxCode : next[j] + Cardinality(Left(cs, sym, n, j)) = E[j]
      /\ \A j \in (FastBits + 1)..MaxCode, c \in Nat : next[j] <= c /\ c < E[j] => LongCode(E, H, c, j)
  BY DEF Waiting
<1>1. MaxCode \in Nat /\ FastBits \in Nat /\ FastBits >= 1 BY Format
<1>2. \A j \in 1..MaxCode : j \in 1..(MaxCode + 1) /\ next[j] \in Nat BY <1>1
<1>3. \A j \in 1..MaxCode : nx[j] = IF j = l THEN next[j] + 1 ELSE next[j] BY <1>2
<1>4. \A j : Cardinality(Left(cs, sym, n, j)) \in Nat /\ Cardinality(Left(cs, sym + 1, n, j)) \in Nat
  BY LeftFinite
<1>5. Cardinality(Left(cs, sym, n, l)) = Cardinality(Left(cs, sym + 1, n, l)) + 1 BY LeftNext
<1>6. \A j \in 1..MaxCode : j # l => Left(cs, sym, n, j) = Left(cs, sym + 1, n, j) BY LeftNext
<1>7. next[l] \in Nat /\ next[l] < E[l] BY <1>0, <1>2, <1>4, <1>5
<1>8. l > FastBits => LongCode(E, H, next[l], l)
  <2>1. l > FastBits => l \in (FastBits + 1)..MaxCode BY <1>1
  <2>2. next[l] <= next[l] BY <1>7
  <2> QED BY <1>0, <1>7, <2>1, <2>2
<1>9. \A j \in 1..MaxCode : nx[j] + Cardinality(Left(cs, sym + 1, n, j)) = E[j]
  <2> SUFFICES ASSUME NEW j \in 1..MaxCode PROVE nx[j] + Cardinality(Left(cs, sym + 1, n, j)) = E[j] OBVIOUS
  <2>1. CASE j = l BY <1>0, <1>2, <1>3, <1>4, <1>5, <2>1
  <2>2. CASE j # l BY <1>0, <1>3, <1>6, <2>2
  <2> QED BY <2>1, <2>2
<1>10. \A j \in (FastBits + 1)..MaxCode, c \in Nat : nx[j] <= c /\ c < E[j] => LongCode(E, H, c, j)
  <2> SUFFICES ASSUME NEW j \in (FastBits + 1)..MaxCode, NEW c \in Nat, nx[j] <= c, c < E[j]
               PROVE  LongCode(E, H, c, j)
    OBVIOUS
  <2>1. j \in 1..MaxCode BY <1>1
  <2>2. next[j] <= c BY <1>2, <1>3, <2>1
  <2> QED BY <1>0, <2>2
<1> QED BY <1>7, <1>8, <1>9, <1>10 DEF Waiting

\* A short code
LEMMA EnterShort ==
  ASSUME NEW cs, NEW n \in Nat, NEW N, n <= N, NEW sym \in 0..(n - 1), NEW next \in [1..(MaxCode + 1) -> Nat],
         NEW lu, NEW tr, NEW tn, Entering(cs, n, N, sym, next, lu, tr, tn),
         NEW l \in 1..FastBits, cs[sym] = l
  PROVE  Entering(cs, n, N, sym + 1, [next EXCEPT ![l] = @ + 1],
                  FillLookUp(lu, RevCode(next[l], l), l, sym), tr, tn)
<1> DEFINE nx == [next EXCEPT ![l] = @ + 1]
           lu2 == FillLookUp(lu, RevCode(next[l], l), l, sym)
<1>1. l \in 1..MaxCode BY Format
<1>2. PICK E, H, m, D, P :
    /\ Codes(E) /\ Roomy(E, H, N) /\ Trie(E, H, N, lu, tr, m, D, P) /\ tn = Node(m)
    /\ Waiting(cs, n, sym, next, E, H)
  BY DEF Entering
<1>3. /\ next[l] \in Nat /\ next[l] < E[l]
      /\ Waiting(cs, n, sym + 1, nx, E, H)
  BY <1>1, <1>2, CodeTaken
<1>4. next[l] \in 0..(E[l] - 1)
  <2>1. E[l] \in Nat BY <1>1, <1>2 DEF Codes
  <2> QED BY <1>3, <2>1
<1>5. sym \in 0..(N - 1)
  <2>1. N \in Nat BY <1>2 DEF Roomy
  <2> QED BY <2>1
<1>6. Trie(E, H, N, lu2, tr, m, D, P) BY <1>2, <1>4, <1>5, FillShort
<1> HIDE DEF nx, lu2
<1>7. Entering(cs, n, N, sym + 1, nx, lu2, tr, tn) BY <1>2, <1>3, <1>6 DEF Entering
<1> QED BY <1>7 DEF nx, lu2

\* A long code
LEMMA EnterLong ==
  ASSUME NEW cs, NEW n \in Nat, NEW N, n <= N, r.sym \in 0..(n - 1), NEW next \in [1..(MaxCode + 1) -> Nat],
         NEW lu, NEW tr, NEW tn, Entering(cs, n, N, r.sym, next, lu, tr, tn),
         NEW l \in (FastBits + 1)..MaxCode, cs[r.sym] = l
  PROVE  LET rev == RevCode(next[l], l)
             low == rev % Pow2[FastBits]
             fresh == lu[low] = 0
             grown == GrowPath(tr, IF fresh THEN tn ELSE lu[low], IF fresh THEN tn - 2 ELSE tn, rev, l)
         IN  /\ low \in FirstLevel
             /\ Entering(cs, n, N, r.sym + 1, [next EXCEPT ![l] = @ + 1],
                         [lu EXCEPT ![low] = IF fresh THEN tn ELSE @], grown.tree, grown.treeNext)
<1> DEFINE nx == [next EXCEPT ![l] = @ + 1]
           c == next[l]
           p == c \div Pow2[l - FastBits]
           rev == RevCode(c, l)
           low == rev % Pow2[FastBits]
           fresh == lu[low] = 0
           lu2 == [lu EXCEPT ![low] = IF fresh THEN tn ELSE @]
           grown == GrowPath(tr, IF fresh THEN tn ELSE lu[low], IF fresh THEN tn - 2 ELSE tn, rev, l)
           sym == r.sym
<1>1. l \in 1..MaxCode /\ l \in Nat /\ FastBits \in Nat /\ FastBits \in 0..l /\ l > FastBits /\ l - FastBits \in Nat
      /\ FastBits \in FastBits..(l - 1)
  BY Format
<1>2. PICK E, H, m, D, P :
    /\ Codes(E) /\ Roomy(E, H, N) /\ Trie(E, H, N, lu, tr, m, D, P) /\ tn = Node(m)
    /\ Waiting(cs, n, sym, next, E, H)
  BY DEF Entering
<1>3. /\ c \in Nat /\ LongCode(E, H, c, l)
      /\ Waiting(cs, n, sym + 1, nx, E, H)
  <2> HIDE DEF sym
  <2>1. sym \in 0..(n - 1) /\ cs[sym] = l BY DEF sym
  <2> QED BY <1>1, <1>2, <2>1, CodeTaken
<1>4. sym \in 0..(N - 1)
  <2>1. N \in Nat BY <1>2 DEF Roomy
  <2> QED BY <2>1
<1>5. low = RevCode(p, FastBits) BY <1>1, <1>3, RevPrefix
<1>6. p \in Nat BY <1>1, <1>3, ShiftType
<1>7. E[FastBits] <= p /\ p < H[FastBits] BY <1>1, <1>3 DEF LongCode
<1> HIDE DEF c, p, rev, nx, low
<1>8. /\ low \in FirstLevel /\ lu[low] <= 0 /\ lu[low] \in Int
      /\ lu[low] < 0 => \E k \in 0..(m - 1) : lu[low] = Node(k) /\ D[k] = FastBits /\ P[k] = p
  BY <1>2, <1>5, <1>6, <1>7, RootOf
<1>9. m \in Nat BY <1>2 DEF Trie, Inner
<1>10. lu \in [FirstLevel -> Int] BY <1>2 DEF Trie, FirstLevelOK
<1>11. CASE fresh
  <2> DEFINE D2 == Longer(D, m, FastBits)
             P2 == Longer(P, m, p)
  <2>1. lu2 = [lu EXCEPT ![low] = Node(m)] BY <1>2, <1>11
  <2>2. Trie(E, H, N, lu2, tr, m + 1, D2, P2)
    <3>1. lu[RevCode(p, FastBits)] = 0 BY <1>5, <1>11
    <3>2. Trie(E, H, N, [lu EXCEPT ![RevCode(p, FastBits)] = Node(m)], tr, m + 1, D2, P2)
      BY <1>2, <1>6, <1>7, <3>1, FreshRoot
    <3> QED BY <1>5, <2>1, <3>2
  <2>3. D2[m] = FastBits /\ P2[m] = p /\ m \in 0..((m + 1) - 1)
    <3>1. m \in 0..((m + 1) - 1) BY <1>9
    <3>2. m \in 0..m BY <1>9
    <3>3. D2[m] = FastBits /\ P2[m] = p BY <3>2 DEF Longer
    <3> QED BY <3>1, <3>3
  <2>4. tn - 2 = Node(m + 1) BY <1>2, <1>9 DEF Node
  <2>5. grown = GrowPath(tr, Node(m), Node(m + 1), rev, l) BY <1>2, <1>11, <2>4
  <2> HIDE DEF D2, P2, lu2, grown, fresh
  <2>6. P2[m] = c \div Pow2[l - FastBits] BY <2>3 DEF p
  <2>7. \E m2, D3, P3 : Trie(E, H, N, lu2, grown.tree, m2, D3, P3) /\ grown.treeNext = Node(m2)
    <3>1. rev = RevCode(c, l) BY DEF rev
    <3> QED BY <1>2, <1>3, <1>4, <2>2, <2>3, <2>5, <2>6, <3>1, GrowPathKeeps
  <2>8. Entering(cs, n, N, sym + 1, nx, lu2, grown.tree, grown.treeNext) BY <1>2, <1>3, <2>7 DEF Entering
  <2> QED BY <1>8, <2>8 DEF lu2, grown, fresh, nx, low, rev, c
<1>12. CASE ~fresh
  <2>1. lu2 = lu BY <1>10, <1>12
  <2>2. PICK k \in 0..(m - 1) : lu[low] = Node(k) /\ D[k] = FastBits /\ P[k] = p BY <1>8, <1>12
  <2>3. grown = GrowPath(tr, Node(k), Node(m), rev, l) BY <1>2, <1>12, <2>2
  <2> HIDE DEF lu2, grown, fresh
  <2>4. P[k] = c \div Pow2[l - FastBits] BY <2>2 DEF p
  <2>5. \E m2, D3, P3 : Trie(E, H, N, lu, grown.tree, m2, D3, P3) /\ grown.treeNext = Node(m2)
    <3>1. rev = RevCode(c, l) BY DEF rev
    <3> QED BY <1>2, <1>3, <1>4, <2>2, <2>3, <2>4, <3>1, GrowPathKeeps
  <2>6. Entering(cs, n, N, sym + 1, nx, lu2, grown.tree, grown.treeNext) BY <1>2, <1>3, <2>1, <2>5 DEF Entering
  <2> QED BY <1>8, <2>6 DEF lu2, grown, fresh, nx, low, rev, c
<1> QED BY <1>11, <1>12

(***************************************************************************)
(* The coroutine's record                                                  *)
(***************************************************************************)
Fields == {"state", "numBits", "bitBuf", "fill", "final", "type", "raw", "size", "codeSize", "lenCodes",
           "lookUp", "tree", "next", "sym", "treeNext", "counter", "dist", "numExtra", "ofs"}
IsRec(d) == DOMAIN d = Fields /\ d = [x \in Fields |-> d[x]]

\* The bits at hand, in a buffer of 64 bits
Width == 2 * MaxCode + 4 * ByteBits - 1
BitsOK(d) ==
  /\ d.numBits \in Nat /\ d.numBits <= Width
  /\ d.bitBuf \in Nat /\ d.bitBuf < Pow2[d.numBits]

\* The arrays and the tables
ArraysOK(d) ==
  /\ d.size \in [0..2 -> Nat] /\ \A t \in 0..2 : d.size[t] <= NumSyms[t + 1]
  /\ d.codeSize = [t \in 0..2 |-> d.codeSize[t]]
  /\ \A t \in 0..2 : d.codeSize[t] \in [0..(NumSyms[t + 1] - 1) -> 0..MaxCode]
  /\ d.lenCodes \in [0..(MaxLens - 1) -> 0..MaxCode]
  /\ d.next \in [1..(MaxCode + 1) -> Nat]
TablesOK(d) ==
  /\ d.lookUp = [t \in 0..2 |-> d.lookUp[t]] /\ d.tree = [t \in 0..2 |-> d.tree[t]]
  /\ \A t \in 0..2 : TableOK(NumSyms[t + 1], d.lookUp[t], d.tree[t])
NumbersOK(d) ==
  /\ d.fill \in BOOLEAN /\ d.final \in Nat /\ d.raw \in Seq(Nat) /\ d.sym \in Nat
  /\ d.counter \in Nat /\ d.dist \in Nat /\ d.numExtra \in 0..MaxCode /\ d.ofs \in Int

\* What holds at one point of the coroutine only
PointOK(d) ==
  /\ d.state = "sizes" => d.type = 2 /\ d.counter \in 0..2
  /\ d.state = "clen" => d.type = 2 /\ d.counter < d.size[2]
  /\ d.state \in {"build", "insert"} => d.type \in 0..2
  /\ d.state = "insert" =>
       /\ d.sym <= d.size[d.type]
       /\ Entering(d.codeSize[d.type], d.size[d.type], NumSyms[d.type + 1], d.sym, d.next,
                   d.lookUp[d.type], d.tree[d.type], d.treeNext)
  /\ d.state \in {"rle", "rleExtra"} => d.counter < d.size[0] + d.size[1] \/ d.counter = 0
  /\ d.state = "rleExtra" => d.dist \in (MaxCode + 1)..(MaxCode + 3) /\ (d.dist = MaxCode + 1 => d.counter >= 1)
  /\ d.state = "lensDone" => d.counter <= MaxLens
  /\ d.state \in {"rawHeader", "rawBits", "rawOut"} => d.numBits % ByteBits = 0
  /\ d.state = "rawHeader" => Len(d.raw) <= 3
  /\ d.state = "rawOut" => d.counter >= 1 /\ d.dist \in Byte
  /\ d.state = "match" => d.counter \in EOB..(NumSyms[1] - 1)
  /\ d.state = "litOut" => d.counter \in Byte

CoOK(d) == IsRec(d) /\ d.state \in States /\ BitsOK(d) /\ ArraysOK(d) /\ TablesOK(d) /\ NumbersOK(d) /\ PointOK(d)

\* Two records with the same arrays and tables
SameArrays(d, e) ==
  /\ e.size = d.size /\ e.codeSize = d.codeSize /\ e.lenCodes = d.lenCodes /\ e.next = d.next
  /\ e.lookUp = d.lookUp /\ e.tree = d.tree

LEMMA SameArraysOK ==
  ASSUME NEW d, NEW e, SameArrays(d, e), ArraysOK(d), TablesOK(d)
  PROVE  ArraysOK(e) /\ TablesOK(e)
<1>1. ArraysOK(e) BY DEF SameArrays, ArraysOK
<1>2. TablesOK(e) BY DEF SameArrays, TablesOK
<1> QED BY <1>1, <1>2

\* y digits of base a above x
LEMMA Digits ==
  ASSUME NEW a \in Nat, NEW b \in Nat, NEW x \in Nat, NEW y \in Nat, x < a, y < b
  PROVE  x + y * a \in Nat /\ x + y * a < a * b
<1>1. y * a \in Nat /\ (y + 1) * a = y * a + a OBVIOUS
<1>2. (y + 1) * a <= b * a /\ b * a = a * b /\ a * b \in Nat
  <2>1. b - (y + 1) \in Nat OBVIOUS
  <2>2. (b - (y + 1)) * a \in Nat BY <2>1
  <2>3. b * a = (y + 1) * a + (b - (y + 1)) * a OBVIOUS
  <2> QED BY <1>1, <2>2, <2>3
<1> QED BY <1>1, <1>2

LEMMA DropOK ==
  ASSUME NEW d, IsRec(d), BitsOK(d), NEW n \in 0..d.numBits
  PROVE  /\ IsRec(Drop(d, n)) /\ BitsOK(Drop(d, n)) /\ SameArrays(d, Drop(d, n))
         /\ Drop(d, n).numBits = d.numBits - n
         /\ \A x \in Fields \ {"numBits", "bitBuf"} : Drop(d, n)[x] = d[x]
<1> DEFINE e == Drop(d, n)
<1>1. e = [d EXCEPT !.bitBuf = d.bitBuf \div Pow2[n], !.numBits = d.numBits - n] BY DEF Drop
<1> HIDE DEF e
<1>2. e.numBits = d.numBits - n /\ e.bitBuf = d.bitBuf \div Pow2[n] /\ IsRec(e) BY <1>1 DEF IsRec, Fields
<1>3. SameArrays(d, e) BY <1>1 DEF IsRec, Fields, SameArrays
<1>4. \A x \in Fields \ {"numBits", "bitBuf"} : e[x] = d[x] BY <1>1 DEF IsRec, Fields
<1>5. d.numBits \in Nat /\ d.bitBuf \in Nat /\ d.numBits <= Width /\ d.bitBuf < Pow2[d.numBits] BY DEF BitsOK
<1>6. n \in Nat /\ d.numBits - n \in Nat /\ n + (d.numBits - n) = d.numBits BY <1>5
<1>7. e.bitBuf \in Nat BY <1>2, <1>5, <1>6, ShiftType
<1>8. e.bitBuf < Pow2[e.numBits]
  <2> DEFINE b == d.numBits - n
  <2>1. b \in Nat /\ d.bitBuf < Pow2[n + b] BY <1>5, <1>6
  <2> HIDE DEF b
  <2>2. d.bitBuf \div Pow2[n] < Pow2[b] BY <1>5, <1>6, <2>1, ShiftBelow
  <2> QED BY <1>2, <2>2 DEF b
<1>9. e.numBits \in Nat /\ e.numBits <= Width
  <2>1. Width \in Int BY Format DEF Width
  <2> QED BY <1>2, <1>5, <1>6, <2>1
<1>10. BitsOK(e) BY <1>7, <1>8, <1>9 DEF BitsOK
<1> QED BY <1>2, <1>3, <1>4, <1>10 DEF e

LEMMA AppendOK ==
  ASSUME NEW d, IsRec(d), BitsOK(d), NEW n \in Nat, pos \in Nat, pos + n <= Len(stream), stream \in Seq(Byte),
         d.numBits + ByteBits * n <= Width
  PROVE  /\ IsRec(Append8(d, n)) /\ BitsOK(Append8(d, n)) /\ SameArrays(d, Append8(d, n))
         /\ Append8(d, n).numBits = d.numBits + ByteBits * n
         /\ \A x \in Fields \ {"numBits", "bitBuf"} : Append8(d, n)[x] = d[x]
<1> DEFINE e == Append8(d, n)
           Put(k, x) == x + stream[pos + k] * Pow2[ByteBits * (k - 1)]
           Rec(f) == f = [k \in 0..n |-> IF k = 0 THEN 0 ELSE Put(k, f[k - 1])]
           word == CHOOSE f : Rec(f)
           G == [k \in 0..n |-> 0..(Pow2[ByteBits * k] - 1)]
           F == [k \in 0..n |-> [x \in Nat |-> Put(k, x)]]
<1>1. e = [d EXCEPT !.bitBuf = d.bitBuf + word[n] * Pow2[d.numBits], !.numBits = d.numBits + ByteBits * n]
  BY DEF Append8
<1>2. ByteBits \in Nat /\ d.numBits \in Nat /\ d.bitBuf \in Nat /\ d.bitBuf < Pow2[d.numBits] BY Format DEF BitsOK
<1>3. \A k \in 0..n : k \in Nat /\ ByteBits * k \in Nat BY <1>2
<1>4. \A k \in 0..n : Pow2[ByteBits * k] \in Nat /\ Pow2[ByteBits * k] >= 1 BY <1>3, Pow2Type
<1>5. ASSUME NEW k \in 1..n, NEW x \in 0..(Pow2[ByteBits * (k - 1)] - 1)
      PROVE  Put(k, x) \in 0..(Pow2[ByteBits * k] - 1)
  <2> DEFINE a == Pow2[ByteBits * (k - 1)]
             b == Pow2[ByteBits]
             y == stream[pos + k]
  <2>1. k - 1 \in 0..n /\ k \in 0..n /\ pos + k \in 1..Len(stream) OBVIOUS
  <2>2. a \in Nat /\ b \in Nat BY <1>4, <2>1, Format
  <2>3. y \in Byte BY <2>1
  <2>4. y \in Nat /\ y < b BY <2>2, <2>3 DEF Byte
  <2>5. Pow2[ByteBits * k] = a * b
    <3> DEFINE u == ByteBits * (k - 1)
    <3>1. u \in Nat /\ u + ByteBits = ByteBits * k BY <1>2, <1>3, <2>1
    <3> HIDE DEF u
    <3>2. Pow2[u + ByteBits] = Pow2[u] * Pow2[ByteBits] BY <1>2, <3>1, Pow2Sum
    <3> QED BY <3>1, <3>2 DEF u
  <2>6. x \in Nat /\ x < a BY <2>2
  <2> HIDE DEF a, b, y
  <2>7. x + y * a \in Nat /\ x + y * a < a * b BY <2>2, <2>4, <2>6, Digits
  <2>8. a * b \in Nat BY <2>2
  <2>9. x + y * a \in 0..(a * b - 1) BY <2>7, <2>8
  <2> QED BY <2>5, <2>9 DEF a, y
<1>6. \A k \in 0..n, x \in Nat : F[k][x] = Put(k, x) OBVIOUS
<1>7. \A k \in 0..n : G[k] = 0..(Pow2[ByteBits * k] - 1) OBVIOUS
<1>8. \A k \in 0..n : G[k] \subseteq Nat OBVIOUS
<1>9. \A k \in (0 + 1)..n : k \in 0..n /\ k \in 1..n /\ k - 1 \in 0..n /\ k # 0 OBVIOUS
<1>10. \A k \in 0..n : k # 0 => k - 1 \in 0..n OBVIOUS
<1>11. 0 \in 0..n /\ n \in 0..n /\ 0 \in Int /\ n \in Int /\ 0 <= n OBVIOUS
<1> HIDE DEF F, G, Put
<1>12. 0 \in G[0] BY <1>4, <1>7, <1>11
<1>13. \A k \in (0 + 1)..n : \A x \in G[k - 1] : F[k][x] \in G[k]
  <2> SUFFICES ASSUME NEW k \in (0 + 1)..n, NEW x \in G[k - 1] PROVE F[k][x] \in G[k] OBVIOUS
  <2>1. x \in 0..(Pow2[ByteBits * (k - 1)] - 1) /\ x \in Nat BY <1>7, <1>8, <1>9
  <2>2. k \in 0..n /\ k \in 1..n BY <1>9
  <2>3. F[k][x] = Put(k, x) BY <1>6, <2>1, <2>2
  <2>4. G[k] = 0..(Pow2[ByteBits * k] - 1) BY <1>7, <2>2
  <2>5. Put(k, x) \in 0..(Pow2[ByteBits * k] - 1) BY <1>5, <2>1, <2>2
  <2> QED BY <2>3, <2>4, <2>5
<1>14. PICK g : Recurs(g, 0, n, 0, F) /\ \A k \in 0..n : g[k] \in G[k] BY <1>11, <1>12, <1>13, RecursionIn
<1>15. Rec(g)
  <2>1. g = [k \in 0..n |-> IF k = 0 THEN 0 ELSE F[k][g[k - 1]]] BY <1>14 DEF Recurs
  <2>2. \A k \in 0..n : (IF k = 0 THEN 0 ELSE F[k][g[k - 1]]) = (IF k = 0 THEN 0 ELSE Put(k, g[k - 1]))
    BY <1>6, <1>8, <1>10, <1>14
  <2> QED BY <2>1, <2>2
<1>16. Rec(word) BY <1>15
<1> HIDE DEF word, e
<1>17. word = [k \in 0..n |-> IF k = 0 THEN 0 ELSE Put(k, word[k - 1])] BY <1>16
<1>18. \A k \in 0..n : word[k] = IF k = 0 THEN 0 ELSE Put(k, word[k - 1]) BY <1>17
<1>19. word[n] \in 0..(Pow2[ByteBits * n] - 1)
  <2>1. word[0] \in G[0] BY <1>11, <1>12, <1>18
  <2>2. \A k \in (0 + 1)..n : word[k - 1] \in G[k - 1] => word[k] = F[k][word[k - 1]]
    BY <1>6, <1>8, <1>9, <1>18
  <2>3. \A k \in 0..n : word[k] \in G[k] BY <1>11, <1>13, <2>1, <2>2, RecursionStays, ZenonT(60)
  <2> QED BY <1>7, <1>11, <2>3
<1>20. e.numBits = d.numBits + ByteBits * n /\ e.bitBuf = d.bitBuf + word[n] * Pow2[d.numBits] /\ IsRec(e)
  BY <1>1 DEF IsRec, Fields
<1>21. SameArrays(d, e) BY <1>1 DEF IsRec, Fields, SameArrays
<1>22. \A x \in Fields \ {"numBits", "bitBuf"} : e[x] = d[x] BY <1>1 DEF IsRec, Fields
<1>23. BitsOK(e)
  <2> DEFINE a == Pow2[d.numBits]
             b == Pow2[ByteBits * n]
             c == ByteBits * n
  <2>1. a \in Nat /\ b \in Nat /\ c \in Nat BY <1>2, <1>3, <1>4, <1>11, Pow2Type
  <2>2. word[n] \in Nat /\ word[n] < b BY <1>19, <2>1
  <2>3. e.bitBuf \in Nat /\ e.bitBuf < a * b
    <3> DEFINE x == d.bitBuf
               y == word[n]
    <3>1. x \in Nat /\ x < a /\ y \in Nat /\ y < b BY <1>2, <2>2
    <3>2. e.bitBuf = x + y * a BY <1>20
    <3> HIDE DEF a, b, x, y
    <3>3. x + y * a \in Nat /\ x + y * a < a * b BY <2>1, <3>1, Digits
    <3> QED BY <3>2, <3>3
  <2>4. e.numBits = d.numBits + c BY <1>20
  <2>5. Pow2[d.numBits + c] = a * b
    <3> HIDE DEF c
    <3>1. b = Pow2[c] BY DEF c
    <3> HIDE DEF b
    <3> QED BY <1>2, <2>1, <3>1, Pow2Sum
  <2>6. e.numBits \in Nat /\ e.numBits <= Width BY <1>2, <1>20, <2>1
  <2> HIDE DEF a, b, c
  <2> QED BY <2>3, <2>4, <2>5, <2>6 DEF BitsOK
<1> QED BY <1>20, <1>21, <1>22, <1>23 DEF e

(***************************************************************************)
(* What holds between two steps of the coroutine                           *)
(***************************************************************************)
InOK ==
  /\ stream \in Seq(Byte) /\ inBeg \in Nat /\ pos \in Nat /\ inEnd \in Nat
  /\ inBeg <= pos /\ pos <= inEnd /\ inEnd <= Len(stream)

\* A copy of a match stands at the output's end, its source inside the buffer.
CopyOK(d, cur, w) == d.state = "copy" /\ ~w => d.ofs = cur /\ d.dist \in 1..cur
OutOK ==
  /\ wrap \in BOOLEAN /\ buf \in Seq(Byte) /\ outBeg \in Nat /\ outCur \in Nat
  /\ outBeg <= outCur /\ outCur <= Len(buf) /\ (wrap => Len(buf) >= 1)

CoInv == CoOK(r) /\ InOK /\ OutOK /\ CopyOK(r, outCur, wrap)

\* What no step of the coroutine touches, and what a call may return
Statuses == {"needs_more_input", "cannot_make_progress", "has_more_output", "failed", "done"}
Frame ==
  /\ stream' = stream /\ inBeg' = inBeg /\ inEnd' = inEnd /\ moreInput' = moreInput
  /\ wrap' = wrap /\ outBeg' = outBeg /\ Len(buf') = Len(buf) /\ status = "running"
  /\ status' \in Statuses \cup {"running"}

Kept == CoOK(r') /\ InOK' /\ OutOK' /\ CopyOK(r', outCur', wrap') /\ Frame

LEMMA StepKeeps ==
  ASSUME CoInv, status = "running", NEW d, CoOK(d), CopyOK(d, outCur, wrap), Step(d)
  PROVE  Kept
<1>1. r' = d /\ UNCHANGED <<stream, inBeg, inEnd, moreInput, pos, wrap, buf, outBeg, outCur, status>>
  BY DEF Step, inVars, outVars
<1>2. CoOK(r') BY <1>1
<1>3. InOK' BY <1>1 DEF CoInv, InOK
<1>4. OutOK' BY <1>1 DEF CoInv, OutOK
<1>5. CopyOK(r', outCur', wrap') BY <1>1
<1>6. Frame BY <1>1 DEF Frame
<1> QED BY <1>2, <1>3, <1>4, <1>5, <1>6 DEF Kept

LEMMA WriteKeeps ==
  ASSUME CoInv, status = "running", NEW d, CoOK(d), NEW b \in Byte, outCur < outEnd,
         CopyOK(d, outCur + 1, wrap), Write(d, b)
  PROVE  Kept
<1>1. /\ r' = d /\ buf' = [buf EXCEPT ![outCur + 1] = b] /\ outCur' = outCur + 1
      /\ UNCHANGED <<stream, inBeg, inEnd, moreInput, pos, wrap, outBeg, status>>
  BY DEF Write, inVars, outVars
<1>2. CoOK(r') BY <1>1
<1>3. InOK' BY <1>1 DEF CoInv, InOK
<1>4. buf \in Seq(Byte) /\ outCur \in Nat /\ outCur < Len(buf) BY DEF CoInv, OutOK, outEnd
<1>5. buf' \in Seq(Byte) /\ Len(buf') = Len(buf) BY <1>1, <1>4
<1>6. OutOK' BY <1>1, <1>4, <1>5 DEF CoInv, OutOK
<1>7. CopyOK(r', outCur', wrap') BY <1>1
<1>8. Frame BY <1>1, <1>5 DEF Frame
<1> QED BY <1>2, <1>3, <1>6, <1>7, <1>8 DEF Kept

\* What PointOK says of every point but the numbers of the bit buffer
LEMMA FewerBits ==
  ASSUME NEW d, CoOK(d), NEW e, IsRec(e), BitsOK(e), SameArrays(d, e),
         \A x \in Fields \ {"numBits", "bitBuf"} : e[x] = d[x],
         d.numBits % ByteBits = 0 => e.numBits % ByteBits = 0
  PROVE  CoOK(e)
<1>1. ArraysOK(e) /\ TablesOK(e) BY SameArraysOK DEF CoOK
<1>2. /\ e.state = d.state /\ e.fill = d.fill /\ e.final = d.final /\ e.type = d.type /\ e.raw = d.raw
      /\ e.size = d.size /\ e.codeSize = d.codeSize /\ e.lookUp = d.lookUp /\ e.tree = d.tree /\ e.next = d.next
      /\ e.sym = d.sym /\ e.treeNext = d.treeNext /\ e.counter = d.counter /\ e.dist = d.dist
      /\ e.numExtra = d.numExtra /\ e.ofs = d.ofs
  BY DEF Fields
<1>3. NumbersOK(e) BY <1>2 DEF CoOK, NumbersOK
<1>4. PointOK(e) BY <1>2 DEF CoOK, PointOK
<1> QED BY <1>1, <1>2, <1>3, <1>4 DEF CoOK

LEMMA ReturnKeeps ==
  ASSUME CoInv, status = "running", NEW d, CoOK(d), CopyOK(d, outCur, wrap), NEW p \in pos..inEnd,
         NEW st \in Statuses, ReturnAt(p, d, st)
  PROVE  Kept
<1> DEFINE back == PutBack(p, d, st)
           left == d.numBits - back * ByteBits
           e == [d EXCEPT !.numBits = left, !.bitBuf = d.bitBuf % Pow2[left]]
<1>1. /\ r' = e /\ pos' = p - back /\ status' = st
      /\ UNCHANGED <<stream, inBeg, inEnd, moreInput, wrap, buf, outBeg, outCur>>
  BY DEF ReturnAt, inVars, outVars
<1>2. /\ inBeg \in Nat /\ pos \in Nat /\ inEnd \in Nat /\ inBeg <= pos /\ pos <= inEnd /\ p \in Int
      /\ pos <= p /\ p <= inEnd
  BY DEF CoInv, InOK
<1>3. IsRec(d) /\ BitsOK(d) BY DEF CoOK
<1>4. d.numBits \in Nat /\ d.bitBuf \in Nat /\ d.numBits <= Width /\ ByteBits \in Nat /\ ByteBits >= 1
  BY <1>3, Format DEF BitsOK
<1>5. back \in Nat /\ back <= p - inBeg /\ back <= d.numBits \div ByteBits
  <2>1. d.numBits \div ByteBits \in Nat BY <1>4, DivNat
  <2> QED BY <1>2, <2>1 DEF PutBack, Smaller
<1> HIDE DEF back
<1>6. back * ByteBits \in Nat /\ back * ByteBits <= d.numBits
  <2> DEFINE q == d.numBits \div ByteBits
             s == d.numBits % ByteBits
             n == d.numBits
  <2>1. q \in Nat /\ s \in Nat BY <1>4, DivNat
  <2>2. n = q * ByteBits + s
    <3>1. n \in Int BY <1>4
    <3> HIDE DEF n
    <3>2. n = (n \div ByteBits) * ByteBits + (n % ByteBits) BY <1>4, <3>1, DivMod
    <3> QED BY <3>2 DEF n
  <2>3. n \in Nat /\ q - back \in Nat BY <1>4, <1>5, <2>1
  <2> HIDE DEF q, s, n
  <2>4. (q - back) * ByteBits \in Nat BY <1>4, <2>3
  <2>5. (q - back) * ByteBits = q * ByteBits - back * ByteBits BY <1>4, <1>5, <2>1
  <2>6. back * ByteBits \in Nat /\ q * ByteBits \in Nat BY <1>4, <1>5, <2>1
  <2>7. back * ByteBits <= n BY <2>1, <2>2, <2>3, <2>4, <2>5, <2>6
  <2> QED BY <2>6, <2>7 DEF n
<1>7. left \in Nat /\ left <= d.numBits BY <1>4, <1>6
<1>8. d.numBits % ByteBits = 0 => left % ByteBits = 0
  <2> SUFFICES ASSUME d.numBits % ByteBits = 0 PROVE left % ByteBits = 0 OBVIOUS
  <2> DEFINE q == d.numBits \div ByteBits
             n == d.numBits
  <2>1. q \in Nat BY <1>4, DivNat
  <2>2. n = q * ByteBits + 0
    <3>1. n \in Int /\ n % ByteBits = 0 BY <1>4
    <3> HIDE DEF n
    <3>2. n = (n \div ByteBits) * ByteBits + (n % ByteBits) BY <1>4, <3>1, DivMod
    <3> QED BY <3>1, <3>2 DEF n
  <2>3. n \in Nat /\ q - back \in Int BY <1>4, <1>5, <2>1
  <2>5. left = n - back * ByteBits OBVIOUS
  <2> HIDE DEF q, n, left
  <2>6. left = (q - back) * ByteBits + 0 BY <1>4, <1>5, <2>1, <2>2, <2>5
  <2>7. 0 \in 0..(ByteBits - 1) BY <1>4
  <2>8. ((q - back) * ByteBits + 0) % ByteBits = 0 BY <1>4, <2>3, <2>7, DivUnique
  <2> QED BY <2>6, <2>8
<1>9. d.bitBuf % Pow2[left] \in 0..(Pow2[left] - 1) /\ Pow2[left] \in Nat BY <1>4, <1>7, ShiftType, Pow2Type
<1> HIDE DEF left, e
<1>10. IsRec(e) /\ e.numBits = left /\ e.bitBuf = d.bitBuf % Pow2[left] BY <1>3 DEF e, IsRec, Fields
<1>11. SameArrays(d, e) BY <1>3 DEF e, SameArrays, IsRec, Fields
<1>12. \A x \in Fields \ {"numBits", "bitBuf"} : e[x] = d[x] BY <1>3 DEF e, IsRec, Fields
<1>13. BitsOK(e)
  <2>1. Width \in Int BY Format DEF Width
  <2> QED BY <1>4, <1>7, <1>9, <1>10, <2>1 DEF BitsOK
<1>14. CoOK(e) BY <1>8, <1>10, <1>11, <1>12, <1>13, FewerBits
<1>15. CoOK(r') BY <1>1, <1>14
<1>16. InOK' BY <1>1, <1>2, <1>5 DEF CoInv, InOK
<1>17. OutOK' BY <1>1 DEF CoInv, OutOK
<1>18. e.state = d.state /\ e.ofs = d.ofs /\ e.dist = d.dist BY <1>12 DEF Fields
<1>19. CopyOK(r', outCur', wrap') BY <1>1, <1>18 DEF CopyOK
<1>20. Frame BY <1>1 DEF Frame
<1> QED BY <1>15, <1>16, <1>17, <1>19, <1>20 DEF Kept

(***************************************************************************)
(* The format's numbers                                                    *)
(***************************************************************************)
LEMMA Tables ==
  /\ \A t \in 1..3 : NumSyms[t] \in 1..512
  /\ NumSyms[3] <= MaxCode + 4
  /\ \A t \in 1..3 : MaxCode - FastBits <= NumSyms[t]
  /\ \A t \in 1..2 : FixedSizes[t] \in [1..NumSyms[t] -> 0..MaxCode]
  /\ \A t \in 1..3 : SizeBits[t] \in 0..MaxCode /\ MinSizes[t] \in Nat /\ MinSizes[t] >= 1
  /\ \A t \in 1..3 : MinSizes[t] + Pow2[SizeBits[t]] - 1 <= NumSyms[t]
  /\ \A k \in 1..NumSyms[3] : Dezigzag[k] \in 0..(NumSyms[3] - 1)
<1>1. NumSyms \in [1..3 -> 1..512] BY FormatAssumption
<1>2. NumSyms[3] <= MaxCode + 4 /\ \A t \in 1..3 : MaxCode - FastBits <= NumSyms[t] BY FormatAssumption
<1>3. \A t \in 1..2 : FixedSizes[t] \in [1..NumSyms[t] -> 0..MaxCode] BY FormatAssumption
<1>4. SizeBits \in [1..3 -> 0..MaxCode] /\ MinSizes \in [1..3 -> Nat \ {0}] BY FormatAssumption
<1>5. \A t \in 1..3 : MinSizes[t] + Pow2[SizeBits[t]] - 1 <= NumSyms[t] BY FormatAssumption
<1>6. Dezigzag \in [1..NumSyms[3] -> 0..(NumSyms[3] - 1)] BY FormatAssumption
<1>7. \A t \in 1..3 : SizeBits[t] \in 0..MaxCode /\ MinSizes[t] \in Nat /\ MinSizes[t] >= 1 BY <1>4
<1> QED BY <1>1, <1>2, <1>3, <1>5, <1>6, <1>7

LEMMA Repeats ==
  /\ \A i \in 1..3 : RepBits[i] \in 0..MaxCode /\ RepBase[i] \in Nat /\ RepBase[i] >= 1
  /\ \A i \in 1..3 : RepBase[i] + Pow2[RepBits[i]] <= RepBase[3] + Pow2[RepBits[3]]
  /\ MaxLens \in Nat /\ MaxLens >= NumSyms[1] + NumSyms[2]
  /\ \A i \in 1..3 : NumSyms[1] + NumSyms[2] - 1 + (RepBase[i] + Pow2[RepBits[i]] - 1) <= MaxLens
<1>1. \A i \in 1..3 : RepBits[i] \in 0..MaxCode /\ RepBase[i] \in Nat /\ RepBase[i] >= 1
  <2>1. RepBits \in [1..3 -> 0..MaxCode] /\ RepBase \in [1..3 -> Nat \ {0}] BY FormatAssumption
  <2> QED BY <2>1
<1>2. \A i \in 1..3 : RepBase[i] + Pow2[RepBits[i]] <= RepBase[3] + Pow2[RepBits[3]] BY FormatAssumption
<1>3. \A i \in 1..3 : Pow2[RepBits[i]] \in Nat /\ Pow2[RepBits[i]] >= 1
  <2>1. \A i \in 1..3 : RepBits[i] \in Nat BY <1>1, Format
  <2> QED BY <2>1, Pow2Type
<1>4. NumSyms[1] \in 1..512 /\ NumSyms[2] \in 1..512 BY Tables
<1>5. MaxLens = NumSyms[1] + NumSyms[2] + RepBase[3] + Pow2[RepBits[3]] - 2 BY DEF MaxLens
<1>6. MaxLens \in Nat /\ MaxLens >= NumSyms[1] + NumSyms[2]
  <2>1. RepBase[3] \in Nat /\ RepBase[3] >= 1 /\ Pow2[RepBits[3]] \in Nat /\ Pow2[RepBits[3]] >= 1 BY <1>1, <1>3
  <2>2. \A n1, n2 \in 1..512, b, p \in Nat : b >= 1 /\ p >= 1 =>
          n1 + n2 + b + p - 2 \in Nat /\ n1 + n2 + b + p - 2 >= n1 + n2
    OBVIOUS
  <2>3. /\ NumSyms[1] + NumSyms[2] + RepBase[3] + Pow2[RepBits[3]] - 2 \in Nat
        /\ NumSyms[1] + NumSyms[2] + RepBase[3] + Pow2[RepBits[3]] - 2 >= NumSyms[1] + NumSyms[2]
    BY <1>4, <2>1, <2>2
  <2> QED BY <1>5, <2>3
<1>7. ASSUME NEW i \in 1..3
      PROVE  NumSyms[1] + NumSyms[2] - 1 + (RepBase[i] + Pow2[RepBits[i]] - 1) <= MaxLens
  <2>1. RepBase[3] \in Nat /\ RepBase[i] \in Nat /\ Pow2[RepBits[3]] \in Nat /\ Pow2[RepBits[i]] \in Nat
    BY <1>1, <1>3
  <2>2. RepBase[i] + Pow2[RepBits[i]] <= RepBase[3] + Pow2[RepBits[3]] BY <1>2
  <2>3. \A n1, n2 \in 1..512, b, p, b3, p3 \in Nat : b + p <= b3 + p3 =>
          n1 + n2 - 1 + (b + p - 1) <= n1 + n2 + b3 + p3 - 2
    OBVIOUS
  <2>4. NumSyms[1] + NumSyms[2] - 1 + (RepBase[i] + Pow2[RepBits[i]] - 1)
          <= NumSyms[1] + NumSyms[2] + RepBase[3] + Pow2[RepBits[3]] - 2
    BY <1>4, <2>1, <2>2, <2>3
  <2> QED BY <1>5, <2>4
<1> QED BY <1>1, <1>2, <1>6, <1>7

LEMMA Matches ==
  /\ \A k \in 1..(NumSyms[1] - 1 - EOB) : LenBase[k] \in Nat /\ LenExtra[k] \in 0..MaxCode
  /\ \A k \in 1..NumSyms[2] : DistBase[k] \in Nat /\ DistExtra[k] \in 0..MaxCode
BY FormatAssumption DEF EOB

\* A number is below the power of two it is the exponent of.
LEMMA BelowPow2 == \A n \in Nat : n < Pow2[n]
<1> SUFFICES ASSUME NEW n \in Nat PROVE n < Pow2[n] OBVIOUS
<1> DEFINE S == {k \in Nat : k < Pow2[k]}
<1>1. 0 \in S BY Pow2Type
<1>2. ASSUME NEW k \in 0..(n - 1), k \in S PROVE k + 1 \in S
  <2>1. Pow2[k + 1] = 2 * Pow2[k] /\ Pow2[k] \in Nat BY Pow2Type
  <2> QED BY <1>2, <2>1
<1>3. 0 \in Int /\ n \in Int OBVIOUS
<1> HIDE DEF S
<1>4. \A k \in 0..n : k \in S BY <1>1, <1>2, <1>3, Reaches
<1> QED BY <1>4 DEF S

LEMMA CodeLengths == ClBits <= MaxCode /\ \A x \in 0..(Pow2[ClBits] - 1) : x \in 0..MaxCode
<1>1. ClBits \in Nat /\ MaxCode \in Nat BY Format
<1>2. Pow2[ClBits] <= MaxCode + 1 BY FormatAssumption
<1>3. ClBits < Pow2[ClBits] /\ Pow2[ClBits] \in Nat BY <1>1, BelowPow2, Pow2Type
<1> QED BY <1>1, <1>2, <1>3

LEMMA BitsOfFacts ==
  ASSUME CoOK(r), NEW n \in Nat
  PROVE  BitsOf(n) \in 0..(Pow2[n] - 1) /\ BitsOf(n) \in Nat /\ Pow2[n] \in Nat
<1>1. r.bitBuf \in Nat BY DEF CoOK, BitsOK
<1>2. Pow2[n] \in Nat BY Pow2Type
<1>3. r.bitBuf % Pow2[n] \in 0..(Pow2[n] - 1) BY <1>1, ShiftType
<1>4. BitsOf(n) \in 0..(Pow2[n] - 1) BY <1>3 DEF BitsOf
<1> QED BY <1>2, <1>4

\* A point of the code that reads bits asks for no more than fit.
LEMMA NeedFacts ==
  ASSUME CoOK(r), r.state \in BitStates
  PROVE  Need \in Nat /\ Need <= 2 * MaxCode + 3 * ByteBits
<1>1. MaxCode \in Nat /\ MaxCode >= 2 /\ ByteBits \in Nat /\ ByteBits >= 1 /\ ClBits \in Nat /\ ClBits <= MaxCode
  BY Format, CodeLengths
<1>2. CASE r.state = "sizes"
  <2>1. r.counter \in 0..2 BY <1>2 DEF CoOK, PointOK
  <2>2. r.counter + 1 \in 1..3 BY <2>1
  <2>3. SizeBits[r.counter + 1] \in 0..MaxCode BY <2>2, Tables
  <2> QED BY <1>1, <1>2, <2>3 DEF Need
<1>3. CASE r.state = "rleExtra"
  <2>1. r.dist \in (MaxCode + 1)..(MaxCode + 3) BY <1>3 DEF CoOK, PointOK
  <2>2. r.dist - MaxCode \in 1..3 BY <1>1, <2>1
  <2>3. RepBits[r.dist - MaxCode] \in 0..MaxCode BY <2>2, Repeats
  <2> QED BY <1>1, <1>3, <2>3 DEF Need
<1>4. CASE r.state \in {"lenExtra", "distExtra"}
  <2>1. r.numExtra \in 0..MaxCode BY DEF CoOK, NumbersOK
  <2> QED BY <1>1, <1>4, <2>1 DEF Need
<1>5. CASE r.state \in {"header", "clen", "rawHeader"} BY <1>1, <1>5 DEF Need
<1> QED BY <1>2, <1>3, <1>4, <1>5 DEF BitStates

(***************************************************************************)
(* One lemma for every step                                                *)
(***************************************************************************)
\* Bytes of input go into the bit buffer.
LEMMA AppendKeeps ==
  ASSUME CoInv, NEW n \in Nat, pos + n <= inEnd, r.numBits + ByteBits * n <= Width
  PROVE  CoOK(Append8(r, n)) /\ Append8(r, n).state = r.state /\ Append8(r, n).numBits = r.numBits + ByteBits * n
         /\ Append8(r, n).ofs = r.ofs /\ Append8(r, n).dist = r.dist
<1> DEFINE e == Append8(r, n)
<1>1. IsRec(r) /\ BitsOK(r) BY DEF CoInv, CoOK
<1>2. pos \in Nat /\ pos + n <= Len(stream) /\ stream \in Seq(Byte) BY DEF CoInv, InOK
<1>3. /\ IsRec(e) /\ BitsOK(e) /\ SameArrays(r, e) /\ e.numBits = r.numBits + ByteBits * n
      /\ \A x \in Fields \ {"numBits", "bitBuf"} : e[x] = r[x]
  BY <1>1, <1>2, AppendOK
<1> HIDE DEF e
<1>4. r.numBits % ByteBits = 0 => e.numBits % ByteBits = 0
  <2> SUFFICES ASSUME r.numBits % ByteBits = 0 PROVE e.numBits % ByteBits = 0 OBVIOUS
  <2> DEFINE x == r.numBits
             q == x \div ByteBits
  <2>1. x \in Nat /\ x \in Int /\ x % ByteBits = 0 /\ ByteBits \in Nat /\ ByteBits >= 1 BY <1>1, Format DEF BitsOK
  <2>2. e.numBits = x + ByteBits * n BY <1>3
  <2> HIDE DEF x
  <2>3. x = q * ByteBits + (x % ByteBits) /\ q \in Int BY <2>1, DivMod
  <2> HIDE DEF q
  <2>4. e.numBits = (q + n) * ByteBits + 0 BY <2>1, <2>2, <2>3
  <2>5. q + n \in Int /\ 0 \in 0..(ByteBits - 1) BY <2>1, <2>3
  <2>6. ((q + n) * ByteBits + 0) % ByteBits = 0 BY <2>1, <2>5, DivUnique
  <2> QED BY <2>4, <2>6
<1>5. CoOK(e) BY <1>3, <1>4, FewerBits DEF CoInv
<1>6. e.state = r.state /\ e.ofs = r.ofs /\ e.dist = r.dist BY <1>3 DEF Fields
<1> QED BY <1>3, <1>5, <1>6 DEF e

LEMMA ReadKeeps ==
  ASSUME CoInv, status = "running", NEW n \in Nat, pos + n <= inEnd, r.numBits + ByteBits * n <= Width,
         r' = Append8(r, n), pos' = pos + n, UNCHANGED <<inVars, outVars, status>>
  PROVE  Kept
<1>1. UNCHANGED <<stream, inBeg, inEnd, moreInput, wrap, buf, outBeg, outCur, status>> BY DEF inVars, outVars
<1>2. /\ CoOK(r') /\ r'.state = r.state /\ r'.ofs = r.ofs /\ r'.dist = r.dist BY AppendKeeps
<1>3. InOK' BY <1>1 DEF CoInv, InOK
<1>4. OutOK' BY <1>1 DEF CoInv, OutOK
<1>5. CopyOK(r', outCur', wrap') BY <1>1, <1>2 DEF CoInv, CopyOK
<1>6. Frame BY <1>1 DEF Frame
<1> QED BY <1>2, <1>3, <1>4, <1>5, <1>6 DEF Kept

LEMMA GetByteKeeps == ASSUME CoInv, GetByte PROVE Kept
<1>1. /\ status = "running" /\ WantsByte /\ pos < inEnd /\ r' = Append8(r, 1) /\ pos' = pos + 1
      /\ UNCHANGED <<inVars, outVars, status>>
  BY DEF GetByte
<1>2. MaxCode \in Nat /\ ByteBits \in Nat /\ ByteBits >= 1 BY Format
<1>3. r.numBits \in Nat /\ pos \in Nat /\ inEnd \in Nat BY DEF CoInv, InOK, CoOK, BitsOK
<1>4. r.numBits < 2 * MaxCode + 3 * ByteBits
  <2>1. CASE r.state \in BitStates /\ r.numBits < Need
    <3>1. Need \in Nat /\ Need <= 2 * MaxCode + 3 * ByteBits BY <2>1, NeedFacts DEF CoInv
    <3> QED BY <1>2, <1>3, <2>1, <3>1
  <2>2. CASE r.numBits < MaxCode BY <1>2, <1>3, <2>2
  <2> QED BY <1>1, <2>1, <2>2 DEF WantsByte
<1>5. r.numBits + ByteBits * 1 <= Width BY <1>2, <1>3, <1>4 DEF Width
<1>6. 1 \in Nat /\ pos + 1 <= inEnd BY <1>1, <1>3
<1> HIDE DEF CoInv
<1> QED BY <1>1, <1>5, <1>6, ReadKeeps

LEMMA InputEndsKeeps == ASSUME CoInv, InputEnds PROVE Kept
<1> DEFINE st == IF moreInput THEN "needs_more_input" ELSE "cannot_make_progress"
<1>1. status = "running" /\ ReturnAt(pos, r, st) BY DEF InputEnds, ReturnInput, Return
<1>2. CoOK(r) /\ CopyOK(r, outCur, wrap) /\ pos \in pos..inEnd BY DEF CoInv, InOK
<1>3. st \in Statuses BY DEF Statuses
<1> HIDE DEF st
<1> QED BY <1>1, <1>2, <1>3, ReturnKeeps

LEMMA HuffEnterKeeps == ASSUME CoInv, HuffEnter PROVE Kept
<1>1. status = "running" /\ r.state \in DOMAIN HuffTable /\ r.numBits < MaxCode BY DEF HuffEnter
<1>2. MaxCode \in Nat /\ ByteBits \in Nat /\ ByteBits >= 1 BY Format
<1>3. r.numBits \in Nat /\ pos \in Nat /\ inEnd \in Nat BY DEF CoInv, InOK, CoOK, BitsOK
<1>4. CASE inEnd - pos < 2
  <2> DEFINE d == [r EXCEPT !.fill = TRUE]
  <2>1. Step(d) BY <1>4 DEF HuffEnter
  <2>2. IsRec(r) /\ BitsOK(r) /\ r.state \in States /\ ArraysOK(r) /\ TablesOK(r) /\ NumbersOK(r) /\ PointOK(r)
    BY DEF CoInv, CoOK
  <2>3. IsRec(d) /\ d.fill = TRUE /\ \A x \in Fields \ {"fill"} : d[x] = r[x] BY <2>2 DEF IsRec, Fields
  <2> HIDE DEF d
  <2>4. CoOK(d) /\ d.state = r.state
    <3>1. SameArrays(r, d) BY <2>3 DEF SameArrays, Fields
    <3>2. ArraysOK(d) /\ TablesOK(d) BY <2>2, <3>1, SameArraysOK
    <3>3. BitsOK(d) BY <2>2, <2>3 DEF BitsOK, Fields
    <3>4. NumbersOK(d) BY <2>2, <2>3 DEF NumbersOK, Fields
    <3>5. d.state = r.state /\ d.counter = r.counter /\ d.size = r.size BY <2>3 DEF Fields
    <3>6. PointOK(d) BY <1>1, <2>2, <3>5 DEF PointOK, HuffTable
    <3> QED BY <2>2, <2>3, <3>2, <3>3, <3>4, <3>5, <3>6 DEF CoOK
  <2>5. CopyOK(d, outCur, wrap) BY <1>1, <2>4 DEF CopyOK, HuffTable
  <2> QED BY <1>1, <2>1, <2>4, <2>5, StepKeeps
<1>5. CASE ~(inEnd - pos < 2)
  <2>1. r' = Append8(r, 2) /\ pos' = pos + 2 /\ UNCHANGED <<inVars, outVars, status>> BY <1>5 DEF HuffEnter
  <2>2. 2 \in Nat /\ pos + 2 <= inEnd BY <1>3, <1>5
  <2>3. r.numBits + ByteBits * 2 <= Width BY <1>1, <1>2, <1>3 DEF Width
  <2> QED BY <1>1, <2>1, <2>2, <2>3, ReadKeeps
<1> QED BY <1>4, <1>5

LEMMA PointChange ==
  ASSUME NEW d, ArraysOK(d), TablesOK(d), NEW e, IsRec(e), SameArrays(d, e), e.state \in States, BitsOK(e),
         NumbersOK(e), PointOK(e)
  PROVE  CoOK(e)
<1>1. ArraysOK(e) /\ TablesOK(e) BY SameArraysOK
<1> QED BY <1>1 DEF CoOK

\* n bits taken from the buffer, which holds them
LEMMA TakeBits ==
  ASSUME CoOK(r), NEW n \in Nat, n <= r.numBits
  PROVE  /\ IsRec(Drop(r, n)) /\ BitsOK(Drop(r, n)) /\ SameArrays(r, Drop(r, n)) /\ NumbersOK(Drop(r, n))
         /\ Drop(r, n).numBits = r.numBits - n
         /\ \A x \in Fields \ {"numBits", "bitBuf"} : Drop(r, n)[x] = r[x]
<1> DEFINE e == Drop(r, n)
<1>1. IsRec(r) /\ BitsOK(r) /\ NumbersOK(r) BY DEF CoOK
<1>2. n \in 0..r.numBits BY <1>1 DEF BitsOK
<1>3. /\ IsRec(e) /\ BitsOK(e) /\ SameArrays(r, e) /\ e.numBits = r.numBits - n
      /\ \A x \in Fields \ {"numBits", "bitBuf"} : e[x] = r[x]
  BY <1>1, <1>2, DropOK
<1> HIDE DEF e
<1>4. NumbersOK(e) BY <1>1, <1>3 DEF NumbersOK, Fields
<1> QED BY <1>3, <1>4 DEF e

LEMMA FailKeeps ==
  ASSUME CoInv, status = "running", NEW p \in pos..inEnd, NEW d, IsRec(d), BitsOK(d), ArraysOK(d), TablesOK(d),
         NumbersOK(d), ReturnAt(p, [d EXCEPT !.state = "failed"], "failed")
  PROVE  Kept
<1> DEFINE e == [d EXCEPT !.state = "failed"]
<1>1. IsRec(e) /\ e.state = "failed" /\ \A x \in Fields \ {"state"} : e[x] = d[x] BY DEF IsRec, Fields
<1>2. ReturnAt(p, e, "failed") OBVIOUS
<1> HIDE DEF e
<1>3. SameArrays(d, e) BY <1>1 DEF SameArrays, Fields
<1>4. BitsOK(e) BY <1>1 DEF BitsOK, Fields
<1>5. NumbersOK(e) BY <1>1 DEF NumbersOK, Fields
<1>6. PointOK(e) BY <1>1 DEF PointOK
<1>7. e.state \in States BY <1>1 DEF States
<1>8. CoOK(e) BY <1>1, <1>3, <1>4, <1>5, <1>6, <1>7, PointChange
<1>9. CopyOK(e, outCur, wrap) BY <1>1 DEF CopyOK
<1>10. "failed" \in Statuses BY DEF Statuses
<1> QED BY <1>2, <1>8, <1>9, <1>10, ReturnKeeps

LEMMA HeaderKeeps == ASSUME CoInv, Header PROVE Kept
<1> DEFINE f == BitsOf(3)
           D == Drop(r, 3)
           d == [D EXCEPT !.final = f, !.type = f \div 2, !.counter = 0]
<1>1. status = "running" /\ r.state = "header" /\ r.numBits >= Need BY DEF Header, HasBits, Running
<1>2. r.numBits >= 3 BY <1>1 DEF Need
<1>3. CoOK(r) /\ ArraysOK(r) /\ TablesOK(r) BY DEF CoInv, CoOK
<1>4. f \in Nat BY <1>3, BitsOfFacts
<1>5. /\ IsRec(D) /\ BitsOK(D) /\ SameArrays(r, D) /\ NumbersOK(D)
      /\ \A x \in Fields \ {"numBits", "bitBuf"} : D[x] = r[x]
  BY <1>2, <1>3, TakeBits
<1>6. /\ f \div 2 = 0 => Step([Drop(d, d.numBits % ByteBits) EXCEPT !.state = "rawHeader", !.raw = <<>>])
      /\ f \div 2 = 1 => Step(StaticTables(d))
      /\ f \div 2 = 2 => Step([d EXCEPT !.state = "sizes"])
      /\ f \div 2 # 0 /\ f \div 2 # 1 /\ f \div 2 # 2 => Fail(d)
  BY DEF Header
<1> HIDE DEF f, D
<1>7. /\ IsRec(d) /\ d.final = f /\ d.type = f \div 2 /\ d.counter = 0
      /\ \A x \in Fields \ {"final", "type", "counter"} : d[x] = D[x]
  BY <1>5 DEF IsRec, Fields
<1> HIDE DEF d
<1>8. SameArrays(D, d) BY <1>7 DEF SameArrays, Fields
<1>9. SameArrays(r, d) BY <1>5, <1>8 DEF SameArrays
<1>10. ArraysOK(d) /\ TablesOK(d) BY <1>3, <1>9, SameArraysOK
<1>11. BitsOK(d) BY <1>5, <1>7 DEF BitsOK, Fields
<1>12. NumbersOK(d) BY <1>4, <1>5, <1>7 DEF NumbersOK, Fields
<1>13. CASE f \div 2 = 0
  <2> DEFINE m == d.numBits % ByteBits
             x == Drop(d, m)
             e == [x EXCEPT !.state = "rawHeader", !.raw = <<>>]
  <2>1. Step(e) BY <1>6, <1>13
  <2>2. d.numBits \in Nat /\ ByteBits \in Nat /\ ByteBits >= 1 BY <1>11, Format DEF BitsOK
  <2>3. m \in Nat /\ m <= d.numBits BY <2>2, DivNat
  <2>4. m \in 0..d.numBits BY <2>2, <2>3
  <2> HIDE DEF m
  <2>5. /\ IsRec(x) /\ BitsOK(x) /\ SameArrays(d, x) /\ x.numBits = d.numBits - m
        /\ \A y \in Fields \ {"numBits", "bitBuf"} : x[y] = d[y]
    BY <1>7, <1>11, <2>4, DropOK
  <2> HIDE DEF x
  <2>6. IsRec(e) /\ e.state = "rawHeader" /\ e.raw = <<>> /\ \A y \in Fields \ {"state", "raw"} : e[y] = x[y]
    BY <2>5 DEF IsRec, Fields
  <2> HIDE DEF e
  <2>7. e.numBits = d.numBits - m BY <2>5, <2>6 DEF Fields
  <2>8. (d.numBits - m) % ByteBits = 0
    <3> DEFINE n == d.numBits
               q == n \div ByteBits
               s == n % ByteBits
    <3>1. n \in Int /\ m = s BY <2>2 DEF m
    <3> HIDE DEF n
    <3>2. n = q * ByteBits + s /\ q \in Int /\ s \in 0..(ByteBits - 1) BY <2>2, <3>1, DivMod
    <3> HIDE DEF q, s
    <3>3. n - s = q * ByteBits + 0 BY <2>2, <3>1, <3>2
    <3>4. 0 \in 0..(ByteBits - 1) BY <2>2
    <3>5. (q * ByteBits + 0) % ByteBits = 0 BY <2>2, <3>2, <3>4, DivUnique
    <3>6. (n - m) % ByteBits = 0 BY <3>1, <3>3, <3>5
    <3> QED BY <3>6 DEF n
  <2>9. SameArrays(x, e) BY <2>6 DEF SameArrays, Fields
  <2>10. SameArrays(d, e) BY <2>5, <2>9 DEF SameArrays
  <2>11. BitsOK(e) BY <2>5, <2>6 DEF BitsOK, Fields
  <2>12. NumbersOK(e)
    <3>1. e.raw \in Seq(Nat) BY <2>6
    <3>2. NumbersOK(x) BY <1>12, <2>5 DEF NumbersOK, Fields
    <3> QED BY <2>6, <3>1, <3>2 DEF NumbersOK, Fields
  <2>13. PointOK(e) BY <2>6, <2>7, <2>8 DEF PointOK
  <2>14. e.state \in States BY <2>6 DEF States, BitStates
  <2>15. CoOK(e) BY <1>10, <2>6, <2>10, <2>11, <2>12, <2>13, <2>14, PointChange
  <2>16. CopyOK(e, outCur, wrap) BY <2>6 DEF CopyOK
  <2> QED BY <1>1, <2>1, <2>15, <2>16, StepKeeps
<1>14. CASE f \div 2 = 1
  <2> DEFINE e == StaticTables(d)
  <2>1. Step(e) BY <1>6, <1>14
  <2>2. /\ IsRec(e) /\ e.state = "build" /\ e.type = 1
        /\ e.size = [t \in 0..2 |-> IF t < 2 THEN NumSyms[t + 1] ELSE d.size[t]]
        /\ e.codeSize = [t \in 0..2 |-> IF t < 2 THEN [i \in DOMAIN d.codeSize[t] |-> FixedSizes[t + 1][i + 1]]
                                                 ELSE d.codeSize[t]]
        /\ \A x \in Fields \ {"state", "size", "codeSize"} : e[x] = d[x]
    BY <1>7, <1>14 DEF StaticTables, IsRec, Fields
  <2> HIDE DEF e
  <2>3. ArraysOK(e)
    <3>1. \A t \in 0..2 : t < 2 => t + 1 \in 1..2 /\ t + 1 \in 1..3 OBVIOUS
    <3>2. \A t \in 0..2 : e.size[t] \in Nat /\ e.size[t] <= NumSyms[t + 1]
      <4>1. \A t \in 0..2 : d.size[t] \in Nat /\ d.size[t] <= NumSyms[t + 1] BY <1>10 DEF ArraysOK
      <4>2. \A t \in 1..3 : NumSyms[t] \in 1..512 BY Tables
      <4> SUFFICES ASSUME NEW t \in 0..2 PROVE e.size[t] \in Nat /\ e.size[t] <= NumSyms[t + 1] OBVIOUS
      <4>3. CASE t < 2
        <5>1. NumSyms[t + 1] \in 1..512 /\ e.size[t] = NumSyms[t + 1] BY <2>2, <3>1, <4>2, <4>3
        <5> QED BY <5>1
      <4>4. CASE ~(t < 2) BY <2>2, <4>1, <4>4
      <4> QED BY <4>3, <4>4
    <3>3. e.size \in [0..2 -> Nat] BY <2>2, <3>2
    <3>4. e.codeSize = [t \in 0..2 |-> e.codeSize[t]] BY <2>2
    <3>5. ASSUME NEW t \in 0..2 PROVE e.codeSize[t] \in [0..(NumSyms[t + 1] - 1) -> 0..MaxCode]
      <4>1. d.codeSize[t] \in [0..(NumSyms[t + 1] - 1) -> 0..MaxCode] BY <1>10 DEF ArraysOK
      <4>2. CASE t < 2
        <5>1. FixedSizes[t + 1] \in [1..NumSyms[t + 1] -> 0..MaxCode] /\ NumSyms[t + 1] \in 1..512
          BY <3>1, <4>2, Tables, ZenonT(60)
        <5>2. \A N \in 1..512 : \A i \in 0..(N - 1) : i + 1 \in 1..N OBVIOUS
        <5>3. \A i \in 0..(NumSyms[t + 1] - 1) : FixedSizes[t + 1][i + 1] \in 0..MaxCode BY <5>1, <5>2
        <5>4. e.codeSize[t] = [i \in 0..(NumSyms[t + 1] - 1) |-> FixedSizes[t + 1][i + 1]] BY <2>2, <4>1, <4>2
        <5> QED BY <5>3, <5>4
      <4>3. CASE ~(t < 2) BY <2>2, <4>1, <4>3
      <4> QED BY <4>2, <4>3
    <3>6. e.lenCodes = d.lenCodes /\ e.next = d.next BY <2>2 DEF Fields
    <3> QED BY <1>10, <3>2, <3>3, <3>4, <3>5, <3>6 DEF ArraysOK
  <2>4. TablesOK(e) BY <1>10, <2>2 DEF TablesOK, Fields
  <2>5. BitsOK(e) BY <1>11, <2>2 DEF BitsOK, Fields
  <2>6. NumbersOK(e) BY <1>12, <2>2 DEF NumbersOK, Fields
  <2>7. PointOK(e) BY <2>2 DEF PointOK
  <2>8. e.state \in States BY <2>2 DEF States
  <2>9. CoOK(e) BY <2>2, <2>3, <2>4, <2>5, <2>6, <2>7, <2>8 DEF CoOK
  <2>10. CopyOK(e, outCur, wrap) BY <2>2 DEF CopyOK
  <2> QED BY <1>1, <2>1, <2>9, <2>10, StepKeeps
<1>15. CASE f \div 2 = 2
  <2> DEFINE e == [d EXCEPT !.state = "sizes"]
  <2>1. Step(e) BY <1>6, <1>15
  <2>2. IsRec(e) /\ e.state = "sizes" /\ e.type = 2 /\ e.counter = 0 /\ \A x \in Fields \ {"state"} : e[x] = d[x]
    BY <1>7, <1>15 DEF IsRec, Fields
  <2> HIDE DEF e
  <2>3. SameArrays(d, e) BY <2>2 DEF SameArrays, Fields
  <2>4. BitsOK(e) BY <1>11, <2>2 DEF BitsOK, Fields
  <2>5. NumbersOK(e) BY <1>12, <2>2 DEF NumbersOK, Fields
  <2>6. PointOK(e) BY <2>2 DEF PointOK
  <2>7. e.state \in States BY <2>2 DEF States, BitStates
  <2>8. CoOK(e) BY <1>10, <2>2, <2>3, <2>4, <2>5, <2>6, <2>7, PointChange
  <2>9. CopyOK(e, outCur, wrap) BY <2>2 DEF CopyOK
  <2> QED BY <1>1, <2>1, <2>8, <2>9, StepKeeps
<1>16. CASE f \div 2 # 0 /\ f \div 2 # 1 /\ f \div 2 # 2
  <2>1. ReturnAt(pos, [d EXCEPT !.state = "failed"], "failed") BY <1>6, <1>16 DEF Fail, Return
  <2>2. pos \in pos..inEnd BY DEF CoInv, InOK
  <2> QED BY <1>1, <1>7, <1>10, <1>11, <1>12, <2>1, <2>2, FailKeeps
<1> QED BY <1>13, <1>14, <1>15, <1>16

\* Points with nothing to hold of their own
Plain == {"align", "header", "lit", "rawCopy", "lenExtra", "dist", "distExtra", "done", "failed", "litSlow"}

LEMMA GotoKeeps ==
  ASSUME CoInv, status = "running", NEW s \in Plain, Step([r EXCEPT !.state = s])
  PROVE  Kept
<1> DEFINE e == [r EXCEPT !.state = s]
<1>1. IsRec(r) /\ BitsOK(r) /\ ArraysOK(r) /\ TablesOK(r) /\ NumbersOK(r) BY DEF CoInv, CoOK
<1>2. IsRec(e) /\ e.state = s /\ \A x \in Fields \ {"state"} : e[x] = r[x] BY <1>1 DEF IsRec, Fields
<1>3. Step(e) OBVIOUS
<1> HIDE DEF e
<1>4. SameArrays(r, e) BY <1>2 DEF SameArrays, Fields
<1>5. BitsOK(e) BY <1>1, <1>2 DEF BitsOK, Fields
<1>6. NumbersOK(e) BY <1>1, <1>2 DEF NumbersOK, Fields
<1>7. PointOK(e) BY <1>2 DEF PointOK, Plain
<1>8. e.state \in States BY <1>2 DEF Plain, States, BitStates, HuffTable
<1>9. CoOK(e) BY <1>1, <1>2, <1>4, <1>5, <1>6, <1>7, <1>8, PointChange
<1>10. CopyOK(e, outCur, wrap) BY <1>2 DEF CopyOK, Plain
<1> QED BY <1>3, <1>9, <1>10, StepKeeps

LEMMA BlockEndKeeps == ASSUME CoInv, status = "running", BlockEnd(r) PROVE Kept
<1> DEFINE s == IF r.final % 2 = 1 THEN "align" ELSE "header"
<1>1. Step([r EXCEPT !.state = s]) BY DEF BlockEnd
<1>2. s \in Plain BY DEF Plain
<1> HIDE DEF s
<1> QED BY <1>1, <1>2, GotoKeeps

\* Returning from where it is
LEMMA StayKeeps ==
  ASSUME CoInv, status = "running", NEW st \in Statuses, Return(r, st)
  PROVE  Kept
<1>1. ReturnAt(pos, r, st) BY DEF Return
<1>2. CoOK(r) /\ CopyOK(r, outCur, wrap) /\ pos \in pos..inEnd BY DEF CoInv, InOK
<1> QED BY <1>1, <1>2, ReturnKeeps

\* Taking whole bytes leaves whole bytes.
LEMMA WholeBytes ==
  ASSUME NEW n \in Nat, n % ByteBits = 0
  PROVE  (n # 0 => n >= ByteBits) /\ (n - ByteBits) % ByteBits = 0
<1> DEFINE q == n \div ByteBits
<1>1. ByteBits \in Nat /\ ByteBits >= 1 /\ n \in Int /\ 0 \in 0..(ByteBits - 1) BY Format
<1>2. n = q * ByteBits + (n % ByteBits) /\ q \in Int BY <1>1, DivMod
<1>3. q \in Nat BY <1>1, DivNat
<1> HIDE DEF q
<1>4. n = q * ByteBits BY <1>1, <1>2
<1>5. n - ByteBits = (q - 1) * ByteBits + 0 /\ q - 1 \in Int BY <1>1, <1>2, <1>4
<1>6. ((q - 1) * ByteBits + 0) % ByteBits = 0 BY <1>1, <1>5, DivUnique
<1>7. ASSUME n # 0 PROVE n >= ByteBits
  <2>1. q # 0 BY <1>1, <1>4, <1>7
  <2>2. q - 1 \in Nat BY <1>3, <2>1
  <2>3. (q - 1) * ByteBits \in Nat BY <1>1, <2>2
  <2>4. n = (q - 1) * ByteBits + ByteBits BY <1>1, <1>3, <1>4
  <2> QED BY <1>1, <2>3, <2>4
<1> QED BY <1>5, <1>6, <1>7

LEMMA RawHeaderKeeps == ASSUME CoInv, RawHeader PROVE Kept
<1> DEFINE b == BitsOf(ByteBits)
           raw == Append(r.raw, b)
           D == Drop(r, ByteBits)
           d == [D EXCEPT !.raw = raw]
           e == [d EXCEPT !.counter = RawLength(raw), !.state = "rawBits"]
<1>1. status = "running" /\ r.state = "rawHeader" /\ r.numBits >= Need BY DEF RawHeader, HasBits, Running
<1>2. r.numBits >= ByteBits BY <1>1 DEF Need
<1>3. CoOK(r) /\ ArraysOK(r) /\ TablesOK(r) /\ BitsOK(r) /\ NumbersOK(r) BY DEF CoInv, CoOK
<1>4. ByteBits \in Nat /\ Pow2[ByteBits] \in Nat /\ r.numBits \in Nat BY <1>3, Format DEF BitsOK
<1>5. b \in Nat BY <1>3, <1>4, BitsOfFacts
<1>6. r.raw \in Seq(Nat) /\ Len(r.raw) <= 3 /\ r.numBits % ByteBits = 0 BY <1>1, <1>3 DEF NumbersOK, CoOK, PointOK
<1>7. /\ IsRec(D) /\ BitsOK(D) /\ SameArrays(r, D) /\ NumbersOK(D) /\ D.numBits = r.numBits - ByteBits
      /\ \A x \in Fields \ {"numBits", "bitBuf"} : D[x] = r[x]
  BY <1>2, <1>3, <1>4, TakeBits
<1>8. IF Len(raw) < 4 THEN Step(d)
      ELSE IF RawLength(raw) + RawLength(SubSeq(raw, 3, 4)) # Pow2[2 * ByteBits] - 1 THEN Fail(d) ELSE Step(e)
  BY DEF RawHeader
<1>9. Append(r.raw, b) \in Seq(Nat) /\ Len(Append(r.raw, b)) = Len(r.raw) + 1 BY <1>5, <1>6
<1> HIDE DEF b, raw, D
<1>10. raw \in Seq(Nat) /\ Len(raw) = Len(r.raw) + 1 BY <1>9 DEF raw
<1>11. IsRec(d) /\ d.raw = raw /\ \A x \in Fields \ {"raw"} : d[x] = D[x] BY <1>7 DEF IsRec, Fields
<1> HIDE DEF d
<1>12. SameArrays(D, d) BY <1>11 DEF SameArrays, Fields
<1>13. SameArrays(r, d) BY <1>7, <1>12 DEF SameArrays
<1>14. ArraysOK(d) /\ TablesOK(d) BY <1>3, <1>13, SameArraysOK
<1>15. BitsOK(d) BY <1>7, <1>11 DEF BitsOK, Fields
<1>16. NumbersOK(d) BY <1>7, <1>10, <1>11 DEF NumbersOK, Fields
<1>17. d.numBits % ByteBits = 0 /\ d.state = "rawHeader"
  <2>1. (r.numBits - ByteBits) % ByteBits = 0 BY <1>4, <1>6, WholeBytes
  <2>2. d.numBits = r.numBits - ByteBits BY <1>7, <1>11 DEF Fields
  <2> QED BY <1>1, <1>7, <1>11, <2>1, <2>2 DEF Fields
<1>18. CASE Len(raw) < 4
  <2>1. Len(raw) <= 3 BY <1>10, <1>18
  <2>2. PointOK(d) BY <1>11, <1>17, <2>1 DEF PointOK
  <2>3. d.state \in States BY <1>17 DEF States, BitStates
  <2>4. CoOK(d) BY <1>11, <1>14, <1>15, <1>16, <2>2, <2>3 DEF CoOK
  <2>5. CopyOK(d, outCur, wrap) BY <1>17 DEF CopyOK
  <2> QED BY <1>1, <1>8, <1>18, <2>4, <2>5, StepKeeps
<1>19. CASE ~(Len(raw) < 4) /\ Fail(d)
  <2>1. ReturnAt(pos, [d EXCEPT !.state = "failed"], "failed") BY <1>19 DEF Fail, Return
  <2>2. pos \in pos..inEnd BY DEF CoInv, InOK
  <2> QED BY <1>1, <1>11, <1>14, <1>15, <1>16, <2>1, <2>2, FailKeeps
<1>20. CASE ~(Len(raw) < 4) /\ Step(e)
  <2>1. RawLength(raw) \in Nat
    <3>1. Len(raw) \in Nat /\ 1 \in 1..Len(raw) /\ 2 \in 1..Len(raw) BY <1>10, <1>20
    <3>2. raw[1] \in Nat /\ raw[2] \in Nat BY <1>10, <3>1
    <3> QED BY <1>4, <3>2 DEF RawLength
  <2>2. /\ IsRec(e) /\ e.state = "rawBits" /\ e.counter = RawLength(raw)
        /\ \A x \in Fields \ {"state", "counter"} : e[x] = d[x]
    BY <1>11 DEF IsRec, Fields
  <2> HIDE DEF e
  <2>3. SameArrays(d, e) BY <2>2 DEF SameArrays, Fields
  <2>4. BitsOK(e) BY <1>15, <2>2 DEF BitsOK, Fields
  <2>5. NumbersOK(e) BY <1>16, <2>1, <2>2 DEF NumbersOK, Fields
  <2>6. e.numBits = d.numBits BY <2>2 DEF Fields
  <2>7. PointOK(e) BY <1>17, <2>2, <2>6 DEF PointOK
  <2>8. e.state \in States BY <2>2 DEF States
  <2>9. CoOK(e) BY <1>14, <2>2, <2>3, <2>4, <2>5, <2>7, <2>8, PointChange
  <2>10. CopyOK(e, outCur, wrap) BY <2>2 DEF CopyOK
  <2> QED BY <1>1, <1>20, <2>9, <2>10, StepKeeps
<1> QED BY <1>8, <1>18, <1>19, <1>20

LEMMA RawBitsKeeps == ASSUME CoInv, RawBits PROVE Kept
<1>1. status = "running" /\ r.state = "rawBits" BY DEF RawBits, Running
<1>2. CASE r.counter = 0 \/ r.numBits = 0
  <2>1. Step([r EXCEPT !.state = "rawCopy"]) BY <1>2 DEF RawBits, Goto
  <2>2. "rawCopy" \in Plain BY DEF Plain
  <2> QED BY <1>1, <2>1, <2>2, GotoKeeps
<1>3. CASE ~(r.counter = 0 \/ r.numBits = 0)
  <2> DEFINE b == BitsOf(ByteBits)
             D == Drop(r, ByteBits)
             e == [D EXCEPT !.dist = b, !.state = "rawOut"]
  <2>1. Step(e) BY <1>3 DEF RawBits
  <2>2. CoOK(r) /\ ArraysOK(r) /\ TablesOK(r) /\ BitsOK(r) /\ NumbersOK(r) BY DEF CoInv, CoOK
  <2>3. ByteBits \in Nat /\ r.numBits \in Nat BY <2>2, Format DEF BitsOK
  <2>4. b \in 0..(Pow2[ByteBits] - 1) /\ b \in Nat BY <2>2, <2>3, BitsOfFacts
  <2>5. r.numBits % ByteBits = 0 /\ r.counter \in Nat BY <1>1, <2>2 DEF CoOK, PointOK, NumbersOK
  <2>6. r.numBits >= ByteBits /\ (r.numBits - ByteBits) % ByteBits = 0 BY <1>3, <2>3, <2>5, WholeBytes
  <2>7. /\ IsRec(D) /\ BitsOK(D) /\ SameArrays(r, D) /\ NumbersOK(D) /\ D.numBits = r.numBits - ByteBits
        /\ \A x \in Fields \ {"numBits", "bitBuf"} : D[x] = r[x]
    BY <2>2, <2>3, <2>6, TakeBits
  <2> HIDE DEF b, D
  <2>8. IsRec(e) /\ e.dist = b /\ e.state = "rawOut" /\ \A x \in Fields \ {"dist", "state"} : e[x] = D[x]
    BY <2>7 DEF IsRec, Fields
  <2> HIDE DEF e
  <2>9. SameArrays(D, e) BY <2>8 DEF SameArrays, Fields
  <2>10. SameArrays(r, e) BY <2>7, <2>9 DEF SameArrays
  <2>11. BitsOK(e) BY <2>7, <2>8 DEF BitsOK, Fields
  <2>12. NumbersOK(e) BY <2>4, <2>7, <2>8 DEF NumbersOK, Fields
  <2>13. e.numBits = r.numBits - ByteBits /\ e.counter = r.counter BY <2>7, <2>8 DEF Fields
  <2>14. PointOK(e)
    <3>1. e.counter >= 1 BY <1>3, <2>5, <2>13
    <3>2. e.dist \in Byte BY <2>4, <2>8 DEF Byte
    <3> QED BY <2>6, <2>8, <2>13, <3>1, <3>2 DEF PointOK
  <2>15. e.state \in States BY <2>8 DEF States
  <2>16. CoOK(e) BY <2>2, <2>8, <2>10, <2>11, <2>12, <2>14, <2>15, PointChange
  <2>17. CopyOK(e, outCur, wrap) BY <2>8 DEF CopyOK
  <2> QED BY <1>1, <2>1, <2>16, <2>17, StepKeeps
<1> QED BY <1>2, <1>3

LEMMA RawOutKeeps == ASSUME CoInv, RawOut PROVE Kept
<1>1. status = "running" /\ r.state = "rawOut" BY DEF RawOut, Running
<1>2. CASE outCur >= outEnd
  <2>1. Return(r, "has_more_output") BY <1>2 DEF RawOut
  <2>2. "has_more_output" \in Statuses BY DEF Statuses
  <2> QED BY <1>1, <2>1, <2>2, StayKeeps
<1>3. CASE ~(outCur >= outEnd)
  <2> DEFINE e == [r EXCEPT !.state = "rawBits", !.counter = r.counter - 1]
  <2>1. IsRec(r) /\ ArraysOK(r) /\ TablesOK(r) /\ BitsOK(r) /\ NumbersOK(r) /\ PointOK(r) BY DEF CoInv, CoOK
  <2>2. Write(e, r.dist) BY <1>3, <2>1 DEF RawOut, Goto, IsRec, Fields
  <2>3. r.counter \in Nat /\ r.counter >= 1 /\ r.dist \in Byte /\ r.numBits % ByteBits = 0
    BY <1>1, <2>1 DEF NumbersOK, PointOK
  <2>4. IsRec(e) /\ e.state = "rawBits" /\ e.counter = r.counter - 1 /\ \A x \in Fields \ {"state", "counter"} : e[x] = r[x]
    BY <2>1 DEF IsRec, Fields
  <2> HIDE DEF e
  <2>5. SameArrays(r, e) BY <2>4 DEF SameArrays, Fields
  <2>6. BitsOK(e) BY <2>1, <2>4 DEF BitsOK, Fields
  <2>7. e.counter \in Nat BY <2>3, <2>4
  <2>8. NumbersOK(e) BY <2>1, <2>4, <2>7 DEF NumbersOK, Fields
  <2>9. e.numBits = r.numBits BY <2>4 DEF Fields
  <2>10. PointOK(e) BY <2>3, <2>4, <2>9 DEF PointOK
  <2>11. e.state \in States BY <2>4 DEF States
  <2>12. CoOK(e) BY <2>1, <2>4, <2>5, <2>6, <2>8, <2>10, <2>11, PointChange
  <2>13. CopyOK(e, outCur + 1, wrap) BY <2>4 DEF CopyOK
  <2>14. outCur < outEnd BY <1>3 DEF CoInv, OutOK, outEnd
  <2> QED BY <1>1, <2>2, <2>3, <2>12, <2>13, <2>14, WriteKeeps
<1> QED BY <1>2, <1>3

LEMMA RawCopyKeeps == ASSUME CoInv, RawCopy PROVE Kept
<1>1. status = "running" /\ r.state = "rawCopy" BY DEF RawCopy, Running
<1>2. CASE r.counter = 0
  <2>1. BlockEnd(r) BY <1>2 DEF RawCopy
  <2> QED BY <1>1, <2>1, BlockEndKeeps
<1>3. CASE r.counter # 0 /\ outCur >= outEnd
  <2>1. Return(r, "has_more_output") BY <1>3 DEF RawCopy
  <2>2. "has_more_output" \in Statuses BY DEF Statuses
  <2> QED BY <1>1, <2>1, <2>2, StayKeeps
<1>4. CASE r.counter # 0 /\ ~(outCur >= outEnd) /\ pos >= inEnd
  <2> DEFINE st == IF moreInput THEN "needs_more_input" ELSE "cannot_make_progress"
  <2>1. Return(r, st) BY <1>4 DEF RawCopy, ReturnInput
  <2>2. st \in Statuses BY DEF Statuses
  <2> HIDE DEF st
  <2> QED BY <1>1, <2>1, <2>2, StayKeeps
<1>5. CASE r.counter # 0 /\ ~(outCur >= outEnd) /\ ~(pos >= inEnd)
  <2> DEFINE n == Smaller(Smaller(outEnd - outCur, inEnd - pos), r.counter)
             e == [r EXCEPT !.counter = r.counter - n]
  <2>1. /\ buf' = [i \in DOMAIN buf |->
                     IF i \in (outCur + 1)..(outCur + n) THEN stream[pos + i - outCur] ELSE buf[i]]
        /\ outCur' = outCur + n /\ pos' = pos + n /\ r' = e
        /\ UNCHANGED <<stream, inBeg, inEnd, moreInput, wrap, outBeg, status>>
    BY <1>5 DEF RawCopy, inVars, outVars
  <2>2. IsRec(r) /\ ArraysOK(r) /\ TablesOK(r) /\ BitsOK(r) /\ NumbersOK(r) /\ PointOK(r) BY DEF CoInv, CoOK
  <2>3. /\ stream \in Seq(Byte) /\ inBeg \in Nat /\ pos \in Nat /\ inEnd \in Nat
        /\ inBeg <= pos /\ pos <= inEnd /\ inEnd <= Len(stream)
    BY DEF CoInv, InOK
  <2>4. /\ wrap \in BOOLEAN /\ buf \in Seq(Byte) /\ outBeg \in Nat /\ outCur \in Nat
        /\ outBeg <= outCur /\ outCur <= Len(buf) /\ (wrap => Len(buf) >= 1)
    BY DEF CoInv, OutOK
  <2>5. r.counter \in Nat BY <2>2 DEF NumbersOK
  <2>6. n \in Nat /\ n <= Len(buf) - outCur /\ n <= inEnd - pos /\ n <= r.counter
    BY <1>5, <2>3, <2>4, <2>5 DEF Smaller, outEnd
  <2> HIDE DEF n
  <2>7. IsRec(e) /\ e.counter = r.counter - n /\ \A x \in Fields \ {"counter"} : e[x] = r[x] BY <2>2 DEF IsRec, Fields
  <2> HIDE DEF e
  <2>8. e.state = "rawCopy" BY <1>1, <2>7 DEF Fields
  <2>9. SameArrays(r, e) BY <2>7 DEF SameArrays, Fields
  <2>10. BitsOK(e) BY <2>2, <2>7 DEF BitsOK, Fields
  <2>11. e.counter \in Nat BY <2>5, <2>6, <2>7
  <2>12. NumbersOK(e) BY <2>2, <2>7, <2>11 DEF NumbersOK, Fields
  <2>13. PointOK(e) BY <2>8 DEF PointOK
  <2>14. e.state \in States BY <2>8 DEF States
  <2>15. CoOK(e) BY <2>2, <2>7, <2>9, <2>10, <2>12, <2>13, <2>14, PointChange
  <2>16. CoOK(r') BY <2>1, <2>15
  <2>17. InOK' BY <2>1, <2>3, <2>6 DEF InOK
  <2>18. buf' \in Seq(Byte) /\ Len(buf') = Len(buf)
    <3>1. DOMAIN buf = 1..Len(buf) /\ Len(buf) \in Nat BY <2>4
    <3>2. \A i \in 1..Len(buf) : i \in (outCur + 1)..(outCur + n) => pos + i - outCur \in 1..Len(stream)
      BY <2>3, <2>4, <2>6
    <3>3. \A i \in 1..Len(buf) : buf'[i] \in Byte BY <2>1, <2>3, <2>4, <3>1, <3>2
    <3>4. buf' = [i \in 1..Len(buf) |-> buf'[i]] BY <2>1, <3>1
    <3> QED BY <3>1, <3>3, <3>4
  <2>19. OutOK' BY <2>1, <2>4, <2>6, <2>18 DEF OutOK
  <2>20. CopyOK(r', outCur', wrap') BY <2>1, <2>8 DEF CopyOK
  <2>21. Frame BY <1>1, <2>1, <2>18 DEF Frame
  <2> QED BY <2>16, <2>17, <2>19, <2>20, <2>21 DEF Kept
<1> QED BY <1>2, <1>3, <1>4, <1>5

\* One table replaced
Replaced(g, f, t, x) == g = [f EXCEPT ![t] = x]
OnlyTables(d, e) == \A x \in Fields \ {"state", "lookUp", "tree", "next", "treeNext", "sym"} : e[x] = d[x]

LEMMA TableRec ==
  ASSUME CoOK(r), NEW t \in 0..2, NEW e, IsRec(e),
         OnlyTables(r, e),
         NEW lu, NEW tr, TableOK(NumSyms[t + 1], lu, tr), e.next \in [1..(MaxCode + 1) -> Nat], e.sym \in Nat,
         Replaced(e.lookUp, r.lookUp, t, lu), Replaced(e.tree, r.tree, t, tr)
  PROVE  ArraysOK(e) /\ TablesOK(e) /\ NumbersOK(e) /\ BitsOK(e)
<1>1. ArraysOK(r) /\ TablesOK(r) /\ NumbersOK(r) /\ BitsOK(r) BY DEF CoOK
<1>2. ArraysOK(e) BY <1>1 DEF ArraysOK, Fields, OnlyTables
<1>3. NumbersOK(e) BY <1>1 DEF NumbersOK, Fields, OnlyTables
<1>4. BitsOK(e) BY <1>1 DEF BitsOK, Fields, OnlyTables
<1>5. r.lookUp = [u \in 0..2 |-> r.lookUp[u]] /\ r.tree = [u \in 0..2 |-> r.tree[u]] BY <1>1 DEF TablesOK
<1>6. \A u \in 0..2 : TableOK(NumSyms[u + 1], r.lookUp[u], r.tree[u]) BY <1>1 DEF TablesOK
<1>7. e.lookUp = [u \in 0..2 |-> e.lookUp[u]] /\ e.tree = [u \in 0..2 |-> e.tree[u]] BY <1>5 DEF Replaced
<1>8. e.lookUp[t] = lu /\ e.tree[t] = tr BY <1>5 DEF Replaced
<1>9. \A u \in 0..2 : u # t => e.lookUp[u] = r.lookUp[u] /\ e.tree[u] = r.tree[u] BY <1>5 DEF Replaced
<1>10. ASSUME NEW u \in 0..2 PROVE TableOK(NumSyms[u + 1], e.lookUp[u], e.tree[u])
  <2>1. CASE u = t BY <1>8, <2>1
  <2>2. CASE u # t BY <1>6, <1>9, <2>2
  <2> QED BY <2>1, <2>2
<1>11. TablesOK(e) BY <1>7, <1>10 DEF TablesOK
<1> QED BY <1>2, <1>3, <1>4, <1>11

LEMMA EnterRec ==
  ASSUME CoOK(r), NEW t \in 0..2, NEW e, IsRec(e),
         OnlyTables(r, e),
         r.type = t, e.state = "insert", NEW next \in [1..(MaxCode + 1) -> Nat], NEW y \in Nat, NEW cs, NEW n, NEW N,
         NEW lu, NEW tr, NEW tn, Entering(cs, n, N, y, next, lu, tr, tn), y <= n,
         cs = r.codeSize[t], n = r.size[t], N = NumSyms[t + 1], e.next = next, e.sym = y, e.treeNext = tn,
         Replaced(e.lookUp, r.lookUp, t, lu), Replaced(e.tree, r.tree, t, tr)
  PROVE  CoOK(e)
<1>1. TableOK(NumSyms[t + 1], lu, tr) BY EnteringTable
<1>2. ArraysOK(e) /\ TablesOK(e) /\ NumbersOK(e) /\ BitsOK(e) BY <1>1, TableRec
<1>3. r.lookUp = [u \in 0..2 |-> r.lookUp[u]] /\ r.tree = [u \in 0..2 |-> r.tree[u]] BY DEF CoOK, TablesOK
<1>4. e.lookUp[t] = lu /\ e.tree[t] = tr BY <1>3 DEF Replaced
<1>5. e.type = t /\ e.size = r.size /\ e.codeSize = r.codeSize BY DEF Fields, OnlyTables
<1>6. Entering(e.codeSize[e.type], e.size[e.type], NumSyms[e.type + 1], e.sym, e.next, e.lookUp[e.type],
               e.tree[e.type], e.treeNext)
  BY <1>4, <1>5
<1>7. PointOK(e) BY <1>5, <1>6 DEF PointOK
<1>8. e.state \in States BY DEF States
<1> QED BY <1>2, <1>7, <1>8 DEF CoOK

LEMMA BuildKeeps == ASSUME CoInv, Build PROVE Kept
<1> DEFINE t == r.type
           N == NumSyms[t + 1]
           first == NextCode(t)
           next == [l \in 1..(MaxCode + 1) |-> first[l]]
           lu == [k \in FirstLevel |-> 0]
           tr == [k \in Slots(N) |-> 0]
           e == [r EXCEPT !.lookUp[t] = lu, !.tree[t] = tr, !.next = next, !.sym = 0, !.treeNext = -1,
                          !.state = "insert"]
<1>1. status = "running" /\ r.state = "build" BY DEF Build, Running
<1>2. CoOK(r) /\ IsRec(r) /\ ArraysOK(r) BY DEF CoInv, CoOK
<1>3. t \in 0..2 BY <1>1, <1>2 DEF CoOK, PointOK
<1>4. IF CompleteCode(t, first) THEN Step(e) ELSE Fail(e) BY DEF Build, FirstLevel, Slots
<1>5. r.size[t] \in Nat /\ r.size[t] <= N /\ r.codeSize[t] \in [0..(N - 1) -> 0..MaxCode] BY <1>2, <1>3 DEF ArraysOK
<1>6. N \in 1..512 /\ MaxCode - FastBits <= N
  <2>1. t + 1 \in 1..3 BY <1>3
  <2> QED BY <2>1, Tables
<1>7. SizesOK(r.codeSize[t], r.size[t], N)
  <2>1. r.size[t] \in 0..N BY <1>5, <1>6
  <2>2. \A i \in 0..(r.size[t] - 1) : i \in 0..(N - 1)
    <3>1. \A a \in Nat, b \in 1..512 : a <= b => \A i \in 0..(a - 1) : i \in 0..(b - 1) OBVIOUS
    <3> HIDE DEF N
    <3> QED BY <1>5, <1>6, <3>1
  <2> QED BY <1>5, <1>6, <2>1, <2>2 DEF SizesOK
<1>8. Firsts(r.codeSize[t], r.size[t], first) BY <1>5, NextCodeRule
<1>9. first \in [1..(MaxCode + 1) -> Nat] BY <1>8 DEF Firsts
<1> HIDE DEF first
<1>10. next = first BY <1>9
<1>11. TableOK(N, lu, tr) BY <1>6, NoTable
<1>12. CompleteCode(t, first) => Entering(r.codeSize[t], r.size[t], N, 0, next, lu, tr, -1)
  <2> SUFFICES ASSUME CompleteCode(t, first) PROVE Entering(r.codeSize[t], r.size[t], N, 0, first, lu, tr, -1)
    BY <1>10
  <2>1. \/ first[MaxCode + 1] = Pow2[MaxCode + 1]
        \/ Cardinality({i \in 0..(r.size[t] - 1) : r.codeSize[t][i] # 0}) <= 1
    BY DEF CompleteCode, UsedSyms
  <2> QED BY <1>7, <1>8, <2>1, BuildEntering
<1> HIDE DEF t, N, lu, tr, next
<1>13. /\ IsRec(e) /\ e.state = "insert" /\ e.next = next /\ e.sym = 0 /\ e.treeNext = -1
       /\ Replaced(e.lookUp, r.lookUp, t, lu) /\ Replaced(e.tree, r.tree, t, tr)
       /\ OnlyTables(r, e)
  BY <1>2 DEF IsRec, Fields, OnlyTables, Replaced
<1> HIDE DEF e
<1>14. e.sym \in Nat /\ e.sym <= r.size[t] /\ e.next \in [1..(MaxCode + 1) -> Nat] BY <1>5, <1>9, <1>10, <1>13
<1>15. N = NumSyms[t + 1] /\ r.type = t BY DEF N, t
<1>16. CASE CompleteCode(t, first)
  <2>1. Step(e) BY <1>4, <1>16
  <2> DEFINE cs == r.codeSize[t]
             n == r.size[t]
             tn == -1
             y == 0
  <2>2. Entering(cs, n, N, y, next, lu, tr, tn) BY <1>12, <1>16
  <2>3. CoOK(e)
    <3>1. cs = r.codeSize[t] /\ n = r.size[t] /\ e.treeNext = tn /\ y \in Nat /\ y <= n /\ e.sym = y BY <1>5, <1>13
    <3>2. next \in [1..(MaxCode + 1) -> Nat] BY <1>9, <1>10
    <3> HIDE DEF cs, n, tn, y
    <3> QED BY <1>2, <1>3, <1>13, <1>15, <2>2, <3>1, <3>2, EnterRec
  <2>4. CopyOK(e, outCur, wrap) BY <1>13 DEF CopyOK
  <2> QED BY <1>1, <2>1, <2>3, <2>4, StepKeeps
<1>17. CASE ~CompleteCode(t, first)
  <2>1. ReturnAt(pos, [e EXCEPT !.state = "failed"], "failed") BY <1>4, <1>17 DEF Fail, Return
  <2>2. pos \in pos..inEnd BY DEF CoInv, InOK
  <2>3. ArraysOK(e) /\ TablesOK(e) /\ NumbersOK(e) /\ BitsOK(e)
    BY <1>2, <1>3, <1>11, <1>13, <1>14, <1>15, TableRec
  <2> QED BY <1>1, <1>13, <2>1, <2>2, <2>3, FailKeeps
<1> QED BY <1>16, <1>17

\* The next symbol in the table
LEMMA InsertedKeeps ==
  ASSUME CoOK(r), r.state = "insert", r.sym < r.size[r.type]
  PROVE  CoOK([Inserted EXCEPT !.sym = @ + 1])
<1> DEFINE t == r.type
           N == NumSyms[t + 1]
           cs == r.codeSize[t]
           n == r.size[t]
           l == cs[r.sym]
           lu == r.lookUp[t]
           tr == r.tree[t]
           tn == r.treeNext
           y == r.sym
<1>1. IsRec(r) /\ ArraysOK(r) /\ NumbersOK(r) /\ PointOK(r) BY DEF CoOK
<1>2. t \in 0..2 /\ Entering(cs, n, N, y, r.next, lu, tr, tn) BY <1>1 DEF PointOK
<1>3. n \in Nat /\ n <= N /\ cs \in [0..(N - 1) -> 0..MaxCode] BY <1>1, <1>2 DEF ArraysOK
<1>4. N \in 1..512
  <2>1. t + 1 \in 1..3 BY <1>2
  <2> QED BY <2>1, Tables
<1>5. y \in 0..(n - 1) /\ y \in Nat /\ y + 1 \in Nat /\ y + 1 <= n /\ y \in 0..(N - 1)
  <2>1. y \in Nat /\ y < n BY <1>1 DEF NumbersOK
  <2> HIDE DEF y, n, N
  <2>2. n \in Nat /\ n <= N BY <1>3
  <2> QED BY <1>4, <2>1, <2>2
<1>6. l \in 0..MaxCode BY <1>3, <1>5
<1>7. r.next \in [1..(MaxCode + 1) -> Nat] BY <1>1 DEF ArraysOK
<1>8. r.lookUp = [u \in 0..2 |-> r.lookUp[u]] /\ r.tree = [u \in 0..2 |-> r.tree[u]] BY DEF CoOK, TablesOK
<1>9. MaxCode \in Nat /\ FastBits \in Nat BY Format
<1>13. \A i \in 1..(MaxCode + 1) : [r.next EXCEPT ![i] = @ + 1] \in [1..(MaxCode + 1) -> Nat]
  <2> SUFFICES ASSUME NEW i \in 1..(MaxCode + 1) PROVE [r.next EXCEPT ![i] = @ + 1] \in [1..(MaxCode + 1) -> Nat]
    OBVIOUS
  <2> DEFINE f == r.next
  <2>1. f \in [1..(MaxCode + 1) -> Nat] BY <1>7
  <2> HIDE DEF f
  <2>2. f[i] \in Nat BY <2>1
  <2>3. f[i] + 1 \in Nat BY <2>2
  <2>4. [f EXCEPT ![i] = f[i] + 1] \in [1..(MaxCode + 1) -> Nat] BY <2>1, <2>3
  <2> QED BY <2>4 DEF f
<1>14. r.type = t /\ cs = r.codeSize[t] /\ n = r.size[t] /\ N = NumSyms[t + 1] OBVIOUS
<1>10. CASE l = 0
  <2> DEFINE e == [r EXCEPT !.sym = y + 1]
  <2>1. [Inserted EXCEPT !.sym = @ + 1] = e BY <1>10 DEF Inserted
  <2>2. /\ IsRec(e) /\ e.state = "insert" /\ e.sym = y + 1 /\ e.next = r.next /\ e.treeNext = tn
        /\ e.lookUp = r.lookUp /\ e.tree = r.tree
        /\ OnlyTables(r, e)
    BY <1>1 DEF IsRec, Fields, OnlyTables, Replaced
  <2> HIDE DEF e
  <2>3. Replaced(e.lookUp, r.lookUp, t, lu) /\ Replaced(e.tree, r.tree, t, tr) BY <1>8, <2>2 DEF Replaced
  <2>4. Entering(cs, n, N, y + 1, r.next, lu, tr, tn)
    <3> HIDE DEF t, N, cs, n, lu, tr, tn, y
    <3>1. cs[y] = 0 BY <1>10 DEF y
    <3> QED BY <1>2, <1>3, <1>5, <3>1, EnterNone
  <2>5. CoOK(e)
    <3> DEFINE y1 == y + 1
    <3>1. /\ Entering(cs, n, N, y1, r.next, lu, tr, tn) /\ y1 \in Nat /\ y1 <= n /\ e.sym = y1 /\ e.treeNext = tn
      BY <1>5, <2>2, <2>3, <2>4
    <3> HIDE DEF t, N, cs, n, l, lu, tr, tn, y, y1
    <3> QED BY <1>2, <1>7, <1>14, <2>2, <2>3, <2>4, <3>1, EnterRec
  <2> QED BY <2>1, <2>5
<1>11. CASE l # 0 /\ l <= FastBits
  <2> DEFINE nx == [r.next EXCEPT ![l] = @ + 1]
             lu2 == FillLookUp(lu, RevCode(r.next[l], l), l, y)
             e == [r EXCEPT !.next = nx, !.lookUp[t] = lu2, !.sym = y + 1]
  <2>1. l \in 1..FastBits /\ l \in 1..(MaxCode + 1) BY <1>6, <1>9, <1>11
  <2>2. [Inserted EXCEPT !.sym = @ + 1] = e
    <3>1. Inserted = [r EXCEPT !.next[l] = @ + 1, !.lookUp[t] = FillLookUp(@, RevCode(r.next[l], l), l, y)]
      BY <1>11 DEF Inserted
    <3> QED BY <1>1, <1>2, <1>7, <1>8, <2>1, <3>1 DEF IsRec, Fields
  <2>3. nx \in [1..(MaxCode + 1) -> Nat]
    <3> HIDE DEF l
    <3> QED BY <1>13, <2>1
  <2>4. Entering(cs, n, N, y + 1, nx, lu2, tr, tn)
    <3> HIDE DEF t, N, cs, n, lu, tr, tn, y
    <3>1. cs[y] = l BY DEF y
    <3> HIDE DEF l
    <3> QED BY <1>2, <1>3, <1>5, <1>7, <2>1, <3>1, EnterShort
  <2> HIDE DEF nx, lu2
  <2>5. /\ IsRec(e) /\ e.state = "insert" /\ e.sym = y + 1 /\ e.next = nx /\ e.treeNext = tn
        /\ Replaced(e.lookUp, r.lookUp, t, lu2) /\ e.tree = r.tree
        /\ OnlyTables(r, e)
    BY <1>1 DEF IsRec, Fields, OnlyTables, Replaced
  <2> HIDE DEF e
  <2>6. Replaced(e.tree, r.tree, t, tr) BY <1>8, <2>5 DEF Replaced
  <2>7. CoOK(e)
    <3> DEFINE y1 == y + 1
    <3>1. /\ Entering(cs, n, N, y1, nx, lu2, tr, tn) /\ y1 \in Nat /\ y1 <= n /\ e.sym = y1 /\ e.treeNext = tn
      BY <1>5, <2>3, <2>4, <2>5, <2>6
    <3> HIDE DEF t, N, cs, n, l, lu, tr, tn, y, y1
    <3> QED BY <1>2, <1>7, <1>14, <2>3, <2>4, <2>5, <2>6, <3>1, EnterRec
  <2> QED BY <2>2, <2>7
<1>12. CASE ~(l <= FastBits)
  <2> DEFINE rev == RevCode(r.next[l], l)
             low == rev % Pow2[FastBits]
             fresh == lu[low] = 0
             grown == GrowPath(tr, IF fresh THEN tn ELSE lu[low], IF fresh THEN tn - 2 ELSE tn, rev, l)
             nx == [r.next EXCEPT ![l] = @ + 1]
             lu2 == [lu EXCEPT ![low] = IF fresh THEN tn ELSE @]
             e == [r EXCEPT !.next = nx, !.lookUp[t] = lu2, !.tree[t] = grown.tree, !.treeNext = grown.treeNext,
                            !.sym = y + 1]
  <2>1. l \in (FastBits + 1)..MaxCode /\ l \in 1..(MaxCode + 1) /\ l # 0 BY <1>6, <1>9, <1>12
  <2>2. [Inserted EXCEPT !.sym = @ + 1] = e
    <3>1. Inserted = [r EXCEPT !.next[l] = @ + 1, !.lookUp[t][low] = IF fresh THEN tn ELSE @,
                               !.tree[t] = grown.tree, !.treeNext = grown.treeNext]
      BY <1>12, <2>1 DEF Inserted
    <3> HIDE DEF grown, low, fresh
    <3> QED BY <1>1, <1>2, <1>7, <1>8, <2>1, <3>1 DEF IsRec, Fields
  <2>3. nx \in [1..(MaxCode + 1) -> Nat]
    <3> HIDE DEF l
    <3> QED BY <1>13, <2>1
  <2>4. Entering(cs, n, N, y + 1, nx, lu2, grown.tree, grown.treeNext)
    <3>1. r.sym \in 0..(n - 1) /\ Entering(cs, n, N, r.sym, r.next, lu, tr, tn) /\ cs[r.sym] = l
      BY <1>2, <1>5
    <3> HIDE DEF t, N, cs, n, lu, tr, tn, l
    <3>2. n \in Nat /\ n <= N /\ r.next \in [1..(MaxCode + 1) -> Nat] /\ l \in (FastBits + 1)..MaxCode
      BY <1>3, <1>7, <2>1
    <3> QED BY <3>1, <3>2, EnterLong, ZenonT(60)
  <2> HIDE DEF nx, lu2, grown
  <2>5. /\ IsRec(e) /\ e.state = "insert" /\ e.sym = y + 1 /\ e.next = nx /\ e.treeNext = grown.treeNext
        /\ Replaced(e.lookUp, r.lookUp, t, lu2) /\ Replaced(e.tree, r.tree, t, grown.tree)
        /\ OnlyTables(r, e)
    BY <1>1 DEF IsRec, Fields, OnlyTables, Replaced
  <2> HIDE DEF e
  <2>6. CoOK(e)
    <3> DEFINE tr2 == grown.tree
               tn2 == grown.treeNext
               y1 == y + 1
    <3>1. /\ Entering(cs, n, N, y1, nx, lu2, tr2, tn2) /\ y1 \in Nat /\ y1 <= n /\ e.sym = y1 /\ e.treeNext = tn2
          /\ Replaced(e.tree, r.tree, t, tr2)
      BY <1>5, <2>4, <2>5
    <3> HIDE DEF t, N, cs, n, l, lu, tr, tn, y, y1, tr2, tn2
    <3> QED BY <1>2, <1>14, <2>3, <2>5, <3>1, EnterRec
  <2> QED BY <2>2, <2>6
<1> QED BY <1>10, <1>11, <1>12

LEMMA InsertKeeps == ASSUME CoInv, Insert PROVE Kept
<1>1. status = "running" /\ r.state = "insert" /\ CoOK(r) BY DEF Insert, Running, CoInv
<1>2. CASE r.sym < r.size[r.type]
  <2> DEFINE e == [Inserted EXCEPT !.sym = @ + 1]
  <2>1. Step(e) BY <1>2 DEF Insert
  <2>2. CoOK(e) BY <1>1, <1>2, InsertedKeeps
  <2>3. e.state = "insert" BY <1>1 DEF Inserted
  <2> HIDE DEF e
  <2>4. CopyOK(e, outCur, wrap) BY <2>3 DEF CopyOK
  <2> QED BY <1>1, <2>1, <2>2, <2>4, StepKeeps
<1>3. CASE ~(r.sym < r.size[r.type])
  <2> DEFINE e == AfterTable(r)
  <2>1. Step(e) BY <1>3 DEF Insert
  <2>2. IsRec(r) /\ ArraysOK(r) /\ TablesOK(r) /\ BitsOK(r) /\ NumbersOK(r) /\ r.type \in 0..2
    BY <1>1 DEF CoOK, PointOK
  <2>3. /\ IsRec(e) /\ \A x \in Fields \ {"state", "type", "counter", "fill"} : e[x] = r[x]
        /\ \/ e.state = "rle" /\ e.counter = 0 /\ e.fill = FALSE
           \/ e.state = "build" /\ e.type = 0 /\ e.counter = r.counter /\ e.fill = r.fill
           \/ e.state = "lit" /\ e.counter = r.counter /\ e.fill = r.fill
    <3>1. CASE r.type = 2
      <4>1. e = [r EXCEPT !.counter = 0, !.fill = FALSE, !.state = "rle"] BY <3>1 DEF AfterTable
      <4> QED BY <2>2, <4>1 DEF IsRec, Fields
    <3>2. CASE r.type = 1
      <4>1. e = [r EXCEPT !.type = 0, !.state = "build"] BY <3>2 DEF AfterTable
      <4> QED BY <2>2, <4>1 DEF IsRec, Fields
    <3>3. CASE r.type = 0
      <4>1. e = [r EXCEPT !.type = -1, !.state = "lit"] BY <3>3 DEF AfterTable
      <4> QED BY <2>2, <4>1 DEF IsRec, Fields
    <3>4. r.type = 0 \/ r.type = 1 \/ r.type = 2 BY <2>2
    <3> QED BY <3>1, <3>2, <3>3, <3>4
  <2> HIDE DEF e
  <2>4. SameArrays(r, e) BY <2>3 DEF SameArrays, Fields
  <2>5. BitsOK(e) BY <2>2, <2>3 DEF BitsOK, Fields
  <2>6. NumbersOK(e)
    <3>1. r.fill \in BOOLEAN /\ r.counter \in Nat BY <2>2 DEF NumbersOK
    <3>2. e.fill \in BOOLEAN BY <2>3, <3>1
    <3>3. e.counter \in Nat BY <2>3, <3>1
    <3> QED BY <2>2, <2>3, <3>2, <3>3 DEF NumbersOK, Fields
  <2>7. PointOK(e) BY <2>3 DEF PointOK
  <2>8. e.state \in States BY <2>3 DEF States, HuffTable
  <2>9. CoOK(e) BY <2>2, <2>3, <2>4, <2>5, <2>6, <2>7, <2>8, PointChange
  <2>10. CopyOK(e, outCur, wrap) BY <2>3 DEF CopyOK
  <2> QED BY <1>1, <2>1, <2>9, <2>10, StepKeeps
<1> QED BY <1>2, <1>3

\* A code's bits can be taken from the buffer.
LEMMA HuffTakes ==
  ASSUME CoOK(r), NEW t \in 0..2, NEW s, HuffReady(s), HuffTable[s] = t
  PROVE  /\ Decode(t, r.bitBuf).len \in Nat /\ Decode(t, r.bitBuf).len <= r.numBits
         /\ Decode(t, r.bitBuf).sym \in 0..(NumSyms[t + 1] - 1)
<1> DEFINE c == Decode(t, r.bitBuf)
           N == NumSyms[t + 1]
<1>1. TableOK(N, r.lookUp[t], r.tree[t]) BY DEF CoOK, TablesOK
<1>2. r.bitBuf \in Nat /\ r.numBits \in Nat /\ MaxCode \in Nat BY Format DEF CoOK, BitsOK
<1>3. /\ c.len \in 0..MaxCode /\ c.sym \in 0..(N - 1)
      /\ HoldsCode(t) => c.len <= r.numBits
  <2> HIDE DEF N
  <2> QED BY <1>1, <1>2, DecodeFacts
<1> HIDE DEF c, N
<1>4. c.len <= r.numBits
  <2>1. CASE r.numBits >= MaxCode BY <1>2, <1>3, <2>1
  <2>2. CASE HoldsCode(t) BY <1>3, <2>2
  <2> QED BY <2>1, <2>2 DEF HuffReady
<1> QED BY <1>2, <1>3, <1>4 DEF c, N

LEMMA SizesKeeps == ASSUME CoInv, Sizes PROVE Kept
<1> DEFINE k == r.counter
           v == BitsOf(Need) + MinSizes[k + 1]
           D == Drop(r, Need)
           d == [D EXCEPT !.size[k] = v, !.counter = k + 1]
           e == [d EXCEPT !.codeSize[2] = NoCodes(2), !.counter = 0, !.state = "clen"]
<1>1. status = "running" /\ r.state = "sizes" /\ r.numBits >= Need BY DEF Sizes, HasBits, Running
<1>2. CoOK(r) /\ ArraysOK(r) /\ TablesOK(r) /\ BitsOK(r) /\ NumbersOK(r) BY DEF CoInv, CoOK
<1>3. k \in 0..2 /\ r.type = 2 BY <1>1, <1>2 DEF CoOK, PointOK
<1>4. Need \in Nat /\ Need = SizeBits[k + 1]
  <2>1. r.state \in BitStates BY <1>1 DEF BitStates
  <2> QED BY <1>1, <1>2, <2>1, NeedFacts DEF Need
<1>5. v \in Nat /\ v >= 1 /\ v <= NumSyms[k + 1]
  <2>1. k + 1 \in 1..3 BY <1>3
  <2>2. MinSizes[k + 1] \in Nat /\ MinSizes[k + 1] >= 1 /\ MinSizes[k + 1] + Pow2[Need] - 1 <= NumSyms[k + 1]
        /\ NumSyms[k + 1] \in 1..512
    BY <1>4, <2>1, Tables, ZenonT(60)
  <2>3. BitsOf(Need) \in 0..(Pow2[Need] - 1) /\ Pow2[Need] \in Nat BY <1>2, <1>4, BitsOfFacts
  <2>4. \A b, m, p \in Nat, N \in 1..512 : b \in 0..(p - 1) /\ m >= 1 /\ m + p - 1 <= N =>
          b + m \in Nat /\ b + m >= 1 /\ b + m <= N
    OBVIOUS
  <2>5. BitsOf(Need) \in Nat BY <2>3
  <2> QED BY <2>2, <2>3, <2>4, <2>5
<1>6. /\ IsRec(D) /\ BitsOK(D) /\ SameArrays(r, D) /\ NumbersOK(D)
      /\ \A x \in Fields \ {"numBits", "bitBuf"} : D[x] = r[x]
  BY <1>1, <1>2, <1>4, TakeBits
<1>7. d = [Drop(r, Need) EXCEPT !.size[r.counter] = BitsOf(Need) + MinSizes[r.counter + 1], !.counter = @ + 1]
  BY <1>6 DEF IsRec, Fields
<1> HIDE DEF D, v
<1>8. /\ IsRec(d) /\ d.size = [D.size EXCEPT ![k] = v] /\ d.counter = k + 1
      /\ \A x \in Fields \ {"size", "counter"} : d[x] = D[x]
  BY <1>6 DEF IsRec, Fields
<1>9. IF d.counter < 3 THEN Step(d) ELSE Step(e) BY <1>7 DEF Sizes, D, v
<1> HIDE DEF d
<1>10. d.state = "sizes" /\ d.type = 2 BY <1>1, <1>3, <1>6, <1>8 DEF Fields
<1>11. ArraysOK(d) /\ d.size[k] = v
  <2>1. ArraysOK(D) BY <1>2, <1>6, SameArraysOK
  <2>2. D.size \in [0..2 -> Nat] /\ \A t \in 0..2 : D.size[t] <= NumSyms[t + 1] BY <2>1 DEF ArraysOK
  <2>3. d.size \in [0..2 -> Nat] /\ d.size[k] = v BY <1>3, <1>5, <1>8, <2>2
  <2>4. \A t \in 0..2 : d.size[t] <= NumSyms[t + 1] BY <1>3, <1>5, <1>8, <2>2
  <2>5. d.codeSize = D.codeSize /\ d.lenCodes = D.lenCodes /\ d.next = D.next BY <1>8 DEF Fields
  <2> QED BY <2>1, <2>3, <2>4, <2>5 DEF ArraysOK
<1>12. TablesOK(d)
  <2>1. TablesOK(D) BY <1>2, <1>6, SameArraysOK
  <2> QED BY <1>8, <2>1 DEF TablesOK, Fields
<1>13. BitsOK(d) BY <1>6, <1>8 DEF BitsOK, Fields
<1>14. k + 1 \in Nat BY <1>3
<1>15. NumbersOK(d) BY <1>6, <1>8, <1>14 DEF NumbersOK, Fields
<1>16. CASE d.counter < 3
  <2>1. d.counter \in 0..2 BY <1>3, <1>8, <1>16
  <2>2. PointOK(d) BY <1>10, <2>1 DEF PointOK
  <2>3. d.state \in States BY <1>10 DEF States, BitStates
  <2>4. CoOK(d) BY <1>8, <1>11, <1>12, <1>13, <1>15, <2>2, <2>3 DEF CoOK
  <2>5. CopyOK(d, outCur, wrap) BY <1>10 DEF CopyOK
  <2> QED BY <1>1, <1>9, <1>16, <2>4, <2>5, StepKeeps
<1>17. CASE ~(d.counter < 3)
  <2>1. k = 2 BY <1>3, <1>8, <1>17
  <2>2. /\ IsRec(e) /\ e.state = "clen" /\ e.counter = 0 /\ e.codeSize = [d.codeSize EXCEPT ![2] = NoCodes(2)]
        /\ \A x \in Fields \ {"codeSize", "counter", "state"} : e[x] = d[x]
    BY <1>8 DEF IsRec, Fields
  <2>3. Step(e) BY <1>9, <1>17
  <2> HIDE DEF e
  <2>4. e.type = 2 /\ e.size = d.size /\ e.lenCodes = d.lenCodes /\ e.next = d.next BY <1>10, <2>2 DEF Fields
  <2>5. e.counter < e.size[2] BY <1>5, <1>11, <2>1, <2>2, <2>4
  <2>6. ArraysOK(e)
    <3>1. /\ d.codeSize = [t \in 0..2 |-> d.codeSize[t]]
          /\ \A t \in 0..2 : d.codeSize[t] \in [0..(NumSyms[t + 1] - 1) -> 0..MaxCode]
      BY <1>11 DEF ArraysOK
    <3>2. NoCodes(2) \in [0..(NumSyms[2 + 1] - 1) -> 0..MaxCode]
      <4>1. 0 \in 0..MaxCode BY Format
      <4> QED BY <4>1 DEF NoCodes
    <3>3. e.codeSize = [t \in 0..2 |-> e.codeSize[t]] BY <2>2, <3>1
    <3>4. e.codeSize[2] = NoCodes(2) /\ \A t \in 0..2 : t # 2 => e.codeSize[t] = d.codeSize[t] BY <2>2, <3>1
    <3>5. \A t \in 0..2 : e.codeSize[t] \in [0..(NumSyms[t + 1] - 1) -> 0..MaxCode] BY <3>1, <3>2, <3>4
    <3> QED BY <1>11, <2>4, <3>3, <3>5 DEF ArraysOK
  <2>7. TablesOK(e) BY <1>12, <2>2 DEF TablesOK, Fields
  <2>8. BitsOK(e) BY <1>13, <2>2 DEF BitsOK, Fields
  <2>9. NumbersOK(e) BY <1>15, <2>2 DEF NumbersOK, Fields
  <2>10. PointOK(e) BY <2>2, <2>4, <2>5 DEF PointOK
  <2>11. e.state \in States BY <2>2 DEF States, BitStates
  <2>12. CoOK(e) BY <2>2, <2>6, <2>7, <2>8, <2>9, <2>10, <2>11 DEF CoOK
  <2>13. CopyOK(e, outCur, wrap) BY <2>2 DEF CopyOK
  <2> QED BY <1>1, <2>3, <2>12, <2>13, StepKeeps
<1> QED BY <1>16, <1>17

LEMMA ClenKeeps == ASSUME CoInv, Clen PROVE Kept
<1> DEFINE k == r.counter
           b == BitsOf(ClBits)
           z == Dezigzag[k + 1]
           D == Drop(r, ClBits)
           d == [D EXCEPT !.codeSize[2][z] = b, !.counter = k + 1]
           e == [d EXCEPT !.size[2] = NumSyms[3], !.state = "build"]
<1>1. status = "running" /\ r.state = "clen" /\ r.numBits >= Need BY DEF Clen, HasBits, Running
<1>2. CoOK(r) /\ ArraysOK(r) /\ TablesOK(r) /\ BitsOK(r) /\ NumbersOK(r) BY DEF CoInv, CoOK
<1>3. k \in Nat /\ k < r.size[2] /\ r.type = 2 BY <1>1, <1>2 DEF CoOK, PointOK, NumbersOK
<1>4. ClBits \in Nat /\ ClBits <= r.numBits BY <1>1, Format DEF Need
<1>5. b \in 0..MaxCode BY <1>2, <1>4, BitsOfFacts, CodeLengths
<1>6. r.size[2] \in Nat /\ r.size[2] <= NumSyms[3] /\ NumSyms[3] \in 1..512
  <2>1. 2 \in 0..2 /\ 3 \in 1..3 /\ 2 + 1 = 3 OBVIOUS
  <2>2. r.size[2] \in Nat /\ r.size[2] <= NumSyms[2 + 1] BY <1>2, <2>1 DEF ArraysOK
  <2>3. NumSyms[3] \in 1..512 BY <2>1, Tables
  <2> QED BY <2>1, <2>2, <2>3
<1>7. /\ IsRec(D) /\ BitsOK(D) /\ SameArrays(r, D) /\ NumbersOK(D)
      /\ \A x \in Fields \ {"numBits", "bitBuf"} : D[x] = r[x]
  BY <1>2, <1>4, TakeBits
<1>8. d = [Drop(r, ClBits) EXCEPT !.codeSize[2][Dezigzag[r.counter + 1]] = BitsOf(ClBits), !.counter = @ + 1]
  BY <1>7 DEF IsRec, Fields
<1> HIDE DEF D, b, z
<1>9. /\ IsRec(d) /\ d.codeSize = [D.codeSize EXCEPT ![2] = [D.codeSize[2] EXCEPT ![z] = b]] /\ d.counter = k + 1
      /\ \A x \in Fields \ {"codeSize", "counter"} : d[x] = D[x]
  BY <1>7 DEF IsRec, Fields
<1>10. IF d.counter < r.size[2] THEN Step(d) ELSE Step(e) BY <1>8 DEF Clen, D, b, z
<1> HIDE DEF d
<1>11. d.state = "clen" /\ d.type = 2 /\ d.size = r.size BY <1>1, <1>3, <1>7, <1>9 DEF Fields
<1>12. ArraysOK(d)
  <2>1. ArraysOK(D) BY <1>2, <1>7, SameArraysOK
  <2>2. /\ D.codeSize = [t \in 0..2 |-> D.codeSize[t]]
        /\ \A t \in 0..2 : D.codeSize[t] \in [0..(NumSyms[t + 1] - 1) -> 0..MaxCode]
    BY <2>1 DEF ArraysOK
  <2>3. [D.codeSize[2] EXCEPT ![z] = b] \in [0..(NumSyms[2 + 1] - 1) -> 0..MaxCode]
    <3> DEFINE f == D.codeSize[2]
               S == 0..(NumSyms[2 + 1] - 1)
    <3>1. f \in [S -> 0..MaxCode] BY <2>2
    <3> HIDE DEF f, S
    <3>2. [f EXCEPT ![z] = b] \in [S -> 0..MaxCode] BY <1>5, <3>1
    <3> QED BY <3>2 DEF f, S
  <2>4. d.codeSize = [t \in 0..2 |-> d.codeSize[t]] BY <1>9, <2>2
  <2>5. /\ d.codeSize[2] = [D.codeSize[2] EXCEPT ![z] = b]
        /\ \A t \in 0..2 : t # 2 => d.codeSize[t] = D.codeSize[t]
    BY <1>9, <2>2
  <2>6. \A t \in 0..2 : d.codeSize[t] \in [0..(NumSyms[t + 1] - 1) -> 0..MaxCode] BY <2>2, <2>3, <2>5
  <2>7. d.size = D.size /\ d.lenCodes = D.lenCodes /\ d.next = D.next BY <1>9 DEF Fields
  <2> QED BY <2>1, <2>4, <2>6, <2>7 DEF ArraysOK
<1>13. TablesOK(d)
  <2>1. TablesOK(D) BY <1>2, <1>7, SameArraysOK
  <2> QED BY <1>9, <2>1 DEF TablesOK, Fields
<1>14. BitsOK(d) BY <1>7, <1>9 DEF BitsOK, Fields
<1>15. k + 1 \in Nat BY <1>3
<1>16. NumbersOK(d) BY <1>7, <1>9, <1>15 DEF NumbersOK, Fields
<1>17. CASE d.counter < r.size[2]
  <2>1. PointOK(d) BY <1>11, <1>17 DEF PointOK
  <2>2. d.state \in States BY <1>11 DEF States, BitStates
  <2>3. CoOK(d) BY <1>9, <1>12, <1>13, <1>14, <1>16, <2>1, <2>2 DEF CoOK
  <2>4. CopyOK(d, outCur, wrap) BY <1>11 DEF CopyOK
  <2> QED BY <1>1, <1>10, <1>17, <2>3, <2>4, StepKeeps
<1>18. CASE ~(d.counter < r.size[2])
  <2>1. /\ IsRec(e) /\ e.state = "build" /\ e.size = [d.size EXCEPT ![2] = NumSyms[3]]
        /\ \A x \in Fields \ {"size", "state"} : e[x] = d[x]
    BY <1>9 DEF IsRec, Fields
  <2>2. Step(e) BY <1>10, <1>18
  <2> HIDE DEF e
  <2>3. e.type = 2 /\ e.codeSize = d.codeSize /\ e.lenCodes = d.lenCodes /\ e.next = d.next
    BY <1>11, <2>1 DEF Fields
  <2>4. ArraysOK(e)
    <3>1. d.size \in [0..2 -> Nat] /\ \A t \in 0..2 : d.size[t] <= NumSyms[t + 1] BY <1>12 DEF ArraysOK
    <3>2. NumSyms[3] \in Nat /\ NumSyms[3] <= NumSyms[2 + 1] BY <1>6
    <3>3. e.size \in [0..2 -> Nat] BY <2>1, <3>1, <3>2
    <3>4. \A t \in 0..2 : e.size[t] <= NumSyms[t + 1] BY <2>1, <3>1, <3>2
    <3> QED BY <1>12, <2>3, <3>3, <3>4 DEF ArraysOK
  <2>5. TablesOK(e) BY <1>13, <2>1 DEF TablesOK, Fields
  <2>6. BitsOK(e) BY <1>14, <2>1 DEF BitsOK, Fields
  <2>7. NumbersOK(e) BY <1>16, <2>1 DEF NumbersOK, Fields
  <2>8. PointOK(e) BY <2>1, <2>3 DEF PointOK
  <2>9. e.state \in States BY <2>1 DEF States
  <2>10. CoOK(e) BY <2>1, <2>4, <2>5, <2>6, <2>7, <2>8, <2>9 DEF CoOK
  <2>11. CopyOK(e, outCur, wrap) BY <2>1 DEF CopyOK
  <2> QED BY <1>1, <2>2, <2>10, <2>11, StepKeeps
<1> QED BY <1>17, <1>18

LEMMA LensFacts ==
  ASSUME CoOK(r)
  PROVE  /\ r.size[0] \in Nat /\ r.size[1] \in Nat /\ TotalLens \in Nat /\ TotalLens <= NumSyms[1] + NumSyms[2]
         /\ NumSyms[1] \in 1..512 /\ NumSyms[2] \in 1..512 /\ MaxLens \in Nat /\ NumSyms[1] + NumSyms[2] <= MaxLens
<1>1. 0 \in 0..2 /\ 1 \in 0..2 /\ 0 + 1 = 1 /\ 1 + 1 = 2 /\ 1 \in 1..3 /\ 2 \in 1..3 OBVIOUS
<1>2. \A t \in 0..2 : r.size[t] \in Nat /\ r.size[t] <= NumSyms[t + 1] BY DEF CoOK, ArraysOK
<1>3. r.size[0] \in Nat /\ r.size[1] \in Nat /\ r.size[0] <= NumSyms[1] /\ r.size[1] <= NumSyms[2] BY <1>1, <1>2
<1>4. NumSyms[1] \in 1..512 /\ NumSyms[2] \in 1..512 BY <1>1, Tables
<1>5. TotalLens \in Nat /\ TotalLens <= NumSyms[1] + NumSyms[2]
  <2> DEFINE a == r.size[0]
             b == r.size[1]
             M == NumSyms[1]
             N == NumSyms[2]
  <2>1. a \in Nat /\ b \in Nat /\ a <= M /\ b <= N /\ M \in 1..512 /\ N \in 1..512 BY <1>3, <1>4
  <2>2. TotalLens = a + b BY DEF TotalLens
  <2> HIDE DEF a, b, M, N
  <2>3. a + b \in Nat /\ a + b <= M + N BY <2>1
  <2> QED BY <2>2, <2>3 DEF M, N
<1>6. MaxLens \in Nat /\ NumSyms[1] + NumSyms[2] <= MaxLens BY <1>4, Repeats
<1> QED BY <1>3, <1>4, <1>5, <1>6

LEMMA MoreLensKeeps ==
  ASSUME CoInv, status = "running", NEW d, IsRec(d), BitsOK(d), ArraysOK(d), TablesOK(d), NumbersOK(d),
         d.size = r.size, d.counter <= MaxLens, Step(MoreLens(d))
  PROVE  Kept
<1> DEFINE e == MoreLens(d)
<1>1. Step(e) OBVIOUS
<1>2. /\ IsRec(e) /\ e.state = (IF d.counter < TotalLens THEN "rle" ELSE "lensDone")
      /\ \A x \in Fields \ {"state"} : e[x] = d[x]
  BY DEF MoreLens, IsRec, Fields
<1> HIDE DEF e
<1>3. SameArrays(d, e) BY <1>2 DEF SameArrays, Fields
<1>4. BitsOK(e) BY <1>2 DEF BitsOK, Fields
<1>5. NumbersOK(e) BY <1>2 DEF NumbersOK, Fields
<1>6. e.counter = d.counter /\ e.size = r.size BY <1>2 DEF Fields
<1>7. PointOK(e)
  <2>1. CASE d.counter < TotalLens BY <1>2, <1>6, <2>1 DEF PointOK, TotalLens
  <2>2. CASE ~(d.counter < TotalLens) BY <1>2, <1>6, <2>2 DEF PointOK
  <2> QED BY <2>1, <2>2
<1>8. e.state \in States BY <1>2 DEF States, HuffTable
<1>9. CoOK(e) BY <1>2, <1>3, <1>4, <1>5, <1>7, <1>8, PointChange
<1>10. CopyOK(e, outCur, wrap) BY <1>2 DEF CopyOK
<1> QED BY <1>1, <1>9, <1>10, StepKeeps

LEMMA LensDoneKeeps == ASSUME CoInv, LensDone PROVE Kept
<1>1. status = "running" /\ r.state = "lensDone" BY DEF LensDone, Running
<1>2. CoOK(r) /\ IsRec(r) /\ ArraysOK(r) /\ TablesOK(r) /\ BitsOK(r) /\ NumbersOK(r) BY DEF CoInv, CoOK
<1>3. CASE r.counter # TotalLens
  <2>1. ReturnAt(pos, [r EXCEPT !.state = "failed"], "failed") BY <1>3 DEF LensDone, Fail, Return
  <2>2. pos \in pos..inEnd BY DEF CoInv, InOK
  <2> QED BY <1>1, <1>2, <2>1, <2>2, FailKeeps
<1>4. CASE r.counter = TotalLens
  <2> DEFINE f == [t \in 0..2 |->
               CASE t = 0 -> [i \in DOMAIN r.codeSize[0] |-> IF i < r.size[0] THEN r.lenCodes[i] ELSE r.codeSize[0][i]]
                 [] t = 1 -> [i \in DOMAIN r.codeSize[1] |->
                                IF i < r.size[1] THEN r.lenCodes[r.size[0] + i] ELSE r.codeSize[1][i]]
                 [] OTHER -> r.codeSize[2]]
             e == [r EXCEPT !.codeSize = f, !.type = 1, !.state = "build"]
  <2>1. Step(e) BY <1>4 DEF LensDone
  <2>2. \A t \in 0..2 : f[t] \in [0..(NumSyms[t + 1] - 1) -> 0..MaxCode]
    <3>1. \A t \in 0..2 : r.codeSize[t] \in [0..(NumSyms[t + 1] - 1) -> 0..MaxCode] BY <1>2 DEF ArraysOK
    <3>2. r.lenCodes \in [0..(MaxLens - 1) -> 0..MaxCode] BY <1>2 DEF ArraysOK
    <3>3. /\ r.size[0] \in Nat /\ r.size[1] \in Nat /\ r.size[0] <= NumSyms[1] /\ r.size[1] <= NumSyms[2]
          /\ NumSyms[1] \in 1..512 /\ NumSyms[2] \in 1..512 /\ MaxLens \in Nat /\ NumSyms[1] + NumSyms[2] <= MaxLens
      <4>1. 0 \in 0..2 /\ 1 \in 0..2 /\ 0 + 1 = 1 /\ 1 + 1 = 2 OBVIOUS
      <4>2. \A t \in 0..2 : r.size[t] <= NumSyms[t + 1] BY <1>2 DEF ArraysOK
      <4> QED BY <1>2, <4>1, <4>2, LensFacts
    <3> DEFINE g == r.lenCodes
               c0 == r.codeSize[0]
               c1 == r.codeSize[1]
               s0 == r.size[0]
               s1 == r.size[1]
               S0 == 0..(NumSyms[1] - 1)
               S1 == 0..(NumSyms[2] - 1)
    <3>4. c0 \in [S0 -> 0..MaxCode] /\ c1 \in [S1 -> 0..MaxCode]
      <4>1. 0 \in 0..2 /\ 1 \in 0..2 /\ 0 + 1 = 1 /\ 1 + 1 = 2 OBVIOUS
      <4>2. r.codeSize[0] \in [0..(NumSyms[0 + 1] - 1) -> 0..MaxCode] BY <3>1, <4>1
      <4>3. r.codeSize[1] \in [0..(NumSyms[1 + 1] - 1) -> 0..MaxCode] BY <3>1, <4>1
      <4> QED BY <4>1, <4>2, <4>3
    <3>5. \A i \in S0 : i < s0 => i \in 0..(MaxLens - 1)
      <4> DEFINE M == NumSyms[1]
                 N == NumSyms[2]
      <4> SUFFICES ASSUME NEW i \in 0..(M - 1) PROVE i \in 0..(MaxLens - 1) BY DEF S0
      <4>1. M \in 1..512 /\ N \in 1..512 /\ MaxLens \in Nat /\ M + N <= MaxLens BY <3>3
      <4> HIDE DEF M, N
      <4> QED BY <4>1
    <3>6. \A i \in S1 : i < s1 => s0 + i \in 0..(MaxLens - 1)
      <4> DEFINE M == NumSyms[1]
                 N == NumSyms[2]
      <4> SUFFICES ASSUME NEW i \in 0..(N - 1) PROVE s0 + i \in 0..(MaxLens - 1) BY DEF S1
      <4>1. M \in 1..512 /\ N \in 1..512 /\ MaxLens \in Nat /\ M + N <= MaxLens /\ s0 \in Nat /\ s0 <= M BY <3>3
      <4> HIDE DEF M, N, s0
      <4> QED BY <4>1
    <3>7. f[0] = [i \in S0 |-> IF i < s0 THEN g[i] ELSE c0[i]]
      <4>1. f[0] = [i \in DOMAIN c0 |-> IF i < s0 THEN g[i] ELSE c0[i]] OBVIOUS
      <4> QED BY <3>4, <4>1
    <3>8. f[1] = [i \in S1 |-> IF i < s1 THEN g[s0 + i] ELSE c1[i]]
      <4>1. f[1] = [i \in DOMAIN c1 |-> IF i < s1 THEN g[s0 + i] ELSE c1[i]] OBVIOUS
      <4> QED BY <3>4, <4>1
    <3>9. f[2] = r.codeSize[2] OBVIOUS
    <3>10. g \in [0..(MaxLens - 1) -> 0..MaxCode] BY <3>2
    <3> HIDE DEF f, g, c0, c1, s0, s1, S0, S1
    <3>11. f[0] \in [S0 -> 0..MaxCode] BY <3>4, <3>5, <3>7, <3>10
    <3>12. f[1] \in [S1 -> 0..MaxCode] BY <3>4, <3>6, <3>8, <3>10
    <3> SUFFICES ASSUME NEW t \in 0..2 PROVE f[t] \in [0..(NumSyms[t + 1] - 1) -> 0..MaxCode] OBVIOUS
    <3>13. CASE t = 0
      <4>1. 0..(NumSyms[t + 1] - 1) = S0 BY <3>13 DEF S0
      <4> QED BY <3>11, <3>13, <4>1
    <3>14. CASE t = 1
      <4>1. 0..(NumSyms[t + 1] - 1) = S1 BY <3>14 DEF S1
      <4> QED BY <3>12, <3>14, <4>1
    <3>15. CASE t = 2 BY <3>1, <3>9, <3>15
    <3> QED BY <3>13, <3>14, <3>15
  <2>3. f = [t \in 0..2 |-> f[t]] OBVIOUS
  <2> HIDE DEF f
  <2>4. /\ IsRec(e) /\ e.state = "build" /\ e.type = 1 /\ e.codeSize = f
        /\ \A x \in Fields \ {"codeSize", "type", "state"} : e[x] = r[x]
    BY <1>2 DEF IsRec, Fields
  <2> HIDE DEF e
  <2>5. ArraysOK(e)
    <3>1. e.size = r.size /\ e.lenCodes = r.lenCodes /\ e.next = r.next BY <2>4 DEF Fields
    <3> QED BY <1>2, <2>2, <2>3, <2>4, <3>1 DEF ArraysOK
  <2>6. TablesOK(e) BY <1>2, <2>4 DEF TablesOK, Fields
  <2>7. BitsOK(e) BY <1>2, <2>4 DEF BitsOK, Fields
  <2>8. NumbersOK(e) BY <1>2, <2>4 DEF NumbersOK, Fields
  <2>9. PointOK(e) BY <2>4 DEF PointOK
  <2>10. e.state \in States BY <2>4 DEF States
  <2>11. CoOK(e) BY <2>4, <2>5, <2>6, <2>7, <2>8, <2>9, <2>10 DEF CoOK
  <2>12. CopyOK(e, outCur, wrap) BY <2>4 DEF CopyOK
  <2> QED BY <1>1, <2>1, <2>11, <2>12, StepKeeps
<1> QED BY <1>3, <1>4

LEMMA RleKeeps == ASSUME CoInv, Rle PROVE Kept
<1> DEFINE c == Decode(2, r.bitBuf)
           k == r.counter
           D == Drop(r, c.len)
           d == [D EXCEPT !.dist = c.sym, !.fill = FALSE]
           g == [d EXCEPT !.lenCodes[k] = c.sym, !.counter = @ + 1]
           e == [d EXCEPT !.state = "rleExtra"]
<1>1. HuffReady("rle") /\ status = "running" /\ r.state = "rle" BY DEF Rle, HuffReady, Running
<1>2. CoOK(r) /\ IsRec(r) /\ ArraysOK(r) /\ TablesOK(r) /\ BitsOK(r) /\ NumbersOK(r) /\ PointOK(r) BY DEF CoInv, CoOK
<1>3. 2 \in 0..2 /\ HuffTable["rle"] = 2 BY DEF HuffTable
<1>4. c.len \in Nat /\ c.len <= r.numBits /\ c.sym \in 0..(NumSyms[2 + 1] - 1) BY <1>1, <1>2, <1>3, HuffTakes
<1>5. k \in Nat /\ (k < TotalLens \/ k = 0) BY <1>1, <1>2 DEF NumbersOK, PointOK, TotalLens
<1>6. /\ IsRec(D) /\ BitsOK(D) /\ SameArrays(r, D) /\ NumbersOK(D)
      /\ \A x \in Fields \ {"numBits", "bitBuf"} : D[x] = r[x]
  BY <1>2, <1>4, TakeBits
<1>7. IF c.sym <= MaxCode THEN Step(MoreLens(g))
      ELSE IF c.sym = MaxCode + 1 /\ k = 0 THEN Fail(d) ELSE Step(e)
  BY DEF Rle
<1>8. c.sym \in Nat /\ c.sym <= MaxCode + 3 /\ MaxCode \in Nat
  <2>1. 3 \in 1..3 /\ 2 + 1 = 3 OBVIOUS
  <2>2. NumSyms[3] \in 1..512 /\ NumSyms[3] <= MaxCode + 4 /\ MaxCode \in Nat BY <2>1, Tables, Format
  <2>3. c.sym \in 0..(NumSyms[3] - 1) BY <1>4, <2>1
  <2> HIDE DEF c
  <2> DEFINE y == c.sym
             N == NumSyms[3]
  <2>4. y \in 0..(N - 1) /\ N \in 1..512 /\ N <= MaxCode + 4 /\ MaxCode \in Nat BY <2>2, <2>3
  <2> HIDE DEF y, N
  <2>5. y \in Nat /\ y <= MaxCode + 3 BY <2>4
  <2> QED BY <2>2, <2>5 DEF y
<1> HIDE DEF c, D
<1>9. /\ IsRec(d) /\ d.dist = c.sym /\ d.fill = FALSE
      /\ \A x \in Fields \ {"dist", "fill"} : d[x] = D[x]
  BY <1>6 DEF IsRec, Fields
<1> HIDE DEF d
<1>10. SameArrays(D, d) BY <1>9 DEF SameArrays, Fields
<1>11. SameArrays(r, d) BY <1>6, <1>10 DEF SameArrays
<1>12. ArraysOK(d) /\ TablesOK(d) BY <1>2, <1>11, SameArraysOK
<1>13. BitsOK(d) BY <1>6, <1>9 DEF BitsOK, Fields
<1>14. NumbersOK(d) BY <1>6, <1>8, <1>9 DEF NumbersOK, Fields
<1>15. d.counter = k /\ d.size = r.size BY <1>6, <1>9 DEF Fields
<1>16. CASE c.sym <= MaxCode
  <2>1. Step(MoreLens(g)) BY <1>7, <1>16
  <2>2. /\ IsRec(g) /\ g.counter = k + 1 /\ g.lenCodes = [d.lenCodes EXCEPT ![k] = c.sym]
        /\ \A x \in Fields \ {"counter", "lenCodes"} : g[x] = d[x]
    BY <1>9, <1>15 DEF IsRec, Fields
  <2> HIDE DEF g
  <2>3. ArraysOK(g)
    <3>1. d.lenCodes \in [0..(MaxLens - 1) -> 0..MaxCode] BY <1>12 DEF ArraysOK
    <3>2. c.sym \in 0..MaxCode BY <1>8, <1>16
    <3>3. g.lenCodes \in [0..(MaxLens - 1) -> 0..MaxCode] BY <2>2, <3>1, <3>2
    <3>4. g.size = d.size /\ g.codeSize = d.codeSize /\ g.next = d.next BY <2>2 DEF Fields
    <3> QED BY <1>12, <3>3, <3>4 DEF ArraysOK
  <2>4. TablesOK(g) BY <1>12, <2>2 DEF TablesOK, Fields
  <2>5. BitsOK(g) BY <1>13, <2>2 DEF BitsOK, Fields
  <2>6. k + 1 \in Nat BY <1>5
  <2>7. NumbersOK(g) BY <1>14, <2>2, <2>6 DEF NumbersOK, Fields
  <2>8. g.size = r.size BY <1>15, <2>2 DEF Fields
  <2>9. g.counter <= MaxLens
    <3>1. /\ TotalLens \in Nat /\ TotalLens <= NumSyms[1] + NumSyms[2] /\ NumSyms[1] \in 1..512 /\ NumSyms[2] \in 1..512
          /\ MaxLens \in Nat /\ NumSyms[1] + NumSyms[2] <= MaxLens
      BY <1>2, LensFacts
    <3> DEFINE M == NumSyms[1]
               N == NumSyms[2]
               T == TotalLens
               L == MaxLens
    <3>2. /\ M \in 1..512 /\ N \in 1..512 /\ T <= M + N /\ M + N <= L /\ T \in Nat /\ L \in Nat
          /\ k \in Nat /\ (k < T \/ k = 0)
      BY <1>5, <3>1
    <3> HIDE DEF k, M, N, T, L
    <3>4. k + 1 <= L BY <3>2
    <3>3. k + 1 <= MaxLens BY <3>4 DEF L
    <3> QED BY <2>2, <3>3
  <2> QED BY <1>1, <2>1, <2>2, <2>3, <2>4, <2>5, <2>7, <2>8, <2>9, MoreLensKeeps
<1>17. CASE ~(c.sym <= MaxCode) /\ c.sym = MaxCode + 1 /\ k = 0
  <2>1. ReturnAt(pos, [d EXCEPT !.state = "failed"], "failed") BY <1>7, <1>17 DEF Fail, Return
  <2>2. pos \in pos..inEnd BY DEF CoInv, InOK
  <2> QED BY <1>1, <1>9, <1>12, <1>13, <1>14, <2>1, <2>2, FailKeeps
<1>18. CASE ~(c.sym <= MaxCode) /\ ~(c.sym = MaxCode + 1 /\ k = 0)
  <2>1. Step(e) BY <1>7, <1>18
  <2>2. IsRec(e) /\ e.state = "rleExtra" /\ \A x \in Fields \ {"state"} : e[x] = d[x] BY <1>9 DEF IsRec, Fields
  <2> HIDE DEF e
  <2>3. e.counter = k /\ e.size = r.size /\ e.dist = c.sym BY <1>9, <1>15, <2>2 DEF Fields
  <2>4. SameArrays(d, e) BY <2>2 DEF SameArrays, Fields
  <2>5. BitsOK(e) BY <1>13, <2>2 DEF BitsOK, Fields
  <2>6. NumbersOK(e) BY <1>14, <2>2 DEF NumbersOK, Fields
  <2>7. PointOK(e)
    <3>1. e.dist \in (MaxCode + 1)..(MaxCode + 3) BY <1>8, <1>18, <2>3
    <3>2. e.dist = MaxCode + 1 => e.counter >= 1 BY <1>5, <1>18, <2>3
    <3>3. e.counter < e.size[0] + e.size[1] \/ e.counter = 0 BY <1>5, <2>3 DEF TotalLens
    <3> QED BY <2>2, <3>1, <3>2, <3>3 DEF PointOK
  <2>8. e.state \in States BY <2>2 DEF States, BitStates
  <2>9. CoOK(e) BY <1>12, <2>2, <2>4, <2>5, <2>6, <2>7, <2>8, PointChange
  <2>10. CopyOK(e, outCur, wrap) BY <2>2 DEF CopyOK
  <2> QED BY <1>1, <2>1, <2>9, <2>10, StepKeeps
<1> QED BY <1>16, <1>17, <1>18

LEMMA RleExtraKeeps == ASSUME CoInv, RleExtra PROVE Kept
<1> DEFINE k == r.counter
           i == r.dist - MaxCode
           s == BitsOf(Need) + RepBase[i]
           v == RepeatedLen(r.dist)
           D == Drop(r, Need)
           g == [D EXCEPT !.lenCodes = [j \in DOMAIN @ |-> IF j \in k..(k + s - 1) THEN v ELSE @[j]],
                          !.counter = @ + s]
<1>1. status = "running" /\ r.state = "rleExtra" /\ r.numBits >= Need BY DEF RleExtra, HasBits, Running
<1>2. CoOK(r) /\ IsRec(r) /\ ArraysOK(r) /\ TablesOK(r) /\ BitsOK(r) /\ NumbersOK(r) /\ PointOK(r) BY DEF CoInv, CoOK
<1>3. Step(MoreLens(g)) BY DEF RleExtra
<1>4. Need \in Nat /\ Need = RepBits[i]
  <2>1. r.state \in BitStates BY <1>1 DEF BitStates
  <2> QED BY <1>1, <1>2, <2>1, NeedFacts DEF Need
<1>5. i \in 1..3 /\ k \in Nat /\ (k < TotalLens \/ k = 0) /\ (r.dist = MaxCode + 1 => k >= 1)
  <2>1. r.dist \in (MaxCode + 1)..(MaxCode + 3) /\ MaxCode \in Nat BY <1>1, <1>2, Format DEF PointOK
  <2>2. i \in 1..3 BY <2>1
  <2> QED BY <1>1, <1>2, <2>2 DEF PointOK, NumbersOK, TotalLens
<1>6. BitsOf(Need) \in 0..(Pow2[Need] - 1) /\ BitsOf(Need) \in Nat /\ Pow2[Need] \in Nat BY <1>2, <1>4, BitsOfFacts
<1>7. s \in Nat /\ k + s \in Nat /\ k + s <= MaxLens
  <2>1. RepBase[i] \in Nat /\ NumSyms[1] + NumSyms[2] - 1 + (RepBase[i] + Pow2[Need] - 1) <= MaxLens
    BY <1>4, <1>5, Repeats
  <2>2. /\ TotalLens \in Nat /\ TotalLens <= NumSyms[1] + NumSyms[2] /\ NumSyms[1] \in 1..512 /\ NumSyms[2] \in 1..512
        /\ MaxLens \in Nat
    BY <1>2, LensFacts
  <2> DEFINE M == NumSyms[1]
             N == NumSyms[2]
             b == RepBase[i]
             p == Pow2[Need]
             q == BitsOf(Need)
  <2>3. /\ M \in 1..512 /\ N \in 1..512 /\ TotalLens <= M + N /\ M + N - 1 + (b + p - 1) <= MaxLens
        /\ b \in Nat /\ p \in Nat /\ q \in 0..(p - 1) /\ q \in Nat
    BY <1>6, <2>1, <2>2
  <2> HIDE DEF k, i, M, N, b, p, q
  <2>4. k \in Nat /\ k <= M + N - 1 BY <1>5, <2>2, <2>3
  <2>5. q + b \in Nat /\ q + b <= b + p - 1 BY <2>3
  <2>6. q + b \in Nat /\ k + (q + b) \in Nat /\ k + (q + b) <= MaxLens
    <3> DEFINE x == q + b
               y == b + p - 1
               z == M + N - 1
    <3>1. k \in Nat /\ k <= z /\ x \in Nat /\ x <= y /\ z + y <= MaxLens /\ y \in Int /\ z \in Int /\ MaxLens \in Nat
      BY <2>2, <2>3, <2>4, <2>5
    <3> HIDE DEF x, y, z
    <3>2. x \in Nat /\ k + x \in Nat /\ k + x <= MaxLens BY <3>1
    <3> QED BY <3>2 DEF x
  <2> QED BY <2>6 DEF q, b
<1>8. v \in 0..MaxCode
  <2>1. CASE r.dist = MaxCode + 1
    <3>1. TotalLens \in Nat /\ TotalLens <= NumSyms[1] + NumSyms[2] /\ NumSyms[1] \in 1..512 /\ NumSyms[2] \in 1..512
          /\ MaxLens \in Nat /\ NumSyms[1] + NumSyms[2] <= MaxLens
      BY <1>2, LensFacts
    <3> DEFINE M == NumSyms[1]
               N == NumSyms[2]
    <3>2. M \in 1..512 /\ N \in 1..512 /\ TotalLens <= M + N /\ M + N <= MaxLens BY <3>1
    <3>3. k >= 1 /\ k < TotalLens BY <1>5, <2>1
    <3>4. k - 1 \in 0..(MaxLens - 1)
      <4> HIDE DEF k, M, N
      <4> QED BY <1>5, <3>1, <3>2, <3>3
    <3>5. r.lenCodes \in [0..(MaxLens - 1) -> 0..MaxCode] BY <1>2 DEF ArraysOK
    <3>6. v = r.lenCodes[k - 1] BY <2>1 DEF RepeatedLen
    <3> QED BY <3>4, <3>5, <3>6
  <2>2. CASE r.dist # MaxCode + 1 BY <2>2, Format DEF RepeatedLen
  <2> QED BY <2>1, <2>2
<1>9. /\ IsRec(D) /\ BitsOK(D) /\ SameArrays(r, D) /\ NumbersOK(D)
      /\ \A x \in Fields \ {"numBits", "bitBuf"} : D[x] = r[x]
  BY <1>1, <1>2, <1>4, TakeBits
<1> HIDE DEF D, s, v
<1>10. /\ IsRec(g) /\ g.lenCodes = [j \in DOMAIN D.lenCodes |-> IF j \in k..(k + s - 1) THEN v ELSE D.lenCodes[j]]
       /\ g.counter = k + s
       /\ \A x \in Fields \ {"counter", "lenCodes"} : g[x] = D[x]
  BY <1>9 DEF IsRec, Fields
<1> HIDE DEF g
<1>11. ArraysOK(g)
  <2>1. ArraysOK(D) BY <1>2, <1>9, SameArraysOK
  <2>2. D.lenCodes \in [0..(MaxLens - 1) -> 0..MaxCode] BY <2>1 DEF ArraysOK
  <2>3. g.lenCodes = [j \in 0..(MaxLens - 1) |-> IF j \in k..(k + s - 1) THEN v ELSE D.lenCodes[j]] BY <1>10, <2>2
  <2>4. g.lenCodes \in [0..(MaxLens - 1) -> 0..MaxCode] BY <1>8, <2>2, <2>3
  <2>5. g.size = D.size /\ g.codeSize = D.codeSize /\ g.next = D.next BY <1>10 DEF Fields
  <2> QED BY <2>1, <2>4, <2>5 DEF ArraysOK
<1>12. TablesOK(g)
  <2>1. TablesOK(D) BY <1>2, <1>9, SameArraysOK
  <2> QED BY <1>10, <2>1 DEF TablesOK, Fields
<1>13. BitsOK(g) BY <1>9, <1>10 DEF BitsOK, Fields
<1>14. NumbersOK(g) BY <1>7, <1>9, <1>10 DEF NumbersOK, Fields
<1>15. g.size = r.size /\ g.counter <= MaxLens BY <1>7, <1>9, <1>10 DEF Fields
<1> QED BY <1>1, <1>3, <1>10, <1>11, <1>12, <1>13, <1>14, <1>15, MoreLensKeeps

\* Taking bits at the loop's top, and leaving it for a match
LEMMA LitTakes ==
  ASSUME NEW d, CoOK(d), d.state = "lit", NEW n \in Nat, n <= d.numBits
  PROVE  CoOK(Drop(d, n)) /\ Drop(d, n).state = "lit" /\ Drop(d, n).numBits = d.numBits - n
<1> DEFINE e == Drop(d, n)
<1>1. IsRec(d) /\ BitsOK(d) /\ ArraysOK(d) /\ TablesOK(d) /\ NumbersOK(d) BY DEF CoOK
<1>2. n \in 0..d.numBits BY <1>1 DEF BitsOK
<1>3. /\ IsRec(e) /\ BitsOK(e) /\ SameArrays(d, e) /\ e.numBits = d.numBits - n
      /\ \A x \in Fields \ {"numBits", "bitBuf"} : e[x] = d[x]
  BY <1>1, <1>2, DropOK
<1> HIDE DEF e
<1>4. e.state = "lit" BY <1>3 DEF Fields
<1>5. NumbersOK(e) BY <1>1, <1>3 DEF NumbersOK, Fields
<1>6. PointOK(e) BY <1>4 DEF PointOK
<1>7. e.state \in States BY <1>4 DEF States
<1>8. CoOK(e) BY <1>1, <1>3, <1>5, <1>6, <1>7, PointChange
<1> QED BY <1>3, <1>4, <1>8 DEF e

LEMMA ToMatch ==
  ASSUME NEW d, CoOK(d), NEW y \in EOB..(NumSyms[1] - 1)
  PROVE  CoOK([d EXCEPT !.counter = y, !.state = "match"]) /\ [d EXCEPT !.counter = y, !.state = "match"].state = "match"
<1> DEFINE e == [d EXCEPT !.counter = y, !.state = "match"]
<1>1. IsRec(d) /\ BitsOK(d) /\ ArraysOK(d) /\ TablesOK(d) /\ NumbersOK(d) BY DEF CoOK
<1>2. IsRec(e) /\ e.counter = y /\ e.state = "match" /\ \A x \in Fields \ {"counter", "state"} : e[x] = d[x]
  BY <1>1 DEF IsRec, Fields
<1> HIDE DEF e
<1>3. y \in Nat BY Format DEF EOB
<1>4. SameArrays(d, e) BY <1>2 DEF SameArrays, Fields
<1>5. BitsOK(e) BY <1>1, <1>2 DEF BitsOK, Fields
<1>6. NumbersOK(e) BY <1>1, <1>2, <1>3 DEF NumbersOK, Fields
<1>7. PointOK(e) BY <1>2 DEF PointOK
<1>8. e.state \in States BY <1>2 DEF States
<1>9. CoOK(e) BY <1>1, <1>2, <1>4, <1>5, <1>6, <1>7, <1>8, PointChange
<1> QED BY <1>2, <1>9 DEF e

\* What the fast loop makes of the bits, with room for two bytes of output
LEMMA LitFastFacts ==
  ASSUME CoOK(r), NEW d, CoOK(d), d.state = "lit", d.numBits >= 2 * MaxCode,
         buf \in Seq(Byte), outCur \in Nat, outCur + 2 <= Len(buf)
  PROVE  LET s == LitFast(d) IN
         /\ CoOK(s.r) /\ s.r.state \in {"lit", "match"}
         /\ s.ok => s.buf \in Seq(Byte) /\ Len(s.buf) = Len(buf) /\ s.n \in 0..2
<1> DEFINE s == LitFast(d)
           N == NumSyms[1]
           c1 == Decode(0, d.bitBuf)
           d1 == Drop(d, c1.len)
           c2 == Decode(0, d1.bitBuf)
           d2 == Drop(d1, c2.len)
           first == [buf EXCEPT ![outCur + 1] = c1.sym]
           second == [first EXCEPT ![outCur + 2] = c2.sym]
           m1 == [d1 EXCEPT !.counter = c1.sym, !.state = "match"]
           m2 == [d2 EXCEPT !.counter = c2.sym, !.state = "match"]
<1>1. MaxCode \in Nat /\ EOB \in Nat BY Format DEF EOB
<1>2. TableOK(N, r.lookUp[0], r.tree[0])
  <2>1. 0 \in 0..2 /\ 0 + 1 = 1 OBVIOUS
  <2>2. TableOK(NumSyms[0 + 1], r.lookUp[0], r.tree[0]) BY <2>1 DEF CoOK, TablesOK
  <2> QED BY <2>1, <2>2
<1>3. N \in 1..512 BY Tables
<1>4. d.bitBuf \in Nat /\ d.numBits \in Nat BY DEF CoOK, BitsOK
<1>5. c1.len \in 0..MaxCode /\ c1.sym \in 0..(N - 1)
  <2> HIDE DEF N
  <2> QED BY <1>2, <1>4, DecodeFacts
<1>6. c1.len \in Nat /\ c1.len <= d.numBits /\ c1.len <= MaxCode
  <2> HIDE DEF c1
  <2> QED BY <1>1, <1>4, <1>5
<1>7. CoOK(d1) /\ d1.state = "lit" /\ d1.numBits = d.numBits - c1.len
  <2> HIDE DEF c1
  <2> QED BY <1>6, LitTakes
<1> HIDE DEF d1
<1>8. d1.bitBuf \in Nat /\ d1.numBits \in Nat BY <1>7 DEF CoOK, BitsOK
<1>9. c2.len \in 0..MaxCode /\ c2.sym \in 0..(N - 1)
  <2> HIDE DEF N
  <2> QED BY <1>2, <1>8, DecodeFacts
<1>10. c2.len \in Nat /\ c2.len <= d1.numBits
  <2> HIDE DEF c1, c2
  <2> QED BY <1>1, <1>4, <1>6, <1>7, <1>8, <1>9
<1>11. CoOK(d2) /\ d2.state = "lit"
  <2> HIDE DEF c2
  <2> QED BY <1>7, <1>10, LitTakes
<1> HIDE DEF d2
<1>12. /\ c1.len = 0 => s.r = d1 /\ ~s.ok
       /\ c1.len # 0 /\ c1.sym >= EOB => s = [r |-> m1, buf |-> buf, n |-> 0, ok |-> TRUE]
       /\ c1.len # 0 /\ ~(c1.sym >= EOB) /\ c2.len = 0 => s.r = d2 /\ ~s.ok
       /\ c1.len # 0 /\ ~(c1.sym >= EOB) /\ c2.len # 0 /\ c2.sym >= EOB =>
            s = [r |-> m2, buf |-> first, n |-> 1, ok |-> TRUE]
       /\ c1.len # 0 /\ ~(c1.sym >= EOB) /\ c2.len # 0 /\ ~(c2.sym >= EOB) =>
            s = [r |-> d2, buf |-> second, n |-> 2, ok |-> TRUE]
  BY DEF LitFast, d1, d2
<1>13. c1.sym >= EOB => CoOK(m1) /\ m1.state = "match"
  <2> SUFFICES ASSUME c1.sym >= EOB PROVE CoOK(m1) /\ m1.state = "match" OBVIOUS
  <2> DEFINE y == c1.sym
  <2>1. y \in EOB..(NumSyms[1] - 1)
    <3>1. y \in 0..(N - 1) /\ y >= EOB BY <1>5
    <3>2. y \in EOB..(N - 1)
      <4> HIDE DEF N, y
      <4> QED BY <1>1, <1>3, <3>1
    <3> QED BY <3>2
  <2> HIDE DEF y
  <2>2. CoOK([d1 EXCEPT !.counter = y, !.state = "match"]) /\ [d1 EXCEPT !.counter = y, !.state = "match"].state = "match"
    BY <1>7, <2>1, ToMatch
  <2> QED BY <2>2 DEF y
<1>14. c2.sym >= EOB => CoOK(m2) /\ m2.state = "match"
  <2> SUFFICES ASSUME c2.sym >= EOB PROVE CoOK(m2) /\ m2.state = "match" OBVIOUS
  <2> DEFINE y == c2.sym
  <2>1. y \in EOB..(NumSyms[1] - 1)
    <3>1. y \in 0..(N - 1) /\ y >= EOB BY <1>9
    <3>2. y \in EOB..(N - 1)
      <4> HIDE DEF N, y
      <4> QED BY <1>1, <1>3, <3>1
    <3> QED BY <3>2
  <2> HIDE DEF y
  <2>2. CoOK([d2 EXCEPT !.counter = y, !.state = "match"]) /\ [d2 EXCEPT !.counter = y, !.state = "match"].state = "match"
    BY <1>11, <2>1, ToMatch
  <2> QED BY <2>2 DEF y
<1>15. ~(c1.sym >= EOB) => c1.sym \in Byte
  <2> DEFINE y == c1.sym
  <2>1. y \in 0..(N - 1) BY <1>5
  <2>2. y \in Int BY <2>1
  <2>3. ~(y >= EOB) => y \in 0..(EOB - 1)
    <3> HIDE DEF N, y
    <3> QED BY <1>1, <1>3, <2>1, <2>2
  <2> QED BY <2>3 DEF Byte, EOB
<1>16. ~(c2.sym >= EOB) => c2.sym \in Byte
  <2> DEFINE y == c2.sym
  <2>1. y \in 0..(N - 1) BY <1>9
  <2>2. y \in Int BY <2>1
  <2>3. ~(y >= EOB) => y \in 0..(EOB - 1)
    <3> HIDE DEF N, y
    <3> QED BY <1>1, <1>3, <2>1, <2>2
  <2> QED BY <2>3 DEF Byte, EOB
<1> HIDE DEF c1, c2, m1, m2
<1>17. c1.sym \in Byte => first \in Seq(Byte) /\ Len(first) = Len(buf) OBVIOUS
<1> HIDE DEF first
<1>18. c1.sym \in Byte /\ c2.sym \in Byte => second \in Seq(Byte) /\ Len(second) = Len(buf) BY <1>17
<1> HIDE DEF second, s
<1> QED
  <2>1. CASE c1.len = 0
    <3>1. s.r = d1 /\ ~s.ok BY <1>12, <2>1
    <3> QED BY <1>7, <3>1 DEF s
  <2>2. CASE c1.len # 0 /\ c1.sym >= EOB
    <3>1. s = [r |-> m1, buf |-> buf, n |-> 0, ok |-> TRUE] BY <1>12, <2>2
    <3> QED BY <1>13, <2>2, <3>1 DEF s
  <2>3. CASE c1.len # 0 /\ ~(c1.sym >= EOB) /\ c2.len = 0
    <3>1. s.r = d2 /\ ~s.ok BY <1>12, <2>3
    <3> QED BY <1>11, <3>1 DEF s
  <2>4. CASE c1.len # 0 /\ ~(c1.sym >= EOB) /\ c2.len # 0 /\ c2.sym >= EOB
    <3>1. s = [r |-> m2, buf |-> first, n |-> 1, ok |-> TRUE] BY <1>12, <2>4
    <3> QED BY <1>14, <1>15, <1>17, <2>4, <3>1 DEF s
  <2>5. CASE c1.len # 0 /\ ~(c1.sym >= EOB) /\ c2.len # 0 /\ ~(c2.sym >= EOB)
    <3>1. s = [r |-> d2, buf |-> second, n |-> 2, ok |-> TRUE] BY <1>12, <2>5
    <3> QED BY <1>11, <1>15, <1>16, <1>18, <2>5, <3>1 DEF s
  <2> QED BY <2>1, <2>2, <2>3, <2>4, <2>5

LEMMA LitKeeps == ASSUME CoInv, Lit PROVE Kept
<1>1. status = "running" /\ r.state = "lit" BY DEF Lit, Running
<1>2. CoOK(r) /\ IsRec(r) /\ ArraysOK(r) /\ TablesOK(r) /\ BitsOK(r) /\ NumbersOK(r) BY DEF CoInv, CoOK
<1>3. CASE NearTheEnd
  <2> DEFINE e == [r EXCEPT !.state = "litSlow", !.fill = FALSE]
  <2>1. Step(e) BY <1>3 DEF Lit
  <2>2. IsRec(e) /\ e.state = "litSlow" /\ e.fill = FALSE /\ \A x \in Fields \ {"state", "fill"} : e[x] = r[x]
    BY <1>2 DEF IsRec, Fields
  <2> HIDE DEF e
  <2>3. SameArrays(r, e) BY <2>2 DEF SameArrays, Fields
  <2>4. BitsOK(e) BY <1>2, <2>2 DEF BitsOK, Fields
  <2>5. NumbersOK(e) BY <1>2, <2>2 DEF NumbersOK, Fields
  <2>6. PointOK(e) BY <2>2 DEF PointOK
  <2>7. e.state \in States BY <2>2 DEF States, HuffTable
  <2>8. CoOK(e) BY <1>2, <2>2, <2>3, <2>4, <2>5, <2>6, <2>7, PointChange
  <2>9. CopyOK(e, outCur, wrap) BY <2>2 DEF CopyOK
  <2> QED BY <1>1, <2>1, <2>8, <2>9, StepKeeps
<1>4. CASE ~NearTheEnd
  <2> DEFINE take == IF r.numBits < 2 * MaxCode THEN 4 ELSE 0
             d == Append8(r, take)
             s == LitFast(d)
  <2>1. IF s.ok
        THEN /\ r' = s.r /\ buf' = s.buf /\ outCur' = outCur + s.n /\ pos' = pos + take
             /\ UNCHANGED <<stream, inBeg, inEnd, moreInput, wrap, outBeg, status>>
        ELSE ReturnAt(pos + take, [s.r EXCEPT !.state = "failed"], "failed")
    BY <1>4 DEF Lit, inVars, outVars
  <2>2. MaxCode \in Nat /\ ByteBits \in Nat /\ ByteBits >= 1 /\ MaxCode <= 2 * ByteBits /\ r.numBits \in Nat
        /\ r.numBits <= Width
    BY <1>2, Format DEF BitsOK
  <2>3. /\ stream \in Seq(Byte) /\ inBeg \in Nat /\ pos \in Nat /\ inEnd \in Nat
        /\ inBeg <= pos /\ pos <= inEnd /\ inEnd <= Len(stream)
    BY DEF CoInv, InOK
  <2>4. /\ wrap \in BOOLEAN /\ buf \in Seq(Byte) /\ outBeg \in Nat /\ outCur \in Nat
        /\ outBeg <= outCur /\ outCur <= Len(buf) /\ (wrap => Len(buf) >= 1)
    BY DEF CoInv, OutOK
  <2>5. pos + 4 <= inEnd /\ outCur + 2 <= Len(buf) BY <1>4, <2>3, <2>4 DEF NearTheEnd, outEnd
  <2>6. /\ take \in Nat /\ pos + take <= inEnd /\ r.numBits + ByteBits * take <= Width
        /\ r.numBits + ByteBits * take >= 2 * MaxCode
    BY <2>2, <2>3, <2>5 DEF Width
  <2> HIDE DEF take
  <2>7. CoOK(d) /\ d.state = r.state /\ d.numBits = r.numBits + ByteBits * take BY <2>6, AppendKeeps
  <2> HIDE DEF d
  <2>8. d.state = "lit" /\ d.numBits >= 2 * MaxCode BY <1>1, <2>6, <2>7
  <2>9. /\ CoOK(s.r) /\ s.r.state \in {"lit", "match"}
        /\ s.ok => s.buf \in Seq(Byte) /\ Len(s.buf) = Len(buf) /\ s.n \in 0..2
    BY <1>2, <2>4, <2>5, <2>7, <2>8, LitFastFacts
  <2> HIDE DEF s
  <2>10. CASE s.ok
    <3>1. /\ r' = s.r /\ buf' = s.buf /\ outCur' = outCur + s.n /\ pos' = pos + take
          /\ UNCHANGED <<stream, inBeg, inEnd, moreInput, wrap, outBeg, status>>
      BY <2>1, <2>10
    <3>2. CoOK(r') BY <2>9, <3>1
    <3>3. InOK' BY <2>3, <2>6, <3>1 DEF InOK
    <3>4. OutOK' BY <2>4, <2>5, <2>9, <2>10, <3>1 DEF OutOK
    <3>5. CopyOK(r', outCur', wrap') BY <2>9, <3>1 DEF CopyOK
    <3>6. Frame BY <1>1, <2>9, <2>10, <3>1 DEF Frame
    <3> QED BY <3>2, <3>3, <3>4, <3>5, <3>6 DEF Kept
  <2>11. CASE ~s.ok
    <3> DEFINE g == s.r
               p == pos + take
    <3>1. IsRec(g) /\ BitsOK(g) /\ ArraysOK(g) /\ TablesOK(g) /\ NumbersOK(g) BY <2>9 DEF CoOK
    <3>2. p \in pos..inEnd BY <2>3, <2>6
    <3>3. ReturnAt(p, [g EXCEPT !.state = "failed"], "failed") BY <2>1, <2>11
    <3> HIDE DEF g, p
    <3> QED BY <1>1, <3>1, <3>2, <3>3, FailKeeps
  <2> QED BY <2>10, <2>11
<1> QED BY <1>3, <1>4

LEMMA LitSlowKeeps == ASSUME CoInv, LitSlow PROVE Kept
<1> DEFINE c == Decode(0, r.bitBuf)
           D == Drop(r, c.len)
           e == [D EXCEPT !.counter = c.sym, !.fill = FALSE, !.state = IF c.sym >= EOB THEN "match" ELSE "litOut"]
<1>1. HuffReady("litSlow") /\ status = "running" /\ r.state = "litSlow" BY DEF LitSlow, HuffReady, Running
<1>2. CoOK(r) /\ IsRec(r) /\ ArraysOK(r) /\ TablesOK(r) /\ BitsOK(r) /\ NumbersOK(r) BY DEF CoInv, CoOK
<1>3. 0 \in 0..2 /\ HuffTable["litSlow"] = 0 BY DEF HuffTable
<1>4. c.len \in Nat /\ c.len <= r.numBits /\ c.sym \in 0..(NumSyms[0 + 1] - 1) BY <1>1, <1>2, <1>3, HuffTakes
<1>5. /\ IsRec(D) /\ BitsOK(D) /\ SameArrays(r, D) /\ NumbersOK(D)
      /\ \A x \in Fields \ {"numBits", "bitBuf"} : D[x] = r[x]
  BY <1>2, <1>4, TakeBits
<1>6. Step(e) BY DEF LitSlow
<1> HIDE DEF c, D
<1>7. /\ IsRec(e) /\ e.counter = c.sym /\ e.fill = FALSE /\ e.state = (IF c.sym >= EOB THEN "match" ELSE "litOut")
      /\ \A x \in Fields \ {"counter", "fill", "state"} : e[x] = D[x]
  BY <1>5 DEF IsRec, Fields
<1> HIDE DEF e
<1>8. c.sym \in Nat /\ (c.sym >= EOB => c.sym \in EOB..(NumSyms[1] - 1)) /\ (~(c.sym >= EOB) => c.sym \in Byte)
  <2> DEFINE y == c.sym
             N == NumSyms[1]
  <2>1. N \in 1..512 /\ EOB \in Nat BY Tables, Format DEF EOB
  <2>2. 0 + 1 = 1 OBVIOUS
  <2>3. y \in 0..(N - 1) BY <1>4, <2>2
  <2> HIDE DEF N, y
  <2>4. y \in Nat /\ (y >= EOB => y \in EOB..(N - 1)) /\ (~(y >= EOB) => y \in 0..(EOB - 1)) BY <2>1, <2>3
  <2>5. 0..(EOB - 1) = Byte BY DEF EOB, Byte
  <2> QED BY <2>4, <2>5 DEF N, y
<1>9. SameArrays(D, e) BY <1>7 DEF SameArrays, Fields
<1>10. SameArrays(r, e) BY <1>5, <1>9 DEF SameArrays
<1>11. BitsOK(e) BY <1>5, <1>7 DEF BitsOK, Fields
<1>12. NumbersOK(e) BY <1>5, <1>7, <1>8 DEF NumbersOK, Fields
<1>13. PointOK(e) BY <1>7, <1>8 DEF PointOK
<1>14. e.state \in States BY <1>7 DEF States
<1>15. CoOK(e) BY <1>2, <1>7, <1>10, <1>11, <1>12, <1>13, <1>14, PointChange
<1>16. CopyOK(e, outCur, wrap) BY <1>7 DEF CopyOK
<1> QED BY <1>1, <1>6, <1>15, <1>16, StepKeeps

LEMMA LitOutKeeps == ASSUME CoInv, LitOut PROVE Kept
<1>1. status = "running" /\ r.state = "litOut" BY DEF LitOut, Running
<1>2. CASE outCur >= outEnd
  <2>1. Return(r, "has_more_output") BY <1>2 DEF LitOut
  <2>2. "has_more_output" \in Statuses BY DEF Statuses
  <2> QED BY <1>1, <2>1, <2>2, StayKeeps
<1>3. CASE ~(outCur >= outEnd)
  <2> DEFINE e == [r EXCEPT !.state = "lit"]
  <2>1. IsRec(r) /\ ArraysOK(r) /\ TablesOK(r) /\ BitsOK(r) /\ NumbersOK(r) /\ PointOK(r) BY DEF CoInv, CoOK
  <2>2. Write(e, r.counter) BY <1>3 DEF LitOut, Goto
  <2>3. r.counter \in Byte BY <1>1, <2>1 DEF PointOK
  <2>4. IsRec(e) /\ e.state = "lit" /\ \A x \in Fields \ {"state"} : e[x] = r[x] BY <2>1 DEF IsRec, Fields
  <2> HIDE DEF e
  <2>5. SameArrays(r, e) BY <2>4 DEF SameArrays, Fields
  <2>6. BitsOK(e) BY <2>1, <2>4 DEF BitsOK, Fields
  <2>7. NumbersOK(e) BY <2>1, <2>4 DEF NumbersOK, Fields
  <2>8. PointOK(e) BY <2>4 DEF PointOK
  <2>9. e.state \in States BY <2>4 DEF States
  <2>10. CoOK(e) BY <2>1, <2>4, <2>5, <2>6, <2>7, <2>8, <2>9, PointChange
  <2>11. CopyOK(e, outCur + 1, wrap) BY <2>4 DEF CopyOK
  <2>12. outCur < outEnd BY <1>3 DEF CoInv, OutOK, outEnd
  <2> QED BY <1>1, <2>2, <2>3, <2>10, <2>11, <2>12, WriteKeeps
<1> QED BY <1>2, <1>3

LEMMA MatchKeeps == ASSUME CoInv, Match PROVE Kept
<1>1. status = "running" /\ r.state = "match" BY DEF Match, Running
<1>2. CASE r.counter = EOB
  <2>1. BlockEnd(r) BY <1>2 DEF Match
  <2> QED BY <1>1, <2>1, BlockEndKeeps
<1>3. CASE r.counter # EOB
  <2> DEFINE k == r.counter - EOB
             e == [r EXCEPT !.numExtra = LenExtra[k], !.counter = LenBase[k], !.fill = FALSE,
                            !.state = IF LenExtra[k] > 0 THEN "lenExtra" ELSE "dist"]
  <2>1. Step(e) BY <1>3 DEF Match
  <2>2. IsRec(r) /\ ArraysOK(r) /\ TablesOK(r) /\ BitsOK(r) /\ NumbersOK(r) /\ PointOK(r) BY DEF CoInv, CoOK
  <2>3. LenBase[k] \in Nat /\ LenExtra[k] \in 0..MaxCode
    <3> DEFINE y == r.counter
               N == NumSyms[1]
    <3>1. y \in EOB..(N - 1) /\ y # EOB BY <1>1, <1>3, <2>2 DEF PointOK
    <3>2. N \in 1..512 /\ EOB \in Nat BY Tables, Format DEF EOB
    <3> HIDE DEF y, N
    <3>3. y - EOB \in 1..(N - 1 - EOB) BY <3>1, <3>2
    <3>4. k \in 1..(NumSyms[1] - 1 - EOB) BY <3>3 DEF y, N
    <3> QED BY <3>4, Matches
  <2> HIDE DEF k
  <2>4. /\ IsRec(e) /\ e.numExtra = LenExtra[k] /\ e.counter = LenBase[k] /\ e.fill = FALSE
        /\ e.state = (IF LenExtra[k] > 0 THEN "lenExtra" ELSE "dist")
        /\ \A x \in Fields \ {"numExtra", "counter", "fill", "state"} : e[x] = r[x]
    BY <2>2 DEF IsRec, Fields
  <2> HIDE DEF e
  <2>5. SameArrays(r, e) BY <2>4 DEF SameArrays, Fields
  <2>6. BitsOK(e) BY <2>2, <2>4 DEF BitsOK, Fields
  <2>7. NumbersOK(e) BY <2>2, <2>3, <2>4 DEF NumbersOK, Fields
  <2>8. PointOK(e) BY <2>4 DEF PointOK
  <2>9. e.state \in States BY <2>4 DEF States, BitStates, HuffTable
  <2>10. CoOK(e) BY <2>2, <2>4, <2>5, <2>6, <2>7, <2>8, <2>9, PointChange
  <2>11. CopyOK(e, outCur, wrap) BY <2>4 DEF CopyOK
  <2> QED BY <1>1, <2>1, <2>10, <2>11, StepKeeps
<1> QED BY <1>2, <1>3

LEMMA LenExtraKeeps == ASSUME CoInv, LenExtraBits PROVE Kept
<1> DEFINE D == Drop(r, Need)
           y == r.counter + BitsOf(Need)
           e == [D EXCEPT !.counter = y, !.state = "dist"]
<1>1. status = "running" /\ r.state = "lenExtra" /\ r.numBits >= Need BY DEF LenExtraBits, HasBits, Running
<1>2. CoOK(r) /\ IsRec(r) /\ ArraysOK(r) /\ TablesOK(r) /\ BitsOK(r) /\ NumbersOK(r) BY DEF CoInv, CoOK
<1>3. Need \in Nat
  <2>1. r.state \in BitStates BY <1>1 DEF BitStates
  <2> QED BY <1>2, <2>1, NeedFacts
<1>4. /\ IsRec(D) /\ BitsOK(D) /\ SameArrays(r, D) /\ NumbersOK(D)
      /\ \A x \in Fields \ {"numBits", "bitBuf"} : D[x] = r[x]
  BY <1>1, <1>2, <1>3, TakeBits
<1>5. D.counter = r.counter BY <1>4 DEF Fields
<1>6. Step(e) BY <1>5 DEF LenExtraBits
<1>7. y \in Nat
  <2>1. BitsOf(Need) \in Nat /\ r.counter \in Nat BY <1>2, <1>3, BitsOfFacts DEF NumbersOK
  <2> QED BY <2>1
<1> HIDE DEF D, y
<1>8. IsRec(e) /\ e.counter = y /\ e.state = "dist" /\ \A x \in Fields \ {"counter", "state"} : e[x] = D[x]
  BY <1>4 DEF IsRec, Fields
<1> HIDE DEF e
<1>9. SameArrays(D, e) BY <1>8 DEF SameArrays, Fields
<1>10. SameArrays(r, e) BY <1>4, <1>9 DEF SameArrays
<1>11. BitsOK(e) BY <1>4, <1>8 DEF BitsOK, Fields
<1>12. NumbersOK(e) BY <1>4, <1>7, <1>8 DEF NumbersOK, Fields
<1>13. PointOK(e) BY <1>8 DEF PointOK
<1>14. e.state \in States BY <1>8 DEF States, HuffTable
<1>15. CoOK(e) BY <1>2, <1>8, <1>10, <1>11, <1>12, <1>13, <1>14, PointChange
<1>16. CopyOK(e, outCur, wrap) BY <1>8 DEF CopyOK
<1> QED BY <1>1, <1>6, <1>15, <1>16, StepKeeps

\* The match is copied from inside the buffer to inside the buffer.
LEMMA CopyMatchKeeps ==
  ASSUME CoInv, status = "running", NEW d, IsRec(d), BitsOK(d), ArraysOK(d), TablesOK(d), NumbersOK(d), CopyMatch(d)
  PROVE  Kept
<1> DEFINE src == IF wrap THEN (outCur - d.dist) % outEnd ELSE outCur - d.dist
           at(k) == IF src < outCur THEN src + (k % (outCur - src)) ELSE src + k
           c == [d EXCEPT !.ofs = outCur, !.state = "copy"]
           g == [d EXCEPT !.ofs = outCur, !.state = "lit"]
<1>1. /\ stream \in Seq(Byte) /\ inBeg \in Nat /\ pos \in Nat /\ inEnd \in Nat
      /\ inBeg <= pos /\ pos <= inEnd /\ inEnd <= Len(stream)
  BY DEF CoInv, InOK
<1>2. /\ wrap \in BOOLEAN /\ buf \in Seq(Byte) /\ outBeg \in Nat /\ outCur \in Nat
      /\ outBeg <= outCur /\ outCur <= Len(buf) /\ (wrap => Len(buf) >= 1) /\ outEnd = Len(buf) /\ Len(buf) \in Nat
  BY DEF CoInv, OutOK, outEnd
<1>3. d.dist \in Nat /\ d.counter \in Nat BY DEF NumbersOK
<1>4. IF ~wrap /\ (d.dist = 0 \/ d.dist > outCur) THEN Fail(d)
      ELSE IF CrossesEnd(src, d.counter) THEN Step(c)
      ELSE /\ buf' = [i \in DOMAIN buf |-> IF i \in (outCur + 1)..(outCur + d.counter)
                                           THEN buf[at(i - outCur - 1) + 1] ELSE buf[i]]
           /\ outCur' = outCur + d.counter /\ r' = g
           /\ UNCHANGED <<stream, inBeg, inEnd, moreInput, pos, wrap, outBeg, status>>
  BY DEF CopyMatch, inVars, outVars
<1>5. CASE ~wrap /\ (d.dist = 0 \/ d.dist > outCur)
  <2>1. ReturnAt(pos, [d EXCEPT !.state = "failed"], "failed") BY <1>4, <1>5 DEF Fail, Return
  <2>2. pos \in pos..inEnd BY <1>1
  <2> QED BY <2>1, <2>2, FailKeeps
<1>6. CASE ~(~wrap /\ (d.dist = 0 \/ d.dist > outCur))
  <2>1. src \in Nat
    <3>1. CASE wrap
      <4>1. Len(buf) \in Nat /\ Len(buf) >= 1 /\ outCur - d.dist \in Int BY <1>2, <1>3, <3>1
      <4>2. (outCur - d.dist) % Len(buf) \in 0..(Len(buf) - 1) BY <4>1, DivMod
      <4> QED BY <1>2, <3>1, <4>1, <4>2
    <3>2. CASE ~wrap BY <1>2, <1>3, <1>6, <3>2
    <3> QED BY <3>1, <3>2
  <2>2. CASE CrossesEnd(src, d.counter)
    <3>1. Step(c) BY <1>4, <1>6, <2>2
    <3>2. IsRec(c) /\ c.ofs = outCur /\ c.state = "copy" /\ \A x \in Fields \ {"ofs", "state"} : c[x] = d[x]
      BY DEF IsRec, Fields
    <3> HIDE DEF c
    <3>3. SameArrays(d, c) BY <3>2 DEF SameArrays, Fields
    <3>4. BitsOK(c) BY <3>2 DEF BitsOK, Fields
    <3>5. NumbersOK(c)
      <4>1. outCur \in Int BY <1>2
      <4> QED BY <3>2, <4>1 DEF NumbersOK, Fields
    <3>6. PointOK(c) BY <3>2 DEF PointOK
    <3>7. c.state \in States BY <3>2 DEF States
    <3>8. CoOK(c) BY <3>2, <3>3, <3>4, <3>5, <3>6, <3>7, PointChange
    <3>9. c.dist = d.dist BY <3>2 DEF Fields
    <3>10. ~wrap => c.dist \in 1..outCur BY <1>2, <1>3, <1>6, <3>9
    <3>11. CopyOK(c, outCur, wrap) BY <3>2, <3>10 DEF CopyOK
    <3> QED BY <3>1, <3>8, <3>11, StepKeeps
  <2>3. CASE ~CrossesEnd(src, d.counter)
    <3>1. /\ buf' = [i \in DOMAIN buf |-> IF i \in (outCur + 1)..(outCur + d.counter)
                                          THEN buf[at(i - outCur - 1) + 1] ELSE buf[i]]
          /\ outCur' = outCur + d.counter /\ r' = g
          /\ UNCHANGED <<stream, inBeg, inEnd, moreInput, pos, wrap, outBeg, status>>
      BY <1>4, <1>6, <2>3
    <3> DEFINE n == d.counter
               L == Len(buf)
    <3>2. outCur + n <= L /\ src + n <= L
      <4> HIDE DEF src
      <4> QED BY <1>2, <1>3, <2>1, <2>3 DEF CrossesEnd, Larger
    <3>3. ASSUME NEW k \in 0..(n - 1) PROVE at(k) + 1 \in 1..L
      <4> HIDE DEF src, n
      <4>0. n \in Nat BY <1>3 DEF n
      <4>1. CASE src < outCur
        <5> DEFINE m == outCur - src
        <5>1. m \in Nat /\ m >= 1 /\ k \in Int BY <1>2, <2>1, <4>0, <4>1
        <5>2. m + src = outCur BY <1>2, <2>1
        <5> HIDE DEF m
        <5>3. k % m \in 0..(m - 1) BY <5>1, DivMod
        <5>4. src + (k % m) + 1 \in 1..L BY <1>2, <2>1, <5>1, <5>2, <5>3
        <5> QED BY <4>1, <5>4 DEF m
      <4>2. CASE ~(src < outCur)
        <5>1. src + k + 1 \in 1..L BY <1>2, <2>1, <3>2, <4>0
        <5> QED BY <4>2, <5>1
      <4> QED BY <4>1, <4>2
    <3> HIDE DEF at, src
    <3>4. buf' \in Seq(Byte) /\ Len(buf') = Len(buf)
      <4>1. DOMAIN buf = 1..Len(buf) BY <1>2
      <4>2. \A i \in 1..L : i \in (outCur + 1)..(outCur + n) => i - outCur - 1 \in 0..(n - 1) BY <1>2, <1>3
      <4>3. \A i \in 1..L : buf[i] \in Byte BY <1>2
      <4>4. ASSUME NEW i \in 1..L PROVE buf'[i] \in Byte
        <5>1. CASE i \in (outCur + 1)..(outCur + n)
          <6> DEFINE k == i - outCur - 1
          <6>1. k \in 0..(n - 1) BY <4>2, <5>1
          <6>2. buf'[i] = buf[at(k) + 1] BY <3>1, <4>1, <5>1
          <6> HIDE DEF k, n, L
          <6>3. at(k) + 1 \in 1..L BY <3>3, <6>1
          <6> QED BY <4>3, <6>2, <6>3
        <5>2. CASE ~(i \in (outCur + 1)..(outCur + n))
          <6>1. buf'[i] = buf[i] BY <3>1, <4>1, <5>2
          <6> QED BY <4>3, <6>1
        <5> QED BY <5>1, <5>2
      <4>5. buf' = [i \in 1..L |-> buf'[i]] BY <3>1, <4>1
      <4> QED BY <1>2, <4>4, <4>5
    <3>5. IsRec(g) /\ g.ofs = outCur /\ g.state = "lit" /\ \A x \in Fields \ {"ofs", "state"} : g[x] = d[x]
      BY DEF IsRec, Fields
    <3> HIDE DEF g
    <3>6. SameArrays(d, g) BY <3>5 DEF SameArrays, Fields
    <3>7. BitsOK(g) BY <3>5 DEF BitsOK, Fields
    <3>8. NumbersOK(g)
      <4>1. outCur \in Int BY <1>2
      <4> QED BY <3>5, <4>1 DEF NumbersOK, Fields
    <3>9. PointOK(g) BY <3>5 DEF PointOK
    <3>10. g.state \in States BY <3>5 DEF States
    <3>11. CoOK(g) BY <3>5, <3>6, <3>7, <3>8, <3>9, <3>10, PointChange
    <3>12. CoOK(r') BY <3>1, <3>11
    <3>13. InOK' BY <1>1, <3>1 DEF InOK
    <3>14. OutOK' BY <1>2, <1>3, <3>1, <3>2, <3>4 DEF OutOK
    <3>15. CopyOK(r', outCur', wrap') BY <3>1, <3>5 DEF CopyOK
    <3>16. Frame BY <3>1, <3>4 DEF Frame
    <3> QED BY <3>12, <3>13, <3>14, <3>15, <3>16 DEF Kept
  <2> QED BY <2>2, <2>3
<1> QED BY <1>5, <1>6

LEMMA DistKeeps == ASSUME CoInv, Dist PROVE Kept
<1> DEFINE c == Decode(1, r.bitBuf)
           D == Drop(r, c.len)
           d == [D EXCEPT !.numExtra = DistExtra[c.sym + 1], !.dist = DistBase[c.sym + 1],
                          !.fill = FALSE, !.state = "distExtra"]
<1>1. HuffReady("dist") /\ status = "running" /\ r.state = "dist" BY DEF Dist, HuffReady, Running
<1>2. CoOK(r) /\ IsRec(r) /\ ArraysOK(r) /\ TablesOK(r) /\ BitsOK(r) /\ NumbersOK(r) BY DEF CoInv, CoOK
<1>3. 1 \in 0..2 /\ HuffTable["dist"] = 1 BY DEF HuffTable
<1>4. c.len \in Nat /\ c.len <= r.numBits /\ c.sym \in 0..(NumSyms[1 + 1] - 1) BY <1>1, <1>2, <1>3, HuffTakes
<1>5. /\ IsRec(D) /\ BitsOK(D) /\ SameArrays(r, D) /\ NumbersOK(D)
      /\ \A x \in Fields \ {"numBits", "bitBuf"} : D[x] = r[x]
  BY <1>2, <1>4, TakeBits
<1>6. IF d.numExtra > 0 THEN Step(d) ELSE CopyMatch(d) BY DEF Dist
<1> HIDE DEF c, D
<1>7. DistBase[c.sym + 1] \in Nat /\ DistExtra[c.sym + 1] \in 0..MaxCode
  <2> DEFINE y == c.sym
             N == NumSyms[2]
  <2>1. N \in 1..512 /\ 1 + 1 = 2 BY Tables
  <2>2. y \in 0..(N - 1) BY <1>4, <2>1
  <2> HIDE DEF y, N
  <2>3. y + 1 \in 1..N BY <2>1, <2>2
  <2>4. c.sym + 1 \in 1..NumSyms[2] BY <2>3 DEF y, N
  <2> QED BY <2>4, Matches
<1>8. /\ IsRec(d) /\ d.numExtra = DistExtra[c.sym + 1] /\ d.dist = DistBase[c.sym + 1] /\ d.fill = FALSE
      /\ d.state = "distExtra" /\ \A x \in Fields \ {"numExtra", "dist", "fill", "state"} : d[x] = D[x]
  BY <1>5 DEF IsRec, Fields
<1> HIDE DEF d
<1>9. SameArrays(D, d) BY <1>8 DEF SameArrays, Fields
<1>10. SameArrays(r, d) BY <1>5, <1>9 DEF SameArrays
<1>11. ArraysOK(d) /\ TablesOK(d) BY <1>2, <1>10, SameArraysOK
<1>12. BitsOK(d) BY <1>5, <1>8 DEF BitsOK, Fields
<1>13. NumbersOK(d) BY <1>5, <1>7, <1>8 DEF NumbersOK, Fields
<1>14. CASE d.numExtra > 0
  <2>1. PointOK(d) BY <1>8 DEF PointOK
  <2>2. d.state \in States BY <1>8 DEF States, BitStates
  <2>3. CoOK(d) BY <1>8, <1>11, <1>12, <1>13, <2>1, <2>2 DEF CoOK
  <2>4. CopyOK(d, outCur, wrap) BY <1>8 DEF CopyOK
  <2> QED BY <1>1, <1>6, <1>14, <2>3, <2>4, StepKeeps
<1>15. CASE ~(d.numExtra > 0)
  <2>1. CopyMatch(d) BY <1>6, <1>15
  <2> QED BY <1>1, <1>8, <1>11, <1>12, <1>13, <2>1, CopyMatchKeeps
<1> QED BY <1>14, <1>15

LEMMA DistExtraKeeps == ASSUME CoInv, DistExtraBits PROVE Kept
<1> DEFINE D == Drop(r, Need)
           y == r.dist + BitsOf(Need)
           d == [D EXCEPT !.dist = y]
<1>1. status = "running" /\ r.state = "distExtra" /\ r.numBits >= Need BY DEF DistExtraBits, HasBits, Running
<1>2. CoOK(r) /\ IsRec(r) /\ ArraysOK(r) /\ TablesOK(r) /\ BitsOK(r) /\ NumbersOK(r) BY DEF CoInv, CoOK
<1>3. Need \in Nat
  <2>1. r.state \in BitStates BY <1>1 DEF BitStates
  <2> QED BY <1>2, <2>1, NeedFacts
<1>4. /\ IsRec(D) /\ BitsOK(D) /\ SameArrays(r, D) /\ NumbersOK(D)
      /\ \A x \in Fields \ {"numBits", "bitBuf"} : D[x] = r[x]
  BY <1>1, <1>2, <1>3, TakeBits
<1>5. D.dist = r.dist BY <1>4 DEF Fields
<1>6. CopyMatch(d) BY <1>5 DEF DistExtraBits
<1>7. y \in Nat
  <2>1. BitsOf(Need) \in Nat /\ r.dist \in Nat BY <1>2, <1>3, BitsOfFacts DEF NumbersOK
  <2> QED BY <2>1
<1> HIDE DEF D, y
<1>8. IsRec(d) /\ d.dist = y /\ \A x \in Fields \ {"dist"} : d[x] = D[x] BY <1>4 DEF IsRec, Fields
<1> HIDE DEF d
<1>9. SameArrays(D, d) BY <1>8 DEF SameArrays, Fields
<1>10. SameArrays(r, d) BY <1>4, <1>9 DEF SameArrays
<1>11. ArraysOK(d) /\ TablesOK(d) BY <1>2, <1>10, SameArraysOK
<1>12. BitsOK(d) BY <1>4, <1>8 DEF BitsOK, Fields
<1>13. NumbersOK(d) BY <1>4, <1>7, <1>8 DEF NumbersOK, Fields
<1> QED BY <1>1, <1>6, <1>8, <1>11, <1>12, <1>13, CopyMatchKeeps

LEMMA CopyKeeps == ASSUME CoInv, Copy PROVE Kept
<1>1. status = "running" /\ r.state = "copy" BY DEF Copy, Running
<1>2. CASE r.counter = 0
  <2>1. Step([r EXCEPT !.state = "lit"]) BY <1>2 DEF Copy, Goto
  <2>2. "lit" \in Plain BY DEF Plain
  <2> QED BY <1>1, <2>1, <2>2, GotoKeeps
<1>3. CASE r.counter # 0 /\ outCur >= outEnd
  <2>1. Return(r, "has_more_output") BY <1>3 DEF Copy
  <2>2. "has_more_output" \in Statuses BY DEF Statuses
  <2> QED BY <1>1, <2>1, <2>2, StayKeeps
<1>4. CASE r.counter # 0 /\ ~(outCur >= outEnd)
  <2> DEFINE e == [r EXCEPT !.counter = r.counter - 1, !.ofs = r.ofs + 1]
             from == IF wrap THEN (r.ofs - r.dist) % outEnd ELSE r.ofs - r.dist
             b == buf[1 + from]
  <2>1. IsRec(r) /\ ArraysOK(r) /\ TablesOK(r) /\ BitsOK(r) /\ NumbersOK(r) /\ PointOK(r) BY DEF CoInv, CoOK
  <2>2. Write(e, b) BY <1>4 DEF Copy
  <2>3. /\ wrap \in BOOLEAN /\ buf \in Seq(Byte) /\ outBeg \in Nat /\ outCur \in Nat
        /\ outBeg <= outCur /\ outCur <= Len(buf) /\ (wrap => Len(buf) >= 1) /\ outEnd = Len(buf) /\ Len(buf) \in Nat
    BY DEF CoInv, OutOK, outEnd
  <2>4. r.counter \in Nat /\ r.dist \in Nat /\ r.ofs \in Int BY <2>1 DEF NumbersOK
  <2>5. ~wrap => r.ofs = outCur /\ r.dist \in 1..outCur BY <1>1 DEF CoInv, CopyOK
  <2>6. 1 + from \in 1..Len(buf)
    <3>1. CASE wrap
      <4>1. Len(buf) \in Nat /\ Len(buf) >= 1 /\ r.ofs - r.dist \in Int BY <2>3, <2>4, <3>1
      <4>2. (r.ofs - r.dist) % Len(buf) \in 0..(Len(buf) - 1) BY <4>1, DivMod
      <4>3. from = (r.ofs - r.dist) % Len(buf) BY <2>3, <3>1
      <4> HIDE DEF from
      <4> QED BY <4>1, <4>2, <4>3
    <3>2. CASE ~wrap
      <4>1. from = outCur - r.dist /\ r.dist \in 1..outCur BY <2>5, <3>2
      <4> HIDE DEF from
      <4> QED BY <1>4, <2>3, <2>4, <4>1
    <3> QED BY <3>1, <3>2
  <2>7. b \in Byte BY <2>3, <2>6
  <2> HIDE DEF b, from
  <2>8. /\ IsRec(e) /\ e.counter = r.counter - 1 /\ e.ofs = r.ofs + 1
        /\ \A x \in Fields \ {"counter", "ofs"} : e[x] = r[x]
    BY <2>1 DEF IsRec, Fields
  <2> HIDE DEF e
  <2>9. e.state = "copy" /\ e.dist = r.dist BY <1>1, <2>8 DEF Fields
  <2>10. SameArrays(r, e) BY <2>8 DEF SameArrays, Fields
  <2>11. BitsOK(e) BY <2>1, <2>8 DEF BitsOK, Fields
  <2>12. NumbersOK(e)
    <3>1. e.counter \in Nat /\ e.ofs \in Int BY <1>4, <2>4, <2>8
    <3> QED BY <2>1, <2>8, <3>1 DEF NumbersOK, Fields
  <2>13. PointOK(e) BY <2>9 DEF PointOK
  <2>14. e.state \in States BY <2>9 DEF States
  <2>15. CoOK(e) BY <2>1, <2>8, <2>10, <2>11, <2>12, <2>13, <2>14, PointChange
  <2>16. CopyOK(e, outCur + 1, wrap) BY <2>3, <2>5, <2>8, <2>9 DEF CopyOK
  <2>17. outCur < outEnd BY <1>4, <2>3
  <2> QED BY <1>1, <2>2, <2>7, <2>15, <2>16, <2>17, WriteKeeps
<1> QED BY <1>2, <1>3, <1>4

LEMMA AlignKeeps == ASSUME CoInv, Align PROVE Kept
<1> DEFINE n == r.numBits % ByteBits
           D == Drop(r, n)
           e == [D EXCEPT !.state = "done"]
<1>1. status = "running" /\ ReturnAt(pos, e, "done") BY DEF Align, Running, Return
<1>2. CoOK(r) /\ IsRec(r) /\ ArraysOK(r) /\ TablesOK(r) /\ BitsOK(r) /\ NumbersOK(r) BY DEF CoInv, CoOK
<1>3. r.numBits \in Nat /\ ByteBits \in Nat /\ ByteBits >= 1 BY <1>2, Format DEF BitsOK
<1>4. n \in Nat /\ n <= r.numBits BY <1>3, DivNat
<1> HIDE DEF n
<1>5. /\ IsRec(D) /\ BitsOK(D) /\ SameArrays(r, D) /\ NumbersOK(D)
      /\ \A x \in Fields \ {"numBits", "bitBuf"} : D[x] = r[x]
  BY <1>2, <1>4, TakeBits
<1> HIDE DEF D
<1>6. IsRec(e) /\ e.state = "done" /\ \A x \in Fields \ {"state"} : e[x] = D[x] BY <1>5 DEF IsRec, Fields
<1> HIDE DEF e
<1>7. SameArrays(D, e) BY <1>6 DEF SameArrays, Fields
<1>8. SameArrays(r, e) BY <1>5, <1>7 DEF SameArrays
<1>9. BitsOK(e) BY <1>5, <1>6 DEF BitsOK, Fields
<1>10. NumbersOK(e) BY <1>5, <1>6 DEF NumbersOK, Fields
<1>11. PointOK(e) BY <1>6 DEF PointOK
<1>12. e.state \in States BY <1>6 DEF States
<1>13. CoOK(e) BY <1>2, <1>6, <1>8, <1>9, <1>10, <1>11, <1>12, PointChange
<1>14. CopyOK(e, outCur, wrap) BY <1>6 DEF CopyOK
<1>15. "done" \in Statuses /\ pos \in pos..inEnd BY DEF Statuses, CoInv, InOK
<1> QED BY <1>1, <1>13, <1>14, <1>15, ReturnKeeps

LEMMA AgainKeeps == ASSUME CoInv, Again PROVE Kept
<1>1. status = "running" /\ r.state \in {"done", "failed"} /\ Return(r, r.state) BY DEF Again
<1>2. r.state \in Statuses BY <1>1 DEF Statuses
<1> QED BY <1>1, <1>2, StayKeeps

LEMMA CoroutineKeeps == ASSUME CoInv, Coroutine PROVE Kept
<1>1. CASE GetByte \/ InputEnds \/ HuffEnter BY <1>1, GetByteKeeps, InputEndsKeeps, HuffEnterKeeps
<1>2. CASE Header \/ RawHeader \/ RawBits \/ RawOut \/ RawCopy
  BY <1>2, HeaderKeeps, RawHeaderKeeps, RawBitsKeeps, RawOutKeeps, RawCopyKeeps
<1>3. CASE Sizes \/ Clen \/ Build \/ Insert BY <1>3, SizesKeeps, ClenKeeps, BuildKeeps, InsertKeeps
<1>4. CASE Rle \/ RleExtra \/ LensDone BY <1>4, RleKeeps, RleExtraKeeps, LensDoneKeeps
<1>5. CASE Lit \/ LitSlow \/ LitOut \/ Match BY <1>5, LitKeeps, LitSlowKeeps, LitOutKeeps, MatchKeeps
<1>6. CASE LenExtraBits \/ Dist \/ DistExtraBits \/ Copy BY <1>6, LenExtraKeeps, DistKeeps, DistExtraKeeps, CopyKeeps
<1>7. CASE Align \/ Again BY <1>7, AlignKeeps, AgainKeeps
<1> QED BY <1>1, <1>2, <1>3, <1>4, <1>5, <1>6, <1>7 DEF Coroutine

(***************************************************************************)
(* The callers                                                             *)
(***************************************************************************)
Zips == {"callback", "iter", "mem"}
Wrapping == {"callback", "iter", "zlib", "sink"}
InCall == status \in Statuses \cup {"running"}

LEMMA CallerFacts ==
  ASSUME NEW c \in Cases
  PROVE  /\ DictSize \in Nat /\ DictSize >= 1 /\ HeapStart \in Nat
         /\ c.caller \in Callers /\ c.stream \in Seq(Byte) /\ c.content \in Seq(Byte)
         /\ c.declared = Len(c.content) /\ c.declared \in Nat
         /\ c.rbuf \in Nat /\ c.rbuf >= 1 /\ c.ubuf \in Nat /\ c.ubuf >= 1
BY CallerAssumption

\* The window of the next call starts where the last one ended: at the offset
\* itself in a buffer that does not wrap, at its place in the dictionary where
\* output waits for iter_read.
WindowOK ==
  result = "none" =>
    /\ ~wrap /\ InCall => outBeg = outOfs
    /\ ~wrap /\ status = "idle" => outCur = outOfs
    /\ job.caller = "iter" /\ InCall /\ avail = 0 => outBeg = outOfs % DictSize
    /\ job.caller = "iter" /\ avail > 0 => (outOfs % DictSize) + avail = outCur /\ status \in Statuses
    /\ job.caller = "callback" => avail = 0
CallerOK ==
  /\ job \in Cases /\ wrap = (job.caller \in Wrapping)
  /\ wrap => Len(buf) = DictSize
  /\ status \in Statuses \cup {"running", "idle", "loop", "spill"}
  /\ outOfs \in Nat /\ avail \in Nat /\ copied \in 0..job.ubuf
  /\ result \in {"none", "ok", "failed"}
GivenOK == job.caller \in Zips => given \in Seq(Byte) /\ Len(given) = outOfs

Inv == CoInv /\ CallerOK /\ WindowOK /\ GivenOK

LEMMA ByteZero == 0 \in Byte /\ \A n \in Nat : Zeroes(n) \in Seq(Byte) /\ Len(Zeroes(n)) = n
<1>1. 0 \in Byte
  <2>1. Pow2[ByteBits] \in Nat /\ Pow2[ByteBits] >= 1 BY Format, Pow2Type
  <2> QED BY <2>1 DEF Byte
<1>2. ASSUME NEW n \in Nat PROVE Zeroes(n) \in Seq(Byte) /\ Len(Zeroes(n)) = n
  <2>1. Zeroes(n) \in [1..n -> Byte] BY <1>1 DEF Zeroes
  <2>2. Zeroes(n) \in Seq(Byte) BY <2>1
  <2>3. DOMAIN Zeroes(n) = 1..n BY DEF Zeroes
  <2> QED BY <2>2, <2>3, LenProperties
<1> QED BY <1>1, <1>2

LEMMA InitRecord == ASSUME TinflInit PROVE CoOK(r)
<1>1. /\ r = [state |-> "header", numBits |-> 0, bitBuf |-> 0, fill |-> FALSE,
          final |-> 0, type |-> 0, raw |-> <<>>,
          size |-> [t \in 0..2 |-> 0], codeSize |-> [t \in 0..2 |-> NoCodes(t)],
          lenCodes |-> [i \in 0..(MaxLens - 1) |-> 0],
          lookUp |-> [t \in 0..2 |-> [k \in 0..(Pow2[FastBits] - 1) |-> 0]],
          tree |-> [t \in 0..2 |-> [k \in 0..(2 * NumSyms[t + 1] - 1) |-> 0]],
          next |-> [l \in 1..(MaxCode + 1) |-> 0], sym |-> 0, treeNext |-> -1,
          counter |-> 0, dist |-> 0, numExtra |-> 0, ofs |-> 0]
  BY DEF TinflInit
<1> DEFINE cs == [t \in 0..2 |-> NoCodes(t)]
           lu == [t \in 0..2 |-> [k \in 0..(Pow2[FastBits] - 1) |-> 0]]
           tr == [t \in 0..2 |-> [k \in 0..(2 * NumSyms[t + 1] - 1) |-> 0]]
           sz == [t \in 0..2 |-> 0]
           lc == [i \in 0..(MaxLens - 1) |-> 0]
           nx == [l \in 1..(MaxCode + 1) |-> 0]
<1>2. \A t \in 0..2 : t + 1 \in 1..3 /\ NumSyms[t + 1] \in 1..512
  <2>1. \A t \in 0..2 : t + 1 \in 1..3 OBVIOUS
  <2> QED BY <2>1, Tables
<1>3. MaxCode \in Nat BY Format
<1>4. \A t \in 0..2 : cs[t] \in [0..(NumSyms[t + 1] - 1) -> 0..MaxCode] BY <1>3 DEF NoCodes
<1>5. \A t \in 0..2 : TableOK(NumSyms[t + 1], lu[t], tr[t])
  <2> SUFFICES ASSUME NEW t \in 0..2 PROVE TableOK(NumSyms[t + 1], lu[t], tr[t]) OBVIOUS
  <2> DEFINE N == NumSyms[t + 1]
  <2>1. N \in 1..512 BY <1>2
  <2>2. lu[t] = [k \in FirstLevel |-> 0] /\ tr[t] = [k \in Slots(N) |-> 0] BY DEF FirstLevel, Slots
  <2> HIDE DEF N, lu, tr
  <2>3. TableOK(N, [k \in FirstLevel |-> 0], [k \in Slots(N) |-> 0]) BY <2>1, NoTable
  <2>4. TableOK(N, lu[t], tr[t]) BY <2>2, <2>3
  <2> QED BY <2>4 DEF N
<1>6. sz \in [0..2 -> Nat] /\ (\A t \in 0..2 : sz[t] <= NumSyms[t + 1])
  <2>1. sz \in [0..2 -> Nat] OBVIOUS
  <2>2. ASSUME NEW t \in 0..2 PROVE sz[t] <= NumSyms[t + 1]
    <3>1. sz[t] = 0 OBVIOUS
    <3>2. NumSyms[t + 1] \in 1..512 BY <1>2
    <3> QED BY <3>1, <3>2
  <2> QED BY <2>1, <2>2
<1>7. lc \in [0..(MaxLens - 1) -> 0..MaxCode] /\ nx \in [1..(MaxCode + 1) -> Nat] BY <1>3
<1>8. cs = [t \in 0..2 |-> cs[t]] /\ lu = [t \in 0..2 |-> lu[t]] /\ tr = [t \in 0..2 |-> tr[t]] OBVIOUS
<1> HIDE DEF cs, lu, tr, sz, lc, nx
<1>9. /\ r = [state |-> "header", numBits |-> 0, bitBuf |-> 0, fill |-> FALSE, final |-> 0, type |-> 0,
              raw |-> <<>>, size |-> sz, codeSize |-> cs, lenCodes |-> lc, lookUp |-> lu, tree |-> tr,
              next |-> nx, sym |-> 0, treeNext |-> -1, counter |-> 0, dist |-> 0, numExtra |-> 0, ofs |-> 0]
  BY <1>1 DEF cs, lu, tr, sz, lc, nx
<1>10. IsRec(r) BY <1>9 DEF IsRec, Fields
<1>11. /\ r.state = "header" /\ r.numBits = 0 /\ r.bitBuf = 0 /\ r.fill = FALSE /\ r.final = 0 /\ r.raw = <<>>
       /\ r.size = sz /\ r.codeSize = cs /\ r.lenCodes = lc /\ r.lookUp = lu /\ r.tree = tr /\ r.next = nx
       /\ r.sym = 0 /\ r.counter = 0 /\ r.dist = 0 /\ r.numExtra = 0 /\ r.ofs = 0
  BY <1>9
<1>12. BitsOK(r)
  <2>1. Width \in Nat BY Format DEF Width
  <2>2. Pow2[0] = 1 BY Pow2Type
  <2> QED BY <1>11, <2>1, <2>2 DEF BitsOK
<1>13. ArraysOK(r) BY <1>4, <1>6, <1>7, <1>8, <1>11 DEF ArraysOK
<1>14. TablesOK(r) BY <1>5, <1>8, <1>11 DEF TablesOK
<1>15. NumbersOK(r)
  <2>1. r.fill \in BOOLEAN BY <1>11
  <2>2. r.raw \in Seq(Nat) BY <1>11
  <2>3. r.final \in Nat /\ r.sym \in Nat /\ r.counter \in Nat /\ r.dist \in Nat /\ r.numExtra \in 0..MaxCode
        /\ r.ofs \in Int
    BY <1>3, <1>11
  <2> QED BY <2>1, <2>2, <2>3 DEF NumbersOK
<1>16. PointOK(r) BY <1>11 DEF PointOK
<1>17. r.state \in States BY <1>11 DEF States, BitStates
<1> QED BY <1>10, <1>12, <1>13, <1>14, <1>15, <1>16, <1>17 DEF CoOK

LEMMA InitInv == ASSUME Init PROVE Inv
<1>1. job \in Cases /\ stream = job.stream /\ wrap = (job.caller \in Wrapping) /\ TinflInit
      /\ status = "idle" /\ outOfs = 0 /\ avail = 0 /\ copied = 0 /\ given = <<>> /\ result = "none"
  BY DEF Init, InflateInit, Wrapping
<1>2. pos = 0 /\ inBeg = 0 /\ inEnd = 0 /\ outCur = 0 /\ outBeg = 0 BY <1>1 DEF TinflInit
<1>3. CoOK(r) BY <1>1, InitRecord
<1>4. job.stream \in Seq(Byte) /\ DictSize \in Nat /\ DictSize >= 1 /\ job.declared \in Nat /\ job.ubuf \in Nat
  BY <1>1, CallerFacts
<1>5. InOK BY <1>1, <1>2, <1>4 DEF InOK
<1>6. PICK n \in Nat : buf = Zeroes(n) /\ (wrap => n = DictSize)
  <2>1. CASE wrap BY <1>4, <2>1 DEF Init
  <2>2. CASE ~wrap
    <3>1. CASE job.caller \in {"mem", "once"} BY <1>4, <2>2, <3>1 DEF Init
    <3>2. CASE job.caller \notin {"mem", "once"} BY <2>2, <3>2 DEF Init
    <3> QED BY <3>1, <3>2
  <2> QED BY <2>1, <2>2
<1>7. buf \in Seq(Byte) /\ Len(buf) = n BY <1>6, ByteZero
<1>8. OutOK BY <1>1, <1>2, <1>4, <1>6, <1>7 DEF OutOK
<1>9. r.state = "header" BY <1>1 DEF TinflInit
<1>10. CopyOK(r, outCur, wrap) BY <1>9 DEF CopyOK
<1>11. CallerOK BY <1>1, <1>4, <1>6, <1>7 DEF CallerOK
<1>12. WindowOK BY <1>1, <1>2 DEF WindowOK, InCall, Statuses
<1>13. GivenOK BY <1>1 DEF GivenOK
<1> QED BY <1>3, <1>5, <1>8, <1>10, <1>11, <1>12, <1>13 DEF Inv, CoInv

\* A piece of the dictionary
LEMMA PieceFacts ==
  ASSUME NEW s \in Seq(Byte), NEW a \in Nat, NEW n \in Nat, a + n <= Len(s)
  PROVE  SubSeq(s, a + 1, a + n) \in Seq(Byte) /\ Len(SubSeq(s, a + 1, a + n)) = n
<1> DEFINE m == a + 1
           k == a + n
<1>1. m \in Int /\ k \in Int /\ \A i \in m..k : i \in 1..Len(s) OBVIOUS
<1>2. \A i \in m..k : s[i] \in Byte BY <1>1
<1>3. (IF m <= k THEN k - m + 1 ELSE 0) = n OBVIOUS
<1> HIDE DEF m, k
<1>4. SubSeq(s, m, k) \in Seq(Byte) /\ Len(SubSeq(s, m, k)) = IF m <= k THEN k - m + 1 ELSE 0
  BY <1>1, <1>2, SubSeqProperties
<1> QED BY <1>3, <1>4 DEF m, k

LEMMA ProducedFacts ==
  ASSUME OutOK
  PROVE  Produced \in Seq(Byte) /\ Len(Produced) = outCur - outBeg
<1> DEFINE n == outCur - outBeg
<1>1. /\ buf \in Seq(Byte) /\ outBeg \in Nat /\ outCur \in Nat /\ n \in Nat /\ outBeg + n <= Len(buf)
      /\ outBeg + n = outCur
  BY DEF OutOK
<1>2. Produced = SubSeq(buf, outBeg + 1, outBeg + n) BY <1>1 DEF Produced
<1> HIDE DEF n
<1>3. Produced \in Seq(Byte) /\ Len(Produced) = n BY <1>1, <1>2, PieceFacts
<1> QED BY <1>3 DEF n

LEMMA RefilledFacts ==
  ASSUME Inv
  PROVE  Refilled \in Nat /\ pos <= Refilled /\ Refilled <= Len(stream)
<1>1. /\ stream \in Seq(Byte) /\ pos \in Nat /\ inEnd \in Nat /\ pos <= inEnd /\ inEnd <= Len(stream) BY DEF Inv, CoInv, InOK
<1>2. job.rbuf \in Nat /\ job.rbuf >= 1 BY CallerFacts DEF Inv, CallerOK
<1>3. Len(stream) \in Nat BY <1>1
<1> QED BY <1>1, <1>2, <1>3 DEF Refilled, Smaller

LEMMA OffsetFacts ==
  ASSUME Inv
  PROVE  outOfs \in Nat /\ outOfs % DictSize \in Nat /\ outOfs % DictSize < DictSize
<1>1. outOfs \in Nat /\ DictSize \in Nat /\ DictSize >= 1 BY CallerFacts DEF Inv, CallerOK
<1> QED BY <1>1, DivNat

\* A call starts: the window of the input and of the output are set.
LEMMA EnterKeeps ==
  ASSUME Inv, result = "none", NEW end, NEW more, NEW cur, Enter(end, more, cur), buf' = buf, UNCHANGED callerVars,
         end \in Nat, pos <= end, end <= Len(stream), cur \in Nat, cur <= Len(buf),
         ~wrap => cur = outOfs /\ cur = outCur,
         job.caller = "iter" => cur = outOfs % DictSize /\ avail = 0
  PROVE  Inv'
<1>1. /\ inBeg' = pos /\ inEnd' = end /\ outBeg' = cur /\ outCur' = cur /\ status' = "running"
      /\ stream' = stream /\ pos' = pos /\ wrap' = wrap /\ r' = r
      /\ job' = job /\ outOfs' = outOfs /\ avail' = avail /\ copied' = copied /\ given' = given /\ result' = result
  BY DEF Enter, callerVars
<1>2. CoOK(r') BY <1>1 DEF Inv, CoInv
<1>3. InOK' BY <1>1 DEF Inv, CoInv, InOK
<1>4. OutOK' BY <1>1 DEF Inv, CoInv, OutOK
<1>5. CopyOK(r', outCur', wrap') BY <1>1 DEF Inv, CoInv, CopyOK
<1>6. CallerOK' BY <1>1 DEF Inv, CallerOK
<1>7. WindowOK'
  <2>1. avail' > 0 => job.caller # "iter" BY <1>1
  <2> QED BY <1>1, <2>1 DEF Inv, WindowOK, InCall, Statuses
<1>8. GivenOK' BY <1>1 DEF Inv, GivenOK
<1> QED BY <1>2, <1>3, <1>4, <1>5, <1>6, <1>7, <1>8 DEF Inv, CoInv

\* Where the window of the zip reader's calls starts
LEMMA CursorFacts ==
  ASSUME Inv, result = "none", status = "idle", NEW cur, cur = IF wrap THEN outOfs % DictSize ELSE outOfs
  PROVE  cur \in Nat /\ cur <= Len(buf) /\ (~wrap => cur = outOfs /\ cur = outCur)
<1>1. outOfs \in Nat /\ outOfs % DictSize \in Nat /\ outOfs % DictSize < DictSize BY OffsetFacts
<1>2. DictSize \in Nat BY CallerFacts DEF Inv, CallerOK
<1>3. CASE wrap
  <2>1. Len(buf) = DictSize BY <1>3 DEF Inv, CallerOK
  <2> QED BY <1>1, <1>2, <1>3, <2>1
<1>4. CASE ~wrap
  <2>1. outCur = outOfs BY <1>4 DEF Inv, WindowOK
  <2> QED BY <1>1, <1>4, <2>1 DEF Inv, CoInv, OutOK
<1>5. wrap \in BOOLEAN BY DEF Inv, CoInv, OutOK
<1> QED BY <1>3, <1>4, <1>5

LEMMA ZipCallKeeps == ASSUME Inv, ZipCall PROVE Inv'
<1> DEFINE cur == IF wrap THEN outOfs % DictSize ELSE outOfs
<1>1. /\ result = "none" /\ status = "idle" /\ avail = 0 /\ Enter(Refilled, Refilled < Len(stream), cur)
      /\ buf' = buf /\ UNCHANGED callerVars
  BY DEF ZipCall, Loops
<1>2. job.caller = "iter" => wrap BY DEF Inv, CallerOK, Wrapping
<1>3. cur \in Nat /\ cur <= Len(buf) /\ (~wrap => cur = outOfs /\ cur = outCur) BY <1>1, CursorFacts
<1>4. job.caller = "iter" => cur = outOfs % DictSize /\ avail = 0 BY <1>1, <1>2
<1> HIDE DEF cur
<1>5. Refilled \in Nat /\ pos <= Refilled /\ Refilled <= Len(stream) BY RefilledFacts
<1> QED BY <1>1, <1>3, <1>4, <1>5, EnterKeeps

LEMMA WholeCallKeeps == ASSUME Inv, WholeCall PROVE Inv'
<1> DEFINE cur == IF wrap THEN outOfs % DictSize ELSE outOfs
           end == Len(stream)
<1>1. /\ result = "none" /\ status = "idle" /\ Enter(end, FALSE, cur) /\ job.caller # "iter"
      /\ buf' = buf /\ UNCHANGED callerVars
  BY DEF WholeCall, Loops
<1>2. cur \in Nat /\ cur <= Len(buf) /\ (~wrap => cur = outOfs /\ cur = outCur) BY <1>1, CursorFacts
<1>3. end \in Nat /\ pos <= end /\ end <= Len(stream) BY DEF Inv, CoInv, InOK
<1> HIDE DEF cur, end
<1> QED BY <1>1, <1>2, <1>3, EnterKeeps

LEMMA ZlibCallKeeps == ASSUME Inv, ZlibCall PROVE Inv'
<1> DEFINE cur == outOfs % DictSize
<1>1. /\ result = "none" /\ Enter(inEnd, TRUE, cur) /\ job.caller = "zlib" /\ buf' = buf /\ UNCHANGED callerVars
  BY DEF ZlibCall, Loops
<1>2. wrap /\ Len(buf) = DictSize BY <1>1 DEF Inv, CallerOK, Wrapping
<1>3. cur \in Nat /\ cur < DictSize BY OffsetFacts
<1>4. DictSize \in Nat BY CallerFacts DEF Inv, CallerOK
<1>5. cur <= Len(buf) BY <1>2, <1>3, <1>4
<1>6. inEnd \in Nat /\ pos <= inEnd /\ inEnd <= Len(stream) BY DEF Inv, CoInv, InOK
<1>7. job.caller # "iter" BY <1>1
<1> HIDE DEF cur
<1> QED BY <1>1, <1>2, <1>3, <1>5, <1>6, <1>7, EnterKeeps

LEMMA ZlibEnterKeeps == ASSUME Inv, ZlibEnter PROVE Inv'
<1>1. /\ job.caller = "zlib" /\ inEnd' = Refilled /\ inBeg' = pos /\ status' \in {"spill", "loop"}
      /\ UNCHANGED <<stream, pos, wrap, buf, outBeg, outCur, r, job, outOfs, avail, copied, given, result>>
  BY DEF ZlibEnter, Loops, outVars
<1>2. Refilled \in Nat /\ pos <= Refilled /\ Refilled <= Len(stream) BY RefilledFacts
<1>3. CoOK(r') BY <1>1 DEF Inv, CoInv
<1>4. InOK' BY <1>1, <1>2 DEF Inv, CoInv, InOK
<1>5. OutOK' BY <1>1 DEF Inv, CoInv, OutOK
<1>6. CopyOK(r', outCur', wrap') BY <1>1 DEF Inv, CoInv, CopyOK
<1>7. CallerOK' BY <1>1 DEF Inv, CallerOK
<1>8. wrap BY <1>1 DEF Inv, CallerOK, Wrapping
<1>9. WindowOK' BY <1>1, <1>8 DEF WindowOK
<1>10. GivenOK' BY <1>1 DEF GivenOK, Zips
<1> QED BY <1>3, <1>4, <1>5, <1>6, <1>7, <1>9, <1>10 DEF Inv, CoInv

LEMMA FaultKeeps ==
  ASSUME Inv, result' = "failed", UNCHANGED <<tinflVars, job, outOfs, avail, copied, given>>
  PROVE  Inv'
<1>1. UNCHANGED <<stream, inBeg, inEnd, pos, wrap, buf, outBeg, outCur, r, status, job, outOfs, avail, copied, given>>
  BY DEF tinflVars, inVars, outVars
<1>2. CoInv' BY <1>1 DEF Inv, CoInv, InOK, OutOK, CopyOK
<1>3. CallerOK' BY <1>1 DEF Inv, CallerOK
<1>4. WindowOK' BY DEF WindowOK
<1>5. GivenOK' BY <1>1 DEF Inv, GivenOK
<1> QED BY <1>2, <1>3, <1>4, <1>5 DEF Inv

LEMMA DecompressKeeps == ASSUME Inv, Decompress PROVE Inv'
<1>1. CoInv /\ Coroutine BY DEF Inv, Decompress
<1>2. Kept BY <1>1, CoroutineKeeps
<1>3. CoInv' BY <1>2 DEF Kept, CoInv
<1>4. UNCHANGED <<job, outOfs, avail, copied, given, result>> BY DEF Decompress, callerVars
<1>5. /\ wrap' = wrap /\ outBeg' = outBeg /\ Len(buf') = Len(buf) /\ status = "running"
      /\ status' \in Statuses \cup {"running"}
  BY <1>2 DEF Kept, Frame
<1>6. CallerOK' BY <1>4, <1>5 DEF Inv, CallerOK
<1>7. WindowOK'
  <2>1. "idle" \notin Statuses \cup {"running"} /\ "running" \notin Statuses BY DEF Statuses
  <2>2. avail \in Nat BY DEF Inv, CallerOK
  <2>3. InCall BY <1>5 DEF InCall
  <2> QED BY <1>4, <1>5, <2>1, <2>2, <2>3 DEF Inv, WindowOK, InCall
<1>8. GivenOK' BY <1>4 DEF Inv, GivenOK
<1> QED BY <1>3, <1>6, <1>7, <1>8 DEF Inv

LEMMA LeaveFacts ==
  ASSUME Inv, Leave
  PROVE  /\ CoInv' /\ stream' = stream /\ pos' = pos /\ inEnd' = inEnd /\ wrap' = wrap /\ buf' = buf
         /\ outBeg' = outBeg /\ outCur' = outCur /\ r' = r
<1>1. UNCHANGED <<stream, inBeg, inEnd, moreInput, pos, wrap, buf, outBeg, outCur, r>> BY DEF Leave, inVars, outVars
<1>2. CoInv' BY <1>1 DEF Inv, CoInv, InOK, OutOK, CopyOK
<1> QED BY <1>1, <1>2

\* What a return brings
LEMMA ReturnFacts ==
  ASSUME Inv, result = "none", Returned
  PROVE  /\ status \in Statuses /\ InCall /\ status # "idle" /\ status # "running"
         /\ job \in Cases /\ job.ubuf \in Nat /\ job.ubuf >= 1 /\ copied \in 0..job.ubuf
         /\ outOfs \in Nat /\ avail \in Nat /\ outBeg \in Nat /\ outCur \in Nat /\ outBeg <= outCur
         /\ Produced \in Seq(Byte) /\ Len(Produced) = outCur - outBeg /\ outOfs + Len(Produced) \in Nat
         /\ (~wrap => outOfs + Len(Produced) = outCur)
         /\ wrap = (job.caller \in Wrapping)
         /\ (job.caller \in Zips => given \in Seq(Byte) /\ Len(given) = outOfs
                                    /\ given \o Produced \in Seq(Byte)
                                    /\ Len(given \o Produced) = outOfs + Len(Produced))
<1>1. status \in Statuses /\ InCall /\ status # "idle" /\ status # "running" BY DEF Inv, CallerOK, Returned, InCall, Statuses
<1>2. job \in Cases /\ copied \in 0..job.ubuf /\ outOfs \in Nat /\ avail \in Nat /\ wrap = (job.caller \in Wrapping)
  BY DEF Inv, CallerOK
<1>3. job.ubuf \in Nat /\ job.ubuf >= 1 BY <1>2, CallerFacts
<1>4. OutOK BY DEF Inv, CoInv
<1>5. outBeg \in Nat /\ outCur \in Nat /\ outBeg <= outCur BY <1>4 DEF OutOK
<1>6. Produced \in Seq(Byte) /\ Len(Produced) = outCur - outBeg BY <1>4, ProducedFacts
<1>7. outOfs + Len(Produced) \in Nat BY <1>2, <1>5, <1>6
<1>8. ~wrap => outBeg = outOfs BY <1>1 DEF Inv, WindowOK
<1>9. ~wrap => outOfs + Len(Produced) = outCur BY <1>5, <1>6, <1>8
<1>10. job.caller \in Zips => given \in Seq(Byte) /\ Len(given) = outOfs BY DEF Inv, GivenOK
<1>11. job.caller \in Zips => given \o Produced \in Seq(Byte) /\ Len(given \o Produced) = outOfs + Len(Produced)
  BY <1>6, <1>10, ConcatProperties
<1> QED BY <1>1, <1>2, <1>3, <1>5, <1>6, <1>7, <1>9, <1>10, <1>11

LEMMA CallbackReturnKeeps == ASSUME Inv, CallbackReturn PROVE Inv'
<1>1. /\ job.caller = "callback" /\ result = "none" /\ Returned /\ given' = given \o Produced
      /\ outOfs' = outOfs + Len(Produced) /\ Leave /\ job' = job /\ avail' = avail /\ copied' = copied
  BY DEF CallbackReturn, Loops
<1>2. /\ (status' = status \/ status' = "idle") /\ result' \in {"none", "ok", "failed"}
      /\ (result' = "none" => status' = "idle")
  BY <1>1 DEF CallbackReturn, Verdict
<1>3. /\ CoInv' /\ wrap' = wrap /\ buf' = buf /\ outBeg' = outBeg /\ outCur' = outCur BY <1>1, LeaveFacts
<1>4. /\ outOfs' \in Nat /\ given' \in Seq(Byte) /\ Len(given') = outOfs' /\ wrap
  BY <1>1, ReturnFacts DEF Zips, Wrapping
<1>5. CallerOK' BY <1>1, <1>2, <1>3, <1>4 DEF Inv, CallerOK
<1>6. avail = 0 BY <1>1 DEF Inv, WindowOK
<1>7. WindowOK' BY <1>1, <1>2, <1>3, <1>4, <1>6 DEF WindowOK
<1>8. GivenOK' BY <1>4 DEF GivenOK
<1> QED BY <1>3, <1>5, <1>7, <1>8 DEF Inv

LEMMA MemReturnKeeps == ASSUME Inv, MemReturn PROVE Inv'
<1>1. /\ job.caller = "mem" /\ result = "none" /\ Returned /\ given' = given \o Produced
      /\ outOfs' = outOfs + Len(Produced) /\ Leave /\ job' = job /\ avail' = avail /\ copied' = copied
  BY DEF MemReturn, Loops
<1>2. /\ (status' = status \/ status' = "idle") /\ result' \in {"none", "ok", "failed"}
      /\ (result' = "none" => status' = "idle")
  BY <1>1 DEF MemReturn, Verdict
<1>3. /\ CoInv' /\ wrap' = wrap /\ buf' = buf /\ outBeg' = outBeg /\ outCur' = outCur BY <1>1, LeaveFacts
<1>4. /\ outOfs' \in Nat /\ given' \in Seq(Byte) /\ Len(given') = outOfs' /\ ~wrap /\ outOfs' = outCur
  <2>1. ~wrap BY <1>1 DEF Inv, CallerOK, Wrapping
  <2> QED BY <1>1, <2>1, ReturnFacts DEF Zips
<1>5. CallerOK' BY <1>1, <1>2, <1>3, <1>4 DEF Inv, CallerOK
<1>6. WindowOK' BY <1>1, <1>2, <1>3, <1>4 DEF WindowOK, InCall, Statuses
<1>7. GivenOK' BY <1>4 DEF GivenOK
<1> QED BY <1>3, <1>5, <1>6, <1>7 DEF Inv

LEMMA WholeReturnKeeps == ASSUME Inv, WholeReturn PROVE Inv'
<1>1. /\ job.caller \in {"sink", "once"} /\ result = "none" /\ Returned
      /\ outOfs' = outOfs + Len(Produced) /\ Leave /\ job' = job /\ avail' = avail /\ copied' = copied
  BY DEF WholeReturn, Loops
<1>2. /\ (status' = status \/ status' = "idle") /\ result' \in {"none", "ok", "failed"}
      /\ (result' = "none" => status' = "idle")
  BY <1>1 DEF WholeReturn
<1>3. /\ CoInv' /\ wrap' = wrap /\ buf' = buf /\ outBeg' = outBeg /\ outCur' = outCur BY <1>1, LeaveFacts
<1>4. outOfs' \in Nat /\ (~wrap => outOfs' = outCur) BY <1>1, ReturnFacts
<1>5. CallerOK' BY <1>1, <1>2, <1>3, <1>4 DEF Inv, CallerOK
<1>6. WindowOK' BY <1>1, <1>2, <1>3, <1>4 DEF WindowOK, InCall, Statuses
<1>7. GivenOK' BY <1>1 DEF GivenOK, Zips
<1> QED BY <1>3, <1>5, <1>6, <1>7 DEF Inv

LEMMA HeapReturnKeeps == ASSUME Inv, HeapReturn PROVE Inv'
<1> DEFINE n == Larger(Len(buf), HeapStart - Len(buf))
<1>1. /\ job.caller = "heap" /\ result = "none" /\ Returned
      /\ outOfs' = outOfs + Len(Produced) /\ job' = job /\ avail' = avail /\ copied' = copied
      /\ UNCHANGED <<stream, inBeg, inEnd, pos, wrap, outBeg, outCur, r>>
  BY DEF HeapReturn, Loops, inVars
<1>2. /\ (status' = status \/ status' = "idle") /\ result' \in {"none", "ok", "failed"}
      /\ (result' = "none" => status' = "idle") /\ (buf' = buf \/ buf' = buf \o Zeroes(n))
  BY <1>1 DEF HeapReturn
<1>3. buf \in Seq(Byte) /\ Len(buf) \in Nat BY DEF Inv, CoInv, OutOK
<1>4. HeapStart \in Nat BY CallerFacts DEF Inv, CallerOK
<1>5. n \in Nat BY <1>3, <1>4 DEF Larger
<1> HIDE DEF n
<1>6. Zeroes(n) \in Seq(Byte) /\ Len(Zeroes(n)) = n BY <1>5, ByteZero
<1>7. buf' \in Seq(Byte) /\ Len(buf') >= Len(buf)
  <2>1. buf \o Zeroes(n) \in Seq(Byte) /\ Len(buf \o Zeroes(n)) = Len(buf) + n BY <1>3, <1>6, ConcatProperties
  <2>2. Len(buf) + n >= Len(buf) BY <1>3, <1>5
  <2>3. CASE buf' = buf BY <1>3, <2>3
  <2>4. CASE buf' = buf \o Zeroes(n) BY <2>1, <2>2, <2>4
  <2> QED BY <1>2, <2>3, <2>4
<1>8. outOfs' \in Nat /\ ~wrap /\ outOfs' = outCur
  <2>1. ~wrap BY <1>1 DEF Inv, CallerOK, Wrapping
  <2> QED BY <1>1, <2>1, ReturnFacts
<1>9. InOK' BY <1>1 DEF Inv, CoInv, InOK
<1>10. OutOK' BY <1>1, <1>3, <1>7, <1>8 DEF Inv, CoInv, OutOK
<1>11. CoInv' BY <1>1, <1>9, <1>10 DEF Inv, CoInv, CopyOK
<1>12. CallerOK' BY <1>1, <1>2, <1>8 DEF Inv, CallerOK
<1>13. WindowOK' BY <1>1, <1>2, <1>8 DEF WindowOK, InCall, Statuses
<1>14. GivenOK' BY <1>1 DEF GivenOK, Zips
<1> QED BY <1>11, <1>12, <1>13, <1>14 DEF Inv

LEMMA ZlibFlushKeeps == ASSUME Inv, ZlibFlush PROVE Inv'
<1> DEFINE n == Smaller(avail, job.ubuf)
<1>1. /\ job.caller = "zlib" /\ result = "none" /\ outOfs' = outOfs + n /\ avail' = avail - n /\ status' = "idle"
      /\ result' \in {"none", "ok"} /\ Leave /\ job' = job /\ copied' = copied
  BY DEF ZlibFlush, ZlibSpill, Loops
<1>2. job \in Cases /\ avail \in Nat /\ outOfs \in Nat BY DEF Inv, CallerOK
<1>3. job.ubuf \in Nat BY <1>2, CallerFacts
<1>4. n \in Nat /\ n <= avail BY <1>2, <1>3 DEF Smaller
<1> HIDE DEF n
<1>5. /\ CoInv' /\ wrap' = wrap /\ buf' = buf /\ outBeg' = outBeg /\ outCur' = outCur BY <1>1, LeaveFacts
<1>6. CallerOK' BY <1>1, <1>2, <1>4, <1>5 DEF Inv, CallerOK
<1>7. wrap BY <1>1 DEF Inv, CallerOK, Wrapping
<1>8. WindowOK' BY <1>1, <1>5, <1>7 DEF WindowOK
<1>9. GivenOK' BY <1>1 DEF GivenOK, Zips
<1> QED BY <1>5, <1>6, <1>8, <1>9 DEF Inv

LEMMA ZlibReturnKeeps == ASSUME Inv, ZlibReturn PROVE Inv'
<1> DEFINE n == Smaller(outCur - outBeg, job.ubuf - copied)
<1>1. /\ job.caller = "zlib" /\ result = "none" /\ Returned /\ outOfs' = outOfs + n /\ avail' = outCur - outBeg - n
      /\ Leave /\ job' = job
  BY DEF ZlibReturn, ZlibSpill, Loops
<1>2. /\ status' \in {status, "idle", "loop"} /\ result' \in {"none", "ok", "failed"}
      /\ copied' \in {copied, 0, copied + n}
  BY <1>1 DEF ZlibReturn
<1>3. /\ copied \in 0..job.ubuf /\ outOfs \in Nat /\ outBeg \in Nat /\ outCur \in Nat /\ outBeg <= outCur
      /\ job.ubuf \in Nat /\ wrap
  BY <1>1, ReturnFacts DEF Wrapping
<1>4. n \in Nat /\ n <= outCur - outBeg /\ n <= job.ubuf - copied BY <1>3 DEF Smaller
<1> HIDE DEF n
<1>5. /\ CoInv' /\ wrap' = wrap /\ buf' = buf /\ outBeg' = outBeg /\ outCur' = outCur BY <1>1, LeaveFacts
<1>6. CallerOK'
  <2>1. outOfs' \in Nat /\ avail' \in Nat /\ copied' \in 0..job'.ubuf BY <1>1, <1>2, <1>3, <1>4
  <2> QED BY <1>1, <1>2, <1>5, <2>1 DEF Inv, CallerOK
<1>7. WindowOK' BY <1>1, <1>3, <1>5 DEF WindowOK
<1>8. GivenOK' BY <1>1 DEF GivenOK, Zips
<1> QED BY <1>5, <1>6, <1>7, <1>8 DEF Inv

LEMMA IterReturnKeeps == ASSUME Inv, IterReturn PROVE Inv'
<1>1. /\ job.caller = "iter" /\ result = "none" /\ Returned /\ avail = 0 /\ avail' = outCur - outBeg
      /\ Leave /\ job' = job /\ outOfs' = outOfs /\ given' = given
  BY DEF IterReturn, Loops
<1>2. copied' = copied /\ result' \in {"none", "ok", "failed"} BY <1>1 DEF IterReturn, Verdict
<1>3. \/ avail' > 0 /\ status' = status
      \/ status' = "idle" /\ ~(avail' > 0)
      \/ result' # "none" /\ status' = status
  BY <1>1 DEF IterReturn, Verdict
<1>4. /\ CoInv' /\ wrap' = wrap /\ buf' = buf /\ outBeg' = outBeg /\ outCur' = outCur BY <1>1, LeaveFacts
<1>5. /\ status \in Statuses /\ InCall /\ outBeg \in Nat /\ outCur \in Nat /\ outBeg <= outCur /\ wrap /\ outOfs \in Nat
  BY <1>1, ReturnFacts DEF Wrapping
<1>6. CallerOK' BY <1>1, <1>2, <1>3, <1>4, <1>5 DEF Inv, CallerOK
<1>7. outBeg = outOfs % DictSize BY <1>1, <1>5 DEF Inv, WindowOK
<1>8. WindowOK' BY <1>1, <1>3, <1>4, <1>5, <1>7 DEF WindowOK, InCall, Statuses
<1>9. GivenOK' BY <1>1 DEF Inv, GivenOK
<1> QED BY <1>4, <1>6, <1>8, <1>9 DEF Inv

\* An offset inside the dictionary moves on with what is handed over.
LEMMA OffsetMoves ==
  ASSUME NEW x \in Nat, NEW n \in Nat, NEW D \in Nat, D >= 1, (x % D) + n < D
  PROVE  (x + n) % D = (x % D) + n
<1> DEFINE q == x \div D
           s == (x % D) + n
<1>1. x \in Int OBVIOUS
<1>2. q \in Int /\ x % D \in 0..(D - 1) /\ x = q * D + (x % D) BY <1>1, DivMod
<1>3. s \in 0..(D - 1) /\ x + n = q * D + s BY <1>2
<1> HIDE DEF q, s
<1>4. (q * D + s) % D = s BY <1>2, <1>3, DivUnique
<1> QED BY <1>3, <1>4 DEF s

\* The piece iter_read hands over
IterTaken == Smaller(job.ubuf - copied, avail)
IterPiece == SubSeq(buf, (outOfs % DictSize) + 1, (outOfs % DictSize) + IterTaken)
LEMMA IterPieceFacts ==
  ASSUME Inv, IterCopy
  PROVE  /\ job.caller = "iter" /\ result = "none" /\ Returned /\ avail > 0 /\ status \in Statuses
         /\ IterTaken \in Nat /\ IterTaken <= avail /\ copied + IterTaken <= job.ubuf
         /\ outOfs \in Nat /\ outOfs % DictSize \in Nat /\ (outOfs % DictSize) + avail = outCur /\ outCur <= DictSize
         /\ DictSize \in Nat /\ DictSize >= 1 /\ wrap
         /\ IterPiece \in Seq(Byte) /\ Len(IterPiece) = IterTaken
         /\ given \in Seq(Byte) /\ Len(given) = outOfs
         /\ given' = given \o IterPiece /\ crc' = Crc(crc, IterPiece)
         /\ given' \in Seq(Byte) /\ Len(given') = outOfs + IterTaken
<1>1. /\ job.caller = "iter" /\ result = "none" /\ Returned /\ avail > 0
      /\ given' = given \o IterPiece /\ crc' = Crc(crc, IterPiece)
  BY DEF IterCopy, Loops, IterTaken, IterPiece
<1>2. /\ status \in Statuses /\ copied \in 0..job.ubuf /\ outOfs \in Nat /\ avail \in Nat /\ job.ubuf \in Nat
      /\ wrap /\ job \in Cases /\ given \in Seq(Byte) /\ Len(given) = outOfs
  BY <1>1, ReturnFacts DEF Wrapping, Zips
<1>3. IterTaken \in Nat /\ IterTaken <= avail /\ copied + IterTaken <= job.ubuf BY <1>2 DEF IterTaken, Smaller
<1>4. DictSize \in Nat /\ DictSize >= 1 BY <1>2, CallerFacts
<1>5. outOfs % DictSize \in Nat BY OffsetFacts
<1>6. (outOfs % DictSize) + avail = outCur BY <1>1 DEF Inv, WindowOK
<1>7. buf \in Seq(Byte) /\ Len(buf) = DictSize /\ outCur <= Len(buf) /\ outCur \in Nat
  BY <1>2 DEF Inv, CoInv, OutOK, CallerOK
<1>8. IterPiece \in Seq(Byte) /\ Len(IterPiece) = IterTaken
  <2> DEFINE a == outOfs % DictSize
             n == IterTaken
  <2>1. a \in Nat /\ n \in Nat /\ a + n <= Len(buf) BY <1>2, <1>3, <1>4, <1>5, <1>6, <1>7
  <2> HIDE DEF a, n
  <2>2. SubSeq(buf, a + 1, a + n) \in Seq(Byte) /\ Len(SubSeq(buf, a + 1, a + n)) = n BY <1>7, <2>1, PieceFacts
  <2> QED BY <2>2 DEF a, n, IterPiece
<1>9. given \o IterPiece \in Seq(Byte) /\ Len(given \o IterPiece) = Len(given) + Len(IterPiece)
  BY <1>2, <1>8, ConcatProperties
<1> QED BY <1>1, <1>2, <1>3, <1>4, <1>5, <1>6, <1>7, <1>8, <1>9

LEMMA IterCopyKeeps == ASSUME Inv, IterCopy PROVE Inv'
<1> DEFINE n == IterTaken
<1>1. /\ job.caller = "iter" /\ result = "none" /\ Returned /\ avail > 0 /\ status \in Statuses
      /\ n \in Nat /\ n <= avail /\ copied + n <= job.ubuf
      /\ outOfs \in Nat /\ outOfs % DictSize \in Nat /\ (outOfs % DictSize) + avail = outCur /\ outCur <= DictSize
      /\ DictSize \in Nat /\ DictSize >= 1 /\ wrap
      /\ given' \in Seq(Byte) /\ Len(given') = outOfs + n
  BY IterPieceFacts
<1>2. avail' = avail - n /\ outOfs' = outOfs + n /\ Leave /\ job' = job BY DEF IterCopy, IterTaken
<1>3. /\ copied' \in {copied, (copied + n) % job.ubuf} /\ result' \in {"none", "ok", "failed"}
      /\ status' \in {status, "idle"}
      /\ (result' = "none" => status' = IF avail' = 0 THEN "idle" ELSE status)
  BY <1>1 DEF IterCopy, IterTaken, Verdict
<1> HIDE DEF n
<1>4. /\ CoInv' /\ wrap' = wrap /\ buf' = buf /\ outBeg' = outBeg /\ outCur' = outCur BY <1>2, LeaveFacts
<1>5. job.ubuf \in Nat /\ job.ubuf >= 1 /\ copied \in 0..job.ubuf /\ avail \in Nat BY <1>1, ReturnFacts
<1>6. CallerOK'
  <2>1. copied + n \in Nat BY <1>1, <1>5
  <2>2. (copied + n) % job.ubuf \in Nat /\ (copied + n) % job.ubuf < job.ubuf BY <1>5, <2>1, DivNat
  <2>3. copied' \in 0..job'.ubuf BY <1>2, <1>3, <1>5, <2>2
  <2>4. outOfs' \in Nat /\ avail' \in Nat BY <1>1, <1>2, <1>5
  <2> QED BY <1>2, <1>3, <1>4, <2>3, <2>4 DEF Inv, CallerOK
<1>7. WindowOK'
  <2>1. ASSUME avail' > 0 PROVE (outOfs' % DictSize) + avail' = outCur
    <3>1. (outOfs % DictSize) + n < DictSize BY <1>1, <1>2, <1>5, <2>1
    <3>2. (outOfs + n) % DictSize = (outOfs % DictSize) + n BY <1>1, <3>1, OffsetMoves
    <3> QED BY <1>1, <1>2, <1>5, <3>2
  <2>2. avail' \in Nat BY <1>1, <1>2, <1>5
  <2> QED BY <1>1, <1>2, <1>3, <1>4, <2>1, <2>2 DEF WindowOK, InCall, Statuses
<1>8. GivenOK' BY <1>1, <1>2 DEF GivenOK
<1> QED BY <1>4, <1>6, <1>7, <1>8 DEF Inv

LEMMA InvKept == ASSUME Inv, [Next]_vars PROVE Inv'
<1>1. CASE UNCHANGED vars
  <2>1. UNCHANGED <<stream, inBeg, inEnd, pos, wrap, buf, outBeg, outCur, r, status,
                    job, outOfs, avail, copied, given, result>>
    BY <1>1 DEF vars, callerVars, tinflVars, inVars, outVars
  <2>2. CoInv' BY <2>1 DEF Inv, CoInv, InOK, OutOK, CopyOK
  <2>3. CallerOK' BY <2>1 DEF Inv, CallerOK
  <2>4. WindowOK' BY <2>1 DEF Inv, WindowOK, InCall
  <2>5. GivenOK' BY <2>1 DEF Inv, GivenOK
  <2> QED BY <2>2, <2>3, <2>4, <2>5 DEF Inv
<1>2. CASE Decompress BY <1>2, DecompressKeeps
<1>3. CASE ZipCall \/ WholeCall \/ ZlibEnter \/ ZlibCall
  BY <1>3, ZipCallKeeps, WholeCallKeeps, ZlibEnterKeeps, ZlibCallKeeps
<1>4. CASE ReadFails BY <1>4, FaultKeeps DEF ReadFails
<1>5. CASE WriteFails BY <1>5, FaultKeeps DEF WriteFails
<1>6. CASE CallbackReturn \/ IterReturn \/ IterCopy \/ MemReturn
  BY <1>6, CallbackReturnKeeps, IterReturnKeeps, IterCopyKeeps, MemReturnKeeps
<1>7. CASE HeapReturn \/ WholeReturn \/ ZlibFlush \/ ZlibReturn
  BY <1>7, HeapReturnKeeps, WholeReturnKeeps, ZlibFlushKeeps, ZlibReturnKeeps
<1> QED BY <1>1, <1>2, <1>3, <1>4, <1>5, <1>6, <1>7 DEF Next

LEMMA InvTyped == ASSUME Inv PROVE TypeOK
<1>1. CoOK(r) /\ InOK /\ OutOK BY DEF Inv, CoInv
<1>2. /\ 0 <= inBeg /\ inBeg <= pos /\ pos <= inEnd /\ inEnd <= Len(stream)
      /\ 0 <= outBeg /\ outBeg <= outCur /\ outCur <= Len(buf)
  BY <1>1 DEF InOK, OutOK
<1>3. r.state \in States BY <1>1 DEF CoOK
<1>4. r.numBits \in 0..(2 * MaxCode + 4 * ByteBits - 1) /\ r.bitBuf \in 0..(Pow2[r.numBits] - 1)
  <2>1. /\ r.numBits \in Nat /\ r.numBits <= 2 * MaxCode + 4 * ByteBits - 1 /\ r.bitBuf \in Nat
        /\ r.bitBuf < Pow2[r.numBits]
    BY <1>1 DEF CoOK, BitsOK, Width
  <2>2. Pow2[r.numBits] \in Nat BY <2>1, Pow2Type
  <2>3. 2 * MaxCode + 4 * ByteBits - 1 \in Int BY Format
  <2> QED BY <2>1, <2>2, <2>3
<1>5. r.state = "insert" => -r.treeNext \in 1..(2 * NumSyms[r.type + 1] + 1)
  BY <1>1, EnteringTable DEF CoOK, PointOK
<1>6. r.counter \in Nat BY <1>1 DEF CoOK, NumbersOK
<1>7. r.counter <= MaxLens \/ r.state \notin {"rle", "rleExtra", "lensDone"}
  <2>1. /\ r.size[0] \in Nat /\ r.size[1] \in Nat /\ TotalLens \in Nat /\ TotalLens <= NumSyms[1] + NumSyms[2]
        /\ NumSyms[1] \in 1..512 /\ NumSyms[2] \in 1..512 /\ MaxLens \in Nat /\ NumSyms[1] + NumSyms[2] <= MaxLens
    BY <1>1, LensFacts
  <2>2. r.state \in {"rle", "rleExtra"} => r.counter < TotalLens \/ r.counter = 0
    BY <1>1 DEF CoOK, PointOK, TotalLens
  <2>3. r.state = "lensDone" => r.counter <= MaxLens BY <1>1 DEF CoOK, PointOK
  <2>4. \A c, t, x, m \in Int : (c < t \/ c = 0) /\ t <= x /\ x <= m /\ m >= 0 => c <= m OBVIOUS
  <2>5. r.counter < TotalLens \/ r.counter = 0 => r.counter <= MaxLens
    <3> DEFINE c == r.counter
               x == NumSyms[1] + NumSyms[2]
    <3>0. \A a, b \in 1..512 : a + b \in Int OBVIOUS
    <3>1. c \in Int /\ x \in Int /\ TotalLens \in Int /\ MaxLens \in Int /\ MaxLens >= 0
      <4>1. x \in Int BY <2>1, <3>0
      <4>2. \A a \in Nat : a \in Int /\ a >= 0 OBVIOUS
      <4> HIDE DEF x
      <4> QED BY <1>6, <2>1, <4>1, <4>2
    <3>2. TotalLens <= x /\ x <= MaxLens BY <2>1
    <3> HIDE DEF c, x
    <3>3. c < TotalLens \/ c = 0 => c <= MaxLens BY <2>4, <3>1, <3>2
    <3> QED BY <3>3 DEF c
  <2> QED BY <2>2, <2>3, <2>5
<1>8. outOfs >= 0 /\ avail >= 0 /\ copied \in 0..job.ubuf /\ result \in {"none", "ok", "failed"}
  BY DEF Inv, CallerOK
<1> QED BY <1>2, <1>3, <1>4, <1>5, <1>6, <1>7, <1>8 DEF TypeOK

\* The inductive invariant: the coroutine's record, its tables and bit buffer,
\* both windows, and what each loop of the callers keeps between two calls.
THEOREM InflateSafe == Spec => []Inv
<1>1. Init => Inv BY InitInv
<1>2. Inv /\ [Next]_vars => Inv' BY InvKept
<1> QED BY <1>1, <1>2, PTL DEF Spec

\* No pointer of tinfl_decompress leaves its buffer, the bit count stays within
\* the bit buffer, the tree being built and the code lengths within their
\* arrays: for every input, under every one of the loops.
THEOREM InflateTypeCorrect == Spec => []TypeOK
<1>1. Inv => TypeOK BY InvTyped
<1> QED BY <1>1, InflateSafe, PTL

(***************************************************************************)
(* The checksum                                                            *)
(***************************************************************************)
\* One bit leaves the register.
ShiftOne(x) == SymDiff(ShiftedRight(x, 1), IF 0 \in x THEN CrcPoly ELSE {})

\* Two registers have the same bits below l and from h on.
Agree(x, y, l, h) == \A i \in Register : i < l \/ i >= h => (i \in x <=> i \in y)

LEMMA CrcFacts ==
  /\ CrcBits \in Nat /\ ByteBits \in Nat /\ ByteBits >= 1 /\ ByteBits <= CrcBits
  /\ CrcPoly \in SUBSET Register /\ CrcBits - 1 \in CrcPoly
  /\ LowByte \subseteq Register
  /\ \A i : i \in Register <=> i \in Int /\ 0 <= i /\ i < CrcBits
  /\ \A i : i \in LowByte <=> i \in Int /\ 0 <= i /\ i < ByteBits
<1>1. CrcBits \in Nat /\ ByteBits <= CrcBits /\ CrcPoly \in SUBSET Register /\ CrcBits - 1 \in CrcPoly
  BY CallerAssumption
<1>2. ByteBits \in Nat /\ ByteBits >= 1 BY Format
<1>3. \A i : i \in Register <=> i \in Int /\ 0 <= i /\ i < CrcBits BY <1>1 DEF Register
<1>4. \A i : i \in LowByte <=> i \in Int /\ 0 <= i /\ i < ByteBits BY <1>2 DEF LowByte
<1> QED BY <1>1, <1>2, <1>3, <1>4

LEMMA ShiftFacts ==
  ASSUME NEW x \in SUBSET Register, NEW n \in Nat
  PROVE  /\ ShiftedRight(x, n) \in SUBSET Register
         /\ \A i \in Register : i \in ShiftedRight(x, n) <=> i + n \in x
<1>1. \A i \in Register : i \in Int /\ 0 <= i BY CrcFacts
<1>2. ShiftedRight(x, n) \in SUBSET Register
  <2> SUFFICES ASSUME NEW i \in ShiftedRight(x, n) PROVE i \in Register OBVIOUS
  <2>1. PICK j \in x : j >= n /\ i = j - n BY DEF ShiftedRight
  <2>2. j \in Int /\ 0 <= j /\ j < CrcBits BY CrcFacts
  <2>3. i \in Int /\ 0 <= i /\ i < CrcBits BY <2>1, <2>2, CrcFacts
  <2> QED BY <2>3, CrcFacts
<1>3. ASSUME NEW i \in Register, i \in ShiftedRight(x, n) PROVE i + n \in x
  <2>1. PICK j \in x : j >= n /\ i = j - n BY <1>3 DEF ShiftedRight
  <2>2. j \in Int BY <1>1
  <2>3. i + n = j BY <2>1, <2>2
  <2> QED BY <2>3
<1>4. ASSUME NEW i \in Register, i + n \in x PROVE i \in ShiftedRight(x, n)
  <2>1. i + n >= n /\ i = (i + n) - n BY <1>1
  <2> QED BY <1>4, <2>1 DEF ShiftedRight
<1> QED BY <1>2, <1>3, <1>4

LEMMA XorFacts ==
  ASSUME NEW x, NEW y
  PROVE  \A i : i \in SymDiff(x, y) <=> ((i \in x /\ i \notin y) \/ (i \notin x /\ i \in y))
BY DEF SymDiff

LEMMA ShiftOneFacts ==
  ASSUME NEW x \in SUBSET Register
  PROVE  /\ ShiftOne(x) \in SUBSET Register
         /\ \A i \in Register : i \in ShiftOne(x) <=> ((i + 1 \in x) # (0 \in x /\ i \in CrcPoly))
<1> DEFINE s == ShiftedRight(x, 1)
           p == IF 0 \in x THEN CrcPoly ELSE {}
<1>1. s \in SUBSET Register /\ \A i \in Register : i \in s <=> i + 1 \in x BY ShiftFacts
<1>2. p \in SUBSET Register /\ \A i : i \in p <=> 0 \in x /\ i \in CrcPoly BY CrcFacts
<1>3. ShiftOne(x) = SymDiff(s, p) BY DEF ShiftOne
<1> HIDE DEF s, p
<1>4. \A i : i \in ShiftOne(x) <=> ((i \in s /\ i \notin p) \/ (i \notin s /\ i \in p)) BY <1>3, XorFacts
<1> QED BY <1>1, <1>2, <1>4

\* The top bit of the polynomial tells which bit left the register.
LEMMA OneBack ==
  ASSUME NEW x \in SUBSET Register, NEW y \in SUBSET Register, NEW l \in Nat, NEW h \in Nat, h <= CrcBits - 1,
         Agree(ShiftOne(x), ShiftOne(y), l, h)
  PROVE  Agree(x, y, l + 1, h + 1)
<1> DEFINE top == CrcBits - 1
<1>1. top \in Register /\ top \in CrcPoly /\ top + 1 \notin Register /\ top >= h BY CrcFacts
<1>2. /\ top \in ShiftOne(x) <=> ((top + 1 \in x) # (0 \in x /\ top \in CrcPoly))
      /\ top \in ShiftOne(y) <=> ((top + 1 \in y) # (0 \in y /\ top \in CrcPoly))
  BY <1>1, ShiftOneFacts
<1>3. top \in ShiftOne(x) <=> top \in ShiftOne(y) BY <1>1 DEF Agree
<1>4. 0 \in x <=> 0 \in y
  <2>1. top + 1 \notin x /\ top + 1 \notin y BY <1>1
  <2> QED BY <1>1, <1>2, <1>3, <2>1
<1> HIDE DEF top
<1>5. ASSUME NEW i \in Register, i < l + 1 \/ i >= h + 1 PROVE i \in x <=> i \in y
  <2>1. CASE i = 0 BY <1>4, <2>1
  <2>2. CASE i # 0
    <3> DEFINE j == i - 1
    <3>1. j \in Register /\ j + 1 = i /\ (j < l \/ j >= h) BY <1>5, <2>2, CrcFacts
    <3> HIDE DEF j
    <3>2. j \in ShiftOne(x) <=> j \in ShiftOne(y) BY <3>1 DEF Agree
    <3>3. j \in ShiftOne(x) <=> ((j + 1 \in x) # (0 \in x /\ j \in CrcPoly)) BY <3>1, ShiftOneFacts
    <3>4. j \in ShiftOne(y) <=> ((j + 1 \in y) # (0 \in y /\ j \in CrcPoly)) BY <3>1, ShiftOneFacts
    <3> QED BY <1>4, <3>1, <3>2, <3>3, <3>4
  <2> QED BY <2>1, <2>2
<1> QED BY <1>5 DEF Agree

\* The table's rule, bit by bit
LEMMA TableRule ==
  ASSUME NEW b \in SUBSET Register
  PROVE  \E out \in [0..ByteBits -> SUBSET Register] :
           /\ out[0] = b /\ CrcTable(b) = out[ByteBits]
           /\ \A k \in 1..ByteBits : out[k] = ShiftOne(out[k - 1])
<1> DEFINE n == ByteBits
           One(x) == SymDiff(ShiftedRight(x, 1), IF 0 \in x THEN CrcPoly ELSE {})
           Rec(f) == f = [k \in 0..n |-> IF k = 0 THEN b ELSE One(f[k - 1])]
           out == CHOOSE f : Rec(f)
           R == SUBSET Register
           F == [k \in 0..n |-> [x \in R |-> ShiftOne(x)]]
           G == [k \in 0..n |-> R]
<1>1. CrcTable(b) = out[n] BY DEF CrcTable
<1>2. \A x : One(x) = ShiftOne(x) BY DEF ShiftOne
<1>3. n \in Nat BY CrcFacts
<1>4. \A k \in 0..n : G[k] = R OBVIOUS
<1>5. \A k \in 0..n, x \in R : F[k][x] = ShiftOne(x) OBVIOUS
<1>6. \A x \in R : ShiftOne(x) \in R BY ShiftOneFacts
<1>7. \A k \in (0 + 1)..n : k \in 0..n /\ k - 1 \in 0..n /\ k # 0 BY <1>3
<1>8. \A k \in 0..n : k # 0 => k - 1 \in 0..n BY <1>3
<1>9. 0 \in 0..n /\ n \in 0..n /\ 0 \in Int /\ n \in Int /\ 0 <= n BY <1>3
<1>0. b \in R OBVIOUS
<1> HIDE DEF F, G, One, R, n
<1>10. b \in G[0] BY <1>0, <1>4, <1>9
<1>11. \A k \in (0 + 1)..n : \A x \in G[k - 1] : F[k][x] \in G[k] BY <1>4, <1>5, <1>6, <1>7
<1>12. PICK g : Recurs(g, 0, n, b, F) /\ \A k \in 0..n : g[k] \in G[k] BY <1>9, <1>10, <1>11, RecursionIn
<1>13. Rec(g)
  <2>1. g = [k \in 0..n |-> IF k = 0 THEN b ELSE F[k][g[k - 1]]] BY <1>12 DEF Recurs
  <2>2. \A k \in 0..n : (IF k = 0 THEN b ELSE F[k][g[k - 1]]) = (IF k = 0 THEN b ELSE One(g[k - 1]))
    BY <1>2, <1>4, <1>5, <1>8, <1>12
  <2> QED BY <2>1, <2>2
<1>14. Rec(out) BY <1>13
<1> HIDE DEF out
<1>15. out = [k \in 0..n |-> IF k = 0 THEN b ELSE One(out[k - 1])] BY <1>14
<1>16. \A k \in 0..n : out[k] = IF k = 0 THEN b ELSE One(out[k - 1]) BY <1>15
<1>17. \A k \in 0..n : out[k] \in G[k]
  <2>1. out[0] \in G[0] BY <1>9, <1>10, <1>16
  <2>2. \A k \in (0 + 1)..n : out[k - 1] \in G[k - 1] => out[k] = F[k][out[k - 1]]
    BY <1>2, <1>4, <1>5, <1>7, <1>16
  <2> QED BY <1>9, <1>11, <2>1, <2>2, RecursionStays, ZenonT(60)
<1>18. out \in [0..n -> R] BY <1>4, <1>15, <1>17
<1>19. \A k \in 1..n : out[k] = ShiftOne(out[k - 1])
  <2> SUFFICES ASSUME NEW k \in 1..n PROVE out[k] = ShiftOne(out[k - 1]) OBVIOUS
  <2>1. k \in 0..n /\ k # 0 BY <1>3
  <2> QED BY <1>2, <1>16, <2>1
<1> QED BY <1>1, <1>9, <1>16, <1>18, <1>19 DEF n, R

\* The register while a byte is shifted out of it: what the table has made of
\* its low byte, and the rest of it further right.
Whole(out, c, k) == SymDiff(out[k], ShiftedRight(c \ LowByte, k))

LEMMA WholeShifts ==
  ASSUME NEW c \in SUBSET Register, NEW out \in [0..ByteBits -> SUBSET Register],
         NEW k \in 1..ByteBits, out[k] = ShiftOne(out[k - 1])
  PROVE  Whole(out, c, k - 1) \in SUBSET Register /\ Whole(out, c, k) = ShiftOne(Whole(out, c, k - 1))
<1> DEFINE high == c \ LowByte
           j == k - 1
           a == out[j]
           s == ShiftedRight(high, j)
           t == ShiftedRight(high, k)
           w == Whole(out, c, j)
           v == Whole(out, c, k)
<1>1. k \in Nat /\ j \in Nat /\ j + 1 = k /\ j < ByteBits /\ j \in 0..ByteBits /\ k \in 0..ByteBits BY CrcFacts
<1>2. a \in SUBSET Register /\ out[k] \in SUBSET Register /\ out[k] = ShiftOne(a) BY <1>1
<1>3. high \in SUBSET Register OBVIOUS
<1>4. w = SymDiff(a, s) /\ v = SymDiff(out[k], t) BY DEF Whole
<1> HIDE DEF j, a, s, t, w, v, high
<1>5. s \in SUBSET Register /\ \A i \in Register : i \in s <=> i + j \in high BY <1>1, <1>3, ShiftFacts DEF s
<1>6. t \in SUBSET Register /\ \A i \in Register : i \in t <=> i + k \in high BY <1>1, <1>3, ShiftFacts DEF t
<1>7. \A i : i \in w <=> ((i \in a /\ i \notin s) \/ (i \notin a /\ i \in s)) BY <1>4, XorFacts
<1>8. \A i : i \in v <=> ((i \in out[k] /\ i \notin t) \/ (i \notin out[k] /\ i \in t)) BY <1>4, XorFacts
<1>9. w \in SUBSET Register /\ v \in SUBSET Register BY <1>2, <1>5, <1>6, <1>7, <1>8
<1>10. 0 \notin s
  <2>1. 0 \in Register BY CrcFacts
  <2>2. 0 + j \notin high BY <1>1, CrcFacts DEF high
  <2> QED BY <1>5, <2>1, <2>2
<1>11. 0 \in w <=> 0 \in a BY <1>7, <1>10
<1>12. \A i \in Register : i \in t <=> i + 1 \in s
  <2> SUFFICES ASSUME NEW i \in Register PROVE i \in t <=> i + 1 \in s OBVIOUS
  <2>1. i \in Int /\ 0 <= i /\ i + k = (i + 1) + j BY <1>1, CrcFacts
  <2>2. CASE i + 1 \in Register BY <1>5, <1>6, <2>1, <2>2
  <2>3. CASE i + 1 \notin Register
    <3>1. i + 1 \notin s BY <1>5, <2>3
    <3>2. i + k \notin high BY <1>1, <1>3, <2>1, <2>3, CrcFacts
    <3> QED BY <1>6, <3>1, <3>2
  <2> QED BY <2>2, <2>3
<1>13. \A i \in Register : i \in out[k] <=> ((i + 1 \in a) # (0 \in a /\ i \in CrcPoly)) BY <1>2, ShiftOneFacts
<1>14. ShiftOne(w) \in SUBSET Register
       /\ \A i \in Register : i \in ShiftOne(w) <=> ((i + 1 \in w) # (0 \in w /\ i \in CrcPoly))
  BY <1>9, ShiftOneFacts
<1>15. \A i \in Register : i \in v <=> i \in ShiftOne(w)
  <2> SUFFICES ASSUME NEW i \in Register PROVE i \in v <=> i \in ShiftOne(w) OBVIOUS
  <2>1. i + 1 \in w <=> ((i + 1 \in a /\ i + 1 \notin s) \/ (i + 1 \notin a /\ i + 1 \in s)) BY <1>7
  <2>2. i \in v <=> ((i \in out[k] /\ i \notin t) \/ (i \notin out[k] /\ i \in t)) BY <1>8
  <2> QED BY <1>11, <1>12, <1>13, <1>14, <2>1, <2>2
<1>16. v = ShiftOne(w) BY <1>9, <1>14, <1>15
<1> QED BY <1>9, <1>16 DEF w, v, j

\* What a byte does to the register, bit by bit: the table entry and the shift
\* of the code are ByteBits single steps of the register and the byte together.
Mixed(c, b) == SymDiff(c, BitsOfByte(b))

LEMMA MixedFacts ==
  ASSUME NEW c \in SUBSET Register, NEW b
  PROVE  /\ Mixed(c, b) \in SUBSET Register /\ BitsOfByte(b) \subseteq LowByte
         /\ \A i : i \in Mixed(c, b) <=> ((i \in c /\ i \notin BitsOfByte(b)) \/ (i \notin c /\ i \in BitsOfByte(b)))
<1>1. BitsOfByte(b) \subseteq LowByte BY DEF BitsOfByte
<1>2. \A i : i \in Mixed(c, b) <=> ((i \in c /\ i \notin BitsOfByte(b)) \/ (i \notin c /\ i \in BitsOfByte(b)))
  BY XorFacts DEF Mixed
<1> QED BY <1>1, <1>2, CrcFacts

LEMMA ByteRule ==
  ASSUME NEW c \in SUBSET Register, NEW b
  PROVE  \E w \in [0..ByteBits -> SUBSET Register] :
           /\ w[0] = Mixed(c, b) /\ w[ByteBits] = CrcByte(b)[c]
           /\ \A k \in 1..ByteBits : w[k] = ShiftOne(w[k - 1])
<1> DEFINE m == Mixed(c, b)
           index == m \cap LowByte
<1>1. index \in SUBSET Register BY CrcFacts
<1>2. CrcByte(b)[c] = SymDiff(ShiftedRight(c, ByteBits), CrcTable(index)) BY DEF CrcByte, Mixed
<1> HIDE DEF index
<1>3. PICK out \in [0..ByteBits -> SUBSET Register] :
        /\ out[0] = index /\ CrcTable(index) = out[ByteBits]
        /\ \A k \in 1..ByteBits : out[k] = ShiftOne(out[k - 1])
  BY <1>1, TableRule
<1> DEFINE w == [k \in 0..ByteBits |-> Whole(out, c, k)]
           high == c \ LowByte
<1>4. ByteBits \in Nat /\ ByteBits >= 1 /\ 0 \in 0..ByteBits /\ ByteBits \in 0..ByteBits BY CrcFacts
<1>5. high \in SUBSET Register OBVIOUS
<1>6. w[0] = m
  <2>1. \A i \in Register : i \in ShiftedRight(high, 0) <=> i + 0 \in high BY <1>5, ShiftFacts
  <2>2. ShiftedRight(high, 0) \in SUBSET Register BY <1>5, ShiftFacts
  <2>3. \A i \in Register : i + 0 = i BY CrcFacts
  <2>4. ShiftedRight(high, 0) = high BY <1>5, <2>1, <2>2, <2>3
  <2>5. w[0] = SymDiff(index, high) BY <1>3, <1>4, <2>4 DEF Whole
  <2>6. \A i : i \in w[0] <=> ((i \in index /\ i \notin high) \/ (i \notin index /\ i \in high)) BY <2>5, XorFacts
  <2>7. \A i : i \in m <=> ((i \in c /\ i \notin BitsOfByte(b)) \/ (i \notin c /\ i \in BitsOfByte(b))) BY MixedFacts
  <2>8. BitsOfByte(b) \subseteq LowByte BY MixedFacts
  <2>9. \A i : i \in index <=> i \in m /\ i \in LowByte BY DEF index
  <2> HIDE DEF m, w
  <2> QED BY <2>6, <2>7, <2>8, <2>9
<1>7. w[ByteBits] = CrcByte(b)[c]
  <2> DEFINE s == ShiftedRight(high, ByteBits)
             t == ShiftedRight(c, ByteBits)
             e == CrcTable(index)
  <2>1. s \in SUBSET Register /\ \A i \in Register : i \in s <=> i + ByteBits \in high BY <1>4, <1>5, ShiftFacts
  <2>2. t \in SUBSET Register /\ \A i \in Register : i \in t <=> i + ByteBits \in c BY <1>4, ShiftFacts
  <2>3. \A i \in Register : i + ByteBits \notin LowByte BY CrcFacts
  <2>4. s = t
    <3> HIDE DEF s, t
    <3>1. \A i \in Register : i \in s <=> i \in t BY <2>1, <2>2, <2>3
    <3> QED BY <2>1, <2>2, <3>1
  <2>5. w[ByteBits] = SymDiff(e, s) BY <1>3, <1>4 DEF Whole
  <2>6. CrcByte(b)[c] = SymDiff(t, e) BY <1>2
  <2> HIDE DEF s, t, e, w
  <2>7. SymDiff(e, s) = SymDiff(s, e) BY DEF SymDiff
  <2> QED BY <2>4, <2>5, <2>6, <2>7
<1>8. \A k \in 1..ByteBits : w[k] = ShiftOne(w[k - 1]) /\ w[k - 1] \in SUBSET Register
  <2> SUFFICES ASSUME NEW k \in 1..ByteBits PROVE w[k] = ShiftOne(w[k - 1]) /\ w[k - 1] \in SUBSET Register OBVIOUS
  <2>1. k \in 0..ByteBits /\ k - 1 \in 0..ByteBits BY <1>4
  <2>2. out[k] = ShiftOne(out[k - 1]) BY <1>3
  <2>3. Whole(out, c, k - 1) \in SUBSET Register /\ Whole(out, c, k) = ShiftOne(Whole(out, c, k - 1))
    BY <2>2, WholeShifts
  <2> QED BY <2>1, <2>3
<1>9. \A k \in 0..ByteBits : w[k] \in SUBSET Register
  <2> SUFFICES ASSUME NEW k \in 0..ByteBits PROVE w[k] \in SUBSET Register OBVIOUS
  <2> HIDE DEF w, m
  <2>1. CASE k = 0 BY <1>6, <2>1, MixedFacts DEF m
  <2>2. CASE k # 0
    <3>1. k \in 1..ByteBits BY <1>4, <2>2
    <3> QED BY <1>8, <3>1, ShiftOneFacts
  <2> QED BY <2>1, <2>2
<1>10. w \in [0..ByteBits -> SUBSET Register] BY <1>9
<1> HIDE DEF w, m
<1> QED BY <1>6, <1>7, <1>8, <1>10 DEF m

LEMMA CrcByteType ==
  ASSUME NEW c \in SUBSET Register, NEW b PROVE CrcByte(b)[c] \in SUBSET Register
<1>1. PICK w \in [0..ByteBits -> SUBSET Register] : w[ByteBits] = CrcByte(b)[c] BY ByteRule
<1>2. ByteBits \in 0..ByteBits BY CrcFacts
<1> QED BY <1>1, <1>2

\* Two registers that agree from bit h on after a byte agreed from the next
\* byte on before it, and registers and bytes together in the low byte.
LEMMA ByteBack ==
  ASSUME NEW c \in SUBSET Register, NEW d \in SUBSET Register, NEW a, NEW b, NEW h \in Nat, h + ByteBits <= CrcBits,
         Agree(CrcByte(a)[c], CrcByte(b)[d], 0, h)
  PROVE  Agree(Mixed(c, a), Mixed(d, b), ByteBits, h + ByteBits)
<1>1. PICK v \in [0..ByteBits -> SUBSET Register] :
        /\ v[0] = Mixed(c, a) /\ v[ByteBits] = CrcByte(a)[c] /\ \A k \in 1..ByteBits : v[k] = ShiftOne(v[k - 1])
  BY ByteRule
<1>2. PICK w \in [0..ByteBits -> SUBSET Register] :
        /\ w[0] = Mixed(d, b) /\ w[ByteBits] = CrcByte(b)[d] /\ \A k \in 1..ByteBits : w[k] = ShiftOne(w[k - 1])
  BY ByteRule
<1> DEFINE n == ByteBits
           S == {j \in Nat : Agree(v[n - j], w[n - j], j, h + j)}
<1>3. n \in Nat /\ CrcBits \in Nat BY CrcFacts
<1>4. 0 \in S
  <2>1. n - 0 = n /\ h + 0 = h BY <1>3
  <2> QED BY <1>1, <1>2, <2>1
<1>5. ASSUME NEW j \in 0..(n - 1), j \in S PROVE j + 1 \in S
  <2> DEFINE k == n - j
             x == v[k - 1]
             y == w[k - 1]
  <2>1. /\ j \in Nat /\ k \in 1..n /\ k - 1 \in 0..n /\ n - (j + 1) = k - 1 /\ h + j \in Nat
        /\ h + j <= CrcBits - 1 /\ (h + j) + 1 = h + (j + 1) /\ j + 1 \in Nat
    BY <1>3
  <2>2. Agree(v[k], w[k], j, h + j) BY <1>5
  <2> HIDE DEF n, k
  <2>3. x \in SUBSET Register /\ y \in SUBSET Register /\ v[k] = ShiftOne(x) /\ w[k] = ShiftOne(y)
    BY <1>1, <1>2, <2>1 DEF n
  <2> HIDE DEF x, y
  <2>4. Agree(x, y, j + 1, (h + j) + 1) BY <2>1, <2>2, <2>3, OneBack
  <2>5. Agree(v[n - (j + 1)], w[n - (j + 1)], j + 1, h + (j + 1)) BY <2>1, <2>4 DEF x, y
  <2> QED BY <2>1, <2>5
<1>6. 0 \in Int /\ n \in Int /\ n \in 0..n BY <1>3
<1> HIDE DEF S, n
<1>7. n \in S BY <1>4, <1>5, <1>6, Reaches
<1>8. Agree(v[n - n], w[n - n], n, h + n) BY <1>7 DEF S
<1>9. n - n = 0 BY <1>3
<1> QED BY <1>1, <1>2, <1>8, <1>9 DEF n

\* The bits of a byte tell it.
LEMMA ByteBitsTell ==
  ASSUME NEW a \in Byte, NEW b \in Byte, BitsOfByte(a) = BitsOfByte(b) PROVE a = b
<1> DEFINE n == ByteBits
           S == {j \in Nat : a \div Pow2[n - j] = b \div Pow2[n - j]}
<1>1. n \in Nat /\ n >= 1 /\ Pow2[n] \in Nat /\ Pow2[n] >= 1 BY CrcFacts, Pow2Type
<1>2. a \in Nat /\ b \in Nat /\ a < Pow2[n] /\ b < Pow2[n] BY <1>1 DEF Byte
<1>3. 0 \in S
  <2> DEFINE P == Pow2[n]
  <2>1. n - 0 = n BY <1>1
  <2>2. \A x \in Nat : x < P => x \div P = 0
    <3> SUFFICES ASSUME NEW x \in Nat, x < P PROVE x \div P = 0 OBVIOUS
    <3>1. P \in Nat /\ P >= 1 BY <1>1
    <3> HIDE DEF P
    <3> DEFINE q == 0
    <3>2. q \in Int /\ x \in 0..(P - 1) /\ x = q * P + x BY <3>1
    <3> HIDE DEF q
    <3>3. (q * P + x) \div P = q BY <3>1, <3>2, DivUnique
    <3> QED BY <3>2, <3>3 DEF q
  <2> QED BY <1>2, <2>1, <2>2
<1>4. ASSUME NEW j \in 0..(n - 1), j \in S PROVE j + 1 \in S
  <2> DEFINE i == n - (j + 1)
  <2>1. i \in Nat /\ i + 1 = n - j /\ i \in LowByte /\ j + 1 \in Nat BY <1>1, CrcFacts
  <2>2. a \div Pow2[i + 1] = b \div Pow2[i + 1] BY <1>4, <2>1
  <2>3. Bit(a, i) = Bit(b, i)
    <3>1. i \in BitsOfByte(a) <=> i \in BitsOfByte(b) OBVIOUS
    <3>2. Bit(a, i) = 1 <=> Bit(b, i) = 1 BY <2>1, <3>1 DEF BitsOfByte
    <3>3. Bit(a, i) \in {0, 1} /\ Bit(b, i) \in {0, 1} BY <1>2, <2>1, BitType
    <3> QED BY <3>2, <3>3
  <2> HIDE DEF i
  <2>4. /\ a \div Pow2[i] = 2 * (a \div Pow2[i + 1]) + Bit(a, i)
        /\ b \div Pow2[i] = 2 * (b \div Pow2[i + 1]) + Bit(b, i)
    BY <1>2, <2>1, NextBit
  <2>5. a \div Pow2[i] = b \div Pow2[i] BY <2>2, <2>3, <2>4
  <2> QED BY <2>1, <2>5 DEF i
<1>5. 0 \in Int /\ n \in Int /\ n \in 0..n BY <1>1
<1> HIDE DEF S
<1>6. n \in S BY <1>4, <1>3, <1>5, Reaches
<1>7. a \div Pow2[n - n] = b \div Pow2[n - n] BY <1>6 DEF S
<1>8. n - n = 0 /\ Pow2[0] = 1 BY <1>1, Pow2Type
<1>9. a \div 1 = b \div 1 BY <1>7, <1>8
<1> QED BY <1>2, <1>9

\* The register after each byte of a piece
RunsOver(at, c, s) ==
  /\ at \in [0..Len(s) -> SUBSET Register]
  /\ at[0] = Register \ c
  /\ \A k \in 1..Len(s) : at[k] = CrcByte(s[k])[at[k - 1]]

LEMMA CrcRule ==
  ASSUME NEW c \in SUBSET Register, NEW s \in Seq(Byte)
  PROVE  \E at : RunsOver(at, c, s) /\ Crc(c, s) = Register \ at[Len(s)]
<1> DEFINE n == Len(s)
           R == SUBSET Register
           x0 == Register \ c
           Rec(f) == f = [k \in 0..n |-> IF k = 0 THEN Register \ c ELSE CrcByte(s[k])[f[k - 1]]]
           at == CHOOSE f : Rec(f)
           F == [k \in 0..n |-> CrcByte(s[k])]
           G == [k \in 0..n |-> R]
<1>1. Crc(c, s) = Register \ at[n] BY DEF Crc
<1>2. n \in Nat OBVIOUS
<1>3. x0 \in R OBVIOUS
<1>4. \A k \in 0..n : G[k] = R OBVIOUS
<1>5. \A k \in 0..n : F[k] = CrcByte(s[k]) OBVIOUS
<1>6. \A b : \A x \in R : CrcByte(b)[x] \in R BY CrcByteType
<1>7. \A k \in (0 + 1)..n : k \in 0..n /\ k - 1 \in 0..n /\ k # 0 BY <1>2
<1>8. \A k \in 0..n : k # 0 => k - 1 \in 0..n BY <1>2
<1>9. 0 \in 0..n /\ n \in 0..n /\ 0 \in Int /\ n \in Int /\ 0 <= n BY <1>2
<1> HIDE DEF F, G, R, n
<1>10. x0 \in G[0] BY <1>3, <1>4, <1>9
<1>11. \A k \in (0 + 1)..n : \A x \in G[k - 1] : F[k][x] \in G[k] BY <1>4, <1>5, <1>6, <1>7
<1>12. PICK g : Recurs(g, 0, n, x0, F) /\ \A k \in 0..n : g[k] \in G[k]
  <2> HIDE DEF x0
  <2> QED BY <1>9, <1>10, <1>11, RecursionIn
<1>13. Rec(g)
  <2>1. g = [k \in 0..n |-> IF k = 0 THEN x0 ELSE F[k][g[k - 1]]] BY <1>12 DEF Recurs
  <2>2. \A k \in 0..n : (IF k = 0 THEN x0 ELSE F[k][g[k - 1]]) = (IF k = 0 THEN Register \ c ELSE CrcByte(s[k])[g[k - 1]])
    BY <1>5
  <2> QED BY <2>1, <2>2
<1>14. Rec(at) BY <1>13
<1> HIDE DEF at
<1>15. at = [k \in 0..n |-> IF k = 0 THEN Register \ c ELSE CrcByte(s[k])[at[k - 1]]] BY <1>14
<1>16. \A k \in 0..n : at[k] = IF k = 0 THEN Register \ c ELSE CrcByte(s[k])[at[k - 1]] BY <1>15
<1>17. \A k \in 0..n : at[k] \in G[k]
  <2>1. at[0] \in G[0] BY <1>9, <1>10, <1>16
  <2>2. \A k \in (0 + 1)..n : at[k - 1] \in G[k - 1] => at[k] = F[k][at[k - 1]] BY <1>5, <1>7, <1>16
  <2> QED BY <1>9, <1>11, <2>1, <2>2, RecursionStays, ZenonT(60)
<1>18. at \in [0..n -> R] BY <1>4, <1>15, <1>17
<1>19. \A k \in 1..n : at[k] = CrcByte(s[k])[at[k - 1]]
  <2> SUFFICES ASSUME NEW k \in 1..n PROVE at[k] = CrcByte(s[k])[at[k - 1]] OBVIOUS
  <2>1. k \in 0..n /\ k # 0 BY <1>2
  <2> QED BY <1>16, <2>1
<1>20. at[0] = Register \ c BY <1>9, <1>16
<1>21. RunsOver(at, c, s) BY <1>18, <1>19, <1>20 DEF RunsOver, n, R
<1> QED BY <1>1, <1>21 DEF n

\* A checksum taken piece by piece is that of the whole.
LEMMA CrcPieces ==
  ASSUME NEW s \in Seq(Byte), NEW t \in Seq(Byte)
  PROVE  Crc(Crc(CrcInit, s), t) = Crc(CrcInit, s \o t)
<1> DEFINE c == CrcInit
           m == Len(s)
           n == Len(t)
           u == s \o t
           d == Crc(c, s)
<1>1. c \in SUBSET Register BY DEF CrcInit
<1>2. u \in Seq(Byte) /\ Len(u) = m + n /\ \A i \in 1..(m + n) : u[i] = IF i <= m THEN s[i] ELSE t[i - m]
  BY ConcatProperties
<1>3. m \in Nat /\ n \in Nat OBVIOUS
<1> HIDE DEF c, u
<1>4. PICK a : RunsOver(a, c, s) /\ Crc(c, s) = Register \ a[Len(s)] BY <1>1, CrcRule
<1>5. d \in SUBSET Register BY <1>4
<1>6. a[m] \in SUBSET Register BY <1>3, <1>4 DEF RunsOver
<1> HIDE DEF d
<1>7. PICK b : RunsOver(b, d, t) /\ Crc(d, t) = Register \ b[Len(t)] BY <1>5, CrcRule
<1>8. PICK w : RunsOver(w, c, u) /\ Crc(c, u) = Register \ w[Len(u)] BY <1>1, <1>2, CrcRule
<1>9. b[0] = a[m]
  <2>1. d = Register \ a[m] BY <1>4 DEF d
  <2>2. b[0] = Register \ d BY <1>7 DEF RunsOver
  <2> QED BY <1>6, <2>1, <2>2
<1>10. a[0] = w[0] BY <1>4, <1>8 DEF RunsOver
<1>11. \A k \in 1..m : a[k] = CrcByte(s[k])[a[k - 1]] BY <1>4 DEF RunsOver
<1>12. \A k \in 1..n : b[k] = CrcByte(t[k])[b[k - 1]] BY <1>7 DEF RunsOver
<1>13. \A k \in 1..(m + n) : w[k] = CrcByte(u[k])[w[k - 1]] BY <1>2, <1>8 DEF RunsOver
<1> HIDE DEF m, n
<1>14. w[m] = a[m]
  <2> DEFINE S == {k \in Nat : w[k] = a[k]}
  <2>1. 0 \in S BY <1>10
  <2>2. ASSUME NEW k \in 0..(m - 1), k \in S PROVE k + 1 \in S
    <3>1. k + 1 \in 1..m /\ k + 1 \in 1..(m + n) /\ (k + 1) - 1 = k /\ k + 1 <= m /\ k + 1 \in Nat BY <1>3
    <3>2. u[k + 1] = s[k + 1] BY <1>2, <3>1
    <3>3. a[k + 1] = CrcByte(s[k + 1])[a[k]] BY <1>11, <3>1
    <3>4. w[k + 1] = CrcByte(u[k + 1])[w[k]] BY <1>13, <3>1
    <3> QED BY <2>2, <3>1, <3>2, <3>3, <3>4
  <2>3. 0 \in Int /\ m \in Int /\ m \in 0..m BY <1>3
  <2> HIDE DEF S
  <2>4. m \in S BY <2>1, <2>2, <2>3, Reaches
  <2> QED BY <2>4 DEF S
<1>15. w[m + n] = b[n]
  <2> DEFINE S == {k \in Nat : w[m + k] = b[k]}
  <2>1. 0 \in S
    <3>1. m + 0 = m BY <1>3
    <3> QED BY <1>9, <1>14, <3>1
  <2>2. ASSUME NEW k \in 0..(n - 1), k \in S PROVE k + 1 \in S
    <3> DEFINE j == m + (k + 1)
    <3>1. /\ k + 1 \in 1..n /\ j \in 1..(m + n) /\ (k + 1) - 1 = k /\ ~(j <= m) /\ k + 1 \in Nat
          /\ j - 1 = m + k /\ j - m = k + 1
      BY <1>3
    <3>2. u[j] = t[j - m] BY <1>2, <3>1
    <3>3. b[k + 1] = CrcByte(t[k + 1])[b[k]] BY <1>12, <3>1
    <3>4. w[j] = CrcByte(u[j])[w[j - 1]] BY <1>13, <3>1
    <3>5. w[m + k] = b[k] BY <2>2
    <3>6. w[j] = b[k + 1] BY <3>1, <3>2, <3>3, <3>4, <3>5
    <3> QED BY <3>1, <3>6
  <2>3. 0 \in Int /\ n \in Int /\ n \in 0..n BY <1>3
  <2> HIDE DEF S
  <2>4. n \in S BY <2>1, <2>2, <2>3, Reaches
  <2> QED BY <2>4 DEF S
<1> QED BY <1>2, <1>7, <1>8, <1>15 DEF c, u, d, n

\* A change within CrcBits consecutive bits changes the checksum.
LEMMA BurstChanges ==
  ASSUME NEW s \in Seq(Byte), NEW t \in Seq(Byte), Len(s) = Len(t), Crc(CrcInit, s) = Crc(CrcInit, t),
         NEW lo \in 1..Len(s), NEW hi \in lo..Len(s), s[lo] # t[lo],
         \A i \in 1..Len(s) : i < lo \/ i > hi => s[i] = t[i],
         (hi - lo + 1) * ByteBits <= CrcBits
  PROVE  FALSE
<1> DEFINE c == CrcInit
           n == Len(s)
<1>1. c \in SUBSET Register BY DEF CrcInit
<1>2. n \in Nat /\ lo \in Nat /\ hi \in Nat /\ 1 <= lo /\ lo <= hi /\ hi <= n OBVIOUS
<1> HIDE DEF c
<1>3. PICK a : RunsOver(a, c, s) /\ Crc(c, s) = Register \ a[Len(s)] BY <1>1, CrcRule
<1>4. PICK b : RunsOver(b, c, t) /\ Crc(c, t) = Register \ b[Len(t)] BY <1>1, CrcRule
<1>5. \A k \in 0..n : a[k] \in SUBSET Register /\ b[k] \in SUBSET Register BY <1>3, <1>4 DEF RunsOver
<1>6. \A k \in 1..n : a[k] = CrcByte(s[k])[a[k - 1]] /\ b[k] = CrcByte(t[k])[b[k - 1]] BY <1>3, <1>4 DEF RunsOver
<1>7. a[0] = b[0] BY <1>3, <1>4 DEF RunsOver
<1>8. a[n] = b[n]
  <2>1. Register \ a[n] = Register \ b[n] BY <1>3, <1>4 DEF c
  <2>2. n \in 0..n BY <1>2
  <2> QED BY <1>5, <2>1, <2>2
<1>0. \A k \in 1..n : s[k] \in Byte /\ t[k] \in Byte OBVIOUS
<1> HIDE DEF n
<1>9. ByteBits \in Nat /\ ByteBits >= 1 /\ CrcBits \in Nat /\ ByteBits <= CrcBits BY CrcFacts
\* before the change
<1>10. a[lo - 1] = b[lo - 1]
  <2> DEFINE S == {k \in Nat : a[k] = b[k]}
  <2>1. 0 \in S BY <1>7
  <2>2. ASSUME NEW k \in 0..((lo - 1) - 1), k \in S PROVE k + 1 \in S
    <3>1. k + 1 \in 1..n /\ k + 1 < lo /\ (k + 1) - 1 = k /\ k + 1 \in Nat BY <1>2
    <3>2. s[k + 1] = t[k + 1] BY <3>1 DEF n
    <3>3. a[k + 1] = CrcByte(s[k + 1])[a[k]] /\ b[k + 1] = CrcByte(t[k + 1])[b[k]] BY <1>6, <3>1
    <3> QED BY <2>2, <3>1, <3>2, <3>3
  <2>3. 0 \in Int /\ lo - 1 \in Int /\ lo - 1 \in 0..(lo - 1) BY <1>2
  <2> HIDE DEF S
  <2>4. lo - 1 \in S BY <2>1, <2>2, <2>3, Reaches
  <2> QED BY <2>4 DEF S
\* after it, backwards from the end
<1>11. a[hi] = b[hi]
  <2> DEFINE S == {j \in Nat : a[n - j] = b[n - j]}
  <2>1. 0 \in S
    <3>1. n - 0 = n BY <1>2
    <3> QED BY <1>8, <3>1
  <2>2. ASSUME NEW j \in 0..((n - hi) - 1), j \in S PROVE j + 1 \in S
    <3> DEFINE k == n - j
               x == a[k - 1]
               y == b[k - 1]
               e == s[k]
               z == 0
    <3>1. k \in 1..n /\ k > hi /\ k - 1 \in 0..n /\ n - (j + 1) = k - 1 /\ j + 1 \in Nat BY <1>2
    <3>2. s[k] = t[k] BY <3>1 DEF n
    <3>3. a[k] = CrcByte(e)[x] /\ b[k] = CrcByte(e)[y] BY <1>6, <3>1, <3>2
    <3>4. a[k] = b[k] BY <2>2
    <3>5. x \in SUBSET Register /\ y \in SUBSET Register BY <1>5, <3>1
    <3> HIDE DEF k, x, y, e
    <3>6. Agree(CrcByte(e)[x], CrcByte(e)[y], 0, z) BY <3>3, <3>4 DEF Agree
    <3>7. z \in Nat /\ z + ByteBits <= CrcBits BY <1>9
    <3> HIDE DEF z
    <3>8. Agree(Mixed(x, e), Mixed(y, e), ByteBits, z + ByteBits) BY <3>5, <3>6, <3>7, ByteBack
    <3>9. \A i \in Register : i < ByteBits \/ i >= z + ByteBits BY <1>9, CrcFacts DEF z
    <3>10. \A i \in Register : i \in Mixed(x, e) <=> i \in Mixed(y, e) BY <3>8, <3>9 DEF Agree
    <3>11. /\ \A i : i \in Mixed(x, e) <=> ((i \in x /\ i \notin BitsOfByte(e)) \/ (i \notin x /\ i \in BitsOfByte(e)))
           /\ \A i : i \in Mixed(y, e) <=> ((i \in y /\ i \notin BitsOfByte(e)) \/ (i \notin y /\ i \in BitsOfByte(e)))
      BY <3>5, MixedFacts
    <3>12. \A i \in Register : i \in x <=> i \in y BY <3>10, <3>11
    <3>13. x = y BY <3>5, <3>12
    <3> QED BY <3>1, <3>13 DEF x, y
  <2>3. 0 \in Int /\ n - hi \in Int /\ n - hi \in 0..(n - hi) BY <1>2
  <2> HIDE DEF S
  <2>4. n - hi \in S BY <2>1, <2>2, <2>3, Reaches
  <2>5. n - (n - hi) = hi BY <1>2
  <2> QED BY <2>4, <2>5 DEF S
\* through it, the registers differ in low bits only
<1> DEFINE w == hi - lo
<1>12. w \in Nat BY <1>2
<1>13. \A j \in 0..w : j * ByteBits \in Nat /\ j * ByteBits + ByteBits <= CrcBits /\ (j + 1) * ByteBits = j * ByteBits + ByteBits
  <2> SUFFICES ASSUME NEW j \in 0..w
               PROVE  j * ByteBits \in Nat /\ j * ByteBits + ByteBits <= CrcBits /\ (j + 1) * ByteBits = j * ByteBits + ByteBits
    OBVIOUS
  <2>1. j \in Nat /\ w - j \in Nat BY <1>12
  <2>2. j * ByteBits \in Nat /\ (w - j) * ByteBits \in Nat BY <1>9, <2>1
  <2>3. (hi - lo + 1) * ByteBits = j * ByteBits + (w - j) * ByteBits + ByteBits BY <1>2, <1>9, <2>1
  <2>4. (j + 1) * ByteBits = j * ByteBits + ByteBits BY <1>9, <2>1
  <2> QED BY <1>9, <2>2, <2>3, <2>4
<1>14. Agree(a[lo], b[lo], 0, w * ByteBits)
  <2> DEFINE S == {j \in Nat : Agree(a[hi - j], b[hi - j], 0, j * ByteBits)}
  <2>1. 0 \in S
    <3>1. hi - 0 = hi BY <1>2
    <3> QED BY <1>11, <3>1 DEF Agree
  <2>2. ASSUME NEW j \in 0..(w - 1), j \in S PROVE j + 1 \in S
    <3> DEFINE k == hi - j
               x == a[k - 1]
               y == b[k - 1]
               h == j * ByteBits
    <3>1. k \in 1..n /\ k - 1 \in 0..n /\ hi - (j + 1) = k - 1 /\ j + 1 \in Nat /\ j \in 0..w BY <1>2
    <3>2. a[k] = CrcByte(s[k])[x] /\ b[k] = CrcByte(t[k])[y] BY <1>6, <3>1
    <3>3. Agree(a[k], b[k], 0, h) BY <2>2
    <3>4. x \in SUBSET Register /\ y \in SUBSET Register BY <1>5, <3>1
    <3>5. h \in Nat /\ h + ByteBits <= CrcBits /\ (j + 1) * ByteBits = h + ByteBits BY <1>13, <3>1
    <3> HIDE DEF k, x, y, h
    <3>6. Agree(Mixed(x, s[k]), Mixed(y, t[k]), ByteBits, h + ByteBits) BY <3>2, <3>3, <3>4, <3>5, ByteBack
    <3>7. Agree(x, y, 0, h + ByteBits)
      <4> SUFFICES ASSUME NEW i \in Register, i < 0 \/ i >= h + ByteBits PROVE i \in x <=> i \in y BY DEF Agree
      <4>1. i \notin LowByte /\ i >= h + ByteBits BY <1>9, <3>5, CrcFacts
      <4>2. i \in Mixed(x, s[k]) <=> i \in Mixed(y, t[k]) BY <3>6, <4>1 DEF Agree
      <4>3. i \notin BitsOfByte(s[k]) /\ i \notin BitsOfByte(t[k]) BY <3>4, <4>1, MixedFacts
      <4>4. i \in Mixed(x, s[k]) <=> i \in x BY <3>4, <4>3, MixedFacts
      <4>5. i \in Mixed(y, t[k]) <=> i \in y BY <3>4, <4>3, MixedFacts
      <4> QED BY <4>2, <4>4, <4>5
    <3>8. Agree(a[hi - (j + 1)], b[hi - (j + 1)], 0, (j + 1) * ByteBits) BY <3>1, <3>5, <3>7 DEF x, y
    <3> QED BY <3>1, <3>8
  <2>3. 0 \in Int /\ w \in Int /\ w \in 0..w BY <1>12
  <2> HIDE DEF S, w
  <2>4. w \in S BY <2>1, <2>2, <2>3, Reaches
  <2>5. hi - w = lo BY <1>2 DEF w
  <2> QED BY <2>4, <2>5 DEF S
\* the first changed byte met the same register
<1>15. BitsOfByte(s[lo]) = BitsOfByte(t[lo])
  <2> DEFINE x == a[lo - 1]
             h == w * ByteBits
  <2>1. lo \in 1..n /\ lo - 1 \in 0..n BY <1>2
  <2>2. a[lo] = CrcByte(s[lo])[x] /\ b[lo] = CrcByte(t[lo])[x] BY <1>6, <1>10, <2>1
  <2>3. x \in SUBSET Register BY <1>5, <2>1
  <2>4. h \in Nat /\ h + ByteBits <= CrcBits BY <1>12, <1>13
  <2>5. Agree(a[lo], b[lo], 0, h) BY <1>14
  <2> HIDE DEF x, h, w
  <2>6. Agree(Mixed(x, s[lo]), Mixed(x, t[lo]), ByteBits, h + ByteBits) BY <2>2, <2>3, <2>4, <2>5, ByteBack
  <2>7. BitsOfByte(s[lo]) \subseteq LowByte /\ BitsOfByte(t[lo]) \subseteq LowByte BY <2>3, MixedFacts
  <2>8. \A i \in LowByte : i \in BitsOfByte(s[lo]) <=> i \in BitsOfByte(t[lo])
    <3> SUFFICES ASSUME NEW i \in LowByte PROVE i \in BitsOfByte(s[lo]) <=> i \in BitsOfByte(t[lo]) OBVIOUS
    <3>1. i \in Register /\ i < ByteBits BY CrcFacts
    <3>2. i \in Mixed(x, s[lo]) <=> i \in Mixed(x, t[lo]) BY <2>6, <3>1 DEF Agree
    <3>3. /\ i \in Mixed(x, s[lo]) <=> ((i \in x /\ i \notin BitsOfByte(s[lo])) \/ (i \notin x /\ i \in BitsOfByte(s[lo])))
          /\ i \in Mixed(x, t[lo]) <=> ((i \in x /\ i \notin BitsOfByte(t[lo])) \/ (i \notin x /\ i \in BitsOfByte(t[lo])))
      BY <2>3, MixedFacts
    <3> QED BY <3>2, <3>3
  <2> QED BY <2>7, <2>8
<1>16. s[lo] \in Byte /\ t[lo] \in Byte
  <2>1. lo \in 1..n BY <1>2
  <2> QED BY <1>0, <2>1
<1> QED BY <1>15, <1>16, ByteBitsTell

(***************************************************************************)
(* What the checksum tells                                                 *)
(***************************************************************************)
SumOK ==
  /\ result = "none" /\ job.caller \in {"callback", "iter"} => crc = Crc(CrcInit, given)
  /\ result = "ok" /\ job.caller \in Zips =>
       outOfs = job.declared /\ Crc(CrcInit, given) = Crc(CrcInit, job.content)

LEMMA CrcOfNothing == Crc(CrcInit, <<>>) = CrcInit
<1> DEFINE s == <<>>
           c == CrcInit
<1>1. c \in SUBSET Register /\ s \in Seq(Byte) /\ Len(s) = 0 BY DEF CrcInit
<1> HIDE DEF s, c
<1>2. PICK at : RunsOver(at, c, s) /\ Crc(c, s) = Register \ at[Len(s)] BY <1>1, CrcRule
<1>3. at[0] = Register \ c BY <1>2 DEF RunsOver
<1>4. Crc(c, s) = c BY <1>1, <1>2, <1>3
<1> QED BY <1>4 DEF s, c

LEMMA InitSum == ASSUME Init PROVE SumOK
<1>1. given = <<>> /\ crc = CrcInit /\ result = "none" BY DEF Init
<1> QED BY <1>1, CrcOfNothing DEF SumOK

\* A verdict is "ok" for the declared size and the entry's own checksum only.
LEMMA VerdictFacts ==
  ASSUME NEW ofs, NEW sum
  PROVE  Verdict(ofs, sum) = "ok" => ofs = job.declared /\ sum = Crc(CrcInit, job.content)
BY DEF Verdict

LEMMA SumKept == ASSUME Inv, SumOK, [Next]_vars PROVE SumOK'
<1>1. CASE UNCHANGED <<job, result, crc, given, outOfs>> BY <1>1 DEF SumOK
<1>2. CASE UNCHANGED vars \/ Decompress \/ ZipCall \/ WholeCall \/ ZlibEnter \/ ZlibCall
  <2>1. UNCHANGED <<job, result, crc, given, outOfs>>
    BY <1>2 DEF vars, callerVars, Decompress, ZipCall, WholeCall, ZlibEnter, ZlibCall
  <2> QED BY <1>1, <2>1
<1>3. CASE ReadFails \/ WriteFails
  <2>1. result' = "failed" BY <1>3 DEF ReadFails, WriteFails
  <2> QED BY <2>1 DEF SumOK
<1>4. CASE HeapReturn \/ WholeReturn \/ ZlibFlush \/ ZlibReturn
  <2>1. job' = job /\ job.caller \in {"heap", "sink", "once", "zlib"}
    BY <1>4 DEF HeapReturn, WholeReturn, ZlibFlush, ZlibReturn, Loops
  <2> QED BY <2>1 DEF SumOK, Zips
<1>5. CASE CallbackReturn
  <2>1. /\ job.caller = "callback" /\ result = "none" /\ Returned /\ job' = job /\ given' = given \o Produced
        /\ outOfs' = outOfs + Len(Produced) /\ crc' = Crc(crc, Produced)
    BY <1>5 DEF CallbackReturn, Loops
  <2>2. given \in Seq(Byte) /\ Produced \in Seq(Byte) BY <2>1, ReturnFacts DEF Zips
  <2>3. crc = Crc(CrcInit, given) BY <2>1 DEF SumOK
  <2>4. crc' = Crc(CrcInit, given') BY <2>1, <2>2, <2>3, CrcPieces
  <2>5. result' = "ok" => result' = Verdict(outOfs', crc') BY <1>5, <2>1 DEF CallbackReturn
  <2>6. result' = "ok" => outOfs' = job.declared /\ crc' = Crc(CrcInit, job.content) BY <2>5, VerdictFacts
  <2> QED BY <2>1, <2>4, <2>6 DEF SumOK
<1>6. CASE IterReturn
  <2>1. /\ job.caller = "iter" /\ result = "none" /\ UNCHANGED <<job, given, outOfs, crc>>
    BY <1>6 DEF IterReturn, Loops
  <2>2. crc = Crc(CrcInit, given) BY <2>1 DEF SumOK
  <2>3. result' = "ok" => result' = Verdict(outOfs, crc) BY <1>6, <2>1 DEF IterReturn
  <2>4. result' = "ok" => outOfs = job.declared /\ crc = Crc(CrcInit, job.content) BY <2>3, VerdictFacts
  <2> QED BY <2>1, <2>2, <2>4 DEF SumOK
<1>7. CASE IterCopy
  <2>1. /\ job.caller = "iter" /\ result = "none" /\ given \in Seq(Byte) /\ IterPiece \in Seq(Byte)
        /\ given' = given \o IterPiece /\ crc' = Crc(crc, IterPiece)
    BY <1>7, IterPieceFacts
  <2>2. job' = job BY <1>7 DEF IterCopy
  <2>3. crc = Crc(CrcInit, given) BY <2>1 DEF SumOK
  <2>4. crc' = Crc(CrcInit, given') BY <2>1, <2>3, CrcPieces
  <2>5. result' = "ok" => result' = Verdict(outOfs', crc') BY <1>7, <2>1 DEF IterCopy
  <2>6. result' = "ok" => outOfs' = job.declared /\ crc' = Crc(CrcInit, job.content) BY <2>5, VerdictFacts
  <2> QED BY <2>1, <2>2, <2>4, <2>6 DEF SumOK
<1>8. CASE MemReturn
  <2>1. job.caller = "mem" /\ result = "none" /\ job' = job BY <1>8 DEF MemReturn, Loops
  <2>2. result' = "ok" => result' = Verdict(outOfs', Crc(CrcInit, given')) BY <1>8, <2>1 DEF MemReturn
  <2>3. result' = "ok" => outOfs' = job.declared /\ Crc(CrcInit, given') = Crc(CrcInit, job.content)
    BY <2>2, VerdictFacts
  <2> QED BY <2>1, <2>3 DEF SumOK
<1> QED BY <1>2, <1>3, <1>4, <1>5, <1>6, <1>7, <1>8 DEF Next

LEMMA SumTells == ASSUME Inv, SumOK PROVE DamageNoticed
<1> SUFFICES ASSUME result = "ok", job.caller \in Zips
             PROVE  /\ Len(given) = job.declared
                    /\ LET wrong == {i \in DOMAIN given : given[i] # job.content[i]} IN
                         wrong # {} => \E i, k \in wrong : (k - i + 1) * ByteBits > CrcBits
  BY DEF DamageNoticed, Zips
<1> DEFINE s == given
           t == job.content
           n == Len(s)
           wrong == {i \in DOMAIN s : s[i] # t[i]}
<1>1. outOfs = job.declared /\ Crc(CrcInit, s) = Crc(CrcInit, t) BY DEF SumOK
<1>2. s \in Seq(Byte) /\ n = outOfs BY DEF Inv, GivenOK
<1>3. t \in Seq(Byte) /\ job.declared = Len(t) BY CallerFacts DEF Inv, CallerOK
<1>4. n = job.declared /\ n = Len(t) /\ n \in Nat /\ DOMAIN s = 1..n BY <1>1, <1>2, <1>3
<1>5. ASSUME wrong # {}, \A i, k \in wrong : ~((k - i + 1) * ByteBits > CrcBits) PROVE FALSE
  <2>1. \A i \in wrong : i \in 1..n /\ i \in Nat BY <1>4
  <2>2. PICK lo \in wrong : \A i \in wrong : lo <= i
    <3> HIDE DEF wrong
    <3>1. wrong \in SUBSET Nat BY <2>1
    <3> QED BY <1>5, <3>1, LeastNumber
  <2>3. PICK hi \in wrong : \A i \in wrong : i <= hi
    <3> DEFINE W == {n - i : i \in wrong}
    <3>1. W \in SUBSET Nat BY <1>4, <2>1
    <3>2. W # {} BY <1>5
    <3> HIDE DEF W
    <3>3. PICK x \in W : \A y \in W : x <= y BY <3>1, <3>2, LeastNumber
    <3>4. PICK h \in wrong : x = n - h BY <3>3 DEF W
    <3>5. \A i \in wrong : n - h <= n - i BY <3>3, <3>4 DEF W
    <3> HIDE DEF wrong
    <3>6. \A i \in wrong : i <= h BY <1>4, <2>1, <3>4, <3>5
    <3> QED BY <3>6
  <2>4. lo \in 1..n /\ hi \in lo..n BY <2>1, <2>2
  <2>5. s[lo] # t[lo] BY <2>2
  <2>6. \A i \in 1..n : i < lo \/ i > hi => s[i] = t[i]
    <3> SUFFICES ASSUME NEW i \in 1..n, i < lo \/ i > hi, s[i] # t[i] PROVE FALSE OBVIOUS
    <3>1. i \in wrong BY <1>4
    <3> QED BY <2>1, <2>2, <2>3, <3>1
  <2>7. (hi - lo + 1) * ByteBits <= CrcBits
    <3> DEFINE x == (hi - lo + 1) * ByteBits
    <3>1. x \in Int /\ CrcBits \in Int BY <2>4, CrcFacts
    <3>2. ~(x > CrcBits) BY <1>5, <2>2, <2>3
    <3> QED BY <3>1, <3>2
  <2> HIDE DEF s, t, wrong
  <2> QED BY <1>1, <1>2, <1>3, <1>4, <2>4, <2>5, <2>6, <2>7, BurstChanges DEF n
<1> QED BY <1>4, <1>5

\* The zip reader's loops accept an entry only with its declared size, and never
\* with a content that differs from the one the checksum was taken of within
\* CrcBits consecutive bits, however the output was cut into pieces.
THEOREM DamageIsNoticed == Spec => []DamageNoticed
<1>1. Init => SumOK BY InitSum
<1>2. Inv /\ SumOK /\ [Next]_vars => SumOK' BY SumKept
<1>3. Inv /\ SumOK => DamageNoticed BY SumTells
<1> QED BY <1>1, <1>2, <1>3, InflateSafe, PTL DEF Spec
=============================================================================
