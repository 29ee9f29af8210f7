---------------------------- MODULE RobustProofs ------------------------------
(***************************************************************************)
(* What the robust tools promise, for every bound on them: what BinaryOp    *)
(* answers and throws, for all operands and whatever the operation itself    *)
(* does; what an answer of BufferOp is worth, for every set of distances,    *)
(* every number of digits and any number of calls on one object; that        *)
(* IteratedNoder does not repeat for ever; and that the cascaded union of any *)
(* polygons is whole, however the index groups them.                        *)
(***************************************************************************)
EXTENDS BinaryOp, BufferOp, IteratedNoder, CascadedUnion, FiniteSetTheorems, Induction

-----------------------------------------------------------------------------
(* Quotients by a positive number, and by powers of two                     *)

LEMMA QuotientIs ==
  ASSUME NEW n \in Int, NEW d \in Nat \ {0}
  PROVE  /\ n \div d \in Int
         /\ d * (n \div d) <= n /\ n < d * (n \div d) + d
         /\ n % d = n - d * (n \div d)
  OBVIOUS

LEMMA QuotientOnly ==
  ASSUME NEW n \in Int, NEW d \in Nat \ {0}, NEW q \in Int, d * q <= n, n < d * q + d
  PROVE  n \div d = q
<1> DEFINE p == n \div d
<1>1. p \in Int /\ d * p <= n /\ n < d * p + d
  BY QuotientIs
<1> HIDE DEF p
<1>2. \A a, b \in Int : d * a <= n /\ n < d * b + d => a <= b
  <2> SUFFICES ASSUME NEW a \in Int, NEW b \in Int, d * a <= n, n < d * b + d, b + 1 <= a PROVE FALSE
    OBVIOUS
  <2>1. d * (b + 1) <= d * a
    OBVIOUS
  <2>2. d * (b + 1) = d * b + d
    OBVIOUS
  <2>3. d * b \in Int /\ d * a \in Int
    OBVIOUS
  <2> QED BY <2>1, <2>2, <2>3
<1>3. p <= q /\ q <= p
  BY <1>1, <1>2
<1>4. p = q
  BY <1>1, <1>3
<1> QED BY <1>4 DEF p

(* Dividing twice is dividing by the product.                               *)
LEMMA QuotientOfQuotient ==
  ASSUME NEW n \in Int, NEW u \in Nat \ {0}, NEW v \in Nat \ {0}
  PROVE  n \div (u * v) = (n \div u) \div v
<1> DEFINE a == n \div u
           q == a \div v
<1>1. a \in Int /\ u * a <= n /\ n < u * a + u
  BY QuotientIs
<1> HIDE DEF a
<1>2. q \in Int /\ v * q <= a /\ a < v * q + v
  BY <1>1, QuotientIs
<1> HIDE DEF q
<1>3. u * v \in Nat \ {0}
  OBVIOUS
<1>4. (u * v) * q <= n
  <2>1. u * (v * q) <= u * a
    BY <1>1, <1>2
  <2>2. u * (v * q) = (u * v) * q
    BY <1>2
  <2>3. u * a \in Int /\ u * (v * q) \in Int
    BY <1>1, <1>2
  <2> QED BY <1>1, <2>1, <2>2, <2>3
<1>5. n < (u * v) * q + u * v
  <2> DEFINE w == v * q + v
  <2>1. w \in Int /\ a + 1 <= w
    BY <1>1, <1>2
  <2>2. u * w = (u * v) * q + u * v
    BY <1>2
  <2> HIDE DEF w
  <2>3. u * (a + 1) <= u * w
    BY <1>1, <2>1
  <2>4. u * (a + 1) = u * a + u
    BY <1>1
  <2>5. u * a \in Int /\ u * w \in Int
    BY <1>1, <2>1
  <2> QED BY <1>1, <2>2, <2>3, <2>4, <2>5
<1>6. n \div (u * v) = q
  BY <1>2, <1>3, <1>4, <1>5, QuotientOnly
<1> QED BY <1>6 DEF q, a

LEMMA PowerUnfold == \A k \in 0..30 : Pow2[k] \in Nat \ {0} /\ Pow2[k] = IF k = 0 THEN 1 ELSE 2 * Pow2[k - 1]
<1> DEFINE Def(f) == f = [k \in 0..30 |-> IF k = 0 THEN 1 ELSE 2 * f[k - 1]]
           S == Nat \ {0}
           step == [x \in S \X (1..30) |-> 2 * x[1]]
<1>1. Pow2 = CHOOSE f : Def(f)
  BY DEF Pow2
<1>2. PICK f : Iterates(f, 1, step, S, 30)
  <2>1. 1 \in S /\ 30 \in Nat
    OBVIOUS
  <2>2. Steps(step, S, 30)
    BY DEF Steps
  <2> HIDE DEF S, step
  <2> QED BY <2>1, <2>2, IterationExists
<1>3. Def(f)
  <2>1. f \in [0..30 -> S] /\ f[0] = 1 /\ \A k \in 1..30 : f[k] = step[<<f[k - 1], k>>]
    BY <1>2 DEF Iterates
  <2>2. \A k \in 1..30 : k - 1 \in 0..30
    OBVIOUS
  <2>3. \A k \in 1..30 : f[k] = 2 * f[k - 1]
    BY <2>1, <2>2
  <2>4. \A k \in 0..30 : f[k] = IF k = 0 THEN 1 ELSE 2 * f[k - 1]
    BY <2>1, <2>3
  <2>5. f = [k \in 0..30 |-> f[k]]
    BY <2>1
  <2> QED BY <2>4, <2>5
<1> HIDE DEF Def, step
<1>4. Def(Pow2)
  BY <1>1, <1>3
<1>5. \A k \in 0..30 : Pow2[k] = IF k = 0 THEN 1 ELSE 2 * Pow2[k - 1]
  <2> DEFINE P == Pow2
  <2>1. P = [k \in 0..30 |-> IF k = 0 THEN 1 ELSE 2 * P[k - 1]]
    BY <1>4 DEF Def
  <2> HIDE DEF P
  <2>2. \A k \in 0..30 : P[k] = IF k = 0 THEN 1 ELSE 2 * P[k - 1]
    BY <2>1
  <2> QED BY <2>2 DEF P
<1>6. \A k \in 0..30 : Pow2[k] \in S
  <2>1. Pow2[0] \in S
    BY <1>5
  <2>2. \A k \in 1..30 : Pow2[k - 1] \in S => Pow2[k] \in S
    BY <1>5
  <2> HIDE DEF S
  <2> QED BY <2>1, <2>2, StaysIn
<1> QED BY <1>5, <1>6

LEMMA PowerOfSum ==
  ASSUME NEW i \in 0..30, NEW j \in 0..30, i + j <= 30
  PROVE  Pow2[i + j] = Pow2[i] * Pow2[j]
<1> DEFINE T == {k \in 0..30 - i : Pow2[i + k] = Pow2[i] * Pow2[k]}
<1>1. 0 \in T
  BY PowerUnfold
<1>2. ASSUME NEW k \in 0..(30 - i) - 1, k \in T PROVE k + 1 \in T
  <2>1. /\ k + 1 \in 0..30 /\ i + (k + 1) \in 0..30 /\ k \in 0..30 /\ i + k \in 0..30
        /\ (k + 1) - 1 = k /\ (i + (k + 1)) - 1 = i + k /\ k + 1 # 0 /\ i + (k + 1) # 0
        /\ k + 1 \in 0..30 - i
    OBVIOUS
  <2>2. Pow2[k + 1] = 2 * Pow2[k] /\ Pow2[i + (k + 1)] = 2 * Pow2[i + k]
    BY <2>1, PowerUnfold
  <2>3. Pow2[i] \in Nat /\ Pow2[k] \in Nat
    BY <2>1, PowerUnfold
  <2>4. 2 * (Pow2[i] * Pow2[k]) = Pow2[i] * (2 * Pow2[k])
    BY <2>3
  <2> QED BY <1>2, <2>1, <2>2, <2>4
<1> HIDE DEF T
<1>3. 0..30 - i \subseteq T
  <2>1. 0 \in Int /\ 30 - i \in Int /\ 0 <= 30 - i
    OBVIOUS
  <2>2. \A k \in 0..(30 - i) - 1 : k \in T => k + 1 \in T
    BY <1>2
  <2> QED BY <1>1, <2>1, <2>2, IntervalInduction
<1>4. j \in T
  BY <1>3
<1> QED BY <1>4 DEF T

(* Numbers in one block of size 2^b agree in every bit from b up, and in     *)
(* their sign.                                                              *)
LEMMA BlockKeepsBits ==
  ASSUME NEW c \in Int, NEW n \in Int, NEW b \in 0..30,
         c \div Pow2[b] = n \div Pow2[b]
  PROVE  /\ \A i \in b..30 : BitAt(c, i) = BitAt(n, i)
         /\ (c < 0) = (n < 0)
<1>1. Pow2[b] \in Nat \ {0}
  BY PowerUnfold
<1>2. ASSUME NEW i \in b..30 PROVE c \div Pow2[i] = n \div Pow2[i]
  <2>1. i - b \in 0..30 /\ b + (i - b) = i
    OBVIOUS
  <2>2. Pow2[i - b] \in Nat \ {0} /\ Pow2[i] = Pow2[b] * Pow2[i - b]
    <3>1. Pow2[b + (i - b)] = Pow2[b] * Pow2[i - b]
      BY <2>1, PowerOfSum
    <3> QED BY <2>1, <3>1, PowerUnfold
  <2>3. c \div Pow2[i] = (c \div Pow2[b]) \div Pow2[i - b]
    BY <1>1, <2>2, QuotientOfQuotient
  <2>4. n \div Pow2[i] = (n \div Pow2[b]) \div Pow2[i - b]
    BY <1>1, <2>2, QuotientOfQuotient
  <2> QED BY <2>3, <2>4
<1>3. \A x \in Int : (x < 0) = (x \div Pow2[b] < 0)
  <2> SUFFICES ASSUME NEW x \in Int PROVE (x < 0) = (x \div Pow2[b] < 0)
    OBVIOUS
  <2> DEFINE d == Pow2[b]
             q == x \div d
  <2>1. d \in Nat \ {0} /\ q \in Int /\ d * q <= x /\ x < d * q + d
    BY <1>1, QuotientIs
  <2> HIDE DEF d, q
  <2>2. q < 0 => d * q <= -d
    <3>1. q < 0 => d * (q + 1) <= 0
      BY <2>1
    <3>2. d * (q + 1) = d * q + d
      BY <2>1
    <3> QED BY <2>1, <3>1, <3>2
  <2>3. q >= 0 => d * q >= 0
    BY <2>1
  <2>4. d * q \in Int
    BY <2>1
  <2>5. (x < 0) = (q < 0)
    BY <2>1, <2>2, <2>3, <2>4
  <2> QED BY <2>5 DEF q, d
<1>4. \A i \in b..30 : ~(i > 30)
  OBVIOUS
<1>5. (c < 0) = (n < 0)
  BY <1>3
<1> QED BY <1>2, <1>4, <1>5 DEF BitAt

(* Clearing bits below b leaves a number in its block of size 2^b.          *)
LEMMA ClearedInBlock ==
  ASSUME NEW c \in Int, NEW b \in 0..30, NEW s \in 0..b
  PROVE  /\ c - (c % Pow2[s]) \in Int
         /\ (c - (c % Pow2[s])) \div Pow2[b] = c \div Pow2[b]
<1> DEFINE u == Pow2[s]
           v == Pow2[b - s]
           x == c \div u
<1>1. s \in 0..30 /\ b - s \in 0..30 /\ s + (b - s) = b
  OBVIOUS
<1>2. u \in Nat \ {0} /\ v \in Nat \ {0} /\ Pow2[b] = u * v
  <2>1. Pow2[s + (b - s)] = Pow2[s] * Pow2[b - s]
    BY <1>1, PowerOfSum
  <2> QED BY <1>1, <2>1, PowerUnfold
<1> HIDE DEF u, v
<1>3. x \in Int /\ c - (c % u) = u * x
  <2>1. x \in Int /\ c % u = c - u * x
    BY <1>2, QuotientIs
  <2> HIDE DEF x
  <2>2. u * x \in Int
    BY <1>2, <2>1
  <2> QED BY <2>1, <2>2
<1>4. c \div (u * v) = x \div v
  BY <1>2, QuotientOfQuotient
<1> HIDE DEF x
<1>5. u * x \in Int /\ (u * x) \div u = x
  <2>1. u * x \in Int /\ u * x <= u * x /\ u * x < u * x + u
    BY <1>2, <1>3
  <2> QED BY <1>2, <1>3, <2>1, QuotientOnly
<1>6. (u * x) \div (u * v) = x \div v
  BY <1>2, <1>5, QuotientOfQuotient
<1> QED BY <1>2, <1>3, <1>4, <1>5, <1>6 DEF u

-----------------------------------------------------------------------------
(* The bits that numbers share                                              *)

LEMMA MaxUpTo ==
  ASSUME NEW n \in Nat, NEW S \in SUBSET (0..n), S # {}
  PROVE  Max(S) \in S /\ \A k \in S : k <= Max(S)
<1> DEFINE T == {n - k : k \in S}
<1>1. T \subseteq Nat /\ T # {}
  <2>1. PICK k \in S : TRUE
    OBVIOUS
  <2>2. n - k \in T
    BY <2>1
  <2>3. \A x \in S : n - x \in Nat
    OBVIOUS
  <2> QED BY <2>2, <2>3
<1>2. PICK least \in T : \A t \in T : least <= t
  BY <1>1, LeastNatural
<1>3. PICK m \in S : least = n - m
  BY <1>2
<1>4. \A k \in S : n - m <= n - k
  BY <1>2, <1>3
<1>5. \A k \in S : m >= k
  BY <1>4
<1> QED BY <1>3, <1>5 DEF Max

(* What add compares and clears: the highest bit in which the numbers       *)
(* differ, where bits are those of an int.                                  *)
Shifted(i) == IF shiftsWrap THEN i % 32 ELSE i
Differ(c, n) == {i \in 0..52 : GetBit(c, i) # GetBit(n, i)}

LEMMA AddNumberIs ==
  ASSUME NEW c \in Int, NEW n \in Int, NEW first \in Int, shiftsWrap \in BOOLEAN
  PROVE  /\ SignExpBits(n) # SignExpBits(first) => AddNumber(c, first, n) = 0
         /\ SignExpBits(n) = SignExpBits(first) =>
              \E s \in Nat :
                /\ AddNumber(c, first, n) = IF s <= 30 THEN c - (c % Pow2[s]) ELSE 0
                /\ s = 0 \/ \E i \in Differ(c, n) : Shifted(i) = s
<1> DEFINE D == Differ(c, n)
           d == IF D = {} THEN 0 ELSE Max(D)
<1>1. d \in 0..52 /\ (D # {} => d \in D)
  <2>1. D \in SUBSET (0..52)
    BY DEF Differ
  <2> HIDE DEF D
  <2>2. D # {} => Max(D) \in D
    BY <2>1, MaxUpTo
  <2>3. CASE D = {}
    BY <2>3
  <2>4. CASE D # {}
    <3>1. d = Max(D)
      BY <2>4
    <3> QED BY <2>1, <2>2, <2>4, <3>1
  <2> QED BY <2>3, <2>4
<1>2. 64 - (12 + NumCommonMostSigMantissaBits(c, n)) = d
  <2>1. NumCommonMostSigMantissaBits(c, n) = IF D = {} THEN 52 ELSE 52 - Max(D)
    BY DEF NumCommonMostSigMantissaBits, Differ
  <2> HIDE DEF D
  <2> QED BY <1>1, <2>1
<1> HIDE DEF D
<1>3. AddNumber(c, first, n) = IF SignExpBits(n) # SignExpBits(first) THEN 0 ELSE ZeroLowerBits(c, d)
  BY <1>2 DEF AddNumber
<1>4. D = {} => d = 0
  OBVIOUS
<1> HIDE DEF d
<1>5. Shifted(d) \in Nat /\ (d = 0 => Shifted(d) = 0)
  BY <1>1 DEF Shifted
<1>6. ZeroLowerBits(c, d) = IF Shifted(d) <= 30 THEN c - (c % Pow2[Shifted(d)]) ELSE 0
  BY DEF ZeroLowerBits, Shifted
<1>7. Shifted(d) = 0 \/ \E i \in D : Shifted(i) = Shifted(d)
  BY <1>1, <1>4, <1>5
<1> QED BY <1>3, <1>5, <1>6, <1>7 DEF D

(* The aligned block of size 2^b a number lies in.                          *)
BlockOf(n, b) == n \div Pow2[b]

(* In a block that has both, add stays.                                     *)
LEMMA AddStaysInBlock ==
  ASSUME NEW c \in Int, NEW n \in Int, NEW first \in Int, NEW b \in 0..24, shiftsWrap \in BOOLEAN,
         BlockOf(c, b) = BlockOf(n, b), BlockOf(first, b) = BlockOf(n, b)
  PROVE  BlockOf(AddNumber(c, first, n), b) = BlockOf(n, b)
<1>1. b \in 0..30 /\ c \div Pow2[b] = n \div Pow2[b] /\ first \div Pow2[b] = n \div Pow2[b]
  BY DEF BlockOf
<1>2. \A i \in b..30 : BitAt(c, i) = BitAt(n, i)
  BY <1>1, BlockKeepsBits
<1>3. (c < 0) = (n < 0) /\ (first < 0) = (n < 0)
  BY <1>1, BlockKeepsBits
<1>4. ASSUME NEW i \in Differ(c, n) PROVE Shifted(i) < b
  <2>1. i \in 0..52 /\ GetBit(c, i) # GetBit(n, i)
    BY DEF Differ
  <2> DEFINE s == Shifted(i)
             bit(x) == CASE s < 31 -> BitAt(x, s) [] s = 31 -> x < 0 [] s > 31 -> FALSE
  <2>2. s \in Nat
    BY <2>1 DEF Shifted
  <2>3. \A x \in Int : GetBit(x, i) = bit(x)
    BY DEF GetBit, Shifted
  <2> HIDE DEF s
  <2>4. CASE s < 31
    <3>1. \A x \in Int : bit(x) = BitAt(x, s)
      <4>1. s # 31 /\ ~(s > 31)
        BY <2>2, <2>4
      <4> QED BY <2>4, <4>1
    <3>3. BitAt(c, s) # BitAt(n, s)
      BY <2>1, <2>3, <3>1
    <3>2. s \notin b..30
      BY <1>2, <3>3
    <3> QED BY <2>2, <2>4, <3>2 DEF s
  <2>5. CASE s = 31
    BY <1>3, <2>1, <2>3, <2>5
  <2>6. CASE s > 31
    <3>1. ~(s < 31) /\ s # 31
      BY <2>2, <2>6
    <3>2. \A x \in Int : bit(x) = FALSE
      BY <2>6, <3>1
    <3> QED BY <2>1, <2>3, <3>2
  <2> QED BY <2>2, <2>4, <2>5, <2>6
<1>5. PICK s \in Nat : /\ AddNumber(c, first, n) = IF s <= 30 THEN c - (c % Pow2[s]) ELSE 0
                       /\ s = 0 \/ \E i \in Differ(c, n) : Shifted(i) = s
  <2>1. SignExpBits(n) = SignExpBits(first)
    BY <1>3 DEF SignExpBits
  <2> QED BY <2>1, AddNumberIs
<1>6. s \in 0..b /\ s <= 30
  BY <1>4, <1>5
<1>7. /\ c - (c % Pow2[s]) \in Int
      /\ (c - (c % Pow2[s])) \div Pow2[b] = c \div Pow2[b]
  BY <1>1, <1>6, ClearedInBlock
<1> QED BY <1>1, <1>5, <1>6, <1>7 DEF BlockOf

(* Nothing is added to zero.                                                *)
LEMMA AddToZero ==
  ASSUME NEW n \in Int, NEW first \in Int, shiftsWrap \in BOOLEAN
  PROVE  AddNumber(0, first, n) = 0
<1>1. \A s \in 0..30 : 0 - (0 % Pow2[s]) = 0
  <2> SUFFICES ASSUME NEW s \in 0..30 PROVE 0 - (0 % Pow2[s]) = 0
    OBVIOUS
  <2> DEFINE u == Pow2[s]
  <2>1. u \in Nat \ {0}
    BY PowerUnfold
  <2> HIDE DEF u
  <2>2. 0 % u = 0
    BY <2>1
  <2> QED BY <2>2 DEF u
<1>2. \A s \in Nat : s <= 30 => s \in 0..30
  OBVIOUS
<1>3. 0 \in Int
  OBVIOUS
<1> QED BY <1>1, <1>2, <1>3, AddNumberIs

(* Clearing leaves an integer.                                              *)
LEMMA AddNumberType ==
  ASSUME NEW c \in Int, NEW n \in Int, NEW first \in Int, shiftsWrap \in BOOLEAN
  PROVE  AddNumber(c, first, n) \in Int
<1>1. \A s \in Nat : s <= 30 => c - (c % Pow2[s]) \in Int
  <2> SUFFICES ASSUME NEW s \in Nat, s <= 30 PROVE c - (c % Pow2[s]) \in Int
    OBVIOUS
  <2>1. s \in 0..30 /\ s \in 0..s
    OBVIOUS
  <2> QED BY <2>1, ClearedInBlock
<1>2. 0 \in Int
  OBVIOUS
<1> QED BY <1>1, <1>2, AddNumberIs

(* getCommon is what the numbers up to each one share.                      *)
CommonUpTo(f, ns) ==
  /\ f \in [1..Len(ns) -> Int]
  /\ f[1] = ns[1]
  /\ \A k \in 2..Len(ns) : f[k] = AddNumber(f[k - 1], ns[1], ns[k])

LEMMA CommonUnfold ==
  ASSUME NEW ns \in Seq(Int), ns # <<>>, shiftsWrap \in BOOLEAN
  PROVE  \E f : CommonUpTo(f, ns) /\ CommonOf(ns) = f[Len(ns)]
<1> DEFINE n == Len(ns)
           Def(f) == f = [k \in 1..n |-> IF k = 1 THEN ns[1] ELSE AddNumber(f[k - 1], ns[1], ns[k])]
           step == [x \in Int \X (1..n - 1) |-> AddNumber(x[1], ns[1], ns[x[2] + 1])]
<1>1. CommonOf(ns) = (CHOOSE f : Def(f))[n]
  BY DEF CommonOf
<1>2. n \in Nat /\ n >= 1 /\ \A k \in 1..n : ns[k] \in Int
  OBVIOUS
<1> HIDE DEF n
<1>3. PICK g : Iterates(g, ns[1], step, Int, n - 1)
  <2>1. n - 1 \in Nat /\ ns[1] \in Int
    BY <1>2
  <2>2. ASSUME NEW x \in Int, NEW k \in 1..n - 1 PROVE step[<<x, k>>] \in Int
    <3>1. k + 1 \in 1..n /\ 1 \in 1..n
      BY <1>2
    <3>2. AddNumber(x, ns[1], ns[k + 1]) \in Int
      BY <1>2, <3>1, AddNumberType
    <3> QED BY <3>2
  <2> HIDE DEF step
  <2>3. Steps(step, Int, n - 1)
    BY <2>2 DEF Steps
  <2> QED BY <2>1, <2>3, IterationExists
<1> DEFINE h == [k \in 1..n |-> g[k - 1]]
<1>4. CommonUpTo(h, ns)
  <2>1. g \in [0..n - 1 -> Int] /\ g[0] = ns[1] /\ \A k \in 1..n - 1 : g[k] = step[<<g[k - 1], k>>]
    BY <1>3 DEF Iterates
  <2>2. \A k \in 1..n : k - 1 \in 0..n - 1
    BY <1>2
  <2>3. h \in [1..n -> Int] /\ \A k \in 1..n : h[k] = g[k - 1]
    BY <2>1, <2>2
  <2>4. h[1] = ns[1]
    BY <1>2, <2>1, <2>3
  <2>5. ASSUME NEW k \in 2..n PROVE h[k] = AddNumber(h[k - 1], ns[1], ns[k])
    <3>1. k - 1 \in 1..n - 1 /\ k \in 1..n /\ k - 1 \in 1..n /\ (k - 1) + 1 = k /\ (k - 1) - 1 \in 0..n - 1
      BY <1>2
    <3>2. g[k - 1] = step[<<g[(k - 1) - 1], k - 1>>]
      BY <2>1, <3>1
    <3>3. g[(k - 1) - 1] \in Int
      BY <2>1, <3>1
    <3>4. step[<<g[(k - 1) - 1], k - 1>>] = AddNumber(g[(k - 1) - 1], ns[1], ns[k])
      BY <3>1, <3>3
    <3> QED BY <2>3, <3>1, <3>2, <3>4
  <2> HIDE DEF h
  <2> QED BY <2>3, <2>4, <2>5 DEF CommonUpTo, n
<1>5. Def(h)
  <2>1. /\ h = [k \in 1..n |-> h[k]] /\ h[1] = ns[1]
        /\ \A k \in 2..n : h[k] = AddNumber(h[k - 1], ns[1], ns[k])
    BY <1>4 DEF CommonUpTo, n
  <2> HIDE DEF h
  <2>2. \A k \in 1..n : k = 1 \/ k \in 2..n
    BY <1>2
  <2>3. \A k \in 1..n : h[k] = IF k = 1 THEN ns[1] ELSE AddNumber(h[k - 1], ns[1], ns[k])
    BY <2>1, <2>2
  <2> QED BY <2>1, <2>3
<1> DEFINE F == CHOOSE f : Def(f)
<1>6. Def(F)
  <2> HIDE DEF Def, h
  <2> QED BY <1>5
<1> HIDE DEF F
<1>7. CommonUpTo(F, ns)
  <2>1. F = [k \in 1..n |-> F[k]] /\ F[1] = ns[1]
    BY <1>2, <1>6
  <2>2. \A k \in 2..n : F[k] = AddNumber(F[k - 1], ns[1], ns[k])
    <3>1. \A k \in 2..n : k \in 1..n /\ k # 1
      BY <1>2
    <3> QED BY <1>6, <3>1
  <2> DEFINE T == {k \in 1..n : F[k] \in Int}
  <2>3. 1 \in T /\ \A k \in 1..n - 1 : k \in T => k + 1 \in T
    <3>1. 1 \in T
      BY <1>2, <2>1
    <3>2. ASSUME NEW k \in 1..n - 1, k \in T PROVE k + 1 \in T
      <4>1. k + 1 \in 2..n /\ (k + 1) - 1 = k /\ k + 1 \in 1..n /\ 1 \in 1..n
        BY <1>2
      <4>2. F[k + 1] = AddNumber(F[k], ns[1], ns[k + 1])
        BY <2>2, <4>1
      <4> QED BY <1>2, <3>2, <4>1, <4>2, AddNumberType
    <3> QED BY <3>1, <3>2
  <2> HIDE DEF T
  <2>4. 1..n \subseteq T
    <3>1. 1 \in Int /\ n \in Int /\ 1 <= n
      BY <1>2
    <3> QED BY <2>3, <3>1, IntervalInduction
  <2>5. \A k \in 1..n : F[k] \in Int
    BY <2>4 DEF T
  <2>6. F \in [1..n -> Int]
    BY <2>1, <2>5
  <2> QED BY <2>1, <2>2, <2>6 DEF CommonUpTo, n
<1>8. CommonOf(ns) = F[n]
  BY <1>1 DEF F
<1> QED BY <1>7, <1>8 DEF n

(* Numbers that lie in one block share one of its numbers ...               *)
LEMMA CommonInBlock ==
  ASSUME NEW ns \in Seq(Int), ns # <<>>, shiftsWrap \in BOOLEAN, NEW b \in 0..24, NEW q,
         \A k \in 1..Len(ns) : BlockOf(ns[k], b) = q
  PROVE  BlockOf(CommonOf(ns), b) = q
<1>1. PICK f : CommonUpTo(f, ns) /\ CommonOf(ns) = f[Len(ns)]
  BY CommonUnfold
<1> DEFINE n == Len(ns)
           T == {k \in 1..n : BlockOf(f[k], b) = q}
<1>2. n \in Nat /\ n >= 1 /\ \A k \in 1..n : ns[k] \in Int /\ BlockOf(ns[k], b) = q
  OBVIOUS
<1>3. /\ \A k \in 1..n : f[k] \in Int
      /\ f[1] = ns[1]
      /\ \A k \in 2..n : f[k] = AddNumber(f[k - 1], ns[1], ns[k])
  BY <1>1 DEF CommonUpTo
<1>4. CommonOf(ns) = f[n]
  BY <1>1
<1> HIDE DEF n
<1>5. 1 \in T
  BY <1>2, <1>3
<1>6. ASSUME NEW k \in 1..n - 1, k \in T PROVE k + 1 \in T
  <2>1. k + 1 \in 2..n /\ (k + 1) - 1 = k /\ k + 1 \in 1..n /\ 1 \in 1..n /\ k \in 1..n
    BY <1>2
  <2>2. f[k + 1] = AddNumber(f[k], ns[1], ns[k + 1])
    BY <1>3, <2>1
  <2>3. f[k] \in Int /\ ns[k + 1] \in Int /\ ns[1] \in Int
    BY <1>2, <1>3, <2>1
  <2>4. BlockOf(f[k], b) = BlockOf(ns[k + 1], b) /\ BlockOf(ns[1], b) = BlockOf(ns[k + 1], b)
    BY <1>2, <1>6, <2>1
  <2>5. BlockOf(AddNumber(f[k], ns[1], ns[k + 1]), b) = BlockOf(ns[k + 1], b)
    BY <2>3, <2>4, AddStaysInBlock
  <2> QED BY <1>2, <2>1, <2>2, <2>5
<1> HIDE DEF T
<1>7. 1..n \subseteq T
  <2>1. 1 \in Int /\ n \in Int /\ 1 <= n
    BY <1>2
  <2>2. \A k \in 1..n - 1 : k \in T => k + 1 \in T
    BY <1>6
  <2> QED BY <1>5, <2>1, <2>2, IntervalInduction
<1>8. n \in T
  BY <1>2, <1>7
<1> QED BY <1>4, <1>8 DEF T

(* ... and numbers of either sign share nothing.                            *)
LEMMA CommonOfSigns ==
  ASSUME NEW ns \in Seq(Int), shiftsWrap \in BOOLEAN,
         NEW i \in 1..Len(ns), NEW j \in 1..Len(ns), ns[i] < 0, ns[j] >= 0
  PROVE  CommonOf(ns) = 0
<1> DEFINE n == Len(ns)
<1>1. PICK f : CommonUpTo(f, ns) /\ CommonOf(ns) = f[Len(ns)]
  <2>1. ns # <<>>
    OBVIOUS
  <2> QED BY <2>1, CommonUnfold
<1>2. n \in Nat /\ n >= 1 /\ i \in 1..n /\ j \in 1..n /\ \A k \in 1..n : ns[k] \in Int
  OBVIOUS
<1>3. /\ \A k \in 1..n : f[k] \in Int
      /\ f[1] = ns[1]
      /\ \A k \in 2..n : f[k] = AddNumber(f[k - 1], ns[1], ns[k])
  BY <1>1 DEF CommonUpTo
<1>4. CommonOf(ns) = f[n]
  BY <1>1
<1> HIDE DEF n
<1>5. PICK d \in 1..n : (ns[d] < 0) # (ns[1] < 0)
  BY <1>2
<1>6. d \in 2..n /\ d - 1 \in 1..n
  BY <1>2, <1>5
<1> DEFINE T == {k \in d..n : f[k] = 0}
<1>7. d \in T
  <2>1. f[d] = AddNumber(f[d - 1], ns[1], ns[d])
    BY <1>3, <1>6
  <2>2. SignExpBits(ns[d]) # SignExpBits(ns[1])
    BY <1>5 DEF SignExpBits
  <2>3. f[d - 1] \in Int /\ ns[1] \in Int /\ ns[d] \in Int
    BY <1>2, <1>3, <1>6
  <2> QED BY <1>6, <2>1, <2>2, <2>3, AddNumberIs
<1>8. ASSUME NEW k \in d..n - 1, k \in T PROVE k + 1 \in T
  <2>1. k + 1 \in 2..n /\ (k + 1) - 1 = k /\ k + 1 \in d..n /\ k + 1 \in 1..n /\ 1 \in 1..n
    BY <1>2, <1>6
  <2>2. f[k + 1] = AddNumber(0, ns[1], ns[k + 1])
    BY <1>3, <1>8, <2>1
  <2>3. AddNumber(0, ns[1], ns[k + 1]) = 0
    BY <1>2, <2>1, AddToZero
  <2> QED BY <2>1, <2>2, <2>3
<1> HIDE DEF T
<1>9. d..n \subseteq T
  <2>1. d \in Int /\ n \in Int /\ d <= n
    BY <1>2, <1>6
  <2>2. \A k \in d..n - 1 : k \in T => k + 1 \in T
    BY <1>8
  <2> QED BY <1>7, <2>1, <2>2, IntervalInduction
<1>10. n \in T
  BY <1>2, <1>6, <1>9
<1> QED BY <1>4, <1>10 DEF T

LEMMA InsertedPoints ==
  ASSUME NEW s \in Seq(Points), NEW j \in 1..Len(s), NEW p \in Points
  PROVE  LET new == InsertAt(s, j + 1, p) IN
         /\ new \in Seq(Points) /\ Len(new) = Len(s) + 1
         /\ new[j + 1] = p
         /\ \A i \in 1..Len(s) : new[IF i <= j THEN i ELSE i + 1] = s[i]
<1> HIDE DEF Points
<1> DEFINE head == SubSeq(s, 1, j)
           tail == SubSeq(s, j + 1, Len(s))
           n == Len(s)
<1>1. InsertAt(s, j + 1, p) = head \o <<p>> \o tail
  <2>1. (j + 1) - 1 = j
    OBVIOUS
  <2> QED BY <2>1 DEF InsertAt
<1>2. n \in Nat /\ j \in 1..n /\ \A i \in 1..n : s[i] \in Points
  OBVIOUS
<1>3. head \in Seq(Points) /\ Len(head) = j /\ \A i \in 1..j : head[i] = s[i]
  OBVIOUS
<1>4. tail \in Seq(Points) /\ Len(tail) = n - j /\ \A i \in 1..n - j : tail[i] = s[j + i]
  <2>1. \A i \in 1..n - j : (j + 1) + i - 1 = j + i
    BY <1>2
  <2> QED BY <1>2, <2>1
<1> HIDE DEF head, tail, n
<1> DEFINE new == head \o <<p>> \o tail
<1>5. /\ new \in Seq(Points) /\ Len(new) = n + 1
      /\ new[j + 1] = p
      /\ \A i \in 1..j : new[i] = s[i]
      /\ \A i \in 1..n - j : new[j + 1 + i] = tail[i]
  <2> DEFINE front == head \o <<p>>
  <2>1. /\ front \in Seq(Points) /\ Len(front) = j + 1 /\ front[j + 1] = p
        /\ \A i \in 1..j : front[i] = s[i]
    BY <1>2, <1>3
  <2> HIDE DEF front
  <2>2. front \o tail \in Seq(Points) /\ Len(front \o tail) = (j + 1) + (n - j)
    <3>1. front \o tail \in Seq(Points) /\ Len(front \o tail) = Len(front) + Len(tail)
      BY <1>4, <2>1, ConcatProperties
    <3> QED BY <1>4, <2>1, <3>1
  <2>3. \A i \in 1..j + 1 : (front \o tail)[i] = front[i]
    BY <1>2, <1>4, <2>1
  <2>4. \A i \in 1..n - j : (front \o tail)[j + 1 + i] = tail[i]
    BY <1>2, <1>4, <2>1
  <2>5. (j + 1) + (n - j) = n + 1 /\ j + 1 \in 1..j + 1 /\ \A i \in 1..j : i \in 1..j + 1
    BY <1>2
  <2> QED BY <2>1, <2>2, <2>3, <2>4, <2>5 DEF front
<1> HIDE DEF new
<1>6. ASSUME NEW i \in 1..n, ~(i <= j) PROVE new[i + 1] = s[i]
  <2>1. i - j \in 1..n - j /\ j + 1 + (i - j) = i + 1 /\ j + (i - j) = i
    BY <1>2, <1>6
  <2>2. new[j + 1 + (i - j)] = tail[i - j] /\ tail[i - j] = s[j + (i - j)]
    BY <1>4, <1>5, <2>1
  <2> QED BY <2>1, <2>2
<1>7. \A i \in 1..n : i <= j => i \in 1..j
  BY <1>2
<1>8. \A i \in 1..n : new[IF i <= j THEN i ELSE i + 1] = s[i]
  BY <1>5, <1>6, <1>7
<1> QED BY <1>1, <1>5, <1>8 DEF new, n

(* What snapping segments keeps of a line: its points are images of base's  *)
(* points in their order, the first and the last included, and targets near *)
(* the segment they were put into.                                          *)
Near(res, i, a, b) ==
  LET d == SegmentDist2(res[i], res[a], res[b]) IN Within(d[1], d[2])
Between(f, n, a, b) == \E k \in 1..n : a < f[k] /\ f[k] < b
Put(f, n, res, i, targets) ==
  /\ res[i] \in targets
  /\ \E a \in 1..i - 1, b \in i + 1..Len(res) : ~Between(f, n, a, b) /\ Near(res, i, a, b)
Placed(f, base, res, targets) ==
  /\ f \in [1..Len(base) -> 1..Len(res)]
  /\ \A j, k \in 1..Len(base) : j < k => f[j] < f[k]
  /\ f[1] = 1 /\ f[Len(base)] = Len(res)
  /\ \A k \in 1..Len(base) : res[f[k]] = base[k]
  /\ \A i \in 1..Len(res) : (\E k \in 1..Len(base) : f[k] = i) \/ Put(f, Len(base), res, i, targets)

LEMMA InsertPlaced ==
  ASSUME NEW base \in Seq(Points), base # <<>>, NEW res \in Seq(Points), NEW targets, NEW f,
         Placed(f, base, res, targets),
         NEW p \in Points, p \in targets, NEW j \in 1..Len(res) - 1,
         LET d == SegmentDist2(p, res[j], res[j + 1]) IN Within(d[1], d[2])
  PROVE  \E h : Placed(h, base, InsertAt(res, j + 1, p), targets)
<1> HIDE DEF Points
<1> DEFINE n == Len(base)
           m == Len(res)
           new == InsertAt(res, j + 1, p)
           sh == [i \in 1..m |-> IF i <= j THEN i ELSE i + 1]
           h == [k \in 1..n |-> sh[f[k]]]
<1>1. n \in Nat /\ n >= 1 /\ m \in Nat /\ j \in 1..m - 1
  OBVIOUS
<1>2. /\ new \in Seq(Points) /\ Len(new) = m + 1 /\ new[j + 1] = p
      /\ \A i \in 1..m : new[sh[i]] = res[i]
  <2>1. j \in 1..Len(res)
    OBVIOUS
  <2> QED BY <2>1, InsertedPoints
<1>3. /\ \A i \in 1..m : sh[i] \in 1..m + 1
      /\ \A i, l \in 1..m : (i < l) = (sh[i] < sh[l])
      /\ sh[1] = 1 /\ sh[m] = m + 1 /\ sh[j] = j /\ sh[j + 1] = j + 2
      /\ \A i \in 1..m + 1 : i = j + 1 \/ \E l \in 1..m : sh[l] = i
  <2>1. \A i \in 1..m + 1 : i = j + 1 \/ \E l \in 1..m : sh[l] = i
    <3> SUFFICES ASSUME NEW i \in 1..m + 1, i # j + 1 PROVE \E l \in 1..m : sh[l] = i
      OBVIOUS
    <3>1. CASE i <= j
      <4>1. i \in 1..m /\ sh[i] = i
        BY <1>1, <3>1
      <4> QED BY <4>1
    <3>2. CASE ~(i <= j)
      <4>1. i - 1 \in 1..m /\ sh[i - 1] = i
        BY <1>1, <3>2
      <4> QED BY <4>1
    <3> QED BY <3>1, <3>2
  <2> QED BY <1>1, <2>1
<1>4. /\ \A k \in 1..n : f[k] \in 1..m
      /\ \A k, l \in 1..n : k < l => f[k] < f[l]
      /\ f[1] = 1 /\ f[n] = m
      /\ \A k \in 1..n : res[f[k]] = base[k]
      /\ \A i \in 1..m : (\E k \in 1..n : f[k] = i) \/ Put(f, n, res, i, targets)
  BY DEF Placed
<1>5. LET d == SegmentDist2(p, res[j], res[j + 1]) IN Within(d[1], d[2])
  OBVIOUS
<1> HIDE DEF n, m, new, sh
<1>6. h \in [1..n -> 1..m + 1] /\ \A k \in 1..n : h[k] = sh[f[k]]
  BY <1>3, <1>4
<1> HIDE DEF h
<1>7. \A k, l \in 1..n : k < l => h[k] < h[l]
  BY <1>3, <1>4, <1>6
<1>8. h[1] = 1 /\ h[n] = m + 1
  <2>1. 1 \in 1..n /\ n \in 1..n
    BY <1>1
  <2> QED BY <1>3, <1>4, <1>6, <2>1
<1>9. \A k \in 1..n : new[h[k]] = base[k]
  BY <1>2, <1>4, <1>6
<1>10. Put(h, n, new, j + 1, targets)
  <2>1. j \in 1..(j + 1) - 1 /\ j + 2 \in (j + 1) + 1..m + 1
    BY <1>1
  <2>2. ~Between(h, n, j, j + 2)
    <3> SUFFICES ASSUME NEW k \in 1..n, j < h[k], h[k] < j + 2 PROVE FALSE
      BY DEF Between
    <3>1. f[k] \in 1..m /\ h[k] = sh[f[k]] /\ j \in 1..m /\ j + 1 \in 1..m
      BY <1>1, <1>4, <1>6
    <3>2. j < f[k] /\ f[k] < j + 1
      BY <1>3, <3>1
    <3> QED BY <1>1, <3>1, <3>2
  <2>3. new[j] = res[j] /\ new[j + 2] = res[j + 1]
    <3>1. j \in 1..m /\ j + 1 \in 1..m
      BY <1>1
    <3> QED BY <1>2, <1>3, <3>1
  <2>4. Near(new, j + 1, j, j + 2)
    BY <1>2, <1>5, <2>3 DEF Near
  <2>5. new[j + 1] \in targets /\ Len(new) = m + 1
    BY <1>2
  <2> QED BY <2>1, <2>2, <2>4, <2>5 DEF Put
<1>11. ASSUME NEW i \in 1..m, Put(f, n, res, i, targets) PROVE Put(h, n, new, sh[i], targets)
  <2>1. PICK a \in 1..i - 1, b \in i + 1..m : ~Between(f, n, a, b) /\ Near(res, i, a, b)
    BY <1>11 DEF Put, m
  <2>2. a \in 1..m /\ b \in 1..m /\ a < i /\ i < b
    BY <1>1
  <2>3. sh[a] \in 1..sh[i] - 1 /\ sh[b] \in sh[i] + 1..m + 1
    <3>1. sh[a] < sh[i] /\ sh[i] < sh[b] /\ sh[a] \in 1..m + 1 /\ sh[b] \in 1..m + 1 /\ sh[i] \in 1..m + 1
      BY <1>3, <2>2
    <3> QED BY <1>1, <3>1
  <2>4. ~Between(h, n, sh[a], sh[b])
    <3> SUFFICES ASSUME NEW k \in 1..n, sh[a] < h[k], h[k] < sh[b] PROVE FALSE
      BY DEF Between
    <3>1. f[k] \in 1..m /\ h[k] = sh[f[k]]
      BY <1>4, <1>6
    <3>2. a < f[k] /\ f[k] < b
      BY <1>3, <2>2, <3>1
    <3> QED BY <2>1, <3>2 DEF Between
  <2>5. Near(new, sh[i], sh[a], sh[b])
    BY <1>2, <2>1, <2>2 DEF Near
  <2>6. new[sh[i]] \in targets /\ Len(new) = m + 1
    BY <1>2, <1>11 DEF Put
  <2> QED BY <2>3, <2>4, <2>5, <2>6 DEF Put
<1>12. ASSUME NEW i \in 1..m + 1
       PROVE (\E k \in 1..n : h[k] = i) \/ Put(h, n, new, i, targets)
  <2>1. CASE i = j + 1
    BY <1>10, <2>1
  <2>2. ASSUME NEW l \in 1..m, sh[l] = i PROVE (\E k \in 1..n : h[k] = i) \/ Put(h, n, new, i, targets)
    <3>1. CASE Put(f, n, res, l, targets)
      BY <1>11, <2>2, <3>1
    <3>2. ASSUME NEW k \in 1..n, f[k] = l PROVE h[k] = i
      BY <1>6, <2>2, <3>2
    <3> QED BY <1>4, <3>1, <3>2
  <2> QED BY <1>3, <2>1, <2>2
<1>13. Placed(h, base, new, targets)
  BY <1>2, <1>6, <1>7, <1>8, <1>9, <1>12 DEF Placed, n
<1> QED BY <1>13 DEF new

-----------------------------------------------------------------------------
(* The vertices, and the segments one snap point after the other            *)

LEMMA SquareIs == \A x \in Int : Sq(x) \in Nat /\ Sq(-x) = Sq(x)
  BY DEF Sq

LEMMA DistanceIs ==
  ASSUME NEW p \in Points, NEW q \in Points
  PROVE  Dist2(p, q) \in Nat /\ Dist2(p, q) = Dist2(q, p) /\ Dist2(p, p) = 0
<1>1. p[1] \in Int /\ p[2] \in Int /\ q[1] \in Int /\ q[2] \in Int
  BY DEF Points
<1> DEFINE x == p[1] - q[1]
           y == p[2] - q[2]
<1>2. x \in Int /\ y \in Int /\ q[1] - p[1] = -x /\ q[2] - p[2] = -y /\ p[1] - p[1] = 0 /\ p[2] - p[2] = 0
  BY <1>1
<1>3. Sq(0) = 0
  BY DEF Sq
<1> HIDE DEF x, y
<1>4. Sq(x) \in Nat /\ Sq(y) \in Nat /\ Sq(-x) = Sq(x) /\ Sq(-y) = Sq(y)
  BY <1>2, SquareIs
<1>5. Dist2(p, q) = Sq(x) + Sq(y)
  BY DEF Dist2, x, y
<1>6. Dist2(q, p) = Sq(-x) + Sq(-y)
  BY <1>2 DEF Dist2
<1>7. Dist2(p, p) = 0
  BY <1>2, <1>3 DEF Dist2
<1> QED BY <1>4, <1>5, <1>6, <1>7

LEMMA NoDistance ==
  ASSUME NEW p \in Points, NEW q \in Points, Dist2(p, q) = 0
  PROVE  p = q
<1>1. p[1] \in Int /\ p[2] \in Int /\ q[1] \in Int /\ q[2] \in Int /\ p = <<p[1], p[2]>> /\ q = <<q[1], q[2]>>
  BY DEF Points
<1>2. \A x \in Int : Sq(x) \in Nat /\ (Sq(x) = 0 => x = 0)
  BY DEF Sq
<1>3. \A x, y \in Nat : x + y = 0 => x = 0 /\ y = 0
  OBVIOUS
<1>4. Sq(p[1] - q[1]) = 0 /\ Sq(p[2] - q[2]) = 0
  BY <1>1, <1>2, <1>3 DEF Dist2
<1>5. p[1] = q[1] /\ p[2] = q[2]
  BY <1>1, <1>2, <1>4
<1> QED BY <1>1, <1>5

(* Two steps of one unit go no further than two units.                      *)
LEMMA TwoSteps ==
  ASSUME NEW p \in Points, NEW q \in Points, NEW r \in Points,
         Dist2(p, q) <= 1, Dist2(q, r) <= 1
  PROVE  Dist2(p, r) <= 4
<1> DEFINE Unit(x, y) == /\ x \in -1..1 /\ y \in -1..1 /\ (x = 0 \/ y = 0)
<1>1. \A x, y \in Int : Sq(x) + Sq(y) <= 1 => Unit(x, y)
  <2>1. \A x \in Int : (x > 1 \/ x < -1) => Sq(x) > 1
    BY DEF Sq
  <2>2. \A x \in Int : Sq(x) >= 0 /\ (x # 0 => Sq(x) >= 1)
    BY DEF Sq
  <2> SUFFICES ASSUME NEW x \in Int, NEW y \in Int, Sq(x) + Sq(y) <= 1 PROVE Unit(x, y)
    OBVIOUS
  <2>3. Sq(x) \in Int /\ Sq(y) \in Int
    BY SquareIs
  <2> QED BY <2>1, <2>2, <2>3
<1>2. /\ p[1] \in Int /\ p[2] \in Int /\ q[1] \in Int /\ q[2] \in Int /\ r[1] \in Int /\ r[2] \in Int
  BY DEF Points
<1> DEFINE a == p[1] - q[1]  b == p[2] - q[2]
           c == q[1] - r[1]  d == q[2] - r[2]
<1>3. a \in Int /\ b \in Int /\ c \in Int /\ d \in Int /\ p[1] - r[1] = a + c /\ p[2] - r[2] = b + d
  BY <1>2
<1>4. Dist2(p, q) = Sq(a) + Sq(b) /\ Dist2(q, r) = Sq(c) + Sq(d) /\ Dist2(p, r) = Sq(a + c) + Sq(b + d)
  BY <1>3 DEF Dist2
<1> HIDE DEF a, b, c, d
<1>5. Unit(a, b) /\ Unit(c, d)
  BY <1>1, <1>3, <1>4
<1> DEFINE Small(x, y) == x \in -2..2 /\ y \in -2..2 /\ (x = 0 \/ y = 0 \/ (x \in -1..1 /\ y \in -1..1))
<1>6. Small(a + c, b + d)
  BY <1>5
<1>7. \A x, y \in Int : Small(x, y) => Sq(x) + Sq(y) <= 4
  <2>1. Sq(-2) = 4 /\ Sq(-1) = 1 /\ Sq(0) = 0 /\ Sq(1) = 1 /\ Sq(2) = 4
    BY DEF Sq
  <2> SUFFICES ASSUME NEW x \in Int, NEW y \in Int, Small(x, y) PROVE Sq(x) + Sq(y) <= 4
    OBVIOUS
  <2>2. x \in {-2, -1, 0, 1, 2} /\ y \in {-2, -1, 0, 1, 2}
    OBVIOUS
  <2>3. Sq(x) \in {0, 1, 4} /\ Sq(y) \in {0, 1, 4} /\ (x = 0 => Sq(x) = 0) /\ (y = 0 => Sq(y) = 0)
    BY <2>1, <2>2
  <2>4. x \in -1..1 => Sq(x) <= 1
    BY <2>1
  <2>5. y \in -1..1 => Sq(y) <= 1
    BY <2>1
  <2> QED BY <2>3, <2>4, <2>5
<1> QED BY <1>3, <1>4, <1>6, <1>7

LEMMA WithinIs ==
  ASSUME NEW d \in Nat, fixed \in BOOLEAN
  PROVE  Within(d, 1) => d <= (IF fixed THEN 1 ELSE 0)
  BY DEF Within

(* A vertex stays, or goes to a snap point within the tolerance.            *)
LEMMA SnappedVertex ==
  ASSUME NEW pt \in Points, NEW snapPts \in Seq(Points)
  PROVE  LET v == FindSnapForVertex(pt, snapPts) IN
         v \in Points /\ (v = pt \/ (v \in Range(snapPts) /\ Within(Dist2(pt, v), 1)))
<1> HIDE DEF Points
<1> DEFINE near == {k \in DOMAIN snapPts : snapPts[k] = pt \/ Within(Dist2(pt, snapPts[k]), 1)}
<1>1. FindSnapForVertex(pt, snapPts) = IF near = {} THEN pt ELSE snapPts[Min(near)]
  BY DEF FindSnapForVertex
<1>2. DOMAIN snapPts = 1..Len(snapPts) /\ Len(snapPts) \in Nat /\ \A k \in DOMAIN snapPts : snapPts[k] \in Points
  OBVIOUS
<1>3. \A k \in DOMAIN snapPts : snapPts[k] \in Range(snapPts)
  BY DEF Range
<1>4. near \subseteq Nat
  BY <1>2
<1>5. \A k \in near : k \in DOMAIN snapPts /\ (snapPts[k] = pt \/ Within(Dist2(pt, snapPts[k]), 1))
  OBVIOUS
<1> HIDE DEF near
<1>6. CASE near = {}
  BY <1>1, <1>6
<1>7. CASE near # {}
  <2>1. Min(near) \in near
    BY <1>4, <1>7, MinOfNaturals
  <2> QED BY <1>1, <1>2, <1>3, <1>5, <1>7, <2>1
<1> QED BY <1>6, <1>7

(* A snap point is put into the first of the closest segments, or nowhere.  *)
LEMMA SegmentSnapped ==
  ASSUME NEW base \in Seq(Points), base # <<>>, NEW res \in Seq(Points), NEW targets, NEW f,
         Placed(f, base, res, targets), NEW p \in Points, p \in targets
  PROVE  /\ SnapSegment(res, p) \in Seq(Points)
         /\ \E h : Placed(h, base, SnapSegment(res, p), targets)
<1> HIDE DEF Points
<1> DEFINE match == SegmentsToSnap(p, res)
<1>1. /\ match \subseteq 1..Len(res) - 1
      /\ \A k \in match : LET d == SegmentDist2(p, res[k], res[k + 1]) IN Within(d[1], d[2])
  BY DEF SegmentsToSnap
<1>2. SnapSegment(res, p) = IF match = {} THEN res ELSE InsertAt(res, Min(match) + 1, p)
  BY DEF SnapSegment
<1> HIDE DEF match
<1>3. CASE match = {}
  BY <1>2, <1>3
<1>4. CASE match # {}
  <2> DEFINE j == Min(match)
  <2>1. j \in match
    <3>1. match \subseteq Nat
      BY <1>1
    <3> QED BY <1>4, <3>1, MinOfNaturals
  <2> HIDE DEF j
  <2>2. j \in 1..Len(res) - 1 /\ j \in 1..Len(res)
    BY <1>1, <2>1
  <2>3. LET d == SegmentDist2(p, res[j], res[j + 1]) IN Within(d[1], d[2])
    BY <1>1, <2>1
  <2>4. \E h : Placed(h, base, InsertAt(res, j + 1, p), targets)
    BY <2>2, <2>3, InsertPlaced
  <2>5. InsertAt(res, j + 1, p) \in Seq(Points)
    BY <2>2, InsertedPoints
  <2> QED BY <1>2, <1>4, <2>4, <2>5 DEF j
<1> QED BY <1>3, <1>4

LEMMA SegmentsSnapped ==
  ASSUME NEW base \in Seq(Points), base # <<>>, NEW snapPts \in Seq(Points), NEW targets,
         Range(snapPts) \subseteq targets
  PROVE  /\ SnapSegments(base, snapPts) \in Seq(Points)
         /\ \E h : Placed(h, base, SnapSegments(base, snapPts), targets)
<1> HIDE DEF Points
<1> DEFINE n == Len(snapPts)
           S == {res \in Seq(Points) : \E h : Placed(h, base, res, targets)}
           Def(f) == f = [k \in 0..n |-> IF k = 0 THEN base ELSE SnapSegment(f[k - 1], snapPts[k])]
           step == [x \in S \X (1..n) |-> SnapSegment(x[1], snapPts[x[2]])]
           F == CHOOSE f : Def(f)
<1>1. n \in Nat /\ \A k \in 1..n : snapPts[k] \in Points /\ snapPts[k] \in targets
  BY DEF Range
<1>2. base \in S
  <2> DEFINE id == [k \in 1..Len(base) |-> k]
  <2>1. Placed(id, base, base, targets)
    BY DEF Placed
  <2> HIDE DEF id
  <2> QED BY <2>1
<1>3. SnapSegments(base, snapPts) = F[n]
  BY DEF SnapSegments
<1> HIDE DEF n
<1>4. \A res \in S, k \in 1..n : SnapSegment(res, snapPts[k]) \in S
  <2> SUFFICES ASSUME NEW res \in Seq(Points), NEW f, Placed(f, base, res, targets), NEW k \in 1..n
               PROVE  SnapSegment(res, snapPts[k]) \in S
    OBVIOUS
  <2> QED BY <1>1, SegmentSnapped
<1> HIDE DEF S
<1>5. PICK f : Iterates(f, base, step, S, n)
  <2>1. Steps(step, S, n)
    BY <1>4 DEF Steps
  <2> HIDE DEF step
  <2> QED BY <1>1, <1>2, <2>1, IterationExists
<1>6. Def(f)
  <2>1. f \in [0..n -> S] /\ f[0] = base /\ \A k \in 1..n : f[k] = step[<<f[k - 1], k>>]
    BY <1>5 DEF Iterates
  <2>2. \A k \in 1..n : k - 1 \in 0..n
    BY <1>1
  <2>3. \A k \in 1..n : f[k] = SnapSegment(f[k - 1], snapPts[k])
    BY <2>1, <2>2
  <2>4. \A k \in 0..n : f[k] = IF k = 0 THEN base ELSE SnapSegment(f[k - 1], snapPts[k])
    BY <1>1, <2>1, <2>3
  <2>5. f = [k \in 0..n |-> f[k]]
    BY <2>1
  <2> QED BY <2>4, <2>5
<1>7. Def(F)
  <2> HIDE DEF Def, step
  <2> QED BY <1>6
<1> HIDE DEF F
<1>8. \A k \in 0..n : F[k] \in S
  <2>1. F[0] \in S
    BY <1>1, <1>2, <1>7
  <2>2. \A k \in 1..n : F[k - 1] \in S => F[k] \in S
    <3>1. \A k \in 1..n : k \in 0..n /\ k # 0
      BY <1>1
    <3>2. \A k \in 1..n : F[k] = SnapSegment(F[k - 1], snapPts[k])
      BY <1>7, <3>1
    <3> HIDE DEF Def
    <3> QED BY <1>4, <3>2
  <2> HIDE DEF Def
  <2> QED BY <1>1, <2>1, <2>2, StaysIn
<1>9. F[n] \in S
  BY <1>1, <1>8
<1> QED BY <1>3, <1>9 DEF S

-----------------------------------------------------------------------------
(* What snapping makes of a line                                            *)

LEMMA VerticesSnapped ==
  ASSUME NEW pts \in Seq(Points), pts # <<>>, NEW snapPts \in Seq(Points)
  PROVE  LET v == SnapVertices(pts, snapPts)
             snapped(pt) == FindSnapForVertex(pt, snapPts)
             n == Len(pts)
         IN /\ v \in Seq(Points) /\ Len(v) = n
            /\ v[1] = snapped(pts[1])
            /\ \A k \in 2..n - 1 : v[k] = snapped(pts[k])
            /\ n > 1 => v[n] = snapped(IF IsClosed(pts) THEN snapped(pts[1]) ELSE pts[n])
<1> HIDE DEF Points
<1> DEFINE snapped(pt) == FindSnapForVertex(pt, snapPts)
           n == Len(pts)
           last == IF IsClosed(pts) THEN snapped(pts[1]) ELSE pts[n]
           at(k) == IF k = 1 THEN snapped(pts[1]) ELSE IF k = n THEN snapped(last) ELSE snapped(pts[k])
           v == [k \in 1..n |-> at(k)]
<1>1. SnapVertices(pts, snapPts) = v
  BY DEF SnapVertices
<1>2. \A pt \in Points : snapped(pt) \in Points
  BY SnappedVertex
<1>3. n \in Nat /\ n >= 1 /\ \A k \in 1..n : pts[k] \in Points
  OBVIOUS
<1> HIDE DEF snapped, n
<1>4. 1 \in 1..n /\ n \in 1..n /\ last \in Points
  BY <1>2, <1>3
<1>5. \A k \in 1..n : at(k) \in Points
  BY <1>2, <1>3, <1>4
<1>6. v \in Seq(Points) /\ Len(v) = n
  <2> HIDE DEF at
  <2> QED BY <1>3, <1>5
<1>7. v[1] = snapped(pts[1]) /\ (n > 1 => v[n] = snapped(last)) /\ \A k \in 2..n - 1 : v[k] = snapped(pts[k])
  BY <1>3
<1> QED BY <1>1, <1>6, <1>7 DEF n, snapped

\* The tolerance of SnapsOf.
Tolerance(g, k) == IF ~fixed THEN 0 ELSE IF IsClosed(g.pts) /\ k = Len(g.pts) THEN 4 ELSE 1

LEMMA VerticesNear ==
  ASSUME NEW g \in Shapes, g.pts # <<>>, NEW snapPts \in Seq(Points), fixed \in BOOLEAN
  PROVE  \A k \in 1..Len(g.pts) : Dist2(SnapVertices(g.pts, snapPts)[k], g.pts[k]) <= Tolerance(g, k)
<1> HIDE DEF Points
<1> DEFINE pts == g.pts
           n == Len(pts)
           v == SnapVertices(pts, snapPts)
           snapped(pt) == FindSnapForVertex(pt, snapPts)
           unit == IF fixed THEN 1 ELSE 0
<1>1. pts \in Seq(Points) /\ pts # <<>>
  BY DEF Shapes
<1> HIDE DEF pts
<1>2. n \in Nat /\ n >= 1 /\ \A k \in 1..n : pts[k] \in Points
  BY <1>1
<1>3. /\ v \in Seq(Points) /\ Len(v) = n
      /\ v[1] = snapped(pts[1])
      /\ \A k \in 2..n - 1 : v[k] = snapped(pts[k])
      /\ n > 1 => v[n] = snapped(IF IsClosed(pts) THEN snapped(pts[1]) ELSE pts[n])
  BY <1>1, VerticesSnapped
<1>4. \A pt \in Points : snapped(pt) \in Points /\ Dist2(snapped(pt), pt) <= unit
  <2> SUFFICES ASSUME NEW pt \in Points PROVE snapped(pt) \in Points /\ Dist2(snapped(pt), pt) <= unit
    OBVIOUS
  <2>1. snapped(pt) \in Points /\ (snapped(pt) = pt \/ Within(Dist2(pt, snapped(pt)), 1))
    BY SnappedVertex
  <2>2. Dist2(pt, pt) = 0 /\ Dist2(pt, snapped(pt)) = Dist2(snapped(pt), pt) /\ Dist2(pt, snapped(pt)) \in Nat
    BY <2>1, DistanceIs
  <2>3. Within(Dist2(pt, snapped(pt)), 1) => Dist2(pt, snapped(pt)) <= unit
    BY <2>2, WithinIs
  <2> HIDE DEF snapped
  <2> QED BY <2>1, <2>2, <2>3
<1> HIDE DEF snapped, v, n
<1>5. ASSUME NEW k \in 1..n PROVE Dist2(v[k], pts[k]) <= Tolerance(g, k)
  <2>1. Tolerance(g, k) = IF ~fixed THEN 0 ELSE IF IsClosed(pts) /\ k = n THEN 4 ELSE 1
    BY DEF Tolerance, pts, n
  <2>2. unit <= Tolerance(g, k)
    BY <2>1
  <2>3. \A pt \in Points : Dist2(snapped(pt), pt) \in Nat
    BY <1>4, DistanceIs
  <2>4. ASSUME v[k] = snapped(pts[k]) PROVE Dist2(v[k], pts[k]) <= Tolerance(g, k)
    <3>1. Dist2(v[k], pts[k]) \in Nat /\ Dist2(v[k], pts[k]) <= unit
      BY <1>2, <1>4, <2>3, <2>4
    <3> QED BY <2>1, <3>1
  <2>5. CASE k = 1 \/ k \in 2..n - 1
    BY <1>3, <2>4, <2>5
  <2>6. CASE k = n /\ n > 1 /\ ~IsClosed(pts)
    BY <1>3, <2>4, <2>6
  <2>7. CASE k = n /\ n > 1 /\ IsClosed(pts)
    <3> DEFINE a == snapped(pts[1])
               b == snapped(a)
    <3>1. pts[1] \in Points /\ pts[1] = pts[k]
      BY <1>2, <2>7 DEF IsClosed, n
    <3>2. a \in Points /\ Dist2(a, pts[1]) <= unit
      BY <1>4, <3>1
    <3> HIDE DEF a
    <3>3. b \in Points /\ Dist2(b, a) <= unit
      BY <1>4, <3>2
    <3>4. v[k] = b
      BY <1>3, <2>7 DEF a
    <3> HIDE DEF b
    <3>5. Dist2(a, pts[1]) \in Nat /\ Dist2(b, a) \in Nat /\ Dist2(b, pts[1]) \in Nat
      BY <3>1, <3>2, <3>3, DistanceIs
    <3>6. CASE fixed
      <4>1. Dist2(a, pts[1]) <= 1 /\ Dist2(b, a) <= 1
        BY <3>2, <3>3, <3>6
      <4>2. Dist2(b, pts[1]) <= 4
        BY <3>1, <3>2, <3>3, <4>1, TwoSteps
      <4> QED BY <2>1, <2>7, <3>1, <3>4, <3>6, <4>2
    <3>7. CASE ~fixed
      <4>1. Dist2(a, pts[1]) = 0 /\ Dist2(b, a) = 0
        BY <3>2, <3>3, <3>5, <3>7
      <4>2. a = pts[1] /\ b = a
        BY <3>1, <3>2, <3>3, <4>1, NoDistance
      <4> QED BY <2>1, <3>1, <3>4, <3>7, <4>1, <4>2
    <3> QED BY <3>6, <3>7
  <2> QED BY <1>2, <2>5, <2>6, <2>7
<1> QED BY <1>5 DEF n, v, pts

Images(f, k) == {f[j] : j \in 1..k}

LEMMA ImagesCounted ==
  ASSUME NEW n \in Nat, NEW f, \A j, k \in 1..n : j < k => f[j] < f[k],
         \A k \in 1..n : f[k] \in Int, NEW k \in 0..n
  PROVE  Cardinality(Images(f, k)) = k
<1> DEFINE T == {f[j] : j \in 1..k}
           b == [j \in 1..k |-> f[j]]
<1>1. \A i, j \in 1..k : f[i] = f[j] => i = j
  <2> SUFFICES ASSUME NEW i \in 1..k, NEW j \in 1..k, f[i] = f[j], i # j PROVE FALSE
    OBVIOUS
  <2>1. i \in 1..n /\ j \in 1..n /\ (i < j \/ j < i)
    OBVIOUS
  <2>2. f[i] \in Int /\ f[j] \in Int
    BY <2>1
  <2> QED BY <2>1, <2>2
<1>2. b \in Bijection(1..k, T)
  <2>1. b \in [1..k -> T]
    OBVIOUS
  <2>2. \A i, j \in 1..k : b[i] = b[j] => i = j
    BY <1>1
  <2>3. \A t \in T : \E j \in 1..k : b[j] = t
    OBVIOUS
  <2> QED BY <2>1, <2>2, <2>3 DEF Bijection, Injection, Surjection, IsInjective
<1>3. ExistsBijection(1..k, T)
  BY <1>2 DEF ExistsBijection
<1> HIDE DEF T
<1>4. Cardinality(T) = k
  BY <1>3, FS_CountingElements
<1> QED BY <1>4 DEF T, Images

LEMMA SnapsKeepOrder ==
  ASSUME NEW g \in Shapes, g.pts # <<>>, NEW snapPts \in Seq(Points), NEW targets,
         Range(snapPts) \subseteq targets, fixed \in BOOLEAN
  PROVE  SnapsOf(g, SnapTo(g.pts, snapPts), targets)
<1> HIDE DEF Points
<1> DEFINE pts == g.pts
           base == SnapVertices(pts, snapPts)
           res == SnapTo(pts, snapPts)
           n == Len(pts)
           m == Len(res)
<1>1. pts \in Seq(Points) /\ pts # <<>> /\ n \in Nat /\ n >= 1
  BY DEF Shapes
<1>2. base \in Seq(Points) /\ Len(base) = n /\ base # <<>>
  BY <1>1, VerticesSnapped
<1>3. \A k \in 1..n : Dist2(base[k], pts[k]) <= Tolerance(g, k)
  BY VerticesNear
<1>4. res = SnapSegments(base, snapPts)
  BY DEF SnapTo
<1> HIDE DEF pts, base, res
<1>5. PICK f : Placed(f, base, res, targets)
  BY <1>2, <1>4, SegmentsSnapped
<1>6. /\ \A k \in 1..n : f[k] \in 1..m
      /\ \A k, l \in 1..n : k < l => f[k] < f[l]
      /\ \A k \in 1..n : res[f[k]] = base[k]
      /\ \A i \in 1..m : (\E k \in 1..n : f[k] = i) \/ Put(f, n, res, i, targets)
  BY <1>2, <1>5 DEF Placed
<1> HIDE DEF n
<1>7. m \in Nat
  BY <1>2, <1>4, SegmentsSnapped
<1> HIDE DEF m
<1> DEFINE images == Images(f, n)
           upTo(i) == {j \in images : j <= i}
           near(i, a, b) == LET d == SegmentDist2(res[i], res[a], res[b]) IN Within(d[1], d[2])
<1>8. images \in kSubset(n, 1..m)
  <2>1. n \in 0..n /\ \A k \in 1..n : f[k] \in Int
    BY <1>1, <1>6
  <2>2. Cardinality(images) = n
    BY <1>1, <1>6, <2>1, ImagesCounted
  <2>3. images \in SUBSET (1..m)
    BY <1>6 DEF Images
  <2> HIDE DEF images
  <2> QED BY <2>2, <2>3 DEF kSubset
<1>9. ASSUME NEW k \in 1..n PROVE Cardinality(upTo(f[k])) = k
  <2>1. upTo(f[k]) = Images(f, k)
    <3>1. \A j \in 1..n : f[j] \in Int /\ f[k] \in Int
      BY <1>6
    <3>2. \A j \in 1..n : f[j] <= f[k] => j \in 1..k
      <4> SUFFICES ASSUME NEW j \in 1..n, f[j] <= f[k], k < j PROVE FALSE
        BY <1>1
      <4> QED BY <1>6, <3>1
    <3>3. \A j \in 1..k : j \in 1..n /\ f[j] <= f[k]
      <4> SUFFICES ASSUME NEW j \in 1..k PROVE j \in 1..n /\ f[j] <= f[k]
        OBVIOUS
      <4>1. j \in 1..n /\ (j < k \/ j = k)
        BY <1>1
      <4> QED BY <1>6, <3>1, <4>1
    <3> QED BY <3>2, <3>3 DEF Images
  <2>2. k \in 0..n /\ \A j \in 1..n : f[j] \in Int
    BY <1>1, <1>6
  <2> HIDE DEF upTo
  <2> QED BY <1>1, <1>6, <2>1, <2>2, ImagesCounted
<1>10. \A i \in images : Dist2(res[i], pts[Cardinality(upTo(i))]) <= Tolerance(g, Cardinality(upTo(i)))
  <2> SUFFICES ASSUME NEW k \in 1..n
               PROVE  Dist2(res[f[k]], pts[Cardinality(upTo(f[k]))]) <= Tolerance(g, Cardinality(upTo(f[k])))
    BY DEF Images
  <2> HIDE DEF upTo
  <2> QED BY <1>3, <1>6, <1>9
<1>11. \A i \in 1..m \ images :
         /\ res[i] \in targets
         /\ \E a \in 1..i - 1, b \in i + 1..m : (a + 1..b - 1) \cap images = {} /\ near(i, a, b)
  <2> SUFFICES ASSUME NEW i \in 1..m, i \notin images
               PROVE  /\ res[i] \in targets
                      /\ \E a \in 1..i - 1, b \in i + 1..m : (a + 1..b - 1) \cap images = {} /\ near(i, a, b)
    OBVIOUS
  <2>1. Put(f, n, res, i, targets)
    BY <1>6 DEF Images
  <2>2. PICK a \in 1..i - 1, b \in i + 1..m : ~Between(f, n, a, b) /\ Near(res, i, a, b)
    BY <2>1 DEF Put, m
  <2>3. (a + 1..b - 1) \cap images = {}
    <3> SUFFICES ASSUME NEW k \in 1..n, f[k] \in a + 1..b - 1 PROVE FALSE
      BY DEF Images
    <3>1. a < f[k] /\ f[k] < b
      BY <1>7
    <3> QED BY <2>2, <3>1 DEF Between
  <2>4. near(i, a, b) /\ res[i] \in targets
    BY <2>1, <2>2 DEF Near, Put
  <2> QED BY <2>3, <2>4
<1> HIDE DEF images
<1>12. SnapsOf(g, res, targets)
  <2>1. \A i \in images :
          Dist2(res[i], g.pts[Cardinality({j \in images : j <= i})])
            <= (IF ~fixed THEN 0
                ELSE IF IsClosed(g.pts) /\ Cardinality({j \in images : j <= i}) = Len(g.pts) THEN 4 ELSE 1)
    <3> SUFFICES ASSUME NEW i \in images
                 PROVE  Dist2(res[i], g.pts[Cardinality(upTo(i))])
                          <= (IF ~fixed THEN 0
                              ELSE IF IsClosed(g.pts) /\ Cardinality(upTo(i)) = Len(g.pts) THEN 4 ELSE 1)
      OBVIOUS
    <3> DEFINE c == Cardinality(upTo(i))
    <3>1. Dist2(res[i], pts[c]) <= Tolerance(g, c)
      BY <1>10
    <3> HIDE DEF c
    <3>2. Dist2(res[i], g.pts[c]) <= (IF ~fixed THEN 0 ELSE IF IsClosed(g.pts) /\ c = Len(g.pts) THEN 4 ELSE 1)
      BY <3>1 DEF Tolerance, pts
    <3> QED BY <3>2 DEF c
  <2>2. images \in kSubset(Len(g.pts), 1..Len(res))
    BY <1>8 DEF n, m, pts
  <2>3. \A i \in 1..Len(res) \ images :
          /\ res[i] \in targets
          /\ \E a \in 1..i - 1, b \in i + 1..Len(res) : (a + 1..b - 1) \cap images = {} /\ near(i, a, b)
    BY <1>11 DEF m
  <2> QED BY <2>1, <2>2, <2>3, Zenon DEF SnapsOf
<1> QED BY <1>12 DEF res, pts

(* A closed line is opened only between close targets.                      *)
LEMMA OpensBetweenClose ==
  ASSUME NEW pts \in Seq(Points), pts # <<>>, IsClosed(pts), NEW snapPts \in Seq(Points),
         ~IsClosed(SnapTo(pts, snapPts))
  PROVE  \E p, q \in Range(snapPts) : p # q /\ Within(Dist2(p, q), 1)
<1> HIDE DEF Points
<1> DEFINE base == SnapVertices(pts, snapPts)
           res == SnapTo(pts, snapPts)
           n == Len(pts)
           m == Len(res)
           a == FindSnapForVertex(pts[1], snapPts)
           b == FindSnapForVertex(a, snapPts)
<1>1. n \in Nat /\ n >= 1 /\ pts[1] \in Points
  OBVIOUS
<1>2. base \in Seq(Points) /\ Len(base) = n /\ base # <<>> /\ base[1] = a /\ (n > 1 => base[n] = b)
  BY <1>1, VerticesSnapped
<1>3. res = SnapSegments(base, snapPts)
  BY DEF SnapTo
<1>4. ~IsClosed(res)
  OBVIOUS
<1>5. a \in Points /\ (a = pts[1] \/ a \in Range(snapPts))
  BY <1>1, SnappedVertex
<1> HIDE DEF a
<1>6. b = a \/ (b \in Range(snapPts) /\ Within(Dist2(a, b), 1))
  BY <1>5, SnappedVertex
<1> HIDE DEF base, res, n, b
<1>7. PICK f : Placed(f, base, res, Range(snapPts))
  BY <1>2, <1>3, SegmentsSnapped
<1>8. f[1] = 1 /\ f[n] = m /\ res[1] = base[1] /\ res[m] = base[n] /\ m \in Nat
  <2>1. 1 \in 1..n /\ n \in 1..n
    BY <1>1
  <2>2. f[1] = 1 /\ f[n] = m /\ res[f[1]] = base[1] /\ res[f[n]] = base[n]
    BY <1>2, <1>7, <2>1 DEF Placed
  <2>3. res \in Seq(Points)
    BY <1>2, <1>3, SegmentsSnapped
  <2> QED BY <2>2, <2>3
<1>9. m >= 2 /\ res[1] # res[m]
  BY <1>4, <1>8 DEF IsClosed
<1>10. n > 1 /\ a # b
  BY <1>1, <1>2, <1>8, <1>9
<1>11. a # pts[1]
  BY <1>10 DEF a, b
<1> QED BY <1>5, <1>6, <1>10, <1>11

LEMMA UniquePointsIn ==
  ASSUME NEW pts \in Seq(Points)
  PROVE  UniquePoints(pts) \in Seq(Points) /\ Range(UniquePoints(pts)) \subseteq Range(pts)
<1> HIDE DEF Points
<1> DEFINE n == Len(pts)
           S == {u \in Seq(Points) : Range(u) \subseteq Range(pts)}
           next(u, k) == IF pts[k] \in Range(u) THEN u ELSE Append(u, pts[k])
           Def(f) == f = [k \in 0..n |-> IF k = 0 THEN <<>> ELSE next(f[k - 1], k)]
           step == [x \in S \X (1..n) |-> next(x[1], x[2])]
           F == CHOOSE f : Def(f)
<1>1. n \in Nat /\ \A k \in 1..n : pts[k] \in Points /\ pts[k] \in Range(pts)
  BY DEF Range
<1>2. <<>> \in S
  BY DEF Range
<1>3. UniquePoints(pts) = F[n]
  BY DEF UniquePoints
<1> HIDE DEF n
<1>4. \A u \in S, k \in 1..n : next(u, k) \in S
  <2> SUFFICES ASSUME NEW u \in Seq(Points), Range(u) \subseteq Range(pts), NEW k \in 1..n
               PROVE  Append(u, pts[k]) \in S
    OBVIOUS
  <2> DEFINE w == Append(u, pts[k])
  <2>1. w \in Seq(Points) /\ Len(w) = Len(u) + 1 /\ w[Len(u) + 1] = pts[k] /\ \A i \in 1..Len(u) : w[i] = u[i]
    BY <1>1
  <2>2. \A i \in 1..Len(u) : u[i] \in Range(pts)
    BY DEF Range
  <2> HIDE DEF w
  <2>3. DOMAIN w = 1..Len(u) + 1 /\ Len(u) \in Nat
    BY <2>1
  <2>4. \A i \in DOMAIN w : w[i] \in Range(pts)
    BY <1>1, <2>1, <2>2, <2>3
  <2>5. Range(w) \subseteq Range(pts)
    BY <2>4 DEF Range
  <2>6. w \in S
    BY <2>1, <2>5
  <2> QED BY <2>6 DEF w
<1> HIDE DEF S, next
<1>5. PICK f : Iterates(f, <<>>, step, S, n)
  <2>1. Steps(step, S, n)
    BY <1>4 DEF Steps
  <2> HIDE DEF step
  <2> QED BY <1>1, <1>2, <2>1, IterationExists
<1>6. Def(f)
  <2>1. f \in [0..n -> S] /\ f[0] = <<>> /\ \A k \in 1..n : f[k] = step[<<f[k - 1], k>>]
    BY <1>5 DEF Iterates
  <2>2. \A k \in 1..n : k - 1 \in 0..n
    BY <1>1
  <2>3. \A k \in 1..n : f[k] = next(f[k - 1], k)
    BY <2>1, <2>2
  <2>4. \A k \in 0..n : f[k] = IF k = 0 THEN <<>> ELSE next(f[k - 1], k)
    BY <1>1, <2>1, <2>3
  <2>5. f = [k \in 0..n |-> f[k]]
    BY <2>1
  <2> QED BY <2>4, <2>5
<1>7. Def(F)
  <2> HIDE DEF Def, step
  <2> QED BY <1>6
<1> HIDE DEF F
<1>8. \A k \in 0..n : F[k] \in S
  <2>1. F[0] \in S
    BY <1>1, <1>2, <1>7
  <2>2. \A k \in 1..n : F[k - 1] \in S => F[k] \in S
    <3>1. \A k \in 1..n : k \in 0..n /\ k # 0
      BY <1>1
    <3>2. \A k \in 1..n : F[k] = next(F[k - 1], k)
      BY <1>7, <3>1
    <3> HIDE DEF Def
    <3> QED BY <1>4, <3>2
  <2> HIDE DEF Def
  <2> QED BY <1>1, <2>1, <2>2, StaysIn
<1>9. F[n] \in S
  BY <1>1, <1>8
<1> QED BY <1>3, <1>9 DEF S

-----------------------------------------------------------------------------
(* The operands of the tries                                                *)

Pairs == [1..2 -> Shapes]

LEMMA OperandsGiven ==
  ASSUME NEW gs \in Operands
  PROVE  /\ gs \in Pairs /\ gs = <<gs[1], gs[2]>>
         /\ \A k \in 1..2 :
              /\ gs[k] \in Shapes /\ gs[k].pts \in Seq(Points) /\ gs[k].pts # <<>>
              /\ gs[k].ring \in BOOLEAN /\ (gs[k].ring => IsClosed(gs[k].pts))
<1>1. gs \in Shapes \X Shapes
  BY OperandsAssumption
<1>2. \A k \in 1..2 : gs[k].pts # <<>> /\ (gs[k].ring => IsClosed(gs[k].pts))
  BY OperandsAssumption
<1>3. \A g \in Shapes : g.pts \in Seq(Points) /\ g.ring \in BOOLEAN
  BY DEF Shapes
<1> HIDE DEF Shapes
<1>4. gs = <<gs[1], gs[2]>> /\ gs[1] \in Shapes /\ gs[2] \in Shapes
  BY <1>1
<1>5. gs \in Pairs
  BY <1>4 DEF Pairs
<1>6. \A k \in 1..2 : gs[k] \in Shapes
  BY <1>4
<1> QED BY <1>2, <1>3, <1>4, <1>5, <1>6

LEMMA SnappedIs ==
  ASSUME NEW g \in Shapes, g.pts # <<>>, NEW other \in Shapes
  PROVE  /\ Snapped(g, other) \in Shapes
         /\ Snapped(g, other).ring = g.ring
         /\ Snapped(g, other).pts = SnapTo(g.pts, TargetCoordinates(other))
         /\ TargetCoordinates(other) \in Seq(Points)
         /\ Range(TargetCoordinates(other)) \subseteq Range(other.pts)
<1>1. g.pts \in Seq(Points) /\ g.ring \in BOOLEAN /\ other.pts \in Seq(Points)
  BY DEF Shapes
<1>2. TargetCoordinates(other) \in Seq(Points) /\ Range(TargetCoordinates(other)) \subseteq Range(other.pts)
  BY <1>1, UniquePointsIn DEF TargetCoordinates
<1> DEFINE targets == TargetCoordinates(other)
           base == SnapVertices(g.pts, targets)
<1>3. base \in Seq(Points) /\ base # <<>>
  <2>1. base \in Seq(Points) /\ Len(base) = Len(g.pts)
    BY <1>1, <1>2, VerticesSnapped
  <2>2. Len(g.pts) # 0
    BY <1>1
  <2> HIDE DEF base
  <2> QED BY <2>1, <2>2
<1>4. SnapTo(g.pts, targets) \in Seq(Points)
  BY <1>2, <1>3, SegmentsSnapped DEF SnapTo
<1> HIDE DEF targets, Points
<1>5. Snapped(g, other) = [ring |-> g.ring, pts |-> SnapTo(g.pts, TargetCoordinates(other))]
  BY DEF Snapped, Shapes
<1> QED BY <1>1, <1>2, <1>4, <1>5 DEF Shapes, targets

LEMMA SnapOperandsIs ==
  ASSUME NEW gs \in Operands
  PROVE  LET given == SnapOperands(gs) IN
         /\ given \in Pairs
         /\ given[1] = Snapped(gs[1], gs[2]) /\ given[2] = Snapped(gs[2], given[1])
         /\ given[1] \in Shapes /\ given[2] \in Shapes
<1> DEFINE s0 == Snapped(gs[1], gs[2])
           s1 == Snapped(gs[2], s0)
<1>1. \A k \in 1..2 : gs[k] \in Shapes /\ gs[k].pts # <<>>
  BY OperandsGiven
<1>2. s0 \in Shapes
  BY <1>1, SnappedIs
<1> HIDE DEF s0
<1>3. s1 \in Shapes
  BY <1>1, <1>2, SnappedIs
<1> HIDE DEF s1
<1>4. SnapOperands(gs) = <<s0, s1>>
  BY DEF SnapOperands, s0, s1
<1>5. <<s0, s1>> \in Pairs
  BY <1>2, <1>3 DEF Pairs
<1>6. <<s0, s1>>[1] = s0 /\ <<s0, s1>>[2] = s1
  OBVIOUS
<1> QED BY <1>2, <1>3, <1>4, <1>5, <1>6 DEF s0, s1

LEMMA SnappedInPlace ==
  ASSUME NEW gs \in Operands, fixed \in BOOLEAN
  PROVE  \A k \in 1..2 :
           SnapsOf(gs[k], SnapOperands(gs)[k].pts,
                   Range(gs[3 - k].pts) \cup Range(SnapOperands(gs)[3 - k].pts))
<1> DEFINE given == SnapOperands(gs)
<1>1. given[1] = Snapped(gs[1], gs[2]) /\ given[2] = Snapped(gs[2], given[1]) /\ given[1] \in Shapes
  BY SnapOperandsIs
<1>2. \A k \in 1..2 : gs[k] \in Shapes /\ gs[k].pts # <<>>
  BY OperandsGiven
<1> HIDE DEF given
<1>3. ASSUME NEW g \in Shapes, g.pts # <<>>, NEW other \in Shapes, NEW targets, Range(other.pts) \subseteq targets
      PROVE  SnapsOf(g, Snapped(g, other).pts, targets)
  <2>1. /\ Snapped(g, other).pts = SnapTo(g.pts, TargetCoordinates(other))
        /\ TargetCoordinates(other) \in Seq(Points)
        /\ Range(TargetCoordinates(other)) \subseteq targets
    BY <1>3, SnappedIs
  <2> QED BY <1>3, <2>1, SnapsKeepOrder
<1>4. SnapsOf(gs[1], given[1].pts, Range(gs[2].pts) \cup Range(given[2].pts))
  <2> DEFINE targets == Range(gs[2].pts) \cup Range(given[2].pts)
  <2>1. Range(gs[2].pts) \subseteq targets
    OBVIOUS
  <2> HIDE DEF targets
  <2>2. SnapsOf(gs[1], Snapped(gs[1], gs[2]).pts, targets)
    <3>1. gs[1] \in Shapes /\ gs[1].pts # <<>> /\ gs[2] \in Shapes
      BY <1>1, <1>2
    <3> QED BY <1>3, <2>1, <3>1
  <2> QED BY <1>1, <2>2 DEF targets
<1>5. SnapsOf(gs[2], given[2].pts, Range(gs[1].pts) \cup Range(given[1].pts))
  <2> DEFINE targets == Range(gs[1].pts) \cup Range(given[1].pts)
  <2>1. Range(given[1].pts) \subseteq targets
    OBVIOUS
  <2> HIDE DEF targets
  <2>2. SnapsOf(gs[2], Snapped(gs[2], given[1]).pts, targets)
    <3>1. gs[2] \in Shapes /\ gs[2].pts # <<>> /\ given[1] \in Shapes
      BY <1>1, <1>2
    <3> QED BY <1>3, <2>1, <3>1
  <2> QED BY <1>1, <2>2 DEF targets
<1>6. \A k \in 1..2 : (k = 1 /\ 3 - k = 2) \/ (k = 2 /\ 3 - k = 1)
  OBVIOUS
<1>7. \A k \in 1..2 : SnapsOf(gs[k], given[k].pts, Range(gs[3 - k].pts) \cup Range(given[3 - k].pts))
  BY <1>4, <1>5, <1>6
<1> QED BY <1>7 DEF given

CloseTogether(pts) == \E p, q \in Range(pts) : p # q /\ Within(Dist2(p, q), 1)

LEMMA RefusedBetweenClose ==
  ASSUME NEW gs \in Operands, NEW k \in 1..2, ~Accepted(SnapOperands(gs)[k])
  PROVE  LET s0 == Snapped(gs[1], gs[2]) IN
         \/ gs[1].ring /\ CloseTogether(gs[2].pts)
         \/ gs[2].ring /\ CloseTogether(s0.pts)
<1> DEFINE given == SnapOperands(gs)
<1>1. given[1] = Snapped(gs[1], gs[2]) /\ given[2] = Snapped(gs[2], given[1]) /\ given[1] \in Shapes
  BY SnapOperandsIs
<1>2. \A i \in 1..2 : /\ gs[i] \in Shapes /\ gs[i].pts \in Seq(Points) /\ gs[i].pts # <<>>
                      /\ (gs[i].ring => IsClosed(gs[i].pts))
  BY OperandsGiven
<1> HIDE DEF given
<1>3. ASSUME NEW i \in 1..2, NEW other \in Shapes, ~Accepted(Snapped(gs[i], other))
      PROVE  gs[i].ring /\ CloseTogether(other.pts)
  <2>1. /\ Snapped(gs[i], other).ring = gs[i].ring
        /\ Snapped(gs[i], other).pts = SnapTo(gs[i].pts, TargetCoordinates(other))
        /\ TargetCoordinates(other) \in Seq(Points)
        /\ Range(TargetCoordinates(other)) \subseteq Range(other.pts)
    BY <1>2, SnappedIs
  <2>2. gs[i].ring /\ ~IsClosed(SnapTo(gs[i].pts, TargetCoordinates(other)))
    BY <1>3, <2>1 DEF Accepted
  <2>3. CloseTogether(TargetCoordinates(other))
    BY <1>2, <2>1, <2>2, OpensBetweenClose DEF CloseTogether
  <2> QED BY <2>1, <2>2, <2>3 DEF CloseTogether
<1>4. CASE k = 1
  <2>1. ~Accepted(Snapped(gs[1], gs[2]))
    BY <1>1, <1>4 DEF given
  <2> QED BY <1>2, <1>3, <2>1
<1>5. CASE k = 2
  <2>1. ~Accepted(Snapped(gs[2], given[1]))
    BY <1>1, <1>5 DEF given
  <2>2. gs[2].ring /\ CloseTogether(given[1].pts)
    BY <1>1, <1>3, <2>1
  <2> QED BY <1>1, <2>2
<1> QED BY <1>4, <1>5

-----------------------------------------------------------------------------
(* Common bits removed and added again                                      *)

LEMMA TranslatedIs ==
  ASSUME NEW g \in Shapes, NEW v \in Points
  PROVE  /\ Translate(g, v) \in Shapes /\ Translate(g, v).ring = g.ring
         /\ Len(Translate(g, v).pts) = Len(g.pts)
         /\ \A k \in 1..Len(g.pts) :
              Translate(g, v).pts[k] = <<g.pts[k][1] + v[1], g.pts[k][2] + v[2]>>
<1> DEFINE n == Len(g.pts)
           at(k) == <<g.pts[k][1] + v[1], g.pts[k][2] + v[2]>>
           moved == [k \in 1..n |-> at(k)]
<1>1. g.pts \in Seq(Points) /\ g.ring \in BOOLEAN /\ n \in Nat /\ DOMAIN g.pts = 1..n
  BY DEF Shapes
<1>2. \A k \in 1..n : at(k) \in Points
  <2>1. \A k \in 1..n : g.pts[k] \in Points
    BY <1>1
  <2> QED BY <2>1 DEF Points
<1>3. Translate(g, v) = [ring |-> g.ring, pts |-> moved]
  <2>1. Translate(g, v) = [g EXCEPT !.pts = moved]
    BY <1>1 DEF Translate
  <2> HIDE DEF moved, Points
  <2> QED BY <2>1 DEF Shapes
<1> HIDE DEF n, at
<1>4. moved \in Seq(Points) /\ Len(moved) = n /\ \A k \in 1..n : moved[k] = at(k)
  BY <1>1, <1>2
<1> HIDE DEF moved, Points
<1> QED BY <1>1, <1>3, <1>4 DEF Shapes, n, at

LEMMA TranslatedBack ==
  ASSUME NEW g \in Shapes, NEW v \in Points
  PROVE  AddCommonBits(RemoveCommonBits(g, v), v) = g
<1> DEFINE a == RemoveCommonBits(g, v)
           b == AddCommonBits(a, v)
           n == Len(g.pts)
<1>1. v[1] \in Int /\ v[2] \in Int /\ Minus(v) \in Points /\ Minus(v)[1] = -v[1] /\ Minus(v)[2] = -v[2]
  BY DEF Minus, Points
<1>2. /\ a \in Shapes /\ a.ring = g.ring /\ Len(a.pts) = n
      /\ \A k \in 1..n : a.pts[k] = <<g.pts[k][1] + Minus(v)[1], g.pts[k][2] + Minus(v)[2]>>
  BY <1>1, TranslatedIs DEF RemoveCommonBits
<1> HIDE DEF a
<1>3. /\ b \in Shapes /\ b.ring = g.ring /\ Len(b.pts) = n
      /\ \A k \in 1..n : b.pts[k] = <<a.pts[k][1] + v[1], a.pts[k][2] + v[2]>>
  BY <1>2, TranslatedIs DEF AddCommonBits
<1> HIDE DEF b
<1>4. g.pts \in Seq(Points) /\ b.pts \in Seq(Points) /\ n \in Nat
      /\ g = [ring |-> g.ring, pts |-> g.pts] /\ b = [ring |-> b.ring, pts |-> b.pts]
  <2> HIDE DEF Points
  <2> QED BY <1>3 DEF Shapes
<1>5. \A k \in 1..n : b.pts[k] = g.pts[k]
  <2> SUFFICES ASSUME NEW k \in 1..n PROVE b.pts[k] = g.pts[k]
    OBVIOUS
  <2>1. g.pts[k] \in Points
    BY <1>4
  <2>2. g.pts[k][1] \in Int /\ g.pts[k][2] \in Int /\ g.pts[k] = <<g.pts[k][1], g.pts[k][2]>>
    BY <2>1 DEF Points
  <2>3. a.pts[k] = <<g.pts[k][1] - v[1], g.pts[k][2] - v[2]>>
    BY <1>1, <1>2, <2>2
  <2>4. b.pts[k] = <<(g.pts[k][1] - v[1]) + v[1], (g.pts[k][2] - v[2]) + v[2]>>
    BY <1>3, <2>3
  <2> QED BY <1>1, <2>2, <2>4
<1>6. b.pts = g.pts
  <2> HIDE DEF Points
  <2>1. Len(b.pts) = Len(g.pts)
    BY <1>3
  <2> QED BY <1>4, <1>5, <2>1
<1> QED BY <1>3, <1>4, <1>6 DEF b, a

LEMMA TruncateType == \A c \in Int : Truncate(c) \in Int
<1> SUFFICES ASSUME NEW c \in Int PROVE Truncate(c) \in Int
  OBVIOUS
<1>1. c \div SCALE \in Int /\ (-c) \div SCALE \in Int
  BY ScaleAssumption
<1> QED BY <1>1 DEF Truncate

LEMMA MultipleBack == \A c \in Int : (SCALE * c) \div SCALE = c
<1> SUFFICES ASSUME NEW c \in Int PROVE (SCALE * c) \div SCALE = c
  OBVIOUS
<1>1. SCALE * c \in Int /\ SCALE * c <= SCALE * c /\ SCALE * c < SCALE * c + SCALE
  BY ScaleAssumption
<1> QED BY <1>1, ScaleAssumption, QuotientOnly

(* The numbers that both operands have on an axis, in the order they are added. *)
Numbers(gs, axis) ==
  LET pts == gs[1].pts \o gs[2].pts IN [k \in DOMAIN pts |-> Truncate(pts[k][axis])]
NumbersOf(gs, axis) == {Truncate(p[axis]) : p \in Range(gs[1].pts) \cup Range(gs[2].pts)}

LEMMA NumbersIs ==
  ASSUME NEW gs \in Operands, NEW axis \in 1..2
  PROVE  /\ Numbers(gs, axis) \in Seq(Int) /\ Numbers(gs, axis) # <<>>
         /\ NumbersOf(gs, axis) \subseteq Int
         /\ \A x : x \in NumbersOf(gs, axis) <=> \E k \in 1..Len(Numbers(gs, axis)) : Numbers(gs, axis)[k] = x
<1> DEFINE p1 == gs[1].pts
           p2 == gs[2].pts
           both == p1 \o p2
           n == Len(both)
           t(p) == Truncate(p[axis])
           ns == [k \in 1..n |-> t(both[k])]
<1>1. p1 \in Seq(Points) /\ p1 # <<>> /\ p2 \in Seq(Points)
  BY OperandsGiven
<1>2. \A p \in Points : t(p) \in Int
  BY TruncateType DEF Points
<1> HIDE DEF Points, p1, p2
<1>3. /\ both \in Seq(Points) /\ n = Len(p1) + Len(p2) /\ Len(p1) \in Nat \ {0} /\ Len(p2) \in Nat
      /\ \A k \in 1..Len(p1) : both[k] = p1[k]
      /\ \A k \in 1..Len(p2) : both[Len(p1) + k] = p2[k]
  <2>1. both \in Seq(Points) /\ n = Len(p1) + Len(p2)
    BY <1>1, ConcatProperties
  <2>2. Len(p1) \in Nat \ {0} /\ Len(p2) \in Nat
    BY <1>1
  <2>3. \A k \in 1..Len(p1) : both[k] = p1[k]
    BY <1>1, <2>2
  <2>4. \A k \in 1..Len(p2) : both[Len(p1) + k] = p2[k]
    BY <1>1, <2>2
  <2> QED BY <2>1, <2>2, <2>3, <2>4
<1>4. DOMAIN both = 1..n /\ n \in Nat /\ n # 0 /\ \A k \in 1..n : both[k] \in Points
  BY <1>3
<1>5. Range(p1) = {p1[k] : k \in 1..Len(p1)} /\ Range(p2) = {p2[k] : k \in 1..Len(p2)}
  BY <1>1 DEF Range
<1> HIDE DEF both, n
<1>6. \A p : p \in Range(p1) \cup Range(p2) <=> \E k \in 1..n : both[k] = p
  <2>1. \A k \in 1..Len(p1) : k \in 1..n /\ both[k] = p1[k]
    BY <1>3
  <2>2. \A k \in 1..Len(p2) : Len(p1) + k \in 1..n /\ both[Len(p1) + k] = p2[k]
    BY <1>3
  <2>3. ASSUME NEW k \in 1..n PROVE both[k] \in Range(p1) \cup Range(p2)
    <3>1. CASE k <= Len(p1)
      <4>1. k \in 1..Len(p1)
        BY <3>1
      <4> QED BY <1>3, <1>5, <4>1
    <3>2. CASE ~(k <= Len(p1))
      <4>1. k - Len(p1) \in 1..Len(p2) /\ Len(p1) + (k - Len(p1)) = k
        BY <1>3, <3>2
      <4>2. both[k] = p2[k - Len(p1)]
        BY <2>2, <4>1
      <4> QED BY <1>5, <4>1, <4>2
    <3> QED BY <3>1, <3>2
  <2> QED BY <1>5, <2>1, <2>2, <2>3
<1>7. Numbers(gs, axis) = ns
  BY <1>4 DEF Numbers, both, p1, p2
<1>8. NumbersOf(gs, axis) = {t(p) : p \in Range(p1) \cup Range(p2)}
  BY DEF NumbersOf, p1, p2
<1> HIDE DEF t
<1>9. ns \in Seq(Int) /\ Len(ns) = n /\ ns # <<>> /\ \A k \in 1..n : ns[k] = t(both[k])
  <2>1. \A k \in 1..n : t(both[k]) \in Int
    BY <1>2, <1>4
  <2>2. ns \in Seq(Int) /\ Len(ns) = n
    BY <1>4, <2>1
  <2> QED BY <1>4, <2>2
<1> HIDE DEF ns
<1>10. \A x : x \in NumbersOf(gs, axis) <=> \E k \in 1..n : ns[k] = x
  BY <1>6, <1>8, <1>9
<1>11. NumbersOf(gs, axis) \subseteq Int
  BY <1>4, <1>9, <1>10, <1>2
<1> QED BY <1>7, <1>9, <1>10, <1>11

LEMMA CommonCoordinateIs ==
  ASSUME NEW gs \in Operands, shiftsWrap \in BOOLEAN
  PROVE  /\ CommonCoordinate(gs) \in Points
         /\ \A axis \in 1..2 :
              /\ CommonOf(Numbers(gs, axis)) \in Int
              /\ CommonCoordinate(gs)[axis] \div SCALE = CommonOf(Numbers(gs, axis))
<1>1. CommonCoordinate(gs) = <<SCALE * CommonOf(Numbers(gs, 1)), SCALE * CommonOf(Numbers(gs, 2))>>
  BY DEF CommonCoordinate, Numbers
<1>2. ASSUME NEW axis \in 1..2 PROVE CommonOf(Numbers(gs, axis)) \in Int
  <2> DEFINE ns == Numbers(gs, axis)
  <2>1. ns \in Seq(Int) /\ ns # <<>>
    BY NumbersIs
  <2> HIDE DEF ns
  <2>2. PICK f : CommonUpTo(f, ns) /\ CommonOf(ns) = f[Len(ns)]
    BY <2>1, CommonUnfold
  <2>3. Len(ns) \in 1..Len(ns)
    BY <2>1
  <2> QED BY <2>2, <2>3 DEF CommonUpTo, ns
<1> DEFINE c1 == CommonOf(Numbers(gs, 1))
           c2 == CommonOf(Numbers(gs, 2))
<1>3. c1 \in Int /\ c2 \in Int
  BY <1>2
<1>4. CommonCoordinate(gs) = <<SCALE * c1, SCALE * c2>>
  BY <1>1
<1>5. \A axis \in 1..2 : CommonOf(Numbers(gs, axis)) = <<c1, c2>>[axis]
  <2>1. \A axis \in 1..2 : axis = 1 \/ axis = 2
    OBVIOUS
  <2> QED BY <2>1
<1> HIDE DEF c1, c2
<1>6. SCALE * c1 \in Int /\ SCALE * c2 \in Int
  BY <1>3, ScaleAssumption
<1>7. (SCALE * c1) \div SCALE = c1 /\ (SCALE * c2) \div SCALE = c2
  BY <1>3, MultipleBack
<1>8. CommonCoordinate(gs) \in Points
  BY <1>4, <1>6 DEF Points
<1>9. CommonCoordinate(gs)[1] \div SCALE = c1 /\ CommonCoordinate(gs)[2] \div SCALE = c2
  BY <1>4, <1>7
<1>10. \A axis \in 1..2 : CommonCoordinate(gs)[axis] \div SCALE = <<c1, c2>>[axis]
  <2>1. \A axis \in 1..2 : axis = 1 \/ axis = 2
    OBVIOUS
  <2> QED BY <1>9, <2>1
<1> QED BY <1>2, <1>5, <1>8, <1>10

(* The numbers of an axis that lie in one block share one of its numbers.   *)
LEMMA CommonShared ==
  ASSUME operands \in Operands, shiftsWrap \in BOOLEAN, commonCoord = CommonCoordinate(operands)
  PROVE  SharedBitsRemoved
<1>1. PICK gs \in Operands : gs = operands
  OBVIOUS
<1> DEFINE ns(axis) == NumbersOf(gs, axis)
           common(axis) == commonCoord[axis] \div SCALE
<1>2. ASSUME NEW axis \in 1..2, NEW n \in ns(axis), NEW m \in ns(axis), n < 0, m >= 0
      PROVE  common(axis) = 0
  <2> DEFINE nums == Numbers(gs, axis)
  <2>1. /\ nums \in Seq(Int) /\ nums # <<>>
        /\ \A x : x \in ns(axis) <=> \E k \in 1..Len(nums) : nums[k] = x
    BY <1>1, NumbersIs
  <2>2. common(axis) = CommonOf(nums)
    BY <1>1, CommonCoordinateIs
  <2> HIDE DEF nums, ns, common
  <2>3. PICK i \in 1..Len(nums), j \in 1..Len(nums) : nums[i] = n /\ nums[j] = m
    BY <1>2, <2>1
  <2>4. CommonOf(nums) = 0
    BY <1>2, <2>1, <2>3, CommonOfSigns
  <2> QED BY <2>2, <2>4
<1>3. ASSUME NEW axis \in 1..2, NEW b \in 0..24, Cardinality(Block(ns(axis), b)) = 1
      PROVE  Block({common(axis)}, b) = Block(ns(axis), b)
  <2> DEFINE nums == Numbers(gs, axis)
             blocks == Block(ns(axis), b)
  <2>1. /\ nums \in Seq(Int) /\ nums # <<>>
        /\ \A x : x \in ns(axis) <=> \E k \in 1..Len(nums) : nums[k] = x
    BY <1>1, NumbersIs
  <2>2. common(axis) = CommonOf(nums)
    BY <1>1, CommonCoordinateIs
  <2> HIDE DEF nums, ns, common
  <2>3. blocks = {BlockOf(n, b) : n \in ns(axis)}
    BY DEF Block, BlockOf
  <2>4. blocks = {BlockOf(nums[k], b) : k \in 1..Len(nums)}
    BY <2>1, <2>3
  <2>5. IsFiniteSet(blocks)
    <3> DEFINE s == [k \in 1..Len(nums) |-> BlockOf(nums[k], b)]
    <3>1. s \in [1..Len(nums) -> blocks] /\ \A x \in blocks : \E k \in 1..Len(nums) : s[k] = x
      BY <2>4
    <3>2. Len(nums) \in Nat
      BY <2>1
    <3> HIDE DEF s, blocks
    <3>3. s \in Surjection(1..Len(nums), blocks)
      BY <3>1 DEF Surjection
    <3>4. ExistsSurjection(1..Len(nums), blocks)
      BY <3>3 DEF ExistsSurjection
    <3> QED BY <3>2, <3>4, FS_NatSurjection
  <2>6. PICK q : blocks = {q}
    <3>1. Cardinality(blocks) = 1
      BY <1>3
    <3> HIDE DEF blocks
    <3> QED BY <2>5, <3>1, FS_Singleton
  <2>7. \A k \in 1..Len(nums) : BlockOf(nums[k], b) = q
    BY <2>4, <2>6
  <2>8. BlockOf(CommonOf(nums), b) = q
    BY <2>1, <2>7, CommonInBlock
  <2>9. Block({common(axis)}, b) = {q}
    BY <2>2, <2>8 DEF Block, BlockOf
  <2> QED BY <2>6, <2>9
<1>4. \A axis \in 1..2 :
        IF \E n \in ns(axis) : \E m \in ns(axis) : n < 0 /\ m >= 0 THEN common(axis) = 0
        ELSE \A b \in 0..24 : Cardinality(Block(ns(axis), b)) = 1 => Block({common(axis)}, b) = Block(ns(axis), b)
  <2> HIDE DEF ns, common
  <2> QED BY <1>2, <1>3
<1>5. \A axis : ns(axis) = {Truncate(p[axis]) : p \in Range(operands[1].pts) \cup Range(operands[2].pts)}
  BY <1>1 DEF NumbersOf
<1> HIDE DEF ns
<1> QED BY <1>4, <1>5, Zenon DEF SharedBitsRemoved

LEMMA SameSnapping ==
  ASSUME NEW gs, fixed' = fixed, operands' = operands
  PROVE  SnapOperands(gs)' = SnapOperands(gs)
<1>1. ASSUME NEW p, NEW pts PROVE SegmentsToSnap(p, pts)' = SegmentsToSnap(p, pts)
  BY DEF SegmentsToSnap, Within, IsFlat
<1>2. ASSUME NEW pts, NEW p PROVE SnapSegment(pts, p)' = SnapSegment(pts, p)
  BY <1>1 DEF SnapSegment
<1>3. ASSUME NEW pts, NEW snapPts PROVE SnapSegments(pts, snapPts)' = SnapSegments(pts, snapPts)
  BY <1>2 DEF SnapSegments
<1>4. ASSUME NEW pt, NEW snapPts PROVE FindSnapForVertex(pt, snapPts)' = FindSnapForVertex(pt, snapPts)
  BY DEF FindSnapForVertex, Within, IsFlat
<1>5. ASSUME NEW pts, NEW snapPts PROVE SnapVertices(pts, snapPts)' = SnapVertices(pts, snapPts)
  BY <1>4 DEF SnapVertices
<1>6. ASSUME NEW pts, NEW snapPts PROVE SnapTo(pts, snapPts)' = SnapTo(pts, snapPts)
  BY <1>3, <1>5 DEF SnapTo
<1>7. ASSUME NEW g, NEW other PROVE Snapped(g, other)' = Snapped(g, other)
  BY <1>6 DEF Snapped
<1> QED BY <1>7 DEF SnapOperands

LEMMA SameCommon ==
  ASSUME NEW gs, shiftsWrap' = shiftsWrap
  PROVE  CommonCoordinate(gs)' = CommonCoordinate(gs)
  BY DEF CommonCoordinate, CommonOf, AddNumber, ZeroLowerBits, NumCommonMostSigMantissaBits, GetBit

-----------------------------------------------------------------------------
(* How the tries got where they are: an answer is made of the operands as    *)
(* the last try gave them, and a ring refused is one that snapping opened.  *)
Answers == [by : {"original", "commonbits", "snapping"}, from : Pairs]

TriesInOrder ==
  /\ attempt # "done" => ret = NoResult /\ thrown = <<>>
  /\ attempt \in {"no", "original"} => origException = "none"
  /\ attempt \in {"commonbits", "snapping", "fail"} => origException = "original"
Removed ==
  attempt = "snapping" \/ (ret # NoResult /\ ret.by = "commonbits")
    => commonCoord = CommonCoordinate(operands)
MadeOf ==
  ret # NoResult =>
    ret \in Answers /\ ret.from = IF ret.by = "snapping" THEN SnapOperands(operands) ELSE operands
Refused ==
  thrown # <<>> /\ thrown[1] = "illegal" => \E k \in 1..2 : ~Accepted(SnapOperands(operands)[k])

BinaryIInv ==
  /\ fixed \in BOOLEAN /\ shiftsWrap \in BOOLEAN
  /\ attempt # "no" => operands \in Operands
  /\ BinaryTypeOK /\ TriesInOrder /\ Removed /\ MadeOf /\ Refused /\ ThrowsTheOriginal

LEMMA SoundTries == BinaryIInv => RetriesSound
<1> SUFFICES ASSUME BinaryIInv PROVE RetriesSound
  OBVIOUS
<1>1. /\ fixed \in BOOLEAN /\ shiftsWrap \in BOOLEAN /\ BinaryTypeOK /\ ThrowsTheOriginal
      /\ attempt # "no" => operands \in Operands
      /\ attempt # "done" => ret = NoResult /\ thrown = <<>>
  BY DEF BinaryIInv, TriesInOrder
<1>2. AnswerInPlace
  <2> SUFFICES ASSUME ret # NoResult
               PROVE  IF ret.by \in {"original", "commonbits"} THEN ret.from = operands
                      ELSE \A k \in 1..2 :
                             SnapsOf(operands[k], ret.from[k].pts,
                                     Range(operands[3 - k].pts) \cup Range(ret.from[3 - k].pts))
    BY DEF AnswerInPlace
  <2>1. ret \in Answers /\ ret.from = IF ret.by = "snapping" THEN SnapOperands(operands) ELSE operands
    BY DEF BinaryIInv, MadeOf
  <2>2. ret.by \in {"original", "commonbits", "snapping"}
    BY <2>1 DEF Answers
  <2>3. CASE ret.by \in {"original", "commonbits"}
    BY <2>1, <2>3
  <2>4. CASE ret.by = "snapping"
    <3>1. operands \in Operands
      BY <1>1
    <3>2. \A k \in 1..2 :
            SnapsOf(operands[k], SnapOperands(operands)[k].pts,
                    Range(operands[3 - k].pts) \cup Range(SnapOperands(operands)[3 - k].pts))
      BY <1>1, <3>1, SnappedInPlace
    <3> QED BY <2>1, <2>4, <3>2
  <2> QED BY <2>2, <2>3, <2>4
<1>3. SharedBitsRemoved
  <2>1. CASE attempt = "snapping" \/ (ret # NoResult /\ ret.by = "commonbits")
    BY <1>1, <2>1, CommonShared DEF BinaryIInv, Removed
  <2>2. CASE ~(attempt = "snapping" \/ (ret # NoResult /\ ret.by = "commonbits"))
    BY <2>2 DEF SharedBitsRemoved
  <2> QED BY <2>1, <2>2
<1>4. OpensBetweenCloseTargets
  <2> SUFFICES ASSUME thrown # <<>>, thrown[1] = "illegal"
               PROVE  LET s0 == Snapped(operands[1], operands[2]) IN
                      \/ operands[1].ring /\ CloseTogether(operands[2].pts)
                      \/ operands[2].ring /\ CloseTogether(s0.pts)
    BY DEF OpensBetweenCloseTargets, CloseTogether
  <2>1. operands \in Operands /\ \E k \in 1..2 : ~Accepted(SnapOperands(operands)[k])
    BY <1>1 DEF BinaryIInv, Refused
  <2> QED BY <2>1, RefusedBetweenClose
<1> QED BY <1>1, <1>2, <1>3, <1>4 DEF RetriesSound

LEMMA BinaryInitially == BinaryInit => BinaryIInv
  BY DEF BinaryInit, BinaryIInv, BinaryTypeOK, TriesInOrder, Removed, MadeOf, Refused, ThrowsTheOriginal, Done

LEMMA BinaryStep == BinaryIInv /\ [BinaryNext]_binaryVars => BinaryIInv'
<1> SUFFICES ASSUME BinaryIInv, [BinaryNext]_binaryVars PROVE BinaryIInv'
  OBVIOUS
<1> USE DEF BinaryTypeOK, TriesInOrder, ThrowsTheOriginal, Done
<1>1. /\ fixed \in BOOLEAN /\ shiftsWrap \in BOOLEAN
      /\ attempt # "no" => operands \in Operands
      /\ BinaryTypeOK /\ TriesInOrder /\ Removed /\ MadeOf /\ Refused /\ ThrowsTheOriginal
  BY DEF BinaryIInv
<1>2. ASSUME NEW gs \in Operands, NEW isFixed \in BOOLEAN, NEW wraps \in BOOLEAN, Call(gs, isFixed, wraps)
      PROVE  BinaryIInv'
  BY <1>1, <1>2 DEF Call, BinaryIInv, Removed, MadeOf, Refused
<1>3. ASSUME operands' = operands, fixed' = fixed, shiftsWrap' = shiftsWrap, operands \in Operands
      PROVE  /\ SnapOperands(operands)' = SnapOperands(operands)
             /\ CommonCoordinate(operands)' = CommonCoordinate(operands)
  <2>1. PICK gs \in Operands : gs = operands /\ gs = operands'
    BY <1>3
  <2>2. SnapOperands(gs)' = SnapOperands(gs) /\ CommonCoordinate(gs)' = CommonCoordinate(gs)
    BY <1>3, SameSnapping, SameCommon
  <2> QED BY <2>1, <2>2
<1>4. ASSUME operands \in Operands
      PROVE  /\ operands \in Pairs /\ SnapOperands(operands) \in Pairs
             /\ \A by \in {"original", "commonbits", "snapping"}, from \in Pairs :
                  [by |-> by, from |-> from] \in Answers /\ [by |-> by, from |-> from] # NoResult
  BY <1>4, OperandsGiven, SnapOperandsIs, NoResultAssumption DEF Answers, Pairs
<1>5. ASSUME NEW outcome, TryOriginal(outcome) PROVE BinaryIInv'
  <2>1. /\ attempt = "original" /\ operands \in Operands
        /\ operands' = operands /\ fixed' = fixed /\ shiftsWrap' = shiftsWrap /\ commonCoord' = commonCoord
    BY <1>1, <1>5 DEF TryOriginal
  <2>2. CASE Answer(operands)
    <3>1. operands \in Pairs /\ ret' = [by |-> "original", from |-> operands] /\ ret' \in Answers /\ ret' # NoResult
      BY <1>4, <2>1, <2>2 DEF Answer
    <3> QED BY <1>1, <2>1, <2>2, <3>1 DEF Answer, BinaryIInv, Removed, MadeOf, Refused
  <2>3. CASE GetsOut("other")
    BY <1>1, <2>1, <2>3 DEF GetsOut, BinaryIInv, Removed, MadeOf, Refused
  <2>4. CASE CaughtAndTried("commonbits") /\ origException' = attempt
    BY <1>1, <2>1, <2>4 DEF CaughtAndTried, BinaryIInv, Removed, MadeOf, Refused
  <2> QED BY <1>5, <2>2, <2>3, <2>4 DEF TryOriginal
<1>6. ASSUME NEW outcome, TryCommonBits(outcome) PROVE BinaryIInv'
  <2>1. /\ attempt = "commonbits" /\ operands \in Operands
        /\ operands' = operands /\ fixed' = fixed /\ shiftsWrap' = shiftsWrap
        /\ commonCoord' = CommonCoordinate(operands)
    BY <1>1, <1>6 DEF TryCommonBits
  <2>2. commonCoord' = CommonCoordinate(operands)'
    BY <1>3, <2>1
  <2> DEFINE given == [k \in 1..2 |-> RemoveCommonBits(operands[k], commonCoord')]
             back == [k \in 1..2 |-> AddCommonBits(given[k], commonCoord')]
  <2>3. CASE Answer(back)
    <3>1. back = operands
      <4>1. PICK c \in Points : c = commonCoord'
        BY <1>1, <2>1, CommonCoordinateIs
      <4>2. \A k \in 1..2 : operands[k] \in Shapes
        BY <2>1, OperandsGiven
      <4>3. \A k \in 1..2 : back[k] = operands[k]
        BY <4>1, <4>2, TranslatedBack
      <4>4. operands \in Pairs
        BY <1>4, <2>1
      <4>5. back = [k \in 1..2 |-> back[k]]
        OBVIOUS
      <4> HIDE DEF back
      <4> QED BY <4>3, <4>4, <4>5 DEF Pairs
    <3> HIDE DEF back
    <3>2. operands \in Pairs /\ ret' = [by |-> "commonbits", from |-> operands] /\ ret' \in Answers /\ ret' # NoResult
      BY <1>4, <2>1, <2>3, <3>1 DEF Answer
    <3> QED BY <1>1, <2>1, <2>2, <2>3, <3>2 DEF Answer, BinaryIInv, Removed, MadeOf, Refused
  <2>4. CASE GetsOut("other")
    BY <1>1, <2>1, <2>4 DEF GetsOut, BinaryIInv, Removed, MadeOf, Refused
  <2>5. CASE CaughtAndTried("snapping") /\ UNCHANGED origException
    BY <1>1, <2>1, <2>2, <2>5 DEF CaughtAndTried, BinaryIInv, Removed, MadeOf, Refused
  <2> QED BY <1>6, <2>3, <2>4, <2>5 DEF TryCommonBits
<1>7. ASSUME NEW outcome, TrySnapping(outcome) PROVE BinaryIInv'
  <2>1. /\ attempt = "snapping" /\ operands \in Operands
        /\ operands' = operands /\ fixed' = fixed /\ shiftsWrap' = shiftsWrap
    BY <1>1, <1>7 DEF TrySnapping
  <2>2. SnapOperands(operands)' = SnapOperands(operands)
    BY <1>3, <2>1
  <2> DEFINE given == SnapOperands(operands)
  <2>3. CASE ~(Accepted(given[1]) /\ Accepted(given[2])) /\ GetsOut("illegal")
    <3>1. \E k \in 1..2 : ~Accepted(given[k])
      BY <2>3
    <3>2. (\E k \in 1..2 : ~Accepted(SnapOperands(operands)[k]))'
      BY <2>2, <3>1 DEF Accepted
    <3> HIDE DEF given
    <3> QED BY <1>1, <2>1, <2>3, <3>2 DEF GetsOut, BinaryIInv, Removed, MadeOf, Refused
  <2>4. CASE Answer(given)
    <3>1. given \in Pairs /\ ret' = [by |-> "snapping", from |-> given] /\ ret' \in Answers /\ ret' # NoResult
      BY <1>4, <2>1, <2>4 DEF Answer
    <3>2. ret'.by = "snapping" /\ ret'.from = SnapOperands(operands)'
      BY <2>2, <3>1
    <3> QED BY <1>1, <2>1, <2>4, <3>1, <3>2 DEF Answer, BinaryIInv, Removed, MadeOf, Refused
  <2>5. CASE GetsOut("other")
    BY <1>1, <2>1, <2>5 DEF GetsOut, BinaryIInv, Removed, MadeOf, Refused
  <2>6. CASE CaughtAndTried("fail") /\ UNCHANGED origException
    BY <1>1, <2>1, <2>6 DEF CaughtAndTried, BinaryIInv, Removed, MadeOf, Refused
  <2> QED BY <1>7, <2>3, <2>4, <2>5, <2>6 DEF TrySnapping
<1>8. CASE ThrowOriginal
  <2>1. operands \in Operands
    BY <1>1, <1>8 DEF ThrowOriginal
  <2> QED BY <1>1, <1>8, <2>1 DEF ThrowOriginal, BinaryIInv, Removed, MadeOf, Refused
<1>9. CASE UNCHANGED binaryVars
  <2>1. /\ operands' = operands /\ fixed' = fixed /\ shiftsWrap' = shiftsWrap /\ attempt' = attempt
        /\ commonCoord' = commonCoord /\ ret' = ret /\ origException' = origException /\ thrown' = thrown
    BY <1>9 DEF binaryVars
  <2>2. CASE attempt = "no"
    BY <1>1, <2>1, <2>2 DEF BinaryIInv, Removed, MadeOf, Refused
  <2>3. CASE attempt # "no"
    <3>1. /\ SnapOperands(operands)' = SnapOperands(operands)
          /\ CommonCoordinate(operands)' = CommonCoordinate(operands)
      BY <1>1, <1>3, <2>1, <2>3
    <3>2. Refused'
      BY <1>1, <2>1, <3>1 DEF Refused, Accepted
    <3>3. Removed' /\ MadeOf'
      BY <1>1, <2>1, <3>1 DEF Removed, MadeOf, Answers
    <3> QED BY <1>1, <2>1, <3>2, <3>3 DEF BinaryIInv
  <2> QED BY <2>2, <2>3
<1> QED BY <1>2, <1>5, <1>6, <1>7, <1>8, <1>9 DEF BinaryNext

(* For all operands, wherever they lie: the retries of a binary operation    *)
(* answer near the operands, take away only bits that all their coordinates  *)
(* share and put them back, refuse a ring only where snapping brought two    *)
(* close points together, and throw what the first try threw once no try is   *)
(* left (BinaryOp, SnapIfNeededOverlayOp and CommonBitsRemover in GEOS).     *)
THEOREM RetriesAlwaysSound == BinarySpec => []RetriesSound
<1>1. BinaryInit => BinaryIInv
  BY BinaryInitially
<1>2. BinaryIInv /\ [BinaryNext]_binaryVars => BinaryIInv'
  BY BinaryStep
<1>3. BinaryIInv => RetriesSound
  BY SoundTries
<1> QED BY <1>1, <1>2, <1>3, PTL DEF BinarySpec

-----------------------------------------------------------------------------
(* BufferOp                                                                 *)

AllFailed == \A j \in 1..Len(tries) : tries[j].outcome = "topology"

(* How far the call under way has got.                                      *)
TriesSoFar ==
  /\ trying = "original" => Len(tries) = 0
  /\ trying = "fixed" => AllFailed /\ Len(tries) = 1 /\ resultGeometry = NoGeometry
  /\ trying = "reduced" =>
       /\ AllFailed
       /\ Len(tries) = 1 + MAX_PRECISION_DIGITS - precDigits
       /\ resultGeometry = NoGeometry
       /\ precDigits \in 0..MAX_PRECISION_DIGITS

(* What is left in the object has been handed out before.                   *)
HandedOut ==
  resultGeometry # NoGeometry =>
    \E j \in 1..Len(buffers) : Served(buffers[j]) /\ buffers[j].returned = resultGeometry

(* What ThrowsAfterAllTries and FinestThatServes say of a call c that came   *)
(* back after n others.                                                      *)
Thrown(c) ==
  ~Served(c) =>
    /\ \A t \in Range(c.tries) : t.outcome # "geometry"
    /\ Last(c.tries).outcome = "other" \/ Last(c.tries).precision \in {0, Fixed}

Finest(c) ==
  LET n == Len(c.tries) IN
    /\ c.returned = [distance |-> c.distance, precision |-> c.tries[n].precision]
    /\ c.tries[n].outcome = "geometry"
    /\ \A j \in 1..n - 1 : c.tries[j].outcome = "topology"
    /\ c.returned.precision >= 0 => n = 2 + MAX_PRECISION_DIGITS - c.returned.precision

Stale(c, n) ==
  /\ Len(c.tries) = 1 /\ c.tries[1].outcome = "topology"
  /\ \E j \in 1..n : Served(buffers[j]) /\ buffers[j].returned = c.returned

BufferIInv ==
  /\ BufferTypeOK
  /\ TriesSoFar
  /\ HandedOut
  /\ ThrowsAfterAllTries
  /\ FinestThatServes

-----------------------------------------------------------------------------
LEMMA InitBuffer == BufferInit => BufferIInv
  BY BufferAssumption
  DEF BufferInit, BufferIInv, BufferTypeOK, TriesSoFar, HandedOut, ThrowsAfterAllTries,
      FinestThatServes

(* A try adds one entry, and leaves a geometry only when it gives one.      *)
LEMMA TriedFacts ==
  ASSUME BufferTypeOK, NEW p \in Precision, NEW o \in Outcome, Tried(p, o)
  PROVE  /\ tries' \in Seq(Try)
         /\ Len(tries') = Len(tries) + 1
         /\ tries'[Len(tries) + 1] = [precision |-> p, outcome |-> o]
         /\ \A j \in 1..Len(tries) : tries'[j] = tries[j]
         /\ resultGeometry' \in Geom \cup {NoGeometry}
         /\ o = "geometry" =>
              /\ resultGeometry' = [distance |-> distance, precision |-> p]
              /\ resultGeometry' # NoGeometry
         /\ o # "geometry" => resultGeometry' = resultGeometry
<1>1. [precision |-> p, outcome |-> o] \in Try
  BY DEF Try
<1>2. /\ tries' \in Seq(Try)
      /\ Len(tries') = Len(tries) + 1
      /\ tries'[Len(tries) + 1] = [precision |-> p, outcome |-> o]
      /\ \A j \in 1..Len(tries) : tries'[j] = tries[j]
  BY <1>1 DEF Tried, BufferTypeOK
<1>3. [distance |-> distance, precision |-> p] \in Geom
  BY DEF Geom, BufferTypeOK
<1>4. Precision \subseteq Int
  BY BufferAssumption DEF Precision, Original, Fixed
<1>5. [distance |-> distance, precision |-> p] # NoGeometry
  BY <1>4, BufferAssumption DEF BufferTypeOK
<1> QED BY <1>2, <1>3, <1>5 DEF Tried, BufferTypeOK

(* A call that comes back as it should keeps what is known of all calls.    *)
LEMMA CallAdded ==
  ASSUME BufferIInv,
         NEW c \in BufferCall,
         buffers' = Append(buffers, c),
         Thrown(c),
         Served(c) => Finest(c) \/ Stale(c, Len(buffers))
  PROVE  /\ buffers' \in Seq(BufferCall)
         /\ Len(buffers') = Len(buffers) + 1
         /\ buffers'[Len(buffers) + 1] = c
         /\ \A j \in 1..Len(buffers) : buffers'[j] = buffers[j]
         /\ ThrowsAfterAllTries'
         /\ FinestThatServes'
<1>1. buffers \in Seq(BufferCall)
  BY DEF BufferIInv, BufferTypeOK
<1>2. /\ buffers' \in Seq(BufferCall)
      /\ Len(buffers') = Len(buffers) + 1
      /\ buffers'[Len(buffers) + 1] = c
      /\ \A j \in 1..Len(buffers) : buffers'[j] = buffers[j]
      /\ DOMAIN buffers = 1..Len(buffers) /\ DOMAIN buffers' = 1..Len(buffers) + 1
      /\ Len(buffers) \in Nat
  BY <1>1
<1>3. ThrowsAfterAllTries'
  <2> SUFFICES ASSUME NEW k \in 1..Len(buffers) + 1 PROVE Thrown(buffers'[k])
    BY <1>2 DEF ThrowsAfterAllTries, Thrown, Served
  <2>1. CASE k = Len(buffers) + 1
    BY <2>1, <1>2
  <2>2. CASE k \in 1..Len(buffers)
    BY <2>2, <1>2 DEF BufferIInv, ThrowsAfterAllTries, Thrown
  <2> QED BY <2>1, <2>2, <1>2
<1>4. FinestThatServes'
  <2> SUFFICES ASSUME NEW k \in 1..Len(buffers) + 1, Served(buffers'[k])
               PROVE  \/ Finest(buffers'[k])
                      \/ /\ Len(buffers'[k].tries) = 1 /\ buffers'[k].tries[1].outcome = "topology"
                         /\ \E j \in 1..k - 1 : Served(buffers'[j]) /\ buffers'[j].returned = buffers'[k].returned
    BY <1>2 DEF FinestThatServes, Finest, Served
  <2>1. CASE k = Len(buffers) + 1
    BY <2>1, <1>2 DEF Stale
  <2>2. CASE k \in 1..Len(buffers)
    <3>1. \/ Finest(buffers[k])
          \/ /\ Len(buffers[k].tries) = 1 /\ buffers[k].tries[1].outcome = "topology"
             /\ \E j \in 1..k - 1 : Served(buffers[j]) /\ buffers[j].returned = buffers[k].returned
      BY <2>2, <1>2 DEF BufferIInv, FinestThatServes, Finest
    <3>2. \A j \in 1..k - 1 : buffers'[j] = buffers[j]
      BY <2>2, <1>2
    <3> QED BY <3>1, <3>2, <2>2, <1>2
  <2> QED BY <2>1, <2>2, <1>2
<1> QED BY <1>2, <1>3, <1>4

(* What the step that ends a call has to show.                              *)
LEMMA CallEnds ==
  ASSUME BufferIInv,
         NEW c \in BufferCall,
         buffers' = Append(buffers, c),
         trying' = "no", precDigits' \in Int, UNCHANGED <<object, distance>>,
         tries' \in Seq(Try),
         resultGeometry' \in Geom \cup {NoGeometry},
         resultGeometry' = c.returned \/ resultGeometry' = resultGeometry,
         Thrown(c),
         Served(c) => Finest(c) \/ Stale(c, Len(buffers))
  PROVE  BufferIInv'
<1>1. /\ buffers' \in Seq(BufferCall)
      /\ Len(buffers') = Len(buffers) + 1
      /\ buffers'[Len(buffers) + 1] = c
      /\ \A j \in 1..Len(buffers) : buffers'[j] = buffers[j]
      /\ ThrowsAfterAllTries'
      /\ FinestThatServes'
      /\ Len(buffers) \in Nat
  <2>1. Len(buffers) \in Nat
    BY DEF BufferIInv, BufferTypeOK
  <2> QED BY CallAdded, <2>1
<1>2. BufferTypeOK'
  BY <1>1 DEF BufferIInv, BufferTypeOK
<1>3. TriesSoFar'
  BY DEF TriesSoFar
<1>4. HandedOut'
  <2> SUFFICES ASSUME resultGeometry' # NoGeometry
               PROVE  \E j \in 1..Len(buffers') :
                        Served(buffers'[j]) /\ buffers'[j].returned = resultGeometry'
    BY DEF HandedOut, Served
  <2>1. CASE resultGeometry' = c.returned
    <3>1. Len(buffers) + 1 \in 1..Len(buffers')
      BY <1>1
    <3> QED BY <3>1, <2>1, <1>1 DEF Served
  <2>2. CASE resultGeometry' = resultGeometry
    <3>1. PICK j \in 1..Len(buffers) : Served(buffers[j]) /\ buffers[j].returned = resultGeometry
      BY <2>2 DEF BufferIInv, HandedOut
    <3>2. j \in 1..Len(buffers')
      BY <1>1
    <3> QED BY <3>1, <3>2, <1>1, <2>2 DEF Served
  <2> QED BY <2>1, <2>2
<1> QED BY <1>1, <1>2, <1>3, <1>4 DEF BufferIInv

(* A call that throws: no try of it gave a geometry, and the last one was    *)
(* the last there is, or met another exception.                             *)
LEMMA ThrowEnds ==
  ASSUME BufferIInv, NEW p \in Precision, NEW o \in Outcome \ {"geometry"},
         Tried(p, o), Throw, precDigits' \in Int, UNCHANGED <<object, distance>>,
         AllFailed,
         o = "other" \/ p \in {0, Fixed}
  PROVE  BufferIInv'
<1> DEFINE c == [distance |-> distance, tries |-> tries', returned |-> NoGeometry]
<1>1. /\ tries' \in Seq(Try)
      /\ Len(tries') = Len(tries) + 1
      /\ tries'[Len(tries) + 1] = [precision |-> p, outcome |-> o]
      /\ \A j \in 1..Len(tries) : tries'[j] = tries[j]
      /\ resultGeometry' = resultGeometry
      /\ resultGeometry' \in Geom \cup {NoGeometry}
      /\ Len(tries) \in Nat
  <2>1. Len(tries) \in Nat
    BY DEF BufferIInv, BufferTypeOK
  <2> QED BY TriedFacts, <2>1 DEF BufferIInv
<1>2. c \in BufferCall
  BY <1>1 DEF BufferCall, BufferIInv, BufferTypeOK
<1>3. Thrown(c)
  <2>1. Last(tries') = [precision |-> p, outcome |-> o]
    BY <1>1 DEF Last
  <2>2. \A j \in 1..Len(tries') : tries'[j].outcome # "geometry"
    BY <1>1 DEF AllFailed
  <2>3. \A t \in Range(tries') : t.outcome # "geometry"
    <3>1. DOMAIN tries' = 1..Len(tries')
      BY <1>1
    <3> QED BY <2>2, <3>1 DEF Range
  <2> QED BY <2>1, <2>3 DEF Thrown
<1>4. ~Served(c)
  BY DEF Served
<1>5. buffers' = Append(buffers, c) /\ trying' = "no"
  BY DEF Throw
<1> HIDE DEF c
<1> QED BY CallEnds, <1>1, <1>2, <1>3, <1>4, <1>5

(* A call that returns the geometry of its last try.                        *)
LEMMA ReturnEnds ==
  ASSUME BufferIInv, NEW p \in Precision, Tried(p, "geometry"), Return,
         precDigits' \in Int, UNCHANGED <<object, distance>>,
         AllFailed,
         p >= 0 => Len(tries) = 1 + MAX_PRECISION_DIGITS - p
  PROVE  BufferIInv'
<1> DEFINE c == [distance |-> distance, tries |-> tries', returned |-> resultGeometry']
<1>1. "geometry" \in Outcome
  BY DEF Outcome
<1>2. /\ tries' \in Seq(Try)
      /\ Len(tries') = Len(tries) + 1
      /\ tries'[Len(tries) + 1] = [precision |-> p, outcome |-> "geometry"]
      /\ \A j \in 1..Len(tries) : tries'[j] = tries[j]
      /\ resultGeometry' \in Geom \cup {NoGeometry}
      /\ resultGeometry' = [distance |-> distance, precision |-> p]
      /\ resultGeometry' # NoGeometry
      /\ Len(tries) \in Nat
  <2>1. Len(tries) \in Nat
    BY DEF BufferIInv, BufferTypeOK
  <2> QED BY TriedFacts, <1>1, <2>1 DEF BufferIInv
<1>3. c \in BufferCall
  BY <1>2 DEF BufferCall, BufferIInv, BufferTypeOK
<1>4. Thrown(c)
  BY <1>2 DEF Thrown, Served
<1>5. Finest(c)
  <2>1. c.returned = [distance |-> c.distance, precision |-> c.tries[Len(c.tries)].precision]
    BY <1>2
  <2>2. \A j \in 1..Len(c.tries) - 1 : c.tries[j].outcome = "topology"
    BY <1>2 DEF AllFailed
  <2>3. c.returned.precision >= 0 =>
          Len(c.tries) = 2 + MAX_PRECISION_DIGITS - c.returned.precision
    <3>1. p \in Int
      BY BufferAssumption DEF Precision, Original, Fixed
    <3> QED BY <1>2, <3>1, BufferAssumption
  <2> QED BY <2>1, <2>2, <2>3, <1>2 DEF Finest
<1>6. buffers' = Append(buffers, c) /\ trying' = "no" /\ resultGeometry' = c.returned
  BY DEF Return
<1> HIDE DEF c
<1> QED BY CallEnds, <1>2, <1>3, <1>4, <1>5, <1>6

-----------------------------------------------------------------------------
LEMMA OriginalStep ==
  ASSUME BufferIInv, NEW o \in Outcome, BufferOriginalPrecision(o)
  PROVE  BufferIInv'
<1>1. /\ trying = "original" /\ Len(tries) = 0 /\ AllFailed
      /\ Original \in Precision
      /\ precDigits' = MAX_PRECISION_DIGITS /\ precDigits' \in Int
      /\ UNCHANGED <<object, distance>>
      /\ Tried(Original, o)
  BY BufferAssumption
  DEF BufferIInv, TriesSoFar, AllFailed, BufferOriginalPrecision, Precision
<1>2. /\ tries' \in Seq(Try) /\ Len(tries') = 1
      /\ tries'[1] = [precision |-> Original, outcome |-> o]
      /\ resultGeometry' \in Geom \cup {NoGeometry}
      /\ o # "geometry" => resultGeometry' = resultGeometry
      /\ o = "geometry" => resultGeometry' # NoGeometry
  BY <1>1, TriedFacts DEF BufferIInv
<1>3. CASE o = "geometry"
  <2>1. Return
    BY <1>2, <1>3 DEF BufferOriginalPrecision
  <2>2. ~(Original >= 0)
    BY DEF Original
  <2> QED BY <1>1, <1>3, <2>1, <2>2, ReturnEnds
<1>4. CASE o = "other"
  <2>1. Throw
    BY <1>4 DEF BufferOriginalPrecision
  <2> QED BY <1>1, <1>4, <2>1, ThrowEnds
<1>5. CASE o = "topology" /\ resultGeometry # NoGeometry
  <2> DEFINE c == [distance |-> distance, tries |-> tries', returned |-> resultGeometry']
  <2>1. resultGeometry' = resultGeometry
    BY <1>2, <1>5
  <2>2. Return
    BY <1>5, <2>1 DEF BufferOriginalPrecision
  <2>3. c \in BufferCall
    BY <1>2 DEF BufferCall, BufferIInv, BufferTypeOK
  <2>4. Thrown(c)
    BY <1>5, <2>1 DEF Thrown, Served
  <2>5. Stale(c, Len(buffers))
    BY <1>2, <1>5, <2>1 DEF Stale, BufferIInv, HandedOut
  <2>6. buffers' = Append(buffers, c) /\ trying' = "no" /\ resultGeometry' = c.returned
    BY <2>2 DEF Return
  <2> HIDE DEF c
  <2> QED BY CallEnds, <1>1, <1>2, <2>3, <2>4, <2>5, <2>6
<1>6. CASE o = "topology" /\ resultGeometry = NoGeometry
  <2>1. /\ resultGeometry' = NoGeometry
        /\ trying' \in {"fixed", "reduced"}
        /\ UNCHANGED buffers
    BY <1>2, <1>6 DEF BufferOriginalPrecision
  <2>2. AllFailed'
    BY <1>2, <1>6 DEF AllFailed
  <2>3. TriesSoFar'
    BY <1>1, <1>2, <2>1, <2>2, BufferAssumption DEF TriesSoFar
  <2>4. BufferTypeOK'
    BY <1>1, <1>2, <2>1, BufferAssumption DEF BufferIInv, BufferTypeOK
  <2>5. HandedOut' /\ ThrowsAfterAllTries' /\ FinestThatServes'
    BY <2>1 DEF BufferIInv, HandedOut, ThrowsAfterAllTries, FinestThatServes, Served
  <2> QED BY <2>3, <2>4, <2>5 DEF BufferIInv
<1> QED BY <1>3, <1>4, <1>5, <1>6 DEF Outcome

LEMMA FixedStep ==
  ASSUME BufferIInv, NEW o \in Outcome, BufferFixedPrecision(o)
  PROVE  BufferIInv'
<1>1. /\ AllFailed /\ Tried(Fixed, o)
      /\ precDigits' \in Int /\ UNCHANGED <<object, distance>>
      /\ Fixed \in Precision /\ ~(Fixed >= 0)
  BY DEF BufferIInv, BufferTypeOK, TriesSoFar, BufferFixedPrecision, Precision, Fixed
<1>2. CASE o = "geometry"
  <2>1. Return
    BY <1>2 DEF BufferFixedPrecision
  <2> QED BY <1>1, <1>2, <2>1, ReturnEnds
<1>3. CASE o # "geometry"
  <2>1. Throw
    BY <1>3 DEF BufferFixedPrecision
  <2> QED BY <1>1, <1>3, <2>1, ThrowEnds
<1> QED BY <1>2, <1>3

LEMMA ReducedStep ==
  ASSUME BufferIInv, NEW o \in Outcome, BufferReducedPrecision(o)
  PROVE  BufferIInv'
<1>1. /\ trying = "reduced" /\ AllFailed /\ Tried(precDigits, o)
      /\ precDigits \in 0..MAX_PRECISION_DIGITS /\ precDigits \in Precision
      /\ precDigits' = precDigits - 1 /\ precDigits' \in Int
      /\ UNCHANGED <<object, distance>>
      /\ Len(tries) = 1 + MAX_PRECISION_DIGITS - precDigits
      /\ resultGeometry = NoGeometry
  BY BufferAssumption DEF BufferIInv, BufferTypeOK, TriesSoFar, BufferReducedPrecision, Precision
<1>2. CASE o = "geometry"
  <2>1. Return
    BY <1>2 DEF BufferReducedPrecision
  <2> QED BY <1>1, <1>2, <2>1, ReturnEnds
<1>3. CASE o = "other" \/ (o = "topology" /\ precDigits = 0)
  <2>1. Throw
    BY <1>1, <1>3 DEF BufferReducedPrecision
  <2> QED BY <1>1, <1>3, <2>1, ThrowEnds
<1>4. CASE o = "topology" /\ precDigits # 0
  <2>1. UNCHANGED <<trying, buffers>>
    BY <1>1, <1>4 DEF BufferReducedPrecision
  <2>2. /\ tries' \in Seq(Try) /\ Len(tries') = Len(tries) + 1
        /\ tries'[Len(tries) + 1] = [precision |-> precDigits, outcome |-> o]
        /\ \A j \in 1..Len(tries) : tries'[j] = tries[j]
        /\ resultGeometry' = NoGeometry
        /\ Len(tries) \in Nat
    BY <1>1, <1>4, TriedFacts DEF BufferIInv, BufferTypeOK
  <2>3. AllFailed'
    BY <1>1, <1>4, <2>2 DEF AllFailed
  <2>4. precDigits' \in 0..MAX_PRECISION_DIGITS
    BY <1>1, <1>4, BufferAssumption
  <2>5. TriesSoFar'
    BY <1>1, <2>1, <2>2, <2>3, <2>4, BufferAssumption DEF TriesSoFar
  <2>6. BufferTypeOK'
    BY <1>1, <2>1, <2>2, <2>4 DEF BufferIInv, BufferTypeOK
  <2>7. HandedOut' /\ ThrowsAfterAllTries' /\ FinestThatServes'
    BY <2>1, <2>2 DEF BufferIInv, HandedOut, ThrowsAfterAllTries, FinestThatServes, Served
  <2> QED BY <2>5, <2>6, <2>7 DEF BufferIInv
<1> QED BY <1>2, <1>3, <1>4 DEF Outcome

(* Every step of BufferOp keeps the invariant.                              *)
LEMMA NextBuffer == BufferIInv /\ [BufferNext]_bufferVars => BufferIInv'
<1> SUFFICES ASSUME BufferIInv, [BufferNext]_bufferVars PROVE BufferIInv'
  OBVIOUS
<1>1. ASSUME NEW model \in {"FLOATING", "FIXED"}, CreateBufferOp(model) PROVE BufferIInv'
  BY <1>1
  DEF CreateBufferOp, BufferIInv, BufferTypeOK, TriesSoFar, AllFailed, HandedOut,
      ThrowsAfterAllTries, FinestThatServes, Served
<1>2. ASSUME NEW d \in Distances, GetResultGeometry(d) PROVE BufferIInv'
  BY <1>2
  DEF GetResultGeometry, BufferIInv, BufferTypeOK, TriesSoFar, HandedOut,
      ThrowsAfterAllTries, FinestThatServes, Served
<1>3. CASE UNCHANGED bufferVars
  BY <1>3
  DEF bufferVars, BufferIInv, BufferTypeOK, TriesSoFar, AllFailed, HandedOut,
      ThrowsAfterAllTries, FinestThatServes, Served
<1> QED BY <1>1, <1>2, <1>3, OriginalStep, FixedStep, ReducedStep DEF BufferNext

LEMMA BufferInvariant == BufferSpec => []BufferIInv
<1>1. BufferInit => BufferIInv
  BY InitBuffer
<1>2. BufferIInv /\ [BufferNext]_bufferVars => BufferIInv'
  BY NextBuffer
<1> QED BY <1>1, <1>2, PTL DEF BufferSpec

(* BufferOp throws only when every precision it knows has failed, or at     *)
(* another exception than one about topology; and a geometry it returns has *)
(* the finest precision that served in the call, or was left by an earlier  *)
(* call when the first try of this one failed (BufferOp::computeGeometry).  *)
THEOREM BufferServesWell == BufferSpec => []BufferServes
<1>1. BufferIInv => BufferServes
  BY DEF BufferIInv, BufferServes
<1> QED BY <1>1, BufferInvariant, PTL

-----------------------------------------------------------------------------
(* Repeated noding cannot go on for ever, for every MAX_ITER and every      *)
(* bound on the intersections a round finds.                                *)

(* Beyond MAX_ITER rounds, what the next rounds may find falls with each.   *)
Spent ==
  noding = "running" /\ iterationCount >= MAX_ITER =>
    /\ lastNodesCreated >= 1
    /\ iterationCount + lastNodesCreated <= MAX_ITER + MaxNodes

NotBegun == noding = "no" => iterationCount = 0 /\ lastNodesCreated = -1

NoderIInv == NoderTypeOK /\ NotBegun /\ Spent /\ RoundsBounded

LEMMA InitNoder == NoderInit => NoderIInv
  BY NoderAssumption
  DEF NoderInit, NoderIInv, NoderTypeOK, NotBegun, Spent, RoundsBounded

(* The invariant is kept by every action of the noder.                      *)
LEMMA NextNoder == NoderIInv /\ [NoderNext]_noderVars => NoderIInv'
<1> SUFFICES ASSUME NoderIInv, [NoderNext]_noderVars PROVE NoderIInv'
  OBVIOUS
<1> USE NoderAssumption DEF NoderIInv, NoderTypeOK, NotBegun, Spent, RoundsBounded
<1>1. CASE ComputeNodes
  BY <1>1 DEF ComputeNodes
<1>2. ASSUME NEW n \in 0..MaxNodes, Node(n) PROVE NoderIInv'
  <2>1. iterationCount >= MAX_ITER => n < lastNodesCreated
    BY <1>2 DEF Node, NotDeclining
  <2>2. NoderTypeOK' /\ NotBegun'
    BY <1>2 DEF Node
  <2>3. Spent'
    BY <1>2, <2>1 DEF Node
  <2>4. RoundsBounded'
    BY <1>2, <2>1 DEF Node
  <2> QED BY <2>2, <2>3, <2>4
<1>3. ASSUME NEW n \in 0..MaxNodes, GiveUp(n) PROVE NoderIInv'
  <2>1. iterationCount >= MAX_ITER /\ lastNodesCreated >= 1
    BY <1>3 DEF GiveUp, NotDeclining
  <2> QED BY <1>3, <2>1 DEF GiveUp
<1>4. CASE UNCHANGED noderVars
  BY <1>4 DEF noderVars
<1> QED BY <1>1, <1>2, <1>3, <1>4 DEF NoderNext, Round

(* Noding takes at most MAX_ITER + MaxNodes rounds, however the numbers of  *)
(* intersections come out (IteratedNoder::computeNodes).                    *)
THEOREM RoundsAreBounded == NoderSpec => []RoundsBounded
<1>1. NoderInit => NoderIInv
  BY InitNoder
<1>2. NoderIInv /\ [NoderNext]_noderVars => NoderIInv'
  BY NextNoder
<1>3. NoderIInv => RoundsBounded
  BY DEF NoderIInv
<1> QED BY <1>1, <1>2, <1>3, PTL DEF NoderSpec

-----------------------------------------------------------------------------
(* The connected parts of finitely many cells                               *)

FiniteCells(A) == A \in SUBSET UnitCells /\ IsFiniteSet(A)

(* X has, with a cell, each cell of A beside it.                            *)
Closed(X, A) == X \subseteq A /\ \A e \in X, d \in A : d \in Neighbours(e) => d \in X

LEMMA BesideIsMutual ==
  ASSUME NEW c \in UnitCells, NEW d \in UnitCells
  PROVE  d \in Neighbours(c) <=> c \in Neighbours(d)
<1>1. /\ c[1] \in Int /\ c[2] \in Int /\ c = <<c[1], c[2]>>
      /\ d[1] \in Int /\ d[2] \in Int /\ d = <<d[1], d[2]>>
  BY DEF UnitCells
<1> DEFINE Side(p, q) == \/ q[1] = p[1] - 1 /\ q[2] = p[2]
                         \/ q[1] = p[1] + 1 /\ q[2] = p[2]
                         \/ q[1] = p[1] /\ q[2] = p[2] - 1
                         \/ q[1] = p[1] /\ q[2] = p[2] + 1
<1>2. d \in Neighbours(c) <=> Side(c, d)
  BY <1>1 DEF Neighbours
<1>3. c \in Neighbours(d) <=> Side(d, c)
  BY <1>1 DEF Neighbours
<1>4. Side(c, d) <=> Side(d, c)
  BY <1>1
<1> QED BY <1>2, <1>3, <1>4

LEMMA PartUnfold ==
  ASSUME NEW A, IsFiniteSet(A), NEW c \in A
  PROVE  \E f \in [0..Cardinality(A) -> SUBSET A] :
           /\ f[0] = {c}
           /\ \A k \in 1..Cardinality(A) : f[k] = Grow(f[k - 1], A)
           /\ Part(c, A) = f[Cardinality(A)]
<1> DEFINE n == Cardinality(A)
           S == SUBSET A
           Def(f) == f = [k \in 0..n |-> IF k = 0 THEN {c} ELSE Grow(f[k - 1], A)]
           step == [x \in S \X (1..n) |-> Grow(x[1], A)]
           F == CHOOSE f : Def(f)
<1>1. n \in Nat
  BY FS_CardinalityType
<1>2. {c} \in S /\ \A P \in S : Grow(P, A) \in S
  BY DEF Grow
<1>3. Part(c, A) = F[n]
  BY DEF Part
<1> HIDE DEF n, S
<1>4. PICK f : Iterates(f, {c}, step, S, n)
  <2>1. Steps(step, S, n)
    BY <1>2 DEF Steps
  <2> HIDE DEF step
  <2> QED BY <1>1, <1>2, <2>1, IterationExists
<1>5. Def(f)
  <2>1. f \in [0..n -> S] /\ f[0] = {c} /\ \A k \in 1..n : f[k] = step[<<f[k - 1], k>>]
    BY <1>4 DEF Iterates
  <2>2. \A k \in 1..n : k - 1 \in 0..n
    BY <1>1
  <2>3. \A k \in 1..n : f[k] = Grow(f[k - 1], A)
    BY <2>1, <2>2
  <2>4. \A k \in 0..n : f[k] = IF k = 0 THEN {c} ELSE Grow(f[k - 1], A)
    BY <1>1, <2>1, <2>3
  <2>5. f = [k \in 0..n |-> f[k]]
    BY <2>1
  <2> QED BY <2>4, <2>5
<1>6. Def(F)
  <2> HIDE DEF Def, step
  <2> QED BY <1>5
<1> HIDE DEF F
<1>7. F[0] = {c} /\ \A k \in 1..n : F[k] = Grow(F[k - 1], A)
  <2>1. 0 \in 0..n /\ \A k \in 1..n : k \in 0..n /\ k # 0
    BY <1>1
  <2> QED BY <1>6, <2>1
<1>8. \A k \in 0..n : F[k] \in S
  <2>1. \A k \in 1..n : F[k - 1] \in S => F[k] \in S
    BY <1>2, <1>7
  <2> HIDE DEF Def
  <2> QED BY <1>1, <1>2, <1>7, <2>1, StaysIn
<1>9. F \in [0..n -> S]
  <2>1. F = [k \in 0..n |-> F[k]]
    BY <1>6
  <2> HIDE DEF Def
  <2> QED BY <1>8, <2>1
<1> QED BY <1>3, <1>7, <1>9 DEF n, S

(* A part is the least closed set with its cell.                            *)
LEMMA PartIs ==
  ASSUME NEW A, FiniteCells(A), NEW c \in A
  PROVE  /\ c \in Part(c, A)
         /\ Closed(Part(c, A), A)
         /\ \A X : Closed(X, A) /\ c \in X => Part(c, A) \subseteq X
<1> DEFINE n == Cardinality(A)
<1>1. IsFiniteSet(A) /\ A \in SUBSET UnitCells /\ n \in Nat
  BY FS_CardinalityType DEF FiniteCells
<1>2. PICK f \in [0..n -> SUBSET A] :
        /\ f[0] = {c}
        /\ \A k \in 1..n : f[k] = Grow(f[k - 1], A)
        /\ Part(c, A) = f[n]
  BY <1>1, PartUnfold
<1>3. \A P \in SUBSET A : P \subseteq Grow(P, A) /\ Grow(P, A) \in SUBSET A
  BY DEF Grow
<1> HIDE DEF n
<1>4. \A k \in 1..n : k - 1 \in 0..n /\ f[k - 1] \in SUBSET A
  BY <1>1, <1>2
<1>5. c \in f[n]
  <2> DEFINE S == {P \in SUBSET A : c \in P}
  <2>1. f[0] \in S
    BY <1>2
  <2>2. \A k \in 1..n : f[k - 1] \in S => f[k] \in S
    BY <1>2, <1>3
  <2> HIDE DEF S
  <2>3. \A k \in 0..n : f[k] \in S
    BY <1>1, <2>1, <2>2, StaysIn
  <2> QED BY <1>1, <2>3 DEF S
<1>6. ASSUME NEW X, Closed(X, A), c \in X PROVE f[n] \subseteq X
  <2> DEFINE S == {P \in SUBSET A : P \subseteq X}
  <2>1. f[0] \in S
    BY <1>2, <1>6
  <2>2. \A P \in S : Grow(P, A) \in S
    <3> SUFFICES ASSUME NEW P \in SUBSET A, P \subseteq X, NEW d \in A, NEW e \in P, e \in Neighbours(d)
                 PROVE  d \in X
      BY DEF Grow
    <3>1. d \in Neighbours(e)
      BY <1>1, BesideIsMutual
    <3> QED BY <1>6, <3>1 DEF Closed
  <2>3. \A k \in 1..n : f[k - 1] \in S => f[k] \in S
    BY <1>2, <2>2
  <2> HIDE DEF S
  <2>4. \A k \in 0..n : f[k] \in S
    BY <1>1, <2>1, <2>3, StaysIn
  <2> QED BY <1>1, <2>4 DEF S
<1>7. Grow(f[n], A) = f[n]
  <2> DEFINE T == {k \in 0..n : Grow(f[k], A) = f[k] \/ Cardinality(f[k]) >= k + 1}
  <2>1. \A k \in 0..n : f[k] \in SUBSET A /\ IsFiniteSet(f[k]) /\ Cardinality(f[k]) \in Nat /\ Cardinality(f[k]) <= n
    <3> SUFFICES ASSUME NEW k \in 0..n
                 PROVE f[k] \in SUBSET A /\ IsFiniteSet(f[k]) /\ Cardinality(f[k]) \in Nat /\ Cardinality(f[k]) <= n
      OBVIOUS
    <3>1. f[k] \in SUBSET A
      BY <1>2
    <3>2. IsFiniteSet(f[k]) /\ Cardinality(f[k]) <= n
      BY <1>1, <3>1, FS_Subset DEF n
    <3> QED BY <3>1, <3>2, FS_CardinalityType
  <2>2. 0 \in T
    <3>1. Cardinality(f[0]) = 1
      BY <1>2, FS_Singleton
    <3> QED BY <1>1, <3>1
  <2>3. ASSUME NEW k \in 0..n - 1, k \in T PROVE k + 1 \in T
    <3>1. k + 1 \in 1..n /\ (k + 1) - 1 = k /\ k + 1 \in 0..n /\ k \in 0..n
      BY <1>1
    <3>2. f[k + 1] = Grow(f[k], A)
      BY <1>2, <3>1
    <3>3. CASE Grow(f[k], A) = f[k]
      BY <3>1, <3>2, <3>3
    <3>4. CASE Grow(f[k], A) # f[k]
      <4>1. f[k] \in SUBSET f[k + 1] /\ f[k] # f[k + 1]
        BY <1>3, <2>1, <3>1, <3>2, <3>4
      <4>2. Cardinality(f[k]) <= Cardinality(f[k + 1]) /\ Cardinality(f[k]) # Cardinality(f[k + 1])
        BY <2>1, <3>1, <4>1, FS_Subset
      <4>3. Cardinality(f[k]) >= k + 1
        BY <2>3, <3>4
      <4>4. Cardinality(f[k]) \in Nat /\ Cardinality(f[k + 1]) \in Nat
        BY <2>1, <3>1
      <4> QED BY <3>1, <4>2, <4>3, <4>4
    <3> QED BY <3>3, <3>4
  <2> HIDE DEF T
  <2>4. 0..n \subseteq T
    <3>1. 0 \in Int /\ n \in Int /\ 0 <= n
      BY <1>1
    <3>2. \A k \in 0..n - 1 : k \in T => k + 1 \in T
      BY <2>3
    <3> QED BY <2>2, <3>1, <3>2, IntervalInduction
  <2>5. n \in 0..n
    BY <1>1
  <2>6. Cardinality(f[n]) \in Nat /\ Cardinality(f[n]) <= n
    BY <2>1, <2>5
  <2> QED BY <1>1, <2>4, <2>5, <2>6 DEF T
<1>8. Closed(f[n], A)
  <2>1. n \in 0..n /\ f[n] \in SUBSET A
    BY <1>1, <1>2
  <2>2. ASSUME NEW e \in f[n], NEW d \in A, d \in Neighbours(e) PROVE d \in f[n]
    <3>1. e \in Neighbours(d)
      BY <1>1, <2>1, <2>2, BesideIsMutual
    <3> QED BY <1>7, <2>2, <3>1 DEF Grow
  <2> QED BY <2>1, <2>2 DEF Closed
<1> QED BY <1>2, <1>5, <1>6, <1>8

LEMMA PartInClosed ==
  ASSUME NEW A, FiniteCells(A), NEW P, Closed(P, A), NEW c \in P
  PROVE  Part(c, A) = Part(c, P)
<1>1. P \subseteq A /\ c \in A /\ FiniteCells(P)
  BY FS_Subset DEF Closed, FiniteCells
<1>2. /\ c \in Part(c, A) /\ Closed(Part(c, A), A)
      /\ \A X : Closed(X, A) /\ c \in X => Part(c, A) \subseteq X
  BY <1>1, PartIs
<1>3. /\ c \in Part(c, P) /\ Closed(Part(c, P), P)
      /\ \A X : Closed(X, P) /\ c \in X => Part(c, P) \subseteq X
  BY <1>1, PartIs
<1>4. Closed(Part(c, P), A)
  BY <1>1, <1>3 DEF Closed
<1>5. Part(c, A) \subseteq P
  BY <1>2
<1>6. Closed(Part(c, A), P)
  BY <1>1, <1>2, <1>5 DEF Closed
<1>7. Part(c, A) \subseteq Part(c, P)
  BY <1>2, <1>3, <1>4
<1>8. Part(c, P) \subseteq Part(c, A)
  BY <1>2, <1>3, <1>6
<1> QED BY <1>7, <1>8

(* Closed sets share no part: their parts are those of both together.       *)
LEMMA PartsOfBoth ==
  ASSUME NEW P, NEW Q, FiniteCells(P \cup Q), Closed(P, P \cup Q), Closed(Q, P \cup Q)
  PROVE  Parts(P \cup Q) = Parts(P) \cup Parts(Q)
<1>1. \A c \in P : Part(c, P \cup Q) = Part(c, P)
  BY PartInClosed
<1>2. \A c \in Q : Part(c, P \cup Q) = Part(c, Q)
  BY PartInClosed
<1> QED BY <1>1, <1>2 DEF Parts

(* Two parts with a common cell are one.                                    *)
LEMMA PartOfItsCells ==
  ASSUME NEW A, FiniteCells(A), NEW c \in A, NEW d \in Part(c, A)
  PROVE  d \in A /\ Part(d, A) = Part(c, A)
<1>1. /\ c \in Part(c, A) /\ Closed(Part(c, A), A)
      /\ \A X : Closed(X, A) /\ c \in X => Part(c, A) \subseteq X
  BY PartIs
<1>2. d \in A
  BY <1>1 DEF Closed
<1>3. /\ d \in Part(d, A) /\ Closed(Part(d, A), A)
      /\ \A X : Closed(X, A) /\ d \in X => Part(d, A) \subseteq X
  BY <1>2, PartIs
<1>4. ASSUME c \notin Part(d, A) PROVE FALSE
  <2> DEFINE X == Part(c, A) \ Part(d, A)
  <2>1. ASSUME NEW e \in X, NEW f \in A, f \in Neighbours(e) PROVE f \in X
    <3>1. f \in Part(c, A) /\ e \in A
      BY <1>1, <2>1 DEF Closed
    <3>2. e \in Neighbours(f)
      BY <2>1, <3>1, BesideIsMutual DEF FiniteCells
    <3>3. f \notin Part(d, A)
      BY <1>3, <3>1, <3>2 DEF Closed
    <3> QED BY <3>1, <3>3
  <2>2. Closed(X, A)
    BY <1>1, <2>1 DEF Closed
  <2>3. Part(c, A) \subseteq X
    BY <1>1, <1>4, <2>2
  <2> QED BY <1>3, <2>3
<1> QED BY <1>1, <1>2, <1>3, <1>4

(* Some parts of A are the parts of their cells, and these are closed in A. *)
LEMMA SomeParts ==
  ASSUME NEW A, FiniteCells(A), NEW G \in SUBSET Parts(A)
  PROVE  Closed(Cells(G), A) /\ Parts(Cells(G)) = G /\ FiniteCells(Cells(G))
<1>1. ASSUME NEW g \in G, NEW c \in g PROVE c \in A /\ Part(c, A) = g
  <2>1. PICK a \in A : g = Part(a, A)
    BY DEF Parts
  <2> QED BY <2>1, <1>1, PartOfItsCells
<1>2. ASSUME NEW g \in G PROVE Closed(g, A) /\ g # {}
  <2>1. PICK a \in A : g = Part(a, A)
    BY DEF Parts
  <2> QED BY <2>1, PartIs
<1>3. Closed(Cells(G), A)
  <2>1. Cells(G) \subseteq A
    BY <1>1 DEF Cells
  <2>2. ASSUME NEW e \in Cells(G), NEW d \in A, d \in Neighbours(e) PROVE d \in Cells(G)
    <3>1. PICK g \in G : e \in g
      BY DEF Cells
    <3>2. d \in g
      BY <1>2, <2>2, <3>1 DEF Closed
    <3> QED BY <3>2 DEF Cells
  <2> QED BY <2>1, <2>2 DEF Closed
<1>4. FiniteCells(Cells(G))
  BY <1>3, FS_Subset DEF Closed, FiniteCells
<1>5. ASSUME NEW c \in Cells(G) PROVE \E g \in G : c \in g /\ Part(c, Cells(G)) = g
  <2>1. PICK g \in G : c \in g
    BY DEF Cells
  <2>2. Part(c, A) = g
    BY <1>1, <2>1
  <2>3. Part(c, A) = Part(c, Cells(G))
    BY <1>3, PartInClosed
  <2> QED BY <2>1, <2>2, <2>3
<1>6. Parts(Cells(G)) \subseteq G
  BY <1>5 DEF Parts
<1>7. ASSUME NEW g \in G PROVE g \in Parts(Cells(G))
  <2>1. PICK c \in g : TRUE
    BY <1>2
  <2>2. c \in Cells(G)
    BY <2>1 DEF Cells
  <2>3. Part(c, A) = g /\ Part(c, A) = Part(c, Cells(G))
    BY <1>1, <1>3, <2>1, <2>2, PartInClosed
  <2> QED BY <2>2, <2>3 DEF Parts
<1> QED BY <1>3, <1>4, <1>6, <1>7

LEMMA CellsOfParts ==
  ASSUME NEW A, FiniteCells(A)
  PROVE  Cells(Parts(A)) = A
<1>1. A \subseteq Cells(Parts(A))
  BY PartIs DEF Parts, Cells
<1>2. Cells(Parts(A)) \subseteq A
  BY PartIs DEF Parts, Cells, Closed
<1> QED BY <1>1, <1>2

-----------------------------------------------------------------------------
(* Envelopes                                                                *)

LEMMA BoundsExist ==
  ASSUME NEW S, S \subseteq Int, IsFiniteSet(S), S # {}
  PROVE  /\ Min(S) \in S /\ \A x \in S : Min(S) <= x
         /\ Max(S) \in S /\ \A x \in S : x <= Max(S)
<1>1. PICK n \in Nat : \E f : f \in Surjection(1..n, S)
  BY FS_NatSurjection DEF ExistsSurjection
<1>2. PICK f : f \in [1..n -> S] /\ \A y \in S : \E k \in 1..n : f[k] = y
  BY <1>1 DEF Surjection
<1> DEFINE T == {k \in 0..n : k = 0 \/ \E a, b \in 1..k : \A j \in 1..k : f[a] <= f[j] /\ f[j] <= f[b]}
<1>3. ASSUME NEW k \in 0..n - 1, k \in T PROVE k + 1 \in T
  <2>1. k \in 0..n /\ k + 1 \in 1..n /\ \A j \in 1..k + 1 : j \in 1..n /\ f[j] \in Int
    <3>1. k \in Nat /\ k + 1 <= n
      BY <1>1
    <3>2. \A j \in 1..n : f[j] \in Int
      BY <1>2
    <3>3. \A j \in 1..k + 1 : j \in 1..n
      BY <1>1, <3>1
    <3> QED BY <1>1, <3>1, <3>2, <3>3
  <2>2. CASE k = 0
    <3>1. 1 \in 1..(k + 1) /\ (\A j \in 1..k + 1 : j = 1) /\ f[1] \in Int
      BY <2>1, <2>2
    <3>2. \A j \in 1..k + 1 : f[1] <= f[j] /\ f[j] <= f[1]
      BY <3>1
    <3>3. k + 1 \in 0..n
      BY <1>1, <2>1
    <3> QED BY <3>1, <3>2, <3>3
  <2>3. CASE k # 0
    <3>1. PICK a, b \in 1..k : \A j \in 1..k : f[a] <= f[j] /\ f[j] <= f[b]
      BY <1>3, <2>3
    <3>2. PICK c \in {a, k + 1} : f[c] <= f[a] /\ f[c] <= f[k + 1]
      BY <2>1
    <3>3. PICK d \in {b, k + 1} : f[b] <= f[d] /\ f[k + 1] <= f[d]
      BY <2>1
    <3>4. \A j \in 1..k + 1 : j \in 1..k \/ j = k + 1
      BY <2>1
    <3>5. c \in 1..k + 1 /\ d \in 1..k + 1 /\ a \in 1..k + 1 /\ b \in 1..k + 1
      BY <2>1
    <3>6. ASSUME NEW j \in 1..k + 1 PROVE f[c] <= f[j] /\ f[j] <= f[d]
      BY <2>1, <3>1, <3>2, <3>3, <3>4, <3>5
    <3> QED BY <2>1, <3>5, <3>6
  <2> QED BY <2>2, <2>3
<1>4. n \in T
  <2>1. 0 \in T /\ 0 \in Int /\ n \in Int /\ 0 <= n
    BY <1>1
  <2>2. \A k \in 0..n - 1 : k \in T => k + 1 \in T
    BY <1>3
  <2> HIDE DEF T
  <2>3. 0..n \subseteq T
    BY <2>1, <2>2, IntervalInduction
  <2> QED BY <2>1, <2>3
<1>5. n # 0
  <2>1. PICK y \in S : TRUE
    OBVIOUS
  <2>2. PICK k \in 1..n : f[k] = y
    BY <1>2
  <2> QED BY <1>1, <2>2
<1>6. PICK a, b \in 1..n : \A j \in 1..n : f[a] <= f[j] /\ f[j] <= f[b]
  BY <1>4, <1>5
<1>7. f[a] \in S /\ f[b] \in S /\ \A x \in S : f[a] <= x /\ x <= f[b]
  BY <1>2, <1>6
<1> QED BY <1>7 DEF Min, Max

LEMMA ImageIsFinite ==
  ASSUME NEW P, IsFiniteSet(P), NEW f \in [P -> Int]
  PROVE  IsFiniteSet({f[d] : d \in P})
<1> DEFINE S == {f[d] : d \in P}
<1>1. PICK n \in Nat : \E g : g \in Surjection(1..n, P)
  BY FS_NatSurjection DEF ExistsSurjection
<1>2. PICK g : g \in [1..n -> P] /\ \A y \in P : \E k \in 1..n : g[k] = y
  BY <1>1 DEF Surjection
<1> DEFINE h == [k \in 1..n |-> f[g[k]]]
<1>3. h \in [1..n -> S] /\ \A y \in S : \E k \in 1..n : h[k] = y
  BY <1>2
<1>4. h \in Surjection(1..n, S)
  <2> HIDE DEF h, S
  <2> QED BY <1>3 DEF Surjection
<1> HIDE DEF h, S
<1>5. IsFiniteSet(S)
  BY <1>4, FS_NatSurjection DEF ExistsSurjection
<1> QED BY <1>5 DEF S

(* An envelope covers each cell.                                            *)
LEMMA EnvelopeCovers ==
  ASSUME NEW P, FiniteCells(P), NEW c \in P
  PROVE  LET e == Envelope(P) IN
         /\ c[1] \in Int /\ c[2] \in Int
         /\ e.minx \in Int /\ e.minx <= c[1] /\ e.maxx \in Int /\ c[1] + 1 <= e.maxx
         /\ e.miny \in Int /\ e.miny <= c[2] /\ e.maxy \in Int /\ c[2] + 1 <= e.maxy
<1> DEFINE X == {d[1] : d \in P}
           Y == {d[2] : d \in P}
<1>1. \A d \in P : d[1] \in Int /\ d[2] \in Int
  BY DEF FiniteCells, UnitCells
<1>2. X \subseteq Int /\ IsFiniteSet(X) /\ X # {} /\ c[1] \in X
  <2> DEFINE f == [d \in P |-> d[1]]
  <2>1. f \in [P -> Int] /\ X = {f[d] : d \in P}
    BY <1>1
  <2> HIDE DEF f
  <2>2. IsFiniteSet({f[d] : d \in P})
    BY <2>1, ImageIsFinite DEF FiniteCells
  <2> QED BY <1>1, <2>1, <2>2
<1>3. Y \subseteq Int /\ IsFiniteSet(Y) /\ Y # {} /\ c[2] \in Y
  <2> DEFINE f == [d \in P |-> d[2]]
  <2>1. f \in [P -> Int] /\ Y = {f[d] : d \in P}
    BY <1>1
  <2> HIDE DEF f
  <2>2. IsFiniteSet({f[d] : d \in P})
    BY <2>1, ImageIsFinite DEF FiniteCells
  <2> QED BY <1>1, <2>1, <2>2
<1>4. Envelope(P) = [minx |-> Min(X), maxx |-> Max(X) + 1, miny |-> Min(Y), maxy |-> Max(Y) + 1]
  BY DEF Envelope
<1> HIDE DEF X, Y
<1>5. Min(X) \in Int /\ Max(X) \in Int /\ Min(X) <= c[1] /\ c[1] <= Max(X)
  BY <1>2, BoundsExist
<1>6. Min(Y) \in Int /\ Max(Y) \in Int /\ Min(Y) <= c[2] /\ c[2] <= Max(Y)
  BY <1>3, BoundsExist
<1> QED BY <1>1, <1>4, <1>5, <1>6

LEMMA MinOfTwo ==
  ASSUME NEW x \in Int, NEW y \in Int
  PROVE  Min({x, y}) = (IF x <= y THEN x ELSE y) /\ Min({y, x}) = Min({x, y})
<1> DEFINE m == IF x <= y THEN x ELSE y
<1>1. m \in {x, y} /\ \A z \in {x, y} : m <= z
  OBVIOUS
<1>2. \A z \in {x, y} : (\A w \in {x, y} : z <= w) => z = m
  OBVIOUS
<1> HIDE DEF m
<1>3. Min({x, y}) = m
  BY <1>1, <1>2 DEF Min
<1>4. {x, y} = {y, x}
  OBVIOUS
<1> QED BY <1>3, <1>4 DEF m

LEMMA MaxOfTwo ==
  ASSUME NEW x \in Int, NEW y \in Int
  PROVE  Max({x, y}) = (IF x <= y THEN y ELSE x) /\ Max({y, x}) = Max({x, y})
<1> DEFINE m == IF x <= y THEN y ELSE x
<1>1. m \in {x, y} /\ \A z \in {x, y} : z <= m
  OBVIOUS
<1>2. \A z \in {x, y} : (\A w \in {x, y} : w <= z) => z = m
  OBVIOUS
<1> HIDE DEF m
<1>3. Max({x, y}) = m
  BY <1>1, <1>2 DEF Max
<1>4. {x, y} = {y, x}
  OBVIOUS
<1> QED BY <1>3, <1>4 DEF m

(* Where cells of P and of B are side by side, their envelopes intersect,    *)
(* and P lies within the common envelope of B and of whatever holds P.       *)
LEMMA SideBySide ==
  ASSUME NEW A, NEW B, FiniteCells(A), FiniteCells(B), NEW P \in SUBSET A,
         NEW c \in P, NEW d \in B, d \in Neighbours(c)
  PROVE  /\ Intersects(Envelope(A), Envelope(B)) /\ Intersects(Envelope(B), Envelope(A))
         /\ Intersects(Envelope(P), Intersection(Envelope(A), Envelope(B)))
         /\ Intersects(Envelope(P), Intersection(Envelope(B), Envelope(A)))
<1> DEFINE a == Envelope(A)
           b == Envelope(B)
           p == Envelope(P)
<1>0. FiniteCells(P) /\ c \in A
  BY FS_Subset DEF FiniteCells
<1>1. /\ c[1] \in Int /\ c[2] \in Int
      /\ a.minx \in Int /\ a.minx <= c[1] /\ a.maxx \in Int /\ c[1] + 1 <= a.maxx
      /\ a.miny \in Int /\ a.miny <= c[2] /\ a.maxy \in Int /\ c[2] + 1 <= a.maxy
  BY <1>0, EnvelopeCovers
<1>2. /\ d[1] \in Int /\ d[2] \in Int
      /\ b.minx \in Int /\ b.minx <= d[1] /\ b.maxx \in Int /\ d[1] + 1 <= b.maxx
      /\ b.miny \in Int /\ b.miny <= d[2] /\ b.maxy \in Int /\ d[2] + 1 <= b.maxy
  BY EnvelopeCovers
<1>3. /\ p.minx \in Int /\ p.minx <= c[1] /\ p.maxx \in Int /\ c[1] + 1 <= p.maxx
      /\ p.miny \in Int /\ p.miny <= c[2] /\ p.maxy \in Int /\ c[2] + 1 <= p.maxy
  BY <1>0, EnvelopeCovers
<1>4. /\ c[1] - 1 <= d[1] /\ d[1] <= c[1] + 1
      /\ c[2] - 1 <= d[2] /\ d[2] <= c[2] + 1
  <2>1. \/ d[1] = c[1] - 1 /\ d[2] = c[2]
        \/ d[1] = c[1] + 1 /\ d[2] = c[2]
        \/ d[1] = c[1] /\ d[2] = c[2] - 1
        \/ d[1] = c[1] /\ d[2] = c[2] + 1
    BY <1>1 DEF Neighbours
  <2> QED BY <1>1, <2>1
<1>5. \A x, y \in Int : Min({x, y}) = (IF x <= y THEN x ELSE y) /\ Min({y, x}) = Min({x, y})
  BY MinOfTwo
<1>6. \A x, y \in Int : Max({x, y}) = (IF x <= y THEN y ELSE x) /\ Max({y, x}) = Max({x, y})
  BY MaxOfTwo
<1> DEFINE m == Intersection(a, b)
<1>7. /\ m.minx = (IF a.minx <= b.minx THEN b.minx ELSE a.minx)
      /\ m.maxx = (IF a.maxx <= b.maxx THEN a.maxx ELSE b.maxx)
      /\ m.miny = (IF a.miny <= b.miny THEN b.miny ELSE a.miny)
      /\ m.maxy = (IF a.maxy <= b.maxy THEN a.maxy ELSE b.maxy)
  <2> HIDE DEF a, b
  <2> QED BY <1>1, <1>2, <1>5, <1>6 DEF Intersection
<1>8. Intersection(b, a) = m
  <2>1. /\ Max({a.minx, b.minx}) = Max({b.minx, a.minx}) /\ Min({a.maxx, b.maxx}) = Min({b.maxx, a.maxx})
        /\ Max({a.miny, b.miny}) = Max({b.miny, a.miny}) /\ Min({a.maxy, b.maxy}) = Min({b.maxy, a.maxy})
    BY <1>1, <1>2, <1>5, <1>6
  <2> QED BY <2>1 DEF Intersection
<1> HIDE DEF a, b, p, m
<1>9. /\ m.minx <= c[1] + 1 /\ c[1] <= m.maxx
      /\ m.miny <= c[2] + 1 /\ c[2] <= m.maxy
      /\ m.minx \in Int /\ m.maxx \in Int /\ m.miny \in Int /\ m.maxy \in Int
  BY <1>1, <1>2, <1>4, <1>7
<1>10. Intersects(p, m)
  BY <1>1, <1>3, <1>9 DEF Intersects
<1>11. Intersects(a, b) /\ Intersects(b, a)
  BY <1>1, <1>2, <1>4 DEF Intersects
<1> QED BY <1>8, <1>10, <1>11 DEF a, b, p, m

-----------------------------------------------------------------------------
(* The union of two                                                         *)

LEMMA CombinedWhole ==
  ASSUME NEW A, NEW B, FiniteCells(A), FiniteCells(B)
  PROVE  UnionOptimized(Parts(A), Parts(B)) = Parts(A \cup B)
<1> DEFINE g0 == Parts(A)
           g1 == Parts(B)
           e0 == Envelope(A)
           e1 == Envelope(B)
           common == Intersection(e0, e1)
           int0 == ExtractByEnvelope(common, g0)
           int1 == ExtractByEnvelope(common, g1)
<1>1. FiniteCells(A \cup B)
  BY FS_Union DEF FiniteCells
<1>2. Cells(g0) = A /\ Cells(g1) = B
  BY CellsOfParts
<1>3. ASSUME ~Intersects(e0, e1) PROVE Parts(A \cup B) = g0 \cup g1
  <2>1. \A c \in A, d \in B : d \notin Neighbours(c) /\ c \notin Neighbours(d)
    BY <1>3, SideBySide
  <2>2. Closed(A, A \cup B) /\ Closed(B, A \cup B)
    BY <2>1 DEF Closed
  <2> QED BY <1>1, <2>2, PartsOfBoth
<1>4. UnionActual(g0, g1) = Parts(A \cup B)
  BY <1>2 DEF UnionActual
<1>5. UnionUsingEnvelopeIntersection(g0, g1, common) = Parts(A \cup B)
  <2> DEFINE P0 == Cells(g0 \ int0)  M0 == Cells(int0)
             P1 == Cells(g1 \ int1)  M1 == Cells(int1)
  <2>1. int0 \subseteq g0 /\ int1 \subseteq g1
    BY DEF ExtractByEnvelope
  <2>2. /\ Closed(P0, A) /\ Parts(P0) = g0 \ int0 /\ FiniteCells(P0)
        /\ Closed(M0, A) /\ Parts(M0) = int0 /\ FiniteCells(M0)
    BY <2>1, SomeParts
  <2>3. /\ Closed(P1, B) /\ Parts(P1) = g1 \ int1 /\ FiniteCells(P1)
        /\ Closed(M1, B) /\ Parts(M1) = int1 /\ FiniteCells(M1)
    BY <2>1, SomeParts
  <2>4. P0 \cup M0 = A /\ P1 \cup M1 = B
    BY <1>2, <2>1 DEF Cells
  <2>5. ASSUME NEW c \in A, NEW d \in B, d \in Neighbours(c)
        PROVE  c \notin P0 /\ c \in M0 /\ d \notin P1 /\ d \in M1
    <3>1. c \in Neighbours(d)
      BY <2>5, BesideIsMutual DEF FiniteCells
    <3>2. ASSUME NEW g \in g0, c \in g PROVE g \in int0
      <4>1. g \subseteq A
        BY <1>2, <3>2 DEF Cells
      <4>2. Intersects(Envelope(g), common)
        BY <2>5, <3>2, <4>1, SideBySide
      <4> QED BY <3>2, <4>2 DEF ExtractByEnvelope
    <3>3. ASSUME NEW g \in g1, d \in g PROVE g \in int1
      <4>1. g \subseteq B
        BY <1>2, <3>3 DEF Cells
      <4>2. Intersects(Envelope(g), common)
        BY <3>1, <3>3, <4>1, SideBySide
      <4> QED BY <3>3, <4>2 DEF ExtractByEnvelope
    <3>4. c \notin P0
      BY <3>2 DEF Cells
    <3>5. d \notin P1
      BY <3>3 DEF Cells
    <3> QED BY <2>4, <3>4, <3>5
  <2> HIDE DEF P0, M0, P1, M1, g0, g1, int0, int1
  <2> DEFINE M == M0 \cup M1
             U == A \cup B
  <2>6. \A c \in A, d \in B : d \in Neighbours(c) <=> c \in Neighbours(d)
    BY BesideIsMutual DEF FiniteCells
  <2>7. Closed(P0, U)
    BY <2>2, <2>5 DEF Closed
  <2>8. Closed(P1, U)
    BY <2>3, <2>5, <2>6 DEF Closed
  <2>9. Closed(M, U)
    <3>1. M \subseteq U
      BY <2>4
    <3>2. ASSUME NEW c \in M, NEW d \in U, d \in Neighbours(c) PROVE d \in M
      <4>1. CASE c \in M0 /\ d \in A
        BY <2>2, <3>2, <4>1 DEF Closed
      <4>2. CASE c \in M1 /\ d \in B
        BY <2>3, <3>2, <4>2 DEF Closed
      <4>3. CASE c \in M0 /\ d \in B
        BY <2>4, <2>5, <3>2, <4>3
      <4>4. CASE c \in M1 /\ d \in A
        BY <2>4, <2>5, <2>6, <3>2, <4>4
      <4> QED BY <4>1, <4>2, <4>3, <4>4
    <3> QED BY <3>1, <3>2 DEF Closed
  <2>10. Closed(P1, P1 \cup M) /\ Closed(M, P1 \cup M) /\ Closed(P1 \cup M, U) /\ P1 \cup M \subseteq U
    BY <2>8, <2>9 DEF Closed
  <2>11. P0 \cup (P1 \cup M) = U
    BY <2>4
  <2>12. FiniteCells(P1 \cup M)
    BY <1>1, <2>10, FS_Subset DEF FiniteCells
  <2>13. Parts(P1 \cup M) = Parts(P1) \cup Parts(M)
    BY <2>10, <2>12, PartsOfBoth
  <2>14. Parts(U) = Parts(P0) \cup (Parts(P1) \cup Parts(M))
    <3> DEFINE Q == P1 \cup M
    <3>1. P0 \cup Q = U /\ Closed(Q, U)
      BY <2>10, <2>11
    <3> HIDE DEF Q, U
    <3>2. FiniteCells(P0 \cup Q) /\ Closed(P0, P0 \cup Q) /\ Closed(Q, P0 \cup Q)
      BY <1>1, <2>7, <3>1 DEF U
    <3>3. Parts(P0 \cup Q) = Parts(P0) \cup Parts(Q)
      BY <3>2, PartsOfBoth
    <3> QED BY <2>13, <3>1, <3>3 DEF Q
  <2>15. UnionActual(int0, int1) = Parts(M)
    BY DEF UnionActual, M0, M1
  <2> QED BY <2>2, <2>3, <2>14, <2>15 DEF UnionUsingEnvelopeIntersection, int0, int1
<1> HIDE DEF g0, g1
<1>6. Envelope(Cells(g0)) = e0 /\ Envelope(Cells(g1)) = e1
  BY <1>2
<1> HIDE DEF e0, e1
<1>7. UnionOptimized(g0, g1) = Parts(A \cup B)
  BY <1>3, <1>4, <1>5, <1>6 DEF UnionOptimized
<1> QED BY <1>7 DEF g0, g1

-----------------------------------------------------------------------------
(* The union of many                                                        *)

AllOf(C, n) == UNION {C[k] : k \in 1..n}

LEMMA BinaryUnionWhole ==
  ASSUME NEW A, FiniteCells(A), NEW n \in Nat \ {0}, NEW C \in [1..n -> SUBSET A],
         NEW geoms, Len(geoms) = n, \A k \in 1..n : geoms[k] = Parts(C[k])
  PROVE  BinaryUnion(geoms) = Parts(AllOf(C, n))
<1> DEFINE Spans == (0..n - 1) \X (1..n)
           Of(s, e) == UNION {C[k] : k \in s + 1..e}
           Half(f, s, e) == LET mid == (e + s) \div 2 IN UnionOptimized(f[<<s, mid>>], f[<<mid, e>>])
           Value(f, s, e) == IF e - s <= 1 THEN geoms[s + 1] ELSE Half(f, s, e)
           Def(f) == f = [span \in Spans |-> Value(f, span[1], span[2])]
           F == CHOOSE f : Def(f)
           w == [span \in Spans |-> IF span[2] - span[1] <= 1 THEN geoms[span[1] + 1]
                                    ELSE Parts(Of(span[1], span[2]))]
<1>1. BinaryUnion(geoms) = F[<<0, n>>]
  BY DEF BinaryUnion
<1>2. ASSUME NEW s \in 0..n - 1, NEW e \in 1..n, e - s > 1
      PROVE  LET mid == (e + s) \div 2 IN
             /\ mid \in 0..n - 1 /\ mid \in 1..n /\ s < mid /\ mid < e
             /\ UnionOptimized(Parts(Of(s, mid)), Parts(Of(mid, e))) = Parts(Of(s, e))
  <2> DEFINE mid == (e + s) \div 2
  <2>1. mid \in Int /\ s < mid /\ mid < e
    BY <1>2
  <2> HIDE DEF mid
  <2>2. mid \in 0..n - 1 /\ mid \in 1..n
    BY <1>2, <2>1
  <2>3. \A k : k \in s + 1..e <=> (k \in s + 1..mid \/ k \in mid + 1..e)
    BY <2>1
  <2>4. Of(s, mid) \cup Of(mid, e) = Of(s, e)
    BY <2>3
  <2>5. \A k \in s + 1..e : C[k] \in SUBSET A
    BY <1>2
  <2>6. Of(s, mid) \subseteq A /\ Of(mid, e) \subseteq A
    BY <2>3, <2>5
  <2> HIDE DEF Of
  <2>7. FiniteCells(Of(s, mid)) /\ FiniteCells(Of(mid, e))
    BY <2>6, FS_Subset DEF FiniteCells
  <2>8. UnionOptimized(Parts(Of(s, mid)), Parts(Of(mid, e))) = Parts(Of(s, e))
    BY <2>4, <2>7, CombinedWhole
  <2> QED BY <2>1, <2>2, <2>8 DEF mid
<1>3. ASSUME NEW s \in 0..n - 1, NEW e \in 1..n, e - s = 1 PROVE geoms[s + 1] = Parts(Of(s, e))
  <2>1. s + 1 = e /\ s + 1 \in 1..n /\ \A k : k \in s + 1..e <=> k = s + 1
    BY <1>3
  <2>2. Of(s, e) = C[s + 1]
    BY <2>1
  <2> QED BY <2>1, <2>2
<1>4. ASSUME NEW f, NEW s \in 0..n - 1, NEW e \in 1..n, e - s > 1,
             \A a \in 0..n - 1, b \in 1..n : a < b /\ b - a < e - s => f[<<a, b>>] = Parts(Of(a, b))
      PROVE  Half(f, s, e) = Parts(Of(s, e))
  <2> DEFINE mid == (e + s) \div 2
  <2>1. /\ mid \in 0..n - 1 /\ mid \in 1..n /\ s < mid /\ mid < e
        /\ UnionOptimized(Parts(Of(s, mid)), Parts(Of(mid, e))) = Parts(Of(s, e))
    BY <1>2, <1>4
  <2> HIDE DEF mid, Of
  <2>2. mid - s < e - s /\ e - mid < e - s
    BY <2>1
  <2>3. f[<<s, mid>>] = Parts(Of(s, mid)) /\ f[<<mid, e>>] = Parts(Of(mid, e))
    BY <1>4, <2>1, <2>2
  <2>4. Half(f, s, e) = UnionOptimized(f[<<s, mid>>], f[<<mid, e>>])
    BY DEF mid
  <2> QED BY <2>1, <2>3, <2>4
<1>5. Def(w)
  <2>1. \A a \in 0..n - 1, b \in 1..n : a < b => w[<<a, b>>] = Parts(Of(a, b))
    <3> SUFFICES ASSUME NEW a \in 0..n - 1, NEW b \in 1..n, a < b PROVE w[<<a, b>>] = Parts(Of(a, b))
      OBVIOUS
    <3>1. <<a, b>> \in Spans
      OBVIOUS
    <3> HIDE DEF Of
    <3>2. w[<<a, b>>] = IF b - a <= 1 THEN geoms[a + 1] ELSE Parts(Of(a, b))
      BY <3>1
    <3>3. b - a <= 1 => b - a = 1
      OBVIOUS
    <3> QED BY <1>3, <3>2, <3>3
  <2> HIDE DEF Of
  <2>2. ASSUME NEW span \in Spans PROVE w[span] = Value(w, span[1], span[2])
    <3> DEFINE s == span[1]  e == span[2]
    <3>1. s \in 0..n - 1 /\ e \in 1..n /\ s \in Int /\ e \in Int
      OBVIOUS
    <3>2. w[span] = IF e - s <= 1 THEN geoms[s + 1] ELSE Parts(Of(s, e))
      OBVIOUS
    <3> HIDE DEF s, e, w, Half
    <3>3. CASE e - s <= 1
      BY <3>2, <3>3 DEF s, e
    <3>4. CASE e - s > 1
      <4> HIDE DEF Spans
      <4>0. \A a \in 0..n - 1, b \in 1..n : a < b /\ b - a < e - s => w[<<a, b>>] = Parts(Of(a, b))
        BY <2>1
      <4>1. Half(w, s, e) = Parts(Of(s, e))
        BY <1>4, <3>1, <3>4, <4>0
      <4>2. ~(e - s <= 1)
        BY <3>1, <3>4
      <4> QED BY <3>2, <4>1, <4>2 DEF s, e
    <3> QED BY <3>1, <3>3, <3>4
  <2>3. w = [span \in Spans |-> w[span]]
    OBVIOUS
  <2> HIDE DEF w, Value, Spans
  <2> QED BY <2>2, <2>3
<1>6. Def(F)
  <2> HIDE DEF Def, w
  <2> QED BY <1>5
<1> HIDE DEF F, w
<1>7. ASSUME NEW s \in 0..n - 1, NEW e \in 1..n PROVE F[<<s, e>>] = Value(F, s, e)
  <2>1. <<s, e>> \in Spans /\ <<s, e>>[1] = s /\ <<s, e>>[2] = e
    OBVIOUS
  <2> HIDE DEF Value, Spans
  <2> QED BY <1>6, <2>1
<1> DEFINE S == {m \in 1..n : \A s \in 0..n - 1, e \in 1..n : e - s = m => F[<<s, e>>] = Parts(Of(s, e))}
<1>8. ASSUME NEW m \in 1..n, \A j \in 1..m - 1 : j \in S PROVE m \in S
  <2> SUFFICES ASSUME NEW s \in 0..n - 1, NEW e \in 1..n, e - s = m PROVE F[<<s, e>>] = Parts(Of(s, e))
    OBVIOUS
  <2> HIDE DEF Of, Half
  <2>1. \A a \in 0..n - 1, b \in 1..n : a < b /\ b - a < e - s => F[<<a, b>>] = Parts(Of(a, b))
    <3> SUFFICES ASSUME NEW a \in 0..n - 1, NEW b \in 1..n, a < b, b - a < e - s PROVE F[<<a, b>>] = Parts(Of(a, b))
      OBVIOUS
    <3>1. b - a \in 1..m - 1
      BY <1>8
    <3> QED BY <1>8, <3>1
  <2>2. CASE e - s = 1
    BY <1>3, <1>7, <2>2
  <2>3. CASE e - s > 1
    <3>1. Half(F, s, e) = Parts(Of(s, e))
      BY <1>4, <2>1, <2>3
    <3>2. ~(e - s <= 1)
      BY <2>3
    <3> QED BY <1>7, <3>1, <3>2
  <2> QED BY <2>2, <2>3
<1>9. n \in S
  <2>1. \A m \in 1..n : (\A j \in 1..m - 1 : j \in S) => m \in S
    BY <1>8
  <2> HIDE DEF S
  <2>2. \A m \in 1..n : m \in S
    BY <2>1, StrongInduction
  <2> QED BY <2>2
<1>10. F[<<0, n>>] = Parts(Of(0, n))
  <2>1. 0 \in 0..n - 1 /\ n \in 1..n /\ n - 0 = n
    OBVIOUS
  <2> HIDE DEF Of
  <2> QED BY <1>9, <2>1
<1>11. Of(0, n) = AllOf(C, n)
  <2>1. 0 + 1 = 1
    OBVIOUS
  <2> QED BY <2>1 DEF AllOf
<1> HIDE DEF Of
<1> QED BY <1>1, <1>10, <1>11

(* The cells below each node of a tree of polygons.                         *)
Below(C, tree, polys) ==
  LET n == Len(polys) IN
  \A i \in 1..n + Len(tree) :
    C[i] = IF i <= n THEN polys[i] ELSE UNION {C[tree[i - n][k]] : k \in 1..Len(tree[i - n])}

LEMMA TreeShape ==
  ASSUME NEW n \in Nat, NEW tree \in Seq(Seq(Nat)), IsItemsTree(tree, n)
  PROVE  /\ Len(tree) \in Nat \ {0} /\ DOMAIN tree = 1..Len(tree)
         /\ \A i \in n + 1..n + Len(tree) :
              /\ Len(tree[i - n]) \in Nat \ {0} /\ DOMAIN tree[i - n] = 1..Len(tree[i - n])
              /\ \A k \in 1..Len(tree[i - n]) : tree[i - n][k] \in 1..i - 1
         /\ \A i \in 1..n + Len(tree) - 1 :
              \E p \in n + 1..n + Len(tree) : i < p /\ \E k \in 1..Len(tree[p - n]) : tree[p - n][k] = i
<1>1. Len(tree) \in Nat \ {0} /\ DOMAIN tree = 1..Len(tree)
  BY DEF IsItemsTree
<1>2. ASSUME NEW i \in n + 1..n + Len(tree)
      PROVE  /\ Len(tree[i - n]) \in Nat \ {0} /\ DOMAIN tree[i - n] = 1..Len(tree[i - n])
             /\ \A k \in 1..Len(tree[i - n]) : tree[i - n][k] \in 1..i - 1
  <2> DEFINE j == i - n
  <2>1. j \in 1..Len(tree) /\ n + j - 1 = i - 1
    BY <1>1
  <2> HIDE DEF j
  <2>2. tree[j] \in Seq(1..n + j - 1) /\ tree[j] # <<>>
    BY <1>1, <2>1 DEF IsItemsTree
  <2>3. tree[j] \in Seq(1..i - 1)
    BY <2>1, <2>2
  <2>4. Len(tree[j]) \in Nat \ {0} /\ DOMAIN tree[j] = 1..Len(tree[j])
    BY <2>2, <2>3
  <2>5. \A k \in 1..Len(tree[j]) : tree[j][k] \in 1..i - 1
    BY <2>3
  <2> QED BY <2>4, <2>5 DEF j
<1>3. ASSUME NEW i \in 1..n + Len(tree) - 1
      PROVE  \E p \in n + 1..n + Len(tree) : i < p /\ \E k \in 1..Len(tree[p - n]) : tree[p - n][k] = i
  <2>1. PICK j \in 1..Len(tree) : i \in Range(tree[j])
    BY <1>1, <1>3 DEF IsItemsTree
  <2>2. n + j \in n + 1..n + Len(tree) /\ (n + j) - n = j
    BY <1>1
  <2>3. /\ DOMAIN tree[j] = 1..Len(tree[j])
        /\ \A k \in 1..Len(tree[j]) : tree[j][k] \in 1..(n + j) - 1
    BY <1>2, <2>2
  <2>4. PICK k \in 1..Len(tree[j]) : tree[j][k] = i
    BY <2>1, <2>3 DEF Range
  <2>5. i < n + j
    BY <2>3, <2>4
  <2> QED BY <2>2, <2>4, <2>5
<1> QED BY <1>1, <1>2, <1>3

LEMMA BelowExists ==
  ASSUME NEW A, NEW polys \in Seq(SUBSET A), NEW tree \in Seq(Seq(Nat)),
         IsItemsTree(tree, Len(polys))
  PROVE  \E C \in [1..Len(polys) + Len(tree) -> SUBSET A] : Below(C, tree, polys)
<1> DEFINE n == Len(polys)
           N == n + Len(tree)
           S == SUBSET A
           Of(i, f) == IF i <= n THEN polys[i] ELSE UNION {f[tree[i - n][k]] : k \in 1..Len(tree[i - n])}
           step == [x \in (1..N) \X [1..N -> S] |-> Of(x[1], x[2])]
<1>0. n \in Nat /\ IsItemsTree(tree, n) /\ \A i \in 1..n : polys[i] \in S
  OBVIOUS
<1> HIDE DEF n
<1>1. N \in Nat /\ {} \in S
  BY <1>0, TreeShape
<1>2. \A i \in n + 1..N : \A k \in 1..Len(tree[i - n]) : tree[i - n][k] \in 1..i - 1
  BY <1>0, TreeShape
<1>3. ASSUME NEW i \in 1..N, NEW f \in [1..N -> S] PROVE Of(i, f) \in S
  <2>1. CASE i <= n
    <3>1. i \in 1..n
      BY <1>0, <2>1
    <3> QED BY <1>0, <2>1, <3>1
  <2>2. CASE ~(i <= n)
    <3>1. i \in n + 1..N
      BY <1>0, <1>1, <2>2
    <3>2. \A k \in 1..Len(tree[i - n]) : tree[i - n][k] \in 1..N
      BY <1>0, <1>1, <1>2, <3>1
    <3>3. \A k \in 1..Len(tree[i - n]) : f[tree[i - n][k]] \subseteq A
      BY <3>2
    <3> QED BY <2>2, <3>3
  <2> QED BY <2>1, <2>2
<1>4. ASSUME NEW i \in 1..N, NEW f \in [1..N -> S], NEW g \in [1..N -> S], \A j \in 1..i - 1 : f[j] = g[j]
      PROVE  Of(i, f) = Of(i, g)
  <2>1. CASE i <= n
    BY <2>1
  <2>2. CASE ~(i <= n)
    <3>1. i \in n + 1..N
      BY <1>0, <1>1, <2>2
    <3>2. \A k \in 1..Len(tree[i - n]) : f[tree[i - n][k]] = g[tree[i - n][k]]
      BY <1>2, <1>4, <3>1
    <3>3. {f[tree[i - n][k]] : k \in 1..Len(tree[i - n])} = {g[tree[i - n][k]] : k \in 1..Len(tree[i - n])}
      BY <3>2
    <3> QED BY <2>2, <3>3
  <2> QED BY <2>1, <2>2
<1> HIDE DEF N, S, Of
<1>5. LooksBack(step, S, N)
  <2>1. step \in [(1..N) \X [1..N -> S] -> S]
    BY <1>3
  <2>2. \A i \in 1..N, f \in [1..N -> S] : step[<<i, f>>] = Of(i, f)
    OBVIOUS
  <2> HIDE DEF step
  <2>3. \A f, g \in [1..N -> S], i \in 1..N :
          (\A j \in 1..i - 1 : f[j] = g[j]) => step[<<i, f>>] = step[<<i, g>>]
    <3> SUFFICES ASSUME NEW f \in [1..N -> S], NEW g \in [1..N -> S], NEW i \in 1..N,
                        \A j \in 1..i - 1 : f[j] = g[j]
                 PROVE  step[<<i, f>>] = step[<<i, g>>]
      OBVIOUS
    <3>1. Of(i, f) = Of(i, g)
      BY <1>4
    <3> QED BY <2>2, <3>1
  <2> QED BY <2>1, <2>3 DEF LooksBack
<1>6. PICK C \in [1..N -> S] : \A i \in 1..N : C[i] = step[<<i, C>>]
  <2> HIDE DEF step
  <2> QED BY <1>1, <1>5, RecursionExists
<1>7. \A i \in 1..N : C[i] = Of(i, C)
  BY <1>6
<1>8. Below(C, tree, polys)
  BY <1>7, Zenon DEF Below, N, Of, n
<1> QED BY <1>6, <1>8 DEF N, S, n

LEMMA UnionTreeWhole ==
  ASSUME NEW A, FiniteCells(A), NEW polys \in Seq(SUBSET A), A = UNION Range(polys), polys # <<>>,
         \A i \in 1..Len(polys) : Parts(polys[i]) = {polys[i]},
         NEW tree \in Seq(Seq(Nat)), IsItemsTree(tree, Len(polys))
  PROVE  UnionTree(tree, polys) = Parts(A)
<1> DEFINE n == Len(polys)
           N == n + Len(tree)
           Geoms(f, i) == [k \in DOMAIN tree[i - n] |-> f[tree[i - n][k]]]
           Value(f, i) == IF i <= n THEN {polys[i]} ELSE BinaryUnion(Geoms(f, i))
           Def(f) == f = [i \in 1..N |-> Value(f, i)]
           F == CHOOSE f : Def(f)
<1>1. UnionTree(tree, polys) = F[N]
  BY DEF UnionTree
<1>2. /\ n \in Nat \ {0} /\ N \in Nat \ {0} /\ n < N
      /\ \A i \in n + 1..N :
           /\ Len(tree[i - n]) \in Nat \ {0} /\ DOMAIN tree[i - n] = 1..Len(tree[i - n])
           /\ \A k \in 1..Len(tree[i - n]) : tree[i - n][k] \in 1..i - 1
      /\ \A i \in 1..N - 1 :
           \E p \in n + 1..N : i < p /\ \E k \in 1..Len(tree[p - n]) : tree[p - n][k] = i
  <2>1. n \in Nat \ {0} /\ IsItemsTree(tree, n)
    OBVIOUS
  <2> HIDE DEF n
  <2>2. Len(tree) \in Nat \ {0}
    BY <2>1, TreeShape
  <2>3. N \in Nat \ {0} /\ n < N
    BY <2>1, <2>2
  <2>4. \A i \in n + 1..N :
          /\ Len(tree[i - n]) \in Nat \ {0} /\ DOMAIN tree[i - n] = 1..Len(tree[i - n])
          /\ \A k \in 1..Len(tree[i - n]) : tree[i - n][k] \in 1..i - 1
    BY <2>1, TreeShape
  <2>5. \A i \in 1..N - 1 :
          \E p \in n + 1..N : i < p /\ \E k \in 1..Len(tree[p - n]) : tree[p - n][k] = i
    <3> SUFFICES ASSUME NEW i \in 1..N - 1
                 PROVE  \E p \in n + 1..N : i < p /\ \E k \in 1..Len(tree[p - n]) : tree[p - n][k] = i
      OBVIOUS
    <3>1. n \in Nat /\ i \in 1..n + Len(tree) - 1
      BY <2>1
    <3>2. \E p \in n + 1..n + Len(tree) : i < p /\ \E k \in 1..Len(tree[p - n]) : tree[p - n][k] = i
      BY <2>1, <3>1, TreeShape
    <3> QED BY <3>2
  <2> QED BY <2>1, <2>3, <2>4, <2>5
<1>3. PICK C \in [1..N -> SUBSET A] : Below(C, tree, polys)
  BY <1>2, BelowExists
<1>4. \A i \in 1..N : C[i] = IF i <= n THEN polys[i] ELSE UNION {C[tree[i - n][k]] : k \in 1..Len(tree[i - n])}
  BY <1>3 DEF Below
<1> HIDE DEF n, N
<1>5. ASSUME NEW f, NEW i \in 1..N, \A j \in 1..i - 1 : f[j] = Parts(C[j])
      PROVE  Value(f, i) = Parts(C[i])
  <2>1. CASE i <= n
    <3>1. i \in 1..n
      BY <1>2, <2>1
    <3> QED BY <1>4, <2>1, <3>1 DEF n
  <2>2. CASE ~(i <= n)
    <3> DEFINE m == Len(tree[i - n])
               D == [k \in 1..m |-> C[tree[i - n][k]]]
    <3>1. i \in n + 1..N
      BY <1>2, <2>2
    <3>2. /\ m \in Nat \ {0} /\ DOMAIN tree[i - n] = 1..m
          /\ \A k \in 1..m : tree[i - n][k] \in 1..i - 1
      BY <1>2, <3>1
    <3> HIDE DEF m
    <3>3. \A k \in 1..m : tree[i - n][k] \in 1..N
      <4>1. 1..i - 1 \subseteq 1..N
        <5>1. N \in Int
          BY <1>2
        <5> QED BY <5>1
      <4> QED BY <3>2, <4>1
    <3>4. D \in [1..m -> SUBSET A]
      BY <3>3
    <3>5. \A k \in 1..m : Geoms(f, i)[k] = Parts(D[k])
      BY <1>5, <3>2
    <3>6. Len(Geoms(f, i)) = m
      BY <3>2
    <3>7. C[i] = AllOf(D, m)
      <4>1. C[i] = UNION {C[tree[i - n][k]] : k \in 1..m}
        BY <1>4, <2>2 DEF m
      <4>2. {C[tree[i - n][k]] : k \in 1..m} = {D[k] : k \in 1..m}
        OBVIOUS
      <4> QED BY <4>1, <4>2 DEF AllOf
    <3> DEFINE G == Geoms(f, i)
    <3> HIDE DEF D, G
    <3>8. Len(G) = m /\ \A k \in 1..m : G[k] = Parts(D[k])
      BY <3>5, <3>6 DEF G
    <3>9. m \in Nat \ {0}
      BY <3>2
    <3>10. BinaryUnion(G) = Parts(AllOf(D, m))
      BY <3>4, <3>8, <3>9, BinaryUnionWhole
    <3> QED BY <2>2, <3>7, <3>10 DEF G
  <2> QED BY <2>1, <2>2
<1> HIDE DEF Value
<1> DEFINE w == [i \in 1..N |-> Parts(C[i])]
<1>6. Def(w)
  <2>1. \A i \in 1..N : w[i] = Value(w, i)
    <3> SUFFICES ASSUME NEW i \in 1..N PROVE w[i] = Value(w, i)
      OBVIOUS
    <3>1. \A j \in 1..i - 1 : j \in 1..N
      BY <1>2
    <3>2. \A j \in 1..i - 1 : w[j] = Parts(C[j])
      BY <3>1
    <3>3. w[i] = Parts(C[i])
      OBVIOUS
    <3> HIDE DEF w
    <3> QED BY <1>5, <3>2, <3>3
  <2> QED BY <2>1
<1>7. Def(F)
  <2> HIDE DEF Def, w
  <2> QED BY <1>6
<1> HIDE DEF F
<1>8. \A i \in 1..N : F[i] = Value(F, i)
  BY <1>7
<1> DEFINE S == {i \in 1..N : F[i] = Parts(C[i])}
<1>9. N \in S
  <2>1. ASSUME NEW i \in 1..N, \A j \in 1..i - 1 : j \in S PROVE i \in S
    <3>1. \A j \in 1..i - 1 : F[j] = Parts(C[j])
      BY <2>1
    <3> QED BY <1>5, <1>8, <3>1
  <2>2. N \in 1..N
    BY <1>2
  <2> HIDE DEF S
  <2>3. \A i \in 1..N : (\A j \in 1..i - 1 : j \in S) => i \in S
    BY <2>1
  <2>4. \A i \in 1..N : i \in S
    BY <1>2, <2>3, StrongInduction
  <2> QED BY <2>2, <2>4
<1> DEFINE T == {d \in 1..N : C[N + 1 - d] \subseteq C[N]}
<1>10. \A i \in 1..N : C[i] \subseteq C[N]
  <2>1. ASSUME NEW d \in 1..N, \A j \in 1..d - 1 : j \in T PROVE d \in T
    <3> DEFINE i == N + 1 - d
    <3>1. i \in 1..N
      BY <1>2
    <3>2. CASE i = N
      BY <3>2
    <3>3. CASE i # N
      <4>0. i \in 1..N - 1
        BY <1>2, <3>1, <3>3
      <4> HIDE DEF i
      <4>1. PICK p \in n + 1..N : i < p /\ \E k \in 1..Len(tree[p - n]) : tree[p - n][k] = i
        BY <1>2, <4>0
      <4>2. p \in 1..N /\ ~(p <= n)
        BY <1>2, <4>1
      <4>3. C[i] \subseteq C[p]
        <5>1. PICK k \in 1..Len(tree[p - n]) : tree[p - n][k] = i
          BY <4>1
        <5>2. C[p] = UNION {C[tree[p - n][j]] : j \in 1..Len(tree[p - n])}
          BY <1>4, <4>2
        <5> QED BY <5>1, <5>2
      <4>4. N + 1 - p \in 1..d - 1 /\ N + 1 - (N + 1 - p) = p
        BY <1>2, <3>1, <4>1, <4>2 DEF i
      <4>5. C[p] \subseteq C[N]
        BY <2>1, <4>4
      <4> QED BY <4>3, <4>5 DEF i
    <3> QED BY <3>2, <3>3
  <2> HIDE DEF T
  <2>2. \A d \in 1..N : (\A j \in 1..d - 1 : j \in T) => d \in T
    BY <2>1
  <2>3. \A d \in 1..N : d \in T
    BY <1>2, <2>2, StrongInduction
  <2> SUFFICES ASSUME NEW i \in 1..N PROVE C[i] \subseteq C[N]
    OBVIOUS
  <2>4. N + 1 - i \in 1..N /\ N + 1 - (N + 1 - i) = i
    BY <1>2
  <2> QED BY <2>3, <2>4 DEF T
<1>11. C[N] = A
  <2>1. N \in 1..N /\ 1..n \subseteq 1..N /\ DOMAIN polys = 1..n
    BY <1>2 DEF n
  <2>2. \A i \in 1..n : polys[i] \subseteq C[N]
    <3> SUFFICES ASSUME NEW i \in 1..n PROVE polys[i] \subseteq C[N]
      OBVIOUS
    <3>1. i \in 1..N /\ i <= n
      BY <1>2, <2>1
    <3>2. C[i] = polys[i]
      BY <1>4, <3>1
    <3> QED BY <1>10, <3>1, <3>2
  <2>3. A \subseteq C[N]
    BY <2>1, <2>2 DEF Range
  <2> QED BY <2>1, <2>3
<1> QED BY <1>1, <1>9, <1>11

(* Whatever the polygons and the tree of the index, the union has exactly    *)
(* the cells of the polygons, in whole parts                                *)
(* (CascadedPolygonUnion::Union).                                           *)
THEOREM UnionAlwaysWhole == UnionSpec => []UnionIsWhole
<1>1. UnionInit => UnionIsWhole
  BY DEF UnionInit, UnionIsWhole
<1>2. UnionIsWhole /\ [UnionNext]_unionVars => UnionIsWhole'
  <2> SUFFICES ASSUME UnionIsWhole, [UnionNext]_unionVars PROVE UnionIsWhole'
    OBVIOUS
  <2>1. CASE UNCHANGED unionVars
    BY <2>1 DEF unionVars, UnionIsWhole
  <2>2. ASSUME NEW polys \in PolygonLists, Union(polys) PROVE UnionIsWhole'
    <3>1. polys \in Seq(SUBSET UnitCells)
          /\ \A p \in Range(polys) : p # {} /\ IsFiniteSet(p) /\ Parts(p) = {p}
      BY PolygonsAssumption
    <3>2. CASE polys = <<>>
      BY <2>2, <3>2 DEF Union, UnionIsWhole
    <3>3. CASE polys # <<>>
      <4>1. PICK tree \in ItemsTrees : IsItemsTree(tree, Len(polys)) /\ united' = {UnionTree(tree, polys)}
        BY <2>2, <3>3 DEF Union
      <4> DEFINE A == UNION Range(polys)
      <4>2. DOMAIN polys = 1..Len(polys) /\ Len(polys) \in Nat /\ \A i \in 1..Len(polys) : polys[i] \in Range(polys)
        BY <3>1 DEF Range
      <4>3. IsFiniteSet(Range(polys))
        <5>1. polys \in [1..Len(polys) -> Range(polys)]
          BY <3>1, <4>2
        <5>2. \A p \in Range(polys) : \E i \in 1..Len(polys) : polys[i] = p
          BY <4>2 DEF Range
        <5>3. polys \in Surjection(1..Len(polys), Range(polys))
          BY <5>1, <5>2 DEF Surjection
        <5> QED BY <4>2, <5>3, FS_NatSurjection DEF ExistsSurjection
      <4>4. FiniteCells(A)
        <5>1. IsFiniteSet(A)
          BY <3>1, <4>3, FS_UNION
        <5>2. \A p \in Range(polys) : p \subseteq UnitCells
          BY <3>1, <4>2 DEF Range
        <5> QED BY <5>1, <5>2 DEF FiniteCells
      <4>5. polys \in Seq(SUBSET A)
        <5>1. \A i \in 1..Len(polys) : polys[i] \in SUBSET A
          BY <4>2
        <5>2. polys = [i \in 1..Len(polys) |-> polys[i]]
          BY <3>1
        <5> HIDE DEF A
        <5> QED BY <4>2, <5>1, <5>2, SequenceOf
      <4>6. tree \in Seq(Seq(Nat))
        BY ItemsTreesAssumption
      <4>7. \A i \in 1..Len(polys) : Parts(polys[i]) = {polys[i]}
        BY <3>1, <4>2
      <4>8. UnionTree(tree, polys) = Parts(A)
        BY <3>3, <4>1, <4>4, <4>5, <4>6, <4>7, UnionTreeWhole
      <4>9. inputPolys' = polys
        BY <2>2 DEF Union
      <4> QED BY <4>1, <4>8, <4>9 DEF UnionIsWhole
    <3> QED BY <3>2, <3>3
  <2> QED BY <2>1, <2>2 DEF UnionNext
<1> QED BY <1>1, <1>2, PTL DEF UnionSpec
=============================================================================
