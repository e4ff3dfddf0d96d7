-------------------------------- MODULE Induction --------------------------------
(***************************************************************************)
(* Facts about the natural numbers: division, the least of a set,          *)
(* induction and recursion up to a bound, stated with sets and functions   *)
(* (a proof applies them to the set of the numbers that have a property,   *)
(* and to the function that makes a step), powers of two and bits.         *)
(***************************************************************************)
EXTENDS Integers, FiniteSetTheorems, FunctionTheorems, WellFoundedInduction, TLAPS

\* What division gives.
LEMMA Quotient ==
  ASSUME NEW w \in Nat \ {0}, NEW t \in Nat
  PROVE  t \div w \in Nat /\ t % w \in 0..(w - 1) /\ t = w * (t \div w) + (t % w)
BY SMT

\* Quotient and remainder are what they are called.
LEMMA IsMod ==
  ASSUME NEW w \in Nat \ {0}, NEW q \in Int, NEW r \in 0..(w - 1), NEW t, t = w * q + r
  PROVE  t % w = r /\ t \div w = q
BY SMT

\* Numbers have a least one.
LEMMA Least ==
  ASSUME NEW S \in SUBSET Nat, S # {}
  PROVE  \E m \in S : \A k \in S : m <= k
<1> DEFINE less == {p \in Nat \X Nat : p[1] < p[2]}
<1>1. IsWellFoundedOn(less, Nat)  BY NatLessThanWellFounded DEF OpToRel
<1>2. \A x, y : <<x, y>> \in less <=> x \in Nat /\ y \in Nat /\ x < y  OBVIOUS
<1> HIDE DEF less
<1>3. PICK m \in S : \A k \in S : ~(<<k, m>> \in less)  BY <1>1, WFMin
<1>4. ASSUME NEW k \in S PROVE m <= k
  <2>1. m \in Nat /\ k \in Nat  OBVIOUS
  <2>2. k < m => <<k, m>> \in less  BY <1>2, <2>1
  <2>3. QED BY <1>3, <2>1, <2>2
<1>5. QED BY <1>4

\* A set that holds 0, and each number with its predecessor, holds all numbers up to n.
LEMMA UpTo ==
  ASSUME NEW n \in Nat, NEW S, 0 \in S, \A k \in 1..n : k - 1 \in S => k \in S
  PROVE  \A k \in 0..n : k \in S
<1> DEFINE T == {k \in 0..n : k \notin S}
<1> SUFFICES ASSUME T # {} PROVE FALSE  OBVIOUS
<1>1. PICK k \in T : \A j \in T : k <= j
  <2>1. T \in SUBSET Nat  OBVIOUS
  <2> HIDE DEF T
  <2>2. QED BY <2>1, Least
<1>2. k \in 1..n /\ k \notin S  OBVIOUS
<1>3. k - 1 \in S  BY <1>1, <1>2
<1>4. QED BY <1>2, <1>3

\* The function that is a at 0, and goes from k - 1 to k by the step G[k].
Recursive(f, n, W, a, G) == f \in [0..n -> W] /\ f[0] = a /\ \A k \in 1..n : f[k] = G[k][f[k - 1]]

\* A function may be defined by what it is at 0 and by the step to the next number.
LEMMA Recursion ==
  ASSUME NEW n \in Nat, NEW W, NEW a \in W, NEW G \in [1..n -> [W -> W]]
  PROVE  \E f : Recursive(f, n, W, a, G)
<1> DEFINE Is(k) == \E f : Recursive(f, k, W, a, G)
           S == {k \in 0..n : Is(k)}
<1>1. 0 \in S
  <2> DEFINE f == [j \in 0..0 |-> a]
  <2>1. Recursive(f, 0, W, a, G)  BY DEF Recursive
  <2>2. Is(0)  BY <2>1
  <2> HIDE DEF Is
  <2>3. QED BY <2>2
<1>2. ASSUME NEW k \in 1..n, k - 1 \in S PROVE k \in S
  <2>1. PICK f : Recursive(f, k - 1, W, a, G)  BY <1>2
  <2> DEFINE g == [j \in 0..k |-> IF j = k THEN G[k][f[k - 1]] ELSE f[j]]
  <2>2. f[k - 1] \in W /\ G[k][f[k - 1]] \in W  BY <2>1 DEF Recursive
  <2>3. g \in [0..k -> W]  BY <2>1, <2>2 DEF Recursive
  <2>4. ASSUME NEW j \in 1..k PROVE g[j] = G[j][g[j - 1]]
    <3>1. CASE j = k  BY <2>1, <3>1
    <3>2. CASE j # k  BY <2>1, <3>2 DEF Recursive
    <3>3. QED BY <3>1, <3>2
  <2>5. g[0] = a  BY <2>1 DEF Recursive
  <2>6. Recursive(g, k, W, a, G)
    <3> HIDE DEF g
    <3>1. QED BY <2>3, <2>4, <2>5 DEF Recursive
  <2> HIDE DEF g
  <2>7. Is(k)  BY <2>6
  <2> HIDE DEF Is
  <2>8. QED BY <2>7
<1> HIDE DEF S
<1>3. \A k \in 1..n : k - 1 \in S => k \in S  BY <1>2
<1>4. n \in S
  <2>1. \A k \in 0..n : k \in S  BY <1>1, <1>3, UpTo, Zenon
  <2>2. QED BY <2>1
<1>5. QED BY <1>4 DEF S

--------------------------------------------------------------------------------
(* Powers of two.                                                          *)

\* A set of one more element has twice the subsets, which is what the library knows of powers.
LEMMA PowerStep ==
  ASSUME NEW n \in Nat
  PROVE  2 ^ n \in Nat /\ 2 ^ (n + 1) = 2 * 2 ^ n
<1> DEFINE S == 1..n
           T == 1..(n + 1)
           With == {X \union {n + 1} : X \in SUBSET S}
           join == [X \in SUBSET S |-> X \union {n + 1}]
<1>1. IsFiniteSet(S) /\ Cardinality(S) = n /\ IsFiniteSet(T) /\ Cardinality(T) = n + 1  BY FS_Interval
<1>2. /\ IsFiniteSet(SUBSET S) /\ Cardinality(SUBSET S) = 2 ^ n
      /\ IsFiniteSet(SUBSET T) /\ Cardinality(SUBSET T) = 2 ^ (n + 1)
  BY <1>1, FS_SUBSET, Zenon
<1>3. n + 1 \notin S /\ T = S \union {n + 1}  OBVIOUS
<1> HIDE DEF S, T
<1>4. SUBSET T = (SUBSET S) \union With
  <2>1. ASSUME NEW X \in SUBSET T, n + 1 \in X PROVE X \in With
    <3>1. X \ {n + 1} \in SUBSET S /\ X = (X \ {n + 1}) \union {n + 1}  BY <1>3, <2>1
    <3>2. QED BY <3>1
  <2>2. ASSUME NEW X \in SUBSET T, n + 1 \notin X PROVE X \in SUBSET S  BY <1>3, <2>2
  <2>3. (SUBSET S) \union With \subseteq SUBSET T  BY <1>3
  <2>4. QED BY <2>1, <2>2, <2>3
<1>5. (SUBSET S) \intersect With = {}  BY <1>3
<1>6. join \in Bijection(SUBSET S, With)
  <2>1. \A X, Y \in SUBSET S : join[X] = join[Y] => X = Y  BY <1>3
  <2>2. join \in [SUBSET S -> With] /\ \A Z \in With : \E X \in SUBSET S : join[X] = Z  OBVIOUS
  <2> HIDE DEF join, With
  <2>3. QED BY <2>1, <2>2 DEF Bijection, Injection, Surjection, IsInjective
<1>7. ExistsBijection(SUBSET S, With)  BY <1>6 DEF ExistsBijection
<1>8. IsFiniteSet(With) /\ Cardinality(With) = Cardinality(SUBSET S)
  <2> HIDE DEF With, join
  <2>1. QED BY <1>2, <1>7, FS_Bijection, FS_SameCardinalityBij
<1>9. Cardinality(SUBSET T) = Cardinality(SUBSET S) + Cardinality(With) - Cardinality((SUBSET S) \intersect With)
  <2> HIDE DEF With, join
  <2>1. QED BY <1>2, <1>4, <1>8, FS_Union
<1>10. Cardinality((SUBSET S) \intersect With) = 0
  <2> HIDE DEF With, join
  <2>1. QED BY <1>5, FS_EmptySet
<1>11. 2 ^ n \in Nat  BY <1>2, FS_CardinalityType
<1> HIDE DEF With
<1>12. QED BY <1>2, <1>8, <1>9, <1>10, <1>11

LEMMA PowerPositive == ASSUME NEW n \in Nat PROVE 2 ^ n \in Nat \ {0}
<1> DEFINE good == {k \in 0..n : 2 ^ k \in Nat \ {0}}
<1>1. 0 \in good
  <2>1. 2 ^ 0 = 1  OBVIOUS
  <2>2. QED BY <2>1
<1>2. ASSUME NEW k \in 1..n, k - 1 \in good PROVE k \in good
  <2>1. k - 1 \in Nat /\ k = (k - 1) + 1  OBVIOUS
  <2>2. 2 ^ k = 2 * 2 ^ (k - 1)  BY <2>1, PowerStep, Zenon
  <2>3. 2 ^ (k - 1) \in Nat \ {0}  BY <1>2
  <2>4. QED BY <2>2, <2>3
<1> HIDE DEF good
<1>3. \A k \in 0..n : k \in good  BY <1>1, <1>2, UpTo
<1>4. n \in good  BY <1>3
<1>5. QED BY <1>4 DEF good

LEMMA PowerAdds == ASSUME NEW m \in Nat, NEW n \in Nat PROVE 2 ^ (m + n) = 2 ^ m * 2 ^ n
<1> DEFINE good == {k \in 0..n : 2 ^ (m + k) = 2 ^ m * 2 ^ k}
<1>0. 2 ^ m \in Nat  BY PowerStep
<1>1. 0 \in good
  <2>1. 2 ^ 0 = 1 /\ m + 0 = m  OBVIOUS
  <2>2. 2 ^ (m + 0) = 2 ^ m  BY <2>1
  <2>3. QED BY <1>0, <2>1, <2>2
<1>2. ASSUME NEW k \in 1..n, k - 1 \in good PROVE k \in good
  <2>1. k - 1 \in Nat /\ k = (k - 1) + 1 /\ m + (k - 1) \in Nat /\ m + k = (m + (k - 1)) + 1  OBVIOUS
  <2>2. 2 ^ k = 2 * 2 ^ (k - 1) /\ 2 ^ (k - 1) \in Nat  BY <2>1, PowerStep, Zenon
  <2>3. 2 ^ (m + k) = 2 * 2 ^ (m + (k - 1))  BY <2>1, PowerStep, Zenon
  <2>4. 2 ^ (m + (k - 1)) = 2 ^ m * 2 ^ (k - 1)  BY <1>2
  <2>5. \A p, a \in Nat : 2 * (a * p) = a * (2 * p)  OBVIOUS
  <2>6. QED BY <1>0, <2>2, <2>3, <2>4, <2>5
<1> HIDE DEF good
<1>3. \A k \in 0..n : k \in good  BY <1>1, <1>2, UpTo
<1>4. n \in good  BY <1>3
<1>5. QED BY <1>4 DEF good

--------------------------------------------------------------------------------
(* Bits of numbers.                                                        *)

Bit(v, i) == (v \div 2 ^ i) % 2 = 1

LEMMA PowerGrows == ASSUME NEW m \in Nat, NEW n \in Nat, m <= n PROVE 2 ^ m <= 2 ^ n
<1>1. n - m \in Nat /\ n = m + (n - m)  OBVIOUS
<1>2. 2 ^ n = 2 ^ m * 2 ^ (n - m)  BY <1>1, PowerAdds, Zenon
<1>3. 2 ^ m \in Nat \ {0} /\ 2 ^ (n - m) \in Nat \ {0}  BY <1>1, PowerPositive
<1>4. \A a, b \in Nat \ {0} : a <= a * b  OBVIOUS
<1>5. QED BY <1>2, <1>3, <1>4

\* A small number has no high bits.
LEMMA BitsLow ==
  ASSUME NEW v \in Nat, NEW k \in Nat, v < 2 ^ k, NEW i \in Nat, k <= i
  PROVE  ~Bit(v, i)
<1>1. 2 ^ i \in Nat \ {0} /\ 2 ^ k <= 2 ^ i /\ 2 ^ k \in Nat  BY PowerPositive, PowerGrows
<1>2. v \in 0..(2 ^ i - 1)  BY <1>1
<1>3. 2 ^ i * 0 + v = v  BY <1>1
<1>4. v \div 2 ^ i = 0  BY <1>1, <1>2, <1>3, IsMod
<1>5. 0 % 2 = 0 /\ 0 # 1  OBVIOUS
<1>6. QED BY <1>4, <1>5, Zenon DEF Bit

\* A low part and a high part have the bits of both.
LEMMA BitsJoin ==
  ASSUME NEW k \in Nat, NEW a \in 0..(2 ^ k - 1), NEW b \in Nat, NEW i \in Nat
  PROVE  Bit(a + b * 2 ^ k, i) <=> (IF i < k THEN Bit(a, i) ELSE Bit(b, i - k))
<1> DEFINE v == a + b * 2 ^ k
<1>1. 2 ^ k \in Nat \ {0} /\ 2 ^ i \in Nat \ {0}  BY PowerPositive
<1>2. a \in Nat /\ b * 2 ^ k \in Nat /\ v \in Nat  BY <1>1
<1>3. CASE i < k
  <2> DEFINE h == 2 ^ (k - i - 1)
             q == a \div 2 ^ i
             r == a % 2 ^ i
  <2>1. k - i - 1 \in Nat /\ k = i + ((k - i - 1) + 1) /\ (k - i - 1) + 1 \in Nat  BY <1>3
  <2>2. 2 ^ k = 2 ^ i * 2 ^ ((k - i - 1) + 1)  BY <2>1, PowerAdds, Zenon
  <2>3. h \in Nat /\ 2 ^ k = 2 ^ i * (2 * h)  BY <2>1, <2>2, PowerStep
  <2>4. q \in Nat /\ r \in 0..(2 ^ i - 1) /\ a = 2 ^ i * q + r  BY <1>1, <1>2, Quotient
  <2> HIDE DEF h, q, r
  <2>5. v = 2 ^ i * (q + 2 * (h * b)) + r
    <3>1. \A p, x, y, z, c \in Nat : (p * x + y) + c * (p * (2 * z)) = p * (x + 2 * (z * c)) + y  BY SMTT(30)
    <3>2. QED BY <1>1, <2>3, <2>4, <3>1
  <2>6. h * b \in Nat /\ q + 2 * (h * b) \in Nat  BY <2>3, <2>4
  <2>7. v \div 2 ^ i = q + 2 * (h * b)
    <3> HIDE DEF v
    <3>1. QED BY <1>1, <2>4, <2>5, <2>6, IsMod
  <2>8. \A x, y \in Nat : (x + 2 * y) % 2 = x % 2  OBVIOUS
  <2>9. (v \div 2 ^ i) % 2 = q % 2  BY <2>4, <2>6, <2>7, <2>8
  <2>10. QED BY <1>3, <2>9 DEF Bit, q
<1>4. CASE k <= i
  <2> DEFINE w == 2 ^ (i - k)
             q == b \div w
             r == b % w
  <2>1. i - k \in Nat /\ i = k + (i - k)  BY <1>4
  <2>2. 2 ^ i = 2 ^ k * w /\ w \in Nat \ {0}  BY <2>1, PowerAdds, PowerPositive, Zenon
  <2>3. q \in Nat /\ r \in 0..(w - 1) /\ b = w * q + r
    <3> HIDE DEF w
    <3>1. QED BY <2>2, Quotient
  <2> HIDE DEF w, q, r
  <2>4. v = 2 ^ i * q + (r * 2 ^ k + a)
    <3>1. \A p, x, y, z, c \in Nat : c + (x * y + z) * p = (p * x) * y + (z * p + c)  BY SMTT(30)
    <3>2. QED BY <1>1, <1>2, <2>2, <2>3, <3>1
  <2>5. r * 2 ^ k + a \in 0..(2 ^ i - 1)
    <3>1. r \in Nat /\ r + 1 <= w  BY <2>2, <2>3
    <3>2. \A p, x, y \in Nat : x + 1 <= y => x * p + p <= p * y /\ x * p \in Nat
      <4> TAKE p, x, y \in Nat
      <4> SUFFICES ASSUME x + 1 <= y PROVE x * p + p <= p * y /\ x * p \in Nat  OBVIOUS
      <4>1. y = x + 1 + (y - x - 1) /\ y - x - 1 \in Nat  OBVIOUS
      <4>2. \A z \in Nat : p * (x + 1 + z) = x * p + p + p * z /\ p * z \in Nat /\ x * p \in Nat  OBVIOUS
      <4>3. QED BY <4>1, <4>2
    <3>3. r * 2 ^ k + 2 ^ k <= 2 ^ i /\ r * 2 ^ k \in Nat  BY <1>1, <2>2, <3>1, <3>2
    <3>4. QED BY <1>1, <3>3
  <2>6. v \div 2 ^ i = q
    <3> DEFINE rest == r * 2 ^ k + a
    <3>1. v = 2 ^ i * q + rest /\ rest \in 0..(2 ^ i - 1)  BY <2>4, <2>5
    <3>2. q \in Int  BY <2>3
    <3> HIDE DEF v, rest
    <3>3. QED BY <1>1, <3>1, <3>2, IsMod, Zenon
  <2>7. ~(i < k)  BY <1>4
  <2>8. QED BY <2>6, <2>7, Zenon DEF Bit, q, w
<1>5. QED BY <1>3, <1>4

\* Numbers of n bits with the same bits are the same.
LEMMA SameBits ==
  ASSUME NEW n \in Nat, NEW a \in 0..(2 ^ n - 1), NEW b \in 0..(2 ^ n - 1),
         \A i \in 0..(n - 1) : Bit(a, i) <=> Bit(b, i)
  PROVE  a = b
<1> DEFINE S == {k \in 0..n : a % 2 ^ k = b % 2 ^ k}
<1>0. a \in Nat /\ b \in Nat  BY PowerPositive
<1>1. 0 \in S
  <2>1. 2 ^ 0 = 1 /\ a % 1 = 0 /\ b % 1 = 0  BY <1>0
  <2>2. QED BY <2>1
<1>2. ASSUME NEW k \in 1..n, k - 1 \in S PROVE k \in S
  <2> DEFINE p == 2 ^ (k - 1)
  <2>1. k - 1 \in Nat /\ k = (k - 1) + 1 /\ k - 1 \in 0..(n - 1) /\ k \in 0..n  OBVIOUS
  <2>2. p \in Nat \ {0} /\ 2 ^ k = 2 * p  BY <2>1, PowerStep, PowerPositive, Zenon
  <2>3. a % p = b % p /\ ((a \div p) % 2 = 1 <=> (b \div p) % 2 = 1)  BY <1>2, <2>1 DEF Bit
  <2> HIDE DEF p
  <2>4. ASSUME NEW v \in Nat
        PROVE  v % (2 * p) = p * ((v \div p) % 2) + (v % p)
    <3> DEFINE q == v \div p
               r == v % p
               h == q \div 2
               e == q % 2
    <3>1. q \in Nat /\ r \in 0..(p - 1) /\ v = p * q + r  BY <2>2, Quotient
    <3> HIDE DEF q, r
    <3>2. h \in Nat /\ e \in 0..1 /\ q = 2 * h + e  BY <3>1, Quotient
    <3> HIDE DEF h, e
    <3>3. v = (2 * p) * h + (p * e + r)
      <4>1. \A x, y, z, c \in Nat : x * (2 * y + z) + c = (2 * x) * y + (x * z + c)  BY SMTT(30)
      <4>2. QED BY <2>2, <3>1, <3>2, <4>1
    <3>4. p * e + r \in 0..(2 * p - 1) /\ 2 * p \in Nat \ {0} /\ h \in Int
      <4>1. CASE e = 0  BY <2>2, <3>1, <3>2, <4>1
      <4>2. CASE e = 1  BY <2>2, <3>1, <3>2, <4>2
      <4>3. QED BY <3>2, <4>1, <4>2
    <3> DEFINE rest == p * e + r
               w == 2 * p
    <3>5. v = w * h + rest /\ rest \in 0..(w - 1) /\ w \in Nat \ {0} /\ h \in Int  BY <3>3, <3>4
    <3> HIDE DEF rest, w
    <3>6. v % w = rest  BY <3>5, IsMod, Zenon
    <3>7. QED BY <3>6 DEF rest, w, e, q, r
  <2>5. (a \div p) % 2 \in 0..1 /\ (b \div p) % 2 \in 0..1  BY <1>0, <2>2, Quotient
  <2>6. (a \div p) % 2 = (b \div p) % 2  BY <2>3, <2>5
  <2>7. QED BY <1>0, <2>1, <2>2, <2>3, <2>4, <2>6
<1> HIDE DEF S
<1>3. \A k \in 0..n : k \in S  BY <1>1, <1>2, UpTo
<1>4. a % 2 ^ n = b % 2 ^ n  BY <1>3 DEF S
<1>5. ASSUME NEW v \in 0..(2 ^ n - 1) PROVE v % 2 ^ n = v
  <2>1. 2 ^ n \in Nat \ {0} /\ 2 ^ n * 0 + v = v /\ 0 \in Int  BY PowerPositive
  <2>2. QED BY <2>1, IsMod
<1>6. QED BY <1>4, <1>5

==================================================================================
