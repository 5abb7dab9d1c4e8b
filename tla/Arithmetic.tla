------------------------------- MODULE Arithmetic -------------------------------
(***************************************************************************)
(* Facts about numbers that the proofs share: quotients and remainders, as *)
(* ring indices need them, and the least element of a set.                 *)
(***************************************************************************)
EXTENDS Integers, FiniteSetTheorems, WellFoundedInduction, TLAPS

\* What quotient and remainder are, as the solvers need it said.
LEMMA DivMod ==
  ASSUME NEW S \in Nat \ {0}, NEW a \in Nat
  PROVE  /\ a % S \in 0 .. S - 1
         /\ a \div S \in Nat
         /\ a = S * (a \div S) + (a % S)
OBVIOUS

\* A positive multiple of S is at least S.
LEMMA NoMultiple ==
  ASSUME NEW S \in Nat \ {0}, NEW k \in Int, S * k > 0
  PROVE  S * k >= S
<1>1. k > 0
  OBVIOUS
<1>2. QED
  BY <1>1

\* Two numbers less than S apart have different remainders.
LEMMA Residues ==
  ASSUME NEW S \in Nat \ {0}, NEW a \in Nat, NEW b \in Nat, a > b, a - b < S
  PROVE  a % S # b % S
<1> SUFFICES ASSUME a % S = b % S PROVE FALSE
  OBVIOUS
<1> DEFINE p == a \div S
           q == b \div S
<1>1. p \in Nat /\ q \in Nat /\ a = S * p + (a % S) /\ b = S * q + (b % S)
  BY DivMod
<1>2. a % S \in Int /\ b % S \in Int
  BY DivMod
<1> HIDE DEF p, q
<1>3. a - b = S * p - S * q
  BY <1>1, <1>2
<1>4. S * p - S * q = S * (p - q)
  BY <1>1
<1>5. S * (p - q) >= S
  BY <1>1, <1>3, <1>4, NoMultiple
<1>6. QED
  BY <1>3, <1>4, <1>5

\* Whole laps do not change the remainder.
LEMMA WholeLaps ==
  ASSUME NEW S \in Nat \ {0}, NEW a \in Nat, NEW k \in Nat
  PROVE  (a + S * k) % S = a % S
<1> DEFINE q == a \div S
           r == a % S
           c == a + S * k
           p == c \div S
           s == c % S
<1>1. q \in Nat /\ r \in 0 .. S - 1 /\ a = S * q + r
  BY DivMod
<1>2. S * k \in Nat
  OBVIOUS
<1>3. c \in Nat
  BY <1>2
<1>4. p \in Nat /\ s \in 0 .. S - 1 /\ c = S * p + s
  BY <1>3, DivMod
<1>5. c = a + S * k
  OBVIOUS
<1>6. SUFFICES s = r
  OBVIOUS
<1> HIDE DEF p, q, r, s, c
<1>7. s - r = S * q + S * k - S * p
  BY <1>1, <1>2, <1>4, <1>5
<1>8. S * q + S * k - S * p = S * (q + k - p)
  BY <1>1, <1>4
<1>9. S * q + S * k - S * p = - (S * (p - q - k))
  BY <1>1, <1>4
<1>10. CASE s > r
  <2>1. S * (q + k - p) >= S
    BY <1>1, <1>4, <1>7, <1>8, <1>10, NoMultiple
  <2>2. QED
    BY <1>1, <1>4, <1>7, <1>8, <2>1
<1>11. CASE s < r
  <2>1. S * (p - q - k) >= S
    BY <1>1, <1>4, <1>7, <1>9, <1>11, NoMultiple
  <2>2. QED
    BY <1>1, <1>4, <1>7, <1>9, <2>1
<1>12. QED
  BY <1>1, <1>4, <1>10, <1>11

\* There is one quotient and one remainder.
LEMMA DivModIs ==
  ASSUME NEW d \in Nat, d > 0, NEW q \in Nat, NEW r \in 0 .. d - 1
  PROVE  (d * q + r) \div d = q /\ (d * q + r) % d = r
<1> DEFINE n == d * q + r
           p == n \div d
           o == n % d
<1>1. d * q \in Nat /\ n \in Nat  OBVIOUS
<1>2. p \in Nat /\ o \in 0 .. d - 1 /\ n = d * p + o  BY <1>1, DivMod
<1> SUFFICES p = q /\ o = r  OBVIOUS
<1>3. n = d * q + r  OBVIOUS
<1> HIDE DEF n, p, o
<1>4. d * (p - q) = r - o /\ d * (q - p) = o - r  BY <1>2, <1>3
<1>5. ~(p > q)
  <2>1. ASSUME p > q PROVE d * (p - q) >= d  BY <1>2, <2>1
  <2> QED  BY <1>2, <1>4, <2>1
<1>6. ~(q > p)
  <2>1. ASSUME q > p PROVE d * (q - p) >= d  BY <1>2, <2>1
  <2> QED  BY <1>2, <1>4, <2>1
<1>7. p = q  BY <1>2, <1>5, <1>6
<1> QED  BY <1>2, <1>3, <1>7

\* A set of numbers has a least one: the initial segments of Nat are finite sets,
\* which inclusion orders well.
LEMMA LeastNatural ==
  ASSUME NEW S, S \subseteq Nat, S # {}
  PROVE  \E x \in S : \A y \in S : x <= y
<1> DEFINE R == StrictSubsetOrdering(Nat)
           F == FiniteSubsetsOf(Nat)
           T == {0 .. n : n \in S}
<1>1. IsWellFoundedOn(R, F)  BY FS_StrictSubsetOrderingWellFounded
<1>2. T \subseteq F /\ T # {}
  <2>1. ASSUME NEW n \in S PROVE 0 .. n \in F
    <3>1. 0 \in Int /\ n \in Int  OBVIOUS
    <3>2. IsFiniteSet(0 .. n)  BY <3>1, FS_Interval
    <3> QED  BY <3>2 DEF FiniteSubsetsOf
  <2> QED  BY <2>1
<1>3. PICK t \in T : \A u \in T : ~(<<u, t>> \in R)
  <2> HIDE DEF R, F, T
  <2> QED  BY <1>1, <1>2, WFMin
<1>4. PICK x \in S : t = 0 .. x  BY <1>3
<1>5. ASSUME NEW y \in S PROVE x <= y
  <2> SUFFICES ASSUME y < x PROVE FALSE  OBVIOUS
  <2>1. 0 .. y \subseteq 0 .. x /\ x \in 0 .. x /\ x \notin 0 .. y  OBVIOUS
  <2>2. 0 .. y \subseteq Nat /\ 0 .. x \subseteq Nat  OBVIOUS
  <2>3. <<0 .. y, 0 .. x>> \in R  BY <2>1, <2>2 DEF StrictSubsetOrdering
  <2> QED  BY <1>3, <1>4, <2>3
<1> QED  BY <1>5

\* Induction, for a set.
LEMMA InductionOn ==
  ASSUME NEW S, 0 \in S, \A n \in Nat : n \in S => n + 1 \in S
  PROVE  Nat \subseteq S
<1> SUFFICES ASSUME NEW k \in Nat, k \notin S PROVE FALSE  OBVIOUS
<1> DEFINE T == {n \in Nat : n \notin S}
<1>1. T \subseteq Nat /\ T # {}  OBVIOUS
<1>2. PICK x \in T : \A y \in T : x <= y  BY <1>1, LeastNatural
<1>3. x \in Nat /\ x \notin S  BY <1>2
<1>4. x # 0  BY <1>3
<1>5. x - 1 \in Nat /\ (x - 1) + 1 = x  BY <1>3, <1>4
<1>6. x - 1 \notin T  BY <1>2, <1>5
<1>7. x - 1 \in S  BY <1>5, <1>6
<1> QED  BY <1>3, <1>5, <1>7

\* What a recursive function is made from, and that there is one.
Recursive(N, X, b, step) ==
  \E f \in [0 .. N -> X] : f[0] = b /\ \A i \in 1 .. N : f[i] = step[i][f[i - 1]]

LEMMA Recursion ==
  ASSUME NEW N \in Nat, NEW X, NEW b \in X, NEW step \in [1 .. N -> [X -> X]]
  PROVE  Recursive(N, X, b, step)
<1> DEFINE Steps(f, n) == f[0] = b /\ \A i \in 1 .. n : f[i] = step[i][f[i - 1]]
           S == {n \in Nat : n <= N => \E f \in [0 .. n -> X] : Steps(f, n)}
<1>1. 0 \in S
  <2> DEFINE f == [i \in 0 .. 0 |-> b]
  <2>1. f \in [0 .. 0 -> X] /\ Steps(f, 0)  OBVIOUS
  <2> QED  BY <2>1
<1>2. ASSUME NEW n \in Nat, n \in S PROVE n + 1 \in S
  <2> SUFFICES ASSUME n + 1 <= N PROVE \E f \in [0 .. n + 1 -> X] : Steps(f, n + 1)
    OBVIOUS
  <2>1. PICK g \in [0 .. n -> X] : Steps(g, n)  BY <1>2
  <2>2. n + 1 \in 1 .. N /\ g[n] \in X  BY <2>1
  <2> DEFINE f == [i \in 0 .. n + 1 |-> IF i = n + 1 THEN step[n + 1][g[n]] ELSE g[i]]
  <2>3. step[n + 1][g[n]] \in X  BY <2>2
  <2>4. f \in [0 .. n + 1 -> X]  BY <2>3
  <2>5. \A i \in 0 .. n : f[i] = g[i]  OBVIOUS
  <2>6. f[n + 1] = step[n + 1][g[n]]  OBVIOUS
  <2> HIDE DEF f
  <2>7. ASSUME NEW i \in 1 .. n + 1 PROVE f[i] = step[i][f[i - 1]]
    <3>1. CASE i = n + 1  BY <2>5, <2>6, <3>1
    <3>2. CASE i # n + 1
      <4>1. i \in 1 .. n /\ i \in 0 .. n /\ i - 1 \in 0 .. n  BY <3>2
      <4> QED  BY <2>1, <2>5, <4>1
    <3> QED  BY <3>1, <3>2
  <2>8. f[0] = b  BY <2>1, <2>5
  <2> QED  BY <2>4, <2>7, <2>8
<1> HIDE DEF S
<1>3. N \in S  BY <1>1, <1>2, InductionOn
<1> QED  BY <1>3 DEF S, Recursive

\* Induction up to a bound, for a set.
LEMMA Along ==
  ASSUME NEW N \in Nat, NEW S, 0 \in S, \A i \in 1 .. N : i - 1 \in S => i \in S
  PROVE  0 .. N \subseteq S
<1> DEFINE T == {n \in Nat : n <= N => n \in S}
<1>1. 0 \in T  OBVIOUS
<1>2. ASSUME NEW n \in Nat, n \in T PROVE n + 1 \in T
  <2> SUFFICES ASSUME n + 1 <= N PROVE n + 1 \in S  OBVIOUS
  <2>1. n + 1 \in 1 .. N /\ (n + 1) - 1 = n /\ n \in S  BY <1>2
  <2> QED  BY <2>1
<1> HIDE DEF T
<1>3. Nat \subseteq T  BY <1>1, <1>2, InductionOn
<1> QED  BY <1>3 DEF T

\* Functions that begin and go on alike are alike.
GoAlike(N, f, g) ==
  f[0] = g[0] /\ \A i \in 1 .. N : f[i - 1] = g[i - 1] => f[i] = g[i]

LEMMA SameFrom ==
  ASSUME NEW N \in Nat, NEW f, NEW g, GoAlike(N, f, g)
  PROVE  \A i \in 0 .. N : f[i] = g[i]
<1> DEFINE S == {i \in 0 .. N : f[i] = g[i]}
<1>1. 0 \in S  BY DEF GoAlike
<1>2. \A i \in 1 .. N : i - 1 \in S => i \in S  BY DEF GoAlike
<1> HIDE DEF S
<1>3. 0 .. N \subseteq S  BY <1>1, <1>2, Along
<1> QED  BY <1>3 DEF S

\* The lowest bit of a number of high and low bits.
LEMMA LowBit ==
  ASSUME NEW g \in Nat, NEW Q \in Nat, NEW z \in Nat
  PROVE  /\ (g * (2 * Q) + z) \div 2 = g * Q + (z \div 2)
         /\ (g * (2 * Q) + z) % 2 = z % 2
         /\ g * (2 * Q) + z \in Nat
<1>1. g * (2 * Q) = 2 * (g * Q) /\ g * Q \in Nat  OBVIOUS
<1>2. \A w \in Nat : /\ (2 * w + z) \div 2 = w + (z \div 2)
                    /\ (2 * w + z) % 2 = z % 2
                    /\ 2 * w + z \in Nat
  OBVIOUS
<1> QED  BY <1>1, <1>2

\* A bit above a number less than H is told from the number.
LEMMA TopAlone ==
  ASSUME NEW H \in Nat \ {0}, NEW i \in 0 .. 1, NEW j \in 0 .. 1,
         NEW q \in 0 .. H - 1, NEW w \in 0 .. H - 1
  PROVE  i * H + q = j * H + w => i = j /\ q = w
<1>1. CASE i = 0 /\ j = 0  BY <1>1
<1>2. CASE i = 0 /\ j = 1  BY <1>2
<1>3. CASE i = 1 /\ j = 0  BY <1>3
<1>4. CASE i = 1 /\ j = 1  BY <1>4
<1>5. (i = 0 \/ i = 1) /\ (j = 0 \/ j = 1)  OBVIOUS
<1> QED  BY <1>1, <1>2, <1>3, <1>4, <1>5

================================================================================
