----------------------------- MODULE WordProofs -----------------------------
(***************************************************************************)
(* Words of every width: what &, ^^, casts and the signed view of a word   *)
(* do to numbers.  The recursion of & is shown to define a function, by the *)
(* least number principle, and then read bit by bit.  Nothing is known to  *)
(* the provers about 2^k: Powers(n) says what it is up to n, and a module  *)
(* that cites these lemmas owes it as an assumption on its widths.         *)
(*                                                                         *)
(* The second half is what the element loops need: sums over an interval,  *)
(* the digits of a number, a function built by one write after another, and*)
(* a word known by its bits under &, | and ^^, and a word put together from *)
(* digits or from bits.                                                    *)
(***************************************************************************)
EXTENDS Words, FiniteSetTheorems, TLAPS

\* Every set of numbers has a least one. This is the induction the lemmas below use.
LEMMA LeastNumber ==
  ASSUME NEW T, T \subseteq Nat, T # {}
  PROVE  \E k \in T : \A j \in T : k <= j
<1> DEFINE Below == OpToRel(<, Nat)
<1>1. IsWellFoundedOn(Below, Nat)
  BY NatLessThanWellFounded
<1>2. \E k \in T : \A j \in T : <<j, k>> \notin Below
  <2> HIDE DEF Below
  <2> QED BY <1>1, WFMin
<1>3. PICK k \in T : \A j \in T : <<j, k>> \notin Below
  BY <1>2
<1>4. ASSUME NEW j \in T PROVE k <= j
  <2>1. ~(j < k) BY <1>3, <1>4 DEF OpToRel
  <2> QED BY <2>1
<1> QED BY <1>4

\* Quotient and remainder by a positive number, as \div and % give them.
LEMMA DivMod ==
  ASSUME NEW a \in Int, NEW m \in Nat \ {0}
  PROVE /\ a \div m \in Int /\ a % m \in 0 .. m-1 /\ a = m * (a \div m) + (a % m)
  BY SMT

\* Whoever writes a number as a multiple of m and a rest below m has found both.
LEMMA Unique ==
  ASSUME NEW a \in Int, NEW m \in Nat \ {0}, NEW q \in Int, NEW r \in 0 .. m-1, a = q * m + r
  PROVE a \div m = q /\ a % m = r
  BY SMT

\* one step of the recursion, and a function that follows it up to n
AndStep(g, a, b) ==
  IF a = 0 \/ b = 0 THEN 0 ELSE 2 * g[<<a \div 2, b \div 2>>] + (a % 2) * (b % 2)
Common(n, g) ==
  /\ g \in [(0 .. n) \X Nat -> Nat]
  /\ \A a \in 0 .. n, b \in Nat : g[<<a, b>>] = AndStep(g, a, b)

\* Half of a number and its lowest bit: each step of the recursion is on smaller numbers.
LEMMA Half ==
  ASSUME NEW a \in Nat
  PROVE /\ a \div 2 \in Nat /\ a % 2 \in 0 .. 1 /\ a = 2 * (a \div 2) + (a % 2)
        /\ a # 0 => a \div 2 < a
  BY SMT

\* For every n there is a function that follows the recursion of & up to n.
LEMMA CommonExists == \A n \in Nat : \E g : Common(n, g)
<1> DEFINE Bad == {n \in Nat : ~ \E g : Common(n, g)}
<1> SUFFICES ASSUME Bad # {} PROVE FALSE
  OBVIOUS
<1>1. PICK n \in Bad : \A j \in Bad : n <= j
  BY LeastNumber
<1>2. CASE n = 0
  <2> DEFINE g == [p \in (0 .. 0) \X Nat |-> 0]
  <2>1. \A a \in 0 .. 0, b \in Nat : g[<<a, b>>] = AndStep(g, a, b)
    <3>1. \A a \in 0 .. 0 : a = 0 OBVIOUS
    <3> QED BY <3>1 DEF AndStep
  <2>2. Common(0, g)
    BY <2>1 DEF Common
  <2> QED BY <1>2, <2>2
<1>3. CASE n # 0
  <2>1. n \in Nat \ {0} /\ n - 1 \in Nat /\ n - 1 \notin Bad
    BY <1>1, <1>3
  <2>2. PICK g0 : Common(n - 1, g0)
    BY <2>1
  <2> DEFINE g == [p \in (0 .. n) \X Nat |->
                     IF p[1] < n THEN g0[p] ELSE AndStep(g0, p[1], p[2])]
  <2>3. \A a \in 0 .. n - 1, b \in Nat :
           /\ g0[<<a, b>>] \in Nat /\ g0[<<a, b>>] = AndStep(g0, a, b)
           /\ g[<<a, b>>] = g0[<<a, b>>]
    <3>1. \A a \in 0 .. n - 1, b \in Nat :
             g0[<<a, b>>] \in Nat /\ g0[<<a, b>>] = AndStep(g0, a, b)
      BY <2>2 DEF Common
    <3>2. \A a \in 0 .. n - 1 : a \in 0 .. n /\ a < n
      BY <2>1
    <3> QED BY <3>1, <3>2
  <2>4. \A b \in Nat : g[<<n, b>>] = AndStep(g0, n, b)
    BY <2>1
  <2>5. \A a \in 0 .. n, b \in Nat :
           /\ a \div 2 \in Nat /\ b \div 2 \in Nat /\ a % 2 \in 0 .. 1 /\ b % 2 \in 0 .. 1
           /\ a # 0 => a \div 2 \in 0 .. n - 1
    BY <2>1, Half
  <2> HIDE DEF g
  <2>6. \A b \in Nat : AndStep(g0, n, b) \in Nat
    <3> SUFFICES ASSUME NEW b \in Nat PROVE AndStep(g0, n, b) \in Nat OBVIOUS
    <3>1. g0[<<n \div 2, b \div 2>>] \in Nat BY <2>1, <2>3, <2>5
    <3>2. (n % 2) * (b % 2) \in Nat BY <2>1, <2>5
    <3> QED BY <3>1, <3>2 DEF AndStep
  <2>7. \A a \in 0 .. n, b \in Nat : g[<<a, b>>] \in Nat
    <3>1. \A a \in 0 .. n : a \in 0 .. n - 1 \/ a = n BY <2>1
    <3> QED BY <3>1, <2>3, <2>4, <2>6
  <2>8. g \in [(0 .. n) \X Nat -> Nat]
    <3>1. \A p \in (0 .. n) \X Nat : g[p] \in Nat
      BY <2>7
    <3> QED BY <3>1 DEF g
  <2>9. ASSUME NEW a \in 0 .. n, NEW b \in Nat
        PROVE g[<<a, b>>] = AndStep(g, a, b)
    <3>1. g[<<a, b>>] = AndStep(g0, a, b)
      <4>1. a \in 0 .. n - 1 \/ a = n BY <2>1
      <4> QED BY <4>1, <2>3, <2>4
    <3>2. CASE a = 0
      BY <3>1, <3>2 DEF AndStep
    <3>3. CASE a # 0
      <4>1. g[<<a \div 2, b \div 2>>] = g0[<<a \div 2, b \div 2>>]
        BY <2>3, <2>5, <3>3
      <4> QED BY <3>1, <4>1 DEF AndStep
    <3> QED BY <3>2, <3>3
  <2>10. Common(n, g)
    BY <2>8, <2>9 DEF Common
  <2> QED BY <2>10, <1>1
<1> QED BY <1>2, <1>3

\* Two functions that follow the recursion agree wherever both do.
LEMMA CommonUnique ==
  ASSUME NEW m \in Nat, NEW n \in Nat, NEW g, NEW h, Common(m, g), Common(n, h),
         NEW a \in Nat, a <= m, a <= n, NEW b \in Nat
  PROVE  g[<<a, b>>] = h[<<a, b>>]
<1> DEFINE Bad == {k \in Nat : k <= m /\ k <= n /\ \E c \in Nat : g[<<k, c>>] # h[<<k, c>>]}
<1>1. SUFFICES ASSUME Bad # {} PROVE FALSE
  OBVIOUS
<1>2. PICK k \in Bad : \A j \in Bad : k <= j
  BY <1>1, LeastNumber
<1>3. k \in Nat /\ k \in 0 .. m /\ k \in 0 .. n
  OBVIOUS
<1>4. PICK c \in Nat : g[<<k, c>>] # h[<<k, c>>]
  OBVIOUS
<1>5. g[<<k, c>>] = AndStep(g, k, c) /\ h[<<k, c>>] = AndStep(h, k, c)
  BY <1>3 DEF Common
<1>6. k # 0
  BY <1>4, <1>5 DEF AndStep
<1>7. k \div 2 \in Nat /\ k \div 2 < k /\ c \div 2 \in Nat
  BY <1>3, <1>6, Half
<1>8. k \div 2 \notin Bad
  BY <1>2, <1>7, <1>3
<1>9. g[<<k \div 2, c \div 2>>] = h[<<k \div 2, c \div 2>>]
  BY <1>3, <1>7, <1>8
<1> QED  BY <1>4, <1>5, <1>9 DEF AndStep

\* CommonBits, which & reads, is a function on numbers and follows the recursion.
LEMMA CommonBitsStep ==
  /\ CommonBits \in [Nat \X Nat -> Nat]
  /\ \A a, b \in Nat : CommonBits[<<a, b>>] = AndStep(CommonBits, a, b)
<1> DEFINE upto(n) == CHOOSE g : Common(n, g)
           f == [p \in Nat \X Nat |-> upto(p[1])[p]]
<1>1. \A n \in Nat : Common(n, upto(n))
  <2> SUFFICES ASSUME NEW n \in Nat PROVE Common(n, upto(n)) OBVIOUS
  <2> HIDE DEF Common
  <2> QED BY CommonExists
<1> HIDE DEF upto
<1>2. \A a, b \in Nat : f[<<a, b>>] = upto(a)[<<a, b>>] /\ f[<<a, b>>] \in Nat
  <2> SUFFICES ASSUME NEW a \in Nat, NEW b \in Nat PROVE upto(a)[<<a, b>>] \in Nat OBVIOUS
  <2>1. Common(a, upto(a)) BY <1>1
  <2> QED BY <2>1 DEF Common
<1> HIDE DEF f
<1>3. ASSUME NEW a \in Nat, NEW b \in Nat PROVE f[<<a, b>>] = AndStep(f, a, b)
  <2>1. upto(a)[<<a, b>>] = AndStep(upto(a), a, b)
    <3>1. Common(a, upto(a)) BY <1>1
    <3> QED BY <3>1 DEF Common
  <2>2. a \div 2 \in Nat /\ b \div 2 \in Nat /\ a \div 2 <= a
    BY Half
  <2>3. upto(a)[<<a \div 2, b \div 2>>] = f[<<a \div 2, b \div 2>>]
    <3>1. Common(a, upto(a)) /\ Common(a \div 2, upto(a \div 2)) BY <1>1, <2>2
    <3>2. upto(a)[<<a \div 2, b \div 2>>] = upto(a \div 2)[<<a \div 2, b \div 2>>]
      BY <2>2, <3>1, CommonUnique
    <3> QED BY <1>2, <2>2, <3>2
  <2> QED BY <1>2, <2>1, <2>3 DEF AndStep
<1> DEFINE Solves(h) == h = [p \in Nat \X Nat |->
             IF p[1] = 0 \/ p[2] = 0 THEN 0
             ELSE 2 * h[<<p[1] \div 2, p[2] \div 2>>] + (p[1] % 2) * (p[2] % 2)]
<1>4. Solves(f)
  <2>1. f = [p \in Nat \X Nat |-> f[p]]
    BY DEF f
  <2>2. \A p \in Nat \X Nat : f[p] =
             IF p[1] = 0 \/ p[2] = 0 THEN 0
             ELSE 2 * f[<<p[1] \div 2, p[2] \div 2>>] + (p[1] % 2) * (p[2] % 2)
    BY <1>3 DEF AndStep
  <2> QED BY <2>1, <2>2
<1>5. CommonBits = CHOOSE h : Solves(h)
  BY DEF CommonBits
<1>6. Solves(CommonBits)
  <2> HIDE DEF Solves
  <2> QED BY <1>4, <1>5
<1>7. \A a, b \in Nat : CommonBits[<<a, b>>] = AndStep(CommonBits, a, b)
  BY <1>6 DEF AndStep
<1>8. CommonBits \in [Nat \X Nat -> Nat]
  <2> DEFINE Bad == {k \in Nat : \E c \in Nat : CommonBits[<<k, c>>] \notin Nat}
  <2>1. Bad = {}
    <3>1. SUFFICES ASSUME Bad # {} PROVE FALSE
      OBVIOUS
    <3>2. PICK k \in Bad : \A j \in Bad : k <= j
      BY <3>1, LeastNumber
    <3>3. PICK c \in Nat : CommonBits[<<k, c>>] \notin Nat
      BY <3>2
    <3>4. CommonBits[<<k, c>>] = AndStep(CommonBits, k, c)
      BY <1>7
    <3>5. k \div 2 \in Nat /\ c \div 2 \in Nat /\ k % 2 \in 0 .. 1 /\ c % 2 \in 0 .. 1
      BY Half
    <3>6. k # 0 => k \div 2 \notin Bad
      BY <3>2, Half
    <3>7. k # 0 => CommonBits[<<k \div 2, c \div 2>>] \in Nat
      BY <3>5, <3>6
    <3>8. (k % 2) * (c % 2) \in Nat
      BY <3>5
    <3> QED BY <3>3, <3>4, <3>7, <3>8 DEF AndStep
  <2> HIDE DEF Solves
  <2>2. \A a, c \in Nat : CommonBits[<<a, c>>] \in Nat
    BY <2>1
  <2>3. CommonBits = [p \in Nat \X Nat |-> CommonBits[p]]
    BY <1>6 DEF Solves
  <2> QED BY <2>2, <2>3
<1> QED BY <1>7, <1>8

\* The bits of x & y, from the lowest: C++ & works bit by bit.
LEMMA AndBits ==
  ASSUME NEW a \in Nat, NEW b \in Nat
  PROVE  /\ (a & b) \in Nat
         /\ (a & b) \div 2 = (a \div 2) & (b \div 2)
         /\ (a & b) % 2 = (a % 2) * (b % 2)
         /\ a = 0 \/ b = 0 => (a & b) = 0
<1> DEFINE h == (a \div 2) & (b \div 2)
           l == (a % 2) * (b % 2)
<1>1. a \div 2 \in Nat /\ b \div 2 \in Nat /\ l \in 0 .. 1
  BY Half
<1>2. (a & b) \in Nat /\ h \in Nat
  BY <1>1, CommonBitsStep DEF &
<1>3. (a & b) = IF a = 0 \/ b = 0 THEN 0 ELSE 2 * h + l
  BY CommonBitsStep DEF &, AndStep
<1>4. a = 0 \/ b = 0 => h = 0 /\ l = 0
  <2>1. 0 \div 2 = 0 /\ 0 % 2 = 0 OBVIOUS
  <2>2. \A c \in Nat : CommonBits[<<0, c>>] = 0 /\ CommonBits[<<c, 0>>] = 0
    BY CommonBitsStep DEF AndStep
  <2>3. CASE a = 0
    <3>1. a \div 2 = 0 /\ a % 2 = 0 BY <2>1, <2>3
    <3>2. h = 0 BY <1>1, <2>2, <3>1 DEF &
    <3>3. b % 2 \in Int BY <1>1, Half
    <3>4. l = 0 BY <3>1, <3>3
    <3> QED BY <3>2, <3>4
  <2>4. CASE b = 0
    <3>1. b \div 2 = 0 /\ b % 2 = 0 BY <2>1, <2>4
    <3>2. h = 0 BY <1>1, <2>2, <3>1 DEF &
    <3>3. a % 2 \in Int BY <1>1, Half
    <3>4. l = 0 BY <3>1, <3>3
    <3> QED BY <3>2, <3>4
  <2> QED BY <2>3, <2>4
<1>5. (a & b) = 2 * h + l
  BY <1>1, <1>2, <1>3, <1>4
<1> HIDE DEF h, l
<1>6. (a & b) \div 2 = h /\ (a & b) % 2 = l
  BY <1>1, <1>2, <1>5
<1> QED BY <1>2, <1>3, <1>6 DEF h, l

-----------------------------------------------------------------------------
\* what ^ means for the powers up to 2^n: the provers have no axiom about ^
Powers(n) == \A k \in 0 .. n - 1 : 2^(k + 1) = 2 * 2^k

\* Powers of two are positive numbers.
LEMMA PowersPositive ==
  ASSUME NEW n \in Nat, Powers(n), NEW k \in 0 .. n
  PROVE  2^k \in Nat \ {0}
<1> DEFINE Bad == {i \in Nat : i <= n /\ 2^i \notin Nat \ {0}}
<1>1. SUFFICES ASSUME Bad # {} PROVE FALSE
  OBVIOUS
<1>2. PICK i \in Bad : \A j \in Bad : i <= j
  BY <1>1, LeastNumber
<1>3. 2^0 = 1
  OBVIOUS
<1>4. i # 0
  <2> SUFFICES ASSUME i = 0 PROVE FALSE OBVIOUS
  <2> QED BY <1>2, <1>3
<1>5. i - 1 \in Nat /\ i - 1 \in 0 .. n - 1 /\ i - 1 \notin Bad
  BY <1>2, <1>4
<1>6. 2^(i - 1) \in Nat \ {0}
  BY <1>5
<1>7. 2^((i - 1) + 1) = 2 * 2^(i - 1)
  BY <1>5 DEF Powers
<1>8. (i - 1) + 1 = i
  OBVIOUS
<1> QED  BY <1>6, <1>7, <1>8

\* A shift by k and one by l make a shift by k + l.
LEMMA PowersAdd ==
  ASSUME NEW n \in Nat, Powers(n), NEW k \in Nat, NEW l \in Nat, k + l <= n
  PROVE  2^(k + l) = 2^k * 2^l
<1> DEFINE Bad == {i \in Nat : i <= l /\ 2^(k + i) # 2^k * 2^i}
<1>1. SUFFICES ASSUME Bad # {} PROVE FALSE
  OBVIOUS
<1>2. PICK i \in Bad : \A j \in Bad : i <= j
  BY <1>1, LeastNumber
<1>3. 2^0 = 1 /\ 2^k \in Nat /\ k + 0 = k
  BY PowersPositive
<1>4. i # 0
  <2> SUFFICES ASSUME i = 0 PROVE FALSE OBVIOUS
  <2> QED BY <1>2, <1>3
<1>5. i - 1 \in Nat /\ i - 1 \notin Bad /\ i - 1 \in 0 .. n - 1 /\ k + (i - 1) \in 0 .. n - 1
  BY <1>2, <1>4
<1>6. 2^(k + (i - 1)) = 2^k * 2^(i - 1)
  BY <1>5
<1>7. 2^((i - 1) + 1) = 2 * 2^(i - 1) /\ 2^((k + (i - 1)) + 1) = 2 * 2^(k + (i - 1))
  BY <1>5 DEF Powers
<1>8. (i - 1) + 1 = i /\ (k + (i - 1)) + 1 = k + i
  OBVIOUS
<1>9. 2^(i - 1) \in Nat
  BY <1>5, PowersPositive
<1>10. 2 * (2^k * 2^(i - 1)) = 2^k * (2 * 2^(i - 1))
  BY <1>3, <1>9
<1> QED  BY <1>6, <1>7, <1>8, <1>10

\* A number whose low n bits are 0 has none in common with a word of n bits.
LEMMA NoCommonBits ==
  ASSUME NEW n \in Nat, Powers(n), NEW x \in Nat, NEW y \in 0 .. 2^n - 1
  PROVE  ((x * 2^n) & y) = 0
<1> DEFINE Bad == {k \in Nat : k <= n /\ \E z \in 0 .. 2^k - 1 : ((x * 2^k) & z) # 0}
<1>0. n \in 0 .. n /\ 2^n \in Nat
  BY PowersPositive
<1>1. SUFFICES ASSUME Bad # {} PROVE FALSE
  BY <1>0
<1>2. PICK k \in Bad : \A j \in Bad : k <= j
  BY <1>1, LeastNumber
<1>3. k \in 0 .. n /\ 2^k \in Nat
  BY PowersPositive
<1>4. PICK z \in 0 .. 2^k - 1 : ((x * 2^k) & z) # 0
  BY <1>2
<1>5. z \in Nat /\ x * 2^k \in Nat
  BY <1>3
<1>6. k # 0
  <2>1. 2^0 = 1 OBVIOUS
  <2>2. k = 0 => z = 0 BY <2>1
  <2> QED BY <2>2, <1>4, <1>5, AndBits
<1>7. k - 1 \in Nat /\ k - 1 \in 0 .. n - 1 /\ k - 1 \notin Bad /\ (k - 1) + 1 = k
  BY <1>2, <1>3, <1>6
<1> DEFINE q == 2^(k - 1)
<1>8. q \in Nat \ {0} /\ 2^k = 2 * q
  <2>1. 2^((k - 1) + 1) = 2 * 2^(k - 1) BY <1>7 DEF Powers
  <2> QED BY <2>1, <1>7, PowersPositive
<1>9. z \div 2 \in 0 .. q - 1
  BY <1>5, <1>8, Half
<1>10. (x * 2^k) \div 2 = x * q /\ (x * 2^k) % 2 = 0
  <2>1. x * 2^k = (x * q) * 2 + 0 BY <1>8
  <2>2. x * q \in Int BY <1>8
  <2> HIDE DEF q
  <2> QED BY <2>1, <2>2, <1>5, Unique
<1>11. ((x * q) & (z \div 2)) = 0
  BY <1>7, <1>9
<1> HIDE DEF q
<1>12. ((x * 2^k) & z) \div 2 = 0 /\ ((x * 2^k) & z) % 2 = 0 /\ ((x * 2^k) & z) \in Nat
  <2>1. z % 2 \in Int BY <1>5, Half
  <2>2. 0 * (z % 2) = 0 BY <2>1
  <2>3. /\ ((x * 2^k) & z) \in Nat
        /\ ((x * 2^k) & z) \div 2 = ((x * 2^k) \div 2) & (z \div 2)
        /\ ((x * 2^k) & z) % 2 = ((x * 2^k) % 2) * (z % 2)
    BY <1>5, AndBits
  <2> QED BY <1>10, <1>11, <2>2, <2>3
<1>13. ((x * 2^k) & z) = 0
  BY <1>12, Half
<1> QED  BY <1>4, <1>13

\* x & y is no greater than x and y: a mask adds no bit.
LEMMA AndAtMost ==
  ASSUME NEW x \in Nat, NEW y \in Nat
  PROVE  (x & y) <= x /\ (x & y) <= y
<1> DEFINE Bad == {k \in Nat : \E z \in Nat : ~((k & z) <= k /\ (k & z) <= z)}
<1>1. SUFFICES ASSUME Bad # {} PROVE FALSE
  OBVIOUS
<1>2. PICK k \in Bad : \A j \in Bad : k <= j
  BY <1>1, LeastNumber
<1>3. PICK z \in Nat : ~((k & z) <= k /\ (k & z) <= z)
  BY <1>2
<1>4. k # 0
  <2>1. 0 \in Nat /\ ((0 & z) = 0) BY AndBits
  <2> QED BY <2>1, <1>3
<1>5. k \div 2 \notin Bad /\ k \div 2 \in Nat /\ z \div 2 \in Nat
  BY <1>2, <1>4, Half
<1> DEFINE a == k \div 2  b == z \div 2
<1>6. (a & b) <= a /\ (a & b) <= b
  BY <1>5
<1> DEFINE c == k & z  d == a & b  p == k % 2  q == z % 2
<1>7. /\ k = 2 * a + p /\ z = 2 * b + q /\ p \in 0 .. 1 /\ q \in 0 .. 1
      /\ c \in Nat /\ d \in Nat /\ c = 2 * d + p * q
  <2>1. (k & z) \in Nat /\ (a & b) \in Nat /\ (k & z) \div 2 = (a & b) /\ (k & z) % 2 = (k % 2) * (z % 2)
    BY <1>5, AndBits
  <2>2. (k & z) = 2 * ((k & z) \div 2) + ((k & z) % 2)
    BY <2>1, Half
  <2> QED BY <2>1, <2>2, Half
<1>8. ~(c <= k /\ c <= z) /\ d <= a /\ d <= b
  BY <1>3, <1>6
<1> HIDE DEF a, b, c, d, p, q
<1>9. p * q <= p /\ p * q <= q /\ p * q \in Nat
  BY <1>7
<1> QED  BY <1>5, <1>7, <1>8, <1>9 DEF a, b

\* The bits of x ^^ y, from the lowest: C++ ^ works bit by bit.
LEMMA XorBits ==
  ASSUME NEW x \in Nat, NEW y \in Nat
  PROVE  /\ (x ^^ y) \in Nat
         /\ (x ^^ y) \div 2 = (x \div 2) ^^ (y \div 2)
         /\ (x ^^ y) % 2 = IF x % 2 = y % 2 THEN 0 ELSE 1
<1> DEFINE a == x \div 2  b == y \div 2  c == x & y  d == a & b
           p == x % 2  q == y % 2
<1>1. x = 2 * a + p /\ y = 2 * b + q /\ p \in 0 .. 1 /\ q \in 0 .. 1 /\ a \in Nat /\ b \in Nat
  BY Half
<1>2. c \in Nat /\ d \in Nat /\ c = 2 * d + p * q
  <2>1. c \in Nat /\ d \in Nat /\ c \div 2 = d /\ c % 2 = p * q
    BY <1>1, AndBits
  <2>2. c = 2 * (c \div 2) + (c % 2)
    BY <2>1, Half
  <2> QED BY <2>1, <2>2
<1>3. c <= x /\ c <= y
  BY AndAtMost
<1>4. (x ^^ y) = x + y - 2 * c /\ (a ^^ b) = a + b - 2 * d
  BY DEF ^^
<1> HIDE DEF a, b, c, d, p, q
<1>5. (x ^^ y) = (a ^^ b) * 2 + (IF p = q THEN 0 ELSE 1)
  <2>1. p * q = IF p = 1 /\ q = 1 THEN 1 ELSE 0 BY <1>1
  <2> QED BY <1>1, <1>2, <1>4, <2>1
<1>6. (x ^^ y) \in Nat /\ (a ^^ b) \in Int
  BY <1>1, <1>2, <1>3, <1>4
<1>7. (x ^^ y) \div 2 = (a ^^ b) /\ (x ^^ y) % 2 = (IF p = q THEN 0 ELSE 1)
  BY <1>5, <1>6
<1> QED  BY <1>6, <1>7 DEF a, b, p, q

\* what the top bit of an exclusive or of two k-bit words tells
XorTop(k, a, b) ==
  /\ (a ^^ b) \in 0 .. 2^k - 1
  /\ (a ^^ b) >= 2^(k - 1) <=> ~(a >= 2^(k - 1) <=> b >= 2^(k - 1))

\* The top bit of an exclusive or tells whether the top bits differ: the code's test of
\* two signs.
LEMMA TopBitsDiffer ==
  ASSUME NEW n \in Nat \ {0}, Powers(n), NEW x \in 0 .. 2^n - 1, NEW y \in 0 .. 2^n - 1
  PROVE  XorTop(n, x, y)
<1> DEFINE Bad == {k \in Nat \ {0} : k <= n /\ \E a, b \in 0 .. 2^k - 1 : ~XorTop(k, a, b)}
<1>1. SUFFICES ASSUME Bad # {} PROVE FALSE
  OBVIOUS
<1>2. PICK k \in Bad : \A j \in Bad : k <= j
  BY <1>1, LeastNumber
<1>3. k \in Nat \ {0} /\ k \in 0 .. n /\ k - 1 \in 0 .. n - 1 /\ k - 1 \in 0 .. n
      /\ (k - 1) + 1 = k
  BY <1>2
<1> DEFINE q == 2^(k - 1)
<1>4. q \in Nat \ {0} /\ 2^k = 2 * q
  <2>1. 2^((k - 1) + 1) = 2 * 2^(k - 1) BY <1>3 DEF Powers
  <2> QED BY <2>1, <1>3, PowersPositive
<1>5. PICK a \in 0 .. 2^k - 1, b \in 0 .. 2^k - 1 : ~XorTop(k, a, b)
  BY <1>2
<1>6. a \in Nat /\ b \in Nat
  BY <1>4
<1>7. /\ a \div 2 \in 0 .. q - 1 /\ b \div 2 \in 0 .. q - 1 /\ a % 2 \in 0 .. 1 /\ b % 2 \in 0 .. 1
      /\ a = 2 * (a \div 2) + (a % 2) /\ b = 2 * (b \div 2) + (b % 2)
  BY <1>4, <1>5, <1>6, Half
<1> DEFINE e == a ^^ b  f == (a \div 2) ^^ (b \div 2)
<1>8. e \in Nat /\ f \in Nat /\ e = 2 * f + (e % 2) /\ e % 2 = IF a % 2 = b % 2 THEN 0 ELSE 1
  <2>1. e \in Nat /\ f \in Nat /\ e \div 2 = f /\ e % 2 = IF a % 2 = b % 2 THEN 0 ELSE 1
    <3>1. a \div 2 \in Nat /\ b \div 2 \in Nat BY <1>6, Half
    <3> QED BY <1>6, <3>1, XorBits
  <2> QED BY <2>1, Half
<1>9. CASE k = 1
  <2>1. q = 1
    <3>1. 2^0 = 1 OBVIOUS
    <3> QED BY <1>9, <3>1
  <2>2. (a \div 2) = 0 /\ (b \div 2) = 0 /\ f = 0
    <3>1. (a \div 2) = 0 /\ (b \div 2) = 0 BY <2>1, <1>7
    <3>2. 0 \in Nat /\ ((0 & 0) = 0) BY AndBits
    <3> QED BY <3>1, <3>2 DEF ^^
  <2> HIDE DEF q, e, f
  <2>3. XorTop(k, a, b) <=> /\ e \in 0 .. 2 * q - 1
                            /\ (e >= q) <=> ~((a >= q) <=> (b >= q))
    BY <1>4 DEF q, e, XorTop
  <2>4. /\ e \in 0 .. 2 * q - 1
        /\ (e >= q) <=> ~((a >= q) <=> (b >= q))
    BY <1>7, <1>8, <2>1, <2>2
  <2> QED BY <1>5, <2>3, <2>4
<1>10. CASE k # 1
  <2>1. k - 1 \in Nat \ {0} /\ k - 1 <= n /\ ~(k <= k - 1)
    BY <1>3, <1>10
  <2>2. XorTop(k - 1, a \div 2, b \div 2)
    <3>1. k - 1 \notin Bad BY <1>2, <2>1
    <3> HIDE DEF e, f
    <3> QED BY <1>7, <2>1, <3>1
  <2> DEFINE r == 2^((k - 1) - 1)
  <2>3. r \in Nat \ {0} /\ q = 2 * r
    <3>1. (k - 1) - 1 \in 0 .. n - 1 /\ (k - 1) - 1 \in 0 .. n /\ ((k - 1) - 1) + 1 = k - 1
      BY <1>3, <2>1
    <3>2. 2^(((k - 1) - 1) + 1) = 2 * 2^((k - 1) - 1) BY <3>1 DEF Powers
    <3> QED BY <3>1, <3>2, PowersPositive
  <2>4. /\ f \in 0 .. q - 1
        /\ (f >= r) <=> ~((a \div 2 >= r) <=> (b \div 2 >= r))
    BY <2>2 DEF XorTop
  <2> HIDE DEF q, e, f, r
  <2>5. XorTop(k, a, b) <=> /\ e \in 0 .. 2 * q - 1
                            /\ (e >= q) <=> ~((a >= q) <=> (b >= q))
    BY <1>4 DEF q, e, XorTop
  <2>6. (a >= q <=> a \div 2 >= r) /\ (b >= q <=> b \div 2 >= r) /\ (e >= q <=> f >= r)
    BY <1>4, <1>6, <1>7, <1>8, <2>3
  <2>7. e \in 0 .. 2 * q - 1
    BY <1>4, <1>8, <2>4
  <2> QED BY <1>5, <2>4, <2>5, <2>6, <2>7
<1> QED  BY <1>9, <1>10

-----------------------------------------------------------------------------
\* A cast to w bits leaves a word, and what it cuts off is the shift by w.
LEMMA TruncWord ==
  ASSUME NEW w, 2^w \in Nat \ {0}, NEW a \in Int
  PROVE  /\ Trunc(w, a) \in Word(w) /\ Shr(a, w) \in Int
         /\ a = Shr(a, w) * 2^w + Trunc(w, a)
<1> DEFINE p == 2^w
<1>1. p \in Nat \ {0} OBVIOUS
<1> HIDE DEF p
<1>2. a \div p \in Int /\ a % p \in 0 .. p-1 /\ a = (a \div p) * p + (a % p)
  BY <1>1, DivMod
<1> QED BY <1>2 DEF Trunc, Word, Shr, p

\* A cast of a multiple of 2^w and a word is that word.
LEMMA TruncIs ==
  ASSUME NEW w, 2^w \in Nat \ {0}, NEW a \in Int, NEW k \in Int, NEW r \in Word(w), a = k * 2^w + r
  PROVE  Trunc(w, a) = r /\ Shr(a, w) = k
<1> DEFINE p == 2^w
<1>1. p \in Nat \ {0} /\ a = k * p + r /\ r \in 0 .. p-1 BY DEF Word
<1> HIDE DEF p
<1>2. a \div p = k /\ a % p = r
  BY <1>1, Unique
<1> QED BY <1>2 DEF Trunc, Shr, p

\* A cast does not see multiples of 2^w: wrapping once more changes nothing.
LEMMA TruncShift ==
  ASSUME NEW w, 2^w \in Nat \ {0}, NEW a \in Int, NEW k \in Int
  PROVE  Trunc(w, a + k * 2^w) = Trunc(w, a)
<1> DEFINE p == 2^w  t == Trunc(w, a)  h == Shr(a, w)
<1>1. p \in Nat \ {0} /\ t \in Word(w) /\ h \in Int /\ a = h * p + t /\ t \in Int
  BY TruncWord DEF Word
<1> HIDE DEF p, t, h
<1>2. a + k * p = (h + k) * p + t /\ a + k * p \in Int /\ h + k \in Int
  BY <1>1
<1>3. Trunc(w, a + k * p) = t
  BY <1>1, <1>2, TruncIs DEF p
<1> QED BY <1>3 DEF p, t

\* Casting a term before a sum, a difference or a product changes nothing once the
\* result is cast to the same width: unsigned arithmetic of the code wraps.
LEMMA TruncInner ==
  ASSUME NEW w, 2^w \in Nat \ {0}, NEW a \in Int, NEW b \in Int
  PROVE  /\ Trunc(w, Trunc(w, a) + b) = Trunc(w, a + b)
         /\ Trunc(w, b - Trunc(w, a)) = Trunc(w, b - a)
         /\ Trunc(w, Trunc(w, a) * b) = Trunc(w, a * b)
<1> DEFINE p == 2^w  t == Trunc(w, a)  h == Shr(a, w)
<1>1. p \in Nat \ {0} /\ h \in Int /\ a = h * p + t /\ t \in Int
  BY TruncWord DEF Word
<1> HIDE DEF p, t, h
<1>2. a + b = (t + b) + h * p /\ b - a = (b - t) + (-h) * p /\ a * b = t * b + (h * b) * p
  BY <1>1
<1>3. t + b \in Int /\ b - t \in Int /\ t * b \in Int /\ -h \in Int /\ h * b \in Int
  BY <1>1
<1>4. Trunc(w, (t + b) + h * p) = Trunc(w, t + b)
  BY <1>1, <1>3, TruncShift DEF p
<1>5. Trunc(w, (b - t) + (-h) * p) = Trunc(w, b - t)
  BY <1>1, <1>3, TruncShift DEF p
<1>6. Trunc(w, t * b + (h * b) * p) = Trunc(w, t * b)
  BY <1>1, <1>3, TruncShift DEF p
<1>7. Trunc(w, a + b) = Trunc(w, t + b)
  BY <1>2, <1>4
<1>8. Trunc(w, b - a) = Trunc(w, b - t)
  BY <1>2, <1>5
<1>9. Trunc(w, a * b) = Trunc(w, t * b)
  BY <1>2, <1>6
<1> QED BY <1>7, <1>8, <1>9 DEF t

\* the widths of two's complement words
TwosComplement(w) == 2^w \in Nat \ {0} /\ 2^(w - 1) \in Nat \ {0} /\ 2^w = 2 * 2^(w - 1)

\* The signed view of a word is in the signed range, and the cast back gives the word.
LEMMA SignedWord ==
  ASSUME NEW w, TwosComplement(w), NEW a \in Word(w)
  PROVE  /\ Signed(w, a) \in MinS(w) .. MaxS(w) /\ Signed(w, a) \in Int
         /\ Signed(w, a) = IF a >= 2^(w - 1) THEN a - 2^w ELSE a
         /\ Trunc(w, Signed(w, a)) = a /\ Trunc(w, a) = a
<1> DEFINE p == 2^w  q == 2^(w - 1)  s == Signed(w, a)
<1>1. p \in Nat \ {0} /\ q \in Nat \ {0} /\ p = 2 * q /\ a \in 0 .. p - 1
  BY DEF TwosComplement, Word
<1>2. s = IF a >= q THEN a - p ELSE a
  BY DEF Signed
<1>3. MinS(w) = -q /\ MaxS(w) = q - 1
  BY DEF MinS, MaxS
<1> HIDE DEF p, q, s
<1>4. s \in -q .. q - 1 /\ s \in Int
  BY <1>1, <1>2
<1>5. s = 0 * p + a \/ s = (-1) * p + a
  BY <1>1, <1>2
<1>6. Trunc(w, s) = a
  <2>1. 2^w \in Nat \ {0} BY <1>1 DEF p
  <2>2. s = 0 * 2^w + a \/ s = (-1) * 2^w + a BY <1>5 DEF p
  <2>3. 0 \in Int /\ -1 \in Int OBVIOUS
  <2> QED BY <2>1, <2>2, <2>3, <1>4, TruncIs
<1>7. Trunc(w, a) = a
  <2>1. 2^w \in Nat \ {0} BY <1>1 DEF p
  <2>2. a = 0 * 2^w + a /\ a \in Int BY <1>1 DEF p
  <2>3. 0 \in Int OBVIOUS
  <2> QED BY <2>1, <2>2, <2>3, TruncIs
<1> QED BY <1>2, <1>3, <1>4, <1>6, <1>7 DEF p, q, s

\* A number of the signed range survives the cast to an unsigned word and back.
LEMMA SignedTrunc ==
  ASSUME NEW w, TwosComplement(w), NEW z \in MinS(w) .. MaxS(w)
  PROVE  /\ Signed(w, Trunc(w, z)) = z
         /\ Trunc(w, z) = IF z < 0 THEN z + 2^w ELSE z
<1> DEFINE p == 2^w  q == 2^(w - 1)
           t == IF z < 0 THEN z + p ELSE z
<1>1. p \in Nat \ {0} /\ q \in Nat \ {0} /\ p = 2 * q
  BY DEF TwosComplement
<1>2. z \in -q .. q - 1
  BY DEF MinS, MaxS
<1> HIDE DEF p, q
<1>3. t \in 0 .. p - 1 /\ (z = 0 * p + t \/ z = (-1) * p + t) /\ z \in Int
      /\ (t >= q <=> z < 0) /\ (z = IF t >= q THEN t - p ELSE t)
  BY <1>1, <1>2
<1> HIDE DEF t
<1>4. Trunc(w, z) = t
  <2>1. 2^w \in Nat \ {0} /\ t \in Word(w) BY <1>1, <1>3 DEF p, Word
  <2>2. z = 0 * 2^w + t \/ z = (-1) * 2^w + t BY <1>3 DEF p
  <2>3. 0 \in Int /\ -1 \in Int OBVIOUS
  <2> QED BY <2>1, <2>2, <2>3, <1>3, TruncIs
<1> QED BY <1>3, <1>4 DEF Signed, t, p, q

\* A shift by a product is a shift by one factor and then by the other.
LEMMA DivDiv ==
  ASSUME NEW a \in Int, NEW m \in Nat \ {0}, NEW n \in Nat \ {0}
  PROVE  a \div (m * n) = (a \div m) \div n
<1> DEFINE q == a \div m  r == a % m  p == q \div n  s == q % n
<1>1. q \in Int /\ r \in 0 .. m-1 /\ a = m * q + r
  BY DivMod
<1>2. p \in Int /\ s \in 0 .. n-1 /\ q = n * p + s
  <2> HIDE DEF q
  <2> QED  BY <1>1, DivMod
<1> HIDE DEF q, r, p, s
<1>3. m * n \in Nat \ {0}
  OBVIOUS
<1>4. s * m + r \in 0 .. m * n - 1
  <2>1. s * m <= (n - 1) * m /\ (n - 1) * m = m * n - m /\ s * m \in Nat
    BY <1>2
  <2> DEFINE y == s * m  z == m * n
  <2>2. y \in Nat /\ z \in Nat /\ y <= z - m
    BY <2>1, <1>3
  <2> HIDE DEF y, z
  <2>3. y + r \in 0 .. z - 1
    BY <2>2, <1>1
  <2> QED  BY <2>3 DEF y, z
<1>5. a = p * (m * n) + (s * m + r)
  <2>1. m * (n * p + s) = p * (m * n) + s * m
    BY <1>2
  <2>2. m * q = p * (m * n) + s * m
    BY <2>1, <1>2
  <2> DEFINE y == m * q  z == p * (m * n)  c == s * m
  <2>3. y = z + c /\ y \in Int /\ z \in Int /\ c \in Int /\ a = y + r
    BY <2>2, <1>1, <1>2
  <2> HIDE DEF y, z, c
  <2>4. a = z + (c + r)
    BY <2>3, <1>1
  <2> QED  BY <2>4 DEF z, c
<1> DEFINE M == m * n  R == s * m + r
<1>6. M \in Nat \ {0} /\ R \in 0 .. M - 1 /\ a = p * M + R
  BY <1>3, <1>4, <1>5
<1> HIDE DEF M, R
<1>7. a \div M = p
  BY <1>6, <1>2, Unique
<1> QED  BY <1>7 DEF M, p, q

\* The next digit of a number to base u, at the place p.
LEMMA NextDigit ==
  ASSUME NEW a \in Int, NEW p \in Nat \ {0}, NEW u \in Nat \ {0}
  PROVE  a % (p * u) = ((a \div p) % u) * p + (a % p)
<1> DEFINE q == a \div p  r == a % p  t == q \div u  s == q % u
<1>1. q \in Int /\ r \in 0 .. p-1 /\ a = p * q + r
  BY DivMod
<1>2. t \in Int /\ s \in 0 .. u-1 /\ q = u * t + s
  <2> HIDE DEF q
  <2> QED  BY <1>1, DivMod
<1> HIDE DEF q, r, s, t
<1>3. p * u \in Nat \ {0}
  OBVIOUS
<1>4. s * p + r \in 0 .. p * u - 1
  <2>1. s * p <= (u - 1) * p
    BY <1>2
  <2>2. (u - 1) * p = p * u - p /\ s * p \in Nat
    BY <1>2
  <2> DEFINE y == s * p  z == p * u
  <2>3. y \in Nat /\ z \in Nat /\ y <= z - p
    BY <2>1, <2>2, <1>3
  <2> HIDE DEF y, z
  <2>4. y + r \in 0 .. z - 1
    BY <2>3, <1>1
  <2> QED  BY <2>4 DEF y, z
<1>5. a = t * (p * u) + (s * p + r)
  <2>1. p * (u * t + s) = t * (p * u) + s * p
    BY <1>2
  <2>2. p * q = t * (p * u) + s * p
    BY <2>1, <1>2
  <2> DEFINE y == p * q  z == t * (p * u)  c == s * p
  <2>3. y = z + c /\ y \in Int /\ z \in Int /\ c \in Int /\ a = y + r
    BY <2>2, <1>1, <1>2
  <2> HIDE DEF y, z, c
  <2>4. a = z + (c + r)
    BY <2>3, <1>1
  <2> QED  BY <2>4 DEF z, c
<1> DEFINE M == p * u  R == s * p + r
<1>6. M \in Nat \ {0} /\ R \in 0 .. M - 1 /\ a = t * M + R
  BY <1>3, <1>4, <1>5
<1> HIDE DEF M, R
<1>7. a % M = R
  BY <1>6, <1>2, Unique
<1> QED  BY <1>7 DEF M, R, q, r, s

-----------------------------------------------------------------------------
(* Induction by the least number: loops, folds over sets, sums. *)

\* What holds at 0 and is kept by every step below n holds up to n.
LEMMA StepByStep ==
  ASSUME NEW n \in Nat, NEW P, 0 \in P, \A i \in 0 .. n-1 : i \in P => i + 1 \in P
  PROVE  0 .. n \subseteq P
<1> DEFINE Bad == {i \in Nat : i <= n /\ i \notin P}
<1>1. SUFFICES ASSUME Bad # {} PROVE FALSE
  OBVIOUS
<1>2. PICK i \in Bad : \A j \in Bad : i <= j
  <2>1. Bad \subseteq Nat
    OBVIOUS
  <2> HIDE DEF Bad
  <2> QED  BY <1>1, <2>1, LeastNumber
<1>3. i \in Nat /\ i <= n /\ i \notin P /\ i # 0
  BY <1>2
<1>4. i - 1 \in 0 .. n-1 /\ (i - 1) + 1 = i /\ i - 1 \in Nat /\ i - 1 <= n /\ ~(i <= i - 1)
  BY <1>3
<1>5. i - 1 \in P
  BY <1>2, <1>4
<1>6. (i - 1) + 1 \in P
  BY <1>4, <1>5
<1> QED  BY <1>3, <1>4, <1>6

\* h follows the loop that carries a value from base on
Follows(h, N, base, op) == h = [n \in 0 .. N |-> IF n = 0 THEN base ELSE op[<<n, h[n-1]>>]]

\* h follows the loop up to m
FollowsTo(h, m, N, A, base, op) ==
  /\ h \in [0 .. N -> A]
  /\ \A n \in 0 .. N : n <= m => h[n] = IF n = 0 THEN base ELSE op[<<n, h[n-1]>>]

\* Every loop that carries a value has a result: there is a function that follows it.
LEMMA LoopExists ==
  ASSUME NEW N \in Nat, NEW A, NEW base \in A, NEW op \in [(1 .. N) \X A -> A]
  PROVE  \E h \in [0 .. N -> A] : Follows(h, N, base, op)
<1> DEFINE P == {m \in Nat : \E h : FollowsTo(h, m, N, A, base, op)}
<1>1. 0 \in P
  <2> DEFINE h == [n \in 0 .. N |-> base]
  <2>1. FollowsTo(h, 0, N, A, base, op)
    BY DEF FollowsTo
  <2> QED  BY <2>1
<1>2. ASSUME NEW m \in 0 .. N-1, m \in P PROVE m + 1 \in P
  <2>1. PICK h : FollowsTo(h, m, N, A, base, op)
    BY <1>2
  <2>2. m \in Nat /\ m + 1 \in 1 .. N /\ m \in 0 .. N /\ (m + 1) - 1 = m /\ m + 1 \in 0 .. N
    BY <1>2
  <2>3. h \in [0 .. N -> A] /\ \A n \in 0 .. N : n <= m => h[n] = IF n = 0 THEN base ELSE op[<<n, h[n-1]>>]
    BY <2>1 DEF FollowsTo
  <2> DEFINE c == op[<<m + 1, h[m]>>]  g == [h EXCEPT ![m + 1] = c]
  <2>4. c \in A
    <3>1. h[m] \in A
      BY <2>2, <2>3
    <3>2. <<m + 1, h[m]>> \in (1 .. N) \X A
      BY <2>2, <3>1
    <3> QED  BY <3>2
  <2>5. g \in [0 .. N -> A] /\ g[m + 1] = c /\ \A n \in 0 .. N : n # m + 1 => g[n] = h[n]
    <3> HIDE DEF c
    <3> QED  BY <2>2, <2>3, <2>4
  <2> HIDE DEF g
  <2>6. ASSUME NEW n \in 0 .. N, n <= m + 1 PROVE g[n] = IF n = 0 THEN base ELSE op[<<n, g[n-1]>>]
    <3>1. CASE n = m + 1
      <4>1. n - 1 = m /\ n # 0 /\ g[m] = h[m]
        BY <3>1, <2>2, <2>5
      <4> QED  BY <3>1, <4>1, <2>5
    <3>2. CASE n # m + 1
      <4>1. n <= m /\ g[n] = h[n] /\ (n # 0 => n - 1 \in 0 .. N /\ n - 1 # m + 1)
        BY <3>2, <2>2, <2>5, <2>6
      <4>2. n # 0 => g[n-1] = h[n-1]
        BY <4>1, <2>5
      <4>3. h[n] = IF n = 0 THEN base ELSE op[<<n, h[n-1]>>]
        BY <4>1, <2>3
      <4> QED  BY <4>1, <4>2, <4>3
    <3> QED  BY <3>1, <3>2
  <2>7. FollowsTo(g, m + 1, N, A, base, op)
    BY <2>5, <2>6 DEF FollowsTo
  <2> QED  BY <2>2, <2>7
<1> HIDE DEF P
<1>3. 0 .. N \subseteq P
  BY <1>1, <1>2, StepByStep
<1>4. PICK h : FollowsTo(h, N, N, A, base, op)
  <2>1. N \in 0 .. N
    OBVIOUS
  <2> QED  BY <1>3, <2>1 DEF P
<1>5. h = [n \in 0 .. N |-> h[n]] /\ h \in [0 .. N -> A]
  BY <1>4 DEF FollowsTo
<1>6. \A n \in 0 .. N : h[n] = IF n = 0 THEN base ELSE op[<<n, h[n-1]>>]
  BY <1>4 DEF FollowsTo
<1>7. Follows(h, N, base, op)
  BY <1>5, <1>6 DEF Follows
<1> QED  BY <1>5, <1>7

\* Among sets of subsets of a finite set there is one none of whose smaller sets by one
\* element is among them.
LEMMA LeastSubset ==
  ASSUME NEW S, IsFiniteSet(S), NEW T \in SUBSET (SUBSET S), T # {}
  PROVE  \E s \in T : \A e \in s : s \ {e} \notin T
<1> DEFINE Sizes == {Cardinality(s) : s \in T}
<1>1. \A s \in T : IsFiniteSet(s) /\ Cardinality(s) \in Nat
  BY FS_Subset, FS_CardinalityType
<1>2. Sizes \subseteq Nat /\ Sizes # {}
  BY <1>1
<1>3. PICK k \in Sizes : \A j \in Sizes : k <= j
  <2> HIDE DEF Sizes
  <2> QED  BY <1>2, LeastNumber
<1>4. PICK s \in T : k = Cardinality(s)
  BY <1>3
<1>5. ASSUME NEW e \in s, s \ {e} \in T PROVE FALSE
  <2>1. Cardinality(s \ {e}) = Cardinality(s) - 1
    BY <1>1, <1>4, FS_RemoveElement
  <2>2. k <= Cardinality(s \ {e})
    BY <1>3, <1>5
  <2>3. Cardinality(s) \in Nat
    BY <1>1
  <2> QED  BY <2>1, <2>2, <2>3, <1>4
<1> QED  BY <1>5

\* one step of a fold that takes the elements in the order of ch, with op[<<e, b>>]
FoldStep(h, ch, base, op, s) == IF s = {} THEN base ELSE op[<<ch[s], h[s \ {ch[s]}]>>]
\* h folds op over the subsets of S
Folds(h, S, ch, base, op) == h = [s \in SUBSET S |-> FoldStep(h, ch, base, op, s)]
\* h folds op over the subsets of at most m elements
FoldsTo(h, m, S, A, ch, base, op) ==
  /\ h \in [SUBSET S -> A]
  /\ \A s \in SUBSET S : Cardinality(s) <= m => h[s] = FoldStep(h, ch, base, op, s)

\* Every fold over the subsets of a finite set has a result.
LEMMA FoldExists ==
  ASSUME NEW S, IsFiniteSet(S), NEW A, NEW base \in A, NEW op \in [S \X A -> A], NEW ch,
         \A s \in SUBSET S : s # {} => ch[s] \in s
  PROVE  \E h \in [SUBSET S -> A] : Folds(h, S, ch, base, op)
<1> DEFINE N == Cardinality(S)  P == {m \in Nat : \E h : FoldsTo(h, m, S, A, ch, base, op)}
<1>0. /\ N \in Nat
      /\ \A s \in SUBSET S : IsFiniteSet(s) /\ Cardinality(s) \in Nat /\ Cardinality(s) <= N
  BY FS_Subset, FS_CardinalityType
<1> HIDE DEF N
<1>1. 0 \in P
  <2> DEFINE h == [s \in SUBSET S |-> base]
  <2>1. ASSUME NEW s \in SUBSET S, Cardinality(s) <= 0 PROVE s = {}
    <3>1. Cardinality(s) = 0
      BY <1>0, <2>1
    <3> QED  BY <1>0, <3>1, FS_EmptySet
  <2>2. FoldsTo(h, 0, S, A, ch, base, op)
    BY <2>1 DEF FoldsTo, FoldStep
  <2> QED  BY <2>2
<1>2. ASSUME NEW m \in 0 .. N-1, m \in P PROVE m + 1 \in P
  <2>1. PICK h : FoldsTo(h, m, S, A, ch, base, op)
    BY <1>2
  <2>2. h \in [SUBSET S -> A]
        /\ \A s \in SUBSET S : Cardinality(s) <= m => h[s] = FoldStep(h, ch, base, op, s)
    BY <2>1 DEF FoldsTo
  <2> DEFINE g == [s \in SUBSET S |-> FoldStep(h, ch, base, op, s)]
  <2>3. ASSUME NEW s \in SUBSET S PROVE FoldStep(h, ch, base, op, s) \in A
    <3>1. CASE s = {}
      BY <3>1 DEF FoldStep
    <3>2. CASE s # {}
      <4>1. ch[s] \in s /\ ch[s] \in S /\ s \ {ch[s]} \in SUBSET S
        BY <3>2
      <4>2. h[s \ {ch[s]}] \in A
        BY <4>1, <2>2
      <4>3. op[<<ch[s], h[s \ {ch[s]}]>>] \in A
        BY <4>1, <4>2
      <4> QED  BY <3>2, <4>3 DEF FoldStep
    <3> QED  BY <3>1, <3>2
  <2>4. g \in [SUBSET S -> A]
    BY <2>3
  <2>5. \A s \in SUBSET S : g[s] = FoldStep(h, ch, base, op, s)
    OBVIOUS
  <2>6. \A s \in SUBSET S : Cardinality(s) <= m => g[s] = h[s]
    BY <2>2, <2>5
  <2> HIDE DEF g
  <2>7. ASSUME NEW s \in SUBSET S, Cardinality(s) <= m + 1 PROVE g[s] = FoldStep(g, ch, base, op, s)
    <3>1. CASE s = {}
      BY <3>1, <2>5 DEF FoldStep
    <3>2. CASE s # {}
      <4> DEFINE c == ch[s]  r == s \ {c}
      <4>1. c \in s /\ r \in SUBSET S
        BY <3>2
      <4>2. Cardinality(r) = Cardinality(s) - 1
        BY <4>1, <1>0, FS_RemoveElement
      <4> HIDE DEF c, r
      <4>3. Cardinality(r) <= m
        BY <4>2, <2>7, <1>0, <1>2
      <4>4. g[r] = h[r]
        BY <4>1, <4>3, <2>6
      <4> QED  BY <4>4, <2>5, <3>2 DEF FoldStep, c, r
    <3> QED  BY <3>1, <3>2
  <2>8. FoldsTo(g, m + 1, S, A, ch, base, op)
    BY <2>4, <2>7 DEF FoldsTo
  <2>9. m + 1 \in Nat
    OBVIOUS
  <2> QED  BY <2>8, <2>9
<1> HIDE DEF P
<1>3. 0 .. N \subseteq P
  BY <1>0, <1>1, <1>2, StepByStep
<1>4. PICK h : FoldsTo(h, N, S, A, ch, base, op)
  <2>1. N \in 0 .. N
    BY <1>0
  <2> QED  BY <1>3, <2>1 DEF P
<1>5. h \in [SUBSET S -> A] /\ \A s \in SUBSET S : h[s] = FoldStep(h, ch, base, op, s)
  BY <1>0, <1>4 DEF FoldsTo
<1>6. Folds(h, S, ch, base, op)
  BY <1>5 DEF Folds
<1> QED  BY <1>5, <1>6

\* h[s] is the sum of F over s, for the subsets s of S
IsSum(h, S, F) ==
  /\ h \in [SUBSET S -> Int] /\ h[{}] = 0
  /\ \A s \in SUBSET S : \A e \in s : h[s] = F[e] + h[s \ {e}]
\* the recursion of the library's sum
SumStep(h, F, s) == IF s = {} THEN 0 ELSE LET e == CHOOSE e \in s : TRUE IN F[e] + h[s \ {e}]
Sums(h, S, F) == h = [s \in SUBSET S |-> SumStep(h, F, s)]

\* The recursion of a sum has a solution.
LEMMA SumExists ==
  ASSUME NEW S, IsFiniteSet(S), NEW F \in [S -> Int]
  PROVE  \E h : Sums(h, S, F)
<1> DEFINE op == [p \in S \X Int |-> F[p[1]] + p[2]]
           ch == [s \in SUBSET S |-> CHOOSE e \in s : TRUE]
<1>1. op \in [S \X Int -> Int]
  OBVIOUS
<1> HIDE DEF op
<1>0. 0 \in Int
  OBVIOUS
<1>4. \A s \in SUBSET S : s # {} => ch[s] \in s
  OBVIOUS
<1>5. \A s \in SUBSET S : ch[s] = CHOOSE e \in s : TRUE
  OBVIOUS
<1> HIDE DEF ch
<1>2. PICK h \in [SUBSET S -> Int] : Folds(h, S, ch, 0, op)
  BY <1>0, <1>1, <1>4, FoldExists, Zenon
<1>3. ASSUME NEW s \in SUBSET S PROVE FoldStep(h, ch, 0, op, s) = SumStep(h, F, s)
  <2>1. CASE s = {}
    BY <2>1 DEF FoldStep, SumStep
  <2>2. CASE s # {}
    <3> DEFINE e == CHOOSE e \in s : TRUE
    <3>1. e \in s
      BY <2>2
    <3> HIDE DEF e
    <3>2. e \in S /\ h[s \ {e}] \in Int
      BY <1>2, <3>1
    <3>3. op[<<e, h[s \ {e}]>>] = F[e] + h[s \ {e}]
      BY <3>2 DEF op
    <3> QED  BY <2>2, <3>3, <1>5 DEF FoldStep, SumStep, e
  <2> QED  BY <2>1, <2>2
<1>6. h = [s \in SUBSET S |-> SumStep(h, F, s)]
  BY <1>2, <1>3 DEF Folds
<1> QED  BY <1>6 DEF Sums

\* It does not matter in which order the library adds: a sum is any element and the sum of
\* the others.
LEMMA SumIsSum ==
  ASSUME NEW S, IsFiniteSet(S), NEW F \in [S -> Int], NEW h, Sums(h, S, F)
  PROVE  IsSum(h, S, F)
<1>1. \A s \in SUBSET S : h[s] = SumStep(h, F, s)
  BY DEF Sums
<1>2. h[{}] = 0
  BY <1>1 DEF SumStep
<1>3. ASSUME NEW s \in SUBSET S, s # {}
      PROVE  \E y \in s : h[s] = F[y] + h[s \ {y}]
  <2> DEFINE y == CHOOSE e \in s : TRUE
  <2>1. y \in s
    BY <1>3
  <2>2. h[s] = F[y] + h[s \ {y}]
    BY <1>1, <1>3 DEF SumStep
  <2> HIDE DEF y
  <2> QED  BY <2>1, <2>2
<1>4. \A s \in SUBSET S : h[s] \in Int
  <2> DEFINE T == {s \in SUBSET S : h[s] \notin Int}
  <2> SUFFICES ASSUME T # {} PROVE FALSE
    OBVIOUS
  <2>1. PICK s \in T : \A e \in s : s \ {e} \notin T
    BY LeastSubset
  <2>2. s # {}
    <3>1. h[s] \notin Int /\ 0 \in Int
      BY <2>1
    <3> QED  BY <1>2, <3>1
  <2>3. PICK y \in s : h[s] = F[y] + h[s \ {y}]
    BY <1>3, <2>1, <2>2
  <2>4. F[y] \in Int /\ h[s \ {y}] \in Int
    BY <2>1, <2>3
  <2> QED  BY <2>1, <2>3, <2>4
<1>5. h \in [SUBSET S -> Int]
  BY <1>4 DEF Sums
<1>6. \A s \in SUBSET S : \A e \in s : h[s] = F[e] + h[s \ {e}]
  <2> DEFINE T == {s \in SUBSET S : ~ \A e \in s : h[s] = F[e] + h[s \ {e}]}
  <2> SUFFICES ASSUME T # {} PROVE FALSE
    OBVIOUS
  <2>1. PICK s \in T : \A e \in s : s \ {e} \notin T
    BY LeastSubset
  <2>2. PICK e \in s : h[s] # F[e] + h[s \ {e}]
    BY <2>1
  <2>3. PICK y \in s : h[s] = F[y] + h[s \ {y}]
    BY <1>3, <2>1, <2>2
  <2>4. y # e
    BY <2>2, <2>3
  <2> DEFINE c == (s \ {e}) \ {y}
  <2>5. s \ {e} \in SUBSET S /\ s \ {y} \in SUBSET S /\ c \in SUBSET S /\ c = (s \ {y}) \ {e}
    BY <2>1
  <2>6. h[s \ {e}] = F[y] + h[c]
    BY <2>1, <2>4, <2>5
  <2>7. h[s \ {y}] = F[e] + h[c]
    BY <2>1, <2>4, <2>5
  <2>8. h[c] \in Int /\ F[y] \in Int /\ F[e] \in Int
    BY <1>4, <2>1, <2>5
  <2> HIDE DEF c
  <2> QED  BY <2>2, <2>3, <2>6, <2>7, <2>8
<1> QED  BY <1>2, <1>5, <1>6 DEF IsSum

\* A sum over a set has one value, whatever larger set it is seen in.
LEMMA SumUnique ==
  ASSUME NEW S, IsFiniteSet(S), NEW R, NEW F, NEW G, NEW h, NEW g, IsSum(h, S, F), IsSum(g, R, G),
         NEW s0 \in SUBSET S, s0 \in SUBSET R, \A e \in s0 : F[e] = G[e]
  PROVE  h[s0] = g[s0]
<1> DEFINE T == {s \in SUBSET s0 : h[s] # g[s]}
<1> SUFFICES ASSUME T # {} PROVE FALSE
  OBVIOUS
<1>1. IsFiniteSet(s0)
  BY FS_Subset
<1>2. PICK s \in T : \A e \in s : s \ {e} \notin T
  BY <1>1, LeastSubset
<1>3. s # {}
  <2>1. h[{}] = 0 /\ g[{}] = 0
    BY DEF IsSum
  <2>2. h[s] # g[s]
    BY <1>2
  <2> QED  BY <2>1, <2>2
<1>4. PICK e \in s : TRUE
  BY <1>3
<1>5. h[s \ {e}] = g[s \ {e}]
  BY <1>2, <1>4
<1>6. h[s] = F[e] + h[s \ {e}] /\ g[s] = G[e] + g[s \ {e}]
  BY <1>2, <1>4 DEF IsSum
<1> QED  BY <1>2, <1>4, <1>5, <1>6

\* the place values of n digits to the base u, and the digits of a at their places
Places(n, u, P) == P[0] = 1 /\ \A j \in 0 .. n-1 : P[j] \in Nat \ {0} /\ P[j+1] = P[j] * u
Digits(a, n, u, P, F) == \A j \in 0 .. n-1 : F[j] = ((a \div P[j]) % u) * P[j]

\* The sum of the first n digits of a number, each at its place, is the number modulo the
\* place value of the next.
LEMMA DigitsSum ==
  ASSUME NEW a \in Int, NEW n \in Nat, NEW u \in Nat \ {0}, NEW P, Places(n, u, P),
         NEW F, Digits(a, n, u, P, F), NEW h, IsSum(h, 0 .. n-1, F)
  PROVE  h[0 .. n-1] = a % P[n]
<1>0. /\ P[0] = 1 /\ \A j \in 0 .. n-1 : P[j] \in Nat \ {0} /\ P[j+1] = P[j] * u
      /\ \A j \in 0 .. n-1 : F[j] = ((a \div P[j]) % u) * P[j]
  BY DEF Places, Digits
<1> DEFINE T == {m \in 0 .. n : h[0 .. m-1] = a % P[m]}
<1>1. 0 \in T
  <2>1. 0 .. 0-1 = {} /\ h[{}] = 0 /\ a % 1 = 0
    BY DEF IsSum
  <2> QED  BY <2>1, <1>0
<1>2. ASSUME NEW m \in 0 .. n-1, m \in T PROVE m + 1 \in T
  <2> DEFINE p == P[m]  s == h[0 .. m-1]
  <2>1. p \in Nat \ {0} /\ P[m+1] = p * u /\ s = a % p /\ F[m] = ((a \div p) % u) * p
    BY <1>0, <1>2
  <2>2. 0 .. (m+1)-1 \in SUBSET (0 .. n-1) /\ m \in 0 .. (m+1)-1 /\ (0 .. (m+1)-1) \ {m} = 0 .. m-1
    <3>1. m \in Nat /\ m <= n - 1 /\ (m+1)-1 = m
      BY <1>2
    <3> HIDE DEF T
    <3>2. 0 .. m \subseteq 0 .. n-1
      BY <3>1
    <3>3. m \in 0 .. m
      BY <3>1
    <3>4. (0 .. m) \ {m} = 0 .. m-1
      <4>1. \A j \in 0 .. m : j # m => j \in 0 .. m-1
        BY <3>1
      <4>2. \A j \in 0 .. m-1 : j \in 0 .. m /\ j # m
        BY <3>1
      <4> QED  BY <4>1, <4>2, Zenon
    <3> QED  BY <3>1, <3>2, <3>3, <3>4
  <2>3. h[0 .. (m+1)-1] = F[m] + h[(0 .. (m+1)-1) \ {m}]
    BY <2>2 DEF IsSum
  <2>4. h[0 .. (m+1)-1] = F[m] + s
    BY <2>2, <2>3
  <2> HIDE DEF p, s
  <2>5. a % (p * u) = ((a \div p) % u) * p + (a % p)
    BY <2>1, NextDigit
  <2>6. h[0 .. (m+1)-1] = a % P[m+1]
    BY <2>1, <2>4, <2>5
  <2>7. m + 1 \in 0 .. n
    BY <1>2
  <2> QED  BY <2>6, <2>7
<1> HIDE DEF T
<1>3. 0 .. n \subseteq T
  BY <1>1, <1>2, StepByStep
<1>4. n \in T
  BY <1>3
<1> QED  BY <1>4 DEF T

-----------------------------------------------------------------------------
(* Words bit by bit. *)

\* The bits of x | y, from the lowest.
LEMMA OrBits ==
  ASSUME NEW x \in Nat, NEW y \in Nat
  PROVE  /\ (x | y) \in Nat
         /\ (x | y) \div 2 = (x \div 2) | (y \div 2)
         /\ (x | y) % 2 = IF x % 2 = 1 \/ y % 2 = 1 THEN 1 ELSE 0
<1> DEFINE a == x \div 2  b == y \div 2  c == x & y  d == a & b
           p == x % 2  q == y % 2
<1>1. x = 2 * a + p /\ y = 2 * b + q /\ p \in 0 .. 1 /\ q \in 0 .. 1 /\ a \in Nat /\ b \in Nat
  BY Half
<1>2. c \in Nat /\ d \in Nat /\ c = 2 * d + p * q
  <2>1. c \in Nat /\ d \in Nat /\ c \div 2 = d /\ c % 2 = p * q
    BY <1>1, AndBits
  <2>2. c = 2 * (c \div 2) + (c % 2)
    BY <2>1, Half
  <2> QED BY <2>1, <2>2
<1>3. c <= x /\ c <= y
  BY AndAtMost
<1>4. (x | y) = x + y - c /\ (a | b) = a + b - d
  BY DEF |
<1> HIDE DEF a, b, c, d, p, q
<1>5. (x | y) = (a | b) * 2 + (IF p = 1 \/ q = 1 THEN 1 ELSE 0)
  <2>1. p * q = IF p = 1 /\ q = 1 THEN 1 ELSE 0 BY <1>1
  <2> QED BY <1>1, <1>2, <1>4, <2>1
<1>6. (x | y) \in Nat /\ (a | b) \in Int
  BY <1>1, <1>2, <1>3, <1>4
<1>7. (x | y) \div 2 = (a | b) /\ (x | y) % 2 = (IF p = 1 \/ q = 1 THEN 1 ELSE 0)
  BY <1>5, <1>6
<1> QED  BY <1>6, <1>7 DEF a, b, p, q

\* the operations on words shifted right by j, and their bit j
ShiftedBits(x, y, j) ==
  /\ (x & y) \div 2^j = (x \div 2^j) & (y \div 2^j)
  /\ (x | y) \div 2^j = (x \div 2^j) | (y \div 2^j)
  /\ (x ^^ y) \div 2^j = (x \div 2^j) ^^ (y \div 2^j)
BitByBit(x, y, j) ==
  /\ Bit(x, j) \in 0 .. 1 /\ Bit(y, j) \in 0 .. 1
  /\ Bit(x & y, j) = IF Bit(x, j) = 1 /\ Bit(y, j) = 1 THEN 1 ELSE 0
  /\ Bit(x | y, j) = IF Bit(x, j) = 1 \/ Bit(y, j) = 1 THEN 1 ELSE 0
  /\ Bit(x ^^ y, j) = IF Bit(x, j) = Bit(y, j) THEN 0 ELSE 1

\* &, | and ^ commute with shifts.
LEMMA ShiftBits ==
  ASSUME NEW n \in Nat, Powers(n), NEW x \in Nat, NEW y \in Nat
  PROVE  \A j \in 0 .. n : ShiftedBits(x, y, j)
<1> DEFINE T == {j \in 0 .. n : ShiftedBits(x, y, j)}
<1>1. 0 \in T
  <2>0. 2^0 = 1
    OBVIOUS
  <2>1. (x & y) \in Nat /\ (x | y) \in Nat /\ (x ^^ y) \in Nat
    BY AndBits, OrBits, XorBits
  <2>2. x \div 1 = x /\ y \div 1 = y /\ (x & y) \div 1 = (x & y) /\ (x | y) \div 1 = (x | y) /\ (x ^^ y) \div 1 = (x ^^ y)
    BY <2>1
  <2> QED  BY <2>0, <2>2 DEF ShiftedBits
<1>2. ASSUME NEW j \in 0 .. n-1, j \in T PROVE j + 1 \in T
  <2> DEFINE p == 2^j  a == x \div p  b == y \div p
  <2>1. p \in Nat \ {0} /\ 2^(j + 1) = p * 2 /\ j + 1 \in 0 .. n
    BY PowersPositive DEF Powers
  <2>2. (x & y) \div p = (a & b) /\ (x | y) \div p = (a | b) /\ (x ^^ y) \div p = (a ^^ b)
    BY <1>2 DEF ShiftedBits
  <2> HIDE DEF p
  <2>3. a \in Nat /\ b \in Nat
    BY <2>1
  <2>4. \A z \in Int : z \div (p * 2) = (z \div p) \div 2
    <3>1. 2 \in Nat \ {0}
      OBVIOUS
    <3> QED  BY <2>1, <3>1, DivDiv, Zenon
  <2>5. (x & y) \in Int /\ (x | y) \in Int /\ (x ^^ y) \in Int
    <3>1. (x & y) \in Nat /\ (x | y) \in Nat /\ (x ^^ y) \in Nat
      BY AndBits, OrBits, XorBits
    <3> QED  BY <3>1
  <2>6. x \div (p * 2) = a \div 2 /\ y \div (p * 2) = b \div 2
    BY <2>4
  <2>7. /\ (x & y) \div (p * 2) = ((x & y) \div p) \div 2
        /\ (x | y) \div (p * 2) = ((x | y) \div p) \div 2
        /\ (x ^^ y) \div (p * 2) = ((x ^^ y) \div p) \div 2
    BY <2>4, <2>5
  <2> HIDE DEF a, b
  <2>8. /\ (a & b) \div 2 = (a \div 2) & (b \div 2) /\ (a | b) \div 2 = (a \div 2) | (b \div 2)
        /\ (a ^^ b) \div 2 = (a \div 2) ^^ (b \div 2)
    BY <2>3, AndBits, OrBits, XorBits
  <2>9. ShiftedBits(x, y, j + 1)
    BY <2>1, <2>2, <2>6, <2>7, <2>8 DEF ShiftedBits
  <2> QED  BY <2>1, <2>9
<1>3. 0 .. n \subseteq T
  <2> HIDE DEF T
  <2> QED  BY <1>1, <1>2, StepByStep
<1> QED  BY <1>3

\* On words of width n they give words of width n, bit by bit.
LEMMA WordBits ==
  ASSUME NEW n \in Nat, Powers(n), NEW x \in Word(n), NEW y \in Word(n)
  PROVE  /\ (x & y) \in Word(n) /\ (x | y) \in Word(n) /\ (x ^^ y) \in Word(n)
         /\ \A j \in 0 .. n-1 : BitByBit(x, y, j)
<1> DEFINE P == 2^n
<1>0. P \in Nat \ {0} /\ x \in 0 .. P-1 /\ y \in 0 .. P-1
  BY PowersPositive DEF Word
<1>1. x \in Nat /\ y \in Nat /\ n \in 0 .. n
  BY <1>0
<1>2. (x & y) \in Nat /\ (x | y) \in Nat /\ (x ^^ y) \in Nat
  BY <1>1, AndBits, OrBits, XorBits
<1>3. \A j \in 0 .. n : ShiftedBits(x, y, j)
  BY <1>1, ShiftBits
<1>4. ASSUME NEW z \in Nat, z \div P = 0 PROVE z \in Word(n)
  <2> HIDE DEF P
  <2>1. z = P * (z \div P) + (z % P) /\ z % P \in 0 .. P-1
    BY <1>0, DivMod
  <2>2. P * (z \div P) = 0
    BY <1>0, <1>4
  <2>3. z \in 0 .. P-1
    BY <2>1, <2>2
  <2> QED  BY <2>3 DEF Word, P
<1>5. x \div P = 0 /\ y \div P = 0
  <2> HIDE DEF P
  <2>1. \A z \in 0 .. P-1 : z = 0 * P + z /\ z \in Int
    BY <1>0
  <2>2. \A z \in 0 .. P-1 : z \div P = 0
    BY <1>0, <2>1
  <2> QED  BY <1>0, <2>2
<1>6. (x & y) \div P = 0 /\ (x | y) \div P = 0 /\ (x ^^ y) \div P = 0
  <2>1. (0 & 0) = 0
    BY AndBits
  <2>2. (0 | 0) = 0 /\ (0 ^^ 0) = 0
    BY <2>1 DEF |, ^^
  <2>3. ShiftedBits(x, y, n)
    BY <1>1, <1>3
  <2> QED  BY <1>5, <2>1, <2>2, <2>3 DEF ShiftedBits
<1>7. (x & y) \in Word(n) /\ (x | y) \in Word(n) /\ (x ^^ y) \in Word(n)
  BY <1>2, <1>4, <1>6
<1>8. ASSUME NEW j \in 0 .. n-1 PROVE BitByBit(x, y, j)
  <2> DEFINE a == x \div 2^j  b == y \div 2^j
  <2>1. ShiftedBits(x, y, j) /\ 2^j \in Nat \ {0}
    <3>1. j \in 0 .. n
      OBVIOUS
    <3> QED  BY <1>3, <3>1, PowersPositive
  <2>2. a \in Nat /\ b \in Nat
    <3> DEFINE p == 2^j
    <3>1. p \in Nat \ {0}
      BY <2>1
    <3> HIDE DEF p
    <3>2. x \div p \in Nat /\ y \div p \in Nat
      BY <1>1, <3>1
    <3> QED  BY <3>2 DEF p
  <2>3. Bit(x, j) = a % 2 /\ Bit(y, j) = b % 2 /\ Bit(x & y, j) = (a & b) % 2
        /\ Bit(x | y, j) = (a | b) % 2 /\ Bit(x ^^ y, j) = (a ^^ b) % 2
    BY <2>1 DEF Bit, ShiftedBits
  <2> HIDE DEF a, b
  <2>4. a % 2 \in 0 .. 1 /\ b % 2 \in 0 .. 1
    BY <2>2
  <2>5. (a & b) % 2 = (a % 2) * (b % 2)
    BY <2>2, AndBits
  <2>6. (a | b) % 2 = (IF a % 2 = 1 \/ b % 2 = 1 THEN 1 ELSE 0)
    BY <2>2, OrBits
  <2>7. (a ^^ b) % 2 = (IF a % 2 = b % 2 THEN 0 ELSE 1)
    BY <2>2, XorBits
  <2>8. (a % 2) * (b % 2) = IF a % 2 = 1 /\ b % 2 = 1 THEN 1 ELSE 0
    BY <2>4
  <2> QED  BY <2>3, <2>4, <2>5, <2>6, <2>7, <2>8 DEF BitByBit
<1> QED  BY <1>7, <1>8

\* ~x is a word whose bits are the others.
LEMMA InvBits ==
  ASSUME NEW n \in Nat, Powers(n), NEW x \in Word(n)
  PROVE  /\ Inv(n, x) \in Word(n)
         /\ \A j \in 0 .. n-1 : Bit(x, j) \in 0 .. 1 /\ Bit(Inv(n, x), j) = 1 - Bit(x, j)
<1> DEFINE P == 2^n
<1>0. P \in Nat \ {0} /\ x \in 0 .. P-1
  BY PowersPositive DEF Word
<1>1. Inv(n, x) = P - 1 - x
  BY DEF Inv, MaxU
<1>2. Inv(n, x) \in Word(n)
  BY <1>0, <1>1 DEF Word
<1>3. ASSUME NEW j \in 0 .. n-1
      PROVE  Bit(x, j) \in 0 .. 1 /\ Bit(Inv(n, x), j) = 1 - Bit(x, j)
  <2> DEFINE p == 2^j  h == 2^(n - j - 1)  q == x \div p  r == x % p  z == Inv(n, x)
  <2>1. p \in Nat \ {0} /\ h \in Nat \ {0} /\ P = p * (2 * h)
    <3>1. j \in 0 .. n /\ n - j - 1 \in 0 .. n-1 /\ n - j - 1 \in 0 .. n /\ j \in Nat /\ n - j \in Nat /\ j + (n - j) = n
          /\ (n - j - 1) + 1 = n - j /\ j + (n - j) <= n
      OBVIOUS
    <3>2. 2^(j + (n - j)) = p * 2^(n - j)
      BY <3>1, PowersAdd
    <3>3. 2^((n - j - 1) + 1) = 2 * h
      BY <3>1 DEF Powers
    <3>4. p \in Nat \ {0} /\ h \in Nat \ {0}
      BY <3>1, PowersPositive
    <3> QED  BY <3>1, <3>2, <3>3, <3>4
  <2>2. Bit(x, j) = q % 2 /\ Bit(z, j) = (z \div p) % 2
    BY DEF Bit
  <2>3. z = P - 1 - x
    BY <1>1
  <2> HIDE DEF p, h, P, z
  <2>4. q \in Int /\ r \in 0 .. p-1 /\ x = p * q + r
    <3>1. p \in Nat \ {0} /\ x \in Int
      BY <1>0, <2>1
    <3> QED  BY <3>1, DivMod
  <2> HIDE DEF q, r
  <2>5. z = (2 * h - 1 - q) * p + (p - 1 - r) /\ p - 1 - r \in 0 .. p-1 /\ 2 * h - 1 - q \in Int /\ z \in Int
    <3>1. (2 * h - 1 - q) * p = p * (2 * h) - p - p * q
      BY <2>1, <2>4
    <3> DEFINE y == p * q  w == p * (2 * h)  u == (2 * h - 1 - q) * p
    <3>2. y \in Int /\ w \in Int /\ u \in Int
      BY <2>1, <2>4
    <3>3. u = w - p - y /\ P = w /\ x = y + r
      BY <3>1, <2>1, <2>4
    <3> HIDE DEF y, w, u
    <3>4. z = u + (p - 1 - r) /\ p - 1 - r \in 0 .. p-1 /\ z \in Int
      BY <3>2, <3>3, <2>1, <2>3, <2>4
    <3>5. 2 * h - 1 - q \in Int
      BY <2>1, <2>4
    <3> QED  BY <3>4, <3>5 DEF u
  <2> DEFINE k == 2 * h - 1 - q  s == p - 1 - r
  <2>6. k \in Int /\ s \in 0 .. p-1 /\ z = k * p + s /\ p \in Nat \ {0} /\ z \in Int
    BY <2>1, <2>5
  <2>7. k % 2 = 1 - (q % 2) /\ q % 2 \in 0 .. 1
    BY <2>1, <2>4
  <2> HIDE DEF k, s
  <2>8. z \div p = k
    BY <2>6, Unique
  <2> QED  BY <2>2, <2>7, <2>8 DEF z
<1> QED  BY <1>2, <1>3

\* The mask of the k lowest bits has those and no other.
LEMMA LowBits ==
  ASSUME NEW n \in Nat, Powers(n), NEW k \in 0 .. n
  PROVE  /\ 2^k - 1 \in Word(n)
         /\ \A j \in 0 .. n-1 : Bit(2^k - 1, j) = IF j < k THEN 1 ELSE 0
<1>1. k \in Nat /\ Powers(k)
  BY DEF Powers
<1> DEFINE m == 2^k - 1
<1>2. ASSUME NEW j \in 0 .. n-1, j < k PROVE Bit(m, j) = 1
  <2>1. 0 \in Word(k)
    <3>1. 2^k \in Nat \ {0}
      BY PowersPositive
    <3> QED  BY <3>1 DEF Word
  <2>2. m = Inv(k, 0)
    <3>1. 2^k \in Nat \ {0}
      BY PowersPositive
    <3> QED  BY <3>1 DEF Inv, MaxU
  <2>3. j \in 0 .. k-1
    BY <1>2
  <2>4. Bit(Inv(k, 0), j) = 1 - Bit(0, j)
    BY <1>1, <2>1, <2>3, InvBits
  <2>5. Bit(0, j) = 0
    <3> DEFINE p == 2^j
    <3>1. p \in Nat \ {0}
      <4>1. j \in 0 .. n
        OBVIOUS
      <4> QED  BY <4>1, PowersPositive
    <3> HIDE DEF p
    <3>2. 0 \div p = 0
      BY <3>1
    <3>3. Bit(0, j) = (0 \div p) % 2
      BY DEF Bit, p
    <3> QED  BY <3>2, <3>3
  <2> QED  BY <2>2, <2>4, <2>5
<1>3. ASSUME NEW j \in 0 .. n-1, ~(j < k) PROVE Bit(m, j) = 0
  <2> DEFINE p == 2^j  q == 2^k  h == 2^(j - k)
  <2>1. p \in Nat \ {0} /\ q \in Nat \ {0} /\ h \in Nat \ {0} /\ p = q * h
    <3>1. j \in 0 .. n /\ k \in Nat /\ j - k \in Nat /\ k + (j - k) = j /\ k + (j - k) <= n /\ j - k \in 0 .. n
      BY <1>3
    <3>2. 2^(k + (j - k)) = q * h
      BY <3>1, PowersAdd
    <3> QED  BY <3>1, <3>2, PowersPositive
  <2>2. Bit(m, j) = ((q - 1) \div p) % 2
    BY DEF Bit
  <2> HIDE DEF p, q, h
  <2>3. q - 1 \in 0 .. p-1 /\ q - 1 \in Int /\ q - 1 = 0 * p + (q - 1)
    <3>1. q * 1 <= q * h
      BY <2>1
    <3> QED  BY <2>1, <3>1
  <2> DEFINE y == q - 1
  <2>4. y \in 0 .. p-1 /\ y \in Int /\ y = 0 * p + y
    BY <2>3
  <2> HIDE DEF y
  <2>5. y \div p = 0
    BY <2>1, <2>4
  <2> QED  BY <2>2, <2>5 DEF y
<1>4. m \in Word(n)
  <2> DEFINE q == 2^k  h == 2^(n - k)
  <2>1. q \in Nat \ {0} /\ h \in Nat \ {0} /\ 2^n = q * h
    <3>1. k \in Nat /\ n - k \in Nat /\ k + (n - k) = n /\ k + (n - k) <= n /\ n - k \in 0 .. n
      OBVIOUS
    <3>2. 2^(k + (n - k)) = q * h
      BY <3>1, PowersAdd
    <3> QED  BY <3>1, <3>2, PowersPositive
  <2>2. m = q - 1
    OBVIOUS
  <2> HIDE DEF q, h
  <2>3. q * 1 <= q * h /\ q * h \in Nat
    BY <2>1
  <2> HIDE DEF m
  <2>4. m \in 0 .. q * h - 1
    BY <2>1, <2>2, <2>3
  <2> QED  BY <2>1, <2>4 DEF Word
<1> QED  BY <1>2, <1>3, <1>4

-----------------------------------------------------------------------------
(* A word is its bits, and two halves of it. *)

\* Words with the same bits are the same word.
LEMMA SameBits ==
  ASSUME NEW n \in Nat, Powers(n), NEW x \in Word(n), NEW y \in Word(n),
         \A j \in 0 .. n-1 : Bit(x, j) = Bit(y, j)
  PROVE  x = y
<1> DEFINE T == {j \in 0 .. n : x % 2^j = y % 2^j}
<1>0. 2^n \in Nat \ {0} /\ x \in 0 .. 2^n - 1 /\ y \in 0 .. 2^n - 1
  BY PowersPositive DEF Word
<1>1. 0 \in T
  <2>1. 2^0 = 1
    OBVIOUS
  <2>2. x % 1 = 0 /\ y % 1 = 0
    BY <1>0
  <2> QED  BY <2>1, <2>2
<1>2. ASSUME NEW j \in 0 .. n-1, j \in T PROVE j + 1 \in T
  <2>1. j \in 0 .. n /\ j + 1 \in 0 .. n
    OBVIOUS
  <2>2. 2^j \in Nat \ {0} /\ 2^(j + 1) = 2 * 2^j
    BY <2>1, PowersPositive DEF Powers
  <2> DEFINE p == 2^j
  <2>3. x % (p * 2) = ((x \div p) % 2) * p + (x % p) /\ y % (p * 2) = ((y \div p) % 2) * p + (y % p)
    <3>1. p \in Nat \ {0} /\ x \in Int /\ y \in Int
      BY <2>2, <1>0
    <3> HIDE DEF p
    <3>2. \A z \in Int : z % (p * 2) = ((z \div p) % 2) * p + (z % p)
      <4>1. 2 \in Nat \ {0}
        OBVIOUS
      <4> QED  BY <3>1, <4>1, NextDigit
    <3> QED  BY <3>1, <3>2
  <2>4. (x \div p) % 2 = (y \div p) % 2
    BY DEF Bit
  <2>5. x % p = y % p
    BY <1>2
  <2>6. 2^(j + 1) = p * 2
    BY <2>2
  <2> QED  BY <2>1, <2>3, <2>4, <2>5, <2>6
<1>3. n \in T
  <2> HIDE DEF T
  <2>1. 0 .. n \subseteq T
    BY <1>1, <1>2, StepByStep
  <2> QED  BY <2>1
<1>4. x % 2^n = x /\ y % 2^n = y
  <2> DEFINE p == 2^n
  <2>1. p \in Nat \ {0} /\ x \in 0 .. p-1 /\ y \in 0 .. p-1
    BY <1>0
  <2> HIDE DEF p
  <2>2. x % p = x /\ y % p = y
    BY <2>1
  <2> QED  BY <2>2 DEF p
<1> QED  BY <1>3, <1>4

\* The bits of q * 2^k + r are those of r, then those of q.
LEMMA BitsOfParts ==
  ASSUME NEW n \in Nat, Powers(n), NEW k \in 0 .. n, NEW q \in Nat, NEW r \in Word(k)
  PROVE  /\ (q * 2^k + r) \in Nat /\ (q * 2^k + r) \div 2^k = q /\ (q * 2^k + r) % 2^k = r
         /\ \A j \in 0 .. n-1 : Bit(q * 2^k + r, j) = IF j < k THEN Bit(r, j) ELSE Bit(q, j - k)
<1> DEFINE p == 2^k  x == q * p + r
<1>0. p \in Nat \ {0} /\ r \in 0 .. p-1
  BY PowersPositive DEF Word
<1>1. x \in Nat /\ q \in Int /\ x \in Int
  <2> HIDE DEF p
  <2>1. q * p \in Nat
    BY <1>0
  <2> QED  BY <2>1, <1>0
<1>2. x \div p = q /\ x % p = r
  <2> HIDE DEF p
  <2>1. x = q * p + r
    OBVIOUS
  <2> HIDE DEF x
  <2> QED  BY <1>0, <1>1, <2>1, Unique
<1>3. ASSUME NEW j \in 0 .. n-1, j < k PROVE Bit(x, j) = Bit(r, j)
  <2> DEFINE a == 2^j  b == 2^(k - j - 1)
  <2>1. a \in Nat \ {0} /\ b \in Nat \ {0} /\ p = 2 * a * b
    <3>1. j \in 0 .. n /\ k - j - 1 \in 0 .. n /\ j + 1 \in Nat /\ (j + 1) + (k - j - 1) = k /\ k <= n
      BY <1>3
    <3>2. 2^(j + 1) = 2 * a
      BY DEF Powers
    <3>3. 2^((j + 1) + (k - j - 1)) = 2^(j + 1) * b
      BY <3>1, PowersAdd
    <3> QED  BY <3>1, <3>2, <3>3, PowersPositive
  <2> HIDE DEF p, a, b
  <2> DEFINE s == r \div a  t == r % a
  <2>2. r \in Int /\ s \in Int /\ t \in 0 .. a-1 /\ r = a * s + t
    BY <1>0, <2>1, DivMod
  <2> HIDE DEF s, t
  <2> DEFINE u == q * b
  <2>3. u \in Int /\ q * p = a * (2 * u)
    <3>1. u \in Int
      BY <2>1
    <3>2. q * (2 * a * b) = a * (2 * (q * b))
      BY <2>1
    <3> QED  BY <3>1, <3>2, <2>1
  <2>4. x = q * p + r
    OBVIOUS
  <2> HIDE DEF u, x
  <2> DEFINE v == 2 * u + s
  <2>5. v \in Int /\ x = v * a + t
    <3>1. v \in Int
      BY <2>2, <2>3
    <3>2. (2 * u + s) * a = a * (2 * u) + a * s
      BY <2>1, <2>2, <2>3
    <3>3. a * (2 * u) \in Int /\ a * s \in Int
      BY <2>1, <2>2, <2>3
    <3> QED  BY <3>1, <3>2, <3>3, <2>2, <2>3, <2>4
  <2>6. v % 2 = s % 2
    BY <2>2, <2>3
  <2> HIDE DEF v
  <2>7. x \div a = v
    BY <1>1, <2>1, <2>2, <2>5, Unique
  <2> QED  BY <2>6, <2>7 DEF Bit, s, a
<1>4. ASSUME NEW j \in 0 .. n-1, ~(j < k) PROVE Bit(x, j) = Bit(q, j - k)
  <2> DEFINE b == 2^(j - k)
  <2>1. b \in Nat \ {0} /\ 2^j = p * b
    <3>1. k \in Nat /\ j - k \in Nat /\ k + (j - k) = j /\ j <= n /\ j - k \in 0 .. n
      BY <1>4
    <3>2. 2^(k + (j - k)) = p * b
      BY <3>1, PowersAdd
    <3> QED  BY <3>1, <3>2, PowersPositive
  <2>2. x \div (p * b) = (x \div p) \div b
    <3> HIDE DEF p, b, x
    <3> QED  BY <1>0, <1>1, <2>1, DivDiv
  <2> HIDE DEF x
  <2> QED  BY <1>2, <2>1, <2>2 DEF Bit
<1> QED  BY <1>1, <1>2, <1>3, <1>4

\* The lower bits of a number are those of its remainder.
LEMMA BitsOfRemainder ==
  ASSUME NEW n \in Nat, Powers(n), NEW k \in 0 .. n, NEW x \in Nat
  PROVE  /\ x % 2^k \in Word(k) /\ x \div 2^k \in Nat /\ x = (x \div 2^k) * 2^k + (x % 2^k)
         /\ \A j \in 0 .. k-1 : Bit(x % 2^k, j) = Bit(x, j)
<1> DEFINE p == 2^k
<1>1. p \in Nat \ {0}
  BY PowersPositive
<1>2. x % p \in 0 .. p-1 /\ x \div p \in Nat /\ x = (x \div p) * p + (x % p)
  <2> HIDE DEF p
  <2>1. x \in Int /\ x % p \in 0 .. p-1 /\ x = p * (x \div p) + (x % p)
    BY <1>1, DivMod
  <2>2. x \div p \in Nat
    BY <1>1
  <2>3. p * (x \div p) = (x \div p) * p
    BY <1>1, <2>2
  <2> QED  BY <2>1, <2>2, <2>3
<1> DEFINE q == x \div p  r == x % p
<1>3. q \in Nat /\ r \in Word(k) /\ x = q * 2^k + r
  BY <1>2 DEF Word
<1> HIDE DEF q, r
<1>4. ASSUME NEW j \in 0 .. k-1 PROVE Bit(x, j) = Bit(r, j)
  <2>1. j \in 0 .. n-1 /\ j < k
    OBVIOUS
  <2> QED  BY <2>1, <1>3, BitsOfParts
<1> QED  BY <1>3, <1>4 DEF q, r

\* & works on the upper and the lower parts of its words.
LEMMA AndParts ==
  ASSUME NEW n \in Nat, Powers(n), NEW k \in 0 .. n, NEW q \in Nat, NEW r \in Word(k),
         NEW c \in Nat, NEW d \in Word(k)
  PROVE  /\ ((q * 2^k + r) & (c * 2^k + d)) = (q & c) * 2^k + (r & d)
         /\ (q & c) \in Nat /\ (r & d) \in Word(k)
<1> DEFINE x == q * 2^k + r  y == c * 2^k + d  z == x & y
<1>1. /\ x \in Nat /\ x \div 2^k = q /\ y \in Nat /\ y \div 2^k = c
      /\ \A j \in 0 .. n-1 : j < k => Bit(x, j) = Bit(r, j) /\ Bit(y, j) = Bit(d, j)
  BY BitsOfParts
<1> HIDE DEF x, y
<1>2. Powers(k) /\ k \in Nat
  BY DEF Powers
<1>3. z \in Nat /\ (q & c) \in Nat /\ (r & d) \in Word(k)
  BY <1>1, <1>2, AndBits, WordBits
<1>4. z \div 2^k = (q & c)
  BY <1>1, ShiftBits DEF ShiftedBits
<1>5. z % 2^k \in Word(k) /\ z = (z \div 2^k) * 2^k + (z % 2^k) /\ \A j \in 0 .. k-1 : Bit(z % 2^k, j) = Bit(z, j)
  <2> HIDE DEF z
  <2> QED  BY <1>3, BitsOfRemainder
<1>6. ASSUME NEW j \in 0 .. k-1 PROVE Bit(z % 2^k, j) = Bit(r & d, j)
  <2>1. Bit(r & d, j) = IF Bit(r, j) = 1 /\ Bit(d, j) = 1 THEN 1 ELSE 0
    BY <1>2, WordBits DEF BitByBit
  <2>2. Bit(x, j) = Bit(r, j) /\ Bit(y, j) = Bit(d, j)
    <3>1. j \in 0 .. n-1 /\ j < k
      OBVIOUS
    <3> QED  BY <3>1, <1>1
  <2>3. Bit(z, j) = IF Bit(x, j) = 1 /\ Bit(y, j) = 1 THEN 1 ELSE 0
    <3> DEFINE a == x \div 2^j  b == y \div 2^j
    <3>1. j \in 0 .. n
      OBVIOUS
    <3>2. z \div 2^j = (a & b)
      BY <1>1, <3>1, ShiftBits DEF ShiftedBits
    <3>3. a \in Nat /\ b \in Nat
      BY <1>1, <3>1, BitsOfRemainder
    <3>4. Bit(z, j) = (a & b) % 2 /\ Bit(x, j) = a % 2 /\ Bit(y, j) = b % 2
      BY <3>2 DEF Bit
    <3> HIDE DEF a, b
    <3>5. (a & b) % 2 = (a % 2) * (b % 2)
      BY <3>3, AndBits
    <3>6. a % 2 \in 0 .. 1 /\ b % 2 \in 0 .. 1
      BY <3>3
    <3> QED  BY <3>4, <3>5, <3>6
  <2> QED  BY <2>1, <2>2, <2>3, <1>5
<1>7. z % 2^k = (r & d)
  <2> HIDE DEF z
  <2> QED  BY <1>2, <1>3, <1>5, <1>6, SameBits
<1> QED  BY <1>3, <1>4, <1>5, <1>7 DEF x, y

\* A mask of the k lowest bits keeps the remainder.
LEMMA MaskKeeps ==
  ASSUME NEW n \in Nat, Powers(n), NEW k \in 0 .. n, NEW x \in Nat
  PROVE  (x & MaxU(k)) = x % 2^k /\ (MaxU(k) & x) = x % 2^k
<1> DEFINE q == x \div 2^k  r == x % 2^k  u == MaxU(k)
<1>1. q \in Nat /\ r \in Word(k) /\ x = q * 2^k + r
  BY BitsOfRemainder
<1>2. 2^k \in Nat \ {0} /\ u \in Word(k) /\ 0 \in Word(k) /\ k \in Nat /\ Powers(k)
  BY PowersPositive DEF Word, MaxU, Powers
<1>3. u = 0 * 2^k + u /\ 0 \in Nat
  BY <1>2 DEF Word
<1> HIDE DEF q, r, u
<1>4. (x & u) = (q & 0) * 2^k + (r & u) /\ (u & x) = (0 & q) * 2^k + (u & r)
  BY <1>1, <1>2, <1>3, AndParts
<1>5. (q & 0) = 0 /\ (0 & q) = 0
  BY <1>1, AndBits
<1>6. (r & u) \in Word(k) /\ (u & r) \in Word(k)
  BY <1>1, <1>2, WordBits
<1>7. ASSUME NEW j \in 0 .. k-1 PROVE Bit(r & u, j) = Bit(r, j) /\ Bit(u & r, j) = Bit(r, j)
  <2>1. Bit(u, j) = 1
    <3>1. k \in 0 .. k /\ j < k
      OBVIOUS
    <3>2. Bit(2^k - 1, j) = 1
      BY <1>2, <3>1, LowBits
    <3> QED  BY <3>2 DEF u, MaxU
  <2>2. BitByBit(r, u, j) /\ BitByBit(u, r, j)
    BY <1>1, <1>2, WordBits
  <2> QED  BY <2>1, <2>2 DEF BitByBit
<1>8. (r & u) = r /\ (u & r) = r
  BY <1>1, <1>2, <1>6, <1>7, SameBits
<1>9. 0 * 2^k = 0 /\ r \in Int
  BY <1>1, <1>2 DEF Word
<1> QED  BY <1>4, <1>5, <1>8, <1>9 DEF u, r

-----------------------------------------------------------------------------
(* Words put together from digits, and from single bits.                   *)

\* A bit of a number shifted right is the bit as far above it, and so is one of the
\* lower bits cut from it.
LEMMA BitOfShift ==
  ASSUME NEW n \in Nat, Powers(n), NEW x \in Nat, NEW k \in Nat, NEW i \in Nat, k + i <= n
  PROVE  /\ x \div 2^k \in Nat /\ Bit(x \div 2^k, i) = Bit(x, k + i)
         /\ \A l \in 0 .. n : i < l => Bit((x \div 2^k) % 2^l, i) = Bit(x, k + i)
<1> DEFINE p == 2^k  q == 2^i  y == x \div p
<1>1. p \in Nat \ {0} /\ q \in Nat \ {0} /\ 2^(k + i) = p * q
  <2>1. k \in 0 .. n /\ i \in 0 .. n
    OBVIOUS
  <2> QED  BY <2>1, PowersPositive, PowersAdd
<1>2. y \in Nat
  <2>1. k \in 0 .. n
    OBVIOUS
  <2> QED  BY <2>1, BitsOfRemainder
<1>3. Bit(y, i) = Bit(x, k + i)
  <2> HIDE DEF p, q
  <2>1. x \div (p * q) = (x \div p) \div q
    <3>1. x \in Int
      OBVIOUS
    <3> QED  BY <1>1, <3>1, DivDiv
  <2> QED  BY <1>1, <2>1 DEF Bit, q
<1>4. ASSUME NEW l \in 0 .. n, i < l PROVE Bit(y % 2^l, i) = Bit(x, k + i)
  <2> HIDE DEF y
  <2>1. i \in 0 .. l-1
    BY <1>4
  <2>2. Bit(y % 2^l, i) = Bit(y, i)
    BY <1>2, <2>1, BitsOfRemainder
  <2> QED  BY <1>3, <2>2
<1> QED  BY <1>2, <1>3, <1>4

\* the digits D of by bits, placed by at: the j-th stands at the by*j-th bit
Placed(S, F, K, by, at, D) ==
  /\ at \in [0 .. K-1 -> S] /\ \A i, j \in 0 .. K-1 : at[i] = at[j] => i = j
  /\ \A s \in S : \E j \in 0 .. K-1 : at[j] = s
  /\ \A j \in 0 .. K-1 : D[j] \in Word(by) /\ F[at[j]] = D[j] * 2^(by * j)

\* The sum of placed digits, in whatever order they are added, is a word whose bits are
\* those of the digits.
LEMMA PlacedDigits ==
  ASSUME NEW n \in Nat, Powers(n), NEW by \in Nat \ {0}, NEW K \in Nat, by * K <= n,
         NEW S, NEW F, NEW h, IsSum(h, S, F), NEW at, NEW D, Placed(S, F, K, by, at, D)
  PROVE  /\ h[S] \in Word(by * K)
         /\ \A j \in 0 .. K-1, i \in 0 .. by-1 : Bit(h[S], by * j + i) = Bit(D[j], i)
<1> DEFINE part(m) == {at[j] : j \in 0 .. m-1}  s(m) == h[part(m)]
           good(m) == /\ s(m) \in Word(by * m)
                      /\ \A j \in 0 .. m-1, i \in 0 .. by-1 : Bit(s(m), by * j + i) = Bit(D[j], i)
           T == {m \in 0 .. K : good(m)}
<1>1. /\ at \in [0 .. K-1 -> S] /\ \A i, j \in 0 .. K-1 : at[i] = at[j] => i = j
      /\ \A e \in S : \E j \in 0 .. K-1 : at[j] = e
      /\ \A j \in 0 .. K-1 : D[j] \in Word(by) /\ F[at[j]] = D[j] * 2^(by * j)
  BY DEF Placed
<1>2. 0 \in T
  <2>1. part(0) = {} /\ h[{}] = 0 /\ by * 0 = 0
    BY DEF IsSum
  <2>2. s(0) = 0 /\ 0 \in Word(by * 0)
    <3>1. 2^0 = 1
      OBVIOUS
    <3>2. h[part(0)] = 0
      <4> HIDE DEF part
      <4> QED  BY <2>1
    <3>3. 0 \in Word(0)
      BY <3>1 DEF Word
    <3> QED  BY <2>1, <3>2, <3>3
  <2>3. 0 .. 0-1 = {} /\ 0 \in 0 .. K
    OBVIOUS
  <2> HIDE DEF part
  <2> QED  BY <2>2, <2>3
<1>3. ASSUME NEW m \in 0 .. K-1, m \in T PROVE m + 1 \in T
  <2> DEFINE k == by * m  r == s(m)  q == D[m]  z == s(m + 1)
  <2>1. m \in Nat /\ m + 1 \in 0 .. K /\ k \in Nat /\ k + by = by * (m + 1) /\ by * (m + 1) <= by * K
    BY <1>3
  <2>2. k \in 0 .. n /\ k + by <= n /\ k + by \in 0 .. n /\ by \in 0 .. n
    BY <2>1
  <2>3. r \in Word(k)
    BY <1>3
  <2>4. \A j \in 0 .. m-1, i \in 0 .. by-1 : Bit(r, by * j + i) = Bit(D[j], i)
    BY <1>3
  <2>5. q \in Word(by) /\ q \in Nat /\ q < 2^by /\ 2^by \in Nat \ {0} /\ 2^k \in Nat \ {0} /\ 2^(k + by) = 2^k * 2^by
    <3>1. 2^by \in Nat \ {0} /\ 2^k \in Nat \ {0} /\ 2^(k + by) = 2^k * 2^by
      <4> HIDE DEF k
      <4> QED  BY <2>1, <2>2, PowersPositive, PowersAdd
    <3>2. q \in Word(by)
      BY <1>1, <1>3
    <3> QED  BY <3>1, <3>2 DEF Word
  <2>6. z = q * 2^k + r
    <3>1. part(m + 1) \in SUBSET S /\ at[m] \in part(m + 1)
      BY <1>1, <1>3
    <3>2. part(m + 1) \ {at[m]} = part(m)
      <4>1. \A j \in 0 .. m-1 : j \in 0 .. K-1 /\ j \in 0 .. (m + 1) - 1 /\ at[j] # at[m]
        BY <1>1, <1>3
      <4>2. \A j \in 0 .. (m + 1) - 1 : j = m \/ j \in 0 .. m-1
        BY <1>3
      <4> QED  BY <4>1, <4>2
    <3> HIDE DEF part
    <3>3. h[part(m + 1)] = F[at[m]] + h[part(m)]
      BY <3>1, <3>2 DEF IsSum
    <3> QED  BY <3>3, <1>1, <1>3
  <2> HIDE DEF part, s, r, q, z
  <2>7. /\ z \in Nat /\ z \div 2^k = q
        /\ \A j \in 0 .. n-1 : Bit(z, j) = IF j < k THEN Bit(r, j) ELSE Bit(q, j - k)
    <3> HIDE DEF k
    <3> QED  BY <2>2, <2>3, <2>5, <2>6, BitsOfParts
  <2>8. z \in Word(k + by)
    <3> DEFINE a == 2^k  b == 2^by
    <3>1. a \in Nat \ {0} /\ b \in Nat \ {0} /\ q \in 0 .. b-1 /\ r \in 0 .. a-1 /\ z = q * a + r
      BY <2>3, <2>5, <2>6 DEF Word
    <3> HIDE DEF a, b
    <3>2. q * a <= (b - 1) * a /\ (b - 1) * a = a * b - a /\ a * b \in Nat /\ q * a \in Nat
      BY <3>1
    <3>3. z \in 0 .. a * b - 1
      BY <3>1, <3>2
    <3> QED  BY <3>3, <2>5 DEF Word, a, b
  <2>9. ASSUME NEW j \in 0 .. m, NEW i \in 0 .. by-1 PROVE Bit(z, by * j + i) = Bit(D[j], i)
    <3> DEFINE p == by * j + i
    <3>1. CASE j = m
      <4>1. p = k + i /\ p \in 0 .. n-1 /\ ~(p < k) /\ p - k = i
        BY <2>1, <2>2, <3>1
      <4> HIDE DEF p, k
      <4> QED  BY <2>7, <3>1, <4>1 DEF q, p
    <3>2. CASE j # m
      <4>1. j \in 0 .. m-1 /\ j + 1 <= m /\ j \in Nat
        BY <3>2, <2>1
      <4>2. by * (j + 1) <= by * m /\ by * (j + 1) = by * j + by /\ by * j \in Nat
        BY <4>1, <2>1
      <4>3. p \in 0 .. n-1 /\ p < k
        BY <4>2, <2>1, <2>2
      <4>4. Bit(z, p) = Bit(r, p)
        <5> HIDE DEF p, k
        <5> QED  BY <4>3, <2>7
      <4> QED  BY <4>1, <4>4, <2>4
    <3> QED  BY <3>1, <3>2
  <2>10. good(m + 1)
    <3>1. (m + 1) - 1 = m /\ k + by = by * (m + 1)
      BY <2>1
    <3> QED  BY <2>8, <2>9, <3>1 DEF z
  <2> QED  BY <2>1, <2>10
<1> HIDE DEF T
<1>4. 0 .. K \subseteq T
  BY <1>2, <1>3, StepByStep
<1>5. K \in T
  BY <1>4
<1>6. part(K) = S
  BY <1>1
<1>7. good(K)
  BY <1>5 DEF T
<1> HIDE DEF part
<1> QED  BY <1>6, <1>7

\* The largest and the least of a set of numbers below a bound.
LEMMA Extremes ==
  ASSUME NEW n \in Nat, NEW S, S \subseteq 0 .. n, S # {}
  PROVE  /\ Max(S) \in S /\ \A j \in S : j <= Max(S)
         /\ Min(S) \in S /\ \A j \in S : Min(S) <= j
<1>1. \E k \in S : \A j \in S : k <= j
  <2>1. S \subseteq Nat
    OBVIOUS
  <2> QED  BY <2>1, LeastNumber
<1>2. \E k \in S : \A j \in S : j <= k
  <2> DEFINE R == {n - j : j \in S}
  <2>1. R \subseteq Nat /\ R # {}
    <3>1. \A j \in S : n - j \in Nat
      OBVIOUS
    <3> QED  BY <3>1
  <2> HIDE DEF R
  <2>2. PICK k \in R : \A j \in R : k <= j
    BY <2>1, LeastNumber
  <2>3. PICK i \in S : k = n - i
    BY DEF R
  <2>4. ASSUME NEW j \in S PROVE j <= i
    <3>1. n - j \in R
      BY DEF R
    <3>2. k <= n - j
      BY <2>2, <3>1
    <3> QED  BY <2>3, <3>2
  <2> QED  BY <2>4
<1> QED  BY <1>1, <1>2 DEF Max, Min

\* The bits that are 1 of a word other than 0: there are some, and the highest of them
\* bounds the word.
LEMMA HighestBit ==
  ASSUME NEW n \in Nat, Powers(n), NEW x \in Word(n), x # 0
  PROVE  LET ones == {i \in 0 .. n-1 : Bit(x, i) = 1} IN
         /\ ones # {} /\ ones \subseteq 0 .. n /\ Max(ones) \in 0 .. n-1
         /\ 2^Max(ones) <= x /\ x < 2^(Max(ones) + 1)
<1> DEFINE ones == {i \in 0 .. n-1 : Bit(x, i) = 1}  k == Max(ones)
<1>0. 2^n \in Nat \ {0} /\ x \in 0 .. 2^n - 1 /\ x \in Nat /\ 0 \in Word(n) /\ n \in 0 .. n
  BY PowersPositive DEF Word
<1>1. ASSUME NEW i \in 0 .. n-1 PROVE Bit(x, i) \in 0 .. 1 /\ Bit(0, i) = 0
  <2>1. Bit(x, i) \in 0 .. 1
    BY WordBits DEF BitByBit
  <2>2. (0 & 0) = 0 /\ (0 ^^ 0) = 0
    <3>1. (0 & 0) = 0
      BY AndBits
    <3> QED  BY <3>1 DEF ^^
  <2>3. BitByBit(0, 0, i)
    BY <1>0, WordBits
  <2> QED  BY <2>1, <2>2, <2>3 DEF BitByBit
<1>2. ones # {}
  <2>1. SUFFICES ASSUME ones = {} PROVE x = 0
    OBVIOUS
  <2>2. \A i \in 0 .. n-1 : Bit(x, i) = Bit(0, i)
    <3>1. \A i \in 0 .. n-1 : Bit(x, i) # 1
      BY <2>1
    <3> QED  BY <3>1, <1>1
  <2> QED  BY <1>0, <2>2, SameBits
<1>3. ones \subseteq 0 .. n
  OBVIOUS
<1>4. k \in ones /\ \A j \in ones : j <= k
  <2> HIDE DEF ones
  <2> QED  BY <1>2, <1>3, Extremes
<1>5. k \in 0 .. n-1 /\ Bit(x, k) = 1 /\ \A j \in 0 .. n-1 : Bit(x, j) = 1 => j <= k
  BY <1>4
<1> HIDE DEF k, ones
<1>6. 2^k <= x
  <2> DEFINE p == 2^k
  <2>1. p \in Nat \ {0} /\ (x \div p) % 2 = 1
    <3>1. k \in 0 .. n
      BY <1>5
    <3> QED  BY <1>5, <3>1, PowersPositive DEF Bit
  <2> HIDE DEF p
  <2> DEFINE a == x \div p
  <2>2. a \in Int /\ x % p \in 0 .. p-1 /\ x = p * a + (x % p) /\ a % 2 = 1
    BY <1>0, <2>1, DivMod
  <2> HIDE DEF a
  <2>3. a >= 1
    <3>1. a # 0
      BY <2>2
    <3>2. ASSUME a <= -1 PROVE FALSE
      <4>1. p * a <= p * (-1)
        BY <2>1, <2>2, <3>2
      <4> QED  BY <4>1, <2>1, <2>2, <1>0
    <3> QED  BY <3>1, <3>2, <2>2
  <2>4. p * a >= p * 1
    BY <2>1, <2>2, <2>3
  <2> QED  BY <2>1, <2>2, <2>4 DEF p
<1>7. x < 2^(k + 1)
  <2> DEFINE l == k + 1  y == x % 2^l
  <2>1. l \in 0 .. n
    BY <1>5
  <2>2. y \in Word(l) /\ \A j \in 0 .. l-1 : Bit(y, j) = Bit(x, j)
    <3> HIDE DEF l
    <3> QED  BY <2>1, <1>0, BitsOfRemainder
  <2>3. 2^l \in Nat \ {0} /\ y \in Nat /\ y < 2^l
    <3>1. 2^l \in Nat \ {0}
      BY <2>1, PowersPositive
    <3> QED  BY <2>2, <3>1 DEF Word
  <2>4. y \in Word(n) /\ \A j \in 0 .. n-1 : Bit(y, j) = IF j < l THEN Bit(x, j) ELSE 0
    <3> HIDE DEF y, l
    <3>1. y = 0 * 2^l + y /\ 0 \in Nat
      BY <2>3
    <3>2. \A j \in 0 .. n-1 : Bit(0 * 2^l + y, j) = IF j < l THEN Bit(y, j) ELSE Bit(0, j - l)
      BY <2>1, <2>2, BitsOfParts
    <3>3. ASSUME NEW j \in 0 .. n-1 PROVE Bit(y, j) = IF j < l THEN Bit(x, j) ELSE 0
      <4>1. Bit(y, j) = IF j < l THEN Bit(y, j) ELSE Bit(0, j - l)
        BY <3>1, <3>2
      <4>2. CASE j < l
        <5>1. j \in 0 .. l-1
          BY <4>2, <2>1
        <5> QED  BY <4>2, <5>1, <2>2
      <4>3. CASE ~(j < l)
        <5>1. j - l \in 0 .. n-1
          BY <4>3, <2>1
        <5> QED  BY <4>1, <4>3, <5>1, <1>1
      <4> QED  BY <4>2, <4>3
    <3>4. y \in Word(n)
      <4>1. y <= x
        <5>1. x = (x \div 2^l) * 2^l + y /\ x \div 2^l \in Nat
          BY <2>1, <1>0, BitsOfRemainder DEF y
        <5>2. (x \div 2^l) * 2^l \in Nat
          BY <5>1, <2>3
        <5> QED  BY <5>1, <5>2, <2>3
      <4> QED  BY <4>1, <2>3, <1>0 DEF Word
    <3> QED  BY <3>3, <3>4
  <2>5. \A j \in 0 .. n-1 : Bit(y, j) = Bit(x, j)
    <3> SUFFICES ASSUME NEW j \in 0 .. n-1 PROVE Bit(y, j) = Bit(x, j)
      OBVIOUS
    <3>1. j < l \/ Bit(x, j) = 0
      BY <1>1, <1>5
    <3> QED  BY <3>1, <2>4
  <2>6. y = x
    <3> HIDE DEF y
    <3> QED  BY <2>4, <2>5, SameBits
  <2> QED  BY <2>3, <2>6
<1> QED  BY <1>2, <1>3, <1>5, <1>6, <1>7 DEF k, ones

\* OfBits makes the word of the bits it is given.
LEMMA WordOfBits ==
  ASSUME NEW n \in Nat, Powers(n), NEW b, \A i \in 0 .. n-1 : b[i] \in 0 .. 1
  PROVE  OfBits(n, b) \in Word(n) /\ \A i \in 0 .. n-1 : Bit(OfBits(n, b), i) = b[i]
<1> DEFINE S == 0 .. n-1
           F == [i \in S |-> b[i] * 2^i]
           h == CHOOSE h : h = [s \in SUBSET S |-> IF s = {} THEN 0
                                  ELSE LET e == CHOOSE e \in s : TRUE IN b[e] * 2^e + h[s \ {e}]]
           at == [i \in S |-> i]
<1>1. OfBits(n, b) = h[S]
  BY Zenon DEF OfBits, MapThenSumSet, MapThenFoldSet
<1>2. IsFiniteSet(S) /\ F \in [S -> Int]
  <2>1. IsFiniteSet(S)
    BY FS_Interval
  <2>2. ASSUME NEW i \in S PROVE b[i] * 2^i \in Int
    <3>1. i \in 0 .. n /\ b[i] \in Int
      OBVIOUS
    <3>2. 2^i \in Int
      BY <3>1, PowersPositive
    <3> QED  BY <3>1, <3>2
  <2> QED  BY <2>1, <2>2
<1>3. PICK g : Sums(g, S, F)
  BY <1>2, SumExists
<1>4. ASSUME NEW k, NEW s \in SUBSET S
      PROVE  SumStep(k, F, s) = IF s = {} THEN 0 ELSE LET e == CHOOSE e \in s : TRUE IN b[e] * 2^e + k[s \ {e}]
  <2> DEFINE e == CHOOSE e \in s : TRUE
  <2>1. CASE s = {}
    BY <2>1 DEF SumStep
  <2>2. CASE s # {}
    <3>1. e \in s /\ e \in S
      BY <2>2
    <3>2. F[e] = b[e] * 2^e
      <4> HIDE DEF e
      <4> QED  BY <3>1
    <3>3. SumStep(k, F, s) = F[e] + k[s \ {e}]
      <4> HIDE DEF F
      <4> QED  BY <2>2, Zenon DEF SumStep
    <3> HIDE DEF F
    <3> QED  BY <2>2, <3>2, <3>3
  <2> QED  BY <2>1, <2>2
<1>5. \A k : [s \in SUBSET S |-> SumStep(k, F, s)] =
        [s \in SUBSET S |-> IF s = {} THEN 0 ELSE LET e == CHOOSE e \in s : TRUE IN b[e] * 2^e + k[s \ {e}]]
  <2> HIDE DEF F, S
  <2> QED  BY <1>4, Zenon
<1>6. g = [s \in SUBSET S |-> IF s = {} THEN 0 ELSE LET e == CHOOSE e \in s : TRUE IN b[e] * 2^e + g[s \ {e}]]
  <2> HIDE DEF F, S
  <2> QED  BY <1>3, <1>5, Zenon DEF Sums
<1>7. h = [s \in SUBSET S |-> IF s = {} THEN 0 ELSE LET e == CHOOSE e \in s : TRUE IN b[e] * 2^e + h[s \ {e}]]
  <2> HIDE DEF S
  <2> QED  BY <1>6, Zenon
<1> HIDE DEF h
<1>8. IsSum(h, S, F)
  <2>1. Sums(h, S, F)
    <3> HIDE DEF F, S
    <3> QED  BY <1>5, <1>7, Zenon DEF Sums
  <2> HIDE DEF F, S
  <2> QED  BY <1>2, <2>1, SumIsSum
<1>9. Placed(S, F, n, 1, at, b)
  <2>1. ASSUME NEW j \in 0 .. n-1 PROVE b[j] \in Word(1) /\ F[at[j]] = b[j] * 2^(1 * j)
    <3>1. 2^1 = 2 /\ 1 * j = j /\ at[j] = j
      OBVIOUS
    <3> QED  BY <3>1 DEF Word
  <2>2. at \in [0 .. n-1 -> S] /\ \A j \in 0 .. n-1 : at[j] = j
    OBVIOUS
  <2> HIDE DEF at, F
  <2> QED  BY <2>1, <2>2 DEF Placed
<1>10. /\ h[S] \in Word(1 * n)
       /\ \A j \in 0 .. n-1, i \in 0 .. 1-1 : Bit(h[S], 1 * j + i) = Bit(b[j], i)
  <2>1. 1 \in Nat \ {0} /\ 1 * n <= n
    OBVIOUS
  <2> HIDE DEF S, F, at
  <2> QED  BY <2>1, <1>8, <1>9, PlacedDigits
<1>11. ASSUME NEW j \in 0 .. n-1 PROVE Bit(h[S], j) = b[j]
  <2>1. 1 * j + 0 = j /\ 0 \in 0 .. 1-1 /\ 2^0 = 1
    OBVIOUS
  <2>2. Bit(h[S], j) = Bit(b[j], 0)
    <3> HIDE DEF S
    <3>1. Bit(h[S], 1 * j + 0) = Bit(b[j], 0)
      BY <1>10, <2>1
    <3> QED  BY <2>1, <3>1
  <2>3. b[j] \in {0, 1}
    OBVIOUS
  <2>4. Bit(b[j], 0) = b[j]
    BY <2>1, <2>3 DEF Bit
  <2> QED  BY <2>2, <2>4
<1>12. 1 * n = n
  OBVIOUS
<1> QED  BY <1>1, <1>10, <1>11, <1>12
=============================================================================
