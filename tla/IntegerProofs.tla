---------------------------- MODULE IntegerProofs ----------------------------
(***************************************************************************)
(* The integer and fixed-point lanes are exact for every width, in every   *)
(* reachable state: carries and counters (LimbsAreExact), products and     *)
(* quotients (ProductsAreExact), and fixed-point rounding and saturation   *)
(* (FixedPointIsExact); what the code writes down more than once is the    *)
(* same each time (ImplementationsAreAlike); the permutations of bits and  *)
(* the carry-less products fit together (PermutationsAndProducts); and     *)
(* stack frames are restored, and jumps, loads and stores go where they    *)
(* should (FramesAndTargetsHold).                                          *)
(*                                                                         *)
(* The invariant is Types: the registers hold words of W bits and vxrm a   *)
(* rounding mode.  The properties follow from it, for any words: each is a *)
(* fact about what the instructions' code computes with wrapped words, the *)
(* bits it shifts out and the signs of exclusive ors, compared with the    *)
(* exact number.                                                           *)
(***************************************************************************)
EXTENDS IntegerUnit, WordProofs, SequenceTheorems

-----------------------------------------------------------------------------
(* Types                                                                   *)

\* The powers of two that words of W and of 2W bits need.
LEMMA Widths ==
  /\ W \in Nat \ {0} /\ Powers(2 * W) /\ Powers(W) /\ 2 * W \in Nat \ {0} /\ W - 1 \in Nat
  /\ TwosComplement(W) /\ TwosComplement(2 * W)
  /\ 2^(2 * W) = 2^W * 2^W /\ 2^(2 * W - 1) = 2^(W - 1) * 2^W
<1>1. W \in {4, 8, 16, 32, 64}
  <2>1. 2^1 = 2 /\ 2^2 = 4 /\ 2^3 = 8 /\ 2^4 = 16 /\ 2^5 = 32 /\ 2^6 = 64
    OBVIOUS
  <2>2. PICK i \in 2 .. 6 : W = 2^i
    BY WidthAssumption
  <2>3. i \in {2, 3, 4, 5, 6}
    OBVIOUS
  <2> QED BY <2>1, <2>2, <2>3
<1>2. W \in Nat \ {0} /\ 2 * W \in Nat \ {0} /\ W - 1 \in Nat
  BY <1>1
<1>3. Powers(2 * W) /\ Powers(W)
  <2>1. \A k \in 0 .. 2*W - 1 : k \in 0 .. 4*W
    BY <1>2
  <2>2. \A k \in 0 .. W - 1 : k \in 0 .. 4*W
    BY <1>2
  <2> QED BY <2>1, <2>2, PowerAssumption DEF Powers
<1>4. 2^W \in Nat \ {0} /\ 2^(W - 1) \in Nat \ {0} /\ 2^(2*W) \in Nat \ {0} /\ 2^(2*W - 1) \in Nat \ {0}
  <2>1. W \in 0 .. W /\ W - 1 \in 0 .. W /\ 2*W \in 0 .. 2*W /\ 2*W - 1 \in 0 .. 2*W
    BY <1>2
  <2> QED BY <1>2, <1>3, <2>1, PowersPositive
<1>5. 2^W = 2 * 2^(W - 1) /\ 2^(2*W) = 2 * 2^(2*W - 1)
  <2>1. W - 1 \in 0 .. 2*W - 1 /\ 2*W - 1 \in 0 .. 2*W - 1 /\ (W - 1) + 1 = W /\ (2*W - 1) + 1 = 2*W
    BY <1>2
  <2>2. 2^((W - 1) + 1) = 2 * 2^(W - 1) /\ 2^((2*W - 1) + 1) = 2 * 2^(2*W - 1)
    BY <2>1, <1>3 DEF Powers
  <2> QED BY <2>1, <2>2
<1>6. 2^(W + W) = 2^W * 2^W /\ 2^((W - 1) + W) = 2^(W - 1) * 2^W
  <2>1. W \in Nat /\ W - 1 \in Nat /\ 2*W \in Nat /\ W + W <= 2*W /\ (W - 1) + W <= 2*W
    BY <1>2
  <2> QED BY <1>3, <2>1, PowersAdd
<1>7. W + W = 2*W /\ (W - 1) + W = 2*W - 1
  BY <1>2
<1> QED BY <1>2, <1>3, <1>4, <1>5, <1>6, <1>7 DEF TwosComplement

\* the operands and the accumulator are words, the mask bit and vxsat flags
Types ==
  /\ vs2 \in Word(W) /\ vs1 \in Word(W) /\ vd \in Word(W)
  /\ m \in BOOLEAN /\ vxrm \in 0 .. 3 /\ vxsat \in BOOLEAN

\* a result of a saturating instruction
Result(r) == r.v \in Word(W) /\ r.sat \in BOOLEAN

\* Both kinds of result hold a word and a flag.
LEMMA PlainResult ==
  ASSUME NEW a \in Int
  PROVE  Result(Plain(Trunc(W, a))) /\ Result(Saturated(Trunc(W, a)))
<1>1. Trunc(W, a) \in Word(W)
  BY Widths, TruncWord DEF TwosComplement
<1> QED  BY <1>1 DEF Result, Plain, Saturated

\* get_rounding_bit of the vector helpers returns 0 or 1.
LEMMA RoundingBit ==
  ASSUME NEW rm \in 0 .. 3, NEW bits, NEW size
  PROVE  GetRoundingBit(rm, bits, size) \in 0 .. 1
<1>1. \A b : Flag(b) \in 0 .. 1
  BY DEF Flag
<1>2. rm = 0 \/ rm = 1 \/ rm = 2 \/ rm = 3
  OBVIOUS
<1> QED BY <1>1, <1>2 DEF GetRoundingBit

\* Words and the ends of their ranges are numbers.
LEMMA WordFacts ==
  ASSUME NEW a \in Word(W)
  PROVE  /\ a \in Int /\ a \in Nat /\ Signed(W, a) \in Int
         /\ MaxU(W) \in Word(W) /\ MaxS(W) \in Word(W) /\ 0 \in Word(W)
         /\ MaxS(W) \in Int /\ MinS(W) \in Int /\ MaxU(W) \in Int
<1>1. 2^W \in Nat \ {0} /\ 2^(W - 1) \in Nat \ {0} /\ 2^W = 2 * 2^(W - 1)
  BY Widths DEF TwosComplement
<1> QED  BY <1>1, Widths, SignedWord DEF Word, MaxU, MaxS, MinS

\* A shift right by up to 2W bits is a number.
LEMMA Shifted ==
  ASSUME NEW a \in Int, NEW k \in 0 .. 2*W
  PROVE  2^k \in Nat \ {0} /\ Shr(a, k) \in Int
<1>1. 2^k \in Nat \ {0}
  BY Widths, PowersPositive
<1> QED  BY <1>1, TruncWord

\* Two words side by side make a word of twice the width.
LEMMA WideWord ==
  ASSUME NEW a \in Word(W), NEW b \in Word(W)
  PROVE  Wide(a, b) \in Word(2*W) /\ Wide(a, b) \in Nat
<1> DEFINE p == 2^W
<1>1. p \in Nat \ {0} /\ 2^(2*W) = p * p /\ a \in 0 .. p-1 /\ b \in 0 .. p-1 /\ Wide(a, b) = a * p + b
  BY Widths DEF Word, Wide, TwosComplement
<1> HIDE DEF p
<1>2. a * p \in Nat /\ a * p <= (p - 1) * p /\ (p - 1) * p = p * p - p /\ p * p \in Nat
  BY <1>1
<1>3. a * p + b \in 0 .. p * p - 1
  BY <1>1, <1>2
<1> QED  BY <1>1, <1>3 DEF Word

\* What the scaling shift returns before its cast is a number.
LEMMA VssrTyped ==
  ASSUME NEW w, w \in {W, 2*W}, NEW rm \in 0 .. 3, NEW a \in Int, NEW b \in Nat
  PROVE  VssrHelper(w, rm, a, b) \in Int
<1>1. w \in Nat \ {0} /\ b % w \in 0 .. w - 1 /\ b % w \in 0 .. 2*W
  BY Widths
<1> DEFINE r(x) == GetRoundingBit(rm, x, (b % w) + 1)
<1>2. \A x : r(x) \in 0 .. 1
  BY RoundingBit
<1>3. Shr(a, b % w) \in Int
  BY <1>1, Shifted
<1>4. PICK x : VssrHelper(w, rm, a, b) = Shr(a, b % w) + r(x)
  BY DEF VssrHelper
<1> HIDE DEF r
<1> QED BY <1>2, <1>3, <1>4

\* A narrowing clip returns a word and a flag, whatever it saturates at.
LEMMA VnclipTyped ==
  ASSUME NEW rm \in 0 .. 3, NEW a \in Int, NEW b \in Nat, NEW lo \in Int, NEW hi \in Int
  PROVE  Result(VnclipHelper(W, rm, a, b, lo, hi))
<1>1. b % (2*W) \in 0 .. 2*W
  BY Widths
<1> DEFINE r(x) == Shr(a, b % (2*W)) + GetRoundingBit(rm, x, (b % (2*W)) + 1)
           out(n) == IF n > hi THEN Saturated(Trunc(W, hi))
                     ELSE IF n < lo THEN Saturated(Trunc(W, lo)) ELSE Plain(Trunc(W, n))
<1>2. \A x : r(x) \in Int
  <2> SUFFICES ASSUME NEW x PROVE r(x) \in Int OBVIOUS
  <2>1. GetRoundingBit(rm, x, (b % (2*W)) + 1) \in 0 .. 1 BY RoundingBit
  <2> QED BY <1>1, <2>1, Shifted
<1>3. PICK x : VnclipHelper(W, rm, a, b, lo, hi) = out(r(x))
  BY DEF VnclipHelper
<1>4. \A n \in Int : Result(out(n))
  BY PlainResult
<1> HIDE DEF r, out
<1> QED  BY <1>2, <1>3, <1>4

\* Every saturating instruction returns a word and a flag.
LEMMA SatResultTyped ==
  ASSUME Types, NEW op \in SatOps
  PROVE  Result(SatResult(op, vd))
<1>0. /\ vd \in Word(W) /\ vs1 \in Word(W) /\ vs2 \in Word(W) /\ vxrm \in 0 .. 3
      /\ vd \in Int /\ vs1 \in Int /\ vs1 \in Nat /\ Signed(W, vd) \in Int /\ Signed(W, vs1) \in Int
      /\ MaxU(W) \in Word(W) /\ MaxS(W) \in Word(W) /\ 0 \in Word(W)
      /\ MinS(W) \in Int /\ MaxS(W) \in Int /\ MaxU(W) \in Int /\ 0 \in Int
  BY WordFacts DEF Types
<1>1. \A w \in Word(W) : Result(Plain(w)) /\ Result(Saturated(w))
  BY DEF Result, Plain, Saturated
<1>2. \A x \in Int : Result(Plain(Trunc(W, x))) /\ Result(Saturated(Trunc(W, x)))
  BY PlainResult
<1>3. Result(Vsaddu(W, vd, vs1))
  BY <1>0, <1>1, <1>2 DEF Vsaddu
<1>4. Result(Vsadd(W, vd, vs1))
  BY <1>0, <1>1, <1>2 DEF Vsadd, VsaddHelper
<1>5. Result(Vssubu(W, vd, vs1))
  BY <1>0, <1>1, <1>2 DEF Vssubu
<1>6. Result(Vssub(W, vd, vs1))
  BY <1>0, <1>1, <1>2 DEF Vssub, VssubHelper
<1>7. Result(Vsmul(W, vxrm, vd, vs1))
  <2> DEFINE r == VssrHelper(2*W, vxrm, Signed(W, vd) * Signed(W, vs1), W - 1)
  <2> DEFINE z == Signed(W, vd) * Signed(W, vs1)
  <2>0. z \in Int /\ W - 1 \in Nat /\ 2*W \in {W, 2*W}
    BY <1>0, Widths
  <2> HIDE DEF z
  <2>01. VssrHelper(2*W, vxrm, z, W - 1) \in Int
    BY <1>0, <2>0, VssrTyped
  <2>1. r \in Int
    BY <2>01 DEF z
  <2> HIDE DEF r
  <2> QED BY <1>0, <1>1, <1>2, <2>1 DEF Vsmul, VsmulHelper, r
<1>8. Wide(vd, vs2) \in Word(2*W) /\ Wide(vd, vs2) \in Int /\ Signed(2*W, Wide(vd, vs2)) \in Int
  BY <1>0, WideWord, Widths, SignedWord
<1>9. Result(Vnclipu(W, vxrm, Wide(vd, vs2), vs1))
  BY <1>0, <1>8, VnclipTyped DEF Vnclipu
<1>10. Result(Vnclip(W, vxrm, Wide(vd, vs2), vs1))
  BY <1>0, <1>8, VnclipTyped DEF Vnclip
<1> QED BY <1>3, <1>4, <1>5, <1>6, <1>7, <1>9, <1>10 DEF SatOps, SatResult

\* Every register keeps its width and vxrm a rounding mode, whatever instructions
\* execute and whatever is written to vxrm, vxsat and vcsr between them.
THEOREM TypeCorrect == Spec => []Types
<1>1. Init => Types
  <2>1. 0 \in 0 .. 3 /\ FALSE \in BOOLEAN
    OBVIOUS
  <2> QED BY <2>1, Zenon DEF Init, Types
<1>2. Types /\ [Next]_vars => Types'
  <2> SUFFICES ASSUME Types, [Next]_vars PROVE Types'
    OBVIOUS
  <2>1. ASSUME NEW op \in SatOps, Execute(op) PROVE Types'
    <3>1. Result(SatResult(op, vd))
      BY SatResultTyped
    <3>2. vd' \in Word(W)
      BY <2>1, <3>1 DEF Execute, Result
    <3>3. vxsat' \in BOOLEAN
      BY <2>1, <3>1 DEF Execute, Result, Types
    <3> QED BY <2>1, <3>2, <3>3 DEF Execute, Types
  <2>2. ASSUME NEW v \in 0 .. 1, WriteVxsat(v) PROVE Types'
    BY <2>2 DEF WriteVxsat, Types
  <2>3. ASSUME NEW v \in 0 .. 3, WriteVxrm(v) PROVE Types'
    BY <2>3 DEF WriteVxrm, Types
  <2>4. ASSUME NEW v \in 0 .. 7, WriteVcsr(v) PROVE Types'
    BY <2>4 DEF WriteVcsr, Types
  <2>5. CASE UNCHANGED vars
    BY <2>5 DEF vars, Types
  <2> QED BY <2>1, <2>2, <2>3, <2>4, <2>5 DEF Next
<1> QED BY <1>1, <1>2, PTL DEF Spec

-----------------------------------------------------------------------------
(* Carries between limbs, and widening                                     *)

\* vadc and vmadc on one limb: their word and carry are the sum of the elements and the
\* carry in.
LEMMA AddCarry ==
  ASSUME NEW a \in Word(W), NEW b \in Word(W), NEW c \in BOOLEAN
  PROVE  /\ Vadc(W, a, b, c) \in Word(W) /\ Vmadc(W, a, b, c) \in BOOLEAN
         /\ a + b + Flag(c) = Vadc(W, a, b, c) + Flag(Vmadc(W, a, b, c)) * 2^W
<1> DEFINE p == 2^W  f == Flag(c)  s == a + b + f  t == Trunc(W, s)  h == Shr(s, W)
<1>1. p \in Nat \ {0} /\ a \in 0 .. p-1 /\ b \in 0 .. p-1 /\ f \in 0 .. 1
  BY Widths DEF Word, TwosComplement, Flag
<1>2. s \in Int
  <2> HIDE DEF p, f
  <2> QED BY <1>1
<1>3. t \in 0 .. p-1 /\ h \in Int /\ s = h * p + t
  <2> HIDE DEF s
  <2> QED BY <1>1, <1>2, TruncWord DEF Word
<1>4. h \in 0 .. 1
  <2> HIDE DEF p, f, t, h
  <2>1. s <= 2 * p - 1 /\ s >= 0
    BY <1>1
  <2> HIDE DEF s
  <2>2. h <= 1
    <3> SUFFICES ASSUME h >= 2 PROVE FALSE
      BY <1>3
    <3>1. h * p >= 2 * p
      BY <1>1, <1>3
    <3> QED BY <1>1, <1>3, <3>1, <2>1
  <2>3. h >= 0
    <3> SUFFICES ASSUME h <= -1 PROVE FALSE
      BY <1>3
    <3>1. h * p <= (-1) * p
      BY <1>1, <1>3
    <3> QED BY <1>1, <1>3, <3>1, <2>1
  <2> QED BY <1>3, <2>2, <2>3
<1>5. Vmadc(W, a, b, c) = (h # 0) /\ Vadc(W, a, b, c) = t
  BY DEF Vmadc, Vadc
<1> HIDE DEF s, t, h
<1>6. Flag(h # 0) = h
  BY <1>4 DEF Flag
<1>7. a + b + f = t + Flag(h # 0) * p
  <2>1. s = t + h * p
    BY <1>1, <1>3
  <2> QED BY <1>6, <2>1, Zenon DEF s
<1>8. t \in Word(W) /\ (h # 0) \in BOOLEAN
  BY <1>3 DEF p, Word
<1> QED BY <1>5, <1>7, <1>8 DEF p, f

\* vsbc and vmsbc on one limb are the difference with the borrow, and the form of vmsbc
\* for 64-bit elements, which compares instead, gives the same borrow.
LEMMA SubBorrow ==
  ASSUME NEW a \in Word(W), NEW b \in Word(W), NEW c \in BOOLEAN
  PROVE  /\ Vsbc(W, a, b, c) \in Word(W) /\ Vmsbc(W, a, b, c) \in BOOLEAN
         /\ a - b - Flag(c) = Vsbc(W, a, b, c) - Flag(Vmsbc(W, a, b, c)) * 2^W
         /\ Vmsbc64(a, b, c) = Vmsbc(W, a, b, c)
<1> DEFINE p == 2^W  f == Flag(c)  s == a - b - f  t == Trunc(W, s)
           h == Flag(Vmsbc(W, a, b, c))
<1>1. p \in Nat \ {0} /\ a \in 0 .. p-1 /\ b \in 0 .. p-1 /\ f \in 0 .. 1
  BY Widths DEF Word, TwosComplement, Flag
<1>2. h = IF a < f + b THEN 1 ELSE 0
  BY DEF Vmsbc, Flag
<1> HIDE DEF p, f, h
<1>3. s \in Int /\ s = (-h) * p + (s + h * p) /\ s + h * p \in 0 .. p-1 /\ -h \in Int
  <2>1. CASE a < f + b
    BY <1>1, <1>2, <2>1
  <2>2. CASE ~(a < f + b)
    BY <1>1, <1>2, <2>2
  <2> QED BY <2>1, <2>2
<1>4. t = s + h * p /\ t \in 0 .. p-1
  <2>1. 2^W \in Nat \ {0} /\ s + h * p \in Word(W)
    BY <1>1, <1>3 DEF p, Word
  <2>2. s = (-h) * 2^W + (s + h * p)
    BY <1>3 DEF p
  <2> HIDE DEF s
  <2>3. Trunc(W, s) = s + h * p
    BY <1>3, <2>1, <2>2, TruncIs
  <2> QED BY <1>3, <2>3
<1>5. Vsbc(W, a, b, c) = t
  BY DEF Vsbc, f
<1>6. Vmsbc64(a, b, c) = (a < f + b) /\ Vmsbc(W, a, b, c) = (a < f + b)
  <2>1. CASE c
    <3>1. f = 1 BY <2>1 DEF f, Flag
    <3>2. (a < b \/ a = b) <=> a < 1 + b BY <1>1
    <3> QED BY <2>1, <3>1, <3>2 DEF Vmsbc64, Vmsbc, Flag
  <2>2. CASE ~c
    <3>1. f = 0 BY <2>2 DEF f, Flag
    <3>2. a < b <=> a < 0 + b BY <1>1
    <3> QED BY <2>2, <3>1, <3>2 DEF Vmsbc64, Vmsbc, Flag
  <2> QED BY <2>1, <2>2
<1>7. a - b - f = t - h * p
  <2> HIDE DEF t
  <2>1. h \in Int /\ h * p \in Int
    <3>1. h \in Int BY <1>2
    <3> QED BY <3>1, <1>1
  <2> QED BY <1>1, <1>4, <2>1
<1> QED BY <1>4, <1>5, <1>6, <1>7 DEF p, f, h, Word

\* The carry of the low limb makes the sum of two limbs exact.
LEMMA TwoLimbSum ==
  ASSUME Types
  PROVE  LET c1 == Vmadc(W, vs2, vs1, m)
         IN  Wide(Vadc(W, vd, vs2, c1), Vadc(W, vs2, vs1, m)) + Flag(Vmadc(W, vd, vs2, c1)) * 2^(2*W)
               = Wide(vd, vs2) + Wide(vs2, vs1) + Flag(m)
<1> DEFINE p == 2^W
           c1 == Vmadc(W, vs2, vs1, m)  t == Vadc(W, vs2, vs1, m)  h == Flag(c1)
           u == Vadc(W, vd, vs2, c1)  g == Flag(Vmadc(W, vd, vs2, c1))  f == Flag(m)
<1>1. t \in Word(W) /\ c1 \in BOOLEAN /\ vs2 + vs1 + f = t + h * p
  BY AddCarry DEF Types
<1>2. u \in Word(W) /\ vd + vs2 + h = u + g * p
  <2> HIDE DEF c1
  <2> QED BY <1>1, AddCarry DEF Types
<1>3. p \in Nat /\ 2^(2*W) = p * p
  BY Widths DEF TwosComplement
<1>4. vs2 \in Nat /\ vs1 \in Nat /\ vd \in Nat /\ t \in Nat /\ u \in Nat
  <2> HIDE DEF t, u
  <2> QED BY <1>1, <1>2, WordFacts DEF Types
<1>5. h \in Int /\ g \in Int /\ f \in Int
  BY DEF Flag
<1>6. Wide(u, t) = u * p + t /\ Wide(vd, vs2) = vd * p + vs2 /\ Wide(vs2, vs1) = vs2 * p + vs1
  BY DEF Wide
<1> HIDE DEF p, t, u, h, g, f, c1
<1>7. (vd + vs2 + h) * p = (u + g * p) * p
  BY <1>2
<1>8. (u * p + t) + g * (p * p) = (vd * p + vs2) + (vs2 * p + vs1) + f
  BY <1>1, <1>3, <1>4, <1>5, <1>7
<1>9. Wide(u, t) + g * 2^(2*W) = Wide(vd, vs2) + Wide(vs2, vs1) + f
  BY <1>3, <1>6, <1>8
<1> QED BY <1>9 DEF t, u, h, g, f, c1

\* The borrow of the low limb makes the difference of two limbs exact.
LEMMA TwoLimbDifference ==
  ASSUME Types
  PROVE  LET b1 == Vmsbc(W, vs2, vs1, m)
         IN  Wide(Vsbc(W, vd, vs2, b1), Vsbc(W, vs2, vs1, m)) - Flag(Vmsbc(W, vd, vs2, b1)) * 2^(2*W)
               = Wide(vd, vs2) - Wide(vs2, vs1) - Flag(m)
<1> DEFINE p == 2^W
           c1 == Vmsbc(W, vs2, vs1, m)  t == Vsbc(W, vs2, vs1, m)  h == Flag(c1)
           u == Vsbc(W, vd, vs2, c1)  g == Flag(Vmsbc(W, vd, vs2, c1))  f == Flag(m)
<1>1. t \in Word(W) /\ c1 \in BOOLEAN /\ vs2 - vs1 - f = t - h * p
  BY SubBorrow DEF Types
<1>2. u \in Word(W) /\ vd - vs2 - h = u - g * p
  <2> HIDE DEF c1
  <2> QED BY <1>1, SubBorrow DEF Types
<1>3. p \in Nat /\ 2^(2*W) = p * p
  BY Widths DEF TwosComplement
<1>4. vs2 \in Nat /\ vs1 \in Nat /\ vd \in Nat /\ t \in Nat /\ u \in Nat
  <2> HIDE DEF t, u
  <2> QED BY <1>1, <1>2, WordFacts DEF Types
<1>5. h \in Int /\ g \in Int /\ f \in Int
  BY DEF Flag
<1>6. Wide(u, t) = u * p + t /\ Wide(vd, vs2) = vd * p + vs2 /\ Wide(vs2, vs1) = vs2 * p + vs1
  BY DEF Wide
<1> HIDE DEF p, t, u, h, g, f, c1
<1>7. (vd - vs2 - h) * p = (u - g * p) * p
  BY <1>2
<1>8. (u * p + t) - g * (p * p) = (vd * p + vs2) - (vs2 * p + vs1) - f
  BY <1>1, <1>3, <1>4, <1>5, <1>7
<1>9. Wide(u, t) - g * 2^(2*W) = Wide(vd, vs2) - Wide(vs2, vs1) - f
  BY <1>3, <1>6, <1>8
<1> QED BY <1>9 DEF t, u, h, g, f, c1

\* Sums, differences and products of words fit twice the width.
LEMMA WideRanges ==
  ASSUME NEW a \in Word(W), NEW b \in Word(W)
  PROVE  LET x == Signed(W, a)  y == Signed(W, b)  Small == 0 .. 2^(2*W) - 1
             Range2 == MinS(2*W) .. MaxS(2*W)
         IN  /\ a + b \in Small /\ a * b \in Small
             /\ a - b \in Range2 /\ x + y \in Range2 /\ x - y \in Range2
             /\ x * y \in Range2 /\ x * b \in Range2
<1> DEFINE p == 2^W  q == 2^(W - 1)  x == Signed(W, a)  y == Signed(W, b)
<1>1. /\ q \in Nat \ {0} /\ p = 2 * q /\ p \in Nat \ {0} /\ 2^(2*W) = p * p
      /\ MinS(2*W) = -(q * p) /\ MaxS(2*W) = q * p - 1
  BY Widths DEF TwosComplement, MinS, MaxS
<1>2. a \in 0 .. p-1 /\ b \in 0 .. p-1 /\ x \in -q .. q-1 /\ y \in -q .. q-1
  BY Widths, SignedWord DEF Word, MinS, MaxS
<1> HIDE DEF p, q, x, y
<1>3. q * p = 2 * (q * q) /\ p * p = 4 * (q * q) /\ q * q >= q /\ q * q \in Nat
  BY <1>1
<1>4. a + b \in 0 .. p * p - 1 /\ a - b \in -(q * p) .. q * p - 1
  BY <1>1, <1>2, <1>3
<1>5. x + y \in -(q * p) .. q * p - 1 /\ x - y \in -(q * p) .. q * p - 1
  BY <1>1, <1>2, <1>3
<1>6. a * b \in 0 .. p * p - 1
  <2>1. a * b >= 0 /\ a * b <= (p - 1) * b /\ (p - 1) * b <= (p - 1) * (p - 1) /\ a * b \in Int
    BY <1>1, <1>2
  <2>2. (p - 1) * (p - 1) = p * p - 2 * p + 1
    BY <1>1
  <2>3. a * b <= p * p - 2 * p + 1 /\ a * b \in Int /\ a * b >= 0 /\ p * p \in Int
    BY <1>1, <1>2, <2>1, <2>2
  <2> DEFINE z == a * b  r == p * p
  <2>4. z \in Int /\ z >= 0 /\ r \in Int /\ z <= r - 2 * p + 1
    BY <2>3
  <2> HIDE DEF z, r
  <2>5. z \in 0 .. r - 1
    BY <1>1, <2>4
  <2> QED BY <2>5 DEF z, r
<1>7. x * b \in -(q * p) .. q * p - 1
  <2>1. x * b <= (q - 1) * b /\ (q - 1) * b <= (q - 1) * p /\ (q - 1) * p = q * p - p /\ x * b \in Int
    BY <1>1, <1>2
  <2>2. x * b >= (-q) * b /\ (-q) * b >= (-q) * p /\ (-q) * p = -(q * p)
    BY <1>1, <1>2
  <2> QED BY <1>1, <1>2, <2>1, <2>2
<1>8. x * y \in -(q * p) .. q * p - 1
  <2>1. x * y \in Int /\ x * y <= q * q /\ x * y >= -(q * q)
    <3>1. CASE y >= 0
      <4>1. x * y <= q * y /\ q * y <= q * q
        BY <1>1, <1>2, <3>1
      <4>2. x * y >= (-q) * y /\ (-q) * y >= (-q) * q /\ (-q) * q = -(q * q) /\ x * y \in Int
        BY <1>1, <1>2, <3>1
      <4> QED BY <1>1, <1>2, <4>1, <4>2
    <3>2. CASE y < 0
      <4>1. x * y <= (-q) * y /\ (-q) * y <= (-q) * (-q) /\ (-q) * (-q) = q * q
        BY <1>1, <1>2, <3>2
      <4>2. x * y >= q * y /\ q * y >= q * (-q) /\ q * (-q) = -(q * q) /\ x * y \in Int
        BY <1>1, <1>2, <3>2
      <4> QED BY <1>1, <1>2, <4>1, <4>2
    <3> QED BY <1>2, <3>1, <3>2
  <2> DEFINE z == x * y  k == q * q  r == q * p
  <2>2. z \in Int /\ z <= k /\ z >= -k /\ k \in Nat /\ k >= q /\ r = 2 * k
    BY <1>3, <2>1
  <2> HIDE DEF z, k, r
  <2>3. z \in -r .. r - 1
    BY <1>1, <2>2
  <2> QED BY <2>3 DEF z, r
<1> QED BY <1>1, <1>4, <1>5, <1>6, <1>7, <1>8 DEF x, y

\* Truncation to one and to two limbs: the parts of a number put together again.
LEMMA TwoWidths ==
  ASSUME NEW z \in Int
  PROVE  /\ Trunc(W, z) \in Word(W) /\ Trunc(2*W, z) \in Word(2*W)
         /\ Trunc(W, z) \in Int /\ Trunc(2*W, z) \in Int /\ Shr(z, W) \in Int
         /\ Trunc(W, Trunc(2*W, z)) = Trunc(W, z)
         /\ Wide(Trunc(W, Shr(z, W)), Trunc(W, z)) = Trunc(2*W, z)
         /\ z \in Word(2*W) => Trunc(2*W, z) = z /\ Shr(z, W) \in Word(W)
<1> DEFINE p == 2^W  P2 == 2^(2*W)  T == Trunc(2*W, z)  K == Shr(z, 2*W)
           t == Trunc(W, z)  k == Shr(z, W)  u == Trunc(W, k)  j == Shr(k, W)
<1>1. p \in Nat \ {0} /\ P2 \in Nat \ {0} /\ P2 = p * p
  BY Widths DEF TwosComplement
<1>2. T \in Word(2*W) /\ T \in 0 .. P2 - 1 /\ K \in Int /\ z = K * P2 + T
  BY <1>1, TruncWord DEF Word
<1>3. t \in Word(W) /\ t \in 0 .. p-1 /\ k \in Int /\ z = k * p + t
  BY <1>1, TruncWord DEF Word
<1>4. u \in Word(W) /\ u \in 0 .. p-1 /\ j \in Int /\ k = j * p + u
  <2> HIDE DEF k
  <2> QED BY <1>1, <1>3, TruncWord DEF Word
<1> HIDE DEF p, P2, T, K, t, k, u, j
<1>5. Trunc(W, T) = t
  <2>1. K * p \in Int /\ z = T + (K * p) * p /\ T \in Int
    BY <1>1, <1>2
  <2>2. Trunc(W, T + (K * p) * p) = Trunc(W, T)
    BY <1>1, <2>1, TruncShift DEF p
  <2> QED BY <2>1, <2>2 DEF t
<1>6. Wide(u, t) = T
  <2>1. z = j * (p * p) + (u * p + t) /\ u * p + t \in Int
    <3>1. z = (j * p + u) * p + t
      BY <1>3, <1>4
    <3> QED BY <1>1, <1>3, <1>4, <3>1
  <2>2. Wide(u, t) \in Word(2*W)
    BY <1>3, <1>4, WideWord
  <2>3. Wide(u, t) = u * p + t
    BY DEF Wide, p
  <2>4. z = j * 2^(2*W) + Wide(u, t)
    BY <1>1, <2>1, <2>3 DEF P2
  <2>5. 2^(2*W) \in Nat \ {0}
    BY <1>1 DEF P2
  <2> QED BY <1>4, <2>2, <2>4, <2>5, TruncIs DEF T
<1>7. ASSUME z \in Word(2*W) PROVE T = z /\ k \in Word(W)
  <2>1. z = 0 * 2^(2*W) + z
    BY <1>1 DEF P2
  <2>2. 2^(2*W) \in Nat \ {0} /\ 0 \in Int
    BY <1>1 DEF P2
  <2>3. T = z
    BY <1>7, <2>1, <2>2, TruncIs DEF T
  <2>4. z \in 0 .. p * p - 1
    BY <1>1, <1>7 DEF P2, Word
  <2>5. k >= 0
    <3> SUFFICES ASSUME k <= -1 PROVE FALSE
      BY <1>3
    <3>1. k * p <= (-1) * p
      BY <1>1, <1>3
    <3> QED BY <1>1, <1>3, <3>1, <2>4
  <2>6. k < p
    <3> SUFFICES ASSUME k >= p PROVE FALSE
      BY <1>1, <1>3
    <3>1. k * p >= p * p
      BY <1>1, <1>3
    <3> QED BY <1>1, <1>3, <3>1, <2>4
  <2> QED BY <1>1, <1>3, <2>3, <2>5, <2>6 DEF Word, p
<1>8. t \in Int /\ T \in Int
  BY <1>2, <1>3
<1> QED BY <1>2, <1>3, <1>5, <1>6, <1>7, <1>8 DEF T, t, k, u

\* Widening sums and differences are exact, and the ...w forms undo each other.
LEMMA Widening ==
  ASSUME NEW a \in Word(W), NEW b \in Word(W), NEW z \in Word(2*W)
  PROVE  /\ Vwaddu(W, a, b) = a + b
         /\ Signed(2*W, Vwsubu(W, a, b)) = a - b
         /\ Signed(2*W, Vwadd(W, a, b)) = Signed(W, a) + Signed(W, b)
         /\ Signed(2*W, Vwsub(W, a, b)) = Signed(W, a) - Signed(W, b)
         /\ Vwsubuw(W, Vwadduw(W, z, b), b) = z
         /\ Vwsubw(W, Vwaddw(W, z, b), b) = z
         /\ Vwaddw(W, Sext(W, 2*W, a), b) = Vwadd(W, a, b)
<1> DEFINE x == Signed(W, a)  y == Signed(W, b)  X == Sext(W, 2*W, a)  Y == Sext(W, 2*W, b)
<1>1. TwosComplement(W) /\ TwosComplement(2*W) /\ 2^(2*W) \in Nat \ {0}
  BY Widths DEF TwosComplement
<1>2. a \in Int /\ b \in Int /\ x \in Int /\ y \in Int /\ z \in Int
  BY <1>1, WordFacts DEF Word
<1>3. a + b \in Word(2*W) /\ a - b \in MinS(2*W) .. MaxS(2*W)
      /\ x + y \in MinS(2*W) .. MaxS(2*W) /\ x - y \in MinS(2*W) .. MaxS(2*W)
  BY WideRanges DEF Word
<1>4. X = Trunc(2*W, x) /\ Y = Trunc(2*W, y)
  BY DEF Sext
<1> HIDE DEF x, y, X, Y
<1>5. X \in Int /\ Y \in Int /\ a + b \in Int
  BY <1>2, <1>4, TwoWidths
<1>6. Trunc(2*W, X + Y) = Trunc(2*W, x + y) /\ Trunc(2*W, X - Y) = Trunc(2*W, x - y)
  <2>1. Trunc(2*W, X + Y) = Trunc(2*W, x + Y)
    BY <1>1, <1>2, <1>4, <1>5, TruncInner
  <2>2. x + Y = Y + x /\ y + x = x + y
    BY <1>2, <1>5
  <2>3. Trunc(2*W, Y + x) = Trunc(2*W, y + x)
    BY <1>1, <1>2, <1>4, <1>5, TruncInner
  <2>4. Trunc(2*W, X - Y) = Trunc(2*W, X - y)
    BY <1>1, <1>2, <1>4, <1>5, TruncInner
  <2>5. X - y = X + (-y) /\ x - y = x + (-y) /\ -y \in Int
    BY <1>2, <1>5
  <2>6. Trunc(2*W, X + (-y)) = Trunc(2*W, x + (-y))
    BY <1>1, <1>2, <1>4, <2>5, TruncInner
  <2> QED BY <2>1, <2>2, <2>3, <2>4, <2>5, <2>6
<1>7. Vwaddu(W, a, b) = a + b
  BY <1>3, <1>5, TwoWidths DEF Vwaddu
<1>8. Signed(2*W, Trunc(2*W, a - b)) = a - b
  BY <1>1, <1>3, SignedTrunc
<1>9. Signed(2*W, Trunc(2*W, x + y)) = x + y
  BY <1>1, <1>3, SignedTrunc
<1>10. Signed(2*W, Trunc(2*W, x - y)) = x - y
  BY <1>1, <1>3, SignedTrunc
<1>11. ASSUME NEW n \in Int PROVE Trunc(2*W, Trunc(2*W, z + n) - n) = z
  <2>1. z + n \in Int /\ (z + n) + (-n) = z /\ -n \in Int
    BY <1>2
  <2>2. Trunc(2*W, Trunc(2*W, z + n) + (-n)) = Trunc(2*W, (z + n) + (-n))
    BY <1>1, <2>1, TruncInner
  <2>3. Trunc(2*W, z) = z
    BY <1>2, TwoWidths
  <2>4. Trunc(2*W, z + n) \in Int
    BY <2>1, TwoWidths
  <2>5. Trunc(2*W, z + n) - n = Trunc(2*W, z + n) + (-n)
    BY <2>4
  <2> QED BY <2>1, <2>2, <2>3, <2>5
<1>12. Vwsubuw(W, Vwadduw(W, z, b), b) = z
  BY <1>2, <1>11 DEF Vwsubuw, Vwadduw
<1>13. Vwsubw(W, Vwaddw(W, z, b), b) = z
  BY <1>5, <1>11 DEF Vwsubw, Vwaddw, Y
<1> QED BY <1>6, <1>7, <1>8, <1>9, <1>10, <1>12, <1>13
     DEF Vwsubu, Vwadd, Vwsub, Vwaddw, X, Y, x, y

-----------------------------------------------------------------------------
(* Counters of two halves                                                  *)

\* the states of a counter with its two 32-bit CSRs
Counters == [count : Word(2*W), low : Word(W), high : Word(2*W)]
\* the number that the two CSRs show
Shown(c) == Trunc(2*W, c.count + (c.high * 2^W + c.low))

\* A word is a number that the cast to its width leaves alone.
LEMMA WordsAreNumbers ==
  ASSUME NEW a
  PROVE  /\ a \in Word(W) => a \in Nat /\ a \in Int /\ Trunc(W, a) = a
         /\ a \in Word(2*W) => a \in Nat /\ a \in Int /\ Trunc(2*W, a) = a
<1>1. TwosComplement(W) /\ TwosComplement(2*W) /\ 2^W \in Nat \ {0} /\ 2^(2*W) \in Nat \ {0}
  BY Widths DEF TwosComplement
<1>2. a \in Word(W) => a \in Nat /\ a \in Int
  BY <1>1 DEF Word
<1>3. a \in Word(2*W) => a \in Nat /\ a \in Int
  BY <1>1 DEF Word
<1> QED BY <1>1, <1>2, <1>3, SignedWord

\* Casting a term before a sum or a difference changes nothing, for one limb and for two.
LEMMA TruncSums ==
  ASSUME NEW a \in Int, NEW b \in Int
  PROVE  /\ Trunc(W, Trunc(W, a) + b) = Trunc(W, a + b) /\ Trunc(W, b + Trunc(W, a)) = Trunc(W, b + a)
         /\ Trunc(W, b - Trunc(W, a)) = Trunc(W, b - a) /\ Trunc(W, Trunc(W, a) - b) = Trunc(W, a - b)
         /\ Trunc(2*W, Trunc(2*W, a) + b) = Trunc(2*W, a + b)
         /\ Trunc(2*W, b + Trunc(2*W, a)) = Trunc(2*W, b + a)
         /\ Trunc(2*W, b - Trunc(2*W, a)) = Trunc(2*W, b - a)
         /\ Trunc(2*W, Trunc(2*W, a) - b) = Trunc(2*W, a - b)
         /\ Trunc(W, Trunc(W, a)) = Trunc(W, a) /\ Trunc(2*W, Trunc(2*W, a)) = Trunc(2*W, a)
         /\ Trunc(2*W, a + b * 2^(2*W)) = Trunc(2*W, a)
         /\ Trunc(W, a + b * 2^W) = Trunc(W, a)
<1> DEFINE t == Trunc(W, a)  T == Trunc(2*W, a)
<1>1. 2^W \in Nat \ {0} /\ 2^(2*W) \in Nat \ {0}
  BY Widths DEF TwosComplement
<1>2. t \in Int /\ T \in Int /\ t \in Word(W) /\ T \in Word(2*W)
  BY TwoWidths
<1>3. /\ Trunc(W, t + b) = Trunc(W, a + b) /\ Trunc(W, b - t) = Trunc(W, b - a)
      /\ Trunc(2*W, T + b) = Trunc(2*W, a + b) /\ Trunc(2*W, b - T) = Trunc(2*W, b - a)
  BY <1>1, TruncInner
<1>4. Trunc(W, t + (-b)) = Trunc(W, a + (-b)) /\ Trunc(2*W, T + (-b)) = Trunc(2*W, a + (-b))
  <2>1. -b \in Int OBVIOUS
  <2> QED BY <1>1, <2>1, TruncInner
<1>5. Trunc(W, t) = t /\ Trunc(2*W, T) = T
  BY <1>2, WordsAreNumbers
<1>6. Trunc(2*W, a + b * 2^(2*W)) = Trunc(2*W, a) /\ Trunc(W, a + b * 2^W) = Trunc(W, a)
  BY <1>1, TruncShift
<1> HIDE DEF t, T
<1>7. /\ t + b = b + t /\ T + b = b + T /\ a + b = b + a
      /\ t + (-b) = t - b /\ T + (-b) = T - b /\ a + (-b) = a - b
  BY <1>2
<1> QED BY <1>3, <1>4, <1>5, <1>6, <1>7 DEF t, T

\* What the getters of the two halves of a counter return are the halves of Shown.
LEMMA CounterReads ==
  ASSUME NEW c \in Counters
  PROVE  /\ HighGet(W, c) = Shr(Shown(c), W) /\ CounterGet(W, c) = Trunc(W, Shown(c))
         /\ HighGet(W, c) \in Word(W) /\ CounterGet(W, c) \in Word(W)
         /\ CounterGet(W, c) = Trunc(W, c.count + c.low)
         /\ Pair(c) = Shown(c) /\ Shown(c) \in Word(2*W)
<1> DEFINE p == 2^W  n == c.count  l == c.low  h == c.high
           r == Trunc(W, h)  k == Shr(h, W)  V == Shown(c)
<1>1. p \in Nat \ {0} /\ 2^(2*W) = p * p
  BY Widths DEF TwosComplement
<1>2. n \in Word(2*W) /\ l \in Word(W) /\ h \in Word(2*W)
  BY DEF Counters
<1>3. n \in Nat /\ l \in Nat /\ h \in Nat /\ n \in Int /\ l \in Int /\ h \in Int
  BY <1>2, WordsAreNumbers
<1>4. r \in Word(W) /\ r \in Nat /\ k \in Int /\ h = k * p + r
  <2>1. r \in Word(W) /\ k \in Int /\ h = k * p + r
    BY <1>1, <1>3, TruncWord
  <2> QED BY <2>1, WordsAreNumbers
<1>5. V = Trunc(2*W, n + (h * p + l))
  BY DEF Shown
<1> HIDE DEF p, n, l, h, r, k, V
<1>6. /\ h * p \in Int /\ r * p \in Int /\ r * p \in Nat /\ n + (h * p + l) \in Int /\ n + l \in Int
      /\ h * p = r * p + k * 2^(2*W)
      /\ n + (h * p + l) = (n + (r * p + l)) + k * 2^(2*W)
      /\ n + (h * p + l) = (n + l) + h * 2^W
      /\ n + (r * p + l) \in Int
  BY <1>1, <1>3, <1>4 DEF p
<1>7. Trunc(2*W, h * p) = r * p
  <2>1. r * p \in Word(2*W)
    <3>1. Wide(r, 0) = r * p
      BY <1>6 DEF Wide, p
    <3>2. 0 \in Word(W)
      BY <1>4, WordFacts
    <3> QED BY <1>4, <3>1, <3>2, WideWord
  <2>2. Trunc(2*W, r * p + k * 2^(2*W)) = Trunc(2*W, r * p)
    BY <1>4, <1>6, TruncSums
  <2>3. Trunc(2*W, r * p) = r * p
    BY <2>1, WordsAreNumbers
  <2> QED BY <1>6, <2>2, <2>3
<1>8. (r * p) | l = r * p + l
  <2>1. ((r * 2^W) & l) = 0
    <3>1. l \in 0 .. 2^W - 1 /\ W \in Nat /\ Powers(W)
      BY <1>2, Widths DEF Word
    <3> QED BY <1>4, <3>1, NoCommonBits
  <2>2. (r * p) | l = r * p + l - ((r * p) & l)
    BY DEF |
  <2>3. (r * p) & l = 0
    BY <2>1 DEF p
  <2> QED BY <1>3, <1>6, <2>2, <2>3
<1>9. V = Trunc(2*W, n + (r * p + l)) /\ V \in Word(2*W)
  <2>1. Trunc(2*W, (n + (r * p + l)) + k * 2^(2*W)) = Trunc(2*W, n + (r * p + l))
    BY <1>4, <1>6, TruncSums
  <2> QED BY <1>5, <1>6, <2>1, TwoWidths
<1>10. HighGet(W, c) = Shr(V, W)
  <2>1. HighGet(W, c) = Shr(Trunc(2*W, n + (Trunc(2*W, h * p) | l)), W)
    BY DEF HighGet, n, h, l, p
  <2> QED BY <1>7, <1>8, <1>9, <2>1
<1>11. CounterGet(W, c) = Trunc(W, n + l) /\ Trunc(W, n + l) = Trunc(W, V)
  <2>1. CounterGet(W, c) = Trunc(W, Trunc(W, n) + l)
    BY DEF CounterGet, n, l
  <2>2. Trunc(W, (n + l) + h * 2^W) = Trunc(W, n + l)
    BY <1>3, <1>6, TruncSums
  <2>3. Trunc(W, Trunc(2*W, n + (h * p + l))) = Trunc(W, n + (h * p + l))
    BY <1>6, TwoWidths
  <2>4. Trunc(W, Trunc(W, n) + l) = Trunc(W, n + l)
    BY <1>3, TruncSums
  <2> QED BY <1>5, <1>6, <2>1, <2>2, <2>3, <2>4
<1>12. V \in Int /\ Trunc(2*W, V) = V /\ Shr(V, W) \in Word(W) /\ Trunc(W, V) \in Word(W)
  BY <1>9, WordsAreNumbers, TwoWidths
<1>13. Pair(c) = V
  <2>1. Trunc(W, Shr(V, W)) = Shr(V, W)
    BY <1>12, WordsAreNumbers
  <2>2. Wide(Trunc(W, Shr(V, W)), Trunc(W, V)) = Trunc(2*W, V)
    BY <1>12, TwoWidths
  <2> QED BY <1>10, <1>11, <1>12, <2>1, <2>2 DEF Pair
<1> QED BY <1>9, <1>10, <1>11, <1>12, <1>13 DEF V, n, l

\* n ticks of the counted cycles add n to what the CSRs show, carries included.
LEMMA CounterTicks ==
  ASSUME NEW c \in Counters, NEW n \in Nat
  PROVE  Ticks(c, n) \in Counters /\ Shown(Ticks(c, n)) = Trunc(2*W, Shown(c) + n)
<1> DEFINE a == c.count  o == c.high * 2^W + c.low  d == Ticks(c, n)
<1>1. c.count \in Int /\ c.high \in Int /\ c.low \in Int /\ 2^W \in Nat
  BY WordsAreNumbers, Widths DEF Counters, TwosComplement
<1>2. a \in Int /\ o \in Int
  BY <1>1
<1>3. d = [c EXCEPT !.count = Trunc(2*W, a + n)]
  BY DEF Ticks
<1>4. Trunc(2*W, a + n) \in Word(2*W)
  <2> HIDE DEF a
  <2> QED BY <1>2, TwoWidths
<1>5. d.count = Trunc(2*W, a + n) /\ d.high = c.high /\ d.low = c.low /\ d \in Counters
  <2> HIDE DEF a, d
  <2> QED BY <1>3, <1>4 DEF Counters
<1>6. Shown(d) = Trunc(2*W, Trunc(2*W, a + n) + o) /\ Shown(c) = Trunc(2*W, a + o)
  <2> HIDE DEF d
  <2> QED BY <1>5 DEF Shown
<1> HIDE DEF a, o, d
<1>7. (a + n) + o = (a + o) + n /\ a + n \in Int /\ a + o \in Int
  BY <1>2
<1>8. Shown(d) = Trunc(2*W, (a + n) + o)
  BY <1>2, <1>6, <1>7, TruncSums
<1>9. Trunc(2*W, Shown(c) + n) = Trunc(2*W, (a + o) + n)
  <2>1. n \in Int OBVIOUS
  <2> QED BY <1>6, <1>7, <2>1, TruncSums
<1> QED BY <1>5, <1>7, <1>8, <1>9 DEF d

\* A write of the high half shows the value written above the unchanged low half.
LEMMA HighSetShows ==
  ASSUME NEW c \in Counters, NEW hi \in Word(W)
  PROVE  /\ HighSet(W, c, hi) \in Counters /\ HighSet(W, c, hi).low = c.low
         /\ Shown(HighSet(W, c, hi)) = Wide(hi, CounterGet(W, c))
         /\ HighGet(W, HighSet(W, c, hi)) = hi
         /\ CounterGet(W, HighSet(W, c, hi)) = CounterGet(W, c)
<1> DEFINE p == 2^W  n == c.count  l == c.low  t == Trunc(W, n)  s == Shr(n, W)  g == CounterGet(W, c)
           f == Flag(Carry(W, c))  e == hi - s - f  d == HighSet(W, c, hi)
<1>1. p \in Nat \ {0} /\ 2^(2*W) = p * p /\ 2^(2*W) \in Nat \ {0}
  BY Widths DEF TwosComplement
<1>2. n \in Word(2*W) /\ l \in Word(W) /\ n \in Int /\ l \in 0 .. p-1 /\ hi \in 0 .. p-1
  BY WordsAreNumbers DEF Counters, Word
<1>3. t \in 0 .. p-1 /\ s \in Int /\ n = s * p + t
  <2> HIDE DEF n
  <2> QED BY <1>1, <1>2, TruncWord DEF Word
<1>4. f = IF t + l >= p THEN 1 ELSE 0
  BY DEF Flag, Carry
<1>5. g = Trunc(W, t + l)
  BY DEF CounterGet
<1>6. d = [c EXCEPT !.high = Trunc(2*W, Trunc(W, hi) - s - f)] /\ Trunc(W, hi) = hi
  BY WordsAreNumbers DEF HighSet
<1> HIDE DEF p, n, l, t, s, g, f
<1>7. t + l = f * p + (t + l - f * p) /\ t + l - f * p \in 0 .. p-1 /\ f \in Int /\ t + l \in Int
  <2>1. CASE t + l >= p
    BY <1>1, <1>2, <1>3, <1>4, <2>1
  <2>2. CASE ~(t + l >= p)
    BY <1>1, <1>2, <1>3, <1>4, <2>2
  <2> QED BY <2>1, <2>2
<1>8. t + l = f * p + g /\ g \in 0 .. p-1
  <2>1. 2^W \in Nat \ {0} /\ t + l - f * p \in Word(W)
    BY <1>1, <1>7 DEF p, Word
  <2>2. t + l = f * 2^W + (t + l - f * p)
    BY <1>7 DEF p
  <2>3. Trunc(W, t + l) = t + l - f * p
    BY <1>7, <2>1, <2>2, TruncIs
  <2> QED BY <1>5, <1>7, <2>3
<1>9. e \in Int
  BY <1>2, <1>3, <1>7
<1>10. d = [c EXCEPT !.high = Trunc(2*W, e)]
  BY <1>6
<1> HIDE DEF e
<1>11. Trunc(2*W, e) \in Word(2*W)
  BY <1>9, TwoWidths
<1>12. d.count = n /\ d.high = Trunc(2*W, e) /\ d.low = l /\ d \in Counters
  <2> HIDE DEF d
  <2> QED BY <1>10, <1>11 DEF Counters, n, l
<1>13. Shown(d) = Trunc(2*W, n + (Trunc(2*W, e) * p + l))
  <2> HIDE DEF d
  <2> QED BY <1>12 DEF Shown, p
<1> HIDE DEF d
<1> DEFINE E == Trunc(2*W, e)  j == Shr(e, 2*W)  z == hi * p + g
<1>14. E \in Int /\ j \in Int /\ e = j * 2^(2*W) + E
  <2>1. E \in Word(2*W) /\ j \in Int /\ e = j * 2^(2*W) + E
    BY <1>1, <1>9, TruncWord
  <2> QED BY <2>1, WordsAreNumbers
<1> HIDE DEF E, j
<1>15. n + (E * p + l) = z + (-(j * p)) * 2^(2*W) /\ z \in Int /\ -(j * p) \in Int
  <2>1. E = e - j * (p * p)
    BY <1>1, <1>14, <1>9
  <2>2. E * p = (hi - s - f - j * (p * p)) * p
    BY <2>1 DEF e
  <2>3. (hi - s - f - j * (p * p)) * p = hi * p - s * p - f * p - (j * p) * (p * p)
    BY <1>1, <1>2, <1>3, <1>7, <1>14
  <2> DEFINE Ep == E * p  hp == hi * p  sp1 == s * p  fp == f * p  jp == (j * p) * (p * p)
  <2>4. Ep = hp - sp1 - fp - jp
    BY <2>2, <2>3
  <2>5. hp \in Int /\ sp1 \in Int /\ fp \in Int /\ jp \in Int /\ j * p \in Int
    BY <1>1, <1>2, <1>3, <1>7, <1>14
  <2>6. n = sp1 + t /\ t + l = fp + g
    BY <1>3, <1>8
  <2>7. -(j * p) \in Int /\ (-(j * p)) * 2^(2*W) = -jp
    BY <1>1, <1>14
  <2> HIDE DEF Ep, hp, sp1, fp, jp
  <2>8. n + (Ep + l) = (hp + g) + (-jp) /\ hp + g \in Int
    BY <1>2, <1>3, <1>8, <2>4, <2>5, <2>6
  <2> QED BY <2>7, <2>8 DEF Ep, hp
<1>16. Shown(d) = Trunc(2*W, z)
  <2> HIDE DEF z
  <2>1. Trunc(2*W, z + (-(j * p)) * 2^(2*W)) = Trunc(2*W, z)
    BY <1>15, TruncSums
  <2> QED BY <1>13, <1>15, <2>1 DEF E
<1>17. z = Wide(hi, g) /\ g \in Word(W)
  BY <1>8 DEF Wide, p, Word
<1>18. Wide(hi, g) \in Word(2*W)
  BY <1>17, WideWord
<1>19. Shown(d) = Wide(hi, g)
  BY <1>16, <1>17, <1>18, WordsAreNumbers
<1>20. HighGet(W, d) = hi /\ CounterGet(W, d) = g
  <2>1. HighGet(W, d) = Shr(Wide(hi, g), W) /\ CounterGet(W, d) = Trunc(W, Wide(hi, g))
    BY <1>12, <1>19, CounterReads
  <2>2. Wide(hi, g) = hi * 2^W + g /\ 2^W \in Nat \ {0} /\ Wide(hi, g) \in Int /\ hi \in Int
    BY <1>1, <1>2, <1>18, WordsAreNumbers DEF Wide, p
  <2> QED BY <1>17, <2>1, <2>2, TruncIs
<1> QED BY <1>12, <1>19, <1>20 DEF d, g, l

\* A write of mcycleh or minstreth is what is read after the writing instruction's tick.
LEMMA PerformanceHighSetShows ==
  ASSUME NEW c \in Counters, NEW hi \in Word(W)
  PROVE  Pair(SimpleCounterTick(W, PerformanceHighSet(W, c, hi))) = Wide(hi, CounterGet(W, c))
<1> DEFINE p == 2^W  s == HighSet(W, c, hi)  d == PerformanceHighSet(W, c, hi)
           n == s.count  l == s.low  h == s.high
           h1 == IF l = 0 THEN Trunc(2*W, h - 1) ELSE h
           l1 == Trunc(W, l - 1)
<1>1. p \in Nat \ {0} /\ 2^(2*W) = p * p /\ p - 1 \in Word(W)
  BY Widths, WordFacts DEF TwosComplement, Word
<1>2. s \in Counters /\ l = c.low /\ Shown(s) = Wide(hi, CounterGet(W, c))
  BY HighSetShows
<1>3. d = [s EXCEPT !.high = h1, !.low = l1]
  BY <1>2 DEF PerformanceHighSet
<1> HIDE DEF s
<1>4. n \in Word(2*W) /\ l \in Word(W) /\ h \in Word(2*W)
  BY <1>2 DEF Counters
<1>5. n \in Int /\ h \in Int /\ l \in 0 .. p - 1 /\ l \in Int
  BY <1>4, WordsAreNumbers DEF Word
<1>6. Shown(s) = Trunc(2*W, n + (h * p + l))
  BY DEF Shown
<1> HIDE DEF n, l, h, p
<1>7. h1 \in Word(2*W) /\ l1 \in Word(W)
  <2>1. h - 1 \in Int /\ l - 1 \in Int
    BY <1>5
  <2> QED BY <1>4, <2>1, TwoWidths
<1>8. h1 \in Int /\ l1 \in Int
  BY <1>7, WordsAreNumbers
<1> HIDE DEF h1, l1
<1>9. d \in Counters /\ d.count = n /\ d.high = h1 /\ d.low = l1
  <2> HIDE DEF d
  <2> QED BY <1>2, <1>3, <1>7 DEF Counters, n
<1> HIDE DEF d
<1>10. Shown(d) = Trunc(2*W, n + (h1 * p + l1))
  BY <1>9 DEF Shown, p
<1>11. \E k \in Int : h1 * p + l1 = ((h * p + l) - 1) + k * 2^(2*W)
  <2>1. CASE l = 0
    <3>1. l1 = p - 1
      <4>1. l - 1 = (-1) * 2^W + (p - 1) /\ -1 \in Int /\ l - 1 \in Int /\ 2^W \in Nat \ {0}
        BY <1>1, <2>1 DEF p
      <4> QED BY <1>1, <4>1, TruncIs DEF l1
    <3> DEFINE j == Shr(h - 1, 2*W)
    <3>2. j \in Int /\ h - 1 = j * 2^(2*W) + h1
      <4>1. h - 1 \in Int /\ 2^(2*W) \in Nat \ {0}
        BY <1>1, <1>5, Widths DEF TwosComplement
      <4>2. h1 = Trunc(2*W, h - 1)
        BY <2>1 DEF h1
      <4> QED BY <4>1, <4>2, TruncWord
    <3> HIDE DEF j
    <3>3. h1 = h - 1 - j * (p * p)
      BY <1>1, <1>5, <1>8, <3>2
    <3>4. h1 * p = h * p - p - (j * p) * (p * p)
      BY <1>1, <1>5, <3>2, <3>3
    <3>5. -(j * p) \in Int /\ (-(j * p)) * (p * p) = -((j * p) * (p * p)) /\ (j * p) * (p * p) \in Int /\ h * p \in Int
      BY <1>1, <1>5, <3>2
    <3> DEFINE x == h1 * p  y == h * p  z == (j * p) * (p * p)
    <3>6. x = y - p - z /\ y \in Int /\ z \in Int
      BY <3>4, <3>5
    <3> HIDE DEF x, y, z
    <3>7. x + l1 = ((y + l) - 1) + (-z)
      BY <1>1, <2>1, <3>1, <3>6
    <3>8. h1 * p + l1 = ((h * p + l) - 1) + (-(j * p)) * 2^(2*W)
      BY <1>1, <3>5, <3>7 DEF x, y, z
    <3> QED BY <3>5, <3>8
  <2>2. CASE l # 0
    <3>1. l - 1 \in Word(W)
      BY <1>1, <1>5, <2>2 DEF Word, p
    <3>2. l1 = l - 1
      BY <3>1, WordsAreNumbers DEF l1
    <3>3. h1 = h
      BY <2>2 DEF h1
    <3>4. h * p + (l - 1) = ((h * p + l) - 1) + 0 * 2^(2*W) /\ 0 \in Int
      BY <1>1, <1>5
    <3> QED BY <3>2, <3>3, <3>4
  <2> QED BY <2>1, <2>2
<1>12. Shown(d) = Trunc(2*W, Shown(s) - 1)
  <2> DEFINE y == h * p + l  x == h1 * p + l1
  <2>1. y \in Int /\ n + y \in Int /\ x \in Int
    BY <1>1, <1>5, <1>8
  <2>2. PICK k \in Int : x = (y - 1) + k * 2^(2*W)
    BY <1>11
  <2> HIDE DEF y, x
  <2>3. n + x = ((n + y) - 1) + k * 2^(2*W) /\ (n + y) - 1 \in Int
    BY <1>1, <1>5, <2>1, <2>2
  <2>4. Trunc(2*W, ((n + y) - 1) + k * 2^(2*W)) = Trunc(2*W, (n + y) - 1)
    BY <2>2, <2>3, TruncSums
  <2>5. Trunc(2*W, Trunc(2*W, n + y) - 1) = Trunc(2*W, (n + y) - 1)
    BY <2>1, TruncSums
  <2> QED BY <1>6, <1>10, <2>3, <2>4, <2>5 DEF x, y
<1>13. SimpleCounterTick(W, d) = Ticks(d, 1)
  BY DEF SimpleCounterTick, Ticks
<1>14. Shown(s) \in Word(2*W) /\ Shown(s) \in Int
  BY <1>2, CounterReads, WordsAreNumbers
<1>15. Pair(Ticks(d, 1)) = Trunc(2*W, Shown(d) + 1)
  BY <1>9, CounterTicks, CounterReads
<1>16. Trunc(2*W, Trunc(2*W, Shown(s) - 1) + 1) = Shown(s)
  <2>1. Shown(s) - 1 \in Int /\ (Shown(s) - 1) + 1 = Shown(s)
    BY <1>14
  <2>2. Trunc(2*W, Trunc(2*W, Shown(s) - 1) + 1) = Trunc(2*W, (Shown(s) - 1) + 1)
    BY <2>1, TruncSums
  <2> QED BY <1>14, <2>1, <2>2, WordsAreNumbers
<1> QED BY <1>2, <1>12, <1>13, <1>15, <1>16 DEF d

\* A write of the low half is what the low half then reads.
LEMMA CounterSetReads ==
  ASSUME NEW c \in Counters, NEW v \in Nat
  PROVE  /\ CounterSet(W, c, v) \in Counters
         /\ CounterGet(W, CounterSet(W, c, v)) = Trunc(W, v)
<1> DEFINE n == c.count  x == Trunc(W, Trunc(W, v) - Trunc(W, n))  d == CounterSet(W, c, v)
<1>1. n \in Int /\ n \in Word(2*W) /\ v \in Int
  BY WordsAreNumbers DEF Counters
<1>2. d = [c EXCEPT !.low = x]
  BY DEF CounterSet
<1> HIDE DEF n
<1>3. Trunc(W, v) \in Int /\ Trunc(W, n) \in Int
  BY <1>1, TwoWidths
<1> DEFINE a == Trunc(W, v)  b == Trunc(W, n)
<1>4. x = Trunc(W, a - b)
  OBVIOUS
<1> HIDE DEF a, b, x
<1>5. a - b \in Int /\ b + (a - b) = a /\ a \in Int /\ b \in Int
  BY <1>3 DEF a, b
<1>6. x \in Word(W)
  BY <1>4, <1>5, TwoWidths
<1>7. d \in Counters /\ d.count = n /\ d.low = x
  <2> HIDE DEF d
  <2> QED BY <1>2, <1>6 DEF Counters, n
<1>8. CounterGet(W, d) = Trunc(W, b + x)
  <2> HIDE DEF d
  <2> QED BY <1>7 DEF CounterGet, b
<1>9. Trunc(W, b + Trunc(W, a - b)) = Trunc(W, b + (a - b))
  BY <1>5, TruncSums
<1>10. Trunc(W, a) = a
  BY <1>1, TruncSums DEF a
<1> QED BY <1>4, <1>5, <1>7, <1>8, <1>9, <1>10 DEF d, a

\* A write of mcycle or minstret is what is read after the writing instruction's tick.
LEMMA PerformanceSetReads ==
  ASSUME NEW c \in Counters, NEW v \in Word(W)
  PROVE  LET d == SimpleCounterTick(W, PerformanceCounterSet(W, c, v))
         IN  d \in Counters /\ CounterGet(W, d) = v
<1> DEFINE s == CounterSet(W, c, v)  x == Trunc(W, s.low - 1)
           e == PerformanceCounterSet(W, c, v)  d == SimpleCounterTick(W, e)
<1>1. v \in Nat /\ v \in Int /\ Trunc(W, v) = v
  BY WordsAreNumbers
<1>2. s \in Counters /\ CounterGet(W, s) = v
  BY <1>1, CounterSetReads
<1>3. e = [s EXCEPT !.low = x]
  BY DEF PerformanceCounterSet
<1> HIDE DEF s
<1>4. s.low \in Int /\ s.count \in Int
  BY <1>2, WordsAreNumbers DEF Counters
<1>5. x \in Word(W) /\ x \in Int /\ s.low - 1 \in Int
  <2>1. s.low - 1 \in Int BY <1>4
  <2> QED BY <2>1, TwoWidths
<1> HIDE DEF x
<1>6. e \in Counters /\ e.count = s.count /\ e.low = x
  <2> HIDE DEF e
  <2> QED BY <1>2, <1>3, <1>5 DEF Counters
<1> HIDE DEF e
<1>7. d = Ticks(e, 1)
  BY DEF SimpleCounterTick, Ticks
<1> HIDE DEF d
<1>8. d \in Counters /\ d.count = Trunc(2*W, s.count + 1) /\ d.low = x
  <2>1. d \in Counters BY <1>6, <1>7, CounterTicks
  <2>2. s.count + 1 \in Int BY <1>4
  <2>3. Trunc(2*W, s.count + 1) \in Word(2*W) BY <2>2, TwoWidths
  <2> QED BY <1>6, <1>7, <2>1, <2>3 DEF Ticks, Counters
<1> DEFINE n == s.count  l == s.low
<1>9. CounterGet(W, d) = Trunc(W, Trunc(2*W, n + 1) + x)
  BY <1>8, CounterReads
<1>10. CounterGet(W, s) = Trunc(W, n + l)
  BY <1>2, CounterReads
<1>11. x = Trunc(W, l - 1) /\ n \in Int /\ l \in Int
  BY <1>4 DEF x
<1> HIDE DEF n, l
<1> DEFINE T == Trunc(2*W, n + 1)
<1>12. T \in Int /\ n + 1 \in Int /\ Trunc(W, T) = Trunc(W, n + 1) /\ l - 1 \in Int
  <2>1. n + 1 \in Int /\ l - 1 \in Int BY <1>11
  <2> QED BY <2>1, TwoWidths
<1> HIDE DEF T
<1>13. Trunc(W, T + x) = Trunc(W, T + (l - 1))
  BY <1>11, <1>12, TruncSums
<1>14. Trunc(W, T + (l - 1)) = Trunc(W, Trunc(W, T) + (l - 1))
  BY <1>12, TruncSums
<1>15. Trunc(W, Trunc(W, n + 1) + (l - 1)) = Trunc(W, (n + 1) + (l - 1))
  BY <1>12, TruncSums
<1>16. (n + 1) + (l - 1) = n + l
  BY <1>11
<1> QED BY <1>2, <1>8, <1>9, <1>10, <1>12, <1>13, <1>14, <1>15, <1>16 DEF d, T, e

\* The two ways to set a counter agree: one 64-bit CSR, and two of 32 bits.
LEMMA OneCounter ==
  ASSUME NEW c \in Counters, NEW v \in Word(2*W), NEW n \in Nat
  PROVE  CounterGet(2*W, Ticks(CounterSet(2*W, c, v), n)) = Trunc(2*W, v + n)
<1> DEFINE a == c.count  x == Trunc(2*W, v - a)  d == CounterSet(2*W, c, v)  e == Ticks(d, n)
           T == Trunc(2*W, a + n)
<1>1. a \in Int /\ Trunc(2*W, a) = a /\ v \in Int /\ Trunc(2*W, v) = v /\ n \in Int
  BY WordsAreNumbers DEF Counters
<1>2. d = [c EXCEPT !.low = x]
  BY <1>1 DEF CounterSet
<1>3. d.count = a /\ d.low = x
  <2> HIDE DEF d, x
  <2> QED BY <1>2 DEF Counters
<1>4. e = [d EXCEPT !.count = T]
  BY <1>3 DEF Ticks
<1>5. e.count = T /\ e.low = x
  <2>1. e = [c EXCEPT !.low = x, !.count = T]
    BY <1>2, <1>4
  <2> HIDE DEF e, x, T
  <2> QED BY <2>1 DEF Counters
<1>6. CounterGet(2*W, e) = Trunc(2*W, Trunc(2*W, T) + x)
  <2> HIDE DEF e
  <2> QED BY <1>5 DEF CounterGet
<1> HIDE DEF a, d, e
<1>7. a + n \in Int /\ v - a \in Int /\ (a + n) + (v - a) = v + n
  BY <1>1
<1>8. Trunc(2*W, T) = T /\ T \in Int /\ T = Trunc(2*W, a + n) /\ x = Trunc(2*W, v - a) /\ x \in Int
  BY <1>7, TruncSums, TwoWidths
<1> HIDE DEF T, x
<1>9. Trunc(2*W, T + x) = Trunc(2*W, T + (v - a))
  BY <1>7, <1>8, TruncSums
<1>10. Trunc(2*W, T + (v - a)) = Trunc(2*W, (a + n) + (v - a))
  BY <1>7, <1>8, TruncSums
<1> QED BY <1>6, <1>7, <1>8, <1>9, <1>10 DEF e, d

\* The halves of a counter agree with one 64-bit counter, whatever the state.
LEMMA CounterHalvesHold == Types => CounterHalves
<1> SUFFICES ASSUME Types PROVE CounterHalves
  OBVIOUS
<1> DEFINE c == AnyCounter
<1>1. vs2 \in Word(W) /\ vs1 \in Word(W) /\ vd \in Word(W) /\ vxrm \in Nat /\ vxrm * 5 \in Nat
  BY DEF Types
<1>2. 0 \in Word(W) /\ MaxU(W) \in Word(W) /\ vd \in Int /\ 2^W \in Nat
  BY <1>1, WordFacts, Widths DEF TwosComplement
<1>3. c \in Counters
  <2>1. 5 * vd + vxrm \in Int
    BY <1>1, <1>2
  <2>2. Trunc(2*W, 5 * vd + vxrm) \in Word(2*W)
    BY <2>1, TwoWidths
  <2>3. Wide(vs2, vs1) \in Word(2*W)
    BY <1>1, WideWord
  <2> QED BY <1>1, <2>2, <2>3 DEF AnyCounter, Counters
<1> HIDE DEF c
<1>4. CounterGet(W, CounterSet(W, c, vxrm * 5)) = (vxrm * 5) % 2^W
  BY <1>1, <1>3, CounterSetReads DEF Trunc
<1>5. ASSUME NEW hi \in {0, vs2, MaxU(W)}
      PROVE  /\ HighGet(W, HighSet(W, c, hi)) = hi
             /\ CounterGet(W, HighSet(W, c, hi)) = CounterGet(W, c)
             /\ Pair(SimpleCounterTick(W, PerformanceHighSet(W, c, hi))) = Wide(hi, CounterGet(W, c))
             /\ \A lo \in {0, vs1, MaxU(W)} :
                  LET v == Wide(hi, lo)
                      both == HighSet(W, CounterSet(W, c, lo), hi)
                      one == CounterSet(2*W, c, v)
                      perf == SimpleCounterTick(W, PerformanceCounterSet(W, c, lo))
                  IN  /\ \A n \in {0, 1, 2^W} : /\ Pair(Ticks(both, n)) = Trunc(2*W, v + n)
                                              /\ CounterGet(2*W, Ticks(one, n)) = Trunc(2*W, v + n)
                      /\ Pair(SimpleCounterTick(W, PerformanceHighSet(W, perf, hi))) = v
  <2>1. hi \in Word(W)
    BY <1>1, <1>2
  <2>2. HighGet(W, HighSet(W, c, hi)) = hi /\ CounterGet(W, HighSet(W, c, hi)) = CounterGet(W, c)
    BY <1>3, <2>1, HighSetShows
  <2>3. Pair(SimpleCounterTick(W, PerformanceHighSet(W, c, hi))) = Wide(hi, CounterGet(W, c))
    BY <1>3, <2>1, PerformanceHighSetShows
  <2>4. ASSUME NEW lo \in {0, vs1, MaxU(W)}
        PROVE  LET v == Wide(hi, lo)
                   both == HighSet(W, CounterSet(W, c, lo), hi)
                   one == CounterSet(2*W, c, v)
                   perf == SimpleCounterTick(W, PerformanceCounterSet(W, c, lo))
               IN  /\ \A n \in {0, 1, 2^W} : /\ Pair(Ticks(both, n)) = Trunc(2*W, v + n)
                                           /\ CounterGet(2*W, Ticks(one, n)) = Trunc(2*W, v + n)
                   /\ Pair(SimpleCounterTick(W, PerformanceHighSet(W, perf, hi))) = v
    <3> DEFINE v == Wide(hi, lo)
               low == CounterSet(W, c, lo)
               both == HighSet(W, low, hi)
               one == CounterSet(2*W, c, v)
               perf == SimpleCounterTick(W, PerformanceCounterSet(W, c, lo))
    <3>1. lo \in Word(W) /\ lo \in Nat /\ Trunc(W, lo) = lo
      <4>1. lo \in Word(W) BY <1>1, <1>2, <2>4
      <4> QED BY <4>1, WordsAreNumbers
    <3>2. v \in Word(2*W)
      BY <2>1, <3>1, WideWord
    <3>3. low \in Counters /\ CounterGet(W, low) = lo
      BY <1>3, <3>1, CounterSetReads
    <3>4. both \in Counters /\ Shown(both) = v
      <4> HIDE DEF low
      <4> QED BY <2>1, <3>3, HighSetShows
    <3>5. ASSUME NEW n \in {0, 1, 2^W}
          PROVE  Pair(Ticks(both, n)) = Trunc(2*W, v + n) /\ CounterGet(2*W, Ticks(one, n)) = Trunc(2*W, v + n)
      <4>1. n \in Nat
        BY <1>2, <3>5
      <4>2. CounterGet(2*W, Ticks(one, n)) = Trunc(2*W, v + n)
        <5> HIDE DEF v
        <5> QED BY <1>3, <3>2, <4>1, OneCounter
      <4> HIDE DEF both, v
      <4>3. Ticks(both, n) \in Counters /\ Shown(Ticks(both, n)) = Trunc(2*W, v + n)
        BY <3>4, <4>1, CounterTicks
      <4>4. Pair(Ticks(both, n)) = Shown(Ticks(both, n))
        BY <4>3, CounterReads
      <4> QED BY <4>2, <4>3, <4>4
    <3>6. perf \in Counters /\ CounterGet(W, perf) = lo
      BY <1>3, <3>1, PerformanceSetReads
    <3>7. Pair(SimpleCounterTick(W, PerformanceHighSet(W, perf, hi))) = v
      <4> HIDE DEF perf
      <4> QED BY <2>1, <3>6, PerformanceHighSetShows
    <3> QED BY <3>5, <3>7
  <2> QED BY <2>2, <2>3, <2>4
<1> QED BY <1>4, <1>5 DEF CounterHalves, c

\* Multiword arithmetic: in every reachable state and for every width, chains of
\* vadc/vmadc and vsbc/vmsbc, the widening sums and the counter CSRs read in halves and
\* written whole, in the high half, or in both, low then high, are exact.  (Not the carry of
\* 64-bit elements, which has code of its own, Carry64, nor what the high half reads when only
\* the low one was written, LowWriteKeepsHigh: both are false.)
THEOREM LimbsAreExact == Spec => []LimbArithmetic
<1>1. Types => LimbArithmetic
  <2> SUFFICES ASSUME Types PROVE LimbArithmetic
    OBVIOUS
  <2> DEFINE X == Wide(vd, vs2)
  <2>1. vs2 \in Word(W) /\ vs1 \in Word(W) /\ vd \in Word(W) /\ m \in BOOLEAN /\ X \in Word(2*W)
    BY WideWord DEF Types
  <2>2. Vmsbc64(vs2, vs1, m) = Vmsbc(W, vs2, vs1, m)
    BY <2>1, SubBorrow
  <2>3. vs2 \in Int /\ vs1 \in Int /\ Trunc(W, vs2) = vs2
    BY <2>1, WordsAreNumbers
  <2>4. Vrsub(W, vs2, vs1) = Vsub(W, vs1, vs2)
    BY DEF Vrsub, Vsub
  <2>5. Vadd(W, Vsub(W, vs2, vs1), vs1) = vs2
    <3>1. vs2 - vs1 \in Int /\ (vs2 - vs1) + vs1 = vs2
      BY <2>3
    <3>2. Trunc(W, Trunc(W, vs2 - vs1) + vs1) = Trunc(W, (vs2 - vs1) + vs1)
      BY <2>3, <3>1, TruncSums
    <3> QED BY <2>3, <3>1, <3>2 DEF Vadd, Vsub
  <2>6. Vmerge(W, vs2, vs1, m) = (IF m THEN vs1 ELSE vs2)
    BY DEF Vmerge
  <2>7. /\ Vwaddu(W, vs2, vs1) = vs2 + vs1
        /\ S(2*W, Vwsubu(W, vs2, vs1)) = vs2 - vs1
        /\ S(2*W, Vwadd(W, vs2, vs1)) = S(W, vs2) + S(W, vs1)
        /\ S(2*W, Vwsub(W, vs2, vs1)) = S(W, vs2) - S(W, vs1)
        /\ Vwsubuw(W, Vwadduw(W, X, vs1), vs1) = X
        /\ Vwsubw(W, Vwaddw(W, X, vs1), vs1) = X
        /\ Vwaddw(W, Sext(W, 2*W, vs2), vs1) = Vwadd(W, vs2, vs1)
    <3> HIDE DEF X
    <3> QED BY <2>1, Widening DEF S
  <2> QED BY <2>2, <2>4, <2>5, <2>6, <2>7, TwoLimbSum, TwoLimbDifference, CounterHalvesHold
          DEF LimbArithmetic
<1> QED BY <1>1, TypeCorrect, PTL

-----------------------------------------------------------------------------
(* Products and quotients                                                  *)

\* The low and the high instruction of a product give the exact product, for every
\* combination of signs, and the widening product equals them.
LEMMA HalvesOfProduct ==
  ASSUME NEW a \in Word(W), NEW b \in Word(W)
  PROVE  LET x == Signed(W, a)  y == Signed(W, b) IN
         /\ Wide(Vmulhu(W, a, b), Vmul(W, a, b)) = a * b
         /\ Vwmulu(W, a, b) = a * b
         /\ Wide(Vmulh(W, a, b), Vmul(W, a, b)) = Vwmul(W, a, b)
         /\ Signed(2*W, Vwmul(W, a, b)) = x * y
         /\ Wide(Vmulhsu(W, a, b), Vmul(W, a, b)) = Vwmulsu(W, a, b)
         /\ Signed(2*W, Vwmulsu(W, a, b)) = x * b
<1> DEFINE x == Signed(W, a)  y == Signed(W, b)
<1>1. TwosComplement(W) /\ TwosComplement(2*W) /\ 2^W \in Nat \ {0}
  BY Widths DEF TwosComplement
<1>2. a \in Int /\ b \in Int /\ x \in Int /\ y \in Int /\ Trunc(W, x) = a /\ Trunc(W, y) = b
  BY <1>1, WordFacts, SignedWord
<1>3. a * b \in Word(2*W) /\ x * y \in MinS(2*W) .. MaxS(2*W) /\ x * b \in MinS(2*W) .. MaxS(2*W)
  BY WideRanges DEF Word
<1> HIDE DEF x, y
<1>4. a * b \in Int /\ x * y \in Int /\ x * b \in Int
  BY <1>2
<1>5. Trunc(W, x * b) = Trunc(W, a * b)
  BY <1>1, <1>2, TruncInner
<1>6. Trunc(W, x * y) = Trunc(W, a * b)
  <2>1. Trunc(W, y * x) = Trunc(W, b * x)
    BY <1>1, <1>2, TruncInner
  <2>2. y * x = x * y /\ b * x = x * b
    BY <1>2
  <2> QED BY <1>5, <2>1, <2>2
<1>7. \A z \in Int : Wide(Trunc(W, Shr(z, W)), Trunc(W, z)) = Trunc(2*W, z)
  BY TwoWidths
<1>8. Trunc(2*W, a * b) = a * b
  BY <1>3, WordsAreNumbers
<1>9. Signed(2*W, Trunc(2*W, x * y)) = x * y
  BY <1>1, <1>3, SignedTrunc
<1>10. Signed(2*W, Trunc(2*W, x * b)) = x * b
  BY <1>1, <1>3, SignedTrunc
<1>11. Wide(Trunc(W, Shr(a * b, W)), Trunc(W, a * b)) = a * b
  BY <1>4, <1>7, <1>8
<1>12. Wide(Trunc(W, Shr(x * y, W)), Trunc(W, a * b)) = Trunc(2*W, x * y)
  BY <1>4, <1>6, <1>7
<1>13. Wide(Trunc(W, Shr(x * b, W)), Trunc(W, a * b)) = Trunc(2*W, x * b)
  BY <1>4, <1>5, <1>7
<1> QED BY <1>8, <1>9, <1>10, <1>11, <1>12, <1>13
     DEF Vmulhu, VmulHighHelper, Vmul, Vwmulu, VwmulHelper, Vmulh, Vwmul, Vmulhsu, VmulHighSUHelper,
         Vwmulsu, VwmulSuHelper, x, y

\* Multiply-accumulate: the negated form undoes it, the ...add and ...acc forms exchange
\* an operand with the accumulator, and the widening forms are the exact sum, wrapped.
LEMMA Accumulating ==
  ASSUME NEW a \in Word(W), NEW b \in Word(W), NEW d \in Word(W), NEW acc \in Word(2*W)
  PROVE  LET x == Signed(W, a)  y == Signed(W, b) IN
         /\ Vnmsac(W, a, b, Vmacc(W, a, b, d)) = d
         /\ Vmadd(W, a, b, d) = Vmacc(W, d, b, a)
         /\ Vnmsub(W, a, b, d) = Vnmsac(W, d, b, a)
         /\ Vwmaccu(W, a, b, acc) = (a * b + acc) % 2^(2*W)
         /\ Vwmacc(W, a, b, acc) = (x * y + acc) % 2^(2*W)
         /\ Vwmaccsu(W, a, b, acc) = (a * y + acc) % 2^(2*W)
         /\ Vwmaccus(W, a, b, acc) = Vwmaccsu(W, b, a, acc)
<1> DEFINE x == Signed(W, a)  y == Signed(W, b)
<1>1. a \in Int /\ b \in Int /\ x \in Int /\ y \in Int /\ d \in Int /\ acc \in Int /\ Trunc(W, d) = d
  BY WordFacts, WordsAreNumbers
<1> HIDE DEF x, y
<1>2. ASSUME NEW u \in Int, NEW v \in Int
      PROVE  VwmaccHelper(W, u, v, acc) = (u * v + acc) % 2^(2*W)
  <2>1. u * v \in Int
    OBVIOUS
  <2>2. Trunc(2*W, Trunc(2*W, u * v) + acc) = Trunc(2*W, u * v + acc)
    BY <1>1, <2>1, TruncSums
  <2> QED BY <2>2 DEF VwmaccHelper, Trunc
<1>3. Vnmsac(W, a, b, Vmacc(W, a, b, d)) = d
  <2> DEFINE z == b * a
  <2>1. z \in Int
    BY <1>1
  <2>2. Vnmsac(W, a, b, Vmacc(W, a, b, d)) = Trunc(W, -z + Trunc(W, z + d))
    BY DEF Vnmsac, Vmacc
  <2> HIDE DEF z
  <2>3. -z \in Int /\ z + d \in Int /\ -z + (z + d) = d
    BY <1>1, <2>1
  <2>4. Trunc(W, -z + Trunc(W, z + d)) = Trunc(W, -z + (z + d))
    BY <2>3, TruncSums
  <2> QED BY <1>1, <2>2, <2>3, <2>4
<1>4. Vmadd(W, a, b, d) = Vmacc(W, d, b, a) /\ Vnmsub(W, a, b, d) = Vnmsac(W, d, b, a)
  BY DEF Vmadd, Vmacc, Vnmsub, Vnmsac
<1>5. Vwmaccus(W, a, b, acc) = Vwmaccsu(W, b, a, acc)
  <2>1. x * b = b * x
    BY <1>1
  <2>2. VwmaccHelper(W, x, b, acc) = VwmaccHelper(W, b, x, acc)
    BY <2>1 DEF VwmaccHelper
  <2> QED BY <2>2 DEF Vwmaccus, Vwmaccsu, x
<1> QED BY <1>1, <1>2, <1>3, <1>4, <1>5 DEF Vwmaccu, Vwmacc, Vwmaccsu, x, y

\* C++ division: the identity, and where quotient and remainder lie.
LEMMA TowardZero ==
  ASSUME NEW x \in Int, NEW y \in Int, y # 0
  PROVE  LET q == TQuot(x, y)  r == TRem(x, y) IN
         /\ q \in Int /\ r \in Int
         /\ x = q * y + r /\ Abs(r) < Abs(y) /\ (r # 0 => (r < 0 <=> x < 0))
         /\ Abs(q) <= Abs(x) /\ (y = 1 => q = x) /\ (y = -1 => q = -x /\ r = 0)
         /\ (Abs(y) >= 2 => 2 * Abs(q) <= Abs(x))
<1> DEFINE n == Abs(x)  d == Abs(y)  k == n \div d  e == n % d  q == TQuot(x, y)  r == TRem(x, y)
<1>1. n \in Nat /\ d \in Nat \ {0} /\ (n = IF x < 0 THEN -x ELSE x) /\ (d = IF y < 0 THEN -y ELSE y)
  BY DEF Abs
<1>2. q = IF (x < 0) = (y < 0) THEN k ELSE -k
  BY DEF TQuot
<1>3. r = x - y * q
  BY DEF TRem
<1> HIDE DEF n, d
<1>4. k \in Int /\ e \in 0 .. d - 1 /\ n = d * k + e
  <2>1. n \in Int /\ d \in Nat \ {0}
    BY <1>1
  <2> HIDE DEF k, e, q, r
  <2>2. n \div d \in Int /\ n % d \in 0 .. d - 1 /\ n = d * (n \div d) + (n % d)
    BY <2>1, DivMod, Zenon
  <2> QED BY <2>2 DEF k, e
<1> HIDE DEF k, e, q, r
<1> DEFINE z == d * k
<1>5. z \in Int /\ n = z + e
  BY <1>1, <1>4
<1>6. k \in Nat /\ k <= n /\ (d >= 2 => 2 * k <= n) /\ (d = 1 => k = n /\ e = 0)
  <2>1. k >= 0
    <3> SUFFICES ASSUME k <= -1 PROVE FALSE
      BY <1>4
    <3>1. d * k <= d * (-1)
      BY <1>1, <1>4
    <3> QED BY <1>1, <1>4, <3>1
  <2>2. d * k >= k /\ (d >= 2 => d * k >= 2 * k)
    BY <1>1, <1>4, <2>1
  <2> QED BY <1>1, <1>4, <2>1, <2>2
<1> HIDE DEF z
<1>7. (x < 0) \in BOOLEAN /\ (y < 0) \in BOOLEAN
  OBVIOUS
<1>8. CASE x < 0 /\ y < 0
  <2>1. q = k
    BY <1>2, <1>8
  <2>2. x = -n /\ y = -d
    BY <1>1, <1>8
  <2>3. q * y = -z /\ y * q = -z 
    BY <1>1, <1>4, <2>1, <2>2 DEF z
  <2>4. r = -e
    BY <1>5, <1>3, <1>4, <2>2, <2>3
  <2>5. x = q * y + r
    BY <1>5, <1>4, <2>2, <2>3, <2>4
  <2> QED BY <1>1, <1>4, <1>6, <1>8, <2>1, <2>2, <2>4, <2>5 DEF Abs, q, r
<1>9. CASE x < 0 /\ ~(y < 0)
  <2>1. q = -k
    BY <1>2, <1>9
  <2>2. x = -n /\ y = d
    BY <1>1, <1>9
  <2>3. q * y = -z /\ y * q = -z 
    BY <1>1, <1>4, <2>1, <2>2 DEF z
  <2>4. r = -e
    BY <1>5, <1>3, <1>4, <2>2, <2>3
  <2>5. x = q * y + r
    BY <1>5, <1>4, <2>2, <2>3, <2>4
  <2> QED BY <1>1, <1>4, <1>6, <1>9, <2>1, <2>2, <2>4, <2>5 DEF Abs, q, r
<1>10. CASE ~(x < 0) /\ y < 0
  <2>1. q = -k
    BY <1>2, <1>10
  <2>2. x = n /\ y = -d
    BY <1>1, <1>10
  <2>3. q * y = z /\ y * q = z 
    BY <1>1, <1>4, <2>1, <2>2 DEF z
  <2>4. r = e
    BY <1>5, <1>3, <1>4, <2>2, <2>3
  <2>5. x = q * y + r
    BY <1>5, <1>4, <2>2, <2>3, <2>4
  <2> QED BY <1>1, <1>4, <1>6, <1>10, <2>1, <2>2, <2>4, <2>5 DEF Abs, q, r
<1>11. CASE ~(x < 0) /\ ~(y < 0)
  <2>1. q = k
    BY <1>2, <1>11
  <2>2. x = n /\ y = d
    BY <1>1, <1>11
  <2>3. q * y = z /\ y * q = z 
    BY <1>1, <1>4, <2>1, <2>2 DEF z
  <2>4. r = e
    BY <1>5, <1>3, <1>4, <2>2, <2>3
  <2>5. x = q * y + r
    BY <1>5, <1>4, <2>2, <2>3, <2>4
  <2> QED BY <1>1, <1>4, <1>6, <1>11, <2>1, <2>2, <2>4, <2>5 DEF Abs, q, r
<1> QED BY <1>8, <1>9, <1>10, <1>11

\* The vector divisions: the identity for every divisor but 0, the fixed results of
\* division by zero, and the quotient of the one signed overflow.
LEMMA Dividing ==
  ASSUME NEW a \in Word(W), NEW b \in Word(W)
  PROVE  LET x == Signed(W, a)  y == Signed(W, b)
             q == Signed(W, Vdiv(W, a, b))  r == Signed(W, Vrem(W, a, b))
         IN  IF b = 0 THEN q = -1 /\ r = x /\ Vdivu(W, a, 0) = MaxU(W) /\ Vremu(W, a, 0) = a
             ELSE /\ a = Vdivu(W, a, b) * b + Vremu(W, a, b)
                  /\ Vremu(W, a, b) < b
                  /\ IF x = MinS(W) /\ y = -1 THEN q = MinS(W)
                     ELSE /\ x = q * y + r /\ Abs(r) < Abs(y)
                          /\ r # 0 => (r < 0) = (x < 0)
<1> DEFINE p == 2^W  h == 2^(W - 1)  x == Signed(W, a)  y == Signed(W, b)
           q == Signed(W, Vdiv(W, a, b))  r == Signed(W, Vrem(W, a, b))
           Q == TQuot(x, y)  R == TRem(x, y)
<1>1. TwosComplement(W) /\ p \in Nat \ {0} /\ h \in Nat \ {0} /\ p = 2 * h /\ MinS(W) = -h /\ MaxS(W) = h - 1
  BY Widths DEF TwosComplement, MinS, MaxS
<1>2. a \in 0 .. p-1 /\ b \in 0 .. p-1 /\ x \in -h .. h-1 /\ y \in -h .. h-1
      /\ y = IF b >= h THEN b - p ELSE b
  BY <1>1, SignedWord DEF Word
<1>3. \A z \in -h .. h-1 : Signed(W, Trunc(W, z)) = z
  BY <1>1, SignedTrunc
<1>4. CASE b = 0
  <2>1. Vdiv(W, a, b) = Trunc(W, -1) /\ Vrem(W, a, b) = a
    BY <1>4 DEF Vdiv, Vrem
  <2>2. -1 \in -h .. h-1
    BY <1>1
  <2>3. Vdivu(W, a, 0) = MaxU(W)
    <3>1. MaxU(W) - 0 = MaxU(W)
      BY <1>1 DEF MaxU
    <3> QED BY <3>1 DEF Vdivu, Inv
  <2>4. Vremu(W, a, 0) = a
    BY DEF Vremu
  <2> QED BY <1>3, <1>4, <2>1, <2>2, <2>3, <2>4
<1>5. CASE b # 0
  <2> HIDE DEF p, h, x, y
  <2>1. b \in Nat \ {0} /\ y # 0 /\ x \in Int /\ y \in Int
    BY <1>1, <1>2, <1>5
  <2>2. a = Vdivu(W, a, b) * b + Vremu(W, a, b) /\ Vremu(W, a, b) < b
    <3>0. a \in Int
      BY <1>2
    <3>1. a \in Int /\ a \div b \in Int /\ a % b \in 0 .. b-1 /\ a = b * (a \div b) + (a % b)
      BY <3>0, <2>1, DivMod
    <3>2. Vdivu(W, a, b) = a \div b /\ Vremu(W, a, b) = a % b
      BY <1>5 DEF Vdivu, Vremu
    <3> DEFINE k == a \div b  e == a % b
    <3>3. k \in Int /\ e \in 0 .. b-1 /\ a = b * k + e
      BY <3>1
    <3> HIDE DEF k, e
    <3>4. a = k * b + e /\ e < b
      BY <2>1, <3>3
    <3> QED BY <3>2, <3>4 DEF k, e
  <2>3. /\ Q \in Int /\ R \in Int /\ x = Q * y + R /\ Abs(R) < Abs(y) /\ (R # 0 => (R < 0 <=> x < 0))
        /\ Abs(Q) <= Abs(x) /\ (y = 1 => Q = x) /\ (y = -1 => Q = -x /\ R = 0)
        /\ (Abs(y) >= 2 => 2 * Abs(Q) <= Abs(x))
    BY <2>1, TowardZero
  <2>4. Vrem(W, a, b) = Trunc(W, R)
    BY <1>5 DEF Vrem, x, y
  <2>5. Vdiv(W, a, b) = IF y = -1 /\ x = MinS(W) THEN Trunc(W, MinS(W)) ELSE Trunc(W, Q)
    BY <1>5 DEF Vdiv, x, y
  <2> HIDE DEF Q, R
  <2>6. R \in -h .. h-1
    BY <1>1, <1>2, <2>3 DEF Abs
  <2>7. r = R
    BY <1>3, <2>4, <2>6
  <2>8. CASE x = MinS(W) /\ y = -1
    <3>1. MinS(W) \in -h .. h-1
      BY <1>1
    <3>2. q = MinS(W)
      BY <1>3, <2>5, <2>8, <3>1
    <3> QED BY <1>5, <2>2, <2>8, <3>2 DEF x, y
  <2>9. CASE ~(x = MinS(W) /\ y = -1)
    <3>1. Q \in -h .. h-1
      <4>1. CASE y = 1
        BY <1>2, <2>3, <4>1
      <4>2. CASE y = -1
        <5>1. x # -h /\ Q = -x
          BY <1>1, <2>3, <2>9, <4>2
        <5> QED BY <1>1, <1>2, <5>1
      <4>3. CASE y # 1 /\ y # -1
        <5>1. 2 * Abs(Q) <= Abs(x)
          BY <2>1, <2>3, <4>3 DEF Abs
        <5> QED BY <1>1, <1>2, <2>3, <5>1 DEF Abs
      <4> QED BY <4>1, <4>2, <4>3
    <3>2. q = Q
      BY <1>3, <2>5, <2>9, <3>1
    <3>3. R # 0 => (R < 0) = (x < 0)
      BY <2>3
    <3>4. x = q * y + r /\ Abs(r) < Abs(y) /\ (r # 0 => (r < 0) = (x < 0))
      BY <2>3, <2>7, <3>2, <3>3
    <3> QED BY <1>5, <2>2, <2>9, <3>4 DEF x, y
  <2> QED BY <2>8, <2>9
<1> QED BY <1>4, <1>5

\* Products, multiply-accumulates and quotients are exact, wrapped where the code
\* wraps, in every reachable state and for every width.
THEOREM ProductsAreExact == Spec => []ProductsAndQuotients
<1>1. Types => ProductsAndQuotients
  <2> SUFFICES ASSUME Types PROVE ProductsAndQuotients
    OBVIOUS
  <2>1. vs2 \in Word(W) /\ vs1 \in Word(W) /\ vd \in Word(W) /\ Wide(vd, vs1) \in Word(2*W)
    BY WideWord DEF Types
  <2> QED BY <2>1, HalvesOfProduct, Accumulating, Dividing DEF ProductsAndQuotients, S
<1> QED BY <1>1, TypeCorrect, PTL

-----------------------------------------------------------------------------
(* Rounding, clamping and saturation                                       *)

\* Neighbouring powers of two, as far as a double width goes.
LEMMA PowersUp ==
  ASSUME NEW k \in 0 .. 2*W - 1
  PROVE  /\ 2^k \in Nat \ {0} /\ 2^(k + 1) = 2 * 2^k /\ 2^(k + 1) \in Nat \ {0}
         /\ k = 0 => 2^k = 1
         /\ k # 0 => 2^(k - 1) \in Nat \ {0} /\ 2^k = 2 * 2^(k - 1)
<1>1. Powers(2*W) /\ 2*W \in Nat /\ k \in 0 .. 2*W /\ k + 1 \in 0 .. 2*W
  BY Widths
<1>2. 2^k \in Nat \ {0} /\ 2^(k + 1) \in Nat \ {0}
  BY <1>1, PowersPositive
<1>3. 2^(k + 1) = 2 * 2^k
  BY <1>1 DEF Powers
<1>4. k = 0 => 2^k = 1
  <2>1. 2^0 = 1 OBVIOUS
  <2> QED BY <2>1
<1>5. ASSUME k # 0 PROVE 2^(k - 1) \in Nat \ {0} /\ 2^k = 2 * 2^(k - 1)
  <2>1. k - 1 \in 0 .. 2*W - 1 /\ k - 1 \in 0 .. 2*W /\ (k - 1) + 1 = k
    BY <1>1, <1>5
  <2>2. 2^((k - 1) + 1) = 2 * 2^(k - 1)
    BY <1>1, <2>1 DEF Powers
  <2>3. 2^(k - 1) \in Nat \ {0}
    BY <1>1, <2>1, PowersPositive
  <2> QED BY <2>1, <2>2, <2>3
<1> QED BY <1>2, <1>3, <1>4, <1>5

\* What get_rounding_bit reads of a number, the bits shifted out and the one above them,
\* is the same for every number that agrees with it up to bit k.
LEMMA BitsRead ==
  ASSUME NEW n \in Int, NEW k \in 0 .. 2*W - 1, NEW j \in Int, NEW bits \in Int, bits = n + j * 2^(k + 1)
  PROVE  LET f == n \div 2^k  e == n % 2^k IN
         /\ f \in Int /\ e \in 0 .. 2^k - 1 /\ n = f * 2^k + e
         /\ Bit(bits, k) = f % 2 /\ bits % 2^k = e
         /\ k # 0 => /\ e >= 2^(k - 1) <=> Bit(bits, k - 1) = 1
                     /\ bits % 2^(k - 1) = IF e >= 2^(k - 1) THEN e - 2^(k - 1) ELSE e
<1> DEFINE p == 2^k  g == 2^(k - 1)  f == n \div p  e == n % p
<1>1. p \in Nat \ {0} /\ 2^(k + 1) = 2 * p /\ (k # 0 => g \in Nat \ {0} /\ p = 2 * g)
  BY PowersUp
<1> HIDE DEF p, g
<1>2. f \in Int /\ e \in 0 .. p - 1 /\ n = f * p + e
  <2>1. n \div p \in Int /\ n % p \in 0 .. p-1 /\ n = p * (n \div p) + (n % p)
    BY <1>1, DivMod
  <2> HIDE DEF f, e
  <2>2. f \in Int /\ e \in 0 .. p - 1 /\ n = p * f + e
    BY <2>1 DEF f, e
  <2> QED BY <1>1, <2>2
<1> HIDE DEF f, e
<1>3. bits = (f + 2 * j) * p + e /\ f + 2 * j \in Int
  <2>1. j * (2 * p) = (2 * j) * p
    BY <1>1
  <2>2. (f + 2 * j) * p = f * p + (2 * j) * p
    BY <1>1, <1>2
  <2> DEFINE x == f * p  y == (2 * j) * p
  <2>3. x \in Int /\ y \in Int
    BY <1>1, <1>2
  <2>4. n = x + e /\ bits = n + y /\ (f + 2 * j) * p = x + y
    BY <1>1, <1>2, <2>1, <2>2
  <2> HIDE DEF x, y
  <2>5. bits = (x + y) + e
    BY <1>2, <2>3, <2>4
  <2> QED BY <1>2, <2>4, <2>5
<1>4. bits \div p = f + 2 * j /\ bits % p = e
  <2> DEFINE c == f + 2 * j
  <2>1. c \in Int /\ bits = c * p + e /\ e \in 0 .. p - 1 /\ p \in Nat \ {0} /\ bits \in Int
    BY <1>1, <1>2, <1>3
  <2> HIDE DEF c
  <2>2. bits \div p = c /\ bits % p = e
    BY <2>1, Unique
  <2> QED BY <2>2 DEF c
<1>5. (f + 2 * j) % 2 = f % 2
  BY <1>2
<1>6. ASSUME k # 0
      PROVE  /\ e >= g <=> (bits \div g) % 2 = 1
             /\ bits % g = IF e >= g THEN e - g ELSE e
  <2> DEFINE u == IF e >= g THEN 1 ELSE 0  v == IF e >= g THEN e - g ELSE e  c == f + 2 * j
  <2>1. u \in 0 .. 1 /\ v \in 0 .. g - 1 /\ e = u * g + v /\ g \in Nat \ {0} /\ p = 2 * g
    BY <1>1, <1>2, <1>6
  <2>2. c \in Int /\ bits = c * p + e
    BY <1>3
  <2>3. u = 1 <=> e >= g
    OBVIOUS
  <2> HIDE DEF u, v, c
  <2>4. bits = (2 * c + u) * g + v /\ 2 * c + u \in Int
    BY <2>1, <2>2
  <2>5. bits \div g = 2 * c + u /\ bits % g = v
    BY <2>1, <2>4, Unique
  <2>6. (2 * c + u) % 2 = u
    BY <2>1, <2>2
  <2>7. (bits \div g) % 2 = u
    BY <2>5, <2>6
  <2>8. u = 1 <=> (bits \div g) % 2 = 1
    BY <2>7
  <2> QED BY <2>3, <2>5, <2>8 DEF v
<1> QED BY <1>2, <1>4, <1>5, <1>6 DEF Bit, f, e, p, g

\* A shift and the bit get_rounding_bit returns make the exact quotient, rounded as vxrm
\* says, for negative numbers too.
LEMMA RoundingIsExact ==
  ASSUME NEW rm \in 0 .. 3, NEW n \in Int, NEW k \in 0 .. 2*W - 1, NEW j \in Int, NEW bits \in Int,
         bits = n + j * 2^(k + 1)
  PROVE  /\ Shr(n, k) + GetRoundingBit(rm, bits, k + 1) = Rounded(rm, n, k)
         /\ Rounded(rm, n, k) \in Int /\ n \div 2^k \in Int
         /\ Rounded(rm, n, k) \in {n \div 2^k, n \div 2^k + 1}
         /\ k = 0 => Rounded(rm, n, k) = n
<1> DEFINE p == 2^k  g == 2^(k - 1)  f == n \div p  e == n % p
<1>1. p \in Nat \ {0} /\ (k = 0 => p = 1) /\ (k # 0 => g \in Nat \ {0} /\ p = 2 * g)
  BY PowersUp
<1>2. /\ f \in Int /\ e \in 0 .. p - 1 /\ n = f * p + e
      /\ Bit(bits, k) = f % 2 /\ bits % p = e
      /\ k # 0 => /\ e >= g <=> Bit(bits, k - 1) = 1
                  /\ bits % g = IF e >= g THEN e - g ELSE e
  BY BitsRead
<1> DEFINE above == n - f * p  below == p - above
<1>3. Rounded(rm, n, k) =
        CASE rm = 0 -> IF below <= above THEN f + 1 ELSE f
          [] rm = 1 -> IF below < above \/ (below = above /\ f % 2 = 1) THEN f + 1 ELSE f
          [] rm = 2 -> f
          [] rm = 3 -> IF above > 0 /\ f % 2 = 0 THEN f + 1 ELSE f
  BY DEF Rounded
<1> DEFINE size == k + 1
           half  == size >= 2 /\ Bit(bits, size - 2) = 1
           lsb   == Bit(bits, size - 1) = 1
           low   == size >= 3 /\ bits % 2^(size - 2) # 0
           lost  == size >= 2 /\ bits % 2^(size - 1) # 0
<1>4. GetRoundingBit(rm, bits, k + 1) =
        CASE rm = 0 -> Flag(half)
          [] rm = 1 -> Flag(half /\ (low \/ lsb))
          [] rm = 2 -> 0
          [] rm = 3 -> Flag(~lsb /\ lost)
  BY DEF GetRoundingBit
<1>5. size - 2 = k - 1 /\ size - 1 = k /\ k \in Int /\ (size >= 2 <=> k # 0) /\ (size >= 3 <=> k >= 2)
  OBVIOUS
<1>6. Shr(n, k) = f
  BY DEF Shr
<1> HIDE DEF f, e, size
<1>7. /\ half <=> (k # 0 /\ e >= g)
      /\ lsb <=> f % 2 = 1
      /\ low <=> (k >= 2 /\ (IF e >= g THEN e - g ELSE e) # 0)
      /\ lost <=> (k # 0 /\ e # 0)
  <2>1. half <=> (k # 0 /\ e >= g)
    BY <1>2, <1>5
  <2>2. lsb <=> f % 2 = 1
    BY <1>2, <1>5
  <2>3. low <=> (k >= 2 /\ (IF e >= g THEN e - g ELSE e) # 0)
    BY <1>2, <1>5
  <2>4. lost <=> (k # 0 /\ e # 0)
    BY <1>2, <1>5
  <2> QED BY <2>1, <2>2, <2>3, <2>4
<1>8. above = e /\ f % 2 \in 0 .. 1
  BY <1>1, <1>2
<1>9. k = 1 => g = 1
  <2>1. 2^0 = 1 OBVIOUS
  <2> QED BY <2>1
<1> HIDE DEF p, g, above, half, lsb, low, lost
<1>10. below = p - e
  BY <1>8
<1> HIDE DEF below
<1> DEFINE b == GetRoundingBit(rm, bits, k + 1)  R == Rounded(rm, n, k)
<1>11. R \in {f, f + 1} /\ R = f + b /\ (k = 0 => R = f)
  <2>1. CASE rm = 0
    <3>1. half <=> below <= above
      BY <1>1, <1>2, <1>5, <1>7, <1>8, <1>10
    <3>2. k = 0 => ~half
      BY <1>7
    <3>3. b = Flag(half) /\ R = IF below <= above THEN f + 1 ELSE f
      BY <1>3, <1>4, <2>1
    <3> HIDE DEF b, R
    <3> QED BY <1>2, <3>1, <3>2, <3>3 DEF Flag
  <2>2. CASE rm = 1
    <3> DEFINE up == half /\ (low \/ lsb)
    <3>1. up <=> below < above \/ (below = above /\ f % 2 = 1)
      <4>1. CASE k = 0
        BY <4>1, <1>1, <1>2, <1>7, <1>8, <1>10
      <4>2. CASE k # 0
        <5>1. low <=> (IF e >= g THEN e - g ELSE e) # 0
          BY <4>2, <1>1, <1>2, <1>5, <1>7, <1>9
        <5>2. (below < above <=> e > g) /\ (below = above <=> e = g) /\ e \in Int /\ g \in Int
          BY <4>2, <1>1, <1>2, <1>8, <1>10
        <5>3. half => (low <=> e # g)
          BY <4>2, <5>1, <5>2, <1>7
        <5>4. (half <=> e >= g) /\ (lsb <=> f % 2 = 1)
          BY <4>2, <1>7
        <5>5. e >= g <=> e > g \/ e = g
          BY <5>2
        <5> QED BY <5>2, <5>3, <5>4, <5>5
      <4> QED BY <4>1, <4>2
    <3>2. k = 0 => ~up
      BY <1>7
    <3>3. b = Flag(up) /\ R = IF below < above \/ (below = above /\ f % 2 = 1) THEN f + 1 ELSE f
      BY <1>3, <1>4, <2>2
    <3> HIDE DEF b, R, up
    <3> QED BY <1>2, <3>1, <3>2, <3>3 DEF Flag
  <2>3. CASE rm = 2
    <3>1. b = 0 /\ R = f
      BY <1>3, <1>4, <2>3
    <3> HIDE DEF b, R
    <3> QED BY <1>2, <3>1
  <2>4. CASE rm = 3
    <3> DEFINE up == ~lsb /\ lost
    <3>1. up <=> above > 0 /\ f % 2 = 0
      BY <1>1, <1>2, <1>7, <1>8
    <3>2. k = 0 => ~up
      BY <1>7
    <3>3. b = Flag(up) /\ R = IF above > 0 /\ f % 2 = 0 THEN f + 1 ELSE f
      BY <1>3, <1>4, <2>4
    <3> HIDE DEF b, R, up
    <3> QED BY <1>2, <3>1, <3>2, <3>3 DEF Flag
  <2> QED BY <2>1, <2>2, <2>3, <2>4
<1> HIDE DEF b, R
<1>12. k = 0 => R = n
  BY <1>1, <1>2, <1>11
<1>13. R \in Int
  BY <1>2, <1>11
<1> QED BY <1>2, <1>6, <1>11, <1>12, <1>13 DEF b, R, f, p

\* what the shift helpers look at of n, and that it is n as far as bit k
KeptBits(w, n, k) == IF k < w - 1 THEN Trunc(w, n) % 2^(k + 1) ELSE Trunc(w, n)
SameLowBits(n, k, b) == b \in Int /\ \E j \in Int : b = n + j * 2^(k + 1)

\* What the helpers keep of a number to look at is the number as far as bit k.
LEMMA BitsKept ==
  ASSUME NEW w, w \in {W, 2*W}, NEW n \in Int, NEW k \in 0 .. w - 1
  PROVE  SameLowBits(n, k, KeptBits(w, n, k))
<1> DEFINE T == Trunc(w, n)  K == Shr(n, w)  p == 2^(k + 1)  c == 2^(w - (k + 1))
           bits == IF k < w - 1 THEN T % p ELSE T
<1>1. w \in Nat \ {0} /\ w <= 2*W /\ 2*W \in Nat /\ Powers(2*W) /\ 2^w \in Nat \ {0} /\ k \in 0 .. 2*W - 1
  BY Widths DEF TwosComplement
<1>2. p \in Nat \ {0}
  BY <1>1, PowersUp
<1>3. c \in Nat \ {0} /\ 2^w = c * p
  <2>1. w - (k + 1) \in Nat /\ w - (k + 1) \in 0 .. 2*W /\ k + 1 \in Nat /\ (w - (k + 1)) + (k + 1) = w
    BY <1>1
  <2>2. 2^((w - (k + 1)) + (k + 1)) = 2^(w - (k + 1)) * 2^(k + 1)
    BY <1>1, <2>1, PowersAdd
  <2>3. 2^(w - (k + 1)) \in Nat \ {0}
    BY <1>1, <2>1, PowersPositive
  <2> QED BY <2>1, <2>2, <2>3
<1>4. T \in Int /\ K \in Int /\ n = K * 2^w + T
  <2>1. T \in Word(w) /\ K \in Int /\ n = K * 2^w + T
    BY <1>1, TruncWord
  <2> HIDE DEF T, K
  <2>2. T \in Int
    BY <1>1, <2>1 DEF Word
  <2> QED BY <2>1, <2>2
<1> HIDE DEF T, K, p, c
<1>5. K * c \in Int /\ -(K * c) \in Int /\ T = n + (-(K * c)) * p
  BY <1>2, <1>3, <1>4
<1> DEFINE a == -(K * c)
<1>6. a \in Int /\ T = n + a * p
  BY <1>5
<1> HIDE DEF a
<1> DEFINE kept == IF k < w - 1 THEN T % p ELSE T
<1>7. \E j \in Int : kept = n + j * p
  <2>1. CASE k < w - 1
    <3> DEFINE q == T \div p  r == T % p
    <3>1. q \in Int /\ r \in Int /\ T = p * q + r
      BY <1>2, <1>4, DivMod
    <3>2. kept = r
      BY <2>1
    <3> HIDE DEF q, r, kept
    <3>3. r = n + (a - q) * p /\ a - q \in Int
      BY <1>2, <1>6, <3>1
    <3> QED BY <3>2, <3>3
  <2>2. CASE ~(k < w - 1)
    <3>1. kept = T
      BY <2>2
    <3> HIDE DEF kept
    <3> QED BY <1>6, <3>1
  <2> QED BY <2>1, <2>2
<1> HIDE DEF kept
<1>8. kept \in Int
  <2>1. PICK j \in Int : kept = n + j * p
    BY <1>7
  <2> QED BY <1>2, <2>1
<1>9. KeptBits(w, n, k) = kept
  BY DEF KeptBits, kept, T, p
<1> QED BY <1>7, <1>8, <1>9 DEF p, SameLowBits

\* vssrl and vssra shift and round as one exact rounding.
LEMMA VssrIsExact ==
  ASSUME NEW w, w \in {W, 2*W}, NEW rm \in 0 .. 3, NEW n \in Int, NEW b \in Nat
  PROVE  VssrHelper(w, rm, n, b) = Rounded(rm, n, b % w)
<1> DEFINE k == b % w  bits == KeptBits(w, n, k)
<1>1. k \in 0 .. w - 1 /\ k \in 0 .. 2*W - 1
  BY Widths
<1>2. VssrHelper(w, rm, n, b) = Shr(n, k) + GetRoundingBit(rm, bits, k + 1)
  BY DEF VssrHelper, KeptBits
<1> HIDE DEF k
<1>3. SameLowBits(n, k, bits)
  BY <1>1, BitsKept
<1>4. PICK j \in Int : bits \in Int /\ bits = n + j * 2^(k + 1)
  BY <1>3 DEF SameLowBits
<1> HIDE DEF bits
<1>5. Shr(n, k) + GetRoundingBit(rm, bits, k + 1) = Rounded(rm, n, k)
  BY <1>1, <1>4, RoundingIsExact
<1> QED BY <1>2, <1>5 DEF k

\* Rounding gives the floor or the number after it, and a whole number as it is.
LEMMA RoundedIsNumber ==
  ASSUME NEW rm \in 0 .. 3, NEW n \in Int, NEW k \in 0 .. 2*W - 1
  PROVE  /\ Rounded(rm, n, k) \in Int /\ n \div 2^k \in Int
         /\ Rounded(rm, n, k) \in {n \div 2^k, n \div 2^k + 1}
         /\ k = 0 => Rounded(rm, n, k) = n
<1> DEFINE p == 2^k  f == n \div p
<1>1. p \in Nat \ {0} /\ (k = 0 => p = 1)
  BY PowersUp
<1>2. Rounded(rm, n, k) \in {f, f + 1}
  <2>1. rm \in {0, 1, 2, 3}
    OBVIOUS
  <2> HIDE DEF f
  <2> QED BY <2>1 DEF Rounded, p, f
<1>3. f \in Int
  <2> HIDE DEF p
  <2> QED BY <1>1, DivMod, Zenon
<1>4. ASSUME k = 0 PROVE Rounded(rm, n, k) = n
  <2>1. p = 1
    BY <1>1, <1>4
  <2>2. f = n
    BY <2>1
  <2>3. Rounded(rm, n, k) =
          CASE rm = 0 -> IF 1 - (n - n * 1) <= n - n * 1 THEN n + 1 ELSE n
            [] rm = 1 -> IF \/ 1 - (n - n * 1) < n - n * 1
                            \/ 1 - (n - n * 1) = n - n * 1 /\ n % 2 = 1 THEN n + 1 ELSE n
            [] rm = 2 -> n
            [] rm = 3 -> IF n - n * 1 > 0 /\ n % 2 = 0 THEN n + 1 ELSE n
    BY <2>1, <2>2, Zenon DEF Rounded, p, f
  <2>4. n - n * 1 = 0 /\ 1 - 0 = 1 /\ ~(1 <= 0) /\ ~(1 < 0) /\ 1 # 0 /\ ~(0 > 0)
    OBVIOUS
  <2>5. rm \in {0, 1, 2, 3}
    OBVIOUS
  <2> QED BY <2>3, <2>4, <2>5
<1> QED BY <1>2, <1>3, <1>4

\* The averaging instructions round a sum of one bit more than the element exactly.
LEMMA RoundOffIsExact ==
  ASSUME NEW rm \in 0 .. 3, NEW n \in Int
  PROVE  RoundOff(rm, n, 1) = Rounded(rm, n, 1)
<1> DEFINE bits == n  j == 0  k == 1
<1>1. k \in 0 .. 2*W - 1
  BY Widths
<1>2. bits = n + j * 2^(k + 1) /\ bits \in Int /\ j \in Int
  <2>1. 2^(k + 1) \in Nat
    BY <1>1, PowersUp
  <2> QED BY <2>1
<1> HIDE DEF bits, j, k
<1>3. Shr(n, k) + GetRoundingBit(rm, bits, k + 1) = Rounded(rm, n, k)
  BY <1>1, <1>2, RoundingIsExact
<1> QED BY <1>3 DEF RoundOff, bits, k

\* Clamp by cases: above the range, below it, in it.
LEMMA ClampCases ==
  ASSUME NEW lo \in Int, NEW hi \in Int, lo <= hi, NEW e \in Int
  PROVE  Clamp(lo, hi, e) = (IF e > hi THEN hi ELSE IF e < lo THEN lo ELSE e)
  BY DEF Clamp, Greater, Lesser

\* Clamping: a result that is the end of the range the exact value is beyond, with vxsat.
LEMMA Saturates ==
  ASSUME NEW lo \in Int, NEW hi \in Int, lo <= hi, NEW e \in Int, NEW r,
         \/ e > hi /\ r = Saturated(Trunc(W, hi))
         \/ e < lo /\ r = Saturated(Trunc(W, lo))
         \/ e \in lo .. hi /\ r = Plain(Trunc(W, e))
  PROVE  ClampsTo(r, lo, hi, e)
<1>1. CASE e > hi /\ r = Saturated(Trunc(W, hi))
  <2>1. Clamp(lo, hi, e) = hi /\ e \notin lo .. hi
    BY <1>1, ClampCases
  <2>2. r.v = Trunc(W, hi) /\ r.sat = TRUE
    BY <1>1 DEF Saturated
  <2> QED BY <2>1, <2>2 DEF ClampsTo
<1>2. CASE e < lo /\ r = Saturated(Trunc(W, lo))
  <2>1. Clamp(lo, hi, e) = lo /\ e \notin lo .. hi
    BY <1>2, ClampCases
  <2>2. r.v = Trunc(W, lo) /\ r.sat = TRUE
    BY <1>2 DEF Saturated
  <2> QED BY <2>1, <2>2 DEF ClampsTo
<1>3. CASE e \in lo .. hi /\ r = Plain(Trunc(W, e))
  <2>1. Clamp(lo, hi, e) = e /\ e \in lo .. hi
    BY <1>3, ClampCases
  <2>2. r.v = Trunc(W, e) /\ r.sat = FALSE
    BY <1>3 DEF Plain
  <2> QED BY <2>1, <2>2 DEF ClampsTo
<1> QED BY <1>1, <1>2, <1>3

\* vnclip and vnclipu: the rounded number clamped, vxsat set exactly when it was.
LEMMA VnclipIsExact ==
  ASSUME NEW rm \in 0 .. 3, NEW n \in Int, NEW b \in Nat, NEW lo \in Int, NEW hi \in Int, lo <= hi
  PROVE  ClampsTo(VnclipHelper(W, rm, n, b, lo, hi), lo, hi, Rounded(rm, n, b % (2*W)))
<1> DEFINE w == 2*W  k == b % w  bits == KeptBits(w, n, k)
           r == Shr(n, k) + GetRoundingBit(rm, bits, k + 1)
<1>1. k \in 0 .. w - 1 /\ k \in 0 .. 2*W - 1 /\ w \in {W, 2*W}
  BY Widths
<1>2. VnclipHelper(W, rm, n, b, lo, hi) =
        IF r > hi THEN Saturated(Trunc(W, hi))
        ELSE IF r < lo THEN Saturated(Trunc(W, lo)) ELSE Plain(Trunc(W, r))
  BY DEF VnclipHelper, KeptBits
<1> HIDE DEF k, w
<1>3. SameLowBits(n, k, bits)
  BY <1>1, BitsKept
<1>4. PICK j \in Int : bits \in Int /\ bits = n + j * 2^(k + 1)
  BY <1>3 DEF SameLowBits
<1> HIDE DEF bits
<1>5. r = Rounded(rm, n, k) /\ r \in Int
  BY <1>1, <1>4, RoundingIsExact
<1> HIDE DEF r
<1> DEFINE v == VnclipHelper(W, rm, n, b, lo, hi)
<1>6. \/ r > hi /\ v = Saturated(Trunc(W, hi))
      \/ r < lo /\ v = Saturated(Trunc(W, lo))
      \/ r \in lo .. hi /\ v = Plain(Trunc(W, r))
  BY <1>2, <1>5
<1> HIDE DEF v
<1>7. ClampsTo(v, lo, hi, r)
  BY <1>5, <1>6, Saturates
<1> QED BY <1>5, <1>7 DEF v, k, w

\* vsaddu and vssubu tell overflow from the wrapped result alone, and rightly.
LEMMA UnsignedSaturating ==
  ASSUME NEW a \in Word(W), NEW b \in Word(W)
  PROVE  /\ ClampsTo(Vsaddu(W, a, b), 0, MaxU(W), a + b)
         /\ ClampsTo(Vssubu(W, a, b), 0, MaxU(W), a - b)
<1> DEFINE p == 2^W
<1>1. p \in Nat \ {0} /\ a \in 0 .. p-1 /\ b \in 0 .. p-1 /\ MaxU(W) = p - 1 /\ p - 1 \in Word(W) /\ 0 \in Word(W)
  BY Widths DEF TwosComplement, Word, MaxU
<1>2. Trunc(W, p - 1) = p - 1 /\ Trunc(W, 0) = 0
  <2> HIDE DEF p
  <2> QED BY <1>1, WordsAreNumbers
<1> DEFINE s == a + b  t == Trunc(W, s)  d == a - b
<1>3. (s <= p - 1 => t = s) /\ (s > p - 1 => t = s - p)
  <2> HIDE DEF p
  <2>1. s \in Int BY <1>1
  <2>2. s = 0 * p + s /\ s = 1 * p + (s - p) /\ 0 \in Int /\ 1 \in Int
    BY <1>1, <2>1
  <2>3. (s <= p - 1 => s \in 0 .. p-1) /\ (s > p - 1 => s - p \in 0 .. p-1)
    BY <1>1
  <2> HIDE DEF s
  <2>4. ASSUME s <= p - 1 PROVE t = s
    BY <1>1, <2>1, <2>2, <2>3, <2>4, TruncIs DEF p, Word
  <2>5. ASSUME s > p - 1 PROVE t = s - p
    BY <1>1, <2>1, <2>2, <2>3, <2>5, TruncIs DEF p, Word
  <2> QED BY <2>4, <2>5
<1>4. Vsaddu(W, a, b) = IF t < b THEN Saturated(p - 1) ELSE Plain(t)
  BY <1>1 DEF Vsaddu
<1>5. Vssubu(W, a, b) = IF a < b THEN Saturated(0) ELSE Plain(Trunc(W, d))
  BY DEF Vssubu
<1> DEFINE u == Vsaddu(W, a, b)  v == Vssubu(W, a, b)
<1>6. \/ s > p - 1 /\ u = Saturated(Trunc(W, p - 1))
      \/ s < 0 /\ u = Saturated(Trunc(W, 0))
      \/ s \in 0 .. p - 1 /\ u = Plain(t)
  <2> HIDE DEF p, t, u
  <2>1. t < b <=> s > p - 1
    BY <1>1, <1>3
  <2>2. s >= 0 /\ s \in Int
    BY <1>1
  <2> HIDE DEF s
  <2> QED BY <1>1, <1>2, <1>4, <2>1, <2>2 DEF u
<1>7. \/ d > p - 1 /\ v = Saturated(Trunc(W, p - 1))
      \/ d < 0 /\ v = Saturated(Trunc(W, 0))
      \/ d \in 0 .. p - 1 /\ v = Plain(Trunc(W, d))
  <2> HIDE DEF p, v
  <2>1. (a < b <=> d < 0) /\ d \in Int /\ d <= p - 1
    BY <1>1
  <2> HIDE DEF d
  <2> QED BY <1>1, <1>2, <1>5, <2>1 DEF v
<1>8. s \in Int /\ d \in Int /\ 0 <= p - 1 /\ p - 1 \in Int
  <2> HIDE DEF p
  <2> QED BY <1>1
<1> HIDE DEF u, v, s, d, p
<1>9. ClampsTo(u, 0, p - 1, s)
  BY <1>6, <1>8, Saturates
<1>10. ClampsTo(v, 0, p - 1, d)
  BY <1>7, <1>8, Saturates
<1> QED BY <1>1, <1>9, <1>10 DEF u, v, s, d

\* Overflow of a signed sum or difference, as the signs of exclusive ors tell it.
LEMMA SignedSaturating ==
  ASSUME NEW a \in Word(W), NEW b \in Word(W)
  PROVE  /\ ClampsTo(Vsadd(W, a, b), MinS(W), MaxS(W), Signed(W, a) + Signed(W, b))
         /\ ClampsTo(Vssub(W, a, b), MinS(W), MaxS(W), Signed(W, a) - Signed(W, b))
<1> DEFINE p == 2^W  h == 2^(W - 1)  x == Signed(W, a)  y == Signed(W, b)
           s == Trunc(W, a + b)  d == Trunc(W, a - b)
           z == x + y  e == x - y
<1>1. TwosComplement(W) /\ p \in Nat \ {0} /\ h \in Nat \ {0} /\ p = 2 * h /\ MinS(W) = -h /\ MaxS(W) = h - 1
  BY Widths DEF TwosComplement, MinS, MaxS
<1>2. a \in 0 .. p-1 /\ b \in 0 .. p-1 /\ a \in Int /\ b \in Int
  BY <1>1 DEF Word
<1>3. x \in -h .. h-1 /\ y \in -h .. h-1 /\ (x < 0 <=> a >= h) /\ (y < 0 <=> b >= h)
      /\ Trunc(W, x) = a /\ Trunc(W, y) = b
  <2>1. x \in -h .. h-1 /\ x = (IF a >= h THEN a - p ELSE a) /\ Trunc(W, x) = a
    BY <1>1, SignedWord
  <2>2. y \in -h .. h-1 /\ y = (IF b >= h THEN b - p ELSE b) /\ Trunc(W, y) = b
    BY <1>1, SignedWord
  <2> HIDE DEF x, y, p, h
  <2> QED BY <1>1, <1>2, <2>1, <2>2
<1> HIDE DEF x, y
<1>4. z \in Int /\ e \in Int /\ x \in Int /\ y \in Int
  <2> HIDE DEF h
  <2> QED BY <1>3
<1>5. s = Trunc(W, z) /\ d = Trunc(W, e) /\ s \in Word(W) /\ d \in Word(W)
  <2>1. Trunc(W, Trunc(W, x) + y) = Trunc(W, x + y) /\ Trunc(W, Trunc(W, x) - y) = Trunc(W, x - y)
    BY <1>4, TruncSums
  <2>2. Trunc(W, a + Trunc(W, y)) = Trunc(W, a + y) /\ Trunc(W, a - Trunc(W, y)) = Trunc(W, a - y)
    BY <1>2, <1>4, TruncSums
  <2> QED BY <1>3, <1>4, <2>1, <2>2, TwoWidths
<1>6. \A u, v \in Word(W) : S(W, u ^^ v) < 0 <=> ~(u >= h <=> v >= h)
  <2> SUFFICES ASSUME NEW u \in Word(W), NEW v \in Word(W)
               PROVE  S(W, u ^^ v) < 0 <=> ~(u >= h <=> v >= h)
    OBVIOUS
  <2> DEFINE g == u ^^ v
  <2>1. g \in Word(W) /\ (g >= h <=> ~(u >= h <=> v >= h))
    <3>1. W \in Nat \ {0} /\ Powers(W) /\ u \in 0 .. 2^W - 1 /\ v \in 0 .. 2^W - 1
      BY Widths DEF Word
    <3> QED BY <3>1, TopBitsDiffer DEF XorTop, Word
  <2> HIDE DEF g
  <2>2. Signed(W, g) = (IF g >= h THEN g - p ELSE g) /\ g \in 0 .. p-1
    BY <1>1, <2>1, SignedWord DEF Word
  <2> HIDE DEF p, h
  <2>3. Signed(W, g) < 0 <=> g >= h
    BY <1>1, <2>2
  <2> QED BY <2>1, <2>3 DEF S, g
<1>7. \A n \in -p .. p - 1 : Trunc(W, n) = n - (IF n < 0 THEN -p ELSE 0)
  <2> SUFFICES ASSUME NEW n \in -p .. p - 1 PROVE Trunc(W, n) = n - (IF n < 0 THEN -p ELSE 0)
    OBVIOUS
  <2> DEFINE r == n - (IF n < 0 THEN -p ELSE 0)
  <2> HIDE DEF p
  <2>1. r \in 0 .. p-1 /\ n \in Int /\ (n = 0 * p + r \/ n = (-1) * p + r)
    BY <1>1
  <2> HIDE DEF r
  <2>2. Trunc(W, n) = r
    <3>1. r \in Word(W) /\ 2^W \in Nat \ {0} /\ (n = 0 * 2^W + r \/ n = (-1) * 2^W + r) /\ 0 \in Int /\ -1 \in Int
      BY <1>1, <2>1 DEF p, Word
    <3> QED BY <2>1, <3>1, TruncIs
  <2> QED BY <2>2 DEF r
<1> HIDE DEF p, h
<1>8. z \in -p .. p - 1 /\ e \in -p .. p - 1
  BY <1>1, <1>3
<1>9. s = z - (IF z < 0 THEN -p ELSE 0) /\ d = e - (IF e < 0 THEN -p ELSE 0)
  BY <1>5, <1>7, <1>8
<1> DEFINE o == S(W, a ^^ b)  os == S(W, s ^^ a)  od == S(W, d ^^ b)
<1>10. /\ o < 0 <=> ~(a >= h <=> b >= h)
       /\ os < 0 <=> ~(s >= h <=> a >= h)
       /\ od < 0 <=> ~(d >= h <=> b >= h)
  <2> HIDE DEF s, d
  <2> QED BY <1>5, <1>6
<1>11. /\ (o >= 0 <=> ~(o < 0)) /\ (od >= 0 <=> ~(od < 0))
  <2>1. \A u, v \in Word(W) : (u ^^ v) \in Word(W)
    <3> SUFFICES ASSUME NEW u \in Word(W), NEW v \in Word(W) PROVE (u ^^ v) \in Word(W)
      OBVIOUS
    <3>1. W \in Nat \ {0} /\ Powers(W) /\ u \in 0 .. 2^W - 1 /\ v \in 0 .. 2^W - 1
      BY Widths DEF Word
    <3> QED BY <3>1, TopBitsDiffer DEF XorTop, Word
  <2> HIDE DEF s, d
  <2>2. (a ^^ b) \in Word(W) /\ (d ^^ b) \in Word(W)
    BY <1>5, <2>1
  <2>3. o \in Int /\ od \in Int
    BY <2>2, WordFacts DEF S
  <2> HIDE DEF o, od
  <2> QED BY <2>3
<1>12. Vsadd(W, a, b) =
         IF o >= 0 /\ os < 0 THEN Saturated(Trunc(W, IF x > 0 THEN MaxS(W) ELSE MinS(W))) ELSE Plain(s)
  BY DEF Vsadd, VsaddHelper, S, x
<1>13. Vssub(W, a, b) =
         IF o < 0 /\ od >= 0 THEN Saturated(Trunc(W, IF y < 0 THEN MaxS(W) ELSE MinS(W))) ELSE Plain(d)
  BY DEF Vssub, VssubHelper, S, y
<1> DEFINE u == Vsadd(W, a, b)  v == Vssub(W, a, b)
<1> HIDE DEF o, os, od, s, d, u, v
<1>14. \/ z > MaxS(W) /\ u = Saturated(Trunc(W, MaxS(W)))
       \/ z < MinS(W) /\ u = Saturated(Trunc(W, MinS(W)))
       \/ z \in MinS(W) .. MaxS(W) /\ u = Plain(Trunc(W, z))
  <2>1. CASE z > h - 1
    <3>1. x > 0 /\ o >= 0 /\ os < 0
      BY <1>1, <1>2, <1>3, <1>9, <1>10, <1>11, <2>1
    <3> QED BY <1>1, <1>12, <2>1, <3>1 DEF u
  <2>2. CASE z < -h
    <3>1. ~(x > 0) /\ o >= 0 /\ os < 0
      BY <1>1, <1>2, <1>3, <1>9, <1>10, <1>11, <2>2
    <3> QED BY <1>1, <1>12, <2>2, <3>1 DEF u
  <2>3. CASE z \in -h .. h - 1
    <3>1. ~(o >= 0 /\ os < 0)
      BY <1>1, <1>2, <1>3, <1>9, <1>10, <1>11, <2>3
    <3> QED BY <1>1, <1>5, <1>12, <2>3, <3>1 DEF u
  <2> QED BY <1>1, <1>4, <2>1, <2>2, <2>3
<1>15. \/ e > MaxS(W) /\ v = Saturated(Trunc(W, MaxS(W)))
       \/ e < MinS(W) /\ v = Saturated(Trunc(W, MinS(W)))
       \/ e \in MinS(W) .. MaxS(W) /\ v = Plain(Trunc(W, e))
  <2>1. CASE e > h - 1
    <3>1. y < 0 /\ o < 0 /\ od >= 0
      BY <1>1, <1>2, <1>3, <1>9, <1>10, <1>11, <2>1
    <3> QED BY <1>1, <1>13, <2>1, <3>1 DEF v
  <2>2. CASE e < -h
    <3>1. ~(y < 0) /\ o < 0 /\ od >= 0
      BY <1>1, <1>2, <1>3, <1>9, <1>10, <1>11, <2>2
    <3> QED BY <1>1, <1>13, <2>2, <3>1 DEF v
  <2>3. CASE e \in -h .. h - 1
    <3>1. ~(o < 0 /\ od >= 0)
      BY <1>1, <1>2, <1>3, <1>9, <1>10, <1>11, <2>3
    <3> QED BY <1>1, <1>5, <1>13, <2>3, <3>1 DEF v
  <2> QED BY <1>1, <1>4, <2>1, <2>2, <2>3
<1>16. MinS(W) \in Int /\ MaxS(W) \in Int /\ MinS(W) <= MaxS(W)
  BY <1>1
<1> HIDE DEF z, e
<1>17. ClampsTo(u, MinS(W), MaxS(W), z)
  BY <1>4, <1>14, <1>16, Saturates
<1>18. ClampsTo(v, MinS(W), MaxS(W), e)
  BY <1>4, <1>15, <1>16, Saturates
<1> QED BY <1>17, <1>18 DEF u, v, z, e, x, y

\* The product of two signed words is a number.
LEMMA SignedProduct ==
  ASSUME NEW a \in Word(W), NEW b \in Word(W)
  PROVE Signed(W, a) * Signed(W, b) \in Int
<1> DEFINE x == Signed(W, a)  y == Signed(W, b)
<1>1. x \in Int /\ y \in Int
  BY WordFacts
<1> HIDE DEF x, y
<1>2. x * y \in Int
  BY <1>1
<1> QED BY <1>2 DEF x, y

\* vsmul rounds the exact product and saturates it, at the one product that does not fit.
LEMMA VsmulIsExact ==
  ASSUME NEW rm \in 0 .. 3, NEW a \in Word(W), NEW b \in Word(W)
  PROVE  ClampsTo(Vsmul(W, rm, a, b), MinS(W), MaxS(W), Rounded(rm, Signed(W, a) * Signed(W, b), W - 1))
<1> DEFINE z == Signed(W, a) * Signed(W, b)  e == Rounded(rm, z, W - 1)  v == Vsmul(W, rm, a, b)
           r == VssrHelper(2*W, rm, z, W - 1)
<1>1. z \in Int
  BY SignedProduct
<1>2. v = IF r < MinS(W) THEN Saturated(Trunc(W, MinS(W)))
          ELSE IF r > MaxS(W) THEN Saturated(MaxS(W)) ELSE Plain(Trunc(W, r))
  BY DEF Vsmul, VsmulHelper
<1> HIDE DEF z
<1>3. W - 1 \in Nat /\ (W - 1) % (2*W) = W - 1 /\ 2*W \in {W, 2*W} /\ W - 1 \in 0 .. 2*W - 1
  BY Widths
<1>4. r = e
  <2>1. VssrHelper(2*W, rm, z, W - 1) = Rounded(rm, z, (W - 1) % (2*W))
    BY <1>1, <1>3, VssrIsExact
  <2> QED BY <1>3, <2>1
<1>5. e \in Int
  BY <1>1, <1>3, RoundedIsNumber
<1>6. MinS(W) \in Int /\ MaxS(W) \in Int /\ MinS(W) <= MaxS(W) /\ Trunc(W, MaxS(W)) = MaxS(W)
  <2>1. MaxS(W) \in Word(W)
    BY WordFacts
  <2>2. 2^(W - 1) \in Nat \ {0}
    BY Widths DEF TwosComplement
  <2> QED BY <2>1, <2>2, WordsAreNumbers DEF MinS, MaxS
<1> HIDE DEF r, e, v
<1>7. \/ e > MaxS(W) /\ v = Saturated(Trunc(W, MaxS(W)))
      \/ e < MinS(W) /\ v = Saturated(Trunc(W, MinS(W)))
      \/ e \in MinS(W) .. MaxS(W) /\ v = Plain(Trunc(W, e))
  BY <1>2, <1>4, <1>5, <1>6
<1>8. ClampsTo(v, MinS(W), MaxS(W), e)
  BY <1>5, <1>6, <1>7, Saturates
<1> QED BY <1>8 DEF v, e, z

\* A rounded quotient of a word is a word.
LEMMA RoundedWord ==
  ASSUME NEW rm \in 0 .. 3, NEW a \in Word(W), NEW k \in 0 .. W - 1
  PROVE  Rounded(rm, a, k) \in Word(W)
<1> DEFINE p == 2^W  h == 2^(W - 1)  d == 2^k  f == a \div d  R == Rounded(rm, a, k)
<1>1. p \in Nat \ {0} /\ h \in Nat \ {0} /\ p = 2 * h /\ a \in 0 .. p - 1 /\ k \in 0 .. 2*W - 1 /\ a \in Int
  BY Widths DEF TwosComplement, Word
<1>2. d \in Nat \ {0} /\ (k # 0 => 2^(k - 1) \in Nat \ {0} /\ d = 2 * 2^(k - 1))
  BY <1>1, PowersUp
<1>3. R \in {f, f + 1} /\ (k = 0 => R = a)
  BY <1>1, RoundedIsNumber
<1> HIDE DEF p, h, d, R
<1>4. f \in Int /\ d * f <= a /\ f >= 0
  <2>1. f \in Int /\ a % d \in 0 .. d - 1 /\ a = d * f + (a % d)
    BY <1>1, <1>2, DivMod
  <2> DEFINE e == a % d
  <2>2. e \in 0 .. d - 1 /\ a = d * f + e
    BY <2>1
  <2> HIDE DEF e, f
  <2>3. f >= 0
    <3> SUFFICES ASSUME f <= -1 PROVE FALSE
      BY <2>1
    <3>1. d * f <= d * (-1)
      BY <1>2, <2>1
    <3> DEFINE z == d * f
    <3>2. z \in Int /\ z <= -d /\ a = z + e
      BY <1>2, <2>1, <2>2, <3>1
    <3> HIDE DEF z
    <3> QED BY <1>1, <1>2, <2>2, <3>2
  <2>4. d * f \in Int
    BY <1>2, <2>1
  <2> QED BY <1>1, <2>1, <2>2, <2>3, <2>4
<1> HIDE DEF f
<1>5. CASE k = 0
  BY <1>3, <1>5 DEF R
<1>6. CASE k # 0
  <2>1. d >= 2
    BY <1>2, <1>6
  <2>2. 2 * f <= d * f
    BY <1>2, <1>4, <2>1
  <2>3. 2 * f <= a
    <3> DEFINE z == d * f
    <3>1. z \in Int /\ 2 * f <= z /\ z <= a
      BY <1>2, <1>4, <2>2
    <3> HIDE DEF z
    <3> QED BY <1>1, <1>4, <3>1
  <2>4. R \in 0 .. p - 1
    BY <1>1, <1>3, <1>4, <2>3
  <2> QED BY <2>4 DEF R, p, Word
<1> QED BY <1>5, <1>6

\* Fixed-point arithmetic is the exact result, rounded as vxrm says and clamped, and
\* vxsat is set exactly when the clamp changed it, in every reachable state and for
\* every width.
THEOREM FixedPointIsExact == Spec => []FixedPoint
<1>1. Types => FixedPoint
  <2> SUFFICES ASSUME Types PROVE FixedPoint
    OBVIOUS
  <2> DEFINE x == Signed(W, vs2)  y == Signed(W, vs1)  X == Wide(vd, vs2)  Z == Signed(2*W, X)
             k == vs1 % W  kk == vs1 % (2*W)
  <2>1. /\ vs2 \in Word(W) /\ vs1 \in Word(W) /\ vd \in Word(W) /\ X \in Word(2*W) /\ vxrm \in 0 .. 3
    BY WideWord DEF Types
  <2>2. /\ vs2 \in Int /\ vs1 \in Int /\ vs1 \in Nat /\ x \in Int /\ y \in Int /\ X \in Int /\ Z \in Int
        /\ MinS(W) \in Int /\ MaxS(W) \in Int /\ MaxU(W) \in Int
    BY <2>1, WordFacts, WordsAreNumbers, Widths, SignedWord
  <2>3. MinS(W) <= MaxS(W) /\ 0 <= MaxU(W)
    <3>1. 2^(W - 1) \in Nat \ {0} /\ 2^W \in Nat \ {0}
      BY Widths DEF TwosComplement
    <3> QED BY <3>1 DEF MinS, MaxS, MaxU
  <2>4. /\ ClampsTo(Vsaddu(W, vs2, vs1), 0, MaxU(W), vs2 + vs1)
        /\ ClampsTo(Vssubu(W, vs2, vs1), 0, MaxU(W), vs2 - vs1)
    BY <2>1, UnsignedSaturating
  <2>5. /\ ClampsTo(Vsadd(W, vs2, vs1), MinS(W), MaxS(W), x + y)
        /\ ClampsTo(Vssub(W, vs2, vs1), MinS(W), MaxS(W), x - y)
    BY <2>1, SignedSaturating
  <2>6. ClampsTo(Vsmul(W, vxrm, vs2, vs1), MinS(W), MaxS(W), Rounded(vxrm, x * y, W - 1))
    BY <2>1, VsmulIsExact
  <2> HIDE DEF x, y, X, Z
  <2>7. ClampsTo(VnclipHelper(W, vxrm, X, vs1, 0, MaxU(W)), 0, MaxU(W), Rounded(vxrm, X, kk))
    <3> DEFINE lo == 0  hi == MaxU(W)
    <3>1. lo \in Int /\ hi \in Int /\ lo <= hi
      BY <2>2, <2>3
    <3> HIDE DEF lo, hi
    <3>2. ClampsTo(VnclipHelper(W, vxrm, X, vs1, lo, hi), lo, hi, Rounded(vxrm, X, kk))
      BY <2>1, <2>2, <3>1, VnclipIsExact
    <3> QED BY <3>2 DEF lo, hi
  <2>8. ClampsTo(VnclipHelper(W, vxrm, Z, vs1, MinS(W), MaxS(W)), MinS(W), MaxS(W), Rounded(vxrm, Z, kk))
    BY <2>1, <2>2, <2>3, VnclipIsExact
  <2>9. VssrHelper(W, vxrm, vs2, vs1) = Rounded(vxrm, vs2, k) /\ VssrHelper(W, vxrm, x, vs1) = Rounded(vxrm, x, k)
    BY <2>1, <2>2, VssrIsExact
  <2>10. Trunc(W, Rounded(vxrm, vs2, k)) = Rounded(vxrm, vs2, k)
    <3>1. k \in 0 .. W - 1
      BY <2>2, Widths
    <3> HIDE DEF k
    <3>2. Rounded(vxrm, vs2, k) \in Word(W)
      BY <2>1, <3>1, RoundedWord
    <3> QED BY <3>2, WordsAreNumbers
  <2>11. \A n \in Int : RoundOff(vxrm, n, 1) = Rounded(vxrm, n, 1)
    BY <2>1, RoundOffIsExact
  <2>12. vs2 + vs1 \in Int /\ vs2 - vs1 \in Int /\ x + y \in Int /\ x - y \in Int
    BY <2>2
  <2>13. /\ Vaaddu(W, vxrm, vs2, vs1) = Trunc(W, Rounded(vxrm, vs2 + vs1, 1))
         /\ Vasubu(W, vxrm, vs2, vs1) = Trunc(W, Rounded(vxrm, vs2 - vs1, 1))
    BY <2>11, <2>12 DEF Vaaddu, Vasubu, VaaddHelper, VasubHelper
  <2>14. /\ Vaadd(W, vxrm, vs2, vs1) = Trunc(W, Rounded(vxrm, x + y, 1))
         /\ Vasub(W, vxrm, vs2, vs1) = Trunc(W, Rounded(vxrm, x - y, 1))
    BY <2>11, <2>12 DEF Vaadd, Vasub, VaaddHelper, VasubHelper, x, y
  <2>15. /\ Vssrl(W, vxrm, vs2, vs1) = Rounded(vxrm, vs2, k)
         /\ Vssra(W, vxrm, vs2, vs1) = Trunc(W, Rounded(vxrm, x, k))
    BY <2>9, <2>10 DEF Vssrl, Vssra, x
  <2>16. /\ ClampsTo(Vnclipu(W, vxrm, X, vs1), 0, MaxU(W), Rounded(vxrm, X, kk))
         /\ ClampsTo(Vnclip(W, vxrm, X, vs1), MinS(W), MaxS(W), Rounded(vxrm, Z, kk))
    BY <2>7, <2>8 DEF Vnclipu, Vnclip, Z
  <2> QED BY <2>4, <2>5, <2>6, <2>13, <2>14, <2>15, <2>16 DEF FixedPoint, S, x, y, X, Z
<1> QED BY <1>1, TypeCorrect, PTL

-----------------------------------------------------------------------------
(* Independent implementations agree.                                      *)

\* the width of RV64's ...w forms
HW == W \div 2

\* The widths that the agreeing forms are taken at.
LEMMA MoreWidths ==
  /\ HW \in Nat \ {0} /\ 2 * HW = W /\ TwosComplement(HW) /\ Powers(HW) /\ HW \in 0 .. W
  /\ 2^W = 2^HW * 2^HW /\ Powers(4 * W) /\ 4 * W \in Nat /\ W \in 4 .. 4 * W
  /\ BW \in Nat /\ BW \in 0 .. W /\ BW \div 2 \in Nat \ {0} /\ 2 * (BW \div 2) = BW /\ BW \div 2 \in 0 .. W
<1>1. W \in {4, 8, 16, 32, 64} /\ BW \in {2, 4, 8, 16, 32} /\ BW < W
  <2>1. 2^1 = 2 /\ 2^2 = 4 /\ 2^3 = 8 /\ 2^4 = 16 /\ 2^5 = 32 /\ 2^6 = 64
    OBVIOUS
  <2>2. PICK i \in 2 .. 6, j \in 1 .. 5 : W = 2^i /\ BW = 2^j
    BY WidthAssumption
  <2>3. i \in {2, 3, 4, 5, 6} /\ j \in {1, 2, 3, 4, 5}
    OBVIOUS
  <2> QED BY <2>1, <2>2, <2>3, WidthAssumption
<1>2. HW \in Nat \ {0} /\ 2 * HW = W /\ HW \in 0 .. W /\ HW - 1 \in Nat
  <2>1. 4 \div 2 = 2 /\ 8 \div 2 = 4 /\ 16 \div 2 = 8 /\ 32 \div 2 = 16 /\ 64 \div 2 = 32
    OBVIOUS
  <2> QED  BY <1>1, <2>1 DEF HW
<1>3. BW \in Nat /\ BW \in 0 .. W /\ BW \div 2 \in Nat \ {0} /\ 2 * (BW \div 2) = BW /\ BW \div 2 \in 0 .. W
  <2>1. 2 \div 2 = 1 /\ 4 \div 2 = 2 /\ 8 \div 2 = 4 /\ 16 \div 2 = 8 /\ 32 \div 2 = 16
    OBVIOUS
  <2> QED  BY <1>1, <2>1
<1>4. 4 * W \in Nat /\ W \in 4 .. 4 * W /\ W \in Nat
  BY <1>1
<1>5. Powers(4 * W) /\ Powers(HW)
  <2>1. \A k \in 0 .. 4*W - 1 : k \in 0 .. 4*W
    BY <1>4
  <2>2. \A k \in 0 .. HW - 1 : k \in 0 .. 4*W
    BY <1>2, <1>4
  <2> QED BY <2>1, <2>2, PowerAssumption DEF Powers
<1>6. 2^W = 2^HW * 2^HW
  <2>1. HW \in Nat /\ HW + HW = W /\ W <= 4 * W
    BY <1>2, <1>4
  <2>2. 2^(HW + HW) = 2^HW * 2^HW
    BY <2>1, <1>4, <1>5, PowersAdd
  <2> QED  BY <2>1, <2>2
<1>7. TwosComplement(HW)
  <2>1. HW \in 0 .. HW /\ HW - 1 \in 0 .. HW - 1 /\ HW - 1 \in 0 .. HW /\ (HW - 1) + 1 = HW /\ HW \in Nat
    BY <1>2
  <2>2. 2^((HW - 1) + 1) = 2 * 2^(HW - 1)
    BY <2>1, <1>5 DEF Powers
  <2>3. 2^HW \in Nat \ {0} /\ 2^(HW - 1) \in Nat \ {0}
    BY <2>1, <1>5, PowersPositive
  <2>4. 2^HW = 2 * 2^(HW - 1)
    BY <2>1, <2>2
  <2> QED  BY <2>3, <2>4 DEF TwosComplement
<1> QED  BY <1>2, <1>3, <1>4, <1>5, <1>6, <1>7

\* The two parts of a rotation have no bit in common: or and + put them together alike,
\* in either order, to a word.
LEMMA RotateParts ==
  ASSUME NEW w \in Nat \ {0}, Powers(w), NEW a \in Word(w), NEW k \in 1 .. w-1
  PROVE  /\ (Shl(w, a, k) | Shr(a, w - k)) = Shl(w, a, k) + Shr(a, w - k)
         /\ (Shr(a, w - k) | Shl(w, a, k)) = Shr(a, w - k) + Shl(w, a, k)
         /\ Shl(w, a, k) + Shr(a, w - k) \in Word(w)
<1> DEFINE p == 2^k  r == 2^(w - k)  c == a \div r  d == a % r
<1>1. k \in 0 .. w /\ w - k \in 0 .. w /\ (w - k) + k = w /\ k \in Nat /\ w - k \in Nat /\ w \in 0 .. w
  OBVIOUS
<1>2. p \in Nat \ {0} /\ r \in Nat \ {0} /\ 2^w = r * p /\ 2^w \in Nat \ {0}
  <2>1. 2^((w - k) + k) = r * p
    BY <1>1, PowersAdd
  <2> QED  BY <1>1, <2>1, PowersPositive
<1>3. a \in 0 .. r * p - 1 /\ a \in Nat
  BY <1>2 DEF Word
<1>4. c \in Int /\ d \in 0 .. r-1 /\ a = r * c + d
  <2>1. r \in Nat \ {0} /\ a \in Int
    BY <1>2, <1>3
  <2> HIDE DEF r
  <2> QED  BY <2>1, DivMod
<1> HIDE DEF p, r, c, d
<1>5. c \in 0 .. p-1
  <2>1. c >= 0
    <3> SUFFICES ASSUME c <= -1 PROVE FALSE
      BY <1>4
    <3>1. r * c <= -r /\ r * c \in Int
      BY <1>2, <1>4
    <3> QED  BY <3>1, <1>2, <1>3, <1>4
  <2>2. c < p
    <3> SUFFICES ASSUME c >= p PROVE FALSE
      BY <1>2, <1>4
    <3>1. r * c >= r * p /\ r * c \in Int /\ r * p \in Int
      BY <1>2, <1>4
    <3> QED  BY <3>1, <1>2, <1>3, <1>4
  <2> QED  BY <2>1, <2>2, <1>2, <1>4
<1>6. Shr(a, w - k) = c
  BY DEF Shr, c, r
<1>7. Shl(w, a, k) = d * p /\ d * p \in 0 .. r * p - p
  <2>1. a * p = c * (r * p) + d * p
    <3>1. (r * c + d) * p = c * (r * p) + d * p
      BY <1>2, <1>4
    <3> QED  BY <3>1, <1>4
  <2>2. d * p \in 0 .. r * p - p
    <3>1. d * p >= 0 /\ d * p <= (r - 1) * p /\ (r - 1) * p = r * p - p /\ d * p \in Int
      BY <1>2, <1>4
    <3> QED  BY <3>1, <1>2
  <2>3. d * p \in Word(w)
    BY <2>2, <1>2 DEF Word
  <2>4. a * p \in Int /\ a * p = c * 2^w + d * p
    <3>1. a * p \in Int
      BY <1>2, <1>3
    <3> QED  BY <2>1, <3>1, <1>2
  <2>5. Trunc(w, a * p) = d * p
    <3> DEFINE z == a * p  e == d * p
    <3>1. z \in Int /\ e \in Word(w) /\ z = c * 2^w + e
      BY <2>3, <2>4
    <3> HIDE DEF z, e
    <3>2. Trunc(w, z) = e
      BY <3>1, <1>2, <1>4, TruncIs
    <3> QED  BY <3>2 DEF z, e
  <2> QED  BY <2>2, <2>5 DEF Shl, p
<1>8. ((d * p + 0) & (0 * p + c)) = (d & 0) * p + (0 & c) /\ ((0 * p + c) & (d * p + 0)) = (0 & d) * p + (c & 0)
  <2>1. c \in Word(k) /\ 0 \in Word(k) /\ d \in Nat /\ 0 \in Nat
    BY <1>2, <1>4, <1>5 DEF Word, p
  <2> QED  BY <2>1, <1>1, AndParts DEF p
<1>9. (d & 0) = 0 /\ (0 & d) = 0 /\ (c & 0) = 0 /\ (0 & c) = 0
  <2>1. c \in Nat /\ d \in Nat
    BY <1>4, <1>5
  <2> QED  BY <2>1, AndBits
<1> DEFINE z == d * p
<1>10. z + 0 = z /\ 0 * p + c = c /\ 0 * p + 0 = 0 /\ z \in Int
  BY <1>2, <1>4, <1>5, <1>7
<1>11. (z & c) = 0 /\ (c & z) = 0
  BY <1>8, <1>9, <1>10
<1>12. z + c \in Word(w)
  BY <1>2, <1>5, <1>7 DEF Word
<1> QED  BY <1>5, <1>6, <1>7, <1>10, <1>11, <1>12 DEF |

\* What a rotation by nothing shifts.
LEMMA RotateNothing ==
  ASSUME NEW w \in Nat \ {0}, Powers(w), NEW a \in Word(w)
  PROVE  Shl(w, a, 0) = a /\ Shr(a, 0) = a /\ Shl(w, a, w) = 0 /\ Shr(a, w) = 0
<1> DEFINE p == 2^w
<1>1. p \in Nat \ {0} /\ a \in 0 .. p-1 /\ 2^0 = 1
  <2>1. w \in 0 .. w /\ 2^0 = 1
    OBVIOUS
  <2> QED  BY <2>1, PowersPositive DEF Word
<1> HIDE DEF p
<1>2. a % p = a /\ a \div p = 0 /\ a \div 1 = a /\ a * 1 = a
  BY <1>1
<1>3. (a * p) % p = 0
  <2> DEFINE z == a * p
  <2>1. z \in Int /\ z = a * p + 0 /\ 0 \in 0 .. p-1 /\ a \in Int
    BY <1>1
  <2> HIDE DEF z
  <2> QED  BY <2>1, <1>1, Unique DEF z
<1> QED  BY <1>1, <1>2, <1>3 DEF Shl, Shr, Trunc, p

\* The rotation with the shift by zero kept apart is the sum of the two parts.
LEMMA Rotations ==
  ASSUME NEW w \in Nat \ {0}, Powers(w), NEW a \in Word(w), NEW k \in 0 .. w-1
  PROVE  /\ (IF k = 0 THEN a ELSE Shl(w, a, k) | Shr(a, w - k)) = Shl(w, a, k) + Shr(a, w - k)
         /\ (IF k = 0 THEN a ELSE Shr(a, k) | Shl(w, a, w - k)) = Shr(a, k) + Shl(w, a, w - k)
         /\ Shl(w, a, k) + Shr(a, w - k) \in Word(w) /\ Shr(a, k) + Shl(w, a, w - k) \in Word(w)
<1>1. a \in Int
  <2>1. w \in 0 .. w
    OBVIOUS
  <2>2. 2^w \in Nat \ {0}
    BY <2>1, PowersPositive
  <2> QED  BY <2>2 DEF Word
<1>2. CASE k = 0
  <2>1. w - k = w
    BY <1>2
  <2> QED  BY <1>1, <1>2, <2>1, RotateNothing
<1>3. CASE k # 0
  <2>1. k \in 1 .. w-1 /\ w - k \in 1 .. w-1 /\ w - (w - k) = k
    BY <1>3
  <2>2. (Shl(w, a, k) | Shr(a, w - k)) = Shl(w, a, k) + Shr(a, w - k) /\ Shl(w, a, k) + Shr(a, w - k) \in Word(w)
    BY <2>1, RotateParts
  <2> DEFINE l == w - k
  <2>3. l \in 1 .. w-1 /\ w - l = k
    BY <2>1
  <2> HIDE DEF l
  <2>4. (Shr(a, w - l) | Shl(w, a, l)) = Shr(a, w - l) + Shl(w, a, l) /\ Shl(w, a, l) + Shr(a, w - l) \in Word(w)
    BY <2>3, RotateParts
  <2>5. Shr(a, w - l) \in Int /\ Shl(w, a, l) \in Int
    <3>1. l \in 0 .. w /\ w - l \in 0 .. w /\ w \in 0 .. w
      BY <2>3
    <3>2. 2^l \in Nat \ {0} /\ 2^(w - l) \in Nat \ {0} /\ 2^w \in Nat \ {0}
      BY <3>1, PowersPositive
    <3>3. a * 2^l \in Int
      BY <1>1, <3>2
    <3>4. Shr(a, w - l) \in Int /\ Trunc(w, a * 2^l) \in Word(w)
      BY <1>1, <3>2, <3>3, TruncWord
    <3> QED  BY <3>2, <3>4 DEF Shl, Word
  <2>6. Shr(a, w - l) + Shl(w, a, l) \in Word(w)
    BY <2>4, <2>5
  <2> QED  BY <1>3, <2>2, <2>3, <2>4, <2>6 DEF l
<1> QED  BY <1>2, <1>3

\* The scalar and the vector form of an operation compute the same.
LEMMA ScalarIsVector == Types => ScalarAndVector
<1> SUFFICES ASSUME Types PROVE ScalarAndVector
  OBVIOUS
<1> DEFINE x == Signed(W, vs2)  y == Signed(W, vs1)  p == 2^W
<1>0. /\ vs2 \in Word(W) /\ vs1 \in Word(W) /\ x \in Int /\ y \in Int /\ vs1 \in Nat /\ vs2 \in Nat
      /\ p \in Nat \ {0} /\ 2^(2 * W) = p * p /\ 2^(2 * W) \in Nat \ {0} /\ TwosComplement(W)
  BY Widths, WordFacts DEF Types, TwosComplement
<1>1. ASSUME NEW op \in IntegerOps, op \notin {"slt", "sltu"}
      PROVE  Rv32Integer(op, W, vs2, vs1) =
             CASE op = "add" -> Vadd(W, vs2, vs1) [] op = "sub" -> Vsub(W, vs2, vs1)
               [] op = "and" -> Vand(W, vs2, vs1) [] op = "or"  -> Vor(W, vs2, vs1)
               [] op = "xor" -> Vxor(W, vs2, vs1) [] op = "sll" -> Vsll(W, vs2, vs1)
               [] op = "srl" -> Vsrl(W, vs2, vs1) [] op = "sra" -> Vsra(W, vs2, vs1)
  <2>1. op \in {"add", "sub", "and", "or", "xor", "sll", "srl", "sra"}
    BY <1>1 DEF IntegerOps
  <2> QED  BY Zenon, <2>1 DEF Rv32Integer, Vadd, Vsub, Vand, Vor, Vxor, Vsll, Vsrl, Vsra
<1>2. Rv32M("mulh", W, vs2, vs1) = Vmulh(W, vs2, vs1) /\ Rv32M("mulhsu", W, vs2, vs1) = Vmulhsu(W, vs2, vs1)
  BY Zenon DEF Rv32M, Vmulh, Vmulhsu, VmulHighHelper, VmulHighSUHelper
<1>3. Rv64Mulhsu(W, vs2, vs1) = Vmulhsu(W, vs2, vs1)
  <2> DEFINE R == Abs(x) * vs1  Z == IF x < 0 THEN -R ELSE R
  <2>1. R \in Int /\ Z \in Int /\ Z = x * vs1
    BY <1>0 DEF Abs
  <2> HIDE DEF R, x
  <2>2. Trunc(2*W, -Trunc(2*W, R)) = Trunc(2*W, -R)
    <3>1. Trunc(2*W, 0 - Trunc(2*W, R)) = Trunc(2*W, 0 - R)
      BY <1>0, <2>1, TruncInner
    <3>2. Trunc(2*W, R) \in Int
      BY <1>0, <2>1, TruncWord DEF Word
    <3> QED  BY <2>1, <3>1, <3>2
  <2>3. Rv64Mulhsu(W, vs2, vs1) = Shr(Trunc(2*W, Z), W)
    BY <2>2 DEF Rv64Mulhsu, R, x
  <2>4. Shr(Trunc(2*W, Z), W) = Trunc(W, Shr(Z, W))
    <3> HIDE DEF Z, p
    <3>1. Z % (p * p) = ((Z \div p) % p) * p + (Z % p)
      BY <1>0, <2>1, NextDigit
    <3>2. Z \div p \in Int /\ Z % p \in 0 .. p-1
      BY <1>0, <2>1, DivMod
    <3> DEFINE e == Z \div p
    <3>0. e \in Int /\ p \in Nat \ {0}
      BY <1>0, <3>2
    <3> HIDE DEF e
    <3>3. e % p \in Int /\ e % p \in 0 .. p-1
      BY <3>0, DivMod
    <3> DEFINE a == (Z \div p) % p  b == Z % p  c == Z % (p * p)
    <3>4. a \in Int /\ b \in 0 .. p-1 /\ c = a * p + b
      BY <3>1, <3>2, <3>3 DEF e
    <3> HIDE DEF a, b, c
    <3>5. c \in Int
      BY <3>4, <1>0
    <3>6. c \div p = a
      BY <1>0, <3>4, <3>5, Unique
    <3> QED  BY <1>0, <3>6 DEF Trunc, Shr, a, c, p
  <2> QED  BY <2>1, <2>3, <2>4 DEF Vmulhsu, VmulHighSUHelper, x
<1>4. MaxU(W) = Trunc(W, -1) /\ MaxU(W) = Inv(W, 0)
  <2>1. -1 = (-1) * p + (p - 1) /\ p - 1 \in Word(W) /\ -1 \in Int
    BY <1>0 DEF Word
  <2>2. Trunc(W, -1) = p - 1
    <3> HIDE DEF p
    <3> QED  BY <1>0, <2>1, TruncIs DEF p
  <2> QED  BY <2>2, <1>0 DEF MaxU, Inv
<1>5. Rv32M("divu", W, vs2, vs1) = Vdivu(W, vs2, vs1) /\ Rv32M("remu", W, vs2, vs1) = Vremu(W, vs2, vs1)
  <2>1. Rv32M("divu", W, vs2, vs1) = IF vs1 = 0 THEN MaxU(W) ELSE vs2 \div vs1
    BY Zenon DEF Rv32M
  <2>2. Rv32M("remu", W, vs2, vs1) = IF vs1 = 0 THEN vs2 ELSE vs2 % vs1
    BY Zenon DEF Rv32M
  <2> QED  BY <1>4, <2>1, <2>2 DEF Vdivu, Vremu
<1> DEFINE over == y = -1 /\ x = MinS(W)
<1>6. over => Trunc(W, MinS(W)) = vs2
  BY <1>0, SignedWord
<1>8. Rv32M("div", W, vs2, vs1) = Vdiv(W, vs2, vs1)
  <2>1. Rv32M("div", W, vs2, vs1) = IF vs1 = 0 THEN MaxU(W)
                                    ELSE IF over THEN vs2 ELSE Trunc(W, TQuot(x, y))
    BY Zenon DEF Rv32M
  <2>2. Vdiv(W, vs2, vs1) = IF vs1 = 0 THEN Trunc(W, -1)
                            ELSE IF over THEN Trunc(W, MinS(W)) ELSE Trunc(W, TQuot(x, y))
    BY DEF Vdiv
  <2> HIDE DEF over, x, y
  <2> QED  BY <2>1, <2>2, <1>4, <1>6
<1>9. VremDefined(W, vs2, vs1) => Rv32M("rem", W, vs2, vs1) = Vrem(W, vs2, vs1)
  <2>1. Rv32M("rem", W, vs2, vs1) = IF vs1 = 0 THEN vs2
                                    ELSE IF over THEN 0 ELSE Trunc(W, TRem(x, y))
    BY Zenon DEF Rv32M
  <2>2. Vrem(W, vs2, vs1) = IF vs1 = 0 THEN vs2 ELSE Trunc(W, TRem(x, y))
    BY DEF Vrem
  <2>3. VremDefined(W, vs2, vs1) => ~over
    BY DEF VremDefined
  <2> HIDE DEF over, x, y
  <2> QED  BY <2>1, <2>2, <2>3
<1>10. Rv32Logic("andn", W, vs2, vs1) = Vandn(W, vs2, vs1)
  BY Zenon DEF Rv32Logic, Vandn
<1>11. Vrol(W, vs2, vs1) = Rv32Rotate("rol", W, vs2, vs1)
  <2> DEFINE k == vs1 % W
  <2>1. k \in 0 .. W-1 /\ W \in Nat \ {0} /\ Powers(W)
    BY <1>0, Widths
  <2>2. Rv32Rotate("rol", W, vs2, vs1) = IF k = 0 THEN vs2 ELSE Shl(W, vs2, k) | Shr(vs2, W - k)
    BY DEF Rv32Rotate
  <2>3. Vrol(W, vs2, vs1) = Shl(W, vs2, k) + Shr(vs2, W - k)
    BY DEF Vrol, Rotl
  <2> HIDE DEF k
  <2> QED  BY <1>0, <2>1, <2>2, <2>3, Rotations
<1>12. /\ Vclz(W, vs2) = Rv32Count("clz", W, vs2) /\ Vctz(W, vs2) = Rv32Count("ctz", W, vs2)
       /\ Vrev8(W, BW, vs2) = Rv32ByteOp("rev8", W, BW, vs2)
  <2>1. Vclz(W, vs2) = Rv32Count("clz", W, vs2) /\ Vctz(W, vs2) = Rv32Count("ctz", W, vs2)
    BY Zenon DEF Rv32Count, Vclz, Vctz
  <2>2. Vrev8(W, BW, vs2) = Rv32ByteOp("rev8", W, BW, vs2)
    BY Zenon DEF Vrev8, ByteSwap, Byte, Rv32ByteOp
  <2> QED  BY <2>1, <2>2
<1> QED  BY <1>1, <1>2, <1>3, <1>5, <1>8, <1>9, <1>10, <1>11, <1>12 DEF ScalarAndVector

\* The low word of a register, its signed view, and what sign extension does to it.
LEMMA LowWord ==
  ASSUME NEW a \in Word(W)
  PROVE  /\ a % 2^HW \in Word(HW) /\ a % 2^HW \in Nat /\ Signed(HW, a % 2^HW) \in Int
         /\ Signed(HW, a % 2^HW) \in MinS(HW) .. MaxS(HW)
<1> DEFINE p == 2^HW  x == a % p
<1>1. p \in Nat \ {0} /\ a \in Int
  BY MoreWidths, WordFacts DEF TwosComplement
<1>2. x \in 0 .. p-1
  <2> HIDE DEF p
  <2> QED  BY <1>1
<1>3. x \in Word(HW) /\ x \in Nat
  BY <1>2 DEF Word
<1> HIDE DEF x
<1>4. Signed(HW, x) \in Int /\ Signed(HW, x) \in MinS(HW) .. MaxS(HW)
  BY <1>3, MoreWidths, SignedWord
<1> QED  BY <1>3, <1>4 DEF x

\* An arithmetic shift right stays in the signed range.
LEMMA SignedShift ==
  ASSUME NEW z \in MinS(HW) .. MaxS(HW), NEW k \in 0 .. HW
  PROVE  Shr(z, k) \in MinS(HW) .. MaxS(HW)
<1> DEFINE p == 2^k  H == 2^(HW - 1)  q == z \div p
<1>1. p \in Nat \ {0} /\ H \in Nat \ {0} /\ z \in -H .. H - 1
  <2>1. p \in Nat \ {0}
    BY MoreWidths, PowersPositive
  <2> QED  BY <2>1, MoreWidths DEF TwosComplement, MinS, MaxS
<1> HIDE DEF p, H
<1>2. q \in Int /\ z % p \in 0 .. p-1 /\ z = p * q + (z % p)
  BY <1>1, DivMod
<1> DEFINE r == z % p
<1>3. q \in Int /\ r \in 0 .. p-1 /\ z = p * q + r
  BY <1>2
<1> HIDE DEF q, r
<1>4. q >= -H
  <2> SUFFICES ASSUME q <= -H - 1 PROVE FALSE
    BY <1>1, <1>3
  <2>1. p * q <= p * (-H - 1) /\ p * q \in Int
    BY <1>1, <1>3
  <2>2. p * (-H - 1) = -(p * H) - p /\ p * H \in Int /\ p * H >= H
    BY <1>1
  <2> QED  BY <2>1, <2>2, <1>1, <1>3
<1>5. q <= H - 1
  <2> SUFFICES ASSUME q >= H PROVE FALSE
    BY <1>1, <1>3
  <2>1. p * q >= p * H /\ p * q \in Int /\ p * H \in Int /\ p * H >= H
    BY <1>1, <1>3
  <2> QED  BY <2>1, <1>1, <1>3
<1> QED  BY <1>1, <1>3, <1>4, <1>5 DEF Shr, MinS, MaxS, H, p, q

\* The ...w forms are the RV32 instruction on the low words, sign extended.
LEMMA WordFormsHold == Types => WordForms
<1> SUFFICES ASSUME Types PROVE WordForms
  OBVIOUS
<1> DEFINE a == vs2 % 2^HW  b == vs1 % 2^HW
<1>0. /\ a \in Word(HW) /\ a \in Nat /\ b \in Word(HW) /\ b \in Nat /\ 2 * HW = W /\ HW \in Nat \ {0}
      /\ Signed(HW, a) \in Int /\ Signed(HW, b) \in Int /\ Signed(HW, a) \in MinS(HW) .. MaxS(HW)
      /\ TwosComplement(HW)
  BY LowWord, MoreWidths DEF Types
<1>1. Rv64Integer("addw", HW, vs2, vs1) = Sext(HW, W, Rv32Integer("add", HW, a, b))
  <2>1. Rv64IntegerW("addw", HW, vs2, vs1) = Sext(HW, 2 * HW, Trunc(HW, a + b))
    BY Zenon DEF Rv64IntegerW
  <2>2. Rv32Integer("add", HW, a, b) = Trunc(HW, a + b)
    BY Zenon DEF Rv32Integer
  <2> QED  BY <2>1, <2>2, <1>0 DEF Rv64Integer, IntegerWOps
<1>2. Rv64Integer("subw", HW, vs2, vs1) = Sext(HW, W, Rv32Integer("sub", HW, a, b))
  <2>1. Rv64IntegerW("subw", HW, vs2, vs1) = Sext(HW, 2 * HW, Trunc(HW, a - b))
    BY Zenon DEF Rv64IntegerW
  <2>2. Rv32Integer("sub", HW, a, b) = Trunc(HW, a - b)
    BY Zenon DEF Rv32Integer
  <2> QED  BY <2>1, <2>2, <1>0 DEF Rv64Integer, IntegerWOps
<1>3. Rv64Integer("sllw", HW, vs2, vs1) = Sext(HW, W, Rv32Integer("sll", HW, a, b))
  <2>1. Rv64IntegerW("sllw", HW, vs2, vs1) = Sext(HW, 2 * HW, Shl(HW, a, b % HW))
    BY Zenon DEF Rv64IntegerW
  <2>2. Rv32Integer("sll", HW, a, b) = Shl(HW, a, b % HW)
    BY Zenon DEF Rv32Integer
  <2> QED  BY <2>1, <2>2, <1>0 DEF Rv64Integer, IntegerWOps
<1>4. Rv64Integer("srlw", HW, vs2, vs1) = Sext(HW, W, Rv32Integer("srl", HW, a, b))
  <2>1. Rv64IntegerW("srlw", HW, vs2, vs1) = Sext(HW, 2 * HW, Shr(a, b % HW))
    BY Zenon DEF Rv64IntegerW
  <2>2. Rv32Integer("srl", HW, a, b) = Shr(a, b % HW)
    BY Zenon DEF Rv32Integer
  <2> QED  BY <2>1, <2>2, <1>0 DEF Rv64Integer, IntegerWOps
<1>5. Rv64Integer("sraw", HW, vs2, vs1) = Sext(HW, W, Rv32Integer("sra", HW, a, b))
  <2> DEFINE z == Shr(Signed(HW, a), b % HW)
  <2>1. Rv64IntegerW("sraw", HW, vs2, vs1) = Trunc(2 * HW, z)
    BY Zenon DEF Rv64IntegerW
  <2>2. Rv32Integer("sra", HW, a, b) = Trunc(HW, z)
    BY Zenon DEF Rv32Integer
  <2>3. b % HW \in 0 .. HW
    BY <1>0
  <2>4. z \in MinS(HW) .. MaxS(HW)
    BY <1>0, <2>3, SignedShift
  <2> HIDE DEF z
  <2>5. Signed(HW, Trunc(HW, z)) = z
    BY <1>0, <2>4, SignedTrunc
  <2> QED  BY <2>1, <2>2, <2>5, <1>0 DEF Rv64Integer, IntegerWOps, Sext
<1>6. Sext(HW, W, MaxU(HW)) = MaxU(W)
  <2> DEFINE p == 2^HW  N == 2^W
  <2>1. p \in Nat \ {0} /\ N \in Nat \ {0} /\ p >= 2 /\ 2^(HW - 1) \in Nat /\ 2^(HW - 1) <= p - 1
    BY MoreWidths, Widths DEF TwosComplement
  <2>2. Signed(HW, MaxU(HW)) = -1
    BY <2>1 DEF Signed, MaxU
  <2>3. -1 = (-1) * N + (N - 1) /\ N - 1 \in Word(W) /\ -1 \in Int
    BY <2>1 DEF Word
  <2>4. Trunc(W, -1) = N - 1
    <3> HIDE DEF N
    <3> QED  BY <2>1, <2>3, TruncIs DEF N
  <2> QED  BY <2>2, <2>4 DEF Sext, MaxU
<1>7. Rv64M("mulw", HW, vs2, vs1) = Sext(HW, W, Rv32M("mul", HW, a, b))
  <2>1. Rv64MW("mulw", HW, vs2, vs1) = Sext(HW, 2 * HW, Trunc(HW, Signed(HW, a) * Signed(HW, b)))
    BY Zenon DEF Rv64MW
  <2>2. Rv32M("mul", HW, a, b) = Trunc(HW, Signed(HW, a) * Signed(HW, b))
    BY Zenon DEF Rv32M
  <2> QED  BY <2>1, <2>2, <1>0 DEF Rv64M, MWOps
<1>8. Rv64M("divw", HW, vs2, vs1) = Sext(HW, W, Rv32M("div", HW, a, b))
  <2>1. Rv64MW("divw", HW, vs2, vs1) = IF b = 0 THEN MaxU(2 * HW) ELSE Sext(HW, 2 * HW, Rv32M("div", HW, a, b))
    BY Zenon DEF Rv64MW
  <2>2. b = 0 => Rv32M("div", HW, a, b) = MaxU(HW)
    BY Zenon DEF Rv32M
  <2> QED  BY <2>1, <2>2, <1>0, <1>6 DEF Rv64M, MWOps
<1>9. Rv64M("divuw", HW, vs2, vs1) = Sext(HW, W, Rv32M("divu", HW, a, b))
  <2>1. Rv64MW("divuw", HW, vs2, vs1) = IF b = 0 THEN MaxU(2 * HW) ELSE Sext(HW, 2 * HW, a \div b)
    BY Zenon DEF Rv64MW
  <2>2. Rv32M("divu", HW, a, b) = IF b = 0 THEN MaxU(HW) ELSE a \div b
    BY Zenon DEF Rv32M
  <2> QED  BY <2>1, <2>2, <1>0, <1>6 DEF Rv64M, MWOps
<1>10. Rv64M("remw", HW, vs2, vs1) = Sext(HW, W, Rv32M("rem", HW, a, b))
  <2>1. Rv64MW("remw", HW, vs2, vs1) = Sext(HW, 2 * HW, Rv32M("rem", HW, a, b))
    BY Zenon DEF Rv64MW
  <2> QED  BY <2>1, <1>0 DEF Rv64M, MWOps
<1>11. Rv64M("remuw", HW, vs2, vs1) = Sext(HW, W, Rv32M("remu", HW, a, b))
  <2>1. Rv64MW("remuw", HW, vs2, vs1) = Sext(HW, 2 * HW, IF b = 0 THEN a ELSE a % b)
    BY Zenon DEF Rv64MW
  <2>2. Rv32M("remu", HW, a, b) = IF b = 0 THEN a ELSE a % b
    BY Zenon DEF Rv32M
  <2> QED  BY <2>1, <2>2, <1>0 DEF Rv64M, MWOps
<1> DEFINE plain(p) == Rv64Integer(p[1], HW, vs2, vs1) = Sext(HW, W, Rv32Integer(p[2], HW, a, b))
           times(p) == Rv64M(p[1], HW, vs2, vs1) = Sext(HW, W, Rv32M(p[2], HW, a, b))
<1>12. \A p \in {<<"addw", "add">>, <<"subw", "sub">>, <<"sllw", "sll">>, <<"srlw", "srl">>, <<"sraw", "sra">>} : plain(p)
  BY <1>1, <1>2, <1>3, <1>4, <1>5
<1>13. \A p \in {<<"mulw", "mul">>, <<"divw", "div">>, <<"divuw", "divu">>, <<"remw", "rem">>, <<"remuw", "remu">>} : times(p)
  BY <1>7, <1>8, <1>9, <1>10, <1>11
<1> QED  BY <1>12, <1>13 DEF WordForms, HW

\* An exclusive or with the inverse is the inverse of the exclusive or.
LEMMA XorInverse ==
  ASSUME NEW n \in Nat, Powers(n), NEW x \in Word(n), NEW y \in Word(n)
  PROVE  (x ^^ Inv(n, y)) = Inv(n, x ^^ y)
<1>1. Inv(n, y) \in Word(n) /\ (x ^^ y) \in Word(n)
  BY InvBits, WordBits
<1>2. (x ^^ Inv(n, y)) \in Word(n) /\ Inv(n, x ^^ y) \in Word(n)
  BY <1>1, InvBits, WordBits
<1>3. ASSUME NEW j \in 0 .. n-1 PROVE Bit(x ^^ Inv(n, y), j) = Bit(Inv(n, x ^^ y), j)
  <2>1. BitByBit(x, y, j) /\ BitByBit(x, Inv(n, y), j)
    BY <1>1, WordBits
  <2>2. Bit(Inv(n, y), j) = 1 - Bit(y, j) /\ Bit(Inv(n, x ^^ y), j) = 1 - Bit(x ^^ y, j)
    BY <1>1, InvBits
  <2> QED  BY <2>1, <2>2 DEF BitByBit
<1> QED  BY <1>2, <1>3, SameBits

\* Words with one signed view are one word.
LEMMA SameSigned ==
  ASSUME NEW w, TwosComplement(w), NEW x \in Word(w), NEW y \in Word(w), Signed(w, x) = Signed(w, y)
  PROVE  x = y
<1>1. Trunc(w, Signed(w, x)) = x /\ Trunc(w, Signed(w, y)) = y
  BY SignedWord
<1> QED  BY <1>1

\* The logic operations, minima and maxima of the two files.
LEMMA LogicAndOrder ==
  ASSUME Types
  PROVE  /\ \A op \in {"andn", "orn", "xnor"} : BLogic(op, HW, vs2, vs1) = Rv64Logic(op, HW, vs2, vs1)
         /\ \A op \in {"max", "maxu", "min", "minu"} : BMinMax(op, HW, vs2, vs1) = Rv64MinMax(op, HW, vs2, vs1)
<1>0. 2 * HW = W /\ vs2 \in Word(W) /\ vs1 \in Word(W) /\ W \in Nat /\ Powers(W) /\ TwosComplement(W)
  BY MoreWidths, Widths DEF Types
<1>1. BLogic("andn", HW, vs2, vs1) = Rv64Logic("andn", HW, vs2, vs1)
      /\ BLogic("orn", HW, vs2, vs1) = Rv64Logic("orn", HW, vs2, vs1)
  BY Zenon DEF BLogic, Rv64Logic, Rv32Logic
<1>2. BLogic("xnor", HW, vs2, vs1) = Rv64Logic("xnor", HW, vs2, vs1)
  <2>1. BLogic("xnor", HW, vs2, vs1) = (vs2 ^^ Inv(2 * HW, vs1))
    BY Zenon DEF BLogic
  <2>2. Rv64Logic("xnor", HW, vs2, vs1) = Inv(2 * HW, vs2 ^^ vs1)
    BY Zenon DEF Rv64Logic, Rv32Logic
  <2> QED  BY <1>0, <2>1, <2>2, XorInverse
<1>3. BMinMax("maxu", HW, vs2, vs1) = Rv64MinMax("maxu", HW, vs2, vs1)
      /\ BMinMax("minu", HW, vs2, vs1) = Rv64MinMax("minu", HW, vs2, vs1)
  BY Zenon DEF BMinMax, Rv64MinMax, Rv32MinMax
<1> DEFINE x == Signed(2 * HW, vs2)  y == Signed(2 * HW, vs1)
<1>4. x \in Int /\ y \in Int /\ (x = y => vs2 = vs1)
  BY <1>0, SignedWord, SameSigned
<1>5. BMinMax("max", HW, vs2, vs1) = Rv64MinMax("max", HW, vs2, vs1)
  <2>1. BMinMax("max", HW, vs2, vs1) = IF x < y THEN vs1 ELSE vs2
    BY Zenon DEF BMinMax
  <2>2. Rv64MinMax("max", HW, vs2, vs1) = IF x > y THEN vs2 ELSE vs1
    BY Zenon DEF Rv64MinMax, Rv32MinMax
  <2> HIDE DEF x, y
  <2> QED  BY <1>4, <2>1, <2>2
<1>6. BMinMax("min", HW, vs2, vs1) = Rv64MinMax("min", HW, vs2, vs1)
  <2>1. BMinMax("min", HW, vs2, vs1) = IF y < x THEN vs1 ELSE vs2
    BY Zenon DEF BMinMax
  <2>2. Rv64MinMax("min", HW, vs2, vs1) = IF x < y THEN vs2 ELSE vs1
    BY Zenon DEF Rv64MinMax, Rv32MinMax
  <2> HIDE DEF x, y
  <2> QED  BY <1>4, <2>1, <2>2
<1> QED  BY <1>1, <1>2, <1>3, <1>5, <1>6

\* The rotations of the two files, of registers and of low words.
LEMMA RotationsAgree ==
  ASSUME Types
  PROVE  \A op \in {"rol", "ror", "rolw", "rorw"} : BRotate(op, HW, vs2, vs1) = Rv64Rotate(op, HW, vs2, vs1)
<1> DEFINE x == vs2 % 2^HW  k == vs1 % (2 * HW)  l == vs1 % HW  V == 2 * HW
<1>0. /\ V = W /\ vs2 \in Word(V) /\ V \in Nat \ {0} /\ Powers(V) /\ k \in 0 .. V-1
      /\ HW \in Nat \ {0} /\ Powers(HW) /\ x \in Word(HW) /\ l \in 0 .. HW-1
  <2>1. V = W /\ vs2 \in Word(W) /\ W \in Nat \ {0} /\ Powers(W) /\ HW \in Nat \ {0} /\ Powers(HW) /\ x \in Word(HW)
        /\ vs1 \in Nat
    BY MoreWidths, Widths, LowWord, WordFacts DEF Types
  <2> HIDE DEF V
  <2>2. vs1 % V \in 0 .. V-1 /\ l \in 0 .. HW-1
    BY <2>1
  <2> QED  BY <2>1, <2>2 DEF V
<1>1. BRotate("rol", HW, vs2, vs1) = Shl(V, vs2, k) + Shr(vs2, V - k)
      /\ BRotate("ror", HW, vs2, vs1) = Shr(vs2, k) + Shl(V, vs2, V - k)
  BY Zenon DEF BRotate
<1>2. BRotate("rolw", HW, vs2, vs1) = Sext(HW, V, Trunc(HW, Shl(HW, x, l) + Shr(x, HW - l)))
      /\ BRotate("rorw", HW, vs2, vs1) = Sext(HW, V, Trunc(HW, Shr(x, l) + Shl(HW, x, HW - l)))
  BY Zenon DEF BRotate
<1>3. Rv64Rotate("rol", HW, vs2, vs1) = (IF k = 0 THEN vs2 ELSE Shl(V, vs2, k) | Shr(vs2, V - k))
  BY Zenon DEF Rv64Rotate, Rv32Rotate
<1>4. Rv64Rotate("ror", HW, vs2, vs1) = (IF k = 0 THEN vs2 ELSE Shr(vs2, k) | Shl(V, vs2, V - k))
  <2>1. "ror" # "rol" /\ "ror" # "rolw" /\ "ror" # "rorw"
    OBVIOUS
  <2> QED  BY Zenon, <2>1 DEF Rv64Rotate, Rv32Rotate
<1>5. Rv64Rotate("rolw", HW, vs2, vs1) = Sext(HW, V, IF l = 0 THEN x ELSE Shl(HW, x, l) | Shr(x, HW - l))
  BY Zenon DEF Rv64Rotate
<1>6. Rv64Rotate("rorw", HW, vs2, vs1) = Sext(HW, V, IF l = 0 THEN x ELSE Shr(x, l) | Shl(HW, x, HW - l))
  BY Zenon DEF Rv64Rotate
<1> HIDE DEF x, k, l, V
<1>7. /\ (IF k = 0 THEN vs2 ELSE Shl(V, vs2, k) | Shr(vs2, V - k)) = Shl(V, vs2, k) + Shr(vs2, V - k)
      /\ (IF k = 0 THEN vs2 ELSE Shr(vs2, k) | Shl(V, vs2, V - k)) = Shr(vs2, k) + Shl(V, vs2, V - k)
  BY <1>0, Rotations
<1>8. /\ (IF l = 0 THEN x ELSE Shl(HW, x, l) | Shr(x, HW - l)) = Shl(HW, x, l) + Shr(x, HW - l)
      /\ (IF l = 0 THEN x ELSE Shr(x, l) | Shl(HW, x, HW - l)) = Shr(x, l) + Shl(HW, x, HW - l)
      /\ Shl(HW, x, l) + Shr(x, HW - l) \in Word(HW) /\ Shr(x, l) + Shl(HW, x, HW - l) \in Word(HW)
  BY <1>0, Rotations
<1>9. \A z \in Word(HW) : Trunc(HW, z) = z
  BY MoreWidths, SignedWord
<1> QED  BY <1>1, <1>2, <1>3, <1>4, <1>5, <1>6, <1>7, <1>8, <1>9

\* The counts of the two files; a word count leaves nothing of a clear register.
LEMMA CountsAgree ==
  ASSUME Types
  PROVE  /\ \A op \in {"clz", "clzw", "ctz", "ctzw", "cpop", "cpopw"} : BCount(op, HW, vs2) = Rv64Count(op, HW, vs2)
         /\ vd < 2^HW => Rv64CpopwInto(HW, vd, vs2) = BCount("cpopw", HW, vs2)
<1>1. BCount("clzw", HW, vs2) = Rv64Count("clzw", HW, vs2) /\ BCount("ctzw", HW, vs2) = Rv64Count("ctzw", HW, vs2)
      /\ BCount("cpopw", HW, vs2) = Rv64Count("cpopw", HW, vs2)
  BY Zenon DEF BCount, Rv64Count
<1>2. Rv64Count("clz", HW, vs2) = Rv32Count("clz", 2 * HW, vs2) /\ Rv64Count("ctz", HW, vs2) = Rv32Count("ctz", 2 * HW, vs2)
      /\ Rv64Count("cpop", HW, vs2) = Rv32Count("cpop", 2 * HW, vs2)
  BY Zenon DEF Rv64Count
<1>3. BCount("clz", HW, vs2) = Rv32Count("clz", 2 * HW, vs2) /\ BCount("ctz", HW, vs2) = Rv32Count("ctz", 2 * HW, vs2)
      /\ BCount("cpop", HW, vs2) = Rv32Count("cpop", 2 * HW, vs2)
  BY Zenon DEF BCount, Rv32Count
<1>4. ASSUME vd < 2^HW PROVE Rv64CpopwInto(HW, vd, vs2) = Rv64Count("cpopw", HW, vs2)
  <2> DEFINE set == {i \in 0 .. HW-1 : Bit(vs2 % 2^HW, i) = 1}  v == Cardinality(set)  p == 2^HW
  <2>1. Rv64Count("cpopw", HW, vs2) = v
    BY Zenon DEF Rv64Count
  <2>2. v \in Nat
    <3>1. HW \in Nat
      BY MoreWidths
    <3>2. IsFiniteSet(0 .. HW-1) /\ set \subseteq 0 .. HW-1
      BY <3>1, FS_Interval
    <3> QED  BY <3>2, FS_Subset, FS_CardinalityType
  <2>3. p \in Nat \ {0} /\ vd \in 0 .. p-1
    BY <1>4, WordFacts, MoreWidths DEF Types, TwosComplement
  <2> HIDE DEF v, p
  <2>4. vd % p = vd
    BY <2>3
  <2>5. Rv64CpopwInto(HW, vd, vs2) = vd - (vd % p) + v
    BY <2>1 DEF Rv64CpopwInto, RiscVUnaryOp, p
  <2> QED  BY <2>1, <2>2, <2>3, <2>4, <2>5
<1> QED  BY <1>1, <1>2, <1>3, <1>4

\* Testing the sign bit and or'ing in the bits above it is sign extension.
LEMMA SignBits ==
  ASSUME NEW w \in Nat \ {0}, Powers(w), NEW k \in 1 .. w, NEW a \in Word(w)
  PROVE  /\ (IF Bit(a, k - 1) = 1 THEN a | (MaxU(w) - MaxU(k)) ELSE a & MaxU(k)) = Sext(k, w, a % 2^k)
         /\ (a & MaxU(k)) = a % 2^k
<1> DEFINE p == 2^k  H == 2^(k - 1)  c == 2^(w - k)  N == 2^w  q == a \div 2^k  r == a % 2^k
<1>1. /\ p \in Nat \ {0} /\ H \in Nat \ {0} /\ c \in Nat \ {0} /\ N \in Nat \ {0} /\ p = 2 * H /\ N = c * p
      /\ k \in 0 .. w /\ k \in Nat /\ w - k \in 0 .. w /\ w - k \in Nat
  <2>1. k \in 0 .. w /\ k - 1 \in 0 .. w /\ k - 1 \in 0 .. w - 1 /\ w - k \in 0 .. w /\ w \in 0 .. w
        /\ (k - 1) + 1 = k /\ (w - k) + k = w /\ k \in Nat /\ w - k \in Nat
    OBVIOUS
  <2>2. 2^((k - 1) + 1) = 2 * H
    BY <2>1 DEF Powers
  <2>3. 2^((w - k) + k) = c * p
    BY <2>1, PowersAdd
  <2> QED  BY <2>1, <2>2, <2>3, PowersPositive
<1>2. a \in 0 .. N - 1 /\ a \in Nat
  BY <1>1 DEF Word
<1>3. r \in Word(k) /\ q \in Nat /\ a = q * p + r /\ \A j \in 0 .. k-1 : Bit(r, j) = Bit(a, j)
  BY <1>1, <1>2, BitsOfRemainder
<1>4. (a & MaxU(k)) = r
  BY <1>1, <1>2, MaskKeeps
<1>5. r \in 0 .. p - 1
  BY <1>3, <1>1 DEF Word
<1>6. Bit(a, k - 1) = IF r >= H THEN 1 ELSE 0
  <2>1. Bit(a, k - 1) = (r \div H) % 2
    <3>1. k - 1 \in 0 .. k-1
      OBVIOUS
    <3> QED  BY <1>3, <3>1 DEF Bit
  <2> HIDE DEF H, p, r
  <2>2. CASE r >= H
    <3>1. r = 1 * H + (r - H) /\ r - H \in 0 .. H-1 /\ r \in Int
      BY <2>2, <1>1, <1>5
    <3> DEFINE u == r - H
    <3>2. r = 1 * H + u /\ u \in 0 .. H-1 /\ r \in Int
      BY <3>1
    <3> HIDE DEF u
    <3>3. r \div H = 1
      BY <3>2, <1>1, Unique
    <3> QED  BY <2>1, <2>2, <3>3
  <2>3. CASE ~(r >= H)
    <3>1. r \div H = 0
      BY <2>3, <1>1, <1>5
    <3> QED  BY <2>1, <2>3, <3>1
  <2> QED  BY <2>2, <2>3
<1>7. CASE r >= H
  <2>1. q < c
    <3> HIDE DEF q, c, p, N, r
    <3> SUFFICES ASSUME q >= c PROVE FALSE
      BY <1>1, <1>3
    <3>1. q * p >= c * p /\ q * p \in Int /\ c * p \in Int
      BY <1>1, <1>3
    <3> QED  BY <3>1, <1>1, <1>2, <1>3, <1>5
  <2> DEFINE s == c - 1
  <2>2. s \in Nat /\ MaxU(w) - MaxU(k) = s * p + 0
    <3> HIDE DEF c, p, N
    <3>1. (c - 1) * p = c * p - p /\ c * p \in Int
      BY <1>1
    <3>2. MaxU(w) = N - 1 /\ MaxU(k) = p - 1
      BY DEF MaxU, N, p
    <3> QED  BY <3>1, <3>2, <1>1
  <2>3. (a & (s * p + 0)) = (q & s) * p + (r & 0)
    <3>1. 0 \in Word(k)
      BY <1>1 DEF Word
    <3> HIDE DEF q, r, s
    <3> QED  BY <3>1, <2>2, <1>1, <1>3, AndParts
  <2>4. (r & 0) = 0
    <3>1. r \in Nat
      BY <1>5
    <3> HIDE DEF r
    <3> QED  BY <3>1, AndBits
  <2>5. (q & s) = q
    <3>1. s = MaxU(w - k)
      BY DEF MaxU
    <3>2. (q & MaxU(w - k)) = q % 2^(w - k)
      <4> HIDE DEF q
      <4> QED  BY <1>1, <1>3, MaskKeeps
    <3>3. q % c = q
      <4> HIDE DEF q, c
      <4> QED  BY <1>1, <1>3, <2>1
    <3> QED  BY <3>1, <3>2, <3>3
  <2>6. (a | (MaxU(w) - MaxU(k))) = a + (s * p + 0) - (q * p + 0)
    BY <2>2, <2>3, <2>4, <2>5 DEF |
  <2>7. a + (s * p + 0) - (q * p + 0) = r + N - p
    <3> HIDE DEF q, r, c, p, N
    <3>1. (c - 1) * p = c * p - p /\ c * p \in Int /\ q * p \in Int
      BY <1>1, <1>3
    <3> QED  BY <3>1, <1>1, <1>3, <1>5
  <2>8. Trunc(w, r - p) = r + N - p
    <3>1. p <= N
      <4> HIDE DEF p, c, N
      <4>1. c * p >= 1 * p
        BY <1>1
      <4> QED  BY <4>1, <1>1
    <3> DEFINE z == r - p  e == r + N - p  u == -1
    <3>2. u \in Int /\ z \in Int /\ e \in Word(w) /\ z = u * N + e
      BY <3>1, <1>1, <1>5 DEF Word
    <3> HIDE DEF z, e, u
    <3>4. z = u * 2^w + e /\ 2^w \in Nat \ {0}
      BY <3>2, <1>1
    <3>3. Trunc(w, z) = e
      BY <3>2, <3>4, TruncIs
    <3> QED  BY <3>3 DEF z, e
  <2>9. Sext(k, w, r) = Trunc(w, r - p)
    BY <1>7 DEF Sext, Signed
  <2> QED  BY <1>4, <1>6, <1>7, <2>6, <2>7, <2>8, <2>9
<1>8. CASE ~(r >= H)
  <2>1. r \in Word(w)
    <3>1. p <= N
      <4> HIDE DEF p, c, N
      <4>1. c * p >= 1 * p
        BY <1>1
      <4> QED  BY <4>1, <1>1
    <3> QED  BY <3>1, <1>1, <1>5 DEF Word
  <2>2. Trunc(w, r) = r
    <3> DEFINE u == 0
    <3> HIDE DEF r
    <3>1. u \in Int /\ r \in Int /\ r = u * 2^w + r /\ 2^w \in Nat \ {0}
      BY <1>1, <1>5
    <3> HIDE DEF u
    <3> QED  BY <2>1, <3>1, TruncIs
  <2>3. Sext(k, w, r) = Trunc(w, r)
    BY <1>8 DEF Sext, Signed
  <2> QED  BY <1>4, <1>6, <1>8, <2>2, <2>3
<1> QED  BY <1>4, <1>7, <1>8

\* The extensions of the two files.
LEMMA ExtensionsAgree ==
  ASSUME Types
  PROVE  /\ \A op \in {"sext.b", "sext.h", "zext.h"} :
              BExtend(op, HW, BW \div 2, vs2) = Rv64Extend(op, HW, BW \div 2, vs2)
         /\ BExtend("zext.w", HW, BW, vs2) = Rv64AddUw(HW, vs2, 0)
<1> DEFINE V == 2 * HW  b == BW \div 2
<1>0. /\ V = W /\ W \in Nat \ {0} /\ Powers(W) /\ vs2 \in Word(W) /\ b \in 1 .. W /\ 2 * b \in 1 .. W /\ HW \in 1 .. W
      /\ HW \in Nat \ {0}
  BY MoreWidths, Widths DEF Types
<1>1. BExtend("sext.h", HW, b, vs2) =
        (IF Bit(vs2, 2 * b - 1) = 1 THEN vs2 | (MaxU(V) - MaxU(2 * b)) ELSE vs2 & MaxU(2 * b))
  BY Zenon DEF BExtend
<1>2. BExtend("sext.b", HW, b, vs2) =
        (IF Bit(vs2, b - 1) = 1 THEN vs2 | (MaxU(V) - MaxU(b)) ELSE vs2 & MaxU(b))
  BY Zenon DEF BExtend
<1>3. BExtend("zext.h", HW, b, vs2) = (vs2 & MaxU(2 * b)) /\ BExtend("zext.w", HW, BW, vs2) = (vs2 & MaxU(HW))
  BY Zenon DEF BExtend
<1>4. Rv64Extend("sext.h", HW, b, vs2) = Sext(2 * b, V, vs2 % 2^(2 * b))
  BY Zenon DEF Rv64Extend, Rv32Extend
<1>5. Rv64Extend("sext.b", HW, b, vs2) = Sext(b, V, vs2 % 2^b)
  BY Zenon DEF Rv64Extend, Rv32Extend
<1>6. Rv64Extend("zext.h", HW, b, vs2) = vs2 % 2^(2 * b)
  BY Zenon DEF Rv64Extend, Rv32Extend
<1>7. Rv64AddUw(HW, vs2, 0) = vs2 % 2^HW
  <2> DEFINE x == vs2 % 2^HW
  <2>1. Rv64AddUw(HW, vs2, 0) = Trunc(V, 0 + x)
    BY DEF Rv64AddUw
  <2>2. x \in Word(HW)
    BY LowWord DEF Types
  <2>3. x \in Word(W) /\ 0 + x = x
    <3> DEFINE p == 2^HW
    <3>1. p \in Nat \ {0} /\ 2^W = p * p /\ x \in 0 .. p-1
      BY <2>2, MoreWidths DEF TwosComplement, Word
    <3> HIDE DEF p, x
    <3>2. p * p >= p /\ p * p \in Int
      BY <3>1
    <3>3. x \in 0 .. p * p - 1 /\ 0 + x = x
      BY <3>1, <3>2
    <3> QED  BY <3>1, <3>3 DEF Word
  <2> HIDE DEF x
  <2>4. Trunc(W, x) = x
    BY <2>3, Widths, SignedWord
  <2> QED  BY <2>1, <2>3, <2>4, <1>0 DEF x
<1> HIDE DEF V, b
<1>8. /\ (IF Bit(vs2, 2 * b - 1) = 1 THEN vs2 | (MaxU(W) - MaxU(2 * b)) ELSE vs2 & MaxU(2 * b)) = Sext(2 * b, W, vs2 % 2^(2 * b))
      /\ (vs2 & MaxU(2 * b)) = vs2 % 2^(2 * b)
  BY <1>0, SignBits
<1>9. (IF Bit(vs2, b - 1) = 1 THEN vs2 | (MaxU(W) - MaxU(b)) ELSE vs2 & MaxU(b)) = Sext(b, W, vs2 % 2^b)
  BY <1>0, SignBits
<1>10. (vs2 & MaxU(HW)) = vs2 % 2^HW
  BY <1>0, SignBits
<1> QED  BY <1>0, <1>1, <1>2, <1>3, <1>4, <1>5, <1>6, <1>7, <1>8, <1>9, <1>10 DEF b

\* The two RV64 bit-manipulation files compute the same.
LEMMA TwoFilesAgree == Types => TwoFiles
<1> SUFFICES ASSUME Types PROVE TwoFiles
  OBVIOUS
<1>1. BRev8(HW, BW, vs2) = Rv64ByteOp("rev8", HW, BW, vs2)
  <2>1. "rev8" # "orc.b"
    OBVIOUS
  <2> QED  BY Zenon, <2>1 DEF BRev8, Rv64ByteOp, Rv32ByteOp
<1>2. BOrcb(HW, BW, vs2) = Rv64ByteOp("orc.b", HW, BW, vs2)
  BY Zenon DEF BOrcb, Rv64ByteOp, Rv32ByteOp
<1> DEFINE x == vs2 % 2^HW
<1>3. vs2 \in Int /\ vs1 \in Int /\ x \in Int
  BY WordFacts, LowWord DEF Types
<1>4. BAddUw(HW, vs2, vs1) = Rv64AddUw(HW, vs2, vs1)
  <2> HIDE DEF x
  <2>1. x + vs1 = vs1 + x
    BY <1>3
  <2> QED  BY <2>1 DEF BAddUw, Rv64AddUw, x
<1>5. ASSUME NEW n \in 1 .. 3
      PROVE  /\ BShNadd(HW, n, vs2, vs1) = Rv64ShAdd(HW, n, vs2, vs1)
             /\ BShNadduw(HW, n, vs2, vs1) = Rv64ShAddUw(HW, n, vs2, vs1)
             /\ BSlliuw(HW, vs2, n) = Rv64SlliUw(HW, vs2, n)
  <2> DEFINE p == 2^n
  <2>1. p \in Int
    <3>1. n \in 0 .. W
      BY MoreWidths
    <3> QED  BY <3>1, Widths, PowersPositive
  <2> HIDE DEF x, p
  <2>2. vs2 * p + vs1 = vs1 + vs2 * p /\ x * p + vs1 = vs1 + x * p
    BY <1>3, <2>1
  <2> QED  BY <2>2 DEF BShNadd, Rv64ShAdd, Rv32ShAdd, BShNadduw, Rv64ShAddUw, BSlliuw, Rv64SlliUw, x, p
<1> QED  BY <1>1, <1>2, <1>4, <1>5, LogicAndOrder, RotationsAgree, CountsAgree, ExtensionsAgree DEF TwoFiles, HW

\* The word with its sign bit flipped is the signed view moved up by half the range, and
\* the signed view of that is the word moved down.
LEMMA FlippedSign ==
  ASSUME NEW a \in Word(W)
  PROVE  LET H == 2^(W-1)  f == a ^^ (2^(W-1)) IN
         /\ f \in Word(W) /\ H \in Nat /\ f = Signed(W, a) + H /\ Signed(W, f) = a - H /\ (f ^^ H) = a
<1> DEFINE H == 2^(W - 1)
<1>1. /\ H \in Nat \ {0} /\ 2^W = 2 * H /\ W \in Nat /\ Powers(W) /\ W - 1 \in 0 .. W
      /\ a \in 0 .. 2 * H - 1
  BY Widths DEF TwosComplement, Word
<1>2. (0 & 1) = 0 /\ (1 & 1) = 1 /\ (0 & 0) = 0
  <2>1. 1 \in Nat /\ 0 \in Nat /\ 1 \div 2 = 0 /\ 1 % 2 = 1
    OBVIOUS
  <2>2. (0 & 1) = 0 /\ (0 & 0) = 0
    BY <2>1, AndBits
  <2>3. (1 & 1) \in Nat /\ (1 & 1) \div 2 = (1 \div 2) & (1 \div 2) /\ (1 & 1) % 2 = (1 % 2) * (1 % 2)
    BY <2>1, AndBits
  <2> DEFINE z == 1 & 1
  <2>4. z \in Nat /\ z \div 2 = 0 /\ z % 2 = 1
    BY <2>1, <2>2, <2>3
  <2> HIDE DEF z
  <2>5. z = 1
    BY <2>4, Half
  <2> QED  BY <2>2, <2>5 DEF z
<1>3. ASSUME NEW b \in 0 .. 2 * H - 1 PROVE (b ^^ H) = IF b >= H THEN b - H ELSE b + H
  <2> DEFINE q == IF b >= H THEN 1 ELSE 0  r == b - q * H
  <2>1. q \in {0, 1} /\ r \in 0 .. H - 1 /\ b = q * H + r /\ b \in Int
    BY <1>1, <1>3
  <2> HIDE DEF q, r
  <2>2. q \in Nat /\ 1 \in Nat /\ r \in Word(W - 1) /\ 0 \in Word(W - 1) /\ r \in Nat
    BY <1>1, <2>1 DEF Word
  <2>3. ((q * H + r) & (1 * H + 0)) = (q & 1) * H + (r & 0)
    BY <1>1, <2>2, AndParts
  <2>4. (r & 0) = 0 /\ (q & 1) = q
    <3>1. (r & 0) = 0
      BY <2>2, AndBits
    <3> QED  BY <3>1, <1>2, <2>1
  <2>5. 1 * H + 0 = H
    BY <1>1
  <2>6. (b & H) = q * H + 0
    BY <2>1, <2>3, <2>4, <2>5
  <2>7. (b ^^ H) = b + H - 2 * (q * H + 0)
    BY <2>6 DEF ^^
  <2> HIDE DEF H
  <2> QED  BY <1>1, <2>1, <2>7 DEF q
<1> DEFINE f == a ^^ H
<1>4. f = (IF a >= H THEN a - H ELSE a + H) /\ f \in 0 .. 2 * H - 1
  <2>1. f = (IF a >= H THEN a - H ELSE a + H)
    BY <1>1, <1>3
  <2> HIDE DEF f, H
  <2> QED  BY <2>1, <1>1
<1>5. (f ^^ H) = IF f >= H THEN f - H ELSE f + H
  <2> HIDE DEF f
  <2> QED  BY <1>3, <1>4
<1>6. \A b : Signed(W, b) = IF b >= H THEN b - 2 * H ELSE b
  BY <1>1 DEF Signed
<1>7. f \in Word(W)
  BY <1>1, <1>4 DEF Word
<1> HIDE DEF f, H
<1>8. f = Signed(W, a) + H /\ Signed(W, f) = a - H /\ (f ^^ H) = a
  BY <1>1, <1>4, <1>5, <1>6
<1> QED  BY <1>1, <1>7, <1>8 DEF f, H

\* Setting, clearing and inverting one bit.
LEMMA OneBit ==
  ASSUME NEW a \in Nat, NEW k \in 0 .. W-1
  PROVE  /\ Bit(a, k) \in 0 .. 1
         /\ Bit(a, k) = 1 => Bit(a - 2^k, k) = 0
         /\ Bit(a, k) = 0 => Bit(a + 2^k, k) = 1
<1> DEFINE p == 2^k  q == a \div p  r == a % p
<1>1. p \in Nat \ {0}
  <2>1. k \in 0 .. W
    BY Widths
  <2> QED  BY <2>1, Widths, PowersPositive
<1>2. q \in Int /\ r \in 0 .. p-1 /\ a = p * q + r
  <2>1. a \in Int
    OBVIOUS
  <2> HIDE DEF p
  <2> QED  BY <1>1, <2>1, DivMod
<1>3. Bit(a, k) = q % 2
  BY DEF Bit
<1> HIDE DEF p, q, r
<1>4. (a - p) \div p = q - 1 /\ (a + p) \div p = q + 1
  <2> DEFINE u == q - 1  v == q + 1  x == a - p  y == a + p
  <2>1. p * u = p * q - p /\ p * v = p * q + p /\ p * q \in Int
    BY <1>1, <1>2
  <2>2. u \in Int /\ v \in Int /\ x \in Int /\ y \in Int /\ x = u * p + r /\ y = v * p + r
    BY <2>1, <1>1, <1>2
  <2> HIDE DEF u, v, x, y
  <2>3. x \div p = u /\ y \div p = v
    BY <2>2, <1>1, <1>2, Unique
  <2> QED  BY <2>3 DEF u, v, x, y
<1>5. Bit(a - p, k) = (q - 1) % 2 /\ Bit(a + p, k) = (q + 1) % 2
  BY <1>4 DEF Bit, p
<1>6. q % 2 \in 0 .. 1 /\ (q % 2 = 1 => (q - 1) % 2 = 0) /\ (q % 2 = 0 => (q + 1) % 2 = 1)
  BY <1>2
<1> QED  BY <1>3, <1>5, <1>6 DEF p

\* The single-bit instructions on one index compose.
LEMMA SingleBits ==
  ASSUME Types
  PROVE  /\ Rv32SingleBit("bclr", W, Rv32SingleBit("bset", W, vs2, vs1), vs1) = Rv32SingleBit("bclr", W, vs2, vs1)
         /\ Rv32SingleBit("binv", W, Rv32SingleBit("binv", W, vs2, vs1), vs1) = vs2
         /\ Rv32SingleBit("bext", W, Rv32SingleBit("bset", W, vs2, vs1), vs1) = 1
<1> DEFINE k == vs1 % W  p == 2^k  a == vs2
<1>1. a \in Nat /\ k \in 0 .. W-1 /\ p \in Nat \ {0} /\ W \in Nat \ {0}
  <2>1. vs1 \in Nat /\ vs2 \in Nat /\ W \in Nat \ {0}
    BY WordFacts, Widths DEF Types
  <2>2. k \in 0 .. W-1
    BY <2>1
  <2>3. k \in 0 .. W
    BY <2>2, <2>1
  <2> QED  BY <2>1, <2>2, <2>3, Widths, PowersPositive
<1>2. \A x : /\ Rv32SingleBit("bclr", W, x, vs1) = x - Bit(x, k) * p
             /\ Rv32SingleBit("bext", W, x, vs1) = Bit(x, k)
  BY Zenon DEF Rv32SingleBit
<1>3. \A x : /\ Rv32SingleBit("binv", W, x, vs1) = IF Bit(x, k) = 1 THEN x - p ELSE x + p
             /\ Rv32SingleBit("bset", W, x, vs1) = x + (1 - Bit(x, k)) * p
  BY Zenon DEF Rv32SingleBit
<1>4. /\ Bit(a, k) \in 0 .. 1
      /\ Bit(a, k) = 1 => Bit(a - p, k) = 0
      /\ Bit(a, k) = 0 => Bit(a + p, k) = 1
  <2> HIDE DEF k, a
  <2> QED  BY <1>1, OneBit
<1> HIDE DEF k, p, a
<1>5. CASE Bit(a, k) = 1
  <2>1. Rv32SingleBit("bset", W, a, vs1) = a /\ Rv32SingleBit("binv", W, a, vs1) = a - p
    <3>1. a + (1 - 1) * p = a
      BY <1>1
    <3> QED  BY <1>3, <1>5, <3>1
  <2>2. Rv32SingleBit("binv", W, a - p, vs1) = a - p + p
    BY <1>3, <1>4, <1>5
  <2>3. a - p + p = a
    BY <1>1
  <2> QED  BY <1>2, <1>5, <2>1, <2>2, <2>3 DEF a
<1>6. CASE Bit(a, k) = 0
  <2>1. Rv32SingleBit("bset", W, a, vs1) = a + p /\ Rv32SingleBit("binv", W, a, vs1) = a + p
    <3>1. a + (1 - 0) * p = a + p
      BY <1>1
    <3> QED  BY <1>3, <1>6, <3>1
  <2> DEFINE u == a + p
  <2>2. Bit(u, k) = 1 /\ u - p = a /\ u - 1 * p = a /\ a - 0 * p = a
    BY <1>1, <1>4, <1>6
  <2> HIDE DEF u
  <2>3. Rv32SingleBit("binv", W, u, vs1) = u - p
    BY <1>3, <2>2
  <2>4. Rv32SingleBit("bclr", W, u, vs1) = u - 1 * p /\ Rv32SingleBit("bext", W, u, vs1) = 1
    BY <1>2, <2>2
  <2>5. Rv32SingleBit("bclr", W, a, vs1) = a - 0 * p
    BY <1>2, <1>6
  <2> QED  BY <2>1, <2>2, <2>3, <2>4, <2>5 DEF a, u
<1> QED  BY <1>4, <1>5, <1>6

\* Compares, selections, branches and conditional zeroes follow one order.
LEMMA OneOrderHolds == Types => OneOrder
<1> SUFFICES ASSUME Types PROVE OneOrder
  OBVIOUS
<1> DEFINE a == vs2  b == vs1  x == Signed(W, vs2)  y == Signed(W, vs1)  H == 2^(W-1)
           f == vs2 ^^ (2^(W-1))  g == vs1 ^^ (2^(W-1))
<1>0. /\ a \in Nat /\ b \in Nat /\ x \in Int /\ y \in Int /\ (x = y <=> a = b) /\ H \in Nat
      /\ f \in Word(W) /\ g \in Word(W) /\ f = x + H /\ g = y + H /\ Signed(W, f) = a - H /\ Signed(W, g) = b - H
      /\ (f ^^ H) = a /\ (g ^^ H) = b
  <2>1. a \in Word(W) /\ b \in Word(W)
    BY DEF Types
  <2>2. a \in Nat /\ b \in Nat /\ x \in Int /\ y \in Int
    BY <2>1, WordFacts
  <2>3. x = y => a = b
    BY <2>1, Widths, SameSigned
  <2> QED  BY <2>1, <2>2, <2>3, FlippedSign
<1>1. /\ Vmslt(W, vs2, vs1) = (x < y) /\ Vmsle(W, vs2, vs1) = (x <= y) /\ Vmsgt(W, vs2, vs1) = (x > y)
      /\ Vmslt(W, vs1, vs2) = (y < x) /\ Vmseq(W, vs2, vs1) = (a = b) /\ Vmsne(W, vs2, vs1) = (a # b)
      /\ Vmsltu(W, vs2, vs1) = (a < b) /\ Vmsgtu(W, vs2, vs1) = (a > b) /\ Vmsleu(W, vs2, vs1) = (a <= b)
      /\ Vmsltu(W, f, g) = (f < g) /\ Vmsleu(W, f, g) = (f <= g)
  BY DEF Vmslt, Vmsle, Vmsgt, Vmseq, Vmsne, Vmsltu, Vmsgtu, Vmsleu
<1>2. /\ Vmin(W, vs2, vs1) = (IF x < y THEN a ELSE b) /\ Vmax(W, vs2, vs1) = (IF x > y THEN a ELSE b)
      /\ Vminu(W, vs2, vs1) = (IF a < b THEN a ELSE b) /\ Vmaxu(W, vs2, vs1) = (IF a > b THEN a ELSE b)
      /\ Vmax(W, f, g) = (IF Signed(W, f) > Signed(W, g) THEN f ELSE g)
      /\ Vmin(W, f, g) = (IF Signed(W, f) < Signed(W, g) THEN f ELSE g)
  BY DEF Vmin, Vmax, Vminu, Vmaxu
<1>3. /\ Rv32Branch("blt", W, vs2, vs1) = (x < y) /\ Rv32Branch("bge", W, vs2, vs1) = (x >= y)
      /\ Rv32Branch("bgeu", W, vs2, vs1) = (a >= b)
  BY Zenon DEF Rv32Branch
<1>4. Rv32Integer("slt", W, vs2, vs1) = Flag(x < y) /\ Rv32Integer("sltu", W, vs2, vs1) = Flag(a < b)
  BY Zenon DEF Rv32Integer
<1>5. {Rv32Zicond("czero.eqz", vs2, vs1), Rv32Zicond("czero.nez", vs2, vs1)} = {0, vs2}
  <2>1. "czero.nez" # "czero.eqz"
    OBVIOUS
  <2>2. /\ Rv32Zicond("czero.eqz", vs2, vs1) = (IF vs1 = 0 THEN 0 ELSE vs2)
        /\ Rv32Zicond("czero.nez", vs2, vs1) = (IF vs1 = 0 THEN vs2 ELSE 0)
    BY <2>1 DEF Rv32Zicond
  <2> QED  BY <2>2
<1> HIDE DEF x, y, f, g, H
<1>6. /\ (x < y) = (f < g) /\ (x <= y) = (f <= g) /\ (x > y) = (y < x) /\ (a > b) = ~(a <= b)
      /\ (x <= y) = (x < y \/ a = b) /\ (a # b) = (a < b \/ a > b) /\ (x >= y) = ~(x < y)
  BY <1>0
<1>7. /\ (IF x < y THEN a ELSE b) = (IF x <= y THEN a ELSE b)
      /\ {IF x < y THEN a ELSE b, IF x > y THEN a ELSE b} = {a, b}
  BY <1>0
<1>8. /\ ((IF Signed(W, f) > Signed(W, g) THEN f ELSE g) ^^ H) = (IF a > b THEN a ELSE b)
      /\ ((IF Signed(W, f) < Signed(W, g) THEN f ELSE g) ^^ H) = (IF a < b THEN a ELSE b)
  BY <1>0
<1>9. (a >= b) = (Flag(a < b) = 0)
  BY <1>0 DEF Flag
<1>10. /\ Vmslt(W, vs2, vs1) = Vmsltu(W, f, g) /\ Vmsle(W, vs2, vs1) = Vmsleu(W, f, g)
       /\ Vmsgt(W, vs2, vs1) = Vmslt(W, vs1, vs2) /\ Vmsgtu(W, vs2, vs1) = ~Vmsleu(W, vs2, vs1)
       /\ Vmsle(W, vs2, vs1) = (Vmslt(W, vs2, vs1) \/ Vmseq(W, vs2, vs1))
       /\ Vmsne(W, vs2, vs1) = (Vmsltu(W, vs2, vs1) \/ Vmsgtu(W, vs2, vs1))
  BY <1>1, <1>6
<1>11. /\ Vmin(W, vs2, vs1) = (IF Vmsle(W, vs2, vs1) THEN vs2 ELSE vs1)
       /\ Vmaxu(W, vs2, vs1) = (Vmax(W, f, g) ^^ H) /\ Vminu(W, vs2, vs1) = (Vmin(W, f, g) ^^ H)
       /\ {Vmin(W, vs2, vs1), Vmax(W, vs2, vs1)} = {vs2, vs1}
  BY <1>1, <1>2, <1>7, <1>8
<1>12. /\ Flag(Rv32Branch("blt", W, vs2, vs1)) = Rv32Integer("slt", W, vs2, vs1)
       /\ Rv32Branch("bgeu", W, vs2, vs1) = (Rv32Integer("sltu", W, vs2, vs1) = 0)
       /\ Rv32Branch("bge", W, vs2, vs1) = ~Rv32Branch("blt", W, vs2, vs1)
  BY <1>3, <1>4, <1>6, <1>9
<1> QED  BY <1>5, <1>10, <1>11, <1>12, SingleBits DEF OneOrder, f, g, H

-----------------------------------------------------------------------------
(* Views of one CSR agree.                                                 *)

\* what a masked write makes of the value v, and a CSR with a value and two masks
Merge(u, v, wm) == (u & wm) | (v & Inv(2 * W, wm))
Csr(v, rm, wm) == [v |-> v, rm |-> rm, wm |-> wm]
\* words of twice the width, and how a bit of each operation follows from its words'
CsrWord == Word(2 * W)
Places2 == 0 .. 2 * W - 1

\* The operations on such words, bit by bit, and that they stay such words.
LEMMA CsrBits ==
  /\ \A x, y \in CsrWord : (x & y) \in CsrWord /\ (x | y) \in CsrWord /\ Inv(2 * W, x) \in CsrWord
  /\ \A x, y \in CsrWord : \A j \in Places2 :
       /\ Bit(x, j) \in 0 .. 1
       /\ Bit(x & y, j) = IF Bit(x, j) = 1 /\ Bit(y, j) = 1 THEN 1 ELSE 0
       /\ Bit(x | y, j) = IF Bit(x, j) = 1 \/ Bit(y, j) = 1 THEN 1 ELSE 0
       /\ Bit(Inv(2 * W, x), j) = 1 - Bit(x, j)
  /\ \A x, y \in CsrWord : (\A j \in Places2 : Bit(x, j) = Bit(y, j)) => x = y
  /\ 0 \in CsrWord /\ \A j \in Places2 : Bit(0, j) = 0
  /\ \A x \in CsrWord : Trunc(2 * W, x) = x
<1> DEFINE n == 2 * W
<1>1. n \in Nat /\ Powers(n) /\ TwosComplement(n)
  BY Widths
<1> HIDE DEF n
<1>2. ASSUME NEW x \in Word(n), NEW y \in Word(n)
      PROVE  /\ (x & y) \in Word(n) /\ (x | y) \in Word(n) /\ Inv(n, x) \in Word(n)
             /\ \A j \in 0 .. n-1 : BitByBit(x, y, j) /\ Bit(Inv(n, x), j) = 1 - Bit(x, j)
             /\ (\A j \in 0 .. n-1 : Bit(x, j) = Bit(y, j)) => x = y
             /\ Trunc(n, x) = x
  <2>1. (x & y) \in Word(n) /\ (x | y) \in Word(n) /\ \A j \in 0 .. n-1 : BitByBit(x, y, j)
    BY <1>1, WordBits
  <2>2. Inv(n, x) \in Word(n) /\ \A j \in 0 .. n-1 : Bit(Inv(n, x), j) = 1 - Bit(x, j)
    BY <1>1, InvBits
  <2>3. (\A j \in 0 .. n-1 : Bit(x, j) = Bit(y, j)) => x = y
    BY <1>1, SameBits
  <2>4. Trunc(n, x) = x
    BY <1>1, SignedWord
  <2> QED  BY <2>1, <2>2, <2>3, <2>4
<1>3. 0 \in Word(n) /\ \A j \in 0 .. n-1 : Bit(0, j) = 0
  <2>1. 0 \in Word(n)
    BY <1>1 DEF Word, TwosComplement
  <2>2. (0 & 0) = 0 /\ (0 ^^ 0) = 0
    <3>1. (0 & 0) = 0
      BY AndBits
    <3> QED  BY <3>1 DEF ^^
  <2>3. ASSUME NEW j \in 0 .. n-1 PROVE Bit(0, j) = 0
    <3>1. BitByBit(0, 0, j)
      BY <1>1, <2>1, WordBits
    <3> QED  BY <2>2, <3>1 DEF BitByBit
  <2> QED  BY <2>1, <2>3
<1>4. CsrWord = Word(n) /\ Places2 = 0 .. n-1 /\ 2 * W = n
  BY DEF CsrWord, Places2, n
<1>5. \A x, y \in Word(n) : (x & y) \in Word(n) /\ (x | y) \in Word(n) /\ Inv(n, x) \in Word(n)
  BY <1>2
<1>6. \A x, y \in Word(n) : \A j \in 0 .. n-1 :
       /\ Bit(x, j) \in 0 .. 1
       /\ Bit(x & y, j) = IF Bit(x, j) = 1 /\ Bit(y, j) = 1 THEN 1 ELSE 0
       /\ Bit(x | y, j) = IF Bit(x, j) = 1 \/ Bit(y, j) = 1 THEN 1 ELSE 0
       /\ Bit(Inv(n, x), j) = 1 - Bit(x, j)
  BY <1>2 DEF BitByBit
<1>7. \A x, y \in Word(n) : (\A j \in 0 .. n-1 : Bit(x, j) = Bit(y, j)) => x = y
  BY <1>2
<1>8. \A x \in Word(n) : Trunc(n, x) = x
  BY <1>2
<1> QED  BY <1>3, <1>4, <1>5, <1>6, <1>7, <1>8

\* A merge takes the bits of the mask from the new value and the others from the old one,
\* in whichever order the code puts the two parts together.
LEMMA MergeBits ==
  ASSUME NEW u \in CsrWord, NEW v \in CsrWord, NEW wm \in CsrWord
  PROVE  /\ Merge(u, v, wm) \in CsrWord
         /\ ((v & Inv(2 * W, wm)) | (u & wm)) = Merge(u, v, wm)
         /\ \A j \in Places2 : Bit(Merge(u, v, wm), j) = IF Bit(wm, j) = 1 THEN Bit(u, j) ELSE Bit(v, j)
<1> DEFINE a == u & wm  i == Inv(2 * W, wm)  b == v & Inv(2 * W, wm)
<1>1. i \in CsrWord
  BY CsrBits
<1>2. a \in CsrWord /\ b \in CsrWord
  BY <1>1, CsrBits
<1>3. ASSUME NEW j \in Places2
      PROVE  /\ Bit(a, j) = IF Bit(u, j) = 1 /\ Bit(wm, j) = 1 THEN 1 ELSE 0
             /\ Bit(b, j) = IF Bit(v, j) = 1 /\ Bit(wm, j) # 1 THEN 1 ELSE 0
             /\ Bit(u, j) \in 0 .. 1 /\ Bit(v, j) \in 0 .. 1
  <2>1. Bit(a, j) = IF Bit(u, j) = 1 /\ Bit(wm, j) = 1 THEN 1 ELSE 0
    BY CsrBits
  <2>2. Bit(i, j) = 1 - Bit(wm, j) /\ Bit(wm, j) \in 0 .. 1
    BY CsrBits
  <2>3. Bit(b, j) = IF Bit(v, j) = 1 /\ Bit(i, j) = 1 THEN 1 ELSE 0
    BY <1>1, CsrBits
  <2>4. Bit(u, j) \in 0 .. 1 /\ Bit(v, j) \in 0 .. 1
    BY CsrBits
  <2> HIDE DEF a, b, i
  <2> QED  BY <2>1, <2>2, <2>3, <2>4
<1>4. Merge(u, v, wm) = (a | b)
  BY DEF Merge
<1> HIDE DEF a, b
<1>5. (a | b) \in CsrWord /\ (b | a) \in CsrWord
  BY <1>2, CsrBits
<1>6. ASSUME NEW j \in Places2
      PROVE  /\ Bit(a | b, j) = IF Bit(wm, j) = 1 THEN Bit(u, j) ELSE Bit(v, j)
             /\ Bit(b | a, j) = Bit(a | b, j)
  <2>1. /\ Bit(a | b, j) = IF Bit(a, j) = 1 \/ Bit(b, j) = 1 THEN 1 ELSE 0
        /\ Bit(b | a, j) = IF Bit(b, j) = 1 \/ Bit(a, j) = 1 THEN 1 ELSE 0
    BY <1>2, CsrBits
  <2> QED  BY <2>1, <1>3
<1>7. (b | a) = (a | b)
  BY <1>5, <1>6, CsrBits
<1> QED  BY <1>4, <1>5, <1>6, <1>7 DEF a, b

\* What a write through a simple CSR, its buffer or a shadow register leaves.
LEMMA CsrWrites ==
  ASSUME NEW u \in CsrWord, NEW v \in CsrWord, NEW wm \in CsrWord, NEW rm
  PROVE  /\ SimpleGet(2 * W, Csr(v, rm, wm)) = v
         /\ SimpleWrite(2 * W, 2 * W, Csr(v, rm, wm), u) = Csr(Merge(u, v, wm), rm, wm)
         /\ SimpleSetBits(2 * W, 2 * W, Csr(v, rm, wm), u) = Csr(Merge(v | u, v, wm), rm, wm)
         /\ SimpleClearBits(2 * W, 2 * W, Csr(v, rm, wm), u) = Csr(Merge(v & Inv(2 * W, u), v, wm), rm, wm)
<1> DEFINE c == Csr(v, rm, wm)
<1>1. SimpleGet(2 * W, c) = v /\ Trunc(2 * W, u) = u
  BY CsrBits DEF SimpleGet, Csr
<1>2. ASSUME NEW z \in CsrWord PROVE SimpleWrite(2 * W, 2 * W, c, z) = Csr(Merge(z, v, wm), rm, wm)
  <2>1. Trunc(2 * W, z) = z /\ Merge(z, v, wm) \in CsrWord
    BY CsrBits, MergeBits
  <2>2. Trunc(2 * W, Merge(z, v, wm)) = Merge(z, v, wm)
    BY <2>1, CsrBits
  <2>3. c.wm = wm /\ c.v = v
    BY DEF Csr
  <2>4. SimpleWrite(2 * W, 2 * W, c, z) = [c EXCEPT !.v = Trunc(2 * W, (z & wm) | (v & Inv(2 * W, wm)))]
    BY <1>1, <2>1, <2>3 DEF SimpleWrite, SimpleSet
  <2>5. SimpleWrite(2 * W, 2 * W, c, z) = [c EXCEPT !.v = Merge(z, v, wm)]
    BY <2>2, <2>4 DEF Merge
  <2> QED  BY <2>5 DEF Csr
<1>3. (v | u) \in CsrWord /\ (v & Inv(2 * W, u)) \in CsrWord
  BY CsrBits
<1>4. SimpleSetBits(2 * W, 2 * W, c, u) = SimpleWrite(2 * W, 2 * W, c, v | u)
  BY <1>1 DEF SimpleSetBits
<1>5. SimpleClearBits(2 * W, 2 * W, c, u) = SimpleWrite(2 * W, 2 * W, c, v & Inv(2 * W, u))
  BY <1>1 DEF SimpleClearBits
<1> QED  BY <1>1, <1>2, <1>3, <1>4, <1>5

\* The same for a shadow register, whose own mask is applied first.
LEMMA ShadowWrites ==
  ASSUME NEW u \in CsrWord, NEW v \in CsrWord, NEW wm \in CsrWord, NEW rm, NEW swm \in CsrWord, NEW srm
  PROVE  LET shadow == [rm |-> srm, wm |-> swm]  through(z) == Csr(Merge(Merge(z, v, swm), v, wm), rm, wm) IN
         /\ ShadowWrite(2 * W, 2 * W, shadow, Csr(v, rm, wm), u) = through(u)
         /\ ShadowSetBits(2 * W, 2 * W, shadow, Csr(v, rm, wm), u) = through(v | u)
         /\ ShadowClearBits(2 * W, 2 * W, shadow, Csr(v, rm, wm), u) = through(v & Inv(2 * W, u))
<1> DEFINE c == Csr(v, rm, wm)  shadow == [rm |-> srm, wm |-> swm]
           through(z) == Csr(Merge(Merge(z, v, swm), v, wm), rm, wm)
<1>1. SimpleGet(2 * W, c) = v /\ Trunc(2 * W, u) = u /\ shadow.wm = swm
  BY CsrBits, CsrWrites
<1>2. ASSUME NEW z \in CsrWord PROVE ShadowWrite(2 * W, 2 * W, shadow, c, z) = through(z)
  <2> DEFINE w == Merge(z, v, swm)
  <2>1. w \in CsrWord /\ ((v & Inv(2 * W, swm)) | (z & swm)) = w /\ Trunc(2 * W, z) = z
        /\ \A j \in Places2 : Bit(w, j) = IF Bit(swm, j) = 1 THEN Bit(z, j) ELSE Bit(v, j)
    BY CsrBits, MergeBits
  <2> HIDE DEF w
  <2>2. SimpleWrite(2 * W, 2 * W, c, w) = Csr(Merge(w, v, wm), rm, wm)
    BY <2>1, CsrWrites
  <2>3. CASE swm = 0
    <3>1. Merge(w, v, wm) \in CsrWord /\ \A j \in Places2 : Bit(Merge(w, v, wm), j) = IF Bit(wm, j) = 1 THEN Bit(w, j) ELSE Bit(v, j)
      <4>1. w \in CsrWord
        BY <2>1
      <4> QED  BY <4>1, MergeBits
    <3>2. \A j \in Places2 : Bit(Merge(w, v, wm), j) = Bit(v, j)
      BY <2>1, <2>3, <3>1, CsrBits
    <3>3. Merge(w, v, wm) = v
      BY <3>1, <3>2, CsrBits
    <3>4. ShadowWrite(2 * W, 2 * W, shadow, c, z) = c
      BY <1>1, <2>3 DEF ShadowWrite
    <3> QED  BY <3>3, <3>4 DEF w
  <2>4. CASE swm # 0
    <3>1. ShadowWrite(2 * W, 2 * W, shadow, c, z) = SimpleWrite(2 * W, 2 * W, c, w)
      BY <1>1, <2>1, <2>4 DEF ShadowWrite
    <3> QED  BY <2>2, <3>1 DEF w
  <2> QED  BY <2>3, <2>4
<1>3. (v | u) \in CsrWord /\ (v & Inv(2 * W, u)) \in CsrWord
  BY CsrBits
<1>4. ShadowSetBits(2 * W, 2 * W, shadow, c, u) = ShadowWrite(2 * W, 2 * W, shadow, c, v | u)
  BY <1>1 DEF ShadowSetBits
<1>5. ShadowClearBits(2 * W, 2 * W, shadow, c, u) = ShadowWrite(2 * W, 2 * W, shadow, c, v & Inv(2 * W, u))
  BY <1>1 DEF ShadowClearBits
<1> HIDE DEF c, shadow
<1>6. /\ ShadowWrite(2 * W, 2 * W, shadow, c, u) = through(u)
      /\ ShadowSetBits(2 * W, 2 * W, shadow, c, u) = through(v | u)
      /\ ShadowClearBits(2 * W, 2 * W, shadow, c, u) = through(v & Inv(2 * W, u))
  BY <1>2, <1>3, <1>4, <1>5
<1> QED  BY <1>6 DEF c, shadow

\* The same facts, ready to be used on any words.
LEMMA MergedAndCommon ==
  /\ \A p, q, r \in CsrWord : \A j \in Places2 : Bit(Merge(p, q, r), j) = IF Bit(r, j) = 1 THEN Bit(p, j) ELSE Bit(q, j)
  /\ \A p, q \in CsrWord : \A j \in Places2 : Bit(p & q, j) = IF Bit(p, j) = 1 /\ Bit(q, j) = 1 THEN 1 ELSE 0
<1>1. ASSUME NEW p \in CsrWord, NEW q \in CsrWord, NEW r \in CsrWord
      PROVE  \A j \in Places2 : Bit(Merge(p, q, r), j) = IF Bit(r, j) = 1 THEN Bit(p, j) ELSE Bit(q, j)
  BY MergeBits
<1>2. \A p, q \in CsrWord : \A j \in Places2 : Bit(p & q, j) = IF Bit(p, j) = 1 /\ Bit(q, j) = 1 THEN 1 ELSE 0
  BY CsrBits
<1> QED  BY <1>1, <1>2

\* Bits set through a buffer and then cleared are gone, and no other bit has moved.
LEMMA BufferViews ==
  ASSUME NEW v \in CsrWord, NEW wm \in CsrWord, NEW x \in CsrWord, NEW rm
  PROVE  LET T == 2 * W  csr == Csr(v, rm, wm)  db == AllocateDataBuffer(T, x)
             set == SetBitsDb(T, csr, db)  cleared == ClearBitsDb(T, set, db) IN
         /\ (cleared.v & wm & x) = 0 /\ (set.v & wm & x) = (wm & x)
         /\ (cleared.v & Inv(T, wm & x)) = (v & Inv(T, wm & x))
         /\ cleared = WriteDb(T, csr, AllocateDataBuffer(T, v & Inv(T, x)))
<1> DEFINE T == 2 * W  csr == Csr(v, rm, wm)  i == Inv(2 * W, x)  o == v | x  s == Merge(o, v, wm)
           a == s & i  d == Merge(a, s, wm)  e == v & i  f == Merge(e, v, wm)  k == wm & x  n == Inv(2 * W, wm & x)
           db == AllocateDataBuffer(T, x)  set == SetBitsDb(T, csr, db)  cleared == ClearBitsDb(T, set, db)
<1>1. i \in CsrWord /\ o \in CsrWord /\ k \in CsrWord
  BY CsrBits
<1>2. e \in CsrWord /\ s \in CsrWord /\ n \in CsrWord
  BY <1>1, CsrBits, MergeBits
<1>3. a \in CsrWord
  BY <1>1, <1>2, CsrBits
<1>4. d \in CsrWord /\ f \in CsrWord
  BY <1>2, <1>3, MergeBits
<1>5. set = Csr(s, rm, wm)
  <2>1. db = [size |-> T, v |-> x]
    BY CsrBits DEF AllocateDataBuffer
  <2>2. set = SimpleSetBits(T, T, csr, x)
    BY <2>1 DEF SetBitsDb
  <2> QED  BY <2>2, CsrWrites
<1>6. cleared = Csr(d, rm, wm)
  <2>1. db = [size |-> T, v |-> x]
    BY CsrBits DEF AllocateDataBuffer
  <2>2. cleared = SimpleClearBits(T, T, Csr(s, rm, wm), x)
    BY <1>5, <2>1 DEF ClearBitsDb
  <2> HIDE DEF s
  <2> QED  BY <2>2, <1>2, CsrWrites
<1>7. WriteDb(T, csr, AllocateDataBuffer(T, v & Inv(T, x))) = Csr(f, rm, wm)
  <2>1. AllocateDataBuffer(T, v & Inv(T, x)) = [size |-> T, v |-> e]
    BY <1>2, CsrBits DEF AllocateDataBuffer
  <2>2. WriteDb(T, csr, AllocateDataBuffer(T, v & Inv(T, x))) = SimpleWrite(T, T, csr, e)
    BY <2>1 DEF WriteDb
  <2> HIDE DEF e
  <2> QED  BY <2>2, <1>2, CsrWrites
<1>8. ASSUME NEW j \in Places2
      PROVE  /\ Bit(v, j) \in 0 .. 1 /\ Bit(x, j) \in 0 .. 1 /\ Bit(wm, j) \in 0 .. 1
             /\ Bit(s, j) = IF Bit(wm, j) = 1 /\ Bit(x, j) = 1 THEN 1 ELSE Bit(v, j)
             /\ Bit(d, j) = IF Bit(wm, j) = 1 /\ Bit(x, j) = 1 THEN 0 ELSE Bit(v, j)
             /\ Bit(f, j) = IF Bit(wm, j) = 1 /\ Bit(x, j) = 1 THEN 0 ELSE Bit(v, j)
             /\ Bit(k, j) = IF Bit(wm, j) = 1 /\ Bit(x, j) = 1 THEN 1 ELSE 0
             /\ Bit(n, j) = 1 - Bit(k, j)
  <2>1. Bit(v, j) \in 0 .. 1 /\ Bit(x, j) \in 0 .. 1 /\ Bit(wm, j) \in 0 .. 1
    BY CsrBits
  <2>2. Bit(i, j) = 1 - Bit(x, j) /\ Bit(o, j) = IF Bit(v, j) = 1 \/ Bit(x, j) = 1 THEN 1 ELSE 0
    BY CsrBits
  <2>3. Bit(k, j) = IF Bit(wm, j) = 1 /\ Bit(x, j) = 1 THEN 1 ELSE 0
    BY CsrBits
  <2>4. Bit(n, j) = 1 - Bit(k, j) /\ Bit(e, j) = IF Bit(v, j) = 1 /\ Bit(i, j) = 1 THEN 1 ELSE 0
    BY <1>1, CsrBits
  <2>0. s = Merge(o, v, wm) /\ a = (s & i) /\ d = Merge(a, s, wm) /\ f = Merge(e, v, wm)
    OBVIOUS
  <2> HIDE DEF i, o, s, a, d, e, f, k, n
  <2>5. Bit(s, j) = IF Bit(wm, j) = 1 THEN Bit(o, j) ELSE Bit(v, j)
    BY <1>1, <2>0, MergedAndCommon
  <2>6. Bit(a, j) = IF Bit(s, j) = 1 /\ Bit(i, j) = 1 THEN 1 ELSE 0
    BY <1>1, <1>2, <2>0, MergedAndCommon
  <2>7. Bit(d, j) = IF Bit(wm, j) = 1 THEN Bit(a, j) ELSE Bit(s, j)
    BY <1>2, <1>3, <2>0, MergedAndCommon
  <2>8. Bit(f, j) = IF Bit(wm, j) = 1 THEN Bit(e, j) ELSE Bit(v, j)
    BY <1>2, <2>0, MergedAndCommon
  <2> QED  BY <2>1, <2>2, <2>3, <2>4, <2>5, <2>6, <2>7, <2>8
<1> HIDE DEF d, e, f, k, n, s
<1> DEFINE dw == d & wm  dwx == dw & x  sw == s & wm  swx == sw & x  dn == d & n  vn == v & n
<1>9. dw \in CsrWord /\ sw \in CsrWord /\ dn \in CsrWord /\ vn \in CsrWord
  BY <1>2, <1>4, CsrBits
<1>10. dwx \in CsrWord /\ swx \in CsrWord
  BY <1>9, CsrBits
<1>11. ASSUME NEW j \in Places2
       PROVE  Bit(dwx, j) = 0 /\ Bit(swx, j) = Bit(k, j) /\ Bit(dn, j) = Bit(vn, j) /\ Bit(d, j) = Bit(f, j)
  <2>0. dwx = (dw & x) /\ swx = (sw & x) /\ dw = (d & wm) /\ sw = (s & wm) /\ dn = (d & n) /\ vn = (v & n)
    OBVIOUS
  <2> HIDE DEF dw, dwx, sw, swx, dn, vn
  <2>1. /\ Bit(dw, j) = IF Bit(d, j) = 1 /\ Bit(wm, j) = 1 THEN 1 ELSE 0
        /\ Bit(sw, j) = IF Bit(s, j) = 1 /\ Bit(wm, j) = 1 THEN 1 ELSE 0
    BY <1>2, <1>4, <2>0, MergedAndCommon
  <2>2. /\ Bit(dn, j) = IF Bit(d, j) = 1 /\ Bit(n, j) = 1 THEN 1 ELSE 0
        /\ Bit(vn, j) = IF Bit(v, j) = 1 /\ Bit(n, j) = 1 THEN 1 ELSE 0
    BY <1>2, <1>4, <2>0, MergedAndCommon
  <2>3. /\ Bit(dwx, j) = IF Bit(dw, j) = 1 /\ Bit(x, j) = 1 THEN 1 ELSE 0
        /\ Bit(swx, j) = IF Bit(sw, j) = 1 /\ Bit(x, j) = 1 THEN 1 ELSE 0
    BY <1>9, <2>0, MergedAndCommon
  <2> QED  BY <1>8, <2>1, <2>2, <2>3
<1> HIDE DEF dwx, swx, dn, vn
<1>12. dwx = 0 /\ swx = k /\ dn = vn /\ d = f
  <2>1. dwx = 0
    BY <1>10, <1>11, CsrBits
  <2>2. swx = k
    BY <1>1, <1>10, <1>11, CsrBits
  <2>3. dn = vn
    BY <1>9, <1>11, CsrBits
  <2>4. d = f
    BY <1>4, <1>11, CsrBits
  <2> QED  BY <2>1, <2>2, <2>3, <2>4
<1>13. set.v = s /\ cleared.v = d
  BY <1>5, <1>6 DEF Csr
<1> HIDE DEF set, cleared
<1>14. /\ (cleared.v & wm & x) = 0 /\ (set.v & wm & x) = (wm & x)
       /\ (cleared.v & Inv(T, wm & x)) = (v & Inv(T, wm & x))
  BY <1>12, <1>13 DEF dwx, swx, dn, vn, k, n
<1> QED  BY <1>6, <1>7, <1>12, <1>14 DEF set, cleared

\* A shadow register changes and shows only what its masks and the register's let through.
LEMMA ShadowViews ==
  ASSUME NEW v \in CsrWord, NEW wm \in CsrWord, NEW rm \in CsrWord, NEW x \in CsrWord,
         NEW swm \in CsrWord, NEW srm \in CsrWord
  PROVE  LET T == 2 * W  csr == Csr(v, rm, wm)  shadow == [rm |-> srm, wm |-> swm]
             through == ShadowWrite(T, T, shadow, csr, x)  open == wm & swm IN
         /\ (through.v & Inv(T, open)) = (v & Inv(T, open))
         /\ (ShadowAs(T, shadow, through) & open) = (x & open & srm & rm)
         /\ (ShadowClearBits(T, T, shadow, ShadowSetBits(T, T, shadow, csr, x), x).v & open & x) = 0
<1> DEFINE T == 2 * W  csr == Csr(v, rm, wm)  shadow == [rm |-> srm, wm |-> swm]
           open == wm & swm  n == Inv(2 * W, wm & swm)
           t1 == Merge(x, v, swm)  t == Merge(t1, v, wm)
           u == v | x  s1 == Merge(u, v, swm)  s == Merge(s1, v, wm)
           i == Inv(2 * W, x)  c == s & i  d1 == Merge(c, s, swm)  d == Merge(d1, s, wm)
<1>1. open \in CsrWord /\ t1 \in CsrWord /\ u \in CsrWord /\ i \in CsrWord
  BY CsrBits, MergeBits
<1>2. n \in CsrWord /\ t \in CsrWord /\ s1 \in CsrWord
  BY <1>1, CsrBits, MergeBits
<1>3. s \in CsrWord
  BY <1>2, MergeBits
<1>4. c \in CsrWord
  BY <1>1, <1>3, CsrBits
<1>5. d1 \in CsrWord
  BY <1>3, <1>4, MergeBits
<1>6. d \in CsrWord
  BY <1>3, <1>5, MergeBits
<1> DEFINE through == ShadowWrite(T, T, shadow, csr, x)  set == ShadowSetBits(T, T, shadow, csr, x)
           cleared == ShadowClearBits(T, T, shadow, set, x)
<1>7. through = Csr(t, rm, wm) /\ set = Csr(s, rm, wm)
  BY ShadowWrites
<1>8. cleared = Csr(d, rm, wm)
  <2>1. cleared = ShadowClearBits(T, T, shadow, Csr(s, rm, wm), x)
    BY <1>7
  <2> HIDE DEF s
  <2> QED  BY <2>1, <1>3, ShadowWrites
<1>9. ASSUME NEW j \in Places2
      PROVE  /\ Bit(v, j) \in 0 .. 1 /\ Bit(x, j) \in 0 .. 1 /\ Bit(wm, j) \in 0 .. 1 /\ Bit(swm, j) \in 0 .. 1
             /\ Bit(srm, j) \in 0 .. 1 /\ Bit(rm, j) \in 0 .. 1
             /\ Bit(open, j) = IF Bit(wm, j) = 1 /\ Bit(swm, j) = 1 THEN 1 ELSE 0
             /\ Bit(n, j) = 1 - Bit(open, j)
             /\ Bit(t, j) = IF Bit(open, j) = 1 THEN Bit(x, j) ELSE Bit(v, j)
             /\ Bit(d, j) = IF Bit(open, j) = 1 /\ Bit(x, j) = 1 THEN 0 ELSE Bit(v, j)
  <2>1. /\ Bit(v, j) \in 0 .. 1 /\ Bit(x, j) \in 0 .. 1 /\ Bit(wm, j) \in 0 .. 1 /\ Bit(swm, j) \in 0 .. 1
        /\ Bit(srm, j) \in 0 .. 1 /\ Bit(rm, j) \in 0 .. 1
    BY CsrBits
  <2>2. Bit(open, j) = IF Bit(wm, j) = 1 /\ Bit(swm, j) = 1 THEN 1 ELSE 0
    BY CsrBits
  <2>3. Bit(n, j) = 1 - Bit(open, j)
    BY <1>1, CsrBits
  <2>4. Bit(i, j) = 1 - Bit(x, j) /\ Bit(u, j) = IF Bit(v, j) = 1 \/ Bit(x, j) = 1 THEN 1 ELSE 0
    BY CsrBits
  <2>0. /\ t1 = Merge(x, v, swm) /\ t = Merge(t1, v, wm) /\ s1 = Merge(u, v, swm) /\ s = Merge(s1, v, wm)
        /\ c = (s & i) /\ d1 = Merge(c, s, swm) /\ d = Merge(d1, s, wm)
    OBVIOUS
  <2> HIDE DEF open, n, t1, t, u, s1, s, i, c, d1, d
  <2>5. Bit(t1, j) = IF Bit(swm, j) = 1 THEN Bit(x, j) ELSE Bit(v, j)
    BY <2>0, MergedAndCommon
  <2>6. Bit(t, j) = IF Bit(wm, j) = 1 THEN Bit(t1, j) ELSE Bit(v, j)
    BY <1>1, <2>0, MergedAndCommon
  <2>7. Bit(s1, j) = IF Bit(swm, j) = 1 THEN Bit(u, j) ELSE Bit(v, j)
    BY <1>1, <2>0, MergedAndCommon
  <2>8. Bit(s, j) = IF Bit(wm, j) = 1 THEN Bit(s1, j) ELSE Bit(v, j)
    BY <1>2, <2>0, MergedAndCommon
  <2>9. Bit(c, j) = IF Bit(s, j) = 1 /\ Bit(i, j) = 1 THEN 1 ELSE 0
    BY <1>1, <1>3, <2>0, MergedAndCommon
  <2>10. Bit(d1, j) = IF Bit(swm, j) = 1 THEN Bit(c, j) ELSE Bit(s, j)
    BY <1>3, <1>4, <2>0, MergedAndCommon
  <2>11. Bit(d, j) = IF Bit(wm, j) = 1 THEN Bit(d1, j) ELSE Bit(s, j)
    BY <1>3, <1>5, <2>0, MergedAndCommon
  <2> QED  BY <2>1, <2>2, <2>3, <2>4, <2>5, <2>6, <2>7, <2>8, <2>9, <2>10, <2>11
<1> HIDE DEF open, n, t, d
<1> DEFINE tn == t & n  vn == v & n  tr == t & rm  trs == tr & srm  tro == trs & open
           xo == x & open  xos == xo & srm  xor == xos & rm  do == d & open  dx == do & x
<1>10. tn \in CsrWord /\ vn \in CsrWord /\ tr \in CsrWord /\ xo \in CsrWord /\ do \in CsrWord
  BY <1>1, <1>2, <1>6, CsrBits
<1>11. trs \in CsrWord /\ xos \in CsrWord /\ dx \in CsrWord
  BY <1>10, CsrBits
<1>12. tro \in CsrWord /\ xor \in CsrWord
  BY <1>1, <1>11, CsrBits
<1>13. ASSUME NEW j \in Places2
       PROVE  Bit(tn, j) = Bit(vn, j) /\ Bit(tro, j) = Bit(xor, j) /\ Bit(dx, j) = 0
  <2>0. /\ tn = (t & n) /\ vn = (v & n) /\ tr = (t & rm) /\ trs = (tr & srm) /\ tro = (trs & open)
        /\ xo = (x & open) /\ xos = (xo & srm) /\ xor = (xos & rm) /\ do = (d & open) /\ dx = (do & x)
    OBVIOUS
  <2> HIDE DEF tn, vn, tr, trs, tro, xo, xos, xor, do, dx
  <2>1. /\ Bit(tn, j) = IF Bit(t, j) = 1 /\ Bit(n, j) = 1 THEN 1 ELSE 0
        /\ Bit(vn, j) = IF Bit(v, j) = 1 /\ Bit(n, j) = 1 THEN 1 ELSE 0
        /\ Bit(tr, j) = IF Bit(t, j) = 1 /\ Bit(rm, j) = 1 THEN 1 ELSE 0
    BY <1>2, <2>0, MergedAndCommon
  <2>2. /\ Bit(xo, j) = IF Bit(x, j) = 1 /\ Bit(open, j) = 1 THEN 1 ELSE 0
        /\ Bit(do, j) = IF Bit(d, j) = 1 /\ Bit(open, j) = 1 THEN 1 ELSE 0
    BY <1>1, <1>6, <2>0, MergedAndCommon
  <2>3. /\ Bit(trs, j) = IF Bit(tr, j) = 1 /\ Bit(srm, j) = 1 THEN 1 ELSE 0
        /\ Bit(xos, j) = IF Bit(xo, j) = 1 /\ Bit(srm, j) = 1 THEN 1 ELSE 0
        /\ Bit(dx, j) = IF Bit(do, j) = 1 /\ Bit(x, j) = 1 THEN 1 ELSE 0
    BY <1>10, <2>0, MergedAndCommon
  <2>4. /\ Bit(tro, j) = IF Bit(trs, j) = 1 /\ Bit(open, j) = 1 THEN 1 ELSE 0
        /\ Bit(xor, j) = IF Bit(xos, j) = 1 /\ Bit(rm, j) = 1 THEN 1 ELSE 0
    BY <1>1, <1>11, <2>0, MergedAndCommon
  <2> QED  BY <1>9, <2>1, <2>2, <2>3, <2>4
<1> HIDE DEF tn, vn, tro, xor, dx
<1>14. tn = vn /\ tro = xor /\ dx = 0
  <2>1. tn = vn
    BY <1>10, <1>13, CsrBits
  <2>2. tro = xor
    BY <1>12, <1>13, CsrBits
  <2>3. dx = 0
    BY <1>11, <1>13, CsrBits
  <2> QED  BY <2>1, <2>2, <2>3
<1>15. through.v = t /\ cleared.v = d /\ ShadowAs(T, shadow, through) = trs
  <2>1. through.v = t /\ through.rm = rm /\ cleared.v = d /\ shadow.rm = srm
    BY <1>7, <1>8 DEF Csr
  <2>2. SimpleGet(T, through) = t
    <3>1. SimpleGet(T, Csr(t, rm, wm)) = t
      BY <1>2, CsrWrites
    <3> QED  BY <3>1, <1>7
  <2> QED  BY <2>1, <2>2 DEF ShadowAs, SimpleAs
<1> HIDE DEF through, cleared, trs
<1>16. /\ (through.v & Inv(T, open)) = (v & Inv(T, open))
       /\ (ShadowAs(T, shadow, through) & open) = (x & open & srm & rm)
       /\ (cleared.v & open & x) = 0
  BY <1>14, <1>15 DEF tn, vn, tro, xor, xos, xo, do, dx, n, open
<1> QED  BY <1>16 DEF through, cleared, set, open

\* A CSR set whose two maps name the same registers, each by its index and its name.
SetsAgree(s) ==
  /\ IsFiniteSet(DOMAIN s.byIndex) /\ IsFiniteSet(DOMAIN s.byName)
  /\ Cardinality(DOMAIN s.byIndex) = Cardinality(DOMAIN s.byName)
  /\ \A i \in DOMAIN s.byIndex :
       /\ s.byIndex[i].index = i /\ s.byIndex[i].name \in DOMAIN s.byName
       /\ s.byName[s.byIndex[i].name] = s.byIndex[i]
  /\ \A n \in DOMAIN s.byName :
       /\ s.byName[n].name = n /\ s.byName[n].index \in DOMAIN s.byIndex
       /\ s.byIndex[s.byName[n].index] = s.byName[n]

\* The empty set agrees, an addition keeps it so, refused or not, and so does a removal.
LEMMA SetsStayAgreeing ==
  /\ SetsAgree(EmptyCsrSet)
  /\ \A s, csr : SetsAgree(s) => SetsAgree(AddCsr(s, csr))
  /\ \A s, index : SetsAgree(s) => SetsAgree(RemoveCsr(s, index))
<1>1. SetsAgree(EmptyCsrSet)
  <2>1. EmptyCsrSet.byIndex = <<>> /\ EmptyCsrSet.byName = <<>> /\ DOMAIN <<>> = {}
    BY DEF EmptyCsrSet
  <2>2. IsFiniteSet({})
    BY FS_EmptySet
  <2> QED  BY <2>1, <2>2 DEF SetsAgree
<1>2. ASSUME NEW s, NEW csr, SetsAgree(s) PROVE SetsAgree(AddCsr(s, csr))
  <2> DEFINE f == s.byIndex  g == s.byName  i0 == csr.index  n0 == csr.name  t == AddCsr(s, csr)
             F == Insert(f, i0, csr)  G == Insert(g, n0, csr)
  <2>1. CASE i0 \in DOMAIN f \/ n0 \in DOMAIN g
    BY <1>2, <2>1 DEF AddCsr
  <2>2. CASE ~(i0 \in DOMAIN f \/ n0 \in DOMAIN g)
    <3>1. t.byIndex = F /\ t.byName = G
      BY <2>2 DEF AddCsr
    <3>2. /\ DOMAIN F = DOMAIN f \cup {i0} /\ F[i0] = csr /\ \A i \in DOMAIN f : F[i] = f[i]
          /\ DOMAIN G = DOMAIN g \cup {n0} /\ G[n0] = csr /\ \A n \in DOMAIN g : G[n] = g[n]
      BY <2>2 DEF Insert
    <3>3. /\ IsFiniteSet(DOMAIN f) /\ IsFiniteSet(DOMAIN g) /\ Cardinality(DOMAIN f) = Cardinality(DOMAIN g)
          /\ \A i \in DOMAIN f : f[i].index = i /\ f[i].name \in DOMAIN g /\ g[f[i].name] = f[i]
          /\ \A n \in DOMAIN g : g[n].name = n /\ g[n].index \in DOMAIN f /\ f[g[n].index] = g[n]
      BY <1>2 DEF SetsAgree
    <3> HIDE DEF f, g, F, G, t
    <3>4. /\ IsFiniteSet(DOMAIN F) /\ Cardinality(DOMAIN F) = Cardinality(DOMAIN f) + 1
          /\ IsFiniteSet(DOMAIN G) /\ Cardinality(DOMAIN G) = Cardinality(DOMAIN g) + 1
      BY <2>2, <3>2, <3>3, FS_AddElement
    <3>5. \A i \in DOMAIN F : F[i].index = i /\ F[i].name \in DOMAIN G /\ G[F[i].name] = F[i]
      BY <2>2, <3>2, <3>3
    <3>6. \A n \in DOMAIN G : G[n].name = n /\ G[n].index \in DOMAIN F /\ F[G[n].index] = G[n]
      BY <2>2, <3>2, <3>3
    <3>7. Cardinality(DOMAIN F) = Cardinality(DOMAIN G)
      BY <3>3, <3>4
    <3>8. SetsAgree(t)
      BY <3>1, <3>4, <3>5, <3>6, <3>7 DEF SetsAgree
    <3> QED  BY <3>8 DEF t
  <2> QED  BY <2>1, <2>2
<1>3. ASSUME NEW s, NEW index, SetsAgree(s) PROVE SetsAgree(RemoveCsr(s, index))
  <2> DEFINE f == s.byIndex  g == s.byName  t == RemoveCsr(s, index)  n0 == f[index].name
             F == Restrict(f, DOMAIN f \ {index})  G == Restrict(g, DOMAIN g \ {n0})
  <2>1. CASE index \notin DOMAIN f
    BY <1>3, <2>1 DEF RemoveCsr
  <2>2. CASE index \in DOMAIN f
    <3>1. t.byIndex = F /\ t.byName = G
      BY <2>2 DEF RemoveCsr
    <3>2. /\ DOMAIN F = DOMAIN f \ {index} /\ \A i \in DOMAIN F : F[i] = f[i]
          /\ DOMAIN G = DOMAIN g \ {n0} /\ \A n \in DOMAIN G : G[n] = g[n]
      BY DEF Restrict
    <3>3. /\ IsFiniteSet(DOMAIN f) /\ IsFiniteSet(DOMAIN g) /\ Cardinality(DOMAIN f) = Cardinality(DOMAIN g)
          /\ \A i \in DOMAIN f : f[i].index = i /\ f[i].name \in DOMAIN g /\ g[f[i].name] = f[i]
          /\ \A n \in DOMAIN g : g[n].name = n /\ g[n].index \in DOMAIN f /\ f[g[n].index] = g[n]
      BY <1>3 DEF SetsAgree
    <3>9. n0 \in DOMAIN g /\ g[n0] = f[index] /\ n0 = f[index].name
      BY <2>2, <3>3
    <3> HIDE DEF f, g, F, G, t, n0
    <3>4. /\ IsFiniteSet(DOMAIN F) /\ Cardinality(DOMAIN F) = Cardinality(DOMAIN f) - 1
          /\ IsFiniteSet(DOMAIN G) /\ Cardinality(DOMAIN G) = Cardinality(DOMAIN g) - 1
      <4>1. index \in DOMAIN f /\ IsFiniteSet(DOMAIN f)
        BY <2>2, <3>3 DEF f
      <4>2. IsFiniteSet(DOMAIN F) /\ Cardinality(DOMAIN F) = Cardinality(DOMAIN f) - 1
        BY <3>2, <4>1, FS_RemoveElement
      <4>3. IsFiniteSet(DOMAIN G) /\ Cardinality(DOMAIN G) = Cardinality(DOMAIN g) - 1
        BY <3>2, <3>3, <3>9, FS_RemoveElement
      <4> QED  BY <4>2, <4>3
    <3>5. \A i \in DOMAIN F : F[i].index = i /\ F[i].name \in DOMAIN G /\ G[F[i].name] = F[i]
      BY <2>2, <3>2, <3>3, <3>9
    <3>6. \A n \in DOMAIN G : G[n].name = n /\ G[n].index \in DOMAIN F /\ F[G[n].index] = G[n]
      BY <2>2, <3>2, <3>3, <3>9
    <3>7. Cardinality(DOMAIN F) = Cardinality(DOMAIN G)
      BY <3>3, <3>4
    <3>8. SetsAgree(t)
      BY <3>1, <3>4, <3>5, <3>6, <3>7 DEF SetsAgree
    <3> QED  BY <3>8 DEF t
  <2> QED  BY <2>1, <2>2
<1> QED  BY <1>1, <1>2, <1>3

\* In such a set a register found by its index has it, and is the one found by its name.
LEMMA FoundAlike ==
  ASSUME NEW s, SetsAgree(s), NEW i, NEW c \in GetCsr(s, i)
  PROVE  c.index = i /\ GetCsrByName(s, c.name) = {c}
<1>1. i \in DOMAIN s.byIndex /\ c = s.byIndex[i]
  BY DEF GetCsr
<1> QED  BY <1>1 DEF SetsAgree, GetCsrByName

\* misa shows RV32 code the value it was built from, and RV32 as its width.
LEMMA MisaViews ==
  ASSUME Types, NEW x
  PROVE  LET T == 2 * W  misa == MisaInit32(T, Wide(vs2, vs1)) IN
         /\ MisaAsUint32(T, MisaWrite(misa, x)) = (Wide(vs2, vs1) & (3 * 2^(T-2) + MaxU(T-6)))
         /\ vs2 \div 2^(W-2) = 1 => MisaXlen(T, misa) = "RV32"
<1> DEFINE T == 2 * W  n == 2 * T  z == Wide(vs2, vs1)  misa == MisaInit32(T, z)
           top == z \div 2^(T-2)  ext == z % 2^(T-6)  low == z % 2^(T-2)  mask == MaxU(T-6)
           p2 == 2^(T-2)  p6 == 2^(T-6)  pp == 2^(2*T-2)  pT == 2^T  d == 2^4
<1>1. /\ W \in Nat /\ 4 <= W /\ n = 4 * W /\ n \in Nat /\ Powers(n) /\ T \in 0 .. n /\ T - 2 \in 0 .. n /\ T - 6 \in 0 .. n
      /\ 2 * T - 2 \in 0 .. n /\ T - 2 \in Nat /\ T - 6 \in Nat /\ T \in Nat
  BY MoreWidths
<1>2. /\ p2 \in Nat \ {0} /\ p6 \in Nat \ {0} /\ pp \in Nat \ {0} /\ pT \in Nat \ {0} /\ d \in Nat \ {0}
      /\ p2 = p6 * d /\ pp = pT * p2 /\ p6 <= p2
  <2>1. (T - 6) + 4 = T - 2 /\ T + (T - 2) = 2 * T - 2 /\ 4 \in Nat /\ T - 2 <= n /\ 2 * T - 2 <= n /\ 4 \in 0 .. n
       /\ (T - 6) + 4 <= n /\ T + (T - 2) <= n
    BY <1>1
  <2>2. 2^((T - 6) + 4) = p6 * d /\ 2^(T + (T - 2)) = pT * p2
    <3>1. n \in Nat /\ Powers(n) /\ T \in Nat /\ T - 6 \in Nat /\ T - 2 \in Nat
      BY <1>1
    <3> HIDE DEF n, T
    <3>2. 2^((T - 6) + 4) = p6 * d
      BY <2>1, <3>1, PowersAdd, ZenonT(40)
    <3>3. 2^(T + (T - 2)) = pT * p2
      BY <2>1, <3>1, PowersAdd, ZenonT(40)
    <3> QED  BY <3>2, <3>3
  <2>3. p2 \in Nat \ {0} /\ p6 \in Nat \ {0} /\ pp \in Nat \ {0} /\ pT \in Nat \ {0} /\ d \in Nat \ {0}
    <3> HIDE DEF n, T
    <3> QED  BY <1>1, <2>1, PowersPositive
  <2>4. p2 = p6 * d /\ pp = pT * p2
    BY <2>1, <2>2
  <2> HIDE DEF p2, p6, pp, pT, d
  <2>5. p6 * 1 <= p6 * d
    BY <2>3
  <2> QED  BY <2>3, <2>4, <2>5
<1>3. z \in Nat /\ z \in Word(T)
  BY WideWord DEF Types
<1> HIDE DEF z
<1>4. top \in Nat /\ low \in Word(T-2) /\ z = top * p2 + low /\ ext \in Word(T-6)
  <2> HIDE DEF n, T
  <2> QED  BY <1>1, <1>3, BitsOfRemainder
<1>5. mask \in Word(T-6)
  BY <1>2 DEF Word, MaxU
<1>6. ASSUME NEW q \in Nat, NEW r \in Word(T-6)
      PROVE  CompressMisa64(T, q * pp + r) = q * p2 + r /\ Shr(q * pp + r, 2 * T - 2) = q
  <2>1. r \in Word(T-2) /\ r \in Nat
    BY <1>2, <1>6 DEF Word
  <2>2. r \in Word(2*T-2)
    <3>1. p2 <= pp
      <4> HIDE DEF p2, pp, pT
      <4>1. 1 * p2 <= pT * p2
        BY <1>2
      <4> QED  BY <4>1, <1>2
    <3> QED  BY <2>1, <3>1, <1>2 DEF Word
  <2>3. (q * pp + r) \div 2^(2*T-2) = q
    <3> HIDE DEF n, T
    <3> QED  BY <1>1, <2>2, BitsOfParts
  <2>4. (q * pp + r) % p2 = r
    <3> DEFINE Q == q * pT
    <3>1. Q \in Nat
      BY <1>2
    <3>2. q * pp = Q * p2
      <4> HIDE DEF p2, pp, pT
      <4>1. q * (pT * p2) = (q * pT) * p2
        BY <1>2
      <4> QED  BY <4>1, <1>2
    <3> HIDE DEF Q
    <3>3. (Q * p2 + r) % 2^(T-2) = r
      <4> DEFINE k == T - 2
      <4>1. n \in Nat /\ Powers(n) /\ k \in 0 .. n /\ r \in Word(k)
        BY <1>1, <2>1
      <4> HIDE DEF n, T, k
      <4>2. (Q * 2^k + r) % 2^k = r
        BY <3>1, <4>1, BitsOfParts
      <4> QED  BY <4>2 DEF k
    <3> QED  BY <3>2, <3>3
  <2> QED  BY <2>3, <2>4 DEF CompressMisa64, Shr
<1>7. misa.v = top * pp + ext /\ MisaReadMask(T) = 3 * pp + mask
  BY DEF MisaInit32, StretchMisa32, Shr, MisaReadMask
<1>8. CompressMisa64(T, misa.v) = top * p2 + ext /\ CompressMisa64(T, MisaReadMask(T)) = 3 * p2 + mask
      /\ Shr(misa.v, 2 * T - 2) = top
  <2>1. 3 \in Nat
    OBVIOUS
  <2> HIDE DEF T, misa, top, ext, mask, p2, pp
  <2> QED  BY <1>4, <1>5, <1>6, <1>7, <2>1
<1>9. /\ ((top * p2 + ext) & (3 * p2 + mask)) = (top & 3) * p2 + (ext & mask)
      /\ ((top * p2 + low) & (3 * p2 + mask)) = (top & 3) * p2 + (low & mask)
  <2>1. ext \in Word(T-2) /\ mask \in Word(T-2) /\ 3 \in Nat
    BY <1>2, <1>4, <1>5 DEF Word
  <2> HIDE DEF n, T, top, ext, low, mask
  <2> QED  BY <1>1, <1>4, <2>1, AndParts
<1>10. (ext & mask) = ext % p6 /\ (low & mask) = low % p6
  <2>1. ext \in Nat /\ low \in Nat
    BY <1>2, <1>4 DEF Word
  <2> HIDE DEF n, T, ext, low
  <2> QED  BY <1>1, <2>1, MaskKeeps
<1>11. ext % p6 = ext /\ low % p6 = ext
  <2>1. ext \in 0 .. p6 - 1 /\ low \in 0 .. p2 - 1
    BY <1>4, <1>2 DEF Word
  <2>2. ext = z % p6
    OBVIOUS
  <2> HIDE DEF ext, low, top, p6, p2, d
  <2>3. ext % p6 = ext
    BY <2>1, <1>2
  <2> DEFINE a == low \div p6  r == low % p6
  <2>4. a \in Int /\ r \in 0 .. p6 - 1 /\ low = p6 * a + r
    <3>1. low \in Int /\ p6 \in Nat \ {0}
      BY <2>1, <1>2
    <3> QED  BY <3>1, DivMod
  <2> HIDE DEF a, r
  <2> DEFINE b == top * d + a
  <2>5. b \in Int /\ z = b * p6 + r
    <3>1. b \in Int /\ top * d \in Int
      BY <1>2, <1>4, <2>4
    <3>2. (top * d + a) * p6 = top * (p6 * d) + p6 * a
      BY <1>2, <1>4, <2>4
    <3> QED  BY <3>1, <3>2, <1>2, <1>4, <2>4
  <2> HIDE DEF b
  <2>6. z % p6 = r
    <3>1. z \in Int /\ p6 \in Nat \ {0}
      BY <1>2, <1>3
    <3> QED  BY <3>1, <2>4, <2>5, Unique
  <2> QED  BY <2>2, <2>3, <2>6 DEF r
<1>12. MisaAsUint32(T, MisaWrite(misa, x)) = (z & (3 * p2 + mask))
  <2> HIDE DEF T, misa, top, ext, low, mask, p2, p6, pp
  <2> QED  BY <1>4, <1>8, <1>9, <1>10, <1>11 DEF MisaAsUint32, MisaWrite
<1>13. ASSUME vs2 \div 2^(W-2) = 1 PROVE MisaXlen(T, misa) = "RV32"
  <2> DEFINE a == 2^W  b == 2^(W-2)
  <2>1. a \in Nat \ {0} /\ b \in Nat \ {0} /\ p2 = a * b /\ z = vs2 * a + vs1 /\ vs1 \in 0 .. a-1 /\ vs2 \in Nat
    <3>1. W \in 0 .. n /\ W - 2 \in 0 .. n /\ W - 2 \in Nat /\ W + (W - 2) = T - 2 /\ T - 2 <= n
      BY <1>1
    <3>2. 2^(W + (W - 2)) = a * b
      <4> HIDE DEF n, T
      <4> QED  BY <1>1, <3>1, PowersAdd
    <3>3. a \in Nat \ {0} /\ b \in Nat \ {0}
      <4> HIDE DEF n
      <4> QED  BY <1>1, <3>1, PowersPositive
    <3> QED  BY <3>1, <3>2, <3>3, WordFacts DEF Types, Word, z, Wide
  <2> HIDE DEF a, b
  <2>2. z \div a = vs2
    <3>1. z \in Int /\ vs2 \in Int
      BY <1>3, <2>1
    <3> QED  BY <2>1, <3>1, Unique
  <2>3. z \div (a * b) = (z \div a) \div b
    <3>1. z \in Int
      BY <1>3
    <3> QED  BY <3>1, <2>1, DivDiv
  <2>4. top = 1
    BY <1>13, <2>1, <2>2, <2>3 DEF b
  <2>5. (1 & 2833) = 1
    <3> DEFINE y == 1 & 2833
    <3>1. 1 \in Nat /\ 2833 \in Nat /\ 1 \div 2 = 0 /\ 2833 \div 2 = 1416 /\ 1 % 2 = 1 /\ 2833 % 2 = 1 /\ 1416 \in Nat /\ 0 \in Nat
      OBVIOUS
    <3>2. y \in Nat /\ y \div 2 = (1 \div 2) & (2833 \div 2) /\ y % 2 = (1 % 2) * (2833 % 2)
      BY <3>1, AndBits
    <3>3. (0 & 1416) = 0
      BY <3>1, AndBits
    <3>4. y \in Nat /\ y \div 2 = 0 /\ y % 2 = 1
      BY <3>1, <3>2, <3>3
    <3> HIDE DEF y
    <3>5. y = 1
      BY <3>4, Half
    <3> QED  BY <3>5 DEF y
  <2>6. (Shr(misa.v, 2 * T - 2) & 2833) = 1
    BY <1>8, <2>4, <2>5
  <2> DEFINE mxl == Shr(misa.v, 2 * T - 2) & 2833
  <2>7. MisaXlen(T, misa) = CASE mxl = 1 -> "RV32" [] mxl = 2 -> "RV64" [] OTHER -> "RVUnknown"
    <3> HIDE DEF misa, T
    <3> QED  BY Zenon DEF MisaXlen, mxl
  <2>8. mxl = 1 /\ mxl # 2
    BY <2>6
  <2> HIDE DEF mxl
  <2> QED  BY Zenon, <2>7, <2>8
<1> QED  BY <1>12, <1>13 DEF z

\* csrrw is a read of the register and then a write of the same operand.
LEMMA ReadThenWrite ==
  ASSUME NEW ok, NEW T, NEW a, NEW b, NEW c
  PROVE  LET hart == [rs1 |-> a, rd |-> b, csr |-> c]
         IN  RVZiCsrrw(ok, T, hart) = RVZiCsrrwNr(ok, T, RVZiCsrrNw(ok, T, hart))
<1> DEFINE hart == [rs1 |-> a, rd |-> b, csr |-> c]  r == SimpleAs(T, c)  w == SimpleWrite(T, T, c, a)
           read == [rs1 |-> a, rd |-> r, csr |-> c]
<1>1. CASE ok
  <2>1. RVZiCsrrw(ok, T, hart) = [rs1 |-> a, rd |-> r, csr |-> w]
    BY <1>1 DEF RVZiCsrrw
  <2>2. RVZiCsrrNw(ok, T, hart) = read
    BY <1>1 DEF RVZiCsrrNw
  <2>3. RVZiCsrrwNr(ok, T, read) = [rs1 |-> a, rd |-> r, csr |-> w]
    BY <1>1 DEF RVZiCsrrwNr
  <2> QED  BY <2>1, <2>2, <2>3
<1>2. CASE ~ok
  BY <1>2 DEF RVZiCsrrw, RVZiCsrrwNr, RVZiCsrrNw
<1> QED  BY <1>1, <1>2

\* The views of one CSR agree, whatever the registers hold.
LEMMA ViewsAgreeHold == Types => ViewsAgree
<1> SUFFICES ASSUME Types PROVE ViewsAgree
  OBVIOUS
<1> DEFINE T == 2 * W
           v == Wide(vs2, vs1)  rm == Wide(vd, vs2)  wm == Wide(vs1, vd)
           srm == Wide(vs2, vd)  swm == Wide(vd, vxrm)  x == Wide(vxrm, vs2)
           csr == [v |-> v, rm |-> rm, wm |-> wm]
           shadow == [rm |-> srm, wm |-> swm]
           db == AllocateDataBuffer(T, x)
           set == SetBitsDb(T, csr, db)  cleared == ClearBitsDb(T, set, db)
           through == ShadowWrite(T, T, shadow, csr, x)
           open == wm & swm
           misa == MisaInit32(T, v)
           hart == [rs1 |-> x, rd |-> vd, csr |-> csr]
           named(n) == [index |-> n % 3, name |-> Shr(n, 2) % 3]
           added == AddCsr(AddCsr(AddCsr(EmptyCsrSet, named(vs2)), named(vs1)), named(vd))
           sets == {added, RemoveCsr(added, vxrm), AddCsr(RemoveCsr(added, vs1 % 3), named(vs2))}
<1>1. /\ v \in CsrWord /\ rm \in CsrWord /\ wm \in CsrWord
      /\ srm \in CsrWord /\ swm \in CsrWord /\ x \in CsrWord
  <2>1. vxrm \in Word(W) /\ vs2 \in Word(W) /\ vs1 \in Word(W) /\ vd \in Word(W)
    <3>1. 2^W \in Nat /\ 4 <= 2^W
      <4>1. 2^W = 2 * 2^(W - 1) /\ 2^(W - 1) = 2 * 2^(W - 2) /\ 2^(W - 2) \in Nat \ {0}
        <5>1. W - 2 \in 0 .. W - 1 /\ W - 2 \in 0 .. W /\ W - 1 = (W - 2) + 1 /\ W \in Nat
          BY MoreWidths
        <5>2. 2^((W - 2) + 1) = 2 * 2^(W - 2)
          BY <5>1, Widths DEF Powers
        <5>3. 2^(W - 2) \in Nat \ {0}
          BY <5>1, Widths, PowersPositive
        <5> QED  BY <5>1, <5>2, <5>3, Widths DEF TwosComplement
      <4> QED  BY <4>1
    <3> QED  BY <3>1 DEF Types, Word
  <2> QED  BY <2>1, WideWord DEF CsrWord
<1>2. csr = Csr(v, rm, wm) /\ csr.wm = wm /\ csr.rm = rm /\ csr.v = v /\ shadow.rm = srm /\ shadow.wm = swm
  BY DEF Csr
<1>3. /\ (cleared.v & wm & x) = 0 /\ (set.v & wm & x) = (wm & x)
      /\ (cleared.v & Inv(T, wm & x)) = (v & Inv(T, wm & x))
      /\ cleared = WriteDb(T, csr, AllocateDataBuffer(T, v & Inv(T, x)))
  <2> HIDE DEF v, rm, wm, x
  <2>1. LET c == Csr(v, rm, wm)  s == SetBitsDb(T, c, db)  e == ClearBitsDb(T, s, db) IN
         /\ (e.v & wm & x) = 0 /\ (s.v & wm & x) = (wm & x)
         /\ (e.v & Inv(T, wm & x)) = (v & Inv(T, wm & x))
         /\ e = WriteDb(T, c, AllocateDataBuffer(T, v & Inv(T, x)))
    BY <1>1, BufferViews
  <2> QED  BY <2>1 DEF Csr
<1>4. /\ (through.v & Inv(T, open)) = (v & Inv(T, open))
      /\ (ShadowAs(T, shadow, through) & open) = (x & open & srm & rm)
      /\ (ShadowClearBits(T, T, shadow, ShadowSetBits(T, T, shadow, csr, x), x).v & open & x) = 0
  <2> HIDE DEF v, rm, wm, x, srm, swm
  <2> QED  BY <1>1, ShadowViews DEF Csr
<1>5. RVZiCsrrw(m, T, hart) = RVZiCsrrwNr(m, T, RVZiCsrrNw(m, T, hart))
  <2> HIDE DEF x, csr, T
  <2> QED  BY ReadThenWrite
<1>6. \A s \in sets : SetsAgree(s)
  <2> HIDE DEF named
  <2>1. SetsAgree(added)
    BY SetsStayAgreeing
  <2> HIDE DEF added
  <2>2. SetsAgree(RemoveCsr(added, vxrm)) /\ SetsAgree(AddCsr(RemoveCsr(added, vs1 % 3), named(vs2)))
    BY <2>1, SetsStayAgreeing
  <2> QED  BY <2>1, <2>2
<1>7. /\ \A s \in sets : \A i \in 0 .. 2 : \A c \in GetCsr(s, i) :
           c.index = i /\ GetCsrByName(s, c.name) = {c}
      /\ \A s \in sets : Cardinality(DOMAIN s.byIndex) = Cardinality(DOMAIN s.byName)
  <2> HIDE DEF sets
  <2>1. ASSUME NEW s \in sets, NEW i \in 0 .. 2, NEW c \in GetCsr(s, i)
        PROVE  c.index = i /\ GetCsrByName(s, c.name) = {c}
    BY <1>6, FoundAlike
  <2>2. \A s \in sets : Cardinality(DOMAIN s.byIndex) = Cardinality(DOMAIN s.byName)
    BY <1>6 DEF SetsAgree
  <2> QED  BY <2>1, <2>2
<1>8. /\ MisaAsUint32(T, MisaWrite(misa, x)) = (v & (3 * 2^(T-2) + MaxU(T-6)))
      /\ vs2 \div 2^(W-2) = 1 => MisaXlen(T, misa) = "RV32"
  <2> HIDE DEF x
  <2> QED  BY MisaViews
<1> HIDE DEF cleared, set, through, hart, sets, misa, db
<1> QED  BY <1>2, <1>3, <1>4, <1>5, <1>7, <1>8
         DEF ViewsAgree, cleared, set, through, hart, sets, misa, db

\* Independent implementations agree for every width: the scalar and the vector
\* form of an operation, the ...w forms and the RV32 instruction, the two RV64
\* bit-manipulation files, the compares, selections and branches, and the views
\* of one CSR, in every reachable state.
THEOREM ImplementationsAreAlike == Spec => []ImplementationsAgree
<1>1. Types => ImplementationsAgree
  BY ScalarIsVector, WordFormsHold, TwoFilesAgree, OneOrderHolds, ViewsAgreeHold DEF ImplementationsAgree
<1> QED  BY <1>1, TypeCorrect, PTL

-----------------------------------------------------------------------------
(* Bit permutations and carry-less products.                               *)

\* A word reversed, once and twice.
LEMMA Reverses ==
  ASSUME NEW n \in Nat, Powers(n), NEW x \in Word(n)
  PROVE  /\ BitReverse(n, x) \in Word(n) /\ \A i \in 0 .. n-1 : Bit(BitReverse(n, x), i) = Bit(x, n - 1 - i)
         /\ BitReverse(n, BitReverse(n, x)) = x
<1>1. \A i \in 0 .. n-1 : n - 1 - i \in 0 .. n-1 /\ n - 1 - (n - 1 - i) = i
  OBVIOUS
<1>2. ASSUME NEW y \in Word(n)
      PROVE  BitReverse(n, y) \in Word(n) /\ \A i \in 0 .. n-1 : Bit(BitReverse(n, y), i) = Bit(y, n - 1 - i)
  <2> DEFINE b == [i \in 0 .. n-1 |-> Bit(y, n - 1 - i)]
  <2>1. \A i \in 0 .. n-1 : Bit(y, i) \in 0 .. 1
    BY WordBits DEF BitByBit
  <2>2. \A i \in 0 .. n-1 : b[i] \in 0 .. 1 /\ b[i] = Bit(y, n - 1 - i)
    BY <1>1, <2>1
  <2>3. BitReverse(n, y) = OfBits(n, b)
    BY DEF BitReverse
  <2> HIDE DEF b
  <2> QED  BY <2>2, <2>3, WordOfBits
<1>3. BitReverse(n, BitReverse(n, x)) = x
  <2> DEFINE y == BitReverse(n, x)  z == BitReverse(n, y)
  <2>1. y \in Word(n) /\ \A i \in 0 .. n-1 : Bit(y, i) = Bit(x, n - 1 - i)
    BY <1>2
  <2> HIDE DEF y
  <2>2. z \in Word(n) /\ \A i \in 0 .. n-1 : Bit(z, i) = Bit(y, n - 1 - i)
    BY <1>2, <2>1
  <2> HIDE DEF z
  <2>3. \A i \in 0 .. n-1 : Bit(z, i) = Bit(x, i)
    BY <1>1, <2>1, <2>2
  <2>4. z = x
    BY <2>2, <2>3, SameBits
  <2> QED  BY <2>4 DEF y, z
<1> QED  BY <1>2, <1>3

\* The bits of a byte are those of the word above its place.
LEMMA ByteBits ==
  ASSUME NEW n \in Nat, Powers(n), NEW x \in Word(n), NEW by \in Nat \ {0}, NEW K \in Nat, n = by * K,
         NEW j \in 0 .. K-1
  PROVE  /\ Byte(by, x, j) \in Word(by)
         /\ \A i \in 0 .. by-1 : Bit(Byte(by, x, j), i) = Bit(x, by * j + i)
<1> DEFINE k == by * j
<1>1. k \in Nat /\ k + by <= n /\ k \in 0 .. n /\ by \in 0 .. n
  <2>1. by * (j + 1) <= by * K /\ by * (j + 1) = k + by /\ k \in Nat
    OBVIOUS
  <2> HIDE DEF k
  <2> QED  BY <2>1
<1>2. x \in Nat
  <2>1. n \in 0 .. n
    OBVIOUS
  <2>2. 2^n \in Nat
    BY <2>1, PowersPositive
  <2> QED  BY <2>2 DEF Word
<1>3. Byte(by, x, j) = (x \div 2^k) % 2^by
  BY DEF Byte, Shr
<1> HIDE DEF k
<1> DEFINE y == x \div 2^k
<1>4. y \in Nat
  BY <1>1, <1>2, BitsOfRemainder
<1>5. y % 2^by \in Word(by)
  <2> HIDE DEF y
  <2> QED  BY <1>1, <1>4, BitsOfRemainder
<1>6. ASSUME NEW i \in 0 .. by-1 PROVE Bit(y % 2^by, i) = Bit(x, k + i)
  <2>1. i \in Nat /\ k + i <= n /\ i < by
    BY <1>1
  <2> QED  BY <1>1, <1>2, <2>1, BitOfShift
<1> QED  BY <1>3, <1>5, <1>6 DEF k

\* A sum over bytes as the library writes it, for terms F.
LEMMA ByteSum ==
  ASSUME NEW K \in Nat, NEW F \in [0 .. K-1 -> Int], NEW h,
         h = CHOOSE g : g = [s \in SUBSET (0 .. K-1) |-> SumStep(g, F, s)]
  PROVE  IsSum(h, 0 .. K-1, F)
<1> DEFINE J == 0 .. K-1
<1>1. IsFiniteSet(J)
  BY FS_Interval
<1> HIDE DEF J
<1>2. PICK g : Sums(g, J, F)
  BY <1>1, SumExists DEF J
<1>3. h = CHOOSE k : k = [s \in SUBSET J |-> SumStep(k, F, s)]
  BY DEF J
<1>4. g = [s \in SUBSET J |-> SumStep(g, F, s)]
  BY <1>2 DEF Sums
<1>5. h = [s \in SUBSET J |-> SumStep(h, F, s)]
  BY <1>3, <1>4, Zenon
<1>6. Sums(h, J, F)
  BY <1>5 DEF Sums
<1> QED  BY <1>1, <1>6, SumIsSum DEF J

\* y has the by-bit bytes of x, K of them, in reverse order.
Swapped(n, by, K, x, y) ==
  y \in Word(n) /\ \A j \in 0 .. K-1, i \in 0 .. by-1 : Bit(y, by * j + i) = Bit(x, by * (K - 1 - j) + i)

\* A byte swap turns the bytes round.
LEMMA BytesSwapped ==
  ASSUME NEW n \in Nat, Powers(n), NEW by \in Nat \ {0}, NEW K \in Nat \ {0}, n = by * K, n \div by = K,
         NEW x \in Word(n)
  PROVE  Swapped(n, by, K, x, ByteSwap(n, by, x))
<1> DEFINE J == 0 .. K-1
           b == [i \in J |-> Byte(by, x, i)]
           F == [i \in J |-> b[i] * 2^(n - by - by * i)]
           h == CHOOSE h : h = [s \in SUBSET J |-> IF s = {} THEN 0
                  ELSE LET e == CHOOSE e \in s : TRUE IN Byte(by, x, e) * 2^(n - by - by * e) + h[s \ {e}]]
           at == [j \in J |-> K - 1 - j]
           D == [j \in J |-> b[K - 1 - j]]
<1>0. by \in 0 .. n /\ 2^by \in Nat
  <2>1. by * 1 <= by * K
    OBVIOUS
  <2>2. by \in 0 .. n
    BY <2>1
  <2> QED  BY <2>2, PowersPositive
<1>1. \A j \in J : b[j] \in Word(by) /\ b[j] \in Nat /\ \A i \in 0 .. by-1 : Bit(b[j], i) = Bit(x, by * j + i)
  <2>1. ASSUME NEW j \in 0 .. K-1
        PROVE  Byte(by, x, j) \in Word(by) /\ \A i \in 0 .. by-1 : Bit(Byte(by, x, j), i) = Bit(x, by * j + i)
    <3>1. K \in Nat
      OBVIOUS
    <3> QED  BY <3>1, ByteBits
  <2>2. \A j \in J : b[j] = Byte(by, x, j)
    OBVIOUS
  <2> HIDE DEF b
  <2> QED  BY <1>0, <2>1, <2>2 DEF Word
<1>2. ByteSwap(n, by, x) = h[J]
  BY Zenon DEF ByteSwap, MapThenSumSet, MapThenFoldSet
<1>3. \A j \in J : K - 1 - j \in J /\ n - by - by * (K - 1 - j) = by * j /\ by * j \in 0 .. n
  <2> SUFFICES ASSUME NEW j \in J PROVE K - 1 - j \in J /\ n - by - by * (K - 1 - j) = by * j /\ by * j \in 0 .. n
    OBVIOUS
  <2>1. by * (K - 1 - j) = by * K - by - by * j /\ by * j \in Nat /\ by * j <= by * K
    OBVIOUS
  <2> QED  BY <2>1
<1>4. \A j \in J : n - by - by * j \in 0 .. n
  <2> SUFFICES ASSUME NEW j \in J PROVE n - by - by * j \in 0 .. n
    OBVIOUS
  <2>1. by * (j + 1) <= by * K /\ by * (j + 1) = by * j + by /\ by * j \in Nat
    OBVIOUS
  <2> QED  BY <2>1
<1>5. F \in [J -> Int] /\ \A i \in J : F[i] = b[i] * 2^(n - by - by * i)
  <2>1. ASSUME NEW i \in J PROVE b[i] * 2^(n - by - by * i) \in Int
    <3>1. 2^(n - by - by * i) \in Nat /\ b[i] \in Nat
      BY <1>1, <1>4, PowersPositive
    <3> QED  BY <3>1
  <2> HIDE DEF b
  <2> QED  BY <2>1
<1>6. ASSUME NEW k, NEW s \in SUBSET J
      PROVE  SumStep(k, F, s) = IF s = {} THEN 0
               ELSE LET e == CHOOSE e \in s : TRUE IN Byte(by, x, e) * 2^(n - by - by * e) + k[s \ {e}]
  <2> DEFINE e == CHOOSE e \in s : TRUE
  <2>1. CASE s = {}
    BY <2>1 DEF SumStep
  <2>2. CASE s # {}
    <3>1. e \in s /\ e \in J
      BY <2>2
    <3>2. F[e] = Byte(by, x, e) * 2^(n - by - by * e)
      <4> HIDE DEF e
      <4> QED  BY <3>1
    <3>3. SumStep(k, F, s) = F[e] + k[s \ {e}]
      <4> HIDE DEF F
      <4> QED  BY <2>2, Zenon DEF SumStep
    <3> HIDE DEF F
    <3> QED  BY <2>2, <3>2, <3>3
  <2> QED  BY <2>1, <2>2
<1>7. h = CHOOSE g : g = [s \in SUBSET J |-> SumStep(g, F, s)]
  <2>1. \A k : [s \in SUBSET J |-> SumStep(k, F, s)] =
          [s \in SUBSET J |-> IF s = {} THEN 0
             ELSE LET e == CHOOSE e \in s : TRUE IN Byte(by, x, e) * 2^(n - by - by * e) + k[s \ {e}]]
    <3> HIDE DEF F, J
    <3> QED  BY <1>6, Zenon
  <2> HIDE DEF F, J
  <2> QED  BY <2>1, Zenon
<1>8. IsSum(h, J, F)
  <2>1. K \in Nat
    OBVIOUS
  <2> HIDE DEF h, F
  <2> QED  BY <1>5, <1>7, <2>1, ByteSum
<1> HIDE DEF h
<1>9. Placed(J, F, K, by, at, D)
  <2>1. ASSUME NEW j \in J PROVE D[j] \in Word(by) /\ F[at[j]] = D[j] * 2^(by * j)
    <3>1. at[j] = K - 1 - j /\ D[j] = b[K - 1 - j] /\ K - 1 - j \in J /\ n - by - by * (K - 1 - j) = by * j
      BY <1>3
    <3> HIDE DEF at, D, b, F
    <3> QED  BY <1>1, <1>5, <3>1
  <2>2. at \in [J -> J] /\ \A j \in J : at[j] = K - 1 - j
    BY <1>3
  <2>3. \A i, j \in J : at[i] = at[j] => i = j
    BY <2>2
  <2>4. \A s \in J : \E j \in J : at[j] = s
    <3> SUFFICES ASSUME NEW s \in J PROVE \E j \in J : at[j] = s
      OBVIOUS
    <3>1. K - 1 - s \in J /\ at[K - 1 - s] = s
      BY <2>2
    <3> QED  BY <3>1
  <2> HIDE DEF at, D, F
  <2> QED  BY <2>1, <2>2, <2>3, <2>4 DEF Placed
<1>10. h[J] \in Word(by * K) /\ \A j \in J, i \in 0 .. by-1 : Bit(h[J], by * j + i) = Bit(D[j], i)
  <2>1. K \in Nat /\ by * K <= n
    OBVIOUS
  <2> HIDE DEF F, at, D
  <2> QED  BY <1>8, <1>9, <2>1, PlacedDigits
<1>11. \A j \in J : D[j] = b[K - 1 - j] /\ K - 1 - j \in J
  BY <1>3
<1> HIDE DEF D, b, F, at
<1>12. \A j \in J, i \in 0 .. by-1 : Bit(h[J], by * j + i) = Bit(x, by * (K - 1 - j) + i)
  <2> SUFFICES ASSUME NEW j \in J, NEW i \in 0 .. by-1
               PROVE  Bit(h[J], by * j + i) = Bit(x, by * (K - 1 - j) + i)
    OBVIOUS
  <2> DEFINE l == K - 1 - j
  <2>1. l \in J /\ D[j] = b[l]
    BY <1>11
  <2>2. Bit(h[J], by * j + i) = Bit(D[j], i)
    BY <1>10
  <2> HIDE DEF l, J
  <2>3. Bit(b[l], i) = Bit(x, by * l + i)
    BY <1>1, <2>1
  <2> QED  BY <2>1, <2>2, <2>3 DEF l
<1> QED  BY <1>2, <1>10, <1>12 DEF Swapped

\* y has the K by-bit bytes of x in place, the bits of each reversed.
Mirrored(n, by, K, x, y) ==
  y \in Word(n) /\ \A j \in 0 .. K-1, i \in 0 .. by-1 : Bit(y, by * j + i) = Bit(x, by * j + (by - 1 - i))

\* Vbrev8 keeps the bytes in place and turns round the bits of each.
LEMMA BytesReversed ==
  ASSUME NEW n \in Nat, Powers(n), NEW by \in Nat \ {0}, NEW K \in Nat \ {0}, n = by * K, n \div by = K,
         NEW x \in Word(n)
  PROVE  Mirrored(n, by, K, x, Vbrev8(n, by, x))
<1> DEFINE J == 0 .. K-1
           D == [i \in J |-> BitReverse(by, Byte(by, x, i))]
           F == [i \in J |-> D[i] * 2^(by * i)]
           h == CHOOSE h : h = [s \in SUBSET J |-> IF s = {} THEN 0
                  ELSE LET e == CHOOSE e \in s : TRUE IN BitReverse(by, Byte(by, x, e)) * 2^(by * e) + h[s \ {e}]]
           at == [j \in J |-> j]
<1>0. by \in 0 .. n /\ 2^by \in Nat /\ Powers(by) /\ by \in Nat
  <2>1. by * 1 <= by * K
    OBVIOUS
  <2>2. by \in 0 .. n
    BY <2>1
  <2> QED  BY <2>2, PowersPositive DEF Powers
<1>1. ASSUME NEW j \in J
      PROVE  D[j] \in Word(by) /\ D[j] \in Nat /\ \A i \in 0 .. by-1 : Bit(D[j], i) = Bit(x, by * j + (by - 1 - i))
  <2> DEFINE y == Byte(by, x, j)
  <2>1. y \in Word(by) /\ \A i \in 0 .. by-1 : Bit(y, i) = Bit(x, by * j + i)
    <3>1. K \in Nat
      OBVIOUS
    <3> QED  BY <3>1, ByteBits
  <2>2. D[j] = BitReverse(by, y)
    OBVIOUS
  <2> HIDE DEF y, D
  <2>3. BitReverse(by, y) \in Word(by) /\ \A i \in 0 .. by-1 : Bit(BitReverse(by, y), i) = Bit(y, by - 1 - i)
    BY <1>0, <2>1, Reverses
  <2>4. \A i \in 0 .. by-1 : by - 1 - i \in 0 .. by-1
    OBVIOUS
  <2> QED  BY <1>0, <2>1, <2>2, <2>3, <2>4 DEF Word
<1>2. Vbrev8(n, by, x) = h[J]
  BY Zenon DEF Vbrev8, MapThenSumSet, MapThenFoldSet
<1>4. \A j \in J : by * j \in 0 .. n
  <2> SUFFICES ASSUME NEW j \in J PROVE by * j \in 0 .. n
    OBVIOUS
  <2>1. by * j \in Nat /\ by * j <= by * K
    OBVIOUS
  <2> QED  BY <2>1
<1>5. F \in [J -> Int] /\ \A i \in J : F[i] = D[i] * 2^(by * i)
  <2>1. ASSUME NEW i \in J PROVE D[i] * 2^(by * i) \in Int
    <3>1. 2^(by * i) \in Nat /\ D[i] \in Nat
      BY <1>1, <1>4, PowersPositive
    <3> QED  BY <3>1
  <2> HIDE DEF D
  <2> QED  BY <2>1
<1>6. ASSUME NEW k, NEW s \in SUBSET J
      PROVE  SumStep(k, F, s) = IF s = {} THEN 0
               ELSE LET e == CHOOSE e \in s : TRUE IN BitReverse(by, Byte(by, x, e)) * 2^(by * e) + k[s \ {e}]
  <2> DEFINE e == CHOOSE e \in s : TRUE
  <2>1. CASE s = {}
    BY <2>1 DEF SumStep
  <2>2. CASE s # {}
    <3>1. e \in s /\ e \in J
      BY <2>2
    <3>2. F[e] = BitReverse(by, Byte(by, x, e)) * 2^(by * e)
      <4> HIDE DEF e
      <4> QED  BY <3>1
    <3>3. SumStep(k, F, s) = F[e] + k[s \ {e}]
      <4> HIDE DEF F
      <4> QED  BY <2>2, Zenon DEF SumStep
    <3> HIDE DEF F
    <3> QED  BY <2>2, <3>2, <3>3
  <2> QED  BY <2>1, <2>2
<1>7. h = CHOOSE g : g = [s \in SUBSET J |-> SumStep(g, F, s)]
  <2>1. \A k : [s \in SUBSET J |-> SumStep(k, F, s)] =
          [s \in SUBSET J |-> IF s = {} THEN 0
             ELSE LET e == CHOOSE e \in s : TRUE IN BitReverse(by, Byte(by, x, e)) * 2^(by * e) + k[s \ {e}]]
    <3> HIDE DEF F, J
    <3> QED  BY <1>6, Zenon
  <2> HIDE DEF F, J
  <2> QED  BY <2>1, Zenon
<1>8. IsSum(h, J, F)
  <2>1. K \in Nat
    OBVIOUS
  <2> HIDE DEF h, F
  <2> QED  BY <1>5, <1>7, <2>1, ByteSum
<1> HIDE DEF h
<1>9. Placed(J, F, K, by, at, D)
  <2>1. at \in [J -> J] /\ \A j \in J : at[j] = j
    OBVIOUS
  <2> HIDE DEF at, D, F
  <2> QED  BY <1>1, <1>5, <2>1 DEF Placed
<1>10. h[J] \in Word(by * K) /\ \A j \in J, i \in 0 .. by-1 : Bit(h[J], by * j + i) = Bit(D[j], i)
  <2>1. K \in Nat /\ by * K <= n
    OBVIOUS
  <2> HIDE DEF F, at, D
  <2> QED  BY <1>8, <1>9, <2>1, PlacedDigits
<1> HIDE DEF D, F, at
<1> QED  BY <1>1, <1>2, <1>10 DEF Mirrored

\* Reversing the bits is reversing the bytes and the bits in each.
LEMMA ReversedByBytes ==
  ASSUME Types
  PROVE  Vbrev(W, vs2) = Vrev8(W, BW, Vbrev8(W, BW, vs2)) /\ Vbrev(W, Vbrev(W, vs2)) = vs2
<1> DEFINE K == W \div BW  y == Vbrev8(W, BW, vs2)  z == ByteSwap(W, BW, y)  v == BitReverse(W, vs2)
<1>1. /\ W \in Nat /\ Powers(W) /\ vs2 \in Word(W) /\ BW \in Nat \ {0} /\ K \in Nat \ {0} /\ W = BW * K
  <2>1. W \in {4, 8, 16, 32, 64} /\ BW \in {2, 4, 8, 16, 32} /\ BW < W
    <3>1. 2^1 = 2 /\ 2^2 = 4 /\ 2^3 = 8 /\ 2^4 = 16 /\ 2^5 = 32 /\ 2^6 = 64
      OBVIOUS
    <3>2. PICK i \in 2 .. 6, j \in 1 .. 5 : W = 2^i /\ BW = 2^j
      BY WidthAssumption
    <3>3. i \in {2, 3, 4, 5, 6} /\ j \in {1, 2, 3, 4, 5}
      OBVIOUS
    <3> QED BY <3>1, <3>2, <3>3, WidthAssumption
  <2>2. \E k \in {2, 4, 8, 16, 32} : W = BW * k
    BY <2>1
  <2>3. PICK k \in {2, 4, 8, 16, 32} : W = BW * k
    BY <2>2
  <2>4. K = k
    <3>1. W \in Int /\ BW \in Nat \ {0} /\ k \in Int /\ 0 \in 0 .. BW-1 /\ W = k * BW + 0
      BY <2>1, <2>3
    <3> QED  BY <3>1, Unique
  <2> QED  BY <2>1, <2>3, <2>4, Widths DEF Types
<1>2. W \div BW = K
  OBVIOUS
<1> HIDE DEF K
<1>3. y \in Word(W) /\ \A j \in 0 .. K-1, i \in 0 .. BW-1 : Bit(y, BW * j + i) = Bit(vs2, BW * j + (BW - 1 - i))
  <2>1. Mirrored(W, BW, K, vs2, y)
    BY <1>1, <1>2, BytesReversed
  <2> QED  BY <2>1 DEF Mirrored
<1> HIDE DEF y
<1>4. z \in Word(W) /\ \A j \in 0 .. K-1, i \in 0 .. BW-1 : Bit(z, BW * j + i) = Bit(y, BW * (K - 1 - j) + i)
  <2>1. Swapped(W, BW, K, y, z)
    BY <1>1, <1>2, <1>3, BytesSwapped
  <2> QED  BY <2>1 DEF Swapped
<1>5. v \in Word(W) /\ (\A i \in 0 .. W-1 : Bit(v, i) = Bit(vs2, W - 1 - i)) /\ BitReverse(W, v) = vs2
  BY <1>1, Reverses
<1> HIDE DEF z, v
<1>6. ASSUME NEW p \in 0 .. W-1 PROVE Bit(z, p) = Bit(v, p)
  <2> DEFINE j == p \div BW  i == p % BW
  <2>1. j \in Int /\ i \in 0 .. BW-1 /\ p = BW * j + i
    <3>1. p \in Int
      OBVIOUS
    <3> QED  BY <1>1, <3>1, DivMod
  <2> HIDE DEF j, i
  <2>2. j \in 0 .. K-1
    <3>1. ASSUME j < 0 PROVE FALSE
      <4>1. BW * j <= BW * (-1)
        BY <1>1, <2>1, <3>1
      <4> QED  BY <4>1, <2>1, <1>1
    <3>2. ASSUME j >= K PROVE FALSE
      <4>1. BW * j >= BW * K
        BY <1>1, <2>1, <3>2
      <4> QED  BY <4>1, <2>1, <1>1
    <3> QED  BY <3>1, <3>2, <2>1, <1>1
  <2> DEFINE l == K - 1 - j
  <2>3. l \in 0 .. K-1 /\ BW * l + (BW - 1 - i) = W - 1 - p
    <3>1. BW * l = BW * K - BW - BW * j
      BY <1>1, <2>1
    <3>2. l \in 0 .. K-1
      <4>1. K \in Int /\ j \in 0 .. K-1
        BY <1>1, <2>2
      <4> QED  BY <4>1
    <3> HIDE DEF l
    <3> QED  BY <3>1, <3>2, <1>1, <2>1
  <2>4. Bit(z, p) = Bit(y, BW * l + i)
    BY <1>4, <2>1, <2>2
  <2> HIDE DEF l
  <2>5. Bit(y, BW * l + i) = Bit(vs2, BW * l + (BW - 1 - i))
    BY <1>3, <2>1, <2>3
  <2> QED  BY <1>5, <2>3, <2>4, <2>5
<1>7. z = v
  BY <1>1, <1>4, <1>5, <1>6, SameBits
<1> QED  BY <1>5, <1>7 DEF z, v, y, Vbrev, Vrev8

\* A rotation to the right brings back what one to the left moved.
LEMMA RotateBack ==
  ASSUME NEW w \in Nat \ {0}, Powers(w), NEW a \in Word(w), NEW k \in 0 .. w-1
  PROVE  Rotr(w, Rotl(w, a, k), k) = a
<1> DEFINE p == 2^k  r == 2^(w - k)  c == a \div r  d == a % r  z == d * p + c
<1>1. k \in 0 .. w /\ w - k \in 0 .. w /\ (w - k) + k = w /\ k \in Nat /\ w - k \in Nat /\ w \in 0 .. w
  OBVIOUS
<1>2. p \in Nat \ {0} /\ r \in Nat \ {0} /\ 2^w = r * p /\ 2^w \in Nat \ {0}
  <2>1. 2^((w - k) + k) = r * p
    BY <1>1, PowersAdd
  <2> QED  BY <1>1, <2>1, PowersPositive
<1>3. a \in 0 .. r * p - 1 /\ a \in Nat /\ a \in Int
  BY <1>2 DEF Word
<1>4. c \in Int /\ d \in 0 .. r-1 /\ a = r * c + d
  <2> HIDE DEF r
  <2> QED  BY <1>2, <1>3, DivMod
<1>5. Shl(w, a, k) = a * p % 2^w /\ Shr(a, w - k) = c
  BY DEF Shl, Shr, Trunc
<1>6. CASE k = 0
  <2>1. w - k = w
    BY <1>6
  <2>2. Rotl(w, a, 0) = Shl(w, a, 0) + Shr(a, w) /\ Rotr(w, a, 0) = Shr(a, 0) + Shl(w, a, w)
    <3>1. w - 0 = w
      OBVIOUS
    <3> QED  BY <3>1 DEF Rotl, Rotr
  <2>3. Rotl(w, a, 0) = a /\ Rotr(w, a, 0) = a
    BY <1>3, <2>2, RotateNothing
  <2> QED  BY <1>6, <2>3
<1>7. CASE k # 0
  <2> HIDE DEF p, r, c, d
  <2>1. c \in 0 .. p-1
    <3>1. c >= 0
      <4> SUFFICES ASSUME c <= -1 PROVE FALSE
        BY <1>4
      <4>1. r * c <= -r /\ r * c \in Int
        BY <1>2, <1>4
      <4> QED  BY <4>1, <1>2, <1>3, <1>4
    <3>2. c < p
      <4> SUFFICES ASSUME c >= p PROVE FALSE
        BY <1>2, <1>4
      <4>1. r * c >= r * p /\ r * c \in Int /\ r * p \in Int
        BY <1>2, <1>4
      <4> QED  BY <4>1, <1>2, <1>3, <1>4
    <3> QED  BY <3>1, <3>2, <1>2, <1>4
  <2>2. d * p \in Int /\ 0 <= d * p /\ d * p <= r * p - p /\ c * r \in Int /\ 0 <= c * r /\ c * r <= p * r - r /\ p * r = r * p
    <3>1. d * p <= (r - 1) * p /\ (r - 1) * p = r * p - p
      BY <1>2, <1>4
    <3>2. c * r <= (p - 1) * r /\ (p - 1) * r = p * r - r
      BY <1>2, <2>1
    <3>3. d * p \in Int /\ 0 <= d * p /\ c * r \in Int /\ 0 <= c * r /\ p * r = r * p
      BY <1>2, <1>4, <2>1
    <3> QED  BY <3>1, <3>2, <3>3
  <2>3. d * p \in Word(w) /\ c * r \in Word(w)
    BY <2>2, <1>2 DEF Word
  <2>4. Trunc(w, a * p) = d * p
    <3> DEFINE y == a * p  e == d * p
    <3>1. y \in Int /\ y = c * 2^w + e
      <4>1. (r * c + d) * p = c * (r * p) + d * p /\ a * p \in Int
        BY <1>2, <1>3, <1>4
      <4> QED  BY <4>1, <1>2, <1>4
    <3> HIDE DEF y
    <3>2. e \in Word(w)
      BY <2>3
    <3> HIDE DEF e
    <3>3. Trunc(w, y) = e
      BY <3>1, <3>2, <1>2, <1>4, TruncIs
    <3> QED  BY <3>3 DEF y, e
  <2>5. Rotl(w, a, k) = z
    BY <1>5, <2>4 DEF Rotl, Shl, p
  <2>6. z \in Int /\ z \div p = d
    <3>1. z \in Int /\ d \in Int
      BY <1>4, <2>1, <2>2
    <3>2. z = d * p + c
      OBVIOUS
    <3> HIDE DEF z
    <3> QED  BY <3>1, <3>2, <1>2, <2>1, Unique
  <2>7. Trunc(w, z * r) = c * r
    <3> DEFINE y == z * r  e == c * r
    <3>1. y \in Int /\ y = d * 2^w + e
      <4>1. (d * p + c) * r = d * (r * p) + c * r /\ (d * p + c) * r \in Int
        BY <1>2, <1>4, <2>1
      <4> QED  BY <4>1, <1>2
    <3> HIDE DEF y
    <3>2. e \in Word(w)
      BY <2>3
    <3> HIDE DEF e
    <3>3. d \in Int
      BY <1>4, <1>2
    <3>4. Trunc(w, y) = e
      BY <3>1, <3>2, <3>3, <1>2, TruncIs
    <3> QED  BY <3>4 DEF y, e
  <2> HIDE DEF z
  <2>8. Rotr(w, z, k) = d + c * r
    BY <2>6, <2>7 DEF Rotr, Shr, Shl, p, r
  <2>9. d + c * r = a
    BY <1>2, <1>4, <2>1
  <2> QED  BY <2>5, <2>8, <2>9
<1> QED  BY <1>6, <1>7

\* A rotation splits a word into its two shifts, and the rotation back undoes it.
LEMMA RotationsUndone ==
  ASSUME Types
  PROVE  /\ Vror(W, Vrol(W, vs2, vs1), vs1) = vs2
         /\ Vrol(W, vs2, vs1) = Vsll(W, vs2, vs1) + (IF vs1 % W = 0 THEN 0 ELSE Vsrl(W, vs2, W - (vs1 % W)))
         /\ Vwsll(W, vs2, vs1) = (vs2 * 2^(vs1 % (2*W))) % 2^(2*W)
<1> DEFINE k == vs1 % W
<1>1. W \in Nat \ {0} /\ Powers(W) /\ vs2 \in Word(W) /\ vs1 \in Nat /\ k \in 0 .. W-1 /\ vs2 \in Nat
  <2>1. W \in Nat \ {0} /\ Powers(W) /\ vs2 \in Word(W) /\ vs1 \in Nat /\ vs2 \in Nat
    BY Widths, WordFacts DEF Types
  <2> QED  BY <2>1
<1> HIDE DEF k
<1>2. Vwsll(W, vs2, vs1) = (vs2 * 2^(vs1 % (2*W))) % 2^(2*W)
  BY DEF Vwsll, Shl, Trunc
<1>3. Vrol(W, vs2, vs1) = Shl(W, vs2, k) + Shr(vs2, W - k) /\ Vsll(W, vs2, vs1) = Shl(W, vs2, k)
  BY DEF Vrol, Rotl, Vsll, k
<1>4. Shr(vs2, W - k) = IF k = 0 THEN 0 ELSE Vsrl(W, vs2, W - k)
  <2>1. CASE k = 0
    <3>1. W - k = W
      BY <1>1, <2>1
    <3> QED  BY <1>1, <2>1, <3>1, RotateNothing
  <2>2. CASE k # 0
    <3>1. (W - k) % W = W - k
      BY <1>1, <2>2
    <3> QED  BY <2>2, <3>1 DEF Vsrl
  <2> QED  BY <2>1, <2>2
<1>5. Vror(W, Vrol(W, vs2, vs1), vs1) = Rotr(W, Rotl(W, vs2, k), k)
  BY DEF Vror, Vrol, k
<1> QED  BY <1>1, <1>2, <1>3, <1>4, <1>5, RotateBack DEF k

\* The zeros above the highest bit of a word are those below the lowest of the reversed
\* word, and bound it; the ones of a word and of its complement are all its bits.
LEMMA ZerosAndOnes ==
  ASSUME Types
  PROVE  /\ Vclz(W, vs2) = Vctz(W, Vbrev(W, vs2))
         /\ VectorVcpop(W, vs2) + VectorVcpop(W, Inv(W, vs2)) = W
         /\ vs2 # 0 => 2^(W - 1 - Vclz(W, vs2)) <= vs2 /\ vs2 < 2^(W - Vclz(W, vs2))
<1> DEFINE J == 0 .. W-1  ones == {i \in J : Bit(vs2, i) = 1}
           v == BitReverse(W, vs2)  turned == {i \in J : Bit(v, i) = 1}
           u == Inv(W, vs2)  rest == {i \in J : Bit(u, i) = 1}
<1>1. /\ W \in Nat \ {0} /\ W \in Nat /\ Powers(W) /\ TwosComplement(W) /\ vs2 \in Word(W) /\ vs2 \in Nat
      /\ 0 \in Word(W) /\ \A i \in J : Bit(vs2, i) \in 0 .. 1
  <2>1. W \in Nat \ {0} /\ Powers(W) /\ TwosComplement(W) /\ vs2 \in Word(W) /\ vs2 \in Nat /\ 0 \in Word(W)
    BY Widths, WordFacts DEF Types
  <2>2. \A i \in J : Bit(vs2, i) \in 0 .. 1
    BY <2>1, WordBits DEF BitByBit
  <2> QED  BY <2>1, <2>2
<1>2. v \in Word(W) /\ (\A i \in J : Bit(v, i) = Bit(vs2, W - 1 - i)) /\ BitReverse(W, v) = vs2
  BY <1>1, Reverses
<1>3. \A i \in J : W - 1 - i \in J /\ W - 1 - (W - 1 - i) = i
  BY <1>1
<1> HIDE DEF v
<1>4. /\ \A i \in turned : W - 1 - i \in ones
      /\ \A i \in ones : W - 1 - i \in turned
  BY <1>2, <1>3
<1>5. Vclz(W, vs2) = (IF vs2 = 0 THEN W ELSE W - 1 - Max(ones)) /\ Vctz(W, v) = IF v = 0 THEN W ELSE Min(turned)
  BY DEF Vclz, Vctz
<1>6. vs2 = 0 => v = 0
  <2> SUFFICES ASSUME vs2 = 0, v # 0 PROVE FALSE
    OBVIOUS
  <2>1. turned # {}
    BY <1>1, <1>2, HighestBit
  <2>2. PICK i \in turned : TRUE
    BY <2>1
  <2>3. W - 1 - i \in ones
    BY <1>4, <2>2
  <2>4. \A j \in J : Bit(0, j) = 0
    <3>1. (0 & 0) = 0
      BY AndBits
    <3>2. (0 ^^ 0) = 0
      BY <3>1 DEF ^^
    <3>3. \A j \in J : BitByBit(0, 0, j)
      BY <1>1, WordBits
    <3> QED  BY <3>2, <3>3 DEF BitByBit
  <2> QED  BY <2>3, <2>4
<1>7. VectorVcpop(W, vs2) + VectorVcpop(W, u) = W
  <2>1. u \in Word(W) /\ \A i \in J : Bit(u, i) = 1 - Bit(vs2, i)
    BY <1>1, InvBits
  <2>2. rest = J \ ones
    <3>1. \A i \in J : Bit(u, i) = 1 <=> Bit(vs2, i) # 1
      BY <1>1, <2>1
    <3> HIDE DEF u
    <3> QED  BY <3>1
  <2>3. IsFiniteSet(J) /\ Cardinality(J) = W
    <3>1. 0 \in Int /\ W - 1 \in Int /\ ~(0 > W - 1) /\ W - 1 - 0 + 1 = W
      BY <1>1
    <3> HIDE DEF J
    <3> QED  BY <3>1, FS_Interval DEF J
  <2>4. ones \subseteq J /\ J \cap ones = ones
    OBVIOUS
  <2> HIDE DEF J, ones
  <2>5. Cardinality(rest) = Cardinality(J) - Cardinality(ones) /\ Cardinality(ones) \in Nat
    <3>1. IsFiniteSet(ones)
      BY <2>3, <2>4, FS_Subset
    <3>2. Cardinality(J \ ones) = Cardinality(J) - Cardinality(J \cap ones)
      BY <2>3, FS_Difference
    <3>3. Cardinality(ones) \in Nat
      BY <3>1, FS_CardinalityType
    <3> HIDE DEF rest
    <3> QED  BY <2>2, <2>4, <3>2, <3>3
  <2>6. VectorVcpop(W, vs2) = Cardinality(ones) /\ VectorVcpop(W, u) = Cardinality(rest)
    BY DEF VectorVcpop, ones, rest, J
  <2> QED  BY <1>1, <2>3, <2>5, <2>6
<1>8. CASE vs2 = 0
  <2>1. Vclz(W, vs2) = Vctz(W, v)
    BY <1>5, <1>6, <1>8
  <2> QED  BY <2>1, <1>7, <1>8 DEF v, Vbrev
<1>9. CASE vs2 # 0
  <2> DEFINE k == Max(ones)
  <2>1. ones # {} /\ ones \subseteq 0 .. W /\ k \in 0 .. W-1 /\ 2^k <= vs2 /\ vs2 < 2^(k + 1)
    BY <1>1, <1>9, HighestBit
  <2>2. k \in ones /\ \A j \in ones : j <= k
    <3> HIDE DEF ones
    <3> QED  BY <2>1, <1>1, Extremes
  <2>3. turned # {} /\ turned \subseteq 0 .. W
    <3>1. W - 1 - k \in turned
      <4> HIDE DEF ones, turned, k
      <4> QED  BY <2>2, <1>4
    <3>2. \A i \in J : i \in 0 .. W
      BY <1>1
    <3>3. turned \subseteq 0 .. W
      BY <3>2
    <3> HIDE DEF turned
    <3> QED  BY <3>1, <3>3
  <2>4. Min(turned) \in turned /\ \A j \in turned : Min(turned) <= j
    <3> HIDE DEF turned
    <3> QED  BY <2>3, <1>1, Extremes
  <2>5. turned \subseteq J
    OBVIOUS
  <2> DEFINE l == Min(turned)
  <2> HIDE DEF ones, turned, k, l
  <2>6. l \in J /\ W - 1 - l <= k /\ l <= W - 1 - k
    <3>1. l \in turned /\ W - 1 - k \in turned
      BY <2>2, <2>4, <1>4 DEF l
    <3> QED  BY <3>1, <2>2, <2>4, <2>5, <1>4 DEF l
  <2>7. l = W - 1 - k
    BY <2>1, <2>6, <1>1
  <2>8. v # 0
    <3> SUFFICES ASSUME v = 0 PROVE FALSE
      OBVIOUS
    <3>1. \A i \in J : Bit(v, i) = 0
      <4>1. (0 & 0) = 0
        BY AndBits
      <4>2. (0 ^^ 0) = 0
        BY <4>1 DEF ^^
      <4>3. \A j \in J : BitByBit(0, 0, j)
        BY <1>1, WordBits
      <4> QED  BY <4>2, <4>3 DEF BitByBit
    <3> QED  BY <3>1, <2>4, <2>5 DEF turned
  <2>9. Vclz(W, vs2) = W - 1 - k /\ Vctz(W, v) = l
    BY <1>5, <1>9, <2>8 DEF k, l
  <2>10. W - 1 - Vclz(W, vs2) = k /\ W - Vclz(W, vs2) = k + 1
    BY <2>1, <2>9, <1>1
  <2>11. Vclz(W, vs2) = Vctz(W, v)
    BY <2>7, <2>9
  <2>12. 2^(W - 1 - Vclz(W, vs2)) <= vs2 /\ vs2 < 2^(W - Vclz(W, vs2))
    BY <2>1, <2>10
  <2> QED  BY <2>11, <2>12, <1>7 DEF v, Vbrev
<1> QED  BY <1>8, <1>9

\* the pairs of one bits of a and of b that meet in bit n of their product, and its bit n
Meeting(w, a, b, n) == {i \in 0 .. w-1 : Bit(b, i) = 1 /\ n - i \in 0 .. w-1 /\ Bit(a, n - i) = 1}
Coefficient(w, a, b, n) == Cardinality(Meeting(w, a, b, n)) % 2

\* A coefficient is a bit.
LEMMA CoefficientIsBit ==
  ASSUME NEW w \in Nat \ {0}, NEW a, NEW b, NEW n
  PROVE  /\ IsFiniteSet(Meeting(w, a, b, n)) /\ Cardinality(Meeting(w, a, b, n)) \in Nat
         /\ Coefficient(w, a, b, n) \in 0 .. 1
<1> DEFINE M == Meeting(w, a, b, n)
<1>1. M \in SUBSET (0 .. w-1)
  BY DEF Meeting
<1>2. IsFiniteSet(0 .. w-1)
  BY FS_Interval
<1> HIDE DEF M
<1>3. IsFiniteSet(M)
  BY <1>1, <1>2, FS_Subset
<1>4. Cardinality(M) \in Nat
  BY <1>3, FS_CardinalityType
<1>5. Cardinality(M) % 2 \in 0 .. 1
  BY <1>4
<1> QED  BY <1>3, <1>4, <1>5 DEF M, Coefficient

\* The bits of the three scalar products: clmul has the low coefficients, clmulh the high
\* ones, and clmulr those from the middle, which on RV32 leave out the top bit of b.
LEMMA ProductBits ==
  ASSUME NEW w \in Nat \ {0}, Powers(w), NEW a \in Word(w), NEW b \in Word(w)
  PROVE  /\ Rv64Clmul(w, a, b) \in Word(w) /\ Rv64Clmul(w, a, b) = Rv32Clmul(w, a, b)
         /\ Rv32Clmulh(w, a, b) \in Word(w) /\ Rv64Clmulr(w, a, b) \in Word(w) /\ Rv32Clmulr(w, a, b) \in Word(w)
         /\ \A n \in 0 .. w-1 : Bit(Rv64Clmul(w, a, b), n) = Coefficient(w, a, b, n)
         /\ \A n \in 0 .. w-1 : Bit(Rv32Clmulh(w, a, b), n) = Coefficient(w, a, b, n + w)
         /\ \A n \in 0 .. w-1 : Bit(Rv64Clmulr(w, a, b), n) = Coefficient(w, a, b, n + (w - 1))
         /\ \A n \in 0 .. w-1 : Bit(Rv32Clmulr(w, a, b), n) = Coefficient(w, a, b % 2^(w-1), n + (w - 1))
<1> DEFINE c == [n \in 0 .. w-1 |-> Cardinality({i \in 0 .. w-1 : Bit(b, i) = 1 /\ n + 0 - i \in 0 .. w-1 /\ Bit(a, n + 0 - i) = 1}) % 2]
           h == [n \in 0 .. w-1 |-> Cardinality({i \in 1 .. w-1 : Bit(b, i) = 1 /\ n + w - i \in 0 .. w-1 /\ Bit(a, n + w - i) = 1}) % 2]
           r == [n \in 0 .. w-1 |-> Cardinality({i \in 0 .. w-1 : Bit(b, i) = 1 /\ n + (w-1) - i \in 0 .. w-1 /\ Bit(a, n + (w-1) - i) = 1}) % 2]
           s == [n \in 0 .. w-1 |-> Cardinality({i \in 0 .. w-2 : Bit(b, i) = 1 /\ n + (w-1) - i \in 0 .. w-1 /\ Bit(a, n + (w-1) - i) = 1}) % 2]
           d == b % 2^(w-1)
<1>1. /\ Rv64Clmul(w, a, b) = OfBits(w, c) /\ Rv32Clmul(w, a, b) = OfBits(w, c) /\ Rv32Clmulh(w, a, b) = OfBits(w, h)
      /\ Rv64Clmulr(w, a, b) = OfBits(w, r) /\ Rv32Clmulr(w, a, b) = OfBits(w, s)
  BY DEF Rv64Clmul, Rv32Clmul, Rv32Clmulh, Rv64Clmulr, Rv32Clmulr
<1>2. \A i \in 0 .. w-2 : i \in 0 .. w-1 /\ Bit(d, i) = Bit(b, i)
  <2>1. w - 1 \in 0 .. w /\ (w - 1) - 1 = w - 2 /\ w \in 0 .. w
    OBVIOUS
  <2>2. b \in Nat
    <3>1. 2^w \in Nat
      BY <2>1, PowersPositive
    <3> QED  BY <3>1 DEF Word
  <2>3. \A i \in 0 .. (w-1)-1 : Bit(d, i) = Bit(b, i)
    BY <2>1, <2>2, BitsOfRemainder
  <2> QED  BY <2>1, <2>3
<1>3. Bit(d, w-1) = 0
  <2> DEFINE p == 2^(w-1)
  <2>1. w - 1 \in 0 .. w /\ w \in 0 .. w
    OBVIOUS
  <2>2. p \in Nat \ {0} /\ b \in Nat
    <3>1. 2^w \in Nat
      BY <2>1, PowersPositive
    <3> QED  BY <3>1, <2>1, PowersPositive DEF Word
  <2>3. d \in 0 .. p-1
    BY <2>1, <2>2, BitsOfRemainder DEF Word
  <2>4. d = 0 * p + d /\ d \in Int
    BY <2>2, <2>3
  <2> HIDE DEF d, p
  <2>5. d \div p = 0
    BY <2>2, <2>3, <2>4, Unique
  <2> QED  BY <2>5 DEF Bit, p
<1> HIDE DEF d
<1>4. ASSUME NEW n \in 0 .. w-1
      PROVE  /\ c[n] = Coefficient(w, a, b, n) /\ h[n] = Coefficient(w, a, b, n + w)
             /\ r[n] = Coefficient(w, a, b, n + (w - 1)) /\ s[n] = Coefficient(w, a, d, n + (w - 1))
  <2>1. n + 0 = n /\ n + w - 0 \notin 0 .. w-1 /\ \A i \in 0 .. w-1 : i = 0 \/ i \in 1 .. w-1
    OBVIOUS
  <2>2. c[n] = Coefficient(w, a, b, n)
    <3>1. \A i \in 0 .. w-1 : n + 0 - i = n - i
      BY <2>1
    <3>2. {i \in 0 .. w-1 : Bit(b, i) = 1 /\ n + 0 - i \in 0 .. w-1 /\ Bit(a, n + 0 - i) = 1} = Meeting(w, a, b, n)
      BY <3>1 DEF Meeting
    <3> QED  BY <3>2 DEF Coefficient
  <2>3. {i \in 1 .. w-1 : Bit(b, i) = 1 /\ n + w - i \in 0 .. w-1 /\ Bit(a, n + w - i) = 1} = Meeting(w, a, b, n + w)
    BY <2>1 DEF Meeting
  <2>4. h[n] = Coefficient(w, a, b, n + w)
    BY <2>3 DEF Coefficient
  <2>5. r[n] = Coefficient(w, a, b, n + (w - 1))
    BY DEF Coefficient, Meeting
  <2>6. {i \in 0 .. w-2 : Bit(b, i) = 1 /\ n + (w-1) - i \in 0 .. w-1 /\ Bit(a, n + (w-1) - i) = 1} = Meeting(w, a, d, n + (w - 1))
    <3>1. \A i \in 0 .. w-1 : i = w - 1 \/ i \in 0 .. w-2
      OBVIOUS
    <3> QED  BY <3>1, <1>2, <1>3 DEF Meeting
  <2>7. s[n] = Coefficient(w, a, d, n + (w - 1))
    BY <2>6 DEF Coefficient
  <2> QED  BY <2>2, <2>4, <2>5, <2>7
<1> HIDE DEF c, h, r, s
<1>5. \A n \in 0 .. w-1 : c[n] \in 0 .. 1 /\ h[n] \in 0 .. 1 /\ r[n] \in 0 .. 1 /\ s[n] \in 0 .. 1
  BY <1>4, CoefficientIsBit
<1>6. OfBits(w, c) \in Word(w) /\ \A n \in 0 .. w-1 : Bit(OfBits(w, c), n) = c[n]
  BY <1>5, WordOfBits
<1>7. OfBits(w, h) \in Word(w) /\ \A n \in 0 .. w-1 : Bit(OfBits(w, h), n) = h[n]
  BY <1>5, WordOfBits
<1>8. OfBits(w, r) \in Word(w) /\ \A n \in 0 .. w-1 : Bit(OfBits(w, r), n) = r[n]
  BY <1>5, WordOfBits
<1>9. OfBits(w, s) \in Word(w) /\ \A n \in 0 .. w-1 : Bit(OfBits(w, s), n) = s[n]
  BY <1>5, WordOfBits
<1> QED  BY <1>1, <1>4, <1>6, <1>7, <1>8, <1>9 DEF d

\* A coefficient of the reversed factors is the one at the other end of their product.
LEMMA CoefficientReversed ==
  ASSUME NEW w \in Nat \ {0}, NEW a, NEW b, NEW c, NEW d, NEW n \in 0 .. w-1,
         \A i \in 0 .. w-1 : Bit(c, i) = Bit(a, w - 1 - i) /\ Bit(d, i) = Bit(b, w - 1 - i)
  PROVE  Coefficient(w, c, d, w - 1 - n) = Coefficient(w, a, b, n + (w - 1))
<1> DEFINE A == Meeting(w, c, d, w - 1 - n)  B == Meeting(w, a, b, n + (w - 1))  f == [i \in A |-> w - 1 - i]
<1>1. ASSUME NEW i \in A PROVE w - 1 - i \in B /\ w - 1 - (w - 1 - i) = i
  <2>1. i \in 0 .. w-1 /\ Bit(d, i) = 1 /\ w - 1 - n - i \in 0 .. w-1 /\ Bit(c, w - 1 - n - i) = 1
    BY DEF Meeting
  <2> DEFINE j == w - 1 - i  l == w - 1 - n - i
  <2>2. j \in 0 .. w-1 /\ w - 1 - j = i /\ n + (w - 1) - j = w - 1 - l /\ w - 1 - l \in 0 .. w-1
    BY <2>1
  <2>3. Bit(b, j) = 1 /\ Bit(a, w - 1 - l) = 1
    BY <2>1
  <2>4. j \in B
    <3> HIDE DEF j, l
    <3> QED  BY <2>2, <2>3 DEF Meeting
  <2> QED  BY <2>2, <2>4
<1>2. ASSUME NEW j \in B PROVE w - 1 - j \in A /\ w - 1 - (w - 1 - j) = j
  <2>1. j \in 0 .. w-1 /\ Bit(b, j) = 1 /\ n + (w - 1) - j \in 0 .. w-1 /\ Bit(a, n + (w - 1) - j) = 1
    BY DEF Meeting
  <2> DEFINE i == w - 1 - j  l == w - 1 - n - i
  <2>2. i \in 0 .. w-1 /\ w - 1 - i = j /\ l \in 0 .. w-1 /\ w - 1 - l = n + (w - 1) - j
    BY <2>1
  <2> HIDE DEF i, l
  <2>3. Bit(d, i) = 1 /\ Bit(c, l) = 1
    BY <2>1, <2>2
  <2>4. i \in A
    BY <2>2, <2>3 DEF Meeting, l
  <2> QED  BY <2>2, <2>4 DEF i
<1> HIDE DEF A, B
<1>3. IsFiniteSet(A)
  BY CoefficientIsBit DEF A
<1>4. ExistsBijection(A, B)
  <2>1. f \in [A -> B] /\ \A i \in A : f[i] = w - 1 - i
    BY <1>1
  <2> HIDE DEF f
  <2>2. \A x, y \in A : f[x] = f[y] => x = y
    BY <1>1, <2>1
  <2>3. \A y \in B : \E x \in A : f[x] = y
    BY <1>2, <2>1
  <2>4. f \in Bijection(A, B)
    BY <2>1, <2>2, <2>3 DEF Bijection, Injection, Surjection, IsInjective
  <2> QED  BY <2>4 DEF ExistsBijection
<1>5. Cardinality(A) = Cardinality(B)
  BY <1>3, <1>4, FS_Bijection
<1> QED  BY <1>5 DEF A, B, Coefficient

\* The product is linear in each coefficient: the coefficient of a sum over GF(2) is the
\* sum of the coefficients.
LEMMA CoefficientOfSum ==
  ASSUME NEW w \in Nat \ {0}, NEW a, NEW b, NEW c, NEW e, NEW n \in Nat,
         \A i \in 0 .. w-1 : /\ Bit(a, i) \in 0 .. 1 /\ Bit(c, i) \in 0 .. 1
                             /\ Bit(e, i) = IF Bit(a, i) = Bit(c, i) THEN 0 ELSE 1
  PROVE  Coefficient(w, e, b, n) = IF Coefficient(w, a, b, n) = Coefficient(w, c, b, n) THEN 0 ELSE 1
<1> DEFINE A == Meeting(w, a, b, n)  C == Meeting(w, c, b, n)  E == Meeting(w, e, b, n)
<1>1. E = (A \ C) \cup (C \ A)
  <2>1. ASSUME NEW i \in 0 .. w-1, n - i \in 0 .. w-1
        PROVE  Bit(e, n - i) = 1 <=> ~(Bit(a, n - i) = 1 <=> Bit(c, n - i) = 1)
    <3> DEFINE l == n - i
    <3>1. l \in 0 .. w-1
      BY <2>1
    <3> HIDE DEF l
    <3>2. Bit(a, l) \in 0 .. 1 /\ Bit(c, l) \in 0 .. 1 /\ Bit(e, l) = IF Bit(a, l) = Bit(c, l) THEN 0 ELSE 1
      BY <3>1
    <3>3. (Bit(a, l) = 0 \/ Bit(a, l) = 1) /\ (Bit(c, l) = 0 \/ Bit(c, l) = 1)
      BY <3>2
    <3>4. Bit(e, l) = 1 <=> ~(Bit(a, l) = 1 <=> Bit(c, l) = 1)
      BY <3>2, <3>3
    <3> QED  BY <3>4 DEF l
  <2> QED  BY <2>1 DEF Meeting
<1> HIDE DEF A, C, E
<1>2. /\ IsFiniteSet(A) /\ IsFiniteSet(C) /\ IsFiniteSet(E) /\ Cardinality(A) \in Nat /\ Cardinality(C) \in Nat
      /\ Cardinality(E) \in Nat
  BY CoefficientIsBit DEF A, C, E
<1> DEFINE x == Cardinality(A)  y == Cardinality(C)  z == Cardinality(A \cap C)
<1>3. IsFiniteSet(A \cap C) /\ z \in Nat
  <2>1. IsFiniteSet(A \cap C)
    BY <1>2, FS_Intersection
  <2> QED  BY <2>1, FS_CardinalityType
<1>4. IsFiniteSet(A \ C) /\ Cardinality(A \ C) = x - z /\ IsFiniteSet(C \ A) /\ Cardinality(C \ A) = y - z
  <2>1. C \cap A = A \cap C
    OBVIOUS
  <2>2. IsFiniteSet(A \ C) /\ Cardinality(A \ C) = Cardinality(A) - Cardinality(A \cap C)
    BY <1>2, FS_Difference
  <2>3. IsFiniteSet(C \ A) /\ Cardinality(C \ A) = Cardinality(C) - Cardinality(C \cap A)
    BY <1>2, FS_Difference
  <2> QED  BY <2>1, <2>2, <2>3
<1>5. Cardinality(E) = (x - z) + (y - z)
  <2>1. (A \ C) \cap (C \ A) = {} /\ Cardinality({}) = 0
    BY FS_EmptySet
  <2>2. Cardinality((A \ C) \cup (C \ A)) = Cardinality(A \ C) + Cardinality(C \ A) - Cardinality((A \ C) \cap (C \ A))
    BY <1>4, FS_Union
  <2> HIDE DEF x, y, z
  <2>3. x \in Nat /\ y \in Nat
    BY <1>2 DEF x, y
  <2> QED  BY <1>1, <1>3, <1>4, <2>1, <2>2, <2>3
<1>6. x \in Nat /\ y \in Nat
  BY <1>2
<1> HIDE DEF x, y, z
<1>7. ((x - z) + (y - z)) % 2 = IF x % 2 = y % 2 THEN 0 ELSE 1
  BY <1>3, <1>6
<1> QED  BY <1>5, <1>7 DEF x, y, A, C, E, Coefficient

\* The polynomial product of two registers holds every coefficient; its halves are clmulh
\* and clmul, and the word above the lowest W-1 of its bits is clmulr.
LEMMA PartsOfProduct ==
  ASSUME Types
  PROVE  LET p == PolyProduct(vs2, vs1) IN
         /\ Wide(Rv32Clmulh(W, vs2, vs1), Rv32Clmul(W, vs2, vs1)) = p
         /\ Rv64Clmulr(W, vs2, vs1) = (p \div 2^(W-1)) % 2^W
<1> DEFINE p == PolyProduct(vs2, vs1)
           c == [n \in 0 .. 2*W-1 |-> Cardinality({i \in 0 .. W-1 : n - i \in 0 .. W-1 /\ Bit(vs1, i) = 1 /\ Bit(vs2, n - i) = 1}) % 2]
           co(n) == Coefficient(W, vs2, vs1, n)
           hi == Rv32Clmulh(W, vs2, vs1)  lo == Rv32Clmul(W, vs2, vs1)  mid == Rv64Clmulr(W, vs2, vs1)
           x == Wide(hi, lo)
           q == p \div 2^(W-1)  r == q % 2^W
<1>1. W \in Nat \ {0} /\ Powers(W) /\ Powers(2*W) /\ 2*W \in Nat \ {0} /\ vs2 \in Word(W) /\ vs1 \in Word(W) /\ 2^W \in Nat \ {0} /\ 2^(2*W) \in Nat \ {0}
  <2>1. W \in 0 .. 2*W /\ 2*W \in 0 .. 2*W
    BY Widths
  <2> QED  BY <2>1, Widths, PowersPositive DEF Types
<1>2. p = OfBits(2*W, c)
  BY DEF PolyProduct
<1>3. \A n \in 0 .. 2*W-1 : c[n] = co(n) /\ c[n] \in 0 .. 1
  <2>1. ASSUME NEW n \in 0 .. 2*W-1 PROVE c[n] = co(n)
    <3>1. {i \in 0 .. W-1 : n - i \in 0 .. W-1 /\ Bit(vs1, i) = 1 /\ Bit(vs2, n - i) = 1} = Meeting(W, vs2, vs1, n)
      BY DEF Meeting
    <3>2. c[n] = Cardinality({i \in 0 .. W-1 : n - i \in 0 .. W-1 /\ Bit(vs1, i) = 1 /\ Bit(vs2, n - i) = 1}) % 2
      OBVIOUS
    <3> QED  BY <3>1, <3>2 DEF Coefficient
  <2> HIDE DEF c
  <2> QED  BY <1>1, <2>1, CoefficientIsBit
<1> HIDE DEF c, p
<1>4. p \in Word(2*W) /\ \A n \in 0 .. 2*W-1 : Bit(p, n) = co(n)
  <2>1. p \in Word(2*W) /\ \A n \in 0 .. 2*W-1 : Bit(p, n) = c[n]
    <3>1. 2*W \in Nat
      BY <1>1
    <3>2. OfBits(2*W, c) \in Word(2*W) /\ \A n \in 0 .. 2*W-1 : Bit(OfBits(2*W, c), n) = c[n]
      BY <1>1, <1>3, <3>1, WordOfBits
    <3> QED  BY <1>2, <3>2
  <2> HIDE DEF co
  <2> QED  BY <2>1, <1>3
<1>5. /\ hi \in Word(W) /\ lo \in Word(W) /\ mid \in Word(W)
      /\ \A n \in 0 .. W-1 : Bit(hi, n) = co(n + W) /\ Bit(lo, n) = co(n) /\ Bit(mid, n) = co(n + (W - 1))
  BY <1>1, ProductBits
<1> HIDE DEF hi, lo, mid, co
<1>6. hi \in Nat /\ p \in Nat
  BY <1>1, <1>4, <1>5 DEF Word
<1>7. x = p
  <2>1. x \in Word(2*W)
    BY <1>5, WideWord
  <2>2. \A j \in 0 .. 2*W-1 : Bit(hi * 2^W + lo, j) = IF j < W THEN Bit(lo, j) ELSE Bit(hi, j - W)
    <3>1. W \in 0 .. 2*W /\ 2*W \in Nat
      BY <1>1
    <3> QED  BY <1>1, <1>5, <1>6, <3>1, BitsOfParts
  <2>3. x = hi * 2^W + lo
    BY DEF Wide
  <2> HIDE DEF x
  <2>4. ASSUME NEW j \in 0 .. 2*W-1 PROVE Bit(x, j) = Bit(p, j)
    <3>1. CASE j < W
      <4>1. j \in 0 .. W-1
        BY <1>1, <3>1
      <4> QED  BY <1>4, <1>5, <2>2, <2>3, <3>1, <4>1
    <3>2. CASE ~(j < W)
      <4>1. j - W \in 0 .. W-1 /\ (j - W) + W = j
        BY <1>1, <3>2
      <4>2. Bit(hi, j - W) = co(j)
        <5>1. Bit(hi, j - W) = co((j - W) + W)
          BY <1>5, <4>1
        <5> QED  BY <4>1, <5>1
      <4> QED  BY <1>4, <2>2, <2>3, <3>2, <4>2
    <3> QED  BY <3>1, <3>2
  <2>5. 2*W \in Nat
    BY <1>1
  <2> QED  BY <1>1, <1>4, <2>1, <2>4, <2>5, SameBits
<1>8. mid = r
  <2>1. 2*W \in Nat /\ W - 1 \in 0 .. 2*W /\ W \in 0 .. 2*W /\ W - 1 \in Nat /\ W \in Nat
    BY <1>1
  <2>2. q \in Nat
    BY <1>1, <1>6, <2>1, BitsOfRemainder
  <2>3. r \in Word(W)
    <3> HIDE DEF q
    <3> QED  BY <1>1, <2>1, <2>2, BitsOfRemainder
  <2>4. ASSUME NEW j \in 0 .. W-1 PROVE Bit(mid, j) = Bit(r, j)
    <3>1. j \in Nat /\ (W - 1) + j <= 2*W /\ j < W /\ (W - 1) + j \in 0 .. 2*W-1 /\ j + (W - 1) = (W - 1) + j
      BY <1>1
    <3>2. Bit(r, j) = Bit(p, (W - 1) + j)
      BY <1>1, <1>6, <2>1, <3>1, BitOfShift
    <3>3. Bit(mid, j) = co(j + (W - 1))
      BY <1>5
    <3> QED  BY <1>4, <3>1, <3>2, <3>3
  <2> HIDE DEF r
  <2> QED  BY <1>1, <1>5, <2>1, <2>3, <2>4, SameBits
<1> QED  BY <1>7, <1>8 DEF x, hi, lo, mid, p, q, r

\* clmulr is clmul seen through the bit reverse, and RV32's that of b without its top bit;
\* clmul is linear in its first factor.
LEMMA ProductsAgree ==
  ASSUME Types
  PROVE  /\ Rv64Clmulr(W, vs2, vs1) = Vbrev(W, Rv64Clmul(W, Vbrev(W, vs2), Vbrev(W, vs1)))
         /\ Rv32Clmulr(W, vs2, vs1) = Rv64Clmulr(W, vs2, vs1 % 2^(W-1))
         /\ Rv64Clmul(W, vs2 ^^ vd, vs1) = Rv64Clmul(W, vs2, vs1) ^^ Rv64Clmul(W, vd, vs1)
<1> DEFINE a == BitReverse(W, vs2)  b == BitReverse(W, vs1)  y == Rv64Clmul(W, a, b)  z == BitReverse(W, y)
           mid == Rv64Clmulr(W, vs2, vs1)
           d == vs1 % 2^(W-1)  short == Rv32Clmulr(W, vs2, vs1)  cut == Rv64Clmulr(W, vs2, d)
           e == vs2 ^^ vd  s == Rv64Clmul(W, e, vs1)  t == Rv64Clmul(W, vs2, vs1)  u == Rv64Clmul(W, vd, vs1)
<1>1. W \in Nat \ {0} /\ W \in Nat /\ Powers(W) /\ vs2 \in Word(W) /\ vs1 \in Word(W) /\ vd \in Word(W)
  BY Widths DEF Types
<1>2. /\ a \in Word(W) /\ b \in Word(W)
      /\ \A i \in 0 .. W-1 : Bit(a, i) = Bit(vs2, W - 1 - i) /\ Bit(b, i) = Bit(vs1, W - 1 - i)
  BY <1>1, Reverses
<1> HIDE DEF a, b
<1>3. y \in Word(W) /\ \A n \in 0 .. W-1 : Bit(y, n) = Coefficient(W, a, b, n)
  BY <1>1, <1>2, ProductBits
<1> HIDE DEF y
<1>4. z \in Word(W) /\ \A n \in 0 .. W-1 : Bit(z, n) = Bit(y, W - 1 - n)
  BY <1>1, <1>3, Reverses
<1> HIDE DEF z
<1>5. /\ mid \in Word(W) /\ \A n \in 0 .. W-1 : Bit(mid, n) = Coefficient(W, vs2, vs1, n + (W - 1))
      /\ short \in Word(W) /\ \A n \in 0 .. W-1 : Bit(short, n) = Coefficient(W, vs2, d, n + (W - 1))
      /\ t \in Word(W) /\ \A n \in 0 .. W-1 : Bit(t, n) = Coefficient(W, vs2, vs1, n)
  BY <1>1, ProductBits
<1>6. u \in Word(W) /\ \A n \in 0 .. W-1 : Bit(u, n) = Coefficient(W, vd, vs1, n)
  BY <1>1, ProductBits
<1>7. d \in Word(W)
  <2> DEFINE p == 2^(W-1)
  <2>1. W - 1 \in 0 .. W /\ W \in 0 .. W
    BY <1>1
  <2>2. 2^W \in Nat /\ p \in Nat \ {0} /\ vs1 \in Nat /\ vs1 < 2^W
    <3>1. 2^W \in Nat /\ p \in Nat \ {0}
      BY <1>1, <2>1, PowersPositive
    <3> QED  BY <1>1, <3>1 DEF Word
  <2>3. d \in Word(W-1) /\ vs1 \div p \in Nat /\ vs1 = (vs1 \div p) * p + d
    BY <1>1, <2>1, <2>2, BitsOfRemainder
  <2> DEFINE q == vs1 \div p
  <2>4. d \in Nat
    BY <2>2, <2>3 DEF Word
  <2> HIDE DEF p, d, q
  <2>5. q * p \in Nat /\ vs1 = q * p + d
    BY <2>2, <2>3 DEF q
  <2> QED  BY <2>2, <2>4, <2>5 DEF Word
<1> HIDE DEF d
<1>8. cut \in Word(W) /\ \A n \in 0 .. W-1 : Bit(cut, n) = Coefficient(W, vs2, d, n + (W - 1))
  BY <1>1, <1>7, ProductBits
<1>9. e \in Word(W) /\ \A j \in 0 .. W-1 : BitByBit(vs2, vd, j)
  BY <1>1, WordBits
<1> HIDE DEF e
<1>10. s \in Word(W) /\ \A n \in 0 .. W-1 : Bit(s, n) = Coefficient(W, e, vs1, n)
  BY <1>1, <1>9, ProductBits
<1> HIDE DEF mid, short, t, u, cut, s
<1>11. mid = z
  <2>1. ASSUME NEW n \in 0 .. W-1 PROVE Bit(mid, n) = Bit(z, n)
    <3>1. Coefficient(W, a, b, W - 1 - n) = Coefficient(W, vs2, vs1, n + (W - 1))
      BY <1>1, <1>2, CoefficientReversed
    <3>2. W - 1 - n \in 0 .. W-1
      BY <1>1
    <3> QED  BY <1>3, <1>4, <1>5, <3>1, <3>2
  <2> QED  BY <1>1, <1>4, <1>5, <2>1, SameBits
<1>12. short = cut
  BY <1>1, <1>5, <1>8, SameBits
<1>13. s = t ^^ u
  <2>1. (t ^^ u) \in Word(W) /\ \A j \in 0 .. W-1 : BitByBit(t, u, j)
    BY <1>1, <1>5, <1>6, WordBits
  <2>2. \A i \in 0 .. W-1 : /\ Bit(vs2, i) \in 0 .. 1 /\ Bit(vd, i) \in 0 .. 1
                            /\ Bit(e, i) = IF Bit(vs2, i) = Bit(vd, i) THEN 0 ELSE 1
    BY <1>9 DEF BitByBit, e
  <2>3. ASSUME NEW n \in 0 .. W-1 PROVE Bit(s, n) = Bit(t ^^ u, n)
    <3>1. Bit(t ^^ u, n) = IF Bit(t, n) = Bit(u, n) THEN 0 ELSE 1
      BY <2>1 DEF BitByBit
    <3>2. n \in Nat
      OBVIOUS
    <3>3. Coefficient(W, e, vs1, n) = IF Coefficient(W, vs2, vs1, n) = Coefficient(W, vd, vs1, n) THEN 0 ELSE 1
      BY <1>1, <2>2, <3>2, CoefficientOfSum
    <3> QED  BY <1>5, <1>6, <1>10, <3>1, <3>3
  <2> QED  BY <1>1, <1>10, <2>1, <2>3, SameBits
<1> QED  BY <1>11, <1>12, <1>13 DEF mid, short, cut, d, s, t, u, e, z, y, a, b, Vbrev

\* The bit manipulations invert, split and mirror each other, and the carry-less
\* products are the parts of one polynomial product, at every width and in every
\* reachable state.
THEOREM PermutationsAndProducts == Spec => []BitPermutations
<1>1. Types => BitPermutations
  BY ReversedByBytes, RotationsUndone, ZerosAndOnes, PartsOfProduct, ProductsAgree DEF BitPermutations
<1> QED  BY <1>1, TypeCorrect, PTL

-----------------------------------------------------------------------------
(* Bytes in memory, stack frames, jumps, loads and stores.                 *)

\* what the instructions need of the widths of a machine: registers of 4 or 8 bytes in
\* memory addressed by 8
Machine(p) ==
  /\ p.by \in Nat \ {0} /\ p.xb \in {4, 8} /\ Powers(p.by * 8) /\ 2^p.by \in Nat \ {0}
  /\ XLen(p) \in Nat \ {0} /\ XLen(p) = p.by * p.xb /\ ALen(p) = p.by * 8 /\ XLen(p) <= ALen(p)
  /\ 2^XLen(p) \in Nat \ {0} /\ 2^ALen(p) \in Nat \ {0}
  /\ 256 <= 2^XLen(p) /\ 2^XLen(p) <= 2^ALen(p) /\ 65536 <= 2^ALen(p)
  /\ \E c \in Nat : 2^XLen(p) = 256 * c

\* The registers of RV32 and of RV64 hold at least 8 bits, addresses at least 16.
LEMMA MachineFacts ==
  ASSUME NEW p \in {Rv32(BW), Rv64(BW)}
  PROVE  Machine(p) /\ p.by = BW
<1>1. p.by = BW /\ p.xb \in {4, 8} /\ XLen(p) = BW * p.xb /\ ALen(p) = BW * 8
  BY DEF Rv32, Rv64, XLen, ALen
<1>2. BW \in {2, 4, 8, 16, 32} /\ BW * 8 <= 4 * W
  <2>1. 2^1 = 2 /\ 2^2 = 4 /\ 2^3 = 8 /\ 2^4 = 16 /\ 2^5 = 32 /\ 2^6 = 64
    OBVIOUS
  <2>2. PICK i \in 2 .. 6, j \in 1 .. 5 : W = 2^i /\ BW = 2^j
    BY WidthAssumption
  <2>3. i \in {2, 3, 4, 5, 6} /\ j \in {1, 2, 3, 4, 5}
    OBVIOUS
  <2>4. W \in {4, 8, 16, 32, 64} /\ BW \in {2, 4, 8, 16, 32}
    BY <2>1, <2>2, <2>3
  <2> QED  BY <2>4, WidthAssumption
<1> DEFINE x == XLen(p)  a == ALen(p)
<1>3. x \in Nat \ {0} /\ a \in Nat /\ x <= a /\ 8 <= x /\ 16 <= a /\ a <= 4*W /\ BW <= a
  BY <1>1, <1>2
<1>4. Powers(a)
  <2>1. \A k \in 0 .. a-1 : k \in 0 .. 4*W
    BY <1>3, Widths
  <2> QED  BY <2>1, PowerAssumption DEF Powers
<1> HIDE DEF x, a
<1>5. ASSUME NEW k \in Nat, NEW l \in Nat, k <= l, l <= a
      PROVE  2^k \in Nat \ {0} /\ 2^(l - k) \in Nat \ {0} /\ 2^l = 2^k * 2^(l - k) /\ 2^k <= 2^l
  <2>1. k \in 0 .. a /\ l - k \in 0 .. a /\ l - k \in Nat /\ k + (l - k) = l
    BY <1>3, <1>5
  <2>2. 2^k \in Nat \ {0} /\ 2^(l - k) \in Nat \ {0}
    BY <1>3, <1>4, <2>1, PowersPositive
  <2>3. 2^(k + (l - k)) = 2^k * 2^(l - k)
    <3>1. k + (l - k) <= a
      BY <1>5, <2>1
    <3> QED  BY <1>3, <1>4, <2>1, <3>1, PowersAdd
  <2> DEFINE q == 2^k  r == 2^(l - k)
  <2>4. q * r >= q
    <3>1. q \in Nat \ {0} /\ r \in Nat \ {0}
      BY <2>2
    <3> HIDE DEF q, r
    <3>2. q * r >= q * 1
      BY <3>1
    <3> QED  BY <3>1, <3>2
  <2> QED  BY <2>1, <2>2, <2>3, <2>4
<1>6. 2^8 = 256 /\ 2^16 = 65536
  OBVIOUS
<1>7. 2^8 <= 2^x /\ 2^x <= 2^a /\ 2^16 <= 2^a /\ 2^x \in Nat \ {0} /\ 2^a \in Nat \ {0} /\ 2^BW \in Nat \ {0}
  <2>1. BW \in Nat /\ x \in Nat /\ 8 \in Nat /\ 16 \in Nat /\ a <= a
    BY <1>2, <1>3
  <2>2. 2^8 <= 2^x
    BY <1>3, <1>5, <2>1
  <2>3. 2^x <= 2^a /\ 2^x \in Nat \ {0}
    BY <1>3, <1>5, <2>1
  <2>4. 2^16 <= 2^a
    BY <1>3, <1>5, <2>1
  <2>5. 2^a \in Nat \ {0}
    BY <1>3, <1>5, <2>1
  <2>6. 2^BW \in Nat \ {0}
    BY <1>3, <1>5, <2>1
  <2> QED  BY <2>2, <2>3, <2>4, <2>5, <2>6
<1>8. \E c \in Nat : 2^x = 256 * c
  <2>1. 2^x = 2^8 * 2^(x - 8) /\ 2^(x - 8) \in Nat
    <3>1. x \in Nat
      BY <1>3
    <3> QED  BY <1>3, <1>5, <3>1
  <2> QED  BY <1>6, <2>1
<1> QED  BY <1>1, <1>2, <1>3, <1>4, <1>6, <1>7, <1>8 DEF Machine, x, a

\* a hart: its parts, as the instructions name them, and its registers
IsHart(s) ==
  DOMAIN s = {"x", "mem", "fill", "pc", "size", "next", "trap"} /\ s.fill \in Nat /\ DOMAIN s.x = 0 .. 31

\* The distance from a to the address k bytes after it is k, in memory that goes round.
LEMMA Around ==
  ASSUME NEW w, 2^w \in Nat \ {0}, NEW a \in Int, NEW b \in Word(w), NEW k \in Word(w)
  PROVE  /\ Trunc(w, a + k) \in Word(w) /\ Trunc(w, b - a) \in Word(w)
         /\ Trunc(w, b - a) = k <=> Trunc(w, a + k) = b
<1>1. \A c \in Int : Trunc(w, c) \in Word(w)
  BY TruncWord
<1>2. b \in Int /\ k \in Int /\ a + k \in Int /\ b - a \in Int /\ -a \in Int
  BY DEF Word
<1>3. Trunc(w, k) = k /\ Trunc(w, b) = b
  <2>1. k = 0 * 2^w + k /\ b = 0 * 2^w + b
    BY <1>2
  <2> QED  BY <1>2, <2>1, TruncIs
<1>4. Trunc(w, Trunc(w, a + k) + (-a)) = Trunc(w, (a + k) + (-a)) /\ (a + k) + (-a) = k
  BY <1>2, TruncInner
<1>5. Trunc(w, Trunc(w, b - a) + a) = Trunc(w, (b - a) + a) /\ (b - a) + a = b
  BY <1>2, TruncInner
<1>6. ASSUME Trunc(w, a + k) = b PROVE Trunc(w, b - a) = k
  <2>1. b + (-a) = b - a
    BY <1>2
  <2> QED  BY <1>3, <1>4, <1>6, <2>1
<1>7. ASSUME Trunc(w, b - a) = k PROVE Trunc(w, a + k) = b
  <2>1. k + a = a + k
    BY <1>2
  <2> QED  BY <1>3, <1>5, <1>7, <2>1
<1> QED  BY <1>1, <1>2, <1>6, <1>7

\* The address k bytes after a is at the distance k from it.
LEMMA Distance ==
  ASSUME NEW w, 2^w \in Nat \ {0}, NEW a \in Int, NEW k \in Word(w)
  PROVE  Trunc(w, a + k) \in Word(w) /\ Trunc(w, Trunc(w, a + k) - a) = k
<1> DEFINE b == Trunc(w, a + k)
<1>1. b \in Word(w)
  <2>1. a + k \in Int
    BY DEF Word
  <2> QED  BY <2>1, TruncWord
<1>2. Trunc(w, a + k) = b
  OBVIOUS
<1> HIDE DEF b
<1>3. Trunc(w, b - a) = k
  BY <1>1, <1>2, Around
<1> QED  BY <1>1, <1>2, <1>3

\* t is s but for the n bytes from a on, which are those of db
Stored(p, s, t, a, n, db) ==
  /\ IsHart(t) /\ t.x = s.x /\ t.fill = s.fill /\ t.pc = s.pc /\ t.size = s.size /\ t.next = s.next /\ t.trap = s.trap
  /\ \A b \in Word(ALen(p)) : LET k == Trunc(ALen(p), b - a) IN
        k \in Nat /\ ByteIn(p, t, b) = IF k < n THEN db[k] ELSE ByteIn(p, s, b)

\* After a store the n bytes from a on are those of the buffer and the others are as they
\* were; nothing but memory changes.
LEMMA StoredByte ==
  ASSUME NEW p, Machine(p), NEW s, IsHart(s), NEW a \in Int, NEW n \in 0 .. 256, NEW db,
         NEW t, t = StoreMemory(p, s, a, n, db)
  PROVE  Stored(p, s, t, a, n, db)
<1> DEFINE w == ALen(p)
           D == DOMAIN s.mem \cup {Trunc(w, a + k) : k \in 0 .. n-1}
           M == [b \in D |-> LET k == Trunc(w, b - a) IN IF k < n THEN db[k] ELSE s.mem[b]]
<1>1. t = [s EXCEPT !.mem = M]
  BY DEF StoreMemory
<1>2. IsHart(t) /\ t.mem = M /\ t.x = s.x /\ t.fill = s.fill /\ t.pc = s.pc /\ t.size = s.size /\ t.next = s.next /\ t.trap = s.trap
  <2> HIDE DEF M
  <2> QED  BY <1>1 DEF IsHart
<1>3. 2^w \in Nat \ {0} /\ n - 1 \in Int /\ n \in Nat /\ \A k \in 0 .. n-1 : k \in Word(w) /\ k \in Nat /\ k < n
  <2>1. 2^w \in Nat \ {0} /\ 65536 <= 2^w
    BY DEF Machine
  <2> QED  BY <2>1 DEF Word
<1>4. ASSUME NEW b \in Word(w)
      PROVE  LET k == Trunc(w, b - a) IN k \in Nat /\ ByteIn(p, t, b) = IF k < n THEN db[k] ELSE ByteIn(p, s, b)
  <2> DEFINE k == Trunc(w, b - a)
  <2>1. k \in Word(w) /\ k \in Nat
    <3>1. k \in Word(w)
      <4>1. b - a \in Int
        BY <1>3 DEF Word
      <4> QED  BY <1>3, <4>1, TruncWord
    <3> QED  BY <3>1, <1>3 DEF Word
  <2>2. ByteIn(p, t, b) = IF b \in D THEN M[b] ELSE (b + s.fill) % 2^p.by
    <3>1. DOMAIN M = D
      OBVIOUS
    <3> HIDE DEF M, D
    <3> QED  BY <1>2, <3>1 DEF ByteIn
  <2>3. b \in D => M[b] = IF k < n THEN db[k] ELSE s.mem[b]
    <3> HIDE DEF D
    <3> QED  OBVIOUS
  <2>4. CASE k < n
    <3>1. Trunc(w, a + k) = b
      <4> HIDE DEF k
      <4> QED  BY <1>3, <2>1, Around DEF k
    <3>2. k \in 0 .. n-1
      BY <1>3, <2>1, <2>4
    <3>3. b \in D
      <4> HIDE DEF k
      <4> QED  BY <3>1, <3>2
    <3> HIDE DEF k, D, M
    <3> QED  BY <2>1, <2>2, <2>3, <2>4, <3>3 DEF k
  <2>5. CASE ~(k < n)
    <3>1. b \in D <=> b \in DOMAIN s.mem
      <4>1. ASSUME NEW j \in 0 .. n-1, b = Trunc(w, a + j) PROVE FALSE
        <5>1. Trunc(w, b - a) = j
          <6> HIDE DEF w, D, M, k
          <6>1. j \in Word(w)
            BY <1>3
          <6>2. 2^w \in Nat \ {0} /\ a \in Int /\ b \in Word(w)
            BY <1>3
          <6>3. Trunc(w, b - a) = j <=> Trunc(w, a + j) = b
            BY <6>1, <6>2, Around
          <6> QED  BY <4>1, <6>3
        <5> QED  BY <1>3, <2>5, <5>1
      <4> QED  BY <4>1
    <3>2. ByteIn(p, t, b) = ByteIn(p, s, b)
      <4> HIDE DEF k, D, M
      <4> QED  BY <2>2, <2>3, <2>5, <3>1 DEF ByteIn
    <3> HIDE DEF k
    <3> QED  BY <2>1, <2>5, <3>2 DEF k
  <2> QED  BY <2>4, <2>5
<1> QED  BY <1>2, <1>4 DEF Stored

\* A number read from n bytes that are those of v is v cut to n bytes.
LEMMA GetBytes ==
  ASSUME NEW p, Machine(p), NEW n \in 0 .. 8, NEW v \in Nat, NEW db, NEW from,
         \A k \in 0 .. n-1 : db[from + k] = ByteAt(p, v, k)
  PROVE  Get(p, db, from, n) = v % 2^(p.by * n)
<1> DEFINE by == p.by  J == 0 .. n-1  u == 2^by
           Q == [j \in 0 .. n |-> 2^(by * j)]
           F == [k \in J |-> db[from + k] * Q[k]]
           h == CHOOSE h : h = [s \in SUBSET J |-> IF s = {} THEN 0
                  ELSE LET e == CHOOSE e \in s : TRUE IN db[from + e] * 2^(p.by * e) + h[s \ {e}]]
<1>1. by \in Nat \ {0} /\ Powers(by * 8) /\ u \in Nat \ {0} /\ n \in Nat /\ by * 8 \in Nat
  BY DEF Machine
<1>2. \A j \in 0 .. n : by * j \in 0 .. by * 8 /\ by * j + by = by * (j + 1)
  <2> SUFFICES ASSUME NEW j \in 0 .. n PROVE by * j \in 0 .. by * 8 /\ by * j + by = by * (j + 1)
    OBVIOUS
  <2> HIDE DEF by
  <2>1. by * j <= by * 8 /\ by * j \in Nat
    BY <1>1
  <2> QED  BY <1>1, <2>1
<1>3. \A j \in 0 .. n : Q[j] = 2^(by * j) /\ Q[j] \in Nat \ {0}
  <2> HIDE DEF by
  <2> QED  BY <1>1, <1>2, PowersPositive
<1>4. Places(n, u, Q)
  <2>1. Q[0] = 1
    <3>1. by * 0 = 0 /\ 2^0 = 1 /\ 0 \in 0 .. n
      BY <1>1
    <3> HIDE DEF Q, by
    <3> QED  BY <3>1, <1>3
  <2>2. ASSUME NEW j \in 0 .. n-1 PROVE Q[j] \in Nat \ {0} /\ Q[j + 1] = Q[j] * u
    <3>1. j \in 0 .. n /\ j + 1 \in 0 .. n /\ by * j \in Nat /\ by \in Nat /\ by * j + by <= by * 8
      <4>1. j \in 0 .. n /\ j + 1 \in 0 .. n
        BY <1>1
      <4> HIDE DEF by
      <4> QED  BY <1>1, <1>2, <4>1
    <3>2. 2^(by * j + by) = 2^(by * j) * 2^by
      BY <1>1, <3>1, PowersAdd
    <3> HIDE DEF Q, by, u
    <3> QED  BY <1>2, <1>3, <3>1, <3>2 DEF u
  <2> HIDE DEF Q, u
  <2> QED  BY <2>1, <2>2 DEF Places
<1>5. \A k \in J : F[k] = ((v \div Q[k]) % u) * Q[k] /\ F[k] = db[from + k] * 2^(by * k)
  <2> SUFFICES ASSUME NEW k \in J PROVE F[k] = ((v \div Q[k]) % u) * Q[k] /\ F[k] = db[from + k] * 2^(by * k)
    OBVIOUS
  <2>1. F[k] = db[from + k] * Q[k] /\ db[from + k] = ByteAt(p, v, k) /\ Q[k] = 2^(by * k)
    BY <1>1
  <2>2. ByteAt(p, v, k) = (v \div 2^(by * k)) % u
    BY DEF ByteAt, Shr
  <2> HIDE DEF F, Q, by, u
  <2> QED  BY <2>1, <2>2
<1>6. F \in [J -> Int]
  <2> HIDE DEF Q, u
  <2>1. ASSUME NEW k \in J PROVE F[k] \in Int
    <3>1. v \div Q[k] \in Int
      <4>1. Q[k] \in Nat \ {0} /\ v \in Int
        BY <1>1, <1>3
      <4> QED  BY <4>1, DivMod
    <3>2. (v \div Q[k]) % u \in Int /\ Q[k] \in Int
      <4> DEFINE d == v \div Q[k]
      <4> HIDE DEF d
      <4>1. d % u \in 0 .. u-1
        BY <1>1, <3>1, DivMod DEF d
      <4>2. Q[k] \in Int
        BY <1>1, <1>3
      <4> QED  BY <1>1, <4>1, <4>2 DEF d
    <3> HIDE DEF F
    <3> QED  BY <1>5, <3>2
  <2>2. F = [k \in J |-> F[k]]
    OBVIOUS
  <2> HIDE DEF F
  <2> QED  BY <2>1, <2>2
<1>7. Get(p, db, from, n) = h[J]
  BY Zenon DEF Get, MapThenSumSet, MapThenFoldSet
<1> HIDE DEF Q
<1>8. ASSUME NEW k, NEW s \in SUBSET J
      PROVE  SumStep(k, F, s) = IF s = {} THEN 0
               ELSE LET e == CHOOSE e \in s : TRUE IN db[from + e] * 2^(p.by * e) + k[s \ {e}]
  <2> DEFINE e == CHOOSE e \in s : TRUE
  <2>1. CASE s = {}
    BY <2>1 DEF SumStep
  <2>2. CASE s # {}
    <3>1. e \in s /\ e \in J
      BY <2>2
    <3>2. F[e] = db[from + e] * 2^(p.by * e)
      <4> HIDE DEF e, F
      <4> QED  BY <3>1, <1>5
    <3>3. SumStep(k, F, s) = F[e] + k[s \ {e}]
      <4> HIDE DEF F
      <4> QED  BY <2>2, Zenon DEF SumStep
    <3> HIDE DEF F
    <3> QED  BY <2>2, <3>2, <3>3
  <2> QED  BY <2>1, <2>2
<1>9. h = CHOOSE g : g = [s \in SUBSET J |-> SumStep(g, F, s)]
  <2>1. \A k : [s \in SUBSET J |-> SumStep(k, F, s)] =
          [s \in SUBSET J |-> IF s = {} THEN 0
             ELSE LET e == CHOOSE e \in s : TRUE IN db[from + e] * 2^(p.by * e) + k[s \ {e}]]
    <3> HIDE DEF F, J
    <3> QED  BY <1>8, Zenon
  <2> HIDE DEF F, J
  <2> QED  BY <2>1, ZenonT(40)
<1>10. IsSum(h, J, F)
  <2> HIDE DEF h, F
  <2> QED  BY <1>1, <1>6, <1>9, ByteSum
<1> HIDE DEF h
<1>11. Digits(v, n, u, Q, F)
  <2> HIDE DEF F
  <2> QED  BY <1>5 DEF Digits
<1>12. h[J] = v % Q[n]
  <2>1. v \in Int
    OBVIOUS
  <2>2. IsSum(h, 0 .. n-1, F)
    BY <1>10
  <2>3. n \in Nat /\ u \in Nat \ {0}
    BY <1>1
  <2> HIDE DEF F, u, by
  <2>4. h[0 .. n-1] = v % Q[n]
    BY <1>4, <1>11, <2>1, <2>2, <2>3, DigitsSum
  <2> QED  BY <2>4
<1>13. Q[n] = 2^(p.by * n)
  BY <1>1, <1>3
<1> QED  BY <1>7, <1>12, <1>13

\* The hart of a state is one, with words in its registers and an aligned pc.
LEMMA HartFacts ==
  ASSUME Types
  PROVE  /\ P \in {Rv32(BW), Rv64(BW)} /\ Machine(P) /\ P.by = BW /\ P.xb = IF m THEN 8 ELSE 4
         /\ Seed \in Nat
         /\ \A a \in Int : XWord(a) \in Word(XLen(P)) /\ XWord(a) \in Nat
         /\ IsHart(Hart) /\ \A r \in 0 .. 31 : Hart.x[r] \in Word(XLen(P))
         /\ Hart.mem = <<>> /\ Hart.pc = XWord(4 * vs2) /\ Hart.size = 4 /\ Hart.next = NoBranch /\ Hart.trap = <<>>
<1>1. P \in {Rv32(BW), Rv64(BW)} /\ P.xb = IF m THEN 8 ELSE 4
  BY DEF Types, P, Rv32, Rv64
<1>2. Machine(P) /\ P.by = BW
  BY <1>1, MachineFacts
<1>3. 2^XLen(P) \in Nat \ {0}
  BY <1>2 DEF Machine
<1>4. \A a \in Int : XWord(a) \in Word(XLen(P)) /\ XWord(a) \in Nat
  <2>1. \A a \in Int : XWord(a) \in Word(XLen(P))
    BY <1>3, TruncWord DEF XWord
  <2> QED  BY <1>3, <2>1 DEF Word
<1>5. Seed \in Nat /\ vs1 \in Nat
  BY WideWord, WordFacts DEF Types, Seed
<1> DEFINE X == [r \in 0 .. 31 |-> IF r = sp THEN XWord(Seed * (IF m THEN 257 ELSE 1)) ELSE XWord(Seed + 37 * r)]
<1>6. DOMAIN X = 0 .. 31 /\ \A r \in 0 .. 31 : X[r] \in Word(XLen(P))
  <2>1. Seed * (IF m THEN 257 ELSE 1) \in Int /\ \A r \in 0 .. 31 : Seed + 37 * r \in Int
    BY <1>5
  <2> QED  BY <1>4, <2>1
<1> HIDE DEF X
<1>7. Hart = [x |-> X, mem |-> <<>>, fill |-> vs1, pc |-> XWord(4 * vs2), size |-> 4, next |-> NoBranch, trap |-> <<>>]
  BY DEF Hart, X
<1>8. IsHart(Hart) /\ Hart.x = X /\ Hart.mem = <<>> /\ Hart.pc = XWord(4 * vs2) /\ Hart.size = 4 /\ Hart.next = NoBranch /\ Hart.trap = <<>>
  BY <1>5, <1>6, <1>7 DEF IsHart
<1> QED  BY <1>1, <1>2, <1>4, <1>5, <1>6, <1>8

\* b is s after a branch that was taken to e: it traps on a misaligned address without C.
Branched(s, c, b, e) == IF ~c /\ e % 4 # 0 THEN b.trap # <<>> /\ b.next = s.next
                        ELSE b.trap = <<>> /\ b.next = e

\* A branch that is taken.
LEMMA BranchesTo ==
  ASSUME NEW s, IsHart(s), s.trap = <<>>, NEW c \in BOOLEAN, NEW o, NEW b, b = BranchConditional(P, s, c, TRUE, o)
  PROVE  Branched(s, c, b, XWord(o + s.pc)) /\ BranchConditional(P, s, c, FALSE, o) = s
<1> DEFINE target == Trunc(XLen(P), o + s.pc)
           choice(taken) == CASE ~taken -> s
                              [] taken /\ ~c /\ target % 4 # 0 -> Trap(s, "InstructionAddressMisaligned", s.pc)
                              [] OTHER -> [s EXCEPT !.next = target]
<1>1. b = choice(TRUE) /\ BranchConditional(P, s, c, FALSE, o) = choice(FALSE)
  BY Zenon DEF BranchConditional
<1> HIDE DEF target
<1>2. choice(FALSE) = s
  BY Zenon
<1>3. ~c /\ target % 4 # 0 => choice(TRUE) = Trap(s, "InstructionAddressMisaligned", s.pc)
  BY Zenon
<1>4. ~(~c /\ target % 4 # 0) => choice(TRUE) = [s EXCEPT !.next = target]
  BY Zenon
<1> HIDE DEF choice
<1>5. CASE ~c /\ target % 4 # 0
  <2>1. b = [s EXCEPT !.trap = <<"InstructionAddressMisaligned", s.pc>>]
    BY <1>1, <1>3, <1>5 DEF Trap
  <2>2. b.trap # <<>> /\ b.next = s.next
    <3>1. b.trap = <<"InstructionAddressMisaligned", s.pc>> /\ b.next = s.next
      BY <2>1 DEF IsHart
    <3>2. <<"InstructionAddressMisaligned", s.pc>> # <<>>
      OBVIOUS
    <3> QED  BY <3>1, <3>2
  <2> QED  BY <1>1, <1>2, <1>5, <2>2 DEF target, XWord, Branched
<1>6. CASE ~(~c /\ target % 4 # 0)
  <2>1. b.trap = s.trap /\ b.next = target
    BY <1>1, <1>4, <1>6 DEF IsHart
  <2> QED  BY <1>1, <1>2, <1>6, <2>1 DEF target, XWord, Branched
<1> QED  BY <1>5, <1>6

\* A register's width is a multiple of 4, so the words at its end keep alignment.
LEMMA AlignedWord ==
  ASSUME NEW p, Machine(p), NEW a \in Int
  PROVE  /\ Trunc(XLen(p), a) % 2 = a % 2 /\ Trunc(XLen(p), a) % 4 = a % 4 /\ Trunc(XLen(p), a) % 64 = a % 64
<1> DEFINE w == XLen(p)  t == Trunc(w, a)  q == Shr(a, w)
<1>1. PICK c \in Nat : 2^w = 256 * c
  BY DEF Machine
<1>2. t \in Int /\ q \in Int /\ a = q * 2^w + t
  <2>1. 2^w \in Nat \ {0}
    BY DEF Machine
  <2> QED  BY <2>1, TruncWord DEF Word
<1> HIDE DEF t, q, w
<1> DEFINE d == q * c
<1>3. d \in Int /\ a = 256 * d + t
  BY <1>1, <1>2
<1> HIDE DEF d
<1>4. t % 2 = a % 2 /\ t % 4 = a % 4 /\ t % 64 = a % 64
  BY <1>2, <1>3
<1> QED  BY <1>4 DEF t, w

\* Jumps, branches and calls of the state's hart.
LEMMA JumpsHold ==
  ASSUME Types, NEW c \in BOOLEAN
  PROVE  LET s == Hart  off == vd
             jal(d) == IF m THEN Rv64Jal(P, s, d, off, ra) ELSE Rv32Jal(P, s, d, off, ra)
             jalr(h, b, o) == IF m THEN Rv64Jalr(P, h, TRUE, b, o, 5) ELSE Rv32Jalr(P, h, TRUE, b, o, 5)
             j == jal(c)  b == BranchConditional(P, s, c, TRUE, off)
         IN  /\ (j.trap # <<>>) = (~c /\ Even(XWord(s.pc + off)) % 4 # 0)
             /\ j.trap # <<>> => j.x = s.x /\ j.next = NoBranch
             /\ j.trap = <<>> => LET back == jalr([j EXCEPT !.pc = j.next], j.x[ra], 0)
                                 IN back.next = XWord(s.pc + s.size)
             /\ off % 2 = 0 => b.next = j.next /\ (b.trap = <<>>) = (j.trap = <<>>)
             /\ BranchConditional(P, s, c, FALSE, off) = s
<1> DEFINE s == Hart  off == vd
           j == IF m THEN Rv64Jal(P, s, c, off, ra) ELSE Rv32Jal(P, s, c, off, ra)
           b == BranchConditional(P, s, c, TRUE, off)
           h == [j EXCEPT !.pc = j.next]  link == XWord(s.pc + s.size)
           g == IF m THEN Rv64Jalr(P, h, TRUE, j.x[ra], 0, 5) ELSE Rv32Jalr(P, h, TRUE, j.x[ra], 0, 5)
           e == XWord(off + s.pc)  target == Even(e)
<1>1. /\ Machine(P) /\ IsHart(s) /\ s.pc = XWord(4 * vs2) /\ s.size = 4 /\ s.next = NoBranch
      /\ s.trap = <<>> /\ \A a \in Int : XWord(a) \in Word(XLen(P)) /\ XWord(a) \in Nat
  BY HartFacts
<1>2. off \in Int /\ vs2 \in Int /\ ra \in 0 .. 31 /\ 5 \in 0 .. 31 /\ 0 \in Int
  BY WordFacts DEF Types, ra
<1>3. s.pc \in Nat /\ off + s.pc = s.pc + off /\ e \in Nat
  <2>1. s.pc \in Nat
    BY <1>1, <1>2
  <2> HIDE DEF s, off
  <2>2. off + s.pc \in Int /\ off + s.pc = s.pc + off
    BY <1>2, <2>1
  <2> QED  BY <1>1, <2>1, <2>2
<1> HIDE DEF s, off
<1>4. IF IsTargetMisaligned(c, target)
      THEN j.trap # <<>> /\ j.x = s.x /\ j.next = s.next
      ELSE j.trap = s.trap /\ j.next = target /\ j.x[ra] = link /\ IsHart(j)
  <2>1. IF IsTargetMisaligned(c, target) THEN j = Trap(s, "InstructionAddressMisaligned", target)
        ELSE j = [s EXCEPT !.next = target, !.x[ra] = link]
    BY DEF Types, Rv64Jal, Rv32Jal, XWord
  <2> HIDE DEF target, link, j
  <2>2. CASE IsTargetMisaligned(c, target)
    <3>1. j = [s EXCEPT !.trap = <<"InstructionAddressMisaligned", target>>]
      BY <2>1, <2>2 DEF Trap
    <3>2. j.trap = <<"InstructionAddressMisaligned", target>> /\ j.x = s.x /\ j.next = s.next
      BY <1>1, <3>1 DEF IsHart
    <3>3. <<"InstructionAddressMisaligned", target>> # <<>>
      OBVIOUS
    <3> QED  BY <2>2, <3>2, <3>3
  <2>3. CASE ~IsTargetMisaligned(c, target)
    <3>1. j = [s EXCEPT !.next = target, !.x[ra] = link]
      BY <2>1, <2>3
    <3>2. j.trap = s.trap /\ j.next = target /\ j.x[ra] = link /\ IsHart(j)
      BY <1>1, <1>2, <3>1 DEF IsHart
    <3> QED  BY <2>3, <3>2
  <2> QED  BY <2>2, <2>3
<1>5. /\ IF ~c /\ e % 4 # 0 THEN b.trap # <<>> /\ b.next = s.next ELSE b.trap = <<>> /\ b.next = e
      /\ BranchConditional(P, s, c, FALSE, off) = s
  <2>1. b = BranchConditional(P, s, c, TRUE, off)
    OBVIOUS
  <2> HIDE DEF b
  <2>2. Branched(s, c, b, e) /\ BranchConditional(P, s, c, FALSE, off) = s
    BY <1>1, <2>1, BranchesTo
  <2> HIDE DEF e
  <2> QED  BY <2>2 DEF Branched
<1>6. off % 2 = 0 => target = e
  <2>1. e % 2 = (off + s.pc) % 2
    BY <1>1, <1>2, <1>3, AlignedWord DEF XWord
  <2>2. s.pc % 2 = 0
    <3>1. s.pc % 2 = (4 * vs2) % 2
      BY <1>1, <1>2, AlignedWord DEF XWord
    <3>2. (4 * vs2) % 2 = 0
      BY <1>2
    <3> QED  BY <3>1, <3>2
  <2> HIDE DEF e
  <2>3. off % 2 = 0 => e % 2 = 0
    BY <1>2, <1>3, <2>1, <2>2
  <2> QED  BY <1>3, <2>3 DEF Even
<1>7. Even(XWord(0 + link)) = link
  <2>1. link \in Word(XLen(P)) /\ link \in Nat
    <3>1. s.pc + s.size \in Int
      BY <1>1, <1>3
    <3> QED  BY <1>1, <3>1
  <2>2. link % 2 = (s.pc + 4) % 2
    BY <1>1, <1>3, <2>1, AlignedWord DEF XWord
  <2>3. s.pc % 2 = 0
    <3>1. s.pc % 2 = (4 * vs2) % 2
      BY <1>1, <1>2, AlignedWord DEF XWord
    <3>2. (4 * vs2) % 2 = 0
      BY <1>2
    <3> QED  BY <3>1, <3>2
  <2>4. link % 2 = 0
    BY <1>3, <2>2, <2>3
  <2> HIDE DEF link
  <2>5. XWord(0 + link) = link
    <3>1. 0 + link = link /\ link = 0 * 2^XLen(P) + link /\ link \in Int /\ 2^XLen(P) \in Nat \ {0}
      BY <1>1, <2>1 DEF Machine
    <3> QED  BY <2>1, <3>1, TruncIs DEF XWord
  <2> QED  BY <2>1, <2>4, <2>5 DEF Even
<1>8. j.trap = <<>> => g.next = link
  <2> SUFFICES ASSUME j.trap = <<>> PROVE g.next = link
    OBVIOUS
  <2>1. j.x[ra] = link /\ IsHart(j)
    BY <1>4
  <2> HIDE DEF j
  <2>2. IsHart(h)
    BY <2>1 DEF IsHart
  <2> DEFINE there == Even(XWord(0 + j.x[ra]))  after == XWord(h.pc + h.size)
  <2>3. g = [h EXCEPT !.next = there, !.x[5] = after]
    BY DEF Types, Rv64Jalr, Rv32Jalr, IsTargetMisaligned, XWord
  <2> HIDE DEF h, g, there, after
  <2>4. g.next = there
    BY <2>2, <2>3 DEF IsHart
  <2> QED  BY <1>7, <2>1, <2>4 DEF there
<1> HIDE DEF j, b, g, h, link, e, target
<1>9. (j.trap # <<>>) = (~c /\ target % 4 # 0)
  BY <1>1, <1>4 DEF IsTargetMisaligned
<1>10. j.trap # <<>> => j.x = s.x /\ j.next = NoBranch
  BY <1>1, <1>4
<1>11. off % 2 = 0 => b.next = j.next /\ (b.trap = <<>>) = (j.trap = <<>>)
  BY <1>1, <1>4, <1>5, <1>6 DEF IsTargetMisaligned
<1>12. target = Even(XWord(s.pc + off))
  BY <1>3 DEF target, e
<1> QED  BY <1>5, <1>8, <1>9, <1>10, <1>11, <1>12 DEF j, b, g, h, link, s, off

\* A word in memory, byte by byte, is loaded whole.
LEMMA LoadedWord ==
  ASSUME NEW p, Machine(p), NEW t, NEW a \in Int, NEW n \in 0 .. 8, NEW v \in Nat,
         \A k \in 0 .. n-1 : ByteIn(p, t, Trunc(ALen(p), a + k)) = ByteAt(p, v, k)
  PROVE  Get(p, LoadMemory(p, t, a, n), 0, n) = Trunc(p.by * n, v)
<1> DEFINE db == LoadMemory(p, t, a, n)
<1>1. ASSUME NEW k \in 0 .. n-1 PROVE db[0 + k] = ByteAt(p, v, k)
  <2>1. 0 + k = k
    OBVIOUS
  <2>2. db[k] = ByteIn(p, t, Trunc(ALen(p), a + k))
    BY DEF LoadMemory
  <2> HIDE DEF db
  <2> QED  BY <2>1, <2>2
<1> HIDE DEF db
<1>2. Get(p, db, 0, n) = v % 2^(p.by * n)
  BY <1>1, GetBytes
<1> QED  BY <1>2 DEF Trunc, db

\* What was stored is loaded, cut to the bytes stored; the bytes beside it, in registers'
\* addresses, are as they were.
LEMMA StoredIsLoaded ==
  ASSUME NEW p, Machine(p), NEW s, IsHart(s), NEW a \in Word(XLen(p)), NEW n \in {1, 2, 4, 8}, NEW v \in Nat,
         NEW db, \A k \in 0 .. n-1 : db[k] = ByteAt(p, v, k), NEW t, t = StoreMemory(p, s, a, n, db)
  PROVE  /\ Get(p, LoadMemory(p, t, a, n), 0, n) = Trunc(p.by * n, v)
         /\ \A k \in {-1, n} : ByteIn(p, t, Trunc(XLen(p), a + k)) = ByteIn(p, s, Trunc(XLen(p), a + k))
<1> DEFINE w == ALen(p)  x == XLen(p)
<1>1. /\ 2^w \in Nat \ {0} /\ 2^x \in Nat \ {0} /\ 2^x <= 2^w /\ 256 <= 2^x /\ 65536 <= 2^w /\ a \in Int
      /\ a \in 0 .. 2^x - 1
  BY DEF Machine, Word
<1>2. n \in 0 .. 8 /\ n \in 0 .. 256 /\ n \in Nat
  OBVIOUS
<1> HIDE DEF w, x
<1>3. \A b \in Word(w) : LET k == Trunc(w, b - a) IN
        k \in Nat /\ ByteIn(p, t, b) = IF k < n THEN db[k] ELSE ByteIn(p, s, b)
  <2>1. a \in Int /\ n \in 0 .. 256
    BY <1>1, <1>2
  <2>2. Stored(p, s, t, a, n, db)
    BY <2>1, StoredByte
  <2> QED  BY <2>2 DEF Stored, w
<1>4. ASSUME NEW k \in 0 .. n-1 PROVE ByteIn(p, t, Trunc(w, a + k)) = ByteAt(p, v, k)
  <2> DEFINE b == Trunc(w, a + k)
  <2>1. b \in Word(w) /\ k \in Word(w)
    <3>1. a + k \in Int
      BY <1>1, <1>2
    <3>2. k \in Word(w)
      BY <1>1, <1>2 DEF Word
    <3> QED  BY <1>1, <3>1, <3>2, TruncWord
  <2>2. Trunc(w, a + k) = b
    OBVIOUS
  <2> HIDE DEF b
  <2>3. Trunc(w, b - a) = k
    BY <1>1, <2>1, Distance DEF b
  <2>4. k < n
    BY <1>2
  <2>5. ByteIn(p, t, b) = db[k]
    BY <1>3, <2>1, <2>3, <2>4
  <2> QED  BY <2>2, <2>5
<1>5. Get(p, LoadMemory(p, t, a, n), 0, n) = Trunc(p.by * n, v)
  BY <1>1, <1>2, <1>4, LoadedWord DEF w
<1>6. ASSUME NEW k \in {-1, n} PROVE ByteIn(p, t, Trunc(x, a + k)) = ByteIn(p, s, Trunc(x, a + k))
  <2> DEFINE b == Trunc(x, a + k)  l == Trunc(w, b - a)  X == 2^x  A == 2^w
  <2>1. k \in Int /\ a + k \in Int
    BY <1>1, <1>2
  <2>2. b \in 0 .. X - 1
    <3>1. b \in Word(x)
      BY <1>1, <2>1, TruncWord
    <3> HIDE DEF b
    <3> QED  BY <3>1 DEF Word
  <2>3. b \in Word(w)
    BY <1>1, <2>2 DEF Word
  <2>4. b = a + k \/ b = a + k - X \/ b = a + k + X
    <3>1. a + k \in 0 .. X - 1 => b = a + k
      <4> SUFFICES ASSUME a + k \in 0 .. X - 1 PROVE b = a + k
        OBVIOUS
      <4>1. a + k = 0 * 2^x + (a + k) /\ a + k \in Word(x)
        <5>1. a + k = 0 * 2^x + (a + k)
          BY <1>1, <2>1
        <5> QED  BY <5>1 DEF Word
      <4> QED  BY <1>1, <2>1, <4>1, TruncIs
    <3>2. a + k - X \in 0 .. X - 1 => b = a + k - X
      <4> SUFFICES ASSUME a + k - X \in 0 .. X - 1 PROVE b = a + k - X
        OBVIOUS
      <4>1. a + k = 1 * 2^x + (a + k - X) /\ a + k - X \in Word(x)
        BY <1>1, <2>1 DEF Word
      <4> QED  BY <1>1, <2>1, <4>1, TruncIs
    <3>3. a + k + X \in 0 .. X - 1 => b = a + k + X
      <4> SUFFICES ASSUME a + k + X \in 0 .. X - 1 PROVE b = a + k + X
        OBVIOUS
      <4>1. a + k = (-1) * 2^x + (a + k + X) /\ a + k + X \in Word(x)
        BY <1>1, <2>1 DEF Word
      <4> QED  BY <1>1, <2>1, <4>1, TruncIs
    <3>4. X \in Int /\ 256 <= X /\ -1 <= k /\ k <= 8
      BY <1>1, <1>2
    <3> HIDE DEF b
    <3> QED  BY <1>1, <2>1, <3>1, <3>2, <3>3, <3>4
  <2> DEFINE d == b - a
  <2>5. d \in {k, k - X, k + X}
    <3>1. X \in Int /\ a \in Int /\ k \in Int
      BY <1>1, <2>1
    <3> HIDE DEF b, X
    <3> QED  BY <2>2, <2>4, <3>1
  <2>6. d \in Int /\ -X < d /\ d < X /\ d \notin 0 .. n-1
    <3>1. X \in Int /\ 256 <= X /\ n <= 8 /\ d \in Int /\ -X < d /\ d < X
      <4> HIDE DEF b
      <4> QED  BY <1>1, <1>2, <2>2
    <3> HIDE DEF d
    <3> QED  BY <1>2, <2>5, <3>1
  <2>7. l = IF d < 0 THEN d + A ELSE d
    <3>1. X \in Int /\ A \in Int /\ X <= A /\ 256 <= X
      BY <1>1
    <3> HIDE DEF d
    <3>2. CASE d < 0
      <4>1. d + A \in Word(w) /\ d = (-1) * 2^w + (d + A)
        BY <2>6, <3>1, <3>2 DEF Word
      <4>2. Trunc(w, d) = d + A
        BY <1>1, <2>6, <4>1, TruncIs
      <4> QED  BY <3>2, <4>2 DEF d
    <3>3. CASE ~(d < 0)
      <4>1. d \in Word(w) /\ d = 0 * 2^w + d
        BY <2>6, <3>1, <3>3 DEF Word
      <4>2. Trunc(w, d) = d
        BY <1>1, <2>6, <4>1, TruncIs
      <4> QED  BY <3>3, <4>2 DEF d
    <3> QED  BY <3>2, <3>3
  <2>8. ~(l < n)
    <3>1. X \in Int /\ A \in Int /\ X <= A /\ 256 <= X /\ 65536 <= A
      BY <1>1
    <3>2. d = k - X /\ k = n => d + A >= n
      <4> HIDE DEF d, X, A
      <4> QED  BY <1>2, <3>1
    <3>3. d = -1 => d + A >= n
      <4> HIDE DEF d
      <4> QED  BY <1>2, <3>1
    <3> HIDE DEF l, d, X, A
    <3> QED  BY <1>2, <2>5, <2>6, <2>7, <3>1, <3>2, <3>3
  <2> HIDE DEF b
  <2> QED  BY <1>3, <2>3, <2>8 DEF b
<1> QED  BY <1>5, <1>6 DEF x

\* A word widened to its own width is itself.
LEMMA SameWidth ==
  ASSUME NEW w, 2^w \in Nat \ {0}, NEW v \in Word(w)
  PROVE  Trunc(w, v) = v /\ Sext(w, w, v) = v
<1>1. v \in Int /\ v = 0 * 2^w + v
  BY DEF Word
<1>2. Trunc(w, v) = v
  BY <1>1, TruncIs
<1>3. Trunc(w, v - 2^w) = v
  <2>1. v - 2^w \in Int /\ v - 2^w = (-1) * 2^w + v
    BY <1>1
  <2> QED  BY <1>1, <2>1, TruncIs
<1> QED  BY <1>2, <1>3 DEF Sext, Signed

\* The two moves of a register pair undo each other.
LEMMA PairMoves ==
  ASSUME Types
  PROVE  LET s == Hart
             sa == ZCmpMvTwoRegs(s, 10, 11, 8, 9)  as == ZCmpMvTwoRegs(Callee(sa), 8, 9, 10, 11) IN
         as.x[10] = XWord(s.x[10] + 91) /\ as.x[11] = XWord(s.x[11] + 91)
<1> DEFINE s == Hart  s1 == [s EXCEPT !.x[8] = s.x[10]]  sa == [s1 EXCEPT !.x[9] = s1.x[11]]
           t == Callee(sa)  t1 == [t EXCEPT !.x[10] = t.x[8]]  as == [t1 EXCEPT !.x[11] = t1.x[9]]
<1>1. IsHart(s)
  BY HartFacts
<1>2. sa = ZCmpMvTwoRegs(s, 10, 11, 8, 9) /\ as = ZCmpMvTwoRegs(t, 8, 9, 10, 11)
  BY DEF ZCmpMvTwoRegs
<1> HIDE DEF s
<1>3. IsHart(s1) /\ s1.x[8] = s.x[10] /\ s1.x[11] = s.x[11]
  BY <1>1 DEF IsHart
<1> HIDE DEF s1
<1>4. IsHart(sa) /\ sa.x[8] = s.x[10] /\ sa.x[9] = s.x[11]
  BY <1>3 DEF IsHart
<1> HIDE DEF sa
<1>5. IsHart(t) /\ t.x[8] = XWord(s.x[10] + 91) /\ t.x[9] = XWord(s.x[11] + 91)
  BY <1>4 DEF IsHart, Callee, sp
<1> HIDE DEF t
<1>6. IsHart(t1) /\ t1.x[10] = t.x[8] /\ t1.x[9] = t.x[9]
  BY <1>5 DEF IsHart
<1> HIDE DEF t1
<1>7. as.x[10] = t.x[8] /\ as.x[11] = t.x[9]
  BY <1>6 DEF IsHart
<1> HIDE DEF as
<1> QED  BY <1>2, <1>5, <1>7 DEF s, t

\* the number in the n bytes of memory from a on
InMemory(t, a, n) == Get(P, LoadMemory(P, t, a, n), 0, n)

\* What each load leaves in its register.
LEMMA LoadResults ==
  ASSUME Types, NEW t, IsHart(t), NEW b, NEW o, NEW a, a = XWord(b + o)
  PROVE  /\ Load("lbu", t, b, o, 5).x[5] = InMemory(t, a, 1)
         /\ Load("lb", t, b, o, 5).x[5] = Sext(P.by * 1, XLen(P), InMemory(t, a, 1))
         /\ Load("lhu", t, b, o, 5).x[5] = InMemory(t, a, 2)
         /\ Load("lh", t, b, o, 5).x[5] = Sext(P.by * 2, XLen(P), InMemory(t, a, 2))
         /\ Load("lw", t, b, o, 5).x[5] = Sext(P.by * 4, XLen(P), InMemory(t, a, 4))
         /\ m => Load("lwu", t, b, o, 5).x[5] = InMemory(t, a, 4)
         /\ m => Load("ld", t, b, o, 5).x[5] = Sext(P.by * 8, XLen(P), InMemory(t, a, 8))
<1>1. ASSUME NEW db, NEW n, NEW signed \in BOOLEAN
      PROVE  RVLoadChild(P, t, db, n, signed, 5).x[5] = IF signed THEN Sext(P.by * n, XLen(P), Get(P, db, 0, n)) ELSE Get(P, db, 0, n)
  <2> DEFINE r == IF signed THEN Sext(P.by * n, XLen(P), Get(P, db, 0, n)) ELSE Get(P, db, 0, n)
  <2>1. RVLoadChild(P, t, db, n, signed, 5) = [t EXCEPT !.x[5] = r]
    BY DEF RVLoadChild
  <2> HIDE DEF r
  <2>2. [t EXCEPT !.x[5] = r].x[5] = r
    BY DEF IsHart
  <2> QED  BY <2>1, <2>2 DEF r
<1>2. ASSUME NEW op, NEW n, NEW signed \in BOOLEAN, (IF m THEN Rv64Load[op] ELSE Rv32Load[op]) = Access(n, signed)
      PROVE  Load(op, t, b, o, 5).x[5] = IF signed THEN Sext(P.by * n, XLen(P), InMemory(t, a, n)) ELSE InMemory(t, a, n)
  <2>1. Access(n, signed).n = n /\ Access(n, signed).signed = signed
    BY DEF Access
  <2>2. RVLoad(P, t, b, o, n) = LoadMemory(P, t, a, n)
    BY DEF RVLoad, XWord
  <2>3. Load(op, t, b, o, 5) = RVLoadChild(P, t, LoadMemory(P, t, a, n), n, signed, 5)
    BY <1>2, <2>1, <2>2 DEF Load
  <2> QED  BY <1>1, <2>3 DEF InMemory
<1>3. /\ Rv64Load["lb"] = Access(1, TRUE) /\ Rv64Load["lbu"] = Access(1, FALSE) /\ Rv64Load["lh"] = Access(2, TRUE)
      /\ Rv64Load["lhu"] = Access(2, FALSE) /\ Rv64Load["lw"] = Access(4, TRUE) /\ Rv64Load["lwu"] = Access(4, FALSE)
      /\ Rv64Load["ld"] = Access(8, TRUE)
  BY DEF Rv64Load
<1>4. /\ Rv32Load["lb"] = Access(1, TRUE) /\ Rv32Load["lbu"] = Access(1, FALSE) /\ Rv32Load["lh"] = Access(2, TRUE)
      /\ Rv32Load["lhu"] = Access(2, FALSE) /\ Rv32Load["lw"] = Access(4, TRUE)
  BY DEF Rv32Load
<1>5. ASSUME NEW op, NEW n, (IF m THEN Rv64Load[op] ELSE Rv32Load[op]) = Access(n, FALSE)
      PROVE  Load(op, t, b, o, 5).x[5] = InMemory(t, a, n)
  BY <1>2, <1>5, Zenon
<1>6. ASSUME NEW op, NEW n, (IF m THEN Rv64Load[op] ELSE Rv32Load[op]) = Access(n, TRUE)
      PROVE  Load(op, t, b, o, 5).x[5] = Sext(P.by * n, XLen(P), InMemory(t, a, n))
  BY <1>2, <1>6, Zenon
<1>7. Load("lbu", t, b, o, 5).x[5] = InMemory(t, a, 1)
  <2>1. (IF m THEN Rv64Load["lbu"] ELSE Rv32Load["lbu"]) = Access(1, FALSE)
    BY <1>3, <1>4
  <2> QED  BY <1>5, <2>1
<1>8. Load("lb", t, b, o, 5).x[5] = Sext(P.by * 1, XLen(P), InMemory(t, a, 1))
  <2>1. (IF m THEN Rv64Load["lb"] ELSE Rv32Load["lb"]) = Access(1, TRUE)
    BY <1>3, <1>4
  <2> QED  BY <1>6, <2>1
<1>9. Load("lhu", t, b, o, 5).x[5] = InMemory(t, a, 2)
  <2>1. (IF m THEN Rv64Load["lhu"] ELSE Rv32Load["lhu"]) = Access(2, FALSE)
    BY <1>3, <1>4
  <2> QED  BY <1>5, <2>1
<1>10. Load("lh", t, b, o, 5).x[5] = Sext(P.by * 2, XLen(P), InMemory(t, a, 2))
  <2>1. (IF m THEN Rv64Load["lh"] ELSE Rv32Load["lh"]) = Access(2, TRUE)
    BY <1>3, <1>4
  <2> QED  BY <1>6, <2>1
<1>11. Load("lw", t, b, o, 5).x[5] = Sext(P.by * 4, XLen(P), InMemory(t, a, 4))
  <2>1. (IF m THEN Rv64Load["lw"] ELSE Rv32Load["lw"]) = Access(4, TRUE)
    BY <1>3, <1>4
  <2> QED  BY <1>6, <2>1
<1>12. m => Load("lwu", t, b, o, 5).x[5] = InMemory(t, a, 4)
  <2>1. m => (IF m THEN Rv64Load["lwu"] ELSE Rv32Load["lwu"]) = Access(4, FALSE)
    BY <1>3
  <2> QED  BY <1>5, <2>1
<1>13. m => Load("ld", t, b, o, 5).x[5] = Sext(P.by * 8, XLen(P), InMemory(t, a, 8))
  <2>1. m => (IF m THEN Rv64Load["ld"] ELSE Rv32Load["ld"]) = Access(8, TRUE)
    BY <1>3
  <2> QED  BY <1>6, <2>1
<1> QED  BY <1>7, <1>8, <1>9, <1>10, <1>11, <1>12, <1>13

\* Two bytes in memory are one number of twice the width.
LEMMA HalfIsTwoBytes ==
  ASSUME Types, NEW t, NEW a \in Nat,
         ByteIn(P, t, Trunc(ALen(P), a)) \in Word(P.by), ByteIn(P, t, Trunc(ALen(P), a + 1)) \in Word(P.by)
  PROVE  InMemory(t, a, 2) = InMemory(t, a, 1) + 2^P.by * InMemory(t, a + 1, 1)
<1> DEFINE u == 2^P.by  x == ByteIn(P, t, Trunc(ALen(P), a))  y == ByteIn(P, t, Trunc(ALen(P), a + 1))  v == x + u * y
<1>1. Machine(P) /\ P.by \in Nat \ {0} /\ u \in Nat \ {0} /\ x \in 0 .. u-1 /\ y \in 0 .. u-1 /\ P.by * 1 = P.by /\ P.by * 0 = 0
  <2>1. Machine(P)
    BY HartFacts
  <2> QED  BY <2>1 DEF Machine, Word
<1>2. 2^(P.by * 2) = u * u /\ 2^(P.by * 2) \in Nat \ {0}
  <2>1. P.by * 2 = P.by + P.by /\ P.by \in Nat /\ P.by + P.by <= P.by * 8 /\ P.by * 8 \in Nat /\ P.by * 2 \in 0 .. P.by * 8
    BY <1>1
  <2>2. Powers(P.by * 8)
    BY <1>1 DEF Machine
  <2>3. 2^(P.by + P.by) = 2^P.by * 2^P.by /\ 2^(P.by * 2) \in Nat \ {0}
    BY <2>1, <2>2, PowersAdd, PowersPositive
  <2> QED  BY <2>1, <2>3
<1> HIDE DEF x, y
<1>3. ASSUME NEW z \in 0 .. u-1, NEW c \in Int, ByteIn(P, t, Trunc(ALen(P), c + 0)) = z
      PROVE  InMemory(t, c, 1) = z
  <2>1. ByteAt(P, z, 0) = z
    <3>1. z \div 1 = z /\ z % u = z
      <4>1. z \in Int /\ z = 0 * u + z
        BY <1>1
      <4> HIDE DEF u
      <4>2. z % u = z
        BY <1>1, <4>1, Unique
      <4>3. z \div 1 = z
        BY <1>1, <4>1
      <4> QED  BY <4>2, <4>3
    <3>2. 2^0 = 1
      OBVIOUS
    <3> QED  BY <1>1, <3>1, <3>2 DEF ByteAt, Shr
  <2>2. \A k \in 0 .. 1-1 : ByteIn(P, t, Trunc(ALen(P), c + k)) = ByteAt(P, z, k)
    <3>1. \A k \in 0 .. 1-1 : k = 0
      OBVIOUS
    <3> QED  BY <1>3, <2>1, <3>1
  <2>3. Get(P, LoadMemory(P, t, c, 1), 0, 1) = Trunc(P.by * 1, z)
    <3>1. 1 \in 0 .. 8 /\ z \in Nat
      BY <1>1
    <3> QED  BY <1>1, <2>2, <3>1, LoadedWord
  <2>4. Trunc(P.by, z) = z
    BY <1>1, SameWidth DEF Word
  <2> QED  BY <1>1, <2>3, <2>4 DEF InMemory
<1>4. InMemory(t, a, 1) = x /\ InMemory(t, a + 1, 1) = y
  <2>1. a + 0 = a /\ (a + 1) + 0 = a + 1 /\ a \in Int /\ a + 1 \in Int
    OBVIOUS
  <2>2. ByteIn(P, t, Trunc(ALen(P), a + 0)) = x /\ ByteIn(P, t, Trunc(ALen(P), (a + 1) + 0)) = y
    BY <2>1 DEF x, y
  <2> HIDE DEF u
  <2>3. InMemory(t, a, 1) = x
    BY <1>1, <1>3, <2>1, <2>2
  <2>4. InMemory(t, a + 1, 1) = y
    BY <1>1, <1>3, <2>1, <2>2
  <2> QED  BY <2>3, <2>4
<1>5. v \in 0 .. u * u - 1 /\ v \in Nat /\ v \div u = y /\ v % u = x /\ y % u = y
  <2> HIDE DEF u
  <2>1. u * y <= u * (u - 1) /\ u * (u - 1) = u * u - u /\ u * y \in Nat /\ u * u \in Nat /\ u * y = y * u
    BY <1>1
  <2>2. v \in 0 .. u * u - 1 /\ v \in Nat
    BY <1>1, <2>1
  <2>3. v \in Int /\ v = y * u + x /\ y \in Int /\ y = 0 * u + y
    BY <1>1, <2>1
  <2> HIDE DEF v
  <2>4. v \div u = y /\ v % u = x
    BY <1>1, <2>3, Unique
  <2>5. y % u = y
    BY <1>1, <2>3, Unique
  <2> QED  BY <2>2, <2>4, <2>5
<1> HIDE DEF v
<1>6. ByteAt(P, v, 0) = x /\ ByteAt(P, v, 1) = y
  <2>1. 2^0 = 1 /\ v \div 1 = v
    BY <1>5
  <2>2. ByteAt(P, v, 0) = (v \div 2^0) % u /\ ByteAt(P, v, 1) = (v \div u) % u
    BY <1>1 DEF ByteAt, Shr
  <2> HIDE DEF u
  <2> QED  BY <1>5, <2>1, <2>2
<1>7. \A k \in 0 .. 2-1 : ByteIn(P, t, Trunc(ALen(P), a + k)) = ByteAt(P, v, k)
  <2>1. \A k \in 0 .. 2-1 : k = 0 \/ k = 1
    OBVIOUS
  <2>2. a + 0 = a
    OBVIOUS
  <2> QED  BY <1>6, <2>1, <2>2 DEF x, y
<1>8. InMemory(t, a, 2) = Trunc(P.by * 2, v)
  <2>1. 2 \in 0 .. 8 /\ a \in Int
    OBVIOUS
  <2> QED  BY <1>1, <1>5, <1>7, <2>1, LoadedWord DEF InMemory
<1>9. Trunc(P.by * 2, v) = v
  <2>1. v \in Word(P.by * 2)
    <3> HIDE DEF u
    <3> QED  BY <1>2, <1>5 DEF Word
  <2> QED  BY <1>2, <2>1, SameWidth
<1> QED  BY <1>4, <1>8, <1>9 DEF v

\* Where a table jump goes.
LEMMA TableJump ==
  ASSUME NEW p, NEW t, IsHart(t), NEW jvt \in Nat, NEW index, NEW a, NEW target,
         a = Trunc(XLen(p), jvt - (jvt % 64) + index * p.xb),
         target = Get(p, LoadMemory(p, t, a, p.xb), 0, p.xb)
  PROVE  /\ jvt % 64 = 0 => /\ ZCmtJt(p, t, jvt, index).next = target
                            /\ ZCmtJalt(p, t, jvt, index).next = target
                            /\ ZCmtJalt(p, t, jvt, index).x[ra] = Trunc(XLen(p), t.pc + t.size)
         /\ jvt % 64 # 0 => ZCmtJt(p, t, jvt, index).trap # <<>> /\ ZCmtJt(p, t, jvt, index).next = t.next
<1> DEFINE h == ZCmtJtHelper(p, t, jvt, index)  link == Trunc(XLen(p), t.pc + t.size)
<1>1. h = IF jvt % 64 # 0 THEN [t EXCEPT !.trap = <<"IllegalInstruction", 0>>] ELSE [t EXCEPT !.next = target]
  BY DEF ZCmtJtHelper, Trap
<1>2. ZCmtJt(p, t, jvt, index) = h /\ ZCmtJalt(p, t, jvt, index) = [h EXCEPT !.x[ra] = link]
  BY DEF ZCmtJt, ZCmtJalt
<1> HIDE DEF h, link
<1>3. ASSUME jvt % 64 = 0
      PROVE  h.next = target /\ [h EXCEPT !.x[ra] = link].next = target /\ [h EXCEPT !.x[ra] = link].x[ra] = link
  <2>1. h = [t EXCEPT !.next = target]
    BY <1>1, <1>3
  <2>2. h.next = target /\ IsHart(h)
    BY <2>1 DEF IsHart
  <2>3. ra \in 0 .. 31
    BY DEF ra
  <2> QED  BY <2>2, <2>3 DEF IsHart
<1>4. ASSUME jvt % 64 # 0 PROVE h.trap # <<>> /\ h.next = t.next
  <2>1. h = [t EXCEPT !.trap = <<"IllegalInstruction", 0>>]
    BY <1>1, <1>4
  <2>2. h.trap = <<"IllegalInstruction", 0>> /\ h.next = t.next
    BY <2>1 DEF IsHart
  <2>3. <<"IllegalInstruction", 0>> # <<>>
    OBVIOUS
  <2> QED  BY <2>2, <2>3
<1> QED  BY <1>2, <1>3, <1>4 DEF link

\* Table jumps of the state's hart.
LEMMA TableJumpsHold ==
  ASSUME Types
  PROVE  LET s == Hart  v == XWord(Seed * 259 + 131)
             zcmt(link, h, jvt) == IF m THEN Rv64Zcmt(BW, link, h, jvt, vd) ELSE Rv32Zcmt(BW, link, h, jvt, vd)
             entry == XWord(64 * vxrm + vd * P.xb)
             t == RVStore(P, s, entry, 0, P.xb, v)  j == zcmt(TRUE, t, 64 * vxrm)
         IN  /\ j.next = v /\ j.x[ra] = XWord(s.pc + s.size)
             /\ zcmt(FALSE, t, JvtWrite(XLen(P), 64 * vxrm + (Seed % 64))).next = v
             /\ zcmt(FALSE, t, 64 * vxrm + 1).trap # <<>> /\ zcmt(FALSE, t, 64 * vxrm + 1).next = NoBranch
<1> DEFINE s == Hart  v == XWord(Seed * 259 + 131)
           zcmt(link, h, jvt) == IF m THEN Rv64Zcmt(BW, link, h, jvt, vd) ELSE Rv32Zcmt(BW, link, h, jvt, vd)
           entry == XWord(64 * vxrm + vd * P.xb)
           t == RVStore(P, s, entry, 0, P.xb, v)
<1>1. /\ Machine(P) /\ IsHart(s) /\ s.next = NoBranch /\ Seed \in Nat
      /\ \A a \in Int : XWord(a) \in Word(XLen(P)) /\ XWord(a) \in Nat
  BY HartFacts
<1>2. /\ 2^XLen(P) \in Nat \ {0} /\ 256 <= 2^XLen(P) /\ P.xb \in {4, 8} /\ P.xb \in Nat
      /\ vd \in Nat /\ vxrm \in 0 .. 3 /\ XLen(P) = P.by * P.xb
  BY <1>1, WordFacts DEF Types, Machine
<1>3. entry \in Word(XLen(P)) /\ v \in Word(XLen(P)) /\ v \in Nat
  <2>1. 64 * vxrm + vd * P.xb \in Int /\ Seed * 259 + 131 \in Int
    BY <1>1, <1>2
  <2> HIDE DEF s
  <2> QED  BY <1>1, <2>1
<1>4. \A h, jvt : zcmt(TRUE, h, jvt) = ZCmtJalt(P, h, jvt, vd) /\ zcmt(FALSE, h, jvt) = ZCmtJt(P, h, jvt, vd)
  BY DEF P, Rv64Zcmt, Rv32Zcmt
<1> HIDE DEF s, zcmt
<1>5. t = StoreMemory(P, s, entry, P.xb, [k \in 0 .. P.xb-1 |-> ByteAt(P, v, k)])
  <2>1. Trunc(XLen(P), entry + 0) = entry
    <3>1. entry + 0 = entry
      BY <1>3 DEF Word
    <3> HIDE DEF entry
    <3> QED  BY <1>2, <1>3, <3>1, SameWidth
  <2> HIDE DEF entry, v
  <2> QED  BY <2>1 DEF RVStore
<1> HIDE DEF t, v, entry
<1>6. Get(P, LoadMemory(P, t, entry, P.xb), 0, P.xb) = v
  <2>1. P.xb \in {1, 2, 4, 8}
    BY <1>2
  <2>2. Machine(P) /\ IsHart(s)
    BY <1>1
  <2>4. Get(P, LoadMemory(P, t, entry, P.xb), 0, P.xb) = Trunc(P.by * P.xb, v)
    <3> DEFINE n == P.xb  db == [k \in 0 .. n-1 |-> ByteAt(P, v, k)]
    <3>1. t = StoreMemory(P, s, entry, n, db) /\ n \in {1, 2, 4, 8} /\ \A k \in 0 .. n-1 : db[k] = ByteAt(P, v, k)
      BY <1>5, <2>1
    <3> HIDE DEF n, db
    <3>2. Get(P, LoadMemory(P, t, entry, n), 0, n) = Trunc(P.by * n, v)
      BY <1>3, <2>2, <3>1, StoredIsLoaded
    <3> QED  BY <3>2 DEF n
  <2>3. Trunc(XLen(P), v) = v
    BY <1>2, <1>3, SameWidth
  <2> QED  BY <1>2, <2>3, <2>4
<1>7. IsHart(t) /\ t.pc = s.pc /\ t.size = s.size /\ t.next = s.next
  <2> DEFINE db == [k \in 0 .. P.xb-1 |-> ByteAt(P, v, k)]
  <2>1. entry \in Int /\ P.xb \in 0 .. 256 /\ t = StoreMemory(P, s, entry, P.xb, db)
    BY <1>2, <1>3, <1>5 DEF Word
  <2> HIDE DEF db
  <2>2. Stored(P, s, t, entry, P.xb, db)
    BY <1>1, <2>1, StoredByte
  <2> QED  BY <2>2 DEF Stored
<1>8. entry = XWord(64 * vxrm + vd * P.xb)
  BY DEF entry
<1>9. /\ (64 * vxrm) % 64 = 0 /\ 64 * vxrm - ((64 * vxrm) % 64) = 64 * vxrm /\ 64 * vxrm \in Nat
      /\ (64 * vxrm + 1) % 64 = 1 /\ 64 * vxrm + 1 \in Nat
  BY <1>2
<1>10. JvtWrite(XLen(P), 64 * vxrm + (Seed % 64)) = 64 * vxrm
  <2> DEFINE d == Seed % 64  e == 64 * vxrm + d
  <2>1. d \in 0 .. 63
    BY <1>1
  <2> HIDE DEF d
  <2>2. e \in 0 .. 255 /\ e % 64 = d
    BY <1>2, <2>1
  <2>3. Trunc(XLen(P), e) = e
    <3> HIDE DEF e
    <3>1. e \in Word(XLen(P))
      BY <1>2, <2>2 DEF Word
    <3> QED  BY <1>2, <3>1, SameWidth
  <2>4. JvtWrite(XLen(P), e) = Trunc(XLen(P), e) - (e % 64)
    BY DEF JvtWrite
  <2>5. JvtWrite(XLen(P), e) = e - d
    <3> HIDE DEF e
    <3> QED  BY <2>2, <2>3, <2>4
  <2> QED  BY <1>2, <2>1, <2>5 DEF d
<1>11. /\ zcmt(TRUE, t, 64 * vxrm).next = v /\ zcmt(FALSE, t, 64 * vxrm).next = v
       /\ zcmt(TRUE, t, 64 * vxrm).x[ra] = Trunc(XLen(P), t.pc + t.size)
  <2> DEFINE jvt == 64 * vxrm
  <2>1. jvt \in Nat /\ jvt % 64 = 0 /\ entry = Trunc(XLen(P), jvt - (jvt % 64) + vd * P.xb)
    BY <1>8, <1>9 DEF XWord
  <2> HIDE DEF jvt
  <2>2. ZCmtJt(P, t, jvt, vd).next = v
    BY <1>6, <1>7, <2>1, TableJump
  <2>3. ZCmtJalt(P, t, jvt, vd).next = v
    BY <1>6, <1>7, <2>1, TableJump
  <2>4. ZCmtJalt(P, t, jvt, vd).x[ra] = Trunc(XLen(P), t.pc + t.size)
    BY <1>6, <1>7, <2>1, TableJump
  <2> QED  BY <1>4, <2>2, <2>3, <2>4 DEF jvt
<1>12. zcmt(FALSE, t, 64 * vxrm + 1).trap # <<>> /\ zcmt(FALSE, t, 64 * vxrm + 1).next = NoBranch
  <2> DEFINE jvt == 64 * vxrm + 1  a == Trunc(XLen(P), jvt - (jvt % 64) + vd * P.xb)
             g == Get(P, LoadMemory(P, t, a, P.xb), 0, P.xb)
  <2>1. jvt \in Nat /\ jvt % 64 # 0
    BY <1>9
  <2>2. a = Trunc(XLen(P), jvt - (jvt % 64) + vd * P.xb) /\ g = Get(P, LoadMemory(P, t, a, P.xb), 0, P.xb)
    OBVIOUS
  <2> HIDE DEF jvt, a, g
  <2>3. ZCmtJt(P, t, jvt, vd).trap # <<>>
    BY <1>7, <2>1, <2>2, TableJump
  <2>4. ZCmtJt(P, t, jvt, vd).next = t.next
    BY <1>7, <2>1, <2>2, TableJump
  <2> QED  BY <1>1, <1>4, <1>7, <2>3, <2>4 DEF jvt
<1>13. t.pc + t.size = s.pc + s.size
  BY <1>7
<1>14. zcmt(TRUE, t, 64 * vxrm).x[ra] = XWord(s.pc + s.size)
  BY <1>11, <1>13 DEF XWord
<1>15. zcmt(FALSE, t, JvtWrite(XLen(P), 64 * vxrm + (Seed % 64))).next = v
  BY <1>10, <1>11
<1> QED  BY <1>11, <1>12, <1>14, <1>15, Zenon DEF s, v, zcmt, entry, t

\* Every byte of a hart that has stored nothing else is a word, before and after a store.
LEMMA BytesAreWords ==
  ASSUME NEW p, Machine(p), NEW s, IsHart(s), s.mem = <<>>, NEW a \in Int, NEW n \in {1, 2, 4, 8}, NEW v \in Nat,
         NEW db, \A k \in 0 .. n-1 : db[k] = ByteAt(p, v, k), NEW t, t = StoreMemory(p, s, a, n, db),
         NEW b \in Int
  PROVE  ByteIn(p, t, Trunc(ALen(p), b)) \in Word(p.by)
<1> DEFINE u == 2^p.by  c == Trunc(ALen(p), b)  k == Trunc(ALen(p), c - a)
<1>1. u \in Nat \ {0} /\ 2^ALen(p) \in Nat \ {0} /\ Powers(p.by * 8) /\ p.by \in Nat \ {0}
  BY DEF Machine
<1>2. c \in Word(ALen(p)) /\ c \in Int
  BY <1>1, TruncWord DEF Word
<1>3. k \in Nat /\ ByteIn(p, t, c) = IF k < n THEN db[k] ELSE ByteIn(p, s, c)
  <2>1. Stored(p, s, t, a, n, db)
    <3>1. n \in 0 .. 256
      OBVIOUS
    <3> QED  BY <3>1, StoredByte
  <2> HIDE DEF c
  <2> QED  BY <1>2, <2>1 DEF Stored
<1>4. \A x \in Int : x % u \in Word(p.by)
  <2>1. Word(p.by) = 0 .. u-1
    BY DEF Word
  <2> HIDE DEF u
  <2> QED  BY <1>1, <2>1, DivMod
<1>5. ByteIn(p, s, c) \in Word(p.by)
  <2>1. c \notin DOMAIN s.mem
    OBVIOUS
  <2>2. ByteIn(p, s, c) = (c + s.fill) % u
    <3> HIDE DEF c
    <3> QED  BY <2>1 DEF ByteIn
  <2>3. c + s.fill \in Int
    <3> HIDE DEF c
    <3> QED  BY <1>2 DEF IsHart
  <2> HIDE DEF c, u
  <2> QED  BY <1>4, <2>2, <2>3
<1>6. ASSUME k < n PROVE db[k] \in Word(p.by)
  <2> HIDE DEF k
  <2>1. k \in 0 .. n-1 /\ k \in 0 .. 7
    BY <1>3, <1>6
  <2>2. db[k] = Shr(v, p.by * k) % u
    BY <2>1 DEF ByteAt
  <2>3. Shr(v, p.by * k) \in Int
    <3> DEFINE q == 2^(p.by * k)
    <3>1. q \in Nat \ {0}
      <4>1. p.by * k <= p.by * 8 /\ p.by * k \in Nat /\ p.by * 8 \in Nat
        BY <1>1, <2>1
      <4>2. p.by * k \in 0 .. p.by * 8
        BY <4>1
      <4> QED  BY <1>1, <4>1, <4>2, PowersPositive
    <3>2. v \div q \in Int
      <4> HIDE DEF q
      <4> QED  BY <3>1, DivMod
    <3> QED  BY <3>2 DEF Shr
  <2> HIDE DEF u
  <2> QED  BY <1>4, <2>2, <2>3
<1> QED  BY <1>3, <1>5, <1>6
\* An access of n bytes at the state's address: the loads read what was stored, the
\* bytes on either side stay, and a halfword is two bytes.
Accesses(n) ==
  LET s == Hart  off == vd  base == XWord(Seed * 5 + vd)  v == XWord(Seed * 259 + 131)
      t == RVStore(P, s, base, off, n, v)  lo == Trunc(BW * n, v)
      back(op) == Load(op, t, base, off, 5).x[5]
  IN  /\ CASE n = 1 -> back("lbu") = lo /\ back("lb") = Sext(BW, XLen(P), lo)
           [] n = 2 -> back("lhu") = lo /\ back("lh") = Sext(2 * BW, XLen(P), lo)
           [] n = 4 -> back("lw") = Sext(4 * BW, XLen(P), lo) /\ (m => back("lwu") = lo)
           [] n = 8 -> back("ld") = v
      /\ \A k \in {-1, n} : LET b == XWord(base + off + k) IN ByteIn(P, t, b) = ByteIn(P, s, b)
      /\ XWord(base + off) # MaxU(XLen(P)) =>
           back("lhu") = back("lbu") + 2^BW * Load("lbu", t, base, off + 1, 5).x[5]

\* Loads and stores of the state's hart.
LEMMA AccessesHold == ASSUME Types, NEW n \in {1, 2, 4, 8}, n = 8 => m PROVE Accesses(n)
<1> DEFINE s == Hart  off == vd  base == XWord(Seed * 5 + vd)  v == XWord(Seed * 259 + 131)
           t == RVStore(P, s, base, off, n, v)  lo == Trunc(BW * n, v)
           back(op) == Load(op, t, base, off, 5).x[5]
           a == XWord(base + off)  db == [k \in 0 .. n-1 |-> ByteAt(P, v, k)]
           next == Load("lbu", t, base, off + 1, 5).x[5]
<1>1. /\ Machine(P) /\ IsHart(s) /\ s.mem = <<>> /\ Seed \in Nat /\ P.by = BW
      /\ \A c \in Int : XWord(c) \in Word(XLen(P)) /\ XWord(c) \in Nat
  BY HartFacts
<1>2. /\ 2^XLen(P) \in Nat \ {0} /\ P.xb \in {4, 8} /\ (m => P.xb = 8) /\ XLen(P) = P.by * P.xb
      /\ BW \in Nat \ {0} /\ off \in Nat
  <2>1. P.xb = IF m THEN 8 ELSE 4
    BY HartFacts
  <2> QED  BY <1>1, <2>1, WordFacts DEF Types, Machine
<1>3. base \in Nat /\ v \in Word(XLen(P)) /\ v \in Nat /\ a \in Word(XLen(P)) /\ a \in Nat
  <2> HIDE DEF s, t, back, next
  <2>1. Seed * 5 + vd \in Int /\ Seed * 259 + 131 \in Int
    BY <1>1, <1>2
  <2>2. base \in Nat /\ v \in Word(XLen(P)) /\ v \in Nat
    BY <1>1, <2>1
  <2> HIDE DEF base, v
  <2>3. base + off \in Int
    BY <1>2, <2>2
  <2> QED  BY <1>1, <2>2, <2>3
<1>4. t = StoreMemory(P, s, a, n, db) /\ \A k \in 0 .. n-1 : db[k] = ByteAt(P, v, k)
  <2> HIDE DEF s, base, v
  <2> QED  BY DEF RVStore, XWord
<1>5. IsHart(t)
  <2> HIDE DEF s, base, v, a, t, db
  <2>1. a \in Int /\ n \in 0 .. 256
    BY <1>3
  <2>2. Stored(P, s, t, a, n, db)
    BY <1>1, <1>4, <2>1, StoredByte
  <2> QED  BY <2>2 DEF Stored
<1> DEFINE a1 == XWord(base + (off + 1))
<1>6. a = XWord(base + off) /\ a1 = XWord(base + (off + 1))
  OBVIOUS
<1>7. /\ back("lbu") = InMemory(t, a, 1) /\ back("lb") = Sext(P.by * 1, XLen(P), InMemory(t, a, 1))
      /\ back("lhu") = InMemory(t, a, 2) /\ back("lh") = Sext(P.by * 2, XLen(P), InMemory(t, a, 2))
      /\ back("lw") = Sext(P.by * 4, XLen(P), InMemory(t, a, 4)) /\ (m => back("lwu") = InMemory(t, a, 4))
      /\ (m => back("ld") = Sext(P.by * 8, XLen(P), InMemory(t, a, 8)))
      /\ next = InMemory(t, a1, 1)
  <2> HIDE DEF s, base, v, a, a1, t, db
  <2>1. back("lbu") = InMemory(t, a, 1)
    BY <1>5, <1>6, LoadResults
  <2>2. back("lb") = Sext(P.by * 1, XLen(P), InMemory(t, a, 1))
    BY <1>5, <1>6, LoadResults
  <2>3. back("lhu") = InMemory(t, a, 2)
    BY <1>5, <1>6, LoadResults
  <2>4. back("lh") = Sext(P.by * 2, XLen(P), InMemory(t, a, 2))
    BY <1>5, <1>6, LoadResults
  <2>5. back("lw") = Sext(P.by * 4, XLen(P), InMemory(t, a, 4))
    BY <1>5, <1>6, LoadResults
  <2>6. m => back("lwu") = InMemory(t, a, 4)
    BY <1>5, <1>6, LoadResults
  <2>7. m => back("ld") = Sext(P.by * 8, XLen(P), InMemory(t, a, 8))
    BY <1>5, <1>6, LoadResults
  <2>8. next = InMemory(t, a1, 1)
    BY <1>5, <1>6, LoadResults
  <2> QED  BY <2>1, <2>2, <2>3, <2>4, <2>5, <2>6, <2>7, <2>8
<1> HIDE DEF s, t, db, back, next
<1>8. InMemory(t, a, n) = lo
  <2> HIDE DEF base, v, a
  <2>1. Machine(P) /\ IsHart(s)
    BY <1>1
  <2>2. Get(P, LoadMemory(P, t, a, n), 0, n) = Trunc(P.by * n, v)
    BY <1>3, <1>4, <2>1, StoredIsLoaded
  <2> QED  BY <1>1, <2>2 DEF InMemory
<1>9. \A k \in {-1, n} : ByteIn(P, t, XWord(base + off + k)) = ByteIn(P, s, XWord(base + off + k))
  <2> SUFFICES ASSUME NEW k \in {-1, n}
               PROVE  ByteIn(P, t, XWord(base + off + k)) = ByteIn(P, s, XWord(base + off + k))
    OBVIOUS
  <2>1. XWord(base + off + k) = Trunc(XLen(P), a + k)
    <3> HIDE DEF base, v
    <3>1. base + off \in Int /\ k \in Int
      BY <1>2, <1>3
    <3>2. Trunc(XLen(P), Trunc(XLen(P), base + off) + k) = Trunc(XLen(P), (base + off) + k)
      BY <1>2, <3>1, TruncInner
    <3> QED  BY <3>2 DEF XWord
  <2> HIDE DEF base, v, a, lo
  <2>2. Machine(P) /\ IsHart(s)
    BY <1>1
  <2>3. ByteIn(P, t, Trunc(XLen(P), a + k)) = ByteIn(P, s, Trunc(XLen(P), a + k))
    BY <1>3, <1>4, <2>2, StoredIsLoaded
  <2> QED  BY <2>1, <2>3
<1>10. a # MaxU(XLen(P)) => back("lhu") = back("lbu") + 2^BW * next
  <2> SUFFICES ASSUME a # MaxU(XLen(P)) PROVE back("lhu") = back("lbu") + 2^BW * next
    OBVIOUS
  <2>1. a1 = a + 1
    <3>1. a + 1 \in Word(XLen(P))
      <4> HIDE DEF a
      <4> QED  BY <1>2, <1>3 DEF Word, MaxU
    <3>2. Trunc(XLen(P), a + 1) = a + 1
      <4> HIDE DEF a
      <4> QED  BY <1>2, <3>1, SameWidth
    <3>3. a1 = Trunc(XLen(P), a + 1)
      <4> HIDE DEF base, v
      <4>1. base + off \in Int /\ 1 \in Int /\ (base + off) + 1 = base + (off + 1)
        BY <1>2, <1>3
      <4>2. Trunc(XLen(P), Trunc(XLen(P), base + off) + 1) = Trunc(XLen(P), (base + off) + 1)
        BY <1>2, <4>1, TruncInner
      <4> QED  BY <4>1, <4>2 DEF XWord
    <3> HIDE DEF a, a1
    <3> QED  BY <3>2, <3>3
  <2> HIDE DEF base, v, a, a1, lo
  <2>2. \A b \in Int : ByteIn(P, t, Trunc(ALen(P), b)) \in Word(P.by)
    <3> SUFFICES ASSUME NEW b \in Int PROVE ByteIn(P, t, Trunc(ALen(P), b)) \in Word(P.by)
      OBVIOUS
    <3>1. Machine(P) /\ IsHart(s) /\ s.mem = <<>> /\ a \in Int
      BY <1>1, <1>3
    <3> QED  BY <1>3, <1>4, <3>1, BytesAreWords
  <2>3. InMemory(t, a, 2) = InMemory(t, a, 1) + 2^P.by * InMemory(t, a + 1, 1)
    <3>1. a \in Int /\ a + 1 \in Int
      BY <1>3
    <3>2. ByteIn(P, t, Trunc(ALen(P), a)) \in Word(P.by) /\ ByteIn(P, t, Trunc(ALen(P), a + 1)) \in Word(P.by)
      BY <2>2, <3>1
    <3> QED  BY <1>3, <3>2, HalfIsTwoBytes
  <2> QED  BY <1>1, <1>7, <2>1, <2>3
<1>11. n = 1 => back("lbu") = lo /\ back("lb") = Sext(BW, XLen(P), lo)
  <2>1. P.by * 1 = BW
    BY <1>1, <1>2
  <2> HIDE DEF base, v, a, lo
  <2> QED  BY <1>7, <1>8, <2>1
<1>12. n = 2 => back("lhu") = lo /\ back("lh") = Sext(2 * BW, XLen(P), lo)
  <2>1. P.by * 2 = 2 * BW
    BY <1>1, <1>2
  <2> HIDE DEF base, v, a, lo
  <2> QED  BY <1>7, <1>8, <2>1
<1>13. n = 4 => back("lw") = Sext(4 * BW, XLen(P), lo) /\ (m => back("lwu") = lo)
  <2>1. P.by * 4 = 4 * BW
    BY <1>1, <1>2
  <2> HIDE DEF base, v, a, lo
  <2> QED  BY <1>7, <1>8, <2>1
<1>14. n = 8 => back("ld") = v
  <2> SUFFICES ASSUME n = 8 PROVE back("ld") = v
    OBVIOUS
  <2>1. m /\ P.by * 8 = XLen(P) /\ BW * n = XLen(P)
    BY <1>1, <1>2
  <2>2. lo = v
    <3> HIDE DEF base, v, a
    <3>1. lo = Trunc(XLen(P), v)
      BY <2>1
    <3> QED  BY <1>2, <1>3, <3>1, SameWidth
  <2> HIDE DEF base, v, a, lo
  <2>3. back("ld") = Sext(XLen(P), XLen(P), v)
    BY <1>7, <1>8, <2>1, <2>2
  <2> QED  BY <1>2, <1>3, <2>3, SameWidth
<1>15. (CASE n = 1 -> back("lbu") = lo /\ back("lb") = Sext(BW, XLen(P), lo)
         [] n = 2 -> back("lhu") = lo /\ back("lh") = Sext(2 * BW, XLen(P), lo)
         [] n = 4 -> back("lw") = Sext(4 * BW, XLen(P), lo) /\ (m => back("lwu") = lo)
         [] n = 8 -> back("ld") = v)
  <2> HIDE DEF base, v, a, lo
  <2>1. 1 # 2 /\ 1 # 4 /\ 1 # 8 /\ 2 # 4 /\ 2 # 8 /\ 4 # 8
    OBVIOUS
  <2>2. n = 1 \/ n = 2 \/ n = 4 \/ n = 8
    OBVIOUS
  <2> QED  BY <1>11, <1>12, <1>13, <1>14, <2>1, <2>2, Zenon
<1> QED  BY <1>9, <1>10, <1>15, Zenon DEF Accesses, s, t, back, next

\* What TargetsAndAccesses says holds of every state, part by part.
LEMMA TargetsAndAccessesHold == Types => TargetsAndAccesses
<1> SUFFICES ASSUME Types PROVE TargetsAndAccesses
  OBVIOUS
<1> DEFINE s == Hart  off == vd  base == XWord(Seed * 5 + vd)  v == XWord(Seed * 259 + 131)
           jal(c) == IF m THEN Rv64Jal(P, s, c, off, ra) ELSE Rv32Jal(P, s, c, off, ra)
           jalr(h, b, o) == IF m THEN Rv64Jalr(P, h, TRUE, b, o, 5) ELSE Rv32Jalr(P, h, TRUE, b, o, 5)
           zcmt(link, h, jvt) == IF m THEN Rv64Zcmt(BW, link, h, jvt, vd) ELSE Rv32Zcmt(BW, link, h, jvt, vd)
           entry == XWord(64 * vxrm + vd * P.xb)
           sizes == IF m THEN {Rv64Store[o] : o \in DOMAIN Rv64Store}
                    ELSE {Rv32Store[o] : o \in DOMAIN Rv32Store \ {"sd"}}
           jumps(c) == LET j == jal(c)  b == BranchConditional(P, s, c, TRUE, off) IN
             /\ (j.trap # <<>>) = (~c /\ Even(XWord(s.pc + off)) % 4 # 0)
             /\ j.trap # <<>> => j.x = s.x /\ j.next = NoBranch
             /\ j.trap = <<>> => LET back == jalr([j EXCEPT !.pc = j.next], j.x[ra], 0)
                                 IN back.next = XWord(s.pc + s.size)
             /\ off % 2 = 0 => b.next = j.next /\ (b.trap = <<>>) = (j.trap = <<>>)
             /\ BranchConditional(P, s, c, FALSE, off) = s
           table == LET t == RVStore(P, s, entry, 0, P.xb, v)  j == zcmt(TRUE, t, 64 * vxrm) IN
             /\ j.next = v /\ j.x[ra] = XWord(s.pc + s.size)
             /\ zcmt(FALSE, t, JvtWrite(XLen(P), 64 * vxrm + (Seed % 64))).next = v
             /\ zcmt(FALSE, t, 64 * vxrm + 1).trap # <<>> /\ zcmt(FALSE, t, 64 * vxrm + 1).next = NoBranch
           moves == LET sa == ZCmpMvTwoRegs(s, 10, 11, 8, 9)  as == ZCmpMvTwoRegs(Callee(sa), 8, 9, 10, 11) IN
             as.x[10] = XWord(s.x[10] + 91) /\ as.x[11] = XWord(s.x[11] + 91)
<1>1. \A c \in BOOLEAN : jumps(c)
  BY JumpsHold, Zenon
<1>2. table
  BY TableJumpsHold, Zenon
<1>3. moves
  BY PairMoves, Zenon
<1>4. \A n \in sizes : n \in {1, 2, 4, 8} /\ (n = 8 => m)
  BY DEF Rv64Store, Rv32Store
<1>5. \A n \in sizes : Accesses(n)
  <2> HIDE DEF sizes
  <2> QED  BY <1>4, AccessesHold
<1>6. TargetsAndAccesses = (/\ \A c \in BOOLEAN : jumps(c)
                            /\ table /\ moves /\ \A n \in sizes : Accesses(n))
  BY ZenonT(40) DEF TargetsAndAccesses, Accesses
<1> HIDE DEF jumps, table, moves, sizes
<1> QED  BY <1>1, <1>2, <1>3, <1>5, <1>6

\* saved is the n registers of a list: ra, s0, s1 and then s2 to s11
Listed(rlist, n, saved) ==
  /\ n = IF rlist < 4 THEN 0 ELSE IF rlist = 15 THEN 13 ELSE rlist - 3
  /\ \A i \in 1 .. n : saved[i] = IF i = 1 THEN 1 ELSE IF i <= 3 THEN 6 + i ELSE 14 + i

\* dests is saved and then sp
ThenSp(n, saved, dests) ==
  /\ Len(dests) = n + 1 /\ DOMAIN dests = 1 .. n + 1
  /\ dests[n + 1] = sp /\ \A i \in 1 .. n : dests[i] = saved[i]

\* The registers of a list; the pops' destinations are these and sp.
LEMMA RegisterLists ==
  ASSUME NEW rlist \in 0 .. 15, NEW saved, saved = ZcmpListSources(rlist), NEW n, n = Len(saved)
  PROVE  Listed(rlist, n, saved) /\ ThenSp(n, saved, PopDests(rlist))
<1> DEFINE u == <<1, 8, 9>>  t == [i \in 1 .. 10 |-> 17 + i]  all == u \o t
           c == CASE rlist < 4 -> 0 [] rlist = 15 -> 13 [] OTHER -> rlist - 3
<1>1. c = IF rlist < 4 THEN 0 ELSE IF rlist = 15 THEN 13 ELSE rlist - 3
  <2>1. rlist < 4 => rlist # 15
    OBVIOUS
  <2> QED  BY <2>1, Zenon
<1>2. c \in 0 .. 13
  <2> HIDE DEF c
  <2> QED  BY <1>1
<1>3. saved = SubSeq(all, 1, c) /\ PopDests(rlist) = SubSeq(all, 1, c) \o <<2>>
  BY DEF ZcmpListSources, PopDests, ZcmpListDests, sp
<1>4. all \in Seq(Nat) /\ Len(all) = 13 /\ \A i \in 1 .. 13 : all[i] = IF i = 1 THEN 1 ELSE IF i <= 3 THEN 6 + i ELSE 14 + i
  <2>1. t \in Seq(Nat) /\ Len(t) = 10 /\ \A i \in 1 .. 10 : t[i] = 17 + i
    OBVIOUS
  <2>2. u \in Seq(Nat) /\ Len(u) = 3 /\ u[1] = 1 /\ u[2] = 8 /\ u[3] = 9
    OBVIOUS
  <2> HIDE DEF t, u
  <2>3. /\ u \o t \in Seq(Nat) /\ Len(u \o t) = Len(u) + Len(t)
        /\ \A i \in 1 .. Len(u) + Len(t) : (u \o t)[i] = IF i <= Len(u) THEN u[i] ELSE t[i - Len(u)]
    BY <2>1, <2>2, ConcatProperties, Zenon
  <2>10. all \in Seq(Nat) /\ Len(all) = 13 /\ \A i \in 1 .. 13 : all[i] = IF i <= 3 THEN u[i] ELSE t[i - 3]
    <3>1. all = u \o t
      OBVIOUS
    <3> HIDE DEF all
    <3>2. Len(u) = 3 /\ Len(u) + Len(t) = 13
      BY <2>1, <2>2
    <3> QED  BY <2>3, <3>1, <3>2
  <2> HIDE DEF all
  <2>4. \A i \in 1 .. 3 : all[i] = u[i]
    BY <2>10
  <2>5. \A i \in 4 .. 13 : all[i] = t[i - 3]
    <3>1. \A i \in 4 .. 13 : i \in 1 .. 13 /\ ~(i <= 3)
      OBVIOUS
    <3> QED  BY <2>10, <3>1, Zenon
  <2>6. all[1] = 1 /\ all[2] = 8 /\ all[3] = 9
    BY <2>2, <2>4
  <2>7. \A i \in 4 .. 13 : all[i] = 14 + i
    <3>1. \A i \in 4 .. 13 : i - 3 \in 1 .. 10 /\ 17 + (i - 3) = 14 + i
      OBVIOUS
    <3> QED  BY <2>1, <2>5, <3>1
  <2>8. \A i \in 1 .. 13 : i = 1 \/ i = 2 \/ i = 3 \/ i \in 4 .. 13
    OBVIOUS
  <2>9. ASSUME NEW i \in 1 .. 13 PROVE all[i] = IF i = 1 THEN 1 ELSE IF i <= 3 THEN 6 + i ELSE 14 + i
    <3>1. CASE i \in {1, 2, 3}
      BY <2>6, <3>1
    <3>2. CASE i \in 4 .. 13
      <4>1. i # 1 /\ ~(i <= 3)
        BY <3>2
      <4>2. all[i] = 14 + i
        BY <2>7, <3>2
      <4> QED  BY <4>1, <4>2, Zenon
    <3> QED  BY <3>1, <3>2
  <2> QED  BY <2>9, <2>10
<1> HIDE DEF u, t, all, c
<1> DEFINE l == SubSeq(all, 1, c)
<1>5. l \in Seq(Nat) /\ Len(l) = c /\ \A i \in 1 .. c : l[i] = all[i]
  <2>1. 1 \in Int /\ c \in Int /\ c \in Nat /\ \A i \in 1 .. c : all[i] \in Nat
    <3>1. ASSUME NEW i \in 1 .. c PROVE all[i] \in Nat
      <4>1. i \in 1 .. 13
        BY <1>2
      <4>2. all[i] = IF i = 1 THEN 1 ELSE IF i <= 3 THEN 6 + i ELSE 14 + i
        BY <1>4, <4>1
      <4> QED  BY <4>1, <4>2
    <3> QED  BY <1>2, <3>1
  <2>2. /\ SubSeq(all, 1, c) \in Seq(Nat) /\ Len(SubSeq(all, 1, c)) = (IF 1 <= c THEN c - 1 + 1 ELSE 0)
        /\ \A i \in 1 .. c - 1 + 1 : SubSeq(all, 1, c)[i] = all[1 + i - 1]
    BY <2>1, SubSeqProperties
  <2> DEFINE q == SubSeq(all, 1, c)
  <2> HIDE DEF q
  <2>3. \A i \in 1 .. c : i \in 1 .. c - 1 + 1 /\ 1 + i - 1 = i
    BY <2>1
  <2>4. Len(q) = c
    BY <2>1, <2>2 DEF q
  <2>5. \A i \in 1 .. c : q[i] = all[i]
    BY <2>2, <2>3 DEF q
  <2> QED  BY <2>2, <2>4, <2>5 DEF q
<1> HIDE DEF l
<1> DEFINE dests == l \o <<2>>
<1>6. saved = l /\ PopDests(rlist) = dests /\ n = c
  BY <1>3, <1>5 DEF l
<1>7. Len(dests) = c + 1 /\ DOMAIN dests = 1 .. c + 1 /\ dests[c + 1] = 2 /\ \A i \in 1 .. c : dests[i] = l[i]
  <2>1. c \in Nat /\ l \in Seq(Nat) /\ Len(l) = c /\ <<2>> \in Seq(Nat) /\ Len(<<2>>) = 1
    BY <1>2, <1>5
  <2> DEFINE e == <<2>>
  <2>2. e \in Seq(Nat) /\ Len(e) = 1 /\ e[1] = 2
    OBVIOUS
  <2>3. dests = l \o e
    OBVIOUS
  <2> HIDE DEF e, dests
  <2>4. /\ l \o e \in Seq(Nat) /\ Len(l \o e) = Len(l) + Len(e)
        /\ \A i \in 1 .. Len(l) + Len(e) : (l \o e)[i] = IF i <= Len(l) THEN l[i] ELSE e[i - Len(l)]
    BY <2>1, <2>2, ConcatProperties, Zenon
  <2>5. dests \in Seq(Nat) /\ Len(dests) = c + 1 /\ \A i \in 1 .. c + 1 : dests[i] = IF i <= c THEN l[i] ELSE e[i - c]
    BY <2>1, <2>2, <2>3, <2>4
  <2>6. DOMAIN dests = 1 .. c + 1
    BY <2>5
  <2>7. dests[c + 1] = 2
    <3>1. c + 1 \in 1 .. c + 1 /\ ~(c + 1 <= c) /\ (c + 1) - c = 1
      BY <2>1
    <3> QED  BY <2>2, <2>5, <3>1
  <2>8. \A i \in 1 .. c : dests[i] = l[i]
    <3>1. \A i \in 1 .. c : i \in 1 .. c + 1 /\ i <= c
      BY <2>1
    <3> QED  BY <2>5, <3>1
  <2> QED  BY <2>5, <2>6, <2>7, <2>8
<1>8. ASSUME NEW i \in 1 .. c PROVE l[i] = IF i = 1 THEN 1 ELSE IF i <= 3 THEN 6 + i ELSE 14 + i
  <2>1. i \in 1 .. 13 /\ l[i] = all[i]
    <3>1. i \in 1 .. 13
      BY <1>2
    <3> QED  BY <1>5, <3>1
  <2>2. all[i] = IF i = 1 THEN 1 ELSE IF i <= 3 THEN 6 + i ELSE 14 + i
    BY <1>4, <2>1
  <2> QED  BY <2>1, <2>2
<1> HIDE DEF dests
<1>9. Listed(rlist, n, saved)
  BY <1>1, <1>6, <1>8 DEF Listed
<1> QED  BY <1>6, <1>7, <1>9 DEF ThenSp, sp

\* the listed registers differ, and are neither sp nor a0
Different(n, saved) ==
  /\ \A i \in 1 .. n : saved[i] \in 1 .. 31 /\ saved[i] # sp /\ saved[i] # a0
  /\ \A i, j \in 1 .. n : saved[i] = saved[j] => i = j

\* A list is of at most 13 different registers, and has ra first if it has any.
LEMMA ListsAreSets ==
  ASSUME NEW rlist \in 0 .. 15, NEW saved, saved = ZcmpListSources(rlist), NEW n, n = Len(saved)
  PROVE  /\ n \in 0 .. 13 /\ (rlist > 3 => n > 0) /\ (n > 0 => saved[1] = ra)
         /\ Different(n, saved)
<1>1. /\ n = (IF rlist < 4 THEN 0 ELSE IF rlist = 15 THEN 13 ELSE rlist - 3)
      /\ \A i \in 1 .. n : saved[i] = IF i = 1 THEN 1 ELSE IF i <= 3 THEN 6 + i ELSE 14 + i
  <2>1. Listed(rlist, n, saved)
    BY RegisterLists
  <2> QED  BY <2>1 DEF Listed
<1>2. n \in 0 .. 13 /\ (rlist > 3 => n > 0)
  BY <1>1
<1>3. n > 0 => saved[1] = ra
  BY <1>1, <1>2 DEF ra
<1>4. \A i \in 1 .. n : saved[i] \in 1 .. 31 /\ saved[i] # sp /\ saved[i] # a0
  BY <1>1, <1>2 DEF sp, a0
<1>5. \A i, j \in 1 .. n : saved[i] = saved[j] => i = j
  BY <1>1, <1>2
<1> QED  BY <1>2, <1>3, <1>4, <1>5 DEF Different

\* The frame holds the registers and keeps the alignment of sp.
LEMMA FrameSizes ==
  ASSUME Types, NEW rlist \in 0 .. 15
  PROVE  LET adj == StackAdj(P, 16 * vxrm, rlist) IN
         adj \in Nat /\ P.xb * Len(ZcmpListSources(rlist)) <= adj /\ adj % 16 = 0
<1> DEFINE n == Len(ZcmpListSources(rlist))  adj == StackAdj(P, 16 * vxrm, rlist)
           b4 == Rv32StackAdjBase[rlist + 1]  b8 == Rv64StackAdjBase[rlist + 1]
<1>1. n = IF rlist < 4 THEN 0 ELSE IF rlist = 15 THEN 13 ELSE rlist - 3
  <2> DEFINE saved == ZcmpListSources(rlist)
  <2>1. saved = ZcmpListSources(rlist) /\ n = Len(saved)
    OBVIOUS
  <2> HIDE DEF saved, n
  <2>2. Listed(rlist, n, saved)
    BY <2>1, RegisterLists
  <2> QED  BY <2>2 DEF Listed
<1>2. adj = 16 * vxrm + (IF P.xb = 4 THEN b4 ELSE b8)
  BY DEF StackAdj
<1>3. vxrm \in 0 .. 3 /\ P.xb \in {4, 8}
  <2>1. Machine(P)
    BY HartFacts
  <2> QED  BY <2>1 DEF Machine, Types
<1> HIDE DEF n
<1>4. rlist \in {0, 1, 2, 3} => b4 = 0 /\ b8 = 0 /\ n = 0
  BY <1>1 DEF Rv32StackAdjBase, Rv64StackAdjBase
<1>5. rlist \in {4, 5} => b4 = 16 /\ b8 = 16 /\ n <= 2 /\ n \in Nat
  BY <1>1 DEF Rv32StackAdjBase, Rv64StackAdjBase
<1>6. rlist \in {6, 7} => b4 = 16 /\ b8 = 32 /\ n <= 4 /\ n \in Nat
  BY <1>1 DEF Rv32StackAdjBase, Rv64StackAdjBase
<1>7. rlist \in {8, 9} => b4 = 32 /\ b8 = 48 /\ n <= 6 /\ n \in Nat
  BY <1>1 DEF Rv32StackAdjBase, Rv64StackAdjBase
<1>8. rlist \in {10, 11} => b4 = 32 /\ b8 = 64 /\ n <= 8 /\ n \in Nat
  BY <1>1 DEF Rv32StackAdjBase, Rv64StackAdjBase
<1>9. rlist \in {12, 13} => b4 = 48 /\ b8 = 80 /\ n <= 10 /\ n \in Nat
  BY <1>1 DEF Rv32StackAdjBase, Rv64StackAdjBase
<1>10. rlist = 14 => b4 = 48 /\ b8 = 96 /\ n = 11
  BY <1>1 DEF Rv32StackAdjBase, Rv64StackAdjBase
<1>11. rlist = 15 => b4 = 64 /\ b8 = 112 /\ n = 13
  BY <1>1 DEF Rv32StackAdjBase, Rv64StackAdjBase
<1> HIDE DEF adj, b4, b8
<1>12. /\ n \in Nat /\ 4 * n <= b4 /\ 8 * n <= b8 /\ b4 % 16 = 0 /\ b8 % 16 = 0 /\ b4 \in Nat /\ b8 \in Nat
  <2>1. \/ rlist \in {0, 1, 2, 3} \/ rlist \in {4, 5} \/ rlist \in {6, 7} \/ rlist \in {8, 9} \/ rlist \in {10, 11}
        \/ rlist \in {12, 13} \/ rlist = 14 \/ rlist = 15
    OBVIOUS
  <2> QED  BY <2>1, <1>4, <1>5, <1>6, <1>7, <1>8, <1>9, <1>10, <1>11
<1>13. P.xb * n <= adj /\ adj \in Nat /\ adj % 16 = 0
  <2>1. CASE P.xb = 4
    BY <1>2, <1>3, <1>12, <2>1
  <2>2. CASE P.xb = 8
    BY <1>2, <1>3, <1>12, <2>2
  <2> QED  BY <1>3, <2>1, <2>2
<1> QED  BY <1>13 DEF n, adj

\* The four frame instructions of the state's namespace.
LEMMA FrameInstructions ==
  ASSUME Types, NEW s, NEW dests
  PROVE  /\ Zcmp("cm.push", s, dests) = ZCmpPush(P, s, 16 * vxrm, Rlist)
         /\ Zcmp("cm.pop", s, dests) = ZCmpPop(P, s, 16 * vxrm, Rlist, dests)
         /\ Zcmp("cm.popret", s, dests) = ZCmpPopRet(P, s, 16 * vxrm, Rlist, dests)
         /\ Zcmp("cm.popretz", s, dests) = ZCmpPopRetz(P, s, 16 * vxrm, Rlist, dests)
<1> DEFINE frame(p, op) ==
      CASE op = "cm.push"    -> ZCmpPush(p, s, 16 * vxrm, Rlist)
        [] op = "cm.pop"     -> ZCmpPop(p, s, 16 * vxrm, Rlist, dests)
        [] op = "cm.popret"  -> ZCmpPopRet(p, s, 16 * vxrm, Rlist, dests)
        [] op = "cm.popretz" -> ZCmpPopRetz(p, s, 16 * vxrm, Rlist, dests)
<1>1. \A op : Zcmp(op, s, dests) = frame(P, op)
  <2>1. \A op : Rv64Zcmp(BW, op, s, 16 * vxrm, Rlist, dests) = frame(Rv64(BW), op)
    BY Zenon DEF Rv64Zcmp
  <2>2. \A op : Rv32Zcmp(BW, op, s, 16 * vxrm, Rlist, dests) = frame(Rv32(BW), op)
    BY Zenon DEF Rv32Zcmp
  <2> HIDE DEF frame
  <2> QED  BY <2>1, <2>2, Zenon DEF Zcmp, P
<1>2. "cm.push" # "cm.pop" /\ "cm.push" # "cm.popret" /\ "cm.push" # "cm.popretz" /\ "cm.pop" # "cm.popret"
      /\ "cm.pop" # "cm.popretz" /\ "cm.popret" # "cm.popretz"
  OBVIOUS
<1>3. frame(P, "cm.push") = ZCmpPush(P, s, 16 * vxrm, Rlist)
  BY Zenon
<1>4. frame(P, "cm.pop") = ZCmpPop(P, s, 16 * vxrm, Rlist, dests)
  BY <1>2, Zenon
<1>5. frame(P, "cm.popret") = ZCmpPopRet(P, s, 16 * vxrm, Rlist, dests)
  BY <1>2, Zenon
<1>6. frame(P, "cm.popretz") = ZCmpPopRetz(P, s, 16 * vxrm, Rlist, dests)
  BY <1>2, Zenon
<1> HIDE DEF frame
<1> QED  BY <1>1, <1>3, <1>4, <1>5, <1>6

\* t is the callee of s: its frame holds the n saved registers, sp is lower by adj, and the
\* bytes outside the frame are those of s
Framed(s, t, saved, n, adj) ==
  /\ IsHart(t) /\ t.x[sp] = XWord(s.x[sp] - adj)
  /\ \A b \in Word(ALen(P)) : LET k == Trunc(ALen(P), b - (s.x[sp] - P.xb * n)) IN
       /\ k \in Nat
       /\ k < P.xb * n => ByteIn(P, t, b) = ByteAt(P, s.x[saved[1 + k \div P.xb]], k % P.xb)
       /\ ~(k < P.xb * n) => ByteIn(P, t, b) = ByteIn(P, s, b)

\* cm.push writes the frame; the callee leaves it and sp alone.
LEMMA FrameWritten ==
  ASSUME Types, Rlist \in 0 .. 15, NEW s, s = Hart, NEW saved, saved = ZcmpListSources(Rlist), NEW n, n = Len(saved),
         NEW adj, adj = StackAdj(P, 16 * vxrm, Rlist),
         NEW t, t = Callee(Zcmp("cm.push", s, PopDests(Rlist)))
  PROVE  Framed(s, t, saved, n, adj)
<1> DEFINE N == P.xb * n  low == s.x[sp] - N
           db == [k \in 0 .. N-1 |-> ByteAt(P, s.x[saved[1 + k \div P.xb]], k % P.xb)]
           u == StoreMemory(P, s, low, N, db)  pushed == [u EXCEPT !.x[sp] = XWord(u.x[sp] - adj)]
<1>1. Machine(P) /\ IsHart(s) /\ s.x[sp] \in Word(XLen(P))
  <2>1. sp \in 0 .. 31
    BY DEF sp
  <2> QED  BY <2>1, HartFacts
<1>2. N \in 0 .. 256 /\ low \in Int /\ n \in Nat
  <2>1. n \in 0 .. 13
    BY ListsAreSets
  <2>2. P.xb \in {4, 8} /\ s.x[sp] \in Int
    BY <1>1 DEF Machine, Word
  <2>3. N \in 0 .. 256
    <3>1. \A x \in {4, 8}, k \in 0 .. 13 : x * k \in 0 .. 256
      OBVIOUS
    <3> QED  BY <2>1, <2>2, <3>1, Zenon
  <2> HIDE DEF N
  <2>4. low \in Int
    BY <2>2, <2>3
  <2> QED  BY <2>1, <2>3, <2>4
<1>3. Zcmp("cm.push", s, PopDests(Rlist)) = pushed
  <2>1. Zcmp("cm.push", s, PopDests(Rlist)) = ZCmpPush(P, s, 16 * vxrm, Rlist)
    BY FrameInstructions
  <2> QED  BY <2>1, Zenon DEF ZCmpPush, XWord
<1>4. Stored(P, s, u, low, N, db)
  <2>1. u = StoreMemory(P, s, low, N, db)
    OBVIOUS
  <2> HIDE DEF u, low, N, db
  <2> QED  BY <1>1, <1>2, <2>1, StoredByte
<1> HIDE DEF u, db
<1>5. IsHart(u) /\ u.x = s.x /\ u.fill = s.fill
  BY <1>4 DEF Stored
<1>6. IsHart(pushed) /\ pushed.mem = u.mem /\ pushed.fill = u.fill /\ pushed.x[sp] = XWord(s.x[sp] - adj)
  <2> DEFINE y == XWord(u.x[sp] - adj)
  <2>1. y = XWord(s.x[sp] - adj)
    BY <1>5
  <2> HIDE DEF y
  <2>2. pushed = [u EXCEPT !.x[sp] = y]
    BY DEF y
  <2>3. sp \in 0 .. 31
    BY DEF sp
  <2> HIDE DEF pushed
  <2> QED  BY <1>5, <2>1, <2>2, <2>3 DEF IsHart
<1> HIDE DEF pushed
<1>7. IsHart(t) /\ t.mem = u.mem /\ t.fill = u.fill /\ t.x[sp] = XWord(s.x[sp] - adj)
  <2>1. t = Callee(pushed)
    BY <1>3
  <2> DEFINE X == [r \in DOMAIN pushed.x |-> IF r = sp THEN pushed.x[r] ELSE XWord(pushed.x[r] + 91)]
  <2>2. t = [pushed EXCEPT !.x = X]
    BY <2>1 DEF Callee
  <2>3. DOMAIN X = 0 .. 31 /\ X[sp] = pushed.x[sp]
    <3>1. sp \in DOMAIN pushed.x
      BY <1>6 DEF IsHart, sp
    <3>2. DOMAIN X = 0 .. 31
      BY <1>6 DEF IsHart
    <3> QED  BY <3>1, <3>2
  <2> HIDE DEF X
  <2>4. IsHart(t) /\ t.mem = pushed.mem /\ t.fill = pushed.fill /\ t.x = X
    BY <1>6, <2>2, <2>3 DEF IsHart
  <2> QED  BY <1>6, <2>3, <2>4
<1>8. ASSUME NEW b \in Word(ALen(P))
      PROVE  LET k == Trunc(ALen(P), b - low) IN
               /\ k \in Nat
               /\ k < N => ByteIn(P, t, b) = ByteAt(P, s.x[saved[1 + k \div P.xb]], k % P.xb)
               /\ ~(k < N) => ByteIn(P, t, b) = ByteIn(P, s, b)
  <2> DEFINE k == Trunc(ALen(P), b - low)
  <2>1. k \in Nat /\ ByteIn(P, u, b) = IF k < N THEN db[k] ELSE ByteIn(P, s, b)
    <3> HIDE DEF low, N
    <3> QED  BY <1>4 DEF Stored
  <2>2. ByteIn(P, t, b) = ByteIn(P, u, b)
    BY <1>7 DEF ByteIn
  <2> HIDE DEF k
  <2>3. k < N => db[k] = ByteAt(P, s.x[saved[1 + k \div P.xb]], k % P.xb)
    <3> SUFFICES ASSUME k < N PROVE db[k] = ByteAt(P, s.x[saved[1 + k \div P.xb]], k % P.xb)
      OBVIOUS
    <3> HIDE DEF N
    <3>1. k \in 0 .. N-1
      BY <1>2, <2>1
    <3> QED  BY <3>1 DEF db
  <2> QED  BY <2>1, <2>2, <2>3 DEF k
<1> QED  BY <1>7, <1>8, Zenon DEF Framed

\* the bytes of the frame are those of the saved registers
FrameHolds(s, t, saved, n) ==
  \A i \in 1 .. n, j \in 0 .. P.xb - 1 :
    ByteIn(P, t, Trunc(ALen(P), s.x[sp] - P.xb * n + (P.xb * (i - 1) + j))) = ByteAt(P, s.x[saved[i]], j)

\* the 8 bytes on each side of the frame are as they were
AroundFrame(s, t, n) ==
  \A k \in 0 .. 7 : \A a \in {s.x[sp] + k, s.x[sp] - P.xb * n - 1 - k} :
    LET b == Trunc(ALen(P), a) IN ByteIn(P, t, b) = ByteIn(P, s, b)

\* The frame holds the saved registers, and nothing beside it is written.
LEMMA FrameBytes ==
  ASSUME Types, NEW s, IsHart(s), s.x[sp] \in Word(XLen(P)), NEW n \in 0 .. 13, NEW saved, NEW adj, NEW t,
         Framed(s, t, saved, n, adj)
  PROVE  FrameHolds(s, t, saved, n) /\ AroundFrame(s, t, n)
<1> DEFINE w == ALen(P)  A == 2^w  x == P.xb  N == x * n  low == s.x[sp] - N
<1>1. x \in {4, 8} /\ A \in Nat \ {0} /\ 65536 <= A /\ s.x[sp] \in Int
  <2>1. Machine(P)
    BY HartFacts
  <2> QED  BY <2>1 DEF Machine, Word
<1>2. N \in 0 .. 256 /\ low \in Int
  BY <1>1
<1>3. ASSUME NEW a \in Int, NEW k \in Word(w), NEW c \in Int, a - low = c * A + k
      PROVE  LET b == Trunc(w, a) IN
               /\ k < N => ByteIn(P, t, b) = ByteAt(P, s.x[saved[1 + k \div x]], k % x)
               /\ ~(k < N) => ByteIn(P, t, b) = ByteIn(P, s, b)
  <2> DEFINE b == Trunc(w, a)
  <2>1. b \in Word(w)
    BY <1>1, TruncWord
  <2>2. Trunc(w, b - low) = k
    <3> HIDE DEF b, low, A, w, N
    <3>1. a - low \in Int /\ -low \in Int
      BY <1>2
    <3>2. Trunc(w, a - low) = k
      BY <1>1, <1>3, <3>1, TruncIs DEF A
    <3>3. Trunc(w, Trunc(w, a) + (-low)) = Trunc(w, a + (-low))
      BY <1>1, <3>1, TruncInner DEF A
    <3>4. b \in Int /\ b - low = b + (-low) /\ a - low = a + (-low)
      BY <1>1, <1>2, <2>1 DEF Word, A
    <3> QED  BY <3>2, <3>3, <3>4 DEF b
  <2> HIDE DEF b
  <2> QED  BY <2>1, <2>2 DEF Framed, b
<1>4. ASSUME NEW i \in 1 .. n, NEW j \in 0 .. x - 1
      PROVE  ByteIn(P, t, Trunc(w, low + (x * (i - 1) + j))) = ByteAt(P, s.x[saved[i]], j)
  <2> DEFINE k == x * (i - 1) + j  a == low + k
  <2>1. k \in 0 .. 256 /\ k < N /\ k \div x = i - 1 /\ k % x = j
    <3>1. CASE x = 4
      BY <3>1
    <3>2. CASE x = 8
      BY <3>2
    <3> QED  BY <1>1, <3>1, <3>2
  <2> HIDE DEF k
  <2>2. a \in Int /\ k \in Word(w) /\ a - low = 0 * A + k /\ 0 \in Int
    <3> HIDE DEF low, A
    <3>1. k \in 0 .. A - 1
      BY <1>1, <2>1
    <3>2. a \in Int /\ a - low = 0 * A + k
      BY <1>1, <1>2, <2>1
    <3> QED  BY <3>1, <3>2 DEF Word, A
  <2> HIDE DEF a
  <2>3. ByteIn(P, t, Trunc(w, a)) = ByteAt(P, s.x[saved[1 + k \div x]], k % x)
    BY <1>3, <2>1, <2>2
  <2>4. 1 + (i - 1) = i
    OBVIOUS
  <2> QED  BY <2>1, <2>3, <2>4 DEF a, k
<1>5. ASSUME NEW k \in 0 .. 7, NEW a \in {s.x[sp] + k, s.x[sp] - x * n - 1 - k}
      PROVE  ByteIn(P, t, Trunc(w, a)) = ByteIn(P, s, Trunc(w, a))
  <2>1. CASE a = s.x[sp] + k
    <3> DEFINE d == N + k
    <3>1. d \in Word(w) /\ a \in Int /\ a - low = 0 * A + d /\ ~(d < N)
      <4>1. d \in 0 .. A - 1
        <5> HIDE DEF N
        <5> QED  BY <1>1, <1>2
      <4> HIDE DEF A
      <4>2. a \in Int /\ a - low = 0 * A + d /\ ~(d < N)
        <5> HIDE DEF N
        <5> QED  BY <1>1, <1>2, <2>1
      <4> QED  BY <4>1, <4>2 DEF Word, A
    <3> HIDE DEF d, low, N
    <3> QED  BY <1>3, <3>1
  <2>2. CASE a = s.x[sp] - x * n - 1 - k
    <3> DEFINE d == A - 1 - k
    <3>1. d \in Word(w) /\ a \in Int /\ a - low = (-1) * A + d /\ ~(d < N) /\ -1 \in Int
      <4>1. d \in 0 .. A - 1
        BY <1>1, <1>2
      <4> HIDE DEF A
      <4>2. a \in Int /\ a = low - 1 - k
        <5>1. a = s.x[sp] - N - 1 - k
          BY <2>2
        <5> HIDE DEF N
        <5> QED  BY <1>1, <1>2, <5>1
      <4>3. a - low = (-1) * A + d /\ ~(d < N)
        <5> HIDE DEF N, low
        <5> QED  BY <1>1, <1>2, <4>2
      <4> QED  BY <4>1, <4>2, <4>3 DEF Word, A
    <3> HIDE DEF d, low, N
    <3> QED  BY <1>3, <3>1
  <2> QED  BY <2>1, <2>2
<1> QED  BY <1>4, <1>5 DEF FrameHolds, AroundFrame

\* q is t with sp and the n saved registers as they were in s
Popped(s, t, saved, n, q) ==
  /\ IsHart(q) /\ q.x[sp] = s.x[sp]
  /\ \A i \in 1 .. n : q.x[saved[i]] = s.x[saved[i]]
  /\ \A r \in 1 .. 31 : r # sp /\ (\A i \in 1 .. n : saved[i] # r) => q.x[r] = t.x[r]

\* The pops find each saved register in the frame, and sp at its end, if their operands
\* are declared as RV64's are.
LEMMA PopRestores ==
  ASSUME Types, Rlist \in 0 .. 15, NEW s, s = Hart, NEW saved, saved = ZcmpListSources(Rlist), NEW n, n = Len(saved),
         NEW adj, adj = StackAdj(P, 16 * vxrm, Rlist), NEW t, Framed(s, t, saved, n, adj),
         NEW q, q = ZCmpPopHelper(P, t, 16 * vxrm, Rlist, PopDests(Rlist))
  PROVE  Popped(s, t, saved, n, q)
<1> DEFINE dests == PopDests(Rlist)  size == Len(dests) - 1  x == P.xb
           top == Trunc(XLen(P), t.x[sp] + StackAdj(P, 16 * vxrm, Rlist))
           db == LoadMemory(P, t, top - x * size, x * size)
           value == [i \in 1 .. size + 1 |-> IF i > size THEN top ELSE Get(P, db, x * (i - 1), x)]
           at(r) == {i \in DOMAIN dests : dests[i] = r}
           X == [r \in DOMAIN t.x |-> IF at(r) = {} THEN t.x[r] ELSE value[Max(at(r))]]
<1>1. /\ Machine(P) /\ IsHart(s) /\ \A r \in 0 .. 31 : s.x[r] \in Word(XLen(P))
  BY HartFacts
<1>2. /\ x \in {4, 8} /\ 2^XLen(P) \in Nat \ {0} /\ XLen(P) = P.by * x
  BY <1>1 DEF Machine
<1>3. /\ n \in 0 .. 13 /\ \A i \in 1 .. n : saved[i] \in 1 .. 31 /\ saved[i] # sp
      /\ \A i, j \in 1 .. n : saved[i] = saved[j] => i = j
  <2>1. n \in 0 .. 13
    BY ListsAreSets
  <2>2. Different(n, saved)
    BY ListsAreSets
  <2> QED  BY <2>1, <2>2 DEF Different
<1>4. Len(dests) = n + 1 /\ DOMAIN dests = 1 .. n + 1 /\ dests[n + 1] = sp /\ \A i \in 1 .. n : dests[i] = saved[i]
  <2>1. ThenSp(n, saved, dests)
    BY RegisterLists
  <2> HIDE DEF dests
  <2> QED  BY <2>1 DEF ThenSp
<1>5. size = n
  <2> HIDE DEF dests
  <2> QED  BY <1>3, <1>4
<1>6. s.x[sp] \in Word(XLen(P)) /\ s.x[sp] \in Int /\ sp \in 0 .. 31
  <2>1. sp \in 0 .. 31
    BY DEF sp
  <2>2. s.x[sp] \in Word(XLen(P))
    BY <1>1, <2>1
  <2> QED  BY <1>2, <2>1, <2>2 DEF Word
<1>7. top = s.x[sp]
  <2>1. adj \in Int /\ s.x[sp] - adj \in Int /\ (s.x[sp] - adj) + adj = s.x[sp]
    <3>1. adj \in Nat
      BY FrameSizes
    <3> QED  BY <1>6, <3>1
  <2>2. t.x[sp] = Trunc(XLen(P), s.x[sp] - adj)
    BY DEF Framed, XWord
  <2>3. Trunc(XLen(P), Trunc(XLen(P), s.x[sp] - adj) + adj) = Trunc(XLen(P), (s.x[sp] - adj) + adj)
    BY <1>2, <2>1, TruncInner
  <2>4. Trunc(XLen(P), s.x[sp]) = s.x[sp]
    BY <1>2, <1>6, SameWidth
  <2> QED  BY <2>1, <2>2, <2>3, <2>4
<1>8. q = [t EXCEPT !.x = X]
  BY Zenon DEF ZCmpPopHelper
<1>9. IsHart(t)
  BY DEF Framed
<1> HIDE DEF size, top, dests
<1>10. \A i \in 1 .. n, j \in 0 .. P.xb - 1 :
         ByteIn(P, t, Trunc(ALen(P), s.x[sp] - P.xb * n + (P.xb * (i - 1) + j))) = ByteAt(P, s.x[saved[i]], j)
  <2> HIDE DEF x, db, value, at, X
  <2>1. IsHart(s) /\ s.x[sp] \in Word(XLen(P)) /\ n \in 0 .. 13
    BY <1>1, <1>3, <1>6
  <2>2. FrameHolds(s, t, saved, n)
    BY <2>1, FrameBytes
  <2> QED  BY <2>2 DEF FrameHolds
<1>11. ASSUME NEW i \in 1 .. n PROVE Get(P, db, x * (i - 1), x) = s.x[saved[i]]
  <2> DEFINE v == s.x[saved[i]]  from == x * (i - 1)
  <2>1. v \in Word(XLen(P)) /\ v \in Nat
    <3>1. saved[i] \in 0 .. 31
      BY <1>3
    <3>2. v \in Word(XLen(P))
      BY <1>1, <3>1
    <3> HIDE DEF v
    <3> QED  BY <1>2, <3>2 DEF Word
  <2>2. db = LoadMemory(P, t, s.x[sp] - x * n, x * n)
    BY <1>5, <1>7
  <2>3. \A j \in 0 .. x - 1 : from + j \in 0 .. x * n - 1
    <3>1. CASE x = 4
      BY <1>3, <3>1
    <3>2. CASE x = 8
      BY <1>3, <3>2
    <3> QED  BY <1>2, <3>1, <3>2
  <2>4. \A j \in 0 .. x - 1 : ByteIn(P, t, Trunc(ALen(P), s.x[sp] - x * n + (x * (i - 1) + j))) = ByteAt(P, v, j)
    BY <1>10
  <2> HIDE DEF v, db
  <2>5. ASSUME NEW j \in 0 .. x - 1 PROVE db[from + j] = ByteAt(P, v, j)
    <3>1. db[from + j] = ByteIn(P, t, Trunc(ALen(P), s.x[sp] - x * n + (from + j)))
      BY <2>2, <2>3 DEF LoadMemory
    <3> QED  BY <2>4, <3>1
  <2> HIDE DEF from
  <2>6. x \in 0 .. 8
    BY <1>2
  <2> HIDE DEF x
  <2>7. Get(P, db, from, x) = v % 2^(P.by * x)
    BY <1>1, <2>1, <2>5, <2>6, GetBytes
  <2>8. Trunc(XLen(P), v) = v
    BY <1>2, <2>1, SameWidth
  <2> QED  BY <1>2, <2>7, <2>8 DEF v, from, Trunc
<1> HIDE DEF db, x
<1>12. value[n + 1] = s.x[sp] /\ \A i \in 1 .. n : value[i] = s.x[saved[i]]
  <2>1. n + 1 \in 1 .. size + 1 /\ n + 1 > size /\ \A i \in 1 .. n : i \in 1 .. size + 1 /\ ~(i > size)
    BY <1>3, <1>5
  <2>2. value[n + 1] = top
    BY <2>1
  <2>3. \A i \in 1 .. n : value[i] = Get(P, db, x * (i - 1), x)
    BY <2>1
  <2> HIDE DEF value
  <2> QED  BY <1>7, <1>11, <2>2, <2>3
<1> HIDE DEF value
<1>13. ASSUME NEW i \in 1 .. n + 1 PROVE at(dests[i]) = {i}
  <2>1. \A j \in 1 .. n + 1 : dests[j] = dests[i] => j = i
    <3>1. i \in 1 .. n \/ i = n + 1
      BY <1>3
    <3>2. \A j \in 1 .. n + 1 : j \in 1 .. n \/ j = n + 1
      BY <1>3
    <3> QED  BY <1>3, <1>4, <3>1, <3>2
  <2> QED  BY <1>4, <2>1
<1>14. ASSUME NEW i \in 1 .. n + 1 PROVE Max(at(dests[i])) = i /\ at(dests[i]) # {}
  <2> DEFINE a == {i}
  <2>1. n + 1 \in Nat /\ a \subseteq 0 .. n + 1 /\ a # {}
    BY <1>3
  <2>2. Max(a) \in a
    BY <2>1, Extremes
  <2>3. Max(a) = i
    BY <2>2
  <2> QED  BY <1>13, <2>1, <2>3
<1>15. ASSUME NEW r \in 1 .. 31, r # sp, \A i \in 1 .. n : saved[i] # r PROVE at(r) = {}
  <2>1. \A j \in 1 .. n + 1 : j \in 1 .. n \/ j = n + 1
    BY <1>3
  <2> QED  BY <1>4, <1>15, <2>1
<1>16. DOMAIN X = 0 .. 31
  <2>1. DOMAIN X = DOMAIN t.x
    OBVIOUS
  <2> QED  BY <1>9, <2>1 DEF IsHart
<1>17. \A r \in 0 .. 31 : X[r] = IF at(r) = {} THEN t.x[r] ELSE value[Max(at(r))]
  <2> HIDE DEF at
  <2> QED  BY <1>9 DEF IsHart
<1> HIDE DEF at, X
<1>18. IsHart(q) /\ q.x = X
  BY <1>8, <1>9, <1>16 DEF IsHart
<1>19. X[sp] = s.x[sp]
  <2>1. n + 1 \in 1 .. n + 1
    BY <1>3
  <2>2. Max(at(sp)) = n + 1 /\ at(sp) # {}
    BY <1>4, <1>14, <2>1
  <2> QED  BY <1>6, <1>12, <1>17, <2>2
<1>20. ASSUME NEW i \in 1 .. n PROVE X[saved[i]] = s.x[saved[i]]
  <2>1. i \in 1 .. n + 1 /\ dests[i] = saved[i] /\ saved[i] \in 0 .. 31
    BY <1>3, <1>4
  <2>2. Max(at(saved[i])) = i /\ at(saved[i]) # {}
    <3>1. Max(at(dests[i])) = i /\ at(dests[i]) # {}
      BY <1>14, <2>1
    <3> QED  BY <2>1, <3>1
  <2>3. X[saved[i]] = value[Max(at(saved[i]))]
    BY <1>17, <2>1, <2>2
  <2> QED  BY <1>12, <2>2, <2>3
<1>21. ASSUME NEW r \in 1 .. 31, r # sp, \A i \in 1 .. n : saved[i] # r PROVE X[r] = t.x[r]
  <2>1. r \in 0 .. 31
    OBVIOUS
  <2> QED  BY <1>15, <1>17, <1>21, <2>1
<1> QED  BY <1>18, <1>19, <1>20, <1>21 DEF Popped

\* A load from the frame finds ra, where addresses of a register's width reach it.
LEMMA FrameLoaded ==
  ASSUME Types, Rlist \in 0 .. 15, NEW s, s = Hart, NEW saved, saved = ZcmpListSources(Rlist), NEW n, n = Len(saved),
         NEW adj, adj = StackAdj(P, 16 * vxrm, Rlist), NEW t, Framed(s, t, saved, n, adj),
         n > 0, s.x[sp] >= P.xb * n
  PROVE  Load(IF m THEN "ld" ELSE "lw", t, t.x[sp], adj - P.xb * n, 5).x[5] = s.x[ra]
<1> DEFINE x == P.xb  N == x * n  low == s.x[sp] - N  b == t.x[sp]  o == adj - N  a == XWord(b + o)  v == s.x[ra]
<1>1. Machine(P) /\ IsHart(s) /\ P.xb = IF m THEN 8 ELSE 4
  BY HartFacts
<1>2. x \in {4, 8} /\ 2^XLen(P) \in Nat \ {0} /\ XLen(P) = P.by * x /\ XLen(P) \in Nat
  BY <1>1 DEF Machine
<1>3. n \in 0 .. 13 /\ saved[1] = ra /\ adj \in Nat
  <2>1. n \in 0 .. 13
    BY ListsAreSets
  <2>2. saved[1] = ra
    BY ListsAreSets
  <2>3. adj \in Nat
    BY FrameSizes
  <2> QED  BY <2>1, <2>2, <2>3
<1>4. s.x[sp] \in Word(XLen(P)) /\ v \in Word(XLen(P)) /\ sp \in 0 .. 31 /\ ra \in 0 .. 31
  <2>1. sp \in 0 .. 31 /\ ra \in 0 .. 31
    BY DEF sp, ra
  <2>2. \A r \in 0 .. 31 : s.x[r] \in Word(XLen(P))
    BY HartFacts
  <2> QED  BY <2>1, <2>2
<1>5. s.x[sp] \in Nat /\ v \in Nat /\ s.x[sp] \in 0 .. 2^XLen(P) - 1
  <2> HIDE DEF v
  <2> QED  BY <1>2, <1>4 DEF Word
<1>6. N \in Nat /\ low \in 0 .. 2^XLen(P) - 1
  <2>1. N \in Nat
    <3>1. \A y \in {4, 8}, k \in 0 .. 13 : y * k \in Nat
      OBVIOUS
    <3> QED  BY <1>2, <1>3, <3>1, Zenon
  <2>2. s.x[sp] >= N
    OBVIOUS
  <2> HIDE DEF N
  <2>3. 2^XLen(P) \in Int
    BY <1>2
  <2> QED  BY <1>5, <2>1, <2>2, <2>3
<1>7. a = low
  <2>1. b = Trunc(XLen(P), s.x[sp] - adj)
    BY DEF Framed, XWord
  <2> HIDE DEF b, N
  <2>2. o \in Int /\ s.x[sp] - adj \in Int /\ (s.x[sp] - adj) + o = low
    BY <1>3, <1>5, <1>6
  <2>3. Trunc(XLen(P), Trunc(XLen(P), s.x[sp] - adj) + o) = Trunc(XLen(P), (s.x[sp] - adj) + o)
    BY <1>2, <2>2, TruncInner
  <2> HIDE DEF low, o
  <2>4. low \in Word(XLen(P))
    BY <1>6 DEF Word
  <2>5. Trunc(XLen(P), low) = low
    BY <1>2, <2>4, SameWidth
  <2> QED  BY <2>1, <2>2, <2>3, <2>5 DEF XWord
<1>8. InMemory(t, a, x) = v
  <2>1. FrameHolds(s, t, saved, n)
    BY <1>1, <1>3, <1>4, FrameBytes
  <2>2. \A j \in 0 .. x - 1 : ByteIn(P, t, Trunc(ALen(P), low + (x * (1 - 1) + j))) = ByteAt(P, s.x[saved[1]], j)
    <3>1. 1 \in 1 .. n
      BY <1>3
    <3> QED  BY <2>1, <3>1 DEF FrameHolds
  <2>3. \A j \in 0 .. x - 1 : x * (1 - 1) + j = j
    <3> HIDE DEF x
    <3> QED  BY <1>2
  <2>4. \A j \in 0 .. x - 1 : ByteIn(P, t, Trunc(ALen(P), low + j)) = ByteAt(P, v, j)
    <3> HIDE DEF x, low
    <3> QED  BY <1>3, <2>2, <2>3 DEF v
  <2>5. x \in 0 .. 8 /\ low \in Int
    BY <1>2, <1>6
  <2> HIDE DEF low, v, a, x
  <2>6. Get(P, LoadMemory(P, t, low, x), 0, x) = Trunc(P.by * x, v)
    BY <1>1, <1>5, <2>4, <2>5, LoadedWord
  <2>7. Trunc(XLen(P), v) = v
    BY <1>2, <1>4, SameWidth DEF v
  <2> QED  BY <1>2, <1>7, <2>6, <2>7 DEF InMemory
<1>9. IsHart(t) /\ a = XWord(b + o)
  BY DEF Framed
<1> HIDE DEF a, b, o, v
<1>10. Sext(XLen(P), XLen(P), v) = v
  BY <1>2, <1>4, SameWidth
<1>11. CASE m
  <2>1. x = 8
    BY <1>1, <1>11
  <2>2. Load("ld", t, b, o, 5).x[5] = Sext(P.by * 8, XLen(P), InMemory(t, a, 8))
    BY <1>9, <1>11, LoadResults
  <2>3. Load("ld", t, b, o, 5).x[5] = v
    BY <1>2, <1>8, <1>10, <2>1, <2>2
  <2> QED  BY <1>11, <2>3 DEF b, o, v
<1>12. CASE ~m
  <2>1. x = 4
    BY <1>1, <1>12
  <2>2. Load("lw", t, b, o, 5).x[5] = Sext(P.by * 4, XLen(P), InMemory(t, a, 4))
    BY <1>9, LoadResults
  <2>3. Load("lw", t, b, o, 5).x[5] = v
    BY <1>2, <1>8, <1>10, <2>1, <2>2
  <2> QED  BY <1>12, <2>3 DEF b, o, v
<1> QED  BY <1>11, <1>12

\* What FramesRestore says holds of every register list.
LEMMA FramesRestoreHolds ==
  ASSUME Types, Rlist \in 0 .. 15
  PROVE  FramesRestore
<1> DEFINE s == Hart  saved == ZcmpListSources(Rlist)  dests == PopDests(Rlist)  n == Len(saved)
           inside == Callee(Zcmp("cm.push", s, dests))
           after(op) == Zcmp(op, inside, dests)
           adj == StackAdj(P, 16 * vxrm, Rlist)
           kept == {r \in 1 .. 31 : r = sp \/ \E i \in 1 .. n : saved[i] = r}
           q == ZCmpPopHelper(P, inside, 16 * vxrm, Rlist, dests)
           ret == [q EXCEPT !.next = q.x[ra]]
           retz == [q EXCEPT !.x[a0] = 0, !.next = q.x[ra]]
<1>1. s = Hart /\ saved = ZcmpListSources(Rlist) /\ n = Len(saved) /\ adj = StackAdj(P, 16 * vxrm, Rlist)
      /\ dests = PopDests(Rlist) /\ inside = Callee(Zcmp("cm.push", s, PopDests(Rlist)))
      /\ q = ZCmpPopHelper(P, inside, 16 * vxrm, Rlist, PopDests(Rlist))
  OBVIOUS
<1>2. after("cm.pop") = q /\ after("cm.popret") = ret /\ after("cm.popretz") = retz
  <2> HIDE DEF inside, dests
  <2>1. /\ Zcmp("cm.pop", inside, dests) = ZCmpPop(P, inside, 16 * vxrm, Rlist, dests)
        /\ Zcmp("cm.popret", inside, dests) = ZCmpPopRet(P, inside, 16 * vxrm, Rlist, dests)
        /\ Zcmp("cm.popretz", inside, dests) = ZCmpPopRetz(P, inside, 16 * vxrm, Rlist, dests)
    BY FrameInstructions
  <2> QED  BY <2>1 DEF ZCmpPop, ZCmpPopRet, ZCmpPopRetz
<1>3. P.xb * n <= adj /\ adj % 16 = 0
  BY FrameSizes
<1> HIDE DEF s, saved, dests, n, inside, adj, q, after
<1>4. Framed(s, inside, saved, n, adj)
  BY <1>1, FrameWritten
<1>5. Popped(s, inside, saved, n, q)
  BY <1>1, <1>4, PopRestores
<1>6. /\ n \in 0 .. 13 /\ (Rlist > 3 => n > 0) /\ (n > 0 => saved[1] = ra)
      /\ \A i \in 1 .. n : saved[i] \in 1 .. 31 /\ saved[i] # sp /\ saved[i] # a0
  <2>1. n \in 0 .. 13
    BY <1>1, ListsAreSets
  <2>2. Rlist > 3 => n > 0
    BY <1>1, ListsAreSets
  <2>3. n > 0 => saved[1] = ra
    BY <1>1, ListsAreSets
  <2>4. Different(n, saved)
    BY <1>1, ListsAreSets
  <2> QED  BY <2>1, <2>2, <2>3, <2>4 DEF Different
<1>7. ASSUME NEW r \in 1 .. 31 PROVE q.x[r] = IF r \in kept THEN s.x[r] ELSE inside.x[r]
  <2>1. CASE r = sp
    BY <1>5, <2>1 DEF Popped
  <2>2. CASE \E i \in 1 .. n : saved[i] = r
    BY <1>5, <2>2 DEF Popped
  <2>3. CASE r # sp /\ \A i \in 1 .. n : saved[i] # r
    BY <1>5, <2>3 DEF Popped
  <2> QED  BY <2>1, <2>2, <2>3
<1>8. Rlist > 3 => q.x[ra] = s.x[ra]
  <2> SUFFICES ASSUME Rlist > 3 PROVE q.x[ra] = s.x[ra]
    OBVIOUS
  <2>1. 1 \in 1 .. n /\ saved[1] = ra
    BY <1>6
  <2> QED  BY <1>5, <2>1 DEF Popped
<1>9. IsHart(q) /\ q.x[sp] = s.x[sp]
  BY <1>5 DEF Popped
<1>10. ret.next = q.x[ra]
  BY <1>9 DEF IsHart
<1>11. retz.x[a0] = 0 /\ retz.x[sp] = q.x[sp] /\ retz.next = q.x[ra]
  <2> DEFINE y == q.x[ra]
  <2>1. a0 \in 0 .. 31 /\ sp \in 0 .. 31 /\ a0 # sp
    BY DEF a0, sp
  <2>2. retz = [q EXCEPT !.x[a0] = 0, !.next = y]
    OBVIOUS
  <2> HIDE DEF y, retz
  <2>3. retz.x[a0] = 0 /\ retz.x[sp] = q.x[sp] /\ retz.next = y
    BY <1>9, <2>1, <2>2 DEF IsHart
  <2> QED  BY <2>3 DEF y
<1>12. AroundFrame(s, inside, n)
  <2>1. s.x[sp] \in Word(XLen(P)) /\ IsHart(s)
    <3>1. sp \in 0 .. 31
      BY DEF sp
    <3> QED  BY <1>1, <3>1, HartFacts
  <2> QED  BY <1>4, <1>6, <2>1, FrameBytes
<1>13. (n > 0 /\ s.x[sp] >= P.xb * n) =>
         Load(IF m THEN "ld" ELSE "lw", inside, inside.x[sp], adj - P.xb * n, 5).x[5] = s.x[ra]
  BY <1>1, <1>4, FrameLoaded
<1> HIDE DEF kept, ret, retz
<1>14. /\ P.xb * n <= adj /\ adj % 16 = 0
       /\ m => /\ \A r \in 1 .. 31 :
                    after("cm.pop").x[r] = IF r \in kept THEN s.x[r] ELSE inside.x[r]
               /\ Rlist > 3 => after("cm.popret").next = s.x[ra]
               /\ LET popped == after("cm.popretz") IN
                  popped.x[a0] = 0 /\ popped.x[sp] = s.x[sp] /\ (Rlist > 3 => popped.next = s.x[ra])
       /\ \A k \in 0 .. 7 : \A a \in {s.x[sp] + k, s.x[sp] - P.xb * n - 1 - k} :
            LET b == Trunc(ALen(P), a) IN ByteIn(P, inside, b) = ByteIn(P, s, b)
       /\ (n > 0 /\ s.x[sp] >= P.xb * n) =>
            Load(IF m THEN "ld" ELSE "lw", inside, inside.x[sp], adj - P.xb * n, 5).x[5] = s.x[ra]
  <2>1. \A r \in 1 .. 31 : after("cm.pop").x[r] = IF r \in kept THEN s.x[r] ELSE inside.x[r]
    BY <1>2, <1>7
  <2>2. Rlist > 3 => after("cm.popret").next = s.x[ra]
    BY <1>2, <1>8, <1>10
  <2>3. after("cm.popretz").x[a0] = 0 /\ after("cm.popretz").x[sp] = s.x[sp] /\ (Rlist > 3 => after("cm.popretz").next = s.x[ra])
    BY <1>2, <1>8, <1>9, <1>11
  <2>4. \A k \in 0 .. 7 : \A a \in {s.x[sp] + k, s.x[sp] - P.xb * n - 1 - k} :
          LET b == Trunc(ALen(P), a) IN ByteIn(P, inside, b) = ByteIn(P, s, b)
    BY <1>12, Zenon DEF AroundFrame
  <2> QED  BY <1>3, <1>13, <2>1, <2>2, <2>3, <2>4, Zenon
<1> QED  BY <1>14, Zenon DEF FramesRestore, s, saved, dests, n, inside, after, adj, kept

\* cm.push writes its frame and nothing else, RV64's pops restore it (RV32's, whose
\* operands are declared with sp first, do not, and are not claimed to), and jumps, table
\* jumps, loads and stores of both namespaces go where they should, in every reachable
\* state: for any width of bytes and registers, any contents of registers and memory, any
\* stack pointer and every register list.
THEOREM FramesAndTargetsHold == Spec => []FramesAndTargets
<1>1. Types => FramesAndTargets
  <2> SUFFICES ASSUME Types PROVE FramesAndTargets
    OBVIOUS
  <2>1. Rlist \in 0 .. 15
    BY WordFacts DEF Types, Rlist
  <2> QED  BY <2>1, FramesRestoreHolds, TargetsAndAccessesHold DEF FramesAndTargets
<1> QED  BY <1>1, TypeCorrect, PTL
=============================================================================
