------------------------------- MODULE Words -------------------------------
(***************************************************************************)
(* Fixed-width machine words, as the C++ integer types of the instruction  *)
(* semantics use them.  A word of width w is a natural below 2^w; the      *)
(* signed types are the two's complement view of the same bits.  Widths    *)
(* are parameters: the element width of a vector instruction is            *)
(* 8 * sizeof(T), and a formula that is right at a small width and never   *)
(* mentions the width otherwise is checked there.                          *)
(***************************************************************************)
EXTENDS Integers, FiniteSetsExt

Word(w)    == 0 .. 2^w - 1
Trunc(w, x) == x % 2^w                                  \* cast to an unsigned type
Signed(w, x) == IF x >= 2^(w-1) THEN x - 2^w ELSE x     \* cast to the signed type
MaxU(w) == 2^w - 1
MaxS(w) == 2^(w-1) - 1
MinS(w) == -(2^(w-1))
Inv(w, x)  == MaxU(w) - x                               \* ~x
\* the bits that two words have in common, from the lowest; x + y counts them twice
CommonBits[p \in Nat \X Nat] ==
    IF p[1] = 0 \/ p[2] = 0 THEN 0
    ELSE 2 * CommonBits[<<p[1] \div 2, p[2] \div 2>>] + (p[1] % 2) * (p[2] % 2)
x & y  == CommonBits[<<x, y>>]
x | y  == x + y - (x & y)
x ^^ y == x + y - 2 * (x & y)
Bit(x, i)  == (x \div 2^i) % 2
Sext(w, ww, x) == Trunc(ww, Signed(w, x))               \* widen by sign
Flag(b) == IF b THEN 1 ELSE 0                           \* bool to integer

\* x shifted left and right; \div rounds down, so a shift of a negative
\* number to the right is arithmetic
Shl(w, x, k) == Trunc(w, x * 2^k)
Shr(x, k)    == x \div 2^k

\* C++ division truncates toward zero
Abs(x)   == IF x < 0 THEN -x ELSE x
TQuot(x, y) == IF (x < 0) = (y < 0) THEN Abs(x) \div Abs(y) ELSE -(Abs(x) \div Abs(y))
TRem(x, y)  == x - y * TQuot(x, y)

\* the word whose bit i is b[i]
OfBits(w, b) == MapThenSumSet(LAMBDA i : b[i] * 2^i, 0 .. w-1)

\* RiscVUnaryOp sets as many bytes of the register as its result type has: the
\* register rd keeps the bits above a narrower result
RiscVUnaryOp(bits, rd, v) == rd - (rd % 2^bits) + v

Lesser(x, y)  == IF y < x THEN y ELSE x
Greater(x, y) == IF x < y THEN y ELSE x
Clamp(lo, hi, x) == Greater(lo, Lesser(hi, x))
=============================================================================
