----------------------------- MODULE MCAssembler -----------------------------
(* Boundary registers, numbers and symbols for Assembler. *)
EXTENDS Assembler

MCRegisters == {0, 1, 8, 15, 16, 31}
MCNumbers == {-1044480, -131072, -2048, -32, -2, 0, 1, 31, 63, 124, 248, 2047, 2048, 3840, 4096, 4350, 6142,
              8190, 126976, 1052670, 2147479552}
MCLongSymbols == [target |-> 4224, data |-> 262144]
MCShortSymbols == [n |-> 4608]
MCCsrs == {1, 768, 3072}
=============================================================================
