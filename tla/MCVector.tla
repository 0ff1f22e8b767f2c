------------------------------ MODULE MCVector ------------------------------
(* The vector unit for TLC: registers of four 2-bit bytes. *)
EXTENDS VectorChecks

MCVTypes == {<<1, 4>>, <<1, 8>>, <<2, 8>>, <<2, 16>>,
             <<1, 0>>, <<0, 8>>}   \* reserved: a multiplier, a width
MCMasks == {{}, {0}, {1, 2}, {0, 2, 3}, 0 .. 7}
=============================================================================
