-------------------------------- MODULE MCFp --------------------------------
(* Small formats: e exponent and s significand bits. *)
EXTENDS FpUnit
SmallHalf == [e |-> 2, s |-> 2]
SmallSingle == [e |-> 5, s |-> 8]
SmallCoarse == [e |-> 4, s |-> 2]
=============================================================================
