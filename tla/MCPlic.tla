------------------------------- MODULE MCPlic ---------------------------------
(***************************************************************************)
(* Plic on three sources, 1 level-triggered, 2 and 3 edge-triggered, and   *)
(* two contexts that share sources 1 and 2.  Context 0 lists its sources   *)
(* out of order, and lists them anew in other orders as it disables and    *)
(* enables them.                                                           *)
(***************************************************************************)
EXTENDS Plic

MCConfigured == (0 :> <<3, 1, 2>>) @@ (1 :> <<1, 2>>)
MCOn == (0 :> {1, 2, 3}) @@ (1 :> {1, 2})
MCPriority == (1 :> 1) @@ (2 :> 2) @@ (3 :> 1)
MCThreshold == (0 :> 0) @@ (1 :> 1)
MCEnableWrites == (0 :> {{1, 2, 3}, {2}}) @@ (1 :> {{1, 2}})
===============================================================================
