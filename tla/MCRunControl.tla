---------------------------- MODULE MCRunControl ----------------------------
(***************************************************************************)
(* RunControl on two small programs.                                       *)
(*   Sequential:  0: next      1: branch to 0 or fall through to 2         *)
(*                2: exit (semihosting), next      3: jump to 0            *)
(*                4: mret (the trap handler)                               *)
(*   Concurrent:  0: next      1: jump to 0      2: mret (the handler)     *)
(***************************************************************************)
EXTENDS RunControl, TLC

SeqAddr == 0..4
SeqSucc == (0 :> {1}) @@ (1 :> {0, 2}) @@ (2 :> {3}) @@ (3 :> {0}) @@ (4 :> {0})
SeqFallThrough == [a \in SeqAddr |-> (a + 1) % 5]

ConAddr == 0..2
ConSucc == (0 :> {1}) @@ (1 :> {0}) @@ (2 :> {0})
ConFallThrough == [a \in ConAddr |-> (a + 1) % 3]
=============================================================================
