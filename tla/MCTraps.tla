------------------------------ MODULE MCTraps ---------------------------------
(***************************************************************************)
(* Traps on small sets of interrupts: supervisor software (1), machine     *)
(* software (3), machine timer (7), supervisor external (9). mstatus is    *)
(* written with every value of mpp, the reserved one included, and every   *)
(* pair of interrupt enables, the saved enables set.                       *)
(***************************************************************************)
EXTENDS Traps

MCStatusWrites ==
  {v \in MStatus : v.mpie /\ v.spie /\ v.spp = User /\ (v.tsr => v.mie /\ v.sie)}
MCDelegWrites == {{1, 9}}
MCTimerDelegWrites == {{7}}
MCEDelegWrites == {{8}}
===============================================================================
