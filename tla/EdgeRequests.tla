----------------------------- MODULE EdgeRequests ------------------------------
(***************************************************************************)
(* What an interrupt controller promises for edge-triggered sources: a     *)
(* request is waiting, then in service at one target, then finished, and   *)
(* the next request of that source is accepted only after that.  Plic is   *)
(* shown to implement this for the sources that are not level-triggered.   *)
(***************************************************************************)
CONSTANTS Sources, Targets

VARIABLES
  waiting,   \* the sources whose request waits to be claimed
  servers    \* source -> the targets serving its request

vars == <<waiting, servers>>

Init ==
  /\ waiting = {}
  /\ servers = [s \in Sources |-> {}]

Request(s) ==
  /\ s \notin waiting /\ servers[s] = {}
  /\ waiting' = waiting \union {s}
  /\ UNCHANGED servers

Serve(s, t) ==
  /\ s \in waiting
  /\ waiting' = waiting \ {s}
  /\ servers' = [servers EXCEPT ![s] = {t}]

Finish(s, t) ==
  /\ servers[s] = {t}
  /\ servers' = [servers EXCEPT ![s] = {}]
  /\ UNCHANGED waiting

Next == \E s \in Sources :
  \/ Request(s)
  \/ \E t \in Targets : Serve(s, t) \/ Finish(s, t)

Spec == Init /\ [][Next]_vars
===============================================================================
