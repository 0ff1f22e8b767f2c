--------------------------------- MODULE Plic ---------------------------------
(***************************************************************************)
(* The platform level interrupt controller, RiscVPlic (riscv_plic.cc): the *)
(* gateways of the interrupt sources, the pending bits, the enables,       *)
(* priorities and thresholds, the IRQ line of each context (a hart in a    *)
(* privilege mode), and the claim/complete protocol of their handlers.     *)
(*                                                                         *)
(* A register write is an action on the register that the address selects. *)
(* Sets of sources stand for words of bits; a single word is modelled.     *)
(* Source 0, "no interrupt", is never raised.  Every context has its IRQ   *)
(* interface attached (SetContext).                                        *)
(***************************************************************************)
EXTENDS Naturals, Sequences, FiniteSets, SequencesExt

CONSTANTS
  Sources,            \* interrupt sources
  Contexts,           \* targets
  Level,              \* the level-triggered sources, the others are edge-triggered
  ConfiguredPriority, \* Configure: source -> priority
  ConfiguredThreshold,\* Configure: context -> threshold
  Configured,         \* Configure: context -> the sources listed, in order
  ConfiguredOn,       \* Configure: context -> the listed sources with enable 1
  Priorities,         \* values written to the priority and threshold registers
  Thresholds,
  EnableWrites,       \* context -> values written to its enable register
  SoftwarePending,    \* sources whose pending bit is set by register writes
  Nesting,            \* a handler claims again before it completes
  DisablesServed      \* software disables a source while its handler runs

ASSUME SourcesAssumption ==
  /\ Sources \subseteq Nat \ {0} /\ IsFiniteSet(Sources)
  /\ Level \subseteq Sources /\ SoftwarePending \subseteq Sources
ASSUME ConfigurationAssumption ==
  /\ Priorities \subseteq Nat /\ Thresholds \subseteq Nat
  /\ ConfiguredPriority \in [Sources -> Priorities]
  /\ ConfiguredThreshold \in [Contexts -> Thresholds]
  /\ Configured \in [Contexts -> Seq(Sources)]
  /\ ConfiguredOn \in [Contexts -> SUBSET Sources]
  /\ EnableWrites \in [Contexts -> SUBSET SUBSET Sources]
  /\ \A c \in Contexts : ConfiguredOn[c] \subseteq ToSet(Configured[c])

VARIABLES
  priority,        \* interrupt_priority_
  threshold,       \* priority_threshold_
  enabled,         \* interrupt_enabled_: context -> set of sources
  listed,          \* context_to_source_: context -> sequence of sources
  pending,         \* interrupt_pending_
  ready,           \* the sources whose gateway accepts a request
  asserted,        \* the sources whose gateway has its pending bit set
  irq,             \* context_irq_, the value of the context's IRQ line
  claim_complete,  \* interrupt_claim_complete_
  served,          \* history: what the handler has claimed and not completed
  dropped          \* history: completions ignored, the gateway not opened since

registers == <<priority, threshold, enabled, listed>>
gateways == <<ready, asserted>>
claims == <<claim_complete, served, dropped>>
vars == <<registers, pending, gateways, irq, claims>>

\* The state after the constructor and Configure.
Init ==
  /\ priority = ConfiguredPriority
  /\ threshold = ConfiguredThreshold
  /\ enabled = ConfiguredOn
  /\ listed = Configured
  /\ pending = {}
  /\ ready = Sources /\ asserted = {}
  /\ irq = [c \in Contexts |-> FALSE]
  /\ claim_complete = [c \in Contexts |-> 0]
  /\ served = [c \in Contexts |-> {}] /\ dropped = {}

\* source_to_context_ has the same pairs as context_to_source_.
Lists(c, s) == s \in ToSet(listed[c])

\* Raise the lines of the contexts that satisfy Due.
RaiseIrq(Due(_)) == irq' = [c \in Contexts |-> irq[c] \/ Due(c)]

\* SetPlicPendingInterrupt, with the priority in force.
SetPlicPendingInterrupt(s) ==
  IF s \in pending \/ priority'[s] = 0
  THEN UNCHANGED <<pending, irq>>
  ELSE /\ pending' = pending \union {s}
       /\ RaiseIrq(LAMBDA c : Lists(c, s) /\ priority'[s] > threshold[c])

-------------------------------------------------------------------------------
(* SetInterrupt(source, value, is_level), called by the device.            *)

\* The gateway does not pass the request on: it is closed, or the line falls, or
\* the source has priority 0. A level is remembered.
Withhold(s, value) ==
  /\ value => s \notin ready \/ priority[s] = 0
  /\ s \in Level
  /\ asserted' = IF value THEN asserted \union {s} ELSE asserted \ {s}
  /\ UNCHANGED <<registers, pending, ready, irq, claims>>

\* Mutant: the gateway stays open.
ForwardAndStayReady(s) ==
  /\ s \in ready /\ priority[s] # 0
  /\ asserted' = IF s \in Level THEN asserted \union {s} ELSE asserted
  /\ UNCHANGED <<registers, claims, ready>>
  /\ SetPlicPendingInterrupt(s)

\* It does: no other request until this one is complete.
Forward(s) ==
  /\ s \in ready /\ priority[s] # 0
  /\ asserted' = IF s \in Level THEN asserted \union {s} ELSE asserted
  /\ ready' = ready \ {s}
  /\ UNCHANGED <<registers, claims>>
  /\ SetPlicPendingInterrupt(s)

-------------------------------------------------------------------------------
(* Writes to the registers.                                                *)

\* Raised from 0, the priority lets an asserted level through, past the gateway.
WritePriority(s, value) ==
  /\ priority' = [priority EXCEPT ![s] = value]
  /\ UNCHANGED <<threshold, enabled, listed, gateways, claims>>
  /\ IF priority[s] = 0 /\ value # 0 /\ s \in ready /\ s \in asserted
     THEN SetPlicPendingInterrupt(s)
     ELSE UNCHANGED <<pending, irq>>

\* The pending bits are overwritten; the lines rise for those newly set. The guest
\* reads them first and clears none.
WritePending(value) ==
  /\ pending \subseteq value
  /\ pending' = value
  /\ RaiseIrq(LAMBDA c : \E s \in value \ pending :
                            Lists(c, s) /\ priority[s] > threshold[c])
  /\ UNCHANGED <<registers, gateways, claims>>

\* The numbers of K in increasing order: the order in which bits_set is scanned.
Ranked(K) ==
  [n \in 1..Cardinality(K) |-> CHOOSE k \in K : Cardinality({j \in K : j <= k}) = n]

\* The first entry of each source in S is erased; the others keep their order.
Without(list, S) ==
  LET erased == {j \in DOMAIN list :
                   list[j] \in S /\ \A i \in 1..(j - 1) : list[i] # list[j]}
      kept == Ranked(DOMAIN list \ erased)
  IN [n \in DOMAIN kept |-> list[kept[n]]]

\* The line rises for a source that could interrupt, pending or not.
WriteEnable(c, value) ==
  LET bits_set == value \ enabled[c]
      bits_cleared == enabled[c] \ value
  IN /\ DisablesServed \/ served[c] \subseteq value
     /\ enabled' = [enabled EXCEPT ![c] = value]
     /\ listed' = [listed EXCEPT ![c] =
                     Without(@ \o Ranked(bits_set), bits_cleared)]
     /\ RaiseIrq(LAMBDA d : d = c /\ \E s \in bits_set : priority[s] > threshold[c])
     /\ UNCHANGED <<priority, threshold, pending, gateways, claims>>

\* Mutant: a lower threshold takes effect with the next request.
WriteThresholdOnly(c, value) ==
  /\ threshold' = [threshold EXCEPT ![c] = value]
  /\ UNCHANGED <<priority, enabled, listed, pending, gateways, claims, irq>>

WriteThreshold(c, value) ==
  /\ threshold' = [threshold EXCEPT ![c] = value]
  /\ RaiseIrq(LAMBDA d : /\ d = c /\ value < threshold[c]
                         /\ \E s \in ToSet(listed[c]) : priority[s] > value)
  /\ UNCHANGED <<priority, enabled, listed, pending, gateways, claims>>

-------------------------------------------------------------------------------
(* The claim/complete register.                                            *)

\* Mutant: of two sources with one priority, the later in the list is chosen.
LaterOf(best, s) ==
  IF s \notin pending \/ best.priority > priority[s] THEN best
  ELSE [id |-> s, priority |-> priority[s], count |-> best.count + 1]

\* One iteration of ClaimInterrupt's loop; count counts the times best changes.
BetterOf(best, s) ==
  IF \/ s \notin pending
     \/ best.priority > priority[s]
     \/ best.priority = priority[s] /\ best.id < s
  THEN best
  ELSE [id |-> s, priority |-> priority[s], count |-> best.count + 1]

Search(list) ==
  LET best[n \in 0..Len(list)] ==
        IF n = 0 THEN [id |-> 0, priority |-> 0, count |-> 0]
        ELSE BetterOf(best[n - 1], list[n])
  IN best

Best(c) == Search(listed[c])[Len(listed[c])]

\* Reading the register. The line falls if best changed once, or never.
ClaimInterrupt(c) ==
  /\ Nesting \/ served[c] = {}
  /\ LET best == Best(c)
         id == best.id
     IN IF id # 0
        THEN /\ pending' = pending \ {id}
             /\ claim_complete' = [claim_complete EXCEPT ![c] = id]
             /\ served' = [served EXCEPT ![c] = @ \union {id}]
             /\ UNCHANGED dropped
             /\ irq' = [irq EXCEPT ![c] = @ /\ best.count # 1]
        ELSE /\ irq' = [irq EXCEPT ![c] = @ /\ best.count # 0]
             /\ UNCHANGED <<pending, claims>>
  /\ UNCHANGED <<registers, gateways>>

\* Mutant: an asserted level leaves the gateway closed and the request dropped.
CompleteWithoutResending(c, id) ==
  /\ id \in served[c] /\ Lists(c, id)
  /\ LET source == claim_complete[c]
     IN ready' = IF source \in asserted /\ priority[source] > 0
                 THEN ready
                 ELSE ready \union ({source} \ {0})
  /\ claim_complete' = [claim_complete EXCEPT ![c] = 0]
  /\ served' = [served EXCEPT ![c] = @ \ {id}]
  /\ dropped' = dropped \ ready'
  /\ UNCHANGED <<registers, asserted, pending, irq>>

\* Writing it. The handler writes an id it claimed; the code checks that the id is
\* enabled, and completes the source it recorded last.
CompleteInterrupt(c, id) ==
  /\ id \in served[c] /\ Lists(c, id)
  /\ claim_complete' = [claim_complete EXCEPT ![c] = 0]
  /\ served' = [served EXCEPT ![c] = @ \ {id}]
  /\ UNCHANGED <<registers, asserted>>
  /\ LET source == claim_complete[c]
     IN IF source \in asserted /\ priority[source] > 0
        THEN SetPlicPendingInterrupt(source) /\ UNCHANGED ready
        ELSE /\ ready' = ready \union ({source} \ {0})
             /\ UNCHANGED <<pending, irq>>
  /\ dropped' = dropped \ ready'

\* Writing the id of a source that was disabled after the claim: nothing happens, and
\* the handler, which cannot tell, is done with it.
IgnoreCompletion(c, id) ==
  /\ id \in served[c] /\ ~Lists(c, id)
  /\ served' = [served EXCEPT ![c] = @ \ {id}]
  /\ dropped' = (dropped \union {id}) \ ready
  /\ UNCHANGED <<registers, pending, gateways, irq, claim_complete>>

-------------------------------------------------------------------------------
Next ==
  \/ \E s \in Sources :
       \/ \E value \in BOOLEAN : Withhold(s, value)
       \/ Forward(s)
       \/ \E value \in Priorities : WritePriority(s, value)
  \/ \E set \in SUBSET SoftwarePending : WritePending(pending \union set)
  \/ \E c \in Contexts :
       \/ \E value \in EnableWrites[c] : WriteEnable(c, value)
       \/ \E value \in Thresholds : WriteThreshold(c, value)
       \/ ClaimInterrupt(c)
       \/ \E id \in Sources : CompleteInterrupt(c, id) \/ IgnoreCompletion(c, id)

Spec == Init /\ [][Next]_vars

-------------------------------------------------------------------------------
(* Properties.                                                             *)

TypeOK ==
  /\ priority \in [Sources -> Priorities]
  /\ threshold \in [Contexts -> Thresholds]
  /\ enabled \in [Contexts -> SUBSET Sources]
  /\ listed \in [Contexts -> Seq(Sources)]
  /\ pending \subseteq Sources /\ ready \subseteq Sources /\ asserted \subseteq Level
  /\ irq \in [Contexts -> BOOLEAN]
  /\ claim_complete \in [Contexts -> Sources \union {0}]
  /\ served \in [Contexts -> SUBSET Sources] /\ dropped \subseteq Sources

\* riscv_plic.cc:165, 547-563: a gateway that accepts nothing has a request under way -
\* its source is pending, or a handler has claimed it and will complete it - or its
\* handler's completion was ignored, the source having been disabled meanwhile. That is
\* the only way, for handlers that do not nest, in which a source goes dead.
UnderWay(s) == s \in pending \/ \E c \in Contexts : s \in served[c]
GatewayAccountedFor == \A s \in Sources \ ready : UnderWay(s) \/ s \in dropped

\* What the claim/complete protocol wants: a closed gateway has a request under way. It
\* holds for software that disables no source in service (PlicProofs), and fails if it
\* does: the completion is ignored, enabling the source again does not open its gateway.
NoSourceIsDead == \A s \in Sources \ ready : UnderWay(s)

\* riscv_plic.cc:506, 518-519: a claim returns the highest-priority pending source
\* that the context has enabled, the lowest id of several; whatever the order in
\* which they were enabled.
Claimed(c, id) == id \in served'[c] \ served[c]
Before(s, t) ==
  priority[s] > priority[t] \/ (priority[s] = priority[t] /\ s <= t)
ClaimsHighestPriority ==
  [][\A c \in Contexts, id \in Sources :
       Claimed(c, id) => /\ id \in pending \intersect enabled[c]
                         /\ \A s \in pending \intersect enabled[c] : Before(id, s)]_vars

\* A source that becomes deliverable to a context - it becomes pending, or enabled,
\* or the threshold falls - raises the context's line, in whichever of the four
\* handlers it happens. (A priority that rises while the source is pending does not.)
Deliverable(c) == \E s \in pending \intersect enabled[c] : priority[s] > threshold[c]
DeliverableRaisesIrq ==
  [][\A c \in Contexts :
       Deliverable(c)' /\ ~irq'[c]
         => Deliverable(c) \/ priority' # priority]_vars

\* An edge-triggered request is served once, by one context, before the next; after one
\* whose completion is ignored there is no next.
Edge == Sources \ Level
Requests == INSTANCE EdgeRequests WITH
  Sources <- Edge, Targets <- Contexts,
  waiting <- pending \intersect Edge,
  servers <- [s \in Edge |-> {c \in Contexts : s \in served[c]}]
EdgeRequestsServedOnce == Requests!Spec

\* riscv_plic_test.cc:276: "The IRQ line should remain high until there are no more
\* pending interrupts."
IrqHighWhilePending ==
  [][\A c \in Contexts :
       irq[c] /\ ~irq'[c]
         => \A s \in pending' \intersect enabled[c] : priority[s] = 0]_vars

\* riscv_plic.h:119: "Signal interrupt completion for the given context and interrupt
\* id": the source completed can interrupt again.
CompletionReopensGateway ==
  [][\A c \in Contexts, id \in Sources :
       id \in served[c] \ served'[c] => id \in ready' \union pending']_vars
===============================================================================
