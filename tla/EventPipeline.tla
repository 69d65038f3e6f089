--------------------------- MODULE EventPipeline ----------------------------
(***************************************************************************)
(* What the buffer promises its callers, without channels or goroutines:   *)
(* an event is accepted or refused on the spot; an accepted event is       *)
(* delivered once, in a batch, or it is lost with its whole batch; losses  *)
(* are counted, save those a stop in progress causes; and nothing is       *)
(* delivered once the stop has finished.                                   *)
(***************************************************************************)
EXTENDS Integers, FiniteSets

CONSTANTS MaxPush, BatchSize

VARIABLES
  pushed,          \* events presented so far, numbered from 1
  pending,         \* accepted, and neither delivered nor lost
  delivered,       \* handed to the transport
  stage,           \* "running", "stopping" or "stopped"
  droppedEvents, droppedBatches, sentBatches

vars == <<pushed, pending, delivered, stage,
          droppedEvents, droppedBatches, sentBatches>>

ABatch(B) == B # {} /\ Cardinality(B) <= BatchSize

Init ==
  /\ pushed = 0 /\ pending = {} /\ delivered = {} /\ stage = "running"
  /\ droppedEvents = 0 /\ droppedBatches = 0 /\ sentBatches = 0

Accept ==
  /\ pushed < MaxPush
  /\ pushed' = pushed + 1
  /\ pending' = pending \cup {pushed + 1}
  /\ UNCHANGED <<delivered, stage, droppedEvents, droppedBatches, sentBatches>>

Refuse ==
  /\ pushed < MaxPush
  /\ pushed' = pushed + 1
  /\ droppedEvents' = droppedEvents + 1
  /\ UNCHANGED <<pending, delivered, stage, droppedBatches, sentBatches>>

Deliver(B) ==
  /\ stage # "stopped" /\ ABatch(B)
  /\ pending' = pending \ B
  /\ delivered' = delivered \cup B
  /\ sentBatches' = sentBatches + 1
  /\ UNCHANGED <<pushed, stage, droppedEvents, droppedBatches>>

(* Shedding under load: the batch is counted.                              *)
Shed(B) ==
  /\ stage # "stopped" /\ ABatch(B)
  /\ pending' = pending \ B
  /\ droppedBatches' = droppedBatches + 1
  /\ UNCHANGED <<pushed, delivered, stage, droppedEvents, sentBatches>>

(* A batch overtaken by the stop: gone, and not counted.                   *)
Forfeit(B) ==
  /\ stage = "stopping" /\ ABatch(B)
  /\ pending' = pending \ B
  /\ UNCHANGED <<pushed, delivered, stage, droppedEvents, droppedBatches, sentBatches>>

Begin ==
  /\ stage = "running" /\ stage' = "stopping"
  /\ UNCHANGED <<pushed, pending, delivered, droppedEvents, droppedBatches, sentBatches>>

End ==
  /\ stage = "stopping" /\ stage' = "stopped"
  /\ UNCHANGED <<pushed, pending, delivered, droppedEvents, droppedBatches, sentBatches>>

Next ==
  \/ Accept \/ Refuse \/ Begin \/ End
  \/ \E B \in SUBSET pending : Deliver(B) \/ Shed(B) \/ Forfeit(B)

Spec == Init /\ [][Next]_vars
=============================================================================
