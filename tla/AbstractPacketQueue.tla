------------------------- MODULE AbstractPacketQueue -------------------------
(***************************************************************************)
(* The promise of an AbstractPacketQueue as a specification: a lossy FIFO. *)
(* queue is its contents, returned the packet the last dequeue() handed    *)
(* out (Nothing before the first one).  Concrete disciplines are shown to  *)
(* implement Spec; LinkQueue is specified on top of the same outcomes.     *)
(***************************************************************************)
EXTENDS PacketQueue

CONSTANTS Packets,          \* the packets that may be enqueued
          Nothing           \* returned before the first dequeue

VARIABLES queue, returned,
          drops_at_dequeue  \* fixed by the discipline: TRUE for CoDel

vars == <<queue, returned, drops_at_dequeue>>

Init == queue = <<>> /\ returned = Nothing

Enqueue(p) ==
    /\ queue' \in EnqueueOutcomes(queue, p)
    /\ UNCHANGED returned

Dequeue ==
    /\ queue # <<>>
    /\ returned' = Head(queue)
    /\ queue' \in DequeueOutcomes(queue, drops_at_dequeue)

Next ==
    /\ UNCHANGED drops_at_dequeue
    /\ (\E p \in Packets : Enqueue(p)) \/ Dequeue

Spec == Init /\ [][Next]_vars
=============================================================================
