------------------------ MODULE DroppingPacketQueue ------------------------
(***************************************************************************)
(* The queue disciplines without a control law: InfinitePacketQueue,       *)
(* DropTailPacketQueue and DropHeadPacketQueue, the latter two with the    *)
(* limits and the size counters of their base class DroppingPacketQueue.   *)
(* Asserts are compiled in, so a false one ends the process: it is modelled *)
(* by aborted.  Callers (LinkQueue) call dequeue() only when not empty().  *)
(***************************************************************************)
EXTENDS PacketQueue, Integers

CONSTANTS Params,        \* the queue_params a link may be configured with:
                         \* records of type, packets and bytes
          Packets,       \* the packets that may be enqueued
          Nothing,       \* the value of returned before the first dequeue
          MaxQueued      \* bound of the model: no enqueue beyond this length

\* What get_packet_queue and the constructors accept.  A limit that is 0 or
\* missing is no limit, and a dropping queue without any limit is refused.
ASSUME LimitAssumption ==
    \A params \in Params :
        /\ params.type \in {"infinite", "droptail", "drophead", "codel", "pie"}
        /\ params.packets \in Nat
        /\ params.bytes \in Nat
        /\ params.type # "infinite" => params.packets > 0 \/ params.bytes > 0

ASSUME PacketAssumption ==
    /\ \A p \in Packets : p.size \in Nat \ {0}
    /\ MaxQueued \in Nat

VARIABLES
    queue_params,           \* fixed when the queue is constructed
    internal_queue,
    queue_size_in_bytes,
    queue_size_in_packets,
    returned,               \* the packet handed out by the last dequeue()
    aborted                 \* an assert failed

vars == <<queue_params, internal_queue, queue_size_in_bytes, queue_size_in_packets,
          returned, aborted>>

Discipline == queue_params.type
packet_limit == queue_params.packets
byte_limit == queue_params.bytes

good_with(bytes, packets) ==
    /\ byte_limit > 0 => bytes <= byte_limit
    /\ packet_limit > 0 => packets <= packet_limit

good == good_with(queue_size_in_bytes, queue_size_in_packets)

\* Offered to callers through LinkQueue::can_accept_one; states the limits again.
can_accept_one(size) ==
    \/ Discipline = "infinite"
    \/ /\ byte_limit > 0 => queue_size_in_bytes + size <= byte_limit
       /\ packet_limit > 0 => queue_size_in_packets + 1 <= packet_limit

Init ==
    /\ queue_params \in Params
    /\ internal_queue = <<>>
    /\ queue_size_in_bytes = 0
    /\ queue_size_in_packets = 0
    /\ returned = Nothing
    /\ aborted = FALSE

\* put a packet on the back of the queue
accept(p) ==
    /\ internal_queue' = Append(internal_queue, p)
    /\ queue_size_in_bytes' = queue_size_in_bytes + p.size
    /\ queue_size_in_packets' = queue_size_in_packets + 1
    /\ UNCHANGED <<returned, aborted>>

InfiniteEnqueue(p) ==
    /\ Discipline = "infinite"
    /\ accept(p)

\* Mutant of DropTailEnqueue: a queue that is exactly full refuses.
DropTailEnqueueStrict(p) ==
    /\ Discipline = "droptail"
    /\ \/ /\ good_with(queue_size_in_bytes + p.size + 1,
                       queue_size_in_packets + 1)
          /\ accept(p)
       \/ /\ ~good_with(queue_size_in_bytes + p.size + 1,
                        queue_size_in_packets + 1)
          /\ UNCHANGED vars

\* Mutant of DropTailEnqueue: the limits are compared with the sizes before
\* the packet is added.
DropTailEnqueueLate(p) ==
    /\ Discipline = "droptail"
    /\ \/ good /\ accept(p)
       \/ ~good /\ UNCHANGED vars

DropTailEnqueue(p) ==
    /\ Discipline = "droptail"
    /\ \/ /\ good_with(queue_size_in_bytes + p.size, queue_size_in_packets + 1)
          /\ accept(p)
       \/ /\ ~good_with(queue_size_in_bytes + p.size, queue_size_in_packets + 1)
          /\ UNCHANGED vars

\* Mutant of DropHeadEnqueue: the packet dropped is the second one.
DropHeadEnqueueSecond(p) ==
    /\ Discipline = "drophead"
    /\ LET filled == Append(internal_queue, p) IN
       \/ /\ good_with(queue_size_in_bytes + p.size, queue_size_in_packets + 1)
          /\ accept(p)
       \/ /\ ~good_with(queue_size_in_bytes + p.size, queue_size_in_packets + 1)
          /\ internal_queue' = <<filled[1]>> \o Tail(Tail(filled))
          /\ queue_size_in_bytes' = queue_size_in_bytes + p.size
                                       - filled[2].size
          /\ UNCHANGED <<queue_size_in_packets, returned, aborted>>

\* Mutant of DropHeadEnqueue: the bytes of the new packet are subtracted
\* instead of those of the packet dropped.
DropHeadEnqueueMiscount(p) ==
    /\ Discipline = "drophead"
    /\ \/ /\ good_with(queue_size_in_bytes + p.size, queue_size_in_packets + 1)
          /\ accept(p)
       \/ /\ ~good_with(queue_size_in_bytes + p.size, queue_size_in_packets + 1)
          /\ internal_queue' = Tail(Append(internal_queue, p))
          /\ UNCHANGED <<queue_size_in_bytes, queue_size_in_packets, returned,
                         aborted>>

\* accept() and then "while not good() dequeue()".  dequeue() asserts good()
\* after its pop, so the loop body runs at most once: a queue that is still
\* over a limit after one pop ends the process.
DropHeadEnqueue(p) ==
    /\ Discipline = "drophead"
    /\ LET filled  == Append(internal_queue, p)
           bytes   == queue_size_in_bytes + p.size
           packets == queue_size_in_packets + 1
           popped  == bytes - filled[1].size
       IN  \/ /\ good_with(bytes, packets)
              /\ accept(p)
           \/ /\ ~good_with(bytes, packets)
              /\ good_with(popped, packets - 1)
              /\ internal_queue' = Tail(filled)
              /\ queue_size_in_bytes' = popped
              /\ queue_size_in_packets' = packets - 1
              /\ UNCHANGED <<returned, aborted>>
           \/ /\ ~good_with(bytes, packets)
              /\ ~good_with(popped, packets - 1)
              /\ aborted' = TRUE
              /\ UNCHANGED <<internal_queue, queue_size_in_bytes,
                             queue_size_in_packets, returned>>

Enqueue(p) ==
    /\ ~aborted
    /\ Len(internal_queue) < MaxQueued
    /\ InfiniteEnqueue(p) \/ DropTailEnqueue(p) \/ DropHeadEnqueue(p)

\* Mutant of Dequeue: the packet is uncounted twice.
DequeueDouble ==
    /\ ~aborted
    /\ internal_queue # <<>>
    /\ returned' = Head(internal_queue)
    /\ internal_queue' = Tail(internal_queue)
    /\ queue_size_in_bytes' = queue_size_in_bytes - Head(internal_queue).size
    /\ queue_size_in_packets' = queue_size_in_packets - 2
    /\ aborted' = (Discipline # "infinite" /\ ~good')

Dequeue ==
    /\ ~aborted
    /\ internal_queue # <<>>
    /\ returned' = Head(internal_queue)
    /\ internal_queue' = Tail(internal_queue)
    /\ queue_size_in_bytes' = queue_size_in_bytes - Head(internal_queue).size
    /\ queue_size_in_packets' = queue_size_in_packets - 1
    /\ aborted' = (Discipline # "infinite" /\ ~good')

Next ==
    /\ UNCHANGED queue_params
    /\ (\E p \in Packets : Enqueue(p)) \/ Dequeue

Spec == Init /\ [][Next]_vars
-----------------------------------------------------------------------------
\* Types.  size_bytes() and size_packets() assert that their counters are not
\* negative.
TypeOK ==
    /\ queue_params \in Params
    /\ internal_queue \in Seq(Packets)
    /\ queue_size_in_bytes \in Nat
    /\ queue_size_in_packets \in Nat
    /\ returned \in Packets \cup {Nothing}
    /\ aborted \in BOOLEAN

\* However enqueues, head drops and dequeues alternate, the packets really
\* held stay within the configured limits and the two incrementally kept
\* counters describe them exactly (dropping_packet_queue.cc keeps the
\* counters apart from the std::queue they describe).
HeldWithinLimits ==
    /\ queue_size_in_bytes = BytesIn(internal_queue)
    /\ queue_size_in_packets = Len(internal_queue)
    /\ Discipline # "infinite" =>
           good_with(BytesIn(internal_queue), Len(internal_queue))

\* No sequence of legal calls makes an assert of the queue fail, so no
\* configuration of the queue takes the ferry process down.
NeverAborts == ~aborted

\* NeverAborts as far as it holds: only a drophead queue that limits bytes can
\* meet the assert( good() ) of dequeue while it is still over its limit.
AbortsOnlyAtByteLimit ==
    aborted => Discipline = "drophead" /\ byte_limit > 0
=============================================================================
