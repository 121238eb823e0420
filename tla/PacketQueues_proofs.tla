------------------------ MODULE PacketQueues_proofs ------------------------
(***************************************************************************)
(* For every configuration, every set of packets and every behaviour of    *)
(* the wall clock: the counters of the five disciplines describe the       *)
(* packets they hold and stay within the limits, the queues fail only in   *)
(* the two known ways, CoDel drops only from a standing queue and never    *)
(* down to the last packet, PIE drops only on a measured rate and keeps up *)
(* with its updates, and each of the five is the lossy FIFO that LinkQueue *)
(* relies on.                                                              *)
(***************************************************************************)
EXTENDS PacketQueues, PacketQueue_proofs, FiniteSetTheorems
-----------------------------------------------------------------------------
(* The queue and its counters                                              *)

\* The counters are exact and the limits hold, which is what the asserts of
\* the queues need.
IInv == TypeOK /\ HeldWithinLimits

\* The packets have sizes, so the bytes of a queue can be added up.
LEMMA PacketsSized == Sized(Packets)
  BY PacketAssumption DEF Sized

\* A new queue is empty, and an empty queue is within its limits.
LEMMA InitIInv == Init => IInv
<1> SUFFICES ASSUME Init PROVE IInv
  OBVIOUS
<1>1. TypeOK
  <2>1. internal_queue \in Seq(Packets) /\ queue_params \in Params
    BY DEF Init
  <2>2. queue_size_in_bytes \in Nat /\ queue_size_in_packets \in Nat
    BY DEF Init
  <2>3. returned \in Packets \cup {Nothing} /\ aborted \in BOOLEAN
    BY DEF Init
  <2> QED BY <2>1, <2>2, <2>3 DEF TypeOK
<1>2. BytesIn(internal_queue) = 0 /\ Len(internal_queue) = 0
  BY BytesOfNone DEF Init
<1>3. HeldWithinLimits
  BY <1>2, LimitAssumption DEF Init, HeldWithinLimits, good_with, byte_limit,
                               packet_limit
<1> QED BY <1>1, <1>3 DEF IInv

\* What the invariant says of the queue, its bytes and its limits.
LEMMA QueueFacts ==
    ASSUME IInv
    PROVE  /\ internal_queue \in Seq(Packets)
           /\ Len(internal_queue) \in Nat
           /\ BytesIn(internal_queue) \in Nat
           /\ queue_size_in_bytes = BytesIn(internal_queue)
           /\ queue_size_in_packets = Len(internal_queue)
           /\ byte_limit \in Nat /\ packet_limit \in Nat
<1>1. internal_queue \in Seq(Packets)
  BY DEF IInv, TypeOK
<1>2. Len(internal_queue) \in Nat /\ BytesIn(internal_queue) \in Nat
  BY <1>1, PacketsSized, BytesType
<1> QED
  BY <1>1, <1>2, LimitAssumption DEF IInv, TypeOK, HeldWithinLimits, byte_limit,
                                     packet_limit

\* A packet that fits is counted when it is appended.
LEMMA AcceptKeepsIInv ==
    ASSUME IInv, NEW p \in Packets, accept(p), UNCHANGED queue_params,
           \/ Discipline = "infinite"
           \/ good_with(queue_size_in_bytes + p.size, queue_size_in_packets + 1)
    PROVE  IInv'
<1> DEFINE filled == Append(internal_queue, p)
<1>1. /\ filled \in Seq(Packets) /\ Len(filled) = Len(internal_queue) + 1
      /\ BytesIn(filled) = BytesIn(internal_queue) + p.size
      /\ p.size \in Nat
  BY QueueFacts, PacketsSized, BytesOfAppend, PacketAssumption
<1>2. /\ internal_queue' = filled
      /\ queue_size_in_bytes' = queue_size_in_bytes + p.size
      /\ queue_size_in_packets' = queue_size_in_packets + 1
      /\ UNCHANGED <<returned, aborted>>
  BY DEF accept
<1> HIDE DEF filled
<1>3. /\ queue_size_in_bytes' = BytesIn(filled)
      /\ queue_size_in_packets' = Len(filled)
      /\ BytesIn(filled) \in Nat /\ Len(filled) \in Nat
  BY <1>1, <1>2, QueueFacts
<1>4. TypeOK'
  BY <1>1, <1>2, <1>3 DEF IInv, TypeOK
<1>5. (Discipline # "infinite" =>
         good_with(BytesIn(internal_queue), Len(internal_queue)))'
  BY <1>2, <1>3 DEF good_with, byte_limit, packet_limit, Discipline
<1> QED BY <1>2, <1>3, <1>4, <1>5 DEF IInv, HeldWithinLimits

\* A call that pops packets uncounts them; as the queue only shrinks, the limits
\* still hold.
LEMMA PopKeepsIInv ==
    ASSUME IInv, NEW k \in 1..Len(internal_queue), Pop(k),
           UNCHANGED queue_params, aborted' \in BOOLEAN
    PROVE  /\ IInv'
           /\ Discipline # "infinite" => good'
           /\ Len(internal_queue') = Len(internal_queue) - k
<1> DEFINE rest == From(internal_queue, k + 1)
           bytes == BytesIn(rest)
           gone == BytesIn(SubSeq(internal_queue, 1, k))
<1>1. k \in 0..Len(internal_queue) /\ k + 1 \in 1..(Len(internal_queue) + 1)
      /\ k \in Nat \ {0} /\ internal_queue # <<>>
  BY QueueFacts
<1>2. /\ SubSeq(internal_queue, 1, k) \in Seq(Packets)
      /\ rest \in Seq(Packets)
      /\ BytesIn(internal_queue) = gone + bytes
  BY <1>1, QueueFacts, PacketsSized, BytesOfParts
<1>3. gone \in Nat /\ bytes \in Nat
  BY <1>2, PacketsSized, BytesType
<1>4. Len(rest) = Len(internal_queue) - (k + 1) + 1
  BY <1>1, QueueFacts, FromProperties
<1>5. /\ internal_queue' = rest
      /\ queue_size_in_bytes' = queue_size_in_bytes - gone
      /\ queue_size_in_packets' = queue_size_in_packets - k
      /\ returned' = Head(internal_queue)
  BY DEF Pop, BytesLeft
<1>6. BytesIn(rest) = bytes
  OBVIOUS
<1> HIDE DEF rest, bytes, gone
<1>7. /\ queue_size_in_bytes' = bytes /\ bytes <= BytesIn(internal_queue)
      /\ queue_size_in_packets' = Len(rest)
      /\ Len(rest) = Len(internal_queue) - k
      /\ Len(rest) \in Nat /\ Len(rest) <= Len(internal_queue)
  BY <1>1, <1>2, <1>3, <1>4, <1>5, QueueFacts
<1>8. Head(internal_queue) \in Packets
  BY <1>1, QueueFacts, TailIsFrom
<1>9. TypeOK'
  BY <1>2, <1>3, <1>5, <1>7, <1>8 DEF IInv, TypeOK
<1>10. Discipline # "infinite" => good_with(bytes, Len(rest))
  BY <1>3, <1>7, QueueFacts DEF IInv, HeldWithinLimits, good_with
<1>11. (Discipline # "infinite" =>
          good_with(BytesIn(internal_queue), Len(internal_queue)))'
       /\ (Discipline # "infinite" => good')
  BY <1>5, <1>6, <1>7, <1>10 DEF good, good_with, byte_limit, packet_limit, Discipline
<1> QED
  BY <1>5, <1>6, <1>7, <1>9, <1>11 DEF IInv, HeldWithinLimits

\* DroppingPacketQueue::dequeue pops one packet.
LEMMA DequeuePops ==
    ASSUME IInv, Dequeue
    PROVE  1 \in 1..Len(internal_queue) /\ Pop(1)
<1> DEFINE q == internal_queue
           one == SubSeq(q, 1, 1)
<1>1. q \in Seq(Packets) /\ q # <<>> /\ Len(q) \in Nat \ {0}
      /\ Tail(q) = From(q, 2) /\ Head(q) \in Packets /\ Tail(q) \in Seq(Packets)
  BY QueueFacts, TailIsFrom DEF Dequeue
<1>2. 1 \in 0..Len(q) /\ 1 \in 1..Len(q)
  BY <1>1
<1>3. one \in Seq(Packets) /\ BytesIn(q) = BytesIn(one) + BytesIn(Tail(q))
  <2>1. one \in Seq(Packets)
        /\ BytesIn(q) = BytesIn(one) + BytesIn(From(q, 1 + 1))
    BY <1>1, <1>2, PacketsSized, BytesOfParts
  <2>2. From(q, 1 + 1) = Tail(q)
    BY <1>1
  <2> HIDE DEF q, one
  <2> QED BY <2>1, <2>2, Zenon
<1>4. BytesIn(q) = Head(q).size + BytesIn(Tail(q))
  BY <1>1, PacketsSized, BytesOfTail
<1>5. BytesIn(one) \in Nat /\ BytesIn(Tail(q)) \in Nat /\ Head(q).size \in Nat
  BY <1>1, <1>3, PacketsSized, BytesType, PacketAssumption
<1>6. 1 + 1 = 2
  OBVIOUS
<1> HIDE DEF q, one
<1>7. BytesIn(one) = Head(q).size
  BY <1>1, <1>3, <1>4, <1>5, <1>6
<1> QED
  BY <1>1, <1>2, <1>6, <1>7 DEF Dequeue, Pop, BytesLeft, q, one

\* Every enqueue of a queue without a control law keeps the invariant.
LEMMA EnqueueKeepsIInv ==
    ASSUME IInv, NEW p \in Packets, Enqueue(p), UNCHANGED queue_params
    PROVE  IInv'
<1> DEFINE bytes == queue_size_in_bytes + p.size
           packets == queue_size_in_packets + 1
<1>1. CASE InfiniteEnqueue(p)
  BY <1>1, AcceptKeepsIInv DEF InfiniteEnqueue
<1>2. CASE good_with(bytes, packets) /\ accept(p)
  BY <1>2, AcceptKeepsIInv
<1>3. CASE UNCHANGED vars
  BY <1>3 DEF IInv, TypeOK, HeldWithinLimits, good_with, vars, Discipline,
              byte_limit, packet_limit
<1>4. CASE aborted' = TRUE /\ UNCHANGED <<internal_queue,
             queue_size_in_bytes, queue_size_in_packets, returned>>
  BY <1>4 DEF IInv, TypeOK, HeldWithinLimits, good_with, Discipline,
              byte_limit, packet_limit
<1>5. CASE DropHeadEnqueue(p)
  <2> DEFINE filled == Append(internal_queue, p)
             popped == bytes - filled[1].size
             rest == Tail(filled)
  <2>1. CASE /\ good_with(popped, packets - 1)
             /\ internal_queue' = rest
             /\ queue_size_in_bytes' = popped
             /\ queue_size_in_packets' = packets - 1
             /\ UNCHANGED <<returned, aborted>>
    <3>1. /\ filled \in Seq(Packets) /\ filled # <<>>
          /\ Len(filled) = Len(internal_queue) + 1
          /\ BytesIn(filled) = BytesIn(internal_queue) + p.size
      <4>1. filled \in Seq(Packets) /\ Len(filled) = Len(internal_queue) + 1
        BY QueueFacts
      <4>2. BytesIn(filled) = BytesIn(internal_queue) + p.size
        BY QueueFacts, PacketsSized, BytesOfAppend
      <4>3. filled # <<>>
        <5> HIDE DEF filled
        <5> QED BY QueueFacts, <4>1
      <4> QED BY <4>1, <4>2, <4>3
    <3>2. p.size \in Nat /\ bytes = BytesIn(internal_queue) + p.size
          /\ packets = Len(internal_queue) + 1
      BY QueueFacts, PacketAssumption
    <3> HIDE DEF filled
    <3>3. /\ Head(filled) = filled[1] /\ rest \in Seq(Packets)
          /\ Head(filled) \in Packets
          /\ Len(rest) = Len(filled) - 1
      BY <3>1, TailIsFrom
    <3>4. BytesIn(filled) = Head(filled).size + BytesIn(rest)
      BY <3>1, PacketsSized, BytesOfTail
    <3>5. BytesIn(rest) \in Nat /\ Head(filled).size \in Nat
      BY <3>3, PacketsSized, BytesType, PacketAssumption
    <3> HIDE DEF rest
    <3>6. popped = BytesIn(rest) /\ packets - 1 = Len(rest) /\ Len(rest) \in Nat
      BY <3>1, <3>2, <3>3, <3>4, <3>5, QueueFacts
    <3> HIDE DEF popped, packets
    <3>7. TypeOK'
      BY <2>1, <3>3, <3>5, <3>6 DEF IInv, TypeOK
    <3>8. HeldWithinLimits'
      BY <2>1, <3>6 DEF HeldWithinLimits, good_with, byte_limit, packet_limit
    <3> QED BY <3>7, <3>8 DEF IInv
  <2> QED BY <1>2, <1>4, <1>5, <2>1 DEF DropHeadEnqueue
<1> QED BY <1>1, <1>2, <1>3, <1>5 DEF Enqueue, DropTailEnqueue

\* A dequeue keeps the invariant and its assert holds.
LEMMA DequeueKeepsIInv ==
    ASSUME IInv, Dequeue, UNCHANGED queue_params
    PROVE  IInv' /\ aborted' = FALSE
<1>1. aborted' \in BOOLEAN
  BY DEF Dequeue
<1>2. IInv' /\ (Discipline # "infinite" => good')
  BY <1>1, DequeuePops, PopKeepsIInv
<1> QED BY <1>2 DEF Dequeue

\* The types of the queues without a control law hold, their counters describe
\* what they hold, and the limits hold, in every reachable state.
THEOREM TypeCorrect == Spec => []IInv
<1>1. IInv /\ [Next]_vars => IInv'
  <2> SUFFICES ASSUME IInv, [Next]_vars PROVE IInv'
    OBVIOUS
  <2>1. CASE Next
    BY <2>1, EnqueueKeepsIInv, DequeueKeepsIInv DEF Next
  <2>2. CASE UNCHANGED vars
    BY <2>2 DEF IInv, TypeOK, HeldWithinLimits, good_with, vars,
                Discipline, byte_limit, packet_limit
  <2> QED BY <2>1, <2>2
<1> QED
  BY <1>1, InitIInv, PTL DEF Spec

\* Without a byte limit one pop always makes room for the packet just
\* accepted, so the loop of drophead never meets the assert inside dequeue.
LEMMA EnqueueDoesNotAbort ==
    ASSUME IInv, ~aborted, NEW p \in Packets, Enqueue(p),
           Discipline = "drophead" => byte_limit = 0
    PROVE  ~aborted'
<1>1. CASE InfiniteEnqueue(p)
  BY <1>1 DEF InfiniteEnqueue, accept
<1>2. CASE DropTailEnqueue(p)
  BY <1>2 DEF DropTailEnqueue, accept, vars
<1>3. CASE DropHeadEnqueue(p)
  <2>1. Discipline = "drophead" /\ byte_limit = 0 /\ packet_limit \in Nat
    BY <1>3, LimitAssumption DEF DropHeadEnqueue, IInv, TypeOK, packet_limit
  <2>2. good /\ queue_size_in_packets \in Nat
    BY <2>1, QueueFacts DEF IInv, HeldWithinLimits, good
  <2> DEFINE bytes == queue_size_in_bytes + p.size
             packets == queue_size_in_packets + 1
             popped == bytes - Append(internal_queue, p)[1].size
  <2>3. good_with(popped, packets - 1)
    BY <2>1, <2>2 DEF good, good_with
  <2>4. CASE accept(p)
    BY <2>4 DEF accept
  <2>5. CASE UNCHANGED <<returned, aborted>>
    BY <2>5
  <2>6. CASE ~good_with(popped, packets - 1)
    BY <2>3, <2>6
  <2> QED BY <1>3, <2>4, <2>5, <2>6 DEF DropHeadEnqueue
<1> QED BY <1>1, <1>2, <1>3 DEF Enqueue

\* No legal sequence of calls makes an assert fail, unless a drophead queue has
\* a byte limit (the run drophead_byte_limit shows that the exception is real).
THEOREM AssertsHold == Spec => []AbortsOnlyAtByteLimit
<1>1. Init => AbortsOnlyAtByteLimit
  BY DEF Init, AbortsOnlyAtByteLimit
<1>2. IInv /\ AbortsOnlyAtByteLimit /\ [Next]_vars => AbortsOnlyAtByteLimit'
  <2> SUFFICES ASSUME IInv, AbortsOnlyAtByteLimit, [Next]_vars
               PROVE  AbortsOnlyAtByteLimit'
    OBVIOUS
  <2>1. Discipline' = Discipline /\ byte_limit' = byte_limit
        /\ byte_limit \in Nat
    BY LimitAssumption DEF Next, vars, Discipline, byte_limit, IInv, TypeOK
  <2>2. CASE aborted
    BY <2>1, <2>2 DEF AbortsOnlyAtByteLimit
  <2>3. CASE Discipline = "drophead" /\ byte_limit > 0
    BY <2>1, <2>3 DEF AbortsOnlyAtByteLimit
  <2>4. CASE ~aborted /\ (Discipline = "drophead" => byte_limit = 0)
    <3>1. ~aborted'
      <4>1. CASE \E p \in Packets : Enqueue(p)
        BY <2>4, <4>1, EnqueueDoesNotAbort
      <4>2. CASE Dequeue /\ UNCHANGED queue_params
        BY <4>2, DequeueKeepsIInv
      <4>3. CASE UNCHANGED vars
        BY <2>4, <4>3 DEF vars
      <4> QED BY <4>1, <4>2, <4>3 DEF Next
    <3> QED BY <3>1 DEF AbortsOnlyAtByteLimit
  <2> QED BY <2>1, <2>2, <2>3, <2>4
<1> QED
  BY <1>1, <1>2, TypeCorrect, PTL DEF Spec
-----------------------------------------------------------------------------
(* The contract                                                            *)

QueueTypes == queue_params \in Params /\ internal_queue \in Seq(Packets)

\* The two outcomes of an enqueue that keeps its packet: nothing is dropped, or
\* the head is.
LEMMA KeptOutcomes ==
    ASSUME NEW S, NEW q \in Seq(S), NEW p \in S
    PROVE  /\ Append(q, p) \in EnqueueOutcomes(q, p) \cap Seq(S)
           /\ Tail(Append(q, p)) \in EnqueueOutcomes(q, p) \cap Seq(S)
<1> DEFINE filled == Append(q, p)
<1>1. filled \in Seq(S) /\ Len(filled) = Len(q) + 1 /\ Len(q) \in Nat
  OBVIOUS
<1> HIDE DEF filled
<1>4. filled # <<>>
  BY <1>1
<1>2. filled = From(filled, 1) /\ 1 \in 1..(Len(q) + 2)
  BY <1>1 DEF From
<1>3. Tail(filled) = From(filled, 2) /\ 2 \in 1..(Len(q) + 2)
  BY <1>1, <1>4, TailIsFrom
<1>5. Tail(filled) \in Seq(S)
  BY <1>1, <1>4
<1> QED
  BY <1>1, <1>2, <1>3, <1>5 DEF EnqueueOutcomes, filled

\* The contract's own copies of the outcome operators are the ones of
\* PacketQueue.
LEMMA SameOutcomes ==
    ASSUME NEW q, NEW p, NEW drops
    PROVE  /\ Contract!EnqueueOutcomes(q, p) = EnqueueOutcomes(q, p)
           /\ Contract!DequeueOutcomes(q, drops) = DequeueOutcomes(q, drops)
  BY DEF EnqueueOutcomes, DequeueOutcomes, From, Contract!EnqueueOutcomes,
         Contract!DequeueOutcomes, Contract!From

\* An enqueue that is not refused appends the packet and drops at most the head.
LEMMA EnqueueChoices ==
    ASSUME NEW p, QueueEnqueue(p)
    PROVE  /\ internal_queue' \in {internal_queue, Append(internal_queue, p),
                                   Tail(Append(internal_queue, p))}
           /\ UNCHANGED <<returned, queue_params>>
<1>1. CASE accept(p)
  BY <1>1 DEF accept, QueueEnqueue
<1>2. CASE UNCHANGED vars
  BY <1>2 DEF vars
<1>3. CASE Enqueue(p)
  BY <1>1, <1>2, <1>3 DEF Enqueue, InfiniteEnqueue, DropTailEnqueue,
                          DropHeadEnqueue, QueueEnqueue
<1>4. CASE CodelEnqueue(p)
  BY <1>1, <1>2, <1>4 DEF CodelEnqueue
<1>5. CASE PieEnqueue(p, clock)
  BY <1>1, <1>2, <1>5 DEF PieEnqueue
<1> QED BY <1>3, <1>4, <1>5 DEF QueueEnqueue

\* Every enqueue of every discipline drops the packet, appends it, or appends
\* it and drops the head.
LEMMA EnqueueStep ==
    ASSUME QueueTypes, NEW p \in Packets, QueueEnqueue(p)
    PROVE  /\ internal_queue' \in EnqueueOutcomes(internal_queue, p)
           /\ internal_queue' \in Seq(Packets)
           /\ UNCHANGED <<returned, queue_params>>
<1> DEFINE filled == Append(internal_queue, p)
<1>1. /\ filled \in EnqueueOutcomes(internal_queue, p) \cap Seq(Packets)
      /\ Tail(filled) \in EnqueueOutcomes(internal_queue, p) \cap Seq(Packets)
  BY KeptOutcomes DEF QueueTypes
<1>2. internal_queue \in EnqueueOutcomes(internal_queue, p) \cap Seq(Packets)
  BY DEF EnqueueOutcomes, QueueTypes
<1>3. /\ internal_queue' \in {internal_queue, filled, Tail(filled)}
      /\ UNCHANGED <<returned, queue_params>>
  BY EnqueueChoices
<1> HIDE DEF filled
<1> QED BY <1>1, <1>2, <1>3

\* CoDel pops at least the packet it returns and no more than there are.
LEMMA CodelStep ==
    ASSUME QueueTypes, NEW now, CodelDequeue(now)
    PROVE  \E k \in 1..Len(internal_queue) : Pop(k)
<1>1. Len(internal_queue) \in Nat \ {0}
  BY TailIsFrom DEF QueueTypes, CodelDequeue
<1> DEFINE n == Len(internal_queue)
<1>2. CASE DequeueDropping(now)
  BY <1>2 DEF DequeueDropping
<1>3. CASE DequeueFirstDrop(now)
  <2>1. ~Low(1, now) /\ Pop(2)
    BY <1>3 DEF DequeueFirstDrop, ok_to_drop
  <2>2. Len(internal_queue) # 1
    BY <2>1 DEF Low
  <2>3. n \in Nat \ {0, 1}
    BY <1>1, <2>2
  <2> HIDE DEF n
  <2>4. 2 \in 1..n
    BY <2>3
  <2> QED BY <2>1, <2>4 DEF n
<1>4. CASE DequeueNoDrop(now)
  BY <1>1, <1>4 DEF DequeueNoDrop
<1> QED BY <1>2, <1>3, <1>4 DEF CodelDequeue

\* Every dequeue returns the head and removes it, CoDel's possibly with
\* packets that follow it.
LEMMA DequeueStep ==
    ASSUME QueueTypes, QueueDequeue
    PROVE  /\ internal_queue # <<>>
           /\ returned' = Head(internal_queue)
           /\ internal_queue' \in DequeueOutcomes(internal_queue,
                                                  Discipline = "codel")
           /\ internal_queue' \in Seq(Packets)
           /\ UNCHANGED queue_params
<1>1. UNCHANGED queue_params
  BY DEF QueueDequeue
<1>2. CASE Dequeue /\ Discipline # "codel"
  <2>1. /\ internal_queue # <<>>
        /\ returned' = Head(internal_queue)
        /\ internal_queue' = Tail(internal_queue)
    BY <1>2 DEF Dequeue
  <2>2. internal_queue' = From(internal_queue, 2)
        /\ Len(internal_queue) \in Nat \ {0}
    BY <2>1, TailIsFrom DEF QueueTypes
  <2>3. internal_queue' \in Seq(Packets)
    BY <2>2, FromProperties DEF QueueTypes
  <2> QED BY <1>1, <1>2, <2>1, <2>2, <2>3 DEF DequeueOutcomes
<1>3. CASE CodelDequeue(clock)
  <2>1. Discipline = "codel" /\ internal_queue # <<>>
    BY <1>3 DEF CodelDequeue
  <2>2. PICK k \in 1..Len(internal_queue) : Pop(k)
    BY <1>3, CodelStep
  <2>3. Len(internal_queue) \in Nat /\ k + 1 \in 2..(Len(internal_queue) + 1)
        /\ k + 1 \in 1..(Len(internal_queue) + 1)
    BY <2>2 DEF QueueTypes
  <2>4. returned' = Head(internal_queue)
        /\ internal_queue' = From(internal_queue, k + 1)
    BY <2>2 DEF Pop
  <2>5. internal_queue' \in Seq(Packets)
    BY <2>3, <2>4, FromProperties DEF QueueTypes
  <2> QED BY <1>1, <2>1, <2>3, <2>4, <2>5 DEF DequeueOutcomes
<1> QED
  BY <1>2, <1>3 DEF QueueDequeue, Passive, PieDequeue

\* All five disciplines, for every configuration and every behaviour of the
\* wall clock, implement the lossy FIFO that LinkQueue is specified against.
\* A queue that failed or hangs does nothing more, which the contract allows.
THEOREM ImplementsContract == QueuesSpec => IsLossyFifo
<1>1. QueuesInit => QueueTypes /\ Contract!Init
  BY DEF QueuesInit, Init, QueueTypes, Contract!Init
<1>2. QueueTypes /\ [QueuesNext]_queueVars
          => QueueTypes' /\ [Contract!Next]_(Contract!vars)
  <2> SUFFICES ASSUME QueueTypes, [QueuesNext]_queueVars
               PROVE  QueueTypes' /\ (Contract!Next \/ UNCHANGED Contract!vars)
    OBVIOUS
  <2>1. ASSUME NEW p \in Packets, QueueEnqueue(p)
        PROVE  QueueTypes' /\ Contract!Next
    <3>1. QueueTypes' /\ (Discipline = "codel")' = (Discipline = "codel")
      BY <2>1, EnqueueStep DEF QueueTypes, Discipline
    <3>2. Contract!Enqueue(p)
      BY <2>1, EnqueueStep, SameOutcomes DEF Contract!Enqueue
    <3> QED BY <3>1, <3>2 DEF Contract!Next
  <2>2. ASSUME QueueDequeue
        PROVE  QueueTypes' /\ Contract!Next
    <3>1. QueueTypes' /\ (Discipline = "codel")' = (Discipline = "codel")
      BY <2>2, DequeueStep DEF QueueTypes, Discipline
    <3>2. Contract!Dequeue
      BY <2>2, DequeueStep, SameOutcomes DEF Contract!Dequeue
    <3> QED BY <3>1, <3>2 DEF Contract!Next
  <2>3. ASSUME UNCHANGED <<queue_params, internal_queue, returned>>
        PROVE  QueueTypes' /\ UNCHANGED Contract!vars
    BY <2>3 DEF QueueTypes, Contract!vars, Discipline
  <2>4. CASE QueueHangs \/ Tick \/ StepBack \/ UNCHANGED queueVars
    BY <2>3, <2>4 DEF QueueHangs, PieHangs, Tick, StepBack, queueVars, vars
  <2> QED BY <2>1, <2>2, <2>4 DEF QueuesNext
<1> QED
  BY <1>1, <1>2, PTL DEF QueuesSpec, IsLossyFifo, Contract!Spec
-----------------------------------------------------------------------------
(* CoDel                                                                   *)

\* A state of the control law.
CodelRecord(c) ==
    /\ c = [first_above_time |-> c.first_above_time, drop_next |-> c.drop_next,
            count |-> c.count, lastcount |-> c.lastcount,
            dropping |-> c.dropping]
    /\ c.first_above_time \in Nat
    /\ c.drop_next \in Nat
    /\ c.count \in Nat /\ c.lastcount \in Nat /\ c.lastcount <= c.count
    /\ c.dropping \in BOOLEAN

\* The next drop is due at a natural time.
LEMMA ControlLawType ==
    ASSUME NEW t \in Nat, NEW count, interval \in Nat
    PROVE  control_law(t, count) \in Nat
<1> DEFINE D == {d \in 1..interval : d * d * count <= interval * interval}
<1>1. IsFiniteSet(1..interval)
  BY FS_Interval
<1>2. IsFiniteSet(D)
  <2>1. D \subseteq 1..interval
    OBVIOUS
  <2> HIDE DEF D
  <2> QED BY <1>1, <2>1, FS_Subset
<1> HIDE DEF D
<1>3. Cardinality(D) \in Nat
  BY <1>2, FS_CardinalityType
<1>4. control_law(t, count) = t + Cardinality(D)
  BY DEF control_law, D
<1> QED BY <1>3, <1>4

\* A call at now that has popped k packets did not shorten the interval after
\* which packets may be dropped: it began it anew, or no packet was low.
KeepsInterval(c, k, now) ==
    c.first_above_time # 0 =>
        \/ c.first_above_time = now + interval
        \/ /\ c.first_above_time = codel.first_above_time
           /\ \A j \in 1..k : ~Low(j, now)

\* A packet that is not low leaves two packets or more behind it, as one packet
\* alone is not larger than PACKET_SIZE.
LEMMA TwoBehind ==
    ASSUME IInv, NEW k \in 1..Len(internal_queue), NEW now, ~Low(k, now)
    PROVE  k + 1 < Len(internal_queue)
<1> DEFINE q == internal_queue
           rest == From(q, k + 1)
           gone == BytesIn(SubSeq(q, 1, k))
<1>1. q \in Seq(Packets) /\ Len(q) \in Nat /\ k \in Nat /\ k < Len(q)
  BY QueueFacts DEF Low
<1>2. k \in 0..Len(q) /\ k + 1 \in 1..(Len(q) + 1)
  BY <1>1
<1>3. /\ SubSeq(q, 1, k) \in Seq(Packets) /\ rest \in Seq(Packets)
      /\ BytesIn(q) = gone + BytesIn(rest)
  BY <1>1, <1>2, PacketsSized, BytesOfParts
<1>4. gone \in Nat /\ BytesIn(rest) \in Nat
  BY <1>3, PacketsSized, BytesType
<1>5. Len(rest) = Len(q) - (k + 1) + 1
  BY <1>1, <1>2, FromProperties
<1>6. BytesIn(q) - gone > PACKET_SIZE
  <2>1. ~(BytesLeft(k) <= PACKET_SIZE) /\ BytesLeft(k) = BytesIn(q) - gone
    BY QueueFacts DEF Low, BytesLeft
  <2> HIDE DEF gone, q, rest
  <2>2. BytesIn(q) - gone \in Int
    BY <1>3, <1>4
  <2> QED BY <2>1, <2>2, CodelAssumption
<1> HIDE DEF q, rest, gone
<1>7. BytesIn(rest) > PACKET_SIZE
  BY <1>3, <1>4, <1>6, CodelAssumption
<1>8. ASSUME k + 1 = Len(q) PROVE FALSE
  <2>1. Len(rest) = 1
    BY <1>1, <1>5, <1>8
  <2>2. 1 \in 1..Len(rest) /\ rest[1] \in Packets
    BY <1>3, <2>1
  <2>3. BytesUpTo(rest)[0] = 0 /\ BytesUpTo(rest)[1] = BytesUpTo(rest)[1 - 1] + rest[1].size
    BY <2>1, <2>2, BytesUnrolled
  <2>4. rest[1].size \in Nat /\ rest[1].size <= PACKET_SIZE
    BY <2>2, PacketAssumption, CodelAssumption
  <2>5. BytesIn(rest) = rest[1].size
    <3> DEFINE size == rest[1].size
    <3>1. BytesUpTo(rest)[1] = BytesUpTo(rest)[0] + size /\ 1 - 1 = 0
      BY <2>3
    <3>2. BytesIn(rest) = BytesUpTo(rest)[1]
      BY <2>1 DEF BytesIn
    <3>3. size \in Nat
      BY <2>4
    <3> HIDE DEF size
    <3>4. BytesUpTo(rest)[0] = 0
      BY <2>3
    <3>5. BytesIn(rest) = 0 + size
      BY <3>1, <3>2, <3>4
    <3>6. BytesIn(rest) = size
      BY <3>3, <3>5
    <3> QED BY <3>6 DEF size
  <2> QED BY <1>7, <2>4, <2>5, CodelAssumption
<1> QED BY <1>1, <1>8 DEF q

\* dodequeue changes nothing of the control law but first_above_time.
LEMMA dodequeueEffect ==
    ASSUME NEW c, CodelRecord(c), NEW k, NEW now \in Nat, interval \in Nat
    PROVE  /\ CodelRecord(dodequeue(c, k, now))
           /\ dodequeue(c, k, now).dropping = c.dropping
           /\ dodequeue(c, k, now).first_above_time =
                 IF Low(k, now) THEN 0
                 ELSE IF c.first_above_time = 0 THEN now + interval
                 ELSE c.first_above_time
<1> DEFINE above == IF Low(k, now) THEN 0
                    ELSE IF c.first_above_time = 0 THEN now + interval
                    ELSE c.first_above_time
           d == [first_above_time |-> above, drop_next |-> c.drop_next,
                 count |-> c.count, lastcount |-> c.lastcount,
                 dropping |-> c.dropping]
<1>1. above \in Nat
  BY DEF CodelRecord
<1>2. dodequeue(c, k, now) = d
  <2> HIDE DEF Low
  <2> QED BY DEF CodelRecord, dodequeue
<1> HIDE DEF above
<1>3. CodelRecord(d) /\ d.dropping = c.dropping /\ d.first_above_time = above
  BY <1>1 DEF CodelRecord
<1> QED BY <1>2, <1>3 DEF above

\* ... and does not shorten the interval.
LEMMA dodequeueKeepsInterval ==
    ASSUME NEW c, CodelRecord(c), NEW k \in Nat \ {0}, NEW now \in Nat,
           interval \in Nat, KeepsInterval(c, k - 1, now)
    PROVE  KeepsInterval(dodequeue(c, k, now), k, now)
<1> DEFINE d == dodequeue(c, k, now)
<1>1. d.first_above_time = IF Low(k, now) THEN 0
                           ELSE IF c.first_above_time = 0 THEN now + interval
                           ELSE c.first_above_time
  BY dodequeueEffect
<1> HIDE DEF d
<1>2. \A j \in 1..k : j = k \/ j \in 1..(k - 1)
  OBVIOUS
<1> QED BY <1>1, <1>2 DEF KeepsInterval, d

\* A round of the drop loop that goes on has popped a packet that is not low.
LEMMA DropOneEffect ==
    ASSUME NEW c, CodelRecord(c), NEW k, NEW now \in Nat, interval \in Nat
    PROVE  /\ CodelRecord(DropOne(c, k, now))
           /\ DropOne(c, k, now).dropping => ~Low(k, now)
           /\ DropOne(c, k, now).first_above_time
                 = dodequeue(c, k, now).first_above_time
<1> DEFINE d == dodequeue(c, k, now)
           popped == [d EXCEPT !.count = @ + 1]
           next == control_law(popped.drop_next, popped.count)
           more == d.count + 1
<1>1. CodelRecord(d)
  BY dodequeueEffect
<1> HIDE DEF d
<1>2. /\ CodelRecord(popped) /\ popped.first_above_time = d.first_above_time
  <2>1. popped = [first_above_time |-> d.first_above_time, drop_next |-> d.drop_next,
                  count |-> more, lastcount |-> d.lastcount,
                  dropping |-> d.dropping]
    BY <1>1 DEF CodelRecord
  <2>2. more \in Nat /\ d.lastcount <= more
    BY <1>1 DEF CodelRecord
  <2> HIDE DEF popped, more
  <2> QED BY <1>1, <2>1, <2>2 DEF CodelRecord
<1> HIDE DEF popped
<1>3. CASE ok_to_drop(c, k, now)
  <2>1. DropOne(c, k, now) = [popped EXCEPT !.drop_next = next]
    BY <1>3 DEF DropOne, popped, d
  <2>3. next \in Nat
    BY <1>2, ControlLawType DEF CodelRecord
  <2> HIDE DEF next
  <2>2. DropOne(c, k, now) =
            [first_above_time |-> popped.first_above_time, drop_next |-> next,
             count |-> popped.count, lastcount |-> popped.lastcount,
             dropping |-> popped.dropping]
    BY <1>2, <2>1 DEF CodelRecord
  <2> QED BY <1>2, <1>3, <2>2, <2>3 DEF CodelRecord, ok_to_drop, d
<1>4. CASE ~ok_to_drop(c, k, now)
  <2>1. DropOne(c, k, now) = [popped EXCEPT !.dropping = FALSE]
    BY <1>4 DEF DropOne, popped, d
  <2>2. DropOne(c, k, now) =
            [first_above_time |-> popped.first_above_time,
             drop_next |-> popped.drop_next,
             count |-> popped.count, lastcount |-> popped.lastcount,
             dropping |-> FALSE]
    BY <1>2, <2>1 DEF CodelRecord
  <2> QED BY <1>2, <2>2 DEF CodelRecord, d
<1> QED BY <1>3, <1>4

\* The control law after the first packet of the drop loop.
FirstOfLoop(now) == [dodequeue(codel, 1, now) EXCEPT
                        !.dropping = ok_to_drop(codel, 1, now)]

IsLoop(f, n, now) ==
    f = [k \in 1..n |-> IF k = 1 THEN FirstOfLoop(now)
                        ELSE DropOne(f[k - 1], k, now)]

\* The recursive definition of the drop loop has a solution.
LEMMA LoopExists ==
    ASSUME NEW now, NEW n \in Nat
    PROVE  \E f : IsLoop(f, n, now)
<1> DEFINE T == {m \in Nat : \E f : IsLoop(f, m, now)}
<1>1. 0 \in T
  <2>1. IsLoop([k \in 1..0 |-> 0], 0, now)
    BY DEF IsLoop
  <2> QED BY <2>1
<1>2. ASSUME NEW m \in T PROVE m + 1 \in T
  <2>1. PICK f : IsLoop(f, m, now)
    OBVIOUS
  <2>2. m \in Nat
    OBVIOUS
  <2> DEFINE n1 == m + 1
             last == IF n1 = 1 THEN FirstOfLoop(now) ELSE DropOne(f[m], n1, now)
             g == [k \in 1..n1 |-> IF k = n1 THEN last ELSE f[k]]
  <2>3. ASSUME NEW k \in 1..n1
        PROVE  g[k] = IF k = 1 THEN FirstOfLoop(now) ELSE DropOne(g[k - 1], k, now)
    <3>1. CASE k = n1
      <4>1. n1 = 1 \/ (n1 - 1 = m /\ m \in 1..n1 /\ m # n1)
        BY <2>2
      <4> QED BY <3>1, <4>1
    <3>2. CASE k # n1
      <4>1. k \in 1..m /\ (k = 1 \/ (k - 1 \in 1..n1 /\ k - 1 # n1))
        BY <2>2, <3>2
      <4>2. f[k] = IF k = 1 THEN FirstOfLoop(now) ELSE DropOne(f[k - 1], k, now)
        BY <2>1, <4>1 DEF IsLoop
      <4> QED BY <3>2, <4>1, <4>2
    <3> QED BY <3>1, <3>2
  <2>4. IsLoop(g, n1, now)
    BY <2>3 DEF IsLoop
  <2> QED BY <2>2, <2>4
<1>3. T \subseteq Nat
  OBVIOUS
<1> HIDE DEF T
<1>4. T = Nat
  BY <1>1, <1>2, <1>3, InductionOnNat
<1> QED BY <1>4 DEF T

\* The drop loop pops one packet after the other.
LEMMA LoopUnrolled ==
    ASSUME NEW now, Len(internal_queue) \in Nat
    PROVE  \A k \in 1..Len(internal_queue) :
              DropLoop(now)[k] = IF k = 1 THEN FirstOfLoop(now)
                                 ELSE DropOne(DropLoop(now)[k - 1], k, now)
<1> DEFINE f == DropLoop(now)
           n == Len(internal_queue)
<1>1. IsLoop(f, n, now)
  <2>1. \E g : IsLoop(g, n, now)
    BY LoopExists
  <2>2. f = CHOOSE g : IsLoop(g, n, now)
    BY DEF DropLoop, IsLoop, FirstOfLoop
  <2> QED BY <2>1, <2>2
<1> HIDE DEF f, n
<1>2. f = [k \in 1..n |-> IF k = 1 THEN FirstOfLoop(now)
                          ELSE DropOne(f[k - 1], k, now)]
  BY <1>1 DEF IsLoop
<1>3. \A k \in 1..n : f[k] = IF k = 1 THEN FirstOfLoop(now)
                             ELSE DropOne(f[k - 1], k, now)
  BY <1>2
<1> QED BY <1>3 DEF f, n

\* What holds of the control law after every round of the drop loop.
LoopRound(c, k, now) ==
    /\ CodelRecord(c)
    /\ KeepsInterval(c, k, now)
    /\ c.dropping => ~Low(k, now)

LEMMA LoopRounds ==
    ASSUME CodelRecord(codel), NEW now \in Nat, interval \in Nat,
           Len(internal_queue) \in Nat,
           NEW k \in 1..Len(internal_queue)
    PROVE  /\ LoopRound(DropLoop(now)[k], k, now)
           /\ k = 1 => DropLoop(now)[k].dropping = ok_to_drop(codel, 1, now)
<1> DEFINE n == Len(internal_queue)
           f == DropLoop(now)
           P(m) == /\ LoopRound(f[m], m, now)
                   /\ m = 1 => f[m].dropping = ok_to_drop(codel, 1, now)
           T == {m \in Nat : m \in 1..n => P(m)}
<1>1. \A m \in 1..n : f[m] = IF m = 1 THEN FirstOfLoop(now)
                             ELSE DropOne(f[m - 1], m, now)
  BY LoopUnrolled
<1> HIDE DEF f
<1>2. 0 \in T
  OBVIOUS
<1>3. ASSUME NEW m \in T PROVE m + 1 \in T
  <2> DEFINE m1 == m + 1
  <2>1. m \in Nat /\ (m \in 1..n => P(m)) /\ n \in Nat
    OBVIOUS
  <2>2. m1 \in Nat \ {0} /\ m1 - 1 = m
    BY <2>1
  <2> SUFFICES ASSUME m1 \in 1..n PROVE P(m1)
    BY <2>2
  <2>3. CASE m1 = 1
    <3> DEFINE d == dodequeue(codel, 1, now)
               ok == ok_to_drop(codel, 1, now)
    <3>1. CodelRecord(d)
      BY dodequeueEffect
    <3>2. KeepsInterval(d, 1, now)
      <4>1. KeepsInterval(codel, 1 - 1, now)
        BY DEF KeepsInterval
      <4>2. 1 \in Nat \ {0}
        OBVIOUS
      <4> QED BY <4>1, <4>2, dodequeueKeepsInterval
    <3>3. ok \in BOOLEAN /\ (ok => ~Low(1, now))
      BY DEF ok_to_drop
    <3>4. f[m1] = [d EXCEPT !.dropping = ok]
      BY <1>1, <2>3 DEF FirstOfLoop
    <3> HIDE DEF d, ok
    <3>5. f[m1] = [first_above_time |-> d.first_above_time,
                   drop_next |-> d.drop_next, count |-> d.count,
                   lastcount |-> d.lastcount, dropping |-> ok]
      BY <3>1, <3>4 DEF CodelRecord
    <3>6. CodelRecord(f[m1]) /\ f[m1].dropping = ok
          /\ f[m1].first_above_time = d.first_above_time
      BY <3>1, <3>3, <3>5 DEF CodelRecord
    <3>7. KeepsInterval(f[m1], 1, now)
      BY <3>2, <3>6 DEF KeepsInterval
    <3> QED BY <2>3, <3>3, <3>6, <3>7 DEF LoopRound, ok
  <2>4. CASE m1 # 1
    <3>1. m \in 1..n
      BY <2>1, <2>4
    <3> DEFINE c == f[m]
    <3>2. CodelRecord(c) /\ KeepsInterval(c, m1 - 1, now)
      BY <2>1, <2>2, <3>1 DEF LoopRound
    <3>3. f[m1] = DropOne(c, m1, now)
      BY <1>1, <2>2, <2>4
    <3> HIDE DEF c, m1
    <3>4. CodelRecord(f[m1]) /\ (f[m1].dropping => ~Low(m1, now))
          /\ f[m1].first_above_time = dodequeue(c, m1, now).first_above_time
      BY <3>2, <3>3, DropOneEffect
    <3>5. KeepsInterval(dodequeue(c, m1, now), m1, now)
      BY <2>2, <3>2, dodequeueKeepsInterval
    <3>6. KeepsInterval(f[m1], m1, now)
      BY <3>4, <3>5 DEF KeepsInterval
    <3> QED BY <2>4, <3>4, <3>6 DEF LoopRound
  <2> QED BY <2>3, <2>4
<1>4. T \subseteq Nat
  OBVIOUS
<1> HIDE DEF T
<1>5. T = Nat
  BY <1>2, <1>3, <1>4, InductionOnNat
<1>6. k \in Nat /\ k \in 1..n
  OBVIOUS
<1>7. P(k)
  <2>1. k \in T
    BY <1>5, <1>6
  <2> HIDE DEF P
  <2> QED BY <1>6, <2>1 DEF T
<1> QED BY <1>7 DEF f

\* What a dequeue of CoDel at now that pops k packets does: its asserts hold, and
\* if it drops a packet, then an interval has passed and a packet stays behind.
CodelEffect(k, now) ==
    /\ Pop(k)
    /\ CodelRecord(codel')
    /\ KeepsInterval(codel', k, now)
    /\ aborted' = FALSE
    /\ k # 1 => /\ k < Len(internal_queue)
                /\ codel.first_above_time # 0
                /\ codel.first_above_time <= now

\* The loop ends before the queue is empty.
LEMMA DroppingEffect ==
    ASSUME IInv, CodelRecord(codel), NEW now \in Nat, interval \in Nat,
           DequeueDropping(now), Discipline = "codel", internal_queue # <<>>,
           UNCHANGED queue_params
    PROVE  \E k \in 1..Len(internal_queue) : CodelEffect(k, now)
<1> DEFINE n == Len(internal_queue)
           after == DropLoop(now)
<1>1. PICK k \in 1..n : /\ \A j \in 1..(k - 1) : DropAgain(after[j], now)
                        /\ Pop(k)
                        /\ codel' = after[k]
                        /\ aborted' = (~good' \/ DropAgain(after[k], now))
                        /\ DropAgain(after[k], now) => k = n
  BY DEF DequeueDropping
<1>2. n \in Nat /\ k \in Nat
  BY <1>1, QueueFacts
<1>3. /\ LoopRound(after[k], k, now)
      /\ k = 1 => after[k].dropping = ok_to_drop(codel, 1, now)
  BY <1>2, LoopRounds
<1>4. ~DropAgain(after[k], now)
  BY <1>1, <1>3 DEF DropAgain, LoopRound, Low
<1>5. good'
  <2>1. aborted' \in BOOLEAN
    BY <1>1
  <2> QED BY <1>1, <2>1, PopKeepsIInv
<1>6. ASSUME k # 1
      PROVE  k < n /\ codel.first_above_time # 0 /\ codel.first_above_time <= now
  <2>1. k - 1 \in 1..(k - 1) /\ 1 \in 1..(k - 1) /\ k - 1 \in 1..n /\ 1 \in 1..n
    BY <1>1, <1>2, <1>6
  <2>2. after[1].dropping /\ after[k - 1].dropping
    BY <1>1, <2>1 DEF DropAgain
  <2>3. ok_to_drop(codel, 1, now)
    BY <1>2, <2>1, <2>2, LoopRounds
  <2>4. ~Low(k - 1, now)
    BY <1>2, <2>1, <2>2, LoopRounds DEF LoopRound
  <2>5. (k - 1) + 1 < n
    BY <2>1, <2>4, TwoBehind
  <2>6. k < n
    BY <1>2, <2>5
  <2> QED BY <2>3, <2>6 DEF ok_to_drop, CodelRecord
<1> QED BY <1>1, <1>3, <1>4, <1>5, <1>6 DEF CodelEffect, LoopRound

\* The first drop leaves a packet, too.
LEMMA FirstDropEffect ==
    ASSUME IInv, CodelRecord(codel), NEW now \in Nat, interval \in Nat,
           DequeueFirstDrop(now), Discipline = "codel", internal_queue # <<>>,
           UNCHANGED queue_params
    PROVE  2 \in 1..Len(internal_queue) /\ CodelEffect(2, now)
<1> DEFINE n == Len(internal_queue)
           one == dodequeue(codel, 1, now)
           two == dodequeue(one, 2, now)
           delta == codel.count - codel.lastcount
           recent == (now - codel.drop_next) % WordRange < 16 * interval
           count == IF delta > 1 /\ recent THEN delta ELSE 1
           next == control_law(now, count)
<1>1. ok_to_drop(codel, 1, now) /\ Pop(2) /\ aborted' = ~good'
      /\ codel' = [two EXCEPT !.dropping = TRUE, !.count = count,
                              !.lastcount = count, !.drop_next = next]
  BY DEF DequeueFirstDrop
<1>2. n \in Nat \ {0}
  BY QueueFacts, TailIsFrom
<1>3. 1 + 1 < n
  <2>1. ~Low(1, now) /\ 1 \in 1..n
    BY <1>1, <1>2 DEF ok_to_drop
  <2> QED BY <2>1, TwoBehind
<1>4. 2 \in 1..n /\ 2 < n
  BY <1>2, <1>3
<1>5. CodelRecord(one) /\ CodelRecord(two)
  BY dodequeueEffect
<1>6. KeepsInterval(two, 2, now)
  <2>1. KeepsInterval(codel, 1 - 1, now) /\ 1 \in Nat \ {0} /\ 2 \in Nat \ {0}
        /\ 2 - 1 = 1
    BY DEF KeepsInterval
  <2>2. KeepsInterval(one, 2 - 1, now)
    BY <2>1, dodequeueKeepsInterval
  <2> HIDE DEF one
  <2> QED BY <1>5, <2>1, <2>2, dodequeueKeepsInterval
<1>12. count \in Nat /\ next \in Nat
  <2>1. count \in Nat
    BY DEF CodelRecord
  <2> QED BY <2>1, ControlLawType
<1> HIDE DEF two, count, next
<1>7. codel' = [first_above_time |-> two.first_above_time, drop_next |-> next,
                count |-> count, lastcount |-> count, dropping |-> TRUE]
  BY <1>1, <1>5 DEF CodelRecord
<1>8. CodelRecord(codel') /\ codel'.first_above_time = two.first_above_time
  BY <1>5, <1>7, <1>12 DEF CodelRecord
<1>9. KeepsInterval(codel', 2, now)
  BY <1>6, <1>8 DEF KeepsInterval
<1>10. good'
  <2>1. aborted' \in BOOLEAN
    BY <1>1
  <2> QED BY <1>1, <1>4, <2>1, PopKeepsIInv
<1>11. codel.first_above_time # 0 /\ codel.first_above_time <= now
  BY <1>1 DEF ok_to_drop, CodelRecord
<1> QED BY <1>1, <1>4, <1>8, <1>9, <1>10, <1>11 DEF CodelEffect

\* All three ways through dequeue.
LEMMA CodelDequeueEffect ==
    ASSUME IInv, CodelRecord(codel), NEW now \in Nat, interval \in Nat,
           CodelDequeue(now), UNCHANGED queue_params
    PROVE  \E k \in 1..Len(internal_queue) : CodelEffect(k, now)
<1>1. Discipline = "codel" /\ internal_queue # <<>>
  BY DEF CodelDequeue
<1>2. CASE DequeueDropping(now)
  BY <1>1, <1>2, DroppingEffect
<1>3. CASE DequeueFirstDrop(now)
  BY <1>1, <1>3, FirstDropEffect
<1>4. CASE DequeueNoDrop(now)
  <2>1. codel' = dodequeue(codel, 1, now) /\ Pop(1) /\ aborted' = ~good'
    BY <1>4 DEF DequeueNoDrop
  <2>2. 1 \in 1..Len(internal_queue)
    BY <1>1, QueueFacts, TailIsFrom
  <2>3. CodelRecord(codel')
    BY <2>1, dodequeueEffect
  <2>4. KeepsInterval(codel', 1, now)
    <3>1. KeepsInterval(codel, 1 - 1, now) /\ 1 \in Nat \ {0}
      BY DEF KeepsInterval
    <3>2. KeepsInterval(dodequeue(codel, 1, now), 1, now)
      BY <3>1, dodequeueKeepsInterval
    <3> QED BY <2>1, <3>2
  <2>5. good'
    <3>1. aborted' \in BOOLEAN
      BY <2>1
    <3> QED BY <1>1, <2>1, <2>2, <3>1, PopKeepsIInv
  <2> QED BY <2>1, <2>2, <2>3, <2>4, <2>5 DEF CodelEffect
<1> QED BY <1>2, <1>3, <1>4 DEF CodelDequeue
-----------------------------------------------------------------------------
(* PIE                                                                     *)

\* Division of natural numbers.
LEMMA Quotient ==
    ASSUME NEW a \in Nat, NEW b \in Nat \ {0}
    PROVE  /\ a \div b \in Nat
           /\ (a \div b) * b <= a
           /\ a < (a \div b) * b + b
           /\ a \div b <= a
  OBVIOUS

\* A remainder.
LEMMA Remainder ==
    ASSUME NEW a \in Nat, NEW b \in Nat \ {0}
    PROVE  /\ a % b \in Nat
           /\ a % b <= a
           /\ a < b => a % b = a
  OBVIOUS

LEMMA RemainderOfInt ==
    ASSUME NEW a \in Int, NEW b \in Nat \ {0}
    PROVE  a % b \in Nat
  OBVIOUS

\* The types of PIE's state, and no probability without a rate.
PieRecord(s) ==
    /\ s \in [drop_prob : 0..Certain, burst_allowance : Nat, qdelay_old : Nat,
              current_qdelay : Nat, dq_count : Nat \cup {DQ_COUNT_INVALID},
              dq_tstamp : Nat, avg_dq_rate : Nat, last_update : Nat]
    /\ s.avg_dq_rate = 0 => s.drop_prob = 0

\* The updates that were missed are those that were due, and no other.
LEMMA MissedAreDue ==
    ASSUME NEW s, s.last_update \in Nat, NEW now \in Nat, s.last_update <= now
    PROVE  /\ Missed(s, now) \in Nat
           /\ s.last_update + Missed(s, now) * T_UPDATE <= now
           /\ now - s.last_update < UnsignedRange =>
                 now <= (s.last_update + Missed(s, now) * T_UPDATE) + T_UPDATE
<1> DEFINE x == now - s.last_update
           since == SinceUpdate(s, now)
           n == (since + T_UPDATE - 1) \div T_UPDATE
           m == Missed(s, now)
<1>1. x \in Nat /\ T_UPDATE \in Nat \ {0} /\ UnsignedRange \in Nat \ {0}
  BY PieAssumption
<1>2. since \in Nat /\ since <= x /\ (x < UnsignedRange => since = x)
  <2>1. since = x % UnsignedRange
    BY DEF SinceUpdate
  <2> HIDE DEF x, since
  <2> QED BY <1>1, <2>1, Remainder
<1> HIDE DEF since
<1>3. since + T_UPDATE - 1 \in Nat
  BY <1>1, <1>2
<1>4. n \in Nat /\ n * T_UPDATE <= since + T_UPDATE - 1
      /\ since + T_UPDATE - 1 < n * T_UPDATE + T_UPDATE
  <2> DEFINE a == since + T_UPDATE - 1
  <2>1. a \in Nat
    BY <1>3
  <2> HIDE DEF a
  <2>2. a \div T_UPDATE \in Nat /\ (a \div T_UPDATE) * T_UPDATE <= a
        /\ a < (a \div T_UPDATE) * T_UPDATE + T_UPDATE
    BY <1>1, <2>1, Quotient
  <2> QED BY <2>2 DEF a
<1>5. m = AtLeast(n, 1) - 1
  BY DEF Missed, since
<1> HIDE DEF n, m
<1>6. CASE n = 0
  <2>1. m = 0
    BY <1>5, <1>6 DEF AtLeast
  <2>2. m * T_UPDATE = 0
    BY <1>1, <2>1
  <2>3. since = 0
    BY <1>1, <1>2, <1>4, <1>6
  <2> QED BY <1>1, <1>2, <2>1, <2>2, <2>3 DEF m
<1>7. CASE n # 0
  <2>1. m = n - 1 /\ m \in Nat
    BY <1>4, <1>5, <1>7 DEF AtLeast
  <2> DEFINE nt == n * T_UPDATE
             mt == m * T_UPDATE
  <2>2. mt = nt - T_UPDATE /\ mt \in Nat /\ nt \in Nat
    BY <1>1, <1>4, <2>1
  <2>3. nt <= since + T_UPDATE - 1 /\ since + T_UPDATE - 1 < nt + T_UPDATE
    BY <1>4
  <2> HIDE DEF nt, mt
  <2>4. mt <= since /\ since <= mt + T_UPDATE
    BY <1>1, <1>2, <2>2, <2>3
  <2>5. s.last_update + mt <= now
        /\ (x < UnsignedRange => now <= (s.last_update + mt) + T_UPDATE)
    BY <1>1, <1>2, <2>2, <2>4
  <2> QED BY <2>1, <2>5 DEF mt, m
<1> QED BY <1>4, <1>6, <1>7

\* One round of calculate_drop_prob: without a rate the probability stays 0, and
\* a rate is forgotten only when the probability is 0.
LEMMA UpdateEffect ==
    ASSUME NEW s, PieRecord(s), NEW bytes \in Nat,
           qdelay_ref \in Nat \ {0}, max_burst \in Nat \ {0}
    PROVE  /\ PieRecord(Update(s, bytes))
           /\ Update(s, bytes).last_update = s.last_update + T_UPDATE
<1> DEFINE rate == s.avg_dq_rate
           qdelay == IF rate > 0 THEN bytes \div rate ELSE 0
           step == ProbStep(s.drop_prob, qdelay, s.current_qdelay)
           raised == s.drop_prob + step
           prob == AtLeast(AtMost(raised, Certain), 0)
           decays == /\ qdelay = 0 /\ s.current_qdelay = 0
                     /\ bytes = 0 /\ raised <= Certain
           new_prob == IF decays THEN (98 * prob) \div 100 ELSE prob
           allowance == AtLeast(s.burst_allowance - T_UPDATE, 0)
           updated_at == s.last_update + T_UPDATE
           next == [s EXCEPT !.qdelay_old = s.current_qdelay,
                             !.current_qdelay = qdelay,
                             !.drop_prob = new_prob,
                             !.burst_allowance = allowance,
                             !.last_update = updated_at]
<1>1. /\ rate \in Nat /\ s.drop_prob \in 0..Certain /\ s.current_qdelay \in Nat
      /\ s.burst_allowance \in Nat /\ s.last_update \in Nat
      /\ s.dq_count \in Nat \cup {DQ_COUNT_INVALID} /\ s.dq_tstamp \in Nat
      /\ rate = 0 => s.drop_prob = 0
      /\ T_UPDATE \in Nat \ {0}
  BY PieAssumption DEF PieRecord
<1>2. s = [drop_prob |-> s.drop_prob, burst_allowance |-> s.burst_allowance,
           qdelay_old |-> s.qdelay_old, current_qdelay |-> s.current_qdelay,
           dq_count |-> s.dq_count, dq_tstamp |-> s.dq_tstamp,
           avg_dq_rate |-> rate, last_update |-> s.last_update]
  BY DEF PieRecord
<1>3. qdelay \in Nat /\ (rate = 0 => qdelay = 0)
  <2>1. CASE rate > 0
    BY <1>1, <2>1, Quotient
  <2>2. CASE rate = 0
    BY <2>2
  <2> QED BY <1>1, <2>1, <2>2
<1>4. step \in Int /\ (rate = 0 => step <= 0)
  <2> DEFINE change == (qdelay - qdelay_ref) + 10 * (qdelay - s.current_qdelay)
             factor == IF 100 * s.drop_prob < Certain THEN 1
                       ELSE IF 10 * s.drop_prob < Certain THEN 4 ELSE 8
  <2>1. step = change * factor
    BY DEF ProbStep
  <2>2. factor \in {1, 4, 8}
    OBVIOUS
  <2> HIDE DEF qdelay
  <2>3. change \in Int /\ (rate = 0 => change <= 0)
    BY <1>1, <1>3
  <2> HIDE DEF step, change, factor
  <2> QED BY <2>1, <2>2, <2>3
<1> HIDE DEF step, qdelay
<1>5. prob \in 0..Certain /\ (rate = 0 => prob = 0)
  <2> DEFINE capped == AtMost(raised, Certain)
  <2>1. raised \in Int /\ (rate = 0 => raised <= 0)
    BY <1>1, <1>4
  <2> HIDE DEF raised, rate
  <2>2. capped \in Int /\ capped <= Certain /\ (rate = 0 => capped <= 0)
    BY <2>1 DEF AtMost, Certain
  <2> HIDE DEF capped
  <2> QED BY <2>2 DEF AtLeast, capped, Certain
<1> HIDE DEF prob, decays
<1>6. new_prob \in 0..Certain /\ (rate = 0 => new_prob = 0)
  <2>1. 98 * prob \in Nat /\ 100 \in Nat \ {0}
    BY <1>5 DEF Certain
  <2> DEFINE most == 98 * prob
  <2>2. (prob = 0 => most = 0) /\ most \in Nat
    BY <1>5
  <2> HIDE DEF most
  <2>3. most \div 100 \in Nat /\ most \div 100 <= most
    BY <2>1, <2>2, Quotient
  <2>4. most = 0 => most \div 100 = 0
    BY <2>2, <2>3
  <2>5. most \div 100 <= Certain
    <3> DEFINE n == most \div 100
    <3>1. n \in Nat /\ n * 100 <= most /\ most = 98 * prob
      BY <2>1, <2>2, Quotient DEF most
    <3> HIDE DEF n
    <3>2. n <= prob
      BY <1>5, <3>1 DEF Certain
    <3> QED BY <1>5, <3>1, <3>2 DEF n, Certain
  <2> QED BY <1>5, <2>2, <2>3, <2>4, <2>5 DEF most, Certain
<1>7. allowance \in Nat /\ updated_at \in Nat
  BY <1>1 DEF AtLeast
<1> HIDE DEF new_prob, allowance, updated_at, rate
<1>8. next = [drop_prob |-> new_prob, burst_allowance |-> allowance,
              qdelay_old |-> s.current_qdelay, current_qdelay |-> qdelay,
              dq_count |-> s.dq_count, dq_tstamp |-> s.dq_tstamp,
              avg_dq_rate |-> rate, last_update |-> updated_at]
  <2> DEFINE p0 == s.drop_prob
             b0 == s.burst_allowance
             o0 == s.qdelay_old
             q0 == s.current_qdelay
             c0 == s.dq_count
             t0 == s.dq_tstamp
             u0 == s.last_update
  <2>1. s = [drop_prob |-> p0, burst_allowance |-> b0, qdelay_old |-> o0,
             current_qdelay |-> q0, dq_count |-> c0, dq_tstamp |-> t0,
             avg_dq_rate |-> rate, last_update |-> u0]
    BY <1>2
  <2>2. next = [s EXCEPT !.qdelay_old = q0, !.current_qdelay = qdelay,
                         !.drop_prob = new_prob, !.burst_allowance = allowance,
                         !.last_update = updated_at]
    OBVIOUS
  <2> HIDE DEF p0, b0, o0, q0, c0, t0, u0, next
  <2>3. next = [drop_prob |-> new_prob, burst_allowance |-> allowance,
                qdelay_old |-> q0, current_qdelay |-> qdelay,
                dq_count |-> c0, dq_tstamp |-> t0,
                avg_dq_rate |-> rate, last_update |-> updated_at]
    BY <2>1, <2>2
  <2> QED BY <2>3 DEF q0, c0, t0
<1> HIDE DEF next
<1>9. PieRecord(next) /\ next.last_update = updated_at
  BY <1>1, <1>3, <1>6, <1>7, <1>8 DEF PieRecord
<1>10. CASE ForgetsRate(next)
  <2>1. Update(s, bytes) = [next EXCEPT !.dq_count = DQ_COUNT_INVALID,
                                        !.avg_dq_rate = 0,
                                        !.burst_allowance = max_burst]
    BY <1>10 DEF Update, next, new_prob, allowance, updated_at, decays, prob,
                 step, qdelay, rate
  <2>2. Update(s, bytes) =
           [drop_prob |-> new_prob, burst_allowance |-> max_burst,
            qdelay_old |-> s.current_qdelay, current_qdelay |-> qdelay,
            dq_count |-> DQ_COUNT_INVALID, dq_tstamp |-> s.dq_tstamp,
            avg_dq_rate |-> 0, last_update |-> updated_at]
    BY <1>8, <2>1
  <2>3. new_prob = 0
    BY <1>8, <1>10 DEF ForgetsRate
  <2>4. max_burst \in Nat
    OBVIOUS
  <2>5. PieRecord(Update(s, bytes)) /\ Update(s, bytes).last_update = updated_at
    BY <1>1, <1>3, <1>6, <1>7, <2>2, <2>3, <2>4 DEF PieRecord
  <2> QED BY <2>5 DEF updated_at
<1>11. CASE ~ForgetsRate(next)
  <2>1. Update(s, bytes) = next
    BY <1>11 DEF Update, next, new_prob, allowance, updated_at, decays, prob,
                 step, qdelay, rate
  <2> QED BY <1>9, <2>1 DEF updated_at
<1> QED BY <1>10, <1>11

IsUpdated(f, s, bytes, n) ==
    f = [k \in 0..n |-> IF k = 0 THEN s ELSE Update(f[k - 1], bytes)]

\* The recursive definition of the loop of calculate_drop_prob has a solution.
LEMMA UpdatedExists ==
    ASSUME NEW s, NEW bytes, NEW n \in Nat
    PROVE  \E f : IsUpdated(f, s, bytes, n)
<1> DEFINE T == {m \in Nat : \E f : IsUpdated(f, s, bytes, m)}
<1>1. 0 \in T
  <2>1. IsUpdated([k \in 0..0 |-> s], s, bytes, 0)
    BY DEF IsUpdated
  <2> QED BY <2>1
<1>2. ASSUME NEW m \in T PROVE m + 1 \in T
  <2>1. PICK f : IsUpdated(f, s, bytes, m)
    OBVIOUS
  <2>2. m \in Nat
    OBVIOUS
  <2> DEFINE n1 == m + 1
             g == [k \in 0..n1 |-> IF k = n1 THEN Update(f[m], bytes) ELSE f[k]]
  <2>3. ASSUME NEW k \in 0..n1
        PROVE  g[k] = IF k = 0 THEN s ELSE Update(g[k - 1], bytes)
    <3>1. CASE k = n1
      <4>1. n1 - 1 = m /\ m \in 0..n1 /\ m # n1 /\ n1 # 0
        BY <2>2
      <4> QED BY <3>1, <4>1
    <3>2. CASE k # n1
      <4>1. k \in 0..m /\ (k = 0 \/ (k - 1 \in 0..n1 /\ k - 1 # n1))
        BY <2>2, <3>2
      <4>2. f[k] = IF k = 0 THEN s ELSE Update(f[k - 1], bytes)
        BY <2>1, <4>1 DEF IsUpdated
      <4> QED BY <3>2, <4>1, <4>2
    <3> QED BY <3>1, <3>2
  <2>4. IsUpdated(g, s, bytes, n1)
    BY <2>3 DEF IsUpdated
  <2> QED BY <2>2, <2>4
<1>3. T \subseteq Nat
  OBVIOUS
<1> HIDE DEF T
<1>4. T = Nat
  BY <1>1, <1>2, <1>3, InductionOnNat
<1> QED BY <1>4 DEF T

\* calculate_drop_prob runs the round once for every update that was missed.
LEMMA CalculateEffect ==
    ASSUME NEW s, PieRecord(s), NEW bytes \in Nat, NEW now \in Nat,
           s.last_update <= now,
           qdelay_ref \in Nat \ {0}, max_burst \in Nat \ {0}
    PROVE  /\ PieRecord(calculate_drop_prob(s, bytes, now))
           /\ calculate_drop_prob(s, bytes, now).last_update
                 = s.last_update + Missed(s, now) * T_UPDATE
<1> DEFINE n == Missed(s, now)
           f == CHOOSE g : IsUpdated(g, s, bytes, n)
           P(m) == /\ PieRecord(f[m])
                   /\ f[m].last_update = s.last_update + m * T_UPDATE
           T == {m \in Nat : m <= n => P(m)}
<1>1. n \in Nat /\ T_UPDATE \in Nat \ {0} /\ s.last_update \in Nat
  BY MissedAreDue, PieAssumption DEF PieRecord
<1>2. calculate_drop_prob(s, bytes, now) = f[n]
  BY DEF calculate_drop_prob, IsUpdated
<1> HIDE DEF n
<1>3. IsUpdated(f, s, bytes, n)
  BY <1>1, UpdatedExists
<1> HIDE DEF f
<1>4. \A k \in 0..n : f[k] = IF k = 0 THEN s ELSE Update(f[k - 1], bytes)
  <2>1. f = [k \in 0..n |-> IF k = 0 THEN s ELSE Update(f[k - 1], bytes)]
    BY <1>3 DEF IsUpdated
  <2> QED BY <2>1
<1>5. 0 \in T
  <2>1. 0 \in 0..n
    BY <1>1
  <2>2. f[0] = s
    BY <1>4, <2>1
  <2>3. s.last_update = s.last_update + 0 * T_UPDATE
    BY <1>1
  <2> QED BY <2>2, <2>3
<1>6. ASSUME NEW m \in T PROVE m + 1 \in T
  <2> DEFINE m1 == m + 1
  <2>1. m \in Nat /\ (m <= n => P(m))
    OBVIOUS
  <2>2. m1 \in Nat /\ m1 # 0 /\ m1 - 1 = m /\ m1 = m + 1
    BY <2>1
  <2> HIDE DEF m1
  <2> SUFFICES ASSUME m1 <= n PROVE P(m1)
    BY <2>2
  <2>3. m1 \in 0..n /\ m <= n
    BY <1>1, <2>1, <2>2
  <2> DEFINE c == f[m]
  <2>4. PieRecord(c) /\ c.last_update = s.last_update + m * T_UPDATE
    BY <2>1, <2>3
  <2>5. f[m1] = Update(c, bytes)
    BY <1>4, <2>2, <2>3
  <2> HIDE DEF c
  <2>6. PieRecord(f[m1]) /\ f[m1].last_update = c.last_update + T_UPDATE
    BY <2>4, <2>5, UpdateEffect
  <2>7. (s.last_update + m * T_UPDATE) + T_UPDATE = s.last_update + m1 * T_UPDATE
    BY <1>1, <2>1, <2>2
  <2> QED BY <2>4, <2>6, <2>7
<1>7. T \subseteq Nat
  OBVIOUS
<1> HIDE DEF T
<1>8. T = Nat
  BY <1>5, <1>6, <1>7, InductionOnNat
<1>9. P(n)
  <2>1. n \in T /\ n <= n
    BY <1>1, <1>8
  <2> HIDE DEF P
  <2> QED BY <2>1 DEF T
<1> QED BY <1>2, <1>9 DEF n

\* Measuring the departure rate does not make a known rate unknown, and leaves
\* the probability and the time of the last update alone.
LEMMA MeasureEffect ==
    ASSUME NEW s, PieRecord(s), NEW size \in Nat, NEW bytes \in Nat,
           NEW now \in Nat
    PROVE  /\ PieRecord(MeasureRate(s, size, bytes, now))
           /\ MeasureRate(s, size, bytes, now).last_update = s.last_update
<1> DEFINE begins == bytes >= DQ_THRESHOLD /\ s.dq_count = DQ_COUNT_INVALID
           begun == IF begins
                    THEN [s EXCEPT !.dq_tstamp = now, !.dq_count = 0] ELSE s
           count == begun.dq_count + size
           dtime == (now - begun.dq_tstamp) % UnsignedRange
           rate == count \div dtime
           r == MeasureRate(s, size, bytes, now)
           invalid == begun.dq_count = DQ_COUNT_INVALID
           short == count <= DQ_THRESHOLD \/ dtime = 0
           new_rate == IF begun.avg_dq_rate = 0 THEN rate
                       ELSE (begun.avg_dq_rate - (begun.avg_dq_rate \div 8))
                               + (rate \div 8)
           new_count == IF bytes < DQ_THRESHOLD THEN DQ_COUNT_INVALID ELSE 0
           new_tstamp == IF bytes < DQ_THRESHOLD THEN begun.dq_tstamp ELSE now
           allowance == AtLeast(begun.burst_allowance - dtime, 0)
<1>1. /\ PieRecord(begun) /\ begun.last_update = s.last_update
  <2>1. CASE begins
    <3> DEFINE p0 == s.drop_prob
               b0 == s.burst_allowance
               o0 == s.qdelay_old
               q0 == s.current_qdelay
               a0 == s.avg_dq_rate
               u0 == s.last_update
               c0 == s.dq_count
               t0 == s.dq_tstamp
    <3>1. s = [drop_prob |-> p0, burst_allowance |-> b0, qdelay_old |-> o0,
               current_qdelay |-> q0, dq_count |-> c0,
               dq_tstamp |-> t0, avg_dq_rate |-> a0, last_update |-> u0]
      BY DEF PieRecord
    <3>2. p0 \in 0..Certain /\ b0 \in Nat /\ o0 \in Nat /\ q0 \in Nat /\ a0 \in Nat
          /\ u0 \in Nat /\ (a0 = 0 => p0 = 0)
      BY DEF PieRecord
    <3>3. begun = [s EXCEPT !.dq_tstamp = now, !.dq_count = 0]
      BY <2>1
    <3> HIDE DEF p0, b0, o0, q0, a0, c0, t0, u0, begun
    <3>4. begun = [drop_prob |-> p0, burst_allowance |-> b0, qdelay_old |-> o0,
                   current_qdelay |-> q0, dq_count |-> 0, dq_tstamp |-> now,
                   avg_dq_rate |-> a0, last_update |-> u0]
      BY <3>1, <3>3
    <3>5. PieRecord(begun) /\ begun.last_update = u0
      BY <3>2, <3>4 DEF PieRecord
    <3> QED BY <3>5 DEF u0
  <2>2. CASE ~begins
    BY <2>2
  <2> QED BY <2>1, <2>2
<1>2. r = IF invalid THEN begun
          ELSE IF short THEN [begun EXCEPT !.dq_count = count]
          ELSE [begun EXCEPT !.avg_dq_rate = new_rate, !.dq_count = new_count,
                             !.dq_tstamp = new_tstamp,
                             !.burst_allowance = allowance]
  BY DEF MeasureRate
<1> HIDE DEF begun, r
<1> DEFINE p0 == begun.drop_prob
           b0 == begun.burst_allowance
           o0 == begun.qdelay_old
           q0 == begun.current_qdelay
           a0 == begun.avg_dq_rate
           u0 == begun.last_update
           c0 == begun.dq_count
           t0 == begun.dq_tstamp
<1>3. begun = [drop_prob |-> p0, burst_allowance |-> b0, qdelay_old |-> o0,
               current_qdelay |-> q0, dq_count |-> c0, dq_tstamp |-> t0,
               avg_dq_rate |-> a0, last_update |-> u0]
  BY <1>1 DEF PieRecord
<1>4. p0 \in 0..Certain /\ b0 \in Nat /\ o0 \in Nat /\ q0 \in Nat /\ a0 \in Nat
      /\ u0 \in Nat /\ c0 \in Nat \cup {DQ_COUNT_INVALID} /\ t0 \in Nat
      /\ (a0 = 0 => p0 = 0)
  BY <1>1 DEF PieRecord
<1>5. (~invalid => count \in Nat) /\ dtime \in Nat
  <2>1. now - t0 \in Int /\ UnsignedRange \in Nat \ {0}
    BY <1>4, PieAssumption
  <2> HIDE DEF t0
  <2>2. (now - t0) % UnsignedRange \in Nat
    BY <2>1, RemainderOfInt
  <2> QED BY <1>4, <2>2 DEF t0
<1>6. CASE invalid
  BY <1>1, <1>2, <1>6 DEF r
<1>7. CASE ~invalid /\ short
  <2>1. r = [begun EXCEPT !.dq_count = count]
    BY <1>2, <1>7
  <2> HIDE DEF count, p0, b0, o0, q0, a0, c0, t0, u0
  <2>2. r = [drop_prob |-> p0, burst_allowance |-> b0, qdelay_old |-> o0,
             current_qdelay |-> q0, dq_count |-> count, dq_tstamp |-> t0,
             avg_dq_rate |-> a0, last_update |-> u0]
    BY <1>3, <2>1
  <2>3. count \in Nat
    BY <1>5, <1>7
  <2>4. PieRecord(r) /\ r.last_update = u0
    BY <1>4, <2>2, <2>3 DEF PieRecord
  <2> QED BY <1>1, <2>4 DEF r, u0
<1>8. CASE ~invalid /\ ~short
  <2>1. r = [begun EXCEPT !.avg_dq_rate = new_rate, !.dq_count = new_count,
                          !.dq_tstamp = new_tstamp,
                          !.burst_allowance = allowance]
    BY <1>2, <1>8
  <2>2. new_rate \in Nat /\ (new_rate = 0 => a0 = 0)
    <3>1. count \in Nat /\ dtime \in Nat \ {0}
      BY <1>5, <1>8, PieAssumption
    <3> HIDE DEF count, dtime, a0
    <3>2. rate \in Nat
      BY <3>1, Quotient
    <3> HIDE DEF rate
    <3>3. 8 \in Nat \ {0} /\ rate \div 8 \in Nat
      BY <3>2, Quotient
    <3>4. a0 \div 8 \in Nat /\ (a0 \div 8) * 8 <= a0
      BY <1>4, <3>3, Quotient
    <3>5. a0 # 0 => a0 - (a0 \div 8) \in Nat \ {0}
      BY <1>4, <3>4
    <3>6. new_rate = IF a0 = 0 THEN rate ELSE (a0 - (a0 \div 8)) + (rate \div 8)
      BY DEF a0
    <3> HIDE DEF new_rate
    <3>7. CASE a0 = 0
      BY <3>2, <3>6, <3>7
    <3>8. CASE a0 # 0
      <4> DEFINE kept == a0 - (a0 \div 8)
                 added == rate \div 8
      <4>1. kept \in Nat \ {0} /\ added \in Nat /\ new_rate = kept + added
        BY <3>3, <3>5, <3>6, <3>8
      <4> HIDE DEF kept, added
      <4> QED BY <4>1
    <3> QED BY <3>7, <3>8
  <2>3. new_count \in Nat \cup {DQ_COUNT_INVALID} /\ new_tstamp \in Nat
        /\ allowance \in Nat
    BY <1>4, <1>5 DEF AtLeast
  <2> HIDE DEF new_rate, new_count, new_tstamp, allowance, p0, b0, o0, q0, a0, c0,
               t0, u0
  <2>4. r = [drop_prob |-> p0, burst_allowance |-> allowance, qdelay_old |-> o0,
             current_qdelay |-> q0, dq_count |-> new_count,
             dq_tstamp |-> new_tstamp, avg_dq_rate |-> new_rate,
             last_update |-> u0]
    BY <1>3, <2>1
  <2>5. PieRecord(r) /\ r.last_update = u0
    BY <1>4, <2>2, <2>3, <2>4 DEF PieRecord
  <2> QED BY <1>1, <2>5 DEF r, u0
<1> QED BY <1>6, <1>7, <1>8 DEF r
-----------------------------------------------------------------------------
(* All five disciplines with a clock that may be set back                  *)

\* Until the clock is set back, no recorded time lies ahead of it.
TimesPast ==
    ~history.stepped_back => history.low_at <= clock /\ pie.last_update <= clock

\* Until the clock is set back, an interval that is running began when the queue
\* was low for the last time, or later.
IntervalSinceLow ==
    Discipline = "codel" /\ ~history.stepped_back /\ codel.first_above_time # 0
        => history.low_at + interval <= codel.first_above_time

ControlTypes ==
    /\ CodelRecord(codel)
    /\ PieRecord(pie)
    /\ clock \in Nat /\ clock < UnsignedRange
    /\ history \in [low_at : Nat, stepped_back : BOOLEAN]

QueuesInv ==
    IInv /\ ControlTypes /\ TimesPast /\ IntervalSinceLow /\ FailsOnlyAsKnown

\* The parameters of the two control laws.
LEMMA ControlParams ==
    ASSUME IInv
    PROVE  /\ Discipline = "codel" => interval \in Nat \ {0}
           /\ Discipline = "pie" => /\ qdelay_ref \in Nat \ {0}
                                    /\ max_burst \in Nat \ {0}
  BY CodelAssumption, PieAssumption DEF IInv, TypeOK, Discipline, interval,
     qdelay_ref, max_burst

\* A new queue of any discipline.
LEMMA InitQueuesInv == QueuesInit => QueuesInv
<1> SUFFICES ASSUME QueuesInit PROVE QueuesInv
  OBVIOUS
<1>1. IInv
  BY InitIInv DEF QueuesInit
<1>2. CodelRecord(codel) /\ codel.first_above_time = 0
  BY DEF QueuesInit, CodelInit, CodelRecord
<1>3. PieRecord(pie) /\ pie.last_update = Epoch
  BY TimeAssumption DEF QueuesInit, PieInit, PieRecord, DQ_COUNT_INVALID, Certain
<1>4. clock = Epoch /\ history \in [low_at : Nat, stepped_back : BOOLEAN]
      /\ history.low_at = Epoch
  BY TimeAssumption DEF QueuesInit
<1>5. ControlTypes
  BY <1>2, <1>3, <1>4, TimeAssumption DEF ControlTypes
<1>6. TimesPast
  BY <1>3, <1>4, TimeAssumption DEF TimesPast
<1>7. IntervalSinceLow
  BY <1>2 DEF IntervalSinceLow
<1>8. FailsOnlyAsKnown
  BY DEF QueuesInit, Init, FailsOnlyAsKnown
<1> QED BY <1>1, <1>5, <1>6, <1>7, <1>8 DEF QueuesInv

\* What every step of PIE that returns does to its state.
LEMMA PieKeepsPace ==
    ASSUME QueuesInv, Discipline = "pie", ~Stuck(pie, clock),
           NEW s, PieRecord(s), s.last_update = pie.last_update,
           NEW bytes \in Nat,
           pie' = calculate_drop_prob(s, bytes, clock)
    PROVE  /\ PieRecord(pie')
           /\ pie'.last_update <= clock
           /\ clock <= pie'.last_update + T_UPDATE
<1> DEFINE n == Missed(s, clock)
           nt == n * T_UPDATE
<1>1. s.last_update \in Nat /\ clock \in Nat /\ clock < UnsignedRange
      /\ s.last_update <= clock
  BY DEF QueuesInv, ControlTypes, PieRecord, Stuck
<1>2. PieRecord(pie') /\ pie'.last_update = s.last_update + nt
  BY <1>1, CalculateEffect, ControlParams DEF QueuesInv
<1>3. s.last_update + nt <= clock
      /\ (clock - s.last_update < UnsignedRange
             => clock <= (s.last_update + nt) + T_UPDATE)
  BY <1>1, MissedAreDue
<1>4. clock - s.last_update < UnsignedRange
  BY <1>1, PieAssumption
<1> QED BY <1>2, <1>3, <1>4

\* An enqueue of any discipline.
LEMMA QueueEnqueueKeepsInv ==
    ASSUME QueuesInv, NEW p \in Packets, QueueEnqueue(p)
    PROVE  QueuesInv'
<1>1. UNCHANGED <<queue_params, clock, history>>
  BY DEF QueueEnqueue
<1>2. CASE Enqueue(p) /\ UNCHANGED <<codel, pie>>
  <2>1. IInv'
    BY <1>1, <1>2, EnqueueKeepsIInv DEF QueuesInv
  <2>2. FailsOnlyAsKnown'
    <3>1. CASE Discipline = "drophead" /\ byte_limit > 0
      BY <1>1, <3>1 DEF FailsOnlyAsKnown, Discipline, byte_limit
    <3>2. CASE ~(Discipline = "drophead" /\ byte_limit > 0)
      <4>1. ~aborted /\ (Discipline = "drophead" => byte_limit = 0)
        BY <1>2, <3>2, QueueFacts DEF Enqueue, QueuesInv
      <4>2. ~aborted'
        BY <1>2, <4>1, EnqueueDoesNotAbort DEF QueuesInv
      <4> QED BY <4>2 DEF FailsOnlyAsKnown
    <3> QED BY <3>1, <3>2
  <2>3. ControlTypes' /\ TimesPast' /\ IntervalSinceLow'
    BY <1>1, <1>2 DEF QueuesInv, ControlTypes, TimesPast, IntervalSinceLow,
                      Discipline, interval, CodelRecord, PieRecord
  <2> QED BY <2>1, <2>2, <2>3 DEF QueuesInv
<1>3. ASSUME Discipline \in {"codel", "pie"},
             \/ /\ good_with(queue_size_in_bytes + p.size, queue_size_in_packets + 1)
                /\ accept(p)
             \/ UNCHANGED vars
      PROVE  IInv' /\ FailsOnlyAsKnown'
  <2>1. UNCHANGED aborted
    BY <1>3 DEF accept, vars
  <2>2. FailsOnlyAsKnown'
    BY <1>1, <2>1 DEF QueuesInv, FailsOnlyAsKnown, Discipline, byte_limit
  <2>3. IInv'
    <3>1. CASE UNCHANGED vars
      BY <3>1 DEF QueuesInv, IInv, TypeOK, HeldWithinLimits, good_with, vars,
                  Discipline, byte_limit, packet_limit
    <3> QED BY <1>1, <1>3, <3>1, AcceptKeepsIInv DEF QueuesInv
  <2> QED BY <2>2, <2>3
<1>4. CASE CodelEnqueue(p) /\ UNCHANGED pie
  <2>1. IInv' /\ FailsOnlyAsKnown' /\ UNCHANGED codel
    BY <1>3, <1>4 DEF CodelEnqueue
  <2>2. ControlTypes' /\ TimesPast' /\ IntervalSinceLow'
    BY <1>1, <1>4, <2>1 DEF QueuesInv, ControlTypes, TimesPast, IntervalSinceLow,
                            Discipline, interval, CodelRecord, PieRecord
  <2> QED BY <2>1, <2>2 DEF QueuesInv
<1>5. CASE PieEnqueue(p, clock) /\ UNCHANGED codel
  <2>1. Discipline = "pie" /\ ~Stuck(pie, clock)
        /\ pie' = calculate_drop_prob(pie, queue_size_in_bytes, clock)
    BY <1>5 DEF PieEnqueue
  <2>2. queue_size_in_bytes \in Nat /\ PieRecord(pie)
    BY QueueFacts DEF QueuesInv, ControlTypes
  <2>3. PieRecord(pie') /\ pie'.last_update <= clock
    BY <2>1, <2>2, PieKeepsPace
  <2>4. IInv' /\ FailsOnlyAsKnown'
    BY <1>3, <1>5, <2>1 DEF PieEnqueue
  <2>5. ControlTypes'
    BY <1>1, <1>5, <2>3 DEF QueuesInv, ControlTypes, CodelRecord, PieRecord
  <2>6. TimesPast'
    BY <1>1, <2>3 DEF QueuesInv, TimesPast
  <2>7. IntervalSinceLow'
    BY <1>1, <2>1 DEF IntervalSinceLow, Discipline
  <2> QED BY <2>4, <2>5, <2>6, <2>7 DEF QueuesInv
<1> QED BY <1>2, <1>4, <1>5 DEF QueueEnqueue

\* A dequeue of CoDel, with the time of the last low packet.
LEMMA CodelKeepsInv ==
    ASSUME QueuesInv, CodelDequeue(clock), UNCHANGED <<queue_params, clock, pie>>,
           history' = IF \E k \in 1..(Len(internal_queue) - Len(internal_queue')) :
                             Low(k, clock)
                      THEN [history EXCEPT !.low_at = clock] ELSE history
    PROVE  QueuesInv'
<1>1. Discipline = "codel" /\ IInv /\ CodelRecord(codel) /\ clock \in Nat
      /\ history \in [low_at : Nat, stepped_back : BOOLEAN]
  BY DEF CodelDequeue, QueuesInv, ControlTypes
<1>2. interval \in Nat
  BY <1>1, ControlParams
<1>3. PICK k \in 1..Len(internal_queue) : CodelEffect(k, clock)
  BY <1>1, <1>2, CodelDequeueEffect
<1>4. /\ Pop(k) /\ CodelRecord(codel') /\ KeepsInterval(codel', k, clock)
      /\ aborted' = FALSE
  BY <1>3 DEF CodelEffect
<1>5. IInv' /\ Len(internal_queue') = Len(internal_queue) - k
  BY <1>1, <1>3, <1>4, PopKeepsIInv
<1>6. Len(internal_queue) - Len(internal_queue') = k
  BY <1>3, <1>5, QueueFacts DEF QueuesInv
<1> DEFINE low == \E j \in 1..k : Low(j, clock)
<1>7. /\ history' \in [low_at : Nat, stepped_back : BOOLEAN]
      /\ history'.stepped_back = history.stepped_back
      /\ history'.low_at = IF low THEN clock ELSE history.low_at
  <2>1. history' = IF low THEN [history EXCEPT !.low_at = clock] ELSE history
    BY <1>6
  <2> HIDE DEF low
  <2> QED BY <1>1, <2>1
<1>8. ControlTypes'
  BY <1>4, <1>7 DEF QueuesInv, ControlTypes, CodelRecord, PieRecord
<1>9. TimesPast'
  <2> HIDE DEF low
  <2> QED BY <1>1, <1>7 DEF QueuesInv, TimesPast
<1>10. IntervalSinceLow'
  <2> SUFFICES ASSUME ~history.stepped_back, codel'.first_above_time # 0
               PROVE  history'.low_at + interval <= codel'.first_above_time
    BY <1>7 DEF IntervalSinceLow, interval
  <2>1. history'.low_at <= clock /\ history'.low_at \in Nat
    BY <1>7, <1>9 DEF TimesPast
  <2>2. CASE codel'.first_above_time = clock + interval
    BY <1>1, <1>2, <2>1, <2>2
  <2>3. CASE /\ codel'.first_above_time = codel.first_above_time
             /\ \A j \in 1..k : ~Low(j, clock)
    <3>1. history'.low_at = history.low_at
      BY <1>7, <2>3
    <3> QED BY <1>1, <2>3, <3>1 DEF QueuesInv, IntervalSinceLow
  <2> QED BY <1>4, <2>2, <2>3 DEF KeepsInterval
<1>11. FailsOnlyAsKnown'
  BY <1>4 DEF FailsOnlyAsKnown
<1> QED BY <1>5, <1>8, <1>9, <1>10, <1>11 DEF QueuesInv

\* A dequeue of PIE brings its state up to date.
LEMMA PieDequeueEffect ==
    ASSUME QueuesInv, PieDequeue(clock), UNCHANGED queue_params
    PROVE  /\ Discipline = "pie"
           /\ PieRecord(pie')
           /\ pie'.last_update <= clock
           /\ clock <= pie'.last_update + T_UPDATE
<1>1. Dequeue /\ Discipline = "pie" /\ ~Stuck(pie, clock)
  BY DEF PieDequeue
<1>2. queue_size_in_bytes' \in Nat
  <2>1. IInv'
    BY <1>1, DequeueKeepsIInv DEF QueuesInv
  <2>2. queue_size_in_bytes' = BytesIn(internal_queue')
        /\ internal_queue' \in Seq(Packets)
    BY <2>1 DEF IInv, TypeOK, HeldWithinLimits
  <2> QED BY <2>2, PacketsSized, BytesType
<1> DEFINE size == Head(internal_queue).size
           s == MeasureRate(pie, size, queue_size_in_bytes', clock)
<1>3. size \in Nat
  BY <1>1, QueueFacts, TailIsFrom, PacketAssumption DEF QueuesInv, Dequeue
<1>4. PieRecord(s) /\ s.last_update = pie.last_update
  BY <1>2, <1>3, MeasureEffect DEF QueuesInv, ControlTypes
<1>5. pie' = calculate_drop_prob(s, queue_size_in_bytes', clock)
  BY DEF PieDequeue
<1> HIDE DEF s
<1> QED BY <1>1, <1>2, <1>4, <1>5, PieKeepsPace

\* A dequeue of any discipline.
LEMMA QueueDequeueKeepsInv ==
    ASSUME QueuesInv, QueueDequeue
    PROVE  QueuesInv'
<1>1. UNCHANGED <<queue_params, clock>>
  BY DEF QueueDequeue
<1>2. ASSUME Dequeue PROVE IInv' /\ FailsOnlyAsKnown'
  BY <1>1, <1>2, DequeueKeepsIInv DEF QueuesInv, FailsOnlyAsKnown
<1>3. CASE Dequeue /\ UNCHANGED <<codel, pie, history>>
  <2>1. ControlTypes' /\ TimesPast' /\ IntervalSinceLow'
    BY <1>1, <1>3 DEF QueuesInv, ControlTypes, TimesPast, IntervalSinceLow,
                      Discipline, interval, CodelRecord, PieRecord
  <2> QED BY <1>2, <1>3, <2>1 DEF QueuesInv
<1>4. CASE PieDequeue(clock) /\ UNCHANGED <<codel, history>>
  <2>1. Discipline = "pie" /\ PieRecord(pie') /\ pie'.last_update <= clock
    BY <1>1, <1>4, PieDequeueEffect
  <2>2. IInv' /\ FailsOnlyAsKnown'
    BY <1>2, <1>4 DEF PieDequeue
  <2>3. ControlTypes'
    BY <1>1, <1>4, <2>1 DEF QueuesInv, ControlTypes, CodelRecord, PieRecord
  <2>4. TimesPast'
    BY <1>1, <1>4, <2>1 DEF QueuesInv, TimesPast
  <2>5. IntervalSinceLow'
    BY <1>1, <2>1 DEF IntervalSinceLow, Discipline
  <2> QED BY <2>2, <2>3, <2>4, <2>5 DEF QueuesInv
<1> QED BY <1>1, <1>3, <1>4, CodelKeepsInv DEF QueueDequeue

\* Time passes, or the clock is set back.
LEMMA ClockKeepsInv ==
    ASSUME QueuesInv, Tick \/ StepBack
    PROVE  QueuesInv'
<1>1. UNCHANGED <<vars, codel, pie>>
  BY DEF Tick, StepBack
<1>2. IInv'
  BY <1>1 DEF QueuesInv, IInv, TypeOK, HeldWithinLimits, good_with, vars,
              Discipline, byte_limit, packet_limit
<1>3. /\ Discipline' = Discipline /\ byte_limit' = byte_limit
      /\ interval' = interval /\ aborted' = aborted
  BY <1>1 DEF vars, Discipline, byte_limit, interval
<1>4. /\ clock \in Nat /\ clock < UnsignedRange
      /\ history \in [low_at : Nat, stepped_back : BOOLEAN]
      /\ pie.last_update \in Nat /\ UnsignedRange \in Nat
  BY PieAssumption DEF QueuesInv, ControlTypes, PieRecord
<1>5. CASE Tick
  <2>1. clock' = clock + 1 /\ clock < MaxTime /\ UNCHANGED history
    BY <1>5 DEF Tick
  <2>2. clock' \in Nat /\ clock' < UnsignedRange /\ clock <= clock'
    BY <1>4, <2>1, TimeAssumption
  <2>3. ControlTypes'
    BY <1>1, <2>1, <2>2 DEF QueuesInv, ControlTypes, CodelRecord, PieRecord
  <2>4. TimesPast'
    BY <1>1, <1>4, <2>1, <2>2 DEF QueuesInv, TimesPast
  <2>5. IntervalSinceLow' /\ FailsOnlyAsKnown'
    BY <1>1, <1>3, <2>1 DEF QueuesInv, IntervalSinceLow, FailsOnlyAsKnown
  <2> QED BY <1>2, <2>3, <2>4, <2>5 DEF QueuesInv
<1>6. CASE StepBack
  <2>1. PICK k \in 1..MaxStepBack : k <= clock /\ clock' = clock - k
    BY <1>6 DEF StepBack
  <2>2. clock' \in Nat /\ clock' < UnsignedRange
    BY <1>4, <2>1, TimeAssumption
  <2>3. /\ history' \in [low_at : Nat, stepped_back : BOOLEAN]
        /\ history'.stepped_back
    BY <1>4, <1>6 DEF StepBack
  <2>4. ControlTypes'
    BY <1>1, <2>2, <2>3 DEF QueuesInv, ControlTypes, CodelRecord, PieRecord
  <2>5. TimesPast' /\ IntervalSinceLow'
    BY <2>3 DEF TimesPast, IntervalSinceLow
  <2>6. FailsOnlyAsKnown'
    BY <1>3, <2>3 DEF QueuesInv, FailsOnlyAsKnown
  <2> QED BY <1>2, <2>4, <2>5, <2>6 DEF QueuesInv
<1> QED BY <1>5, <1>6

\* A call that hangs is one of PIE's after the clock was set back.
LEMMA HangKeepsInv ==
    ASSUME QueuesInv, QueueHangs
    PROVE  QueuesInv' /\ Discipline = "pie" /\ history.stepped_back
<1>1. /\ UNCHANGED <<queue_params, codel, clock, history, pie, internal_queue,
                     queue_size_in_bytes, queue_size_in_packets, returned>>
      /\ aborted' = TRUE /\ Discipline = "pie" /\ clock < pie.last_update
  BY DEF QueueHangs, PieHangs, Stuck
<1>2. history.stepped_back
  BY <1>1 DEF QueuesInv, TimesPast, ControlTypes, PieRecord
<1>3. IInv'
  BY <1>1 DEF QueuesInv, IInv, TypeOK, HeldWithinLimits, good_with,
              Discipline, byte_limit, packet_limit
<1>4. ControlTypes' /\ TimesPast' /\ IntervalSinceLow'
  BY <1>1 DEF QueuesInv, ControlTypes, TimesPast, IntervalSinceLow,
              Discipline, interval, CodelRecord, PieRecord
<1>5. FailsOnlyAsKnown'
  BY <1>1, <1>2 DEF FailsOnlyAsKnown, Discipline
<1> QED BY <1>1, <1>2, <1>3, <1>4, <1>5 DEF QueuesInv

\* The inductive invariant of the five disciplines.
LEMMA QueuesInvariant == QueuesSpec => []QueuesInv
<1>1. QueuesInv /\ [QueuesNext]_queueVars => QueuesInv'
  <2> SUFFICES ASSUME QueuesInv, [QueuesNext]_queueVars PROVE QueuesInv'
    OBVIOUS
  <2>1. CASE UNCHANGED queueVars
    <3>1. UNCHANGED <<vars, codel, pie, clock, history>>
      BY <2>1 DEF queueVars
    <3>2. IInv'
      BY <3>1 DEF QueuesInv, IInv, TypeOK, HeldWithinLimits, good_with, vars,
                  Discipline, byte_limit, packet_limit
    <3>3. ControlTypes' /\ TimesPast' /\ IntervalSinceLow' /\ FailsOnlyAsKnown'
      BY <3>1 DEF QueuesInv, ControlTypes, TimesPast, IntervalSinceLow, vars,
                  FailsOnlyAsKnown, Discipline, byte_limit, interval,
                  CodelRecord, PieRecord
    <3> QED BY <3>2, <3>3 DEF QueuesInv
  <2> QED
    BY <2>1, QueueEnqueueKeepsInv, QueueDequeueKeepsInv, ClockKeepsInv,
       HangKeepsInv DEF QueuesNext
<1> QED BY <1>1, InitQueuesInv, PTL DEF QueuesSpec

\* For every discipline, every set of packets and every behaviour of the clock:
\* the counters, the times and counts of CoDel and those of PIE are natural
\* numbers, CoDel's count_ is never below its lastcount_, and the probability of
\* PIE lies between 0 and 1.
THEOREM QueuesTypeCorrect == QueuesSpec => []QueuesTypeOK
<1>1. ASSUME CodelRecord(codel) PROVE CodelTypeOK
  <2> DEFINE a == codel.first_above_time
             d == codel.drop_next
             n == codel.count
             l == codel.lastcount
             b == codel.dropping
  <2>1. codel = [first_above_time |-> a, drop_next |-> d, count |-> n,
                 lastcount |-> l, dropping |-> b]
    BY <1>1 DEF CodelRecord
  <2>2. a \in Nat /\ d \in Nat /\ n \in Nat /\ l \in Nat /\ b \in BOOLEAN
    BY <1>1 DEF CodelRecord
  <2> HIDE DEF a, d, n, l, b
  <2>3. codel \in [first_above_time : Nat, drop_next : Nat, count : Nat,
                   lastcount : Nat, dropping : BOOLEAN]
    BY <2>1, <2>2, Zenon
  <2> QED BY <1>1, <2>3 DEF CodelTypeOK, CodelRecord
<1>2. PieRecord(pie) => PieTypeOK
  BY DEF PieRecord, PieTypeOK
<1>3. QueuesInv => QueuesTypeOK
  BY <1>1, <1>2 DEF QueuesInv, ControlTypes, IInv, QueuesTypeOK
<1> QED BY <1>3, QueuesInvariant, PTL

\* However enqueues, head drops, drops at dequeue and dequeues alternate, the
\* counters of every discipline are those of the packets it holds, and what it
\* holds is within the limits.
THEOREM CountersExact == QueuesSpec => []HeldWithinLimits
<1>1. QueuesInv => HeldWithinLimits
  BY DEF QueuesInv, IInv
<1> QED BY <1>1, QueuesInvariant, PTL

\* For every configuration, only a drophead queue with a byte limit fails an
\* assert, and only PIE, after the clock was set back, hangs.
THEOREM FailuresKnown == QueuesSpec => []FailsOnlyAsKnown
<1>1. QueuesInv => FailsOnlyAsKnown
  BY DEF QueuesInv
<1> QED BY <1>1, QueuesInvariant, PTL

\* PIE has no drop probability while it knows no departure rate.
THEOREM MeasuredDrops == QueuesSpec => []DropsOnlyWhenMeasured
<1>1. QueuesInv => DropsOnlyWhenMeasured
  BY DEF QueuesInv, ControlTypes, PieRecord, DropsOnlyWhenMeasured
<1> QED BY <1>1, QueuesInvariant, PTL

\* Only a dequeue of CoDel takes more than one packet from a queue; it does so
\* after an interval, and leaves a packet.
LEMMA DropEffect ==
    ASSUME QueuesInv, [QueuesNext]_queueVars, DropsAtDequeue
    PROVE  /\ internal_queue' # <<>>
           /\ codel.first_above_time # 0
           /\ codel.first_above_time <= clock
<1> DEFINE n == Len(internal_queue)
           n1 == Len(internal_queue')
<1>1. n \in Nat /\ internal_queue \in Seq(Packets) /\ QueueTypes
  BY QueueFacts DEF QueuesInv, IInv, TypeOK, QueueTypes
<1>2. ASSUME NEW p \in Packets, QueueEnqueue(p) PROVE FALSE
  <2> DEFINE filled == Append(internal_queue, p)
  <2>1. internal_queue' \in {internal_queue, filled, Tail(filled)}
    BY <1>2, EnqueueChoices
  <2>2. filled \in Seq(Packets) /\ Len(filled) = n + 1
    BY <1>1
  <2> HIDE DEF filled
  <2>3. Len(Tail(filled)) = n
    BY <1>1, <2>2
  <2> QED BY <1>1, <2>1, <2>2, <2>3 DEF DropsAtDequeue
<1>3. ASSUME UNCHANGED internal_queue PROVE FALSE
  BY <1>1, <1>3 DEF DropsAtDequeue
<1>4. ASSUME Dequeue PROVE FALSE
  <2>1. n1 = n - 1
    BY <1>1, <1>4, TailIsFrom DEF Dequeue
  <2> QED BY <1>1, <2>1 DEF DropsAtDequeue
<1>5. CodelDequeue(clock) /\ UNCHANGED queue_params
  <2>1. ~QueueHangs /\ ~Tick /\ ~StepBack /\ ~UNCHANGED queueVars
    BY <1>3 DEF QueueHangs, PieHangs, Tick, StepBack, vars, queueVars
  <2> QED BY <1>2, <1>4, <2>1 DEF QueuesNext, QueueDequeue, PieDequeue
<1>6. PICK k \in 1..n : CodelEffect(k, clock)
  <2>1. Discipline = "codel" /\ IInv /\ CodelRecord(codel) /\ clock \in Nat
    BY <1>5 DEF CodelDequeue, QueuesInv, ControlTypes
  <2>2. interval \in Nat
    BY <2>1, ControlParams
  <2> QED BY <1>5, <2>1, <2>2, CodelDequeueEffect
<1>7. n1 = n - k
  <2>1. Pop(k) /\ aborted' \in BOOLEAN
    BY <1>6 DEF CodelEffect
  <2> QED BY <1>5, <1>6, <2>1, PopKeepsIInv DEF QueuesInv
<1>8. k # 1
  BY <1>1, <1>7 DEF DropsAtDequeue
<1>9. k < n /\ codel.first_above_time # 0 /\ codel.first_above_time <= clock
  BY <1>6, <1>8 DEF CodelEffect
<1>10. n1 # 0
  BY <1>1, <1>6, <1>7, <1>9
<1> QED BY <1>9, <1>10

\* However many packets a dequeue drops and whatever the clock does, it leaves a
\* packet in the queue.
THEOREM DropsLeaveAPacket == QueuesSpec => DropLeavesAPacket
<1>1. QueuesInv /\ [QueuesNext]_queueVars
         => [DropsAtDequeue => internal_queue' # <<>>]_queueVars
  BY DropEffect
<1> QED BY <1>1, QueuesInvariant, PTL DEF QueuesSpec, DropLeavesAPacket

\* CoDel drops packets only when no packet that left in the last interval was
\* young or left hardly anything behind it.
THEOREM DropsFromStandingQueue == QueuesSpec => DropsOnlyStandingQueue
<1> DEFINE A == Discipline = "codel" /\ ~history.stepped_back /\ DropsAtDequeue
                   => clock - history.low_at >= interval
<1>1. QueuesInv /\ [QueuesNext]_queueVars => [A]_queueVars
  <2> SUFFICES ASSUME QueuesInv, [QueuesNext]_queueVars, Discipline = "codel",
                      ~history.stepped_back, DropsAtDequeue
               PROVE  clock - history.low_at >= interval
    OBVIOUS
  <2>1. codel.first_above_time # 0 /\ codel.first_above_time <= clock
    BY DropEffect
  <2>2. history.low_at + interval <= codel.first_above_time
    BY <2>1 DEF QueuesInv, IntervalSinceLow
  <2>3. history.low_at \in Nat /\ clock \in Nat /\ codel.first_above_time \in Nat
    BY DEF QueuesInv, ControlTypes, CodelRecord
  <2>4. interval \in Nat
    BY ControlParams DEF QueuesInv
  <2> QED BY <2>1, <2>2, <2>3, <2>4
<1> QED BY <1>1, QueuesInvariant, PTL DEF QueuesSpec, DropsOnlyStandingQueue

\* Every call to a PIE queue makes all updates that are due, and no other.
THEOREM AllUpdatesMade == QueuesSpec => UpdatesKeepPace
<1> DEFINE A == Discipline = "pie" /\ clock' = clock /\ ~history.stepped_back
                   => /\ pie'.last_update <= clock
                      /\ clock <= pie'.last_update + T_UPDATE
<1>1. QueuesInv /\ [QueuesNext]_queueVars => [A]_queueVars
  <2> SUFFICES ASSUME QueuesInv, QueuesNext, Discipline = "pie",
                      clock' = clock, ~history.stepped_back
               PROVE  /\ pie'.last_update <= clock
                      /\ clock <= pie'.last_update + T_UPDATE
    OBVIOUS
  <2>1. ASSUME NEW p \in Packets, QueueEnqueue(p)
        PROVE  /\ pie'.last_update <= clock
               /\ clock <= pie'.last_update + T_UPDATE
    <3>1. PieEnqueue(p, clock)
      BY <2>1 DEF QueueEnqueue, Enqueue, InfiniteEnqueue, DropTailEnqueue,
                  DropHeadEnqueue, CodelEnqueue
    <3>2. ~Stuck(pie, clock)
          /\ pie' = calculate_drop_prob(pie, queue_size_in_bytes, clock)
      BY <3>1 DEF PieEnqueue
    <3>3. queue_size_in_bytes \in Nat /\ PieRecord(pie)
      BY QueueFacts DEF QueuesInv, ControlTypes
    <3> QED BY <3>2, <3>3, PieKeepsPace
  <2>2. CASE QueueDequeue
    <3>1. PieDequeue(clock) /\ UNCHANGED queue_params
      BY <2>2 DEF QueueDequeue, Passive, CodelDequeue
    <3> QED BY <3>1, PieDequeueEffect
  <2>3. CASE QueueHangs
    BY <2>3, HangKeepsInv
  <2>4. CASE Tick \/ StepBack
    <3>1. clock \in Nat
      BY DEF QueuesInv, ControlTypes
    <3>2. clock' # clock
      BY <2>4, <3>1 DEF Tick, StepBack
    <3> QED BY <3>2
  <2> QED BY <2>1, <2>2, <2>3, <2>4 DEF QueuesNext
<1> QED BY <1>1, QueuesInvariant, PTL DEF QueuesSpec, UpdatesKeepPace

\* In every reachable state, what enqueue does with a packet is what
\* can_accept_one says of it, which states the limits a second time: the packet
\* is appended and costs no other exactly when it can be accepted.  (That an
\* enqueue is possible at all, the rest of AcceptsWhatFits, needs ENABLED.)
THEOREM EnqueueAgrees ==
    ASSUME QueuesInv, NEW p \in Packets, QueueEnqueue(p), Discipline # "pie"
    PROVE  can_accept_one(p.size)
              <=> internal_queue' = Append(internal_queue, p)
<1> DEFINE filled == Append(internal_queue, p)
           fits == good_with(queue_size_in_bytes + p.size, queue_size_in_packets + 1)
<1>1. internal_queue \in Seq(Packets) /\ Len(internal_queue) \in Nat
  BY QueueFacts DEF QueuesInv
<1>2. filled \in Seq(Packets) /\ Len(filled) = Len(internal_queue) + 1
  BY <1>1
<1>3. filled # internal_queue
  BY <1>1, <1>2
<1>4. filled # Tail(filled)
  <2> HIDE DEF filled
  <2>1. Len(Tail(filled)) = Len(internal_queue)
    BY <1>1, <1>2
  <2> QED BY <1>1, <1>2, <2>1
<1>5. accept(p) => internal_queue' = filled
  BY DEF accept
<1>6. can_accept_one(p.size) <=> Discipline = "infinite" \/ fits
  BY DEF can_accept_one, good_with
<1> HIDE DEF filled, fits
<1>7. CASE Enqueue(p)
  <2>1. CASE InfiniteEnqueue(p)
    BY <1>5, <1>6, <2>1 DEF InfiniteEnqueue, filled
  <2>2. CASE DropTailEnqueue(p)
    BY <1>3, <1>5, <1>6, <2>2 DEF DropTailEnqueue, vars, filled, fits
  <2>3. CASE DropHeadEnqueue(p)
    BY <1>3, <1>4, <1>5, <1>6, <2>3 DEF DropHeadEnqueue, filled, fits
  <2> QED BY <1>7, <2>1, <2>2, <2>3 DEF Enqueue
<1>8. CASE CodelEnqueue(p)
  BY <1>3, <1>5, <1>6, <1>8 DEF CodelEnqueue, vars, filled, fits
<1> QED BY <1>7, <1>8 DEF QueueEnqueue, PieEnqueue
=============================================================================
