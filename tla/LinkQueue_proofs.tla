-------------------------- MODULE LinkQueue_proofs --------------------------
(***************************************************************************)
(* For every trace the constructor accepts, every packet size and every    *)
(* queue that keeps the contract of PacketQueue, with a wall clock that    *)
(* may be set back: the asserts of LinkQueue::rationalize hold and the     *)
(* time of the link never runs backwards; it delivers the packets in       *)
(* arrival order, its log accounts for all of them, and it uses exactly    *)
(* the opportunities of the trace and never more bytes than these allow.   *)
(***************************************************************************)
EXTENDS LinkQueue, PacketQueue_proofs, FiniteSetTheorems

\* A packet the link holds can be carried by the next opportunity: it is not
\* empty, not too large and did not arrive after that opportunity.
Carriable(p, time) ==
    /\ p.size \in 1..PACKET_SIZE
    /\ p.arrival_time <= time

InCall == call.pc \in {"rationalize", "deliver"}

\* The clock, and the time the call in progress has read from it.
ClockBound == clock <= MaxTime /\ call.now <= MaxTime

QueueCarriable ==
    \A i \in 1..Len(packet_queue) :
        /\ Carriable(packet_queue[i], next_delivery_time)
        /\ call.pc = "deliver" =>
               Carriable(packet_queue[i], call.this_delivery_time)

TransitCarriable ==
    packet_in_transit_bytes_left > 0 =>
        /\ packet_in_transit_bytes_left <= packet_in_transit.size
        /\ Carriable(packet_in_transit, next_delivery_time)
        /\ call.pc = "deliver" =>
               Carriable(packet_in_transit, call.this_delivery_time)

\* An opportunity being used lies before the next one.
DeliveryBeforeNext ==
    call.pc = "deliver" => call.this_delivery_time <= next_delivery_time

PacketFits ==
    InCall /\ call.op = "read_packet" => call.packet.size \in 1..PACKET_SIZE

IInv ==
    /\ TypeOK
    /\ NeverAborts
    /\ ClockBound
    /\ QueueCarriable
    /\ TransitCarriable
    /\ DeliveryBeforeNext
    /\ PacketFits
-----------------------------------------------------------------------------
(* The trace                                                               *)

\* The position after the last one of the trace is the first one.
LEMMA Successor ==
    ASSUME NEW m \in Nat \ {0}, NEW n \in 0..(m - 1)
    PROVE  (n + 1) % m = IF n + 1 = m THEN 0 ELSE n + 1
  OBVIOUS

\* What the constructor of LinkQueue guarantees of the trace: the offsets do
\* not decrease and the last one, the period, is the largest.
LEMMA ScheduleFacts ==
    /\ Len(Schedule) \in Nat \ {0}
    /\ \A i \in 1..Len(Schedule) :
           Schedule[i] \in Nat /\ Schedule[i] <= TracePeriod
    /\ \A i \in 1..Len(Schedule) :
           i + 1 \in 1..Len(Schedule) => Schedule[i] <= Schedule[i + 1]
    /\ TracePeriod \in Nat
<1>1. Len(Schedule) \in Nat \ {0}
  BY ScheduleAssumption
<1>2. ASSUME NEW i \in 1..Len(Schedule) PROVE Schedule[i] \in Nat
  BY ScheduleAssumption
<1>3. Len(Schedule) \in 1..Len(Schedule)
  BY <1>1
<1>4. TracePeriod \in Nat
  BY <1>2, <1>3 DEF TracePeriod
<1>5. ASSUME NEW i \in 1..Len(Schedule) PROVE Schedule[i] <= TracePeriod
  BY <1>1, <1>3, ScheduleAssumption DEF TracePeriod
<1>6. ASSUME NEW i \in 1..Len(Schedule), i + 1 \in 1..Len(Schedule)
      PROVE  Schedule[i] <= Schedule[i + 1]
  BY <1>1, <1>6, ScheduleAssumption
<1> QED BY <1>1, <1>2, <1>4, <1>5, <1>6

\* What TypeOK says of the position in the trace.
LinkTypes ==
    /\ next_delivery \in 0..(Len(Schedule) - 1)
    /\ base_timestamp \in Nat
    /\ finished \in BOOLEAN
    /\ repeat \in BOOLEAN

\* next_delivery_time() is a natural number.
LEMMA DeliveryTimeType ==
    ASSUME LinkTypes
    PROVE  next_delivery_time \in Nat
<1>1. next_delivery + 1 \in 1..Len(Schedule)
  BY ScheduleFacts DEF LinkTypes
<1>2. Schedule[next_delivery + 1] \in Nat
  BY <1>1, ScheduleFacts
<1> QED
  BY <1>2, ParameterAssumption DEF LinkTypes, next_delivery_time

\* Using an opportunity that is due does not take the link back in time, also
\* when the trace starts again or ends.
LEMMA NextOpportunityLater ==
    ASSUME LinkTypes, next_delivery_time < Never, use_a_delivery_opportunity
    PROVE  /\ LinkTypes'
           /\ next_delivery_time' \in Nat
           /\ next_delivery_time' >= next_delivery_time
<1> DEFINE n == Len(Schedule)
           next == (next_delivery + 1) % n
<1>1. n \in Nat \ {0} /\ next_delivery \in 0..(n - 1) /\ base_timestamp \in Nat
      /\ finished \in BOOLEAN /\ repeat \in BOOLEAN
  BY ScheduleFacts DEF LinkTypes
<1>2. next = IF next_delivery + 1 = n THEN 0 ELSE next_delivery + 1
  BY <1>1, Successor
<1>3. ~finished
  BY ParameterAssumption DEF next_delivery_time
<1>4. next_delivery_time = Schedule[next_delivery + 1] + base_timestamp
  BY <1>3 DEF next_delivery_time
<1>5. /\ next_delivery' = next
      /\ base_timestamp' = base_timestamp
                              + (IF next = 0 /\ repeat THEN TracePeriod ELSE 0)
      /\ finished' = (finished \/ (next = 0 /\ ~repeat))
      /\ repeat' = repeat
  BY Zenon DEF use_a_delivery_opportunity
<1> HIDE DEF next
<1>6. next \in 0..(n - 1)
  BY <1>1, <1>2
<1>7. CASE next # 0
  <2>1. next = next_delivery + 1 /\ next \in 1..n /\ next + 1 \in 1..n
    BY <1>1, <1>2, <1>6, <1>7
  <2>2. Schedule[next] <= Schedule[next + 1]
        /\ Schedule[next] \in Nat /\ Schedule[next + 1] \in Nat
    BY <2>1, ScheduleFacts
  <2>3. base_timestamp' = base_timestamp /\ ~finished'
    BY <1>1, <1>3, <1>5, <1>7
  <2>4. next_delivery_time' = Schedule[next + 1] + base_timestamp
    BY <1>5, <2>3 DEF next_delivery_time
  <2>5. LinkTypes'
    BY <1>1, <1>5, <1>6, <2>3 DEF LinkTypes
  <2>6. next_delivery_time' \in Nat
        /\ next_delivery_time' >= next_delivery_time
    BY <1>1, <1>4, <2>1, <2>2, <2>4
  <2> QED BY <2>5, <2>6
<1>8. CASE next = 0
  <2>1. next_delivery + 1 \in 1..n /\ 1 \in 1..n
    BY <1>1
  <2>2. /\ Schedule[next_delivery + 1] \in Nat /\ Schedule[1] \in Nat
        /\ Schedule[next_delivery + 1] <= TracePeriod
        /\ TracePeriod \in Nat
    BY <2>1, ScheduleFacts
  <2>3. CASE repeat
    <3>1. base_timestamp' = base_timestamp + TracePeriod /\ ~finished'
      BY <1>3, <1>5, <1>8, <2>3
    <3>2. next_delivery_time' = Schedule[1] + (base_timestamp + TracePeriod)
      BY <1>5, <1>8, <3>1 DEF next_delivery_time
    <3>3. LinkTypes'
      BY <1>1, <1>5, <1>6, <2>2, <3>1 DEF LinkTypes
    <3>4. next_delivery_time' \in Nat
          /\ next_delivery_time' >= next_delivery_time
      BY <1>1, <1>4, <2>2, <3>2
    <3> QED BY <3>3, <3>4
  <2>4. CASE ~repeat
    <3>1. base_timestamp' = base_timestamp
      BY <1>1, <1>5, <1>8, <2>4
    <3>3. finished' = TRUE
      BY <1>5, <1>8, <2>4, Zenon
    <3>2. next_delivery_time' = Never
      BY <3>3 DEF next_delivery_time
    <3>4. LinkTypes'
      BY <1>1, <1>5, <1>6, <3>1, <3>3 DEF LinkTypes
    <3>5. next_delivery_time' \in Nat
          /\ next_delivery_time' >= next_delivery_time
      BY <1>1, <1>4, <2>2, <3>2, ParameterAssumption
    <3> QED BY <3>4, <3>5
  <2> QED BY <2>3, <2>4
<1> QED BY <1>7, <1>8
-----------------------------------------------------------------------------
(* The inductive invariant                                                 *)

\* The invariant holds when the LinkQueue has been constructed.
LEMMA InitIInv == Init => IInv
<1> SUFFICES ASSUME Init PROVE IInv
  OBVIOUS
<1>1. TypeOK
  <2>1. 0 \in 0..(Len(Schedule) - 1)
    BY ScheduleFacts
  <2>2. NoPacket \in QueuedPackets
    BY DEF NoPacket, QueuedPacket, QueuedPackets
  <2>3. call \in [pc : {"idle", "rationalize", "deliver", "terminated",
                        "aborted"},
                  op : {"none", "read_packet", "wait_time"},
                  now : Nat, packet : [id : Nat, size : Nat] \cup {NoPacket},
                  this_delivery_time : Nat,
                  bytes_left_in_this_delivery : Nat,
                  result : Nat]
    BY DEF Init, Returned
  <2>4. finished \in BOOLEAN /\ repeat \in BOOLEAN
    BY ParameterAssumption DEF Init
  <2> QED
    BY <2>1, <2>2, <2>3, <2>4, ParameterAssumption DEF Init, TypeOK
<1>2. NeverAborts /\ DeliveryBeforeNext /\ PacketFits
  BY DEF Init, Returned, NeverAborts, DeliveryBeforeNext, PacketFits, InCall
<1>3. ClockBound /\ QueueCarriable /\ TransitCarriable
  BY ParameterAssumption
     DEF Init, Returned, ClockBound, QueueCarriable, TransitCarriable
<1> QED BY <1>1, <1>2, <1>3 DEF IInv

\* Entering read_packet or wait_time: the time is read, the packet checked.
LEMMA BeginKeepsIInv ==
    ASSUME IInv, NEW op \in {"read_packet", "wait_time"},
           NEW p \in [id : Nat, size : Nat] \cup {NoPacket},
           op = "read_packet" => p.size \in 1..PACKET_SIZE,
           Begin(op, p)
    PROVE  IInv'
<1> USE DEF IInv
<1>1. /\ call.pc = "idle"
      /\ call' = [call EXCEPT !.pc = "rationalize", !.op = op, !.now = clock,
                              !.packet = p]
      /\ UNCHANGED <<clock, linkState, packet_queue, transitState,
                     output_queue, log, written>>
  BY DEF Begin
<1>2. call'.pc = "rationalize" /\ call'.op = op /\ call'.now = clock
      /\ call'.packet = p
  BY <1>1 DEF TypeOK
<1>3. history' \in [emulated_to : Int, idle_at : Nat, arrived : Nat]
  <2> DEFINE to == IF clock > history.emulated_to THEN clock
                                                  ELSE history.emulated_to
             n == history.arrived + (IF op = "read_packet" THEN 1 ELSE 0)
  <2>1. history \in [emulated_to : Int, idle_at : Nat, arrived : Nat]
        /\ clock \in Nat
    BY DEF TypeOK
  <2>2. to \in Int /\ n \in Nat
    BY <2>1
  <2>3. history' = [history EXCEPT !.emulated_to = to, !.arrived = n]
    BY Zenon DEF Begin
  <2> HIDE DEF to, n
  <2> QED BY <2>1, <2>2, <2>3
<1>4. TypeOK'
  BY <1>1, <1>3 DEF TypeOK, linkState, transitState
<1>5. next_delivery_time' = next_delivery_time
  BY <1>1 DEF next_delivery_time, linkState
<1>6. QueueCarriable' /\ TransitCarriable'
  BY <1>1, <1>2, <1>5
     DEF QueueCarriable, TransitCarriable, Carriable, transitState
<1> QED
  BY <1>1, <1>2, <1>4, <1>6
     DEF NeverAborts, ClockBound, DeliveryBeforeNext, PacketFits, InCall

\* The clock moves between calls.
LEMMA ClockKeepsIInv ==
    ASSUME IInv, Tick \/ StepBack
    PROVE  IInv'
<1> USE DEF IInv
<1>1. clock' \in Nat /\ clock' <= MaxTime
  <2>1. CASE Tick
    BY <2>1, ParameterAssumption DEF Tick, TypeOK
  <2>2. CASE StepBack
    <3>1. PICK k \in 1..MaxStepBack : k <= clock /\ clock' = clock - k
      BY <2>2 DEF StepBack
    <3> QED BY <3>1, ParameterAssumption DEF TypeOK, ClockBound
  <2> QED BY <2>1, <2>2
<1>2. UNCHANGED <<linkState, packet_queue, transitState, output_queue, call,
                  log, written, history>>
  BY DEF Tick, StepBack
<1>3. next_delivery_time' = next_delivery_time
  BY <1>2 DEF next_delivery_time, linkState
<1>4. TypeOK'
  BY <1>1, <1>2 DEF TypeOK, linkState, transitState
<1>5. QueueCarriable' /\ TransitCarriable'
  BY <1>2, <1>3 DEF QueueCarriable, TransitCarriable, Carriable, transitState
<1> QED
  BY <1>1, <1>2, <1>3, <1>4, <1>5
     DEF NeverAborts, ClockBound, DeliveryBeforeNext, PacketFits, InCall

\* Burning an opportunity: what could be carried by it still can, and by the
\* one that comes next, which is not earlier.
LEMMA BurnKeepsIInv ==
    ASSUME IInv, BurnOpportunity
    PROVE  /\ IInv'
           /\ next_delivery_time' >= next_delivery_time
<1> USE DEF IInv
<1>1. LinkTypes
  BY DEF TypeOK, LinkTypes
<1>2. next_delivery_time \in Nat
  BY <1>1, DeliveryTimeType
<1>3. next_delivery_time <= call.now /\ call.now <= MaxTime /\ call.now \in Nat
  BY DEF BurnOpportunity, Due, ClockBound, TypeOK
<1>4. next_delivery_time < Never
  BY <1>2, <1>3, ParameterAssumption
<1>5. use_a_delivery_opportunity
  BY DEF BurnOpportunity
<1>6. LinkTypes' /\ next_delivery_time' >= next_delivery_time
  BY <1>1, <1>4, <1>5, NextOpportunityLater
<1>7. next_delivery_time' \in Nat
  BY <1>1, <1>4, <1>5, NextOpportunityLater
<1>8. /\ call' = [call EXCEPT !.pc = "deliver",
                              !.this_delivery_time = next_delivery_time,
                              !.bytes_left_in_this_delivery = PACKET_SIZE]
      /\ UNCHANGED <<clock, packet_queue, transitState, output_queue, written,
                     history>>
      /\ log' = [log EXCEPT !.opportunities = @ + 1,
                            !.time = next_delivery_time]
  BY <1>5 DEF BurnOpportunity, use_a_delivery_opportunity
<1> DEFINE t == next_delivery_time
           u == next_delivery_time'
<1>9. t \in Nat /\ u \in Nat /\ t <= u
  BY <1>2, <1>6, <1>7
<1>10. /\ call' = [call EXCEPT !.pc = "deliver", !.this_delivery_time = t,
                               !.bytes_left_in_this_delivery = PACKET_SIZE]
       /\ log' = [log EXCEPT !.opportunities = @ + 1, !.time = t]
  BY <1>8
<1> HIDE DEF t
<1>11. call'.pc = "deliver" /\ call'.this_delivery_time = t
       /\ call'.now = call.now /\ call'.op = call.op
       /\ call'.packet = call.packet
  BY <1>10 DEF TypeOK
<1>12. TypeOK'
  <2>1. log' \in [arrivals : Nat, drops : Nat, opportunities : Nat,
                  departures : Nat, time : Nat]
    <3>1. log \in [arrivals : Nat, drops : Nat, opportunities : Nat,
                   departures : Nat, time : Nat]
      BY DEF TypeOK
    <3>2. log.opportunities + 1 \in Nat
      BY <3>1
    <3> QED BY <1>9, <1>10, <3>1, <3>2
  <2>2. call' \in [pc : {"idle", "rationalize", "deliver", "terminated",
                         "aborted"},
                   op : {"none", "read_packet", "wait_time"},
                   now : Nat, packet : [id : Nat, size : Nat] \cup {NoPacket},
                   this_delivery_time : Nat,
                   bytes_left_in_this_delivery : Nat,
                   result : Nat]
    BY <1>9, <1>10, ParameterAssumption DEF TypeOK
  <2> QED
    BY <1>6, <1>8, <2>1, <2>2 DEF TypeOK, LinkTypes, transitState
<1>13. QueueCarriable'
  <2> SUFFICES ASSUME NEW i \in 1..Len(packet_queue)
               PROVE  /\ Carriable(packet_queue[i], u)
                      /\ Carriable(packet_queue[i], t)
    BY <1>8, <1>11 DEF QueueCarriable, Carriable
  <2>1. packet_queue[i] \in QueuedPackets
    BY SMTT(30) DEF TypeOK
  <2>2. Carriable(packet_queue[i], t)
    BY DEF QueueCarriable, t
  <2> HIDE DEF u
  <2> QED BY <1>9, <2>1, <2>2 DEF Carriable, QueuedPackets
<1>14. TransitCarriable'
  <2> SUFFICES ASSUME packet_in_transit_bytes_left > 0
               PROVE  /\ packet_in_transit_bytes_left <= packet_in_transit.size
                      /\ Carriable(packet_in_transit, u)
                      /\ Carriable(packet_in_transit, t)
    BY <1>8, <1>11 DEF TransitCarriable, Carriable, transitState
  <2>1. packet_in_transit \in QueuedPackets
    BY DEF TypeOK
  <2>2. packet_in_transit_bytes_left <= packet_in_transit.size
        /\ Carriable(packet_in_transit, t)
    BY DEF TransitCarriable, t
  <2> HIDE DEF u
  <2> QED BY <1>9, <2>1, <2>2 DEF Carriable, QueuedPackets
<1>15. DeliveryBeforeNext'
  BY <1>9, <1>11 DEF DeliveryBeforeNext
<1>16. NeverAborts' /\ ClockBound' /\ PacketFits'
  BY <1>8, <1>11
     DEF NeverAborts, ClockBound, PacketFits, InCall, BurnOpportunity, Due
<1> QED BY <1>6, <1>12, <1>13, <1>14, <1>15, <1>16

\* Sending bytes of a packet that can be carried: the asserts hold, and what is
\* left of the packet can still be carried.
LEMMA SendKeepsIInv ==
    ASSUME IInv, Delivering,
           NEW p \in QueuedPackets, NEW left \in 1..p.size,
           Carriable(p, call.this_delivery_time),
           Carriable(p, next_delivery_time),
           packet_queue' \in Seq(QueuedPackets),
           \A i \in 1..Len(packet_queue') :
               \E j \in 1..Len(packet_queue) :
                   packet_queue'[i] = packet_queue[j],
           Send(p, left)
    PROVE  IInv'
<1> USE DEF IInv
<1>1. p.size \in Nat /\ left \in Nat \ {0} /\ left <= p.size
      /\ left <= PACKET_SIZE
  BY ParameterAssumption DEF QueuedPackets, Carriable
<1>2. TransitAsserts(p, left)
  BY <1>1, ParameterAssumption DEF TransitAsserts, Carriable
<1> DEFINE amount == amount_to_send(left)
<1>0. call.bytes_left_in_this_delivery \in Nat
  BY DEF TypeOK
<1>3. amount \in Nat /\ amount <= left
      /\ amount <= call.bytes_left_in_this_delivery
  BY <1>0, <1>1 DEF amount_to_send
<1> HIDE DEF amount
<1>4. /\ packet_in_transit' = p
      /\ packet_in_transit_bytes_left' = left - amount
      /\ output_queue' = IF amount = left THEN Append(output_queue, p)
                                          ELSE output_queue
      /\ log' = IF amount = left
                THEN [log EXCEPT !.departures = @ + 1,
                                 !.time = call.this_delivery_time]
                ELSE log
      /\ UNCHANGED <<clock, linkState, written, history>>
  BY DEF Send, amount
<1>5. call' = [call EXCEPT !.bytes_left_in_this_delivery = @ - amount]
  <2>1. call' = [call EXCEPT !.pc = call.pc,
                             !.bytes_left_in_this_delivery = @ - amount]
    BY <1>2 DEF Send, amount
  <2> QED BY <2>1 DEF TypeOK
<1>6. call'.pc = "deliver" /\ call'.now = call.now
      /\ call'.this_delivery_time = call.this_delivery_time
      /\ call'.op = call.op /\ call'.packet = call.packet
  BY <1>5 DEF TypeOK, Delivering
<1>7. TypeOK'
  <2>1. call' \in [pc : {"idle", "rationalize", "deliver", "terminated",
                         "aborted"},
                   op : {"none", "read_packet", "wait_time"},
                   now : Nat, packet : [id : Nat, size : Nat] \cup {NoPacket},
                   this_delivery_time : Nat,
                   bytes_left_in_this_delivery : Nat,
                   result : Nat]
    <3>1. call.bytes_left_in_this_delivery - amount \in Nat
      BY <1>0, <1>3
    <3> QED BY <1>5, <3>1 DEF TypeOK
  <2>2. log' \in [arrivals : Nat, drops : Nat, opportunities : Nat,
                  departures : Nat, time : Nat]
    <3>1. log \in [arrivals : Nat, drops : Nat, opportunities : Nat,
                   departures : Nat, time : Nat]
          /\ call.this_delivery_time \in Nat
      BY DEF TypeOK
    <3>2. log.departures + 1 \in Nat
      BY <3>1
    <3>3. [log EXCEPT !.departures = @ + 1, !.time = call.this_delivery_time]
              \in [arrivals : Nat, drops : Nat, opportunities : Nat,
                   departures : Nat, time : Nat]
      BY <3>1, <3>2
    <3> QED BY <1>4, <3>1, <3>3
  <2>3. output_queue' \in Seq(QueuedPackets)
    BY <1>4 DEF TypeOK
  <2>4. left - amount \in Nat
    BY <1>1, <1>3
  <2> QED
    BY <1>4, <2>1, <2>2, <2>3, <2>4 DEF TypeOK, linkState
<1>8. next_delivery_time' = next_delivery_time
  BY <1>4 DEF next_delivery_time, linkState
<1>9. QueueCarriable'
  <2> SUFFICES ASSUME NEW i \in 1..Len(packet_queue')
               PROVE  /\ Carriable(packet_queue'[i], next_delivery_time)
                      /\ Carriable(packet_queue'[i], call.this_delivery_time)
    BY <1>6, <1>8 DEF QueueCarriable, Carriable
  <2>1. PICK j \in 1..Len(packet_queue) : packet_queue'[i] = packet_queue[j]
    OBVIOUS
  <2> QED BY <2>1 DEF QueueCarriable, Delivering
<1>10. TransitCarriable'
  <2>1. left - amount <= p.size
    BY <1>1, <1>3
  <2> QED
    BY <1>4, <1>6, <1>8, <2>1 DEF TransitCarriable, Carriable
<1>11. DeliveryBeforeNext'
  BY <1>6, <1>8 DEF DeliveryBeforeNext, Delivering
<1>12. NeverAborts' /\ ClockBound' /\ PacketFits'
  BY <1>4, <1>6
     DEF NeverAborts, ClockBound, PacketFits, InCall, Delivering
<1> QED BY <1>7, <1>9, <1>10, <1>11, <1>12

\* One iteration of the inner loop, with the packet in transit or the next one.
LEMMA DeliverKeepsIInv ==
    ASSUME IInv, SendTransit \/ SendNext
    PROVE  IInv'
<1> USE DEF IInv
<1>1. CASE SendTransit
  <2>1. Delivering /\ packet_queue' = packet_queue
        /\ packet_in_transit_bytes_left > 0
        /\ Send(packet_in_transit, packet_in_transit_bytes_left)
    BY <1>1 DEF SendTransit
  <2>2. packet_in_transit \in QueuedPackets
        /\ packet_in_transit_bytes_left \in 1..packet_in_transit.size
    BY <2>1 DEF TypeOK, TransitCarriable, QueuedPackets
  <2>3. Carriable(packet_in_transit, call.this_delivery_time)
        /\ Carriable(packet_in_transit, next_delivery_time)
    BY <2>1 DEF TransitCarriable, Delivering
  <2>4. packet_queue' \in Seq(QueuedPackets)
        /\ \A i \in 1..Len(packet_queue') :
               \E j \in 1..Len(packet_queue) :
                   packet_queue'[i] = packet_queue[j]
    BY <2>1 DEF TypeOK
  <2> QED BY <2>1, <2>2, <2>3, <2>4, SendKeepsIInv
<1>2. CASE SendNext
  <2> DEFINE p == Head(packet_queue)
  <2>1. Delivering /\ packet_queue # <<>> /\ Send(p, p.size)
        /\ packet_queue' \in DequeueOutcomes(packet_queue, DropsAtDequeue)
    BY <1>2 DEF SendNext
  <2>2. packet_queue \in Seq(QueuedPackets)
    BY DEF TypeOK
  <2>3. /\ p \in QueuedPackets
        /\ p = packet_queue[1]
        /\ 1 \in 1..Len(packet_queue)
        /\ packet_queue' \in Seq(QueuedPackets)
        /\ \A i \in 1..Len(packet_queue') :
               \E j \in 1..Len(packet_queue) :
                   packet_queue'[i] = packet_queue[j]
    <3>1. Len(packet_queue) \in Nat \ {0} => 1 \in 1..Len(packet_queue)
      OBVIOUS
    <3> QED BY <2>1, <2>2, <3>1, DequeueProperties DEF PartOf
  <2> HIDE DEF p
  <2>4. Carriable(p, call.this_delivery_time)
        /\ Carriable(p, next_delivery_time)
    BY <2>1, <2>3 DEF QueueCarriable, Delivering
  <2>5. p.size \in 1..p.size
    BY <2>3, <2>4, ParameterAssumption DEF Carriable, QueuedPackets
  <2> QED BY <2>1, <2>3, <2>4, <2>5, SendKeepsIInv
<1> QED BY <1>1, <1>2

\* The inner loop ends, or the packet is refused: only control changes.
LEMMA EndDeliveryKeepsIInv ==
    ASSUME IInv, EndDelivery
    PROVE  IInv'
<1> USE DEF IInv
<1>1. call.pc = "deliver" /\ call' = [call EXCEPT !.pc = "rationalize"]
      /\ UNCHANGED <<clock, linkState, packet_queue, transitState,
                     output_queue, log, written>>
  BY DEF EndDelivery
<1>2. call'.pc = "rationalize" /\ call'.op = call.op /\ call'.now = call.now
      /\ call'.packet = call.packet
  BY <1>1 DEF TypeOK
<1>3. history' \in [emulated_to : Int, idle_at : Nat, arrived : Nat]
  <2>1. \/ history' = history
        \/ history' = [history EXCEPT !.idle_at = call.this_delivery_time]
    BY DEF EndDelivery
  <2> QED BY <2>1 DEF TypeOK
<1>4. TypeOK'
  BY <1>1, <1>3 DEF TypeOK, linkState, transitState
<1>5. next_delivery_time' = next_delivery_time
  BY <1>1 DEF next_delivery_time, linkState
<1>6. QueueCarriable' /\ TransitCarriable'
  BY <1>1, <1>2, <1>5
     DEF QueueCarriable, TransitCarriable, Carriable, transitState
<1> QED
  BY <1>1, <1>2, <1>4, <1>6
     DEF NeverAborts, ClockBound, DeliveryBeforeNext, PacketFits, InCall

\* A packet that is too large ends the process; nothing else changes.
LEMMA OversizedKeepsIInv ==
    ASSUME IInv, NEW p, ReadOversized(p)
    PROVE  IInv'
<1> USE DEF IInv
<1>1. call.pc = "idle"
      /\ call' = [call EXCEPT !.pc = "terminated", !.op = "read_packet"]
      /\ UNCHANGED <<clock, linkState, packet_queue, transitState,
                     output_queue, log, written, history>>
  BY DEF ReadOversized
<1>2. call'.pc = "terminated" /\ call'.now = call.now
  BY <1>1 DEF TypeOK
<1>4. TypeOK'
  BY <1>1 DEF TypeOK, linkState, transitState
<1>5. next_delivery_time' = next_delivery_time
  BY <1>1 DEF next_delivery_time, linkState
<1>6. QueueCarriable' /\ TransitCarriable'
  BY <1>1, <1>2, <1>5
     DEF QueueCarriable, TransitCarriable, Carriable, transitState
<1> QED
  BY <1>1, <1>2, <1>4, <1>6
     DEF NeverAborts, ClockBound, DeliveryBeforeNext, PacketFits, InCall

\* The call is over: its local variables are gone.
LEMMA ReturnedType ==
    ASSUME NEW r \in Nat
    PROVE  /\ Returned(r) \in [pc : {"idle", "rationalize", "deliver",
                                     "terminated", "aborted"},
                   op : {"none", "read_packet", "wait_time"},
                   now : Nat, packet : [id : Nat, size : Nat] \cup {NoPacket},
                   this_delivery_time : Nat,
                   bytes_left_in_this_delivery : Nat,
                   result : Nat]
           /\ Returned(r).pc = "idle"
           /\ Returned(r).now = 0
  BY DEF Returned

\* read_packet ends: rationalize has left the next opportunity after now, so
\* the new packet can be carried by it.
LEMMA FinishReadKeepsIInv ==
    ASSUME IInv, FinishRead
    PROVE  IInv'
<1> USE DEF IInv
<1> DEFINE p == QueuedPacket(call.packet, call.now)
<1>1. /\ call.pc = "rationalize" /\ ~Due /\ call.op = "read_packet"
      /\ packet_queue' \in EnqueueOutcomes(packet_queue, p)
      /\ call' = Returned(0)
      /\ UNCHANGED <<clock, linkState, transitState, output_queue, written,
                     history>>
  BY DEF FinishRead
<1>2. log' = [log EXCEPT !.arrivals = @ + 1, !.time = call.now,
                         !.drops = @ + (Len(packet_queue) + 1
                                           - Len(packet_queue'))]
  BY DEF FinishRead
<1>3. next_delivery_time \in Nat
  BY DeliveryTimeType DEF LinkTypes, TypeOK
<1>4. call.now <= next_delivery_time
  BY <1>1, <1>3, SMTT(30) DEF Due, TypeOK
<1>5. call.packet \in [id : Nat, size : Nat] \cup {NoPacket}
      /\ call.packet.size \in 1..PACKET_SIZE /\ call.now \in Nat
  BY <1>1 DEF TypeOK, PacketFits, InCall
<1>6. p \in QueuedPackets /\ Carriable(p, next_delivery_time)
  BY <1>4, <1>5, ParameterAssumption
     DEF QueuedPacket, QueuedPackets, Carriable, NoPacket
<1> HIDE DEF p
<1>7. packet_queue \in Seq(QueuedPackets)
  BY DEF TypeOK
<1>8. /\ packet_queue' \in Seq(QueuedPackets)
      /\ Len(packet_queue') <= Len(packet_queue) + 1
      /\ \A i \in 1..Len(packet_queue') :
             packet_queue'[i] = p
                \/ \E j \in 1..Len(packet_queue) :
                       packet_queue'[i] = packet_queue[j]
  BY <1>1, <1>6, <1>7, EnqueueProperties DEF PartThen
<1>9. call'.pc = "idle" /\ call'.now = 0
  BY <1>1, ReturnedType
<1>10. next_delivery_time' = next_delivery_time
  BY <1>1 DEF next_delivery_time, linkState
<1>11. TypeOK'
  <2>1. log \in [arrivals : Nat, drops : Nat, opportunities : Nat,
                 departures : Nat, time : Nat]
    BY DEF TypeOK
  <2> DEFINE a == log.arrivals + 1
             d == log.drops + (Len(packet_queue) + 1 - Len(packet_queue'))
  <2>2. a \in Nat /\ d \in Nat
    BY <1>7, <1>8, <2>1
  <2>3. log' = [log EXCEPT !.arrivals = a, !.time = call.now, !.drops = d]
    BY <1>2
  <2> HIDE DEF a, d
  <2>4. log' \in [arrivals : Nat, drops : Nat, opportunities : Nat,
                  departures : Nat, time : Nat]
    BY <1>5, <2>1, <2>2, <2>3
  <2> QED
    BY <1>1, <1>8, <2>4, ReturnedType DEF TypeOK, linkState, transitState
<1>12. QueueCarriable'
  <2> SUFFICES ASSUME NEW i \in 1..Len(packet_queue')
               PROVE  Carriable(packet_queue'[i], next_delivery_time)
    BY <1>9, <1>10 DEF QueueCarriable, Carriable
  <2> QED BY <1>6, <1>8 DEF QueueCarriable
<1>13. TransitCarriable'
  BY <1>1, <1>9, <1>10 DEF TransitCarriable, Carriable, transitState
<1> QED
  BY <1>1, <1>9, <1>11, <1>12, <1>13, ParameterAssumption
     DEF NeverAborts, ClockBound, DeliveryBeforeNext, PacketFits, InCall

\* wait_time ends: the difference it returns is not negative.
LEMMA FinishWaitKeepsIInv ==
    ASSUME IInv, FinishWait
    PROVE  IInv'
<1> USE DEF IInv
<1> DEFINE r == (next_delivery_time - call.now) % UIntRange
<1>1. call.pc = "rationalize" /\ ~Due /\ call' = Returned(r)
      /\ UNCHANGED <<clock, linkState, packet_queue, transitState,
                     output_queue, log, written, history>>
  BY DEF FinishWait
<1>2. next_delivery_time \in Nat
  BY DeliveryTimeType DEF LinkTypes, TypeOK
<1>3. next_delivery_time - call.now \in Int
  BY <1>2, SMTT(30) DEF TypeOK
<1>4. r \in Nat
  BY <1>3, ParameterAssumption
<1> HIDE DEF r
<1>5. call'.pc = "idle" /\ call'.now = 0
  BY <1>1, <1>4, ReturnedType
<1>6. TypeOK'
  BY <1>1, <1>4, ReturnedType DEF TypeOK, linkState, transitState
<1>7. next_delivery_time' = next_delivery_time
  BY <1>1 DEF next_delivery_time, linkState
<1>8. QueueCarriable' /\ TransitCarriable'
  BY <1>1, <1>5, <1>7
     DEF QueueCarriable, TransitCarriable, Carriable, transitState
<1> QED
  BY <1>1, <1>5, <1>6, <1>8, ParameterAssumption
     DEF NeverAborts, ClockBound, DeliveryBeforeNext, PacketFits, InCall

\* write_packets only moves packets from the output queue to the descriptor.
LEMMA WriteKeepsIInv ==
    ASSUME IInv, write_packets
    PROVE  IInv'
<1> USE DEF IInv
<1>1. /\ written' = written \o output_queue
      /\ output_queue' = <<>>
      /\ UNCHANGED <<clock, linkState, packet_queue, transitState, call, log,
                     history>>
  BY DEF write_packets
<1>2. TypeOK'
  BY <1>1 DEF TypeOK, linkState, transitState
<1>3. next_delivery_time' = next_delivery_time
  BY <1>1 DEF next_delivery_time, linkState
<1>4. QueueCarriable' /\ TransitCarriable'
  BY <1>1, <1>3 DEF QueueCarriable, TransitCarriable, Carriable, transitState
<1> QED
  BY <1>1, <1>2, <1>3, <1>4
     DEF NeverAborts, ClockBound, DeliveryBeforeNext, PacketFits, InCall

\* Every step keeps the invariant, and the link's time does not go back.
LEMMA NextKeepsIInv ==
    ASSUME IInv, [Next]_vars
    PROVE  IInv' /\ next_delivery_time' >= next_delivery_time
<1>1. next_delivery_time \in Nat
  BY DeliveryTimeType DEF IInv, LinkTypes, TypeOK
<1>2. ASSUME UNCHANGED linkState
      PROVE  next_delivery_time' >= next_delivery_time
  <2>1. next_delivery_time' = next_delivery_time
    BY <1>2 DEF linkState, next_delivery_time
  <2> QED BY <1>1, <2>1
<1>3. CASE Call
  <2>1. ASSUME NEW size \in Sizes,
               read_packet([id |-> history.arrived + 1, size |-> size])
        PROVE  IInv' /\ UNCHANGED linkState
    <3> DEFINE p == [id |-> history.arrived + 1, size |-> size]
    <3>1. p \in [id : Nat, size : Nat] \cup {NoPacket}
          /\ p.size = size /\ size \in Nat /\ size > 0
      BY ParameterAssumption, SMTT(30) DEF IInv, TypeOK
    <3> HIDE DEF p
    <3>2. CASE p.size <= PACKET_SIZE /\ Begin("read_packet", p)
      <4>1. p.size \in 1..PACKET_SIZE
        BY <3>1, <3>2, ParameterAssumption
      <4>2. IInv'
        BY <3>1, <3>2, <4>1, BeginKeepsIInv
      <4> QED BY <3>2, <4>2 DEF Begin
    <3>3. CASE ReadOversized(p)
      BY <3>3, OversizedKeepsIInv DEF ReadOversized
    <3> QED BY <2>1, <3>2, <3>3 DEF read_packet, p
  <2>2. ASSUME wait_time PROVE IInv' /\ UNCHANGED linkState
    <3>1. IInv'
      BY <2>2, BeginKeepsIInv DEF wait_time
    <3> QED BY <2>2, <3>1 DEF wait_time, Begin
  <2>3. ASSUME write_packets PROVE IInv' /\ UNCHANGED linkState
    BY <2>3, WriteKeepsIInv DEF write_packets
  <2> QED BY <1>2, <1>3, <2>1, <2>2, <2>3 DEF Call
<1>4. CASE BurnOpportunity
  BY <1>4, BurnKeepsIInv
<1>5. CASE SendTransit \/ SendNext
  <2>1. UNCHANGED linkState
    BY <1>5 DEF SendTransit, SendNext, Send
  <2> QED BY <1>2, <1>5, <2>1, DeliverKeepsIInv
<1>6. CASE EndDelivery
  <2>1. UNCHANGED linkState
    BY <1>6 DEF EndDelivery
  <2> QED BY <1>2, <1>6, <2>1, EndDeliveryKeepsIInv
<1>7. CASE FinishRead
  <2>1. UNCHANGED linkState
    BY <1>7 DEF FinishRead
  <2> QED BY <1>2, <1>7, <2>1, FinishReadKeepsIInv
<1>8. CASE FinishWait
  <2>1. UNCHANGED linkState
    BY <1>8 DEF FinishWait
  <2> QED BY <1>2, <1>8, <2>1, FinishWaitKeepsIInv
<1>9. CASE Tick \/ StepBack
  <2>1. UNCHANGED linkState
    BY <1>9 DEF Tick, StepBack
  <2> QED BY <1>2, <1>9, <2>1, ClockKeepsIInv
<1>10. CASE UNCHANGED vars
  <2>1. UNCHANGED linkState
    BY <1>10 DEF vars
  <2>2. next_delivery_time' = next_delivery_time
    BY <2>1 DEF linkState, next_delivery_time
  <2>3. TypeOK'
    BY <1>10 DEF vars, linkState, transitState, IInv, TypeOK
  <2>4. QueueCarriable' /\ TransitCarriable'
    BY <1>10, <2>2 DEF vars, transitState, IInv, QueueCarriable,
                       TransitCarriable, Carriable
  <2>5. NeverAborts' /\ ClockBound' /\ DeliveryBeforeNext' /\ PacketFits'
    BY <1>10, <2>2 DEF vars, IInv, NeverAborts, ClockBound,
                       DeliveryBeforeNext, PacketFits, InCall
  <2> QED BY <1>2, <2>1, <2>3, <2>4, <2>5 DEF IInv
<1> QED
  BY <1>3, <1>4, <1>5, <1>6, <1>7, <1>8, <1>9, <1>10
     DEF Next, LinkStep, rationalize

\* The types, and what the link may still carry, are as IInv says in every
\* reachable state.
THEOREM Invariance == Spec => []IInv
<1>1. IInv /\ [Next]_vars => IInv'
  BY NextKeepsIInv
<1> QED
  BY <1>1, InitIInv, PTL DEF Spec

\* Every variable of LinkQueue keeps its type: no byte count, wait or counter of
\* the log becomes negative.
THEOREM TypeCorrect == Spec => []TypeOK
<1>1. IInv => TypeOK
  BY DEF IInv
<1> QED
  BY <1>1, Invariance, PTL

\* The four asserts of rationalize never fail: for every trace, every size and
\* every discipline, also when the wall clock is set back.
THEOREM AssertsHold == Spec => []NeverAborts
<1>1. IInv => NeverAborts
  BY DEF IInv
<1> QED
  BY <1>1, Invariance, PTL

\* next_delivery_time() never decreases, neither at the wraparound of the trace
\* nor when the wall clock is set back.
THEOREM TimeMonotone == Spec => DeliveryTimeMonotone
<1>1. IInv /\ [Next]_vars => [next_delivery_time' >= next_delivery_time]_vars
  BY NextKeepsIInv
<1> QED
  BY <1>1, Invariance, PTL DEF Spec, DeliveryTimeMonotone
-----------------------------------------------------------------------------
(* What a link delivers                                                    *)

\* All packets that have been sent in full, in the order they were sent.
Sent == written \o output_queue

Reading == InCall /\ call.op = "read_packet"

\* A step of the inner loop of rationalize: amount of the left bytes of p that
\* are still to go are sent; p was in transit, or is taken from the queue.
Sending(p, left, amount) ==
    /\ Delivering
    /\ p.size \in Nat /\ amount <= left /\ left <= p.size
    /\ amount <= call.bytes_left_in_this_delivery
    /\ \/ /\ packet_in_transit_bytes_left > 0
          /\ p = packet_in_transit
          /\ left = packet_in_transit_bytes_left
          /\ packet_queue' = packet_queue
       \/ /\ packet_in_transit_bytes_left = 0
          /\ Len(packet_queue) > 0
          /\ p = packet_queue[1]
          /\ left = p.size
          /\ ~DropsAtDequeue => Len(packet_queue') = Len(packet_queue) - 1
          /\ \E d \in Nat \ {0} : PartOf(packet_queue', packet_queue, d)
    /\ packet_in_transit' = p
    /\ packet_in_transit_bytes_left' = left - amount
    /\ Sent' = IF amount = left THEN Append(Sent, p) ELSE Sent
    /\ log' = IF amount = left
              THEN [log EXCEPT !.departures = @ + 1,
                               !.time = call.this_delivery_time]
              ELSE log
    /\ call' = [call EXCEPT !.bytes_left_in_this_delivery = @ - amount]
    /\ UNCHANGED <<clock, linkState, history>>

\* What is sent last stands last in the output.
LEMMA SentGrows ==
    ASSUME NEW S, NEW w \in Seq(S), NEW o \in Seq(S), NEW p \in S
    PROVE  w \o Append(o, p) = Append(w \o o, p)
  OBVIOUS

\* Sending a packet that can be carried: every assert holds, so control stays
\* in the loop.
LEMMA SendIsSending ==
    ASSUME IInv, Delivering,
           NEW p \in QueuedPackets, NEW left \in 1..p.size,
           Carriable(p, call.this_delivery_time), Send(p, left)
    PROVE  LET amount == amount_to_send(left) IN
           /\ amount \in Nat /\ amount <= left
           /\ amount <= call.bytes_left_in_this_delivery
           /\ packet_in_transit' = p
           /\ packet_in_transit_bytes_left' = left - amount
           /\ Sent' = IF amount = left THEN Append(Sent, p) ELSE Sent
           /\ log' = IF amount = left
                     THEN [log EXCEPT !.departures = @ + 1,
                                      !.time = call.this_delivery_time]
                     ELSE log
           /\ call' = [call EXCEPT !.bytes_left_in_this_delivery = @ - amount]
           /\ UNCHANGED <<clock, linkState, history>>
<1> USE DEF IInv
<1> DEFINE amount == amount_to_send(left)
<1>1. p.size \in Nat /\ left \in Nat \ {0} /\ left <= p.size
      /\ left <= PACKET_SIZE
  BY ParameterAssumption DEF QueuedPackets, Carriable
<1>2. TransitAsserts(p, left)
  BY <1>1, ParameterAssumption DEF TransitAsserts, Carriable
<1>3. call.bytes_left_in_this_delivery \in Nat
  BY DEF TypeOK
<1>4. amount \in Nat /\ amount <= left
      /\ amount <= call.bytes_left_in_this_delivery
  BY <1>1, <1>3 DEF amount_to_send
<1> HIDE DEF amount
<1>5. /\ packet_in_transit' = p
      /\ packet_in_transit_bytes_left' = left - amount
      /\ output_queue' = IF amount = left THEN Append(output_queue, p)
                                          ELSE output_queue
      /\ log' = IF amount = left
                THEN [log EXCEPT !.departures = @ + 1,
                                 !.time = call.this_delivery_time]
                ELSE log
      /\ UNCHANGED <<clock, linkState, written, history>>
  BY DEF Send, amount
<1>6. call' = [call EXCEPT !.bytes_left_in_this_delivery = @ - amount]
  <2>1. call' = [call EXCEPT !.pc = call.pc,
                             !.bytes_left_in_this_delivery = @ - amount]
    BY <1>2 DEF Send, amount
  <2> QED BY <2>1 DEF TypeOK
<1>7. Sent' = IF amount = left THEN Append(Sent, p) ELSE Sent
  <2>1. written \in Seq(QueuedPackets) /\ output_queue \in Seq(QueuedPackets)
    BY DEF TypeOK
  <2>2. written \o Append(output_queue, p) = Append(written \o output_queue, p)
    BY <2>1, SentGrows
  <2> QED BY <1>5, <2>2 DEF Sent
<1> QED BY <1>4, <1>5, <1>6, <1>7 DEF amount

\* Both kinds of iteration of the inner loop are such steps.
LEMMA DeliverIsSending ==
    ASSUME IInv, SendTransit \/ SendNext
    PROVE  \E p \in QueuedPackets, left \in Nat \ {0}, amount \in Nat :
               Sending(p, left, amount)
<1> USE DEF IInv
<1>1. CASE SendTransit
  <2> DEFINE p == packet_in_transit
             left == packet_in_transit_bytes_left
             amount == amount_to_send(left)
  <2>1. Delivering /\ left > 0 /\ packet_queue' = packet_queue /\ Send(p, left)
    BY <1>1 DEF SendTransit
  <2>2. p \in QueuedPackets /\ left \in 1..p.size /\ left \in Nat \ {0}
        /\ p.size \in Nat /\ left <= p.size
        /\ Carriable(p, call.this_delivery_time)
    BY <2>1 DEF TypeOK, TransitCarriable, QueuedPackets, Delivering
  <2> HIDE DEF amount
  <2>3. Sending(p, left, amount) /\ amount \in Nat
    BY <2>1, <2>2, SendIsSending DEF Sending, amount
  <2> QED BY <2>2, <2>3
<1>2. CASE SendNext
  <2> DEFINE p == Head(packet_queue)
             left == p.size
             amount == amount_to_send(left)
  <2>1. Delivering /\ packet_queue # <<>> /\ Send(p, left)
        /\ packet_in_transit_bytes_left = 0
        /\ packet_queue' \in DequeueOutcomes(packet_queue, DropsAtDequeue)
    BY <1>2 DEF SendNext
  <2>2. packet_queue \in Seq(QueuedPackets)
    BY DEF TypeOK
  <2>3. /\ p \in QueuedPackets
        /\ p = packet_queue[1]
        /\ Len(packet_queue) \in Nat \ {0}
        /\ ~DropsAtDequeue => Len(packet_queue') = Len(packet_queue) - 1
        /\ \E d \in Nat \ {0} : PartOf(packet_queue', packet_queue, d)
    BY <2>1, <2>2, DequeueProperties
  <2>4. 1 \in 1..Len(packet_queue) /\ Len(packet_queue) > 0
    BY <2>3
  <2> HIDE DEF p
  <2>5. Carriable(p, call.this_delivery_time)
    BY <2>1, <2>3, <2>4 DEF QueueCarriable, Delivering
  <2>6. p.size \in 1..p.size /\ p.size \in Nat \ {0} /\ p.size <= p.size
    BY <2>3, <2>5, ParameterAssumption DEF Carriable, QueuedPackets
  <2> HIDE DEF amount
  <2>7. Sending(p, left, amount) /\ amount \in Nat
    BY <2>1, <2>3, <2>4, <2>5, <2>6, SendIsSending DEF Sending, amount
  <2> QED BY <2>3, <2>6, <2>7
<1> QED BY <1>1, <1>2
-----------------------------------------------------------------------------
(* Arrival order                                                           *)

Ascending(s) == \A i, j \in 1..Len(s) : i < j => s[i].id < s[j].id
Before(s, id) == \A i \in 1..Len(s) : s[i].id < id
Behind(s, id) == \A i \in 1..Len(s) : id < s[i].id
Precedes(s, t) == \A i \in 1..Len(s), j \in 1..Len(t) : s[i].id < t[j].id

\* The packet that is being read is the newest one.
NewestRead == Reading => call.packet.id = history.arrived

\* The next packet that will be queued, or a later one.
Fresh(id) ==
    /\ Before(Sent, id)
    /\ Before(packet_queue, id)
    /\ packet_in_transit_bytes_left > 0 => packet_in_transit.id < id

\* The parts of the link hold packets in arrival order, each part before the
\* next one, and all of them older than the packet that comes next.
OrderInv ==
    /\ NewestRead
    /\ Ascending(Sent) /\ Ascending(packet_queue)
    /\ Precedes(Sent, packet_queue)
    /\ packet_in_transit_bytes_left > 0 =>
           Before(Sent, packet_in_transit.id)
               /\ Behind(packet_queue, packet_in_transit.id)
    /\ Fresh(history.arrived + 1)
    /\ Reading => Fresh(call.packet.id)

\* The types used below.
LEMMA HeldTypes ==
    ASSUME IInv
    PROVE  /\ Sent \in Seq(QueuedPackets)
           /\ packet_queue \in Seq(QueuedPackets)
           /\ packet_in_transit \in QueuedPackets
           /\ packet_in_transit_bytes_left \in Nat
           /\ history.arrived \in Nat
<1>1. written \in Seq(QueuedPackets) /\ output_queue \in Seq(QueuedPackets)
      /\ packet_queue \in Seq(QueuedPackets)
      /\ packet_in_transit \in QueuedPackets
      /\ packet_in_transit_bytes_left \in Nat
  BY DEF IInv, TypeOK
<1>2. history.arrived \in Nat
  BY DEF IInv, TypeOK
<1> QED BY <1>1, <1>2 DEF Sent

\* A step that moves no packet keeps the order.
LEMMA HeldSameKeepsOrder ==
    ASSUME OrderInv, Sent' = Sent, UNCHANGED <<packet_queue, transitState>>,
           history'.arrived = history.arrived,
           Reading' => Reading /\ call'.packet = call.packet
    PROVE  OrderInv'
  BY DEF OrderInv, NewestRead, Ascending, Before, Behind, Precedes, Fresh,
         transitState

\* A call begins: a packet that is read is newer than all others.
LEMMA BeginKeepsOrder ==
    ASSUME IInv, OrderInv, NEW op \in {"read_packet", "wait_time"}, NEW p,
           op = "read_packet" => p.id = history.arrived + 1,
           Begin(op, p)
    PROVE  OrderInv'
<1>1. /\ Sent' = Sent /\ UNCHANGED <<packet_queue, transitState>>
      /\ call' = [call EXCEPT !.pc = "rationalize", !.op = op, !.now = clock,
                              !.packet = p]
  BY DEF Begin, Sent
<1>2. call'.op = op /\ call'.packet = p
  BY <1>1 DEF IInv, TypeOK
<1>3. history'.arrived = history.arrived + (IF op = "read_packet" THEN 1 ELSE 0)
  BY DEF Begin, IInv, TypeOK
<1>4. PICK n \in Nat : n = history.arrived + 1
  BY HeldTypes
<1>5. PICK m \in Nat : m = history'.arrived + 1 /\ n <= m
  BY <1>3, <1>4, HeldTypes
<1>6. Fresh(n)
  BY <1>4 DEF OrderInv
<1>7. Fresh(n)' /\ Fresh(m)'
  <2>1. /\ Before(Sent, n) /\ Before(packet_queue, n)
        /\ packet_in_transit_bytes_left > 0 => packet_in_transit.id < n
    BY <1>6 DEF Fresh
  <2>2. /\ Before(Sent, m) /\ Before(packet_queue, m)
        /\ packet_in_transit_bytes_left > 0 => packet_in_transit.id < m
    <3>1. ASSUME NEW i \in 1..Len(Sent) PROVE Sent[i].id < m
      <4>1. Sent[i] \in QueuedPackets /\ Sent[i].id < n
        BY <2>1, HeldTypes DEF Before
      <4> QED BY <1>5, <4>1 DEF QueuedPackets
    <3>2. ASSUME NEW i \in 1..Len(packet_queue) PROVE packet_queue[i].id < m
      <4>1. packet_queue[i] \in QueuedPackets /\ packet_queue[i].id < n
        BY <2>1, HeldTypes DEF Before
      <4> QED BY <1>5, <4>1 DEF QueuedPackets
    <3>3. ASSUME packet_in_transit_bytes_left > 0 PROVE packet_in_transit.id < m
      <4> QED BY <1>5, <2>1, <3>3, HeldTypes DEF QueuedPackets
    <3> QED BY <3>1, <3>2, <3>3 DEF Before
  <2> QED BY <1>1, <2>1, <2>2 DEF Fresh, Before, transitState
<1>8. Reading' => op = "read_packet"
  BY <1>2 DEF Reading
<1>9. NewestRead' /\ (Reading' => Fresh(call.packet.id)')
  <2>1. ASSUME Reading' PROVE call'.packet.id = history'.arrived /\ call'.packet.id = n
    BY <1>2, <1>3, <1>4, <1>8, <2>1
  <2> QED BY <1>7, <2>1 DEF NewestRead, Fresh
<1>10. /\ Ascending(Sent)' /\ Ascending(packet_queue)'
       /\ Precedes(Sent, packet_queue)'
       /\ (packet_in_transit_bytes_left > 0)' =>
              Before(Sent, packet_in_transit.id)'
                  /\ Behind(packet_queue, packet_in_transit.id)'
  BY <1>1 DEF OrderInv, Ascending, Precedes, Before, Behind, transitState
<1> QED BY <1>5, <1>7, <1>9, <1>10 DEF OrderInv

\* Appending a packet that is newer than all of s.
LEMMA AppendOrder ==
    ASSUME NEW s \in Seq(QueuedPackets), NEW p \in QueuedPackets,
           Ascending(s), Before(s, p.id)
    PROVE  /\ Ascending(Append(s, p))
           /\ \A id \in Nat : Before(s, id) /\ p.id < id => Before(Append(s, p), id)
           /\ \A q \in Seq(QueuedPackets) :
                  Precedes(s, q) /\ Behind(q, p.id) => Precedes(Append(s, p), q)
<1> DEFINE n == Len(s)
           t == Append(s, p)
<1>1. n \in Nat /\ Len(t) = n + 1
      /\ \A i \in 1..(n + 1) : t[i] = IF i <= n THEN s[i] ELSE p
  OBVIOUS
<1> HIDE DEF t
<1>2. \A i \in 1..Len(t) : \/ i \in 1..n /\ t[i] = s[i]
                           \/ i = n + 1 /\ t[i] = p
  BY <1>1
<1>3. Ascending(t)
  <2> SUFFICES ASSUME NEW i \in 1..Len(t), NEW j \in 1..Len(t), i < j
               PROVE  t[i].id < t[j].id
    BY DEF Ascending
  <2>1. i \in 1..n /\ t[i] = s[i]
    BY <1>1, <1>2
  <2> QED BY <1>2, <2>1 DEF Ascending, Before
<1> QED BY <1>2, <1>3 DEF Before, Precedes, Behind, t

\* Packets that are left in order are in order, behind what was before them.
LEMMA PartOrder ==
    ASSUME NEW q \in Seq(QueuedPackets), NEW r \in Seq(QueuedPackets),
           NEW d \in Nat, PartOf(r, q, d), Ascending(q)
    PROVE  /\ Ascending(r)
           /\ d > 0 /\ Len(q) > 0 => Behind(r, q[1].id)
           /\ \A id \in Nat : Before(q, id) => Before(r, id)
           /\ \A s \in Seq(QueuedPackets) : Precedes(s, q) => Precedes(s, r)
<1>1. \A i \in 1..Len(r) : i + d \in 1..Len(q) /\ r[i] = q[i + d]
  BY DEF PartOf
<1>2. Ascending(r)
  <2> SUFFICES ASSUME NEW i \in 1..Len(r), NEW j \in 1..Len(r), i < j
               PROVE  r[i].id < r[j].id
    BY DEF Ascending
  <2>1. i + d < j + d
    OBVIOUS
  <2> QED BY <1>1, <2>1 DEF Ascending
<1>3. d > 0 /\ Len(q) > 0 => Behind(r, q[1].id)
  <2> SUFFICES ASSUME d > 0, Len(q) > 0, NEW i \in 1..Len(r)
               PROVE  q[1].id < r[i].id
    BY DEF Behind
  <2>1. 1 < i + d /\ 1 \in 1..Len(q)
    OBVIOUS
  <2> QED BY <1>1, <2>1 DEF Ascending
<1> QED BY <1>1, <1>2, <1>3 DEF Before, Precedes

\* One step of the inner loop: the packet moves to the end of the output or
\* stays between the output and the queue.
LEMMA SendingKeepsOrder ==
    ASSUME IInv, IInv', OrderInv,
           NEW p \in QueuedPackets, NEW left \in Nat \ {0}, NEW amount \in Nat,
           Sending(p, left, amount)
    PROVE  OrderInv'
<1> USE DEF OrderInv
<1>1. /\ Sent \in Seq(QueuedPackets) /\ Sent' \in Seq(QueuedPackets)
      /\ packet_queue \in Seq(QueuedPackets)
      /\ packet_queue' \in Seq(QueuedPackets)
      /\ history.arrived \in Nat
  <2>1. /\ written' \in Seq(QueuedPackets) /\ output_queue' \in Seq(QueuedPackets)
        /\ packet_queue' \in Seq(QueuedPackets)
    BY DEF IInv, TypeOK
  <2> QED BY <2>1, HeldTypes DEF Sent
<1>2. /\ Ascending(packet_queue')
      /\ Behind(packet_queue', p.id)
      /\ Before(Sent, p.id)
      /\ Precedes(Sent, packet_queue')
      /\ \A id \in Nat : Fresh(id) => Before(packet_queue', id) /\ p.id < id
  <2>1. CASE /\ packet_in_transit_bytes_left > 0
             /\ p = packet_in_transit
             /\ packet_queue' = packet_queue
    BY <2>1 DEF Fresh
  <2>2. CASE /\ Len(packet_queue) > 0
             /\ p = packet_queue[1]
             /\ \E d \in Nat \ {0} : PartOf(packet_queue', packet_queue, d)
    <3>1. PICK d \in Nat \ {0} : PartOf(packet_queue', packet_queue, d)
      BY <2>2
    <3>2. 1 \in 1..Len(packet_queue) /\ d > 0 /\ d \in Nat
      BY <1>1, <2>2, <3>1
    <3>3. /\ Ascending(packet_queue')
          /\ Behind(packet_queue', p.id)
          /\ \A id \in Nat : Before(packet_queue, id) => Before(packet_queue', id)
          /\ Precedes(Sent, packet_queue')
      BY <1>1, <2>2, <3>1, <3>2, PartOrder
    <3>4. Before(Sent, p.id)
      BY <2>2, <3>2 DEF Before, Precedes
    <3>5. \A id \in Nat : Fresh(id) => Before(packet_queue, id) /\ p.id < id
      BY <2>2, <3>2 DEF Fresh, Before
    <3> QED BY <3>3, <3>4, <3>5
  <2> QED BY <2>1, <2>2 DEF Sending
<1>3. /\ packet_in_transit' = p
      /\ Sent' = IF amount = left THEN Append(Sent, p) ELSE Sent
      /\ (packet_in_transit_bytes_left' > 0) => amount # left
  BY DEF Sending
<1>4. /\ Ascending(Sent') /\ Precedes(Sent', packet_queue')
      /\ \A id \in Nat : Before(Sent, id) /\ p.id < id => Before(Sent', id)
      /\ packet_in_transit_bytes_left' > 0 => Before(Sent', p.id)
  <2>1. CASE amount = left
    BY <1>1, <1>2, <1>3, <2>1, AppendOrder
  <2>2. CASE amount # left
    BY <1>1, <1>2, <1>3, <2>2
  <2> QED BY <2>1, <2>2
<1>5. ASSUME NEW id \in Nat, Fresh(id) PROVE Fresh(id)'
  <2>1. Before(Sent', id) /\ Before(packet_queue', id) /\ p.id < id
    BY <1>2, <1>4, <1>5 DEF Fresh
  <2> QED BY <1>3, <2>1 DEF Fresh, Before
<1>6. history' = history
      /\ call' = [call EXCEPT !.bytes_left_in_this_delivery = @ - amount]
  BY DEF Sending
<1>7. call'.packet = call.packet /\ (Reading' <=> Reading)
      /\ history'.arrived = history.arrived
  BY <1>6 DEF IInv, TypeOK, Reading, InCall
<1>8. Fresh(history.arrived + 1)'
  BY <1>1, <1>5, <1>7
<1>9. Reading' => Fresh(call.packet.id)'
  <2> SUFFICES ASSUME Reading' PROVE Fresh(call.packet.id)'
    OBVIOUS
  <2>1. Reading /\ call.packet.id = history.arrived
    BY <1>7 DEF NewestRead
  <2> QED BY <1>1, <1>5, <1>7, <2>1
<1> QED BY <1>2, <1>3, <1>4, <1>7, <1>8, <1>9 DEF NewestRead

\* read_packet ends: the packet that joins the queue is newer than all others,
\* whatever the queue discards.
LEMMA FinishReadKeepsOrder ==
    ASSUME IInv, IInv', OrderInv, FinishRead
    PROVE  OrderInv'
<1> USE DEF OrderInv
<1>1. PICK p : p = QueuedPacket(call.packet, call.now)
  OBVIOUS
<1>2. /\ call.pc = "rationalize" /\ call.op = "read_packet"
      /\ packet_queue' \in EnqueueOutcomes(packet_queue, p)
      /\ call' = Returned(0)
      /\ UNCHANGED <<transitState, output_queue, written, history>>
  BY <1>1 DEF FinishRead
<1>3. Reading /\ ~Reading'
  BY <1>2 DEF Reading, InCall, Returned
<1>4. p \in QueuedPackets /\ p.id = history.arrived /\ p.id = call.packet.id
  <2>1. call.packet.size \in 1..PACKET_SIZE /\ call.now \in Nat
        /\ call.packet \in [id : Nat, size : Nat] \cup {NoPacket}
    BY <1>3 DEF IInv, TypeOK, PacketFits, Reading
  <2> QED
    BY <1>1, <1>3, <2>1, ParameterAssumption
       DEF QueuedPacket, QueuedPackets, NewestRead, NoPacket
<1>5. /\ Sent \in Seq(QueuedPackets) /\ packet_queue \in Seq(QueuedPackets)
      /\ packet_in_transit \in QueuedPackets
      /\ packet_queue' \in Seq(QueuedPackets) /\ history.arrived \in Nat
  <2>1. packet_queue' \in Seq(QueuedPackets)
    BY DEF IInv, TypeOK
  <2> QED BY <2>1, HeldTypes
<1>6. PICK d \in Nat : PartThen(packet_queue', packet_queue, d, p)
  BY <1>2, <1>4, <1>5, EnqueueProperties
<1>7. \A i \in 1..Len(packet_queue') :
          \/ /\ i + d \in 1..Len(packet_queue)
             /\ packet_queue'[i] = packet_queue[i + d]
          \/ /\ i = Len(packet_queue') /\ packet_queue'[i] = p
  BY <1>6 DEF PartThen
<1>8. Fresh(p.id) /\ Sent' = Sent
  BY <1>2, <1>3, <1>4 DEF Sent
<1>9. Ascending(packet_queue')
  <2> SUFFICES ASSUME NEW i \in 1..Len(packet_queue'),
                      NEW j \in 1..Len(packet_queue'), i < j
               PROVE  packet_queue'[i].id < packet_queue'[j].id
    BY DEF Ascending
  <2>1. i # Len(packet_queue') /\ i + d < j + d
    BY <1>5
  <2>2. i + d \in 1..Len(packet_queue) /\ packet_queue'[i] = packet_queue[i + d]
    BY <1>7, <2>1
  <2> QED BY <1>7, <1>8, <2>1, <2>2 DEF Ascending, Fresh, Before
<1>10. Precedes(Sent, packet_queue')
  BY <1>7, <1>8 DEF Precedes, Fresh, Before
<1>11. packet_in_transit_bytes_left > 0 =>
           Behind(packet_queue', packet_in_transit.id)
  BY <1>7, <1>8 DEF Behind, Fresh
<1>12. Before(packet_queue', history.arrived + 1)
  <2>1. p.id < history.arrived + 1
    BY <1>4, <1>5
  <2> QED BY <1>7, <2>1 DEF Before, Fresh
<1>13. Fresh(history.arrived + 1)'
  BY <1>2, <1>8, <1>12 DEF Fresh, Before, transitState
<1>14. packet_in_transit_bytes_left' > 0 =>
           Before(Sent', packet_in_transit'.id)
               /\ Behind(packet_queue', packet_in_transit'.id)
  BY <1>2, <1>8, <1>11 DEF transitState
<1> QED BY <1>3, <1>8, <1>9, <1>10, <1>13, <1>14 DEF NewestRead, Ascending

\* Every step keeps the order.
LEMMA NextKeepsOrder ==
    ASSUME IInv, IInv', OrderInv, [Next]_vars
    PROVE  OrderInv'
<1>1. CASE Call
  <2>1. ASSUME NEW size \in Sizes,
               read_packet([id |-> history.arrived + 1, size |-> size])
        PROVE  OrderInv'
    <3> DEFINE p == [id |-> history.arrived + 1, size |-> size]
    <3>1. p.id = history.arrived + 1
      OBVIOUS
    <3> HIDE DEF p
    <3>2. CASE Begin("read_packet", p)
      BY <3>1, <3>2, BeginKeepsOrder
    <3>3. CASE ReadOversized(p)
      <4>1. /\ call' = [call EXCEPT !.pc = "terminated", !.op = "read_packet"]
            /\ UNCHANGED <<packet_queue, transitState, output_queue, written,
                           history>>
        BY <3>3 DEF ReadOversized
      <4>2. ~Reading' /\ Sent' = Sent
        BY <4>1 DEF Reading, InCall, IInv, TypeOK, Sent
      <4> QED BY <4>1, <4>2, HeldSameKeepsOrder
    <3> QED BY <2>1, <3>2, <3>3 DEF read_packet, p
  <2>2. CASE wait_time
    BY <2>2, BeginKeepsOrder DEF wait_time
  <2>3. CASE write_packets
    <3>1. /\ Sent' = Sent
          /\ UNCHANGED <<packet_queue, transitState, call, history>>
      <4>1. /\ written' = written \o output_queue /\ output_queue' = <<>>
            /\ UNCHANGED <<packet_queue, transitState, call, history>>
        BY <2>3 DEF write_packets
      <4>2. (written \o output_queue) \o <<>> = written \o output_queue
        BY DEF IInv, TypeOK
      <4> QED BY <4>1, <4>2 DEF Sent
    <3> QED BY <3>1, HeldSameKeepsOrder DEF Reading, InCall
  <2> QED BY <1>1, <2>1, <2>2, <2>3 DEF Call
<1>2. CASE BurnOpportunity
  <2>1. /\ call' = [call EXCEPT !.pc = "deliver",
                                !.this_delivery_time = next_delivery_time,
                                !.bytes_left_in_this_delivery = PACKET_SIZE]
        /\ Sent' = Sent /\ call.pc = "rationalize"
        /\ UNCHANGED <<packet_queue, transitState, history>>
    BY <1>2 DEF BurnOpportunity, Due, Sent
  <2>2. call'.packet = call.packet /\ (Reading' <=> Reading)
    BY <2>1 DEF Reading, InCall, IInv, TypeOK
  <2> QED BY <2>1, <2>2, HeldSameKeepsOrder
<1>3. CASE SendTransit \/ SendNext
  BY <1>3, DeliverIsSending, SendingKeepsOrder
<1>4. CASE EndDelivery
  <2>1. /\ call' = [call EXCEPT !.pc = "rationalize"]
        /\ Sent' = Sent /\ call.pc = "deliver"
        /\ UNCHANGED <<packet_queue, transitState>>
    BY <1>4 DEF EndDelivery, Sent
  <2>2. call'.packet = call.packet /\ (Reading' <=> Reading)
    BY <2>1 DEF Reading, InCall, IInv, TypeOK
  <2>3. history'.arrived = history.arrived
    BY <1>4 DEF EndDelivery, IInv, TypeOK
  <2> QED BY <2>1, <2>2, <2>3, HeldSameKeepsOrder
<1>5. CASE FinishRead
  BY <1>5, FinishReadKeepsOrder
<1>6. CASE FinishWait
  <2>1. ~Reading' /\ Sent' = Sent
        /\ UNCHANGED <<packet_queue, transitState, history>>
    BY <1>6 DEF FinishWait, Sent, Reading, InCall, Returned
  <2> QED BY <2>1, HeldSameKeepsOrder
<1>7. CASE Tick \/ StepBack \/ UNCHANGED vars
  <2>1. UNCHANGED <<packet_queue, transitState, output_queue, written, call,
                    history>>
    BY <1>7 DEF Tick, StepBack, vars
  <2> QED BY <2>1, HeldSameKeepsOrder DEF Sent, Reading, InCall
<1> QED
  BY <1>1, <1>2, <1>3, <1>4, <1>5, <1>6, <1>7 DEF Next, LinkStep, rationalize

\* OrderInv speaks of the parts, InOrder of the line they form.
LEMMA OrderImpliesInOrder == IInv /\ OrderInv => InOrder
<1> SUFFICES ASSUME IInv, OrderInv PROVE InOrder
  OBVIOUS
<1> DEFINE a == Sent
           b == InTransit
           c == packet_queue
           line == a \o b \o c
<1>1. a \in Seq(QueuedPackets) /\ c \in Seq(QueuedPackets)
      /\ b \in Seq(QueuedPackets) /\ Len(b) \in {0, 1}
      /\ packet_in_transit \in QueuedPackets
  BY HeldTypes DEF InTransit
<1>2. \A i \in 1..Len(b) : b[i] = packet_in_transit /\ i = 1
                           /\ packet_in_transit_bytes_left > 0
  BY DEF InTransit
<1>3. Ascending(a) /\ Ascending(c) /\ Precedes(a, c)
      /\ (packet_in_transit_bytes_left > 0 =>
             Before(a, packet_in_transit.id) /\ Behind(c, packet_in_transit.id))
  BY DEF OrderInv
<1> HIDE DEF a, b, c
<1>4. Ascending(b) /\ Precedes(a, b) /\ Precedes(b, c)
  BY <1>1, <1>2, <1>3 DEF Ascending, Precedes, Before, Behind
<1>5. ASSUME NEW s \in Seq(QueuedPackets), NEW t \in Seq(QueuedPackets),
             Ascending(s), Ascending(t), Precedes(s, t)
      PROVE  Ascending(s \o t)
  <2>1. /\ Len(s) \in Nat /\ Len(t) \in Nat
        /\ Len(s \o t) = Len(s) + Len(t)
        /\ \A i \in 1..(Len(s) + Len(t)) :
              (s \o t)[i] = IF i <= Len(s) THEN s[i] ELSE t[i - Len(s)]
    OBVIOUS
  <2> DEFINE u == s \o t
  <2> SUFFICES ASSUME NEW i \in 1..Len(u), NEW j \in 1..Len(u), i < j
               PROVE  u[i].id < u[j].id
    BY DEF Ascending
  <2> HIDE DEF u
  <2>2. /\ i \in 1..(Len(s) + Len(t)) /\ j \in 1..(Len(s) + Len(t))
        /\ u[i] = IF i <= Len(s) THEN s[i] ELSE t[i - Len(s)]
        /\ u[j] = IF j <= Len(s) THEN s[j] ELSE t[j - Len(s)]
    BY <2>1 DEF u
  <2>3. CASE j <= Len(s)
    <3>1. i \in 1..Len(s) /\ j \in 1..Len(s)
      BY <2>1, <2>2, <2>3
    <3> QED BY <1>5, <2>2, <2>3, <3>1 DEF Ascending
  <2>4. CASE i > Len(s)
    <3>1. /\ i - Len(s) \in 1..Len(t) /\ j - Len(s) \in 1..Len(t)
          /\ i - Len(s) < j - Len(s) /\ ~(i <= Len(s)) /\ ~(j <= Len(s))
      BY <2>1, <2>2, <2>4
    <3> QED BY <1>5, <2>2, <3>1 DEF Ascending
  <2>5. CASE i <= Len(s) /\ ~(j <= Len(s))
    <3>1. i \in 1..Len(s) /\ j - Len(s) \in 1..Len(t)
      BY <2>1, <2>2, <2>5
    <3> QED BY <1>5, <2>2, <2>5, <3>1 DEF Precedes
  <2> QED BY <2>1, <2>2, <2>3, <2>4, <2>5
<1>6. Ascending(a \o b) /\ a \o b \in Seq(QueuedPackets)
  BY <1>1, <1>3, <1>4, <1>5
<1>7. Precedes(a \o b, c)
  <2>1. \A i \in 1..Len(a \o b) :
            \/ i \in 1..Len(a) /\ (a \o b)[i] = a[i]
            \/ i - Len(a) \in 1..Len(b) /\ (a \o b)[i] = b[i - Len(a)]
    BY <1>1
  <2> QED BY <1>3, <1>4, <2>1 DEF Precedes
<1>8. Ascending(line)
  BY <1>1, <1>3, <1>5, <1>6, <1>7
<1> QED BY <1>8 DEF Ascending, InOrder, Sent, a, b, c

\* Nothing is held when the link is constructed.
LEMMA InitOrder == Init => OrderInv
  BY DEF Init, Returned, OrderInv, NewestRead, Reading, InCall, Ascending,
         Before, Behind, Precedes, Fresh, Sent

LEMMA OrderInvariance == Spec => []OrderInv
<1>1. IInv /\ IInv' /\ OrderInv /\ [Next]_vars => OrderInv'
  BY NextKeepsOrder
<1> QED BY <1>1, Invariance, InitOrder, PTL DEF Spec

\* The link never reorders or duplicates a packet, whatever the trace, the
\* sizes, the discipline and the clock do.
THEOREM ArrivalOrder == Spec => []InOrder
  BY Invariance, OrderInvariance, OrderImpliesInOrder, PTL
-----------------------------------------------------------------------------
(* The log                                                                 *)

\* LogAccountsForPackets in every state, also while a call is in progress.
AccountInv ==
    /\ log.departures = Len(Sent)
    /\ ~DropsAtDequeue =>
           log.arrivals = log.drops + log.departures
                             + Len(InTransit) + Len(packet_queue)

LogType == [arrivals : Nat, drops : Nat, opportunities : Nat,
            departures : Nat, time : Nat]

\* A step that moves no packet and logs none.
LEMMA HeldSameKeepsAccount ==
    ASSUME AccountInv, Sent' = Sent, UNCHANGED <<packet_queue, transitState>>,
           log'.arrivals = log.arrivals, log'.drops = log.drops,
           log'.departures = log.departures
    PROVE  AccountInv'
  BY DEF AccountInv, InTransit, transitState

\* A step of the inner loop: a packet that leaves the link is logged once.
LEMMA SendingKeepsAccount ==
    ASSUME IInv, IInv', AccountInv,
           NEW p \in QueuedPackets, NEW left \in Nat \ {0}, NEW amount \in Nat,
           Sending(p, left, amount)
    PROVE  AccountInv'
<1> DEFINE n == IF packet_in_transit_bytes_left > 0 THEN 1 ELSE 0
           m == IF amount = left THEN 0 ELSE 1
<1>1. log \in LogType /\ Sent \in Seq(QueuedPackets)
      /\ packet_queue \in Seq(QueuedPackets)
      /\ packet_queue' \in Seq(QueuedPackets)
  BY HeldTypes DEF IInv, TypeOK, LogType
<1>2. Len(InTransit) = n /\ Len(InTransit') = m
  <2>1. packet_in_transit_bytes_left' = left - amount /\ amount <= left
    BY DEF Sending
  <2>2. packet_in_transit_bytes_left' > 0 <=> amount # left
    BY <2>1
  <2> QED BY <2>2 DEF InTransit
<1>3. ~DropsAtDequeue => n + Len(packet_queue) = 1 + Len(packet_queue')
  BY <1>1 DEF Sending
<1>4. /\ Sent' = IF amount = left THEN Append(Sent, p) ELSE Sent
      /\ log' = IF amount = left
                THEN [log EXCEPT !.departures = @ + 1,
                                 !.time = call.this_delivery_time]
                ELSE log
  BY DEF Sending
<1>5. /\ log'.departures = log.departures + 1 - m
      /\ log'.arrivals = log.arrivals /\ log'.drops = log.drops
      /\ Len(Sent') = Len(Sent) + 1 - m
  BY <1>1, <1>4 DEF LogType
<1>6. log.departures \in Nat /\ log.arrivals \in Nat /\ log.drops \in Nat
      /\ n \in Nat /\ m \in Nat
      /\ Len(packet_queue) \in Nat /\ Len(packet_queue') \in Nat
      /\ Len(Sent) \in Nat
  BY <1>1 DEF LogType
<1> HIDE DEF n, m
<1>7. log'.departures = Len(Sent')
  BY <1>5, <1>6 DEF AccountInv
<1>8. ASSUME ~DropsAtDequeue
      PROVE  log'.arrivals = log'.drops + log'.departures + m + Len(packet_queue')
  <2>1. log.arrivals = log.drops + log.departures + n + Len(packet_queue)
    BY <1>2, <1>8 DEF AccountInv
  <2>2. n + Len(packet_queue) = 1 + Len(packet_queue')
    BY <1>3, <1>8
  <2> DEFINE dep == log.departures
             drops == log.drops
             old == Len(packet_queue)
             new == Len(packet_queue')
  <2>3. /\ log'.arrivals = drops + dep + n + old
        /\ log'.drops = drops /\ log'.departures = dep + 1 - m
        /\ n + old = 1 + new
        /\ drops \in Nat /\ dep \in Nat /\ old \in Nat /\ new \in Nat
        /\ n \in Nat /\ m \in Nat
    BY <1>5, <1>6, <2>1, <2>2
  <2> HIDE DEF dep, drops, old, new
  <2>4. drops + dep + n + old = drops + (dep + 1 - m) + m + new
    BY <2>3
  <2> QED BY <2>3, <2>4 DEF new
<1> QED BY <1>2, <1>7, <1>8 DEF AccountInv

\* read_packet ends: the drops it logs are the packets that are missing.
LEMMA FinishReadKeepsAccount ==
    ASSUME IInv, IInv', AccountInv, FinishRead
    PROVE  AccountInv'
<1>1. log \in LogType /\ Sent \in Seq(QueuedPackets)
      /\ packet_queue \in Seq(QueuedPackets)
      /\ packet_queue' \in Seq(QueuedPackets)
  BY HeldTypes DEF IInv, TypeOK, LogType
<1>2. /\ Sent' = Sent /\ UNCHANGED transitState
      /\ log' = [log EXCEPT !.arrivals = @ + 1, !.time = call.now,
                            !.drops = @ + (Len(packet_queue) + 1
                                              - Len(packet_queue'))]
  BY DEF FinishRead, Sent
<1>3. /\ log'.arrivals = log.arrivals + 1
      /\ log'.drops = log.drops + (Len(packet_queue) + 1 - Len(packet_queue'))
      /\ log'.departures = log.departures
  BY <1>1, <1>2 DEF LogType
<1>4. Len(InTransit') = Len(InTransit) /\ Len(InTransit) \in Nat
  BY <1>2 DEF InTransit, transitState
<1>5. log.departures \in Nat /\ log.arrivals \in Nat /\ log.drops \in Nat
      /\ Len(packet_queue) \in Nat /\ Len(packet_queue') \in Nat
  BY <1>1 DEF LogType
<1> QED BY <1>2, <1>3, <1>4, <1>5 DEF AccountInv

\* Every step keeps the account.
LEMMA NextKeepsAccount ==
    ASSUME IInv, IInv', AccountInv, [Next]_vars
    PROVE  AccountInv'
<1>1. CASE Call \/ EndDelivery \/ FinishWait \/ Tick \/ StepBack
              \/ UNCHANGED vars
  <2>1. UNCHANGED <<packet_queue, transitState, log>>
    BY <1>1 DEF Call, read_packet, wait_time, Begin, ReadOversized,
                write_packets, EndDelivery, FinishWait, Tick, StepBack, vars
  <2>2. Sent' = Sent
    <3>1. CASE write_packets
      <4>1. (written \o output_queue) \o <<>> = written \o output_queue
        BY DEF IInv, TypeOK
      <4> QED BY <3>1, <4>1 DEF write_packets, Sent
    <3>2. CASE ~write_packets
      BY <1>1, <3>2 DEF Call, read_packet, wait_time, Begin, ReadOversized,
                        EndDelivery, FinishWait, Tick, StepBack, vars, Sent
    <3> QED BY <3>1, <3>2
  <2> QED BY <2>1, <2>2, HeldSameKeepsAccount
<1>2. CASE BurnOpportunity
  <2>1. /\ Sent' = Sent /\ UNCHANGED <<packet_queue, transitState>>
        /\ log' = [log EXCEPT !.opportunities = @ + 1,
                              !.time = next_delivery_time]
    BY <1>2 DEF BurnOpportunity, use_a_delivery_opportunity, Sent
  <2>2. log'.arrivals = log.arrivals /\ log'.drops = log.drops
        /\ log'.departures = log.departures
    BY <2>1 DEF IInv, TypeOK
  <2> QED BY <2>1, <2>2, HeldSameKeepsAccount
<1>3. CASE SendTransit \/ SendNext
  BY <1>3, DeliverIsSending, SendingKeepsAccount
<1>4. CASE FinishRead
  BY <1>4, FinishReadKeepsAccount
<1> QED BY <1>1, <1>2, <1>3, <1>4 DEF Next, LinkStep, rationalize

\* Nothing has been logged and nothing is held at the start.
LEMMA InitAccount == Init => AccountInv
  BY DEF Init, AccountInv, Sent, InTransit

\* For every discipline that does not drop at dequeue the log accounts for
\* every packet the link was given.
THEOREM LogAccounts == Spec => []LogAccountsForPackets
<1>1. IInv /\ IInv' /\ AccountInv /\ [Next]_vars => AccountInv'
  BY NextKeepsAccount
<1>2. IInv /\ AccountInv => LogAccountsForPackets
  <2>1. IInv => Len(Sent) = Len(written) + Len(output_queue)
    BY DEF IInv, TypeOK, Sent
  <2> QED BY <2>1 DEF AccountInv, LogAccountsForPackets
<1> QED
  BY <1>1, <1>2, Invariance, InitAccount, PTL DEF Spec
-----------------------------------------------------------------------------
(* Time                                                                    *)

\* The clock stands still during a call, and the opportunity being used is due.
CallTimes ==
    /\ InCall => call.now = clock
    /\ call.pc = "deliver" => call.this_delivery_time <= call.now

\* While opportunities are used the log has the time of the current one; at
\* other times it is not ahead of the next one.
LogTimes ==
    /\ log.time <= next_delivery_time
    /\ call.pc = "deliver" => log.time = call.this_delivery_time

\* While the clock is not set back, nothing recorded lies in the future.
NotInFuture ==
    MaxStepBack = 0 => log.time <= clock /\ history.idle_at <= clock

HeldSince(time) ==
    /\ \A i \in 1..Len(packet_queue) : packet_queue[i].arrival_time >= time
    /\ packet_in_transit_bytes_left > 0 => packet_in_transit.arrival_time >= time

\* WorkConserving, of the queue and the transit slot each.
NothingWaited == MaxStepBack = 0 => HeldSince(history.idle_at)

TimeInv == CallTimes /\ LogTimes /\ NotInFuture /\ NothingWaited

\* The types used below.
LEMMA TimeTypes ==
    ASSUME IInv
    PROVE  /\ next_delivery_time \in Nat /\ clock \in Nat /\ call.now \in Nat
           /\ call.this_delivery_time \in Nat
           /\ log \in LogType /\ history.idle_at \in Nat
           /\ MaxStepBack \in Nat
<1>1. next_delivery_time \in Nat
  BY DeliveryTimeType DEF IInv, LinkTypes, TypeOK
<1>2. clock \in Nat /\ call.now \in Nat /\ call.this_delivery_time \in Nat
  BY DEF IInv, TypeOK
<1>3. log \in LogType /\ history.idle_at \in Nat
  BY DEF IInv, TypeOK, LogType
<1> QED BY <1>1, <1>2, <1>3, ParameterAssumption

\* A step between calls, or from one to the other, that logs nothing.
LEMMA QuietKeepsTime ==
    ASSUME IInv, TimeInv,
           UNCHANGED <<linkState, packet_queue, transitState, log>>,
           history'.idle_at = history.idle_at,
           MaxStepBack = 0 => clock <= clock', clock' \in Nat,
           InCall' => call'.now = clock', call'.pc # "deliver"
    PROVE  TimeInv'
<1>1. next_delivery_time' = next_delivery_time
  BY DEF next_delivery_time, linkState
<1>2. CallTimes' /\ LogTimes'
  BY <1>1 DEF TimeInv, CallTimes, LogTimes
<1>3. NotInFuture'
  BY TimeTypes DEF TimeInv, NotInFuture, LogType
<1>4. NothingWaited'
  BY DEF TimeInv, NothingWaited, HeldSince, transitState
<1> QED BY <1>2, <1>3, <1>4 DEF TimeInv

\* Burning an opportunity that is due.
LEMMA BurnKeepsTime ==
    ASSUME IInv, TimeInv, BurnOpportunity,
           next_delivery_time' >= next_delivery_time
    PROVE  TimeInv' /\ log'.time >= log.time
<1>1. PICK t \in Nat : t = next_delivery_time
  BY TimeTypes
<1>2. /\ call' = [call EXCEPT !.pc = "deliver", !.this_delivery_time = t,
                              !.bytes_left_in_this_delivery = PACKET_SIZE]
      /\ log' = [log EXCEPT !.opportunities = @ + 1, !.time = t]
      /\ call.pc = "rationalize" /\ t <= call.now
      /\ UNCHANGED <<clock, packet_queue, transitState, history>>
  BY <1>1 DEF BurnOpportunity, use_a_delivery_opportunity, Due
<1>3. call'.pc = "deliver" /\ call'.this_delivery_time = t
      /\ call'.now = call.now /\ log'.time = t
  BY <1>2 DEF IInv, TypeOK
<1>4. CallTimes'
  BY <1>2, <1>3 DEF TimeInv, CallTimes, InCall
<1>5. LogTimes'
  BY <1>1, <1>3 DEF LogTimes
<1>6. NotInFuture'
  BY <1>2, <1>3 DEF TimeInv, CallTimes, InCall, NotInFuture
<1>7. NothingWaited'
  BY <1>2 DEF TimeInv, NothingWaited, HeldSince, transitState
<1>8. log'.time >= log.time
  BY <1>1, <1>3, TimeTypes DEF TimeInv, LogTimes, LogType
<1> QED BY <1>4, <1>5, <1>6, <1>7, <1>8 DEF TimeInv

\* A step of the inner loop: a departure has the time of its opportunity.
LEMMA SendingKeepsTime ==
    ASSUME IInv, TimeInv,
           NEW p \in QueuedPackets, NEW left \in Nat \ {0}, NEW amount \in Nat,
           Sending(p, left, amount)
    PROVE  TimeInv' /\ log'.time >= log.time
<1>1. /\ call' = [call EXCEPT !.bytes_left_in_this_delivery = @ - amount]
      /\ log' = IF amount = left
                THEN [log EXCEPT !.departures = @ + 1,
                                 !.time = call.this_delivery_time]
                ELSE log
      /\ packet_in_transit' = p /\ call.pc = "deliver"
      /\ UNCHANGED <<clock, linkState, history>>
  BY DEF Sending, Delivering
<1>2. call'.pc = "deliver" /\ call'.now = call.now
      /\ call'.this_delivery_time = call.this_delivery_time
  BY <1>1 DEF IInv, TypeOK
<1>3. log'.time = log.time
  BY <1>1, TimeTypes DEF TimeInv, LogTimes, LogType
<1>4. next_delivery_time' = next_delivery_time
  BY <1>1 DEF next_delivery_time, linkState
<1>5. CallTimes' /\ LogTimes' /\ NotInFuture'
  BY <1>1, <1>2, <1>3, <1>4
     DEF TimeInv, CallTimes, LogTimes, NotInFuture, InCall
<1>6. NothingWaited'
  <2> SUFFICES ASSUME MaxStepBack = 0 PROVE HeldSince(history.idle_at)'
    BY DEF NothingWaited
  <2> DEFINE t == history.idle_at
  <2>1. HeldSince(t) /\ t \in Nat
    BY TimeTypes DEF TimeInv, NothingWaited
  <2> HIDE DEF t
  <2>2. p.arrival_time >= t
        /\ \A i \in 1..Len(packet_queue') : packet_queue'[i].arrival_time >= t
    <3>1. CASE /\ packet_in_transit_bytes_left > 0
               /\ p = packet_in_transit
               /\ packet_queue' = packet_queue
      BY <2>1, <3>1 DEF HeldSince
    <3>2. CASE /\ Len(packet_queue) > 0
               /\ p = packet_queue[1]
               /\ \E d \in Nat \ {0} : PartOf(packet_queue', packet_queue, d)
      <4>1. 1 \in 1..Len(packet_queue)
        BY <3>2, HeldTypes
      <4> QED BY <2>1, <3>2, <4>1 DEF HeldSince, PartOf
    <3> QED BY <3>1, <3>2 DEF Sending
  <2> QED BY <1>1, <2>2 DEF HeldSince, t
<1>7. log.time \in Nat
  BY TimeTypes DEF LogType
<1> QED BY <1>3, <1>5, <1>6, <1>7 DEF TimeInv

\* The inner loop ends.  If the opportunity was not used up nothing waits.
LEMMA EndDeliveryKeepsTime ==
    ASSUME IInv, TimeInv, EndDelivery
    PROVE  TimeInv'
<1>1. /\ call.pc = "deliver" /\ call' = [call EXCEPT !.pc = "rationalize"]
      /\ UNCHANGED <<clock, linkState, packet_queue, transitState, log>>
  BY DEF EndDelivery
<1>2. call'.pc = "rationalize" /\ call'.now = call.now
  BY <1>1 DEF IInv, TypeOK
<1>3. next_delivery_time' = next_delivery_time
  BY <1>1 DEF next_delivery_time, linkState
<1>4. CallTimes' /\ LogTimes'
  BY <1>1, <1>2, <1>3 DEF TimeInv, CallTimes, LogTimes, InCall
<1>5. CASE history' = history
  <2>1. NotInFuture' /\ NothingWaited'
    BY <1>1, <1>5 DEF TimeInv, NotInFuture, NothingWaited, HeldSince,
                      transitState
  <2> QED BY <1>4, <2>1 DEF TimeInv
<1>6. CASE /\ packet_in_transit_bytes_left = 0 /\ packet_queue = <<>>
           /\ history' = [history EXCEPT !.idle_at = call.this_delivery_time]
  <2>1. history'.idle_at = call.this_delivery_time
    BY <1>6 DEF IInv, TypeOK
  <2>2. NotInFuture'
    BY <1>1, <2>1, TimeTypes DEF TimeInv, NotInFuture, CallTimes, InCall
  <2>3. NothingWaited'
    BY <1>1, <1>6 DEF NothingWaited, HeldSince, transitState
  <2> QED BY <1>4, <2>2, <2>3 DEF TimeInv
<1> QED BY <1>5, <1>6 DEF EndDelivery

\* read_packet ends: the arrival is logged at the time of the call, which is
\* not before anything logged and not after the next opportunity.
LEMMA FinishReadKeepsTime ==
    ASSUME IInv, TimeInv, FinishRead
    PROVE  TimeInv' /\ (MaxStepBack = 0 => log'.time >= log.time)
<1>1. PICK p : p = QueuedPacket(call.packet, call.now)
  OBVIOUS
<1>2. /\ call.pc = "rationalize" /\ ~Due /\ call.op = "read_packet"
      /\ packet_queue' \in EnqueueOutcomes(packet_queue, p)
      /\ call' = Returned(0)
      /\ UNCHANGED <<clock, linkState, transitState, history>>
      /\ log' = [log EXCEPT !.arrivals = @ + 1, !.time = call.now,
                            !.drops = @ + (Len(packet_queue) + 1
                                              - Len(packet_queue'))]
  BY <1>1 DEF FinishRead
<1>3. log'.time = call.now /\ call.now = clock /\ call'.pc = "idle"
  BY <1>2, TimeTypes DEF LogType, TimeInv, CallTimes, InCall, Returned
<1>4. next_delivery_time' = next_delivery_time
  BY <1>2 DEF next_delivery_time, linkState
<1>5. call.now <= next_delivery_time
  BY <1>2, TimeTypes DEF Due
<1>6. CallTimes' /\ LogTimes'
  BY <1>3, <1>4, <1>5 DEF CallTimes, LogTimes, InCall
<1>7. NotInFuture'
  BY <1>2, <1>3, TimeTypes DEF TimeInv, NotInFuture
<1>8. NothingWaited'
  <2> SUFFICES ASSUME MaxStepBack = 0 PROVE HeldSince(history.idle_at)'
    BY DEF NothingWaited
  <2>1. HeldSince(history.idle_at) /\ history.idle_at <= clock
    BY DEF TimeInv, NothingWaited, NotInFuture
  <2>2. p \in QueuedPackets
    <3>1. call.packet.size \in 1..PACKET_SIZE /\ call.now \in Nat
          /\ call.packet \in [id : Nat, size : Nat] \cup {NoPacket}
      BY <1>2 DEF IInv, TypeOK, PacketFits, InCall
    <3> QED
      BY <1>1, <3>1, ParameterAssumption
         DEF QueuedPacket, QueuedPackets, NoPacket
  <2>3. p.arrival_time = call.now
    BY <1>1 DEF QueuedPacket
  <2>4. p.arrival_time >= history.idle_at
    BY <1>3, <2>1, <2>3, TimeTypes
  <2>5. PICK d \in Nat : PartThen(packet_queue', packet_queue, d, p)
    BY <1>2, <2>2, HeldTypes, EnqueueProperties
  <2>6. \A i \in 1..Len(packet_queue') :
            packet_queue'[i].arrival_time >= history.idle_at
    BY <2>1, <2>4, <2>5 DEF PartThen, HeldSince
  <2> QED BY <1>2, <2>1, <2>6 DEF HeldSince, transitState
<1>9. MaxStepBack = 0 => log'.time >= log.time
  BY <1>3, TimeTypes DEF TimeInv, NotInFuture, LogType
<1> QED BY <1>6, <1>7, <1>8, <1>9 DEF TimeInv

\* Every step keeps the invariant, and the log in order.
LEMMA NextKeepsTime ==
    ASSUME IInv, TimeInv, [Next]_vars
    PROVE  TimeInv' /\ (MaxStepBack = 0 => log'.time >= log.time)
<1>0. /\ log.time \in Nat /\ clock \in Nat /\ clock <= clock
  BY TimeTypes DEF LogType
<1>1. CASE Call
  <2>1. /\ UNCHANGED <<clock, linkState, packet_queue, transitState, log>>
        /\ history'.idle_at = history.idle_at
    BY <1>1 DEF Call, read_packet, wait_time, Begin, ReadOversized,
                write_packets, IInv, TypeOK
  <2>2. (InCall' => call'.now = clock) /\ call'.pc # "deliver"
    <3>1. ASSUME NEW op, NEW p, Begin(op, p)
          PROVE  call'.now = clock /\ call'.pc # "deliver"
      BY <3>1 DEF Begin, IInv, TypeOK
    <3>2. ASSUME NEW p, ReadOversized(p)
          PROVE  ~InCall' /\ call'.pc # "deliver"
      BY <3>2 DEF ReadOversized, IInv, TypeOK, InCall
    <3>3. ASSUME write_packets
          PROVE  ~InCall' /\ call'.pc # "deliver"
      BY <3>3 DEF write_packets, InCall
    <3> QED
      BY <1>1, <3>1, <3>2, <3>3 DEF Call, read_packet, wait_time
  <2> QED BY <1>0, <2>1, <2>2, QuietKeepsTime
<1>2. CASE BurnOpportunity
  BY <1>2, BurnKeepsIInv, BurnKeepsTime
<1>3. CASE SendTransit \/ SendNext
  BY <1>3, DeliverIsSending, SendingKeepsTime
<1>4. CASE EndDelivery
  BY <1>0, <1>4, EndDeliveryKeepsTime DEF EndDelivery
<1>5. CASE FinishRead
  BY <1>5, FinishReadKeepsTime
<1>6. CASE FinishWait
  <2>1. /\ UNCHANGED <<clock, linkState, packet_queue, transitState, log, history>>
        /\ ~InCall' /\ call'.pc # "deliver"
    BY <1>6 DEF FinishWait, Returned, InCall
  <2> QED BY <1>0, <2>1, QuietKeepsTime
<1>7. CASE Tick \/ StepBack
  <2>1. /\ UNCHANGED <<linkState, packet_queue, transitState, log, call, history>>
        /\ call.pc = "idle"
    BY <1>7 DEF Tick, StepBack
  <2>2. clock' \in Nat
    BY <1>7, ClockKeepsIInv DEF IInv, TypeOK
  <2>3. ASSUME MaxStepBack = 0 PROVE clock <= clock'
    BY <1>0, <1>7, <2>3 DEF Tick, StepBack
  <2> QED BY <1>0, <2>1, <2>2, <2>3, QuietKeepsTime DEF InCall
<1>8. CASE UNCHANGED vars
  <2>1. UNCHANGED <<clock, linkState, packet_queue, transitState, log, call,
                    history>>
    BY <1>8 DEF vars
  <2>2. next_delivery_time' = next_delivery_time
    BY <2>1 DEF next_delivery_time, linkState
  <2> QED
    BY <1>0, <2>1, <2>2
       DEF TimeInv, CallTimes, LogTimes, NotInFuture, NothingWaited, HeldSince,
           InCall, transitState
<1> QED
  BY <1>1, <1>2, <1>3, <1>4, <1>5, <1>6, <1>7, <1>8
     DEF Next, LinkStep, rationalize

\* Nothing is held and nothing logged at the start.
LEMMA InitTime == Init => TimeInv
<1> SUFFICES ASSUME Init PROVE TimeInv
  OBVIOUS
<1>1. next_delivery_time \in Nat /\ clock \in Nat
  BY InitIInv, TimeTypes
<1> QED
  BY <1>1 DEF Init, Returned, TimeInv, CallTimes, LogTimes, NotInFuture,
              NothingWaited, HeldSince, InCall

\* TimeInv is an invariant, for every trace, size and discipline.
LEMMA TimeInvariance == Spec => []TimeInv
<1>1. IInv /\ TimeInv /\ [Next]_vars => TimeInv'
  BY NextKeepsTime
<1> QED BY <1>1, Invariance, InitTime, PTL DEF Spec

\* With a clock that is not set back the link never wastes capacity: what still
\* waits arrived after the last opportunity that was not used up.
THEOREM NothingWasted == Spec => []WorkConserving
<1>1. IInv /\ TimeInv => WorkConserving
  <2> SUFFICES ASSUME IInv, TimeInv, MaxStepBack = 0,
                      NEW i \in 1..Len(InTransit \o packet_queue)
               PROVE  (InTransit \o packet_queue)[i].arrival_time
                          >= history.idle_at
    BY DEF WorkConserving
  <2>1. HeldSince(history.idle_at)
    BY DEF TimeInv, NothingWaited
  <2>2. packet_queue \in Seq(QueuedPackets) /\ InTransit \in Seq(QueuedPackets)
    BY HeldTypes DEF InTransit
  <2>3. \/ i \in 1..Len(InTransit)
              /\ (InTransit \o packet_queue)[i] = InTransit[i]
        \/ i - Len(InTransit) \in 1..Len(packet_queue)
              /\ (InTransit \o packet_queue)[i]
                    = packet_queue[i - Len(InTransit)]
    BY <2>2
  <2>4. \A j \in 1..Len(InTransit) : InTransit[j] = packet_in_transit
                                     /\ packet_in_transit_bytes_left > 0
    BY DEF InTransit
  <2> QED BY <2>1, <2>3, <2>4 DEF HeldSince
<1> QED BY <1>1, Invariance, TimeInvariance, PTL

\* With a clock that is not set back the lines of the log are in time order.
THEOREM LogOrdered == Spec => LogInTimeOrder
<1>1. IInv /\ TimeInv /\ [Next]_vars
          => [MaxStepBack = 0 => log'.time >= log.time]_vars
  BY NextKeepsTime
<1> QED
  BY <1>1, Invariance, TimeInvariance, PTL DEF Spec, LogInTimeOrder
-----------------------------------------------------------------------------
(* The opportunities of the trace                                          *)

\* Multiplication keeps the order.
LEMMA TimesMonotone ==
    ASSUME NEW a \in Nat, NEW b \in Nat, NEW c \in Nat, a <= b
    PROVE  a * c <= b * c /\ c * a <= c * b /\ a * c \in Nat
<1>1. b - a \in Nat /\ b = a + (b - a)
  OBVIOUS
<1>2. (b - a) * c \in Nat /\ a * c \in Nat
  BY <1>1
<1>3. b * c = a * c + (b - a) * c
  BY <1>1
<1> QED BY <1>2, <1>3

Slots == Nat \X (1..Len(Schedule))

\* When opportunity slot[2] of repetition slot[1] of the trace comes.
TimeOf(slot) == Epoch + slot[1] * TracePeriod + Schedule[slot[2]]

\* The slots of the repetitions before r and the first m slots of it.
Used(r, m) ==
    {slot \in Slots : slot[1] < r \/ (slot[1] = r /\ slot[2] <= m)}

\* How far the current repetition has been used.
Position == IF finished THEN Len(Schedule) ELSE next_delivery

\* The link is in repetition r of the trace, it has logged each slot up to its
\* position once, and a call has seen the time of each of them.
InRound(r) ==
    /\ base_timestamp = Epoch + r * TracePeriod
    /\ ~repeat => r = 0
    /\ finished => ~repeat
    /\ IsFiniteSet(Used(r, Position))
    /\ Cardinality(Used(r, Position)) = log.opportunities
    /\ \A slot \in Used(r, Position) : TimeOf(slot) <= history.emulated_to

\* Between calls the next opportunity lies after the latest time a call has
\* seen; in a call that is so already, or this call is the latest.
EmulatedTo ==
    /\ history.emulated_to <= MaxTime
    /\ call.pc = "idle" => history.emulated_to < next_delivery_time
    /\ InCall => /\ call.now <= history.emulated_to
                 /\ \/ history.emulated_to < next_delivery_time
                    \/ history.emulated_to = call.now

TraceInv == EmulatedTo /\ \E r \in Nat : InRound(r)

\* Using one more slot of a repetition.
LEMMA UsedGrows ==
    ASSUME NEW r \in Nat, NEW m \in Nat, m + 1 \in 1..Len(Schedule)
    PROVE  /\ Used(r, m + 1) = Used(r, m) \cup {<<r, m + 1>>}
           /\ <<r, m + 1>> \notin Used(r, m)
<1>1. <<r, m + 1>> \in Slots
  BY DEF Slots
<1>2. <<r, m + 1>> \notin Used(r, m)
  BY DEF Used
<1>3. ASSUME NEW slot \in Slots
      PROVE  slot \in Used(r, m + 1) <=>
                slot \in Used(r, m) \/ slot = <<r, m + 1>>
  <2>1. slot[1] \in Nat /\ slot[2] \in Nat /\ slot = <<slot[1], slot[2]>>
    BY DEF Slots
  <2>2. slot[2] <= m + 1 <=> slot[2] <= m \/ slot[2] = m + 1
    BY <2>1
  <2>3. slot = <<r, m + 1>> <=> slot[1] = r /\ slot[2] = m + 1
    BY <2>1
  <2> QED BY <2>1, <2>2, <2>3 DEF Used
<1>4. Used(r, m + 1) \subseteq Slots /\ Used(r, m) \subseteq Slots
  BY DEF Used
<1> QED BY <1>1, <1>2, <1>3, <1>4

\* The end of a repetition is the beginning of the next one.
LEMMA UsedWraps ==
    ASSUME NEW r \in Nat
    PROVE  Used(r + 1, 0) = Used(r, Len(Schedule))
<1>1. ASSUME NEW slot \in Slots
      PROVE  slot \in Used(r + 1, 0) <=> slot \in Used(r, Len(Schedule))
  <2>1. slot[1] \in Nat /\ slot[2] \in 1..Len(Schedule)
    BY DEF Slots
  <2>2. ~(slot[2] <= 0) /\ slot[2] <= Len(Schedule)
    BY <2>1, ScheduleFacts
  <2>3. slot[1] < r + 1 <=> slot[1] < r \/ slot[1] = r
    BY <2>1
  <2> QED BY <2>2, <2>3 DEF Used
<1>2. Used(r + 1, 0) \subseteq Slots /\ Used(r, Len(Schedule)) \subseteq Slots
  BY DEF Used
<1> QED BY <1>1, <1>2

\* Burning an opportunity uses one more slot, also at the wraparound.
LEMMA BurnKeepsRound ==
    ASSUME IInv, TraceInv, BurnOpportunity
    PROVE  \E r \in Nat : InRound(r)'
<1>1. PICK r \in Nat : InRound(r)
  BY DEF TraceInv
<1> DEFINE n == Len(Schedule)
           next == (next_delivery + 1) % n
<1>2. LinkTypes /\ n \in Nat \ {0} /\ next_delivery \in 0..(n - 1)
      /\ next_delivery \in Nat
  BY ScheduleFacts DEF IInv, TypeOK, LinkTypes
<1>3. next = IF next_delivery + 1 = n THEN 0 ELSE next_delivery + 1
  BY <1>2, Successor
<1>4. /\ next_delivery' = next
      /\ base_timestamp' = base_timestamp
                              + (IF next = 0 /\ repeat THEN TracePeriod ELSE 0)
      /\ finished' = (finished \/ (next = 0 /\ ~repeat))
      /\ repeat' = repeat
  BY Zenon DEF BurnOpportunity, use_a_delivery_opportunity
<1>5. /\ log'.opportunities = log.opportunities + 1 /\ history' = history
      /\ next_delivery_time <= call.now /\ call.pc = "rationalize"
  BY DEF BurnOpportunity, use_a_delivery_opportunity, Due, IInv, TypeOK
<1>6. ~finished
  <2>1. call.now <= MaxTime /\ call.now \in Nat
    BY DEF IInv, ClockBound, TypeOK
  <2> QED BY <1>5, <2>1, ParameterAssumption DEF next_delivery_time
<1> HIDE DEF next
<1> DEFINE m == next_delivery
           slot == <<r, m + 1>>
           U == Used(r, m)
           V == Used(r, m + 1)
<1>7. Position = m
  BY <1>6 DEF Position
<1>8. V = U \cup {slot} /\ slot \notin U
  <2>1. m + 1 \in 1..n
    BY <1>2
  <2> QED BY <1>2, <2>1, UsedGrows
<1>9. IsFiniteSet(U) /\ Cardinality(U) = log.opportunities
      /\ \A s \in U : TimeOf(s) <= history.emulated_to
  BY <1>1, <1>7 DEF InRound
<1> HIDE DEF U, V
<1>10. IsFiniteSet(V) /\ Cardinality(V) = log.opportunities + 1
  BY <1>8, <1>9, FS_AddElement
<1>11. TimeOf(slot) <= history.emulated_to
  <2>1. TimeOf(slot) = Epoch + r * TracePeriod + Schedule[m + 1]
    BY DEF TimeOf
  <2>2. base_timestamp = Epoch + r * TracePeriod
    BY <1>1 DEF InRound
  <2>3. next_delivery_time = Schedule[m + 1] + base_timestamp
    BY <1>6 DEF next_delivery_time
  <2>4. m + 1 \in 1..n
    BY <1>2
  <2>5. Schedule[m + 1] \in Nat /\ base_timestamp \in Nat
    BY <1>2, <2>4, ScheduleFacts DEF LinkTypes
  <2>6. TimeOf(slot) = next_delivery_time
    BY <2>1, <2>2, <2>3, <2>5
  <2>7. call.now <= history.emulated_to
    BY <1>5 DEF TraceInv, EmulatedTo, InCall
  <2>8. history.emulated_to \in Int /\ call.now \in Nat /\ next_delivery_time \in Nat
    BY TimeTypes DEF IInv, TypeOK
  <2> QED BY <1>5, <2>6, <2>7, <2>8
<1>12. \A s \in V : TimeOf(s) <= history.emulated_to
  BY <1>8, <1>9, <1>11
<1>13. CASE next # 0
  <2>1. next_delivery' = m + 1 /\ base_timestamp' = base_timestamp /\ ~finished'
    BY <1>2, <1>3, <1>4, <1>6, <1>13 DEF LinkTypes
  <2>2. Position' = m + 1
    BY <2>1 DEF Position
  <2>3. Used(r, Position)' = V
    BY <2>2 DEF V, Used, Slots
  <2>4. InRound(r)'
    BY <1>1, <1>4, <1>5, <1>10, <1>12, <2>1, <2>3 DEF InRound, TimeOf
  <2> QED BY <2>4
<1>14. CASE next = 0 /\ repeat
  <2>1. next_delivery' = 0 /\ base_timestamp' = base_timestamp + TracePeriod
        /\ ~finished' /\ m + 1 = n
    <3>1. m + 1 = n
      BY <1>2, <1>3, <1>14
    <3>2. ~finished'
      BY <1>4, <1>6, <1>14, Zenon
    <3>3. next_delivery' = 0 /\ base_timestamp' = base_timestamp + TracePeriod
      BY <1>4, <1>14
    <3> QED BY <3>1, <3>2, <3>3
  <2>2. Position' = 0
    BY <2>1 DEF Position
  <2>3. Used(r + 1, 0) = V
    BY <2>1, UsedWraps DEF V
  <2>4. Used(r + 1, Position)' = V
    BY <2>2, <2>3 DEF Used, Slots
  <2>5. base_timestamp' = Epoch + (r + 1) * TracePeriod
    <3>1. base_timestamp = Epoch + r * TracePeriod
      BY <1>1 DEF InRound
    <3>2. (r + 1) * TracePeriod = r * TracePeriod + TracePeriod
          /\ TracePeriod \in Nat /\ r * TracePeriod \in Nat
      BY ScheduleFacts
    <3> QED BY <2>1, <3>1, <3>2, ParameterAssumption
  <2>6. InRound(r + 1)'
    BY <1>4, <1>5, <1>10, <1>12, <1>14, <2>1, <2>4, <2>5 DEF InRound, TimeOf
  <2> QED BY <2>6
<1>15. CASE next = 0 /\ ~repeat
  <2>1. base_timestamp' = base_timestamp /\ finished' /\ m + 1 = n
    <3>1. m + 1 = n
      BY <1>2, <1>3, <1>15
    <3>2. finished'
      BY <1>4, <1>15, Zenon
    <3>3. base_timestamp' = base_timestamp
      BY <1>2, <1>4, <1>15 DEF LinkTypes
    <3> QED BY <3>1, <3>2, <3>3
  <2>2. Position' = n
    BY <2>1 DEF Position
  <2>3. Used(r, Position)' = V
    BY <2>1, <2>2 DEF V, Used, Slots
  <2>4. InRound(r)'
    BY <1>1, <1>4, <1>5, <1>10, <1>12, <1>15, <2>1, <2>3 DEF InRound, TimeOf
  <2> QED BY <2>4
<1> QED BY <1>13, <1>14, <1>15

\* A step that uses no opportunity; the latest time seen does not go back.
LEMMA OtherKeepsRound ==
    ASSUME IInv, TraceInv, UNCHANGED linkState,
           log'.opportunities = log.opportunities,
           history'.emulated_to >= history.emulated_to,
           history'.emulated_to \in Int
    PROVE  \E r \in Nat : InRound(r)'
<1>1. PICK r \in Nat : InRound(r)
  BY DEF TraceInv
<1> DEFINE U == Used(r, Position)
<1>2. U' = U
  BY DEF linkState, Position, Used, Slots
<1>3. /\ base_timestamp = Epoch + r * TracePeriod
      /\ ~repeat => r = 0
      /\ finished => ~repeat
      /\ IsFiniteSet(U) /\ Cardinality(U) = log.opportunities
      /\ \A slot \in U : TimeOf(slot) <= history.emulated_to
  BY <1>1 DEF InRound
<1>4. ASSUME NEW slot \in U PROVE TimeOf(slot) <= history'.emulated_to
  <2>1. slot[1] \in Nat /\ slot[2] \in 1..Len(Schedule)
    BY DEF Used, Slots
  <2>2. slot[1] * TracePeriod \in Nat /\ Schedule[slot[2]] \in Nat
    BY <2>1, ScheduleFacts
  <2>3. TimeOf(slot) \in Nat
    BY <2>2, ParameterAssumption DEF TimeOf
  <2>4. TimeOf(slot) <= history.emulated_to /\ history.emulated_to \in Int
    BY <1>3 DEF IInv, TypeOK
  <2> QED BY <2>3, <2>4
<1> HIDE DEF U
<1>5. IsFiniteSet(U') /\ Cardinality(U') = log'.opportunities
      /\ \A slot \in U' : TimeOf(slot) <= history'.emulated_to
  BY <1>2, <1>3, <1>4
<1>6. InRound(r)'
  BY <1>3, <1>5 DEF InRound, U, linkState, TimeOf
<1> QED BY <1>6

\* The latest time seen moves with the calls, and rationalize keeps up with it.
LEMMA NextKeepsEmulated ==
    ASSUME IInv, IInv', EmulatedTo, [Next]_vars
    PROVE  /\ EmulatedTo'
           /\ history'.emulated_to >= history.emulated_to
           /\ history'.emulated_to \in Int
<1> DEFINE to == history.emulated_to
<1>0. /\ to \in Int /\ clock \in Nat /\ clock <= MaxTime /\ MaxTime \in Nat
      /\ next_delivery_time \in Nat /\ call.now \in Nat
  BY TimeTypes, ParameterAssumption DEF IInv, TypeOK, ClockBound
<1>1. ASSUME NEW op, NEW p, Begin(op, p)
      PROVE  EmulatedTo' /\ to' >= to /\ to' \in Int
  <2>1. /\ call.pc = "idle"
        /\ call' = [call EXCEPT !.pc = "rationalize", !.op = op, !.now = clock,
                                !.packet = p]
        /\ UNCHANGED linkState
    BY <1>1 DEF Begin
  <2>2. call'.pc = "rationalize" /\ call'.now = clock
    BY <2>1 DEF IInv, TypeOK
  <2>3. to' = IF clock > to THEN clock ELSE to
    BY <1>1 DEF Begin, IInv, TypeOK
  <2>4. next_delivery_time' = next_delivery_time
    BY <2>1 DEF next_delivery_time, linkState
  <2>5. to < next_delivery_time /\ to <= MaxTime
    BY <2>1 DEF EmulatedTo
  <2>6. /\ to' <= MaxTime /\ clock <= to' /\ to' >= to /\ to' \in Int
        /\ to' < next_delivery_time \/ to' = clock
    BY <1>0, <2>3, <2>5
  <2> QED BY <2>2, <2>4, <2>6 DEF EmulatedTo
<1>2. ASSUME history' = history PROVE to' = to /\ to' >= to /\ to' \in Int
  BY <1>0, <1>2
<1>3. ASSUME NEW p, ReadOversized(p)
      PROVE  EmulatedTo' /\ to' >= to /\ to' \in Int
  <2>1. history' = history /\ call'.pc = "terminated"
    BY <1>3 DEF ReadOversized, IInv, TypeOK
  <2> QED BY <1>2, <2>1 DEF EmulatedTo, InCall
<1>4. CASE BurnOpportunity
  <2>1. /\ call' = [call EXCEPT !.pc = "deliver",
                                !.this_delivery_time = next_delivery_time,
                                !.bytes_left_in_this_delivery = PACKET_SIZE]
        /\ call.pc = "rationalize" /\ next_delivery_time <= call.now
        /\ history' = history
    BY <1>4 DEF BurnOpportunity, Due
  <2>2. call'.now = call.now /\ call'.pc = "deliver"
    BY <2>1 DEF IInv, TypeOK
  <2>3. call.now <= to /\ (to < next_delivery_time \/ to = call.now)
        /\ to <= MaxTime
    BY <2>1 DEF EmulatedTo, InCall
  <2>4. to = call.now
    BY <1>0, <2>1, <2>3
  <2> QED BY <1>2, <2>1, <2>2, <2>3, <2>4 DEF EmulatedTo
<1>5. CASE SendTransit \/ SendNext
  <2>1. PICK p \in QueuedPackets, left \in Nat \ {0}, amount \in Nat :
            Sending(p, left, amount)
    BY <1>5, DeliverIsSending
  <2>2. /\ call' = [call EXCEPT !.bytes_left_in_this_delivery = @ - amount]
        /\ call.pc = "deliver" /\ UNCHANGED <<linkState, history>>
    BY <2>1 DEF Sending, Delivering
  <2>3. call'.now = call.now /\ call'.pc = "deliver"
    BY <2>2 DEF IInv, TypeOK
  <2>4. next_delivery_time' = next_delivery_time
    BY <2>2 DEF next_delivery_time, linkState
  <2> QED BY <1>2, <2>2, <2>3, <2>4 DEF EmulatedTo, InCall
<1>6. CASE EndDelivery
  <2>1. /\ call' = [call EXCEPT !.pc = "rationalize"]
        /\ call.pc = "deliver" /\ UNCHANGED linkState
    BY <1>6 DEF EndDelivery
  <2>2. call'.now = call.now /\ call'.pc = "rationalize"
    BY <2>1 DEF IInv, TypeOK
  <2>3. next_delivery_time' = next_delivery_time
    BY <2>1 DEF next_delivery_time, linkState
  <2>4. to' = to
    BY <1>6 DEF EndDelivery, IInv, TypeOK
  <2> QED BY <1>0, <2>1, <2>2, <2>3, <2>4 DEF EmulatedTo, InCall
<1>7. CASE FinishRead \/ FinishWait
  <2>1. /\ call.pc = "rationalize" /\ ~Due /\ call'.pc = "idle"
        /\ UNCHANGED <<linkState, history>>
    BY <1>7 DEF FinishRead, FinishWait, Returned
  <2>2. next_delivery_time' = next_delivery_time
    BY <2>1 DEF next_delivery_time, linkState
  <2>3. call.now < next_delivery_time
    BY <1>0, <2>1 DEF Due
  <2>4. (to < next_delivery_time \/ to = call.now) /\ to <= MaxTime
    BY <2>1 DEF EmulatedTo, InCall
  <2> QED BY <1>2, <2>1, <2>2, <2>3, <2>4 DEF EmulatedTo, InCall
<1>8. CASE write_packets \/ Tick \/ StepBack \/ UNCHANGED vars
  <2>1. UNCHANGED <<linkState, call, history>>
    BY <1>8 DEF write_packets, Tick, StepBack, vars
  <2>2. next_delivery_time' = next_delivery_time
    BY <2>1 DEF next_delivery_time, linkState
  <2> QED BY <1>2, <2>1, <2>2 DEF EmulatedTo, InCall
<1> QED
  BY <1>1, <1>3, <1>4, <1>5, <1>6, <1>7, <1>8
     DEF Next, Call, read_packet, wait_time, LinkStep, rationalize

\* Every step keeps the count of the opportunities right.
LEMMA NextKeepsTrace ==
    ASSUME IInv, IInv', TraceInv, [Next]_vars
    PROVE  TraceInv'
<1>1. /\ EmulatedTo'
      /\ history'.emulated_to >= history.emulated_to
      /\ history'.emulated_to \in Int
  BY NextKeepsEmulated DEF TraceInv
<1>2. CASE BurnOpportunity
  BY <1>1, <1>2, BurnKeepsRound DEF TraceInv
<1>3. CASE SendTransit \/ SendNext
  <2>1. UNCHANGED linkState /\ log'.opportunities = log.opportunities
    BY <1>3, DeliverIsSending DEF Sending, IInv, TypeOK
  <2> QED BY <1>1, <2>1, OtherKeepsRound DEF TraceInv
<1>4. CASE FinishRead
  <2>1. UNCHANGED linkState /\ log'.opportunities = log.opportunities
    BY <1>4 DEF FinishRead, IInv, TypeOK
  <2> QED BY <1>1, <2>1, OtherKeepsRound DEF TraceInv
<1>5. CASE Call \/ EndDelivery \/ FinishWait \/ Tick \/ StepBack
              \/ UNCHANGED vars
  <2>1. UNCHANGED <<linkState, log>>
    BY <1>5 DEF Call, read_packet, wait_time, Begin, ReadOversized,
                write_packets, EndDelivery, FinishWait, Tick, StepBack, vars
  <2> QED BY <1>1, <2>1, OtherKeepsRound DEF TraceInv
<1> QED BY <1>2, <1>3, <1>4, <1>5 DEF Next, LinkStep, rationalize

\* No slot has been used when the link is constructed.
LEMMA InitTrace == Init => TraceInv
<1> SUFFICES ASSUME Init PROVE TraceInv
  OBVIOUS
<1>1. next_delivery_time \in Nat
  BY InitIInv, TimeTypes
<1>2. EmulatedTo
  BY <1>1, ParameterAssumption DEF Init, Returned, EmulatedTo, InCall
<1>3. Used(0, 0) = {}
  <2> SUFFICES ASSUME NEW slot \in Slots PROVE slot \notin Used(0, 0)
    BY DEF Used
  <2>1. slot[1] \in Nat /\ slot[2] \in 1..Len(Schedule)
    BY DEF Slots
  <2> QED BY <2>1, ScheduleFacts DEF Used
<1>4. Position = 0
  BY DEF Init, Position
<1>5. 0 * TracePeriod = 0
  BY ScheduleFacts
<1>6. InRound(0)
  BY <1>3, <1>4, <1>5, FS_EmptySet, ParameterAssumption DEF Init, InRound
<1> QED BY <1>2, <1>6 DEF TraceInv

\* The slots of the trace that OpportunitiesUpTo counts.
SlotsUpTo(t) ==
    {ki \in (IF repeat THEN 0..MaxTime ELSE {0}) \X (1..Len(Schedule)) :
        Epoch + ki[1] * TracePeriod + Schedule[ki[2]] <= t}

\* The slots used are among those that have come, and between calls there is
\* no other.
LEMMA UsedSlots ==
    ASSUME IInv, EmulatedTo, NEW r \in Nat, InRound(r)
    PROVE  /\ IsFiniteSet(SlotsUpTo(history.emulated_to))
           /\ Used(r, Position) \subseteq SlotsUpTo(history.emulated_to)
           /\ call.pc = "idle" =>
                  SlotsUpTo(history.emulated_to) \subseteq Used(r, Position)
<1> DEFINE K == IF repeat THEN 0..MaxTime ELSE {0}
           n == Len(Schedule)
           t == history.emulated_to
<1>1. /\ n \in Nat \ {0} /\ TracePeriod \in Nat \ {0} /\ Epoch \in Nat
      /\ MaxTime \in Nat /\ t \in Int /\ t <= MaxTime
      /\ \A i \in 1..n : Schedule[i] \in Nat /\ Schedule[i] <= TracePeriod
  <2>1. TracePeriod > 0
    BY ScheduleAssumption DEF TracePeriod
  <2>2. t \in Int /\ t <= MaxTime
    BY DEF IInv, TypeOK, EmulatedTo
  <2> QED BY <2>1, <2>2, ScheduleFacts, ParameterAssumption
<1>2. IsFiniteSet(SlotsUpTo(t))
  <2>1. IsFiniteSet(0..MaxTime) /\ IsFiniteSet({0}) /\ IsFiniteSet(1..n)
    <3>1. 0 \in Int /\ 1 \in Int /\ MaxTime \in Int /\ n \in Int
      BY <1>1
    <3> HIDE DEF n
    <3> QED BY <3>1, FS_Interval, FS_Singleton
  <2>2. IsFiniteSet(K)
    BY <2>1
  <2>3. IsFiniteSet(K \X (1..n))
    BY <2>1, <2>2, FS_Product
  <2>4. SlotsUpTo(t) \subseteq K \X (1..n)
    BY DEF SlotsUpTo
  <2> QED BY <2>3, <2>4, FS_Subset
<1>3. ASSUME NEW s \in Used(r, Position) PROVE s \in SlotsUpTo(t)
  <2>1. s \in Slots /\ s[1] \in Nat /\ s[2] \in 1..n /\ s[1] <= r
    BY DEF Used, Slots
  <2>2. TimeOf(s) <= t
    BY DEF InRound
  <2>3. s[1] * TracePeriod \in Nat /\ s[1] <= s[1] * TracePeriod
    <3>1. 1 * s[1] <= TracePeriod * s[1] /\ s[1] * TracePeriod \in Nat
      BY <1>1, <2>1, TimesMonotone
    <3> QED BY <1>1, <2>1, <3>1
  <2>4. s[1] <= MaxTime
    <3>1. PICK start : start = s[1] * TracePeriod
      OBVIOUS
    <3>2. PICK offset : offset = Schedule[s[2]]
      OBVIOUS
    <3>3. start \in Nat /\ s[1] <= start /\ offset \in Nat
      BY <1>1, <2>1, <2>3, <3>1, <3>2
    <3>4. Epoch + start + offset <= t
      BY <2>2, <3>1, <3>2 DEF TimeOf
    <3> HIDE DEF t
    <3> QED BY ONLY <1>1, <2>1, <3>3, <3>4
  <2>5. ~repeat => s[1] = 0
    BY <2>1 DEF InRound
  <2>6. s[1] \in K
    BY <1>1, <2>1, <2>4, <2>5
  <2>7. s \in K \X (1..n)
    BY <2>1, <2>6 DEF Slots
  <2> QED BY <2>2, <2>7 DEF SlotsUpTo, TimeOf
<1>4. ASSUME call.pc = "idle", NEW s \in SlotsUpTo(t)
      PROVE  s \in Used(r, Position)
  <2>1. s[1] \in Nat /\ s[2] \in 1..n /\ s \in Slots /\ (~repeat => s[1] = 0)
        /\ TimeOf(s) <= t
    BY <1>1 DEF SlotsUpTo, Slots, TimeOf
  <2>2. CASE finished
    <3>1. ~repeat /\ r = 0 /\ Position = n
      BY <2>2 DEF InRound, Position
    <3> QED BY <1>1, <2>1, <3>1 DEF Used
  <2>3. CASE ~finished
    <3> DEFINE m == next_delivery
    <3>1. Position = m /\ m \in 0..(n - 1) /\ m + 1 \in 1..n
      BY <1>1, <2>3 DEF Position, IInv, TypeOK
    <3>2. next_delivery_time = Schedule[m + 1] + (Epoch + r * TracePeriod)
      BY <2>3 DEF next_delivery_time, InRound
    <3>3. t < next_delivery_time
      BY <1>4 DEF EmulatedTo
    <3>4. r * TracePeriod \in Nat /\ s[1] * TracePeriod \in Nat
          /\ Schedule[s[2]] \in Nat /\ Schedule[m + 1] \in Nat
          /\ Schedule[m + 1] <= TracePeriod
      BY <1>1, <2>1, <3>1
    <3>5. TimeOf(s) < Schedule[m + 1] + (Epoch + r * TracePeriod)
          /\ TimeOf(s) = Epoch + s[1] * TracePeriod + Schedule[s[2]]
      <4>1. TimeOf(s) = Epoch + s[1] * TracePeriod + Schedule[s[2]]
        BY DEF TimeOf
      <4>2. TimeOf(s) \in Nat
        <5> HIDE DEF TimeOf
        <5>1. PICK start : start = s[1] * TracePeriod
          OBVIOUS
        <5>2. start \in Nat /\ TimeOf(s) = Epoch + start + Schedule[s[2]]
          BY <3>4, <4>1, <5>1
        <5> QED BY ONLY <1>1, <3>4, <5>2
      <4>3. next_delivery_time \in Nat
        BY TimeTypes
      <4> HIDE DEF TimeOf, t
      <4>4. TimeOf(s) < next_delivery_time
        BY ONLY <1>1, <2>1, <3>3, <4>2, <4>3
      <4> QED BY <3>2, <4>1, <4>4
    <3>6. s[1] <= r
      <4> SUFFICES ASSUME r + 1 <= s[1] PROVE FALSE
        BY <2>1
      <4>1. (r + 1) * TracePeriod <= s[1] * TracePeriod
        <5>1. r + 1 \in Nat /\ TracePeriod \in Nat
          BY <1>1
        <5> QED BY <2>1, <5>1, TimesMonotone
      <4>2. (r + 1) * TracePeriod = r * TracePeriod + TracePeriod
        BY <1>1
      <4>3. PICK start : start = s[1] * TracePeriod
        OBVIOUS
      <4>4. PICK round : round = r * TracePeriod
        OBVIOUS
      <4>5. /\ start \in Nat /\ round \in Nat /\ round + TracePeriod <= start
            /\ Epoch + start + Schedule[s[2]] < Schedule[m + 1] + (Epoch + round)
        BY <3>4, <3>5, <4>1, <4>2, <4>3, <4>4
      <4> QED BY ONLY <1>1, <3>4, <4>5
    <3>7. s[1] = r => s[2] <= m
      <4> SUFFICES ASSUME s[1] = r, m + 1 <= s[2] PROVE FALSE
        BY <1>1, <2>1, <3>1
      <4>1. Schedule[m + 1] <= Schedule[s[2]]
        BY <2>1, <3>1, ScheduleAssumption
      <4> QED BY <1>1, <3>4, <3>5, <4>1
    <3> QED BY <2>1, <3>1, <3>6, <3>7 DEF Used
  <2> QED BY <2>2, <2>3
<1> QED BY <1>2, <1>3, <1>4

\* The used slots are counted by the log: at most those that have come, and
\* between calls all of them.
LEMMA TraceCount ==
    ASSUME IInv, TraceInv
    PROVE  /\ OpportunitiesUpTo(history.emulated_to) \in Nat
           /\ log.opportunities <= OpportunitiesUpTo(history.emulated_to)
           /\ OpportunitiesMatchTrace
<1>1. PICK r \in Nat : InRound(r)
  BY DEF TraceInv
<1> DEFINE A == SlotsUpTo(history.emulated_to)
           U == Used(r, Position)
<1>2. OpportunitiesUpTo(history.emulated_to) = Cardinality(A)
  BY DEF OpportunitiesUpTo, SlotsUpTo
<1>3. /\ IsFiniteSet(A) /\ U \subseteq A
      /\ call.pc = "idle" => A \subseteq U
  BY <1>1, UsedSlots DEF TraceInv
<1>4. Cardinality(U) = log.opportunities
  BY <1>1 DEF InRound
<1> HIDE DEF A, U
<1>5. Cardinality(A) \in Nat /\ Cardinality(U) <= Cardinality(A)
  BY <1>3, FS_CardinalityType, FS_Subset
<1>6. call.pc = "idle" => A = U
  BY <1>3
<1> QED BY <1>2, <1>4, <1>5, <1>6 DEF OpportunitiesMatchTrace

\* TraceInv is an invariant.
LEMMA TraceInvariance == Spec => []TraceInv
<1>1. IInv /\ IInv' /\ TraceInv /\ [Next]_vars => TraceInv'
  BY NextKeepsTrace
<1> QED BY <1>1, Invariance, InitTrace, PTL DEF Spec

\* For every trace: each opportunity is used once, none twice after the clock
\* was set back or the trace wrapped around, and none is skipped.
THEOREM ExactOpportunities == Spec => []OpportunitiesMatchTrace
<1>1. IInv /\ TraceInv => OpportunitiesMatchTrace
  BY TraceCount
<1> QED BY <1>1, Invariance, TraceInvariance, PTL
-----------------------------------------------------------------------------
(* The rate                                                                *)

\* The sent part of the packet in transit.
PartSent == IF packet_in_transit_bytes_left > 0
            THEN packet_in_transit.size - packet_in_transit_bytes_left ELSE 0

\* What the opportunity being used can still carry.
Unused == IF call.pc = "deliver" THEN call.bytes_left_in_this_delivery ELSE 0

\* Every byte sent was carried by an opportunity that was logged.
RateInv ==
    BytesIn(Sent) + PartSent + Unused <= PACKET_SIZE * log.opportunities

\* Packets have sizes, so sequences of them have a number of bytes.
LEMMA RateTypes ==
    ASSUME IInv
    PROVE  /\ Sized(QueuedPackets) /\ BytesIn(Sent) \in Nat
           /\ PartSent \in Nat /\ Unused \in Nat
           /\ PACKET_SIZE \in Nat /\ log.opportunities \in Nat
           /\ PACKET_SIZE * log.opportunities \in Nat
<1>1. Sized(QueuedPackets)
  BY DEF Sized, QueuedPackets
<1>2. BytesIn(Sent) \in Nat
  BY <1>1, HeldTypes, BytesType
<1>3. PartSent \in Nat
  BY HeldTypes DEF PartSent, IInv, TransitCarriable, QueuedPackets
<1>4. Unused \in Nat
  BY DEF Unused, IInv, TypeOK
<1>5. PACKET_SIZE \in Nat /\ log.opportunities \in Nat
  BY ParameterAssumption DEF IInv, TypeOK
<1> QED BY <1>1, <1>2, <1>3, <1>4, <1>5

\* A step that carries nothing.
LEMMA HeldSameKeepsRate ==
    ASSUME IInv, IInv', RateInv, Sent' = Sent, UNCHANGED transitState,
           log'.opportunities = log.opportunities, Unused' <= Unused
    PROVE  RateInv'
<1>1. PartSent' = PartSent /\ BytesIn(Sent') = BytesIn(Sent)
  BY DEF PartSent, transitState
<1>2. Unused' \in Nat
  BY DEF Unused, IInv, TypeOK
<1> QED BY <1>1, <1>2, RateTypes DEF RateInv

\* A step of the inner loop takes from the opportunity what it sends.
LEMMA SendingKeepsRate ==
    ASSUME IInv, IInv', RateInv,
           NEW p \in QueuedPackets, NEW left \in Nat \ {0}, NEW amount \in Nat,
           Sending(p, left, amount)
    PROVE  RateInv'
<1>1. /\ p.size \in Nat /\ amount <= left /\ left <= p.size
      /\ packet_in_transit' = p /\ packet_in_transit_bytes_left' = left - amount
      /\ Sent' = IF amount = left THEN Append(Sent, p) ELSE Sent
      /\ call' = [call EXCEPT !.bytes_left_in_this_delivery = @ - amount]
      /\ call.pc = "deliver" /\ amount <= call.bytes_left_in_this_delivery
  BY DEF Sending, Delivering
<1>2. /\ Unused = call.bytes_left_in_this_delivery
      /\ Unused' = Unused - amount
  BY <1>1 DEF Unused, IInv, TypeOK
<1>3. log'.opportunities = log.opportunities
  BY DEF Sending, IInv, TypeOK
<1>4. PartSent = p.size - left
  BY <1>1 DEF Sending, PartSent
<1>5. BytesIn(Sent') + PartSent' = BytesIn(Sent) + PartSent + amount
  <2>1. CASE amount = left
    <3>1. BytesIn(Sent') = BytesIn(Sent) + p.size /\ PartSent' = 0
      BY <1>1, <2>1, HeldTypes, RateTypes, BytesOfAppend DEF PartSent
    <3> QED BY <1>1, <1>4, <2>1, <3>1, RateTypes
  <2>2. CASE amount # left
    <3>1. BytesIn(Sent') = BytesIn(Sent) /\ PartSent' = p.size - (left - amount)
      BY <1>1, <2>2 DEF PartSent
    <3> QED BY <1>1, <1>4, <3>1, RateTypes
  <2> QED BY <2>1, <2>2
<1> DEFINE x == BytesIn(Sent)
           y == BytesIn(Sent') + PartSent'
           limit == PACKET_SIZE * log.opportunities
<1>6. /\ x \in Nat /\ PartSent \in Nat /\ Unused \in Nat /\ limit \in Nat
      /\ y = x + PartSent + amount /\ x + PartSent + Unused <= limit
  BY <1>5, RateTypes DEF RateInv
<1>7. RateInv' <=> y + Unused' <= limit
  BY <1>3 DEF RateInv
<1> HIDE DEF x, y, limit
<1>8. y + (Unused - amount) <= limit
  BY <1>6
<1> QED BY <1>2, <1>7, <1>8

\* A new opportunity carries PACKET_SIZE bytes, and what was left of the last
\* one is lost.
LEMMA BurnKeepsRate ==
    ASSUME IInv, IInv', RateInv, BurnOpportunity
    PROVE  RateInv'
<1>1. /\ call' = [call EXCEPT !.pc = "deliver",
                              !.this_delivery_time = next_delivery_time,
                              !.bytes_left_in_this_delivery = PACKET_SIZE]
      /\ log'.opportunities = log.opportunities + 1
      /\ call.pc = "rationalize"
      /\ Sent' = Sent /\ UNCHANGED transitState
  BY DEF BurnOpportunity, use_a_delivery_opportunity, Due, Sent, IInv, TypeOK
<1>2. Unused = 0 /\ Unused' = PACKET_SIZE
  BY <1>1 DEF Unused, IInv, TypeOK
<1>3. PartSent' = PartSent /\ BytesIn(Sent') = BytesIn(Sent)
  BY <1>1 DEF PartSent, transitState
<1>4. PACKET_SIZE * (log.opportunities + 1)
         = PACKET_SIZE * log.opportunities + PACKET_SIZE
  BY RateTypes
<1> QED BY <1>1, <1>2, <1>3, <1>4, RateTypes DEF RateInv

\* Every step keeps the rate.
LEMMA NextKeepsRate ==
    ASSUME IInv, IInv', RateInv, [Next]_vars
    PROVE  RateInv'
<1>1. Unused \in Nat
  BY RateTypes
<1>2. CASE BurnOpportunity
  BY <1>2, BurnKeepsRate
<1>3. CASE SendTransit \/ SendNext
  BY <1>3, DeliverIsSending, SendingKeepsRate
<1>4. CASE Call
  <2>1. UNCHANGED <<transitState, log>> /\ call'.pc # "deliver"
    BY <1>4 DEF Call, read_packet, wait_time, Begin, ReadOversized,
                write_packets, IInv, TypeOK
  <2>2. Sent' = Sent
    <3>1. CASE write_packets
      <4>1. (written \o output_queue) \o <<>> = written \o output_queue
        BY DEF IInv, TypeOK
      <4> QED BY <3>1, <4>1 DEF write_packets, Sent
    <3>2. CASE ~write_packets
      BY <1>4, <3>2 DEF Call, read_packet, wait_time, Begin, ReadOversized,
                        Sent
    <3> QED BY <3>1, <3>2
  <2>3. Unused' <= Unused
    BY <1>1, <2>1 DEF Unused
  <2> QED BY <2>1, <2>2, <2>3, HeldSameKeepsRate
<1>5. CASE EndDelivery \/ FinishRead \/ FinishWait
  <2>1. /\ UNCHANGED transitState /\ Sent' = Sent
        /\ log'.opportunities = log.opportunities
        /\ call'.pc # "deliver"
    <3>1. UNCHANGED <<transitState, written, output_queue>>
      BY <1>5 DEF EndDelivery, FinishRead, FinishWait
    <3>2. call'.pc # "deliver"
      <4>1. CASE EndDelivery
        BY <4>1 DEF EndDelivery, IInv, TypeOK
      <4>2. CASE FinishRead \/ FinishWait
        BY <4>2 DEF FinishRead, FinishWait, Returned
      <4> QED BY <1>5, <4>1, <4>2
    <3>3. log'.opportunities = log.opportunities
      BY <1>5 DEF EndDelivery, FinishRead, FinishWait, IInv, TypeOK
    <3> QED BY <3>1, <3>2, <3>3 DEF Sent
  <2>2. Unused' <= Unused
    BY <1>1, <2>1 DEF Unused
  <2> QED BY <2>1, <2>2, HeldSameKeepsRate
<1>6. CASE Tick \/ StepBack \/ UNCHANGED vars
  <2>1. UNCHANGED <<transitState, log, call>> /\ Sent' = Sent
    BY <1>6 DEF Tick, StepBack, vars, Sent
  <2>2. Unused' <= Unused
    BY <1>1, <2>1 DEF Unused
  <2> QED BY <2>1, <2>2, HeldSameKeepsRate
<1> QED
  BY <1>2, <1>3, <1>4, <1>5, <1>6 DEF Next, LinkStep, rationalize

\* Nothing has been sent at the start.
LEMMA InitRate == Init => RateInv
<1> SUFFICES ASSUME Init PROVE RateInv
  OBVIOUS
<1>1. Sent = <<>> /\ PartSent = 0 /\ Unused = 0 /\ log.opportunities = 0
  BY DEF Init, Returned, Sent, PartSent, Unused
<1> QED BY <1>1, BytesOfNone, ParameterAssumption DEF RateInv

\* The link never carries more than its trace allows, in every state, also in
\* the middle of rationalize and for packets of any size.
THEOREM RateLimited == Spec => []RateWithinTrace
<1>1. IInv /\ IInv' /\ RateInv /\ [Next]_vars => RateInv'
  BY NextKeepsRate
<1>2. IInv /\ TraceInv /\ RateInv => RateWithinTrace
  <2> SUFFICES ASSUME IInv, TraceInv, RateInv PROVE RateWithinTrace
    OBVIOUS
  <2> DEFINE o == OpportunitiesUpTo(history.emulated_to)
             left == packet_in_transit_bytes_left
  <2>1. BytesIn(Sent \o InTransit) - left = BytesIn(Sent) + PartSent
    <3>1. CASE left > 0
      <4>1. Sent \o InTransit = Append(Sent, packet_in_transit)
        BY <3>1, HeldTypes DEF InTransit
      <4>2. BytesIn(Append(Sent, packet_in_transit))
               = BytesIn(Sent) + packet_in_transit.size
        BY HeldTypes, RateTypes, BytesOfAppend
      <4>3. packet_in_transit.size \in Nat
        BY HeldTypes DEF QueuedPackets
      <4> QED BY <3>1, <4>1, <4>2, <4>3, HeldTypes, RateTypes DEF PartSent
    <3>2. CASE left = 0
      <4>1. Sent \o InTransit = Sent
        BY <3>2, HeldTypes DEF InTransit
      <4> QED BY <3>2, <4>1, RateTypes DEF PartSent
    <3> QED BY <3>1, <3>2, HeldTypes
  <2>2. log.opportunities \in Nat /\ o \in Nat /\ log.opportunities <= o
        /\ PACKET_SIZE \in Nat
    BY TraceCount, RateTypes
  <2> HIDE DEF o
  <2>3. PACKET_SIZE * log.opportunities <= PACKET_SIZE * o
        /\ PACKET_SIZE * o \in Nat
    BY <2>2, TimesMonotone
  <2>4. BytesIn(Sent) + PartSent <= PACKET_SIZE * o
    BY <2>3, RateTypes DEF RateInv
  <2> QED BY <2>1, <2>4 DEF RateWithinTrace, Sent, o
<1> QED
  BY <1>1, <1>2, Invariance, TraceInvariance, InitRate, PTL DEF Spec
=============================================================================
