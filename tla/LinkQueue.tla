----------------------------- MODULE LinkQueue -----------------------------
(***************************************************************************)
(* LinkQueue (link_queue.cc): a link that follows a trace of delivery      *)
(* opportunities.  Each opportunity carries up to PACKET_SIZE bytes of the *)
(* packets that wait in a packet queue; a packet that does not fit stays   *)
(* in transit and takes the rest of its bytes from later opportunities.    *)
(* The emulation is lazy: read_packet and wait_time first call             *)
(* rationalize(now), which uses every opportunity up to now.               *)
(*                                                                         *)
(* rationalize is modelled loop iteration by loop iteration, call.pc being *)
(* the point control has reached; the wall clock is read once per call, so *)
(* it only moves between calls.  The packet queue is any discipline that   *)
(* keeps the contract of module PacketQueue.  The clock is CLOCK_REALTIME, *)
(* which an administrator or NTP may set back by up to MaxStepBack.        *)
(***************************************************************************)
EXTENDS PacketQueue, Integers, FiniteSets

CONSTANTS PACKET_SIZE,     \* bytes per opportunity, and the largest packet
          Schedule,        \* the trace: schedule_, offsets in milliseconds
          Repeats,         \* the values repeat_ may have: whether the trace is
                           \* started again when it ends
          DropsAtDequeue,  \* the discipline may drop at dequeue (CoDel)
          Sizes,           \* sizes of the packets handed to read_packet
          Never,           \* next_delivery_time() of a finished trace, 2^64-1
          UIntRange,       \* wait_time() is an unsigned int: modulo 2^32
          Epoch,           \* timestamp() when the queue is constructed
          MaxTime,         \* bound of the model: the clock stops here
          MaxPackets,      \* bound of the model: packets handed in
          MaxStepBack      \* how far the wall clock may be set back at once

\* What the constructor checks of a trace before it accepts it.
ASSUME ScheduleAssumption ==
    /\ Schedule \in Seq(Nat)
    /\ Len(Schedule) > 0
    /\ \A i, j \in 1..Len(Schedule) : i <= j => Schedule[i] <= Schedule[j]
    /\ Schedule[Len(Schedule)] > 0

ASSUME ParameterAssumption ==
    /\ PACKET_SIZE \in Nat \ {0}
    /\ Repeats \subseteq BOOLEAN
    /\ DropsAtDequeue \in BOOLEAN
    /\ Sizes \subseteq Nat \ {0}
    /\ Epoch \in Nat /\ MaxTime \in Nat /\ Never \in Nat
    /\ UIntRange \in Nat \ {0}
    /\ MaxPackets \in Nat /\ MaxStepBack \in Nat
    /\ Epoch <= MaxTime /\ MaxTime < Never

VARIABLES
    clock,                         \* timestamp()
    next_delivery, base_timestamp, finished, repeat,
    packet_queue,                  \* contents of *packet_queue_
    packet_in_transit,
    packet_in_transit_bytes_left,
    output_queue,
    call,          \* the call in progress, or the one that returned last
    log,           \* lines written to log_, by kind, and the time of the last
    written,       \* packets written to the file descriptor, in order
    history        \* what the code does not keep: see Init

linkState == <<next_delivery, base_timestamp, finished, repeat>>
transitState == <<packet_in_transit, packet_in_transit_bytes_left>>
vars == <<clock, linkState, packet_queue, transitState, output_queue,
          call, log, written, history>>

\* A QueuedPacket: contents (a name and a size) and the time of its arrival.
QueuedPacket(p, time) == [id |-> p.id, size |-> p.size, arrival_time |-> time]
NoPacket == QueuedPacket([id |-> 0, size |-> 0], 0)

TracePeriod == Schedule[Len(Schedule)]

next_delivery_time ==
    IF finished THEN Never ELSE Schedule[next_delivery + 1] + base_timestamp

\* No call is in progress; the last one returned result.
Returned(result) ==
    [pc |-> "idle", op |-> "none", now |-> 0, packet |-> NoPacket,
     this_delivery_time |-> 0, bytes_left_in_this_delivery |-> 0,
     result |-> result]

Init ==
    /\ clock = Epoch
    /\ next_delivery = 0
    /\ base_timestamp = Epoch
    /\ finished = FALSE
    /\ repeat \in Repeats
    /\ packet_queue = <<>>
    /\ packet_in_transit = NoPacket
    /\ packet_in_transit_bytes_left = 0
    /\ output_queue = <<>>
    /\ call = Returned(0)
    /\ log = [arrivals |-> 0, drops |-> 0, opportunities |-> 0,
              departures |-> 0, time |-> 0]
    /\ written = <<>>
    \* emulated_to: latest time the link was rationalized to (-1: never);
    \* idle_at: time of the last opportunity that was not used up;
    \* arrived: packets handed in.
    /\ history = [emulated_to |-> -1, idle_at |-> 0, arrived |-> 0]
-----------------------------------------------------------------------------
\* Mutant of Begin: the arrival is logged before the link is rationalized.
BeginLogged(op, p) ==
    /\ call.pc = "idle"
    /\ call' = [call EXCEPT !.pc = "rationalize", !.op = op, !.now = clock,
                            !.packet = p]
    /\ history' = [history EXCEPT
                     !.emulated_to = IF clock > @ THEN clock ELSE @,
                     !.arrived = @ + (IF op = "read_packet" THEN 1 ELSE 0)]
    /\ log' = [log EXCEPT !.time = clock]
    /\ UNCHANGED <<clock, linkState, packet_queue, transitState, output_queue,
                   written>>

\* Entry of a call: the clock is read once, then rationalize(now) begins.
Begin(op, p) ==
    /\ call.pc = "idle"
    /\ call' = [call EXCEPT !.pc = "rationalize", !.op = op, !.now = clock,
                            !.packet = p]
    /\ history' = [history EXCEPT
                     !.emulated_to = IF clock > @ THEN clock ELSE @,
                     !.arrived = @ + (IF op = "read_packet" THEN 1 ELSE 0)]
    /\ UNCHANGED <<clock, linkState, packet_queue, transitState, output_queue,
                   log, written>>

\* A packet larger than PACKET_SIZE throws a runtime_error that no caller
\* catches: the process is gone.
ReadOversized(p) ==
    /\ call.pc = "idle"
    /\ p.size > PACKET_SIZE
    /\ call' = [call EXCEPT !.pc = "terminated", !.op = "read_packet"]
    /\ UNCHANGED <<clock, linkState, packet_queue, transitState, output_queue,
                   log, written, history>>

read_packet(p) ==
    \/ p.size <= PACKET_SIZE /\ Begin("read_packet", p)
    \/ ReadOversized(p)

wait_time == Begin("wait_time", NoPacket)

\* Mutant of Due: an opportunity at this very millisecond is not due yet.
DueLater == call.pc = "rationalize" /\ next_delivery_time < call.now

Due == call.pc = "rationalize" /\ next_delivery_time <= call.now

\* Mutant of use_a_delivery_opportunity: the next round of the trace starts
\* where the first one did.
use_without_new_base ==
    LET next == (next_delivery + 1) % Len(Schedule) IN
    /\ log' = [log EXCEPT !.opportunities = @ + 1, !.time = next_delivery_time]
    /\ next_delivery' = next
    /\ finished' = (finished \/ (next = 0 /\ ~repeat))
    /\ UNCHANGED <<base_timestamp, repeat>>

\* Mutant of use_a_delivery_opportunity: repeat_ is ignored.
use_always_repeating ==
    LET next == (next_delivery + 1) % Len(Schedule) IN
    /\ log' = [log EXCEPT !.opportunities = @ + 1, !.time = next_delivery_time]
    /\ next_delivery' = next
    /\ base_timestamp' = base_timestamp + (IF next = 0 THEN TracePeriod ELSE 0)
    /\ UNCHANGED <<finished, repeat>>

\* use_a_delivery_opportunity, wraparound included
use_a_delivery_opportunity ==
    LET next == (next_delivery + 1) % Len(Schedule) IN
    /\ log' = [log EXCEPT !.opportunities = @ + 1, !.time = next_delivery_time]
    /\ next_delivery' = next
    /\ base_timestamp' = base_timestamp
                            + (IF next = 0 /\ repeat THEN TracePeriod ELSE 0)
    /\ finished' = (finished \/ (next = 0 /\ ~repeat))
    /\ UNCHANGED repeat

\* Mutant of BurnOpportunity: one byte too many per opportunity.
BurnTooMuch ==
    /\ Due
    /\ use_a_delivery_opportunity
    /\ call' = [call EXCEPT !.pc = "deliver",
                            !.this_delivery_time = next_delivery_time,
                            !.bytes_left_in_this_delivery = PACKET_SIZE + 1]
    /\ UNCHANGED <<clock, packet_queue, transitState, output_queue, written,
                   history>>

\* The head of rationalize's outer loop: burn an opportunity.
BurnOpportunity ==
    /\ Due
    /\ use_a_delivery_opportunity
    /\ call' = [call EXCEPT !.pc = "deliver",
                            !.this_delivery_time = next_delivery_time,
                            !.bytes_left_in_this_delivery = PACKET_SIZE]
    /\ UNCHANGED <<clock, packet_queue, transitState, output_queue, written,
                   history>>

\* The four asserts on the packet in transit.
TransitAsserts(p, left) ==
    /\ p.arrival_time <= call.this_delivery_time
    /\ left <= PACKET_SIZE
    /\ left > 0
    /\ left <= p.size

\* Mutant of amount_to_send: the packet takes all of the opportunity.
send_whole_opportunity(left) == call.bytes_left_in_this_delivery

\* How much of the opportunity p, with left bytes to go, can use.
amount_to_send(left) ==
    IF left < call.bytes_left_in_this_delivery
    THEN left ELSE call.bytes_left_in_this_delivery

\* Send bytes of p, of which left bytes are still to go; push it to the output
\* queue when it has been fully sent.
Send(p, left) ==
    LET amount == amount_to_send(left)
        done   == amount = left
    IN  /\ packet_in_transit' = p
        /\ packet_in_transit_bytes_left' = left - amount
        /\ call' = [call EXCEPT
                      !.pc = IF TransitAsserts(p, left) THEN @ ELSE "aborted",
                      !.bytes_left_in_this_delivery = @ - amount]
        /\ output_queue' = IF done THEN Append(output_queue, p) ELSE output_queue
        /\ log' = IF done THEN [log EXCEPT !.departures = @ + 1,
                                           !.time = call.this_delivery_time]
                          ELSE log
        /\ UNCHANGED <<clock, linkState, written, history>>

Delivering == call.pc = "deliver" /\ call.bytes_left_in_this_delivery > 0

\* One iteration of the inner loop with a packet in transit.
SendTransit ==
    /\ Delivering
    /\ packet_in_transit_bytes_left > 0
    /\ Send(packet_in_transit, packet_in_transit_bytes_left)
    /\ UNCHANGED packet_queue

\* One iteration of the inner loop that takes the next packet from the queue.
SendNext ==
    /\ Delivering
    /\ packet_in_transit_bytes_left = 0
    /\ packet_queue # <<>>
    /\ packet_queue' \in DequeueOutcomes(packet_queue, DropsAtDequeue)
    /\ Send(Head(packet_queue), Head(packet_queue).size)

\* Mutant of EndDelivery: an opportunity ends with the packet it has sent.
EndDeliveryEarly ==
    /\ call.pc = "deliver"
    /\ packet_in_transit_bytes_left = 0 \/ call.bytes_left_in_this_delivery = 0
    /\ history' = IF call.bytes_left_in_this_delivery > 0
                  THEN [history EXCEPT !.idle_at = call.this_delivery_time]
                  ELSE history
    /\ call' = [call EXCEPT !.pc = "rationalize"]
    /\ UNCHANGED <<clock, linkState, packet_queue, transitState, output_queue,
                   log, written>>

\* The inner loop ends: the opportunity is used up, or nothing is waiting.
EndDelivery ==
    /\ call.pc = "deliver"
    /\ \/ /\ call.bytes_left_in_this_delivery = 0
          /\ UNCHANGED history
       \/ /\ call.bytes_left_in_this_delivery > 0
          /\ packet_in_transit_bytes_left = 0
          /\ packet_queue = <<>>
          /\ history' = [history EXCEPT !.idle_at = call.this_delivery_time]
    /\ call' = [call EXCEPT !.pc = "rationalize"]
    /\ UNCHANGED <<clock, linkState, packet_queue, transitState, output_queue,
                   log, written>>

\* Mutant of FinishRead: the packet is queued without emulating up to now.
FinishReadStale ==
    /\ call.pc = "rationalize"
    /\ call.op = "read_packet"
    /\ packet_queue' \in EnqueueOutcomes(packet_queue,
                                         QueuedPacket(call.packet, call.now))
    /\ log' = [log EXCEPT !.arrivals = @ + 1, !.time = call.now,
                          !.drops = @ + (Len(packet_queue) + 1
                                            - Len(packet_queue'))]
    /\ call' = Returned(0)
    /\ UNCHANGED <<clock, linkState, transitState, output_queue, written,
                   history>>

\* Mutant of FinishRead: what the queue discards at its head is not counted.
FinishReadMiscounted ==
    /\ call.pc = "rationalize" /\ ~Due
    /\ call.op = "read_packet"
    /\ packet_queue' \in EnqueueOutcomes(packet_queue,
                                         QueuedPacket(call.packet, call.now))
    /\ log' = [log EXCEPT !.arrivals = @ + 1, !.time = call.now,
                          !.drops = @ + (IF packet_queue' = packet_queue
                                         THEN 1 ELSE 0)]
    /\ call' = Returned(0)
    /\ UNCHANGED <<clock, linkState, transitState, output_queue, written,
                   history>>

\* The rest of read_packet after rationalize: enqueue, and log what is missing.
FinishRead ==
    /\ call.pc = "rationalize" /\ ~Due
    /\ call.op = "read_packet"
    /\ packet_queue' \in EnqueueOutcomes(packet_queue,
                                         QueuedPacket(call.packet, call.now))
    /\ log' = [log EXCEPT !.arrivals = @ + 1, !.time = call.now,
                          !.drops = @ + (Len(packet_queue) + 1
                                            - Len(packet_queue'))]
    /\ call' = Returned(0)
    /\ UNCHANGED <<clock, linkState, transitState, output_queue, written,
                   history>>

\* The rest of wait_time after rationalize.  The loop has left
\* next_delivery_time() > now, so the result is their difference,
\* cut to the width of the return type: of a finished trace only the low bits
\* of 2^64-1 - now are left.
FinishWait ==
    /\ call.pc = "rationalize" /\ ~Due
    /\ call.op = "wait_time"
    /\ call' = Returned((next_delivery_time - call.now) % UIntRange)
    /\ UNCHANGED <<clock, linkState, packet_queue, transitState, output_queue,
                   log, written, history>>

rationalize == BurnOpportunity \/ SendTransit \/ SendNext \/ EndDelivery
LinkStep == rationalize \/ FinishRead \/ FinishWait

\* Mutant of write_packets: the packets written are not popped.
write_without_pop ==
    /\ call.pc = "idle"
    /\ Len(written) < 2 * MaxPackets
    /\ written' = written \o output_queue
    /\ UNCHANGED <<clock, linkState, packet_queue, transitState, output_queue,
                   call, log, history>>

\* write_packets empties the output queue into the descriptor.
write_packets ==
    /\ call.pc = "idle"
    /\ written' = written \o output_queue
    /\ output_queue' = <<>>
    /\ UNCHANGED <<clock, linkState, packet_queue, transitState, call, log,
                   history>>

\* A millisecond passes between two calls.
Tick ==
    /\ call.pc = "idle"
    /\ clock < MaxTime
    /\ clock' = clock + 1
    /\ UNCHANGED <<linkState, packet_queue, transitState, output_queue, call,
                   log, written, history>>

\* The wall clock is set back.
StepBack ==
    /\ call.pc = "idle"
    /\ \E k \in 1..MaxStepBack : k <= clock /\ clock' = clock - k
    /\ UNCHANGED <<linkState, packet_queue, transitState, output_queue, call,
                   log, written, history>>

\* The callers: any order of calls, packets named in the order they come.
Call ==
    \/ \E size \in Sizes :
          /\ history.arrived < MaxPackets
          /\ read_packet([id |-> history.arrived + 1, size |-> size])
    \/ wait_time
    \/ write_packets

Next == Call \/ LinkStep \/ Tick \/ StepBack

Spec == Init /\ [][Next]_vars
-----------------------------------------------------------------------------
QueuedPackets == [id : Nat, size : Nat, arrival_time : Nat]

TypeOK ==
    /\ clock \in Nat
    /\ next_delivery \in 0..(Len(Schedule) - 1)
    /\ base_timestamp \in Nat
    /\ finished \in BOOLEAN
    /\ repeat \in BOOLEAN
    /\ packet_queue \in Seq(QueuedPackets)
    /\ packet_in_transit \in QueuedPackets
    /\ packet_in_transit_bytes_left \in Nat
    /\ output_queue \in Seq(QueuedPackets)
    /\ written \in Seq(QueuedPackets)
    /\ call \in [pc : {"idle", "rationalize", "deliver", "terminated",
                       "aborted"},
                 op : {"none", "read_packet", "wait_time"},
                 now : Nat, packet : [id : Nat, size : Nat] \cup {NoPacket},
                 this_delivery_time : Nat,
                 bytes_left_in_this_delivery : Nat,
                 result : Nat]
    /\ log \in [arrivals : Nat, drops : Nat, opportunities : Nat,
                departures : Nat, time : Nat]
    /\ history \in [emulated_to : Int, idle_at : Nat, arrived : Nat]

\* The asserts of rationalize never fail, whatever the trace, the sizes, the
\* discipline and the clock do: no packet is carried by an opportunity that
\* lies before its arrival.
NeverAborts == call.pc # "aborted"

InTransit ==
    IF packet_in_transit_bytes_left > 0 THEN <<packet_in_transit>> ELSE <<>>

\* The link never reorders or duplicates: through the wire, the output queue,
\* the transit slot and the packet queue, packets stand in arrival order.
InOrder ==
    LET line == written \o output_queue \o InTransit \o packet_queue
    IN  \A i, j \in 1..Len(line) : i < j => line[i].id < line[j].id

\* The opportunities of the trace up to time t, counted from the trace itself:
\* repetition k of the trace begins k periods after the start.
OpportunitiesUpTo(t) ==
    Cardinality({ki \in (IF repeat THEN 0..MaxTime ELSE {0})
                            \X (1..Len(Schedule)) :
                    Epoch + ki[1] * TracePeriod + Schedule[ki[2]] <= t})

\* Between calls exactly the opportunities up to the latest time a call saw
\* have been used: none twice after the clock is set back or the trace wraps
\* around, none skipped.
OpportunitiesMatchTrace ==
    call.pc = "idle" =>
        log.opportunities = OpportunitiesUpTo(history.emulated_to)

\* The link never carries more than the trace allows: the bytes of all packets
\* sent, the sent part of the one in transit included, fit in the
\* opportunities up to now.
RateWithinTrace ==
    BytesIn(written \o output_queue \o InTransit) - packet_in_transit_bytes_left
        <= PACKET_SIZE * OpportunitiesUpTo(history.emulated_to)

\* The link never wastes capacity: a packet that still waits arrived after the
\* last opportunity that was not used up.  (With a clock that is set back a
\* packet may arrive before an opportunity that has already been emulated.)
WorkConserving ==
    MaxStepBack = 0 =>
        \A i \in 1..Len(InTransit \o packet_queue) :
            (InTransit \o packet_queue)[i].arrival_time >= history.idle_at

\* The log accounts for every packet between calls: each one that arrived was
\* dropped, has departed, or is still held.  It does not for CoDel, whose drops
\* happen inside dequeue(), where nothing records them.
LogAccountsForPackets ==
    call.pc = "idle" /\ ~DropsAtDequeue =>
        /\ log.arrivals = log.drops + log.departures
                             + Len(InTransit) + Len(packet_queue)
        /\ log.departures = Len(written) + Len(output_queue)

\* The link's own time never runs backwards, not across the wraparound of the
\* trace and not when the wall clock is set back.
DeliveryTimeMonotone == [][next_delivery_time' >= next_delivery_time]_vars

\* While the wall clock is not set back the lines of the log are in time order,
\* although rationalize logs opportunities after they have passed.
LogInTimeOrder == [][MaxStepBack = 0 => log'.time >= log.time]_vars
=============================================================================
