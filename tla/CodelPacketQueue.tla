-------------------------- MODULE CodelPacketQueue --------------------------
(***************************************************************************)
(* CODELPacketQueue (codel_packet_queue.cc): a dropping queue that drops   *)
(* when packets leave it.  The inner r of dequeue() shadows the outer one, *)
(* so the packet at the head is always the one returned and the packets    *)
(* behind it are the ones dropped.  The clock is read once per call (now); *)
(* times are uint64_t, so a difference wraps around when the wall clock    *)
(* has been set back.                                                      *)
(***************************************************************************)
EXTENDS DroppingPacketQueue, FiniteSets

CONSTANTS PACKET_SIZE,   \* 1504, the largest packet a link accepts
          WordRange,     \* 2^64, the range of a uint64_t
          MaxCount       \* bound of the model: no dequeue beyond this count_

\* The constructor refuses a target or an interval of 0, and LinkQueue refuses
\* a packet that is larger than PACKET_SIZE.
ASSUME CodelAssumption ==
    /\ PACKET_SIZE \in Nat /\ WordRange \in Nat \ {0} /\ MaxCount \in Nat
    /\ \A params \in Params : params.type = "codel" =>
           params.target \in Nat \ {0} /\ params.interval \in Nat \ {0}
    /\ \A p \in Packets : p.arrival_time \in Nat /\ p.size <= PACKET_SIZE

VARIABLE codel     \* the control law's state

target == queue_params.target
interval == queue_params.interval

CodelInit == codel = [first_above_time |-> 0, drop_next |-> 0, count |-> 0,
                      lastcount |-> 0, dropping |-> FALSE]

\* size_bytes() when this call has popped k packets.
BytesLeft(k) == queue_size_in_bytes - BytesIn(SubSeq(internal_queue, 1, k))

\* The k-th packet popped by this call leaves no standing queue: it was the
\* last one, it did not wait for long, or there is hardly anything behind it.
Low(k, now) ==
    \/ k = Len(internal_queue)
    \/ (now - internal_queue[k].arrival_time) % WordRange < target
    \/ BytesLeft(k) <= PACKET_SIZE

\* Mutant of dodequeue: the queue running low does not end the interval.
dodequeue_without_reset(c, k, now) ==
    [c EXCEPT !.first_above_time = IF @ = 0 THEN now + interval ELSE @]

\* dodequeue of the k-th packet: what it does to the control law ...
dodequeue(c, k, now) ==
    [c EXCEPT !.first_above_time = IF Low(k, now) THEN 0
                                   ELSE IF @ = 0 THEN now + interval ELSE @]

\* Mutant of ok_to_drop: packets are dropped down to the last one.
ok_to_drop_to_the_end(c, k, now) ==
    /\ k < Len(internal_queue)
    /\ (now - internal_queue[k].arrival_time) % WordRange >= target
    /\ c.first_above_time # 0
    /\ now >= c.first_above_time

\* ... and what it answers.
ok_to_drop(c, k, now) ==
    /\ ~Low(k, now)
    /\ c.first_above_time # 0
    /\ now >= c.first_above_time

\* t + interval / sqrt( count ), cut to an integer.
control_law(t, count) ==
    t + Cardinality({d \in 1..interval : d * d * count <= interval * interval})

\* One more round of the drop loop, which pops the k-th packet.
DropOne(c, k, now) ==
    LET popped == [dodequeue(c, k, now) EXCEPT !.count = @ + 1] IN
    IF ok_to_drop(c, k, now)
    THEN [popped EXCEPT !.drop_next = control_law(@, popped.count)]
    ELSE [popped EXCEPT !.dropping = FALSE]

DropAgain(c, now) == now >= c.drop_next /\ c.dropping

\* The call has popped k packets and returns the first one.
Pop(k) ==
    /\ returned' = Head(internal_queue)
    /\ internal_queue' = From(internal_queue, k + 1)
    /\ queue_size_in_bytes' = BytesLeft(k)
    /\ queue_size_in_packets' = queue_size_in_packets - k

\* The control law's state when a dequeue() while dropping has popped k packets,
\* for every k.
DropLoop(now) ==
    LET after[k \in 1..Len(internal_queue)] ==
            IF k = 1
            THEN [dodequeue(codel, 1, now) EXCEPT
                     !.dropping = ok_to_drop(codel, 1, now)]
            ELSE DropOne(after[k - 1], k, now)
    IN  after

\* dequeue() while dropping: the loop pops packets until the next drop is not
\* due.  A loop that is not over when the queue is empty meets an assert.
DequeueDropping(now) ==
    /\ codel.dropping
    /\ LET after == DropLoop(now)
       IN  \E k \in 1..Len(internal_queue) :
              /\ \A j \in 1..(k - 1) : DropAgain(after[j], now)
              /\ DropAgain(after[k], now) => k = Len(internal_queue)
              /\ Pop(k)
              /\ codel' = after[k]
              /\ aborted' = (~good' \/ DropAgain(after[k], now))

\* dequeue() that enters the dropping state: one packet is dropped, and the
\* rate of drops goes on where it was if that was not long ago.
DequeueFirstDrop(now) ==
    /\ ~codel.dropping /\ ok_to_drop(codel, 1, now)
    /\ LET popped == dodequeue(dodequeue(codel, 1, now), 2, now)
           delta  == codel.count - codel.lastcount
           recent == (now - codel.drop_next) % WordRange < 16 * interval
           count  == IF delta > 1 /\ recent THEN delta ELSE 1
       IN  codel' = [popped EXCEPT !.dropping = TRUE, !.count = count,
                                   !.lastcount = count,
                                   !.drop_next = control_law(now, count)]
    /\ Pop(2)
    /\ aborted' = ~good'

DequeueNoDrop(now) ==
    /\ ~codel.dropping /\ ~ok_to_drop(codel, 1, now)
    /\ codel' = dodequeue(codel, 1, now)
    /\ Pop(1)
    /\ aborted' = ~good'

CodelDequeue(now) ==
    /\ Discipline = "codel"
    /\ ~aborted
    /\ internal_queue # <<>>
    /\ codel.count < MaxCount
    /\ DequeueDropping(now) \/ DequeueFirstDrop(now) \/ DequeueNoDrop(now)

CodelEnqueue(p) ==
    /\ Discipline = "codel"
    /\ ~aborted
    /\ Len(internal_queue) < MaxQueued
    /\ \/ /\ good_with(queue_size_in_bytes + p.size, queue_size_in_packets + 1)
          /\ accept(p)
       \/ /\ ~good_with(queue_size_in_bytes + p.size, queue_size_in_packets + 1)
          /\ UNCHANGED vars
    /\ UNCHANGED codel
-----------------------------------------------------------------------------
\* Types of the control law.  count_ - lastcount_ is a difference of unsigned
\* numbers, which does not wrap around.
CodelTypeOK ==
    /\ codel \in [first_above_time : Nat, drop_next : Nat, count : Nat,
                  lastcount : Nat, dropping : BOOLEAN]
    /\ codel.lastcount <= codel.count
=============================================================================
