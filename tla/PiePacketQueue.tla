--------------------------- MODULE PiePacketQueue ---------------------------
(***************************************************************************)
(* PIEPacketQueue (pie_packet_queue.cc): a dropping queue that drops when  *)
(* packets enter it, with a probability that calculate_drop_prob() should  *)
(* update every t_update_ milliseconds.  There is no timer: enqueue() and  *)
(* dequeue() make up for the updates that were missed.                     *)
(*                                                                         *)
(* The probability is an integer, in units of 1/Certain; with Certain =    *)
(* 1024 every step of the code is a whole number of units but the decay    *)
(* by 2 %, which is rounded down.                                          *)
(***************************************************************************)
EXTENDS DroppingPacketQueue

CONSTANTS PIE_PACKET_SIZE,  \* 1504
          DQ_THRESHOLD,     \* dq_threshold_, 16384 bytes
          T_UPDATE,         \* t_update_, 30 ms
          UnsignedRange,    \* the range of the unsigned times, 2^32 and 2^64
          MaxMeasured       \* bound of the model: no dequeue beyond this dq_count_

\* The constructor refuses a qdelay_ref or a max_burst of 0.
ASSUME PieAssumption ==
    /\ PIE_PACKET_SIZE \in Nat /\ DQ_THRESHOLD \in Nat
    /\ T_UPDATE \in Nat \ {0} /\ UnsignedRange \in Nat \ {0}
    /\ MaxMeasured \in Nat
    /\ \A params \in Params : params.type = "pie" =>
           params.qdelay_ref \in Nat \ {0} /\ params.max_burst \in Nat \ {0}

VARIABLE pie

qdelay_ref == queue_params.qdelay_ref
max_burst == queue_params.max_burst

Certain == 1024
DQ_COUNT_INVALID == -1

PieInit(now) ==
    pie = [drop_prob |-> 0, burst_allowance |-> 0, qdelay_old |-> 0,
           current_qdelay |-> 0, dq_count |-> DQ_COUNT_INVALID, dq_tstamp |-> 0,
           avg_dq_rate |-> 0, last_update |-> now]

AtLeast(n, low) == IF n < low THEN low ELSE n
AtMost(n, high) == IF n > high THEN high ELSE n

\* The change of the probability, alpha_ = 0.125 and beta_ = 1.25 included: the
\* lower the probability, the smaller the steps.
ProbStep(prob, qdelay, qdelay_old) ==
    ((qdelay - qdelay_ref) + 10 * (qdelay - qdelay_old))
        * (IF 100 * prob < Certain THEN 1 ELSE IF 10 * prob < Certain THEN 4 ELSE 8)

\* Mutant of ForgetsRate: the rate is forgotten whatever the probability is.
ForgetsRateAlways(s) ==
    /\ s.current_qdelay < qdelay_ref \div 2
    /\ s.qdelay_old < qdelay_ref \div 2
    /\ s.avg_dq_rate > 0

\* The queue is all but idle: measure its rate anew and allow a burst.
ForgetsRate(s) ==
    /\ s.drop_prob = 0
    /\ s.current_qdelay < qdelay_ref \div 2
    /\ s.qdelay_old < qdelay_ref \div 2
    /\ s.avg_dq_rate > 0

\* One round of the loop of calculate_drop_prob, with bytes in the queue.
Update(s, bytes) ==
    LET qdelay == IF s.avg_dq_rate > 0 THEN bytes \div s.avg_dq_rate ELSE 0
        raised == s.drop_prob + ProbStep(s.drop_prob, qdelay, s.current_qdelay)
        prob   == AtLeast(AtMost(raised, Certain), 0)
        decays == /\ qdelay = 0 /\ s.current_qdelay = 0
                  /\ bytes = 0 /\ raised <= Certain
        next   == [s EXCEPT
                     !.qdelay_old = s.current_qdelay,
                     !.current_qdelay = qdelay,
                     !.drop_prob = IF decays THEN (98 * prob) \div 100 ELSE prob,
                     !.burst_allowance = AtLeast(@ - T_UPDATE, 0),
                     !.last_update = @ + T_UPDATE]
    IN  IF ForgetsRate(next)
        THEN [next EXCEPT !.dq_count = DQ_COUNT_INVALID, !.avg_dq_rate = 0,
                          !.burst_allowance = max_burst]
        ELSE next

\* now - last_update_
SinceUpdate(s, now) == (now - s.last_update) % UnsignedRange

\* Mutant of Missed: the loop runs once more than there were updates missed.
MissedAndOneMore(s, now) ==
    (SinceUpdate(s, now) + T_UPDATE) \div T_UPDATE

\* The updates missed: the loop runs while now - last_update_ > t_update_.
Missed(s, now) ==
    AtLeast((SinceUpdate(s, now) + T_UPDATE - 1) \div T_UPDATE, 1) - 1

\* now - last_update_ is unsigned.  When now lies before last_update_ the loop
\* has 2^64 / t_update_ rounds ahead of it: it does not come to an end.
Stuck(s, now) == now < s.last_update

\* calculate_drop_prob() from s, with bytes in the queue.
calculate_drop_prob(s, bytes, now) ==
    LET updated[n \in 0..Missed(s, now)] ==
            IF n = 0 THEN s ELSE Update(updated[n - 1], bytes)
    IN  updated[Missed(s, now)]

\* The answers drop_early() can give; which one is up to the random number.
drop_early(s) ==
    IF \/ s.burst_allowance > 0
       \/ s.qdelay_old < qdelay_ref \div 2 /\ 10 * s.drop_prob < 2 * Certain
       \/ queue_size_in_bytes < 2 * PIE_PACKET_SIZE
    THEN {FALSE}
    ELSE {dropped \in BOOLEAN : /\ dropped => s.drop_prob > 0
                                /\ ~dropped => s.drop_prob < Certain}

\* A call that cannot return: calculate_drop_prob() loops for ever.
PieHangs(now) ==
    /\ Discipline = "pie" /\ ~aborted
    /\ Stuck(pie, now)
    /\ aborted' = TRUE
    /\ UNCHANGED <<pie, internal_queue, queue_size_in_bytes,
                   queue_size_in_packets, returned>>

PieEnqueue(p, now) ==
    /\ Discipline = "pie" /\ ~aborted
    /\ Len(internal_queue) < MaxQueued
    /\ ~Stuck(pie, now)
    /\ pie' = calculate_drop_prob(pie, queue_size_in_bytes, now)
    /\ LET fits == good_with(queue_size_in_bytes + p.size,
                             queue_size_in_packets + 1)
       IN  \/ fits /\ FALSE \in drop_early(pie') /\ accept(p)
           \/ (fits => TRUE \in drop_early(pie')) /\ UNCHANGED vars

\* A departure rate can be taken: the measurement that began when the queue
\* was long has seen enough bytes leave.
MeasureRate(s, size, bytes, now) ==
    LET begun == IF bytes >= DQ_THRESHOLD /\ s.dq_count = DQ_COUNT_INVALID
                 THEN [s EXCEPT !.dq_tstamp = now, !.dq_count = 0] ELSE s
        count == begun.dq_count + size
        dtime == (now - begun.dq_tstamp) % UnsignedRange
        rate  == count \div dtime
    IN  CASE begun.dq_count = DQ_COUNT_INVALID -> begun
          [] /\ begun.dq_count # DQ_COUNT_INVALID
             /\ count <= DQ_THRESHOLD \/ dtime = 0 ->
                [begun EXCEPT !.dq_count = count]
          [] OTHER ->
                [begun EXCEPT
                   !.avg_dq_rate = IF @ = 0 THEN rate
                                   ELSE (@ - (@ \div 8)) + (rate \div 8),
                   !.dq_count = IF bytes < DQ_THRESHOLD
                                THEN DQ_COUNT_INVALID ELSE 0,
                   !.dq_tstamp = IF bytes < DQ_THRESHOLD THEN @ ELSE now,
                   !.burst_allowance = AtLeast(@ - dtime, 0)]

PieDequeue(now) ==
    /\ Discipline = "pie"
    /\ ~Stuck(pie, now) /\ pie.dq_count < MaxMeasured
    /\ Dequeue
    /\ pie' = calculate_drop_prob(
                  MeasureRate(pie, Head(internal_queue).size,
                              queue_size_in_bytes', now),
                  queue_size_in_bytes', now)
-----------------------------------------------------------------------------
\* Types of PIE's state: a probability, and unsigned times and counts.
PieTypeOK ==
    pie \in [drop_prob : 0..Certain, burst_allowance : Nat, qdelay_old : Nat,
             current_qdelay : Nat, dq_count : Nat \cup {DQ_COUNT_INVALID},
             dq_tstamp : Nat, avg_dq_rate : Nat, last_update : Nat]
=============================================================================
