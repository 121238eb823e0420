---------------------------- MODULE PacketQueues ----------------------------
(***************************************************************************)
(* The queue a link can be given: get_packet_queue() builds one of the     *)
(* five disciplines from queue_params.  Callers hand in a packet together  *)
(* with the time of its arrival and call dequeue() only when not empty().  *)
(* CoDel and PIE read the wall clock, which may be set back.               *)
(***************************************************************************)
EXTENDS CodelPacketQueue, PiePacketQueue

CONSTANTS Epoch,        \* timestamp() when the queue is constructed
          MaxTime,      \* bound of the model: the clock stops here
          MaxStepBack   \* bound of the model: how far the clock is set back

\* A time is a uint64_t in milliseconds, which the clock does not use up.
ASSUME TimeAssumption ==
    /\ Epoch \in Nat /\ MaxTime \in Nat /\ MaxStepBack \in Nat
    /\ Epoch < UnsignedRange /\ MaxTime < UnsignedRange

VARIABLES clock,
          history  \* what the code does not keep: the last time a packet left
                   \* a CoDel queue that was not standing, and whether the
                   \* clock has been set back

queueVars == <<vars, codel, pie, clock, history>>

Passive == Discipline \in {"infinite", "droptail", "drophead"}

\* get_packet_queue
QueuesInit ==
    /\ Init
    /\ CodelInit
    /\ clock = Epoch
    /\ PieInit(clock)
    /\ history = [low_at |-> Epoch, stepped_back |-> FALSE]

\* Only CoDel looks at the time of arrival; the others' packets have one value.
ArrivalTime == IF Discipline = "codel" THEN clock ELSE Epoch

QueueEnqueue(p) ==
    /\ p.arrival_time = ArrivalTime
    /\ \/ Enqueue(p) /\ UNCHANGED <<codel, pie>>
       \/ CodelEnqueue(p) /\ UNCHANGED pie
       \/ PieEnqueue(p, clock) /\ UNCHANGED codel
    /\ UNCHANGED <<queue_params, clock, history>>

QueueDequeue ==
    /\ UNCHANGED <<queue_params, clock>>
    /\ \/ /\ Passive /\ Dequeue
          /\ UNCHANGED <<codel, pie, history>>
       \/ /\ CodelDequeue(clock)
          /\ history' = IF \E k \in 1..(Len(internal_queue)
                                           - Len(internal_queue')) : Low(k, clock)
                        THEN [history EXCEPT !.low_at = clock] ELSE history
          /\ UNCHANGED pie
       \/ /\ PieDequeue(clock)
          /\ UNCHANGED <<codel, history>>

QueueHangs ==
    /\ PieHangs(clock)
    /\ UNCHANGED <<queue_params, codel, clock, history>>

\* Time matters to CoDel and PIE only.
Tick ==
    /\ ~Passive /\ clock < MaxTime
    /\ clock' = clock + 1
    /\ UNCHANGED <<vars, codel, pie, history>>

\* The clock is set back, once in the model.
StepBack ==
    /\ ~Passive /\ ~history.stepped_back
    /\ \E k \in 1..MaxStepBack : k <= clock /\ clock' = clock - k
    /\ history' = [history EXCEPT !.stepped_back = TRUE]
    /\ UNCHANGED <<vars, codel, pie>>

QueuesNext ==
    \/ \E p \in Packets : QueueEnqueue(p)
    \/ QueueDequeue
    \/ QueueHangs
    \/ Tick
    \/ StepBack

QueuesSpec == QueuesInit /\ [][QueuesNext]_queueVars
-----------------------------------------------------------------------------
\* Types of the queues, of both control laws and of the clock.  The unsigned
\* numbers of the control laws are natural numbers here that never go below
\* zero, and a probability never exceeds 1, whatever the clock does.
QueuesTypeOK ==
    /\ TypeOK
    /\ CodelTypeOK
    /\ PieTypeOK
    /\ clock \in Nat /\ clock < UnsignedRange
    /\ history \in [low_at : Nat, stepped_back : BOOLEAN]

\* can_accept_one, which states the limits a second time, agrees with what
\* enqueue does in every state: a packet that can be accepted is appended and
\* costs no other packet, one that cannot be accepted costs a packet.  (PIE
\* may drop a packet that fits.)
AcceptsWhatFits ==
    ~aborted /\ Len(internal_queue) < MaxQueued /\ Discipline # "pie" =>
        \A p \in {q \in Packets : q.arrival_time = ArrivalTime} :
            can_accept_one(p.size)
                <=> ENABLED (/\ QueueEnqueue(p)
                             /\ internal_queue' = Append(internal_queue, p))

\* No legal sequence of calls makes a queue fail or hang, but for two known
\* ways: a drophead queue with a byte limit meets the assert of dequeue, and
\* the loop of PIE does not end once the clock has been set back.  CoDel never
\* pops an empty queue, although it pops several packets per call.
FailsOnlyAsKnown ==
    aborted => \/ Discipline = "drophead" /\ byte_limit > 0
               \/ Discipline = "pie" /\ history.stepped_back

DropsAtDequeue == Len(internal_queue') < Len(internal_queue) - 1

\* CoDel drops only from a standing queue: no packet that left in the last
\* interval was young, or left hardly anything behind it.
DropsOnlyStandingQueue ==
    [][Discipline = "codel" /\ ~history.stepped_back /\ DropsAtDequeue
          => clock - history.low_at >= interval]_queueVars

\* "we ignore the drop decision if the current packet is the only one in the
\* queue": a dequeue that drops leaves a packet behind, however many it drops
\* and whatever the clock does.
DropLeavesAPacket ==
    [][DropsAtDequeue => internal_queue' # <<>>]_queueVars

\* PIE never drops a packet early on a guess: while the departure rate is not
\* known, at the start and after it was forgotten, the probability is 0.
DropsOnlyWhenMeasured == pie.avg_dq_rate = 0 => pie.drop_prob = 0

\* A call to a PIE queue makes up for all updates that were missed since the
\* last one and for none that is not due, however long nobody called.
UpdatesKeepPace ==
    [][Discipline = "pie" /\ clock' = clock /\ ~history.stepped_back
          => /\ pie'.last_update <= clock
             /\ clock <= pie'.last_update + T_UPDATE]_queueVars

\* All five disciplines are lossy FIFOs as LinkQueue expects, and only CoDel
\* drops when a packet is taken.
Contract == INSTANCE AbstractPacketQueue
                WITH queue <- internal_queue,
                     drops_at_dequeue <- Discipline = "codel"

IsLossyFifo == Contract!Spec
=============================================================================
