---------------------------- MODULE PacketFerry ----------------------------
(***************************************************************************)
(* One ferry process of mpshell: packet_ferry (ferry.cc) driving a         *)
(* RateDelayQueue, that is a DelayQueue in series with a LinkQueue, from   *)
(* the events that Poller::poll reports.                                   *)
(*                                                                         *)
(*   tun --read--> delay_queue --get_next--> LinkQueue --write--> sibling  *)
(*   sibling --read------------------------------------------write--> tun  *)
(*                                                                         *)
(* The loop is: compute wait_time, poll for at most that long, run the     *)
(* callbacks of the ready descriptors in the order in which they were      *)
(* added, then write_packets.  Every reading of the clock is a step of its *)
(* own, so time may pass between any two of them.                          *)
(***************************************************************************)
EXTENDS LinkQueue

CONSTANTS delay_ms,      \* the propagation delay of the link
          EmptyWait,     \* DelayQueue::wait_time of an empty queue, 65535
          LastArrival,   \* bound of the model: no datagram arrives later
          MaxSteps,      \* bound of the model: how often the clock is set back
          Signals,       \* bound of the model: the signals that may arrive
          MaxInbound,    \* bound of the model: datagrams from the sibling
          MaxLatency     \* bound of the model: total milliseconds for which
                         \* the process is runnable and does not run

\* The packets of a tun device are at most as large as an opportunity: its MTU
\* is 1500 and four bytes come before each packet.
ASSUME FerryAssumption ==
    /\ {delay_ms, EmptyWait, LastArrival, MaxInbound, MaxSteps, MaxLatency}
           \subseteq Nat
    /\ \A size \in Sizes : size <= PACKET_SIZE
    /\ Signals \subseteq {"SIGCONT", "SIGCHLD", "SIGHUP", "SIGTERM"}
    /\ UIntRange % 2 = 0 /\ EmptyWait < UIntRange \div 2

VARIABLES
    tun,               \* sizes of the datagrams waiting in the tun device
    tun_eof,           \* a read of the tun device returned nothing
    broken,            \* what has failed: see Breaks
    inbound,           \* datagrams from the sibling: [pending, relayed]
    signal,            \* "unsent", a pending signal, or "handled"
    delay_queue,       \* packets with their release time
    ferry              \* the loop's control state, see FerryInit

link == <<next_delivery, base_timestamp, finished, repeat, packet_queue,
          packet_in_transit, packet_in_transit_bytes_left, output_queue, call,
          log, written, history>>
environment == <<tun, broken, inbound, signal>>
ferryVars == <<clock, link, environment, tun_eof, delay_queue, ferry>>

Unknown == -1

FerryInit ==
    /\ Init
    /\ tun = <<>>
    /\ tun_eof = FALSE
    /\ broken = {}
    /\ inbound = [pending |-> 0, relayed |-> 0]
    /\ signal = "unsent"
    /\ delay_queue = <<>>
    /\ ferry = [pc |-> "wait",
                delay_wait |-> Unknown, link_wait |-> Unknown,
                timer |-> 0,            \* what is left of poll's timeout
                ready |-> {},           \* descriptors with revents to handle
                error |-> {},           \* those whose revents hold an error
                packet |-> NoPacket,    \* result of get_next
                reads |-> 0,            \* packets read from the tun device
                passed |-> 0,           \* of these, while the sibling's next
                                        \* datagram waited
                releases |-> <<>>,      \* their release times
                slack |-> 0,            \* ms since wait_time began, at poll
                latency |-> 0,          \* ms runnable without running
                steps |-> 0]            \* how often the clock was set back
-----------------------------------------------------------------------------
(* The environment.                                                        *)

TunArrives ==
    /\ clock <= LastArrival
    /\ ferry.reads + Len(tun) < MaxPackets
    /\ ~tun_eof /\ (tun # <<>> => tun[Len(tun)] > 0)
    /\ \E size \in Sizes \cup {0} : tun' = Append(tun, size)
    /\ UNCHANGED <<clock, link, tun_eof, broken, inbound, signal,
                   delay_queue, ferry>>

SiblingSends ==
    /\ inbound.pending + inbound.relayed < MaxInbound
    /\ inbound' = [inbound EXCEPT !.pending = @ + 1]
    /\ UNCHANGED <<clock, link, tun, tun_eof, broken, signal, delay_queue,
                   ferry>>

SignalArrives ==
    /\ signal = "unsent"
    /\ signal' \in Signals
    /\ UNCHANGED <<clock, link, tun, tun_eof, broken, inbound, delay_queue,
                   ferry>>

\* The tun device or the sibling's end of the socketpair fails, which poll
\* reports as POLLERR or POLLHUP, or the peer is gone, which only a write to
\* the sibling notices: a pair of datagram sockets has no end of file.  One of
\* them is enough: the loop ends at the first that it notices.
Breaks ==
    /\ broken = {}
    /\ broken' \in {{"tun"}, {"sibling"}, {"peer"}}
    /\ UNCHANGED <<clock, link, tun, tun_eof, inbound, signal, delay_queue,
                   ferry>>
-----------------------------------------------------------------------------
(* Poller::poll                                                            *)

\* Descriptors in the order of add_action.
Order == <<"tun", "sibling", "signal">>

\* Descriptors for which poll(2) has something to report.  One that has had
\* EOF is not polled for input any more.
Failing == broken \cap {"tun", "sibling"}
Ready ==
    Failing \cup
    {fd \in {"tun", "sibling", "signal"} :
        CASE fd = "tun"     -> tun # <<>> /\ ~tun_eof
          [] fd = "sibling" -> inbound.pending > 0
          [] fd = "signal"  -> signal \notin {"unsent", "handled"}}

\* poll(2) returns when a descriptor is ready or the timeout has passed.  A
\* negative timeout never passes.
PollReturns ==
    /\ ferry.pc = "poll"
    /\ Ready # {} \/ ferry.timer = 0
    /\ ferry' = [ferry EXCEPT !.pc = IF Ready = {} THEN "move" ELSE "dispatch",
                              !.ready = Ready, !.error = Failing,
                              !.timer = 0, !.slack = 0]
    /\ UNCHANGED <<clock, link, environment, tun_eof, delay_queue>>

\* fd is the next descriptor whose revents the loop handles.
Handles(fd) ==
    /\ ferry.pc = "dispatch"
    /\ fd \in ferry.ready
    /\ \A i, j \in 1..3 : i < j /\ Order[j] = fd => Order[i] \notin ferry.ready

Handled(fd) == [ferry EXCEPT !.ready = @ \ {fd}]

\* POLLERR, POLLHUP or POLLNVAL: the loop returns Exit without looking at the
\* descriptors that follow.
PollError ==
    /\ \E fd \in ferry.error : Handles(fd)
    /\ ferry' = [ferry EXCEPT !.pc = "exited"]
    /\ UNCHANGED <<clock, link, environment, tun_eof, delay_queue>>

\* Mutant of ReadTun: the callback reads until the device is empty.
ReadTunAll ==
    /\ Handles("tun") /\ "tun" \notin broken
    /\ tun' = <<>>
    /\ tun_eof' = (tun[Len(tun)] = 0)
    /\ delay_queue' = delay_queue \o
           [i \in 1..Len(tun) |-> [release |-> clock + delay_ms,
                                  packet |-> [id |-> ferry.reads + i,
                                              size |-> tun[i]]]]
    /\ ferry' = [Handled("tun") EXCEPT
                   !.reads = @ + Len(tun),
                   !.passed = IF inbound.pending > 0 THEN @ + Len(tun) ELSE @,
                   !.releases = @ \o [i \in 1..Len(tun) |-> clock + delay_ms]]
    /\ UNCHANGED <<clock, link, broken, inbound, signal>>

\* ferry.read_packet( tun.read() ): DelayQueue::read_packet
ReadTun ==
    /\ Handles("tun") /\ "tun" \notin broken
    /\ tun' = Tail(tun)
    /\ tun_eof' = (Head(tun) = 0)
    /\ delay_queue' = Append(delay_queue,
                             [release |-> clock + delay_ms,
                              packet |-> [id |-> ferry.reads + 1,
                                          size |-> Head(tun)]])
    /\ ferry' = [Handled("tun") EXCEPT !.reads = @ + 1,
                           !.passed = IF inbound.pending > 0 THEN @ + 1 ELSE @,
                           !.releases = Append(@, clock + delay_ms)]
    /\ UNCHANGED <<clock, link, broken, inbound, signal>>

\* Mutant of ReadSibling: the callback does not read while packets are held.
ReadSiblingLater ==
    /\ Handles("sibling") /\ "sibling" \notin ferry.error
    /\ "tun" \notin broken
    /\ inbound' = IF ferry.reads > 0 THEN inbound
                  ELSE [pending |-> inbound.pending - 1,
                        relayed |-> inbound.relayed + 1]
    /\ ferry' = Handled("sibling")
    /\ UNCHANGED <<clock, link, tun, tun_eof, broken, signal, delay_queue>>

\* tun.write( sibling_fd.read() )
ReadSibling ==
    /\ Handles("sibling") /\ "sibling" \notin ferry.error
    /\ "tun" \notin broken
    /\ inbound' = [pending |-> inbound.pending - 1,
                   relayed |-> inbound.relayed + 1]
    /\ ferry' = [Handled("sibling") EXCEPT !.passed = 0]
    /\ UNCHANGED <<clock, link, tun, tun_eof, broken, signal, delay_queue>>

\* handle_signal for a ferry, which has no children: SIGCONT resumes nobody,
\* SIGCHLD is from an unknown process and throws, SIGHUP and SIGTERM exit.
HandleSignal ==
    /\ Handles("signal")
    /\ signal' = "handled"
    /\ ferry' = IF signal = "SIGCONT" THEN Handled("signal")
                                      ELSE [ferry EXCEPT !.pc = "exited"]
    /\ UNCHANGED <<clock, link, tun, tun_eof, broken, inbound, delay_queue>>

\* Every descriptor has been looked at: poll returns Success.
PollDone ==
    /\ ferry.pc = "dispatch" /\ ferry.ready = {}
    /\ ferry' = [ferry EXCEPT !.pc = "move"]
    /\ UNCHANGED <<clock, link, environment, tun_eof, delay_queue>>
-----------------------------------------------------------------------------
(* RateDelayQueue::wait_time.  C++ leaves open which argument of min is    *)
(* evaluated first.                                                        *)

\* DelayQueue::wait_time, an unsigned int
delay_wait_time ==
    IF delay_queue = <<>> THEN EmptyWait
    ELSE IF delay_queue[1].release <= clock THEN 0
    ELSE (delay_queue[1].release - clock) % UIntRange

DelayWait ==
    /\ ferry.pc = "wait" /\ call.pc = "idle" /\ ferry.delay_wait = Unknown
    /\ ferry' = [ferry EXCEPT !.delay_wait = delay_wait_time]
    /\ UNCHANGED <<clock, link, environment, tun_eof, delay_queue>>

LinkWait ==
    /\ ferry.pc = "wait" /\ ferry.link_wait = Unknown
    /\ wait_time
    /\ UNCHANGED <<environment, tun_eof, delay_queue, ferry>>

LinkWaitReturns ==
    /\ FinishWait
    /\ ferry' = [ferry EXCEPT !.link_wait = call'.result]
    /\ UNCHANGED <<environment, tun_eof, delay_queue>>

\* What an unsigned int is as an int.
IntMax == UIntRange \div 2
AsInt(n) == IF n < IntMax THEN n ELSE n - UIntRange

\* Mutant of min_wait: the longer of the two waits.
max_wait == AsInt(IF ferry.delay_wait > ferry.link_wait
                  THEN ferry.delay_wait ELSE ferry.link_wait)

\* Mutant of min_wait: the result is unsigned like the two waits.
min_wait_unsigned == IF ferry.delay_wait < ferry.link_wait
                     THEN ferry.delay_wait ELSE ferry.link_wait

\* The minimum is unsigned, the result an int, as poll's timeout is.
min_wait == AsInt(IF ferry.delay_wait < ferry.link_wait
                  THEN ferry.delay_wait ELSE ferry.link_wait)

\* The process goes to sleep in poll(2) for at most min_wait.
EnterPoll ==
    /\ ferry.pc = "wait"
    /\ ferry.delay_wait # Unknown /\ ferry.link_wait # Unknown
    /\ ferry' = [ferry EXCEPT !.pc = "poll", !.timer = min_wait,
                              !.delay_wait = Unknown, !.link_wait = Unknown]
    /\ UNCHANGED <<clock, link, environment, tun_eof, delay_queue>>
-----------------------------------------------------------------------------
(* RateDelayQueue::write_packets                                           *)

\* Mutant of GetNext: an empty datagram is handed on like any other.
GetNextEmpty ==
    /\ ferry.pc = "move" /\ call.pc = "idle"
    /\ IF delay_queue # <<>> /\ delay_queue[1].release <= clock
       THEN /\ delay_queue' = Tail(delay_queue)
            /\ ferry' = [ferry EXCEPT !.packet = delay_queue[1].packet,
                                      !.pc = "hand"]
       ELSE /\ ferry' = [ferry EXCEPT !.pc = "write"]
            /\ UNCHANGED delay_queue
    /\ UNCHANGED <<clock, link, environment, tun_eof>>

\* Mutant of GetNext: a packet is released whenever the loop comes by.
GetNextEarly ==
    /\ ferry.pc = "move" /\ call.pc = "idle"
    /\ IF delay_queue # <<>>
       THEN LET packet == delay_queue[1].packet IN
            /\ delay_queue' = Tail(delay_queue)
            /\ ferry' = [ferry EXCEPT !.packet = packet,
                           !.pc = IF packet.size = 0 THEN "write" ELSE "hand"]
       ELSE /\ ferry' = [ferry EXCEPT !.pc = "write"]
            /\ UNCHANGED delay_queue
    /\ UNCHANGED <<clock, link, environment, tun_eof>>

\* Mutant of GetNext: the last packet of the delay queue is taken first.
GetNextLast ==
    /\ ferry.pc = "move" /\ call.pc = "idle"
    /\ IF delay_queue # <<>> /\ delay_queue[1].release <= clock
       THEN LET packet == delay_queue[Len(delay_queue)].packet IN
            /\ delay_queue' = SubSeq(delay_queue, 1, Len(delay_queue) - 1)
            /\ ferry' = [ferry EXCEPT !.packet = packet,
                           !.pc = IF packet.size = 0 THEN "write" ELSE "hand"]
       ELSE /\ ferry' = [ferry EXCEPT !.pc = "write"]
            /\ UNCHANGED delay_queue
    /\ UNCHANGED <<clock, link, environment, tun_eof>>

\* get_next returns the head of the delay queue if it is due.  The empty
\* string means "none" to the caller, and so does an empty datagram.
GetNext ==
    /\ ferry.pc = "move" /\ call.pc = "idle"
    /\ IF delay_queue # <<>> /\ delay_queue[1].release <= clock
       THEN LET packet == delay_queue[1].packet IN
            /\ delay_queue' = Tail(delay_queue)
            /\ ferry' = [ferry EXCEPT !.packet = packet,
                           !.pc = IF packet.size = 0 THEN "write" ELSE "hand"]
       ELSE /\ ferry' = [ferry EXCEPT !.pc = "write"]
            /\ UNCHANGED delay_queue
    /\ UNCHANGED <<clock, link, environment, tun_eof>>

HandToLink ==
    /\ ferry.pc = "hand"
    /\ read_packet(ferry.packet)
    /\ ferry' = [ferry EXCEPT !.pc = "linking", !.packet = NoPacket]
    /\ UNCHANGED <<environment, tun_eof, delay_queue>>

LinkReadReturns ==
    /\ FinishRead
    /\ ferry' = [ferry EXCEPT !.pc = "move"]
    /\ UNCHANGED <<environment, tun_eof, delay_queue>>

\* Mutant of WriteToSibling: write_packets forgets the link's output queue.
WriteNothing ==
    /\ ferry.pc = "write"
    /\ ferry' = [ferry EXCEPT !.pc = "wait", !.packet = NoPacket]
    /\ UNCHANGED <<clock, link, environment, tun_eof, delay_queue>>

WriteToSibling ==
    /\ ferry.pc = "write"
    /\ output_queue # <<>> => broken \cap {"sibling", "peer"} = {}
    /\ write_packets
    /\ ferry' = [ferry EXCEPT !.pc = "wait", !.packet = NoPacket]
    /\ UNCHANGED <<environment, tun_eof, delay_queue>>

\* A system call on something broken throws an Exception, which ends the loop:
\* reading or writing the tun device, writing to the sibling.
SystemCallFails ==
    /\ \/ "tun" \in broken /\ (Handles("tun") \/ Handles("sibling"))
       \/ /\ ferry.pc = "write" /\ output_queue # <<>>
          /\ broken \cap {"sibling", "peer"} # {}
    /\ ferry' = [ferry EXCEPT !.pc = "exited"]
    /\ UNCHANGED <<clock, link, environment, tun_eof, delay_queue>>

Rationalize ==
    /\ rationalize
    /\ UNCHANGED <<environment, tun_eof, delay_queue, ferry>>
-----------------------------------------------------------------------------
Sleeping == ferry.pc = "poll" /\ Ready = {} /\ ferry.timer # 0
Running == ferry.pc # "exited" /\ ~Sleeping

\* Part of wait_time has been computed and grows stale.
WaitKnown == ferry.delay_wait # Unknown \/ ferry.link_wait # Unknown

\* A millisecond passes, for a sleeping process or for one that is not
\* scheduled.
FerryTick ==
    /\ ferry.pc # "exited"
    /\ Running => ferry.latency < MaxLatency
    /\ Tick
    /\ ferry' = [ferry EXCEPT
                   !.timer = IF @ > 0 THEN @ - 1 ELSE @,
                   !.latency = @ + (IF Running THEN 1 ELSE 0),
                   !.slack = @ + (IF WaitKnown THEN 1 ELSE 0)]
    /\ UNCHANGED <<environment, tun_eof, delay_queue>>

\* The wall clock is set back; poll's timeout is not affected.
FerryStepBack ==
    /\ ferry.pc # "exited"
    /\ ferry.steps < MaxSteps
    /\ StepBack
    /\ ferry' = [ferry EXCEPT !.steps = @ + 1]
    /\ UNCHANGED <<environment, tun_eof, delay_queue>>

WaitTime == DelayWait \/ LinkWait \/ LinkWaitReturns \/ EnterPoll
Dispatch == PollReturns \/ PollError \/ ReadTun \/ ReadSibling \/ HandleSignal
               \/ PollDone
WritePackets == GetNext \/ HandToLink \/ LinkReadReturns \/ WriteToSibling
FerryStep == WaitTime \/ Dispatch \/ WritePackets \/ SystemCallFails
                \/ Rationalize

\* What happens outside matters as long as the process is there to notice.
Environment ==
    /\ ferry.pc # "exited"
    /\ TunArrives \/ SiblingSends \/ SignalArrives \/ Breaks

FerryNext ==
    \/ FerryStep \/ FerryTick \/ FerryStepBack
    \/ Environment

FerrySpec == FerryInit /\ [][FerryNext]_ferryVars

\* The process is scheduled as long as it can run and time does not stand
\* still.  Nothing is assumed of the environment.
Fairness == WF_ferryVars(FerryStep) /\ WF_ferryVars(FerryTick)

FairSpec == FerrySpec /\ Fairness
-----------------------------------------------------------------------------
FerryTypeOK ==
    /\ TypeOK
    /\ tun \in Seq(Sizes \cup {0})
    /\ tun_eof \in BOOLEAN /\ broken \subseteq {"tun", "sibling", "peer"}
    /\ inbound \in [pending : Nat, relayed : Nat]
    /\ signal \in {"unsent", "SIGCONT", "SIGCHLD", "SIGHUP", "SIGTERM",
                   "handled"}
    /\ \A i \in 1..Len(delay_queue) : delay_queue[i].release \in Nat
    /\ ferry.pc \in {"wait", "poll", "dispatch", "move", "hand", "linking",
                     "write", "exited"}
    /\ ferry.ready \subseteq {"tun", "sibling", "signal"}
    /\ ferry.error \subseteq {"tun", "sibling"}
    /\ {ferry.delay_wait, ferry.link_wait} \subseteq
           {Unknown} \cup 0..(UIntRange - 1)
    /\ ferry.timer \in (-IntMax)..(IntMax - 1)
    /\ {ferry.slack, ferry.latency, ferry.reads, ferry.passed} \subseteq Nat

\* The packets between the tun device and the sibling, oldest first, as ids:
\* in the output queue, on the link, in the packet queue, on their way from
\* the delay queue to the link, and in the delay queue.
Ids(s) == [i \in 1..Len(s) |-> s[i].id]
Handing ==
    IF ferry.pc = "hand" THEN <<ferry.packet.id>>
    ELSE IF call.op = "read_packet" THEN <<call.packet.id>> ELSE <<>>
Held ==
    Ids(output_queue) \o Ids(InTransit) \o Ids(packet_queue) \o Handing
        \o [i \in 1..Len(delay_queue) |-> delay_queue[i].packet.id]

\* A ferry never reorders, duplicates or invents packets: what it has written
\* and what it holds stands in the order in which the tun device delivered it.
EndToEndOrder ==
    LET line == Ids(written) \o Held
    IN  \A i, j \in 1..Len(line) :
            line[i] <= ferry.reads /\ (i < j => line[i] < line[j])

\* While the wall clock has not been set back, no packet reaches the link before
\* its propagation delay is over, although get_next and read_packet read the
\* clock separately.
DelayRespected ==
    ferry.steps = 0 =>
        LET line == written \o output_queue \o InTransit \o packet_queue
        IN  \A i \in 1..Len(line) :
                line[i].arrival_time >= ferry.releases[line[i].id]

\* The asserts of the link never fail, whenever the clock moves or is set back:
\* the empty datagram of an EOF, which would make rationalize assert, is
\* filtered by write_packets' convention that an empty string means "none".
LinkNeverFails == call.pc \notin {"aborted", "terminated"}

\* The ferry never sleeps past the next thing it has to do: poll's timeout ends
\* by the next delivery opportunity and by the release of the next packet, up
\* to the time that passed between computing the timeout and using it.  Nor
\* does it sleep without a timeout, although the wait is narrowed from 64 bits
\* to an unsigned int and that to an int: it is too short at worst.  This needs
\* a delay that an int can hold, which nothing checks.
NeverOversleeps ==
    ferry.steps = 0 /\ delay_ms < IntMax /\ Sleeping =>
        /\ ferry.timer > 0
        /\ clock + ferry.timer <= next_delivery_time + ferry.slack
        /\ delay_queue # <<>> =>
               clock + ferry.timer <= delay_queue[1].release + ferry.slack

\* A busy tun device does not keep the sibling waiting: at most two packets
\* are read from it before the datagram at the head of the sibling's queue is
\* relayed, one in the round of poll it came too late for and one in the next.
SiblingNotStarved == ferry.passed <= 2

Stopped == ferry.pc = "exited"

\* Every packet read from the tun device is eventually written to the sibling
\* or dropped by the queue, unless the ferry is told to exit.
EveryPacketLeaves ==
    \A n \in 1..MaxPackets :
        ferry.reads >= n
            ~> (Stopped \/ \A i \in 1..Len(Held) : Held[i] # n)

\* Every datagram from the sibling is eventually relayed to the tun device,
\* unless the ferry is told to exit.
EveryDatagramRelayed == inbound.pending > 0 ~> (Stopped \/ inbound.pending = 0)
=============================================================================
