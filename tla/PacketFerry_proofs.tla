------------------------- MODULE PacketFerry_proofs -------------------------
(***************************************************************************)
(* A ferry for every trace, delay, size and schedule of its process, with  *)
(* a wall clock that may be set back.  The ferry uses its link the way     *)
(* LinkQueue is specified to be used, so everything that is proved of the  *)
(* link holds for the link inside the ferry; with that the packets stay in *)
(* order from the tun device to the sibling, no packet reaches the link    *)
(* before its delay is over, no assert of the link fails, the process does *)
(* not sleep past the next thing it has to do, and the sibling is not kept *)
(* waiting by a busy tun device.                                           *)
(***************************************************************************)
EXTENDS PacketFerry, LinkQueue_proofs, SequenceTheorems

-----------------------------------------------------------------------------
(* The ferry as a caller of the link                                       *)

Contents == [id : Nat, size : Nat]
Delayed == [release : Nat, packet : Contents]
Descriptors == {"tun", "sibling", "signal"}

\* An unsigned int and an int.
UInts == 0..(UIntRange - 1)
Ints == (-IntMax)..(IntMax - 1)

Ferries ==
    [pc : {"wait", "poll", "dispatch", "move", "hand", "linking", "write",
           "exited"},
     delay_wait : UInts \cup {Unknown}, link_wait : UInts \cup {Unknown},
     timer : Ints, ready : SUBSET Descriptors, error : SUBSET {"tun", "sibling"},
     packet : Contents \cup {NoPacket}, reads : Nat, passed : Nat,
     releases : Seq(Nat), slack : Nat, latency : Nat, steps : Nat]

Outside ==
    /\ tun \in Seq(Sizes \cup {0})
    /\ tun_eof \in BOOLEAN /\ broken \in SUBSET {"tun", "sibling", "peer"}
    /\ inbound \in [pending : Nat, relayed : Nat]
    /\ signal \in {"unsent", "SIGCONT", "SIGCHLD", "SIGHUP", "SIGTERM",
                   "handled"}

Types == ferry \in Ferries /\ Outside /\ delay_queue \in Seq(Delayed)

\* The link is called by wait_time and by write_packets only.
Control ==
    /\ call.pc \in {"idle", "rationalize", "deliver"}
    /\ call.pc = "idle" => call.op = "none" /\ ferry.pc # "linking"
    /\ call.pc # "idle" =>
           \/ /\ ferry.pc = "wait" /\ call.op = "wait_time"
              /\ ferry.link_wait = Unknown
           \/ ferry.pc = "linking" /\ call.op = "read_packet"

\* What poll has found is still there when its callback runs.
StillReady ==
    ferry.pc = "dispatch" =>
        /\ ferry.error \subseteq broken
        /\ "tun" \in ferry.ready \ ferry.error => tun # <<>> /\ ~tun_eof
        /\ "sibling" \in ferry.ready \ ferry.error => inbound.pending > 0

Handed == history.arrived + (IF ferry.pc = "hand" THEN 1 ELSE 0)

\* The packets are numbered in the order in which they are read, and handed to
\* the link in this order and without a gap: an empty datagram is the last one.
Numbered ==
    /\ \A i \in 1..Len(delay_queue) :
           /\ delay_queue[i].packet.id = Handed + i
           /\ \/ delay_queue[i].packet.size \in Sizes
              \/ delay_queue[i].packet.size = 0 /\ tun_eof /\ i = Len(delay_queue)
    /\ \/ Handed + Len(delay_queue) = ferry.reads
       \/ tun_eof /\ delay_queue = <<>> /\ Handed + 1 = ferry.reads
    /\ ferry.pc = "hand" =>
           /\ ferry.packet \in Contents
           /\ ferry.packet.id = history.arrived + 1
           /\ ferry.packet.size \in Sizes
    /\ ferry.reads + Len(tun) <= MaxPackets

CallerInv == Types /\ Control /\ StillReady /\ Numbered

\* The two widths of a wait.
LEMMA IntTypes ==
    /\ UIntRange \in Nat \ {0} /\ IntMax \in Nat \ {0}
    /\ UIntRange = 2 * IntMax
    /\ 0 \in Ints /\ 0 \in UInts
    /\ EmptyWait \in UInts /\ EmptyWait < IntMax
<1>1. /\ UIntRange \in Nat \ {0} /\ UIntRange % 2 = 0
      /\ EmptyWait \in Nat /\ EmptyWait < UIntRange \div 2
  BY FerryAssumption, ParameterAssumption
<1>2. UIntRange \div 2 \in Nat /\ UIntRange = 2 * (UIntRange \div 2)
  BY <1>1
<1> DEFINE half == UIntRange \div 2
<1>3. half \in Nat /\ UIntRange = 2 * half /\ EmptyWait < half
  BY <1>1, <1>2
<1>4. IntMax = half
  BY DEF IntMax
<1> HIDE DEF half
<1> QED BY <1>1, <1>3, <1>4 DEF Ints, UInts

\* The ferry is constructed with nothing read.
LEMMA InitCaller == FerryInit => Init /\ CallerInv
<1> SUFFICES ASSUME FerryInit PROVE Init /\ CallerInv
  OBVIOUS
<1>1. Init
  BY DEF FerryInit
<1>2. ferry \in Ferries
  BY IntTypes DEF FerryInit, Ferries, Unknown, Descriptors
<1>3. Outside /\ delay_queue \in Seq(Delayed)
  <2>1. tun \in Seq(Sizes \cup {0}) /\ delay_queue \in Seq(Delayed)
    BY DEF FerryInit
  <2>2. inbound \in [pending : Nat, relayed : Nat]
    BY DEF FerryInit
  <2>3. /\ tun_eof \in BOOLEAN /\ broken \in SUBSET {"tun", "sibling", "peer"}
        /\ signal \in {"unsent", "SIGCONT", "SIGCHLD", "SIGHUP", "SIGTERM",
                       "handled"}
    BY DEF FerryInit
  <2> QED BY <2>1, <2>2, <2>3 DEF Outside
<1>4. Control
  BY <1>1 DEF FerryInit, Init, Returned, Control
<1>5. StillReady
  BY DEF FerryInit, StillReady
<1>6. Numbered
  BY <1>1, ParameterAssumption DEF FerryInit, Init, Numbered, Handed
<1> QED BY <1>1, <1>2, <1>3, <1>4, <1>5, <1>6 DEF CallerInv, Types

\* A step that neither reads a packet nor hands one on.
LEMMA SameNumbered ==
    ASSUME Numbered, UNCHANGED <<delay_queue, tun_eof, tun>>,
           history'.arrived = history.arrived,
           ferry'.reads = ferry.reads,
           ferry'.pc = "hand" <=> ferry.pc = "hand",
           ferry.pc = "hand" => ferry'.packet = ferry.packet
    PROVE  Numbered'
<1>1. Handed' = Handed
  BY DEF Handed
<1> QED BY <1>1 DEF Numbered

\* The environment and the clock touch neither the link nor the loop.
LEMMA EnvironmentKeepsCaller ==
    ASSUME IInv, CallerInv, Environment
    PROVE  CallerInv' /\ UNCHANGED vars
<1>1. UNCHANGED <<clock, link, delay_queue, ferry, tun_eof>>
  BY DEF Environment, TunArrives, SiblingSends, SignalArrives, Breaks
<1>2. UNCHANGED vars
  BY <1>1 DEF link, vars, linkState, transitState
<1>3. Control'
  BY <1>1 DEF CallerInv, Control, link
<1>4. CASE TunArrives
  <2>1. PICK size \in Sizes \cup {0} : tun' = Append(tun, size)
    BY <1>4 DEF TunArrives
  <2>2. /\ tun' \in Seq(Sizes \cup {0}) /\ Len(tun') = Len(tun) + 1
        /\ Len(tun) \in Nat /\ tun' # <<>>
    BY <2>1 DEF CallerInv, Types, Outside
  <2>3. Types'
    BY <1>1, <1>4, <2>2 DEF CallerInv, Types, Outside, TunArrives
  <2>4. StillReady'
    BY <1>1, <1>4, <2>2 DEF CallerInv, StillReady, TunArrives
  <2>5. ferry'.reads + Len(tun') <= MaxPackets
    <3>1. ferry.reads + Len(tun) < MaxPackets /\ ferry.reads \in Nat
      BY <1>4 DEF TunArrives, CallerInv, Types, Ferries
    <3> QED BY <1>1, <2>2, <3>1, ParameterAssumption
  <2>6. Handed' = Handed
    BY <1>1 DEF Handed, link
  <2>7. Numbered'
    BY <1>1, <2>5, <2>6 DEF CallerInv, Numbered, link
  <2> QED BY <1>2, <1>3, <2>3, <2>4, <2>7 DEF CallerInv
<1>5. CASE SiblingSends
  <2>1. UNCHANGED <<tun, broken, signal>>
        /\ inbound' = [inbound EXCEPT !.pending = @ + 1]
    BY <1>5 DEF SiblingSends
  <2>2. inbound' \in [pending : Nat, relayed : Nat]
        /\ inbound'.pending = inbound.pending + 1 /\ inbound.pending \in Nat
    BY <2>1 DEF CallerInv, Types, Outside
  <2>3. Types' /\ StillReady'
    BY <1>1, <2>1, <2>2 DEF CallerInv, Types, Outside, StillReady
  <2>4. Numbered'
    BY <1>1, <2>1, SameNumbered DEF CallerInv, link
  <2> QED BY <1>2, <1>3, <2>3, <2>4 DEF CallerInv
<1>6. CASE SignalArrives \/ Breaks
  <2>1. /\ UNCHANGED <<tun, inbound>>
        /\ broken' \in SUBSET {"tun", "sibling", "peer"}
        /\ broken \subseteq broken'
        /\ signal' \in {"unsent", "SIGCONT", "SIGCHLD", "SIGHUP", "SIGTERM",
                        "handled"}
    BY <1>6, FerryAssumption
       DEF SignalArrives, Breaks, CallerInv, Types, Outside
  <2>2. Types' /\ StillReady'
    BY <1>1, <2>1 DEF CallerInv, Types, Outside, StillReady
  <2>3. Numbered'
    BY <1>1, <2>1, SameNumbered DEF CallerInv, link
  <2> QED BY <1>2, <1>3, <2>2, <2>3 DEF CallerInv
<1> QED BY <1>4, <1>5, <1>6 DEF Environment

\* poll returns with what is ready, or because its time is up.
LEMMA PollReturnsKeepsCaller ==
    ASSUME IInv, CallerInv,
           PollReturns \/ PollDone \/ PollError \/ SystemCallFails
    PROVE  CallerInv' /\ UNCHANGED vars
<1>1. UNCHANGED <<clock, link, environment, tun_eof, delay_queue>>
  BY DEF PollReturns, PollDone, PollError, SystemCallFails
<1>2. UNCHANGED vars
  BY <1>1 DEF link, vars, linkState, transitState
<1>3. call.pc = "idle"
  BY DEF PollReturns, PollDone, PollError, SystemCallFails, Handles,
         CallerInv, Control
<1>4. Types'
  <2>1. ferry \in Ferries /\ Failing \in SUBSET {"tun", "sibling"}
    BY DEF CallerInv, Types, Outside, Failing
  <2>2. Ready \in SUBSET Descriptors
    BY DEF Ready, Failing, Descriptors
  <2>3. ferry' \in Ferries
    <3>1. CASE PollReturns
      <4>1. ferry' = [ferry EXCEPT
                        !.pc = IF Ready = {} THEN "move" ELSE "dispatch",
                        !.ready = Ready, !.error = Failing,
                        !.timer = 0, !.slack = 0]
        BY <3>1 DEF PollReturns
      <4> QED BY <2>1, <2>2, <4>1, IntTypes DEF Ferries
    <3>2. CASE PollDone \/ PollError \/ SystemCallFails
      BY <2>1, <3>2 DEF PollDone, PollError, SystemCallFails, Ferries
    <3> QED BY <3>1, <3>2
  <2> QED BY <1>1, <2>3 DEF CallerInv, Types, Outside, environment
<1>5. /\ ferry'.pc \in {"move", "dispatch", "exited"}
      /\ ferry.pc \in {"poll", "dispatch", "write"} /\ ferry'.reads = ferry.reads
  BY DEF PollReturns, PollDone, PollError, SystemCallFails, Handles, CallerInv,
         Types, Ferries
<1>6. Control'
  BY <1>1, <1>3, <1>5 DEF CallerInv, Control, link
<1>7. StillReady'
  <2>1. CASE PollReturns
    <3>1. ferry'.ready = Ready /\ ferry'.error = Failing
      BY <2>1 DEF PollReturns, CallerInv, Types, Ferries
    <3> QED BY <1>1, <3>1 DEF Ready, Failing, StillReady, environment
  <2>2. CASE PollDone \/ PollError \/ SystemCallFails
    <3>1. ferry'.pc # "dispatch"
      BY <2>2 DEF PollDone, PollError, SystemCallFails, CallerInv, Types,
                    Ferries
    <3> QED BY <3>1 DEF StillReady
  <2> QED BY <2>1, <2>2
<1>8. Numbered'
  BY <1>1, <1>5, SameNumbered DEF CallerInv, link, environment
<1> QED BY <1>2, <1>4, <1>6, <1>7, <1>8 DEF CallerInv

\* A packet from the tun device is put into the delay queue.
LEMMA ReadTunKeepsCaller ==
    ASSUME IInv, CallerInv, ReadTun
    PROVE  CallerInv' /\ UNCHANGED vars
<1> DEFINE size == Head(tun)
           packet == [id |-> ferry.reads + 1, size |-> size]
           release == clock + delay_ms
           n == Len(delay_queue)
           passed == IF inbound.pending > 0 THEN ferry.passed + 1
                                            ELSE ferry.passed
<1>1. UNCHANGED <<clock, link, broken, inbound, signal>>
  BY DEF ReadTun
<1>2. UNCHANGED vars
  BY <1>1 DEF link, vars, linkState, transitState
<1>3. /\ ferry.pc = "dispatch" /\ tun # <<>> /\ ~tun_eof /\ call.pc = "idle"
      /\ "tun" \in ferry.ready
  BY DEF ReadTun, Handles, CallerInv, Control, StillReady
<1>4. /\ tun \in Seq(Sizes \cup {0}) /\ tun' = Tail(tun)
      /\ tun' \in Seq(Sizes \cup {0}) /\ size \in Sizes \cup {0}
      /\ Len(tun') = Len(tun) - 1 /\ Len(tun) \in Nat
  BY <1>3 DEF ReadTun, CallerInv, Types, Outside
<1>5. /\ ferry \in Ferries /\ delay_queue \in Seq(Delayed) /\ n \in Nat
      /\ ferry.reads \in Nat /\ release \in Nat /\ size \in Nat
      /\ passed \in Nat
  <2>1. ferry \in Ferries /\ delay_queue \in Seq(Delayed)
    BY DEF CallerInv, Types
  <2>2. ferry.reads \in Nat /\ n \in Nat /\ passed \in Nat
    BY <2>1 DEF Ferries
  <2>3. clock \in Nat /\ delay_ms \in Nat
    BY FerryAssumption DEF IInv, TypeOK
  <2>4. size \in Nat
    <3> HIDE DEF size
    <3>1. size \in Sizes \cup {0}
      BY <1>4
    <3> QED BY <3>1, ParameterAssumption
  <2> QED BY <2>1, <2>2, <2>3, <2>4
<1>6. /\ tun_eof' = (size = 0)
      /\ delay_queue' = Append(delay_queue,
                               [release |-> release, packet |-> packet])
      /\ ferry' = [ferry EXCEPT !.ready = @ \ {"tun"}, !.reads = @ + 1,
                                !.passed = passed,
                                !.releases = Append(@, release)]
  BY DEF ReadTun, Handled
<1> HIDE DEF size, release, passed
<1>7. packet \in Contents /\ packet.id = ferry.reads + 1 /\ packet.size = size
  BY <1>5 DEF Contents
<1> HIDE DEF packet
<1>8. /\ delay_queue' \in Seq(Delayed) /\ Len(delay_queue') = n + 1
      /\ delay_queue'[n + 1].packet = packet
      /\ \A i \in 1..n : delay_queue'[i] = delay_queue[i]
  <2>1. [release |-> release, packet |-> packet] \in Delayed
    BY <1>5, <1>7 DEF Delayed
  <2> QED BY <1>5, <1>6, <2>1
<1>9. /\ ferry' \in Ferries /\ ferry'.pc = "dispatch"
      /\ ferry'.ready = ferry.ready \ {"tun"}
      /\ ferry'.reads = ferry.reads + 1 /\ ferry'.error = ferry.error
  <2>1. ferry.releases \in Seq(Nat) /\ ferry.ready \in SUBSET Descriptors
    BY <1>5 DEF Ferries
  <2>2. Append(ferry.releases, release) \in Seq(Nat)
        /\ ferry.ready \ {"tun"} \in SUBSET Descriptors
        /\ ferry.reads + 1 \in Nat
    BY <1>5, <2>1
  <2> QED BY <1>3, <1>5, <1>6, <2>2 DEF Ferries
<1>10. tun_eof' \in BOOLEAN
  BY <1>6
<1>11. Types'
  BY <1>1, <1>4, <1>8, <1>9, <1>10 DEF CallerInv, Types, Outside
<1>12. Control'
  BY <1>1, <1>3, <1>9 DEF CallerInv, Control, link
<1>13. StillReady'
  BY <1>1, <1>3, <1>9 DEF CallerInv, StillReady
<1>14. Numbered'
  <2>1. Handed' = Handed /\ Handed = history.arrived /\ Handed \in Nat
    <3>1. history' = history /\ history.arrived \in Nat
      BY <1>1 DEF link, IInv, TypeOK
    <3> QED BY <1>3, <1>9, <3>1 DEF Handed
  <2>2. Handed + (n + 1) = ferry.reads + 1
    <3>1. Handed + n = ferry.reads
      BY <1>3 DEF CallerInv, Numbered
    <3> QED BY <1>5, <2>1, <3>1, SMTT(30)
  <2>3. ASSUME NEW i \in 1..Len(delay_queue')
        PROVE  /\ delay_queue'[i].packet.id = Handed + i
               /\ \/ delay_queue'[i].packet.size \in Sizes
                  \/ /\ delay_queue'[i].packet.size = 0
                     /\ tun_eof' /\ i = Len(delay_queue')
    <3>1. CASE i = n + 1
      <4>1. delay_queue'[i].packet.id = ferry.reads + 1
        BY <1>7, <1>8, <3>1
      <4>3. Handed + i = ferry.reads + 1
        BY <2>2, <3>1
      <4>2. delay_queue'[i].packet.size = size /\ i = Len(delay_queue')
        BY <1>7, <1>8, <3>1
      <4> QED BY <1>4, <1>6, <4>1, <4>2, <4>3
    <3>2. CASE i # n + 1
      <4>1. i \in 1..n /\ delay_queue'[i] = delay_queue[i]
        BY <1>5, <1>8, <3>2
      <4> QED BY <1>3, <4>1 DEF CallerInv, Numbered
    <3> QED BY <3>1, <3>2
  <2>4. Handed + Len(delay_queue') = ferry'.reads
    BY <1>8, <1>9, <2>2
  <2>5. ferry'.reads + Len(tun') <= MaxPackets
    <3>1. ferry.reads + Len(tun) <= MaxPackets
      BY DEF CallerInv, Numbered
    <3> QED BY <1>4, <1>5, <1>9, <3>1, ParameterAssumption
  <2> QED BY <1>9, <2>1, <2>3, <2>4, <2>5 DEF Numbered
<1> QED BY <1>2, <1>11, <1>12, <1>13, <1>14 DEF CallerInv

\* The callbacks of the sibling and of the signal descriptor.
LEMMA CallbackKeepsCaller ==
    ASSUME IInv, CallerInv, ReadSibling \/ HandleSignal
    PROVE  CallerInv' /\ UNCHANGED vars
<1>1. UNCHANGED <<clock, link, tun, tun_eof, broken, delay_queue>>
  BY DEF ReadSibling, HandleSignal
<1>2. UNCHANGED vars
  BY <1>1 DEF link, vars, linkState, transitState
<1>3. ferry.pc = "dispatch" /\ call.pc = "idle" /\ ferry \in Ferries
  BY DEF ReadSibling, HandleSignal, Handles, CallerInv, Control, Types
<1>4. /\ ferry' \in Ferries /\ ferry'.pc \in {"dispatch", "exited"}
      /\ ferry'.ready \subseteq ferry.ready /\ ferry'.error = ferry.error
      /\ ferry'.reads = ferry.reads
  <2>1. ASSUME NEW fd
        PROVE  /\ Handled(fd) \in Ferries /\ Handled(fd).pc = "dispatch"
               /\ Handled(fd).ready = ferry.ready \ {fd}
               /\ Handled(fd).error = ferry.error
               /\ Handled(fd).reads = ferry.reads
    BY <1>3 DEF Handled, Ferries
  <2>2. CASE \/ ferry' = [Handled("sibling") EXCEPT !.passed = 0]
             \/ ferry' = Handled("signal")
    BY <2>1, <2>2 DEF Ferries
  <2>3. CASE ferry' = [ferry EXCEPT !.pc = "exited"]
    BY <1>3, <2>3 DEF Ferries
  <2> QED BY <2>2, <2>3 DEF ReadSibling, HandleSignal
<1>5. /\ inbound' \in [pending : Nat, relayed : Nat]
      /\ "sibling" \in ferry'.ready => inbound' = inbound
  <2>1. CASE ReadSibling
    <3>1. inbound.pending > 0 /\ inbound \in [pending : Nat, relayed : Nat]
      BY <2>1 DEF ReadSibling, Handles, CallerInv, StillReady, Types, Outside
    <3>2. inbound.pending - 1 \in Nat /\ inbound.relayed + 1 \in Nat
      BY <3>1
    <3>3. ferry'.ready = ferry.ready \ {"sibling"}
      BY <1>3, <2>1 DEF ReadSibling, Handled, Ferries
    <3> QED BY <2>1, <3>2, <3>3 DEF ReadSibling
  <2>2. CASE HandleSignal
    BY <2>2 DEF HandleSignal, CallerInv, Types, Outside
  <2> QED BY <2>1, <2>2
<1>6. signal' \in {"unsent", "SIGCONT", "SIGCHLD", "SIGHUP", "SIGTERM",
                   "handled"}
  BY DEF ReadSibling, HandleSignal, CallerInv, Types, Outside
<1>7. Types'
  BY <1>1, <1>4, <1>5, <1>6 DEF CallerInv, Types, Outside
<1>8. Control'
  BY <1>1, <1>3, <1>4 DEF CallerInv, Control, link
<1>9. StillReady'
  BY <1>1, <1>3, <1>4, <1>5 DEF CallerInv, StillReady
<1>10. Numbered'
  BY <1>1, <1>3, <1>4, SameNumbered DEF CallerInv, link
<1> QED BY <1>2, <1>7, <1>8, <1>9, <1>10 DEF CallerInv

\* The wait of the delay queue is an unsigned int.
LEMMA DelayWaitType ==
    ASSUME IInv, CallerInv
    PROVE  delay_wait_time \in UInts
<1>1. EmptyWait \in UInts /\ clock \in Nat /\ UIntRange \in Nat \ {0}
  BY IntTypes DEF IInv, TypeOK
<1>2. delay_queue # <<>> => delay_queue[1].release \in Nat
  <2>1. delay_queue \in Seq(Delayed)
    BY DEF CallerInv, Types
  <2>2. delay_queue # <<>> => delay_queue[1] \in Delayed
    BY <2>1
  <2> QED BY <2>2 DEF Delayed
<1>3. ASSUME NEW a \in Nat PROVE a % UIntRange \in UInts
  BY <1>1 DEF UInts
<1>4. CASE delay_queue # <<>> /\ delay_queue[1].release > clock
  <2>1. delay_queue[1].release - clock \in Nat
    BY <1>1, <1>2, <1>4
  <2>2. delay_wait_time = (delay_queue[1].release - clock) % UIntRange
    BY <1>1, <1>2, <1>4 DEF delay_wait_time
  <2> QED BY <1>3, <2>1, <2>2
<1>5. CASE ~(delay_queue # <<>> /\ delay_queue[1].release > clock)
  BY <1>1, <1>2, <1>5, IntTypes DEF delay_wait_time
<1> QED BY <1>4, <1>5

\* An unsigned int that is converted fits into an int.
LEMMA AsIntType ==
    ASSUME NEW n \in UInts
    PROVE  AsInt(n) \in Ints /\ (n < IntMax => AsInt(n) = n)
<1> QED BY IntTypes DEF AsInt, UInts, Ints

\* The waits are computed and poll is entered with the shorter one.
LEMMA WaitKeepsCaller ==
    ASSUME IInv, CallerInv, DelayWait \/ EnterPoll
    PROVE  CallerInv' /\ UNCHANGED vars
<1>1. UNCHANGED <<clock, link, environment, tun_eof, delay_queue>>
  BY DEF DelayWait, EnterPoll
<1>2. UNCHANGED vars
  BY <1>1 DEF link, vars, linkState, transitState
<1>3. ferry.pc = "wait" /\ ferry \in Ferries
  BY DEF DelayWait, EnterPoll, CallerInv, Types
<1>4. call.pc = "idle"
  BY <1>3 DEF DelayWait, EnterPoll, CallerInv, Control
<1>5. /\ ferry' \in Ferries /\ ferry'.reads = ferry.reads
      /\ ferry'.pc \in {"poll", "wait"}
  <2>1. CASE DelayWait
    <3>1. ferry' = [ferry EXCEPT !.delay_wait = delay_wait_time]
      BY <2>1 DEF DelayWait
    <3> QED BY <1>3, <3>1, DelayWaitType DEF Ferries
  <2>2. CASE EnterPoll
    <3>1. /\ ferry' = [ferry EXCEPT !.pc = "poll", !.timer = min_wait,
                              !.delay_wait = Unknown, !.link_wait = Unknown]
          /\ ferry.delay_wait # Unknown /\ ferry.link_wait # Unknown
      BY <2>2 DEF EnterPoll
    <3>2. min_wait \in Ints
      <4>1. ferry.delay_wait \in UInts /\ ferry.link_wait \in UInts
        BY <1>3, <3>1 DEF Ferries
      <4> QED BY <4>1, AsIntType DEF min_wait
    <3> QED BY <1>3, <3>1, <3>2 DEF Ferries
  <2> QED BY <2>1, <2>2
<1>6. Types'
  BY <1>1, <1>5 DEF CallerInv, Types, Outside, environment
<1>7. Control'
  BY <1>4, <1>1, <1>5 DEF CallerInv, Control, link
<1>8. StillReady'
  BY <1>5 DEF StillReady
<1>9. Numbered'
  BY <1>1, <1>3, <1>5, SameNumbered DEF CallerInv, link, environment
<1> QED BY <1>2, <1>6, <1>7, <1>8, <1>9 DEF CallerInv

\* The head of the delay queue is taken when it is due.
LEMMA GetNextKeepsCaller ==
    ASSUME IInv, CallerInv, GetNext
    PROVE  CallerInv' /\ UNCHANGED vars
<1>1. UNCHANGED <<clock, link, environment, tun_eof>>
  BY DEF GetNext
<1>2. UNCHANGED vars
  BY <1>1 DEF link, vars, linkState, transitState
<1>3. /\ ferry.pc = "move" /\ call.pc = "idle" /\ ferry \in Ferries
      /\ delay_queue \in Seq(Delayed)
  BY DEF GetNext, CallerInv, Types
<1> DEFINE a == history.arrived
           n == Len(delay_queue)
<1>4. history' = history /\ a \in Nat /\ n \in Nat /\ ferry.reads \in Nat
  BY <1>1, <1>3 DEF link, IInv, TypeOK, Ferries
<1>5. Handed = a
  BY <1>3, <1>4 DEF Handed
<1>6. ferry.reads + Len(tun) <= MaxPackets
  BY DEF CallerInv, Numbered
<1>7. ASSUME ferry' \in Ferries, ferry'.pc \in {"hand", "write"},
             delay_queue' \in Seq(Delayed)
      PROVE  Types' /\ Control' /\ StillReady'
  BY <1>1, <1>3, <1>7
     DEF CallerInv, Types, Outside, environment, Control, link, StillReady
<1>8. CASE delay_queue # <<>> /\ delay_queue[1].release <= clock
  <2> DEFINE packet == delay_queue[1].packet
  <2>1. /\ delay_queue' = Tail(delay_queue)
        /\ ferry' = [ferry EXCEPT !.packet = packet,
                       !.pc = IF packet.size = 0 THEN "write" ELSE "hand"]
    BY <1>8 DEF GetNext
  <2>2. delay_queue[1] \in Delayed /\ n > 0
    BY <1>3, <1>8
  <2>3. packet \in Contents
    BY <2>2 DEF Delayed
  <2>4. /\ delay_queue' \in Seq(Delayed) /\ Len(delay_queue') = n - 1
        /\ \A i \in 1..(n - 1) : delay_queue'[i] = delay_queue[i + 1]
    BY <1>3, <1>8, <2>1
  <2>5. /\ packet.id = a + 1
        /\ packet.size \in Sizes \/ (packet.size = 0 /\ tun_eof /\ n = 1)
    <3>1. 1 \in 1..n
      BY <1>4, <2>2
    <3> QED BY <1>4, <1>5, <3>1 DEF CallerInv, Numbered
  <2>6. a + n = ferry.reads
    BY <1>5, <1>8 DEF CallerInv, Numbered
  <2> HIDE DEF packet
  <2>7. /\ ferry' \in Ferries /\ ferry'.packet = packet
        /\ ferry'.reads = ferry.reads
        /\ ferry'.pc = IF packet.size = 0 THEN "write" ELSE "hand"
    BY <1>3, <2>1, <2>3 DEF Ferries
  <2>8. CASE packet.size = 0
    <3>1. 0 \notin Sizes
      BY ParameterAssumption
    <3>2. n = 1 /\ tun_eof /\ delay_queue' = <<>> /\ Len(delay_queue') = 0
      BY <2>4, <2>5, <2>8, <3>1
    <3>3. Handed' = a /\ ferry'.pc = "write"
      BY <1>4, <2>7, <2>8 DEF Handed
    <3>4. Handed' + 1 = ferry'.reads
      BY <2>6, <2>7, <3>2, <3>3
    <3>5. Numbered'
      BY <1>1, <1>6, <2>7, <3>2, <3>3, <3>4 DEF Numbered, environment
    <3> QED BY <1>2, <1>7, <2>4, <2>7, <3>3, <3>5 DEF CallerInv
  <2>9. CASE packet.size # 0
    <3>1. packet.size \in Sizes /\ ferry'.pc = "hand"
      BY <2>5, <2>7, <2>9
    <3>2. Handed' = a + 1
      BY <1>4, <3>1 DEF Handed
    <3>3. ASSUME NEW i \in 1..(n - 1)
          PROVE  /\ delay_queue'[i].packet.id = (a + 1) + i
                 /\ \/ delay_queue'[i].packet.size \in Sizes
                    \/ delay_queue'[i].packet.size = 0 /\ tun_eof /\ i = n - 1
      <4>1. i + 1 \in 1..n /\ delay_queue'[i] = delay_queue[i + 1]
        BY <1>4, <2>4
      <4>2. /\ delay_queue[i + 1].packet.id = a + (i + 1)
            /\ \/ delay_queue[i + 1].packet.size \in Sizes
               \/ /\ delay_queue[i + 1].packet.size = 0 /\ tun_eof
                  /\ i + 1 = n
        BY <1>5, <4>1 DEF CallerInv, Numbered
      <4>3. a + (i + 1) = (a + 1) + i /\ (i + 1 = n => i = n - 1)
        BY <1>4
      <4> QED BY <4>1, <4>2, <4>3
    <3>4. (a + 1) + (n - 1) = ferry.reads
      BY <1>4, <2>6
    <3>5. Numbered'
      BY <1>1, <1>4, <1>6, <2>3, <2>4, <2>5, <2>7, <3>1, <3>2, <3>3, <3>4
         DEF Numbered, environment
    <3> QED BY <1>2, <1>7, <2>4, <2>7, <3>1, <3>5 DEF CallerInv
  <2> QED BY <2>8, <2>9
<1>9. CASE ~(delay_queue # <<>> /\ delay_queue[1].release <= clock)
  <2>1. ferry' = [ferry EXCEPT !.pc = "write"] /\ delay_queue' = delay_queue
    BY <1>9 DEF GetNext
  <2>2. ferry' \in Ferries /\ ferry'.pc = "write" /\ ferry'.reads = ferry.reads
    BY <1>3, <2>1 DEF Ferries
  <2>3. Numbered'
    BY <1>1, <1>3, <2>1, <2>2, SameNumbered DEF CallerInv, link, environment
  <2> QED BY <1>2, <1>3, <1>7, <2>1, <2>2, <2>3 DEF CallerInv
<1> QED BY <1>8, <1>9

CallType ==
    [pc : {"idle", "rationalize", "deliver", "terminated", "aborted"},
     op : {"none", "read_packet", "wait_time"},
     now : Nat, packet : [id : Nat, size : Nat] \cup {NoPacket},
     this_delivery_time : Nat, bytes_left_in_this_delivery : Nat, result : Nat]

\* wait_time of the link is called.
LEMMA LinkWaitKeepsCaller ==
    ASSUME IInv, CallerInv, LinkWait
    PROVE  CallerInv' /\ Next
<1>1. /\ ferry.pc = "wait" /\ ferry.link_wait = Unknown
      /\ Begin("wait_time", NoPacket)
      /\ UNCHANGED <<environment, tun_eof, delay_queue, ferry>>
  BY DEF LinkWait, wait_time
<1>2. Next
  BY <1>1 DEF Next, Call, wait_time
<1>3. call'.pc = "rationalize" /\ call'.op = "wait_time"
  BY <1>1 DEF Begin, IInv, TypeOK
<1>4. history'.arrived = history.arrived
  <2>1. history \in [emulated_to : Int, idle_at : Nat, arrived : Nat]
    BY DEF IInv, TypeOK
  <2> DEFINE to == IF clock > history.emulated_to THEN clock
                                                  ELSE history.emulated_to
  <2>2. history' = [history EXCEPT !.emulated_to = to,
                                   !.arrived = history.arrived + 0]
    BY <1>1 DEF Begin
  <2> HIDE DEF to
  <2> QED BY <2>1, <2>2
<1>5. Types' /\ StillReady'
  BY <1>1 DEF CallerInv, Types, Outside, StillReady, environment
<1>6. Control'
  BY <1>1, <1>3 DEF CallerInv, Control
<1>7. Numbered'
  BY <1>1, <1>4, SameNumbered DEF CallerInv, environment
<1> QED BY <1>2, <1>5, <1>6, <1>7 DEF CallerInv

\* A packet is handed to the link, which accepts its size.
LEMMA HandToLinkKeepsCaller ==
    ASSUME IInv, CallerInv, HandToLink
    PROVE  /\ CallerInv' /\ Next /\ Begin("read_packet", ferry.packet)
           /\ history'.arrived = history.arrived + 1
<1> DEFINE a == history.arrived
           size == ferry.packet.size
<1>1. /\ ferry.pc = "hand" /\ read_packet(ferry.packet)
      /\ ferry' = [ferry EXCEPT !.pc = "linking", !.packet = NoPacket]
      /\ UNCHANGED <<environment, tun_eof, delay_queue>>
  BY DEF HandToLink
<1>2. /\ ferry.packet \in Contents /\ ferry.packet.id = a + 1
      /\ size \in Sizes
  BY <1>1 DEF CallerInv, Numbered
<1>3. ferry.packet = [id |-> a + 1, size |-> size]
  BY <1>2 DEF Contents
<1>4. size <= PACKET_SIZE /\ size \in Nat /\ PACKET_SIZE \in Nat
  BY <1>2, FerryAssumption, ParameterAssumption
<1>5. Begin("read_packet", ferry.packet)
  BY <1>1, <1>4 DEF read_packet, ReadOversized
<1>6. a \in Nat /\ ferry \in Ferries /\ ferry.reads \in Nat
  BY DEF IInv, TypeOK, CallerInv, Types, Ferries
<1>7. Handed = a + 1
  BY <1>1 DEF Handed
<1>8. a < MaxPackets
  <2>1. Len(delay_queue) \in Nat /\ Len(tun) \in Nat
    BY DEF CallerInv, Types, Outside
  <2>2. ferry.reads + Len(tun) <= MaxPackets
        /\ \/ Handed + Len(delay_queue) = ferry.reads
           \/ Handed + 1 = ferry.reads
    BY DEF CallerInv, Numbered
  <2> QED BY <1>6, <1>7, <2>1, <2>2, ParameterAssumption
<1>9. Next
  BY <1>1, <1>2, <1>3, <1>8 DEF Next, Call
<1>10. history'.arrived = a + 1
  <2>1. history \in [emulated_to : Int, idle_at : Nat, arrived : Nat]
    BY DEF IInv, TypeOK
  <2> DEFINE to == IF clock > history.emulated_to THEN clock
                                                  ELSE history.emulated_to
  <2>2. history' = [history EXCEPT !.emulated_to = to,
                                   !.arrived = history.arrived + 1]
    BY <1>5 DEF Begin
  <2> HIDE DEF to
  <2> QED BY <2>1, <2>2
<1>11. call'.pc = "rationalize" /\ call'.op = "read_packet"
  BY <1>5 DEF Begin, IInv, TypeOK
<1>12. /\ ferry' \in Ferries /\ ferry'.pc = "linking"
       /\ ferry'.reads = ferry.reads
  BY <1>1, <1>6 DEF Ferries
<1>13. Types' /\ StillReady'
  BY <1>1, <1>12 DEF CallerInv, Types, Outside, StillReady, environment
<1>14. Control'
  BY <1>11, <1>12 DEF Control
<1>15. Numbered'
  <2>1. Handed' = Handed
    BY <1>6, <1>7, <1>10, <1>12 DEF Handed
  <2> QED BY <1>1, <1>12, <2>1 DEF CallerInv, Numbered, environment
<1> QED BY <1>5, <1>9, <1>10, <1>13, <1>14, <1>15 DEF CallerInv

\* The link's own steps, and the return of its two calls.
LEMMA LinkKeepsCaller ==
    ASSUME IInv, IInv', CallerInv,
           Rationalize \/ LinkWaitReturns \/ LinkReadReturns
    PROVE  CallerInv' /\ Next
<1>1. UNCHANGED <<environment, tun_eof, delay_queue>> /\ ferry \in Ferries
  BY DEF Rationalize, LinkWaitReturns, LinkReadReturns, CallerInv, Types
<1>2. Next
  BY DEF Rationalize, LinkWaitReturns, LinkReadReturns, Next, LinkStep
<1>3. history'.arrived = history.arrived
  <2>1. CASE SendTransit \/ SendNext \/ BurnOpportunity \/ FinishWait
                \/ FinishRead
    BY <2>1 DEF SendTransit, SendNext, Send, BurnOpportunity, FinishWait,
                FinishRead
  <2>2. CASE EndDelivery
    BY <2>2 DEF EndDelivery, IInv, TypeOK
  <2> QED
    BY <2>1, <2>2
       DEF Rationalize, rationalize, LinkWaitReturns, LinkReadReturns
<1>4. LinkWaitReturns => call'.result \in UInts
  <2> SUFFICES ASSUME LinkWaitReturns PROVE call'.result \in UInts
    OBVIOUS
  <2> DEFINE left == next_delivery_time - call.now
  <2>1. call'.result = left % UIntRange
    BY DEF LinkWaitReturns, FinishWait, Returned
  <2>2. left \in Int
    <3>1. next_delivery_time \in Nat
      BY TimeTypes
    <3>2. call.now \in Nat
      BY DEF IInv, TypeOK
    <3> QED BY <3>1, <3>2
  <2> HIDE DEF left
  <2> QED BY <2>1, <2>2, ParameterAssumption DEF UInts
<1>5. CASE Rationalize
  <2>1. /\ ferry' = ferry /\ call.pc \in {"rationalize", "deliver"}
        /\ rationalize
    BY <1>5 DEF Rationalize, rationalize, BurnOpportunity, Due, SendTransit,
                SendNext, Delivering, EndDelivery
  <2>2. call'.pc \in {"rationalize", "deliver"} /\ call'.op = call.op
    <3>1. call \in CallType
      BY DEF IInv, TypeOK, CallType
    <3>2. CASE BurnOpportunity \/ EndDelivery
      BY <3>1, <3>2 DEF BurnOpportunity, EndDelivery, CallType
    <3>3. CASE SendTransit \/ SendNext
      <4>1. PICK p \in QueuedPackets, left \in Nat \ {0}, amount \in Nat :
                Sending(p, left, amount)
        BY <3>3, DeliverIsSending
      <4>2. call' = [call EXCEPT !.bytes_left_in_this_delivery = @ - amount]
        BY <4>1 DEF Sending
      <4> QED BY <2>1, <3>1, <4>2 DEF CallType
    <3> QED BY <2>1, <3>2, <3>3 DEF rationalize
  <2>3. Types' /\ StillReady' /\ Control'
    BY <1>1, <2>1, <2>2
       DEF CallerInv, Types, Outside, StillReady, Control, environment
  <2>4. Numbered'
    BY <1>1, <1>3, <2>1, SameNumbered DEF CallerInv, environment
  <2> QED BY <1>2, <2>3, <2>4 DEF CallerInv
<1>6. CASE LinkWaitReturns \/ LinkReadReturns
  <2>1. call'.pc = "idle" /\ call'.op = "none"
    BY <1>6 DEF LinkWaitReturns, FinishWait, LinkReadReturns, FinishRead,
                Returned
  <2>2. /\ ferry' \in Ferries /\ ferry.pc \in {"wait", "linking"}
        /\ ferry'.pc \in {"wait", "move"} /\ ferry'.reads = ferry.reads
    <3>1. CASE LinkWaitReturns
      <4>1. /\ ferry' = [ferry EXCEPT !.link_wait = call'.result]
            /\ call.pc # "idle" /\ call.op = "wait_time"
        BY <3>1 DEF LinkWaitReturns, FinishWait
      <4>2. ferry.pc = "wait"
        BY <4>1 DEF CallerInv, Control
      <4> QED BY <1>1, <1>4, <3>1, <4>1, <4>2 DEF Ferries
    <3>2. CASE LinkReadReturns
      <4>1. /\ ferry' = [ferry EXCEPT !.pc = "move"]
            /\ call.pc # "idle" /\ call.op = "read_packet"
        BY <3>2 DEF LinkReadReturns, FinishRead
      <4>2. ferry.pc = "linking"
        BY <4>1 DEF CallerInv, Control
      <4> QED BY <1>1, <4>1, <4>2 DEF Ferries
    <3> QED BY <1>6, <3>1, <3>2
  <2>3. Types' /\ StillReady' /\ Control'
    BY <1>1, <2>1, <2>2
       DEF CallerInv, Types, Outside, StillReady, Control, environment
  <2>4. Numbered'
    BY <1>1, <1>3, <2>2, SameNumbered DEF CallerInv, environment
  <2> QED BY <1>2, <2>3, <2>4 DEF CallerInv
<1> QED BY <1>5, <1>6

\* The output queue is written, time passes, the clock is set back.
LEMMA WriteAndClockKeepCaller ==
    ASSUME IInv, CallerInv, WriteToSibling \/ FerryTick \/ FerryStepBack
    PROVE  CallerInv' /\ Next
<1>1. /\ UNCHANGED <<environment, tun_eof, delay_queue, call>>
      /\ history' = history /\ call.pc = "idle" /\ ferry \in Ferries
  BY DEF WriteToSibling, write_packets, FerryTick, Tick, FerryStepBack,
         StepBack, CallerInv, Types
<1>2. Next
  BY DEF WriteToSibling, FerryTick, FerryStepBack, Next, Call
<1>3. /\ ferry' \in Ferries /\ ferry'.reads = ferry.reads
      /\ ferry'.ready = ferry.ready /\ ferry'.error = ferry.error
      /\ \/ ferry'.pc = ferry.pc /\ ferry'.packet = ferry.packet
         \/ ferry'.pc = "wait" /\ ferry.pc = "write"
  <2>1. CASE WriteToSibling
    BY <1>1, <2>1 DEF WriteToSibling, Ferries
  <2>2. CASE FerryTick
    <3> DEFINE timer == IF ferry.timer > 0 THEN ferry.timer - 1
                                           ELSE ferry.timer
               latency == ferry.latency + (IF Running THEN 1 ELSE 0)
               slack == ferry.slack + (IF WaitKnown THEN 1 ELSE 0)
    <3>1. ferry' = [ferry EXCEPT !.timer = timer, !.latency = latency,
                                 !.slack = slack]
      BY <2>2 DEF FerryTick
    <3>2. timer \in Ints /\ latency \in Nat /\ slack \in Nat
      <4>1. ferry.timer \in Ints /\ ferry.latency \in Nat /\ ferry.slack \in Nat
        BY <1>1 DEF Ferries
      <4>2. IntMax \in Nat
        BY ParameterAssumption DEF IntMax
      <4> HIDE DEF IntMax
      <4> QED BY <4>1, <4>2 DEF Ints
    <3> HIDE DEF timer, latency, slack
    <3> QED BY <1>1, <3>1, <3>2 DEF Ferries
  <2>3. CASE FerryStepBack
    <3>1. ferry' = [ferry EXCEPT !.steps = @ + 1]
      BY <2>3 DEF FerryStepBack
    <3>2. ferry.steps + 1 \in Nat
      BY <1>1 DEF Ferries
    <3> QED BY <1>1, <3>1, <3>2 DEF Ferries
  <2> QED BY <2>1, <2>2, <2>3
<1>4. Types' /\ StillReady' /\ Control'
  BY <1>1, <1>3
     DEF CallerInv, Types, Outside, StillReady, Control, environment
<1>5. Numbered'
  BY <1>1, <1>3, SameNumbered DEF CallerInv, environment
<1> QED BY <1>2, <1>4, <1>5 DEF CallerInv

\* Every step of the ferry is a step of the link or leaves it alone, and the
\* ferry remains a proper caller.
LEMMA StepKeepsCaller ==
    ASSUME IInv, CallerInv, [FerryNext]_ferryVars
    PROVE  [Next]_vars /\ IInv' /\ CallerInv'
<1>1. CASE PollReturns \/ PollDone \/ PollError \/ SystemCallFails
  BY <1>1, PollReturnsKeepsCaller, NextKeepsIInv
<1>2. CASE ReadTun
  BY <1>2, ReadTunKeepsCaller, NextKeepsIInv
<1>3. CASE ReadSibling \/ HandleSignal
  BY <1>3, CallbackKeepsCaller, NextKeepsIInv
<1>4. CASE DelayWait \/ EnterPoll
  BY <1>4, WaitKeepsCaller, NextKeepsIInv
<1>5. CASE GetNext
  BY <1>5, GetNextKeepsCaller, NextKeepsIInv
<1>6. CASE LinkWait
  BY <1>6, LinkWaitKeepsCaller, NextKeepsIInv
<1>7. CASE HandToLink
  BY <1>7, HandToLinkKeepsCaller, NextKeepsIInv
<1>8. CASE Rationalize \/ LinkWaitReturns \/ LinkReadReturns
  <2>1. Next
    BY <1>8 DEF Rationalize, LinkWaitReturns, LinkReadReturns, Next, LinkStep
  <2> QED BY <1>8, <2>1, LinkKeepsCaller, NextKeepsIInv
<1>9. CASE WriteToSibling \/ FerryTick \/ FerryStepBack
  BY <1>9, WriteAndClockKeepCaller, NextKeepsIInv
<1>10. CASE Environment
  BY <1>10, EnvironmentKeepsCaller, NextKeepsIInv
<1>11. CASE UNCHANGED ferryVars
  <2>1. UNCHANGED vars
    BY <1>11 DEF ferryVars, link, vars, linkState, transitState
  <2>2. UNCHANGED <<ferry, delay_queue, environment, tun_eof, call, history>>
    BY <1>11 DEF ferryVars, link
  <2>3. CallerInv'
    BY <2>2 DEF CallerInv, Types, Outside, Control, StillReady, Numbered,
                Handed, environment
  <2> QED BY <2>1, <2>3, NextKeepsIInv
<1> QED
  BY <1>1, <1>2, <1>3, <1>4, <1>5, <1>6, <1>7, <1>8, <1>9, <1>10, <1>11
     DEF FerryNext, FerryStep, WaitTime, Dispatch, WritePackets

\* The ferry drives its link the way module LinkQueue lets a link be driven:
\* packets of at most PACKET_SIZE bytes in the order of their numbers, no call
\* while another is in progress, the clock read once per call.  So every
\* theorem about Spec holds for the link inside the ferry.
THEOREM DrivesLink == FerrySpec => Spec
<1>1. IInv /\ CallerInv /\ [FerryNext]_ferryVars
          => [Next]_vars /\ IInv' /\ CallerInv'
  BY StepKeepsCaller
<1>2. FerryInit => Init /\ IInv /\ CallerInv
  BY InitCaller, InitIInv
<1> QED BY <1>1, <1>2, PTL DEF FerrySpec, Spec

LEMMA CallerInvariance == FerrySpec => [](IInv /\ CallerInv)
<1>1. IInv /\ CallerInv /\ [FerryNext]_ferryVars
          => [Next]_vars /\ IInv' /\ CallerInv'
  BY StepKeepsCaller
<1>2. FerryInit => Init /\ IInv /\ CallerInv
  BY InitCaller, InitIInv
<1> QED BY <1>1, <1>2, PTL DEF FerrySpec

\* Every variable of the ferry keeps its type: the two waits are unsigned ints
\* and what is left of poll's timeout is an int, whatever the delay.
THEOREM FerryTypeCorrect == FerrySpec => []FerryTypeOK
<1>1. IInv /\ CallerInv => FerryTypeOK
  <2> SUFFICES ASSUME IInv, CallerInv PROVE FerryTypeOK
    OBVIOUS
  <2>1. TypeOK /\ Outside
    BY DEF IInv, CallerInv, Types
  <2>2. \A i \in 1..Len(delay_queue) : delay_queue[i].release \in Nat
    <3>1. \A i \in 1..Len(delay_queue) : delay_queue[i] \in Delayed
      BY DEF CallerInv, Types
    <3> QED BY <3>1 DEF Delayed
  <2>3. ferry \in Ferries
    BY DEF CallerInv, Types
  <2>4. /\ ferry.pc \in {"wait", "poll", "dispatch", "move", "hand", "linking",
                         "write", "exited"}
        /\ ferry.ready \subseteq {"tun", "sibling", "signal"}
        /\ ferry.error \subseteq {"tun", "sibling"}
    BY <2>3 DEF Ferries, Descriptors
  <2>5. /\ {ferry.delay_wait, ferry.link_wait} \subseteq
               {Unknown} \cup 0..(UIntRange - 1)
        /\ ferry.timer \in (-IntMax)..(IntMax - 1)
        /\ {ferry.slack, ferry.latency, ferry.reads, ferry.passed}
               \subseteq Nat
    BY <2>3 DEF Ferries, UInts, Ints
  <2> QED BY <2>1, <2>2, <2>4, <2>5 DEF FerryTypeOK, Outside
<1> QED BY <1>1, CallerInvariance, PTL

\* No assert of the link fails and no packet is too large for it, whatever the
\* clock and the tun device do: an empty datagram never reaches the link.
THEOREM LinkSurvives == FerrySpec => []LinkNeverFails
<1>1. CallerInv => LinkNeverFails
  BY DEF CallerInv, Control, LinkNeverFails
<1> QED BY <1>1, CallerInvariance, PTL
-----------------------------------------------------------------------------
(* Sleeping                                                                *)

\* A wait that has been computed ends by time, but for the time that has passed
\* since.
EndsBy(wait, time) == wait > 0 => clock + wait <= time + ferry.slack

\* The two waits, and the timer that poll was given from them.
SleepInv ==
    /\ ferry.pc # "wait" =>
           ferry.delay_wait = Unknown /\ ferry.link_wait = Unknown
    /\ ferry.steps = 0 =>
           /\ EndsBy(ferry.link_wait, next_delivery_time)
           /\ ferry.pc = "poll" => EndsBy(ferry.timer, next_delivery_time)
           /\ delay_queue # <<>> =>
                  /\ EndsBy(ferry.delay_wait, delay_queue[1].release)
                  /\ ferry.pc = "poll" =>
                         EndsBy(ferry.timer, delay_queue[1].release)

\* The types used below.
LEMMA SleepTypes ==
    ASSUME IInv, CallerInv
    PROVE  /\ clock \in Nat /\ next_delivery_time \in Nat
           /\ delay_queue # <<>> => delay_queue[1].release \in Nat
           /\ ferry.slack \in Nat /\ ferry.timer \in Int /\ ferry.steps \in Nat
           /\ ferry.delay_wait \in Nat \cup {Unknown}
           /\ ferry.link_wait \in Nat \cup {Unknown}
<1>1. delay_queue # <<>> => delay_queue[1].release \in Nat
  <2>1. delay_queue \in Seq(Delayed)
    BY DEF CallerInv, Types
  <2>2. delay_queue # <<>> => delay_queue[1] \in Delayed
    BY <2>1
  <2> QED BY <2>2 DEF Delayed
<1>2. /\ ferry.slack \in Nat /\ ferry.timer \in Ints /\ ferry.steps \in Nat
      /\ ferry.delay_wait \in UInts \cup {Unknown}
      /\ ferry.link_wait \in UInts \cup {Unknown}
  BY DEF CallerInv, Types, Ferries
<1>3. UInts \subseteq Nat /\ Ints \subseteq Int
  BY IntTypes DEF UInts, Ints
<1> QED BY <1>1, <1>2, <1>3, TimeTypes

\* Outside wait_time and poll nothing is promised.
LEMMA AwakeKeepsSleep ==
    ASSUME ferry'.pc # "poll", ferry'.delay_wait = Unknown,
           ferry'.link_wait = Unknown
    PROVE  SleepInv'
  BY DEF SleepInv, EndsBy, Unknown

\* A step that leaves the loop, the clock and the delay queue alone; the next
\* opportunity can only move away.
LEMMA SameKeepsSleep ==
    ASSUME IInv, CallerInv, SleepInv, UNCHANGED <<ferry, clock, delay_queue>>,
           next_delivery_time' \in Nat,
           next_delivery_time' >= next_delivery_time
    PROVE  SleepInv'
<1> DEFINE t == next_delivery_time
           u == next_delivery_time'
<1>1. t \in Nat /\ u \in Nat /\ u >= t /\ clock \in Nat /\ ferry.slack \in Nat
      /\ ferry.timer \in Int /\ ferry.link_wait \in Nat \cup {Unknown}
  BY SleepTypes
<1>2. ASSUME NEW wait \in Int, EndsBy(wait, t)
      PROVE  EndsBy(wait, u)
  <2> HIDE DEF t, u
  <2> QED BY <1>1, <1>2 DEF EndsBy, Unknown
<1>3. ferry.steps = 0 =>
          /\ EndsBy(ferry.link_wait, u)
          /\ ferry.pc = "poll" => EndsBy(ferry.timer, u)
  BY <1>1, <1>2 DEF SleepInv, Unknown
<1> QED BY <1>3 DEF SleepInv, EndsBy

\* The steps in which the loop does other things.
LEMMA WorkKeepsSleep ==
    ASSUME IInv, CallerInv, SleepInv,
           \/ Dispatch \/ GetNext \/ HandToLink \/ LinkReadReturns
           \/ WriteToSibling \/ SystemCallFails
    PROVE  SleepInv'
<1>1. ferry \in Ferries
  BY DEF CallerInv, Types
<1>2. ferry.pc # "wait"
  BY DEF Dispatch, PollReturns, PollDone, PollError, ReadTun, ReadSibling,
         HandleSignal, Handles, GetNext, HandToLink, LinkReadReturns,
         FinishRead, WriteToSibling, SystemCallFails, CallerInv, Control
<1>3. ferry.delay_wait = Unknown /\ ferry.link_wait = Unknown
  BY <1>2 DEF SleepInv
<1>4. /\ ferry'.pc # "poll" /\ ferry'.delay_wait = ferry.delay_wait
      /\ ferry'.link_wait = ferry.link_wait
  <2>1. CASE PollReturns
    BY <1>1, <2>1 DEF PollReturns, Ferries
  <2>2. CASE PollDone \/ PollError \/ SystemCallFails
    BY <1>1, <2>2 DEF PollDone, PollError, SystemCallFails, Ferries
  <2>3. CASE ReadTun
    <3> DEFINE passed == IF inbound.pending > 0 THEN ferry.passed + 1
                                                ELSE ferry.passed
    <3>1. /\ ferry.pc = "dispatch"
          /\ ferry' = [Handled("tun") EXCEPT !.reads = @ + 1, !.passed = passed,
                              !.releases = Append(@, clock + delay_ms)]
      BY <1>1, <2>3 DEF ReadTun, Handles, Handled, Ferries
    <3> HIDE DEF passed
    <3> QED BY <1>1, <3>1 DEF Handled, Ferries
  <2>6. CASE ReadSibling \/ HandleSignal
    BY <1>1, <2>6
       DEF ReadSibling, HandleSignal, Handles, Handled, Ferries
  <2>4. CASE GetNext
    <3> DEFINE packet == delay_queue[1].packet
    <3>1. CASE ferry' = [ferry EXCEPT !.packet = packet,
                           !.pc = IF packet.size = 0 THEN "write" ELSE "hand"]
      <4> HIDE DEF packet
      <4> QED BY <1>1, <3>1 DEF Ferries
    <3>2. CASE ferry' = [ferry EXCEPT !.pc = "write"]
      BY <1>1, <3>2 DEF Ferries
    <3> QED BY <2>4, <3>1, <3>2 DEF GetNext
  <2>5. CASE HandToLink \/ LinkReadReturns \/ WriteToSibling
    BY <1>1, <2>5 DEF HandToLink, LinkReadReturns, WriteToSibling, Ferries
  <2> QED BY <2>1, <2>2, <2>3, <2>4, <2>5, <2>6 DEF Dispatch
<1> QED BY <1>3, <1>4, AwakeKeepsSleep

\* A remainder is not larger than what is divided.
LEMMA RemainderBelow ==
    ASSUME NEW a \in Nat, NEW m \in Nat \ {0}
    PROVE  a % m \in Nat /\ a % m <= a
  OBVIOUS

\* What is left until the release of the first packet.
LEMMA DelayWaitKeepsSleep ==
    ASSUME IInv, CallerInv, SleepInv, DelayWait
    PROVE  SleepInv'
<1>1. /\ UNCHANGED <<clock, link, delay_queue>> /\ ferry.pc = "wait"
      /\ ferry' = [ferry EXCEPT !.delay_wait = delay_wait_time]
  BY DEF DelayWait
<1>2. /\ ferry'.pc = ferry.pc /\ ferry'.slack = ferry.slack
      /\ ferry'.link_wait = ferry.link_wait /\ ferry'.steps = ferry.steps
      /\ ferry'.delay_wait = delay_wait_time
  BY <1>1 DEF CallerInv, Types, Ferries
<1>3. next_delivery_time' = next_delivery_time
  BY <1>1 DEF next_delivery_time, link
<1>4. ASSUME delay_queue # <<>>
      PROVE  EndsBy(delay_wait_time, delay_queue[1].release)
  <2> DEFINE release == delay_queue[1].release
             left == release - clock
  <2>1. clock \in Nat /\ release \in Nat /\ ferry.slack \in Nat
    BY <1>4, SleepTypes
  <2>2. CASE release > clock
    <3>1. left \in Nat /\ clock + left = release
      BY <2>1, <2>2
    <3>2. delay_wait_time = left % UIntRange
      BY <1>4, <2>1, <2>2 DEF delay_wait_time
    <3> HIDE DEF left, release
    <3>3. left % UIntRange \in Nat /\ left % UIntRange <= left
      BY <3>1, RemainderBelow, IntTypes
    <3>4. EndsBy(delay_wait_time, release)
      BY <2>1, <3>1, <3>2, <3>3 DEF EndsBy
    <3> QED BY <3>4 DEF release
  <2>3. CASE ~(release > clock)
    BY <1>4, <2>1, <2>3 DEF delay_wait_time, EndsBy
  <2> QED BY <2>2, <2>3 DEF release
<1> QED BY <1>1, <1>2, <1>3, <1>4 DEF SleepInv, EndsBy

\* What is left until the next opportunity, cut to the width of the result.
LEMMA LinkWaitKeepsSleep ==
    ASSUME IInv, CallerInv, CallTimes, SleepInv, LinkWaitReturns
    PROVE  SleepInv'
<1> DEFINE left == next_delivery_time - call.now
<1>1. /\ UNCHANGED <<clock, linkState, delay_queue>> /\ ~Due
      /\ call.pc = "rationalize" /\ call.op = "wait_time"
      /\ call' = Returned(left % UIntRange)
      /\ ferry' = [ferry EXCEPT !.link_wait = call'.result]
  BY DEF LinkWaitReturns, FinishWait
<1>2. call'.result = left % UIntRange
  BY <1>1 DEF Returned
<1>3. call.now = clock
  BY <1>1 DEF CallTimes, InCall
<1>4. next_delivery_time > clock /\ clock \in Nat /\ next_delivery_time \in Nat
      /\ ferry.slack \in Nat
  BY <1>1, <1>3, SleepTypes DEF Due
<1>5. left \in Nat /\ clock + left = next_delivery_time
  BY <1>3, <1>4
<1> HIDE DEF left
<1>6. left % UIntRange \in Nat /\ left % UIntRange <= left
  BY <1>5, RemainderBelow, ParameterAssumption
<1>7. EndsBy(left % UIntRange, next_delivery_time)
  BY <1>4, <1>5, <1>6 DEF EndsBy
<1>8. /\ ferry'.pc = ferry.pc /\ ferry'.slack = ferry.slack
      /\ ferry'.delay_wait = ferry.delay_wait /\ ferry'.steps = ferry.steps
      /\ ferry'.link_wait = left % UIntRange
  BY <1>1, <1>2 DEF CallerInv, Types, Ferries
<1>9. ferry.pc = "wait"
  BY <1>1 DEF CallerInv, Control
<1>10. next_delivery_time' = next_delivery_time
  BY <1>1 DEF next_delivery_time, linkState
<1> QED BY <1>1, <1>7, <1>8, <1>9, <1>10 DEF SleepInv, EndsBy

\* poll is given the shorter wait.
LEMMA EnterPollKeepsSleep ==
    ASSUME IInv, CallerInv, SleepInv, EnterPoll
    PROVE  SleepInv'
<1>1. /\ UNCHANGED <<clock, link, delay_queue>>
      /\ ferry' = [ferry EXCEPT !.pc = "poll", !.timer = min_wait,
                          !.delay_wait = Unknown, !.link_wait = Unknown]
      /\ ferry.delay_wait # Unknown /\ ferry.link_wait # Unknown
  BY DEF EnterPoll
<1>2. /\ ferry'.pc = "poll" /\ ferry'.timer = min_wait
      /\ ferry'.delay_wait = Unknown /\ ferry'.link_wait = Unknown
      /\ ferry'.slack = ferry.slack /\ ferry'.steps = ferry.steps
  BY <1>1 DEF CallerInv, Types, Ferries
<1>3. next_delivery_time' = next_delivery_time
  BY <1>1 DEF next_delivery_time, link
<1>4. /\ ferry.delay_wait \in Nat /\ ferry.link_wait \in Nat /\ min_wait \in Int
      /\ min_wait > 0 => min_wait <= ferry.delay_wait
                             /\ min_wait <= ferry.link_wait
  <2>1. ferry.delay_wait \in UInts /\ ferry.link_wait \in UInts
    BY <1>1 DEF CallerInv, Types, Ferries
  <2> QED BY <2>1, IntTypes DEF min_wait, AsInt, UInts
<1>5. ASSUME NEW wait \in Nat, min_wait > 0 => min_wait <= wait,
             NEW time \in Nat, EndsBy(wait, time)
      PROVE  EndsBy(min_wait, time)
  <2>1. clock \in Nat /\ ferry.slack \in Nat
    BY SleepTypes
  <2> QED BY <1>4, <1>5, <2>1 DEF EndsBy
<1>6. ferry.steps = 0 =>
          /\ EndsBy(min_wait, next_delivery_time)
          /\ delay_queue # <<>> => EndsBy(min_wait, delay_queue[1].release)
  BY <1>4, <1>5, SleepTypes DEF SleepInv
<1> QED BY <1>1, <1>2, <1>3, <1>6 DEF SleepInv, EndsBy, Unknown

\* As long as a wait is not used its age grows with the clock; the timer runs
\* down with it.
LEMMA ClockKeepsSleep ==
    ASSUME IInv, CallerInv, SleepInv, FerryTick \/ FerryStepBack
    PROVE  SleepInv'
<1>1. UNCHANGED <<delay_queue, linkState>> /\ ferry \in Ferries
  BY DEF FerryTick, Tick, FerryStepBack, StepBack, CallerInv, Types
<1>2. next_delivery_time' = next_delivery_time
  BY <1>1 DEF next_delivery_time, linkState
<1>3. CASE FerryStepBack
  <2>1. ferry' = [ferry EXCEPT !.steps = @ + 1] /\ ferry.steps \in Nat
    BY <1>3, SleepTypes DEF FerryStepBack
  <2>2. /\ ferry'.steps = ferry.steps + 1 /\ ferry'.pc = ferry.pc
        /\ ferry'.delay_wait = ferry.delay_wait
        /\ ferry'.link_wait = ferry.link_wait
    BY <1>1, <2>1 DEF Ferries
  <2>3. ferry'.steps # 0
    BY <2>1, <2>2
  <2> QED BY <2>2, <2>3 DEF SleepInv
<1>4. CASE FerryTick
  <2> DEFINE timer == IF ferry.timer > 0 THEN ferry.timer - 1 ELSE ferry.timer
             latency == ferry.latency + (IF Running THEN 1 ELSE 0)
             slack == ferry.slack + (IF WaitKnown THEN 1 ELSE 0)
  <2>1. ferry' = [ferry EXCEPT !.timer = timer, !.latency = latency,
                               !.slack = slack]
    BY <1>4 DEF FerryTick
  <2>2. clock' = clock + 1
    BY <1>4 DEF FerryTick, Tick
  <2>3. /\ slack \in Nat /\ timer \in Int /\ clock \in Nat /\ ferry.slack \in Nat
        /\ slack = IF WaitKnown THEN ferry.slack + 1 ELSE ferry.slack
        /\ slack >= ferry.slack /\ ferry.timer \in Int
        /\ timer > 0 => ferry.timer > 0 /\ timer + 1 = ferry.timer
    BY SleepTypes
  <2> HIDE DEF timer, latency, slack
  <2>4. /\ ferry'.pc = ferry.pc /\ ferry'.timer = timer /\ ferry'.slack = slack
        /\ ferry'.delay_wait = ferry.delay_wait
        /\ ferry'.link_wait = ferry.link_wait /\ ferry'.steps = ferry.steps
    BY <1>1, <2>1 DEF Ferries
  <2>5. ASSUME NEW wait \in Nat \cup {Unknown}, wait # Unknown => WaitKnown,
               NEW time \in Nat, EndsBy(wait, time)
        PROVE  wait > 0 => (clock + 1) + wait <= time + slack
    BY <2>3, <2>5 DEF EndsBy, Unknown
  <2>6. ASSUME NEW time \in Nat, EndsBy(ferry.timer, time)
        PROVE  timer > 0 => (clock + 1) + timer <= time + slack
    <3>1. ferry.timer > 0 => clock + ferry.timer <= time + ferry.slack
      BY <2>6 DEF EndsBy
    <3>2. timer > 0 => clock + (timer + 1) <= time + ferry.slack
      BY <2>3, <3>1
    <3> QED BY <2>3, <3>2
  <2>7. /\ ferry.delay_wait \in Nat \cup {Unknown}
        /\ ferry.link_wait \in Nat \cup {Unknown}
        /\ ferry.delay_wait # Unknown => WaitKnown
        /\ ferry.link_wait # Unknown => WaitKnown
        /\ next_delivery_time \in Nat
        /\ delay_queue # <<>> => delay_queue[1].release \in Nat
    BY SleepTypes DEF WaitKnown
  <2>8. ASSUME ferry.steps = 0
        PROVE  /\ EndsBy(ferry.link_wait, next_delivery_time)'
               /\ ferry.pc = "poll" =>
                      EndsBy(ferry.timer, next_delivery_time)'
    <3>1. /\ EndsBy(ferry.link_wait, next_delivery_time)
          /\ ferry.pc = "poll" => EndsBy(ferry.timer, next_delivery_time)
      BY <2>8 DEF SleepInv
    <3>2. ferry.link_wait > 0 =>
              (clock + 1) + ferry.link_wait <= next_delivery_time + slack
      BY <2>5, <2>7, <3>1
    <3>3. ferry.pc = "poll" =>
              (timer > 0 => (clock + 1) + timer <= next_delivery_time + slack)
      BY <2>6, <2>7, <3>1
    <3> QED BY <1>2, <2>2, <2>4, <3>2, <3>3 DEF EndsBy
  <2>9. ASSUME ferry.steps = 0, delay_queue # <<>>
        PROVE  /\ EndsBy(ferry.delay_wait, delay_queue[1].release)'
               /\ ferry.pc = "poll" =>
                      EndsBy(ferry.timer, delay_queue[1].release)'
    <3> DEFINE time == delay_queue[1].release
    <3>1. /\ EndsBy(ferry.delay_wait, time) /\ time \in Nat
          /\ ferry.pc = "poll" => EndsBy(ferry.timer, time)
      BY <2>7, <2>9 DEF SleepInv
    <3>2. ferry.delay_wait > 0 =>
              (clock + 1) + ferry.delay_wait <= time + slack
      BY <2>5, <2>7, <3>1
    <3>3. ferry.pc = "poll" =>
              (timer > 0 => (clock + 1) + timer <= time + slack)
      BY <2>6, <3>1
    <3>4. time' = time
      BY <1>1
    <3> HIDE DEF time
    <3>5. /\ EndsBy(ferry.delay_wait, time)'
          /\ ferry.pc = "poll" => EndsBy(ferry.timer, time)'
      BY <2>2, <2>4, <3>2, <3>3, <3>4 DEF EndsBy
    <3> QED BY <3>5 DEF time
  <2> QED BY <1>1, <2>4, <2>8, <2>9 DEF SleepInv
<1> QED BY <1>3, <1>4

LEMMA StepKeepsSleep ==
    ASSUME IInv, IInv', CallerInv, CallTimes, SleepInv, [FerryNext]_ferryVars
    PROVE  SleepInv'
<1>1. CASE \/ Dispatch \/ GetNext \/ HandToLink \/ LinkReadReturns
           \/ WriteToSibling \/ SystemCallFails
  BY <1>1, WorkKeepsSleep
<1>2. CASE DelayWait
  BY <1>2, DelayWaitKeepsSleep
<1>3. CASE LinkWaitReturns
  BY <1>3, LinkWaitKeepsSleep
<1>4. CASE EnterPoll
  BY <1>4, EnterPollKeepsSleep
<1>5. CASE FerryTick \/ FerryStepBack
  BY <1>5, ClockKeepsSleep
<1>6. CASE LinkWait \/ Rationalize \/ Environment \/ UNCHANGED ferryVars
  <2>1. UNCHANGED <<ferry, clock, delay_queue>>
    BY <1>6
       DEF LinkWait, wait_time, Begin, Rationalize, rationalize,
           BurnOpportunity, SendTransit, SendNext, Send, EndDelivery,
           Environment, TunArrives, SiblingSends, SignalArrives, Breaks,
           ferryVars
  <2>2. [Next]_vars
    BY StepKeepsCaller
  <2>3. next_delivery_time' >= next_delivery_time
    BY <2>2, NextKeepsIInv
  <2>4. next_delivery_time' \in Nat
    <3>1. /\ next_delivery' \in 0..(Len(Schedule) - 1)
          /\ base_timestamp' \in Nat
      BY DEF IInv, TypeOK
    <3>2. next_delivery' + 1 \in 1..Len(Schedule)
      <4>1. \A m \in 0..(Len(Schedule) - 1) : m + 1 \in 1..Len(Schedule)
        BY ScheduleFacts
      <4> QED BY <3>1, <4>1
    <3>3. Schedule[next_delivery' + 1] \in Nat
      BY <3>2, ScheduleFacts
    <3> QED BY <3>1, <3>3, ParameterAssumption DEF next_delivery_time
  <2> QED BY <2>1, <2>3, <2>4, SameKeepsSleep
<1> QED
  BY <1>1, <1>2, <1>3, <1>4, <1>5, <1>6
     DEF FerryNext, FerryStep, WaitTime, WritePackets

\* With a delay that an int can hold no wait is too long for one, as long as the
\* wall clock has not been set back.
Narrow(n) == n < IntMax
TimerInv ==
    ferry.steps = 0 /\ delay_ms < IntMax =>
        /\ \A i \in 1..Len(delay_queue) :
               delay_queue[i].release <= clock + delay_ms
        /\ Narrow(ferry.delay_wait)
        /\ ferry.pc = "poll" => ferry.timer >= 0

\* A step that does not touch the waits and reads nothing.
LEMMA SameKeepsTimer ==
    ASSUME IInv, CallerInv, TimerInv,
           delay_queue' = delay_queue \/ delay_queue' = Tail(delay_queue),
           clock' \in Nat, clock' >= clock,
           ferry'.steps = ferry.steps,
           ferry'.delay_wait = ferry.delay_wait \/ Narrow(ferry'.delay_wait),
           ferry'.pc = "poll" => \/ ferry.pc = "poll"
                                    /\ (ferry.timer >= 0 => ferry'.timer >= 0)
                                \/ (Narrow(ferry.delay_wait) => ferry'.timer >= 0)
    PROVE  TimerInv'
<1> SUFFICES ASSUME ferry.steps = 0, delay_ms < IntMax
             PROVE  /\ \A i \in 1..Len(delay_queue') :
                           delay_queue'[i].release <= clock' + delay_ms
                    /\ Narrow(ferry'.delay_wait)
                    /\ ferry'.pc = "poll" => ferry'.timer >= 0
  BY DEF TimerInv, Narrow
<1>1. /\ \A i \in 1..Len(delay_queue) :
             delay_queue[i].release <= clock + delay_ms
      /\ Narrow(ferry.delay_wait) /\ (ferry.pc = "poll" => ferry.timer >= 0)
  BY DEF TimerInv
<1>2. ASSUME NEW i \in 1..Len(delay_queue')
      PROVE  delay_queue'[i].release <= clock' + delay_ms
  <2>1. delay_queue \in Seq(Delayed) /\ clock \in Nat /\ delay_ms \in Nat
    BY SleepTypes, FerryAssumption DEF CallerInv, Types
  <2>2. PICK j \in 1..Len(delay_queue) : delay_queue'[i] = delay_queue[j]
    <3>1. CASE delay_queue' = delay_queue
      BY <3>1
    <3>2. CASE delay_queue' = Tail(delay_queue) /\ delay_queue # <<>>
      <4>1. i + 1 \in 1..Len(delay_queue) /\ delay_queue'[i] = delay_queue[i + 1]
        BY <2>1, <3>2
      <4> QED BY <4>1
    <3>3. CASE delay_queue' = Tail(delay_queue) /\ delay_queue = <<>>
      BY <2>1, <3>3
    <3> QED BY <3>1, <3>2, <3>3
  <2>3. delay_queue[j].release \in Nat
    <3>1. delay_queue[j] \in Delayed
      BY <2>1
    <3> QED BY <3>1 DEF Delayed
  <2>4. delay_queue[j].release <= clock + delay_ms
    BY <1>1
  <2> QED BY <2>1, <2>2, <2>3, <2>4
<1> QED BY <1>1, <1>2

\* The packet that is read is released delay_ms later.
LEMMA ReadTunKeepsTimer ==
    ASSUME IInv, CallerInv, TimerInv, ReadTun
    PROVE  TimerInv'
<1> DEFINE n == Len(delay_queue)
           release == clock + delay_ms
           packet == [id |-> ferry.reads + 1, size |-> Head(tun)]
           passed == IF inbound.pending > 0 THEN ferry.passed + 1
                                            ELSE ferry.passed
<1>1. /\ delay_queue \in Seq(Delayed) /\ n \in Nat /\ clock' = clock
      /\ delay_queue' =
             Append(delay_queue, [release |-> release, packet |-> packet])
  BY DEF ReadTun, CallerInv, Types
<1> HIDE DEF packet
<1>2. /\ Len(delay_queue') = n + 1 /\ delay_queue'[n + 1].release = release
      /\ \A i \in 1..n : delay_queue'[i] = delay_queue[i]
  <2> HIDE DEF release
  <2> QED BY <1>1
<1>3. /\ ferry.pc = "dispatch" /\ ferry \in Ferries
      /\ ferry' = [Handled("tun") EXCEPT !.reads = @ + 1, !.passed = passed,
                          !.releases = Append(@, release)]
  BY DEF ReadTun, Handles, Handled, CallerInv, Types, Ferries
<1> HIDE DEF passed, release
<1>4. /\ ferry'.pc = "dispatch" /\ ferry'.steps = ferry.steps
      /\ ferry'.delay_wait = ferry.delay_wait
  BY <1>3 DEF Handled, Ferries
<1>5. ASSUME ferry.steps = 0, delay_ms < IntMax, NEW i \in 1..Len(delay_queue')
      PROVE  delay_queue'[i].release <= clock' + delay_ms
  <2>1. CASE i = n + 1
    <3>1. delay_queue'[i].release = clock' + delay_ms /\ clock + delay_ms \in Nat
      BY <1>1, <1>2, <2>1, SleepTypes, FerryAssumption DEF release
    <3> QED BY <1>1, <3>1
  <2>2. CASE i # n + 1
    <3>1. i \in 1..n
      BY <1>1, <1>2, <2>2
    <3> QED BY <1>1, <1>2, <1>5, <3>1 DEF TimerInv
  <2> QED BY <2>1, <2>2
<1> QED BY <1>4, <1>5 DEF TimerInv

LEMMA StepKeepsTimer ==
    ASSUME IInv, IInv', CallerInv, SleepInv, TimerInv, [FerryNext]_ferryVars
    PROVE  TimerInv'
<1> DEFINE Kept == /\ ferry'.steps = ferry.steps
                   /\ ferry'.delay_wait = ferry.delay_wait
<1>1. clock \in Nat /\ clock' \in Nat /\ ferry \in Ferries
  BY DEF IInv, TypeOK, CallerInv, Types
<1>2. CASE \/ PollReturns \/ PollDone \/ PollError \/ SystemCallFails
           \/ HandToLink \/ LinkReadReturns \/ WriteToSibling
           \/ ReadSibling \/ HandleSignal
  <2>1. /\ UNCHANGED <<clock, delay_queue>> /\ ferry'.pc # "poll"
        /\ ferry'.steps = ferry.steps /\ ferry'.delay_wait = ferry.delay_wait
    <3>1. CASE PollReturns \/ PollDone \/ PollError \/ SystemCallFails
      BY <1>1, <3>1
         DEF PollReturns, PollDone, PollError, SystemCallFails, Ferries
    <3>2. CASE HandToLink \/ LinkReadReturns \/ WriteToSibling
      BY <1>1, <3>2
         DEF HandToLink, read_packet, Begin, ReadOversized, LinkReadReturns,
             FinishRead, WriteToSibling, write_packets, Ferries
    <3>3. CASE ReadSibling \/ HandleSignal
      BY <1>1, <3>3
         DEF ReadSibling, HandleSignal, Handles, Handled, Ferries
    <3> QED BY <1>2, <3>1, <3>2, <3>3
  <2> QED BY <1>1, <2>1, SameKeepsTimer
<1>3. CASE ReadTun
  BY <1>3, ReadTunKeepsTimer
<1>4. CASE GetNext
  <2> DEFINE packet == delay_queue[1].packet
  <2>1. /\ clock' = clock
        /\ \/ delay_queue' = delay_queue /\ ferry' = [ferry EXCEPT !.pc = "write"]
           \/ /\ delay_queue' = Tail(delay_queue)
              /\ ferry' = [ferry EXCEPT !.packet = packet,
                           !.pc = IF packet.size = 0 THEN "write" ELSE "hand"]
    BY <1>4 DEF GetNext
  <2> HIDE DEF packet
  <2>2. Kept /\ ferry'.pc # "poll"
    BY <1>1, <2>1 DEF Ferries
  <2> QED BY <1>1, <2>1, <2>2, SameKeepsTimer
<1>5. CASE DelayWait
  <2>1. /\ UNCHANGED <<clock, delay_queue>> /\ ferry.pc = "wait"
        /\ ferry' = [ferry EXCEPT !.delay_wait = delay_wait_time]
    BY <1>5 DEF DelayWait
  <2>2. /\ ferry'.pc = "wait" /\ ferry'.steps = ferry.steps
        /\ ferry'.delay_wait = delay_wait_time
    BY <1>1, <2>1 DEF Ferries
  <2>3. ASSUME ferry.steps = 0, delay_ms < IntMax
        PROVE  Narrow(delay_wait_time)
    <3>1. CASE delay_queue # <<>> /\ delay_queue[1].release > clock
      <4> DEFINE left == delay_queue[1].release - clock
      <4>1. delay_queue[1].release \in Nat /\ 1 \in 1..Len(delay_queue)
        BY <3>1, SleepTypes DEF CallerInv, Types
      <4>2. delay_queue[1].release <= clock + delay_ms
        BY <2>3, <4>1 DEF TimerInv
      <4>3. left \in Nat /\ left <= delay_ms
        BY <1>1, <3>1, <4>1, <4>2, FerryAssumption
      <4>4. delay_wait_time = left % UIntRange
        BY <1>1, <3>1, <4>1 DEF delay_wait_time
      <4> HIDE DEF left
      <4>5. left % UIntRange \in Nat /\ left % UIntRange <= left
        BY <4>3, RemainderBelow, IntTypes
      <4> QED BY <2>3, <4>3, <4>4, <4>5, IntTypes, FerryAssumption DEF Narrow
    <3>2. CASE ~(delay_queue # <<>> /\ delay_queue[1].release > clock)
      BY <1>1, <3>2, SleepTypes, IntTypes DEF delay_wait_time, Narrow
    <3> QED BY <3>1, <3>2
  <2>4. CASE ferry.steps = 0 /\ delay_ms < IntMax
    BY <1>1, <2>1, <2>2, <2>3, <2>4, SameKeepsTimer
  <2>5. CASE ~(ferry.steps = 0 /\ delay_ms < IntMax)
    BY <2>2, <2>5 DEF TimerInv
  <2> QED BY <2>4, <2>5
<1>6. CASE EnterPoll
  <2>1. /\ UNCHANGED <<clock, delay_queue>>
        /\ ferry' = [ferry EXCEPT !.pc = "poll", !.timer = min_wait,
                            !.delay_wait = Unknown, !.link_wait = Unknown]
        /\ ferry.delay_wait \in UInts /\ ferry.link_wait \in UInts
    BY <1>1, <1>6 DEF EnterPoll, Ferries
  <2>2. /\ ferry'.pc = "poll" /\ ferry'.steps = ferry.steps
        /\ ferry'.timer = min_wait /\ Narrow(ferry'.delay_wait)
    BY <1>1, <2>1, IntTypes DEF Ferries, Unknown, Narrow
  <2>3. Narrow(ferry.delay_wait) => min_wait >= 0
    BY <2>1, IntTypes DEF min_wait, AsInt, UInts, Narrow
  <2> QED BY <1>1, <2>1, <2>2, <2>3, SameKeepsTimer
<1>7. CASE LinkWaitReturns
  <2>1. /\ UNCHANGED <<clock, delay_queue>>
        /\ ferry' = [ferry EXCEPT !.link_wait = call'.result]
    BY <1>7 DEF LinkWaitReturns, FinishWait
  <2>2. Kept /\ ferry'.pc = ferry.pc /\ ferry'.timer = ferry.timer
    BY <1>1, <2>1 DEF Ferries
  <2> QED BY <1>1, <2>1, <2>2, SameKeepsTimer
<1>8. CASE FerryTick
  <2> DEFINE timer == IF ferry.timer > 0 THEN ferry.timer - 1 ELSE ferry.timer
             latency == ferry.latency + (IF Running THEN 1 ELSE 0)
             slack == ferry.slack + (IF WaitKnown THEN 1 ELSE 0)
  <2>1. /\ ferry' = [ferry EXCEPT !.timer = timer, !.latency = latency,
                                  !.slack = slack]
        /\ clock' = clock + 1 /\ delay_queue' = delay_queue
    BY <1>8 DEF FerryTick, Tick
  <2>2. ferry.timer >= 0 => timer >= 0
    BY SleepTypes
  <2> HIDE DEF timer, latency, slack
  <2>3. Kept /\ ferry'.pc = ferry.pc /\ ferry'.timer = timer
    BY <1>1, <2>1 DEF Ferries
  <2> QED BY <1>1, <2>1, <2>2, <2>3, SameKeepsTimer
<1>9. CASE FerryStepBack
  <2>1. ferry' = [ferry EXCEPT !.steps = @ + 1] /\ ferry.steps \in Nat
    BY <1>9, SleepTypes DEF FerryStepBack
  <2>2. ferry'.steps # 0
    BY <1>1, <2>1 DEF Ferries
  <2> QED BY <2>2 DEF TimerInv
<1>10. CASE LinkWait \/ Rationalize \/ Environment \/ UNCHANGED ferryVars
  <2>1. UNCHANGED <<ferry, clock, delay_queue>>
    BY <1>10
       DEF LinkWait, wait_time, Begin, Rationalize, rationalize,
           BurnOpportunity, SendTransit, SendNext, Send, EndDelivery,
           Environment, TunArrives, SiblingSends, SignalArrives, Breaks,
           ferryVars
  <2> QED BY <1>1, <2>1, SameKeepsTimer
<1> QED
  BY <1>2, <1>3, <1>4, <1>5, <1>6, <1>7, <1>8, <1>9, <1>10
     DEF FerryNext, FerryStep, WaitTime, Dispatch, WritePackets

\* While the wall clock has not been set back the process never sleeps past the
\* next opportunity of the trace or the release of the next packet, however
\* long it was kept from running between the readings of the clock, and with a
\* delay that an int can hold it never sleeps without a timeout, although the
\* waits are narrowed twice.
THEOREM WakesInTime == FerrySpec => []NeverOversleeps
<1>1. FerryInit => SleepInv /\ TimerInv
  BY IntTypes DEF FerryInit, SleepInv, EndsBy, TimerInv, Narrow, Unknown
<1>2. /\ IInv /\ IInv' /\ CallerInv /\ CallTimes /\ SleepInv /\ TimerInv
      /\ [FerryNext]_ferryVars
      => SleepInv' /\ TimerInv'
  BY StepKeepsSleep, StepKeepsTimer
<1>3. CallerInv /\ SleepInv /\ TimerInv => NeverOversleeps
  <2> SUFFICES ASSUME CallerInv, SleepInv, TimerInv, ferry.steps = 0,
                      delay_ms < IntMax, Sleeping
               PROVE  /\ ferry.timer > 0
                      /\ EndsBy(ferry.timer, next_delivery_time)
                      /\ delay_queue # <<>> =>
                             EndsBy(ferry.timer, delay_queue[1].release)
    BY DEF NeverOversleeps, EndsBy
  <2>1. ferry.timer \in Int
    BY DEF CallerInv, Types, Ferries, Ints
  <2> QED BY <2>1 DEF SleepInv, TimerInv, Sleeping
<1>4. TimeInv => CallTimes
  BY DEF TimeInv
<1> QED
  BY <1>1, <1>2, <1>3, <1>4, CallerInvariance, DrivesLink, TimeInvariance, PTL
     DEF FerrySpec
-----------------------------------------------------------------------------
(* The sibling's turn                                                      *)

\* How many packets may have passed a datagram that waits depends on who has
\* still to be looked at in this round: the tun device comes first.
Turn ==
    /\ ferry.passed <= 2
    /\ ferry.passed > 0 => inbound.pending > 0
    /\ ferry.pc \notin {"dispatch", "exited"} => ferry.passed <= 1
    /\ ferry.pc = "dispatch" =>
           /\ {"tun", "sibling"} \subseteq ferry.ready => ferry.passed <= 1
           /\ "sibling" \notin ferry.ready => ferry.passed <= 1
           /\ "sibling" \notin ferry.ready /\ "tun" \in ferry.ready =>
                  ferry.passed = 0

\* A step in which the loop touches neither of the two descriptors.
LEMMA SameKeepsTurn ==
    ASSUME CallerInv, Turn, inbound' = inbound, ferry'.passed = ferry.passed,
           \/ ferry'.pc = "exited"
           \/ ferry'.pc = ferry.pc /\ ferry'.ready \ {"signal"}
                                         = ferry.ready \ {"signal"}
           \/ ferry.pc # "dispatch" /\ ferry'.pc # "dispatch"
              /\ ferry.pc # "exited"
    PROVE  Turn'
  BY DEF Turn

LEMMA StepKeepsTurn ==
    ASSUME IInv, CallerInv, Turn, [FerryNext]_ferryVars
    PROVE  Turn'
<1>1. /\ ferry \in Ferries /\ ferry.passed \in Nat
      /\ inbound \in [pending : Nat, relayed : Nat]
  BY DEF CallerInv, Types, Outside, Ferries
<1>2. CASE PollReturns
  <2>1. /\ ferry' = [ferry EXCEPT !.pc = IF Ready = {} THEN "move"
                                                       ELSE "dispatch",
                        !.ready = Ready, !.error = Failing,
                        !.timer = 0, !.slack = 0]
        /\ ferry.pc = "poll" /\ inbound' = inbound
    BY <1>2 DEF PollReturns, environment
  <2>2. /\ ferry'.pc \in {"move", "dispatch"} /\ ferry'.passed = ferry.passed
        /\ ferry'.ready = Ready
    BY <1>1, <2>1 DEF Ferries
  <2>3. inbound.pending > 0 => "sibling" \in Ready
    BY DEF Ready
  <2>4. ferry.passed <= 1 /\ (ferry.passed > 0 => inbound.pending > 0)
    BY <2>1 DEF Turn
  <2> QED BY <1>1, <2>1, <2>2, <2>3, <2>4 DEF Turn
<1>3. CASE PollDone
  <2>1. ferry' = [ferry EXCEPT !.pc = "move"] /\ inbound' = inbound
        /\ ferry.pc = "dispatch" /\ ferry.ready = {}
    BY <1>3 DEF PollDone, environment
  <2>2. ferry'.pc = "move" /\ ferry'.passed = ferry.passed
    BY <1>1, <2>1 DEF Ferries
  <2> QED BY <2>1, <2>2 DEF Turn
<1>4. CASE ReadTun
  <2> DEFINE passed == IF inbound.pending > 0 THEN ferry.passed + 1
                                              ELSE ferry.passed
  <2>1. /\ ferry.pc = "dispatch" /\ "tun" \in ferry.ready /\ inbound' = inbound
        /\ ferry' = [Handled("tun") EXCEPT !.reads = @ + 1, !.passed = passed,
                            !.releases = Append(@, clock + delay_ms)]
    BY <1>1, <1>4 DEF ReadTun, Handles, Handled, Ferries
  <2>2. passed \in Nat /\ (passed > 0 => inbound.pending > 0)
        /\ passed <= ferry.passed + 1
    BY <1>1 DEF Turn
  <2> HIDE DEF passed
  <2>3. /\ ferry'.pc = "dispatch" /\ ferry'.passed = passed
        /\ ferry'.ready = ferry.ready \ {"tun"}
    BY <1>1, <2>1 DEF Handled, Ferries
  <2>4. /\ "sibling" \in ferry.ready => ferry.passed <= 1
        /\ "sibling" \notin ferry.ready => ferry.passed = 0
    BY <2>1 DEF Turn
  <2>5. /\ passed <= 2
        /\ "sibling" \notin ferry.ready => passed <= 1
    BY <1>1, <2>2, <2>4
  <2> QED BY <2>1, <2>2, <2>3, <2>5 DEF Turn
<1>5. CASE ReadSibling
  <2>1. ferry' = [Handled("sibling") EXCEPT !.passed = 0]
        /\ ferry.pc = "dispatch"
    BY <1>5 DEF ReadSibling, Handles
  <2>2. ferry'.passed = 0
    BY <1>1, <2>1 DEF Handled, Ferries
  <2> QED BY <2>2 DEF Turn
<1>6. CASE HandleSignal \/ PollError \/ SystemCallFails
  <2>1. inbound' = inbound
        /\ \/ ferry' = [ferry EXCEPT !.pc = "exited"]
           \/ ferry' = Handled("signal")
    BY <1>6 DEF HandleSignal, PollError, SystemCallFails, environment
  <2>2. /\ ferry'.passed = ferry.passed
        /\ \/ ferry'.pc = "exited"
           \/ ferry'.pc = ferry.pc /\ ferry'.ready = ferry.ready \ {"signal"}
    BY <1>1, <2>1 DEF Handled, Ferries
  <2> QED BY <2>1, <2>2, SameKeepsTurn
<1>7. CASE DelayWait \/ LinkWaitReturns
  <2>1. inbound' = inbound
        /\ \E w : \/ ferry' = [ferry EXCEPT !.delay_wait = w]
                 \/ ferry' = [ferry EXCEPT !.link_wait = w]
    BY <1>7 DEF DelayWait, LinkWaitReturns, environment
  <2>2. /\ ferry'.passed = ferry.passed /\ ferry'.pc = ferry.pc
        /\ ferry'.ready = ferry.ready
    BY <1>1, <2>1 DEF Ferries
  <2> QED BY <2>1, <2>2, SameKeepsTurn
<1>8. CASE \/ EnterPoll \/ GetNext \/ HandToLink \/ LinkReadReturns
           \/ WriteToSibling
  <2>1. /\ inbound' = inbound /\ ferry.pc \notin {"dispatch", "exited"}
    BY <1>8 DEF EnterPoll, GetNext, HandToLink, LinkReadReturns, FinishRead,
                WriteToSibling, environment, CallerInv, Control
  <2>2. /\ ferry'.passed = ferry.passed /\ ferry'.pc # "dispatch"
    <3>1. CASE EnterPoll \/ HandToLink \/ LinkReadReturns \/ WriteToSibling
      BY <1>1, <3>1
         DEF EnterPoll, HandToLink, LinkReadReturns, WriteToSibling, Ferries
    <3>2. CASE GetNext
      <4> DEFINE packet == delay_queue[1].packet
      <4>1. \/ ferry' = [ferry EXCEPT !.packet = packet,
                           !.pc = IF packet.size = 0 THEN "write" ELSE "hand"]
            \/ ferry' = [ferry EXCEPT !.pc = "write"]
        BY <3>2 DEF GetNext
      <4> HIDE DEF packet
      <4> QED BY <1>1, <4>1 DEF Ferries
    <3> QED BY <1>8, <3>1, <3>2
  <2> QED BY <2>1, <2>2, SameKeepsTurn
<1>9. CASE FerryTick \/ FerryStepBack
  <2>1. inbound' = inbound
        /\ \/ \E t, l, s : ferry' = [ferry EXCEPT !.timer = t, !.latency = l,
                                                 !.slack = s]
           \/ \E n : ferry' = [ferry EXCEPT !.steps = n]
    BY <1>9 DEF FerryTick, FerryStepBack, environment
  <2>2. /\ ferry'.passed = ferry.passed /\ ferry'.pc = ferry.pc
        /\ ferry'.ready = ferry.ready
    BY <1>1, <2>1 DEF Ferries
  <2> QED BY <2>1, <2>2, SameKeepsTurn
<1>10. CASE LinkWait \/ Rationalize \/ Environment \/ UNCHANGED ferryVars
  <2>1. ferry' = ferry /\ (inbound' = inbound \/ SiblingSends)
    BY <1>10 DEF LinkWait, Rationalize, Environment, TunArrives, SignalArrives,
                 SiblingSends, Breaks, ferryVars, environment
  <2>2. CASE SiblingSends
    <3>1. inbound' = [inbound EXCEPT !.pending = @ + 1]
      BY <2>2 DEF SiblingSends
    <3>2. inbound'.pending > 0
      BY <1>1, <3>1
    <3> QED BY <2>1, <3>2 DEF Turn
  <2> QED BY <2>1, <2>2, SameKeepsTurn
<1> QED
  BY <1>2, <1>3, <1>4, <1>5, <1>6, <1>7, <1>8, <1>9, <1>10
     DEF FerryNext, FerryStep, WaitTime, Dispatch, WritePackets

\* However busy the tun device is, at most two packets are read from it before
\* the next datagram of the sibling is relayed.
THEOREM SiblingHasItsTurn == FerrySpec => []SiblingNotStarved
<1>1. FerryInit => Turn
  BY DEF FerryInit, Turn
<1>2. IInv /\ CallerInv /\ Turn /\ [FerryNext]_ferryVars => Turn'
  BY StepKeepsTurn
<1>3. Turn => SiblingNotStarved
  BY DEF Turn, SiblingNotStarved
<1> QED BY <1>1, <1>2, <1>3, CallerInvariance, PTL DEF FerrySpec
-----------------------------------------------------------------------------
(* The propagation delay                                                   *)

\* The release of packet id is known to the loop f and, unless the clock was
\* set back, not after time.
Elapsed(f, id, time) ==
    /\ id \in 1..Len(f.releases)
    /\ f.steps = 0 => f.releases[id] <= time

AllElapsed(f, s) ==
    \A i \in 1..Len(s) : Elapsed(f, s[i].id, s[i].arrival_time)

HeldElapsed ==
    /\ AllElapsed(ferry, Sent) /\ AllElapsed(ferry, packet_queue)
    /\ packet_in_transit_bytes_left > 0 =>
           Elapsed(ferry, packet_in_transit.id, packet_in_transit.arrival_time)

ReadingElapsed == Reading => Elapsed(ferry, call.packet.id, call.now)
HandElapsed == ferry.pc = "hand" => Elapsed(ferry, ferry.packet.id, clock)

\* The delay queue holds the packets with the release they were given.
Releases ==
    /\ Len(ferry.releases) = ferry.reads
    /\ \A i \in 1..Len(delay_queue) :
           delay_queue[i].release = ferry.releases[delay_queue[i].packet.id]

ReleaseInv == Releases /\ HandElapsed /\ ReadingElapsed /\ HeldElapsed

\* g is a later state of the loop f.
Later(f, g) ==
    /\ f.releases \in Seq(Nat)
    /\ \/ g.releases = f.releases
       \/ \E r \in Nat : g.releases = Append(f.releases, r)
    /\ g.steps = 0 => f.steps = 0

\* What has elapsed remains so.
LEMMA StaysElapsed ==
    ASSUME NEW f, NEW g, Later(f, g)
    PROVE  \A id, time : Elapsed(f, id, time) => Elapsed(g, id, time)
<1> SUFFICES ASSUME NEW id, NEW time, Elapsed(f, id, time)
             PROVE  Elapsed(g, id, time)
  OBVIOUS
<1>1. /\ Len(f.releases) \in Nat /\ Len(g.releases) \in Nat
      /\ Len(f.releases) <= Len(g.releases)
      /\ g.releases[id] = f.releases[id]
  BY DEF Later, Elapsed
<1> QED BY <1>1 DEF Later, Elapsed

\* What a step does to the releases: only ReadTun adds one.
LEMMA ReleasesGrow ==
    ASSUME IInv, CallerInv, [FerryNext]_ferryVars
    PROVE  /\ ReadTun => /\ ferry'.releases = Append(ferry.releases,
                                                     clock + delay_ms)
                         /\ ferry'.reads = ferry.reads + 1
                         /\ ferry'.steps = ferry.steps
           /\ ~ReadTun => /\ ferry'.releases = ferry.releases
                          /\ ferry'.reads = ferry.reads
                          /\ FerryStepBack \/ ferry'.steps = ferry.steps
           /\ FerryStepBack => ferry'.steps # 0 /\ ~ReadTun
           /\ Later(ferry, ferry')
<1>1. ferry \in Ferries /\ clock + delay_ms \in Nat
  <2>1. clock \in Nat /\ delay_ms \in Nat
    BY FerryAssumption DEF IInv, TypeOK
  <2>2. clock + delay_ms \in Nat
    BY <2>1
  <2> QED BY <2>2 DEF CallerInv, Types
<1>2. ferry.releases \in Seq(Nat) /\ ferry.steps \in Nat
  BY <1>1 DEF Ferries
<1>3. ReadTun => /\ ferry'.releases = Append(ferry.releases, clock + delay_ms)
                 /\ ferry'.reads = ferry.reads + 1
                 /\ ferry'.steps = ferry.steps
  BY <1>1 DEF ReadTun, Handled, Ferries
<1>4. FerryStepBack => /\ ferry'.steps # 0
                       /\ ferry'.releases = ferry.releases
                       /\ ferry'.reads = ferry.reads
  <2> SUFFICES ASSUME FerryStepBack
               PROVE  /\ ferry'.steps # 0 /\ ferry'.releases = ferry.releases
                      /\ ferry'.reads = ferry.reads
    OBVIOUS
  <2>1. ferry' = [ferry EXCEPT !.steps = @ + 1]
    BY DEF FerryStepBack
  <2>2. ferry'.steps = ferry.steps + 1 /\ ferry'.releases = ferry.releases
        /\ ferry'.reads = ferry.reads
    BY <1>1, <2>1 DEF Ferries
  <2> QED BY <1>2, <2>2
<1>5. FerryStepBack => ~ReadTun
  BY <1>2, <1>3, <1>4
<1>6. ASSUME ~ReadTun, ~FerryStepBack
      PROVE  /\ ferry'.releases = ferry.releases /\ ferry'.reads = ferry.reads
             /\ ferry'.steps = ferry.steps
  <2>1. CASE PollReturns \/ PollDone \/ PollError \/ SystemCallFails
    BY <1>1, <2>1 DEF PollReturns, PollDone, PollError, SystemCallFails, Ferries
  <2>2. CASE ReadSibling \/ HandleSignal
    BY <1>1, <2>2 DEF ReadSibling, HandleSignal, Handled, Ferries
  <2>3. CASE DelayWait \/ LinkWaitReturns
    <3>1. \E w : \/ ferry' = [ferry EXCEPT !.delay_wait = w]
                 \/ ferry' = [ferry EXCEPT !.link_wait = w]
      BY <2>3 DEF DelayWait, LinkWaitReturns
    <3> QED BY <1>1, <3>1 DEF Ferries
  <2>4. CASE EnterPoll
    BY <1>1, <2>4 DEF EnterPoll, Ferries
  <2>5. CASE GetNext
    <3>1. \E p, pc : \/ ferry' = [ferry EXCEPT !.packet = p, !.pc = pc]
                     \/ ferry' = [ferry EXCEPT !.pc = pc]
      BY <2>5 DEF GetNext
    <3> QED BY <1>1, <3>1 DEF Ferries
  <2>6. CASE HandToLink \/ LinkReadReturns \/ WriteToSibling
    BY <1>1, <2>6 DEF HandToLink, LinkReadReturns, WriteToSibling, Ferries
  <2>7. CASE FerryTick
    <3>1. \E t, l, s : ferry' = [ferry EXCEPT !.timer = t, !.latency = l,
                                              !.slack = s]
      BY <2>7 DEF FerryTick
    <3> QED BY <1>1, <3>1 DEF Ferries
  <2>8. CASE LinkWait \/ Rationalize \/ Environment \/ UNCHANGED ferryVars
    <3>1. ferry' = ferry
      BY <2>8 DEF LinkWait, Rationalize, Environment, TunArrives,
                  SiblingSends, SignalArrives, Breaks, ferryVars
    <3> QED BY <3>1
  <2> QED
    BY <1>6, <2>1, <2>2, <2>3, <2>4, <2>5, <2>6, <2>7, <2>8
       DEF FerryNext, FerryStep, WaitTime, Dispatch, WritePackets
<1>7. Later(ferry, ferry')
  BY <1>1, <1>2, <1>3, <1>4, <1>6 DEF Later
<1> QED BY <1>3, <1>4, <1>5, <1>6, <1>7

\* The packets that the link holds or has sent keep their arrival time, and the
\* one it takes in has the time of the call.
LEMMA StepKeepsHeldElapsed ==
    ASSUME IInv, HeldElapsed, ReadingElapsed, [Next]_vars, Later(ferry, ferry')
    PROVE  HeldElapsed'
<1>1. \A id, time : Elapsed(ferry, id, time) => Elapsed(ferry', id, time)
  BY StaysElapsed
<1>2. /\ AllElapsed(ferry', Sent) /\ AllElapsed(ferry', packet_queue)
      /\ packet_in_transit_bytes_left > 0 =>
             Elapsed(ferry', packet_in_transit.id,
                     packet_in_transit.arrival_time)
  BY <1>1 DEF HeldElapsed, AllElapsed
<1>3. ASSUME Sent' = Sent, UNCHANGED <<packet_queue, transitState>>
      PROVE  HeldElapsed'
  BY <1>2, <1>3 DEF HeldElapsed, transitState
<1>4. CASE SendTransit \/ SendNext
  <2>1. PICK p \in QueuedPackets, left \in Nat \ {0}, amount \in Nat :
            Sending(p, left, amount)
    BY <1>4, DeliverIsSending
  <2>2. Elapsed(ferry', p.id, p.arrival_time)
        /\ AllElapsed(ferry', packet_queue')
    <3>1. CASE packet_in_transit_bytes_left > 0
      BY <1>2, <2>1, <3>1 DEF Sending
    <3>2. CASE ~(packet_in_transit_bytes_left > 0)
      <4>1. /\ Len(packet_queue) > 0 /\ p = packet_queue[1]
            /\ \E d \in Nat \ {0} : PartOf(packet_queue', packet_queue, d)
        BY <2>1, <3>2 DEF Sending
      <4>2. 1 \in 1..Len(packet_queue)
        BY <4>1 DEF IInv, TypeOK
      <4>3. Elapsed(ferry', p.id, p.arrival_time)
        BY <1>2, <4>1, <4>2 DEF AllElapsed
      <4>4. AllElapsed(ferry', packet_queue')
        BY <1>2, <4>1 DEF AllElapsed, PartOf
      <4> QED BY <4>3, <4>4
    <3> QED BY <3>1, <3>2
  <2>3. AllElapsed(ferry', Sent')
    <3>1. Sent' = Sent \/ Sent' = Append(Sent, p)
      BY <2>1 DEF Sending
    <3>2. ASSUME Sent' = Append(Sent, p) PROVE AllElapsed(ferry', Sent')
      <4>1. Sent \in Seq(QueuedPackets)
        BY HeldTypes
      <4>2. \A i \in 1..Len(Append(Sent, p)) :
                \/ i \in 1..Len(Sent) /\ Append(Sent, p)[i] = Sent[i]
                \/ Append(Sent, p)[i] = p
        BY <4>1
      <4> QED BY <1>2, <2>2, <3>2, <4>2 DEF AllElapsed
    <3> QED BY <1>2, <3>1, <3>2
  <2>4. packet_in_transit' = p
    BY <2>1 DEF Sending
  <2> QED BY <2>2, <2>3, <2>4 DEF HeldElapsed
<1>5. CASE FinishRead
  <2> DEFINE p == QueuedPacket(call.packet, call.now)
  <2>1. /\ packet_queue' \in EnqueueOutcomes(packet_queue, p)
        /\ UNCHANGED <<transitState, output_queue, written>>
        /\ call.pc = "rationalize" /\ call.op = "read_packet"
    BY <1>5 DEF FinishRead
  <2>2. Elapsed(ferry', p.id, p.arrival_time)
    <3>1. Elapsed(ferry, call.packet.id, call.now)
      BY <2>1 DEF ReadingElapsed, Reading, InCall
    <3> QED BY <1>1, <3>1 DEF QueuedPacket
  <2>3. p \in QueuedPackets /\ packet_queue \in Seq(QueuedPackets)
    <3>1. call.packet \in [id : Nat, size : Nat] \cup {NoPacket}
          /\ call.now \in Nat
      BY DEF IInv, TypeOK
    <3>2. call.packet.id \in Nat /\ call.packet.size \in Nat
      BY <3>1 DEF NoPacket, QueuedPacket
    <3>3. p \in QueuedPackets
      BY <3>1, <3>2 DEF QueuedPacket, QueuedPackets
    <3> QED BY <3>3 DEF IInv, TypeOK
  <2> HIDE DEF p
  <2>4. PICK d \in Nat : PartThen(packet_queue', packet_queue, d, p)
    BY <2>1, <2>3, EnqueueProperties
  <2>5. AllElapsed(ferry', packet_queue')
    BY <1>2, <2>2, <2>4 DEF AllElapsed, PartThen
  <2>6. Sent' = Sent
    BY <2>1 DEF Sent
  <2> QED BY <1>2, <2>1, <2>5, <2>6 DEF HeldElapsed, transitState
<1>6. CASE write_packets
  <2>1. (written \o output_queue) \o <<>> = written \o output_queue
    BY DEF IInv, TypeOK
  <2>2. Sent' = Sent
    BY <1>6, <2>1 DEF write_packets, Sent
  <2> QED BY <1>3, <1>6, <2>2 DEF write_packets
<1>7. CASE \/ Call /\ ~write_packets
           \/ BurnOpportunity \/ EndDelivery \/ FinishWait
           \/ Tick \/ StepBack \/ UNCHANGED vars
  <2>1. UNCHANGED <<written, output_queue, packet_queue, transitState>>
    BY <1>7 DEF Call, read_packet, wait_time, Begin, ReadOversized,
                BurnOpportunity, EndDelivery, FinishWait, Tick, StepBack, vars
  <2> QED BY <1>3, <2>1 DEF Sent
<1> QED
  BY <1>4, <1>5, <1>6, <1>7 DEF Next, Call, LinkStep, rationalize

\* Only what the loop has handed over is being read by the link.
LEMMA StepKeepsReadingElapsed ==
    ASSUME IInv, CallerInv, CallerInv', HandElapsed, ReadingElapsed,
           [FerryNext]_ferryVars, Later(ferry, ferry')
    PROVE  ReadingElapsed'
<1> SUFFICES ASSUME Reading'
             PROVE  Elapsed(ferry', call'.packet.id, call'.now)
  BY DEF ReadingElapsed
<1>1. \A id, time : Elapsed(ferry, id, time) => Elapsed(ferry', id, time)
  BY StaysElapsed
<1>2. ferry'.pc = "linking" /\ call'.pc # "idle" /\ call'.op = "read_packet"
  BY DEF CallerInv, Control, Reading, InCall
<1>3. CASE HandToLink
  <2>1. Begin("read_packet", ferry.packet) /\ ferry.pc = "hand"
    BY <1>3, HandToLinkKeepsCaller DEF HandToLink
  <2>2. call'.packet = ferry.packet /\ call'.now = clock
    BY <2>1 DEF Begin, IInv, TypeOK
  <2>3. Elapsed(ferry, ferry.packet.id, clock)
    BY <2>1 DEF HandElapsed
  <2> QED BY <1>1, <2>2, <2>3
<1>4. CASE ~HandToLink
  <2>1. ferry \in Ferries
    BY DEF CallerInv, Types
  <2>2. \/ /\ call'.packet = call.packet /\ call'.now = call.now
           /\ call'.op = call.op
           /\ call.pc = "idle" => call'.pc = "idle"
        \/ LinkWait \/ LinkWaitReturns \/ LinkReadReturns
    <3>1. CASE Rationalize
      <4>1. call \in CallType
        BY DEF IInv, TypeOK, CallType
      <4>2. CASE BurnOpportunity \/ EndDelivery
        BY <4>1, <4>2 DEF BurnOpportunity, Due, EndDelivery, CallType
      <4>3. CASE SendTransit \/ SendNext
        <5>1. PICK p \in QueuedPackets, left \in Nat \ {0}, amount \in Nat :
                  Sending(p, left, amount)
          BY <4>3, DeliverIsSending
        <5>2. call' = [call EXCEPT !.bytes_left_in_this_delivery = @ - amount]
          BY <5>1 DEF Sending
        <5> QED BY <4>1, <5>2 DEF CallType
      <4> QED BY <3>1, <4>2, <4>3 DEF Rationalize, rationalize
    <3>2. CASE ~Rationalize
      <4>1. UNCHANGED call \/ LinkWait \/ LinkWaitReturns \/ LinkReadReturns
        BY <1>4, <3>2
           DEF FerryNext, FerryStep, WaitTime, Dispatch, WritePackets,
               PollReturns, PollDone, PollError, SystemCallFails, ReadTun,
               ReadSibling,
               HandleSignal, DelayWait, EnterPoll, GetNext, WriteToSibling,
               write_packets, FerryTick, Tick, FerryStepBack, StepBack,
               Environment, TunArrives, SiblingSends, SignalArrives, Breaks,
               ferryVars, link
      <4> QED BY <4>1
    <3> QED BY <3>1, <3>2
  <2>3. ~LinkWait /\ ~LinkWaitReturns /\ ~LinkReadReturns
    <3>1. LinkWait => call'.op = "wait_time"
      BY DEF LinkWait, wait_time, Begin, IInv, TypeOK
    <3>2. LinkWaitReturns \/ LinkReadReturns => call'.pc = "idle"
      BY DEF LinkWaitReturns, FinishWait, LinkReadReturns, FinishRead, Returned
    <3> QED BY <1>2, <3>1, <3>2
  <2>4. call'.packet = call.packet /\ call'.now = call.now /\ Reading
    <3>1. /\ call'.packet = call.packet /\ call'.now = call.now
          /\ call.op = "read_packet" /\ call.pc # "idle"
      BY <1>2, <2>2, <2>3
    <3> QED BY <3>1 DEF CallerInv, Control, Reading, InCall
  <2> QED BY <1>1, <2>4 DEF ReadingElapsed
<1> QED BY <1>3, <1>4

\* The numbers of the packets in the delay queue are those of known releases.
LEMMA DelayedKnown ==
    ASSUME IInv, CallerInv, Releases
    PROVE  \A i \in 1..Len(delay_queue) :
               delay_queue[i].packet.id \in 1..Len(ferry.releases)
<1> SUFFICES ASSUME NEW i \in 1..Len(delay_queue)
             PROVE  delay_queue[i].packet.id \in 1..Len(ferry.releases)
  OBVIOUS
<1>1. delay_queue \in Seq(Delayed) /\ ferry \in Ferries
      /\ history.arrived \in Nat
  BY DEF CallerInv, Types, IInv, TypeOK
<1>2. Handed \in Nat /\ Len(delay_queue) \in Nat /\ ferry.reads \in Nat
  BY <1>1 DEF Handed, Ferries
<1>3. delay_queue[i].packet.id = Handed + i
  BY DEF CallerInv, Numbered
<1>4. Handed + Len(delay_queue) = ferry.reads
  <2>1. delay_queue # <<>>
    BY <1>1
  <2> QED BY <2>1 DEF CallerInv, Numbered
<1>5. Handed + i \in 1..ferry.reads
  BY <1>2, <1>4
<1> QED BY <1>3, <1>5 DEF Releases

\* What is taken from the delay queue is due.
LEMMA StepKeepsHandElapsed ==
    ASSUME IInv, CallerInv, Releases, HandElapsed, [FerryNext]_ferryVars,
           Later(ferry, ferry')
    PROVE  HandElapsed'
<1> SUFFICES ASSUME ferry'.pc = "hand"
             PROVE  Elapsed(ferry', ferry'.packet.id, clock')
  BY DEF HandElapsed
<1>1. \A id, time : Elapsed(ferry, id, time) => Elapsed(ferry', id, time)
  BY StaysElapsed
<1>2. ferry \in Ferries /\ delay_queue \in Seq(Delayed)
  BY DEF CallerInv, Types
<1>3. CASE GetNext
  <2> DEFINE packet == delay_queue[1].packet
  <2>1. delay_queue # <<>> /\ delay_queue[1].release <= clock
    <3>1. ASSUME ferry' = [ferry EXCEPT !.pc = "write"] PROVE FALSE
      BY <1>2, <3>1 DEF Ferries
    <3> QED BY <1>3, <3>1 DEF GetNext
  <2>2. ferry' = [ferry EXCEPT !.packet = packet,
                       !.pc = IF packet.size = 0 THEN "write" ELSE "hand"]
        /\ clock' = clock
    BY <1>3, <2>1 DEF GetNext
  <2>3. 1 \in 1..Len(delay_queue)
    BY <1>2, <2>1
  <2>4. Elapsed(ferry, packet.id, clock)
    BY <2>1, <2>3, DelayedKnown DEF Elapsed, Releases
  <2> HIDE DEF packet
  <2>5. ferry'.packet = packet
    BY <1>2, <2>2 DEF Ferries
  <2> QED BY <1>1, <2>2, <2>4, <2>5
<1>4. CASE ~GetNext
  <2>1. /\ ferry.pc = "hand" /\ ferry'.packet = ferry.packet
        /\ clock' = clock \/ FerryTick \/ FerryStepBack
    <3>1. CASE Dispatch \/ DelayWait \/ EnterPoll \/ SystemCallFails
      <4>1. ferry.pc \in {"poll", "dispatch", "wait", "write"}
        BY <3>1 DEF Dispatch, PollReturns, PollDone, PollError, ReadTun,
                    SystemCallFails, ReadSibling, HandleSignal, Handles, DelayWait, EnterPoll
      <4>2. ferry'.pc \in {"move", "dispatch", "exited", "wait", "poll"}
        <5>1. CASE PollReturns \/ PollDone \/ PollError \/ SystemCallFails
          BY <1>2, <5>1
             DEF PollReturns, PollDone, PollError, SystemCallFails, Ferries
        <5>2. CASE ReadTun \/ ReadSibling \/ HandleSignal
          BY <1>2, <5>2
             DEF ReadTun, ReadSibling, HandleSignal, Handles, Handled, Ferries
        <5>3. CASE DelayWait \/ EnterPoll
          BY <1>2, <5>3 DEF DelayWait, EnterPoll, Ferries
        <5> QED BY <3>1, <5>1, <5>2, <5>3 DEF Dispatch
      <4> QED BY <4>2
    <3>2. CASE HandToLink \/ LinkReadReturns \/ WriteToSibling
      BY <1>2, <3>2 DEF HandToLink, LinkReadReturns, WriteToSibling, Ferries
    <3>3. CASE LinkWaitReturns
      <4>1. ferry.pc = "wait"
        BY <3>3 DEF LinkWaitReturns, FinishWait, CallerInv, Control
      <4> QED BY <1>2, <3>3, <4>1 DEF LinkWaitReturns, Ferries
    <3>4. CASE LinkWait \/ Rationalize \/ Environment \/ UNCHANGED ferryVars
      <4>1. ferry' = ferry /\ clock' = clock
        BY <3>4
           DEF LinkWait, wait_time, Begin, Rationalize, rationalize,
               BurnOpportunity, SendTransit, SendNext, Send, EndDelivery,
               Environment, TunArrives, SiblingSends, SignalArrives, Breaks,
               ferryVars
      <4> QED BY <4>1
    <3>5. CASE FerryTick
      <4>1. \E t, l, s : ferry' = [ferry EXCEPT !.timer = t, !.latency = l,
                                                !.slack = s]
        BY <3>5 DEF FerryTick
      <4>2. ferry'.pc = ferry.pc /\ ferry'.packet = ferry.packet
        BY <1>2, <4>1 DEF Ferries
      <4> QED BY <3>5, <4>2
    <3>6. CASE FerryStepBack
      <4>1. ferry'.pc = ferry.pc /\ ferry'.packet = ferry.packet
        BY <1>2, <3>6 DEF FerryStepBack, Ferries
      <4> QED BY <3>6, <4>1
    <3> QED
      BY <1>4, <3>1, <3>2, <3>3, <3>4, <3>5, <3>6
         DEF FerryNext, FerryStep, WaitTime, WritePackets
  <2>2. Elapsed(ferry, ferry.packet.id, clock)
    BY <2>1 DEF HandElapsed
  <2>3. CASE clock' = clock
    BY <1>1, <2>1, <2>2, <2>3
  <2>4. CASE FerryTick
    <3>1. clock' = clock + 1 /\ clock \in Nat
      BY <2>4 DEF FerryTick, Tick, IInv, TypeOK
    <3>2. ferry.releases[ferry.packet.id] \in Nat
      BY <1>2, <2>2 DEF Elapsed, Ferries
    <3>3. Elapsed(ferry, ferry.packet.id, clock + 1)
      BY <2>2, <3>1, <3>2 DEF Elapsed
    <3> QED BY <1>1, <2>1, <3>1, <3>3
  <2>5. CASE FerryStepBack
    <3>1. ferry'.steps # 0
      BY <2>5, ReleasesGrow
    <3> QED BY <1>1, <2>1, <2>2, <3>1 DEF Elapsed
  <2> QED BY <2>1, <2>3, <2>4, <2>5
<1> QED BY <1>3, <1>4

\* A packet is queued with the release that is remembered for it.
LEMMA StepKeepsReleases ==
    ASSUME IInv, CallerInv, CallerInv', Releases, [FerryNext]_ferryVars
    PROVE  Releases'
<1>1. ferry \in Ferries /\ delay_queue \in Seq(Delayed)
  BY DEF CallerInv, Types
<1>2. ferry.releases \in Seq(Nat) /\ ferry.reads \in Nat
      /\ Len(ferry.releases) = ferry.reads
  BY <1>1 DEF Ferries, Releases
<1>3. CASE ReadTun
  <2> DEFINE release == clock + delay_ms
             n == Len(delay_queue)
             packet == [id |-> ferry.reads + 1, size |-> Head(tun)]
  <2>1. /\ ferry'.releases = Append(ferry.releases, release)
        /\ ferry'.reads = ferry.reads + 1
    BY <1>3, ReleasesGrow
  <2>2. delay_queue' = Append(delay_queue,
                              [release |-> release, packet |-> packet])
    BY <1>3 DEF ReadTun
  <2>3. packet.id = ferry.reads + 1
    OBVIOUS
  <2> HIDE DEF release, packet
  <2>4. /\ Len(ferry'.releases) = ferry.reads + 1
        /\ ferry'.releases[ferry.reads + 1] = release
        /\ \A k \in 1..ferry.reads : ferry'.releases[k] = ferry.releases[k]
    BY <1>2, <2>1
  <2>5. /\ n \in Nat /\ Len(delay_queue') = n + 1
        /\ delay_queue'[n + 1] = [release |-> release, packet |-> packet]
        /\ \A i \in 1..n : delay_queue'[i] = delay_queue[i]
    BY <1>1, <2>2
  <2>6. ASSUME NEW i \in 1..Len(delay_queue')
        PROVE  delay_queue'[i].release
                  = ferry'.releases[delay_queue'[i].packet.id]
    <3>1. CASE i = n + 1
      <4>1. delay_queue'[i].release = release
            /\ delay_queue'[i].packet.id = ferry.reads + 1
        BY <2>3, <2>5, <3>1
      <4> QED BY <2>4, <4>1
    <3>2. CASE i # n + 1
      <4>1. i \in 1..n /\ delay_queue'[i] = delay_queue[i]
        BY <2>5, <3>2
      <4>2. delay_queue[i].packet.id \in 1..ferry.reads
        BY <1>2, <4>1, DelayedKnown
      <4>3. delay_queue[i].release = ferry.releases[delay_queue[i].packet.id]
        BY <4>1 DEF Releases
      <4> QED BY <2>4, <4>1, <4>2, <4>3
    <3> QED BY <3>1, <3>2
  <2> QED BY <2>1, <2>4, <2>6 DEF Releases
<1>4. CASE ~ReadTun
  <2>1. ferry'.releases = ferry.releases /\ ferry'.reads = ferry.reads
    BY <1>4, ReleasesGrow
  <2>2. delay_queue' = delay_queue \/ (GetNext /\ delay_queue # <<>>
                                          /\ delay_queue' = Tail(delay_queue))
    BY <1>4
       DEF FerryNext, FerryStep, WaitTime, Dispatch, WritePackets, PollReturns,
           PollDone, PollError, SystemCallFails, ReadSibling, HandleSignal,
           DelayWait, EnterPoll, LinkWait, LinkWaitReturns, GetNext, HandToLink, LinkReadReturns,
           WriteToSibling, Rationalize, FerryTick, FerryStepBack, Environment,
           TunArrives, SiblingSends, SignalArrives, Breaks, ferryVars
  <2>3. CASE delay_queue' = delay_queue
    BY <2>1, <2>3 DEF Releases
  <2>4. CASE delay_queue # <<>> /\ delay_queue' = Tail(delay_queue)
    <3>1. \A i \in 1..Len(delay_queue') :
              i + 1 \in 1..Len(delay_queue)
                  /\ delay_queue'[i] = delay_queue[i + 1]
      BY <1>1, <2>4
    <3> QED BY <1>2, <2>1, <3>1 DEF Releases
  <2> QED BY <2>2, <2>3, <2>4
<1> QED BY <1>3, <1>4

LEMMA StepKeepsReleaseInv ==
    ASSUME IInv, CallerInv, ReleaseInv, [FerryNext]_ferryVars
    PROVE  ReleaseInv'
<1>1. [Next]_vars /\ CallerInv'
  BY StepKeepsCaller
<1>2. Later(ferry, ferry')
  BY ReleasesGrow
<1> QED
  BY <1>1, <1>2, StepKeepsReleases, StepKeepsHandElapsed,
     StepKeepsReadingElapsed, StepKeepsHeldElapsed DEF ReleaseInv

\* An element of two sequences put together is one of the first or the second.
LEMMA PartsOfJoin ==
    ASSUME NEW S, NEW s \in Seq(S), NEW t \in Seq(S)
    PROVE  /\ s \o t \in Seq(S)
           /\ Len(s \o t) = Len(s) + Len(t)
           /\ \A k \in 1..Len(s \o t) :
                  \/ \E j \in 1..Len(s) : (s \o t)[k] = s[j]
                  \/ \E j \in 1..Len(t) : (s \o t)[k] = t[j]
<1>1. s \o t \in Seq(S) /\ Len(s \o t) = Len(s) + Len(t)
  OBVIOUS
<1> SUFFICES ASSUME NEW k \in 1..Len(s \o t)
             PROVE  \/ \E j \in 1..Len(s) : (s \o t)[k] = s[j]
                    \/ \E j \in 1..Len(t) : (s \o t)[k] = t[j]
  BY <1>1
<1>2. CASE k <= Len(s)
  <2>1. k \in 1..Len(s) /\ (s \o t)[k] = s[k]
    BY <1>1, <1>2
  <2> QED BY <2>1
<1>3. CASE ~(k <= Len(s))
  <2>1. k - Len(s) \in 1..Len(t) /\ (s \o t)[k] = t[k - Len(s)]
    BY <1>1, <1>3
  <2> QED BY <2>1
<1> QED BY <1>2, <1>3

\* What has elapsed for the parts of the link has elapsed for all it holds.
LEMMA ElapsedImpliesRespected ==
    IInv /\ CallerInv /\ ReleaseInv => DelayRespected
<1> SUFFICES ASSUME IInv, CallerInv, ReleaseInv, ferry.steps = 0,
                    NEW i \in 1..Len(Sent \o InTransit \o packet_queue)
             PROVE  (Sent \o InTransit \o packet_queue)[i].arrival_time
                       >= ferry.releases[(Sent \o InTransit
                                             \o packet_queue)[i].id]
  BY DEF DelayRespected, Sent
<1> DEFINE line == Sent \o InTransit \o packet_queue
           p == line[i]
<1>1. /\ Sent \in Seq(QueuedPackets) /\ packet_queue \in Seq(QueuedPackets)
      /\ InTransit \in Seq(QueuedPackets)
  BY HeldTypes DEF InTransit
<1>2. \/ \E j \in 1..Len(Sent) : p = Sent[j]
      \/ \E j \in 1..Len(InTransit) : p = InTransit[j]
      \/ \E j \in 1..Len(packet_queue) : p = packet_queue[j]
  <2>1. /\ Sent \o InTransit \in Seq(QueuedPackets)
        /\ \A k \in 1..Len(Sent \o InTransit) :
               \/ \E j \in 1..Len(Sent) : (Sent \o InTransit)[k] = Sent[j]
               \/ \E j \in 1..Len(InTransit) :
                      (Sent \o InTransit)[k] = InTransit[j]
    BY <1>1, PartsOfJoin
  <2>2. \/ \E k \in 1..Len(Sent \o InTransit) : p = (Sent \o InTransit)[k]
        \/ \E j \in 1..Len(packet_queue) : p = packet_queue[j]
    <3> DEFINE first == Sent \o InTransit
    <3>1. first \in Seq(QueuedPackets) /\ i \in 1..Len(first \o packet_queue)
          /\ p = (first \o packet_queue)[i]
      BY <2>1
    <3> HIDE DEF first, p
    <3>2. \/ \E k \in 1..Len(first) : p = first[k]
          \/ \E j \in 1..Len(packet_queue) : p = packet_queue[j]
      BY <1>1, <3>1, PartsOfJoin
    <3> QED BY <3>2 DEF first
  <2> QED BY <2>1, <2>2
<1>3. Elapsed(ferry, p.id, p.arrival_time) /\ p \in QueuedPackets
  <2>1. CASE \E j \in 1..Len(InTransit) : p = InTransit[j]
    <3>1. packet_in_transit_bytes_left > 0 /\ p = packet_in_transit
      BY <2>1 DEF InTransit
    <3> QED BY <1>1, <2>1, <3>1 DEF ReleaseInv, HeldElapsed
  <2>2. CASE ~(\E j \in 1..Len(InTransit) : p = InTransit[j])
    BY <1>1, <1>2, <2>2 DEF ReleaseInv, HeldElapsed, AllElapsed
  <2> QED BY <2>1, <2>2
<1> HIDE DEF p
<1>4. ferry.releases[p.id] \in Nat /\ p.arrival_time \in Nat
      /\ ferry.releases[p.id] <= p.arrival_time
  BY <1>3 DEF Elapsed, CallerInv, Types, Ferries, QueuedPackets
<1>5. p.arrival_time >= ferry.releases[p.id]
  BY <1>4
<1> QED BY <1>5 DEF p

LEMMA ReleaseInvariance == FerrySpec => []ReleaseInv
<1>1. FerryInit => ReleaseInv
  BY DEF FerryInit, Init, Returned, ReleaseInv, Releases, HandElapsed,
         ReadingElapsed, Reading, InCall, HeldElapsed, AllElapsed, Sent
<1>2. IInv /\ CallerInv /\ ReleaseInv /\ [FerryNext]_ferryVars => ReleaseInv'
  BY StepKeepsReleaseInv
<1> QED BY <1>1, <1>2, CallerInvariance, PTL DEF FerrySpec

\* While the wall clock has not been set back, no packet reaches the link before
\* its propagation delay is over: get_next compared the release with an earlier
\* reading of the clock than the one that read_packet stamps the packet with.
THEOREM DelayKept == FerrySpec => []DelayRespected
  BY CallerInvariance, ReleaseInvariance, ElapsedImpliesRespected, PTL
-----------------------------------------------------------------------------
(* Order from the tun device to the sibling                                *)

\* The numbers of s grow from lo to hi.
Growing(s, lo, hi) ==
    /\ s \in Seq(Nat)
    /\ \A i \in 1..Len(s) : lo <= s[i] /\ s[i] <= hi
    /\ \A i, j \in 1..Len(s) : i < j => s[i] < s[j]

LEMMA JoinGrowing ==
    ASSUME NEW s, NEW t, NEW lo \in Nat, NEW m \in Nat, NEW hi \in Nat,
           m <= hi, lo <= m + 1, Growing(s, lo, m), Growing(t, m + 1, hi)
    PROVE  Growing(s \o t, lo, hi)
<1> DEFINE u == s \o t
<1>1. /\ s \in Seq(Nat) /\ t \in Seq(Nat) /\ u \in Seq(Nat)
      /\ Len(s) \in Nat /\ Len(t) \in Nat /\ Len(u) = Len(s) + Len(t)
  BY DEF Growing
<1>2. ASSUME NEW i \in 1..Len(u)
      PROVE  \/ i \in 1..Len(s) /\ u[i] = s[i] /\ lo <= u[i] /\ u[i] <= m
             \/ /\ i - Len(s) \in 1..Len(t) /\ u[i] = t[i - Len(s)]
                /\ m + 1 <= u[i] /\ u[i] <= hi
  <2>1. CASE i <= Len(s)
    <3>1. i \in 1..Len(s) /\ u[i] = s[i]
      BY <1>1, <2>1
    <3> QED BY <3>1 DEF Growing
  <2>2. CASE ~(i <= Len(s))
    <3>1. i - Len(s) \in 1..Len(t) /\ u[i] = t[i - Len(s)]
      BY <1>1, <2>2
    <3> QED BY <3>1 DEF Growing
  <2> QED BY <2>1, <2>2
<1>3. \A i \in 1..Len(u) : u[i] \in Nat
  BY <1>1
<1> HIDE DEF u
<1>4. ASSUME NEW i \in 1..Len(u) PROVE lo <= u[i] /\ u[i] <= hi
  BY <1>2, <1>3
<1>5. ASSUME NEW i \in 1..Len(u), NEW j \in 1..Len(u), i < j
      PROVE  u[i] < u[j]
  <2>1. CASE j \in 1..Len(s) /\ u[j] = s[j]
    <3>1. i \in 1..Len(s)
      BY <1>1, <1>5, <2>1
    <3>2. u[i] = s[i]
      BY <1>1, <3>1 DEF u
    <3> QED BY <1>5, <2>1, <3>1, <3>2 DEF Growing
  <2>2. CASE /\ j - Len(s) \in 1..Len(t) /\ u[j] = t[j - Len(s)]
             /\ m + 1 <= u[j]
    <3>1. CASE i \in 1..Len(s) /\ u[i] <= m
      BY <1>3, <2>2, <3>1
    <3>2. CASE i - Len(s) \in 1..Len(t) /\ u[i] = t[i - Len(s)]
      <4>1. i - Len(s) < j - Len(s)
        BY <1>1, <1>5
      <4> QED BY <2>2, <3>2, <4>1 DEF Growing
    <3> QED BY <1>2, <3>1, <3>2
  <2> QED BY <1>2, <2>1, <2>2
<1> QED BY <1>1, <1>4, <1>5 DEF Growing, u

LEMMA IdsOf ==
    ASSUME NEW s \in Seq(QueuedPackets)
    PROVE  /\ Ids(s) \in Seq(Nat) /\ Len(Ids(s)) = Len(s)
           /\ \A i \in 1..Len(s) : Ids(s)[i] = s[i].id
<1>1. \A i \in 1..Len(s) : s[i].id \in Nat
  <2>1. \A i \in 1..Len(s) : s[i] \in QueuedPackets
    OBVIOUS
  <2> QED BY <2>1 DEF QueuedPackets
<1>2. Len(s) \in Nat
  OBVIOUS
<1> QED BY <1>1, <1>2 DEF Ids

LEMMA IdsOfJoin ==
    ASSUME NEW s \in Seq(QueuedPackets), NEW t \in Seq(QueuedPackets)
    PROVE  Ids(s \o t) = Ids(s) \o Ids(t)
<1> DEFINE u == s \o t
           a == Ids(u)
           b == Ids(s) \o Ids(t)
<1>1. /\ u \in Seq(QueuedPackets) /\ Len(u) = Len(s) + Len(t)
      /\ Len(s) \in Nat /\ Len(t) \in Nat
  OBVIOUS
<1>2. /\ Ids(s) \in Seq(Nat) /\ Ids(t) \in Seq(Nat)
      /\ Len(Ids(s)) = Len(s) /\ Len(Ids(t)) = Len(t)
      /\ \A i \in 1..Len(s) : Ids(s)[i] = s[i].id
      /\ \A i \in 1..Len(t) : Ids(t)[i] = t[i].id
  BY IdsOf
<1>3. /\ a \in Seq(Nat) /\ Len(a) = Len(u)
      /\ \A i \in 1..Len(u) : a[i] = u[i].id
  BY <1>1, IdsOf
<1>4. b \in Seq(Nat) /\ Len(b) = Len(u)
  <2>1. b \in Seq(Nat) /\ Len(b) = Len(Ids(s)) + Len(Ids(t))
    BY <1>2, PartsOfJoin, Zenon
  <2> QED BY <1>1, <1>2, <2>1
<1>5. ASSUME NEW i \in 1..Len(u) PROVE a[i] = b[i]
  <2>1. CASE i <= Len(s)
    <3>1. i \in 1..Len(s) /\ u[i] = s[i]
      BY <1>1, <2>1
    <3>2. b[i] = Ids(s)[i]
      BY <1>1, <1>2, <3>1
    <3> QED BY <1>2, <1>3, <3>1, <3>2
  <2>2. CASE ~(i <= Len(s))
    <3>1. i - Len(s) \in 1..Len(t) /\ u[i] = t[i - Len(s)]
      BY <1>1, <2>2
    <3>2. b[i] = Ids(t)[i - Len(s)]
      BY <1>1, <1>2, <2>2, <3>1
    <3> QED BY <1>2, <1>3, <3>1, <3>2
  <2> QED BY <2>1, <2>2
<1> HIDE DEF a, b, u
<1>6. a = b
  BY <1>1, <1>3, <1>4, <1>5, SeqEqual
<1> QED BY <1>6 DEF a, b, u

\* Sequences may be put together from either end.
LEMMA Regroup ==
    ASSUME NEW s \in Seq(Nat), NEW t \in Seq(Nat), NEW u \in Seq(Nat)
    PROVE  s \o (t \o u) = (s \o t) \o u
<1>1. s \in Seq(Nat) /\ t \in Seq(Nat) /\ u \in Seq(Nat)
  OBVIOUS
<1> QED
  BY ONLY <1>1, ConcatAssociative, SMTT(60)

Delays == [i \in 1..Len(delay_queue) |-> delay_queue[i].packet.id]
LinkLine == written \o output_queue \o InTransit \o packet_queue

\* The line of EndToEndOrder is that of the link, then what is on its way to
\* the link, then the delay queue.
LEMMA LineParts ==
    ASSUME IInv, Handing \in Seq(Nat), Delays \in Seq(Nat)
    PROVE  /\ LinkLine \in Seq(QueuedPackets)
           /\ Ids(written) \o Held = (Ids(LinkLine) \o Handing) \o Delays
<1> DEFINE w == Ids(written)
           o == Ids(output_queue)
           t == Ids(InTransit)
           q == Ids(packet_queue)
           h == Handing
           d == Delays
<1>1. /\ written \in Seq(QueuedPackets) /\ output_queue \in Seq(QueuedPackets)
      /\ InTransit \in Seq(QueuedPackets) /\ packet_queue \in Seq(QueuedPackets)
      /\ packet_in_transit \in QueuedPackets
  BY HeldTypes DEF InTransit, IInv, TypeOK
<1>2. /\ w \in Seq(Nat) /\ o \in Seq(Nat) /\ t \in Seq(Nat) /\ q \in Seq(Nat)
      /\ h \in Seq(Nat) /\ d \in Seq(Nat)
  BY <1>1, IdsOf
<1>3. Held = (((o \o t) \o q) \o h) \o d
  BY DEF Held, Delays
<1>4. /\ written \o output_queue \in Seq(QueuedPackets)
      /\ (written \o output_queue) \o InTransit \in Seq(QueuedPackets)
      /\ LinkLine \in Seq(QueuedPackets)
  <2>1. written \o output_queue \in Seq(QueuedPackets)
    BY <1>1
  <2>2. (written \o output_queue) \o InTransit \in Seq(QueuedPackets)
    BY <1>1, <2>1, PartsOfJoin
  <2> QED BY <1>1, <2>1, <2>2, PartsOfJoin DEF LinkLine
<1>5. Ids(LinkLine) = ((w \o o) \o t) \o q
  <2>1. Ids(written \o output_queue) = w \o o
    BY <1>1, IdsOfJoin
  <2>2. Ids((written \o output_queue) \o InTransit) = (w \o o) \o t
    <3> DEFINE sent == written \o output_queue
    <3>1. sent \in Seq(QueuedPackets) /\ Ids(sent) = w \o o
      BY <1>4, <2>1
    <3> HIDE DEF sent
    <3>2. Ids(sent \o InTransit) = Ids(sent) \o t
      BY <1>1, <3>1, IdsOfJoin
    <3> QED BY <3>1, <3>2 DEF sent
  <2> QED BY <1>1, <1>4, <2>2, IdsOfJoin DEF LinkLine
<1> HIDE DEF w, o, t, q, h, d
<1> DEFINE x == o \o t
           y == x \o q
           z == y \o h
<1>6. x \in Seq(Nat) /\ y \in Seq(Nat) /\ z \in Seq(Nat)
  BY <1>2, PartsOfJoin
<1> HIDE DEF x, y, z
<1>7. w \o (z \o d) = (w \o z) \o d
  <2>1. w \in Seq(Nat) /\ z \in Seq(Nat) /\ d \in Seq(Nat)
    BY <1>2, <1>6
  <2> QED BY ONLY <2>1, Regroup, Zenon
<1>8. w \o (y \o h) = (w \o y) \o h
  <2>1. w \in Seq(Nat) /\ y \in Seq(Nat) /\ h \in Seq(Nat)
    BY <1>2, <1>6
  <2> QED BY ONLY <2>1, Regroup, Zenon
<1>9. w \o (x \o q) = (w \o x) \o q
  <2>1. w \in Seq(Nat) /\ x \in Seq(Nat) /\ q \in Seq(Nat)
    BY <1>2, <1>6
  <2> QED BY ONLY <2>1, Regroup, Zenon
<1>10. w \o (o \o t) = (w \o o) \o t
  BY ONLY <1>2, Regroup, Zenon
<1>11. w \o Held = ((((w \o o) \o t) \o q) \o h) \o d
  BY <1>3, <1>7, <1>8, <1>9, <1>10 DEF x, y, z
<1> QED BY <1>4, <1>5, <1>11 DEF w, h, d

\* What the link holds is older than what is on its way to the link.
LEMMA LinkLineGrowing ==
    ASSUME IInv, InOrder, NEW m \in Nat, LinkLine \in Seq(QueuedPackets),
           Fresh(m + 1)
    PROVE  Growing(Ids(LinkLine), 0, m)
<1> DEFINE line == LinkLine
           s == Ids(line)
<1>1. /\ s \in Seq(Nat) /\ Len(s) = Len(line)
      /\ \A i \in 1..Len(line) : s[i] = line[i].id
  BY IdsOf
<1>2. \A i, j \in 1..Len(line) : i < j => line[i].id < line[j].id
  BY DEF InOrder, LinkLine
<1>3. /\ Sent \in Seq(QueuedPackets) /\ packet_queue \in Seq(QueuedPackets)
      /\ InTransit \in Seq(QueuedPackets)
      /\ Sent \o InTransit \in Seq(QueuedPackets)
      /\ line = (Sent \o InTransit) \o packet_queue
  <2>1. /\ Sent \in Seq(QueuedPackets) /\ packet_queue \in Seq(QueuedPackets)
        /\ InTransit \in Seq(QueuedPackets)
    BY HeldTypes DEF InTransit
  <2> QED BY <2>1, PartsOfJoin DEF LinkLine, Sent
<1>4. ASSUME NEW i \in 1..Len(line) PROVE line[i].id < m + 1
  <2> DEFINE first == Sent \o InTransit
             p == line[i]
  <2>1. \/ \E k \in 1..Len(first) : p = first[k]
        \/ \E j \in 1..Len(packet_queue) : p = packet_queue[j]
    <3>1. /\ first \in Seq(QueuedPackets)
          /\ packet_queue \in Seq(QueuedPackets)
          /\ i \in 1..Len(first \o packet_queue)
          /\ p = (first \o packet_queue)[i]
      BY <1>3
    <3> HIDE DEF first, p, line
    <3> QED BY ONLY <3>1, PartsOfJoin
  <2>2. \A k \in 1..Len(first) :
            \/ \E j \in 1..Len(Sent) : first[k] = Sent[j]
            \/ \E j \in 1..Len(InTransit) : first[k] = InTransit[j]
    BY <1>3, PartsOfJoin
  <2>3. \/ \E j \in 1..Len(Sent) : p = Sent[j]
        \/ \E j \in 1..Len(InTransit) : p = InTransit[j]
        \/ \E j \in 1..Len(packet_queue) : p = packet_queue[j]
    BY <2>1, <2>2
  <2>4. (\E j \in 1..Len(InTransit) : p = InTransit[j])
            => packet_in_transit_bytes_left > 0 /\ p = packet_in_transit
    BY DEF InTransit
  <2> HIDE DEF p
  <2>5. p.id < m + 1
    BY <2>3, <2>4 DEF Fresh, Before
  <2> QED BY <2>5 DEF p
<1> HIDE DEF s, line
<1>5. \A i \in 1..Len(s) : 0 <= s[i] /\ s[i] <= m
  <2>1. \A i \in 1..Len(s) : s[i] \in Nat /\ s[i] < m + 1
    BY <1>1, <1>4
  <2> QED BY <2>1
<1> QED BY <1>1, <1>2, <1>5 DEF Growing, s, line

\* The delay queue holds the newest packets.
LEMMA DelaysGrowing ==
    ASSUME IInv, CallerInv
    PROVE  /\ Handed \in Nat /\ ferry.reads \in Nat /\ Handed <= ferry.reads
           /\ Growing(Delays, Handed + 1, ferry.reads)
<1>1. delay_queue \in Seq(Delayed) /\ ferry \in Ferries
      /\ history.arrived \in Nat
  BY DEF CallerInv, Types, IInv, TypeOK
<1>2. Handed \in Nat /\ Len(delay_queue) \in Nat /\ ferry.reads \in Nat
  BY <1>1 DEF Handed, Ferries
<1>3. \/ Handed + Len(delay_queue) = ferry.reads
      \/ delay_queue = <<>> /\ Handed + 1 = ferry.reads
  BY DEF CallerInv, Numbered
<1>4. \A i \in 1..Len(delay_queue) : delay_queue[i].packet.id = Handed + i
  BY DEF CallerInv, Numbered
<1>5. Delays = [i \in 1..Len(delay_queue) |-> Handed + i]
  BY <1>4 DEF Delays
<1>6. Handed <= ferry.reads
  BY <1>2, <1>3
<1>7. Delays \in Seq(Nat) /\ Len(Delays) = Len(delay_queue)
      /\ \A i \in 1..Len(delay_queue) : Delays[i] = Handed + i
  BY <1>2, <1>5
<1>8. \A i \in 1..Len(delay_queue) : Handed + i <= ferry.reads
  <2>1. delay_queue = <<>> => Len(delay_queue) = 0
    OBVIOUS
  <2> QED BY <1>2, <1>3, <2>1
<1>9. Growing(Delays, Handed + 1, ferry.reads)
  BY <1>2, <1>7, <1>8 DEF Growing
<1> QED BY <1>2, <1>6, <1>9

LEMMA OrderImpliesEndToEnd ==
    IInv /\ CallerInv /\ OrderInv /\ InOrder /\ ReleaseInv => EndToEndOrder
<1> SUFFICES ASSUME IInv, CallerInv, OrderInv, InOrder, ReleaseInv
             PROVE  EndToEndOrder
  OBVIOUS
<1>1. history.arrived \in Nat
  BY HeldTypes
<1>2. Growing(Delays, Handed + 1, ferry.reads) /\ Handed \in Nat
      /\ ferry.reads \in Nat /\ Handed <= ferry.reads
  BY DelaysGrowing
<1>3. \E m \in Nat : /\ m <= Handed /\ Fresh(m + 1)
                     /\ Growing(Handing, m + 1, Handed)
  <2>1. CASE ferry.pc = "hand"
    <3>1. Handing = <<history.arrived + 1>> /\ Handed = history.arrived + 1
      BY <2>1 DEF Handing, Handed, CallerInv, Numbered
    <3>2. Growing(<<history.arrived + 1>>, history.arrived + 1,
                  history.arrived + 1)
      BY <1>1 DEF Growing
    <3>3. Fresh(history.arrived + 1)
      BY DEF OrderInv
    <3> QED BY <1>1, <3>1, <3>2, <3>3
  <2>2. CASE ferry.pc # "hand" /\ call.op = "read_packet"
    <3>1. Reading
      BY <2>2 DEF CallerInv, Control, Reading, InCall
    <3>2. call.packet.id = history.arrived /\ Fresh(call.packet.id)
      BY <3>1 DEF OrderInv, NewestRead
    <3>3. Handing = <<history.arrived>> /\ Handed = history.arrived
      BY <1>1, <2>2, <3>2 DEF Handing, Handed
    <3>4. PICK m \in Nat : m + 1 = history.arrived
      <4>1. history.arrived >= 1
        BY <3>1, <3>2 DEF ReleaseInv, ReadingElapsed, Elapsed
      <4>2. history.arrived - 1 \in Nat
            /\ (history.arrived - 1) + 1 = history.arrived
        BY <1>1, <4>1
      <4> QED BY <4>2
    <3>5. Growing(<<history.arrived>>, history.arrived, history.arrived)
      BY <1>1 DEF Growing
    <3> QED BY <1>1, <3>2, <3>3, <3>4, <3>5
  <2>3. CASE ferry.pc # "hand" /\ call.op # "read_packet"
    <3>1. Handing = <<>> /\ Handed = history.arrived
      BY <1>1, <2>3 DEF Handing, Handed
    <3>2. Growing(<<>>, history.arrived + 1, history.arrived)
      BY DEF Growing
    <3>3. Fresh(history.arrived + 1)
      BY DEF OrderInv
    <3> QED BY <1>1, <3>1, <3>2, <3>3
  <2> QED BY <2>1, <2>2, <2>3
<1>4. PICK m \in Nat : m <= Handed /\ Fresh(m + 1)
                          /\ Growing(Handing, m + 1, Handed)
  BY <1>3
<1>5. Handing \in Seq(Nat) /\ Delays \in Seq(Nat)
  BY <1>2, <1>4 DEF Growing
<1>6. LinkLine \in Seq(QueuedPackets)
      /\ Ids(written) \o Held = (Ids(LinkLine) \o Handing) \o Delays
  BY <1>5, LineParts
<1>7. Growing(Ids(LinkLine), 0, m)
  BY <1>4, <1>6, LinkLineGrowing
<1>8. Growing(Ids(LinkLine) \o Handing, 0, Handed)
  BY <1>2, <1>4, <1>7, JoinGrowing
<1>9. Growing((Ids(LinkLine) \o Handing) \o Delays, 0, ferry.reads)
  BY <1>2, <1>8, JoinGrowing
<1> QED BY <1>6, <1>9 DEF Growing, EndToEndOrder

\* From the tun device to the sibling a ferry never reorders, duplicates or
\* invents a packet, through the delay queue, the call in progress, the packet
\* queue, the transit slot and the output queue.
THEOREM KeepsOrder == FerrySpec => []EndToEndOrder
  BY CallerInvariance, DrivesLink, OrderInvariance, ArrivalOrder,
     ReleaseInvariance, OrderImpliesEndToEnd, PTL
=============================================================================
