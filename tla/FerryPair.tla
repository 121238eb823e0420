----------------------------- MODULE FerryPair -----------------------------
(***************************************************************************)
(* The two ferries of one emulated link, uplink and downlink, and the      *)
(* socketpair between them (make_pipe.hh, packetshell.cc).  Each ferry     *)
(* runs the loop of ferry.cc; its RateDelayQueue is reduced to how many    *)
(* packets it holds and how many of them are ready to be written: nothing  *)
(* bounds either.  The socketpair holds a bounded number of datagrams in   *)
(* each direction, and writeall (ezio.cc) blocks while the direction it    *)
(* writes to is full.  What bounds the packets is the traffic: the senders *)
(* behind one tun device stop when Window packets are still on their way   *)
(* through its ferry.                                                      *)
(***************************************************************************)
EXTENDS Naturals

CONSTANTS Capacity,     \* datagrams the kernel buffers in one direction
          Window,       \* packets of its senders that one ferry has not relayed
          MaxBurst      \* most packets that one rationalize makes ready

ASSUME PairAssumption == {Capacity, Window, MaxBurst} \subseteq Nat \ {0}

Ferries == {"uplink", "downlink"}
Peer(f) == IF f = "uplink" THEN "downlink" ELSE "uplink"

VARIABLES
    pc,      \* where each ferry's loop is: "wait", "poll", "move" or "write"
    tun,     \* packets that wait to be read from its tun device
    queued,  \* packets in its delay queue and packet queue
    ready,   \* packets in its output queue
    pipe     \* datagrams that wait for it in the socketpair

vars == <<pc, tun, queued, ready, pipe>>

Init ==
    /\ pc = [f \in Ferries |-> "wait"]
    /\ tun = [f \in Ferries |-> 0]
    /\ queued = [f \in Ferries |-> 0]
    /\ ready = [f \in Ferries |-> 0]
    /\ pipe = [f \in Ferries |-> 0]

\* A sender gives a packet to the tun device of ferry f.
Arrive(f) ==
    /\ tun[f] + queued[f] + ready[f] < Window
    /\ tun' = [tun EXCEPT ![f] = @ + 1]
    /\ UNCHANGED <<pc, queued, ready, pipe>>

\* rationalize uses the opportunities that have passed: n packets are ready.
MakeReady(f) ==
    \E n \in 0..MaxBurst :
        /\ n <= queued[f]
        /\ queued' = [queued EXCEPT ![f] = @ - n]
        /\ ready' = [ready EXCEPT ![f] = @ + n]

\* ferry.wait_time(), which rationalizes
WaitTime(f) ==
    /\ pc[f] = "wait"
    /\ MakeReady(f)
    /\ pc' = [pc EXCEPT ![f] = "poll"]
    /\ UNCHANGED <<tun, pipe>>

\* ferry.read_packet for n packets of the tun device, which takes them whatever
\* the queues hold
ReadTun(f, n) ==
    /\ tun' = [tun EXCEPT ![f] = @ - n]
    /\ queued' = [queued EXCEPT ![f] = @ + n]

\* n datagrams of the sibling are written to the tun device
ReadSibling(f, n) == pipe' = [pipe EXCEPT ![f] = @ - n]

\* One unit of input where there is any
AtMostOne(n) == IF n > 0 THEN 1 ELSE 0

\* Mutant of Poll: the loop over the descriptors stops after the first callback.
PollFirstOnly(f) ==
    /\ pc[f] = "poll"
    /\ ReadTun(f, AtMostOne(tun[f]))
    /\ ReadSibling(f, IF tun[f] > 0 THEN 0 ELSE AtMostOne(pipe[f]))
    /\ pc' = [pc EXCEPT ![f] = "move"]
    /\ UNCHANGED ready

\* Mutant of Poll: the tun device is read until it has nothing left.
PollUnlimited(f) ==
    /\ pc[f] = "poll"
    /\ ReadTun(f, tun[f])
    /\ ReadSibling(f, AtMostOne(pipe[f]))
    /\ pc' = [pc EXCEPT ![f] = "move"]
    /\ UNCHANGED ready

\* poll() returns, by its timeout or because a descriptor is ready, and runs
\* each callback at most once: one datagram is read from the tun device if one
\* is there, one from the sibling if one is there.
Poll(f) ==
    /\ pc[f] = "poll"
    /\ ReadTun(f, AtMostOne(tun[f]))
    /\ ReadSibling(f, AtMostOne(pipe[f]))
    /\ pc' = [pc EXCEPT ![f] = "move"]
    /\ UNCHANGED ready

\* write_packets hands the packets whose delay is over to the link, which
\* rationalizes before it takes them
Move(f) ==
    /\ pc[f] = "move"
    /\ MakeReady(f)
    /\ pc' = [pc EXCEPT ![f] = "write"]
    /\ UNCHANGED <<tun, pipe>>

\* write_packets: one blocking write of the sibling descriptor
Write(f) ==
    /\ pc[f] = "write"
    /\ ready[f] > 0
    /\ pipe[Peer(f)] < Capacity
    /\ ready' = [ready EXCEPT ![f] = @ - 1]
    /\ pipe' = [pipe EXCEPT ![Peer(f)] = @ + 1]
    /\ UNCHANGED <<pc, tun, queued>>

\* the output queue is empty: back to the top of the loop
EndWrite(f) ==
    /\ pc[f] = "write"
    /\ ready[f] = 0
    /\ pc' = [pc EXCEPT ![f] = "wait"]
    /\ UNCHANGED <<tun, queued, ready, pipe>>

FerryStep(f) == WaitTime(f) \/ Poll(f) \/ Move(f) \/ Write(f) \/ EndWrite(f)

Next == \E f \in Ferries : FerryStep(f) \/ Arrive(f)

\* Both processes are scheduled as long as they can run; nothing has to arrive.
Fairness == \A f \in Ferries : WF_vars(FerryStep(f))

Spec == Init /\ [][Next]_vars /\ Fairness
-----------------------------------------------------------------------------
\* A ferry that is in write_packets and cannot go on.
Blocked(f) == pc[f] = "write" /\ ready[f] > 0 /\ pipe[Peer(f)] = Capacity

\* The two ferries never wait for each other: with both directions full and
\* both inside write_packets neither would ever read again.  It depends on the
\* traffic, that is on Window: see InFlightBounded and FerryPair_proofs.
NeverWedged == ~\A f \in Ferries : Blocked(f)

\* The argument for NeverWedged: only a ferry that finds its pipe empty adds to
\* the packets and datagrams between the two tun devices.
InFlight == queued["uplink"] + ready["uplink"] + pipe["uplink"]
               + queued["downlink"] + ready["downlink"] + pipe["downlink"]

\* The packets between the two tun devices never exceed a full direction of the
\* socketpair and the windows of both sides, although each ferry reads its tun
\* device without looking at what it holds or at its sibling.
InFlightBounded == InFlight <= Capacity + 2 * Window

\* "we get datagram from sibling process -> write it to tun device"
\* (ferry.cc:47): a socketpair direction that is full is eventually read from.
FullPipeIsRead ==
    \A f \in Ferries : pipe[f] = Capacity ~> pipe[f] < Capacity
=============================================================================
