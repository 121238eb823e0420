-------------------------- MODULE FerryPair_proofs --------------------------
(***************************************************************************)
(* When the two ferries of a link cannot wait for each other, for every    *)
(* capacity of the socketpair and every window of the traffic.             *)
(***************************************************************************)
EXTENDS FerryPair, TLAPS

\* The counts are natural numbers; the guard of the traffic and the kernel's
\* limit on a direction of the socketpair, which the steps of the ferries keep.
Counts ==
    /\ pc \in [Ferries -> {"wait", "poll", "move", "write"}]
    /\ tun \in [Ferries -> Nat]
    /\ queued \in [Ferries -> Nat]
    /\ ready \in [Ferries -> Nat]
    /\ pipe \in [Ferries -> 0..Capacity]
    /\ \A f \in Ferries : tun[f] + queued[f] + ready[f] <= Window

\* rationalize moves packets inside a ferry: the sums do not change.
LEMMA MakeReadyKeeps ==
    ASSUME Counts, InFlightBounded, NEW f \in Ferries, MakeReady(f),
           tun' = tun, pipe' = pipe,
           pc' \in [Ferries -> {"wait", "poll", "move", "write"}]
    PROVE  Counts' /\ InFlightBounded'
<1>1. PICK n \in 0..MaxBurst :
          /\ n <= queued[f]
          /\ queued' = [queued EXCEPT ![f] = @ - n]
          /\ ready' = [ready EXCEPT ![f] = @ + n]
  BY DEF MakeReady
<1> QED
  BY <1>1, PairAssumption DEF Counts, InFlightBounded, InFlight, Ferries

\* What a step of ferry f or of its senders does to the counts.
LEMMA StepKeepsInvariant ==
    ASSUME Counts, InFlightBounded, NEW f \in Ferries,
           FerryStep(f) \/ Arrive(f)
    PROVE  Counts' /\ InFlightBounded'
<1> USE PairAssumption DEF Counts, InFlightBounded, InFlight, Ferries, Peer
<1>1. CASE WaitTime(f)
  BY <1>1, MakeReadyKeeps DEF WaitTime
<1>2. CASE Poll(f)
  \* Either the pipe of f is empty and the sum is bounded by the two windows and
  \* the other direction, or f takes a datagram for the packet it reads.
  <2>1. CASE pipe[f] > 0 /\ tun[f] > 0
    BY <1>2, <2>1 DEF Poll, ReadTun, ReadSibling, AtMostOne
  <2>2. CASE pipe[f] > 0 /\ tun[f] = 0
    BY <1>2, <2>2 DEF Poll, ReadTun, ReadSibling, AtMostOne
  <2>3. CASE pipe[f] = 0 /\ tun[f] > 0
    BY <1>2, <2>3 DEF Poll, ReadTun, ReadSibling, AtMostOne
  <2>4. CASE pipe[f] = 0 /\ tun[f] = 0
    BY <1>2, <2>4 DEF Poll, ReadTun, ReadSibling, AtMostOne
  <2> QED BY <2>1, <2>2, <2>3, <2>4
<1>3. CASE Move(f)
  BY <1>3, MakeReadyKeeps DEF Move
<1>4. CASE Write(f)
  BY <1>4 DEF Write
<1>5. CASE EndWrite(f)
  BY <1>5 DEF EndWrite
<1>6. CASE Arrive(f)
  BY <1>6 DEF Arrive
<1> QED
  BY <1>1, <1>2, <1>3, <1>4, <1>5, <1>6 DEF FerryStep

\* The counts keep their ranges however the loops and the senders interleave.
LEMMA PairInvariant == Spec => [](Counts /\ InFlightBounded)
<1>1. Init => Counts /\ InFlightBounded
  BY PairAssumption DEF Init, Counts, InFlightBounded, InFlight, Ferries
<1>2. Counts /\ InFlightBounded /\ [Next]_vars => (Counts /\ InFlightBounded)'
  <2> SUFFICES ASSUME Counts, InFlightBounded, [Next]_vars
               PROVE  (Counts /\ InFlightBounded)'
    OBVIOUS
  <2>1. CASE Next
    BY <2>1, StepKeepsInvariant DEF Next
  <2>2. CASE UNCHANGED vars
    BY <2>2 DEF vars, Counts, InFlightBounded, InFlight
  <2> QED BY <2>1, <2>2
<1> QED
  BY <1>1, <1>2, PTL DEF Spec

\* At most Capacity + 2 * Window packets are between the two tun devices: a
\* ferry reads a packet for each datagram it relays, unless its pipe is empty.
THEOREM BoundedInFlight == Spec => []InFlightBounded
  BY PairInvariant, PTL

\* The two ferries never wait for each other in write_packets when twice the
\* window exceeds the capacity of a direction by at most one.  Two blocked
\* ferries would mean both directions full and a packet in each ferry.
THEOREM NoMutualWait ==
    ASSUME 2 * Window <= Capacity + 1
    PROVE  Spec => []NeverWedged
<1>1. Counts /\ InFlightBounded => NeverWedged
  BY PairAssumption DEF Counts, InFlightBounded, InFlight, NeverWedged,
                        Blocked, Ferries, Peer
<1> QED
  BY <1>1, PairInvariant, PTL
=============================================================================
