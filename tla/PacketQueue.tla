---------------------------- MODULE PacketQueue ----------------------------
(***************************************************************************)
(* What LinkQueue relies on when it calls the two mutating operations of   *)
(* AbstractPacketQueue (abstract_packet_queue.hh).  Every discipline that  *)
(* get_packet_queue can build keeps packets in arrival order and loses     *)
(* packets in one of three ways only: it refuses the packet being added    *)
(* (droptail, CoDel, PIE), it throws away packets at the head to make room *)
(* (drophead), or it throws away the packets that follow the one it        *)
(* returns (CoDel).                                                        *)
(*                                                                         *)
(* A queue is a sequence of packets.  A packet is a record with at least   *)
(* an id (the model's name for its contents) and a size in bytes.          *)
(***************************************************************************)
EXTENDS Naturals, Sequences

\* The packets of s from position k on.
From(s, k) == SubSeq(s, k, Len(s))

\* enqueue( p ) leaves the queue as it was, or appends p and discards some
\* packets (possibly all of them) at the head.
EnqueueOutcomes(q, p) ==
    {q} \cup {From(Append(q, p), k) : k \in 1..(Len(q) + 2)}

\* dequeue() returns the head; a discipline that drops at dequeue time may
\* also discard packets that follow it.
DequeueOutcomes(q, dropsAtDequeue) ==
    {From(q, k) : k \in IF dropsAtDequeue THEN 2..(Len(q) + 1) ELSE {2}}

\* The bytes of the first k packets of s, for every k.
BytesUpTo(s) ==
    LET sum[k \in 0..Len(s)] == IF k = 0 THEN 0 ELSE sum[k - 1] + s[k].size
    IN  sum

\* The bytes of the packets of s.
BytesIn(s) == BytesUpTo(s)[Len(s)]
=============================================================================
