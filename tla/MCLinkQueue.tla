---------------------------- MODULE MCLinkQueue ----------------------------
(* Small traces for LinkQueue, in milliseconds. *)
EXTENDS LinkQueue

\* Two opportunities in the same millisecond, one at the end: with repetition
\* the last one of a round and the first one of the next lie 1 ms apart.
Burst == <<1, 1, 3>>

\* An opportunity at offset 0: on wraparound two fall on the same millisecond.
ZeroStart == <<0, 2>>
=============================================================================
