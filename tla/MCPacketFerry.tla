--------------------------- MODULE MCPacketFerry ---------------------------
(* Small traces for PacketFerry, in milliseconds. *)
EXTENDS PacketFerry

Sparse == <<2>>
Burst == <<1, 1, 3>>
=============================================================================
