--------------------------- MODULE MCPacketQueues ---------------------------
(* Small instances of PacketQueues: packets of different sizes and a         *)
(* configuration for each discipline and each combination of limits.         *)
EXTENDS PacketQueues

MCPackets == [id : {1}, size : {1, 3}, arrival_time : 0..MaxTime]
MCNothing == [id |-> 0, size |-> 0]

Config(type, packets, bytes) ==
    [type |-> type, packets |-> packets, bytes |-> bytes]

Codel == [type |-> "codel", packets |-> 4, bytes |-> 0,
          target |-> 1, interval |-> 1]
Pie == [type |-> "pie", packets |-> 4, bytes |-> 0,
        qdelay_ref |-> 4, max_burst |-> 2]

AllParams ==
    {Config("infinite", 0, 0), Codel, Pie}
        \cup {Config(type, limits[1], limits[2]) :
                 type \in {"droptail", "drophead"},
                 limits \in {<<4, 0>>, <<0, 6>>, <<4, 6>>}}

\* Drophead as a limit on bytes.
HeadBytes == {Config("drophead", 0, 4)}
=============================================================================
