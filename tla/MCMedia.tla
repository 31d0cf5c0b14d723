------------------------------ MODULE MCMedia ------------------------------
(* Every file of up to three packets of a video and another stream, with   *)
(* missing, early, late and out of order timestamps and two frame sizes;   *)
(* two effects and two pieces of music on two channels; movies of up to    *)
(* two frames, and a callback that plays inside a callback.                *)
EXTENDS Media
CONSTANTS MaxPackets, MaxPts, e1, e2, m1, m2, c1, c2
MCPackets == {Packet(FALSE, NoPts, 0)}
             \cup {Packet(TRUE, pts, 1) : pts \in 0..MaxPts \cup {NoPts}}
             \cup {Packet(TRUE, 1, 2)}
MCFiles == UNION {[1..n -> MCPackets] : n \in 0..MaxPackets}
MCVolumes == {-1, 2, 3}
=============================================================================
