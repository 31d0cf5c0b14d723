------------------------------ MODULE MCBridge ------------------------------
(***************************************************************************)
(* The routing is checked for players that use the controls of one of the  *)
(* sets below, on every screen: the two sources of a direction against     *)
(* each other and against B, A against B and X, the buttons of the quit    *)
(* combination with the cheat overlay, the cursor's modifier.              *)
(*                                                                         *)
(* All eight hooks come over every mixture of expected and unexpected      *)
(* guest code; fights compute levels up to three times; the generation     *)
(* counter wraps around after three changes; the ring starts with one slot *)
(* and grows three times, so growth meets every head position; the shop    *)
(* has more items than fit its view.                                       *)
(***************************************************************************)
EXTENDS Bridge
CONSTANTS press, release

MCPlayers ==
    { {"dpad", "stick", "up", "B"}, {"dpad", "stick", "right", "B"}, {"dpad", "up", "down"},
      {"stick", "up", "down"}, {"A", "B"}, {"A", "X"}, {"BACK", "START", "Y"},
      {"R1", "START"}, {"R1", "dpad", "up"} }
\* The guest draws, or loads pictures; two threads of it.
MCPrograms == { {"window", "renderer", "texture"}, {"surface", "rwops"} }
=============================================================================
