--------------------------- MODULE MCSword3Input ---------------------------
(* Two scancodes, two controllers with one button and one axis each: every *)
(* way two controls and the keyboard can share a key.                      *)
EXTENDS Sword3Input, TLC
CONSTANTS c1, c2
MCButton   == [b \in Buttons |-> 1]
MCNegative == [a \in Axes |-> 1]
MCPositive == [a \in Axes |-> 2]
Symmetry   == Permutations(Controllers)
=============================================================================
