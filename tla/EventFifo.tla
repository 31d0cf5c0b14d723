----------------------------- MODULE EventFifo -----------------------------
(***************************************************************************)
(* What Sword3Input expects of its event queue: events leave in the order  *)
(* they entered, none is lost, duplicated or overwritten, and room that    *)
(* was reserved is there when the events come.                             *)
(***************************************************************************)
EXTENDS Naturals, Sequences

CONSTANT Events

VARIABLES
    items, \* the events that wait, oldest first
    room   \* how many more events may be put without reserving again

fifo == <<items, room>>

FifoInit == items = <<>> /\ room = 0

\* A successful reservation leaves the events alone and does not shrink room.
FifoReserve ==
    /\ room' \in Nat /\ room' >= room
    /\ UNCHANGED items

FifoPut ==
    /\ room > 0
    /\ \E e \in Events : items' = Append(items, e)
    /\ room' = room - 1

FifoTake ==
    /\ items # <<>>
    /\ items' = Tail(items)
    /\ room' = room + 1

FifoNext == FifoReserve \/ FifoPut \/ FifoTake

FifoSpec == FifoInit /\ [][FifoNext]_fifo
=============================================================================
