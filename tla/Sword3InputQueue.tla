-------------------------- MODULE Sword3InputQueue --------------------------
(***************************************************************************)
(* The growing ring buffer of src/ports/sword3/input.c: reserve_queue,     *)
(* enqueue_reserved and sword3_input_poll.  Growth unrolls the ring into a *)
(* larger array, so it may happen at any position of the head.             *)
(***************************************************************************)
EXTENDS Naturals, Integers, Sequences

CONSTANTS
    Events,
    Garbage,         \* what malloc left in a slot nothing was written to
    InitialCapacity, \* slots of the first allocation (32)
    MaxReserve,      \* the most events one call reserves room for
    MaxCapacity      \* bound: allocations beyond it are not explored

ASSUME RingAssumption ==
    /\ InitialCapacity \in Nat \ {0}
    /\ MaxReserve \in Nat
    /\ MaxCapacity \in Nat
    /\ Garbage \notin Events

VARIABLES
    slots, \* input->queue: the array, indexed 0..capacity-1
    capacity, head, count,
    owed   \* room reserved by the call in progress and not used yet

ring == <<slots, capacity, head, count, owed>>

\* (head + i) % capacity
Slot(i) == (head + i) % capacity

RingInit ==
    /\ slots = [i \in {} |-> Garbage]
    /\ capacity = 0 /\ head = 0 /\ count = 0
    /\ owed = 0

\* The capacity reserve_queue allocates: twice the old one (32 at first),
\* doubled again until the required events fit.
NewCapacities(required) ==
    LET base == IF capacity = 0 THEN InitialCapacity ELSE 2 * capacity
        enough(c) == c >= required /\ \E n \in 0..required : c = base * 2^n
    IN  {c \in required..(base + 2 * required) :
            enough(c) /\ \A d \in required..c : enough(d) => d = c}

\* Mutant: the ring is copied without being unrolled.
ReserveQueueCopiesFlat(n) ==
    /\ owed = 0
    /\ owed' = n
    /\ UNCHANGED count
    /\ IF count + n <= capacity
          THEN UNCHANGED <<slots, capacity, head>>
          ELSE \E c \in NewCapacities(count + n) :
                  /\ c <= MaxCapacity
                  /\ capacity' = c
                  /\ head' = 0
                  /\ slots' = [i \in 0..(c - 1) |->
                                 IF i < count THEN slots[i] ELSE Garbage]

\* reserve_queue(n): a failed malloc leaves everything as it was and the call
\* gives up, so only successful reservations are steps.
ReserveQueue(n) ==
    /\ owed = 0 \* callers use all they reserve before they return
    /\ owed' = n
    /\ UNCHANGED count
    /\ IF count + n <= capacity
          THEN UNCHANGED <<slots, capacity, head>>
          ELSE \E c \in NewCapacities(count + n) :
                  /\ c <= MaxCapacity
                  /\ capacity' = c
                  /\ head' = 0
                  /\ slots' = [i \in 0..(c - 1) |->
                                 IF i < count THEN slots[Slot(i)] ELSE Garbage]

EnqueueReserved(e) ==
    /\ owed > 0
    /\ slots' = [slots EXCEPT ![Slot(count)] = e]
    /\ count' = count + 1
    /\ owed' = owed - 1
    /\ UNCHANGED <<capacity, head>>

\* sword3_input_poll, possibly from the callback of enqueue_reserved.
PollEvent ==
    /\ count > 0
    /\ head' = (head + 1) % capacity
    /\ count' = count - 1
    /\ UNCHANGED <<slots, capacity, owed>>

RingNext ==
    \/ \E n \in 0..MaxReserve : ReserveQueue(n)
    \/ \E e \in Events : EnqueueReserved(e)
    \/ PollEvent

RingSpec == RingInit /\ [][RingNext]_ring
-----------------------------------------------------------------------------
RingTypeOK ==
    /\ capacity \in Nat
    /\ count \in 0..capacity
    /\ head \in 0..capacity /\ (capacity > 0 => head < capacity)
    /\ owed \in Nat
    /\ slots \in [0..(capacity - 1) -> Events \cup {Garbage}]

\* A reservation holds until the call that made it has used it: enqueue_reserved
\* never writes over an event that waits, even when the callback polls between.
ReservationHolds == count + owed <= capacity

\* The events that wait, read off the ring from the head.
Content == [i \in 1..count |-> slots[Slot(i - 1)]]

\* No slot that counts is an uninitialised one.
NoGarbage == \A i \in DOMAIN Content : Content[i] \in Events

\* The ring is a FIFO: growing it at any head position, wrapping around and
\* polling from the callback neither lose, reorder nor overwrite an event.
Fifo == INSTANCE EventFifo WITH items <- Content, room <- capacity - count
ImplementsFifo == Fifo!FifoSpec
=============================================================================
