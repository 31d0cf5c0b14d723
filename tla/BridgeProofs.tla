---------------------------- MODULE BridgeProofs ----------------------------
(***************************************************************************)
(* Theorems about the parts of the SDL bridge, and about Bridge, which     *)
(* composes them, for every value of the constants.                        *)
(***************************************************************************)
EXTENDS Bridge, SequenceTheorems, FiniteSetTheorems, NaturalsInduction,
        WellFoundedInduction, TLAPS

-----------------------------------------------------------------------------
(* The queue of events: the ring buffer of input.c implements the FIFO,    *)
(* for every capacity, every set of events and any number of reserved      *)
(* slots.                                                                  *)

\* The inductive invariant: the shape of the ring, the room owed to the call
\* in progress, and that every slot that counts was written.
RingInv == RingTypeOK /\ ReservationHolds /\ NoGarbage

\* Wrapping an index of less than twice the capacity: the remainder that
\* reserve_queue, enqueue_reserved and poll compute.
LEMMA Wrap ==
    ASSUME NEW c \in Nat \ {0}, NEW x \in 0..(2 * c - 1)
    PROVE  x % c = IF x < c THEN x ELSE x - c
OBVIOUS

\* What Slot computes while the ring has a capacity, and that it stays inside
\* the array.
LEMMA SlotWraps ==
    ASSUME RingTypeOK, capacity > 0, NEW i \in 0..capacity
    PROVE  /\ Slot(i) = IF head + i < capacity THEN head + i
                                               ELSE head + i - capacity
           /\ Slot(i) \in 0..(capacity - 1)
<1>1. capacity \in Nat \ {0} /\ head \in 0..(capacity - 1)
  BY DEF RingTypeOK
<1>2. head + i \in 0..(2 * capacity - 1)
  BY <1>1
<1> QED BY <1>1, <1>2, Wrap DEF Slot

\* Two different offsets below the capacity are two different slots.
LEMMA SlotInjective ==
    ASSUME RingTypeOK, capacity > 0,
           NEW i \in 0..(capacity - 1), NEW j \in 0..(capacity - 1), i # j
    PROVE  Slot(i) # Slot(j)
<1>1. i \in 0..capacity /\ j \in 0..capacity /\ capacity \in Nat /\ head \in Nat
  BY DEF RingTypeOK
<1> QED BY <1>1, SlotWraps

\* Append and Tail as functions on their index sets.
LEMMA AppendIs ==
    ASSUME NEW S, NEW s \in Seq(S), NEW e \in S
    PROVE  /\ Append(s, e) \in Seq(S)
           /\ Append(s, e) = [i \in 1..(Len(s) + 1) |->
                                IF i = Len(s) + 1 THEN e ELSE s[i]]
<1> DEFINE t == [i \in 1..(Len(s) + 1) |-> IF i = Len(s) + 1 THEN e ELSE s[i]]
<1>1. Len(s) \in Nat /\ s \in [1..Len(s) -> S]
  BY LenProperties
<1>2. t \in [1..(Len(s) + 1) -> S]
  BY <1>1
<1>3. t \in Seq(S) /\ Len(t) = Len(s) + 1
  BY <1>1, <1>2
<1>4. /\ Append(s, e) \in Seq(S) /\ Len(Append(s, e)) = Len(s) + 1
      /\ \A i \in 1..Len(s) : Append(s, e)[i] = s[i]
      /\ Append(s, e)[Len(s) + 1] = e
  BY AppendProperties
<1>5. \A i \in 1..Len(t) : Append(s, e)[i] = t[i]
  BY <1>1, <1>3, <1>4
<1> HIDE DEF t
<1>6. Append(s, e) = t
  BY <1>3, <1>4, <1>5, SeqEqual
<1> QED BY <1>4, <1>6 DEF t

\* What Tail is, as a function.
LEMMA TailIs ==
    ASSUME NEW S, NEW s \in Seq(S), s # <<>>
    PROVE  /\ Tail(s) \in Seq(S)
           /\ Tail(s) = [i \in 1..(Len(s) - 1) |-> s[i + 1]]
<1> DEFINE t == [i \in 1..(Len(s) - 1) |-> s[i + 1]]
<1>1. Len(s) \in Nat \ {0} /\ s \in [1..Len(s) -> S]
  BY LenProperties, EmptySeq
<1>2. t \in [1..(Len(s) - 1) -> S]
  BY <1>1
<1>3. t \in Seq(S) /\ Len(t) = Len(s) - 1
  BY <1>1, <1>2
<1>4. /\ Tail(s) \in Seq(S) /\ Len(Tail(s)) = Len(s) - 1
      /\ \A i \in 1..Len(Tail(s)) : Tail(s)[i] = s[i + 1]
  BY HeadTailProperties
<1>5. \A i \in 1..Len(t) : Tail(s)[i] = t[i]
  BY <1>1, <1>3, <1>4
<1> HIDE DEF t
<1>6. Tail(s) = t
  BY <1>3, <1>4, <1>5, SeqEqual
<1> QED BY <1>4, <1>6 DEF t

\* The empty ring fulfils the invariant.
LEMMA InitInv == RingInit => RingInv
BY RingAssumption DEF RingInit, RingInv, RingTypeOK, ReservationHolds, NoGarbage, Content

\* A new capacity is a natural number large enough for what is required.
LEMMA NewCapacityFits ==
    ASSUME RingTypeOK, NEW required \in Nat, NEW c \in NewCapacities(required)
    PROVE  c \in Nat /\ c >= required
BY RingAssumption DEF NewCapacities, RingTypeOK

\* The effect of a growing reservation on the ring.
LEMMA GrowKeeps ==
    ASSUME RingInv, NEW n \in 0..MaxReserve, ReserveQueue(n), ~(count + n <= capacity)
    PROVE  RingInv' /\ Content' = Content /\ capacity' - count' >= capacity - count
<1>0. /\ n \in Nat /\ count \in Nat /\ capacity \in Nat /\ head \in Nat
      /\ count + n \in Nat /\ owed = 0 /\ count <= capacity
  BY RingAssumption DEF RingInv, RingTypeOK, ReserveQueue
<1>1. PICK c \in NewCapacities(count + n) :
          /\ capacity' = c
          /\ head' = 0
          /\ slots' = [i \in 0..(c - 1) |->
                         IF i < count THEN slots[Slot(i)] ELSE Garbage]
  BY DEF ReserveQueue
<1>2. c \in Nat /\ c >= count + n /\ c > capacity
  BY <1>0, <1>1, NewCapacityFits DEF RingInv
<1>3. count' = count /\ owed' = n
  BY DEF ReserveQueue
<1>4. \A i \in 0..(count - 1) : Slot(i) \in 0..(capacity - 1)
                                /\ slots[Slot(i)] = Content[i + 1]
  <2> SUFFICES ASSUME NEW i \in 0..(count - 1)
               PROVE  Slot(i) \in 0..(capacity - 1) /\ slots[Slot(i)] = Content[i + 1]
    OBVIOUS
  <2>1. i \in 0..capacity /\ capacity > 0
    BY <1>0
  <2>2. Slot(i) \in 0..(capacity - 1)
    BY <2>1, SlotWraps DEF RingInv
  <2>3. i + 1 \in 1..count /\ (i + 1) - 1 = i
    BY <1>0
  <2> QED BY <2>2, <2>3 DEF Content
<1>5. \A i \in 0..(count - 1) : slots[Slot(i)] \in Events
  <2> SUFFICES ASSUME NEW i \in 0..(count - 1) PROVE slots[Slot(i)] \in Events
    OBVIOUS
  <2>1. i + 1 \in DOMAIN Content
    BY <1>0 DEF Content
  <2> QED BY <2>1, <1>4 DEF RingInv, NoGarbage
<1>6. slots' \in [0..(c - 1) -> Events \cup {Garbage}]
  BY <1>0, <1>1, <1>2, <1>5
<1>7. \A i \in 1..count : Slot(i - 1)' = i - 1 /\ slots'[i - 1] = slots[Slot(i - 1)]
  <2> SUFFICES ASSUME NEW i \in 1..count
               PROVE  Slot(i - 1)' = i - 1 /\ slots'[i - 1] = slots[Slot(i - 1)]
    OBVIOUS
  <2>1. i - 1 \in 0..(c - 1) /\ i - 1 < count /\ c \in Nat \ {0} /\ i - 1 \in 0..(2 * c - 1)
    BY <1>0, <1>2
  <2>2. (0 + (i - 1)) % c = i - 1
    BY <2>1, Wrap
  <2> QED BY <1>1, <2>1, <2>2 DEF Slot
<1>8. Content' = Content
  BY <1>3, <1>7 DEF Content
<1>9. RingTypeOK'
  BY <1>0, <1>1, <1>2, <1>3, <1>6 DEF RingTypeOK
<1>10. ReservationHolds'
  BY <1>0, <1>1, <1>2, <1>3 DEF ReservationHolds
<1>11. NoGarbage'
  BY <1>8 DEF RingInv, NoGarbage
<1> QED BY <1>0, <1>1, <1>2, <1>3, <1>8, <1>9, <1>10, <1>11 DEF RingInv

\* A reservation, with the copy of a growing ring, keeps the invariant.
LEMMA ReserveKeeps ==
    ASSUME RingInv, NEW n \in 0..MaxReserve, ReserveQueue(n)
    PROVE  RingInv' /\ Content' = Content /\ capacity' - count' >= capacity - count
<1>1. CASE count + n <= capacity
  <2>1. UNCHANGED <<slots, capacity, head, count>> /\ owed' = n /\ n \in Nat
    BY <1>1, RingAssumption DEF ReserveQueue
  <2>2. Content' = Content
    BY <2>1 DEF Content, Slot
  <2>3. RingTypeOK'
    BY <2>1 DEF RingInv, RingTypeOK
  <2>4. ReservationHolds'
    BY <2>1, <1>1 DEF ReservationHolds
  <2>5. NoGarbage'
    BY <2>2 DEF RingInv, NoGarbage
  <2> QED BY <2>1, <2>2, <2>3, <2>4, <2>5 DEF RingInv, RingTypeOK
<1>2. CASE ~(count + n <= capacity)
  BY <1>2, GrowKeeps
<1> QED BY <1>1, <1>2

\* Writing the next free slot appends to the content and to nothing else.
LEMMA EnqueueAppends ==
    ASSUME RingInv, NEW e \in Events, EnqueueReserved(e)
    PROVE  RingInv' /\ Content' = Append(Content, e)
<1>0. /\ capacity \in Nat /\ count \in Nat /\ head \in Nat /\ owed \in Nat
      /\ capacity > 0 /\ count < capacity /\ count + owed <= capacity /\ owed > 0
  BY DEF RingInv, RingTypeOK, ReservationHolds, EnqueueReserved
<1>1. Slot(count) \in 0..(capacity - 1)
  BY <1>0, SlotWraps DEF RingInv
<1>2. /\ slots' = [slots EXCEPT ![Slot(count)] = e]
      /\ count' = count + 1 /\ owed' = owed - 1 /\ capacity' = capacity /\ head' = head
  BY DEF EnqueueReserved
<1>3. RingTypeOK'
  BY <1>0, <1>1, <1>2 DEF RingInv, RingTypeOK
<1>4. ReservationHolds'
  BY <1>0, <1>2 DEF ReservationHolds
<1>5. \A i \in 1..(count + 1) :
          slots'[Slot(i - 1)] = IF i = count + 1 THEN e ELSE slots[Slot(i - 1)]
  <2> SUFFICES ASSUME NEW i \in 1..(count + 1)
      PROVE slots'[Slot(i - 1)] = IF i = count + 1 THEN e ELSE slots[Slot(i - 1)]
    OBVIOUS
  <2>1. i - 1 \in 0..(capacity - 1) /\ count \in 0..(capacity - 1)
    BY <1>0
  <2>2. Slot(i - 1) \in 0..(capacity - 1)
    BY <1>0, <2>1, SlotWraps DEF RingInv
  <2>3. DOMAIN slots = 0..(capacity - 1)
    BY DEF RingInv, RingTypeOK
  <2>4. CASE i = count + 1
    <3>1. i - 1 = count
      BY <2>4, <1>0
    <3> QED BY <3>1, <2>4, <1>1, <1>2, <2>3
  <2>5. CASE i # count + 1
    <3>1. i - 1 # count
      BY <2>5, <1>0
    <3>2. Slot(i - 1) # Slot(count)
      BY <3>1, <2>1, <1>0, SlotInjective DEF RingInv
    <3> QED BY <3>2, <2>2, <2>5, <1>1, <1>2, <2>3
  <2> QED BY <2>4, <2>5
<1>6. Content' = [i \in 1..(count + 1) |-> IF i = count + 1 THEN e ELSE slots[Slot(i - 1)]]
  <2>1. Content' = [i \in 1..(count + 1) |-> slots'[Slot(i - 1)]]
    BY <1>2 DEF Content, Slot
  <2> QED BY <2>1, <1>5
<1>7. Content \in Seq(Events) /\ Len(Content) = count
  <2>1. \A i \in 1..count : Content[i] \in Events
    BY DEF RingInv, NoGarbage, Content
  <2>2. Content \in [1..count -> Events]
    BY <2>1 DEF Content
  <2> QED BY <2>2, <1>0
<1>8. Append(Content, e) = [i \in 1..(count + 1) |-> IF i = count + 1 THEN e ELSE slots[Slot(i - 1)]]
  <2>1. \A i \in 1..count : Content[i] = slots[Slot(i - 1)]
    BY DEF Content
  <2>2. Append(Content, e) = [i \in 1..(count + 1) |->
                                IF i = count + 1 THEN e ELSE Content[i]]
    BY <1>7, AppendIs
  <2> QED BY <2>1, <2>2, <1>0
<1>9. NoGarbage'
  <2>1. Append(Content, e) \in Seq(Events)
    BY <1>7, AppendIs
  <2>2. \A i \in DOMAIN Content' : Content'[i] \in Events
    BY <2>1, <1>6, <1>8, LenProperties
  <2> QED BY <2>2 DEF NoGarbage
<1> QED BY <1>3, <1>4, <1>6, <1>8, <1>9 DEF RingInv

\* Polling drops the oldest event of the content.
LEMMA PollTakes ==
    ASSUME RingInv, PollEvent
    PROVE  RingInv' /\ Content # <<>> /\ Content' = Tail(Content)
<1>0. /\ capacity \in Nat /\ count \in Nat /\ head \in 0..(capacity - 1) /\ owed \in Nat
      /\ capacity > 0 /\ count > 0 /\ count <= capacity /\ count + owed <= capacity
  BY DEF RingInv, RingTypeOK, ReservationHolds, PollEvent
<1>1. /\ head' = Slot(1) /\ count' = count - 1
      /\ slots' = slots /\ capacity' = capacity /\ owed' = owed
  BY DEF PollEvent, Slot
<1>2. /\ Slot(1) = IF head + 1 < capacity THEN head + 1 ELSE head + 1 - capacity
      /\ Slot(1) \in 0..(capacity - 1)
  BY <1>0, SlotWraps DEF RingInv
<1>3. RingTypeOK'
  BY <1>0, <1>1, <1>2 DEF RingInv, RingTypeOK
<1>4. ReservationHolds'
  BY <1>0, <1>1 DEF ReservationHolds
<1>5. \A i \in 1..(count - 1) : (head' + (i - 1)) % capacity' = Slot(i)
  <2> SUFFICES ASSUME NEW i \in 1..(count - 1)
               PROVE  (Slot(1) + (i - 1)) % capacity = Slot(i)
    BY <1>1
  <2>1. i \in 0..capacity /\ i - 1 \in 0..capacity
    BY <1>0
  <2>2. Slot(i) = IF head + i < capacity THEN head + i ELSE head + i - capacity
    BY <1>0, <2>1, SlotWraps DEF RingInv
  <2>3. PICK h \in 0..(capacity - 1) : h = Slot(1)
    BY <1>2
  <2>4. PICK y \in 0..(2 * capacity - 1) : y = h + (i - 1)
    BY <1>0, <2>1
  <2>5. capacity \in Nat \ {0}
    BY <1>0
  <2>6. y % capacity = IF y < capacity THEN y ELSE y - capacity
    BY <2>5, Wrap
  <2> QED BY <1>0, <1>2, <2>1, <2>2, <2>3, <2>4, <2>6
<1>6. Content' = [i \in 1..(count - 1) |-> slots[Slot(i)]]
  BY <1>1, <1>5 DEF Content, Slot
<1>7. Content \in Seq(Events) /\ Len(Content) = count
  <2>1. \A i \in 1..count : Content[i] \in Events
    BY DEF RingInv, NoGarbage, Content
  <2>2. Content \in [1..count -> Events]
    BY <2>1 DEF Content
  <2> QED BY <2>2, <1>0
<1>8. \A i \in 1..(count - 1) : Content[i + 1] = slots[Slot(i)]
  BY <1>0 DEF Content
<1>9. Content # <<>> /\ Tail(Content) = [i \in 1..(count - 1) |-> slots[Slot(i)]]
  <2>1. Content # <<>>
    BY <1>0, <1>7
  <2>2. Tail(Content) = [i \in 1..(count - 1) |-> Content[i + 1]]
    BY <2>1, <1>7, TailIs
  <2> QED BY <2>1, <2>2, <1>8
<1>10. NoGarbage'
  <2>1. Tail(Content) \in Seq(Events)
    BY <1>7, <1>9, TailIs
  <2>2. \A i \in DOMAIN Content' : Content'[i] \in Events
    BY <2>1, <1>6, <1>9, LenProperties
  <2> QED BY <2>2 DEF NoGarbage
<1> QED BY <1>3, <1>4, <1>6, <1>9, <1>10 DEF RingInv

\* The ring keeps its shape, honours its reservations and never reads a slot
\* that was not written.
THEOREM RingSafe == RingSpec => [](RingTypeOK /\ ReservationHolds /\ NoGarbage)
<1>1. RingInit => RingInv
  BY InitInv
<1>2. RingInv /\ [RingNext]_ring => RingInv'
  <2> SUFFICES ASSUME RingInv, [RingNext]_ring PROVE RingInv'
    OBVIOUS
  <2>1. ASSUME NEW n \in 0..MaxReserve, ReserveQueue(n) PROVE RingInv'
    BY <2>1, ReserveKeeps
  <2>2. ASSUME NEW e \in Events, EnqueueReserved(e) PROVE RingInv'
    BY <2>2, EnqueueAppends
  <2>3. CASE PollEvent
    BY <2>3, PollTakes
  <2>4. CASE UNCHANGED ring
    BY <2>4 DEF ring, RingInv, RingTypeOK, ReservationHolds, NoGarbage, Content, Slot
  <2> QED BY <2>1, <2>2, <2>3, <2>4 DEF RingNext
<1>3. RingInv => RingTypeOK /\ ReservationHolds /\ NoGarbage
  BY DEF RingInv
<1> QED BY <1>1, <1>2, <1>3, PTL DEF RingSpec

\* Every behaviour of the ring is a behaviour of the FIFO that Sword3Input
\* relies on.
THEOREM RingImplementsFifo == RingSpec => ImplementsFifo
<1>1. RingInit => Fifo!FifoInit
  BY DEF RingInit, Fifo!FifoInit, Content
<1>2. RingInv /\ [RingNext]_ring => [Fifo!FifoNext]_(Fifo!fifo)
  <2> SUFFICES ASSUME RingInv, [RingNext]_ring
               PROVE  [Fifo!FifoNext]_(Fifo!fifo)
    OBVIOUS
  <2>0. capacity \in Nat /\ count \in Nat /\ count <= capacity
    BY DEF RingInv, RingTypeOK
  <2>1. ASSUME NEW n \in 0..MaxReserve, ReserveQueue(n) PROVE Fifo!FifoReserve
    <3>1. RingInv' /\ Content' = Content /\ capacity' - count' >= capacity - count
      BY <2>1, ReserveKeeps
    <3>2. capacity' \in Nat /\ count' \in Nat /\ count' <= capacity'
      BY <3>1 DEF RingInv, RingTypeOK
    <3>3. capacity' - count' \in Nat
      <4>1. \A x, y \in Nat : y <= x => x - y \in Nat
        OBVIOUS
      <4> QED BY <3>2, <4>1
    <3> QED BY <3>1, <3>3, Zenon DEF Fifo!FifoReserve
  <2>2. ASSUME NEW e \in Events, EnqueueReserved(e) PROVE Fifo!FifoPut
    <3>1. Content' = Append(Content, e)
      BY <2>2, EnqueueAppends
    <3>2. /\ owed \in Nat /\ owed > 0 /\ count + owed <= capacity
          /\ capacity' = capacity /\ count' = count + 1
      BY <2>2 DEF RingInv, RingTypeOK, ReservationHolds, EnqueueReserved
    <3> QED BY <2>0, <3>1, <3>2 DEF Fifo!FifoPut
  <2>3. ASSUME PollEvent PROVE Fifo!FifoTake
    <3>1. Content # <<>> /\ Content' = Tail(Content)
      BY <2>3, PollTakes
    <3>2. capacity' = capacity /\ count' = count - 1
      BY <2>3 DEF PollEvent
    <3> QED BY <2>0, <3>1, <3>2 DEF Fifo!FifoTake
  <2>4. CASE UNCHANGED ring
    BY <2>4 DEF ring, Fifo!fifo, Content, Slot
  <2> QED BY <2>1, <2>2, <2>3, <2>4 DEF RingNext, Fifo!FifoNext
<1>3. RingSpec => []RingInv
  BY RingSafe, PTL DEF RingInv
<1> QED BY <1>1, <1>2, <1>3, PTL DEF RingSpec, ImplementsFifo, Fifo!FifoSpec

-----------------------------------------------------------------------------
(* The hooks in guest code: a function that has its jump is never given a  *)
(* new trampoline.                                                         *)

\* What keeps an installation from coming back to a function with a jump.
Guarded ==
    /\ \A f \in Battle : code[f] = "jump" => f \in hooked
    /\ \A f \in Cheats : code[f] = "jump" => ready

HookInv == HooksTypeOK /\ Guarded /\ TrampolineIsOriginal

\* The battle hooks and the cheat hooks are on different functions.
LEMMA DisjointGroups == Battle \cap Cheats = {}
  BY DEF Battle, Cheats, Cheat

\* Before any installation no function starts with a jump.
LEMMA InitHooks == HooksInit => HookInv
  BY DEF HooksInit, HookInv, HooksTypeOK, Guarded, TrampolineIsOriginal, Funcs

\* install_hook of the battle menu keeps the invariant, wherever it stops.
LEMMA BattleStep ==
    ASSUME HookInv, NEW mapped \in SUBSET Battle, NEW writable \in SUBSET Battle,
           HostBattleInstall(mapped, writable)
    PROVE  HookInv'
<1> DEFINE tried == Attempted(mapped, writable) \ hooked
           done  == {f \in tried \cap mapped : Patchable(f, writable)}
<1>1. tried \subseteq Battle /\ tried \cap hooked = {}
  BY DEF Attempted, Battle
<1>2. /\ tramp' = [f \in Funcs |-> IF f \in tried THEN MakeTramp(f, mapped)
                                   ELSE tramp[f]]
      /\ code' = [f \in Funcs |-> IF f \in done THEN "jump" ELSE code[f]]
      /\ hooked' = hooked \cup done /\ ready' = ready
  BY DEF HostBattleInstall
<1>3. \A f \in tried : code[f] # "jump"
  BY <1>1 DEF HookInv, Guarded
<1>4. \A f \in done : tramp'[f] = "original"
  BY <1>1, <1>2 DEF MakeTramp, Patchable, Funcs
<1> HIDE DEF tried, done
<1>5. done \subseteq tried
  BY DEF done
<1>6. HooksTypeOK'
  BY <1>1, <1>2, <1>5 DEF HookInv, HooksTypeOK, MakeTramp, Funcs
<1>7. Guarded'
  BY <1>1, <1>2, <1>5, DisjointGroups DEF HookInv, HooksTypeOK, Guarded, Funcs
<1>8. TrampolineIsOriginal'
  BY <1>2, <1>3, <1>4, <1>5 DEF HookInv, HooksTypeOK, TrampolineIsOriginal
<1> QED  BY <1>6, <1>7, <1>8 DEF HookInv

\* So does the cheat menu's install_hook, which runs only once.
LEMMA CheatStep ==
    ASSUME HookInv, NEW mapped \in SUBSET Cheats, NEW writable \in SUBSET Cheats,
           HostCheatInstall(mapped, writable)
    PROVE  HookInv'
<1> DEFINE done == IF Cheats \subseteq mapped THEN Patched(writable) ELSE {}
<1>1. done \subseteq Cheats /\ \A f \in done : code[f] = "original"
  BY DEF Patched, Patchable, Cheats
<1>2. /\ tramp' = [f \in Funcs |-> IF f \in Cheats THEN MakeTramp(f, mapped)
                                   ELSE tramp[f]]
      /\ code' = [f \in Funcs |-> IF f \in done THEN "jump" ELSE code[f]]
      /\ hooked' = hooked /\ ~ready
      /\ ready' \in BOOLEAN /\ (done # {} => ready')
  BY DEF HostCheatInstall, HookInv, HooksTypeOK
<1>3. \A f \in done : f \in mapped
  BY <1>1
<1> HIDE DEF done
<1>4. \A f \in Cheats : code[f] # "jump"
  BY <1>2 DEF HookInv, Guarded
<1>5. \A f \in done : tramp'[f] = "original"
  BY <1>1, <1>2, <1>3 DEF MakeTramp, Funcs
<1>6. HooksTypeOK'
  BY <1>1, <1>2 DEF HookInv, HooksTypeOK, MakeTramp, Funcs
<1>7. Guarded'
  BY <1>1, <1>2, <1>4, DisjointGroups DEF HookInv, HooksTypeOK, Guarded, Funcs
<1>8. TrampolineIsOriginal'
  BY <1>1, <1>2, <1>4, <1>5 DEF HookInv, HooksTypeOK, TrampolineIsOriginal
<1> QED  BY <1>6, <1>7, <1>8 DEF HookInv

\* No sequence of installations, whichever of them fail, makes a hook call
\* itself instead of the guest's function.
THEOREM HooksReachTheGuest == HooksSpec => []TrampolineIsOriginal
<1>1. HookInv /\ [HooksNext]_hookVars => HookInv'
  <2> SUFFICES ASSUME HookInv, [HooksNext]_hookVars PROVE HookInv'
    OBVIOUS
  <2>1. CASE \E mapped, writable \in SUBSET Battle :
                HostBattleInstall(mapped, writable)
    BY <2>1, BattleStep
  <2>2. CASE \E mapped \in SUBSET Cheats, writable \in Writable :
                HostCheatInstall(mapped, writable)
    BY <2>2, CheatStep DEF Writable
  <2>3. CASE UNCHANGED hookVars
    BY <2>3 DEF hookVars, HookInv, HooksTypeOK, Guarded, TrampolineIsOriginal
  <2> QED  BY <2>1, <2>2, <2>3 DEF HooksNext
<1>2. HookInv => TrampolineIsOriginal
  BY DEF HookInv
<1> QED  BY InitHooks, <1>1, <1>2, PTL DEF HooksSpec

-----------------------------------------------------------------------------
(* The level cheat: from the start of a fight to its end the overlay's mark *)
(* says whether the fight has been paid for, and no poll takes it back      *)
(* while levels are computed.                                              *)

CheatInv ==
    /\ applied \in BOOLEAN /\ was_fight \in BOOLEAN /\ flag \in BOOLEAN /\ phase \in Phases
    /\ earned \in BOOLEAN
    /\ phase = "fight" => ~applied /\ ~earned
    /\ phase = "result" => flag /\ was_fight /\ (applied <=> earned)
    /\ earned => granted = 1
    /\ ~earned => granted = 0

\* host_cheat.c: every fight gives the party its extra level exactly once,
\* however often CalLevel runs and whatever the fight flag did before.
THEOREM OneLevelPerFight == CheatSpec => []LevelOncePerFight
<1>1. CheatInit => CheatInv
  <2> SUFFICES ASSUME CheatInit PROVE CheatInv
    OBVIOUS
  <2>1. ~applied /\ ~was_fight /\ ~flag /\ ~earned /\ phase = "field" /\ granted = 0
    BY Zenon DEF CheatInit
  <2>2. applied \in BOOLEAN /\ was_fight \in BOOLEAN /\ flag \in BOOLEAN /\ earned \in BOOLEAN
    BY Zenon DEF CheatInit
  <2> QED BY <2>1, <2>2 DEF CheatInv, Phases
<1>2. CheatInv /\ [CheatNext]_cheatVars => CheatInv'
  <2> SUFFICES ASSUME CheatInv, [CheatNext]_cheatVars PROVE CheatInv'
    OBVIOUS
  <2> USE DEF CheatInv, Phases, cheat_guest, fight, overlay
  <2>1. CASE \E b \in Buttons : CheatButton(b)
    BY <2>1 DEF CheatButton
  <2>2. ASSUME NEW random \in BOOLEAN, LoadBattle(random) PROVE CheatInv'
    <3>1. CASE random /\ NOENC \in on
      <4>1. UNCHANGED <<applied, was_fight, flag, phase, earned, granted>>
        BY <2>2, <3>1, Zenon DEF LoadBattle
      <4> QED BY <4>1
    <3>2. CASE ~(random /\ NOENC \in on)
      <4>1. /\ ~applied' /\ was_fight' /\ ~earned' /\ granted' = 0 /\ phase' = "fight" /\ flag' = flag
            /\ applied' \in BOOLEAN /\ was_fight' \in BOOLEAN /\ earned' \in BOOLEAN
        BY <2>2, <3>2, Zenon DEF LoadBattle, CheatNoteNewFight
      <4> QED BY <4>1
    <3> QED BY <3>1, <3>2
  <2>3. CASE CalLevel
    <3>1. /\ phase = "result" /\ UNCHANGED <<was_fight, flag, phase>>
          /\ earned' = (earned \/ LVUP \in on)
      BY <2>3, Zenon DEF CalLevel
    <3>2. earned' \in BOOLEAN /\ (earned' <=> earned \/ LVUP \in on)
      BY <3>1
    <3>3. CASE LVUP \in on /\ ~applied
      <4>1. applied' = TRUE /\ granted' = granted + 1
        BY <2>3, <3>3 DEF CalLevel
      <4> QED BY <3>1, <3>2, <3>3, <4>1
    <3>4. CASE ~(LVUP \in on /\ ~applied)
      <4>1. applied' = applied /\ granted' = granted
        BY <2>3, <3>4 DEF CalLevel
      <4> QED BY <3>1, <3>2, <3>4, <4>1
    <3> QED BY <3>3, <3>4
  <2>4. CASE CheatPoll
    BY <2>4 DEF CheatPoll
  <2>5. CASE FightPollUi
    BY <2>5 DEF FightPollUi
  <2>6. CASE GuestFightFlag
    BY <2>6 DEF GuestFightFlag
  <2>7. CASE GuestResult
    BY <2>7 DEF GuestResult
  <2>8. CASE CheatFightEnd
    BY <2>8 DEF CheatFightEnd
  <2>9. CASE UNCHANGED cheatVars
    BY <2>9 DEF cheatVars
  <2> QED BY <2>1, <2>2, <2>3, <2>4, <2>5, <2>6, <2>7, <2>8, <2>9 DEF CheatNext
<1>3. CheatInv => LevelOncePerFight
  BY DEF CheatInv, LevelOncePerFight
<1> QED BY <1>1, <1>2, <1>3, PTL DEF CheatSpec

-----------------------------------------------------------------------------
(* The generation of the input context: the kept one plus the changes      *)
(* since, counted round from the largest to 1.                             *)

ContextInv ==
    /\ initialized \in BOOLEAN /\ generation \in 0..MaxGeneration /\ changes \in Nat
    /\ kept.generation \in 0..MaxGeneration
    /\ initialized <=> generation # 0
    /\ kept.generation # 0 => initialized
    /\ kept.generation # 0 /\ changes < MaxGeneration =>
          generation = IF kept.generation + changes <= MaxGeneration
                       THEN kept.generation + changes
                       ELSE (kept.generation + changes) - MaxGeneration
    /\ changes = 0 /\ kept.generation # 0 => kept.identity = Identity(current)

\* same_lifecycle compares everything that makes a lifecycle what it is.
LEMMA SameIsIdentical ==
    ASSUME NEW was, NEW is, SameLifecycle(was, is)
    PROVE  Identity(was) = Identity(is)
BY DEF SameLifecycle, Identity

LEMMA TrackKeeps ==
    ASSUME ContextInv, NEW next, Track(next)
    PROVE  ContextInv'
<1> USE ContextAssumption DEF ContextInv
<1>1. CASE initialized /\ SameLifecycle(current, next)
  <2>1. UNCHANGED <<initialized, generation, changes, kept>> /\ current' = next
    BY <1>1 DEF Track, NextGeneration
  <2>2. Identity(current') = Identity(current)
    BY <1>1, <2>1, SameIsIdentical
  <2> QED BY <2>1, <2>2
<1>2. CASE initialized /\ ~SameLifecycle(current, next)
  <2>1. /\ initialized' = TRUE /\ changes' = changes + 1 /\ kept' = kept
        /\ generation' = IF generation = MaxGeneration THEN 1 ELSE generation + 1
    BY <1>2 DEF Track, NextGeneration
  <2> QED BY <1>2, <2>1
<1>3. CASE ~initialized
  <2>1. /\ initialized' = TRUE /\ changes' = changes + 1 /\ kept' = kept /\ generation' = 1
    BY <1>3 DEF Track, NextGeneration
  <2> QED BY <1>3, <2>1
<1> QED BY <1>1, <1>2, <1>3

\* input_context.c: within one round of the counter a kept generation is the
\* current one exactly when the lifecycle has not changed, and then it still
\* stands for the same context.
THEOREM StaleGenerationsShow == ContextInit /\ [][ContextNext]_contextVars => []GenerationDetectsChange
<1>1. ContextInit => ContextInv
  <2> SUFFICES ASSUME ContextInit PROVE ContextInv
    OBVIOUS
  <2>1. ~initialized /\ initialized \in BOOLEAN /\ generation = 0 /\ changes = 0
    BY Zenon DEF ContextInit
  <2>2. kept.generation = 0
    BY DEF ContextInit
  <2> QED BY <2>1, <2>2, ContextAssumption DEF ContextInv
<1>2. ContextInv /\ [ContextNext]_contextVars => ContextInv'
  <2> SUFFICES ASSUME ContextInv, [ContextNext]_contextVars PROVE ContextInv'
    OBVIOUS
  <2>1. CASE \E next : Track(next)
    BY <2>1, TrackKeeps
  <2>2. CASE Keep
    BY <2>2, ContextAssumption DEF Keep, ContextInv
  <2>3. CASE UNCHANGED contextVars
    BY <2>3 DEF contextVars, ContextInv
  <2> QED BY <2>1, <2>2, <2>3 DEF ContextNext
<1>3. ContextInv => GenerationDetectsChange
  BY ContextAssumption DEF ContextInv, GenerationDetectsChange
<1> QED BY <1>1, <1>2, <1>3, PTL

-----------------------------------------------------------------------------
(* The guest's lists that the bridge drives.                               *)

LEMMA LeastExists ==
    ASSUME NEW S \in SUBSET Nat, S # {}
    PROVE  Min(S) \in S
<1> DEFINE less == {ss \in Nat \X Nat : ss[1] < ss[2]}
<1>1. IsWellFoundedOn(less, Nat)
  BY NatLessThanWellFounded, Zenon DEF OpToRel
<1> HIDE DEF less
<1>2. PICK x \in S : \A y \in S : ~(<<y, x>> \in less)
  BY <1>1, WFMin
<1>3. ASSUME NEW y \in S PROVE x <= y
  <2>1. <<y, x>>[1] = y /\ <<y, x>>[2] = x /\ <<y, x>> \in Nat \X Nat
    OBVIOUS
  <2>2. ~(y < x)
    BY <1>2, <2>1, Zenon DEF less
  <2> QED BY <2>2
<1> QED BY <1>3 DEF Min

LEMMA MinOfTwo ==
    ASSUME NEW a \in Int, NEW b \in Int
    PROVE  Min({a, b}) = IF a <= b THEN a ELSE b
<1>1. CASE a <= b
  BY <1>1 DEF Min
<1>2. CASE ~(a <= b)
  BY <1>2 DEF Min
<1> QED BY <1>1, <1>2

LEMMA MaxOfTwo ==
    ASSUME NEW a \in Int, NEW b \in Int
    PROVE  Max({a, b}) = IF a >= b THEN a ELSE b
<1>1. CASE a >= b
  BY <1>1 DEF Max
<1>2. CASE ~(a >= b)
  BY <1>2 DEF Max
<1> QED BY <1>1, <1>2

ShopRecord == [open : BOOLEAN, start : 0..(Items - 1), scroll : Nat, row : Nat, visible : Int, lit : Nat,
               bad : Int]

ShopInv ==
    /\ shop \in ShopRecord
    /\ ShopActsOnLit

Widget == [id : Nat, skip : BOOLEAN, active : BOOLEAN, buttons : Nat, sel : Int, gate : Nat]
Answer == [id : Nat, button : Int]

\* The dialogs in the order they were opened; each keeps the player from
\* walking while it is active, and an answer is that of a closed dialog.
DialogInv ==
    /\ widgets \in Seq(Widget)
    /\ \A i \in DOMAIN widgets : /\ widgets[i].id = i - 1
                                 /\ widgets[i].active => widgets[i].gate = 1
    /\ gate \in Nat
    /\ answers \in Seq(Answer)
    /\ \A i \in DOMAIN answers : answers[i].id + 1 \in DOMAIN widgets
    /\ GateCountsOpen

\* What the guest's handler is shown of the view: fields but visible are kept.
LEMMA ShopSees ==
    ASSUME NEW s \in ShopRecord, NEW v \in Int
    PROVE  LET q == [s EXCEPT !.visible = v]
           IN  /\ q \in ShopRecord /\ q.visible = v /\ q.open = s.open /\ q.start = s.start
               /\ q.scroll = s.scroll /\ q.row = s.row /\ q.lit = s.lit /\ q.bad = s.bad
BY DEF ShopRecord

LEMMA VisibleIs ==
    ASSUME NEW s \in ShopRecord
    PROVE  /\ Visible(s) \in Int
           /\ Visible(s) = IF FullRows + 1 <= Shown(s) - s.scroll THEN FullRows + 1
                           ELSE Shown(s) - s.scroll
BY MinOfTwo, ChoicesAssumption DEF Visible, Shown, ShopRecord

\* No more items are counted than are shown.
LEMMA CountIsShown ==
    ASSUME NEW s \in ShopRecord
    PROVE  DisplayCount(s) \in Int /\ DisplayCount(s) <= Shown(s)
<1> DEFINE S == {Shown(s), MaxWalk, IF s.bad >= s.start THEN s.bad - s.start ELSE MaxWalk}
<1>1. Shown(s) \in Int /\ MaxWalk \in Int /\ s.bad \in Int /\ s.start \in Int
  BY ChoicesAssumption DEF ShopRecord, Shown
<1>2. \E m \in S : \A n \in S : m <= n
  BY <1>1
<1>3. DisplayCount(s) \in S /\ \A n \in S : DisplayCount(s) <= n
  BY <1>2, Zenon DEF DisplayCount, Min
<1> QED BY <1>1, <1>3

LEMMA ShopDownKeeps == ASSUME ShopInv, shop.open, ShopDown PROVE ShopInv'
<1> USE ChoicesAssumption
<1> DEFINE seen  == [shop EXCEPT !.visible = Visible(shop)]
           clip  == FullRows < seen.visible /\ DisplayCount(shop) > FullRows /\ shop.row >= FullRows - 1
           given == IF clip THEN [seen EXCEPT !.visible = FullRows] ELSE seen
           moved == IF given.row + 1 < given.visible
                    THEN [given EXCEPT !.row = given.row + 1, !.lit = given.lit + 1]
                    ELSE [given EXCEPT !.scroll = given.scroll + 1, !.lit = given.lit + 1]
<1>1. shop' = [moved EXCEPT !.visible = Visible(moved)] /\ acted' = acted
  BY DEF ShopDown, GuestDown
<1>2. shop \in ShopRecord
  BY DEF ShopInv
<1>3. /\ seen \in ShopRecord /\ seen.visible = Visible(shop) /\ seen.open = shop.open
      /\ seen.start = shop.start /\ seen.scroll = shop.scroll /\ seen.row = shop.row
      /\ seen.lit = shop.lit
  BY <1>2, VisibleIs, ShopSees
<1> HIDE DEF seen
<1>4. /\ given \in ShopRecord /\ given.open = shop.open /\ given.start = shop.start
      /\ given.scroll = shop.scroll /\ given.row = shop.row /\ given.lit = shop.lit
      /\ given.visible = IF clip THEN FullRows ELSE seen.visible
  <2>1. CASE clip
    <3>1. given = [seen EXCEPT !.visible = FullRows]
      BY <2>1
    <3> HIDE DEF given, clip
    <3>2. FullRows \in Int
      OBVIOUS
    <3>3. /\ given \in ShopRecord /\ given.open = seen.open /\ given.start = seen.start
          /\ given.scroll = seen.scroll /\ given.row = seen.row /\ given.lit = seen.lit
          /\ given.visible = FullRows
      BY <1>3, <3>1, <3>2, ShopSees
    <3> QED BY <1>3, <2>1, <3>3
  <2>2. CASE ~clip
    BY <1>3, <2>2
  <2> QED BY <2>1, <2>2
<1>5. clip <=> FullRows < Visible(shop) /\ DisplayCount(shop) > FullRows /\ shop.row >= FullRows - 1
  BY <1>3
<1> HIDE DEF given, clip
<1>6. given.row \in Nat /\ given.scroll \in Nat /\ given.lit \in Nat
  BY <1>4 DEF ShopRecord
<1>7. /\ moved \in ShopRecord /\ moved.open = shop.open /\ moved.start = shop.start
      /\ moved.lit = shop.lit + 1
      /\ \/ moved.row = shop.row + 1 /\ moved.scroll = shop.scroll /\ shop.row + 1 < given.visible
         \/ moved.row = shop.row /\ moved.scroll = shop.scroll + 1
  <2>1. CASE given.row + 1 < given.visible
    <3>1. moved = [given EXCEPT !.row = given.row + 1, !.lit = given.lit + 1]
      BY <2>1
    <3>2. /\ moved \in ShopRecord /\ moved.open = given.open /\ moved.start = given.start
          /\ moved.lit = given.lit + 1 /\ moved.row = given.row + 1 /\ moved.scroll = given.scroll
      <4>1. moved = [open |-> given.open, start |-> given.start, scroll |-> given.scroll,
                     row |-> given.row + 1, visible |-> given.visible, lit |-> given.lit + 1,
                     bad |-> given.bad]
        BY <1>4, <3>1, Zenon DEF ShopRecord
      <4>2. given.open \in BOOLEAN /\ given.start \in 0..(Items - 1) /\ given.visible \in Int /\ given.bad \in Int
        BY <1>4 DEF ShopRecord
      <4> HIDE DEF moved
      <4> QED BY <1>6, <4>1, <4>2 DEF ShopRecord
    <3> QED BY <1>4, <2>1, <3>2
  <2>2. CASE ~(given.row + 1 < given.visible)
    <3>1. moved = [given EXCEPT !.scroll = given.scroll + 1, !.lit = given.lit + 1]
      BY <2>2
    <3>2. /\ moved \in ShopRecord /\ moved.open = given.open /\ moved.start = given.start
          /\ moved.lit = given.lit + 1 /\ moved.row = given.row /\ moved.scroll = given.scroll + 1
      <4>1. moved = [open |-> given.open, start |-> given.start, scroll |-> given.scroll + 1,
                     row |-> given.row, visible |-> given.visible, lit |-> given.lit + 1,
                     bad |-> given.bad]
        BY <1>4, <3>1, Zenon DEF ShopRecord
      <4>2. given.open \in BOOLEAN /\ given.start \in 0..(Items - 1) /\ given.visible \in Int /\ given.bad \in Int
        BY <1>4 DEF ShopRecord
      <4> HIDE DEF moved
      <4> QED BY <1>6, <4>1, <4>2 DEF ShopRecord
    <3> QED BY <1>4, <2>2, <3>2
  <2> QED BY <2>1, <2>2
<1> HIDE DEF moved
<1>8. /\ shop' \in ShopRecord /\ shop'.open = moved.open /\ shop'.start = moved.start
      /\ shop'.lit = moved.lit /\ shop'.row = moved.row /\ shop'.scroll = moved.scroll
  BY <1>1, <1>7, VisibleIs, ShopSees
<1>13. DisplayCount(shop) \in Int /\ DisplayCount(shop) <= Shown(shop)
  BY <1>2, CountIsShown
<1>14. shop.lit + 1 < DisplayCount(shop) /\ shop.lit \in Nat
  BY <1>2, <1>13 DEF ShopDown, Absolute, ShopInv, ShopRecord, ShopActsOnLit
<1>9. moved.row < FullRows
  <2>1. /\ shop.row \in Nat /\ shop.scroll \in Nat /\ shop.row < FullRows
        /\ shop.lit = shop.scroll + shop.row /\ Visible(shop) \in Int
    BY <1>2, VisibleIs DEF ShopInv, ShopRecord, ShopActsOnLit, Absolute
  <2>2. CASE clip
    BY <1>4, <1>7, <2>1, <2>2
  <2>3. CASE ~clip
    BY <1>3, <1>4, <1>5, <1>7, <1>13, <1>14, <2>1, <2>3
  <2> QED BY <2>2, <2>3
<1>10. shop.lit + 1 < Shown(shop)
  BY <1>2, <1>13, <1>14 DEF Shown, ShopRecord
<1>11. ShopActsOnLit'
  BY <1>1, <1>2, <1>7, <1>8, <1>9, <1>10 DEF ShopInv, ShopRecord, ShopActsOnLit, Absolute, Shown
<1> QED BY <1>8, <1>11 DEF ShopInv

LEMMA ShopUpKeeps == ASSUME ShopInv, shop.open, ShopUp PROVE ShopInv'
<1> USE ChoicesAssumption
<1> DEFINE moved == IF shop.row > 0 THEN [shop EXCEPT !.row = shop.row - 1, !.lit = shop.lit - 1]
                    ELSE [shop EXCEPT !.scroll = shop.scroll - 1, !.lit = shop.lit - 1]
<1>1. shop' = [moved EXCEPT !.visible = Visible(moved)] /\ acted' = acted
  BY DEF ShopUp, GuestUp
<1>2. /\ shop \in ShopRecord /\ shop.row + shop.scroll > 0 /\ shop.lit = shop.row + shop.scroll
      /\ shop.row \in Nat /\ shop.scroll \in Nat /\ shop.open \in BOOLEAN
      /\ shop.start \in 0..(Items - 1) /\ shop.visible \in Int /\ shop.bad \in Int
  BY DEF ShopUp, Absolute, ShopInv, ShopRecord, ShopActsOnLit
<1>3. /\ moved \in ShopRecord /\ moved.open = shop.open /\ moved.start = shop.start
      /\ moved.lit = shop.lit - 1
      /\ \/ moved.row = shop.row - 1 /\ moved.scroll = shop.scroll
         \/ moved.row = shop.row /\ moved.scroll = shop.scroll - 1
  <2>1. CASE shop.row > 0
    <3>1. moved = [open |-> shop.open, start |-> shop.start, scroll |-> shop.scroll,
                   row |-> shop.row - 1, visible |-> shop.visible, lit |-> shop.lit - 1,
                   bad |-> shop.bad]
      BY <1>2, <2>1, Zenon DEF ShopRecord
    <3> HIDE DEF moved
    <3> QED BY <1>2, <2>1, <3>1 DEF ShopRecord
  <2>2. CASE ~(shop.row > 0)
    <3>1. moved = [open |-> shop.open, start |-> shop.start, scroll |-> shop.scroll - 1,
                   row |-> shop.row, visible |-> shop.visible, lit |-> shop.lit - 1,
                   bad |-> shop.bad]
      BY <1>2, <2>2, Zenon DEF ShopRecord
    <3> HIDE DEF moved
    <3> QED BY <1>2, <2>2, <3>1 DEF ShopRecord
  <2> QED BY <2>1, <2>2
<1> HIDE DEF moved
<1>4. /\ shop' \in ShopRecord /\ shop'.open = moved.open /\ shop'.start = moved.start
      /\ shop'.lit = moved.lit /\ shop'.row = moved.row /\ shop'.scroll = moved.scroll
  BY <1>1, <1>3, VisibleIs, ShopSees
<1>5. ShopActsOnLit'
  BY <1>1, <1>2, <1>3, <1>4 DEF ShopInv, ShopRecord, ShopActsOnLit, Absolute, Shown
<1> QED BY <1>4, <1>5 DEF ShopInv

LEMMA ShopActKeeps == ASSUME ShopInv, shop.open, NEW closes \in BOOLEAN, ShopAct(closes) PROVE ShopInv'
<1> USE ChoicesAssumption
<1>1. /\ HighlightedRow(shop) \in Nat /\ shop.scroll + HighlightedRow(shop) = shop.start + shop.lit
      /\ shop.scroll + shop.row = (shop.start + shop.lit) - shop.start /\ shop.row \in Nat
  BY DEF HighlightedRow, ShopInv, ShopRecord, ShopActsOnLit, Absolute
<1>2. GivenRow(shop) \in Nat /\ acted'.found = Found(shop) /\ acted'.start = shop.start
      /\ acted'.lit = shop.start + shop.lit /\ acted'.item = shop.scroll + GivenRow(shop)
  BY <1>1 DEF ShopAct, ActsOn, GivenRow
<1>3. acted'.item = IF acted'.found THEN acted'.lit ELSE acted'.lit - acted'.start
  BY <1>1, <1>2 DEF GivenRow
<1>4. shop' \in ShopRecord /\ shop'.open = ~closes /\ shop'.start = shop.start
      /\ shop'.lit = shop.lit /\ shop'.scroll = shop.scroll /\ (~closes => shop'.row = shop.row)
  BY <1>2 DEF ShopAct, ShopInv, ShopRecord
<1> QED BY <1>3, <1>4 DEF ShopInv, ShopActsOnLit, Absolute, Shown

LEMMA ShopStepKeeps ==
    ASSUME ShopInv, [ChoicesNext]_choiceVars
    PROVE  ShopInv'
<1>1. CASE shop.open /\ (ShopUp \/ ShopDown \/ \E closes \in BOOLEAN : ShopAct(closes))
  BY <1>1, ShopUpKeeps, ShopDownKeeps, ShopActKeeps
<1>2. ASSUME NEW start \in 0..(Items - 1), NEW bad \in -1..Items, ShopReopen(start, bad) PROVE ShopInv'
  BY <1>2, ChoicesAssumption DEF ShopReopen, Untouched, ShopInv, ShopRecord, ShopActsOnLit, Absolute, Shown
<1>3. CASE UNCHANGED <<shop, acted>>
  BY <1>3 DEF ShopInv, ShopActsOnLit, Absolute, Shown
<1> QED BY <1>1, <1>2, <1>3 DEF ChoicesNext, choiceVars

\* Dialogs.

ActiveWidgets(ws) == {i \in DOMAIN ws : ws[i].active}

LEMMA ActiveIsFinite ==
    ASSUME NEW ws \in Seq(Widget)
    PROVE  IsFiniteSet(ActiveWidgets(ws)) /\ ActiveWidgets(ws) \subseteq 1..Len(ws)
<1>1. ActiveWidgets(ws) \subseteq 1..Len(ws)
  BY DEF ActiveWidgets
<1> QED BY <1>1, FS_Interval, FS_Subset

LEMMA OpenKeeps ==
    ASSUME DialogInv, NEW n \in 1..MaxButtons, NEW skip \in BOOLEAN, OpenWidget(n, skip)
    PROVE  DialogInv'
<1> USE ChoicesAssumption
<1> DEFINE new == [id |-> Len(widgets), skip |-> skip, active |-> TRUE, buttons |-> n, sel |-> 0, gate |-> 1]
<1>1. /\ widgets' = Append(widgets, new) /\ gate' = gate + 1 /\ answers' = answers
      /\ widgets \in Seq(Widget) /\ new \in Widget
  BY DEF OpenWidget, DialogInv, Widget
<1>2. /\ new.active /\ new.gate = 1 /\ new.id = Len(widgets)
  OBVIOUS
<1> HIDE DEF new
<1>3. /\ widgets' \in Seq(Widget) /\ Len(widgets') = Len(widgets) + 1
      /\ \A i \in DOMAIN widgets : i \in DOMAIN widgets' /\ widgets'[i] = widgets[i]
      /\ widgets'[Len(widgets) + 1] = new /\ DOMAIN widgets' = 1..(Len(widgets) + 1)
      /\ DOMAIN widgets = 1..Len(widgets) /\ Len(widgets) \in Nat
  BY <1>1
<1>4. ActiveWidgets(widgets') = ActiveWidgets(widgets) \cup {Len(widgets) + 1}
  BY <1>2, <1>3 DEF ActiveWidgets
<1>5. Len(widgets) + 1 \notin ActiveWidgets(widgets)
  BY <1>3 DEF ActiveWidgets
<1>6. Cardinality(ActiveWidgets(widgets')) = Cardinality(ActiveWidgets(widgets)) + 1
  BY <1>1, <1>4, <1>5, ActiveIsFinite, FS_AddElement
<1>7. GateCountsOpen'
  BY <1>1, <1>3, <1>6 DEF GateCountsOpen, DialogInv, ActiveWidgets
<1>8. \A i \in DOMAIN widgets' : widgets'[i].id = i - 1 /\ (widgets'[i].active => widgets'[i].gate = 1)
  BY <1>2, <1>3 DEF DialogInv
<1>9. \A i \in DOMAIN answers : answers[i].id + 1 \in DOMAIN widgets'
  BY <1>3 DEF DialogInv
<1> QED BY <1>1, <1>3, <1>7, <1>8, <1>9 DEF DialogInv

\* The dialog that is driven is one of the open choices.
LEMMA DrivenIsOpen ==
    ASSUME DialogInv, Drives
    PROVE  /\ Driven \in 1..Len(widgets) /\ Driven \in DOMAIN widgets
           /\ widgets[Driven].active /\ widgets[Driven] \in Widget
<1>1. DOMAIN widgets = 1..Len(widgets) /\ OpenChoices \subseteq DOMAIN widgets
  BY DEF DialogInv, OpenChoices
<1>2. Driven \in OpenChoices
  BY <1>1, LeastExists DEF Drives, Driven
<1> QED BY <1>1, <1>2 DEF OpenChoices, DialogInv

\* Moving the selection changes a dialog in nothing that the others count.
LEMMA MoveKeeps ==
    ASSUME DialogInv, NEW forward \in BOOLEAN, CaptionMove(forward)
    PROVE  DialogInv'
<1> DEFINE d == Driven
           sel == LET sel == Selection(widgets[Driven])
                  IN  IF forward THEN Min({sel + 1, widgets[Driven].buttons}) ELSE Max({sel - 1, 1})
<1>1. d \in DOMAIN widgets /\ widgets[d] \in Widget /\ widgets \in Seq(Widget)
  BY DrivenIsOpen DEF CaptionMove, DialogInv
<1>2. sel \in Int
  <2>1. Selection(widgets[d]) \in Int
    BY <1>1 DEF Selection, Widget
  <2>2. Min({Selection(widgets[d]) + 1, widgets[d].buttons}) \in Int
    <3>1. Selection(widgets[d]) + 1 \in Int /\ widgets[d].buttons \in Int
      BY <1>1, <2>1 DEF Widget
    <3> QED BY <3>1, MinOfTwo
  <2>3. Max({Selection(widgets[d]) - 1, 1}) \in Int
    BY <2>1, MaxOfTwo
  <2> QED BY <2>2, <2>3
<1>3. widgets' = [widgets EXCEPT ![d].sel = sel] /\ gate' = gate /\ answers' = answers
  BY DEF CaptionMove
<1> HIDE DEF d, sel
<1>4. /\ widgets' \in Seq(Widget) /\ DOMAIN widgets' = DOMAIN widgets
      /\ \A i \in DOMAIN widgets : /\ widgets'[i].id = widgets[i].id /\ widgets'[i].gate = widgets[i].gate
                                   /\ widgets'[i].active = widgets[i].active
  <2>1. [widgets[d] EXCEPT !.sel = sel] \in Widget
    BY <1>1, <1>2 DEF Widget
  <2>2. widgets' = [widgets EXCEPT ![d] = [widgets[d] EXCEPT !.sel = sel]]
    BY <1>3
  <2>3. /\ [widgets[d] EXCEPT !.sel = sel].id = widgets[d].id
        /\ [widgets[d] EXCEPT !.sel = sel].gate = widgets[d].gate
        /\ [widgets[d] EXCEPT !.sel = sel].active = widgets[d].active
    BY <1>1 DEF Widget
  <2> QED BY <1>1, <2>1, <2>2, <2>3
<1>5. {i \in DOMAIN widgets' : widgets'[i].active} = {i \in DOMAIN widgets : widgets[i].active}
  BY <1>4
<1>6. \A i \in DOMAIN answers' : ~widgets'[answers'[i].id + 1].active
  BY <1>3, <1>4 DEF DialogInv, GateCountsOpen
<1>7. \A i, j \in DOMAIN answers' : i # j => answers'[i].id # answers'[j].id
  BY <1>3 DEF DialogInv, GateCountsOpen
<1>8. gate' = Cardinality({i \in DOMAIN widgets' : widgets'[i].active})
  BY <1>3, <1>5 DEF DialogInv, GateCountsOpen
<1>9. GateCountsOpen'
  BY <1>6, <1>7, <1>8 DEF GateCountsOpen
<1> QED BY <1>3, <1>4, <1>9 DEF DialogInv

LEMMA ClosedWidget ==
    ASSUME NEW w \in Widget, NEW q, q = [w EXCEPT !.active = FALSE, !.gate = 0]
    PROVE  q \in Widget /\ ~q.active /\ q.id = w.id
<1>1. q = [id |-> w.id, skip |-> w.skip, active |-> FALSE, buttons |-> w.buttons,
           sel |-> w.sel, gate |-> 0]
  BY Zenon DEF Widget
<1>2. 0 \in Nat /\ w.id \in Nat /\ w.skip \in BOOLEAN /\ w.buttons \in Nat /\ w.sel \in Int
  BY DEF Widget
<1>3. q \in Widget
  BY <1>1, <1>2, Zenon DEF Widget
<1>4. ~q.active /\ q.id = w.id
  BY <1>1
<1> QED BY <1>3, <1>4

\* Closing a dialog lets the player walk by as much as opening it kept him from
\* it, and its answer is the first one with its name.
LEMMA ActivateKeeps ==
    ASSUME DialogInv, NEW cancel \in BOOLEAN, CaptionActivate(cancel)
    PROVE  DialogInv'
<1> DEFINE d == Driven
           w == widgets[d]
           answer == [id |-> w.id, button |-> IF cancel THEN w.buttons ELSE Selection(w)]
<1>1. d \in 1..Len(widgets) /\ w.active /\ w \in Widget /\ widgets \in Seq(Widget)
      /\ DOMAIN widgets = 1..Len(widgets)
  BY DrivenIsOpen DEF CaptionActivate, DialogInv
<1>2. w.id = d - 1 /\ w.gate = 1
  BY <1>1 DEF DialogInv
<1>3. answer \in Answer /\ answer.id = d - 1
  BY <1>1, <1>2 DEF Widget, Selection, Answer
<1>4. answers' = Append(answers, answer) /\ gate' = gate - 1
  BY <1>2 DEF CaptionActivate
<1>5. widgets' = [widgets EXCEPT ![d] = [widgets[d] EXCEPT !.active = FALSE, !.gate = 0]]
  BY <1>1 DEF CaptionActivate
<1> DEFINE closed == [widgets[d] EXCEPT !.active = FALSE, !.gate = 0]
<1>6. closed \in Widget /\ ~closed.active /\ closed.id = d - 1
  <2>1. closed = [w EXCEPT !.active = FALSE, !.gate = 0]
    OBVIOUS
  <2> HIDE DEF closed, w, d
  <2> QED BY <1>1, <1>2, <2>1, ClosedWidget
<1> HIDE DEF closed, answer, w, d
<1>7. /\ widgets' \in Seq(Widget) /\ DOMAIN widgets' = DOMAIN widgets
      /\ widgets'[d] = closed /\ \A i \in DOMAIN widgets \ {d} : widgets'[i] = widgets[i]
  BY <1>1, <1>5, <1>6 DEF closed
<1>8. d \in ActiveWidgets(widgets) /\ ActiveWidgets(widgets') = ActiveWidgets(widgets) \ {d}
  BY <1>1, <1>6, <1>7 DEF ActiveWidgets, w
<1>9. Cardinality(ActiveWidgets(widgets')) = Cardinality(ActiveWidgets(widgets)) - 1
  BY <1>1, <1>8, ActiveIsFinite, FS_RemoveElement
<1>10. gate = Cardinality(ActiveWidgets(widgets)) /\ gate' = Cardinality(ActiveWidgets(widgets'))
  BY <1>4, <1>9 DEF DialogInv, GateCountsOpen, ActiveWidgets
<1>11. gate' \in Nat
  BY <1>7, <1>10, ActiveIsFinite, FS_CardinalityType
<1>12. /\ answers' \in Seq(Answer) /\ DOMAIN answers' = 1..(Len(answers) + 1)
       /\ answers \in Seq(Answer) /\ DOMAIN answers = 1..Len(answers)
       /\ Len(answers) \in Nat
       /\ answers'[Len(answers) + 1] = answer /\ \A i \in 1..Len(answers) : answers'[i] = answers[i]
  BY <1>3, <1>4 DEF DialogInv
<1>13. \A i \in 1..Len(answers) : /\ answers[i].id # answer.id /\ answers[i].id + 1 \in DOMAIN widgets
                                   /\ ~widgets'[answers[i].id + 1].active
  <2> SUFFICES ASSUME NEW i \in 1..Len(answers)
               PROVE  /\ answers[i].id # answer.id /\ answers[i].id + 1 \in DOMAIN widgets
                      /\ ~widgets'[answers[i].id + 1].active
    OBVIOUS
  <2>1. answers[i].id + 1 \in DOMAIN widgets /\ ~widgets[answers[i].id + 1].active
    BY <1>12 DEF DialogInv, GateCountsOpen
  <2>2. answers[i].id + 1 # d
    BY <1>1, <2>1 DEF w
  <2>3. answers[i].id \in Nat
    <3>1. answers[i] \in Answer
      BY <1>12
    <3> QED BY <3>1 DEF Answer
  <2> QED BY <1>1, <1>3, <1>7, <2>1, <2>2, <2>3
<1>14. \A i \in DOMAIN answers' : /\ answers'[i].id + 1 \in DOMAIN widgets'
                                  /\ ~widgets'[answers'[i].id + 1].active
  <2> SUFFICES ASSUME NEW i \in DOMAIN answers'
               PROVE  /\ answers'[i].id + 1 \in DOMAIN widgets'
                      /\ ~widgets'[answers'[i].id + 1].active
    OBVIOUS
  <2>1. CASE i = Len(answers) + 1
    <3>1. answers'[i].id + 1 = d
      BY <1>1, <1>3, <1>12, <2>1
    <3> QED BY <1>1, <1>6, <1>7, <3>1
  <2>2. CASE i \in 1..Len(answers)
    BY <1>7, <1>12, <1>13, <2>2
  <2> QED BY <1>12, <2>1, <2>2
<1>15. ASSUME NEW i \in DOMAIN answers', NEW j \in DOMAIN answers', i # j
       PROVE  answers'[i].id # answers'[j].id
  <2>1. CASE i \in 1..Len(answers) /\ j \in 1..Len(answers)
    <3>1. answers[i].id # answers[j].id
      BY <1>12, <1>15, <2>1 DEF DialogInv, GateCountsOpen
    <3> QED BY <1>12, <2>1, <3>1
  <2>2. CASE i = Len(answers) + 1 /\ j \in 1..Len(answers)
    BY <1>12, <1>13, <2>2
  <2>3. CASE j = Len(answers) + 1 /\ i \in 1..Len(answers)
    BY <1>12, <1>13, <2>3
  <2>4. /\ i \in 1..Len(answers) \/ i = Len(answers) + 1
        /\ j \in 1..Len(answers) \/ j = Len(answers) + 1
    BY <1>12
  <2> QED BY <1>15, <2>1, <2>2, <2>3, <2>4
<1>16. \A i \in DOMAIN widgets' : widgets'[i].id = i - 1 /\ (widgets'[i].active => widgets'[i].gate = 1)
  BY <1>6, <1>7 DEF DialogInv
<1>17. GateCountsOpen'
  BY <1>10, <1>14, <1>15 DEF GateCountsOpen, ActiveWidgets
<1> QED BY <1>7, <1>11, <1>12, <1>14, <1>16, <1>17 DEF DialogInv

LEMMA TakeKeeps == ASSUME DialogInv, TakeAnswer PROVE DialogInv'
<1>1. /\ answers \in Seq(Answer) /\ answers # <<>>
      /\ answers' = Tail(answers) /\ widgets' = widgets /\ gate' = gate
  BY DEF DialogInv, TakeAnswer
<1>2. /\ answers' \in Seq(Answer)
      /\ \A i \in DOMAIN answers' : i + 1 \in DOMAIN answers /\ answers'[i] = answers[i + 1]
  BY <1>1
<1>3. DOMAIN answers' \subseteq Nat
  BY <1>2
<1>4. \A i \in DOMAIN answers' : ~widgets'[answers'[i].id + 1].active
  BY <1>1, <1>2 DEF DialogInv, GateCountsOpen
<1>5. ASSUME NEW i \in DOMAIN answers', NEW j \in DOMAIN answers', i # j
      PROVE  answers'[i].id # answers'[j].id
  <2>1. i + 1 # j + 1
    BY <1>3, <1>5
  <2>2. answers[i + 1].id # answers[j + 1].id
    BY <1>2, <2>1 DEF DialogInv, GateCountsOpen
  <2> QED BY <1>2, <2>2
<1>6. gate' = Cardinality({i \in DOMAIN widgets' : widgets'[i].active})
  BY <1>1 DEF DialogInv, GateCountsOpen
<1>7. GateCountsOpen'
  BY <1>4, <1>5, <1>6 DEF GateCountsOpen
<1> QED BY <1>1, <1>2, <1>7 DEF DialogInv

\* sdl_bridge.c: whatever the player presses in a shop or a dialog and however
\* many dialogs the guest opens, what is bought is what is lit (or, if the walk
\* of the list does not find that, the item as many rows below its beginning), and
\* the player walks again exactly when every dialog has been answered, once.
THEOREM ListsActOnWhatTheyShow == ChoicesInit /\ [][ChoicesNext]_choiceVars => []ChoicesAreShown
<1> DEFINE Both == ShopInv /\ DialogInv
<1>1. ChoicesInit => Both
  <2> SUFFICES ASSUME ChoicesInit PROVE Both
    OBVIOUS
  <2>1. ShopInv
    <3>1. /\ shop \in ShopRecord /\ shop.scroll = 0 /\ shop.row = 0 /\ shop.lit = 0
          /\ shop.start \in 0..(Items - 1) /\ acted.found /\ acted.item = acted.lit
      <4>1. shop \in [open : {TRUE}, start : 0..(Items - 1), scroll : {0}, row : {0},
                      visible : {0}, lit : {0}, bad : -1..Items]
        BY DEF ChoicesInit, ShopInit
      <4>2. /\ shop.scroll = 0 /\ shop.row = 0 /\ shop.lit = 0 /\ shop.visible = 0 /\ shop.open = TRUE
            /\ shop.start \in 0..(Items - 1) /\ shop.bad \in -1..Items
        BY <4>1, Zenon
      <4>3. shop = [open |-> shop.open, start |-> shop.start, scroll |-> shop.scroll,
                    row |-> shop.row, visible |-> shop.visible, lit |-> shop.lit, bad |-> shop.bad]
        BY <4>1, Zenon
      <4>4. shop \in ShopRecord
        <5>1. shop.scroll \in Nat /\ shop.row \in Nat /\ shop.visible \in Int /\ shop.lit \in Nat
              /\ shop.bad \in Int
          BY <4>2, ChoicesAssumption
        <5>2. shop.open \in BOOLEAN
          BY <4>2, Zenon
        <5> QED BY <4>2, <4>3, <5>1, <5>2, Zenon DEF ShopRecord
      <4>5. acted.found /\ acted.item = acted.lit
        BY DEF ChoicesInit, ShopInit, Untouched
      <4> QED BY <4>2, <4>4, <4>5
    <3> QED BY <3>1, ChoicesAssumption DEF ShopInv, ShopActsOnLit, Absolute, Shown
  <2>2. widgets = <<>> /\ gate = 0 /\ answers = <<>>
    BY DEF ChoicesInit, ChoiceInit
  <2>3. {i \in DOMAIN widgets : widgets[i].active} = {}
    BY <2>2
  <2>4. GateCountsOpen
    BY <2>2, <2>3, FS_EmptySet DEF GateCountsOpen
  <2>5. DialogInv
    BY <2>2, <2>4 DEF DialogInv
  <2> QED BY <2>1, <2>5
<1>2. Both /\ [ChoicesNext]_choiceVars => Both'
  <2> SUFFICES ASSUME Both, [ChoicesNext]_choiceVars PROVE DialogInv'
    BY ShopStepKeeps
  <2>1. CASE \E n \in 1..MaxButtons, skip \in BOOLEAN : OpenWidget(n, skip)
    BY <2>1, OpenKeeps
  <2>2. CASE \E forward \in BOOLEAN : CaptionMove(forward)
    BY <2>2, MoveKeeps
  <2>3. CASE \E cancel \in BOOLEAN : CaptionActivate(cancel)
    BY <2>3, ActivateKeeps
  <2>4. CASE TakeAnswer
    BY <2>4, TakeKeeps
  <2>5. CASE UNCHANGED <<widgets, gate, answers>>
    BY <2>5 DEF DialogInv, GateCountsOpen
  <2> QED BY <2>1, <2>2, <2>3, <2>4, <2>5 DEF ChoicesNext, choiceVars
<1>3. Both => ChoicesAreShown
  BY DEF ShopInv, DialogInv, ChoicesAreShown
<1> QED BY <1>1, <1>2, <1>3, PTL

-----------------------------------------------------------------------------
(* The register of SDL objects.  An address has one owner at a time: the   *)
(* guest, or the one thread that makes, frees or loads what lives there.   *)

Given == Kinds \ {"rwops"} \* what calls check and count
LiveAt(k, a) == heap[a] = k \/ (k = "rwops" /\ heap[a] = "guestRw")

Owns(t) == \/ call[t].at \in {"register", "unregister", "destroy", "close"}
           \/ call[t].at = "has" /\ call[t].freesrc
Has(t) == Owns(t) \/ call[t].at = "has"
Checks(t) == call[t].at = "check"
Makes(t, k) == Checks(t) /\ call[t].makes = k
Moves(t, k, a) == call[t].at \in {"register", "destroy"} /\ call[t].kind = k /\ call[t].addr = a

OwnerTypes ==
    /\ heap \in [Addrs -> Kinds \cup {"guestRw", "free"}]
    /\ owners \in [Kinds -> [Addrs -> Nat]]
    /\ left \in [Addrs -> Nat]
    /\ held \subseteq Kinds \X Addrs
    /\ call = [t \in Threads |-> call[t]]
    /\ stopped \in {"no", "full"}

\* Where a thread is tells what it has: c is what it is doing, h the heap.
Shaped(c) ==
    /\ c.at \in {"guest", "check", "register", "unregister", "destroy", "has", "drop", "close"}
    /\ c.at \in {"guest", "register", "drop"} => c.uses = {}
    /\ c.at = "check" =>
          /\ c = [at |-> "check", todo |-> c.todo, makes |-> c.makes, uses |-> c.uses]
          /\ c.uses \subseteq Given \X Addrs /\ c.todo \in Seq(c.uses)
          /\ c.makes \in Kinds \cup {"none"}
          /\ c.makes = "texture" => \E a \in Addrs : <<"renderer", a>> \in c.uses
    /\ c.at = "unregister" => c = [at |-> "unregister", kind |-> c.kind, addr |-> c.addr, uses |-> c.uses]
    /\ c.at \in {"unregister", "destroy"} => c.uses = {<<c.kind, c.addr>>}
    /\ c.at = "has" => c = [at |-> "has", addr |-> c.addr, freesrc |-> c.freesrc, uses |-> c.uses]
    /\ c.at \in {"has", "close"} => c.uses = {<<"rwops", c.addr>>}
    /\ c.at = "drop" => c.addr \in Addrs
Living(c, h) ==
    /\ c.at \in {"register", "unregister", "destroy"} =>
          c.kind \in Kinds /\ c.addr \in Addrs /\ h[c.addr] = c.kind
    /\ c.at \in {"unregister", "destroy"} => c.kind \in {"renderer", "texture", "surface"}
    /\ c.at \in {"has", "close"} => c.addr \in Addrs /\ h[c.addr] \in {"rwops", "guestRw"}

\* What the guest holds lives, and no thread is about to free it.
HeldLive ==
    \A k \in Kinds, a \in Addrs : <<k, a>> \in held =>
        LiveAt(k, a) /\ \A t \in Threads : Owns(t) => call[t].addr # a
HasApart == \A t, u \in Threads : t # u /\ Has(t) /\ Has(u) => call[t].addr # call[u].addr

\* So does what a call was given, until it returns.
UsesLive ==
    \A t \in Threads, k \in Kinds, a \in Addrs : Checks(t) /\ <<k, a>> \in call[t].uses =>
        heap[a] = k /\ \A u \in Threads : Owns(u) => call[u].addr # a

OneRenderer ==
    /\ \A a, b \in Addrs : heap[a] = "renderer" /\ heap[b] = "renderer" => a = b
    /\ \A t \in Threads : Makes(t, "renderer") =>
          /\ \A a \in Addrs : heap[a] # "renderer"
          /\ \A u \in Threads : Makes(u, "renderer") => t = u

\* While the renderer is being destroyed nobody has or makes a texture.
LosesTextures(t) == call[t].at \in {"unregister", "destroy"} /\ call[t].kind = "renderer"
NoTextures ==
    \A t \in Threads : LosesTextures(t) =>
        /\ \A a \in Addrs : <<"texture", a>> \notin held
        /\ \A u \in Threads :
              /\ Checks(u) => call[u].makes # "texture" /\ \A a \in Addrs : <<"texture", a>> \notin call[u].uses
              /\ call[u].at \in {"register", "unregister", "destroy"} => call[u].kind # "texture"

Accounts ==
    \A k \in Given, a \in Addrs :
        owners[k][a] + (IF \E t \in Threads : Moves(t, k, a) THEN 1 ELSE 0) =
            (IF heap[a] = k THEN 1 ELSE 0) + IF k = "texture" THEN left[a] ELSE 0

OwnersInv ==
    /\ OwnerTypes /\ \A t \in Threads : Shaped(call[t]) /\ Living(call[t], heap)
    /\ HeldLive /\ HasApart /\ UsesLive /\ OneRenderer /\ NoTextures /\ Accounts

LEMMA HeadTail ==
    ASSUME NEW S, NEW s \in Seq(S), s # <<>>
    PROVE  Head(s) \in S /\ Tail(s) \in Seq(S)
OBVIOUS

LEMMA PairOf ==
    ASSUME NEW S, NEW T, NEW o \in S \X T
    PROVE  \E x \in S, y \in T : o = <<x, y>>
OBVIOUS

\* One thread goes on and the others stay.
LEMMA Went ==
    ASSUME OwnerTypes, NEW t \in Threads, NEW rec, Goto(t, rec)
    PROVE  /\ call'[t] = rec /\ call' = [u \in Threads |-> call'[u]]
           /\ \A u \in Threads \ {t} :
                /\ call'[u] = call[u]
                /\ Owns(u)' <=> Owns(u)
                /\ Has(u)' <=> Has(u)
                /\ Checks(u)' <=> Checks(u)
                /\ \A k : Makes(u, k)' <=> Makes(u, k)
                /\ \A k, a : Moves(u, k, a)' <=> Moves(u, k, a)
                /\ LosesTextures(u)' <=> LosesTextures(u)
<1>1. /\ call'[t] = rec /\ call' = [u \in Threads |-> call'[u]]
      /\ \A u \in Threads \ {t} : call'[u] = call[u]
  BY DEF OwnerTypes, Goto
<1> QED BY <1>1 DEF Owns, Has, Checks, Makes, Moves, LosesTextures

\* A thread outside of every step that makes, frees or loads something, with
\* uses that are live: nothing of the heap or the tables changes.
LEMMA QuietStep ==
    ASSUME OwnersInv, NEW t \in Threads, NEW rec, Goto(t, rec),
           UNCHANGED <<heap, owners, held, left, stopped>>,
           call[t].at \in {"guest", "check"}, rec.at \in {"guest", "check"},
           Shaped(rec),
           rec.at = "check" => \A k \in Kinds, a \in Addrs : <<k, a>> \in rec.uses =>
               heap[a] = k /\ \A u \in Threads : Owns(u) => call[u].addr # a,
           rec.at = "check" /\ rec.makes = "renderer" =>
               /\ \A a \in Addrs : heap[a] # "renderer"
               /\ \A u \in Threads : Makes(u, "renderer") => t = u,
           rec.at = "check" /\ (rec.makes = "texture" \/ \E a \in Addrs : <<"texture", a>> \in rec.uses) =>
               \A u \in Threads : ~LosesTextures(u)
    PROVE  OwnersInv'
<1>1. /\ call'[t] = rec /\ call' = [u \in Threads |-> call'[u]]
      /\ \A u \in Threads \ {t} :
           /\ call'[u] = call[u]
           /\ Owns(u)' <=> Owns(u)
           /\ Has(u)' <=> Has(u)
           /\ Checks(u)' <=> Checks(u)
           /\ \A k : Makes(u, k)' <=> Makes(u, k)
           /\ \A k, a : Moves(u, k, a)' <=> Moves(u, k, a)
           /\ LosesTextures(u)' <=> LosesTextures(u)
  BY Went DEF OwnersInv
<1>2. /\ ~Owns(t) /\ ~Has(t) /\ ~LosesTextures(t) /\ \A k, a : ~Moves(t, k, a)
      /\ ~Owns(t)' /\ ~Has(t)' /\ ~LosesTextures(t)' /\ \A k, a : ~Moves(t, k, a)'
      /\ Checks(t)' <=> rec.at = "check"
      /\ \A k : Makes(t, k)' <=> rec.at = "check" /\ rec.makes = k
  BY <1>1 DEF Owns, Has, LosesTextures, Moves, Checks, Makes
<1>3. OwnerTypes'
  BY <1>1 DEF OwnersInv, OwnerTypes
<1>4. ASSUME NEW u \in Threads PROVE Shaped(call'[u]) /\ Living(call'[u], heap')
  <2>1. Living(rec, heap')
    BY DEF Living
  <2> QED BY <1>1, <2>1 DEF OwnersInv
<1>5. HeldLive'
  BY <1>1, <1>2 DEF OwnersInv, HeldLive, LiveAt
<1>6. HasApart'
  BY <1>1, <1>2 DEF OwnersInv, HasApart
<1>7. UsesLive'
  <2> SUFFICES ASSUME NEW u \in Threads, NEW k \in Kinds, NEW a \in Addrs, Checks(u)', <<k, a>> \in call'[u].uses
               PROVE  heap[a] = k /\ \A v \in Threads : Owns(v)' => call'[v].addr # a
    BY DEF UsesLive
  <2>1. CASE u = t
    BY <1>1, <1>2, <2>1
  <2>2. CASE u # t
    BY <1>1, <1>2, <2>2 DEF OwnersInv, UsesLive
  <2> QED BY <2>1, <2>2
<1>8. OneRenderer'
  BY <1>1, <1>2 DEF OwnersInv, OneRenderer
<1>9. NoTextures'
  BY <1>1, <1>2 DEF OwnersInv, NoTextures
<1>10. Accounts'
  <2>1. \A k, a : (\E u \in Threads : Moves(u, k, a)') <=> \E u \in Threads : Moves(u, k, a)
    BY <1>1, <1>2
  <2> QED BY <2>1 DEF OwnersInv, Accounts
<1> QED BY <1>3, <1>4, <1>5, <1>6, <1>7, <1>8, <1>9, <1>10 DEF OwnersInv

\* A thread goes on with what it had.
LEMMA GoesOnChecking ==
    ASSUME NEW c, NEW s, c = [at |-> "check", todo |-> c.todo, makes |-> c.makes, uses |-> c.uses]
    PROVE  [c EXCEPT !.todo = s] = [at |-> "check", todo |-> s, makes |-> c.makes, uses |-> c.uses]
<1>1. ASSUME NEW d, NEW m, NEW U, c = [at |-> "check", todo |-> d, makes |-> m, uses |-> U]
      PROVE  [c EXCEPT !.todo = s] = [at |-> "check", todo |-> s, makes |-> m, uses |-> U]
  BY <1>1
<1> QED BY <1>1, Zenon

LEMMA GoesOnToDestroy ==
    ASSUME NEW c, c = [at |-> "unregister", kind |-> c.kind, addr |-> c.addr, uses |-> c.uses]
    PROVE  [c EXCEPT !.at = "destroy"] = [at |-> "destroy", kind |-> c.kind, addr |-> c.addr, uses |-> c.uses]
<1>1. ASSUME NEW k, NEW a, NEW U, c = [at |-> "unregister", kind |-> k, addr |-> a, uses |-> U]
      PROVE  [c EXCEPT !.at = "destroy"] = [at |-> "destroy", kind |-> k, addr |-> a, uses |-> U]
  BY <1>1
<1> QED BY <1>1, Zenon

LEMMA GoesOnToClose ==
    ASSUME NEW c, c = [at |-> "has", addr |-> c.addr, freesrc |-> c.freesrc, uses |-> c.uses]
    PROVE  [c EXCEPT !.at = "close"] = [at |-> "close", addr |-> c.addr, freesrc |-> c.freesrc, uses |-> c.uses]
<1>1. ASSUME NEW a, NEW f, NEW U, c = [at |-> "has", addr |-> a, freesrc |-> f, uses |-> U]
      PROVE  [c EXCEPT !.at = "close"] = [at |-> "close", addr |-> a, freesrc |-> f, uses |-> U]
  BY <1>1
<1> QED BY <1>1, Zenon

LEMMA GoesOnToDrop ==
    ASSUME NEW c, c = [at |-> "has", addr |-> c.addr, freesrc |-> c.freesrc, uses |-> c.uses]
    PROVE  [c EXCEPT !.at = "drop", !.uses = {}] = [at |-> "drop", addr |-> c.addr, freesrc |-> c.freesrc, uses |-> {}]
<1>1. ASSUME NEW a, NEW f, NEW U, c = [at |-> "has", addr |-> a, freesrc |-> f, uses |-> U]
      PROVE  [c EXCEPT !.at = "drop", !.uses = {}] = [at |-> "drop", addr |-> a, freesrc |-> f, uses |-> {}]
  <2> DEFINE d == [c EXCEPT !.at = "drop"]
  <2>1. d = [at |-> "drop", addr |-> a, freesrc |-> f, uses |-> U]
    BY <1>1
  <2>2. [c EXCEPT !.at = "drop", !.uses = {}] = [d EXCEPT !.uses = {}]
    BY Zenon
  <2> HIDE DEF d
  <2>3. [d EXCEPT !.uses = {}] = [at |-> "drop", addr |-> a, freesrc |-> f, uses |-> {}]
    BY <2>1
  <2> QED BY <2>2, <2>3, Zenon
<1> QED BY <1>1, Zenon

\* owner_check: what a call is given is in its table, and the call goes on.
LEMMA OwnerCheckKeeps ==
    ASSUME OwnersInv, NEW t \in Threads, OwnerCheck(t)
    PROVE  OwnersInv'
<1> DEFINE obj == Head(call[t].todo)
           rec == [call[t] EXCEPT !.todo = Tail(@)]
<1>0. Shaped(call[t])
  BY DEF OwnersInv
<1>1. call[t].at = "check" /\ call[t].todo \in Seq(call[t].uses) /\ call[t].todo # <<>>
  BY <1>0 DEF OwnerCheck, Does, Shaped
<1>2. obj \in call[t].uses /\ Tail(call[t].todo) \in Seq(call[t].uses)
  BY <1>1, HeadTail
<1>3. PICK k \in Given, a \in Addrs : obj = <<k, a>>
  <2>1. obj \in Given \X Addrs
    BY <1>0, <1>1, <1>2 DEF Shaped
  <2> HIDE DEF obj
  <2> QED BY <2>1, PairOf
<1>4. heap[a] = k /\ \A u \in Threads : ~Moves(u, k, a)
  <2>1. <<k, a>> \in call[t].uses /\ k \in Kinds /\ Checks(t)
    BY <1>1, <1>2, <1>3 DEF Given, Checks
  <2>2. heap[a] = k /\ \A u \in Threads : Owns(u) => call[u].addr # a
    BY <2>1 DEF OwnersInv, UsesLive
  <2> QED BY <2>2 DEF Owns, Moves
<1>5. owners[k][a] > 0
  BY <1>4 DEF OwnersInv, Accounts, OwnerTypes, Given
<1>6. Goto(t, rec) /\ UNCHANGED <<heap, owners, held, left, stopped>>
  BY <1>3, <1>5 DEF OwnerCheck, OwnerContains
<1>7. rec = [at |-> "check", todo |-> Tail(call[t].todo), makes |-> call[t].makes, uses |-> call[t].uses]
  <2>1. call[t] = [at |-> "check", todo |-> call[t].todo, makes |-> call[t].makes, uses |-> call[t].uses]
    BY <1>0, <1>1 DEF Shaped
  <2> QED BY <2>1, GoesOnChecking, Zenon
<1> HIDE DEF rec
<1>8. /\ rec.at = "check" /\ rec.todo = Tail(call[t].todo) /\ rec.makes = call[t].makes
      /\ rec.uses = call[t].uses
  BY <1>7
<1>9. Shaped(rec)
  BY <1>0, <1>1, <1>2, <1>7, <1>8 DEF Shaped
<1>10. \A k1 \in Kinds, a1 \in Addrs : <<k1, a1>> \in rec.uses =>
           heap[a1] = k1 /\ \A u \in Threads : Owns(u) => call[u].addr # a1
  BY <1>1, <1>8 DEF OwnersInv, UsesLive, Checks
<1>11. rec.makes = "renderer" => /\ \A a1 \in Addrs : heap[a1] # "renderer"
                                 /\ \A u \in Threads : Makes(u, "renderer") => t = u
  <2>1. rec.makes = "renderer" => Makes(t, "renderer")
    BY <1>1, <1>8 DEF Makes, Checks
  <2> QED BY <2>1 DEF OwnersInv, OneRenderer
<1>12. (rec.makes = "texture" \/ \E a1 \in Addrs : <<"texture", a1>> \in rec.uses) =>
           \A u \in Threads : ~LosesTextures(u)
  BY <1>1, <1>8 DEF OwnersInv, NoTextures, Checks
<1> QED BY <1>1, <1>6, <1>8, <1>9, <1>10, <1>11, <1>12, QuietStep

\* What the calls are given and make.
LEMMA CallsAre ==
    ASSUME NEW c \in AllCalls
    PROVE  /\ c.args \in Seq(Given) /\ c.makes \in Kinds \cup {"none"}
           /\ c.makes = "texture" => 1 \in DOMAIN c.args /\ c.args[1] = "renderer"
<1>1. \A args, makes : Call(args, makes).args = args /\ Call(args, makes).makes = makes
  BY DEF Call
<1>2. /\ <<>> \in Seq(Given) /\ <<"window">> \in Seq(Given) /\ <<"renderer">> \in Seq(Given)
      /\ <<"texture">> \in Seq(Given) /\ <<"surface">> \in Seq(Given)
  BY DEF Given, Kinds
<1>3. /\ <<"renderer", "texture">> \in Seq(Given) /\ <<"renderer", "surface">> \in Seq(Given)
      /\ <<"surface", "surface">> \in Seq(Given)
  BY DEF Given, Kinds
<1>4. /\ 1 \in DOMAIN <<"renderer">> /\ <<"renderer">>[1] = "renderer"
      /\ 1 \in DOMAIN <<"renderer", "surface">> /\ <<"renderer", "surface">>[1] = "renderer"
  OBVIOUS
<1>5. PICK args \in {<<>>, <<"window">>, <<"renderer">>, <<"texture">>, <<"surface">>,
                     <<"renderer", "texture">>, <<"renderer", "surface">>, <<"surface", "surface">>},
           makes \in Kinds \cup {"none"} :
        /\ c = Call(args, makes)
        /\ makes = "texture" => args \in {<<"renderer">>, <<"renderer", "surface">>}
  <2> DEFINE Goal == \E args \in {<<>>, <<"window">>, <<"renderer">>, <<"texture">>, <<"surface">>,
                                  <<"renderer", "texture">>, <<"renderer", "surface">>,
                                  <<"surface", "surface">>}, makes \in Kinds \cup {"none"} :
                        /\ c = Call(args, makes)
                        /\ makes = "texture" => args \in {<<"renderer">>, <<"renderer", "surface">>}
  <2>0. /\ "window" \in Kinds \cup {"none"} /\ "renderer" \in Kinds \cup {"none"}
        /\ "texture" \in Kinds \cup {"none"} /\ "surface" \in Kinds \cup {"none"}
        /\ "rwops" \in Kinds \cup {"none"} /\ "none" \in Kinds \cup {"none"}
    BY DEF Kinds
  <2>1. ASSUME c \in WindowCalls PROVE Goal
    BY <2>0, <2>1, Zenon DEF WindowCalls
  <2>2. ASSUME c \in RendererCalls PROVE Goal
    BY <2>0, <2>2, Zenon DEF RendererCalls
  <2>3. ASSUME c \in RenderCopies PROVE Goal
    BY <2>0, <2>3, Zenon DEF RenderCopies
  <2>4. ASSUME c \in TextureCalls PROVE Goal
    BY <2>0, <2>4, Zenon DEF TextureCalls
  <2>5. ASSUME c \in SurfaceCalls PROVE Goal
    BY <2>0, <2>5, Zenon DEF SurfaceCalls
  <2>6. ASSUME c \in Conversions PROVE Goal
    BY <2>0, <2>6, Zenon DEF Conversions
  <2>7. ASSUME c \in FileCalls PROVE Goal
    BY <2>0, <2>7, Zenon DEF FileCalls
  <2>8. Goal
    BY <2>1, <2>2, <2>3, <2>4, <2>5, <2>6, <2>7, Zenon DEF AllCalls
  <2> QED BY <2>8
<1>6. c.args = args /\ c.makes = makes
  BY <1>1, <1>5
<1>7. args \in Seq(Given)
  BY <1>2, <1>3, <1>5, Zenon
<1>8. makes = "texture" => 1 \in DOMAIN args /\ args[1] = "renderer"
  BY <1>4, <1>5, Zenon
<1> QED BY <1>5, <1>6, <1>7, <1>8

\* A renderer that the guest holds is not being destroyed.
LEMMA HeldRenderer ==
    ASSUME OwnersInv, NEW b \in Addrs, <<"renderer", b>> \in held
    PROVE  \A u \in Threads : ~LosesTextures(u)
<1> SUFFICES ASSUME NEW u \in Threads, LosesTextures(u) PROVE FALSE
  OBVIOUS
<1>1. heap[b] = "renderer" /\ (Owns(u) => call[u].addr # b)
  BY DEF OwnersInv, HeldLive, LiveAt, Kinds
<1>2. Owns(u) /\ call[u].addr \in Addrs /\ heap[call[u].addr] = "renderer"
  BY DEF OwnersInv, Living, LosesTextures, Owns
<1> QED BY <1>1, <1>2 DEF OwnersInv, OneRenderer

\* A call begins: it is given what the guest holds.
LEMMA EnterKeeps ==
    ASSUME OwnersInv, NEW t \in Threads, NEW c \in AllCalls, Enter(t, c)
    PROVE  OwnersInv'
<1>1. PICK args \in [DOMAIN c.args -> held] :
          /\ \A i \in DOMAIN c.args : args[i][1] = c.args[i]
          /\ Goto(t, [at |-> "check", todo |-> args, makes |-> c.makes,
                      uses |-> {args[i] : i \in DOMAIN args}])
  BY DEF Enter
<1> DEFINE uses == {args[i] : i \in DOMAIN args}
           rec  == [at |-> "check", todo |-> args, makes |-> c.makes, uses |-> uses]
<1>2. /\ c.args \in Seq(Given) /\ c.makes \in Kinds \cup {"none"}
      /\ c.makes = "texture" => 1 \in DOMAIN c.args /\ c.args[1] = "renderer"
  BY CallsAre
<1>3. DOMAIN c.args = 1..Len(c.args) /\ Len(c.args) \in Nat /\ DOMAIN args = 1..Len(c.args)
  BY <1>2
<1>4. args \in Seq(uses)
  BY <1>3
<1>5. uses \subseteq held
  BY <1>1
<1>6. ASSUME NEW i \in DOMAIN args PROVE args[i] \in Given \X Addrs
  <2>1. args[i] \in Kinds \X Addrs /\ args[i][1] = c.args[i] /\ c.args[i] \in Given
    BY <1>1, <1>2, <1>3 DEF OwnersInv, OwnerTypes
  <2>2. PICK x \in Kinds, y \in Addrs : args[i] = <<x, y>>
    BY <2>1, PairOf
  <2> QED BY <2>1, <2>2
<1>7. c.makes = "texture" => \E a \in Addrs : <<"renderer", a>> \in uses
  <2> SUFFICES ASSUME c.makes = "texture" PROVE \E a \in Addrs : <<"renderer", a>> \in uses
    OBVIOUS
  <2>1. 1 \in DOMAIN args /\ args[1][1] = "renderer"
    BY <1>1, <1>2, <1>3
  <2>2. PICK x \in Given, y \in Addrs : args[1] = <<x, y>>
    BY <1>6, <2>1, PairOf
  <2>3. x = "renderer"
    BY <2>1, <2>2
  <2>4. args[1] \in uses
    BY <2>1
  <2> QED BY <2>2, <2>3, <2>4
<1>8. uses \subseteq Given \X Addrs
  BY <1>6
<1> HIDE DEF uses
<1>9. /\ rec.at = "check" /\ rec.todo = args /\ rec.makes = c.makes /\ rec.uses = uses
      /\ rec = [at |-> "check", todo |-> rec.todo, makes |-> rec.makes, uses |-> rec.uses]
  OBVIOUS
<1>10. Goto(t, rec) /\ UNCHANGED <<heap, owners, held, left, stopped>> /\ call[t].at = "guest" /\ OneOf(c.makes)
  BY <1>1 DEF Enter, Does, uses
<1> HIDE DEF rec
<1>11. Shaped(rec)
  BY <1>2, <1>4, <1>7, <1>8, <1>9 DEF Shaped
<1>12. \A k \in Kinds, a \in Addrs : <<k, a>> \in rec.uses =>
          heap[a] = k /\ \A u \in Threads : Owns(u) => call[u].addr # a
  <2> SUFFICES ASSUME NEW k \in Kinds, NEW a \in Addrs, <<k, a>> \in uses
               PROVE  heap[a] = k /\ \A u \in Threads : Owns(u) => call[u].addr # a
    BY <1>9
  <2>1. k # "rwops"
    BY <1>8 DEF Given
  <2> QED BY <1>5, <2>1 DEF OwnersInv, HeldLive, LiveAt
<1>13. rec.makes = "renderer" => /\ \A a \in Addrs : heap[a] # "renderer"
                                 /\ \A u \in Threads : Makes(u, "renderer") => t = u
  BY <1>9, <1>10 DEF OneOf, Makes, Checks
<1>14. (rec.makes = "texture" \/ \E a \in Addrs : <<"texture", a>> \in rec.uses) =>
          \A u \in Threads : ~LosesTextures(u)
  <2>1. CASE rec.makes = "texture"
    BY <1>5, <1>7, <1>9, <2>1, HeldRenderer
  <2>2. CASE \E a \in Addrs : <<"texture", a>> \in rec.uses
    BY <1>5, <1>9, <2>2 DEF OwnersInv, NoTextures
  <2> QED BY <2>1, <2>2
<1> QED BY <1>9, <1>10, <1>11, <1>12, <1>13, <1>14, QuietStep

\* Whoever has an address has a living one.
LEMMA HasLive ==
    ASSUME OwnersInv, NEW u \in Threads, Has(u)
    PROVE  call[u].addr \in Addrs /\ heap[call[u].addr] # "free"
BY DEF OwnersInv, Living, Has, Owns, Kinds

LEMMA MovesAt ==
    ASSUME OwnersInv, NEW u \in Threads, NEW k, NEW a, Moves(u, k, a)
    PROVE  Has(u) /\ Owns(u) /\ call[u].addr = a /\ heap[a] = k /\ a \in Addrs
BY DEF OwnersInv, Living, Has, Owns, Moves

LEMMA LivingKept ==
    ASSUME NEW c, NEW h, NEW h2, Living(c, h),
           c.at \in {"register", "unregister", "destroy", "has", "close"} => h2[c.addr] = h[c.addr]
    PROVE  Living(c, h2)
BY DEF Living

\* Host SDL makes an object at a free address.
LEMMA MakeKeeps ==
    ASSUME OwnersInv, NEW t \in Threads, NEW a \in Addrs, Checks(t), call[t].makes # "none",
           heap[a] = "free", heap' = [heap EXCEPT ![a] = call[t].makes],
           Goto(t, [at |-> "register", kind |-> call[t].makes, addr |-> a, uses |-> {}]),
           UNCHANGED <<owners, held, left, stopped>>
    PROVE  OwnersInv'
<1> DEFINE k == call[t].makes
           rec == [at |-> "register", kind |-> call[t].makes, addr |-> a, uses |-> {}]
<1>0. k \in Kinds /\ "free" \notin Kinds /\ "guestRw" \notin Kinds
  BY DEF OwnersInv, Shaped, Checks, Kinds
<1>1. /\ call'[t] = rec /\ call' = [u \in Threads |-> call'[u]]
      /\ \A u \in Threads \ {t} :
           /\ call'[u] = call[u]
           /\ Owns(u)' <=> Owns(u)
           /\ Has(u)' <=> Has(u)
           /\ Checks(u)' <=> Checks(u)
           /\ \A q : Makes(u, q)' <=> Makes(u, q)
           /\ \A q, b : Moves(u, q, b)' <=> Moves(u, q, b)
           /\ LosesTextures(u)' <=> LosesTextures(u)
  BY Went DEF OwnersInv
<1>2. rec.at = "register" /\ rec.kind = k /\ rec.addr = a /\ rec.uses = {}
  OBVIOUS
<1> HIDE DEF rec
<1>3. /\ ~Owns(t) /\ ~Has(t) /\ ~LosesTextures(t) /\ \A q, b : ~Moves(t, q, b)
      /\ Owns(t)' /\ Has(t)' /\ ~LosesTextures(t)' /\ ~Checks(t)' /\ \A q : ~Makes(t, q)'
      /\ \A q, b : Moves(t, q, b)' <=> q = k /\ b = a
  BY <1>1, <1>2 DEF Owns, Has, LosesTextures, Moves, Checks, Makes
<1>4. heap'[a] = k /\ \A b \in Addrs \ {a} : heap'[b] = heap[b]
  BY DEF OwnersInv, OwnerTypes
<1>5. OwnerTypes'
  BY <1>0, <1>1 DEF OwnersInv, OwnerTypes
<1>6. ASSUME NEW u \in Threads PROVE Shaped(call'[u]) /\ Living(call'[u], heap')
  <2>1. CASE u = t
    BY <1>0, <1>1, <1>2, <1>4, <2>1 DEF Shaped, Living
  <2>2. CASE u # t
    <3>1. call[u].at \in {"register", "unregister", "destroy", "has", "close"} =>
             heap'[call[u].addr] = heap[call[u].addr]
      BY <1>4, HasLive DEF Has, Owns
    <3> QED BY <1>1, <2>2, <3>1, LivingKept DEF OwnersInv
  <2> QED BY <2>1, <2>2
<1>7. HeldLive'
  <2> SUFFICES ASSUME NEW q \in Kinds, NEW b \in Addrs, <<q, b>> \in held
               PROVE  LiveAt(q, b)' /\ \A u \in Threads : Owns(u)' => call'[u].addr # b
    BY DEF HeldLive
  <2>1. LiveAt(q, b) /\ \A u \in Threads : Owns(u) => call[u].addr # b
    BY DEF OwnersInv, HeldLive
  <2>2. b # a
    BY <1>0, <2>1 DEF LiveAt
  <2> QED BY <1>1, <1>2, <1>3, <1>4, <2>1, <2>2 DEF LiveAt
<1>8. HasApart'
  <2>1. \A u \in Threads : Has(u) => call[u].addr # a
    BY HasLive
  <2> QED BY <1>1, <1>2, <1>3, <2>1 DEF OwnersInv, HasApart
<1>9. UsesLive'
  <2> SUFFICES ASSUME NEW u \in Threads, NEW q \in Kinds, NEW b \in Addrs, Checks(u)', <<q, b>> \in call'[u].uses
               PROVE  heap'[b] = q /\ \A v \in Threads : Owns(v)' => call'[v].addr # b
    BY DEF UsesLive
  <2>1. heap[b] = q /\ \A v \in Threads : Owns(v) => call[v].addr # b
    BY <1>1, <1>3 DEF OwnersInv, UsesLive
  <2>2. b # a
    BY <1>0, <2>1
  <2> QED BY <1>1, <1>2, <1>3, <1>4, <2>1, <2>2
<1>10. OneRenderer'
  <2>1. k = "renderer" => Makes(t, "renderer")
    BY DEF Makes
  <2> QED BY <1>1, <1>3, <1>4, <2>1 DEF OwnersInv, OneRenderer
<1>11. NoTextures'
  <2>1. ASSUME NEW u \in Threads, LosesTextures(u) PROVE k # "texture"
    BY <2>1 DEF OwnersInv, NoTextures
  <2> QED BY <1>1, <1>2, <1>3, <2>1 DEF OwnersInv, NoTextures
<1>12. Accounts'
  <2> SUFFICES ASSUME NEW q \in Given, NEW b \in Addrs
               PROVE  owners[q][b] + (IF \E u \in Threads : Moves(u, q, b)' THEN 1 ELSE 0) =
                        (IF heap'[b] = q THEN 1 ELSE 0) + IF q = "texture" THEN left[b] ELSE 0
    BY DEF Accounts
  <2>1. owners[q][b] + (IF \E u \in Threads : Moves(u, q, b) THEN 1 ELSE 0) =
           (IF heap[b] = q THEN 1 ELSE 0) + IF q = "texture" THEN left[b] ELSE 0
    BY DEF OwnersInv, Accounts
  <2>2. owners[q][b] \in Nat /\ left[b] \in Nat /\ q \in Kinds
    BY DEF OwnersInv, OwnerTypes, Given
  <2>3. CASE q = k /\ b = a
    <3>1. \E u \in Threads : Moves(u, q, b)'
      BY <1>3, <2>3
    <3>2. ~\E u \in Threads : Moves(u, q, b)
      BY <1>0, <2>3, MovesAt
    <3> QED BY <1>0, <1>4, <2>1, <2>2, <2>3, <3>1, <3>2
  <2>4. CASE ~(q = k /\ b = a)
    <3>1. (\E u \in Threads : Moves(u, q, b)') <=> \E u \in Threads : Moves(u, q, b)
      BY <1>1, <1>3, <2>4
    <3>2. heap'[b] = q <=> heap[b] = q
      BY <1>0, <1>4, <2>2, <2>4
    <3> QED BY <2>1, <3>1, <3>2
  <2> QED BY <2>3, <2>4
<1> QED BY <1>5, <1>6, <1>7, <1>8, <1>9, <1>10, <1>11, <1>12 DEF OwnersInv

\* Host SDL does what it was asked, or cannot.
LEMMA SdlDoesKeeps ==
    ASSUME OwnersInv, NEW t \in Threads, SdlDoes(t)
    PROVE  OwnersInv'
<1>1. Checks(t) /\ call[t].at = "check"
  BY DEF SdlDoes, Does, Checks
<1>2. CASE Return(t) /\ UNCHANGED heap
  <2>1. Idle.at = "guest" /\ Idle.uses = {}
    BY DEF Idle
  <2>2. Shaped(Idle)
    BY <2>1 DEF Shaped
  <2>3. Goto(t, Idle) /\ UNCHANGED <<heap, owners, held, left, stopped>>
    BY <1>2 DEF Return, SdlDoes
  <2> QED BY <1>1, <2>1, <2>2, <2>3, QuietStep
<1>3. CASE ~(Return(t) /\ UNCHANGED heap)
  <2>1. PICK a \in Addrs :
           /\ call[t].makes # "none" /\ heap[a] = "free" /\ heap' = [heap EXCEPT ![a] = call[t].makes]
           /\ Goto(t, [at |-> "register", kind |-> call[t].makes, addr |-> a, uses |-> {}])
    BY <1>3 DEF SdlDoes
  <2>2. UNCHANGED <<owners, held, left, stopped>>
    BY DEF SdlDoes
  <2> QED BY <1>1, <2>1, <2>2, MakeKeeps
<1> QED BY <1>2, <1>3

\* A step of one thread that frees addresses nobody else has, takes over or
\* gives up one, and does not begin a call with arguments.
LEMMA OwnerStep ==
    ASSUME OwnersInv, NEW t \in Threads, NEW rec, Goto(t, rec),
           heap' \in [Addrs -> Kinds \cup {"guestRw", "free"}],
           owners' \in [Kinds -> [Addrs -> Nat]], left' \in [Addrs -> Nat],
           held' \subseteq Kinds \X Addrs, stopped' = stopped,
           Shaped(rec), Living(rec, heap'),
           \A b \in Addrs : heap'[b] # heap[b] =>
               /\ heap'[b] = "free"
               /\ \A u \in Threads \ {t} : Has(u) => call[u].addr # b
               /\ \A u \in Threads \ {t}, k \in Kinds : Checks(u) => <<k, b>> \notin call[u].uses
               /\ \A k \in Kinds : <<k, b>> \notin held',
           \A k \in Kinds, b \in Addrs : <<k, b>> \in held' =>
               \/ <<k, b>> \in held
               \/ LiveAt(k, b) /\ Owns(t) /\ call[t].addr = b,
           Owns(t)' =>
               /\ \A k \in Kinds : <<k, rec.addr>> \notin held'
               /\ \A u \in Threads \ {t}, k \in Kinds : Checks(u) => <<k, rec.addr>> \notin call[u].uses,
           Has(t)' => \A u \in Threads \ {t} : Has(u) => call[u].addr # rec.addr,
           rec.at = "check" => rec.uses = {} /\ rec.makes \notin {"renderer", "texture"},
           LosesTextures(t)' =>
               /\ \A a \in Addrs : <<"texture", a>> \notin held'
               /\ \A u \in Threads \ {t} :
                     /\ Checks(u) => call[u].makes # "texture" /\ \A a \in Addrs : <<"texture", a>> \notin call[u].uses
                     /\ call[u].at \in {"register", "unregister", "destroy"} => call[u].kind # "texture",
           \A u \in Threads \ {t} : LosesTextures(u) =>
               /\ \A a \in Addrs : <<"texture", a>> \notin held'
               /\ rec.at \in {"register", "unregister", "destroy"} => rec.kind # "texture",
           Accounts'
    PROVE  OwnersInv'
<1>1. /\ call'[t] = rec /\ call' = [u \in Threads |-> call'[u]]
      /\ \A u \in Threads \ {t} :
           /\ call'[u] = call[u]
           /\ Owns(u)' <=> Owns(u)
           /\ Has(u)' <=> Has(u)
           /\ Checks(u)' <=> Checks(u)
           /\ \A q : Makes(u, q)' <=> Makes(u, q)
           /\ LosesTextures(u)' <=> LosesTextures(u)
  BY Went DEF OwnersInv
<1>2. /\ Checks(t)' <=> rec.at = "check"
      /\ \A q : Makes(t, q)' <=> rec.at = "check" /\ rec.makes = q
  BY <1>1 DEF Checks, Makes
<1>3. OwnerTypes'
  BY <1>1 DEF OwnersInv, OwnerTypes
<1>4. ASSUME NEW u \in Threads PROVE Shaped(call'[u]) /\ Living(call'[u], heap')
  <2>1. CASE u = t
    BY <1>1, <2>1
  <2>2. CASE u # t
    <3>1. call[u].at \in {"register", "unregister", "destroy", "has", "close"} =>
             heap'[call[u].addr] = heap[call[u].addr]
      BY <2>2, HasLive DEF Has, Owns
    <3> QED BY <1>1, <2>2, <3>1, LivingKept DEF OwnersInv
  <2> QED BY <2>1, <2>2
<1>5. HeldLive'
  <2> SUFFICES ASSUME NEW q \in Kinds, NEW b \in Addrs, <<q, b>> \in held'
               PROVE  LiveAt(q, b)' /\ \A u \in Threads : Owns(u)' => call'[u].addr # b
    BY DEF HeldLive
  <2>1. heap'[b] = heap[b]
    OBVIOUS
  <2>2. LiveAt(q, b)
    BY DEF OwnersInv, HeldLive
  <2>3. \A u \in Threads \ {t} : Owns(u) => call[u].addr # b
    BY DEF OwnersInv, HeldLive, HasApart, Has
  <2>4. Owns(t)' => call'[t].addr # b
    BY <1>1
  <2> QED BY <1>1, <2>1, <2>2, <2>3, <2>4 DEF LiveAt
<1>6. HasApart'
  BY <1>1 DEF OwnersInv, HasApart
<1>7. UsesLive'
  <2> SUFFICES ASSUME NEW u \in Threads, NEW q \in Kinds, NEW b \in Addrs, Checks(u)', <<q, b>> \in call'[u].uses
               PROVE  heap'[b] = q /\ \A v \in Threads : Owns(v)' => call'[v].addr # b
    BY DEF UsesLive
  <2>1. u # t
    BY <1>1, <1>2
  <2>2. heap[b] = q /\ \A v \in Threads : Owns(v) => call[v].addr # b
    BY <1>1, <2>1 DEF OwnersInv, UsesLive
  <2>3. heap'[b] = heap[b]
    BY <1>1, <2>1
  <2> QED BY <1>1, <2>1, <2>2, <2>3
<1>8. OneRenderer'
  <2>1. \A b \in Addrs : heap'[b] = "renderer" => heap[b] = "renderer"
    OBVIOUS
  <2>2. \A u \in Threads : Makes(u, "renderer")' => u # t /\ Makes(u, "renderer")
    BY <1>1, <1>2
  <2> QED BY <2>1, <2>2 DEF OwnersInv, OneRenderer
<1>9. NoTextures'
  <2> SUFFICES ASSUME NEW v \in Threads, LosesTextures(v)', NEW u \in Threads
               PROVE  /\ \A a \in Addrs : <<"texture", a>> \notin held'
                      /\ Checks(u)' => call'[u].makes # "texture" /\ \A a \in Addrs : <<"texture", a>> \notin call'[u].uses
                      /\ call'[u].at \in {"register", "unregister", "destroy"} => call'[u].kind # "texture"
    BY DEF NoTextures
  <2>1. CASE v = t /\ u = t
    BY <1>1, <1>2, <2>1 DEF LosesTextures
  <2>2. CASE v = t /\ u # t
    BY <1>1, <2>2
  <2>3. CASE v # t /\ u = t
    BY <1>1, <1>2, <2>3
  <2>4. CASE v # t /\ u # t
    BY <1>1, <2>4 DEF OwnersInv, NoTextures
  <2> QED BY <2>1, <2>2, <2>3, <2>4
<1> QED BY <1>3, <1>4, <1>5, <1>6, <1>7, <1>8, <1>9 DEF OwnersInv

\* Steps that leave heap, tables and movers of counted kinds alone.
LEMMA SameAccounts ==
    ASSUME OwnersInv, UNCHANGED left,
           \A k \in Given, a \in Addrs :
              /\ owners'[k][a] = owners[k][a] /\ (heap'[a] = k <=> heap[a] = k)
              /\ (\E u \in Threads : Moves(u, k, a)') <=> \E u \in Threads : Moves(u, k, a)
    PROVE  Accounts'
BY DEF OwnersInv, Accounts

\* owner_register: the object gets its entry and the guest the object, unless
\* the table is full and the process stops.
LEMMA OwnerRegisterKeeps ==
    ASSUME OwnersInv, NEW t \in Threads, OwnerRegister(t)
    PROVE  OwnersInv'
<1> DEFINE k == call[t].kind
           a == call[t].addr
<1>1. CASE OwnerFull(call[t].kind)
  <2>1. stopped' = "full" /\ UNCHANGED <<heap, owners, held, call, left>>
    BY <1>1 DEF OwnerRegister, Abort
  <2> QED BY <2>1 DEF OwnersInv, OwnerTypes, HeldLive, LiveAt, Owns, HasApart, Has, UsesLive, Checks,
                      OneRenderer, Makes, NoTextures, LosesTextures, Accounts, Moves
<1>2. CASE ~OwnerFull(call[t].kind)
  <2>1. /\ call[t].at = "register" /\ k \in Kinds /\ a \in Addrs /\ heap[a] = k /\ Owns(t) /\ Has(t)
    BY DEF OwnersInv, Living, OwnerRegister, Does, Owns, Has
  <2>2. /\ owners' = [owners EXCEPT ![k][a] = @ + 1] /\ held' = held \cup {<<k, a>>}
        /\ Goto(t, Idle) /\ UNCHANGED <<heap, left, stopped>>
    BY <1>2 DEF OwnerRegister, Return
  <2>3. Idle.at = "guest" /\ Idle.uses = {} /\ Shaped(Idle) /\ Living(Idle, heap')
    BY DEF Idle, Shaped, Living
  <2>4. call'[t] = Idle /\ \A u \in Threads \ {t} : call'[u] = call[u] /\ \A q, b : Moves(u, q, b)' <=> Moves(u, q, b)
    BY <2>2, Went DEF OwnersInv
  <2>5. ~Owns(t)' /\ ~Has(t)' /\ ~LosesTextures(t)' /\ \A q, b : ~Moves(t, q, b)'
    BY <2>3, <2>4 DEF Owns, Has, LosesTextures, Moves
  <2>6. owners \in [Kinds -> [Addrs -> Nat]] /\ heap \in [Addrs -> Kinds \cup {"guestRw", "free"}]
        /\ left \in [Addrs -> Nat] /\ held \subseteq Kinds \X Addrs
    BY DEF OwnersInv, OwnerTypes
  <2> HIDE DEF k, a
  <2>7. /\ owners' \in [Kinds -> [Addrs -> Nat]] /\ owners'[k][a] = owners[k][a] + 1
        /\ \A q \in Kinds, b \in Addrs : ~(q = k /\ b = a) => owners'[q][b] = owners[q][b]
    BY <2>1, <2>2, <2>6
  <2>8. Accounts'
    <3> SUFFICES ASSUME NEW q \in Given, NEW b \in Addrs
                 PROVE  owners'[q][b] + (IF \E u \in Threads : Moves(u, q, b)' THEN 1 ELSE 0) =
                          (IF heap[b] = q THEN 1 ELSE 0) + IF q = "texture" THEN left[b] ELSE 0
      BY <2>2 DEF Accounts
    <3>1. owners[q][b] + (IF \E u \in Threads : Moves(u, q, b) THEN 1 ELSE 0) =
             (IF heap[b] = q THEN 1 ELSE 0) + IF q = "texture" THEN left[b] ELSE 0
      BY DEF OwnersInv, Accounts
    <3>2. owners[q][b] \in Nat /\ left[b] \in Nat /\ q \in Kinds
      BY <2>6 DEF Given
    <3>3. Moves(t, q, b) <=> q = k /\ b = a
      BY <2>1 DEF Moves, k, a
    <3>4. CASE q = k /\ b = a
      <4>1. \A u \in Threads \ {t} : ~Moves(u, q, b)
        BY <2>1, <3>4, MovesAt DEF OwnersInv, HasApart, a
      <4> QED BY <2>4, <2>5, <2>7, <3>1, <3>2, <3>3, <3>4, <4>1
    <3>5. CASE ~(q = k /\ b = a)
      <4>1. (\E u \in Threads : Moves(u, q, b)') <=> \E u \in Threads : Moves(u, q, b)
        BY <2>4, <2>5, <3>3, <3>5
      <4> QED BY <2>7, <3>1, <3>2, <3>5, <4>1
    <3> QED BY <3>4, <3>5
  <2>9. held' \subseteq Kinds \X Addrs
    BY <2>1, <2>2, <2>6
  <2>10. ASSUME NEW q \in Kinds, NEW b \in Addrs, <<q, b>> \in held'
         PROVE  <<q, b>> \in held \/ (LiveAt(q, b) /\ Owns(t) /\ call[t].addr = b)
    BY <2>1, <2>2, <2>10 DEF LiveAt, a
  <2>11. ASSUME NEW u \in Threads \ {t}, LosesTextures(u), NEW b \in Addrs PROVE <<"texture", b>> \notin held'
    BY <2>1, <2>2, <2>11 DEF OwnersInv, NoTextures, k
  <2> QED BY <2>2, <2>3, <2>5, <2>6, <2>7, <2>8, <2>9, <2>10, <2>11, OwnerStep
<1> QED BY <1>1, <1>2

\* DestroyRenderer, DestroyTexture, FreeSurface begin: the guest has given up
\* the object, and with a renderer the textures.
LEMMA DestroyKeeps ==
    ASSUME OwnersInv, NEW t \in Threads, NEW obj \in held, Destroy(t, obj)
    PROVE  OwnersInv'
<1>1. PICK k \in Kinds, a \in Addrs : obj = <<k, a>>
  BY PairOf DEF OwnersInv, OwnerTypes
<1> DEFINE rec == [at |-> "unregister", kind |-> k, addr |-> a, uses |-> {<<k, a>>}]
<1>2. /\ k \in {"renderer", "texture", "surface"} /\ Goto(t, rec) /\ held' = held \ Gone(obj)
      /\ UNCHANGED <<heap, owners, left, stopped>> /\ call[t].at = "guest"
      /\ \A o \in Gone(obj) : ~InUse(o)
      /\ k = "renderer" => \A u \in Threads : call[u].at = "guest"
  BY <1>1 DEF Destroy, Does
<1>3. obj \in Gone(obj) /\ (k = "renderer" => \A b \in Addrs : <<"texture", b>> \in held => <<"texture", b>> \in Gone(obj))
  BY <1>1 DEF Gone
<1>4. /\ rec.at = "unregister" /\ rec.kind = k /\ rec.addr = a /\ rec.uses = {<<k, a>>}
      /\ rec = [at |-> "unregister", kind |-> rec.kind, addr |-> rec.addr, uses |-> rec.uses]
  OBVIOUS
<1> HIDE DEF rec
<1>5. call'[t] = rec /\ \A u \in Threads \ {t} : call'[u] = call[u] /\ \A q, b : Moves(u, q, b)' <=> Moves(u, q, b)
  BY <1>2, Went DEF OwnersInv
<1>6. heap[a] = k /\ \A u \in Threads : Owns(u) => call[u].addr # a
  BY <1>1, <1>2 DEF OwnersInv, HeldLive, LiveAt
<1>7. /\ owners \in [Kinds -> [Addrs -> Nat]] /\ heap \in [Addrs -> Kinds \cup {"guestRw", "free"}]
      /\ left \in [Addrs -> Nat] /\ held \subseteq Kinds \X Addrs
  BY DEF OwnersInv, OwnerTypes
<1>8. Shaped(rec) /\ Living(rec, heap')
  BY <1>2, <1>4, <1>6 DEF Shaped, Living
<1>9. \A q \in Kinds : <<q, a>> \notin held'
  <2> SUFFICES ASSUME NEW q \in Kinds, <<q, a>> \in held' PROVE FALSE
    OBVIOUS
  <2>1. <<q, a>> \in held /\ LiveAt(q, a)
    BY <1>2 DEF OwnersInv, HeldLive
  <2>2. q = k
    BY <1>2, <1>6, <2>1 DEF LiveAt
  <2> QED BY <1>1, <1>2, <1>3, <2>2
<1>10. \A u \in Threads \ {t}, q \in Kinds : Checks(u) => <<q, a>> \notin call[u].uses
  <2> SUFFICES ASSUME NEW u \in Threads \ {t}, NEW q \in Kinds, Checks(u), <<q, a>> \in call[u].uses PROVE FALSE
    OBVIOUS
  <2>1. q = k
    BY <1>6 DEF OwnersInv, UsesLive
  <2> QED BY <1>1, <1>2, <1>3, <2>1 DEF InUse
<1>11. \A u \in Threads \ {t} : Has(u) => call[u].addr # a
  BY <1>2, <1>6 DEF OwnersInv, Living, Has
<1>12. LosesTextures(t)' =>
           /\ \A b \in Addrs : <<"texture", b>> \notin held'
           /\ \A u \in Threads \ {t} :
                 /\ Checks(u) => call[u].makes # "texture" /\ \A b \in Addrs : <<"texture", b>> \notin call[u].uses
                 /\ call[u].at \in {"register", "unregister", "destroy"} => call[u].kind # "texture"
  <2> SUFFICES ASSUME LosesTextures(t)'
               PROVE  /\ \A b \in Addrs : <<"texture", b>> \notin held'
                      /\ \A u \in Threads \ {t} : call[u].at = "guest"
    BY DEF Checks
  <2>1. k = "renderer"
    BY <1>4, <1>5 DEF LosesTextures
  <2> QED BY <1>2, <1>3, <2>1
<1>13. ASSUME NEW u \in Threads \ {t}, LosesTextures(u)
       PROVE  (\A b \in Addrs : <<"texture", b>> \notin held') /\ rec.kind # "texture"
  <2>1. \A b \in Addrs : <<"texture", b>> \notin held
    BY <1>13 DEF OwnersInv, NoTextures
  <2> QED BY <1>1, <1>2, <1>4, <2>1
<1>14. Accounts'
  <2>1. \A q, b : ~Moves(t, q, b) /\ ~Moves(t, q, b)'
    BY <1>2, <1>4, <1>5 DEF Moves
  <2> QED BY <1>2, <1>5, <2>1, SameAccounts
<1>15. held' \subseteq held
  BY <1>2
<1> QED BY <1>2, <1>4, <1>7, <1>8, <1>9, <1>10, <1>11, <1>12, <1>13, <1>14, <1>15, OwnerStep

\* owner_unregister: the entry is there, and goes before the object.
LEMMA OwnerUnregisterKeeps ==
    ASSUME OwnersInv, NEW t \in Threads, OwnerUnregister(t)
    PROVE  OwnersInv'
<1> DEFINE k == call[t].kind
           a == call[t].addr
           rec == [call[t] EXCEPT !.at = "destroy"]
<1>0. Shaped(call[t]) /\ Living(call[t], heap) /\ call[t].at = "unregister"
  BY DEF OwnersInv, OwnerUnregister, Does
<1>1. /\ k \in {"renderer", "texture", "surface"} /\ k \in Given /\ k \in Kinds /\ a \in Addrs /\ heap[a] = k
      /\ Owns(t) /\ Has(t) /\ call[t].uses = {<<k, a>>}
  BY <1>0 DEF Living, Shaped, Owns, Has, Given, Kinds
<1>2. \A u \in Threads : ~Moves(u, k, a)
  <2> SUFFICES ASSUME NEW u \in Threads, Moves(u, k, a) PROVE FALSE
    OBVIOUS
  <2>1. u # t
    BY <1>0 DEF Moves
  <2> QED BY <1>1, <2>1, MovesAt DEF OwnersInv, HasApart
<1>3. owners[k][a] \in Nat /\ left[a] \in Nat
  BY <1>1 DEF OwnersInv, OwnerTypes
<1>4. owners[k][a] + (IF \E u \in Threads : Moves(u, k, a) THEN 1 ELSE 0) =
         (IF heap[a] = k THEN 1 ELSE 0) + IF k = "texture" THEN left[a] ELSE 0
  BY <1>1 DEF OwnersInv, Accounts
<1>5. owners[k][a] > 0
  BY <1>1, <1>2, <1>3, <1>4
<1>6. /\ owners' = [owners EXCEPT ![k][a] = IF @ > 0 THEN @ - 1 ELSE 0] /\ Goto(t, rec)
      /\ UNCHANGED <<heap, held, left, stopped>>
  BY <1>5 DEF OwnerUnregister, OwnerContains, OwnerDrop
<1>7. rec = [at |-> "destroy", kind |-> call[t].kind, addr |-> call[t].addr, uses |-> call[t].uses]
  <2>1. call[t] = [at |-> "unregister", kind |-> call[t].kind, addr |-> call[t].addr, uses |-> call[t].uses]
    BY <1>0 DEF Shaped
  <2> QED BY <2>1, GoesOnToDestroy, Zenon
<1>8. rec.at = "destroy" /\ rec.kind = k /\ rec.addr = a /\ rec.uses = {<<k, a>>}
  BY <1>1, <1>7
<1> HIDE DEF rec, k, a
<1>9. call'[t] = rec /\ \A u \in Threads \ {t} : call'[u] = call[u] /\ \A q, b : Moves(u, q, b)' <=> Moves(u, q, b)
  BY <1>6, Went DEF OwnersInv
<1>10. /\ owners \in [Kinds -> [Addrs -> Nat]] /\ heap \in [Addrs -> Kinds \cup {"guestRw", "free"}]
       /\ left \in [Addrs -> Nat] /\ held \subseteq Kinds \X Addrs
  BY DEF OwnersInv, OwnerTypes
<1>11. /\ owners' \in [Kinds -> [Addrs -> Nat]] /\ owners'[k][a] = owners[k][a] - 1
       /\ \A q \in Kinds, b \in Addrs : ~(q = k /\ b = a) => owners'[q][b] = owners[q][b]
  BY <1>1, <1>3, <1>5, <1>6, <1>10
<1>12. Shaped(rec) /\ Living(rec, heap')
  BY <1>1, <1>6, <1>8 DEF Shaped, Living
<1>13. Accounts'
  <2> SUFFICES ASSUME NEW q \in Given, NEW b \in Addrs
               PROVE  owners'[q][b] + (IF \E u \in Threads : Moves(u, q, b)' THEN 1 ELSE 0) =
                        (IF heap[b] = q THEN 1 ELSE 0) + IF q = "texture" THEN left[b] ELSE 0
    BY <1>6 DEF Accounts
  <2>1. owners[q][b] + (IF \E u \in Threads : Moves(u, q, b) THEN 1 ELSE 0) =
           (IF heap[b] = q THEN 1 ELSE 0) + IF q = "texture" THEN left[b] ELSE 0
    BY DEF OwnersInv, Accounts
  <2>2. (Moves(t, q, b)' <=> q = k /\ b = a) /\ ~Moves(t, q, b) /\ q \in Kinds
    BY <1>0, <1>8, <1>9 DEF Moves, Given
  <2>3. CASE q = k /\ b = a
    <3>1. \E u \in Threads : Moves(u, q, b)'
      BY <2>2, <2>3
    <3> QED BY <1>2, <1>3, <1>11, <2>1, <2>3, <3>1
  <2>4. CASE ~(q = k /\ b = a)
    <3>1. (\E u \in Threads : Moves(u, q, b)') <=> \E u \in Threads : Moves(u, q, b)
      BY <1>9, <2>2, <2>4
    <3> QED BY <1>11, <2>1, <2>2, <2>4, <3>1
  <2> QED BY <2>3, <2>4
<1>14. \A q \in Kinds : <<q, a>> \notin held
  BY <1>1 DEF OwnersInv, HeldLive, a
<1>15. \A u \in Threads \ {t}, q \in Kinds : Checks(u) => <<q, a>> \notin call[u].uses
  BY <1>1 DEF OwnersInv, UsesLive, a
<1>16. \A u \in Threads \ {t} : Has(u) => call[u].addr # a
  BY <1>1 DEF OwnersInv, HasApart, a
<1>17. LosesTextures(t)' => LosesTextures(t)
  BY <1>0, <1>8, <1>9 DEF LosesTextures, k
<1>18. \A u \in Threads \ {t} : LosesTextures(u) => rec.kind # "texture"
  BY <1>0, <1>8 DEF OwnersInv, NoTextures, k
<1>19. \A u \in Threads : LosesTextures(u) =>
           /\ \A b \in Addrs : <<"texture", b>> \notin held
           /\ \A v \in Threads :
                 /\ Checks(v) => call[v].makes # "texture" /\ \A b \in Addrs : <<"texture", b>> \notin call[v].uses
                 /\ call[v].at \in {"register", "unregister", "destroy"} => call[v].kind # "texture"
  BY DEF OwnersInv, NoTextures
<1> QED BY <1>6, <1>8, <1>10, <1>11, <1>12, <1>13, <1>14, <1>15, <1>16, <1>17, <1>18, <1>19, OwnerStep

\* Host SDL frees the object, and a renderer's textures with it.
LEMMA SdlDestroysKeeps ==
    ASSUME OwnersInv, NEW t \in Threads, SdlDestroys(t)
    PROVE  OwnersInv'
<1> DEFINE k == call[t].kind
           a == call[t].addr
           orphans == {b \in Addrs : call[t].kind = "renderer" /\ heap[b] = "texture"}
<1>0. Living(call[t], heap) /\ call[t].at = "destroy"
  BY DEF OwnersInv, SdlDestroys, Does
<1>1. /\ k \in {"renderer", "texture", "surface"} /\ k \in Given /\ k \in Kinds /\ a \in Addrs /\ heap[a] = k
      /\ Owns(t) /\ Has(t) /\ \A q, b : Moves(t, q, b) <=> q = k /\ b = a
  BY <1>0 DEF Living, Owns, Has, Given, Kinds, Moves
<1>2. /\ heap' = [b \in Addrs |-> IF b \in orphans \cup {a} THEN "free" ELSE heap[b]]
      /\ left' = [b \in Addrs |-> IF b \in orphans THEN left[b] + 1 ELSE left[b]]
      /\ Goto(t, Idle) /\ UNCHANGED <<owners, held, stopped>>
  BY DEF SdlDestroys, Return
<1>3. \A b \in orphans : b \in Addrs /\ heap[b] = "texture" /\ LosesTextures(t) /\ k = "renderer"
  BY <1>0 DEF LosesTextures
<1>4. Idle.at = "guest" /\ Idle.uses = {} /\ Shaped(Idle) /\ Living(Idle, heap')
  BY DEF Idle, Shaped, Living
<1>5. k = "renderer" => \A b \in Addrs : heap[b] = "texture" => b \in orphans
  OBVIOUS
<1> HIDE DEF k, a, orphans
<1>6. call'[t] = Idle /\ \A u \in Threads \ {t} : call'[u] = call[u] /\ \A q, b : Moves(u, q, b)' <=> Moves(u, q, b)
  BY <1>2, Went DEF OwnersInv
<1>7. ~Owns(t)' /\ ~Has(t)' /\ ~LosesTextures(t)' /\ \A q, b : ~Moves(t, q, b)'
  BY <1>4, <1>6 DEF Owns, Has, LosesTextures, Moves
<1>8. /\ owners \in [Kinds -> [Addrs -> Nat]] /\ heap \in [Addrs -> Kinds \cup {"guestRw", "free"}]
      /\ left \in [Addrs -> Nat] /\ held \subseteq Kinds \X Addrs
  BY DEF OwnersInv, OwnerTypes
<1>9. heap' \in [Addrs -> Kinds \cup {"guestRw", "free"}] /\ left' \in [Addrs -> Nat]
  BY <1>2, <1>8
<1>10. \A u \in Threads \ {t} : \A q, b : ~(Moves(u, q, b) /\ b = a)
  <2> SUFFICES ASSUME NEW u \in Threads \ {t}, NEW q, NEW b, Moves(u, q, b), b = a PROVE FALSE
    OBVIOUS
  <2> QED BY <1>1, MovesAt DEF OwnersInv, HasApart, a
<1>11. Accounts'
  <2> SUFFICES ASSUME NEW q \in Given, NEW b \in Addrs
               PROVE  owners[q][b] + (IF \E u \in Threads : Moves(u, q, b)' THEN 1 ELSE 0) =
                        (IF heap'[b] = q THEN 1 ELSE 0) + IF q = "texture" THEN left'[b] ELSE 0
    BY <1>2 DEF Accounts
  <2>1. owners[q][b] + (IF \E u \in Threads : Moves(u, q, b) THEN 1 ELSE 0) =
           (IF heap[b] = q THEN 1 ELSE 0) + IF q = "texture" THEN left[b] ELSE 0
    BY DEF OwnersInv, Accounts
  <2>2. owners[q][b] \in Nat /\ left[b] \in Nat /\ q \in Kinds /\ q # "free"
    BY <1>8 DEF Given, Kinds
  <2>3. CASE b = a
    <3>1. ~\E u \in Threads : Moves(u, q, b)'
      BY <1>6, <1>7, <1>10, <2>3
    <3>2. (\E u \in Threads : Moves(u, q, b)) <=> q = k
      BY <1>1, <1>10, <2>3
    <3>3. heap'[b] = "free" /\ left'[b] = left[b]
      BY <1>1, <1>2, <1>3, <2>3
    <3> QED BY <1>1, <2>1, <2>2, <2>3, <3>1, <3>2, <3>3
  <2>4. CASE b # a /\ b \in orphans
    <3>1. (\E u \in Threads : Moves(u, q, b)') <=> \E u \in Threads : Moves(u, q, b)
      BY <1>1, <1>6, <1>7, <2>4
    <3>2. heap'[b] = "free" /\ left'[b] = left[b] + 1 /\ heap[b] = "texture"
      BY <1>2, <1>3, <2>4
    <3>3. heap'[b] # q
      BY <2>2, <3>2
    <3> QED BY <2>1, <2>2, <3>1, <3>2, <3>3
  <2>5. CASE b # a /\ b \notin orphans
    <3>1. (\E u \in Threads : Moves(u, q, b)') <=> \E u \in Threads : Moves(u, q, b)
      BY <1>1, <1>6, <1>7, <2>5
    <3>2. heap'[b] = heap[b] /\ left'[b] = left[b]
      BY <1>2, <2>5
    <3> QED BY <2>1, <3>1, <3>2
  <2> QED BY <2>3, <2>4, <2>5
<1>12. ASSUME NEW b \in Addrs, heap'[b] # heap[b]
       PROVE  /\ heap'[b] = "free"
              /\ \A u \in Threads \ {t} : Has(u) => call[u].addr # b
              /\ \A u \in Threads \ {t}, q \in Kinds : Checks(u) => <<q, b>> \notin call[u].uses
              /\ \A q \in Kinds : <<q, b>> \notin held
  <2>1. heap'[b] = "free" /\ (b = a \/ b \in orphans)
    BY <1>2, <1>12
  <2>2. CASE b = a
    BY <1>1, <2>1, <2>2 DEF OwnersInv, HasApart, UsesLive, HeldLive, a
  <2>3. CASE b \in orphans
    <3>1. heap[b] = "texture" /\ LosesTextures(t)
      BY <1>3, <2>3
    <3>2. \A u \in Threads \ {t} : Has(u) => call[u].addr # b
      BY <3>1 DEF OwnersInv, NoTextures, Living, Has, Owns
    <3>3. \A u \in Threads \ {t}, q \in Kinds : Checks(u) => <<q, b>> \notin call[u].uses
      BY <3>1 DEF OwnersInv, NoTextures, UsesLive
    <3>4. \A q \in Kinds : <<q, b>> \notin held
      BY <3>1 DEF OwnersInv, NoTextures, HeldLive, LiveAt
    <3> QED BY <2>1, <3>2, <3>3, <3>4
  <2> QED BY <2>1, <2>2, <2>3
<1>13. \A u \in Threads : LosesTextures(u) => \A b \in Addrs : <<"texture", b>> \notin held
  BY DEF OwnersInv, NoTextures
<1> QED BY <1>2, <1>4, <1>7, <1>8, <1>9, <1>11, <1>12, <1>13, OwnerStep

\* The guest makes a stream of its own at a free address.
LEMMA GuestOpensKeeps ==
    ASSUME OwnersInv, NEW a \in Addrs, heap[a] = "free", heap' = [heap EXCEPT ![a] = "guestRw"],
           held' = held \cup {<<"rwops", a>>}, UNCHANGED <<owners, call, left, stopped>>
    PROVE  OwnersInv'
<1>1. OwnerTypes /\ \A u \in Threads : Shaped(call[u]) /\ Living(call[u], heap)
  BY DEF OwnersInv
<1>2. heap'[a] = "guestRw" /\ \A b \in Addrs \ {a} : heap'[b] = heap[b]
  BY <1>1 DEF OwnerTypes
<1>3. \A u \in Threads : Has(u) => call[u].addr \in Addrs /\ call[u].addr # a
  BY HasLive
<1>4. OwnerTypes'
  BY <1>1 DEF OwnerTypes, Kinds
<1>5. ASSUME NEW u \in Threads PROVE Shaped(call'[u]) /\ Living(call'[u], heap')
  <2>1. call[u].at \in {"register", "unregister", "destroy", "has", "close"} =>
           heap'[call[u].addr] = heap[call[u].addr]
    BY <1>2, <1>3 DEF Has, Owns
  <2> QED BY <1>1, <2>1, LivingKept
<1>6. HeldLive'
  <2> SUFFICES ASSUME NEW q \in Kinds, NEW b \in Addrs, <<q, b>> \in held'
               PROVE  LiveAt(q, b)' /\ \A u \in Threads : Owns(u)' => call'[u].addr # b
    BY DEF HeldLive
  <2>1. CASE b = a
    <3>1. <<q, b>> \notin held
      BY <2>1 DEF OwnersInv, HeldLive, LiveAt, Kinds
    <3>2. q = "rwops"
      BY <3>1
    <3> QED BY <1>2, <1>3, <2>1, <3>2 DEF LiveAt, Has, Owns
  <2>2. CASE b # a
    <3>1. <<q, b>> \in held
      BY <2>2
    <3>2. LiveAt(q, b) /\ \A u \in Threads : Owns(u) => call[u].addr # b
      BY <3>1 DEF OwnersInv, HeldLive
    <3> QED BY <1>2, <2>2, <3>2 DEF LiveAt, Owns
  <2> QED BY <2>1, <2>2
<1>7. HasApart'
  BY DEF OwnersInv, HasApart, Has, Owns
<1>8. UsesLive'
  <2> SUFFICES ASSUME NEW u \in Threads, NEW q \in Kinds, NEW b \in Addrs, Checks(u), <<q, b>> \in call[u].uses
               PROVE  heap'[b] = q /\ \A v \in Threads : Owns(v) => call[v].addr # b
    BY DEF UsesLive, Checks, Owns
  <2>1. heap[b] = q /\ \A v \in Threads : Owns(v) => call[v].addr # b
    BY DEF OwnersInv, UsesLive
  <2> QED BY <1>2, <2>1 DEF Kinds
<1>9. OneRenderer'
  <2>1. \A b \in Addrs : heap'[b] = "renderer" => heap[b] = "renderer"
    BY <1>2
  <2> QED BY <2>1 DEF OwnersInv, OneRenderer, Makes, Checks
<1>10. NoTextures'
  <2>1. \A b \in Addrs : <<"texture", b>> \in held' => <<"texture", b>> \in held
    OBVIOUS
  <2> QED BY <2>1 DEF OwnersInv, NoTextures, LosesTextures, Checks
<1>11. Accounts'
  <2>1. \A k \in Given, b \in Addrs : heap'[b] = k <=> heap[b] = k
    BY <1>2 DEF Given, Kinds
  <2>2. \A u \in Threads : \A k, b : Moves(u, k, b)' <=> Moves(u, k, b)
    BY DEF Moves
  <2> QED BY <2>1, <2>2, SameAccounts
<1> QED BY <1>4, <1>5, <1>6, <1>7, <1>8, <1>9, <1>10, <1>11 DEF OwnersInv

\* A held stream that no call was given is nobody else's.
LEMMA StreamIsApart ==
    ASSUME OwnersInv, NEW a \in Addrs, <<"rwops", a>> \in held, ~InUse(<<"rwops", a>>)
    PROVE  /\ heap[a] \in {"rwops", "guestRw"}
           /\ \A u \in Threads : Has(u) => call[u].addr # a
           /\ \A u \in Threads, k \in Kinds : Checks(u) => <<k, a>> \notin call[u].uses
           /\ \A k \in Kinds : <<k, a>> \in held => k = "rwops"
<1>1. heap[a] \in {"rwops", "guestRw"} /\ \A u \in Threads : Owns(u) => call[u].addr # a
  BY DEF OwnersInv, HeldLive, LiveAt, Kinds
<1>2. \A u \in Threads : Shaped(call[u]) /\ Living(call[u], heap)
  BY DEF OwnersInv
<1>3. ASSUME NEW u \in Threads, Has(u) PROVE call[u].addr # a
  <2>1. CASE Owns(u)
    BY <1>1, <2>1
  <2>2. CASE call[u].at = "has"
    <3>1. call[u].uses = {<<"rwops", call[u].addr>>}
      BY <1>2, <2>2 DEF Shaped
    <3> QED BY <3>1 DEF InUse
  <2> QED BY <1>3, <2>1, <2>2 DEF Has
<1>4. ASSUME NEW u \in Threads, NEW k \in Kinds, Checks(u), <<k, a>> \in call[u].uses PROVE FALSE
  <2>1. heap[a] = k
    BY <1>4 DEF OwnersInv, UsesLive
  <2>2. k = "rwops"
    BY <1>1, <2>1 DEF Kinds
  <2> QED BY <1>4, <2>2 DEF InUse
<1>5. ASSUME NEW k \in Kinds, <<k, a>> \in held PROVE k = "rwops"
  <2>1. LiveAt(k, a)
    BY <1>5 DEF OwnersInv, HeldLive
  <2> QED BY <1>1, <2>1 DEF LiveAt, Kinds
<1> QED BY <1>1, <1>3, <1>4, <1>5

LEMMA GuestStreamKeeps ==
    ASSUME OwnersInv, NEW t \in Threads, NEW a \in Addrs, GuestStream(t, a)
    PROVE  OwnersInv'
<1>0. UNCHANGED <<owners, call, left, stopped>> /\ call[t].at = "guest"
  BY DEF GuestStream, Does
<1>1. CASE heap[a] = "free" /\ heap' = [heap EXCEPT ![a] = "guestRw"] /\ held' = held \cup {<<"rwops", a>>}
  BY <1>0, <1>1, GuestOpensKeeps
<1>2. CASE /\ <<"rwops", a>> \in held /\ ~InUse(<<"rwops", a>>)
           /\ heap' = [heap EXCEPT ![a] = "free"] /\ held' = held \ {<<"rwops", a>>}
  <2>1. /\ heap[a] \in {"rwops", "guestRw"}
        /\ \A u \in Threads : Has(u) => call[u].addr # a
        /\ \A u \in Threads, k \in Kinds : Checks(u) => <<k, a>> \notin call[u].uses
        /\ \A k \in Kinds : <<k, a>> \in held => k = "rwops"
    BY <1>2, StreamIsApart
  <2>2. /\ owners \in [Kinds -> [Addrs -> Nat]] /\ heap \in [Addrs -> Kinds \cup {"guestRw", "free"}]
        /\ left \in [Addrs -> Nat] /\ held \subseteq Kinds \X Addrs /\ call = [u \in Threads |-> call[u]]
    BY DEF OwnersInv, OwnerTypes
  <2> DEFINE rec == call[t]
  <2>3. Goto(t, rec)
    BY <1>0, <2>2 DEF Goto
  <2>4. Shaped(rec) /\ Living(rec, heap')
    BY <1>0 DEF OwnersInv, Living
  <2>5. ~Owns(t)' /\ ~Has(t)' /\ ~LosesTextures(t)' /\ rec.at = "guest"
    BY <1>0 DEF Owns, Has, LosesTextures
  <2> HIDE DEF rec
  <2>6. heap'[a] = "free" /\ \A b \in Addrs : heap'[b] # heap[b] => b = a
    BY <1>2, <2>2
  <2>7. heap' \in [Addrs -> Kinds \cup {"guestRw", "free"}] /\ held' \subseteq held
    BY <1>2, <2>2
  <2>8. \A k \in Kinds : <<k, a>> \notin held'
    BY <1>2, <2>1
  <2>9. \A u \in Threads : LosesTextures(u) => \A b \in Addrs : <<"texture", b>> \notin held
    BY DEF OwnersInv, NoTextures
  <2>10. Accounts'
    <3>1. \A k \in Given, b \in Addrs : heap'[b] = k <=> heap[b] = k
      BY <2>1, <2>6 DEF Given, Kinds
    <3>2. \A u \in Threads : \A k, b : Moves(u, k, b)' <=> Moves(u, k, b)
      BY <1>0 DEF Moves
    <3> QED BY <1>0, <3>1, <3>2, SameAccounts
  <2> QED BY <1>0, <2>1, <2>2, <2>3, <2>4, <2>5, <2>6, <2>7, <2>8, <2>9, <2>10, OwnerStep
<1> QED BY <1>1, <1>2 DEF GuestStream

\* IMG_Load_RW: the call has the stream, and with freesrc the guest does not.
LEMMA ImgLoadKeeps ==
    ASSUME OwnersInv, NEW t \in Threads, NEW a \in Addrs, NEW freesrc \in BOOLEAN, ImgLoad(t, a, freesrc)
    PROVE  OwnersInv'
<1> DEFINE rec == [at |-> "has", addr |-> a, freesrc |-> freesrc, uses |-> {<<"rwops", a>>}]
<1>1. /\ Goto(t, rec) /\ UNCHANGED <<heap, owners, left, stopped>> /\ call[t].at = "guest"
      /\ <<"rwops", a>> \in held /\ ~InUse(<<"rwops", a>>)
      /\ held' = IF freesrc THEN held \ {<<"rwops", a>>} ELSE held
  BY DEF ImgLoad, Does
<1>2. /\ heap[a] \in {"rwops", "guestRw"}
      /\ \A u \in Threads : Has(u) => call[u].addr # a
      /\ \A u \in Threads, k \in Kinds : Checks(u) => <<k, a>> \notin call[u].uses
      /\ \A k \in Kinds : <<k, a>> \in held => k = "rwops"
  BY <1>1, StreamIsApart
<1>3. /\ rec.at = "has" /\ rec.addr = a /\ rec.freesrc = freesrc /\ rec.uses = {<<"rwops", a>>}
      /\ rec = [at |-> "has", addr |-> rec.addr, freesrc |-> rec.freesrc, uses |-> rec.uses]
  OBVIOUS
<1> HIDE DEF rec
<1>4. /\ owners \in [Kinds -> [Addrs -> Nat]] /\ heap \in [Addrs -> Kinds \cup {"guestRw", "free"}]
      /\ left \in [Addrs -> Nat] /\ held \subseteq Kinds \X Addrs
  BY DEF OwnersInv, OwnerTypes
<1>5. call'[t] = rec /\ \A u \in Threads \ {t} : call'[u] = call[u] /\ \A q, b : Moves(u, q, b)' <=> Moves(u, q, b)
  BY <1>1, Went DEF OwnersInv
<1>6. Shaped(rec) /\ Living(rec, heap')
  BY <1>1, <1>2, <1>3 DEF Shaped, Living
<1>7. ~LosesTextures(t)' /\ (Owns(t)' => freesrc) /\ \A q, b : ~Moves(t, q, b) /\ ~Moves(t, q, b)'
  BY <1>1, <1>3, <1>5 DEF LosesTextures, Owns, Moves
<1>8. held' \subseteq held /\ (freesrc => \A k \in Kinds : <<k, a>> \notin held')
  BY <1>1, <1>2
<1>9. \A u \in Threads : LosesTextures(u) => \A b \in Addrs : <<"texture", b>> \notin held
  BY DEF OwnersInv, NoTextures
<1>10. Accounts'
  BY <1>1, <1>5, <1>7, SameAccounts
<1> QED BY <1>1, <1>2, <1>3, <1>4, <1>6, <1>7, <1>8, <1>9, <1>10, OwnerStep

\* What a call does with the stream it has: no counted table changes, and
\* only a stream that is the call's is freed.
LEMMA StreamStep ==
    ASSUME OwnersInv, NEW t \in Threads, NEW rec, Goto(t, rec),
           call[t].at \in {"has", "drop", "close"}, rec.at \in {"check", "drop", "close"}, Shaped(rec),
           rec.at = "check" => rec.uses = {} /\ rec.makes = "surface",
           rec.at = "close" => Owns(t) /\ rec.addr = call[t].addr,
           UNCHANGED <<held, left, stopped>>,
           owners' \in [Kinds -> [Addrs -> Nat]], \A k \in Given : owners'[k] = owners[k],
           \/ heap' = heap
           \/ Owns(t) /\ rec.at # "close" /\ heap' = [heap EXCEPT ![call[t].addr] = "free"]
    PROVE  OwnersInv'
<1> DEFINE a == call[t].addr
<1>1. /\ owners \in [Kinds -> [Addrs -> Nat]] /\ heap \in [Addrs -> Kinds \cup {"guestRw", "free"}]
      /\ left \in [Addrs -> Nat] /\ held \subseteq Kinds \X Addrs
  BY DEF OwnersInv, OwnerTypes
<1>2. Owns(t) => /\ Has(t) /\ a \in Addrs /\ heap[a] \in {"rwops", "guestRw"}
                 /\ \A k \in Kinds : <<k, a>> \notin held
                 /\ \A u \in Threads \ {t} : Has(u) => call[u].addr # a
                 /\ \A u \in Threads \ {t}, k \in Kinds : Checks(u) => <<k, a>> \notin call[u].uses
  <2> SUFFICES ASSUME Owns(t)
               PROVE  /\ Has(t) /\ a \in Addrs /\ heap[a] \in {"rwops", "guestRw"}
                      /\ \A k \in Kinds : <<k, a>> \notin held
                      /\ \A u \in Threads \ {t} : Has(u) => call[u].addr # a
                      /\ \A u \in Threads \ {t}, k \in Kinds : Checks(u) => <<k, a>> \notin call[u].uses
    OBVIOUS
  <2>1. Has(t) /\ a \in Addrs /\ heap[a] \in {"rwops", "guestRw"}
    BY DEF Has, Owns, OwnersInv, Living
  <2>2. \A k \in Kinds : <<k, a>> \notin held
    BY <2>1 DEF OwnersInv, HeldLive
  <2>3. \A u \in Threads \ {t} : Has(u) => call[u].addr # a
    BY <2>1 DEF OwnersInv, HasApart
  <2>4. \A u \in Threads \ {t}, k \in Kinds : Checks(u) => <<k, a>> \notin call[u].uses
    BY <2>1 DEF OwnersInv, UsesLive
  <2> QED BY <2>1, <2>2, <2>3, <2>4
<1> HIDE DEF a
<1>3. \A b \in Addrs : heap'[b] # heap[b] => b = a /\ heap'[b] = "free" /\ Owns(t)
  BY <1>1, <1>2 DEF a
<1>4. heap' \in [Addrs -> Kinds \cup {"guestRw", "free"}]
  BY <1>1
<1>5. Living(rec, heap')
  BY <1>2 DEF Living, a
<1>6. call'[t] = rec /\ \A u \in Threads \ {t} : call'[u] = call[u] /\ \A q, b : Moves(u, q, b)' <=> Moves(u, q, b)
  BY Went DEF OwnersInv
<1>7. /\ ~LosesTextures(t)' /\ (Has(t)' => rec.at = "close") /\ (Owns(t)' => rec.at = "close")
      /\ \A q, b : ~Moves(t, q, b) /\ ~Moves(t, q, b)'
  BY <1>6 DEF LosesTextures, Owns, Has, Moves
<1>8. \A u \in Threads : LosesTextures(u) => \A b \in Addrs : <<"texture", b>> \notin held
  BY DEF OwnersInv, NoTextures
<1>9. Accounts'
  <2>1. \A k \in Given, b \in Addrs : heap'[b] = k <=> heap[b] = k
    BY <1>2, <1>3 DEF Given, Kinds
  <2> QED BY <1>6, <1>7, <2>1, SameAccounts
<1>10. rec.at = "close" => rec.addr = a
  BY DEF a
<1> QED BY <1>1, <1>2, <1>3, <1>4, <1>5, <1>7, <1>8, <1>9, <1>10, OwnerStep

LEMMA StreamTable ==
    ASSUME OwnersInv, NEW a \in Addrs, OwnerDrop("rwops", a)
    PROVE  owners' \in [Kinds -> [Addrs -> Nat]] /\ \A k \in Given : owners'[k] = owners[k]
<1>1. owners \in [Kinds -> [Addrs -> Nat]] /\ "rwops" \in Kinds /\ owners["rwops"][a] \in Nat
  BY DEF OwnersInv, OwnerTypes, Kinds
<1>2. \A k \in Given : k \in Kinds /\ k # "rwops"
  BY DEF Given
<1> QED BY <1>1, <1>2 DEF OwnerDrop

LEMMA DecodedIs ==
    ASSUME NEW t \in Threads, Decoded(t)
    PROVE  \E rec : Goto(t, rec) /\ Shaped(rec) /\ rec.at = "check" /\ rec.uses = {} /\ rec.makes = "surface"
<1> DEFINE rec == [at |-> "check", todo |-> <<>>, makes |-> "surface", uses |-> {}]
<1>1. rec.at = "check" /\ rec.uses = {} /\ rec.makes = "surface" /\ rec.todo = <<>> /\ Goto(t, rec)
  BY DEF Decoded
<1>2. rec = [at |-> "check", todo |-> rec.todo, makes |-> rec.makes, uses |-> rec.uses]
  OBVIOUS
<1> HIDE DEF rec
<1>3. rec.todo \in Seq(rec.uses)
  BY <1>1
<1>4. Shaped(rec)
  BY <1>1, <1>2, <1>3 DEF Shaped, Kinds
<1> QED BY <1>1, <1>4

\* load_typed_rw, its owner_drop and guest_rw_close.
LEMMA LoadTypedRwKeeps ==
    ASSUME OwnersInv, NEW t \in Threads, LoadTypedRw(t)
    PROVE  OwnersInv'
<1> DEFINE a == call[t].addr
           f == call[t].freesrc
<1>1. call[t].at = "has" /\ UNCHANGED <<owners, held, left, stopped>> /\ Shaped(call[t])
  BY DEF LoadTypedRw, Does, OwnersInv
<1>2. call[t] = [at |-> "has", addr |-> a, freesrc |-> f, uses |-> call[t].uses]
      /\ call[t].uses = {<<"rwops", a>>} /\ a \in Addrs
  BY <1>1 DEF Shaped, OwnersInv, Living
<1>3. owners' \in [Kinds -> [Addrs -> Nat]] /\ \A k \in Given : owners'[k] = owners[k]
  BY <1>1 DEF OwnersInv, OwnerTypes
<1>4. CASE ~f
  <2>1. Decoded(t) /\ UNCHANGED heap
    BY <1>4 DEF LoadTypedRw
  <2> QED BY <1>1, <1>3, <2>1, DecodedIs, StreamStep
<1>5. CASE f /\ OwnerContains("rwops", a)
  <2> DEFINE rec == [call[t] EXCEPT !.at = "drop", !.uses = {}]
  <2>1. heap' = [heap EXCEPT ![a] = "free"] /\ Goto(t, rec)
    BY <1>5 DEF LoadTypedRw
  <2>2. rec = [at |-> "drop", addr |-> a, freesrc |-> f, uses |-> {}]
    <3>1. call[t] = [at |-> "has", addr |-> call[t].addr, freesrc |-> call[t].freesrc, uses |-> call[t].uses]
      BY <1>2
    <3> QED BY <3>1, GoesOnToDrop, Zenon
  <2> HIDE DEF rec
  <2>3. rec.at = "drop" /\ rec.addr = a /\ rec.uses = {}
    BY <2>2
  <2>4. Shaped(rec)
    BY <1>2, <2>3 DEF Shaped
  <2>5. Owns(t)
    BY <1>1, <1>5 DEF Owns
  <2> QED BY <1>1, <1>3, <2>1, <2>3, <2>4, <2>5, StreamStep
<1>6. CASE f /\ ~OwnerContains("rwops", a)
  <2> DEFINE rec == [call[t] EXCEPT !.at = "close"]
  <2>1. heap' = heap /\ Goto(t, rec)
    BY <1>6 DEF LoadTypedRw
  <2>2. rec = [at |-> "close", addr |-> a, freesrc |-> f, uses |-> call[t].uses]
    <3>1. call[t] = [at |-> "has", addr |-> call[t].addr, freesrc |-> call[t].freesrc, uses |-> call[t].uses]
      BY <1>2
    <3> QED BY <3>1, GoesOnToClose, Zenon
  <2> HIDE DEF rec
  <2>3. rec.at = "close" /\ rec.addr = a /\ rec.uses = {<<"rwops", a>>}
    BY <1>2, <2>2
  <2>4. Shaped(rec)
    BY <1>2, <2>3 DEF Shaped
  <2>5. Owns(t)
    BY <1>1, <1>6 DEF Owns
  <2> QED BY <1>1, <1>3, <2>1, <2>3, <2>4, <2>5, StreamStep
<1> QED BY <1>4, <1>5, <1>6

LEMMA DropStreamKeeps ==
    ASSUME OwnersInv, NEW t \in Threads, DropStream(t)
    PROVE  OwnersInv'
<1>1. call[t].at = "drop" /\ UNCHANGED <<heap, held, left, stopped>> /\ OwnerDrop("rwops", call[t].addr) /\ Decoded(t)
  BY DEF DropStream, Does
<1>2. call[t].addr \in Addrs
  BY <1>1 DEF OwnersInv, Shaped
<1> QED BY <1>1, <1>2, StreamTable, DecodedIs, StreamStep

LEMMA GuestRwCloseKeeps ==
    ASSUME OwnersInv, NEW t \in Threads, GuestRwClose(t)
    PROVE  OwnersInv'
<1>1. /\ call[t].at = "close" /\ UNCHANGED <<held, left, stopped>> /\ OwnerDrop("rwops", call[t].addr)
      /\ heap' = [heap EXCEPT ![call[t].addr] = "free"] /\ Decoded(t)
  BY DEF GuestRwClose, Does
<1>2. call[t].addr \in Addrs /\ Owns(t)
  BY <1>1 DEF OwnersInv, Living, Owns
<1>3. PICK rec : Goto(t, rec) /\ Shaped(rec) /\ rec.at = "check" /\ rec.uses = {} /\ rec.makes = "surface"
  BY <1>1, DecodedIs
<1> QED BY <1>1, <1>2, <1>3, StreamTable, StreamStep

LEMMA OwnersInitial == OwnersInit => OwnersInv
<1> SUFFICES ASSUME OwnersInit PROVE OwnersInv
  OBVIOUS
<1>1. /\ heap = [a \in Addrs |-> "free"] /\ left = [a \in Addrs |-> 0] /\ held = {} /\ stopped = "no"
      /\ owners = [k \in Kinds |-> [a \in Addrs |-> 0]] /\ call = [t \in Threads |-> Idle]
  BY DEF OwnersInit
<1>2. \A t \in Threads : call[t] = Idle /\ call[t].at = "guest" /\ call[t].uses = {}
  BY <1>1 DEF Idle
<1>3. OwnerTypes
  BY <1>1 DEF OwnerTypes
<1>4. ASSUME NEW t \in Threads PROVE Shaped(call[t]) /\ Living(call[t], heap)
  BY <1>2 DEF Shaped, Living
<1>5. HeldLive /\ HasApart /\ UsesLive /\ NoTextures
  BY <1>1, <1>2 DEF HeldLive, HasApart, UsesLive, NoTextures, Has, Owns, Checks, LosesTextures
<1>6. OneRenderer
  BY <1>1, <1>2 DEF OneRenderer, Makes, Checks
<1>7. Accounts
  <2> SUFFICES ASSUME NEW k \in Given, NEW a \in Addrs
               PROVE  owners[k][a] + (IF \E t \in Threads : Moves(t, k, a) THEN 1 ELSE 0) =
                        (IF heap[a] = k THEN 1 ELSE 0) + IF k = "texture" THEN left[a] ELSE 0
    BY DEF Accounts
  <2>1. k \in Kinds /\ k # "free" /\ ~\E t \in Threads : Moves(t, k, a)
    BY <1>2 DEF Given, Kinds, Moves
  <2> QED BY <1>1, <2>1
<1> QED BY <1>3, <1>4, <1>5, <1>6, <1>7 DEF OwnersInv

LEMMA OwnersStep == OwnersInv /\ [OwnersNext]_ownerVars => OwnersInv'
<1> SUFFICES ASSUME OwnersInv, [OwnersNext]_ownerVars PROVE OwnersInv'
  OBVIOUS
<1>1. CASE UNCHANGED ownerVars
  <2>1. UNCHANGED <<heap, owners, held, call, left, stopped>>
    BY <1>1 DEF ownerVars
  <2>2. OwnerTypes' /\ \A t \in Threads : Shaped(call'[t]) /\ Living(call'[t], heap')
    BY <2>1 DEF OwnersInv, OwnerTypes
  <2>3. HeldLive' /\ HasApart' /\ UsesLive'
    BY <2>1 DEF OwnersInv, HeldLive, HasApart, UsesLive, LiveAt, Has, Owns, Checks
  <2>4. OneRenderer' /\ NoTextures'
    BY <2>1 DEF OwnersInv, OneRenderer, NoTextures, Makes, Checks, LosesTextures
  <2>5. Accounts'
    BY <2>1, SameAccounts DEF Moves
  <2> QED BY <2>2, <2>3, <2>4, <2>5 DEF OwnersInv
<1>2. CASE OwnersNext
  <2>1. PICK t \in Threads :
            \/ \E c \in AllCalls : Enter(t, c)
            \/ OwnerCheck(t) \/ SdlDoes(t) \/ OwnerRegister(t)
            \/ \E obj \in held : Destroy(t, obj)
            \/ OwnerUnregister(t) \/ SdlDestroys(t)
            \/ \E a \in Addrs : GuestStream(t, a)
            \/ \E a \in Addrs, freesrc \in BOOLEAN : ImgLoad(t, a, freesrc)
            \/ LoadTypedRw(t) \/ DropStream(t) \/ GuestRwClose(t)
    BY <1>2 DEF OwnersNext
  <2> QED BY <2>1, EnterKeeps, OwnerCheckKeeps, SdlDoesKeeps, OwnerRegisterKeeps, DestroyKeeps,
             OwnerUnregisterKeeps, SdlDestroysKeeps, GuestStreamKeeps, ImgLoadKeeps,
             LoadTypedRwKeeps, DropStreamKeeps, GuestRwCloseKeeps
<1> QED BY <1>1, <1>2

\* At most one thread is between an object and its entry.
LEMMA OneMover ==
    ASSUME OwnersInv, NEW k \in Given, NEW a \in Addrs
    PROVE  Moving(k, a) = IF \E t \in Threads : Moves(t, k, a) THEN 1 ELSE 0
<1> DEFINE movers == {t \in Threads : Moves(t, k, a)}
<1>1. Moving(k, a) = Cardinality(movers)
  BY DEF Moving, Moves
<1>2. CASE \E t \in Threads : Moves(t, k, a)
  <2>1. PICK t \in Threads : Moves(t, k, a)
    BY <1>2
  <2>2. ASSUME NEW u \in Threads, Moves(u, k, a) PROVE u = t
    BY <2>1, <2>2, MovesAt DEF OwnersInv, HasApart
  <2>3. movers = {t}
    BY <2>1, <2>2
  <2> QED BY <1>1, <1>2, <2>3, FS_Singleton
<1>3. CASE ~\E t \in Threads : Moves(t, k, a)
  <2>1. movers = {}
    BY <1>3
  <2> QED BY <1>1, <1>3, <2>1, FS_EmptySet
<1> QED BY <1>2, <1>3

\* owner_register, owner_unregister, owner_check: for any number of threads,
\* any heap and any capacity of the tables, the tables say what lives, and no
\* thread that passes what the guest holds is stopped as foreign.  Two threads
\* never have the same address between an object and its entry, which is what
\* lets the two steps be separate.
THEOREM OwnersNeverForeign == OwnersInit /\ [][OwnersNext]_ownerVars => []OwnersAccounted
<1>1. OwnersInv => OwnersAccounted
  <2> SUFFICES ASSUME OwnersInv PROVE OwnersAccounted
    OBVIOUS
  <2>1. stopped # "foreign"
    BY DEF OwnersInv, OwnerTypes
  <2>2. ASSUME NEW k \in Kinds \ {"rwops"}, NEW a \in Addrs
        PROVE  owners[k][a] + Moving(k, a) =
                   (IF heap[a] = k THEN 1 ELSE 0) + IF k = "texture" THEN left[a] ELSE 0
    BY OneMover DEF OwnersInv, Accounts, Given
  <2> QED BY <2>1, <2>2 DEF OwnersAccounted
<1> QED BY <1>1, OwnersInitial, OwnersStep, PTL

-----------------------------------------------------------------------------
(* Where pad events go.                                                    *)

LEMMA LeastNumber ==
    ASSUME NEW S \in SUBSET Nat, S # {}
    PROVE  \E x \in S : \A y \in S : x <= y
<1> DEFINE less == {ss \in Nat \X Nat : ss[1] < ss[2]}
<1>1. IsWellFoundedOn(less, Nat)
  BY NatLessThanWellFounded, Zenon DEF OpToRel
<1> HIDE DEF less
<1>2. PICK x \in S : \A y \in S : ~(<<y, x>> \in less)
  BY <1>1, WFMin
<1>3. ASSUME NEW y \in S PROVE x <= y
  <2>1. <<y, x>>[1] = y /\ <<y, x>>[2] = x /\ <<y, x>> \in Nat \X Nat
    OBVIOUS
  <2>2. ~(y < x)
    BY <1>2, <2>1, Zenon DEF less
  <2> QED BY <2>2
<1> QED BY <1>3

MachineShape(x) == DOMAIN x = {"dpad", "axis", "down", "release"}

Shape(h) ==
    /\ "keys" \in DOMAIN h /\ "dirs" \in DOMAIN h /\ "mode" \in DOMAIN h /\ "over" \in DOMAIN h
    /\ "page" \in DOMAIN h /\ "focus" \in DOMAIN h
    /\ DOMAIN h.dirs = Machines /\ \A m \in Machines : MachineShape(h.dirs[m])

\* A list lets go everything it still has to when it is left; no overlay has the
\* name of a screen.
Core(h) ==
    /\ Shape(h) /\ h.dirs["save"].release \subseteq h.dirs["save"].down
    /\ "title" \notin h.over /\ "fight" \notin h.over

\* A direction key that did not stray is a list's, or the native menu's where
\* the guest's keys move it.
Owned(h, s) ==
    \A d \in (h.keys \cap Directions) \ s :
        d \in h.dirs["save"].release \/ (d \in h.dirs["menu"].down /\ ~MenuByHand(h))

\* The machines that are not cleared when their screen comes up are clear while
\* it is not up.
Clear(h) ==
    /\ "title" \notin h.mode => h.dirs["title"] = Still
    /\ "fight" \notin h.mode => h.dirs["fight"] = Still

Good(h, s) == Core(h) /\ Owned(h, s) /\ Clear(h)

\* What the invariant reads of a host record is unchanged.
Alike(h, z) ==
    /\ Shape(z) /\ z.keys = h.keys /\ z.dirs = h.dirs /\ z.mode = h.mode /\ z.over = h.over
    /\ z.page = h.page /\ z.focus = h.focus

LEMMA AlikeGood == ASSUME NEW h, NEW z, NEW s, Good(h, s), Alike(h, z) PROVE Good(z, s)
  BY Zenon DEF Good, Core, Owned, Clear, Alike, MenuByHand

\* Machines are left alone or cleared, keys let go, and nothing else.
Calmed(h, z) ==
    /\ Shape(z) /\ z.mode = h.mode /\ z.over = h.over /\ z.page = h.page /\ z.focus = h.focus
    /\ z.keys \subseteq h.keys
    /\ \A m \in Machines : z.dirs[m] = h.dirs[m] \/ z.dirs[m] = Still

LEMMA StillIs == MachineShape(Still) /\ Still.down = {} /\ Still.release = {}
  BY DEF Still, MachineShape

\* What Put and the ways to change keys do.
IsPut(h, z, m, x) ==
    /\ Shape(z) /\ z.keys = h.keys /\ z.mode = h.mode /\ z.over = h.over
    /\ z.page = h.page /\ z.focus = h.focus
    /\ z.dirs[m] = x /\ \A k \in Machines : k # m => z.dirs[k] = h.dirs[k]
HasKeys(h, z, ks) ==
    /\ Shape(z) /\ z.dirs = h.dirs /\ z.mode = h.mode /\ z.over = h.over
    /\ z.page = h.page /\ z.focus = h.focus /\ z.keys = ks

LEMMA PutIs ==
    ASSUME NEW h, Shape(h), NEW m \in Machines, NEW x, MachineShape(x) PROVE IsPut(h, Put(h, m, x), m, x)
<1>1. PICK z : z = [h EXCEPT !.dirs[m] = x]
  OBVIOUS
<1>2. DOMAIN z = DOMAIN h /\ z.dirs = [h.dirs EXCEPT ![m] = x]
  BY <1>1 DEF Shape
<1>3. /\ z.keys = h.keys /\ z.mode = h.mode /\ z.over = h.over /\ z.page = h.page /\ z.focus = h.focus
  BY <1>1 DEF Shape
<1>4. DOMAIN z.dirs = Machines /\ z.dirs[m] = x /\ \A k \in Machines : k # m => z.dirs[k] = h.dirs[k]
  BY <1>2 DEF Shape
<1>5. \A k \in Machines : MachineShape(z.dirs[k])
  BY <1>4, Zenon DEF Shape
<1>6. Shape(z)
  BY <1>2, <1>4, <1>5, Zenon DEF Shape
<1>7. IsPut(h, z, m, x)
  BY <1>3, <1>4, <1>6, Zenon DEF IsPut
<1> QED BY <1>1, <1>7, Zenon DEF Put

LEMMA KeysAre ==
    ASSUME NEW h, Shape(h), NEW ks PROVE HasKeys(h, [h EXCEPT !.keys = ks], ks)
<1>1. PICK z : z = [h EXCEPT !.keys = ks]
  OBVIOUS
<1>2. DOMAIN z = DOMAIN h /\ z.dirs = h.dirs
  BY <1>1 DEF Shape
<1>3. /\ z.keys = ks /\ z.mode = h.mode /\ z.over = h.over /\ z.page = h.page /\ z.focus = h.focus
  BY <1>1 DEF Shape
<1>4. HasKeys(h, z, ks)
  BY <1>2, <1>3, Zenon DEF Shape, HasKeys
<1> QED BY <1>1, <1>4, Zenon

-----------------------------------------------------------------------------
LEMMA Calms ==
    ASSUME NEW h, NEW z, NEW s, Core(h), Owned(h, s), Calmed(h, z),
           h.dirs["save"].release \cap z.keys # {} => z.dirs["save"] = h.dirs["save"],
           h.dirs["menu"].down \cap z.keys # {} => z.dirs["menu"] = h.dirs["menu"]
    PROVE  Core(z) /\ Owned(z, s) /\ (Clear(h) => Clear(z))
<1>1. "save" \in Machines /\ "menu" \in Machines /\ "title" \in Machines /\ "fight" \in Machines
  BY DEF Machines
<1>2. Core(z)
  <2>1. z.dirs["save"].release \subseteq z.dirs["save"].down
    BY <1>1, StillIs, Zenon DEF Core, Calmed
  <2> QED BY <2>1, Zenon DEF Core, Calmed
<1>3. Clear(h) => Clear(z)
  BY <1>1, Zenon DEF Clear, Calmed
<1>4. ASSUME NEW d \in (z.keys \cap Directions) \ s
      PROVE  d \in z.dirs["save"].release \/ (d \in z.dirs["menu"].down /\ ~MenuByHand(z))
  <2>1. d \in (h.keys \cap Directions) \ s /\ d \in z.keys
    BY <1>4, Zenon DEF Calmed
  <2>2. d \in h.dirs["save"].release \/ (d \in h.dirs["menu"].down /\ ~MenuByHand(h))
    BY <2>1, Zenon DEF Owned
  <2>3. MenuByHand(z) <=> MenuByHand(h)
    BY Zenon DEF Calmed, MenuByHand
  <2> QED BY <2>1, <2>2, <2>3, Zenon
<1> QED BY <1>2, <1>3, <1>4, Zenon DEF Owned

\* Clearing one machine that holds no key of the guest.
LEMMA PutStill ==
    ASSUME NEW h, NEW s, Core(h), Owned(h, s), NEW m \in {"shop", "title", "caption", "fight"}, NEW z, z = Put(h, m, Still)
    PROVE  Calmed(h, z) /\ Core(z) /\ Owned(z, s) /\ (Clear(h) => Clear(z)) /\ z.dirs[m] = Still /\ z.keys = h.keys
<1>1. m \in Machines /\ m # "save" /\ m # "menu" /\ "save" \in Machines /\ "menu" \in Machines
  BY DEF Machines
<1>2. /\ Shape(z) /\ z.keys = h.keys /\ z.mode = h.mode /\ z.over = h.over /\ z.page = h.page /\ z.focus = h.focus
      /\ z.dirs[m] = Still /\ \A k \in Machines : k # m => z.dirs[k] = h.dirs[k]
  <2>1. IsPut(h, z, m, Still)
    BY <1>1, StillIs, PutIs, Zenon DEF Core
  <2> QED BY <2>1, Zenon DEF IsPut
<1>3. Calmed(h, z)
  BY <1>2, Zenon DEF Calmed
<1> QED BY <1>1, <1>2, <1>3, Calms, Zenon

\* release_guest_walk.
LEMMA WalkReleased ==
    ASSUME NEW h, NEW s, Core(h)
    PROVE  /\ Core(ReleaseWalk(h)) /\ Owned(ReleaseWalk(h), s) /\ Calmed(h, ReleaseWalk(h))
           /\ (Clear(h) => Clear(ReleaseWalk(h))) /\ ReleaseWalk(h).keys = {} /\ ReleaseWalk(h).dirs = h.dirs
<1>1. PICK z : z = ReleaseWalk(h)
  OBVIOUS
<1>2. /\ Shape(z) /\ z.dirs = h.dirs /\ z.mode = h.mode /\ z.over = h.over
      /\ z.page = h.page /\ z.focus = h.focus /\ z.keys = {}
  <2>1. HasKeys(h, z, {})
    BY <1>1, KeysAre, Zenon DEF ReleaseWalk, Core
  <2> QED BY <2>1, Zenon DEF HasKeys
<1>3. Calmed(h, z)
  BY <1>2, Zenon DEF Calmed
<1>4. Core(z) /\ Owned(z, s) /\ (Clear(h) => Clear(z))
  BY <1>2, Zenon DEF Core, Owned, Clear
<1> QED BY <1>1, <1>2, <1>3, <1>4, Zenon

\* Clearing a machine and letting go the keys it has down.
LEMMA MachineReleased ==
    ASSUME NEW h, NEW s, Core(h), Owned(h, s), NEW m \in {"save", "menu"},
           NEW z, z = Put(Keys(h, h.dirs[m].down), m, Still)
    PROVE  Calmed(h, z) /\ Core(z) /\ Owned(z, s) /\ (Clear(h) => Clear(z)) /\ z.dirs[m] = Still
<1>1. m \in Machines /\ "save" \in Machines /\ "menu" \in Machines
  BY DEF Machines
<1>2. PICK y : y = Keys(h, h.dirs[m].down)
  OBVIOUS
<1>3. /\ Shape(y) /\ y.dirs = h.dirs /\ y.mode = h.mode /\ y.over = h.over
      /\ y.page = h.page /\ y.focus = h.focus /\ y.keys = h.keys \ h.dirs[m].down
  <2>1. HasKeys(h, y, h.keys \ h.dirs[m].down)
    BY <1>2, KeysAre, Zenon DEF Keys, Core
  <2> QED BY <2>1, Zenon DEF HasKeys
<1>4. /\ Shape(z) /\ z.keys = y.keys /\ z.mode = y.mode /\ z.over = y.over /\ z.page = y.page /\ z.focus = y.focus
      /\ z.dirs[m] = Still /\ \A k \in Machines : k # m => z.dirs[k] = y.dirs[k]
  <2>1. IsPut(y, z, m, Still)
    BY <1>1, <1>2, <1>3, StillIs, PutIs, Zenon
  <2> QED BY <2>1, Zenon DEF IsPut
<1>5. Calmed(h, z)
  BY <1>3, <1>4, Zenon DEF Calmed
<1>6. h.dirs["save"].release \cap z.keys # {} => z.dirs["save"] = h.dirs["save"]
  BY <1>1, <1>3, <1>4, Zenon DEF Core
<1>7. h.dirs["menu"].down \cap z.keys # {} => z.dirs["menu"] = h.dirs["menu"]
  BY <1>1, <1>3, <1>4, Zenon
<1> QED BY <1>4, <1>5, <1>6, <1>7, Calms, Zenon

-----------------------------------------------------------------------------
\* What a machine takes of an event.  Nothing but its own state, and for the
\* lists and the native menu the guest's keys, changes.
Moved(h, z, m) ==
    /\ Shape(z) /\ z.mode = h.mode /\ z.over = h.over /\ z.page = h.page /\ z.focus = h.focus
    /\ \A k \in Machines : k # m => z.dirs[k] = h.dirs[k]

\* The machines of a battle and of the title are used on their screen only.
Mine(h, m) == m \in {"title", "fight"} => m \in h.mode

LEMMA MovedGood ==
    ASSUME NEW h, NEW s, NEW z, Good(h, s), NEW m \in Machines, Moved(h, z, m),
           Mine(h, m) \/ z.dirs[m] = h.dirs[m],
           m = "save" => z.dirs["save"].release \subseteq z.dirs["save"].down,
           Owned(z, s)
    PROVE  Good(z, s)
<1>1. "save" \in Machines /\ "title" \in Machines /\ "fight" \in Machines
  BY DEF Machines
<1>2. Core(z)
  BY <1>1, Zenon DEF Good, Core, Moved
<1>3. Clear(z)
  BY <1>1, Zenon DEF Good, Clear, Moved, Mine
<1> QED BY <1>2, <1>3, Zenon DEF Good

Sources == {"dpad", "axis"}

\* A source does not touch what the machine took.
LEMMA SourceIs ==
    ASSUME NEW x, MachineShape(x), NEW d, NEW src \in Sources, NEW goes
    PROVE  /\ MachineShape(Source(x, d, src, goes))
           /\ Source(x, d, src, goes).down = x.down /\ Source(x, d, src, goes).release = x.release
  BY DEF MachineShape, Source, Sources

\* A machine put in place, keys as they were or changed with it.
IsMoved(h, z, m, x, ks) == Moved(h, z, m) /\ z.dirs[m] = x /\ z.keys = ks

LEMMA PutMoves ==
    ASSUME NEW h, Shape(h), NEW m \in Machines, NEW x, MachineShape(x)
    PROVE  IsMoved(h, Put(h, m, x), m, x, h.keys)
<1>1. IsPut(h, Put(h, m, x), m, x)
  BY PutIs, Zenon
<1> QED BY <1>1, Zenon DEF IsPut, IsMoved, Moved

LEMMA KeyIs ==
    ASSUME NEW h, Shape(h), NEW d, NEW goes
    PROVE  HasKeys(h, Key(h, d, goes), IF goes THEN h.keys \cup {d} ELSE h.keys \ {d})
<1>1. PICK ks : ks = IF goes THEN h.keys \cup {d} ELSE h.keys \ {d}
  OBVIOUS
<1>2. Key(h, d, goes) = [h EXCEPT !.keys = ks]
  BY <1>1 DEF Key
<1>3. HasKeys(h, [h EXCEPT !.keys = ks], ks)
  BY KeysAre, Zenon
<1> QED BY <1>1, <1>2, <1>3, Zenon

LEMMA PutKeyMoves ==
    ASSUME NEW h, Shape(h), NEW m \in Machines, NEW x, MachineShape(x), NEW d, NEW goes
    PROVE  IsMoved(h, Key(Put(h, m, x), d, goes), m, x, IF goes THEN h.keys \cup {d} ELSE h.keys \ {d})
<1>1. PICK y : y = Put(h, m, x)
  OBVIOUS
<1>2. IsMoved(h, y, m, x, h.keys)
  BY <1>1, PutMoves, Zenon
<1>3. HasKeys(y, Key(y, d, goes), IF goes THEN y.keys \cup {d} ELSE y.keys \ {d})
  BY <1>2, KeyIs, Zenon DEF IsMoved, Moved
<1>4. PICK z : z = Key(y, d, goes)
  OBVIOUS
<1>5. HasKeys(y, z, IF goes THEN h.keys \cup {d} ELSE h.keys \ {d})
  BY <1>2, <1>3, <1>4, Zenon DEF IsMoved
<1>6. IsMoved(h, z, m, x, IF goes THEN h.keys \cup {d} ELSE h.keys \ {d})
  BY <1>2, <1>5, Zenon DEF HasKeys, IsMoved, Moved
<1> QED BY <1>1, <1>4, <1>6, Zenon

LEMMA KeysPutMoves ==
    ASSUME NEW h, Shape(h), NEW m \in Machines, NEW x, MachineShape(x), NEW ds
    PROVE  IsMoved(h, Put(Keys(h, ds), m, x), m, x, h.keys \ ds)
<1>1. PICK y : y = Keys(h, ds)
  OBVIOUS
<1>2. HasKeys(h, y, h.keys \ ds)
  BY <1>1, KeysAre, Zenon DEF Keys
<1>3. PICK z : z = Put(y, m, x)
  OBVIOUS
<1>4. Shape(y)
  BY <1>2, Zenon DEF HasKeys
<1>5. IsMoved(y, z, m, x, y.keys)
  BY <1>3, <1>4, PutMoves, Zenon
<1>6. IsMoved(h, z, m, x, h.keys \ ds)
  BY <1>2, <1>5, Zenon DEF HasKeys, IsMoved, Moved
<1> QED BY <1>1, <1>3, <1>6, Zenon

-----------------------------------------------------------------------------
\* An event a machine took.
Took(h, z, s) == Good(z, s) /\ z.mode = h.mode

LEMMA SaveMoved ==
    ASSUME NEW h, NEW s, Good(h, s), NEW x, x.release \subseteq x.down, NEW z, NEW ks,
           IsMoved(h, z, "save", x, ks),
           \A e \in ks : \/ e \in x.release
                         \/ e \in h.keys /\ e \notin h.dirs["save"].release
    PROVE  Took(h, z, s)
<1>1. "save" \in Machines /\ "menu" \in Machines /\ "save" # "menu" /\ "save" # "title" /\ "save" # "fight"
  BY DEF Machines
<1>2. Moved(h, z, "save") /\ z.dirs["save"] = x /\ z.keys = ks /\ z.mode = h.mode
  BY Zenon DEF IsMoved, Moved
<1>3. z.dirs["menu"] = h.dirs["menu"] /\ (MenuByHand(z) <=> MenuByHand(h))
  BY <1>1, <1>2, Zenon DEF Moved, MenuByHand
<1>4. Owned(z, s)
  <2> SUFFICES ASSUME NEW d \in (z.keys \cap Directions) \ s
               PROVE  d \in z.dirs["save"].release \/ (d \in z.dirs["menu"].down /\ ~MenuByHand(z))
    BY Zenon DEF Owned
  <2>1. CASE d \in x.release
    BY <1>2, <2>1, Zenon
  <2>2. CASE d \in h.keys /\ d \notin h.dirs["save"].release
    <3>1. d \in h.dirs["menu"].down /\ ~MenuByHand(h)
      BY <2>2, Zenon DEF Good, Owned
    <3> QED BY <3>1, <1>3, Zenon
  <2> QED BY <1>2, <2>1, <2>2, Zenon
<1>5. Mine(h, "save")
  BY <1>1, Zenon DEF Mine
<1>6. Good(z, s)
  BY <1>1, <1>2, <1>4, <1>5, MovedGood, Zenon
<1> QED BY <1>2, <1>6, Zenon DEF Took

LEMMA MenuMoved ==
    ASSUME NEW h, NEW s, Good(h, s), NEW x, NEW z, NEW ks, IsMoved(h, z, "menu", x, ks),
           \A e \in ks : \/ e \in x.down /\ ~MenuByHand(h)
                         \/ e \in h.keys /\ (MenuByHand(h) \/ e \notin h.dirs["menu"].down)
    PROVE  Took(h, z, s)
<1>1. "save" \in Machines /\ "menu" \in Machines /\ "save" # "menu" /\ "menu" # "title" /\ "menu" # "fight"
  BY DEF Machines
<1>2. Moved(h, z, "menu") /\ z.dirs["menu"] = x /\ z.keys = ks /\ z.mode = h.mode
  BY Zenon DEF IsMoved, Moved
<1>3. z.dirs["save"] = h.dirs["save"] /\ (MenuByHand(z) <=> MenuByHand(h))
  BY <1>1, <1>2, Zenon DEF Moved, MenuByHand
<1>4. Owned(z, s)
  <2> SUFFICES ASSUME NEW d \in (z.keys \cap Directions) \ s
               PROVE  d \in z.dirs["save"].release \/ (d \in z.dirs["menu"].down /\ ~MenuByHand(z))
    BY Zenon DEF Owned
  <2>1. CASE d \in x.down /\ ~MenuByHand(h)
    BY <1>2, <1>3, <2>1, Zenon
  <2>2. CASE d \in h.keys /\ (MenuByHand(h) \/ d \notin h.dirs["menu"].down)
    <3>1. d \in h.dirs["save"].release
      BY <2>2, Zenon DEF Good, Owned
    <3> QED BY <3>1, <1>3, Zenon
  <2> QED BY <1>2, <2>1, <2>2, Zenon
<1>5. Mine(h, "menu")
  BY <1>1, Zenon DEF Mine
<1>6. Good(z, s)
  BY <1>1, <1>2, <1>4, <1>5, MovedGood, Zenon
<1> QED BY <1>2, <1>6, Zenon DEF Took

LEMMA OtherMoved ==
    ASSUME NEW h, NEW s, Good(h, s), NEW m \in Machines \ {"save", "menu"}, NEW x, NEW z,
           IsMoved(h, z, m, x, h.keys), Mine(h, m) \/ x = h.dirs[m]
    PROVE  Took(h, z, s)
<1>1. "save" \in Machines /\ "menu" \in Machines /\ m \in Machines /\ m # "save" /\ m # "menu"
  BY DEF Machines
<1>2. Moved(h, z, m) /\ z.dirs[m] = x /\ z.keys = h.keys /\ z.mode = h.mode
  BY Zenon DEF IsMoved, Moved
<1>3. z.dirs["save"] = h.dirs["save"] /\ z.dirs["menu"] = h.dirs["menu"] /\ (MenuByHand(z) <=> MenuByHand(h))
  BY <1>1, <1>2, Zenon DEF Moved, MenuByHand
<1>4. Owned(z, s)
  <2>1. Owned(h, s)
    BY Zenon DEF Good
  <2> QED BY <1>2, <1>3, <2>1, Zenon DEF Owned
<1>6. Good(z, s)
  BY <1>1, <1>2, <1>4, MovedGood, Zenon
<1> QED BY <1>2, <1>6, Zenon DEF Took

LEMMA SaveTakes ==
    ASSUME NEW h, NEW s, Good(h, s), NEW d, NEW src \in Sources, NEW goes
    PROVE  Took(h, SaveTake(h, d, src, goes), s)
<1>1. PICK x : x = h.dirs["save"]
  OBVIOUS
<1>2. "save" \in Machines /\ Shape(h) /\ MachineShape(x) /\ x.release \subseteq x.down
  BY <1>1, Zenon DEF Good, Core, Shape, Machines
<1>3. PICK now : now = Source(x, d, src, goes)
  OBVIOUS
<1>4. MachineShape(now) /\ now.down = x.down /\ now.release = x.release
  BY <1>2, <1>3, SourceIs, Zenon
<1>5. CASE Wanted(now, d) = (d \in now.down)
  <2>1. SaveTake(h, d, src, goes) = Put(h, "save", now)
    BY <1>1, <1>3, <1>5 DEF SaveTake
  <2>2. IsMoved(h, Put(h, "save", now), "save", now, h.keys)
    BY <1>2, <1>4, PutMoves, Zenon
  <2>3. \A e \in h.keys : e \in now.release \/ (e \in h.keys /\ e \notin h.dirs["save"].release)
    BY <1>1, <1>4, Zenon
  <2>4. now.release \subseteq now.down
    BY <1>2, <1>4, Zenon
  <2> QED BY <2>1, <2>2, <2>3, <2>4, SaveMoved, Zenon
<1>6. CASE Wanted(now, d) /\ d \notin now.down
  <2>1. PICK y : y = [now EXCEPT !.down = now.down \cup {d}, !.release = now.release \cup {d}]
    OBVIOUS
  <2>2. MachineShape(y) /\ y.down = now.down \cup {d} /\ y.release = now.release \cup {d}
    BY <1>4, <2>1 DEF MachineShape
  <2>3. SaveTake(h, d, src, goes) = Key(Put(h, "save", y), d, TRUE)
    BY <1>1, <1>3, <1>6, <2>1 DEF SaveTake, SaveKey
  <2>4. IsMoved(h, Key(Put(h, "save", y), d, TRUE), "save", y, IF TRUE THEN h.keys \cup {d} ELSE h.keys \ {d})
    BY <1>2, <2>2, PutKeyMoves, Zenon
  <2>5. IsMoved(h, Key(Put(h, "save", y), d, TRUE), "save", y, h.keys \cup {d})
    BY <2>4, Zenon
  <2>6. \A e \in h.keys \cup {d} : e \in y.release \/ (e \in h.keys /\ e \notin h.dirs["save"].release)
    BY <1>1, <1>4, <2>2, Zenon
  <2>7. y.release \subseteq y.down
    BY <1>2, <1>4, <2>2, Zenon
  <2> QED BY <2>3, <2>5, <2>6, <2>7, SaveMoved, Zenon
<1>7. CASE ~Wanted(now, d) /\ d \in now.down
  <2>1. PICK y : y = [now EXCEPT !.release = now.release \cup {d}]
    OBVIOUS
  <2>2. MachineShape(y) /\ y.down = now.down /\ y.release = now.release \cup {d}
    BY <1>4, <2>1 DEF MachineShape
  <2>3. SaveTake(h, d, src, goes) = Put(h, "save", y)
    BY <1>1, <1>3, <1>7, <2>1 DEF SaveTake, Wanted
  <2>4. IsMoved(h, Put(h, "save", y), "save", y, h.keys)
    BY <1>2, <2>2, PutMoves, Zenon
  <2>5. \A e \in h.keys : e \in y.release \/ (e \in h.keys /\ e \notin h.dirs["save"].release)
    BY <1>1, <1>4, <2>2, Zenon
  <2>6. y.release \subseteq y.down
    BY <1>2, <1>4, <1>7, <2>2, Zenon
  <2> QED BY <2>3, <2>4, <2>5, <2>6, SaveMoved, Zenon
<1>8. Wanted(now, d) \in BOOLEAN
  BY DEF Wanted
<1> QED BY <1>5, <1>6, <1>7, <1>8

LEMMA SaveFlushed ==
    ASSUME NEW h, NEW s, Good(h, s) PROVE Took(h, SaveFlush(h), s)
<1>1. PICK x : x = h.dirs["save"]
  OBVIOUS
<1>2. "save" \in Machines /\ Shape(h) /\ MachineShape(x)
  BY <1>1, Zenon DEF Good, Core, Shape, Machines
<1>3. PICK y : y = [x EXCEPT !.down = x.down \ x.release, !.release = {}]
  OBVIOUS
<1>4. MachineShape(y) /\ y.release = {} /\ y.down = x.down \ x.release
  BY <1>2, <1>3 DEF MachineShape
<1>5. SaveFlush(h) = Put(Keys(h, x.release), "save", y)
  BY <1>1, <1>3 DEF SaveFlush
<1>6. IsMoved(h, Put(Keys(h, x.release), "save", y), "save", y, h.keys \ x.release)
  BY <1>2, <1>4, KeysPutMoves, Zenon
<1>7. \A e \in h.keys \ x.release : e \in y.release \/ (e \in h.keys /\ e \notin h.dirs["save"].release)
  BY <1>1, Zenon
<1>8. y.release \subseteq y.down
  BY <1>4, Zenon
<1> QED BY <1>5, <1>6, <1>7, <1>8, SaveMoved, Zenon

LEMMA MenuTakes ==
    ASSUME NEW h, NEW s, Good(h, s), NEW d, NEW src \in Sources, NEW goes
    PROVE  Took(h, MenuTake(h, d, src, goes), s)
<1>1. PICK x : x = h.dirs["menu"]
  OBVIOUS
<1>2. "menu" \in Machines /\ Shape(h) /\ MachineShape(x)
  BY <1>1, Zenon DEF Good, Core, Shape, Machines
<1>3. PICK now : now = Source(x, d, src, goes)
  OBVIOUS
<1>4. MachineShape(now) /\ now.down = x.down
  BY <1>2, <1>3, SourceIs, Zenon
<1>5. PICK keeps : keeps = IF Wanted(now, d) THEN [now EXCEPT !.release = now.release \ {d}] ELSE now
  OBVIOUS
<1>6. MachineShape(keeps) /\ keeps.down = x.down
  BY <1>4, <1>5 DEF MachineShape
<1>7. PICK up : up = [keeps EXCEPT !.down = keeps.down \ {d}]
  OBVIOUS
<1>8. MachineShape(up) /\ up.down = x.down \ {d}
  BY <1>6, <1>7 DEF MachineShape
<1>9. PICK pulse : pulse = [keeps EXCEPT !.down = keeps.down \cup {d}, !.release = keeps.release \cup {d}]
  OBVIOUS
<1>10. MachineShape(pulse) /\ pulse.down = x.down \cup {d}
  BY <1>6, <1>9 DEF MachineShape
<1>11. PICK press : press = [keeps EXCEPT !.down = keeps.down \cup {d}]
  OBVIOUS
<1>12. MachineShape(press) /\ press.down = x.down \cup {d}
  BY <1>6, <1>11 DEF MachineShape
<1>13. PICK later : later = [keeps EXCEPT !.release = keeps.release \cup {d}]
  OBVIOUS
<1>14. MachineShape(later) /\ later.down = x.down
  BY <1>6, <1>13 DEF MachineShape
<1>15. MenuTake(h, d, src, goes) =
          IF Wanted(now, d) = (d \in keeps.down) THEN Put(h, "menu", keeps)
          ELSE IF MenuByHand(h) THEN Put(h, "menu", IF Wanted(now, d) THEN press ELSE up)
          ELSE IF Wanted(now, d) THEN Key(Put(h, "menu", pulse), d, TRUE)
          ELSE IF d \in Sideways THEN Key(Put(h, "menu", up), d, FALSE)
          ELSE Put(h, "menu", later)
  BY <1>1, <1>3, <1>5, <1>7, <1>9, <1>11, <1>13 DEF MenuTake
<1>16. ASSUME NEW y, MachineShape(y), MenuByHand(h) \/ h.dirs["menu"].down \subseteq y.down
       PROVE  Took(h, Put(h, "menu", y), s)
  <2>1. IsMoved(h, Put(h, "menu", y), "menu", y, h.keys)
    BY <1>2, <1>16, PutMoves, Zenon
  <2>2. \A e \in h.keys : \/ e \in y.down /\ ~MenuByHand(h)
                          \/ e \in h.keys /\ (MenuByHand(h) \/ e \notin h.dirs["menu"].down)
    BY <1>16, Zenon
  <2> QED BY <2>1, <2>2, MenuMoved, Zenon
<1>17. CASE Wanted(now, d) = (d \in keeps.down)
  <2>1. MenuTake(h, d, src, goes) = Put(h, "menu", keeps)
    BY <1>15, <1>17
  <2> QED BY <1>1, <1>6, <1>16, <2>1, Zenon
<1>18. CASE ~(Wanted(now, d) = (d \in keeps.down)) /\ MenuByHand(h)
  <2>1. MenuTake(h, d, src, goes) = Put(h, "menu", IF Wanted(now, d) THEN press ELSE up)
    BY <1>15, <1>18
  <2>2. CASE Wanted(now, d)
    BY <1>12, <1>16, <1>18, <2>1, <2>2, Zenon
  <2>3. CASE ~Wanted(now, d)
    BY <1>8, <1>16, <1>18, <2>1, <2>3, Zenon
  <2> QED BY <2>2, <2>3
<1>19. CASE ~(Wanted(now, d) = (d \in keeps.down)) /\ ~MenuByHand(h) /\ Wanted(now, d)
  <2>1. MenuTake(h, d, src, goes) = Key(Put(h, "menu", pulse), d, TRUE)
    BY <1>15, <1>19
  <2>2. IsMoved(h, Key(Put(h, "menu", pulse), d, TRUE), "menu", pulse, IF TRUE THEN h.keys \cup {d} ELSE h.keys \ {d})
    BY <1>2, <1>10, PutKeyMoves, Zenon
  <2>3. IsMoved(h, Key(Put(h, "menu", pulse), d, TRUE), "menu", pulse, h.keys \cup {d})
    BY <2>2, Zenon
  <2>4. \A e \in h.keys \cup {d} : \/ e \in pulse.down /\ ~MenuByHand(h)
                                   \/ e \in h.keys /\ (MenuByHand(h) \/ e \notin h.dirs["menu"].down)
    BY <1>1, <1>10, <1>19, Zenon
  <2> QED BY <2>1, <2>3, <2>4, MenuMoved, Zenon
<1>20. CASE ~(Wanted(now, d) = (d \in keeps.down)) /\ ~MenuByHand(h) /\ ~Wanted(now, d) /\ d \in Sideways
  <2>1. MenuTake(h, d, src, goes) = Key(Put(h, "menu", up), d, FALSE)
    BY <1>15, <1>20
  <2>2. IsMoved(h, Key(Put(h, "menu", up), d, FALSE), "menu", up, IF FALSE THEN h.keys \cup {d} ELSE h.keys \ {d})
    BY <1>2, <1>8, PutKeyMoves, Zenon
  <2>3. IsMoved(h, Key(Put(h, "menu", up), d, FALSE), "menu", up, h.keys \ {d})
    BY <2>2, Zenon
  <2>4. \A e \in h.keys \ {d} : \/ e \in up.down /\ ~MenuByHand(h)
                                \/ e \in h.keys /\ (MenuByHand(h) \/ e \notin h.dirs["menu"].down)
    BY <1>1, <1>8, <1>20, Zenon
  <2> QED BY <2>1, <2>3, <2>4, MenuMoved, Zenon
<1>21. CASE ~(Wanted(now, d) = (d \in keeps.down)) /\ ~MenuByHand(h) /\ ~Wanted(now, d) /\ d \notin Sideways
  <2>1. MenuTake(h, d, src, goes) = Put(h, "menu", later)
    BY <1>15, <1>21
  <2> QED BY <1>1, <1>14, <1>16, <2>1, Zenon
<1> QED BY <1>17, <1>18, <1>19, <1>20, <1>21, Zenon

LEMMA MenuFlushed ==
    ASSUME NEW h, NEW s, Good(h, s) PROVE Took(h, MenuFlush(h), s)
<1>1. PICK x : x = h.dirs["menu"]
  OBVIOUS
<1>2. "menu" \in Machines /\ Shape(h) /\ MachineShape(x)
  BY <1>1, Zenon DEF Good, Core, Shape, Machines
<1>3. PICK y : y = [x EXCEPT !.down = x.down \ x.release, !.release = {}]
  OBVIOUS
<1>4. MachineShape(y) /\ y.release = {} /\ y.down = x.down \ x.release
  BY <1>2, <1>3 DEF MachineShape
<1>5. MenuFlush(h) = Put(Keys(h, x.release), "menu", y)
  BY <1>1, <1>3 DEF MenuFlush
<1>6. IsMoved(h, Put(Keys(h, x.release), "menu", y), "menu", y, h.keys \ x.release)
  BY <1>2, <1>4, KeysPutMoves, Zenon
<1>7. \A e \in h.keys \ x.release : \/ e \in y.down /\ ~MenuByHand(h)
                                    \/ e \in h.keys /\ (MenuByHand(h) \/ e \notin h.dirs["menu"].down)
  BY <1>1, <1>4, Zenon
<1> QED BY <1>5, <1>6, <1>7, MenuMoved, Zenon

\* The machines that hold no key of the guest.
LEMMA EdgeTakes ==
    ASSUME NEW h, NEW s, Good(h, s), NEW m \in Machines \ {"save", "menu"}, Mine(h, m),
           NEW d, NEW src \in Sources, NEW goes
    PROVE  Took(h, EdgeOnly(h, m, d, src, goes), s)
<1>1. PICK now : now = Source(h.dirs[m], d, src, goes)
  OBVIOUS
<1>2. m \in Machines /\ Shape(h) /\ MachineShape(h.dirs[m])
  BY Zenon DEF Good, Core, Shape
<1>3. MachineShape(now)
  BY <1>1, <1>2, SourceIs, Zenon
<1>4. PICK y : y = [now EXCEPT !.down = IF Wanted(now, d) THEN now.down \cup {d} ELSE now.down \ {d}]
  OBVIOUS
<1>5. MachineShape(y)
  BY <1>3, <1>4 DEF MachineShape
<1>6. EdgeOnly(h, m, d, src, goes) = Put(h, m, y)
  BY <1>1, <1>4 DEF EdgeOnly
<1>7. IsMoved(h, Put(h, m, y), m, y, h.keys)
  BY <1>2, <1>5, PutMoves, Zenon
<1> QED BY <1>6, <1>7, OtherMoved, Zenon

LEMMA FightTakes ==
    ASSUME NEW h, NEW s, Good(h, s), Mine(h, "fight"), NEW d, NEW src \in Sources, NEW goes
    PROVE  Took(h, FightTake(h, d, src, goes), s)
<1>1. PICK now : now = Source(h.dirs["fight"], d, src, goes)
  OBVIOUS
<1>2. "fight" \in Machines \ {"save", "menu"} /\ "fight" \in Machines
  BY DEF Machines
<1>3. Shape(h) /\ MachineShape(h.dirs["fight"])
  BY <1>2, Zenon DEF Good, Core, Shape
<1>4. MachineShape(now)
  BY <1>1, <1>3, SourceIs, Zenon
<1>5. PICK keeps : keeps = IF Wanted(now, d) THEN [now EXCEPT !.release = now.release \ {d}] ELSE now
  OBVIOUS
<1>6. MachineShape(keeps)
  BY <1>4, <1>5 DEF MachineShape
<1>7. PICK y : y = IF Wanted(now, d) = (d \in keeps.down) THEN keeps
                   ELSE IF Wanted(now, d) THEN [keeps EXCEPT !.down = keeps.down \cup {d}]
                   ELSE [keeps EXCEPT !.release = keeps.release \cup {d}]
  OBVIOUS
<1>8. MachineShape(y)
  BY <1>6, <1>7 DEF MachineShape
<1>9. FightTake(h, d, src, goes) = Put(h, "fight", y)
  BY <1>1, <1>5, <1>7 DEF FightTake
<1>10. IsMoved(h, Put(h, "fight", y), "fight", y, h.keys)
  BY <1>2, <1>3, <1>8, PutMoves, Zenon
<1> QED BY <1>2, <1>9, <1>10, OtherMoved, Zenon

LEMMA StillAgain == [Still EXCEPT !.down = {}, !.release = {}] = Still
<1>1. PICK z : z = [Still EXCEPT !.down = {}, !.release = {}]
  OBVIOUS
<1>2. DOMAIN z = {"dpad", "axis", "down", "release"} /\ z.dpad = {} /\ z.axis = {} /\ z.down = {} /\ z.release = {}
  BY <1>1 DEF Still
<1>3. z = [k \in DOMAIN z |-> z[k]]
  BY <1>1
<1>4. \A k \in DOMAIN z : z[k] = {}
  BY <1>2
<1>5. z = [k \in {"dpad", "axis", "down", "release"} |-> {}]
  BY <1>2, <1>3, <1>4
<1>6. Still = [k \in {"dpad", "axis", "down", "release"} |-> {}]
  BY DEF Still
<1> QED BY <1>1, <1>5, <1>6, Zenon

\* A battle's frame finds the machine clear where no battle is on.
LEMMA FightFlushed ==
    ASSUME NEW h, NEW s, Good(h, s) PROVE Took(h, FightFlush(h), s)
<1>1. PICK x : x = h.dirs["fight"]
  OBVIOUS
<1>2. "fight" \in Machines \ {"save", "menu"} /\ "fight" \in Machines
  BY DEF Machines
<1>3. Shape(h) /\ MachineShape(x)
  BY <1>1, <1>2, Zenon DEF Good, Core, Shape
<1>4. PICK y : y = [x EXCEPT !.down = x.down \ x.release, !.release = {}]
  OBVIOUS
<1>5. MachineShape(y)
  BY <1>3, <1>4 DEF MachineShape
<1>6. FightFlush(h) = Put(h, "fight", y)
  BY <1>1, <1>4 DEF FightFlush
<1>7. IsMoved(h, Put(h, "fight", y), "fight", y, h.keys)
  BY <1>2, <1>3, <1>5, PutMoves, Zenon
<1>8. ASSUME x = Still PROVE y = Still
  <2>1. x.down \ x.release = {}
    BY <1>8 DEF Still
  <2>2. y = [Still EXCEPT !.down = {}, !.release = {}]
    BY <1>4, <1>8, <2>1, Zenon
  <2> QED BY <2>2, StillAgain, Zenon
<1>9. Mine(h, "fight") \/ x = Still
  BY <1>1, Zenon DEF Good, Clear, Mine
<1>10. Mine(h, "fight") \/ y = h.dirs["fight"]
  BY <1>1, <1>8, <1>9, Zenon
<1> QED BY <1>2, <1>6, <1>7, <1>10, OtherMoved, Zenon

\* What else a step may change: fields the invariant does not read, overlays,
\* other screens; focus and page only under a menu that holds no key.
Near(h, z) ==
    /\ Shape(z) /\ z.keys = h.keys /\ z.dirs = h.dirs
    /\ "title" \in z.mode <=> "title" \in h.mode
    /\ "fight" \in z.mode <=> "fight" \in h.mode
    /\ "title" \notin z.over /\ "fight" \notin z.over
    /\ (z.focus = h.focus /\ z.page = h.page) \/ h.dirs["menu"].down \cap h.keys = {}

LEMMA NearGood == ASSUME NEW h, NEW s, NEW z, Good(h, s), Near(h, z) PROVE Good(z, s)
<1>1. Core(z) /\ Clear(z)
  BY Zenon DEF Good, Core, Clear, Near
<1>2. Owned(z, s)
  <2> SUFFICES ASSUME NEW d \in (z.keys \cap Directions) \ s
               PROVE  d \in z.dirs["save"].release \/ (d \in z.dirs["menu"].down /\ ~MenuByHand(z))
    BY Zenon DEF Owned
  <2>1. d \in h.keys /\ (d \in h.dirs["save"].release \/ (d \in h.dirs["menu"].down /\ ~MenuByHand(h)))
    BY Zenon DEF Good, Owned, Near
  <2>2. CASE h.dirs["menu"].down \cap h.keys = {}
    BY <2>1, <2>2, Zenon DEF Near
  <2>3. CASE z.focus = h.focus /\ z.page = h.page
    BY <2>1, <2>3, Zenon DEF Near, MenuByHand
  <2> QED BY <2>2, <2>3, Zenon DEF Near
<1> QED BY <1>1, <1>2, Zenon DEF Good

LEMMA AlikeNear == ASSUME NEW h, NEW s, NEW z, Good(h, s), Alike(h, z) PROVE Took(h, z, s)
<1>1. Good(z, s)
  BY AlikeGood, Zenon
<1> QED BY <1>1, Zenon DEF Took, Alike

LEMMA TitleTakes ==
    ASSUME NEW h, NEW s, Good(h, s), Mine(h, "title"), NEW d, NEW src \in Sources, NEW goes
    PROVE  Took(h, TitleTake(h, d, src, goes), s)
<1>1. PICK y : y = EdgeOnly(h, "title", d, src, goes)
  OBVIOUS
<1>2. "title" \in Machines \ {"save", "menu"}
  BY DEF Machines
<1>3. Took(h, y, s)
  BY <1>1, <1>2, EdgeTakes, Zenon
<1>4. PICK z : z = [y EXCEPT !.selection = TitleMove(y.selection, d)]
  OBVIOUS
<1>5. Alike(y, z)
  <2>1. Shape(y)
    BY <1>3, Zenon DEF Took, Good, Core
  <2> QED BY <1>4, <2>1 DEF Alike, Shape
<1>6. Took(h, z, s)
  <2>1. Took(y, z, s)
    BY <1>3, <1>5, AlikeNear, Zenon DEF Took
  <2> QED BY <1>3, <2>1, Zenon DEF Took
<1>7. TitleTake(h, d, src, goes) = z \/ TitleTake(h, d, src, goes) = y
  BY <1>1, <1>4 DEF TitleTake
<1> QED BY <1>3, <1>6, <1>7, Zenon

LEMMA CaptionCleared ==
    ASSUME NEW h, NEW s, Good(h, s) PROVE Took(h, CaptionClear(h), s)
<1>1. "caption" \in Machines \ {"save", "menu"} /\ "caption" \in Machines /\ Mine(h, "caption")
  BY DEF Machines, Mine
<1>2. Shape(h)
  BY Zenon DEF Good, Core
<1>3. IsMoved(h, Put(h, "caption", Still), "caption", Still, h.keys)
  BY <1>1, <1>2, StillIs, PutMoves, Zenon
<1> QED BY <1>1, <1>3, OtherMoved, Zenon DEF CaptionClear

LEMMA CaptionTakes ==
    ASSUME NEW h, NEW s, Good(h, s), NEW d, NEW src \in Sources, NEW goes
    PROVE  Took(h, CaptionTake(h, d, src, goes), s)
<1>1. "caption" \in Machines \ {"save", "menu"} /\ Mine(h, "caption")
  BY DEF Machines, Mine
<1>2. Took(h, EdgeOnly(h, "caption", d, src, goes), s)
  BY <1>1, EdgeTakes, Zenon
<1> QED BY <1>2, CaptionCleared, Zenon DEF CaptionTake

LEMMA Takes ==
    ASSUME NEW h, NEW s, Good(h, s), NEW m \in Machines, Mine(h, m), NEW d, NEW src \in Sources, NEW goes
    PROVE  Took(h, Take(h, m, d, src, goes), s)
<1>1. CASE m = "save"
  <2>1. Take(h, m, d, src, goes) = SaveTake(h, d, src, goes)
    BY <1>1 DEF Take
  <2> QED BY <2>1, SaveTakes, Zenon
<1>2. CASE m = "shop"
  <2>1. Take(h, m, d, src, goes) = EdgeOnly(h, m, d, src, goes) /\ m \in Machines \ {"save", "menu"}
    BY <1>2 DEF Take, ShopTake
  <2> QED BY <2>1, EdgeTakes, Zenon
<1>3. CASE m = "title"
  <2>1. Take(h, m, d, src, goes) = TitleTake(h, d, src, goes)
    BY <1>3 DEF Take
  <2> QED BY <1>3, <2>1, TitleTakes, Zenon
<1>4. CASE m = "caption"
  <2>1. Take(h, m, d, src, goes) = CaptionTake(h, d, src, goes)
    BY <1>4 DEF Take
  <2> QED BY <2>1, CaptionTakes, Zenon
<1>5. CASE m = "menu"
  <2>1. Take(h, m, d, src, goes) = MenuTake(h, d, src, goes)
    BY <1>5 DEF Take
  <2> QED BY <2>1, MenuTakes, Zenon
<1>6. CASE m = "fight"
  <2>1. Take(h, m, d, src, goes) = FightTake(h, d, src, goes)
    BY <1>6 DEF Take
  <2> QED BY <1>6, <2>1, FightTakes, Zenon
<1> QED BY <1>1, <1>2, <1>3, <1>4, <1>5, <1>6, Zenon DEF Machines

LEMMA AxisTakes ==
    ASSUME NEW h, NEW s, Good(h, s), NEW m \in Machines, Mine(h, m), NEW e
    PROVE  Took(h, Axis(h, m, e), s)
<1>1. PICK old : old = h.dirs[m].axis \cap OnAxis(e.axis)
  OBVIOUS
<1>2. PICK off : off = IF old = {} THEN h ELSE Take(h, m, CHOOSE d \in old : TRUE, "axis", FALSE)
  OBVIOUS
<1>3. "axis" \in Sources /\ Took(h, h, s)
  BY Zenon DEF Sources, Took
<1>4. Took(h, Take(h, m, CHOOSE d \in old : TRUE, "axis", FALSE), s)
  BY <1>3, Takes, Zenon
<1>5. Took(h, off, s)
  BY <1>2, <1>3, <1>4, Zenon
<1>6. Good(off, s) /\ off.mode = h.mode /\ Mine(off, m)
  BY <1>5, Zenon DEF Took, Mine
<1>7. Took(off, Take(off, m, CHOOSE d \in e.to : TRUE, "axis", TRUE), s)
  BY <1>3, <1>6, Takes, Zenon
<1>8. Took(h, Take(off, m, CHOOSE d \in e.to : TRUE, "axis", TRUE), s)
  BY <1>6, <1>7, Zenon DEF Took
<1>9. Axis(h, m, e) = IF old = e.to THEN h ELSE IF e.to = {} THEN off
                      ELSE Take(off, m, CHOOSE d \in e.to : TRUE, "axis", TRUE)
  BY <1>1, <1>2 DEF Axis
<1> QED BY <1>3, <1>5, <1>8, <1>9, Zenon

LEMMA PadTakes ==
    ASSUME NEW h, NEW s, Good(h, s), NEW m \in Machines, Mine(h, m), NEW e
    PROVE  Took(h, Pad(h, m, e), s)
<1>1. "dpad" \in Sources
  BY DEF Sources
<1>2. Took(h, Take(h, m, e.dir, "dpad", e.down), s)
  BY <1>1, Takes, Zenon
<1> QED BY <1>2, AxisTakes, Zenon DEF Pad

-----------------------------------------------------------------------------
\* The first owner that claims an event is one that claims it.
LEMMA OwnerClaims ==
    ASSUME NEW h, NEW order, DOMAIN order \in SUBSET Nat
    PROVE  Owner(h, order) = "field" \/ Owner(h, order) \in Claims(h)
<1> DEFINE claims == {i \in DOMAIN order : order[i] \in Claims(h)}
<1> HIDE DEF claims
<1>1. Owner(h, order) = IF claims = {} THEN "field" ELSE order[CHOOSE i \in claims : \A j \in claims : i <= j]
  BY Zenon DEF Owner, claims
<1>2. CASE claims # {}
  <2>1. claims \in SUBSET Nat
    BY Zenon DEF claims
  <2>2. \E i \in claims : \A j \in claims : i <= j
    BY <1>2, <2>1, LeastNumber, Zenon
  <2>3. PICK i : i = CHOOSE k \in claims : \A j \in claims : k <= j
    OBVIOUS
  <2>4. i \in claims
    BY <2>2, <2>3, Zenon
  <2> QED BY <1>1, <1>2, <2>3, <2>4, Zenon DEF claims
<1> QED BY <1>1, <1>2, Zenon

LEMMA ScreenClaims ==
    ASSUME NEW h, NEW s, Good(h, s), NEW m \in {"title", "fight"}, m \in Claims(h)
    PROVE  m \in h.mode
<1>1. m \notin {"caption", "cursor", "list", "shop", "save", "drawn", "opening"}
  OBVIOUS
<1>2. m \notin h.over
  BY Zenon DEF Good, Core
<1> QED BY <1>1, <1>2, Zenon DEF Claims

LEMMA RouteDirectionTakes ==
    ASSUME NEW h, NEW s, Good(h, s), NEW e PROVE Good(RouteDirection(h, e), s)
<1>1. PICK owner : owner = Owner(h, DirectionOrder)
  OBVIOUS
<1>2. ASSUME NEW m \in {"title", "fight"}, owner = m PROVE Mine(h, m)
  <2>1. DOMAIN DirectionOrder \in SUBSET Nat
    BY DEF DirectionOrder
  <2>2. owner \in Claims(h)
    BY <1>1, <1>2, <2>1, OwnerClaims
  <2> QED BY <1>2, <2>2, ScreenClaims, Zenon DEF Mine
<1>3. /\ "caption" \in Machines /\ Mine(h, "caption") /\ "shop" \in Machines /\ Mine(h, "shop")
      /\ "save" \in Machines /\ Mine(h, "save") /\ "menu" \in Machines /\ Mine(h, "menu")
      /\ "title" \in Machines /\ "fight" \in Machines
  BY DEF Machines, Mine
<1>4. Good(CaptionPad(h, e), s) /\ Good(ShopPad(h, e), s)
  BY <1>3, PadTakes, Zenon DEF CaptionPad, ShopPad, Took
<1>5. Good(SavePad(h, e), s) /\ Good(MenuPad(h, e), s)
  BY <1>3, PadTakes, Zenon DEF SavePad, MenuPad, Took
<1>6. owner = "fight" => Good(FightPad(h, e), s)
  BY <1>2, <1>3, PadTakes, Zenon DEF FightPad, Took
<1>7. owner = "title" => Good(TitlePad(h, e), s)
  BY <1>2, <1>3, PadTakes, Zenon DEF TitlePad, Took
<1>8. Shape(h)
  BY Zenon DEF Good, Core
<1>9. Good([h EXCEPT !.cursorDpad = h.cursorDpad \ {e.dir}], s)
  <2>1. PICK z : z = [h EXCEPT !.cursorDpad = h.cursorDpad \ {e.dir}]
    OBVIOUS
  <2>2. Alike(h, z)
    BY <1>8, <2>1 DEF Alike, Shape
  <2> QED BY <2>1, <2>2, AlikeGood, Zenon
<1>10. Good([h EXCEPT !.modUsed = h.modUsed \/ e.to # {}], s)
  <2>1. PICK z : z = [h EXCEPT !.modUsed = h.modUsed \/ e.to # {}]
    OBVIOUS
  <2>2. Alike(h, z)
    BY <1>8, <2>1 DEF Alike, Shape
  <2> QED BY <2>1, <2>2, AlikeGood, Zenon
<1>11. Good([h EXCEPT !.cursorDpad = h.cursorDpad \cup {e.dir}, !.modUsed = TRUE], s)
  <2>1. PICK z : z = [h EXCEPT !.cursorDpad = h.cursorDpad \cup {e.dir}, !.modUsed = TRUE]
    OBVIOUS
  <2>2. Alike(h, z)
    BY <1>8, <2>1 DEF Alike, Shape
  <2> QED BY <2>1, <2>2, AlikeGood, Zenon
<1>12. \/ RouteDirection(h, e) = [h EXCEPT !.cursorDpad = h.cursorDpad \ {e.dir}]
       \/ RouteDirection(h, e) = [h EXCEPT !.modUsed = h.modUsed \/ e.to # {}]
       \/ RouteDirection(h, e) = [h EXCEPT !.cursorDpad = h.cursorDpad \cup {e.dir}, !.modUsed = TRUE]
       \/ RouteDirection(h, e) = h
       \/ RouteDirection(h, e) = CaptionPad(h, e)
       \/ owner = "fight" /\ RouteDirection(h, e) = FightPad(h, e)
       \/ RouteDirection(h, e) = ShopPad(h, e)
       \/ RouteDirection(h, e) = SavePad(h, e)
       \/ owner = "title" /\ RouteDirection(h, e) = TitlePad(h, e)
       \/ RouteDirection(h, e) = MenuPad(h, e)
  BY <1>1 DEF RouteDirection
<1> QED BY <1>4, <1>5, <1>6, <1>7, <1>9, <1>10, <1>11, <1>12, Zenon

-----------------------------------------------------------------------------
\* sync_ui_mode and fight_poll_ui.  On the way to the new screen keys are let go
\* and machines cleared; none that is clear is filled.
Calmer(h, z, s) ==
    /\ Core(z) /\ Owned(z, s) /\ z.mode = h.mode
    /\ \A m \in Machines : h.dirs[m] = Still => z.dirs[m] = Still

LEMMA CalmerTransitive ==
    ASSUME NEW h, NEW y, NEW z, NEW s, Calmer(h, y, s), Calmer(y, z, s) PROVE Calmer(h, z, s)
  BY Zenon DEF Calmer

LEMMA AlikeCalmer ==
    ASSUME NEW h, NEW z, NEW s, Core(h), Owned(h, s), Alike(h, z) PROVE Calmer(h, z, s)
  BY Zenon DEF Calmer, Core, Owned, Alike, MenuByHand

LEMMA ClearsCalmer ==
    ASSUME NEW h, NEW s, Core(h), Owned(h, s), NEW m \in {"shop", "title", "caption", "fight"}
    PROVE  Calmer(h, Put(h, m, Still), s) /\ Put(h, m, Still).dirs[m] = Still
<1>1. PICK z : z = Put(h, m, Still)
  OBVIOUS
<1>2. Calmed(h, z) /\ Core(z) /\ Owned(z, s) /\ z.dirs[m] = Still
  BY <1>1, PutStill, Zenon
<1>3. Calmer(h, z, s)
  BY <1>2, Zenon DEF Calmer, Calmed
<1> QED BY <1>1, <1>2, <1>3, Zenon

LEMMA ReleasesCalmer ==
    ASSUME NEW h, NEW s, Core(h), Owned(h, s), NEW m \in {"save", "menu"}
    PROVE  /\ Calmer(h, Put(Keys(h, h.dirs[m].down), m, Still), s)
           /\ Put(Keys(h, h.dirs[m].down), m, Still).dirs[m] = Still
<1>1. PICK z : z = Put(Keys(h, h.dirs[m].down), m, Still)
  OBVIOUS
<1>2. Calmed(h, z) /\ Core(z) /\ Owned(z, s) /\ z.dirs[m] = Still
  BY <1>1, MachineReleased, Zenon
<1>3. Calmer(h, z, s)
  BY <1>2, Zenon DEF Calmer, Calmed
<1> QED BY <1>1, <1>2, <1>3, Zenon

LEMMA WalkCalmer ==
    ASSUME NEW h, NEW s, Core(h)
    PROVE  Calmer(h, ReleaseWalk(h), s) /\ ReleaseWalk(h).keys = {}
<1>1. PICK z : z = ReleaseWalk(h)
  OBVIOUS
<1>2. Core(z) /\ Owned(z, s) /\ Calmed(h, z) /\ z.keys = {} /\ z.dirs = h.dirs
  BY <1>1, WalkReleased, Zenon
<1>3. Calmer(h, z, s)
  BY <1>2, Zenon DEF Calmer, Calmed
<1> QED BY <1>1, <1>2, <1>3, Zenon

LEMMA FightCalmer ==
    ASSUME NEW h, NEW s, Core(h), Owned(h, s)
    PROVE  Calmer(h, LeaveFight(h), s) /\ LeaveFight(h).dirs["fight"] = Still /\ LeaveFight(h).keys = {}
<1>1. PICK y : y = Put(h, "fight", Still)
  OBVIOUS
<1>2. Calmer(h, y, s) /\ y.dirs["fight"] = Still
  BY <1>1, ClearsCalmer, Zenon
<1>3. PICK z : z = FightRelease(h)
  OBVIOUS
<1>4. Alike(y, z)
  <2>1. Shape(y)
    BY <1>2, Zenon DEF Calmer, Core
  <2>2. z = [y EXCEPT !.fightUp = FALSE]
    BY <1>1, <1>3, Zenon DEF FightRelease
  <2> QED BY <2>1, <2>2 DEF Alike, Shape
<1>5. Calmer(y, z, s) /\ z.dirs["fight"] = Still
  BY <1>2, <1>4, AlikeCalmer, Zenon DEF Calmer, Alike
<1>6. PICK w : w = ReleaseWalk(z)
  OBVIOUS
<1>7. Calmer(z, w, s) /\ w.keys = {}
  BY <1>5, <1>6, WalkCalmer, Zenon DEF Calmer
<1>8. w.dirs["fight"] = Still
  <2>1. "fight" \in Machines
    BY DEF Machines
  <2> QED BY <1>5, <1>7, <2>1, Zenon DEF Calmer
<1>9. Calmer(h, w, s)
  BY <1>2, <1>5, <1>7, CalmerTransitive, Zenon
<1> QED BY <1>3, <1>6, <1>7, <1>8, <1>9, Zenon DEF LeaveFight

\* Leaving the lists, or coming to one.
LEMMA ListsCalmer ==
    ASSUME NEW h, NEW s, Core(h), Owned(h, s)
    PROVE  LET z == [ShopRelease(SaveRelease(h)) EXCEPT !.aDown = FALSE]
           IN  Calmer(h, z, s) /\ z.dirs["save"] = Still /\ z.dirs["shop"] = Still
<1>1. PICK y : y = SaveRelease(h)
  OBVIOUS
<1>2. y = Put(Keys(h, h.dirs["save"].down), "save", Still)
  BY <1>1, Zenon DEF SaveRelease
<1>3. Calmer(h, y, s) /\ y.dirs["save"] = Still
  BY <1>2, ReleasesCalmer, Zenon
<1>4. PICK x : x = ShopRelease(y)
  OBVIOUS
<1>5. Calmer(y, x, s) /\ x.dirs["shop"] = Still
  <2>1. Core(y) /\ Owned(y, s)
    BY <1>3, Zenon DEF Calmer
  <2>2. x = Put(y, "shop", Still)
    BY <1>4, Zenon DEF ShopRelease
  <2> QED BY <2>1, <2>2, ClearsCalmer, Zenon
<1>6. PICK z : z = [x EXCEPT !.aDown = FALSE]
  OBVIOUS
<1>7. Alike(x, z)
  <2>1. Shape(x)
    BY <1>5, Zenon DEF Calmer, Core
  <2> QED BY <1>6, <2>1 DEF Alike, Shape
<1>8. Calmer(x, z, s)
  BY <1>5, <1>7, AlikeCalmer, Zenon DEF Calmer
<1>9. Calmer(h, z, s)
  BY <1>3, <1>5, <1>8, CalmerTransitive, Zenon
<1>10. "save" \in Machines /\ "shop" \in Machines
  BY DEF Machines
<1>11. z.dirs["save"] = Still /\ z.dirs["shop"] = Still
  BY <1>3, <1>5, <1>8, <1>10, Zenon DEF Calmer
<1> QED BY <1>1, <1>4, <1>6, <1>9, <1>11, Zenon

\* Leaving the native menu, or coming to it.
LEMMA MenuCalmer ==
    ASSUME NEW h, NEW s, Core(h), Owned(h, s)
    PROVE  LET z == [ReleaseWalk(MenuRelease(h)) EXCEPT !.aDown = FALSE, !.focus = "tabs"]
           IN  Calmer(h, z, s) /\ z.dirs["menu"] = Still
<1>1. PICK y : y = MenuRelease(h)
  OBVIOUS
<1>2. y = Put(Keys(h, h.dirs["menu"].down), "menu", Still)
  BY <1>1, Zenon DEF MenuRelease
<1>3. Calmer(h, y, s) /\ y.dirs["menu"] = Still
  BY <1>2, ReleasesCalmer, Zenon
<1>4. PICK x : x = ReleaseWalk(y)
  OBVIOUS
<1>5. Calmer(y, x, s) /\ x.keys = {}
  BY <1>3, <1>4, WalkCalmer, Zenon DEF Calmer
<1>6. PICK z : z = [x EXCEPT !.aDown = FALSE, !.focus = "tabs"]
  OBVIOUS
<1>7. Shape(z) /\ z.keys = x.keys /\ z.dirs = x.dirs /\ z.mode = x.mode /\ z.over = x.over
  <2>1. Shape(x)
    BY <1>5, Zenon DEF Calmer, Core
  <2> QED BY <1>6, <2>1 DEF Shape
<1>8. Calmer(x, z, s)
  BY <1>5, <1>7, Zenon DEF Calmer, Core, Owned
<1>9. Calmer(h, z, s)
  BY <1>3, <1>5, <1>8, CalmerTransitive, Zenon
<1>10. "menu" \in Machines
  BY DEF Machines
<1>11. z.dirs["menu"] = Still
  BY <1>3, <1>5, <1>8, <1>10, Zenon DEF Calmer
<1> QED BY <1>1, <1>4, <1>6, <1>9, <1>11, Zenon

\* The machines of the screens a mode has, and that those which come up are clear.
On(mode, m) == IF m = "save" THEN mode \cap {"save", "list"} # {} ELSE m \in mode
Screens == {"save", "shop", "title", "menu", "fight"}
Entered(h, z) == \A m \in Screens : (~On(h.mode, m) /\ On(z.mode, m)) => z.dirs[m] = Still

LEMMA SwitchClears ==
    ASSUME NEW h, NEW s, Good(h, s), NEW to
    PROVE  Good(Switch(h, to), s) /\ Entered(h, Switch(h, to)) /\ Switch(h, to).mode = to
<1> DEFINE leaves(f)    == f \in h.mode /\ f \notin to
           entered(f) == f \notin h.mode /\ f \in to
           lists      == \E f \in {"save", "list", "shop"} : leaves(f) \/ entered(f)
           menu       == leaves("menu") \/ entered("menu")
<1>1. PICK t : t = IF entered("title") /\ h.selection > 1 THEN [h EXCEPT !.selection = 0] ELSE h
  OBVIOUS
<1>2. PICK a : a = IF leaves("title") THEN TitleRelease(t) ELSE t
  OBVIOUS
<1>3. PICK b : b = IF lists THEN [ShopRelease(SaveRelease(a)) EXCEPT !.aDown = FALSE] ELSE a
  OBVIOUS
<1>4. PICK c : c = IF entered("list") \/ entered("shop") THEN ReleaseWalk(b) ELSE b
  OBVIOUS
<1>5. PICK d : d = IF menu THEN [ReleaseWalk(MenuRelease(c)) EXCEPT !.aDown = FALSE, !.focus = "tabs"] ELSE c
  OBVIOUS
<1>6. PICK e : e = IF leaves("fight") THEN LeaveFight(d) ELSE d
  OBVIOUS
<1>7. PICK z : z = [e EXCEPT !.mode = to]
  OBVIOUS
<1>8. Switch(h, to) = z
  BY <1>1, <1>2, <1>3, <1>4, <1>5, <1>6, <1>7, Zenon DEF Switch
<1> HIDE DEF leaves, entered, lists, menu
<1>9. Core(h) /\ Owned(h, s) /\ Clear(h) /\ Shape(h)
  BY Zenon DEF Good, Core
<1>10. \A x, y \in {h} : Calmer(x, y, s)
  BY <1>9, Zenon DEF Calmer
<1>11. Calmer(h, t, s)
  <2>1. CASE t = h
    BY <1>10, <2>1, Zenon
  <2>2. CASE t = [h EXCEPT !.selection = 0]
    <3>1. Alike(h, t)
      BY <1>9, <2>2 DEF Alike, Shape
    <3> QED BY <1>9, <3>1, AlikeCalmer, Zenon
  <2> QED BY <1>1, <2>1, <2>2, Zenon
<1>12. Calmer(t, a, s) /\ (leaves("title") => a.dirs["title"] = Still)
  <2>1. Core(t) /\ Owned(t, s) /\ Calmer(t, t, s)
    BY <1>11, Zenon DEF Calmer
  <2>2. CASE leaves("title")
    <3>1. a = Put(t, "title", Still)
      BY <1>2, <2>2, Zenon DEF TitleRelease
    <3> QED BY <2>1, <3>1, ClearsCalmer, Zenon
  <2> QED BY <1>2, <2>1, <2>2, Zenon
<1>13. Calmer(a, b, s) /\ (lists => b.dirs["save"] = Still /\ b.dirs["shop"] = Still)
  <2>1. Core(a) /\ Owned(a, s) /\ Calmer(a, a, s)
    BY <1>12, Zenon DEF Calmer
  <2>2. CASE lists
    BY <1>3, <2>1, <2>2, ListsCalmer
  <2> QED BY <1>3, <2>1, <2>2, Zenon
<1>14. Calmer(b, c, s)
  <2>1. Core(b) /\ Owned(b, s) /\ Calmer(b, b, s)
    BY <1>13, Zenon DEF Calmer
  <2> QED BY <1>4, <2>1, WalkCalmer, Zenon
<1>15. Calmer(c, d, s) /\ (menu => d.dirs["menu"] = Still)
  <2>1. Core(c) /\ Owned(c, s) /\ Calmer(c, c, s)
    BY <1>14, Zenon DEF Calmer
  <2>2. CASE menu
    BY <1>5, <2>1, <2>2, MenuCalmer
  <2> QED BY <1>5, <2>1, <2>2, Zenon
<1>16. Calmer(d, e, s) /\ (leaves("fight") => e.dirs["fight"] = Still)
  <2>1. Core(d) /\ Owned(d, s) /\ Calmer(d, d, s)
    BY <1>15, Zenon DEF Calmer
  <2> QED BY <1>6, <2>1, FightCalmer, Zenon
<1>17. \A m \in Machines : /\ a.dirs[m] = Still => e.dirs[m] = Still
                           /\ b.dirs[m] = Still => e.dirs[m] = Still
                           /\ d.dirs[m] = Still => e.dirs[m] = Still
  BY <1>13, <1>14, <1>15, <1>16, Zenon DEF Calmer
<1>18. \A m \in Machines : h.dirs[m] = Still => e.dirs[m] = Still
  BY <1>11, <1>12, <1>17, Zenon DEF Calmer
<1>19. /\ "title" \in Machines /\ "fight" \in Machines /\ "save" \in Machines /\ "shop" \in Machines
       /\ "menu" \in Machines
  BY DEF Machines
<1>20. Core(e) /\ Owned(e, s) /\ Shape(e)
  BY <1>16, Zenon DEF Calmer, Core
<1>21. /\ Shape(z) /\ z.keys = e.keys /\ z.dirs = e.dirs /\ z.over = e.over /\ z.mode = to
       /\ z.page = e.page /\ z.focus = e.focus
  BY <1>7, <1>20 DEF Shape
<1>22. Core(z) /\ Owned(z, s)
  BY <1>20, <1>21, Zenon DEF Core, Owned, MenuByHand
<1>23. "title" \notin to => z.dirs["title"] = Still
  BY <1>9, <1>12, <1>17, <1>18, <1>19, <1>21, Zenon DEF Clear, leaves
<1>24. "fight" \notin to => z.dirs["fight"] = Still
  BY <1>9, <1>16, <1>18, <1>19, <1>21, Zenon DEF Clear, leaves
<1>25. Good(z, s)
  BY <1>21, <1>22, <1>23, <1>24, Zenon DEF Good, Clear
<1>26. Entered(h, z)
  <2>1. (~On(h.mode, "title") /\ On(to, "title")) => z.dirs["title"] = Still
    BY <1>9, <1>18, <1>19, <1>21 DEF Clear, On
  <2>2. (~On(h.mode, "fight") /\ On(to, "fight")) => z.dirs["fight"] = Still
    BY <1>9, <1>18, <1>19, <1>21 DEF Clear, On
  <2>3. (~On(h.mode, "menu") /\ On(to, "menu")) => z.dirs["menu"] = Still
    <3>1. (~On(h.mode, "menu") /\ On(to, "menu")) => menu
      BY DEF On, menu, entered
    <3> QED BY <1>15, <1>17, <1>19, <1>21, <3>1, Zenon
  <2>4. (~On(h.mode, "shop") /\ On(to, "shop")) => z.dirs["shop"] = Still
    <3>1. (~On(h.mode, "shop") /\ On(to, "shop")) => lists
      BY DEF On, lists, entered
    <3> QED BY <1>13, <1>17, <1>19, <1>21, <3>1, Zenon
  <2>5. (~On(h.mode, "save") /\ On(to, "save")) => z.dirs["save"] = Still
    <3>1. (~On(h.mode, "save") /\ On(to, "save")) => lists
      BY DEF On, lists, entered
    <3> QED BY <1>13, <1>17, <1>19, <1>21, <3>1, Zenon
  <2> QED BY <1>21, <2>1, <2>2, <2>3, <2>4, <2>5, Zenon DEF Entered, Screens
<1> QED BY <1>8, <1>21, <1>25, <1>26, Zenon

LEMMA SyncUiModeKeeps ==
    ASSUME NEW h, NEW s, Good(h, s)
    PROVE  Good(SyncUiMode(h), s) /\ Entered(h, SyncUiMode(h))
<1>1. PICK to : to = Flags(h)
  OBVIOUS
<1>2. PICK o : o = [h EXCEPT !.over = Overlays(h, to)]
  OBVIOUS
<1>3. SyncUiMode(h) = IF to = h.mode THEN o ELSE Switch(o, to)
  BY <1>1, <1>2, Zenon DEF SyncUiMode
<1>4. Shape(h) /\ "title" \notin h.over /\ "fight" \notin h.over
  BY Zenon DEF Good, Core
<1>5. "title" \notin Overlays(h, to) /\ "fight" \notin Overlays(h, to)
  BY <1>4 DEF Overlays
<1>6. /\ Shape(o) /\ o.keys = h.keys /\ o.dirs = h.dirs /\ o.over = Overlays(h, to) /\ o.mode = h.mode
      /\ o.page = h.page /\ o.focus = h.focus
  BY <1>2, <1>4 DEF Shape
<1>7. Good(o, s)
  BY <1>5, <1>6, NearGood, Zenon DEF Near
<1>8. Good(Switch(o, to), s) /\ Entered(o, Switch(o, to))
  BY <1>7, SwitchClears, Zenon
<1>9. Entered(h, o) /\ Entered(h, Switch(o, to))
  BY <1>6, <1>8, Zenon DEF Entered
<1> QED BY <1>3, <1>7, <1>8, <1>9, Zenon

LEMMA PollFightKeeps ==
    ASSUME NEW h, NEW s, Good(h, s)
    PROVE  /\ Good(PollFight(h), s)
           /\ \A m \in Machines : h.dirs[m] = Still => PollFight(h).dirs[m] = Still
           /\ \A m \in Screens : On(PollFight(h).mode, m) => On(h.mode, m) \/ h.dirs[m] = Still
<1>1. Shape(h) /\ Core(h) /\ Owned(h, s) /\ Clear(h) /\ "title" \notin h.over /\ "fight" \notin h.over
  BY Zenon DEF Good, Core
<1>2. CASE PollFight(h) = h
  BY <1>2, Zenon
<1>3. CASE PollFight(h) = [h EXCEPT !.mode = (h.mode \ {"save"}) \cup {"fight"},
                                     !.over = IF h.turn THEN h.over \cup {"battle"} ELSE h.over \ {"battle"}]
  <2>1. PICK z : z = PollFight(h)
    OBVIOUS
  <2>2. /\ Shape(z) /\ z.keys = h.keys /\ z.dirs = h.dirs /\ z.page = h.page /\ z.focus = h.focus
        /\ z.mode = (h.mode \ {"save"}) \cup {"fight"}
        /\ z.over = IF h.turn THEN h.over \cup {"battle"} ELSE h.over \ {"battle"}
    BY <1>1, <1>3, <2>1 DEF Shape
  <2>3. "title" \notin z.over /\ "fight" \notin z.over /\ "fight" \in z.mode
    BY <1>1, <2>2
  <2>4. "title" \in z.mode <=> "title" \in h.mode
    BY <2>2
  <2>5. Core(z) /\ Owned(z, s) /\ Clear(z)
    BY <1>1, <2>2, <2>3, <2>4, Zenon DEF Core, Owned, Clear, MenuByHand
  <2>6. \A m \in Screens : On(z.mode, m) => On(h.mode, m) \/ m = "fight"
    BY <2>2 DEF On, Screens
  <2>7. On(h.mode, "fight") \/ h.dirs["fight"] = Still
    BY <1>1 DEF Clear, On
  <2> QED BY <2>1, <2>2, <2>5, <2>6, <2>7, Zenon DEF Good
<1>4. CASE "fight" \in h.mode /\ PollFight(h) = [LeaveFight(h) EXCEPT !.mode = LeaveFight(h).mode \ {"fight"},
                                                         !.over = LeaveFight(h).over \ {"battle"}]
  <2>1. PICK z : z = PollFight(h)
    OBVIOUS
  <2>2. PICK e : e = LeaveFight(h)
    OBVIOUS
  <2>3. Calmer(h, e, s) /\ e.dirs["fight"] = Still /\ e.keys = {}
    BY <1>1, <2>2, FightCalmer, Zenon
  <2>4. Shape(e) /\ Core(e) /\ Owned(e, s) /\ e.mode = h.mode
    BY <2>3, Zenon DEF Calmer, Core
  <2>5. /\ Shape(z) /\ z.keys = e.keys /\ z.dirs = e.dirs /\ z.page = e.page /\ z.focus = e.focus
        /\ z.mode = h.mode \ {"fight"} /\ z.over = e.over \ {"battle"}
    <3>1. z = [e EXCEPT !.mode = e.mode \ {"fight"}, !.over = e.over \ {"battle"}]
      BY <1>4, <2>1, <2>2, Zenon
    <3> QED BY <2>4, <3>1 DEF Shape
  <2>6. Core(z) /\ Owned(z, s)
    BY <2>4, <2>5, Zenon DEF Core, Owned, MenuByHand
  <2>7. "title" \in z.mode <=> "title" \in h.mode
    BY <2>5
  <2>8. "title" \in Machines /\ (h.dirs["title"] = Still => e.dirs["title"] = Still)
    BY <2>3, Zenon DEF Calmer, Machines
  <2>9. Clear(z)
    BY <1>1, <2>3, <2>5, <2>7, <2>8, Zenon DEF Clear
  <2>10. \A m \in Machines : h.dirs[m] = Still => z.dirs[m] = Still
    BY <2>3, <2>5, Zenon DEF Calmer
  <2>11. \A m \in Screens : On(z.mode, m) => On(h.mode, m)
    BY <2>5 DEF On, Screens
  <2> QED BY <2>1, <2>6, <2>9, <2>10, <2>11, Zenon DEF Good
<1> QED BY <1>2, <1>3, <1>4, Zenon DEF PollFight

LEMMA ReadyIsGood ==
    ASSUME NEW s, Good(bridge, s) PROVE Good(Ready, s) /\ EntersClean
<1>1. PICK g : g = SyncUiMode(bridge)
  OBVIOUS
<1>2. Good(g, s) /\ Entered(bridge, g)
  BY <1>1, SyncUiModeKeeps, Zenon
<1>3. PICK z : z = PollFight(g)
  OBVIOUS
<1>4. /\ Good(z, s)
      /\ \A m \in Machines : g.dirs[m] = Still => z.dirs[m] = Still
      /\ \A m \in Screens : On(z.mode, m) => On(g.mode, m) \/ g.dirs[m] = Still
  BY <1>2, <1>3, PollFightKeeps, Zenon
<1>5. Ready = z
  BY <1>1, <1>3, Zenon DEF Ready
<1>6. Screens \subseteq Machines
  BY DEF Screens, Machines
<1>7. \A m \in Screens : (~On(bridge.mode, m) /\ On(z.mode, m)) => z.dirs[m] = Still
  BY <1>2, <1>4, <1>6, Zenon DEF Entered
<1>8. EntersClean
  BY <1>5, <1>7, Zenon DEF EntersClean, On, Screens
<1> QED BY <1>4, <1>5, <1>8, Zenon

-----------------------------------------------------------------------------
(* The buttons.                                                            *)

\* Keys that are not directions are nobody's here.
LEMMA KeyGood ==
    ASSUME NEW h, NEW s, Good(h, s), NEW d \in {"escape", "return"}, NEW goes
    PROVE  Good(Key(h, d, goes), s)
<1>1. PICK z : z = Key(h, d, goes)
  OBVIOUS
<1>2. d \notin Directions
  BY DirectionsAssumption DEF Sideways
<1>3. Shape(h) /\ Core(h) /\ Owned(h, s) /\ Clear(h)
  BY Zenon DEF Good, Core
<1>4. HasKeys(h, z, IF goes THEN h.keys \cup {d} ELSE h.keys \ {d})
  BY <1>1, <1>3, KeyIs, Zenon
<1>5. z.keys \cap Directions \subseteq h.keys
  BY <1>2, <1>4, Zenon DEF HasKeys
<1>6. Owned(z, s)
  <2>1. MenuByHand(z) <=> MenuByHand(h)
    BY <1>4, Zenon DEF HasKeys, MenuByHand
  <2> QED BY <1>3, <1>4, <1>5, <2>1, Zenon DEF HasKeys, Owned
<1>7. Core(z) /\ Clear(z)
  BY <1>3, <1>4, Zenon DEF HasKeys, Core, Clear
<1> QED BY <1>1, <1>6, <1>7, Zenon DEF Good

LEMMA WalkGood ==
    ASSUME NEW h, NEW s, Good(h, s) PROVE Good(ReleaseWalk(h), s) /\ ReleaseWalk(h).keys = {}
  BY WalkReleased, Zenon DEF Good

LEMMA MenuReleaseGood ==
    ASSUME NEW h, NEW s, Good(h, s)
    PROVE  Good(MenuRelease(h), s) /\ MenuRelease(h).dirs["menu"].down = {}
<1>1. PICK z : z = MenuRelease(h)
  OBVIOUS
<1>2. z = Put(Keys(h, h.dirs["menu"].down), "menu", Still)
  BY <1>1, Zenon DEF MenuRelease
<1>3. Core(z) /\ Owned(z, s) /\ Clear(z) /\ z.dirs["menu"] = Still
  BY <1>2, MachineReleased, Zenon DEF Good
<1> QED BY <1>1, <1>3, StillIs, Zenon DEF Good

LEMMA BeginOpenGood ==
    ASSUME NEW h, NEW s, Good(h, s) PROVE Good(BeginOpen(h), s)
<1>1. PICK y : y = ReleaseWalk(h)
  OBVIOUS
<1>2. Good(y, s) /\ y.keys = {}
  BY <1>1, WalkGood, Zenon
<1>3. Shape(y) /\ "title" \notin y.over /\ "fight" \notin y.over
  BY <1>2, Zenon DEF Good, Core
<1>4. PICK z : z = BeginOpen(h)
  OBVIOUS
<1>5. z = [y EXCEPT !.opening = TRUE, !.focus = "tabs", !.capturedA = FALSE, !.capturedB = FALSE]
  BY <1>1, <1>4, Zenon DEF BeginOpen
<1>6. Shape(z) /\ z.keys = y.keys /\ z.dirs = y.dirs /\ z.mode = y.mode /\ z.over = y.over
  BY <1>3, <1>5 DEF Shape
<1>7. y.dirs["menu"].down \cap y.keys = {}
  BY <1>2, Zenon
<1>8. Near(y, z)
  BY <1>3, <1>6, <1>7, Zenon DEF Near
<1> QED BY <1>2, <1>4, <1>8, NearGood, Zenon

\* Leaving the session forgets its screen before the machine is cleared; no key
\* is held at the end of it.
LEMMA LeaveSessionGood ==
    ASSUME NEW h, NEW s, Good(h, s) PROVE Good(LeaveSession(h), s)
<1>1. PICK y : y = [h EXCEPT !.opening = FALSE, !.talk = FALSE, !.focus = "tabs",
                             !.capturedA = FALSE, !.capturedB = FALSE,
                             !.mode = h.mode \ {"menu", "menuUi"}]
  OBVIOUS
<1>2. Shape(h) /\ Core(h) /\ Clear(h)
  BY Zenon DEF Good, Core
<1>3. Shape(y) /\ y.keys = h.keys /\ y.dirs = h.dirs /\ y.mode = h.mode \ {"menu", "menuUi"} /\ y.over = h.over
  BY <1>1, <1>2 DEF Shape
<1>4. ("title" \in y.mode <=> "title" \in h.mode) /\ ("fight" \in y.mode <=> "fight" \in h.mode)
  BY <1>3
<1>5. Core(y) /\ Clear(y)
  BY <1>2, <1>3, <1>4, Zenon DEF Core, Clear
<1>6. Owned(y, Directions)
  BY Zenon DEF Owned
<1>7. PICK x : x = MenuRelease(y)
  OBVIOUS
<1>8. Good(x, Directions)
  BY <1>5, <1>6, <1>7, MenuReleaseGood, Zenon DEF Good
<1>9. Core(x) /\ Clear(x)
  BY <1>8, Zenon DEF Good
<1>10. Good(ReleaseWalk(x), s)
  BY <1>9, WalkReleased, Zenon DEF Good
<1>11. LeaveSession(h) = ReleaseWalk(x)
  BY <1>1, <1>7, Zenon DEF LeaveSession
<1> QED BY <1>10, <1>11, Zenon

LEMMA RouteXGood ==
    ASSUME NEW h, NEW s, Good(h, s), NEW down PROVE Good(RouteX(h, down), s)
<1>1. PICK y : y = ReleaseWalk(h)
  OBVIOUS
<1>2. Good(y, s)
  BY <1>1, WalkGood, Zenon
<1>3. Shape(y) /\ "title" \notin y.over /\ "fight" \notin y.over
  BY <1>2, Zenon DEF Good, Core
<1>4. PICK z : z = [y EXCEPT !.over = y.over \cup {"hostMenu"}]
  OBVIOUS
<1>5. /\ Shape(z) /\ z.keys = y.keys /\ z.dirs = y.dirs /\ z.mode = y.mode /\ z.over = y.over \cup {"hostMenu"}
      /\ z.focus = y.focus /\ z.page = y.page
  BY <1>3, <1>4 DEF Shape
<1>6. "title" \notin z.over /\ "fight" \notin z.over
  BY <1>3, <1>5
<1>7. Good(z, s)
  BY <1>2, <1>5, <1>6, NearGood, Zenon DEF Near
<1>8. RouteX(h, down) = h \/ RouteX(h, down) = z
  BY <1>1, <1>4, Zenon DEF RouteX
<1> QED BY <1>7, <1>8, Zenon

LEMMA SeenGood ==
    ASSUME NEW h, NEW s, Good(h, s), NEW b, NEW down, NEW holds
    PROVE  Good(ComboExit(Seen(h, b, down), holds), s)
<1>1. PICK y : y = Seen(h, b, down)
  OBVIOUS
<1>2. Good(y, s)
  <2>1. Shape(h)
    BY Zenon DEF Good, Core
  <2>2. PICK bs : bs = IF down THEN h.btn \cup {b} ELSE h.btn \ {b}
    OBVIOUS
  <2>3. y = [h EXCEPT !.btn = bs]
    BY <1>1, <2>2 DEF Seen
  <2>4. Alike(h, y)
    BY <2>1, <2>3 DEF Alike, Shape
  <2> QED BY <2>4, AlikeGood, Zenon
<1>3. Good(ComboExit(y, holds), s)
  <2>1. Shape(y)
    BY <1>2, Zenon DEF Good, Core
  <2>2. PICK z : z = [y EXCEPT !.quit = TRUE]
    OBVIOUS
  <2>3. Alike(y, z)
    BY <2>1, <2>2 DEF Alike, Shape
  <2>4. Good(z, s)
    BY <1>2, <2>3, AlikeGood, Zenon
  <2> QED BY <1>2, <2>2, <2>4, Zenon DEF ComboExit
<1> QED BY <1>1, <1>3, Zenon

LEMMA LoadDoneGood ==
    ASSUME NEW h, NEW s, Good(h, s), NEW v PROVE Good([h EXCEPT !.loadDone = v], s)
<1>1. PICK z : z = [h EXCEPT !.loadDone = v]
  OBVIOUS
<1>2. Shape(h)
  BY Zenon DEF Good, Core
<1>3. Alike(h, z)
  BY <1>1, <1>2 DEF Alike, Shape
<1> QED BY <1>1, <1>3, AlikeGood, Zenon

LEMMA RouteBackGood ==
    ASSUME NEW h, NEW s, Good(h, s), NEW down, NEW holds PROVE Good(RouteBack(h, down, holds), s)
<1>1. PICK y : y = ComboExit(Seen(h, "BACK", down), holds)
  OBVIOUS
<1>2. Good(y, s)
  BY <1>1, SeenGood, Zenon
<1>3. PICK x : x = IF down THEN [y EXCEPT !.loadDone = TRUE] ELSE y
  OBVIOUS
<1>4. Good(x, s)
  BY <1>2, <1>3, LoadDoneGood, Zenon
<1>5. "escape" \in {"escape", "return"}
  OBVIOUS
<1>6. Good(Key(x, "escape", down), s) /\ Good(Key(y, "escape", down), s) /\ Good(Key(y, "escape", FALSE), s)
  BY <1>2, <1>4, <1>5, KeyGood, Zenon
<1>7. Good(BeginOpen(y), s) /\ Good(BeginOpen(LeaveSession(y)), s)
  BY <1>2, BeginOpenGood, LeaveSessionGood, Zenon
<1>8. \/ RouteBack(h, down, holds) = y
      \/ RouteBack(h, down, holds) = Key(x, "escape", down)
      \/ RouteBack(h, down, holds) = Key(y, "escape", down)
      \/ RouteBack(h, down, holds) = Key(y, "escape", FALSE)
      \/ RouteBack(h, down, holds) = BeginOpen(y)
      \/ RouteBack(h, down, holds) = BeginOpen(LeaveSession(y))
  BY <1>1, <1>3 DEF RouteBack
<1> QED BY <1>2, <1>6, <1>7, <1>8, Zenon

LEMMA RouteStartGood ==
    ASSUME NEW h, NEW s, Good(h, s), NEW down, NEW holds PROVE Good(RouteStart(h, down, holds), s)
<1>1. PICK y : y = ComboExit(Seen(h, "START", down), holds)
  OBVIOUS
<1>2. Good(y, s)
  BY <1>1, SeenGood, Zenon
<1>3. ASSUME NEW v PROVE Good([y EXCEPT !.finger = v], s)
  <2>1. PICK z : z = [y EXCEPT !.finger = v]
    OBVIOUS
  <2>2. Shape(y)
    BY <1>2, Zenon DEF Good, Core
  <2>3. Alike(y, z)
    BY <2>1, <2>2 DEF Alike, Shape
  <2> QED BY <1>2, <2>1, <2>3, AlikeGood, Zenon
<1>4. \/ RouteStart(h, down, holds) = y
      \/ RouteStart(h, down, holds) = [y EXCEPT !.finger = FALSE]
      \/ RouteStart(h, down, holds) = [y EXCEPT !.finger = TRUE]
  BY <1>1, Zenon DEF RouteStart
<1> QED BY <1>2, <1>3, <1>4, Zenon

LEMMA RouteR1Good ==
    ASSUME NEW h, NEW s, Good(h, s), NEW down PROVE Good(RouteR1(h, down), s)
<1>1. PICK y : y = [h EXCEPT !.modifier = TRUE, !.modUsed = FALSE]
  OBVIOUS
<1>2. PICK z : z = [h EXCEPT !.modifier = FALSE]
  OBVIOUS
<1>3. Shape(h)
  BY Zenon DEF Good, Core
<1>4. Alike(h, y)
  BY <1>1, <1>3 DEF Alike, Shape
<1>5. Alike(h, z)
  BY <1>2, <1>3 DEF Alike, Shape
<1>6. Good(y, s) /\ Good(z, s)
  BY <1>4, <1>5, AlikeGood, Zenon
<1> QED BY <1>1, <1>2, <1>6, Zenon DEF RouteR1

LEMMA CaptionDoneGood ==
    ASSUME NEW h, NEW s, Good(h, s) PROVE Good(CaptionClear([h EXCEPT !.caption = FALSE]), s)
<1>1. PICK z : z = [h EXCEPT !.caption = FALSE]
  OBVIOUS
<1>2. Shape(h)
  BY Zenon DEF Good, Core
<1>3. Alike(h, z)
  BY <1>1, <1>2 DEF Alike, Shape
<1>4. Good(z, s)
  BY <1>3, AlikeGood, Zenon
<1> QED BY <1>1, <1>4, CaptionCleared, Zenon DEF Took

LEMMA RouteBGood ==
    ASSUME NEW h, NEW s, Good(h, s), NEW down, NEW content PROVE Good(RouteB(h, down, content), s)
<1>1. PICK y : y = MenuRelease(h)
  OBVIOUS
<1>2. Good(y, s) /\ y.dirs["menu"].down = {}
  BY <1>1, MenuReleaseGood, Zenon
<1>3. Shape(y) /\ Shape(h) /\ "title" \notin y.over /\ "fight" \notin y.over
  BY <1>2, Zenon DEF Good, Core
<1>4. PICK z : z = [y EXCEPT !.capturedA = FALSE, !.aDown = FALSE,
                             !.capturedB = (h.page = "book" /\ h.focus = "content"),
                             !.focus = IF y.focus = "tabs" THEN "tabs" ELSE content]
  OBVIOUS
<1>5. Shape(z) /\ z.keys = y.keys /\ z.dirs = y.dirs /\ z.mode = y.mode /\ z.over = y.over
  BY <1>3, <1>4 DEF Shape
<1>6. Near(y, z)
  BY <1>2, <1>3, <1>5, Zenon DEF Near
<1>7. Good(z, s)
  BY <1>2, <1>6, NearGood, Zenon
<1>8. PICK w : w = [h EXCEPT !.capturedB = FALSE]
  OBVIOUS
<1>9. Good(w, s)
  <2>1. Alike(h, w)
    BY <1>3, <1>8 DEF Alike, Shape
  <2> QED BY <2>1, AlikeGood, Zenon
<1>10. PICK x : x = IF down THEN [h EXCEPT !.loadDone = TRUE] ELSE h
  OBVIOUS
<1>11. Good(x, s)
  BY <1>10, LoadDoneGood, Zenon
<1>12. "escape" \in {"escape", "return"}
  OBVIOUS
<1>13. Good(Key(x, "escape", down), s) /\ Good(Key(h, "escape", down), s)
  BY <1>11, <1>12, KeyGood, Zenon
<1>14. \/ RouteB(h, down, content) = h
       \/ RouteB(h, down, content) = w
       \/ RouteB(h, down, content) = z
       \/ RouteB(h, down, content) = Key(x, "escape", down)
       \/ RouteB(h, down, content) = Key(h, "escape", down)
       \/ RouteB(h, down, content) = LeaveSession(h)
       \/ RouteB(h, down, content) = CaptionClear([h EXCEPT !.caption = FALSE])
  BY <1>1, <1>4, <1>8, <1>10 DEF RouteB
<1> QED BY <1>7, <1>9, <1>13, <1>14, LeaveSessionGood, CaptionDoneGood, Zenon

LEMMA EdgeGood ==
    ASSUME NEW h, NEW s, Good(h, s), NEW down PROVE Good(AEdge(h, down), s)
<1>1. PICK z : z = AEdge(h, down)
  OBVIOUS
<1>2. Shape(h)
  BY Zenon DEF Good, Core
<1>3. Alike(h, z)
  BY <1>1, <1>2 DEF Alike, Shape, AEdge
<1> QED BY <1>1, <1>3, AlikeGood, Zenon

LEMMA TalkGood ==
    ASSUME NEW h, NEW s, Good(h, s), NEW down PROVE Good(Talk(h, down), s)
<1>1. PICK y : y = Key(h, "return", down)
  OBVIOUS
<1>2. "return" \in {"escape", "return"}
  OBVIOUS
<1>3. Good(y, s)
  BY <1>1, <1>2, KeyGood, Zenon
<1>4. PICK z : z = [y EXCEPT !.talk = down]
  OBVIOUS
<1>5. Shape(y)
  BY <1>3, Zenon DEF Good, Core
<1>6. Alike(y, z)
  BY <1>4, <1>5 DEF Alike, Shape
<1>7. Good(z, s)
  BY <1>3, <1>6, AlikeGood, Zenon
<1> QED BY <1>1, <1>4, <1>7, Zenon DEF Talk

LEMMA MenuAGood ==
    ASSUME NEW h, NEW s, Good(h, s), NEW down, NEW bounces PROVE Good(MenuA(h, down, bounces), s)
<1>1. PICK a : a = AEdge(h, down)
  OBVIOUS
<1>2. Good(a, s)
  BY <1>1, EdgeGood, Zenon
<1>3. PICK y : y = MenuRelease(a)
  OBVIOUS
<1>4. Good(y, s) /\ y.dirs["menu"].down = {}
  BY <1>2, <1>3, MenuReleaseGood, Zenon
<1>5. Shape(h) /\ Shape(a) /\ Shape(y) /\ "title" \notin y.over /\ "fight" \notin y.over
  BY <1>2, <1>4, Zenon DEF Good, Core
<1>6. PICK z : z = [y EXCEPT !.capturedA = TRUE, !.focus = "content"]
  OBVIOUS
<1>7. Shape(z) /\ z.keys = y.keys /\ z.dirs = y.dirs /\ z.mode = y.mode /\ z.over = y.over
  BY <1>5, <1>6 DEF Shape
<1>8. Near(y, z)
  BY <1>4, <1>5, <1>7, Zenon DEF Near
<1>9. Good(z, s)
  BY <1>4, <1>8, NearGood, Zenon
<1>10. PICK w : w = [h EXCEPT !.capturedA = FALSE, !.aDown = FALSE]
  OBVIOUS
<1>11. Good(w, s)
  <2>1. Alike(h, w)
    BY <1>5, <1>10 DEF Alike, Shape
  <2> QED BY <2>1, AlikeGood, Zenon
<1>12. PICK x : x = [a EXCEPT !.capturedA = TRUE]
  OBVIOUS
<1>13. Good(x, s)
  <2>1. Alike(a, x)
    BY <1>5, <1>12 DEF Alike, Shape
  <2> QED BY <1>2, <2>1, AlikeGood, Zenon
<1>14. "return" \in {"escape", "return"}
  OBVIOUS
<1>15. Good(Key(a, "return", down), s)
  BY <1>2, <1>14, KeyGood, Zenon
<1>16. \/ MenuA(h, down, bounces) = h
       \/ MenuA(h, down, bounces) = w
       \/ MenuA(h, down, bounces) = a
       \/ MenuA(h, down, bounces) = z
       \/ MenuA(h, down, bounces) = x
       \/ MenuA(h, down, bounces) = Key(a, "return", down)
  BY <1>1, <1>3, <1>6, <1>10, <1>12 DEF MenuA
<1> QED BY <1>2, <1>9, <1>11, <1>13, <1>15, <1>16, Zenon

LEMMA FightAGood ==
    ASSUME NEW h, NEW s, Good(h, s), NEW down, NEW taken \in {"no", "refused", "done"}
    PROVE  Good(FightA(h, down, taken), s)
<1>1. PICK z : z = [h EXCEPT !.fightUp = TRUE]
  OBVIOUS
<1>2. Shape(h)
  BY Zenon DEF Good, Core
<1>3. Alike(h, z)
  BY <1>1, <1>2 DEF Alike, Shape
<1>4. "return" \in {"escape", "return"}
  OBVIOUS
<1>5. Good(z, s) /\ Good(Key(h, "return", down), s)
  BY <1>3, <1>4, KeyGood, AlikeGood, Zenon
<1>6. \/ FightA(h, down, taken) = h
      \/ FightA(h, down, taken) = z
      \/ FightA(h, down, taken) = Key(h, "return", down)
  BY <1>1 DEF FightA
<1> QED BY <1>5, <1>6, Zenon

LEMMA RouteAGood ==
    ASSUME NEW h, NEW s, Good(h, s), NEW down, NEW bounces, NEW taken \in {"no", "refused", "done"}
    PROVE  Good(RouteA(h, down, bounces, taken), s)
<1>1. PICK a : a = AEdge(h, down)
  OBVIOUS
<1>2. Good(a, s)
  BY <1>1, EdgeGood, Zenon
<1>3. PICK w : w = [h EXCEPT !.fightUp = FALSE]
  OBVIOUS
<1>4. Good(w, s)
  <2>1. Shape(h)
    BY Zenon DEF Good, Core
  <2>2. Alike(h, w)
    BY <1>3, <2>1 DEF Alike, Shape
  <2> QED BY <2>2, AlikeGood, Zenon
<1>5. PICK x : x = IF down THEN a ELSE [a EXCEPT !.loadDone = (a.selection # 0)]
  OBVIOUS
<1>6. PICK y : y = IF "save" \in a.mode /\ ~down THEN [a EXCEPT !.loadDone = TRUE] ELSE a
  OBVIOUS
<1>7. Good(x, s) /\ Good(y, s)
  BY <1>2, <1>5, <1>6, LoadDoneGood, Zenon
<1>8. "return" \in {"escape", "return"}
  OBVIOUS
<1>9. Good(Key(x, "return", down), s) /\ Good(Key(y, "return", down), s)
  BY <1>7, <1>8, KeyGood, Zenon
<1>10. Good(Talk(h, FALSE), s) /\ Good(Talk(a, down), s)
  BY <1>2, TalkGood, Zenon
<1>11. Good(MenuA(h, down, bounces), s) /\ Good(FightA(h, down, taken), s)
  BY MenuAGood, FightAGood, Zenon
<1>12. \/ RouteA(h, down, bounces, taken) = CaptionClear([h EXCEPT !.caption = FALSE])
       \/ RouteA(h, down, bounces, taken) = h
       \/ RouteA(h, down, bounces, taken) = MenuA(h, down, bounces)
       \/ RouteA(h, down, bounces, taken) = w
       \/ RouteA(h, down, bounces, taken) = FightA(h, down, taken)
       \/ RouteA(h, down, bounces, taken) = Talk(h, FALSE)
       \/ RouteA(h, down, bounces, taken) = Key(x, "return", down)
       \/ RouteA(h, down, bounces, taken) = Key(y, "return", down)
       \/ RouteA(h, down, bounces, taken) = Talk(a, down)
  BY <1>1, <1>3, <1>5, <1>6 DEF RouteA
<1> QED BY <1>4, <1>9, <1>10, <1>11, <1>12, CaptionDoneGood, Zenon

LEMMA RouteButtonGood ==
    ASSUME NEW h, NEW s, Good(h, s), NEW b \in PadButtons, NEW down, NEW holds, NEW bounces,
           NEW taken \in {"no", "refused", "done"}, NEW content
    PROVE  Good(RouteButton(h, b, down, holds, bounces, taken, content), s)
<1>1. Shape(h) /\ "title" \notin h.over /\ "fight" \notin h.over
  BY Zenon DEF Good, Core
<1>2. ASSUME NEW over, "title" \notin over, "fight" \notin over
      PROVE  Good([h EXCEPT !.over = over], s)
  <2>1. PICK z : z = [h EXCEPT !.over = over]
    OBVIOUS
  <2>2. /\ Shape(z) /\ z.keys = h.keys /\ z.dirs = h.dirs /\ z.mode = h.mode /\ z.over = over
        /\ z.focus = h.focus /\ z.page = h.page
    BY <1>1, <2>1 DEF Shape
  <2>3. Good(z, s)
    BY <1>2, <2>2, NearGood, Zenon DEF Near
  <2> QED BY <2>1, <2>3, Zenon
<1>3. PICK less : less = h.over \ {"cheat"}
  OBVIOUS
<1>4. PICK more : more = h.over \cup {"cheat"}
  OBVIOUS
<1>5. "title" \notin less /\ "fight" \notin less /\ "title" \notin more /\ "fight" \notin more
  BY <1>1, <1>3, <1>4
<1>6. Good([h EXCEPT !.over = less], s) /\ Good([h EXCEPT !.over = more], s)
  BY <1>2, <1>5, Zenon
<1>7. \/ RouteButton(h, b, down, holds, bounces, taken, content) = h
      \/ RouteButton(h, b, down, holds, bounces, taken, content) = [h EXCEPT !.over = less]
      \/ RouteButton(h, b, down, holds, bounces, taken, content) = [h EXCEPT !.over = more]
      \/ RouteButton(h, b, down, holds, bounces, taken, content) = RouteX(h, down)
      \/ RouteButton(h, b, down, holds, bounces, taken, content) = RouteBack(h, down, holds)
      \/ RouteButton(h, b, down, holds, bounces, taken, content) = RouteStart(h, down, holds)
      \/ RouteButton(h, b, down, holds, bounces, taken, content) = RouteB(h, down, content)
      \/ RouteButton(h, b, down, holds, bounces, taken, content) = RouteA(h, down, bounces, taken)
      \/ RouteButton(h, b, down, holds, bounces, taken, content) = RouteR1(h, down)
  BY <1>3, <1>4 DEF RouteButton, PadButtons
<1>8. Good(RouteX(h, down), s) /\ Good(RouteBack(h, down, holds), s) /\ Good(RouteStart(h, down, holds), s)
  BY RouteXGood, RouteBackGood, RouteStartGood, Zenon
<1>9. Good(RouteB(h, down, content), s) /\ Good(RouteA(h, down, bounces, taken), s) /\ Good(RouteR1(h, down), s)
  BY RouteBGood, RouteAGood, RouteR1Good, Zenon
<1> QED BY <1>6, <1>7, <1>8, <1>9, Zenon

-----------------------------------------------------------------------------
\* The inductive invariant of the routing.
RoutingInv == Good(bridge, strayed)

\* NoteKeys forgets only keys that are not held.
LEMMA Noted ==
    ASSUME NEW s, Good(bridge', s), strayed' = s \cap bridge'.keys PROVE RoutingInv'
<1>1. PICK z : z = bridge'
  OBVIOUS
<1>2. PICK w : w = strayed'
  OBVIOUS
<1>3. Good(z, s) /\ w = s \cap z.keys
  BY <1>1, <1>2, Zenon
<1>4. Good(z, w)
  BY <1>3, Zenon DEF Good, Owned
<1> QED BY <1>1, <1>2, <1>4, Zenon DEF RoutingInv

LEMMA RoutingInitial == RoutingInit => RoutingInv
<1> SUFFICES ASSUME RoutingInit PROVE RoutingInv
  OBVIOUS
<1>1. PICK z : z = bridge
  OBVIOUS
<1>2. PICK menu \in BOOLEAN :
          z = [scene |-> IF menu THEN "menu" ELSE "field", caption |-> FALSE, turn |-> FALSE, page |-> "keys",
               mode |-> IF menu THEN {"menuUi", "menu"} ELSE {}, over |-> {},
               opening |-> FALSE, focus |-> IF menu THEN "content" ELSE "tabs",
               dirs |-> [m \in Machines |-> Still], keys |-> {}, selection |-> 0,
               aDown |-> FALSE, capturedA |-> FALSE, capturedB |-> FALSE,
               fightUp |-> FALSE, talk |-> FALSE, loadDone |-> FALSE,
               btn |-> {}, modifier |-> FALSE, modUsed |-> FALSE, cursorDpad |-> {},
               finger |-> FALSE, shown |-> FALSE, quit |-> FALSE]
  BY <1>1 DEF RoutingInit
<1>3. /\ "keys" \in DOMAIN z /\ "dirs" \in DOMAIN z /\ "mode" \in DOMAIN z /\ "over" \in DOMAIN z
      /\ "page" \in DOMAIN z /\ "focus" \in DOMAIN z
  BY <1>2
<1>4. z.dirs = [m \in Machines |-> Still] /\ z.keys = {} /\ z.over = {}
  BY <1>2
<1>5. DOMAIN z.dirs = Machines /\ \A m \in Machines : z.dirs[m] = Still
  BY <1>4, Zenon
<1>6. "save" \in Machines /\ "title" \in Machines /\ "fight" \in Machines
  BY DEF Machines
<1>7. Shape(z)
  BY <1>3, <1>5, StillIs, Zenon DEF Shape
<1>8. Core(z)
  BY <1>4, <1>5, <1>6, <1>7, StillIs, Zenon DEF Core
<1>9. Owned(z, strayed) /\ Clear(z)
  BY <1>4, <1>5, <1>6, Zenon DEF Owned, Clear
<1> QED BY <1>1, <1>8, <1>9, Zenon DEF Good, RoutingInv

LEMMA DirectionKeeps ==
    ASSUME RoutingInv, NEW e, NEW now, Direction(e, now) PROVE RoutingInv'
<1>1. PICK z : z = Ready
  OBVIOUS
<1>2. Good(z, strayed)
  BY <1>1, ReadyIsGood, Zenon DEF RoutingInv
<1>3. bridge' = RouteDirection(z, e) /\ strayed' = strayed \cap bridge'.keys
  BY <1>1, Zenon DEF Direction, NoteKeys
<1>4. Good(bridge', strayed)
  BY <1>2, <1>3, RouteDirectionTakes, Zenon
<1> QED BY <1>3, <1>4, Noted, Zenon

LEMMA ButtonKeeps ==
    ASSUME RoutingInv, NEW b \in PadButtons, NEW bounces, NEW taken \in {"no", "refused", "done"}, NEW content,
           ButtonEvent(b, bounces, taken, content)
    PROVE  RoutingInv'
<1>1. PICK z : z = Ready
  OBVIOUS
<1>2. Good(z, strayed)
  BY <1>1, ReadyIsGood, Zenon DEF RoutingInv
<1>3. /\ \E down, holds : bridge' = RouteButton(z, b, down, holds, bounces, taken, content)
      /\ strayed' = strayed \cap bridge'.keys
  BY <1>1, Zenon DEF ButtonEvent, NoteKeys
<1>4. Good(bridge', strayed)
  BY <1>2, <1>3, RouteButtonGood, Zenon
<1> QED BY <1>3, <1>4, Noted, Zenon

LEMMA PresentKeeps == ASSUME RoutingInv, Present PROVE RoutingInv'
<1>1. PICK g : g = SyncUiMode(bridge)
  OBVIOUS
<1>2. Good(g, strayed)
  BY <1>1, SyncUiModeKeeps, Zenon DEF RoutingInv
<1>3. PICK c : c = ComboExit(g, pad.buttons)
  OBVIOUS
<1>4. Good(c, strayed)
  <2>1. PICK z : z = [g EXCEPT !.quit = TRUE]
    OBVIOUS
  <2>2. Shape(g)
    BY <1>2, Zenon DEF Good, Core
  <2>3. Alike(g, z)
    BY <2>1, <2>2 DEF Alike, Shape
  <2>4. Good(z, strayed)
    BY <1>2, <2>3, AlikeGood, Zenon
  <2> QED BY <1>2, <1>3, <2>1, <2>4, Zenon DEF ComboExit
<1>5. PICK h : h = MenuFlush(SaveFlush(c))
  OBVIOUS
<1>6. Good(h, strayed)
  BY <1>4, <1>5, SaveFlushed, MenuFlushed, Zenon DEF Took
<1>7. PICK f : f = FightFlush(h)
  OBVIOUS
<1>8. Good(f, strayed) /\ Good(CaptionClear(f), strayed)
  BY <1>6, <1>7, FightFlushed, CaptionCleared, Zenon DEF Took
<1>9. bridge' = f \/ bridge' = CaptionClear(f)
  BY <1>1, <1>3, <1>5, <1>7, Zenon DEF Present
<1>10. strayed' = strayed \cap bridge'.keys
  BY Zenon DEF Present, NoteKeys
<1>11. Good(bridge', strayed)
  BY <1>8, <1>9, Zenon
<1> QED BY <1>10, <1>11, Noted, Zenon

LEMMA ListUpdateKeeps == ASSUME RoutingInv, ListUpdate PROVE RoutingInv'
<1>1. bridge' = SaveFlush(bridge) /\ strayed' = strayed \cap bridge'.keys
  BY Zenon DEF ListUpdate, NoteKeys
<1>2. Good(bridge', strayed)
  BY <1>1, SaveFlushed, Zenon DEF Took, RoutingInv
<1> QED BY <1>1, <1>2, Noted, Zenon

\* A page that comes up under a held key keeps it, or counts it as strayed.
LEMMA PageGood ==
    ASSUME NEW h, NEW s, NEW z, NEW w, Good(h, s), Shape(z), z.keys = h.keys, z.dirs = h.dirs,
           z.mode = h.mode, z.over = h.over, z.focus = h.focus,
           \/ z.page = "keys" /\ s \subseteq w
           \/ z.page = h.page /\ s \subseteq w
           \/ s \cup (h.keys \cap h.dirs["menu"].down) \subseteq w
    PROVE  Good(z, w)
<1>1. Core(z) /\ Clear(z)
  BY Zenon DEF Good, Core, Clear
<1>2. Owned(z, w)
  <2> SUFFICES ASSUME NEW d \in (z.keys \cap Directions) \ w
               PROVE  d \in z.dirs["save"].release \/ (d \in z.dirs["menu"].down /\ ~MenuByHand(z))
    BY Zenon DEF Owned
  <2>1. d \in h.keys /\ (d \in h.dirs["save"].release \/ (d \in h.dirs["menu"].down /\ ~MenuByHand(h)))
    BY Zenon DEF Good, Owned
  <2> QED BY <2>1, Zenon DEF MenuByHand
<1> QED BY <1>1, <1>2, Zenon DEF Good

LEMMA GuestSceneKeeps == ASSUME RoutingInv, NEW to, GuestScene(to) PROVE RoutingInv'
<1>1. PICK h : h = bridge
  OBVIOUS
<1>2. PICK z : z = bridge'
  OBVIOUS
<1>3. z = [h EXCEPT !.scene = to, !.turn = FALSE, !.caption = FALSE, !.page = "keys", !.opening = FALSE]
  BY <1>1, <1>2, Zenon DEF GuestScene
<1>4. Good(h, strayed) /\ Shape(h)
  BY <1>1, Zenon DEF RoutingInv, Good, Core
<1>5. /\ Shape(z) /\ z.keys = h.keys /\ z.dirs = h.dirs /\ z.mode = h.mode /\ z.over = h.over
      /\ z.focus = h.focus /\ z.page = "keys"
  BY <1>3, <1>4 DEF Shape
<1>6. Good(z, strayed)
  BY <1>4, <1>5, PageGood, Zenon
<1>7. strayed' = strayed
  BY Zenon DEF GuestScene
<1> QED BY <1>2, <1>6, <1>7, Zenon DEF RoutingInv

LEMMA GuestPageKeeps == ASSUME RoutingInv, GuestPage PROVE RoutingInv'
<1>1. PICK h : h = bridge
  OBVIOUS
<1>2. PICK z : z = bridge'
  OBVIOUS
<1>3. PICK w : w = strayed'
  OBVIOUS
<1>4. w = strayed \cup (IF z.page = h.page THEN {} ELSE h.keys \cap h.dirs["menu"].down)
  BY <1>1, <1>2, <1>3, Zenon DEF GuestPage
<1>5. Good(h, strayed) /\ Shape(h)
  BY <1>1, Zenon DEF RoutingInv, Good, Core
<1>6. \/ z = [h EXCEPT !.caption = ~h.caption]
      \/ z = [h EXCEPT !.turn = ~h.turn]
      \/ \E p : z = [h EXCEPT !.page = p]
  BY <1>1, <1>2, Zenon DEF GuestPage
<1>7. /\ Shape(z) /\ z.keys = h.keys /\ z.dirs = h.dirs /\ z.mode = h.mode /\ z.over = h.over
      /\ z.focus = h.focus
  BY <1>5, <1>6 DEF Shape
<1>8. \/ z.page = h.page /\ strayed \subseteq w
      \/ strayed \cup (h.keys \cap h.dirs["menu"].down) \subseteq w
  BY <1>4, Zenon
<1>9. Good(z, w)
  BY <1>5, <1>7, <1>8, PageGood, Zenon
<1> QED BY <1>2, <1>3, <1>9, Zenon DEF RoutingInv

LEMMA HostEndsKeeps == ASSUME RoutingInv, HostEnds PROVE RoutingInv'
<1>1. PICK h : h = bridge
  OBVIOUS
<1>2. PICK z : z = bridge'
  OBVIOUS
<1>3. Good(h, strayed) /\ Shape(h) /\ "title" \notin h.over /\ "fight" \notin h.over
  BY <1>1, Zenon DEF RoutingInv, Good, Core
<1>4. \/ z = [h EXCEPT !.over = h.over \ {"hostMenu"}]
      \/ z = [h EXCEPT !.shown = ~h.shown]
      \/ z = [h EXCEPT !.opening = FALSE]
  BY <1>1, <1>2, Zenon DEF HostEnds
<1>5. /\ Shape(z) /\ z.keys = h.keys /\ z.dirs = h.dirs /\ z.mode = h.mode /\ z.over \subseteq h.over
      /\ z.focus = h.focus /\ z.page = h.page
  BY <1>3, <1>4 DEF Shape
<1>6. Near(h, z)
  BY <1>3, <1>5, Zenon DEF Near
<1>7. Good(z, strayed)
  BY <1>3, <1>6, NearGood, Zenon
<1>8. strayed' = strayed
  BY Zenon DEF HostEnds
<1> QED BY <1>2, <1>7, <1>8, Zenon DEF RoutingInv

LEMMA RoutingStep == RoutingInv /\ [RoutingNext]_routingVars => RoutingInv'
<1> SUFFICES ASSUME RoutingInv, [RoutingNext]_routingVars PROVE RoutingInv'
  OBVIOUS
<1>1. CASE UNCHANGED routingVars
  BY <1>1, Zenon DEF routingVars, RoutingInv
<1>2. ASSUME NEW d \in Directions, Dpad(d) PROVE RoutingInv'
  <2>1. \E e, now : Direction(e, now)
    BY <1>2, Zenon DEF Dpad
  <2> QED BY <2>1, DirectionKeeps, Zenon
<1>3. ASSUME NEW axis, NEW to, Stick(axis, to) PROVE RoutingInv'
  <2>1. \E e, now : Direction(e, now)
    BY <1>3, Zenon DEF Stick
  <2> QED BY <2>1, DirectionKeeps, Zenon
<1>4. "A" \in PadButtons /\ "B" \in PadButtons /\ "no" \in {"no", "refused", "done"}
  BY DEF PadButtons
<1>5. CASE ButtonA
  BY <1>4, <1>5, ButtonKeeps, Zenon DEF ButtonA
<1>6. CASE ButtonB
  BY <1>4, <1>6, ButtonKeeps, Zenon DEF ButtonB
<1>7. ASSUME NEW b \in PadButtons, Button(b) PROVE RoutingInv'
  BY <1>4, <1>7, ButtonKeeps, Zenon DEF Button
<1>8. ASSUME NEW to, GuestScene(to) PROVE RoutingInv'
  BY <1>8, GuestSceneKeeps, Zenon
<1>9. CASE RoutingNext
  BY <1>2, <1>3, <1>5, <1>6, <1>7, <1>8, <1>9, PresentKeeps, ListUpdateKeeps, GuestPageKeeps, HostEndsKeeps,
     Zenon DEF RoutingNext
<1> QED BY <1>1, <1>9, Zenon

\* rewrite_event, sync_ui_mode, fight_poll_ui, SDL_RenderPresent: whatever
\* controls the player has and whatever screens the guest goes through, a
\* direction key the guest sees held is the list's or the native menu's to let
\* go, and the machine of a screen that comes up is clear.  The lists let go
\* within a frame what they hold, the menu knows what it holds wherever the
\* guest's keys move it, and the machines of the title and of battles, which
\* nobody clears on the way in, are clear whenever their screen is not up.
THEOREM DirectionsHaveOwners == RoutingSpec => []DirectionsAreOwned
<1>1. RoutingInv => DirectionsAreOwned
  <2> SUFFICES ASSUME RoutingInv PROVE DirectionsAreOwned
    OBVIOUS
  <2>1. EntersClean
    BY ReadyIsGood, Zenon DEF RoutingInv
  <2>2. HeldKeyHasOwner
    BY Zenon DEF RoutingInv, Good, Owned, HeldKeyHasOwner
  <2> QED BY <2>1, <2>2, Zenon DEF DirectionsAreOwned
<1> QED BY <1>1, RoutingInitial, RoutingStep, PTL DEF RoutingSpec

-----------------------------------------------------------------------------
(* The composition: a step of Bridge is a step of one part and leaves the  *)
(* variables of the others alone.                                          *)

LEMMA ComposedOfParts ==
    Spec => /\ HooksSpec /\ CheatSpec /\ RingSpec /\ RoutingSpec
            /\ ContextInit /\ [][ContextNext]_contextVars
            /\ ChoicesInit /\ [][ChoicesNext]_choiceVars
            /\ OwnersInit /\ [][OwnersNext]_ownerVars
<1>1. Init => HooksInit /\ CheatInit /\ RingInit /\ ContextInit /\ ChoicesInit /\ OwnersInit /\ RoutingInit
  BY DEF Init
<1>2. [Next]_vars => /\ [HooksNext]_hookVars /\ [CheatNext]_cheatVars /\ [RingNext]_ring
                     /\ [ContextNext]_contextVars /\ [ChoicesNext]_choiceVars /\ [OwnersNext]_ownerVars
                     /\ [RoutingNext]_routingVars
  BY Zenon DEF Next, vars
<1> QED BY <1>1, <1>2, PTL DEF Spec, HooksSpec, CheatSpec, RingSpec, RoutingSpec

\* sdl_bridge.c as a whole, but for its movies and menus: the guest's functions
\* stay callable, a fight gives one level, a stale context shows, the guest's
\* lists act on what they show, the register says what lives, a held direction
\* has an owner, and the queue of merged events is a queue.
THEOREM BridgeSafe ==
    Spec => /\ [](TrampolineIsOriginal /\ LevelOncePerFight /\ GenerationDetectsChange
                     /\ ChoicesAreShown /\ OwnersAccounted /\ DirectionsAreOwned)
            /\ ImplementsFifo
BY ComposedOfParts, HooksReachTheGuest, OneLevelPerFight, StaleGenerationsShow,
   ListsActOnWhatTheyShow, OwnersNeverForeign, DirectionsHaveOwners, RingImplementsFifo, PTL
=============================================================================
