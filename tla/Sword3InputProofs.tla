------------------------- MODULE Sword3InputProofs -------------------------
(***************************************************************************)
(* The event stream of input.c tells the truth about the keys, for any     *)
(* number of scancodes, controllers, buttons and axes, any width of the    *)
(* counters and any bound of the queue.                                    *)
(***************************************************************************)
EXTENDS Sword3Input, SequenceTheorems, FiniteSetTheorems, TLAPS

\* No scancode occurs twice in a run of events.
Distinct(r) == \A i, j \in DOMAIN r : i # j => r[i].scancode # r[j].scancode

-----------------------------------------------------------------------------
(* Facts about event sequences.                                            *)

\* Appending events of other keys does not change the last event of k.
LEMMA LastOfOthers ==
    ASSUME NEW q \in Seq(Events), NEW r \in Seq(Events), NEW v, NEW k, NEW x,
           LastIs(q, v, k, x), \A i \in DOMAIN r : r[i].scancode # k
    PROVE  LastIs(q \o r, v, k, x)
<1> DEFINE t == q \o r
<1>1. /\ Len(q) \in Nat /\ DOMAIN q = 1..Len(q) 
      /\ Len(r) \in Nat /\ DOMAIN r = 1..Len(r)
  BY LenProperties
<1>2. /\ t \in Seq(Events) /\ DOMAIN t = 1..(Len(q) + Len(r))
      /\ \A i \in 1..Len(q) : t[i] = q[i]
      /\ \A i \in (Len(q) + 1)..(Len(q) + Len(r)) : t[i] = r[i - Len(q)]
  BY <1>1, ConcatProperties, LenProperties
<1> HIDE DEF t
<1>3. \A i \in (Len(q) + 1)..(Len(q) + Len(r)) : t[i].scancode # k
  BY <1>1, <1>2
<1>4. CASE \E i \in DOMAIN q : /\ q[i] = Event(k, x)
                               /\ \A j \in DOMAIN q : j > i => q[j].scancode # k
  <2>1. PICK i \in DOMAIN q : /\ q[i] = Event(k, x)
                              /\ \A j \in DOMAIN q : j > i => q[j].scancode # k
    BY <1>4
  <2>2. i \in DOMAIN t /\ t[i] = Event(k, x)
    BY <2>1, <1>1, <1>2
  <2>3. \A j \in DOMAIN t : j > i => t[j].scancode # k
    BY <2>1, <1>1, <1>2, <1>3
  <2> QED BY <2>2, <2>3 DEF LastIs, t
<1>5. CASE (\A i \in DOMAIN q : q[i].scancode # k) /\ v[k] = x
  <2>1. \A i \in DOMAIN t : t[i].scancode # k
    BY <1>5, <1>1, <1>2, <1>3
  <2> QED BY <2>1, <1>5 DEF LastIs, t
<1> QED BY <1>4, <1>5 DEF LastIs

\* The events of a run without repetitions are the last of their keys.
LEMMA LastOfRun ==
    ASSUME NEW q \in Seq(Events), NEW r \in Seq(Events), NEW v, Distinct(r),
           NEW n \in DOMAIN r
    PROVE  LastIs(q \o r, v, r[n].scancode, r[n].change)
<1> DEFINE t == q \o r
<1>1. /\ Len(q) \in Nat /\ DOMAIN q = 1..Len(q) 
      /\ Len(r) \in Nat /\ DOMAIN r = 1..Len(r)
  BY LenProperties
<1>2. /\ t \in Seq(Events) /\ DOMAIN t = 1..(Len(q) + Len(r))
      /\ \A i \in 1..Len(q) : t[i] = q[i]
      /\ \A i \in (Len(q) + 1)..(Len(q) + Len(r)) : t[i] = r[i - Len(q)]
  BY <1>1, ConcatProperties, LenProperties
<1>3. r[n] \in Events
  BY <1>1, ElementOfSeq
<1>4. r[n] = Event(r[n].scancode, r[n].change)
  BY <1>3 DEF Events, Event
<1> HIDE DEF t
<1>5. Len(q) + n \in DOMAIN t /\ t[Len(q) + n] = Event(r[n].scancode, r[n].change)
  <2>1. /\ Len(q) + n \in (Len(q) + 1)..(Len(q) + Len(r))
        /\ Len(q) + n \in 1..(Len(q) + Len(r))
        /\ (Len(q) + n) - Len(q) = n
    BY <1>1
  <2> QED BY <1>2, <1>4, <2>1
<1>6. \A j \in DOMAIN t : j > Len(q) + n => t[j].scancode # r[n].scancode
  <2> SUFFICES ASSUME NEW j \in DOMAIN t, j > Len(q) + n
               PROVE  t[j].scancode # r[n].scancode
    OBVIOUS
  <2>1. /\ j \in (Len(q) + 1)..(Len(q) + Len(r)) /\ j - Len(q) \in DOMAIN r
        /\ j - Len(q) # n /\ t[j] = r[j - Len(q)]
    BY <1>1, <1>2
  <2> QED BY <2>1 DEF Distinct
<1> QED BY <1>5, <1>6 DEF LastIs, t

\* Appending a run that says the opposite of the last event of each of its
\* keys keeps the stream alternating.
LEMMA RunAlternates ==
    ASSUME NEW q \in Seq(Events), NEW r \in Seq(Events), NEW v, Distinct(r),
           Alternating(q, v),
           \A n \in DOMAIN r : \E x : x # r[n].change /\ LastIs(q, v, r[n].scancode, x)
    PROVE  Alternating(q \o r, v)
<1> DEFINE t == q \o r
<1>1. /\ Len(q) \in Nat /\ DOMAIN q = 1..Len(q) 
      /\ Len(r) \in Nat /\ DOMAIN r = 1..Len(r)
  BY LenProperties
<1>2. /\ t \in Seq(Events) /\ DOMAIN t = 1..(Len(q) + Len(r))
      /\ \A i \in 1..Len(q) : t[i] = q[i]
      /\ \A i \in (Len(q) + 1)..(Len(q) + Len(r)) : t[i] = r[i - Len(q)]
  BY <1>1, ConcatProperties, LenProperties
<1> HIDE DEF t
<1> SUFFICES ASSUME NEW i \in DOMAIN t
    PROVE  /\ (\A j \in 1..(i-1) : t[j].scancode # t[i].scancode)
                  => v[t[i].scancode] # t[i].change
           /\ \A j \in 1..(i-1) :
                  /\ t[j].scancode = t[i].scancode
                  /\ \A m \in (j+1)..(i-1) : t[m].scancode # t[i].scancode
                  => t[j].change # t[i].change
  BY DEF Alternating, t
<1>3. CASE i \in 1..Len(q)
  <2>1. \A j \in 1..i : t[j] = q[j]
    BY <1>1, <1>2, <1>3
  <2>2. i \in DOMAIN q /\ \A j \in 1..(i - 1) : j \in 1..i
                       /\ \A m \in (j+1)..(i-1) : m \in 1..i
    BY <1>1, <1>3
  <2>3. /\ (\A j \in 1..(i-1) : q[j].scancode # q[i].scancode)
              => v[q[i].scancode] # q[i].change
        /\ \A j \in 1..(i-1) :
              /\ q[j].scancode = q[i].scancode
              /\ \A m \in (j+1)..(i-1) : q[m].scancode # q[i].scancode
              => q[j].change # q[i].change
    BY <2>2 DEF Alternating
  <2>4. i \in 1..i
    BY <1>1, <1>3
  <2>5. \A j \in 1..(i - 1) : t[j] = q[j]
    BY <2>1, <2>2
  <2>6. \A j \in 1..(i - 1) : \A m \in (j+1)..(i-1) : t[m] = q[m]
    BY <2>1, <2>2
  <2> QED BY <2>1, <2>3, <2>4, <2>5, <2>6, SMTT(30)
<1>4. CASE i \in (Len(q) + 1)..(Len(q) + Len(r))
  <2>1. PICK n \in DOMAIN r : n = i - Len(q) /\ t[i] = r[n]
    BY <1>1, <1>2, <1>4
  <2>2. \A j \in (Len(q) + 1)..(i - 1) : t[j].scancode # t[i].scancode
    <3> SUFFICES ASSUME NEW j \in (Len(q) + 1)..(i - 1)
                 PROVE  t[j].scancode # t[i].scancode
      OBVIOUS
    <3>1. j - Len(q) \in DOMAIN r /\ j - Len(q) # n /\ t[j] = r[j - Len(q)]
      BY <2>1, <1>1, <1>2, <1>4
    <3> QED BY <3>1, <2>1 DEF Distinct
  <2>8. /\ i \in Nat /\ i > Len(q)
        /\ \A j \in 1..(i-1) : \/ j \in 1..Len(q) /\ j \in DOMAIN q /\ t[j] = q[j]
                              \/ j \in (Len(q) + 1)..(i - 1)
    BY <1>1, <1>2, <1>4
  <2>3. PICK x : x # t[i].change /\ LastIs(q, v, t[i].scancode, x)
    BY <2>1
  <2>4. CASE \E l \in DOMAIN q : /\ q[l] = Event(t[i].scancode, x)
                                 /\ \A j \in DOMAIN q : j > l => q[j].scancode # t[i].scancode
    <3>1. PICK l \in DOMAIN q : /\ q[l] = Event(t[i].scancode, x)
                                /\ \A j \in DOMAIN q : j > l => q[j].scancode # t[i].scancode
      BY <2>4
    <3>2. l \in 1..(i-1) /\ t[l].scancode = t[i].scancode /\ t[l].change = x
      BY <3>1, <1>1, <1>2, <1>4 DEF Event
    <3>3. \A m \in (l+1)..(i-1) : t[m].scancode # t[i].scancode
      <4> SUFFICES ASSUME NEW m \in (l+1)..(i-1) PROVE t[m].scancode # t[i].scancode
        OBVIOUS
      <4>1. m \in 1..(i-1) /\ m > l
        BY <3>2, <2>8
      <4> QED BY <4>1, <3>1, <2>2, <2>8
    <3>4. ASSUME NEW j \in 1..(i-1), t[j].scancode = t[i].scancode,
                 \A m \in (j+1)..(i-1) : t[m].scancode # t[i].scancode
          PROVE  j = l
      BY <3>2, <3>3, <3>4, <1>1, <1>4
    <3> QED BY <3>2, <3>4, <2>3
  <2>5. CASE (\A l \in DOMAIN q : q[l].scancode # t[i].scancode) /\ v[t[i].scancode] = x
    <3>1. \A j \in 1..(i-1) : t[j].scancode # t[i].scancode
      BY <2>5, <2>2, <2>8
    <3> QED BY <3>1, <2>3, <2>5
  <2> QED BY <2>3, <2>4, <2>5 DEF LastIs
<1> QED BY <1>1, <1>2, <1>3, <1>4

\* Polling the oldest event moves it from the queue into what is known.
LEMMA PollStream ==
    ASSUME NEW q \in Seq(Events), q # <<>>, NEW v \in [Keys -> Changes],
           NEW w, w = [v EXCEPT ![Head(q).scancode] = Head(q).change]
    PROVE  /\ \A k \in Keys, x \in Changes :
                 LastIs(q, v, k, x) => LastIs(Tail(q), w, k, x)
           /\ Alternating(q, v) => Alternating(Tail(q), w)
<1> DEFINE t == Tail(q)
<1>1. /\ Len(q) \in Nat \ {0} /\ DOMAIN q = 1..Len(q) /\ 1 \in DOMAIN q
      /\ q[1] = Head(q)
  BY LenProperties, EmptySeq
<1>2. /\ t \in Seq(Events) /\ DOMAIN t = 1..(Len(q) - 1)
      /\ \A i \in 1..(Len(q) - 1) : t[i] = q[i + 1]
  BY <1>1, HeadTailProperties, LenProperties
<1>3. PICK k0 \in Keys, x0 \in Changes : q[1] = Event(k0, x0)
  <2>1. q[1] \in Events
    BY <1>1, ElementOfSeq
  <2> QED BY <2>1 DEF Events, Event
<1>5. q[1].scancode = k0 /\ q[1].change = x0
  BY <1>3 DEF Event
<1>4. w[k0] = x0 /\ \A k \in Keys : k # k0 => w[k] = v[k]
  BY <1>1, <1>5
<1>6. \A i \in 1..Len(q) : q[i].scancode \in Keys
  <2>1. \A i \in 1..Len(q) : q[i] \in Events
    BY ElementOfSeq
  <2> QED BY <2>1 DEF Events
<1> HIDE DEF t
<1>7. ASSUME NEW k \in Keys, NEW x \in Changes, LastIs(q, v, k, x)
      PROVE  LastIs(t, w, k, x)
  <2>1. CASE \E i \in DOMAIN q : /\ q[i] = Event(k, x)
                                 /\ \A j \in DOMAIN q : j > i => q[j].scancode # k
    <3>1. PICK i \in DOMAIN q : /\ q[i] = Event(k, x)
                               /\ \A j \in DOMAIN q : j > i => q[j].scancode # k
      BY <2>1
    <3>2. \A j \in DOMAIN t : j + 1 \in DOMAIN q /\ t[j] = q[j + 1]
      BY <1>1, <1>2
    <3>3. CASE i = 1
      <4>1. k = k0 /\ x = x0
        BY <3>1, <3>3, <1>5 DEF Event
      <4>2. \A j \in DOMAIN t : t[j].scancode # k
        BY <3>1, <3>2, <3>3, <1>1, <1>2
      <4> QED BY <4>1, <4>2, <1>4 DEF LastIs
    <3>4. CASE i # 1
      <4>1. i - 1 \in DOMAIN t /\ (i - 1) + 1 = i
        BY <3>4, <1>1, <1>2
      <4>2. t[i - 1] = Event(k, x)
        BY <4>1, <3>1, <3>2
      <4>3. \A j \in DOMAIN t : j > i - 1 => t[j].scancode # k
        BY <3>1, <3>2, <1>1, <1>2
      <4> QED BY <4>1, <4>2, <4>3 DEF LastIs
    <3> QED BY <3>3, <3>4
  <2>2. CASE (\A i \in DOMAIN q : q[i].scancode # k) /\ v[k] = x
    <3>1. k # k0
      BY <2>2, <1>1, <1>5
    <3>2. \A i \in DOMAIN t : t[i].scancode # k
      BY <2>2, <1>1, <1>2, SMTT(30)
    <3> QED BY <3>1, <3>2, <2>2, <1>4 DEF LastIs
  <2> QED BY <1>7, <2>1, <2>2 DEF LastIs
<1>8. ASSUME Alternating(q, v) PROVE Alternating(t, w)
  <2> SUFFICES ASSUME NEW i \in DOMAIN t
      PROVE  /\ (\A j \in 1..(i-1) : t[j].scancode # t[i].scancode)
                    => w[t[i].scancode] # t[i].change
             /\ \A j \in 1..(i-1) :
                    /\ t[j].scancode = t[i].scancode
                    /\ \A m \in (j+1)..(i-1) : t[m].scancode # t[i].scancode
                    => t[j].change # t[i].change
    BY DEF Alternating
  <2>1. i \in Nat /\ i >= 1 /\ i + 1 \in DOMAIN q /\ t[i] = q[i + 1]
    BY <1>1, <1>2
  <2>2. \A j \in 1..(i-1) : t[j] = q[j + 1]
    BY <1>1, <1>2, <2>1
  <2>3. /\ (\A j \in 1..((i+1)-1) : q[j].scancode # q[i+1].scancode)
                => v[q[i+1].scancode] # q[i+1].change
        /\ \A j \in 1..((i+1)-1) :
                /\ q[j].scancode = q[i+1].scancode
                /\ \A m \in (j+1)..((i+1)-1) : q[m].scancode # q[i+1].scancode
                => q[j].change # q[i+1].change
    BY <1>8, <2>1 DEF Alternating
  <2>4. (i + 1) - 1 = i
    BY <2>1
  <2>5. ASSUME \A j \in 1..(i-1) : t[j].scancode # t[i].scancode
        PROVE  w[t[i].scancode] # t[i].change
    <3>1. \A m \in 2..i : q[m].scancode # q[i+1].scancode
      <4> SUFFICES ASSUME NEW m \in 2..i PROVE q[m].scancode # q[i+1].scancode
        OBVIOUS
      <4>1. m - 1 \in 1..(i-1) /\ (m - 1) + 1 = m
        BY <2>1
      <4> QED BY <4>1, <2>1, <2>2, <2>5
    <3>2. CASE q[i+1].scancode = k0
      <4>1. 1 \in 1..((i+1)-1) /\ (1+1)..((i+1)-1) = 2..i
        BY <2>1
      <4>2. q[1].change # q[i+1].change
        BY <4>1, <3>1, <3>2, <2>3, <1>5
      <4> QED BY <4>2, <3>2, <1>4, <1>5, <2>1
    <3>3. CASE q[i+1].scancode # k0
      <4>1. \A j \in 1..i : q[j].scancode # q[i+1].scancode
        BY <3>1, <3>3, <1>5, <2>1
      <4>2. v[q[i+1].scancode] # q[i+1].change
        BY <4>1, <2>3, <2>4
      <4>3. q[i+1].scancode \in Keys
        BY <1>6, <1>1, <2>1
      <4> QED BY <4>2, <4>3, <3>3, <1>4, <2>1
    <3> QED BY <3>2, <3>3
  <2>6. ASSUME NEW j \in 1..(i-1), t[j].scancode = t[i].scancode,
               \A m \in (j+1)..(i-1) : t[m].scancode # t[i].scancode
        PROVE  t[j].change # t[i].change
    <3>1. j + 1 \in 1..i /\ j \in Nat
      BY <2>1
    <3>2. \A m \in ((j+1)+1)..i : q[m].scancode # q[i+1].scancode
      <4> SUFFICES ASSUME NEW m \in ((j+1)+1)..i PROVE q[m].scancode # q[i+1].scancode
        OBVIOUS
      <4>1. m - 1 \in (j+1)..(i-1) /\ m - 1 \in 1..(i-1) /\ (m - 1) + 1 = m
        BY <2>1, <3>1
      <4> QED BY <4>1, <2>1, <2>2, <2>6
    <3> QED BY <3>1, <3>2, <2>1, <2>2, <2>3, <2>4, <2>6
  <2> QED BY <2>5, <2>6
<1> QED BY <1>7, <1>8 DEF t

-----------------------------------------------------------------------------
(* Steps of the counters and the queue.                                    *)

StreamInv == StreamMatchesKeys /\ StreamAlternates

\* The part of the type invariant that the counters and the queue share.
CoreOK ==
    /\ key_refs \in [Keys -> 0..MaxRefs]
    /\ queue \in Seq(Events)
    /\ capacity \in Nat /\ Len(queue) <= capacity

\* The step queues one event for every key that changes its status, and the
\* event says which.
KeysStep ==
    \E r \in Seq(Events) :
        /\ Distinct(r)
        /\ queue' = queue \o r
        /\ \A n \in DOMAIN r : /\ r[n].change = Status(r[n].scancode)'
                               /\ r[n].change # Status(r[n].scancode)
        /\ \A k \in Keys : (\A n \in DOMAIN r : r[n].scancode # k)
                             => Status(k)' = Status(k)

\* Such a step keeps the stream truthful and alternating.
LEMMA KeysStepKeepsStream ==
    ASSUME TypeOK, StreamInv, alive, KeysStep, polled' = polled
    PROVE  StreamInv'
<1>0. queue \in Seq(Events)
  BY DEF TypeOK
<1>1. PICK r \in Seq(Events) :
        /\ Distinct(r)
        /\ queue' = queue \o r
        /\ \A n \in DOMAIN r : /\ r[n].change = Status(r[n].scancode)'
                               /\ r[n].change # Status(r[n].scancode)
        /\ \A k \in Keys : (\A n \in DOMAIN r : r[n].scancode # k)
                             => Status(k)' = Status(k)
  BY DEF KeysStep
<1>2. \A n \in DOMAIN r : r[n].scancode \in Keys
  <2>1. \A n \in DOMAIN r : r[n] \in Events
    BY ElementOfSeq, LenProperties
  <2> QED BY <2>1 DEF Events
<1>3. \A k \in Keys : LastIs(queue, polled, k, Status(k))
  BY DEF StreamInv, StreamMatchesKeys
<1>4. \A k \in Keys : LastIs(queue \o r, polled, k, Status(k)')
  <2> SUFFICES ASSUME NEW k \in Keys PROVE LastIs(queue \o r, polled, k, Status(k)')
    OBVIOUS
  <2>1. CASE \A n \in DOMAIN r : r[n].scancode # k
    BY <2>1, <1>0, <1>1, <1>3, LastOfOthers
  <2>2. CASE \E n \in DOMAIN r : r[n].scancode = k
    <3>1. PICK n \in DOMAIN r : r[n].scancode = k
      BY <2>2
    <3>2. LastIs(queue \o r, polled, r[n].scancode, r[n].change)
      BY <1>0, <1>1, LastOfRun
    <3>3. r[n].change = Status(k)'
      BY <3>1, <1>1
    <3> QED BY <3>1, <3>2, <3>3
  <2> QED BY <2>1, <2>2
<1>5. Alternating(queue \o r, polled)
  <2>1. Alternating(queue, polled)
    BY DEF StreamInv, StreamAlternates
  <2>2. \A n \in DOMAIN r : \E x : x # r[n].change /\ LastIs(queue, polled, r[n].scancode, x)
    BY <1>1, <1>2, <1>3
  <2> QED BY <2>1, <2>2, <1>0, <1>1, RunAlternates
<1> QED BY <1>1, <1>4, <1>5 DEF StreamInv, StreamMatchesKeys, StreamAlternates

\* A step that leaves queue and counters alone is one.
LEMMA QuietStep ==
    ASSUME CoreOK, UNCHANGED <<key_refs, queue, capacity>>
    PROVE  KeysStep /\ CoreOK'
<1>1. <<>> \in Seq(Events) /\ queue \o <<>> = queue /\ DOMAIN <<>> = {}
  BY EmptySeq, ConcatEmptySeq DEF CoreOK
<1>2. \A k \in Keys : Status(k)' = Status(k)
  BY DEF Status
<1>3. Distinct(<<>>)
  BY <1>1 DEF Distinct
<1>4. KeysStep
  BY <1>1, <1>2, <1>3 DEF KeysStep
<1>5. CoreOK'
  BY DEF CoreOK
<1> QED BY <1>4, <1>5

\* A successful reservation makes room.
LEMMA ReserveMakesRoom ==
    ASSUME CoreOK, NEW n \in Nat, Reserve(n)
    PROVE  capacity' \in Nat /\ Len(queue) + n <= capacity'
<1>1. Len(queue) \in Nat /\ Len(queue) + n \in Nat
  BY LenProperties DEF CoreOK
<1>2. \A c \in GrownTo(Len(queue) + n) : c \in Nat /\ Len(queue) + n <= c
  BY <1>1, BoundsAssumption DEF CoreOK, GrownTo
<1> QED BY <1>1, <1>2 DEF Reserve, CoreOK

\* The event of one key.
LEMMA OneEventStep ==
    ASSUME CoreOK, NEW k \in Keys, NEW x \in Changes, Reserve(1),
           queue' = Append(queue, Event(k, x)),
           key_refs' \in [Keys -> 0..MaxRefs],
           Status(k)' = x, Status(k) # x,
           \A j \in Keys : j # k => key_refs'[j] = key_refs[j]
    PROVE  KeysStep /\ CoreOK'
<1> DEFINE e == Event(k, x)
           r == <<e>>
<1>1. e \in Events /\ e.scancode = k /\ e.change = x
  BY DEF Events, Event
<1> HIDE DEF e
<1>2. r \in Seq(Events) /\ DOMAIN r = {1} /\ r[1] = e
  BY <1>1
<1>3. /\ queue \in Seq(Events) /\ queue' = queue \o r
      /\ queue' \in Seq(Events) /\ Len(queue') = Len(queue) + 1
  <2>1. queue \in Seq(Events) /\ queue' = Append(queue, e)
    BY DEF CoreOK, e
  <2>2. Append(queue, e) = queue \o <<e>>
    BY <1>1, <2>1, AppendIsConcat
  <2> QED BY <1>1, <2>1, <2>2, AppendProperties
<1>4. Distinct(r)
  BY <1>2 DEF Distinct
<1>5. \A j \in Keys : j # k => Status(j)' = Status(j)
  BY DEF Status
<1> HIDE DEF r
<1>6. \A n \in DOMAIN r : /\ r[n].change = Status(r[n].scancode)'
                          /\ r[n].change # Status(r[n].scancode)
  BY <1>1, <1>2
<1>7. \A j \in Keys : (\A n \in DOMAIN r : r[n].scancode # j) => Status(j)' = Status(j)
  BY <1>1, <1>2, <1>5
<1>8. KeysStep
  BY <1>2, <1>3, <1>4, <1>6, <1>7 DEF KeysStep
<1>9. CoreOK'
  BY <1>3, ReserveMakesRoom DEF CoreOK
<1> QED BY <1>8, <1>9

\* The two halves of change_global_key.
LEMMA RaiseKeyStep ==
    ASSUME CoreOK, NEW k \in Keys, RaiseKey(k)
    PROVE  KeysStep /\ CoreOK'
<1>1. /\ key_refs[k] \in 0..MaxRefs /\ key_refs[k] < MaxRefs /\ MaxRefs \in Nat
      /\ key_refs' = [key_refs EXCEPT ![k] = key_refs[k] + 1]
  BY BoundsAssumption DEF CoreOK, RaiseKey
<1>2. /\ key_refs' \in [Keys -> 0..MaxRefs] /\ key_refs'[k] = key_refs[k] + 1
      /\ \A j \in Keys : j # k => key_refs'[j] = key_refs[j]
  BY <1>1 DEF CoreOK
<1>3. CASE key_refs[k] = 0
  <2>1. Reserve(1) /\ queue' = Append(queue, Event(k, "press"))
    BY <1>3 DEF RaiseKey
  <2>2. Status(k)' = "press" /\ Status(k) # "press"
    BY <1>2, <1>3 DEF Status
  <2> QED BY <1>2, <2>1, <2>2, OneEventStep DEF Changes
<1>4. CASE key_refs[k] # 0
  <2>1. UNCHANGED <<queue, capacity>>
    BY <1>4 DEF RaiseKey
  <2>2. \A j \in Keys : Status(j)' = Status(j)
    BY <1>1, <1>2, <1>4 DEF Status
  <2>3. /\ <<>> \in Seq(Events) /\ queue' = queue \o <<>> /\ DOMAIN <<>> = {}
        /\ Distinct(<<>>)
    BY <2>1, EmptySeq, ConcatEmptySeq DEF CoreOK, Distinct
  <2>4. KeysStep
    BY <2>2, <2>3 DEF KeysStep
  <2> QED BY <1>2, <2>1, <2>4 DEF CoreOK
<1> QED BY <1>3, <1>4

\* The release: the last holder of a key goes, or one of several.
LEMMA LowerKeyStep ==
    ASSUME CoreOK, NEW k \in Keys, LowerKey(k)
    PROVE  KeysStep /\ CoreOK'
<1>1. /\ key_refs[k] \in 0..MaxRefs /\ key_refs[k] > 0 /\ MaxRefs \in Nat
      /\ key_refs' = [key_refs EXCEPT ![k] = key_refs[k] - 1]
  BY BoundsAssumption DEF CoreOK, LowerKey
<1>2. /\ key_refs' \in [Keys -> 0..MaxRefs] /\ key_refs'[k] = key_refs[k] - 1
      /\ \A j \in Keys : j # k => key_refs'[j] = key_refs[j]
  BY <1>1 DEF CoreOK
<1>3. CASE key_refs[k] = 1
  <2>1. Reserve(1) /\ queue' = Append(queue, Event(k, "release"))
    BY <1>3 DEF LowerKey
  <2>2. Status(k)' = "release" /\ Status(k) # "release"
    BY <1>2, <1>3 DEF Status
  <2> QED BY <1>2, <2>1, <2>2, OneEventStep DEF Changes
<1>4. CASE key_refs[k] # 1
  <2>1. UNCHANGED <<queue, capacity>>
    BY <1>4 DEF LowerKey
  <2>2. \A j \in Keys : Status(j)' = Status(j)
    BY <1>1, <1>2, <1>4 DEF Status
  <2>3. /\ <<>> \in Seq(Events) /\ queue' = queue \o <<>> /\ DOMAIN <<>> = {}
        /\ Distinct(<<>>)
    BY <2>1, EmptySeq, ConcatEmptySeq DEF CoreOK, Distinct
  <2>4. KeysStep
    BY <2>2, <2>3 DEF KeysStep
  <2> QED BY <1>2, <2>1, <2>4 DEF CoreOK
<1> QED BY <1>3, <1>4

\* The release loops: every key of S goes from held to free, no other key
\* changes its status.
LEMMA QueueReleasesStep ==
    ASSUME CoreOK, NEW S \in SUBSET Keys, QueueReleases(S),
           key_refs' \in [Keys -> 0..MaxRefs],
           \A k \in S : key_refs[k] > 0 /\ key_refs'[k] = 0,
           \A k \in Keys \ S : Status(k)' = Status(k)
    PROVE  KeysStep /\ CoreOK'
<1> DEFINE n == Cardinality(S)
<1>1. n \in Nat
  BY FiniteAssumption, FS_Subset, FS_CardinalityType
<1> HIDE DEF n
<1>2. PICK s \in ScanOrders(S) :
          queue' = queue \o [i \in 1..n |-> Event(s[i], "release")]
  BY DEF QueueReleases, n
<1>3. /\ s \in [1..n -> S]
      /\ \A k \in S : \E i \in 1..n : s[i] = k
      /\ \A i, j \in 1..n : i < j => s[i] < s[j]
  BY DEF ScanOrders, n
<1> DEFINE r == [i \in 1..n |-> Event(s[i], "release")]
<1>4. \A i \in 1..n : /\ r[i] \in Events /\ r[i].scancode = s[i]
                       /\ r[i].change = "release"
  BY <1>3 DEF Event, Events, Changes
<1>5. r \in Seq(Events) /\ DOMAIN r = 1..n /\ Len(r) = n
  <2>1. r \in [1..n -> Events]
    BY <1>4
  <2> QED BY <2>1, <1>1
<1>6. queue' = queue \o r
  BY <1>2
<1> HIDE DEF r
<1>7. Distinct(r)
  <2> SUFFICES ASSUME NEW i \in 1..n, NEW j \in 1..n, i # j
               PROVE  s[i] # s[j]
    BY <1>4, <1>5 DEF Distinct
  <2>1. s[i] \in Nat /\ s[j] \in Nat
    BY <1>3, KeysAssumption
  <2>2. i < j \/ j < i
    BY <1>1
  <2> QED BY <2>1, <2>2, <1>3
<1>8. \A i \in DOMAIN r : /\ r[i].change = Status(r[i].scancode)'
                          /\ r[i].change # Status(r[i].scancode)
  <2> SUFFICES ASSUME NEW i \in 1..n
               PROVE  "release" = Status(s[i])' /\ "release" # Status(s[i])
    BY <1>4, <1>5
  <2>1. s[i] \in S
    BY <1>3
  <2> QED BY <2>1 DEF Status
<1>9. \A k \in Keys : (\A i \in DOMAIN r : r[i].scancode # k) => Status(k)' = Status(k)
  BY <1>3, <1>4, <1>5
<1>10. KeysStep
  BY <1>5, <1>6, <1>7, <1>8, <1>9 DEF KeysStep
<1>11. CoreOK'
  <2>1. capacity' \in Nat /\ Len(queue) + n <= capacity'
    BY <1>1, ReserveMakesRoom DEF QueueReleases, n
  <2>2. queue' \in Seq(Events) /\ Len(queue') = Len(queue) + n
    BY <1>5, <1>6, ConcatProperties DEF CoreOK
  <2> QED BY <2>1, <2>2 DEF CoreOK
<1> QED BY <1>10, <1>11

-----------------------------------------------------------------------------
(* The helpers of the handlers.                                            *)

CtrlRefsType == [Controllers -> [Keys -> 0..MaxRefs]]

\* The part of the types that the steps on keys rest on.
LEMMA TypeHasCore == TypeOK => CoreOK
BY DEF TypeOK, CoreOK

\* change_controller_key keeps the stream, and the controller's counters their types.
LEMMA ChangeControllerKeyStep ==
    ASSUME TypeOK, NEW c \in Controllers, NEW k \in Scancodes, NEW pressed \in BOOLEAN,
           ChangeControllerKey(c, k, pressed)
    PROVE  KeysStep /\ CoreOK' /\ ctrl_refs' \in CtrlRefsType
<1>0. CoreOK /\ ctrl_refs \in CtrlRefsType /\ MaxRefs \in Nat
  BY TypeHasCore, BoundsAssumption DEF TypeOK, CtrlRefsType
<1>1. CASE UNCHANGED <<key_refs, ctrl_refs, queue, capacity>>
  BY <1>0, <1>1, QuietStep
<1>2. CASE /\ k \in Keys
           /\ ctrl_refs[c][k] < MaxRefs
           /\ RaiseKey(k)
           /\ ctrl_refs' = [ctrl_refs EXCEPT ![c][k] = @ + 1]
  <2>1. KeysStep /\ CoreOK'
    BY <1>0, <1>2, RaiseKeyStep
  <2>2. ctrl_refs' \in CtrlRefsType
    BY <1>0, <1>2 DEF CtrlRefsType
  <2> QED BY <2>1, <2>2
<1>3. CASE /\ k \in Keys
           /\ ctrl_refs[c][k] > 0
           /\ LowerKey(k)
           /\ ctrl_refs' = [ctrl_refs EXCEPT ![c][k] = @ - 1]
  <2>1. KeysStep /\ CoreOK'
    BY <1>0, <1>3, LowerKeyStep
  <2>2. ctrl_refs' \in CtrlRefsType
    BY <1>0, <1>3 DEF CtrlRefsType
  <2> QED BY <2>1, <2>2
<1> QED BY <1>1, <1>2, <1>3 DEF ChangeControllerKey

\* What zeroed controller tables are.
LEMMA ZeroTables ==
    /\ NoRefs \in [Keys -> 0..MaxRefs]
    /\ NoButtons \in [Buttons -> BOOLEAN]
    /\ NoDirection \in [Axes -> Directions]
BY BoundsAssumption DEF NoRefs, NoButtons, NoDirection, Directions

\* release_controller keeps the stream.
LEMMA ReleaseControllerStep ==
    ASSUME TypeOK, NEW c \in Controllers, ReleaseController(c)
    PROVE  KeysStep /\ CoreOK'
<1> DEFINE S == {k \in Keys : ctrl_refs[c][k] > 0 /\ ctrl_refs[c][k] = key_refs[k]}
<1>0. CoreOK /\ MaxRefs \in Nat /\ S \in SUBSET Keys
  BY TypeHasCore, BoundsAssumption
<1>1. \A k \in Keys : /\ ctrl_refs[c][k] \in 0..MaxRefs /\ key_refs[k] \in 0..MaxRefs
                       /\ ctrl_refs[c][k] <= key_refs[k]
                       /\ key_refs'[k] = key_refs[k] - ctrl_refs[c][k]
  BY DEF TypeOK, ReleaseController
<1>2. key_refs' \in [Keys -> 0..MaxRefs]
  <2>1. \A k \in Keys : key_refs[k] - ctrl_refs[c][k] \in 0..MaxRefs
    BY <1>0, <1>1
  <2> QED BY <2>1 DEF ReleaseController
<1>3. \A k \in S : key_refs[k] > 0 /\ key_refs'[k] = 0
  BY <1>0, <1>1
<1>4. \A k \in Keys \ S : Status(k)' = Status(k)
  BY <1>0, <1>1 DEF Status
<1>5. QueueReleases(S)
  BY DEF ReleaseController
<1> HIDE DEF S
<1> QED BY <1>0, <1>2, <1>3, <1>4, <1>5, QueueReleasesStep

\* Sums of counters are natural numbers.
LEMMA OwnedIsNat ==
    ASSUME TypeOK, NEW k \in Keys
    PROVE  Owned(k) \in Nat
<1> DEFINE P == controllers \X (1..MaxRefs)
           O == {x \in P : x[2] <= ctrl_refs[x[1]][k]}
<1>1. IsFiniteSet(controllers)
  BY FiniteAssumption, FS_Subset DEF TypeOK
<1>2. IsFiniteSet(1..MaxRefs)
  BY BoundsAssumption, FS_Interval
<1>3. IsFiniteSet(P)
  BY <1>1, <1>2, FS_Product
<1>4. O \subseteq P
  OBVIOUS
<1>5. IsFiniteSet(O)
  BY <1>3, <1>4, FS_Subset
<1> QED BY <1>5, FS_CardinalityType DEF Owned

\* release_controller_inputs keeps the stream.
LEMMA ReleaseControllerInputsStep ==
    ASSUME TypeOK, ReleaseControllerInputs
    PROVE  KeysStep /\ CoreOK'
<1> DEFINE S == {k \in Keys : Owned(k) > 0 /\ Owned(k) = key_refs[k]}
<1>0. CoreOK /\ MaxRefs \in Nat /\ S \in SUBSET Keys
  BY TypeHasCore, BoundsAssumption
<1>1. \A k \in Keys : /\ Owned(k) \in Nat /\ key_refs[k] \in 0..MaxRefs
                       /\ Owned(k) <= key_refs[k]
                       /\ key_refs'[k] = key_refs[k] - Owned(k)
  <2>1. \A k \in Keys : Owned(k) \in Nat
    BY OwnedIsNat
  <2> QED BY <2>1 DEF TypeOK, ReleaseControllerInputs
<1>2. key_refs' \in [Keys -> 0..MaxRefs]
  <2>1. \A k \in Keys : key_refs[k] - Owned(k) \in 0..MaxRefs
    BY <1>0, <1>1
  <2> QED BY <2>1 DEF ReleaseControllerInputs
<1>3. \A k \in S : key_refs[k] > 0 /\ key_refs'[k] = 0
  BY <1>0, <1>1
<1>4. \A k \in Keys \ S : Status(k)' = Status(k)
  BY <1>0, <1>1 DEF Status
<1>5. QueueReleases(S)
  BY DEF ReleaseControllerInputs
<1> HIDE DEF S
<1> QED BY <1>0, <1>2, <1>3, <1>4, <1>5, QueueReleasesStep

-----------------------------------------------------------------------------
(* The inductive invariant and the handlers.                               *)

IInv == TypeOK /\ StreamInv

\* A call that fails or is ignored.
LEMMA UnchangedStep ==
    ASSUME IInv, Unchanged, error' \in Errors
    PROVE  IInv'
<1>1. TypeOK'
  BY DEF IInv, TypeOK, Unchanged, held, mapping
<1>2. StreamInv'
  BY DEF IInv, Unchanged, held, StreamInv, StreamMatchesKeys, StreamAlternates, Status
<1> QED BY <1>1, <1>2 DEF IInv

\* A key of the keyboard goes down or up.
LEMMA KeyboardStep ==
    ASSUME IInv, NEW k \in Keys, NEW pressed \in BOOLEAN, NEW repeat \in BOOLEAN,
           HandleKeyboard(k, pressed, repeat)
    PROVE  IInv'
<1>0. TypeOK /\ StreamInv /\ CoreOK /\ alive
  BY TypeHasCore DEF IInv, HandleKeyboard, Ready
<1>1. CASE error' = "none" /\ Unchanged
  BY <1>1, UnchangedStep DEF Errors
<1>2. CASE (IF pressed THEN RaiseFails(k) ELSE LowerFails(k)) /\ Unchanged
  <2>1. error' \in Errors
    BY <1>2 DEF RaiseFails, LowerFails, Errors
  <2> QED BY <2>1, <1>2, UnchangedStep
<1>3. CASE /\ IF pressed THEN RaiseKey(k)
                        ELSE IF key_refs[k] = 0
                                THEN UNCHANGED <<key_refs, queue, capacity>>
                                ELSE LowerKey(k)
           /\ keyboard_down' = [keyboard_down EXCEPT ![k] = pressed]
           /\ error' = "none"
           /\ UNCHANGED <<alive, controllers, ctrl_refs, button_down,
                          axis_direction, mapping, axis_step, polled>>
  <2>1. KeysStep /\ CoreOK'
    BY <1>0, <1>3, RaiseKeyStep, LowerKeyStep, QuietStep
  <2>2. StreamInv'
    BY <1>0, <1>3, <2>1, KeysStepKeepsStream
  <2>3. TypeOK'
    BY <1>0, <1>3, <2>1 DEF TypeOK, CoreOK, mapping, Errors
  <2> QED BY <2>2, <2>3 DEF IInv
<1> QED BY <1>1, <1>2, <1>3 DEF HandleKeyboard

\* change_controller_key fails with one of the errors of the interface.
LEMMA ControllerErrors ==
    ASSUME NEW c, NEW k, NEW pressed, ChangeControllerKeyFails(c, k, pressed)
    PROVE  error' \in Errors
BY DEF ChangeControllerKeyFails, RaiseFails, LowerFails, Errors

\* A button of a controller goes down or up.
LEMMA ButtonStep ==
    ASSUME IInv, NEW c \in Controllers, NEW b \in Buttons, NEW pressed \in BOOLEAN,
           HandleButton(c, b, pressed)
    PROVE  IInv'
<1>0. TypeOK /\ StreamInv /\ alive /\ button_map[b] \in Scancodes
  BY DEF IInv, HandleButton, Ready, TypeOK
<1>1. CASE error' = "none" /\ Unchanged
  BY <1>1, UnchangedStep DEF Errors
<1>2. CASE ChangeControllerKeyFails(c, button_map[b], pressed) /\ Unchanged
  BY <1>2, ControllerErrors, UnchangedStep
<1>3. CASE /\ ChangeControllerKey(c, button_map[b], pressed)
           /\ button_down' = [button_down EXCEPT ![c][b] = pressed]
           /\ error' = "none"
           /\ UNCHANGED <<alive, keyboard_down, controllers,
                          axis_direction, mapping, axis_step, polled>>
  <2>1. KeysStep /\ CoreOK' /\ ctrl_refs' \in CtrlRefsType
    BY <1>0, <1>3, ChangeControllerKeyStep
  <2>2. StreamInv'
    BY <1>0, <1>3, <2>1, KeysStepKeepsStream
  <2>3. button_down' \in [Controllers -> [Buttons -> BOOLEAN]]
    BY <1>0, <1>3 DEF TypeOK
  <2>4. TypeOK'
    BY <1>0, <1>3, <2>1, <2>3 DEF TypeOK, CoreOK, CtrlRefsType, mapping, Errors
  <2> QED BY <2>2, <2>4 DEF IInv
<1> QED BY <1>1, <1>2, <1>3 DEF HandleButton

\* An axis points to one of its directions.
LEMMA NewDirectionType ==
    ASSUME NEW old \in Directions, NEW zone
    PROVE  NewDirection(old, zone) \in Directions
BY DEF NewDirection, Directions

\* The first half of handle_axis: the old direction is released.
LEMMA AxisStep ==
    ASSUME IInv, NEW c \in Controllers, NEW a \in Axes, NEW zone \in Zones,
           HandleAxis(c, a, zone)
    PROVE  IInv'
<1> DEFINE old == axis_direction[c][a]
           new == NewDirection(old, zone)
<1>0. /\ TypeOK /\ StreamInv /\ CoreOK /\ alive
      /\ old \in Directions /\ new \in Directions
      /\ AxisKey(a, old) \in Scancodes
  BY TypeHasCore, NewDirectionType DEF IInv, HandleAxis, Ready, TypeOK, AxisKey
<1>1. CASE error' = "none" /\ Unchanged
  BY <1>1, UnchangedStep DEF Errors
<1>2. CASE ChangeControllerKeyFails(c, AxisKey(a, old), FALSE) /\ Unchanged
  BY <1>2, ControllerErrors, UnchangedStep
<1>3. CASE /\ IF old = 0
                 THEN UNCHANGED <<key_refs, ctrl_refs, queue, capacity>>
                 ELSE ChangeControllerKey(c, AxisKey(a, old), FALSE)
           /\ axis_direction' = [axis_direction EXCEPT ![c][a] = 0]
           /\ axis_step' = IF new = 0 THEN NoStep
                           ELSE [controller |-> c, axis |-> a, direction |-> new]
           /\ error' = "none"
           /\ UNCHANGED <<alive, keyboard_down, controllers, button_down,
                          mapping, polled>>
  <2>1. KeysStep /\ CoreOK' /\ ctrl_refs' \in CtrlRefsType
    <3>1. CASE old = 0
      BY <1>0, <1>3, <3>1, QuietStep DEF TypeOK, CtrlRefsType
    <3>2. CASE old # 0
      BY <1>0, <1>3, <3>2, ChangeControllerKeyStep
    <3> QED BY <3>1, <3>2
  <2>2. StreamInv'
    BY <1>0, <1>3, <2>1, KeysStepKeepsStream
  <2>3. axis_direction' \in [Controllers -> [Axes -> Directions]]
    BY <1>0, <1>3 DEF TypeOK, Directions
  <2>4. axis_step' \in {NoStep} \cup Steps
    <3>1. new = 0 \/ new \in {-1, 1}
      BY <1>0 DEF Directions
    <3> HIDE DEF new
    <3> QED BY <3>1, <1>3 DEF Steps
  <2>5. TypeOK'
    BY <1>0, <1>3, <2>1, <2>3, <2>4 DEF TypeOK, CoreOK, CtrlRefsType, mapping, Errors
  <2> QED BY <2>2, <2>5 DEF IInv
<1> QED BY <1>1, <1>2, <1>3 DEF HandleAxis

\* The second half: the new direction is pressed.
LEMMA FinishAxisStep ==
    ASSUME IInv, FinishAxis, alive
    PROVE  IInv'
<1>1. PICK c \in Controllers, a \in Axes, d \in {-1, 1} :
          c = axis_step.controller /\ a = axis_step.axis /\ d = axis_step.direction
  BY DEF IInv, TypeOK, FinishAxis, Steps
<1>0. /\ TypeOK /\ StreamInv /\ CoreOK
      /\ AxisKey(a, d) \in Scancodes
  BY TypeHasCore DEF IInv, TypeOK, AxisKey
<1>2. axis_step' = NoStep /\ UNCHANGED <<alive, controllers, mapping, polled>>
  BY DEF FinishAxis
<1>3. CASE /\ ChangeControllerKeyFails(c, AxisKey(a, d), TRUE)
           /\ UNCHANGED <<held, queue, capacity>>
  <2>1. KeysStep /\ CoreOK'
    BY <1>0, <1>3, QuietStep DEF held
  <2>2. StreamInv'
    BY <1>0, <1>2, <2>1, KeysStepKeepsStream
  <2>3. error' \in Errors
    BY <1>3, ControllerErrors
  <2>4. TypeOK'
    BY <1>0, <1>2, <1>3, <2>1, <2>3 DEF TypeOK, CoreOK, held, mapping
  <2> QED BY <2>2, <2>4 DEF IInv
<1>4. CASE /\ ChangeControllerKey(c, AxisKey(a, d), TRUE)
           /\ axis_direction' = [axis_direction EXCEPT ![c][a] = d]
           /\ error' = "none"
           /\ UNCHANGED <<keyboard_down, button_down>>
  <2>1. KeysStep /\ CoreOK' /\ ctrl_refs' \in CtrlRefsType
    BY <1>0, <1>4, ChangeControllerKeyStep
  <2>2. StreamInv'
    BY <1>0, <1>2, <2>1, KeysStepKeepsStream
  <2>3. axis_direction' \in [Controllers -> [Axes -> Directions]]
    BY <1>0, <1>4 DEF TypeOK, Directions
  <2>4. TypeOK'
    BY <1>0, <1>2, <1>4, <2>1, <2>3 DEF TypeOK, CoreOK, CtrlRefsType, mapping, Errors
  <2> QED BY <2>2, <2>4 DEF IInv
<1> QED BY <1>1, <1>3, <1>4 DEF FinishAxis

\* A controller is plugged in.
LEMMA AddControllerStep ==
    ASSUME IInv, NEW c \in Controllers, AddController(c)
    PROVE  IInv'
<1>0. TypeOK /\ StreamInv /\ CoreOK /\ alive
  BY TypeHasCore DEF IInv, AddController, Ready
<1>1. CASE error' \in {"none", "ENOMEM"} /\ Unchanged
  BY <1>1, UnchangedStep DEF Errors
<1>2. CASE /\ controllers' = controllers \cup {c}
           /\ ctrl_refs' = [ctrl_refs EXCEPT ![c] = NoRefs]
           /\ button_down' = [button_down EXCEPT ![c] = NoButtons]
           /\ axis_direction' = [axis_direction EXCEPT ![c] = NoDirection]
           /\ error' = "none"
           /\ UNCHANGED <<alive, key_refs, keyboard_down, mapping, queue,
                          capacity, axis_step, polled>>
  <2>1. KeysStep /\ CoreOK'
    BY <1>0, <1>2, QuietStep
  <2>2. StreamInv'
    BY <1>0, <1>2, <2>1, KeysStepKeepsStream
  <2>3. TypeOK'
    BY <1>0, <1>2, ZeroTables DEF TypeOK, mapping, Errors
  <2> QED BY <2>2, <2>3 DEF IInv
<1> QED BY <1>1, <1>2 DEF AddController

\* A controller is unplugged and its keys are released.
LEMMA RemoveControllerStep ==
    ASSUME IInv, NEW c \in Controllers, RemoveController(c)
    PROVE  IInv'
<1>0. TypeOK /\ StreamInv /\ alive
  BY DEF IInv, RemoveController, Ready
<1>1. CASE error' = "none" /\ Unchanged
  BY <1>1, UnchangedStep DEF Errors
<1>2. CASE ReleaseControllerFails(c) /\ Unchanged
  <2>1. error' \in Errors
    BY <1>2 DEF ReleaseControllerFails, Errors
  <2> QED BY <1>2, <2>1, UnchangedStep
<1>3. CASE /\ ReleaseController(c)
           /\ controllers' = controllers \ {c}
           /\ error' = "none"
           /\ UNCHANGED <<alive, keyboard_down, mapping, axis_step, polled>>
  <2>1. KeysStep /\ CoreOK'
    BY <1>0, <1>3, ReleaseControllerStep
  <2>2. StreamInv'
    BY <1>0, <1>3, <2>1, KeysStepKeepsStream
  <2>3. /\ ctrl_refs' \in [Controllers -> [Keys -> 0..MaxRefs]]
        /\ button_down' \in [Controllers -> [Buttons -> BOOLEAN]]
        /\ axis_direction' \in [Controllers -> [Axes -> Directions]]
    BY <1>0, <1>3, ZeroTables DEF TypeOK, ReleaseController
  <2>4. TypeOK'
    BY <1>0, <1>3, <2>1, <2>3 DEF TypeOK, CoreOK, mapping, Errors
  <2> QED BY <2>2, <2>4 DEF IInv
<1> QED BY <1>1, <1>2, <1>3 DEF RemoveController

\* The focus is lost and every key is released.
LEMMA ReleaseAllStep ==
    ASSUME IInv, ReleaseAll
    PROVE  IInv'
<1>0. TypeOK /\ StreamInv /\ CoreOK /\ alive
  BY TypeHasCore DEF IInv, ReleaseAll, Ready
<1>1. CASE error' = "ENOMEM" /\ Unchanged
  BY <1>1, UnchangedStep DEF Errors
<1>2. CASE /\ QueueReleases(DownKeys)
           /\ key_refs' = NoRefs
           /\ keyboard_down' = [k \in Keys |-> FALSE]
           /\ ctrl_refs' = [c \in Controllers |-> NoRefs]
           /\ button_down' = [c \in Controllers |-> NoButtons]
           /\ axis_direction' = [c \in Controllers |-> NoDirection]
           /\ error' = "none"
           /\ UNCHANGED <<alive, controllers, mapping, axis_step, polled>>
  <2>1. /\ DownKeys \in SUBSET Keys
        /\ \A k \in Keys : key_refs'[k] = 0 /\ key_refs[k] \in 0..MaxRefs
    BY <1>0, <1>2 DEF DownKeys, NoRefs, CoreOK
  <2>2. \A k \in DownKeys : key_refs[k] > 0 /\ key_refs'[k] = 0
    BY <2>1 DEF DownKeys
  <2>3. \A k \in Keys \ DownKeys : Status(k)' = Status(k)
    BY <2>1 DEF DownKeys, Status
  <2>4. key_refs' \in [Keys -> 0..MaxRefs]
    BY <1>2, ZeroTables
  <2>5. KeysStep /\ CoreOK'
    BY <1>0, <1>2, <2>1, <2>2, <2>3, <2>4, QueueReleasesStep
  <2>6. StreamInv'
    BY <1>0, <1>2, <2>5, KeysStepKeepsStream
  <2>7. TypeOK'
    BY <1>0, <1>2, <2>5, ZeroTables DEF TypeOK, CoreOK, mapping, Errors
  <2> QED BY <2>6, <2>7 DEF IInv
<1> QED BY <1>1, <1>2 DEF ReleaseAll

\* What map_button and map_axis share.
LEMMA RemapStep ==
    ASSUME IInv, alive, ReleaseControllerInputs, error' = "none",
           UNCHANGED <<alive, keyboard_down, controllers, axis_step, polled>>,
           button_map' \in [Buttons -> Scancodes],
           axis_negative' \in [Axes -> Scancodes],
           axis_positive' \in [Axes -> Scancodes]
    PROVE  IInv'
<1>0. TypeOK /\ StreamInv
  BY DEF IInv
<1>1. KeysStep /\ CoreOK'
  BY <1>0, ReleaseControllerInputsStep
<1>2. StreamInv'
  BY <1>0, <1>1, KeysStepKeepsStream
<1>3. /\ ctrl_refs' \in [Controllers -> [Keys -> 0..MaxRefs]]
      /\ button_down' \in [Controllers -> [Buttons -> BOOLEAN]]
      /\ axis_direction' \in [Controllers -> [Axes -> Directions]]
  BY ZeroTables DEF ReleaseControllerInputs
<1>4. TypeOK'
  BY <1>0, <1>1, <1>3 DEF TypeOK, CoreOK, Errors
<1> QED BY <1>2, <1>4 DEF IInv

\* A button is mapped to another key.
LEMMA MapButtonStep ==
    ASSUME IInv, NEW b \in Buttons, NEW k \in Remaps, MapButton(b, k)
    PROVE  IInv'
<1>0. alive /\ k \in Scancodes
  BY MappingAssumption DEF MapButton, Ready, Scancodes
<1>1. CASE ReleaseControllerInputsFails /\ Unchanged
  <2>1. error' \in Errors
    BY <1>1 DEF ReleaseControllerInputsFails, Errors
  <2> QED BY <1>1, <2>1, UnchangedStep
<1>2. CASE /\ ReleaseControllerInputs
           /\ button_map' = [button_map EXCEPT ![b] = k]
           /\ error' = "none"
           /\ UNCHANGED <<alive, keyboard_down, controllers, axis_negative,
                          axis_positive, axis_step, polled>>
  <2>1. /\ button_map' \in [Buttons -> Scancodes]
        /\ axis_negative' \in [Axes -> Scancodes]
        /\ axis_positive' \in [Axes -> Scancodes]
    BY <1>0, <1>2 DEF IInv, TypeOK
  <2> QED BY <1>0, <1>2, <2>1, RemapStep
<1> QED BY <1>1, <1>2 DEF MapButton

\* An axis is mapped to other keys.
LEMMA MapAxisStep ==
    ASSUME IInv, NEW a \in Axes, NEW n \in Remaps, NEW p \in Remaps, MapAxis(a, n, p)
    PROVE  IInv'
<1>0. alive /\ n \in Scancodes /\ p \in Scancodes
  BY MappingAssumption DEF MapAxis, Ready, Scancodes
<1>1. CASE ReleaseControllerInputsFails /\ Unchanged
  <2>1. error' \in Errors
    BY <1>1 DEF ReleaseControllerInputsFails, Errors
  <2> QED BY <1>1, <2>1, UnchangedStep
<1>2. CASE /\ ReleaseControllerInputs
           /\ axis_negative' = [axis_negative EXCEPT ![a] = n]
           /\ axis_positive' = [axis_positive EXCEPT ![a] = p]
           /\ error' = "none"
           /\ UNCHANGED <<alive, keyboard_down, controllers, button_map,
                          axis_step, polled>>
  <2>1. /\ button_map' \in [Buttons -> Scancodes]
        /\ axis_negative' \in [Axes -> Scancodes]
        /\ axis_positive' \in [Axes -> Scancodes]
    BY <1>0, <1>2 DEF IInv, TypeOK
  <2> QED BY <1>0, <1>2, <2>1, RemapStep
<1> QED BY <1>1, <1>2 DEF MapAxis

\* The game takes the oldest event.
LEMMA PollStep ==
    ASSUME IInv, Poll
    PROVE  IInv'
<1>0. /\ queue \in Seq(Events) /\ queue # <<>> /\ polled \in [Keys -> Changes]
      /\ polled' = [polled EXCEPT ![Head(queue).scancode] = Head(queue).change]
      /\ queue' = Tail(queue) /\ alive /\ alive'
      /\ UNCHANGED <<key_refs, capacity>>
  BY DEF IInv, TypeOK, Poll, held
<1>1. /\ \A k \in Keys, x \in Changes :
            LastIs(queue, polled, k, x) => LastIs(queue', polled', k, x)
      /\ Alternating(queue, polled) => Alternating(queue', polled')
  BY <1>0, PollStream
<1>2. \A k \in Keys : Status(k) \in Changes /\ Status(k)' = Status(k)
  BY <1>0 DEF Status, Changes
<1>3. StreamInv'
  BY <1>0, <1>1, <1>2 DEF IInv, StreamInv, StreamMatchesKeys, StreamAlternates
<1>4. /\ queue' \in Seq(Events) /\ Len(queue') = Len(queue) - 1
      /\ Head(queue) \in Events /\ Len(queue) \in Nat
  BY <1>0, HeadTailProperties, LenProperties
<1>5. polled' \in [Keys -> Changes] /\ Len(queue') <= capacity'
  BY <1>0, <1>4 DEF Events, IInv, TypeOK
<1>6. TypeOK'
  BY <1>4, <1>5 DEF IInv, TypeOK, Poll, held, mapping, Errors
<1> QED BY <1>3, <1>6 DEF IInv

\* An object that was just created, or is gone, has an empty stream.
LEMMA EmptyStream ==
    ASSUME NEW v, v = [k \in Keys |-> "release"]
    PROVE  /\ \A k \in Keys : LastIs(<<>>, v, k, "release")
           /\ Alternating(<<>>, v)
BY DEF LastIs, Alternating

\* The merger is created with nothing held.
LEMMA CreateStep ==
    ASSUME IInv, NEW plugged \in SUBSET Controllers, Create(plugged)
    PROVE  IInv'
<1>1. TypeOK'
  BY ZeroTables, MappingAssumption, BoundsAssumption
     DEF IInv, TypeOK, Create, Errors, Changes, Scancodes
<1>2. \A k \in Keys : Status(k)' = "release"
  BY DEF Create, Status, NoRefs
<1>3. StreamInv'
  BY <1>2, EmptyStream DEF StreamInv, StreamMatchesKeys, StreamAlternates, Create
<1> QED BY <1>1, <1>3 DEF IInv

\* The merger is destroyed.
LEMMA DestroyStep ==
    ASSUME IInv, Destroy
    PROVE  IInv'
<1>0. <<>> \in Seq(Events) /\ Len(<<>>) = 0
  BY EmptySeq
<1>1. TypeOK'
  <2>1. /\ queue' \in Seq(Events) /\ capacity' \in Nat /\ Len(queue') <= capacity'
        /\ controllers' \subseteq Controllers /\ error' \in Errors
    BY <1>0 DEF Destroy, Errors
  <2>4. alive' \in BOOLEAN
    BY Zenon DEF Destroy
  <2>2. /\ key_refs' \in [Keys -> 0..MaxRefs]
        /\ keyboard_down' \in [Keys -> BOOLEAN]
        /\ ctrl_refs' \in [Controllers -> [Keys -> 0..MaxRefs]]
        /\ button_down' \in [Controllers -> [Buttons -> BOOLEAN]]
        /\ axis_direction' \in [Controllers -> [Axes -> Directions]]
    BY ZeroTables DEF Destroy
  <2>3. UNCHANGED <<button_map, axis_negative, axis_positive, axis_step, polled>>
    BY DEF Destroy, mapping
  <2> QED BY <2>1, <2>2, <2>3, <2>4 DEF IInv, TypeOK
<1>2. StreamInv'
  BY DEF StreamInv, StreamMatchesKeys, StreamAlternates, Alternating, Destroy
<1> QED BY <1>1, <1>2 DEF IInv

-----------------------------------------------------------------------------
\* handle_axis is never half done without an object.
StepAlive == axis_step # NoStep => alive

\* The invariant holds at the start.
LEMMA InitStep == Init => IInv /\ StepAlive
<1> SUFFICES ASSUME Init PROVE IInv /\ StepAlive
  OBVIOUS
<1>0. <<>> \in Seq(Events) /\ Len(<<>>) = 0
  BY EmptySeq
<1>1. TypeOK
  <2>1. /\ queue \in Seq(Events) /\ capacity \in Nat /\ Len(queue) <= capacity
        /\ controllers \subseteq Controllers
        /\ error \in Errors /\ axis_step \in {NoStep} \cup Steps
    BY <1>0 DEF Init, Errors
  <2>4. alive \in BOOLEAN
    BY Zenon DEF Init
  <2>2. /\ key_refs \in [Keys -> 0..MaxRefs]
        /\ keyboard_down \in [Keys -> BOOLEAN]
        /\ ctrl_refs \in [Controllers -> [Keys -> 0..MaxRefs]]
        /\ button_down \in [Controllers -> [Buttons -> BOOLEAN]]
        /\ axis_direction \in [Controllers -> [Axes -> Directions]]
    BY ZeroTables DEF Init
  <2>3. /\ button_map \in [Buttons -> Scancodes]
        /\ axis_negative \in [Axes -> Scancodes]
        /\ axis_positive \in [Axes -> Scancodes]
        /\ polled \in [Keys -> Changes]
    BY MappingAssumption DEF Init, Scancodes, Changes
  <2> QED BY <2>1, <2>2, <2>3, <2>4 DEF TypeOK
<1>2. StreamInv
  BY DEF StreamInv, StreamMatchesKeys, StreamAlternates, Alternating, Init
<1>3. StepAlive
  BY DEF StepAlive, Init
<1> QED BY <1>1, <1>2, <1>3 DEF IInv

\* Every handler keeps the invariant.
LEMMA NextStep ==
    ASSUME IInv, StepAlive, [Next]_vars
    PROVE  IInv' /\ StepAlive'
<1>1. ASSUME NEW k \in Keys, NEW pressed \in BOOLEAN, NEW repeat \in BOOLEAN,
             HandleKeyboard(k, pressed, repeat)
      PROVE  IInv' /\ StepAlive'
  BY <1>1, KeyboardStep DEF HandleKeyboard, Ready, Unchanged, StepAlive
<1>2. ASSUME NEW c \in Controllers, NEW b \in Buttons, NEW pressed \in BOOLEAN,
             HandleButton(c, b, pressed)
      PROVE  IInv' /\ StepAlive'
  BY <1>2, ButtonStep DEF HandleButton, Ready, Unchanged, StepAlive
<1>3. ASSUME NEW c \in Controllers, NEW a \in Axes, NEW zone \in Zones,
             HandleAxis(c, a, zone)
      PROVE  IInv' /\ StepAlive'
  BY <1>3, AxisStep DEF HandleAxis, Ready, Unchanged, StepAlive
<1>4. CASE FinishAxis
  BY <1>4, FinishAxisStep DEF FinishAxis, StepAlive
<1>5. ASSUME NEW c \in Controllers, AddController(c) \/ RemoveController(c)
      PROVE  IInv' /\ StepAlive'
  BY <1>5, AddControllerStep, RemoveControllerStep
     DEF AddController, RemoveController, Ready, Unchanged, StepAlive
<1>6. CASE ReleaseAll
  BY <1>6, ReleaseAllStep DEF ReleaseAll, Ready, Unchanged, StepAlive
<1>7. ASSUME NEW b \in Buttons, NEW k \in Remaps, MapButton(b, k)
      PROVE  IInv' /\ StepAlive'
  BY <1>7, MapButtonStep DEF MapButton, Ready, Unchanged, StepAlive
<1>8. ASSUME NEW a \in Axes, NEW n \in Remaps, NEW p \in Remaps, MapAxis(a, n, p)
      PROVE  IInv' /\ StepAlive'
  BY <1>8, MapAxisStep DEF MapAxis, Ready, Unchanged, StepAlive
<1>9. CASE InvalidCall
  BY <1>9, UnchangedStep DEF InvalidCall, Unchanged, StepAlive, Errors
<1>10. CASE Poll
  BY <1>10, PollStep DEF Poll, StepAlive
<1>11. ASSUME NEW plugged \in SUBSET Controllers, Create(plugged)
       PROVE  IInv' /\ StepAlive'
  BY <1>11, CreateStep DEF Create, StepAlive
<1>12. CASE Destroy
  BY <1>12, DestroyStep DEF Destroy, Ready, StepAlive
<1>13. CASE UNCHANGED vars
  <2>1. TypeOK'
    BY <1>13 DEF IInv, TypeOK, vars, held, mapping
  <2>2. StreamInv'
    BY <1>13 DEF IInv, StreamInv, StreamMatchesKeys, StreamAlternates, Status, vars, held
  <2>3. StepAlive'
    BY <1>13 DEF StepAlive, vars
  <2> QED BY <2>1, <2>2, <2>3 DEF IInv
<1> QED BY <1>1, <1>2, <1>3, <1>4, <1>5, <1>6, <1>7, <1>8, <1>9, <1>10, <1>11,
           <1>12, <1>13 DEF Next

\* The inductive invariant holds in every reachable state of the merger.
THEOREM Invariance == Spec => [](IInv /\ StepAlive)
BY InitStep, NextStep, PTL DEF Spec

\* Every variable keeps its type; in particular no counter leaves the range of
\* an unsigned short and the queue never holds more than its capacity.
THEOREM TypeCorrect == Spec => []TypeOK
BY Invariance, PTL DEF IInv

\* A consumer that drains the queue holds exactly the keys that are down.
THEOREM StreamTruthful == Spec => []StreamMatchesKeys
BY Invariance, PTL DEF IInv, StreamInv

\* The events of a key alternate.
THEOREM StreamAlternating == Spec => []StreamAlternates
BY Invariance, PTL DEF IInv, StreamInv

-----------------------------------------------------------------------------
(* References and their holders.  H says what each controller holds; the   *)
(* holders of a key are counted over all of them.                          *)

Controls == ({"button"} \X Buttons) \cup ({"axis"} \X Axes)
Tables == [Controllers -> SUBSET Controls]
Total(H) == UNION {{c} \X H[c] : c \in Controllers}

\* G has one control more than H, namely c's control h; and nothing of c.
OneMore(G, H, c, h) ==
    /\ h \notin H[c] /\ G[c] = H[c] \cup {h}
    /\ \A d \in Controllers : d # c => G[d] = H[d]
NoneOf(G, H, c) ==
    G[c] = {} /\ \A d \in Controllers : d # c => G[d] = H[d]

\* What is held is a finite set of pairs.
LEMMA TotalIs ==
    ASSUME NEW H \in Tables
    PROVE  /\ \A x : x \in Total(H) <=> \E c \in Controllers : \E h \in H[c] : x = <<c, h>>
           /\ IsFiniteSet(Total(H)) /\ \A c \in Controllers : IsFiniteSet(H[c])
<1>1. \A x : x \in Total(H) <=> \E c \in Controllers : \E h \in H[c] : x = <<c, h>>
  <2>1. \A x : x \in Total(H) <=> \E c \in Controllers : x \in {c} \X H[c]
    BY Zenon DEF Total
  <2>2. \A x : \A c \in Controllers : x \in {c} \X H[c] <=> \E h \in H[c] : x = <<c, h>>
    OBVIOUS
  <2> QED BY <2>1, <2>2, ZenonT(60)
<1>2. IsFiniteSet(Controls)
  <2>1. IsFiniteSet({"button"}) /\ IsFiniteSet({"axis"})
    BY FS_Singleton
  <2>2. IsFiniteSet({"button"} \X Buttons) /\ IsFiniteSet({"axis"} \X Axes)
    BY <2>1, FiniteAssumption, FS_Product
  <2> QED BY <2>2, FS_Union DEF Controls
<1>3. \A c \in Controllers : H[c] \in SUBSET Controls
  BY DEF Tables
<1>4. \A c \in Controllers : IsFiniteSet(H[c])
  BY <1>2, <1>3, FS_Subset
<1>5. IsFiniteSet(Controllers \X Controls)
  BY <1>2, FiniteAssumption, FS_Product
<1>6. Total(H) \in SUBSET (Controllers \X Controls)
  BY <1>1, <1>3
<1> QED BY <1>1, <1>4, <1>5, <1>6, FS_Subset

\* One control more is held, or one less.
LEMMA TotalAdd ==
    ASSUME NEW H \in Tables, NEW c \in Controllers, NEW h, NEW G \in Tables, OneMore(G, H, c, h)
    PROVE  /\ Cardinality(Total(G)) = Cardinality(Total(H)) + 1
           /\ Cardinality(G[c]) = Cardinality(H[c]) + 1
<1>1. /\ G[c] = H[c] \cup {h} /\ h \notin H[c]
      /\ \A d \in Controllers : d # c => G[d] = H[d]
  BY DEF OneMore
<1>2. Total(G) = Total(H) \cup {<<c, h>>}
  <2>1. \A x : x \in Total(G) <=> \E d \in Controllers : \E g \in G[d] : x = <<d, g>>
    BY <1>1, TotalIs
  <2>2. \A x : x \in Total(H) <=> \E d \in Controllers : \E g \in H[d] : x = <<d, g>>
    BY TotalIs
  <2>3. ASSUME NEW x \in Total(G) PROVE x \in Total(H) \cup {<<c, h>>}
    <3>1. PICK d \in Controllers : \E g \in G[d] : x = <<d, g>>
      BY <2>1
    <3>2. PICK g \in G[d] : x = <<d, g>>
      BY <3>1
    <3>3. g \in H[d] \/ (d = c /\ g = h)
      BY <1>1, <3>2
    <3> QED BY <2>2, <3>2, <3>3
  <2>4. ASSUME NEW x \in Total(H) \cup {<<c, h>>} PROVE x \in Total(G)
    BY <1>1, <2>1, <2>2, Zenon
  <2> QED BY <2>3, <2>4
<1>3. <<c, h>> \notin Total(H)
  BY <1>1, TotalIs
<1>4. IsFiniteSet(Total(H)) /\ IsFiniteSet(H[c])
  BY TotalIs
<1>5. Cardinality(Total(G)) = Cardinality(Total(H)) + 1
  BY <1>2, <1>3, <1>4, FS_AddElement
<1>6. Cardinality(G[c]) = Cardinality(H[c]) + 1
  BY <1>1, <1>4, FS_AddElement
<1> QED BY <1>1, <1>5, <1>6

\* A controller lets go of all it holds.
LEMMA TotalDrop ==
    ASSUME NEW H \in Tables, NEW c \in Controllers,
           NEW G \in Tables, NoneOf(G, H, c)
    PROVE  Cardinality(Total(H)) = Cardinality(Total(G)) + Cardinality(H[c])
<1>1. G[c] = {} /\ \A d \in Controllers : d # c => G[d] = H[d]
  BY DEF NoneOf
<1> DEFINE own == {c} \X H[c]
<1>2. /\ \A x : x \in Total(G) <=> \E d \in Controllers : \E g \in G[d] : x = <<d, g>>
      /\ \A x : x \in Total(H) <=> \E d \in Controllers : \E g \in H[d] : x = <<d, g>>
      /\ IsFiniteSet(Total(G)) /\ IsFiniteSet(Total(H)) /\ IsFiniteSet(H[c])
  BY <1>1, TotalIs
<1>3. Total(H) = Total(G) \cup own /\ Total(G) \cap own = {}
  <2>1. ASSUME NEW x \in Total(H) PROVE x \in Total(G) \cup own
    <3>1. PICK d \in Controllers : \E g \in H[d] : x = <<d, g>>
      BY <1>2
    <3>2. PICK g \in H[d] : x = <<d, g>>
      BY <3>1
    <3>3. CASE d = c
      BY <3>2, <3>3
    <3>4. CASE d # c
      BY <1>1, <1>2, <3>2, <3>4, Zenon
    <3> QED BY <3>3, <3>4
  <2>2. ASSUME NEW x \in Total(G) PROVE x \in Total(H) /\ x \notin own
    <3>1. PICK d \in Controllers : \E g \in G[d] : x = <<d, g>>
      BY <1>2
    <3>2. PICK g \in G[d] : x = <<d, g>>
      BY <3>1
    <3>3. d # c /\ g \in H[d]
      BY <1>1, <3>2
    <3>4. x \in Total(H)
      BY <1>2, <3>2, <3>3, Zenon
    <3>5. x \notin own
      BY <3>2, <3>3
    <3> QED BY <3>4, <3>5
  <2>3. ASSUME NEW x \in own PROVE x \in Total(H)
    <3>1. PICK g \in H[c] : x = <<c, g>>
      OBVIOUS
    <3> QED BY <1>2, <3>1, Zenon
  <2> HIDE DEF own
  <2> QED BY <2>1, <2>2, <2>3
<1>5. IsFiniteSet(own) /\ Cardinality(own) = Cardinality(H[c])
  <2>1. IsFiniteSet({c}) /\ Cardinality({c}) = 1
    BY FS_Singleton
  <2>2. IsFiniteSet(own) /\ Cardinality(own) = Cardinality({c}) * Cardinality(H[c])
    BY <1>2, <2>1, FS_Product
  <2>3. Cardinality(H[c]) \in Nat
    BY <1>2, FS_CardinalityType
  <2> QED BY <2>1, <2>2, <2>3
<1> HIDE DEF own
<1>6. Cardinality(Total(G)) \in Nat /\ Cardinality(own) \in Nat
  BY <1>2, <1>5, FS_CardinalityType
<1>7. Cardinality(Total(H)) = Cardinality(Total(G)) + Cardinality(own) - Cardinality({})
  <2>1. Cardinality(Total(G) \cup own) = Cardinality(Total(G)) + Cardinality(own) - Cardinality(Total(G) \cap own)
    BY <1>2, <1>5, FS_Union
  <2> QED BY <1>3, <2>1, Zenon
<1> QED BY <1>1, <1>5, <1>6, <1>7, FS_EmptySet

\* Nobody holds anything.
LEMMA TotalNone ==
    ASSUME NEW H, H = [c \in Controllers |-> {}]
    PROVE  H \in Tables /\ Cardinality(Total(H)) = 0
<1>1. H \in Tables /\ Total(H) = {}
  BY DEF Tables, Total
<1> QED BY <1>1, FS_EmptySet

\* As many pairs of each controller of C as n says, at most m.
Slots(C, m, n) == {x \in C \X (1..m) : x[2] <= n[x[1]]}

\* Adding up what the connected controllers count gives the number of all that
\* is held: the loops of release_controller_inputs.
LEMMA TotalSum ==
    ASSUME NEW H \in Tables, NEW C \in SUBSET Controllers, NEW m \in Nat,
           NEW n, \A c \in C : n[c] = Cardinality(H[c]) /\ n[c] \in 0..m,
           \A c \in Controllers \ C : H[c] = {}
    PROVE  Cardinality(Slots(C, m, n)) = Cardinality(Total(H))
<1> DEFINE O == {x \in C \X (1..m) : x[2] <= n[x[1]]}
<1>1. /\ \A x : x \in Total(H) <=> \E d \in Controllers : \E g \in H[d] : x = <<d, g>>
      /\ \A c \in Controllers : IsFiniteSet(H[c])
  BY TotalIs
<1>2. IsFiniteSet(O)
  <2>1. IsFiniteSet(C) /\ IsFiniteSet(1..m)
    BY FiniteAssumption, FS_Subset, FS_Interval
  <2>2. IsFiniteSet(C \X (1..m)) /\ O \in SUBSET (C \X (1..m))
    BY <2>1, FS_Product
  <2> QED BY <2>2, FS_Subset
<1>3. \A c \in C : Bijection(1..n[c], H[c]) # {}
  BY <1>1, FS_CardinalityType DEF ExistsBijection
<1> DEFINE f == [c \in C |-> CHOOSE b : b \in Bijection(1..n[c], H[c])]
<1>4. \A c \in C : f[c] \in Bijection(1..n[c], H[c])
  BY <1>3, Zenon
<1> HIDE DEF f
<1>5. \A c \in C :
         /\ \A i \in 1..n[c] : f[c][i] \in H[c]
         /\ \A i, j \in 1..n[c] : f[c][i] = f[c][j] => i = j
         /\ \A h \in H[c] : \E i \in 1..n[c] : f[c][i] = h
  BY <1>4, ZenonT(60) DEF Bijection, Injection, Surjection, IsInjective
<1> DEFINE F == [x \in O |-> <<x[1], f[x[1]][x[2]]>>]
<1>6. \A x \in O : /\ x[1] \in C /\ x[2] \in 1..n[x[1]] /\ x = <<x[1], x[2]>>
  OBVIOUS
<1>7. \A c \in C : \A i \in 1..n[c] : <<c, i>> \in O
  OBVIOUS
<1> HIDE DEF O
<1>8. F \in [O -> Total(H)]
  <2>1. ASSUME NEW x \in O PROVE <<x[1], f[x[1]][x[2]]>> \in Total(H)
    <3>1. PICK c, i : c = x[1] /\ i = x[2] /\ c \in C /\ i \in 1..n[c]
      BY <1>6
    <3>4. c \in C /\ i \in 1..n[c] /\ c \in Controllers
      BY <3>1
    <3>2. f[c][i] \in H[c] /\ c \in Controllers
      BY <1>5, <3>4, Zenon
    <3>3. <<c, f[c][i]>> \in Total(H)
      BY <1>1, <3>2, Zenon
    <3> QED BY <3>1, <3>3
  <2> QED BY <2>1
<1>9. \A x, y \in O : F[x] = F[y] => x = y
  <2> SUFFICES ASSUME NEW x \in O, NEW y \in O, F[x] = F[y] PROVE x = y
    OBVIOUS
  <2>1. x[1] = y[1] /\ f[x[1]][x[2]] = f[y[1]][y[2]]
    OBVIOUS
  <2>3. PICK c, i, j : /\ c = x[1] /\ i = x[2] /\ j = y[2] /\ c = y[1]
                       /\ c \in C /\ i \in 1..n[c] /\ j \in 1..n[c] /\ f[c][i] = f[c][j]
    BY <1>6, <2>1
  <2>5. c \in C /\ i \in 1..n[c] /\ j \in 1..n[c] /\ f[c][i] = f[c][j]
    BY <2>3
  <2>4. i = j
    BY <1>5, <2>5, Zenon
  <2>2. x[2] = y[2]
    BY <2>3, <2>4
  <2> QED BY <1>6, <2>1, <2>2, Zenon
<1>10. \A z \in Total(H) : \E x \in O : F[x] = z
  <2> SUFFICES ASSUME NEW z \in Total(H) PROVE \E x \in O : F[x] = z
    OBVIOUS
  <2>1. PICK d \in Controllers : \E g \in H[d] : z = <<d, g>>
    BY <1>1, Zenon
  <2>5. PICK g \in H[d] : z = <<d, g>>
    BY <2>1
  <2>2. d \in C
    BY <2>5
  <2>3. PICK i \in 1..n[d] : f[d][i] = g
    BY <1>5, <2>5, <2>2, Zenon
  <2>4. <<d, i>> \in O /\ F[<<d, i>>] = z
    BY <1>7, <2>5, <2>2, <2>3
  <2> QED BY <2>4
<1> HIDE DEF F
<1>11. F \in Bijection(O, Total(H))
  BY <1>8, <1>9, <1>10, Zenon DEF Bijection, Injection, Surjection, IsInjective
<1>12. Cardinality(Total(H)) = Cardinality(O)
  BY <1>2, <1>11, FS_Bijection DEF ExistsBijection
<1> QED BY <1>12 DEF O, Slots

\* The controls of a controller: buttons B and axes A.
Ctl(B, A) == {<<"button", b>> : b \in B} \cup {<<"axis", a>> : a \in A}

\* They are controls, none if there are no buttons and no axes;
LEMMA CtlIs ==
    ASSUME NEW B, NEW A
    PROVE  /\ B \subseteq Buttons /\ A \subseteq Axes => Ctl(B, A) \in SUBSET Controls
           /\ Ctl({}, {}) = {}
BY DEF Ctl, Controls

\* one more with one more button,
LEMMA CtlButton ==
    ASSUME NEW B, NEW A, NEW b, b \notin B
    PROVE  /\ <<"button", b>> \notin Ctl(B, A)
           /\ Ctl(B \cup {b}, A) = Ctl(B, A) \cup {<<"button", b>>}
BY DEF Ctl

\* or with one more axis.
LEMMA CtlAxis ==
    ASSUME NEW B, NEW A, NEW a, a \notin A
    PROVE  /\ <<"axis", a>> \notin Ctl(B, A)
           /\ Ctl(B, A \cup {a}) = Ctl(B, A) \cup {<<"axis", a>>}
BY DEF Ctl

\* What holds key k, of one controller and of all.
ButtonsOn(c, k) == {x \in Buttons : button_down[c][x] /\ button_map[x] = k}
AxesOn(c, k) == {x \in Axes : axis_direction[c][x] # 0 /\ AxisKey(x, axis_direction[c][x]) = k}
Holding(k) == [c \in Controllers |-> Ctl(ButtonsOn(c, k), AxesOn(c, k))]
Keyboard(k) == IF keyboard_down[k] THEN 1 ELSE 0
Counted(k) ==
    /\ \A c \in Controllers : ctrl_refs[c][k] = Cardinality(Holding(k)[c])
    /\ key_refs[k] = Cardinality(Total(Holding(k))) + Keyboard(k)

\* The property, key by key; and the tables, before and after a step.
LEMMA CountedIs ==
    /\ RefsHaveHolders <=> \A k \in Keys : Counted(k)
    /\ RefsHaveHolders' <=> \A k \in Keys : Counted(k)'
    /\ \A k : Holding(k) \in Tables /\ Holding(k)' \in Tables
<1>1. \A c, k : /\ Holders(c, k) = Ctl(ButtonsOn(c, k), AxesOn(c, k))
                /\ Holders(c, k)' = Ctl(ButtonsOn(c, k), AxesOn(c, k))'
  BY Zenon DEF Holders, Ctl, ButtonsOn, AxesOn
<1>2. \A k : \A c \in Controllers : Holding(k)[c] = Holders(c, k) /\ Holding(k)'[c] = Holders(c, k)'
  BY <1>1, Zenon DEF Holding
<1>3. \A k : /\ Total(Holding(k)) = UNION {{c} \X Holders(c, k) : c \in Controllers}
             /\ Total(Holding(k))' = UNION {{c} \X Holders(c, k)' : c \in Controllers}
  BY <1>2, Zenon DEF Total
<1>4. \A k : Holding(k) \in Tables /\ Holding(k)' \in Tables
  <2>1. \A c, k : /\ Ctl(ButtonsOn(c, k), AxesOn(c, k)) \in SUBSET Controls
                  /\ Ctl(ButtonsOn(c, k), AxesOn(c, k))' \in SUBSET Controls
    <3>1. \A c, k : /\ ButtonsOn(c, k) \subseteq Buttons /\ AxesOn(c, k) \subseteq Axes
                    /\ ButtonsOn(c, k)' \subseteq Buttons /\ AxesOn(c, k)' \subseteq Axes
      BY DEF ButtonsOn, AxesOn
    <3> QED BY <3>1, CtlIs, Zenon
  <2> QED BY <2>1 DEF Holding, Tables
<1>5. RefsHaveHolders <=> \A k \in Keys : Counted(k)
  BY <1>2, <1>3, Zenon DEF RefsHaveHolders, Counted, Keyboard
<1>6. RefsHaveHolders' <=> \A k \in Keys : Counted(k)'
  BY <1>2, <1>3, Zenon DEF RefsHaveHolders, Counted, Keyboard
<1> QED BY <1>4, <1>5, <1>6

\* A key nothing happened to.
LEMMA CountSame ==
    ASSUME NEW k \in Keys, Counted(k), Holding(k)' = Holding(k), key_refs'[k] = key_refs[k],
           \A c \in Controllers : ctrl_refs'[c][k] = ctrl_refs[c][k],
           keyboard_down'[k] = keyboard_down[k]
    PROVE  Counted(k)'
BY Zenon DEF Counted, Keyboard

\* A control that presses k: change_controller_key counts it.
LEMMA CountPress ==
    ASSUME NEW k \in Keys, Counted(k), NEW c \in Controllers, NEW h, OneMore(Holding(k)', Holding(k), c, h),
           key_refs'[k] = key_refs[k] + 1,
           \A d \in Controllers : ctrl_refs'[d][k] = IF d = c THEN ctrl_refs[d][k] + 1 ELSE ctrl_refs[d][k],
           keyboard_down'[k] = keyboard_down[k]
    PROVE  Counted(k)'
<1>1. PICK H \in Tables, G \in Tables : H = Holding(k) /\ G = Holding(k)'
  BY CountedIs
<1>2. OneMore(G, H, c, h) /\ \A d \in Controllers : d # c => G[d] = H[d]
  BY <1>1 DEF OneMore
<1>3. Cardinality(Total(G)) = Cardinality(Total(H)) + 1 /\ Cardinality(G[c]) = Cardinality(H[c]) + 1
  BY <1>2, TotalAdd
<1>4. Keyboard(k)' = Keyboard(k) /\ Keyboard(k) \in Nat
  BY DEF Keyboard
<1>5. /\ \A d \in Controllers : ctrl_refs[d][k] = Cardinality(H[d])
      /\ key_refs[k] = Cardinality(Total(H)) + Keyboard(k)
  BY <1>1 DEF Counted
<1>6. Cardinality(Total(H)) \in Nat
  BY TotalIs, FS_CardinalityType
<1>7. \A d \in Controllers : ctrl_refs'[d][k] = Cardinality(G[d])
  BY <1>2, <1>3, <1>5, Zenon
<1>8. key_refs'[k] = Cardinality(Total(G)) + Keyboard(k)'
  BY <1>3, <1>4, <1>5, <1>6
<1> QED BY <1>1, <1>7, <1>8, Zenon DEF Counted

\* A control that lets k go; it was counted.
LEMMA CountRelease ==
    ASSUME NEW k \in Keys, Counted(k), NEW c \in Controllers, NEW h, OneMore(Holding(k), Holding(k)', c, h)
    PROVE  /\ ctrl_refs[c][k] > 0 /\ key_refs[k] >= ctrl_refs[c][k]
           /\ (/\ key_refs'[k] = key_refs[k] - 1
               /\ \A d \in Controllers :
                    ctrl_refs'[d][k] = IF d = c THEN ctrl_refs[d][k] - 1 ELSE ctrl_refs[d][k]
               /\ keyboard_down'[k] = keyboard_down[k])
              => Counted(k)'
<1>1. PICK H \in Tables, G \in Tables : H = Holding(k) /\ G = Holding(k)'
  BY CountedIs
<1>2. OneMore(H, G, c, h) /\ \A d \in Controllers : d # c => G[d] = H[d]
  BY <1>1 DEF OneMore
<1>3. Cardinality(Total(H)) = Cardinality(Total(G)) + 1 /\ Cardinality(H[c]) = Cardinality(G[c]) + 1
  BY <1>2, TotalAdd
<1>4. Keyboard(k) \in Nat
  BY DEF Keyboard
<1>5. /\ \A d \in Controllers : ctrl_refs[d][k] = Cardinality(H[d])
      /\ key_refs[k] = Cardinality(Total(H)) + Keyboard(k)
  BY <1>1 DEF Counted
<1>6. /\ Cardinality(Total(G)) \in Nat /\ Cardinality(Total(H)) \in Nat
      /\ Cardinality(G[c]) \in Nat /\ Cardinality(H[c]) \in Nat
  BY TotalIs, FS_CardinalityType
<1>7. ctrl_refs[c][k] > 0
  BY <1>3, <1>5, <1>6
<1>8. key_refs[k] >= ctrl_refs[c][k]
  <2> DEFINE N == [H EXCEPT ![c] = {}]
  <2>1. N \in Tables /\ NoneOf(N, H, c)
    BY DEF Tables, NoneOf
  <2> HIDE DEF N
  <2>2. Cardinality(Total(H)) = Cardinality(Total(N)) + Cardinality(H[c]) /\ Cardinality(Total(N)) \in Nat
    BY <2>1, TotalDrop, TotalIs, FS_CardinalityType
  <2> QED BY <1>4, <1>5, <1>6, <2>2
<1>9. ASSUME /\ key_refs'[k] = key_refs[k] - 1
             /\ \A d \in Controllers :
                  ctrl_refs'[d][k] = IF d = c THEN ctrl_refs[d][k] - 1 ELSE ctrl_refs[d][k]
             /\ keyboard_down'[k] = keyboard_down[k]
      PROVE  Counted(k)'
  <2>1. Keyboard(k)' = Keyboard(k)
    BY <1>9 DEF Keyboard
  <2>2. ctrl_refs'[c][k] = Cardinality(G[c])
    BY <1>3, <1>5, <1>6, <1>9
  <2>3. \A d \in Controllers : d # c => ctrl_refs'[d][k] = Cardinality(G[d])
    BY <1>2, <1>5, <1>9, Zenon
  <2>4. key_refs'[k] = Cardinality(Total(G)) + Keyboard(k)'
    BY <1>3, <1>4, <1>5, <1>6, <1>9, <2>1
  <2> QED BY <1>1, <2>2, <2>3, <2>4, Zenon DEF Counted
<1> QED BY <1>7, <1>8, <1>9

\* Control h of controller c starts or ends to hold key, and nothing else does.
Moves(c, h, key, pressed) ==
    /\ \A k \in Keys : k # key => Holding(k)' = Holding(k)
    /\ key \in Keys /\ pressed => OneMore(Holding(key)', Holding(key), c, h)
    /\ key \in Keys /\ ~pressed => OneMore(Holding(key), Holding(key)', c, h)
ButtonTurns(c, b, pressed) ==
    button_down[c][b] # pressed /\ button_down' = [button_down EXCEPT ![c][b] = pressed]
AxisTurns(c, a, old, d) ==
    /\ old = axis_direction[c][a] /\ (old = 0 <=> d # 0)
    /\ axis_direction' = [axis_direction EXCEPT ![c][a] = d]
AxisKeyOf(a, old, d) == IF d = 0 THEN AxisKey(a, old) ELSE AxisKey(a, d)

\* change_controller_key, called for a control that goes down or up.
LEMMA ControlCounts ==
    ASSUME TypeOK, RefsHaveHolders, NEW c \in Controllers, NEW key \in Scancodes, NEW pressed \in BOOLEAN, NEW h,
           ChangeControllerKey(c, key, pressed), keyboard_down' = keyboard_down, Moves(c, h, key, pressed)
    PROVE  RefsHaveHolders'
<1>0. /\ \A k \in Keys : Counted(k)
      /\ key_refs \in [Keys -> Int] /\ ctrl_refs \in [Controllers -> [Keys -> Int]]
      /\ \A k \in Keys : k # key => Holding(k)' = Holding(k)
      /\ key \in Keys /\ pressed => OneMore(Holding(key)', Holding(key), c, h)
      /\ key \in Keys /\ ~pressed => OneMore(Holding(key), Holding(key)', c, h)
  BY CountedIs DEF TypeOK, Moves
<1>1. CASE UNCHANGED <<key_refs, ctrl_refs>> /\ (key \in Keys => ~pressed /\ ctrl_refs[c][key] = 0)
  <2>1. key \notin Keys
    <3> SUFFICES ASSUME key \in Keys PROVE FALSE
      OBVIOUS
    <3>1. ctrl_refs[c][key] > 0
      BY <1>0, <1>1, CountRelease
    <3> QED BY <1>1, <3>1
  <2>2. \A k \in Keys : Counted(k)'
    BY <1>0, <1>1, <2>1, CountSame
  <2> QED BY <2>2, CountedIs
<1>2. CASE /\ key \in Keys /\ pressed
           /\ RaiseKey(key)
           /\ ctrl_refs' = [ctrl_refs EXCEPT ![c][key] = @ + 1]
  <2>1. key_refs' = [key_refs EXCEPT ![key] = @ + 1]
    BY <1>2 DEF RaiseKey
  <2>2. \A k \in Keys : key_refs'[k] = IF k = key THEN key_refs[k] + 1 ELSE key_refs[k]
    BY <1>0, <2>1
  <2>3. \A d \in Controllers, k \in Keys :
           ctrl_refs'[d][k] = IF d = c /\ k = key THEN ctrl_refs[d][k] + 1 ELSE ctrl_refs[d][k]
    BY <1>0, <1>2
  <2>4. Counted(key)'
    BY <1>0, <1>2, <2>2, <2>3, CountPress
  <2>5. \A k \in Keys : k # key => Counted(k)'
    BY <1>0, <2>2, <2>3, CountSame
  <2> QED BY <2>4, <2>5, CountedIs
<1>3. CASE /\ key \in Keys /\ ~pressed
           /\ LowerKey(key)
           /\ ctrl_refs' = [ctrl_refs EXCEPT ![c][key] = @ - 1]
  <2>1. key_refs' = [key_refs EXCEPT ![key] = @ - 1]
    BY <1>3 DEF LowerKey
  <2>2. \A k \in Keys : key_refs'[k] = IF k = key THEN key_refs[k] - 1 ELSE key_refs[k]
    BY <1>0, <2>1
  <2>3. \A d \in Controllers, k \in Keys :
           ctrl_refs'[d][k] = IF d = c /\ k = key THEN ctrl_refs[d][k] - 1 ELSE ctrl_refs[d][k]
    BY <1>0, <1>3
  <2>4. Counted(key)'
    BY <1>0, <1>3, <2>2, <2>3, CountRelease
  <2>5. \A k \in Keys : k # key => Counted(k)'
    BY <1>0, <2>2, <2>3, CountSame
  <2> QED BY <2>4, <2>5, CountedIs
<1> QED BY <1>1, <1>2, <1>3 DEF ChangeControllerKey

\* What a button that changes does to the tables of holders.
LEMMA ButtonHolding ==
    ASSUME TypeOK, NEW c \in Controllers, NEW b \in Buttons, NEW pressed \in BOOLEAN,
           ButtonTurns(c, b, pressed), UNCHANGED <<axis_direction, mapping>>, NEW key, key = button_map[b]
    PROVE  Moves(c, <<"button", b>>, key, pressed)
<1>9. button_down[c][b] # pressed /\ button_down' = [button_down EXCEPT ![c][b] = pressed]
  BY DEF ButtonTurns
<1>0. /\ axis_direction' = axis_direction /\ button_map' = button_map
      /\ axis_negative' = axis_negative /\ axis_positive' = axis_positive
  BY DEF mapping
<1>1. \A d, k : AxesOn(d, k)' = AxesOn(d, k)
  BY <1>0, Zenon DEF AxesOn, AxisKey
<1>2. \A d \in Controllers, x \in Buttons : button_down'[d][x] = IF d = c /\ x = b THEN pressed ELSE button_down[d][x]
  BY <1>9 DEF TypeOK
<1>3. \A d \in Controllers, k \in Keys : d # c \/ k # key => ButtonsOn(d, k)' = ButtonsOn(d, k)
  BY <1>0, <1>2 DEF ButtonsOn
<1>4. button_down[c][b] \in BOOLEAN
  BY DEF TypeOK
<1>5. CASE pressed
  <2>1. b \notin ButtonsOn(c, key) /\ ButtonsOn(c, key)' = ButtonsOn(c, key) \cup {b}
    BY <1>0, <1>2, <1>4, <1>5, <1>9 DEF ButtonsOn
  <2>2. /\ <<"button", b>> \notin Ctl(ButtonsOn(c, key), AxesOn(c, key))
        /\ Ctl(ButtonsOn(c, key), AxesOn(c, key))' = Ctl(ButtonsOn(c, key), AxesOn(c, key)) \cup {<<"button", b>>}
    <3>1. Ctl(ButtonsOn(c, key), AxesOn(c, key))' = Ctl(ButtonsOn(c, key) \cup {b}, AxesOn(c, key))
      BY <1>1, <2>1
    <3>2. b \notin ButtonsOn(c, key)
      BY <2>1
    <3>3. /\ <<"button", b>> \notin Ctl(ButtonsOn(c, key), AxesOn(c, key))
          /\ Ctl(ButtonsOn(c, key) \cup {b}, AxesOn(c, key)) = Ctl(ButtonsOn(c, key), AxesOn(c, key)) \cup {<<"button", b>>}
      BY <3>2, CtlButton
    <3> QED BY <3>1, <3>3
  <2>3. \A d \in Controllers, k \in Keys : d # c \/ k # key => Holding(k)'[d] = Holding(k)[d]
    BY <1>1, <1>3, Zenon DEF Holding
  <2>4. key \in Keys => OneMore(Holding(key)', Holding(key), c, <<"button", b>>)
    <3>1. /\ Holding(key)[c] = Ctl(ButtonsOn(c, key), AxesOn(c, key))
          /\ Holding(key)'[c] = Ctl(ButtonsOn(c, key), AxesOn(c, key))'
      BY Zenon DEF Holding
    <3> QED BY <2>2, <2>3, <3>1, Zenon DEF OneMore
  <2>5. \A k \in Keys : k # key => Holding(k)' = Holding(k)
    BY <1>1, <1>3, Zenon DEF Holding
  <2> QED BY <1>5, <2>4, <2>5, Zenon DEF Moves
<1>6. CASE ~pressed
  <2>1. b \notin ButtonsOn(c, key)' /\ ButtonsOn(c, key) = ButtonsOn(c, key)' \cup {b}
    BY <1>0, <1>2, <1>4, <1>6, <1>9 DEF ButtonsOn
  <2>2. /\ <<"button", b>> \notin Ctl(ButtonsOn(c, key), AxesOn(c, key))'
        /\ Ctl(ButtonsOn(c, key), AxesOn(c, key)) = Ctl(ButtonsOn(c, key), AxesOn(c, key))' \cup {<<"button", b>>}
    <3>1. Ctl(ButtonsOn(c, key), AxesOn(c, key)) = Ctl(ButtonsOn(c, key)' \cup {b}, AxesOn(c, key)')
      BY <1>1, <2>1
    <3>2. b \notin ButtonsOn(c, key)'
      BY <2>1
    <3>3. /\ <<"button", b>> \notin Ctl(ButtonsOn(c, key)', AxesOn(c, key)')
          /\ Ctl(ButtonsOn(c, key)' \cup {b}, AxesOn(c, key)') = Ctl(ButtonsOn(c, key)', AxesOn(c, key)') \cup {<<"button", b>>}
      BY <3>2, CtlButton
    <3> QED BY <3>1, <3>3
  <2>3. \A d \in Controllers, k \in Keys : d # c \/ k # key => Holding(k)'[d] = Holding(k)[d]
    BY <1>1, <1>3, Zenon DEF Holding
  <2>4. key \in Keys => OneMore(Holding(key), Holding(key)', c, <<"button", b>>)
    <3>1. /\ Holding(key)[c] = Ctl(ButtonsOn(c, key), AxesOn(c, key))
          /\ Holding(key)'[c] = Ctl(ButtonsOn(c, key), AxesOn(c, key))'
      BY Zenon DEF Holding
    <3> QED BY <2>2, <2>3, <3>1, Zenon DEF OneMore
  <2>5. \A k \in Keys : k # key => Holding(k)' = Holding(k)
    BY <1>1, <1>3, Zenon DEF Holding
  <2> QED BY <1>6, <2>4, <2>5, Zenon DEF Moves
<1> QED BY <1>5, <1>6

\* What an axis does that leaves the middle, or comes back to it.
LEMMA AxisHolding ==
    ASSUME TypeOK, NEW c \in Controllers, NEW a \in Axes, NEW d \in Directions,
           NEW old, AxisTurns(c, a, old, d), UNCHANGED <<button_down, mapping>>,
           NEW key, key = AxisKeyOf(a, old, d)
    PROVE  Moves(c, <<"axis", a>>, key, d # 0)
<1>9. /\ old = axis_direction[c][a] /\ (old = 0 <=> d # 0)
      /\ axis_direction' = [axis_direction EXCEPT ![c][a] = d]
      /\ key = IF d = 0 THEN AxisKey(a, old) ELSE AxisKey(a, d)
  BY DEF AxisTurns, AxisKeyOf
<1>0. /\ button_down' = button_down /\ button_map' = button_map
      /\ axis_negative' = axis_negative /\ axis_positive' = axis_positive
  BY DEF mapping
<1>1. \A e, k : ButtonsOn(e, k)' = ButtonsOn(e, k)
  BY <1>0, Zenon DEF ButtonsOn
<1>2. \A e \in Controllers, x \in Axes : axis_direction'[e][x] = IF e = c /\ x = a THEN d ELSE axis_direction[e][x]
  BY <1>9 DEF TypeOK
<1>7. \A x, y : AxisKey(x, y)' = AxisKey(x, y)
  BY <1>0, Zenon DEF AxisKey
<1>8. \A e, k : AxesOn(e, k)' = {x \in Axes : axis_direction'[e][x] # 0 /\ AxisKey(x, axis_direction'[e][x]) = k}
  BY <1>0, Zenon DEF AxesOn, AxisKey
<1>3. \A e \in Controllers, k \in Keys : e # c \/ k # key => AxesOn(e, k)' = AxesOn(e, k)
  <2> SUFFICES ASSUME NEW e \in Controllers, NEW k \in Keys, e # c \/ k # key
               PROVE  AxesOn(e, k)' = AxesOn(e, k)
    OBVIOUS
  <2>1. ASSUME NEW x \in Axes
        PROVE  (axis_direction'[e][x] # 0 /\ AxisKey(x, axis_direction'[e][x]) = k)
               <=> (axis_direction[e][x] # 0 /\ AxisKey(x, axis_direction[e][x]) = k)
    <3>1. CASE e = c /\ x = a
      <4>1. axis_direction'[e][x] = d /\ axis_direction[e][x] = old /\ k # key
        BY <1>2, <1>9, <3>1
      <4>2. CASE d = 0
        BY <1>9, <3>1, <4>1, <4>2
      <4>3. CASE d # 0
        BY <1>9, <3>1, <4>1, <4>3
      <4> QED BY <4>2, <4>3
    <3>2. CASE ~(e = c /\ x = a)
      BY <1>2, <3>2
    <3> QED BY <3>1, <3>2
  <2>2. AxesOn(e, k)' = {x \in Axes : axis_direction'[e][x] # 0 /\ AxisKey(x, axis_direction'[e][x]) = k}
    BY <1>8, Zenon
  <2>3. AxesOn(e, k) = {x \in Axes : axis_direction[e][x] # 0 /\ AxisKey(x, axis_direction[e][x]) = k}
    BY Zenon DEF AxesOn
  <2> QED BY <2>1, <2>2, <2>3, Zenon
<1>5. CASE d # 0
  <2>1. a \notin AxesOn(c, key) /\ AxesOn(c, key)' = AxesOn(c, key) \cup {a}
    BY <1>0, <1>2, <1>5, <1>9 DEF AxesOn, AxisKey
  <2>2. /\ <<"axis", a>> \notin Ctl(ButtonsOn(c, key), AxesOn(c, key))
        /\ Ctl(ButtonsOn(c, key), AxesOn(c, key))' = Ctl(ButtonsOn(c, key), AxesOn(c, key)) \cup {<<"axis", a>>}
    <3>1. Ctl(ButtonsOn(c, key), AxesOn(c, key))' = Ctl(ButtonsOn(c, key), AxesOn(c, key) \cup {a})
      BY <1>1, <2>1
    <3>2. a \notin AxesOn(c, key)
      BY <2>1
    <3>3. /\ <<"axis", a>> \notin Ctl(ButtonsOn(c, key), AxesOn(c, key))
          /\ Ctl(ButtonsOn(c, key), AxesOn(c, key) \cup {a}) = Ctl(ButtonsOn(c, key), AxesOn(c, key)) \cup {<<"axis", a>>}
      BY <3>2, CtlAxis
    <3> QED BY <3>1, <3>3
  <2>3. \A e \in Controllers, k \in Keys : e # c \/ k # key => Holding(k)'[e] = Holding(k)[e]
    BY <1>1, <1>3, Zenon DEF Holding
  <2>4. key \in Keys => OneMore(Holding(key)', Holding(key), c, <<"axis", a>>)
    <3>1. /\ Holding(key)[c] = Ctl(ButtonsOn(c, key), AxesOn(c, key))
          /\ Holding(key)'[c] = Ctl(ButtonsOn(c, key), AxesOn(c, key))'
      BY Zenon DEF Holding
    <3> QED BY <2>2, <2>3, <3>1, Zenon DEF OneMore
  <2>5. \A k \in Keys : k # key => Holding(k)' = Holding(k)
    BY <1>1, <1>3, Zenon DEF Holding
  <2> QED BY <1>5, <2>4, <2>5, Zenon DEF Moves
<1>6. CASE d = 0
  <2>1. a \notin AxesOn(c, key)' /\ AxesOn(c, key) = AxesOn(c, key)' \cup {a}
    BY <1>0, <1>2, <1>6, <1>9 DEF AxesOn, AxisKey
  <2>2. /\ <<"axis", a>> \notin Ctl(ButtonsOn(c, key), AxesOn(c, key))'
        /\ Ctl(ButtonsOn(c, key), AxesOn(c, key)) = Ctl(ButtonsOn(c, key), AxesOn(c, key))' \cup {<<"axis", a>>}
    <3>1. Ctl(ButtonsOn(c, key), AxesOn(c, key)) = Ctl(ButtonsOn(c, key)', AxesOn(c, key)' \cup {a})
      BY <1>1, <2>1
    <3>2. a \notin AxesOn(c, key)'
      BY <2>1
    <3>3. /\ <<"axis", a>> \notin Ctl(ButtonsOn(c, key)', AxesOn(c, key)')
          /\ Ctl(ButtonsOn(c, key)', AxesOn(c, key)' \cup {a}) = Ctl(ButtonsOn(c, key)', AxesOn(c, key)') \cup {<<"axis", a>>}
      BY <3>2, CtlAxis
    <3> QED BY <3>1, <3>3
  <2>3. \A e \in Controllers, k \in Keys : e # c \/ k # key => Holding(k)'[e] = Holding(k)[e]
    BY <1>1, <1>3, Zenon DEF Holding
  <2>4. key \in Keys => OneMore(Holding(key), Holding(key)', c, <<"axis", a>>)
    <3>1. /\ Holding(key)[c] = Ctl(ButtonsOn(c, key), AxesOn(c, key))
          /\ Holding(key)'[c] = Ctl(ButtonsOn(c, key), AxesOn(c, key))'
      BY Zenon DEF Holding
    <3> QED BY <2>2, <2>3, <3>1, Zenon DEF OneMore
  <2>5. \A k \in Keys : k # key => Holding(k)' = Holding(k)
    BY <1>1, <1>3, Zenon DEF Holding
  <2> QED BY <1>6, <2>4, <2>5, Zenon DEF Moves
<1> QED BY <1>5, <1>6

\* Zeroed tables hold nothing.
LEMMA ZeroHolding ==
    /\ \A c, k : button_down[c] = NoButtons /\ axis_direction[c] = NoDirection
                 => ButtonsOn(c, k) = {} /\ AxesOn(c, k) = {}
    /\ \A c, k : button_down'[c] = NoButtons /\ axis_direction'[c] = NoDirection
                 => ButtonsOn(c, k)' = {} /\ AxesOn(c, k)' = {}
BY DEF ButtonsOn, AxesOn, NoButtons, NoDirection

\* release_controller lets go of what the controller holds.
LEMMA ControllerCounts ==
    ASSUME TypeOK, RefsHaveHolders, NEW c \in Controllers, ReleaseController(c),
           UNCHANGED <<keyboard_down, mapping>>
    PROVE  RefsHaveHolders'
<1>0. /\ \A k \in Keys : Counted(k)
      /\ button_down' = [button_down EXCEPT ![c] = NoButtons]
      /\ axis_direction' = [axis_direction EXCEPT ![c] = NoDirection]
      /\ ctrl_refs' = [ctrl_refs EXCEPT ![c] = NoRefs]
      /\ \A k \in Keys : key_refs'[k] = key_refs[k] - ctrl_refs[c][k]
      /\ button_map' = button_map /\ axis_negative' = axis_negative /\ axis_positive' = axis_positive
  BY CountedIs DEF ReleaseController, mapping
<1>1. \A d \in Controllers : d # c => button_down'[d] = button_down[d] /\ axis_direction'[d] = axis_direction[d]
  BY <1>0 DEF TypeOK
<1>2. button_down'[c] = NoButtons /\ axis_direction'[c] = NoDirection
  BY <1>0 DEF TypeOK
<1>3. \A d \in Controllers, k \in Keys :
         d # c => ButtonsOn(d, k)' = ButtonsOn(d, k) /\ AxesOn(d, k)' = AxesOn(d, k)
  BY <1>0, <1>1, Zenon DEF ButtonsOn, AxesOn, AxisKey
<1>4. \A d \in Controllers, k \in Keys : ctrl_refs'[d][k] = IF d = c THEN 0 ELSE ctrl_refs[d][k]
  BY <1>0 DEF TypeOK, NoRefs
<1>5. ASSUME NEW k \in Keys PROVE Counted(k)'
  <2>1. PICK H \in Tables, G \in Tables : H = Holding(k) /\ G = Holding(k)'
    BY CountedIs
  <2>2. NoneOf(G, H, c)
    <3>1. Ctl(ButtonsOn(c, k), AxesOn(c, k))' = {}
      <4>1. ButtonsOn(c, k)' = {} /\ AxesOn(c, k)' = {}
        BY <1>2, ZeroHolding
      <4>2. Ctl(ButtonsOn(c, k), AxesOn(c, k))' = Ctl({}, {})
        BY <4>1
      <4> QED BY <4>2, CtlIs
    <3>2. \A d \in Controllers : d # c =>
             Ctl(ButtonsOn(d, k), AxesOn(d, k))' = Ctl(ButtonsOn(d, k), AxesOn(d, k))
      BY <1>3, Zenon
    <3> QED BY <2>1, <3>1, <3>2, Zenon DEF NoneOf, Holding
  <2>3. Cardinality(Total(H)) = Cardinality(Total(G)) + Cardinality(H[c])
    BY <2>2, TotalDrop
  <2>4. /\ \A d \in Controllers : ctrl_refs[d][k] = Cardinality(H[d])
        /\ key_refs[k] = Cardinality(Total(H)) + Keyboard(k)
    BY <1>0, <2>1, Zenon DEF Counted
  <2>5. Cardinality(Total(G)) \in Nat /\ Cardinality(H[c]) \in Nat /\ Keyboard(k) \in Nat
    BY TotalIs, FS_CardinalityType DEF Keyboard
  <2>6. Keyboard(k)' = Keyboard(k)
    BY DEF Keyboard
  <2>7. key_refs'[k] = Cardinality(Total(G)) + Keyboard(k)'
    BY <1>0, <2>3, <2>4, <2>5, <2>6
  <2>8. G[c] = {} /\ \A d \in Controllers : d # c => G[d] = H[d]
    BY <2>2 DEF NoneOf
  <2>9. \A d \in Controllers : ctrl_refs'[d][k] = Cardinality(G[d])
    BY <1>4, <2>4, <2>8, FS_EmptySet, Zenon
  <2> QED BY <2>1, <2>7, <2>9, Zenon DEF Counted
<1> QED BY <1>5, CountedIs

\* All controllers are zeroed, and the counts are what the keyboard holds.
LEMMA ZeroCounts ==
    ASSUME ctrl_refs' = [c \in Controllers |-> NoRefs],
           button_down' = [c \in Controllers |-> NoButtons],
           axis_direction' = [c \in Controllers |-> NoDirection],
           \A k \in Keys : key_refs'[k] = Keyboard(k)'
    PROVE  RefsHaveHolders'
<1>1. ASSUME NEW k \in Keys PROVE Counted(k)'
  <2>1. \A c \in Controllers : Ctl(ButtonsOn(c, k), AxesOn(c, k))' = {}
    <3> SUFFICES ASSUME NEW c \in Controllers PROVE Ctl(ButtonsOn(c, k), AxesOn(c, k))' = {}
      OBVIOUS
    <3>1. button_down'[c] = NoButtons /\ axis_direction'[c] = NoDirection
      OBVIOUS
    <3>2. ButtonsOn(c, k)' = {} /\ AxesOn(c, k)' = {}
      BY <3>1, ZeroHolding
    <3>3. Ctl(ButtonsOn(c, k), AxesOn(c, k))' = Ctl({}, {})
      BY <3>2
    <3> QED BY <3>3, CtlIs
  <2>2. PICK G : G = Holding(k)'
    OBVIOUS
  <2>3. G = [c \in Controllers |-> {}]
    BY <2>1, <2>2, Zenon DEF Holding
  <2>4. Cardinality(Total(G)) = 0 /\ \A c \in Controllers : Cardinality(G[c]) = 0
    BY <2>3, TotalNone, FS_EmptySet
  <2>5. \A c \in Controllers : ctrl_refs'[c][k] = 0
    BY DEF NoRefs
  <2>6. key_refs'[k] = Cardinality(Total(G)) + Keyboard(k)'
    <3>1. Keyboard(k)' \in Nat
      BY DEF Keyboard
    <3> QED BY <2>4, <3>1
  <2> QED BY <2>2, <2>4, <2>5, <2>6, Zenon DEF Counted
<1> QED BY <1>1, CountedIs

\* The controllers that are not there hold nothing, and a half-done axis is
\* that of a controller that is there and in the middle.
DetachedHoldNothing ==
    \A c \in Controllers \ controllers :
        ctrl_refs[c] = NoRefs /\ button_down[c] = NoButtons /\ axis_direction[c] = NoDirection
HalfDoneAxis ==
    axis_step # NoStep => /\ axis_step.controller \in controllers
                          /\ axis_direction[axis_step.controller][axis_step.axis] = 0
HoldInv == RefsHaveHolders /\ DetachedHoldNothing /\ HalfDoneAxis

\* What the connected controllers count is all that is held.
LEMMA OwnedIsTotal ==
    ASSUME TypeOK, RefsHaveHolders, DetachedHoldNothing, NEW k \in Keys
    PROVE  Owned(k) = Cardinality(Total(Holding(k)))
<1>1. PICK H \in Tables : H = Holding(k)
  BY CountedIs
<1>2. \A c \in Controllers : ctrl_refs[c][k] = Cardinality(H[c]) /\ ctrl_refs[c][k] \in 0..MaxRefs
  BY <1>1, CountedIs DEF Counted, TypeOK
<1>3. PICK n : n = [c \in Controllers |-> ctrl_refs[c][k]]
  OBVIOUS
<1>4. /\ controllers \in SUBSET Controllers /\ MaxRefs \in Nat
      /\ \A c \in controllers : n[c] = Cardinality(H[c]) /\ n[c] \in 0..MaxRefs
  BY <1>2, <1>3, BoundsAssumption DEF TypeOK
<1>5. \A c \in Controllers \ controllers : H[c] = {}
  <2> SUFFICES ASSUME NEW c \in Controllers \ controllers PROVE H[c] = {}
    OBVIOUS
  <2>1. ButtonsOn(c, k) = {} /\ AxesOn(c, k) = {}
    BY ZeroHolding DEF DetachedHoldNothing
  <2>2. Ctl(ButtonsOn(c, k), AxesOn(c, k)) = Ctl({}, {})
    BY <2>1
  <2>3. H[c] = Ctl(ButtonsOn(c, k), AxesOn(c, k))
    BY <1>1, Zenon DEF Holding
  <2> QED BY <2>2, <2>3, CtlIs
<1>6. Cardinality(Slots(controllers, MaxRefs, n)) = Cardinality(Total(H))
  BY <1>4, <1>5, TotalSum
<1>7. {x \in controllers \X (1..MaxRefs) : x[2] <= n[x[1]]}
      = {x \in controllers \X (1..MaxRefs) : x[2] <= ctrl_refs[x[1]][k]}
  <2>1. \A x \in controllers \X (1..MaxRefs) : x[1] \in Controllers
    BY <1>4
  <2>2. \A x \in controllers \X (1..MaxRefs) : n[x[1]] = ctrl_refs[x[1]][k]
    BY <1>3, <2>1, Zenon
  <2> QED BY <2>2, Zenon
<1> QED BY <1>1, <1>6, <1>7, Zenon DEF Owned, Slots

\* The counts are right as long as nothing they depend on changes.
LEMMA CountsStay ==
    ASSUME RefsHaveHolders,
           UNCHANGED <<key_refs, keyboard_down, ctrl_refs, button_down, axis_direction>>,
           UNCHANGED <<button_map, axis_negative, axis_positive>>
    PROVE  RefsHaveHolders'
<1>1. \A k \in Keys : Holding(k)' = Holding(k)
  BY Zenon DEF Holding, ButtonsOn, AxesOn, AxisKey
<1>2. \A k \in Keys : Counted(k)'
  BY <1>1, CountSame, CountedIs
<1> QED BY <1>2, CountedIs

\* A step that touches neither what is held nor the mappings.
LEMMA HoldersStay ==
    ASSUME HoldInv, UNCHANGED <<held, controllers, mapping, axis_step>>
    PROVE  HoldInv'
<1>0. /\ UNCHANGED <<key_refs, keyboard_down, ctrl_refs, button_down, axis_direction>>
      /\ UNCHANGED <<controllers, button_map, axis_negative, axis_positive, axis_step>>
  BY DEF held, mapping
<1>1. RefsHaveHolders'
  BY <1>0, CountsStay DEF HoldInv
<1>2. DetachedHoldNothing' /\ HalfDoneAxis'
  BY <1>0, Zenon DEF HoldInv, DetachedHoldNothing, HalfDoneAxis
<1> QED BY <1>1, <1>2 DEF HoldInv

\* A key of the keyboard is one more holder, or one less.
LEMMA KeyboardHolds ==
    ASSUME TypeOK, HoldInv, NEW k \in Keys, NEW pressed \in BOOLEAN, keyboard_down[k] # pressed,
           IF pressed THEN RaiseKey(k)
           ELSE IF key_refs[k] = 0 THEN UNCHANGED <<key_refs, queue, capacity>> ELSE LowerKey(k),
           keyboard_down' = [keyboard_down EXCEPT ![k] = pressed],
           UNCHANGED <<controllers, ctrl_refs, button_down, axis_direction, mapping, axis_step>>
    PROVE  HoldInv'
<1>0. /\ \A j \in Keys : Counted(j)
      /\ UNCHANGED <<button_down, axis_direction, button_map, axis_negative, axis_positive>>
      /\ UNCHANGED <<controllers, ctrl_refs, axis_step>>
      /\ \A j \in Keys : key_refs[j] \in Nat /\ keyboard_down[j] \in BOOLEAN
  BY CountedIs DEF HoldInv, mapping, TypeOK
<1>1. \A j \in Keys : Holding(j)' = Holding(j)
  BY <1>0, Zenon DEF Holding, ButtonsOn, AxesOn, AxisKey
<1>2. \A j \in Keys : keyboard_down'[j] = IF j = k THEN pressed ELSE keyboard_down[j]
  BY DEF TypeOK
<1>3. key_refs[k] = Cardinality(Total(Holding(k))) + Keyboard(k) /\ Cardinality(Total(Holding(k))) \in Nat
  <2>1. PICK H \in Tables : H = Holding(k)
    BY CountedIs
  <2>2. Cardinality(Total(H)) \in Nat
    BY TotalIs, FS_CardinalityType
  <2> QED BY <1>0, <2>1, <2>2, Zenon DEF Counted
<1>4. /\ \A j \in Keys : j # k => key_refs'[j] = key_refs[j]
      /\ key_refs'[k] = Cardinality(Total(Holding(k))) + Keyboard(k)'
  <2>1. CASE pressed
    <3>1. key_refs' = [key_refs EXCEPT ![k] = @ + 1]
      BY <2>1 DEF RaiseKey
    <3>2. Keyboard(k) = 0 /\ Keyboard(k)' = 1
      BY <1>0, <1>2, <2>1 DEF Keyboard
    <3> QED BY <1>0, <1>3, <3>1, <3>2 DEF TypeOK
  <2>2. CASE ~pressed
    <3>1. Keyboard(k) = 1 /\ Keyboard(k)' = 0
      BY <1>0, <1>2, <2>2 DEF Keyboard
    <3>2. key_refs[k] # 0
      BY <1>3, <3>1
    <3>3. key_refs' = [key_refs EXCEPT ![k] = @ - 1]
      BY <2>2, <3>2 DEF LowerKey
    <3> QED BY <1>0, <1>3, <3>1, <3>3 DEF TypeOK
  <2> QED BY <2>1, <2>2
<1>5. \A j \in Keys : j # k => Counted(j)'
  BY <1>0, <1>1, <1>2, <1>4, CountSame
<1>6. Counted(k)'
  <2>1. \A c \in Controllers : ctrl_refs'[c][k] = Cardinality(Holding(k)[c])
    BY <1>0, Zenon DEF Counted
  <2> QED BY <1>1, <1>4, <2>1, Zenon DEF Counted
<1>7. RefsHaveHolders'
  BY <1>5, <1>6, CountedIs
<1>8. DetachedHoldNothing' /\ HalfDoneAxis'
  BY <1>0, Zenon DEF HoldInv, DetachedHoldNothing, HalfDoneAxis
<1> QED BY <1>7, <1>8 DEF HoldInv

\* change_controller_key touches the counters of one controller.
LEMMA ControllerOnly ==
    ASSUME TypeOK, NEW c \in Controllers, NEW k, NEW pressed, ChangeControllerKey(c, k, pressed)
    PROVE  \A d \in Controllers : d # c => ctrl_refs'[d] = ctrl_refs[d]
BY DEF ChangeControllerKey, TypeOK

\* A button goes down or up.
LEMMA ButtonHolds ==
    ASSUME TypeOK, HoldInv, axis_step = NoStep, NEW c \in controllers, NEW b \in Buttons, NEW pressed \in BOOLEAN,
           ButtonTurns(c, b, pressed), ChangeControllerKey(c, button_map[b], pressed),
           UNCHANGED <<keyboard_down, controllers, axis_direction, mapping, axis_step>>
    PROVE  HoldInv'
<1>0. c \in Controllers /\ button_map[b] \in Scancodes /\ RefsHaveHolders /\ DetachedHoldNothing
  BY DEF TypeOK, HoldInv
<1>1. PICK key \in Scancodes : key = button_map[b]
  BY <1>0
<1>2. Moves(c, <<"button", b>>, key, pressed)
  <2>1. UNCHANGED <<axis_direction, mapping>>
    OBVIOUS
  <2> QED BY <1>0, <1>1, <2>1, ButtonHolding, Zenon
<1>3. ChangeControllerKey(c, key, pressed)
  BY <1>1
<1>4. RefsHaveHolders'
  BY <1>0, <1>2, <1>3, ControlCounts, Zenon
<1>5. /\ \A d \in Controllers : d # c => ctrl_refs'[d] = ctrl_refs[d]
      /\ \A d \in Controllers : d # c => button_down'[d] = button_down[d]
  BY <1>0, <1>3, ControllerOnly DEF TypeOK, ButtonTurns
<1>6. DetachedHoldNothing' /\ HalfDoneAxis'
  BY <1>0, <1>5 DEF DetachedHoldNothing, HalfDoneAxis
<1> QED BY <1>4, <1>6 DEF HoldInv

\* An axis comes back to the middle, or leaves it.
LEMMA AxisHolds ==
    ASSUME TypeOK, HoldInv, NEW c \in controllers, NEW a \in Axes, NEW d \in Directions,
           NEW old, AxisTurns(c, a, old, d), NEW key, key = AxisKeyOf(a, old, d),
           ChangeControllerKey(c, key, d # 0),
           UNCHANGED <<keyboard_down, controllers, button_down, mapping>>
    PROVE  RefsHaveHolders' /\ DetachedHoldNothing'
<1>0. c \in Controllers /\ key \in Scancodes /\ RefsHaveHolders /\ DetachedHoldNothing
  BY DEF TypeOK, HoldInv, AxisKey, AxisKeyOf
<1>2. Moves(c, <<"axis", a>>, key, d # 0)
  <2>1. UNCHANGED <<button_down, mapping>>
    OBVIOUS
  <2> QED BY <1>0, <2>1, AxisHolding, Zenon
<1>4. RefsHaveHolders'
  BY <1>0, <1>2, ControlCounts, Zenon
<1>5. /\ \A e \in Controllers : e # c => ctrl_refs'[e] = ctrl_refs[e]
      /\ \A e \in Controllers : e # c => axis_direction'[e] = axis_direction[e]
  BY <1>0, ControllerOnly DEF TypeOK, AxisTurns
<1>6. DetachedHoldNothing'
  BY <1>0, <1>5 DEF DetachedHoldNothing
<1> QED BY <1>4, <1>6

\* The first half of handle_axis.
LEMMA HandleAxisHolds ==
    ASSUME TypeOK, HoldInv, NEW c \in Controllers, NEW a \in Axes, NEW zone, HandleAxis(c, a, zone)
    PROVE  HoldInv'
<1> DEFINE old == axis_direction[c][a]
           new == NewDirection(old, zone)
<1>0. old \in Directions /\ new \in Directions /\ axis_step = NoStep
  BY NewDirectionType DEF TypeOK, HandleAxis, Ready
<1>1. CASE Unchanged
  BY <1>1, HoldersStay DEF Unchanged
<1>2. CASE /\ c \in controllers /\ new # old
           /\ IF old = 0
                 THEN UNCHANGED <<key_refs, ctrl_refs, queue, capacity>>
                 ELSE ChangeControllerKey(c, AxisKey(a, old), FALSE)
           /\ axis_direction' = [axis_direction EXCEPT ![c][a] = 0]
           /\ axis_step' = IF new = 0 THEN NoStep
                           ELSE [controller |-> c, axis |-> a, direction |-> new]
           /\ UNCHANGED <<alive, keyboard_down, controllers, button_down, mapping, polled>>
  <2>1. axis_direction'[c][a] = 0
    BY <1>2 DEF TypeOK
  <2>2. HalfDoneAxis'
    <3> HIDE DEF new, old
    <3> QED BY <1>2, <2>1 DEF HalfDoneAxis
  <2>3. RefsHaveHolders' /\ DetachedHoldNothing'
    <3>1. CASE old = 0
      <4>1. axis_direction' = axis_direction
        BY <1>2, <3>1 DEF TypeOK
      <4>2. /\ UNCHANGED <<key_refs, keyboard_down, ctrl_refs, button_down, axis_direction>>
            /\ UNCHANGED <<controllers, button_map, axis_negative, axis_positive>>
        BY <1>2, <3>1, <4>1 DEF mapping
      <4>3. RefsHaveHolders'
        BY <4>2, CountsStay DEF HoldInv
      <4>4. DetachedHoldNothing'
        BY <4>2, Zenon DEF HoldInv, DetachedHoldNothing
      <4> QED BY <4>3, <4>4
    <3>2. CASE old # 0
      <4>1. PICK key, o, d : key = AxisKey(a, old) /\ o = axis_direction[c][a] /\ d = 0 /\ d \in Directions
        BY DEF Directions
      <4>2. ChangeControllerKey(c, key, d # 0) /\ key = AxisKeyOf(a, o, d)
        BY <1>2, <3>2, <4>1 DEF AxisKeyOf
      <4>3. AxisTurns(c, a, o, d)
        BY <1>2, <3>2, <4>1 DEF AxisTurns
      <4> HIDE DEF new, old
      <4>4. UNCHANGED <<keyboard_down, controllers, button_down, mapping>> /\ c \in controllers
        BY <1>2
      <4> QED BY <4>1, <4>2, <4>3, <4>4, AxisHolds, Zenon
    <3> QED BY <3>1, <3>2
  <2> QED BY <2>2, <2>3 DEF HoldInv
<1> QED BY <1>1, <1>2 DEF HandleAxis

\* The second half.
LEMMA FinishAxisHolds ==
    ASSUME TypeOK, HoldInv, FinishAxis
    PROVE  HoldInv'
<1>1. PICK c \in Controllers, a \in Axes, d \in {-1, 1} :
          c = axis_step.controller /\ a = axis_step.axis /\ d = axis_step.direction
  BY DEF TypeOK, FinishAxis, Steps
<1>2. /\ axis_step' = NoStep /\ UNCHANGED <<controllers, mapping>>
      /\ c \in controllers /\ axis_direction[c][a] = 0
  BY <1>1 DEF FinishAxis, HoldInv, HalfDoneAxis
<1>3. HalfDoneAxis'
  BY <1>2 DEF HalfDoneAxis
<1>4. CASE UNCHANGED <<held, queue, capacity>>
  <2>1. /\ UNCHANGED <<key_refs, keyboard_down, ctrl_refs, button_down, axis_direction>>
        /\ UNCHANGED <<controllers, button_map, axis_negative, axis_positive>>
    BY <1>2, <1>4 DEF held, mapping
  <2>2. RefsHaveHolders'
    BY <2>1, CountsStay DEF HoldInv
  <2>3. DetachedHoldNothing'
    BY <2>1, Zenon DEF HoldInv, DetachedHoldNothing
  <2> QED BY <1>3, <2>2, <2>3 DEF HoldInv
<1>5. CASE /\ ChangeControllerKey(c, AxisKey(a, d), TRUE)
           /\ axis_direction' = [axis_direction EXCEPT ![c][a] = d]
           /\ UNCHANGED <<keyboard_down, button_down>>
  <2>1. PICK key, old : key = AxisKey(a, d) /\ old = axis_direction[c][a]
    OBVIOUS
  <2>2. d \in Directions /\ d # 0 /\ key = AxisKeyOf(a, old, d) /\ AxisTurns(c, a, old, d)
    BY <1>2, <1>5, <2>1 DEF Directions, AxisKeyOf, AxisTurns
  <2>3. ChangeControllerKey(c, key, d # 0) /\ UNCHANGED <<keyboard_down, controllers, button_down, mapping>>
    BY <1>2, <1>5, <2>1, <2>2
  <2>4. RefsHaveHolders' /\ DetachedHoldNothing'
    BY <1>2, <2>2, <2>3, AxisHolds, Zenon
  <2> QED BY <1>3, <2>4 DEF HoldInv
<1> QED BY <1>1, <1>4, <1>5 DEF FinishAxis

\* A controller is plugged in: its tables were zero already.
LEMMA AddHolds ==
    ASSUME TypeOK, HoldInv, NEW c \in Controllers, AddController(c)
    PROVE  HoldInv'
<1>1. CASE Unchanged
  BY <1>1, HoldersStay DEF Unchanged
<1>2. CASE /\ c \notin controllers
           /\ controllers' = controllers \cup {c}
           /\ ctrl_refs' = [ctrl_refs EXCEPT ![c] = NoRefs]
           /\ button_down' = [button_down EXCEPT ![c] = NoButtons]
           /\ axis_direction' = [axis_direction EXCEPT ![c] = NoDirection]
           /\ UNCHANGED <<alive, key_refs, keyboard_down, mapping, queue, capacity, axis_step, polled>>
  <2>1. ctrl_refs[c] = NoRefs /\ button_down[c] = NoButtons /\ axis_direction[c] = NoDirection
    BY <1>2 DEF HoldInv, DetachedHoldNothing
  <2>2. ctrl_refs' = ctrl_refs /\ button_down' = button_down /\ axis_direction' = axis_direction
    BY <1>2, <2>1 DEF TypeOK
  <2>3. RefsHaveHolders'
    BY <1>2, <2>2, CountsStay DEF HoldInv, mapping
  <2>4. DetachedHoldNothing' /\ HalfDoneAxis'
    BY <1>2, <2>2 DEF HoldInv, DetachedHoldNothing, HalfDoneAxis
  <2> QED BY <2>3, <2>4 DEF HoldInv
<1> QED BY <1>1, <1>2 DEF AddController

\* A controller is unplugged.
LEMMA RemoveHolds ==
    ASSUME TypeOK, HoldInv, NEW c \in Controllers, RemoveController(c)
    PROVE  HoldInv'
<1>1. CASE Unchanged
  BY <1>1, HoldersStay DEF Unchanged
<1>2. CASE /\ ReleaseController(c)
           /\ controllers' = controllers \ {c}
           /\ UNCHANGED <<alive, keyboard_down, mapping, axis_step, polled>>
  <2>1. RefsHaveHolders'
    BY <1>2, ControllerCounts DEF HoldInv
  <2>2. DetachedHoldNothing'
    <3>1. \A d \in Controllers : d # c => /\ ctrl_refs'[d] = ctrl_refs[d] /\ button_down'[d] = button_down[d]
                                          /\ axis_direction'[d] = axis_direction[d]
      BY <1>2 DEF ReleaseController, TypeOK
    <3>2. ctrl_refs'[c] = NoRefs /\ button_down'[c] = NoButtons /\ axis_direction'[c] = NoDirection
      BY <1>2 DEF ReleaseController, TypeOK
    <3> QED BY <1>2, <3>1, <3>2 DEF HoldInv, DetachedHoldNothing
  <2>3. HalfDoneAxis'
    BY <1>2 DEF HalfDoneAxis, RemoveController, Ready
  <2> QED BY <2>1, <2>2, <2>3 DEF HoldInv
<1> QED BY <1>1, <1>2 DEF RemoveController

\* Everything is zeroed: release_all, create and destroy.
LEMMA ZeroHolds ==
    ASSUME axis_step' = NoStep,
           key_refs' = NoRefs, keyboard_down' = [k \in Keys |-> FALSE],
           ctrl_refs' = [c \in Controllers |-> NoRefs],
           button_down' = [c \in Controllers |-> NoButtons],
           axis_direction' = [c \in Controllers |-> NoDirection]
    PROVE  HoldInv'
<1>1. \A k \in Keys : key_refs'[k] = Keyboard(k)'
  BY DEF NoRefs, Keyboard
<1>2. RefsHaveHolders'
  BY <1>1, ZeroCounts
<1>3. DetachedHoldNothing' /\ HalfDoneAxis'
  BY DEF DetachedHoldNothing, HalfDoneAxis
<1> QED BY <1>2, <1>3 DEF HoldInv

\* The controls are remapped, after all of them were let go.
LEMMA RemapHolds ==
    ASSUME TypeOK, HoldInv, ReleaseControllerInputs, axis_step = NoStep,
           UNCHANGED <<keyboard_down, controllers, axis_step>>
    PROVE  HoldInv'
<1>0. /\ ctrl_refs' = [c \in Controllers |-> NoRefs]
      /\ button_down' = [c \in Controllers |-> NoButtons]
      /\ axis_direction' = [c \in Controllers |-> NoDirection]
      /\ key_refs' = [k \in Keys |-> key_refs[k] - Owned(k)]
  BY DEF ReleaseControllerInputs
<1>1. ASSUME NEW k \in Keys PROVE key_refs'[k] = Keyboard(k)'
  <2>1. Owned(k) = Cardinality(Total(Holding(k))) /\ Owned(k) \in Nat
    BY OwnedIsTotal, OwnedIsNat DEF HoldInv
  <2>2. key_refs[k] = Owned(k) + Keyboard(k)
    <3>1. Counted(k)
      BY CountedIs DEF HoldInv
    <3> QED BY <2>1, <3>1, Zenon DEF Counted
  <2>3. Keyboard(k)' = Keyboard(k) /\ Keyboard(k) \in Nat
    BY DEF Keyboard
  <2>4. key_refs'[k] = key_refs[k] - Owned(k)
    BY <1>0
  <2> QED BY <2>1, <2>2, <2>3, <2>4
<1>2. RefsHaveHolders'
  BY <1>0, <1>1, ZeroCounts
<1>3. DetachedHoldNothing' /\ HalfDoneAxis'
  BY <1>0 DEF DetachedHoldNothing, HalfDoneAxis
<1> QED BY <1>2, <1>3 DEF HoldInv

\* Nobody holds anything at the start.
LEMMA InitHolds == Init => HoldInv
<1> SUFFICES ASSUME Init PROVE HoldInv
  OBVIOUS
<1>1. DetachedHoldNothing /\ HalfDoneAxis
  BY DEF DetachedHoldNothing, HalfDoneAxis, Init
<1>2. ASSUME NEW k \in Keys PROVE Counted(k)
  <2>1. \A c \in Controllers : Ctl(ButtonsOn(c, k), AxesOn(c, k)) = {}
    <3> SUFFICES ASSUME NEW c \in Controllers PROVE Ctl(ButtonsOn(c, k), AxesOn(c, k)) = {}
      OBVIOUS
    <3>1. button_down[c] = NoButtons /\ axis_direction[c] = NoDirection
      BY DEF Init
    <3>2. ButtonsOn(c, k) = {} /\ AxesOn(c, k) = {}
      BY <3>1, ZeroHolding
    <3>3. Ctl(ButtonsOn(c, k), AxesOn(c, k)) = Ctl({}, {})
      BY <3>2
    <3> QED BY <3>3, CtlIs
  <2>2. PICK G : G = Holding(k)
    OBVIOUS
  <2>3. G = [c \in Controllers |-> {}]
    BY <2>1, <2>2, Zenon DEF Holding
  <2>4. Cardinality(Total(G)) = 0 /\ \A c \in Controllers : Cardinality(G[c]) = 0
    BY <2>3, TotalNone, FS_EmptySet
  <2>5. /\ \A c \in Controllers : ctrl_refs[c][k] = 0
        /\ key_refs[k] = 0 /\ keyboard_down[k] = FALSE
    BY DEF Init, NoRefs
  <2>6. key_refs[k] = Cardinality(Total(G)) + Keyboard(k)
    BY <2>4, <2>5 DEF Keyboard
  <2> QED BY <2>2, <2>4, <2>5, <2>6, Zenon DEF Counted
<1>3. RefsHaveHolders
  BY <1>2, CountedIs
<1> QED BY <1>1, <1>3 DEF HoldInv

\* Every handler keeps the counts right.
LEMMA HoldNext ==
    ASSUME IInv, StepAlive, HoldInv, [Next]_vars
    PROVE  HoldInv'
<1>0. TypeOK
  BY DEF IInv
<1>1. ASSUME NEW k \in Keys, NEW pressed \in BOOLEAN, NEW repeat \in BOOLEAN,
             HandleKeyboard(k, pressed, repeat)
      PROVE  HoldInv'
  <2>1. CASE Unchanged
    BY <2>1, HoldersStay DEF Unchanged
  <2>2. CASE ~Unchanged
    <3>1. /\ keyboard_down[k] # pressed
          /\ IF pressed THEN RaiseKey(k)
             ELSE IF key_refs[k] = 0 THEN UNCHANGED <<key_refs, queue, capacity>> ELSE LowerKey(k)
          /\ keyboard_down' = [keyboard_down EXCEPT ![k] = pressed]
          /\ UNCHANGED <<controllers, ctrl_refs, button_down, axis_direction, mapping, axis_step>>
      BY <1>1, <2>2 DEF HandleKeyboard
    <3> QED BY <1>0, <3>1, KeyboardHolds
  <2> QED BY <2>1, <2>2
<1>2. ASSUME NEW c \in Controllers, NEW b \in Buttons, NEW pressed \in BOOLEAN,
             HandleButton(c, b, pressed)
      PROVE  HoldInv'
  <2>1. CASE Unchanged
    BY <2>1, HoldersStay DEF Unchanged
  <2>2. CASE ~Unchanged
    <3>1. /\ c \in controllers /\ ButtonTurns(c, b, pressed) /\ axis_step = NoStep
          /\ ChangeControllerKey(c, button_map[b], pressed)
          /\ UNCHANGED <<keyboard_down, controllers, axis_direction, mapping, axis_step>>
      BY <1>2, <2>2 DEF HandleButton, ButtonTurns, Ready
    <3> QED BY <1>0, <3>1, ButtonHolds
  <2> QED BY <2>1, <2>2
<1>3. ASSUME NEW c \in Controllers, NEW a \in Axes, NEW zone \in Zones, HandleAxis(c, a, zone)
      PROVE  HoldInv'
  BY <1>0, <1>3, HandleAxisHolds
<1>4. CASE FinishAxis
  BY <1>0, <1>4, FinishAxisHolds
<1>5. ASSUME NEW c \in Controllers, AddController(c) \/ RemoveController(c)
      PROVE  HoldInv'
  BY <1>0, <1>5, AddHolds, RemoveHolds
<1>6. CASE ReleaseAll
  <2>1. CASE Unchanged
    BY <2>1, HoldersStay DEF Unchanged
  <2>2. CASE ~Unchanged
    BY <1>6, <2>2, ZeroHolds DEF ReleaseAll, Ready
  <2> QED BY <2>1, <2>2
<1>7. ASSUME NEW b \in Buttons, NEW k \in Remaps, MapButton(b, k)
      PROVE  HoldInv'
  <2>1. CASE Unchanged
    BY <2>1, HoldersStay DEF Unchanged
  <2>2. CASE ~Unchanged
    BY <1>0, <1>7, <2>2, RemapHolds DEF MapButton, Ready
  <2> QED BY <2>1, <2>2
<1>8. ASSUME NEW a \in Axes, NEW n \in Remaps, NEW p \in Remaps, MapAxis(a, n, p)
      PROVE  HoldInv'
  <2>1. CASE Unchanged
    BY <2>1, HoldersStay DEF Unchanged
  <2>2. CASE ~Unchanged
    BY <1>0, <1>8, <2>2, RemapHolds DEF MapAxis, Ready
  <2> QED BY <2>1, <2>2
<1>9. CASE InvalidCall
  BY <1>9, HoldersStay DEF InvalidCall, Unchanged
<1>10. CASE Poll
  BY <1>10, HoldersStay DEF Poll
<1>11. ASSUME NEW plugged \in SUBSET Controllers, Create(plugged)
       PROVE  HoldInv'
  BY <1>11, ZeroHolds DEF Create, StepAlive
<1>12. CASE Destroy
  BY <1>12, ZeroHolds DEF Destroy, Ready
<1>13. CASE UNCHANGED vars
  BY <1>13, HoldersStay DEF vars
<1> QED BY <1>1, <1>2, <1>3, <1>4, <1>5, <1>6, <1>7, <1>8, <1>9, <1>10, <1>11,
           <1>12, <1>13 DEF Next

\* Every reference has a holder: each count of change_controller_key is the
\* number of held controls that map to the key, and the global count is what
\* all controllers and the keyboard hold, for any number of them.
THEOREM EveryReferenceHasAHolder == Spec => []RefsHaveHolders
<1>1. Spec => [](IInv /\ StepAlive)
  BY Invariance
<1>2. Init => HoldInv
  BY InitHolds
<1>3. IInv /\ StepAlive /\ HoldInv /\ [Next]_vars => HoldInv'
  BY HoldNext
<1>4. HoldInv => RefsHaveHolders
  BY DEF HoldInv
<1> QED BY <1>1, <1>2, <1>3, <1>4, PTL DEF Spec
=============================================================================
