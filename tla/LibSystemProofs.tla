-------------------------- MODULE LibSystemProofs ---------------------------
(***************************************************************************)
(* What guest threads may rely on, for any number of threads, stacks and   *)
(* references: each component alone, and the four together.                *)
(***************************************************************************)
EXTENDS LibSystem, FiniteSetTheorems, TLAPS

-----------------------------------------------------------------------------
(* _tlv_bootstrap.                                                         *)

TlvShape ==
    /\ keys \in Nat /\ key \in Nat
    /\ tlv_mutex \in Threads \cup {NoThread}
    /\ tlv_pc \in [Threads -> {"idle", "lock", "recheck", "create", "store",
                               "unlock", "read", "get"}]
    /\ local \in [Threads -> Nat]
    /\ returned \in [Threads -> SUBSET Nat]

\* The second look and what follows it are made under the mutex; whoever is
\* about to make a key knows that there is none, and whoever is past the
\* mutex knows that there is one.
KeyKnown(t) ==
    /\ tlv_pc[t] \in {"recheck", "create", "store", "unlock"} => tlv_mutex = t
    /\ tlv_pc[t] \in {"create", "store"} => key = 0
    /\ tlv_pc[t] = "store" => local[t] # 0
    /\ tlv_pc[t] \in {"unlock", "read"} => key # 0
    /\ tlv_pc[t] = "get" => local[t] = key /\ key # 0

\* A key that has been stored is never replaced, so all blocks are of that key.
BlocksOfTheKey(t) == returned[t] \subseteq {key} /\ (returned[t] # {} => key # 0)

TlvInv == TlvShape /\ \A t \in Threads : KeyKnown(t) /\ BlocksOfTheKey(t)

\* A step of one thread keeps what the others know.
LEMMA TlvStep == TlvInv /\ [TlvNext]_tlvVars => TlvInv'
<1> SUFFICES ASSUME TlvInv, [TlvNext]_tlvVars PROVE TlvInv'
  OBVIOUS
<1> USE DEF TlvInv, TlvShape, KeyKnown, BlocksOfTheKey, TlvGoto
<1>1. ASSUME NEW t \in Threads, Access(t) PROVE TlvInv'
  BY <1>1 DEF Access
<1>2. ASSUME NEW t \in Threads, TlvLock(t) PROVE TlvInv'
  BY <1>2, ThreadsAssumption DEF TlvLock
<1>3. ASSUME NEW t \in Threads, Recheck(t) PROVE TlvInv'
  BY <1>3 DEF Recheck
<1>4. ASSUME NEW t \in Threads, CreateKey(t) PROVE TlvInv'
  BY <1>4 DEF CreateKey
<1>5. ASSUME NEW t \in Threads, StoreKey(t) PROVE TlvInv'
  BY <1>5 DEF StoreKey
<1>6. ASSUME NEW t \in Threads, TlvUnlock(t) PROVE TlvInv'
  BY <1>6 DEF TlvUnlock
<1>7. ASSUME NEW t \in Threads, ReadKey(t) PROVE TlvInv'
  BY <1>7 DEF ReadKey
<1>8. ASSUME NEW t \in Threads, GetBlock(t) PROVE TlvInv'
  BY <1>8 DEF GetBlock
<1>9. ASSUME NEW t \in Threads, ThreadEnds(t) PROVE TlvInv'
  BY <1>9 DEF ThreadEnds
<1>10. CASE UNCHANGED tlvVars
  BY <1>10 DEF tlvVars
<1> QED
  BY <1>1, <1>2, <1>3, <1>4, <1>5, <1>6, <1>7, <1>8, <1>9, <1>10 DEF TlvNext

\* A set of blocks of one key has at most one member.
LEMMA OneBlock == TlvInv => StableStorage
<1> SUFFICES ASSUME TlvInv, NEW t \in Threads PROVE Cardinality(returned[t]) <= 1
  BY DEF StableStorage
<1>1. returned[t] = {} \/ returned[t] = {key}
  BY DEF TlvInv, BlocksOfTheKey
<1>2. Cardinality({}) = 0 /\ Cardinality({key}) = 1
  BY FS_EmptySet, FS_Singleton
<1> QED
  BY <1>1, <1>2

\* Double-checked locking in _tlv_bootstrap: a thread is given the same block
\* of a thread-local variable every time, whichever threads make the first
\* access together.
THEOREM TlvStable == TlvSpec => []StableStorage
<1>1. TlvInit => TlvInv
  BY DEF TlvInit, TlvInv, TlvShape, KeyKnown, BlocksOfTheKey
<1> QED
  BY <1>1, TlvStep, OneBlock, PTL DEF TlvSpec

-----------------------------------------------------------------------------
(* Guest threads.                                                          *)

\* A thread that has not finished starting has a creator.
HasCreator(t) == pc[t] \in {"copy", "setup", "clear"} => creator[t] \in Slots

\* A thread that is anything but gone has a stack, and a stack that was given
\* to a thread is mapped, also where the thread itself could not be started.
StackIsMapped(t) ==
    /\ pc[t] \notin {"none", "detach"} => stack[t] # NoStack
    /\ stack[t] # NoStack => stack[t] \in mapped

ThreadInv ==
    /\ ThreadTypeOK /\ ArgsOutliveTheirUse /\ OwnMappedStack
    /\ \A t \in Slots : HasCreator(t) /\ StackIsMapped(t)

\* No slot of a thread is the null pointer.
LEMMA NoThreadIsNoSlot == NoThread \notin Slots /\ Main \in Slots
  BY ThreadsAssumption, StacksAssumption DEF Slots

\* Steps of creating, starting and ending threads keep the frames and the
\* stacks apart.
LEMMA ThreadStep == ThreadInv /\ [ThreadNext]_threadVars => ThreadInv'
<1> SUFFICES ASSUME ThreadInv, [ThreadNext]_threadVars PROVE ThreadInv'
  OBVIOUS
<1> USE NoThreadIsNoSlot DEF ThreadInv, ThreadTypeOK, ArgsOutliveTheirUse, OwnMappedStack,
        HasCreator, StackIsMapped, PCs, Goto
<1>1. ASSUME NEW t \in Slots, NEW child \in Slots, NEW s \in Stacks, Create(t, child, s)
      PROVE  ThreadInv'
  <2>1. t # child /\ s # NoStack /\ pc[t] = "run" /\ pc[child] = "none" /\ s \notin mapped
    BY <1>1, StacksAssumption DEF Create
  <2>2. ThreadTypeOK'
    BY <1>1 DEF Create
  <2>3. ArgsOutliveTheirUse' /\ \A u \in Slots : HasCreator(u)'
    BY <1>1, <2>1 DEF Create
  <2>4. OwnMappedStack' /\ \A u \in Slots : StackIsMapped(u)'
    BY <1>1, <2>1 DEF Create
  <2> QED BY <2>2, <2>3, <2>4
<1>2. ASSUME NEW t \in Slots, Spin(t) PROVE ThreadInv'
  BY <1>2 DEF Spin
<1>3. ASSUME NEW t \in Slots, Copy(t) PROVE ThreadInv'
  BY <1>3 DEF Copy
<1>4. ASSUME NEW t \in Slots, Setup(t) PROVE ThreadInv'
  BY <1>4 DEF Setup
<1>5. ASSUME NEW t \in Slots, Clear(t) PROVE ThreadInv'
  BY <1>5 DEF Clear
<1>6. ASSUME NEW t \in Slots, Terminate(t) PROVE ThreadInv'
  BY <1>6 DEF Terminate
<1>7. ASSUME NEW t \in Slots, Unmap(t) PROVE ThreadInv'
  BY <1>7 DEF Unmap
<1>8. ASSUME NEW t \in Slots, Detach(t) PROVE ThreadInv'
  BY <1>8 DEF Detach
<1>9. CASE UNCHANGED threadVars
  BY <1>9 DEF threadVars
<1> QED
  BY <1>1, <1>2, <1>3, <1>4, <1>5, <1>6, <1>7, <1>8, <1>9 DEF ThreadNext, Entry, Exit

\* The handshake of __darling_thread_create and darling_thread_entry: a child
\* reads its arguments only while its creator's frame holds them, and guest
\* code runs on a mapped stack of its own, also after failed creations and
\* when addresses are used again.
THEOREM ThreadsStartOnTheirOwn == ThreadSpec => []StartsOnItsOwn
<1>1. ThreadInit => ThreadInv
  BY NoThreadIsNoSlot, StacksAssumption
     DEF ThreadInit, ThreadInv, ThreadTypeOK, ArgsOutliveTheirUse, OwnMappedStack,
         HasCreator, StackIsMapped, PCs
<1>2. ThreadInv => StartsOnItsOwn
  BY DEF ThreadInv, StartsOnItsOwn
<1> QED
  BY <1>1, <1>2, ThreadStep, PTL DEF ThreadSpec

-----------------------------------------------------------------------------
(* dispatch_once.                                                          *)

Runs(t) == dispatch_pc[t] = "block"

OnceInv ==
    /\ predicate \in {0, 1, -1} /\ runs \in Nat
    /\ dispatch_pc \in [Threads -> {"idle", "block", "spin", "sub", "sem_wait", "sem_timed"}]
    /\ runs = IF predicate = -1 THEN 1 ELSE 0
    /\ \A t, u \in Threads : Runs(t) /\ Runs(u) => t = u
    /\ predicate = 1 <=> \E t \in Threads : Runs(t)

\* Only the calls of dispatch_once change who runs the block.
LEMMA OnceStep == OnceInv /\ [DispatchNext]_dispatchVars => OnceInv'
<1> SUFFICES ASSUME OnceInv, [DispatchNext]_dispatchVars PROVE OnceInv'
  OBVIOUS
<1> USE DEF OnceInv, Runs, DispatchGoto, once, object, MayUse
<1>1. ASSUME NEW t \in Threads, Once(t) PROVE OnceInv'
  BY <1>1 DEF Once
<1>2. ASSUME NEW t \in Threads, RunBlock(t) PROVE OnceInv'
  BY <1>2 DEF RunBlock
<1>3. ASSUME NEW t \in Threads, OnceSpin(t) PROVE OnceInv'
  BY <1>3 DEF OnceSpin
<1>4. ASSUME NEW t \in Threads, NEW o \in Objects, Retain(t, o) PROVE OnceInv'
  BY <1>4 DEF Retain
<1>5. ASSUME NEW t \in Threads, NEW o \in Objects, ReleaseCheck(t, o) PROVE OnceInv'
  BY <1>5 DEF ReleaseCheck
<1>6. ASSUME NEW t \in Threads, NEW u \in Threads, Share(t, u) PROVE OnceInv'
  BY <1>6 DEF Share
<1>7. ASSUME NEW t \in Threads, ReleaseSub(t) PROVE OnceInv'
  BY <1>7 DEF ReleaseSub
<1>8. ASSUME NEW t \in Threads, SemSignal(t) PROVE OnceInv'
  BY <1>8 DEF SemSignal
<1>9. ASSUME NEW t \in Threads, SemTake(t) PROVE OnceInv'
  BY <1>9 DEF SemTake
<1>10. ASSUME NEW t \in Threads, SemTimeout(t) PROVE OnceInv'
  BY <1>10 DEF SemTimeout
<1>11. ASSUME NEW t \in Threads, NEW forever \in BOOLEAN, SemWait(t, forever) PROVE OnceInv'
  BY <1>11 DEF SemWait
<1>12. CASE UNCHANGED dispatchVars
  BY <1>12 DEF dispatchVars
<1> QED
  BY <1>1, <1>2, <1>3, <1>4, <1>5, <1>6, <1>7, <1>8, <1>9, <1>10, <1>11, <1>12
     DEF DispatchNext, DispatchStep

\* The threads that run the block, counted.
LEMMA OneRunner == OnceInv => OnceRunsOnce
<1> SUFFICES ASSUME OnceInv PROVE OnceRunsOnce
  OBVIOUS
<1> DEFINE runners == {t \in Threads : dispatch_pc[t] = "block"}
<1>1. runs <= 1 /\ (predicate = -1 <=> runs = 1)
  BY DEF OnceInv
<1>2. Cardinality(runners) = IF predicate = 1 THEN 1 ELSE 0
  <2>1. CASE predicate = 1
    <3>1. PICK t \in Threads : Runs(t)
      BY <2>1 DEF OnceInv
    <3>2. runners = {t}
      BY <3>1 DEF OnceInv, Runs
    <3> HIDE DEF runners
    <3> QED BY <2>1, <3>2, FS_Singleton
  <2>2. CASE predicate # 1
    <3>1. runners = {}
      BY <2>2 DEF OnceInv, Runs
    <3> HIDE DEF runners
    <3> QED BY <2>2, <3>1, FS_EmptySet
  <2> QED BY <2>1, <2>2
<1> QED BY <1>1, <1>2 DEF OnceRunsOnce

\* The compare-and-swap of dispatch_once: the block runs once, in one thread,
\* and the word says so only afterwards.
THEOREM BlockRunsOnce == DispatchSpec => []OnceRunsOnce
<1>1. DispatchInit => OnceInv
  BY DEF DispatchInit, OnceInv, Runs
<1> QED
  BY <1>1, OnceStep, OneRunner, PTL DEF DispatchSpec

-----------------------------------------------------------------------------
(* dispatch_retain and dispatch_release.                                   *)

GivesBack(t) == dispatch_pc[t] = "sub" /\ target[t] = "semaphore"

\* The references to the semaphore, one by one: those a thread owns, numbered
\* from 1, and as number 0 the one it is giving back.
Refs == {r \in Threads \X (0..MaxKept) :
            IF r[2] = 0 THEN GivesBack(r[1]) ELSE r[2] <= kept[r[1]]}

CountShape ==
    /\ refcount \in [Objects -> Int]
    /\ freed \in [Objects -> BOOLEAN]
    /\ dispatch_pc \in [Threads -> {"idle", "block", "spin", "sub", "sem_wait", "sem_timed"}]
    /\ target \in [Threads -> Objects]
    /\ kept \in [Threads -> 0..MaxKept]

\* The count never falls behind the references; a global queue's count never
\* gets below the threshold, so nobody ever decrements it.
CountInv ==
    /\ CountShape
    /\ IsFiniteSet(Refs) /\ Cardinality(Refs) <= refcount["semaphore"]
    /\ freed["semaphore"] => Refs = {}
    /\ refcount["global"] >= Immortal /\ ~freed["global"]
    /\ \A t \in Threads : dispatch_pc[t] = "sub" => target[t] = "semaphore"

\* dispatch_retain adds one reference.
LEMMA RetainAdds ==
    ASSUME CountInv, NEW t \in Threads, Retain(t, "semaphore")
    PROVE  IsFiniteSet(Refs') /\ Cardinality(Refs') = Cardinality(Refs) + 1
<1> DEFINE r == <<t, kept[t] + 1>>
<1>1. kept[t] \in 0..MaxKept /\ kept[t] < MaxKept /\ kept' = [kept EXCEPT ![t] = @ + 1]
      /\ UNCHANGED <<dispatch_pc, target>>
  BY DEF Retain, CountInv, CountShape
<1>2. r \notin Refs
  BY <1>1 DEF Refs
<1>3. Refs' = Refs \cup {r}
  BY <1>1, DispatchAssumption DEF Refs, GivesBack, CountInv, CountShape
<1> HIDE DEF r
<1> QED BY <1>2, <1>3, FS_AddElement DEF CountInv

\* A reference that changes hands is still one reference.
LEMMA ShareKeeps ==
    ASSUME CountInv, NEW t \in Threads, NEW u \in Threads, Share(t, u)
    PROVE  IsFiniteSet(Refs') /\ Cardinality(Refs') = Cardinality(Refs)
<1> DEFINE given == <<t, kept[t]>>
           taken == <<u, kept[u] + 1>>
<1>1. /\ t # u /\ kept[t] \in 1..MaxKept /\ kept[u] \in 0..MaxKept /\ kept[u] < MaxKept
      /\ kept' = [kept EXCEPT ![t] = @ - 1, ![u] = @ + 1]
      /\ UNCHANGED <<dispatch_pc, target>>
  BY DEF Share, CountInv, CountShape
<1>2. given \in Refs /\ taken \notin Refs \ {given}
  BY <1>1 DEF Refs
<1>3. Refs' = (Refs \ {given}) \cup {taken}
  BY <1>1, DispatchAssumption DEF Refs, GivesBack, CountInv, CountShape
<1> HIDE DEF given, taken
<1>4. IsFiniteSet(Refs \ {given}) /\ Cardinality(Refs \ {given}) = Cardinality(Refs) - 1
  BY <1>2, FS_RemoveElement DEF CountInv
<1>5. Cardinality(Refs) \in Nat
  BY FS_CardinalityType DEF CountInv
<1>6. IsFiniteSet(Refs') /\ Cardinality(Refs') = Cardinality(Refs \ {given}) + 1
  BY <1>2, <1>3, <1>4, FS_AddElement
<1> QED BY <1>4, <1>5, <1>6

\* The first half of dispatch_release: below the threshold the reference is
\* being given back, otherwise it is forgotten.
LEMMA CheckMoves ==
    ASSUME CountInv, NEW t \in Threads, ReleaseCheck(t, "semaphore")
    PROVE  /\ IsFiniteSet(Refs')
           /\ Cardinality(Refs') = IF refcount["semaphore"] > Immortal - 1
                                   THEN Cardinality(Refs) - 1 ELSE Cardinality(Refs)
<1> DEFINE last == <<t, kept[t]>>
           back == <<t, 0>>
<1>1. /\ kept[t] \in 1..MaxKept /\ dispatch_pc[t] = "idle"
      /\ kept' = [kept EXCEPT ![t] = @ - 1]
  BY DEF ReleaseCheck, MayUse, CountInv, CountShape
<1>2. last \in Refs /\ back \notin Refs
  BY <1>1 DEF Refs, GivesBack
<1>3. Cardinality(Refs) \in Nat
  BY FS_CardinalityType DEF CountInv
<1>4. IsFiniteSet(Refs \ {last}) /\ Cardinality(Refs \ {last}) = Cardinality(Refs) - 1
  <2> HIDE DEF last
  <2> QED BY <1>2, FS_RemoveElement DEF CountInv
<1>5. CASE refcount["semaphore"] > Immortal - 1
  <2>1. UNCHANGED <<dispatch_pc, target>>
    BY <1>5 DEF ReleaseCheck
  <2>2. Refs' = Refs \ {last}
    BY <1>1, <2>1, DispatchAssumption DEF Refs, GivesBack, CountInv, CountShape
  <2> QED BY <1>4, <1>5, <2>2
<1>6. CASE ~(refcount["semaphore"] > Immortal - 1)
  <2>1. /\ dispatch_pc' = [dispatch_pc EXCEPT ![t] = "sub"]
        /\ target' = [target EXCEPT ![t] = "semaphore"]
    BY <1>6 DEF ReleaseCheck, DispatchGoto
  <2>2. Refs' = (Refs \ {last}) \cup {back}
    BY <1>1, <2>1, DispatchAssumption DEF Refs, GivesBack, CountInv, CountShape
  <2> HIDE DEF last, back
  <2>3. IsFiniteSet(Refs') /\ Cardinality(Refs') = Cardinality(Refs \ {last}) + 1
    BY <1>2, <1>4, <2>2, FS_AddElement
  <2> QED BY <1>3, <1>4, <1>6, <2>3
<1> QED BY <1>5, <1>6

\* The second half, the atomic decrement.
LEMMA SubRemoves ==
    ASSUME CountInv, NEW t \in Threads, ReleaseSub(t)
    PROVE  /\ target[t] = "semaphore" /\ <<t, 0>> \in Refs
           /\ IsFiniteSet(Refs') /\ Cardinality(Refs') = Cardinality(Refs) - 1
<1> DEFINE back == <<t, 0>>
<1>1. /\ dispatch_pc[t] = "sub" /\ target[t] = "semaphore"
      /\ dispatch_pc' = [dispatch_pc EXCEPT ![t] = "idle"] /\ UNCHANGED <<target, kept>>
  BY DEF ReleaseSub, CountInv, DispatchGoto
<1>2. back \in Refs
  BY <1>1, DispatchAssumption DEF Refs, GivesBack
<1>3. Refs' = Refs \ {back}
  BY <1>1, DispatchAssumption DEF Refs, GivesBack, CountInv, CountShape
<1> HIDE DEF back
<1>4. IsFiniteSet(Refs') /\ Cardinality(Refs') = Cardinality(Refs) - 1
  BY <1>2, <1>3, FS_RemoveElement DEF CountInv
<1> QED BY <1>1, <1>2, <1>4 DEF back

\* Everything else a thread does leaves the references and the counts alone.
OtherStep(t) ==
    \/ Once(t) \/ RunBlock(t) \/ OnceSpin(t)
    \/ Retain(t, "global") \/ ReleaseCheck(t, "global")
    \/ SemSignal(t) \/ SemTake(t) \/ SemTimeout(t)
    \/ \E forever \in BOOLEAN : SemWait(t, forever)

LEMMA OthersKeep ==
    ASSUME CountInv, NEW t \in Threads, OtherStep(t)
    PROVE  /\ CountShape' /\ Refs' = Refs
           /\ refcount'["semaphore"] = refcount["semaphore"]
           /\ refcount'["global"] >= refcount["global"]
           /\ UNCHANGED <<freed, target, kept>>
           /\ \A u \in Threads : dispatch_pc'[u] = "sub" => dispatch_pc[u] = "sub"
<1>1. /\ CountShape' /\ refcount'["semaphore"] = refcount["semaphore"]
      /\ refcount'["global"] >= refcount["global"] /\ UNCHANGED <<freed, target, kept>>
  BY DispatchAssumption
     DEF OtherStep, Once, RunBlock, OnceSpin, Retain, ReleaseCheck, SemSignal, SemTake, SemTimeout,
         SemWait, CountInv, CountShape, DispatchGoto, once, object, MayUse, Objects
<1>2. \A u \in Threads : dispatch_pc'[u] = "sub" <=> dispatch_pc[u] = "sub"
  BY DispatchAssumption
     DEF OtherStep, Once, RunBlock, OnceSpin, Retain, ReleaseCheck, SemSignal, SemTake, SemTimeout,
         SemWait, CountInv, CountShape, DispatchGoto, once, object, MayUse, Objects
<1>3. Refs' = Refs
  BY <1>1, <1>2 DEF Refs, GivesBack
<1> QED BY <1>1, <1>2, <1>3

\* One step, by what it does to the references.
LEMMA DispatchSteps ==
    ASSUME DispatchNext
    PROVE  \E t \in Threads : \/ Retain(t, "semaphore") \/ ReleaseCheck(t, "semaphore")
                              \/ ReleaseSub(t) \/ OtherStep(t)
                              \/ \E u \in Threads : Share(t, u)
  BY DEF DispatchNext, DispatchStep, Objects, OtherStep

LEMMA CountStep == CountInv /\ [DispatchNext]_dispatchVars => CountInv'
<1> SUFFICES ASSUME CountInv, [DispatchNext]_dispatchVars PROVE CountInv'
  OBVIOUS
<1>a. Cardinality(Refs) \in Nat /\ refcount["semaphore"] \in Int /\ refcount["global"] \in Int
  BY FS_CardinalityType DEF CountInv, CountShape, Objects
<1>b. \A t \in Threads : kept[t] > 0 => Refs # {}
  <2> SUFFICES ASSUME NEW t \in Threads, kept[t] > 0 PROVE <<t, kept[t]>> \in Refs
    OBVIOUS
  <2> QED BY DEF Refs, CountInv, CountShape
<1>1. ASSUME NEW t \in Threads, Retain(t, "semaphore") PROVE CountInv'
  <2>1. /\ CountShape' /\ refcount' = [refcount EXCEPT !["semaphore"] = @ + 1]
        /\ UNCHANGED <<freed, dispatch_pc, target>> /\ kept[t] > 0
    BY <1>1, DispatchAssumption DEF Retain, MayUse, CountInv, CountShape, Objects
  <2>2. refcount'["semaphore"] = refcount["semaphore"] + 1
        /\ refcount'["global"] = refcount["global"]
    BY <2>1 DEF CountInv, CountShape, Objects
  <2> QED BY <1>1, <1>a, <1>b, <2>1, <2>2, RetainAdds DEF CountInv
<1>2. ASSUME NEW t \in Threads, ReleaseCheck(t, "semaphore") PROVE CountInv'
  <2>1. CountShape' /\ UNCHANGED <<refcount, freed>> /\ kept[t] > 0
    BY <1>2, DispatchAssumption DEF ReleaseCheck, MayUse, CountInv, CountShape, DispatchGoto, Objects
  <2>2. \A u \in Threads : dispatch_pc'[u] = "sub" => target'[u] = "semaphore"
    BY <1>2 DEF ReleaseCheck, CountInv, CountShape, DispatchGoto, Objects
  <2> QED BY <1>2, <1>a, <1>b, <2>1, <2>2, CheckMoves DEF CountInv
<1>3. ASSUME NEW t \in Threads, ReleaseSub(t) PROVE CountInv'
  <2> DEFINE last == refcount["semaphore"] - 1 <= 0
  <2>a. target[t] = "semaphore"
    BY <1>3, SubRemoves
  <2>b. /\ refcount' = [refcount EXCEPT !["semaphore"] = @ - 1]
        /\ freed' = [freed EXCEPT !["semaphore"] = @ \/ last]
        /\ dispatch_pc' = [dispatch_pc EXCEPT ![t] = "idle"] /\ UNCHANGED <<target, kept>>
    BY <1>3, <2>a DEF ReleaseSub, DispatchGoto
  <2>c. last \in BOOLEAN
    OBVIOUS
  <2>d. /\ freed' \in [Objects -> BOOLEAN] /\ freed'["global"] = freed["global"]
        /\ freed'["semaphore"] <=> (freed["semaphore"] \/ last)
    <3> HIDE DEF last
    <3> QED BY <2>b, <2>c DEF CountInv, CountShape, Objects
  <2>1. /\ CountShape' /\ freed'["global"] = freed["global"]
        /\ freed'["semaphore"] <=> (freed["semaphore"] \/ last)
    BY <2>b, <2>d DEF CountInv, CountShape
  <2>2. refcount'["semaphore"] = refcount["semaphore"] - 1
        /\ refcount'["global"] = refcount["global"]
    BY <2>b DEF CountInv, CountShape, Objects
  <2>3. /\ <<t, 0>> \in Refs /\ IsFiniteSet(Refs') 
        /\ Cardinality(Refs') = Cardinality(Refs) - 1
    BY <1>3, SubRemoves
  <2>4. freed'["semaphore"] => Refs' = {}
    <3>1. ~freed["semaphore"]
      BY <2>3 DEF CountInv
    <3>2. Cardinality(Refs') \in Nat
      BY <2>3, FS_CardinalityType
    <3>3. refcount["semaphore"] - 1 <= 0 => Cardinality(Refs') = 0
      BY <1>a, <2>3, <3>2 DEF CountInv
    <3> QED BY <2>1, <2>3, <3>1, <3>3, FS_EmptySet
  <2>5. \A u \in Threads : dispatch_pc'[u] = "sub" => target'[u] = "semaphore"
    BY <2>b DEF CountInv, CountShape
  <2> QED BY <1>a, <2>1, <2>2, <2>3, <2>4, <2>5 DEF CountInv
<1>4. ASSUME NEW t \in Threads, NEW u \in Threads, Share(t, u) PROVE CountInv'
  <2>1. CountShape' /\ UNCHANGED <<refcount, freed, dispatch_pc, target>> /\ kept[t] > 0
    BY <1>4, DispatchAssumption DEF Share, CountInv, CountShape
  <2> QED BY <1>4, <1>a, <1>b, <2>1, ShareKeeps DEF CountInv
<1>5. ASSUME NEW t \in Threads, OtherStep(t) PROVE CountInv'
  <2>1. refcount'["global"] \in Int /\ refcount'["global"] >= Immortal
    BY <1>5, <1>a, OthersKeep, DispatchAssumption DEF CountInv, CountShape, Objects
  <2> QED BY <1>5, <2>1, OthersKeep DEF CountInv
<1>6. CASE UNCHANGED dispatchVars
  BY <1>6 DEF dispatchVars, CountInv, CountShape, Refs, GivesBack
<1> QED BY <1>1, <1>2, <1>3, <1>4, <1>5, <1>6, DispatchSteps

\* At the start the creator owns the only reference.
LEMMA CountStart ==
    ASSUME DispatchInit
    PROVE  CountInv /\ Cardinality(Refs) = 1 /\ refcount["semaphore"] = 1
<1>1. PICK u \in Threads : kept = [t \in Threads |-> IF t = u THEN 1 ELSE 0]
  BY DEF DispatchInit
<1>2. CountShape
  BY <1>1, DispatchAssumption DEF DispatchInit, CountShape, Objects
<1>3. Refs = {<<u, 1>>}
  BY <1>1, DispatchAssumption DEF DispatchInit, Refs, GivesBack
<1>4. IsFiniteSet(Refs) /\ Cardinality(Refs) = 1
  BY <1>3, FS_Singleton
<1>5. /\ refcount["semaphore"] = 1 /\ refcount["global"] = Immortal
      /\ ~freed["semaphore"] /\ ~freed["global"]
      /\ \A t \in Threads : dispatch_pc[t] # "sub"
  BY DEF DispatchInit, Objects
<1> QED BY <1>2, <1>4, <1>5, DispatchAssumption DEF CountInv

LEMMA CountedIsLive == CountInv => LiveWhileReferenced
<1> SUFFICES ASSUME CountInv, freed["semaphore"]
             PROVE  Kept = {} /\ \A t \in Threads : dispatch_pc[t] = "sub" => target[t] = "global"
  BY DEF CountInv, LiveWhileReferenced
<1>1. Refs = {}
  BY DEF CountInv
<1>2. ASSUME NEW t \in Threads, kept[t] > 0 PROVE FALSE
  <2>1. <<t, kept[t]>> \in Refs
    BY <1>2 DEF Refs, CountInv, CountShape
  <2> QED BY <1>1, <2>1
<1>3. ASSUME NEW t \in Threads, dispatch_pc[t] = "sub" PROVE FALSE
  <2>1. <<t, 0>> \in Refs
    BY <1>3, DispatchAssumption DEF Refs, GivesBack, CountInv
  <2> QED BY <1>1, <2>1
<1> QED BY <1>2, <1>3 DEF Kept

\* dispatch_release: an object is never freed under a thread that owns a
\* reference or is giving one back, whatever the threshold is, and a global
\* queue is never freed.
THEOREM NeverFreedTooEarly == DispatchSpec => []LiveWhileReferenced
<1>1. DispatchInit => CountInv
  BY CountStart
<1> QED
  BY <1>1, CountStep, CountedIsLive, PTL DEF DispatchSpec

\* All the references there can be do not reach the threshold from which an
\* object is taken for a global queue.
FewReferences == IsFiniteSet(Threads) /\ Cardinality(Threads) * (MaxKept + 1) < Immortal

ExactInv ==
    /\ CountInv
    /\ refcount["semaphore"] = Cardinality(Refs)
    /\ Refs = {} => freed["semaphore"]

\* There are no more references than numbered places for them.
LEMMA RefsAreFew == FewReferences /\ CountInv => Cardinality(Refs) < Immortal
<1> SUFFICES ASSUME FewReferences, CountInv PROVE Cardinality(Refs) < Immortal
  OBVIOUS
<1> DEFINE places == Threads \X (0..MaxKept)
<1>1. IsFiniteSet(0..MaxKept) /\ Cardinality(0..MaxKept) = MaxKept + 1
  BY DispatchAssumption, FS_Interval
<1>2. IsFiniteSet(places) /\ Cardinality(places) = Cardinality(Threads) * (MaxKept + 1)
  BY <1>1, FS_Product DEF FewReferences
<1>3. Refs \in SUBSET places
  BY DEF Refs
<1> HIDE DEF places
<1>4. Cardinality(Refs) <= Cardinality(places)
  BY <1>2, <1>3, FS_Subset
<1>5. Cardinality(Refs) \in Nat /\ Cardinality(places) \in Nat
  BY <1>2, FS_CardinalityType DEF CountInv
<1> QED BY <1>2, <1>4, <1>5, DispatchAssumption DEF FewReferences

LEMMA ExactStep == FewReferences /\ ExactInv /\ [DispatchNext]_dispatchVars => ExactInv'
<1> SUFFICES ASSUME FewReferences, ExactInv, [DispatchNext]_dispatchVars PROVE ExactInv'
  OBVIOUS
<1>a. CountInv /\ CountInv'
  BY CountStep DEF ExactInv
<1>b. /\ Cardinality(Refs) \in Nat /\ refcount["semaphore"] = Cardinality(Refs)
      /\ IsFiniteSet(Refs) /\ Cardinality(Refs) < Immortal
      /\ IsFiniteSet(Refs') /\ Cardinality(Refs') \in Nat
  BY <1>a, RefsAreFew, FS_CardinalityType DEF CountInv, ExactInv
<1>c. (Cardinality(Refs) = 0 <=> Refs = {}) /\ (Cardinality(Refs') = 0 <=> Refs' = {})
  BY <1>b, FS_EmptySet
<1>1. ASSUME NEW t \in Threads, Retain(t, "semaphore") PROVE ExactInv'
  <2>1. refcount'["semaphore"] = refcount["semaphore"] + 1
    BY <1>1, <1>a DEF Retain, CountInv, CountShape, Objects
  <2> QED BY <1>1, <1>a, <1>b, <1>c, <2>1, RetainAdds DEF ExactInv
<1>2. ASSUME NEW t \in Threads, ReleaseCheck(t, "semaphore") PROVE ExactInv'
  <2>1. UNCHANGED <<refcount, freed>>
    BY <1>2 DEF ReleaseCheck
  <2>2. ~(refcount["semaphore"] > Immortal - 1)
    BY <1>b, DispatchAssumption
  <2>3. Cardinality(Refs') = Cardinality(Refs)
    BY <1>2, <1>a, <2>2, CheckMoves
  <2> QED BY <1>a, <1>b, <1>c, <2>1, <2>3 DEF ExactInv
<1>3. ASSUME NEW t \in Threads, ReleaseSub(t) PROVE ExactInv'
  <2>1. target[t] = "semaphore" /\ Cardinality(Refs') = Cardinality(Refs) - 1
    BY <1>3, <1>a, SubRemoves
  <2>2. refcount'["semaphore"] = refcount["semaphore"] - 1
    BY <1>3, <1>a, <2>1 DEF ReleaseSub, CountInv, CountShape, Objects
  <2>3. refcount["semaphore"] - 1 <= 0 => freed'["semaphore"]
    BY <1>3, <1>a, <2>1 DEF ReleaseSub, CountInv, CountShape, Objects
  <2> QED BY <1>a, <1>b, <1>c, <2>1, <2>2, <2>3 DEF ExactInv
<1>4. ASSUME NEW t \in Threads, NEW u \in Threads, Share(t, u) PROVE ExactInv'
  <2>1. UNCHANGED <<refcount, freed>>
    BY <1>4 DEF Share
  <2> QED BY <1>4, <1>a, <1>b, <1>c, <2>1, ShareKeeps DEF ExactInv
<1>5. ASSUME NEW t \in Threads, OtherStep(t) PROVE ExactInv'
  BY <1>5, <1>a, OthersKeep DEF ExactInv
<1>6. CASE UNCHANGED dispatchVars
  BY <1>6 DEF dispatchVars, ExactInv, CountInv, CountShape, Refs, GivesBack
<1> QED BY <1>1, <1>2, <1>3, <1>4, <1>5, <1>6, DispatchSteps

LEMMA ExactIsOwned == ExactInv => LivesWhileOwned
<1> SUFFICES ASSUME ExactInv PROVE LivesWhileOwned
  OBVIOUS
<1>1. LiveWhileReferenced
  BY CountedIsLive DEF ExactInv
<1>2. UnreferencedIsFreed
  <2> SUFFICES ASSUME Kept = {}, \A t \in Threads : dispatch_pc[t] # "sub" PROVE Refs = {}
    BY DEF UnreferencedIsFreed, ExactInv
  <2>1. \A t \in Threads : kept[t] = 0
    BY DEF Kept, ExactInv, CountInv, CountShape
  <2> QED BY <2>1 DEF Refs, GivesBack
<1> QED BY <1>1, <1>2 DEF LivesWhileOwned

\* dispatch_retain and dispatch_release below the threshold: an object lives
\* exactly as long as somebody owns a reference to it.
THEOREM LivesExactlyWhileOwned == FewReferences /\ DispatchSpec => []LivesWhileOwned
<1> SUFFICES ASSUME FewReferences PROVE DispatchSpec => []LivesWhileOwned
  OBVIOUS
<1>1. DispatchInit => ExactInv
  <2> SUFFICES ASSUME DispatchInit PROVE ExactInv
    OBVIOUS
  <2>1. Refs # {}
    BY CountStart, FS_EmptySet
  <2> QED BY <2>1, CountStart DEF ExactInv
<1>2. ExactInv /\ [DispatchNext]_dispatchVars => ExactInv'
  BY ExactStep
<1> QED
  BY <1>1, <1>2, ExactIsOwned, PTL DEF DispatchSpec

-----------------------------------------------------------------------------
(* Mutexes and condition variables, whose first uses do not overlap.       *)

PthreadShape ==
    /\ mutex \in [sig : BOOLEAN, kind : {"normal", "recursive"},
                  owner : Threads \cup {NoThread}, count : Nat]
    /\ cond \in [sig : BOOLEAN, waiters : SUBSET Threads]
    /\ pthread_pc \in [Threads -> PthreadPCs]
    /\ op \in [Threads -> Calls]
    /\ depth \in [Threads -> Nat]

\* What a thread was told it has is what the mutex says; a mutex that still has
\* Apple's signature is nobody's, and only a recursive one is locked twice.
MutexTells ==
    /\ \A t \in Threads : depth[t] = IF mutex.owner = t THEN mutex.count ELSE 0
    /\ mutex.owner = NoThread <=> mutex.count = 0
    /\ mutex.kind = "normal" => mutex.count <= 1
    /\ mutex.sig => mutex.owner = NoThread /\ mutex.kind = "normal"
    /\ cond.sig => cond.waiters = {}

\* Until the objects are ready, one thread is in a call at a time.
Alone == ~Ready => \A t, u \in Threads : t # u => "idle" \in {pthread_pc[t], pthread_pc[u]}

\* Where a thread is tells what it has seen: it rewrites what still has the
\* signature or is all zero, and it comes to wait with the mutex locked once.
Progress(t) ==
    /\ pthread_pc[t] \in {"fix_mutex", "memset_mutex", "init_mutex"} => op[t] \in {"lock", "trylock", "wait"}
    /\ pthread_pc[t] = "memset_mutex" => mutex.sig
    /\ pthread_pc[t] \in {"zero_check", "acquire", "try", "wait", "waiting", "reacquire"} => ~mutex.sig
    /\ pthread_pc[t] \in {"init_mutex", "zero_init"} => mutex = ZeroMutex
    /\ pthread_pc[t] = "init_cond" => cond.sig
    /\ pthread_pc[t] = "wait" => op[t] = "wait"
    /\ pthread_pc[t] \in {"fix_cond", "init_cond", "fix_mutex", "memset_mutex", "init_mutex", "wait"}
          /\ op[t] = "wait" => depth[t] = 1
    /\ pthread_pc[t] \in {"fix_mutex", "memset_mutex", "init_mutex", "wait", "waiting"}
          /\ op[t] = "wait" => ~cond.sig
    /\ pthread_pc[t] = "waiting" => op[t] = "wait"
    /\ pthread_pc[t] = "waiting" <=> t \in cond.waiters

PthreadInv == PthreadShape /\ MutexTells /\ Alone /\ \A t \in Threads : Progress(t)

\* What taking and releasing the mutex leave in its memory.
LEMMA TakeFields ==
    ASSUME PthreadShape, NEW t \in Threads, Take(t)
    PROVE  /\ mutex' \in [sig : BOOLEAN, kind : {"normal", "recursive"},
                           owner : Threads \cup {NoThread}, count : Nat]
           /\ mutex'.sig = mutex.sig /\ mutex'.kind = mutex.kind
           /\ mutex'.owner = t /\ mutex'.count = mutex.count + 1
<1>1. mutex' = [sig |-> mutex.sig, kind |-> mutex.kind, owner |-> t, count |-> mutex.count + 1]
  BY Zenon DEF PthreadShape, Take
<1> QED BY <1>1 DEF PthreadShape

LEMMA ReleaseFields ==
    ASSUME PthreadShape, MutexTells, NEW t \in Threads, depth[t] > 0, Release(t)
    PROVE  /\ mutex' \in [sig : BOOLEAN, kind : {"normal", "recursive"},
                           owner : Threads \cup {NoThread}, count : Nat]
           /\ mutex'.sig = mutex.sig /\ mutex'.kind = mutex.kind
           /\ mutex.owner = t /\ mutex'.count = mutex.count - 1
           /\ mutex'.owner = IF mutex'.count = 0 THEN NoThread ELSE t
<1>1. mutex.owner = t /\ mutex.count = depth[t] /\ (mutex.kind = "normal" => mutex.count = 1)
  BY DEF PthreadShape, MutexTells
<1>2. CASE mutex.kind = "recursive" /\ mutex.count > 1
  <2>1. mutex' = [mutex EXCEPT !.count = @ - 1]
    BY <1>1, <1>2 DEF Release
  <2> QED BY <1>1, <1>2, <2>1, ThreadsAssumption DEF PthreadShape
<1>3. CASE ~(mutex.kind = "recursive" /\ mutex.count > 1)
  <2>1. mutex' = [mutex EXCEPT !.owner = NoThread, !.count = 0]
    BY <1>1, <1>3 DEF Release
  <2>2. mutex.count = 1
    BY <1>1, <1>3 DEF PthreadShape
  <2>3. mutex' = [sig |-> mutex.sig, kind |-> mutex.kind, owner |-> NoThread, count |-> 0]
    BY <2>1, Zenon DEF PthreadShape
  <2> QED BY <1>1, <2>2, <2>3, ThreadsAssumption DEF PthreadShape
<1> QED BY <1>2, <1>3

\* One step of one thread, while first uses do not overlap.
LEMMA PthreadStepKeeps ==
    ASSUME SerialFirstUse, PthreadInv, NEW t \in Threads, PthreadStep(t)
    PROVE  PthreadInv'
<1> USE ThreadsAssumption
    DEF PthreadInv, PthreadShape, MutexTells, Alone, Progress, Ready, PthreadGoto, PthreadPCs,
        Calls, ZeroMutex, RecursiveMutex, Mutex, ZeroCond
<1>1. CASE CallLock(t)
  BY <1>1 DEF CallLock, Enter, MayEnter
<1>2. CASE CallTrylock(t)
  BY <1>2 DEF CallTrylock, Enter, MayEnter
<1>3. CASE CallWait(t)
  BY <1>3 DEF CallWait, Enter, MayEnter
<1>4. CASE CallSignal(t)
  BY <1>4 DEF CallSignal, Enter, MayEnter
<1>5. CASE FixMutex(t)
  BY <1>5 DEF FixMutex, AfterFix
<1>6. CASE MemsetMutex(t)
  BY <1>6 DEF MemsetMutex
<1>7. CASE InitMutex(t)
  BY <1>7 DEF InitMutex, AfterFix
<1>8. CASE ZeroCheck(t)
  BY <1>8 DEF ZeroCheck
<1>9. CASE ZeroInit(t)
  BY <1>9 DEF ZeroInit
<1>10. CASE Acquire(t)
  <2>0. Take(t) /\ Free(t)
    BY <1>10 DEF Acquire
  <2>1. /\ mutex' \in [sig : BOOLEAN, kind : {"normal", "recursive"},
                         owner : Threads \cup {NoThread}, count : Nat]
        /\ mutex'.owner = t /\ mutex'.count = mutex.count + 1
        /\ mutex'.kind = mutex.kind /\ mutex'.sig = mutex.sig
    BY <2>0, TakeFields
  <2>2. /\ depth'[t] = depth[t] + 1 /\ \A u \in Threads \ {t} : depth'[u] = depth[u]
        /\ pthread_pc'[t] = "idle" /\ \A u \in Threads \ {t} : pthread_pc'[u] = pthread_pc[u]
        /\ cond' = cond /\ op' = op
        /\ ~mutex.sig /\ t \notin cond.waiters
    BY <1>10 DEF Acquire
  <2>3. PthreadShape'
    BY <1>10, <2>1 DEF Acquire
  <2>4. MutexTells'
    BY <2>0, <2>1, <2>2, <2>3 DEF Free
  <2>5. Alone'
    BY <2>1, <2>2, <2>3
  <2>6. ASSUME NEW u \in Threads PROVE Progress(u)'
    <3>1. CASE u = t
      BY <2>2, <2>3, <3>1
    <3>2. CASE u # t
      <4>1. pthread_pc[u] \notin {"init_mutex", "zero_init"}
        BY <1>10, <3>2 DEF Acquire
      <4> QED BY <2>1, <2>2, <3>2, <4>1
    <3> QED BY <3>1, <3>2
  <2> QED BY <2>3, <2>4, <2>5, <2>6
<1>11. CASE Try(t)
  <2>0. CASE ~Free(t)
    BY <1>11, <2>0 DEF Try
  <2>1. CASE Free(t)
    <3>0. Take(t)
      BY <1>11, <2>1 DEF Try
    <3>1. /\ mutex' \in [sig : BOOLEAN, kind : {"normal", "recursive"},
                           owner : Threads \cup {NoThread}, count : Nat]
          /\ mutex'.owner = t /\ mutex'.count = mutex.count + 1
          /\ mutex'.kind = mutex.kind /\ mutex'.sig = mutex.sig
      BY <3>0, TakeFields
    <3>2. /\ depth'[t] = depth[t] + 1 /\ \A u \in Threads \ {t} : depth'[u] = depth[u]
          /\ pthread_pc'[t] = "idle" /\ \A u \in Threads \ {t} : pthread_pc'[u] = pthread_pc[u]
          /\ cond' = cond /\ op' = op
          /\ ~mutex.sig /\ t \notin cond.waiters
      BY <1>11, <2>1 DEF Try
    <3>3. PthreadShape'
      BY <1>11, <2>1, <3>1 DEF Try
    <3>4. MutexTells'
      BY <2>1, <3>1, <3>2, <3>3 DEF Free
    <3>5. Alone'
      BY <3>1, <3>2, <3>3
    <3>6. ASSUME NEW u \in Threads PROVE Progress(u)'
      <4>1. CASE u = t
        BY <3>2, <3>3, <4>1
      <4>2. CASE u # t
        <5>1. pthread_pc[u] \notin {"init_mutex", "zero_init"}
          BY <1>11, <4>2 DEF Try
        <5> QED BY <3>1, <3>2, <4>2, <5>1
      <4> QED BY <4>1, <4>2
    <3> QED BY <3>3, <3>4, <3>5, <3>6
  <2> QED BY <2>0, <2>1
<1>12. CASE MutexUnlock(t)
  <2>1. /\ mutex' \in [sig : BOOLEAN, kind : {"normal", "recursive"},
                         owner : Threads \cup {NoThread}, count : Nat]
        /\ mutex'.sig = mutex.sig /\ mutex'.kind = mutex.kind
        /\ mutex.owner = t /\ mutex'.count = mutex.count - 1
        /\ mutex'.owner = IF mutex'.count = 0 THEN NoThread ELSE t
    BY <1>12, ReleaseFields DEF MutexUnlock
  <2>2. /\ depth'[t] = depth[t] - 1 /\ \A u \in Threads \ {t} : depth'[u] = depth[u]
        /\ pthread_pc[t] = "idle" /\ pthread_pc' = pthread_pc /\ cond' = cond /\ op' = op
        /\ depth[t] = mutex.count /\ depth[t] > 0
    BY <1>12, <2>1 DEF MutexUnlock
  <2>3. PthreadShape'
    BY <1>12, <2>1, <2>2 DEF MutexUnlock
  <2>4. MutexTells'
    BY <2>1, <2>2, <2>3
  <2>5. Alone'
    BY <2>1, <2>2, <2>3
  <2>6. ASSUME NEW u \in Threads PROVE Progress(u)'
    <3>1. CASE u = t
      BY <2>2, <3>1
    <3>2. CASE u # t
      <4>1. mutex # ZeroMutex
        BY <2>1, <2>2
      <4> QED BY <2>1, <2>2, <3>2, <4>1
    <3> QED BY <3>1, <3>2
  <2> QED BY <2>3, <2>4, <2>5, <2>6
<1>13. CASE FixCond(t)
  BY <1>13 DEF FixCond
<1>14. CASE InitCond(t)
  BY <1>14 DEF InitCond
<1>15. CASE Wait(t)
  <2>0. depth[t] = 1 /\ op[t] = "wait" /\ ~cond.sig
    BY <1>15 DEF Wait
  <2>1. /\ mutex' \in [sig : BOOLEAN, kind : {"normal", "recursive"},
                         owner : Threads \cup {NoThread}, count : Nat]
        /\ mutex'.sig = mutex.sig /\ mutex'.kind = mutex.kind
        /\ mutex.owner = t /\ mutex'.count = mutex.count - 1
        /\ mutex'.owner = IF mutex'.count = 0 THEN NoThread ELSE t
    BY <1>15, <2>0, ReleaseFields DEF Wait
  <2>2. /\ depth'[t] = 0 /\ \A u \in Threads \ {t} : depth'[u] = depth[u]
        /\ pthread_pc[t] = "wait" /\ pthread_pc'[t] = "waiting"
        /\ \A u \in Threads \ {t} : pthread_pc'[u] = pthread_pc[u]
        /\ cond'.sig = cond.sig /\ cond'.waiters = cond.waiters \cup {t} /\ op' = op
        /\ mutex.count = 1 /\ ~mutex.sig
    BY <1>15, <2>0, <2>1 DEF Wait
  <2>3. PthreadShape'
    BY <1>15, <2>1, <2>2 DEF Wait
  <2>4. MutexTells'
    BY <2>0, <2>1, <2>2, <2>3
  <2>5. Alone'
    BY <2>1, <2>2, <2>3
  <2>6. ASSUME NEW u \in Threads PROVE Progress(u)'
    <3>1. CASE u = t
      BY <2>0, <2>1, <2>2, <3>1
    <3>2. CASE u # t
      <4>1. mutex # ZeroMutex
        BY <2>1, <2>2
      <4> QED BY <2>0, <2>1, <2>2, <3>2, <4>1
    <3> QED BY <3>1, <3>2
  <2> QED BY <2>3, <2>4, <2>5, <2>6
<1>16. CASE Signal(t)
  <2>1. PICK woken \in SUBSET cond.waiters :
          /\ cond' = [cond EXCEPT !.waiters = @ \ woken]
          /\ pthread_pc' = [u \in Threads |-> IF u = t THEN "idle"
                                ELSE IF u \in woken THEN "reacquire" ELSE pthread_pc[u]]
    BY <1>16 DEF Signal
  <2>2. /\ cond'.sig = cond.sig /\ cond'.waiters = cond.waiters \ woken
        /\ mutex' = mutex /\ op' = op /\ depth' = depth
        /\ pthread_pc[t] = "signal" /\ pthread_pc'[t] = "idle"
        /\ \A u \in Threads \ {t} :
             pthread_pc'[u] = IF u \in woken THEN "reacquire" ELSE pthread_pc[u]
    BY <1>16, <2>1 DEF Signal
  <2>3. PthreadShape'
    BY <1>16, <2>1, <2>2 DEF Signal
  <2>4. MutexTells'
    BY <2>2, <2>3
  <2>5. Alone'
    BY <2>1, <2>2, <2>3
  <2>6. ASSUME NEW u \in Threads PROVE Progress(u)'
    <3>1. CASE u \in woken
      BY <2>1, <2>2, <3>1
    <3>2. CASE u \notin woken
      BY <2>2, <3>2
    <3> QED BY <3>1, <3>2
  <2> QED BY <2>3, <2>4, <2>5, <2>6
<1>17. CASE WakeUp(t)
  BY <1>17 DEF WakeUp
<1> QED
  BY <1>1, <1>2, <1>3, <1>4, <1>5, <1>6, <1>7, <1>8, <1>9, <1>10, <1>11, <1>12, <1>13, <1>14,
     <1>15, <1>16, <1>17 DEF PthreadStep

LEMMA PthreadStart == PthreadInit => PthreadInv
<1> SUFFICES ASSUME PthreadInit PROVE PthreadInv
  OBVIOUS
<1>1. mutex \in {DarwinMutex, ZeroMutex, RecursiveMutex}
  <2>1. PICK start \in Starts : mutex = StartedAs(start)
    BY DEF PthreadInit
  <2>2. start \in {"static", "zero", "call"}
    BY PthreadAssumption
  <2>3. CASE start = "static"
    BY <2>1, <2>3 DEF StartedAs
  <2>4. CASE start = "zero"
    BY <2>1, <2>4 DEF StartedAs
  <2>5. CASE start = "call"
    BY <2>1, <2>5 DEF StartedAs
  <2> QED BY <2>2, <2>3, <2>4, <2>5
<1>2. /\ mutex \in [sig : BOOLEAN, kind : {"normal", "recursive"},
                     owner : Threads \cup {NoThread}, count : Nat]
      /\ mutex.owner = NoThread /\ mutex.count = 0 /\ (mutex.sig => mutex.kind = "normal")
  <2>1. CASE mutex = DarwinMutex
    BY <2>1 DEF DarwinMutex, Mutex
  <2>2. CASE mutex = ZeroMutex
    BY <2>2 DEF ZeroMutex, Mutex
  <2>3. CASE mutex = RecursiveMutex
    BY <2>3 DEF RecursiveMutex, Mutex
  <2> QED BY <1>1, <2>1, <2>2, <2>3
<1>3. cond \in [sig : BOOLEAN, waiters : SUBSET Threads] /\ cond.waiters = {}
  <2>1. CASE cond = DarwinCond
    BY <2>1 DEF DarwinCond
  <2>2. CASE cond = ZeroCond
    BY <2>2 DEF ZeroCond
  <2> QED BY <2>1, <2>2 DEF PthreadInit
<1>4. \A t \in Threads : pthread_pc[t] = "idle" /\ op[t] = "lock" /\ depth[t] = 0
  BY DEF PthreadInit
<1>5. PthreadShape
  BY <1>2, <1>3 DEF PthreadInit, PthreadShape, PthreadPCs, Calls
<1>6. MutexTells
  BY <1>2, <1>3, <1>4, ThreadsAssumption DEF MutexTells
<1>7. Alone /\ \A t \in Threads : Progress(t)
  BY <1>3, <1>4 DEF Alone, Progress
<1> QED BY <1>5, <1>6, <1>7 DEF PthreadInv

\* A guest that lets its first uses of a mutex and of a condition variable not
\* overlap: whatever the objects started as, the wrappers never tell two
\* threads that they have the mutex.
THEOREM PthreadMutualExclusion == SerialFirstUse /\ PthreadSpec => []MutualExclusion
<1> SUFFICES ASSUME SerialFirstUse PROVE PthreadSpec => []MutualExclusion
  OBVIOUS
<1>1. PthreadInit => PthreadInv
  BY PthreadStart
<1>2. PthreadInv /\ [PthreadNext]_pthreadVars => PthreadInv'
  <2> SUFFICES ASSUME PthreadInv, [PthreadNext]_pthreadVars PROVE PthreadInv'
    OBVIOUS
  <2>1. CASE PthreadNext
    BY <2>1, PthreadStepKeeps DEF PthreadNext
  <2>2. CASE UNCHANGED pthreadVars
    BY <2>2 DEF pthreadVars, PthreadInv, PthreadShape, MutexTells, Alone, Progress, Ready
  <2> QED BY <2>1, <2>2
<1>3. PthreadInv => MutualExclusion
  BY ThreadsAssumption DEF PthreadInv, PthreadShape, MutexTells, MutualExclusion
<1> QED BY <1>1, <1>2, <1>3, PTL DEF PthreadSpec

\* A guest that also does not trylock a zero mutex before any lock: whoever
\* comes to take the mutex finds a recursive one.
Relockable(t) ==
    /\ pthread_pc[t] \in {"acquire", "try", "wait", "waiting", "reacquire"} => mutex.kind = "recursive"
    /\ pthread_pc[t] = "fix_mutex" /\ op[t] = "trylock" => mutex.sig \/ mutex.kind = "recursive"

RelockInv ==
    /\ PthreadInv
    /\ mutex.owner # NoThread => mutex.kind = "recursive"
    /\ \A t \in Threads : Relockable(t)

LEMMA RelockStepKeeps ==
    ASSUME SerialFirstUse, ~TryFirst, RelockInv, NEW t \in Threads, PthreadStep(t)
    PROVE  RelockInv'
<1> USE ThreadsAssumption
<1>1. PthreadInv'
  BY PthreadStepKeeps DEF RelockInv
<1> SUFFICES /\ mutex'.owner # NoThread => mutex'.kind = "recursive"
             /\ \A u \in Threads : Relockable(u)'
  BY <1>1 DEF RelockInv
<1> USE DEF RelockInv, Relockable, PthreadInv, PthreadShape, PthreadGoto
<1>2. CASE CallTrylock(t)
  <2>1. mutex.sig \/ mutex.kind = "recursive"
    <3>1. mutex # ZeroMutex
      BY <1>2 DEF CallTrylock
    <3> SUFFICES ASSUME ~mutex.sig, mutex.kind = "normal" PROVE FALSE
      OBVIOUS
    <3>2. mutex.owner = NoThread /\ mutex.count = 0 /\ mutex.sig = FALSE
      BY DEF MutexTells
    <3> QED BY <3>1, <3>2, Zenon DEF ZeroMutex, Mutex
  <2> QED BY <1>2, <2>1 DEF CallTrylock, Enter
<1>3. CASE CallLock(t) \/ CallWait(t) \/ CallSignal(t)
  BY <1>3 DEF CallLock, CallWait, CallSignal, Enter
<1>4. CASE FixMutex(t)
  <2>1. op[t] = "wait" => mutex.kind = "recursive"
    BY <1>4 DEF FixMutex, Progress, MutexTells
  <2> QED BY <1>4, <2>1 DEF FixMutex, AfterFix, Progress
<1>5. CASE MemsetMutex(t)
  BY <1>5 DEF MemsetMutex, Progress, MutexTells, Alone, Ready, ZeroMutex, Mutex
<1>6. CASE InitMutex(t)
  BY <1>6 DEF InitMutex, RecursiveMutex, Mutex
<1>7. CASE ZeroCheck(t)
  <2>1. mutex # ZeroMutex => mutex.kind = "recursive"
    <3> SUFFICES ASSUME mutex.kind = "normal" PROVE mutex = ZeroMutex
      OBVIOUS
    <3>1. mutex.owner = NoThread /\ mutex.count = 0 /\ mutex.sig = FALSE
      BY <1>7 DEF ZeroCheck, Progress, MutexTells
    <3> QED BY <3>1, Zenon DEF ZeroMutex, Mutex
  <2> QED BY <1>7, <2>1 DEF ZeroCheck
<1>8. CASE ZeroInit(t)
  BY <1>8 DEF ZeroInit, RecursiveMutex, Mutex
<1>9. CASE Acquire(t)
  BY <1>9, TakeFields DEF Acquire
<1>10. CASE Try(t)
  BY <1>10, TakeFields DEF Try
<1>11. CASE MutexUnlock(t)
  BY <1>11, ReleaseFields DEF MutexUnlock
<1>12. CASE FixCond(t)
  BY <1>12 DEF FixCond
<1>13. CASE InitCond(t)
  BY <1>13 DEF InitCond
<1>14. CASE Wait(t)
  <2>1. depth[t] > 0 /\ Release(t)
    BY <1>14 DEF Wait, Progress
  <2> QED BY <1>14, <2>1, ReleaseFields DEF Wait
<1>15. CASE Signal(t)
  BY <1>15 DEF Signal, Progress
<1>16. CASE WakeUp(t)
  BY <1>16 DEF WakeUp
<1> QED
  BY <1>2, <1>3, <1>4, <1>5, <1>6, <1>7, <1>8, <1>9, <1>10, <1>11, <1>12, <1>13, <1>14, <1>15,
     <1>16 DEF PthreadStep

\* The same guest is never left waiting: no rewriting of the condition variable
\* forgets a waiter, and no owner blocks on the mutex that it holds.
THEOREM PthreadNobodyForgotten ==
    SerialFirstUse /\ ~TryFirst /\ PthreadSpec => []NobodyForgotten
<1> SUFFICES ASSUME SerialFirstUse, ~TryFirst PROVE PthreadSpec => []NobodyForgotten
  OBVIOUS
<1>1. PthreadInit => RelockInv
  <2> SUFFICES ASSUME PthreadInit PROVE RelockInv
    OBVIOUS
  <2>1. PthreadInv
    BY PthreadStart
  <2>2. mutex.owner = NoThread
    BY <2>1, ThreadsAssumption DEF PthreadInit, PthreadInv, PthreadShape, MutexTells
  <2> QED BY <2>1, <2>2 DEF PthreadInit, RelockInv, Relockable
<1>2. RelockInv /\ [PthreadNext]_pthreadVars => RelockInv'
  <2> SUFFICES ASSUME RelockInv, [PthreadNext]_pthreadVars PROVE RelockInv'
    OBVIOUS
  <2>1. CASE PthreadNext
    BY <2>1, RelockStepKeeps DEF PthreadNext
  <2>2. CASE UNCHANGED pthreadVars
    BY <2>2 DEF pthreadVars, RelockInv, Relockable, PthreadInv, PthreadShape, MutexTells, Alone,
                Progress, Ready
  <2> QED BY <2>1, <2>2
<1>3. RelockInv => NobodyForgotten
  BY ThreadsAssumption
     DEF RelockInv, Relockable, PthreadInv, PthreadShape, MutexTells, Progress, NobodyForgotten,
         WaitersAreKnown, RelockNeverBlocks, Free
<1> QED BY <1>1, <1>2, <1>3, PTL DEF PthreadSpec

-----------------------------------------------------------------------------
(* The four together.                                                      *)

\* The composition lets each of the four behave as its own module says: what is
\* proved about one alone holds of guest threads that use all of them.
LEMMA ComposedOfFour ==
    Spec => PthreadSpec /\ DispatchSpec /\ TlvSpec /\ ThreadSpec
<1>1. Init => PthreadInit /\ DispatchInit /\ TlvInit /\ ThreadInit
  BY DEF Init
<1>2. [Next]_vars => /\ [PthreadNext]_pthreadVars /\ [DispatchNext]_dispatchVars
                     /\ [TlvNext]_tlvVars /\ [ThreadNext]_threadVars
  BY Zenon DEF Next, vars
<1> QED BY <1>1, <1>2, PTL DEF Spec, PthreadSpec, DispatchSpec, TlvSpec, ThreadSpec

\* Guest threads that use all four, and whose first uses of a mutex do not
\* overlap, within the reference counts that never reach the threshold.
THEOREM LibSystemSafe ==
    SerialFirstUse /\ ~TryFirst /\ FewReferences /\ Spec
        => [](MutualExclusion /\ NobodyForgotten /\ OnceRunsOnce /\ LivesWhileOwned
                /\ StableStorage /\ StartsOnItsOwn)
<1> SUFFICES ASSUME SerialFirstUse, ~TryFirst, FewReferences
             PROVE  Spec => [](MutualExclusion /\ NobodyForgotten /\ OnceRunsOnce /\ LivesWhileOwned
                                 /\ StableStorage /\ StartsOnItsOwn)
  OBVIOUS
<1>1. PthreadSpec => []MutualExclusion
  BY PthreadMutualExclusion
<1>2. PthreadSpec => []NobodyForgotten
  BY PthreadNobodyForgotten
<1>3. DispatchSpec => []LivesWhileOwned
  BY LivesExactlyWhileOwned
<1> QED
  BY <1>1, <1>2, <1>3, ComposedOfFour, BlockRunsOnce, TlvStable, ThreadsStartOnTheirOwn, PTL
=============================================================================
