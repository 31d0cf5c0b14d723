---------------------------- MODULE DispatchShim ----------------------------
(***************************************************************************)
(* The libdispatch emulation of src/shim/libsystem_shim.c: dispatch_once,  *)
(* reference counted objects, semaphores.  Blocks run inline in the thread *)
(* that submits them, so a queue is nothing but an object with a count.    *)
(***************************************************************************)
EXTENDS Naturals, Integers, FiniteSets, GuestThreads

CONSTANTS
    Immortal, \* the count from which an object is never freed (100)
    MaxKept,  \* bound: references to the semaphore one thread holds
    MaxSem    \* bound: signals not consumed yet

ASSUME DispatchAssumption ==
    Immortal \in Nat \ {0} /\ MaxKept \in Nat \ {0} /\ MaxSem \in Nat

Objects == {"semaphore", "global"} \* a created object and a global queue

VARIABLES
    predicate, \* dispatch_once's word: 0, 1 while the block runs, -1 after
    runs,      \* how often the block has been run
    refcount, freed,
    value,     \* the POSIX semaphore behind the semaphore object
    dispatch_pc, \* "idle", or where in a call a thread is
    target,    \* the object of the call
    kept       \* the references a thread still owns

dispatchVars == <<predicate, runs, refcount, freed, value, dispatch_pc, target, kept>>

DispatchTypeOK ==
    /\ predicate \in {0, 1, -1}
    /\ runs \in Nat
    /\ refcount \in [Objects -> Int]
    /\ freed \in [Objects -> BOOLEAN]
    /\ value \in 0..MaxSem
    /\ dispatch_pc \in [Threads -> {"idle", "block", "spin", "sub", "sem_wait", "sem_timed"}]
    /\ target \in [Threads -> Objects]
    /\ kept \in [Threads -> 0..MaxKept]

DispatchInit ==
    /\ predicate = 0 /\ runs = 0
    /\ refcount = [o \in Objects |-> IF o = "global" THEN Immortal ELSE 1]
    /\ freed = [o \in Objects |-> FALSE]
    /\ value = 0
    /\ dispatch_pc = [t \in Threads |-> "idle"]
    /\ target = [t \in Threads |-> "global"]
    /\ \E creator \in Threads : \* dispatch_semaphore_create
          kept = [t \in Threads |-> IF t = creator THEN 1 ELSE 0]

DispatchGoto(t, label) == dispatch_pc' = [dispatch_pc EXCEPT ![t] = label]
object == <<refcount, freed, value, target, kept>>
once   == <<predicate, runs>>

-----------------------------------------------------------------------------
\* Mutant: a thread that does not find the block done runs it.
OnceNotExclusive(t) ==
    /\ dispatch_pc[t] = "idle"
    /\ IF predicate # -1 THEN predicate' = 1 /\ DispatchGoto(t, "block")
                         ELSE UNCHANGED predicate /\ DispatchGoto(t, "spin")
    /\ UNCHANGED <<runs, object>>

(* dispatch_once: the compare-and-swap elects the thread that runs the     *)
(* block; the others spin until the word says that it is done.             *)
Once(t) ==
    /\ dispatch_pc[t] = "idle"
    /\ IF predicate = 0 THEN predicate' = 1 /\ DispatchGoto(t, "block")
                        ELSE UNCHANGED predicate /\ DispatchGoto(t, "spin")
    /\ UNCHANGED <<runs, object>>

\* Mutant: the word is not set after the block.
RunBlockKeepsWord(t) ==
    /\ dispatch_pc[t] = "block"
    /\ runs' = runs + 1
    /\ DispatchGoto(t, "idle")
    /\ UNCHANGED <<predicate, object>>

RunBlock(t) ==
    /\ dispatch_pc[t] = "block"
    /\ runs' = runs + 1
    /\ predicate' = -1
    /\ DispatchGoto(t, "idle")
    /\ UNCHANGED object

OnceSpin(t) ==
    /\ dispatch_pc[t] = "spin" /\ predicate = -1
    /\ DispatchGoto(t, "idle")
    /\ UNCHANGED <<once, object>>

-----------------------------------------------------------------------------
(* Retain and release.  The guest uses the semaphore only while it owns a  *)
(* reference; a global queue may be used and released by anybody.          *)
MayUse(t, o) == dispatch_pc[t] = "idle" /\ (o = "semaphore" => kept[t] > 0)

Retain(t, o) ==
    /\ MayUse(t, o)
    /\ o = "semaphore" => kept[t] < MaxKept
    /\ o = "global" => refcount[o] < Immortal + MaxKept
    /\ refcount' = [refcount EXCEPT ![o] = @ + 1]
    /\ kept' = IF o = "semaphore" THEN [kept EXCEPT ![t] = @ + 1] ELSE kept
    /\ UNCHANGED <<once, freed, value, dispatch_pc, target>>

\* One thread gives one of its references to another one.
Share(t, u) ==
    /\ t # u /\ dispatch_pc[t] = "idle" /\ kept[t] > 0 /\ kept[u] < MaxKept
    /\ kept' = [kept EXCEPT ![t] = @ - 1, ![u] = @ + 1]
    /\ UNCHANGED <<once, refcount, freed, value, dispatch_pc, target>>

\* dispatch_release reads the count first and decrements it atomically after.
ReleaseCheck(t, o) ==
    /\ MayUse(t, o)
    /\ kept' = IF o = "semaphore" THEN [kept EXCEPT ![t] = @ - 1] ELSE kept
    /\ IF refcount[o] > Immortal - 1
          THEN UNCHANGED <<dispatch_pc, target>>
          ELSE DispatchGoto(t, "sub") /\ target' = [target EXCEPT ![t] = o]
    /\ UNCHANGED <<once, refcount, freed, value>>

\* Mutant: the object is freed one reference too early.
ReleaseSubEarly(t) ==
    /\ dispatch_pc[t] = "sub"
    /\ LET o == target[t] IN
          /\ refcount' = [refcount EXCEPT ![o] = @ - 1]
          /\ freed' = [freed EXCEPT ![o] = @ \/ refcount[o] - 1 <= 1]
    /\ DispatchGoto(t, "idle")
    /\ UNCHANGED <<once, value, target, kept>>

ReleaseSub(t) ==
    /\ dispatch_pc[t] = "sub"
    /\ LET o == target[t] IN
          /\ refcount' = [refcount EXCEPT ![o] = @ - 1]
          /\ freed' = [freed EXCEPT ![o] = @ \/ refcount[o] - 1 <= 0]
    /\ DispatchGoto(t, "idle")
    /\ UNCHANGED <<once, value, target, kept>>

-----------------------------------------------------------------------------
(* Semaphores: forever, now, or until a timeout.                           *)
SemSignal(t) ==
    /\ MayUse(t, "semaphore")
    /\ value < MaxSem
    /\ value' = value + 1
    /\ UNCHANGED <<once, refcount, freed, dispatch_pc, target, kept>>

SemWait(t, forever) ==
    /\ MayUse(t, "semaphore")
    /\ DispatchGoto(t, IF forever THEN "sem_wait" ELSE "sem_timed")
    /\ UNCHANGED <<once, object>>

SemTake(t) ==
    /\ dispatch_pc[t] \in {"sem_wait", "sem_timed"} /\ value > 0
    /\ value' = value - 1
    /\ DispatchGoto(t, "idle")
    /\ UNCHANGED <<once, refcount, freed, target, kept>>

SemTimeout(t) ==
    /\ dispatch_pc[t] = "sem_timed" /\ value = 0
    /\ DispatchGoto(t, "idle")
    /\ UNCHANGED <<once, object>>

DispatchStep(t) ==
    \/ Once(t) \/ RunBlock(t) \/ OnceSpin(t)
    \/ \E o \in Objects : Retain(t, o) \/ ReleaseCheck(t, o)
    \/ \E u \in Threads : Share(t, u)
    \/ ReleaseSub(t)
    \/ SemSignal(t) \/ SemTake(t) \/ SemTimeout(t)
    \/ \E forever \in BOOLEAN : SemWait(t, forever)

DispatchNext == \E t \in Threads : DispatchStep(t)

\* A block that runs ends, and a thread that spins is scheduled again.
DispatchFairness ==
    \A t \in Threads : WF_dispatchVars(RunBlock(t)) /\ WF_dispatchVars(OnceSpin(t))

DispatchSpec == DispatchInit /\ [][DispatchNext]_dispatchVars /\ DispatchFairness
-----------------------------------------------------------------------------
Kept == {t \in Threads : kept[t] > 0}

\* The block runs at most once, and nobody leaves dispatch_once while it runs
\* or before it has run.
OnceRunsOnce ==
    /\ runs <= 1
    /\ predicate = -1 <=> runs = 1
    /\ Cardinality({t \in Threads : dispatch_pc[t] = "block"}) = IF predicate = 1 THEN 1 ELSE 0

\* A thread that finds the block running gets out again.
OnceReturns == \A t \in Threads : dispatch_pc[t] = "spin" ~> dispatch_pc[t] = "idle"

\* An object is not freed under a thread that owns a reference or that is in
\* the middle of giving one back; the global queues are never freed.
LiveWhileReferenced ==
    /\ ~freed["global"]
    /\ freed["semaphore"] =>
          Kept = {} /\ \A t \in Threads : dispatch_pc[t] = "sub" => target[t] = "global"

\* "global queues, never free": only those.  Once nobody owns a reference to a
\* created object, it is gone.
UnreferencedIsFreed ==
    (Kept = {} /\ \A t \in Threads : dispatch_pc[t] # "sub") => freed["semaphore"]

\* An object lives exactly as long as somebody owns a reference, however the
\* counts of concurrent retains and releases interleave.
LivesWhileOwned == LiveWhileReferenced /\ UnreferencedIsFreed
=============================================================================
