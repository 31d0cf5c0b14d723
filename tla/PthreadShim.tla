---------------------------- MODULE PthreadShim ----------------------------
(***************************************************************************)
(* The pthread mutex and condition variable wrappers of                    *)
(* src/shim/libsystem_shim.c.  A guest object that still carries Apple's   *)
(* static initialiser is rewritten in place on first use, in several       *)
(* unsynchronised steps; the glibc functions behind it are external.       *)
(*                                                                         *)
(* One mutex and one condition variable, used by a set of guest threads.   *)
(* Every read or write of the object's memory is a step of its own.        *)
(***************************************************************************)
EXTENDS Naturals, FiniteSets, GuestThreads

CONSTANTS
    MaxDepth,       \* bound: how deep the guest re-locks
    Starts,         \* how the guest initialised the mutex
    SerialFirstUse, \* the guest's first calls do not overlap
    TryFirst        \* the guest may trylock a zero mutex nobody locked yet

ASSUME PthreadAssumption ==
    /\ MaxDepth \in Nat \ {0}
    /\ Starts \subseteq {"static", "zero", "call"}
    /\ SerialFirstUse \in BOOLEAN /\ TryFirst \in BOOLEAN

VARIABLES
    mutex,          \* the mutex's memory: signature, kind, owner, recursion count
    cond,           \* the condition variable's memory: signature, waiters
    pthread_pc, op, \* where a thread is, and in which wrapper
    depth           \* how often a thread was told it has the mutex

pthreadVars == <<mutex, cond, pthread_pc, op, depth>>

-----------------------------------------------------------------------------
(* The memory of the objects.                                              *)
Mutex(sig, kind) == [sig |-> sig, kind |-> kind, owner |-> NoThread, count |-> 0]
DarwinMutex    == Mutex(TRUE, "normal")
ZeroMutex      == Mutex(FALSE, "normal")    \* also what memset leaves
RecursiveMutex == Mutex(FALSE, "recursive") \* what real_pthread_mutex_init leaves

DarwinCond == [sig |-> TRUE, waiters |-> {}]
ZeroCond   == [sig |-> FALSE, waiters |-> {}]

Calls == {"lock", "trylock", "wait", "signal", "broadcast"}
PthreadPCs ==
    {"idle", "fix_mutex", "memset_mutex", "init_mutex", "zero_check", "zero_init",
     "acquire", "try", "fix_cond", "init_cond", "wait", "waiting", "reacquire", "signal"}

PthreadTypeOK ==
    /\ mutex \in [sig : BOOLEAN, kind : {"normal", "recursive"},
                  owner : Threads \cup {NoThread}, count : 0..(MaxDepth + 1)]
    /\ cond \in [sig : BOOLEAN, waiters : SUBSET Threads]
    /\ pthread_pc \in [Threads -> PthreadPCs]
    /\ op \in [Threads -> Calls]
    /\ depth \in [Threads -> 0..MaxDepth]

\* Apple's static initialiser, zeroed memory, or pthread_mutex_init.
StartedAs(start) == CASE start = "static" -> DarwinMutex
                      [] start = "zero" -> ZeroMutex
                      [] start = "call" -> RecursiveMutex

PthreadInit ==
    /\ mutex \in {StartedAs(start) : start \in Starts}
    /\ cond \in {DarwinCond, ZeroCond}
    /\ pthread_pc = [t \in Threads |-> "idle"]
    /\ op = [t \in Threads |-> "lock"]
    /\ depth = [t \in Threads |-> 0]

PthreadGoto(t, label) == pthread_pc' = [pthread_pc EXCEPT ![t] = label]

\* The objects have been rewritten for Linux.
Ready == mutex.kind = "recursive" /\ ~cond.sig

MayEnter(t) ==
    /\ pthread_pc[t] = "idle"
    /\ SerialFirstUse => Ready \/ \A u \in Threads : pthread_pc[u] = "idle"

Enter(t, call, label) ==
    /\ MayEnter(t)
    /\ op' = [op EXCEPT ![t] = call]
    /\ PthreadGoto(t, label)
    /\ UNCHANGED <<mutex, cond, depth>>

-----------------------------------------------------------------------------
(* The calls the guest makes.  It waits only with the mutex locked once.   *)
CallLock(t) == depth[t] < MaxDepth /\ Enter(t, "lock", "fix_mutex")
CallTrylock(t) ==
    /\ depth[t] < MaxDepth
    /\ TryFirst \/ mutex # ZeroMutex
    /\ Enter(t, "trylock", "fix_mutex")
CallWait(t) == depth[t] = 1 /\ Enter(t, "wait", "fix_cond")
CallSignal(t) == \E call \in {"signal", "broadcast"} : Enter(t, call, "fix_cond")

\* fixup_mutex: read the signature, clear the object, initialise it.
AfterFix(t) == CASE op[t] = "lock" -> "zero_check"
                 [] op[t] = "trylock" -> "try"
                 [] op[t] = "wait" -> "wait"

\* Mutant: the signature is not compared and every object is re-initialised.
FixMutexAlways(t) ==
    /\ pthread_pc[t] = "fix_mutex"
    /\ PthreadGoto(t, "memset_mutex")
    /\ UNCHANGED <<mutex, cond, op, depth>>

FixMutex(t) ==
    /\ pthread_pc[t] = "fix_mutex"
    /\ PthreadGoto(t, IF mutex.sig THEN "memset_mutex" ELSE AfterFix(t))
    /\ UNCHANGED <<mutex, cond, op, depth>>

MemsetMutex(t) ==
    /\ pthread_pc[t] = "memset_mutex"
    /\ mutex' = ZeroMutex
    /\ PthreadGoto(t, "init_mutex")
    /\ UNCHANGED <<cond, op, depth>>

InitMutex(t) ==
    /\ pthread_pc[t] = "init_mutex"
    /\ mutex' = RecursiveMutex
    /\ PthreadGoto(t, AfterFix(t))
    /\ UNCHANGED <<cond, op, depth>>

\* pthread_mutex_lock: an all-zero mutex is made recursive as well.
ZeroCheck(t) ==
    /\ pthread_pc[t] = "zero_check"
    /\ PthreadGoto(t, IF mutex = ZeroMutex THEN "zero_init" ELSE "acquire")
    /\ UNCHANGED <<mutex, cond, op, depth>>

ZeroInit(t) ==
    /\ pthread_pc[t] = "zero_init"
    /\ mutex' = RecursiveMutex
    /\ PthreadGoto(t, "acquire")
    /\ UNCHANGED <<cond, op, depth>>

-----------------------------------------------------------------------------
(* glibc behind the wrappers (external).                                   *)
Free(t) == mutex.owner = NoThread \/ (mutex.owner = t /\ mutex.kind = "recursive")

Take(t) == mutex' = [mutex EXCEPT !.owner = t, !.count = @ + 1]

Acquire(t) ==
    /\ pthread_pc[t] \in {"acquire", "reacquire"}
    /\ Free(t)
    /\ Take(t)
    /\ depth' = [depth EXCEPT ![t] = @ + 1]
    /\ PthreadGoto(t, "idle")
    /\ UNCHANGED <<cond, op>>

Try(t) ==
    /\ pthread_pc[t] = "try"
    /\ IF Free(t)
          THEN Take(t) /\ depth' = [depth EXCEPT ![t] = @ + 1]
          ELSE UNCHANGED <<mutex, depth>>
    /\ PthreadGoto(t, "idle")
    /\ UNCHANGED <<cond, op>>

\* A recursive mutex that the caller does not own refuses the unlock.
Release(t) ==
    IF mutex.kind = "recursive" /\ mutex.owner # t THEN UNCHANGED mutex
    ELSE mutex' = IF mutex.kind = "recursive" /\ mutex.count > 1
                  THEN [mutex EXCEPT !.count = @ - 1]
                  ELSE [mutex EXCEPT !.owner = NoThread, !.count = 0]

\* pthread_mutex_unlock has no fix-up to make.
MutexUnlock(t) ==
    /\ pthread_pc[t] = "idle" /\ depth[t] > 0
    /\ Release(t)
    /\ depth' = [depth EXCEPT ![t] = @ - 1]
    /\ UNCHANGED <<cond, pthread_pc, op>>

-----------------------------------------------------------------------------
\* Mutant: the signature is not compared and every object is re-initialised.
FixCondAlways(t) ==
    /\ pthread_pc[t] = "fix_cond"
    /\ PthreadGoto(t, "init_cond")
    /\ UNCHANGED <<mutex, cond, op, depth>>

\* fixup_cond, before wait, signal and broadcast.
FixCond(t) ==
    /\ pthread_pc[t] = "fix_cond"
    /\ PthreadGoto(t, IF cond.sig THEN "init_cond"
                      ELSE IF op[t] = "wait" THEN "fix_mutex" ELSE "signal")
    /\ UNCHANGED <<mutex, cond, op, depth>>

InitCond(t) ==
    /\ pthread_pc[t] = "init_cond"
    /\ cond' = ZeroCond
    /\ PthreadGoto(t, IF op[t] = "wait" THEN "fix_mutex" ELSE "signal")
    /\ UNCHANGED <<mutex, op, depth>>

Wait(t) ==
    /\ pthread_pc[t] = "wait"
    /\ Release(t)
    /\ cond' = [cond EXCEPT !.waiters = @ \cup {t}]
    /\ depth' = [depth EXCEPT ![t] = 0]
    /\ PthreadGoto(t, "waiting")
    /\ UNCHANGED op

Signal(t) ==
    /\ pthread_pc[t] = "signal"
    /\ \E woken \in SUBSET cond.waiters :
          /\ IF op[t] = "broadcast" THEN woken = cond.waiters
             ELSE Cardinality(woken) = IF cond.waiters = {} THEN 0 ELSE 1
          /\ cond' = [cond EXCEPT !.waiters = @ \ woken]
          /\ pthread_pc' = [u \in Threads |-> IF u = t THEN "idle"
                                      ELSE IF u \in woken THEN "reacquire" ELSE pthread_pc[u]]
    /\ UNCHANGED <<mutex, op, depth>>

\* A timed wait runs out of time, or glibc wakes a waiter up for no reason.
WakeUp(t) ==
    /\ pthread_pc[t] = "waiting"
    /\ cond' = [cond EXCEPT !.waiters = @ \ {t}]
    /\ PthreadGoto(t, "reacquire")
    /\ UNCHANGED <<mutex, op, depth>>

PthreadStep(t) ==
    \/ CallLock(t) \/ CallTrylock(t) \/ CallWait(t) \/ CallSignal(t)
    \/ FixMutex(t) \/ MemsetMutex(t) \/ InitMutex(t) \/ ZeroCheck(t) \/ ZeroInit(t)
    \/ Acquire(t) \/ Try(t) \/ MutexUnlock(t)
    \/ FixCond(t) \/ InitCond(t) \/ Wait(t) \/ Signal(t) \/ WakeUp(t)

PthreadNext == \E t \in Threads : PthreadStep(t)

PthreadSpec == PthreadInit /\ [][PthreadNext]_pthreadVars
-----------------------------------------------------------------------------
\* Two threads are never told that they have the mutex at the same time.
MutualExclusion ==
    \A t, u \in Threads : depth[t] > 0 /\ depth[u] > 0 => t = u

\* A thread that waits on the condition variable is one a signal can find: the
\* rewriting of the object by another thread's first use does not forget it.
WaitersAreKnown == \A t \in Threads : pthread_pc[t] = "waiting" => t \in cond.waiters

\* "We need wrappers that detect macOS-format pthread objects and re-init them
\* for Linux before use": while somebody holds the mutex, no thread is about to
\* rewrite its memory.
ReinitBeforeUse ==
    \A t, u \in Threads :
        pthread_pc[t] \in {"memset_mutex", "init_mutex", "zero_init"} => depth[u] = 0

\* "macOS game code may re-lock from the same thread": a thread never waits in
\* pthread_mutex_lock for a mutex that it holds itself.
RelockNeverBlocks ==
    \A t \in Threads : pthread_pc[t] = "acquire" /\ depth[t] > 0 => Free(t)

\* However the two objects are rewritten on their first use, nobody is left
\* waiting for what cannot come: no waiter is forgotten and no owner blocks on
\* its own mutex.
NobodyForgotten == WaitersAreKnown /\ RelockNeverBlocks
=============================================================================
