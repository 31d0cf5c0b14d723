------------------------------ MODULE LibSystem -----------------------------
(***************************************************************************)
(* What guest threads call of the system: mutexes and condition variables, *)
(* libdispatch, thread-local variables, and the threads themselves         *)
(* (src/shim/libsystem_shim.c, src/elfcalls/threads.c).                    *)
(*                                                                         *)
(* The four share no memory, and each module lets its threads make any     *)
(* calls at any time.  Steps of different components commute, and a        *)
(* behaviour of one is not changed by steps of the others in between: it   *)
(* is enough to let one of them run, whichever.                            *)
(***************************************************************************)
EXTENDS PthreadShim, DispatchShim, TlvBootstrap, GuestThread

VARIABLE running \* the component that runs

vars == <<pthreadVars, dispatchVars, tlvVars, threadVars, running>>

Init ==
    /\ running \in {"pthread", "dispatch", "tlv", "thread"}
    /\ PthreadInit /\ DispatchInit /\ TlvInit /\ ThreadInit
    /\ running # "pthread" =>
          mutex = StartedAs(CHOOSE start \in Starts : TRUE) /\ cond = ZeroCond
    /\ running # "dispatch" =>
          kept = [t \in Threads |-> IF t = CHOOSE u \in Threads : TRUE THEN 1 ELSE 0]

Next ==
    /\ UNCHANGED running
    /\ \/ running = "pthread" /\ PthreadNext /\ UNCHANGED <<dispatchVars, tlvVars, threadVars>>
       \/ running = "dispatch" /\ DispatchNext /\ UNCHANGED <<pthreadVars, tlvVars, threadVars>>
       \/ running = "tlv" /\ TlvNext /\ UNCHANGED <<pthreadVars, dispatchVars, threadVars>>
       \/ running = "thread" /\ ThreadNext /\ UNCHANGED <<pthreadVars, dispatchVars, tlvVars>>

Spec == Init /\ [][Next]_vars /\ DispatchFairness /\ ThreadFairness

\* A call that waits for another thread comes back: dispatch_once when the
\* block is run by somebody else, __darling_thread_create when its child has
\* been started; and a thread that terminates gives its stack and its native
\* thread back.
CallsReturn == OnceReturns /\ CreateReturns /\ TerminatedIsReclaimed
=============================================================================
