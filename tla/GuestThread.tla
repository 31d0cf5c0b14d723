---------------------------- MODULE GuestThread ----------------------------
(***************************************************************************)
(* Native threads for the guest's pthreads: __darling_thread_create,       *)
(* darling_thread_entry and __darling_thread_terminate of                  *)
(* src/elfcalls/threads.c.                                                 *)
(*                                                                         *)
(* The creator passes its child a structure in its own stack frame and     *)
(* spins until the child has cleared the field pth; the child runs on a    *)
(* guest stack that it unmaps itself once it has jumped off it.            *)
(***************************************************************************)
EXTENDS Naturals, FiniteSets, GuestThreads

CONSTANTS
    Main,          \* the process's first thread, besides those the guest creates
    Stacks,        \* addresses mmap returns for a guest stack
    MainStack,     \* the stack the loader made for Main
    NoStack

ASSUME StacksAssumption ==
    /\ Main \notin Threads \cup {NoThread}
    /\ MainStack \notin Stacks /\ NoStack \notin Stacks \cup {MainStack}

Slots == Threads \cup {Main}

VARIABLES
    pc,      \* where a thread is
    args,    \* args.pth in the creator's frame: the child, NoThread once cleared
    creator, \* whose frame in_args points into
    stack,   \* the guest stack of a thread
    mapped,  \* the guest stacks that are mapped
    tsd      \* the threads whose thread-specific data has been set up

threadVars == <<pc, args, creator, stack, mapped, tsd>>

PCs == {"none",    \* no such thread
        "copy",    \* started, before the memcpy of the arguments
        "setup",   \* before the callbacks
        "clear",   \* before in_args->pth = NULL
        "run",     \* guest code, on the guest stack
        "spin",    \* waiting in __darling_thread_create
        "unmap",   \* after the longjmp, back on the native stack
        "detach",
        "hang"}    \* Main after __darling_thread_terminate

ThreadTypeOK ==
    /\ pc \in [Slots -> PCs]
    /\ args \in [Slots -> Slots \cup {NoThread}]
    /\ creator \in [Slots -> Slots \cup {NoThread}]
    /\ stack \in [Slots -> Stacks \cup {MainStack, NoStack}]
    /\ mapped \subseteq Stacks \cup {MainStack}
    /\ tsd \subseteq Slots

ThreadInit ==
    /\ pc = [t \in Slots |-> IF t = Main THEN "run" ELSE "none"]
    /\ args = [t \in Slots |-> NoThread]
    /\ creator = [t \in Slots |-> NoThread]
    /\ stack = [t \in Slots |-> IF t = Main THEN MainStack ELSE NoStack]
    /\ mapped = {MainStack}
    /\ tsd = {Main}

Goto(t, label) == pc' = [pc EXCEPT ![t] = label]

-----------------------------------------------------------------------------
(* __darling_thread_create: the stack is mapped (by the guest when it      *)
(* passes a pth of its own), the arguments are filled in, and whatever     *)
(* pthread_create returned the creator spins.                              *)
Create(t, child, s) ==
    /\ pc[t] = "run" /\ pc[child] = "none" /\ stack[child] = NoStack
    /\ s \notin mapped
    /\ mapped' = mapped \cup {s}
    /\ stack' = [stack EXCEPT ![child] = s]
    /\ args' = [args EXCEPT ![t] = child]
    /\ creator' = [creator EXCEPT ![child] = t]
    /\ \/ pc' = [pc EXCEPT ![t] = "spin", ![child] = "copy"]
       \/ pc' = [pc EXCEPT ![t] = "spin"] \* pthread_create failed
    /\ UNCHANGED tsd

\* Mutant: the creator does not wait for the child.
SpinNot(t) ==
    /\ pc[t] = "spin"
    /\ Goto(t, "run")
    /\ UNCHANGED <<args, creator, stack, mapped, tsd>>

Spin(t) ==
    /\ pc[t] = "spin" /\ args[t] = NoThread
    /\ Goto(t, "run")
    /\ UNCHANGED <<args, creator, stack, mapped, tsd>>

-----------------------------------------------------------------------------
(* darling_thread_entry.                                                   *)
Copy(t) ==
    /\ pc[t] = "copy"
    /\ Goto(t, "setup")
    /\ UNCHANGED <<args, creator, stack, mapped, tsd>>

\* The callbacks set the TSD base and fetch the thread's port.
Setup(t) ==
    /\ pc[t] = "setup"
    /\ tsd' = tsd \cup {t}
    /\ Goto(t, "clear")
    /\ UNCHANGED <<args, creator, stack, mapped>>

\* in_args->pth = NULL, the last use of in_args; then setjmp and the guest.
Clear(t) ==
    /\ pc[t] = "clear"
    /\ args' = [args EXCEPT ![creator[t]] = NoThread]
    /\ Goto(t, "run")
    /\ UNCHANGED <<creator, stack, mapped, tsd>>

-----------------------------------------------------------------------------
\* __darling_thread_terminate: Main hangs, the others longjmp.
Terminate(t) ==
    /\ pc[t] = "run"
    /\ Goto(t, IF t = Main THEN "hang" ELSE "unmap")
    /\ UNCHANGED <<args, creator, stack, mapped, tsd>>

Unmap(t) ==
    /\ pc[t] = "unmap"
    /\ mapped' = mapped \ {stack[t]}
    /\ stack' = [stack EXCEPT ![t] = NoStack]
    /\ Goto(t, "detach")
    /\ UNCHANGED <<args, creator, tsd>>

\* pthread_detach and the return from darling_thread_entry.
Detach(t) ==
    /\ pc[t] = "detach"
    /\ tsd' = tsd \ {t}
    /\ Goto(t, "none")
    /\ UNCHANGED <<args, creator, stack, mapped>>

Entry(t) == Copy(t) \/ Setup(t) \/ Clear(t)
Exit(t)  == Unmap(t) \/ Detach(t)

ThreadNext ==
    \E t \in Slots :
        \/ \E child \in Slots, s \in Stacks : Create(t, child, s)
        \/ Spin(t) \/ Entry(t) \/ Terminate(t) \/ Exit(t)

\* The kernel runs every runnable thread again and again.
ThreadFairness ==
    \A t \in Slots : WF_threadVars(Spin(t)) /\ WF_threadVars(Entry(t)) /\ WF_threadVars(Exit(t))

ThreadSpec == ThreadInit /\ [][ThreadNext]_threadVars /\ ThreadFairness
-----------------------------------------------------------------------------
\* While a child may still read or write in_args, its creator has not left the
\* frame the structure lives in, and the structure is the one made for it.
ArgsOutliveTheirUse ==
    \A t \in Slots : pc[t] \in {"copy", "setup", "clear"} =>
        pc[creator[t]] = "spin" /\ args[creator[t]] = t

\* Guest code runs on a mapped stack that no other thread uses, even when the
\* address of a terminated thread's stack is handed out again.
OwnMappedStack ==
    /\ \A t \in Slots : pc[t] \in {"run", "spin", "hang"} => stack[t] \in mapped
    /\ \A t, u \in Slots : t # u /\ stack[t] # NoStack => stack[t] # stack[u]

\* What a thread starts from is its own: its arguments until it has read them,
\* its stack until it has gone.
StartsOnItsOwn == ArgsOutliveTheirUse /\ OwnMappedStack

\* If its child was started, __darling_thread_create returns.  (Otherwise it
\* spins for ever: the result of pthread_create is not looked at.)
CreateReturns ==
    \A t \in Slots :
        (pc[t] = "spin" /\ \E child \in Slots : args[t] = child /\ pc[child] = "copy")
            ~> pc[t] = "run"

\* A thread that terminates gives its stack and its native thread back.
TerminatedIsReclaimed ==
    \A t \in Slots : pc[t] = "unmap" ~> (pc[t] = "none" /\ stack[t] = NoStack)
=============================================================================
