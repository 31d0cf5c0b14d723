---------------------------- MODULE TlvBootstrap ----------------------------
(***************************************************************************)
(* Mach-O thread-local variables: _tlv_bootstrap of                        *)
(* src/shim/libsystem_shim.c.  A descriptor gets a pthread key under       *)
(* double-checked locking; a thread gets one block per key.                *)
(*                                                                         *)
(* tlv_mutex is a plain mutex: the shim is opened with dlopen, so its own  *)
(* calls of pthread_mutex_lock bind to libc's and not to its wrapper.      *)
(***************************************************************************)
EXTENDS Naturals, FiniteSets, GuestThreads

VARIABLES
    key,       \* desc->key, 0 until a key has been created
    keys,      \* pthread_key_create calls so far
    tlv_mutex, \* the thread that holds it
    tlv_pc,    \* where a thread is in _tlv_bootstrap
    local,     \* the thread's local variable key
    returned   \* the keys whose block a thread has been given since it started

tlvVars == <<key, keys, tlv_mutex, tlv_pc, local, returned>>

TlvTypeOK ==
    /\ keys \in 0..Cardinality(Threads)
    /\ key \in 0..keys
    /\ tlv_mutex \in Threads \cup {NoThread}
    /\ tlv_pc \in [Threads -> {"idle", "lock", "recheck", "create", "store",
                           "unlock", "read", "get"}]
    /\ local \in [Threads -> 0..keys]
    /\ returned \in [Threads -> SUBSET (1..keys)]

TlvInit ==
    /\ key = 0 /\ keys = 0
    /\ tlv_mutex = NoThread
    /\ tlv_pc = [t \in Threads |-> "idle"]
    /\ local = [t \in Threads |-> 0]
    /\ returned = [t \in Threads |-> {}]

TlvGoto(t, label) == tlv_pc' = [tlv_pc EXCEPT ![t] = label]

\* The first, unlocked look at desc->key.
Access(t) ==
    /\ tlv_pc[t] = "idle"
    /\ TlvGoto(t, IF key = 0 THEN "lock" ELSE "read")
    /\ UNCHANGED <<key, keys, tlv_mutex, local, returned>>

TlvLock(t) ==
    /\ tlv_pc[t] = "lock" /\ tlv_mutex = NoThread
    /\ tlv_mutex' = t
    /\ TlvGoto(t, "recheck")
    /\ UNCHANGED <<key, keys, local, returned>>

\* Mutant: the key is not looked at again under the lock.
RecheckNot(t) ==
    /\ tlv_pc[t] = "recheck"
    /\ TlvGoto(t, "create")
    /\ UNCHANGED <<key, keys, tlv_mutex, local, returned>>

\* The second look, with the mutex held.
Recheck(t) ==
    /\ tlv_pc[t] = "recheck"
    /\ TlvGoto(t, IF key = 0 THEN "create" ELSE "unlock")
    /\ UNCHANGED <<key, keys, tlv_mutex, local, returned>>

CreateKey(t) ==
    /\ tlv_pc[t] = "create"
    /\ keys' = keys + 1
    /\ local' = [local EXCEPT ![t] = keys + 1]
    /\ TlvGoto(t, "store")
    /\ UNCHANGED <<tlv_mutex, key, returned>>

StoreKey(t) ==
    /\ tlv_pc[t] = "store"
    /\ key' = local[t]
    /\ TlvGoto(t, "unlock")
    /\ UNCHANGED <<tlv_mutex, keys, local, returned>>

TlvUnlock(t) ==
    /\ tlv_pc[t] = "unlock"
    /\ tlv_mutex' = NoThread
    /\ TlvGoto(t, "read")
    /\ UNCHANGED <<key, keys, local, returned>>

\* desc->key is read once more, and the key's block is looked up or made.
ReadKey(t) ==
    /\ tlv_pc[t] = "read"
    /\ local' = [local EXCEPT ![t] = key]
    /\ TlvGoto(t, "get")
    /\ UNCHANGED <<tlv_mutex, key, keys, returned>>

GetBlock(t) ==
    /\ tlv_pc[t] = "get"
    /\ returned' = [returned EXCEPT ![t] = @ \cup {local[t]}]
    /\ TlvGoto(t, "idle")
    /\ UNCHANGED <<tlv_mutex, key, keys, local>>

\* The thread ends and tlv_destructor frees its blocks; another one starts.
ThreadEnds(t) ==
    /\ tlv_pc[t] = "idle" /\ returned[t] # {}
    /\ returned' = [returned EXCEPT ![t] = {}]
    /\ UNCHANGED <<tlv_mutex, key, keys, tlv_pc, local>>

TlvNext == \E t \in Threads :
    \/ Access(t) \/ TlvLock(t) \/ Recheck(t) \/ CreateKey(t) \/ StoreKey(t)
    \/ TlvUnlock(t) \/ ReadKey(t) \/ GetBlock(t) \/ ThreadEnds(t)

TlvSpec == TlvInit /\ [][TlvNext]_tlvVars
-----------------------------------------------------------------------------
\* The thunk "must return a pointer to per-thread storage for the variable":
\* the same storage every time, for as long as the thread lives.
StableStorage == \A t \in Threads : Cardinality(returned[t]) <= 1
=============================================================================
