----------------------------- MODULE AtomicOps ------------------------------
(***************************************************************************)
(* What the ARMv8.1 atomic instructions promise: the read of the word, its *)
(* update and the result are one step, whatever other processors do.       *)
(***************************************************************************)
EXTENDS Integers

CONSTANTS Threads, M, Instructions, NoResult

VARIABLES
    mem,    \* the word that the threads share
    instr,  \* thread -> the instruction it executes
    result  \* thread -> the old value, once the instruction has taken effect

atomicVars == <<mem, instr, result>>

\* The operand and the expected value are as wide as the word.
Narrow(v) == v % M
Signed(v) == IF 2 * v >= M THEN v - M ELSE v

Updated(i, old) ==
    LET rs == Narrow(i.rs)
    IN  CASE i.op = "LDADD" -> (old + rs) % M
          [] i.op = "SWP" -> rs
          [] i.op = "CAS" -> IF old = rs THEN Narrow(i.rt) ELSE old
          [] i.op = "LDUMAX" -> IF old < rs THEN rs ELSE old
          [] i.op = "LDUMIN" -> IF old > rs THEN rs ELSE old
          [] i.op = "LDSMIN" -> IF Signed(old) > Signed(rs) THEN rs ELSE old
          [] i.op = "LDSMAX" -> IF Signed(old) < Signed(rs) THEN rs ELSE old

AtomicInit ==
    /\ mem \in 0..(M - 1)
    /\ instr \in [Threads -> Instructions]
    /\ result = [t \in Threads |-> NoResult]

Effect(t) ==
    /\ result[t] = NoResult
    /\ mem' = Updated(instr[t], mem)
    /\ result' = [result EXCEPT ![t] = mem]
    /\ UNCHANGED instr

AtomicNext == \E t \in Threads : Effect(t)
AtomicSpec == AtomicInit /\ [][AtomicNext]_atomicVars
=============================================================================
