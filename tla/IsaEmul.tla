------------------------------ MODULE IsaEmul -------------------------------
(***************************************************************************)
(* The islands of isa_emul.c: an ARMv8.1 atomic instruction is replaced by *)
(* a branch to a loop of load-exclusive and store-exclusive; ARMv8.2's     *)
(* BCAX by two instructions.  Threads run islands for the same word.       *)
(*                                                                         *)
(* A register is wider than the word that a byte or halfword instruction   *)
(* works on: it holds 0..Wide(i)-1, the word 0..M-1.                       *)
(***************************************************************************)
EXTENDS Integers, Sequences, SequencesExt

CONSTANTS
    Threads,
    M,            \* values of the word
    Instructions, \* records [op, narrow, sp, rs, rt]
    Bcax,         \* the register numbers of a BCAX: [vd, vn, vm, va]
    NoResult

ASSUME IsaAssumption == M \in Nat \ {0} /\ NoResult \notin 0..(M - 1)

VARIABLES
    mem,     \* the shared word
    instr,   \* thread -> the instruction whose island it runs
    step,    \* thread -> where in the island it is
    scratch, \* thread -> the scratch registers
    flags,   \* thread -> NZCV
    stack,   \* thread -> what the island has pushed
    monitor, \* threads whose exclusive monitor is set
    old,     \* thread -> what the instruction has put into Rt (or Rs, for CAS)
    simd     \* NEON registers before and after a BCAX, and which BCAX it was

isaVars == <<mem, instr, step, scratch, flags, stack, monitor, old, simd>>

\* What decode_lse makes of a word is taken as given here, a SWP whose opc it
\* does not look at included; so is that its branch to the island was written.
IsCas(t) == instr[t].op = "CAS"
Scratches(t) == IF IsCas(t) THEN <<"s1", "s2">> ELSE <<"s1", "s2", "s3">>
\* Recognisable values that the interrupted code has in its registers.
Before == [s1 |-> 11, s2 |-> 12, s3 |-> 13]
Flags == 6
NoSimd == [regs |-> <<>>, op |-> <<>>, after |-> <<>>]

IsaInit ==
    /\ mem \in 0..(M - 1)
    /\ instr \in [Threads -> Instructions]
    /\ step = [t \in Threads |-> "save"]
    /\ scratch = [t \in Threads |-> Before]
    /\ flags = [t \in Threads |-> Flags]
    /\ stack = [t \in Threads |-> <<>>]
    /\ monitor = {}
    /\ old = [t \in Threads |-> NoResult]
    /\ simd = NoSimd

\* The scratch registers and NZCV go to the stack.
Save(t) ==
    /\ step[t] = "save"
    /\ stack' = [stack EXCEPT ![t] =
                   [k \in DOMAIN Scratches(t) |-> scratch[t][Scratches(t)[k]]] \o <<flags[t]>>]
    /\ step' = [step EXCEPT ![t] = "ldxr"]
    /\ UNCHANGED <<mem, instr, scratch, flags, monitor, old, simd>>

\* The register that the load-exclusive fills.
LoadedValue(t) == IF IsCas(t) THEN scratch[t].s2 ELSE scratch[t].s1

\* The base register is used after the pushes: if it is sp, the island works on
\* what it has pushed last.
Ldxr(t) ==
    LET v == IF instr[t].sp THEN Last(stack[t]) ELSE mem
    IN  /\ step[t] = "ldxr"
        /\ scratch' = [scratch EXCEPT ![t] = IF IsCas(t) THEN [@ EXCEPT !.s2 = v] ELSE [@ EXCEPT !.s1 = v]]
        /\ monitor' = monitor \cup {t}
        /\ step' = [step EXCEPT ![t] = "compute"]
        /\ UNCHANGED <<mem, instr, flags, stack, old, simd>>

SignedValue(v) == IF 2 * v >= M THEN v - M ELSE v

\* What is to be stored; a narrow signed comparison extends both operands, the
\* unsigned one takes the registers as they are.
NewValue(i, v) ==
    CASE i.op = "LDADD" -> v + i.rs
      [] i.op = "SWP" -> i.rs
      [] i.op = "CAS" -> i.rt
      [] i.op = "LDUMAX" -> IF v < i.rs THEN i.rs ELSE v
      [] i.op = "LDUMIN" -> IF v > i.rs THEN i.rs ELSE v
      [] i.op = "LDSMAX" -> IF SignedValue(v) < SignedValue(i.rs % M) THEN i.rs ELSE v
      [] i.op = "LDSMIN" -> IF SignedValue(v) > SignedValue(i.rs % M) THEN i.rs ELSE v

\* LDCLR, LDEOR and LDSET compute their value like LDADD, without a comparison.
Compares(i) == i.op \notin {"LDADD", "SWP"}

Compute(t) ==
    /\ step[t] = "compute"
    /\ IF IsCas(t) /\ LoadedValue(t) # instr[t].rs
       THEN step' = [step EXCEPT ![t] = "restore"] /\ monitor' = monitor \ {t}
       ELSE step' = [step EXCEPT ![t] = "stxr"] /\ UNCHANGED monitor
    /\ scratch' = IF IsCas(t) THEN scratch
            ELSE [scratch EXCEPT ![t].s2 = NewValue(instr[t], LoadedValue(t))]
    /\ flags' = IF Compares(instr[t]) THEN [flags EXCEPT ![t] = 0] ELSE flags
    /\ UNCHANGED <<mem, instr, stack, old, simd>>

\* Mutant: the status of the store is not looked at.
StxrAlways(t) ==
    /\ step[t] = "stxr"
    /\ mem' = (IF IsCas(t) THEN instr[t].rt ELSE scratch[t].s2) % M
    /\ monitor' = {}
    /\ step' = [step EXCEPT ![t] = "restore"]
    /\ UNCHANGED <<instr, scratch, flags, stack, old, simd>>

\* The store succeeds if the monitor is still set, and clears those of the
\* others; it may fail for no reason.  A failed store starts over.
Stxr(t) ==
    /\ step[t] = "stxr"
    /\ \/ /\ t \in monitor
          /\ LET new == IF IsCas(t) THEN instr[t].rt ELSE scratch[t].s2
             IN  IF instr[t].sp
                 THEN stack' = [stack EXCEPT ![t][Len(stack[t])] = new] /\ UNCHANGED mem
                 ELSE mem' = new % M /\ UNCHANGED stack
          /\ monitor' = {}
          /\ step' = [step EXCEPT ![t] = "restore"]
          /\ UNCHANGED scratch
       \/ /\ monitor' = monitor \ {t}
          /\ scratch' = IF IsCas(t) THEN [scratch EXCEPT ![t].s1 = 1] ELSE [scratch EXCEPT ![t].s3 = 1]
          /\ step' = [step EXCEPT ![t] = "ldxr"]
          /\ UNCHANGED <<mem, stack>>
    /\ UNCHANGED <<instr, flags, old, simd>>

\* Mutant: the scratch registers are popped in the order of the pushes.
RestoreLate(t) ==
    LET saved == stack[t]
    IN  /\ step[t] = "restore"
        /\ old' = [old EXCEPT ![t] = LoadedValue(t)]
        /\ scratch' = [scratch EXCEPT ![t].s1 = saved[2], ![t].s2 = saved[1]]
        /\ stack' = [stack EXCEPT ![t] = <<>>]
        /\ monitor' = monitor \ {t}
        /\ step' = [step EXCEPT ![t] = "done"]
        /\ UNCHANGED <<mem, instr, flags, simd>>

\* The result, then NZCV and the scratch registers in the order of the pops;
\* branch back.
Restore(t) ==
    LET saved == stack[t]
        n == Len(saved)
    IN  /\ step[t] = "restore"
        /\ old' = [old EXCEPT ![t] = LoadedValue(t)]
        /\ flags' = [flags EXCEPT ![t] = saved[n]]
        /\ scratch' = [scratch EXCEPT ![t] =
                  [s3 |-> IF IsCas(t) THEN @.s3 ELSE saved[3], s2 |-> saved[2], s1 |-> saved[1]]]
        /\ stack' = [stack EXCEPT ![t] = <<>>]
        /\ monitor' = monitor \ {t}
        /\ step' = [step EXCEPT ![t] = "done"]
        /\ UNCHANGED <<mem, instr, simd>>

\* BCAX: vd := vn XOR (vm AND NOT va), over one bit of each register.
Xor(a, b) == (a + b) % 2
AndNot(a, b) == a * (1 - b)
BcaxIsland(v, o) ==
    IF o.va = o.vd
    THEN LET w == [v EXCEPT ![o.vd] = AndNot(v[o.vm], v[o.vd])]
         IN  [w EXCEPT ![o.vd] = Xor(w[o.vn], w[o.vd])]
    ELSE LET tmp == CHOOSE r \in DOMAIN v :
                        r \notin {o.vd, o.vn, o.vm, o.va}
                        /\ \A q \in DOMAIN v \ {o.vd, o.vn, o.vm, o.va} : q <= r
             w == [v EXCEPT ![tmp] = AndNot(v[o.vm], v[o.va])]
             x == [w EXCEPT ![o.vd] = Xor(w[o.vn], w[tmp])]
         IN  [x EXCEPT ![tmp] = v[tmp]]

RunBcax(o) ==
    /\ simd = NoSimd
    /\ \E v \in [0..4 -> {0, 1}] :
          simd' = [regs |-> v, op |-> o, after |-> BcaxIsland(v, o)]
    /\ UNCHANGED <<mem, instr, step, scratch, flags, stack, monitor, old>>

IslandNext == \E t \in Threads : Save(t) \/ Ldxr(t) \/ Compute(t) \/ Stxr(t) \/ Restore(t)
BcaxNext == \E o \in Bcax : RunBcax(o)

IsaSpec == IsaInit /\ [][IslandNext \/ BcaxNext]_isaVars

-----------------------------------------------------------------------------
\* The instruction has taken effect when its store has succeeded; a CAS that is
\* going to fail has when it has loaded another value.
TookEffect(t) ==
    \/ step[t] \in {"restore", "done"}
    \/ IsCas(t) /\ step[t] = "compute" /\ LoadedValue(t) # instr[t].rs

Atomic == INSTANCE AtomicOps WITH
    result <- [t \in Threads |-> IF step[t] = "done" THEN old[t]
                                 ELSE IF TookEffect(t) THEN LoadedValue(t) ELSE NoResult]

\* Islands that several threads run for the same word behave like the atomic
\* instructions they replace (isa_emul.h: "an equivalent ARMv8.0 sequence"),
\* however the threads interleave and however often the exclusive store fails.
ImplementsAtomic == Atomic!AtomicSpec

\* The interrupted code finds its registers and flags as they were.
Undisturbed(t) == step[t] = "done" => scratch[t] = Before /\ flags[t] = Flags

BcaxRight ==
    simd # NoSimd =>
        LET o == simd.op
            v == simd.regs
        IN  simd.after = [v EXCEPT ![o.vd] = Xor(v[o.vn], AndNot(v[o.vm], v[o.va]))]

\* An island leaves no trace but its result, whichever registers the instruction
\* names: scratch registers and flags are restored, BCAX reads all its operands.
NoTrace == BcaxRight /\ \A t \in Threads : Undisturbed(t)

\* "an island containing an equivalent ARMv8.0 sequence" (isa_emul.h 15), for every
\* instruction that isa_emul_patch replaces: a thread alone gets the old value,
\* and the word becomes what the instruction makes of it.
Equivalent ==
    /\ NoTrace
    /\ \A t \in Threads : step[t] = "done" /\ (\A u \in Threads \ {t} : step[u] = "save") =>
          mem = Atomic!Updated(instr[t], old[t])
=============================================================================
