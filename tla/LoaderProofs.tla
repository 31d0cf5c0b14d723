---------------------------- MODULE LoaderProofs ----------------------------
(***************************************************************************)
(* Theorems about the parts of the loader, and about Loader, which         *)
(* composes them, for every value of the constants.                        *)
(***************************************************************************)
EXTENDS Loader, SavedFilesProofs

-----------------------------------------------------------------------------
(* The islands of isa_emul.c.  What the theorems about them ask of the     *)
(* instructions excludes exactly those for which the run isa_equivalence   *)
(* shows a difference: a base register that is sp, and a narrow comparison *)
(* of a register that holds more than the word.                            *)

Operations == {"LDADD", "SWP", "CAS", "LDUMAX", "LDUMIN", "LDSMAX", "LDSMIN"}
Unextended == {"CAS", "LDUMAX", "LDUMIN"}

Replaceable ==
    \A i \in Instructions :
       /\ i.op \in Operations /\ ~i.sp
       /\ i.rs \in Nat /\ i.rt \in Nat
       /\ i.op \in Unextended => i.rs < M

\* A BCAX whose destination is not both of the operands that the first of the
\* two instructions has to leave alone.
BcaxReplaceable ==
    \A o \in Bcax :
       /\ {o.vd, o.vn, o.vm, o.va} \subseteq 0..4
       /\ ~(o.vd = o.vn /\ o.vd = o.va)

\* What a division leaves over is determined by what it is.
LEMMA RemainderIs ==
    ASSUME NEW m \in Nat \ {0}, NEW a \in Int, NEW b \in 0..(m - 1)
    PROVE  (m * a + b) % m = b
<1> DEFINE x == m * a + b
           q == x \div m
           k == x % m
<1>0. x \in Int
  OBVIOUS
<1>1. q \in Int /\ k \in 0..(m - 1) /\ x = m * q + k
  BY <1>0
<1> HIDE DEF q, k
<1>2. m * (a - q) = k - b
  BY <1>1
<1>3. a - q \in Int /\ -m < k - b /\ k - b < m
  BY <1>1
<1>4. ASSUME NEW d \in Int, d >= 1 PROVE m * d >= m
  BY <1>4
<1>5. ~(a - q >= 1)
  BY <1>2, <1>3, <1>4
<1>6. ~(q - a >= 1)
  <2>1. m * (q - a) = b - k
    BY <1>1
  <2> QED BY <2>1, <1>1, <1>3, <1>4
<1>7. a = q
  BY <1>1, <1>5, <1>6
<1>8. k = b
  BY <1>1, <1>2, <1>7
<1> QED BY <1>8 DEF k

\* Adding the low half of a register is adding the register.
LEMMA SumOfNarrow ==
    ASSUME NEW m \in Nat \ {0}, NEW v \in Nat, NEW r \in Nat
    PROVE  (v + r) % m = (v + (r % m)) % m
<1> DEFINE q == r \div m
           k == r % m
           p == (v + k) \div m
           l == (v + k) % m
<1>1. q \in Int /\ k \in 0..(m - 1) /\ r = m * q + k
  OBVIOUS
<1>2. p \in Int /\ l \in 0..(m - 1) /\ v + k = m * p + l
  BY <1>1
<1> HIDE DEF q, p, l, k
<1>3. v + r = m * (q + p) + l
  BY <1>1, <1>2
<1>4. (m * (q + p) + l) % m = l
  <2>1. q + p \in Int
    BY <1>1, <1>2
  <2> QED BY <2>1, <1>2, RemainderIs, Zenon
<1>5. (v + r) % m = l
  BY <1>3, <1>4, Zenon
<1> QED BY <1>5 DEF l, k

LEMMA NarrowRange ==
    ASSUME NEW m \in Nat \ {0}, NEW v \in Nat
    PROVE  v % m \in 0..(m - 1) /\ (v < m => v % m = v)
  OBVIOUS

Places == {"save", "ldxr", "compute", "stxr", "restore", "done"}
Pushed(i) == IF i.op = "CAS" THEN <<11, 12, 6>> ELSE <<11, 12, 13, 6>>

\* Between its pushes and its pops an island has on the stack what the
\* interrupted code had in the registers; and what it has loaded is still the
\* word while its monitor is set.
IslandAt(t) ==
    /\ step[t] \in {"save", "done"} => scratch[t] = Before /\ flags[t] = Flags
    /\ step[t] \notin {"save", "done"} => stack[t] = Pushed(instr[t])
    /\ IsCas(t) => scratch[t].s3 = 13
    /\ step[t] \in {"compute", "stxr", "restore"} => LoadedValue(t) \in 0..(M - 1)
    /\ step[t] \in {"compute", "stxr"} /\ t \in monitor => LoadedValue(t) = mem
    /\ step[t] = "stxr" => IF IsCas(t) THEN LoadedValue(t) = instr[t].rs
                           ELSE scratch[t].s2 = NewValue(instr[t], LoadedValue(t))

IsaTypes ==
    /\ mem \in 0..(M - 1)
    /\ instr \in [Threads -> Instructions]
    /\ step \in [Threads -> Places]
    /\ scratch \in [Threads -> [s1 : Nat, s2 : Nat, s3 : Nat]]
    /\ flags \in [Threads -> Nat]
    /\ stack \in [Threads -> Seq(Nat)]
    /\ old \in [Threads -> 0..(M - 1) \cup {NoResult}]

IsaInv == IsaTypes /\ \A t \in Threads : IslandAt(t)

LEMMA IsaInitInv == IsaInit => IsaInv
<1> SUFFICES ASSUME IsaInit PROVE IsaInv
  OBVIOUS
<1>1. IsaTypes
  <2>1. Before \in [s1 : Nat, s2 : Nat, s3 : Nat] /\ Flags \in Nat
    BY DEF Before, Flags
  <2> QED BY <2>1 DEF IsaInit, IsaTypes, Places
<1>2. ASSUME NEW t \in Threads PROVE IslandAt(t)
  <2>1. step[t] = "save" /\ scratch[t] = Before /\ flags[t] = Flags
    BY DEF IsaInit
  <2>2. scratch[t].s3 = 13
    BY <2>1 DEF Before
  <2> QED BY <2>1, <2>2 DEF IslandAt
<1> QED BY <1>1, <1>2 DEF IsaInv

\* A thread that does nothing keeps its part: a store by another one clears
\* its monitor.
LEMMA OthersKeep ==
    ASSUME NEW u \in Threads, IslandAt(u),
           step'[u] = step[u], scratch'[u] = scratch[u], flags'[u] = flags[u],
           stack'[u] = stack[u], instr' = instr,
           monitor' = {} \/ (mem' = mem /\ (u \in monitor' => u \in monitor))
    PROVE  IslandAt(u)'
<1>1. (IsCas(u)' <=> IsCas(u)) /\ LoadedValue(u)' = LoadedValue(u)
  BY DEF IsCas, LoadedValue
<1> QED BY <1>1, Zenon DEF IslandAt, Before, Flags, Pushed, NewValue, SignedValue

\* A sequence and one value more.
LEMMA PushLast ==
    ASSUME NEW a \in Seq(Nat), NEW c \in Seq(Nat), NEW x \in Nat, Len(c) = Len(a) + 1,
           \A i \in 1..Len(a) : c[i] = a[i], c[Len(a) + 1] = x
    PROVE  a \o <<x>> = c
<1> DEFINE b == <<x>>
<1>1. b \in Seq(Nat) /\ Len(b) = 1 /\ b[1] = x
  OBVIOUS
<1> HIDE DEF b
<1>2. a \o b \in Seq(Nat) /\ Len(a \o b) = Len(c)
  <2>1. a \o b \in Seq(Nat) /\ Len(a \o b) = Len(a) + Len(b)
    BY <1>1, ConcatProperties, Zenon
  <2> QED BY <1>1, <2>1
<1>3. ASSUME NEW i \in 1..Len(a \o b) PROVE (a \o b)[i] = c[i]
  <2>1. i \in 1..(Len(a) + 1)
    BY <1>2, <1>3
  <2>2. (a \o b)[i] = IF i <= Len(a) THEN a[i] ELSE b[i - Len(a)]
    BY <1>1, <2>1, ConcatProperties
  <2>3. i <= Len(a) \/ (i = Len(a) + 1 /\ i - Len(a) = 1)
    BY <2>1
  <2> QED BY <1>1, <2>1, <2>2, <2>3
<1>4. a \o b = c
  <2> DEFINE s == a \o b
  <2>1. s \in Seq(Nat) /\ Len(s) = Len(c) /\ \A i \in 1..Len(s) : s[i] = c[i]
    BY <1>2, <1>3
  <2> HIDE DEF s
  <2>2. s = c
    BY <2>1, SeqEqual
  <2> QED BY <2>2 DEF s
<1> QED BY <1>4 DEF b

LEMMA SaveKeeps ==
    ASSUME IsaInv, Replaceable, NEW t \in Threads, Save(t) PROVE IsaInv'
<1> USE DEF IsaInv
<1>1. /\ step[t] = "save" /\ scratch[t] = Before /\ flags[t] = Flags
      /\ step' = [step EXCEPT ![t] = "ldxr"]
  BY DEF Save, IslandAt
<1> DEFINE saved == [k \in DOMAIN Scratches(t) |-> scratch[t][Scratches(t)[k]]]
<1>2. saved \o <<flags[t]>> = Pushed(instr[t])
  <2>1. CASE IsCas(t)
    <3>1. Scratches(t) = <<"s1", "s2">>
      BY <2>1 DEF Scratches
    <3>2. saved = <<11, 12>>
      <4>1. DOMAIN Scratches(t) = 1..2
        BY <3>1
      <4>2. saved = [k \in 1..2 |-> Before[Scratches(t)[k]]]
        BY <4>1, <1>1
      <4>3. saved[1] = 11 /\ saved[2] = 12
        BY <4>2, <3>1 DEF Before
      <4>4. saved \in Seq(Nat) /\ Len(saved) = 2
        <5>1. \A k \in 1..2 : saved[k] \in Nat
          BY <4>3
        <5> QED BY <4>2, <5>1
      <4> HIDE DEF saved
      <4>5. <<11, 12>> \in Seq(Nat) /\ Len(<<11, 12>>) = 2
        OBVIOUS
      <4> QED BY <4>3, <4>4, <4>5, SeqEqual
    <3>3. <<11, 12>> \o <<6>> = <<11, 12, 6>>
      <4> DEFINE a == <<11, 12>>
                 c == <<11, 12, 6>>
      <4>1. /\ a \in Seq(Nat) /\ c \in Seq(Nat)
            /\ Len(a) = 2 /\ Len(c) = 3
            /\ (\A i \in 1..Len(a) : c[i] = a[i]) /\ c[Len(a) + 1] = 6 /\ Len(c) = Len(a) + 1
        OBVIOUS
      <4> HIDE DEF a, c
      <4>2. a \o <<6>> = c
        BY <4>1, PushLast
      <4> QED BY <4>2 DEF a, c
    <3>4. Pushed(instr[t]) = <<11, 12, 6>>
      BY <2>1 DEF Pushed, IsCas
    <3> HIDE DEF saved
    <3> QED BY <3>2, <3>3, <3>4, <1>1, Zenon DEF Flags
  <2>2. CASE ~IsCas(t)
    <3>1. Scratches(t) = <<"s1", "s2", "s3">>
      BY <2>2 DEF Scratches
    <3>2. saved = <<11, 12, 13>>
      <4>1. DOMAIN Scratches(t) = 1..3
        BY <3>1
      <4>2. saved = [k \in 1..3 |-> Before[Scratches(t)[k]]]
        BY <4>1, <1>1
      <4>3. saved[1] = 11 /\ saved[2] = 12 /\ saved[3] = 13
        BY <4>2, <3>1 DEF Before
      <4>4. saved \in Seq(Nat) /\ Len(saved) = 3
        <5>1. \A k \in 1..3 : saved[k] \in Nat
          BY <4>3
        <5> QED BY <4>2, <5>1
      <4> HIDE DEF saved
      <4>5. <<11, 12, 13>> \in Seq(Nat) /\ Len(<<11, 12, 13>>) = 3
        OBVIOUS
      <4> QED BY <4>3, <4>4, <4>5, SeqEqual
    <3>3. <<11, 12, 13>> \o <<6>> = <<11, 12, 13, 6>>
      <4> DEFINE a == <<11, 12, 13>>
                 c == <<11, 12, 13, 6>>
      <4>1. /\ a \in Seq(Nat) /\ c \in Seq(Nat)
            /\ Len(a) = 3 /\ Len(c) = 4
            /\ (\A i \in 1..Len(a) : c[i] = a[i]) /\ c[Len(a) + 1] = 6 /\ Len(c) = Len(a) + 1
        OBVIOUS
      <4> HIDE DEF a, c
      <4>2. a \o <<6>> = c
        BY <4>1, PushLast
      <4> QED BY <4>2 DEF a, c
    <3>4. Pushed(instr[t]) = <<11, 12, 13, 6>>
      BY <2>2 DEF Pushed, IsCas
    <3> HIDE DEF saved
    <3> QED BY <3>2, <3>3, <3>4, <1>1, Zenon DEF Flags
  <2> QED BY <2>1, <2>2
<1>3. stack' = [stack EXCEPT ![t] = Pushed(instr[t])]
  BY <1>2, Zenon DEF Save
<1>4. Pushed(instr[t]) \in Seq(Nat)
  BY DEF Pushed
<1>5. IsaTypes'
  <2>1. stack' \in [Threads -> Seq(Nat)]
    BY <1>1, <1>3, <1>4 DEF IsaTypes
  <2>2. step' \in [Threads -> Places]
    BY <1>1 DEF Save, IsaTypes, Places
  <2> QED BY <1>1, <2>1, <2>2, Zenon DEF Save, IsaTypes
<1>6. stack'[t] = Pushed(instr[t]) /\ step'[t] = "ldxr"
  BY <1>1, <1>3 DEF IsaTypes
<1>7. IslandAt(t)'
  <2>1. scratch'[t].s3 = 13
    BY <1>1 DEF Save, Before
  <2> QED BY <1>6, <2>1 DEF IslandAt, Save, Pushed
<1>8. ASSUME NEW u \in Threads, u # t PROVE IslandAt(u)'
  <2>1. step'[u] = step[u] /\ stack'[u] = stack[u]
    BY <1>1, <1>3, <1>8 DEF IsaTypes
  <2> QED BY <2>1, OthersKeep DEF Save
<1> QED BY <1>5, <1>7, <1>8

\* A register of the island gets a value; the others keep theirs.
LEMMA SetScratch ==
    ASSUME NEW r \in [s1 : Nat, s2 : Nat, s3 : Nat], NEW v \in Nat
    PROVE  /\ [r EXCEPT !.s1 = v] = [s1 |-> v, s2 |-> r.s2, s3 |-> r.s3]
           /\ [r EXCEPT !.s2 = v] = [s1 |-> r.s1, s2 |-> v, s3 |-> r.s3]
           /\ [r EXCEPT !.s3 = v] = [s1 |-> r.s1, s2 |-> r.s2, s3 |-> v]
           /\ r.s1 \in Nat /\ r.s2 \in Nat /\ r.s3 \in Nat
           /\ r = [s1 |-> r.s1, s2 |-> r.s2, s3 |-> r.s3]
  OBVIOUS

LEMMA LdxrKeeps ==
    ASSUME IsaInv, Replaceable, NEW t \in Threads, Ldxr(t) PROVE IsaInv'
<1> USE DEF IsaInv
<1>0. instr[t] \in Instructions /\ ~instr[t].sp
  BY DEF IsaTypes, Replaceable
<1> DEFINE r == scratch[t]
           new == IF IsCas(t) THEN [r EXCEPT !.s2 = mem] ELSE [r EXCEPT !.s1 = mem]
<1>1. r \in [s1 : Nat, s2 : Nat, s3 : Nat] /\ mem \in Nat
  BY IsaAssumption DEF IsaTypes
<1>2. scratch' = [scratch EXCEPT ![t] = new]
  <2>1. (IF instr[t].sp THEN Last(stack[t]) ELSE mem) = mem
    BY <1>0
  <2> QED BY <2>1, Zenon DEF Ldxr
<1>3. new = IF IsCas(t) THEN [s1 |-> r.s1, s2 |-> mem, s3 |-> r.s3]
            ELSE [s1 |-> mem, s2 |-> r.s2, s3 |-> r.s3]
  BY <1>1, SetScratch
<1> HIDE DEF new
<1>4. new \in [s1 : Nat, s2 : Nat, s3 : Nat] /\ new.s3 = r.s3
      /\ (IF IsCas(t) THEN new.s2 ELSE new.s1) = mem
  BY <1>1, <1>3
<1>5. step[t] = "ldxr" /\ step' = [step EXCEPT ![t] = "compute"]
  BY DEF Ldxr
<1>6. IsaTypes'
  BY <1>2, <1>4, <1>5 DEF Ldxr, IsaTypes, Places
<1>7. scratch'[t] = new /\ step'[t] = "compute"
  BY <1>2, <1>5 DEF IsaTypes
<1>8. IslandAt(t)'
  <2>1. LoadedValue(t)' = mem /\ (IsCas(t)' <=> IsCas(t))
    BY <1>4, <1>7 DEF LoadedValue, IsCas, Ldxr
  <2>2. stack[t] = Pushed(instr[t]) /\ (IsCas(t) => scratch[t].s3 = 13)
    BY <1>5 DEF IslandAt
  <2> QED BY <2>1, <2>2, <1>4, <1>7 DEF IslandAt, Ldxr, IsaTypes, Pushed
<1>9. ASSUME NEW u \in Threads, u # t PROVE IslandAt(u)'
  <2>1. step'[u] = step[u] /\ scratch'[u] = scratch[u]
    BY <1>2, <1>5, <1>9 DEF IsaTypes
  <2>2. mem' = mem /\ (u \in monitor' => u \in monitor)
    BY <1>9 DEF Ldxr
  <2> QED BY <2>1, <2>2, OthersKeep DEF Ldxr
<1> QED BY <1>6, <1>8, <1>9

\* What an island computes is a number.
LEMMA NewValueNat ==
    ASSUME Replaceable, NEW i \in Instructions, NEW v \in 0..(M - 1)
    PROVE  NewValue(i, v) \in Nat
<1>1. i.op \in Operations /\ i.rs \in Nat /\ i.rt \in Nat /\ v \in Nat
  BY IsaAssumption DEF Replaceable
<1> QED BY <1>1 DEF NewValue, Operations

LEMMA ComputeKeeps ==
    ASSUME IsaInv, Replaceable, NEW t \in Threads, Compute(t) PROVE IsaInv'
<1> USE DEF IsaInv
<1> DEFINE r == scratch[t]
           v == NewValue(instr[t], LoadedValue(t))
           gives == IsCas(t) /\ LoadedValue(t) # instr[t].rs
<1>0. instr[t] \in Instructions /\ LoadedValue(t) \in 0..(M - 1) /\ step[t] = "compute"
  BY DEF IsaTypes, IslandAt, Compute
<1>1. r \in [s1 : Nat, s2 : Nat, s3 : Nat] /\ v \in Nat
  BY <1>0, NewValueNat DEF IsaTypes
<1>2. /\ step' = [step EXCEPT ![t] = IF gives THEN "restore" ELSE "stxr"]
      /\ monitor' = IF gives THEN monitor \ {t} ELSE monitor
      /\ scratch' = [scratch EXCEPT ![t] = IF IsCas(t) THEN r ELSE [s1 |-> r.s1, s2 |-> v, s3 |-> r.s3]]
  <2>1. [r EXCEPT !.s2 = v] = [s1 |-> r.s1, s2 |-> v, s3 |-> r.s3]
    BY <1>1, SetScratch
  <2>2. scratch = [scratch EXCEPT ![t] = r]
    BY DEF IsaTypes
  <2>3. ~IsCas(t) => scratch' = [scratch EXCEPT ![t] = [r EXCEPT !.s2 = v]]
    BY Zenon DEF Compute
  <2>4. IsCas(t) => scratch' = scratch
    BY Zenon DEF Compute
  <2>5. /\ gives => step' = [step EXCEPT ![t] = "restore"] /\ monitor' = monitor \ {t}
        /\ ~gives => step' = [step EXCEPT ![t] = "stxr"] /\ monitor' = monitor
    BY Zenon DEF Compute
  <2> QED BY <2>1, <2>2, <2>3, <2>4, <2>5, Zenon
<1>3. flags' \in [Threads -> Nat] /\ \A u \in Threads \ {t} : flags'[u] = flags[u]
  BY DEF Compute, IsaTypes
<1>4. r.s1 \in Nat /\ r.s2 \in Nat /\ r.s3 \in Nat
  BY <1>1, SetScratch
<1> HIDE DEF v
<1>5. IsaTypes'
  <2>1. [s1 |-> r.s1, s2 |-> v, s3 |-> r.s3] \in [s1 : Nat, s2 : Nat, s3 : Nat]
    BY <1>1, <1>4
  <2>2. scratch' \in [Threads -> [s1 : Nat, s2 : Nat, s3 : Nat]]
    BY <1>1, <1>2, <2>1 DEF IsaTypes
  <2>3. step' \in [Threads -> Places]
    BY <1>2 DEF IsaTypes, Places
  <2> QED BY <2>2, <2>3, <1>3 DEF Compute, IsaTypes
<1>6. /\ scratch'[t] = IF IsCas(t) THEN r ELSE [s1 |-> r.s1, s2 |-> v, s3 |-> r.s3]
      /\ step'[t] = IF gives THEN "restore" ELSE "stxr"
  BY <1>2 DEF IsaTypes
<1>7. IslandAt(t)'
  <2>1. (IsCas(t)' <=> IsCas(t)) /\ instr' = instr /\ mem' = mem /\ stack' = stack
    BY DEF IsCas, Compute
  <2>2. LoadedValue(t)' = LoadedValue(t)
    BY <2>1, <1>6 DEF LoadedValue
  <2>3. /\ stack[t] = Pushed(instr[t]) /\ (IsCas(t) => scratch[t].s3 = 13)
        /\ t \in monitor => LoadedValue(t) = mem
    BY <1>0 DEF IslandAt
  <2>4. ~IsCas(t) => scratch'[t].s2 = v
    BY <1>6
  <2>5. IsCas(t) => scratch'[t] = r
    BY <1>6
  <2>6. step'[t] \notin {"save", "done"} /\ (step'[t] = "stxr" => ~gives)
    BY <1>6
  <2>7. stack'[t] = Pushed(instr[t])' /\ NewValue(instr[t], LoadedValue(t))' = v
    BY <2>1, <2>2, <2>3, Zenon DEF v, Pushed, NewValue, SignedValue
  <2>8. t \in monitor' => t \in monitor
    BY <1>2
  <2>9. IsCas(t)' => scratch'[t].s3 = 13
    BY <2>1, <2>3, <2>5
  <2>10. step'[t] = "stxr" => IF IsCas(t)' THEN LoadedValue(t)' = instr'[t].rs
                              ELSE scratch'[t].s2 = NewValue(instr[t], LoadedValue(t))'
    BY <2>1, <2>2, <2>4, <2>6, <2>7
  <2>11. LoadedValue(t)' \in 0..(M - 1) /\ (t \in monitor' => LoadedValue(t)' = mem')
    BY <2>1, <2>2, <2>3, <2>8, <1>0
  <2> QED BY <2>6, <2>7, <2>9, <2>10, <2>11, Zenon DEF IslandAt
<1>8. ASSUME NEW u \in Threads, u # t PROVE IslandAt(u)'
  <2>1. step'[u] = step[u] /\ scratch'[u] = scratch[u] /\ flags'[u] = flags[u]
    BY <1>2, <1>3, <1>8 DEF IsaTypes
  <2>2. mem' = mem /\ (u \in monitor' => u \in monitor)
    BY <1>2 DEF Compute
  <2> QED BY <2>1, <2>2, OthersKeep DEF Compute
<1> QED BY <1>5, <1>7, <1>8

\* What an island stores, in one word.
Stored(t) == (IF IsCas(t) THEN instr[t].rt ELSE scratch[t].s2) % M

LEMMA StxrParts ==
    ASSUME IsaInv, Replaceable, NEW t \in Threads, Stxr(t)
    PROVE  /\ step[t] = "stxr" /\ instr' = instr /\ flags' = flags /\ stack' = stack
           /\ old' = old /\ simd' = simd
           /\ \/ /\ t \in monitor /\ monitor' = {} /\ mem' = Stored(t) /\ scratch' = scratch
                 /\ step' = [step EXCEPT ![t] = "restore"]
              \/ /\ monitor' = monitor \ {t} /\ mem' = mem
                 /\ scratch' = IF IsCas(t) THEN [scratch EXCEPT ![t].s1 = 1]
                               ELSE [scratch EXCEPT ![t].s3 = 1]
                 /\ step' = [step EXCEPT ![t] = "ldxr"]
<1>1. instr[t] \in Instructions /\ ~instr[t].sp
  BY DEF IsaInv, IsaTypes, Replaceable
<1> QED BY <1>1, Zenon DEF Stxr, Stored

LEMMA StxrKeeps ==
    ASSUME IsaInv, Replaceable, NEW t \in Threads, Stxr(t) PROVE IsaInv'
<1> USE DEF IsaInv
<1>0. step[t] = "stxr" /\ instr' = instr /\ flags' = flags /\ stack' = stack /\ old' = old
  BY StxrParts
<1> DEFINE r == scratch[t]
<1>1. /\ r \in [s1 : Nat, s2 : Nat, s3 : Nat] /\ r.s1 \in Nat /\ r.s2 \in Nat /\ r.s3 \in Nat
      /\ instr[t].rt \in Nat
  <2>1. r \in [s1 : Nat, s2 : Nat, s3 : Nat] /\ instr[t] \in Instructions
    BY DEF IsaTypes
  <2> QED BY <2>1 DEF Replaceable
<1>2. /\ stack[t] = Pushed(instr[t]) /\ (IsCas(t) => r.s3 = 13)
      /\ LoadedValue(t) \in 0..(M - 1)
  BY <1>0 DEF IslandAt
<1>3. (IsCas(t)' <=> IsCas(t)) /\ Pushed(instr[t])' = Pushed(instr[t])
  BY <1>0, Zenon DEF IsCas, Pushed
<1>4. ASSUME t \in monitor, monitor' = {}, mem' = Stored(t), scratch' = scratch,
             step' = [step EXCEPT ![t] = "restore"]
      PROVE  IsaInv'
  <2>1. Stored(t) \in 0..(M - 1)
    BY <1>1, IsaAssumption, NarrowRange DEF Stored
  <2>2. IsaTypes'
    BY <1>0, <1>4, <2>1 DEF IsaTypes, Places
  <2>3. step'[t] = "restore" /\ t \notin monitor'
    BY <1>4 DEF IsaTypes
  <2>4. LoadedValue(t)' = LoadedValue(t)
    BY <1>3, <1>4 DEF LoadedValue
  <2>5. IslandAt(t)'
    BY <1>0, <1>2, <1>3, <1>4, <2>3, <2>4 DEF IslandAt
  <2>6. ASSUME NEW u \in Threads, u # t PROVE IslandAt(u)'
    <3>1. step'[u] = step[u]
      BY <1>4, <2>6 DEF IsaTypes
    <3> QED BY <1>0, <1>4, <3>1, OthersKeep
  <2> QED BY <2>2, <2>5, <2>6
<1>5. ASSUME monitor' = monitor \ {t}, mem' = mem, step' = [step EXCEPT ![t] = "ldxr"],
             scratch' = IF IsCas(t) THEN [scratch EXCEPT ![t].s1 = 1]
                        ELSE [scratch EXCEPT ![t].s3 = 1]
      PROVE  IsaInv'
  <2> DEFINE new == IF IsCas(t) THEN [s1 |-> 1, s2 |-> r.s2, s3 |-> r.s3]
                    ELSE [s1 |-> r.s1, s2 |-> r.s2, s3 |-> 1]
  <2>1. scratch' = [scratch EXCEPT ![t] = new]
    <3>1. /\ [r EXCEPT !.s1 = 1] = [s1 |-> 1, s2 |-> r.s2, s3 |-> r.s3]
          /\ [r EXCEPT !.s3 = 1] = [s1 |-> r.s1, s2 |-> r.s2, s3 |-> 1]
      BY <1>1, SetScratch
    <3> QED BY <1>5, <3>1, Zenon
  <2>2. new \in [s1 : Nat, s2 : Nat, s3 : Nat] /\ (IsCas(t) => new.s3 = r.s3)
    BY <1>1
  <2> HIDE DEF new
  <2>3. IsaTypes'
    <3>1. scratch' \in [Threads -> [s1 : Nat, s2 : Nat, s3 : Nat]]
      BY <2>1, <2>2 DEF IsaTypes
    <3>2. step' \in [Threads -> Places]
      BY <1>5 DEF IsaTypes, Places
    <3> QED BY <1>0, <1>5, <3>1, <3>2 DEF IsaTypes
  <2>4. step'[t] = "ldxr" /\ scratch'[t] = new
    BY <1>5, <2>1 DEF IsaTypes
  <2>5. IslandAt(t)'
    BY <1>0, <1>2, <1>3, <2>2, <2>4 DEF IslandAt
  <2>6. ASSUME NEW u \in Threads, u # t PROVE IslandAt(u)'
    <3>1. step'[u] = step[u] /\ scratch'[u] = scratch[u]
      BY <1>5, <2>1, <2>6 DEF IsaTypes
    <3>2. u \in monitor' => u \in monitor
      BY <1>5
    <3> QED BY <1>0, <1>5, <3>1, <3>2, OthersKeep
  <2> QED BY <2>3, <2>5, <2>6
<1> QED BY <1>4, <1>5, StxrParts

LEMMA RestoreKeeps ==
    ASSUME IsaInv, Replaceable, NEW t \in Threads, Restore(t) PROVE IsaInv'
<1> USE DEF IsaInv
<1> DEFINE r == scratch[t]
<1>1. /\ step[t] = "restore" /\ stack[t] = Pushed(instr[t]) /\ (IsCas(t) => r.s3 = 13)
      /\ LoadedValue(t) \in 0..(M - 1) /\ r \in [s1 : Nat, s2 : Nat, s3 : Nat]
  BY DEF Restore, IslandAt, IsaTypes
<1>2. stack[t][Len(stack[t])] = 6 /\ stack[t][1] = 11 /\ stack[t][2] = 12
      /\ (~IsCas(t) => stack[t][3] = 13)
  <2>1. CASE IsCas(t)
    BY <1>1, <2>1 DEF Pushed, IsCas
  <2>2. CASE ~IsCas(t)
    BY <1>1, <2>2 DEF Pushed, IsCas
  <2> QED BY <2>1, <2>2
<1>3. /\ flags' = [flags EXCEPT ![t] = Flags]
      /\ scratch' = [scratch EXCEPT ![t] = Before]
      /\ old' = [old EXCEPT ![t] = LoadedValue(t)]
      /\ stack' = [stack EXCEPT ![t] = <<>>]
      /\ step' = [step EXCEPT ![t] = "done"]
      /\ monitor' = monitor \ {t} /\ mem' = mem /\ instr' = instr /\ simd' = simd
  <2>1. [s3 |-> IF IsCas(t) THEN r.s3 ELSE stack[t][3], s2 |-> stack[t][2], s1 |-> stack[t][1]] = Before
    BY <1>1, <1>2 DEF Before
  <2> QED BY <2>1, <1>2, Zenon DEF Restore, Flags
<1>4. Before \in [s1 : Nat, s2 : Nat, s3 : Nat] /\ Before.s3 = 13 /\ Flags \in Nat
  BY DEF Before, Flags
<1>5. IsaTypes'
  BY <1>1, <1>3, <1>4 DEF IsaTypes, Places
<1>6. step'[t] = "done" /\ scratch'[t] = Before /\ flags'[t] = Flags
  BY <1>3 DEF IsaTypes
<1>7. IslandAt(t)'
  BY <1>4, <1>6 DEF IslandAt
<1>8. ASSUME NEW u \in Threads, u # t PROVE IslandAt(u)'
  <2>1. step'[u] = step[u] /\ scratch'[u] = scratch[u] /\ flags'[u] = flags[u] /\ stack'[u] = stack[u]
    BY <1>3, <1>8 DEF IsaTypes
  <2>2. u \in monitor' => u \in monitor
    BY <1>3
  <2> QED BY <1>3, <2>1, <2>2, OthersKeep
<1> QED BY <1>5, <1>7, <1>8

\* BCAX writes no register that the other islands use.
LEMMA BcaxKeeps == ASSUME IsaInv, BcaxNext PROVE IsaInv'
<1>1. UNCHANGED <<mem, instr, step, scratch, flags, stack, monitor, old>>
  BY Zenon DEF BcaxNext, RunBcax
<1>2. IsaTypes'
  BY <1>1, Zenon DEF IsaInv, IsaTypes, Places
<1>3. ASSUME NEW u \in Threads PROVE IslandAt(u)'
  BY <1>1, OthersKeep DEF IsaInv
<1> QED BY <1>2, <1>3 DEF IsaInv

LEMMA IsaStepInv ==
    ASSUME IsaInv, Replaceable, [IslandNext \/ BcaxNext]_isaVars PROVE IsaInv'
<1>1. CASE IslandNext
  BY <1>1, SaveKeeps, LdxrKeeps, ComputeKeeps, StxrKeeps, RestoreKeeps DEF IslandNext
<1>2. CASE BcaxNext
  BY <1>2, BcaxKeeps
<1>3. CASE UNCHANGED isaVars
  <2>1. IsaTypes'
    BY <1>3, Zenon DEF IsaInv, IsaTypes, Places, isaVars
  <2>2. ASSUME NEW u \in Threads PROVE IslandAt(u)'
    BY <1>3, OthersKeep DEF IsaInv, isaVars
  <2> QED BY <2>1, <2>2 DEF IsaInv
<1> QED BY <1>1, <1>2, <1>3

\* The island of an instruction computes what the instruction does, where the
\* comparison of a CAS succeeds; where it fails, nothing changes.
LEMMA ComputesTheUpdate ==
    ASSUME Replaceable, NEW i \in Instructions, NEW v \in 0..(M - 1)
    PROVE  /\ i.op # "CAS" => NewValue(i, v) % M = Atomic!Updated(i, v)
           /\ i.op = "CAS" /\ v = i.rs => i.rt % M = Atomic!Updated(i, v)
           /\ i.op = "CAS" /\ v # i.rs => Atomic!Updated(i, v) = v
<1>1. /\ i.op \in Operations /\ i.rs \in Nat /\ i.rt \in Nat /\ v \in Nat
      /\ M \in Nat \ {0} /\ (i.op \in Unextended => i.rs < M)
  BY IsaAssumption DEF Replaceable
<1>2. v % M = v /\ i.rs % M \in 0..(M - 1) /\ (i.op \in Unextended => i.rs % M = i.rs)
  <2>1. v < M
    BY <1>1
  <2>2. v % M = v /\ i.rs % M \in 0..(M - 1) /\ (i.rs < M => i.rs % M = i.rs)
    BY <1>1, <2>1, NarrowRange
  <2> QED BY <1>1, <2>2
<1>3. CASE i.op = "LDADD"
  <2>1. NewValue(i, v) = v + i.rs /\ Atomic!Updated(i, v) = (v + (i.rs % M)) % M
    BY <1>3 DEF NewValue, Atomic!Updated, Atomic!Narrow
  <2> QED BY <2>1, <1>1, <1>3, SumOfNarrow
<1>4. CASE i.op = "SWP"
  <2>1. NewValue(i, v) = i.rs /\ Atomic!Updated(i, v) = i.rs % M
    BY <1>4 DEF NewValue, Atomic!Updated, Atomic!Narrow
  <2> QED BY <2>1, <1>4
<1>5. CASE i.op = "CAS"
  BY <1>1, <1>2, <1>5 DEF NewValue, Atomic!Updated, Atomic!Narrow, Unextended
<1>6. CASE i.op \in {"LDUMAX", "LDUMIN"}
  <2>1. i.rs % M = i.rs
    BY <1>2, <1>6 DEF Unextended
  <2>2. CASE i.op = "LDUMAX"
    <3>1. /\ NewValue(i, v) = IF v < i.rs THEN i.rs ELSE v
          /\ Atomic!Updated(i, v) = IF v < i.rs % M THEN i.rs % M ELSE v
      BY <2>2 DEF NewValue, Atomic!Updated, Atomic!Narrow
    <3> QED BY <3>1, <2>1, <2>2, <1>2
  <2>3. CASE i.op = "LDUMIN"
    <3>1. /\ NewValue(i, v) = IF v > i.rs THEN i.rs ELSE v
          /\ Atomic!Updated(i, v) = IF v > i.rs % M THEN i.rs % M ELSE v
      BY <2>3 DEF NewValue, Atomic!Updated, Atomic!Narrow
    <3> QED BY <3>1, <2>1, <2>3, <1>2
  <2> QED BY <1>6, <2>2, <2>3
<1>7. CASE i.op = "LDSMAX"
  <2>1. /\ NewValue(i, v) = IF SignedValue(v) < SignedValue(i.rs % M) THEN i.rs ELSE v
        /\ Atomic!Updated(i, v) = IF SignedValue(v) < SignedValue(i.rs % M) THEN i.rs % M ELSE v
    BY <1>7 DEF NewValue, Atomic!Updated, Atomic!Narrow, Atomic!Signed, SignedValue
  <2> QED BY <2>1, <1>2, <1>7
<1>8. CASE i.op = "LDSMIN"
  <2>1. /\ NewValue(i, v) = IF SignedValue(v) > SignedValue(i.rs % M) THEN i.rs ELSE v
        /\ Atomic!Updated(i, v) = IF SignedValue(v) > SignedValue(i.rs % M) THEN i.rs % M ELSE v
    BY <1>8 DEF NewValue, Atomic!Updated, Atomic!Narrow, Atomic!Signed, SignedValue
  <2> QED BY <2>1, <1>2, <1>8
<1> QED BY <1>1, <1>3, <1>4, <1>5, <1>6, <1>7, <1>8 DEF Operations

\* What the abstract specification has as the results.
Seen(t) == IF step[t] = "done" THEN old[t] ELSE IF TookEffect(t) THEN LoadedValue(t) ELSE NoResult
Results == [t \in Threads |-> Seen(t)]

LEMMA EffectIs ==
    ASSUME NEW t \in Threads, Seen(t) = NoResult, mem' = Atomic!Updated(instr[t], mem),
           instr' = instr, Seen(t)' = mem, \A u \in Threads \ {t} : Seen(u)' = Seen(u)
    PROVE  Atomic!Effect(t)
<1>1. Results[t] = NoResult
  BY DEF Results
<1>2. Results' = [Results EXCEPT ![t] = mem]
  BY DEF Results
<1>3. Atomic!Effect(t) <=> /\ Results[t] = NoResult
                           /\ mem' = Atomic!Updated(instr[t], mem)
                           /\ Results' = [Results EXCEPT ![t] = mem]
                           /\ UNCHANGED instr
  BY Zenon DEF Atomic!Effect, Results, Seen
<1> QED BY <1>1, <1>2, <1>3

LEMMA StutterIs ==
    ASSUME mem' = mem, instr' = instr, \A u \in Threads : Seen(u)' = Seen(u)
    PROVE  UNCHANGED Atomic!atomicVars
<1>1. Results' = Results
  BY DEF Results
<1>2. Atomic!atomicVars = <<mem, instr, Results>> /\ Atomic!atomicVars' = <<mem', instr', Results'>>
  BY Zenon DEF Atomic!atomicVars, Results, Seen
<1> QED BY <1>1, <1>2

\* A thread that does nothing has the result it had.
LEMMA SeenKept ==
    ASSUME NEW u \in Threads, step'[u] = step[u], scratch'[u] = scratch[u], old'[u] = old[u],
           instr' = instr
    PROVE  Seen(u)' = Seen(u)
  BY Zenon DEF Seen, TookEffect, LoadedValue, IsCas

\* Every step of an island is a step of the instruction, or none.
LEMMA IslandRefines ==
    ASSUME IsaInv, Replaceable, NEW t \in Threads,
           Save(t) \/ Ldxr(t) \/ Compute(t) \/ Stxr(t) \/ Restore(t)
    PROVE  Atomic!Effect(t) \/ UNCHANGED Atomic!atomicVars
<1> USE DEF IsaInv
<1>0. instr[t] \in Instructions /\ IslandAt(t) /\ ~instr[t].sp
  BY DEF IsaTypes, Replaceable
<1>1. CASE Save(t)
  <2>1. step[t] = "save" /\ step'[t] = "ldxr" /\ \A u \in Threads \ {t} : step'[u] = step[u]
    BY <1>1 DEF Save, IsaTypes
  <2>2. Seen(t)' = Seen(t)
    BY <2>1 DEF Seen, TookEffect
  <2>3. \A u \in Threads \ {t} : Seen(u)' = Seen(u)
    BY <1>1, <2>1, SeenKept DEF Save
  <2> QED BY <1>1, <2>2, <2>3, StutterIs DEF Save
<1>2. CASE Ldxr(t)
  <2>1. /\ step[t] = "ldxr" /\ step'[t] = "compute" /\ \A u \in Threads \ {t} : step'[u] = step[u]
        /\ \A u \in Threads \ {t} : scratch'[u] = scratch[u]
    BY <1>2 DEF Ldxr, IsaTypes
  <2>2. \A u \in Threads \ {t} : Seen(u)' = Seen(u)
    BY <1>2, <2>1, SeenKept DEF Ldxr
  <2>3. Seen(t) = NoResult
    BY <2>1 DEF Seen, TookEffect
  <2>4. LoadedValue(t)' = mem /\ (IsCas(t)' <=> IsCas(t))
    <3> DEFINE r == scratch[t]
               new == IF IsCas(t) THEN [r EXCEPT !.s2 = mem] ELSE [r EXCEPT !.s1 = mem]
    <3>1. r \in [s1 : Nat, s2 : Nat, s3 : Nat] /\ mem \in Nat
      BY IsaAssumption DEF IsaTypes
    <3>2. scratch' = [scratch EXCEPT ![t] = new]
      <4>1. (IF instr[t].sp THEN Last(stack[t]) ELSE mem) = mem
        BY <1>0
      <4> QED BY <4>1, <1>2, Zenon DEF Ldxr
    <3>3. scratch'[t] = new
      BY <3>2 DEF IsaTypes
    <3>4. IsCas(t)' <=> IsCas(t)
      BY <1>2 DEF Ldxr, IsCas
    <3>5. new = IF IsCas(t) THEN [s1 |-> r.s1, s2 |-> mem, s3 |-> r.s3]
                ELSE [s1 |-> mem, s2 |-> r.s2, s3 |-> r.s3]
      BY <3>1, SetScratch
    <3> HIDE DEF new
    <3>6. (IF IsCas(t) THEN new.s2 ELSE new.s1) = mem
      BY <3>5
    <3> QED BY <3>3, <3>4, <3>6 DEF LoadedValue
  <2>5. mem' = mem /\ instr' = instr
    BY <1>2 DEF Ldxr
  <2>6. TookEffect(t)' <=> IsCas(t) /\ mem # instr[t].rs
    BY <2>1, <2>4, <2>5 DEF TookEffect
  <2>7. CASE IsCas(t) /\ mem # instr[t].rs
    <3>1. Seen(t)' = mem
      BY <2>1, <2>4, <2>6, <2>7 DEF Seen
    <3>2. mem \in 0..(M - 1) /\ instr[t].op = "CAS"
      BY <2>7 DEF IsaTypes, IsCas
    <3>3. mem' = Atomic!Updated(instr[t], mem)
      BY <1>0, <2>5, <2>7, <3>2, ComputesTheUpdate
    <3> QED BY <2>2, <2>3, <2>5, <3>1, <3>3, EffectIs
  <2>8. CASE ~(IsCas(t) /\ mem # instr[t].rs)
    <3>1. Seen(t)' = NoResult
      BY <2>1, <2>6, <2>8 DEF Seen
    <3> QED BY <2>2, <2>3, <2>5, <3>1, StutterIs
  <2> QED BY <2>7, <2>8
<1>3. CASE Compute(t)
  <2> DEFINE gives == IsCas(t) /\ LoadedValue(t) # instr[t].rs
  <2>1. /\ step[t] = "compute" /\ step'[t] = (IF gives THEN "restore" ELSE "stxr")
        /\ \A u \in Threads \ {t} : step'[u] = step[u]
        /\ \A u \in Threads \ {t} : scratch'[u] = scratch[u]
        /\ scratch'[t].s1 = scratch[t].s1 /\ (IsCas(t) => scratch'[t] = scratch[t])
        /\ mem' = mem /\ instr' = instr /\ old' = old
    BY <1>3 DEF Compute, IsaTypes
  <2>2. \A u \in Threads \ {t} : Seen(u)' = Seen(u)
    BY <2>1, SeenKept
  <2>3. (IsCas(t)' <=> IsCas(t)) /\ LoadedValue(t)' = LoadedValue(t)
    BY <2>1 DEF IsCas, LoadedValue
  <2>4. Seen(t)' = Seen(t)
    BY <2>1, <2>3 DEF Seen, TookEffect
  <2> QED BY <2>1, <2>2, <2>4, StutterIs
<1>4. CASE Stxr(t)
  <2>0. step[t] = "stxr" /\ instr' = instr /\ old' = old
    BY <1>4, StxrParts
  <2>1. Seen(t) = NoResult
    BY <2>0 DEF Seen, TookEffect
  <2>2. ASSUME t \in monitor, mem' = Stored(t), scratch' = scratch,
               step' = [step EXCEPT ![t] = "restore"]
        PROVE  Atomic!Effect(t)
    <3>1. step'[t] = "restore" /\ \A u \in Threads \ {t} : step'[u] = step[u]
      BY <2>2 DEF IsaTypes
    <3>2. \A u \in Threads \ {t} : Seen(u)' = Seen(u)
      BY <2>0, <2>2, <3>1, SeenKept
    <3>3. /\ LoadedValue(t) = mem /\ mem \in 0..(M - 1)
          /\ IF IsCas(t) THEN mem = instr[t].rs ELSE scratch[t].s2 = NewValue(instr[t], mem)
      BY <1>0, <2>0, <2>2 DEF IslandAt, IsaTypes
    <3>4. Seen(t)' = mem
      <4>1. LoadedValue(t)' = LoadedValue(t)
        BY <2>0, <2>2, Zenon DEF LoadedValue, IsCas
      <4> QED BY <3>1, <3>3, <4>1 DEF Seen, TookEffect
    <3>5. Stored(t) = Atomic!Updated(instr[t], mem)
      <4>1. CASE IsCas(t)
        BY <4>1, <3>3, <1>0, ComputesTheUpdate DEF Stored, IsCas
      <4>2. CASE ~IsCas(t)
        BY <4>2, <3>3, <1>0, ComputesTheUpdate DEF Stored, IsCas
      <4> QED BY <4>1, <4>2
    <3> QED BY <2>0, <2>1, <2>2, <3>2, <3>4, <3>5, EffectIs
  <2>3. ASSUME mem' = mem, step' = [step EXCEPT ![t] = "ldxr"],
               scratch' = IF IsCas(t) THEN [scratch EXCEPT ![t].s1 = 1]
                          ELSE [scratch EXCEPT ![t].s3 = 1]
        PROVE  UNCHANGED Atomic!atomicVars
    <3>1. /\ step'[t] = "ldxr" /\ \A u \in Threads \ {t} : step'[u] = step[u]
          /\ \A u \in Threads \ {t} : scratch'[u] = scratch[u]
      BY <2>3 DEF IsaTypes
    <3>2. \A u \in Threads \ {t} : Seen(u)' = Seen(u)
      BY <2>0, <3>1, SeenKept
    <3>3. Seen(t)' = NoResult
      BY <3>1 DEF Seen, TookEffect
    <3> QED BY <2>0, <2>1, <2>3, <3>2, <3>3, StutterIs
  <2> QED BY <1>4, <2>2, <2>3, StxrParts
<1>5. CASE Restore(t)
  <2>1. /\ step[t] = "restore" /\ step'[t] = "done" /\ old'[t] = LoadedValue(t)
        /\ \A u \in Threads \ {t} : step'[u] = step[u] /\ scratch'[u] = scratch[u] /\ old'[u] = old[u]
        /\ mem' = mem /\ instr' = instr
    BY <1>5 DEF Restore, IsaTypes
  <2>2. \A u \in Threads \ {t} : Seen(u)' = Seen(u)
    BY <2>1, SeenKept
  <2>3. Seen(t)' = Seen(t)
    BY <2>1 DEF Seen, TookEffect
  <2> QED BY <2>1, <2>2, <2>3, StutterIs
<1> QED BY <1>1, <1>2, <1>3, <1>4, <1>5

\* Islands for one word behave like the atomic instructions that they replace,
\* however their threads interleave and their stores fail, for words of any
\* width and any number of threads.
THEOREM IslandsAreAtomic == Replaceable /\ IsaSpec => ImplementsAtomic
<1> SUFFICES ASSUME Replaceable PROVE IsaSpec => ImplementsAtomic
  OBVIOUS
<1>1. IsaInit => Atomic!AtomicInit
  <2> SUFFICES ASSUME IsaInit PROVE Atomic!AtomicInit
    OBVIOUS
  <2>1. ASSUME NEW t \in Threads PROVE Seen(t) = NoResult
    BY DEF IsaInit, Seen, TookEffect
  <2>2. Results = [t \in Threads |-> NoResult]
    BY <2>1 DEF Results
  <2> QED BY <2>2 DEF Results, Seen, IsaInit, Atomic!AtomicInit
<1>2. IsaInv /\ [IslandNext \/ BcaxNext]_isaVars => [Atomic!AtomicNext]_(Atomic!atomicVars)
  <2> SUFFICES ASSUME IsaInv, [IslandNext \/ BcaxNext]_isaVars
               PROVE  [Atomic!AtomicNext]_(Atomic!atomicVars)
    OBVIOUS
  <2>1. CASE IslandNext
    BY <2>1, IslandRefines DEF IslandNext, Atomic!AtomicNext
  <2>2. CASE BcaxNext \/ UNCHANGED isaVars
    <3>1. UNCHANGED <<mem, instr, step, scratch, old>>
      BY <2>2, Zenon DEF BcaxNext, RunBcax, isaVars
    <3>2. \A u \in Threads : Seen(u)' = Seen(u)
      BY <3>1, SeenKept
    <3> QED BY <3>1, <3>2, StutterIs
  <2> QED BY <2>1, <2>2
<1>3. IsaInv /\ [IslandNext \/ BcaxNext]_isaVars => IsaInv'
  BY IsaStepInv
<1> QED BY <1>1, <1>2, <1>3, IsaInitInv, PTL DEF IsaSpec, ImplementsAtomic, Atomic!AtomicSpec

\* Two instructions and a spare register do what BCAX does, and leave the
\* spare register as it was.
LEMMA BcaxIslandRight ==
    ASSUME NEW v \in [0..4 -> {0, 1}], NEW o, {o.vd, o.vn, o.vm, o.va} \subseteq 0..4,
           ~(o.vd = o.vn /\ o.vd = o.va)
    PROVE  BcaxIsland(v, o) = [v EXCEPT ![o.vd] = Xor(v[o.vn], AndNot(v[o.vm], v[o.va]))]
<1> DEFINE all == {o.vd, o.vn, o.vm, o.va}
           want == [v EXCEPT ![o.vd] = Xor(v[o.vn], AndNot(v[o.vm], v[o.va]))]
<1>1. CASE o.va = o.vd
  <2> DEFINE w == [v EXCEPT ![o.vd] = AndNot(v[o.vm], v[o.vd])]
  <2>1. BcaxIsland(v, o) = [w EXCEPT ![o.vd] = Xor(w[o.vn], w[o.vd])]
    BY <1>1, Zenon DEF BcaxIsland
  <2>2. w[o.vn] = v[o.vn] /\ w[o.vd] = AndNot(v[o.vm], v[o.va])
    BY <1>1
  <2>3. [w EXCEPT ![o.vd] = Xor(v[o.vn], AndNot(v[o.vm], v[o.va]))] = want
    OBVIOUS
  <2> HIDE DEF w
  <2> QED BY <2>1, <2>2, <2>3, Zenon
<1>2. CASE o.va # o.vd
  <2> DEFINE Spare(r) == r \notin all /\ \A q \in DOMAIN v \ all : q <= r
             tmp == CHOOSE r \in DOMAIN v : Spare(r)
             w == [v EXCEPT ![tmp] = AndNot(v[o.vm], v[o.va])]
             x == [w EXCEPT ![o.vd] = Xor(w[o.vn], w[tmp])]
  <2>1. \E r \in DOMAIN v : Spare(r)
    <3>1. \E r \in 0..4 : r \notin all /\ \A q \in (0..4) \ all : q <= r
      <4>1. 4 \notin all \/ 3 \notin all \/ 2 \notin all \/ 1 \notin all \/ 0 \notin all
        OBVIOUS
      <4>2. CASE 4 \notin all
        BY <4>2
      <4>3. CASE 4 \in all /\ 3 \notin all
        BY <4>3
      <4>4. CASE 4 \in all /\ 3 \in all /\ 2 \notin all
        BY <4>4
      <4>5. CASE 4 \in all /\ 3 \in all /\ 2 \in all /\ 1 \notin all
        BY <4>5
      <4>6. CASE 4 \in all /\ 3 \in all /\ 2 \in all /\ 1 \in all /\ 0 \notin all
        BY <4>6
      <4> QED BY <4>1, <4>2, <4>3, <4>4, <4>5, <4>6
    <3> QED BY <3>1
  <2>2. tmp \in 0..4 /\ tmp \notin all
    BY <2>1
  <2>3. BcaxIsland(v, o) = [x EXCEPT ![tmp] = v[tmp]]
    BY <1>2, Zenon DEF BcaxIsland
  <2> HIDE DEF tmp
  <2>4. w[o.vn] = v[o.vn] /\ w[tmp] = AndNot(v[o.vm], v[o.va])
    BY <2>2
  <2>5. x = [w EXCEPT ![o.vd] = Xor(v[o.vn], AndNot(v[o.vm], v[o.va]))]
    BY <2>4, Zenon
  <2>6. [[w EXCEPT ![o.vd] = Xor(v[o.vn], AndNot(v[o.vm], v[o.va]))] EXCEPT ![tmp] = v[tmp]] = want
    BY <2>2
  <2> QED BY <2>3, <2>5, <2>6, Zenon
<1> QED BY <1>1, <1>2

\* An island leaves no trace: neither the registers and flags that it has
\* borrowed, nor for BCAX any register but the destination.
THEOREM IslandsLeaveNoTrace == Replaceable /\ BcaxReplaceable /\ IsaSpec => []NoTrace
<1> SUFFICES ASSUME Replaceable, BcaxReplaceable PROVE IsaSpec => []NoTrace
  OBVIOUS
<1>1. IsaInit => IsaInv /\ BcaxRight
  BY IsaInitInv DEF IsaInit, BcaxRight
<1>2. IsaInv /\ BcaxRight /\ [IslandNext \/ BcaxNext]_isaVars => IsaInv' /\ BcaxRight'
  <2> SUFFICES ASSUME IsaInv, BcaxRight, [IslandNext \/ BcaxNext]_isaVars PROVE BcaxRight'
    BY IsaStepInv
  <2>1. CASE IslandNext \/ UNCHANGED isaVars
    <3>1. simd' = simd
      BY <2>1, Zenon DEF IslandNext, Save, Ldxr, Compute, Stxr, Restore, isaVars
    <3> QED BY <3>1, Zenon DEF BcaxRight, NoSimd, Xor, AndNot
  <2>2. CASE BcaxNext
    <3>1. PICK o \in Bcax, v \in [0..4 -> {0, 1}] :
             simd' = [regs |-> v, op |-> o, after |-> BcaxIsland(v, o)]
      BY <2>2, Zenon DEF BcaxNext, RunBcax
    <3>2. simd'.op = o /\ simd'.regs = v /\ simd'.after = BcaxIsland(v, o)
      BY <3>1
    <3>3. BcaxIsland(v, o) = [v EXCEPT ![o.vd] = Xor(v[o.vn], AndNot(v[o.vm], v[o.va]))]
      BY BcaxIslandRight DEF BcaxReplaceable
    <3> QED BY <3>2, <3>3, Zenon DEF BcaxRight, Xor, AndNot
  <2> QED BY <2>1, <2>2
<1>3. IsaInv /\ BcaxRight => NoTrace
  BY DEF IsaInv, IslandAt, NoTrace, Undisturbed
<1> QED BY <1>1, <1>2, <1>3, PTL DEF IsaSpec

-----------------------------------------------------------------------------
(* The Objective-C runtime of sword3_objc_shim.c.                          *)

Ways == Seq(Classes) \ {<<>>}

\* One more superclass at the end of every way.
Up(r) == [c \in Classes |-> LET up == Class[Last(r[c])].super IN
                             IF up = NoClass THEN r[c] ELSE Append(r[c], up)]

LEMMA UpIsWay == ASSUME NEW r \in [Classes -> Ways] PROVE Up(r) \in [Classes -> Ways]
<1>1. ASSUME NEW c \in Classes PROVE Up(r)[c] \in Ways
  <2> DEFINE w == r[c]
             up == Class[Last(w)].super
  <2>1. w \in Seq(Classes) /\ w # <<>>
    BY DEF Ways
  <2>2. Len(w) \in 1..Len(w) /\ Last(w) \in Classes
    <3> HIDE DEF w
    <3> QED BY <2>1 DEF Last
  <2>3. up \in Classes \cup {NoClass}
    BY <2>2, ObjcAssumption
  <2>4. Up(r)[c] = IF up = NoClass THEN w ELSE Append(w, up)
    BY DEF Up
  <2> HIDE DEF w, up
  <2>5. ASSUME up \in Classes PROVE Append(w, up) \in Ways
    <3>1. Append(w, up) \in Seq(Classes) /\ Len(Append(w, up)) = Len(w) + 1
      BY <2>1, <2>5
    <3>2. Len(Append(w, up)) # 0
      BY <2>1, <3>1
    <3> DEFINE z == Append(w, up)
    <3> HIDE DEF z
    <3>3. z \in Seq(Classes) /\ Len(z) # 0
      BY <3>1, <3>2 DEF z
    <3>4. z \in Ways
      BY <3>3 DEF Ways
    <3> QED BY <3>4 DEF z
  <2> QED BY <2>1, <2>3, <2>4, <2>5 DEF Ways
<1>2. Up(r) = [c \in Classes |-> Up(r)[c]]
  BY DEF Up
<1> HIDE DEF Up
<1> QED BY <1>1, <1>2

LEMMA LineageIsWay == Lineage \in [Classes -> Ways]
<1> DEFINE first == [c \in Classes |-> <<c>>]
           S == [Classes -> Ways]
           D == [k \in Nat |-> [x \in S |-> Up(x)]]
           Next1(g) == [n \in Nat |-> IF n = 0 THEN first ELSE Up(g[n - 1])]
<1>1. first \in S
  <2>1. ASSUME NEW c \in Classes PROVE <<c>> \in Ways
    BY DEF Ways
  <2> QED BY <2>1
<1>2. D \in StepsOn(S)
  BY UpIsWay DEF StepsOn
<1>3. PICK f \in [Nat -> S] : f[0] = first /\ \A n \in Nat : f[n + 1] = D[n][f[n]]
  <2> HIDE DEF first, S, D
  <2>1. \E f \in [Nat -> S] : Recurses(f, first, D)
    BY <1>1, <1>2, RecursionOnNat, Zenon
  <2> QED BY <2>1, Zenon DEF Recurses
<1>4. f = Next1(f)
  <2>1. ASSUME NEW n \in Nat PROVE f[n] = IF n = 0 THEN first ELSE Up(f[n - 1])
    <3>1. CASE n = 0
      BY <3>1, <1>3
    <3>2. CASE n # 0
      <4>1. n - 1 \in Nat /\ (n - 1) + 1 = n
        BY <3>2
      <4>2. f[n] = D[n - 1][f[n - 1]]
        BY <4>1, <1>3, Zenon
      <4>3. f[n - 1] \in S
        BY <4>1, <1>3, Zenon
      <4>4. D[n - 1][f[n - 1]] = Up(f[n - 1])
        BY <4>1, <4>3
      <4> QED BY <3>2, <4>2, <4>4
    <3> QED BY <3>1, <3>2
  <2> HIDE DEF first, S
  <2> QED BY <2>1
<1>5. LineageTo = CHOOSE g : g = Next1(g)
  BY Zenon DEF LineageTo, Up
<1>6. LineageTo = Next1(LineageTo)
  <2> HIDE DEF Next1
  <2> QED BY <1>4, <1>5, Zenon
<1> DEFINE T == {n \in Nat : LineageTo[n] \in S}
<1>7. 0 \in T
  <2>1. LineageTo[0] = first
    BY <1>6, Zenon
  <2> QED BY <2>1, <1>1
<1>8. ASSUME NEW n \in T PROVE n + 1 \in T
  <2>1. n \in Nat /\ n + 1 \in Nat /\ n + 1 # 0 /\ (n + 1) - 1 = n /\ LineageTo[n] \in S
    BY <1>8
  <2>2. LineageTo[n + 1] = Up(LineageTo[(n + 1) - 1])
    <3> HIDE DEF first
    <3> QED BY <1>6, <2>1
  <2>3. LineageTo[n + 1] \in S
    BY <2>1, <2>2, UpIsWay
  <2> QED BY <2>1, <2>3
<1>9. T = Nat
  <2> HIDE DEF T
  <2>1. T \in SUBSET Nat
    BY DEF T
  <2> QED BY <2>1, <1>7, <1>8, AllNumbers
<1>10. Cardinality(Classes) \in Nat
  BY FS_CardinalityType, ObjcAssumption
<1> QED BY <1>9, <1>10 DEF Lineage

\* The nearest class of a set on a way that meets it is well defined.
LEMMA NearestIs ==
    ASSUME NEW way \in Seq(Classes), NEW S, ToSet(way) \cap S # {}
    PROVE  \E i \in 1..Len(way) :
              /\ way[i] \in S /\ (\A j \in 1..(i - 1) : way[j] \notin S)
              /\ Nearest(way, S) = way[i]
<1> DEFINE P(i) == way[i] \in S /\ \A j \in 1..(i - 1) : way[j] \notin S
           met == {i \in 1..Len(way) : way[i] \in S}
<1>0. DOMAIN way = 1..Len(way) /\ Len(way) \in Nat
  OBVIOUS
<1>1. met # {} /\ met \in SUBSET Nat
  BY <1>0 DEF ToSet
<1>2. PICK x \in met : \A y \in met : x <= y
  <2> HIDE DEF met
  <2> QED BY <1>1, LeastNumber
<1>3. x \in 1..Len(way) /\ P(x)
  BY <1>0, <1>2
<1>4. Nearest(way, S) = way[CHOOSE i \in 1..Len(way) : P(i)]
  BY <1>0, Zenon DEF Nearest
<1> DEFINE k == CHOOSE i \in 1..Len(way) : P(i)
<1>5. k \in 1..Len(way) /\ P(k)
  BY <1>3, Zenon
<1> HIDE DEF k
<1>6. way[k] \in S /\ (\A j \in 1..(k - 1) : way[j] \notin S) /\ Nearest(way, S) = way[k]
  BY <1>4, <1>5, Zenon DEF k
<1> QED BY <1>5, <1>6

\* A message runs the code of the method that is found first, if that has any.
LEMMA SameCode ==
    ASSUME NEW c \in Classes, NEW sel \in Selectors,
           ToSet(Lineage[c]) \cap HaveMethod[sel] # {},
           ImpOf(Nearest(Lineage[c], HaveMethod[sel]), sel) # NoCode
    PROVE  LookupOn(Lineage[c] \o <<NSObject, NSObjectMeta>>, sel)
             = ImpOf(Nearest(Lineage[c], HaveMethod[sel]), sel)
<1> DEFINE way == Lineage[c]
           tail == <<NSObject, NSObjectMeta>>
           all == way \o tail
           M1 == HaveMethod[sel]
           C1 == HaveCode[sel]
<1>1. way \in Seq(Classes) /\ tail \in Seq(Classes) /\ Len(tail) = 2
  BY LineageIsWay, ObjcAssumption DEF Ways
<1>2. C1 = {d \in M1 : ImpOf(d, sel) # NoCode}
  BY DEF HaveCode
<1> HIDE DEF way, tail, M1, C1
<1>3. PICK i \in 1..Len(way) : /\ way[i] \in M1 /\ (\A j \in 1..(i - 1) : way[j] \notin M1)
                               /\ Nearest(way, M1) = way[i]
  BY <1>1, NearestIs DEF way, M1
<1>4. way[i] \in C1
  BY <1>2, <1>3 DEF way, M1
<1>5. /\ all \in Seq(Classes) /\ Len(all) = Len(way) + 2 /\ Len(way) \in Nat
      /\ \A j \in 1..Len(way) : all[j] = way[j]
  <2>1. all \in Seq(Classes) /\ Len(all) = Len(way) + Len(tail)
    BY <1>1, ConcatProperties, Zenon
  <2>3. Len(way) \in Nat
    BY <1>1
  <2>2. ASSUME NEW j \in 1..Len(way) PROVE all[j] = way[j]
    BY <1>1, ConcatProperties
  <2> HIDE DEF all
  <2> QED BY <2>1, <2>2, <2>3, <1>1
<1> HIDE DEF all
<1>6. ToSet(all) \cap C1 # {}
  <2>1. i \in DOMAIN all /\ all[i] = way[i]
    BY <1>3, <1>5
  <2> QED BY <2>1, <1>4 DEF ToSet
<1>7. PICK k \in 1..Len(all) : /\ all[k] \in C1 /\ (\A j \in 1..(k - 1) : all[j] \notin C1)
                               /\ Nearest(all, C1) = all[k]
  <2>1. all \in Seq(Classes)
    BY <1>5
  <2> QED BY <2>1, <1>6, NearestIs
<1>8. k = i
  <2>1. i \in Nat /\ k \in Nat /\ i >= 1 /\ k >= 1 /\ i <= Len(way)
    BY <1>3, <1>5
  <2>2. ~(i < k)
    BY <1>3, <1>4, <1>5, <1>7, <2>1
  <2>3. ~(k < i)
    <3> SUFFICES ASSUME k < i PROVE FALSE
      OBVIOUS
    <3>1. k \in 1..(i - 1) /\ k \in 1..Len(way)
      BY <2>1
    <3>2. way[k] \in C1
      BY <3>1, <1>5, <1>7
    <3> QED BY <3>1, <3>2, <1>2, <1>3
  <2> QED BY <2>1, <2>2, <2>3
<1>9. Nearest(all, C1) = Nearest(way, M1)
  BY <1>3, <1>5, <1>7, <1>8
<1>10. LookupOn(all, sel) = ImpOf(Nearest(all, C1), sel)
  BY <1>6 DEF LookupOn, C1
<1> QED BY <1>9, <1>10, Zenon DEF all, way, tail, M1

IsSeq(s) == \E T : s \in Seq(T)

LEMMA AppendAny ==
    ASSUME NEW s, IsSeq(s), NEW e
    PROVE  /\ IsSeq(Append(s, e)) /\ Len(s) \in Nat /\ DOMAIN s = 1..Len(s)
           /\ DOMAIN Append(s, e) = 1..(Len(s) + 1)
           /\ (\A i \in 1..Len(s) : Append(s, e)[i] = s[i]) /\ Append(s, e)[Len(s) + 1] = e
<1>1. PICK T : s \in Seq(T)
  BY DEF IsSeq
<1> DEFINE U == T \cup {e}
<1>2. s \in Seq(U) /\ e \in U /\ Len(s) \in Nat /\ DOMAIN s = 1..Len(s)
  BY <1>1
<1> HIDE DEF U
<1>3. Append(s, e) \in Seq(U)
  BY <1>2
<1> QED BY <1>2, <1>3 DEF IsSeq

\* A list whose nodes are handed out by their number: no key is in it twice,
\* and what was handed out is where the key is.
NodesAreKeys(list, got) ==
    /\ IsSeq(list) /\ (\A i, j \in DOMAIN list : list[i] = list[j] => i = j)
    /\ \A p \in got : p[2] \in DOMAIN list /\ list[p[2]] = p[1]

LEMMA NodesFunctional ==
    ASSUME NEW list, NEW got, NodesAreKeys(list, got) PROVE IsFunctional(got)
  BY DEF NodesAreKeys, IsFunctional

LEMMA NodeFound ==
    ASSUME NEW list, NEW got, NodesAreKeys(list, got), NEW key
    PROVE  NodesAreKeys(list, got \cup {<<key, i>> : i \in Nodes(list, key)})
<1>1. ASSUME NEW p \in {<<key, i>> : i \in Nodes(list, key)}
      PROVE  p[2] \in DOMAIN list /\ list[p[2]] = p[1]
  <2>1. PICK i \in Nodes(list, key) : p = <<key, i>>
    BY <1>1
  <2>2. i \in DOMAIN list /\ list[i] = key /\ p[1] = key /\ p[2] = i
    BY <2>1 DEF Nodes
  <2> QED BY <2>2
<1> QED BY <1>1 DEF NodesAreKeys

LEMMA NodeAdded ==
    ASSUME NEW list, NEW got, NodesAreKeys(list, got), NEW key, Nodes(list, key) = {}
    PROVE  NodesAreKeys(Append(list, key), got \cup {<<key, Len(list) + 1>>})
<1> DEFINE n == Len(list)
           new == Append(list, key)
<1>1. /\ IsSeq(new) /\ n \in Nat /\ DOMAIN list = 1..n /\ DOMAIN new = 1..(n + 1)
      /\ (\A i \in 1..n : new[i] = list[i]) /\ new[n + 1] = key
  BY AppendAny DEF NodesAreKeys
<1>2. \A i \in 1..n : list[i] # key
  BY <1>1 DEF Nodes
<1> HIDE DEF new, n
<1>3. ASSUME NEW i \in DOMAIN new, NEW j \in DOMAIN new, new[i] = new[j] PROVE i = j
  <2>1. (i \in 1..n \/ i = n + 1) /\ (j \in 1..n \/ j = n + 1)
    BY <1>1
  <2> QED BY <2>1, <1>1, <1>2, <1>3 DEF NodesAreKeys
<1>4. ASSUME NEW p \in got \cup {<<key, n + 1>>} PROVE p[2] \in DOMAIN new /\ new[p[2]] = p[1]
  <2>1. CASE p \in got
    <3>1. p[2] \in 1..n /\ list[p[2]] = p[1]
      BY <2>1, <1>1 DEF NodesAreKeys
    <3> QED BY <3>1, <1>1
  <2>2. CASE p = <<key, n + 1>>
    BY <2>2, <1>1
  <2> QED BY <2>1, <2>2
<1>5. NodesAreKeys(new, got \cup {<<key, n + 1>>})
  BY <1>1, <1>3, <1>4 DEF NodesAreKeys
<1> QED BY <1>5 DEF new, n

\* Only one thread is in a section, and it is there for a key that is not in
\* the list yet.
Alone(pc) == \A t, u \in Senders : doing[t].pc = pc /\ doing[u].pc = pc => t = u
SelectorInv ==
    /\ Alone("selector") /\ NodesAreKeys(names, selGot)
    /\ \A t \in Senders : doing[t].pc = "selector" => Nodes(names, doing[t].key[1]) = {}
CacheInv ==
    /\ Alone("cache") /\ NodesAreKeys(cached, methodGot)
    /\ \A t \in Senders : doing[t].pc = "cache" => Nodes(cached, doing[t].key) = {}

\* The answer given for a class name is the answer given for it now.
ClassInv ==
    /\ IsSeq(observed)
    /\ \A p \in classGot : p[2] = LookUpClass(p[1]) /\ p[2] # NoClass

\* What was found and what was run, as the class and the selector determine it.
MessageInv ==
    /\ looked = NoAnswer \/
       /\ looked.cls \in Classes /\ looked.sel \in Selectors
       /\ ToSet(Lineage[looked.cls]) \cap HaveMethod[looked.sel] # {}
       /\ looked.imp = ImpOf(Nearest(Lineage[looked.cls], HaveMethod[looked.sel]), looked.sel)
    /\ sent = NoAnswer \/
       /\ sent.cls \in Classes /\ sent.sel \in Selectors
       /\ sent.imp = LookupOn(Lineage[sent.cls] \o <<NSObject, NSObjectMeta>>, sent.sel)

ObjcInv ==
    /\ doing = [t \in Senders |-> doing[t]]
    /\ SelectorInv /\ CacheInv /\ ClassInv /\ MessageInv

LEMMA SelectorKept ==
    ASSUME SelectorInv, names' = names, selGot' = selGot,
           \A t \in Senders : doing'[t].pc = "selector" =>
              doing[t].pc = "selector" /\ doing'[t].key = doing[t].key
    PROVE  SelectorInv'
<1>1. Alone("selector")'
  BY DEF SelectorInv, Alone
<1>2. NodesAreKeys(names, selGot)'
  BY Zenon DEF SelectorInv, NodesAreKeys, IsSeq
<1>3. ASSUME NEW t \in Senders, doing'[t].pc = "selector" PROVE (Nodes(names, doing[t].key[1]) = {})'
  <2>1. Nodes(names, doing[t].key[1]) = {} /\ doing'[t].key = doing[t].key
    BY <1>3 DEF SelectorInv
  <2> QED BY <2>1, Zenon DEF Nodes
<1> QED BY <1>1, <1>2, <1>3 DEF SelectorInv

LEMMA CacheKept ==
    ASSUME CacheInv, cached' = cached, methodGot' = methodGot,
           \A t \in Senders : doing'[t].pc = "cache" =>
              doing[t].pc = "cache" /\ doing'[t].key = doing[t].key
    PROVE  CacheInv'
<1>1. Alone("cache")'
  BY DEF CacheInv, Alone
<1>2. NodesAreKeys(cached, methodGot)'
  BY Zenon DEF CacheInv, NodesAreKeys, IsSeq
<1>3. ASSUME NEW t \in Senders, doing'[t].pc = "cache" PROVE (Nodes(cached, doing[t].key) = {})'
  <2>1. Nodes(cached, doing[t].key) = {} /\ doing'[t].key = doing[t].key
    BY <1>3 DEF CacheInv
  <2> QED BY <2>1, Zenon DEF Nodes
<1> QED BY <1>1, <1>2, <1>3 DEF CacheInv

LEMMA ClassKept ==
    ASSUME ClassInv, observed' = observed, classGot' = classGot PROVE ClassInv'
<1>1. ASSUME NEW name PROVE LookUpClass(name)' = LookUpClass(name)
  BY DEF LookUpClass
<1>2. IsSeq(observed)'
  BY Zenon DEF ClassInv, IsSeq
<1> QED BY <1>1, <1>2, Zenon DEF ClassInv

LEMMA MessageKept ==
    ASSUME MessageInv, looked' = looked, sent' = sent PROVE MessageInv'
  BY Zenon DEF MessageInv

\* Entering a section, and leaving it.
LEMMA DoingAt ==
    ASSUME ObjcInv, NEW t \in Senders, NEW new, doing' = [doing EXCEPT ![t] = new]
    PROVE  /\ doing' = [u \in Senders |-> doing'[u]]
           /\ doing'[t] = new /\ \A u \in Senders \ {t} : doing'[u] = doing[u]
<1>1. doing = [u \in Senders |-> doing[u]]
  BY Zenon DEF ObjcInv
<1>2. DOMAIN doing = Senders
  BY <1>1, Zenon
<1>3. doing' = [u \in Senders |-> IF u = t THEN new ELSE doing[u]]
  BY <1>2, Zenon
<1> QED BY <1>3, Zenon

LEMMA RegisterKeeps ==
    ASSUME ObjcInv, NEW t \in Senders, NEW s \in Selectors, Register(t, s) PROVE ObjcInv'
<1>1. /\ ~InSection("selector")
      /\ UNCHANGED <<names, cached, observed, methodGot, looked, sent, classGot>>
  BY Zenon DEF Register, RegisterUnder
<1>2. SelectorInv /\ CacheInv /\ ClassInv /\ MessageInv
  BY DEF ObjcInv
<1>3. ClassInv' /\ MessageInv'
  BY <1>1, <1>2, ClassKept, MessageKept
<1>4. CASE Nodes(names, s) # {}
  <2>1. selGot' = selGot \cup {<<s, i>> : i \in Nodes(names, s)} /\ doing' = doing
    BY <1>4, Zenon DEF Register, RegisterUnder
  <2>2. NodesAreKeys(names, selGot)'
    <3>1. NodesAreKeys(names, selGot')
      BY <1>2, <2>1, NodeFound DEF SelectorInv
    <3> QED BY <1>1, <3>1, Zenon DEF NodesAreKeys, IsSeq
  <2>3. SelectorInv'
    <3>1. ASSUME NEW u \in Senders, doing'[u].pc = "selector" PROVE FALSE
      BY <1>1, <2>1, <3>1 DEF InSection
    <3> QED BY <2>2, <3>1 DEF SelectorInv, Alone
  <2>4. CacheInv'
    BY <1>1, <1>2, <2>1, CacheKept
  <2> QED BY <1>3, <2>1, <2>3, <2>4, Zenon DEF ObjcInv
<1>5. CASE Nodes(names, s) = {}
  <2> DEFINE new == [pc |-> "selector", key |-> <<s>>]
  <2>1. doing' = [doing EXCEPT ![t] = new] /\ selGot' = selGot
    BY <1>5, Zenon DEF Register, RegisterUnder
  <2>2. /\ doing' = [u \in Senders |-> doing'[u]]
        /\ doing'[t] = new /\ \A u \in Senders \ {t} : doing'[u] = doing[u]
    <3> HIDE DEF new
    <3> QED BY <2>1, DoingAt
  <2>3. new.pc = "selector" /\ new.key = <<s>> /\ new.key[1] = s
    OBVIOUS
  <2> HIDE DEF new
  <2>4. SelectorInv'
    <3>1. \A u \in Senders : doing'[u].pc = "selector" => u = t
      BY <1>1, <2>2 DEF InSection
    <3>2. (Nodes(names, doing[t].key[1]) = {})'
      BY <1>1, <1>5, <2>2, <2>3, Zenon DEF Nodes
    <3>3. NodesAreKeys(names, selGot)'
      BY <1>1, <1>2, <2>1, Zenon DEF SelectorInv, NodesAreKeys, IsSeq
    <3> QED BY <3>1, <3>2, <3>3 DEF SelectorInv, Alone
  <2>5. CacheInv'
    <3>1. \A u \in Senders : doing'[u].pc = "cache" => doing'[u] = doing[u]
      BY <2>2, <2>3
    <3> QED BY <1>1, <1>2, <3>1, CacheKept
  <2> QED BY <1>3, <2>2, <2>4, <2>5, Zenon DEF ObjcInv
<1> QED BY <1>4, <1>5

LEMMA RegisterInsertKeeps ==
    ASSUME ObjcInv, NEW t \in Senders, RegisterInsert(t) PROVE ObjcInv'
<1>1. /\ doing[t].pc = "selector" /\ doing' = [doing EXCEPT ![t] = Outside]
      /\ names' = Append(names, doing[t].key[1])
      /\ selGot' = selGot \cup {<<doing[t].key[1], Len(names) + 1>>}
      /\ UNCHANGED <<cached, observed, methodGot, looked, sent, classGot>>
  BY Zenon DEF RegisterInsert
<1>2. SelectorInv /\ CacheInv /\ ClassInv /\ MessageInv
  BY DEF ObjcInv
<1>3. ClassInv' /\ MessageInv'
  BY <1>1, <1>2, ClassKept, MessageKept
<1>4. /\ doing' = [u \in Senders |-> doing'[u]]
      /\ doing'[t] = Outside /\ \A u \in Senders \ {t} : doing'[u] = doing[u]
  BY <1>1, DoingAt
<1>5. Outside.pc = "guest"
  BY DEF Outside
<1>6. CacheInv'
  <2>1. \A u \in Senders : doing'[u].pc = "cache" => doing'[u] = doing[u]
    BY <1>4, <1>5
  <2> QED BY <1>1, <1>2, <2>1, CacheKept
<1>7. SelectorInv'
  <2>1. ASSUME NEW u \in Senders, doing'[u].pc = "selector" PROVE FALSE
    <3>1. u # t /\ doing[u].pc = "selector"
      BY <1>4, <1>5, <2>1
    <3> QED BY <1>1, <1>2, <3>1 DEF SelectorInv, Alone
  <2>2. NodesAreKeys(names', selGot')
    BY <1>1, <1>2, NodeAdded DEF SelectorInv
  <2>3. NodesAreKeys(names, selGot)'
    BY <2>2, Zenon DEF NodesAreKeys, IsSeq
  <2> QED BY <2>1, <2>3 DEF SelectorInv, Alone
<1> QED BY <1>3, <1>4, <1>6, <1>7, Zenon DEF ObjcInv

\* The owner of the method that is looked up.
LEMMA GetInstanceMethodKeeps ==
    ASSUME ObjcInv, NEW t \in Senders, NEW c \in Classes, NEW sel \in Selectors,
           GetInstanceMethod(t, c, sel)
    PROVE  ObjcInv'
<1> DEFINE owner == Nearest(Lineage[c], HaveMethod[sel])
           e == <<owner, FoundAt[owner, sel]>>
<1>1. /\ ToSet(Lineage[c]) \cap HaveMethod[sel] # {}
      /\ looked' = [cls |-> c, sel |-> sel, imp |-> ImpOf(owner, sel)]
      /\ UNCHANGED <<names, cached, observed, selGot, sent, classGot>>
      /\ \/ UNCHANGED <<doing, methodGot>>
         \/ /\ ~InSection("cache")
            /\ Nodes(cached, e) # {} /\ doing' = doing
            /\ methodGot' = methodGot \cup {<<e, i>> : i \in Nodes(cached, e)}
         \/ /\ ~InSection("cache")
            /\ Nodes(cached, e) = {} /\ methodGot' = methodGot
            /\ doing' = [doing EXCEPT ![t] = [pc |-> "cache", key |-> e]]
  BY Zenon DEF GetInstanceMethod
<1>2. SelectorInv /\ CacheInv /\ ClassInv /\ MessageInv /\ doing = [u \in Senders |-> doing[u]]
  BY Zenon DEF ObjcInv
<1> HIDE DEF e
<1>3. ClassInv'
  BY <1>1, <1>2, ClassKept
<1>4. MessageInv'
  <2>1. looked'.cls = c /\ looked'.sel = sel /\ looked'.imp = ImpOf(owner, sel)
    BY <1>1
  <2> QED BY <1>1, <1>2, <2>1, Zenon DEF MessageInv
<1>5. CASE UNCHANGED <<doing, methodGot>>
  <2>1. SelectorInv' /\ CacheInv'
    BY <1>1, <1>2, <1>5, SelectorKept, CacheKept
  <2> QED BY <1>2, <1>3, <1>4, <1>5, <2>1, Zenon DEF ObjcInv
<1>6. ASSUME ~InSection("cache"), doing' = doing,
             methodGot' = methodGot \cup {<<e, i>> : i \in Nodes(cached, e)}
      PROVE  ObjcInv'
  <2>1. SelectorInv'
    BY <1>1, <1>2, <1>6, SelectorKept
  <2>2. NodesAreKeys(cached, methodGot)'
    <3>1. NodesAreKeys(cached, methodGot')
      BY <1>2, <1>6, NodeFound DEF CacheInv
    <3> QED BY <1>1, <3>1, Zenon DEF NodesAreKeys, IsSeq
  <2>3. ASSUME NEW u \in Senders, doing'[u].pc = "cache" PROVE FALSE
    BY <1>6, <2>3 DEF InSection
  <2>4. CacheInv'
    BY <2>2, <2>3 DEF CacheInv, Alone
  <2> QED BY <1>2, <1>3, <1>4, <1>6, <2>1, <2>4, Zenon DEF ObjcInv
<1>7. ASSUME ~InSection("cache"), Nodes(cached, e) = {}, methodGot' = methodGot,
             doing' = [doing EXCEPT ![t] = [pc |-> "cache", key |-> e]]
      PROVE  ObjcInv'
  <2> DEFINE new == [pc |-> "cache", key |-> e]
  <2>1. doing' = [doing EXCEPT ![t] = new]
    BY <1>7
  <2>2. new.pc = "cache" /\ new.key = e
    OBVIOUS
  <2> HIDE DEF new
  <2>3. /\ doing' = [u \in Senders |-> doing'[u]]
        /\ doing'[t] = new /\ \A u \in Senders \ {t} : doing'[u] = doing[u]
    BY <2>1, DoingAt
  <2>4. CacheInv'
    <3>1. \A u \in Senders : doing'[u].pc = "cache" => u = t
      BY <1>7, <2>3 DEF InSection
    <3>2. (Nodes(cached, doing[t].key) = {})'
      BY <1>1, <1>7, <2>2, <2>3, Zenon DEF Nodes
    <3>3. NodesAreKeys(cached, methodGot)'
      BY <1>1, <1>2, <1>7, Zenon DEF CacheInv, NodesAreKeys, IsSeq
    <3> QED BY <3>1, <3>2, <3>3 DEF CacheInv, Alone
  <2>5. SelectorInv'
    <3>1. \A u \in Senders : doing'[u].pc = "selector" => doing'[u] = doing[u]
      BY <2>2, <2>3
    <3> QED BY <1>1, <1>2, <3>1, SelectorKept
  <2> QED BY <1>3, <1>4, <2>3, <2>4, <2>5, Zenon DEF ObjcInv
<1> QED BY <1>1, <1>5, <1>6, <1>7

LEMMA CacheDecodedKeeps ==
    ASSUME ObjcInv, NEW t \in Senders, CacheDecodedMethod(t) PROVE ObjcInv'
<1>1. /\ doing[t].pc = "cache" /\ doing' = [doing EXCEPT ![t] = Outside]
      /\ cached' = Append(cached, doing[t].key)
      /\ methodGot' = methodGot \cup {<<doing[t].key, Len(cached) + 1>>}
      /\ UNCHANGED <<names, observed, selGot, looked, sent, classGot>>
  BY Zenon DEF CacheDecodedMethod
<1>2. SelectorInv /\ CacheInv /\ ClassInv /\ MessageInv
  BY DEF ObjcInv
<1>3. ClassInv' /\ MessageInv'
  BY <1>1, <1>2, ClassKept, MessageKept
<1>4. /\ doing' = [u \in Senders |-> doing'[u]]
      /\ doing'[t] = Outside /\ \A u \in Senders \ {t} : doing'[u] = doing[u]
  BY <1>1, DoingAt
<1>5. Outside.pc = "guest"
  BY DEF Outside
<1>6. SelectorInv'
  <2>1. \A u \in Senders : doing'[u].pc = "selector" => doing'[u] = doing[u]
    BY <1>4, <1>5
  <2> QED BY <1>1, <1>2, <2>1, SelectorKept
<1>7. CacheInv'
  <2>1. ASSUME NEW u \in Senders, doing'[u].pc = "cache" PROVE FALSE
    <3>1. u # t /\ doing[u].pc = "cache"
      BY <1>4, <1>5, <2>1
    <3> QED BY <1>1, <1>2, <3>1 DEF CacheInv, Alone
  <2>2. NodesAreKeys(cached', methodGot')
    BY <1>1, <1>2, NodeAdded DEF CacheInv
  <2>3. NodesAreKeys(cached, methodGot)'
    BY <2>2, Zenon DEF NodesAreKeys, IsSeq
  <2> QED BY <2>1, <2>3 DEF CacheInv, Alone
<1> QED BY <1>3, <1>4, <1>6, <1>7, Zenon DEF ObjcInv

\* A message that is sent is answered by the lineage of the class it is for.
LEMMA SendsKeep ==
    ASSUME ObjcInv, NEW t \in Senders, NEW c \in Classes, NEW sel \in Selectors,
           MsgSend(t, c, sel) \/ \E d \in Classes : MsgSendSuper2(t, c, d, sel)
    PROVE  ObjcInv'
<1>1. UNCHANGED <<names, cached, observed, doing, selGot, methodGot, looked, classGot>>
  BY Zenon DEF MsgSend, MsgSendSuper2
<1>2. \E k \in Classes : sent' = [cls |-> k, sel |-> sel,
                              imp |-> LookupOn(Lineage[k] \o <<NSObject, NSObjectMeta>>, sel)]
  <2>1. CASE MsgSend(t, c, sel)
    <3>1. LookupImp(c, NoClass, sel) = LookupOn(Lineage[c] \o <<NSObject, NSObjectMeta>>, sel)
      BY Zenon DEF LookupImp
    <3> QED BY <2>1, <3>1, Zenon DEF MsgSend
  <2>2. ASSUME NEW d \in Classes, MsgSendSuper2(t, c, d, sel) 
        PROVE  \E k \in Classes : sent' = [cls |-> k, sel |-> sel,
                              imp |-> LookupOn(Lineage[k] \o <<NSObject, NSObjectMeta>>, sel)]
    <3> DEFINE k == Class[d].super
    <3>1. k # NoClass /\ sent' = [cls |-> k, sel |-> sel, imp |-> LookupImp(c, k, sel)]
      BY <2>2, Zenon DEF MsgSendSuper2
    <3>2. k \in Classes
      BY <3>1, ObjcAssumption
    <3>3. LookupImp(c, k, sel) = LookupOn(Lineage[k] \o <<NSObject, NSObjectMeta>>, sel)
      BY <3>1, Zenon DEF LookupImp
    <3> QED BY <3>1, <3>2, <3>3, Zenon
  <2> QED BY <2>1, <2>2
<1>3. MessageInv'
  <2>1. PICK k \in Classes : sent' = [cls |-> k, sel |-> sel,
                              imp |-> LookupOn(Lineage[k] \o <<NSObject, NSObjectMeta>>, sel)]
    BY <1>2
  <2>2. /\ sent'.cls = k /\ sent'.sel = sel
        /\ sent'.imp = LookupOn(Lineage[k] \o <<NSObject, NSObjectMeta>>, sel)
    BY <2>1, Zenon
  <2> QED BY <1>1, <2>2, Zenon DEF ObjcInv, MessageInv
<1>4. SelectorInv' /\ CacheInv' /\ ClassInv'
  BY <1>1, SelectorKept, CacheKept, ClassKept DEF ObjcInv
<1> QED BY <1>1, <1>3, <1>4, Zenon DEF ObjcInv

\* A class that is observed later does not change an answer given earlier.
LEMMA RememberClassKeeps ==
    ASSUME ObjcInv, NEW t \in Senders, NEW c \in Classes, RememberClass(t, c) PROVE ObjcInv'
<1>1. /\ observed' = Append(observed, c)
      /\ UNCHANGED <<names, cached, doing, selGot, methodGot, looked, sent, classGot>>
  BY Zenon DEF RememberClass
<1> DEFINE n == Len(observed)
<1>2. /\ IsSeq(observed') /\ n \in Nat /\ DOMAIN observed = 1..n /\ DOMAIN observed' = 1..(n + 1)
      /\ (\A i \in 1..n : observed'[i] = observed[i]) /\ observed'[n + 1] = c
  BY <1>1, AppendAny DEF ObjcInv, ClassInv
<1> HIDE DEF n
<1>3. ASSUME NEW name, LookUpClass(name) # NoClass PROVE LookUpClass(name)' = LookUpClass(name)
  <2>1. CASE name = Class[NSObject].name
    BY <2>1, Zenon DEF LookUpClass
  <2>2. CASE name # Class[NSObject].name
    <3> DEFINE A == {i \in DOMAIN observed : Class[observed[i]].name = name}
               B == {i \in DOMAIN observed' : Class[observed'[i]].name = name}
               LeastOf(S) == CHOOSE i \in S : \A j \in S : i <= j
    <3>1. LookUpClass(name) = IF A = {} THEN NoClass ELSE observed[LeastOf(A)]
      BY <2>2, Zenon DEF LookUpClass
    <3>2. LookUpClass(name)' = IF B = {} THEN NoClass ELSE observed'[LeastOf(B)]
      BY <2>2, Zenon DEF LookUpClass
    <3>3. A # {} /\ A \in SUBSET (1..n)
      BY <1>2, <1>3, <3>1
    <3>4. A \subseteq B /\ B \subseteq A \cup {n + 1}
      BY <1>2
    <3> HIDE DEF A, B
    <3>5. PICK x \in A : \A y \in A : x <= y
      <4>1. A \in SUBSET Nat
        BY <1>2, <3>3
      <4> QED BY <4>1, <3>3, LeastNumber
    <3>6. x \in 1..n /\ x \in B /\ \A y \in B : x <= y
      BY <1>2, <3>3, <3>4, <3>5
    <3>7. ASSUME NEW S \in SUBSET Int, x \in S, \A y \in S : x <= y PROVE LeastOf(S) = x
      <4> DEFINE z == LeastOf(S)
      <4>1. z \in S /\ \A y \in S : z <= y
        BY <3>7, Zenon
      <4> HIDE DEF z
      <4>2. z = x
        BY <3>7, <4>1
      <4> QED BY <4>2 DEF z
    <3>8. A \in SUBSET Int /\ B \in SUBSET Int
      BY <1>2, <3>3, <3>4
    <3>9. LeastOf(A) = x /\ LeastOf(B) = x
      <4> HIDE DEF LeastOf
      <4> QED BY <3>5, <3>6, <3>7, <3>8
    <3> HIDE DEF LeastOf
    <3> QED BY <1>2, <3>1, <3>2, <3>3, <3>6, <3>9
  <2> QED BY <2>1, <2>2
<1>4. ClassInv'
  <2>1. IsSeq(observed)'
    BY <1>2, Zenon DEF IsSeq
  <2>2. ASSUME NEW p \in classGot PROVE p[2] = LookUpClass(p[1])' /\ p[2] # NoClass
    <3>1. p[2] = LookUpClass(p[1]) /\ p[2] # NoClass
      BY <2>2 DEF ObjcInv, ClassInv
    <3> QED BY <3>1, <1>3, Zenon
  <2> QED BY <1>1, <2>1, <2>2, Zenon DEF ClassInv
<1>5. SelectorInv' /\ CacheInv' /\ MessageInv'
  BY <1>1, SelectorKept, CacheKept, MessageKept DEF ObjcInv
<1> QED BY <1>1, <1>4, <1>5, Zenon DEF ObjcInv

LEMMA GetClassKeeps ==
    ASSUME ObjcInv, NEW t \in Senders, NEW name, NEW required \in BOOLEAN, GetClass(t, name, required)
    PROVE  ObjcInv'
<1>1. /\ UNCHANGED <<names, cached, observed, doing, selGot, methodGot, looked, sent>>
      /\ classGot' = IF LookUpClass(name) = NoClass THEN classGot
                     ELSE classGot \cup {<<name, LookUpClass(name)>>}
  BY Zenon DEF GetClass
<1>2. ASSUME NEW k PROVE LookUpClass(k)' = LookUpClass(k)
  BY <1>1 DEF LookUpClass
<1>3. ClassInv'
  <2>1. IsSeq(observed)'
    BY <1>1, Zenon DEF ObjcInv, ClassInv, IsSeq
  <2>2. ASSUME NEW p \in classGot' PROVE p[2] = LookUpClass(p[1]) /\ p[2] # NoClass
    <3>1. CASE p \in classGot
      BY <3>1 DEF ObjcInv, ClassInv
    <3>2. CASE p \notin classGot
      <4>1. LookUpClass(name) # NoClass /\ p = <<name, LookUpClass(name)>>
        BY <1>1, <2>2, <3>2, Zenon
      <4>2. p[1] = name /\ p[2] = LookUpClass(name)
        BY <4>1, Zenon
      <4> QED BY <4>1, <4>2, Zenon
    <3> QED BY <3>1, <3>2
  <2> QED BY <1>2, <2>1, <2>2, Zenon DEF ClassInv
<1>4. SelectorInv' /\ CacheInv' /\ MessageInv'
  BY <1>1, SelectorKept, CacheKept, MessageKept DEF ObjcInv
<1> QED BY <1>1, <1>3, <1>4, Zenon DEF ObjcInv

\* What the guest keeps by address stays the same, and a message runs the code
\* that class_getInstanceMethod gives: whatever the classes and however many
\* threads register, look up and send.
THEOREM RuntimeHasOneIdentity == ObjcSpec => []OneIdentity
<1>1. ObjcInit => ObjcInv
  <2> SUFFICES ASSUME ObjcInit PROVE ObjcInv
    OBVIOUS
  <2>1. /\ names = <<>> /\ cached = <<>> /\ observed = <<>> /\ selGot = {} /\ methodGot = {}
        /\ classGot = {} /\ looked = NoAnswer /\ sent = NoAnswer
        /\ doing = [t \in Senders |-> Outside]
    BY DEF ObjcInit
  <2>2. IsSeq(<<>>)
    <3>1. <<>> \in Seq({})
      OBVIOUS
    <3> QED BY <3>1, Zenon DEF IsSeq
  <2>3. NodesAreKeys(<<>>, {})
    BY <2>2 DEF NodesAreKeys
  <2>4. ASSUME NEW t \in Senders PROVE doing[t].pc = "guest"
    BY <2>1 DEF Outside
  <2>5. doing = [t \in Senders |-> doing[t]]
    BY <2>1, Zenon
  <2>6. SelectorInv
    BY <2>1, <2>3, <2>4 DEF SelectorInv, Alone
  <2>7. CacheInv
    BY <2>1, <2>3, <2>4 DEF CacheInv, Alone
  <2>8. ClassInv
    BY <2>1, <2>2 DEF ClassInv
  <2>9. MessageInv
    BY <2>1, Zenon DEF MessageInv
  <2> QED BY <2>5, <2>6, <2>7, <2>8, <2>9, Zenon DEF ObjcInv
<1>2. ObjcInv /\ [ObjcNext]_objcVars => ObjcInv'
  <2> SUFFICES ASSUME ObjcInv, [ObjcNext]_objcVars PROVE ObjcInv'
    OBVIOUS
  <2>1. CASE ObjcNext
    <3>1. PICK t \in Senders :
            \/ \E s \in Selectors :
                 \/ Register(t, s)
                 \/ \E c \in Classes : \/ GetInstanceMethod(t, c, s) \/ MsgSend(t, c, s)
                                       \/ \E d \in Classes : MsgSendSuper2(t, c, d, s)
            \/ RegisterInsert(t) \/ CacheDecodedMethod(t)
            \/ \E c \in Classes : \/ RememberClass(t, c)
                                  \/ \E required \in BOOLEAN : GetClass(t, Class[c].name, required)
      BY <2>1, Zenon DEF ObjcNext
    <3> QED BY <3>1, RegisterKeeps, GetInstanceMethodKeeps, SendsKeep, RegisterInsertKeeps,
               CacheDecodedKeeps, RememberClassKeeps, GetClassKeeps, Zenon
  <2>2. CASE UNCHANGED objcVars
    <3>1. UNCHANGED <<names, cached, observed, doing, selGot, methodGot, looked, sent, classGot>>
      BY <2>2, Zenon DEF objcVars
    <3>2. SelectorInv' /\ CacheInv' /\ ClassInv' /\ MessageInv'
      BY <3>1, SelectorKept, CacheKept, ClassKept, MessageKept DEF ObjcInv
    <3> QED BY <3>1, <3>2, Zenon DEF ObjcInv
  <2> QED BY <2>1, <2>2
<1>3. ObjcInv => OneIdentity
  <2> SUFFICES ASSUME ObjcInv PROVE OneIdentity
    OBVIOUS
  <2>1. IsFunctional(selGot) /\ IsFunctional(methodGot)
    BY NodesFunctional DEF ObjcInv, SelectorInv, CacheInv
  <2>2. IsFunctional(classGot)
    BY DEF ObjcInv, ClassInv, IsFunctional
  <2>3. ASSUME sent.cls = looked.cls, sent.sel = looked.sel, looked.imp # NoCode
        PROVE  sent.imp = looked.imp
    <3>0. NoAnswer.imp = NoCode /\ NoAnswer.cls = NoClass
      BY Zenon DEF NoAnswer
    <3>1. looked # NoAnswer
      BY <2>3, <3>0, Zenon
    <3>2. /\ looked.cls \in Classes /\ looked.sel \in Selectors
          /\ ToSet(Lineage[looked.cls]) \cap HaveMethod[looked.sel] # {}
          /\ looked.imp = ImpOf(Nearest(Lineage[looked.cls], HaveMethod[looked.sel]), looked.sel)
      BY <3>1, Zenon DEF ObjcInv, MessageInv
    <3>3. sent # NoAnswer
      BY <2>3, <3>0, <3>2, ObjcAssumption, Zenon
    <3>4. sent.imp = LookupOn(Lineage[looked.cls] \o <<NSObject, NSObjectMeta>>, looked.sel)
      BY <2>3, <3>3, Zenon DEF ObjcInv, MessageInv
    <3> QED BY <2>3, <3>2, <3>4, SameCode, Zenon
  <2> QED BY <2>1, <2>2, <2>3, Zenon DEF OneIdentity
<1> QED BY <1>1, <1>2, <1>3, PTL DEF ObjcSpec

-----------------------------------------------------------------------------
(* The tracer: its lock is a leaf, and no frame stays without a name.      *)

\* The tables, an event and what a caller is doing are records, whatever is in
\* their fields; no frame in the tables is without its name.
Table(on, ips, unnamed, tags, ptrs, regions) ==
    [on |-> on, ips |-> ips, unnamed |-> unnamed, tags |-> tags, ptrs |-> ptrs, regions |-> regions]
Tables(s) == \E on, ips, tags, ptrs, regions : s = Table(on, ips, {}, tags, ptrs, regions)
Event(e) ==
    /\ DOMAIN e = {"late", "out", "in", "stack", "cut", "map"}
    /\ e.stack \in Seq(Range(e.stack))
Hook(h) == DOMAIN h = {"at", "ev", "needs", "after", "dl"} /\ Event(h.ev)

\* Before its event is recorded, a caller has a name for each of its frames
\* that the tables do not have: the tables only grow in the meantime.
Interns(e) == ~(e.in = {} /\ e.map = {})
Named(h, s) ==
    h.at = "resolve" \/ (h.at = "record" /\ Interns(h.ev)) => Range(h.ev.stack) \subseteq h.needs \cup s.ips

HeapInv ==
    /\ world \in Worlds /\ glock = Nobody /\ Tables(tr)
    /\ DOMAIN hook = Callers
    /\ \A t \in Callers : Hook(hook[t]) /\ Named(hook[t], tr)

\* More frames, and no other difference that counts here.
Grown(s, s2) == Tables(s2) /\ s.ips \subseteq s2.ips

LEMMA GrownTwice ==
    ASSUME NEW s, NEW s2, NEW s3, Grown(s, s2), Grown(s2, s3)
    PROVE  Grown(s, s3)
BY Zenon DEF Grown

\* Outside the frames, the tables may change as they like.
SameFrames(s, s2) == Tables(s2) /\ s2.ips = s.ips

\* Outside the frames, nothing changes.
SameRest(s, s2) == s2.on = s.on /\ s2.tags = s.tags /\ s2.ptrs = s.ptrs /\ s2.regions = s.regions

LEMMA OtherFields ==
    ASSUME NEW s, NEW x, Tables(s)
    PROVE  /\ SameFrames(s, [s EXCEPT !.on = x]) /\ SameFrames(s, [s EXCEPT !.tags = x])
           /\ SameFrames(s, [s EXCEPT !.ptrs = x]) /\ SameFrames(s, [s EXCEPT !.regions = x])
<1>1. PICK on, ips, tags, ptrs, regions : s = Table(on, ips, {}, tags, ptrs, regions)
  BY Zenon DEF Tables
<1>2. ASSUME NEW o, NEW t, NEW p, NEW r, NEW s2, s2 = Table(o, ips, {}, t, p, r) PROVE SameFrames(s, s2)
  <2>1. s2.ips = ips /\ s.ips = ips
    BY <1>1, <1>2, Zenon DEF Table
  <2>2. Tables(s2)
    BY <1>2, Zenon DEF Tables
  <2> QED BY <2>1, <2>2, Zenon DEF SameFrames
<1>3. ASSUME NEW s2, s2 = [s EXCEPT !.on = x] PROVE SameFrames(s, s2)
  <2>1. s2 = Table(x, ips, {}, tags, ptrs, regions)
    BY <1>1, <1>3 DEF Table
  <2> QED BY <2>1, <1>2, Zenon
<1>4. ASSUME NEW s2, s2 = [s EXCEPT !.tags = x] PROVE SameFrames(s, s2)
  <2>1. s2 = Table(on, ips, {}, x, ptrs, regions)
    BY <1>1, <1>4 DEF Table
  <2> QED BY <2>1, <1>2, Zenon
<1>5. ASSUME NEW s2, s2 = [s EXCEPT !.ptrs = x] PROVE SameFrames(s, s2)
  <2>1. s2 = Table(on, ips, {}, tags, x, regions)
    BY <1>1, <1>5 DEF Table
  <2> QED BY <2>1, <1>2, Zenon
<1>6. ASSUME NEW s2, s2 = [s EXCEPT !.regions = x] PROVE SameFrames(s, s2)
  <2>1. s2 = Table(on, ips, {}, tags, ptrs, x)
    BY <1>1, <1>6 DEF Table
  <2> QED BY <2>1, <1>2, Zenon
<1> QED BY <1>3, <1>4, <1>5, <1>6, Zenon

LEMMA InternedIp ==
    ASSUME NEW ip, NEW hints, NEW on, NEW ips, NEW tags, NEW ptrs, NEW regions, ip \in hints \cup ips
    PROVE  InternIp(Table(on, ips, {}, tags, ptrs, regions), ip, hints) =
               Table(on, ips \cup {ip}, {}, tags, ptrs, regions)
<1> DEFINE s == Table(on, ips, {}, tags, ptrs, regions)
<1>0. s = Table(on, ips, {}, tags, ptrs, regions)
  BY Zenon
<1> HIDE DEF s
<1>1. s.ips = ips /\ s.unnamed = {}
  BY <1>0, Zenon DEF Table
<1>2. CASE ip \in s.ips
  <2>1. InternIp(s, ip, hints) = s
    BY <1>2, Zenon DEF InternIp
  <2>2. ips = ips \cup {ip}
    BY <1>1, <1>2
  <2> QED BY <1>0, <2>1, <2>2, Zenon
<1>3. CASE ip \notin s.ips
  <2>1. ip \in hints
    BY <1>1, <1>3
  <2>2. PICK z : z = [s EXCEPT !.ips = s.ips \cup {ip}]
    BY Zenon
  <2>3. z = Table(on, ips \cup {ip}, {}, tags, ptrs, regions)
    BY <1>0, <1>1, <2>2 DEF Table
  <2>4. [z EXCEPT !.unnamed = s.unnamed] = Table(on, ips \cup {ip}, {}, tags, ptrs, regions)
    BY <1>1, <2>3 DEF Table
  <2>5. InternIp(s, ip, hints) = [z EXCEPT !.unnamed = s.unnamed]
    BY <1>3, <2>1, <2>2, Zenon DEF InternIp
  <2> QED BY <1>0, <2>4, <2>5, Zenon
<1> QED BY <1>0, <1>2, <1>3, Zenon

Interned(d, s, frames, hints) ==
    [k \in 0..Len(frames) |-> IF k = 0 THEN s ELSE InternIp(d[k - 1], frames[k], hints)]

\* The frames of an event, one after the other: all of them are in the tables
\* afterwards, and none came in without its name.
LEMMA InternedStack ==
    ASSUME NEW s, NEW frames, NEW hints, Tables(s), frames \in Seq(Range(frames)),
           Range(frames) \subseteq hints \cup s.ips
    PROVE  Grown(s, InternStack(s, frames, hints)) /\ SameRest(s, InternStack(s, frames, hints))
<1> DEFINE l == Len(frames)
           Outer(n) == {frames[m] : m \in 1..n}
<1>1. l \in Nat /\ \A k \in 1..l : frames[k] \in Range(frames)
  BY LenProperties, ElementOfSeq
<1>0. PICK on, ips, tags, ptrs, regions : s = Table(on, ips, {}, tags, ptrs, regions)
  BY Zenon DEF Tables
<1> DEFINE R(n) == Table(on, ips \cup Outer(n), {}, tags, ptrs, regions)
           g == [k \in 0..l |-> R(k)]
<1>2. ASSUME NEW k \in 1..l PROVE InternIp(R(k - 1), frames[k], hints) = R(k)
  <2>1. s.ips = ips
    BY <1>0, Zenon DEF Table
  <2>2. frames[k] \in hints \cup (ips \cup Outer(k - 1))
    BY <1>1, <2>1, Zenon
  <2>3. (ips \cup Outer(k - 1)) \cup {frames[k]} = ips \cup Outer(k)
    <3>1. 1..k = 1..(k - 1) \cup {k}
      BY <1>1
    <3>2. Outer(k) = Outer(k - 1) \cup {frames[k]}
      BY <3>1, Zenon
    <3> HIDE DEF Outer
    <3> QED BY <3>2
  <2> HIDE DEF Outer
  <2>4. PICK known, ip : known = ips \cup Outer(k - 1) /\ ip = frames[k]
    BY Zenon
  <2>5. ip \in hints \cup known /\ known \cup {ip} = ips \cup Outer(k)
    BY <2>2, <2>3, <2>4, Zenon
  <2>6. InternIp(Table(on, known, {}, tags, ptrs, regions), ip, hints) =
            Table(on, known \cup {ip}, {}, tags, ptrs, regions)
    BY <2>5, InternedIp
  <2> QED BY <2>4, <2>5, <2>6, Zenon
<1>3. s = R(0)
  <2>1. ips = ips \cup Outer(0)
    OBVIOUS
  <2> HIDE DEF Outer
  <2> QED BY <1>0, <2>1, Zenon
<1>4. g = Interned(g, s, frames, hints)
  <2>1. ASSUME NEW k \in 0..l PROVE g[k] = IF k = 0 THEN s ELSE InternIp(g[k - 1], frames[k], hints)
    <3>1. g[k] = R(k)
      BY Zenon
    <3>2. CASE k = 0
      BY <3>1, <3>2, <1>3, Zenon
    <3>3. CASE k # 0
      <4>1. k \in 1..l /\ k - 1 \in 0..l
        BY <3>3, <1>1
      <4>2. g[k - 1] = R(k - 1)
        BY <4>1, Zenon
      <4> HIDE DEF g, R
      <4> QED BY <3>1, <3>3, <4>1, <4>2, <1>2, Zenon
    <3> QED BY <3>2, <3>3, Zenon
  <2>2. g = [k \in 0..l |-> g[k]]
    BY Zenon
  <2> HIDE DEF g
  <2> QED BY <2>1, <2>2, Zenon DEF Interned
<1>5. InternStack(s, frames, hints) = (CHOOSE d : d = Interned(d, s, frames, hints))[l]
  BY Zenon DEF InternStack, Interned
<1> DEFINE d == CHOOSE h : h = Interned(h, s, frames, hints)
<1>6. d = Interned(d, s, frames, hints)
  <2> HIDE DEF g
  <2> QED BY <1>4, Zenon
<1> HIDE DEF d
<1>7. d[0] = s /\ \A k \in 1..l : d[k] = InternIp(d[k - 1], frames[k], hints)
  <2>1. 0 \in 0..l /\ \A k \in 1..l : k \in 0..l /\ k # 0
    BY <1>1
  <2>2. \A k \in 0..l : d[k] = IF k = 0 THEN s ELSE InternIp(d[k - 1], frames[k], hints)
    BY <1>6, Zenon DEF Interned
  <2> QED BY <2>1, <2>2, Zenon
<1> DEFINE T == {k \in Nat : k \in 0..l => d[k] = R(k)}
<1>8. 0 \in T
  BY <1>3, <1>7
<1>9. ASSUME NEW k \in T PROVE k + 1 \in T
  <2>1. CASE k + 1 \in 0..l
    <3>1. k \in Nat /\ k \in 0..l /\ k + 1 \in 1..l /\ (k + 1) - 1 = k
      BY <1>1, <2>1
    <3>2. d[k] = R(k)
      <4> HIDE DEF R
      <4> QED BY <3>1
    <3>3. d[k + 1] = InternIp(d[k], frames[k + 1], hints)
      BY <3>1, <1>7
    <3>4. InternIp(R(k), frames[k + 1], hints) = R(k + 1)
      BY <3>1, <1>2, Zenon
    <3> HIDE DEF R
    <3> QED BY <3>1, <3>2, <3>3, <3>4
  <2>2. CASE k + 1 \notin 0..l
    BY <2>2
  <2> QED BY <2>1, <2>2
<1>10. T = Nat
  <2> HIDE DEF T
  <2>1. T \in SUBSET Nat
    BY DEF T
  <2> QED BY <2>1, <1>8, <1>9, AllNumbers
<1>11. d[l] = R(l)
  <2>1. l \in T /\ l \in 0..l
    <3> HIDE DEF T
    <3> QED BY <1>10, <1>1
  <2> HIDE DEF R
  <2> QED BY <2>1, Zenon
<1>12. Tables(R(l)) /\ R(l).ips = ips \cup Outer(l) /\ s.ips = ips
  BY <1>0, Zenon DEF Tables, Table
<1>14. SameRest(s, R(l))
  <2> HIDE DEF Outer
  <2> QED BY <1>0 DEF SameRest, Table
<1>13. InternStack(s, frames, hints) = R(l)
  <2> HIDE DEF R
  <2> QED BY <1>5, <1>11, Zenon DEF d
<1> HIDE DEF R, Outer
<1> QED BY <1>12, <1>13, <1>14, Zenon DEF Grown

\* Recording an event: the tables keep what they have, and learn no frame
\* that is not named.
LEMMA RecordedGrown ==
    ASSUME NEW s, NEW e, NEW hints, Tables(s), Event(e),
           Interns(e) => Range(e.stack) \subseteq hints \cup s.ips
    PROVE  Grown(s, Recorded(s, e, hints))
<1> DEFINE s0 == DoFree(s, e.out)
           s1 == DoMunmap(s0, e.cut)
           s2 == IF e.in = {} THEN s1 ELSE DoAlloc(s1, e, hints)
<1>1. SameFrames(s, s0)
  BY OtherFields, Zenon DEF DoFree
<1>2. SameFrames(s0, s1)
  <2>1. Tables(s0)
    BY <1>1, Zenon DEF SameFrames
  <2> HIDE DEF s0
  <2>2. CASE e.cut = {}
    BY <2>1, <2>2, Zenon DEF DoMunmap, SameFrames
  <2>3. CASE e.cut # {}
    BY <2>1, <2>3, OtherFields, Zenon DEF DoMunmap
  <2> QED BY <2>2, <2>3, Zenon
<1>3. Tables(s1) /\ s1.ips = s.ips
  BY <1>1, <1>2, Zenon DEF SameFrames
<1> HIDE DEF s0, s1
<1>4. Grown(s1, s2)
  <2>1. CASE e.in = {}
    BY <1>3, <2>1, Zenon DEF Grown
  <2>2. CASE e.in # {}
    <3>1. Grown(s1, InternStack(s1, e.stack, hints))
      BY <1>3, <2>2, InternedStack, Zenon DEF Event, Interns
    <3>2. PICK z : z = InternStack(s1, e.stack, hints)
      BY Zenon
    <3>3. SameFrames(z, DoAlloc(s1, e, hints))
      BY <3>1, <3>2, OtherFields, Zenon DEF DoAlloc, Grown
    <3> QED BY <2>2, <3>1, <3>2, <3>3, Zenon DEF Grown, SameFrames
  <2> QED BY <2>1, <2>2, Zenon
<1> HIDE DEF s2
<1>5. Recorded(s, e, hints) = IF e.map = {} THEN s2 ELSE DoMmap(s2, e, hints)
  BY Zenon DEF Recorded, s2, s1, s0
<1>6. Grown(s, s2)
  BY <1>3, <1>4, Zenon DEF Grown
<1>7. CASE e.map = {}
  BY <1>5, <1>6, <1>7, Zenon
<1>8. CASE e.map # {}
  <2> DEFINE z == InternStack(s2, e.stack, hints)
             m == CHOOSE x \in e.map : TRUE
             y == InternTag(z, m.tag)
  <2>1. Grown(s2, z)
    BY <1>6, <1>8, InternedStack, Zenon DEF Event, Interns, Grown
  <2> HIDE DEF z
  <2>2. SameFrames(z, y)
    <3>1. Tables(z)
      BY <2>1, Zenon DEF Grown
    <3> HIDE DEF m
    <3>2. CASE m.tag \in Range(z.tags)
      BY <3>1, <3>2, Zenon DEF InternTag, SameFrames
    <3>3. CASE m.tag \notin Range(z.tags)
      BY <3>1, <3>3, OtherFields, Zenon DEF InternTag
    <3> QED BY <3>2, <3>3, Zenon
  <2> HIDE DEF y
  <2>3. SameFrames(y, DoMmap(s2, e, hints))
    <3>1. Tables(y)
      BY <2>2, Zenon DEF SameFrames
    <3> QED BY <3>1, OtherFields, Zenon DEF DoMmap, y, z, m
  <2> QED BY <1>5, <1>6, <1>8, <2>1, <2>2, <2>3, Zenon DEF Grown, SameFrames
<1> QED BY <1>7, <1>8, Zenon

-----------------------------------------------------------------------------
LEMMA NoEventIs == Event(NoEvent) /\ NoEvent.in = {} /\ NoEvent.map = {} /\ Hook(Resting) /\ Resting.at = "guest"
<1>1. NoEvent.stack = <<>> /\ <<>> \in Seq(Range(<<>>))
  BY EmptySeq DEF NoEvent
<1>2. DOMAIN NoEvent = {"late", "out", "in", "stack", "cut", "map"} /\ NoEvent.in = {} /\ NoEvent.map = {}
  BY DEF NoEvent
<1>3. DOMAIN Resting = {"at", "ev", "needs", "after", "dl"} /\ Resting.ev = NoEvent /\ Resting.at = "guest"
  BY DEF Resting
<1> QED BY <1>1, <1>2, <1>3, Zenon DEF Event, Hook

\* A caller does its next thing.
LEMMA HookMoves ==
    ASSUME HeapInv, NEW t \in Callers, NEW h, HookIs(t, h), Hook(h), Named(h, tr'),
           Grown(tr, tr'), world' = world, glock' = Nobody
    PROVE  HeapInv'
<1>1. DOMAIN hook' = Callers /\ \A u \in Callers : hook'[u] = IF u = t THEN h ELSE hook[u]
  BY DEF HeapInv, HookIs
<1>2. ASSUME NEW u \in Callers PROVE Hook(hook'[u]) /\ Named(hook'[u], tr')
  <2>1. CASE u = t
    BY <1>1, <2>1, Zenon
  <2>2. CASE u # t
    <3>1. hook'[u] = hook[u] /\ Hook(hook[u]) /\ Named(hook[u], tr)
      BY <1>1, <2>2, Zenon DEF HeapInv
    <3>2. Named(hook[u], tr')
      BY <3>1, Zenon DEF Named, Grown
    <3> QED BY <3>1, <3>2, Zenon
  <2> QED BY <2>1, <2>2, Zenon
<1> QED BY <1>1, <1>2, Zenon DEF HeapInv, Grown

\* Its event is on the way.
LEMMA HookFed ==
    ASSUME HeapInv, NEW t \in Callers, NEW e, NEW after, Feed(t, e, after), Event(e),
           tr' = tr, world' = world, glock' = glock
    PROVE  HeapInv'
<1> DEFINE at == IF e.in = {} /\ e.map = {} THEN "record" ELSE "presolve"
           h == [hook[t] EXCEPT !.at = at, !.ev = e, !.after = after]
<1>1. Hook(hook[t])
  BY Zenon DEF HeapInv
<1>2. HookIs(t, h)
  BY Zenon DEF Feed
<1>3. DOMAIN h = {"at", "ev", "needs", "after", "dl"} /\ h.ev = e /\ h.at = at
  <2> HIDE DEF at
  <2> QED BY <1>1 DEF Hook
<1> HIDE DEF h
<1>4. h.at # "resolve" /\ (h.at = "record" => ~Interns(h.ev))
  BY <1>3 DEF Interns
<1>5. Hook(h) /\ Named(h, tr')
  BY <1>3, <1>4, Zenon DEF Hook, Named
<1>6. Grown(tr, tr')
  BY Zenon DEF HeapInv, Grown
<1> QED BY <1>2, <1>5, <1>6, HookMoves, Zenon DEF HeapInv

\* Nobody's call goes on.
LEMMA HooksStay ==
    ASSUME HeapInv, hook' = hook, Grown(tr, tr'), world' = world, glock' = glock
    PROVE  HeapInv'
<1>1. ASSUME NEW u \in Callers PROVE Hook(hook[u]) /\ Named(hook[u], tr')
  BY Zenon DEF HeapInv, Named, Grown
<1> QED BY <1>1, Zenon DEF HeapInv, Grown

\* The events that the callers feed.
LEMMA EventsFed ==
    ASSUME NEW x, NEW y
    PROVE  /\ Event([NoEvent EXCEPT !.out = x]) /\ Event([NoEvent EXCEPT !.out = x, !.late = y])
           /\ Event([NoEvent EXCEPT !.cut = x, !.late = y])
           /\ \A z : z \in Seq(Range(z)) =>
                 /\ Event([NoEvent EXCEPT !.cut = x, !.stack = z, !.map = y])
                 /\ \A b, size : Event(New(b, size, z)) /\ Event([New(b, size, z) EXCEPT !.out = x, !.late = y])
<1> DEFINE fields == {"late", "out", "in", "stack", "cut", "map"}
<1>1. DOMAIN NoEvent = fields /\ NoEvent.stack \in Seq(Range(NoEvent.stack))
  BY NoEventIs, Zenon DEF Event
<1>2. ASSUME NEW e, DOMAIN e = fields, e.stack \in Seq(Range(e.stack)) PROVE Event(e)
  BY <1>2, Zenon DEF Event
<1>3. Event([NoEvent EXCEPT !.out = x])
  <2> PICK e : e = [NoEvent EXCEPT !.out = x]
    BY Zenon
  <2>1. DOMAIN e = fields /\ e.stack = NoEvent.stack
    BY <1>1
  <2> QED BY <2>1, <1>1, <1>2, Zenon
<1>4. Event([NoEvent EXCEPT !.out = x, !.late = y])
  <2> PICK e : e = [NoEvent EXCEPT !.out = x, !.late = y]
    BY Zenon
  <2>1. DOMAIN e = fields /\ e.stack = NoEvent.stack
    BY <1>1
  <2> QED BY <2>1, <1>1, <1>2, Zenon
<1>5. Event([NoEvent EXCEPT !.cut = x, !.late = y])
  <2> PICK e : e = [NoEvent EXCEPT !.cut = x, !.late = y]
    BY Zenon
  <2>1. DOMAIN e = fields /\ e.stack = NoEvent.stack
    BY <1>1
  <2> QED BY <2>1, <1>1, <1>2, Zenon
<1>6. ASSUME NEW z, z \in Seq(Range(z)) PROVE Event([NoEvent EXCEPT !.cut = x, !.stack = z, !.map = y])
  <2> PICK e : e = [NoEvent EXCEPT !.cut = x, !.stack = z, !.map = y]
    BY Zenon
  <2>1. DOMAIN e = fields /\ e.stack = z
    BY <1>1
  <2> QED BY <2>1, <1>2, <1>6, Zenon
<1>7. ASSUME NEW z, z \in Seq(Range(z)), NEW b, NEW size
      PROVE  Event(New(b, size, z)) /\ Event([New(b, size, z) EXCEPT !.out = x, !.late = y])
  <2>1. PICK e : e = New(b, size, z)
    BY Zenon
  <2>2. DOMAIN e = fields /\ e.stack = z
    BY <1>1, <2>1 DEF New
  <2>3. PICK f : f = [e EXCEPT !.out = x, !.late = y]
    BY Zenon
  <2>4. DOMAIN f = fields /\ f.stack = z
    BY <2>2, <2>3
  <2>5. Event(e)
    BY <1>7, <2>2, <1>2, Zenon
  <2>6. Event(f)
    BY <1>7, <2>4, <1>2, Zenon
  <2> QED BY <2>1, <2>3, <2>5, <2>6, Zenon
<1> QED BY <1>3, <1>4, <1>5, <1>6, <1>7, Zenon

\* Every hook looks its names up with the lock free and records with them.
LEMMA TracerKeepsInv ==
    ASSUME HeapInv, NEW t \in Callers, Presolve(t) \/ ResolveNames(t) \/ RecordEvent(t) \/ Close
    PROVE  HeapInv'
<1> DEFINE was == hook[t]
<1>1. Hook(was) /\ Named(was, tr) /\ Tables(tr) /\ glock = Nobody
  BY Zenon DEF HeapInv
<1>2. DOMAIN was = {"at", "ev", "needs", "after", "dl"} /\ Event(was.ev)
  BY <1>1, Zenon DEF Hook
<1>3. Grown(tr, tr)
  BY <1>1, Zenon DEF Grown
<1>4. CASE Presolve(t)
  <2>1. PICK new : new = Range(was.ev.stack) \ tr.ips
    BY Zenon
  <2>2. PICK h : h = [was EXCEPT !.at = "resolve", !.needs = new]
    BY Zenon
  <2>3. HookIs(t, h) /\ tr' = tr /\ world' = world /\ glock' = glock
    BY <1>4, <2>1, <2>2, Zenon DEF Presolve
  <2>4. DOMAIN h = {"at", "ev", "needs", "after", "dl"} /\ h.ev = was.ev /\ h.needs = new
    BY <1>2, <2>2
  <2>5. Hook(h)
    BY <2>4, <1>2, Zenon DEF Hook
  <2>6. Range(h.ev.stack) \subseteq h.needs \cup tr.ips
    BY <2>1, <2>4, Zenon
  <2>7. Named(h, tr')
    BY <2>3, <2>6, Zenon DEF Named
  <2> QED BY <1>1, <1>3, <2>3, <2>5, <2>7, HookMoves, Zenon
<1>5. CASE ResolveNames(t)
  <2>1. PICK h : h = [was EXCEPT !.at = "record"]
    BY Zenon
  <2>2. HookIs(t, h) /\ tr' = tr /\ world' = world /\ glock' = glock /\ was.at = "resolve"
    BY <1>5, <2>1, Zenon DEF ResolveNames, HookAt
  <2>3. DOMAIN h = {"at", "ev", "needs", "after", "dl"} /\ h.ev = was.ev /\ h.needs = was.needs
    BY <1>2, <2>1
  <2>4. Hook(h)
    BY <2>3, <1>2, Zenon DEF Hook
  <2>5. Named(h, tr')
    BY <1>1, <2>2, <2>3, Zenon DEF Named
  <2> QED BY <1>1, <1>3, <2>2, <2>4, <2>5, HookMoves, Zenon
<1>6. CASE RecordEvent(t)
  <2>1. Grown(tr, tr')
    <3>1. was.at = "record" /\ tr' = Recorded(tr, was.ev, was.needs)
      BY <1>6, Zenon DEF RecordEvent, HookAt
    <3>2. Interns(was.ev) => Range(was.ev.stack) \subseteq was.needs \cup tr.ips
      BY <1>1, <3>1, Zenon DEF Named
    <3> QED BY <1>1, <1>2, <3>1, <3>2, RecordedGrown, Zenon
  <2>2. PICK at : at = IF was.after = {} THEN "guest" ELSE "after"
    BY Zenon
  <2>3. PICK h : h = [Resting EXCEPT !.at = at, !.after = was.after, !.dl = was.dl]
    BY Zenon
  <2>4. HookIs(t, h) /\ world' = world /\ glock' = Nobody
    BY <1>6, <2>2, <2>3, Zenon DEF RecordEvent
  <2>5. DOMAIN h = {"at", "ev", "needs", "after", "dl"} /\ h.ev = Resting.ev /\ h.at = at
    BY <2>3, NoEventIs DEF Hook
  <2>6. Hook(h)
    BY <2>5, NoEventIs, Zenon DEF Hook
  <2>7. h.at # "resolve" /\ h.at # "record"
    BY <2>2, <2>5
  <2>8. Named(h, tr')
    BY <2>7, Zenon DEF Named
  <2> QED BY <2>1, <2>4, <2>6, <2>8, HookMoves, Zenon
<1>7. CASE Close
  <2>1. tr' = [tr EXCEPT !.on = FALSE] /\ hook' = hook /\ world' = world /\ glock' = glock
    BY <1>7, Zenon DEF Close
  <2>2. SameFrames(tr, tr')
    BY <2>1, <1>1, OtherFields, Zenon
  <2>3. Grown(tr, tr')
    BY <2>2, Zenon DEF SameFrames, Grown
  <2> QED BY <2>1, <2>3, HooksStay, Zenon
<1> QED BY <1>4, <1>5, <1>6, <1>7, Zenon

\* A call of an allocator leaves the tracer alone but for the event it feeds.
TracerRests == tr' = tr /\ world' = world /\ glock' = glock

LEMMA RestingStays ==
    ASSUME HeapInv, TracerRests, hook' = hook
    PROVE  HeapInv'
BY HooksStay, Zenon DEF TracerRests, HeapInv, Grown

LEMMA RestingFeeds ==
    ASSUME HeapInv, TracerRests, NEW t \in Callers, NEW e, NEW after, Event(e), Feed(t, e, after)
    PROVE  HeapInv'
BY HookFed, Zenon DEF TracerRests

LEMMA RoutedKeepsInv ==
    ASSUME HeapInv, NEW t \in Callers, NEW b, FreeRouted(t, b)
    PROVE  HeapInv'
<1>1. PICK e : e = [NoEvent EXCEPT !.out = {b}, !.late = {b}]
  BY Zenon
<1>2. Feed(t, e, {}) /\ TracerRests
  BY <1>1, Zenon DEF FreeRouted, TracerRests
<1>3. Event(e)
  BY <1>1, EventsFed, Zenon
<1> QED BY <1>2, <1>3, RestingFeeds, Zenon

LEMMA UnmapsKeepsInv ==
    ASSUME HeapInv, NEW t \in Callers, NEW r, Unmaps(t, r)
    PROVE  HeapInv'
<1>1. PICK e : e = [NoEvent EXCEPT !.cut = r, !.late = r]
  BY Zenon
<1>2. Feed(t, e, {}) /\ TracerRests
  BY <1>1, Zenon DEF Unmaps, TracerRests
<1>3. Event(e)
  BY <1>1, EventsFed, Zenon
<1> QED BY <1>2, <1>3, RestingFeeds, Zenon

LEMMA CallsKeepInv ==
    ASSUME HeapInv, NEW t \in Callers,
           \/ After(t) \/ HResolve(t) \/ DlLeave(t)
           \/ \E how \in {"open", "sym"} : DlEnter(t, how)
           \/ \E b \in HeapBlocks : FreeBlock(t, b)
           \/ \E b \in Blocks, to \in HeapBlocks : ReallocUnfed(t, b, to)
           \/ \E b \in ArenaBlocks : GuestFreesRouted(t, b)
           \/ \E r \in Ranges : Munmap(t, r) \/ RegistryAdd(t, r) \/ FreeMapping(t, r)
    PROVE  HeapInv'
<1> DEFINE was == hook[t]
<1>1. DOMAIN was = {"at", "ev", "needs", "after", "dl"} /\ Event(was.ev)
  BY Zenon DEF HeapInv, Hook
<1>2. ASSUME NEW h, HookIs(t, h), DOMAIN h = {"at", "ev", "needs", "after", "dl"},
             h.ev = was.ev, h.at = "guest", TracerRests
      PROVE  HeapInv'
  <2>1. Hook(h)
    BY <1>1, <1>2, Zenon DEF Hook
  <2>2. h.at # "resolve" /\ h.at # "record"
    BY <1>2
  <2>3. Named(h, tr')
    BY <2>2, Zenon DEF Named
  <2>4. Grown(tr, tr') /\ glock' = Nobody /\ world' = world
    BY <1>2, Zenon DEF TracerRests, HeapInv, Grown
  <2> QED BY <1>2, <2>1, <2>3, <2>4, HookMoves, Zenon
<1>3. CASE After(t)
  <2>1. PICK b : b = CHOOSE x \in was.after : TRUE
    BY Zenon
  <2>2. CASE FreeRouted(t, b)
    BY <2>2, RoutedKeepsInv, Zenon
  <2>3. CASE ~FreeRouted(t, b)
    <3>1. PICK h : h = [was EXCEPT !.at = "guest", !.after = {}]
      BY Zenon
    <3>2. HookIs(t, h) /\ TracerRests
      BY <1>3, <2>1, <2>3, <3>1, Zenon DEF After, TracerRests
    <3>3. DOMAIN h = {"at", "ev", "needs", "after", "dl"} /\ h.ev = was.ev /\ h.at = "guest"
      BY <1>1, <3>1
    <3> QED BY <3>2, <3>3, <1>2, Zenon
  <2> QED BY <2>2, <2>3, Zenon
<1>4. CASE HResolve(t)
  <2>1. TracerRests /\ hook' = hook
    BY <1>4, Zenon DEF HResolve, TracerRests
  <2> QED BY <2>1, RestingStays, Zenon
<1>5. ASSUME NEW how, HookIs(t, [was EXCEPT !.dl = how]), HookAt(t, "guest"), TracerRests PROVE HeapInv'
  <2>1. PICK h : h = [was EXCEPT !.dl = how]
    BY Zenon
  <2>2. DOMAIN h = {"at", "ev", "needs", "after", "dl"} /\ h.ev = was.ev /\ h.at = was.at
    BY <1>1, <2>1
  <2>3. h.at = "guest"
    BY <2>2, <1>5, Zenon DEF HookAt
  <2> QED BY <1>5, <2>1, <2>2, <2>3, <1>2, Zenon
<1>6. CASE DlLeave(t)
  <2>1. HookIs(t, [was EXCEPT !.dl = "none"]) /\ HookAt(t, "guest") /\ TracerRests
    BY <1>6, Zenon DEF DlLeave, TracerRests
  <2> QED BY <2>1, <1>5, Zenon
<1>7. CASE \E how \in {"open", "sym"} : DlEnter(t, how)
  <2>1. PICK how \in {"open", "sym"} : DlEnter(t, how)
    BY <1>7, Zenon
  <2>2. HookIs(t, [was EXCEPT !.dl = how]) /\ HookAt(t, "guest") /\ TracerRests
    BY <2>1, Zenon DEF DlEnter, TracerRests, Calls
  <2> QED BY <2>2, <1>5, Zenon
<1>8. CASE \E b \in HeapBlocks : FreeBlock(t, b)
  <2>1. PICK b \in HeapBlocks : FreeBlock(t, b)
    BY <1>8, Zenon
  <2>2. PICK e : e = [NoEvent EXCEPT !.out = {b}]
    BY Zenon
  <2>3. TracerRests /\ (hook' = hook \/ Feed(t, e, {b}))
    BY <2>1, <2>2, Zenon DEF FreeBlock, TracerRests
  <2>4. Event(e)
    BY <2>2, EventsFed, Zenon
  <2> QED BY <2>3, <2>4, RestingStays, RestingFeeds, Zenon
<1>9. CASE \E b \in ArenaBlocks : GuestFreesRouted(t, b)
  BY <1>9, RoutedKeepsInv, Zenon DEF GuestFreesRouted
<1>10. CASE \E r \in Ranges : Munmap(t, r) \/ RegistryAdd(t, r) \/ FreeMapping(t, r)
  <2>1. PICK r \in Ranges : Munmap(t, r) \/ RegistryAdd(t, r) \/ FreeMapping(t, r)
    BY <1>10, Zenon
  <2>2. Unmaps(t, r) \/ (TracerRests /\ hook' = hook)
    BY <2>1, Zenon DEF Munmap, RegistryAdd, FreeMapping, TracerRests
  <2> QED BY <2>2, UnmapsKeepsInv, RestingStays, Zenon
<1>11. CASE \E b \in Blocks, to \in HeapBlocks : ReallocUnfed(t, b, to)
  <2>1. TracerRests /\ hook' = hook
    BY <1>11, Zenon DEF ReallocUnfed, TracerRests
  <2> QED BY <2>1, RestingStays, Zenon
<1> QED BY <1>3, <1>4, <1>6, <1>7, <1>8, <1>9, <1>10, <1>11, Zenon

\* The calls that are recorded with their stack.
LEMMA StackedCallsKeepInv ==
    ASSUME HeapInv, NEW t \in Callers, NEW frames \in CallStacks[world],
           \/ \E b \in Blocks, size \in Sizes : Malloc(t, b, size, frames)
           \/ \E b \in Blocks, to \in HeapBlocks, size \in Sizes : Realloc(t, b, to, size, frames)
           \/ \E r \in Ranges, kind \in MapTags \cup {"file"}, replace \in BOOLEAN : Mmap(t, r, kind, replace, frames)
    PROVE  HeapInv'
<1>1. frames \in Seq(Range(frames))
  BY HeapAssumption, Zenon DEF HeapInv
<1>2. CASE \E b \in Blocks, size \in Sizes : Malloc(t, b, size, frames)
  <2>1. PICK b \in Blocks, size \in Sizes : Malloc(t, b, size, frames)
    BY <1>2, Zenon
  <2>2. TracerRests /\ (hook' = hook \/ Feed(t, New(b, size, frames), {}))
    BY <2>1, Zenon DEF Malloc, TracerRests
  <2>3. Event(New(b, size, frames))
    BY <1>1, EventsFed, Zenon
  <2> QED BY <2>2, <2>3, RestingStays, RestingFeeds, Zenon
<1>3. CASE \E b \in Blocks, to \in HeapBlocks, size \in Sizes : Realloc(t, b, to, size, frames)
  <2>1. PICK b \in Blocks, to \in HeapBlocks, size \in Sizes : Realloc(t, b, to, size, frames)
    BY <1>3, Zenon
  <2>2. PICK e, e1, e2 : /\ e = New(to, size, frames)
                         /\ e1 = [New(to, size, frames) EXCEPT !.out = {b}, !.late = {b}]
                         /\ e2 = [NoEvent EXCEPT !.out = {b}, !.late = {b}]
    BY Zenon
  <2>3. TracerRests
    BY <2>1, Zenon DEF Realloc, TracerRests
  <2>4. Feed(t, e1, {}) \/ Feed(t, e2, {}) \/ Feed(t, e, {b} \ BootBlocks)
    BY <2>1, <2>2, Zenon DEF Realloc
  <2>5. Event(e) /\ Event(e1) /\ Event(e2)
    BY <1>1, <2>2, EventsFed, Zenon
  <2> QED BY <2>3, <2>4, <2>5, RestingFeeds, Zenon
<1>4. CASE \E r \in Ranges, kind \in MapTags \cup {"file"}, replace \in BOOLEAN : Mmap(t, r, kind, replace, frames)
  <2>1. PICK r \in Ranges, kind \in MapTags \cup {"file"}, replace \in BOOLEAN : Mmap(t, r, kind, replace, frames)
    BY <1>4, Zenon
  <2>2. PICK cut, path, new :
            /\ cut = IF replace THEN r ELSE {}
            /\ path = IF kind = "file" THEN <<>> ELSE frames
            /\ new = IF kind = "file" THEN {} ELSE {[from |-> Lowest(r), to |-> Above(r), tag |-> kind]}
    BY Zenon
  <2>3. PICK e : e = [NoEvent EXCEPT !.cut = cut, !.stack = path, !.map = new]
    BY Zenon
  <2>4. TracerRests /\ (hook' = hook \/ Feed(t, e, {}))
    BY <2>1, <2>2, <2>3, Zenon DEF Mmap, TracerRests
  <2>5. path \in Seq(Range(path))
    BY <1>1, <2>2, EmptySeq
  <2>6. Event(e)
    BY <2>3, <2>5, EventsFed, Zenon
  <2> QED BY <2>4, <2>6, RestingStays, RestingFeeds, Zenon
<1> QED BY <1>2, <1>3, <1>4, Zenon

\* The tracer's invariant.
LEMMA TracerInvariance == HeapSpec => []HeapInv
<1>1. HeapInit => HeapInv
  <2> SUFFICES ASSUME HeapInit PROVE HeapInv
    OBVIOUS
  <2>1. Tables(tr)
    BY Zenon DEF HeapInit, Tables, Table
  <2>2. DOMAIN hook = Callers /\ \A t \in Callers : hook[t] = Resting
    BY DEF HeapInit
  <2>3. ASSUME NEW t \in Callers PROVE Hook(hook[t]) /\ Named(hook[t], tr)
    <3>1. Resting.at # "resolve" /\ Resting.at # "record"
      BY NoEventIs
    <3> QED BY <2>2, <3>1, NoEventIs, Zenon DEF Named
  <2> QED BY <2>1, <2>2, <2>3, Zenon DEF HeapInit, HeapInv
<1>2. HeapInv /\ [HeapNext]_heapVars => HeapInv'
  <2> SUFFICES ASSUME HeapInv, [HeapNext]_heapVars PROVE HeapInv'
    OBVIOUS
  <2>1. CASE UNCHANGED heapVars
    <3>1. TracerRests /\ hook' = hook
      BY <2>1, Zenon DEF heapVars, TracerRests
    <3> QED BY <3>1, RestingStays, Zenon
  <2>2. CASE Close
    <3>1. CASE Callers = {}
      <4>1. tr' = [tr EXCEPT !.on = FALSE] /\ hook' = hook /\ world' = world /\ glock' = glock
        BY <2>2, Zenon DEF Close
      <4>2. Grown(tr, tr')
        BY <4>1, OtherFields, Zenon DEF HeapInv, SameFrames, Grown
      <4> QED BY <4>1, <4>2, HooksStay, Zenon
    <3>2. CASE Callers # {}
      BY <2>2, <3>2, TracerKeepsInv, Zenon
    <3> QED BY <3>1, <3>2, Zenon
  <2>3. ASSUME NEW t \in Callers, Presolve(t) \/ ResolveNames(t) \/ RecordEvent(t) PROVE HeapInv'
    BY <2>3, TracerKeepsInv, Zenon
  <2>4. ASSUME NEW t \in Callers,
               \/ After(t) \/ HResolve(t) \/ DlLeave(t)
               \/ \E how \in {"open", "sym"} : DlEnter(t, how)
               \/ \E b \in HeapBlocks : FreeBlock(t, b)
               \/ \E b \in Blocks, to \in HeapBlocks : ReallocUnfed(t, b, to)
               \/ \E b \in ArenaBlocks : GuestFreesRouted(t, b)
               \/ \E r \in Ranges : Munmap(t, r) \/ RegistryAdd(t, r) \/ FreeMapping(t, r)
        PROVE  HeapInv'
    BY <2>4, CallsKeepInv, Zenon
  <2>5. ASSUME NEW t \in Callers, NEW frames \in CallStacks[world],
               \/ \E b \in Blocks, size \in Sizes : Malloc(t, b, size, frames)
               \/ \E b \in Blocks, to \in HeapBlocks, size \in Sizes : Realloc(t, b, to, size, frames)
               \/ \E r \in Ranges, kind \in MapTags \cup {"file"}, replace \in BOOLEAN :
                     Mmap(t, r, kind, replace, frames)
        PROVE  HeapInv'
    BY <2>5, StackedCallsKeepInv, Zenon
  <2> QED BY <2>1, <2>2, <2>3, <2>4, <2>5, Zenon DEF HeapNext
<1> QED BY <1>1, <1>2, PTL DEF HeapSpec

\* While an event is recorded nobody waits for the tracer's lock and the
\* loader's in a circle: ht_presolve (heaptrack_trace.c) gives the lock back
\* before dladdr, so its only holder is a thread that needs nothing else. And
\* though names are looked up without it, no frame gets into the tables
\* without its name: a table only grows between the question and the record.
\* For any callers, blocks, pages and stacks.
THEOREM TracerLockIsALeaf == HeapSpec => []LeafLock
<1>1. HeapInv => LeafLock
  <2> SUFFICES ASSUME HeapInv PROVE LeafLock
    OBVIOUS
  <2>1. tr.unnamed = {}
    <3>1. PICK on, ips, tags, ptrs, regions : tr = Table(on, ips, {}, tags, ptrs, regions)
      BY Zenon DEF HeapInv, Tables
    <3> QED BY <3>1 DEF Table
  <2>2. ASSUME NEW t \in Callers PROVE Waits(t) \in {Nobody, loader}
    BY DEF HeapInv, Waits
  <2>3. ASSUME NEW t \in Callers, NEW u \in Callers, t # u, Waits(t) = u, Waits(u) = t PROVE FALSE
    <3>1. t # Nobody /\ u # Nobody
      BY HeapAssumption, Zenon
    <3> QED BY <2>2, <2>3, <3>1, Zenon
  <2> QED BY <2>1, <2>3, Zenon DEF LeafLock
<1> QED BY <1>1, TracerInvariance, PTL

-----------------------------------------------------------------------------
(* What the trace says of blocks and mappings.                             *)

\* The pages of a call are an interval.
LEMMA RangeIs ==
    ASSUME NEW r \in Ranges
    PROVE  /\ Lowest(r) \in Nat /\ Above(r) \in Nat /\ r = Lowest(r)..(Above(r) - 1)
           /\ Lowest(r) \in r /\ Above(r) - 1 \in r /\ r \subseteq PageNumbers
<1>1. r \subseteq PageNumbers /\ r # {} /\ \A p, q \in r : p..q \subseteq r
  BY Zenon DEF Ranges
<1>2. PageNumbers \in SUBSET Nat /\ \A p \in PageNumbers : p <= MapPages /\ p \in Nat
  BY HeapAssumption DEF PageNumbers
<1>3. r \in SUBSET Nat
  BY <1>1, <1>2, Zenon
<1>4. \E p \in r : \A q \in r : p <= q
  BY <1>1, <1>3, LeastNumber, Zenon
<1>5. PICK low : low = Lowest(r)
  OBVIOUS
<1>6. low \in r /\ \A q \in r : low <= q
  BY <1>4, <1>5, Zenon DEF Lowest
<1>7. \E p \in r : \A q \in r : q <= p
  <2> DEFINE U == {n \in Nat : \A q \in r : q <= n}
  <2>1. MapPages \in U
    BY <1>1, <1>2, HeapAssumption
  <2> HIDE DEF U
  <2>2. U \in SUBSET Nat /\ U # {}
    BY <2>1, Zenon DEF U
  <2>3. PICK n \in U : \A m \in U : n <= m
    BY <2>2, LeastNumber, Zenon
  <2>4. n \in Nat /\ \A q \in r : q <= n
    BY <2>3, Zenon DEF U
  <2>5. n \in r
    <3> SUFFICES ASSUME n \notin r PROVE FALSE
      OBVIOUS
    <3>1. \A q \in r : q \in Nat /\ q <= n /\ q # n
      BY <1>3, <2>4
    <3>2. low \in Nat /\ low <= n /\ low # n
      BY <1>6, <3>1
    <3>3. n - 1 \in Nat
      BY <2>4, <3>2
    <3>4. \A q \in r : q <= n - 1
      BY <2>4, <3>1
    <3>5. n - 1 \in U
      BY <3>3, <3>4, Zenon DEF U
    <3>6. n <= n - 1
      BY <2>3, <3>5, Zenon
    <3> QED BY <2>4, <3>6
  <2> QED BY <2>4, <2>5, Zenon
<1>8. PICK high : high = CHOOSE p \in r : \A q \in r : q <= p
  OBVIOUS
<1>9. high \in r /\ \A q \in r : q <= high
  BY <1>7, <1>8, Zenon
<1>10. low \in Nat /\ high \in Nat /\ Above(r) = high + 1
  BY <1>3, <1>6, <1>8, <1>9 DEF Above
<1>11. low..high \subseteq r
  BY <1>1, <1>6, <1>9, Zenon
<1>12. \A q \in r : q \in Nat /\ low <= q /\ q <= high
  BY <1>3, <1>6, <1>9, Zenon
<1>13. r \subseteq low..high
  BY <1>10, <1>12
<1>14. r = low..high
  BY <1>11, <1>13, Zenon
<1>15. Above(r) - 1 = high /\ Above(r) \in Nat
  BY <1>10
<1> QED BY <1>1, <1>5, <1>6, <1>9, <1>10, <1>14, <1>15, Zenon

\* The regions of the trace, and the tags they show for a page.
Region(r) == DOMAIN r = {"from", "to", "path"} /\ r.from \in Nat /\ r.to \in Nat
Covers(regions, p) == {Last(r.path) : r \in {r \in regions : p \in RegionPages(r)}}

LEMMA CoversIs ==
    ASSUME NEW R, NEW p, NEW x
    PROVE  x \in Covers(R, p) <=> \E r \in R : p \in RegionPages(r) /\ x = Last(r.path)
  BY Zenon DEF Covers

\* A region without what comes after low, or before high.
LEMMA PartIs ==
    ASSUME NEW r, Region(r), NEW n \in Nat
    PROVE  /\ Region([r EXCEPT !.to = n]) /\ [r EXCEPT !.to = n].path = r.path
           /\ RegionPages([r EXCEPT !.to = n]) = r.from..(n - 1)
           /\ Region([r EXCEPT !.from = n]) /\ [r EXCEPT !.from = n].path = r.path
           /\ RegionPages([r EXCEPT !.from = n]) = n..(r.to - 1)
<1>1. PICK z : z = [r EXCEPT !.to = n]
  OBVIOUS
<1>2. DOMAIN z = DOMAIN r /\ z.to = n /\ z.from = r.from /\ z.path = r.path
  BY <1>1 DEF Region
<1>3. Region(z) /\ RegionPages(z) = r.from..(n - 1)
  BY <1>2, Zenon DEF Region, RegionPages
<1>4. PICK y : y = [r EXCEPT !.from = n]
  OBVIOUS
<1>5. DOMAIN y = DOMAIN r /\ y.from = n /\ y.to = r.to /\ y.path = r.path
  BY <1>4 DEF Region
<1>6. Region(y) /\ RegionPages(y) = n..(r.to - 1)
  BY <1>5, Zenon DEF Region, RegionPages
<1> QED BY <1>1, <1>2, <1>3, <1>4, <1>5, <1>6, Zenon

\* What is left of the regions when low..high is cut out of them.
Pared(R, low, high) ==
    LET hit   == {r \in R : RegionPages(r) \cap low..high # {}}
        heads == {[r EXCEPT !.to = low] : r \in {r \in hit : r.from < low}}
        tails == {[r EXCEPT !.from = high + 1] : r \in {r \in hit : r.to > high + 1}}
    IN  (R \ hit) \cup heads \cup tails

IsPared(R, low, high, N) ==
    /\ \A r \in N : Region(r)
    /\ \A p \in Nat : Covers(N, p) = IF p \in low..high THEN {} ELSE Covers(R, p)

LEMMA ParedIs ==
    ASSUME NEW R, \A r \in R : Region(r), NEW low \in Nat, NEW high \in Nat
    PROVE  IsPared(R, low, high, Pared(R, low, high))
<1> DEFINE hit == {r \in R : RegionPages(r) \cap low..high # {}}
           heads == {[r EXCEPT !.to = low] : r \in {r \in hit : r.from < low}}
           tails == {[r EXCEPT !.from = high + 1] : r \in {r \in hit : r.to > high + 1}}
<1>0. high + 1 \in Nat /\ (high + 1) - 1 = high
  OBVIOUS
<1>1. PICK N : N = Pared(R, low, high)
  OBVIOUS
<1>2. N = (R \ hit) \cup heads \cup tails
  BY <1>1, Zenon DEF Pared
<1>3. \A z : z \in heads <=> \E r \in hit : r.from < low /\ z = [r EXCEPT !.to = low]
  BY Zenon
<1>4. \A z : z \in tails <=> \E r \in hit : r.to > high + 1 /\ z = [r EXCEPT !.from = high + 1]
  BY Zenon
<1>5. \A r \in hit : r \in R /\ \E c \in low..high : c \in RegionPages(r)
  BY Zenon
<1>6. \A r \in R \ hit : \A c \in low..high : c \notin RegionPages(r)
  BY Zenon
<1> HIDE DEF hit, heads, tails
<1>7. ASSUME NEW z \in heads
      PROVE  /\ Region(z)
             /\ \A p \in Nat : p \in RegionPages(z) =>
                   /\ p \notin low..high
                   /\ \E r \in R : p \in RegionPages(r) /\ r.path = z.path
  <2>1. PICK r \in hit : r.from < low /\ z = [r EXCEPT !.to = low]
    BY <1>3, <1>7, Zenon
  <2>2. r \in R /\ Region(r)
    BY <1>5, <2>1, Zenon
  <2>3. PICK c \in low..high : c \in RegionPages(r)
    BY <1>5, <2>1, Zenon
  <2>4. Region(z) /\ z.path = r.path /\ RegionPages(z) = r.from..(low - 1)
    BY <2>1, <2>2, PartIs, Zenon
  <2>5. ASSUME NEW p \in Nat, p \in RegionPages(z) PROVE p \notin low..high /\ p \in RegionPages(r)
    <3>1. r.from \in Nat /\ r.to \in Nat /\ RegionPages(r) = r.from..(r.to - 1)
      BY <2>2, Zenon DEF Region, RegionPages
    <3> QED BY <2>3, <2>4, <2>5, <3>1
  <2> QED BY <2>2, <2>4, <2>5, Zenon
<1>8. ASSUME NEW z \in tails
      PROVE  /\ Region(z)
             /\ \A p \in Nat : p \in RegionPages(z) =>
                   /\ p \notin low..high
                   /\ \E r \in R : p \in RegionPages(r) /\ r.path = z.path
  <2>1. PICK r \in hit : r.to > high + 1 /\ z = [r EXCEPT !.from = high + 1]
    BY <1>4, <1>8, Zenon
  <2>2. r \in R /\ Region(r)
    BY <1>5, <2>1, Zenon
  <2>3. PICK c \in low..high : c \in RegionPages(r)
    BY <1>5, <2>1, Zenon
  <2>4. Region(z) /\ z.path = r.path /\ RegionPages(z) = (high + 1)..(r.to - 1)
    BY <1>0, <2>1, <2>2, PartIs, Zenon
  <2>5. ASSUME NEW p \in Nat, p \in RegionPages(z) PROVE p \notin low..high /\ p \in RegionPages(r)
    <3>1. r.from \in Nat /\ r.to \in Nat /\ RegionPages(r) = r.from..(r.to - 1)
      BY <2>2, Zenon DEF Region, RegionPages
    <3> QED BY <2>3, <2>4, <2>5, <3>1
  <2> QED BY <2>2, <2>4, <2>5, Zenon
<1>9. \A r \in N : Region(r)
  BY <1>2, <1>7, <1>8, Zenon
<1>10. ASSUME NEW p \in Nat, NEW x, x \in Covers(N, p) PROVE p \notin low..high /\ x \in Covers(R, p)
  <2>0. x \in Covers(N, p) <=> \E z \in N : p \in RegionPages(z) /\ x = Last(z.path)
    BY Zenon DEF Covers
  <2>1. PICK z \in N : p \in RegionPages(z) /\ x = Last(z.path)
    BY <1>10, <2>0, Zenon
  <2>2. p \notin low..high /\ \E r \in R : p \in RegionPages(r) /\ r.path = z.path
    BY <1>2, <1>6, <1>7, <1>8, <2>1, Zenon
  <2> QED BY <2>1, <2>2, CoversIs, Zenon
<1>11. ASSUME NEW p \in Nat, p \notin low..high, NEW x, x \in Covers(R, p) PROVE x \in Covers(N, p)
  <2>0. x \in Covers(R, p) <=> \E r \in R : p \in RegionPages(r) /\ x = Last(r.path)
    BY Zenon DEF Covers
  <2>1. PICK r \in R : p \in RegionPages(r) /\ x = Last(r.path)
    BY <1>11, <2>0, Zenon
  <2>2. CASE r \notin hit
    BY <1>2, <2>1, <2>2, CoversIs, Zenon
  <2>3. CASE r \in hit
    <3>1. Region(r) /\ r.from \in Nat /\ r.to \in Nat /\ RegionPages(r) = r.from..(r.to - 1)
      BY Zenon DEF Region, RegionPages
    <3>2. p < low \/ p > high
      BY <1>11
    <3>3. CASE p < low
      <4>1. r.from < low /\ p \in r.from..(low - 1)
        BY <2>1, <3>1, <3>3
      <4>2. PICK z : z = [r EXCEPT !.to = low]
        OBVIOUS
      <4>3. z \in heads
        BY <1>3, <2>3, <4>1, <4>2, Zenon
      <4>4. z.path = r.path /\ RegionPages(z) = r.from..(low - 1)
        BY <3>1, <4>2, PartIs, Zenon
      <4> QED BY <1>2, <2>1, <4>1, <4>3, <4>4, CoversIs, Zenon
    <3>4. CASE p > high
      <4>1. r.to > high + 1 /\ p \in (high + 1)..(r.to - 1)
        BY <2>1, <3>1, <3>4
      <4>2. PICK z : z = [r EXCEPT !.from = high + 1]
        OBVIOUS
      <4>3. z \in tails
        BY <1>4, <2>3, <4>1, <4>2, Zenon
      <4>4. z.path = r.path /\ RegionPages(z) = (high + 1)..(r.to - 1)
        BY <1>0, <3>1, <4>2, PartIs, Zenon
      <4> QED BY <1>2, <2>1, <4>1, <4>3, <4>4, CoversIs, Zenon
    <3> QED BY <3>2, <3>3, <3>4, Zenon
  <2> QED BY <2>2, <2>3, Zenon
<1>12. ASSUME NEW p \in Nat PROVE Covers(N, p) = IF p \in low..high THEN {} ELSE Covers(R, p)
  BY <1>10, <1>11, <1>12, Zenon
<1> QED BY <1>1, <1>9, <1>12, Zenon DEF IsPared

-----------------------------------------------------------------------------
\* Setting one field of the tables leaves the others.
HasOn(s, z, x) == z.on = x /\ z.tags = s.tags /\ z.ptrs = s.ptrs /\ z.regions = s.regions
HasTags(s, z, x) == z.tags = x /\ z.on = s.on /\ z.ptrs = s.ptrs /\ z.regions = s.regions
HasPtrs(s, z, x) == z.ptrs = x /\ z.on = s.on /\ z.tags = s.tags /\ z.regions = s.regions
HasRegions(s, z, x) == z.regions = x /\ z.on = s.on /\ z.tags = s.tags /\ z.ptrs = s.ptrs

LEMMA FieldsSet ==
    ASSUME NEW s, NEW x, Tables(s)
    PROVE  /\ HasOn(s, [s EXCEPT !.on = x], x) /\ HasTags(s, [s EXCEPT !.tags = x], x)
           /\ HasPtrs(s, [s EXCEPT !.ptrs = x], x) /\ HasRegions(s, [s EXCEPT !.regions = x], x)
<1>1. PICK on, ips, tags, ptrs, regions : s = Table(on, ips, {}, tags, ptrs, regions)
  BY Zenon DEF Tables
<1>2. HasOn(s, [s EXCEPT !.on = x], x)
  BY <1>1 DEF HasOn, Table
<1>3. HasTags(s, [s EXCEPT !.tags = x], x)
  BY <1>1 DEF HasTags, Table
<1>4. HasPtrs(s, [s EXCEPT !.ptrs = x], x)
  BY <1>1 DEF HasPtrs, Table
<1>5. HasRegions(s, [s EXCEPT !.regions = x], x)
  BY <1>1 DEF HasRegions, Table
<1> QED BY <1>2, <1>3, <1>4, <1>5, Zenon

\* Fewer things are mapped and tracked than the table of tags has places
\* (HT_TAG_MAX, heaptrack_trace.c): beyond that they share the leaf "other".
TagsAreFew ==
    /\ IsFiniteSet(MapTags) /\ Cardinality(MapTags) < MaxTags
    /\ "free" \notin MapTags /\ "file" \notin MapTags

TagsOk(q) == q \in Seq(MapTags) /\ Cardinality(Range(q)) = Len(q)

LEMMA TagAppended ==
    ASSUME NEW q, TagsOk(q), NEW tag \in MapTags, tag \notin Range(q), TagsAreFew
    PROVE  Len(q) # MaxTags - 1 /\ TagsOk(Append(q, tag)) /\ tag \in Range(Append(q, tag))
<1>1. q \in Seq(MapTags) /\ Cardinality(Range(q)) = Len(q) /\ Len(q) \in Nat /\ DOMAIN q = 1..Len(q)
  BY LenProperties DEF TagsOk
<1>2. \A x : x \in Range(q) <=> \E k \in DOMAIN q : x = q[k]
  BY Zenon DEF Range
<1>3. \A k \in DOMAIN q : q[k] \in MapTags
  BY <1>1, ElementOfSeq
<1>4. Range(q) \subseteq MapTags \ {tag}
  BY <1>2, <1>3, Zenon
<1>5. IsFiniteSet(MapTags) /\ Cardinality(MapTags) \in Nat /\ Cardinality(MapTags) < MaxTags
  BY FS_CardinalityType, Zenon DEF TagsAreFew
<1>6. IsFiniteSet(MapTags \ {tag}) /\ Cardinality(MapTags \ {tag}) = Cardinality(MapTags) - 1
  BY <1>5, FS_RemoveElement, Zenon
<1>7. IsFiniteSet(Range(q)) /\ Cardinality(Range(q)) <= Cardinality(MapTags \ {tag})
  BY <1>4, <1>6, FS_Subset, Zenon
<1>8. Len(q) # MaxTags - 1
  BY <1>1, <1>5, <1>6, <1>7, HeapAssumption
<1>9. PICK z : z = Append(q, tag)
  BY Zenon
<1>10. /\ z \in Seq(MapTags) /\ Len(z) = Len(q) + 1 /\ DOMAIN z = 1..(Len(q) + 1)
       /\ \A k \in 1..Len(q) : z[k] = q[k]
       /\ z[Len(q) + 1] = tag
  BY <1>1, <1>9, AppendProperties, LenProperties
<1>11. \A x : x \in Range(z) <=> \E k \in DOMAIN z : x = z[k]
  BY Zenon DEF Range
<1>12. ASSUME NEW x PROVE x \in Range(z) <=> x \in Range(q) \cup {tag}
  <2>1. ASSUME NEW k \in DOMAIN z PROVE z[k] \in Range(q) \cup {tag}
    <3>1. k \in 1..Len(q) \/ k = Len(q) + 1
      BY <1>1, <1>10, <2>1
    <3> QED BY <1>1, <1>2, <1>10, <3>1, Zenon
  <2>2. ASSUME NEW k \in DOMAIN q PROVE k \in DOMAIN z /\ z[k] = q[k]
    BY <1>1, <1>10, <2>2
  <2>3. Len(q) + 1 \in DOMAIN z
    BY <1>1, <1>10
  <2>4. x \in Range(q) => x \in Range(z)
    BY <1>2, <1>11, <2>2, Zenon
  <2>5. x = tag => x \in Range(z)
    BY <1>10, <1>11, <2>3, Zenon
  <2> QED BY <1>11, <2>1, <2>4, <2>5, Zenon
<1>13. Range(z) = Range(q) \cup {tag}
  BY <1>12, Zenon
<1>14. Cardinality(Range(z)) = Cardinality(Range(q)) + 1
  BY <1>7, <1>13, FS_AddElement, Zenon
<1>15. TagsOk(z) /\ tag \in Range(z)
  BY <1>1, <1>10, <1>13, <1>14, Zenon DEF TagsOk
<1> QED BY <1>8, <1>9, <1>15, Zenon

\* The leaf of a tag is the tag's own.
LEMMA TagInterned ==
    ASSUME NEW s, Tables(s), TagsOk(s.tags), NEW tag \in MapTags, TagsAreFew
    PROVE  /\ HasTags(s, InternTag(s, tag), InternTag(s, tag).tags) /\ TagsOk(InternTag(s, tag).tags)
           /\ Tables(InternTag(s, tag)) /\ TagLeaf(InternTag(s, tag), tag) = tag
<1>1. PICK z : z = InternTag(s, tag)
  BY Zenon
<1>2. CASE tag \in Range(s.tags)
  <2>1. z = s
    BY <1>1, <1>2, Zenon DEF InternTag
  <2> QED BY <1>1, <1>2, <2>1, Zenon DEF HasTags, TagLeaf
<1>3. CASE tag \notin Range(s.tags)
  <2>1. PICK q : q = Append(s.tags, tag)
    BY Zenon
  <2>2. Len(s.tags) # MaxTags - 1 /\ TagsOk(q) /\ tag \in Range(q)
    BY <1>3, <2>1, TagAppended, Zenon
  <2>3. z = [s EXCEPT !.tags = q]
    BY <1>1, <1>3, <2>1, <2>2, Zenon DEF InternTag
  <2>4. HasTags(s, z, q) /\ Tables(z)
    BY <2>3, FieldsSet, OtherFields, Zenon DEF SameFrames
  <2>5. z.tags = q
    BY <2>4, Zenon DEF HasTags
  <2> QED BY <1>1, <2>2, <2>4, <2>5, Zenon DEF TagLeaf
<1> QED BY <1>2, <1>3, Zenon

\* An event has at most one new block, one mapping and one range of pages to cut.
EventOk(e) ==
    /\ \A x, y \in e.in : x = y
    /\ \A x, y \in e.map : x = y
    /\ \A x \in e.in : x.ptr \in Blocks
    /\ \A m \in e.map : m.from \in Nat /\ m.to \in Nat /\ m.tag \in MapTags
    /\ e.cut = {} \/ e.cut \in Ranges

TablesOk(s) ==
    /\ Tables(s) /\ DOMAIN s.ptrs = Blocks /\ TagsOk(s.tags)
    /\ \A r \in s.regions : Region(r)

\* do_free_locked and do_munmap_locked.
IsFreed(s, out, z) ==
    /\ TablesOk(z) /\ z.ips = s.ips /\ z.on = s.on /\ z.regions = s.regions
    /\ \A b \in Blocks : z.ptrs[b] = IF b \in out THEN Vacant ELSE s.ptrs[b]

LEMMA FreedIs ==
    ASSUME NEW s, TablesOk(s), NEW out PROVE IsFreed(s, out, DoFree(s, out))
<1>1. PICK f : f = [b \in Blocks |-> IF b \in out THEN Vacant ELSE s.ptrs[b]]
  BY Zenon
<1>2. PICK z : z = DoFree(s, out)
  BY Zenon
<1>3. z = [s EXCEPT !.ptrs = f]
  BY <1>1, <1>2, Zenon DEF DoFree
<1>4. HasPtrs(s, z, f) /\ SameFrames(s, z)
  BY <1>3, FieldsSet, OtherFields, Zenon DEF TablesOk
<1>5. DOMAIN f = Blocks /\ \A b \in Blocks : f[b] = IF b \in out THEN Vacant ELSE s.ptrs[b]
  BY <1>1, Zenon
<1>6. z.ptrs = f /\ z.on = s.on /\ z.tags = s.tags /\ z.regions = s.regions /\ Tables(z)
  BY <1>4, Zenon DEF HasPtrs, SameFrames
<1>7. TablesOk(z)
  BY <1>5, <1>6, Zenon DEF TablesOk
<1> QED BY <1>2, <1>4, <1>5, <1>6, <1>7, Zenon DEF SameFrames, IsFreed

IsUnmapped(s, cut, z) ==
    /\ TablesOk(z) /\ z.ips = s.ips /\ z.on = s.on /\ z.ptrs = s.ptrs
    /\ \A p \in PageNumbers : Covers(z.regions, p) = IF p \in cut THEN {} ELSE Covers(s.regions, p)

LEMMA UnmappedIs ==
    ASSUME NEW s, TablesOk(s), NEW cut, cut = {} \/ cut \in Ranges PROVE IsUnmapped(s, cut, DoMunmap(s, cut))
<1>1. PICK z : z = DoMunmap(s, cut)
  BY Zenon
<1>2. CASE cut = {}
  <2>1. z = s
    BY <1>1, <1>2, Zenon DEF DoMunmap
  <2> QED BY <1>1, <1>2, <2>1, Zenon DEF IsUnmapped
<1>3. CASE cut # {}
  <2>1. cut \in Ranges
    BY <1>3
  <2>2. PICK low, high : low = Lowest(cut) /\ high = CHOOSE p \in cut : \A q \in cut : q <= p
    BY Zenon
  <2>3. low \in Nat /\ Above(cut) \in Nat /\ cut = low..(Above(cut) - 1) /\ Above(cut) - 1 \in cut
        /\ cut \subseteq PageNumbers
    BY <2>1, <2>2, RangeIs, Zenon
  <2>4. Above(cut) = high + 1
    BY <2>2, Zenon DEF Above
  <2>5. high \in cut
    <3>1. \A q \in cut : q <= Above(cut) - 1
      BY <2>3
    <3> QED BY <2>2, <2>3, <3>1, Zenon
  <2>6. high \in Nat
    BY <2>3, <2>5
  <2>7. cut = low..high
    BY <2>3, <2>4, <2>6
  <2>8. PICK R : R = Pared(s.regions, low, high)
    BY Zenon
  <2>9. low = CHOOSE p \in cut : \A q \in cut : p <= q
    BY <2>2, Zenon DEF Lowest
  <2>10. z = [s EXCEPT !.regions = R]
    BY <1>1, <1>3, <2>2, <2>7, <2>8, <2>9, Zenon DEF DoMunmap, Pared
  <2>11. HasRegions(s, z, R) /\ SameFrames(s, z)
    BY <2>10, FieldsSet, OtherFields, Zenon DEF TablesOk
  <2>12. z.regions = R /\ z.on = s.on /\ z.tags = s.tags /\ z.ptrs = s.ptrs /\ Tables(z)
    BY <2>11, Zenon DEF HasRegions, SameFrames
  <2>13. /\ \A r \in R : Region(r)
         /\ \A p \in Nat : Covers(R, p) = IF p \in low..high THEN {} ELSE Covers(s.regions, p)
    <3>1. \A r \in s.regions : Region(r)
      BY Zenon DEF TablesOk
    <3>2. IsPared(s.regions, low, high, R)
      BY <2>3, <2>6, <2>8, <3>1, ParedIs, Zenon
    <3> QED BY <3>2, Zenon DEF IsPared
  <2>14. \A p \in PageNumbers : p \in Nat
    BY HeapAssumption DEF PageNumbers
  <2>15. TablesOk(z)
    BY <2>12, <2>13, Zenon DEF TablesOk
  <2> QED BY <1>1, <2>7, <2>11, <2>12, <2>13, <2>14, <2>15, Zenon DEF SameFrames, IsUnmapped
<1> QED BY <1>2, <1>3, Zenon

\* do_alloc_locked.
IsAllocated(s, e, x, z) ==
    /\ TablesOk(z) /\ Grown(s, z) /\ z.on = s.on /\ z.regions = s.regions
    /\ z.ptrs[x.ptr] = <<x.size, e.stack>>
    /\ \A b \in Blocks : b # x.ptr => z.ptrs[b] = s.ptrs[b]

LEMMA AllocatedIs ==
    ASSUME NEW s, TablesOk(s), NEW e, Event(e), EventOk(e), NEW hints, NEW x \in e.in,
           Range(e.stack) \subseteq hints \cup s.ips
    PROVE  IsAllocated(s, e, x, DoAlloc(s, e, hints))
<1>1. PICK z : z = DoAlloc(s, e, hints)
  BY Zenon
<1>2. PICK w : w = InternStack(s, e.stack, hints)
  BY Zenon
<1>3. Grown(s, w) /\ SameRest(s, w)
  BY <1>2, InternedStack, Zenon DEF TablesOk, Event
<1>4. x = CHOOSE y \in e.in : TRUE
  BY Zenon DEF EventOk
<1>5. PICK f : f = [w.ptrs EXCEPT ![x.ptr] = <<x.size, e.stack>>]
  BY Zenon
<1>6. z = [w EXCEPT !.ptrs = f]
  BY <1>1, <1>2, <1>4, <1>5, Zenon DEF DoAlloc, InternInfo
<1>7. Tables(w) /\ w.on = s.on /\ w.tags = s.tags /\ w.ptrs = s.ptrs /\ w.regions = s.regions
  BY <1>3, Zenon DEF Grown, SameRest
<1>8. HasPtrs(w, z, f) /\ SameFrames(w, z)
  BY <1>6, <1>7, FieldsSet, OtherFields, Zenon
<1>9. z.ptrs = f /\ z.on = s.on /\ z.tags = s.tags /\ z.regions = s.regions /\ Tables(z) /\ z.ips = w.ips
  BY <1>7, <1>8, Zenon DEF HasPtrs, SameFrames
<1>10. x.ptr \in Blocks /\ DOMAIN s.ptrs = Blocks
  BY Zenon DEF EventOk, TablesOk
<1>11. DOMAIN f = Blocks /\ f[x.ptr] = <<x.size, e.stack>> /\ \A b \in Blocks : b # x.ptr => f[b] = s.ptrs[b]
  BY <1>5, <1>7, <1>10, Zenon
<1>12. TablesOk(z)
  BY <1>9, <1>11, Zenon DEF TablesOk
<1>13. Grown(s, z)
  BY <1>3, <1>9, Zenon DEF Grown
<1> QED BY <1>1, <1>9, <1>11, <1>12, <1>13, Zenon DEF IsAllocated

\* do_mmap_locked.
IsMapped(s, m, z) ==
    /\ TablesOk(z) /\ z.on = s.on /\ z.ptrs = s.ptrs
    /\ \A p \in PageNumbers : \A x :
          x \in Covers(z.regions, p) <=> (p \in RegionPages(m) /\ x = m.tag) \/ x \in Covers(s.regions, p)

LEMMA MappedIs ==
    ASSUME NEW s, TablesOk(s), NEW e, Event(e), EventOk(e), NEW hints, NEW m \in e.map,
           Range(e.stack) \subseteq hints \cup s.ips, TagsAreFew
    PROVE  IsMapped(s, m, DoMmap(s, e, hints))
<1>1. PICK z : z = DoMmap(s, e, hints)
  BY Zenon
<1>2. PICK w : w = InternStack(s, e.stack, hints)
  BY Zenon
<1>3. Grown(s, w) /\ SameRest(s, w)
  BY <1>2, InternedStack, Zenon DEF TablesOk, Event
<1>4. m = CHOOSE y \in e.map : TRUE
  BY Zenon DEF EventOk
<1>5. PICK v : v = InternTag(w, m.tag)
  BY Zenon
<1>6. Tables(w) /\ w.on = s.on /\ w.tags = s.tags /\ w.ptrs = s.ptrs /\ w.regions = s.regions
  BY <1>3, Zenon DEF Grown, SameRest
<1>7. m.tag \in MapTags /\ m.from \in Nat /\ m.to \in Nat /\ TagsOk(w.tags)
  BY <1>6, Zenon DEF EventOk, TablesOk
<1>8. HasTags(w, v, v.tags) /\ TagsOk(v.tags) /\ Tables(v) /\ TagLeaf(v, m.tag) = m.tag
  BY <1>5, <1>6, <1>7, TagInterned, Zenon
<1>9. PICK path : path = Append(e.stack, m.tag)
  BY Zenon
<1>10. PICK new : new = [from |-> m.from, to |-> m.to, path |-> path]
  BY Zenon
<1>11. z = [v EXCEPT !.regions = v.regions \cup {new}]
  BY <1>1, <1>2, <1>4, <1>5, <1>8, <1>9, <1>10, Zenon DEF DoMmap, InternTrace
<1>12. HasRegions(v, z, v.regions \cup {new}) /\ SameFrames(v, z)
  BY <1>8, <1>11, FieldsSet, OtherFields, Zenon
<1>13. z.regions = s.regions \cup {new} /\ z.on = s.on /\ z.tags = v.tags /\ z.ptrs = s.ptrs /\ Tables(z)
  BY <1>6, <1>8, <1>12, Zenon DEF HasRegions, HasTags, SameFrames
<1>14. DOMAIN new = {"from", "to", "path"} /\ new.from = m.from /\ new.to = m.to /\ new.path = path
  BY <1>10
<1>15. Region(new) /\ RegionPages(new) = RegionPages(m)
  BY <1>7, <1>14, Zenon DEF Region, RegionPages
<1>16. Last(path) = m.tag
  <2>1. PICK S : e.stack \in Seq(S)
    BY Zenon DEF Event
  <2>2. PICK q : q = e.stack
    BY Zenon
  <2>3. q \in Seq(S \cup {m.tag}) /\ path = Append(q, m.tag)
    BY <1>9, <2>1, <2>2
  <2>4. Len(path) = Len(q) + 1 /\ path[Len(q) + 1] = m.tag
    BY <2>3, AppendProperties
  <2> QED BY <2>4 DEF Last
<1>17. TablesOk(z)
  BY <1>8, <1>13, <1>15, Zenon DEF TablesOk
<1>18. ASSUME NEW p \in PageNumbers, NEW x
       PROVE  x \in Covers(z.regions, p) <=> (p \in RegionPages(m) /\ x = m.tag) \/ x \in Covers(s.regions, p)
  <2>1. x \in Covers(z.regions, p) <=> \E r \in z.regions : p \in RegionPages(r) /\ x = Last(r.path)
    BY Zenon DEF Covers
  <2>2. x \in Covers(s.regions, p) <=> \E r \in s.regions : p \in RegionPages(r) /\ x = Last(r.path)
    BY Zenon DEF Covers
  <2> QED BY <1>13, <1>14, <1>15, <1>16, <2>1, <2>2, Zenon
<1> QED BY <1>1, <1>13, <1>17, <1>18, Zenon DEF IsMapped

\* What one event makes of the tables.
Records(s, e, z) ==
    /\ TablesOk(z) /\ z.on = s.on
    /\ \A x \in e.in : z.ptrs[x.ptr] = <<x.size, e.stack>>
    /\ \A b \in Blocks : (\A x \in e.in : x.ptr # b) => z.ptrs[b] = IF b \in e.out THEN Vacant ELSE s.ptrs[b]
    /\ \A p \in PageNumbers : \A x :
          x \in Covers(z.regions, p) <=>
              (\E m \in e.map : p \in RegionPages(m) /\ x = m.tag) \/ (p \notin e.cut /\ x \in Covers(s.regions, p))

LEMMA RecordedIs ==
    ASSUME NEW s, TablesOk(s), NEW e, Event(e), EventOk(e), NEW hints, TagsAreFew,
           Interns(e) => Range(e.stack) \subseteq hints \cup s.ips
    PROVE  Records(s, e, Recorded(s, e, hints))
<1>1. PICK s0 : s0 = DoFree(s, e.out)
  BY Zenon
<1>2. /\ TablesOk(s0) /\ s0.ips = s.ips /\ s0.on = s.on /\ s0.regions = s.regions
      /\ \A b \in Blocks : s0.ptrs[b] = IF b \in e.out THEN Vacant ELSE s.ptrs[b]
  <2>1. IsFreed(s, e.out, s0)
    BY <1>1, FreedIs, Zenon
  <2> QED BY <2>1, Zenon DEF IsFreed
<1>3. PICK s1 : s1 = DoMunmap(s0, e.cut)
  BY Zenon
<1>4. /\ TablesOk(s1) /\ s1.ips = s0.ips /\ s1.on = s0.on /\ s1.ptrs = s0.ptrs
      /\ \A p \in PageNumbers : Covers(s1.regions, p) = IF p \in e.cut THEN {} ELSE Covers(s0.regions, p)
  <2>1. e.cut = {} \/ e.cut \in Ranges
    BY Zenon DEF EventOk
  <2>2. IsUnmapped(s0, e.cut, s1)
    BY <1>2, <1>3, <2>1, UnmappedIs, Zenon
  <2> QED BY <2>2, Zenon DEF IsUnmapped
<1>5. PICK s2 : s2 = IF e.in = {} THEN s1 ELSE DoAlloc(s1, e, hints)
  BY Zenon
<1>6. /\ TablesOk(s2) /\ s1.ips \subseteq s2.ips /\ s2.on = s.on /\ s2.regions = s1.regions
      /\ \A x \in e.in : s2.ptrs[x.ptr] = <<x.size, e.stack>>
      /\ \A b \in Blocks : (\A x \in e.in : x.ptr # b) => s2.ptrs[b] = s1.ptrs[b]
  <2>1. CASE e.in = {}
    BY <1>2, <1>4, <1>5, <2>1, Zenon
  <2>2. CASE e.in # {}
    <3>1. PICK x \in e.in : TRUE
      BY <2>2, Zenon
    <3>2. Interns(e)
      BY <2>2, Zenon DEF Interns
    <3>3. Range(e.stack) \subseteq hints \cup s1.ips
      BY <1>2, <1>4, <3>2, Zenon
    <3>4. s2 = DoAlloc(s1, e, hints)
      BY <1>5, <2>2, Zenon
    <3>5. /\ TablesOk(s2) /\ Grown(s1, s2) /\ s2.on = s1.on /\ s2.regions = s1.regions
          /\ s2.ptrs[x.ptr] = <<x.size, e.stack>>
          /\ \A b \in Blocks : b # x.ptr => s2.ptrs[b] = s1.ptrs[b]
      <4>1. IsAllocated(s1, e, x, s2)
        BY <1>4, <3>3, <3>4, AllocatedIs, Zenon
      <4> QED BY <4>1, Zenon DEF IsAllocated
    <3>6. \A y \in e.in : y = x
      BY Zenon DEF EventOk
    <3> QED BY <1>2, <1>4, <3>5, <3>6, Zenon DEF Grown
  <2> QED BY <2>1, <2>2, Zenon
<1>7. PICK z : z = Recorded(s, e, hints)
  BY Zenon
<1>8. z = IF e.map = {} THEN s2 ELSE DoMmap(s2, e, hints)
  BY <1>1, <1>3, <1>5, <1>7, Zenon DEF Recorded
<1>9. /\ TablesOk(z) /\ z.on = s2.on /\ z.ptrs = s2.ptrs
      /\ \A p \in PageNumbers : \A x :
            x \in Covers(z.regions, p) <=> (\E m \in e.map : p \in RegionPages(m) /\ x = m.tag) \/ x \in Covers(s2.regions, p)
  <2>1. CASE e.map = {}
    BY <1>6, <1>8, <2>1, Zenon
  <2>2. CASE e.map # {}
    <3>1. PICK m \in e.map : TRUE
      BY <2>2, Zenon
    <3>2. Interns(e)
      BY <2>2, Zenon DEF Interns
    <3>3. Range(e.stack) \subseteq hints \cup s2.ips
      BY <1>2, <1>4, <1>6, <3>2, Zenon
    <3>4. z = DoMmap(s2, e, hints)
      BY <1>8, <2>2, Zenon
    <3>5. /\ TablesOk(z) /\ z.on = s2.on /\ z.ptrs = s2.ptrs
          /\ \A p \in PageNumbers : \A x :
                x \in Covers(z.regions, p) <=> (p \in RegionPages(m) /\ x = m.tag) \/ x \in Covers(s2.regions, p)
      <4>1. IsMapped(s2, m, z)
        BY <1>6, <3>3, <3>4, MappedIs, Zenon
      <4> QED BY <4>1, Zenon DEF IsMapped
    <3>6. \A y \in e.map : y = m
      BY Zenon DEF EventOk
    <3> QED BY <3>5, <3>6, Zenon
  <2> QED BY <2>1, <2>2, Zenon
<1>10. ASSUME NEW p \in PageNumbers, NEW x
       PROVE  x \in Covers(s2.regions, p) <=> p \notin e.cut /\ x \in Covers(s.regions, p)
  BY <1>2, <1>4, <1>6, Zenon
<1>11. \A b \in Blocks : (\A x \in e.in : x.ptr # b) => z.ptrs[b] = IF b \in e.out THEN Vacant ELSE s.ptrs[b]
  BY <1>2, <1>4, <1>6, <1>9, Zenon
<1>12. Records(s, e, z)
  BY <1>6, <1>9, <1>10, <1>11, Zenon DEF Records
<1> QED BY <1>7, <1>12, Zenon

-----------------------------------------------------------------------------
\* What a caller is about to record of a block, or still has to do with it.
Adds(h, b)    == \E x \in h.ev.in : x.ptr = b
Drops(h, b)   == b \in h.ev.out
Defers(h, b)  == b \in h.after
Claims(h, b)  == Adds(h, b) \/ Defers(h, b)
Touches(h, b) == Adds(h, b) \/ Drops(h, b) \/ Defers(h, b)

\* What the trace says of a block nobody is about.
Told(st) == IF Len(st) < 2 THEN Vacant ELSE st

\* Whoever adds a block has it; who is to release it has it until then, and of
\* a heap block the record goes first; a release that was made first left the
\* block vacant.
BlockRec(h, b, st, pt) ==
    /\ \A x \in h.ev.in : x.ptr = b => st = <<x.size, h.ev.stack>>
    /\ Defers(h, b) => st # Vacant /\ ~Adds(h, b)
    /\ Drops(h, b) => b \in h.ev.late \/ Defers(h, b)
    /\ Drops(h, b) /\ b \in h.ev.late /\ ~Adds(h, b) => st = Vacant
    /\ Defers(h, b) /\ b \notin ArenaBlocks => IF h.at = "after" THEN pt = Vacant ELSE Drops(h, b)

\* Nobody else is about a block that one adds or is to release; where nobody is
\* about it, the trace is right.
BlockOk(hk, b, st, pt) ==
    /\ \A u \in Callers : BlockRec(hk[u], b, st, pt)
    /\ \A u, v \in Callers : u # v => ~(Claims(hk[u], b) /\ Touches(hk[v], b))
    /\ (\A u \in Callers : ~Touches(hk[u], b)) => pt = Told(st)

BlockInv == \A b \in Blocks : b \notin astray => BlockOk(hook, b, store[b], tr.ptrs[b])

\* Nothing is allocated before the real functions are known.
UnresolvedInv ==
    ~resolved => \A b \in Blocks : store[b] = Vacant /\ \A u \in Callers : ~Touches(hook[u], b)

HeapSide == BlockInv /\ UnresolvedInv /\ DOMAIN store = Blocks

\* One page of a mapping, likewise.
Maps(h, p)    == \E m \in h.ev.map : p \in RegionPages(m)
Handles(h, p) == p \in h.ev.cut \/ Maps(h, p)

PageRec(h, p, k, tags) ==
    /\ \A m \in h.ev.map : p \in RegionPages(m) => k = m.tag /\ (p \notin h.ev.cut => tags = {})
    /\ p \in h.ev.cut /\ ~Maps(h, p) => (k = "free" /\ p \in h.ev.late) \/ k = "file"

PageOk(hk, p, k, tags) ==
    /\ \A u \in Callers : PageRec(hk[u], p, k, tags)
    /\ \A u, v \in Callers : u # v => ~(Handles(hk[u], p) /\ Handles(hk[v], p))
    /\ (\A u \in Callers : ~Handles(hk[u], p)) => tags = {k} \ {"free", "file"}

PageInv == \A p \in PageNumbers : p \notin astray => PageOk(hook, p, pg[p], Covers(tr.regions, p))

\* A mapping left to be freed is registered, mapped and left alone until then.
LentInv ==
    /\ \A r \in lent : /\ r \in Ranges /\ r \in Range(registry)
                       /\ \A p \in r : pg[p] # "free" /\ \A u \in Callers : ~Handles(hook[u], p)
    /\ \A q, r \in lent : q # r => q \cap r = {}

MapSide ==
    PageInv /\ LentInv /\ DOMAIN pg = PageNumbers /\ registry \in Seq(Ranges) /\ misfreed = FALSE

HookOk(h) ==
    /\ h.at = "guest" \/ h.at = "after" => h.ev = NoEvent
    /\ h.at = "guest" => h.after = {}
    /\ h.at = "after" => h.after # {}
    /\ EventOk(h.ev)
    /\ h.after \subseteq Blocks /\ \A x, y \in h.after : x = y

TraceInv == HeapSide /\ MapSide /\ TablesOk(tr) /\ \A t \in Callers : HookOk(hook[t])

-----------------------------------------------------------------------------
\* The events that are fed, field by field.
EvIs(e, late, out, in, path, cut, map) ==
    e.late = late /\ e.out = out /\ e.in = in /\ e.stack = path /\ e.cut = cut /\ e.map = map

LEMMA EventsAre ==
    ASSUME NEW x, NEW y, NEW z, NEW b, NEW size
    PROVE  /\ EvIs(NoEvent, {}, {}, {}, <<>>, {}, {})
           /\ EvIs([NoEvent EXCEPT !.out = x], {}, x, {}, <<>>, {}, {})
           /\ EvIs([NoEvent EXCEPT !.out = x, !.late = y], y, x, {}, <<>>, {}, {})
           /\ EvIs([NoEvent EXCEPT !.cut = x, !.late = y], y, {}, {}, <<>>, x, {})
           /\ EvIs([NoEvent EXCEPT !.cut = x, !.stack = y, !.map = z], {}, {}, {}, y, x, z)
           /\ EvIs(New(b, size, x), {}, {}, {[ptr |-> b, size |-> size]}, x, {}, {})
           /\ EvIs([New(b, size, x) EXCEPT !.out = y, !.late = z], z, y, {[ptr |-> b, size |-> size]}, x, {}, {})
<1>1. EvIs(NoEvent, {}, {}, {}, <<>>, {}, {})
  BY DEF NoEvent, EvIs
<1>2. EvIs([NoEvent EXCEPT !.out = x], {}, x, {}, <<>>, {}, {})
  BY DEF NoEvent, EvIs
<1>3. EvIs([NoEvent EXCEPT !.out = x, !.late = y], y, x, {}, <<>>, {}, {})
  BY DEF NoEvent, EvIs
<1>4. EvIs([NoEvent EXCEPT !.cut = x, !.late = y], y, {}, {}, <<>>, x, {})
  BY DEF NoEvent, EvIs
<1>5. EvIs([NoEvent EXCEPT !.cut = x, !.stack = y, !.map = z], {}, {}, {}, y, x, z)
  BY DEF NoEvent, EvIs
<1>6. EvIs(New(b, size, x), {}, {}, {[ptr |-> b, size |-> size]}, x, {}, {})
  BY DEF NoEvent, New, EvIs
<1>7. EvIs([New(b, size, x) EXCEPT !.out = y, !.late = z], z, y, {[ptr |-> b, size |-> size]}, x, {}, {})
  BY DEF NoEvent, New, EvIs
<1> QED BY <1>1, <1>2, <1>3, <1>4, <1>5, <1>6, <1>7, Zenon

\* A caller goes on to h, the others stay.
Moved(t, h) ==
    /\ DOMAIN hook' = Callers /\ hook'[t] = h
    /\ \A u \in Callers : u # t => hook'[u] = hook[u]

LEMMA MovedIs == ASSUME HeapInv, NEW t \in Callers, NEW h, HookIs(t, h) PROVE Moved(t, h)
BY DEF HeapInv, HookIs, Moved

\* A caller that was at rest has an event to record.
FedTo(t, e, after, h) == Moved(t, h) /\ h.ev = e /\ h.after = after /\ h.at # "after" /\ h.at # "guest"

LEMMA FedIs ==
    ASSUME HeapInv, NEW t \in Callers, NEW e, NEW after, Feed(t, e, after)
    PROVE  \E h : FedTo(t, e, after, h)
<1>1. PICK at : at = IF e.in = {} /\ e.map = {} THEN "record" ELSE "presolve"
  BY Zenon
<1>2. PICK h : h = [hook[t] EXCEPT !.at = at, !.ev = e, !.after = after]
  BY Zenon
<1>3. HookIs(t, h)
  BY <1>1, <1>2, Zenon DEF Feed
<1>4. DOMAIN hook[t] = {"at", "ev", "needs", "after", "dl"}
  BY Zenon DEF HeapInv, Hook
<1>5. h.at = at /\ h.ev = e /\ h.after = after
  BY <1>2, <1>4
<1>6. at # "after" /\ at # "guest"
  BY <1>1
<1>7. Moved(t, h)
  BY <1>3, MovedIs, Zenon
<1> QED BY <1>5, <1>6, <1>7, Zenon DEF FedTo

\* Who is at rest is about nothing.
LEMMA RestIs ==
    ASSUME NEW h, HookOk(h), h.at = "guest"
    PROVE  \A a : ~Touches(h, a) /\ ~Handles(h, a)
<1>1. h.ev = NoEvent /\ h.after = {}
  BY Zenon DEF HookOk
<1>2. NoEvent.in = {} /\ NoEvent.out = {} /\ NoEvent.cut = {} /\ NoEvent.map = {}
  BY DEF NoEvent
<1> QED BY <1>1, <1>2, Zenon DEF Touches, Handles, Adds, Drops, Defers, Maps

-----------------------------------------------------------------------------
LEMMA NotTouched == ASSUME NEW h, NEW b, NEW st, NEW pt, ~Touches(h, b) PROVE BlockRec(h, b, st, pt)
BY Zenon DEF Touches, BlockRec, Adds, Drops, Defers

\* A block that a call is not about.
LEMMA BlockAside ==
    ASSUME NEW t \in Callers, NEW h, Moved(t, h), NEW b, NEW st, NEW pt, BlockOk(hook, b, st, pt),
           ~Touches(hook[t], b), ~Touches(h, b)
    PROVE  BlockOk(hook', b, st, pt)
<1>1. ASSUME NEW u \in Callers
      PROVE  /\ BlockRec(hook'[u], b, st, pt) /\ (Touches(hook'[u], b) <=> Touches(hook[u], b))
             /\ (Claims(hook'[u], b) => Claims(hook[u], b))
  <2>1. CASE u = t
    BY <2>1, NotTouched, Zenon DEF Moved, Touches, Claims
  <2>2. CASE u # t
    BY <2>2, Zenon DEF Moved, BlockOk
  <2> QED BY <2>1, <2>2, Zenon
<1> QED BY <1>1, Zenon DEF BlockOk

\* A block that nobody else is about.
AloneWith(t, b) == \A u \in Callers : u # t => ~Touches(hook[u], b)

LEMMA BlockTaken ==
    ASSUME NEW t \in Callers, NEW h, Moved(t, h), NEW b, NEW st, NEW pt, AloneWith(t, b),
           BlockRec(h, b, st, pt), Touches(h, b) \/ pt = Told(st)
    PROVE  BlockOk(hook', b, st, pt)
<1>1. ASSUME NEW u \in Callers, u # t PROVE ~Touches(hook'[u], b) /\ ~Claims(hook'[u], b)
  BY <1>1, Zenon DEF Moved, AloneWith, Touches, Claims
<1>2. \A u \in Callers : BlockRec(hook'[u], b, st, pt)
  BY <1>1, NotTouched, Zenon DEF Moved
<1>3. (\A u \in Callers : ~Touches(hook'[u], b)) => pt = Told(st)
  BY Zenon DEF Moved
<1> QED BY <1>1, <1>2, <1>3, Zenon DEF BlockOk

\* Whoever holds a block is alone with it,
LEMMA HeldAlone ==
    ASSUME NEW b, b \notin astray, BlockInv, b \in Blocks, Held(b) PROVE \A u \in Callers : ~Touches(hook[u], b)
<1>1. BlockOk(hook, b, store[b], tr.ptrs[b]) /\ store[b] # Vacant
  BY Zenon DEF BlockInv, Held
<1>2. ASSUME NEW u \in Callers PROVE ~Touches(hook[u], b)
  <2>1. BlockRec(hook[u], b, store[b], tr.ptrs[b])
    BY <1>1, Zenon DEF BlockOk
  <2>2. ~Adds(hook[u], b) /\ ~Defers(hook[u], b)
    BY Zenon DEF Held, Adds, Defers
  <2> QED BY <1>1, <2>1, <2>2, Zenon DEF BlockRec, Touches
<1> QED BY <1>2, Zenon

\* and so is the one that is handed a block whose release was recorded.
LEMMA VacantAlone ==
    ASSUME NEW t \in Callers, NEW b, b \notin astray, BlockInv, b \in Blocks, store[b] = Vacant, ~Pending(t, b)
    PROVE  AloneWith(t, b)
<1>1. BlockOk(hook, b, store[b], tr.ptrs[b])
  BY Zenon DEF BlockInv
<1>2. ASSUME NEW u \in Callers, u # t PROVE ~Touches(hook[u], b)
  <2>1. BlockRec(hook[u], b, store[b], tr.ptrs[b])
    BY <1>1, Zenon DEF BlockOk
  <2>2. b \notin hook[u].ev.late
    BY <1>2, Zenon DEF Pending
  <2>3. \A x, y : <<x, y>> # Vacant
    BY DEF Vacant
  <2>4. ~Adds(hook[u], b)
    BY <2>1, <2>3, Zenon DEF BlockRec, Adds
  <2> QED BY <2>1, <2>2, <2>4, Zenon DEF BlockRec, Touches
<1> QED BY <1>2, Zenon DEF AloneWith

LEMMA ToldIs ==
    /\ Told(Vacant) = Vacant /\ Told(<<"boot">>) = Vacant /\ Told(<<"untraced">>) = Vacant
    /\ \A x, y : Told(<<x, y>>) = <<x, y>> /\ <<x, y>> # Vacant
BY DEF Told, Vacant

LEMMA BlockIdle ==
    ASSUME NEW b, NEW st, NEW pt, \A u \in Callers : ~Touches(hook[u], b), pt = Told(st)
    PROVE  BlockOk(hook, b, st, pt)
<1>1. \A u \in Callers : BlockRec(hook[u], b, st, pt)
  BY NotTouched, Zenon
<1> QED BY <1>1, Zenon DEF BlockOk, Claims, Touches

\* Steps that are about no block: of the callers, or only of the tables.
LEMMA HeapStays ==
    ASSUME HeapSide, UNCHANGED <<store, resolved, hook>>, tr'.ptrs = tr.ptrs, astray \subseteq astray'
    PROVE  HeapSide'
<1>1. BlockInv'
  BY Zenon DEF HeapSide, BlockInv
<1>2. UnresolvedInv'
  BY Zenon DEF HeapSide, UnresolvedInv
<1> QED BY <1>1, <1>2, Zenon DEF HeapSide

LEMMA HeapRests ==
    ASSUME HeapSide, UNCHANGED <<store, resolved>>, tr'.ptrs = tr.ptrs, astray \subseteq astray',
           NEW t \in Callers, NEW h, Moved(t, h), \A a : ~Touches(hook[t], a) /\ ~Touches(h, a)
    PROVE  HeapSide'
<1>1. ASSUME NEW b \in Blocks, b \notin astray' PROVE BlockOk(hook', b, store'[b], tr'.ptrs[b])
  <2>1. BlockOk(hook, b, store[b], tr.ptrs[b])
    BY <1>1, Zenon DEF HeapSide, BlockInv
  <2>2. BlockOk(hook', b, store[b], tr.ptrs[b])
    BY <2>1, BlockAside, Zenon
  <2> QED BY <2>2, Zenon
<1>2. BlockInv'
  BY <1>1, Zenon DEF BlockInv
<1>3. UnresolvedInv'
  BY Zenon DEF HeapSide, UnresolvedInv, Moved
<1> QED BY <1>2, <1>3, Zenon DEF HeapSide

\* The caller goes on with the same event.
LEMMA HeapSame ==
    ASSUME HeapSide, UNCHANGED <<store, resolved>>, tr'.ptrs = tr.ptrs, astray \subseteq astray',
           NEW t \in Callers, NEW h, Moved(t, h), h.ev = hook[t].ev, h.after = hook[t].after,
           h.at # "after", hook[t].at # "after"
    PROVE  HeapSide'
<1>1. \A a : /\ Adds(h, a) <=> Adds(hook[t], a)
             /\ Drops(h, a) <=> Drops(hook[t], a)
             /\ Defers(h, a) <=> Defers(hook[t], a)
  BY Zenon DEF Adds, Drops, Defers
<1>2. ASSUME NEW u \in Callers, NEW a
      PROVE  (Touches(hook'[u], a) <=> Touches(hook[u], a)) /\ (Claims(hook'[u], a) <=> Claims(hook[u], a))
  BY <1>1, Zenon DEF Moved, Touches, Claims
<1>3. ASSUME NEW b \in Blocks, b \notin astray' PROVE BlockOk(hook', b, store'[b], tr'.ptrs[b])
  <2>1. BlockOk(hook, b, store[b], tr.ptrs[b])
    BY <1>3, Zenon DEF HeapSide, BlockInv
  <2>2. BlockRec(h, b, store[b], tr.ptrs[b])
    <3>1. BlockRec(hook[t], b, store[b], tr.ptrs[b])
      BY <2>1, Zenon DEF BlockOk
    <3> QED BY <1>1, <3>1, Zenon DEF BlockRec
  <2>3. \A u \in Callers : BlockRec(hook'[u], b, store[b], tr.ptrs[b])
    BY <2>1, <2>2, Zenon DEF BlockOk, Moved
  <2>4. BlockOk(hook', b, store[b], tr.ptrs[b])
    BY <1>2, <2>1, <2>3, Zenon DEF BlockOk
  <2> QED BY <2>4, Zenon
<1>4. BlockInv'
  BY <1>3, Zenon DEF BlockInv
<1>5. UnresolvedInv'
  BY <1>2, Zenon DEF HeapSide, UnresolvedInv
<1> QED BY <1>4, <1>5, Zenon DEF HeapSide

-----------------------------------------------------------------------------
\* A call of the malloc family: what is at a block, and what was, is one and
\* the same but for the blocks that the caller is then about.
LEMMA HeapCall ==
    ASSUME HeapSide, tr' = tr, astray \subseteq astray', DOMAIN store' = Blocks, resolved' = resolved, resolved,
           NEW t \in Callers, NEW h, Moved(t, h),
           \A b \in Blocks : b \notin astray' =>
               \/ /\ AloneWith(t, b) /\ BlockRec(h, b, store'[b], tr.ptrs[b])
                  /\ Touches(h, b) \/ tr.ptrs[b] = Told(store'[b])
               \/ ~Touches(hook[t], b) /\ ~Touches(h, b) /\ store'[b] = store[b]
    PROVE  HeapSide'
<1>1. ASSUME NEW b \in Blocks, b \notin astray' PROVE BlockOk(hook', b, store'[b], tr'.ptrs[b])
  <2>1. BlockOk(hook, b, store[b], tr.ptrs[b])
    BY <1>1, Zenon DEF HeapSide, BlockInv
  <2>2. CASE /\ AloneWith(t, b) /\ BlockRec(h, b, store'[b], tr.ptrs[b])
             /\ Touches(h, b) \/ tr.ptrs[b] = Told(store'[b])
    <3>1. BlockOk(hook', b, store'[b], tr.ptrs[b])
      BY <2>2, BlockTaken, Zenon
    <3> QED BY <3>1, Zenon
  <2>3. CASE ~Touches(hook[t], b) /\ ~Touches(h, b) /\ store'[b] = store[b]
    <3>1. BlockOk(hook', b, store[b], tr.ptrs[b])
      BY <2>1, <2>3, BlockAside, Zenon
    <3> QED BY <2>3, <3>1, Zenon
  <2> QED BY <1>1, <2>2, <2>3, Zenon
<1>2. BlockInv'
  BY <1>1, Zenon DEF BlockInv
<1>3. UnresolvedInv'
  BY Zenon DEF UnresolvedInv
<1> QED BY <1>2, <1>3, Zenon DEF HeapSide

\* The same for a call that is not traced.
LEMMA HeapUntraced ==
    ASSUME HeapSide, tr' = tr, astray \subseteq astray', DOMAIN store' = Blocks, hook' = hook,
           resolved' = resolved, resolved,
           \A b \in Blocks : b \notin astray' =>
               \/ (\A u \in Callers : ~Touches(hook[u], b)) /\ tr.ptrs[b] = Told(store'[b])
               \/ store'[b] = store[b]
    PROVE  HeapSide'
<1>1. ASSUME NEW b \in Blocks, b \notin astray' PROVE BlockOk(hook', b, store'[b], tr'.ptrs[b])
  <2>1. BlockOk(hook, b, store[b], tr.ptrs[b])
    BY <1>1, Zenon DEF HeapSide, BlockInv
  <2>2. CASE (\A u \in Callers : ~Touches(hook[u], b)) /\ tr.ptrs[b] = Told(store'[b])
    <3>1. BlockOk(hook, b, store'[b], tr.ptrs[b])
      BY <2>2, BlockIdle, Zenon
    <3> QED BY <3>1, Zenon
  <2>3. CASE store'[b] = store[b]
    BY <2>1, <2>3, Zenon
  <2> QED BY <1>1, <2>2, <2>3, Zenon
<1>2. BlockInv'
  BY <1>1, Zenon DEF BlockInv
<1>3. UnresolvedInv'
  BY Zenon DEF UnresolvedInv
<1> QED BY <1>2, <1>3, Zenon DEF HeapSide

LEMMA MallocHeap ==
    ASSUME HeapInv, HeapSide, NEW t \in Callers, HookOk(hook[t]), NEW b \in Blocks, NEW size, NEW frames,
           Malloc(t, b, size, frames)
    PROVE  HeapSide'
<1>1. \A a : ~Touches(hook[t], a)
  BY RestIs, Zenon DEF Malloc, Calls, HookAt
<1>2. store[b] = Vacant /\ resolved /\ resolved' = resolved /\ tr' = tr /\ DOMAIN store = Blocks
  BY Zenon DEF Malloc, Takes, HeapSide
<1>3. astray' = IF Pending(t, b) THEN astray \cup {b} ELSE astray
  BY Zenon DEF Malloc, Takes
<1>4. astray \subseteq astray' /\ (b \notin astray' => b \notin astray /\ ~Pending(t, b))
  BY <1>3, Zenon
<1>5. b \notin astray' => AloneWith(t, b)
  BY <1>2, <1>4, VacantAlone, Zenon DEF HeapSide
<1>6. CASE Traced(t)
  <2>1. PICK e : e = New(b, size, frames)
    BY Zenon
  <2>2. Feed(t, e, {}) /\ store' = [store EXCEPT ![b] = <<size, frames>>]
    BY <1>6, <2>1, Zenon DEF Malloc, Takes
  <2>3. PICK h : FedTo(t, e, {}, h)
    BY <2>2, FedIs, Zenon
  <2>4. PICK x : x = [ptr |-> b, size |-> size]
    BY Zenon
  <2>5. EvIs(e, {}, {}, {x}, frames, {}, {}) /\ x.ptr = b /\ x.size = size
    BY <2>1, <2>4, EventsAre, Zenon
  <2>6. h.ev.in = {x} /\ h.ev.out = {} /\ h.ev.stack = frames /\ h.after = {}
    BY <2>3, <2>5, Zenon DEF FedTo, EvIs
  <2>7. DOMAIN store' = Blocks /\ store'[b] = <<size, frames>> /\ \A c \in Blocks : c # b => store'[c] = store[c]
    BY <1>2, <2>2, Zenon
  <2>8. \A c : (Adds(h, c) <=> c = b) /\ ~Drops(h, c) /\ ~Defers(h, c)
    BY <2>5, <2>6, Zenon DEF Adds, Drops, Defers
  <2>9. BlockRec(h, b, store'[b], tr.ptrs[b])
    BY <2>5, <2>6, <2>7, <2>8, Zenon DEF BlockRec
  <2>10. ASSUME NEW c \in Blocks, c \notin astray'
         PROVE  \/ AloneWith(t, c) /\ BlockRec(h, c, store'[c], tr.ptrs[c]) /\ Touches(h, c)
                \/ ~Touches(hook[t], c) /\ ~Touches(h, c) /\ store'[c] = store[c]
    BY <1>1, <1>5, <2>7, <2>8, <2>9, <2>10, Zenon DEF Touches
  <2>11. Moved(t, h)
    BY <2>3, Zenon DEF FedTo
  <2> QED BY <1>2, <1>4, <2>7, <2>10, <2>11, HeapCall, Zenon
<1>7. CASE ~Traced(t)
  <2>1. hook' = hook /\ store' = [store EXCEPT ![b] = <<"untraced">>]
    BY <1>7, Zenon DEF Malloc, Takes
  <2>2. DOMAIN store' = Blocks /\ store'[b] = <<"untraced">> /\ \A c \in Blocks : c # b => store'[c] = store[c]
    BY <1>2, <2>1, Zenon
  <2>3. ASSUME b \notin astray' PROVE (\A u \in Callers : ~Touches(hook[u], b)) /\ tr.ptrs[b] = Told(store'[b])
    <3>1. \A u \in Callers : ~Touches(hook[u], b)
      BY <1>1, <1>5, <2>3, Zenon DEF AloneWith
    <3>2. BlockOk(hook, b, store[b], tr.ptrs[b])
      BY <1>4, <2>3, Zenon DEF HeapSide, BlockInv
    <3>3. tr.ptrs[b] = Told(store[b])
      BY <3>1, <3>2, Zenon DEF BlockOk
    <3> QED BY <1>2, <2>2, <3>1, <3>3, ToldIs, Zenon
  <2>4. ASSUME NEW c \in Blocks, c \notin astray'
        PROVE  \/ (\A u \in Callers : ~Touches(hook[u], c)) /\ tr.ptrs[c] = Told(store'[c])
               \/ store'[c] = store[c]
    BY <2>2, <2>3, <2>4, Zenon
  <2> QED BY <1>2, <1>4, <2>1, <2>2, <2>4, HeapUntraced, Zenon
<1> QED BY <1>6, <1>7, Zenon

LEMMA FreeBlockHeap ==
    ASSUME HeapInv, HeapSide, NEW t \in Callers, HookOk(hook[t]), NEW b \in HeapBlocks, FreeBlock(t, b)
    PROVE  HeapSide'
<1>0. b \in Blocks
  BY Zenon DEF Blocks
<1>1. \A a : ~Touches(hook[t], a)
  BY RestIs, Zenon DEF FreeBlock, Calls, HookAt
<1>2. Held(b) /\ store[b] # Vacant /\ resolved' = resolved /\ tr' = tr /\ DOMAIN store = Blocks
  BY Zenon DEF FreeBlock, HeapSide, Held
<1>3. resolved
  BY <1>0, <1>2, Zenon DEF HeapSide, UnresolvedInv
<1>4. b \notin astray => \A u \in Callers : ~Touches(hook[u], b)
  BY <1>0, <1>2, HeldAlone, Zenon DEF HeapSide
<1>5. CASE Traced(t)
  <2>1. PICK e : e = [NoEvent EXCEPT !.out = {b}]
    BY Zenon
  <2>2. Feed(t, e, {b}) /\ store' = store /\ astray' = astray
    BY <1>5, <2>1, Zenon DEF FreeBlock
  <2>3. PICK h : FedTo(t, e, {b}, h)
    BY <2>2, FedIs, Zenon
  <2>4. EvIs(e, {}, {b}, {}, <<>>, {}, {})
    BY <2>1, EventsAre, Zenon
  <2>5. h.ev.in = {} /\ h.ev.out = {b} /\ h.after = {b} /\ h.at # "after" /\ Moved(t, h)
    BY <2>3, <2>4, Zenon DEF FedTo, EvIs
  <2>6. \A c : ~Adds(h, c) /\ (Drops(h, c) <=> c = b) /\ (Defers(h, c) <=> c = b)
    BY <2>5, Zenon DEF Adds, Drops, Defers
  <2>7. BlockRec(h, b, store'[b], tr.ptrs[b])
    <3>1. h.ev.late = {}
      BY <2>3, <2>4, Zenon DEF FedTo, EvIs
    <3> QED BY <1>2, <2>2, <2>5, <2>6, <3>1, Zenon DEF BlockRec
  <2>8. ASSUME NEW c \in Blocks, c \notin astray'
        PROVE  \/ AloneWith(t, c) /\ BlockRec(h, c, store'[c], tr.ptrs[c]) /\ Touches(h, c)
               \/ ~Touches(hook[t], c) /\ ~Touches(h, c) /\ store'[c] = store[c]
    BY <1>1, <1>4, <2>2, <2>6, <2>7, <2>8, Zenon DEF Touches, AloneWith
  <2>9. DOMAIN store' = Blocks /\ astray \subseteq astray'
    BY <1>2, <2>2, Zenon
  <2> QED BY <1>2, <1>3, <2>5, <2>8, <2>9, HeapCall, Zenon
<1>6. CASE ~Traced(t)
  <2>1. /\ hook' = hook /\ store' = [store EXCEPT ![b] = Vacant]
        /\ astray' = astray \cup ({b} \ {c \in Blocks : tr.ptrs[c] = Vacant})
    BY <1>6, Zenon DEF FreeBlock, Releases
  <2>2. DOMAIN store' = Blocks /\ store'[b] = Vacant /\ \A c \in Blocks : c # b => store'[c] = store[c]
    BY <1>0, <1>2, <2>1, Zenon
  <2>3. astray \subseteq astray' /\ (b \notin astray' => b \notin astray /\ tr.ptrs[b] = Vacant)
    BY <2>1, Zenon
  <2>4. ASSUME NEW c \in Blocks, c \notin astray'
        PROVE  \/ (\A u \in Callers : ~Touches(hook[u], c)) /\ tr.ptrs[c] = Told(store'[c])
               \/ store'[c] = store[c]
    BY <1>4, <2>2, <2>3, <2>4, ToldIs, Zenon
  <2> QED BY <1>2, <1>3, <2>1, <2>2, <2>3, <2>4, HeapUntraced, Zenon
<1> QED BY <1>5, <1>6, Zenon

\* Inside a dlopen: what had a record is astray, what has none needs none.
LEMMA ReallocUnfedHeap ==
    ASSUME HeapInv, HeapSide, NEW t \in Callers, HookOk(hook[t]), NEW b \in Blocks, NEW to \in HeapBlocks,
           ReallocUnfed(t, b, to)
    PROVE  HeapSide'
<1>0. to \in Blocks
  BY Zenon DEF Blocks
<1>1. \A a : ~Touches(hook[t], a)
  BY RestIs, Zenon DEF ReallocUnfed, Calls, HookAt
<1>2. /\ Held(b) /\ store[b] # Vacant /\ resolved /\ resolved' = resolved /\ tr' = tr /\ hook' = hook
      /\ DOMAIN store = Blocks
  BY Zenon DEF ReallocUnfed, HeapSide, Held
<1>3. astray' = astray \cup {c \in {b} : tr.ptrs[c] # Vacant} \cup {c \in {to} : Pending(t, c)}
  BY Zenon DEF ReallocUnfed
<1>4. /\ astray \subseteq astray'
      /\ b \notin astray' => b \notin astray /\ tr.ptrs[b] = Vacant
      /\ to \notin astray' => to \notin astray /\ ~Pending(t, to)
  BY <1>3, Zenon
<1>5. b \notin astray' => \A u \in Callers : ~Touches(hook[u], b)
  BY <1>2, <1>4, HeldAlone, Zenon DEF HeapSide
<1>6. to \notin astray' /\ store[to] = Vacant => AloneWith(t, to)
  BY <1>0, <1>4, VacantAlone, Zenon DEF HeapSide
<1>7. ASSUME to \notin astray', store[to] = Vacant
      PROVE  (\A u \in Callers : ~Touches(hook[u], to)) /\ tr.ptrs[to] = Vacant
  <2>1. \A u \in Callers : ~Touches(hook[u], to)
    BY <1>1, <1>6, <1>7, Zenon DEF AloneWith
  <2>2. BlockOk(hook, to, store[to], tr.ptrs[to])
    BY <1>0, <1>4, <1>7, Zenon DEF HeapSide, BlockInv
  <2>3. tr.ptrs[to] = Told(store[to])
    BY <2>1, <2>2, Zenon DEF BlockOk
  <2> QED BY <1>7, <2>1, <2>3, ToldIs, Zenon
<1>8. /\ DOMAIN store' = Blocks
      /\ \A c \in Blocks : c # b /\ c # to => store'[c] = store[c]
      /\ store'[b] \in {Vacant, <<"untraced">>} \/ (store'[b] = store[b] /\ b # to)
      /\ store'[to] \in {Vacant, <<"untraced">>}
      /\ to = b \/ store[to] = Vacant
  <2>1. CASE /\ to = b \/ store[to] = Vacant
             /\ store' = [store EXCEPT ![b] = Vacant, ![to] = <<"untraced">>]
    <3>1. /\ DOMAIN store' = Blocks /\ store'[to] = <<"untraced">>
          /\ \A c \in Blocks : c # b /\ c # to => store'[c] = store[c]
      BY <1>0, <1>2, <2>1, Zenon
    <3>2. b # to => store'[b] = Vacant
      BY <1>0, <1>2, <2>1, Zenon
    <3> QED BY <2>1, <3>1, <3>2, Zenon
  <2>2. CASE to = b /\ store' = [store EXCEPT ![b] = Vacant]
    BY <1>0, <1>2, <2>2, Zenon
  <2>3. CASE store[to] = Vacant /\ store' = [store EXCEPT ![to] = <<"untraced">>]
    BY <1>0, <1>2, <2>3, Zenon
  <2> QED BY <2>1, <2>2, <2>3, Zenon DEF ReallocUnfed, Releases
<1>9. ASSUME NEW c \in Blocks, c \notin astray'
      PROVE  \/ (\A u \in Callers : ~Touches(hook[u], c)) /\ tr.ptrs[c] = Told(store'[c])
             \/ store'[c] = store[c]
  <2>1. CASE c = b
    <3>1. CASE store'[b] \in {Vacant, <<"untraced">>}
      <4>1. store'[b] = Vacant \/ store'[b] = <<"untraced">>
        BY <3>1, Zenon
      <4>2. Told(store'[b]) = Vacant
        BY <4>1, ToldIs, Zenon
      <4> QED BY <1>4, <1>5, <1>9, <2>1, <4>2, Zenon
    <3>2. CASE store'[b] = store[b]
      BY <2>1, <3>2, Zenon
    <3> QED BY <1>8, <3>1, <3>2, Zenon
  <2>2. CASE c = to /\ c # b
    <3>1. store'[to] = Vacant \/ store'[to] = <<"untraced">>
      BY <1>8, Zenon
    <3>2. Told(store'[to]) = Vacant
      BY <3>1, ToldIs, Zenon
    <3> QED BY <1>7, <1>8, <1>9, <2>2, <3>2, Zenon
  <2>3. CASE c # to /\ c # b
    BY <1>8, <2>3, Zenon
  <2> QED BY <2>1, <2>2, <2>3, Zenon
<1> QED BY <1>2, <1>4, <1>8, <1>9, HeapUntraced, Zenon

\* The router takes a block back, from a caller that is about nothing else.
LEMMA FreeRoutedHeap ==
    ASSUME HeapInv, HeapSide, NEW t \in Callers, NEW b \in Blocks, FreeRouted(t, b),
           \A a : Touches(hook[t], a) => a = b, b \notin astray => AloneWith(t, b)
    PROVE  HeapSide'
<1>1. /\ store[b] # Vacant /\ store' = [store EXCEPT ![b] = Vacant] /\ resolved' = resolved /\ tr' = tr
      /\ astray' = astray /\ DOMAIN store = Blocks
  BY Zenon DEF FreeRouted, Releases, HeapSide
<1>2. resolved
  BY <1>1, Zenon DEF HeapSide, UnresolvedInv
<1>3. PICK e : e = [NoEvent EXCEPT !.out = {b}, !.late = {b}]
  BY Zenon
<1>4. Feed(t, e, {})
  BY <1>3, Zenon DEF FreeRouted
<1>5. PICK h : FedTo(t, e, {}, h)
  BY <1>4, FedIs, Zenon
<1>6. EvIs(e, {b}, {b}, {}, <<>>, {}, {})
  BY <1>3, EventsAre, Zenon
<1>7. h.ev.in = {} /\ h.ev.out = {b} /\ h.ev.late = {b} /\ h.after = {} /\ Moved(t, h)
  BY <1>5, <1>6, Zenon DEF FedTo, EvIs
<1>8. \A c : ~Adds(h, c) /\ (Drops(h, c) <=> c = b) /\ ~Defers(h, c)
  BY <1>7, Zenon DEF Adds, Drops, Defers
<1>9. DOMAIN store' = Blocks /\ store'[b] = Vacant /\ \A c \in Blocks : c # b => store'[c] = store[c]
  BY <1>1, Zenon
<1>10. BlockRec(h, b, store'[b], tr.ptrs[b])
  BY <1>7, <1>8, <1>9, Zenon DEF BlockRec
<1>11. ASSUME NEW c \in Blocks, c \notin astray'
       PROVE  \/ AloneWith(t, c) /\ BlockRec(h, c, store'[c], tr.ptrs[c]) /\ Touches(h, c)
              \/ ~Touches(hook[t], c) /\ ~Touches(h, c) /\ store'[c] = store[c]
  BY <1>1, <1>8, <1>9, <1>10, <1>11, Zenon DEF Touches
<1> QED BY <1>1, <1>2, <1>7, <1>9, <1>11, HeapCall, Zenon

LEMMA GuestFreesHeap ==
    ASSUME HeapInv, HeapSide, NEW t \in Callers, HookOk(hook[t]), NEW b \in ArenaBlocks, GuestFreesRouted(t, b)
    PROVE  HeapSide'
<1>0. b \in Blocks
  BY Zenon DEF Blocks
<1>1. \A a : ~Touches(hook[t], a)
  BY RestIs, Zenon DEF GuestFreesRouted, Calls, HookAt
<1>2. Held(b) /\ FreeRouted(t, b)
  BY Zenon DEF GuestFreesRouted
<1>3. b \notin astray => AloneWith(t, b)
  BY <1>0, <1>2, HeldAlone, Zenon DEF HeapSide, AloneWith
<1> QED BY <1>0, <1>1, <1>2, <1>3, FreeRoutedHeap, Zenon

\* What is left of a free or of a routed realloc.
LEMMA AfterHeap ==
    ASSUME HeapInv, HeapSide, NEW t \in Callers, HookOk(hook[t]), After(t)
    PROVE  HeapSide'
<1>1. hook[t].at = "after"
  BY Zenon DEF After, HookAt
<1>2. hook[t].after # {} /\ hook[t].after \subseteq Blocks /\ hook[t].ev = NoEvent
  BY <1>1, Zenon DEF HookOk
<1>3. PICK b : b = CHOOSE x \in hook[t].after : TRUE
  BY Zenon
<1>4. b \in hook[t].after /\ b \in Blocks /\ \A x \in hook[t].after : x = b
  BY <1>2, <1>3, Zenon DEF HookOk
<1>5. NoEvent.in = {} /\ NoEvent.out = {}
  BY DEF NoEvent
<1>6. \A a : ~Adds(hook[t], a) /\ ~Drops(hook[t], a) /\ (Defers(hook[t], a) <=> a = b)
  BY <1>2, <1>4, <1>5, Zenon DEF Adds, Drops, Defers
<1>7. Claims(hook[t], b) /\ \A a : Touches(hook[t], a) => a = b
  BY <1>6, Zenon DEF Touches, Claims
<1>8. b \notin astray => BlockOk(hook, b, store[b], tr.ptrs[b])
  BY <1>4, Zenon DEF HeapSide, BlockInv
<1>9. b \notin astray => AloneWith(t, b)
  BY <1>7, <1>8, Zenon DEF BlockOk, AloneWith
<1>10. CASE b \in ArenaBlocks
  <2>1. FreeRouted(t, b)
    BY <1>3, <1>10, Zenon DEF After
  <2> QED BY <1>4, <1>7, <1>9, <2>1, FreeRoutedHeap, Zenon
<1>11. CASE b \notin ArenaBlocks
  <2>1. PICK h : h = [hook[t] EXCEPT !.at = "guest", !.after = {}]
    BY Zenon
  <2>2. /\ store' = [store EXCEPT ![b] = Vacant] /\ HookIs(t, h) /\ resolved' = resolved /\ tr' = tr
        /\ astray' = astray /\ DOMAIN store = Blocks
    BY <1>3, <1>11, <2>1, Zenon DEF After, Releases, HeapSide
  <2>3. DOMAIN hook[t] = {"at", "ev", "needs", "after", "dl"}
    BY Zenon DEF HeapInv, Hook
  <2>4. h.ev = hook[t].ev /\ h.after = {}
    BY <2>1, <2>3
  <2>5. \A a : ~Touches(h, a)
    BY <1>2, <1>5, <2>4, Zenon DEF Touches, Adds, Drops, Defers
  <2>6. Moved(t, h)
    BY <2>2, MovedIs, Zenon
  <2>7. DOMAIN store' = Blocks /\ store'[b] = Vacant /\ \A c \in Blocks : c # b => store'[c] = store[c]
    BY <1>4, <2>2, Zenon
  <2>8. b \notin astray => tr.ptrs[b] = Vacant
    <3>1. b \notin astray => BlockRec(hook[t], b, store[b], tr.ptrs[b])
      BY <1>8, Zenon DEF BlockOk
    <3> QED BY <1>1, <1>6, <1>11, <3>1, Zenon DEF BlockRec
  <2>9. ASSUME NEW c \in Blocks, c \notin astray'
        PROVE  \/ AloneWith(t, c) /\ BlockRec(h, c, store'[c], tr.ptrs[c]) /\ tr.ptrs[c] = Told(store'[c])
               \/ ~Touches(hook[t], c) /\ ~Touches(h, c) /\ store'[c] = store[c]
    <3>1. CASE c = b
      BY <1>9, <2>2, <2>5, <2>7, <2>8, <2>9, <3>1, NotTouched, ToldIs, Zenon
    <3>2. CASE c # b
      BY <1>7, <2>5, <2>7, <3>2, Zenon
    <3> QED BY <3>1, <3>2, Zenon
  <2>10. resolved
    BY <1>4, <1>7, Zenon DEF HeapSide, UnresolvedInv, Touches, Claims
  <2> QED BY <2>2, <2>6, <2>7, <2>9, <2>10, HeapCall, Zenon
<1> QED BY <1>10, <1>11, Zenon

LEMMA ReallocHeap ==
    ASSUME HeapInv, HeapSide, NEW t \in Callers, HookOk(hook[t]), NEW b \in Blocks, NEW to \in HeapBlocks,
           NEW size, NEW frames, Realloc(t, b, to, size, frames)
    PROVE  HeapSide'
<1>0. to \in Blocks
  BY Zenon DEF Blocks
<1>1. \A a : ~Touches(hook[t], a)
  BY RestIs, Zenon DEF Realloc, Calls, HookAt
<1>2. /\ Held(b) /\ store[b] # Vacant /\ resolved /\ resolved' = resolved /\ tr' = tr /\ DOMAIN store = Blocks
      /\ hook[t].dl = "none"
  BY Zenon DEF Realloc, HeapSide, Held
<1>3. b \notin astray => AloneWith(t, b)
  BY <1>2, HeldAlone, Zenon DEF HeapSide, AloneWith
<1>4. PICK x : x = [ptr |-> to, size |-> size]
  BY Zenon
<1>5. x.ptr = to /\ x.size = size
  BY <1>4, Zenon
<1>6. CASE /\ b \in HeapBlocks /\ (to = b \/ store[to] = Vacant)
           /\ store' = [store EXCEPT ![b] = Vacant, ![to] = <<size, frames>>]
           /\ astray' = IF Pending(t, to) THEN astray \cup {to} ELSE astray
           /\ Feed(t, [New(to, size, frames) EXCEPT !.out = {b}, !.late = {b}], {})
  <2>1. PICK e : e = [New(to, size, frames) EXCEPT !.out = {b}, !.late = {b}]
    BY Zenon
  <2>2. PICK h : FedTo(t, e, {}, h)
    BY <1>6, <2>1, FedIs, Zenon
  <2>3. EvIs(e, {b}, {b}, {x}, frames, {}, {})
    BY <1>4, <2>1, EventsAre, Zenon
  <2>4. /\ h.ev.in = {x} /\ h.ev.out = {b} /\ h.ev.late = {b} /\ h.ev.stack = frames /\ h.after = {}
        /\ Moved(t, h)
    BY <2>2, <2>3, Zenon DEF FedTo, EvIs
  <2>5. \A c : (Adds(h, c) <=> c = to) /\ (Drops(h, c) <=> c = b) /\ ~Defers(h, c)
    BY <1>5, <2>4, Zenon DEF Adds, Drops, Defers
  <2>6. PICK f : f = [store EXCEPT ![b] = Vacant]
    BY Zenon
  <2>7. store' = [f EXCEPT ![to] = <<size, frames>>]
    BY <1>6, <2>6, Zenon
  <2>8. DOMAIN f = Blocks /\ f[b] = Vacant /\ \A c \in Blocks : c # b => f[c] = store[c]
    BY <1>2, <2>6, Zenon
  <2>9. DOMAIN store' = Blocks /\ store'[to] = <<size, frames>> /\ \A c \in Blocks : c # to => store'[c] = f[c]
    BY <1>0, <2>7, <2>8, Zenon
  <2>10. astray \subseteq astray' /\ (to \notin astray' => to \notin astray /\ ~Pending(t, to))
    BY <1>6, Zenon
  <2>11. to \notin astray' => AloneWith(t, to)
    BY <1>0, <1>3, <1>6, <2>10, VacantAlone, Zenon DEF HeapSide
  <2>12. BlockRec(h, to, store'[to], tr.ptrs[to])
    BY <1>5, <2>4, <2>5, <2>9, Zenon DEF BlockRec
  <2>13. b # to => store'[b] = Vacant
    BY <2>8, <2>9, Zenon
  <2>14. b # to => BlockRec(h, b, store'[b], tr.ptrs[b])
    BY <1>5, <2>4, <2>5, <2>13, Zenon DEF BlockRec
  <2>15. ASSUME NEW c \in Blocks, c \notin astray'
         PROVE  \/ AloneWith(t, c) /\ BlockRec(h, c, store'[c], tr.ptrs[c]) /\ Touches(h, c)
                \/ ~Touches(hook[t], c) /\ ~Touches(h, c) /\ store'[c] = store[c]
    <3>1. CASE c = to
      BY <2>5, <2>11, <2>12, <2>15, <3>1, Zenon DEF Touches
    <3>2. CASE c = b /\ c # to
      BY <1>3, <2>5, <2>10, <2>14, <2>15, <3>2, Zenon DEF Touches
    <3>3. CASE c # b /\ c # to
      BY <1>1, <2>5, <2>8, <2>9, <3>3, Zenon DEF Touches
    <3> QED BY <3>1, <3>2, <3>3, Zenon
  <2>16. /\ Moved(t, h) /\ tr' = tr /\ astray \subseteq astray'
         /\ DOMAIN store' = Blocks /\ resolved' = resolved /\ resolved
    BY <1>2, <2>4, <2>9, <2>10, Zenon
  <2>17. ASSUME NEW c \in Blocks, c \notin astray'
         PROVE  \/ /\ AloneWith(t, c) /\ BlockRec(h, c, store'[c], tr.ptrs[c])
                   /\ Touches(h, c) \/ tr.ptrs[c] = Told(store'[c])
                \/ ~Touches(hook[t], c) /\ ~Touches(h, c) /\ store'[c] = store[c]
    BY <2>15, <2>17, Zenon
  <2> QED BY <2>16, <2>17, HeapCall, Zenon
<1>7. CASE /\ Releases(b) /\ UNCHANGED astray
           /\ Feed(t, [NoEvent EXCEPT !.out = {b}, !.late = {b}], {})
  <2>1. FreeRouted(t, b)
    BY <1>2, <1>7, Zenon DEF FreeRouted, Realloc
  <2> QED BY <1>1, <1>3, <2>1, FreeRoutedHeap, Zenon
<1>8. CASE /\ b \in ArenaBlocks \cup BootBlocks /\ Takes(t, to, size, frames)
           /\ Feed(t, New(to, size, frames), {b} \ BootBlocks)
  <2>1. PICK e, after : e = New(to, size, frames) /\ after = {b} \ BootBlocks
    BY Zenon
  <2>2. PICK h : FedTo(t, e, after, h)
    BY <1>8, <2>1, FedIs, Zenon
  <2>3. EvIs(e, {}, {}, {x}, frames, {}, {})
    BY <1>4, <2>1, EventsAre, Zenon
  <2>4. h.ev.in = {x} /\ h.ev.out = {} /\ h.ev.stack = frames /\ h.after = {b} \ BootBlocks /\ Moved(t, h)
    BY <2>1, <2>2, <2>3, Zenon DEF FedTo, EvIs
  <2>5. "none" # "open"
    OBVIOUS
  <2>6. Traced(t)
    BY <1>2, <2>5, Zenon DEF Traced
  <2>7. /\ store[to] = Vacant /\ store' = [store EXCEPT ![to] = <<size, frames>>]
        /\ astray' = IF Pending(t, to) THEN astray \cup {to} ELSE astray
    BY <1>8, <2>6, Zenon DEF Takes
  <2>8. to # b
    BY <1>2, <2>7, Zenon
  <2>9. \A c : (Adds(h, c) <=> c = to) /\ ~Drops(h, c) /\ (Defers(h, c) <=> c = b /\ b \notin BootBlocks)
    BY <1>5, <2>4, Zenon DEF Adds, Drops, Defers
  <2>10. DOMAIN store' = Blocks /\ store'[to] = <<size, frames>> /\ \A c \in Blocks : c # to => store'[c] = store[c]
    BY <1>0, <1>2, <2>7, Zenon
  <2>11. astray \subseteq astray' /\ (to \notin astray' => to \notin astray /\ ~Pending(t, to))
    BY <2>7, Zenon
  <2>12. to \notin astray' => AloneWith(t, to)
    BY <1>0, <2>7, <2>11, VacantAlone, Zenon DEF HeapSide
  <2>13. BlockRec(h, to, store'[to], tr.ptrs[to])
    BY <1>5, <2>4, <2>8, <2>9, <2>10, Zenon DEF BlockRec
  <2>14. store'[b] = store[b]
    BY <2>8, <2>10, Zenon
  <2>15. Defers(h, b) => b \in ArenaBlocks
    BY <1>8, <2>9, Zenon
  <2>16. BlockRec(h, b, store'[b], tr.ptrs[b])
    <3>1. ~Adds(h, b) /\ ~Drops(h, b)
      BY <2>8, <2>9, Zenon
    <3>2. \A y \in h.ev.in : y.ptr # b
      BY <3>1, Zenon DEF Adds
    <3> QED BY <1>2, <2>14, <2>15, <3>1, <3>2, Zenon DEF BlockRec
  <2>17. ASSUME NEW c \in Blocks, c \notin astray'
         PROVE  \/ AloneWith(t, c) /\ BlockRec(h, c, store'[c], tr.ptrs[c]) /\ Touches(h, c)
                \/ ~Touches(hook[t], c) /\ ~Touches(h, c) /\ store'[c] = store[c]
    <3>1. CASE c = to
      BY <2>9, <2>12, <2>13, <2>17, <3>1, Zenon DEF Touches
    <3>2. CASE c = b /\ Defers(h, b)
      BY <1>3, <2>11, <2>16, <2>17, <3>2, Zenon DEF Touches
    <3>3. CASE c # to /\ ~(c = b /\ Defers(h, b))
      BY <1>1, <2>9, <2>10, <3>3, Zenon DEF Touches
    <3> QED BY <3>1, <3>2, <3>3, Zenon
  <2>18. /\ Moved(t, h) /\ tr' = tr /\ astray \subseteq astray'
         /\ DOMAIN store' = Blocks /\ resolved' = resolved /\ resolved
    BY <1>2, <2>4, <2>10, <2>11, Zenon
  <2>19. ASSUME NEW c \in Blocks, c \notin astray'
         PROVE  \/ /\ AloneWith(t, c) /\ BlockRec(h, c, store'[c], tr.ptrs[c])
                   /\ Touches(h, c) \/ tr.ptrs[c] = Told(store'[c])
                \/ ~Touches(hook[t], c) /\ ~Touches(h, c) /\ store'[c] = store[c]
    BY <2>17, <2>19, Zenon
  <2> QED BY <2>18, <2>19, HeapCall, Zenon
<1> QED BY <1>6, <1>7, <1>8, Zenon DEF Realloc

\* dlsym's own allocations, before anything else.
LEMMA ResolveHeap ==
    ASSUME HeapSide, NEW t \in Callers, HResolve(t)
    PROVE  HeapSide'
<1>1. PICK own \in SUBSET BootBlocks : store' = [b \in Blocks |-> IF b \in own THEN <<"boot">> ELSE store[b]]
  BY Zenon DEF HResolve
<1>2. ~resolved /\ resolved' = TRUE /\ tr' = tr /\ hook' = hook /\ astray' = astray
  BY Zenon DEF HResolve
<1>3. \A b \in Blocks : store[b] = Vacant /\ \A u \in Callers : ~Touches(hook[u], b)
  BY <1>2, Zenon DEF HeapSide, UnresolvedInv
<1>4. ASSUME NEW b \in Blocks, b \notin astray PROVE BlockOk(hook, b, store'[b], tr.ptrs[b])
  <2>1. BlockOk(hook, b, store[b], tr.ptrs[b])
    BY <1>4, Zenon DEF HeapSide, BlockInv
  <2>2. tr.ptrs[b] = Vacant
    BY <1>3, <2>1, ToldIs, Zenon DEF BlockOk
  <2>3. store'[b] = <<"boot">> \/ store'[b] = Vacant
    BY <1>1, <1>3, Zenon
  <2>4. tr.ptrs[b] = Told(store'[b])
    BY <2>2, <2>3, ToldIs, Zenon
  <2> QED BY <1>3, <2>4, BlockIdle, Zenon
<1>5. BlockInv'
  BY <1>2, <1>4, Zenon DEF BlockInv
<1>6. UnresolvedInv'
  BY <1>2, Zenon DEF UnresolvedInv
<1>7. DOMAIN store' = Blocks
  BY <1>1, Zenon
<1> QED BY <1>5, <1>6, <1>7, Zenon DEF HeapSide

\* What a caller goes on to when its event is recorded.
LEMMA RecordMoves ==
    ASSUME HeapInv, NEW t \in Callers, RecordEvent(t)
    PROVE  \E h : /\ Moved(t, h) /\ h.ev = NoEvent /\ h.after = hook[t].after
                  /\ h.at = IF hook[t].after = {} THEN "guest" ELSE "after"
<1>1. PICK at : at = IF hook[t].after = {} THEN "guest" ELSE "after"
  BY Zenon
<1>2. PICK h : h = [Resting EXCEPT !.at = at, !.after = hook[t].after, !.dl = hook[t].dl]
  BY Zenon
<1>3. HookIs(t, h)
  BY <1>1, <1>2, Zenon DEF RecordEvent
<1>4. h.ev = NoEvent /\ h.after = hook[t].after /\ h.at = at
  BY <1>2 DEF Resting
<1>5. Moved(t, h)
  BY <1>3, MovedIs, Zenon
<1> QED BY <1>1, <1>4, <1>5, Zenon

LEMMA RecordHeap ==
    ASSUME HeapInv, HeapSide, NEW t \in Callers, HookOk(hook[t]), RecordEvent(t), Records(tr, hook[t].ev, tr')
    PROVE  HeapSide'
<1> DEFINE was == hook[t]
<1>1. PICK h : /\ Moved(t, h) /\ h.ev = NoEvent /\ h.after = was.after
               /\ h.at = IF was.after = {} THEN "guest" ELSE "after"
  BY RecordMoves, Zenon
<1>2. /\ was.at = "record" /\ UNCHANGED <<store, astray, resolved>>
  BY Zenon DEF RecordEvent, HookAt
<1>3. NoEvent.in = {} /\ NoEvent.out = {}
  BY DEF NoEvent
<1>4. \A a : ~Adds(h, a) /\ ~Drops(h, a) /\ (Defers(h, a) <=> Defers(was, a))
  BY <1>1, <1>3, Zenon DEF Adds, Drops, Defers
<1>5. \A a : Defers(was, a) => h.at = "after"
  BY <1>1, Zenon DEF Defers
<1>6. was.at # "after"
  BY <1>2
<1> HIDE DEF was
<1>7. ASSUME NEW b \in Blocks, b \notin astray PROVE BlockOk(hook', b, store[b], tr'.ptrs[b])
  <2>1. BlockOk(hook, b, store[b], tr.ptrs[b])
    BY <1>7, Zenon DEF HeapSide, BlockInv
  <2>2. BlockRec(was, b, store[b], tr.ptrs[b])
    BY <2>1, Zenon DEF BlockOk, was
  <2>3. Claims(was, b) => AloneWith(t, b)
    BY <2>1, Zenon DEF BlockOk, AloneWith, was
  <2>4. CASE Adds(was, b)
    <3>1. PICK x \in was.ev.in : x.ptr = b
      BY <2>4, Zenon DEF Adds
    <3>2. store[b] = <<x.size, was.ev.stack>>
      BY <2>2, <3>1, Zenon DEF BlockRec
    <3>3. tr'.ptrs[b] = <<x.size, was.ev.stack>>
      BY <3>1, Zenon DEF Records, was
    <3>4. tr'.ptrs[b] = Told(store[b])
      BY <3>2, <3>3, ToldIs, Zenon
    <3>5. ~Defers(was, b)
      BY <2>2, <2>4, Zenon DEF BlockRec
    <3>6. ~Touches(h, b)
      BY <1>4, <3>5, Zenon DEF Touches
    <3>7. BlockRec(h, b, store[b], tr'.ptrs[b]) /\ AloneWith(t, b)
      BY <2>3, <2>4, <3>6, NotTouched, Zenon DEF Claims
    <3> QED BY <1>1, <3>4, <3>7, BlockTaken, Zenon
  <2>5. CASE ~Adds(was, b) /\ Defers(was, b)
    <3>1. \A x \in was.ev.in : x.ptr # b
      BY <2>5, Zenon DEF Adds
    <3>2. tr'.ptrs[b] = IF b \in was.ev.out THEN Vacant ELSE tr.ptrs[b]
      BY <3>1, Zenon DEF Records, was
    <3>3. store[b] # Vacant /\ (b \notin ArenaBlocks => Drops(was, b))
      BY <1>6, <2>2, <2>5, Zenon DEF BlockRec
    <3>4. b \notin ArenaBlocks => tr'.ptrs[b] = Vacant
      BY <3>2, <3>3, Zenon DEF Drops
    <3>5. \A x \in h.ev.in : x.ptr # b
      BY <1>4, Zenon DEF Adds
    <3>6. BlockRec(h, b, store[b], tr'.ptrs[b])
      BY <1>4, <1>5, <2>5, <3>3, <3>4, <3>5, Zenon DEF BlockRec
    <3>7. AloneWith(t, b) /\ Touches(h, b)
      BY <1>4, <2>3, <2>5, Zenon DEF Claims, Touches
    <3> QED BY <1>1, <3>6, <3>7, BlockTaken, Zenon
  <2>6. CASE ~Adds(was, b) /\ ~Defers(was, b)
    <3>1. \A x \in was.ev.in : x.ptr # b
      BY <2>6, Zenon DEF Adds
    <3>2. tr'.ptrs[b] = IF b \in was.ev.out THEN Vacant ELSE tr.ptrs[b]
      BY <3>1, Zenon DEF Records, was
    <3>3. ~Touches(h, b)
      BY <1>4, <2>6, Zenon DEF Touches
    <3>4. CASE Drops(was, b)
      <4>1. store[b] = Vacant /\ tr'.ptrs[b] = Vacant
        BY <2>2, <2>6, <3>2, <3>4, Zenon DEF BlockRec, Drops
      <4>2. ASSUME NEW u \in Callers PROVE ~Claims(hook'[u], b) /\ BlockRec(hook'[u], b, store[b], tr'.ptrs[b])
        <5>1. CASE u = t
          BY <1>1, <3>3, <5>1, NotTouched, Zenon DEF Moved, Touches, Claims
        <5>2. CASE u # t
          <6>1. hook'[u] = hook[u] /\ BlockRec(hook[u], b, store[b], tr.ptrs[b])
            BY <1>1, <2>1, <5>2, Zenon DEF Moved, BlockOk
          <6>2. ~Claims(hook[u], b)
            BY <2>1, <3>4, <5>2, Zenon DEF BlockOk, Touches, was
          <6>3. ~Defers(hook[u], b)
            BY <6>2, Zenon DEF Claims
          <6>4. BlockRec(hook[u], b, store[b], tr'.ptrs[b])
            BY <6>1, <6>3, Zenon DEF BlockRec
          <6> QED BY <6>1, <6>2, <6>4, Zenon
        <5> QED BY <5>1, <5>2, Zenon
      <4> QED BY <4>1, <4>2, ToldIs, Zenon DEF BlockOk
    <3>5. CASE ~Drops(was, b)
      <4>1. tr'.ptrs[b] = tr.ptrs[b] /\ ~Touches(was, b)
        BY <2>6, <3>2, <3>5, Zenon DEF Drops, Touches
      <4>2. BlockOk(hook', b, store[b], tr.ptrs[b])
        BY <1>1, <2>1, <3>3, <4>1, BlockAside, Zenon DEF was
      <4> QED BY <4>1, <4>2, Zenon
    <3> QED BY <3>4, <3>5, Zenon
  <2> QED BY <2>4, <2>5, <2>6, Zenon
<1>8. BlockInv'
  BY <1>2, <1>7, Zenon DEF BlockInv
<1>9. UnresolvedInv'
  <2>1. ASSUME NEW u \in Callers, NEW a, Touches(hook'[u], a) PROVE Touches(hook[u], a)
    <3>1. CASE u = t
      BY <1>1, <1>4, <2>1, <3>1, Zenon DEF Touches, Moved, was
    <3>2. CASE u # t
      BY <1>1, <2>1, <3>2, Zenon DEF Moved
    <3> QED BY <3>1, <3>2, Zenon
  <2> QED BY <1>2, <2>1, Zenon DEF HeapSide, UnresolvedInv
<1> QED BY <1>2, <1>8, <1>9, Zenon DEF HeapSide

-----------------------------------------------------------------------------
\* The pages, in the same way.
LEMMA NotHandled == ASSUME NEW h, NEW p, NEW k, NEW tags, ~Handles(h, p) PROVE PageRec(h, p, k, tags)
BY Zenon DEF Handles, PageRec, Maps

AloneAt(t, p) == \A u \in Callers : u # t => ~Handles(hook[u], p)

LEMMA PageAside ==
    ASSUME NEW t \in Callers, NEW h, Moved(t, h), NEW p, NEW k, NEW tags, PageOk(hook, p, k, tags),
           ~Handles(hook[t], p), ~Handles(h, p)
    PROVE  PageOk(hook', p, k, tags)
<1>1. ASSUME NEW u \in Callers PROVE PageRec(hook'[u], p, k, tags) /\ (Handles(hook'[u], p) <=> Handles(hook[u], p))
  <2>1. CASE u = t
    BY <2>1, NotHandled, Zenon DEF Moved
  <2>2. CASE u # t
    BY <2>2, Zenon DEF Moved, PageOk
  <2> QED BY <2>1, <2>2, Zenon
<1> QED BY <1>1, Zenon DEF PageOk

LEMMA PageTaken ==
    ASSUME NEW t \in Callers, NEW h, Moved(t, h), NEW p, NEW k, NEW tags, AloneAt(t, p),
           PageRec(h, p, k, tags), Handles(h, p) \/ tags = {k} \ {"free", "file"}
    PROVE  PageOk(hook', p, k, tags)
<1>1. ASSUME NEW u \in Callers, u # t PROVE ~Handles(hook'[u], p)
  BY <1>1, Zenon DEF Moved, AloneAt
<1>2. \A u \in Callers : PageRec(hook'[u], p, k, tags)
  BY <1>1, NotHandled, Zenon DEF Moved
<1>3. (\A u \in Callers : ~Handles(hook'[u], p)) => tags = {k} \ {"free", "file"}
  BY Zenon DEF Moved
<1> QED BY <1>1, <1>2, <1>3, Zenon DEF PageOk

\* What is mapped where nothing was, and no release is left to record.
LEMMA FreeAlone ==
    ASSUME NEW t \in Callers, NEW p \in PageNumbers, p \notin astray, PageInv, pg[p] = "free", ~Pending(t, p),
           \A u \in Callers : HookOk(hook[u]), TagsAreFew, ~Handles(hook[t], p)
    PROVE  AloneAt(t, p) /\ Covers(tr.regions, p) = {}
<1>1. PageOk(hook, p, pg[p], Covers(tr.regions, p))
  BY Zenon DEF PageInv
<1>2. ASSUME NEW u \in Callers, u # t PROVE ~Handles(hook[u], p)
  <2>1. PageRec(hook[u], p, pg[p], Covers(tr.regions, p))
    BY <1>1, Zenon DEF PageOk
  <2>2. p \notin hook[u].ev.late
    BY <1>2, Zenon DEF Pending
  <2>3. \A m \in hook[u].ev.map : m.tag \in MapTags
    BY Zenon DEF HookOk, EventOk
  <2>4. ~Maps(hook[u], p)
    BY <2>1, <2>3, Zenon DEF PageRec, Maps, TagsAreFew
  <2>5. "free" # "file"
    OBVIOUS
  <2> QED BY <2>1, <2>2, <2>4, <2>5, Zenon DEF PageRec, Handles
<1>3. \A u \in Callers : ~Handles(hook[u], p)
  BY <1>2, Zenon
<1>4. Covers(tr.regions, p) = {"free"} \ {"free", "file"}
  BY <1>1, <1>3, Zenon DEF PageOk
<1> QED BY <1>2, <1>4, Zenon DEF AloneAt

\* Steps that are about no page.
LEMMA MapStays ==
    ASSUME MapSide, UNCHANGED <<pg, registry, lent, misfreed, hook>>, tr'.regions = tr.regions, astray \subseteq astray'
    PROVE  MapSide'
<1>1. PageInv'
  BY Zenon DEF MapSide, PageInv
<1>2. LentInv'
  BY Zenon DEF MapSide, LentInv
<1> QED BY <1>1, <1>2, Zenon DEF MapSide

LEMMA LentKept ==
    ASSUME LentInv, lent' \subseteq lent, NEW t \in Callers, NEW h, Moved(t, h),
           \A r \in lent' : r \in Range(registry') /\ \A p \in r : pg'[p] = pg[p] /\ ~Handles(h, p)
    PROVE  LentInv'
<1>1. ASSUME NEW r \in lent' PROVE /\ r \in Ranges /\ r \in Range(registry')
                                   /\ \A p \in r : pg'[p] # "free" /\ \A u \in Callers : ~Handles(hook'[u], p)
  BY <1>1, Zenon DEF LentInv, Moved
<1>2. \A q, r \in lent' : q # r => q \cap r = {}
  BY Zenon DEF LentInv
<1> QED BY <1>1, <1>2, Zenon DEF LentInv

LEMMA MapRests ==
    ASSUME MapSide, UNCHANGED <<pg, registry, lent, misfreed>>, tr'.regions = tr.regions, astray \subseteq astray',
           NEW t \in Callers, NEW h, Moved(t, h), \A a : ~Handles(hook[t], a) /\ ~Handles(h, a)
    PROVE  MapSide'
<1>1. ASSUME NEW p \in PageNumbers, p \notin astray' PROVE PageOk(hook', p, pg'[p], Covers(tr'.regions, p))
  <2>1. PageOk(hook, p, pg[p], Covers(tr.regions, p))
    BY <1>1, Zenon DEF MapSide, PageInv
  <2>2. PageOk(hook', p, pg[p], Covers(tr.regions, p))
    BY <2>1, PageAside, Zenon
  <2> QED BY <2>2, Zenon
<1>2. PageInv'
  BY <1>1, Zenon DEF PageInv
<1>3. LentInv'
  <2>1. LentInv /\ \A r \in lent' : r \in Range(registry') /\ \A p \in r : pg'[p] = pg[p] /\ ~Handles(h, p)
    BY Zenon DEF MapSide, LentInv
  <2> QED BY <2>1, LentKept, Zenon
<1> QED BY <1>2, <1>3, Zenon DEF MapSide

LEMMA MapSame ==
    ASSUME MapSide, UNCHANGED <<pg, registry, lent, misfreed>>, tr'.regions = tr.regions, astray \subseteq astray',
           NEW t \in Callers, NEW h, Moved(t, h), h.ev = hook[t].ev
    PROVE  MapSide'
<1>1. ASSUME NEW u \in Callers PROVE hook'[u].ev = hook[u].ev
  BY Zenon DEF Moved
<1>2. ASSUME NEW u \in Callers, NEW p
      PROVE  /\ Handles(hook'[u], p) <=> Handles(hook[u], p)
             /\ \A k, tags : PageRec(hook[u], p, k, tags) => PageRec(hook'[u], p, k, tags)
  BY <1>1, Zenon DEF Handles, Maps, PageRec
<1>3. ASSUME NEW p \in PageNumbers, p \notin astray' PROVE PageOk(hook', p, pg'[p], Covers(tr'.regions, p))
  <2>1. PageOk(hook, p, pg[p], Covers(tr.regions, p))
    BY <1>3, Zenon DEF MapSide, PageInv
  <2>2. PageOk(hook', p, pg[p], Covers(tr.regions, p))
    BY <1>2, <2>1, Zenon DEF PageOk
  <2> QED BY <2>2, Zenon
<1>4. PageInv'
  BY <1>3, Zenon DEF PageInv
<1>5. LentInv'
  BY <1>2, Zenon DEF MapSide, LentInv
<1> QED BY <1>4, <1>5, Zenon DEF MapSide

\* A call of mmap or munmap.
LEMMA PageCall ==
    ASSUME PageInv, tr' = tr, astray \subseteq astray', NEW t \in Callers, NEW h, Moved(t, h),
           \A p \in PageNumbers : p \notin astray' =>
               \/ /\ AloneAt(t, p) /\ PageRec(h, p, pg'[p], Covers(tr.regions, p))
                  /\ Handles(h, p) \/ Covers(tr.regions, p) = {pg'[p]} \ {"free", "file"}
               \/ ~Handles(hook[t], p) /\ ~Handles(h, p) /\ pg'[p] = pg[p]
    PROVE  PageInv'
<1>1. ASSUME NEW p \in PageNumbers, p \notin astray' PROVE PageOk(hook', p, pg'[p], Covers(tr'.regions, p))
  <2>1. PageOk(hook, p, pg[p], Covers(tr.regions, p))
    BY <1>1, Zenon DEF PageInv
  <2>2. CASE /\ AloneAt(t, p) /\ PageRec(h, p, pg'[p], Covers(tr.regions, p))
             /\ Handles(h, p) \/ Covers(tr.regions, p) = {pg'[p]} \ {"free", "file"}
    <3>1. PageOk(hook', p, pg'[p], Covers(tr.regions, p))
      BY <2>2, PageTaken, Zenon
    <3> QED BY <3>1, Zenon
  <2>3. CASE ~Handles(hook[t], p) /\ ~Handles(h, p) /\ pg'[p] = pg[p]
    <3>1. PageOk(hook', p, pg[p], Covers(tr.regions, p))
      BY <2>1, <2>3, PageAside, Zenon
    <3> QED BY <2>3, <3>1, Zenon
  <2> QED BY <1>1, <2>2, <2>3, Zenon
<1> QED BY <1>1, Zenon DEF PageInv

\* Pages are given back.
LEMMA UnmapsMap ==
    ASSUME HeapInv, MapSide, NEW t \in Callers, HookOk(hook[t]), hook[t].at = "guest", NEW r \in Ranges, Unmaps(t, r),
           \A p \in r : \A u \in Callers : ~Handles(hook[u], p),
           lent' \subseteq lent, \A q \in lent' : q \cap r = {} /\ q \in Range(registry'),
           registry' \in Seq(Ranges), misfreed' = misfreed
    PROVE  MapSide'
<1>1. \A a : ~Handles(hook[t], a)
  BY RestIs, Zenon
<1>2. /\ pg' = [p \in PageNumbers |-> IF p \in r THEN "free" ELSE pg[p]]
      /\ tr' = tr /\ astray' = astray
  BY Zenon DEF Unmaps
<1>3. DOMAIN pg' = PageNumbers /\ \A p \in PageNumbers : pg'[p] = IF p \in r THEN "free" ELSE pg[p]
  BY <1>2, Zenon
<1>4. PICK e : e = [NoEvent EXCEPT !.cut = r, !.late = r]
  BY Zenon
<1>5. Feed(t, e, {})
  BY <1>4, Zenon DEF Unmaps
<1>6. PICK h : FedTo(t, e, {}, h)
  BY <1>5, FedIs, Zenon
<1>7. EvIs(e, r, {}, {}, <<>>, r, {})
  BY <1>4, EventsAre, Zenon
<1>8. h.ev.cut = r /\ h.ev.late = r /\ h.ev.map = {} /\ Moved(t, h)
  BY <1>6, <1>7, Zenon DEF FedTo, EvIs
<1>9. \A p : ~Maps(h, p) /\ (Handles(h, p) <=> p \in r)
  BY <1>8, Zenon DEF Handles, Maps
<1>10. ASSUME NEW p \in PageNumbers, p \notin astray'
       PROVE  \/ /\ AloneAt(t, p) /\ PageRec(h, p, pg'[p], Covers(tr.regions, p)) /\ Handles(h, p)
              \/ ~Handles(hook[t], p) /\ ~Handles(h, p) /\ pg'[p] = pg[p]
  BY <1>1, <1>3, <1>8, <1>9, Zenon DEF AloneAt, PageRec
<1>11. astray \subseteq astray' /\ PageInv /\ LentInv
  BY <1>2, Zenon DEF MapSide
<1>12. PageInv'
  BY <1>2, <1>8, <1>10, <1>11, PageCall, Zenon
<1>13. LentInv'
  <2>1. \A q \in lent' : \A p \in q : p \in PageNumbers /\ p \notin r
    BY <1>11, Zenon DEF LentInv, Ranges
  <2>2. \A q \in lent' : q \in Range(registry') /\ \A p \in q : pg'[p] = pg[p] /\ ~Handles(h, p)
    BY <1>3, <1>9, <2>1, Zenon
  <2> QED BY <1>8, <1>11, <2>2, LentKept, Zenon
<1> QED BY <1>3, <1>12, <1>13, Zenon DEF MapSide

LEMMA MunmapMap ==
    ASSUME HeapInv, MapSide, NEW t \in Callers, HookOk(hook[t]), NEW r \in Ranges, Munmap(t, r)
    PROVE  MapSide'
<1>1. hook[t].at = "guest" /\ Settled(r) /\ r \cap UNION lent = {} /\ Unmaps(t, r)
  BY Zenon DEF Munmap, Calls, HookAt
<1>2. lent' = lent /\ registry' = registry /\ misfreed' = misfreed
  BY Zenon DEF Munmap
<1>3. \A p \in r : \A u \in Callers : ~Handles(hook[u], p)
  BY <1>1, Zenon DEF Settled, Handles, Maps
<1>4. lent' \subseteq lent /\ \A q \in lent' : q \cap r = {} /\ q \in Range(registry')
  BY <1>1, <1>2, Zenon DEF MapSide, LentInv
<1>5. registry' \in Seq(Ranges)
  BY <1>2, Zenon DEF MapSide
<1> QED BY <1>1, <1>2, <1>3, <1>4, <1>5, UnmapsMap, Zenon

\* An entry more, and an entry less in the registry.
LEMMA Registered ==
    ASSUME NEW q \in Seq(Ranges), NEW r \in Ranges
    PROVE  Append(q, r) \in Seq(Ranges) /\ Range(Append(q, r)) = Range(q) \cup {r}
<1>1. PICK z : z = Append(q, r)
  BY Zenon
<1>2. /\ z \in Seq(Ranges) /\ DOMAIN z = 1..(Len(q) + 1) /\ z[Len(q) + 1] = r /\ Len(q) \in Nat
      /\ DOMAIN q = 1..Len(q) /\ \A k \in 1..Len(q) : z[k] = q[k]
  BY <1>1, AppendProperties, LenProperties
<1>3. \A k \in DOMAIN z : k \in DOMAIN q \/ k = Len(q) + 1
  BY <1>2
<1>4. (\A k \in DOMAIN q : k \in DOMAIN z /\ z[k] = q[k]) /\ Len(q) + 1 \in DOMAIN z
  BY <1>2
<1>5. (\A x : x \in Range(z) <=> \E k \in DOMAIN z : x = z[k]) /\ (\A x : x \in Range(q) <=> \E k \in DOMAIN q : x = q[k])
  BY Zenon DEF Range
<1>6. \A x \in Range(z) : x \in Range(q) \cup {r}
  <2>1. ASSUME NEW k \in DOMAIN z PROVE z[k] \in Range(q) \cup {r}
    <3>1. CASE k \in DOMAIN q
      BY <1>4, <1>5, <3>1, Zenon
    <3>2. CASE k = Len(q) + 1
      BY <1>2, <3>2, Zenon
    <3> QED BY <1>3, <3>1, <3>2, Zenon
  <2> QED BY <1>5, <2>1, Zenon
<1>7. \A x \in Range(q) : x \in Range(z)
  BY <1>4, <1>5, Zenon
<1>8. r \in Range(z)
  BY <1>2, <1>4, <1>5, Zenon
<1> QED BY <1>1, <1>2, <1>6, <1>7, <1>8, Zenon

LEMMA Unregistered ==
    ASSUME registry \in Seq(Ranges), NEW i \in DOMAIN registry
    PROVE  /\ RegistryRemove(i) \in Seq(Ranges)
           /\ \A x \in Range(registry) : x # registry[i] => x \in Range(RegistryRemove(i))
<1>1. PICK q : q = registry
  BY Zenon
<1>2. PICK n : n = Len(q)
  BY Zenon
<1>3. q \in Seq(Ranges) /\ n \in Nat /\ DOMAIN q = 1..n /\ i \in 1..n /\ \A k \in 1..n : q[k] \in Ranges
  BY <1>1, <1>2, LenProperties, ElementOfSeq
<1>4. PICK f : f = Front(q)
  BY Zenon
<1>5. f = SubSeq(q, 1, n - 1) /\ Last(q) = q[n]
  BY <1>2, <1>4, Zenon DEF Front, Last
<1>6. f \in Seq(Ranges) /\ Len(f) = n - 1 /\ DOMAIN f = 1..(n - 1) /\ \A k \in 1..(n - 1) : f[k] = q[k]
  <2>1. 1 \in Int /\ n - 1 \in Int /\ n - 1 <= n /\ n \in 1..n
    BY <1>3
  <2>2. \A k \in 1..(n - 1) : k \in 1..Len(q)
    BY <1>2, <1>3
  <2>3. f \in Seq(Ranges) /\ Len(f) = IF 1 <= n - 1 THEN n - 1 - 1 + 1 ELSE 0
    BY <1>2, <1>3, <1>5, <2>1, <2>2, SubSeqProperties
  <2>4. Len(f) = n - 1
    BY <1>3, <2>3
  <2>5. DOMAIN f = 1..(n - 1)
    BY <2>3, <2>4, LenProperties
  <2>6. ASSUME NEW k \in 1..(n - 1) PROVE f[k] = q[k]
    <3>1. f[k] = q[1 + k - 1]
      BY <1>2, <1>3, <1>5, <2>1, <2>2, <2>4, SubSeqProperties
    <3>2. 1 + k - 1 = k
      OBVIOUS
    <3> QED BY <3>1, <3>2
  <2> QED BY <2>3, <2>4, <2>5, <2>6
<1>7. PICK z : z = RegistryRemove(i)
  BY Zenon
<1>8. z = IF i = n THEN f ELSE [f EXCEPT ![i] = q[n]]
  BY <1>1, <1>2, <1>4, <1>5, <1>7, Zenon DEF RegistryRemove
<1>9. z \in Seq(Ranges) /\ DOMAIN z = 1..(n - 1)
  <2>1. CASE i = n
    BY <1>6, <1>8, <2>1, Zenon
  <2>2. CASE i # n
    <3>1. z = [f EXCEPT ![i] = q[n]] /\ n \in 1..n
      BY <1>3, <1>8, <2>2
    <3>2. q[n] \in Ranges
      BY <1>3, <3>1
    <3>3. i \in 1..Len(f)
      BY <1>3, <1>6, <2>2
    <3>4. z \in Seq(Ranges)
      BY <1>6, <3>1, <3>2, <3>3, ExceptSeq
    <3> QED BY <1>6, <3>1, <3>4, Zenon
  <2> QED BY <2>1, <2>2
<1>10. ASSUME NEW k \in 1..n, q[k] # q[i] PROVE \E j \in DOMAIN z : z[j] = q[k]
  <2>1. CASE i = n
    <3>1. k # n
      BY <1>10, <2>1
    <3>2. k \in 1..(n - 1)
      BY <1>3, <3>1
    <3> QED BY <1>6, <1>8, <1>9, <2>1, <3>2, Zenon
  <2>2. CASE i # n
    <3>1. i \in 1..(n - 1)
      BY <1>3, <2>2
    <3>2. z = [f EXCEPT ![i] = q[n]]
      BY <1>8, <2>2, Zenon
    <3>3. z[i] = q[n] /\ \A j \in 1..(n - 1) : j # i => z[j] = q[j]
      BY <1>6, <3>1, <3>2, Zenon
    <3>4. CASE k = n
      BY <1>9, <3>1, <3>3, <3>4, Zenon
    <3>5. CASE k # n
      <4>1. k \in 1..(n - 1) /\ k # i
        BY <1>3, <1>10, <3>5
      <4> QED BY <1>9, <3>3, <4>1, Zenon
    <3> QED BY <3>4, <3>5
  <2> QED BY <2>1, <2>2
<1>11. (\A x : x \in Range(z) <=> \E k \in DOMAIN z : x = z[k]) /\ (\A x : x \in Range(q) <=> \E k \in DOMAIN q : x = q[k])
  BY Zenon DEF Range
<1>12. \A x \in Range(q) : x # q[i] => x \in Range(z)
  BY <1>3, <1>10, <1>11, Zenon
<1> QED BY <1>1, <1>7, <1>9, <1>12, Zenon

LEMMA RegistryAddMap ==
    ASSUME MapSide, NEW t \in Callers, NEW r \in Ranges, RegistryAdd(t, r)
    PROVE  MapSide'
<1>1. /\ registry' = Append(registry, r) /\ lent' = lent \cup {r} /\ Settled(r) /\ r \cap UNION lent = {}
      /\ \A p \in r : pg[p] # "free"
  BY Zenon DEF RegistryAdd
<1>2. UNCHANGED <<pg, tr, hook, astray, misfreed>>
  BY Zenon DEF RegistryAdd
<1>3. registry' \in Seq(Ranges) /\ Range(registry') = Range(registry) \cup {r}
  BY <1>1, Registered, Zenon DEF MapSide
<1>4. \A p \in r : \A u \in Callers : ~Handles(hook[u], p)
  BY <1>1, Zenon DEF Settled, Handles, Maps
<1>5. LentInv
  BY Zenon DEF MapSide
<1>6. ASSUME NEW q \in lent' PROVE /\ q \in Ranges /\ q \in Range(registry')
                                   /\ \A p \in q : pg'[p] # "free" /\ \A u \in Callers : ~Handles(hook'[u], p)
  BY <1>1, <1>2, <1>3, <1>4, <1>5, Zenon DEF LentInv
<1>7. ASSUME NEW p \in lent', NEW q \in lent', p # q PROVE p \cap q = {}
  <2>1. \A q2 \in lent : q2 \cap r = {} /\ r \cap q2 = {}
    BY <1>1, Zenon
  <2> QED BY <1>1, <1>5, <1>7, <2>1, Zenon DEF LentInv
<1>8. LentInv'
  BY <1>6, <1>7, Zenon DEF LentInv
<1>9. PageInv'
  BY <1>2, Zenon DEF MapSide, PageInv
<1> QED BY <1>2, <1>3, <1>8, <1>9, Zenon DEF MapSide

\* shim_free of a mapping always finds it in the registry.
LEMMA FreeMappingMap ==
    ASSUME HeapInv, MapSide, NEW t \in Callers, HookOk(hook[t]), NEW r \in Ranges, FreeMapping(t, r)
    PROVE  MapSide'
<1>1. hook[t].at = "guest" /\ r \in lent /\ lent' = lent \ {r}
  BY Zenon DEF FreeMapping, Calls, HookAt
<1>2. LentInv /\ registry \in Seq(Ranges)
  BY Zenon DEF MapSide
<1>3. r \in Range(registry) /\ \A p \in r : \A u \in Callers : ~Handles(hook[u], p)
  BY <1>1, <1>2, Zenon DEF LentInv
<1>4. PICK i : i = CHOOSE j \in DOMAIN registry : registry[j] = r
  BY Zenon
<1>5. registry' = RegistryRemove(i) /\ Unmaps(t, r) /\ misfreed' = misfreed
  BY <1>3, <1>4, Zenon DEF FreeMapping
<1>6. i \in DOMAIN registry /\ registry[i] = r
  BY <1>3, <1>4, Zenon DEF Range
<1>7. registry' \in Seq(Ranges) /\ \A x \in Range(registry) : x # r => x \in Range(registry')
  BY <1>2, <1>5, <1>6, Unregistered, Zenon
<1>8. lent' \subseteq lent /\ \A q \in lent' : q \cap r = {} /\ q \in Range(registry')
  BY <1>1, <1>2, <1>7, Zenon DEF LentInv
<1> QED BY <1>1, <1>3, <1>5, <1>7, <1>8, UnmapsMap, Zenon

\* What a call of mmap feeds: nothing, or an event about its pages.
AboutPages(e, r, kind, replace) ==
    /\ EventOk(e) /\ e.in = {} /\ e.out = {} /\ e.late = {}
    /\ e.cut = IF replace THEN r ELSE {}
    /\ kind = "file" => e.map = {}
    /\ kind # "file" => \E m : e.map = {m} /\ m.tag = kind /\ RegionPages(m) = r

LEMMA MmapFeeds ==
    ASSUME HeapInv, NEW t \in Callers, NEW r \in Ranges, NEW kind \in MapTags \cup {"file"}, NEW replace \in BOOLEAN,
           NEW frames, Mmap(t, r, kind, replace, frames), ~(kind = "file" /\ ~replace)
    PROVE  \E h, e : FedTo(t, e, {}, h) /\ AboutPages(e, r, kind, replace)
<1>1. PICK cut, path, new :
          /\ cut = IF replace THEN r ELSE {}
          /\ path = IF kind = "file" THEN <<>> ELSE frames
          /\ new = IF kind = "file" THEN {} ELSE {[from |-> Lowest(r), to |-> Above(r), tag |-> kind]}
  BY Zenon
<1>2. PICK e : e = [NoEvent EXCEPT !.cut = cut, !.stack = path, !.map = new]
  BY Zenon
<1>3. Feed(t, e, {})
  BY <1>1, <1>2, Zenon DEF Mmap
<1>4. PICK h : FedTo(t, e, {}, h)
  BY <1>3, FedIs, Zenon
<1>5. EvIs(e, {}, {}, {}, path, cut, new)
  BY <1>2, EventsAre, Zenon
<1>6. e.in = {} /\ e.out = {} /\ e.late = {} /\ e.cut = cut /\ e.map = new
  BY <1>5, Zenon DEF EvIs
<1>7. PICK m : m = [from |-> Lowest(r), to |-> Above(r), tag |-> kind]
  BY Zenon
<1>8. m.from = Lowest(r) /\ m.to = Above(r) /\ m.tag = kind
  BY <1>7
<1>9. Lowest(r) \in Nat /\ Above(r) \in Nat /\ r = Lowest(r)..(Above(r) - 1)
  BY RangeIs, Zenon
<1>10. RegionPages(m) = r
  BY <1>8, <1>9, Zenon DEF RegionPages
<1>11. kind # "file" => new = {m} /\ kind \in MapTags
  BY <1>1, <1>7, Zenon
<1>12. kind = "file" => new = {}
  BY <1>1, Zenon
<1>13. cut = {} \/ cut \in Ranges
  BY <1>1, Zenon
<1>14. \A x \in new : x = m /\ kind \in MapTags
  BY <1>11, <1>12, Zenon
<1>15. EventOk(e)
  BY <1>6, <1>8, <1>9, <1>13, <1>14, Zenon DEF EventOk
<1>16. AboutPages(e, r, kind, replace)
  BY <1>1, <1>6, <1>8, <1>10, <1>11, <1>12, <1>15, Zenon DEF AboutPages
<1> QED BY <1>4, <1>16, Zenon

LEMMA MmapMap ==
    ASSUME HeapInv, MapSide, TagsAreFew, NEW t \in Callers, \A u \in Callers : HookOk(hook[u]), NEW r \in Ranges,
           NEW kind \in MapTags \cup {"file"}, NEW replace \in BOOLEAN, NEW frames, Mmap(t, r, kind, replace, frames)
    PROVE  MapSide'
<1>1. \A a : ~Handles(hook[t], a)
  BY RestIs, Zenon DEF Mmap, Calls, HookAt
<1>2. /\ pg' = [p \in PageNumbers |-> IF p \in r THEN kind ELSE pg[p]] /\ tr' = tr /\ astray' = astray \cup Overlap(t, r)
      /\ UNCHANGED <<registry, lent, misfreed>>
      /\ IF replace THEN Settled(r) ELSE \A p \in r : pg[p] = "free"
      /\ replace => r \cap UNION lent = {}
  BY Zenon DEF Mmap
<1>3. DOMAIN pg' = PageNumbers /\ \A p \in PageNumbers : pg'[p] = IF p \in r THEN kind ELSE pg[p]
  BY <1>2, Zenon
<1>4. astray \subseteq astray' /\ \A p \in r : p \notin astray' => p \notin astray /\ ~Pending(t, p)
  BY <1>2, Zenon DEF Overlap
<1>5. PageInv /\ LentInv
  BY Zenon DEF MapSide
<1>6. replace => \A p \in r : AloneAt(t, p)
  BY <1>2, Zenon DEF Settled, AloneAt, Handles, Maps
<1>7. ASSUME ~replace, NEW p \in PageNumbers, p \in r, p \notin astray' PROVE AloneAt(t, p) /\ Covers(tr.regions, p) = {}
  <2>1. pg[p] = "free" /\ p \notin astray /\ ~Pending(t, p) /\ ~Handles(hook[t], p)
    BY <1>1, <1>2, <1>4, <1>7, Zenon
  <2> QED BY <1>5, <2>1, FreeAlone, Zenon
<1>8. \A q \in lent : q \cap r = {} /\ q \in Range(registry) /\ \A p \in q : p \in PageNumbers
  <2>1. ASSUME NEW q \in lent PROVE q \cap r = {}
    <3>1. CASE replace
      BY <1>2, <2>1, <3>1, Zenon
    <3>2. CASE ~replace
      <4>1. (\A p \in r : pg[p] = "free") /\ \A p \in q : pg[p] # "free"
        BY <1>2, <1>5, <2>1, <3>2, Zenon DEF LentInv
      <4> QED BY <4>1, Zenon
    <3> QED BY <3>1, <3>2, Zenon
  <2> QED BY <1>5, <2>1, Zenon DEF LentInv, Ranges
<1>9. ASSUME NEW h, Moved(t, h), \A p : Handles(h, p) => p \in r PROVE LentInv'
  <2>1. \A q \in lent' : q \in Range(registry') /\ \A p \in q : pg'[p] = pg[p] /\ ~Handles(h, p)
    BY <1>2, <1>3, <1>8, <1>9, Zenon
  <2>2. lent' \subseteq lent
    BY <1>2, Zenon
  <2> QED BY <1>5, <1>9, <2>1, <2>2, LentKept, Zenon
<1>10. CASE kind = "file" /\ ~replace
  <2>1. hook' = hook
    BY <1>10, Zenon DEF Mmap
  <2>2. PICK h : h = hook[t]
    BY Zenon
  <2>3. Moved(t, h) /\ \A a : ~Handles(h, a)
    BY <1>1, <2>1, <2>2, Zenon DEF Moved, HeapInv
  <2>4. {"file"} \ {"free", "file"} = {}
    BY Zenon
  <2>5. ASSUME NEW p \in PageNumbers, p \notin astray'
        PROVE  \/ /\ AloneAt(t, p) /\ PageRec(h, p, pg'[p], Covers(tr.regions, p))
                  /\ Covers(tr.regions, p) = {pg'[p]} \ {"free", "file"}
               \/ ~Handles(hook[t], p) /\ ~Handles(h, p) /\ pg'[p] = pg[p]
    <3>1. CASE p \in r
      <4>1. pg'[p] = "file" /\ AloneAt(t, p) /\ Covers(tr.regions, p) = {}
        BY <1>3, <1>7, <1>10, <2>5, <3>1, Zenon
      <4>2. PageRec(h, p, pg'[p], Covers(tr.regions, p))
        BY <2>3, NotHandled, Zenon
      <4> QED BY <2>4, <4>1, <4>2, Zenon
    <3>2. CASE p \notin r
      BY <1>1, <1>3, <2>3, <3>2, Zenon
    <3> QED BY <3>1, <3>2, Zenon
  <2>6. PageInv'
    BY <1>2, <1>4, <1>5, <2>3, <2>5, PageCall, Zenon
  <2>7. LentInv'
    BY <1>9, <2>3, Zenon
  <2> QED BY <1>2, <1>3, <2>6, <2>7, Zenon DEF MapSide
<1>11. CASE ~(kind = "file" /\ ~replace)
  <2>0. PICK h, e : FedTo(t, e, {}, h) /\ AboutPages(e, r, kind, replace)
    BY <1>11, MmapFeeds, Zenon
  <2>1. /\ FedTo(t, e, {}, h) /\ EventOk(e) /\ e.in = {} /\ e.out = {} /\ e.late = {}
        /\ e.cut = IF replace THEN r ELSE {}
        /\ kind = "file" => e.map = {}
        /\ kind # "file" => \E m : e.map = {m} /\ m.tag = kind /\ RegionPages(m) = r
    BY <2>0, Zenon DEF AboutPages
  <2>2. Moved(t, h) /\ h.ev = e
    BY <2>1, Zenon DEF FedTo
  <2>3. \A p : (Maps(h, p) <=> kind # "file" /\ p \in r) /\ (Handles(h, p) <=> p \in r)
    <3>1. CASE kind = "file"
      BY <1>11, <2>1, <2>2, <3>1, Zenon DEF Maps, Handles
    <3>2. CASE kind # "file"
      <4>1. PICK m : e.map = {m} /\ m.tag = kind /\ RegionPages(m) = r
        BY <2>1, <3>2, Zenon
      <4> QED BY <2>1, <2>2, <3>2, <4>1, Zenon DEF Maps, Handles
    <3> QED BY <3>1, <3>2, Zenon
  <2>4. \A m \in h.ev.map : m.tag = kind
    BY <2>1, <2>2, Zenon
  <2>5. ASSUME NEW p \in PageNumbers, p \notin astray'
        PROVE  \/ /\ AloneAt(t, p) /\ PageRec(h, p, pg'[p], Covers(tr.regions, p)) /\ Handles(h, p)
               \/ ~Handles(hook[t], p) /\ ~Handles(h, p) /\ pg'[p] = pg[p]
    <3>1. CASE p \in r
      <4>1. pg'[p] = kind /\ Handles(h, p)
        BY <1>3, <2>3, <3>1, Zenon
      <4>2. AloneAt(t, p)
        BY <1>6, <1>7, <2>5, <3>1, Zenon
      <4>3. p \notin h.ev.cut => Covers(tr.regions, p) = {}
        BY <1>7, <2>1, <2>2, <2>5, <3>1, Zenon
      <4>4. ~Maps(h, p) => kind = "file"
        BY <2>3, <3>1, Zenon
      <4>5. PageRec(h, p, pg'[p], Covers(tr.regions, p))
        BY <2>4, <4>1, <4>3, <4>4, Zenon DEF PageRec
      <4> QED BY <4>1, <4>2, <4>5, Zenon
    <3>2. CASE p \notin r
      BY <1>1, <1>3, <2>3, <3>2, Zenon
    <3> QED BY <3>1, <3>2, Zenon
  <2>6. PageInv'
    BY <1>2, <1>4, <1>5, <2>2, <2>5, PageCall, Zenon
  <2>7. LentInv'
    BY <1>9, <2>2, <2>3, Zenon
  <2> QED BY <1>2, <1>3, <2>6, <2>7, Zenon DEF MapSide
<1> QED BY <1>10, <1>11, Zenon

LEMMA RecordMap ==
    ASSUME HeapInv, MapSide, TagsAreFew, NEW t \in Callers, HookOk(hook[t]), RecordEvent(t),
           Records(tr, hook[t].ev, tr')
    PROVE  MapSide'
<1> DEFINE was == hook[t]
<1>1. PICK h : Moved(t, h) /\ h.ev = NoEvent
  BY RecordMoves, Zenon
<1>2. UNCHANGED <<pg, astray, registry, lent, misfreed>>
  BY Zenon DEF RecordEvent
<1>3. NoEvent.cut = {} /\ NoEvent.map = {}
  BY DEF NoEvent
<1>4. \A a : ~Handles(h, a)
  BY <1>1, <1>3, Zenon DEF Handles, Maps
<1> HIDE DEF was
<1>5. ASSUME NEW p \in PageNumbers, p \notin astray PROVE PageOk(hook', p, pg[p], Covers(tr'.regions, p))
  <2>1. PageOk(hook, p, pg[p], Covers(tr.regions, p))
    BY <1>5, Zenon DEF MapSide, PageInv
  <2>2. PageRec(was, p, pg[p], Covers(tr.regions, p))
    BY <2>1, Zenon DEF PageOk, was
  <2>3. \A x : x \in Covers(tr'.regions, p) <=>
                   (\E m \in was.ev.map : p \in RegionPages(m) /\ x = m.tag)
                   \/ (p \notin was.ev.cut /\ x \in Covers(tr.regions, p))
    BY Zenon DEF Records, was
  <2>4. CASE ~Handles(was, p)
    <3>1. Covers(tr'.regions, p) = Covers(tr.regions, p)
      BY <2>3, <2>4, Zenon DEF Handles, Maps
    <3>2. PageOk(hook', p, pg[p], Covers(tr.regions, p))
      BY <1>1, <1>4, <2>1, <2>4, PageAside, Zenon DEF was
    <3> QED BY <3>1, <3>2, Zenon
  <2>5. CASE Handles(was, p)
    <3>1. AloneAt(t, p)
      BY <2>1, <2>5, Zenon DEF PageOk, AloneAt, was
    <3>2. CASE Maps(was, p)
      <4>1. PICK m \in was.ev.map : p \in RegionPages(m)
        BY <3>2, Zenon DEF Maps
      <4>2. pg[p] = m.tag /\ m.tag \in MapTags /\ \A n \in was.ev.map : n = m
        BY <2>2, <4>1, Zenon DEF PageRec, HookOk, EventOk, was
      <4>3. p \notin was.ev.cut => Covers(tr.regions, p) = {}
        BY <2>2, <4>1, Zenon DEF PageRec
      <4>4. \A x : x \in Covers(tr'.regions, p) <=> x = m.tag
        BY <2>3, <4>1, <4>2, <4>3, Zenon
      <4>5. pg[p] # "free" /\ pg[p] # "file"
        BY <4>2, Zenon DEF TagsAreFew
      <4>6. Covers(tr'.regions, p) = {pg[p]} \ {"free", "file"}
        BY <4>2, <4>4, <4>5, Zenon
      <4>7. PageRec(h, p, pg[p], Covers(tr'.regions, p))
        BY <1>4, NotHandled, Zenon
      <4> QED BY <1>1, <3>1, <4>6, <4>7, PageTaken, Zenon
    <3>3. CASE ~Maps(was, p)
      <4>1. p \in was.ev.cut /\ (pg[p] = "free" \/ pg[p] = "file")
        BY <2>2, <2>5, <3>3, Zenon DEF Handles, PageRec
      <4>2. \A x : x \notin Covers(tr'.regions, p)
        BY <2>3, <3>3, <4>1, Zenon DEF Maps
      <4>3. Covers(tr'.regions, p) = {pg[p]} \ {"free", "file"}
        BY <4>1, <4>2, Zenon
      <4>4. PageRec(h, p, pg[p], Covers(tr'.regions, p))
        BY <1>4, NotHandled, Zenon
      <4> QED BY <1>1, <3>1, <4>3, <4>4, PageTaken, Zenon
    <3> QED BY <3>2, <3>3, Zenon
  <2> QED BY <2>4, <2>5, Zenon
<1>6. PageInv'
  BY <1>2, <1>5, Zenon DEF PageInv
<1>7. LentInv'
  <2>1. LentInv
    BY Zenon DEF MapSide
  <2>2. lent' \subseteq lent /\ \A r \in lent' : r \in Range(registry') /\ \A p \in r : pg'[p] = pg[p] /\ ~Handles(h, p)
    BY <1>2, <1>4, <2>1, Zenon DEF LentInv
  <2> QED BY <1>1, <2>1, <2>2, LentKept, Zenon
<1> QED BY <1>2, <1>6, <1>7, Zenon DEF MapSide

-----------------------------------------------------------------------------
\* All of it, call by call.
HooksOk == \A t \in Callers : HookOk(hook[t])

LEMMA HooksMove ==
    ASSUME HooksOk, NEW t \in Callers, NEW h, Moved(t, h), HookOk(h) PROVE HooksOk'
BY Zenon DEF HooksOk, Moved

\* What one call adds and what it leaves to be released is one block at most.
OneAdded(in) == in = {} \/ \E b \in Blocks : \E size : in = {[ptr |-> b, size |-> size]}
OneLeft(after) == after \subseteq Blocks /\ \A x, y \in after : x = y

LEMMA NoneOrOne == /\ OneAdded({}) /\ OneLeft({})
                   /\ \A b \in Blocks : OneLeft({b}) /\ \A size : OneAdded({[ptr |-> b, size |-> size]})
BY Zenon DEF OneAdded, OneLeft

LEMMA FedOk ==
    ASSUME HooksOk, NEW t \in Callers, NEW e, NEW after, NEW h, FedTo(t, e, after, h), EventOk(e), OneLeft(after)
    PROVE  HooksOk'
<1>1. HookOk(h)
  BY Zenon DEF FedTo, HookOk, OneLeft
<1> QED BY <1>1, HooksMove, Zenon DEF FedTo

LEMMA RestsBefore ==
    ASSUME NEW h, HookOk(h), h.at = "guest" \/ h.at = "after" PROVE \A a : ~Handles(h, a)
<1>1. h.ev = NoEvent
  BY Zenon DEF HookOk
<1>2. NoEvent.cut = {} /\ NoEvent.map = {}
  BY DEF NoEvent
<1> QED BY <1>1, <1>2, Zenon DEF Handles, Maps

\* A call of the malloc family that is recorded,
LEMMA HeapFeeds ==
    ASSUME HeapInv, TraceInv, HeapSide', NEW t \in Callers, hook[t].at = "guest" \/ hook[t].at = "after",
           NEW e, NEW after, Feed(t, e, after), NEW late, NEW out, NEW in, NEW path, EvIs(e, late, out, in, path, {}, {}),
           OneAdded(in), OneLeft(after), UNCHANGED <<pg, registry, tr, lent, misfreed>>, astray \subseteq astray'
    PROVE  TraceInv'
<1>1. MapSide /\ HooksOk /\ TablesOk(tr) /\ HookOk(hook[t])
  BY Zenon DEF TraceInv, HooksOk
<1>2. PICK h : FedTo(t, e, after, h)
  BY FedIs, Zenon
<1>3. e.in = in /\ e.cut = {} /\ e.map = {} /\ h.ev = e /\ Moved(t, h)
  BY <1>2, Zenon DEF EvIs, FedTo
<1>4. \A a : ~Handles(h, a) /\ ~Handles(hook[t], a)
  BY <1>1, <1>3, RestsBefore, Zenon DEF Handles, Maps
<1>5. MapSide'
  BY <1>1, <1>3, <1>4, MapRests, Zenon
<1>6. \A x \in in : x.ptr \in Blocks /\ \A y \in in : x = y
  <2>1. CASE in = {}
    BY <2>1, Zenon
  <2>2. CASE in # {}
    <3>1. PICK b \in Blocks : \E size : in = {[ptr |-> b, size |-> size]}
      BY <2>2, Zenon DEF OneAdded
    <3>2. PICK size : in = {[ptr |-> b, size |-> size]}
      BY <3>1, Zenon
    <3>3. PICK x : x = [ptr |-> b, size |-> size]
      BY Zenon
    <3>4. x.ptr = b /\ in = {x}
      BY <3>2, <3>3
    <3> QED BY <3>4, Zenon
  <2> QED BY <2>1, <2>2, Zenon
<1>7. EventOk(e)
  BY <1>3, <1>6, Zenon DEF EventOk
<1>8. HooksOk'
  BY <1>1, <1>2, <1>7, FedOk, Zenon
<1>9. TablesOk(tr')
  BY <1>1, Zenon
<1> QED BY <1>5, <1>8, <1>9, Zenon DEF TraceInv, HooksOk

\* and one that is not.
LEMMA HeapQuiet ==
    ASSUME TraceInv, HeapSide', UNCHANGED <<pg, registry, tr, hook, lent, misfreed>>, astray \subseteq astray'
    PROVE  TraceInv'
<1>1. MapSide /\ HooksOk /\ TablesOk(tr)
  BY Zenon DEF TraceInv, HooksOk
<1>2. MapSide'
  BY <1>1, MapStays, Zenon
<1>3. HooksOk' /\ TablesOk(tr')
  BY <1>1, Zenon DEF HooksOk
<1> QED BY <1>2, <1>3, Zenon DEF TraceInv, HooksOk

\* The same of mappings.
LEMMA MapFeeds ==
    ASSUME HeapInv, TraceInv, MapSide', NEW t \in Callers, hook[t].at = "guest", NEW e, NEW h, FedTo(t, e, {}, h),
           EventOk(e), e.in = {}, e.out = {}, UNCHANGED <<store, tr, resolved>>, astray \subseteq astray'
    PROVE  TraceInv'
<1>1. HeapSide /\ HooksOk /\ TablesOk(tr) /\ HookOk(hook[t])
  BY Zenon DEF TraceInv, HooksOk
<1>2. h.ev = e /\ h.after = {} /\ Moved(t, h)
  BY Zenon DEF FedTo
<1>3. \A a : ~Touches(h, a) /\ ~Touches(hook[t], a)
  BY <1>1, <1>2, RestIs, Zenon DEF Touches, Adds, Drops, Defers
<1>4. HeapSide'
  BY <1>1, <1>2, <1>3, HeapRests, Zenon
<1>5. HooksOk'
  <2>1. PICK none : none = {}
    BY Zenon
  <2>2. OneLeft(none) /\ FedTo(t, e, none, h)
    BY <2>1, NoneOrOne, Zenon
  <2> QED BY <1>1, <2>2, FedOk, Zenon
<1>6. TablesOk(tr')
  BY <1>1, Zenon
<1> QED BY <1>4, <1>5, <1>6, Zenon DEF TraceInv, HooksOk

LEMMA MapQuiet ==
    ASSUME TraceInv, MapSide', UNCHANGED <<store, tr, resolved, hook>>, astray \subseteq astray'
    PROVE  TraceInv'
<1>1. HeapSide /\ HooksOk /\ TablesOk(tr)
  BY Zenon DEF TraceInv, HooksOk
<1>2. HeapSide'
  BY <1>1, HeapStays, Zenon
<1>3. HooksOk' /\ TablesOk(tr')
  BY <1>1, Zenon DEF HooksOk
<1> QED BY <1>2, <1>3, Zenon DEF TraceInv, HooksOk

\* A caller goes on without an event of its own.
LEMMA CallerGoesOn ==
    ASSUME HeapInv, TraceInv, NEW t \in Callers, NEW h, HookIs(t, h), h.ev = hook[t].ev, h.after = hook[t].after,
           h.at = hook[t].at \/ (h.at # "guest" /\ h.at # "after"), hook[t].at # "after",
           UNCHANGED <<store, pg, registry, tr, astray, lent, misfreed, resolved>>
    PROVE  TraceInv'
<1>1. HeapSide /\ MapSide /\ HooksOk /\ TablesOk(tr) /\ HookOk(hook[t]) /\ Moved(t, h)
  BY MovedIs, Zenon DEF TraceInv, HooksOk
<1>2. HookOk(h) /\ h.at # "after"
  BY <1>1, Zenon DEF HookOk
<1>3. astray \subseteq astray'
  BY Zenon
<1>4. HeapSide'
  BY <1>1, <1>2, <1>3, HeapSame, Zenon
<1>5. MapSide'
  BY <1>1, <1>3, MapSame, Zenon
<1>6. HooksOk'
  BY <1>1, <1>2, HooksMove, Zenon
<1>7. TablesOk(tr')
  BY <1>1, Zenon
<1> QED BY <1>4, <1>5, <1>6, <1>7, Zenon DEF TraceInv, HooksOk

LEMMA TracerKeepsTrace ==
    ASSUME HeapInv, TraceInv, TagsAreFew, NEW t \in Callers, Presolve(t) \/ ResolveNames(t) \/ RecordEvent(t)
    PROVE  TraceInv'
<1>1. DOMAIN hook[t] = {"at", "ev", "needs", "after", "dl"} /\ Event(hook[t].ev)
  BY Zenon DEF HeapInv, Hook
<1>2. CASE Presolve(t)
  <2>1. PICK new : new = Range(hook[t].ev.stack) \ tr.ips
    BY Zenon
  <2>2. PICK h : h = [hook[t] EXCEPT !.at = "resolve", !.needs = new]
    BY Zenon
  <2>3. HookIs(t, h) /\ hook[t].at = "presolve" /\ UNCHANGED <<store, pg, registry, tr, astray, lent, misfreed, resolved>>
    BY <1>2, <2>1, <2>2, Zenon DEF Presolve, HookAt
  <2>4. h.ev = hook[t].ev /\ h.after = hook[t].after /\ h.at = "resolve"
    BY <1>1, <2>2
  <2>5. h.at # "guest" /\ h.at # "after" /\ hook[t].at # "after"
    BY <2>3, <2>4
  <2> QED BY <2>3, <2>4, <2>5, CallerGoesOn, Zenon
<1>3. CASE ResolveNames(t)
  <2>2. PICK h : h = [hook[t] EXCEPT !.at = "record"]
    BY Zenon
  <2>3. HookIs(t, h) /\ hook[t].at = "resolve" /\ UNCHANGED <<store, pg, registry, tr, astray, lent, misfreed, resolved>>
    BY <1>3, <2>2, Zenon DEF ResolveNames, HookAt
  <2>4. h.ev = hook[t].ev /\ h.after = hook[t].after /\ h.at = "record"
    BY <1>1, <2>2
  <2>5. h.at # "guest" /\ h.at # "after" /\ hook[t].at # "after"
    BY <2>3, <2>4
  <2> QED BY <2>3, <2>4, <2>5, CallerGoesOn, Zenon
<1>4. CASE RecordEvent(t)
  <2>1. hook[t].at = "record" /\ tr' = Recorded(tr, hook[t].ev, hook[t].needs)
    BY <1>4, Zenon DEF RecordEvent, HookAt
  <2>2. HeapSide /\ MapSide /\ HooksOk /\ TablesOk(tr) /\ HookOk(hook[t]) /\ EventOk(hook[t].ev)
    BY Zenon DEF TraceInv, HooksOk, HookOk
  <2>3. Interns(hook[t].ev) => Range(hook[t].ev.stack) \subseteq hook[t].needs \cup tr.ips
    BY <2>1, Zenon DEF HeapInv, Named
  <2>4. Records(tr, hook[t].ev, tr')
    BY <1>1, <2>1, <2>2, <2>3, RecordedIs, Zenon
  <2>5. HeapSide'
    BY <1>4, <2>2, <2>4, RecordHeap, Zenon
  <2>6. MapSide'
    BY <1>4, <2>2, <2>4, RecordMap, Zenon
  <2>7. PICK h : /\ Moved(t, h) /\ h.ev = NoEvent /\ h.after = hook[t].after
                 /\ h.at = IF hook[t].after = {} THEN "guest" ELSE "after"
    BY <1>4, RecordMoves, Zenon
  <2>8. EventOk(NoEvent)
    <3>1. NoEvent.in = {} /\ NoEvent.map = {} /\ NoEvent.cut = {}
      BY DEF NoEvent
    <3> QED BY <3>1, Zenon DEF EventOk
  <2>9. "guest" # "after"
    OBVIOUS
  <2>10. HookOk(h)
    BY <2>2, <2>7, <2>8, <2>9, Zenon DEF HookOk
  <2>11. HooksOk'
    BY <2>2, <2>7, <2>10, HooksMove, Zenon
  <2>12. TablesOk(tr')
    BY <2>4, Zenon DEF Records
  <2> QED BY <2>5, <2>6, <2>11, <2>12, Zenon DEF TraceInv, HooksOk
<1> QED BY <1>2, <1>3, <1>4, Zenon

\* machismo_heaptrack_close only ends the tracing.
LEMMA CloseKeepsTrace == ASSUME HeapInv, TraceInv, Close PROVE TraceInv'
<1>1. tr' = [tr EXCEPT !.on = FALSE] /\ UNCHANGED <<store, pg, registry, hook, astray, lent, misfreed, resolved>>
  BY Zenon DEF Close
<1>2. HeapSide /\ MapSide /\ HooksOk /\ TablesOk(tr) /\ Tables(tr)
  BY Zenon DEF TraceInv, HooksOk, HeapInv
<1>3. HasOn(tr, tr', FALSE) /\ SameFrames(tr, tr')
  BY <1>1, <1>2, FieldsSet, OtherFields, Zenon
<1>4. tr'.ptrs = tr.ptrs /\ tr'.regions = tr.regions /\ tr'.tags = tr.tags /\ Tables(tr')
  BY <1>3, Zenon DEF HasOn, SameFrames
<1>5. astray \subseteq astray'
  BY <1>1, Zenon
<1>6. HeapSide'
  BY <1>1, <1>2, <1>4, <1>5, HeapStays, Zenon
<1>7. MapSide'
  BY <1>1, <1>2, <1>4, <1>5, MapStays, Zenon
<1>8. TablesOk(tr') /\ HooksOk'
  BY <1>1, <1>2, <1>4, Zenon DEF TablesOk, HooksOk
<1> QED BY <1>6, <1>7, <1>8, Zenon DEF TraceInv, HooksOk

LEMMA LoaderCallsKeepTrace ==
    ASSUME HeapInv, TraceInv, NEW t \in Callers, DlLeave(t) \/ \E how \in {"open", "sym"} : DlEnter(t, how)
    PROVE  TraceInv'
<1>1. PICK how : /\ HookIs(t, [hook[t] EXCEPT !.dl = how]) /\ hook[t].at = "guest"
                 /\ UNCHANGED <<store, pg, registry, tr, astray, lent, misfreed, resolved>>
  BY Zenon DEF DlLeave, DlEnter, HookAt, Calls
<1>2. PICK h : h = [hook[t] EXCEPT !.dl = how]
  BY Zenon
<1>3. DOMAIN hook[t] = {"at", "ev", "needs", "after", "dl"}
  BY Zenon DEF HeapInv, Hook
<1>4. h.ev = hook[t].ev /\ h.after = hook[t].after /\ h.at = hook[t].at
  BY <1>2, <1>3
<1>5. hook[t].at # "after"
  BY <1>1
<1> QED BY <1>1, <1>2, <1>4, <1>5, CallerGoesOn, Zenon

LEMMA HeapCallsKeepTrace ==
    ASSUME HeapInv, TraceInv, NEW t \in Callers,
           \/ After(t) \/ HResolve(t)
           \/ \E b \in HeapBlocks : FreeBlock(t, b)
           \/ \E b \in Blocks, to \in HeapBlocks : ReallocUnfed(t, b, to)
           \/ \E b \in ArenaBlocks : GuestFreesRouted(t, b)
    PROVE  TraceInv'
<1>1. HeapSide /\ HookOk(hook[t])
  BY Zenon DEF TraceInv
<1>2. HeapBlocks \subseteq Blocks /\ ArenaBlocks \subseteq Blocks
  BY Zenon DEF Blocks
<1>3. ASSUME NEW b \in Blocks, FreeRouted(t, b), HeapSide', hook[t].at = "guest" \/ hook[t].at = "after" PROVE TraceInv'
  <2>1. PICK e : e = [NoEvent EXCEPT !.out = {b}, !.late = {b}]
    BY Zenon
  <2>2. Feed(t, e, {}) /\ UNCHANGED <<pg, registry, tr, lent, misfreed>> /\ astray \subseteq astray'
    BY <1>3, <2>1, Zenon DEF FreeRouted
  <2>3. EvIs(e, {b}, {b}, {}, <<>>, {}, {})
    BY <2>1, EventsAre, Zenon
  <2>4. PICK none : none = {}
    BY Zenon
  <2>5. OneAdded(none) /\ OneLeft(none)
    BY <2>4, NoneOrOne, Zenon
  <2>6. Feed(t, e, none) /\ EvIs(e, {b}, {b}, none, <<>>, {}, {})
    BY <2>2, <2>3, <2>4, Zenon
  <2> QED BY <1>3, <2>2, <2>5, <2>6, HeapFeeds, Zenon
<1>4. CASE After(t)
  <2>1. HeapSide' /\ hook[t].at = "after"
    BY <1>1, <1>4, AfterHeap, Zenon DEF After, HookAt
  <2>2. PICK b : b = CHOOSE x \in hook[t].after : TRUE
    BY Zenon
  <2>3. b \in Blocks /\ hook[t].ev = NoEvent
    BY <1>1, <2>1, <2>2, Zenon DEF HookOk
  <2>4. CASE b \in ArenaBlocks
    <3>1. FreeRouted(t, b)
      BY <1>4, <2>2, <2>4, Zenon DEF After
    <3> QED BY <1>3, <2>1, <2>3, <3>1, Zenon
  <2>5. CASE b \notin ArenaBlocks
    <3>1. PICK h : h = [hook[t] EXCEPT !.at = "guest", !.after = {}]
      BY Zenon
    <3>2. HookIs(t, h) /\ UNCHANGED <<pg, registry, tr, astray, lent, misfreed>>
      BY <1>4, <2>2, <2>5, <3>1, Zenon DEF After
    <3>3. DOMAIN hook[t] = {"at", "ev", "needs", "after", "dl"}
      BY Zenon DEF HeapInv, Hook
    <3>4. h.ev = hook[t].ev /\ h.after = {} /\ h.at = "guest"
      BY <3>1, <3>3
    <3>5. h.at # "after" /\ Moved(t, h)
      BY <3>2, <3>4, MovedIs
    <3>6. HookOk(h)
      BY <1>1, <2>3, <3>4, <3>5, Zenon DEF HookOk
    <3>7. MapSide /\ HooksOk /\ TablesOk(tr) /\ astray \subseteq astray'
      BY <3>2, Zenon DEF TraceInv, HooksOk
    <3>8. HooksOk' /\ TablesOk(tr')
      BY <3>2, <3>5, <3>6, <3>7, HooksMove, Zenon
    <3>9. MapSide'
      BY <3>2, <3>4, <3>5, <3>7, MapSame, Zenon
    <3> QED BY <2>1, <3>8, <3>9, Zenon DEF TraceInv, HooksOk
  <2> QED BY <2>4, <2>5, Zenon
<1>5. CASE HResolve(t)
  <2>1. HeapSide'
    BY <1>1, <1>5, ResolveHeap, Zenon
  <2>2. UNCHANGED <<pg, registry, tr, hook, lent, misfreed>> /\ astray \subseteq astray'
    BY <1>5, Zenon DEF HResolve
  <2> QED BY <2>1, <2>2, HeapQuiet, Zenon
<1>6. CASE \E b \in HeapBlocks : FreeBlock(t, b)
  <2>1. PICK b \in HeapBlocks : FreeBlock(t, b)
    BY <1>6, Zenon
  <2>2. HeapSide' /\ hook[t].at = "guest" /\ UNCHANGED <<pg, registry, tr, lent, misfreed>>
    BY <1>1, <2>1, FreeBlockHeap, Zenon DEF FreeBlock, Calls, HookAt
  <2>3. astray \subseteq astray'
    BY <2>1, Zenon DEF FreeBlock
  <2>4. CASE Traced(t)
    <3>1. PICK e : e = [NoEvent EXCEPT !.out = {b}]
      BY Zenon
    <3>2. Feed(t, e, {b})
      BY <2>1, <2>4, <3>1, Zenon DEF FreeBlock
    <3>3. EvIs(e, {}, {b}, {}, <<>>, {}, {})
      BY <3>1, EventsAre, Zenon
    <3>4. PICK none, one : none = {} /\ one = {b}
      BY Zenon
    <3>5. OneAdded(none) /\ OneLeft(one)
      BY <1>2, <3>4, NoneOrOne, Zenon
    <3>6. Feed(t, e, one) /\ EvIs(e, {}, one, none, <<>>, {}, {})
      BY <3>2, <3>3, <3>4, Zenon
    <3> QED BY <2>2, <2>3, <3>5, <3>6, HeapFeeds, Zenon
  <2>5. CASE ~Traced(t)
    <3>1. hook' = hook
      BY <2>1, <2>5, Zenon DEF FreeBlock
    <3> QED BY <2>2, <2>3, <3>1, HeapQuiet, Zenon
  <2> QED BY <2>4, <2>5, Zenon
<1>7. CASE \E b \in ArenaBlocks : GuestFreesRouted(t, b)
  <2>1. PICK b \in ArenaBlocks : GuestFreesRouted(t, b)
    BY <1>7, Zenon
  <2>2. HeapSide' /\ hook[t].at = "guest" /\ FreeRouted(t, b) /\ b \in Blocks
    BY <1>1, <1>2, <2>1, GuestFreesHeap, Zenon DEF GuestFreesRouted, Calls, HookAt
  <2> QED BY <1>3, <2>2, Zenon
<1>8. CASE \E b \in Blocks, to \in HeapBlocks : ReallocUnfed(t, b, to)
  <2>1. PICK b \in Blocks, to \in HeapBlocks : ReallocUnfed(t, b, to)
    BY <1>8, Zenon
  <2>2. HeapSide'
    BY <1>1, <2>1, ReallocUnfedHeap, Zenon
  <2>3. UNCHANGED <<pg, registry, tr, hook, lent, misfreed>> /\ astray \subseteq astray'
    BY <2>1, Zenon DEF ReallocUnfed
  <2> QED BY <2>2, <2>3, HeapQuiet, Zenon
<1> QED BY <1>4, <1>5, <1>6, <1>7, <1>8, Zenon

LEMMA StackedCallsKeepTrace ==
    ASSUME HeapInv, TraceInv, TagsAreFew, NEW t \in Callers, NEW frames,
           \/ \E b \in Blocks, size \in Sizes : Malloc(t, b, size, frames)
           \/ \E b \in Blocks, to \in HeapBlocks, size \in Sizes : Realloc(t, b, to, size, frames)
           \/ \E r \in Ranges, kind \in MapTags \cup {"file"}, replace \in BOOLEAN : Mmap(t, r, kind, replace, frames)
    PROVE  TraceInv'
<1>1. HeapSide /\ MapSide /\ HooksOk /\ HookOk(hook[t])
  BY Zenon DEF TraceInv, HooksOk
<1>2. CASE \E b \in Blocks, size \in Sizes : Malloc(t, b, size, frames)
  <2>1. PICK b \in Blocks, size \in Sizes : Malloc(t, b, size, frames)
    BY <1>2, Zenon
  <2>2. HeapSide' /\ hook[t].at = "guest" /\ UNCHANGED <<pg, registry, tr, lent, misfreed>>
    BY <1>1, <2>1, MallocHeap, Zenon DEF Malloc, Calls, HookAt
  <2>3. astray \subseteq astray'
    BY <2>1, Zenon DEF Malloc, Takes
  <2>4. CASE Traced(t)
    <3>1. PICK e, in : e = New(b, size, frames) /\ in = {[ptr |-> b, size |-> size]}
      BY Zenon
    <3>2. Feed(t, e, {})
      BY <2>1, <2>4, <3>1, Zenon DEF Malloc
    <3>3. EvIs(e, {}, {}, in, frames, {}, {})
      BY <3>1, EventsAre, Zenon
    <3>4. PICK none : none = {}
      BY Zenon
    <3>5. OneAdded(in) /\ OneLeft(none)
      <4>1. b \in Blocks
        BY Zenon DEF Blocks
      <4> QED BY <3>1, <3>4, <4>1, NoneOrOne, Zenon
    <3>6. Feed(t, e, none)
      BY <3>2, <3>4, Zenon
    <3> QED BY <2>2, <2>3, <3>3, <3>5, <3>6, HeapFeeds, Zenon
  <2>5. CASE ~Traced(t)
    <3>1. hook' = hook
      BY <2>1, <2>5, Zenon DEF Malloc
    <3> QED BY <2>2, <2>3, <3>1, HeapQuiet, Zenon
  <2> QED BY <2>4, <2>5, Zenon
<1>3. CASE \E b \in Blocks, to \in HeapBlocks, size \in Sizes : Realloc(t, b, to, size, frames)
  <2>1. PICK b \in Blocks, to \in HeapBlocks, size \in Sizes : Realloc(t, b, to, size, frames)
    BY <1>3, Zenon
  <2>2. HeapSide' /\ hook[t].at = "guest" /\ UNCHANGED <<pg, registry, tr, lent, misfreed>>
    BY <1>1, <2>1, ReallocHeap, Zenon DEF Realloc, Calls, HookAt
  <2>3. astray \subseteq astray'
    BY <2>1, Zenon DEF Realloc, Takes
  <2>4. PICK e, e1, e2, in : /\ e = New(to, size, frames) /\ in = {[ptr |-> to, size |-> size]}
                             /\ e1 = [New(to, size, frames) EXCEPT !.out = {b}, !.late = {b}]
                             /\ e2 = [NoEvent EXCEPT !.out = {b}, !.late = {b}]
    BY Zenon
  <2>5. Feed(t, e1, {}) \/ Feed(t, e2, {}) \/ Feed(t, e, {b} \ BootBlocks)
    BY <2>1, <2>4, Zenon DEF Realloc
  <2>6. EvIs(e, {}, {}, in, frames, {}, {}) /\ EvIs(e1, {b}, {b}, in, frames, {}, {}) /\ EvIs(e2, {b}, {b}, {}, <<>>, {}, {})
    BY <2>4, EventsAre, Zenon
  <2>7. PICK none, after : none = {} /\ after = {b} \ BootBlocks
    BY Zenon
  <2>8. OneAdded(in) /\ OneAdded(none) /\ OneLeft(none) /\ OneLeft(after)
    <3>1. to \in Blocks
      BY Zenon DEF Blocks
    <3>2. OneLeft(after)
      BY <2>7, Zenon DEF OneLeft
    <3> QED BY <2>4, <2>7, <3>1, <3>2, NoneOrOne, Zenon
  <2>9. CASE Feed(t, e1, {})
    <3>1. Feed(t, e1, none)
      BY <2>7, <2>9, Zenon
    <3> QED BY <2>2, <2>3, <2>6, <2>8, <3>1, HeapFeeds, Zenon
  <2>10. CASE Feed(t, e2, {})
    <3>1. Feed(t, e2, none) /\ EvIs(e2, {b}, {b}, none, <<>>, {}, {})
      BY <2>6, <2>7, <2>10, Zenon
    <3> QED BY <2>2, <2>3, <2>8, <3>1, HeapFeeds, Zenon
  <2>11. CASE Feed(t, e, {b} \ BootBlocks)
    <3>1. Feed(t, e, after)
      BY <2>7, <2>11, Zenon
    <3> QED BY <2>2, <2>3, <2>6, <2>8, <3>1, HeapFeeds, Zenon
  <2> QED BY <2>5, <2>9, <2>10, <2>11, Zenon
<1>4. CASE \E r \in Ranges, kind \in MapTags \cup {"file"}, replace \in BOOLEAN : Mmap(t, r, kind, replace, frames)
  <2>1. PICK r \in Ranges, kind \in MapTags \cup {"file"}, replace \in BOOLEAN : Mmap(t, r, kind, replace, frames)
    BY <1>4, Zenon
  <2>2. MapSide'
    BY <1>1, <2>1, MmapMap, Zenon DEF HooksOk
  <2>3. hook[t].at = "guest" /\ UNCHANGED <<store, tr, resolved>> /\ astray \subseteq astray'
    BY <2>1, Zenon DEF Mmap, Calls, HookAt
  <2>4. CASE kind = "file" /\ ~replace
    <3>1. hook' = hook
      BY <2>1, <2>4, Zenon DEF Mmap
    <3> QED BY <2>2, <2>3, <3>1, MapQuiet, Zenon
  <2>5. CASE ~(kind = "file" /\ ~replace)
    <3>1. PICK h, e : FedTo(t, e, {}, h) /\ AboutPages(e, r, kind, replace)
      BY <2>1, <2>5, MmapFeeds, Zenon
    <3>2. EventOk(e) /\ e.in = {} /\ e.out = {}
      BY <3>1, Zenon DEF AboutPages
    <3> QED BY <2>2, <2>3, <3>1, <3>2, MapFeeds, Zenon
  <2> QED BY <2>4, <2>5, Zenon
<1> QED BY <1>2, <1>3, <1>4, Zenon

LEMMA MapCallsKeepTrace ==
    ASSUME HeapInv, TraceInv, NEW t \in Callers, NEW r \in Ranges, Munmap(t, r) \/ RegistryAdd(t, r) \/ FreeMapping(t, r)
    PROVE  TraceInv'
<1>1. MapSide /\ HookOk(hook[t])
  BY Zenon DEF TraceInv
<1>2. MapSide'
  BY <1>1, MunmapMap, RegistryAddMap, FreeMappingMap, Zenon
<1>3. CASE RegistryAdd(t, r)
  <2>1. UNCHANGED <<store, tr, resolved, hook>> /\ astray \subseteq astray'
    BY <1>3, Zenon DEF RegistryAdd
  <2> QED BY <1>2, <2>1, MapQuiet, Zenon
<1>4. CASE Munmap(t, r) \/ FreeMapping(t, r)
  <2>1. Unmaps(t, r) /\ hook[t].at = "guest"
    <3>1. FreeMapping(t, r) => r \in Range(registry)
      BY <1>1, Zenon DEF FreeMapping, MapSide, LentInv
    <3> QED BY <1>4, <3>1, Zenon DEF Munmap, FreeMapping, Calls, HookAt
  <2>2. PICK e : e = [NoEvent EXCEPT !.cut = r, !.late = r]
    BY Zenon
  <2>3. Feed(t, e, {}) /\ UNCHANGED <<store, tr, resolved>> /\ astray \subseteq astray'
    BY <2>1, <2>2, Zenon DEF Unmaps
  <2>4. PICK h : FedTo(t, e, {}, h)
    BY <2>3, FedIs, Zenon
  <2>5. EvIs(e, r, {}, {}, <<>>, r, {})
    BY <2>2, EventsAre, Zenon
  <2>6. EventOk(e) /\ e.in = {} /\ e.out = {}
    BY <2>5, Zenon DEF EventOk, EvIs
  <2> QED BY <1>2, <2>1, <2>3, <2>4, <2>6, MapFeeds, Zenon
<1> QED BY <1>3, <1>4, Zenon

\* At first there is nothing to tell.
LEMMA TraceStarts == ASSUME HeapInit PROVE TraceInv
<1>1. /\ store = [b \in Blocks |-> Vacant] /\ pg = [p \in PageNumbers |-> "free"] /\ registry = <<>>
      /\ tr = Table(TRUE, {}, {}, <<>>, [b \in Blocks |-> Vacant], {})
      /\ lent = {} /\ misfreed = FALSE
      /\ hook = [t \in Callers |-> Resting]
  BY Zenon DEF HeapInit, Table
<1>2. \A t \in Callers : hook[t] = Resting
  BY <1>1, Zenon
<1>3. /\ Resting.at = "guest" /\ Resting.ev = NoEvent /\ Resting.after = {}
      /\ NoEvent.in = {} /\ NoEvent.map = {} /\ NoEvent.cut = {}
  BY DEF Resting, NoEvent
<1>4. EventOk(NoEvent)
  BY <1>3, Zenon DEF EventOk
<1>5. "guest" # "after"
  OBVIOUS
<1>6. HookOk(Resting)
  BY <1>3, <1>4, <1>5, Zenon DEF HookOk
<1>7. \A t \in Callers : HookOk(hook[t]) /\ hook[t].at = "guest"
  BY <1>2, <1>3, <1>6, Zenon
<1>8. \A t \in Callers : \A a : ~Touches(hook[t], a) /\ ~Handles(hook[t], a)
  BY <1>7, RestIs, Zenon
<1>9. tr.ptrs = [b \in Blocks |-> Vacant] /\ tr.regions = {} /\ tr.tags = <<>> /\ Tables(tr)
  <2>1. Tables(tr)
    BY <1>1, Zenon DEF Tables
  <2> QED BY <1>1, <2>1, Zenon DEF Table
<1>10. \A b \in Blocks : store[b] = Vacant /\ tr.ptrs[b] = Vacant
  BY <1>1, <1>9, Zenon
<1>11. HeapSide
  <2>1. \A b \in Blocks : BlockOk(hook, b, store[b], tr.ptrs[b])
    BY <1>8, <1>10, BlockIdle, ToldIs, Zenon
  <2>2. DOMAIN store = Blocks
    BY <1>1, Zenon
  <2> QED BY <1>8, <1>10, <2>1, <2>2, Zenon DEF HeapSide, BlockInv, UnresolvedInv
<1>12. MapSide
  <2>1. ASSUME NEW p \in PageNumbers PROVE PageOk(hook, p, pg[p], Covers(tr.regions, p))
    <3>1. pg[p] = "free" /\ Covers(tr.regions, p) = {}
      BY <1>1, <1>9, Zenon DEF Covers
    <3>2. {"free"} \ {"free", "file"} = {}
      BY Zenon
    <3>3. \A u \in Callers : PageRec(hook[u], p, pg[p], Covers(tr.regions, p))
      BY <1>8, NotHandled, Zenon
    <3> QED BY <1>8, <3>1, <3>2, <3>3, Zenon DEF PageOk
  <2>2. registry \in Seq(Ranges)
    BY <1>1, EmptySeq
  <2>3. DOMAIN pg = PageNumbers /\ LentInv
    BY <1>1, Zenon DEF LentInv
  <2> QED BY <1>1, <2>1, <2>2, <2>3, Zenon DEF MapSide, PageInv
<1>13. TablesOk(tr)
  <2>1. PICK q : q = tr.tags
    BY Zenon
  <2>2. q \in Seq(MapTags) /\ Len(q) = 0 /\ Range(q) = {}
    BY <1>9, <2>1, EmptySeq DEF Range
  <2>3. Cardinality(Range(q)) = 0
    BY <2>2, FS_EmptySet
  <2>4. TagsOk(tr.tags)
    BY <2>1, <2>2, <2>3, Zenon DEF TagsOk
  <2>5. DOMAIN tr.ptrs = Blocks /\ \A r \in tr.regions : Region(r)
    BY <1>9, Zenon
  <2> QED BY <1>9, <2>4, <2>5, Zenon DEF TablesOk
<1> QED BY <1>7, <1>11, <1>12, <1>13, Zenon DEF TraceInv

\* Where nobody is busy with an address, the trace is right about it.
LEMMA TraceTells == ASSUME TraceInv PROVE TraceExact
<1>1. HeapSide /\ MapSide
  BY Zenon DEF TraceInv
<1>2. ASSUME NEW b \in Blocks, ~Busy(b) PROVE tr.ptrs[b] = IF Len(store[b]) < 2 THEN Vacant ELSE store[b]
  <2>1. b \notin astray /\ \A u \in Callers : ~Touches(hook[u], b)
    BY <1>2, Zenon DEF Busy, Touches, Adds, Drops, Defers
  <2>2. BlockOk(hook, b, store[b], tr.ptrs[b])
    BY <1>1, <2>1, Zenon DEF HeapSide, BlockInv
  <2> QED BY <2>1, <2>2, Zenon DEF BlockOk, Told
<1>3. ASSUME NEW p \in PageNumbers, ~Busy(p)
      PROVE  {Last(r.path) : r \in {r \in tr.regions : p \in RegionPages(r)}} = {pg[p]} \ {"free", "file"}
  <2>1. p \notin astray /\ \A u \in Callers : ~Handles(hook[u], p)
    BY <1>3, Zenon DEF Busy, Handles, Maps
  <2>2. PageOk(hook, p, pg[p], Covers(tr.regions, p))
    BY <1>1, <2>1, Zenon DEF MapSide, PageInv
  <2> QED BY <2>1, <2>2, Zenon DEF PageOk, Covers
<1>4. ~misfreed
  BY <1>1 DEF MapSide
<1> QED BY <1>2, <1>3, <1>4, Zenon DEF TraceExact

\* The trace tells who has what: for any callers, blocks, pages, call stacks and
\* registry, and any interleaving of allocations, releases and their records
\* (heaptrack_trace.c and the malloc family of libsystem_shim.c), a block has a
\* record of its size and stack exactly while it is allocated and a page is in
\* the one region of its tag exactly while it is mapped, unless a call is busy
\* with it or it went astray; and a registered mapping is never given to free.
\* If the table of tags has a place for each.
THEOREM TraceIsTheTruth == TagsAreFew /\ HeapSpec => []TraceExact
<1> SUFFICES ASSUME TagsAreFew PROVE HeapSpec => []TraceExact
  OBVIOUS
<1>1. HeapInit => TraceInv
  BY TraceStarts, Zenon
<1>2. HeapInv /\ TraceInv /\ [HeapNext]_heapVars => TraceInv'
  <2> SUFFICES ASSUME HeapInv, TraceInv, [HeapNext]_heapVars PROVE TraceInv'
    OBVIOUS
  <2>1. CASE UNCHANGED heapVars
    <3>1. UNCHANGED <<store, pg, registry, tr, hook, astray, lent, misfreed, resolved>>
      BY <2>1, Zenon DEF heapVars
    <3>2. HeapSide /\ astray \subseteq astray'
      BY <3>1, Zenon DEF TraceInv
    <3>3. HeapSide'
      BY <3>1, <3>2, HeapStays, Zenon
    <3> QED BY <3>1, <3>2, <3>3, HeapQuiet, Zenon
  <2>2. CASE Close
    BY <2>2, CloseKeepsTrace, Zenon
  <2>3. ASSUME NEW t \in Callers, Presolve(t) \/ ResolveNames(t) \/ RecordEvent(t) PROVE TraceInv'
    BY <2>3, TracerKeepsTrace, Zenon
  <2>4. ASSUME NEW t \in Callers, DlLeave(t) \/ \E how \in {"open", "sym"} : DlEnter(t, how) PROVE TraceInv'
    BY <2>4, LoaderCallsKeepTrace, Zenon
  <2>5. ASSUME NEW t \in Callers,
               \/ After(t) \/ HResolve(t)
               \/ \E b \in HeapBlocks : FreeBlock(t, b)
               \/ \E b \in Blocks, to \in HeapBlocks : ReallocUnfed(t, b, to)
               \/ \E b \in ArenaBlocks : GuestFreesRouted(t, b)
        PROVE  TraceInv'
    BY <2>5, HeapCallsKeepTrace, Zenon
  <2>6. ASSUME NEW t \in Callers, NEW r \in Ranges, Munmap(t, r) \/ RegistryAdd(t, r) \/ FreeMapping(t, r)
        PROVE  TraceInv'
    BY <2>6, MapCallsKeepTrace, Zenon
  <2>7. ASSUME NEW t \in Callers, NEW frames \in CallStacks[world],
               \/ \E b \in Blocks, size \in Sizes : Malloc(t, b, size, frames)
               \/ \E b \in Blocks, to \in HeapBlocks, size \in Sizes : Realloc(t, b, to, size, frames)
               \/ \E r \in Ranges, kind \in MapTags \cup {"file"}, replace \in BOOLEAN :
                     Mmap(t, r, kind, replace, frames)
        PROVE  TraceInv'
    BY <2>7, StackedCallsKeepTrace, Zenon
  <2> QED BY <2>1, <2>2, <2>3, <2>4, <2>5, <2>6, <2>7, Zenon DEF HeapNext
<1>3. TraceInv => TraceExact
  BY TraceTells, Zenon
<1> QED BY <1>1, <1>2, <1>3, TracerInvariance, PTL DEF HeapSpec

-----------------------------------------------------------------------------
(* Images in the address space.                                            *)

\* The segments of the program are in ascending order: load64 (loader.c)
\* reserves from the first to the end of the last.
SegmentsAscend ==
    \A j, k \in DOMAIN Segments[Program] :
        j < k => End(Segments[Program][j]) <= Segments[Program][k].at

LEMMA SegmentTypes ==
    ASSUME NEW im \in DOMAIN Segments
    PROVE  /\ Len(Segments[im]) \in Nat \ {0} /\ DOMAIN Segments[im] = 1..Len(Segments[im])
           /\ \A k \in DOMAIN Segments[im] :
                 /\ Segments[im][k].at \in Nat /\ Segments[im][k].vm \in Nat
                 /\ End(Segments[im][k]) = Segments[im][k].at + Segments[im][k].vm
                 /\ End(Segments[im][k]) \in Nat
<1>1. Segments[im] \in Seq([at : Nat, vm : Nat, file : Nat]) /\ Segments[im] # <<>>
  BY MappingAssumption, Zenon
<1>2. ASSUME NEW k \in DOMAIN Segments[im] PROVE Segments[im][k] \in [at : Nat, vm : Nat, file : Nat]
  <2>1. PICK S : S = [at : Nat, vm : Nat, file : Nat]
    OBVIOUS
  <2>2. Segments[im] \in Seq(S)
    BY <1>1, <2>1, Zenon
  <2>3. Segments[im][k] \in S
    BY <2>2
  <2> QED BY <2>1, <2>3, Zenon
<1>3. ASSUME NEW k \in DOMAIN Segments[im]
      PROVE  /\ Segments[im][k].at \in Nat /\ Segments[im][k].vm \in Nat
             /\ End(Segments[im][k]) = Segments[im][k].at + Segments[im][k].vm
             /\ End(Segments[im][k]) \in Nat
  <2>1. PICK seg : seg = Segments[im][k]
    OBVIOUS
  <2>2. seg \in [at : Nat, vm : Nat, file : Nat]
    BY <1>2, <2>1, Zenon
  <2> QED BY <2>1, <2>2 DEF End
<1>4. Len(Segments[im]) \in Nat \ {0} /\ DOMAIN Segments[im] = 1..Len(Segments[im])
  <2>1. PICK S : Segments[im] \in Seq(S)
    BY <1>1, Zenon
  <2> QED BY <1>1, <2>1, EmptySeq, LenProperties
<1> QED BY <1>3, <1>4, Zenon

\* Finitely many numbers have a greatest.
LEMMA GreatestOf ==
    ASSUME NEW f, NEW n \in Nat \ {0}, \A k \in 1..n : f[k] \in Nat
    PROVE  \E k \in 1..n : \A j \in 1..n : f[j] <= f[k]
<1> DEFINE T == {m \in Nat : m + 1 <= n => \E k \in 1..(m + 1) : \A j \in 1..(m + 1) : f[j] <= f[k]}
<1>1. 0 \in T
  <2>1. \A j \in 1..1 : j = 1
    OBVIOUS
  <2> QED BY <2>1
<1>2. ASSUME NEW m \in T PROVE m + 1 \in T
  <2> SUFFICES ASSUME m + 2 <= n PROVE \E k \in 1..(m + 2) : \A j \in 1..(m + 2) : f[j] <= f[k]
    BY <1>2
  <2>1. PICK k \in 1..(m + 1) : \A j \in 1..(m + 1) : f[j] <= f[k]
    BY <1>2
  <2>2. f[k] \in Nat /\ f[m + 2] \in Nat /\ m \in Nat
    BY <1>2, <2>1
  <2>3. CASE f[m + 2] <= f[k]
    BY <2>1, <2>2, <2>3
  <2>4. CASE f[k] < f[m + 2]
    <3>1. ASSUME NEW j \in 1..(m + 2) PROVE f[j] <= f[m + 2]
      <4>1. CASE j = m + 2
        BY <2>2, <4>1
      <4>2. CASE j # m + 2
        <5>1. j \in 1..(m + 1) /\ f[j] \in Nat
          BY <2>2, <4>2
        <5> QED BY <2>1, <2>2, <2>4, <5>1
      <4> QED BY <4>1, <4>2
    <3>2. m + 2 \in 1..(m + 2)
      BY <2>2
    <3> QED BY <3>1, <3>2, Zenon
  <2> QED BY <2>2, <2>3, <2>4
<1>3. T = Nat
  <2>1. T \in SUBSET Nat
    OBVIOUS
  <2> HIDE DEF T
  <2> QED BY <1>1, <1>2, <2>1, AllNumbers, Zenon
<1>4. n - 1 \in T /\ (n - 1) + 1 = n
  <2> HIDE DEF T
  <2> QED BY <1>3
<1> QED BY <1>4

\* What an image reserves reaches around all of its segments.
LEMMA SpanCovers ==
    ASSUME SegmentsAscend, NEW im \in DOMAIN Segments
    PROVE  /\ Low(im) \in Nat /\ High(im) \in Nat /\ Span(im) \in Nat
           /\ \A k \in DOMAIN Segments[im] : Low(im) <= Segments[im][k].at /\ End(Segments[im][k]) <= High(im)
           /\ High(im) = Low(im) + Span(im)
<1> DEFINE segs == Segments[im]
           n == Len(segs)
<1>1. /\ n \in Nat \ {0} /\ DOMAIN segs = 1..n
      /\ \A k \in DOMAIN segs : segs[k].at \in Nat /\ segs[k].vm \in Nat /\ End(segs[k]) = segs[k].at + segs[k].vm
                                /\ End(segs[k]) \in Nat
  BY SegmentTypes, Zenon
<1>2. /\ Low(im) \in Nat /\ High(im) \in Nat
      /\ \A k \in DOMAIN segs : Low(im) <= segs[k].at /\ End(segs[k]) <= High(im)
  <2>1. CASE im = Program
    <3>1. Low(im) = segs[1].at /\ High(im) = End(segs[n])
      BY <2>1, Zenon DEF Low, High
    <3>2. \A j, k \in DOMAIN segs : j < k => End(segs[j]) <= segs[k].at
      BY <2>1, Zenon DEF SegmentsAscend
    <3> HIDE DEF segs, n
    <3>3. 1 \in DOMAIN segs /\ n \in DOMAIN segs
      BY <1>1
    <3>4. ASSUME NEW k \in DOMAIN segs PROVE segs[1].at <= segs[k].at /\ End(segs[k]) <= End(segs[n])
      <4>1. k = 1 \/ 1 < k
        BY <1>1
      <4>2. k = n \/ k < n
        BY <1>1
      <4>3. /\ segs[1].at \in Nat /\ segs[1].vm \in Nat /\ End(segs[1]) = segs[1].at + segs[1].vm
            /\ segs[k].at \in Nat /\ End(segs[k]) \in Nat
            /\ segs[n].at \in Nat /\ segs[n].vm \in Nat /\ End(segs[n]) = segs[n].at + segs[n].vm
        BY <1>1, <3>3, Zenon
      <4>4. 1 < k => End(segs[1]) <= segs[k].at
        BY <3>2, <3>3, Zenon
      <4>5. k < n => End(segs[k]) <= segs[n].at
        BY <3>2, <3>3, Zenon
      <4> QED BY <4>1, <4>2, <4>3, <4>4, <4>5
    <3> QED BY <1>1, <3>1, <3>3, <3>4, Zenon
  <2>2. CASE im # Program
    <3> DEFINE lows == {segs[k].at : k \in DOMAIN segs}
               ends == {End(segs[k]) : k \in DOMAIN segs}
    <3>1. \E a \in lows : \A k \in DOMAIN segs : a <= segs[k].at
      <4> HIDE DEF segs, n
      <4>1. lows \in SUBSET Nat /\ lows # {}
        BY <1>1
      <4>2. PICK a \in lows : \A b \in lows : a <= b
        <5> HIDE DEF lows
        <5> QED BY <4>1, LeastNumber, Zenon
      <4> QED BY <4>2
    <3>2. \E e \in ends : \A k \in DOMAIN segs : e >= End(segs[k])
      <4> HIDE DEF segs, n
      <4> DEFINE f == [k \in DOMAIN segs |-> End(segs[k])]
      <4>1. \A k \in 1..n : f[k] = End(segs[k]) /\ f[k] \in Nat
        BY <1>1
      <4> HIDE DEF f
      <4>2. PICK k \in 1..n : \A j \in 1..n : f[j] <= f[k]
        BY <1>1, <4>1, GreatestOf, Zenon
      <4> QED BY <1>1, <4>1, <4>2
    <3>3. Low(im) = CHOOSE a \in lows : \A k \in DOMAIN segs : a <= segs[k].at
      BY <2>2, Zenon DEF Low
    <3>4. High(im) = CHOOSE e \in ends : \A k \in DOMAIN segs : e >= End(segs[k])
      BY <2>2, Zenon DEF High
    <3>5. Low(im) \in lows /\ \A k \in DOMAIN segs : Low(im) <= segs[k].at
      <4> HIDE DEF segs, lows
      <4> QED BY <3>1, <3>3, Zenon
    <3>6. High(im) \in ends /\ \A k \in DOMAIN segs : High(im) >= End(segs[k])
      <4> HIDE DEF segs, ends
      <4> QED BY <3>2, <3>4, Zenon
    <3>7. Low(im) \in Nat /\ High(im) \in Nat
      <4> HIDE DEF segs
      <4> QED BY <1>1, <3>5, <3>6
    <3> HIDE DEF segs, lows, ends
    <3> QED BY <1>1, <3>5, <3>6, <3>7
  <2> QED BY <2>1, <2>2
<1> HIDE DEF segs, n
<1>3. Low(im) <= High(im)
  <2>1. 1 \in DOMAIN segs
    BY <1>1
  <2>2. Low(im) <= segs[1].at /\ End(segs[1]) <= High(im) /\ segs[1].at \in Nat /\ segs[1].vm \in Nat
        /\ End(segs[1]) = segs[1].at + segs[1].vm
    BY <1>1, <1>2, <2>1, Zenon
  <2> QED BY <1>2, <2>2
<1>4. Span(im) \in Nat /\ High(im) = Low(im) + Span(im)
  BY <1>2, <1>3 DEF Span
<1> QED BY <1>2, <1>4, Zenon DEF segs

-----------------------------------------------------------------------------
(* The program in the address space.                                       *)

\* The pages from base on that the program and its pool take.
Taken(base) == base..(base + Span(Program) + PoolPages - 1)

\* The segments before the n-th are mapped, the pool is behind them, and no page
\* of the whole range is anybody's or nobody's.
WholeUpTo(pages, base, n) ==
    /\ \A p \in Taken(base) : p \in DOMAIN pages /\ pages[p].what \notin {"free", "other"}
    /\ \A i \in 0..(PoolPages - 1) : pages[base + Span(Program) + i] = Page("pool", Program, i)
    /\ \A k \in DOMAIN Segments[Program] : k < n =>
          \A i \in 0..(Segments[Program][k].vm - 1) :
             pages[base + Segments[Program][k].at - Low(Program) + i]
                 = Page(IF i < Segments[Program][k].file THEN "file" ELSE "zero", Program, i)

\* The pages of an image from base on, without its pool.
Body(im, base) == base..(base + Span(im) - 1)

LEMMA SegmentInBody ==
    ASSUME SegmentsAscend, NEW im \in DOMAIN Segments, NEW k \in DOMAIN Segments[im], NEW base \in Nat,
           NEW i \in 0..(Segments[im][k].vm - 1)
    PROVE  base + Segments[im][k].at - Low(im) + i \in Body(im, base)
<1>1. /\ Low(im) \in Nat /\ High(im) \in Nat /\ Span(im) \in Nat /\ High(im) = Low(im) + Span(im)
      /\ Low(im) <= Segments[im][k].at /\ End(Segments[im][k]) <= High(im)
  BY SpanCovers, Zenon
<1>2. /\ Segments[im][k].at \in Nat /\ Segments[im][k].vm \in Nat
      /\ End(Segments[im][k]) = Segments[im][k].at + Segments[im][k].vm
  BY SegmentTypes, Zenon
<1> QED BY <1>1, <1>2 DEF Body

LEMMA ProgramSpan ==
    ASSUME SegmentsAscend
    PROVE  Program \in DOMAIN Segments /\ Span(Program) \in Nat /\ PoolPages \in Nat
  BY SpanCovers, MappingAssumption, Zenon

LEMMA BodyIsTaken ==
    ASSUME SegmentsAscend, NEW base \in Nat
    PROVE  /\ Body(Program, base) \subseteq Taken(base)
           /\ \A i \in 0..(PoolPages - 1) : /\ base + Span(Program) + i \in Taken(base)
                                            /\ base + Span(Program) + i \notin Body(Program, base)
           /\ \A p \in Taken(base) \ Body(Program, base) : p - base - Span(Program) \in 0..(PoolPages - 1)
<1>1. Span(Program) \in Nat /\ PoolPages \in Nat
  BY ProgramSpan, Zenon
<1> QED BY <1>1 DEF Body, Taken

\* Nothing outside its range counts.
LEMMA WholeStays ==
    ASSUME SegmentsAscend, NEW pages, NEW base \in Nat, NEW n, WholeUpTo(pages, base, n),
           NEW later, \A p \in Taken(base) : p \in DOMAIN later /\ later[p] = pages[p]
    PROVE  WholeUpTo(later, base, n)
<1>1. ASSUME NEW p \in Taken(base) PROVE p \in DOMAIN later /\ later[p].what \notin {"free", "other"}
  BY Zenon DEF WholeUpTo
<1>2. ASSUME NEW i \in 0..(PoolPages - 1)
      PROVE  later[base + Span(Program) + i] = Page("pool", Program, i)
  BY BodyIsTaken, Zenon DEF WholeUpTo
<1>3. ASSUME NEW k \in DOMAIN Segments[Program], k < n, NEW i \in 0..(Segments[Program][k].vm - 1)
      PROVE  later[base + Segments[Program][k].at - Low(Program) + i]
                 = Page(IF i < Segments[Program][k].file THEN "file" ELSE "zero", Program, i)
  <2>1. base + Segments[Program][k].at - Low(Program) + i \in Body(Program, base)
    BY ProgramSpan, SegmentInBody, Zenon
  <2>2. base + Segments[Program][k].at - Low(Program) + i \in Taken(base)
    BY <2>1, BodyIsTaken, Zenon
  <2>3. pages[base + Segments[Program][k].at - Low(Program) + i]
            = Page(IF i < Segments[Program][k].file THEN "file" ELSE "zero", Program, i)
    BY <1>3, Zenon DEF WholeUpTo
  <2> QED BY <2>2, <2>3, Zenon
<1> QED BY <1>1, <1>2, <1>3, Zenon DEF WholeUpTo

\* A page in no image is outside.
LEMMA FreePagesAreOutside ==
    ASSUME NEW pages, NEW base, NEW n, WholeUpTo(pages, base, n), NEW p, pages[p] = Free \/ pages[p] = Other
    PROVE  p \notin Taken(base)
<1>1. Free.what = "free" /\ Other.what = "other"
  BY DEF Free, Other, Page
<1> QED BY <1>1, Zenon DEF WholeUpTo

-----------------------------------------------------------------------------
Loads(l) ==
    /\ DOMAIN l = {"image", "pc", "base", "next"}
    /\ l.image \in DOMAIN Segments /\ l.base \in Nat /\ l.next \in Nat \ {0}

\* The program, once placed, is whole; while it is mapped it is whole so far; and
\* a dylib is mapped where nothing of the program is.
SpaceInv ==
    /\ DOMAIN space = 0..(Pages - 1) /\ Program \notin lost
    /\ loading.pc \in {"reserve", "release", "map"} => Loads(loading)
    /\ Program \in DOMAIN placed =>
          placed[Program] \in Nat /\ WholeUpTo(space, placed[Program], Len(Segments[Program]) + 1)
    /\ loading.pc = "reserve" => loading.next = 1
    /\ loading.pc \in {"reserve", "release", "map"} /\ loading.image = Program =>
          /\ Program \notin DOMAIN placed /\ loading.pc # "release"
          /\ loading.pc = "map" => WholeUpTo(space, loading.base, loading.next)
    /\ loading.pc \in {"reserve", "release", "map"} /\ loading.image # Program =>
          /\ Program \in DOMAIN placed
          /\ loading.pc # "reserve" =>
                \A p \in Body(loading.image, loading.base) : p \notin Taken(placed[Program])

LEMMA OthersKeepSpace ==
    ASSUME SegmentsAscend, SpaceInv, UNCHANGED <<loading, placed, lost>>,
           DOMAIN space' = DOMAIN space,
           \A p \in DOMAIN space : space'[p] = space[p] \/ space[p] = Free \/ space[p] = Other
    PROVE  SpaceInv'
<1>1. ASSUME NEW base \in Nat, NEW n, WholeUpTo(space, base, n) PROVE WholeUpTo(space', base, n)
  <2>1. ASSUME NEW p \in Taken(base) PROVE p \in DOMAIN space' /\ space'[p] = space[p]
    <3>1. p \in DOMAIN space
      BY <1>1, Zenon DEF WholeUpTo
    <3> QED BY <1>1, <3>1, FreePagesAreOutside, Zenon
  <2> QED BY <1>1, <2>1, WholeStays, Zenon
<1>2. Program \in DOMAIN placed' =>
          placed'[Program] \in Nat /\ WholeUpTo(space', placed'[Program], Len(Segments[Program]) + 1)
  BY <1>1, Zenon DEF SpaceInv
<1>3. loading.pc \in {"reserve", "release", "map"} /\ loading.image = Program /\ loading.pc = "map" =>
          WholeUpTo(space', loading.base, loading.next)
  BY <1>1, Zenon DEF SpaceInv, Loads
<1> QED BY <1>2, <1>3, Zenon DEF SpaceInv

LEMMA LoadingEnds ==
    ASSUME SpaceInv, UNCHANGED <<space, placed, lost>>, loading'.pc \in {"idle", "exit"} PROVE SpaceInv'
<1>1. loading'.pc \notin {"reserve", "release", "map"}
  OBVIOUS
<1> QED BY <1>1, Zenon DEF SpaceInv

LEMMA NothingIs == /\ Nothing.pc = "idle" /\ \A pc : [Nothing EXCEPT !.pc = pc].pc = pc
  BY DEF Nothing

LEMMA BeginsKeepsSpace ==
    ASSUME SpaceInv, UNCHANGED <<space, placed, lost>>, NEW im \in DOMAIN Segments, Begins(im, 1),
           im = Program <=> Program \notin DOMAIN placed
    PROVE  SpaceInv'
<1>1. loading' = [image |-> im, pc |-> "reserve", base |-> 0, next |-> 1]
  BY Zenon DEF Begins
<1>2. DOMAIN loading' = {"image", "pc", "base", "next"}
  BY <1>1
<1>3. Loads(loading') /\ loading'.image = im /\ loading'.pc = "reserve" /\ loading'.next = 1
  BY <1>1, <1>2 DEF Loads
<1>4. loading'.pc # "release" /\ loading'.pc # "map"
  BY <1>3
<1> QED BY <1>3, <1>4, Zenon DEF SpaceInv

\* mmap takes free pages only.
LEMMA ReserveKeepsSpace ==
    ASSUME SegmentsAscend, SpaceInv, NEW base \in DOMAIN space, Reserve(base) PROVE SpaceInv'
<1>1. PICK im, range : im = loading.image /\ range = base..(base + Span(im) + PoolPages - 1)
  OBVIOUS
<1>2. /\ loading.pc = "reserve" /\ range \subseteq DOMAIN space /\ \A p \in range : space[p] = Free
      /\ placed' = placed /\ lost' = lost
  BY <1>1, Zenon DEF Reserve
<1>3. space' = [p \in DOMAIN space |->
                  IF p \notin range THEN space[p]
                  ELSE IF p < base + Span(im) THEN Page("reserved", im, 0)
                  ELSE Page("pool", im, p - base - Span(im))]
  BY <1>1, Zenon DEF Reserve
<1>4. Loads(loading) /\ loading.next = 1 /\ im \in DOMAIN Segments
  BY <1>1, <1>2, Zenon DEF SpaceInv, Loads
<1>5. base \in Nat /\ Span(im) \in Nat /\ PoolPages \in Nat
  <2>1. DOMAIN space = 0..(Pages - 1) /\ Pages \in Nat
    BY MappingAssumption, Zenon DEF SpaceInv
  <2>2. base \in Nat
    BY <2>1
  <2> QED BY <1>4, <2>2, SpanCovers, MappingAssumption, Zenon
<1>6. /\ loading'.image = im /\ loading'.base = base /\ loading'.next = 1 /\ Loads(loading')
      /\ loading'.pc = IF GivesBack(im) THEN "release" ELSE "map"
  <2>1. PICK pc : pc = IF GivesBack(im) THEN "release" ELSE "map"
    OBVIOUS
  <2>2. loading' = [loading EXCEPT !.base = base, !.pc = pc]
    BY <1>1, <2>1, Zenon DEF Reserve
  <2>3. DOMAIN loading' = DOMAIN loading
    BY <2>2
  <2>4. loading'.image = im /\ loading'.base = base /\ loading'.next = 1 /\ loading'.pc = pc
    BY <1>1, <1>4, <2>2 DEF Loads
  <2> QED BY <1>4, <1>5, <2>1, <2>3, <2>4 DEF Loads
<1>7. DOMAIN space' = DOMAIN space /\ \A p \in DOMAIN space : space'[p] = space[p] \/ space[p] = Free
  BY <1>2, <1>3, Zenon
<1>8. Program \in DOMAIN placed =>
          placed[Program] \in Nat /\ WholeUpTo(space', placed[Program], Len(Segments[Program]) + 1)
  <2> SUFFICES ASSUME Program \in DOMAIN placed
               PROVE  placed[Program] \in Nat /\ WholeUpTo(space', placed[Program], Len(Segments[Program]) + 1)
    OBVIOUS
  <2>1. placed[Program] \in Nat /\ WholeUpTo(space, placed[Program], Len(Segments[Program]) + 1)
    BY Zenon DEF SpaceInv
  <2>2. ASSUME NEW p \in Taken(placed[Program]) PROVE p \in DOMAIN space' /\ space'[p] = space[p]
    <3>1. p \in DOMAIN space
      BY <2>1, Zenon DEF WholeUpTo
    <3> QED BY <1>7, <2>1, <3>1, FreePagesAreOutside, Zenon
  <2> QED BY <2>1, <2>2, WholeStays, Zenon
<1>9. CASE im = Program
  <2>1. ~GivesBack(im)
    BY <1>9, Zenon DEF GivesBack
  <2>2. Loads(loading') /\ loading'.image = Program /\ loading'.pc = "map" /\ loading'.base = base /\ loading'.next = 1
    BY <1>6, <1>9, <2>1, Zenon
  <2>3. Taken(base) = range
    BY <1>1, <1>9, Zenon DEF Taken
  <2>4. ASSUME NEW p \in Taken(base) PROVE p \in DOMAIN space' /\ space'[p].what \notin {"free", "other"}
    <3>1. p \in DOMAIN space /\ p \in range
      BY <1>2, <2>3, Zenon
    <3>2. space'[p] = Page("reserved", im, 0) \/ \E i : space'[p] = Page("pool", im, i)
      BY <1>3, <3>1, Zenon
    <3> QED BY <1>7, <3>1, <3>2 DEF Page
  <2>5. ASSUME NEW i \in 0..(PoolPages - 1)
        PROVE  space'[base + Span(Program) + i] = Page("pool", Program, i)
    <3>1. PICK p : p = base + Span(Program) + i
      OBVIOUS
    <3>2. p \in Taken(base)
      BY <1>5, <1>9, <3>1 DEF Taken
    <3>3. ~(p < base + Span(im)) /\ p - base - Span(im) = i
      BY <1>5, <1>9, <3>1
    <3>4. p \in DOMAIN space
      BY <1>2, <2>3, <3>2, Zenon
    <3>5. space'[p] = Page("pool", im, p - base - Span(im))
      BY <1>3, <2>3, <3>2, <3>3, <3>4, Zenon
    <3> QED BY <1>9, <3>1, <3>3, <3>5, Zenon
  <2>6. \A k \in DOMAIN Segments[Program] : ~(k < 1)
    BY SegmentTypes, ProgramSpan
  <2>7. WholeUpTo(space', loading'.base, loading'.next)
    BY <2>2, <2>4, <2>5, <2>6, Zenon DEF WholeUpTo
  <2>8. Program \notin DOMAIN placed'
    BY <1>1, <1>2, <1>9, Zenon DEF SpaceInv
  <2>9. loading'.pc # "release" /\ loading'.pc # "reserve"
    BY <2>2
  <2> QED BY <1>2, <1>7, <1>8, <2>2, <2>7, <2>8, <2>9, Zenon DEF SpaceInv
<1>10. CASE im # Program
  <2>1. GivesBack(im)
    BY <1>10, Zenon DEF GivesBack
  <2>2. Loads(loading') /\ loading'.image = im /\ loading'.pc = "release" /\ loading'.base = base
    BY <1>6, <2>1, Zenon
  <2>3. Program \in DOMAIN placed
    BY <1>1, <1>2, <1>10, Zenon DEF SpaceInv
  <2>4. WholeUpTo(space, placed[Program], Len(Segments[Program]) + 1)
    BY <2>3, Zenon DEF SpaceInv
  <2>5. Body(im, base) \subseteq range
    BY <1>1, <1>5 DEF Body
  <2>6. \A p \in Body(im, base) : p \notin Taken(placed[Program])
    BY <1>2, <2>4, <2>5, FreePagesAreOutside, Zenon
  <2>7. loading'.pc # "map" /\ loading'.pc # "reserve"
    BY <2>2
  <2> QED BY <1>2, <1>7, <1>8, <1>10, <2>2, <2>3, <2>6, <2>7, Zenon DEF SpaceInv
<1> QED BY <1>9, <1>10

LEMMA ReleaseKeepsSpace ==
    ASSUME SegmentsAscend, SpaceInv, Release PROVE SpaceInv'
<1>1. loading.pc = "release" /\ placed' = placed /\ lost' = lost /\ loading' = [loading EXCEPT !.pc = "map"]
  BY Zenon DEF Release
<1>2. Loads(loading) /\ loading.image # Program /\ Program \in DOMAIN placed
  BY <1>1, Zenon DEF SpaceInv
<1>3. /\ placed[Program] \in Nat /\ WholeUpTo(space, placed[Program], Len(Segments[Program]) + 1)
      /\ \A p \in Body(loading.image, loading.base) : p \notin Taken(placed[Program])
  <2>1. loading.pc # "reserve"
    BY <1>1
  <2> QED BY <1>1, <1>2, <2>1, Zenon DEF SpaceInv
<1>4. space' = [p \in DOMAIN space |-> IF p \in Body(loading.image, loading.base) THEN Free ELSE space[p]]
  BY Zenon DEF Release, Body
<1>5. WholeUpTo(space', placed[Program], Len(Segments[Program]) + 1)
  <2>1. ASSUME NEW p \in Taken(placed[Program]) PROVE p \in DOMAIN space' /\ space'[p] = space[p]
    <3>1. p \in DOMAIN space /\ p \notin Body(loading.image, loading.base)
      BY <1>3, Zenon DEF WholeUpTo
    <3> QED BY <1>4, <3>1, Zenon
  <2> QED BY <1>3, <2>1, WholeStays, Zenon
<1>6. DOMAIN loading' = DOMAIN loading
  BY <1>1
<1>7. /\ loading'.image = loading.image /\ loading'.base = loading.base /\ loading'.next = loading.next
      /\ loading'.pc = "map"
  BY <1>1, <1>2 DEF Loads
<1>8. Loads(loading')
  BY <1>2, <1>6, <1>7, Zenon DEF Loads
<1>9. DOMAIN space' = DOMAIN space /\ loading'.pc # "reserve"
  BY <1>4, <1>7
<1> QED BY <1>1, <1>2, <1>3, <1>5, <1>7, <1>8, <1>9, Zenon DEF SpaceInv

LEMMA PagesInside ==
    ASSUME NEW base \in Nat, NEW at \in Nat, NEW vm \in Nat, NEW low \in Nat, NEW span \in Nat,
           low <= at, at + vm <= low + span
    PROVE  /\ base + at - low \in Nat
           /\ \A p \in (base + at - low)..((base + at - low) + vm - 1) : p \in base..(base + span - 1)
  OBVIOUS

LEMMA PageAt ==
    ASSUME NEW base \in Nat, NEW at \in Nat, NEW vm \in Nat, NEW low \in Nat, low <= at,
           NEW i \in 0..(vm - 1)
    PROVE  /\ base + at - low + i \in (base + at - low)..((base + at - low) + vm - 1)
           /\ (base + at - low + i) - (base + at - low) = i
  OBVIOUS

LEMMA PagesBelow ==
    ASSUME NEW base \in Nat, NEW low \in Nat, NEW at \in Nat, NEW vm \in Nat, NEW above \in Nat,
           NEW n \in Nat, NEW i \in 0..(vm - 1), at + vm <= above
    PROVE  base + at - low + i \notin (base + above - low)..((base + above - low) + n - 1)
  OBVIOUS

\* MAP_FIXED replaces pages of the image's own range only.
LEMMA MapKeepsSpace ==
    ASSUME SegmentsAscend, SpaceInv, MapSegment PROVE SpaceInv'
<1>1. PICK im, k, seg, base, first, range :
          /\ im = loading.image /\ k = loading.next /\ seg = Segments[im][k] /\ base = loading.base
          /\ first = base + seg.at - Low(im) /\ range = first..(first + seg.vm - 1)
  OBVIOUS
<1>2. /\ loading.pc = "map" /\ k <= Len(Segments[im]) /\ placed' = placed
      /\ loading' = [loading EXCEPT !.next = @ + 1]
      /\ lost' = IF \E p \in range : space[p] = Other THEN lost \cup {im} ELSE lost
  BY <1>1, Zenon DEF MapSegment
<1>3. space' = [p \in DOMAIN space |->
                  IF p \notin range THEN space[p]
                  ELSE Page(IF p < first + seg.file THEN "file" ELSE "zero", im, p - first)]
  BY <1>1, Zenon DEF MapSegment
<1>4. Loads(loading) /\ im \in DOMAIN Segments /\ base \in Nat /\ k \in Nat \ {0}
  BY <1>1, <1>2, Zenon DEF SpaceInv, Loads
<1>5. k \in DOMAIN Segments[im] /\ seg.at \in Nat /\ seg.vm \in Nat /\ End(seg) = seg.at + seg.vm
  <2>1. Len(Segments[im]) \in Nat /\ DOMAIN Segments[im] = 1..Len(Segments[im])
    BY <1>4, SegmentTypes
  <2>2. k \in DOMAIN Segments[im]
    BY <1>2, <1>4, <2>1
  <2> QED BY <1>1, <1>4, <2>2, SegmentTypes, Zenon
<1>6. /\ Low(im) \in Nat /\ Span(im) \in Nat /\ High(im) = Low(im) + Span(im)
      /\ Low(im) <= seg.at /\ End(seg) <= High(im)
  BY <1>1, <1>4, <1>5, SpanCovers, Zenon
<1>7. range \subseteq Body(im, base) /\ first \in Nat
  <2>1. seg.at + seg.vm <= Low(im) + Span(im)
    BY <1>5, <1>6, Zenon
  <2>2. PICK at, vm, low, span : at = seg.at /\ vm = seg.vm /\ low = Low(im) /\ span = Span(im)
    OBVIOUS
  <2>3. /\ at \in Nat /\ vm \in Nat /\ low \in Nat /\ span \in Nat /\ low <= at /\ at + vm <= low + span
    BY <1>5, <1>6, <2>1, <2>2, Zenon
  <2>4. first = base + at - low /\ range = (base + at - low)..((base + at - low) + vm - 1)
    BY <1>1, <2>2, Zenon
  <2>5. base + at - low \in Nat /\ \A p \in range : p \in base..(base + span - 1)
    BY <1>4, <2>3, <2>4, PagesInside, Zenon
  <2> QED BY <2>2, <2>4, <2>5, Zenon DEF Body
<1>8. /\ loading'.image = im /\ loading'.base = base /\ loading'.next = k + 1 /\ loading'.pc = "map"
      /\ Loads(loading') /\ DOMAIN space' = DOMAIN space
  <2>1. DOMAIN loading' = DOMAIN loading
    BY <1>2
  <2>2. loading'.image = im /\ loading'.base = base /\ loading'.next = k + 1 /\ loading'.pc = "map"
    BY <1>1, <1>2, <1>4 DEF Loads
  <2> QED BY <1>3, <1>4, <2>1, <2>2 DEF Loads
<1>9. loading'.pc # "reserve" /\ loading'.pc # "release" /\ loading.pc # "reserve"
  BY <1>2, <1>8
<1>10. CASE im # Program
  <2>1. /\ Program \in DOMAIN placed /\ placed[Program] \in Nat
        /\ WholeUpTo(space, placed[Program], Len(Segments[Program]) + 1)
        /\ \A p \in Body(im, base) : p \notin Taken(placed[Program])
    BY <1>1, <1>2, <1>9, <1>10, Zenon DEF SpaceInv
  <2>2. ASSUME NEW p \in Taken(placed[Program]) PROVE p \in DOMAIN space' /\ space'[p] = space[p]
    <3>1. p \in DOMAIN space /\ p \notin range
      BY <1>7, <2>1, Zenon DEF WholeUpTo
    <3> QED BY <1>3, <3>1, Zenon
  <2>3. WholeUpTo(space', placed[Program], Len(Segments[Program]) + 1)
    BY <2>1, <2>2, WholeStays, Zenon
  <2>4. Program \notin lost'
    BY <1>2, <1>10, Zenon DEF SpaceInv
  <2> QED BY <1>2, <1>8, <1>9, <1>10, <2>1, <2>3, <2>4, Zenon DEF SpaceInv
<1>11. CASE im = Program
  <2>1. Program \notin DOMAIN placed /\ WholeUpTo(space, base, k)
    BY <1>1, <1>2, <1>11, Zenon DEF SpaceInv
  <2>2. range \subseteq Taken(base)
    BY <1>4, <1>7, <1>11, BodyIsTaken, Zenon
  <2>3. lost' = lost
    BY <1>2, <2>1, <2>2, FreePagesAreOutside, Zenon
  <2>4. ASSUME NEW p \in Taken(base) PROVE p \in DOMAIN space' /\ space'[p].what \notin {"free", "other"}
    <3>1. p \in DOMAIN space /\ space[p].what \notin {"free", "other"}
      BY <2>1, Zenon DEF WholeUpTo
    <3>2. CASE p \notin range
      BY <1>3, <3>1, <3>2, Zenon
    <3>3. CASE p \in range
      <4>1. PICK w \in {"file", "zero"} : space'[p] = Page(w, im, p - first)
        BY <1>3, <3>1, <3>3, Zenon
      <4>2. space'[p].what = w
        BY <4>1 DEF Page
      <4> QED BY <1>8, <3>1, <4>2
    <3> QED BY <3>2, <3>3
  <2>5. ASSUME NEW i \in 0..(PoolPages - 1)
        PROVE  space'[base + Span(Program) + i] = Page("pool", Program, i)
    <3>1. base + Span(Program) + i \in Taken(base) /\ base + Span(Program) + i \notin Body(Program, base)
      BY <1>4, BodyIsTaken, Zenon
    <3>2. base + Span(Program) + i \in DOMAIN space /\ base + Span(Program) + i \notin range
      BY <1>7, <1>11, <2>1, <3>1, Zenon DEF WholeUpTo
    <3>3. space'[base + Span(Program) + i] = space[base + Span(Program) + i]
      BY <1>3, <3>2, Zenon
    <3> QED BY <2>1, <3>3, Zenon DEF WholeUpTo
  <2>6. ASSUME NEW j \in DOMAIN Segments[Program], j < k + 1, NEW i \in 0..(Segments[Program][j].vm - 1)
        PROVE  space'[base + Segments[Program][j].at - Low(Program) + i]
                   = Page(IF i < Segments[Program][j].file THEN "file" ELSE "zero", Program, i)
    <3>1. PICK p : p = base + Segments[Program][j].at - Low(Program) + i
      OBVIOUS
    <3>2. p \in Taken(base)
      BY <1>4, <3>1, SegmentInBody, BodyIsTaken, ProgramSpan, Zenon
    <3>3. p \in DOMAIN space
      BY <2>1, <3>2, Zenon DEF WholeUpTo
    <3>4. /\ Segments[Program][j].at \in Nat /\ Segments[Program][j].vm \in Nat /\ j \in Nat
          /\ End(Segments[Program][j]) = Segments[Program][j].at + Segments[Program][j].vm
      <4>1. j \in Nat
        BY SegmentTypes, ProgramSpan
      <4> QED BY <4>1, SegmentTypes, ProgramSpan, Zenon
    <3>5. CASE j = k
      <4>1. seg = Segments[Program][j]
        BY <1>1, <1>11, <3>5, Zenon
      <4>2. seg.file \in Nat
        <5>1. PICK S : S = [at : Nat, vm : Nat, file : Nat]
          OBVIOUS
        <5>2. Segments[im] \in Seq(S)
          BY <1>4, <5>1, MappingAssumption, Zenon
        <5>3. seg \in S
          BY <1>1, <1>5, <5>2
        <5> QED BY <5>1, <5>3
      <4>3. p \in range /\ p - first = i /\ (p < first + seg.file <=> i < seg.file)
        <5>1. PICK at, vm, low, n : at = seg.at /\ vm = seg.vm /\ low = Low(im) /\ n = seg.file
          OBVIOUS
        <5>2. i \in 0..(vm - 1) /\ p = base + at - low + i
          BY <1>11, <3>1, <4>1, <5>1, Zenon
        <5>3. at \in Nat /\ vm \in Nat /\ low \in Nat /\ low <= at /\ n \in Nat
          BY <1>5, <1>6, <4>2, <5>1, Zenon
        <5>4. first = base + at - low /\ range = (base + at - low)..((base + at - low) + vm - 1)
          BY <1>1, <5>1, Zenon
        <5>5. p \in range /\ p - first = i
          <6>1. /\ base + at - low + i \in (base + at - low)..((base + at - low) + vm - 1)
                /\ (base + at - low + i) - (base + at - low) = i
            <7>1. i \in 0..(vm - 1)
              BY <5>2, Zenon
            <7> QED BY <1>4, <5>3, <7>1, PageAt
          <6> QED BY <5>2, <5>4, <6>1, Zenon
        <5>6. p < first + n <=> i < n
          <6>1. p \in Int /\ i \in Int /\ first \in Int
            BY <1>4, <5>2, <5>3, <5>4
          <6> QED BY <5>3, <5>5, <6>1
        <5> QED BY <5>1, <5>5, <5>6, Zenon
      <4>4. space'[p] = Page(IF p < first + seg.file THEN "file" ELSE "zero", im, p - first)
        BY <1>3, <3>3, <4>3, Zenon
      <4> QED BY <1>11, <3>1, <4>1, <4>3, <4>4, Zenon
    <3>6. CASE j # k
      <4>1. j < k
        BY <1>4, <2>6, <3>4, <3>6
      <4>2. End(Segments[Program][j]) <= seg.at
        BY <1>1, <1>5, <1>11, <4>1, Zenon DEF SegmentsAscend
      <4>3. p \notin range
        <5>1. Segments[Program][j].at + Segments[Program][j].vm <= seg.at
          BY <3>4, <4>2, Zenon
        <5> QED BY <1>1, <1>4, <1>5, <1>6, <1>11, <3>1, <3>4, <5>1, PagesBelow, Zenon
      <4>4. space'[p] = space[p]
        BY <1>3, <3>3, <4>3, Zenon
      <4>5. space[p] = Page(IF i < Segments[Program][j].file THEN "file" ELSE "zero", Program, i)
        BY <2>1, <3>1, <4>1, Zenon DEF WholeUpTo
      <4> QED BY <3>1, <4>4, <4>5, Zenon
    <3> QED BY <3>5, <3>6
  <2>7. WholeUpTo(space', base, k + 1)
    BY <2>4, <2>5, <2>6, Zenon DEF WholeUpTo
  <2> QED BY <1>2, <1>8, <1>9, <1>11, <2>1, <2>3, <2>7, Zenon DEF SpaceInv
<1> QED BY <1>10, <1>11

LEMMA LoadedKeepsSpace ==
    ASSUME SegmentsAscend, SpaceInv, NEW im \in DOMAIN Segments, ImageLoaded(im) PROVE SpaceInv'
<1>1. /\ loading.pc = "map" /\ loading.image = im /\ loading.next > Len(Segments[im])
      /\ loading' = Nothing /\ space' = space /\ lost' = lost
      /\ placed' = [i \in DOMAIN placed \cup {im} |-> IF i = im THEN loading.base ELSE placed[i]]
  BY Zenon DEF ImageLoaded
<1>2. loading'.pc \notin {"reserve", "release", "map"}
  BY <1>1, NothingIs
<1>3. Program \in DOMAIN placed' =>
          placed'[Program] \in Nat /\ WholeUpTo(space', placed'[Program], Len(Segments[Program]) + 1)
  <2>1. CASE im = Program
    <3>1. placed'[Program] = loading.base /\ loading.base \in Nat /\ loading.next \in Nat \ {0}
          /\ WholeUpTo(space, loading.base, loading.next)
      BY <1>1, <2>1, Zenon DEF SpaceInv, Loads
    <3>2. Len(Segments[Program]) \in Nat /\ DOMAIN Segments[Program] = 1..Len(Segments[Program])
      BY SegmentTypes, ProgramSpan
    <3>3. \A j \in DOMAIN Segments[Program] : j < Len(Segments[Program]) + 1 => j < loading.next
      BY <1>1, <2>1, <3>1, <3>2
    <3>4. WholeUpTo(space, loading.base, Len(Segments[Program]) + 1)
      BY <3>1, <3>3, Zenon DEF WholeUpTo
    <3> QED BY <1>1, <3>1, <3>4, Zenon
  <2>2. CASE im # Program
    <3>1. Program \in DOMAIN placed' => Program \in DOMAIN placed /\ placed'[Program] = placed[Program]
      BY <1>1, <2>2, Zenon
    <3> QED BY <1>1, <3>1, Zenon DEF SpaceInv
  <2> QED BY <2>1, <2>2
<1> QED BY <1>1, <1>2, <1>3, Zenon DEF SpaceInv

\* Other threads mmap and munmap, and load64 and dylib_loader_load map images.
LEMMA MappingKeepsSpace ==
    ASSUME SegmentsAscend, SpaceInv, [MappingNext]_mappingVars PROVE SpaceInv'
<1>1. CASE UNCHANGED <<space, loading, placed, lost>>
  BY <1>1, OthersKeepSpace, Zenon
<1>2. CASE UNCHANGED mappingVars \/ (\E n \in 1..2 : Carve(IF carved = <<>> THEN "lse" ELSE "trampolines", n))
           \/ (\E f \in Frames : SetupStack(f))
  BY <1>1, <1>2, Zenon DEF mappingVars, Carve, SetupStack
<1>3. CASE \E p \in DOMAIN space : OtherMaps(p) \/ OtherUnmaps(p) \/ Reserve(p)
  <2>1. PICK p \in DOMAIN space : OtherMaps(p) \/ OtherUnmaps(p) \/ Reserve(p)
    BY <1>3, Zenon
  <2>2. CASE OtherMaps(p) \/ OtherUnmaps(p)
    <3>1. /\ UNCHANGED <<loading, placed, lost>> /\ (space[p] = Free \/ space[p] = Other)
          /\ \E w : space' = [space EXCEPT ![p] = w]
      BY <2>2, Zenon DEF OtherMaps, OtherUnmaps
    <3>2. PICK w : space' = [space EXCEPT ![p] = w]
      BY <3>1, Zenon
    <3>3. DOMAIN space' = DOMAIN space
          /\ \A q \in DOMAIN space : space'[q] = space[q] \/ space[q] = Free \/ space[q] = Other
      BY <3>1, <3>2
    <3> QED BY <3>1, <3>3, OthersKeepSpace, Zenon
  <2>3. CASE Reserve(p)
    BY <2>3, ReserveKeepsSpace, Zenon
  <2> QED BY <2>1, <2>2, <2>3
<1>4. CASE \E archs \in Slices : LoadProgram(archs)
  <2>1. Program \notin DOMAIN placed /\ UNCHANGED <<space, placed, lost>>
    BY <1>4, Zenon DEF LoadProgram
  <2>2. Begins(Program, 1) \/ loading' = [Nothing EXCEPT !.pc = "exit"]
    BY <1>4, Zenon DEF LoadProgram
  <2>3. CASE Begins(Program, 1)
    BY <2>1, <2>3, BeginsKeepsSpace, ProgramSpan, Zenon
  <2>4. CASE loading' = [Nothing EXCEPT !.pc = "exit"]
    <3>1. loading'.pc \in {"idle", "exit"}
      BY <2>4, NothingIs
    <3> QED BY <2>1, <3>1, LoadingEnds, Zenon
  <2> QED BY <2>2, <2>3, <2>4
<1>5. CASE \E im \in DOMAIN Segments : LoadDylib(im) \/ ImageLoaded(im)
  <2>1. PICK im \in DOMAIN Segments : LoadDylib(im) \/ ImageLoaded(im)
    BY <1>5, Zenon
  <2>2. CASE LoadDylib(im)
    <3>1. im # Program /\ Program \in DOMAIN placed /\ UNCHANGED <<space, placed, lost>> /\ Begins(im, 1)
      BY <2>2, Zenon DEF LoadDylib
    <3> QED BY <3>1, BeginsKeepsSpace, Zenon
  <2>3. CASE ImageLoaded(im)
    BY <2>3, LoadedKeepsSpace, Zenon
  <2> QED BY <2>1, <2>2, <2>3
<1>6. CASE ReserveFails \/ MapFails
  <2>1. UNCHANGED <<space, placed, lost>>
        /\ loading' = [Nothing EXCEPT !.pc = IF loading.image = Program THEN "exit" ELSE "idle"]
    BY <1>6, Zenon DEF ReserveFails, MapFails
  <2>2. PICK pc \in {"exit", "idle"} : loading' = [Nothing EXCEPT !.pc = pc]
    BY <2>1, Zenon
  <2>3. loading'.pc \in {"idle", "exit"}
    BY <2>2, NothingIs
  <2> QED BY <2>1, <2>3, LoadingEnds, Zenon
<1> QED BY <1>2, <1>3, <1>4, <1>5, <1>6, ReleaseKeepsSpace, MapKeepsSpace, Zenon DEF MappingNext

-----------------------------------------------------------------------------
(* The pool and the stack.                                                 *)

\* setup_stack64 leaves room for the strings above the table, in words, and
\* aligns what is below.
LEMMA StackLaidOut ==
    ASSUME NEW f \in [argc : Nat, envc : Nat, path : Nat]
    PROVE  /\ StackDepth(f) % 16 = 0
           /\ StackDepth(f) - 8 * TableWords(f) >= Strings(f)
<1>1. PICK t, w, n : t = TableWords(f) /\ n = Strings(f) /\ w = Words(n)
  OBVIOUS
<1>2. t \in Nat /\ n \in Nat
  BY <1>1 DEF TableWords, Strings, ExecutablePath, KernfdSize, ElfcallsSize
<1>3. w \in Nat /\ 8 * w >= n
  BY <1>1, <1>2 DEF Words
<1>4. PICK bytes : bytes = 8 * (t + w)
  OBVIOUS
<1>5. bytes \in Nat /\ bytes - 8 * t = 8 * w /\ bytes % 8 = 0
  BY <1>2, <1>3, <1>4
<1>6. StackDepth(f) = bytes + ((16 - (bytes % 16)) % 16)
  BY <1>1, <1>4, Zenon DEF StackDepth
<1>7. (16 - (bytes % 16)) % 16 \in 0..15 /\ (bytes + ((16 - (bytes % 16)) % 16)) % 16 = 0
  BY <1>5
<1>8. StackDepth(f) >= bytes
  BY <1>5, <1>6, <1>7
<1>9. StackDepth(f) % 16 = 0 /\ StackDepth(f) \in Nat
  BY <1>5, <1>6, <1>7
<1>10. StackDepth(f) - 8 * t >= n
  BY <1>2, <1>3, <1>5, <1>8, <1>9
<1> QED BY <1>1, <1>9, <1>10, Zenon

\* What is carved off comes before what is left, and in order.
PoolInv ==
    /\ pool \in Nat /\ IsSeq(carved)
    /\ \A k \in DOMAIN carved : carved[k].to \in Nat /\ carved[k].to <= pool
    /\ StackFits

LEMMA MappingKeepsPool ==
    ASSUME PoolInv, [MappingNext]_mappingVars PROVE PoolInv'
<1>1. CASE UNCHANGED <<pool, carved, frame>>
  BY <1>1, Zenon DEF PoolInv, StackFits
<1>2. CASE \E f \in Frames : SetupStack(f)
  <2>1. PICK f \in Frames : SetupStack(f)
    BY <1>2, Zenon
  <2>2. f \in [argc : Nat, envc : Nat, path : Nat]
    BY MappingAssumption, Zenon
  <2>3. UNCHANGED <<pool, carved>>
        /\ frame' = [sp |-> StackDepth(f), table |-> 8 * TableWords(f), strings |-> Strings(f)]
    BY <2>1, Zenon DEF SetupStack
  <2>4. frame'.sp = StackDepth(f) /\ frame'.table = 8 * TableWords(f) /\ frame'.strings = Strings(f)
    BY <2>3
  <2>5. frame'.sp % 16 = 0 /\ frame'.sp - frame'.table >= frame'.strings
    BY <2>2, <2>4, StackLaidOut, Zenon
  <2> QED BY <2>3, <2>5, Zenon DEF PoolInv, StackFits
<1>3. CASE \E n \in 1..2 : Carve(IF carved = <<>> THEN "lse" ELSE "trampolines", n)
  <2>1. PICK n \in 1..2 : Carve(IF carved = <<>> THEN "lse" ELSE "trampolines", n)
    BY <1>3, Zenon
  <2> DEFINE who == IF carved = <<>> THEN "lse" ELSE "trampolines"
  <2>2. frame' = frame
    BY <2>1, Zenon DEF Carve
  <2>3. CASE UNCHANGED <<pool, carved>>
    BY <1>1, <2>2, <2>3, Zenon
  <2>4. CASE /\ pool' = pool + n
             /\ carved' = Append(carved, [who |-> who, from |-> pool, to |-> pool + n])
    <3>1. PICK e : e = [who |-> who, from |-> pool, to |-> pool + n]
      OBVIOUS
    <3>2. e.from = pool /\ e.to = pool' /\ carved' = Append(carved, e)
      BY <2>4, <3>1
    <3>3. pool \in Nat /\ pool' \in Nat /\ pool <= pool'
      BY <2>4 DEF PoolInv
    <3>4. /\ IsSeq(carved') /\ Len(carved) \in Nat /\ DOMAIN carved = 1..Len(carved)
          /\ DOMAIN carved' = 1..(Len(carved) + 1) /\ carved'[Len(carved) + 1] = e
          /\ \A i \in 1..Len(carved) : carved'[i] = carved[i]
      <4>1. IsSeq(carved)
        BY Zenon DEF PoolInv
      <4> QED BY <3>2, <4>1, AppendAny
    <3>5. ASSUME NEW k \in DOMAIN carved' PROVE carved'[k].to \in Nat /\ carved'[k].to <= pool'
      <4>1. CASE k = Len(carved) + 1
        BY <3>2, <3>3, <3>4, <4>1
      <4>2. CASE k # Len(carved) + 1
        <5>1. k \in DOMAIN carved /\ carved'[k] = carved[k]
          BY <3>4, <4>2
        <5>2. carved[k].to \in Nat /\ carved[k].to <= pool
          BY <5>1, Zenon DEF PoolInv
        <5> QED BY <3>3, <5>1, <5>2
      <4> QED BY <4>1, <4>2
    <3>6. ASSUME NEW j \in DOMAIN carved', NEW k \in DOMAIN carved', j < k
          PROVE  carved'[j].to <= carved'[k].from
      <4>1. j \in DOMAIN carved /\ carved'[j] = carved[j]
        BY <3>4, <3>6
      <4>2. CASE k = Len(carved) + 1
        <5>1. carved[j].to <= pool
          BY <4>1, Zenon DEF PoolInv
        <5> QED BY <3>2, <3>4, <4>1, <4>2, <5>1, Zenon
      <4>3. CASE k # Len(carved) + 1
        <5>1. k \in DOMAIN carved /\ carved'[k] = carved[k]
          BY <3>4, <4>3
        <5> QED BY <3>6, <4>1, <5>1, Zenon DEF PoolInv, StackFits
      <4> QED BY <4>2, <4>3
    <3> QED BY <2>2, <3>3, <3>4, <3>5, <3>6, Zenon DEF PoolInv, StackFits
  <2> QED BY <2>1, <2>3, <2>4, Zenon DEF Carve
<1> QED BY <1>1, <1>2, <1>3, Zenon DEF MappingNext, mappingVars, OtherMaps, OtherUnmaps, Reserve, LoadProgram,
        LoadDylib, ImageLoaded, ReserveFails, Release, MapSegment, MapFails

\* The program that load64 mapped stays whole, its pool too, whatever the other
\* threads map and unmap while it is mapped and later, and whatever dylibs are
\* mapped into ranges that were given back; nobody's page was replaced for it.
\* Its stack is aligned and its tables end below their strings, and parts of
\* the pool do not overlap.  For any segments in ascending order, any number of
\* pages, threads' pages, arguments and lengths of the path.
THEOREM ProgramStartsWhole == SegmentsAscend /\ MappingSpec => []StartsWhole
<1> SUFFICES ASSUME SegmentsAscend PROVE MappingSpec => []StartsWhole
  OBVIOUS
<1>1. MappingInit => SpaceInv /\ PoolInv
  <2> SUFFICES ASSUME MappingInit PROVE SpaceInv /\ PoolInv
    OBVIOUS
  <2>1. DOMAIN space = 0..(Pages - 1) /\ lost = {} /\ pool = 0 /\ carved = <<>> /\ frame = <<>> /\ loading.pc = "idle"
    BY NothingIs DEF MappingInit
  <2>2. DOMAIN placed = {} /\ DOMAIN carved = {} /\ IsSeq(carved)
    BY DEF MappingInit, IsSeq
  <2>3. loading.pc \notin {"reserve", "release", "map"}
    BY <2>1
  <2>4. SpaceInv
    BY <2>1, <2>2, <2>3, Zenon DEF SpaceInv
  <2>5. 0 \in Nat
    OBVIOUS
  <2>6. PoolInv
    BY <2>1, <2>2, <2>5, Zenon DEF PoolInv, StackFits
  <2> QED BY <2>4, <2>6
<1>2. SpaceInv /\ PoolInv /\ [MappingNext]_mappingVars => SpaceInv' /\ PoolInv'
  BY MappingKeepsSpace, MappingKeepsPool, Zenon
<1>3. SpaceInv /\ PoolInv => StartsWhole
  <2> SUFFICES ASSUME SpaceInv PROVE ProgramIsWhole
    BY Zenon DEF PoolInv, StartsWhole
  <2>1. Program \notin lost
    BY Zenon DEF SpaceInv
  <2>2. ASSUME Program \in DOMAIN placed
        PROVE  /\ \A k \in DOMAIN Segments[Program] : SegmentWhole(Program, Segments[Program][k])
               /\ \A n \in 0..(PoolPages - 1) :
                     space[placed[Program] + Span(Program) + n] = Page("pool", Program, n)
    <3>1. WholeUpTo(space, placed[Program], Len(Segments[Program]) + 1)
      BY <2>2, Zenon DEF SpaceInv
    <3>2. \A k \in DOMAIN Segments[Program] : k < Len(Segments[Program]) + 1
      BY SegmentTypes, MappingAssumption
    <3> QED BY <3>1, <3>2, Zenon DEF WholeUpTo, SegmentWhole
  <2> QED BY <2>1, <2>2, Zenon DEF ProgramIsWhole
<1> QED BY <1>1, <1>2, <1>3, PTL DEF MappingSpec

-----------------------------------------------------------------------------
(* Trampolines and patches (trampoline.c, patcher.c).                      *)

\* The islands of the pool: no more than there is room for, and one that leads
\* to another leads to one that exists.
PoolOk(p) ==
    /\ IsSeq(p) /\ Len(p) <= Islands
    /\ \A k \in DOMAIN p : p[k].op = "island" => p[k].arg \in DOMAIN p

EndsAt(w, p) == IF w.op = "island" THEN p[w.arg] ELSE w

Leads(c, p, m) ==
    \A a \in DOMAIN c : c[a].op = "branch" =>
        c[a].arg \in DOMAIN p /\ a \in DOMAIN m /\ EndsAt(p[c[a].arg], p) = m[a]

\* An island once allocated stays as it is.
Extends(p, q) == \A k \in DOMAIN p : k \in DOMAIN q /\ q[k] = p[k]

Goal(target, goal, p) ==
    \/ target.op # "island" /\ goal = target
    \/ target.op = "island" /\ target.arg \in DOMAIN p /\ p[target.arg] = goal

LEMMA PoolGrows ==
    ASSUME NEW p, PoolOk(p), NEW e, Len(p) < Islands,
           e.op = "island" => e.arg \in DOMAIN p
    PROVE  PoolOk(Append(p, e)) /\ Extends(p, Append(p, e))
           /\ DOMAIN Append(p, e) = 1..(Len(p) + 1) /\ Append(p, e)[Len(p) + 1] = e
<1>1. PICK q : q = Append(p, e)
  OBVIOUS
<1>2. /\ IsSeq(q) /\ Len(p) \in Nat /\ DOMAIN p = 1..Len(p) /\ q[Len(p) + 1] = e
      /\ DOMAIN q = 1..(Len(p) + 1) /\ \A k \in 1..Len(p) : q[k] = p[k]
  <2>1. IsSeq(p)
    BY Zenon DEF PoolOk
  <2> QED BY <1>1, <2>1, AppendAny
<1>3. Extends(p, q) /\ Len(q) = Len(p) + 1
  <2>1. Len(q) \in Nat /\ DOMAIN q = 1..Len(q)
    BY <1>2, AppendAny, Zenon
  <2> QED BY <1>2, <2>1 DEF Extends
<1>4. ASSUME NEW k \in DOMAIN q, q[k].op = "island" PROVE q[k].arg \in DOMAIN q
  <2>1. CASE k = Len(p) + 1
    BY <1>2, <1>3, <2>1, <1>4, Zenon DEF Extends
  <2>2. CASE k # Len(p) + 1
    <3>1. k \in DOMAIN p
      BY <1>2, <1>3, <2>2
    <3> QED BY <1>3, <1>4, <3>1, Zenon DEF Extends, PoolOk
  <2> QED BY <2>1, <2>2
<1>5. Len(q) <= Islands
  BY <1>2, <1>3, PatchAssumption
<1> QED BY <1>1, <1>2, <1>3, <1>4, <1>5, Zenon DEF PoolOk

LEMMA NextIsland ==
    ASSUME NEW p, PoolOk(p)
    PROVE  /\ Len(p) \in Nat /\ Len(p) + 1 \in 1..(Len(p) + 1) /\ Len(p) + 1 # 0
           /\ ~(Len(p) >= Islands) => Len(p) < Islands
<1>1. Len(p) \in Nat
  BY AppendAny, Zenon DEF PoolOk
<1> QED BY <1>1, PatchAssumption

\* Branches lead where they led when the pool grows.
LEMMA LeadsInGrown ==
    ASSUME NEW p, PoolOk(p), NEW q, Extends(p, q), NEW c, NEW m, Leads(c, p, m)
    PROVE  Leads(c, q, m)
<1> SUFFICES ASSUME NEW a \in DOMAIN c, c[a].op = "branch"
             PROVE  c[a].arg \in DOMAIN q /\ a \in DOMAIN m /\ EndsAt(q[c[a].arg], q) = m[a]
  BY Zenon DEF Leads
<1>1. c[a].arg \in DOMAIN p /\ a \in DOMAIN m /\ EndsAt(p[c[a].arg], p) = m[a]
  BY Zenon DEF Leads
<1>2. PICK w : w = p[c[a].arg]
  OBVIOUS
<1>3. q[c[a].arg] = w /\ c[a].arg \in DOMAIN q
  BY <1>1, <1>2, Zenon DEF Extends
<1>4. EndsAt(w, q) = EndsAt(w, p)
  <2>1. CASE w.op = "island"
    <3>1. w.arg \in DOMAIN p
      BY <1>1, <1>2, <2>1, Zenon DEF PoolOk
    <3>2. q[w.arg] = p[w.arg]
      BY <3>1, Zenon DEF Extends
    <3> QED BY <2>1, <3>2, Zenon DEF EndsAt
  <2>2. CASE w.op # "island"
    BY <2>2, Zenon DEF EndsAt
  <2> QED BY <2>1, <2>2
<1> QED BY <1>1, <1>2, <1>3, <1>4, Zenon

\* write_trampoline, into a pool in order, towards a place that is meant.
LEMMA WriteLeads ==
    ASSUME NEW p, PoolOk(p), Leads(code, p, meant), NEW at, NEW target, NEW goal,
           Goal(target, goal, p), Write(at, target, goal, p)
    PROVE  PoolOk(islands') /\ Extends(p, islands') /\ Leads(code', islands', meant')
<1>1. Extends(p, p) /\ Len(p) \in Nat
  BY AppendAny, Zenon DEF Extends, PoolOk
<1>2. target.op = "island" => target.arg \in DOMAIN p
  BY Zenon DEF Goal
<1>3. CASE Len(p) >= Islands
  <2>1. islands' = p /\ code' = code /\ meant' = meant
    BY <1>1, <1>3, PatchAssumption DEF Write, CanWrite
  <2> QED BY <1>1, <2>1, Zenon
<1>4. CASE Len(p) < Islands
  <2>1. PICK q : q = Append(p, target)
    OBVIOUS
  <2>2. islands' = q
    BY <1>4, <2>1, Zenon DEF Write
  <2>3. PoolOk(q) /\ Extends(p, q) /\ DOMAIN q = 1..(Len(p) + 1) /\ q[Len(p) + 1] = target
    BY <1>2, <1>4, <2>1, PoolGrows, Zenon
  <2>4. Leads(code, q, meant)
    BY <2>3, LeadsInGrown, Zenon
  <2>5. CASE ~CanWrite(at, p)
    BY <2>2, <2>3, <2>4, <2>5, Zenon DEF Write
  <2>6. CASE CanWrite(at, p)
    <3>1. /\ code' = [code EXCEPT ![at] = Word("branch", Len(p) + 1)]
          /\ meant' = [a \in DOMAIN meant \cup {at} |-> IF a = at THEN goal ELSE meant[a]]
      BY <2>6, Zenon DEF Write
    <3>2. EndsAt(target, q) = goal
      BY <2>3, Zenon DEF EndsAt, Goal, Extends
    <3>3. ASSUME NEW a \in DOMAIN code', code'[a].op = "branch"
          PROVE  code'[a].arg \in DOMAIN q /\ a \in DOMAIN meant' /\ EndsAt(q[code'[a].arg], q) = meant'[a]
      <4>1. CASE a = at
        <5>1. code'[a].arg = Len(p) + 1 /\ meant'[a] = goal /\ a \in DOMAIN meant'
          BY <3>1, <3>3, <4>1 DEF Word
        <5>2. Len(p) + 1 \in DOMAIN q
          BY <1>1, <2>3
        <5> QED BY <2>3, <3>2, <5>1, <5>2, Zenon
      <4>2. CASE a # at
        <5>1. a \in DOMAIN code /\ code'[a] = code[a]
          BY <3>1, <3>3, <4>2, Zenon
        <5>2. code[a].arg \in DOMAIN q /\ a \in DOMAIN meant /\ EndsAt(q[code[a].arg], q) = meant[a]
          BY <2>4, <3>3, <5>1, Zenon DEF Leads
        <5>3. a \in DOMAIN meant' /\ meant'[a] = meant[a]
          BY <3>1, <4>2, <5>2, Zenon
        <5> QED BY <5>1, <5>2, <5>3, Zenon
      <4> QED BY <4>1, <4>2
    <3> QED BY <2>2, <2>3, <3>3, Zenon DEF Leads
  <2> QED BY <2>5, <2>6
<1> QED BY <1>1, <1>3, <1>4, PatchAssumption

-----------------------------------------------------------------------------
Stage(s) == s = At(s.what, s.pos, s.sym)

LEMMA StageAt ==
    ASSUME NEW s, NEW w, NEW n, NEW m, s = At(w, n, m)
    PROVE  Stage(s) /\ s.what = w /\ s.pos = n
<1>1. s.what = w /\ s.pos = n /\ s.sym = m
  BY DEF At
<1> QED BY <1>1, Zenon DEF Stage

LEMMA StageMoves ==
    ASSUME NEW s, Stage(s), NEW n, NEW z, z = [s EXCEPT !.pos = n] \/ z = [s EXCEPT !.sym = n]
    PROVE  Stage(z) /\ z.what = s.what
<1>1. PICK w, k, m : s = At(w, k, m)
  BY Zenon DEF Stage
<1>2. z = At(w, n, m) \/ z = At(w, k, n)
  BY <1>1 DEF At
<1>3. s.what = w
  BY <1>1, StageAt, Zenon
<1>4. Stage(z) /\ z.what = w
  BY <1>2, StageAt, Zenon
<1> QED BY <1>3, <1>4, Zenon

FirstCode == [a \in DOMAIN Text |-> Word("original", Text[a])]

\* Nothing is written: before the hooks, before the patch file's last pass, and
\* when either is refused.
Untouched ==
    \/ stage.what \in {"hooks", "patch"}
    \/ stage.what = "refused" /\ stage.pos \in {1, 2}

PatchInv ==
    /\ Stage(stage) /\ DOMAIN shared = {"stub", "abort"}
    /\ PoolOk(islands) /\ Leads(code, islands, meant)
    /\ shared.stub # 0 => shared.stub \in DOMAIN islands /\ islands[shared.stub] = Word("stub", "")
    /\ stage.what \in {"hooks", "hooking"} =>
          before.code = FirstCode /\ before.islands = <<>> /\ shared.stub = 0
    /\ Untouched => code = before.code /\ islands = before.islands

LEMMA FirstLeads == PoolOk(<<>>) /\ \A m : Leads(FirstCode, <<>>, m)
<1>1. PoolOk(<<>>)
  <2>1. IsSeq(<<>>) /\ Len(<<>>) = 0
    BY DEF IsSeq
  <2>2. \A k \in DOMAIN <<>> : FALSE
    OBVIOUS
  <2> QED BY <2>1, <2>2, PatchAssumption DEF PoolOk
<1>2. \A a \in DOMAIN FirstCode : FirstCode[a].op # "branch"
  BY DEF FirstCode, Word
<1> QED BY <1>1, <1>2, Zenon DEF Leads

\* A step that leaves code and islands alone, and the snapshot where it counts.
LEMMA RestStays ==
    ASSUME PatchInv, UNCHANGED <<code, islands, meant, shared>>,
           Stage(stage'),
           stage'.what \in {"hooks", "hooking"} => stage.what \in {"hooks", "hooking"} /\ before' = before,
           Untouched' => Untouched /\ before' = before
    PROVE  PatchInv'
<1>1. PoolOk(islands') /\ Leads(code', islands', meant')
  BY Zenon DEF PatchInv
<1>2. shared'.stub # 0 => shared'.stub \in DOMAIN islands' /\ islands'[shared'.stub] = Word("stub", "")
  BY Zenon DEF PatchInv
<1>3. stage'.what \in {"hooks", "hooking"} =>
          before'.code = FirstCode /\ before'.islands = <<>> /\ shared'.stub = 0
  BY Zenon DEF PatchInv
<1>4. Untouched' => code' = before'.code /\ islands' = before'.islands
  BY Zenon DEF PatchInv
<1> QED BY <1>1, <1>2, <1>3, <1>4, Zenon DEF PatchInv

\* A step that allocates islands and writes.
LEMMA WriteStays ==
    ASSUME PatchInv, PoolOk(islands'), Leads(code', islands', meant'), Extends(islands, islands'),
           \/ shared'.stub = shared.stub
           \/ shared'.stub \in DOMAIN islands' /\ islands'[shared'.stub] = Word("stub", ""),
           Stage(stage'), DOMAIN shared' = DOMAIN shared,
           stage'.what \in {"hooks", "hooking"} =>
               stage.what \in {"hooks", "hooking"} /\ before' = before /\ shared'.stub = shared.stub,
           ~Untouched'
    PROVE  PatchInv'
<1>1. shared'.stub # 0 => shared'.stub \in DOMAIN islands' /\ islands'[shared'.stub] = Word("stub", "")
  BY Zenon DEF PatchInv, Extends
<1>2. stage'.what \in {"hooks", "hooking"} =>
          before'.code = FirstCode /\ before'.islands = <<>> /\ shared'.stub = 0
  BY Zenon DEF PatchInv
<1> QED BY <1>1, <1>2, Zenon DEF PatchInv

LEMMA HooksKeepInv ==
    ASSUME PatchInv, AddressHooks \/ WriteHook \/ HooksDone PROVE PatchInv'
<1>0. Stage(stage)
  BY DEF PatchInv
<1>1. CASE AddressHooks
  <2>1. UNCHANGED <<code, islands, meant, shared>> /\ stage.what = "hooks" /\ before' = Snapshot
    BY <1>1, Zenon DEF AddressHooks
  <2>2. code = before.code /\ islands = before.islands /\ before.code = FirstCode /\ before.islands = <<>>
        /\ shared.stub = 0
    BY <2>1 DEF PatchInv, Untouched
  <2>3. before'.code = FirstCode /\ before'.islands = <<>> /\ code' = FirstCode /\ islands' = <<>>
    BY <2>1, <2>2 DEF Snapshot
  <2>4. stage' \in {At("section", 1, 1), At("refused", 1, 0), At("hooking", 1, 1)}
    BY <1>1, Zenon DEF AddressHooks, Fail
  <2>5. Stage(stage')
    BY <2>4, StageAt, Zenon
  <2>6. PoolOk(islands') /\ Leads(code', islands', meant')
    BY <2>1, Zenon DEF PatchInv
  <2> QED BY <2>1, <2>2, <2>3, <2>5, <2>6, Zenon DEF PatchInv
<1>2. CASE WriteHook
  <2>1. stage.what = "hooking" /\ shared' = shared /\ before' = before
    BY <1>2, Zenon DEF WriteHook
  <2>2. before.code = FirstCode /\ before.islands = <<>> /\ shared.stub = 0
    BY <2>1, Zenon DEF PatchInv
  <2>3. CASE CanWrite(hooks[stage.pos].at, islands)
    <3>1. PICK at, to : Write(at, Word("hook", to), Word("hook", to), islands)
      BY <1>2, <2>3, Zenon DEF WriteHook, WriteTo
    <3>2. Goal(Word("hook", to), Word("hook", to), islands)
      BY DEF Goal, Word
    <3>3. PoolOk(islands') /\ Extends(islands, islands') /\ Leads(code', islands', meant')
      BY <3>1, <3>2, WriteLeads, Zenon DEF PatchInv
    <3>4. stage' = [stage EXCEPT !.pos = @ + 1]
      BY <1>2, <2>3, Zenon DEF WriteHook
    <3>5. Stage(stage') /\ stage'.what = "hooking"
      BY <1>0, <2>1, <3>4, StageMoves, Zenon
    <3>6. ~Untouched'
      BY <3>5 DEF Untouched
    <3> QED BY <2>1, <3>3, <3>5, <3>6, WriteStays, Zenon
  <2>4. CASE ~CanWrite(hooks[stage.pos].at, islands)
    <3>1. code' = FirstCode /\ islands' = <<>> /\ stage' = At("refused", 1, 0)
      BY <1>2, <2>2, <2>4, Zenon DEF WriteHook, RollBack, Fail
    <3>2. Stage(stage') /\ stage'.what = "refused"
      BY <3>1, StageAt, Zenon
    <3>3. stage'.what \notin {"hooks", "hooking"}
      BY <3>2
    <3> QED BY <2>1, <2>2, <3>1, <3>2, <3>3, FirstLeads, Zenon DEF PatchInv
  <2> QED BY <2>3, <2>4
<1>3. CASE HooksDone
  <2>1. UNCHANGED <<code, islands, meant, shared>> /\ stage' = At("section", 1, 1)
    BY <1>3, Zenon DEF HooksDone
  <2>2. Stage(stage') /\ stage'.what = "section"
    BY <2>1, StageAt, Zenon
  <2>3. stage'.what \notin {"hooks", "hooking"} /\ ~Untouched'
    BY <2>2 DEF Untouched
  <2> QED BY <2>1, <2>2, <2>3, RestStays, Zenon
<1> QED BY <1>1, <1>2, <1>3

LEMMA NextSymbolStage ==
    ASSUME PatchInv, NextSymbol, stage.what \in {"override", "lib"}
    PROVE  /\ Stage(stage')
           /\ stage'.what \notin {"hooks", "hooking"} /\ ~Untouched'
<1>1. Stage(stage) /\ stage' = [stage EXCEPT !.sym = @ + 1]
  BY Zenon DEF PatchInv, NextSymbol
<1>2. Stage(stage') /\ stage'.what = stage.what
  BY <1>1, StageMoves, Zenon
<1> QED BY <1>2 DEF Untouched

\* Writing a branch straight to native code.
LEMMA WriteToStays ==
    ASSUME PatchInv, NextSymbol, stage.what \in {"override", "lib"}, shared' = shared,
           NEW at, NEW kind \in {"override", "wrapper", "native"}, NEW name, WriteTo(at, Word(kind, name))
    PROVE  PatchInv'
<1>1. Goal(Word(kind, name), Word(kind, name), islands)
  BY DEF Goal, Word
<1>2. PoolOk(islands') /\ Extends(islands, islands') /\ Leads(code', islands', meant')
  BY <1>1, WriteLeads, Zenon DEF PatchInv, WriteTo
<1> QED BY <1>2, NextSymbolStage, WriteStays, Zenon

LEMMA OnceIs ==
    ASSUME NEW p, NEW n, NEW z, z = [pool |-> p, at |-> n] PROVE z.pool = p /\ z.at = n
  OBVIOUS

\* The stub is allocated once, and what branches to it leads there.
LEMMA StubStays ==
    ASSUME PatchInv, NextSymbol, stage.what \in {"override", "lib"},
           NEW stub, stub = Once("stub", islands), shared' = [shared EXCEPT !.stub = stub.at],
           IF stub.at = 0 THEN UNCHANGED <<code, islands, meant>>
           ELSE Write(Sym.at, Word("island", stub.at), Word("stub", ""), stub.pool)
    PROVE  PatchInv'
<1>1. PoolOk(islands) /\ Leads(code, islands, meant) /\ Len(islands) \in Nat
  <2>1. PoolOk(islands) /\ Leads(code, islands, meant) /\ IsSeq(islands)
    BY Zenon DEF PatchInv, PoolOk
  <2> QED BY <2>1, AppendAny, Zenon
<1>2. shared'.stub = stub.at /\ DOMAIN shared' = DOMAIN shared
  BY DEF PatchInv
<1>3. CASE shared.stub # 0 \/ Len(islands) >= Islands
  <2>1. stub.pool = islands /\ stub.at = shared.stub
    BY <1>3 DEF Once
  <2>2. CASE stub.at = 0
    <3>1. UNCHANGED <<code, islands, meant>> /\ shared'.stub = shared.stub
      BY <1>2, <2>1, <2>2
    <3>2. Extends(islands, islands')
      BY <3>1, Zenon DEF Extends
    <3> QED BY <1>1, <3>1, <3>2, NextSymbolStage, WriteStays, Zenon
  <2>3. CASE stub.at # 0
    <3>1. stub.at \in DOMAIN islands /\ islands[stub.at] = Word("stub", "")
      BY <2>1, <2>3, Zenon DEF PatchInv
    <3>2. Goal(Word("island", stub.at), Word("stub", ""), islands)
      BY <3>1 DEF Goal, Word
    <3>3. Write(Sym.at, Word("island", stub.at), Word("stub", ""), islands)
      BY <2>1, <2>3, Zenon
    <3>4. PoolOk(islands') /\ Extends(islands, islands') /\ Leads(code', islands', meant')
      BY <1>1, <3>2, <3>3, WriteLeads, Zenon
    <3> QED BY <1>2, <2>1, <3>4, NextSymbolStage, WriteStays, Zenon
  <2> QED BY <2>2, <2>3
<1>4. CASE ~(shared.stub # 0 \/ Len(islands) >= Islands)
  <2>1. PICK p : p = Append(islands, Word("stub", ""))
    OBVIOUS
  <2>2. stub.pool = p /\ stub.at = Len(islands) + 1 /\ stub.at # 0 /\ Len(islands) < Islands
    <3>1. PICK z : z = [pool |-> p, at |-> Len(islands) + 1]
      OBVIOUS
    <3>2. z.pool = p /\ z.at = Len(islands) + 1
      BY <3>1, OnceIs, Zenon
    <3>3. stub = z
      BY <1>4, <2>1, <3>1, Zenon DEF Once
    <3> QED BY <1>1, <1>4, <3>2, <3>3, NextIsland, Zenon
  <2>3. Word("stub", "").op # "island"
    BY DEF Word
  <2>4. /\ PoolOk(p) /\ Extends(islands, p) /\ DOMAIN p = 1..(Len(islands) + 1)
        /\ p[Len(islands) + 1] = Word("stub", "")
    BY <1>1, <2>1, <2>2, <2>3, PoolGrows, Zenon
  <2>5. stub.at \in DOMAIN p /\ p[stub.at] = Word("stub", "")
    BY <1>1, <2>2, <2>4, NextIsland, Zenon
  <2>6. Goal(Word("island", stub.at), Word("stub", ""), p)
    BY <2>5 DEF Goal, Word
  <2>7. Leads(code, p, meant)
    BY <1>1, <2>4, LeadsInGrown, Zenon
  <2>8. PoolOk(islands') /\ Extends(p, islands') /\ Leads(code', islands', meant')
    BY <2>2, <2>4, <2>6, <2>7, WriteLeads, Zenon
  <2>9. Extends(islands, islands') /\ stub.at \in DOMAIN islands' /\ islands'[stub.at] = Word("stub", "")
    BY <2>4, <2>5, <2>8, Zenon DEF Extends
  <2> QED BY <1>2, <2>8, <2>9, NextSymbolStage, WriteStays, Zenon
<1> QED BY <1>3, <1>4

\* make_abort_island: the symbol's own island, behind the one that all share.
LEMMA TrappedStays ==
    ASSUME PatchInv, NextSymbol, stage.what \in {"override", "lib"}, Trapped,
           shared' = [shared EXCEPT !.abort = Once("abort", islands).at]
    PROVE  PatchInv'
<1>1. PoolOk(islands) /\ Leads(code, islands, meant) /\ Len(islands) \in Nat
  <2>1. PoolOk(islands) /\ Leads(code, islands, meant) /\ IsSeq(islands)
    BY Zenon DEF PatchInv, PoolOk
  <2> QED BY <2>1, AppendAny, Zenon
<1>2. shared'.stub = shared.stub /\ DOMAIN shared' = DOMAIN shared
  BY DEF PatchInv
<1>3. PICK caller : caller = Once("abort", islands)
  OBVIOUS
<1>4. PoolOk(caller.pool) /\ Extends(islands, caller.pool)
  <2>1. CASE shared.abort # 0 \/ Len(islands) >= Islands
    <3>1. caller.pool = islands
      BY <1>3, <2>1 DEF Once
    <3> QED BY <1>1, <3>1, Zenon DEF Extends
  <2>2. CASE ~(shared.abort # 0 \/ Len(islands) >= Islands)
    <3>0. PICK p : p = Append(islands, Word("abort", ""))
      OBVIOUS
    <3>1. caller = [pool |-> p, at |-> Len(islands) + 1]
      BY <1>3, <2>2, <3>0, Zenon DEF Once
    <3>2. caller.pool = p /\ Len(islands) < Islands
      BY <1>1, <2>2, <3>1, NextIsland, Zenon
    <3>3. Word("abort", "").op # "island"
      BY DEF Word
    <3>4. PoolOk(p) /\ Extends(islands, p)
      BY <1>1, <3>0, <3>2, <3>3, PoolGrows, Zenon
    <3> QED BY <3>2, <3>4, Zenon
  <2> QED BY <2>1, <2>2
<1>5. Leads(code, caller.pool, meant)
  BY <1>1, <1>4, LeadsInGrown, Zenon
<1>6. CASE caller.at = 0 \/ Len(caller.pool) >= Islands
  <2>1. islands' = caller.pool /\ code' = code /\ meant' = meant
    BY <1>3, <1>6, Zenon DEF Trapped
  <2> QED BY <1>2, <1>4, <1>5, <2>1, NextSymbolStage, WriteStays, Zenon
<1>7. CASE ~(caller.at = 0 \/ Len(caller.pool) >= Islands)
  <2>1. PICK trap, p : trap = Word("trap", Sym.name) /\ p = Append(caller.pool, trap)
    OBVIOUS
  <2>2. Write(Sym.at, Word("island", Len(caller.pool) + 1), trap, p)
    BY <1>3, <1>7, <2>1, Zenon DEF Trapped
  <2>3. Len(caller.pool) \in Nat /\ Len(caller.pool) < Islands
    <3>1. Len(caller.pool) \in Nat
      BY <1>4, AppendAny, Zenon DEF PoolOk
    <3> QED BY <1>7, <3>1, PatchAssumption
  <2>4. trap.op # "island"
    BY <2>1 DEF Word
  <2>5. /\ PoolOk(p) /\ Extends(caller.pool, p) /\ DOMAIN p = 1..(Len(caller.pool) + 1)
        /\ p[Len(caller.pool) + 1] = trap
    BY <1>4, <2>1, <2>3, <2>4, PoolGrows, Zenon
  <2>6. Goal(Word("island", Len(caller.pool) + 1), trap, p)
    BY <2>3, <2>5 DEF Goal, Word
  <2>7. Leads(code, p, meant)
    BY <1>4, <1>5, <2>5, LeadsInGrown, Zenon
  <2>8. PoolOk(islands') /\ Extends(p, islands') /\ Leads(code', islands', meant')
    BY <2>2, <2>5, <2>6, <2>7, WriteLeads, Zenon
  <2>9. Extends(islands, islands')
    BY <1>4, <2>5, <2>8, Zenon DEF Extends
  <2> QED BY <1>2, <2>8, <2>9, NextSymbolStage, WriteStays, Zenon
<1> QED BY <1>6, <1>7

LEMMA SectionsKeepInv ==
    ASSUME PatchInv, NextSection \/ PatchOverride \/ PatchSymbol PROVE PatchInv'
<1>1. CASE NextSection
  <2>1. UNCHANGED <<code, islands, meant, shared>>
    BY <1>1, Zenon DEF NextSection
  <2>2. PICK w \in {"override", "section", "lib", "guard"} : \E n : stage' = At(w, n, 1)
    BY <1>1, Zenon DEF NextSection
  <2>3. Stage(stage') /\ stage'.what = w
    BY <2>2, StageAt, Zenon
  <2>4. stage'.what \notin {"hooks", "hooking"} /\ ~Untouched'
    BY <2>2, <2>3 DEF Untouched
  <2> QED BY <2>1, <2>3, <2>4, RestStays, Zenon
<1>2. CASE PatchOverride
  <2>1. stage.what = "override" /\ NextSymbol /\ shared' = shared
    BY <1>2, Zenon DEF PatchOverride
  <2>2. WriteTo(Sym.at, Word("override", Sym.name)) \/ UNCHANGED <<code, islands, meant>>
    BY <1>2, Zenon DEF PatchOverride
  <2>3. CASE UNCHANGED <<code, islands, meant>>
    BY <2>1, <2>3, NextSymbolStage, RestStays, Zenon
  <2>4. CASE WriteTo(Sym.at, Word("override", Sym.name))
    BY <2>1, <2>4, WriteToStays, Zenon
  <2> QED BY <2>2, <2>3, <2>4
<1>3. CASE PatchSymbol
  <2>1. stage.what = "lib" /\ NextSymbol
    BY <1>3, Zenon DEF PatchSymbol
  <2>2. \/ UNCHANGED <<code, islands, meant, shared>>
        \/ shared' = shared /\ \E kind \in {"wrapper", "native"} : WriteTo(Sym.at, Word(kind, Sym.name))
        \/ /\ shared' = [shared EXCEPT !.stub = Once("stub", islands).at]
           /\ IF Once("stub", islands).at = 0 THEN UNCHANGED <<code, islands, meant>>
              ELSE Write(Sym.at, Word("island", Once("stub", islands).at), Word("stub", ""), Once("stub", islands).pool)
        \/ Trapped /\ shared' = [shared EXCEPT !.abort = Once("abort", islands).at]
    BY <1>3, Zenon DEF PatchSymbol
  <2>3. CASE UNCHANGED <<code, islands, meant, shared>>
    BY <2>1, <2>3, NextSymbolStage, RestStays, Zenon
  <2>4. CASE shared' = shared /\ \E kind \in {"wrapper", "native"} : WriteTo(Sym.at, Word(kind, Sym.name))
    BY <2>1, <2>4, WriteToStays, Zenon
  <2>5. CASE /\ shared' = [shared EXCEPT !.stub = Once("stub", islands).at]
             /\ IF Once("stub", islands).at = 0 THEN UNCHANGED <<code, islands, meant>>
                ELSE Write(Sym.at, Word("island", Once("stub", islands).at), Word("stub", ""), Once("stub", islands).pool)
    BY <2>1, <2>5, StubStays, Zenon
  <2>6. CASE Trapped /\ shared' = [shared EXCEPT !.abort = Once("abort", islands).at]
    BY <2>1, <2>6, TrappedStays, Zenon
  <2> QED BY <2>2, <2>3, <2>4, <2>5, <2>6
<1> QED BY <1>1, <1>2, <1>3

LEMMA PatchFileKeepsInv ==
    ASSUME PatchInv, GuardData \/ ResolveLabel \/ Encode \/ WriteWord \/ WriteFails \/ ValidateEntry
    PROVE  PatchInv'
<1>0. Stage(stage) /\ PoolOk(islands) /\ Leads(code, islands, meant)
  BY Zenon DEF PatchInv
<1>1. CASE GuardData
  <2>1. UNCHANGED <<code, islands, shared, meant>> /\ before' = Snapshot /\ stage' = At("patch", 1, 1)
    BY <1>1, Zenon DEF GuardData
  <2>2. Stage(stage') /\ stage'.what = "patch"
    BY <2>1, StageAt, Zenon
  <2>3. stage'.what \notin {"hooks", "hooking"} /\ code' = before'.code /\ islands' = before'.islands
    BY <2>1, <2>2 DEF Snapshot
  <2>4. shared'.stub # 0 => shared'.stub \in DOMAIN islands' /\ islands'[shared'.stub] = Word("stub", "")
    BY <2>1, Zenon DEF PatchInv
  <2>5. PoolOk(islands') /\ Leads(code', islands', meant') /\ DOMAIN shared' = {"stub", "abort"}
    BY <1>0, <2>1, Zenon DEF PatchInv
  <2> QED BY <2>2, <2>3, <2>4, <2>5, Zenon DEF PatchInv
<1>2. CASE ResolveLabel \/ Encode
  <2>1. UNCHANGED <<code, islands, shared, meant, before>> /\ stage.what = "patch"
    BY <1>2, Zenon DEF ResolveLabel, Encode
  <2>2. \/ stage' = [stage EXCEPT !.pos = @ + 1] \/ stage' = At("refused", 2, 0)
        \/ stage' = At("write", 1, 1)
    BY <1>2, Zenon DEF ResolveLabel, Encode, Fail
  <2>3. Stage(stage') /\ stage'.what \in {"patch", "refused", "write"}
    <3>1. CASE stage' = [stage EXCEPT !.pos = @ + 1]
      BY <1>0, <2>1, <3>1, StageMoves, Zenon
    <3>2. CASE stage' = At("refused", 2, 0) \/ stage' = At("write", 1, 1)
      BY <3>2, StageAt, Zenon
    <3> QED BY <2>2, <3>1, <3>2
  <2>4. stage'.what \notin {"hooks", "hooking"}
    BY <2>3
  <2>5. Untouched
    BY <2>1, Zenon DEF Untouched
  <2> QED BY <2>1, <2>3, <2>4, <2>5, RestStays, Zenon
<1>3. CASE WriteFails \/ ValidateEntry
  <2>1. UNCHANGED <<code, islands, shared, meant>>
    BY <1>3, Zenon DEF WriteFails, ValidateEntry
  <2>2. PICK n \in {3, 4} : stage' = At("run", 0, 0) \/ stage' = At("refused", n, 0)
    BY <1>3, Zenon DEF WriteFails, ValidateEntry, Fail
  <2>3. Stage(stage') /\ (stage'.what = "run" \/ (stage'.what = "refused" /\ stage'.pos = n))
    BY <2>2, StageAt, Zenon
  <2>4. stage'.what \notin {"hooks", "hooking"} /\ ~Untouched'
    BY <2>3 DEF Untouched
  <2> QED BY <2>1, <2>3, <2>4, RestStays, Zenon
<1>4. CASE WriteWord
  <2>1. islands' = islands /\ shared' = shared /\ stage.what = "write" /\ stage' = [stage EXCEPT !.pos = @ + 1]
    BY <1>4, Zenon DEF WriteWord
  <2>2. \/ code' = code /\ meant' = meant
        \/ \E at, kind, arg : /\ kind \in {"patch", "jump"} /\ code' = [code EXCEPT ![at] = Word(kind, arg)]
                              /\ meant' = [a \in DOMAIN meant \ {at} |-> meant[a]]
    BY <1>4, Zenon DEF WriteWord
  <2>3. Leads(code', islands', meant')
    <3>1. CASE code' = code /\ meant' = meant
      BY <1>0, <2>1, <3>1, Zenon
    <3>2. CASE \E at, kind, arg : /\ kind \in {"patch", "jump"} /\ code' = [code EXCEPT ![at] = Word(kind, arg)]
                                  /\ meant' = [a \in DOMAIN meant \ {at} |-> meant[a]]
      <4>1. PICK at, kind, arg : /\ kind \in {"patch", "jump"} /\ code' = [code EXCEPT ![at] = Word(kind, arg)]
                                 /\ meant' = [a \in DOMAIN meant \ {at} |-> meant[a]]
        BY <3>2, Zenon
      <4>2. Word(kind, arg).op # "branch"
        BY <4>1 DEF Word
      <4>3. ASSUME NEW a \in DOMAIN code', code'[a].op = "branch"
            PROVE  /\ code'[a].arg \in DOMAIN islands /\ a \in DOMAIN meant'
                   /\ EndsAt(islands[code'[a].arg], islands) = meant'[a]
        <5>1. a \in DOMAIN code /\ a # at /\ code'[a] = code[a]
          BY <4>1, <4>2, <4>3, Zenon
        <5>2. /\ code[a].arg \in DOMAIN islands /\ a \in DOMAIN meant
              /\ EndsAt(islands[code[a].arg], islands) = meant[a]
          BY <1>0, <4>3, <5>1, Zenon DEF Leads
        <5>3. a \in DOMAIN meant' /\ meant'[a] = meant[a]
          BY <4>1, <5>1, <5>2, Zenon
        <5> QED BY <5>1, <5>2, <5>3, Zenon
      <4> QED BY <2>1, <4>3, Zenon DEF Leads
    <3> QED BY <2>2, <3>1, <3>2
  <2>4. Stage(stage') /\ stage'.what = "write"
    BY <1>0, <2>1, StageMoves, Zenon
  <2>5. stage'.what \notin {"hooks", "hooking"} /\ ~Untouched'
    BY <2>4 DEF Untouched
  <2>6. Extends(islands, islands')
    BY <2>1, Zenon DEF Extends
  <2> QED BY <1>0, <2>1, <2>3, <2>4, <2>5, <2>6, WriteStays, Zenon
<1> QED BY <1>1, <1>2, <1>3, <1>4

\* Every branch that trampoline.c writes leads where it was meant to, whichever
\* hooks and sections patch the same functions and whichever islands they
\* share, also when the pool is used up or an island is out of reach; and a
\* hook file or a patch file that is refused has changed nothing.  For any
\* text, symbols, files and size of the pool.
THEOREM PatchedCodeLeads == PatchSpec => []PatchesHold
<1>1. PatchInit => PatchInv
  <2> SUFFICES ASSUME PatchInit PROVE PatchInv
    OBVIOUS
  <2>1. code = FirstCode /\ islands = <<>> /\ stage = At("hooks", 1, 1)
    BY Zenon DEF PatchInit, FirstCode
  <2>2. before.code = code /\ before.islands = <<>> /\ shared.stub = 0
    BY DEF PatchInit, NoShared
  <2>4. DOMAIN shared = {"stub", "abort"}
    BY DEF PatchInit, NoShared
  <2>3. Stage(stage)
    BY <2>1, StageAt, Zenon
  <2> QED BY <2>1, <2>2, <2>3, <2>4, FirstLeads, Zenon DEF PatchInv
<1>2. PatchInv /\ [PatchNext]_patchVars => PatchInv'
  <2> SUFFICES ASSUME PatchInv, [PatchNext]_patchVars PROVE PatchInv'
    OBVIOUS
  <2>1. CASE UNCHANGED patchVars
    <3>1. UNCHANGED <<code, islands, meant, shared, stage, before>>
      BY <2>1, Zenon DEF patchVars
    <3>2. Untouched' <=> Untouched
      BY <3>1, Zenon DEF Untouched
    <3>3. Stage(stage')
      BY <3>1, Zenon DEF PatchInv
    <3> QED BY <3>1, <3>2, <3>3, RestStays, Zenon
  <2> QED BY <2>1, HooksKeepInv, SectionsKeepInv, PatchFileKeepsInv, Zenon DEF PatchNext
<1>3. PatchInv => PatchesHold
  <2> SUFFICES ASSUME PatchInv PROVE PatchesHold
    OBVIOUS
  <2>1. BranchesLead
    BY Zenon DEF PatchInv, PoolOk, Leads, EndsAt, BranchesLead, Terminal
  <2>2. RefusedChangesNothing
    BY Zenon DEF PatchInv, Untouched, RefusedChangesNothing
  <2> QED BY <2>1, <2>2, Zenon DEF PatchesHold
<1> QED BY <1>1, <1>2, <1>3, PTL DEF PatchSpec

-----------------------------------------------------------------------------
(* The parts of the loader, together.                                      *)

LEMMA ComposedOfParts ==
    Spec => IsaSpec /\ HeapSpec /\ ObjcSpec /\ SavedSpec /\ MappingSpec /\ PatchSpec
<1>1. Init => IsaInit /\ HeapInit /\ ObjcInit /\ SavedInit /\ MappingInit /\ PatchInit
  BY DEF Init
<1>2. [Next]_vars => /\ [IslandNext \/ BcaxNext]_isaVars /\ [HeapNext]_heapVars
                     /\ [ObjcNext]_objcVars /\ [SavedNext]_savedVars
                     /\ [MappingNext]_mappingVars /\ [PatchNext]_patchVars
  BY Zenon DEF Next, vars
<1> QED BY <1>1, <1>2, PTL DEF Spec, IsaSpec, HeapSpec, ObjcSpec, SavedSpec, MappingSpec, PatchSpec

\* The loaded program, on a processor that lacks its instructions, with the
\* port's runtime, the tracer and its files: it starts whole (loader.c) and its
\* patched code leads where the patches say (trampoline.c), an island that was
\* started is one atomic instruction and leaves no trace (isa_emul.c), the
\* runtime gives one selector, class and method for a name
\* (sword3_objc_shim.c), the tracer's lock is a leaf and its trace tells who has
\* what (heaptrack_trace.c), and saving replaces whole files (paths.c).
THEOREM LoaderSafe ==
    Replaceable /\ BcaxReplaceable /\ PlainNames /\ SegmentsAscend /\ TagsAreFew /\ Spec =>
        /\ [](NoTrace /\ OneIdentity /\ LeafLock /\ TraceExact /\ SavesAreAtomic /\ StartsWhole /\ PatchesHold)
        /\ ImplementsAtomic
BY ComposedOfParts, IslandsAreAtomic, IslandsLeaveNoTrace, RuntimeHasOneIdentity, TracerLockIsALeaf,
   TraceIsTheTruth, SavingIsAtomic, ProgramStartsWhole, PatchedCodeLeads, PTL
=============================================================================
