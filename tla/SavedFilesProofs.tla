-------------------------- MODULE SavedFilesProofs --------------------------
(***************************************************************************)
(* Saving a file of paths.c replaces it whole and touches no other, for    *)
(* any number of threads, any names and directories, and any number of     *)
(* failures.                                                               *)
(***************************************************************************)
EXTENDS SavedFiles, SequenceTheorems, FiniteSetTheorems, WellFoundedInduction, TLAPS

-----------------------------------------------------------------------------
(* Induction and recursion over the numbers, for sets and functions.       *)

LEMMA LeastNumber ==
    ASSUME NEW S \in SUBSET Nat, S # {}
    PROVE  \E x \in S : \A y \in S : x <= y
<1> DEFINE less == {ss \in Nat \X Nat : ss[1] < ss[2]}
<1>1. IsWellFoundedOn(less, Nat)
  BY NatLessThanWellFounded, Zenon DEF OpToRel
<1> HIDE DEF less
<1>2. PICK x \in S : \A y \in S : ~(<<y, x>> \in less)
  BY <1>1, WFMin
<1>3. ASSUME NEW y \in S PROVE x <= y
  <2>1. <<y, x>>[1] = y /\ <<y, x>>[2] = x /\ <<y, x>> \in Nat \X Nat
    OBVIOUS
  <2>2. ~(y < x)
    BY <1>2, <2>1, Zenon DEF less
  <2> QED BY <2>2
<1> QED BY <1>3

LEMMA AllNumbers ==
    ASSUME NEW T \in SUBSET Nat, 0 \in T, \A n \in T : n + 1 \in T
    PROVE  T = Nat
<1> SUFFICES ASSUME Nat \ T # {} PROVE FALSE
  OBVIOUS
<1>1. PICK x \in Nat \ T : \A y \in Nat \ T : x <= y
  BY LeastNumber
<1>2. x # 0 /\ x - 1 \in Nat /\ x - 1 < x /\ (x - 1) + 1 = x
  BY <1>1
<1>3. x - 1 \in T
  BY <1>1, <1>2
<1> QED BY <1>1, <1>2, <1>3

StepsOn(S) == [Nat -> [S -> S]]
Recurses(f, f0, D) == f[0] = f0 /\ \A n \in Nat : f[n + 1] = D[n][f[n]]

\* A value and the steps from it determine a sequence of values.
LEMMA RecursionOnNat ==
    ASSUME NEW S, NEW f0 \in S, NEW D \in StepsOn(S)
    PROVE  \E f \in [Nat -> S] : Recurses(f, f0, D)
<1> USE DEF StepsOn
<1> DEFINE Upto(n) == {g \in [0..n -> S] : g[0] = f0 /\ \A m \in 0..(n - 1) : g[m + 1] = D[m][g[m]]}
           T == {n \in Nat : Upto(n) # {}}
<1>1. 0 \in T
  <2>1. [k \in 0..0 |-> f0] \in Upto(0)
    OBVIOUS
  <2> QED BY <2>1
<1>2. ASSUME NEW n \in T PROVE n + 1 \in T
  <2>1. n \in Nat
    BY <1>2
  <2>2. PICK g \in [0..n -> S] : g[0] = f0 /\ \A m \in 0..(n - 1) : g[m + 1] = D[m][g[m]]
    BY <1>2
  <2> DEFINE h == [k \in 0..(n + 1) |-> IF k = n + 1 THEN D[n][g[n]] ELSE g[k]]
  <2>3. h \in [0..(n + 1) -> S] /\ h[0] = f0
    <3>1. g[n] \in S
      BY <2>1, <2>2
    <3>2. D[n][g[n]] \in S
      BY <3>1
    <3> QED BY <2>1, <2>2, <3>2
  <2>4. ASSUME NEW m \in 0..((n + 1) - 1) PROVE h[m + 1] = D[m][h[m]]
    <3>1. CASE m = n
      <4>1. m + 1 = n + 1 /\ m + 1 \in 0..(n + 1) /\ m \in 0..(n + 1) /\ m # n + 1
        BY <2>1, <3>1
      <4>2. h[m + 1] = D[n][g[n]] /\ h[m] = g[m]
        BY <4>1, Zenon
      <4> QED BY <3>1, <4>2, Zenon
    <3>2. CASE m # n
      <4>1. m \in 0..(n - 1) /\ m + 1 \in 0..n /\ m \in 0..n /\ m + 1 # n + 1 /\ m # n + 1
        BY <2>1, <3>2
      <4> QED BY <2>1, <2>2, <4>1
    <3> QED BY <3>1, <3>2
  <2>5. h \in Upto(n + 1)
    <3> HIDE DEF h
    <3>1. \A m \in 0..((n + 1) - 1) : h[m + 1] = D[m][h[m]]
      BY <2>4
    <3> DEFINE upto == 0..(n + 1)
               below == 0..((n + 1) - 1)
    <3>2. h \in [upto -> S] /\ h[0] = f0 /\ \A m \in below : h[m + 1] = D[m][h[m]]
      BY <2>3, <3>1
    <3>3. Upto(n + 1) = {x \in [upto -> S] : x[0] = f0 /\ \A m \in below : x[m + 1] = D[m][x[m]]}
      BY Zenon
    <3> HIDE DEF upto, below, Upto
    <3> QED BY <3>2, <3>3, Zenon
  <2> HIDE DEF Upto, h
  <2> QED BY <2>1, <2>5
<1>3. T = Nat
  <2> HIDE DEF T
  <2>1. T \in SUBSET Nat
    BY DEF T
  <2> QED BY <2>1, <1>1, <1>2, AllNumbers
<1>4. ASSUME NEW n \in Nat, NEW k \in Nat, k <= n, NEW g \in Upto(n), NEW h \in Upto(k)
      PROVE  g[k] = h[k]
  <2> DEFINE U == {m \in Nat : m <= k => g[m] = h[m]}
  <2>1. 0 \in U
    OBVIOUS
  <2>2. ASSUME NEW m \in U PROVE m + 1 \in U
    <3>1. m \in Nat
      BY <2>2
    <3>2. CASE m + 1 <= k
      <4>1. m \in 0..(n - 1) /\ m \in 0..(k - 1) /\ m <= k
        BY <1>4, <3>1, <3>2
      <4>2. g[m] = h[m]
        BY <2>2, <4>1
      <4>3. g[m + 1] = D[m][g[m]] /\ h[m + 1] = D[m][h[m]]
        BY <4>1
      <4> QED BY <3>1, <4>2, <4>3
    <3>3. CASE ~(m + 1 <= k)
      BY <3>1, <3>3
    <3> QED BY <3>2, <3>3
  <2>3. U = Nat
    <3> HIDE DEF U
    <3>1. U \in SUBSET Nat
      BY DEF U
    <3> QED BY <3>1, <2>1, <2>2, AllNumbers
  <2>4. k \in U
    BY <2>3
  <2> QED BY <2>4
<1> DEFINE G(n) == CHOOSE g : g \in Upto(n)
           f == [n \in Nat |-> G(n)[n]]
<1>5. ASSUME NEW n \in Nat PROVE G(n) \in Upto(n)
  <2>1. Upto(n) # {}
    BY <1>3
  <2> HIDE DEF Upto
  <2> QED BY <2>1
<1> HIDE DEF G
<1>6. f \in [Nat -> S]
  <2>1. ASSUME NEW n \in Nat PROVE G(n)[n] \in S
    <3>1. G(n) \in [0..n -> S] /\ n \in 0..n
      BY <1>5
    <3> QED BY <3>1
  <2> QED BY <2>1
<1>7. f[0] = f0
  BY <1>5
<1>8. ASSUME NEW n \in Nat PROVE f[n + 1] = D[n][f[n]]
  <2>1. G(n + 1) \in Upto(n + 1) /\ G(n) \in Upto(n)
    BY <1>5
  <2>2. G(n + 1)[n] = G(n)[n]
    <3> HIDE DEF Upto
    <3>1. n + 1 \in Nat /\ n <= n + 1
      OBVIOUS
    <3> QED BY <2>1, <3>1, <1>4
  <2>3. n \in 0..((n + 1) - 1)
    OBVIOUS
  <2>4. G(n + 1)[n + 1] = D[n][G(n + 1)[n]]
    BY <2>1, <2>3
  <2>5. f[n + 1] = G(n + 1)[n + 1] /\ f[n] = G(n)[n]
    OBVIOUS
  <2> HIDE DEF f, Upto
  <2> QED BY <2>2, <2>4, <2>5, Zenon
<1> HIDE DEF f
<1>9. Recurses(f, f0, D)
  BY <1>7, <1>8, Zenon DEF Recurses
<1> QED BY <1>6, <1>9, Zenon

-----------------------------------------------------------------------------
(* Names.                                                                  *)

NoUp(p) == ".." \notin ToSet(p)
Walk2(g, start, parts) ==
    [n \in 0..Len(parts) |-> IF n = 0 THEN start ELSE Step(g[n - 1], parts[n])]

LEMMA StepIn ==
    ASSUME NEW X, NEW done \in Seq(X), NEW part \in X
    PROVE  Step(done, part) \in Seq(X)
<1>1. Append(done, part) \in Seq(X)
  BY AppendProperties
<1>2. Front(done) \in Seq(X)
  <2>1. Len(done) \in Nat /\ \A i \in 1..(Len(done) - 1) : done[i] \in X
    BY LenProperties, ElementOfSeq
  <2>2. SubSeq(done, 1, Len(done) - 1) \in Seq(X)
    BY <2>1, SubSeqProperties
  <2> QED BY <2>2 DEF Front
<1> QED BY <1>1, <1>2 DEF Step

WalkOf(d, start, parts) ==
    /\ d[0] = start
    /\ \A n \in 1..Len(parts) : d[n] = Step(d[n - 1], parts[n])
    /\ Walked(start, parts) = d[Len(parts)]

\* The parts of a name, one after the other.
LEMMA WalkedIs ==
    ASSUME NEW X, NEW start \in Seq(X), NEW parts \in Seq(X)
    PROVE  \E d \in [0..Len(parts) -> Seq(X)] : WalkOf(d, start, parts)
<1> DEFINE S == Seq(X)
           l == Len(parts)
           D == [n \in Nat |-> [x \in S |-> IF n + 1 \in 1..l THEN Step(x, parts[n + 1]) ELSE x]]
<1>1. l \in Nat /\ \A n \in 1..l : parts[n] \in X
  BY LenProperties, ElementOfSeq
<1>2. D \in StepsOn(S)
  <2>1. ASSUME NEW n \in Nat, NEW x \in S
        PROVE  (IF n + 1 \in 1..l THEN Step(x, parts[n + 1]) ELSE x) \in S
    BY <1>1, StepIn
  <2> HIDE DEF S, l
  <2> QED BY <2>1 DEF StepsOn
<1>3. PICK f \in [Nat -> S] : f[0] = start /\ \A n \in Nat : f[n + 1] = D[n][f[n]]
  <2> HIDE DEF S, D
  <2>1. \E f \in [Nat -> S] : Recurses(f, start, D)
    <3>1. start \in S
      BY DEF S
    <3> QED BY <3>1, <1>2, RecursionOnNat, Zenon
  <2> QED BY <2>1, Zenon DEF Recurses
<1> DEFINE g == [n \in 0..l |-> f[n]]
<1>4. ASSUME NEW n \in 1..l PROVE f[n] = Step(f[n - 1], parts[n])
  <2>1. n - 1 \in Nat /\ (n - 1) + 1 = n
    BY <1>1
  <2>2. f[n] = D[n - 1][f[n - 1]] /\ f[n - 1] \in S
    BY <2>1, <1>3, Zenon
  <2>3. D[n - 1][f[n - 1]] = IF (n - 1) + 1 \in 1..l THEN Step(f[n - 1], parts[(n - 1) + 1]) ELSE f[n - 1]
    <3> HIDE DEF S, l
    <3> QED BY <2>1, <2>2, Zenon
  <2> QED BY <2>1, <2>2, <2>3, Zenon
<1>5. g = Walk2(g, start, parts)
  <2>1. ASSUME NEW n \in 0..l PROVE g[n] = IF n = 0 THEN start ELSE Step(g[n - 1], parts[n])
    <3>1. CASE n = 0
      BY <3>1, <1>1, <1>3
    <3>2. CASE n # 0
      <4>1. n \in 1..l /\ n \in 0..l /\ n - 1 \in 0..l
        BY <3>2, <1>1
      <4>2. g[n] = f[n] /\ g[n - 1] = f[n - 1]
        BY <4>1, Zenon
      <4> QED BY <3>2, <4>1, <4>2, <1>4, Zenon
    <3> QED BY <3>1, <3>2
  <2>2. g = [n \in 0..l |-> g[n]]
    OBVIOUS
  <2> HIDE DEF g
  <2> QED BY <2>1, <2>2, Zenon DEF Walk2
<1>6. Walked(start, parts) = (CHOOSE h : h = Walk2(h, start, parts))[l]
  BY Zenon DEF Walked, Walk2
<1> DEFINE d == CHOOSE h : h = Walk2(h, start, parts)
<1>7. d = Walk2(d, start, parts)
  <2> HIDE DEF g
  <2> QED BY <1>5, Zenon
<1> HIDE DEF d
<1>8. d[0] = start /\ \A n \in 1..l : d[n] = Step(d[n - 1], parts[n])
  <2>1. 0 \in 0..l /\ \A n \in 1..l : n \in 0..l /\ n # 0
    BY <1>1
  <2>2. \A n \in 0..l : d[n] = IF n = 0 THEN start ELSE Step(d[n - 1], parts[n])
    BY <1>7, Zenon DEF Walk2
  <2> QED BY <2>1, <2>2, Zenon
<1>9. \A n \in 0..l : d[n] = f[n]
  <2> DEFINE T == {n \in Nat : n \in 0..l => d[n] = f[n]}
  <2>1. 0 \in T
    BY <1>3, <1>8
  <2>2. ASSUME NEW n \in T PROVE n + 1 \in T
    <3>1. CASE n + 1 \in 0..l
      <4>1. n \in Nat /\ n \in 0..l /\ n + 1 \in 1..l /\ (n + 1) - 1 = n
        BY <1>1, <3>1
      <4>2. d[n] = f[n]
        BY <4>1
      <4>3. d[n + 1] = Step(d[n], parts[n + 1]) /\ f[n + 1] = Step(f[n], parts[n + 1])
        BY <4>1, <1>8, <1>4
      <4>4. d[n + 1] = f[n + 1]
        BY <4>2, <4>3, Zenon
      <4> QED BY <4>1, <4>4
    <3>2. CASE n + 1 \notin 0..l
      BY <3>2
    <3> QED BY <3>1, <3>2
  <2>3. T = Nat
    <3> HIDE DEF T
    <3>1. T \in SUBSET Nat
      BY DEF T
    <3> QED BY <3>1, <2>1, <2>2, AllNumbers
  <2>4. \A n \in 0..l : n \in T
    <3> HIDE DEF T
    <3> QED BY <2>3, <1>1
  <2> QED BY <2>4, Zenon
<1>10. d \in [0..l -> S]
  <2>1. d = [n \in 0..l |-> d[n]]
    BY <1>7, Zenon DEF Walk2
  <2>2. ASSUME NEW n \in 0..l PROVE d[n] \in S
    <3>1. n \in Nat
      BY <1>1
    <3> HIDE DEF S
    <3> QED BY <3>1, <1>9, <1>3
  <2> HIDE DEF S
  <2> QED BY <2>1, <2>2
<1>11. Walked(start, parts) = d[l]
  BY <1>6 DEF d
<1> HIDE DEF S, D, g
<1>12. WalkOf(d, start, parts)
  BY <1>8, <1>11, Zenon DEF WalkOf, l
<1> QED BY <1>10, <1>12, Zenon DEF S, l

\* Nothing is left to walk.
LEMMA WalkedDone ==
    ASSUME NEW X, NEW start \in Seq(X)
    PROVE  Walked(start, <<>>) = start
<1>1. <<>> \in Seq(X) /\ Len(<<>>) = 0
  BY EmptySeq
<1>2. PICK d \in [0..Len(<<>>) -> Seq(X)] : WalkOf(d, start, <<>>)
  BY <1>1, WalkedIs, Zenon
<1>3. d[0] = start /\ Walked(start, <<>>) = d[Len(<<>>)]
  BY <1>2, Zenon DEF WalkOf
<1> QED BY <1>1, <1>3

\* The walk from the first part on.
LEMMA WalkedOn ==
    ASSUME NEW X, NEW start \in Seq(X), NEW parts \in Seq(X), parts # <<>>
    PROVE  Walked(start, parts) = Walked(Step(start, Head(parts)), Tail(parts))
<1> DEFINE next == Step(start, Head(parts))
           rest == Tail(parts)
           l == Len(parts)
<1>1. Head(parts) \in X /\ rest \in Seq(X) /\ Len(rest) = l - 1 /\ l \in Nat /\ l # 0
  BY HeadTailProperties, EmptySeq
<1>2. Head(parts) = parts[1] /\ \A i \in 1..(l - 1) : rest[i] = parts[i + 1]
  BY HeadTailProperties, <1>1
<1>3. next \in Seq(X)
  BY <1>1, StepIn
<1> HIDE DEF next, rest, l
<1>4. PICK d \in [0..Len(parts) -> Seq(X)] :
         /\ d[0] = start
         /\ \A n \in 1..Len(parts) : d[n] = Step(d[n - 1], parts[n])
         /\ Walked(start, parts) = d[Len(parts)]
  <2>1. \E d \in [0..Len(parts) -> Seq(X)] : WalkOf(d, start, parts)
    BY WalkedIs, Zenon
  <2> QED BY <2>1, Zenon DEF WalkOf
<1>5. PICK e \in [0..Len(rest) -> Seq(X)] :
         /\ e[0] = next
         /\ \A n \in 1..Len(rest) : e[n] = Step(e[n - 1], rest[n])
         /\ Walked(next, rest) = e[Len(rest)]
  <2>1. \E e \in [0..Len(rest) -> Seq(X)] : WalkOf(e, next, rest)
    BY <1>1, <1>3, WalkedIs, Zenon
  <2> QED BY <2>1, Zenon DEF WalkOf
<1> DEFINE T == {n \in Nat : n <= l - 1 => e[n] = d[n + 1]}
<1>6. 0 \in T
  <2>1. 1 \in 1..Len(parts) /\ 1 - 1 = 0
    BY <1>1 DEF l
  <2>2. d[1] = Step(d[0], parts[1])
    BY <2>1, <1>4
  <2> QED BY <2>2, <1>2, <1>4, <1>5 DEF next
<1>7. ASSUME NEW n \in T PROVE n + 1 \in T
  <2>1. CASE n + 1 <= l - 1
    <3>1. /\ n \in Nat /\ n <= l - 1 /\ n + 1 \in 1..Len(rest) /\ (n + 1) - 1 = n
          /\ (n + 1) + 1 \in 1..Len(parts) /\ ((n + 1) + 1) - 1 = n + 1
      BY <1>1, <2>1 DEF l
    <3>2. e[n + 1] = Step(e[n], rest[n + 1]) /\ rest[n + 1] = parts[(n + 1) + 1]
      BY <3>1, <1>1, <1>2, <1>5
    <3>3. d[(n + 1) + 1] = Step(d[n + 1], parts[(n + 1) + 1])
      BY <3>1, <1>4
    <3>4. e[n] = d[n + 1]
      BY <3>1
    <3>5. e[n + 1] = d[(n + 1) + 1]
      BY <3>2, <3>3, <3>4, Zenon
    <3> QED BY <3>1, <3>5
  <2>2. CASE ~(n + 1 <= l - 1)
    BY <2>2
  <2> QED BY <2>1, <2>2
<1>8. T = Nat
  <2> HIDE DEF T
  <2>1. T \in SUBSET Nat
    BY DEF T
  <2> QED BY <2>1, <1>6, <1>7, AllNumbers
<1>9. e[l - 1] = d[(l - 1) + 1]
  <2>1. l - 1 \in Nat /\ l - 1 <= l - 1
    BY <1>1
  <2>2. l - 1 \in T
    BY <2>1, <1>8, Zenon
  <2> QED BY <2>1, <2>2, Zenon
<1>10. e[Len(rest)] = d[Len(parts)]
  BY <1>1, <1>9 DEF l
<1> QED BY <1>4, <1>5, <1>10 DEF next, rest

\* A name in which nothing leads up stays one.
LEMMA NoUpAppend ==
    ASSUME NEW X, NEW p \in Seq(X), NoUp(p), NEW part \in X, part # ".."
    PROVE  NoUp(Append(p, part))
<1> DEFINE a == Append(p, part)
<1>1. Len(p) \in Nat /\ a \in Seq(X) /\ Len(a) = Len(p) + 1 /\ \A i \in 1..Len(p) : a[i] = p[i]
  BY AppendProperties, LenProperties
<1>2. a[Len(p) + 1] = part /\ DOMAIN p = 1..Len(p) /\ DOMAIN a = 1..Len(a)
  BY <1>1, AppendProperties, LenProperties
<1> HIDE DEF a
<1>3. ASSUME NEW i \in DOMAIN a PROVE a[i] # ".."
  <2>1. CASE i = Len(p) + 1
    BY <2>1, <1>2
  <2>2. CASE i # Len(p) + 1
    <3>1. i \in DOMAIN p /\ a[i] = p[i]
      BY <1>1, <1>2, <2>2
    <3> QED BY <3>1 DEF NoUp, ToSet
  <2> QED BY <2>1, <2>2
<1>4. NoUp(a)
  BY <1>3 DEF NoUp, ToSet
<1> QED BY <1>4 DEF a

LEMMA NoUpFront ==
    ASSUME NEW X, NEW p \in Seq(X), NoUp(p), p # <<>>
    PROVE  NoUp(Front(p))
<1> DEFINE a == Front(p)
           l == Len(p)
<1>1. l \in Nat /\ DOMAIN p = 1..l /\ \A i \in 1..(l - 1) : p[i] \in X
  BY LenProperties, ElementOfSeq
<1>2. /\ a \in Seq(X) /\ Len(a) = IF 1 <= l - 1 THEN ((l - 1) - 1) + 1 ELSE 0
      /\ \A i \in 1..(((l - 1) - 1) + 1) : a[i] = p[(1 + i) - 1]
  <2> HIDE DEF l
  <2>1. 1 \in Int /\ l - 1 \in Int
    BY <1>1
  <2>2. a = SubSeq(p, 1, l - 1)
    BY Zenon DEF Front, l
  <2> HIDE DEF a
  <2> QED BY <2>1, <2>2, <1>1, SubSeqProperties
<1>3. DOMAIN a = 1..Len(a)
  BY <1>2, LenProperties
<1> HIDE DEF a, l
<1>4. ASSUME NEW i \in DOMAIN a PROVE a[i] # ".."
  <2>1. i \in 1..(((l - 1) - 1) + 1) /\ (1 + i) - 1 = i /\ i \in DOMAIN p
    BY <1>1, <1>2, <1>3
  <2>2. a[i] = p[i]
    BY <2>1, <1>2
  <2> QED BY <2>1, <2>2 DEF NoUp, ToSet
<1>5. NoUp(a)
  BY <1>4 DEF NoUp, ToSet
<1> QED BY <1>5 DEF a

\* normalize_absolute leaves nothing that leads up.
LEMMA NormalizedNoUp ==
    ASSUME NEW X, NEW parts \in Seq(X)
    PROVE  Normalize(parts) \in Seq(X) /\ NoUp(Normalize(parts))
<1> DEFINE l == Len(parts)
<1>1. l \in Nat /\ <<>> \in Seq(X) /\ \A i \in 1..l : parts[i] \in X
  BY LenProperties, EmptySeq, ElementOfSeq
<1>2. PICK d \in [0..l -> Seq(X)] :
         /\ d[0] = <<>>
         /\ \A n \in 1..l : d[n] = Step(d[n - 1], parts[n])
         /\ Walked(<<>>, parts) = d[l]
  <2>1. \E d \in [0..l -> Seq(X)] : WalkOf(d, <<>>, parts)
    BY <1>1, WalkedIs, Zenon
  <2> QED BY <2>1, Zenon DEF WalkOf
<1> HIDE DEF l
<1> DEFINE T == {n \in Nat : n <= l => NoUp(d[n])}
<1>3. 0 \in T
  <2>1. NoUp(<<>>)
    BY DEF NoUp, ToSet
  <2> QED BY <2>1, <1>2
<1>4. ASSUME NEW n \in T PROVE n + 1 \in T
  <2>1. CASE n + 1 <= l
    <3>1. n \in Nat /\ n <= l /\ n + 1 \in 1..l /\ (n + 1) - 1 = n /\ n \in 0..l
      BY <1>1, <2>1
    <3>2. d[n + 1] = Step(d[n], parts[n + 1]) /\ d[n] \in Seq(X) /\ parts[n + 1] \in X
      BY <3>1, <1>1, <1>2
    <3>3. NoUp(d[n])
      BY <3>1
    <3>4. NoUp(Step(d[n], parts[n + 1]))
      BY <3>2, <3>3, NoUpAppend, NoUpFront, Zenon DEF Step
    <3>5. NoUp(d[n + 1])
      BY <3>2, <3>4, Zenon
    <3> QED BY <3>1, <3>5
  <2>2. CASE ~(n + 1 <= l)
    BY <2>2
  <2> QED BY <2>1, <2>2
<1>5. T = Nat
  <2> HIDE DEF T
  <2>1. T \in SUBSET Nat
    BY DEF T
  <2> QED BY <2>1, <1>3, <1>4, AllNumbers
<1>6. NoUp(d[l]) /\ d[l] \in Seq(X)
  <2>1. l \in 0..l /\ l <= l
    BY <1>1
  <2>2. l \in T
    BY <1>1, <1>5, Zenon
  <2> QED BY <2>1, <2>2, <1>2, Zenon
<1> QED BY <1>2, <1>6, Zenon DEF Normalize

LEMMA SubSeqAppend ==
    ASSUME NEW X, NEW d \in Seq(X), NEW x \in X, NEW n \in 0..Len(d)
    PROVE  SubSeq(Append(d, x), 1, n) = SubSeq(d, 1, n)
<1> DEFINE a == Append(d, x)
           b == SubSeq(a, 1, n)
           c == SubSeq(d, 1, n)
<1>1. Len(d) \in Nat /\ a \in Seq(X) /\ Len(a) = Len(d) + 1 /\ \A i \in 1..Len(d) : a[i] = d[i]
  BY AppendProperties, LenProperties
<1>2. n \in Int /\ 1 \in Int /\ \A i \in 1..n : a[i] = d[i] /\ d[i] \in X
  BY <1>1, ElementOfSeq
<1> HIDE DEF a
<1>3. \A i \in 1..n : a[i] \in X
  BY <1>2
<1>4. /\ b \in Seq(X) /\ Len(b) = IF 1 <= n THEN (n - 1) + 1 ELSE 0
      /\ \A i \in 1..((n - 1) + 1) : b[i] = a[(1 + i) - 1]
  BY <1>2, <1>3, SubSeqProperties
<1>5. /\ c \in Seq(X) /\ Len(c) = IF 1 <= n THEN (n - 1) + 1 ELSE 0
      /\ \A i \in 1..((n - 1) + 1) : c[i] = d[(1 + i) - 1]
  BY <1>2, SubSeqProperties
<1> HIDE DEF b, c
<1>6. ASSUME NEW i \in 1..Len(b) PROVE b[i] = c[i]
  <2>1. i \in 1..((n - 1) + 1) /\ (1 + i) - 1 = i /\ i \in 1..n
    BY <1>1, <1>4
  <2> QED BY <2>1, <1>2, <1>4, <1>5
<1>7. Len(b) = Len(c)
  BY <1>4, <1>5
<1>8. b = c
  BY <1>4, <1>5, <1>6, <1>7, SeqEqual
<1> QED BY <1>8 DEF a, b, c

\* An entry of a directory: the path of the directory and the name in it.
LEMMA EntryOf ==
    ASSUME NEW X, NEW d \in Seq(X), NEW x \in X
    PROVE  /\ Append(d, x) \in Seq(X) /\ Append(d, x) # <<>>
           /\ Last(Append(d, x)) = x
           /\ Len(Append(d, x)) = Len(d) + 1 /\ IsPrefix(d, Append(d, x))
<1> DEFINE a == Append(d, x)
<1>1. /\ Len(d) \in Nat /\ a \in Seq(X) /\ a # <<>> /\ Len(a) = Len(d) + 1 /\ a[Len(d) + 1] = x
  BY AppendProperties, LenProperties
<1>2. SubSeq(a, 1, Len(d)) = SubSeq(d, 1, Len(d))
  BY <1>1, SubSeqAppend
<1> HIDE DEF a
<1>3. Last(a) = x /\ IsPrefix(d, a)
  BY <1>1, <1>2 DEF Last, IsPrefix
<1> QED BY <1>1, <1>3 DEF a

LEMMA PrefixAppend ==
    ASSUME NEW X, NEW r \in Seq(X), NEW d \in Seq(X), NEW x \in X, IsPrefix(r, d)
    PROVE  IsPrefix(r, Append(d, x))
<1> DEFINE a == Append(d, x)
<1>1. Len(d) \in Nat /\ Len(r) \in Nat /\ Len(r) <= Len(d) /\ Len(a) = Len(d) + 1
  BY AppendProperties, LenProperties DEF IsPrefix
<1>2. SubSeq(a, 1, Len(r)) = SubSeq(d, 1, Len(r))
  BY <1>1, SubSeqAppend
<1> HIDE DEF a
<1>3. IsPrefix(r, a)
  BY <1>1, <1>2 DEF IsPrefix
<1> QED BY <1>3 DEF a

-----------------------------------------------------------------------------
(* What a loss of power may leave.                                         *)

DiskChoices ==
    {f \in UNION {[P -> UNION {maybe[p] : p \in DOMAIN maybe}] : P \in SUBSET DOMAIN maybe} :
       \A p \in DOMAIN f : f[p] \in maybe[p]}

LEMMA ChoiceIs ==
    ASSUME NEW P \in SUBSET DOMAIN maybe, NEW f, f = [p \in P |-> f[p]], \A p \in P : f[p] \in maybe[p]
    PROVE  f \in DiskChoices
<1> DEFINE V == UNION {maybe[p] : p \in DOMAIN maybe}
<1>1. \A p \in P : f[p] \in V
  OBVIOUS
<1> HIDE DEF V
<1>2. f \in [P -> V] /\ DOMAIN f = P
  BY <1>1
<1>3. f \in UNION {[Q -> V] : Q \in SUBSET DOMAIN maybe}
  BY <1>2, Zenon
<1> QED BY <1>2, <1>3, Zenon DEF DiskChoices, V

LEMMA ChoiceHas ==
    ASSUME NEW f \in DiskChoices
    PROVE  DOMAIN f \in SUBSET DOMAIN maybe /\ \A p \in DOMAIN f : f[p] \in maybe[p]
<1> DEFINE V == UNION {maybe[p] : p \in DOMAIN maybe}
<1>1. f \in UNION {[Q -> V] : Q \in SUBSET DOMAIN maybe} /\ \A p \in DOMAIN f : f[p] \in maybe[p]
  BY Zenon DEF DiskChoices
<1> HIDE DEF V
<1>2. PICK Q \in SUBSET DOMAIN maybe : f \in [Q -> V]
  BY <1>1, Zenon
<1> QED BY <1>1, <1>2

LEMMA DecidedChooses ==
    ASSUME NEW f \in DiskChoices
    PROVE  Decided(f) \in SUBSET DiskChoices
<1>0. DOMAIN f \in SUBSET DOMAIN maybe /\ \A p \in DOMAIN f : f[p] \in maybe[p]
  BY ChoiceHas
<1>1. CASE DOMAIN maybe \subseteq DOMAIN f
  <2>1. Decided(f) = {f}
    BY <1>1, Zenon DEF Decided
  <2> QED BY <2>1
<1>2. CASE ~(DOMAIN maybe \subseteq DOMAIN f)
  <2> DEFINE p == CHOOSE q \in DOMAIN maybe \ DOMAIN f : TRUE
             More(v) == [q \in DOMAIN f \cup {p} |-> IF q = p THEN v ELSE f[q]]
  <2>1. \E q : q \in DOMAIN maybe \ DOMAIN f
    BY <1>2, Zenon
  <2>2. p \in DOMAIN maybe /\ p \notin DOMAIN f
    BY <2>1, Zenon
  <2>3. Decided(f) = {More(v) : v \in maybe[p]}
    BY <1>2, Zenon DEF Decided
  <2> HIDE DEF p
  <2>4. ASSUME NEW v \in maybe[p] PROVE More(v) \in DiskChoices
    <3> DEFINE P == DOMAIN f \cup {p}
               g == More(v)
    <3>1. P \in SUBSET DOMAIN maybe
      BY <1>0, <2>2
    <3>2. g = [q \in P |-> g[q]] /\ \A q \in P : g[q] = IF q = p THEN v ELSE f[q]
      BY Zenon
    <3> HIDE DEF g
    <3>3. \A q \in P : g[q] \in maybe[q]
      BY <1>0, <2>2, <2>4, <3>2
    <3> HIDE DEF P
    <3>4. g \in DiskChoices
      BY <3>1, <3>2, <3>3, ChoiceIs
    <3> QED BY <3>4 DEF g
  <2> HIDE DEF More
  <2> QED BY <2>3, <2>4
<1> QED BY <1>1, <1>2

Left2(g) == [n \in Nat |-> IF n = 0 THEN {<<>>} ELSE UNION {Decided(f) : f \in g[n - 1]}]

\* Of every entry that may have changed, a value it may have on disk.
LEMMA SurvivalsChoose ==
    ASSUME IsFiniteSet(DOMAIN maybe), NEW left \in Survivals
    PROVE  \A p \in DOMAIN left : p \in DOMAIN maybe /\ left[p] \in maybe[p]
<1> DEFINE S == SUBSET DiskChoices
           first == {<<>>}
           All(x) == UNION {Decided(f) : f \in x}
           D == [n \in Nat |-> [x \in S |-> All(x)]]
<1>1. first \in S
  <2>1. <<>> = [p \in {} |-> <<>>[p]]
    OBVIOUS
  <2>2. <<>> \in DiskChoices
    BY <2>1, ChoiceIs
  <2> QED BY <2>2
<1>2. ASSUME NEW x \in S PROVE All(x) \in S
  BY DecidedChooses
<1> HIDE DEF All
<1>3. D \in StepsOn(S)
  <2> HIDE DEF S
  <2> QED BY <1>2 DEF StepsOn
<1>4. PICK g \in [Nat -> S] : g[0] = first /\ \A n \in Nat : g[n + 1] = D[n][g[n]]
  <2> HIDE DEF S, D, first
  <2>1. \E g \in [Nat -> S] : Recurses(g, first, D)
    BY <1>1, <1>3, RecursionOnNat, Zenon
  <2> QED BY <2>1, Zenon DEF Recurses
<1>5. ASSUME NEW n \in Nat PROVE g[n] = IF n = 0 THEN first ELSE All(g[n - 1])
  <2> HIDE DEF S, first
  <2>1. CASE n = 0
    BY <2>1, <1>4
  <2>2. CASE n # 0
    <3>1. n - 1 \in Nat /\ (n - 1) + 1 = n
      BY <2>2
    <3>2. g[n] = D[n - 1][g[n - 1]] /\ g[n - 1] \in S
      BY <3>1, <1>4, Zenon
    <3>3. D[n - 1][g[n - 1]] = All(g[n - 1])
      BY <3>1, <3>2, Zenon
    <3> QED BY <2>2, <3>2, <3>3, Zenon
  <2> QED BY <2>1, <2>2
<1>6. g = Left2(g)
  <2>1. g = [n \in Nat |-> IF n = 0 THEN first ELSE All(g[n - 1])]
    <3> HIDE DEF S, first
    <3> QED BY <1>5
  <2> QED BY <2>1, Zenon DEF Left2, All
<1> DEFINE h == CHOOSE k : k = Left2(k)
<1>7. h = Left2(h)
  BY <1>6, Zenon
<1>8. Survivals = h[Cardinality(DOMAIN maybe)]
  BY Zenon DEF Survivals, Left2
<1> HIDE DEF h
<1>9. ASSUME NEW n \in Nat PROVE h[n] = IF n = 0 THEN first ELSE All(h[n - 1])
  BY <1>7, Zenon DEF Left2, All
<1> DEFINE T == {n \in Nat : h[n] \in S}
<1> HIDE DEF S, first
<1>10. 0 \in T
  BY <1>1, <1>9
<1>11. ASSUME NEW n \in T PROVE n + 1 \in T
  <2>1. n \in Nat /\ n + 1 \in Nat /\ n + 1 # 0 /\ (n + 1) - 1 = n /\ h[n] \in S
    BY <1>11
  <2>2. h[n + 1] = All(h[n])
    BY <2>1, <1>9
  <2>3. h[n + 1] \in S
    BY <2>1, <2>2, <1>2, Zenon
  <2> QED BY <2>1, <2>3
<1>12. T = Nat
  <2> HIDE DEF T
  <2>1. T \in SUBSET Nat
    BY DEF T
  <2> QED BY <2>1, <1>10, <1>11, AllNumbers
<1>13. Cardinality(DOMAIN maybe) \in T
  BY <1>12, FS_CardinalityType, Zenon
<1>14. left \in DiskChoices
  BY <1>8, <1>13, Zenon DEF S
<1> QED BY <1>14, ChoiceHas

-----------------------------------------------------------------------------
(* The inductive invariant.                                                *)

\* The names, the ones the code itself writes among them.
PathParts == STRING \cup {"", "sword3", ".local", "share"}
Temps == ToSet(TempNames)

\* No caller saves under the name of a temporary.
PlainNames ==
    \A sc \in Scenarios : \A t \in Savers : \A r \in sc.asked[t] : ToSet(r.rel.parts) \cap Temps = {}

EnvInv == \E sc \in Scenarios : env = sc.env /\ asked = sc.asked

PathsInv ==
    /\ paths = [pc |-> paths.pc, root |-> paths.root, depth |-> paths.depth, handle |-> paths.handle]
    /\ paths.depth \in Nat /\ paths.handle \in BOOLEAN
    /\ paths.handle => paths.pc = "up"
    /\ paths.pc # "down" => paths.root = DataRoot.at
    /\ paths.pc = "mkdirs" => paths.depth >= 1

Inodes == [size : Nat, len : Nat, synced : BOOLEAN, ord : Nat]
InodesOK == inode \in Seq(Inodes)
Whole(i) == inode[i].synced /\ inode[i].len = inode[i].size

\* A file of the port is below its directory, and whole unless its name is a
\* temporary's.
Below(p) == IsPrefix(DataRoot.at, p) /\ NoUp(p)
HoldsFile(p, v) ==
    \E i \in 1..Len(inode) : v = File(i) /\ Below(p) /\ (Last(p) \notin Temps => Whole(i))
Sound(p, v) == v \in {None, Dir, Link, File(0)} \/ HoldsFile(p, v)
DiskInv ==
    /\ IsFiniteSet(DOMAIN maybe)
    /\ \A p : Entry(p) \in OnDisk(p)
    /\ \A p : \A v \in OnDisk(p) : Sound(p, v)

\* Whatever is on disk of a file that a call has saved is at least as new.
AsNew(v, n) == \E i \in 1..Len(inode) : v = File(i) /\ inode[i].ord >= n
AckedAt(p) == acked[p] \in Nat /\ Last(p) \notin Temps /\ \A v \in OnDisk(p) : AsNew(v, acked[p])
AckInv == \A p \in DOMAIN acked : AckedAt(p)

IsCall(s) ==
    /\ s = [pc |-> s.pc, rel |-> s.rel, fd |-> s.fd, pending |-> s.pending, rest |-> s.rest,
            try |-> s.try, size |-> s.size, id |-> s.id, temporary |-> s.temporary]
    /\ s.fd \in Seq(PathParts) /\ s.pending \in PathParts /\ s.rest \in Seq(PathParts)
    /\ s.try \in Nat \ {0} /\ s.size \in Nat /\ s.id \in Nat
    /\ s.pc = "idle" => s = NoCall

\* Where the walk is: what it still has to do leads to what the caller named.
WalkAt(s) == IF s.pending = "" THEN s.fd ELSE Name(s, s.pending)
Walking(s) ==
    /\ Walked(WalkAt(s), s.rest) = Join(paths.root, s.rel)
    /\ ".." \in ToSet(s.rel.parts) => ".." \in ToSet(s.rest)
    /\ ToSet(s.rest) \cap Temps = {}
    /\ ~s.rel.abs

\* Where a call may be.
Owning == {"write", "sync", "rename"}
Arrived == {"temp", "syncdir"} \cup Owning
PlaceInv(s) ==
    s.pc # "idle" => /\ paths.pc = "up"
                     /\ Below(s.fd)
                     /\ s.pending \notin Temps /\ s.pending # ".."
                     /\ s.pc = "walk" => Walking(s)
                     /\ s.pc \in Arrived => s.pending # "" /\ DataPath(s.rel) = Name(s, s.pending)

\* The temporary that a call owns, and the file behind it.
OwnInv(s) ==
    /\ s.id <= Len(inode)
    /\ s.temporary # "" => s.temporary \in Temps
    /\ Owns(s) => Entry(Name(s, s.temporary)) = File(s.id)
    /\ Owns(s) => s.pc \in Owning \cup {"done"}
    /\ s.pc \in Owning => Owns(s)
    /\ s.pc \in {"walk", "temp"} => s.id = 0
    /\ s.pc = "syncdir" => s.id # 0 /\ AsNew(Entry(Name(s, s.pending)), inode[s.id].ord)
FileInv(s) ==
    /\ s.pc = "write" => inode[s.id].size = s.size
    /\ s.pc \in {"sync", "rename"} => inode[s.id].len = inode[s.id].size
    /\ s.pc = "rename" => inode[s.id].synced
CallInv(s) == IsCall(s) /\ PlaceInv(s) /\ OwnInv(s) /\ FileInv(s)

CallsInv ==
    /\ save = [t \in Savers |-> save[t]]
    /\ \A t \in Savers : CallInv(save[t])
    /\ \A t, u \in Savers : t # u /\ save[t].id # 0 => save[t].id # save[u].id

SavedInv == EnvInv /\ PathsInv /\ InodesOK /\ DiskInv /\ AckInv /\ CallsInv

LEMMA Kinds ==
    /\ \A i, j : File(i) = File(j) => i = j
    /\ \A i : /\ File(i).k = "file" /\ File(i).id = i
              /\ File(i) # None /\ File(i) # Dir /\ File(i) # Link
    /\ None # Dir /\ None.k = "none" /\ Dir.k = "dir" /\ Link.k = "link"
    /\ None.id = 0 /\ Dir.id = 0 /\ Link.id = 0
<1>1. \A i : File(i).k = "file" /\ File(i).id = i
  BY DEF File
<1>2. None.k = "none" /\ Dir.k = "dir" /\ Link.k = "link" /\ None.id = 0 /\ Dir.id = 0 /\ Link.id = 0
  BY DEF None, Dir, Link
<1>3. ASSUME NEW i, NEW j, File(i) = File(j) PROVE i = j
  <2>1. File(i).id = i /\ File(j).id = j
    BY <1>1, Zenon
  <2>2. File(i).id = File(j).id
    BY <1>3, Zenon
  <2> QED BY <2>1, <2>2, Zenon
<1>4. \A i : File(i) # None /\ File(i) # Dir /\ File(i) # Link
  BY <1>1, <1>2
<1>5. None # Dir
  BY <1>2
<1> QED BY <1>1, <1>2, <1>3, <1>4, <1>5, Zenon

\* The order of the last rename.
LEMMA LastOrderIs ==
    ASSUME inode \in Seq(Inodes)
    PROVE  LastOrder \in Nat /\ \A i \in 1..Len(inode) : inode[i].ord <= LastOrder
<1> DEFINE S == {0} \cup {inode[i].ord : i \in DOMAIN inode}
           T == {n \in Nat : n <= Len(inode) =>
                   \E x \in S : \A i \in 1..n : inode[i].ord <= x}
<1>1. Len(inode) \in Nat /\ DOMAIN inode = 1..Len(inode)
  BY LenProperties
<1>2. ASSUME NEW i \in 1..Len(inode) PROVE inode[i].ord \in Nat
  <2>1. inode[i] \in Inodes
    BY ElementOfSeq
  <2> QED BY <2>1 DEF Inodes
<1>3. S \in SUBSET Nat
  BY <1>1, <1>2
<1>4. 0 \in T
  OBVIOUS
<1>5. ASSUME NEW n \in T PROVE n + 1 \in T
  <2>1. CASE n + 1 <= Len(inode)
    <3>1. n \in Nat /\ n <= Len(inode) /\ n + 1 \in 1..Len(inode)
      BY <1>1, <2>1
    <3>2. PICK x \in S : \A i \in 1..n : inode[i].ord <= x
      BY <3>1
    <3> DEFINE y == inode[n + 1].ord
    <3>3. x \in Nat /\ y \in Nat /\ y \in S
      BY <1>1, <1>2, <1>3, <3>1, <3>2
    <3>4. \A i \in 1..(n + 1) : i = n + 1 \/ i \in 1..n
      BY <3>1
    <3>5. \A i \in 1..n : inode[i].ord \in Nat
      BY <1>2, <3>1
    <3> HIDE DEF S
    <3>6. CASE y <= x
      <4>1. \A i \in 1..(n + 1) : inode[i].ord <= x
        BY <3>2, <3>3, <3>4, <3>6
      <4> QED BY <3>1, <3>2, <4>1
    <3>7. CASE x < y
      <4>1. \A i \in 1..(n + 1) : inode[i].ord <= y
        BY <3>2, <3>3, <3>4, <3>5, <3>7
      <4> QED BY <3>1, <3>3, <4>1
    <3>8. y <= x \/ x < y
      <4> HIDE DEF y
      <4> QED BY <3>3
    <3> QED BY <3>6, <3>7, <3>8, Zenon
  <2>2. CASE ~(n + 1 <= Len(inode))
    BY <2>2
  <2> QED BY <2>1, <2>2
<1>6. T = Nat
  <2> HIDE DEF T
  <2>1. T \in SUBSET Nat
    BY DEF T
  <2> QED BY <2>1, <1>4, <1>5, AllNumbers
<1>7. PICK x \in S : \A i \in 1..Len(inode) : inode[i].ord <= x
  <2>1. Len(inode) \in T
    BY <1>1, <1>6, Zenon
  <2> HIDE DEF S
  <2> QED BY <1>1, <2>1
<1>8. \A m \in S : m <= x
  BY <1>1, <1>3, <1>7
<1>9. LastOrder = CHOOSE n \in S : \A m \in S : m <= n
  BY Zenon DEF LastOrder
<1> HIDE DEF S
<1>10. LastOrder \in S /\ \A m \in S : m <= LastOrder
  BY <1>8, <1>9
<1> QED BY <1>1, <1>3, <1>10 DEF S

LEMMA WordsAre == \A p \in Seq(STRING) : p \in Seq(PathParts)
<1>1. STRING \subseteq PathParts
  BY Zenon DEF PathParts
<1> QED BY <1>1, SeqMonotonic

\* The data directory is named by a path in which nothing leads up.
LEMMA DataRootIs ==
    ASSUME EnvInv
    PROVE  DataRoot.at \in Seq(PathParts) /\ NoUp(DataRoot.at)
<1>1. PICK sc \in Scenarios : env = sc.env
  BY DEF EnvInv
<1> DEFINE data == env.data.parts
           xdg == env.xdg.parts
           home == env.home.parts
<1>2. data \in Seq(PathParts) /\ xdg \in Seq(PathParts) /\ home \in Seq(PathParts)
  <2>1. data \in Seq(STRING) /\ xdg \in Seq(STRING) /\ home \in Seq(STRING)
    BY <1>1, SavedFilesAssumption, Zenon
  <2> QED BY <2>1, WordsAre, Zenon
<1>3. "sword3" \in PathParts /\ ".local" \in PathParts /\ "share" \in PathParts
  BY Zenon DEF PathParts
<1>4. ASSUME NEW a \in PathParts, NEW b \in PathParts, NEW c \in PathParts
      PROVE  <<a>> \in Seq(PathParts) /\ <<a, b, c>> \in Seq(PathParts)
  OBVIOUS
<1>5. <<"sword3">> \in Seq(PathParts) /\ <<".local", "share", "sword3">> \in Seq(PathParts)
  BY <1>3, <1>4, Zenon
<1> DEFINE full == xdg \o <<"sword3">>
           long == home \o <<".local", "share", "sword3">>
<1>6. full \in Seq(PathParts) /\ long \in Seq(PathParts)
  BY <1>2, <1>5, ConcatProperties
<1>7. DataRoot.at \in {Normalize(data), Normalize(full), Normalize(long)}
  <2>1. CASE env.data # Unset
    BY <2>1 DEF DataRoot
  <2>2. CASE env.data = Unset /\ env.xdg # Unset
    BY <2>2 DEF DataRoot
  <2>3. CASE env.data = Unset /\ env.xdg = Unset
    BY <2>3 DEF DataRoot
  <2> QED BY <2>1, <2>2, <2>3
<1> HIDE DEF data, full, long
<1>8. ASSUME NEW parts \in Seq(PathParts) PROVE Normalize(parts) \in Seq(PathParts) /\ NoUp(Normalize(parts))
  BY NormalizedNoUp
<1> QED BY <1>2, <1>6, <1>7, <1>8, Zenon

\* A temporary's name is a name, and none that leads anywhere else.
LEMMA TempNameIs ==
    ASSUME NEW x \in Temps
    PROVE  x \in PathParts /\ x \notin {"", ".", ".."}
<1>1. PICK i \in DOMAIN TempNames : x = TempNames[i]
  BY DEF Temps, ToSet
<1> DEFINE W == STRING \ {"", ".", ".."}
<1>2. TempNames \in Seq(W)
  BY SavedFilesAssumption, Zenon
<1> HIDE DEF W
<1>3. x \in W
  BY <1>1, <1>2, LenProperties, ElementOfSeq
<1> QED BY <1>3, Zenon DEF W, PathParts

-----------------------------------------------------------------------------
(* What a change of some entries does.                                     *)

LEMMA PutIs ==
    ASSUME NEW entries, Put(entries)
    PROVE  /\ \A p : p # <<>> /\ p \in DOMAIN entries => Entry(p)' = entries[p]
           /\ \A p : p \notin DOMAIN entries => Entry(p)' = Entry(p)
           /\ \A p : p \in DOMAIN entries => OnDisk(p)' = OnDisk(p) \cup {entries[p]}
           /\ \A p : p \notin DOMAIN entries => OnDisk(p)' = OnDisk(p)
           /\ DOMAIN maybe' = DOMAIN maybe \cup DOMAIN entries
<1> DEFINE kept == {q \in DOMAIN node \cup DOMAIN entries : ~(q \in DOMAIN entries /\ entries[q] = None)}
<1>1. node' = [p \in kept |-> IF p \in DOMAIN entries THEN entries[p] ELSE node[p]]
  BY Zenon DEF Put
<1>2. maybe' = [p \in DOMAIN maybe \cup DOMAIN entries |->
                  OnDisk(p) \cup (IF p \in DOMAIN entries THEN {entries[p]} ELSE {})]
  BY Zenon DEF Put
<1>3. DOMAIN node' = kept /\ \A p \in kept : node'[p] = IF p \in DOMAIN entries THEN entries[p] ELSE node[p]
  BY <1>1
<1>4. /\ DOMAIN maybe' = DOMAIN maybe \cup DOMAIN entries
      /\ \A p \in DOMAIN maybe \cup DOMAIN entries :
           maybe'[p] = OnDisk(p) \cup (IF p \in DOMAIN entries THEN {entries[p]} ELSE {})
  BY <1>2
<1>5. ASSUME NEW p, p # <<>>, p \in DOMAIN entries PROVE Entry(p)' = entries[p]
  BY <1>3, <1>5 DEF Entry
<1>6. ASSUME NEW p, p \notin DOMAIN entries PROVE Entry(p)' = Entry(p)
  BY <1>3, <1>6 DEF Entry
<1>7. ASSUME NEW p, p \in DOMAIN entries PROVE OnDisk(p)' = OnDisk(p) \cup {entries[p]}
  <2>1. OnDisk(p)' = maybe'[p]
    BY <1>4, <1>7, Zenon DEF OnDisk
  <2> QED BY <1>4, <1>7, <2>1, Zenon
<1>8. ASSUME NEW p, p \notin DOMAIN entries PROVE OnDisk(p)' = OnDisk(p)
  <2>1. CASE p \in DOMAIN maybe
    <3>1. OnDisk(p)' = maybe'[p] /\ maybe'[p] = OnDisk(p) \cup {}
      BY <1>4, <1>8, <2>1, Zenon DEF OnDisk
    <3> QED BY <3>1
  <2>2. CASE p \notin DOMAIN maybe
    <3>1. OnDisk(p)' = {Entry(p)'} /\ OnDisk(p) = {Entry(p)}
      BY <1>4, <1>8, <2>2, Zenon DEF OnDisk
    <3> QED BY <3>1, <1>6, <1>8, Zenon
  <2> QED BY <2>1, <2>2
<1> QED BY <1>4, <1>5, <1>6, <1>7, <1>8, Zenon

\* No file that is whole stops being so, and none becomes older.
Grows ==
    /\ Len(inode) <= Len(inode)'
    /\ \A i \in 1..Len(inode) : (Whole(i) => Whole(i)') /\ inode[i].ord <= inode[i].ord'

LEMMA InodeIs ==
    ASSUME InodesOK
    PROVE  /\ Len(inode) \in Nat /\ DOMAIN inode = 1..Len(inode)
           /\ \A i \in 1..Len(inode) : inode[i] \in Inodes /\ inode[i].ord \in Nat
<1>1. Len(inode) \in Nat /\ DOMAIN inode = 1..Len(inode)
  BY LenProperties DEF InodesOK
<1>2. ASSUME NEW i \in 1..Len(inode) PROVE inode[i] \in Inodes /\ inode[i].ord \in Nat
  <2>1. inode[i] \in Inodes
    BY ElementOfSeq DEF InodesOK
  <2> QED BY <2>1 DEF Inodes
<1> QED BY <1>1, <1>2

LEMMA SoundKept ==
    ASSUME InodesOK, InodesOK', Grows, env' = env, NEW p, NEW v, Sound(p, v)
    PROVE  Sound(p, v)'
<1>1. CASE v \in {None, Dir, Link, File(0)}
  BY <1>1, Zenon DEF Sound
<1>2. CASE HoldsFile(p, v)
  <2>1. PICK i \in 1..Len(inode) : v = File(i) /\ Below(p) /\ (Last(p) \notin Temps => Whole(i))
    BY <1>2, Zenon DEF HoldsFile
  <2>2. Len(inode) \in Nat /\ Len(inode)' \in Nat
    BY InodeIs, LenProperties DEF InodesOK
  <2>3. i \in 1..Len(inode)' /\ (Whole(i) => Whole(i)')
    BY <2>2 DEF Grows
  <2>4. Below(p)'
    BY <2>1, Zenon DEF Below, DataRoot, NoUp
  <2>5. HoldsFile(p, v)'
    BY <2>1, <2>3, <2>4, Zenon DEF HoldsFile, File
  <2> QED BY <2>5, Zenon DEF Sound
<1> QED BY <1>1, <1>2 DEF Sound

LEMMA AsNewKept ==
    ASSUME InodesOK, InodesOK', Grows, NEW v, NEW n \in Nat, AsNew(v, n)
    PROVE  AsNew(v, n)'
<1>1. PICK i \in 1..Len(inode) : v = File(i) /\ inode[i].ord >= n
  BY Zenon DEF AsNew
<1>2. Len(inode) \in Nat /\ Len(inode)' \in Nat /\ inode[i].ord \in Nat
  BY InodeIs, LenProperties DEF InodesOK
<1>3. i \in 1..Len(inode)' /\ inode[i].ord <= inode[i].ord'
  BY <1>2 DEF Grows
<1>4. inode[i].ord' \in Nat
  <2>1. inode'[i] \in Inodes
    BY <1>3, ElementOfSeq DEF InodesOK
  <2> QED BY <2>1 DEF Inodes
<1>5. inode[i].ord' >= n
  BY <1>1, <1>2, <1>3, <1>4
<1> QED BY <1>1, <1>3, <1>5, Zenon DEF AsNew, File

LEMMA DiskGrows ==
    ASSUME NEW entries, Put(entries), IsFiniteSet(DOMAIN entries), <<>> \notin DOMAIN entries,
           InodesOK, InodesOK', Grows, env' = env, DiskInv,
           \A p \in DOMAIN entries : Sound(p, entries[p])'
    PROVE  DiskInv'
<1>1. IsFiniteSet(DOMAIN maybe')
  <2>1. DOMAIN maybe' = DOMAIN maybe \cup DOMAIN entries
    BY PutIs
  <2>2. IsFiniteSet(DOMAIN maybe \cup DOMAIN entries)
    BY FS_Union DEF DiskInv
  <2> QED BY <2>1, <2>2, Zenon
<1>2. ASSUME NEW p PROVE Entry(p)' \in OnDisk(p)' /\ \A v \in OnDisk(p)' : Sound(p, v)'
  <2>0. Entry(p) \in OnDisk(p) /\ \A v \in OnDisk(p) : Sound(p, v)
    BY Zenon DEF DiskInv
  <2>1. \A v \in OnDisk(p) : Sound(p, v)'
    BY <2>0, SoundKept
  <2>2. CASE p \in DOMAIN entries
    <3>1. p # <<>>
      BY <2>2
    <3>2. Entry(p)' = entries[p] /\ OnDisk(p)' = OnDisk(p) \cup {entries[p]}
      BY <2>2, <3>1, PutIs, Zenon
    <3> QED BY <2>1, <2>2, <3>2
  <2>3. CASE p \notin DOMAIN entries
    <3>1. Entry(p)' = Entry(p) /\ OnDisk(p)' = OnDisk(p)
      BY <2>3, PutIs, Zenon
    <3> QED BY <2>0, <2>1, <3>1
  <2> QED BY <2>2, <2>3
<1> QED BY <1>1, <1>2, Zenon DEF DiskInv

LEMMA AckKept ==
    ASSUME NEW entries, Put(entries), InodesOK, InodesOK', Grows, acked' = acked, AckInv,
           \A p \in DOMAIN entries \cap DOMAIN acked : AsNew(entries[p], acked[p])'
    PROVE  AckInv'
<1> SUFFICES ASSUME NEW p \in DOMAIN acked PROVE AckedAt(p)'
  BY Zenon DEF AckInv
<1>1. acked[p] \in Nat /\ Last(p) \notin Temps /\ \A v \in OnDisk(p) : AsNew(v, acked[p])
  BY Zenon DEF AckInv, AckedAt
<1>2. ASSUME NEW v \in OnDisk(p) PROVE AsNew(v, acked[p])'
  <2> DEFINE n == acked[p]
  <2>1. n \in Nat /\ AsNew(v, n)
    BY <1>1, <1>2
  <2>2. n' = n
    OBVIOUS
  <2> HIDE DEF n
  <2>3. PICK m : m = n
    OBVIOUS
  <2>4. AsNew(v, m)'
    BY <2>1, <2>3, AsNewKept
  <2>5. AsNew(v, n)'
    BY <2>2, <2>3, <2>4, Zenon DEF AsNew, File
  <2> QED BY <2>5 DEF n
<1>3. \A v \in OnDisk(p)' : AsNew(v, acked[p])'
  <2>1. CASE p \in DOMAIN entries
    <3>1. OnDisk(p)' = OnDisk(p) \cup {entries[p]}
      BY <2>1, PutIs, Zenon
    <3> QED BY <1>2, <2>1, <3>1
  <2>2. CASE p \notin DOMAIN entries
    <3>1. OnDisk(p)' = OnDisk(p)
      BY <2>2, PutIs, Zenon
    <3> QED BY <1>2, <3>1
  <2> QED BY <2>1, <2>2
<1> QED BY <1>1, <1>3, Zenon DEF AckedAt

LEMMA GrowsSame == ASSUME InodesOK, inode' = inode PROVE Grows /\ InodesOK'
<1>1. \A i \in 1..Len(inode) : inode[i].ord \in Nat /\ Len(inode) \in Nat
  BY InodeIs
<1>2. Len(inode) <= Len(inode)'
  BY InodeIs
<1>3. \A i \in 1..Len(inode) : (Whole(i) => Whole(i)') /\ inode[i].ord <= inode[i].ord'
  BY <1>1 DEF Whole
<1>4. InodesOK'
  BY Zenon DEF InodesOK
<1> QED BY <1>2, <1>3, <1>4, Zenon DEF Grows

LEMMA DiskSame ==
    ASSUME node' = node, maybe' = maybe, NEW p
    PROVE  Entry(p)' = Entry(p) /\ OnDisk(p)' = OnDisk(p)
BY Zenon DEF Entry, OnDisk, Dir, None

LEMMA DiskStays ==
    ASSUME InodesOK, InodesOK', Grows, env' = env, node' = node, maybe' = maybe, DiskInv
    PROVE  DiskInv'
<1>1. ASSUME NEW p PROVE Entry(p)' \in OnDisk(p)' /\ \A v \in OnDisk(p)' : Sound(p, v)'
  <2>1. Entry(p)' = Entry(p) /\ OnDisk(p)' = OnDisk(p)
    BY DiskSame
  <2>2. Entry(p) \in OnDisk(p) /\ \A v \in OnDisk(p) : Sound(p, v)
    BY Zenon DEF DiskInv
  <2>3. \A v \in OnDisk(p) : Sound(p, v)'
    BY <2>2, SoundKept
  <2> QED BY <2>1, <2>2, <2>3
<1>2. IsFiniteSet(DOMAIN maybe)
  BY DEF DiskInv
<1> QED BY <1>1, <1>2, Zenon DEF DiskInv

LEMMA AckStays ==
    ASSUME InodesOK, InodesOK', Grows, node' = node, maybe' = maybe, acked' = acked, AckInv
    PROVE  AckInv'
<1> SUFFICES ASSUME NEW p \in DOMAIN acked PROVE AckedAt(p)'
  BY Zenon DEF AckInv
<1>0. PICK n : n = acked[p]
  OBVIOUS
<1>1. n \in Nat /\ Last(p) \notin Temps /\ \A v \in OnDisk(p) : AsNew(v, n)
  BY <1>0, Zenon DEF AckInv, AckedAt
<1>2. \A v \in OnDisk(p) : AsNew(v, n)'
  BY <1>1, AsNewKept
<1>3. OnDisk(p)' = OnDisk(p)
  BY DiskSame
<1>4. \A v \in OnDisk(p)' : AsNew(v, n)'
  BY <1>2, <1>3, Zenon
<1>5. acked[p]' = n
  BY <1>0
<1> QED BY <1>1, <1>4, <1>5, Zenon DEF AckedAt

LEMMA CallsStep ==
    ASSUME CallsInv, NEW t \in Savers, NEW s, save' = [save EXCEPT ![t] = s], CallInv(s)',
           \A u \in Savers \ {t} : \A c : c = save[u] => CallInv(c)',
           s.id # 0 => \A u \in Savers \ {t} : save[u].id # s.id
    PROVE  CallsInv'
<1>1. save = [u \in Savers |-> save[u]] /\ \A u, v \in Savers : u # v /\ save[u].id # 0 => save[u].id # save[v].id
  BY DEF CallsInv
<1>2. /\ save' = [u \in Savers |-> save'[u]] /\ save'[t] = s
      /\ \A u \in Savers \ {t} : save'[u] = save[u]
  BY <1>1
<1>3. ASSUME NEW u \in Savers PROVE CallInv(save[u])'
  <2>1. PICK c : c = save'[u]
    OBVIOUS
  <2>2. CallInv(c)'
    <3>1. CASE u = t
      BY <3>1, <2>1, <1>2, Zenon
    <3>2. CASE u # t
      <4>1. c = save[u]
        BY <3>2, <2>1, <1>2
      <4> QED BY <3>2, <4>1
    <3> QED BY <3>1, <3>2
  <2> QED BY <2>1, <2>2, Zenon
<1>4. ASSUME NEW u \in Savers, NEW v \in Savers, u # v, save'[u].id # 0 PROVE save'[u].id # save'[v].id
  <2>1. CASE u = t
    BY <2>1, <1>2, <1>4
  <2>2. CASE v = t
    BY <2>2, <1>2, <1>4
  <2>3. CASE u # t /\ v # t
    BY <2>3, <1>1, <1>2, <1>4
  <2> QED BY <2>1, <2>2, <2>3
<1> QED BY <1>2, <1>3, <1>4, Zenon DEF CallsInv

LEMMA NoCallIs ==
    /\ NoCall.pc = "idle" /\ NoCall.id = 0 /\ NoCall.temporary = ""
    /\ IsCall(NoCall)
<1>1. /\ NoCall.pc = "idle" /\ NoCall.id = 0 /\ NoCall.temporary = "" /\ NoCall.fd = <<>>
      /\ NoCall.pending = "" /\ NoCall.rest = <<>> /\ NoCall.try = 1 /\ NoCall.size = 0 /\ NoCall.rel = Unset
  BY DEF NoCall
<1>2. <<>> \in Seq(PathParts)
  BY EmptySeq
<1>3. "" \in PathParts
  BY Zenon DEF PathParts
<1>4. NoCall = [pc |-> NoCall.pc, rel |-> NoCall.rel, fd |-> NoCall.fd, pending |-> NoCall.pending,
                rest |-> NoCall.rest, try |-> NoCall.try, size |-> NoCall.size, id |-> NoCall.id,
                temporary |-> NoCall.temporary]
  BY <1>1, Zenon DEF NoCall
<1>5. 1 \in Nat \ {0} /\ 0 \in Nat
  OBVIOUS
<1> QED BY <1>1, <1>2, <1>3, <1>4, <1>5, Zenon DEF IsCall

\* A thread that does not save.
LEMMA NoCallInv == ASSUME InodesOK' PROVE CallInv(NoCall)'
<1>1. 0 <= Len(inode)'
  BY LenProperties DEF InodesOK
<1>2. "idle" \notin Owning \cup {"done", "walk", "temp", "syncdir", "write", "sync", "rename"}
  BY DEF Owning
<1>3. PlaceInv(NoCall)' /\ FileInv(NoCall)'
  BY NoCallIs, <1>2, Zenon DEF PlaceInv, FileInv
<1>4. OwnInv(NoCall)'
  BY NoCallIs, <1>1, <1>2, Zenon DEF OwnInv, Owns
<1>5. IsCall(NoCall)'
  BY NoCallIs, Zenon DEF IsCall, NoCall, Unset
<1> QED BY <1>3, <1>4, <1>5, Zenon DEF CallInv

LEMMA AllIdle ==
    ASSUME InodesOK', save' = [t \in Savers |-> NoCall]
    PROVE  CallsInv'
<1>1. \A t \in Savers : save'[t] = NoCall
  OBVIOUS
<1>2. save' = [t \in Savers |-> save'[t]]
  BY <1>1
<1>3. ASSUME NEW t \in Savers PROVE CallInv(save[t])'
  <2>1. PICK c : c = NoCall
    OBVIOUS
  <2>2. CallInv(NoCall)' /\ save'[t] = NoCall
    BY NoCallInv, <1>1
  <2> QED BY <2>2, Zenon
<1> QED BY <1>1, <1>2, <1>3, NoCallIs, Zenon DEF CallsInv

LEMMA PlaceKept == ASSUME NEW s, PlaceInv(s), paths' = paths, env' = env PROVE PlaceInv(s)'
BY Zenon DEF PlaceInv, Below, DataRoot, Walking, DataPath, Owning, Arrived

LEMMA Ordered ==
    \A a, b \in Nat : (a # 0 /\ a <= b => a \in 1..b) /\ \A c \in Nat : a <= b /\ b <= c => a <= c
OBVIOUS

\* A call that another thread's step does not disturb.
LEMMA OtherKept ==
    ASSUME InodesOK, InodesOK', Grows, paths' = paths, env' = env, NEW c, CallInv(c),
           c.id # 0 => inode'[c.id] = inode[c.id],
           Owns(c) => Entry(Name(c, c.temporary))' = Entry(Name(c, c.temporary)),
           c.pc = "syncdir" => \/ Entry(Name(c, c.pending))' = Entry(Name(c, c.pending))
                               \/ AsNew(Entry(Name(c, c.pending)), inode[c.id].ord)'
    PROVE  CallInv(c)'
<1>1. IsCall(c) /\ PlaceInv(c) /\ OwnInv(c) /\ FileInv(c) /\ c.id \in Nat
  BY Zenon DEF CallInv, IsCall
<1>2. IsCall(c)' /\ PlaceInv(c)'
  BY <1>1, PlaceKept, Zenon DEF IsCall, NoCall, Unset
<1>3. Len(inode) \in Nat /\ Len(inode)' \in Nat /\ Len(inode) <= Len(inode)'
  BY InodeIs, LenProperties DEF InodesOK, Grows
<1>4. c.id <= Len(inode)'
  <2>1. c.id <= Len(inode)
    BY <1>1, Zenon DEF OwnInv
  <2> QED BY <1>1, <1>3, <2>1, Ordered, Zenon
<1>5. ASSUME c.pc \in Owning \cup {"syncdir"} PROVE c.id # 0 /\ inode'[c.id] = inode[c.id]
  BY <1>1, <1>5 DEF OwnInv, Owns
<1>6. FileInv(c)'
  BY <1>1, <1>5 DEF FileInv, Owning
<1>7. ASSUME c.pc = "syncdir" PROVE c.id # 0 /\ AsNew(Entry(Name(c, c.pending)), inode[c.id].ord)'
  <2>1. c.id # 0 /\ AsNew(Entry(Name(c, c.pending)), inode[c.id].ord) /\ c.id \in 1..Len(inode)
    BY <1>1, <1>3, <1>7, Ordered, Zenon DEF OwnInv
  <2>2. CASE AsNew(Entry(Name(c, c.pending)), inode[c.id].ord)'
    BY <2>1, <2>2
  <2>3. CASE Entry(Name(c, c.pending))' = Entry(Name(c, c.pending))
    <3>1. PICK v, n : v = Entry(Name(c, c.pending)) /\ n = inode[c.id].ord
      OBVIOUS
    <3>2. n \in Nat /\ AsNew(v, n)
      BY <2>1, <3>1, InodeIs
    <3>3. AsNew(v, n)'
      BY <3>2, AsNewKept
    <3>4. v = Entry(Name(c, c.pending))' /\ n = inode[c.id].ord'
      BY <2>1, <2>3, <3>1
    <3> QED BY <2>1, <3>3, <3>4, Zenon
  <2> QED BY <1>7, <2>2, <2>3
<1>8. OwnInv(c)'
  <2>1. /\ c.temporary # "" => c.temporary \in Temps
        /\ Owns(c) => Entry(Name(c, c.temporary))' = File(c.id)
    BY <1>1, Zenon DEF OwnInv
  <2>2. /\ Owns(c) => c.pc \in Owning \cup {"done"}
        /\ c.pc \in Owning => Owns(c)
        /\ c.pc \in {"walk", "temp"} => c.id = 0
    BY <1>1, Zenon DEF OwnInv
  <2> QED BY <1>4, <1>7, <2>1, <2>2, Zenon DEF OwnInv, Owns, Temps, Owning, File
<1> QED BY <1>2, <1>6, <1>8, Zenon DEF CallInv

-----------------------------------------------------------------------------
(* The edits of a call.                                                    *)

Call(pc, rel, fd, pending, rest, try, size, id, temporary) ==
    [pc |-> pc, rel |-> rel, fd |-> fd, pending |-> pending, rest |-> rest,
     try |-> try, size |-> size, id |-> id, temporary |-> temporary]

IsRecord(s) ==
    s = [pc |-> s.pc, rel |-> s.rel, fd |-> s.fd, pending |-> s.pending, rest |-> s.rest,
         try |-> s.try, size |-> s.size, id |-> s.id, temporary |-> s.temporary]

LEMMA CallIsRecord ==
    ASSUME NEW a, NEW b, NEW c, NEW d, NEW e, NEW f, NEW g, NEW h, NEW i, NEW s,
           s = Call(a, b, c, d, e, f, g, h, i)
    PROVE  /\ IsRecord(s)
           /\ s.pc = a /\ s.rel = b /\ s.fd = c /\ s.pending = d /\ s.rest = e
           /\ s.try = f /\ s.size = g /\ s.id = h /\ s.temporary = i
<1>1. s = [pc |-> a, rel |-> b, fd |-> c, pending |-> d, rest |-> e,
           try |-> f, size |-> g, id |-> h, temporary |-> i]
  BY Zenon DEF Call
<1>2. /\ s.pc = a /\ s.rel = b /\ s.fd = c /\ s.pending = d /\ s.rest = e
      /\ s.try = f /\ s.size = g /\ s.id = h /\ s.temporary = i
  BY <1>1
<1> QED BY <1>1, <1>2, Zenon DEF IsRecord

Stepped(s, x, y, z) == [s EXCEPT !.rest = x, !.pending = y, !.fd = z]
Created(s, x, y, z) == [s EXCEPT !.pc = x, !.id = y, !.temporary = z]
Renamed(s, x, y) == [s EXCEPT !.pc = x, !.temporary = y]
Passed(s, x, y) == [s EXCEPT !.try = x, !.temporary = y]

LEMMA CallEdits ==
    ASSUME NEW s, IsRecord(s), NEW x
    PROVE  /\ [s EXCEPT !.pc = x] =
                Call(x, s.rel, s.fd, s.pending, s.rest, s.try, s.size, s.id, s.temporary)
           /\ [s EXCEPT !.rest = x] =
                Call(s.pc, s.rel, s.fd, s.pending, x, s.try, s.size, s.id, s.temporary)
           /\ [s EXCEPT !.try = x] =
                Call(s.pc, s.rel, s.fd, s.pending, s.rest, x, s.size, s.id, s.temporary)
<1>1. s = [pc |-> s.pc, rel |-> s.rel, fd |-> s.fd, pending |-> s.pending, rest |-> s.rest,
           try |-> s.try, size |-> s.size, id |-> s.id, temporary |-> s.temporary]
  BY Zenon DEF IsRecord
<1>2. [s EXCEPT !.pc = x] =
         Call(x, s.rel, s.fd, s.pending, s.rest, s.try, s.size, s.id, s.temporary)
  <2>1. PICK q1 : q1 = [s EXCEPT !.pc = x]
    OBVIOUS
  <2>2. q1 = [pc |-> x, rel |-> s.rel, fd |-> s.fd, pending |-> s.pending, rest |-> s.rest,
           try |-> s.try, size |-> s.size, id |-> s.id, temporary |-> s.temporary]
    BY <1>1, <2>1
  <2>3. /\ q1.pc = x /\ q1.rel = s.rel /\ q1.fd = s.fd /\ q1.pending = s.pending /\ q1.rest = s.rest
        /\ q1.try = s.try /\ q1.size = s.size /\ q1.id = s.id /\ q1.temporary = s.temporary
    BY <2>2
  <2>4. [s EXCEPT !.pc = x] = q1
    BY <2>1
  <2> QED BY <2>2, <2>4, Zenon DEF Call
<1>3. [s EXCEPT !.rest = x] =
         Call(s.pc, s.rel, s.fd, s.pending, x, s.try, s.size, s.id, s.temporary)
  <2>1. PICK q1 : q1 = [s EXCEPT !.rest = x]
    OBVIOUS
  <2>2. q1 = [pc |-> s.pc, rel |-> s.rel, fd |-> s.fd, pending |-> s.pending, rest |-> x,
           try |-> s.try, size |-> s.size, id |-> s.id, temporary |-> s.temporary]
    BY <1>1, <2>1
  <2>3. /\ q1.pc = s.pc /\ q1.rel = s.rel /\ q1.fd = s.fd /\ q1.pending = s.pending /\ q1.rest = x
        /\ q1.try = s.try /\ q1.size = s.size /\ q1.id = s.id /\ q1.temporary = s.temporary
    BY <2>2
  <2>4. [s EXCEPT !.rest = x] = q1
    BY <2>1
  <2> QED BY <2>2, <2>4, Zenon DEF Call
<1>4. [s EXCEPT !.try = x] =
         Call(s.pc, s.rel, s.fd, s.pending, s.rest, x, s.size, s.id, s.temporary)
  <2>1. PICK q1 : q1 = [s EXCEPT !.try = x]
    OBVIOUS
  <2>2. q1 = [pc |-> s.pc, rel |-> s.rel, fd |-> s.fd, pending |-> s.pending, rest |-> s.rest,
           try |-> x, size |-> s.size, id |-> s.id, temporary |-> s.temporary]
    BY <1>1, <2>1
  <2>3. /\ q1.pc = s.pc /\ q1.rel = s.rel /\ q1.fd = s.fd /\ q1.pending = s.pending /\ q1.rest = s.rest
        /\ q1.try = x /\ q1.size = s.size /\ q1.id = s.id /\ q1.temporary = s.temporary
    BY <2>2
  <2>4. [s EXCEPT !.try = x] = q1
    BY <2>1
  <2> QED BY <2>2, <2>4, Zenon DEF Call
<1> QED BY <1>2, <1>3, <1>4, Zenon

LEMMA SteppedIs ==
    ASSUME NEW s, IsRecord(s), NEW x, NEW y, NEW z
    PROVE  Stepped(s, x, y, z) =
                Call(s.pc, s.rel, z, y, x, s.try, s.size, s.id, s.temporary)
<1>1. s = [pc |-> s.pc, rel |-> s.rel, fd |-> s.fd, pending |-> s.pending, rest |-> s.rest,
           try |-> s.try, size |-> s.size, id |-> s.id, temporary |-> s.temporary]
  BY Zenon DEF IsRecord
<1>2. Stepped(s, x, y, z) =
         Call(s.pc, s.rel, z, y, x, s.try, s.size, s.id, s.temporary)
  <2>1. PICK q1 : q1 = [s EXCEPT !.rest = x]
    OBVIOUS
  <2>2. q1 = [pc |-> s.pc, rel |-> s.rel, fd |-> s.fd, pending |-> s.pending, rest |-> x,
           try |-> s.try, size |-> s.size, id |-> s.id, temporary |-> s.temporary]
    BY <1>1, <2>1
  <2>3. /\ q1.pc = s.pc /\ q1.rel = s.rel /\ q1.fd = s.fd /\ q1.pending = s.pending /\ q1.rest = x
        /\ q1.try = s.try /\ q1.size = s.size /\ q1.id = s.id /\ q1.temporary = s.temporary
    BY <2>2
  <2>4. PICK q2 : q2 = [q1 EXCEPT !.pending = y]
    OBVIOUS
  <2>5. q2 = [pc |-> s.pc, rel |-> s.rel, fd |-> s.fd, pending |-> y, rest |-> x,
           try |-> s.try, size |-> s.size, id |-> s.id, temporary |-> s.temporary]
    BY <2>2, <2>3, <2>4
  <2>6. /\ q2.pc = s.pc /\ q2.rel = s.rel /\ q2.fd = s.fd /\ q2.pending = y /\ q2.rest = x
        /\ q2.try = s.try /\ q2.size = s.size /\ q2.id = s.id /\ q2.temporary = s.temporary
    BY <2>5
  <2>7. PICK q3 : q3 = [q2 EXCEPT !.fd = z]
    OBVIOUS
  <2>8. q3 = [pc |-> s.pc, rel |-> s.rel, fd |-> z, pending |-> y, rest |-> x,
           try |-> s.try, size |-> s.size, id |-> s.id, temporary |-> s.temporary]
    BY <2>5, <2>6, <2>7
  <2>9. /\ q3.pc = s.pc /\ q3.rel = s.rel /\ q3.fd = z /\ q3.pending = y /\ q3.rest = x
        /\ q3.try = s.try /\ q3.size = s.size /\ q3.id = s.id /\ q3.temporary = s.temporary
    BY <2>8
  <2>10. Stepped(s, x, y, z) = q3
    BY <2>1, <2>4, <2>7 DEF Stepped
  <2> QED BY <2>8, <2>10, Zenon DEF Call
<1> QED BY <1>2, Zenon

LEMMA CreatedIs ==
    ASSUME NEW s, IsRecord(s), NEW x, NEW y, NEW z
    PROVE  Created(s, x, y, z) =
                Call(x, s.rel, s.fd, s.pending, s.rest, s.try, s.size, y, z)
<1>1. s = [pc |-> s.pc, rel |-> s.rel, fd |-> s.fd, pending |-> s.pending, rest |-> s.rest,
           try |-> s.try, size |-> s.size, id |-> s.id, temporary |-> s.temporary]
  BY Zenon DEF IsRecord
<1>2. Created(s, x, y, z) =
         Call(x, s.rel, s.fd, s.pending, s.rest, s.try, s.size, y, z)
  <2>1. PICK q1 : q1 = [s EXCEPT !.pc = x]
    OBVIOUS
  <2>2. q1 = [pc |-> x, rel |-> s.rel, fd |-> s.fd, pending |-> s.pending, rest |-> s.rest,
           try |-> s.try, size |-> s.size, id |-> s.id, temporary |-> s.temporary]
    BY <1>1, <2>1
  <2>3. /\ q1.pc = x /\ q1.rel = s.rel /\ q1.fd = s.fd /\ q1.pending = s.pending /\ q1.rest = s.rest
        /\ q1.try = s.try /\ q1.size = s.size /\ q1.id = s.id /\ q1.temporary = s.temporary
    BY <2>2
  <2>4. PICK q2 : q2 = [q1 EXCEPT !.id = y]
    OBVIOUS
  <2>5. q2 = [pc |-> x, rel |-> s.rel, fd |-> s.fd, pending |-> s.pending, rest |-> s.rest,
           try |-> s.try, size |-> s.size, id |-> y, temporary |-> s.temporary]
    BY <2>2, <2>3, <2>4
  <2>6. /\ q2.pc = x /\ q2.rel = s.rel /\ q2.fd = s.fd /\ q2.pending = s.pending /\ q2.rest = s.rest
        /\ q2.try = s.try /\ q2.size = s.size /\ q2.id = y /\ q2.temporary = s.temporary
    BY <2>5
  <2>7. PICK q3 : q3 = [q2 EXCEPT !.temporary = z]
    OBVIOUS
  <2>8. q3 = [pc |-> x, rel |-> s.rel, fd |-> s.fd, pending |-> s.pending, rest |-> s.rest,
           try |-> s.try, size |-> s.size, id |-> y, temporary |-> z]
    BY <2>5, <2>6, <2>7
  <2>9. /\ q3.pc = x /\ q3.rel = s.rel /\ q3.fd = s.fd /\ q3.pending = s.pending /\ q3.rest = s.rest
        /\ q3.try = s.try /\ q3.size = s.size /\ q3.id = y /\ q3.temporary = z
    BY <2>8
  <2>10. Created(s, x, y, z) = q3
    BY <2>1, <2>4, <2>7 DEF Created
  <2> QED BY <2>8, <2>10, Zenon DEF Call
<1> QED BY <1>2, Zenon

LEMMA RenamedIs ==
    ASSUME NEW s, IsRecord(s), NEW x, NEW y
    PROVE  Renamed(s, x, y) =
                Call(x, s.rel, s.fd, s.pending, s.rest, s.try, s.size, s.id, y)
<1>1. s = [pc |-> s.pc, rel |-> s.rel, fd |-> s.fd, pending |-> s.pending, rest |-> s.rest,
           try |-> s.try, size |-> s.size, id |-> s.id, temporary |-> s.temporary]
  BY Zenon DEF IsRecord
<1>2. Renamed(s, x, y) =
         Call(x, s.rel, s.fd, s.pending, s.rest, s.try, s.size, s.id, y)
  <2>1. PICK q1 : q1 = [s EXCEPT !.pc = x]
    OBVIOUS
  <2>2. q1 = [pc |-> x, rel |-> s.rel, fd |-> s.fd, pending |-> s.pending, rest |-> s.rest,
           try |-> s.try, size |-> s.size, id |-> s.id, temporary |-> s.temporary]
    BY <1>1, <2>1
  <2>3. /\ q1.pc = x /\ q1.rel = s.rel /\ q1.fd = s.fd /\ q1.pending = s.pending /\ q1.rest = s.rest
        /\ q1.try = s.try /\ q1.size = s.size /\ q1.id = s.id /\ q1.temporary = s.temporary
    BY <2>2
  <2>4. PICK q2 : q2 = [q1 EXCEPT !.temporary = y]
    OBVIOUS
  <2>5. q2 = [pc |-> x, rel |-> s.rel, fd |-> s.fd, pending |-> s.pending, rest |-> s.rest,
           try |-> s.try, size |-> s.size, id |-> s.id, temporary |-> y]
    BY <2>2, <2>3, <2>4
  <2>6. /\ q2.pc = x /\ q2.rel = s.rel /\ q2.fd = s.fd /\ q2.pending = s.pending /\ q2.rest = s.rest
        /\ q2.try = s.try /\ q2.size = s.size /\ q2.id = s.id /\ q2.temporary = y
    BY <2>5
  <2>7. Renamed(s, x, y) = q2
    BY <2>1, <2>4 DEF Renamed
  <2> QED BY <2>5, <2>7, Zenon DEF Call
<1> QED BY <1>2, Zenon

LEMMA PassedIs ==
    ASSUME NEW s, IsRecord(s), NEW x, NEW y
    PROVE  Passed(s, x, y) =
                Call(s.pc, s.rel, s.fd, s.pending, s.rest, x, s.size, s.id, y)
<1>1. s = [pc |-> s.pc, rel |-> s.rel, fd |-> s.fd, pending |-> s.pending, rest |-> s.rest,
           try |-> s.try, size |-> s.size, id |-> s.id, temporary |-> s.temporary]
  BY Zenon DEF IsRecord
<1>2. PICK q1 : q1 = [s EXCEPT !.try = x]
  OBVIOUS
<1>3. q1 = [pc |-> s.pc, rel |-> s.rel, fd |-> s.fd, pending |-> s.pending, rest |-> s.rest,
         try |-> x, size |-> s.size, id |-> s.id, temporary |-> s.temporary]
  BY <1>1, <1>2
<1>4. /\ q1.pc = s.pc /\ q1.rel = s.rel /\ q1.fd = s.fd /\ q1.pending = s.pending /\ q1.rest = s.rest
      /\ q1.try = x /\ q1.size = s.size /\ q1.id = s.id /\ q1.temporary = s.temporary
  BY <1>3
<1>5. PICK q2 : q2 = [q1 EXCEPT !.temporary = y]
  OBVIOUS
<1>6. q2 = [pc |-> s.pc, rel |-> s.rel, fd |-> s.fd, pending |-> s.pending, rest |-> s.rest,
         try |-> x, size |-> s.size, id |-> s.id, temporary |-> y]
  BY <1>3, <1>4, <1>5
<1>7. Passed(s, x, y) = q2
  BY <1>2, <1>5 DEF Passed
<1> QED BY <1>6, <1>7, Zenon DEF Call

Begun(s, v, w, x, y, z) == [s EXCEPT !.pc = v, !.rel = w, !.fd = x, !.size = y, !.rest = z]

LEMMA FirstEdits ==
    ASSUME NEW s, IsRecord(s), NEW v, NEW w, NEW x, NEW y, NEW z
    PROVE  Begun(s, v, w, x, y, z) =
                Call(v, w, x, s.pending, z, s.try, y, s.id, s.temporary)
<1>1. s = [pc |-> s.pc, rel |-> s.rel, fd |-> s.fd, pending |-> s.pending, rest |-> s.rest,
           try |-> s.try, size |-> s.size, id |-> s.id, temporary |-> s.temporary]
  BY Zenon DEF IsRecord
<1>2. Begun(s, v, w, x, y, z) =
         Call(v, w, x, s.pending, z, s.try, y, s.id, s.temporary)
  <2>1. PICK q1 : q1 = [s EXCEPT !.pc = v]
    OBVIOUS
  <2>2. q1 = [pc |-> v, rel |-> s.rel, fd |-> s.fd, pending |-> s.pending, rest |-> s.rest,
           try |-> s.try, size |-> s.size, id |-> s.id, temporary |-> s.temporary]
    BY <1>1, <2>1
  <2>3. /\ q1.pc = v /\ q1.rel = s.rel /\ q1.fd = s.fd /\ q1.pending = s.pending /\ q1.rest = s.rest
        /\ q1.try = s.try /\ q1.size = s.size /\ q1.id = s.id /\ q1.temporary = s.temporary
    BY <2>2
  <2>4. PICK q2 : q2 = [q1 EXCEPT !.rel = w]
    OBVIOUS
  <2>5. q2 = [pc |-> v, rel |-> w, fd |-> s.fd, pending |-> s.pending, rest |-> s.rest,
           try |-> s.try, size |-> s.size, id |-> s.id, temporary |-> s.temporary]
    BY <2>2, <2>3, <2>4
  <2>6. /\ q2.pc = v /\ q2.rel = w /\ q2.fd = s.fd /\ q2.pending = s.pending /\ q2.rest = s.rest
        /\ q2.try = s.try /\ q2.size = s.size /\ q2.id = s.id /\ q2.temporary = s.temporary
    BY <2>5
  <2>7. PICK q3 : q3 = [q2 EXCEPT !.fd = x]
    OBVIOUS
  <2>8. q3 = [pc |-> v, rel |-> w, fd |-> x, pending |-> s.pending, rest |-> s.rest,
           try |-> s.try, size |-> s.size, id |-> s.id, temporary |-> s.temporary]
    BY <2>5, <2>6, <2>7
  <2>9. /\ q3.pc = v /\ q3.rel = w /\ q3.fd = x /\ q3.pending = s.pending /\ q3.rest = s.rest
        /\ q3.try = s.try /\ q3.size = s.size /\ q3.id = s.id /\ q3.temporary = s.temporary
    BY <2>8
  <2>10. PICK q4 : q4 = [q3 EXCEPT !.size = y]
    OBVIOUS
  <2>11. q4 = [pc |-> v, rel |-> w, fd |-> x, pending |-> s.pending, rest |-> s.rest,
            try |-> s.try, size |-> y, id |-> s.id, temporary |-> s.temporary]
    BY <2>8, <2>9, <2>10
  <2>12. /\ q4.pc = v /\ q4.rel = w /\ q4.fd = x /\ q4.pending = s.pending /\ q4.rest = s.rest
        /\ q4.try = s.try /\ q4.size = y /\ q4.id = s.id /\ q4.temporary = s.temporary
    BY <2>11
  <2>13. PICK q5 : q5 = [q4 EXCEPT !.rest = z]
    OBVIOUS
  <2>14. q5 = [pc |-> v, rel |-> w, fd |-> x, pending |-> s.pending, rest |-> z,
            try |-> s.try, size |-> y, id |-> s.id, temporary |-> s.temporary]
    BY <2>11, <2>12, <2>13
  <2>15. /\ q5.pc = v /\ q5.rel = w /\ q5.fd = x /\ q5.pending = s.pending /\ q5.rest = z
        /\ q5.try = s.try /\ q5.size = y /\ q5.id = s.id /\ q5.temporary = s.temporary
    BY <2>14
  <2>16. Begun(s, v, w, x, y, z) = q5
    BY <2>1, <2>4, <2>7, <2>10, <2>13 DEF Begun
  <2> QED BY <2>14, <2>16, Zenon DEF Call
<1> QED BY <1>2, Zenon

LEMMA IsCallIs ==
    ASSUME NEW a, NEW b, NEW c \in Seq(PathParts), NEW d \in PathParts, NEW e \in Seq(PathParts),
           NEW f \in Nat \ {0}, NEW g \in Nat, NEW h \in Nat, NEW i, a # "idle"
    PROVE  IsCall(Call(a, b, c, d, e, f, g, h, i))
<1> DEFINE s == Call(a, b, c, d, e, f, g, h, i)
<1>1. /\ s.pc = a /\ s.rel = b /\ s.fd = c /\ s.pending = d /\ s.rest = e
      /\ s.try = f /\ s.size = g /\ s.id = h /\ s.temporary = i
  BY CallIsRecord
<1>2. s = [pc |-> a, rel |-> b, fd |-> c, pending |-> d, rest |-> e,
           try |-> f, size |-> g, id |-> h, temporary |-> i]
  BY Zenon DEF Call
<1> HIDE DEF s
<1>3. IsCall(s)
  BY <1>1, <1>2, Zenon DEF IsCall
<1> QED BY <1>3 DEF s

LEMMA PathsEdits ==
    ASSUME NEW p, p = [pc |-> p.pc, root |-> p.root, depth |-> p.depth, handle |-> p.handle],
           NEW x, NEW y, NEW z
    PROVE  /\ [p EXCEPT !.pc = x, !.root = y, !.depth = z] =
                [pc |-> x, root |-> y, depth |-> z, handle |-> p.handle]
           /\ [p EXCEPT !.depth = x] = [pc |-> p.pc, root |-> p.root, depth |-> x, handle |-> p.handle]
           /\ [p EXCEPT !.pc = x, !.handle = y] =
                [pc |-> x, root |-> p.root, depth |-> p.depth, handle |-> y]
<1> DEFINE P(a, b, c, d) == [pc |-> a, root |-> b, depth |-> c, handle |-> d]
<1>0. ASSUME NEW a, NEW b, NEW c, NEW d, NEW q, q = P(a, b, c, d)
      PROVE  /\ [q EXCEPT !.root = y] = P(a, y, c, d) /\ [q EXCEPT !.depth = z] = P(a, b, z, d)
             /\ [q EXCEPT !.handle = y] = P(a, b, c, y)
  <2>1. q.pc = a /\ q.root = b /\ q.depth = c /\ q.handle = d
    BY <1>0
  <2>2. [q EXCEPT !.root = y] = P(a, y, c, d)
    BY <1>0, <2>1
  <2>3. [q EXCEPT !.depth = z] = P(a, b, z, d)
    BY <1>0, <2>1
  <2>4. [q EXCEPT !.handle = y] = P(a, b, c, y)
    BY <1>0, <2>1
  <2> QED BY <2>2, <2>3, <2>4
<1>a. PICK a : a = [p EXCEPT !.pc = x]
  OBVIOUS
<1>b. PICK b : b = [a EXCEPT !.root = y]
  OBVIOUS
<1>c. a = P(x, p.root, p.depth, p.handle)
  BY <1>a
<1>1. [p EXCEPT !.pc = x, !.root = y, !.depth = z] =
         [pc |-> x, root |-> y, depth |-> z, handle |-> p.handle]
  <2>1. [p EXCEPT !.pc = x, !.root = y, !.depth = z] = [b EXCEPT !.depth = z]
    BY <1>a, <1>b
  <2> HIDE DEF P
  <2>2. b = P(x, y, p.depth, p.handle)
    BY <1>0, <1>b, <1>c
  <2>3. [b EXCEPT !.depth = z] = P(x, y, z, p.handle)
    BY <1>0, <2>2
  <2> QED BY <2>1, <2>3, Zenon DEF P
<1>2. [p EXCEPT !.depth = x] = [pc |-> p.pc, root |-> p.root, depth |-> x, handle |-> p.handle]
  OBVIOUS
<1>3. [p EXCEPT !.pc = x, !.handle = y] = [pc |-> x, root |-> p.root, depth |-> p.depth, handle |-> y]
  <2>1. [p EXCEPT !.pc = x, !.handle = y] = [a EXCEPT !.handle = y]
    BY <1>a
  <2> HIDE DEF P
  <2>2. [a EXCEPT !.handle = y] = P(x, p.root, p.depth, y)
    BY <1>0, <1>c
  <2> QED BY <2>1, <2>2, Zenon DEF P
<1> QED BY <1>1, <1>2, <1>3, Zenon

LEMMA PathsIs ==
    ASSUME NEW a, NEW b, NEW c \in Nat, NEW d \in BOOLEAN,
           paths' = [pc |-> a, root |-> b, depth |-> c, handle |-> d],
           d => a = "up", a # "down" => b = DataRoot.at, a = "mkdirs" => c >= 1, env' = env
    PROVE  PathsInv'
<1>1. paths'.pc = a /\ paths'.root = b /\ paths'.depth = c /\ paths'.handle = d
  OBVIOUS
<1>2. DataRoot.at' = DataRoot.at
  BY Zenon DEF DataRoot
<1> QED BY <1>1, <1>2, Zenon DEF PathsInv

-----------------------------------------------------------------------------
(* The steps keep the invariant.                                           *)

LEMMA EnvKept == ASSUME EnvInv, env' = env, asked' = asked PROVE EnvInv'
BY Zenon DEF EnvInv

LEMMA Idle ==
    ASSUME CallsInv, paths.pc # "up" \/ \A t \in Savers : save[t].pc = "idle"
    PROVE  save = [t \in Savers |-> NoCall]
<1>1. save = [t \in Savers |-> save[t]]
  BY Zenon DEF CallsInv
<1>2. ASSUME NEW t \in Savers PROVE save[t] = NoCall
  <2>1. CallInv(save[t])
    BY Zenon DEF CallsInv
  <2>2. save[t].pc = "idle"
    BY <2>1, Zenon DEF CallInv, PlaceInv
  <2> QED BY <2>1, <2>2, Zenon DEF CallInv, IsCall
<1> QED BY <1>1, <1>2

LEMMA PathsInvOf ==
    ASSUME SavedInv
    PROVE  /\ paths = [pc |-> paths.pc, root |-> paths.root, depth |-> paths.depth, handle |-> paths.handle]
           /\ paths.depth \in Nat /\ paths.handle \in BOOLEAN
           /\ paths.handle => paths.pc = "up"
           /\ paths.pc # "down" => paths.root = DataRoot.at
           /\ paths.pc = "mkdirs" => paths.depth >= 1
BY Zenon DEF SavedInv, PathsInv

LEMMA DownKeeps == ASSUME paths' = Down, env' = env PROVE PathsInv'
<1>1. paths' = [pc |-> "down", root |-> <<>>, depth |-> 0, handle |-> FALSE]
  BY DEF Down
<1>2. 0 \in Nat /\ FALSE \in BOOLEAN
  OBVIOUS
<1>3. paths'.pc = "down" /\ paths'.depth = 0 /\ paths'.handle = FALSE /\ paths'.root = <<>>
  BY <1>1
<1> QED BY <1>1, <1>2, <1>3, Zenon DEF PathsInv

LEMMA PathsKeep ==
    ASSUME SavedInv, PathsInit \/ PathsOpen \/ PathsInitFails \/ PathsDestroy
    PROVE  SavedInv'
<1>1. /\ env' = env /\ asked' = asked /\ node' = node /\ maybe' = maybe /\ inode' = inode
      /\ save' = save /\ acked' = acked
  BY Zenon DEF PathsInit, PathsOpen, PathsInitFails, PathsDestroy
<1>2. EnvInv' /\ InodesOK' /\ DiskInv' /\ AckInv'
  BY <1>1, EnvKept, GrowsSame, DiskStays, AckStays DEF SavedInv
<1>3. save' = [t \in Savers |-> NoCall]
  <2>1. paths.pc # "up" \/ \A t \in Savers : save[t].pc = "idle"
    BY Zenon DEF PathsInit, PathsOpen, PathsInitFails, PathsDestroy
  <2> QED BY <1>1, <2>1, Idle DEF SavedInv
<1>4. CallsInv'
  BY <1>2, <1>3, AllIdle
<1>5. PathsInv'
  <2>1. CASE PathsInit
    <3>1. paths' = [pc |-> "mkdirs", root |-> DataRoot.at, depth |-> 1, handle |-> paths.handle]
      BY <2>1, PathsInvOf, PathsEdits, Zenon DEF PathsInit
    <3>2. ~paths.handle
      BY <2>1, PathsInvOf DEF PathsInit
    <3> QED BY <1>1, <3>1, <3>2, PathsIs, PathsInvOf
  <2>2. CASE PathsOpen
    <3>1. paths' = [pc |-> "up", root |-> paths.root, depth |-> paths.depth, handle |-> TRUE]
      BY <2>2, PathsInvOf, PathsEdits, Zenon DEF PathsOpen
    <3>2. paths.root = DataRoot.at
      BY <2>2, PathsInvOf DEF PathsOpen
    <3> QED BY <1>1, <3>1, <3>2, PathsIs, PathsInvOf
  <2>3. CASE PathsInitFails \/ PathsDestroy
    <3>1. paths' = Down
      BY <2>3, Zenon DEF PathsInitFails, PathsDestroy
    <3> QED BY <1>1, <3>1, DownKeeps
  <2> QED BY <2>1, <2>2, <2>3
<1> QED BY <1>2, <1>4, <1>5, Zenon DEF SavedInv

\* A directory that is made.
LEMMA PutDir ==
    ASSUME SavedInv, NEW at, at # <<>>, Entry(at) = None, Put([p \in {at} |-> Dir]),
           inode' = inode, env' = env, acked' = acked
    PROVE  DiskInv' /\ AckInv' /\ \A p : Entry(p) # None => Entry(p)' = Entry(p)
<1>1. PICK entries : entries = [p \in {at} |-> Dir]
  OBVIOUS
<1>2. Put(entries) /\ DOMAIN entries = {at} /\ entries[at] = Dir
  BY <1>1
<1>3. InodesOK /\ InodesOK' /\ Grows /\ DiskInv /\ AckInv
  BY GrowsSame DEF SavedInv
<1>4. IsFiniteSet(DOMAIN entries)
  BY <1>2, FS_Singleton
<1>5. Sound(at, entries[at])'
  BY <1>2, Zenon DEF Sound
<1>6. DiskInv'
  BY <1>2, <1>3, <1>4, <1>5, DiskGrows
<1>7. at \notin DOMAIN acked
  <2>1. SUFFICES ASSUME at \in DOMAIN acked PROVE FALSE
    OBVIOUS
  <2>2. None \in OnDisk(at)
    <3>1. Entry(at) \in OnDisk(at)
      BY <1>3, Zenon DEF DiskInv
    <3> QED BY <3>1, Zenon
  <2>3. AsNew(None, acked[at])
    BY <1>3, <2>1, <2>2, Zenon DEF AckInv, AckedAt
  <2> QED BY <2>3, Kinds, Zenon DEF AsNew
<1>8. AckInv'
  BY <1>2, <1>3, <1>7, AckKept
<1>9. ASSUME NEW p, Entry(p) # None PROVE Entry(p)' = Entry(p)
  <2>1. p \notin DOMAIN entries
    BY <1>2, <1>9
  <2> QED BY <1>2, <2>1, PutIs, Zenon
<1> QED BY <1>6, <1>8, <1>9, Zenon

LEMMA MkdirsKeeps == ASSUME SavedInv, MkdirsNext PROVE SavedInv'
<1> DEFINE at == SubSeq(paths.root, 1, paths.depth)
<1>1. env' = env /\ asked' = asked /\ inode' = inode /\ save' = save /\ acked' = acked
  BY Zenon DEF MkdirsNext
<1>2. paths.pc = "mkdirs" /\ paths.depth <= Len(paths.root)
  BY Zenon DEF MkdirsNext
<1>3. at # <<>>
  <2>1. paths.root \in Seq(PathParts) /\ paths.depth \in Nat /\ paths.depth >= 1
    BY <1>2, PathsInvOf, DataRootIs, Zenon DEF SavedInv
  <2>2. \A i \in 1..paths.depth : paths.root[i] \in PathParts
    BY <1>2, <2>1, LenProperties, ElementOfSeq
  <2>3. Len(at) = IF 1 <= paths.depth THEN (paths.depth - 1) + 1 ELSE 0
    BY <2>1, <2>2, SubSeqProperties
  <2>4. Len(at) # Len(<<>>)
    <3> HIDE DEF at
    <3> QED BY <2>1, <2>3
  <2> QED BY <2>4, Zenon
<1> HIDE DEF at
<1>4. DiskInv' /\ AckInv'
  <2>1. CASE Entry(at) = None
    <3>1. Put([p \in {at} |-> Dir])
      BY <2>1, Zenon DEF MkdirsNext, at
    <3> QED BY <1>1, <1>3, <2>1, <3>1, PutDir
  <2>2. CASE Entry(at) # None
    <3>1. node' = node /\ maybe' = maybe
      BY <2>2, Zenon DEF MkdirsNext, at
    <3> QED BY <1>1, <3>1, GrowsSame, DiskStays, AckStays DEF SavedInv
  <2> QED BY <2>1, <2>2
<1>5. EnvInv' /\ InodesOK'
  BY <1>1, EnvKept, GrowsSame DEF SavedInv
<1>6. CallsInv'
  <2>1. save' = [t \in Savers |-> NoCall]
    BY <1>1, <1>2, Idle DEF SavedInv
  <2> QED BY <1>5, <2>1, AllIdle
<1>7. PathsInv'
  <2>1. paths' = [pc |-> paths.pc, root |-> paths.root, depth |-> paths.depth + 1, handle |-> paths.handle]
    BY PathsInvOf, PathsEdits, Zenon DEF MkdirsNext
  <2>2. paths.depth + 1 \in Nat /\ paths.depth + 1 >= 1
    BY PathsInvOf
  <2> QED BY <1>1, <2>1, <2>2, PathsIs, PathsInvOf, Zenon
<1> QED BY <1>4, <1>5, <1>6, <1>7, Zenon DEF SavedInv

LEMMA OthersStay ==
    ASSUME SavedInv, env' = env, paths' = paths, inode' = inode,
           \A p : Entry(p) # None => Entry(p)' = Entry(p), NEW u \in Savers, NEW c, c = save[u]
    PROVE  CallInv(c)'
<1>1. InodesOK /\ InodesOK' /\ Grows
  BY GrowsSame DEF SavedInv
<1>2. CallInv(c)
  BY Zenon DEF SavedInv, CallsInv
<1>3. Owns(c) => Entry(Name(c, c.temporary))' = Entry(Name(c, c.temporary))
  <2>1. Owns(c) => Entry(Name(c, c.temporary)) # None
    BY <1>2, Kinds, Zenon DEF CallInv, OwnInv
  <2> QED BY <2>1, Zenon
<1>4. c.pc = "syncdir" => Entry(Name(c, c.pending))' = Entry(Name(c, c.pending))
  <2>1. c.pc = "syncdir" => Entry(Name(c, c.pending)) # None
    BY <1>2, Kinds, Zenon DEF CallInv, OwnInv, AsNew
  <2> QED BY <2>1, Zenon
<1>5. c.id # 0 => inode'[c.id] = inode[c.id]
  BY Zenon
<1> QED BY <1>1, <1>2, <1>3, <1>4, <1>5, OtherKept, Zenon

LEMMA SelfPrefix == ASSUME NEW X, NEW p \in Seq(X) PROVE IsPrefix(p, p)
BY LenProperties DEF IsPrefix

\* What a caller may ask for.
LEMMA AskedIs ==
    ASSUME PlainNames, EnvInv, NEW t \in Savers, NEW r \in asked[t]
    PROVE  r.rel.parts \in Seq(PathParts) /\ ToSet(r.rel.parts) \cap Temps = {} /\ r.size \in Nat
<1>1. PICK sc \in Scenarios : asked = sc.asked
  BY Zenon DEF EnvInv
<1>2. r \in sc.asked[t]
  BY <1>1
<1>3. r.rel.parts \in Seq(STRING) /\ r.size \in Nat
  BY <1>2, SavedFilesAssumption, Zenon
<1>4. ToSet(r.rel.parts) \cap Temps = {}
  BY <1>2, Zenon DEF PlainNames
<1> QED BY <1>3, <1>4, WordsAre, Zenon

LEMMA AtomicWriteKeeps ==
    ASSUME PlainNames, SavedInv, NEW t \in Savers, AtomicWrite(t)
    PROVE  SavedInv'
<1>1. /\ env' = env /\ asked' = asked /\ node' = node /\ maybe' = maybe /\ inode' = inode
      /\ paths' = paths /\ acked' = acked
  BY Zenon DEF AtomicWrite
<1>2. PICK r \in asked[t] :
        /\ ~r.rel.abs
        /\ save' = [save EXCEPT ![t] = [NoCall EXCEPT !.pc = "walk", !.rel = r.rel, !.fd = paths.root,
                                          !.size = r.size, !.rest = r.rel.parts]]
  BY Zenon DEF AtomicWrite, Set
<1>3. PICK s : s = [NoCall EXCEPT !.pc = "walk", !.rel = r.rel, !.fd = paths.root,
                                  !.size = r.size, !.rest = r.rel.parts]
  OBVIOUS
<1>4. s = Call("walk", r.rel, paths.root, "", r.rel.parts, 1, r.size, 0, "")
  <2>1. IsRecord(NoCall) /\ NoCall.pending = "" /\ NoCall.try = 1 /\ NoCall.id = 0 /\ NoCall.temporary = ""
    <3>1. NoCall.pending = "" /\ NoCall.try = 1 /\ NoCall.id = 0 /\ NoCall.temporary = ""
      BY DEF NoCall
    <3> QED BY <3>1, NoCallIs, Zenon DEF IsRecord, IsCall
  <2>2. s = Call("walk", r.rel, paths.root, NoCall.pending, r.rel.parts, NoCall.try, r.size,
                 NoCall.id, NoCall.temporary)
    <3>1. s = Begun(NoCall, "walk", r.rel, paths.root, r.size, r.rel.parts)
      BY <1>3, Zenon DEF Begun
    <3> QED BY <2>1, <3>1, FirstEdits, Zenon
  <2> QED BY <2>1, <2>2, Zenon
<1>5. /\ s.pc = "walk" /\ s.rel = r.rel /\ s.fd = paths.root /\ s.pending = "" /\ s.rest = r.rel.parts
      /\ s.id = 0 /\ s.temporary = ""
  <2>1. PICK none : none = ""
    OBVIOUS
  <2>2. s = Call("walk", r.rel, paths.root, none, r.rel.parts, 1, r.size, 0, none)
    BY <1>4, <2>1, Zenon
  <2>3. /\ s.pc = "walk" /\ s.rel = r.rel /\ s.fd = paths.root /\ s.pending = none
        /\ s.rest = r.rel.parts /\ s.id = 0 /\ s.temporary = none
    BY <2>2, CallIsRecord
  <2> QED BY <2>1, <2>3, Zenon
<1>6. /\ r.rel.parts \in Seq(PathParts) /\ ToSet(r.rel.parts) \cap Temps = {} /\ r.size \in Nat
  BY AskedIs DEF SavedInv
<1>7. paths.pc = "up" /\ paths.root = DataRoot.at /\ DataRoot.at \in Seq(PathParts) /\ NoUp(DataRoot.at)
  <2>1. paths.handle
    BY Zenon DEF AtomicWrite
  <2>2. paths.pc = "up" /\ "up" # "down"
    BY <2>1, PathsInvOf
  <2> QED BY <2>2, PathsInvOf, DataRootIs, Zenon DEF SavedInv
<1>8. IsCall(s)
  <2>1. "" \in PathParts
    BY Zenon DEF PathParts
  <2>2. 1 \in Nat \ {0} /\ 0 \in Nat /\ "walk" # "idle" /\ paths.root \in Seq(PathParts)
    BY <1>7
  <2> QED BY <1>4, <1>6, <2>1, <2>2, IsCallIs
<1>9. PlaceInv(s)
  <2>1. Below(s.fd)
    BY <1>5, <1>7, SelfPrefix, Zenon DEF Below
  <2>2. s.pending \notin Temps /\ s.pending # ".."
    BY <1>5, TempNameIs
  <2>3. Walking(s)
    <3>1. WalkAt(s) = paths.root
      BY <1>5, Zenon DEF WalkAt
    <3>2. Walked(WalkAt(s), s.rest) = Join(paths.root, s.rel)
      BY <1>5, <3>1, Zenon DEF Join
    <3> QED BY <1>2, <1>5, <1>6, <3>2, Zenon DEF Walking
  <2>4. s.pc \notin Arrived
    BY <1>5 DEF Arrived, Owning
  <2> QED BY <1>7, <2>1, <2>2, <2>3, <2>4, Zenon DEF PlaceInv
<1>10. InodesOK' /\ Grows /\ DiskInv' /\ AckInv' /\ EnvInv'
  BY <1>1, EnvKept, GrowsSame, DiskStays, AckStays DEF SavedInv
<1>11. CallInv(s)'
  <2>1. PlaceInv(s)' /\ IsCall(s)'
    BY <1>1, <1>8, <1>9, PlaceKept, Zenon DEF IsCall, NoCall, Unset
  <2>2. "walk" \notin Owning \cup {"done", "syncdir", "write", "sync", "rename"}
    BY DEF Owning
  <2>3. 0 <= Len(inode)'
    BY <1>10, LenProperties DEF InodesOK
  <2>4. OwnInv(s)' /\ FileInv(s)'
    BY <1>5, <2>2, <2>3, Zenon DEF OwnInv, Owns, FileInv
  <2> QED BY <2>1, <2>4, Zenon DEF CallInv
<1>12. CallsInv'
  <2>1. \A u \in Savers \ {t} : \A c : c = save[u] => CallInv(c)'
    <3>1. \A p : Entry(p)' = Entry(p)
      BY <1>1, DiskSame
    <3> QED BY <1>1, <3>1, OthersStay, Zenon
  <2>2. save' = [save EXCEPT ![t] = s]
    BY <1>2, <1>3, Zenon
  <2> QED BY <1>5, <1>11, <2>1, <2>2, CallsStep DEF SavedInv
<1>13. PathsInv'
  BY <1>1, Zenon DEF SavedInv, PathsInv, DataRoot
<1> QED BY <1>10, <1>12, <1>13, Zenon DEF SavedInv

\* The name of an attempt.
LEMMA AttemptIs ==
    ASSUME NEW n \in Nat \ {0}, n <= Len(TempNames)
    PROVE  TempNames[n] \in Temps
<1>1. DOMAIN TempNames = 1..Len(TempNames) /\ Len(TempNames) \in Nat
  BY SavedFilesAssumption, LenProperties, Zenon
<1>2. n \in DOMAIN TempNames
  BY <1>1
<1> QED BY <1>2, Zenon DEF Temps, ToSet

LEMMA SaveFailsKeeps ==
    ASSUME SavedInv, NEW t \in Savers, SaveFails(t)
    PROVE  SavedInv'
<1>1. /\ env' = env /\ asked' = asked /\ node' = node /\ maybe' = maybe /\ inode' = inode
      /\ paths' = paths /\ acked' = acked
  BY Zenon DEF SaveFails
<1>2. PICK c : c = save[t]
  OBVIOUS
<1>3. IsCall(c) /\ PlaceInv(c) /\ OwnInv(c) /\ c.pc # "idle"
  <2>1. CallInv(c)
    BY <1>2, Zenon DEF SavedInv, CallsInv
  <2>2. c.pc \in {"walk", "temp", "write", "sync", "rename", "syncdir"}
    BY <1>2, Zenon DEF SaveFails
  <2> QED BY <2>1, <2>2, Zenon DEF CallInv
<1>4. PICK s, name : /\ name = IF c.pc = "temp" /\ c.try <= Len(TempNames) THEN TempNames[c.try] ELSE c.temporary
                     /\ s = [c EXCEPT !.pc = "done", !.temporary = name]
  BY Zenon
<1>5. s = Call("done", c.rel, c.fd, c.pending, c.rest, c.try, c.size, c.id, name)
  <2>1. s = Renamed(c, "done", name)
    BY <1>4, Zenon DEF Renamed
  <2> QED BY <1>3, <2>1, RenamedIs, Zenon DEF IsCall, IsRecord
<1>6. /\ s.pc = "done" /\ s.rel = c.rel /\ s.fd = c.fd /\ s.pending = c.pending
      /\ s.id = c.id /\ s.temporary = name
  BY <1>5, CallIsRecord
<1>7. IsCall(s)
  <2>1. /\ c.fd \in Seq(PathParts) /\ c.pending \in PathParts /\ c.rest \in Seq(PathParts)
        /\ c.try \in Nat \ {0} /\ c.size \in Nat /\ c.id \in Nat
    BY <1>3, Zenon DEF IsCall
  <2>2. "done" # "idle"
    OBVIOUS
  <2> QED BY <1>5, <2>1, <2>2, IsCallIs
<1>8. InodesOK' /\ Grows /\ DiskInv' /\ AckInv' /\ EnvInv'
  BY <1>1, EnvKept, GrowsSame, DiskStays, AckStays DEF SavedInv
<1>9. CallInv(s)'
  <2>1. PlaceInv(s)
    <3>1. s.pc \notin Arrived /\ s.pc # "walk" /\ s.pc # "idle"
      BY <1>6 DEF Arrived, Owning
    <3> QED BY <1>3, <1>6, <3>1, Zenon DEF PlaceInv
  <2>2. IsCall(s)' /\ PlaceInv(s)'
    BY <1>1, <1>7, <2>1, PlaceKept, Zenon DEF IsCall, NoCall, Unset
  <2>3. "done" \notin Owning /\ "done" \notin {"write", "sync", "rename", "syncdir"}
    BY DEF Owning
  <2>4. FileInv(s)'
    BY <1>6, <2>3, Zenon DEF FileInv
  <2>5. s.temporary # "" => s.temporary \in Temps
    <3>1. CASE c.pc = "temp" /\ c.try <= Len(TempNames)
      <4>1. c.try \in Nat \ {0}
        BY <1>3, Zenon DEF IsCall
      <4> QED BY <1>4, <1>6, <3>1, <4>1, AttemptIs, Zenon
    <3>2. CASE ~(c.pc = "temp" /\ c.try <= Len(TempNames))
      BY <1>3, <1>4, <1>6, <3>2, Zenon DEF OwnInv
    <3> QED BY <3>1, <3>2
  <2>6. Owns(s) => Entry(Name(s, s.temporary))' = File(s.id)
    <3> SUFFICES ASSUME Owns(s) PROVE Entry(Name(s, s.temporary))' = File(s.id)
      OBVIOUS
    <3>1. c.pc # "temp"
      BY <1>3, <1>6, Zenon DEF OwnInv, Owns
    <3>2. s.temporary = c.temporary /\ Owns(c)
      BY <1>4, <1>6, <3>1, Zenon DEF Owns
    <3>3. Name(s, s.temporary) = Name(c, c.temporary) /\ Entry(Name(c, c.temporary)) = File(c.id)
      BY <1>3, <1>6, <3>2, Zenon DEF Name, OwnInv
    <3> QED BY <1>1, <1>6, <3>3, DiskSame, Zenon
  <2>7. OwnInv(s)'
    <3>1. s.id <= Len(inode)'
      BY <1>1, <1>3, <1>6, Zenon DEF OwnInv
    <3>2. "done" \notin {"walk", "temp", "syncdir"} /\ "done" \in Owning \cup {"done"}
      OBVIOUS
    <3> QED BY <1>6, <2>3, <2>5, <2>6, <3>1, <3>2, Zenon DEF OwnInv, Owns, Temps, Owning, File
  <2> QED BY <2>2, <2>4, <2>7, Zenon DEF CallInv
<1>10. CallsInv'
  <2>1. \A u \in Savers \ {t} : \A x : x = save[u] => CallInv(x)'
    <3>1. \A p : Entry(p)' = Entry(p)
      BY <1>1, DiskSame
    <3> QED BY <1>1, <3>1, OthersStay, Zenon
  <2>2. save' = [save EXCEPT ![t] = s]
    BY <1>2, <1>4, Zenon DEF SaveFails, Set
  <2>3. s.id # 0 => \A u \in Savers \ {t} : save[u].id # s.id
    BY <1>2, <1>6, Zenon DEF SavedInv, CallsInv
  <2> QED BY <1>9, <2>1, <2>2, <2>3, CallsStep DEF SavedInv
<1>11. PathsInv'
  BY <1>1, Zenon DEF SavedInv, PathsInv, DataRoot
<1> QED BY <1>8, <1>10, <1>11, Zenon DEF SavedInv

LEMMA KillKeeps == ASSUME SavedInv, Kill PROVE SavedInv'
<1>1. /\ env' = env /\ asked' = asked /\ node' = node /\ maybe' = maybe /\ inode' = inode
      /\ acked' = acked /\ paths' = Down /\ save' = [t \in Savers |-> NoCall]
  BY Zenon DEF Kill
<1>2. InodesOK' /\ Grows /\ DiskInv' /\ AckInv' /\ EnvInv'
  BY <1>1, EnvKept, GrowsSame, DiskStays, AckStays DEF SavedInv
<1>3. CallsInv' /\ PathsInv'
  BY <1>1, <1>2, AllIdle, DownKeeps
<1> QED BY <1>2, <1>3, Zenon DEF SavedInv

\* A step of one call that leaves the files and whatever entries there are.
LEMMA OneCallStep ==
    ASSUME SavedInv, NEW t \in Savers, NEW s, save' = [save EXCEPT ![t] = s],
           env' = env, asked' = asked, paths' = paths, inode' = inode, DiskInv', AckInv',
           \A p : Entry(p) # None => Entry(p)' = Entry(p),
           IsCall(s), PlaceInv(s), s.id = save[t].id, OwnInv(s)', FileInv(s)'
    PROVE  SavedInv'
<1>1. InodesOK' /\ EnvInv'
  BY EnvKept, GrowsSame DEF SavedInv
<1>2. CallInv(s)'
  <2>1. IsCall(s)' /\ PlaceInv(s)'
    BY PlaceKept, Zenon DEF IsCall, NoCall, Unset
  <2> QED BY <2>1, Zenon DEF CallInv
<1>3. \A u \in Savers \ {t} : \A x : x = save[u] => CallInv(x)'
  BY OthersStay, Zenon
<1>4. s.id # 0 => \A u \in Savers \ {t} : save[u].id # s.id
  BY Zenon DEF SavedInv, CallsInv
<1>5. CallsInv'
  BY <1>2, <1>3, <1>4, CallsStep, Zenon DEF SavedInv
<1>6. PathsInv'
  BY Zenon DEF SavedInv, PathsInv, DataRoot
<1> QED BY <1>1, <1>5, <1>6, Zenon DEF SavedInv

LEMMA TailSet ==
    ASSUME NEW X, NEW p \in Seq(X), p # <<>>
    PROVE  Head(p) \in ToSet(p) /\ ToSet(Tail(p)) \subseteq ToSet(p)
           /\ \A x \in ToSet(p) : x = Head(p) \/ x \in ToSet(Tail(p))
<1>1. /\ Tail(p) \in Seq(X) /\ Len(Tail(p)) = Len(p) - 1 /\ Len(p) \in Nat /\ Len(p) # 0
      /\ \A i \in 1..Len(Tail(p)) : Tail(p)[i] = p[i + 1]
  BY HeadTailProperties, EmptySeq
<1>2. DOMAIN p = 1..Len(p) /\ DOMAIN Tail(p) = 1..Len(Tail(p)) /\ Head(p) = p[1]
  BY <1>1, LenProperties
<1>3. 1 \in DOMAIN p
  BY <1>1, <1>2
<1>4. ASSUME NEW i \in DOMAIN Tail(p) PROVE Tail(p)[i] \in ToSet(p)
  <2>1. i + 1 \in DOMAIN p /\ Tail(p)[i] = p[i + 1]
    BY <1>1, <1>2
  <2> QED BY <2>1, Zenon DEF ToSet
<1>5. ASSUME NEW i \in DOMAIN p PROVE p[i] = Head(p) \/ p[i] \in ToSet(Tail(p))
  <2>1. CASE i = 1
    BY <2>1, <1>2
  <2>2. CASE i # 1
    <3>1. i - 1 \in DOMAIN Tail(p) /\ (i - 1) + 1 = i
      BY <1>1, <1>2, <2>2
    <3>2. Tail(p)[i - 1] = p[i]
      BY <1>1, <1>2, <3>1
    <3> QED BY <3>1, <3>2, Zenon DEF ToSet
  <2> QED BY <2>1, <2>2
<1>6. Head(p) \in ToSet(p)
  BY <1>2, <1>3, Zenon DEF ToSet
<1>7. ToSet(Tail(p)) \subseteq ToSet(p)
  <2>1. ToSet(Tail(p)) = {Tail(p)[i] : i \in DOMAIN Tail(p)}
    BY Zenon DEF ToSet
  <2> QED BY <1>4, <2>1, Zenon
<1>8. \A x \in ToSet(p) : x = Head(p) \/ x \in ToSet(Tail(p))
  <2>1. ToSet(p) = {p[i] : i \in DOMAIN p}
    BY Zenon DEF ToSet
  <2> QED BY <1>5, <2>1, Zenon
<1> QED BY <1>6, <1>7, <1>8, Zenon

LEMMA BelowAppend ==
    ASSUME EnvInv, NEW d \in Seq(PathParts), Below(d), NEW x \in PathParts, x # ".."
    PROVE  Below(Append(d, x))
BY DataRootIs, PrefixAppend, NoUpAppend, Zenon DEF Below

\* Where the walk is, is a directory of the data directory or a name in one.
LEMMA AtIs ==
    ASSUME SavedInv, NEW c, IsCall(c), PlaceInv(c), c.pc # "idle"
    PROVE  WalkAt(c) \in Seq(PathParts) /\ Below(WalkAt(c))
<1>1. c.fd \in Seq(PathParts) /\ c.pending \in PathParts /\ Below(c.fd) /\ c.pending # ".."
  BY Zenon DEF IsCall, PlaceInv
<1>2. Append(c.fd, c.pending) \in Seq(PathParts) /\ Below(Append(c.fd, c.pending))
  BY <1>1, BelowAppend, EntryOf, Zenon DEF SavedInv
<1> QED BY <1>1, <1>2, Zenon DEF WalkAt, Name

LEMMA WalkKeeps ==
    ASSUME SavedInv, NEW t \in Savers, Walk(t)
    PROVE  SavedInv'
<1>0. PICK c : c = save[t]
  OBVIOUS
<1>1. /\ env' = env /\ asked' = asked /\ inode' = inode /\ paths' = paths /\ acked' = acked
      /\ c.pc = "walk" /\ ~Refused(c)
  BY <1>0, Zenon DEF Walk
<1>2. IsCall(c) /\ PlaceInv(c) /\ OwnInv(c) /\ c.pc # "idle" /\ IsRecord(c)
  <2>1. CallInv(c)
    BY <1>0, Zenon DEF SavedInv, CallsInv
  <2> QED BY <1>1, <2>1, Zenon DEF CallInv, IsCall, IsRecord
<1>3. /\ c.fd \in Seq(PathParts) /\ c.pending \in PathParts /\ c.rest \in Seq(PathParts)
      /\ c.try \in Nat \ {0} /\ c.size \in Nat /\ c.id \in Nat
  BY <1>2, Zenon DEF IsCall
<1>4. c.id = 0
  BY <1>1, <1>2, Zenon DEF OwnInv
<1>5. WalkAt(c) \in Seq(PathParts) /\ Below(WalkAt(c)) /\ Below(c.fd) /\ paths.pc = "up"
  BY <1>1, <1>2, AtIs, Zenon DEF PlaceInv
<1>6. /\ Walked(WalkAt(c), c.rest) = Join(paths.root, c.rel)
      /\ ".." \in ToSet(c.rel.parts) => ".." \in ToSet(c.rest)
      /\ ToSet(c.rest) \cap Temps = {}
      /\ ~c.rel.abs
      /\ c.pending \notin Temps /\ c.pending # ".."
  BY <1>1, <1>2, Zenon DEF PlaceInv, Walking
<1>7. ASSUME node' = node, maybe' = maybe
      PROVE  DiskInv' /\ AckInv' /\ \A p : Entry(p) # None => Entry(p)' = Entry(p)
  <2>1. DiskInv' /\ AckInv'
    BY <1>1, <1>7, GrowsSame, DiskStays, AckStays DEF SavedInv
  <2> QED BY <1>7, <2>1, DiskSame, Zenon
<1>8. "walk" \notin Owning \cup {"done", "syncdir", "write", "sync", "rename"} /\ "walk" \notin Arrived /\ "walk" # "idle"
  BY DEF Owning, Arrived
<1>9. "temp" \notin Owning \cup {"done", "syncdir", "write", "sync", "rename"} /\ "temp" \in Arrived /\ "temp" \notin {"walk", "idle"}
  BY DEF Owning, Arrived
<1>10. c.id <= Len(inode)'
  BY <1>1, <1>2, Zenon DEF OwnInv
<1>11. ASSUME NEW s, s.pc = "walk" \/ s.pc = "temp", s.id = c.id, s.temporary = c.temporary
       PROVE  OwnInv(s)' /\ FileInv(s)'
  <2>1. s.temporary # "" => s.temporary \in Temps
    BY <1>2, <1>11, Zenon DEF OwnInv
  <2>2. ~Owns(s)
    BY <1>4, <1>11, Zenon DEF Owns
  <2> QED BY <1>4, <1>8, <1>9, <1>10, <1>11, <2>1, <2>2, Zenon DEF OwnInv, Owns, Temps, Owning, FileInv
<1>12. CASE c.rest = <<>>
  <2>1. PICK s : s = [c EXCEPT !.pc = "temp"]
    OBVIOUS
  <2>2. save' = [save EXCEPT ![t] = s] /\ node' = node /\ maybe' = maybe
    BY <1>0, <1>12, <2>1, Zenon DEF Walk, Set
  <2>3. s = Call("temp", c.rel, c.fd, c.pending, c.rest, c.try, c.size, c.id, c.temporary)
    BY <1>2, <2>1, CallEdits, Zenon
  <2>4. s.pc = "temp" /\ s.rel = c.rel /\ s.fd = c.fd /\ s.pending = c.pending /\ s.id = c.id /\ s.temporary = c.temporary
    BY <2>3, CallIsRecord
  <2>5. IsCall(s)
    BY <1>3, <1>9, <2>3, IsCallIs
  <2>6. c.pending # ""
    BY <1>1, <1>12, Zenon DEF Refused
  <2>7. Join(paths.root, c.rel) = Name(c, c.pending)
    <3>1. Walked(WalkAt(c), <<>>) = WalkAt(c)
      BY <1>5, WalkedDone
    <3> QED BY <1>6, <1>12, <2>6, <3>1, Zenon DEF WalkAt
  <2>8. Joinable(c.rel)
    <3>1. ToSet(<<>>) = {}
      BY DEF ToSet
    <3> QED BY <1>6, <1>12, <3>1, Zenon DEF Joinable
  <2>9. PlaceInv(s)
    <3>1. DataPath(s.rel) = Name(s, s.pending)
      BY <2>4, <2>7, <2>8, Zenon DEF DataPath, Name
    <3> QED BY <1>5, <1>6, <1>9, <2>4, <2>6, <3>1, Zenon DEF PlaceInv
  <2>10. OwnInv(s)' /\ FileInv(s)'
    BY <1>11, <2>4
  <2>11. s.id = save[t].id
    BY <1>0, <2>4, Zenon
  <2> QED BY <1>1, <1>7, <2>2, <2>5, <2>9, <2>10, <2>11, OneCallStep, Zenon
<1>13. CASE c.rest # <<>>
  <2> DEFINE part == Head(c.rest)
             rest == Tail(c.rest)
  <2>1. part \in PathParts /\ rest \in Seq(PathParts)
    BY <1>3, <1>13, HeadTailProperties
  <2>2. /\ part \in ToSet(c.rest) /\ ToSet(rest) \subseteq ToSet(c.rest)
        /\ \A x \in ToSet(c.rest) : x = part \/ x \in ToSet(rest)
    BY <1>3, <1>13, TailSet
  <2>3. Walked(WalkAt(c), c.rest) = Walked(Step(WalkAt(c), part), rest)
    BY <1>3, <1>5, <1>13, WalkedOn
  <2>4. part # ".." /\ part \notin Temps
    <3>1. part # ".."
      BY <1>1, <1>13, Zenon DEF Refused
    <3> QED BY <1>6, <2>2, <3>1, Zenon
  <2>5. /\ ".." \in ToSet(c.rel.parts) => ".." \in ToSet(rest)
        /\ ToSet(rest) \cap Temps = {}
    BY <1>6, <2>2, <2>4, Zenon
  <2>6. CASE part \in {"", "."}
    <3>1. PICK s : s = [c EXCEPT !.rest = rest]
      OBVIOUS
    <3>2. save' = [save EXCEPT ![t] = s] /\ node' = node /\ maybe' = maybe
      BY <1>0, <1>13, <2>6, <3>1, Zenon DEF Walk, Set
    <3> HIDE DEF rest, part
    <3>3. s = Call(c.pc, c.rel, c.fd, c.pending, rest, c.try, c.size, c.id, c.temporary)
      BY <1>2, <3>1, CallEdits, Zenon
    <3>4. /\ s.pc = c.pc /\ s.rel = c.rel /\ s.fd = c.fd /\ s.pending = c.pending /\ s.rest = rest
          /\ s.id = c.id /\ s.temporary = c.temporary
      BY <3>3, CallIsRecord
    <3>5. IsCall(s)
      BY <1>2, <1>3, <2>1, <3>3, IsCallIs
    <3>6. Step(WalkAt(c), part) = WalkAt(c)
      BY <2>6, Zenon DEF Step
    <3>7. WalkAt(s) = WalkAt(c)
      BY <3>4, Zenon DEF WalkAt, Name
    <3>8. Walking(s)
      BY <1>6, <2>3, <2>5, <3>4, <3>6, <3>7, Zenon DEF Walking
    <3>9. PlaceInv(s)
      BY <1>1, <1>5, <1>6, <1>8, <3>4, <3>8, Zenon DEF PlaceInv
    <3>10. OwnInv(s)' /\ FileInv(s)'
      BY <1>1, <1>11, <3>4
    <3>11. s.id = save[t].id
      BY <1>0, <3>4, Zenon
    <3> QED BY <1>1, <1>7, <3>2, <3>5, <3>9, <3>10, <3>11, OneCallStep, Zenon
  <2>7. CASE part \notin {"", "."}
    <3> DEFINE fd == IF c.pending = "" THEN c.fd ELSE Name(c, c.pending)
    <3>1. PICK s : s = [c EXCEPT !.rest = rest, !.pending = part, !.fd = fd]
      OBVIOUS
    <3>2. save' = [save EXCEPT ![t] = s]
      BY <1>0, <1>13, <2>7, <3>1, Zenon DEF Walk, Set
    <3>3. fd = WalkAt(c)
      BY Zenon DEF WalkAt
    <3>4. DiskInv' /\ AckInv' /\ \A p : Entry(p) # None => Entry(p)' = Entry(p)
      <4>1. CASE c.pending # "" /\ Entry(Name(c, c.pending)) = None
        <5>1. Put([p \in {Name(c, c.pending)} |-> Dir])
          BY <1>0, <1>13, <2>7, <4>1, Zenon DEF Walk
        <5>2. Name(c, c.pending) # <<>>
          BY <1>3, EntryOf, ZenonT(60) DEF Name
        <5>3. PICK at : at = Name(c, c.pending)
          OBVIOUS
        <5>4. at # <<>> /\ Entry(at) = None /\ Put([p \in {at} |-> Dir])
          BY <4>1, <5>1, <5>2, <5>3, Zenon
        <5> QED BY <1>1, <5>4, PutDir
      <4>2. CASE ~(c.pending # "" /\ Entry(Name(c, c.pending)) = None)
        <5>1. node' = node /\ maybe' = maybe
          BY <1>0, <1>13, <2>7, <4>2, Zenon DEF Walk
        <5> QED BY <1>7, <5>1
      <4> QED BY <4>1, <4>2, Zenon
    <3> HIDE DEF rest, part, fd
    <3>5. s = Call(c.pc, c.rel, fd, part, rest, c.try, c.size, c.id, c.temporary)
      <4>1. s = Stepped(c, rest, part, fd)
        BY <3>1, Zenon DEF Stepped
      <4> QED BY <1>2, <4>1, SteppedIs, Zenon
    <3>6. /\ s.pc = c.pc /\ s.rel = c.rel /\ s.fd = fd /\ s.pending = part /\ s.rest = rest
          /\ s.id = c.id /\ s.temporary = c.temporary
      BY <3>5, CallIsRecord
    <3>7. IsCall(s)
      BY <1>2, <1>3, <1>5, <2>1, <3>3, <3>5, IsCallIs
    <3>8. Step(WalkAt(c), part) = Append(WalkAt(c), part)
      BY <2>4, <2>7, Zenon DEF Step
    <3>9. WalkAt(s) = Append(WalkAt(c), part)
      BY <2>7, <3>3, <3>6, Zenon DEF WalkAt, Name
    <3>10. Walking(s)
      BY <1>6, <2>3, <2>5, <3>6, <3>8, <3>9, Zenon DEF Walking
    <3>11. PlaceInv(s)
      BY <1>1, <1>5, <1>6, <1>8, <2>4, <3>3, <3>6, <3>10, Zenon DEF PlaceInv
    <3>12. OwnInv(s)' /\ FileInv(s)'
      BY <1>1, <1>11, <3>6
    <3>13. s.id = save[t].id
      BY <1>0, <3>6, Zenon
    <3> QED BY <1>1, <3>2, <3>4, <3>7, <3>11, <3>12, <3>13, OneCallStep, Zenon
  <2> QED BY <2>6, <2>7
<1> QED BY <1>12, <1>13

\* What a step of one thread leaves of the call of another.
LeftAlone(c) ==
    /\ c.id # 0 => inode'[c.id] = inode[c.id]
    /\ Owns(c) => Entry(Name(c, c.temporary))' = Entry(Name(c, c.temporary))
    /\ c.pc = "syncdir" => \/ Entry(Name(c, c.pending))' = Entry(Name(c, c.pending))
                           \/ AsNew(Entry(Name(c, c.pending)), inode[c.id].ord)'

\* A step of one call that may change files and entries.
LEMMA CallStep ==
    ASSUME SavedInv, NEW t \in Savers, NEW s, save' = [save EXCEPT ![t] = s],
           env' = env, asked' = asked, paths' = paths, InodesOK', Grows, DiskInv', AckInv',
           CallInv(s)', s.id # 0 => \A u \in Savers \ {t} : save[u].id # s.id,
           \A u \in Savers \ {t} : \A c : c = save[u] => LeftAlone(c)
    PROVE  SavedInv'
<1>1. ASSUME NEW u \in Savers \ {t}, NEW c, c = save[u] PROVE CallInv(c)'
  <2>1. LeftAlone(c) /\ CallInv(c) /\ InodesOK
    BY <1>1, Zenon DEF SavedInv, CallsInv
  <2> QED BY <2>1, OtherKept, Zenon DEF LeftAlone
<1>2. CallsInv'
  BY <1>1, CallsStep, Zenon DEF SavedInv
<1>3. PathsInv' /\ EnvInv'
  BY EnvKept, Zenon DEF SavedInv, PathsInv, DataRoot
<1> QED BY <1>2, <1>3, Zenon DEF SavedInv

LEMMA FilesApart ==
    ASSUME SavedInv, NEW c, CallInv(c), NEW x, c.id # 0 => c.id # x,
           \A i \in 1..Len(inode) : i # x => inode'[i] = inode[i],
           \A p : Entry(p) # None => Entry(p)' = Entry(p)
    PROVE  LeftAlone(c)
<1>1. c.id \in Nat /\ c.id <= Len(inode) /\ Len(inode) \in Nat /\ OwnInv(c)
  BY InodeIs, Zenon DEF CallInv, IsCall, OwnInv, SavedInv
<1>2. c.id # 0 => c.id \in 1..Len(inode)
  BY <1>1, Ordered, Zenon
<1>3. Owns(c) => Entry(Name(c, c.temporary)) # None
  BY <1>1, Kinds, Zenon DEF OwnInv
<1>4. c.pc = "syncdir" => Entry(Name(c, c.pending)) # None
  BY <1>1, Kinds, Zenon DEF OwnInv, AsNew
<1> QED BY <1>2, <1>3, <1>4, Zenon DEF LeftAlone

\* The file and the entry of a temporary that is created.
LEMMA NewFile ==
    ASSUME InodesOK, NEW r \in Inodes, inode' = Append(inode, r)
    PROVE  /\ InodesOK' /\ Grows /\ Len(inode)' = Len(inode) + 1
           /\ Len(inode) + 1 \in 1..Len(inode)' /\ inode'[Len(inode) + 1] = r
           /\ \A i \in 1..Len(inode) : inode'[i] = inode[i]
<1>1. inode \in Seq(Inodes) /\ Len(inode) \in Nat
  BY InodeIs DEF InodesOK
<1>2. /\ inode' \in Seq(Inodes) /\ Len(inode') = Len(inode) + 1 /\ inode'[Len(inode) + 1] = r
      /\ \A i \in 1..Len(inode) : inode'[i] = inode[i]
  BY <1>1, AppendProperties
<1>3. Grows
  <2>1. \A i \in 1..Len(inode) : (Whole(i) => Whole(i)') /\ inode[i].ord <= inode[i].ord'
    BY <1>2, InodeIs DEF Whole
  <2> QED BY <1>1, <1>2, <2>1 DEF Grows
<1>4. InodesOK'
  BY <1>2, Zenon DEF InodesOK
<1> QED BY <1>1, <1>2, <1>3, <1>4

LEMMA TemporaryKeeps ==
    ASSUME SavedInv, NEW t \in Savers, Temporary(t)
    PROVE  SavedInv'
<1>0. PICK c : c = save[t]
  OBVIOUS
<1>1. /\ env' = env /\ asked' = asked /\ paths' = paths /\ acked' = acked
      /\ c.pc = "temp" /\ c.try <= Len(TempNames)
  BY <1>0, Zenon DEF Temporary
<1>2. IsCall(c) /\ PlaceInv(c) /\ OwnInv(c) /\ c.pc # "idle" /\ IsRecord(c)
  <2>1. CallInv(c)
    BY <1>0, Zenon DEF SavedInv, CallsInv
  <2> QED BY <1>1, <2>1, Zenon DEF CallInv, IsCall, IsRecord
<1>3. /\ c.fd \in Seq(PathParts) /\ c.pending \in PathParts /\ c.rest \in Seq(PathParts)
      /\ c.try \in Nat \ {0} /\ c.size \in Nat /\ c.id \in Nat
  BY <1>2, Zenon DEF IsCall
<1>4. c.id = 0
  BY <1>1, <1>2, Zenon DEF OwnInv
<1>5. /\ "temp" \notin Owning \cup {"done", "syncdir", "write", "sync", "rename"}
      /\ "temp" \in Arrived /\ "temp" \notin {"walk", "idle"}
      /\ "write" \in Owning /\ "write" \in Arrived /\ "write" \notin {"walk", "temp", "idle", "sync", "rename", "syncdir"}
  BY DEF Owning, Arrived
<1>6. /\ paths.pc = "up" /\ Below(c.fd) /\ c.pending \notin Temps /\ c.pending # ".."
      /\ c.pending # "" /\ DataPath(c.rel) = Name(c, c.pending)
  BY <1>1, <1>2, <1>5, Zenon DEF PlaceInv
<1>7. PICK name : name = TempNames[c.try]
  OBVIOUS
<1>8. name \in Temps
  BY <1>1, <1>3, <1>7, AttemptIs, Zenon
<1>9. name \in PathParts /\ name # "" /\ name # ".."
  BY <1>8, TempNameIs, Zenon
<1>10. CASE Entry(Name(c, name)) # None
  <2>1. PICK s : s = [c EXCEPT !.try = c.try + 1, !.temporary = name]
    OBVIOUS
  <2>2. save' = [save EXCEPT ![t] = s] /\ node' = node /\ maybe' = maybe /\ inode' = inode
    BY <1>0, <1>7, <1>10, <2>1, Zenon DEF Temporary, Set
  <2>3. s = Call(c.pc, c.rel, c.fd, c.pending, c.rest, c.try + 1, c.size, c.id, name)
    BY <1>2, <2>1, PassedIs, Zenon DEF Passed
  <2>4. s.pc = c.pc /\ s.rel = c.rel /\ s.fd = c.fd /\ s.pending = c.pending /\ s.id = c.id /\ s.temporary = name
    BY <2>3, CallIsRecord
  <2>5. IsCall(s)
    <3>1. c.try + 1 \in Nat \ {0}
      BY <1>3
    <3> QED BY <1>2, <1>3, <2>3, <3>1, IsCallIs
  <2>6. PlaceInv(s)
    BY <1>1, <1>5, <1>6, <2>4, Zenon DEF PlaceInv, Name
  <2>7. OwnInv(s)' /\ FileInv(s)'
    <3>1. c.id <= Len(inode)'
      BY <1>2, <2>2, Zenon DEF OwnInv
    <3>2. ~Owns(s)
      BY <1>4, <2>4, Zenon DEF Owns
    <3> QED BY <1>1, <1>4, <1>5, <1>8, <2>4, <3>1, <3>2, Zenon DEF OwnInv, Owns, Temps, Owning, FileInv
  <2>8. DiskInv' /\ AckInv' /\ \A p : Entry(p) # None => Entry(p)' = Entry(p)
    <3>1. DiskInv' /\ AckInv'
      BY <1>1, <2>2, GrowsSame, DiskStays, AckStays DEF SavedInv
    <3> QED BY <2>2, <3>1, DiskSame, Zenon
  <2>9. s.id = save[t].id
    BY <1>0, <2>4, Zenon
  <2> QED BY <1>1, <2>2, <2>5, <2>6, <2>7, <2>8, <2>9, OneCallStep, Zenon
<1>11. CASE Entry(Name(c, name)) = None
  <2>1. PICK n, at, r : /\ n = Len(inode) + 1 /\ at = Name(c, name)
                        /\ r = [size |-> c.size, len |-> 0, synced |-> FALSE, ord |-> 0]
    OBVIOUS
  <2>2. r \in Inodes /\ r.size = c.size
    BY <1>3, <2>1 DEF Inodes
  <2>3. PICK s, entries : s = [c EXCEPT !.pc = "write", !.id = n, !.temporary = name] /\ entries = [p \in {at} |-> File(n)]
    OBVIOUS
  <2>4. save' = [save EXCEPT ![t] = s] /\ inode' = Append(inode, r) /\ Put(entries)
    BY <1>0, <1>7, <1>11, <2>1, <2>3, Zenon DEF Temporary, Set
  <2>5. s = Call("write", c.rel, c.fd, c.pending, c.rest, c.try, c.size, n, name)
    <3>1. s = Created(c, "write", n, name)
      BY <2>3, Zenon DEF Created
    <3> QED BY <1>2, <3>1, CreatedIs, Zenon
  <2>6. /\ s.pc = "write" /\ s.rel = c.rel /\ s.fd = c.fd /\ s.pending = c.pending /\ s.size = c.size
        /\ s.id = n /\ s.temporary = name
    BY <2>5, CallIsRecord
  <2>7. /\ InodesOK /\ InodesOK' /\ Grows /\ DiskInv /\ AckInv /\ n \in 1..Len(inode)' /\ inode'[n] = r
        /\ n \in Nat /\ n <= Len(inode)' /\ \A i \in 1..Len(inode) : inode'[i] = inode[i] /\ i # n
    <3>1. InodesOK /\ Len(inode) \in Nat /\ DiskInv /\ AckInv
      BY InodeIs DEF SavedInv
    <3>2. /\ InodesOK' /\ Grows /\ Len(inode)' = Len(inode) + 1
          /\ Len(inode) + 1 \in 1..Len(inode)' /\ inode'[Len(inode) + 1] = r
          /\ \A i \in 1..Len(inode) : inode'[i] = inode[i]
      BY <2>2, <2>4, <3>1, NewFile
    <3> QED BY <2>1, <3>1, <3>2
  <2>8. at # <<>> /\ Last(at) = name /\ Below(at)
    <3>1. at = Append(c.fd, name)
      BY <2>1, Zenon DEF Name
    <3>2. EnvInv
      BY Zenon DEF SavedInv
    <3> QED BY <1>3, <1>6, <1>9, <3>1, <3>2, EntryOf, BelowAppend, Zenon
  <2>9. DOMAIN entries = {at} /\ entries[at] = File(n)
    BY <2>3
  <2>10. Entry(at)' = File(n) /\ \A p : p # at => Entry(p)' = Entry(p)
    <3>1. at \in DOMAIN entries /\ \A p : p # at => p \notin DOMAIN entries
      BY <2>9
    <3> QED BY <2>4, <2>8, <2>9, <3>1, PutIs, Zenon
  <2>11. DiskInv'
    <3>1. Sound(at, File(n))'
      <4>1. Below(at)'
        BY <1>1, <2>8, Zenon DEF Below, DataRoot, NoUp
      <4>2. HoldsFile(at, File(n))'
        BY <1>8, <2>7, <2>8, <4>1, Zenon DEF HoldsFile, File, Temps
      <4> QED BY <4>2, Zenon DEF Sound
    <3>2. \A p \in DOMAIN entries : Sound(p, entries[p])'
      <4>1. PICK v : v = File(n)
        OBVIOUS
      <4>2. Sound(at, v)' /\ entries[at] = v
        BY <2>9, <3>1, <4>1, Zenon
      <4> QED BY <2>9, <4>2
    <3>3. IsFiniteSet(DOMAIN entries) /\ <<>> \notin DOMAIN entries
      BY <2>8, <2>9, FS_Singleton
    <3> QED BY <1>1, <2>4, <2>7, <3>2, <3>3, DiskGrows
  <2>12. AckInv'
    <3>1. at \notin DOMAIN acked
      BY <1>8, <2>7, <2>8, Zenon DEF AckInv, AckedAt
    <3> QED BY <1>1, <2>4, <2>7, <2>9, <3>1, AckKept
  <2>13. CallInv(s)'
    <3>1. IsCall(s)
      BY <1>3, <1>5, <2>5, <2>7, IsCallIs
    <3>2. PlaceInv(s)
      BY <1>1, <1>5, <1>6, <2>6, Zenon DEF PlaceInv, Name
    <3>3. IsCall(s)' /\ PlaceInv(s)'
      BY <1>1, <3>1, <3>2, PlaceKept, Zenon DEF IsCall, NoCall, Unset
    <3>4. n # 0
      BY <2>7
    <3>5. Name(s, s.temporary) = at
      BY <2>1, <2>6, Zenon DEF Name
    <3>6. OwnInv(s)'
      BY <1>5, <1>8, <1>9, <2>6, <2>7, <2>10, <3>4, <3>5, Zenon DEF OwnInv, Owns, Temps, Owning, File
    <3>7. FileInv(s)'
      BY <1>5, <2>2, <2>6, <2>7, Zenon DEF FileInv
    <3> QED BY <3>3, <3>6, <3>7, Zenon DEF CallInv
  <2>14. ASSUME NEW u \in Savers \ {t}, NEW d, d = save[u] PROVE LeftAlone(d) /\ d.id # n
    <3>1. CallInv(d)
      BY <2>14, Zenon DEF SavedInv, CallsInv
    <3>2. d.id # n
      <4>1. d.id <= Len(inode) /\ d.id \in Nat
        BY <3>1, Zenon DEF CallInv, OwnInv, IsCall
      <4>2. Len(inode) \in Nat
        BY <2>7, InodeIs
      <4> QED BY <4>1, <4>2, <2>1
    <3>3. \A p : Entry(p) # None => Entry(p)' = Entry(p)
      BY <1>11, <2>1, <2>10, Zenon
    <3> QED BY <2>7, <3>1, <3>2, <3>3, FilesApart, Zenon
  <2> QED BY <1>1, <2>4, <2>6, <2>7, <2>11, <2>12, <2>13, <2>14, CallStep, ZenonT(60)
<1> QED BY <1>10, <1>11

\* A file that is changed: not one that was whole, unless it stays so.
LEMMA EditFile ==
    ASSUME InodesOK, NEW x \in 1..Len(inode), NEW r \in Inodes, inode' = [inode EXCEPT ![x] = r],
           Whole(x) => r.synced /\ r.len = r.size, inode[x].ord <= r.ord
    PROVE  /\ InodesOK' /\ Grows /\ Len(inode)' = Len(inode) /\ inode'[x] = r
           /\ \A i \in 1..Len(inode) : i # x => inode'[i] = inode[i]
<1>1. inode \in Seq(Inodes) /\ Len(inode) \in Nat /\ DOMAIN inode = 1..Len(inode)
  BY InodeIs DEF InodesOK
<1>2. inode' \in Seq(Inodes) /\ Len(inode') = Len(inode)
  BY <1>1, ExceptSeq
<1>3. inode'[x] = r /\ \A i \in 1..Len(inode) : i # x => inode'[i] = inode[i]
  BY <1>1
<1>4. Grows
  <2>1. ASSUME NEW i \in 1..Len(inode) PROVE (Whole(i) => Whole(i)') /\ inode[i].ord <= inode[i].ord'
    <3>1. CASE i = x
      BY <1>3, <3>1 DEF Whole
    <3>2. CASE i # x
      BY <1>3, <3>2, InodeIs DEF Whole
    <3> QED BY <3>1, <3>2
  <2> QED BY <1>1, <1>2, <2>1 DEF Grows
<1>5. InodesOK'
  BY <1>2, Zenon DEF InodesOK
<1> QED BY <1>2, <1>3, <1>4, <1>5

LEMMA OwnFile ==
    ASSUME SavedInv, NEW t \in Savers, NEW c, c = save[t], c.pc \in Owning
    PROVE  /\ IsCall(c) /\ PlaceInv(c) /\ OwnInv(c) /\ FileInv(c) /\ IsRecord(c) /\ c.pc # "idle"
           /\ InodesOK /\ c.id \in 1..Len(inode) /\ inode[c.id] \in Inodes /\ c.id # 0
           /\ \A u \in Savers \ {t} : save[u].id # c.id
<1>1. CallInv(c) /\ InodesOK
  BY Zenon DEF SavedInv, CallsInv
<1>2. c.pc # "idle"
  BY DEF Owning
<1>3. IsCall(c) /\ PlaceInv(c) /\ OwnInv(c) /\ FileInv(c) /\ IsRecord(c)
  BY <1>1, Zenon DEF CallInv, IsCall, IsRecord
<1>4. c.id # 0 /\ c.id \in Nat /\ c.id <= Len(inode) /\ Len(inode) \in Nat
  BY <1>1, <1>3, InodeIs, Zenon DEF OwnInv, Owns, IsCall
<1>5. c.id \in 1..Len(inode)
  BY <1>4, Ordered, Zenon
<1>6. inode[c.id] \in Inodes
  BY <1>1, <1>5, InodeIs
<1>7. \A u \in Savers \ {t} : save[u].id # c.id
  BY <1>4, Zenon DEF SavedInv, CallsInv
<1> QED BY <1>1, <1>2, <1>3, <1>4, <1>5, <1>6, <1>7, Zenon

\* A step of the owner of a file that changes no entry.
LEMMA FileStep ==
    ASSUME SavedInv, NEW t \in Savers, NEW c, c = save[t], c.pc \in Owning,
           NEW s, save' = [save EXCEPT ![t] = s],
           env' = env, asked' = asked, paths' = paths, acked' = acked, node' = node, maybe' = maybe,
           NEW r \in Inodes, inode' = [inode EXCEPT ![c.id] = r],
           Whole(c.id) => r.synced /\ r.len = r.size, inode[c.id].ord <= r.ord,
           s = Call(s.pc, c.rel, c.fd, c.pending, c.rest, c.try, c.size, c.id, c.temporary),
           s.pc \in Owning, FileInv(s)'
    PROVE  SavedInv'
<1>1. /\ IsCall(c) /\ PlaceInv(c) /\ OwnInv(c) /\ c.id \in 1..Len(inode) /\ InodesOK
      /\ \A u \in Savers \ {t} : save[u].id # c.id
  BY OwnFile
<1>2. /\ InodesOK' /\ Grows /\ Len(inode)' = Len(inode)
      /\ \A i \in 1..Len(inode) : i # c.id => inode'[i] = inode[i]
  BY <1>1, EditFile
<1>3. DiskInv' /\ AckInv'
  BY <1>1, <1>2, DiskStays, AckStays DEF SavedInv
<1>4. \A p : Entry(p)' = Entry(p)
  BY DiskSame
<1>5. /\ s.rel = c.rel /\ s.fd = c.fd /\ s.pending = c.pending /\ s.id = c.id /\ s.temporary = c.temporary
  <2>1. PICK pc : pc = s.pc
    OBVIOUS
  <2>2. s = Call(pc, c.rel, c.fd, c.pending, c.rest, c.try, c.size, c.id, c.temporary)
    BY <2>1, Zenon
  <2> QED BY <2>2, CallIsRecord
<1>6. s.pc \in Arrived /\ s.pc \notin {"idle", "walk", "temp", "syncdir"} /\ c.pc \in Arrived /\ c.pc # "idle"
  BY DEF Owning, Arrived
<1>7. IsCall(s)
  <2>1. /\ c.fd \in Seq(PathParts) /\ c.pending \in PathParts /\ c.rest \in Seq(PathParts)
        /\ c.try \in Nat \ {0} /\ c.size \in Nat /\ c.id \in Nat
    BY <1>1, Zenon DEF IsCall
  <2>2. s.pc # "idle"
    BY <1>6
  <2>3. IsCall(Call(s.pc, c.rel, c.fd, c.pending, c.rest, c.try, c.size, c.id, c.temporary))
    BY <2>1, <2>2, IsCallIs
  <2> QED BY <2>3, Zenon
<1>8. PlaceInv(s)
  BY <1>1, <1>5, <1>6, Zenon DEF PlaceInv, Name
<1>9. OwnInv(s)'
  <2>1. Name(s, s.temporary) = Name(c, c.temporary)
    BY <1>5, Zenon DEF Name
  <2>2. s.id <= Len(inode)'
    BY <1>1, <1>2, <1>5, Zenon DEF OwnInv
  <2>3. Owns(c) /\ Owns(s) /\ s.temporary \in Temps
    BY <1>1, <1>5, Zenon DEF OwnInv, Owns
  <2>4. Entry(Name(s, s.temporary))' = File(s.id)
    BY <1>1, <1>4, <1>5, <2>1, <2>3, Zenon DEF OwnInv
  <2> QED BY <1>6, <2>2, <2>3, <2>4, Zenon DEF OwnInv, Owns, Temps, Owning, File
<1>10. CallInv(s)'
  <2>1. IsCall(s)' /\ PlaceInv(s)'
    BY <1>7, <1>8, PlaceKept, Zenon DEF IsCall, NoCall, Unset
  <2> QED BY <1>9, <2>1, Zenon DEF CallInv
<1>11. ASSUME NEW u \in Savers \ {t}, NEW d, d = save[u] PROVE LeftAlone(d)
  <2>1. CallInv(d) /\ d.id # c.id
    BY <1>1, <1>11, Zenon DEF SavedInv, CallsInv
  <2> QED BY <1>2, <1>4, <2>1, FilesApart, Zenon
<1>12. s.id # 0 => \A u \in Savers \ {t} : save[u].id # s.id
  BY <1>1, <1>5, Zenon
<1> QED BY <1>2, <1>3, <1>10, <1>11, <1>12, CallStep, Zenon

LEMMA WriteAllKeeps ==
    ASSUME SavedInv, NEW t \in Savers, WriteAll(t)
    PROVE  SavedInv'
<1>0. PICK c : c = save[t]
  OBVIOUS
<1>1. /\ env' = env /\ asked' = asked /\ paths' = paths /\ acked' = acked
      /\ node' = node /\ maybe' = maybe /\ c.pc = "write"
  BY <1>0, Zenon DEF WriteAll
<1>2. /\ "write" \in Owning /\ "sync" \in Owning
      /\ "sync" \notin {"write", "rename"} /\ "write" \notin {"sync", "rename"}
  BY DEF Owning
<1>3. c.pc \in Owning
  BY <1>1, <1>2
<1>4. /\ FileInv(c) /\ IsRecord(c) /\ c.id \in 1..Len(inode) /\ inode[c.id] \in Inodes
  BY <1>0, <1>3, OwnFile
<1>5. inode[c.id].size = c.size
  BY <1>1, <1>4, Zenon DEF FileInv
<1>6. PICK q : q = inode[c.id]
  OBVIOUS
<1>7. q \in Inodes /\ q.len \in Nat /\ q.size \in Nat /\ q.ord \in Nat /\ q.size = c.size
  BY <1>4, <1>5, <1>6 DEF Inodes
<1>8. InodesOK /\ DOMAIN inode = 1..Len(inode)
  BY InodeIs DEF SavedInv
<1>9. CASE q.len = c.size
  <2>1. PICK s : s = [c EXCEPT !.pc = "sync"]
    OBVIOUS
  <2>2. save' = [save EXCEPT ![t] = s] /\ inode' = inode
    BY <1>0, <1>6, <1>9, <2>1, Zenon DEF WriteAll, Set
  <2>3. s = Call("sync", c.rel, c.fd, c.pending, c.rest, c.try, c.size, c.id, c.temporary)
    BY <1>4, <2>1, CallEdits, Zenon
  <2>4. s.pc = "sync" /\ s.id = c.id
    BY <2>3, CallIsRecord
  <2>5. inode' = [inode EXCEPT ![c.id] = q]
    BY <1>4, <1>6, <1>8, <2>2 DEF InodesOK
  <2>6. FileInv(s)'
    BY <1>2, <1>6, <1>7, <1>9, <2>2, <2>4, Zenon DEF FileInv
  <2>7. s = Call(s.pc, c.rel, c.fd, c.pending, c.rest, c.try, c.size, c.id, c.temporary) /\ s.pc \in Owning
    BY <1>2, <2>3, <2>4, Zenon
  <2>8. Whole(c.id) => q.synced /\ q.len = q.size
    BY <1>6, Zenon DEF Whole
  <2>9. inode[c.id].ord <= q.ord
    BY <1>6, <1>7
  <2> QED BY <1>0, <1>1, <1>3, <1>7, <2>2, <2>5, <2>6, <2>7, <2>8, <2>9, FileStep, Zenon
<1>10. CASE q.len # c.size
  <2>1. PICK n \in (q.len + 1)..c.size : inode' = [inode EXCEPT ![c.id].len = n]
    BY <1>0, <1>6, <1>10, Zenon DEF WriteAll
  <2>2. PICK r : r = [q EXCEPT !.len = n]
    OBVIOUS
  <2>3. n \in Nat
    BY <1>7, <2>1
  <2>4. r \in Inodes /\ r.ord = q.ord /\ r.size = q.size
    BY <1>7, <2>2, <2>3 DEF Inodes
  <2>5. inode' = [inode EXCEPT ![c.id] = r]
    BY <1>6, <2>1, <2>2
  <2>6. save' = [save EXCEPT ![t] = c]
    <3>1. save' = save
      BY <1>0, <1>6, <1>10, Zenon DEF WriteAll
    <3>2. save = [u \in Savers |-> save[u]]
      BY Zenon DEF SavedInv, CallsInv
    <3> QED BY <1>0, <3>1, <3>2
  <2>7. c = Call(c.pc, c.rel, c.fd, c.pending, c.rest, c.try, c.size, c.id, c.temporary)
    BY <1>4, Zenon DEF IsRecord, Call
  <2>8. FileInv(c)'
    <3>1. inode'[c.id] = r
      BY <1>4, <1>8, <2>5
    <3> QED BY <1>1, <1>2, <1>7, <2>4, <3>1, Zenon DEF FileInv
  <2>9. ~Whole(c.id)
    BY <1>6, <1>7, <1>10, Zenon DEF Whole
  <2>10. inode[c.id].ord <= r.ord
    BY <1>6, <1>7, <2>4
  <2> QED BY <1>0, <1>1, <1>3, <2>4, <2>5, <2>6, <2>7, <2>8, <2>9, <2>10, FileStep, Zenon
<1> QED BY <1>9, <1>10

LEMMA SyncKeeps ==
    ASSUME SavedInv, NEW t \in Savers, Sync(t)
    PROVE  SavedInv'
<1>0. PICK c : c = save[t]
  OBVIOUS
<1>1. /\ env' = env /\ asked' = asked /\ paths' = paths /\ acked' = acked
      /\ node' = node /\ maybe' = maybe /\ c.pc = "sync"
  BY <1>0, Zenon DEF Sync
<1>2. "sync" \in Owning /\ "rename" \in Owning /\ "rename" \notin {"write"} /\ "sync" \in {"sync", "rename"}
  BY DEF Owning
<1>3. c.pc \in Owning
  BY <1>1, <1>2
<1>4. /\ FileInv(c) /\ IsRecord(c) /\ c.id \in 1..Len(inode) /\ inode[c.id] \in Inodes
  BY <1>0, <1>3, OwnFile
<1>5. PICK q, r : q = inode[c.id] /\ r = [q EXCEPT !.synced = TRUE]
  OBVIOUS
<1>6. q \in Inodes /\ q.len = q.size
  BY <1>1, <1>2, <1>4, <1>5, Zenon DEF FileInv
<1>7. r \in Inodes /\ r.ord = q.ord /\ r.size = q.size /\ r.len = q.len /\ r.synced /\ q.ord \in Nat
  BY <1>5, <1>6 DEF Inodes
<1>8. inode' = [inode EXCEPT ![c.id] = r]
  <2>1. inode' = [inode EXCEPT ![c.id].synced = TRUE]
    BY <1>0, Zenon DEF Sync
  <2> QED BY <1>5, <2>1
<1>9. PICK s : s = [c EXCEPT !.pc = "rename"]
  OBVIOUS
<1>10. save' = [save EXCEPT ![t] = s]
  BY <1>0, <1>9, Zenon DEF Sync, Set
<1>11. s = Call("rename", c.rel, c.fd, c.pending, c.rest, c.try, c.size, c.id, c.temporary)
  BY <1>4, <1>9, CallEdits, Zenon
<1>12. s.pc = "rename" /\ s.id = c.id
  BY <1>11, CallIsRecord
<1>13. FileInv(s)'
  <2>1. inode'[c.id] = r
    <3>1. DOMAIN inode = 1..Len(inode)
      BY InodeIs DEF SavedInv
    <3> QED BY <1>4, <1>8, <3>1
  <2> QED BY <1>2, <1>6, <1>7, <1>12, <2>1, Zenon DEF FileInv
<1>14. s = Call(s.pc, c.rel, c.fd, c.pending, c.rest, c.try, c.size, c.id, c.temporary) /\ s.pc \in Owning
  BY <1>2, <1>11, <1>12, Zenon
<1>15. Whole(c.id) => r.synced /\ r.len = r.size
  BY <1>6, <1>7, Zenon
<1>16. inode[c.id].ord <= r.ord
  BY <1>5, <1>7
<1> QED BY <1>0, <1>1, <1>3, <1>7, <1>8, <1>10, <1>13, <1>14, <1>15, <1>16, FileStep, Zenon

\* The names of two calls' entries: a temporary's is no file's, and the
\* temporaries of two calls are two files.
LEMMA NamesApart ==
    ASSUME SavedInv, NEW c, CallInv(c), Owns(c), NEW d, CallInv(d), d.pc # "idle",
           NEW x, x \notin Temps \/ (x = d.temporary /\ Owns(d) /\ d.id # c.id),
           x \in PathParts
    PROVE  Name(d, x) # Name(c, c.temporary)
<1>1. c.temporary \in Temps /\ Entry(Name(c, c.temporary)) = File(c.id) /\ c.fd \in Seq(PathParts) /\ d.fd \in Seq(PathParts)
  BY Zenon DEF CallInv, OwnInv, Owns, IsCall
<1>2. Last(Name(c, c.temporary)) = c.temporary
  <2>1. c.temporary \in PathParts
    BY <1>1, TempNameIs
  <2> QED BY <1>1, <2>1, EntryOf, Zenon DEF Name
<1>3. Last(Name(d, x)) = x
  BY <1>1, EntryOf, ZenonT(60) DEF Name
<1>4. CASE x \notin Temps
  BY <1>1, <1>2, <1>3, <1>4, Zenon
<1>5. CASE x = d.temporary /\ Owns(d) /\ d.id # c.id
  <2>1. Entry(Name(d, x)) = File(d.id)
    BY <1>5, Zenon DEF CallInv, OwnInv
  <2>2. File(d.id) # File(c.id)
    BY <1>5, Kinds, Zenon
  <2> QED BY <1>1, <2>1, <2>2, Zenon
<1> QED BY <1>4, <1>5

LEMMA CleanUpKeeps ==
    ASSUME SavedInv, StraysAlone, NEW t \in Savers, CleanUp(t)
    PROVE  SavedInv'
<1>0. PICK c, s : c = save[t] /\ s = NoCall
  OBVIOUS
<1>1. /\ env' = env /\ asked' = asked /\ paths' = paths /\ acked' = acked /\ inode' = inode
      /\ save' = [save EXCEPT ![t] = s] /\ c.pc = "done"
  BY <1>0, Zenon DEF CleanUp, Set
<1>2. InodesOK /\ InodesOK' /\ Grows /\ DiskInv /\ AckInv
  BY <1>1, GrowsSame DEF SavedInv
<1>3. CallInv(c)
  BY <1>0, Zenon DEF SavedInv, CallsInv
<1>4. CallInv(s)' /\ s.id = 0
  BY <1>0, <1>2, NoCallInv, NoCallIs, Zenon
<1>5. CASE ~(c.temporary # "" /\ Entry(Name(c, c.temporary)).k \in {"file", "link"})
  <2>1. node' = node /\ maybe' = maybe
    BY <1>0, <1>5, Zenon DEF CleanUp
  <2>2. DiskInv' /\ AckInv'
    BY <1>1, <1>2, <2>1, DiskStays, AckStays
  <2>3. ASSUME NEW u \in Savers \ {t}, NEW d, d = save[u] PROVE LeftAlone(d)
    <3>1. \A p : Entry(p)' = Entry(p)
      BY <2>1, DiskSame
    <3> QED BY <1>1, <3>1, Zenon DEF LeftAlone
  <2> QED BY <1>1, <1>2, <1>4, <2>2, <2>3, CallStep, Zenon
<1>6. CASE c.temporary # "" /\ Entry(Name(c, c.temporary)).k \in {"file", "link"}
  <2>1. PICK at, entries : at = Name(c, c.temporary) /\ entries = [p \in {at} |-> None]
    OBVIOUS
  <2>2. Put(entries)
    BY <1>0, <1>6, <2>1, Zenon DEF CleanUp
  <2>3. c.temporary \in Temps /\ c.fd \in Seq(PathParts)
    BY <1>3, <1>6, Zenon DEF CallInv, OwnInv, IsCall
  <2>4. at # <<>> /\ Last(at) = c.temporary
    <3>1. c.temporary \in PathParts
      BY <2>3, TempNameIs
    <3> QED BY <2>1, <2>3, <3>1, EntryOf, ZenonT(60) DEF Name
  <2>5. DOMAIN entries = {at} /\ entries[at] = None
    BY <2>1
  <2>6. DiskInv'
    <3>1. Sound(at, entries[at])'
      BY <2>5, Zenon DEF Sound
    <3>2. \A p \in DOMAIN entries : Sound(p, entries[p])'
      BY <2>5, <3>1
    <3>3. IsFiniteSet(DOMAIN entries) /\ <<>> \notin DOMAIN entries
      BY <2>4, <2>5, FS_Singleton
    <3> QED BY <1>1, <1>2, <2>2, <3>2, <3>3, DiskGrows
  <2>7. AckInv'
    <3>1. at \notin DOMAIN acked
      BY <1>2, <2>3, <2>4, Zenon DEF AckInv, AckedAt
    <3> QED BY <1>1, <1>2, <2>2, <2>5, <3>1, AckKept
  <2>8. \A p : p # at => Entry(p)' = Entry(p)
    <3>1. \A p : p # at => p \notin DOMAIN entries
      BY <2>5
    <3> QED BY <2>2, <3>1, PutIs, Zenon
  <2>9. ASSUME NEW u \in Savers \ {t}, NEW d, d = save[u], ~Owns(c) PROVE LeftAlone(d)
    <3>1. CallInv(d) /\ d.pc = "idle" /\ "idle" # "syncdir"
      BY <1>0, <1>1, <1>6, <2>9, Zenon DEF SavedInv, CallsInv, StraysAlone, Stray, Owns
    <3>2. ~Owns(d)
      <4>1. "idle" \notin Owning \cup {"done"}
        BY DEF Owning
      <4> QED BY <3>1, <4>1, Zenon DEF CallInv, OwnInv
    <3> QED BY <1>1, <3>1, <3>2, Zenon DEF LeftAlone
  <2>10. ASSUME NEW u \in Savers \ {t}, NEW d, d = save[u], Owns(c) PROVE LeftAlone(d)
    <3>1. CallInv(d) /\ d.id # c.id
      BY <1>0, <2>10, Zenon DEF SavedInv, CallsInv, Owns
    <3>2. Owns(d) => Name(d, d.temporary) # at
      <4>1. Owns(d) => d.temporary \in PathParts /\ d.pc # "idle"
        <5>1. Owns(d) => d.temporary \in Temps /\ d.pc \in Owning \cup {"done"}
          BY <3>1, Zenon DEF CallInv, OwnInv, Owns
        <5>2. "idle" \notin Owning \cup {"done"}
          BY DEF Owning
        <5> QED BY <5>1, <5>2, TempNameIs, Zenon
      <4> QED BY <1>3, <2>1, <2>10, <3>1, <4>1, NamesApart, Zenon
    <3>3. d.pc = "syncdir" => Name(d, d.pending) # at
      <4>1. "syncdir" # "idle"
        OBVIOUS
      <4>2. d.pc = "syncdir" => d.pending \notin Temps /\ d.pending \in PathParts
        BY <3>1, <4>1, Zenon DEF CallInv, PlaceInv, IsCall
      <4> QED BY <1>3, <2>1, <2>10, <3>1, <4>1, <4>2, NamesApart, Zenon
    <3> QED BY <1>1, <2>8, <3>2, <3>3, Zenon DEF LeftAlone
  <2> QED BY <1>1, <1>2, <1>4, <2>6, <2>7, <2>9, <2>10, CallStep, Zenon
<1> QED BY <1>5, <1>6

LEMMA RenameKeeps ==
    ASSUME SavedInv, NEW t \in Savers, Rename(t)
    PROVE  SavedInv'
<1>0. PICK c : c = save[t]
  OBVIOUS
<1>1. /\ env' = env /\ asked' = asked /\ paths' = paths /\ acked' = acked /\ c.pc = "rename"
  BY <1>0, Zenon DEF Rename
<1>2. /\ "rename" \in Owning /\ "rename" \in Arrived /\ "rename" # "idle"
      /\ "syncdir" \in Arrived /\ "syncdir" \notin Owning \cup {"idle", "walk", "temp", "done", "write", "sync", "rename"}
  BY DEF Owning, Arrived
<1>3. c.pc \in Owning
  BY <1>1, <1>2
<1>4. /\ IsCall(c) /\ PlaceInv(c) /\ OwnInv(c) /\ FileInv(c) /\ IsRecord(c)
      /\ InodesOK /\ c.id \in 1..Len(inode) /\ inode[c.id] \in Inodes /\ c.id # 0
      /\ \A u \in Savers \ {t} : save[u].id # c.id
  BY <1>0, <1>3, OwnFile
<1>5. CallInv(c) /\ DiskInv /\ AckInv /\ EnvInv
  BY <1>0, Zenon DEF SavedInv, CallsInv
<1>6. /\ c.fd \in Seq(PathParts) /\ c.pending \in PathParts /\ c.rest \in Seq(PathParts)
      /\ c.try \in Nat \ {0} /\ c.size \in Nat /\ c.id \in Nat
  BY <1>4, Zenon DEF IsCall
<1>7. /\ paths.pc = "up" /\ Below(c.fd) /\ c.pending \notin Temps /\ c.pending # ".."
      /\ c.pending # "" /\ DataPath(c.rel) = Name(c, c.pending) /\ Owns(c) /\ c.temporary \in Temps
      /\ Entry(Name(c, c.temporary)) = File(c.id) /\ File(c.id).id = c.id
  BY <1>1, <1>2, <1>4, Kinds, Zenon DEF PlaceInv, OwnInv, Owns
<1>8. PICK at, tmp, n, q, r, s, entries :
        /\ at = Name(c, c.pending) /\ tmp = Name(c, c.temporary) /\ n = LastOrder + 1
        /\ q = inode[c.id] /\ r = [q EXCEPT !.ord = n]
        /\ s = [c EXCEPT !.pc = "syncdir", !.temporary = ""]
        /\ entries = [p \in {tmp, at} |-> IF p = at THEN File(c.id) ELSE None]
  BY Zenon
<1>9. /\ save' = [save EXCEPT ![t] = s] /\ Put(entries)
      /\ inode' = [inode EXCEPT ![c.id].ord = n]
  BY <1>0, <1>7, <1>8, Zenon DEF Rename, Set
<1>10. at # tmp /\ at # <<>> /\ tmp # <<>> /\ Last(at) = c.pending /\ Last(tmp) = c.temporary /\ Below(at)
  <2>1. c.temporary \in PathParts
    BY <1>7, TempNameIs
  <2>2. at = Append(c.fd, c.pending) /\ tmp = Append(c.fd, c.temporary)
    BY <1>8, Zenon DEF Name
  <2>3. \A x \in PathParts : Append(c.fd, x) # <<>> /\ Last(Append(c.fd, x)) = x
    <3>1. c.fd \in Seq(PathParts)
      BY <1>6
    <3> QED BY <3>1, EntryOf, Zenon
  <2>4. Below(at)
    BY <1>5, <1>6, <1>7, <2>2, BelowAppend
  <2>5. at # <<>> /\ Last(at) = c.pending /\ tmp # <<>> /\ Last(tmp) = c.temporary
    BY <1>6, <2>1, <2>2, <2>3, Zenon
  <2> QED BY <1>7, <2>4, <2>5, Zenon
<1>11. DOMAIN entries = {tmp, at} /\ entries[at] = File(c.id) /\ entries[tmp] = None
  BY <1>8, <1>10
<1>12. /\ Entry(at)' = File(c.id)
       /\ \A p : p # at /\ p # tmp => Entry(p)' = Entry(p)
  <2>1. at \in DOMAIN entries /\ \A p : p # at /\ p # tmp => p \notin DOMAIN entries
    BY <1>11
  <2> QED BY <1>9, <1>10, <1>11, <2>1, PutIs, Zenon
<1>13. LastOrder \in Nat /\ n \in Nat /\ \A i \in 1..Len(inode) : inode[i].ord \in Nat /\ inode[i].ord <= LastOrder /\ inode[i].ord <= n
  <2>1. LastOrder \in Nat /\ \A i \in 1..Len(inode) : inode[i].ord <= LastOrder
    BY <1>4, LastOrderIs DEF InodesOK
  <2>2. \A i \in 1..Len(inode) : inode[i].ord \in Nat
    BY <1>4, InodeIs
  <2> QED BY <1>8, <2>1, <2>2
<1>14. r \in Inodes /\ r.ord = n /\ r.synced = q.synced /\ r.len = q.len /\ r.size = q.size /\ q.synced /\ q.len = q.size
  <2>1. q.synced /\ q.len = q.size
    BY <1>1, <1>4, <1>8, Zenon DEF FileInv
  <2> QED BY <1>4, <1>8, <1>13, <2>1 DEF Inodes
<1>15. inode' = [inode EXCEPT ![c.id] = r]
  BY <1>8, <1>9
<1>16. /\ InodesOK' /\ Grows /\ Len(inode)' = Len(inode) /\ inode'[c.id] = r
       /\ \A i \in 1..Len(inode) : i # c.id => inode'[i] = inode[i]
  BY <1>4, <1>13, <1>14, <1>15, EditFile
<1>17. DiskInv'
  <2>1. Below(at)'
    BY <1>1, <1>10, Zenon DEF Below, DataRoot, NoUp
  <2>2. Whole(c.id)'
    BY <1>14, <1>16, Zenon DEF Whole
  <2>3. PICK v : v = File(c.id)
    OBVIOUS
  <2>4. Sound(at, v)'
    <3>1. HoldsFile(at, v)'
      <4>1. c.id \in 1..Len(inode)'
        BY <1>4, <1>16
      <4> QED BY <2>1, <2>2, <2>3, <4>1, Zenon DEF HoldsFile, File
    <3> QED BY <3>1, Zenon DEF Sound
  <2>5. PICK w : w = None
    OBVIOUS
  <2>6. Sound(tmp, w)'
    BY <2>5, Zenon DEF Sound
  <2>7. \A p \in DOMAIN entries : Sound(p, entries[p])'
    BY <1>11, <2>3, <2>4, <2>5, <2>6
  <2>8. IsFiniteSet(DOMAIN entries) /\ <<>> \notin DOMAIN entries
    <3>1. IsFiniteSet({tmp, at})
      <4>1. IsFiniteSet({tmp}) /\ IsFiniteSet({at})
        BY FS_Singleton
      <4>2. IsFiniteSet({tmp} \cup {at})
        BY <4>1, FS_Union
      <4>3. {tmp, at} = {tmp} \cup {at}
        OBVIOUS
      <4> QED BY <4>2, <4>3, Zenon
    <3> QED BY <1>10, <1>11, <3>1
  <2> QED BY <1>1, <1>4, <1>5, <1>9, <1>16, <2>7, <2>8, DiskGrows
<1>18. AckInv'
  <2>1. tmp \notin DOMAIN acked
    BY <1>5, <1>7, <1>10, Zenon DEF AckInv, AckedAt
  <2>2. ASSUME at \in DOMAIN acked PROVE AsNew(entries[at], acked[at])'
    <3>1. PICK m, v : m = acked[at] /\ v = Entry(at)
      OBVIOUS
    <3>2. m \in Nat /\ AsNew(v, m)
      BY <1>5, <2>2, <3>1, Zenon DEF AckInv, AckedAt, DiskInv
    <3>3. PICK i \in 1..Len(inode) : inode[i].ord >= m
      BY <3>2, Zenon DEF AsNew
    <3>4. n >= m
      BY <1>13, <3>2, <3>3
    <3>5. c.id \in 1..Len(inode)' /\ inode'[c.id].ord >= m
      BY <1>4, <1>14, <1>16, <3>4
    <3>6. entries[at] = File(c.id) /\ acked[at]' = m
      BY <1>1, <1>11, <3>1
    <3> QED BY <3>5, <3>6, Zenon DEF AsNew, File
  <2>3. \A p \in DOMAIN entries \cap DOMAIN acked : AsNew(entries[p], acked[p])'
    <3> SUFFICES ASSUME NEW p \in DOMAIN entries \cap DOMAIN acked PROVE AsNew(entries[p], acked[p])'
      OBVIOUS
    <3>1. p = at /\ at \in DOMAIN acked
      BY <1>11, <2>1
    <3> QED BY <2>2, <3>1
  <2> QED BY <1>1, <1>4, <1>5, <1>9, <1>16, <2>3, AckKept
<1>19. PICK none : none = ""
  OBVIOUS
<1>20. s = Call("syncdir", c.rel, c.fd, c.pending, c.rest, c.try, c.size, c.id, none)
  <2>1. s = Renamed(c, "syncdir", none)
    BY <1>8, <1>19, Zenon DEF Renamed
  <2> QED BY <1>4, <2>1, RenamedIs, Zenon
<1>21. /\ s.pc = "syncdir" /\ s.rel = c.rel /\ s.fd = c.fd /\ s.pending = c.pending
       /\ s.id = c.id /\ s.temporary = none
  BY <1>20, CallIsRecord
<1>22. CallInv(s)'
  <2>1. IsCall(s)
    BY <1>2, <1>6, <1>20, IsCallIs
  <2>2. PlaceInv(s)
    BY <1>2, <1>7, <1>21, Zenon DEF PlaceInv, Name
  <2>3. IsCall(s)' /\ PlaceInv(s)'
    BY <1>1, <2>1, <2>2, PlaceKept, Zenon DEF IsCall, NoCall, Unset
  <2>4. Name(s, s.pending) = at
    BY <1>8, <1>21, Zenon DEF Name
  <2>5. AsNew(Entry(Name(s, s.pending)), inode[s.id].ord)'
    <3>1. c.id \in 1..Len(inode)' /\ inode'[c.id].ord >= inode'[c.id].ord
      BY <1>4, <1>13, <1>14, <1>16
    <3> QED BY <1>12, <1>21, <2>4, <3>1, Zenon DEF AsNew, File
  <2>6. s.id <= Len(inode)'
    BY <1>4, <1>16, <1>21, Zenon DEF OwnInv
  <2>7. OwnInv(s)' /\ FileInv(s)'
    <3>1. ~Owns(s)
      BY <1>19, <1>21, Zenon DEF Owns
    <3> QED BY <1>2, <1>4, <1>19, <1>21, <2>5, <2>6, <3>1, Zenon DEF OwnInv, Owns, Temps, Owning, FileInv
  <2> QED BY <2>3, <2>7, Zenon DEF CallInv
<1>23. ASSUME NEW u \in Savers \ {t}, NEW d, d = save[u] PROVE LeftAlone(d)
  <2>1. CallInv(d) /\ d.id # c.id
    BY <1>4, <1>23, Zenon DEF SavedInv, CallsInv
  <2>2. d.id \in Nat /\ d.id <= Len(inode) /\ OwnInv(d) /\ Len(inode) \in Nat
    BY <1>4, <2>1, InodeIs, Zenon DEF CallInv, OwnInv, IsCall
  <2>3. d.id # 0 => d.id \in 1..Len(inode) /\ inode'[d.id] = inode[d.id]
    BY <1>16, <2>1, <2>2, Ordered, Zenon
  <2>4. Owns(d) => Name(d, d.temporary) # tmp /\ Name(d, d.temporary) # at
    <3> SUFFICES ASSUME Owns(d) PROVE Name(d, d.temporary) # tmp /\ Name(d, d.temporary) # at
      OBVIOUS
    <3>1. d.temporary \in PathParts /\ d.pc # "idle"
      <4>1. d.temporary \in Temps /\ d.pc \in Owning \cup {"done"}
        BY <2>2, Zenon DEF OwnInv, Owns
      <4>2. "idle" \notin Owning \cup {"done"}
        BY DEF Owning
      <4> QED BY <4>1, <4>2, TempNameIs, Zenon
    <3>2. Name(d, d.temporary) # tmp
      BY <1>5, <1>7, <1>8, <2>1, <3>1, NamesApart, Zenon
    <3>3. Name(c, c.pending) # Name(d, d.temporary)
      BY <1>1, <1>2, <1>5, <1>6, <1>7, <2>1, NamesApart, Zenon
    <3> QED BY <1>8, <3>2, <3>3, Zenon
  <2>5. ASSUME d.pc = "syncdir"
        PROVE  \/ Entry(Name(d, d.pending))' = Entry(Name(d, d.pending))
               \/ AsNew(Entry(Name(d, d.pending)), inode[d.id].ord)'
    <3>1. d.pending \notin Temps /\ d.pending \in PathParts /\ d.id # 0 /\ d.pc # "idle"
      BY <1>2, <2>1, <2>5, Zenon DEF CallInv, PlaceInv, IsCall, OwnInv
    <3>2. Name(d, d.pending) # tmp
      BY <1>5, <1>7, <1>8, <2>1, <3>1, NamesApart, Zenon
    <3>3. CASE Name(d, d.pending) # at
      BY <1>12, <3>2, <3>3, Zenon
    <3>4. CASE Name(d, d.pending) = at
      <4>1. c.id \in 1..Len(inode)' /\ inode'[c.id].ord = n /\ inode'[d.id].ord <= n /\ n >= inode'[d.id].ord
        BY <1>4, <1>13, <1>14, <1>16, <2>3, <3>1
      <4>2. Entry(Name(d, d.pending))' = File(c.id)
        BY <1>12, <3>4, Zenon
      <4> QED BY <4>1, <4>2, Zenon DEF AsNew, File
    <3> QED BY <3>3, <3>4
  <2> QED BY <1>12, <2>3, <2>4, <2>5, Zenon DEF LeftAlone
<1>24. s.id # 0 => \A u \in Savers \ {t} : save[u].id # s.id
  BY <1>4, <1>21, Zenon
<1> QED BY <1>1, <1>9, <1>16, <1>17, <1>18, <1>22, <1>23, <1>24, CallStep, Zenon

LEMMA SyncDirKeeps ==
    ASSUME SavedInv, NEW t \in Savers, SyncDir(t)
    PROVE  SavedInv'
<1>0. PICK c, s : c = save[t] /\ s = NoCall
  OBVIOUS
<1>1. /\ env' = env /\ asked' = asked /\ paths' = paths /\ inode' = inode /\ node' = node
      /\ save' = [save EXCEPT ![t] = s] /\ c.pc = "syncdir"
      /\ maybe' = Without(maybe, Children(c.fd, DOMAIN maybe))
  BY <1>0, Zenon DEF SyncDir, Return, Set
<1>2. InodesOK /\ InodesOK' /\ Grows /\ DiskInv /\ AckInv /\ CallInv(c)
  BY <1>0, <1>1, GrowsSame DEF SavedInv, CallsInv
<1>3. CallInv(s)' /\ s.id = 0
  BY <1>0, <1>2, NoCallInv, NoCallIs, Zenon
<1>4. "syncdir" # "idle" /\ "syncdir" \in Arrived
  BY DEF Arrived
<1>5. /\ c.fd \in Seq(PathParts) /\ c.pending \in PathParts /\ c.pending \notin Temps /\ c.id \in Nat
      /\ c.id # 0 /\ c.id <= Len(inode)
      /\ DataPath(c.rel) = Name(c, c.pending) /\ AsNew(Entry(Name(c, c.pending)), inode[c.id].ord)
  BY <1>1, <1>2, <1>4, Zenon DEF CallInv, IsCall, PlaceInv, OwnInv
<1>6. PICK at, n, synced : /\ at = Name(c, c.pending) /\ n = inode[c.id].ord
                           /\ synced = Children(c.fd, DOMAIN maybe)
  OBVIOUS
<1>7. n \in Nat /\ AsNew(Entry(at), n)
  <2>1. Len(inode) \in Nat
    BY <1>2, InodeIs
  <2>2. c.id \in 1..Len(inode)
    BY <1>5, <2>1
  <2> QED BY <1>2, <1>5, <1>6, <2>2, InodeIs
<1>8. Last(at) = c.pending /\ Len(at) = Len(c.fd) + 1 /\ IsPrefix(c.fd, at)
  BY <1>5, <1>6, EntryOf, Zenon DEF Name
<1>9. DOMAIN maybe' = DOMAIN maybe \ synced /\ \A p \in DOMAIN maybe \ synced : maybe'[p] = maybe[p]
  BY <1>1, <1>6 DEF Without
<1>10. \A p : Entry(p)' = Entry(p)
  BY <1>1, Zenon DEF Entry, Dir, None
<1>11. ASSUME NEW p PROVE OnDisk(p)' \subseteq OnDisk(p) /\ Entry(p)' \in OnDisk(p)'
  <2>1. Entry(p) \in OnDisk(p)
    BY <1>2, Zenon DEF DiskInv
  <2>2. CASE p \in DOMAIN maybe'
    <3>1. OnDisk(p)' = OnDisk(p)
      BY <1>9, <2>2 DEF OnDisk
    <3> QED BY <1>10, <2>1, <3>1, Zenon
  <2>3. CASE p \notin DOMAIN maybe'
    <3>1. OnDisk(p)' = {Entry(p)}
      BY <1>10, <2>3, Zenon DEF OnDisk
    <3> QED BY <1>10, <2>1, <3>1, Zenon
  <2> QED BY <2>2, <2>3
<1>12. OnDisk(at)' = {Entry(at)}
  <2>1. at \notin DOMAIN maybe'
    BY <1>6, <1>8, <1>9 DEF Children
  <2> QED BY <1>10, <2>1, Zenon DEF OnDisk
<1>13. DiskInv'
  <2>1. IsFiniteSet(DOMAIN maybe')
    <3>1. DOMAIN maybe' \subseteq DOMAIN maybe
      BY <1>9
    <3> QED BY <1>2, <3>1, FS_Subset DEF DiskInv
  <2>2. ASSUME NEW p, NEW v \in OnDisk(p)' PROVE Sound(p, v)'
    <3>1. PICK w : w = v
      OBVIOUS
    <3>2. w \in OnDisk(p)
      BY <1>11, <2>2, <3>1, Zenon
    <3>3. Sound(p, w)
      BY <1>2, <3>2, Zenon DEF DiskInv
    <3>4. Sound(p, w)'
      BY <1>1, <1>2, <3>3, SoundKept
    <3> QED BY <3>1, <3>4, Zenon
  <2> QED BY <1>11, <2>1, <2>2, Zenon DEF DiskInv
<1>14. AckInv'
  <2>1. acked' = [q \in DOMAIN acked \cup {at} |->
                    IF q = at /\ (at \notin DOMAIN acked \/ acked[at] < n) THEN n ELSE acked[q]]
    BY <1>0, <1>5, <1>6, Zenon DEF SyncDir, Return
  <2>2. DOMAIN acked' = DOMAIN acked \cup {at}
    BY <2>1
  <2> SUFFICES ASSUME NEW p \in DOMAIN acked' PROVE AckedAt(p)'
    BY Zenon DEF AckInv
  <2>3. PICK m : m = acked'[p]
    OBVIOUS
  <2>4. CASE p = at /\ m = n
    <3>1. PICK v : v = Entry(at)
      OBVIOUS
    <3>2. AsNew(v, n)'
      BY <1>2, <1>7, <3>1, AsNewKept
    <3>3. \A w \in OnDisk(p)' : AsNew(w, n)'
      BY <1>12, <2>4, <3>1, <3>2
    <3>4. Last(p) \notin Temps
      BY <1>5, <1>8, <2>4, Zenon
    <3> QED BY <1>7, <2>3, <2>4, <3>3, <3>4, Zenon DEF AckedAt, Temps
  <2>5. CASE ~(p = at /\ m = n)
    <3>1. p \in DOMAIN acked /\ m = acked[p]
      BY <2>1, <2>2, <2>3, <2>5
    <3>2. m \in Nat /\ Last(p) \notin Temps /\ \A v \in OnDisk(p) : AsNew(v, m)
      BY <1>2, <3>1, Zenon DEF AckInv, AckedAt
    <3>3. \A v \in OnDisk(p) : AsNew(v, m)'
      BY <1>2, <3>2, AsNewKept
    <3>4. \A v \in OnDisk(p)' : AsNew(v, m)'
      BY <1>11, <3>3
    <3> QED BY <2>3, <3>2, <3>4, Zenon DEF AckedAt, Temps
  <2> QED BY <2>4, <2>5
<1>15. ASSUME NEW u \in Savers \ {t}, NEW d, d = save[u] PROVE LeftAlone(d)
  BY <1>1, <1>10, Zenon DEF LeftAlone
<1> QED BY <1>1, <1>2, <1>3, <1>13, <1>14, <1>15, CallStep, Zenon

\* What is left of the entries when the power fails: of each a value that was
\* on disk, or nothing.
LEMMA PowerLossLeaves ==
    ASSUME SavedInv, PowerLoss, NEW p
    PROVE  Entry(p)' = None \/ Entry(p)' \in OnDisk(p)
<1>1. PICK left \in Survivals :
        LET all == [q \in DOMAIN left \cup DOMAIN node |-> IF q \in DOMAIN left THEN left[q] ELSE node[q]]
            Kept(q) == /\ all[q] # None
                       /\ \A n \in 1..(Len(q) - 1) :
                            LET a == SubSeq(q, 1, n) IN a \in DOMAIN all => all[a] = Dir
        IN node' = [q \in {x \in DOMAIN all : Kept(x)} |-> all[q]]
  BY Zenon DEF PowerLoss
<1> DEFINE all == [q \in DOMAIN left \cup DOMAIN node |-> IF q \in DOMAIN left THEN left[q] ELSE node[q]]
           Kept(q) == /\ all[q] # None
                      /\ \A n \in 1..(Len(q) - 1) :
                           LET a == SubSeq(q, 1, n) IN a \in DOMAIN all => all[a] = Dir
           there == {x \in DOMAIN all : Kept(x)}
<1>2. node' = [q \in there |-> all[q]]
  BY <1>1, Zenon
<1>3. there \subseteq DOMAIN all
  BY Zenon
<1> HIDE DEF there
<1>4. DOMAIN all = DOMAIN left \cup DOMAIN node
      /\ \A q \in DOMAIN all : all[q] = IF q \in DOMAIN left THEN left[q] ELSE node[q]
  BY Zenon
<1> HIDE DEF all
<1>5. DOMAIN node' = there /\ \A q \in there : node'[q] = all[q]
  BY <1>2
<1>6. \A q \in DOMAIN left : q \in DOMAIN maybe /\ left[q] \in maybe[q]
  BY SurvivalsChoose DEF SavedInv, DiskInv
<1>7. Entry(p) \in OnDisk(p)
  BY Zenon DEF SavedInv, DiskInv
<1>8. CASE p = <<>>
  BY <1>7, <1>8 DEF Entry
<1>9. CASE p # <<>> /\ p \notin there
  BY <1>5, <1>9 DEF Entry
<1>10. CASE p # <<>> /\ p \in there
  <2>1. Entry(p)' = all[p] /\ p \in DOMAIN all
    BY <1>3, <1>5, <1>10 DEF Entry
  <2>2. CASE p \in DOMAIN left
    <3>1. all[p] = left[p]
      BY <1>4, <2>1, <2>2
    <3>2. all[p] \in OnDisk(p)
      BY <1>6, <2>2, <3>1, Zenon DEF OnDisk
    <3> QED BY <2>1, <3>2, Zenon
  <2>3. CASE p \notin DOMAIN left
    <3>1. p \in DOMAIN node /\ all[p] = node[p]
      BY <1>4, <2>1, <2>3
    <3>2. Entry(p) = all[p]
      BY <1>10, <3>1, Zenon DEF Entry
    <3> QED BY <1>7, <2>1, <3>2, Zenon
  <2> QED BY <2>2, <2>3
<1> QED BY <1>8, <1>9, <1>10

LEMMA PowerLossKeeps == ASSUME SavedInv, PowerLoss PROVE SavedInv'
<1>1. /\ env' = env /\ asked' = asked /\ maybe' = <<>> /\ paths' = Down
      /\ save' = [t \in Savers |-> NoCall]
      /\ inode' = [i \in DOMAIN inode |-> IF inode[i].synced THEN inode[i] ELSE [inode[i] EXCEPT !.len = 0]]
      /\ acked' = [p \in {q \in DOMAIN acked : Entry(q)' # None} |-> acked[p]]
  BY Zenon DEF PowerLoss
<1>2. InodesOK /\ DiskInv /\ AckInv /\ Len(inode) \in Nat /\ DOMAIN inode = 1..Len(inode)
  BY InodeIs DEF SavedInv
<1>3. ASSUME NEW i \in 1..Len(inode)
      PROVE  /\ inode'[i] \in Inodes /\ inode'[i].ord = inode[i].ord
             /\ inode[i].synced => inode'[i] = inode[i]
  <2>1. inode[i] \in Inodes
    BY <1>2, InodeIs
  <2>2. inode'[i] = IF inode[i].synced THEN inode[i] ELSE [inode[i] EXCEPT !.len = 0]
    BY <1>1, <1>2
  <2>3. [inode[i] EXCEPT !.len = 0] \in Inodes /\ [inode[i] EXCEPT !.len = 0].ord = inode[i].ord
    BY <2>1 DEF Inodes
  <2> QED BY <2>1, <2>2, <2>3, Zenon
<1>4. InodesOK' /\ Len(inode)' = Len(inode)
  <2>1. inode' = [i \in 1..Len(inode) |-> inode'[i]]
    BY <1>1, <1>2
  <2>2. inode' \in [1..Len(inode) -> Inodes]
    BY <1>3, <2>1
  <2>3. inode' \in Seq(Inodes) /\ Len(inode') = Len(inode)
    BY <1>2, <2>2, SeqDef
  <2> QED BY <2>3, Zenon DEF InodesOK
<1>5. Grows
  <2>1. \A i \in 1..Len(inode) : (Whole(i) => Whole(i)') /\ inode[i].ord <= inode[i].ord'
    BY <1>2, <1>3, InodeIs DEF Whole
  <2> QED BY <1>2, <1>4, <2>1 DEF Grows
<1>6. DOMAIN maybe' = {}
  BY <1>1
<1>7. \A p : OnDisk(p)' = {Entry(p)'}
  BY <1>6, Zenon DEF OnDisk
<1>8. DiskInv'
  <2>1. IsFiniteSet(DOMAIN maybe')
    BY <1>6, FS_EmptySet
  <2>2. ASSUME NEW p PROVE Sound(p, Entry(p))'
    <3>1. PICK v : v = Entry(p)'
      OBVIOUS
    <3>2. Sound(p, v)'
      <4>1. CASE v = None
        BY <4>1, Zenon DEF Sound
      <4>2. CASE v \in OnDisk(p)
        <5>1. Sound(p, v)
          BY <1>2, <4>2, Zenon DEF DiskInv
        <5> QED BY <1>1, <1>2, <1>4, <1>5, <5>1, SoundKept
      <4> QED BY <3>1, <4>1, <4>2, PowerLossLeaves
    <3> QED BY <3>1, <3>2, Zenon
  <2> QED BY <1>7, <2>1, <2>2 DEF DiskInv
<1>9. AckInv'
  <2>1. DOMAIN acked' = {q \in DOMAIN acked : Entry(q)' # None} /\ \A p \in DOMAIN acked' : acked'[p] = acked[p]
    BY <1>1
  <2> SUFFICES ASSUME NEW p \in DOMAIN acked' PROVE AckedAt(p)'
    BY Zenon DEF AckInv
  <2>2. PICK m, v : m = acked[p] /\ v = Entry(p)'
    OBVIOUS
  <2>3. p \in DOMAIN acked /\ v # None /\ acked'[p] = m
    BY <2>1, <2>2
  <2>4. m \in Nat /\ Last(p) \notin Temps /\ \A w \in OnDisk(p) : AsNew(w, m)
    BY <1>2, <2>2, <2>3, Zenon DEF AckInv, AckedAt
  <2>5. v \in OnDisk(p)
    BY <2>2, <2>3, PowerLossLeaves
  <2>6. AsNew(v, m)'
    BY <1>2, <1>4, <1>5, <2>4, <2>5, AsNewKept
  <2>7. \A w \in OnDisk(p)' : AsNew(w, m)'
    BY <1>7, <2>2, <2>6
  <2> QED BY <2>3, <2>4, <2>7, Zenon DEF AckedAt, Temps
<1>10. CallsInv' /\ PathsInv' /\ EnvInv'
  BY <1>1, <1>4, AllIdle, DownKeeps, EnvKept DEF SavedInv
<1> QED BY <1>4, <1>8, <1>9, <1>10, Zenon DEF SavedInv

LEMMA SavedInitInv == ASSUME SavedInit PROVE SavedInv
<1>1. PICK sc \in Scenarios : env = sc.env /\ node = sc.tree /\ asked = sc.asked
  BY Zenon DEF SavedInit
<1>2. /\ maybe = <<>> /\ inode = <<>> /\ paths = Down /\ acked = <<>>
      /\ save = [t \in Savers |-> NoCall]
  BY Zenon DEF SavedInit
<1>3. EnvInv
  BY <1>1, Zenon DEF EnvInv
<1>4. PathsInv
  <2>1. paths = [pc |-> "down", root |-> <<>>, depth |-> 0, handle |-> FALSE]
    BY <1>2 DEF Down
  <2>2. paths.pc = "down" /\ paths.depth = 0 /\ paths.handle = FALSE /\ paths.root = <<>>
    BY <2>1
  <2>3. 0 \in Nat /\ FALSE \in BOOLEAN
    OBVIOUS
  <2> QED BY <2>1, <2>2, <2>3, Zenon DEF PathsInv
<1>5. InodesOK /\ Len(inode) = 0
  BY <1>2, EmptySeq DEF InodesOK
<1>6. DiskInv
  <2>1. DOMAIN maybe = {}
    BY <1>2
  <2>2. IsFiniteSet(DOMAIN maybe)
    BY <2>1, FS_EmptySet
  <2>3. \A p : OnDisk(p) = {Entry(p)}
    BY <2>1, Zenon DEF OnDisk
  <2>4. ASSUME NEW p PROVE Sound(p, Entry(p))
    <3>1. Entry(p) \in {Dir, None} \/ (p \in DOMAIN sc.tree /\ Entry(p) = sc.tree[p])
      BY <1>1 DEF Entry
    <3>2. p \in DOMAIN sc.tree => sc.tree[p] \in {Dir, Link, File(0)}
      BY SavedFilesAssumption, Zenon
    <3> QED BY <3>1, <3>2, Zenon DEF Sound
  <2> QED BY <2>2, <2>3, <2>4 DEF DiskInv
<1>7. AckInv
  BY <1>2 DEF AckInv
<1>8. CallsInv
  <2>1. CallInv(NoCall)
    <3>1. 0 <= Len(inode)
      BY <1>5
    <3>2. "idle" \notin Owning \cup {"done", "walk", "temp", "syncdir", "write", "sync", "rename"}
      BY DEF Owning
    <3>3. PlaceInv(NoCall) /\ FileInv(NoCall)
      BY NoCallIs, <3>2, Zenon DEF PlaceInv, FileInv
    <3>4. OwnInv(NoCall)
      BY NoCallIs, <3>1, <3>2, Zenon DEF OwnInv, Owns
    <3> QED BY <3>3, <3>4, NoCallIs, Zenon DEF CallInv
  <2>2. \A t \in Savers : save[t] = NoCall
    BY <1>2
  <2>3. save = [t \in Savers |-> save[t]]
    BY <1>2, <2>2
  <2>4. \A t, u \in Savers : t # u /\ save[t].id # 0 => save[t].id # save[u].id
    BY <2>2, NoCallIs, Zenon
  <2> QED BY <2>1, <2>2, <2>3, <2>4, Zenon DEF CallsInv
<1> QED BY <1>3, <1>4, <1>5, <1>6, <1>7, <1>8, Zenon DEF SavedInv

\* Any step, of any thread, keeps the invariant.
LEMMA SavedNextKeeps ==
    ASSUME PlainNames, SavedInv, StraysAlone, [SavedNext]_savedVars
    PROVE  SavedInv'
<1>1. CASE PathsInit \/ PathsOpen \/ PathsInitFails \/ PathsDestroy
  BY <1>1, PathsKeep
<1>2. CASE MkdirsNext
  BY <1>2, MkdirsKeeps
<1>3. ASSUME NEW t \in Savers, AtomicWrite(t) PROVE SavedInv'
  BY <1>3, AtomicWriteKeeps
<1>4. ASSUME NEW t \in Savers, Walk(t) PROVE SavedInv'
  BY <1>4, WalkKeeps
<1>5. ASSUME NEW t \in Savers, Temporary(t) PROVE SavedInv'
  BY <1>5, TemporaryKeeps
<1>6. ASSUME NEW t \in Savers, WriteAll(t) PROVE SavedInv'
  BY <1>6, WriteAllKeeps
<1>7. ASSUME NEW t \in Savers, Sync(t) PROVE SavedInv'
  BY <1>7, SyncKeeps
<1>8. ASSUME NEW t \in Savers, Rename(t) PROVE SavedInv'
  BY <1>8, RenameKeeps
<1>9. ASSUME NEW t \in Savers, SyncDir(t) PROVE SavedInv'
  BY <1>9, SyncDirKeeps
<1>10. ASSUME NEW t \in Savers, SaveFails(t) PROVE SavedInv'
  BY <1>10, SaveFailsKeeps
<1>11. ASSUME NEW t \in Savers, CleanUp(t) PROVE SavedInv'
  BY <1>11, CleanUpKeeps
<1>12. CASE Kill
  BY <1>12, KillKeeps
<1>13. CASE PowerLoss
  BY <1>13, PowerLossKeeps
<1>14. CASE UNCHANGED savedVars
  <2>1. /\ env' = env /\ asked' = asked /\ node' = node /\ maybe' = maybe /\ inode' = inode
        /\ paths' = paths /\ save' = save /\ acked' = acked
    BY <1>14 DEF savedVars
  <2>2. InodesOK' /\ Grows /\ DiskInv' /\ AckInv' /\ EnvInv'
    BY <2>1, EnvKept, GrowsSame, DiskStays, AckStays DEF SavedInv
  <2>3. PathsInv'
    BY <2>1, Zenon DEF SavedInv, PathsInv, DataRoot
  <2>4. ASSUME NEW t \in Savers PROVE CallInv(save[t])'
    <3>1. PICK c : c = save[t]
      OBVIOUS
    <3>2. \A p : Entry(p)' = Entry(p)
      BY <2>1, DiskSame
    <3>3. CallInv(c)'
      BY <2>1, <3>1, <3>2, OthersStay, Zenon
    <3> QED BY <2>1, <3>1, <3>3, Zenon
  <2>5. CallsInv'
    BY <2>1, <2>4, Zenon DEF SavedInv, CallsInv
  <2> QED BY <2>2, <2>3, <2>5, Zenon DEF SavedInv
<1> QED
  BY <1>1, <1>2, <1>3, <1>4, <1>5, <1>6, <1>7, <1>8, <1>9, <1>10, <1>11, <1>12, <1>13, <1>14, Zenon
  DEF SavedNext, SavedStep

LEMMA SavedInvIsAtomic == ASSUME SavedInv PROVE SavesAreAtomic
<1>1. ASSUME NEW p, NEW v \in OnDisk(p), v.k = "file", v.id # 0
      PROVE  /\ Below(p)
             /\ Last(p) \notin ToSet(TempNames) => inode[v.id].synced /\ inode[v.id].len = inode[v.id].size
  <2>1. Sound(p, v)
    BY Zenon DEF SavedInv, DiskInv
  <2>2. v \notin {None, Dir, Link, File(0)}
    <3>1. "none" # "file" /\ "dir" # "file" /\ "link" # "file"
      OBVIOUS
    <3> QED BY <1>1, <3>1, Kinds, Zenon
  <2>3. PICK i \in 1..Len(inode) : v = File(i) /\ Below(p) /\ (Last(p) \notin Temps => Whole(i))
    BY <2>1, <2>2, Zenon DEF Sound, HoldsFile
  <2>4. v.id = i
    BY <2>3, Kinds, Zenon
  <2> QED BY <2>3, <2>4, Zenon DEF Whole, Temps
<1>2. \A p : Entry(p) \in OnDisk(p)
  BY Zenon DEF SavedInv, DiskInv
<1>3. ASSUME NEW p \in DOMAIN acked, NEW v \in OnDisk(p)
      PROVE  v.k = "file" /\ v.id # 0 /\ inode[v.id].ord >= acked[p]
  <2>1. AsNew(v, acked[p])
    BY Zenon DEF SavedInv, AckInv, AckedAt
  <2>2. PICK i \in 1..Len(inode) : v = File(i) /\ inode[i].ord >= acked[p]
    BY <2>1, Zenon DEF AsNew
  <2>3. v.k = "file" /\ v.id = i
    BY <2>2, Kinds, Zenon
  <2>4. i # 0
    BY InodeIs DEF SavedInv
  <2> QED BY <2>2, <2>3, <2>4, Zenon
<1>4. SaveIsWhole
  <2>1. ASSUME NEW p, NEW v \in OnDisk(p) \cup {Entry(p)} PROVE v \in OnDisk(p)
    BY <1>2, <2>1, Zenon
  <2> QED BY <1>1, <1>3, <2>1, Zenon DEF SaveIsWhole
<1>5. TemporaryIsOwn
  <2>1. \A t \in Savers : Owns(save[t]) => Entry(Name(save[t], save[t].temporary)) = File(save[t].id)
    BY Zenon DEF SavedInv, CallsInv, CallInv, OwnInv
  <2>2. \A p \in DOMAIN node : Entry(p).k = "file" /\ Entry(p).id # 0 => IsPrefix(DataRoot.at, p) /\ ".." \notin ToSet(p)
    BY <1>1, <1>2, Zenon DEF Below, NoUp
  <2> QED BY <2>1, <2>2, Zenon DEF TemporaryIsOwn
<1> QED BY <1>4, <1>5, Zenon DEF SavesAreAtomic

\* sword3_paths_atomic_write, called by any number of threads for any names
\* that are not those of its temporaries: whatever fails, is killed or loses
\* power, the file under a name is whole, old or new; what a call that
\* returned 0 has saved is not undone; no call removes, renames or overwrites
\* the temporary of another, and no file is created outside the data directory.
\* All of it as long as no call that could not open a temporary of its own has
\* ended while another was under way: that one's clean-up takes the other's.
THEOREM SavingIsAtomic == PlainNames /\ SavedSpec => []SavesAreAtomic
<1> SUFFICES ASSUME PlainNames PROVE SavedSpec => []SavesAreAtomic
  OBVIOUS
<1> DEFINE Inv == starved \/ (SavedInv /\ StraysAlone)
<1>1. SavedInit => Inv
  <2> SUFFICES ASSUME SavedInit PROVE SavedInv /\ StraysAlone
    OBVIOUS
  <2>1. \A t \in Savers : save[t] = NoCall
    BY DEF SavedInit
  <2>2. StraysAlone
    BY <2>1, NoCallIs, Zenon DEF StraysAlone, Stray
  <2> QED BY <2>2, SavedInitInv
<1>2. Inv /\ [SavedNext]_savedVars => Inv'
  <2> SUFFICES ASSUME Inv, [SavedNext]_savedVars, ~starved' PROVE SavedInv' /\ StraysAlone'
    OBVIOUS
  <2>1. CASE SavedNext
    <3>1. ~starved /\ StraysAlone'
      BY <2>1, Zenon DEF SavedNext
    <3> QED BY <3>1, SavedNextKeeps
  <2>2. CASE UNCHANGED savedVars
    <3>1. starved' = starved /\ save' = save
      BY <2>2 DEF savedVars
    <3>2. SavedInv /\ StraysAlone
      BY <3>1
    <3>3. StraysAlone'
      BY <3>1, <3>2, Zenon DEF StraysAlone, Stray
    <3> QED BY <3>2, <3>3, SavedNextKeeps
  <2> QED BY <2>1, <2>2
<1>3. Inv => SavesAreAtomic
  <2>1. starved => SavesAreAtomic
    BY DEF SavesAreAtomic
  <2> QED BY <2>1, SavedInvIsAtomic
<1> QED BY <1>1, <1>2, <1>3, PTL DEF SavedSpec

=============================================================================
