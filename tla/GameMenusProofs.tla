-------------------------- MODULE GameMenusProofs ---------------------------
(***************************************************************************)
(* The menus drawn over the game act on what they show: what is confirmed  *)
(* in the battle overlay is what the guest uses, and the field menu leaves *)
(* the guest's repository sound, for any items, skills, party and lists.   *)
(***************************************************************************)
EXTENDS GameMenus, FiniteSetTheorems, WellFoundedInduction, TLAPS

-----------------------------------------------------------------------------
(* Places in a list, in their order.                                       *)

LEMMA LeastNumber ==
    ASSUME NEW S \in SUBSET Nat, S # {}
    PROVE  \E x \in S : \A y \in S : x <= y
<1> DEFINE less == {ss \in Nat \X Nat : ss[1] < ss[2]}
<1>1. IsWellFoundedOn(less, Nat)
  BY NatLessThanWellFounded, Zenon DEF OpToRel
<1> HIDE DEF less
<1>2. PICK x \in S : \A y \in S : ~(<<y, x>> \in less)
  BY <1>1, WFMin
<1>3. ASSUME NEW y \in S PROVE x <= y
  <2>1. <<y, x>>[1] = y /\ <<y, x>>[2] = x /\ <<y, x>> \in Nat \X Nat
    OBVIOUS
  <2>2. ~(y < x)
    BY <1>2, <2>1, Zenon DEF less
  <2> QED BY <2>2
<1> QED BY <1>3

\* The places up to one of them.
Upto(at, i) == {j \in at : j <= i}

LEMMA UptoIs ==
    ASSUME NEW n \in Nat, NEW at \in SUBSET (1..n)
    PROVE  /\ IsFiniteSet(at) /\ Cardinality(at) \in Nat
           /\ Cardinality(at) = 0 <=> at = {}
           /\ \A i \in Nat : IsFiniteSet(Upto(at, i)) /\ Cardinality(Upto(at, i)) \in 0..Cardinality(at)
<1>1. IsFiniteSet(at)
  <2>1. IsFiniteSet(1..n)
    BY FS_Interval
  <2> QED BY <2>1, FS_Subset, Zenon
<1>2. Cardinality(at) \in Nat
  BY <1>1, FS_CardinalityType, Zenon
<1>3. ASSUME NEW i \in Nat PROVE IsFiniteSet(Upto(at, i)) /\ Cardinality(Upto(at, i)) \in 0..Cardinality(at)
  <2>1. Upto(at, i) \in SUBSET at
    BY Zenon DEF Upto
  <2>2. IsFiniteSet(Upto(at, i)) /\ Cardinality(Upto(at, i)) <= Cardinality(at)
    BY <1>1, <2>1, FS_Subset, Zenon
  <2>3. Cardinality(Upto(at, i)) \in Nat
    BY <2>2, FS_CardinalityType, Zenon
  <2> QED BY <1>2, <2>2, <2>3
<1> QED BY <1>1, <1>2, <1>3, FS_EmptySet, Zenon

\* Every number up to theirs is the number of the places up to one of them.
LEMMA CountedUp ==
    ASSUME NEW n \in Nat, NEW at \in SUBSET (1..n), NEW k \in 1..Cardinality(at)
    PROVE  \E i \in at : Cardinality(Upto(at, i)) = k
<1>1. /\ IsFiniteSet(at) /\ Cardinality(at) \in Nat
      /\ \A i \in Nat : IsFiniteSet(Upto(at, i)) /\ Cardinality(Upto(at, i)) \in Nat
  <2>1. \A c \in Nat : 0..c \subseteq Nat
    OBVIOUS
  <2> QED BY <2>1, UptoIs, Zenon
<1> DEFINE S == {i \in Nat : Cardinality(Upto(at, i)) >= k}
<1>0. \A y \in at : y \in Int /\ 1 <= y /\ y <= n
  OBVIOUS
<1>2. Upto(at, n) = at
  BY <1>0, Zenon DEF Upto
<1>3. n \in S
  BY <1>1, <1>2
<1>4. PICK x \in S : \A y \in S : x <= y
  BY <1>3, LeastNumber
<1>5. x \in Nat /\ Cardinality(Upto(at, x)) >= k
  BY <1>4
<1>6. x # 0
  <2>1. \A y \in at : ~(y <= 0)
    BY <1>0
  <2>2. Upto(at, 0) = {}
    BY <2>1, Zenon DEF Upto
  <2> QED BY <1>5, <2>2, FS_EmptySet
<1>7. x - 1 \in Nat /\ x - 1 < x
  BY <1>5, <1>6
<1>8. Cardinality(Upto(at, x - 1)) < k
  <2>1. x - 1 \notin S
    BY <1>4, <1>7
  <2> QED BY <1>1, <1>7, <2>1
<1>9. Cardinality(Upto(at, x)) = IF x \in at THEN Cardinality(Upto(at, x - 1)) + 1 ELSE Cardinality(Upto(at, x - 1))
  <2>1. Upto(at, x) = IF x \in at THEN Upto(at, x - 1) \cup {x} ELSE Upto(at, x - 1)
    <3>1. \A y \in at : y <= x <=> y <= x - 1 \/ y = x
      BY <1>0, <1>5
    <3> QED BY <3>1, Zenon DEF Upto
  <2>2. x \notin Upto(at, x - 1)
    BY <1>5, <1>7 DEF Upto
  <2>3. Cardinality(Upto(at, x - 1) \cup {x}) = Cardinality(Upto(at, x - 1)) + 1
    BY <1>1, <1>7, <2>2, FS_AddElement, Zenon
  <2> QED BY <2>1, <2>3, Zenon
<1>10. x \in at /\ Cardinality(Upto(at, x)) = k
  BY <1>1, <1>5, <1>7, <1>8, <1>9
<1> QED BY <1>10

\* and two of them never have the same.
LEMMA CountedOnce ==
    ASSUME NEW n \in Nat, NEW at \in SUBSET (1..n), NEW i \in at, NEW j \in at,
           Cardinality(Upto(at, i)) = Cardinality(Upto(at, j))
    PROVE  i = j
<1>1. i \in Nat /\ j \in Nat
  OBVIOUS
<1>2. IsFiniteSet(Upto(at, i)) /\ IsFiniteSet(Upto(at, j))
  BY <1>1, UptoIs, Zenon
<1>3. CASE i < j
  <2>1. Upto(at, i) \in SUBSET Upto(at, j) /\ j \in Upto(at, j) /\ j \notin Upto(at, i)
    <3>1. (\A y \in at : y <= i => y <= j) /\ j <= j /\ ~(j <= i)
      BY <1>1, <1>3
    <3> QED BY <3>1, Zenon DEF Upto
  <2>2. Upto(at, j) = Upto(at, i)
    BY <1>2, <2>1, FS_Subset, Zenon
  <2> QED BY <2>1, <2>2, Zenon
<1>4. CASE j < i
  <2>1. Upto(at, j) \in SUBSET Upto(at, i) /\ i \in Upto(at, i) /\ i \notin Upto(at, j)
    <3>1. (\A y \in at : y <= j => y <= i) /\ i <= i /\ ~(i <= j)
      BY <1>1, <1>4
    <3> QED BY <3>1, Zenon DEF Upto
  <2>2. Upto(at, i) = Upto(at, j)
    BY <1>2, <2>1, FS_Subset, Zenon
  <2> QED BY <2>1, <2>2, Zenon
<1> QED BY <1>1, <1>3, <1>4

\* A copy has what stands at the places, and nothing else.
Copies(list, at, only) ==
    /\ Len(only) = Cardinality(at) /\ Len(only) \in Nat
    /\ DOMAIN only = 1..Len(only) /\ only = [k \in 1..Len(only) |-> only[k]]
    /\ \A k \in 1..Len(only) : \E i \in at : only[k] = list[i]
    /\ \A i \in at : \E k \in 1..Len(only) : only[k] = list[i]

LEMMA OnlyCopies ==
    ASSUME NEW list, NEW n \in Nat, NEW at \in SUBSET (1..n)
    PROVE  Copies(list, at, Only(list, at))
<1>1. IsFiniteSet(at) /\ Cardinality(at) \in Nat /\ \A i \in Nat : Cardinality(Upto(at, i)) \in 0..Cardinality(at)
  BY UptoIs, Zenon
<1> DEFINE only == Only(list, at)
<1>2. only = [k \in 1..Cardinality(at) |-> list[CHOOSE i \in at : Cardinality(Upto(at, i)) = k]]
  BY Zenon DEF Only, Upto
<1> HIDE DEF only
<1>3. /\ DOMAIN only = 1..Len(only) /\ Len(only) = Cardinality(at) /\ Len(only) \in Nat
      /\ only = [k \in 1..Len(only) |-> only[k]]
  BY <1>1, <1>2
<1>4. ASSUME NEW k \in 1..Cardinality(at)
      PROVE  \E i \in at : Cardinality(Upto(at, i)) = k /\ only[k] = list[i]
  <2>1. PICK i : i = CHOOSE x \in at : Cardinality(Upto(at, x)) = k
    BY Zenon
  <2>2. i \in at /\ Cardinality(Upto(at, i)) = k
    BY <2>1, CountedUp, Zenon
  <2>3. only[k] = list[i]
    BY <1>2, <2>1, Zenon
  <2> QED BY <2>2, <2>3, Zenon
<1>5. ASSUME NEW i \in at PROVE \E k \in 1..Cardinality(at) : only[k] = list[i]
  <2>1. PICK k : k = Cardinality(Upto(at, i))
    BY Zenon
  <2>2. i \in Nat /\ i \in Upto(at, i)
    BY DEF Upto
  <2>3. IsFiniteSet(Upto(at, i)) /\ k \in 0..Cardinality(at)
    BY <2>1, <2>2, UptoIs, Zenon
  <2>4. k # 0
    BY <2>1, <2>2, <2>3, FS_EmptySet, Zenon
  <2>5. k \in 1..Cardinality(at)
    BY <1>1, <2>3, <2>4
  <2>6. PICK j \in at : Cardinality(Upto(at, j)) = k /\ only[k] = list[j]
    BY <1>4, <2>5, Zenon
  <2>7. j = i
    BY <2>1, <2>6, CountedOnce, Zenon
  <2> QED BY <2>5, <2>6, <2>7, Zenon
<1>6. /\ \A k \in 1..Len(only) : \E i \in at : only[k] = list[i]
      /\ \A i \in at : \E k \in 1..Len(only) : only[k] = list[i]
  BY <1>3, <1>4, <1>5, Zenon
<1> QED BY <1>3, <1>6, Zenon DEF Copies, only

-----------------------------------------------------------------------------
(* The battle overlay.                                                     *)

\* A list has places from 1 on, and every holder has one.
IsList(s) == Len(s) \in Nat /\ DOMAIN s = 1..Len(s) /\ s = [i \in 1..Len(s) |-> s[i]]
Stocked(b) == IsList(b) /\ \A i \in DOMAIN b : b[i] \in Entry
AllStocked(bags) == bags = [h \in Holders |-> bags[h]] /\ \A h \in Holders : Stocked(bags[h])

IsUi(u) == u = [layer |-> u.layer, focus |-> u.focus, cat |-> u.cat, list |-> u.list, actor |-> u.actor,
                pack |-> u.pack, entries |-> u.entries, ok_cmd |-> u.ok_cmd]

LEMMA ListsAreStocked == AllStocked(BattleItems) /\ \A a \in Actors : Stocked(Skills[a])
<1>1. ASSUME NEW list \in Seq(Entry) PROVE Stocked(list)
  BY DEF Stocked, IsList
<1>2. BattleItems = [h \in Holders |-> BattleItems[h]] /\ \A h \in Holders : BattleItems[h] \in Seq(Entry)
  BY ListsAssumption
<1>3. \A a \in Actors : Skills[a] \in Seq(Entry)
  BY ListsAssumption
<1> QED BY <1>1, <1>2, <1>3, Zenon DEF AllStocked

LEMMA OnlyIsList ==
    ASSUME NEW list, IsList(list), NEW at \in SUBSET DOMAIN list
    PROVE  IsList(Only(list, at)) /\ Copies(list, at, Only(list, at))
<1>1. Copies(list, at, Only(list, at))
  BY OnlyCopies, Zenon DEF IsList
<1> QED BY <1>1, Zenon DEF IsList, Copies

\* Items are used up one by one.
LEMMA UsedIsStocked == ASSUME NEW b, Stocked(b), NEW temp PROVE Stocked(Used(b, temp))
<1>1. PICK v : v = Used(b, temp)
  BY Zenon
<1>2. v = [i \in 1..Len(b) |-> IF temp > 0 /\ b[i].temp = temp /\ b[i].count > 0
                                  THEN [b[i] EXCEPT !.count = @ - 1] ELSE b[i]]
  BY <1>1, Zenon DEF Used, Stocked, IsList
<1>3. Len(b) \in Nat /\ \A i \in 1..Len(b) : b[i] \in Entry
  BY Zenon DEF Stocked, IsList
<1>4. IsList(v) /\ DOMAIN v = 1..Len(b)
  BY <1>2, <1>3 DEF IsList
<1>5. ASSUME NEW i \in 1..Len(b) PROVE v[i] \in Entry
  <2>1. PICK e : e = b[i] /\ e \in Entry
    BY <1>3, Zenon
  <2>2. v[i] = IF temp > 0 /\ e.temp = temp /\ e.count > 0 THEN [e EXCEPT !.count = @ - 1] ELSE e
    BY <1>2, <2>1, Zenon
  <2>3. e.count > 0 => [e EXCEPT !.count = @ - 1] \in Entry
    BY <2>1 DEF Entry
  <2> QED BY <2>1, <2>2, <2>3, Zenon
<1> QED BY <1>1, <1>4, <1>5, Zenon DEF Stocked

LEMMA HolderIs == ASSUME player \in Holders PROVE Holder \in Holders
BY Zenon DEF Holder, Holders

LEMMA UseUpIsStocked ==
    ASSUME AllStocked(battle_bag), player \in Holders, NEW temp, UseUp(temp)
    PROVE  AllStocked(battle_bag')
<1>1. PICK h, w : h = Holder /\ w = Used(battle_bag[h], temp) /\ h \in Holders
  BY HolderIs, Zenon
<1>2. Stocked(w)
  BY <1>1, UsedIsStocked, Zenon DEF AllStocked
<1>3. battle_bag' = [battle_bag EXCEPT ![h] = w]
  BY <1>1, Zenon DEF UseUp
<1>4. battle_bag = [g \in Holders |-> battle_bag[g]]
  BY Zenon DEF AllStocked
<1>5. battle_bag' = [g \in Holders |-> IF g = h THEN w ELSE battle_bag[g]]
  BY <1>1, <1>3, <1>4
<1>6. PICK bags : bags = battle_bag'
  BY Zenon
<1>7. bags = [g \in Holders |-> IF g = h THEN w ELSE battle_bag[g]]
  BY <1>5, <1>6, Zenon
<1>8. bags = [g \in Holders |-> bags[g]]
  BY <1>7
<1>9. \A g \in Holders : Stocked(bags[g])
  BY <1>2, <1>7, Zenon DEF AllStocked
<1> QED BY <1>6, <1>8, <1>9, Zenon DEF AllStocked

\* The category of an entry that hits a mask is one of its own.
LEMMA CatIsOwn ==
    ASSUME NEW e \in Entry, NEW l, (IF l = "ITEM" THEN e.cats ELSE e.cats \cap (0..2)) # {}
    PROVE  CatOf(l, e) \in e.cats
<1>1. PICK cats_ : cats_ = IF l = "ITEM" THEN e.cats ELSE e.cats \cap (0..2)
  BY Zenon
<1>2. cats_ \in SUBSET Nat /\ cats_ # {} /\ cats_ \subseteq e.cats
  BY <1>1 DEF Entry
<1>3. \E c \in cats_ : \A d \in cats_ : c <= d
  BY <1>2, LeastNumber
<1>4. CatOf(l, e) = CHOOSE c \in cats_ : \A d \in cats_ : c <= d
  BY <1>1, <1>2, Zenon DEF CatOf
<1>5. CatOf(l, e) \in cats_
  BY <1>3, <1>4, Zenon
<1> QED BY <1>2, <1>5, Zenon

-----------------------------------------------------------------------------
\* What is copied for the overlay, and what the guest keeps.
Shelf(l) == IF l = "ITEM" THEN battle_bag[IF Readable(Holder) THEN Holder ELSE -1] ELSE Skills[player]
Kept(l, e) == e.temp > 0 /\ e.ok /\ IF l = "ITEM" THEN e.count > 0 ELSE IsObsolt(e) <=> l = "SPECIAL"
Source(l) == IF l = "ITEM" THEN battle_bag[Holder] ELSE Skills[player]
Wanted(l, e) == e.temp > 0 /\ e.ok /\ IF l = "ITEM" THEN e.count > 0 ELSE e.obs <=> l = "SPECIAL"

LEMMA ShownIs ==
    ASSUME AllStocked(battle_bag), player \in Holders, NEW l \in Sub
    PROVE  /\ IsList(Shown(l))
           /\ \A k \in DOMAIN Shown(l) : \E i \in DOMAIN Shelf(l) : Kept(l, Shelf(l)[i]) /\ Shown(l)[k] = Shelf(l)[i]
           /\ Shown(l) # <<>> => Stocked(Shelf(l)) /\ (l # "ITEM" => player \in Actors)
<1>1. CASE l # "ITEM" /\ player = -1
  <2>1. Shown(l) = <<>>
    BY <1>1, Zenon DEF Shown
  <2>2. IsList(<<>>) /\ DOMAIN <<>> = {}
    BY DEF IsList
  <2> QED BY <2>1, <2>2, Zenon
<1>2. CASE l = "ITEM" \/ player # -1
  <2>1. PICK all, at : all = Shelf(l) /\ at = {i \in DOMAIN all : Kept(l, all[i])}
    BY Zenon
  <2>2. Stocked(all) /\ (l # "ITEM" => player \in Actors)
    <3>1. -1 \in Holders /\ Holder \in Holders /\ (player # -1 => player \in Actors)
      BY HolderIs, Zenon DEF Holders
    <3> QED BY <1>2, <2>1, <3>1, ListsAreStocked, Zenon DEF Shelf, AllStocked
  <2>3. Shown(l) = Only(all, at)
    <3>1. CASE l = "ITEM"
      <4>1. /\ all = battle_bag[IF Readable(Holder) THEN Holder ELSE -1]
            /\ \A e : Kept(l, e) <=> e.temp > 0 /\ e.ok /\ e.count > 0
        BY <2>1, <3>1, Zenon DEF Shelf, Kept
      <4>2. at = {i \in DOMAIN all : all[i].temp > 0 /\ all[i].ok /\ all[i].count > 0}
        BY <2>1, <4>1, Zenon
      <4> QED BY <3>1, <4>1, <4>2, Zenon DEF Shown
    <3>2. CASE l # "ITEM"
      <4>1. /\ all = Skills[player]
            /\ \A e : Kept(l, e) <=> e.temp > 0 /\ e.ok /\ (IsObsolt(e) <=> l = "SPECIAL")
        BY <2>1, <3>2, Zenon DEF Shelf, Kept
      <4>2. at = {i \in DOMAIN all : all[i].temp > 0 /\ all[i].ok /\ (IsObsolt(all[i]) <=> l = "SPECIAL")}
        BY <2>1, <4>1, Zenon
      <4> QED BY <1>2, <3>2, <4>1, <4>2, Zenon DEF Shown
    <3> QED BY <3>1, <3>2, Zenon
  <2>4. IsList(Shown(l)) /\ Copies(all, at, Shown(l))
    BY <2>1, <2>2, <2>3, OnlyIsList, Zenon DEF Stocked
  <2>5. \A k \in DOMAIN Shown(l) : \E i \in at : Shown(l)[k] = all[i]
    BY <2>4, Zenon DEF Copies
  <2> QED BY <2>1, <2>2, <2>4, <2>5, Zenon
<1> QED BY <1>1, <1>2, Zenon

\* The guest's page of a category has every wanted entry of it.
HasEntry(seq, e) == IsList(seq) /\ \E k \in DOMAIN seq : seq[k] = e

LEMMA NativeHas ==
    ASSUME NEW l \in Sub, Stocked(Source(l)), NEW cat_, NEW i \in DOMAIN Source(l),
           Wanted(l, Source(l)[i]), cat_ \in Source(l)[i].cats
    PROVE  HasEntry(Native(l, cat_), Source(l)[i])
<1>1. PICK all, at, nat : /\ all = Source(l) /\ at = {j \in DOMAIN all : Wanted(l, all[j]) /\ cat_ \in all[j].cats}
                          /\ nat = Native(l, cat_)
  BY Zenon
<1>2. nat = Only(all, at)
  <2>1. all = IF l = "ITEM" THEN battle_bag[Holder] ELSE Skills[player]
    BY <1>1, Zenon DEF Source
  <2>2. at = {j \in DOMAIN all : /\ all[j].temp > 0 /\ all[j].ok /\ cat_ \in all[j].cats
                                 /\ IF l = "ITEM" THEN all[j].count > 0 ELSE all[j].obs <=> l = "SPECIAL"}
    BY <1>1, Zenon DEF Wanted
  <2> QED BY <1>1, <2>1, <2>2, Zenon DEF Native
<1>3. IsList(nat) /\ Copies(all, at, nat)
  BY <1>1, <1>2, OnlyIsList, Zenon DEF Stocked
<1>4. i \in at
  BY <1>1, Zenon
<1>5. \E k \in DOMAIN nat : nat[k] = all[i]
  BY <1>3, <1>4, Zenon DEF Copies
<1> QED BY <1>1, <1>3, <1>5, Zenon DEF HasEntry

\* The search for an entry that is there finds it, or one of the same item.
Finds(seq, temp, idx) == idx \in DOMAIN seq /\ seq[idx].temp = temp

LEMMA IndexFinds ==
    ASSUME NEW seq, NEW e, HasEntry(seq, e), NEW list
    PROVE  Finds(seq, e.temp, IndexIn(seq, e.temp, list))
<1> DEFINE temp == e.temp
<1>0. PICK k \in DOMAIN seq : seq[k].temp = temp /\ IsList(seq)
  BY Zenon DEF HasEntry
<1> HIDE DEF temp
<1>1. PICK at : at = {i \in DOMAIN seq : seq[i].temp = temp}
  BY Zenon
<1>2. k \in at /\ at \in SUBSET Nat
  <2>1. DOMAIN seq \in SUBSET Nat
    BY <1>0 DEF IsList
  <2> QED BY <1>0, <1>1, <2>1, Zenon
<1>3. \E i \in at : \A j \in at : i <= j
  BY <1>2, LeastNumber
<1>4. IndexIn(seq, temp, list) = CHOOSE i \in at : \A j \in at : i <= j
  BY <1>1, <1>2, Zenon DEF IndexIn
<1>5. IndexIn(seq, temp, list) \in at
  BY <1>3, <1>4, Zenon
<1> QED BY <1>0, <1>1, <1>5, Zenon DEF Finds, temp

\* The view of a page is a list, and shows entries of the overlay's copy.
LEMMA ViewIs ==
    ASSUME NEW u, IsList(u.entries)
    PROVE  /\ IsList(BattleView(u))
           /\ \A k \in DOMAIN BattleView(u) :
                 \E i \in DOMAIN u.entries : /\ BattleView(u)[k] = u.entries[i]
                                             /\ u.layer # "SPECIAL" => CatOf(u.layer, u.entries[i]) = u.cat
<1>1. CASE u.layer = "SPECIAL"
  BY <1>1, Zenon DEF BattleView
<1>2. CASE u.layer # "SPECIAL"
  <2>1. PICK at, view : at = {i \in DOMAIN u.entries : CatOf(u.layer, u.entries[i]) = u.cat} /\ view = BattleView(u)
    BY Zenon
  <2>2. view = Only(u.entries, at)
    BY <1>2, <2>1, Zenon DEF BattleView
  <2>3. IsList(view) /\ Copies(u.entries, at, view)
    BY <2>1, <2>2, OnlyIsList, Zenon
  <2> QED BY <2>1, <2>3, Zenon DEF Copies, IsList
<1> QED BY <1>1, <1>2, Zenon

\* The cursor is kept within the view.
Clamped(u, w) ==
    /\ IsUi(w) /\ w.layer = u.layer /\ w.entries = u.entries /\ w.list \in Nat
    /\ BattleView(w) # <<>> => w.list + 1 \in DOMAIN BattleView(w)

LEMMA ClampListIs ==
    ASSUME NEW u, IsUi(u), IsList(u.entries), u.list \in Nat
    PROVE  Clamped(u, ClampList(u))
<1>1. PICK v : v = [u EXCEPT !.cat = IF @ < CatN(u) THEN @ ELSE 0]
  BY Zenon
<1>2. IsUi(v) /\ v.layer = u.layer /\ v.entries = u.entries /\ v.list = u.list
  BY <1>1 DEF IsUi
<1>3. PICK n : n = Len(BattleView(v))
  BY Zenon
<1>4. PICK w : w = [v EXCEPT !.list = IF n = 0 THEN 0 ELSE IF @ >= n THEN n - 1 ELSE @]
  BY Zenon
<1>5. w = ClampList(u)
  BY <1>1, <1>3, <1>4, Zenon DEF ClampList
<1>6. /\ IsUi(w) /\ w.layer = v.layer /\ w.entries = v.entries /\ w.cat = v.cat
      /\ w.list = IF n = 0 THEN 0 ELSE IF v.list >= n THEN n - 1 ELSE v.list
  BY <1>2, <1>4 DEF IsUi
<1>7. BattleView(w) = BattleView(v)
  BY <1>6, Zenon DEF BattleView
<1>8. IsList(BattleView(v))
  BY <1>2, ViewIs, Zenon
<1>9. n \in Nat /\ DOMAIN BattleView(v) = 1..n
  BY <1>3, <1>8, Zenon DEF IsList
<1>10. w.list \in Nat /\ (n # 0 => w.list + 1 \in 1..n)
  BY <1>2, <1>6, <1>9
<1>11. n = 0 => BattleView(v) = <<>>
  <2>1. PICK z : z = BattleView(v)
    BY Zenon
  <2>2. IsList(z) /\ Len(z) = n
    BY <1>3, <1>8, <2>1, Zenon
  <2> SUFFICES ASSUME n = 0 PROVE z = <<>>
    BY <2>1, Zenon
  <2> QED BY <2>2 DEF IsList
<1> QED BY <1>2, <1>5, <1>6, <1>7, <1>9, <1>10, <1>11, Zenon DEF Clamped

\* Entering a layer fills its list, and leaves another one's alone.
Entered(u, l, w) ==
    /\ IsUi(w) /\ w.layer = l /\ w.list \in Nat /\ IsList(w.entries)
    /\ l \in Sub /\ u.layer # l => w.entries = Shown(l)

LEMMA EnterIs ==
    ASSUME NEW u, IsUi(u), IsList(u.entries), u.list \in Nat, NEW l \in BattleLayers, l \in Sub => IsList(Shown(l))
    PROVE  Entered(u, l, Enter(u, l))
<1>1. PICK v : v = [u EXCEPT !.layer = l]
  BY Zenon
<1>2. IsUi(v) /\ v.layer = l /\ v.entries = u.entries /\ v.list = u.list
  BY <1>1 DEF IsUi
<1>3. PICK w : w = IF l \in Sub /\ u.layer # l
                      THEN [v EXCEPT !.cat = 0, !.list = 0, !.entries = Shown(l)]
                   ELSE IF l = "COMMAND"
                      THEN [v EXCEPT !.pack = Pack, !.focus = Snap(Pack, @)]
                   ELSE v
  BY Zenon
<1>4. IsUi(w) /\ w.layer = l /\ w.list \in Nat /\ IsList(w.entries) /\ (l \in Sub /\ u.layer # l => w.entries = Shown(l))
  <2>1. CASE l \in Sub /\ u.layer # l
    <3>1. w = [v EXCEPT !.cat = 0, !.list = 0, !.entries = Shown(l)]
      BY <1>3, <2>1, Zenon
    <3>2. IsUi(w) /\ w.layer = l /\ w.list = 0 /\ w.entries = Shown(l)
      BY <1>2, <3>1 DEF IsUi
    <3> QED BY <2>1, <3>2
  <2>2. CASE ~(l \in Sub /\ u.layer # l) /\ l = "COMMAND"
    <3>1. w = [v EXCEPT !.pack = Pack, !.focus = Snap(Pack, @)]
      BY <1>3, <2>2, Zenon
    <3>2. IsUi(w) /\ w.layer = l /\ w.list = v.list /\ w.entries = v.entries
      BY <1>2, <3>1 DEF IsUi
    <3> QED BY <1>2, <2>2, <3>2, Zenon
  <2>3. CASE ~(l \in Sub /\ u.layer # l) /\ l # "COMMAND"
    BY <1>2, <1>3, <2>3, Zenon
  <2> QED BY <2>1, <2>2, <2>3, Zenon
<1>5. PICK x : x = ClampList(w) /\ Clamped(w, x)
  BY <1>4, ClampListIs, Zenon
<1>6. PICK y : y = [x EXCEPT !.ok_cmd = IF u.layer = l \/ l \in {"COMMAND", "TARGET"} THEN @ ELSE 0]
  BY Zenon
<1>7. IsUi(x) /\ x.layer = l /\ x.list \in Nat /\ x.entries = w.entries
  BY <1>4, <1>5, Zenon DEF Clamped
<1>8. IsUi(y) /\ y.layer = x.layer /\ y.list = x.list /\ y.entries = x.entries
  BY <1>6, <1>7 DEF IsUi
<1>9. y = Enter(u, l)
  BY <1>1, <1>3, <1>5, <1>6 DEF Enter
<1> QED BY <1>4, <1>7, <1>8, <1>9, Zenon DEF Entered

-----------------------------------------------------------------------------
\* While a list is on the screen it shows what there is: a turn that is over, or
\* under way, has the next poll leave the list before the guest goes on.
Away == {0, TARGET, WAIT}

UiInv(u) ==
    /\ IsUi(u) /\ IsList(u.entries) /\ u.list \in Nat /\ u.layer \in BattleLayers
    /\ u.layer \in Sub => (u.entries = Shown(u.layer) \/ (~polled /\ now \in Away))
    /\ u.layer \in Sub /\ polled => now \notin Away

BattleInv ==
    /\ player \in Holders /\ AllStocked(battle_bag)
    /\ (chosen.placed => chosen.shown = chosen.got) /\ UiInv(ui)

\* The list depends on the items and on whose turn it is.
LEMMA ShownStays == ASSUME UNCHANGED <<battle_bag, player>>, NEW l PROVE Shown(l)' = Shown(l)
BY Zenon DEF Shown, Readable, Holder

\* The overlay after a step: what it shows, if it shows a list, is there.
LEMMA ListShown ==
    ASSUME NEW v, ui' = v, IsUi(v), IsList(v.entries), v.list \in Nat, v.layer \in BattleLayers,
           v.layer \in Sub => /\ v.entries = Shown(v.layer) /\ UNCHANGED <<battle_bag, player>>
                              /\ polled' => now' \notin Away
    PROVE  UiInv(ui)'
<1>1. v.layer \in Sub => v.entries = Shown(v.layer)' /\ (polled' => now' \notin Away)
  <2>1. UNCHANGED <<battle_bag, player>> => Shown(v.layer)' = Shown(v.layer)
    BY ShownStays, Zenon
  <2> QED BY <2>1, Zenon
<1>2. UiInv(v)'
  BY <1>1, Zenon DEF UiInv
<1> QED BY <1>2, Zenon DEF UiInv

-----------------------------------------------------------------------------
\* The entry under the cursor is the one the guest finds at the index it is given.
Confirms(u, it, c, native, idx) ==
    /\ it = BattleView(u)[u.list + 1] /\ c = IF u.layer = "SPECIAL" THEN 0 ELSE u.cat
    /\ native = Native(u.layer, c) /\ idx = NativeIndex(u.layer, c, it.temp, u.list)

LEMMA ConfirmedIsShown ==
    ASSUME AllStocked(battle_bag), player \in Holders,
           NEW u, u.layer \in Sub, u.entries = Shown(u.layer), u.list + 1 \in DOMAIN BattleView(u),
           NEW it, NEW c, NEW native, NEW idx, Confirms(u, it, c, native, idx), Placed(u.layer, it)
    PROVE  Finds(native, it.temp, idx)
<1> USE DEF Confirms
<1>1. PICK l, all : l = u.layer /\ all = Shelf(l) /\ l \in Sub
  BY Zenon
<1>2. /\ IsList(Shown(l))
      /\ \A k \in DOMAIN Shown(l) : \E i \in DOMAIN all : Kept(l, all[i]) /\ Shown(l)[k] = all[i]
      /\ Shown(l) # <<>> => Stocked(all) /\ (l # "ITEM" => player \in Actors)
  BY <1>1, ShownIs, Zenon
<1>3. PICK k \in DOMAIN u.entries : it = u.entries[k] /\ (l # "SPECIAL" => CatOf(l, u.entries[k]) = u.cat)
  <2>1. IsList(u.entries)
    BY <1>1, <1>2, Zenon
  <2> QED BY <1>1, <2>1, ViewIs, Zenon
<1>4. PICK i \in DOMAIN all : Kept(l, all[i]) /\ it = all[i]
  <2>1. PICK shown : shown = Shown(l) /\ shown = u.entries
    BY <1>1, Zenon
  <2>2. PICK i \in DOMAIN all : Kept(l, all[i]) /\ shown[k] = all[i]
    BY <1>2, <1>3, <2>1, Zenon
  <2> QED BY <1>3, <2>1, <2>2, Zenon
<1>5. Stocked(all)
  <2>1. DOMAIN <<>> = {}
    OBVIOUS
  <2>2. Shown(l) # <<>>
    BY <1>1, <1>3, <2>1, Zenon
  <2> QED BY <1>2, <2>2, Zenon
<1>6. it \in Entry
  BY <1>4, <1>5, Zenon DEF Stocked
<1>7. all = Source(l) /\ Wanted(l, it) /\ c \in it.cats
  <2>0. l \in {"MAGIC", "ITEM", "SPECIAL"} /\ Placed(l, it) /\ Kept(l, it)
    BY <1>1, <1>4, Zenon DEF Sub
  <2>1. CASE l = "SPECIAL"
    <3>1. l # "ITEM" /\ l # "MAGIC" /\ "SPECIAL" # "MAGIC"
      BY <2>1
    <3>2. it.obs /\ 0 \in it.cats
      BY <2>0, <2>1, <3>1 DEF Placed
    <3> QED BY <1>1, <2>0, <2>1, <3>1, <3>2, Zenon DEF Wanted, Kept, Source, Shelf
  <2>2. CASE l = "MAGIC"
    <3>1. l # "ITEM" /\ l # "SPECIAL"
      BY <2>2
    <3>2. it.cats \cap (0..2) # {}
      BY <2>0, <2>2 DEF Placed
    <3>3. c = CatOf(l, it)
      BY <1>1, <1>3, <3>1, Zenon
    <3>4. c \in it.cats
      BY <1>6, <3>1, <3>2, <3>3, CatIsOwn, Zenon
    <3> QED BY <1>1, <2>0, <3>1, <3>4, Zenon DEF Wanted, Kept, Source, Shelf, IsObsolt
  <2>3. CASE l = "ITEM"
    <3>1. l # "MAGIC" /\ l # "SPECIAL"
      BY <2>3
    <3>2. it.cats # {} /\ Readable(Holder)
      BY <2>0, <2>3, <3>1 DEF Placed
    <3>3. c = CatOf(l, it)
      BY <1>1, <1>3, <3>1, Zenon
    <3>4. c \in it.cats
      BY <1>6, <2>3, <3>2, <3>3, CatIsOwn, Zenon
    <3> QED BY <1>1, <2>0, <2>3, <3>2, <3>4, Zenon DEF Wanted, Kept, Source, Shelf
  <2> QED BY <2>0, <2>1, <2>2, <2>3, Zenon
<1>8. HasEntry(native, it)
  <2>1. /\ Stocked(Source(l)) /\ i \in DOMAIN Source(l) /\ Wanted(l, Source(l)[i]) /\ c \in Source(l)[i].cats
        /\ it = Source(l)[i] /\ native = Native(l, c)
    BY <1>1, <1>4, <1>5, <1>7, Zenon
  <2>2. HasEntry(Native(l, c), Source(l)[i])
    BY <1>1, <2>1, NativeHas, Zenon
  <2> QED BY <2>1, <2>2, Zenon
<1>9. idx = IndexIn(native, it.temp, u.list)
  BY <1>1, Zenon DEF NativeIndex
<1>10. Finds(native, it.temp, IndexIn(native, it.temp, u.list))
  BY <1>8, IndexFinds, Zenon
<1> QED BY <1>9, <1>10, Zenon

-----------------------------------------------------------------------------
\* The overlay's own steps.
LEMMA PollKeeps == ASSUME BattleInv, Poll PROVE BattleInv'
<1>1. /\ ~polled /\ polled' = TRUE /\ UNCHANGED <<player, able, msg, battle_bag, chosen>>
      /\ player \in Holders /\ AllStocked(battle_bag) /\ (chosen.placed => chosen.shown = chosen.got) /\ UiInv(ui)
  BY Zenon DEF Poll, BattleInv
<1>2. PICK given : given = (ui.ok_cmd # 0 /\ now = 1)
  BY Zenon
<1>3. PICK u : u = [ui EXCEPT !.ok_cmd = IF given THEN 0 ELSE @, !.actor = player,
                              !.entries = IF player # ui.actor /\ ui.layer \in Sub
                                             THEN Shown(ui.layer) ELSE @]
  BY Zenon
<1>4. /\ now' \in (IF given THEN Outcomes(1) ELSE {now})
      /\ ui' = IF now = 0 THEN Closed(ui)
               ELSE IF now' = TARGET THEN Enter(u, "TARGET")
               ELSE IF u.layer \in Sub THEN IF now' = WAIT THEN Enter(u, "IDLE") ELSE u
               ELSE IF now' = 1 THEN Enter(u, "COMMAND")
               ELSE IF u.layer = "COMMAND" THEN Enter(u, "IDLE")
               ELSE IF u.layer \in {"OFF", "TARGET"} THEN [u EXCEPT !.layer = "IDLE"] ELSE u
  BY <1>2, <1>3 DEF Poll
<1>5. IsUi(ui) /\ IsList(ui.entries) /\ ui.list \in Nat /\ ui.layer \in BattleLayers
  BY <1>1, Zenon DEF UiInv
<1>6. /\ IsUi(u) /\ u.layer = ui.layer /\ u.list = ui.list
      /\ u.entries = IF player # ui.actor /\ ui.layer \in Sub THEN Shown(ui.layer) ELSE ui.entries
  BY <1>3, <1>5 DEF IsUi
<1>7. \A l \in Sub : IsList(Shown(l))
  BY <1>1, ShownIs, Zenon
<1>8. IsList(u.entries)
  BY <1>5, <1>6, <1>7, Zenon
<1>9. {"TARGET", "IDLE", "COMMAND", "OFF"} \subseteq BattleLayers /\ Sub \cap {"TARGET", "IDLE", "COMMAND", "OFF"} = {}
  BY DEF BattleLayers, Sub
<1>10. ASSUME NEW l \in {"TARGET", "IDLE", "COMMAND"}, ui' = Enter(u, l) PROVE UiInv(ui)'
  <2>1. l \in BattleLayers /\ l \notin Sub
    BY <1>9, Zenon
  <2>2. PICK w : w = Enter(u, l) /\ Entered(u, l, w)
    BY <1>5, <1>6, <1>8, <2>1, EnterIs, Zenon
  <2>3. ui' = w /\ IsUi(w) /\ IsList(w.entries) /\ w.list \in Nat /\ w.layer \in BattleLayers /\ w.layer \notin Sub
    BY <1>10, <2>1, <2>2, Zenon DEF Entered
  <2> QED BY <2>3, ListShown, Zenon
<1>11. UiInv(ui)'
  <2>1. CASE now = 0
    <3>1. PICK w : w = Closed(ui)
      BY Zenon
    <3>2. IsUi(w) /\ w.layer = "OFF" /\ w.list = ui.list /\ (w.entries = <<>> \/ w.entries = ui.entries)
      BY <1>5, <3>1 DEF Closed, IsUi
    <3>3. IsList(<<>>)
      BY DEF IsList
    <3>4. ui' = w
      BY <1>4, <2>1, <3>1
    <3>5. w.layer \in BattleLayers /\ w.layer \notin Sub /\ IsList(w.entries) /\ w.list \in Nat
      BY <1>5, <1>9, <3>2, <3>3, Zenon
    <3> QED BY <3>2, <3>4, <3>5, ListShown, Zenon
  <2>2. CASE now # 0 /\ now' = TARGET
    <3>1. ui' = Enter(u, "TARGET")
      BY <1>4, <2>2
    <3> QED BY <1>10, <3>1, Zenon
  <2>3. CASE now # 0 /\ now' # TARGET /\ u.layer \in Sub /\ now' = WAIT
    <3>1. ui' = Enter(u, "IDLE")
      BY <1>4, <2>3
    <3> QED BY <1>10, <3>1, Zenon
  <2>4. CASE now # 0 /\ now' # TARGET /\ u.layer \in Sub /\ now' # WAIT
    <3>1. ui' = u
      BY <1>4, <2>4
    <3>2. now \notin Away /\ now' \notin Away
      BY <1>2, <1>4, <2>4 DEF Outcomes, Away, TARGET, WAIT
    <3>3. u.entries = Shown(u.layer)
      BY <1>1, <1>6, <2>4, <3>2, Zenon DEF UiInv
    <3> QED BY <1>1, <1>5, <1>6, <1>8, <3>1, <3>2, <3>3, ListShown, Zenon
  <2>5. CASE now # 0 /\ now' # TARGET /\ u.layer \notin Sub /\ now' = 1
    <3>1. ui' = Enter(u, "COMMAND")
      BY <1>4, <2>5
    <3> QED BY <1>10, <3>1, Zenon
  <2>6. CASE now # 0 /\ now' # TARGET /\ u.layer \notin Sub /\ now' # 1
    <3>1. ui' = IF u.layer = "COMMAND" THEN Enter(u, "IDLE")
                ELSE IF u.layer \in {"OFF", "TARGET"} THEN [u EXCEPT !.layer = "IDLE"] ELSE u
      BY <1>4, <2>6
    <3>2. CASE u.layer = "COMMAND"
      BY <1>10, <3>1, <3>2, Zenon
    <3>3. CASE u.layer # "COMMAND" /\ u.layer \in {"OFF", "TARGET"}
      <4>1. PICK w : w = [u EXCEPT !.layer = "IDLE"]
        BY Zenon
      <4>2. IsUi(w) /\ w.layer = "IDLE" /\ w.list = u.list /\ w.entries = u.entries
        BY <1>6, <4>1 DEF IsUi
      <4>3. ui' = w
        BY <3>1, <3>3, <4>1, Zenon
      <4>4. w.layer \in BattleLayers /\ w.layer \notin Sub /\ IsList(w.entries) /\ w.list \in Nat
        BY <1>5, <1>6, <1>8, <1>9, <4>2, Zenon
      <4> QED BY <4>2, <4>3, <4>4, ListShown, Zenon
    <3>4. CASE u.layer # "COMMAND" /\ u.layer \notin {"OFF", "TARGET"}
      <4>1. ui' = u
        BY <3>1, <3>4, Zenon
      <4> QED BY <1>5, <1>6, <1>8, <2>6, <4>1, ListShown, Zenon
    <3> QED BY <3>2, <3>3, <3>4, Zenon
  <2> QED BY <2>1, <2>2, <2>3, <2>4, <2>5, <2>6, Zenon
<1> QED BY <1>1, <1>11, Zenon DEF BattleInv

LEMMA ConfirmEntryKeeps ==
    ASSUME BattleInv, ConfirmEntry, polled, polled' = FALSE, UNCHANGED player
    PROVE  BattleInv'
<1>1. /\ player \in Holders /\ AllStocked(battle_bag) /\ UiInv(ui)
      /\ IsUi(ui) /\ IsList(ui.entries) /\ ui.list \in Nat /\ ui.layer \in BattleLayers
  BY Zenon DEF BattleInv, UiInv
<1>2. PICK u : u = ClampList(ui)
  BY Zenon
<1>3. Clamped(ui, u)
  BY <1>1, <1>2, ClampListIs, Zenon
<1>4. PICK it, c : it = BattleView(u)[u.list + 1] /\ c = IF u.layer = "SPECIAL" THEN 0 ELSE u.cat
  BY Zenon
<1>5. PICK idx, native : idx = NativeIndex(u.layer, c, it.temp, u.list) /\ native = Native(u.layer, c)
  BY Zenon
<1>6. PICK got : got = IF idx \in DOMAIN native THEN native[idx].temp ELSE 0
  BY Zenon
<1>7. /\ ui.layer \in Sub /\ BattleView(u) # <<>> /\ ui' = u
      /\ chosen' = [shown |-> it.temp, got |-> got, placed |-> Placed(u.layer, it)]
      /\ \E out \in Outcomes(NowOf[u.layer]) :
            /\ now' = IF out = NowOf[u.layer] THEN 1 ELSE out
            /\ IF u.layer = "ITEM" /\ out = WAIT THEN UseUp(got) ELSE UNCHANGED battle_bag
  BY <1>2, <1>4, <1>5, <1>6, Zenon DEF ConfirmEntry
<1>8. /\ IsUi(u) /\ u.layer = ui.layer /\ u.entries = ui.entries /\ u.list \in Nat
      /\ u.list + 1 \in DOMAIN BattleView(u)
  BY <1>3, <1>7, Zenon DEF Clamped
<1>9. u.entries = Shown(u.layer)
  BY <1>1, <1>7, <1>8, Zenon DEF UiInv
<1>10. Placed(u.layer, it) => idx \in DOMAIN native /\ native[idx].temp = it.temp
  <2> SUFFICES ASSUME Placed(u.layer, it) PROVE idx \in DOMAIN native /\ native[idx].temp = it.temp
    BY Zenon
  <2>1. Confirms(u, it, c, native, idx) /\ u.layer \in Sub
    BY <1>4, <1>5, <1>7, <1>8, Zenon DEF Confirms
  <2>2. Finds(native, it.temp, idx)
    BY <1>1, <1>8, <1>9, <2>1, ConfirmedIsShown, Zenon
  <2> QED BY <2>2, Zenon DEF Finds
<1>11. chosen'.placed => chosen'.shown = chosen'.got
  <2>1. Placed(u.layer, it) => got = it.temp
    BY <1>6, <1>10, Zenon
  <2>2. PICK p : p = Placed(u.layer, it)
    BY Zenon
  <2>3. chosen' = [shown |-> it.temp, got |-> got, placed |-> p] /\ (p => got = it.temp)
    BY <1>7, <2>1, <2>2, Zenon
  <2> QED BY <2>3
<1>12. PICK out \in Outcomes(NowOf[u.layer]) :
            /\ now' = IF out = NowOf[u.layer] THEN 1 ELSE out
            /\ IF u.layer = "ITEM" /\ out = WAIT THEN UseUp(got) ELSE UNCHANGED battle_bag
  BY <1>7, Zenon
<1>13. AllStocked(battle_bag')
  BY <1>1, <1>12, UseUpIsStocked, Zenon
<1>14. UiInv(ui)'
  <2>1. CASE battle_bag' = battle_bag
    BY <1>1, <1>7, <1>8, <1>9, <2>1, ListShown, Zenon
  <2>2. CASE battle_bag' # battle_bag
    <3>1. u.layer = "ITEM" /\ out = WAIT
      BY <1>12, <2>2, Zenon
    <3>2. NowOf[u.layer] # WAIT
      BY <3>1 DEF NowOf, Sub, WAIT
    <3>3. now' \in Away
      BY <1>12, <3>1, <3>2, Zenon DEF Away
    <3>4. UiInv(u)'
      BY <1>1, <1>8, <3>3, Zenon DEF UiInv
    <3> QED BY <1>7, <3>4, Zenon DEF UiInv
  <2> QED BY <2>1, <2>2, Zenon
<1> QED BY <1>1, <1>11, <1>13, <1>14, Zenon DEF BattleInv

LEMMA ButtonKeeps == ASSUME BattleInv, Button PROVE BattleInv'
<1>1. /\ player \in Holders /\ AllStocked(battle_bag) /\ (chosen.placed => chosen.shown = chosen.got) /\ UiInv(ui)
      /\ IsUi(ui) /\ IsList(ui.entries) /\ ui.list \in Nat /\ ui.layer \in BattleLayers
      /\ polled /\ polled' = FALSE /\ player' = player
  BY Zenon DEF BattleInv, UiInv, Button
<1>2. ui.layer \in Sub => ui.entries = Shown(ui.layer)
  BY <1>1, Zenon DEF UiInv
<1>3. \A l \in Sub : IsList(Shown(l))
  BY <1>1, ShownIs, Zenon
<1>4. Sub \subseteq BattleLayers /\ "COMMAND" \in BattleLayers /\ "COMMAND" \notin Sub
  BY DEF BattleLayers, Sub
<1>5. ASSUME UiInv(ui)', UNCHANGED <<battle_bag, chosen>> PROVE BattleInv'
  BY <1>1, <1>5, Zenon DEF BattleInv
<1>6. ASSUME NEW v, ui' = v, IsUi(v), IsList(v.entries), v.list \in Nat, v.layer \in BattleLayers,
             v.layer \in Sub => v.entries = Shown(v.layer), UNCHANGED <<battle_bag, chosen>>
      PROVE  BattleInv'
  BY <1>1, <1>5, <1>6, ListShown, Zenon
<1>7. CASE ConfirmCommand
  <2>1. UNCHANGED <<battle_bag, chosen>> /\ ui.layer = "COMMAND"
    BY <1>7, Zenon DEF ConfirmCommand
  <2>2. PICK slot : slot = ui.pack[ui.focus + 1].slot
    BY Zenon
  <2>3. \/ slot \in 1..3 /\ ui' = Enter(ui, <<"MAGIC", "ITEM", "SPECIAL">>[slot])
        \/ ui' = ui
        \/ ui' = [ui EXCEPT !.ok_cmd = slot + 1]
    BY <1>7, <2>2, Zenon DEF ConfirmCommand
  <2>4. CASE slot \in 1..3 /\ ui' = Enter(ui, <<"MAGIC", "ITEM", "SPECIAL">>[slot])
    <3>1. PICK l : l = <<"MAGIC", "ITEM", "SPECIAL">>[slot]
      BY Zenon
    <3>2. l \in Sub
      BY <2>4, <3>1 DEF Sub
    <3>3. PICK w : w = Enter(ui, l) /\ Entered(ui, l, w)
      BY <1>1, <1>3, <1>4, <3>2, EnterIs, Zenon
    <3>4. ui' = w /\ IsUi(w) /\ w.layer = l /\ w.list \in Nat /\ IsList(w.entries) /\ w.entries = Shown(l)
      BY <1>4, <2>1, <2>4, <3>1, <3>2, <3>3, Zenon DEF Entered
    <3> QED BY <1>4, <1>6, <2>1, <3>2, <3>4, Zenon
  <2>5. CASE ui' = ui
    BY <1>1, <1>2, <1>6, <2>1, <2>5, Zenon
  <2>6. CASE ui' = [ui EXCEPT !.ok_cmd = slot + 1]
    <3>1. PICK w : w = [ui EXCEPT !.ok_cmd = slot + 1]
      BY Zenon
    <3>2. IsUi(w) /\ w.layer = ui.layer /\ w.list = ui.list /\ w.entries = ui.entries
      BY <1>1, <3>1 DEF IsUi
    <3> QED BY <1>1, <1>2, <1>6, <2>1, <2>6, <3>1, <3>2, Zenon
  <2> QED BY <2>3, <2>4, <2>5, <2>6, Zenon
<1>8. CASE ConfirmEntry
  BY <1>1, <1>8, ConfirmEntryKeeps, Zenon
<1>9. CASE BattleBack
  <2>1. UNCHANGED <<battle_bag, chosen>> /\ ui' = Enter(ui, "COMMAND")
    BY <1>9, Zenon DEF BattleBack
  <2>2. PICK w : w = Enter(ui, "COMMAND") /\ Entered(ui, "COMMAND", w)
    BY <1>1, <1>4, EnterIs, Zenon
  <2>3. ui' = w /\ IsUi(w) /\ w.layer = "COMMAND" /\ w.list \in Nat /\ IsList(w.entries)
    BY <2>1, <2>2, Zenon DEF Entered
  <2> QED BY <1>4, <1>6, <2>1, <2>3, Zenon
<1>10. ASSUME NEW d \in {-1, 1}, MoveCat(d) PROVE BattleInv'
  <2>1. UNCHANGED <<battle_bag, chosen>>
    BY <1>10, Zenon DEF MoveCat
  <2>2. PICK v : v = [ui EXCEPT !.cat = (@ + d + CatN(ui)) % CatN(ui), !.list = 0]
    BY Zenon
  <2>3. IsUi(v) /\ v.layer = ui.layer /\ v.entries = ui.entries /\ v.list = 0
    BY <1>1, <2>2 DEF IsUi
  <2>4. ui' = ClampList(v)
    BY <1>10, <2>2, Zenon DEF MoveCat
  <2>5. v.list \in Nat
    BY <2>3
  <2>6. PICK w : w = ClampList(v) /\ Clamped(v, w)
    BY <1>1, <2>3, <2>5, ClampListIs, Zenon
  <2>7. ui' = w /\ IsUi(w) /\ w.layer = ui.layer /\ w.entries = ui.entries /\ w.list \in Nat
    BY <2>3, <2>4, <2>6, Zenon DEF Clamped
  <2> QED BY <1>1, <1>2, <1>6, <2>1, <2>7, Zenon
<1>11. ASSUME NEW d \in {-1, 1}, MoveList(d) PROVE BattleInv'
  <2>1. UNCHANGED <<battle_bag, chosen>>
    BY <1>11, Zenon DEF MoveList
  <2>2. PICK n, to : n = Len(BattleView(ui)) /\ to = IF n = 0 THEN ui.list ELSE IF ui.list + d < 0 THEN n - 1
                                                    ELSE IF ui.list + d >= n THEN 0 ELSE ui.list + d
    BY Zenon
  <2>3. ui' = [ui EXCEPT !.list = to]
    BY <1>11, <2>2, Zenon DEF MoveList
  <2>4. n \in Nat
    BY <1>1, <2>2, ViewIs, Zenon DEF IsList
  <2>5. to \in Nat
    BY <1>1, <2>2, <2>4
  <2>6. PICK w : w = [ui EXCEPT !.list = to]
    BY Zenon
  <2>7. IsUi(w) /\ w.layer = ui.layer /\ w.list = to /\ w.entries = ui.entries
    BY <1>1, <2>6 DEF IsUi
  <2> QED BY <1>1, <1>2, <1>6, <2>1, <2>3, <2>5, <2>6, <2>7, Zenon
<1>12. ASSUME NEW dir \in 0..3, MoveCommand(dir) PROVE BattleInv'
  <2>1. UNCHANGED <<battle_bag, chosen>>
    BY <1>12, Zenon DEF MoveCommand
  <2>2. PICK to : to = FocusCmd(ui.pack, ui.focus, dir)
    BY Zenon
  <2>3. ui' = [ui EXCEPT !.focus = to]
    BY <1>12, <2>2, Zenon DEF MoveCommand
  <2>4. PICK w : w = [ui EXCEPT !.focus = to]
    BY Zenon
  <2>5. IsUi(w) /\ w.layer = ui.layer /\ w.list = ui.list /\ w.entries = ui.entries
    BY <1>1, <2>4 DEF IsUi
  <2> QED BY <1>1, <1>2, <1>6, <2>1, <2>3, <2>4, <2>5, Zenon
<1> QED BY <1>7, <1>8, <1>9, <1>10, <1>11, <1>12, Zenon DEF Button

\* The guest goes on when the overlay has followed.
LEMMA GuestKeeps == ASSUME BattleInv, Guest PROVE BattleInv'
<1>1. /\ player \in Holders /\ AllStocked(battle_bag) /\ (chosen.placed => chosen.shown = chosen.got) /\ UiInv(ui)
      /\ IsUi(ui) /\ IsList(ui.entries) /\ ui.list \in Nat /\ ui.layer \in BattleLayers
      /\ polled /\ polled' = FALSE /\ ui' = ui
  BY Zenon DEF BattleInv, UiInv, Guest
<1>2. ui.layer \in Sub => ui.entries = Shown(ui.layer) /\ now \notin Away
  BY <1>1, Zenon DEF UiInv
<1>3. ASSUME ui.layer \in Sub => UNCHANGED <<battle_bag, player>>, player' \in Holders, AllStocked(battle_bag'),
             (chosen'.placed => chosen'.shown = chosen'.got)
      PROVE  BattleInv'
  <2>1. UiInv(ui)'
    BY <1>1, <1>2, <1>3, ListShown, Zenon
  <2> QED BY <1>3, <2>1, Zenon DEF BattleInv
<1>4. CASE GuestTurn
  <2>1. now \in Away /\ player' \in Actors /\ chosen' = NoChoice /\ battle_bag' = battle_bag
    BY <1>4, Zenon DEF GuestTurn, Away
  <2>2. chosen'.placed => chosen'.shown = chosen'.got
    BY <2>1 DEF NoChoice
  <2>3. player' \in Holders
    BY <2>1, Zenon DEF Holders
  <2> QED BY <1>1, <1>2, <1>3, <2>1, <2>2, <2>3, Zenon
<1>5. CASE GuestTarget
  <2>1. /\ now \in Away /\ UNCHANGED <<player, chosen>>
        /\ battle_bag' = battle_bag \/ UseUp(chosen.got)
    BY <1>5, Zenon DEF GuestTarget, Away
  <2>2. AllStocked(battle_bag')
    BY <1>1, <2>1, UseUpIsStocked, Zenon
  <2> QED BY <1>1, <1>2, <1>3, <2>1, <2>2, Zenon
<1>6. CASE GuestCancel \/ GuestMessage
  <2>1. UNCHANGED <<player, chosen, battle_bag>>
    BY <1>6, Zenon DEF GuestCancel, GuestMessage
  <2> QED BY <1>1, <1>3, <2>1, Zenon
<1>7. CASE BattleEnds
  <2>1. now \in Away /\ player' = -1 /\ chosen' = NoChoice /\ battle_bag' = BattleItems
    BY <1>7, Zenon DEF BattleEnds, Away
  <2>2. chosen'.placed => chosen'.shown = chosen'.got
    BY <2>1 DEF NoChoice
  <2>3. player' \in Holders
    BY <2>1, Zenon DEF Holders
  <2> QED BY <2>3, <1>2, <1>3, <2>1, <2>2, ListsAreStocked, Zenon
<1> QED BY <1>4, <1>5, <1>6, <1>7, Zenon DEF Guest

\* What is confirmed in the battle overlay is what the guest uses: for any
\* actors, skills and items, and any mixture of turns, refusals, cancelled
\* targets, messages and fights in between (host_battle_menu.c), the index that
\* battle_confirm_entry gives the guest is the place of the entry on the screen
\* in the guest's own list, although the screen has another division into pages
\* and an older copy.  Nothing is assumed of the lists; the entries that the guest's
\* pages do not have (Placed) are the ones the property leaves out.
THEOREM BattleConfirmsWhatItShows == BattleSpec => []ConfirmsShownEntry
<1>1. BattleInit => BattleInv
  <2> SUFFICES ASSUME BattleInit PROVE BattleInv
    OBVIOUS
  <2>1. /\ IsUi(ui) /\ IsList(ui.entries) /\ ui.list \in Nat /\ ui.layer = "OFF" /\ (chosen.placed => chosen.shown = chosen.got) /\ player = -1
        /\ battle_bag = BattleItems
    BY DEF BattleInit, IsUi, IsList, NoChoice
  <2>3. player \in Holders
    BY <2>1, Zenon DEF Holders
  <2>2. "OFF" \in BattleLayers /\ "OFF" \notin Sub
    BY DEF BattleLayers, Sub
  <2> QED BY <2>1, <2>2, <2>3, ListsAreStocked, Zenon DEF BattleInv, UiInv
<1>2. BattleInv /\ [BattleNext]_battleVars => BattleInv'
  <2> SUFFICES ASSUME BattleInv, [BattleNext]_battleVars PROVE BattleInv'
    OBVIOUS
  <2>1. CASE UNCHANGED battleVars
    <3>1. UNCHANGED <<ui, now, player, battle_bag, polled, chosen>>
      BY <2>1, Zenon DEF battleVars, battle_guest
    <3>2. Shown(ui.layer)' = Shown(ui.layer)
      BY <3>1, ShownStays, Zenon
    <3> QED BY <3>1, <3>2, Zenon DEF BattleInv, UiInv
  <2> QED BY <2>1, PollKeeps, ButtonKeeps, GuestKeeps, Zenon DEF BattleNext
<1>3. BattleInv => ConfirmsShownEntry
  BY Zenon DEF BattleInv, ConfirmsShownEntry
<1> QED BY <1>1, <1>2, <1>3, PTL DEF BattleSpec

-----------------------------------------------------------------------------
(* The field menu: nodes and units.                                        *)

IsBag(b) ==
    /\ b \in Seq(Item) /\ \A i \in DOMAIN b : b[i].count + b[i].new > 0
    /\ \A i, j \in DOMAIN b : b[i].kind = b[j].kind => i = j

UnitsAt(it) == it.count + it.new

LEMMA UnitsIs ==
    ASSUME NEW b, IsBag(b), NEW k
    PROVE  /\ \A i \in DOMAIN b : b[i].kind = k => Units(b, k) = UnitsAt(b[i])
           /\ ~Has(b, k) => Units(b, k) = 0
<1>1. PICK at : at = {i \in DOMAIN b : b[i].kind = k}
  BY Zenon
<1>2. Units(b, k) = IF at = {} THEN 0 ELSE UnitsAt(b[CHOOSE j \in at : TRUE])
  BY <1>1 DEF Units, UnitsAt
<1>3. ASSUME NEW i \in DOMAIN b, b[i].kind = k PROVE Units(b, k) = UnitsAt(b[i])
  <2>1. PICK c : c = CHOOSE j \in at : TRUE
    BY Zenon
  <2>2. i \in at
    BY <1>1, <1>3, Zenon
  <2>3. c \in at
    BY <2>1, <2>2, Zenon
  <2>4. c = i
    BY <1>1, <1>3, <2>3, Zenon DEF IsBag
  <2> QED BY <1>2, <2>1, <2>2, <2>4, Zenon
<1>4. ~Has(b, k) => at = {}
  BY <1>1, Zenon DEF Has
<1> QED BY <1>2, <1>3, <1>4, Zenon

LEMMA ItemIs ==
    ASSUME NEW it \in Item
    PROVE  /\ it.kind \in Kinds /\ it.count \in Nat /\ it.new \in Nat /\ UnitsAt(it) \in Nat
           /\ \A c \in Nat : /\ [it EXCEPT !.count = c] \in Item /\ [it EXCEPT !.count = c].kind = it.kind
                             /\ UnitsAt([it EXCEPT !.count = c]) = c + it.new
           /\ \A n \in Nat : /\ [it EXCEPT !.new = n] \in Item /\ [it EXCEPT !.new = n].kind = it.kind
                             /\ UnitsAt([it EXCEPT !.new = n]) = it.count + n
BY DEF Item, UnitsAt

\* One unit is taken of a node, if it has one where it is taken.
LEMMA TakenIs ==
    ASSUME NEW it \in Item, UnitsAt(it) > 0, NEW from_new, from_new \/ it.count > 0
    PROVE  /\ Taken(it, from_new) \in Item /\ Taken(it, from_new).kind = it.kind
           /\ UnitsAt(Taken(it, from_new)) = UnitsAt(it) - 1
<1>1. it.count \in Nat /\ it.new \in Nat /\ it.count + it.new > 0
  BY ItemIs DEF UnitsAt
<1>2. CASE from_new /\ it.new <= 1
  <2>1. PICK c, z : c = it.count + it.new - 1 /\ z = [it EXCEPT !.count = c]
    BY Zenon
  <2>2. Taken(it, from_new) = [z EXCEPT !.new = 0]
    BY <1>2, <2>1 DEF Taken
  <2>3. c \in Nat
    BY <1>1, <2>1
  <2>4. z \in Item /\ z.kind = it.kind /\ z.count = c
    BY <2>1, <2>3 DEF Item
  <2>5. /\ [z EXCEPT !.new = 0] \in Item /\ [z EXCEPT !.new = 0].kind = z.kind
        /\ UnitsAt([z EXCEPT !.new = 0]) = z.count + 0
    BY <2>4, ItemIs
  <2> QED BY <1>1, <2>1, <2>2, <2>3, <2>4, <2>5 DEF UnitsAt
<1>3. CASE from_new /\ ~(it.new <= 1)
  <2>1. Taken(it, from_new) = [it EXCEPT !.new = @ - 1]
    BY <1>3, Zenon DEF Taken
  <2>2. it.new - 1 \in Nat
    BY <1>1, <1>3
  <2> QED BY <1>1, <2>1, <2>2 DEF Item, UnitsAt
<1>4. CASE ~from_new
  <2>1. Taken(it, from_new) = [it EXCEPT !.count = @ - 1]
    BY <1>4, Zenon DEF Taken
  <2>2. it.count - 1 \in Nat
    BY <1>1, <1>4
  <2> QED BY <1>1, <2>1, <2>2 DEF Item, UnitsAt
<1> QED BY <1>2, <1>3, <1>4, Zenon

\* The bag in which only the units of one kind are others.
Changes(b, c, k, d) ==
    /\ IsBag(c) /\ Units(c, k) = Units(b, k) + d
    /\ \A x : x # k => Units(c, x) = Units(b, x)

\* A node is written,
LEMMA NodeWritten ==
    ASSUME NEW b, IsBag(b), NEW i \in DOMAIN b, NEW it \in Item, it.kind = b[i].kind, UnitsAt(it) > 0
    PROVE  Changes(b, [b EXCEPT ![i] = it], it.kind, UnitsAt(it) - UnitsAt(b[i]))
<1>1. PICK c : c = [b EXCEPT ![i] = it]
  BY Zenon
<1>2. b \in Seq(Item) /\ b[i] \in Item
  BY DEF IsBag
<1>3. c \in Seq(Item) /\ DOMAIN c = DOMAIN b /\ c[i] = it /\ \A j \in DOMAIN b : j # i => c[j] = b[j]
  BY <1>1, <1>2
<1>4. \A j \in DOMAIN b : c[j].kind = b[j].kind
  BY <1>3, Zenon
<1>5. \A j \in DOMAIN c : c[j].count + c[j].new > 0
  BY <1>3, Zenon DEF IsBag, UnitsAt
<1>6. IsBag(c)
  BY <1>3, <1>4, <1>5, Zenon DEF IsBag
<1>7. Units(c, it.kind) = UnitsAt(it) /\ Units(b, it.kind) = UnitsAt(b[i])
  BY <1>3, <1>6, UnitsIs, Zenon
<1>8. UnitsAt(it) \in Nat /\ UnitsAt(b[i]) \in Nat
  BY <1>2, ItemIs, Zenon
<1>9. ASSUME NEW x, x # it.kind PROVE Units(c, x) = Units(b, x)
  <2>1. CASE Has(b, x)
    <3>1. PICK j \in DOMAIN b : b[j].kind = x
      BY <2>1, Zenon DEF Has
    <3>2. j # i
      BY <1>9, <3>1, Zenon
    <3>3. Units(b, x) = UnitsAt(b[j]) /\ Units(c, x) = UnitsAt(c[j])
      BY <1>3, <1>4, <1>6, <3>1, UnitsIs, Zenon
    <3> QED BY <1>3, <3>1, <3>2, <3>3, Zenon
  <2>2. CASE ~Has(b, x)
    <3>1. ~Has(c, x)
      BY <1>3, <1>4, <2>2, Zenon DEF Has
    <3> QED BY <1>6, <2>2, <3>1, UnitsIs, Zenon
  <2> QED BY <2>1, <2>2, Zenon
<1>10. Units(c, it.kind) = Units(b, it.kind) + (UnitsAt(it) - UnitsAt(b[i]))
  BY <1>7, <1>8
<1> QED BY <1>1, <1>6, <1>9, <1>10, Zenon DEF Changes

\* a node is removed,
LEMMA RemovedIs ==
    ASSUME NEW b \in Seq(Item), NEW i \in DOMAIN b
    PROVE  /\ RemoveAt(b, i) \in Seq(Item) /\ DOMAIN RemoveAt(b, i) = 1..(Len(b) - 1)
           /\ \A j \in 1..(Len(b) - 1) : RemoveAt(b, i)[j] = IF j < i THEN b[j] ELSE b[j + 1]
<1>1. Len(b) \in Nat /\ i \in 1..Len(b)
  OBVIOUS
<1>2. PICK l, r : l = SubSeq(b, 1, i - 1) /\ r = SubSeq(b, i + 1, Len(b))
  BY Zenon
<1>3. l \in Seq(Item) /\ Len(l) = i - 1 /\ \A j \in 1..(i - 1) : l[j] = b[j]
  BY <1>1, <1>2
<1>4. r \in Seq(Item) /\ Len(r) = Len(b) - i /\ \A j \in 1..(Len(b) - i) : r[j] = b[i + j]
  BY <1>1, <1>2
<1>5. RemoveAt(b, i) = l \o r
  BY <1>2, Zenon DEF RemoveAt
<1>6. l \o r \in Seq(Item) /\ Len(l \o r) = Len(b) - 1
  BY <1>1, <1>3, <1>4
<1>7. ASSUME NEW j \in 1..(Len(b) - 1) PROVE (l \o r)[j] = IF j < i THEN b[j] ELSE b[j + 1]
  <2>1. CASE j < i
    BY <1>1, <1>3, <1>4, <2>1
  <2>2. CASE ~(j < i)
    <3>1. (l \o r)[j] = r[j - (i - 1)] /\ j - (i - 1) \in 1..(Len(b) - i)
      BY <1>1, <1>3, <1>4, <2>2
    <3>2. i + (j - (i - 1)) = j + 1
      BY <1>1
    <3> QED BY <1>4, <2>2, <3>1, <3>2
  <2> QED BY <2>1, <2>2, Zenon
<1> QED BY <1>5, <1>6, <1>7

LEMMA NodeRemoved ==
    ASSUME NEW b, IsBag(b), NEW i \in DOMAIN b
    PROVE  Changes(b, RemoveAt(b, i), b[i].kind, 0 - UnitsAt(b[i]))
<1>1. PICK c, m : c = RemoveAt(b, i) /\ m = Len(b) - 1
  BY Zenon
<1>2. b \in Seq(Item) /\ b[i] \in Item /\ DOMAIN b = 1..(m + 1) /\ m \in Nat /\ i \in 1..(m + 1)
  BY <1>1 DEF IsBag
<1>3. c \in Seq(Item) /\ DOMAIN c = 1..m /\ \A j \in 1..m : c[j] = IF j < i THEN b[j] ELSE b[j + 1]
  BY <1>1, <1>2, RemovedIs, Zenon
\* Where a node was, and where it is then.
<1> DEFINE From(j) == IF j < i THEN j ELSE j + 1
<1>4. \A j \in 1..m : From(j) \in DOMAIN b /\ From(j) # i
  BY <1>2
<1>5. \A j, h \in 1..m : From(j) = From(h) => j = h
  BY <1>2
<1>6. \A j \in 1..m : c[j] = b[From(j)]
  BY <1>3, Zenon
<1>7. ASSUME NEW h \in DOMAIN b, h # i PROVE \E j \in 1..m : From(j) = h
  <2>1. CASE h < i
    <3>1. h \in 1..m /\ From(h) = h
      BY <1>2, <2>1
    <3> QED BY <3>1, Zenon
  <2>2. CASE ~(h < i)
    <3>1. h - 1 \in 1..m /\ From(h - 1) = h
      BY <1>2, <1>7, <2>2
    <3> QED BY <3>1, Zenon
  <2> QED BY <2>1, <2>2, Zenon
<1> HIDE DEF From
<1>8. IsBag(c)
  <2>1. \A j \in DOMAIN c : c[j].count + c[j].new > 0
    BY <1>3, <1>4, <1>6, Zenon DEF IsBag
  <2>2. ASSUME NEW j \in DOMAIN c, NEW h \in DOMAIN c, c[j].kind = c[h].kind PROVE j = h
    <3>1. From(j) = From(h)
      <4>1. From(j) \in DOMAIN b /\ From(h) \in DOMAIN b
        BY <1>3, <1>4, Zenon
      <4>2. c[j] = b[From(j)] /\ c[h] = b[From(h)]
        BY <1>3, <1>6, Zenon
      <4>3. b[From(j)].kind = b[From(h)].kind
        BY <2>2, <4>2, Zenon
      <4> QED BY <4>1, <4>3, Zenon DEF IsBag
    <3> QED BY <1>3, <1>5, <3>1, Zenon
  <2> QED BY <1>3, <2>1, <2>2, Zenon DEF IsBag
<1>9. Units(b, b[i].kind) = UnitsAt(b[i]) /\ UnitsAt(b[i]) \in Nat
  BY <1>2, UnitsIs, ItemIs, Zenon
<1>10. Units(c, b[i].kind) = 0
  <2>1. ASSUME NEW j \in 1..m, c[j].kind = b[i].kind PROVE FALSE
    <3>1. From(j) \in DOMAIN b /\ From(j) # i /\ b[From(j)].kind = b[i].kind
      BY <1>4, <1>6, <2>1, Zenon
    <3> QED BY <3>1, Zenon DEF IsBag
  <2>2. ~Has(c, b[i].kind)
    BY <1>3, <2>1, Zenon DEF Has
  <2> QED BY <1>8, <2>2, UnitsIs, Zenon
<1>11. ASSUME NEW x, x # b[i].kind PROVE Units(c, x) = Units(b, x)
  <2>1. CASE Has(b, x)
    <3>1. PICK h \in DOMAIN b : b[h].kind = x
      BY <2>1, Zenon DEF Has
    <3>2. PICK j \in 1..m : From(j) = h
      BY <1>7, <1>11, <3>1, Zenon
    <3>3. c[j] = b[h] /\ j \in DOMAIN c
      BY <1>3, <1>6, <3>2, Zenon
    <3>4. Units(b, x) = UnitsAt(b[h]) /\ Units(c, x) = UnitsAt(c[j])
      BY <1>8, <3>1, <3>3, UnitsIs, Zenon
    <3> QED BY <3>3, <3>4, Zenon
  <2>2. CASE ~Has(b, x)
    <3>1. ~Has(c, x)
      BY <1>3, <1>4, <1>6, <2>2, Zenon DEF Has
    <3> QED BY <1>8, <2>2, <3>1, UnitsIs, Zenon
  <2> QED BY <2>1, <2>2, Zenon
<1>12. Units(c, b[i].kind) = Units(b, b[i].kind) + (0 - UnitsAt(b[i]))
  BY <1>9, <1>10
<1> QED BY <1>1, <1>8, <1>11, <1>12, Zenon DEF Changes

\* or one is added at the end.
LEMMA NodeAdded ==
    ASSUME NEW b, IsBag(b), NEW it \in Item, UnitsAt(it) > 0, ~Has(b, it.kind)
    PROVE  Changes(b, Append(b, it), it.kind, UnitsAt(it))
<1>1. PICK c, n : c = Append(b, it) /\ n = Len(b)
  BY Zenon
<1>2. b \in Seq(Item) /\ DOMAIN b = 1..n /\ n \in Nat
  BY <1>1 DEF IsBag
<1>3. c \in Seq(Item) /\ DOMAIN c = 1..(n + 1) /\ c[n + 1] = it /\ \A j \in 1..n : c[j] = b[j]
  BY <1>1, <1>2
<1>4. 1..(n + 1) = 1..n \cup {n + 1} /\ n + 1 \notin 1..n
  BY <1>2
<1>5. \A j \in 1..n : b[j].kind # it.kind
  BY <1>2, Zenon DEF Has
<1>6. IsBag(c)
  <2>1. \A j \in DOMAIN c : c[j].count + c[j].new > 0
    BY <1>2, <1>3, <1>4, Zenon DEF IsBag, UnitsAt
  <2>2. ASSUME NEW j \in DOMAIN c, NEW h \in DOMAIN c, c[j].kind = c[h].kind PROVE j = h
    <3>1. (j \in 1..n \/ j = n + 1) /\ (h \in 1..n \/ h = n + 1)
      BY <1>3, <1>4, Zenon
    <3>2. CASE j \in 1..n /\ h \in 1..n
      BY <1>2, <1>3, <2>2, <3>2, Zenon DEF IsBag
    <3>3. CASE ~(j \in 1..n /\ h \in 1..n)
      BY <1>3, <1>5, <2>2, <3>1, <3>3, Zenon
    <3> QED BY <3>2, <3>3, Zenon
  <2> QED BY <1>3, <2>1, <2>2, Zenon DEF IsBag
<1>7. Units(b, it.kind) = 0 /\ Units(c, it.kind) = UnitsAt(it) /\ UnitsAt(it) \in Nat
  <2>1. n + 1 \in DOMAIN c
    BY <1>3, <1>4, Zenon
  <2> QED BY <1>3, <1>6, <2>1, UnitsIs, ItemIs, Zenon
<1>8. ASSUME NEW x, x # it.kind PROVE Units(c, x) = Units(b, x)
  <2>1. CASE Has(b, x)
    <3>1. PICK j \in 1..n : b[j].kind = x
      BY <1>2, <2>1, Zenon DEF Has
    <3>2. j \in DOMAIN c /\ c[j] = b[j]
      BY <1>3, <1>4, Zenon
    <3>3. Units(b, x) = UnitsAt(b[j]) /\ Units(c, x) = UnitsAt(c[j])
      BY <1>2, <1>6, <3>1, <3>2, UnitsIs, Zenon
    <3> QED BY <3>2, <3>3, Zenon
  <2>2. CASE ~Has(b, x)
    <3>1. ~Has(c, x)
      BY <1>2, <1>3, <1>4, <1>8, <2>2, Zenon DEF Has
    <3> QED BY <1>6, <2>2, <3>1, UnitsIs, Zenon
  <2> QED BY <2>1, <2>2, Zenon
<1>9. Units(c, it.kind) = Units(b, it.kind) + UnitsAt(it)
  BY <1>7
<1> QED BY <1>1, <1>6, <1>8, <1>9, Zenon DEF Changes

\* The guest's sort has the same nodes.
LEMMA NodesSorted ==
    ASSUME NEW b, IsBag(b), NEW c \in SetToSeqs(ToSet(b))
    PROVE  IsBag(c) /\ \A x : Units(c, x) = Units(b, x)
<1>1. PICK S, n : S = ToSet(b) /\ n = Cardinality(S)
  BY Zenon
<1>2. c \in [1..n -> S] /\ \A i, j \in 1..n : i # j => c[i] # c[j]
  BY <1>1, Zenon DEF SetToSeqs
<1>3. b \in Seq(Item) /\ Len(b) \in Nat /\ DOMAIN b = 1..Len(b) /\ \A i \in DOMAIN b : b[i] \in Item
  BY DEF IsBag
<1>4. \A y : y \in S <=> \E i \in DOMAIN b : y = b[i]
  BY <1>1, Zenon DEF ToSet
<1>5. IsFiniteSet(S)
  <2>1. [i \in 1..Len(b) |-> b[i]] \in Surjection(1..Len(b), S)
    <3>1. [i \in 1..Len(b) |-> b[i]] \in [1..Len(b) -> S]
      BY <1>3, <1>4, Zenon
    <3>2. \A y \in S : \E i \in 1..Len(b) : [j \in 1..Len(b) |-> b[j]][i] = y
      BY <1>3, <1>4, Zenon
    <3> QED BY <3>1, <3>2, Zenon DEF Surjection
  <2>2. IsFiniteSet(1..Len(b))
    BY <1>3, FS_Interval
  <2> QED BY <2>1, <2>2, FS_Surjection, Zenon
<1>6. n \in Nat
  BY <1>1, <1>5, FS_CardinalityType, Zenon
<1>7. c \in Seq(Item) /\ DOMAIN c = 1..n
  <2>1. \A y \in S : y \in Item
    BY <1>3, <1>4, Zenon
  <2> QED BY <1>2, <1>6, <2>1
<1>8. c \in Surjection(1..n, S)
  <2>1. c \in Injection(1..n, S)
    BY <1>2, Zenon DEF Injection, IsInjective
  <2>2. IsFiniteSet(1..n) /\ Cardinality(1..n) = n
    BY <1>6, FS_Interval
  <2> QED BY <1>1, <1>5, <2>1, <2>2, FS_Injection, Zenon
<1>9. \A i \in DOMAIN b : \E j \in DOMAIN c : c[j] = b[i]
  BY <1>4, <1>7, <1>8, Zenon DEF Surjection
<1>10. \A j \in DOMAIN c : \E i \in DOMAIN b : c[j] = b[i]
  BY <1>2, <1>4, <1>7, Zenon
<1>11. IsBag(c)
  <2>1. \A j \in DOMAIN c : c[j].count + c[j].new > 0
    BY <1>10, Zenon DEF IsBag
  <2>2. ASSUME NEW j \in DOMAIN c, NEW h \in DOMAIN c, c[j].kind = c[h].kind PROVE j = h
    <3>1. c[j] = c[h]
      BY <1>10, <2>2, Zenon DEF IsBag
    <3> QED BY <1>2, <1>7, <3>1, Zenon
  <2> QED BY <1>7, <2>1, <2>2, Zenon DEF IsBag
<1>12. ASSUME NEW x PROVE Units(c, x) = Units(b, x)
  <2>1. CASE Has(b, x)
    <3>1. PICK i \in DOMAIN b : b[i].kind = x
      BY <2>1, Zenon DEF Has
    <3>2. PICK j \in DOMAIN c : c[j] = b[i]
      BY <1>9, Zenon
    <3>3. Units(b, x) = UnitsAt(b[i]) /\ Units(c, x) = UnitsAt(c[j])
      BY <1>11, <3>1, <3>2, UnitsIs, Zenon
    <3> QED BY <3>2, <3>3, Zenon
  <2>2. CASE ~Has(b, x)
    <3>1. ~Has(c, x)
      BY <1>10, <2>2, Zenon DEF Has
    <3> QED BY <1>11, <2>2, <3>1, UnitsIs, Zenon
  <2> QED BY <2>1, <2>2, Zenon
<1> QED BY <1>11, <1>12, Zenon

-----------------------------------------------------------------------------
\* A unit leaves the bag, and its node if it was the last,
LEMMA UnitTaken ==
    ASSUME NEW b, IsBag(b), NEW i \in DOMAIN b, NEW from_new, from_new \/ b[i].count > 0,
           NEW it, it = Taken(b[i], from_new),
           NEW c, c = IF UnitsAt(it) = 0 THEN RemoveAt(b, i) ELSE [b EXCEPT ![i] = it]
    PROVE  Changes(b, c, b[i].kind, 0 - 1)
<1>1. b[i] \in Item /\ UnitsAt(b[i]) > 0
  BY DEF IsBag, UnitsAt
<1>2. it \in Item /\ it.kind = b[i].kind /\ UnitsAt(it) = UnitsAt(b[i]) - 1
  BY <1>1, TakenIs, Zenon
<1>3. UnitsAt(it) \in Nat /\ UnitsAt(b[i]) \in Nat
  BY <1>1, <1>2, ItemIs, Zenon
<1>4. CASE UnitsAt(it) = 0
  <2>1. 0 - UnitsAt(b[i]) = 0 - 1
    BY <1>2, <1>3, <1>4
  <2>2. Changes(b, RemoveAt(b, i), b[i].kind, 0 - UnitsAt(b[i]))
    BY NodeRemoved, Zenon
  <2> QED BY <1>4, <2>1, <2>2, Zenon
<1>5. CASE UnitsAt(it) # 0
  <2>1. UnitsAt(it) - UnitsAt(b[i]) = 0 - 1 /\ UnitsAt(it) > 0
    BY <1>2, <1>3, <1>5
  <2>2. Changes(b, [b EXCEPT ![i] = it], it.kind, UnitsAt(it) - UnitsAt(b[i]))
    BY <1>2, <2>1, NodeWritten, Zenon
  <2> QED BY <1>2, <1>5, <2>1, <2>2, Zenon
<1> QED BY <1>4, <1>5, Zenon

\* and one comes back.
LEMMA UnitBack ==
    ASSUME NEW b, IsBag(b), NEW k \in Kinds
    PROVE  Changes(b, Returned(b, k), k, 1)
<1>1. PICK at : at = {j \in DOMAIN b : b[j].kind = k}
  BY Zenon
<1>2. PICK c : c = Returned(b, k)
  BY Zenon
<1>3. c = IF at = {} THEN Append(b, [kind |-> k, count |-> 1, new |-> 0])
          ELSE [b EXCEPT ![CHOOSE j \in at : TRUE].count = @ + 1]
  BY <1>1, <1>2 DEF Returned
<1>4. CASE at = {}
  <2>1. PICK it : it = [kind |-> k, count |-> 1, new |-> 0]
    BY Zenon
  <2>2. it \in Item /\ it.kind = k /\ UnitsAt(it) = 1
    BY <2>1 DEF Item, UnitsAt
  <2>3. ~Has(b, k)
    BY <1>4, <1>1, Zenon DEF Has
  <2>4. UnitsAt(it) > 0
    BY <2>2
  <2>5. Changes(b, Append(b, it), it.kind, UnitsAt(it))
    BY <2>2, <2>3, <2>4, NodeAdded, Zenon
  <2> QED BY <1>4, <1>2, <1>3, <2>1, <2>2, <2>5, Zenon
<1>5. CASE at # {}
  <2>1. PICK i : i = CHOOSE j \in at : TRUE
    BY Zenon
  <2>2. i \in DOMAIN b /\ b[i].kind = k
    BY <1>5, <1>1, <2>1, Zenon
  <2>3. b \in Seq(Item) /\ b[i] \in Item
    BY <2>2 DEF IsBag
  <2>4. PICK it : it = [b[i] EXCEPT !.count = b[i].count + 1]
    BY Zenon
  <2>5. b[i].count \in Nat /\ b[i].count + 1 \in Nat /\ UnitsAt(b[i]) \in Nat
    BY <2>3, ItemIs
  <2>6. it \in Item /\ it.kind = k /\ UnitsAt(it) = b[i].count + 1 + b[i].new
    BY <2>2, <2>3, <2>4, <2>5, ItemIs, Zenon
  <2>7. UnitsAt(it) > 0 /\ UnitsAt(it) - UnitsAt(b[i]) = 1
    <3>1. b[i].new \in Nat
      BY <2>3, ItemIs, Zenon
    <3> QED BY <2>5, <2>6, <3>1 DEF UnitsAt
  <2>8. c = [b EXCEPT ![i] = it]
    BY <1>5, <1>3, <2>1, <2>4, Zenon
  <2>9. Changes(b, [b EXCEPT ![i] = it], it.kind, UnitsAt(it) - UnitsAt(b[i]))
    BY <2>2, <2>6, <2>7, NodeWritten, Zenon
  <2> QED BY <1>2, <2>6, <2>7, <2>8, <2>9, Zenon
<1> QED BY <1>4, <1>5, Zenon

\* host_menu_item_consume, on a node that is in the bag.
LEMMA ConsumeIs ==
    ASSUME IsBag(bag), g_bag = bag, NEW i \in DOMAIN bag, NEW from_new, from_new \/ bag[i].count > 0
    PROVE  Changes(bag, ItemConsume(bag[i].kind, from_new), bag[i].kind, 0 - 1)
<1>1. PICK k, at : k = bag[i].kind /\ at = {j \in DOMAIN bag : bag[j].kind = k}
  BY Zenon
<1>2. at = {i}
  BY <1>1, Zenon DEF IsBag
<1>3. PICK j : j = CHOOSE h \in at : TRUE
  BY Zenon
<1>4. j = i
  BY <1>2, <1>3, Zenon
<1>5. PICK it : it = Taken(bag[i], from_new)
  BY Zenon
<1>6. i <= Len(g_bag) + 1
  <2>1. bag \in Seq(Item)
    BY DEF IsBag
  <2> QED BY <2>1
<1>7. ItemConsume(k, from_new) =
          IF at = {} THEN bag
          ELSE IF Taken(bag[j], from_new).count + Taken(bag[j], from_new).new = 0 /\ j <= Len(g_bag) + 1
                  THEN RemoveAt(bag, j) ELSE [bag EXCEPT ![j] = Taken(bag[j], from_new)]
  BY <1>1, <1>3 DEF ItemConsume
<1>8. ItemConsume(k, from_new) = IF UnitsAt(it) = 0 THEN RemoveAt(bag, i) ELSE [bag EXCEPT ![i] = it]
  BY <1>2, <1>4, <1>5, <1>6, <1>7, Zenon DEF UnitsAt
<1> QED BY <1>1, <1>5, <1>8, UnitTaken, Zenon

\* The guest's exchange.
Exchanges(b, c, k, old) ==
    \E rest : Changes(b, rest, k, 0 - 1) /\ IF old = 0 THEN c = rest ELSE Changes(rest, c, old, 1)

LEMMA ExchangedIs ==
    ASSUME IsBag(bag), NEW i \in DOMAIN bag, NEW old \in Kinds \cup {0}
    PROVE  Exchanges(bag, Exchanged(bag[i].kind, old), bag[i].kind, old)
<1>1. PICK k, j : k = bag[i].kind /\ j = CHOOSE h \in DOMAIN bag : bag[h].kind = k
  BY Zenon
<1>2. j = i
  <2>1. j \in DOMAIN bag /\ bag[j].kind = bag[i].kind
    BY <1>1, Zenon
  <2> QED BY <2>1, Zenon DEF IsBag
<1>3. PICK it : it = Taken(bag[i], bag[i].count = 0)
  BY Zenon
<1>4. PICK rest : rest = IF UnitsAt(it) = 0 THEN RemoveAt(bag, i) ELSE [bag EXCEPT ![i] = it]
  BY Zenon
<1>5. bag[i].count = 0 \/ bag[i].count > 0
  <2>1. bag[i] \in Item
    BY DEF IsBag
  <2>2. bag[i].count \in Nat
    BY <2>1, ItemIs, Zenon
  <2> QED BY <2>2
<1>6. PICK from_new : from_new = (bag[i].count = 0)
  BY Zenon
<1>7. (from_new \/ bag[i].count > 0) /\ it = Taken(bag[i], from_new)
  BY <1>3, <1>5, <1>6, Zenon
<1>8. Changes(bag, rest, k, 0 - 1)
  BY <1>1, <1>4, <1>7, UnitTaken, Zenon
<1>9. PICK c : c = Returned(rest, old)
  BY Zenon
<1>10. Exchanged(k, old) = IF old = 0 THEN rest ELSE c
  BY <1>1, <1>2, <1>3, <1>4, <1>9, Zenon DEF Exchanged, UnitsAt
<1>11. old # 0 => Changes(rest, c, old, 1)
  <2>1. IsBag(rest)
    BY <1>8, Zenon DEF Changes
  <2> QED BY <1>9, <2>1, UnitBack, Zenon
<1> QED BY <1>1, <1>8, <1>10, <1>11, Zenon DEF Exchanges

-----------------------------------------------------------------------------
(* The field menu: what is worn.                                           *)

IsWorn(w) == w \in [Members -> [0..SlotN-1 -> Kinds \cup {0}]]

LEMMA PartyIsFinite == IsFiniteSet(Members) /\ IsFiniteSet(0..SlotN-1) /\ IsFiniteSet(Members \X (0..SlotN-1))
<1>1. PICK n \in 1..4 : Members = 0..n-1
  BY KindsAssumption, Zenon
<1>2. n - 1 \in Int /\ 0 \in Int /\ SlotN - 1 \in Int
  BY GameAssumption
<1>3. IsFiniteSet(0..n-1) /\ IsFiniteSet(0..SlotN-1)
  BY <1>2, FS_Interval, Zenon
<1> QED BY <1>1, <1>3, FS_Product, Zenon

\* The slots that hold a kind.
Holding(w, k) == {x \in Members \X (0..SlotN-1) : w[x[1]][x[2]] = k}

LEMMA HoldingIs ==
    ASSUME NEW w, NEW k
    PROVE  IsFiniteSet(Holding(w, k)) /\ Wearers(w, k) = Cardinality(Holding(w, k)) /\ Wearers(w, k) \in Nat
<1>1. Holding(w, k) \in SUBSET (Members \X (0..SlotN-1))
  BY Zenon DEF Holding
<1>2. IsFiniteSet(Holding(w, k))
  BY <1>1, PartyIsFinite, FS_Subset, Zenon
<1>3. Wearers(w, k) = Cardinality(Holding(w, k))
  BY Zenon DEF Wearers, Holding
<1> QED BY <1>2, <1>3, FS_CardinalityType, Zenon

One(x, y) == IF x = y THEN 1 ELSE 0

\* A slot is filled, and the others stay.
Puts(w, v, p, s, k) ==
    /\ IsWorn(v) /\ v[p][s] = k
    /\ \A h \in 0..SlotN-1 : h # s => v[p][h] = w[p][h]
    /\ \A m \in Members : m # p => v[m] = w[m]

WearersFollow(w, v, p, s, k, x) == Wearers(v, x) + One(x, w[p][s]) = Wearers(w, x) + One(x, k)
HealthFollows(w, v, p, s, k) ==
    /\ MaxOf(v, p) = MaxOf(w, p) - Bonus[w[p][s]] + Bonus[k]
    /\ \A m \in Members : m # p => MaxOf(v, m) = MaxOf(w, m)

\* Filling a slot changes who wears the two kinds, and nothing else.
LEMMA SlotFilled ==
    ASSUME NEW w, IsWorn(w), NEW p \in Members, NEW s \in 0..SlotN-1, NEW k \in Kinds, NEW x,
           NEW v, Puts(w, v, p, s, k)
    PROVE  WearersFollow(w, v, p, s, k, x)
<1>1. v[p][s] = k
  BY Zenon DEF Puts
<1>2. ASSUME NEW q \in Members, NEW h \in 0..SlotN-1, <<q, h>> # <<p, s>> PROVE v[q][h] = w[q][h]
  <2>1. q # p \/ h # s
    BY <1>2
  <2> QED BY <2>1, Zenon DEF Puts
<1>3. PICK me : me = <<p, s>>
  BY Zenon
<1>4. me \in Members \X (0..SlotN-1) /\ me[1] = p /\ me[2] = s
  BY <1>3
<1>5. ASSUME NEW y \in Members \X (0..SlotN-1), y # me PROVE v[y[1]][y[2]] = w[y[1]][y[2]]
  <2>1. y[1] \in Members /\ y[2] \in 0..SlotN-1 /\ y = <<y[1], y[2]>>
    OBVIOUS
  <2> QED BY <1>2, <1>3, <1>5, <2>1, Zenon
<1>6. PICK rest : rest = Holding(w, x) \ {me}
  BY Zenon
<1>7. Holding(w, x) = IF x = w[p][s] THEN rest \cup {me} ELSE rest
  BY <1>4, <1>6, Zenon DEF Holding
<1>8. Holding(v, x) = IF x = k THEN rest \cup {me} ELSE rest
  BY <1>1, <1>4, <1>5, <1>6, Zenon DEF Holding
<1>9. IsFiniteSet(rest) /\ me \notin rest
  BY <1>6, HoldingIs, FS_RemoveElement, Zenon
<1>10. Cardinality(rest \cup {me}) = Cardinality(rest) + 1
  BY <1>9, FS_AddElement, Zenon
<1>11. Cardinality(rest) \in Nat
  BY <1>9, FS_CardinalityType, Zenon
<1>12. Wearers(w, x) = Cardinality(rest) + One(x, w[p][s])
  <2>1. CASE x = w[p][s]
    BY <1>7, <1>10, <2>1, HoldingIs, Zenon DEF One
  <2>2. CASE x # w[p][s]
    <3>1. Wearers(w, x) = Cardinality(rest) /\ One(x, w[p][s]) = 0
      BY <1>7, <2>2, HoldingIs, Zenon DEF One
    <3> QED BY <1>11, <3>1
  <2> QED BY <2>1, <2>2, Zenon
<1>13. Wearers(v, x) = Cardinality(rest) + One(x, k)
  <2>1. CASE x = k
    BY <1>8, <1>10, <2>1, HoldingIs, Zenon DEF One
  <2>2. CASE x # k
    <3>1. Wearers(v, x) = Cardinality(rest) /\ One(x, k) = 0
      BY <1>8, <2>2, HoldingIs, Zenon DEF One
    <3> QED BY <1>11, <3>1
  <2> QED BY <2>1, <2>2, Zenon
<1>14. One(x, k) \in Nat /\ One(x, w[p][s]) \in Nat
  BY DEF One
<1>15. Wearers(v, x) + One(x, w[p][s]) = Wearers(w, x) + One(x, k)
  BY <1>11, <1>12, <1>13, <1>14
<1> QED BY <1>15, Zenon DEF WearersFollow

\* What the slots of a member add to the health, and what one of them does.
Points(w, m)  == UNION {{s} \X (1..Bonus[w[m][s]]) : s \in 0..SlotN-1}
PointsAt(s, n) == {s} \X (1..n)

LEMMA PointsAtIs ==
    ASSUME NEW s, NEW n \in Nat
    PROVE  IsFiniteSet(PointsAt(s, n)) /\ Cardinality(PointsAt(s, n)) = n
<1>1. IsFiniteSet(1..n) /\ Cardinality(1..n) = n
  BY FS_Interval
<1>2. IsFiniteSet({s}) /\ Cardinality({s}) = 1
  BY FS_Singleton, Zenon
<1>3. IsFiniteSet(PointsAt(s, n)) /\ Cardinality(PointsAt(s, n)) = 1 * n
  BY <1>1, <1>2, FS_Product, Zenon DEF PointsAt
<1> QED BY <1>3

LEMMA PointsIs ==
    ASSUME NEW w, IsWorn(w), NEW m \in Members
    PROVE  IsFiniteSet(Points(w, m)) /\ MaxOf(w, m) = 1 + Cardinality(Points(w, m)) /\ MaxOf(w, m) \in Nat
<1>1. PICK S : S = {{s} \X (1..Bonus[w[m][s]]) : s \in 0..SlotN-1}
  BY Zenon
<1>2. \A s \in 0..SlotN-1 : w[m][s] \in Kinds \cup {0}
  BY Zenon DEF IsWorn
<1>3. \A s \in 0..SlotN-1 : Bonus[w[m][s]] \in Nat
  BY <1>2, KindsAssumption, Zenon
<1>4. \A T \in S : IsFiniteSet(T)
  <2> SUFFICES ASSUME NEW T \in S PROVE IsFiniteSet(T)
    BY Zenon
  <2>1. PICK s \in 0..SlotN-1 : T = {s} \X (1..Bonus[w[m][s]])
    BY <1>1, Zenon
  <2>2. Bonus[w[m][s]] \in Nat
    BY <1>3, Zenon
  <2>3. IsFiniteSet(PointsAt(s, Bonus[w[m][s]]))
    BY <2>2, PointsAtIs, Zenon
  <2> QED BY <2>1, <2>3, Zenon DEF PointsAt
<1>5. IsFiniteSet(S)
  <2>1. PICK f : f = [s \in 0..SlotN-1 |-> {s} \X (1..Bonus[w[m][s]])]
    BY Zenon
  <2>2. f \in Surjection(0..SlotN-1, S)
    <3>1. f \in [0..SlotN-1 -> S]
      BY <1>1, <2>1, Zenon
    <3>2. \A T \in S : \E s \in 0..SlotN-1 : f[s] = T
      BY <1>1, <2>1, Zenon
    <3> QED BY <3>1, <3>2, Zenon DEF Surjection
  <2> QED BY <2>2, PartyIsFinite, FS_Surjection, Zenon
<1>6. IsFiniteSet(Points(w, m))
  BY <1>1, <1>4, <1>5, FS_UNION, Zenon DEF Points
<1>7. MaxOf(w, m) = 1 + Cardinality(Points(w, m))
  BY Zenon DEF MaxOf, Points
<1>8. Cardinality(Points(w, m)) \in Nat
  BY <1>6, FS_CardinalityType, Zenon
<1> QED BY <1>6, <1>7, <1>8

\* A member's points without one slot are those of the other slots.
LEMMA PointsSplit ==
    ASSUME NEW w, IsWorn(w), NEW m \in Members, NEW s \in 0..SlotN-1
    PROVE  MaxOf(w, m) = 1 + Cardinality({y \in Points(w, m) : y[1] # s}) + Bonus[w[m][s]]
<1>1. PICK rest, here, n : n = Bonus[w[m][s]] /\ rest = {y \in Points(w, m) : y[1] # s} /\ here = PointsAt(s, n)
  BY Zenon
<1>2. w[m][s] \in Kinds \cup {0}
  BY Zenon DEF IsWorn
<1>3. n \in Nat
  BY <1>1, <1>2, KindsAssumption, Zenon
<1>4. ASSUME NEW y \in Points(w, m) PROVE y \in rest \/ y \in here
  <2>1. PICK h \in 0..SlotN-1 : y \in {h} \X (1..Bonus[w[m][h]])
    BY <1>4, Zenon DEF Points
  <2>2. y[1] = h
    BY <2>1
  <2> QED BY <1>1, <2>1, <2>2, Zenon DEF PointsAt
<1>5. here \subseteq Points(w, m)
  <2> SUFFICES ASSUME NEW y \in here PROVE y \in Points(w, m)
    BY Zenon
  <2> QED BY <1>1, Zenon DEF PointsAt, Points
<1>6. \A y \in here : y[1] = s
  BY <1>1 DEF PointsAt
<1>7. Points(w, m) = rest \cup here /\ rest \cap here = {}
  BY <1>1, <1>4, <1>5, <1>6, Zenon
<1>8. rest \in SUBSET Points(w, m)
  BY <1>1, Zenon
<1>9. IsFiniteSet(rest) /\ IsFiniteSet(here) /\ Cardinality(here) = n
  BY <1>1, <1>3, <1>8, PointsIs, PointsAtIs, FS_Subset, Zenon
<1>10. Cardinality(rest \cup here) = Cardinality(rest) + Cardinality(here) - Cardinality(rest \cap here)
  BY <1>9, FS_Union, Zenon
<1>11. Cardinality(rest \cap here) = 0
  BY <1>7, FS_EmptySet, Zenon
<1>12. MaxOf(w, m) = 1 + Cardinality(rest \cup here)
  BY <1>7, PointsIs, Zenon
<1>13. Cardinality(rest) \in Nat
  BY <1>9, FS_CardinalityType, Zenon
<1>14. MaxOf(w, m) = 1 + Cardinality(rest) + n
  BY <1>3, <1>9, <1>10, <1>11, <1>12, <1>13
<1> QED BY <1>1, <1>14, Zenon

\* Filling a slot changes the health of its member by the two bonuses.
LEMMA MaxFollows ==
    ASSUME NEW w, IsWorn(w), NEW p \in Members, NEW s \in 0..SlotN-1, NEW k \in Kinds,
           NEW v, Puts(w, v, p, s, k)
    PROVE  HealthFollows(w, v, p, s, k)
<1>1. IsWorn(v) /\ v[p][s] = k
  BY Zenon DEF Puts
<1>2. \A h \in 0..SlotN-1 : h # s => v[p][h] = w[p][h]
  BY Zenon DEF Puts
<1>3. \A m \in Members : m # p => v[m] = w[m]
  BY Zenon DEF Puts
<1>4. ASSUME NEW m \in Members, m # p PROVE MaxOf(v, m) = MaxOf(w, m)
  BY <1>3, <1>4, Zenon DEF MaxOf
<1>5. PICK rest : rest = {y \in Points(w, p) : y[1] # s}
  BY Zenon
<1>6. {y \in Points(v, p) : y[1] # s} = rest
  <2>1. ASSUME NEW y, y[1] # s PROVE y \in Points(v, p) <=> y \in Points(w, p)
    <3>1. ASSUME NEW h \in 0..SlotN-1 PROVE y \in {h} \X (1..Bonus[v[p][h]]) <=> y \in {h} \X (1..Bonus[w[p][h]])
      <4>1. CASE h = s
        BY <2>1, <4>1
      <4>2. CASE h # s
        BY <1>2, <4>2, Zenon
      <4> QED BY <4>1, <4>2, Zenon
    <3>2. \A z : y \in Points(z, p) <=> \E h \in 0..SlotN-1 : y \in PointsAt(h, Bonus[z[p][h]])
      BY Zenon DEF Points, PointsAt
    <3>3. \A h \in 0..SlotN-1 : y \in PointsAt(h, Bonus[v[p][h]]) <=> y \in PointsAt(h, Bonus[w[p][h]])
      BY <3>1, Zenon DEF PointsAt
    <3> QED BY <3>2, <3>3, Zenon
  <2> QED BY <1>5, <2>1, Zenon
<1>7. w[p][s] \in Kinds \cup {0}
  BY Zenon DEF IsWorn
<1>8. Bonus[w[p][s]] \in Nat /\ Bonus[k] \in Nat
  BY <1>7, KindsAssumption, Zenon
<1>9. MaxOf(w, p) = 1 + Cardinality(rest) + Bonus[w[p][s]]
  BY <1>5, PointsSplit, Zenon
<1>10. MaxOf(v, p) = 1 + Cardinality(rest) + Bonus[k]
  BY <1>1, <1>6, PointsSplit, Zenon
<1>11. Cardinality(rest) \in Nat
  <2>1. rest \in SUBSET Points(w, p)
    BY <1>5, Zenon
  <2> QED BY <2>1, PointsIs, FS_Subset, FS_CardinalityType, Zenon
<1>12. MaxOf(v, p) = MaxOf(w, p) - Bonus[w[p][s]] + Bonus[k]
  BY <1>8, <1>9, <1>10, <1>11
<1> QED BY <1>4, <1>12, Zenon DEF HealthFollows

\* What filling a slot changes.
Fills(w, v, p, s, k) ==
    IsWorn(v) /\ (\A x : WearersFollow(w, v, p, s, k, x)) /\ HealthFollows(w, v, p, s, k)

LEMMA SlotFills ==
    ASSUME NEW w, IsWorn(w), NEW p \in Members, NEW s \in 0..SlotN-1, NEW k \in Kinds
    PROVE  Fills(w, [w EXCEPT ![p][s] = k], p, s, k)
<1>1. PICK v : v = [w EXCEPT ![p][s] = k]
  BY Zenon
<1>2. Puts(w, v, p, s, k)
  BY <1>1 DEF IsWorn, Puts
<1>3. \A x : WearersFollow(w, v, p, s, k, x)
  BY <1>2, SlotFilled, Zenon
<1>4. HealthFollows(w, v, p, s, k)
  BY <1>2, MaxFollows, Zenon
<1> QED BY <1>1, <1>3, <1>4, <1>2, Zenon DEF Fills, Puts

-----------------------------------------------------------------------------
(* The field menu: the invariant.                                          *)

\* What the player has is in the bag or worn, once, and the health follows.
GuestInv ==
    /\ IsBag(bag) /\ IsWorn(worn) /\ used \subseteq Members
    /\ owned = [k \in Kinds |-> Units(bag, k) + Wearers(worn, k)]
    /\ max = [m \in Members |-> MaxOf(worn, m)]

\* The node that is held is in the bag, and has an old unit if that is dropped.
HeldIs(b, h, drop) ==
    \E i \in DOMAIN b : b[i].kind = h.kind /\ (drop /\ ~h.from_new => b[i].count > 0)

\* An open menu has a true copy of the bag.
MenuInv ==
    /\ GuestInv
    /\ IF open THEN g_bag = bag ELSE layer = "TABS"
    /\ sel \in Nat /\ equip_sel \in Nat
    /\ layer = "PICK" => HeldIs(bag, held, FALSE)
    /\ layer = "ASK" => HeldIs(bag, held, TRUE)

LEMMA UnitsType == ASSUME NEW b, IsBag(b), NEW k PROVE Units(b, k) \in Nat /\ (Has(b, k) => Units(b, k) > 0)
<1>1. CASE Has(b, k)
  <2>1. PICK i \in DOMAIN b : b[i].kind = k
    BY <1>1, Zenon DEF Has
  <2>2. Units(b, k) = UnitsAt(b[i])
    BY <2>1, UnitsIs, Zenon
  <2>3. b[i] \in Item
    BY DEF IsBag
  <2>4. UnitsAt(b[i]) \in Nat
    BY <2>3, ItemIs, Zenon
  <2>5. UnitsAt(b[i]) > 0
    BY Zenon DEF IsBag, UnitsAt
  <2> QED BY <2>2, <2>4, <2>5, Zenon
<1>2. CASE ~Has(b, k)
  <2>1. Units(b, k) = 0
    BY <1>2, UnitsIs, Zenon
  <2> QED BY <1>2, <2>1
<1> QED BY <1>1, <1>2, Zenon

\* The places of a view are counted from 0, and every number names one.
LEMMA KindAtIs ==
    ASSUME g_bag \in Seq(Item), NEW view \in SUBSET DOMAIN g_bag, NEW n \in 0..Cardinality(view) - 1
    PROVE  \E i \in view : KindAt(view, n) = g_bag[i].kind
<1>1. PICK len : len = Len(g_bag)
  BY Zenon
<1>2. len \in Nat /\ view \in SUBSET (1..len)
  BY <1>1
<1>3. Cardinality(view) \in Nat
  BY <1>2, UptoIs, Zenon
<1>4. n + 1 \in 1..Cardinality(view) /\ n \in Nat
  BY <1>3
<1>5. PICK i \in view : Cardinality(Upto(view, i)) = n + 1
  BY <1>2, <1>4, CountedUp, Zenon
<1>6. i \in Nat /\ \A j \in view : j <= i <=> j < i \/ j = i
  BY <1>2
<1>7. PICK below : below = {j \in view : j < i}
  BY Zenon
<1>8. Upto(view, i) = below \cup {i} /\ i \notin below
  <2>1. ~(i < i)
    BY <1>6
  <2> QED BY <1>5, <1>6, <1>7, <2>1, Zenon DEF Upto
<1>9. IsFiniteSet(below)
  <2>1. below \in SUBSET view
    BY <1>7, Zenon
  <2> QED BY <1>2, <2>1, UptoIs, FS_Subset, Zenon
<1>10. Cardinality(below) + 1 = n + 1
  BY <1>5, <1>8, <1>9, FS_AddElement, Zenon
<1>11. Cardinality(below) = n
  <2>1. Cardinality(below) \in Nat
    BY <1>9, FS_CardinalityType, Zenon
  <2> QED BY <1>4, <1>10, <2>1
<1>12. PICK c : c = CHOOSE h \in view : Cardinality({j \in view : j < h}) = n
  BY Zenon
<1>13. c \in view
  BY <1>5, <1>7, <1>11, <1>12, Zenon
<1>14. KindAt(view, n) = g_bag[c].kind
  BY <1>12, Zenon DEF KindAt
<1> QED BY <1>13, <1>14, Zenon

\* The cursor is on one of the places, if there are any.
LEMMA ClampIs ==
    ASSUME NEW at \in Nat, NEW n \in Nat
    PROVE  Clamp(at, n) \in Nat /\ (n # 0 => Clamp(at, n) \in 0..n-1)
BY DEF Clamp

LEMMA StepIs ==
    ASSUME NEW at \in Nat, NEW d \in {-1, 0, 1}, NEW n \in Nat
    PROVE  Step(at, d, n) \in Nat
<1>1. CASE n = 0
  BY <1>1, Zenon DEF Step
<1>2. CASE n # 0
  <2>1. at + d + n \in Nat /\ n > 0
    BY <1>2
  <2>2. (at + d + n) % n \in Nat
    BY <2>1
  <2> QED BY <1>2, <2>2, Zenon DEF Step
<1> QED BY <1>1, <1>2, Zenon

\* The views are views of the copy.
LEMMA ViewsAre ==
    ASSUME IsBag(bag), g_bag = bag, NEW m
    PROVE  /\ g_bag \in Seq(Item)
           /\ View \in SUBSET DOMAIN g_bag /\ Cardinality(View) \in Nat /\ (Cardinality(View) = 0 <=> View = {})
           /\ EquipView(m) \in SUBSET DOMAIN g_bag /\ Cardinality(EquipView(m)) \in Nat
           /\ Cardinality(EquipView(m)) = 0 <=> EquipView(m) = {}
<1>1. g_bag \in Seq(Item)
  BY DEF IsBag
<1>2. View \in SUBSET DOMAIN g_bag /\ EquipView(m) \in SUBSET DOMAIN g_bag
  BY Zenon DEF View, EquipView
<1>3. Len(g_bag) \in Nat /\ DOMAIN g_bag = 1..Len(g_bag)
  BY <1>1
<1> QED BY <1>1, <1>2, <1>3, UptoIs, Zenon

-----------------------------------------------------------------------------
\* The menu moves while the guest stays.
LEMMA MenuMoves ==
    ASSUME MenuInv, UNCHANGED guest, IF open' THEN g_bag' = bag ELSE layer' = "TABS",
           sel' \in Nat, equip_sel' \in Nat,
           layer' \in {"PICK", "ASK"} => layer' = layer /\ held' = held
    PROVE  MenuInv'
<1>1. bag' = bag /\ worn' = worn /\ used' = used /\ max' = max /\ owned' = owned
  BY Zenon DEF guest
<1>2. GuestInv'
  BY <1>1, Zenon DEF MenuInv, GuestInv
<1>3. layer' = "PICK" => layer = "PICK" /\ held' = held
  BY Zenon
<1>4. layer' = "ASK" => layer = "ASK" /\ held' = held
  BY Zenon
<1> QED BY <1>1, <1>2, <1>3, <1>4, Zenon DEF MenuInv

\* A unit is spent.
LEMMA UnitSpent ==
    ASSUME GuestInv, NEW k \in Kinds, Has(bag, k), Changes(bag, bag', k, 0 - 1), Spend(k),
           UNCHANGED <<worn, used, max>>
    PROVE  GuestInv'
<1>1. worn' = worn /\ used' = used /\ max' = max
  BY Zenon
<1>2. IsBag(bag) /\ IsBag(bag')
  BY Zenon DEF GuestInv, Changes
<1>3. \A x : Units(bag, x) \in Nat /\ Wearers(worn, x) \in Nat
  BY <1>2, UnitsType, HoldingIs, Zenon
<1>4. Units(bag, k) > 0
  BY <1>2, UnitsType, Zenon
<1>5. Units(bag', k) = Units(bag, k) + (0 - 1) /\ \A x : x # k => Units(bag', x) = Units(bag, x)
  BY Zenon DEF Changes
<1>6. owned = [x \in Kinds |-> Units(bag, x) + Wearers(worn, x)]
  BY Zenon DEF GuestInv
<1>7. owned[k] = Units(bag, k) + Wearers(worn, k)
  BY <1>6, Zenon
<1>8. owned[k] > 0 /\ owned[k] - 1 = Units(bag', k) + Wearers(worn, k)
  BY <1>3, <1>4, <1>5, <1>7
<1>9. owned' = [owned EXCEPT ![k] = IF @ > 0 THEN @ - 1 ELSE 0]
  BY DEF Spend
<1>10. owned' = [x \in Kinds |-> Units(bag', x) + Wearers(worn, x)]
  <2>1. DOMAIN owned = Kinds /\ \A x \in Kinds : owned[x] = Units(bag, x) + Wearers(worn, x)
    BY <1>6, Zenon
  <2>2. owned' = [x \in Kinds |-> IF x = k THEN owned[k] - 1 ELSE owned[x]]
    BY <1>8, <1>9, <2>1
  <2>3. \A x \in Kinds : (IF x = k THEN owned[k] - 1 ELSE owned[x]) = Units(bag', x) + Wearers(worn, x)
    BY <1>5, <1>8, <2>1, Zenon
  <2> QED BY <2>2, <2>3, Zenon
<1> QED BY <1>1, <1>2, <1>10, Zenon DEF GuestInv

\* The nodes are sorted.
LEMMA BagSorted ==
    ASSUME GuestInv, bag' \in SetToSeqs(ToSet(bag)), UNCHANGED <<worn, used, max, owned>>
    PROVE  GuestInv'
<1>1. worn' = worn /\ used' = used /\ max' = max /\ owned' = owned
  BY Zenon
<1>2. IsBag(bag)
  BY Zenon DEF GuestInv
<1>3. IsBag(bag') /\ \A x : Units(bag', x) = Units(bag, x)
  BY <1>2, NodesSorted, Zenon
<1>4. owned' = [x \in Kinds |-> Units(bag', x) + Wearers(worn', x)]
  BY <1>1, <1>3, Zenon DEF GuestInv
<1> QED BY <1>1, <1>3, <1>4, Zenon DEF GuestInv

\* A unit of the bag is worn.
LEMMA UnitWorn ==
    ASSUME GuestInv, NEW p \in Members, NEW s \in 0..SlotN-1, NEW i \in DOMAIN bag, NEW k, k = bag[i].kind,
           bag' = Exchanged(k, worn[p][s]), worn' = [worn EXCEPT ![p][s] = k],
           max' = [max EXCEPT ![p] = @ - Bonus[worn[p][s]] + Bonus[k]], UNCHANGED <<used, owned>>
    PROVE  GuestInv'
<1>1. used' = used /\ owned' = owned
  BY Zenon
<1>2. IsBag(bag) /\ IsWorn(worn)
  BY Zenon DEF GuestInv
<1>3. PICK old : old = worn[p][s]
  BY Zenon
<1>4. k \in Kinds /\ old \in Kinds \cup {0}
  <2>1. bag[i] \in Item
    BY <1>2 DEF IsBag
  <2>2. k \in Kinds
    BY <2>1, ItemIs, Zenon
  <2> QED BY <1>2, <1>3, <2>2, Zenon DEF IsWorn
<1>5. Exchanges(bag, bag', k, old)
  BY <1>2, <1>3, <1>4, ExchangedIs, Zenon
<1>6. PICK rest : Changes(bag, rest, k, 0 - 1) /\ IF old = 0 THEN bag' = rest ELSE Changes(rest, bag', old, 1)
  BY <1>5, Zenon DEF Exchanges
<1>7. IsBag(rest) /\ IsBag(bag')
  BY <1>6, Zenon DEF Changes
<1>8. \A x : Units(bag, x) \in Nat /\ Units(rest, x) \in Nat /\ Units(bag', x) \in Nat
  BY <1>2, <1>7, UnitsType, Zenon
<1>9. ASSUME NEW x \in Kinds PROVE Units(bag', x) + One(x, k) = Units(bag, x) + One(x, old)
  <2>1. Units(rest, x) = IF x = k THEN Units(bag, x) + (0 - 1) ELSE Units(bag, x)
    BY <1>6, Zenon DEF Changes
  <2>2. Units(rest, x) + One(x, k) = Units(bag, x)
    BY <1>8, <2>1 DEF One
  <2>3. x # 0
    BY KindsAssumption
  <2>4. Units(bag', x) = IF x = old THEN Units(rest, x) + 1 ELSE Units(rest, x)
    BY <1>6, <2>3, Zenon DEF Changes
  <2>5. Units(bag', x) = Units(rest, x) + One(x, old)
    BY <1>8, <2>4 DEF One
  <2>6. One(x, k) \in Nat /\ One(x, old) \in Nat
    BY DEF One
  <2> QED BY <1>8, <2>2, <2>5, <2>6
<1>10. Fills(worn, worn', p, s, k)
  BY <1>2, <1>4, SlotFills, Zenon
<1>11. IsWorn(worn') /\ \A x : Wearers(worn', x) + One(x, old) = Wearers(worn, x) + One(x, k)
  BY <1>3, <1>10, Zenon DEF Fills, WearersFollow
<1>12. \A x \in Kinds : Units(bag', x) + Wearers(worn', x) = Units(bag, x) + Wearers(worn, x)
  <2> SUFFICES ASSUME NEW x \in Kinds PROVE Units(bag', x) + Wearers(worn', x) = Units(bag, x) + Wearers(worn, x)
    BY Zenon
  <2>1. Wearers(worn', x) \in Nat /\ Wearers(worn, x) \in Nat
    BY HoldingIs, Zenon
  <2>2. One(x, k) \in Nat /\ One(x, old) \in Nat
    BY DEF One
  <2>3. Units(bag, x) \in Nat /\ Units(bag', x) \in Nat
    BY <1>8, Zenon
  <2>4. Units(bag', x) + One(x, k) = Units(bag, x) + One(x, old)
    BY <1>9, Zenon
  <2>5. Wearers(worn', x) + One(x, old) = Wearers(worn, x) + One(x, k)
    BY <1>11, Zenon
  <2> QED BY <2>1, <2>2, <2>3, <2>4, <2>5
<1>13. owned' = [x \in Kinds |-> Units(bag', x) + Wearers(worn', x)]
  BY <1>1, <1>12, Zenon DEF GuestInv
<1>14. max' = [m \in Members |-> MaxOf(worn', m)]
  <2>1. max = [m \in Members |-> MaxOf(worn, m)]
    BY Zenon DEF GuestInv
  <2>2. /\ MaxOf(worn', p) = MaxOf(worn, p) - Bonus[worn[p][s]] + Bonus[k]
        /\ \A m \in Members : m # p => MaxOf(worn', m) = MaxOf(worn, m)
    BY <1>10, Zenon DEF Fills, HealthFollows
  <2>3. DOMAIN max = Members /\ \A m \in Members : max[m] = MaxOf(worn, m)
    BY <2>1, Zenon
  <2>4. max' = [m \in Members |-> IF m = p THEN max[p] - Bonus[worn[p][s]] + Bonus[k] ELSE max[m]]
    BY <2>3
  <2>5. \A m \in Members : (IF m = p THEN max[p] - Bonus[worn[p][s]] + Bonus[k] ELSE max[m]) = MaxOf(worn', m)
    BY <2>2, <2>3, Zenon
  <2> QED BY <2>4, <2>5, Zenon
<1> QED BY <1>1, <1>7, <1>11, <1>13, <1>14, Zenon DEF GuestInv

-----------------------------------------------------------------------------
(* The field menu: its actions.                                            *)

\* The guest stays as it is,
LEMMA GuestStays == ASSUME GuestInv, UNCHANGED <<bag, worn, used, max, owned>> PROVE GuestInv'
<1>1. bag' = bag /\ worn' = worn /\ used' = used /\ max' = max /\ owned' = owned
  BY Zenon
<1> QED BY <1>1, Zenon DEF GuestInv

\* or the menu settles on a page that holds nothing.
LEMMA MenuSettles ==
    ASSUME GuestInv', open', g_bag' = bag', sel' \in Nat, equip_sel' \in Nat, layer' \notin {"PICK", "ASK"}
    PROVE  MenuInv'
<1>1. layer' # "PICK" /\ layer' # "ASK"
  BY Zenon
<1> QED BY <1>1, Zenon DEF MenuInv

\* A unit of the held item leaves the bag.
LEMMA HeldIsSpent ==
    ASSUME GuestInv, g_bag = bag, NEW from_new, NEW i \in DOMAIN bag, bag[i].kind = held.kind,
           from_new \/ bag[i].count > 0, bag' = ItemConsume(held.kind, from_new), Spend(held.kind),
           UNCHANGED <<worn, used, max>>
    PROVE  GuestInv'
<1>1. IsBag(bag)
  BY Zenon DEF GuestInv
<1>2. Changes(bag, bag', held.kind, 0 - 1)
  BY <1>1, ConsumeIs, Zenon
<1>3. Has(bag, held.kind)
  BY Zenon DEF Has
<1>4. held.kind \in Kinds
  <2>1. bag[i] \in Item
    BY <1>1 DEF IsBag
  <2> QED BY <2>1, ItemIs, Zenon
<1> QED BY <1>2, <1>3, <1>4, UnitSpent, Zenon

LEMMA UseKeeps == ASSUME MenuInv, open, layer = "PICK", ItemUseCommit PROVE MenuInv'
<1>1. GuestInv /\ g_bag = bag /\ sel \in Nat /\ equip_sel \in Nat /\ HeldIs(bag, held, FALSE)
  BY Zenon DEF MenuInv
<1>2. /\ g_bag' = bag' /\ open' = open /\ sel' = sel /\ equip_sel' = equip_sel /\ layer' = "INNER"
      /\ worn' = worn /\ used' = used /\ max' = max
  BY DEF ItemUseCommit
<1>3. GuestInv'
  <2>1. CASE bag' = ItemConsume(held.kind, TRUE) /\ Spend(held.kind)
    <3>1. PICK i \in DOMAIN bag : bag[i].kind = held.kind
      BY <1>1, Zenon DEF HeldIs
    <3>2. PICK from_new : from_new = TRUE
      BY Zenon
    <3> QED BY <1>1, <1>2, <2>1, <3>1, <3>2, HeldIsSpent, Zenon
  <2>2. CASE bag' = bag /\ owned' = owned
    BY <1>1, <1>2, <2>2, GuestStays, Zenon
  <2> QED BY <2>1, <2>2, Zenon DEF ItemUseCommit
<1>4. "INNER" \notin {"PICK", "ASK"}
  OBVIOUS
<1> QED BY <1>1, <1>2, <1>3, <1>4, MenuSettles, Zenon

LEMMA DropKeeps == ASSUME MenuInv, open, layer = "ASK", ItemDropCommit PROVE MenuInv'
<1>1. GuestInv /\ g_bag = bag /\ sel \in Nat /\ equip_sel \in Nat /\ HeldIs(bag, held, TRUE)
  BY Zenon DEF MenuInv
<1>2. /\ g_bag' = bag' /\ open' = open /\ sel' = sel /\ equip_sel' = equip_sel /\ layer' = "INNER"
      /\ worn' = worn /\ used' = used /\ max' = max
  BY DEF ItemDropCommit
<1>3. GuestInv'
  <2>1. CASE bag' = ItemConsume(held.kind, held.from_new) /\ Spend(held.kind)
    <3>1. PICK i \in DOMAIN bag : bag[i].kind = held.kind /\ (held.from_new \/ bag[i].count > 0)
      BY <1>1, Zenon DEF HeldIs
    <3> QED BY <1>1, <1>2, <2>1, <3>1, HeldIsSpent, Zenon
  <2>2. CASE bag' = bag /\ owned' = owned
    BY <1>1, <1>2, <2>2, GuestStays, Zenon
  <2> QED BY <2>1, <2>2, Zenon DEF ItemDropCommit
<1>4. "INNER" \notin {"PICK", "ASK"}
  OBVIOUS
<1> QED BY <1>1, <1>2, <1>3, <1>4, MenuSettles, Zenon

LEMMA EquipKeeps == ASSUME MenuInv, open, layer = "EQUIP", EquipCommit PROVE MenuInv'
<1>1. GuestInv /\ g_bag = bag /\ sel \in Nat /\ equip_sel \in Nat
  BY Zenon DEF MenuInv
<1>2. PICK view, at, k : view = EquipView(party_i) /\ at = Clamp(equip_sel, Cardinality(view)) /\ k = KindAt(view, at)
  BY Zenon
<1>3. /\ g_bag \in Seq(Item) /\ view \in SUBSET DOMAIN g_bag /\ Cardinality(view) \in Nat
      /\ Cardinality(view) = 0 <=> view = {}
  BY <1>1, <1>2, ViewsAre, Zenon DEF GuestInv
<1>4. /\ equip_sel' = at /\ open' = open /\ sel' = sel /\ used' = used /\ owned' = owned
      /\ IF view = {} \/ party_i \notin Team
            THEN UNCHANGED <<layer, g_bag, bag, worn, max>>
            ELSE \E done \in BOOLEAN :
                    /\ EquipSwap(k, focus, done)
                    /\ IF worn'[party_i][focus] = k
                          THEN layer' = "INNER" /\ g_bag' = bag'
                          ELSE UNCHANGED <<layer, g_bag>>
  BY <1>2 DEF EquipCommit
<1>5. at \in Nat /\ (view # {} => at \in 0..Cardinality(view)-1)
  BY <1>1, <1>2, <1>3, ClampIs, Zenon
<1>6. "INNER" \notin {"PICK", "ASK"} /\ "EQUIP" \notin {"PICK", "ASK"}
  OBVIOUS
<1>7. CASE view = {} \/ party_i \notin Team
  <2>1. layer' = layer /\ g_bag' = g_bag /\ bag' = bag /\ worn' = worn /\ max' = max
    BY <1>4, <1>7, Zenon
  <2>2. GuestInv'
    BY <1>1, <1>4, <2>1, GuestStays, Zenon
  <2> QED BY <1>1, <1>4, <1>5, <1>6, <2>1, <2>2, MenuSettles, Zenon
<1>8. CASE view # {} /\ party_i \in Team
  <2>1. PICK i \in view : k = g_bag[i].kind
    BY <1>2, <1>3, <1>5, <1>8, KindAtIs, Zenon
  <2>2. i \in DOMAIN bag /\ k = bag[i].kind
    BY <1>1, <1>3, <2>1, Zenon
  <2>3. party_i \in Members
    BY <1>1, <1>8, Zenon DEF Team, GuestInv
  <2>4. g_bag[i] \in Item
    BY <1>3, <2>1
  <2>5. k \in Kinds
    BY <2>1, <2>4, ItemIs, Zenon
  <2>6. focus \in Fits[k]
    BY <1>2, <2>1, Zenon DEF EquipView, FitsSlot
  <2>7. focus \in 0..SlotN-1
    BY <2>5, <2>6, KindsAssumption, Zenon
  <2>8. PICK done \in BOOLEAN :
           /\ EquipSwap(k, focus, done)
           /\ IF worn'[party_i][focus] = k THEN layer' = "INNER" /\ g_bag' = bag' ELSE UNCHANGED <<layer, g_bag>>
    BY <1>4, <1>8, Zenon
  <2>9. CASE done
    <3>1. /\ bag' = Exchanged(k, worn[party_i][focus])
          /\ worn' = [worn EXCEPT ![party_i][focus] = k]
          /\ max' = [max EXCEPT ![party_i] = @ - Bonus[worn[party_i][focus]] + Bonus[k]]
      BY <2>8, <2>9 DEF EquipSwap
    <3>2. PICK p, s : p = party_i /\ s = focus
      BY Zenon
    <3>3. /\ p \in Members /\ s \in 0..SlotN-1 /\ bag' = Exchanged(k, worn[p][s])
          /\ worn' = [worn EXCEPT ![p][s] = k] /\ max' = [max EXCEPT ![p] = @ - Bonus[worn[p][s]] + Bonus[k]]
      BY <2>3, <2>7, <3>1, <3>2, Zenon
    <3>4. GuestInv'
      BY <1>1, <1>4, <2>2, <3>3, UnitWorn, Zenon
    <3>5. worn'[p][s] = k
      BY <1>1, <3>3 DEF GuestInv, IsWorn
    <3>6. layer' = "INNER" /\ g_bag' = bag'
      BY <2>8, <3>2, <3>5, Zenon
    <3> QED BY <1>1, <1>4, <1>5, <1>6, <3>4, <3>6, MenuSettles, Zenon
  <2>10. CASE ~done
    <3>1. bag' = bag /\ worn' = worn /\ max' = max
      BY <2>8, <2>10 DEF EquipSwap
    <3>2. GuestInv'
      BY <1>1, <1>4, <3>1, GuestStays, Zenon
    <3>3. layer' \in {"INNER", "EQUIP"} /\ g_bag' = bag'
      BY <1>1, <2>8, <3>1, Zenon
    <3>4. layer' \notin {"PICK", "ASK"}
      BY <3>3
    <3> QED BY <1>1, <1>4, <1>5, <3>2, <3>3, <3>4, MenuSettles, Zenon
  <2> QED BY <2>9, <2>10, Zenon
<1> QED BY <1>7, <1>8, Zenon

LEMMA EquipOpenKeeps == ASSUME MenuInv, open, layer = "INNER", EquipOpen PROVE MenuInv'
<1>1. g_bag = bag /\ sel \in Nat /\ equip_sel \in Nat
  BY Zenon DEF MenuInv
<1>2. UNCHANGED guest /\ open' = open /\ g_bag' = g_bag /\ sel' = sel
  BY Zenon DEF EquipOpen
<1>3. equip_sel' \in {0, equip_sel} /\ layer' \in {"INNER", "EQUIP"}
  BY DEF EquipOpen
<1>4. equip_sel' \in Nat /\ layer' \notin {"PICK", "ASK"}
  BY <1>1, <1>3
<1> QED BY <1>1, <1>2, <1>4, MenuMoves, Zenon

LEMMA ItemActKeeps == ASSUME MenuInv, open, layer = "INNER", ItemAct PROVE MenuInv'
<1>1. GuestInv /\ g_bag = bag /\ sel \in Nat /\ equip_sel \in Nat
  BY Zenon DEF MenuInv
<1>2. PICK at, k : at = Clamp(sel, Cardinality(View)) /\ k = KindAt(View, at)
  BY Zenon
<1>3. /\ g_bag \in Seq(Item) /\ View \in SUBSET DOMAIN g_bag /\ Cardinality(View) \in Nat
      /\ Cardinality(View) = 0 <=> View = {}
  BY <1>1, ViewsAre, Zenon DEF GuestInv
<1>4. at \in Nat /\ (View # {} => at \in 0..Cardinality(View)-1)
  BY <1>1, <1>2, <1>3, ClampIs, Zenon
<1>5. open' = open /\ equip_sel' = equip_sel /\ worn' = worn /\ used' = used /\ max' = max /\ owned' = owned
  BY DEF ItemAct
<1>6. "INNER" \notin {"PICK", "ASK"}
  OBVIOUS
<1>7. CASE focus = 1
  <2>1. bag' \in SetToSeqs(ToSet(bag)) /\ g_bag' = bag' /\ sel' = sel /\ layer' = layer
    BY <1>7 DEF ItemAct
  <2>2. GuestInv'
    BY <1>1, <1>5, <2>1, BagSorted, Zenon
  <2> QED BY <1>1, <1>5, <1>6, <2>1, <2>2, MenuSettles, Zenon
<1>8. CASE focus # 1
  <2>1. sel' = at /\ bag' = bag /\ g_bag' = g_bag
    BY <1>2, <1>8 DEF ItemAct
  <2>2. GuestInv'
    BY <1>1, <1>5, <2>1, GuestStays, Zenon
  <2>3. \/ layer' \notin {"PICK", "ASK"}
        \/ View # {} /\ layer' = "PICK" /\ held' = [kind |-> k, from_new |-> TRUE]
        \/ View # {} /\ layer' = "ASK" /\ held' = [kind |-> k, from_new |-> cat = 0]
    <3>1. CASE View = {}
      <4>1. layer' = layer
        BY <1>8, <3>1 DEF ItemAct
      <4> QED BY <1>6, <4>1, Zenon
    <3>2. CASE View # {} /\ focus = 2
      <4>1. ItemDrop(k)
        BY <1>2, <1>8, <3>2 DEF ItemAct
      <4> QED BY <1>6, <3>2, <4>1 DEF ItemDrop
    <3>3. CASE View # {} /\ focus # 2
      <4>1. ItemUse(k)
        BY <1>2, <1>8, <3>3 DEF ItemAct
      <4> QED BY <1>6, <3>3, <4>1 DEF ItemUse
    <3> QED BY <3>1, <3>2, <3>3, Zenon
  <2>4. ASSUME View # {}
        PROVE  \E i \in DOMAIN bag : bag[i].kind = k /\ (cat # 0 => bag[i].count > 0)
    <3>1. PICK i \in View : k = g_bag[i].kind
      BY <1>2, <1>3, <1>4, <2>4, KindAtIs, Zenon
    <3>2. ItemInCat(g_bag[i], cat) /\ i \in DOMAIN bag
      BY <1>1, <1>3, <3>1, Zenon DEF View
    <3>3. cat # 0 => g_bag[i].count > 0
      BY <3>2, Zenon DEF ItemInCat
    <3> QED BY <1>1, <3>1, <3>2, <3>3, Zenon
  <2>5. CASE layer' \notin {"PICK", "ASK"}
    BY <1>1, <1>4, <1>5, <2>1, <2>2, <2>5, MenuSettles, Zenon
  <2>6. CASE View # {} /\ layer' = "PICK" /\ held' = [kind |-> k, from_new |-> TRUE]
    <3>1. held'.kind = k /\ layer' # "ASK"
      BY <2>6
    <3>2. PICK h : h = held'
      BY Zenon
    <3>3. HeldIs(bag, h, FALSE)
      BY <2>4, <2>6, <3>1, <3>2, Zenon DEF HeldIs
    <3> QED BY <1>1, <1>4, <1>5, <2>1, <2>2, <3>1, <3>2, <3>3, Zenon DEF MenuInv
  <2>7. CASE View # {} /\ layer' = "ASK" /\ held' = [kind |-> k, from_new |-> cat = 0]
    <3>1. held'.kind = k /\ held'.from_new = (cat = 0) /\ layer' # "PICK"
      BY <2>7
    <3>2. PICK h : h = held'
      BY Zenon
    <3>3. HeldIs(bag, h, TRUE)
      BY <2>4, <2>7, <3>1, <3>2, Zenon DEF HeldIs
    <3> QED BY <1>1, <1>4, <1>5, <2>1, <2>2, <3>1, <3>2, <3>3, Zenon DEF MenuInv
  <2> QED BY <2>3, <2>5, <2>6, <2>7, Zenon
<1> QED BY <1>7, <1>8, Zenon

\* The menu is closed, or opened.
LEMMA ClosedKeeps == ASSUME MenuInv, NEW p, Close(p) PROVE MenuInv'
<1>1. UNCHANGED guest /\ ~open' /\ layer' = "TABS" /\ sel' = 0 /\ equip_sel' = 0
  BY Zenon DEF Close, Cleared
<1>2. "TABS" \notin {"PICK", "ASK"} /\ 0 \in Nat
  OBVIOUS
<1> QED BY <1>1, <1>2, MenuMoves, Zenon

LEMMA OpenedKeeps == ASSUME MenuInv, NEW t, Opened(t) PROVE MenuInv'
<1>1. UNCHANGED guest /\ open' /\ g_bag' = bag /\ layer' = "TABS" /\ sel' = 0 /\ equip_sel' = 0
  BY Zenon DEF Opened, Cleared
<1>2. "TABS" \notin {"PICK", "ASK"} /\ 0 \in Nat
  OBVIOUS
<1> QED BY <1>1, <1>2, MenuMoves, Zenon

LEMMA EnterKeeps == ASSUME MenuInv, open, EnterInner PROVE MenuInv'
<1>1. /\ UNCHANGED guest /\ open' = open /\ g_bag' = g_bag /\ layer' = "INNER"
      /\ sel' = sel /\ equip_sel' = equip_sel
  BY Zenon DEF EnterInner
<1>2. "INNER" \notin {"PICK", "ASK"}
  OBVIOUS
<1>3. g_bag = bag /\ sel \in Nat /\ equip_sel \in Nat
  BY Zenon DEF MenuInv
<1> QED BY <1>1, <1>2, <1>3, MenuMoves, Zenon

LEMMA BookKeeps == ASSUME MenuInv, open, layer = "INNER", BookConfirm PROVE MenuInv'
<1>1. CASE focus \in {0, 1}
  <2>1. Close(4 + focus)
    BY <1>1, Zenon DEF BookConfirm
  <2>2. PICK p : p = 4 + focus
    BY Zenon
  <2> QED BY <2>1, <2>2, ClosedKeeps, Zenon
<1>2. CASE focus \notin {0, 1}
  <2>1. /\ UNCHANGED guest /\ open' = open /\ g_bag' = g_bag /\ sel' = sel /\ equip_sel' = equip_sel
        /\ layer' \in {"EXIT_ASK", "JOURNAL", "INNER", "STUB"}
    BY <1>2 DEF BookConfirm
  <2>2. layer' \notin {"PICK", "ASK"}
    BY <2>1
  <2>3. g_bag = bag /\ sel \in Nat /\ equip_sel \in Nat
    BY Zenon DEF MenuInv
  <2> QED BY <2>1, <2>2, <2>3, MenuMoves, Zenon
<1> QED BY <1>1, <1>2, Zenon

LEMMA ConfirmKeeps == ASSUME MenuInv, open, Confirm PROVE MenuInv'
<1>1. CASE Close(6)
  <2>1. PICK p : p = 6
    BY Zenon
  <2> QED BY <1>1, <2>1, ClosedKeeps, Zenon
<1>2. CASE Close(3)
  <2>1. PICK p : p = 3
    BY Zenon
  <2> QED BY <1>2, <2>1, ClosedKeeps, Zenon
<1> QED BY <1>1, <1>2, UseKeeps, EquipKeeps, DropKeeps, EnterKeeps, ItemActKeeps, EquipOpenKeeps, BookKeeps,
           Zenon DEF Confirm

LEMMA BackKeeps == ASSUME MenuInv, open, Back PROVE MenuInv'
<1>1. CASE layer = "TABS"
  <2>1. Close(pending)
    BY <1>1, Zenon DEF Back
  <2>2. PICK p : p = pending
    BY Zenon
  <2> QED BY <2>1, <2>2, ClosedKeeps, Zenon
<1>2. CASE layer # "TABS"
  <2>1. /\ UNCHANGED guest /\ open' = open /\ sel' = sel /\ equip_sel' = equip_sel
        /\ layer' \in {"TABS", "INNER"} /\ g_bag' \in {bag, g_bag}
    BY <1>2 DEF Back
  <2>2. layer' \notin {"PICK", "ASK"}
    BY <2>1
  <2>3. g_bag = bag /\ sel \in Nat /\ equip_sel \in Nat
    BY Zenon DEF MenuInv
  <2>4. g_bag' = bag
    BY <2>1, <2>3, Zenon
  <2> QED BY <2>1, <2>2, <2>3, <2>4, MenuMoves, Zenon
<1> QED BY <1>1, <1>2, Zenon

LEMMA MoveTabKeeps == ASSUME MenuInv, open, NEW d, MoveTab(d) PROVE MenuInv'
<1>1. /\ UNCHANGED guest /\ open' = open /\ g_bag' = g_bag /\ layer' = "TABS"
      /\ sel' = sel /\ equip_sel' = equip_sel
  BY Zenon DEF MoveTab
<1>2. "TABS" \notin {"PICK", "ASK"}
  OBVIOUS
<1>3. g_bag = bag /\ sel \in Nat /\ equip_sel \in Nat
  BY Zenon DEF MenuInv
<1> QED BY <1>1, <1>2, <1>3, MenuMoves, Zenon

\* What only moves a cursor.
LEMMA CursorMoves ==
    ASSUME MenuInv, open, UNCHANGED <<open, layer, held, guest>>, g_bag' \in {g_bag, bag},
           sel' \in Nat, equip_sel' \in Nat
    PROVE  MenuInv'
<1>1. UNCHANGED guest /\ open' = open /\ layer' = layer /\ held' = held
  BY Zenon
<1>2. g_bag' = bag
  BY Zenon DEF MenuInv
<1>3. IF open' THEN g_bag' = bag ELSE layer' = "TABS"
  <2>1. open'
    BY <1>1
  <2> QED BY <1>2, <2>1, Zenon
<1>4. layer' \in {"PICK", "ASK"} => layer' = layer /\ held' = held
  BY <1>1, Zenon
<1> QED BY <1>1, <1>3, <1>4, MenuMoves, Zenon

LEMMA MovePartyKeeps == ASSUME MenuInv, open, NEW d, MoveParty(d) PROVE MenuInv'
<1>1. GuestInv /\ g_bag = bag /\ sel \in Nat /\ equip_sel \in Nat
  BY Zenon DEF MenuInv
<1>2. UNCHANGED <<open, layer, held, guest>> /\ sel' = sel
  BY Zenon DEF MoveParty
<1>3. PICK n : n = Cardinality(EquipView(party_i))
  BY Zenon
<1>4. n \in Nat
  BY <1>1, <1>3, ViewsAre, Zenon DEF GuestInv
<1>5. equip_sel' \in {0, equip_sel, Clamp(equip_sel, n)} /\ g_bag' \in {g_bag, bag}
  BY <1>3 DEF MoveParty
<1>6. Clamp(equip_sel, n) \in Nat
  BY <1>1, <1>4, ClampIs, Zenon
<1>7. equip_sel' \in Nat
  BY <1>1, <1>5, <1>6
<1> QED BY <1>1, <1>2, <1>5, <1>7, CursorMoves, Zenon

LEMMA MoveFocusKeeps == ASSUME MenuInv, open, NEW d, NEW n, MoveFocus(d, n) PROVE MenuInv'
<1>1. sel \in Nat /\ equip_sel \in Nat
  BY Zenon DEF MenuInv
<1>2. UNCHANGED <<open, layer, held, guest>> /\ sel' = sel /\ g_bag' \in {g_bag, bag}
  BY Zenon DEF MoveFocus
<1>3. equip_sel' \in {0, equip_sel}
  BY Zenon DEF MoveFocus
<1>4. equip_sel' \in Nat
  BY <1>1, <1>3
<1> QED BY <1>1, <1>2, <1>4, CursorMoves, Zenon

LEMMA MoveItemKeeps ==
    ASSUME MenuInv, open, NEW dx \in {-1, 0, 1}, NEW dy \in {-1, 0, 1}, MoveItem(dx, dy)
    PROVE  MenuInv'
<1>1. GuestInv /\ g_bag = bag /\ sel \in Nat /\ equip_sel \in Nat
  BY Zenon DEF MenuInv
<1>2. UNCHANGED <<open, layer, held, guest>> /\ equip_sel' = equip_sel /\ g_bag' \in {g_bag, bag}
  BY Zenon DEF MoveItem
<1>3. PICK n : n = Cardinality(View)
  BY Zenon
<1>4. n \in Nat
  BY <1>1, <1>3, ViewsAre, Zenon DEF GuestInv
<1>5. sel' \in {0, Step(sel, dy, n)}
  BY <1>3, Zenon DEF MoveItem
<1>6. Step(sel, dy, n) \in Nat
  BY <1>1, <1>4, StepIs, Zenon
<1>7. sel' \in Nat
  BY <1>5, <1>6
<1> QED BY <1>1, <1>2, <1>7, CursorMoves, Zenon

LEMMA MoveEquipKeeps == ASSUME MenuInv, open, NEW d \in {-1, 0, 1}, MoveEquipSel(d) PROVE MenuInv'
<1>1. GuestInv /\ g_bag = bag /\ sel \in Nat /\ equip_sel \in Nat
  BY Zenon DEF MenuInv
<1>2. UNCHANGED <<open, layer, held, guest>> /\ sel' = sel /\ g_bag' \in {g_bag, bag}
  BY Zenon DEF MoveEquipSel
<1>3. PICK n : n = Cardinality(EquipView(party_i))
  BY Zenon
<1>4. n \in Nat
  BY <1>1, <1>3, ViewsAre, Zenon DEF GuestInv
<1>5. Step(equip_sel, d, n) \in Nat
  BY <1>1, <1>4, StepIs, Zenon
<1>6. Clamp(Step(equip_sel, d, n), n) \in Nat
  BY <1>4, <1>5, ClampIs, Zenon
<1>7. equip_sel' = Clamp(Step(equip_sel, d, n), n)
  BY <1>3, Zenon DEF MoveEquipSel
<1> QED BY <1>1, <1>2, <1>6, <1>7, CursorMoves, Zenon

LEMMA ShoulderKeeps == ASSUME MenuInv, open, NEW d, Shoulder(d) PROVE MenuInv'
<1>1. CASE MoveFocus(d, 3)
  <2>1. PICK n : n = 3
    BY Zenon
  <2> QED BY <1>1, <2>1, MoveFocusKeeps, Zenon
<1>2. CASE MoveParty(d)
  BY <1>2, MovePartyKeeps, Zenon
<1>3. CASE MoveTab(d)
  BY <1>3, MoveTabKeeps, Zenon
<1> QED BY <1>1, <1>2, <1>3, Zenon DEF Shoulder

LEMMA DirKeeps == ASSUME MenuInv, open, NEW dx \in {-1, 0, 1}, NEW dy \in {-1, 0, 1}, Dir(dx, dy) PROVE MenuInv'
<1>1. CASE MoveFocus(dx, 5)
  <2>1. PICK n : n = 5
    BY Zenon
  <2> QED BY <1>1, <2>1, MoveFocusKeeps, Zenon
<1>2. CASE MoveFocus(dy, SlotN)
  BY <1>2, MoveFocusKeeps, Zenon
<1>3. CASE MoveParty(dx + dy)
  <2>1. PICK d : d = dx + dy
    BY Zenon
  <2> QED BY <1>3, <2>1, MovePartyKeeps, Zenon
<1>4. CASE MoveTab(dx)
  BY <1>4, MoveTabKeeps, Zenon
<1>5. CASE MoveItem(dx, dy)
  BY <1>5, MoveItemKeeps, Zenon
<1>6. CASE MoveEquipSel(dy)
  BY <1>6, MoveEquipKeeps, Zenon
<1> QED BY <1>1, <1>2, <1>3, <1>4, <1>5, <1>6, Zenon DEF Dir

\* What the game may have when the menu is closed.
LEMMA GameIsSound ==
    ASSUME NEW b \in Bags, NEW w \in Worn, NEW u \in Teams
    PROVE  IsBag(b) /\ IsWorn(w) /\ u \subseteq Members
<1>1. b \in Seq(Item) /\ \A i, j \in DOMAIN b : b[i].count + b[i].new > 0 /\ (b[i].kind = b[j].kind => i = j)
  BY GameAssumption, Zenon
<1>2. IsBag(b)
  BY <1>1, Zenon DEF IsBag
<1> QED BY <1>2, GameAssumption, Zenon DEF IsWorn

LEMMA PlayKeeps == ASSUME MenuInv, ~open, Play, UNCHANGED <<menu, g_bag>> PROVE MenuInv'
<1>1. open' = open /\ layer' = layer /\ sel' = sel /\ equip_sel' = equip_sel
  BY Zenon DEF menu
<1>2. layer = "TABS" /\ sel \in Nat /\ equip_sel \in Nat
  BY Zenon DEF MenuInv
<1>3. /\ bag' \in Bags /\ worn' \in Worn /\ used' \in Teams
      /\ max' = [m \in Members |-> MaxOf(worn', m)]
      /\ owned' = [k \in Kinds |-> Units(bag', k) + Wearers(worn', k)]
  BY Zenon DEF Play
<1>4. IsBag(bag') /\ IsWorn(worn') /\ used' \subseteq Members
  BY <1>3, GameIsSound, Zenon
<1>5. GuestInv'
  BY <1>3, <1>4, Zenon DEF GuestInv
<1>6. layer' # "PICK" /\ layer' # "ASK"
  BY <1>1, <1>2
<1> QED BY <1>1, <1>2, <1>5, <1>6, Zenon DEF MenuInv

LEMMA MenuKeeps == ASSUME MenuInv, [MenuNext]_menuVars PROVE MenuInv'
<1>1. CASE UNCHANGED menuVars
  <2>1. UNCHANGED <<open, layer, sel, equip_sel, held, g_bag, guest>>
    BY <1>1, Zenon DEF menuVars, menu
  <2>2. /\ guest' = guest /\ open' = open /\ layer' = layer /\ sel' = sel
        /\ equip_sel' = equip_sel /\ held' = held /\ g_bag' = g_bag
    BY <2>1, Zenon
  <2>3. sel \in Nat /\ equip_sel \in Nat /\ IF open THEN g_bag = bag ELSE layer = "TABS"
    BY Zenon DEF MenuInv
  <2> QED BY <2>2, <2>3, MenuMoves, Zenon
<1>2. CASE Draw
  <2>1. open /\ g_bag' = bag /\ UNCHANGED guest /\ UNCHANGED menu
    BY <1>2, Zenon DEF Draw
  <2>2. open' = open /\ layer' = layer /\ sel' = sel /\ equip_sel' = equip_sel /\ held' = held
    BY <2>1, Zenon DEF menu
  <2>3. sel \in Nat /\ equip_sel \in Nat
    BY Zenon DEF MenuInv
  <2> QED BY <2>1, <2>2, <2>3, MenuMoves, Zenon
<1>3. CASE RunPending
  <2>1. CASE Opened(BOOK)
    BY <2>1, OpenedKeeps, Zenon
  <2>2. CASE UNCHANGED <<open, tab, layer, focus, cat, sel, equip_sel, party_i, held, g_bag, guest>>
    <3>1. /\ guest' = guest /\ open' = open /\ layer' = layer /\ sel' = sel
          /\ equip_sel' = equip_sel /\ held' = held /\ g_bag' = g_bag
      BY <2>2, Zenon
    <3>2. sel \in Nat /\ equip_sel \in Nat /\ IF open THEN g_bag = bag ELSE layer = "TABS"
      BY Zenon DEF MenuInv
    <3> QED BY <3>1, <3>2, MenuMoves, Zenon
  <2> QED BY <1>3, <2>1, <2>2, Zenon DEF RunPending
<1>4. CASE LeaveField
  <2>1. PICK p : p = pending
    BY Zenon
  <2> QED BY <1>4, <2>1, ClosedKeeps, Zenon DEF LeaveField
<1>5. CASE Open(ITEM) \/ Open(BOOK)
  BY <1>5, OpenedKeeps, Zenon DEF Open
<1>6. ASSUME NEW d \in {-1, 1}, open, Shoulder(d) \/ Dir(d, 0) \/ Dir(0, d) PROVE MenuInv'
  <2>1. d \in {-1, 0, 1} /\ 0 \in {-1, 0, 1}
    OBVIOUS
  <2>2. PICK z : z = 0
    BY Zenon
  <2>3. z \in {-1, 0, 1} /\ (Shoulder(d) \/ Dir(d, z) \/ Dir(z, d))
    BY <1>6, <2>2, Zenon
  <2> QED BY <1>6, <2>1, <2>3, ShoulderKeeps, DirKeeps, Zenon
<1> QED BY <1>1, <1>2, <1>3, <1>4, <1>5, <1>6, ConfirmKeeps, BackKeeps, PlayKeeps, Zenon DEF MenuNext

LEMMA MenuStarts == ASSUME MenuInit PROVE MenuInv
<1>1. /\ bag \in Bags /\ worn \in Worn /\ used \in Teams
      /\ max = [m \in Members |-> MaxOf(worn, m)]
      /\ owned = [k \in Kinds |-> Units(bag, k) + Wearers(worn, k)]
  BY Zenon DEF MenuInit
<1>2. GuestInv
  BY <1>1, GameIsSound, Zenon DEF GuestInv
<1>3. ~open /\ layer = "TABS" /\ sel \in Nat /\ equip_sel \in Nat
  BY DEF MenuInit
<1>4. layer # "PICK" /\ layer # "ASK"
  BY <1>3
<1> QED BY <1>2, <1>3, <1>4, Zenon DEF MenuInv

LEMMA MenuIsSound == MenuInv => RepositoryIsSound
<1> SUFFICES ASSUME MenuInv PROVE RepositoryIsSound
  OBVIOUS
<1>1. HeldItemIsLive
  <2>1. layer \in {"PICK", "ASK"} => HeldIs(bag, held, FALSE) \/ HeldIs(bag, held, TRUE)
    BY Zenon DEF MenuInv
  <2> QED BY <2>1, Zenon DEF HeldItemIsLive, HeldIs, Has
<1>2. ItemsAreAccounted
  BY Zenon DEF MenuInv, GuestInv, IsBag, ItemsAreAccounted
<1>3. MaxFollowsEquipment
  BY Zenon DEF MenuInv, GuestInv, MaxFollowsEquipment
<1> QED BY <1>1, <1>2, <1>3, Zenon DEF RepositoryIsSound

-----------------------------------------------------------------------------
\* host_menu.c: whatever is used, dropped, sorted and exchanged, in any order, and
\* whenever the menu is closed under the player's hands, the node a commit writes
\* through g_act_node is in the guest's repository, every unit is in the bag or
\* worn, once, no node is empty, and every member's health is what is worn.
THEOREM RepositoryStaysSound == MenuSpec => []RepositoryIsSound
BY MenuStarts, MenuKeeps, MenuIsSound, PTL DEF MenuSpec

\* The two menus over one game: neither overlay disturbs what the other is owed.
THEOREM MenusAreSafe == Spec => [](RepositoryIsSound /\ ConfirmsShownEntry)
<1>1. Init => MenuInit /\ BattleInit
  BY Zenon DEF Init
<1>2. [Next]_vars => [MenuNext]_menuVars /\ [BattleNext]_battleVars
  BY Zenon DEF Next, vars
<1>3. Spec => MenuSpec /\ BattleSpec
  BY <1>1, <1>2, PTL DEF Spec, MenuSpec, BattleSpec
<1> QED BY <1>3, RepositoryStaysSound, BattleConfirmsWhatItShows, PTL
=============================================================================
