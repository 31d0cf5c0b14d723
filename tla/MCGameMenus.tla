---------------------------- MODULE MCGameMenus ----------------------------
(***************************************************************************)
(* The field: two members and two slots; a potion, two blades for the same *)
(* slot, a relic that is never used up and the bestiary's book.            *)
(*                                                                         *)
(* The battle: two actors.  A skill that hits two masks is on two pages of *)
(* the guest and on one page of the overlay; a skill with no place bits, a *)
(* special move by its type, one by the Lua flags alone and a skill        *)
(* without a mask stand between the others.  The first actor's bag is      *)
(* empty, and is the repository; the second one's cannot be read.  The     *)
(* items run out.  What can be grey comes in every mixture, with and       *)
(* without extra commands.                                                 *)
(***************************************************************************)
EXTENDS GameMenus

Potion == 1
Sword  == 2
Knife  == 3
Relic  == 4
Tome   == 5

MCKinds     == 1..5
MCUsable    == {Potion, Sword, Relic, Tome}
MCDroppable == {Potion, Knife}
MCConsumed  == {Potion}
MCCats      == [k \in MCKinds |-> CASE k = Potion -> {1}
                                    [] k \in {Sword, Knife} -> {4}
                                    [] k = Relic -> {1, 3}
                                    [] OTHER -> {}]
MCFits      == [k \in MCKinds |-> IF k \in {Sword, Knife} THEN {0} ELSE {}]
MCAllowed   == [k \in MCKinds |-> IF k = Sword THEN {0} ELSE {0, 1}]
MCBonus     == [k \in MCKinds \cup {0} |-> CASE k = Sword -> 3
                                             [] k = Knife -> 1
                                             [] OTHER -> 0]
Node(k, c, n) == [kind |-> k, count |-> c, new |-> n]
MCBags == { <<Node(Potion, 1, 1), Node(Sword, 0, 1)>>,
            <<Node(Sword, 1, 0), Node(Tome, 1, 0), Node(Relic, 1, 0)>>,
            <<Node(Knife, 2, 0), Node(Potion, 0, 1)>> }
Bare(m)     == [s \in 0..1 |-> 0]
MCWorn      == { [m \in {0, 1} |-> [Bare(m) EXCEPT ![0] = IF m = 0 THEN Knife ELSE 0]] }
MCTeams     == { {}, {0, 1} }

Of(temp, cats, ok) == [temp |-> temp, cats |-> cats, obs |-> FALSE, can |-> FALSE,
                       kind |-> 1, ok |-> ok, count |-> 1]
Obs(e) == [e EXCEPT !.obs = TRUE]
Can(e) == [e EXCEPT !.can = TRUE]

MCActors == {0, 1}
MCSkills == [a \in MCActors |->
    IF a = 0 THEN <<Of(11, {0, 1}, TRUE), Of(12, {1}, FALSE), Can(Of(15, {1}, TRUE)),
                    Obs(Of(13, {0}, TRUE)), Of(16, {}, TRUE), Of(14, {1}, TRUE)>>
    ELSE <<>>]
MCItems  == [h \in MCActors \cup {-1} |->
    CASE h = -1 -> <<Of(0, {3}, TRUE), Of(21, {0, 3}, TRUE), Of(23, {3}, TRUE)>>
      [] h = 0  -> <<>>
      [] OTHER  -> <<Of(0, {0}, TRUE)>>]
MCAble   ==
    [frozen : {FALSE}, magic : BOOLEAN, special : BOOLEAN, flee : BOOLEAN, extras : {{}}]
    \cup [frozen : {FALSE}, magic : BOOLEAN, special : BOOLEAN, flee : {FALSE},
          extras : {{5}}]
    \cup [frozen : {TRUE}, magic : {TRUE}, special : {TRUE}, flee : {TRUE},
          extras : {{5, 6, 7}}]
    \cup [frozen : {FALSE}, magic : {FALSE}, special : {FALSE}, flee : BOOLEAN,
          extras : {{5, 6, 7}}]
=============================================================================
