------------------------------ MODULE HostMenu ------------------------------
(***************************************************************************)
(* The field menu the port draws instead of the guest's                    *)
(* (src/ports/sword3/host_menu.c): seven tabs, the pages under them, and   *)
(* the guest's repository of items it works on through raw pointers.       *)
(*                                                                         *)
(* The guest keeps one node per kind of item, so a kind names its node; a  *)
(* node the guest frees is one that is no longer in the bag.  A direction  *)
(* is an event here: what becomes of a stick and a pad that are held       *)
(* together is the same in every menu and no matter of this one.  The      *)
(* cursors of the skill, bestiary and journal pages choose what is drawn   *)
(* and nothing else, and are left out, as is the page of save slots, which *)
(* nothing opens.                                                          *)
(***************************************************************************)
EXTENDS Integers, Sequences, FiniteSets, SequencesExt

CONSTANTS
    Kinds,     \* kinds of items; 0 is the empty node of a bare slot
    Usable, Droppable, Consumed, \* by their place bits and flags
    Book, Special,               \* by the functions their Lua template has
    Cats,      \* the category masks an item's flags hit
    Fits,      \* the slots whose mask its flags hold
    Allowed,   \* the members its place bits name
    Bonus,     \* what wearing it adds to a member's maximal health
    Members, SlotN,
    Bags, Worn, Teams \* what the game may have when the menu is opened

ASSUME KindsAssumption ==
    /\ Kinds \subseteq Nat \ {0}
    /\ Usable \cup Droppable \cup Consumed \cup Book \cup Special \subseteq Kinds
    /\ Cats \in [Kinds -> SUBSET (1..6)]
    /\ Fits \in [Kinds -> SUBSET (0..SlotN-1)]
    /\ Allowed \in [Kinds -> SUBSET Members]
    /\ Bonus \in [Kinds \cup {0} -> Nat] /\ Bonus[0] = 0
    /\ \E n \in 1..4 : Members = 0..n-1

\* A node of the repository; the guest has one for every kind it has units of.
Item == [kind : Kinds, count : Nat, new : Nat]

ASSUME GameAssumption ==
    /\ SlotN \in Nat /\ Bags \subseteq Seq(Item)
    /\ \A b \in Bags : \A i, j \in DOMAIN b :
          b[i].count + b[i].new > 0 /\ (b[i].kind = b[j].kind => i = j)
    /\ Worn \subseteq [Members -> [0..SlotN-1 -> Kinds \cup {0}]]
    /\ Teams \subseteq SUBSET Members

ITEM     == 0
EQUIP    == 1
STATUS   == 3
REFINING == 4
BOOK     == 5
HELP     == 6
Layers == {"TABS", "INNER", "STUB", "BESTIARY", "PICK", "ASK", "EXIT_ASK",
           "JOURNAL", "EQUIP"}
None   == [kind |-> 0, from_new |-> FALSE]

VARIABLES
    open, tab, layer,
    focus,      \* g_item_focus, g_equip_focus or g_book_focus, by the tab
    cat, sel,   \* g_item_cat and g_item_sel
    equip_sel, party_i,
    held,       \* g_act_node and g_act_from_new
    pending,    \* g_pending
    g_bag,      \* the menu's copy of the repository
    bag, worn,  \* guest: the repository and what each member wears
    used, widgets, refining, \* guest: who is there, who is in the team
    max,        \* guest: every member's maximal health
    owned       \* units of every kind the player should have

menu  == <<open, tab, layer, focus, cat, sel, equip_sel, party_i, held, pending>>
guest == <<bag, worn, used, widgets, refining, max, owned>>
menuVars  == <<menu, g_bag, guest>>

Has(b, k)   == \E i \in DOMAIN b : b[i].kind = k
Units(b, k) == LET at == {i \in DOMAIN b : b[i].kind = k}
               IN  IF at = {} THEN 0
                   ELSE LET i == CHOOSE j \in at : TRUE IN b[i].count + b[i].new
Wearers(w, k) == Cardinality({x \in Members \X (0..SlotN-1) : w[x[1]][x[2]] = k})
MaxOf(w, m) == 1 + Cardinality(UNION {{s} \X (1..Bonus[w[m][s]]) : s \in 0..SlotN-1})

MenuTypeOK ==
    /\ open \in BOOLEAN /\ tab \in 0..6 /\ layer \in Layers /\ focus \in Nat
    /\ cat \in 0..6 /\ sel \in Nat /\ equip_sel \in Nat /\ party_i \in Members
    /\ held \in [kind : Kinds \cup {0}, from_new : BOOLEAN]
    /\ pending \in {-1, 3, 4, 5, 6}
    /\ used \subseteq Members /\ widgets \subseteq Members /\ refining \in BOOLEAN
    /\ worn \in [Members -> [0..SlotN-1 -> Kinds \cup {0}]]
    /\ max \in [Members -> Nat] /\ owned \in [Kinds -> Nat]

\* The game goes on while the menu is closed; what it has then is given.
Play ==
    /\ bag' \in Bags /\ worn' \in Worn
    /\ used' \in Teams /\ widgets' \in Teams /\ refining' \in BOOLEAN
    /\ max' = [m \in Members |-> MaxOf(worn', m)]
    /\ owned' = [k \in Kinds |-> Units(bag', k) + Wearers(worn', k)]

\* host_menu_close.  The cursors keep their values in the code, where
\* host_menu_open overwrites them; here they are cleared at once.
Cleared(t) ==
    /\ tab' = t /\ layer' = "TABS" /\ focus' = 0 /\ cat' = 0 /\ sel' = 0
    /\ equip_sel' = 0 /\ party_i' = 0 /\ held' = None

Close(p) ==
    /\ open' = FALSE /\ Cleared(ITEM) /\ pending' = p /\ g_bag' = <<>>
    /\ UNCHANGED guest

MenuInit ==
    /\ open = FALSE /\ tab = ITEM /\ layer = "TABS" /\ focus = 0
    /\ cat = 0 /\ sel = 0 /\ equip_sel = 0 /\ party_i = 0 /\ held = None
    /\ pending = -1 /\ g_bag = <<>>
    /\ bag \in Bags /\ worn \in Worn
    /\ used \in Teams /\ widgets \in Teams /\ refining \in BOOLEAN
    /\ max = [m \in Members |-> MaxOf(worn, m)]
    /\ owned = [k \in Kinds |-> Units(bag, k) + Wearers(worn, k)]

-----------------------------------------------------------------------------
\* The party, and the lists the pages show of the bag.

\* host_menu_in_team: the first member alone while no widget shows a team.
Team == used \cap (IF widgets = {} THEN {0} ELSE widgets)

\* host_menu_item_party: the member at the cursor or the first of the team.
ItemParty == IF party_i \in Team \/ Team = {} THEN party_i
             ELSE CHOOSE m \in Team : \A n \in Team : m <= n

\* host_menu_move_party: the next member of the team, round and round.
PartyAfter(d) ==
    LET n     == Cardinality(Members)
        at(k) == (party_i + k * d + n * n) % n
        k     == CHOOSE j \in 1..n : at(j) \in Team /\ \A i \in 1..j-1 : at(i) \notin Team
    IN  IF Team = {} THEN party_i ELSE at(k)

ItemInCat(it, c) ==
    \/ c = 0 /\ it.new > 0
    \/ c \in {3, 6} /\ it.count > 0
       /\ (c \in Cats[it.kind] \/ (c = 6 /\ Cats[it.kind] = {}))
    \/ c \in {1, 2, 4, 5} /\ it.count > 0
       /\ c \in Cats[it.kind] /\ Cats[it.kind] \cap {3, 6} = {}

FitsSlot(it, slot, m) ==
    it.count + it.new > 0 /\ slot \in Fits[it.kind] /\ m \in Allowed[it.kind]

\* A view is a set of places in the menu's copy, in their order.
View            == {i \in DOMAIN g_bag : ItemInCat(g_bag[i], cat)}
EquipView(m)    == {i \in DOMAIN g_bag : FitsSlot(g_bag[i], focus, m)}
KindAt(view, n) == g_bag[CHOOSE i \in view : Cardinality({j \in view : j < i}) = n].kind
Clamp(at, n)    == IF n = 0 THEN 0 ELSE IF at >= n THEN n - 1 ELSE at
Step(at, d, n)  == IF n = 0 THEN at ELSE (at + d + n) % n

-----------------------------------------------------------------------------
\* Units leave the bag.

\* The counters host_menu_item_consume writes.
Taken(it, from_new) ==
    IF from_new
       THEN IF it.new <= 1 THEN [it EXCEPT !.count = @ + it.new - 1, !.new = 0]
            ELSE [it EXCEPT !.new = @ - 1]
       ELSE [it EXCEPT !.count = IF @ > 0 THEN @ - 1 ELSE 0]

\* Mutant: a unit is not taken from the old ones when there is no new one.
ItemConsumeNoBorrow(k, from_new) ==
    LET at == {i \in DOMAIN bag : bag[i].kind = k}
    IN  IF at = {} THEN bag
        ELSE LET i  == CHOOSE j \in at : TRUE
                 it == IF from_new THEN [bag[i] EXCEPT !.new = IF @ > 0 THEN @ - 1 ELSE 0]
                       ELSE [bag[i] EXCEPT !.count = @ - 1]
             IN  IF it.count + it.new = 0 THEN RemoveAt(bag, i)
                 ELSE [bag EXCEPT ![i] = it]

\* host_menu_item_consume and host_menu_item_unlink, which looks at no more nodes
\* than the menu's copy has, and one.
ItemConsume(k, from_new) ==
    LET at == {i \in DOMAIN bag : bag[i].kind = k}
    IN  IF at = {} THEN bag
        ELSE LET i  == CHOOSE j \in at : TRUE
                 it == Taken(bag[i], from_new)
             IN  IF it.count + it.new = 0 /\ i <= Len(g_bag) + 1
                    THEN RemoveAt(bag, i) ELSE [bag EXCEPT ![i] = it]

Spend(k) == owned' = [owned EXCEPT ![k] = IF @ > 0 THEN @ - 1 ELSE 0]

\* host_menu_item_use_commit; what an item does to a member is the guest's.
ItemUseCommit ==
    /\ party_i' = ItemParty
    /\ IF held.kind # 0 /\ Team # {} /\ held.kind \in Consumed
          THEN bag' = ItemConsume(held.kind, TRUE) /\ Spend(held.kind)
          ELSE UNCHANGED <<bag, owned>>
    /\ g_bag' = bag'
    /\ held' = None /\ layer' = "INNER"
    /\ UNCHANGED <<open, tab, focus, cat, sel, equip_sel, pending,
                   worn, used, widgets, refining, max>>

ItemDropCommit ==
    /\ IF held.kind = 0 THEN UNCHANGED <<bag, owned>>
       ELSE bag' = ItemConsume(held.kind, held.from_new) /\ Spend(held.kind)
    /\ g_bag' = bag'
    /\ held' = None /\ layer' = "INNER"
    /\ UNCHANGED <<open, tab, focus, cat, sel, equip_sel, party_i, pending,
                   worn, used, widgets, refining, max>>

-----------------------------------------------------------------------------
\* Equipment.

\* A unit comes back to its node, or to a new one.
Returned(b, k) ==
    LET at == {j \in DOMAIN b : b[j].kind = k}
    IN  IF at = {} THEN Append(b, [kind |-> k, count |-> 1, new |-> 0])
        ELSE [b EXCEPT ![CHOOSE j \in at : TRUE].count = @ + 1]

\* The guest's ExchangeEqu: a unit of k is worn, and what was worn goes back.
Exchanged(k, old) ==
    LET i    == CHOOSE j \in DOMAIN bag : bag[j].kind = k
        it   == Taken(bag[i], bag[i].count = 0)
        rest == IF it.count + it.new = 0 THEN RemoveAt(bag, i) ELSE [bag EXCEPT ![i] = it]
    IN  IF old = 0 THEN rest ELSE Returned(rest, old)

\* host_menu_equip_swap: the slot, and not the guest's answer, tells whether
\* the exchange was made; the maxima follow, and the caller sees it in worn'.
EquipSwap(k, slot, done) ==
    LET old == worn[party_i][slot]
    IN  IF done
           THEN /\ bag' = Exchanged(k, old)
                /\ worn' = [worn EXCEPT ![party_i][slot] = k]
                /\ max' = [max EXCEPT ![party_i] = @ - Bonus[old] + Bonus[k]]
           ELSE UNCHANGED <<bag, worn, max>>

EquipCommit ==
    LET view == EquipView(party_i)
        at   == Clamp(equip_sel, Cardinality(view))
    IN  /\ equip_sel' = at
        /\ IF view = {} \/ party_i \notin Team
              THEN UNCHANGED <<layer, g_bag, bag, worn, max>>
              ELSE \E done \in BOOLEAN :
                      /\ EquipSwap(KindAt(view, at), focus, done)
                      /\ IF worn'[party_i][focus] = KindAt(view, at)
                            THEN layer' = "INNER" /\ g_bag' = bag'
                            ELSE UNCHANGED <<layer, g_bag>>
        /\ UNCHANGED <<open, tab, focus, cat, sel, party_i, held, pending,
                       used, widgets, refining, owned>>

\* host_menu_equip_open.
EquipOpen ==
    /\ party_i' = ItemParty
    /\ IF ItemParty \in Team
          THEN /\ equip_sel' = 0
               /\ layer' = IF EquipView(ItemParty) = {} THEN layer ELSE "EQUIP"
          ELSE UNCHANGED <<equip_sel, layer>>
    /\ UNCHANGED <<open, tab, focus, cat, sel, held, pending, g_bag, guest>>

-----------------------------------------------------------------------------
\* The three things to do with an item.

\* host_menu_item_use: it opens the bestiary, if the guest can build it, or asks
\* for a member.
ItemUse(k) ==
    \/ /\ k \in Usable \cap Book
       /\ layer' \in {"BESTIARY", layer}
       /\ UNCHANGED <<party_i, held>>
    \/ /\ k \in Usable \ (Book \cup Special) /\ Team # {}
       /\ held' = [kind |-> k, from_new |-> TRUE]
       /\ party_i' = ItemParty /\ layer' = "PICK"
    \/ /\ k \notin Usable \/ (k \notin Book /\ (k \in Special \/ Team = {}))
       /\ UNCHANGED <<layer, party_i, held>>

\* host_menu_item_drop.
ItemDrop(k) ==
    IF k \in Droppable
       THEN /\ held' = [kind |-> k, from_new |-> cat = 0] /\ layer' = "ASK"
            /\ UNCHANGED party_i
       ELSE UNCHANGED <<layer, party_i, held>>

\* host_menu_item_act; the guest's sort leaves the nodes in any order.
ItemAct ==
    LET at == Clamp(sel, Cardinality(View))
    IN  /\ IF focus = 1
              THEN /\ bag' \in SetToSeqs(ToSet(bag)) /\ g_bag' = bag'
                   /\ UNCHANGED <<sel, layer, party_i, held>>
              ELSE /\ sel' = at /\ UNCHANGED <<bag, g_bag>>
                   /\ IF View = {} THEN UNCHANGED <<layer, party_i, held>>
                      ELSE IF focus = 2 THEN ItemDrop(KindAt(View, at))
                      ELSE ItemUse(KindAt(View, at))
        /\ UNCHANGED <<open, tab, focus, cat, equip_sel, pending,
                       worn, used, widgets, refining, max, owned>>

-----------------------------------------------------------------------------
\* host_menu_enter_inner.
EnterInner ==
    /\ layer' = "INNER" /\ focus' = 0
    /\ party_i' = IF tab \in EQUIP..STATUS THEN ItemParty ELSE party_i
    /\ UNCHANGED <<open, tab, cat, sel, equip_sel, held, pending, g_bag, guest>>

\* host_menu_confirm, on the page of the book.
BookConfirm ==
    IF focus \in {0, 1} THEN Close(4 + focus)
    ELSE /\ layer' \in (CASE focus = 4 -> {"EXIT_ASK"}
                          [] focus = 2 -> {"JOURNAL", layer} \* Lua may not be up
                          [] OTHER     -> {"STUB"})
         /\ UNCHANGED <<open, tab, focus, cat, sel, equip_sel, party_i, held,
                        pending, g_bag, guest>>

Confirm ==
    \/ layer = "PICK" /\ ItemUseCommit
    \/ layer = "EQUIP" /\ EquipCommit
    \/ layer = "ASK" /\ ItemDropCommit
    \/ layer = "EXIT_ASK" /\ Close(6)
    \/ layer = "TABS" /\ tab = REFINING /\ refining /\ Close(3)
    \/ layer = "TABS" /\ tab # HELP /\ ~(tab = REFINING /\ refining) /\ EnterInner
    \/ layer = "INNER" /\ tab = ITEM /\ ItemAct
    \/ layer = "INNER" /\ tab = EQUIP /\ EquipOpen
    \/ layer = "INNER" /\ tab = BOOK /\ BookConfirm

\* host_menu_back.
Back ==
    IF layer = "TABS" THEN Close(pending)
    ELSE /\ layer' = IF layer = "INNER" THEN "TABS" ELSE "INNER"
         /\ held' = IF layer = "INNER" THEN held ELSE None
         /\ g_bag' = IF layer = "EQUIP" THEN bag ELSE g_bag
         /\ UNCHANGED <<open, tab, focus, cat, sel, equip_sel, party_i, pending, guest>>

\* host_menu_move_tab: the tab of the refining stays hidden without the feature.
MoveTab(d) ==
    LET n       == IF refining THEN 7 ELSE 6
        visible == (tab - (IF ~refining /\ tab > REFINING THEN 1 ELSE 0) + d + n) % n
    IN  /\ tab' = visible + (IF ~refining /\ visible >= REFINING THEN 1 ELSE 0)
        /\ layer' = "TABS"
        /\ UNCHANGED <<open, focus, cat, sel, equip_sel, party_i, held, pending, g_bag, guest>>

MoveParty(d) ==
    /\ party_i' = PartyAfter(d)
    /\ IF party_i' # party_i THEN equip_sel' = 0 /\ g_bag' = bag
       ELSE equip_sel' = (IF layer = "EQUIP" THEN Clamp(equip_sel, Cardinality(EquipView(party_i)))
                          ELSE equip_sel) /\ UNCHANGED g_bag
    /\ UNCHANGED <<open, tab, layer, focus, cat, sel, held, pending, guest>>

MoveFocus(d, n) ==
    /\ focus' = Step(focus, d, n)
    /\ equip_sel' = IF tab = EQUIP THEN 0 ELSE equip_sel
    /\ UNCHANGED <<open, tab, layer, cat, sel, party_i, held, pending, g_bag, guest>>

MoveItem(dcat, dsel) ==
    /\ cat' = Step(cat, dcat, 7)
    /\ sel' = IF dcat # 0 THEN 0 ELSE Step(sel, dsel, Cardinality(View))
    /\ UNCHANGED <<open, tab, layer, focus, equip_sel, party_i, held, pending, g_bag, guest>>

MoveEquipSel(d) ==
    LET n == Cardinality(EquipView(party_i))
    IN  /\ equip_sel' = Clamp(Step(equip_sel, d, n), n)
        /\ UNCHANGED <<open, tab, layer, focus, cat, sel, party_i, held, pending, g_bag, guest>>

\* The shoulder buttons of host_menu_button.
Shoulder(d) ==
    \/ layer = "EQUIP" /\ MoveParty(d)
    \/ layer = "INNER" /\ tab \in EQUIP..STATUS /\ MoveParty(d)
    \/ layer = "INNER" /\ tab = ITEM /\ MoveFocus(d, 3)
    \/ layer = "INNER" /\ tab > STATUS /\ MoveTab(d)
    \/ layer = "TABS" /\ MoveTab(d)

\* host_menu_dir: dx to the right, dy down, one of them 0.
Dir(dx, dy) ==
    \/ layer = "EQUIP" /\ MoveEquipSel(dy)
    \/ layer = "PICK" /\ MoveParty(dx + dy)
    \/ layer = "TABS" /\ dx # 0 /\ MoveTab(dx)
    \/ layer = "INNER" /\ tab = BOOK /\ dx # 0 /\ MoveFocus(dx, 5)
    \/ layer = "INNER" /\ tab = ITEM /\ MoveItem(dx, dy)
    \/ layer = "INNER" /\ tab = EQUIP /\ dy # 0 /\ MoveFocus(dy, SlotN)

-----------------------------------------------------------------------------
\* host_menu_open, and host_menu_open_book when the guest's save page is left.
Opened(t) == open' = TRUE /\ Cleared(t) /\ g_bag' = bag /\ UNCHANGED guest

Open(t) == ~open /\ Opened(t) /\ UNCHANGED pending

\* host_menu_draw.
Draw ==
    /\ open
    /\ g_bag' = bag
    /\ UNCHANGED <<menu, guest>>

\* host_menu_run_pending takes what was chosen to one of the guest's pages; after
\* the last save the menu comes back if the quit event cannot be queued.
RunPending ==
    /\ pending # -1
    /\ pending' = -1
    /\ \/ pending = 6 /\ Opened(BOOK)
       \/ UNCHANGED <<open, tab, layer, focus, cat, sel, equip_sel, party_i, held,
                      g_bag, guest>>

\* sync_ui_mode closes the menu when a fight or the title comes up.
LeaveField == open /\ Close(pending)

MenuNext ==
    \/ Open(ITEM) \/ Open(BOOK)
    \/ open /\ Confirm
    \/ open /\ Back
    \/ \E d \in {-1, 1} : open /\ (Shoulder(d) \/ Dir(d, 0) \/ Dir(0, d))
    \/ Draw \/ RunPending \/ LeaveField
    \/ ~open /\ Play /\ UNCHANGED <<menu, g_bag>>

MenuSpec == MenuInit /\ [][MenuNext]_menuVars
-----------------------------------------------------------------------------
\* Between choosing an item and confirming what to do with it, its node is in
\* the guest's repository: the commit writes to it, and may free it.
HeldItemIsLive == layer \in {"PICK", "ASK"} => Has(bag, held.kind)

\* Whatever is used, dropped, worn, sorted or taken back, the player has every
\* unit that was not used up or dropped, once, and no node is left without one.
ItemsAreAccounted ==
    /\ \A k \in Kinds : owned[k] = Units(bag, k) + Wearers(worn, k)
    /\ \A i \in DOMAIN bag : bag[i].count + bag[i].new > 0

\* However often equipment is exchanged, a member's maximal health is what the
\* pieces worn now give: no bonus stays behind and none is lost.
MaxFollowsEquipment == \A m \in Members : max[m] = MaxOf(worn, m)

\* The guest's repository, the equipment and what the menu shows of them stay
\* together through every sequence of uses, drops and exchanges.
RepositoryIsSound == HeldItemIsLive /\ ItemsAreAccounted /\ MaxFollowsEquipment
=============================================================================
