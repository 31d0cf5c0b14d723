--------------------------- MODULE HostBattleMenu ---------------------------
(***************************************************************************)
(* The battle overlay (src/ports/sword3/host_battle_menu.c, shown with     *)
(* SWORD3_NATIVE_BATTLE=0): a grid of commands and the lists of skills and *)
(* items, drawn over the guest's own battle menu and worked through its    *)
(* variables.  The guest changes under it; every frame and every           *)
(* controller event begins with a poll that follows.                       *)
(*                                                                         *)
(* A button is an event here.  The latches that keep a held one from       *)
(* repeating can only make fewer of them.                                  *)
(***************************************************************************)
EXTENDS Integers, Sequences, FiniteSets, SequencesExt

CONSTANTS
    Actors,  \* party slots
    Skills,  \* every actor's list of skills
    BattleItems, \* the bags a fight starts with: the actors', and under -1 the repository
    Able     \* what may keep an actor from a command

Holders == Actors \cup {-1}

\* A node of a list.  temp 0 is a node that cannot be read; cats are the categories
\* whose masks its flags hit; obs is the type 0x1f of the special moves and can the
\* Lua flags CANOBSOLT and CANOBSOLT2; kind is the Lua type that gives a skill whose
\* flags hit no mask its category; ok are its place bits.
Entry == [temp : Nat, cats : SUBSET (0..3), obs : BOOLEAN, can : BOOLEAN, kind : 0..2,
          ok : BOOLEAN, count : Nat]

ASSUME ListsAssumption ==
    /\ Actors # {} /\ Actors \subseteq 0..3
    /\ Skills \in [Actors -> Seq(Entry)] /\ BattleItems \in [Holders -> Seq(Entry)]
    /\ Able \subseteq [frozen : BOOLEAN, magic : BOOLEAN, special : BOOLEAN,
                       flee : BOOLEAN, extras : SUBSET (5..7)]

\* A walk of a list stops at ENTRY_MAX nodes (BATTLE_ENTRY_MAX); the lists of the
\* model are those it takes whole.
ENTRY_MAX == 32
ASSUME EntriesAssumption ==
    /\ \A a \in Actors  : Len(Skills[a]) <= ENTRY_MAX
    /\ \A h \in Holders : Len(BattleItems[h]) <= ENTRY_MAX

Sub     == {"MAGIC", "ITEM", "SPECIAL"}
BattleLayers == Sub \cup {"OFF", "IDLE", "COMMAND", "TARGET"}
FLEE    == 9
COLS    == 3
NowOf   == [l \in Sub |-> CASE l = "MAGIC" -> 2 [] l = "ITEM" -> 4 [] OTHER -> 8]
TARGET  == 3
WAIT    == 99 \* a turn is carried out; 100 to 102 are alike

VARIABLES
    ui,     \* the overlay's variables, a record
    now, cmd_sel, player, \* guest: NowMenu, the selected command, whose turn
    able, msg,            \* guest: what the actor may do, whether a message is up
    battle_bag, \* guest: the items left, of every holder
    polled, \* the overlay has polled since anything else happened
    chosen  \* the entry confirmed in this turn: as it was shown, the guest's choice,
            \* and whether the guest's own pages have such an entry

battle_guest == <<now, cmd_sel, player, able, msg, battle_bag>>
battleVars   == <<ui, battle_guest, polled, chosen>>

NoChoice == [shown |-> 0, got |-> 0, placed |-> FALSE]

BattleInit ==
    /\ ui = [layer |-> "OFF", focus |-> 0, cat |-> 0, list |-> 0, actor |-> -1,
             pack |-> <<>>, entries |-> <<>>, ok_cmd |-> 0]
    /\ now = 0 /\ cmd_sel = 0 /\ player = -1 /\ able \in Able /\ msg = FALSE
    /\ battle_bag = BattleItems /\ polled = FALSE /\ chosen = NoChoice

BattleTypeOK ==
    /\ ui.layer \in BattleLayers /\ ui.focus \in 0..8 /\ ui.cat \in 0..3 /\ ui.list \in Nat
    /\ ui.actor \in Actors \cup {-1} /\ ui.ok_cmd \in 0..8
    /\ now \in {0, 1, 2, TARGET, 4, 8, WAIT} /\ cmd_sel \in 0..8
    /\ player \in Actors \cup {-1} /\ able \in Able
    /\ msg \in BOOLEAN /\ polled \in BOOLEAN
    /\ chosen \in [shown : Nat, got : Nat, placed : BOOLEAN]

-----------------------------------------------------------------------------
\* The grid of commands.

\* battle_slot_grey.
SlotGrey(slot) ==
    \/ player = -1 /\ slot = 3
    \/ player # -1 /\ able.frozen /\ slot \notin {1, 4}
    \/ player # -1 /\ ~able.frozen /\ ((slot = 1 /\ ~able.magic) \/ (slot = 3 /\ ~able.special))

Frozen == player # -1 /\ able.frozen

FleeGrey == Frozen \/ player = -1 \/ ~able.flee

\* The five commands, the actor's own ones, grey or not, and the flight.
Cells(extraGrey) ==
    LET cell(slot, grey) == [slot |-> slot, grey |-> grey]
        extras == IF Frozen \/ player = -1 THEN <<>> ELSE SetToSortSeq(able.extras, <)
    IN  [i \in 1..5 |-> cell(i - 1, SlotGrey(i - 1))]
        \o [i \in DOMAIN extras |-> cell(extras[i], extraGrey)]
        \o <<cell(FLEE, FleeGrey)>>

\* Mutant: the actor's own commands are greyed with the special move.
PackGreyExtras == Cells(SlotGrey(3))

\* battle_refresh_commands.
Pack == Cells(FALSE)

CmdEnabled(pack, at) == ~pack[at + 1].grey

\* battle_snap_cmd_focus: the first command that can be chosen.
Snap(pack, at) ==
    LET from    == IF at < Len(pack) THEN at ELSE 0
        enabled == {i \in 0..Len(pack)-1 : CmdEnabled(pack, i)}
    IN  IF from \in enabled \/ enabled = {} THEN from
        ELSE CHOOSE i \in enabled : \A j \in enabled : i <= j

\* battle_pack_step, of the directions 0 up, 1 right, 2 down, 3 left.
PackStep(n, from, dir) ==
    LET col == from % COLS
        row == from \div COLS
        last(c) == CHOOSE i \in 0..n-1 : i % COLS = c /\ i + COLS >= n
    IN  CASE dir = 0 -> IF from < COLS THEN last(col) ELSE from - COLS
          [] dir = 2 -> IF from + COLS >= n THEN col ELSE from + COLS
          [] dir = 1 -> IF from + 1 >= n \/ (from + 1) \div COLS # row
                           THEN row * COLS ELSE from + 1
          [] OTHER   -> IF from > row * COLS THEN from - 1
                        ELSE IF row * COLS + COLS <= n THEN row * COLS + COLS - 1
                        ELSE n - 1

\* battle_focus_cmd: over grey cells, but not past the start.
FocusCmd(pack, from, dir) ==
    LET n       == Len(pack)
        step[k \in 0..n] == IF k = 0 THEN from ELSE PackStep(n, step[k-1], dir)
        hits    == {k \in 1..n : CmdEnabled(pack, step[k])
                                 /\ \A j \in 1..k : step[j] # from}
    IN  IF hits = {} THEN from
        ELSE step[CHOOSE k \in hits : \A j \in hits : k <= j]

-----------------------------------------------------------------------------
\* The lists.

\* battle_skill_cat and battle_item_cat: the first mask that is hit.
CatOf(l, e) ==
    LET cats == IF l = "ITEM" THEN e.cats ELSE e.cats \cap (0..2)
    IN  IF cats # {} THEN CHOOSE c \in cats : \A d \in cats : c <= d
        ELSE IF l = "ITEM" THEN 3 ELSE e.kind

\* What a loop over a list copies: the entries at some places, in their order.
Only(list, at) ==
    [k \in 1..Cardinality(at) |-> list[CHOOSE i \in at : Cardinality({j \in at : j <= i}) = k]]

\* Whose bag the actor has.  battle_prepare_actor_lists points one without a node to
\* the repository, before a list is shown and before an entry is looked up.
Holder == IF player # -1 /\ battle_bag[player] # <<>> THEN player ELSE -1

Readable(h) == \E i \in DOMAIN battle_bag[h] : battle_bag[h][i].temp > 0

\* battle_is_obsolt.
IsObsolt(e) == e.obs \/ e.can

\* battle_refresh_skills, and battle_refresh_items, which takes the repository's items
\* for a bag no node of which can be read.
Shown(l) ==
    IF l = "ITEM"
    THEN LET all == battle_bag[IF Readable(Holder) THEN Holder ELSE -1]
         IN  Only(all, {i \in DOMAIN all : all[i].temp > 0 /\ all[i].ok /\ all[i].count > 0})
    ELSE IF player = -1 THEN <<>>
    ELSE LET all == Skills[player]
         IN  Only(all, {i \in DOMAIN all : all[i].temp > 0 /\ all[i].ok
                                           /\ (IsObsolt(all[i]) <=> l = "SPECIAL")})

BattleView(u) == IF u.layer = "SPECIAL" THEN u.entries
                 ELSE Only(u.entries, {i \in DOMAIN u.entries : CatOf(u.layer, u.entries[i]) = u.cat})
CatN(u)  == CASE u.layer = "MAGIC" -> 3 [] u.layer = "ITEM" -> 4 [] OTHER -> 1

ClampList(u) ==
    LET v == [u EXCEPT !.cat = IF @ < CatN(u) THEN @ ELSE 0]
        n == Len(BattleView(v))
    IN  [v EXCEPT !.list = IF n = 0 THEN 0 ELSE IF @ >= n THEN n - 1 ELSE @]

\* The list the guest keeps for a layer, and the category within it.  The special
\* moves are those of the type alone, on the first mask's page.
Native(l, cat) ==
    LET all == IF l = "ITEM" THEN battle_bag[Holder] ELSE Skills[player]
        in(e) == /\ e.temp > 0 /\ e.ok /\ cat \in e.cats
                 /\ IF l = "ITEM" THEN e.count > 0 ELSE e.obs <=> l = "SPECIAL"
    IN  Only(all, {i \in DOMAIN all : in(all[i])})

IndexIn(seq, temp, list) ==
    LET at == {i \in DOMAIN seq : seq[i].temp = temp}
    IN  IF at = {} THEN list + 1 ELSE CHOOSE i \in at : \A j \in at : i <= j

\* Mutant: the position on the screen is taken for the guest's.
NativeIndexShown(l, cat, temp, list) == list + 1

\* battle_native_skill_index and battle_native_item_index.
NativeIndex(l, cat, temp, list) == IndexIn(Native(l, cat), temp, list)

\* battle_enter.
Enter(u, l) ==
    LET v == [u EXCEPT !.layer = l]
        w == IF l \in Sub /\ u.layer # l
                THEN [v EXCEPT !.cat = 0, !.list = 0, !.entries = Shown(l)]
             ELSE IF l = "COMMAND"
                THEN [v EXCEPT !.pack = Pack, !.focus = Snap(Pack, @)]
             ELSE v
    IN  [ClampList(w) EXCEPT !.ok_cmd = IF u.layer = l \/ l \in {"COMMAND", "TARGET"}
                                           THEN @ ELSE 0]

\* host_battle_close.
Closed(u) == IF u.layer = "OFF" THEN u
             ELSE [u EXCEPT !.layer = "OFF", !.pack = <<>>, !.entries = <<>>,
                            !.actor = -1, !.ok_cmd = 0]

-----------------------------------------------------------------------------
\* What the guest makes of a command: a target is asked for, the turn goes on,
\* or the command is refused.
Outcomes(refused) == {TARGET, WAIT, refused}

\* host_battle_poll.  A command that had to be selected anew is given first.
Poll ==
    /\ ~polled
    /\ polled' = TRUE
    /\ LET given == ui.ok_cmd # 0 /\ now = 1
       IN  /\ now' \in (IF given THEN Outcomes(1) ELSE {now})
           /\ cmd_sel' = IF given THEN ui.ok_cmd ELSE cmd_sel
           /\ LET u == [ui EXCEPT !.ok_cmd = IF given THEN 0 ELSE @,
                                  !.actor = player,
                                  !.entries = IF player # ui.actor /\ ui.layer \in Sub
                                                 THEN Shown(ui.layer) ELSE @]
              IN  ui' = IF now = 0 THEN Closed(ui)
                        ELSE IF now' = TARGET THEN Enter(u, "TARGET")
                        ELSE IF u.layer \in Sub THEN IF now' = WAIT THEN Enter(u, "IDLE") ELSE u
                        ELSE IF now' = 1 THEN Enter(u, "COMMAND")
                        ELSE IF u.layer = "COMMAND" THEN Enter(u, "IDLE")
                        ELSE IF u.layer \in {"OFF", "TARGET"} THEN [u EXCEPT !.layer = "IDLE"] ELSE u
    /\ UNCHANGED <<player, able, msg, battle_bag, chosen>>

\* battle_confirm_command.
ConfirmCommand ==
    LET slot == ui.pack[ui.focus + 1].slot
    IN  /\ ui.layer = "COMMAND" /\ ui.focus < Len(ui.pack) /\ CmdEnabled(ui.pack, ui.focus)
        /\ \/ /\ slot \in 1..3
              /\ ui' = Enter(ui, <<"MAGIC", "ITEM", "SPECIAL">>[slot])
              /\ UNCHANGED <<now, cmd_sel>>
           \/ /\ slot = FLEE /\ now' \in {WAIT, now}
              /\ UNCHANGED <<ui, cmd_sel>>
           \/ /\ slot \notin {1, 2, 3, FLEE} /\ cmd_sel = slot + 1
              /\ cmd_sel' = 0 /\ ui' = [ui EXCEPT !.ok_cmd = slot + 1]
              /\ UNCHANGED now
           \/ /\ slot \notin {1, 2, 3, FLEE} /\ cmd_sel # slot + 1
              /\ cmd_sel' = slot + 1 /\ now' \in Outcomes(1)
              /\ UNCHANGED ui
        /\ UNCHANGED <<battle_bag, chosen>>

Used(b, temp) == [i \in DOMAIN b |-> IF temp > 0 /\ b[i].temp = temp /\ b[i].count > 0
                                        THEN [b[i] EXCEPT !.count = @ - 1] ELSE b[i]]

\* An item is used out of the actor's bag.
UseUp(temp) == battle_bag' = [battle_bag EXCEPT ![Holder] = Used(@, temp)]

\* The guest's pages have the entry: its flags hit a mask of the pages, a special move
\* is one by its type, and an item was not shown for want of a readable one.
Placed(l, e) == CASE l = "MAGIC"   -> e.cats \cap (0..2) # {}
                  [] l = "SPECIAL" -> e.obs /\ 0 \in e.cats
                  [] OTHER         -> e.cats # {} /\ Readable(Holder)

\* battle_confirm_entry.
ConfirmEntry ==
    LET u    == ClampList(ui)
        it   == BattleView(u)[u.list + 1]
        cat  == IF u.layer = "SPECIAL" THEN 0 ELSE u.cat
        idx  == NativeIndex(u.layer, cat, it.temp, u.list)
        list == Native(u.layer, cat)
        got  == IF idx \in DOMAIN list THEN list[idx].temp ELSE 0
    IN  /\ ui.layer \in Sub /\ BattleView(u) # <<>>
        /\ ui' = u
        /\ chosen' = [shown |-> it.temp, got |-> got, placed |-> Placed(u.layer, it)]
        /\ \E out \in Outcomes(NowOf[u.layer]) :
              /\ now' = IF out = NowOf[u.layer] THEN 1 ELSE out
              /\ cmd_sel' = IF out = TARGET
                               THEN CASE u.layer = "MAGIC" -> 2 [] u.layer = "ITEM" -> 3
                                      [] OTHER -> 4
                            ELSE cmd_sel
              /\ IF u.layer = "ITEM" /\ out = WAIT THEN UseUp(got) ELSE UNCHANGED battle_bag

\* battle_back; the guest's cancel goes back to its commands.
BattleBack ==
    /\ ui.layer \in Sub
    /\ now' = IF now \in {2, 4, 8} THEN 1 ELSE now
    /\ ui' = Enter(ui, "COMMAND")
    /\ UNCHANGED <<cmd_sel, battle_bag, chosen>>

\* battle_dir and the shoulder buttons.
MoveCat(d) ==
    /\ ui.layer \in {"MAGIC", "ITEM"}
    /\ ui' = ClampList([ui EXCEPT !.cat = (@ + d + CatN(ui)) % CatN(ui), !.list = 0])
    /\ UNCHANGED <<now, cmd_sel, battle_bag, chosen>>

MoveList(d) ==
    /\ ui.layer \in Sub
    /\ LET n    == Len(BattleView(ui))
           next == ui.list + d
       IN  ui' = [ui EXCEPT !.list = IF n = 0 THEN @ ELSE IF next < 0 THEN n - 1
                                     ELSE IF next >= n THEN 0 ELSE next]
    /\ UNCHANGED <<now, cmd_sel, battle_bag, chosen>>

MoveCommand(dir) ==
    /\ ui.layer = "COMMAND" /\ ui.pack # <<>>
    /\ ui' = [ui EXCEPT !.focus = FocusCmd(ui.pack, @, dir)]
    /\ UNCHANGED <<now, cmd_sel, battle_bag, chosen>>

\* host_battle_button and host_battle_axis: nothing while a message is up.
Button ==
    /\ polled /\ polled' = FALSE
    /\ ui.layer \in Sub \cup {"COMMAND"} /\ ~msg
    /\ \/ ConfirmCommand \/ ConfirmEntry \/ BattleBack
       \/ \E d \in {-1, 1} : MoveCat(d) \/ MoveList(d)
       \/ \E dir \in 0..3 : MoveCommand(dir)
    /\ UNCHANGED <<player, able, msg>>

-----------------------------------------------------------------------------
\* The guest between two polls.
GuestTurn ==
    /\ now \in {0, WAIT} /\ ~msg
    /\ player' \in Actors /\ able' \in Able /\ now' = 1 /\ chosen' = NoChoice
    /\ UNCHANGED <<cmd_sel, msg, battle_bag>>

\* The target is picked, an item with it used up, or refused.
GuestTarget ==
    /\ now = TARGET
    /\ now' \in {WAIT, 1, 2, 4, 8}
    /\ (now' \in {2, 4, 8}) => cmd_sel = (CASE now' = 2 -> 2 [] now' = 4 -> 3 [] OTHER -> 4)
    /\ IF now' = WAIT /\ cmd_sel = 3 THEN UseUp(chosen.got) ELSE UNCHANGED battle_bag
    /\ UNCHANGED <<cmd_sel, player, able, msg, chosen>>

\* The player, who has the guest's own list back then, leaves it.
GuestCancel ==
    /\ now \in {2, 4, 8} /\ now' = 1
    /\ UNCHANGED <<cmd_sel, player, able, msg, battle_bag, chosen>>

GuestMessage ==
    msg' = ~msg /\ UNCHANGED <<now, cmd_sel, player, able, battle_bag, chosen>>

\* A fight ends, and the next one begins with a full bag.
BattleEnds ==
    /\ now = WAIT /\ ~msg
    /\ now' = 0 /\ player' = -1 /\ battle_bag' = BattleItems /\ chosen' = NoChoice
    /\ UNCHANGED <<cmd_sel, able, msg>>

Guest ==
    /\ polled /\ polled' = FALSE
    /\ (GuestTurn \/ GuestTarget \/ GuestCancel \/ GuestMessage \/ BattleEnds)
    /\ UNCHANGED ui

BattleNext == Poll \/ Button \/ Guest

BattleSpec == BattleInit /\ [][BattleNext]_battleVars
-----------------------------------------------------------------------------
\* The guest uses the entry that was on the screen when it was confirmed, although
\* the overlay's list is an older copy, divided into other pages than the guest's.
\* This is so of the entries that the guest's pages have; for any other one the code
\* gives the place on the screen, which is some other entry's (battle_confirm_entry).
ConfirmsShownEntry == chosen.placed => chosen.shown = chosen.got

\* From every command that can be chosen the directions lead to every other one,
\* whatever else is grey; but not to the defence if the skills, the special move
\* and the flight are grey and the actor has no command of their own.
CommandsReachable ==
    LET n       == Len(ui.pack)
        enabled == {i \in 0..n-1 : ~ui.pack[i + 1].grey}
        moves   == {<<i, FocusCmd(ui.pack, i, dir)>> : i \in enabled, dir \in 0..3}
        start   == CHOOSE i \in enabled : TRUE
        to[k \in 0..n]   == IF k = 0 THEN {start} ELSE
                            LET r == to[k-1]
                            IN  r \cup {m[2] : m \in {e \in moves : e[1] \in r}}
        from[k \in 0..n] == IF k = 0 THEN {start} ELSE
                            LET r == from[k-1]
                            IN  r \cup {m[1] : m \in {e \in moves : e[2] \in r}}
    IN  (ui.layer = "COMMAND" /\ ~(n = 6 /\ enabled = {0, 2, 4}))
           => to[n] = enabled /\ from[n] = enabled
=============================================================================
