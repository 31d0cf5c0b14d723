---------------------------- MODULE GuestChoices ----------------------------
(***************************************************************************)
(* Two lists of the guest that the SDL bridge drives by writing the        *)
(* guest's own variables (src/ports/sword3/sdl_bridge.c): the shop, whose  *)
(* handlers for moving and for buying count rows in different lists, and   *)
(* the choices of a dialog, which the bridge answers in the guest's name.  *)
(***************************************************************************)
EXTENDS Integers, Sequences, FiniteSetsExt

CONSTANTS
    Items,      \* items in the shop's whole list
    FullRows,   \* rows that fit the shop's view entirely
    MaxWalk,    \* nodes the bridge walks in a list of the shop
    MaxButtons, \* buttons of a dialog
    MaxWidgets, \* dialogs the guest opens
    MaxAnswers  \* nodes the bridge walks in the answer queue

ASSUME ChoicesAssumption ==
    /\ Items \in Nat /\ FullRows \in 1..Items /\ MaxWalk \in Nat
    /\ MaxButtons \in Nat \ {0, 1} /\ MaxWidgets \in Nat /\ MaxAnswers \in Nat \ {0}

VARIABLES
    shop,     \* the guest's shop variables
    acted,    \* history: the item the shop's last handler acted on, the one lit then,
              \* whether the bridge had found it, and where the shown list began
    widgets,  \* the dialogs, oldest first
    gate,     \* choices that keep the player from walking
    answers   \* the guest's queue of answers
choiceVars == <<shop, acted, widgets, gate, answers>>

-----------------------------------------------------------------------------
\* The list shown is the tail of the whole list from start on.  scroll and
\* row count in the shown list; one more row than fits may be shown clipped.
\* bad is the first node that guest_heap_ok refuses, Items when there is none,
\* or -1 when the guest has no highlight that could be read.
Shown(s)   == Items - s.start
Visible(s) == Min({FullRows + 1, Shown(s) - s.scroll})

Untouched == [item |-> 0, lit |-> 0, found |-> TRUE, start |-> 0]

ShopInit ==
    /\ shop \in [open : {TRUE}, start : 0..(Items - 1), scroll : {0}, row : {0},
                 visible : {0}, lit : {0}, bad : -1..Items]
    /\ acted = Untouched

\* The guest's own move: the view scrolls when the row is the last visible.
\* It recounts what is visible afterwards.
GuestDown(s) ==
    LET moved == IF s.row + 1 < s.visible
                 THEN [s EXCEPT !.row = @ + 1, !.lit = @ + 1]
                 ELSE [s EXCEPT !.scroll = @ + 1, !.lit = @ + 1]
    IN  [moved EXCEPT !.visible = Visible(moved)]
GuestUp(s) ==
    LET moved == IF s.row > 0 THEN [s EXCEPT !.row = @ - 1, !.lit = @ - 1]
                 ELSE [s EXCEPT !.scroll = @ - 1, !.lit = @ - 1]
    IN  [moved EXCEPT !.visible = Visible(moved)]

\* shop_display_count: the walk ends at a node that cannot be read.
DisplayCount(s) == Min({Shown(s), MaxWalk, IF s.bad >= s.start THEN s.bad - s.start ELSE MaxWalk})

\* shop_set_dir_source, up and down: not past the ends, and scrolling before
\* the highlight enters the clipped row.
Absolute(s) == s.scroll + s.row
ShopUp   == Absolute(shop) > 0 /\ shop' = GuestUp(shop) /\ UNCHANGED acted
ShopDown ==
    /\ Absolute(shop) < DisplayCount(shop) - 1
    /\ LET seen == [shop EXCEPT !.visible = Visible(shop)]
       IN  shop' = GuestDown(IF /\ FullRows < seen.visible /\ DisplayCount(shop) > FullRows
                                /\ shop.row >= FullRows - 1
                             THEN [seen EXCEPT !.visible = FullRows] ELSE seen)
    /\ UNCHANGED acted

\* shop_highlighted_row: the lit item's place in the whole list, as a row; it
\* is looked for among the first MaxWalk nodes, over nodes that can be read.
Found(s) == s.start + s.lit < MaxWalk /\ s.start + s.lit <= s.bad
HighlightedRow(s) == (s.start + s.lit) - s.scroll

\* The row the handler is shown: the visible one when the lit item was not
\* found.
GivenRow(s) == IF Found(s) THEN HighlightedRow(s) ELSE s.row
ActsOn(s) == [item |-> s.scroll + GivenRow(s), lit |-> s.start + s.lit,
              found |-> Found(s), start |-> s.start]

\* Mutant: the row is left where the handler was shown it.
ShopActKeepsRow(closes) ==
    /\ acted' = ActsOn(shop)
    /\ shop' = [shop EXCEPT !.open = ~closes, !.row = GivenRow(shop)]

\* Left and right change the amount of, and A buys, the item at the row the
\* handler finds; afterwards the row is what it was unless the shop closed.
ShopAct(closes) ==
    /\ acted' = ActsOn(shop)
    /\ shop' = [shop EXCEPT !.open = ~closes,
                            !.row = IF closes THEN GivenRow(shop) ELSE @]

ShopReopen(start, bad) ==
    /\ shop' = [open |-> TRUE, start |-> start, scroll |-> 0, row |-> 0, visible |-> 0, lit |-> 0,
                bad |-> bad]
    /\ acted' = Untouched

-----------------------------------------------------------------------------
ChoiceInit == widgets = <<>> /\ gate = 0 /\ answers = <<>>

\* The guest opens a dialog; only those with two buttons or more are choices.
OpenWidget(n, skip) ==
    /\ Len(widgets) < MaxWidgets
    /\ widgets' = Append(widgets, [id |-> Len(widgets), skip |-> skip, active |-> TRUE,
                                   buttons |-> n, sel |-> 0, gate |-> 1])
    /\ gate' = gate + 1
    /\ UNCHANGED answers

\* caption_choice_widget: the first choice the bridge may drive.
OpenChoices == {i \in DOMAIN widgets : ~widgets[i].skip /\ widgets[i].active /\ widgets[i].buttons >= 2}
Drives  == gate # 0 /\ OpenChoices # {}
Driven  == Min(OpenChoices)

Selection(w) == IF w.sel \in 1..w.buttons THEN w.sel ELSE 1

CaptionMove(forward) ==
    /\ Drives
    /\ widgets' = [widgets EXCEPT ![Driven].sel =
                     LET sel == Selection(widgets[Driven])
                     IN  IF forward THEN Min({sel + 1, widgets[Driven].buttons})
                         ELSE Max({sel - 1, 1})]
    /\ UNCHANGED <<gate, answers>>

\* caption_activate_selected: the answer is queued behind the others, unless
\* the queue is longer than the bridge walks; then the dialog is closed.
CaptionActivate(cancel) ==
    /\ Drives /\ Len(answers) <= MaxAnswers
    /\ LET w == widgets[Driven]
       IN  /\ answers' = Append(answers, [id |-> w.id, button |-> IF cancel THEN w.buttons ELSE Selection(w)])
           /\ gate' = gate - w.gate
    /\ widgets' = [widgets EXCEPT ![Driven].active = FALSE, ![Driven].gate = 0]

\* The guest takes an answer and drops a dialog that is done.
TakeAnswer == answers # <<>> /\ answers' = Tail(answers) /\ UNCHANGED <<widgets, gate>>

ChoicesInit == ShopInit /\ ChoiceInit

ChoicesNext ==
    \/ /\ shop.open
       /\ \/ ShopUp \/ ShopDown
          \/ \E closes \in BOOLEAN : ShopAct(closes)
       /\ UNCHANGED <<widgets, gate, answers>>
    \/ /\ ~shop.open
       /\ \E start \in 0..(Items - 1), bad \in -1..Items : ShopReopen(start, bad)
       /\ UNCHANGED <<widgets, gate, answers>>
    \/ /\ \/ \E n \in 1..MaxButtons, skip \in BOOLEAN : OpenWidget(n, skip)
          \/ \E forward \in BOOLEAN : CaptionMove(forward)
          \/ \E cancel \in BOOLEAN : CaptionActivate(cancel)
          \/ TakeAnswer
       /\ UNCHANGED <<shop, acted>>

-----------------------------------------------------------------------------
\* What is bought or counted is the item that is lit, and moving goes on from
\* there: in an open shop the row is the lit item's, the whole of its row is in
\* the view, and the view never leaves the list.  The exception is a lit item
\* that the bridge's walk did not find, being past its 128 nodes or behind one
\* it may not read: then the handler takes the visible row for a row of the
\* whole list, which is another item unless the list is shown from its start.
ShopActsOnLit ==
    /\ acted.item = IF acted.found THEN acted.lit ELSE acted.lit - acted.start
    /\ shop.open => /\ shop.lit = Absolute(shop) /\ shop.lit < Shown(shop)
                    /\ shop.row < FullRows

\* The player may walk again exactly when every dialog is answered, and no
\* dialog is answered twice.
GateCountsOpen ==
    /\ gate = Cardinality({i \in DOMAIN widgets : widgets[i].active})
    /\ \A i, j \in DOMAIN answers : i # j => answers[i].id # answers[j].id
    /\ \A i \in DOMAIN answers : ~widgets[answers[i].id + 1].active

\* The guest's lists and dialogs act on what they show.
ChoicesAreShown == ShopActsOnLit /\ GateCountsOpen
=============================================================================
