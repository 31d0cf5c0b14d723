----------------------------- MODULE PadRouting -----------------------------
(***************************************************************************)
(* What becomes of a pad event (src/ports/sword3/sdl_bridge.c).  Every     *)
(* turn of the event loop first brings the bridge's idea of the screen up  *)
(* to date (sync_ui_mode), lets go what belonged to the screen before, and *)
(* then gives the event to the first owner that claims it: an overlay, a   *)
(* direction machine, the guest as a key, or nobody.  Movies take their    *)
(* skip buttons before this (MoviePlayback); opening the native menu takes *)
(* several frames (MenuSession) and is one flag here.                      *)
(*                                                                         *)
(* Each screen the pad can drive has a direction machine of its own: the   *)
(* D-pad and the stick are two sources of every direction, the machine     *)
(* takes an edge when the first of them goes down, and some machines hold  *)
(* a key of the guest until a later frame lets it go.  A host record h     *)
(* carries the machines, the keys the guest sees held, and the title's     *)
(* selection.                                                              *)
(***************************************************************************)
EXTENDS Naturals, FiniteSets, Sequences

CONSTANT Directions \* the directions the player uses

Sideways == {"left", "right"}

ASSUME DirectionsAssumption == Directions \subseteq {"up", "down"} \cup Sideways

Machines == {"save", "shop", "title", "caption", "menu", "fight"}

\* One machine: what each source holds, what it took as down, what the next
\* frame has to let go.
Still == [dpad |-> {}, axis |-> {}, down |-> {}, release |-> {}]

Put(h, m, machine) == [h EXCEPT !.dirs[m] = machine]

Source(machine, d, src, on) ==
    [machine EXCEPT ![src] = IF on THEN @ \cup {d} ELSE @ \ {d}]

Wanted(machine, d) == d \in machine.axis \cup machine.dpad

\* The guest's key for d goes down or up.
Key(h, d, on) == [h EXCEPT !.keys = IF on THEN @ \cup {d} ELSE @ \ {d}]
Keys(h, ds)   == [h EXCEPT !.keys = @ \ ds]

-----------------------------------------------------------------------------
\* Slot lists: the key is pressed, and let go by the next update of the list
\* or the next frame whatever the sources do.
SaveKey(h, d, on) == Key(h, d, on)

SaveTake(h, d, src, on) ==
    LET now == Source(h.dirs.save, d, src, on)
    IN  IF Wanted(now, d) = (d \in now.down) THEN Put(h, "save", now)
        ELSE IF Wanted(now, d)
             THEN SaveKey(Put(h, "save", [now EXCEPT !.down = @ \cup {d},
                                                     !.release = @ \cup {d}]), d, TRUE)
             ELSE Put(h, "save", [now EXCEPT !.release = @ \cup {d}])

SaveRelease(h) == Put(Keys(h, h.dirs.save.down), "save", Still)

SaveFlush(h) ==
    LET m == h.dirs.save
    IN  Put(Keys(h, m.release), "save",
            [m EXCEPT !.down = @ \ m.release, !.release = {}])

-----------------------------------------------------------------------------
\* The shop and the title call the guest's handler or write its selection on
\* the edge (see GuestChoices for what the shop's handlers do); no key is held.
EdgeOnly(h, m, d, src, on) ==
    LET now == Source(h.dirs[m], d, src, on)
    IN  Put(h, m, [now EXCEPT !.down = IF Wanted(now, d) THEN @ \cup {d} ELSE @ \ {d}])

Edge(h, m, d) == d \notin h.dirs[m].down

ShopTake(h, d, src, on) == EdgeOnly(h, "shop", d, src, on)
ShopRelease(h) == Put(h, "shop", Still)

\* The title has two entries; a selection outside them counts as the first.
TitleMove(selection, d) ==
    CASE d = "up"   -> 0
      [] d = "down" -> 1
      [] OTHER      -> selection
TitleTake(h, d, src, on) ==
    LET after == EdgeOnly(h, "title", d, src, on)
    IN  IF on /\ Edge(h, "title", d)
        THEN [after EXCEPT !.selection = TitleMove(@, d)] ELSE after
TitleRelease(h) == Put(h, "title", Still)

\* A dialog's choice: without one, the machine forgets what it held.
CaptionClear(h) == Put(h, "caption", Still)
CaptionTake(h, d, src, on) ==
    IF ~h.caption THEN CaptionClear(h) ELSE EdgeOnly(h, "caption", d, src, on)

-----------------------------------------------------------------------------
\* The native menu: on the tab strip and on pages the bridge moves itself an
\* edge is all there is; elsewhere the guest's arrow key is held.
MenuByHand(h) == h.focus = "tabs" \/ h.page # "keys"

MenuTake(h, d, src, on) ==
    LET now    == Source(h.dirs.menu, d, src, on)
        wanted == Wanted(now, d)
        kept   == IF wanted THEN [now EXCEPT !.release = @ \ {d}] ELSE now
        up     == [kept EXCEPT !.down = @ \ {d}]
        pulse  == [kept EXCEPT !.down = @ \cup {d}, !.release = @ \cup {d}]
    IN  IF wanted = (d \in kept.down) THEN Put(h, "menu", kept)
        ELSE IF MenuByHand(h)
             THEN Put(h, "menu", IF wanted THEN [kept EXCEPT !.down = @ \cup {d}] ELSE up)
        ELSE IF wanted THEN Key(Put(h, "menu", pulse), d, TRUE)
        ELSE IF d \in Sideways THEN Key(Put(h, "menu", up), d, FALSE)
        ELSE Put(h, "menu", [kept EXCEPT !.release = @ \cup {d}])

\* Mutant: the machine is cleared, the guest's keys are not let go.
MenuReleaseForgetsKeys(h) == Put(h, "menu", Still)

MenuRelease(h) == Put(Keys(h, h.dirs.menu.down), "menu", Still)

MenuFlush(h) ==
    LET m == h.dirs.menu
    IN  Put(Keys(h, m.release), "menu",
            [m EXCEPT !.down = @ \ m.release, !.release = {}])

-----------------------------------------------------------------------------
\* A battle: a direction is down until the frame after its last source went.
FightTake(h, d, src, on) ==
    LET now    == Source(h.dirs.fight, d, src, on)
        wanted == Wanted(now, d)
        kept   == IF wanted THEN [now EXCEPT !.release = @ \ {d}] ELSE now
    IN  IF wanted = (d \in kept.down) THEN Put(h, "fight", kept)
        ELSE Put(h, "fight", IF wanted THEN [kept EXCEPT !.down = @ \cup {d}]
                                       ELSE [kept EXCEPT !.release = @ \cup {d}])

FightRelease(h) == [Put(h, "fight", Still) EXCEPT !.fightUp = FALSE]

FightFlush(h) ==
    LET m == h.dirs.fight
    IN  Put(h, "fight", [m EXCEPT !.down = @ \ m.release, !.release = {}])

-----------------------------------------------------------------------------
\* Where a direction goes that a source of machine m takes or lets go.
Take(h, m, d, src, on) ==
    CASE m = "save"    -> SaveTake(h, d, src, on)
      [] m = "shop"    -> ShopTake(h, d, src, on)
      [] m = "title"   -> TitleTake(h, d, src, on)
      [] m = "caption" -> CaptionTake(h, d, src, on)
      [] m = "menu"    -> MenuTake(h, d, src, on)
      [] m = "fight"   -> FightTake(h, d, src, on)

\* A stick event: the old direction of that axis goes before the new one
\* comes.  to is empty inside the dead zone.
OnAxis(axis) == IF axis = "x" THEN Sideways ELSE {"up", "down"}
Axis(h, m, e) ==
    LET old == h.dirs[m].axis \cap OnAxis(e.axis)
        off == IF old = {} THEN h
               ELSE Take(h, m, CHOOSE d \in old : TRUE, "axis", FALSE)
    IN  IF old = e.to THEN h
        ELSE IF e.to = {} THEN off
        ELSE Take(off, m, CHOOSE d \in e.to : TRUE, "axis", TRUE)

Pad(h, m, e) ==
    IF e.kind = "dpad" THEN Take(h, m, e.dir, "dpad", e.down) ELSE Axis(h, m, e)

SavePad(h, e)    == Pad(h, "save", e)
ShopPad(h, e)    == Pad(h, "shop", e)
TitlePad(h, e)   == IF e.kind = "stick" /\ e.axis = "x" THEN h ELSE Pad(h, "title", e)
CaptionPad(h, e) == Pad(h, "caption", e)
MenuPad(h, e)    == Pad(h, "menu", e)
FightPad(h, e)   == Pad(h, "fight", e)

-----------------------------------------------------------------------------
CONSTANT Players \* the sets of controls a player may be using

PadButtons  == {"A", "B", "X", "Y", "BACK", "START", "R1"}
Controls == PadButtons \cup {"dpad", "stick"} \cup Directions
ASSUME PlayersAssumption == Players \subseteq SUBSET Controls

Scenes == {"field", "title", "load", "list", "shop", "menu", "fight"}

VARIABLES
    pad,      \* what is physically held: dpad, stick, buttons
    used,     \* the controls this player uses
    bridge,   \* the bridge, with what it reads of the guest (see RoutingInit)
    strayed   \* history: keys held when their page was left (see Guest)

routingVars == <<pad, used, bridge, strayed>>

\* A player in the field, or on a page of the native menu.
RoutingInit ==
    /\ pad = [dpad |-> {}, stick |-> {}, buttons |-> {}]
    /\ used \in Players
    /\ \E menu \in BOOLEAN : bridge =
                [scene |-> IF menu THEN "menu" ELSE "field", caption |-> FALSE, turn |-> FALSE, page |-> "keys",
                 mode |-> IF menu THEN {"menuUi", "menu"} ELSE {}, over |-> {},
                 opening |-> FALSE, focus |-> IF menu THEN "content" ELSE "tabs",
                 dirs |-> [m \in Machines |-> Still], keys |-> {}, selection |-> 0,
                 aDown |-> FALSE, capturedA |-> FALSE, capturedB |-> FALSE,
                 fightUp |-> FALSE, talk |-> FALSE, loadDone |-> FALSE,
                 btn |-> {}, modifier |-> FALSE, modUsed |-> FALSE, cursorDpad |-> {},
                 finger |-> FALSE, shown |-> FALSE, quit |-> FALSE]
    /\ strayed = {}

-----------------------------------------------------------------------------
\* What the guest shows: guest_load_ui, guest_save_list, guest_shop and so on.
LoadUi(h)     == h.scene = "load" /\ ~h.loadDone
SaveList(h)   == h.scene \in {"list", "load"}
SystemMenu(h) == ~LoadUi(h) /\ (h.scene = "menu" \/ h.opening)
SlotPad(h)    == "save" \in h.mode \/ SaveList(h)

\* The screens sync_ui_mode tells apart, as the set of its flags.
Flags(h) ==
    LET menuKeys == SystemMenu(h) /\ h.scene \notin {"title", "load", "list", "shop"}
        fight    == h.scene = "fight" /\ ~menuKeys
    IN  {f \in {"title", "save", "list", "shop", "menuUi", "menu", "fight"} :
            CASE f = "title"  -> h.scene = "title"
              [] f = "save"   -> LoadUi(h)
              [] f = "list"   -> SaveList(h)
              [] f = "shop"   -> h.scene = "shop"
              [] f = "menuUi" -> SystemMenu(h)
              [] f = "menu"   -> menuKeys
              [] f = "fight"  -> fight}

\* release_guest_walk: the guest forgets every key it saw held.
ReleaseWalk(h) == [h EXCEPT !.keys = {}]

LeaveFight(h) == ReleaseWalk(FightRelease(h))

Switch(h, to) ==
    LET left(f)    == f \in h.mode /\ f \notin to
        entered(f) == f \notin h.mode /\ f \in to
        lists      == \E f \in {"save", "list", "shop"} : left(f) \/ entered(f)
        menu       == left("menu") \/ entered("menu")
        t == IF entered("title") /\ h.selection > 1 THEN [h EXCEPT !.selection = 0] ELSE h
        a == IF left("title") THEN TitleRelease(t) ELSE t
        b == IF lists THEN [ShopRelease(SaveRelease(a)) EXCEPT !.aDown = FALSE] ELSE a
        c == IF entered("list") \/ entered("shop") THEN ReleaseWalk(b) ELSE b
        d == IF menu THEN [ReleaseWalk(MenuRelease(c)) EXCEPT !.aDown = FALSE, !.focus = "tabs"] ELSE c
        e == IF left("fight") THEN LeaveFight(d) ELSE d
    IN  [e EXCEPT !.mode = to]

\* The overlays a screen closes, and the battle overlay, which is up while a
\* battle waits for a command.
Overlays(h, to) ==
    (h.over \ ({"battle"} \cup IF to \cap {"fight", "title"} # {} THEN {"hostMenu"} ELSE {}))
        \cup IF "fight" \in to /\ h.turn THEN {"battle"} ELSE {}

SyncUiMode(h) ==
    LET to == Flags(h)
        o  == [h EXCEPT !.over = Overlays(h, to)]
    IN  IF to = h.mode THEN o ELSE Switch(o, to)

\* fight_poll_ui, before a pad event: a battle that began or ended meanwhile.
PollFight(h) ==
    IF "menu" \in h.mode \/ "title" \in h.mode \/ "hostMenu" \in h.over THEN h
    ELSE IF h.scene = "fight"
    THEN [h EXCEPT !.mode = (@ \ {"save"}) \cup {"fight"},
                   !.over = IF h.turn THEN @ \cup {"battle"} ELSE @ \ {"battle"}]
    ELSE IF "fight" \in h.mode
    THEN LET e == LeaveFight(h)
         IN  [e EXCEPT !.mode = @ \ {"fight"}, !.over = @ \ {"battle"}]
    ELSE h

\* One turn of next_translated_event up to rewrite_event.
Ready == PollFight(SyncUiMode(bridge))

-----------------------------------------------------------------------------
CursorAllowed(h) == ~h.quit /\ h.over = {}

\* maybe_combo_exit, with what the bridge has seen and what the pad reports.
ComboExit(h, held) ==
    IF {"BACK", "START"} \subseteq h.btn \cup held THEN [h EXCEPT !.quit = TRUE] ELSE h

Seen(h, b, down) == [h EXCEPT !.btn = IF down THEN @ \cup {b} ELSE @ \ {b}]

\* The owners rewrite_event asks, and the first of an order that claims.
Claims(h) ==
    h.over \cup h.mode
        \cup {o \in {"caption", "cursor", "list", "shop", "save", "drawn", "opening"} :
                CASE o = "caption" -> h.caption
                  [] o = "cursor"  -> h.modifier /\ CursorAllowed(h)
                  [] o = "list"    -> SlotPad(h)
                  [] o = "shop"    -> h.scene = "shop"
                  [] o = "save"    -> "save" \in h.mode
                  [] o = "drawn"   -> h.scene = "menu"
                  [] o = "opening" -> h.opening}

Owner(h, order) ==
    LET claims == {i \in DOMAIN order : order[i] \in Claims(h)}
    IN  IF claims = {} THEN "field"
        ELSE order[CHOOSE i \in claims : \A j \in claims : i <= j]

DirectionOrder == <<"cursor", "cheat", "caption", "hostMenu", "battle", "fight",
                    "shop", "list", "title", "menu", "opening">>

\* A direction event: the overlays move themselves (HostMenu, HostBattleMenu,
\* HostCheat), the cursor remembers the D-pad presses it took.
RouteDirection(h, e) ==
    LET owner == Owner(h, DirectionOrder) IN
    IF e.kind = "dpad" /\ ~e.down /\ e.dir \in h.cursorDpad /\ owner # "cheat"
    THEN [h EXCEPT !.cursorDpad = @ \ {e.dir}]
    ELSE CASE owner = "cursor"  -> IF e.kind = "stick" THEN [h EXCEPT !.modUsed = @ \/ e.to # {}]
                                   ELSE IF e.down THEN [h EXCEPT !.cursorDpad = @ \cup {e.dir},
                                                                 !.modUsed = TRUE]
                                   ELSE h
           [] owner = "caption" -> CaptionPad(h, e)
           [] owner = "fight"   -> FightPad(h, e)
           [] owner = "shop"    -> ShopPad(h, e)
           [] owner = "list"    -> SavePad(h, e)
           [] owner = "title"   -> TitlePad(h, e)
           [] owner = "menu"    -> MenuPad(h, e)
           [] OTHER             -> h

-----------------------------------------------------------------------------
\* X opens the host menu, from the field only.
RouteX(h, down) ==
    IF Owner(h, <<"hostMenu", "list", "shop", "title", "fight", "battle", "drawn", "opening">>) # "field"
       \/ ~down
    THEN h ELSE [ReleaseWalk(h) EXCEPT !.over = @ \cup {"hostMenu"}]

\* What MenuSession's open and leave do to the pad.
BeginOpen(h) ==
    [ReleaseWalk(h) EXCEPT !.opening = TRUE, !.focus = "tabs",
                           !.capturedA = FALSE, !.capturedB = FALSE]
LeaveSession(h) ==
    ReleaseWalk(MenuRelease([h EXCEPT !.opening = FALSE, !.talk = FALSE, !.focus = "tabs",
                                      !.capturedA = FALSE, !.capturedB = FALSE,
                                      !.mode = @ \ {"menu", "menuUi"}]))

\* SELECT leaves the load screen, or opens the native menu from the field.
RouteBack(h, down, held) ==
    LET s == ComboExit(Seen(h, "BACK", down), held)
        owner == Owner(s, <<"save", "list", "shop", "hostMenu", "opening", "drawn",
                            "title", "fight">>)
    IN  IF s.quit THEN s
        ELSE CASE owner = "save"    -> Key(IF down THEN [s EXCEPT !.loadDone = TRUE] ELSE s,
                                           "escape", down)
               [] owner = "opening" -> IF down THEN BeginOpen(LeaveSession(s)) ELSE s
               [] owner = "title"   -> Key(s, "escape", down)
               [] owner = "field"   -> IF down THEN BeginOpen(s) ELSE Key(s, "escape", FALSE)
               [] OTHER             -> s

\* START taps the guest's screen where the cursor is, while there is one.
RouteStart(h, down, held) ==
    LET s == ComboExit(Seen(h, "START", down), held) IN
    IF s.quit THEN [s EXCEPT !.finger = FALSE]
    ELSE IF down /\ s.shown /\ CursorAllowed(s) THEN [s EXCEPT !.finger = TRUE]
    ELSE IF ~down THEN [s EXCEPT !.finger = FALSE]
    ELSE s

\* R1 is the cursor's modifier; alone it is a shoulder button of its screen.
RouteR1(h, down) ==
    IF down THEN IF CursorAllowed(h) THEN [h EXCEPT !.modifier = TRUE, !.modUsed = FALSE] ELSE h
    ELSE [h EXCEPT !.modifier = FALSE]

\* B goes back: content is the focus that is left after it.
RouteB(h, down, content) ==
    LET owner == Owner(h, <<"caption", "battle", "fight", "save", "list", "shop",
                            "title", "hostMenu", "drawn", "opening">>)
        menu  == IF down THEN [MenuRelease(h) EXCEPT !.capturedA = FALSE, !.aDown = FALSE,
                                   !.capturedB = (h.page = "book" /\ h.focus = "content"),
                                   !.focus = IF @ = "tabs" THEN "tabs" ELSE content]
                 ELSE h
    IN  IF owner # "caption" /\ ~down /\ h.capturedB THEN [h EXCEPT !.capturedB = FALSE]
        ELSE CASE owner = "caption" -> IF down THEN CaptionClear([h EXCEPT !.caption = FALSE]) ELSE h
               [] owner = "save"    -> Key(IF down THEN [h EXCEPT !.loadDone = TRUE] ELSE h,
                                           "escape", down)
               [] owner \in {"list", "shop", "title"} -> Key(h, "escape", down)
               [] owner = "drawn"   -> menu
               [] owner = "opening" -> IF down THEN LeaveSession(h) ELSE h
               [] OTHER             -> h

\* accept_a_edge: one press at a time, and none that bounces.
Accepts(h, down, bounces) == IF down THEN ~h.aDown /\ ~bounces ELSE h.aDown
AEdge(h, down) == [h EXCEPT !.aDown = down]

\* field_talk_key: Return, with the guest's input mode kept for the release.
Talk(h, down) == [Key(h, "return", down) EXCEPT !.talk = down]

\* A in the native menu: tabs and pages the bridge knows capture the press.
MenuA(h, down, bounces) ==
    IF ~down /\ h.capturedA THEN [h EXCEPT !.capturedA = FALSE, !.aDown = FALSE]
    ELSE IF ~Accepts(h, down, bounces) THEN h
    ELSE LET a == AEdge(h, down)
         IN  IF h.focus = "tabs"
             THEN IF down THEN [MenuRelease(a) EXCEPT !.capturedA = TRUE, !.focus = "content"] ELSE a
             ELSE IF h.page # "keys" THEN IF down THEN [a EXCEPT !.capturedA = TRUE] ELSE a
             ELSE Key(a, "return", down)

\* A in a battle: the bridge confirms most layers itself, and may refuse.
FightA(h, down, taken) ==
    CASE taken = "no"      -> Key(h, "return", down)
      [] taken = "refused" -> h
      [] taken = "done"    -> IF down THEN [h EXCEPT !.fightUp = TRUE] ELSE h

RouteA(h, down, bounces, taken) ==
    LET owner == Owner(h, <<"caption", "hostMenu", "shop", "battle", "drawn", "fight",
                            "title", "list">>)
        inMenu == owner = "drawn" /\ "menu" \in h.mode
    IN  IF owner = "caption"
        THEN IF down THEN CaptionClear([h EXCEPT !.caption = FALSE]) ELSE h
        ELSE IF owner \in {"hostMenu", "shop", "battle"} THEN h
        ELSE IF inMenu THEN MenuA(h, down, bounces)
        ELSE IF ~down /\ h.fightUp THEN [h EXCEPT !.fightUp = FALSE]
        ELSE IF owner = "fight" THEN FightA(h, down, taken)
        ELSE IF ~Accepts(h, down, bounces)
        THEN IF owner = "field" /\ ~down /\ h.talk THEN Talk(h, FALSE) ELSE h
        ELSE LET a == AEdge(h, down)
             IN  CASE owner = "title" -> Key(IF down THEN a
                                             ELSE [a EXCEPT !.loadDone = (a.selection # 0)],
                                             "return", down)
                   [] owner = "list"  -> Key(IF "save" \in a.mode /\ ~down
                                             THEN [a EXCEPT !.loadDone = TRUE] ELSE a,
                                             "return", down)
                   [] OTHER           -> Talk(a, down)

\* The cheat overlay comes before every other owner of a button.
RouteButton(h, b, down, held, bounces, taken, content) ==
    IF b = "Y" THEN IF ~down THEN h
                    ELSE [h EXCEPT !.over = IF "cheat" \in @ THEN @ \ {"cheat"} ELSE @ \cup {"cheat"}]
    ELSE IF "cheat" \in h.over THEN IF b = "B" /\ down THEN [h EXCEPT !.over = @ \ {"cheat"}] ELSE h
    ELSE CASE b = "X"     -> RouteX(h, down)
           [] b = "BACK"  -> RouteBack(h, down, held)
           [] b = "START" -> RouteStart(h, down, held)
           [] b = "B"     -> RouteB(h, down, content)
           [] b = "A"     -> RouteA(h, down, bounces, taken)
           [] b = "R1"    -> RouteR1(h, down)

-----------------------------------------------------------------------------
\* A key that is no longer held is no longer astray.
NoteKeys == strayed' = strayed \cap bridge'.keys

Direction(e, now) ==
    /\ pad' = now
    /\ bridge' = RouteDirection(Ready, e)
    /\ NoteKeys
    /\ UNCHANGED used

Dpad(d) ==
    /\ {"dpad", d} \subseteq used
    /\ LET down == d \notin pad.dpad
       IN  Direction([kind |-> "dpad", dir |-> d, down |-> down],
                     [pad EXCEPT !.dpad = IF down THEN @ \cup {d} ELSE @ \ {d}])

\* The stick reports a value of one axis, a new one or the same again.
Stick(axis, to) ==
    /\ "stick" \in used /\ OnAxis(axis) \cap used # {}
    /\ to \subseteq used /\ to \subseteq OnAxis(axis) /\ Cardinality(to) <= 1
    /\ Direction([kind |-> "stick", axis |-> axis, to |-> to],
                 [pad EXCEPT !.stick = (@ \ OnAxis(axis)) \cup to])

ButtonEvent(b, bounces, taken, content) ==
    /\ b \in used
    /\ LET down == b \notin pad.buttons
           held == IF down THEN pad.buttons \cup {b} ELSE pad.buttons \ {b}
       IN  /\ pad' = [pad EXCEPT !.buttons = held]
           /\ bridge' = RouteButton(Ready, b, down, held, bounces, taken, content)
    /\ NoteKeys
    /\ UNCHANGED used

ButtonA ==
    \E bounces \in BOOLEAN, taken \in {"no", "refused", "done"} :
        ButtonEvent("A", bounces, taken, "tabs")
ButtonB == \E content \in {"tabs", "content"} : ButtonEvent("B", FALSE, "no", content)
Button(b) == b \notin {"A", "B"} /\ ButtonEvent(b, FALSE, "no", "tabs")

\* SDL_RenderPresent: the frame lets go what was held for one frame.
Present ==
    /\ LET h == MenuFlush(SaveFlush(ComboExit(SyncUiMode(bridge), pad.buttons)))
           f == FightFlush(h)
       IN  bridge' = IF f.caption THEN f ELSE CaptionClear(f)
    /\ NoteKeys
    /\ UNCHANGED <<pad, used>>

\* The guest updates the slot list or the shop: its hook flushes the keys.
ListUpdate ==
    /\ bridge.scene \in {"list", "load", "shop"}
    /\ bridge' = SaveFlush(bridge)
    /\ NoteKeys
    /\ UNCHANGED <<pad, used>>

\* The guest goes to another screen, opens a choice or a battle's turn, or
\* turns to another page of its menu.
NextScene(scene) ==
    CASE scene = "field" -> Scenes \ {"load"}
      [] scene = "title" -> {"load", "field"}
      [] scene = "load"  -> {"title", "field"}
      [] scene = "menu"  -> {"field", "list"}
      [] OTHER           -> {"field"}

GuestScene(to) ==
    /\ to \in NextScene(bridge.scene)
    /\ bridge' = [bridge EXCEPT !.scene = to, !.turn = FALSE, !.caption = FALSE,
                                !.page = "keys", !.opening = FALSE]
    /\ UNCHANGED <<pad, used, strayed>>

GuestPage ==
    /\ \/ bridge.scene = "field" /\ bridge' = [bridge EXCEPT !.caption = ~@]
       \/ bridge.scene = "fight" /\ bridge' = [bridge EXCEPT !.turn = ~@]
       \/ bridge.scene = "menu" /\ \E p \in {"direct", "book", "keys"} : bridge' = [bridge EXCEPT !.page = p]
    /\ strayed' = strayed \cup (IF bridge'.page = bridge.page THEN {}
                                ELSE bridge.keys \cap bridge.dirs.menu.down)
    /\ UNCHANGED <<pad, used>>

\* The host menu closes itself, the cursor appears and hides, an opening menu
\* times out.
HostEnds ==
    /\ \/ "hostMenu" \in bridge.over /\ bridge' = [bridge EXCEPT !.over = @ \ {"hostMenu"}]
       \/ "R1" \in used /\ (bridge.modifier \/ bridge.shown) /\ bridge' = [bridge EXCEPT !.shown = ~@]
       \/ bridge.opening /\ bridge' = [bridge EXCEPT !.opening = FALSE]
    /\ UNCHANGED <<pad, used, strayed>>

RoutingNext ==
    \/ \E d \in Directions : Dpad(d)
    \/ \E axis \in {"x", "y"}, to \in SUBSET Directions : Stick(axis, to)
    \/ ButtonA \/ ButtonB \/ \E b \in PadButtons : Button(b)
    \/ Present \/ ListUpdate
    \/ \E to \in Scenes : GuestScene(to)
    \/ GuestPage \/ HostEnds

RoutingSpec == RoutingInit /\ [][RoutingNext]_routingVars

-----------------------------------------------------------------------------
\* A direction key the guest sees held has somebody who will let it go: a list
\* holds it for this frame only, and the native menu still knows it is down.
\* (When the guest turns a page under a held key, the new page's rules may
\* forget it: those are the strayed ones.)  A key nobody owns would walk the
\* player or scroll a list for ever.
HeldKeyHasOwner ==
    \A d \in (bridge.keys \cap Directions) \ strayed :
        d \in bridge.dirs.save.release \cup bridge.dirs.menu.release \cup bridge.dirs.menu.down

\* A machine has nothing from an earlier visit when its screen comes up: a
\* direction remembered as held would swallow the first press of the player.
EntersClean ==
    \A m \in {"save", "shop", "title", "menu", "fight"} :
        LET on(h) == IF m = "save" THEN h.mode \cap {"save", "list"} # {} ELSE m \in h.mode
        IN  (~on(bridge) /\ on(Ready)) => Ready.dirs[m] = Still

\* A direction is known to exactly those who must let it go: the one that
\* pressed it in the guest, and no screen that comes up later.
DirectionsAreOwned == HeldKeyHasOwner /\ EntersClean
=============================================================================
