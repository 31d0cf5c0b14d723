---------------------------- MODULE MenuSession -----------------------------
(***************************************************************************)
(* The guest's own menu, driven from the pad over several frames           *)
(* (src/ports/sword3/sdl_bridge.c, native_menu_input.c).  The bridge asks  *)
(* for the menu, waits until the guest draws it, follows it with a focus   *)
(* of its own while it is drawn, and notices by polling that it is gone.   *)
(* The host menu hands a request over to it (refining, the journal) or to  *)
(* the guest's save screen, and takes the player back afterwards.  Every   *)
(* wait has a deadline; time is in units that only the deadlines count.    *)
(***************************************************************************)
EXTENDS Naturals

CONSTANTS
    OpenWait, BackGrace, ChromeGone, HandoffWait, \* the MS constants, in units
    Tabs,      \* the native menu's tabs; refining is there from six on
    MaxPresses \* times the player presses SELECT, X, B, or A on a tab

ASSUME SessionAssumption ==
    /\ {OpenWait, BackGrace, ChromeGone, HandoffWait} \subseteq Nat \ {0}
    /\ Tabs \in {5, 6} /\ MaxPresses \in Nat

VARIABLES
    ses,    \* the bridge: g_menu_*, g_host_menu_*, g_host_save_*, the focus
    native, \* the guest: what it was asked for and what it draws
    turn,   \* where the event loop is: it polls, then waits for one event
    presses
sessionVars == <<ses, native, turn, presses>>

SessionInit ==
    /\ ses = [session |-> FALSE, pending |-> FALSE, fromField |-> FALSE, closing |-> FALSE,
              button |-> FALSE, sawDraw |-> FALSE, gone |-> FALSE,
              openLeft |-> 0, graceLeft |-> 0, goneLeft |-> 0, handoffLeft |-> 0,
              focus |-> "tabs", tab |-> 0, phase |-> 0, target |-> "none",
              owner |-> FALSE, seen |-> FALSE, returning |-> FALSE,
              request |-> "none", hostMenu |-> "closed", backTap |-> FALSE]
    /\ native = [asked |-> FALSE, drawn |-> FALSE, tapped |-> FALSE, page |-> "none",
                listAsked |-> FALSE, list |-> FALSE, escape |-> FALSE]
    /\ turn = "poll" /\ presses = 0

-----------------------------------------------------------------------------
\* sword3_native_menu_input_*: the focus the guest does not have.
InputReset(s) == [s EXCEPT !.focus = "tabs", !.tab = 0]
MoveNativeTab(s, step) == IF s.focus = "tabs" THEN [s EXCEPT !.tab = (@ + step) % Tabs] ELSE s
ActivateTab(s) == [s EXCEPT !.focus = "content"]
\* Inside a page the guest goes back itself; otherwise the tabs come next.
InputBack(s, nested) ==
    IF s.focus = "content" /\ ~nested THEN [s EXCEPT !.focus = "tabs"] ELSE s

Opening(s) == s.button \/ s.pending

MenuEnterSession(s) ==
    InputReset([s EXCEPT !.session = TRUE, !.pending = FALSE, !.fromField = FALSE])

MenuLeaveSession(s) ==
    InputReset([s EXCEPT !.session = FALSE, !.pending = FALSE, !.fromField = FALSE,
                         !.closing = FALSE, !.button = FALSE, !.sawDraw = FALSE,
                         !.gone = FALSE, !.goneLeft = 0, !.graceLeft = 0])

\* menu_begin_open, with what menu_click_open_button finds: from the field the
\* menu's own action is called, elsewhere its button is tapped.
MenuBeginOpen(s, button, field) ==
    InputReset([s EXCEPT !.button = button, !.fromField = field, !.pending = TRUE,
                         !.openLeft = OpenWait, !.sawDraw = FALSE, !.gone = FALSE,
                         !.goneLeft = 0])

\* menu_try_close: needs the back icon on the screen.
MenuTryClose(s, icon) ==
    IF icon THEN [s EXCEPT !.button = FALSE, !.closing = FALSE, !.backTap = TRUE]
            ELSE [s EXCEPT !.button = FALSE]

-----------------------------------------------------------------------------
NoHandoff(s) == [s EXCEPT !.phase = 0, !.target = "none", !.handoffLeft = 0]

\* Mutant: the deadline holds only while the menu is awaited.
HandoffPollPatient(s) ==
    CASE s.phase = 0 -> s
      [] s.phase = 1 ->
            IF s.handoffLeft = 0 THEN NoHandoff(s)
            ELSE IF ~(s.session /\ native.drawn /\ s.focus = "tabs") THEN s
            ELSE IF s.target = "refining" /\ Tabs < 6 THEN NoHandoff(s)
            ELSE [ActivateTab(s) EXCEPT !.phase = 2,
                                     !.tab = IF s.target = "refining" THEN 4 ELSE Tabs - 1]
      [] OTHER -> IF native.page = s.target THEN NoHandoff(s) ELSE s

\* host_native_menu_handoff_poll: wait for the menu and tap the target's tab,
\* then wait for the page.
HandoffPoll(s) ==
    CASE s.phase = 0 -> s
      [] s.phase # 0 /\ s.handoffLeft = 0 -> NoHandoff(s)
      [] s.phase = 1 /\ s.handoffLeft # 0 ->
            IF ~(s.session /\ native.drawn /\ s.focus = "tabs") THEN s
            ELSE IF s.target = "refining" /\ Tabs < 6 THEN NoHandoff(s)
            ELSE [ActivateTab(s) EXCEPT !.phase = 2,
                                     !.tab = IF s.target = "refining" THEN 4 ELSE Tabs - 1]
      [] OTHER -> IF native.page = s.target THEN NoHandoff(s) ELSE s

\* host_menu_run_pending: the requests that take the player to the native.
\* Nothing is taken up while a handoff is under way.
StartRequest(s) ==
    IF s.phase # 0 \/ s.request = "none" THEN s
    ELSE IF s.request = "save"
    THEN [s EXCEPT !.request = "none", !.owner = TRUE, !.seen = FALSE, !.returning = FALSE]
    ELSE [MenuBeginOpen(s, FALSE, TRUE) EXCEPT !.request = "none", !.phase = 1,
                                           !.target = s.request, !.handoffLeft = HandoffWait]

\* Mutant: the menu below the save screen is only waited for.
SaveOwnerPollWaits(s, icon) ==
    IF ~s.owner THEN s
    ELSE IF native.list THEN [s EXCEPT !.seen = TRUE]
    ELSE IF ~s.seen \/ native.drawn THEN s
    ELSE [s EXCEPT !.owner = FALSE, !.seen = FALSE, !.returning = FALSE,
                   !.hostMenu = IF s.returning THEN "book" ELSE @]

\* host_save_owner_poll: back to the host menu's book page when the save
\* screen was left with B, and the menu below it is closed too.
SaveOwnerPoll(s, icon) ==
    IF ~s.owner THEN s
    ELSE IF native.list THEN [s EXCEPT !.seen = TRUE]
    ELSE IF ~s.seen THEN s
    ELSE IF ~s.returning THEN [s EXCEPT !.owner = FALSE, !.seen = FALSE]
    ELSE IF native.drawn THEN IF s.closing THEN s ELSE MenuTryClose(s, icon)
    ELSE [s EXCEPT !.owner = FALSE, !.seen = FALSE, !.returning = FALSE, !.hostMenu = "book"]

\* Mutant: a session whose menu is gone goes on.
OpenPulseNeverLeaves(s) ==
    LET drawn == native.drawn /\ (s.session \/ (s.pending /\ s.fromField))
        a == IF ~drawn THEN s
             ELSE LET e == IF s.session THEN s ELSE MenuEnterSession(s)
                  IN  [e EXCEPT !.sawDraw = TRUE, !.gone = FALSE, !.goneLeft = 0,
                                !.pending = FALSE, !.closing = FALSE]
        b == IF ~(a.session /\ a.sawDraw /\ ~native.drawn) THEN a
             ELSE LET e == [a EXCEPT !.pending = FALSE, !.closing = FALSE]
                  IN  IF e.graceLeft > 0 THEN e
                      ELSE [e EXCEPT !.gone = TRUE, !.goneLeft = ChromeGone]
    IN  IF b.pending /\ ~b.session /\ b.openLeft = 0
        THEN [b EXCEPT !.pending = FALSE, !.fromField = FALSE, !.closing = FALSE] ELSE b

\* menu_poll_open_pulse: the session begins when the menu is drawn and ends
\* when it has not been drawn for a while; an unanswered opening is given up.
OpenPulse(s) ==
    LET drawn == native.drawn /\ (s.session \/ (s.pending /\ s.fromField))
        a == IF ~drawn THEN s
             ELSE LET e == IF s.session THEN s ELSE MenuEnterSession(s)
                  IN  [e EXCEPT !.sawDraw = TRUE, !.gone = FALSE, !.goneLeft = 0,
                                !.pending = FALSE, !.closing = FALSE]
        b == IF ~(a.session /\ a.sawDraw /\ ~native.drawn) THEN a
             ELSE LET e == [a EXCEPT !.pending = FALSE, !.closing = FALSE]
                  IN  IF e.graceLeft > 0 THEN e
                      ELSE IF ~e.gone THEN [e EXCEPT !.gone = TRUE, !.goneLeft = ChromeGone]
                      ELSE IF e.goneLeft = 0 THEN MenuLeaveSession(e) ELSE e
    IN  IF b.pending /\ ~b.session /\ b.openLeft = 0
        THEN [b EXCEPT !.pending = FALSE, !.fromField = FALSE, !.closing = FALSE] ELSE b

\* apply_pad_pointer, once per turn of the event loop and per frame.
SessionPoll(icon) ==
    LET h == HandoffPoll(ses)
        r == StartRequest(h)
        o == SaveOwnerPoll(r, icon)
    IN  /\ ses' = OpenPulse(o)
        /\ native' = [native EXCEPT !.asked = @ \/ (r.request # h.request /\ h.request # "save"),
                                  !.listAsked = @ \/ (r.request # h.request /\ h.request = "save"),
                                  !.tapped = @ \/ (h.phase = 2 /\ ses.phase = 1)]
        /\ turn' = "event"
        /\ UNCHANGED presses

-----------------------------------------------------------------------------
\* SELECT goes down: the native menu from the field.
SelectDown(field) ==
    /\ presses < MaxPresses
    /\ ~native.list /\ ses.hostMenu = "closed" /\ ~ses.button /\ ~native.drawn
    /\ LET s == IF ses.session \/ ses.pending \/ ses.closing THEN MenuLeaveSession(ses) ELSE ses
       IN  ses' = MenuBeginOpen(s, TRUE, field)
    /\ native' = [native EXCEPT !.asked = TRUE]
    /\ presses' = presses + 1
SelectUp == ses.button /\ ses' = [ses EXCEPT !.button = FALSE] /\ UNCHANGED <<native, presses>>

\* X: the host menu, when nothing of the guest's menu is about.
OpenHostMenu ==
    /\ presses < MaxPresses
    /\ ses.hostMenu = "closed" /\ ~native.list /\ ~native.drawn /\ ~Opening(ses) /\ ~ses.session
    /\ ses' = [(IF ses.closing THEN MenuLeaveSession(ses) ELSE ses) EXCEPT !.hostMenu = "open"]
    /\ presses' = presses + 1
    /\ UNCHANGED native

\* The host menu leaves with a request, or with none.
LeaveHostMenu(request) ==
    /\ ses.hostMenu # "closed" /\ ses.request = "none"
    /\ ses' = [ses EXCEPT !.hostMenu = "closed", !.request = request]
    /\ UNCHANGED <<native, presses>>

\* B: Escape for the save screen, the back icon for the menu, and the end of
\* a session whose menu is not drawn.
MenuBack(nested, icon) ==
    /\ presses < MaxPresses /\ presses' = presses + 1
    /\ ses.hostMenu = "closed"
    /\ \/ /\ native.list
          /\ ses' = [ses EXCEPT !.returning = @ \/ ses.owner]
          /\ native' = [native EXCEPT !.escape = TRUE]
       \/ /\ ~native.list /\ native.drawn
          /\ ses' = MenuTryClose([InputBack(ses, nested) EXCEPT !.graceLeft = BackGrace,
                                  !.gone = FALSE, !.goneLeft = 0, !.closing = TRUE], icon)
          /\ UNCHANGED native
       \/ /\ ~native.list /\ ~native.drawn /\ (ses.session \/ Opening(ses))
          /\ ses' = MenuLeaveSession(ses)
          /\ UNCHANGED native
MenuBackUp ==
    /\ ~native.drawn /\ ses.closing
    /\ ses' = [ses EXCEPT !.closing = FALSE] /\ UNCHANGED <<native, presses>>

\* A on a tab, and the left and right of the tab strip.
MenuTab ==
    /\ ses.session /\ native.drawn /\ ses.focus = "tabs"
    /\ \/ /\ presses < MaxPresses /\ presses' = presses + 1
          /\ ses' = ActivateTab(ses) /\ native' = [native EXCEPT !.tapped = TRUE]
       \/ /\ \E step \in {1, Tabs - 1} : ses' = MoveNativeTab(ses, step)
          /\ UNCHANGED <<native, presses>>

-----------------------------------------------------------------------------
\* The guest, in its own time: it draws what it was asked for or does not,
\* shows the page of a tapped tab, and closes what it was told to close.
GuestDraws ==
    /\ native.asked
    /\ \E drawn \in BOOLEAN : native' = [native EXCEPT !.asked = FALSE, !.drawn = @ \/ drawn]
    /\ UNCHANGED <<ses, presses>>
GuestShowsPage ==
    /\ native.drawn /\ native.tapped
    /\ native' = [native EXCEPT !.tapped = FALSE,
                              !.page = CASE ses.tab = Tabs - 1 -> "book"
                                         [] ses.tab = 4 /\ Tabs = 6 -> "refining"
                                         [] OTHER -> "other"]
    /\ UNCHANGED <<ses, presses>>
GuestBack ==
    /\ native.drawn /\ ses.backTap
    /\ native' = [native EXCEPT !.page = "none", !.drawn = native.page # "none"]
    /\ ses' = [ses EXCEPT !.backTap = FALSE]
    /\ UNCHANGED presses
GuestCloses ==
    /\ native.drawn
    /\ native' = [native EXCEPT !.drawn = FALSE, !.page = "none", !.tapped = FALSE]
    /\ ses' = [ses EXCEPT !.backTap = FALSE]
    /\ UNCHANGED presses
GuestList ==
    /\ \/ native.listAsked /\ native' = [native EXCEPT !.listAsked = FALSE, !.list = TRUE]
       \/ native.list /\ native' = [native EXCEPT !.list = FALSE, !.escape = FALSE]
    /\ UNCHANGED <<ses, presses>>
GuestEscape ==
    /\ native.list /\ native.escape
    /\ native' = [native EXCEPT !.list = FALSE, !.escape = FALSE]
    /\ UNCHANGED <<ses, presses>>

\* Time passes for every deadline that is set.
TimePasses ==
    /\ ses' = [ses EXCEPT !.openLeft = IF @ > 0 THEN @ - 1 ELSE 0,
                          !.graceLeft = IF @ > 0 THEN @ - 1 ELSE 0,
                          !.goneLeft = IF @ > 0 THEN @ - 1 ELSE 0,
                          !.handoffLeft = IF @ > 0 THEN @ - 1 ELSE 0]
    /\ UNCHANGED <<native, presses>>

\* rewrite_event handles one event after each poll.
PadEvent ==
    /\ turn = "event" /\ turn' = "poll"
    /\ \/ \E field \in BOOLEAN : SelectDown(field)
       \/ SelectUp \/ OpenHostMenu
       \/ \E request \in {"none", "refining", "book", "save"} : LeaveHostMenu(request)
       \/ \E nested, icon \in BOOLEAN : MenuBack(nested, icon)
       \/ MenuBackUp \/ MenuTab

\* The guest runs when the event loop has returned to it.
GuestStep ==
    /\ turn' = "poll"
    /\ GuestDraws \/ GuestShowsPage \/ GuestBack \/ GuestCloses \/ GuestList \/ GuestEscape

SessionNext ==
    \/ \E icon \in BOOLEAN : SessionPoll(icon)
    \/ PadEvent \/ GuestStep
    \/ TimePasses /\ UNCHANGED turn

\* The event loop polls and time passes; of the guest it is assumed only that
\* a screen told to close closes.
SessionFairness ==
    /\ WF_sessionVars(SessionPoll(TRUE)) /\ WF_sessionVars(TimePasses /\ UNCHANGED turn)
    /\ WF_sessionVars(GuestStep /\ GuestBack) /\ WF_sessionVars(GuestStep /\ GuestEscape)

SessionSpec == SessionInit /\ [][SessionNext]_sessionVars /\ SessionFairness

-----------------------------------------------------------------------------
\* A handoff is never left hanging: it arrives or it is given up, and until
\* then the host menu's requests wait, so one that hung would block them all.
HandoffEnds == ses.phase # 0 ~> ses.phase = 0

\* A session is over soon after its menu is gone, so the pad comes back to
\* the field however the guest closed the menu, unless the menu is asked for
\* again meanwhile.
SessionFollowsMenu ==
    ses.session /\ ses.sawDraw /\ ~native.drawn ~> ~ses.session \/ native.drawn \/ ses.pending

\* The player who left the save screen with B is taken back to the book page of
\* the host menu, whatever the guest still draws below it, unless the screen is
\* asked for or comes up again.  A menu the bridge had given up and that came
\* after all may stay in the way.
BackToBook ==
    ses.returning /\ ~native.list ~>
        \/ ses.hostMenu = "book" \/ native.list \/ native.listAsked
        \/ native.drawn /\ ~ses.session
=============================================================================
