----------------------------- MODULE HostCheat -----------------------------
(***************************************************************************)
(* The trainer overlay (src/ports/sword3/host_cheat.c) and the fights it   *)
(* watches.  Its level cheat must raise the party once after every fight,  *)
(* although the guest computes levels more than once, its fight flag may   *)
(* stay up from one fight to the next, and the overlay only sees the flag  *)
(* when a frame is presented.                                              *)
(*                                                                         *)
(* The guest's fights are modelled from what the hooks and their comments  *)
(* say of them: LoadBattle starts one, the flag comes up some time later,  *)
(* CalLevel runs on the result screen, and the flag may or may not fall.   *)
(***************************************************************************)
EXTENDS Naturals, FiniteSets

CONSTANT MaxCalls \* bound: times CalLevel runs in one fight

ASSUME CallsAssumption == MaxCalls \in Nat \ {0}

CheatItems == 0..7 \* enum cheat_item, of which 2 to 6 are switches
NOENC   == 2
LVUP    == 3
CLOSE   == 7
Toggles == 2..6
Buttons == {"UP", "DOWN", "A", "B", "Y", "other"}
Phases  == {"field", "fight", "result"}

VARIABLES
    cheat_open, cheat_sel,   \* g_open and g_sel
    on,          \* the switches that are on: g_noenc, g_lvup, ...
    applied,     \* g_lvup_applied
    was_fight,   \* g_lvup_was_fight
    fight_ui,    \* sdl_bridge.c's g_fight_ui, whose fall is the end of a fight
    flag, phase, \* guest: bit 1 of FightFlag, and where the game is
    latch,       \* guest: result timer, gate and clicks that were not consumed
    calls,       \* CalLevel's runs in this fight
    granted,     \* levels the cheat has given in this fight
    earned       \* CalLevel has run in this fight with the switch on

overlay == <<cheat_open, cheat_sel, on>>
cheat_guest   == <<flag, phase, latch>>
fight   == <<calls, granted, earned>>
cheatVars    == <<overlay, applied, was_fight, fight_ui, cheat_guest, fight>>

CheatTypeOK ==
    /\ cheat_open \in BOOLEAN /\ cheat_sel \in CheatItems /\ on \subseteq Toggles
    /\ applied \in BOOLEAN /\ was_fight \in BOOLEAN /\ fight_ui \in BOOLEAN
    /\ flag \in BOOLEAN /\ phase \in Phases /\ latch \in BOOLEAN
    /\ calls \in 0..MaxCalls /\ granted \in 0..MaxCalls /\ earned \in BOOLEAN

CheatInit ==
    /\ cheat_open = FALSE /\ cheat_sel = 0 /\ on = {}
    /\ applied = FALSE /\ was_fight = FALSE /\ fight_ui = FALSE
    /\ flag = FALSE /\ phase = "field" /\ latch = FALSE
    /\ calls = 0 /\ granted = 0 /\ earned = FALSE

-----------------------------------------------------------------------------
\* cheat_apply: a switch is turned, or the overlay closed; money and health
\* only write to the guest's party.
CheatApply ==
    /\ cheat_open' = (cheat_sel # CLOSE)
    /\ on' = IF cheat_sel \notin Toggles THEN on
             ELSE IF cheat_sel \in on THEN on \ {cheat_sel} ELSE on \cup {cheat_sel}
    /\ UNCHANGED cheat_sel

\* host_cheat_button, of a press.
CheatButton(b) ==
    /\ cheat_open \/ b = "Y"
    /\ \/ b = "Y" /\ cheat_open' = ~cheat_open /\ cheat_sel' = (IF cheat_open THEN cheat_sel ELSE 0)
          /\ UNCHANGED on
       \/ b = "UP" /\ cheat_sel' = (cheat_sel + 7) % 8 /\ UNCHANGED <<cheat_open, on>>
       \/ b = "DOWN" /\ cheat_sel' = (cheat_sel + 1) % 8 /\ UNCHANGED <<cheat_open, on>>
       \/ b = "A" /\ CheatApply
       \/ b = "B" /\ cheat_open' = FALSE /\ UNCHANGED <<cheat_sel, on>>
       \/ b = "other" /\ UNCHANGED overlay
    /\ UNCHANGED <<applied, was_fight, fight_ui, cheat_guest, fight>>

-----------------------------------------------------------------------------
\* Mutant: only the poll tells a new fight.
NoteNewFightKeepsApplied ==
    /\ was_fight' = TRUE
    /\ latch' = FALSE
    /\ UNCHANGED applied

CheatNoteNewFight ==
    /\ applied' = FALSE
    /\ was_fight' = TRUE
    /\ latch' = FALSE

\* cheat_load_battle_hook: a random fight, which PlayerMove starts, is skipped
\* while the switch is on; the guest resumes as if it had not been asked for.
LoadBattle(random) ==
    /\ phase = "field"
    /\ IF random /\ NOENC \in on
          THEN UNCHANGED <<applied, was_fight, cheat_guest, fight>>
          ELSE /\ CheatNoteNewFight
               /\ phase' = "fight"
               /\ calls' = 0 /\ granted' = 0 /\ earned' = FALSE
               /\ UNCHANGED flag
    /\ UNCHANGED <<overlay, fight_ui>>

\* cheat_cal_level_hook: the experience for the next level, once.
CalLevel ==
    /\ phase = "result" /\ calls < MaxCalls
    /\ calls' = calls + 1
    /\ earned' = (earned \/ LVUP \in on)
    /\ IF LVUP \in on /\ ~applied
          THEN applied' = TRUE /\ granted' = granted + 1
          ELSE UNCHANGED <<applied, granted>>
    /\ UNCHANGED <<overlay, was_fight, fight_ui, cheat_guest>>

\* host_cheat_poll, before every frame is presented.
CheatPoll ==
    /\ applied' = (applied /\ ~(flag /\ ~was_fight))
    /\ was_fight' = flag
    /\ UNCHANGED <<overlay, fight_ui, cheat_guest, fight>>

\* fight_poll_ui and sync_ui_mode, as far as they end a fight for the overlay.
FightPollUi ==
    /\ fight_ui' = (flag \/ phase # "field")
    /\ latch' = (latch /\ ~(fight_ui /\ ~fight_ui'))
    /\ UNCHANGED <<overlay, applied, was_fight, flag, phase, fight>>

-----------------------------------------------------------------------------
\* The guest.  The flag comes up in the fight and is up by its end.
GuestFightFlag ==
    /\ phase = "fight" /\ ~flag
    /\ flag' = TRUE
    /\ UNCHANGED <<overlay, applied, was_fight, fight_ui, phase, latch, fight>>

\* The fight is decided: frames are presented while it lasts, so the overlay has
\* seen the flag.  Timer, gate and click slots fill from here on.
GuestResult ==
    /\ phase = "fight" /\ flag /\ was_fight
    /\ phase' = "result"
    /\ latch' \in BOOLEAN
    /\ UNCHANGED <<overlay, applied, was_fight, fight_ui, flag, fight>>

\* Back to the field, with the flag down or, over a skipped result, still up.
CheatFightEnd ==
    /\ phase = "result"
    /\ phase' = "field"
    /\ flag' \in BOOLEAN
    /\ UNCHANGED <<overlay, applied, was_fight, fight_ui, latch, fight>>

CheatNext ==
    \/ \E b \in Buttons : CheatButton(b)
    \/ \E random \in BOOLEAN : LoadBattle(random)
    \/ CalLevel \/ CheatPoll \/ FightPollUi
    \/ GuestFightFlag \/ GuestResult \/ CheatFightEnd

CheatSpec == CheatInit /\ [][CheatNext]_cheatVars
-----------------------------------------------------------------------------
\* However often CalLevel runs, and whether or not the fight flag fell after the
\* last fight, a fight gives the party one extra level if the switch was on when
\* CalLevel ran, and none otherwise.
LevelOncePerFight == granted = (IF earned THEN 1 ELSE 0)
=============================================================================
