------------------------------ MODULE GameMenus -----------------------------
(***************************************************************************)
(* The menus drawn over the game: the field menu and the battle overlay.   *)
(* The game is in the field or in a fight, never in both (sync_ui_mode     *)
(* closes the field menu when a fight begins), and each module has every   *)
(* state its menu may be opened in; one of them runs.                      *)
(***************************************************************************)
EXTENDS HostMenu, HostBattleMenu

VARIABLE running \* the component that runs

vars == <<menuVars, battleVars, running>>

Init ==
    /\ running \in {"field", "battle"}
    /\ MenuInit /\ BattleInit
    /\ running # "field" =>
          /\ bag = (CHOOSE b \in Bags : TRUE)
          /\ used = {} /\ widgets = {} /\ ~refining
    /\ running # "battle" => able = CHOOSE a \in Able : TRUE

Next ==
    /\ UNCHANGED running
    /\ \/ running = "field" /\ MenuNext /\ UNCHANGED battleVars
       \/ running = "battle" /\ BattleNext /\ UNCHANGED menuVars

Spec == Init /\ [][Next]_vars
=============================================================================
