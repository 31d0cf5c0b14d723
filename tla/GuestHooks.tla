----------------------------- MODULE GuestHooks -----------------------------
(***************************************************************************)
(* The jumps the port writes over the guest's functions, and the           *)
(* trampolines that still reach what was there: host_battle_install        *)
(* (src/ports/sword3/host_battle_menu.c), which every battle poll repeats, *)
(* and host_cheat_install (src/ports/sword3/host_cheat.c).                 *)
(*                                                                         *)
(* A trampoline is a copy of the sixteen bytes a function starts with at   *)
(* the time it is made.  A copy of a jump to the hook would make the hook  *)
(* call itself.                                                            *)
(***************************************************************************)
EXTENDS Naturals, Sequences, FiniteSets

CONSTANT NativeUI \* battle_native_ui_enabled: no overlay over the battle menu

ASSUME UIAssumption == NativeUI \in BOOLEAN

Battle == {"FLEE_STEP", "CMD_DRAW", "CMD_MENU_DRAW"}
Cheat  == <<"CAL_LEVEL", "HIT_DAMAGE1", "HIT_DAMAGE3", "RANDOM", "LOAD_BATTLE">>
Cheats == {Cheat[i] : i \in 1..5}
Funcs  == Battle \cup Cheats

VARIABLES
    code,   \* how a guest function starts; "foreign" is not what is expected
    tramp,  \* what its trampoline starts with; "none" is a null pointer
    hooked, \* g_flee_hooked, g_draw_hooked and g_overlay_hooked
    ready   \* g_hooks_ready

hookVars == <<code, tramp, hooked, ready>>

HooksTypeOK ==
    /\ code \in [Funcs -> {"original", "foreign", "jump"}]
    /\ tramp \in [Funcs -> {"none", "original", "foreign", "jump"}]
    /\ hooked \subseteq Battle
    /\ ready \in BOOLEAN

HooksInit ==
    /\ code \in [Funcs -> {"original", "foreign"}]
    /\ tramp = [f \in Funcs |-> "none"]
    /\ hooked = {}
    /\ ready = FALSE

-----------------------------------------------------------------------------
\* battle_make_tramp and cheat_make_tramp; mapped are the ones mmap serves.
MakeTramp(f, mapped) == IF f \in mapped THEN code[f] ELSE "none"

\* battle_patch_jump and cheat_patch_jump: only over the expected bytes, and
\* only where mprotect succeeds.
Patchable(f, writable) == code[f] = "original" /\ f \in writable

\* The functions host_battle_install gets to: it returns after one it could not
\* hook, and leaves the menu alone under the native user interface.
Attempted(mapped, writable) ==
    LET done(f) == f \in hooked \/ (f \in mapped /\ Patchable(f, writable))
    IN  {"FLEE_STEP"}
        \cup (IF done("FLEE_STEP") THEN {"CMD_DRAW"} ELSE {})
        \cup (IF done("FLEE_STEP") /\ done("CMD_DRAW") /\ ~NativeUI
                 THEN {"CMD_MENU_DRAW"} ELSE {})

\* Mutant: the trampoline is made anew for a function that is hooked already.
HostBattleInstallAgain(mapped, writable) ==
    LET tried == Attempted(mapped, writable)
        done  == {f \in tried \cap mapped : Patchable(f, writable)}
    IN  /\ tramp' = [f \in Funcs |-> IF f \in tried THEN MakeTramp(f, mapped)
                                     ELSE tramp[f]]
        /\ code' = [f \in Funcs |-> IF f \in done THEN "jump" ELSE code[f]]
        /\ hooked' = hooked \cup done
        /\ UNCHANGED ready

HostBattleInstall(mapped, writable) ==
    LET tried == Attempted(mapped, writable) \ hooked
        done  == {f \in tried \cap mapped : Patchable(f, writable)}
    IN  /\ tramp' = [f \in Funcs |-> IF f \in tried THEN MakeTramp(f, mapped)
                                     ELSE tramp[f]]
        /\ code' = [f \in Funcs |-> IF f \in done THEN "jump" ELSE code[f]]
        /\ hooked' = hooked \cup done
        /\ UNCHANGED ready

\* The cheat hooks that get their jump: up to the first one that fails.
Patched(writable) ==
    {Cheat[i] : i \in {j \in 1..5 : \A k \in 1..j : Patchable(Cheat[k], writable)}}

\* host_cheat_install: all the trampolines, then ready, then the jumps.
HostCheatInstall(mapped, writable) ==
    /\ ~ready
    /\ tramp' = [f \in Funcs |-> IF f \in Cheats THEN MakeTramp(f, mapped)
                                 ELSE tramp[f]]
    /\ IF Cheats \subseteq mapped
          THEN /\ ready' = TRUE
               /\ code' = [f \in Funcs |-> IF f \in Patched(writable)
                                              THEN "jump" ELSE code[f]]
          ELSE UNCHANGED <<ready, code>>
    /\ UNCHANGED hooked

\* The first mprotect that fails decides what host_cheat_install does.
Writable == {Cheats} \cup {Cheats \ {f} : f \in Cheats}

HooksNext ==
    \/ \E mapped, writable \in SUBSET Battle : HostBattleInstall(mapped, writable)
    \/ \E mapped \in SUBSET Cheats, writable \in Writable :
          HostCheatInstall(mapped, writable)

HooksSpec == HooksInit /\ [][HooksNext]_hookVars
-----------------------------------------------------------------------------
\* A hook that calls on gets to the guest's function: whatever failed before and
\* however often the installation is tried again, a function that starts with a
\* jump has a trampoline with the bytes that were there.
TrampolineIsOriginal ==
    \A f \in Funcs : code[f] = "jump" => tramp[f] = "original"
=============================================================================
