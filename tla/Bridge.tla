------------------------------- MODULE Bridge -------------------------------
(***************************************************************************)
(* The SDL bridge under the game, but for its movies (Media) and menus     *)
(* (GameMenus): where a pad event goes, the guest's lists it drives, the   *)
(* input context, the queue of merged events, the register of SDL objects, *)
(* the hooks in guest code and the cheats that some of them carry out.     *)
(*                                                                         *)
(* Each module has every state its component can meet: the routing lets    *)
(* the guest show any screen, HostCheat has its hooks in place, GuestHooks *)
(* has every way of putting them there and of failing to.  They share no   *)
(* variable, and one of them runs.                                         *)
(***************************************************************************)
EXTENDS GuestHooks, HostCheat, InputContext, Sword3InputQueue, PadRouting,
        GuestChoices, SdlOwners

VARIABLE running \* the component that runs

vars == <<hookVars, cheatVars, contextVars, ring, routingVars, choiceVars, ownerVars, running>>

Parts == {"hooks", "cheat", "context", "queue", "routing", "choices", "owners"}

Init ==
    /\ running \in Parts
    /\ running # "hooks" => code = [f \in Funcs |-> "original"]
    /\ running # "routing" => used = CHOOSE p \in Players : TRUE
    /\ running # "owners" => works = CHOOSE p \in Programs : TRUE
    /\ HooksInit /\ CheatInit /\ ContextInit /\ RingInit
    /\ RoutingInit /\ ChoicesInit /\ OwnersInit
    /\ running # "routing" => bridge.scene = "field"
    /\ running # "choices" => shop.start = 0 /\ shop.bad = Items

Next ==
    /\ UNCHANGED running
    /\ \/ /\ running = "hooks" /\ HooksNext
          /\ UNCHANGED <<cheatVars, contextVars, ring, routingVars, choiceVars, ownerVars>>
       \/ /\ running = "cheat" /\ CheatNext
          /\ UNCHANGED <<hookVars, contextVars, ring, routingVars, choiceVars, ownerVars>>
       \/ /\ running = "context" /\ ContextNext
          /\ UNCHANGED <<hookVars, cheatVars, ring, routingVars, choiceVars, ownerVars>>
       \/ /\ running = "queue" /\ RingNext
          /\ UNCHANGED <<hookVars, cheatVars, contextVars, routingVars, choiceVars, ownerVars>>
       \/ /\ running = "routing" /\ RoutingNext
          /\ UNCHANGED <<hookVars, cheatVars, contextVars, ring, choiceVars, ownerVars>>
       \/ /\ running = "choices" /\ ChoicesNext
          /\ UNCHANGED <<hookVars, cheatVars, contextVars, ring, routingVars, ownerVars>>
       \/ /\ running = "owners" /\ OwnersNext
          /\ UNCHANGED <<hookVars, cheatVars, contextVars, ring, routingVars, choiceVars>>

Spec == Init /\ [][Next]_vars
=============================================================================
