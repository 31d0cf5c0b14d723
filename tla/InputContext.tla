---------------------------- MODULE InputContext ----------------------------
(***************************************************************************)
(* The input route resolver and its lifecycle generation                   *)
(* (src/ports/sword3/input_context.c).  Once per input tick the facts read *)
(* from the guest and the host overlays are resolved to one route; the     *)
(* generation changes when the lifecycle does, so that a user that kept a  *)
(* generation can tell whether what it was made for still exists.          *)
(***************************************************************************)
EXTENDS Naturals, Sequences, FiniteSets

CONSTANTS
    Active,        \* the routes a probe may report as active
    Values,        \* values of the guest's words; Zero is memset's
    Zero,
    MaxGeneration, \* the largest uint64_t
    MaxChanges     \* bound: lifecycle changes after a context is kept

Priority == <<"HOST_CHEAT", "CAPTION", "HOST_MENU", "HOST_BATTLE", "BATTLE",
              "SAVE_LOAD", "SAVE_LIST", "SHOP", "MENU_OPENING", "TITLE",
              "SYSTEM_MENU", "POINTER", "FIELD">>
Routes == {Priority[i] : i \in 1..13}

ASSUME ContextAssumption ==
    /\ Active \subseteq Routes \ {"FIELD"}
    /\ Zero \in Values
    /\ MaxGeneration \in Nat \ {0, 1} /\ MaxChanges \in Nat

\* The words that are compared.
Words  == [map_id : Values, title_mode : Values, menu_page : Values,
           battle_menu : Values]
Probes == [active : SUBSET Active, words : Words]

VARIABLES
    initialized, \* tracker->initialized
    current,     \* tracker->current without its generation
    generation,  \* tracker->current.generation
    kept,        \* the generation a user kept at some tick, and what it was for
    changes      \* lifecycle changes since then

contextVars == <<initialized, current, generation, kept, changes>>

-----------------------------------------------------------------------------
\* add_candidate for every fact; the field lies under everything but a title
\* or a battle scene.
Candidates(active) ==
    active \cup (IF {"TITLE", "BATTLE"} \cap active = {} THEN {"FIELD"} ELSE {})

ChooseRoute(candidates) ==
    IF candidates = {} THEN "NONE"
    ELSE Priority[CHOOSE i \in 1..13 :
                     /\ Priority[i] \in candidates
                     /\ \A j \in 1..(i - 1) : Priority[j] \notin candidates]

Context(candidates, words) ==
    [route |-> ChooseRoute(candidates), candidates |-> candidates, words |-> words]

NoWords   == [map_id |-> Zero, title_mode |-> Zero, menu_page |-> Zero,
              battle_menu |-> Zero]
NoContext == Context({}, NoWords) \* what a null probe resolves to

ResolveContext(probe) == Context(Candidates(probe.active), probe.words)

\* Mutant: the save page is compared for the list only.
SameLifecycleForgetsLoad(left, right) ==
    LET seen(routes) == left.candidates \cap routes # {}
    IN  /\ left.route = right.route
        /\ left.candidates = right.candidates
        /\ left.words.map_id = right.words.map_id
        /\ seen({"TITLE", "SAVE_LOAD"}) =>
              left.words.title_mode = right.words.title_mode
        /\ seen({"SAVE_LIST"}) =>
              left.words.menu_page = right.words.menu_page
        /\ seen({"BATTLE", "HOST_BATTLE"}) =>
              left.words.battle_menu = right.words.battle_menu

\* same_lifecycle: a word counts only while a route it belongs to is there.
SameLifecycle(left, right) ==
    LET seen(routes) == left.candidates \cap routes # {}
    IN  /\ left.route = right.route
        /\ left.candidates = right.candidates
        /\ left.words.map_id = right.words.map_id
        /\ seen({"TITLE", "SAVE_LOAD"}) =>
              left.words.title_mode = right.words.title_mode
        /\ seen({"SAVE_LOAD", "SAVE_LIST"}) =>
              left.words.menu_page = right.words.menu_page
        /\ seen({"BATTLE", "HOST_BATTLE"}) =>
              left.words.battle_menu = right.words.battle_menu

\* What makes two contexts the same lifecycle, as one value.
Identity(c) ==
    LET word(routes, w) == IF c.candidates \cap routes = {} THEN Zero ELSE w
    IN  <<c.candidates, c.words.map_id,
          word({"TITLE", "SAVE_LOAD"}, c.words.title_mode),
          word({"SAVE_LOAD", "SAVE_LIST"}, c.words.menu_page),
          word({"BATTLE", "HOST_BATTLE"}, c.words.battle_menu)>>

-----------------------------------------------------------------------------
ContextInit ==
    /\ initialized = FALSE
    /\ current = NoContext
    /\ generation = 0
    /\ kept = [identity |-> Identity(NoContext), generation |-> 0]
    /\ changes = 0

\* The generation of the next context; 0 is skipped when it wraps around.
NextGeneration(changed) ==
    IF ~initialized THEN 1
    ELSE IF ~changed THEN generation
    ELSE IF generation = MaxGeneration THEN 1 ELSE generation + 1

\* sword3_input_context_track with the context next.
Track(next) ==
    LET changed == ~initialized \/ ~SameLifecycle(current, next) IN
    /\ changed => changes < MaxChanges
    /\ generation' = NextGeneration(changed)
    /\ initialized' = TRUE
    /\ current' = next
    /\ changes' = IF changed THEN changes + 1 ELSE changes
    /\ UNCHANGED kept

\* A user keeps the context it was given, to come back to it later.
Keep ==
    /\ initialized
    /\ kept' = [identity |-> Identity(current), generation |-> generation]
    /\ changes' = 0
    /\ UNCHANGED <<initialized, current, generation>>

ContextNext ==
    \/ \E probe \in Probes : Track(ResolveContext(probe))
    \/ Track(NoContext) \* a null probe
    \/ Keep

-----------------------------------------------------------------------------
\* "A stale generation may not write": unless the counter has gone all the way
\* round, a kept generation is the current one exactly when the lifecycle has
\* not changed since, and then the context is still the one it was kept for.
GenerationDetectsChange ==
    kept.generation # 0 /\ changes < MaxGeneration =>
        /\ kept.generation = generation <=> changes = 0
        /\ kept.generation = generation => kept.identity = Identity(current)

=============================================================================
