---------------------------- MODULE Sword3Input ----------------------------
(***************************************************************************)
(* The keyboard/controller merger of the Sword3 port                       *)
(* (src/ports/sword3/input.c).  Physical keys, controller buttons and axes *)
(* are folded into one reference count per scancode; the game sees a key   *)
(* event only when a count leaves or reaches zero.                         *)
(*                                                                         *)
(* All functions run on the event loop thread (input.h), so a handler is   *)
(* one action.  handle_axis is two: it may release one key and press       *)
(* another, and the event callback, which is allowed to poll, runs in      *)
(* between; every other handler waits for its second half.                 *)
(*                                                                         *)
(* The event queue is the FIFO that Sword3InputQueue implements, with the  *)
(* capacity that decides when reserve_queue has to allocate.               *)
(***************************************************************************)
EXTENDS Naturals, Integers, Sequences, FiniteSets

CONSTANTS
    Keys,            \* the valid scancodes, in scan order
    UNKNOWN,         \* SDL_SCANCODE_UNKNOWN, the disabled mapping
    Controllers,     \* joystick instance ids
    Buttons, Axes,   \* controller buttons and axes
    MaxRefs,         \* the largest unsigned short
    InitialCapacity, \* queue slots of the first allocation (32)
    MaxQueue,        \* bound: events the model lets wait in the queue
    DefaultButton, DefaultNegative, DefaultPositive, \* set_default_mappings
    Remaps           \* the scancodes map_button and map_axis are called with

ASSUME KeysAssumption == Keys \subseteq Nat /\ UNKNOWN \notin Keys
ASSUME BoundsAssumption ==
    /\ MaxRefs \in Nat \ {0}
    /\ InitialCapacity \in Nat \ {0}
    /\ MaxQueue \in Nat
ASSUME FiniteAssumption ==
    /\ IsFiniteSet(Keys) /\ IsFiniteSet(Controllers)
    /\ IsFiniteSet(Buttons) /\ IsFiniteSet(Axes)
ASSUME MappingAssumption ==
    /\ DefaultButton \in [Buttons -> Keys \cup {UNKNOWN}]
    /\ DefaultNegative \in [Axes -> Keys \cup {UNKNOWN}]
    /\ DefaultPositive \in [Axes -> Keys \cup {UNKNOWN}]
    /\ Remaps \subseteq Keys \cup {UNKNOWN}

VARIABLES
    alive,          \* sword3_input_create succeeded, not destroyed yet
    key_refs,       \* input->key_refs: holders of each scancode
    keyboard_down,  \* input->keyboard_down
    controllers,    \* the connected controllers (the ControllerState list)
    ctrl_refs,      \* state->key_refs of each controller
    button_down,    \* state->button_down
    axis_direction, \* state->axis_direction
    button_map, axis_negative, axis_positive,
    queue,          \* events not polled yet, oldest first
    capacity,       \* input->queue_capacity
    axis_step,      \* the second half of handle_axis, or NoStep
    error,          \* errno of the last call, "none" when it succeeded
    polled          \* what the consumer knows: the last event polled per key

held    == <<key_refs, keyboard_down, ctrl_refs, button_down, axis_direction>>
mapping == <<button_map, axis_negative, axis_positive>>
vars    == <<alive, held, controllers, mapping, queue, capacity, axis_step,
             error, polled>>

-----------------------------------------------------------------------------
Scancodes  == Keys \cup {UNKNOWN}
Directions == {-1, 0, 1}
NoStep     == [active |-> FALSE]
Steps      == [controller : Controllers, axis : Axes, direction : {-1, 1}]
Changes    == {"press", "release"}
Events     == [scancode : Keys, change : Changes]
Errors     == {"none", "ENOMEM", "EOVERFLOW", "EPROTO", "EINVAL"}

Event(k, x) == [scancode |-> k, change |-> x]

NoRefs      == [k \in Keys |-> 0]
NoButtons   == [b \in Buttons |-> FALSE]
NoDirection == [a \in Axes |-> 0]

TypeOK ==
    /\ alive \in BOOLEAN
    /\ key_refs \in [Keys -> 0..MaxRefs]
    /\ keyboard_down \in [Keys -> BOOLEAN]
    /\ controllers \subseteq Controllers
    /\ ctrl_refs \in [Controllers -> [Keys -> 0..MaxRefs]]
    /\ button_down \in [Controllers -> [Buttons -> BOOLEAN]]
    /\ axis_direction \in [Controllers -> [Axes -> Directions]]
    /\ button_map \in [Buttons -> Scancodes]
    /\ axis_negative \in [Axes -> Scancodes]
    /\ axis_positive \in [Axes -> Scancodes]
    /\ queue \in Seq(Events)
    /\ capacity \in Nat
    /\ Len(queue) <= capacity
    /\ axis_step \in {NoStep} \cup Steps
    /\ error \in Errors
    /\ polled \in [Keys -> Changes]

Init ==
    /\ alive = FALSE
    /\ key_refs = NoRefs
    /\ keyboard_down = [k \in Keys |-> FALSE]
    /\ controllers = {}
    /\ ctrl_refs = [c \in Controllers |-> NoRefs]
    /\ button_down = [c \in Controllers |-> NoButtons]
    /\ axis_direction = [c \in Controllers |-> NoDirection]
    /\ button_map = DefaultButton
    /\ axis_negative = DefaultNegative
    /\ axis_positive = DefaultPositive
    /\ queue = <<>>
    /\ capacity = 0
    /\ axis_step = NoStep
    /\ error = "none"
    /\ polled = [k \in Keys |-> "release"]

-----------------------------------------------------------------------------
(***************************************************************************)
(* The queue.  reserve_queue(n) succeeds without an allocation when n more *)
(* events fit, doubles the capacity until they do otherwise, and fails     *)
(* when malloc does.                                                       *)
(***************************************************************************)
GrownTo(required) ==
    LET base == IF capacity = 0 THEN InitialCapacity ELSE 2 * capacity
        enough(c) == c >= required /\ \E n \in 0..required : c = base * 2^n
    IN  {c \in required..(base + 2 * required) :
            enough(c) /\ \A d \in required..c : enough(d) => d = c}

\* Mutant: one event too many is let in before the ring grows.
ReserveOffByOne(n) ==
    /\ Len(queue) + n <= MaxQueue
    /\ IF Len(queue) + n <= capacity + 1
          THEN capacity' = capacity
          ELSE capacity' \in GrownTo(Len(queue) + n)

Reserve(n) ==
    /\ Len(queue) + n <= MaxQueue
    /\ IF Len(queue) + n <= capacity
          THEN capacity' = capacity
          ELSE capacity' \in GrownTo(Len(queue) + n)

ReserveFails(n) == Len(queue) + n > capacity

\* The scan of a release loop: every scancode of S once, in increasing order.
ScanOrders(S) ==
    {s \in [1..Cardinality(S) -> S] :
        /\ \A k \in S : \E i \in 1..Cardinality(S) : s[i] = k
        /\ \A i, j \in 1..Cardinality(S) : i < j => s[i] < s[j]}

\* Reserve room for the releases of S, then queue them.
QueueReleases(S) ==
    /\ Reserve(Cardinality(S))
    /\ \E s \in ScanOrders(S) :
          queue' = queue \o [i \in 1..Cardinality(S) |-> Event(s[i], "release")]

-----------------------------------------------------------------------------
\* Mutant: the press is queued for every new holder, not for the first only.
RaiseKeyAlwaysQueues(k) ==
    /\ key_refs[k] < MaxRefs
    /\ key_refs' = [key_refs EXCEPT ![k] = @ + 1]
    /\ Reserve(1) /\ queue' = Append(queue, Event(k, "press"))

(***************************************************************************)
(* change_global_key: one reference more or less on a valid scancode, the  *)
(* event queued on the way out of and back to zero.                        *)
(***************************************************************************)
RaiseKey(k) ==
    /\ key_refs[k] < MaxRefs
    /\ key_refs' = [key_refs EXCEPT ![k] = @ + 1]
    /\ IF key_refs[k] = 0
          THEN Reserve(1) /\ queue' = Append(queue, Event(k, "press"))
          ELSE UNCHANGED <<queue, capacity>>

LowerKey(k) ==
    /\ key_refs[k] > 0
    /\ key_refs' = [key_refs EXCEPT ![k] = @ - 1]
    /\ IF key_refs[k] = 1
          THEN Reserve(1) /\ queue' = Append(queue, Event(k, "release"))
          ELSE UNCHANGED <<queue, capacity>>

RaiseFails(k) ==
    \/ key_refs[k] = MaxRefs /\ error' = "EOVERFLOW"
    \/ key_refs[k] = 0 /\ ReserveFails(1) /\ error' = "ENOMEM"

LowerFails(k) ==
    key_refs[k] = 1 /\ ReserveFails(1) /\ error' = "ENOMEM"

(***************************************************************************)
(* change_controller_key: the same on the controller's own count as well.  *)
(* An unmapped control changes nothing and succeeds.                       *)
(***************************************************************************)
ChangeControllerKey(c, k, pressed) ==
    \/ /\ IF k \in Keys THEN ~pressed /\ ctrl_refs[c][k] = 0 ELSE TRUE
       /\ UNCHANGED <<key_refs, ctrl_refs, queue, capacity>>
    \/ /\ k \in Keys /\ pressed
       /\ ctrl_refs[c][k] < MaxRefs
       /\ RaiseKey(k)
       /\ ctrl_refs' = [ctrl_refs EXCEPT ![c][k] = @ + 1]
    \/ /\ k \in Keys /\ ~pressed
       /\ ctrl_refs[c][k] > 0
       /\ key_refs[k] >= ctrl_refs[c][k]
       /\ LowerKey(k)
       /\ ctrl_refs' = [ctrl_refs EXCEPT ![c][k] = @ - 1]

ChangeControllerKeyFails(c, k, pressed) ==
    /\ k \in Keys
    /\ \/ /\ pressed
          /\ \/ RaiseFails(k)
             \/ ctrl_refs[c][k] = MaxRefs /\ error' = "EOVERFLOW"
       \/ /\ ~pressed /\ ctrl_refs[c][k] > 0
          /\ \/ LowerFails(k)
             \/ key_refs[k] < ctrl_refs[c][k] /\ error' = "EPROTO"

\* A handler may start: the object exists and no handle_axis is half done.
Ready == alive /\ axis_step = NoStep

\* A call that returns without changing the object.
Unchanged == UNCHANGED <<alive, held, controllers, mapping, queue, capacity,
                         axis_step, polled>>

-----------------------------------------------------------------------------
(***************************************************************************)
(* SDL_KEYDOWN and SDL_KEYUP.  Auto-repeats and events that do not change  *)
(* keyboard_down are dropped.                                              *)
(***************************************************************************)
HandleKeyboard(k, pressed, repeat) ==
    /\ Ready
    /\ \/ /\ (pressed /\ repeat) \/ keyboard_down[k] = pressed
          /\ error' = "none"
          /\ Unchanged
       \/ /\ ~(pressed /\ repeat) /\ keyboard_down[k] # pressed
          /\ \/ /\ IF pressed THEN RaiseKey(k)
                              ELSE IF key_refs[k] = 0
                                      THEN UNCHANGED <<key_refs, queue, capacity>>
                                      ELSE LowerKey(k)
                /\ keyboard_down' = [keyboard_down EXCEPT ![k] = pressed]
                /\ error' = "none"
                /\ UNCHANGED <<alive, controllers, ctrl_refs, button_down,
                               axis_direction, mapping, axis_step, polled>>
             \/ /\ IF pressed THEN RaiseFails(k) ELSE LowerFails(k)
                /\ Unchanged

HandleButton(c, b, pressed) ==
    /\ Ready
    /\ \/ /\ c \notin controllers \/ button_down[c][b] = pressed
          /\ error' = "none"
          /\ Unchanged
       \/ /\ c \in controllers /\ button_down[c][b] # pressed
          /\ \/ /\ ChangeControllerKey(c, button_map[b], pressed)
                /\ button_down' = [button_down EXCEPT ![c][b] = pressed]
                /\ error' = "none"
                /\ UNCHANGED <<alive, keyboard_down, controllers,
                               axis_direction, mapping, axis_step, polled>>
             \/ /\ ChangeControllerKeyFails(c, button_map[b], pressed)
                /\ Unchanged

(***************************************************************************)
(* SDL_CONTROLLERAXISMOTION.  The stick's value matters only through the   *)
(* zone it is in: beyond a press threshold, inside the release thresholds, *)
(* or in the hysteresis band between the two of one side.                  *)
(***************************************************************************)
Zones == {"negative", "negative_band", "centre", "positive_band", "positive"}

NewDirection(old, zone) ==
    LET left == \/ old = -1 /\ zone \notin {"negative", "negative_band"}
                \/ old = 1 /\ zone \notin {"positive", "positive_band"}
        kept == IF left THEN 0 ELSE old
    IN  IF kept # 0 THEN kept
        ELSE IF zone = "negative" THEN -1
        ELSE IF zone = "positive" THEN 1 ELSE 0

AxisKey(a, direction) ==
    IF direction = -1 THEN axis_negative[a] ELSE axis_positive[a]

\* handle_axis up to line 385: the old direction's key is released.
HandleAxis(c, a, zone) ==
    LET old == axis_direction[c][a]
        new == NewDirection(old, zone)
    IN
    /\ Ready
    /\ \/ /\ c \notin controllers \/ new = old
          /\ error' = "none"
          /\ Unchanged
       \/ /\ c \in controllers /\ new # old
          /\ \/ /\ IF old = 0
                      THEN UNCHANGED <<key_refs, ctrl_refs, queue, capacity>>
                      ELSE ChangeControllerKey(c, AxisKey(a, old), FALSE)
                /\ axis_direction' = [axis_direction EXCEPT ![c][a] = 0]
                /\ axis_step' = IF new = 0 THEN NoStep
                                ELSE [controller |-> c, axis |-> a,
                                      direction |-> new]
                /\ error' = "none"
                /\ UNCHANGED <<alive, keyboard_down, controllers, button_down,
                               mapping, polled>>
             \/ /\ old # 0
                /\ ChangeControllerKeyFails(c, AxisKey(a, old), FALSE)
                /\ Unchanged

\* handle_axis from line 386: the new direction's key is pressed.
FinishAxis ==
    /\ axis_step # NoStep
    /\ LET c == axis_step.controller
           a == axis_step.axis
           d == axis_step.direction
       IN  \/ /\ ChangeControllerKey(c, AxisKey(a, d), TRUE)
              /\ axis_direction' = [axis_direction EXCEPT ![c][a] = d]
              /\ error' = "none"
              /\ UNCHANGED <<keyboard_down, button_down>>
           \/ /\ ChangeControllerKeyFails(c, AxisKey(a, d), TRUE)
              /\ UNCHANGED <<held, queue, capacity>>
    /\ axis_step' = NoStep
    /\ UNCHANGED <<alive, controllers, mapping, polled>>

-----------------------------------------------------------------------------
\* SDL_CONTROLLERDEVICEADDED: opening or allocating may fail, a known
\* instance is left alone.
AddController(c) ==
    /\ Ready
    /\ \/ /\ c \notin controllers
          /\ controllers' = controllers \cup {c}
          /\ ctrl_refs' = [ctrl_refs EXCEPT ![c] = NoRefs]
          /\ button_down' = [button_down EXCEPT ![c] = NoButtons]
          /\ axis_direction' = [axis_direction EXCEPT ![c] = NoDirection]
          /\ error' = "none"
          /\ UNCHANGED <<alive, key_refs, keyboard_down, mapping, queue,
                         capacity, axis_step, polled>>
       \/ /\ c \in controllers /\ error' = "none"
          /\ Unchanged
       \/ /\ c \notin controllers /\ error' = "ENOMEM"
          /\ Unchanged

\* Mutant: a release is queued for keys that somebody else still holds.
ReleaseControllerOfAll(c) ==
    /\ \A k \in Keys : ctrl_refs[c][k] <= key_refs[k]
    /\ QueueReleases({k \in Keys : ctrl_refs[c][k] > 0})
    /\ key_refs' = [k \in Keys |-> key_refs[k] - ctrl_refs[c][k]]
    /\ ctrl_refs' = [ctrl_refs EXCEPT ![c] = NoRefs]
    /\ button_down' = [button_down EXCEPT ![c] = NoButtons]
    /\ axis_direction' = [axis_direction EXCEPT ![c] = NoDirection]

\* release_controller: give back every reference the controller holds.
ReleaseController(c) ==
    /\ \A k \in Keys : ctrl_refs[c][k] <= key_refs[k]
    /\ QueueReleases({k \in Keys : ctrl_refs[c][k] > 0
                                   /\ ctrl_refs[c][k] = key_refs[k]})
    /\ key_refs' = [k \in Keys |-> key_refs[k] - ctrl_refs[c][k]]
    /\ ctrl_refs' = [ctrl_refs EXCEPT ![c] = NoRefs]
    /\ button_down' = [button_down EXCEPT ![c] = NoButtons]
    /\ axis_direction' = [axis_direction EXCEPT ![c] = NoDirection]

ReleaseControllerFails(c) ==
    \/ /\ \E k \in Keys : ctrl_refs[c][k] > key_refs[k]
       /\ error' = "EPROTO"
    \/ /\ \A k \in Keys : ctrl_refs[c][k] <= key_refs[k]
       /\ ReserveFails(Cardinality({k \in Keys :
             ctrl_refs[c][k] > 0 /\ ctrl_refs[c][k] = key_refs[k]}))
       /\ error' = "ENOMEM"

\* SDL_CONTROLLERDEVICEREMOVED.
RemoveController(c) ==
    /\ Ready
    /\ \/ /\ c \notin controllers
          /\ error' = "none"
          /\ Unchanged
       \/ /\ c \in controllers
          /\ ReleaseController(c)
          /\ controllers' = controllers \ {c}
          /\ error' = "none"
          /\ UNCHANGED <<alive, keyboard_down, mapping, axis_step, polled>>
       \/ /\ c \in controllers
          /\ ReleaseControllerFails(c)
          /\ Unchanged

-----------------------------------------------------------------------------
\* sword3_input_release_all, also run when the window loses the focus.
DownKeys == {k \in Keys : key_refs[k] > 0}

ReleaseAll ==
    /\ Ready
    /\ \/ /\ QueueReleases(DownKeys)
          /\ key_refs' = NoRefs
          /\ keyboard_down' = [k \in Keys |-> FALSE]
          /\ ctrl_refs' = [c \in Controllers |-> NoRefs]
          /\ button_down' = [c \in Controllers |-> NoButtons]
          /\ axis_direction' = [c \in Controllers |-> NoDirection]
          /\ error' = "none"
          /\ UNCHANGED <<alive, controllers, mapping, axis_step, polled>>
       \/ /\ ReserveFails(Cardinality(DownKeys))
          /\ error' = "ENOMEM"
          /\ Unchanged

\* The references all controllers together hold on k, as the size of the
\* disjoint union of what each of them holds.
Owned(k) == Cardinality({x \in controllers \X (1..MaxRefs) :
                            x[2] <= ctrl_refs[x[1]][k]})

\* release_controller_inputs, which every remapping starts with.
ReleaseControllerInputs ==
    /\ \A k \in Keys : Owned(k) <= key_refs[k]
    /\ QueueReleases({k \in Keys : Owned(k) > 0 /\ Owned(k) = key_refs[k]})
    /\ key_refs' = [k \in Keys |-> key_refs[k] - Owned(k)]
    /\ ctrl_refs' = [c \in Controllers |-> NoRefs]
    /\ button_down' = [c \in Controllers |-> NoButtons]
    /\ axis_direction' = [c \in Controllers |-> NoDirection]

ReleaseControllerInputsFails ==
    \/ /\ \E k \in Keys : Owned(k) > key_refs[k]
       /\ error' = "EPROTO"
    \/ /\ \A k \in Keys : Owned(k) <= key_refs[k]
       /\ ReserveFails(Cardinality({k \in Keys :
             Owned(k) > 0 /\ Owned(k) = key_refs[k]}))
       /\ error' = "ENOMEM"

\* Mutant: the button is remapped while it is held.
MapButtonWhileHeld(b, k) ==
    /\ Ready
    /\ button_map' = [button_map EXCEPT ![b] = k]
    /\ error' = "none"
    /\ UNCHANGED <<alive, held, controllers, axis_negative, axis_positive,
                   queue, capacity, axis_step, polled>>

MapButton(b, k) ==
    /\ Ready
    /\ \/ /\ ReleaseControllerInputs
          /\ button_map' = [button_map EXCEPT ![b] = k]
          /\ error' = "none"
          /\ UNCHANGED <<alive, keyboard_down, controllers, axis_negative,
                         axis_positive, axis_step, polled>>
       \/ /\ ReleaseControllerInputsFails
          /\ Unchanged

MapAxis(a, negative, positive) ==
    /\ Ready
    /\ \/ /\ ReleaseControllerInputs
          /\ axis_negative' = [axis_negative EXCEPT ![a] = negative]
          /\ axis_positive' = [axis_positive EXCEPT ![a] = positive]
          /\ error' = "none"
          /\ UNCHANGED <<alive, keyboard_down, controllers, button_map,
                         axis_step, polled>>
       \/ /\ ReleaseControllerInputsFails
          /\ Unchanged

\* A call with a null object, a bad control or a bad scancode.
InvalidCall ==
    /\ error' = "EINVAL"
    /\ Unchanged

-----------------------------------------------------------------------------
\* sword3_input_poll, from the game loop or from the event callback.
Poll ==
    /\ alive /\ queue # <<>>
    /\ polled' = [polled EXCEPT ![Head(queue).scancode] = Head(queue).change]
    /\ queue' = Tail(queue)
    /\ error' = "none"
    /\ UNCHANGED <<alive, held, controllers, mapping, capacity, axis_step>>

\* sword3_input_create with the controllers that are plugged in; a consumer
\* starts with every key up.  A failed creation leaves no object.
Create(plugged) ==
    /\ ~alive
    /\ alive' = TRUE
    /\ controllers' = plugged
    /\ button_map' = DefaultButton
    /\ axis_negative' = DefaultNegative
    /\ axis_positive' = DefaultPositive
    /\ key_refs' = NoRefs
    /\ keyboard_down' = [k \in Keys |-> FALSE]
    /\ ctrl_refs' = [c \in Controllers |-> NoRefs]
    /\ button_down' = [c \in Controllers |-> NoButtons]
    /\ axis_direction' = [c \in Controllers |-> NoDirection]
    /\ queue' = <<>>
    /\ capacity' = 0
    /\ error' = "none"
    /\ polled' = [k \in Keys |-> "release"]
    /\ UNCHANGED axis_step

\* sword3_input_destroy: whether or not release_all found the memory to
\* report the keys still down, the queue and the controllers are freed.
Destroy ==
    /\ Ready
    /\ alive' = FALSE
    /\ controllers' = {}
    /\ key_refs' = NoRefs
    /\ keyboard_down' = [k \in Keys |-> FALSE]
    /\ ctrl_refs' = [c \in Controllers |-> NoRefs]
    /\ button_down' = [c \in Controllers |-> NoButtons]
    /\ axis_direction' = [c \in Controllers |-> NoDirection]
    /\ queue' = <<>>
    /\ capacity' = 0
    /\ error' = "none"
    /\ UNCHANGED <<mapping, axis_step, polled>>

Next ==
    \/ \E k \in Keys, pressed, repeat \in BOOLEAN :
          HandleKeyboard(k, pressed, repeat)
    \/ \E c \in Controllers, b \in Buttons, pressed \in BOOLEAN :
          HandleButton(c, b, pressed)
    \/ \E c \in Controllers, a \in Axes, zone \in Zones : HandleAxis(c, a, zone)
    \/ FinishAxis
    \/ \E c \in Controllers : AddController(c) \/ RemoveController(c)
    \/ ReleaseAll
    \/ \E b \in Buttons, k \in Remaps : MapButton(b, k)
    \/ \E a \in Axes, n, p \in Remaps : MapAxis(a, n, p)
    \/ InvalidCall
    \/ Poll
    \/ \E plugged \in SUBSET Controllers : Create(plugged)
    \/ Destroy

Spec == Init /\ [][Next]_vars
-----------------------------------------------------------------------------
(***************************************************************************)
(* Properties.                                                             *)
(***************************************************************************)

\* The last event of k in q is x; without an event of k, it is what v says.
LastIs(q, v, k, x) ==
    \/ \E i \in DOMAIN q :
          /\ q[i] = Event(k, x)
          /\ \A j \in DOMAIN q : j > i => q[j].scancode # k
    \/ /\ \A i \in DOMAIN q : q[i].scancode # k
       /\ v[k] = x

\* Consecutive events of a key in q differ, and the first differs from v.
Alternating(q, v) ==
    \A i \in DOMAIN q :
        /\ (\A j \in 1..(i-1) : q[j].scancode # q[i].scancode)
              => v[q[i].scancode] # q[i].change
        /\ \A j \in 1..(i-1) :
              /\ q[j].scancode = q[i].scancode
              /\ \A m \in (j+1)..(i-1) : q[m].scancode # q[i].scancode
              => q[j].change # q[i].change

\* sword3_input_is_down, as the event that announces it.
Status(k) == IF key_refs[k] > 0 THEN "press" ELSE "release"

\* No key sticks and none is lost: a consumer that drains the queue holds
\* exactly the keys that sword3_input_is_down reports, whatever mixture of
\* keyboard, controllers, remaps, unplugs and failed allocations came before.
StreamMatchesKeys ==
    alive => \A k \in Keys : LastIs(queue, polled, k, Status(k))

\* The events of one key alternate: the consumer never polls a press of a key
\* it holds nor a release of a key it does not.
StreamAlternates == Alternating(queue, polled)

\* The controls of controller c that hold scancode k down.
Holders(c, k) ==
    {<<"button", b>> : b \in {x \in Buttons : button_down[c][x] /\ button_map[x] = k}}
    \cup {<<"axis", a>> : a \in {x \in Axes :
            axis_direction[c][x] # 0 /\ AxisKey(x, axis_direction[c][x]) = k}}

\* Every reference has a holder: the counts change_controller_key keeps are the
\* held controls that map to the key, and the global count adds the keyboard.
\* A remap, an unplug or a half failed axis flip that forgot one would leave a
\* key down for ever.
RefsHaveHolders ==
    /\ \A c \in Controllers, k \in Keys :
          ctrl_refs[c][k] = Cardinality(Holders(c, k))
    /\ \A k \in Keys :
          key_refs[k] = Cardinality(UNION {{c} \X Holders(c, k) : c \in Controllers})
                        + (IF keyboard_down[k] THEN 1 ELSE 0)

=============================================================================
