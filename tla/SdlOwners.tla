----------------------------- MODULE SdlOwners ------------------------------
(***************************************************************************)
(* The register of SDL objects (src/ports/sword3/sdl_bridge.c).  Every     *)
(* window, renderer, texture, surface and file stream that host SDL makes  *)
(* for the guest is entered in a table of its kind, and a call that is     *)
(* given anything else stops the process, since an object of the guest's   *)
(* own SDL would corrupt the host's.  The table has a lock; making or      *)
(* destroying an object and its entry are separate steps, and the heap     *)
(* gives a freed address out again.                                        *)
(***************************************************************************)
EXTENDS Naturals, Sequences, FiniteSets

CONSTANTS
    Threads,  \* guest threads that call SDL
    Addrs,    \* addresses the heap has
    Programs, \* the sets of kinds a guest may be working with
    OwnerCap  \* OWNER_CAP

Kinds == {"window", "renderer", "texture", "surface", "rwops"}

ASSUME OwnersAssumption ==
    IsFiniteSet(Addrs) /\ OwnerCap \in Nat \ {0} /\ Programs \subseteq SUBSET Kinds

VARIABLES
    works,  \* the kinds this guest works with
    heap,   \* what lives at each address: a kind, "guestRw", or "free"
    owners, \* owners: how many entries each kind's table has of each address
    held,   \* what the guest holds and passes, <<kind, address>>
    call,   \* what each thread is doing
    left,   \* history: texture entries whose renderer took the texture along
    stopped \* "no", or why the process was aborted
ownerVars == <<works, heap, owners, held, call, left, stopped>>

Idle == [at |-> "guest", uses |-> {}]

OwnersInit ==
    /\ works \in Programs
    /\ heap = [a \in Addrs |-> "free"]
    /\ owners = [k \in Kinds |-> [a \in Addrs |-> 0]] /\ left = [a \in Addrs |-> 0]
    /\ held = {}
    /\ call = [t \in Threads |-> Idle]
    /\ stopped = "no"

-----------------------------------------------------------------------------
\* owner_contains_locked and what is built on it.  Under the lock each is one
\* step.  Which entry goes first does not matter, so a table is a bag.
OwnerContains(kind, a) == owners[kind][a] > 0
OwnerFull(kind) ==
    LET entries == {e \in Addrs \X (1..OwnerCap) : e[2] <= owners[kind][e[1]]}
    IN  Cardinality(entries) >= OwnerCap
OwnerDrop(kind, a) ==
    owners' = [owners EXCEPT ![kind][a] = IF @ > 0 THEN @ - 1 ELSE 0]

Does(t, at) == stopped = "no" /\ call[t].at = at
Goto(t, rec) == call' = [call EXCEPT ![t] = rec]
Return(t) == Goto(t, Idle)
InUse(obj) == \E t \in Threads : obj \in call[t].uses
Abort(why) == stopped' = why /\ UNCHANGED <<heap, owners, held, call, left>>

-----------------------------------------------------------------------------
\* The calls: what they are given, in the order it is checked, and what they
\* make.  Destroying the one window is ignored: it only checks.
Call(args, makes) == [args |-> args, makes |-> makes]
WindowCalls   == {Call(<<>>, "window"), Call(<<"window">>, "none")}
RendererCalls == {Call(<<"window">>, "renderer"), Call(<<"renderer">>, "none")}
RenderCopies  == {Call(<<"renderer", "texture">>, "none")}
TextureCalls  == {Call(<<"renderer">>, "texture"), Call(<<"renderer", "surface">>, "texture"),
                  Call(<<"texture">>, "none")}
SurfaceCalls  == {Call(<<>>, "surface"), Call(<<"surface">>, "none"),
                  Call(<<"surface", "surface">>, "none")}
Conversions   == {Call(<<"surface">>, "surface")}
FileCalls     == {Call(<<>>, "rwops")}
AllCalls == UNION {WindowCalls, RendererCalls, RenderCopies, TextureCalls,
                   SurfaceCalls, Conversions, FileCalls}

\* The guest opens one window and one renderer at a time.
OneOf(makes) ==
    makes \in {"window", "renderer"} =>
        /\ \A a \in Addrs : heap[a] # makes
        /\ \A t \in Threads : call[t].at = "check" => call[t].makes # makes

Enter(t, c) ==
    /\ Does(t, "guest") /\ OneOf(c.makes)
    /\ c.makes \in works \cup {"none"}
    /\ \E args \in [DOMAIN c.args -> held] :
          /\ \A i \in DOMAIN c.args : args[i][1] = c.args[i]
          /\ Goto(t, [at |-> "check", todo |-> args, makes |-> c.makes,
                      uses |-> {args[i] : i \in DOMAIN args}])
    /\ UNCHANGED <<heap, owners, held, left, stopped>>

\* owner_check, for each argument in turn.
OwnerCheck(t) ==
    /\ Does(t, "check") /\ call[t].todo # <<>>
    /\ LET obj == Head(call[t].todo)
       IN  IF OwnerContains(obj[1], obj[2])
           THEN /\ Goto(t, [call[t] EXCEPT !.todo = Tail(@)])
                /\ UNCHANGED <<heap, owners, held, left, stopped>>
           ELSE Abort("foreign")

\* Host SDL: draws or reads, or makes an object at a free address, or cannot.
SdlDoes(t) ==
    /\ Does(t, "check") /\ call[t].todo = <<>>
    /\ \/ Return(t) /\ UNCHANGED heap
       \/ /\ call[t].makes # "none"
          /\ \E a \in Addrs :
                /\ heap[a] = "free"
                /\ heap' = [heap EXCEPT ![a] = call[t].makes]
                /\ Goto(t, [at |-> "register", kind |-> call[t].makes, addr |-> a, uses |-> {}])
    /\ UNCHANGED <<owners, held, left, stopped>>

\* owner_register, after which the guest has the object.
OwnerRegister(t) ==
    /\ Does(t, "register")
    /\ LET kind == call[t].kind
       IN  IF OwnerFull(kind) THEN Abort("full")
           ELSE /\ owners' = [owners EXCEPT ![kind][call[t].addr] = @ + 1]
                /\ held' = held \cup {<<kind, call[t].addr>>}
                /\ Return(t)
                /\ UNCHANGED <<heap, left, stopped>>

-----------------------------------------------------------------------------
\* DestroyRenderer, DestroyTexture, FreeSurface: the guest gives the object
\* up, and no other thread of it uses the object (or a texture of it) then.
Gone(obj) == {obj} \cup IF obj[1] = "renderer" THEN {o \in held : o[1] = "texture"} ELSE {}
Destroy(t, obj) ==
    /\ Does(t, "guest") /\ obj[1] \in {"renderer", "texture", "surface"}
    /\ \A o \in Gone(obj) : ~InUse(o)
    /\ \A u \in Threads : obj[1] = "renderer" => call[u].at = "guest"
    /\ held' = held \ Gone(obj)
    /\ Goto(t, [at |-> "unregister", kind |-> obj[1], addr |-> obj[2], uses |-> {obj}])
    /\ UNCHANGED <<heap, owners, left, stopped>>

\* Mutant: the object goes and its entry stays.
OwnerUnregisterNot(t) ==
    /\ Does(t, "unregister")
    /\ Goto(t, [call[t] EXCEPT !.at = "destroy"])
    /\ UNCHANGED <<heap, owners, held, left, stopped>>

OwnerUnregister(t) ==
    /\ Does(t, "unregister")
    /\ IF ~OwnerContains(call[t].kind, call[t].addr) THEN Abort("foreign")
       ELSE /\ OwnerDrop(call[t].kind, call[t].addr)
            /\ Goto(t, [call[t] EXCEPT !.at = "destroy"])
            /\ UNCHANGED <<heap, held, left, stopped>>

\* Host SDL frees the object; a renderer takes its textures with it, whose
\* entries stay behind.
SdlDestroys(t) ==
    /\ Does(t, "destroy")
    /\ LET orphans == {a \in Addrs : call[t].kind = "renderer" /\ heap[a] = "texture"}
       IN  /\ heap' = [a \in Addrs |-> IF a \in orphans \cup {call[t].addr} THEN "free" ELSE heap[a]]
           /\ left' = [a \in Addrs |-> IF a \in orphans THEN left[a] + 1 ELSE left[a]]
    /\ Return(t)
    /\ UNCHANGED <<owners, held, stopped>>

-----------------------------------------------------------------------------
\* Streams: the guest makes memory streams with its own SDL, and closes any
\* stream through its method table; the bridge sees neither.
GuestStream(t, a) ==
    /\ Does(t, "guest") /\ "rwops" \in works
    /\ \/ /\ heap[a] = "free"
          /\ heap' = [heap EXCEPT ![a] = "guestRw"] /\ held' = held \cup {<<"rwops", a>>}
       \/ /\ <<"rwops", a>> \in held /\ ~InUse(<<"rwops", a>>)
          /\ heap' = [heap EXCEPT ![a] = "free"] /\ held' = held \ {<<"rwops", a>>}
    /\ UNCHANGED <<owners, call, left, stopped>>

\* IMG_Load_RW and IMG_LoadTyped_RW: with freesrc the stream goes to the call.
ImgLoad(t, a, freesrc) ==
    /\ Does(t, "guest") /\ <<"rwops", a>> \in held /\ ~InUse(<<"rwops", a>>)
    /\ held' = IF freesrc THEN held \ {<<"rwops", a>>} ELSE held
    /\ Goto(t, [at |-> "has", addr |-> a, freesrc |-> freesrc, uses |-> {<<"rwops", a>>}])
    /\ UNCHANGED <<heap, owners, left, stopped>>

\* The surface that was decoded, or none, is registered like any other.
Decoded(t) == Goto(t, [at |-> "check", todo |-> <<>>, makes |-> "surface", uses |-> {}])

\* load_typed_rw.  A host stream is decoded, and freed by host SDL_image before
\* its entry is dropped; another is read through its methods, and whatever
\* fails of that, it is dropped and then closed.
LoadTypedRw(t) ==
    LET a     == call[t].addr
        hosts == OwnerContains("rwops", a)
    IN  /\ Does(t, "has")
        /\ IF ~call[t].freesrc THEN Decoded(t) /\ UNCHANGED heap
           ELSE IF hosts
           THEN /\ heap' = [heap EXCEPT ![a] = "free"]
                /\ Goto(t, [call[t] EXCEPT !.at = "drop", !.uses = {}])
           ELSE Goto(t, [call[t] EXCEPT !.at = "close"]) /\ UNCHANGED heap
        /\ UNCHANGED <<owners, held, left, stopped>>

DropStream(t) ==
    /\ Does(t, "drop")
    /\ OwnerDrop("rwops", call[t].addr)
    /\ Decoded(t)
    /\ UNCHANGED <<heap, held, left, stopped>>

\* guest_rw_close: owner_drop finds nothing, the stream's own method frees it.
GuestRwClose(t) ==
    /\ Does(t, "close")
    /\ OwnerDrop("rwops", call[t].addr)
    /\ heap' = [heap EXCEPT ![call[t].addr] = "free"]
    /\ Decoded(t)
    /\ UNCHANGED <<held, left, stopped>>

OwnersNext ==
    /\ \E t \in Threads :
        \/ \E c \in AllCalls : Enter(t, c)
        \/ OwnerCheck(t) \/ SdlDoes(t) \/ OwnerRegister(t)
        \/ \E obj \in held : Destroy(t, obj)
        \/ OwnerUnregister(t) \/ SdlDestroys(t)
        \/ \E a \in Addrs : GuestStream(t, a)
        \/ \E a \in Addrs, freesrc \in BOOLEAN : ImgLoad(t, a, freesrc)
        \/ LoadTypedRw(t) \/ DropStream(t) \/ GuestRwClose(t)
    /\ UNCHANGED works

-----------------------------------------------------------------------------
Moving(kind, a) ==
    Cardinality({t \in Threads : /\ call[t].at \in {"register", "destroy"}
                                 /\ call[t].kind = kind /\ call[t].addr = a})

\* The tables say what lives: an object has one entry from its registration to
\* its destruction, and no address has an entry but for that and for a texture
\* that went with its renderer.  (Streams are closed behind the bridge's back.)
\* So a guest that passes only what it was given is never stopped for passing a
\* foreign object, whatever its threads make and free meanwhile.
OwnersAccounted ==
    /\ stopped # "foreign"
    /\ \A kind \in Kinds \ {"rwops"}, a \in Addrs :
           owners[kind][a] + Moving(kind, a) =
               (IF heap[a] = kind THEN 1 ELSE 0) + IF kind = "texture" THEN left[a] ELSE 0
=============================================================================
