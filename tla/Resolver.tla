------------------------------ MODULE Resolver ------------------------------
(***************************************************************************)
(* The symbol resolver (resolver.c) with the table of loaded Mach-O dylibs *)
(* (dylib_loader.c): it opens the libraries that dylib_map.conf names for  *)
(* an image, then fills the image's slots, walking fixup chains or         *)
(* interpreting the LC_DYLD_INFO opcodes.  Slots of a deferred library get *)
(* pools, which the hook on SDL_GL_CreateContext replaces later.           *)
(*                                                                         *)
(* A slot is a pointer of the image's data; the slots of a segment follow  *)
(* each other from its first one, eight bytes apart.                       *)
(***************************************************************************)
EXTENDS Integers, Sequences, FiniteSets, FiniteSetsExt, SequencesExt

CONSTANTS
    Contents,    \* image -> its segments, libraries, imports, chain entries
                 \* and opcode streams
    Exports,     \* library -> the names that a lookup in it finds
    Locals,      \* image -> the further names of its own symbol table
    LookupName,  \* Mach-O symbol -> name without underscore and $ suffix
    Variants,    \* name -> its other manglings
    Ctors,       \* constructors and destructors without stack parameters
    Variadics,   \* variadic functions that have a va_list counterpart
    Hooked,      \* operator new and delete, some of LuaJIT
    Mappings,    \* the possible contents of dylib_map.conf
    Formats,     \* image -> the imports_format of its LC_DYLD_CHAINED_FIXUPS,
                 \* "none" for an image with LC_DYLD_INFO
    Main, Libc,  \* the program; what is loaded from the start
    MaxDylibs, MaxDeferred, MaxSegments, \* sizes of the code's tables
    PoolSize     \* pool of executable memory -> how many entries it has

ASSUME ResolverAssumption ==
    /\ Main \in DOMAIN Contents
    /\ {MaxDylibs, MaxDeferred, MaxSegments} \subseteq Nat
    /\ PoolSize \in [{"stub", "ctor", "thunk"} -> Nat]

VARIABLES
    mapping, chained, strict, \* configuration; one of Formats
    loaded,   \* g_macho_dylibs
    opened,   \* the .so files in global scope, in order
    resolving,\* the image and where in it resolver_resolve_fixups is
    action,   \* what open_dylibs has decided for each of its libraries
    cursor,   \* opcode state: segment, offset, ordinal, symbol, repetitions
    slots,    \* image -> slot -> value
    failed,   \* binds_failed > 0
    pools,    \* entries taken from each pool
    deferred, \* g_deferred
    real      \* g_real_SDL_GL_CreateContext and ..._SetAttribute that are set

resolverVars == <<mapping, chained, strict, loaded, opened, resolving, action,
                  cursor, slots, failed, pools, deferred, real>>

GlHooks == {"SDL_GL_CreateContext", "SDL_GL_SetAttribute"}
Value(kind, lib, name, abi) == [kind |-> kind, lib |-> lib, name |-> name, abi |-> abi]
Simple(kind) == Value(kind, Libc, "", "")
Raw == Simple("raw")
Definition(lib, name) == Value("def", lib, name, "plain")

IsChained(im) == chained[im] # "none"

\* The slots that the image wants filled, and the segment of one.
Slots(im) == DOMAIN Contents[im].wanted
SegmentOf(im, slot) ==
    Max({k \in DOMAIN Contents[im].segments : Contents[im].segments[k].first <= slot})
NoImage == [image |-> Main, pc |-> "idle", pos |-> 0]
Restart == [seg |-> 0, offset |-> 0, ord |-> 0, sym |-> "", weak |-> FALSE, times |-> 0, skip |-> 0]

ResolverInit ==
    /\ mapping \in Mappings
    /\ chained \in Formats
    /\ strict \in BOOLEAN
    /\ loaded = <<>> /\ opened = <<Libc>>
    /\ resolving = NoImage /\ action = <<>> /\ cursor = Restart
    /\ slots = [im \in DOMAIN Contents |-> [s \in Slots(im) |-> Raw]]
    /\ failed = FALSE /\ pools = [p \in DOMAIN PoolSize |-> 0]
    /\ deferred = [active |-> FALSE, resolved |-> FALSE, binds |-> <<>>, dylibs |-> <<>>]
    /\ real = {}

-----------------------------------------------------------------------------
(* Looking a symbol up.                                                    *)

\* dlsym, then try_mangling_variants for the .so of a library.
InLibrary(lib, sym) ==
    LET name == LookupName[sym]
        found == IF name \in Exports[lib] THEN {name} ELSE Variants[name] \cap Exports[lib]
    IN  {Definition(lib, n) : n \in found}

\* dlsym(RTLD_DEFAULT): the first of the opened libraries that has the name.
InGlobal(scope, sym) ==
    LET having == SelectSeq(scope, LAMBDA lib : LookupName[sym] \in Exports[lib])
    IN  IF having = <<>> THEN {} ELSE {Definition(Head(having), LookupName[sym])}

\* lookup_macho_symbol, in the image itself.
InSelf(im, sym) ==
    IF sym \in Exports[im] \cup Locals[im] THEN {Definition(im, sym)} ELSE {}

\* dylib_loader_lookup, in another image; the variants are of the symbol.
InDylib(im, sym) ==
    LET found == IF sym \in Exports[im] THEN {sym} ELSE Variants[sym] \cap Exports[im]
    IN  {Definition(im, n) : n \in found}

First(found) == CHOOSE v \in found : TRUE

\* wrap_ctor_for_apple_abi and create_variadic_thunk: adapters, while the pool
\* has room for one.  The thunk takes the place of the constructor's.
WrapCtor(v, sym, taken) ==
    IF sym \in Ctors /\ taken < PoolSize["ctor"] THEN [v EXCEPT !.abi = "ctor"] ELSE v

CreateThunk(v, sym) ==
    IF LookupName[sym] \in Variadics /\ pools["thunk"] < PoolSize["thunk"]
    THEN [v EXCEPT !.abi = "thunk"] ELSE v

Adapted(v, sym, variadic) ==
    LET w == WrapCtor(v, sym, pools["ctor"])
    IN  IF variadic THEN CreateThunk(w, sym) ELSE w

\* What resolve_import and resolve_bind_by_name return, whether they count a
\* failure, and which GL function they hook.
Answer(value, fails, hook) == [value |-> value, fails |-> fails, hook |-> hook]
Found(v) == Answer(v, FALSE, {})
NotFound(fails) ==
    Answer(IF pools["stub"] < PoolSize["stub"] THEN Simple("stub") ELSE Simple("null"), fails, {})

\* Mutant: any opened library may give the symbol.
ResolveMappedFlat(lib, sym, weak) ==
    LET flat == InGlobal(opened, sym)
    IN  IF flat # {} THEN Found(Adapted(First(flat), sym, TRUE)) ELSE NotFound(~weak)

ResolveMapped(lib, sym, weak) ==
    LET found == InLibrary(lib, sym)
        v == Adapted(First(found), sym, TRUE)
        hooks == deferred.active /\ ~deferred.resolved /\ LookupName[sym] \in GlHooks
    IN  IF found # {}
        THEN IF hooks THEN Answer(Value("hook", lib, LookupName[sym], "plain"), FALSE,
                                  {LookupName[sym]})
             ELSE Found(v)
        ELSE IF InGlobal(opened, sym) # {} THEN Found(First(InGlobal(opened, sym)))
        ELSE NotFound(~weak)

ResolveMacho(lib, sym, weak) ==
    IF InDylib(lib, sym) # {} THEN Found(First(InDylib(lib, sym))) ELSE NotFound(~weak)

\* A library's ordinal: what open_dylibs has decided about the library.
ResolveOrdinal(im, ord, sym, weak) ==
    IF ord \notin 1..Len(action) THEN NotFound(TRUE)
    ELSE LET lib == Contents[im].libs[ord]
         IN  CASE action[ord] = "MAP" -> ResolveMapped(lib, sym, weak)
               [] action[ord] = "MACHO" -> ResolveMacho(lib, sym, weak)
               [] action[ord] = "SKIP" -> NotFound(~weak)
               [] action[ord] \in {"STUB", "DEFERRED"} -> NotFound(FALSE)

\* An import of a fixup chain; -1, -2 and -3 are the main executable, the flat
\* and the weak name space.
ResolveImport(im, ord, sym, weak) ==
    LET self == InSelf(im, sym)
        flat == InGlobal(opened, sym)
    IN  CASE ord = -1 -> IF self # {} THEN Found(First(self)) ELSE NotFound(TRUE)
          [] ord = -2 -> IF flat # {} THEN Found(Adapted(First(flat), sym, TRUE))
                         ELSE NotFound(~weak)
          [] ord = -3 -> IF self # {} THEN Found(First(self))
                         ELSE IF flat # {} THEN Found(Adapted(First(flat), sym, TRUE))
                         ELSE Found(Simple("weak_slot"))
          [] OTHER -> ResolveOrdinal(im, ord, sym, weak)

\* The same by name, for the opcode streams: here 0 is the image itself, which
\* falls back to the flat name space, and a weak symbol gets no slot.
ResolveByName(im, ord, sym, weak) ==
    LET self == InSelf(im, sym)
        flat == InGlobal(opened, sym)
    IN  CASE ord \in {0, -1} -> IF self # {} THEN Found(First(self))
                                ELSE IF flat # {} THEN Found(First(flat)) ELSE NotFound(~weak)
          [] ord = -2 -> IF flat # {} THEN Found(Adapted(First(flat), sym, TRUE))
                         ELSE NotFound(~weak)
          [] ord = -3 -> IF self # {} THEN Found(First(self))
                         ELSE IF flat # {} THEN Found(Adapted(First(flat), sym, FALSE))
                         ELSE NotFound(FALSE)
          [] OTHER -> ResolveOrdinal(im, ord, sym, weak)

Resolve(im, ord, sym, weak) ==
    IF sym \in Hooked THEN Found(Value("hook", Libc, sym, "plain"))
    ELSE IF IsChained(im) THEN ResolveImport(im, ord, sym, weak)
    ELSE ResolveByName(im, ord, sym, weak)

-----------------------------------------------------------------------------
(* resolver_resolve_fixups: open the libraries, then bind.                 *)
Begin(im) ==
    /\ resolving.pc = "idle"
    /\ resolving' = [image |-> im, pc |-> "open", pos |-> 0]
    /\ action' = <<>> /\ failed' = FALSE
    /\ UNCHANGED <<mapping, chained, strict, loaded, opened, cursor, slots, pools,
                   deferred, real>>

Opening == resolving.pc = "open" /\ Len(action) < Len(Contents[resolving.image].libs)
NextLib == Contents[resolving.image].libs[Len(action) + 1]

Opened(result) ==
    /\ action' = Append(action, result)
    /\ UNCHANGED <<mapping, chained, strict, resolving, cursor, slots, failed, pools, real>>

\* No mapping, STUB and SKIP decide at once; DEFERRED is noted.
OpenNothing ==
    /\ Opening /\ mapping[NextLib] \in {"STUB", "SKIP", "DEFERRED"}
    /\ deferred' = [deferred EXCEPT !.active = @ \/ mapping[NextLib] = "DEFERRED"]
    /\ Opened(mapping[NextLib])
    /\ UNCHANGED <<loaded, opened>>

\* dlopen, global, which may fail.
OpenNative(ok) ==
    /\ Opening /\ mapping[NextLib] = "MAP"
    /\ opened' = IF ok /\ ~Contains(opened, NextLib) THEN Append(opened, NextLib) ELSE opened
    /\ Opened(IF ok THEN "MAP" ELSE "SKIP")
    /\ UNCHANGED <<loaded, deferred>>

\* dylib_loader_find, else dylib_loader_load, which may fail.
OpenMacho(ok) ==
    /\ Opening /\ mapping[NextLib] = "MACHO"
    /\ LET known == Contains(loaded, NextLib)
           loads == ~known /\ ok /\ Len(loaded) < MaxDylibs
       IN  /\ loaded' = IF loads THEN Append(loaded, NextLib) ELSE loaded
           /\ Opened(IF known \/ loads THEN "MACHO" ELSE "SKIP")
    /\ UNCHANGED <<opened, deferred>>

StartFixups ==
    /\ resolving.pc = "open" /\ ~Opening
    /\ resolving' = [resolving EXCEPT
                        !.pc = IF IsChained(resolving.image) THEN "chain" ELSE "rebase",
                        !.pos = 1]
    /\ cursor' = Restart
    /\ UNCHANGED <<mapping, chained, strict, loaded, opened, action, slots, failed, pools,
                   deferred, real>>

\* The slot gets its value; the pointer is slid by rs->slide.
Store(im, slot, v) == slots' = [slots EXCEPT ![im][slot] = v]
Take(v) == pools' = [p \in DOMAIN pools |-> IF p \in {v.kind, v.abi} THEN pools[p] + 1 ELSE pools[p]]

Bind(im, slot, answer) ==
    /\ Store(im, slot, answer.value)
    /\ failed' = (failed \/ answer.fails)
    /\ Take(answer.value)
    /\ real' = real \cup answer.hook

Slid(im, v) ==
    IF v = Raw THEN Value("pointer", im, "", "slid") ELSE Value("pointer", im, "", "slid again")

\* The imports that resolve_import can read: those that the header counts, of
\* a format that it knows.  Another one is a null pointer and no failure.
KnownImports == {"IMPORT", "IMPORT_ADDEND", "IMPORT_ADDEND64"}
Legible(im, n) == n <= Contents[im].imports_count /\ chained[im] \in KnownImports

ImportOf(im, n) ==
    IF Legible(im, n)
    THEN LET i == Contents[im].imports[n] IN Resolve(im, i.ord, i.sym, i.weak)
    ELSE Found(Simple("null"))

\* process_chained_fixups walks the chains of the segments whose pointers have
\* a format that it knows, and passes over the others.
KnownPointers == {"PTR_64", "PTR_64_OFFSET"}
InKnownFormat(im, slot) == Contents[im].segments[SegmentOf(im, slot)].format \in KnownPointers

\* walk_chain: one entry of a page's chain, a bind or a rebase.
WalkChain ==
    LET im == resolving.image
        chain == Contents[im].chain
        e == chain[resolving.pos]
    IN  /\ resolving.pc = "chain" /\ resolving.pos <= Len(chain)
        /\ \/ ~InKnownFormat(im, e.slot) /\ UNCHANGED <<slots, failed, pools, real>>
           \/ /\ InKnownFormat(im, e.slot) /\ e.op = "rebase"
              /\ Store(im, e.slot, Slid(im, slots[im][e.slot]))
              /\ UNCHANGED <<failed, pools, real>>
           \/ InKnownFormat(im, e.slot) /\ e.op = "bind" /\ Bind(im, e.slot, ImportOf(im, e.import))
        /\ resolving' = [resolving EXCEPT !.pos = @ + 1]
        /\ UNCHANGED <<mapping, chained, strict, loaded, opened, action, cursor, deferred>>

\* process_dyld_info: the streams, and one opcode of one of them.
Streams == <<"rebase", "bind", "weak_bind", "lazy_bind">>
InStream == \E k \in DOMAIN Streams : resolving.pc = Streams[k]
Stream == Contents[resolving.image].streams[resolving.pc]

\* How often an opcode rebases or binds, and what it then adds to the offset.
Repetition(o) ==
    CASE o.op = "DO_BIND" -> <<1, 0>>
      [] o.op = "DO_BIND_ADD_ADDR_ULEB" -> <<1, o.uleb>>
      [] o.op = "DO_BIND_ADD_ADDR_IMM_SCALED" -> <<1, o.imm>>
      [] o.op = "DO_BIND_ULEB_TIMES_SKIPPING_ULEB" -> <<o.imm, o.uleb>>
      [] o.op = "DO_REBASE_TIMES" -> <<o.imm, 0>>
      [] o.op = "DO_REBASE_ADD_ADDR_ULEB" -> <<1, o.uleb>>
      [] o.op = "DO_REBASE_ULEB_TIMES_SKIPPING_ULEB" -> <<o.imm, o.uleb>>
      [] OTHER -> <<0, 0>>

Advanced(o) ==
    CASE o.op = "SET_SEGMENT_AND_OFFSET_ULEB" ->
           [cursor EXCEPT !.seg = o.imm, !.offset = o.uleb]
      [] o.op = "ADD_ADDR_ULEB" -> [cursor EXCEPT !.offset = @ + o.uleb]
      [] o.op = "ADD_ADDR_IMM_SCALED" -> [cursor EXCEPT !.offset = @ + o.imm]
      [] o.op = "SET_DYLIB_ORDINAL" -> [cursor EXCEPT !.ord = o.imm]
      [] o.op = "SET_SYMBOL_TRAILING_FLAGS_IMM" ->
           [cursor EXCEPT !.sym = o.sym, !.weak = o.imm = 1]
      [] OTHER -> [cursor EXCEPT !.times = Repetition(o)[1], !.skip = Repetition(o)[2]]

\* DONE separates the entries of the lazy stream and ends the others.
Ends(o) == o.op = "DONE" /\ resolving.pc # "lazy_bind"

Interpret ==
    /\ InStream /\ cursor.times = 0 /\ resolving.pos <= Len(Stream)
    /\ LET o == Stream[resolving.pos]
       IN  /\ cursor' = Advanced(o)
           /\ resolving' = IF o.op = "unknown" THEN [resolving EXCEPT !.pc = "error"]
                           ELSE [resolving EXCEPT
                                   !.pos = IF Ends(o) THEN Len(Stream) + 1 ELSE @ + 1]
    /\ UNCHANGED <<mapping, chained, strict, loaded, opened, action, slots, failed, pools,
                   deferred, real>>

\* do_bind_one: the binds of a deferred library are recorded, while there is
\* room, and get a stub.
IsDeferred(ord) == ord \in DOMAIN action /\ action[ord] = "DEFERRED"

Record(im, slot) ==
    [deferred EXCEPT !.binds =
        IF Len(@) < MaxDeferred
        THEN Append(@, [image |-> im, slot |-> slot, sym |-> cursor.sym, ord |-> cursor.ord])
        ELSE @]

\* The segments that parse_load_commands has kept.
Kept(im) == Min({Len(Contents[im].segments), MaxSegments})

\* One rebase or bind.  Behind the kept segments nothing is written, and the
\* offset moves on.
DoOne ==
    LET im == resolving.image
        slot == Contents[im].segments[cursor.seg + 1].first + cursor.offset
    IN  /\ InStream /\ cursor.times > 0
        /\ IF cursor.seg >= Kept(im) THEN UNCHANGED <<slots, failed, pools, real, deferred>>
           ELSE IF resolving.pc = "rebase"
           THEN Store(im, slot, Slid(im, slots[im][slot])) /\ UNCHANGED <<failed, pools, real, deferred>>
           ELSE IF IsDeferred(cursor.ord)
           THEN /\ deferred' = Record(im, slot)
                /\ Store(im, slot, NotFound(FALSE).value) /\ Take(NotFound(FALSE).value)
                /\ UNCHANGED <<failed, real>>
           ELSE /\ Bind(im, slot, Resolve(im, cursor.ord, cursor.sym, cursor.weak))
                /\ UNCHANGED deferred
        /\ cursor' = [cursor EXCEPT !.times = @ - 1, !.offset = @ + cursor.skip + 1]
        /\ UNCHANGED <<mapping, chained, strict, loaded, opened, resolving, action>>

NextStream ==
    /\ InStream /\ cursor.times = 0 /\ resolving.pos > Len(Stream)
    /\ LET k == CHOOSE n \in DOMAIN Streams : Streams[n] = resolving.pc
       IN  resolving' = [resolving EXCEPT
                           !.pc = IF k < Len(Streams) THEN Streams[k + 1] ELSE "finish",
                           !.pos = 1]
    /\ cursor' = Restart
    /\ UNCHANGED <<mapping, chained, strict, loaded, opened, action, slots, failed, pools,
                   deferred, real>>

\* The end of resolver_resolve_fixups: the decisions about this image's
\* libraries are kept for the deferred binds; strict mode refuses failures.
Saved ==
    IF deferred.active /\ ~deferred.resolved
    THEN [deferred EXCEPT !.dylibs =
            [k \in DOMAIN action |->
                [lib |-> Contents[resolving.image].libs[k], action |-> action[k]]]]
    ELSE deferred

Finish ==
    /\ \/ resolving.pc = "finish"
       \/ resolving.pc = "chain" /\ resolving.pos > Len(Contents[resolving.image].chain)
    /\ deferred' = Saved
    /\ resolving' = [resolving EXCEPT !.pc = IF failed /\ strict THEN "error" ELSE "done"]
    /\ UNCHANGED <<mapping, chained, strict, loaded, opened, action, cursor, slots, failed,
                   pools, real>>

ResolverStep ==
    \/ OpenNothing \/ \E ok \in BOOLEAN : OpenNative(ok) \/ OpenMacho(ok)
    \/ StartFixups \/ WalkChain \/ Interpret \/ DoOne \/ NextStream \/ Finish

-----------------------------------------------------------------------------
(* resolver_complete_deferred, from the guest's SDL_GL_CreateContext.      *)

\* A kept decision has a handle if its library was opened then or now.
Handle(ord, opening) ==
    /\ ord \in DOMAIN deferred.dylibs
    /\ \/ deferred.dylibs[ord].action = "MAP"
       \/ deferred.dylibs[ord].action = "DEFERRED" /\ deferred.dylibs[ord].lib \in opening

Completed(b, opening, scope) ==
    IF ~Handle(b.ord, opening) THEN {}
    ELSE LET lib == deferred.dylibs[b.ord].lib
             found == InLibrary(lib, b.sym)
         IN  IF found # {} THEN found ELSE InGlobal(scope, b.sym)

\* The recorded binds of a slot whose symbol is found now.
Hits(im, slot, opening, scope) ==
    {k \in DOMAIN deferred.binds :
        /\ deferred.binds[k].image = im /\ deferred.binds[k].slot = slot
        /\ Completed(deferred.binds[k], opening, scope) # {}}

\* The recorded binds that get a constructor's adapter, up to the k-th.
Wrapped(k, opening, scope) ==
    {j \in 1..k : /\ deferred.binds[j].sym \in Ctors
                  /\ Completed(deferred.binds[j], opening, scope) # {}}

\* opening: the deferred libraries that dlopen gets.
CompleteDeferred(opening) ==
    LET scope == opened \o SetToSeq(opening)
    IN  /\ ~deferred.resolved
        /\ deferred' = [deferred EXCEPT !.resolved = TRUE]
        /\ opened' = scope
        /\ slots' = [im \in DOMAIN slots |-> [s \in DOMAIN slots[im] |->
             LET hits == Hits(im, s, opening, scope)
                 k == Max(hits)
                 b == deferred.binds[k]
             IN  IF hits = {} THEN slots[im][s]
                 ELSE WrapCtor(First(Completed(b, opening, scope)), b.sym,
                               pools["ctor"] + Cardinality(Wrapped(k - 1, opening, scope)))]]
        /\ pools' = [pools EXCEPT !["ctor"] =
                       Min({PoolSize["ctor"],
                            @ + Cardinality(Wrapped(Len(deferred.binds), opening, scope))})]
        /\ UNCHANGED <<mapping, chained, strict, loaded, resolving, action, cursor, failed, real>>
=============================================================================
