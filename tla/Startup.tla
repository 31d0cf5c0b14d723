------------------------------ MODULE Startup -------------------------------
(***************************************************************************)
(* machismo.c: the steps of main from loading the program to calling its   *)
(* entry point, for the program and the Mach-O dylibs that its resolution  *)
(* loads.  The resolver's steps are those of module Resolver.              *)
(***************************************************************************)
EXTENDS Resolver

VARIABLES
    phase,   \* the step of main that is next
    index,   \* the loop over g_macho_dylibs: dylibs already dealt with
    audit,   \* cfg.audit_only
    dylib_map, \* cfg.dylib_map is set; without it nothing is resolved
    isa,     \* image -> which of its newer instructions have been replaced
    fixed,   \* image -> the pthread signatures whose objects were rewritten
    ready,   \* what has been set up for the whole process
    ran      \* images of which guest code has run

startupVars == <<phase, index, audit, dylib_map, isa, fixed, ready, ran, resolverVars>>
ownVars == <<audit, dylib_map, isa, fixed, ready, ran>>

StartupInit ==
    /\ ResolverInit
    /\ phase = "load" /\ index = 0 /\ audit \in BOOLEAN /\ dylib_map \in BOOLEAN
    /\ isa = [im \in DOMAIN Contents |-> {}] /\ fixed = [im \in DOMAIN Contents |-> {}]
    /\ ready = {} /\ ran = {}

Goto(next) == phase' = next /\ index' = 0
Stop == phase' = "exit" /\ UNCHANGED index
EachDylib == index < Len(loaded)
Dylib == loaded[index + 1]
NextDylib == UNCHANGED phase /\ index' = index + 1

\* load, load_fat and load64 exit if the file is not what they expect.
Load ==
    /\ phase = "load"
    /\ Goto("isa_main") \/ Stop
    /\ UNCHANGED <<ownVars, resolverVars>>

\* Mutant: the first island that is too far ends the replacement.
ReplacedUpToFar(im) ==
    LET newer == Contents[im].newer
        Near(k) == {j \in 1..k : newer[j] = "near"}
    IN  {k \in DOMAIN newer : /\ \A j \in 1..k : newer[j] # "far"
                              /\ Cardinality(Near(k)) <= Contents[im].islands}

\* Which of the image's newer instructions are replaced: LDAPR in its place; an
\* LSE instruction by a branch to an island, unless the island is too far for
\* it, and until the pool is full (a pool that is missing has no room at all).
Replaced(im) ==
    LET newer == Contents[im].newer
        Near(k) == {j \in 1..k : newer[j] = "near"}
    IN  {k \in DOMAIN newer :
           \/ newer[k] = "ldapr"
           \/ newer[k] = "near" /\ Cardinality(Near(k)) <= Contents[im].islands}

\* The program's LDAPR and LSE instructions, before anything can run.
IsaMain ==
    /\ phase = "isa_main" /\ Goto("resolve_main")
    /\ isa' = [isa EXCEPT ![Main] = Replaced(Main)]
    /\ UNCHANGED <<audit, dylib_map, fixed, ready, ran, resolverVars>>

ResolveMain ==
    /\ phase = "resolve_main" /\ dylib_map /\ Begin(Main)
    /\ UNCHANGED <<phase, index, ownVars>>

\* Without a dylib_map the program is not resolved, and there are no dylibs.
SkipResolution ==
    /\ phase = "resolve_main" /\ ~dylib_map
    /\ Goto(IF audit THEN "exit" ELSE "prepare")
    /\ UNCHANGED <<ownVars, resolverVars>>

\* The loop's bound is read again each time: resolving a dylib may load more.
ResolveDylib ==
    /\ phase = "resolve_dylibs" /\ EachDylib /\ Begin(Dylib)
    /\ UNCHANGED <<phase, index, ownVars>>

Resolving ==
    /\ phase \in {"resolve_main", "resolve_dylibs"} /\ ResolverStep
    /\ UNCHANGED <<phase, index, ownVars>>

\* The call returns: go on with the next image, or give up.
Resolved ==
    /\ phase \in {"resolve_main", "resolve_dylibs"}
    /\ \/ resolving.pc = "error" /\ Stop
       \/ resolving.pc = "done" /\ phase = "resolve_main" /\ Goto("resolve_dylibs")
       \/ resolving.pc = "done" /\ phase = "resolve_dylibs" /\ NextDylib
    /\ resolving' = NoImage
    /\ UNCHANGED <<mapping, chained, strict, loaded, opened, action, cursor, slots, failed,
                   pools, deferred, real, ownVars>>

\* The end of each of the loops over the dylibs.
AfterLoop(loop) ==
    CASE loop = "resolve_dylibs" -> "pthread_dylibs"
      [] loop = "pthread_dylibs" -> "isa_dylibs"
      [] loop = "isa_dylibs" -> IF audit THEN "exit" ELSE "init_dylibs"
      [] loop = "init_dylibs" -> "prepare"

LoopEnds ==
    /\ phase \in {"resolve_dylibs", "pthread_dylibs", "isa_dylibs", "init_dylibs"}
    /\ resolving.pc = "idle" /\ ~EachDylib
    /\ Goto(AfterLoop(phase))
    /\ UNCHANGED <<ownVars, resolverVars>>

\* In a dylib only the objects with the signature of a plain mutex are
\* rewritten; the others are left to the shim, which does it at their first use.
PthreadDylib ==
    /\ phase = "pthread_dylibs" /\ EachDylib /\ NextDylib
    /\ fixed' = [fixed EXCEPT ![Dylib] = {"MUTEX"}]
    /\ UNCHANGED <<audit, dylib_map, isa, ready, ran, resolverVars>>

IsaDylib ==
    /\ phase = "isa_dylibs" /\ EachDylib /\ NextDylib
    /\ isa' = [isa EXCEPT ![Dylib] = Replaced(Dylib)]
    /\ UNCHANGED <<audit, dylib_map, fixed, ready, ran, resolverVars>>

\* dylib_loader_run_inits, in the order of loading.
InitDylib ==
    /\ phase = "init_dylibs" /\ EachDylib /\ NextDylib
    /\ ran' = ran \cup {Dylib}
    /\ UNCHANGED <<audit, dylib_map, isa, fixed, ready, resolverVars>>

\* fixup_darwin_pthread_data: the program's objects of Darwin's layout, with any
\* of the signatures.
Signatures == {"MUTEX", "RMUTEX", "RECURSIVE_MUTEX", "FIRSTFIT_MUTEX", "COND", "RWLOCK", "ONCE"}

FixupMain ==
    /\ phase = "prepare" /\ Goto("tlv")
    /\ fixed' = [fixed EXCEPT ![Main] = Signatures]
    /\ UNCHANGED <<audit, dylib_map, isa, ready, ran, resolverVars>>

\* setup_tlv_image: the template of the thread-local variables.
SetupTlv ==
    /\ phase = "tlv" /\ Goto("eh_frame")
    /\ ready' = ready \cup {"tlv"}
    /\ UNCHANGED <<audit, dylib_map, isa, fixed, ran, resolverVars>>

\* The rest of main: what each step sets up, and whether it can refuse.
Rest == <<"eh_frame", "trampolines", "guard", "gdb", "heaptrack", "patches", "entry",
          "prepare_hook", "stack", "crash_handler">>
MayRefuse == {"trampolines", "patches", "entry", "prepare_hook"}

SetUp(k) ==
    /\ phase = Rest[k]
    /\ \/ /\ Goto(IF k < Len(Rest) THEN Rest[k + 1] ELSE "init_main")
          /\ ready' = ready \cup {Rest[k]}
       \/ Rest[k] \in MayRefuse /\ Stop /\ UNCHANGED ready
    /\ UNCHANGED <<audit, dylib_map, isa, fixed, ran, resolverVars>>

\* start_thread: the program's initialisers, then its entry point.
InitMain ==
    /\ phase = "init_main" /\ Goto("main")
    /\ ran' = ran \cup {Main}
    /\ UNCHANGED <<audit, dylib_map, isa, fixed, ready, resolverVars>>

\* The guest creates a GL context through a slot that has the hook.
CreateContext ==
    /\ phase = "main" /\ "SDL_GL_CreateContext" \in real
    /\ \E im \in DOMAIN slots : \E s \in DOMAIN slots[im] :
          slots[im][s].kind = "hook" /\ slots[im][s].name = "SDL_GL_CreateContext"
    /\ \E opening \in SUBSET {d.lib : d \in {e \in ToSet(deferred.dylibs) : e.action = "DEFERRED"}} :
          CompleteDeferred(opening)
    /\ UNCHANGED <<phase, index, ownVars>>

StartupNext ==
    \/ Load \/ IsaMain \/ ResolveMain \/ SkipResolution \/ ResolveDylib \/ Resolving \/ Resolved
    \/ LoopEnds \/ PthreadDylib \/ IsaDylib \/ InitDylib \/ FixupMain \/ SetupTlv
    \/ \E k \in DOMAIN Rest : SetUp(k)
    \/ InitMain \/ CreateContext

StartupSpec == StartupInit /\ [][StartupNext]_startupVars

-----------------------------------------------------------------------------
\* The images that an image's slots lead to, itself included.
LeadsTo(im) == {im} \cup ({slots[im][s].lib : s \in DOMAIN slots[im]} \cap DOMAIN Contents)

\* A slot that the resolver gets to: in a chain whose pointer format it knows,
\* or in one of the segments that it has kept.
Reached(im, s) == IF IsChained(im) THEN InKnownFormat(im, s) ELSE SegmentOf(im, s) <= Kept(im)

ReadyToRun(im) ==
    /\ dylib_map => \A s \in DOMAIN slots[im] : Reached(im, s) => slots[im][s] # Raw
    /\ \A k \in DOMAIN Contents[im].newer \ isa[im] :
          \/ Contents[im].newer[k] = "far"
          \/ /\ Contents[im].newer[k] = "near"
             /\ Cardinality({j \in isa[im] : Contents[im].newer[j] = "near"}) = Contents[im].islands
    /\ (IF im = Main THEN Signatures ELSE {"MUTEX"}) \subseteq fixed[im]

\* When code of an image runs for the first time, that image and every image it
\* is bound to have been resolved as far as the resolver can read them, unless
\* there is no dylib_map; have had their instructions replaced, those in reach
\* of an island while the pool had room; and have had their plain mutexes
\* rewritten, the program all its pthread objects.  However deep the dylibs
\* load each other.
ReadyBeforeRun == \A im \in ran : \A d \in LeadsTo(im) : ReadyToRun(d)

\* After resolver_resolve_fixups a pointer has been slid once; a symbol that its
\* own library has comes from that library, although others may have it too,
\* with the adapter that its calling convention needs; nothing is left out but
\* the slots that the resolver does not get to, which are as they were, and the
\* imports of a chain that it cannot read, which are null.
AbiOf(lib, sym) ==
    IF lib \in DOMAIN Contents THEN "plain"
    ELSE IF LookupName[sym] \in Variadics THEN "thunk"
    ELSE IF sym \in Ctors THEN "ctor" ELSE "plain"

Exhausted(abi) == abi # "plain" /\ pools[abi] = PoolSize[abi]

Fetched(im, s) ==
    IsChained(im) => \A e \in ToSet(Contents[im].chain) :
                        e.slot = s /\ e.op = "bind" => Legible(im, e.import)

LinkedTo(w, v) ==
    IF w.op = "rebase" THEN v.kind = "pointer" /\ v.abi = "slid"
    ELSE /\ v # Raw
         /\ w.ord \in DOMAIN action /\ w.sym \notin Hooked =>
              LET lib == Contents[resolving.image].libs[w.ord]
                  name == IF lib \in DOMAIN Contents THEN w.sym ELSE LookupName[w.sym]
              IN  action[w.ord] \in {"MAP", "MACHO"} /\ name \in Exports[lib] =>
                    /\ v.lib = lib /\ v.name = name
                    /\ v.kind = "def" => (v.abi = AbiOf(lib, w.sym) \/ Exhausted(AbiOf(lib, w.sym)))

SlotAsLinked(im, s) ==
    IF ~Reached(im, s) THEN slots[im][s] = Raw
    ELSE IF ~Fetched(im, s) THEN slots[im][s] = Simple("null")
    ELSE LinkedTo(Contents[im].wanted[s], slots[im][s])

SlotsAsLinked ==
    resolving.pc = "done" =>
        \A s \in Slots(resolving.image) : SlotAsLinked(resolving.image, s)

\* A slot of a deferred library that has been opened and has the symbol.
Completable(im, s) ==
    LET w == Contents[im].wanted[s]
    IN  /\ w.op = "bind" /\ w.ord \in DOMAIN Contents[im].libs
        /\ mapping[Contents[im].libs[w.ord]] = "DEFERRED"
        /\ Contains(opened, Contents[im].libs[w.ord])
        /\ LookupName[w.sym] \in Exports[Contents[im].libs[w.ord]]

IsComplete(im, s) ==
    slots[im][s].kind = "def" /\ slots[im][s].lib = Contents[im].libs[Contents[im].wanted[s].ord]

\* Once the GL context exists, a program without Mach-O dylibs and with opcode
\* streams has every slot of an opened deferred library that is reached bound to
\* that library, whatever the other streams stored there before.  Not a program
\* with fixup chains: walk_chain gives their deferred binds to resolve_import,
\* which answers with a stub and records nothing, so they stay as they are.
DeferredComplete ==
    deferred.resolved /\ loaded = <<>> /\ ~IsChained(Main)
        /\ Len(deferred.binds) < MaxDeferred =>
        \A s \in Slots(Main) : Reached(Main, s) /\ Completable(Main, s) => IsComplete(Main, s)

\* A slot holds what the image was linked against, when its image has been
\* resolved and, for a deferred library, when the GL context exists.
SlotsBound == SlotsAsLinked /\ DeferredComplete

\* "we dlopen the deferred library and re-resolve all recorded binds with real
\* symbols" (resolver.c 408): also when dylibs have been resolved in between.
RecordedBindsResolved ==
    deferred.resolved =>
        \A k \in DOMAIN deferred.binds :
            LET b == deferred.binds[k]
            IN  Completable(b.image, b.slot) => IsComplete(b.image, b.slot)
=============================================================================
