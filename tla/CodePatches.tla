----------------------------- MODULE CodePatches ----------------------------
(***************************************************************************)
(* Rewriting the program's code before it runs: trampolines to native code *)
(* (trampoline.c), in the order in which machismo.c applies the address    *)
(* hooks and the configured sections, the guard of stale data pages, the   *)
(* patch file (patcher.c), and the validation of the entry point.          *)
(***************************************************************************)
EXTENDS Integers, Sequences, FiniteSets, FiniteSetsExt, SequencesExt

CONSTANTS
    Text,        \* address -> the instruction found there at first
    Starts,      \* LC_FUNCTION_STARTS
    TextEnd,     \* the end of the section with instructions
    Symbols,     \* the symbol table in order: [name, at, global]
    HookFiles,   \* the possible address hook files: sequences of
                 \* [at, expected, found, target]; <<>> if there is none
    Configs,     \* the possible sections: sequences of
                 \* [override, locals, lib, prefix, natives, wrapped]
    PatchFiles,  \* the possible patch files: sequences of lines
                 \* [kind, label, loc, target, expect]; <<>> if there is none
    Entries,     \* the possible entry overrides: [at, expected]; 0 is none
    Islands,     \* how many islands the pool has room for
    InRange(_, _), \* whether a branch from an address reaches an island
    BranchReaches(_, _), \* and whether it reaches another address of the code
    DataSymbols, \* symbols of the data segment: [name, page, pages]
    Library,     \* the names with a prefix of a section that is not STUB
    DataPages, MaxGuarded

ASSUME PatchAssumption == Islands \in Nat

VARIABLES
    code,     \* address -> instruction
    islands,  \* the islands allocated, each with where it leads
    shared,   \* the stub and the abort caller, once allocated: [stub, abort]
    stage,    \* where machismo.c is, and the position in a table there
    hooks, config, patches, entry, \* the configuration
    meant,    \* address -> where its branch was meant to lead, last writer
    labels,   \* the patch file's labels that are resolved
    guarded,  \* data pages without access
    before    \* code and pool when the current file was opened

patchVars == <<code, islands, shared, stage, hooks, config, patches, entry, meant, labels,
               guarded, before>>
settings == <<hooks, config, patches, entry>>

Word(op, arg) == [op |-> op, arg |-> arg]
NoShared == [stub |-> 0, abort |-> 0]
At(what, pos, sym) == [what |-> what, pos |-> pos, sym |-> sym]
Snapshot == [code |-> code, islands |-> islands]

PatchInit ==
    /\ code = [a \in DOMAIN Text |-> Word("original", Text[a])]
    /\ islands = <<>> /\ shared = NoShared /\ stage = At("hooks", 1, 1)
    /\ hooks \in HookFiles /\ config \in Configs /\ patches \in PatchFiles
    /\ entry \in Entries
    /\ meant = <<>> /\ labels = <<>> /\ guarded = {}
    /\ before = [code |-> code, islands |-> <<>>]

-----------------------------------------------------------------------------
(* Functions and islands.                                                  *)

\* executable_function_end: the next start, or the end of the section.
FunctionEnd(at) == Min({a \in Starts : a > at} \cup {TextEnd})

Matches(at, expected) ==
    \A k \in DOMAIN expected : code[at + k - 1] = Word("original", expected[k])

\* trampoline_validate_function and the same checks of an address hook.
Validates(at, expected) ==
    /\ at \in Starts /\ at < TextEnd
    /\ Len(expected) <= FunctionEnd(at) - at
    /\ Matches(at, expected)

\* alloc_island and write_trampoline: an island out of reach stays allocated.
\* goal is where the branch leads in the end.
CanWrite(at, pool) == Len(pool) < Islands /\ InRange(at, Len(pool) + 1)
Write(at, target, goal, pool) ==
    /\ islands' = IF Len(pool) < Islands THEN Append(pool, target) ELSE pool
    /\ IF CanWrite(at, pool)
       THEN /\ code' = [code EXCEPT ![at] = Word("branch", Len(pool) + 1)]
            /\ meant' = [a \in DOMAIN meant \cup {at} |-> IF a = at THEN goal ELSE meant[a]]
       ELSE UNCHANGED <<code, meant>>
WriteTo(at, target) == Write(at, target, target, islands)

-----------------------------------------------------------------------------
(* trampoline_patch_addresses: check everything, then write everything.    *)
HookRefused(k) ==
    \/ \E j \in 1..(k - 1) : hooks[j].at = hooks[k].at
    \/ ~Validates(hooks[k].at, hooks[k].expected)
    \/ ~hooks[k].found

HooksFit == Len(hooks) <= Islands - Len(islands)
HooksReach == \A k \in DOMAIN hooks : InRange(hooks[k].at, Len(islands) + k)

\* machismo.c gives up: 1 for the hooks, 2 for the patch file, 3 while it is
\* written, 4 for the entry point.
Fail(why) == stage' = At("refused", why, 0)

AddressHooks ==
    /\ stage.what = "hooks" /\ stage.pos = 1
    /\ before' = Snapshot
    /\ IF hooks = <<>> THEN stage' = At("section", 1, 1)
       ELSE IF (\E k \in DOMAIN hooks : HookRefused(k)) \/ ~HooksFit \/ ~HooksReach THEN Fail(1)
       ELSE stage' = At("hooking", 1, 1) \/ Fail(1) \* the text may stay read-only
    /\ UNCHANGED <<code, islands, shared, settings, meant, labels, guarded>>

\* The written hooks and the pool are put back.  The checks before make sure
\* that no write fails, so this is a second line of defence.
RollBack ==
    /\ code' = before.code /\ islands' = before.islands /\ meant' = <<>> /\ Fail(1)

WriteHook ==
    /\ stage.what = "hooking" /\ stage.pos <= Len(hooks)
    /\ IF CanWrite(hooks[stage.pos].at, islands)
       THEN /\ WriteTo(hooks[stage.pos].at, Word("hook", hooks[stage.pos].target))
            /\ stage' = [stage EXCEPT !.pos = @ + 1]
       ELSE RollBack
    /\ UNCHANGED <<shared, settings, labels, guarded, before>>

HooksDone ==
    /\ stage.what = "hooking" /\ stage.pos > Len(hooks)
    /\ stage' = At("section", 1, 1)
    /\ UNCHANGED <<code, islands, shared, settings, meant, labels, guarded, before>>

-----------------------------------------------------------------------------
(* The sections: an override library's symbols, then a native library's.   *)
Section == config[stage.pos]
Sym == Symbols[stage.sym]
MoreSymbols == stage.sym <= Len(Symbols)
NextSymbol == stage' = [stage EXCEPT !.sym = @ + 1]

NextSection ==
    /\ \/ /\ stage.what = "section" /\ stage.pos <= Len(config)
          /\ stage' = At("override", stage.pos, 1)
       \/ /\ stage.what = "override" /\ ~MoreSymbols
          /\ stage' = IF Section.lib = "none" \/ Section.prefix = {}
                      THEN At("section", stage.pos + 1, 1) ELSE At("lib", stage.pos, 1)
       \/ stage.what = "lib" /\ ~MoreSymbols /\ stage' = At("section", stage.pos + 1, 1)
       \/ stage.what = "section" /\ stage.pos > Len(config) /\ stage' = At("guard", 1, 1)
    /\ UNCHANGED <<code, islands, shared, settings, meant, labels, guarded, before>>

\* trampoline_patch_overrides, one symbol: exact names of an override library.
PatchOverride ==
    /\ stage.what = "override" /\ MoreSymbols /\ NextSymbol
    /\ IF Sym.name \in Section.override /\ (Section.locals \/ Sym.global) /\ Sym.at \in DOMAIN Text
       THEN WriteTo(Sym.at, Word("override", Sym.name))
       ELSE UNCHANGED <<code, islands, meant>>
    /\ UNCHANGED <<shared, settings, labels, guarded, before>>

\* Mutant: the shared island is filled but stays free.
OnceUncounted(which, pool) ==
    IF shared[which] # 0 \/ Len(pool) >= Islands THEN [pool |-> pool, at |-> shared[which]]
    ELSE [pool |-> pool, at |-> Len(pool) + 1]

\* An island that is allocated once: the stub, the abort caller.
Once(which, pool) ==
    IF shared[which] # 0 \/ Len(pool) >= Islands THEN [pool |-> pool, at |-> shared[which]]
    ELSE [pool |-> Append(pool, Word(which, "")), at |-> Len(pool) + 1]

\* make_abort_island: the caller, then an island of the symbol's own.
Trapped ==
    LET caller == Once("abort", islands)
    IN  IF caller.at = 0 \/ Len(caller.pool) >= Islands
        THEN /\ islands' = caller.pool /\ UNCHANGED <<code, meant>>
        ELSE Write(Sym.at, Word("island", Len(caller.pool) + 1), Word("trap", Sym.name),
                   Append(caller.pool, Word("trap", Sym.name)))

\* trampoline_patch_lib, one symbol: a wrapper, else the stub, else the native
\* function under this or another mangling, else a trap.
PatchSymbol ==
    /\ stage.what = "lib" /\ MoreSymbols /\ NextSymbol
    /\ IF Sym.name \notin Section.prefix \/ ~Sym.global \/ Sym.at \notin DOMAIN Text
       THEN UNCHANGED <<code, islands, meant, shared>>
       ELSE IF Sym.name \in Section.wrapped
       THEN WriteTo(Sym.at, Word("wrapper", Sym.name)) /\ UNCHANGED shared
       ELSE IF Section.lib = "STUB"
       THEN LET stub == Once("stub", islands)
            IN  /\ shared' = [shared EXCEPT !.stub = stub.at]
                /\ IF stub.at = 0 THEN UNCHANGED <<code, islands, meant>>
                   ELSE Write(Sym.at, Word("island", stub.at), Word("stub", ""), stub.pool)
       ELSE IF Sym.name \in Section.natives
       THEN WriteTo(Sym.at, Word("native", Sym.name)) /\ UNCHANGED shared
       ELSE Trapped /\ shared' = [shared EXCEPT !.abort = Once("abort", islands).at]
    /\ UNCHANGED <<settings, labels, guarded, before>>

-----------------------------------------------------------------------------
(* trampoline_guard_stale_data: a page is looked at by where symbols begin.*)
HasLibrary(p) == \E d \in DataSymbols : d.page = p /\ d.name \in Library
HasOther(p) == \E d \in DataSymbols : d.page = p /\ d.name \notin Library

Guardable(p) == HasLibrary(p) /\ ~HasOther(p)

GuardData ==
    /\ stage.what = "guard"
    /\ guarded' = {p \in DataPages : Guardable(p)
                     /\ Cardinality({q \in DataPages : q < p /\ Guardable(q)}) < MaxGuarded}
    /\ stage' = At("patch", 1, 1) /\ before' = Snapshot
    /\ UNCHANGED <<code, islands, shared, settings, meant, labels>>

-----------------------------------------------------------------------------
(* patcher_apply: labels, places, encodings and expectations, then writes. *)

\* resolver_symbol_extent: up to the next symbol of the section or its end.  No
\* two symbols have the same address here.
SymbolEnd(at) == Min({Symbols[k].at : k \in {j \in DOMAIN Symbols : Symbols[j].at > at}} \cup {TextEnd})

\* resolve_loc: an address, a symbol, a unique pattern in a symbol, a label
\* that is resolved by now.  0 if there is no such place.  All places are
\* computed before the first write.
Place(loc) ==
    CASE loc.kind = "abs" -> loc.at
      [] loc.kind = "label" ->
           IF loc.name \in DOMAIN labels THEN labels[loc.name] + loc.at ELSE 0
      [] loc.kind = "sym" ->
           LET hits == {k \in DOMAIN Symbols : Symbols[k].name = loc.name}
           IN  IF hits = {} THEN 0 ELSE Symbols[Min(hits)].at + loc.at
      [] loc.kind = "find" ->
           LET hits == {k \in DOMAIN Symbols : Symbols[k].name = loc.name}
               from == Symbols[Min(hits)].at
               found == {a \in from..(SymbolEnd(from) - 1) :
                           before.code[a] = Word("original", loc.word)}
           IN  IF hits # {} /\ Cardinality(found) = 1 THEN Min(found) ELSE 0

IsLet(k) == patches[k].kind = "let"
PlaceOf(k) == Place(patches[k].loc)
LineRefused(k) ==
    \/ PlaceOf(k) = 0
    \/ /\ patches[k].target.kind # "raw"
       /\ Place(patches[k].target) = 0 \/ ~BranchReaches(PlaceOf(k), Place(patches[k].target))
    \/ patches[k].expect # "" /\ code[PlaceOf(k)] # Word("original", patches[k].expect)

\* Passes 1 and 2: one line "let" after the other, in the order of the file.
ResolveLabel ==
    /\ stage.what = "patch" /\ stage.pos <= Len(patches)
    /\ IF ~IsLet(stage.pos) THEN stage' = [stage EXCEPT !.pos = @ + 1] /\ UNCHANGED labels
       ELSE IF PlaceOf(stage.pos) = 0 THEN Fail(2) /\ UNCHANGED labels
       ELSE /\ labels' = [n \in DOMAIN labels \cup {patches[stage.pos].label} |->
                            IF n = patches[stage.pos].label THEN PlaceOf(stage.pos) ELSE labels[n]]
            /\ stage' = [stage EXCEPT !.pos = @ + 1]
    /\ UNCHANGED <<code, islands, shared, settings, meant, guarded, before>>

Refusals == {k \in DOMAIN patches : ~IsLet(k) /\ LineRefused(k)}

Encode ==
    /\ stage.what = "patch" /\ stage.pos > Len(patches)
    /\ IF Refusals # {} THEN Fail(2) ELSE stage' = At("write", 1, 1)
    /\ UNCHANGED <<code, islands, shared, settings, meant, labels, guarded, before>>

\* Pass 4.  If a page cannot be made writable the lines already written stay.
WriteWord ==
    LET line == patches[stage.pos]
    IN  /\ stage.what = "write" /\ stage.pos <= Len(patches)
        /\ IF IsLet(stage.pos) THEN UNCHANGED <<code, meant>>
           ELSE /\ code' = [code EXCEPT ![PlaceOf(stage.pos)] =
                              IF line.target.kind = "raw" THEN Word("patch", line.target.word)
                              ELSE Word("jump", Place(line.target))]
                /\ meant' = [a \in DOMAIN meant \ {PlaceOf(stage.pos)} |-> meant[a]]
        /\ stage' = [stage EXCEPT !.pos = @ + 1]
        /\ UNCHANGED <<islands, shared, settings, labels, guarded, before>>

WriteFails ==
    /\ stage.what = "write" /\ stage.pos <= Len(patches) /\ ~IsLet(stage.pos)
    /\ Fail(3)
    /\ UNCHANGED <<code, islands, shared, settings, meant, labels, guarded, before>>

\* The entry override is validated in the code as it is now.
ValidateEntry ==
    /\ stage.what = "write" /\ stage.pos > Len(patches)
    /\ IF entry.at = 0 \/ Validates(entry.at, entry.expected) THEN stage' = At("run", 0, 0)
       ELSE Fail(4)
    /\ UNCHANGED <<code, islands, shared, settings, meant, labels, guarded, before>>

PatchNext ==
    \/ AddressHooks \/ WriteHook \/ HooksDone \/ NextSection \/ PatchOverride
    \/ PatchSymbol \/ GuardData \/ ResolveLabel \/ Encode \/ WriteWord \/ WriteFails
    \/ ValidateEntry

PatchSpec == PatchInit /\ [][PatchNext]_patchVars

-----------------------------------------------------------------------------
\* Where an island leads, through another one or at once.
Terminal(w) == IF w.op = "island" THEN islands[w.arg] ELSE w

\* Every branch into the pool leads where its last writer meant it to, although
\* hooks, overrides and sections patch the same functions one after the other
\* and the stub, the abort caller and the pool are shared by all of them.
BranchesLead ==
    /\ Len(islands) <= Islands
    /\ \A a \in DOMAIN code : code[a].op = "branch" =>
          code[a].arg \in DOMAIN islands /\ Terminal(islands[code[a].arg]) = meant[a]

\* A hook file or a patch file that is refused has changed nothing: "Any failure
\* in the first three passes aborts the file with the original bytes intact"
\* (patcher.c 6).
RefusedChangesNothing ==
    stage.what = "refused" /\ stage.pos \in {1, 2} =>
        code = before.code /\ islands = before.islands

\* Patched code is what its accepted patches say, and a refused file says
\* nothing.
PatchesHold == BranchesLead /\ RefusedChangesNothing
=============================================================================
