----------------------------- MODULE MCLoader -------------------------------
(***************************************************************************)
(* Startup: a program, a dylib a that loads a dylib b, the native          *)
(* libraries sdl and gl.  Every kind of bind occurs: of a library that has *)
(* the symbol under another mangling, of a constructor, of a variadic      *)
(* function, in the flat and the weak name space, of a symbol that nobody  *)
(* has, of a symbol that a second library has too; opcodes that repeat     *)
(* with and without skipping.                                              *)
(***************************************************************************)
EXTENDS Loader

Bound(ord, sym, weak) == [op |-> "bind", ord |-> ord, sym |-> sym, weak |-> weak]
Rebased == [op |-> "rebase", ord |-> 0, sym |-> "", weak |-> FALSE]
B(slot, n) == [op |-> "bind", slot |-> slot, import |-> n]
R(slot) == [op |-> "rebase", slot |-> slot, import |-> 0]
O(op, imm, uleb, sym) == [op |-> op, imm |-> imm, uleb |-> uleb, sym |-> sym]
SegAt(seg, at) == O("SET_SEGMENT_AND_OFFSET_ULEB", seg, at, "")
Ord(n) == O("SET_DYLIB_ORDINAL", n, 0, "")
Symbol(s, w) == O("SET_SYMBOL_TRAILING_FLAGS_IMM", w, 0, s)
DoBind == O("DO_BIND", 0, 0, "")
Done == O("DONE", 0, 0, "")
Seg(first, format) == [first |-> first, format |-> format]

\* The slots as chains and as wanted; the streams say the same.
Image(segments, libs, imports, count, entries, newer, room, streams) ==
    [segments |-> segments, libs |-> libs, imports |-> imports, imports_count |-> count,
     chain |-> entries, newer |-> newer, islands |-> room, streams |-> streams,
     wanted |-> [s \in {entries[k].slot : k \in DOMAIN entries} |->
                   LET e == entries[CHOOSE k \in DOMAIN entries : entries[k].slot = s]
                   IN  IF e.op = "rebase" THEN Rebased ELSE imports[e.import]]]

\* a has a segment whose pointers have another format; b a segment more than the
\* resolver keeps, and an import that its header does not count.
MCContents == [im \in {"main", "a", "b"} |->
    CASE im = "main" ->
         Image(<<Seg(0, "PTR_64_OFFSET"), Seg(4, "PTR_64")>>, <<"sdl", "gl", "a">>,
               <<Bound(1, "_SDL_GL_CreateContext", FALSE), Bound(2, "_glClear", FALSE),
                 Bound(3, "_a1", FALSE), Bound(-2, "_printf", FALSE), Bound(1, "_ctor", FALSE),
                 Bound(-3, "_own", TRUE), Bound(2, "_missing", TRUE)>>, 7,
               <<R(0), R(2), B(1, 1), B(3, 2), B(4, 3), B(5, 4), B(6, 5), B(7, 6), B(8, 7)>>,
               <<"near", "far", "near", "ldapr", "near">>, 2,
               [rebase |-> <<SegAt(0, 0), O("DO_REBASE_ULEB_TIMES_SKIPPING_ULEB", 2, 1, ""), Done>>,
                bind |-> <<SegAt(0, 1), Ord(1), Symbol("_SDL_GL_CreateContext", 0),
                           O("DO_BIND_ADD_ADDR_IMM_SCALED", 1, 0, ""),
                           Ord(2), Symbol("_glClear", 0), DoBind, SegAt(1, 0),
                           Ord(3), Symbol("_a1", 0), O("DO_BIND_ADD_ADDR_ULEB", 0, 1, ""),
                           Ord(1), Symbol("_ctor", 0), DoBind, Done>>,
                weak_bind |-> <<SegAt(1, 3), Ord(-3), Symbol("_own", 1), DoBind, Done>>,
                lazy_bind |-> <<SegAt(1, 1), Ord(-2), Symbol("_printf", 0), DoBind, Done,
                                SegAt(1, 4), Ord(2), Symbol("_missing", 1), DoBind, Done>>])
      [] im = "a" ->
         Image(<<Seg(0, "PTR_64_OFFSET"), Seg(6, "ARM64E")>>, <<"b", "sdl">>,
               <<Bound(1, "_b1", FALSE), Bound(2, "_new", FALSE), Bound(-1, "_a1", FALSE),
                 Bound(2, "_own", FALSE)>>, 4,
               <<R(0), R(1), B(2, 1), B(3, 1), B(4, 2), B(5, 3), B(6, 4)>>,
               <<"ldapr", "near">>, 0,
               [rebase |-> <<SegAt(0, 0), O("DO_REBASE_TIMES", 2, 0, "")>>,
                bind |-> <<SegAt(0, 2), Ord(1), Symbol("_b1", 0),
                           O("DO_BIND_ULEB_TIMES_SKIPPING_ULEB", 2, 0, ""),
                           Ord(2), Symbol("_new", 0), DoBind,
                           Ord(-1), Symbol("_a1", 0), DoBind,
                           SegAt(1, 0), Ord(2), Symbol("_own", 0), DoBind, Done>>,
                weak_bind |-> <<>>, lazy_bind |-> <<>>])
      [] im = "b" ->
         Image(<<Seg(0, "PTR_64"), Seg(3, "PTR_64"), Seg(4, "PTR_64")>>, <<"gl", "sdl">>,
               <<Bound(2, "_format", FALSE), Bound(2, "_nowhere", FALSE), Bound(1, "_glClear", FALSE)>>, 2,
               <<B(1, 1), R(0), B(2, 2), B(3, 1), B(4, 3)>>, <<"near">>, 1,
               [rebase |-> <<SegAt(0, 0), O("DO_REBASE_ADD_ADDR_ULEB", 0, 0, ""), Done>>,
                bind |-> <<SegAt(0, 0), O("ADD_ADDR_ULEB", 0, 1, ""), Ord(2), Symbol("_format", 0),
                           DoBind, Symbol("_nowhere", 0), DoBind,
                           SegAt(1, 0), Symbol("_format", 0), DoBind,
                           SegAt(2, 0), Ord(1), Symbol("_glClear", 0), DoBind, Done>>,
                weak_bind |-> <<>>, lazy_bind |-> <<>>])]

MCExports == [l \in {"main", "a", "b", "sdl", "gl", "libc"} |->
    CASE l = "main" -> {"_own"}
      [] l = "a" -> {"_a1", "_format"}
      [] l = "b" -> {"_b1"}
      [] l = "sdl" -> {"SDL_GL_CreateContext", "ctor", "format", "format_linux", "own", "glClear"}
      [] l = "gl" -> {"glClear"}
      [] l = "libc" -> {"printf", "ctor"}]
MCLocals == [im \in DOMAIN MCContents |-> IF im = "main" THEN {"_printf"} ELSE {}]
Names == {<<"_SDL_GL_CreateContext", "SDL_GL_CreateContext">>, <<"_glClear", "glClear">>,
          <<"_a1", "a1">>, <<"_printf", "printf">>, <<"_ctor", "ctor">>, <<"_own", "own">>,
          <<"_missing", "missing">>, <<"_b1", "b1">>, <<"_new", "new">>,
          <<"_format", "format">>, <<"_nowhere", "nowhere">>}
MCLookupName == [s \in {p[1] : p \in Names} |-> (CHOOSE p \in Names : p[1] = s)[2]]
MCVariants == [n \in UNION {{p[1], p[2]} : p \in Names} |->
                 IF n = "format" THEN {"format_linux"} ELSE {}]
Map(sdl, gl, a, b) == [l \in {"sdl", "gl", "a", "b"} |->
    CASE l = "sdl" -> sdl [] l = "gl" -> gl [] l = "a" -> a [] l = "b" -> b]
MCMappings == { Map("MAP", "DEFERRED", "STUB", "SKIP"), Map("MAP", "MAP", "MACHO", "MACHO"),
                Map("MAP", "DEFERRED", "MACHO", "MACHO"), Map("STUB", "SKIP", "MACHO", "MACHO") }
MCPoolSize == [p \in {"stub", "ctor", "thunk"} |-> IF p = "stub" THEN 6 ELSE 2]
Format(main, a, b) == [im \in {"main", "a", "b"} |->
    CASE im = "main" -> main [] im = "a" -> a [] im = "b" -> b]
MCFormats == { Format("none", "none", "none"), Format("IMPORT", "none", "none"),
               Format("IMPORT_ADDEND64", "IMPORT", "IMPORT_ADDEND"),
               Format("none", "unknown", "none") }

-----------------------------------------------------------------------------
(* CodePatches: four functions, files that are refused at each of the      *)
(* checks, sections that patch a function twice.                           *)
MCText == [a \in 1..8 |-> CASE a = 2 -> "ret" [] a = 5 -> "isa" [] a \in {3, 7} -> "push" [] OTHER -> "op"]
Function(name, at, global) == [name |-> name, at |-> at, global |-> global]
MCSymbols == <<Function("game", 1, TRUE), Function("sdl_a", 3, TRUE), Function("sdl_b", 5, TRUE),
               Function("inner", 7, FALSE), Function("sdl_data", 20, TRUE)>>
Hook(at, expected, found) == [at |-> at, expected |-> expected, found |-> found, target |-> at]
MCHookFiles == { <<>>, <<Hook(1, <<"op", "ret">>, TRUE), Hook(3, <<"push">>, TRUE)>>,
                 <<Hook(3, <<"push">>, TRUE), Hook(1, <<"op">>, FALSE)>>,
                 <<Hook(1, <<"op", "ret", "push">>, TRUE)>>, <<Hook(5, <<"op">>, TRUE)>>,
                 <<Hook(1, <<"op">>, TRUE), Hook(3, <<"push">>, TRUE), Hook(7, <<"push">>, TRUE),
                   Hook(5, <<"isa">>, TRUE)>> }
Sec(over, locals, lib, prefix, natives, wrapped) ==
    [override |-> over, locals |-> locals, lib |-> lib, prefix |-> prefix,
     natives |-> natives, wrapped |-> wrapped]
Sdl == {"sdl_a", "sdl_b", "sdl_data"}
MCConfigs == { <<Sec({"game", "inner"}, TRUE, "none", {}, {}, {}), Sec({}, FALSE, "native", Sdl, {"sdl_a"}, {})>>,
               <<Sec({}, FALSE, "STUB", Sdl, {}, {"sdl_a"}), Sec({"inner", "sdl_a"}, FALSE, "native", {"game"}, {}, {})>>,
               <<Sec({"game"}, FALSE, "STUB", {"game", "sdl_a", "sdl_b"}, {}, {})>> }
Loc(kind, name, at, word) == [kind |-> kind, name |-> name, at |-> at, word |-> word]
Line(kind, label, loc, target, expect) ==
    [kind |-> kind, label |-> label, loc |-> loc, target |-> target, expect |-> expect]
RawWord == Loc("raw", "", 0, "nop")
MCPatchFiles == { <<>>,
    <<Line("at", "", Loc("find", "game", 0, "ret"), Loc("label", "l", 1, ""), "ret"),
      Line("let", "l", Loc("sym", "inner", 0, ""), RawWord, ""),
      Line("at", "", Loc("label", "l", 1, ""), RawWord, "op")>>,
    <<Line("at", "", Loc("abs", "", 8, ""), RawWord, ""),
      Line("at", "", Loc("abs", "", 7, ""), RawWord, "op")>>,
    <<Line("let", "l", Loc("label", "m", 0, ""), RawWord, ""),
      Line("let", "m", Loc("sym", "inner", 0, ""), RawWord, "")>>,
    <<Line("at", "", Loc("find", "game", 0, "nothing"), RawWord, "")>>,
    <<Line("at", "", Loc("abs", "", 1, ""), RawWord, ""),
      Line("at", "", Loc("abs", "", 8, ""), Loc("sym", "game", 0, ""), "")>> }
MCEntries == { [at |-> 0, expected |-> <<>>], [at |-> 7, expected |-> <<"push">>] }
MCInRange(at, island) == at + 6 >= island
MCBranchReaches(from, to) == from - to \in -6..6
Data(name, page, pages) == [name |-> name, page |-> page, pages |-> pages]
MCDataSymbols == {Data("lib1", 1, 1), Data("game1", 1, 1), Data("lib2", 2, 1), Data("lib3", 3, 1), Data("game2", 4, 2), Data("lib4", 5, 1)}

-----------------------------------------------------------------------------
(* ImageMapping: a program of two segments, the second of which is zero    *)
(* pages only, and a dylib whose segments are not in order.                *)
Segment(at, vm, file) == [at |-> at, vm |-> vm, file |-> file]
MCSegments == [im \in {"prog", "dylib"} |->
    IF im = "prog" THEN <<Segment(4, 2, 2), Segment(6, 1, 0)>>
    ELSE <<Segment(1, 1, 0), Segment(0, 1, 1)>>]
MCSlices == { <<>>, <<"arm64", "x86", "arm64">>, <<"x86">> }
MCFrames == [argc : {0, 1, 2}, envc : {0, 3}, path : {0, 1, 7, 8, 9, 15, 40}]

-----------------------------------------------------------------------------
(* IsaEmul: every kind of operation, and narrow ones whose register holds  *)
(* more than the word; BCAX over three registers.                          *)
Op(op, narrow, sp, rs, rt) == [op |-> op, narrow |-> narrow, sp |-> sp, rs |-> rs, rt |-> rt]
MCInstructions ==
    { Op("LDADD", FALSE, FALSE, 1, 0), Op("SWP", FALSE, FALSE, 3, 0),
      Op("CAS", FALSE, FALSE, 1, 2), Op("LDUMAX", FALSE, FALSE, 2, 0),
      Op("LDSMAX", FALSE, FALSE, 3, 0), Op("LDADD", TRUE, FALSE, 5, 0),
      Op("LDUMIN", FALSE, FALSE, 1, 0), Op("LDSMIN", TRUE, FALSE, 6, 0),
      Op("LDSMAX", TRUE, FALSE, 5, 0), Op("CAS", TRUE, FALSE, 1, 6) }
\* The rest of what isa_emul_patch replaces.
MCAllInstructions == MCInstructions \cup
    { Op("CAS", TRUE, FALSE, 5, 3), Op("LDUMAX", TRUE, FALSE, 6, 0), Op("LDADD", FALSE, TRUE, 1, 0) }
MCBcax == { o \in [vd : 0..2, vn : 0..2, vm : 0..2, va : 0..2] : ~(o.vd = o.vn /\ o.vd = o.va) }
MCNoBcax == {}

-----------------------------------------------------------------------------
(* HeapTrace: two call stacks for blocks, one for mappings.                *)
MCStacks == [w \in {"heap", "maps"} |-> IF w = "heap" THEN {<<"f">>, <<"g">>} ELSE {<<"f">>}]
-----------------------------------------------------------------------------
(* SavedFiles: two threads that save one file in an old data directory;    *)
(* names that are refused; directories to be made, from each of the three  *)
(* variables; no data directory at all.                                    *)
CONSTANTS w1, w2
Abs(parts) == [abs |-> TRUE, parts |-> parts]
Rel(parts) == [abs |-> FALSE, parts |-> parts]
Env(data, xdg, home) == [bundle |-> Abs(<<"app">>), data |-> data, xdg |-> xdg, home |-> home]
Ask(rel, size) == [rel |-> rel, size |-> size]
Each(S) == [t \in Savers |-> S]
OnlyOne(S) == [t \in Savers |-> IF t = w1 THEN S ELSE {}]
OldTree == (<<"d">> :> Dir) @@ (<<"d", "l">> :> Link) @@ (<<"d", "s">> :> File(0)) @@ (<<"d", "p">> :> Dir)
OldEnv == Env(Abs(<<"..", "d", ".", "x", "..">>), Unset, Unset)
Scenario(e, tree, threads) == [env |-> e, tree |-> tree, asked |-> threads]
MCScenarios == {
    Scenario(OldEnv, OldTree, Each({Ask(Rel(<<"s">>), 2)})),
    Scenario(OldEnv, OldTree, OnlyOne({Ask(Rel(<<"p", "..", "s">>), 1), Ask(Rel(<<"l", "s">>), 1),
                                       Ask(Rel(<<".">>), 1), Ask(Rel(<<"p">>), 1), Ask(Abs(<<"s">>), 1)})),
    Scenario(Env(Unset, Abs(<<"x">>), Abs(<<"h">>)), <<>>,
             OnlyOne({Ask(Rel(<<"p", ".", "s">>), 1), Ask(Rel(<<"s">>), 0)})),
    Scenario(Env(Unset, Unset, Abs(<<>>)), <<>>, OnlyOne({Ask(Rel(<<"p", "s">>), 1)})),
    Scenario(Env(Unset, Unset, Rel(<<"h">>)), <<>>, OnlyOne({})) }
MCTempNames == <<"t0", "t1">>

-----------------------------------------------------------------------------
(* ObjcRuntime: a class and its metaclass with one name, a class without   *)
(* metadata, a method without code, one behind an entry that cannot be     *)
(* decoded.                                                                *)
Method(sel, imp, kind) == [sel |-> sel, imp |-> imp, kind |-> kind]
ClassOf(super, name, methods) == [super |-> super, name |-> name, methods |-> methods]
MCClass == [c \in {"NSObject", "NSObject*", "View", "Game", "Game*"} |->
    CASE c = "NSObject" -> ClassOf("NULL", "NSObject", <<Method("init", "root_init", "big")>>)
      [] c = "NSObject*" -> ClassOf("NSObject", "NSObject", <<Method("draw", "meta_draw", "big")>>)
      [] c = "View" -> ClassOf("NULL", "", <<>>)
      [] c = "Game" -> ClassOf("NSObject", "Game", <<Method("draw", "game_draw", "small"),
                          Method("init", "NULL", "small"), Method("", "", "bad"), Method("draw", "hidden", "big")>>)
      [] c = "Game*" -> ClassOf("NSObject*", "Game", <<Method("init", "meta_init", "small")>>)]
=============================================================================
