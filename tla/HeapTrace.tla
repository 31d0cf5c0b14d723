----------------------------- MODULE HeapTrace ------------------------------
(***************************************************************************)
(* Who an allocation belongs to and what the trace says of it.  The malloc *)
(* family of the guest goes through src/shim/libsystem_shim.c, which may   *)
(* route a block to a port's arena and gives registered mappings back with *)
(* munmap; host libraries go through the interposers of                    *)
(* src/heaptrack_trace.c.  Both feed the tracer of that file, one hook per *)
(* call: names of new frames are looked up without the tracer's lock, then *)
(* the event is recorded under it.                                         *)
(*                                                                         *)
(* What the real allocator does and its record are separate steps, in the  *)
(* order of the code.  A section under g_lock is one step.                 *)
(***************************************************************************)
EXTENDS Naturals, FiniteSets, Sequences, SequencesExt

CONSTANTS
    Callers, Nobody,
    HeapBlocks, ArenaBlocks, BootBlocks, \* addresses
    Sizes, CallStacks,                   \* per world, outermost frame first
    MapPages, MapTags,                   \* pages, and what can be mapped and is tracked
    MaxTags,                             \* HT_TAG_MAX
    RegistryMax,                         \* MMAP_REGISTRY_MAX
    MaxAstray,                           \* bound: addresses astray while calls go on
    Worlds                               \* what the callers work with: "heap" or "maps"

Blocks == HeapBlocks \cup ArenaBlocks \cup BootBlocks
PageNumbers == 0..(MapPages - 1)
Ranges == {r \in SUBSET PageNumbers : r # {} /\ \A p, q \in r : p..q \subseteq r}

ASSUME HeapAssumption ==
    /\ Nobody \notin Callers /\ MaxTags \in Nat \ {0} /\ RegistryMax \in Nat /\ MaxAstray \in Nat
    /\ MapPages \in Nat /\ Worlds \subseteq {"heap", "maps"}
    /\ \A w \in Worlds : \A stack \in CallStacks[w] : stack \in Seq(Range(stack))

VARIABLES
    world,
    store,     \* what is at each block: Vacant, <<"boot">>, <<"untraced">> or <<size, stack>>
    pg,        \* what is mapped at each page: "free", "file" or a tag
    registry,  \* mmap_registry
    tr,        \* the tracer's tables
    glock, loader, \* who holds g_lock, and glibc's loader lock
    hook,      \* what each caller is doing
    astray,    \* history: addresses whose release was recorded late or not at all
    lent,      \* history: mappings a port left to be freed; misfreed: one of
    misfreed,  \* them was given to the C heap
    resolved   \* r_free: the real functions are known
heapVars == <<world, store, pg, registry, tr, glock, loader, hook, astray, lent, misfreed, resolved>>

Vacant == <<>>
NoEvent == [late |-> {}, out |-> {}, in |-> {}, stack |-> <<>>, cut |-> {}, map |-> {}]
Resting == [at |-> "guest", ev |-> NoEvent, needs |-> {}, after |-> {}, dl |-> "none"]

HeapInit ==
    /\ world \in Worlds
    /\ store = [b \in Blocks |-> Vacant] /\ pg = [p \in PageNumbers |-> "free"]
    /\ registry = <<>>
    /\ tr = [on |-> TRUE, ips |-> {}, unnamed |-> {}, tags |-> <<>>,
             ptrs |-> [b \in Blocks |-> Vacant], regions |-> {}]
    /\ glock = Nobody /\ loader = Nobody
    /\ hook = [t \in Callers |-> Resting]
    /\ astray = {} /\ lent = {} /\ misfreed = FALSE /\ resolved = FALSE

-----------------------------------------------------------------------------
\* The intern tables.  Tables only grow, and a key is entered once.
InternIp(s, ip, hints) ==
    IF ip \in s.ips THEN s
    ELSE [s EXCEPT !.ips = @ \cup {ip}, !.unnamed = IF ip \in hints THEN @ ELSE @ \cup {ip}]

\* A trace node is its path of frames, an alloc-info its size and path: the
\* tables give every such key one index, so the key stands for the index.
InternTrace(path, ip) == Append(path, ip)
InternInfo(size, path) == <<size, path>>

\* The frames of an event, from the outermost inwards.
InternStack(s, stack, hints) ==
    LET step[k \in 0..Len(stack)] ==
            IF k = 0 THEN s ELSE LET before == step[k - 1] IN InternIp(before, stack[k], hints)
    IN  step[Len(stack)]

\* intern_tag_ip: a tag's own leaf; the last free place is "other".
InternTag(s, tag) ==
    IF tag \in Range(s.tags) THEN s
    ELSE [s EXCEPT !.tags = Append(@, IF Len(@) = MaxTags - 1 THEN "other" ELSE tag)]
TagLeaf(s, tag) == IF tag \in Range(s.tags) THEN tag ELSE Last(s.tags)

\* do_alloc_locked, with ptr_map_insert over whatever was at the address.
DoAlloc(s, ev, hints) ==
    LET a == CHOOSE x \in ev.in : TRUE
    IN  [InternStack(s, ev.stack, hints) EXCEPT !.ptrs[a.ptr] = InternInfo(a.size, ev.stack)]
DoFree(s, out) == [s EXCEPT !.ptrs = [b \in Blocks |-> IF b \in out THEN Vacant ELSE @[b]]]

RegionPages(r) == r.from..(r.to - 1)

\* do_munmap_locked: what overlaps is retired, its head and tail stay with the
\* trace they had.
DoMunmap(s, cut) ==
    LET hit  == {r \in s.regions : RegionPages(r) \cap cut # {}}
        low  == CHOOSE p \in cut : \A q \in cut : p <= q
        high == CHOOSE p \in cut : \A q \in cut : q <= p
        heads == {[r EXCEPT !.to = low] : r \in {r \in hit : r.from < low}}
        tails == {[r EXCEPT !.from = high + 1] : r \in {r \in hit : r.to > high + 1}}
    IN  IF cut = {} THEN s ELSE [s EXCEPT !.regions = (@ \ hit) \cup heads \cup tails]

\* do_mmap_locked: the stack gets the tag as its innermost frame.
DoMmap(s, ev, hints) ==
    LET m    == CHOOSE x \in ev.map : TRUE
        s1   == InternTag(InternStack(s, ev.stack, hints), m.tag)
        path == InternTrace(ev.stack, TagLeaf(s1, m.tag))
    IN  [s1 EXCEPT !.regions = @ \cup {[from |-> m.from, to |-> m.to, path |-> path]}]

\* One event: releases before what is new.
Recorded(s, ev, hints) ==
    LET s1 == DoMunmap(DoFree(s, ev.out), ev.cut)
        s2 == IF ev.in = {} THEN s1 ELSE DoAlloc(s1, ev, hints)
    IN  IF ev.map = {} THEN s2 ELSE DoMmap(s2, ev, hints)

-----------------------------------------------------------------------------
\* The hooks: machismo_heaptrack_alloc, _free, _realloc, _mmap and _munmap.
HookAt(t, at) == hook[t].at = at
HookIs(t, rec) == hook' = [hook EXCEPT ![t] = rec]
Feed(t, ev, after) ==
    HookIs(t, [hook[t] EXCEPT !.at = IF ev.in = {} /\ ev.map = {} THEN "record" ELSE "presolve",
                              !.ev = ev, !.after = after])

\* Mutant: the lock is kept while names are looked up.
PresolveKeepsLock(t) ==
    /\ HookAt(t, "presolve") /\ glock = Nobody /\ glock' = t
    /\ HookIs(t, [hook[t] EXCEPT !.at = "resolve", !.needs = Range(hook[t].ev.stack) \ tr.ips])
    /\ UNCHANGED <<world, store, pg, registry, tr, loader, astray, lent, misfreed, resolved>>

\* ht_presolve: which frames are new, under the lock;
Presolve(t) ==
    /\ HookAt(t, "presolve") /\ glock = Nobody
    /\ HookIs(t, [hook[t] EXCEPT !.at = "resolve", !.needs = Range(hook[t].ev.stack) \ tr.ips])
    /\ UNCHANGED <<world, store, pg, registry, tr, glock, loader, astray, lent, misfreed, resolved>>

\* and their names without it: dladdr takes the loader's (recursive) lock.
ResolveNames(t) ==
    /\ HookAt(t, "resolve") /\ (hook[t].needs # {} => loader \in {Nobody, t})
    /\ HookIs(t, [hook[t] EXCEPT !.at = "record"])
    /\ UNCHANGED <<world, store, pg, registry, tr, glock, loader, astray, lent, misfreed, resolved>>

RecordEvent(t) ==
    /\ HookAt(t, "record") /\ glock \in {Nobody, t} /\ glock' = Nobody
    /\ tr' = Recorded(tr, hook[t].ev, hook[t].needs)
    /\ HookIs(t, [Resting EXCEPT !.at = IF hook[t].after = {} THEN "guest" ELSE "after",
                                 !.after = hook[t].after, !.dl = hook[t].dl])
    /\ UNCHANGED <<world, store, pg, registry, loader, astray, lent, misfreed, resolved>>

-----------------------------------------------------------------------------
\* The callers.  resolve_real_funcs and hresolve: the first call asks dlsym,
\* whose own allocations come from the bootstrap buffer.
Calls(t, w) == world = w /\ HookAt(t, "guest") /\ tr.on /\ Cardinality(astray) <= MaxAstray
Traced(t)   == hook[t].dl # "open"
\* Released by another call of the late kind, and not yet recorded so.
Pending(t, a) == \E u \in Callers \ {t} : a \in hook[u].ev.late

HResolve(t) ==
    /\ Calls(t, "heap") /\ ~resolved /\ resolved' = TRUE
    /\ \E own \in SUBSET BootBlocks :
          store' = [b \in Blocks |-> IF b \in own THEN <<"boot">> ELSE store[b]]
    /\ UNCHANGED <<world, pg, registry, tr, glock, loader, hook, astray, lent, misfreed>>

\* A real allocator hands out b, for size bytes asked for from this stack.
Takes(t, b, size, stack) ==
    /\ store[b] = Vacant
    /\ store' = [store EXCEPT ![b] = IF Traced(t) THEN <<size, stack>> ELSE <<"untraced">>]
    /\ astray' = IF Pending(t, b) THEN astray \cup {b} ELSE astray
New(b, size, stack) == [NoEvent EXCEPT !.in = {[ptr |-> b, size |-> size]}, !.stack = stack]

\* malloc and its kin, of the guest (which the router may take) and of host
\* libraries, those in a dlopen unrecorded.
Malloc(t, b, size, stack) ==
    /\ Calls(t, "heap") /\ resolved
    /\ b \in HeapBlocks \cup (IF hook[t].dl = "none" THEN ArenaBlocks ELSE {})
    /\ Takes(t, b, size, stack)
    /\ IF Traced(t) THEN Feed(t, New(b, size, stack), {}) ELSE UNCHANGED hook
    /\ UNCHANGED <<world, pg, registry, tr, glock, loader, lent, misfreed, resolved>>

\* A block the guest was given and has not given back.
Held(b) ==
    /\ store[b] # Vacant
    /\ \A u \in Callers : b \notin hook[u].after \cup {x.ptr : x \in hook[u].ev.in}
Releases(b) == store' = [store EXCEPT ![b] = Vacant]

\* Mutant: the heap has the block back before the trace knows.
FreeThenRecord(t, b) ==
    /\ Calls(t, "heap") /\ b \in HeapBlocks /\ Held(b)
    /\ Releases(b)
    /\ IF Traced(t) THEN Feed(t, [NoEvent EXCEPT !.out = {b}], {}) ELSE UNCHANGED hook
    /\ UNCHANGED <<world, pg, registry, tr, glock, loader, astray, lent, misfreed, resolved>>

\* free of a heap block: recorded, then given back.  A bootstrap block stays.
FreeBlock(t, b) ==
    /\ Calls(t, "heap") /\ b \in HeapBlocks /\ Held(b)
    /\ IF Traced(t) THEN Feed(t, [NoEvent EXCEPT !.out = {b}], {b}) /\ UNCHANGED <<store, astray>>
       ELSE Releases(b) /\ UNCHANGED hook /\ astray' = astray \cup ({b} \ {c \in Blocks : tr.ptrs[c] = Vacant})
    /\ UNCHANGED <<world, pg, registry, tr, glock, loader, lent, misfreed, resolved>>

\* shim_free of a routed block: the router takes it back first.
FreeRouted(t, b) ==
    /\ store[b] # Vacant /\ Releases(b)
    /\ Feed(t, [NoEvent EXCEPT !.out = {b}, !.late = {b}], {})
    /\ UNCHANGED <<world, pg, registry, tr, glock, loader, astray, lent, misfreed, resolved>>
GuestFreesRouted(t, b) ==
    /\ Calls(t, "heap") /\ hook[t].dl = "none" /\ b \in ArenaBlocks /\ Held(b)
    /\ FreeRouted(t, b)

\* realloc of a heap block: in place or elsewhere, and to nothing at all; a
\* routed block moves by malloc and free, a bootstrap block by malloc alone.
Realloc(t, b, to, size, stack) ==
    /\ Calls(t, "heap") /\ resolved /\ hook[t].dl = "none"
    /\ Held(b)
    /\ to \in HeapBlocks
    /\ LET ev == New(to, size, stack) IN
       \/ /\ b \in HeapBlocks /\ (to = b \/ store[to] = Vacant)
          /\ store' = [store EXCEPT ![b] = Vacant, ![to] = <<size, stack>>]
          /\ astray' = IF Pending(t, to) THEN astray \cup {to} ELSE astray
          /\ Feed(t, [ev EXCEPT !.out = {b}, !.late = {b}], {})
       \/ /\ b \in HeapBlocks /\ Releases(b) /\ to = b
          /\ Feed(t, [NoEvent EXCEPT !.out = {b}, !.late = {b}], {})
          /\ UNCHANGED astray
       \/ /\ b \in ArenaBlocks \cup BootBlocks /\ Takes(t, to, size, stack)
          /\ Feed(t, ev, {b} \ BootBlocks)
    /\ UNCHANGED <<world, pg, registry, tr, glock, loader, lent, misfreed, resolved>>

\* realloc by a thread that is in a dlopen: the same, and none of it recorded.
ReallocUnfed(t, b, to) ==
    /\ Calls(t, "heap") /\ resolved /\ hook[t].dl = "open" /\ Held(b)
    /\ \/ /\ b \in HeapBlocks /\ (to = b \/ store[to] = Vacant)
          /\ store' = [store EXCEPT ![b] = Vacant, ![to] = <<"untraced">>]
       \/ b \in HeapBlocks /\ to = b /\ Releases(b)
       \/ /\ b \in BootBlocks /\ store[to] = Vacant
          /\ store' = [store EXCEPT ![to] = <<"untraced">>]
    /\ astray' = astray \cup {c \in {b} : tr.ptrs[c] # Vacant} \cup {c \in {to} : Pending(t, c)}
    /\ UNCHANGED <<world, pg, registry, tr, glock, loader, hook, lent, misfreed, resolved>>

\* What is left of a free or of a routed realloc after its record.
After(t) ==
    /\ HookAt(t, "after")
    /\ LET b == CHOOSE x \in hook[t].after : TRUE
       IN  IF b \in ArenaBlocks THEN FreeRouted(t, b)
           ELSE /\ Releases(b)
                /\ HookIs(t, [hook[t] EXCEPT !.at = "guest", !.after = {}])
                /\ UNCHANGED <<world, pg, registry, tr, glock, loader, astray, lent, misfreed, resolved>>

\* dlopen and dlclose keep the loader's lock over allocations that are not
\* fed; a failing dlsym keeps it over one that is.
DlEnter(t, how) ==
    /\ Calls(t, "heap") /\ hook[t].dl = "none" /\ loader = Nobody /\ loader' = t
    /\ HookIs(t, [hook[t] EXCEPT !.dl = how])
    /\ UNCHANGED <<world, store, pg, registry, tr, glock, astray, lent, misfreed, resolved>>
DlLeave(t) ==
    /\ HookAt(t, "guest") /\ hook[t].dl # "none" /\ loader' = Nobody
    /\ HookIs(t, [hook[t] EXCEPT !.dl = "none"])
    /\ UNCHANGED <<world, store, pg, registry, tr, glock, astray, lent, misfreed, resolved>>

-----------------------------------------------------------------------------
Lowest(r)  == CHOOSE p \in r : \A q \in r : p <= q
Above(r)   == (CHOOSE p \in r : \A q \in r : q <= p) + 1
\* No call about these pages is under way.
Settled(r) ==
    \A u \in Callers : r \cap (hook[u].ev.cut \cup UNION {RegionPages(m) : m \in hook[u].ev.map}) = {}
Overlap(t, r) == {p \in r : Pending(t, p)}

\* A mapping of pages r: the kernel finds them free, or with MAP_FIXED they
\* replace what was there.  Files are not tracked, but still cut.
Mmap(t, r, kind, fixed, stack) ==
    /\ Calls(t, "maps") /\ kind \in MapTags \cup {"file"}
    /\ IF fixed THEN Settled(r)
       ELSE \A p \in r : pg[p] = "free"
    /\ fixed => r \cap UNION lent = {}
    /\ pg' = [p \in PageNumbers |-> IF p \in r THEN kind ELSE pg[p]]
    /\ astray' = astray \cup Overlap(t, r)
    /\ IF kind = "file" /\ ~fixed THEN UNCHANGED hook
       ELSE Feed(t, [NoEvent EXCEPT !.cut = IF fixed THEN r ELSE {}, !.stack = IF kind = "file" THEN <<>> ELSE stack,
                        !.map = IF kind = "file" THEN {}
                                ELSE {[from |-> Lowest(r), to |-> Above(r), tag |-> kind]}], {})
    /\ UNCHANGED <<world, store, registry, tr, glock, loader, lent, misfreed, resolved>>

Unmaps(t, r) ==
    /\ pg' = [p \in PageNumbers |-> IF p \in r THEN "free" ELSE pg[p]]
    /\ Feed(t, [NoEvent EXCEPT !.cut = r, !.late = r], {})
    /\ UNCHANGED <<world, store, tr, glock, loader, astray, resolved>>

\* munmap of any part of what is mapped.
Munmap(t, r) ==
    /\ Calls(t, "maps") /\ Settled(r) /\ \A p \in r : pg[p] # "free"
    /\ r \cap UNION lent = {}
    /\ Unmaps(t, r)
    /\ UNCHANGED <<registry, lent, misfreed>>

\* mmap_registry_add: a port leaves a mapping to be freed like a block.
RegistryAdd(t, r) ==
    /\ Calls(t, "maps") /\ \A p \in r : pg[p] # "free"
    /\ Len(registry) < RegistryMax /\ r \cap UNION lent = {}
    /\ Settled(r)
    /\ registry' = Append(registry, r) /\ lent' = lent \cup {r}
    /\ UNCHANGED <<world, store, pg, tr, glock, loader, hook, astray, misfreed, resolved>>

\* mmap_registry_remove: the last entry takes the place of the one found.
RegistryRemove(i) ==
    IF i = Len(registry) THEN Front(registry)
    ELSE [Front(registry) EXCEPT ![i] = Last(registry)]

\* shim_free of such a mapping: munmap, but free if it is not found.
FreeMapping(t, r) ==
    /\ Calls(t, "maps") /\ r \in lent
    /\ lent' = lent \ {r}
    /\ IF r \in Range(registry)
       THEN /\ registry' = RegistryRemove(CHOOSE i \in DOMAIN registry : registry[i] = r)
            /\ Unmaps(t, r)
            /\ UNCHANGED misfreed
       ELSE misfreed' = TRUE
            /\ UNCHANGED <<world, store, pg, registry, tr, glock, loader, hook, astray, resolved>>

\* machismo_heaptrack_close, at exit.  Hooks that are under way still record.
Close ==
    /\ tr.on /\ glock = Nobody
    /\ tr' = [tr EXCEPT !.on = FALSE]
    /\ UNCHANGED <<world, store, pg, registry, glock, loader, hook, astray, lent, misfreed, resolved>>

HeapNext ==
    \/ Close
    \/ \E t \in Callers :
        \/ Presolve(t) \/ ResolveNames(t) \/ RecordEvent(t) \/ After(t)
        \/ HResolve(t) \/ DlLeave(t)
        \/ \E how \in {"open", "sym"} : DlEnter(t, how)
        \/ \E b \in Blocks, size \in Sizes, stack \in CallStacks[world] : Malloc(t, b, size, stack)
        \/ \E b \in HeapBlocks : FreeBlock(t, b)
        \/ \E b \in ArenaBlocks : GuestFreesRouted(t, b)
        \/ \E b \in Blocks, to \in HeapBlocks, size \in Sizes, stack \in CallStacks[world] :
              Realloc(t, b, to, size, stack)
        \/ \E b \in Blocks, to \in HeapBlocks : ReallocUnfed(t, b, to)
        \/ \E r \in Ranges, kind \in MapTags \cup {"file"}, fixed \in BOOLEAN, stack \in CallStacks[world] :
              Mmap(t, r, kind, fixed, stack)
        \/ \E r \in Ranges : Munmap(t, r) \/ RegistryAdd(t, r) \/ FreeMapping(t, r)

HeapSpec == HeapInit /\ [][HeapNext]_heapVars

-----------------------------------------------------------------------------
Busy(a) ==
    \/ a \in astray
    \/ \E t \in Callers :
          \/ a \in hook[t].ev.out \cup hook[t].ev.cut \cup hook[t].after
          \/ \E x \in hook[t].ev.in : x.ptr = a
          \/ \E m \in hook[t].ev.map : a \in RegionPages(m)

\* The trace says what is allocated: apart from addresses that a call is busy
\* with, a block has a record of its size and stack exactly while it is
\* allocated, and a page is in the one region of its tag exactly while it is
\* mapped and tracked, however mappings are cut and overlaid.  Not counted on
\* is an address that was handed out again before its release was recorded (the
\* records of realloc, of a routed free and of munmap come after the release),
\* nor a traced block that is freed or reallocated inside dlopen or dlclose.
\* And a mapping that was registered is unmapped, never freed.
TraceExact ==
    /\ ~misfreed
    /\ tr.on =>
        /\ \A b \in Blocks : ~Busy(b) =>
              tr.ptrs[b] = IF Len(store[b]) < 2 THEN Vacant ELSE store[b]
        /\ \A p \in PageNumbers : ~Busy(p) =>
              {Last(r.path) : r \in {r \in tr.regions : p \in RegionPages(r)}} = {pg[p]} \ {"free", "file"}

Waits(t) ==
    CASE hook[t].at \in {"presolve", "record"} -> glock
      [] hook[t].at = "resolve" /\ hook[t].needs # {} -> loader
      [] OTHER -> Nobody

\* "g_lock is a LEAF lock": nobody waits for the loader with it, so a thread that
\* allocates inside the loader always gets it; and though the names are
\* looked up outside, every frame in the trace has its name.
LeafLock ==
    /\ \A t, u \in Callers : ~(t # u /\ Waits(t) = u /\ Waits(u) = t)
    /\ tr.unnamed = {}

\* "last slot becomes the catch-all, ending growth": the table of tags never
\* has more than its places.
TagsFit == Len(tr.tags) <= MaxTags
=============================================================================
