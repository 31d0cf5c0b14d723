---------------------------- MODULE ImageMapping ----------------------------
(***************************************************************************)
(* Mapping Mach-O images into the process (load64 in loader.c, load and    *)
(* load_fat in machismo.c, dylib_loader_load in dylib_loader.c) while      *)
(* other threads map and unmap memory of their own, the pool next to an    *)
(* image that islands are carved from, and the program's stack (stack.c).  *)
(***************************************************************************)
EXTENDS Integers, Sequences, FiniteSets

CONSTANTS
    Pages,      \* pages of the address space
    Segments,   \* image -> its segments, records [at, vm, file] in pages
    PoolPages,  \* size of the pool behind the segments
    Program,    \* the image that load64 maps; the others are dylibs
    Slices,     \* the possible slices of a fat file, sequences of CPU types
    OthersMax,  \* bound: pages that the other threads have at a time
    Frames      \* possible argc, envc and length of the path: [argc, envc, path]

ASSUME MappingAssumption ==
    /\ Pages \in Nat /\ PoolPages \in Nat /\ OthersMax \in Nat
    /\ Program \in DOMAIN Segments
    /\ \A im \in DOMAIN Segments : /\ Segments[im] \in Seq([at : Nat, vm : Nat, file : Nat])
                                   /\ Segments[im] # <<>>
    /\ Frames \subseteq [argc : Nat, envc : Nat, path : Nat]

VARIABLES
    space,    \* page -> what is mapped there
    loading,  \* the image being mapped, at which step
    placed,   \* image -> first page of those that are loaded
    pool,     \* pages of the program's pool that are carved off
    carved,   \* who carved them, in order
    lost,     \* images whose mapping replaced a page of another thread
    slice,    \* the slice of the fat file that is loaded
    frame     \* the layout of the program's stack, or <<>>

mappingVars == <<space, loading, placed, pool, carved, lost, slice, frame>>

Page(what, im, n) == [what |-> what, image |-> im, n |-> n]
Free == Page("free", Program, 0)
Other == Page("other", Program, 0)
Nothing == [image |-> Program, pc |-> "idle", base |-> 0, next |-> 0]

MappingInit ==
    /\ space = [p \in 0..(Pages - 1) |-> Free]
    /\ loading = Nothing /\ placed = <<>> /\ pool = 0 /\ carved = <<>> /\ lost = {}
    /\ slice = 0 /\ frame = <<>>

-----------------------------------------------------------------------------
(* The other threads: mmap without MAP_FIXED never takes a mapped page.    *)
OtherMaps(p) ==
    /\ space[p] = Free
    /\ Cardinality({q \in DOMAIN space : space[q] = Other}) < OthersMax
    /\ space' = [space EXCEPT ![p] = Other]
    /\ UNCHANGED <<loading, placed, pool, carved, lost, slice, frame>>

OtherUnmaps(p) ==
    /\ space[p] = Other
    /\ space' = [space EXCEPT ![p] = Free]
    /\ UNCHANGED <<loading, placed, pool, carved, lost, slice, frame>>

-----------------------------------------------------------------------------
Begins(im, n) == loading' = [image |-> im, pc |-> "reserve", base |-> 0, next |-> n]

\* load and load_fat: the last arm64 slice of the program, or exit; a thin file
\* is its own slice.
LoadProgram(archs) ==
    /\ loading.pc = "idle" /\ Program \notin DOMAIN placed /\ slice = 0
    /\ LET fit == {k \in DOMAIN archs : archs[k] = "arm64"}
       IN  IF archs = <<>> THEN Begins(Program, 1) /\ slice' = 1
           ELSE IF fit = {} THEN loading' = [Nothing EXCEPT !.pc = "exit"] /\ UNCHANGED slice
           ELSE Begins(Program, 1) /\ slice' = CHOOSE k \in fit : \A j \in fit : j <= k
    /\ UNCHANGED <<space, placed, pool, carved, lost, frame>>

\* find_arm64_slice and the checks of the header; anything wrong is reported.
LoadDylib(im) ==
    /\ loading.pc = "idle" /\ im # Program /\ im \notin DOMAIN placed
    /\ Program \in DOMAIN placed
    /\ Begins(im, 1)
    /\ UNCHANGED <<space, placed, pool, carved, lost, slice, frame>>

End(seg) == seg.at + seg.vm
Low(im) ==
    IF im = Program THEN Segments[im][1].at
    ELSE CHOOSE a \in {Segments[im][k].at : k \in DOMAIN Segments[im]} :
            \A k \in DOMAIN Segments[im] : a <= Segments[im][k].at
High(im) ==
    IF im = Program THEN End(Segments[im][Len(Segments[im])])
    ELSE CHOOSE e \in {End(Segments[im][k]) : k \in DOMAIN Segments[im]} :
            \A k \in DOMAIN Segments[im] : e >= End(Segments[im][k])
Span(im) == High(im) - Low(im)

\* Mutant: the program's reservation is given back, too.
GivesAllBack(im) == TRUE

\* dylib_loader_load unmaps the part of its reservation the segments will take.
GivesBack(im) == im # Program

\* mmap of the whole range with no access, wherever there is room.
Reserve(base) ==
    LET im == loading.image
        range == base..(base + Span(im) + PoolPages - 1)
    IN  /\ loading.pc = "reserve" /\ range \subseteq DOMAIN space
        /\ \A p \in range : space[p] = Free
        /\ space' = [p \in DOMAIN space |->
                       IF p \notin range THEN space[p]
                       ELSE IF p < base + Span(im) THEN Page("reserved", im, 0)
                       ELSE Page("pool", im, p - base - Span(im))]
        /\ loading' = [loading EXCEPT !.base = base,
                                      !.pc = IF GivesBack(im) THEN "release" ELSE "map"]
        /\ UNCHANGED <<placed, pool, carved, lost, slice, frame>>

ReserveFails ==
    /\ loading.pc = "reserve"
    /\ loading' = [Nothing EXCEPT !.pc = IF loading.image = Program THEN "exit" ELSE "idle"]
    /\ UNCHANGED <<space, placed, pool, carved, lost, slice, frame>>

Release ==
    /\ loading.pc = "release"
    /\ space' = [p \in DOMAIN space |->
                   IF p \in loading.base..(loading.base + Span(loading.image) - 1)
                   THEN Free ELSE space[p]]
    /\ loading' = [loading EXCEPT !.pc = "map"]
    /\ UNCHANGED <<placed, pool, carved, lost, slice, frame>>

\* One segment: zero pages, then the file's over them, MAP_FIXED.
MapSegment ==
    LET im == loading.image
        seg == Segments[im][loading.next]
        first == loading.base + seg.at - Low(im)
        range == first..(first + seg.vm - 1)
    IN  /\ loading.pc = "map" /\ loading.next <= Len(Segments[im])
        /\ space' = [p \in DOMAIN space |->
                       IF p \notin range THEN space[p]
                       ELSE Page(IF p < first + seg.file THEN "file" ELSE "zero", im, p - first)]
        /\ lost' = IF \E p \in range : space[p] = Other THEN lost \cup {im} ELSE lost
        /\ loading' = [loading EXCEPT !.next = @ + 1]
        /\ UNCHANGED <<placed, pool, carved, slice, frame>>

\* A mapping that fails ends the program, or leaves a dylib half mapped.
MapFails ==
    /\ loading.pc = "map"
    /\ loading' = [Nothing EXCEPT !.pc = IF loading.image = Program THEN "exit" ELSE "idle"]
    /\ UNCHANGED <<space, placed, pool, carved, lost, slice, frame>>

ImageLoaded(im) ==
    /\ loading.pc = "map" /\ loading.image = im /\ loading.next > Len(Segments[im])
    /\ placed' = [i \in DOMAIN placed \cup {im} |-> IF i = im THEN loading.base ELSE placed[i]]
    /\ loading' = Nothing
    /\ UNCHANGED <<space, pool, carved, lost, slice, frame>>

\* machismo_pool_alloc, for the LSE islands and then the trampolines.
Carve(who, n) ==
    /\ loading.pc = "idle" /\ Program \in DOMAIN placed /\ Len(carved) < 2
    /\ IF pool + n <= PoolPages
       THEN /\ pool' = pool + n
            /\ carved' = Append(carved, [who |-> who, from |-> pool, to |-> pool + n])
       ELSE UNCHANGED <<pool, carved>>
    /\ UNCHANGED <<space, loading, placed, lost, slice, frame>>

-----------------------------------------------------------------------------
(* setup_stack64, in bytes below the top: the strings of apple[], and the  *)
(* table of words from the stack pointer up.                               *)
KernfdSize == 12
ElfcallsSize == 27
ExecutablePath == 17    \* sizeof("executable_path=")

Strings(f) == f.path + ExecutablePath + KernfdSize + ElfcallsSize
TableWords(f) == 1 + 1 + (f.argc + 1) + (f.envc + 1) + 4
Words(n) == (n + 7) \div 8

StackDepth(f) == LET bytes == 8 * (TableWords(f) + Words(Strings(f))) IN bytes + ((16 - (bytes % 16)) % 16)

SetupStack(f) ==
    /\ loading.pc = "idle" /\ Program \in DOMAIN placed /\ frame = <<>>
    /\ frame' = [sp |-> StackDepth(f), table |-> 8 * TableWords(f), strings |-> Strings(f)]
    /\ UNCHANGED <<space, loading, placed, pool, carved, lost, slice>>

MappingNext ==
    \/ \E p \in DOMAIN space : OtherMaps(p) \/ OtherUnmaps(p) \/ Reserve(p)
    \/ \E archs \in Slices : LoadProgram(archs)
    \/ \E im \in DOMAIN Segments : LoadDylib(im) \/ ImageLoaded(im)
    \/ ReserveFails \/ Release \/ MapSegment \/ MapFails
    \/ \E n \in 1..2 : Carve(IF carved = <<>> THEN "lse" ELSE "trampolines", n)
    \/ \E f \in Frames : SetupStack(f)

MappingSpec == MappingInit /\ [][MappingNext]_mappingVars

-----------------------------------------------------------------------------
SegmentWhole(im, seg) ==
    \A n \in 0..(seg.vm - 1) :
        space[placed[im] + seg.at - Low(im) + n]
            = Page(IF n < seg.file THEN "file" ELSE "zero", im, n)

\* The program's pages and the pool behind them stay as load64 mapped them,
\* whatever other threads map and unmap meanwhile and later: "This avoids a
\* munmap/mmap race" (loader.c).  Nobody's memory is replaced.
ProgramIsWhole ==
    /\ Program \notin lost
    /\ Program \in DOMAIN placed =>
          /\ \A k \in DOMAIN Segments[Program] : SegmentWhole(Program, Segments[Program][k])
          /\ \A n \in 0..(PoolPages - 1) :
                space[placed[Program] + Span(Program) + n] = Page("pool", Program, n)

\* On the stack the table of pointers ends below the strings it points to and
\* the stack pointer is aligned, for every number of arguments; the carved
\* parts of the pool do not overlap.
StackFits ==
    /\ frame # <<>> => frame.sp % 16 = 0 /\ frame.sp - frame.table >= frame.strings
    /\ \A j, k \in DOMAIN carved : j < k => carved[j].to <= carved[k].from

\* What the program starts with is whole: its image, its pool and its stack.
StartsWhole == ProgramIsWhole /\ StackFits
=============================================================================
