# Verification of machismo-sword3

machismo loads an iOS/macOS Mach-O program into an aarch64 Linux process, binds
its imports to shims and native libraries, rewrites parts of its code, and runs
it. The Sword3 port (`src/ports/sword3/`) adds what one game needs: input,
sound, movies, and menus for a game controller drawn over the game's own.

This directory holds TLA+ modules for the parts of that program in which the
order of events matters, the TLC configurations that check them on small
instances, and TLAPS proofs that most of their safety properties, and both of
their refinements, hold for every value of the constants. Paths below are relative
to `src/`.

- [1. The system](#1-the-system)
- [2. Modules](#2-modules)
- [3. Runs](#3-runs)
- [4. Where code and comments disagree](#4-where-code-and-comments-disagree)
- [5. Fairness](#5-fairness)
- [6. Proofs](#6-proofs)
- [7. Behaviours without a run](#7-behaviours-without-a-run)
- [8. What is not modelled](#8-what-is-not-modelled)
- [9. Plan](#9-plan)

## 1. The system

"Guest" is the loaded program, "host" the Linux side. Guest code runs on guest
threads and calls the host through bound symbols; the host reads and writes guest
memory at fixed addresses and has overwritten the first instructions of some guest
functions with jumps to its own.

### Loader and shims

| Component | State | Operations | Hard because |
|---|---|---|---|
| Image loader (`machismo.c`, `loader.c`, `dylib_loader.c`, `stack.c`) | mappings, image table, pool of islands, initial stack | reserve, map, carve, start | other threads map memory meanwhile; images load images |
| Resolver (`resolver.c`) | slots, opcode machine, deferred binds | open libraries, walk chains, interpret streams, complete later | the order of lookup; what an image leaves behind for the next one |
| Trampolines, patches (`trampoline.c`, `patcher.c`) | code, islands, guarded pages | address hooks, overrides, sections, patch file | shared pools; what remains when a step fails |
| Instruction emulation (`isa_emul.c`) | scratch registers, flags, exclusive monitor | islands of the LSE atomics and of BCAX | several threads in islands for one word |
| Pthread ABI (`shim/libsystem_shim.c`) | every Apple mutex and condition variable, rewritten in place | lock, trylock, unlock, wait, signal | the rewriting is not atomic and happens at the first use, by any thread |
| libdispatch (same file) | once predicates, reference counts, semaphores | once, retain, release, wait, signal | counts changed in several steps; waiting |
| Thread-local variables (same file) | one key, a block per thread and image | first access, thread exit | double-checked creation of the key |
| Allocation router, mmap registry, heap tracer (same file, `heaptrack_trace.c`) | who owns an address; intern tables, records, regions | malloc family, mmap, munmap, dlopen | an address is reused at once; the tracer's lock and the loader's |
| Guest threads (`elfcalls/threads.c`) | frame of the creator, guest stack, `jmp_buf` | create, terminate | the arguments lie in the creator's frame; a thread unmaps its own stack |
| Objective-C runtime (`shim/sword3_objc_shim.c`, `.._msgsend.S`) | selectors, method cache, classes seen | register, send, look up | identity by address, made by the first of several threads |
| iOS frameworks (`shim/sword3_ios_shim.c`) | constants | messages to proxies | nothing is kept |

### The port

| Component | State | Operations | Hard because |
|---|---|---|---|
| Keyboard/controller merger (`input.c`) | a reference count per key, per controller; a growing ring of events | key, button, axis, plug, unplug, remap, lose focus, poll | several holders of one key; failure between two halves; a callback that polls |
| Input context (`input_context.c`) | active routes, lifecycle, generation | resolve, track | equality of kept generations across a wrap |
| Event routing (`sdl_bridge.c`) | screen mode, six direction machines, keys held in the guest, overlays | every pad event, every frame | the screen changes while something is held |
| Shop and dialogs (`sdl_bridge.c`) | the guest's rows, scroll and answers | move, buy, answer | three lists counted differently |
| Native menu session (`sdl_bridge.c`, `native_menu_input.c`) | session, deadlines, handoff, focus | open, follow, hand over, close | the bridge sees the guest's menu only by polling |
| SDL ownership (`sdl_bridge.c`) | a table of objects per kind | create, use, destroy | threads, and addresses that come back |
| Video bridge (`video_bridge.c`) | demuxer, decoder, RGBA buffer, last timestamp | open, next frame, close | end of file, frames held back, changing sizes |
| Audio bridge (`audio_bridge.c`) | handles, channels, current music | open, play, stop, close | handles closed while they play |
| Movie playback (`sdl_bridge.c` 7413-7924) | one movie, its observer, a button to swallow | play, skip, finish | nested callbacks |
| Host menu (`host_menu.c`) | page, cursors, a copy of the bag, a held node | open, move, confirm, back | pointers into guest memory kept over frames |
| Host battle menu (`host_battle_menu.c`) | layer, grid, list, a deferred command | poll, button | the guest changes under it |
| Host cheat menu (`host_cheat.c`) | switches, latches of a fight | poll, toggle, hooks | the guest's fight flag is not reliable |
| Guest hooks (`host_battle_menu.c`, `host_cheat.c`) | which functions jump, which have trampolines | install, retry | partial failure and repetition |
| Directories and saved files (`paths.c`) | data root, temporaries | init, make directories, replace a file | any call fails, the process or the power dies in between |

What makes each of them correct is stated by its properties in section 3; the
hazards they answer to are listed in `PROJECT.json`, each with its line.

## 2. Modules

Every component has a module with its state, one action per operation, and its
properties. An `MC*` module extends it with the sets of an instance, a `.cfg` gives
the constants; where plain values do, the `.cfg` belongs to the module itself
(LibSystem, PthreadShim). A `*Proofs` module extends it with its
theorems (section 6). Names are the source's where TLA+ allows; `PROJECT.json` maps every
definition to its lines. Operators called *Mutant* state plausible bugs, used to
show that the properties can fail; no action refers to them.

### Loading a program

**Resolver** (`resolver.c`, the table of `dylib_loader.c`). An image is its list of
libraries, its fixup chain and its four opcode streams; a slot is a pointer of its
data segment. The actions open libraries as `dylib_map.conf` says, walk the chain or
interpret one opcode at a time, and store values: a symbol found in its own library,
in another, in the program or a Mach-O dylib, through an adapter for constructors or
variadic functions, a stub, or a pool of a deferred library. `CompleteDeferred`
is the hook on `SDL_GL_CreateContext`. Slots lie in segments: a segment whose pointers
have an unknown format is passed over, an import of an unknown format or beyond the
table becomes null, and a stream does not get to segments behind the first
`MaxSegments` (16 in the code). Parsing of load commands and names is data.
**Startup** is `main` around it: each phase with its loop over the dylibs, which
the resolver may lengthen, until the initialisers and the entry point run. Without a
`dylib_map` nothing is resolved and the program runs as it is (`SkipResolution`). The
program gets all its pthread objects rewritten, a dylib only those with the
signature of a plain mutex; its others are left to the shim's rewriting at first use
(PthreadShim). Instruction replacement stops when the pool of islands is full and
passes over what no branch reaches (`Replaced`).

**ImageMapping** (`loader.c`, `dylib_loader.c`, `stack.c`). The address space is a
row of pages; other threads map and unmap between the steps, and MAP_FIXED replaces
what is there. The depth of the initial stack is arithmetic on the lengths of
arguments, checked for every remainder.

**CodePatches** (`trampoline.c`, `patcher.c`, the order in `machismo.c`). Code is a
function from address to instruction; islands are allocated from one pool. A step
is one hook, one symbol or one line, so that failing half way is a state. A line
that asks for a branch farther than one reaches refuses its file.

**IsaEmul, AtomicOps**. An island's save, load-exclusive, computation,
store-exclusive and restoring are steps of a thread; a store by another thread
clears the monitor, and a store-exclusive may fail for no reason. AtomicOps is the
instruction as one step, which the islands implement. Registers are wider than
the word so that narrow instructions show what they do with the upper bits. How
`decode_lse` reads an instruction is not modelled: the instructions are given as
decoded, a swap whatever its remaining operation bits say.

### Under the running program

**PthreadShim** (`libsystem_shim.c` 600-760). `fixup_mutex` and `fixup_cond` are
split at the test of the signature, `memset` and initialisation; the constant
`SerialFirstUse` keeps the first uses apart. **DispatchShim** splits `dispatch_release` at
the read and the subtraction and has `dispatch_once`'s spinning.
**TlvBootstrap** splits the first access at the unlocked read, the lock and the
second read. Memory is sequentially consistent in these modules.

**GuestThread** (`elfcalls/threads.c`). `pc` follows the creator's spinning and the
child's copy, setup, clear, run, unmap, detach; `args` is the structure in the
creator's frame, `mapped` the stacks that exist. A stack's address may be given
out again. `pthread_create` may fail. **GuestThreads** declares the threads the
four modules share.

**HeapTrace** (`heaptrack_trace.c`, `libsystem_shim.c`). What an allocator does and
the record of it are separate steps, in the code's order; a hook asks for names
without the lock and records with it. `store` and `pg` are the truth, `tr` the
trace. `astray` collects the addresses that were handed out again before their
release was recorded. Inside `dlopen` and `dlclose` a block is allocated, freed or
moved without a record.

**ObjcRuntime**. Classes and methods are constant; the tables of selectors, of
methods made from relative entries and of classes seen grow under their locks, a
section being one or two steps. What callers were given is history.

**SavedFiles** (`paths.c`). Each system call of `atomic_write` is a step that may
fail. The external file system keeps for every directory entry the values it may
have on disk since the last sync; `Kill` drops the process, `PowerLoss` also picks
one of those values for each entry. A name is its sequence of parts, walked one
directory at a time as the code does. As the buffer does, `temporary` names the last
name tried, whether or not the call could create it, and the clean-up after a failure
removes what it names. `starved` remembers that a call which had got no temporary came
to its end while another was under way.

### The port

**Sword3Input** (`input.c`). `key_refs`, `ctrl_refs`, `button_down`,
`axis_direction` and the mappings are the structure's fields, `queue` and
`capacity` the event ring as a FIFO with room, `polled` what the game has learnt.
A handler is an action, since `input.h` confines all calls to one thread;
`handle_axis` is two, because the callback runs between the release of the old and
the press of the new direction. A failing call (no memory, a full counter, an
unknown controller) sets `error` and, as in the code, nothing else.

**EventFifo, Sword3InputQueue**. What the queue promises, and the ring with head,
count and capacity that implements it, including the copy when it grows. An event
never written is a value of its own, so that reading a garbage slot shows.

**InputContext**. The priority of the routes, the comparison of lifecycles and the
generation counter, which wraps past zero to one.

**PadRouting** (`sdl_bridge.c`). The six direction machines are operators on a host
record: sources, edges, keys pressed in the guest, and what the next frame lets go.
The state is that record, what the player
holds, and the guest's screen; every event first runs `sync_ui_mode` (`Ready`) and
then goes to the first owner that claims it. **GuestChoices** has the guest's shop
variables and dialogs, on which the bridge acts in the guest's name; the walk that
looks for the lit item ends after `MaxWalk` nodes or at one it may not read, and
then the visible row is taken for a row of the whole list.

**MenuSession** (`sdl_bridge.c`, `native_menu_input.c`). `ses` is the bridge, `native`
what the guest draws and was asked for. The event loop polls, then takes one
event; the guest draws late, never, or closes on its own; deadlines are counted in
steps of time.

**SdlOwners**. Making or destroying an object and entering or dropping it in the
table are separate steps of a thread; a free address is given out again. Streams may
be the guest's own.

**VideoBridge**. The loop of `sword3_video_next_frame` against a decoder that may
hold frames back, refuse a packet until it is drained, or deliver frames of other
sizes and with any timestamp. Files are chosen from a set of packet sequences.

**AudioBridge**. Open with its undo, handles, the mixer's channels, the one piece
of music. SDL_mixer is modelled from its use.

**MoviePlayback**. The stack of nested calls (a playback loop, a finish callback,
in it another play), the part of the Objective-C shim that keeps the observer and
the pending path, and the swallowed button release. A round of the loop first pumps:
it takes events off the queue until it is empty, also after one of them has closed
the movie, when a press of A is taken without a trace (`lost`). The callback is guest
code and may play, stop, observe or return.

**GuestHooks, HostCheat, HostMenu, HostBattleMenu**. The game is a few guest
variables that change by actions of their own (`Play`, `Guest...`), marked external.
In HostMenu the guest's repository is a sequence of nodes with counters of used and
new units, and the menu's copy and held node refer to nodes that may have been
freed; a page is the set of the places of the copy that it shows. In HostBattleMenu the lists
are those that a walk of at most 32 nodes takes whole, and the guest is `NowMenu`, the selected command, the player
and the bag; one of its steps, or one controller event, lies between two polls, as
`sdl_bridge.c` calls `host_battle_poll` before each. A special move is shown for its
skill type or for the flags of its script (`obs`, `can`), but looked up by its type
alone; an entry whose flags hit no mask is shown on a page of the code's choice; the
repository of items stands for a bag without nodes, and on the screen also for one no
node of which can be read. An entry that the guest's page does not have gets the
index of its place on the screen (`Placed` says which do).

### Compositions

| Module | Components |
|---|---|
| Startup | Resolver within the phases of `main` |
| Loader | Startup, ImageMapping, CodePatches, IsaEmul, HeapTrace, SavedFiles, ObjcRuntime |
| LibSystem | PthreadShim, DispatchShim, TlvBootstrap, GuestThread |
| Media | VideoBridge, AudioBridge, MoviePlayback, MenuSession |
| GameMenus | HostMenu, HostBattleMenu |
| Bridge | GuestHooks, HostCheat, InputContext, Sword3InputQueue, PadRouting, GuestChoices, SdlOwners |

Startup shares state with what it composes. The other five put the
components of one area side by side for a run: every module lets its environment,
the other components included, do anything it can see, so that a step of one leaves
the others alone and interleaving them adds no behaviour of any one of them. They
let one component run, chosen in the initial state (`running`), and the run explores
them all: the sum of their state spaces instead of the product.

The components meet in these places: the mapping is complete before the resolver
reads an image, and Startup requires instruction replacement of each image before it
runs; MoviePlayback lets the decoder answer in any way VideoBridge may answer;
GuestHooks installs the hooks HostCheat has in place; the game is in the field
(HostMenu) or in a fight (HostBattleMenu); PadRouting has the opening of the native
menu as one flag, MenuSession in all its frames; Sword3InputQueue is the queue that
Sword3Input uses, through EventFifo.

## 3. Runs

`tlc -workers 2 -config X.cfg M`. All passing runs are exhaustive.

| Run | Shows | Bounds, and why they are enough |
|---|---|---|
| `input` | what the game has been told and will be told about a key is whether somebody holds it (`StreamMatchesKeys`); presses and releases alternate; every reference has a holder and every holder its reference (`RefsHaveHolders`) | 2 keys, 2 controllers, 1 button, 1 axis, counters up to 3, first capacity 1, 3 waiting events: all kinds of holders can meet at one key, the counter can be full, the queue grows twice |
| `libsystem` | *mutexes*: exclusion, re-locking and waiters survive the rewriting, if first uses do not overlap (`MutualExclusion`, `NobodyForgotten`); *libdispatch*: the once block runs once, an object lives exactly while it is owned; *thread-local variables*: a thread's variable keeps its storage; *threads*: arguments and stacks are a thread's own; whoever waits for another thread gets away (`CallsReturn`) | 3 threads besides the main one, re-locking twice, 2 references each and a threshold of 10 that they cannot reach, 2 stacks: three threads race to a first use, a stack's address is given out again while others run |
| `media` | *video*: every frame comes once, in order, in a buffer of its size (`FramesArrive`), never with an earlier time, and every call returns; *audio*: nothing freed plays, the current music is known, the device is given back once (`SoundFollowsHandles`, `StepsBalance`); *movies*: nothing is left behind, every movie ends; *menu session*: a handoff arrives or is given up, a session ends after its menu, the player comes back to the book page | files of at most 3 packets, two sizes, missing and disordered timestamps; 2 effects, 2 pieces of music, 2 channels, volumes below, at and above the range; 2 frames, calls nested 3 deep; deadlines of 1, 1, 1 and 2 units and 3 presses: every deadline passes before and after what it waits for |
| `game_menus` | *field*: the held node is live, units are accounted for, maxima follow the equipment (`RepositoryIsSound`); *battle*: the guest uses the entry that was shown, every command can be reached by the directions | 2 members, 2 slots, 5 kinds of item, 3 bags; 2 actors, skills of which one is on two pages, one is special by its script only and one is under no mask, bags that are empty or unreadable, items that run out, every mixture of grey commands |
| `loader` | *startup*: nothing of an image runs before it and all it is bound to are resolved and rewritten as far as the code gets (`ReadyBeforeRun` names where it stops); a slot holds what was linked; *mapping*: the program, its pool and its stack are whole; *patches*: a branch leads where it is meant, a refused file changes nothing; *islands*: atomic, and without a trace; *tracer*: the trace is the truth, the lock is a leaf; *files*: a save is whole, durable when reported and touches no other, while no call without a temporary meets another; *Objective-C*: one identity per selector, method and class | a program, two dylibs of which one loads the other, two native libraries, four maps, chains and streams, with and without a map, 2 segments kept of 3, known and unknown formats, 3 deferred binds; 9 pages, 2 of other threads; 4 functions, 6 islands, files refused at each check, a branch too far; 2 threads, words of 4 values, every operation; 2 callers, 4 blocks, 3 pages; 2 savers, 2 saves, 2 crashes, 2 temporaries; 2 senders, 5 classes |
| `bridge` | *hooks*: a hook that calls on reaches the guest's function; *cheat*: once in each fight; *context*: a kept generation is the present one exactly if nothing has changed; *routing*: a direction held in the guest has an owner, no screen starts with an old one (`DirectionsAreOwned`); *choices*: shop and dialogs act on what they show; *owners*: the tables say what lives; *queue*: the ring implements the FIFO | all 8 functions, every failure; 3 computations of levels; 2 routes, counter of 3 that wraps; players that use up to 4 controls on 7 screens; 4 items in a view of 2, a walk of 3 nodes, any node unreadable, 2 dialogs; 2 threads, 3 addresses, tables of 2; capacities 1 to 8, reservations up to 3 |
| `pthread_race`, `pthread_trylock`, `deferred_images`, `isa_equivalence`, `tag_table`, `foreign_temporary` | see section 4 | 2 threads; the images of `loader`; all instructions; a table of 2 tags; 2 savers, 2 saves, 2 names, no crash |

`MaxGeneration`, `MaxChanges`, `MaxQueue`, `MaxKept`, `MaxCalls`, `MaxPresses`, `MaxSaves`,
`MaxStops`, `MaxAstray`, `OthersMax` and the nesting depth are bounds of the models, not of the
code; table sizes (`OwnerCap`, `MaxTags`, `MaxDeferred`, `MaxSegments`, `MaxWalk`, `RegistryMax`, `ObservedMax`, the pools)
are the code's, made small. Only Sword3Input's `TypeOK` is part of a
run; the others are kept as documentation and hold on the same instances.

The passing runs leave out what the violation runs and section 7 show: overlapping
first uses, trylock as first use, the threshold of 99, deferred binds of programs with
dylibs or with fixup chains, narrow unsigned comparison, `sp` as base, and a full table of tags;
the slots the resolver does not reach, and saves that went on beside a call
without a temporary, happen in them and are named by the property. `MaxAstray = 0`
stops new calls once an address has gone astray, so at most the calls under way add to
it. BCAX with its destination equal to both the first and last source is excluded
(section 7). `tag_table` is the module of `loader` with one more tag than its
table has places for.

Each property is also checked against a mutant of a definition, named in
`PROJECT.json`, and found violated there.

## 4. Where code and comments disagree

Six runs end in a counterexample.

- `pthread_race`: "re-init them for Linux before use" (`libsystem_shim.c` 604). Two
  threads that use a statically initialised mutex for the first time may both see
  the signature; one rewrites the mutex while the other holds it.
- `pthread_trylock`: zeroed mutexes are made recursive because "macOS game code may
  re-lock from the same thread" (671). `pthread_mutex_trylock` omits that; a thread
  that came in by trylock blocks at its next lock.
- `deferred_images`: "re-resolve all recorded binds with real symbols" (`resolver.c`
  408). Each image that is resolved replaces the list of libraries that the recorded
  ordinals refer to, so the binds of the program are looked up in the list of the
  last dylib and stay on their pools.
- `foreign_temporary`: "Atomically replace a persistent-data file" (`paths.h` 44). A
  call that could not open a temporary removes the one it tried last (`paths.c` 475),
  which another thread may be writing; a third call takes the name, and the rename
  of the second installs the third's unfinished file.
- `isa_equivalence`: "an equivalent ARMv8.0 sequence" (`isa_emul.h` 15). Unsigned
  maximum and minimum and compare-and-swap of bytes and halfwords compare whole
  registers; an address in `sp` is taken after the island has moved `sp`.
- `tag_table`: "last slot becomes the catch-all, ending growth" (`heaptrack_trace.c`
  645). The tag after that is written behind the table.

More comments contradict the code without a run for it. "deferred binds are handled
at the walk_chain/do_bind_one level" (`resolver.c` 1898): `walk_chain` gives every bind
to `resolve_import`, which answers one of a deferred library with a stub and records
nothing, so that it is never completed; `DeferredComplete` leaves such programs out.
`heaptrack_trace.c` 1092-1101 says that the tracer asks `dladdr` under `g_lock` and that
`dlsym` allocates after it has released the loader lock; both are out of date, as
336-345 explains, and HeapTrace follows the code: names are resolved before the lock
is taken.
`dylib_loader.c` 195-196 calls MAP_FIXED safe because the range was "just reserved",
but the reservation has been given back by then (section 7).

## 5. Fairness

Only weak fairness, of steps that a running thread takes by itself:

- GuestThread, DispatchShim: the kernel schedules a runnable thread again, so a
  spinning creator, a child in its entry or exit path and a waiter of
  `dispatch_once` take their steps; the once block ends. A thread's decision to
  create, terminate, retain or release is not fair.
- VideoBridge: `sword3_video_next_frame` goes on looping once called.
- MoviePlayback: the playback loop goes round every 8 ms, its pump gets to the end of
  the queue (events do not arrive faster than it reads them), and a callback that
  is done returns. That a callback chooses to be done is not assumed.
- MenuSession: the event loop polls again and again (`apply_pad_pointer` runs before
  every event), time passes, the guest finds its back icon in some poll, and a screen
  that has been told to close closes.
  That the guest opens or draws a menu, or that the player does anything, is not
  assumed.

## 6. Proofs

`tlapm M.tla` for the seven modules below; the library's theorems on sequences,
finite sets and well-founded relations are used. Every theorem is about the
specification that the runs check, for any sets of threads, keys, blocks, names and
so on and any bounds, from the named assumptions of the module; the hypotheses
that go further are listed, and each is one that a run or section 7 shows to be
needed. A composition's theorem (`BridgeSafe`, `LibSystemSafe`, `MediaSafe`,
`LoaderSafe`, `MenusAreSafe`) follows because every behaviour of the composition is one of each
component.

The provers cannot use induction with an operator for the hypothesis, so induction
over numbers is made for sets: `LeastNumber`, `AllNumbers` (a set with 0 and with
every successor is all of Nat) and `RecursionOnNat` (SavedFilesProofs), from which
follows what a recursive function of the models computes, where a proof needs it.

### Sword3InputProofs

`TypeCorrect`, `StreamTruthful`, `StreamAlternating`, `EveryReferenceHasAHolder`:
for any keys, controllers, buttons, axes, counter width and queue bound (keys are
numbers, the sets finite, the bounds positive, default mappings keys or `UNKNOWN`).

The stream properties are inductive only together, in `IInv` with `StepAlive` (a
half-done axis only in a living merger): that a release may be queued needs the
press to be the last event of its key. `KeysStep` says that a handler either leaves
the counters alone or appends a run of events without repetition, one for each key
whose status changes; `KeysStepKeepsStream` shows once that this keeps both.

`RefsHaveHolders` is made inductive by `HoldInv`: a controller that is not connected
holds nothing, and between the halves of `handle_axis` the axis is in the middle. The
holders of a key are a table `Holding(k)` of sets, one for each controller; lemmas
say how the size of all of them (`Total`) changes when one is added, dropped, or all
of a controller's go, and `TotalSum` that it is the sum of the counters, by a
bijection with the counted slots. A handler is then a change of one table.

### BridgeProofs

| Theorem | Invariant and argument |
|---|---|
| `RingSafe`, `RingImplementsFifo` | `RingInv`: head and count are within the capacity, the room owed is there, no slot in use was never written. What the ring holds is the sequence read from head, modulo the capacity; initial states map to initial states, every step to a step of EventFifo or a stutter. The wrap is dealt with once, in a lemma on `%` |
| `HooksReachTheGuest` | `Guarded`: a function that starts with a jump is recorded, or the one installation has begun, so no trampoline is made from a jump |
| `OneLevelPerFight` | `CheatInv`: while levels are computed, the overlay's mark says whether the fight has been paid for |
| `StaleGenerationsShow` | `ContextInv`: the generation is the kept one plus the changes since, counted round from the largest to 1 |
| `ListsActOnWhatTheyShow` | `ShopInv`, `DialogInv`: the lit item is where scroll and row say, the dialogs are in the order of their numbers, and each active one keeps one gate. If the lit item is not found, the theorem says which item is acted on instead |
| `OwnersNeverForeign` | `OwnersInv`: where a thread is tells what it has; two threads are never about the same object unless both only use it; `Accounts` counts entries against what lives, what is under way and what a lost renderer left |
| `DirectionsHaveOwners` | `RoutingInv`: `Core` (what a list will release it knows to be down), `Owned` (a direction key that did not stray is a list's, or the native menu's where the guest's keys move it) and `Clear` (the two machines that are not cleared when their screen comes up are still while it is not up). The steps of a frame are functions from bridge to bridge; a lemma for each says what it keeps, and the order in which a frame applies them does the rest |

### LibSystemProofs

| Theorem | Hypotheses | Invariant and argument |
|---|---|---|
| `TlvStable` | | whoever is about to make a key holds the mutex and knows there is none; a stored key is never replaced |
| `ThreadsStartOnTheirOwn` | | `ThreadInv`: a starting thread has a creator that waits, a stack that was given is mapped |
| `BlockRunsOnce` | | the word is 1 exactly while one thread is in the block |
| `NeverFreedTooEarly` | | `CountInv`: the count is at least the number of references, counted as a set of pairs; a global queue never gets below the threshold |
| `LivesExactlyWhileOwned` | `FewReferences`: all references together stay below the threshold (section 7 says what happens otherwise) | then the count is that number |
| `PthreadMutualExclusion` | `SerialFirstUse` (`pthread_race`) | `PthreadInv`: what a thread was told it has is what the mutex says, and until the objects are ready one thread is in a call |
| `PthreadNobodyForgotten` | that, and `~TryFirst` (`pthread_trylock`) | `RelockInv`: whoever comes to take the mutex finds a recursive one |

### MediaProofs

| Theorem | Invariant and argument |
|---|---|
| `NothingFreedIsHeard`, `DeviceIsBalanced` | `AudioInv`: effects are on channels and music is the music, so what `stop_locked` clears is all there is of a handle; the second is an action property |
| `MoviesLeaveNothing` | `MovieInv`: a movie that owes a notification has kept its observer; a held button was seen unless its release will be swallowed or its press was lost in the pump (`PressIsKnown`). The game gets a release alone in the last case only |
| `EveryFrameArrives` | `VideoInv`: what is out, in the decoder and pending is the packets of the file so far, in order; the decoder drains only after the end of the file |
| `TimeGoesOn` | an action property: no step takes a timestamp back |

### SavedFilesProofs

`SavingIsAtomic`, for any trees, environments, names, savers and numbers of failures,
kills and losses of power, if no caller saves under the name of a temporary
(`PlainNames`; the code does not refuse such a name). Requests and directories are sequences of parts, and the names of temporaries
are not `.`, `..` or empty. The theorem covers every behaviour up to the step in which
a call without a temporary, about to clean up, is under way beside another call
(`starved`, see `foreign_temporary`); alone, such a call does no harm, whatever
temporary it removes. The invariant is `starved`, or `SavedInv` together with
`StraysAlone`.

`SavedInv` relates four things. `DiskInv`: whatever an entry may be on disk is sound:
a file of the port is below its directory, and whole unless its name is a
temporary's. `AckInv`: whatever is on disk of a name that was reported saved is at
least as new. `CallsInv`: a call that owns a temporary is the only one, and the file
behind it is as far as its place in the code says; what a walk still has to do leads
to the name the caller gave (`Walking`, for which `WalkedIs` says what the recursive
walk computes). `PathsInv`: the root is where the environment says. A loss of power
picks one of the values of `DiskInv`, so all of them have to be sound at all times.

### LoaderProofs

| Theorem | Hypotheses | Invariant and argument |
|---|---|---|
| `IslandsAreAtomic` (a refinement), `IslandsLeaveNoTrace` | `Replaceable`: no `sp` as base, no narrow comparison of a register that holds more (`isa_equivalence`); for the second also `BcaxReplaceable` (section 7) | `IsaInv`: between its pushes and pops an island has on the stack what was in the registers, and what it has loaded is the word while its monitor is set. The store-exclusive that succeeds is the atomic step, all others stutter; the arithmetic of words is a few lemmas on `%` |
| `RuntimeHasOneIdentity` | finitely many classes | `ObjcInv`: whoever is in a section is alone there, for a key that the list does not have; a class's answer is the one it would get now. `Lineage` and the nearest method are functions, shown to be what the loops of the code find |
| `TracerLockIsALeaf` | call stacks are sequences | `HeapInv`: nobody keeps `g_lock` from one step to the next, and a caller that is past `ht_presolve` has a name for each of its frames that the tables do not have; `InternedStack` says what a recorded stack adds to the tables |
| `TraceIsTheTruth` | `TagsAreFew`: the table of tags has a place for each kind of mapping (`tag_table` is what happens otherwise) | `TraceInv`, beside `HeapInv`. `BlockOk`: whoever adds a block or is to release it is alone with it; where the record of a release comes first the table has let go of the block before it is freed, where it comes last the block is free by then; a block nobody is busy with has the right record. A block freed or moved inside `dlopen` is astray from then on. `PageOk` says the same of pages and regions, `LentInv` that a lent mapping is registered, mapped and left alone. `RecordedIs` says what one event makes of the tables, `ParedIs` what cutting and overlaying leave of the regions, page by page |
| `ProgramStartsWhole` | `SegmentsAscend`: the program's segments are in ascending order, which `load64` takes for granted | `SpaceInv`: up to the segment being mapped the program is whole and the rest of its reservation is its own (`WholeUpTo`), and a dylib's reservation shares no page with it; `PoolInv`: no carved part goes beyond what has been taken of the pool |
| `PatchedCodeLeads` | | `PatchInv`: every branch goes to an allocated island, from there to what was meant (`Leads`), islands are never changed again (`Extends`), the shared stub is one, and until a file's last check code and islands are those of before; the loops over tables are taken a position at a time |

### GameMenusProofs

| Theorem | Assumptions on the game | Invariant and argument |
|---|---|---|
| `RepositoryStaysSound` | a bag has one node per kind, each with a unit; a slot holds a kind or nothing | `MenuInv`: an open menu has a true copy of the bag, and the node held for a commit is in it, with an old unit if that is what will be dropped (`HeldIs`). `Changes` says of the two bags of a step in which kind they differ and by how many units; a unit taken, returned or sorted is a lemma of its own (`UnitTaken`, `UnitBack`, `NodesSorted`). `Fills` says what filling a slot does to the wearers of every kind and to the sum of the bonuses, both counted as finite sets |
| `BattleConfirmsWhatItShows` | the lists fit a walk | `BattleInv`: while a list is up, what is shown is what the guest's list of that layer has now, unless the guest has gone on to a target, a turn or the end of the fight, which the poll before the next button finds out; so an entry of the page that the guest's page has (`Placed`) is at the index that is looked up there. The others are left out: for them the code gives the place on the screen. Places in a list are counted (`CountedUp`, `CountedOnce`), which relates the two ways of counting |

In both menus the cursor may stand beyond the end of a page that became shorter; it
is brought back before it is used (`ClampIs`, `ClampListIs`).

### Only model-checked

- Liveness: `CallsReturn`, `NextFrameReturns`, `EveryMovieEnds`, `HandoffEnds`,
  `SessionFollowsMenu`, `BackToBook`. Fairness is out of the prover's reach.
- `ReadyBeforeRun`, `SlotsBound`: loops within loops (images, their chains and
  streams, the opcode machine), which need an invariant for every place in them.
- `CommandsReachable`: a search by recursion in the graph of a grid of at most nine
  commands, which is a matter of cases; the run has the mixtures of grey commands with
  no, one and all extra commands.

## 7. Behaviours without a run

These are in the models, or next to them; most contradict nothing that is written
down, or nothing a run could show without leaving the program. Properties that
leave such a case out say so.

- *Threads, movies, menus.* A movie started from a finish callback plays for ever; a
  touch that skips a movie swallows the next press of A; a press of A queued behind the
  event that ended a movie is thrown away, and the game gets its release alone
  (`sdl_bridge.c` 7796); the pending movie path is never cleared. X reopens the host menu before its pending page has been opened.
  The defence command cannot be reached when skills, special move and flight are
  grey and the actor has no extra command. A failed `pthread_create` leaves the
  creator spinning. `dispatch_release` takes an object for a global queue when its count
  is above 99 (`libsystem_shim.c` 1172), so one retained that often is never freed.
- *Routing.* BACK and START released while the cheat overlay is open are not noticed,
  so the combination that quits may be taken as held (`sdl_bridge.c` 5570, 1881);
  likewise the modifier R1. A page of the guest's menu that turns under a held key
  leaves the key down (`strayed`). B pressed while A is held in the menu, or A released
  over a caption, leaves Return down. With the D-pad and the stick both held,
  releasing one gives no edge and pressing it again none.
- *Menu session.* A handoff is not cancelled when its session is left. A menu
  reopened within the 250 ms of grace keeps the old session; one drawn after the
  900 ms of waiting is not followed.
- *SDL objects.* A stream that the guest closes itself keeps its entry, and a stream
  of the guest's at the same address is then taken for the host's (7038).
  `DestroyRenderer` leaves the entries of its textures.
- *Loading.* A dylib's reservation is given back before MAP_FIXED, which can replace
  what another thread has mapped there (`dylib_loader.c` 197). A guarded page can
  hold part of a game symbol that begins on the page before. A BCAX whose
  destination is also its first and last source loses an operand. A segment of
  chained pointers of an unknown format is passed over with a message and its slots
  stay as they were in the file (`resolver.c` 1480), an import that cannot be read
  becomes null, and a stream does not reach the segments behind the sixteenth; none of
  this counts as a failed bind, so that `MACHISMO_STRICT_BINDS` accepts the image.
  Newer instructions that got no island stay in the code (`isa_emul.c` 456), and are executed.
- *Choices.* In a list shown from its middle, a lit item behind the walk's end or
  a node that may not be read is not found, and the bridge acts on the item as many
  rows below the list's beginning (`sdl_bridge.c` 2307, 2386). In a fight an entry
  that the guest's page does not have (a special move by its script only, an
  entry under no mask, an item of the repository beside an unreadable bag) is given by its place on the screen,
  where the guest has another entry or none (`host_battle_menu.c` 1981).
- *Tracing.* A block freed or reallocated inside `dlopen` or `dlclose` keeps its old record; a full
  registry sends a mapping to `free`; the registry has no lock.
  `mmap_registry_add` and the alloc router are for ports outside this repository.
- *Files.* A caller could save under the name of a temporary. The entry of a directory that was just made is not synced, so a save
  reported in it may be lost with the power. A failing sync of the directory
  reports failure though the file is replaced. When killed processes with the same pid
  have left 128 temporaries, one save fails, and by its clean-up frees a name.
- *Objective-C.* A class and its metaclass have one name; whichever is seen first is
  found. A message to super from a root class starts at the receiver's own class. An
  entry that cannot be decoded hides those after it. A full table of classes forgets.

## 8. What is not modelled

- Unwind tables and debugger registration (byte formats), crash reporting (prints and
  exits), drawing and window glue, the texture atlas, stubs.
- The iOS framework proxies: messages that are answered from constants or by one
  libc call, without state that a later one depends on.
- Configuration files and load commands: what they may say is enumerated, how they
  are read is data. The commpage.
- Inside the modelled parts: rwlock wrappers (they repeat `fixup_cond`), dispatch
  queues (blocks run inline) and the clock; the cheats that only write to the party;
  in the host menu the journal, the bestiary, the skill cursor and the unreachable
  page of save slots; in the battle menu retargeting and the latches of held
  buttons; the movie's audio pump; in the bridge the pointer that the right stick
  moves, touch and mouse, and the focus inside the pages of the guest's menu
  (with `native_item_menu_input.c`); in the Objective-C runtime allocation,
  autorelease pools, weak and strong slots, and properties.

In HostBattleMenu the guest's lists change only by use and between fights. In
Startup a dylib's newer instructions are those of its code; `main` scans a dylib's
whole executable segments, where it scans the program's code sections only. In MenuSession a
poll is followed by one event, where `SDL_PeepEvents` may hand out several. The
guest is represented by what it may do to the variables the host reads.

## 9. Plan

Modelled, in this order: merger and queue, pthread, dispatch, thread-local variables,
guest threads, input context, video, audio, movie, hooks, cheat, host menu, battle
menu; then resolver and startup, mapping, patches, instruction emulation, heap
trace, routing with its direction machines, shop and dialogs, menu session, SDL
objects, saved files, Objective-C runtime.

Proved: what section 6 lists. Next, proving: the start (`ReadyBeforeRun`,
`SlotsBound`). Then, modelling: the pages of the guest's menu, autorelease pools,
rwlocks.
