----------------------------- MODULE SavedFiles -----------------------------
(***************************************************************************)
(* The port's directories and its persistent files:                        *)
(* src/ports/sword3/paths.c.  The data directory is found from the         *)
(* environment and created; a file below it is replaced by writing a       *)
(* temporary beside it and renaming that, by threads that may work on the  *)
(* same file.  Any system call can fail, the process can be killed between *)
(* any two of them, and the power can fail.                                *)
(*                                                                         *)
(* A path is the sequence of its parts.  Paths that the caller gives keep  *)
(* their "." and ".." and empty parts.  The file system is external: of    *)
(* each directory entry it may have on disk the value of any moment since  *)
(* the directory was last synced.  An interrupted write (EINTR) is tried   *)
(* again and is no step.                                                   *)
(***************************************************************************)
EXTENDS Naturals, Sequences, SequencesExt, FiniteSets, FiniteSetsExt, TLC

CONSTANTS
    Savers,        \* threads that save
    Scenarios,     \* what getenv returns, what is on disk at first, what each thread saves
    TempNames,     \* .sword3-tmp-<pid>-<attempt>, one for each attempt
    MaxSaves,      \* bound: calls
    MaxStops       \* bound: kills and power losses

VARIABLES
    env, asked,
    node,     \* the entries there are: path -> Dir, Link or File(i)
    maybe,    \* entries changed since their directory was synced: path -> values on disk
    inode,    \* the files, by number
    paths,    \* Sword3Paths and the progress of sword3_paths_init
    save,     \* the call of each thread
    acked,    \* history: path -> order of the last rename whose call returned 0
    starved,  \* history: a call that got no temporary ended while another was under way
    stops
savedVars == <<env, asked, node, maybe, inode, paths, save, acked, starved, stops>>

None == [k |-> "none", id |-> 0]
Dir == [k |-> "dir", id |-> 0]
Link == [k |-> "link", id |-> 0]
File(i) == [k |-> "file", id |-> i]
Unset == [abs |-> FALSE, parts |-> <<>>]

Down == [pc |-> "down", root |-> <<>>, depth |-> 0, handle |-> FALSE]
NoCall == [pc |-> "idle", rel |-> Unset, fd |-> <<>>, pending |-> "", rest |-> <<>>, try |-> 1,
            size |-> 0, id |-> 0, temporary |-> ""]

ASSUME SavedFilesAssumption ==
    /\ \A sc \in Scenarios :
         /\ \A p \in DOMAIN sc.tree : sc.tree[p] \in {Dir, Link, File(0)}
         /\ \A dir \in {sc.env.data, sc.env.xdg, sc.env.home} : dir.parts \in Seq(STRING)
         /\ \A t \in Savers : \A r \in sc.asked[t] : r.rel.parts \in Seq(STRING) /\ r.size \in Nat
    /\ TempNames \in Seq(STRING \ {"", ".", ".."}) /\ TempNames # <<>>
    /\ MaxSaves \in Nat /\ MaxStops \in Nat

SavedInit ==
    /\ \E sc \in Scenarios : env = sc.env /\ node = sc.tree /\ asked = sc.asked
    /\ maybe = <<>> /\ inode = <<>>
    /\ paths = Down
    /\ save = [t \in Savers |-> NoCall]
    /\ acked = <<>> /\ starved = FALSE /\ stops = 0

-----------------------------------------------------------------------------
(* The file system.                                                        *)
Entry(p) == IF p = <<>> THEN Dir ELSE IF p \in DOMAIN node THEN node[p] ELSE None
OnDisk(p) == IF p \in DOMAIN maybe THEN maybe[p] ELSE {Entry(p)}
Without(f, S) == [p \in DOMAIN f \ S |-> f[p]]

\* Entry p becomes v; a loss of power may leave what it was, or v.
Put(entries) ==
    /\ node' = [p \in {q \in DOMAIN node \cup DOMAIN entries :
                        ~(q \in DOMAIN entries /\ entries[q] = None)} |->
                  IF p \in DOMAIN entries THEN entries[p] ELSE node[p]]
    /\ maybe' = [p \in DOMAIN maybe \cup DOMAIN entries |->
                   OnDisk(p) \cup (IF p \in DOMAIN entries THEN {entries[p]} ELSE {})]
Children(d, S) == {p \in S : Len(p) = Len(d) + 1 /\ IsPrefix(d, p)}

-----------------------------------------------------------------------------
(* Names.                                                                  *)

\* normalize_absolute
Step(done, part) ==
    IF part \in {"", "."} THEN done
    ELSE IF part # ".." THEN Append(done, part)
    ELSE IF done = <<>> THEN done ELSE Front(done)
Walked(start, parts) ==
    LET done[n \in 0..Len(parts)] == IF n = 0 THEN start ELSE Step(done[n - 1], parts[n]) IN done[Len(parts)]
Normalize(parts) == Walked(<<>>, parts)

\* join_relative, of sword3_paths_resource and sword3_paths_data
Joinable(rel) == ~rel.abs /\ ".." \notin ToSet(rel.parts)
Join(root, rel) == Walked(root, rel.parts)

\* sword3_paths_data
DataPath(rel) == IF Joinable(rel) THEN Join(paths.root, rel) ELSE <<"refused">>

\* make_data_root
DataRoot ==
    IF env.data # Unset THEN [ok |-> env.data.abs, at |-> Normalize(env.data.parts)]
    ELSE IF env.xdg # Unset
    THEN [ok |-> env.xdg.abs, at |-> Normalize(env.xdg.parts \o <<"sword3">>)]
    ELSE [ok |-> env.home.abs, at |-> Normalize(env.home.parts \o <<".local", "share", "sword3">>)]

-----------------------------------------------------------------------------
(* sword3_paths_init.                                                      *)

\* The bundle must be named and absolute before the data directory is
\* touched.
PathsInit ==
    /\ paths.pc = "down"
    /\ env.bundle.abs /\ DataRoot.ok
    /\ paths' = [paths EXCEPT !.pc = "mkdirs", !.root = DataRoot.at, !.depth = 1]
    /\ UNCHANGED <<env, asked, node, maybe, inode, save, acked, stops>>

\* sword3_paths_mkdirs: the directories on the way down, then the path
\* itself.  What is there already must be a directory; stat follows links.
MkdirsNext ==
    LET at == SubSeq(paths.root, 1, paths.depth) IN
    /\ paths.pc = "mkdirs" /\ paths.depth <= Len(paths.root)
    /\ Entry(at).k # "file"
    /\ IF Entry(at) = None THEN Put([p \in {at} |-> Dir]) ELSE UNCHANGED <<node, maybe>>
    /\ paths' = [paths EXCEPT !.depth = @ + 1]
    /\ UNCHANGED <<env, asked, inode, save, acked, stops>>

\* The handle that later writes are anchored at: above standard input.
PathsOpen ==
    /\ paths.pc = "mkdirs" /\ paths.depth > Len(paths.root)
    /\ paths' = [paths EXCEPT !.pc = "up", !.handle = TRUE]
    /\ UNCHANGED <<env, asked, node, maybe, inode, save, acked, stops>>

\* A call that fails: nothing is kept but the directories already made.
PathsInitFails ==
    /\ paths.pc = "mkdirs"
    /\ paths' = Down
    /\ UNCHANGED <<env, asked, node, maybe, inode, save, acked, stops>>

\* sword3_paths_destroy, by an owner whose threads are done
PathsDestroy ==
    /\ paths.pc = "up" /\ \A t \in Savers : save[t].pc = "idle"
    /\ paths' = Down
    /\ UNCHANGED <<env, asked, node, maybe, inode, save, acked, stops>>

-----------------------------------------------------------------------------
(* sword3_paths_atomic_write.                                              *)

Set(t, s) == save' = [save EXCEPT ![t] = s]
Name(s, leaf) == Append(s.fd, leaf)

\* open_data_parent, up to its walk.  An absolute name is refused.
AtomicWrite(t) ==
    /\ save[t].pc = "idle" /\ paths.handle
    /\ Len(inode) < MaxSaves
    /\ \E r \in asked[t] :
         /\ ~r.rel.abs
         /\ Set(t, [NoCall EXCEPT !.pc = "walk", !.rel = r.rel, !.fd = paths.root, !.size = r.size,
                                   !.rest = r.rel.parts])
    /\ UNCHANGED <<env, asked, node, maybe, inode, paths, acked, stops>>

\* The walk to the directory of the file: each part but the last is created
\* if it is missing, and entered if it is a directory and no link.
Refused(s) ==
    LET part == Head(s.rest) IN
    IF s.rest = <<>> THEN s.pending = ""
    ELSE \/ part = ".."
         \/ part \notin {"", "."} /\ s.pending # "" /\ Entry(Name(s, s.pending)).k \in {"link", "file"}
Walk(t) ==
    LET s == save[t]
        part == Head(s.rest)
    IN
    /\ s.pc = "walk" /\ ~Refused(s)
    /\ IF s.rest = <<>> THEN Set(t, [s EXCEPT !.pc = "temp"]) /\ UNCHANGED <<node, maybe>>
       ELSE IF part \in {"", "."} THEN Set(t, [s EXCEPT !.rest = Tail(@)]) /\ UNCHANGED <<node, maybe>>
       ELSE /\ Set(t, [s EXCEPT !.rest = Tail(@), !.pending = part,
                                !.fd = IF s.pending = "" THEN @ ELSE Name(s, s.pending)])
            /\ IF s.pending # "" /\ Entry(Name(s, s.pending)) = None
               THEN Put([p \in {Name(s, s.pending)} |-> Dir]) ELSE UNCHANGED <<node, maybe>>
    /\ UNCHANGED <<env, asked, inode, paths, acked, stops>>

\* O_CREAT | O_EXCL: a name that is taken, by a thread or left by a killed
\* process of the same number, is passed over.  The buffer has the name of
\* the last attempt, whether the file is this call's or not.
Temporary(t) ==
    LET s == save[t]
        name == TempNames[s.try]
    IN
    /\ s.pc = "temp" /\ s.try <= Len(TempNames)
    /\ IF Entry(Name(s, name)) # None
       THEN Set(t, [s EXCEPT !.try = @ + 1, !.temporary = name]) /\ UNCHANGED <<node, maybe, inode>>
       ELSE /\ inode' = Append(inode, [size |-> s.size, len |-> 0, synced |-> FALSE, ord |-> 0])
            /\ Put([p \in {Name(s, name)} |-> File(Len(inode) + 1)])
            /\ Set(t, [s EXCEPT !.pc = "write", !.id = Len(inode) + 1, !.temporary = name])
    /\ UNCHANGED <<env, asked, paths, acked, stops>>

\* write_all: as much as the system takes, until nothing is left.
WriteAll(t) ==
    LET s == save[t] IN
    /\ s.pc = "write"
    /\ IF inode[s.id].len = s.size
       THEN Set(t, [s EXCEPT !.pc = "sync"]) /\ UNCHANGED inode
       ELSE /\ \E n \in (inode[s.id].len + 1)..s.size : inode' = [inode EXCEPT ![s.id].len = n]
            /\ UNCHANGED save
    /\ UNCHANGED <<env, asked, node, maybe, paths, acked, stops>>

\* Mutant: the file is renamed without being synced.
SyncNever(t) ==
    /\ save[t].pc = "sync"
    /\ Set(t, [save[t] EXCEPT !.pc = "rename"])
    /\ UNCHANGED <<env, asked, node, maybe, inode, paths, acked, stops>>

\* fsync and close of the temporary
Sync(t) ==
    /\ save[t].pc = "sync"
    /\ inode' = [inode EXCEPT ![save[t].id].synced = TRUE]
    /\ Set(t, [save[t] EXCEPT !.pc = "rename"])
    /\ UNCHANGED <<env, asked, node, maybe, paths, acked, stops>>

LastOrder == LET S == {0} \cup {inode[i].ord : i \in DOMAIN inode} IN CHOOSE n \in S : \A m \in S : m <= n

\* renameat: what the temporary's name stands for now takes the place of what
\* was there, at once.  From here on that name is no longer this call's.
Rename(t) ==
    LET s     == save[t]
        moved == Entry(Name(s, s.temporary))
    IN
    /\ s.pc = "rename" /\ Entry(Name(s, s.pending)) # Dir
    /\ moved.k = "file"
    /\ Put([p \in {Name(s, s.temporary), Name(s, s.pending)} |->
              IF p = Name(s, s.pending) THEN moved ELSE None])
    /\ inode' = [inode EXCEPT ![moved.id].ord = LastOrder + 1]
    /\ Set(t, [s EXCEPT !.pc = "syncdir", !.temporary = ""])
    /\ UNCHANGED <<env, asked, paths, acked, stops>>

\* The end of a call that returns 0: the caller may now rely on the file
\* that sword3_paths_data names.
Return(t) ==
    LET s == save[t]
        p == DataPath(s.rel)
    IN
    /\ acked' = [q \in DOMAIN acked \cup {p} |->
                   IF q = p /\ (p \notin DOMAIN acked \/ acked[p] < inode[s.id].ord)
                   THEN inode[s.id].ord ELSE acked[q]]
    /\ Set(t, NoCall)

\* fsync of the directory
SyncDir(t) ==
    /\ save[t].pc = "syncdir"
    /\ maybe' = Without(maybe, Children(save[t].fd, DOMAIN maybe))
    /\ Return(t)
    /\ UNCHANGED <<env, asked, node, inode, paths, stops>>

\* A system call fails, a name is refused, or every temporary's name is
\* taken: the call cleans up.  A failing openat leaves its attempt's name in
\* the buffer.  When only the directory's fsync failed the file has been
\* replaced all the same.
SaveFails(t) ==
    LET s == save[t] IN
    /\ s.pc \in {"walk", "temp", "write", "sync", "rename", "syncdir"}
    /\ Set(t, [s EXCEPT !.pc = "done",
                        !.temporary = IF s.pc = "temp" /\ s.try <= Len(TempNames) THEN TempNames[s.try] ELSE @])
    /\ UNCHANGED <<env, asked, node, maybe, inode, paths, acked, stops>>

\* done: what the buffer names is removed, whoever created it.
CleanUp(t) ==
    LET s == save[t] IN
    /\ s.pc = "done"
    /\ IF s.temporary # "" /\ Entry(Name(s, s.temporary)).k \in {"file", "link"}
       THEN Put([p \in {Name(s, s.temporary)} |-> None]) ELSE UNCHANGED <<node, maybe>>
    /\ Set(t, NoCall)
    /\ UNCHANGED <<env, asked, inode, paths, acked, stops>>

\* The temporary of a call that created one; the name of a call that did not.
Owns(s) == s.id # 0 /\ s.temporary # ""
Stray(s) == s.pc = "done" /\ s.id = 0 /\ s.temporary # ""

-----------------------------------------------------------------------------
(* Faults.                                                                 *)

\* The process is killed; what it did to the file system stays.
Kill ==
    /\ stops < MaxStops /\ stops' = stops + 1
    /\ paths.pc # "down"
    /\ paths' = Down /\ save' = [t \in Savers |-> NoCall]
    /\ UNCHANGED <<env, asked, node, maybe, inode, acked>>

\* The choices of one value on disk for each entry that changed, of which one
\* more entry is decided at a time.
Decided(f) ==
    LET p == CHOOSE q \in DOMAIN maybe \ DOMAIN f : TRUE
    IN  IF DOMAIN maybe \subseteq DOMAIN f THEN {f}
        ELSE {[q \in DOMAIN f \cup {p} |-> IF q = p THEN v ELSE f[q]] : v \in maybe[p]}
Survivals ==
    LET left[n \in Nat] == IF n = 0 THEN {<<>>} ELSE UNION {Decided(f) : f \in left[n - 1]}
    IN  left[Cardinality(DOMAIN maybe)]

\* The power fails.  Of each entry some value since the last fsync is left,
\* entries below a directory that was not left are gone, and so is what a
\* file held that was not synced.
PowerLoss ==
    /\ stops < MaxStops /\ stops' = stops + 1
    /\ \E left \in Survivals :
         LET all == [p \in DOMAIN left \cup DOMAIN node |-> IF p \in DOMAIN left THEN left[p] ELSE node[p]]
             Kept(p) == /\ all[p] # None
                        /\ \A n \in 1..(Len(p) - 1) :
                             LET q == SubSeq(p, 1, n) IN q \in DOMAIN all => all[q] = Dir
         IN node' = [p \in {q \in DOMAIN all : Kept(q)} |-> all[p]]
    /\ maybe' = <<>>
    /\ inode' = [i \in DOMAIN inode |-> IF inode[i].synced THEN inode[i] ELSE [inode[i] EXCEPT !.len = 0]]
    /\ paths' = Down /\ save' = [t \in Savers |-> NoCall]
    /\ acked' = [p \in {q \in DOMAIN acked : Entry(q)' # None} |-> acked[p]]
    /\ UNCHANGED <<env, asked>>

SavedStep ==
    \/ PathsInit \/ MkdirsNext \/ PathsOpen \/ PathsInitFails \/ PathsDestroy
    \/ \E t \in Savers :
         \/ AtomicWrite(t) \/ Walk(t) \/ Temporary(t) \/ WriteAll(t) \/ Sync(t)
         \/ Rename(t) \/ SyncDir(t) \/ SaveFails(t) \/ CleanUp(t)
    \/ Kill \/ PowerLoss

\* Every call that failed to get a temporary is the only one under way.
StraysAlone == \A t \in Savers : Stray(save[t]) => \A u \in Savers \ {t} : save[u].pc = "idle"

SavedNext == SavedStep /\ starved' = (starved \/ ~StraysAlone')

SavedSpec == SavedInit /\ [][SavedNext]_savedVars

-----------------------------------------------------------------------------
(* Properties.                                                             *)

\* "Atomically replace a persistent-data file" (paths.h): whatever stops a
\* call, a kill, a loss of power or a failed write, the file saved under a
\* name is the old one or the new one, whole; and once a call has returned 0
\* no earlier content can come back, even by a loss of power, unless that
\* also takes a directory the call had to create, whose own entry nothing
\* syncs.  With calls that overlap it fails: one that could not open a
\* temporary removes the one another call writes, a third takes the name, and
\* the rename puts its unfinished file in place.
SaveIsWhole ==
    /\ \A p \in DOMAIN node \cup DOMAIN maybe : \A v \in OnDisk(p) \cup {Entry(p)} :
         v.k = "file" /\ v.id # 0 /\ Last(p) \notin ToSet(TempNames) =>
             inode[v.id].synced /\ inode[v.id].len = inode[v.id].size
    /\ \A p \in DOMAIN acked :
         (\A n \in 1..(Len(p) - 1) : OnDisk(SubSeq(p, 1, n)) = {Dir}) =>
             \A v \in OnDisk(p) : v.k = "file" /\ v.id # 0 /\ inode[v.id].ord >= acked[p]

\* A temporary belongs to the call that created it: no thread's clean-up or
\* rename takes the file another thread of the process is writing under the
\* same name, also after kills that left temporaries behind; and nothing is
\* created outside the data directory, whatever names the callers pass.
TemporaryIsOwn ==
    /\ \A t \in Savers : Owns(save[t]) => Entry(Name(save[t], save[t].temporary)) = File(save[t].id)
    /\ \A p \in DOMAIN node : Entry(p).k = "file" /\ Entry(p).id # 0 => IsPrefix(DataRoot.at, p) /\ ".." \notin ToSet(p)

\* Saving replaces whole files, and touches no file but its own: any number of
\* overlapping calls, kills, losses of power and failures, as long as a call
\* that could not open a temporary (an error of openat, or every name taken)
\* never overlapped another one; done alone, its clean-up does no harm either.
SavesAreAtomic == ~starved => SaveIsWhole /\ TemporaryIsOwn
=============================================================================
