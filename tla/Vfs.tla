-------------------------------- MODULE Vfs --------------------------------
(***************************************************************************)
(* The virtual file system of zuban (crate vfs) together with the part of  *)
(* the type checker that reads it: import resolution, which registers the  *)
(* importing file with the entries it looked at, and the invalidation that *)
(* follows those registrations when a file changes.                        *)
(*                                                                         *)
(* One workspace is modelled.  Its root holds files and directories; a     *)
(* directory holds files.  The module composes the tree of entries         *)
(* (tree.rs), the file states (vfs.rs), the import caches of the files     *)
(* (imports.rs, file/imports.rs), the disk with its change notifications   *)
(* (local_fs.rs) and the editor that opens, edits and closes documents.    *)
(* Rust's exclusive borrow makes every operation on the database atomic;   *)
(* the disk changes between any two of them.                               *)
(***************************************************************************)
EXTENDS Integers, FiniteSets, Sequences

CONSTANTS
  Path,      \* normalized paths of files in the workspace
  Dir,       \* directories below the root of the workspace
  Mod,       \* module names that are imported
  Code,      \* contents of a file
  Holder,    \* Holder[p]: the directory of Dir that holds p, or Root
  Source,    \* Source[m]: the path of m.py, or NoPath
  Stub,      \* Stub[m]: the path of m.pyi, or NoPath
  Package,   \* Package[m]: the directory m, or NoPath
  InitStub,  \* InitStub[d]: the path of d/__init__.pyi, or NoPath
  InitFile,  \* InitFile[d]: the path of d/__init__.py, or NoPath
  Builtins,  \* the typeshed stubs loaded with the database, or NoPath
  Editable,  \* the paths the editor opens
  Root, NoPath, NoCode,
  MaxFile,   \* bound: file states ever created
  MaxGen,    \* bound: entries of one path that are alive at a time
  MaxQueue,  \* bound: notifications waiting in the watcher's channel
  MaxPanic   \* bound: panics (or reindexes) the server recovers from

Node == Path \cup Dir
FileIndex == 1..MaxFile
Entry == Path \X (1..MaxGen)

ASSUME LayoutAssumption ==
  /\ NoPath \notin Node /\ Root \notin Node
  /\ NoCode \notin Code
  /\ Path \cap Dir = {}
  /\ Holder \in [Path -> Dir \cup {Root}]
  /\ Source \in [Mod -> Path \cup {NoPath}]
  /\ Stub \in [Mod -> Path \cup {NoPath}]
  /\ Package \in [Mod -> Dir \cup {NoPath}]
  /\ InitStub \in [Dir -> Path \cup {NoPath}]
  /\ InitFile \in [Dir -> Path \cup {NoPath}]
  /\ Builtins \in Path \cup {NoPath}
  /\ Builtins # NoPath => Holder[Builtins] = Root
  /\ Editable \subseteq Path

ASSUME BoundAssumption ==
  /\ MaxFile \in Nat /\ MaxGen \in Nat \ {0} /\ MaxQueue \in Nat /\ MaxPanic \in Nat
  /\ Builtins # NoPath => MaxFile > 0

(* What an import statement can be cached as, besides a file index.        *)
Uncached  == 0
NotFound  == -1
Namespace == -2

VARIABLES
  disk,     \* disk[p]: the contents of p in the real file system, or NoCode
  dirs,     \* the directories that exist in the real file system
  watched,  \* the directories whose changes the operating system reports
  queue,    \* notifications not yet handled by the server
  tree,     \* tree[n]: what the workspace's entries say about n
  entry,    \* entry[e]: the FileEntry e
  files,    \* files[i]: the FileState of file index i
  inmem,    \* inmem[p]: the index of the in-memory file p, or 0
  changed,  \* in-memory files whose diagnostics must be published again
  editor,   \* editor[p]: the text of p in the editor, or NoCode
  panics    \* panics so far

envVars == <<disk, dirs, watched, queue>>
vars == <<disk, dirs, watched, queue, tree, entry, files, inmem, changed,
          editor, panics>>

-----------------------------------------------------------------------------
(* Entries and file states                                                 *)

NoSlot         == [kind |-> "none",    gen |-> 0, invs |-> {}, read |-> FALSE]
MissingSlot(S) == [kind |-> "missing", gen |-> 0, invs |-> S,  read |-> FALSE]
FileSlot(e)    == [kind |-> "file", gen |-> e[2], invs |-> {}, read |-> FALSE]
DirSlot(r)     == [kind |-> "dir",     gen |-> 0, invs |-> {}, read |-> r]

Slot == [kind : {"none", "missing", "file", "dir"}, gen : 0..MaxGen,
         invs : SUBSET FileIndex, read : BOOLEAN]

EntryRecord == [idx : 0..MaxFile, invs : SUBSET FileIndex, db : BOOLEAN]
BlankEntry  == [idx |-> 0, invs |-> {}, db |-> FALSE]

NoCache == [m \in Mod |-> Uncached]
Cache   == [Mod -> FileIndex \cup {Uncached, NotFound, Namespace}]

FileState == [path : Path, gen : 1..MaxGen,
              code : Code \cup {NoCode}, cache : Cache]

NewState(e, c) == [path |-> e[1], gen |-> e[2], code |-> c, cache |-> NoCache]

EntryOf(F, i)   == <<F[i].path, F[i].gen>>
EntryAt(T, p)   == <<p, T[p].gen>>
IsFile(T, n)    == n # NoPath /\ T[n].kind = "file"
Open            == {p \in Path : inmem[p] # 0}
Inside(d)       == {p \in Path : Holder[p] = d}

(* Mutant of Live: file states do not keep their entry alive.              *)
LiveInTree(T, F) == {EntryAt(T, p) : p \in {q \in Path : T[q].kind = "file"}}

(* The entries some Arc still refers to: from the tree or a file state.    *)
Live(T, F) == {EntryAt(T, p) : p \in {q \in Path : T[q].kind = "file"}}
                \cup {EntryOf(F, i) : i \in DOMAIN F}

(* A FileEntry is freed with its last Arc.                                 *)
Collect(T, F, E) ==
  LET live == Live(T, F)
  IN  [e \in Entry |-> IF e \in live THEN E[e] ELSE BlankEntry]

(* The entries of p that a new FileEntry may be.                           *)
Unused(p) == ({p} \X (1..MaxGen)) \ Live(tree, files)
HasFresh(p) == Unused(p) # {}
Fresh(p) == CHOOSE e \in Unused(p) : TRUE

(* read_and_watch_dir: the slots of the children of d as the disk has them.*)
Listing(T, d) ==
  [n \in Node |->
     IF n \in Inside(d) /\ ~T[d].read
     THEN IF disk[n] # NoCode THEN FileSlot(Fresh(n)) ELSE NoSlot
     ELSE IF n = d THEN DirSlot(TRUE) ELSE T[n]]
CanList(d) == \A p \in Inside(d) : disk[p] # NoCode => HasFresh(p)

Visible(T, p) == Holder[p] = Root \/ T[Holder[p]].read

-----------------------------------------------------------------------------
(* Invalidation                                                            *)

(* Mutant of Reach: dependents of dependents are forgotten.                *)
ReachOnce(S) ==
  S \cup UNION {entry[EntryOf(files, j)].invs : j \in S}

(* The files an invalidation that starts with the indexes S gets to: the   *)
(* recursion takes the invalidations of every file it visits, so it visits *)
(* each file once and ends with the closure of S.                          *)
Reach(S) ==
  {i \in DOMAIN files :
     \A R \in SUBSET DOMAIN files :
       (S \subseteq R /\ \A j \in R : entry[EntryOf(files, j)].invs \subseteq R)
         => i \in R}

HitsDb(R) == \E j \in R : entry[EntryOf(files, j)].db

(* Mutants of Announce: nobody is told when the whole database goes, or    *)
(* when a dependent does.                                                  *)
AnnounceNoDb(R, N, O) == changed \cup N \cup ({files[j].path : j \in R} \cap O)
AnnounceOpened(R, N, O) == changed \cup N

(* on_invalidated_in_memory_file, called for the open documents among the  *)
(* files an invalidation gets to, and for all of them when an entry with   *)
(* InvalidatesDb is met.  N are announced in any case, O are open.         *)
Announce(R, N, O) ==
  changed \cup N \cup (IF HitsDb(R) THEN O
                       ELSE {files[j].path : j \in R} \cap O)

(* Mutant of Forget: the cache is dropped, not emptied.                    *)
DropCache(F, R) == [j \in DOMAIN F |->
                      IF j \in R THEN [F[j] EXCEPT !.cache = <<>>] ELSE F[j]]

(* VfsFile::invalidate_references_to: every import was cached with         *)
(* Locality::Complex, so whatever the argument is all of them go.          *)
Forget(F, R) == [j \in DOMAIN F |->
                   IF j \in R THEN [F[j] EXCEPT !.cache = NoCache] ELSE F[j]]

Unload(F, R) == [j \in DOMAIN F |->
                   IF j \in R THEN [F[j] EXCEPT !.code = NoCode,
                                                !.cache = NoCache]
                              ELSE F[j]]

(* Invalidations::take on every visited entry; InvalidatesDb is kept.      *)
Taken(E, R) ==
  [e \in Entry |-> IF ~E[e].db /\ \E j \in R : EntryOf(files, j) = e
                   THEN [E[e] EXCEPT !.invs = {}] ELSE E[e]]

(* Mutant of AddInv: only the first dependent is registered.               *)
AddFirstInv(E, e, f) ==
  IF E[e].db \/ E[e].invs # {} THEN E ELSE [E EXCEPT ![e].invs = {f}]

AddInv(E, e, f) ==
  IF E[e].db THEN E ELSE [E EXCEPT ![e].invs = @ \cup {f}]

Finish(T, F, E) ==
  /\ tree' = T
  /\ files' = F
  /\ entry' = Collect(T, F, E)

(* Mutant of Regenerate: the builtins stay unloaded.                       *)
KeepUnloaded(T, F, E) == Finish(T, F, E)

(* generate_python_state loads the builtins again when they are not        *)
(* loaded.  A new file state of theirs has InvalidatesDb.                  *)
Regenerate(T, F, E) ==
  LET e == EntryAt(T, Builtins)
      i == E[e].idx
  IN  IF Builtins = NoPath \/ (i # 0 /\ F[i].code # NoCode)
      THEN Finish(T, F, E)
      ELSE IF i # 0
      THEN Finish(T, [F EXCEPT ![i].code = disk[Builtins]], E)
      ELSE /\ Len(F) < MaxFile
           /\ Finish(T, Append(F, NewState(e, disk[Builtins])),
                     [E EXCEPT ![e] = [idx |-> Len(F) + 1, invs |-> {},
                                       db |-> TRUE]])

(* The end of every operation that invalidates: the files R lose their     *)
(* caches and the in-memory ones among them are announced.  When an entry  *)
(* with InvalidatesDb is met the recursion stops (V is what it had taken)  *)
(* and the database drops every cache.                                     *)
Settle(T, F, E, R, N, O) ==
  /\ changed' = Announce(R, N, O)
  /\ \/ /\ ~HitsDb(R)
        /\ Finish(T, Forget(F, R), Taken(E, R))
     \/ /\ HitsDb(R)
        /\ \E V \in SUBSET R :
             Regenerate(T, Forget(F, DOMAIN F), Taken(E, V))

-----------------------------------------------------------------------------
(* Imports and loading                                                     *)

IsDir(T, d) == d # NoPath /\ T[d].kind = "dir"

(* python_import: folders with an __init__ come first, then .pyi, then .py *)
Target(T, m) ==
  LET d == Package[m]
  IN  IF IsDir(T, d) /\ IsFile(T, InitStub[d]) THEN InitStub[d]
      ELSE IF IsDir(T, d) /\ IsFile(T, InitFile[d]) THEN InitFile[d]
      ELSE IF IsFile(T, Stub[m]) THEN Stub[m]
      ELSE IF IsFile(T, Source[m]) THEN Source[m]
      ELSE NoPath

(* The names the lookup registers as missing for the importing file.       *)
MissingNames(T, m) ==
  LET d == Package[m]
      inits == IF ~IsDir(T, d) \/ IsFile(T, InitStub[d]) THEN {}
               ELSE {InitStub[d]} \cup
                    (IF IsFile(T, InitFile[d]) THEN {} ELSE {InitFile[d]})
      names == IF Target(T, m) # NoPath THEN {}
               ELSE {Stub[m], Source[m]} \cup (IF IsDir(T, d) THEN {} ELSE {d})
  IN  (inits \cup names) \ {NoPath}

(* Mutant of AddMissing: a second importer is not registered.              *)
AddMissingOnce(T, M, f) ==
  [n \in Node |-> IF n \in M /\ T[n].kind = "none" THEN MissingSlot({f}) ELSE T[n]]

(* add_missing_entry_callback                                              *)
AddMissing(T, M, f) ==
  [n \in Node |-> IF n \notin M THEN T[n]
                  ELSE IF T[n].kind = "none" THEN MissingSlot({f})
                  ELSE [T[n] EXCEPT !.invs = @ \cup {f}]]

(* File f resolves the import of m and caches the result.                  *)
Import(f, m) ==
  /\ f \in DOMAIN files
  /\ files[f].code # NoCode
  /\ files[f].cache[m] = Uncached
  /\ IsDir(tree, Package[m]) => CanList(Package[m])
  /\ LET d  == Package[m]
         T0 == IF IsDir(tree, d) THEN Listing(tree, d) ELSE tree
         T1 == AddMissing(T0, MissingNames(T0, m), f)
         p  == Target(T0, m)
         e  == EntryAt(T0, p)
         i  == entry[e].idx
     IN  /\ watched' = watched \cup (dirs \cap {d})
         /\ \/ /\ p = NoPath
               /\ Finish(T1, [files EXCEPT ![f].cache[m] =
                                IF IsDir(T0, d) THEN Namespace ELSE NotFound],
                         entry)
            \/ /\ p # NoPath
               /\ i # 0
               /\ Finish(T1, [files EXCEPT ![f].cache[m] = i],
                         AddInv(entry, e, f))
            \/ /\ p # NoPath
               /\ i = 0
               /\ Len(files) < MaxFile
               /\ Finish(T1, Append([files EXCEPT ![f].cache[m] =
                                       Len(files) + 1],
                                    NewState(e, NoCode)),
                         AddInv([entry EXCEPT ![e].idx = Len(files) + 1], e, f))
  /\ UNCHANGED <<disk, dirs, queue, inmem, changed, editor, panics>>

Referenced(i) ==
  \/ \E f \in DOMAIN files, m \in Mod : files[f].cache[m] = i
  \/ \E p \in Path : IsFile(tree, p) /\ entry[EntryAt(tree, p)].idx = i

(* ensure_file_for_file_index: the code is read when it is first needed.   *)
Load(i) ==
  /\ i \in DOMAIN files
  /\ Referenced(i)
  /\ files[i].code = NoCode
  /\ disk[files[i].path] # NoCode
  /\ files' = [files EXCEPT ![i].code = disk[files[i].path]]
  /\ UNCHANGED <<envVars, tree, entry, inmem, changed, editor, panics>>

(* ensure_file_for_file_entry of an entry that has no index yet, the way   *)
(* the files of the workspace are loaded to be checked.                    *)
LoadEntry(p) ==
  /\ IsFile(tree, p)
  /\ entry[EntryAt(tree, p)].idx = 0
  /\ disk[p] # NoCode
  /\ Len(files) < MaxFile
  /\ Finish(tree, Append(files, NewState(EntryAt(tree, p), disk[p])),
            [entry EXCEPT ![EntryAt(tree, p)].idx = Len(files) + 1])
  /\ UNCHANGED <<envVars, inmem, changed, editor, panics>>

(* Directory::entries, the first time somebody walks into d.               *)
Enter(d) ==
  /\ tree[d].kind = "dir"
  /\ ~tree[d].read
  /\ CanList(d)
  /\ tree' = Listing(tree, d)
  /\ watched' = watched \cup (dirs \cap {d})
  /\ UNCHANGED <<entry, files, changed>>

ReadDir(d) ==
  /\ Enter(d)
  /\ UNCHANGED <<disk, dirs, queue, inmem, editor, panics>>

-----------------------------------------------------------------------------
(* The editor                                                              *)

(* store_in_memory_file: didOpen and didChange.                            *)
StoreInMemory(p, c) ==
  /\ p \in Editable
  /\ Holder[p] # Root => CanList(Holder[p])
  /\ HasFresh(p)
  /\ LET d  == Holder[p]
         T0 == IF d = Root THEN tree ELSE Listing(tree, d)
         e  == IF T0[p].kind = "file" THEN EntryAt(T0, p) ELSE Fresh(p)
         T1 == [T0 EXCEPT ![p] = FileSlot(e)]
         invs == T0[p].invs \cup (IF d = Root THEN {} ELSE tree[d].invs)
         i  == IF inmem[p] # 0 THEN inmem[p] ELSE entry[e].idx
     IN  /\ watched' = watched \cup (dirs \cap {d})
         /\ \/ /\ i # 0
               /\ files[i].code = c
               /\ Finish(T1, files, entry)
               /\ changed' = changed \cup {p}
               /\ inmem' = [inmem EXCEPT ![p] = i]
            \/ /\ i # 0
               /\ files[i].code # c
               /\ inmem' = [inmem EXCEPT ![p] = i]
               /\ Settle(T1, [files EXCEPT ![i] = NewState(e, c)],
                         IF HitsDb(Reach({i}))
                         THEN [entry EXCEPT ![e].db = TRUE, ![e].invs = {}]
                         ELSE entry,
                         Reach({i} \cup invs), {p}, Open \cup {p})
            \/ /\ i = 0
               /\ Len(files) < MaxFile
               /\ inmem' = [inmem EXCEPT ![p] = Len(files) + 1]
               /\ Settle(T1, Append(files, NewState(e, c)),
                         [entry EXCEPT ![e].idx = Len(files) + 1],
                         Reach(invs), {p}, Open \cup {p})
  /\ editor' = [editor EXCEPT ![p] = c]
  /\ UNCHANGED <<disk, dirs, queue, panics>>

(* close_in_memory_file: the file on disk takes over, if there is one.     *)
Close(p) ==
  /\ inmem[p] # 0
  /\ LET i == inmem[p]
         F == [files EXCEPT ![i].code = disk[p], ![i].cache = NoCache]
         T == IF IsFile(tree, p) THEN [tree EXCEPT ![p] = NoSlot] ELSE tree
     IN  \/ /\ disk[p] # NoCode
            /\ disk[p] = files[i].code
            /\ UNCHANGED <<tree, entry, files, changed>>
         \/ /\ disk[p] # NoCode
            /\ disk[p] # files[i].code
            /\ Settle(tree, F, entry, Reach({i}), {}, Open \ {p})
         \/ /\ disk[p] = NoCode
            /\ Settle(T, F, entry, Reach({i}), {}, Open \ {p})
  /\ inmem' = [inmem EXCEPT ![p] = 0]
  /\ editor' = [editor EXCEPT ![p] = NoCode]
  /\ UNCHANGED <<envVars, panics>>

(* publish_diagnostics_if_necessary takes the whole list.                  *)
Publish ==
  /\ changed # {}
  /\ changed' = {}
  /\ UNCHANGED <<envVars, tree, entry, files, inmem, editor, panics>>

-----------------------------------------------------------------------------
(* Notifications                                                           *)

OnDisk(n) == IF n \in Dir THEN n \in dirs ELSE disk[n] # NoCode

(* walk_entries: the entry n and, when it is a directory, what is in it.   *)
Walk(n) == {n} \cup (IF n \in Dir /\ tree[n].read THEN Inside(n) ELSE {})

(* n lies in a directory of the tree that nobody has walked into.          *)
Unread(n) ==
  /\ n \in Path
  /\ inmem[n] = 0
  /\ IF Holder[n] = Root THEN FALSE
     ELSE tree[Holder[n]].kind = "dir" /\ ~tree[Holder[n]].read

(* Mutant of Irrelevant: a directory that was seen is never looked at.     *)
IrrelevantDir(n) ==
  \/ n \in Path /\ inmem[n] # 0
  \/ n \in Path /\ IF Holder[n] = Root THEN FALSE ELSE tree[Holder[n]].kind # "dir"
  \/ n \in Dir /\ tree[n].kind = "dir"

(* search_potential_parent_for_invalidation, and the two tests before any  *)
(* entry is touched: in-memory files override the file system, and events  *)
(* of a directory that still is one do not matter.                         *)
Irrelevant(n) ==
  \/ n \in Path /\ inmem[n] # 0
  \/ n \in Path /\ IF Holder[n] = Root THEN FALSE ELSE tree[Holder[n]].kind # "dir"
  \/ n \in Dir /\ tree[n].kind = "dir" /\ n \in dirs

(* Mutant of SameCode: a file that was loaded once is taken to be current. *)
SameIndex(n) == n \in Path /\ IsFile(tree, n) /\ entry[EntryAt(tree, n)].idx # 0

(* matches_current_dir_entry                                               *)
SameCode(n) ==
  /\ IsFile(tree, n)
  /\ n \in Path
  /\ LET i == entry[EntryAt(tree, n)].idx
     IN  i # 0 /\ files[i].code # NoCode /\ files[i].code = disk[n]

NothingToDo(n) ==
  \/ Irrelevant(n)
  \/ OnDisk(n) /\ SameCode(n)
  \/ ~OnDisk(n) /\ tree[n].kind = "missing"

(* Mutant of Retained: open documents are removed with their directory.    *)
NoneRetained(idxs) == {}

(* The open documents whose file is among the files that get removed.      *)
Retained(idxs) == {p \in Open : inmem[p] \in idxs}

(* invalidate_path: entry n is replaced, added or removed.                 *)
Replace(n) ==
  LET walked == {p \in Walk(n) : IsFile(tree, p)}
      idxs   == {entry[EntryAt(tree, p)].idx : p \in walked} \ {0}
      kept   == Retained(idxs)
      loose  == idxs \ {inmem[p] : p \in kept}
      invs   == UNION {tree[x].invs : x \in Walk(n)}
      start  == loose \cup invs \cup {inmem[p] : p \in kept}
      slot   == IF ~OnDisk(n) THEN NoSlot
                ELSE IF n \in Dir THEN DirSlot(FALSE) ELSE FileSlot(Fresh(n))
      T1     == [x \in Node |-> IF x = n THEN slot
                                ELSE IF x \in Walk(n) THEN NoSlot
                                ELSE tree[x]]
      \* The in-memory files below a removed directory are put back.
      L      == IF n \in Dir /\ kept # {} THEN Listing(T1, n) ELSE T1
      T2     == [x \in Node |-> IF x \in kept /\ L[x].kind # "file"
                                THEN FileSlot(Fresh(x)) ELSE L[x]]
      E2     == [e \in Entry |->
                   IF e[1] \in kept /\ e = EntryAt(T2, e[1])
                   THEN [entry[e] EXCEPT !.idx = inmem[e[1]]] ELSE entry[e]]
  IN  /\ n \in Path => HasFresh(n)
      /\ \A p \in kept : HasFresh(p)
      /\ kept # {} => CanList(n)
      /\ watched' = watched \cup (dirs \cap {n})
      /\ \/ /\ ~HitsDb(Reach(start))
            /\ Settle(T2, Unload(files, loose), E2, Reach(start), kept, Open)
         \/ /\ HitsDb(Reach(start))
            /\ \E U \in SUBSET loose :
                 /\ HitsDb(Reach(U)) \/ U = loose
                 /\ Settle(T1, Unload(files, U), entry, Reach(start), {}, Open)

(* on_notify_event, for one path.  On the way to a path in a directory     *)
(* nobody has walked into, the directory is read.  That is all: what was   *)
(* just listed has no index and no importers, so to replace it by the same *)
(* changes nothing.                                                        *)
Notify ==
  /\ queue # <<>>
  /\ queue' = Tail(queue)
  /\ LET n == Head(queue)
     IN  \/ /\ Unread(n)
            /\ Enter(Holder[n])
         \/ /\ ~Unread(n) /\ NothingToDo(n)
            /\ watched' = watched \cup (dirs \cap {n})
            /\ UNCHANGED <<tree, entry, files, changed>>
         \/ /\ ~Unread(n) /\ ~NothingToDo(n)
            /\ Replace(n)
  /\ UNCHANGED <<disk, dirs, inmem, editor, panics>>

-----------------------------------------------------------------------------
(* The disk                                                                *)

Report(n, seen) ==
  IF seen THEN /\ Len(queue) < MaxQueue
               /\ queue' = Append(queue, n)
          ELSE queue' = queue

Watches(p) == Holder[p] = Root \/ Holder[p] \in watched

WriteDisk(p, c) ==
  /\ Holder[p] = Root \/ Holder[p] \in dirs
  /\ disk[p] # c
  /\ disk' = [disk EXCEPT ![p] = c]
  /\ Report(p, Watches(p))
  /\ UNCHANGED <<dirs, watched, tree, entry, files, inmem, changed, editor,
                 panics>>

DeleteDisk(p) ==
  /\ p # Builtins
  /\ disk[p] # NoCode
  /\ disk' = [disk EXCEPT ![p] = NoCode]
  /\ Report(p, Watches(p))
  /\ UNCHANGED <<dirs, watched, tree, entry, files, inmem, changed, editor,
                 panics>>

(* A directory appears: an empty one, or one moved here with its files.    *)
MakeDir(d, content) ==
  /\ d \notin dirs
  /\ dirs' = dirs \cup {d}
  /\ disk' = [p \in Path |-> IF p \in Inside(d) THEN content[p] ELSE disk[p]]
  /\ Report(d, TRUE)
  /\ UNCHANGED <<watched, tree, entry, files, inmem, changed, editor, panics>>

(* A directory goes away with what is in it.  The watch goes with it.      *)
RemoveDir(d) ==
  /\ d \in dirs
  /\ dirs' = dirs \ {d}
  /\ watched' = watched \ {d}
  /\ disk' = [p \in Path |-> IF p \in Inside(d) THEN NoCode ELSE disk[p]]
  /\ Report(d, TRUE)
  /\ UNCHANGED <<tree, entry, files, inmem, changed, editor, panics>>

-----------------------------------------------------------------------------
(* Panic recovery, also used to reindex                                    *)

(* Mutant of Kept: only files on disk are recovered.                       *)
KeptOnDisk(i) ==
  /\ i \in DOMAIN files
  /\ files[i].code # NoCode
  /\ disk[files[i].path] # NoCode

(* into_panic_recovery keeps the parsed code of every loaded file; when    *)
(* two states have the same path the first one wins, because               *)
(* FileState::update ignores that there already is a file.                 *)
Kept(i) ==
  /\ i \in DOMAIN files
  /\ files[i].code # NoCode
  /\ \A j \in 1..(i - 1) : files[j].path = files[i].path
                             => files[j].code = NoCode

(* The kept file states in the order in which they are loaded again.       *)
Orders ==
  UNION {{o \in [1..n -> DOMAIN files] :
            /\ \A k \in 1..n : Kept(o[k])
            /\ \A i \in DOMAIN files : Kept(i) => \E k \in 1..n : o[k] = i
            /\ \A j, k \in 1..n : j < k => o[j] < o[k]} :
         n \in 0..Len(files)}

(* The new index of p, or 0.                                               *)
Place(o, p) == IF \E k \in DOMAIN o : files[o[k]].path = p
               THEN CHOOSE k \in DOMAIN o : files[o[k]].path = p ELSE 0

(* Mutant of Reopened: the indexes from before the recovery are kept.      *)
SameIndexes(o) == inmem

(* in_memory_files after the recovery.                                     *)
Reopened(o) == [p \in Path |-> IF p \in Open THEN Place(o, p) ELSE 0]

(* Every open document is announced after a recovery.                      *)
Reannounced == {files[i].path : i \in DOMAIN files} \cap Open

Recover ==
  /\ panics < MaxPanic
  /\ panics' = panics + 1
  /\ \E o \in Orders :
       LET F == [k \in DOMAIN o |-> NewState(<<files[o[k]].path, 1>>,
                                            files[o[k]].code)]
           opened == {d \in Dir : \E p \in Inside(d) : Place(o, p) # 0}
           T == [n \in Node |->
                   IF n \in Dir
                   THEN IF n \in opened THEN DirSlot(TRUE)
                        ELSE IF n \in dirs THEN DirSlot(FALSE) ELSE NoSlot
                   ELSE IF Place(o, n) # 0 \/
                           (disk[n] # NoCode /\ Holder[n] \in opened \cup {Root})
                   THEN FileSlot(<<n, 1>>) ELSE NoSlot]
           E == [e \in Entry |->
                   LET k == Place(o, e[1])
                   IN  IF e[2] = 1 /\ k # 0
                       THEN [idx |-> k, invs |-> {},
                             db |-> entry[EntryOf(files, o[k])].db]
                       ELSE BlankEntry]
       IN  /\ Regenerate(T, F, E)
           /\ inmem' = Reopened(o)
           /\ changed' = Reannounced
           /\ queue' = <<>>
           /\ watched' = opened \cap dirs
           /\ UNCHANGED <<disk, dirs, editor>>

-----------------------------------------------------------------------------

Init ==
  /\ dirs \in SUBSET Dir
  /\ disk \in [Path -> Code \cup {NoCode}]
  /\ \A p \in Path : Holder[p] \in Dir \ dirs => disk[p] = NoCode
  /\ Builtins # NoPath => disk[Builtins] # NoCode
  /\ tree = [n \in Node |->
               IF n \in Dir THEN IF n \in dirs THEN DirSlot(FALSE) ELSE NoSlot
               ELSE IF Holder[n] = Root /\ disk[n] # NoCode
               THEN FileSlot(<<n, 1>>) ELSE NoSlot]
  /\ files = IF Builtins = NoPath THEN <<>>
             ELSE <<NewState(<<Builtins, 1>>, disk[Builtins])>>
  /\ entry = [e \in Entry |->
                IF e = <<Builtins, 1>>
                THEN [idx |-> 1, invs |-> {}, db |-> TRUE] ELSE BlankEntry]
  /\ inmem = [p \in Path |-> 0]
  /\ editor = [p \in Path |-> NoCode]
  /\ watched = {}
  /\ queue = <<>>
  /\ changed = {}
  /\ panics = 0

DatabaseNext ==
  \/ \E f \in FileIndex, m \in Mod : Import(f, m)
  \/ \E i \in FileIndex : Load(i)
  \/ \E p \in Path : LoadEntry(p)
  \/ \E d \in Dir : ReadDir(d)
  \/ \E p \in Path, c \in Code : StoreInMemory(p, c)
  \/ \E p \in Path : Close(p)
  \/ Publish
  \/ Notify
  \/ Recover

DiskNext ==
  \/ \E p \in Path, c \in Code : WriteDisk(p, c)
  \/ \E p \in Path : DeleteDisk(p)
  \/ \E d \in Dir :
       \E content \in [Inside(d) -> Code \cup {NoCode}] : MakeDir(d, content)
  \/ \E d \in Dir : RemoveDir(d)

Next == DatabaseNext \/ DiskNext

Spec == Init /\ [][Next]_vars

-----------------------------------------------------------------------------
(* Properties                                                              *)

TypeOK ==
  /\ disk \in [Path -> Code \cup {NoCode}]
  /\ dirs \subseteq Dir
  /\ watched \subseteq Dir
  /\ queue \in Seq(Node)
  /\ tree \in [Node -> Slot]
  /\ entry \in [Entry -> EntryRecord]
  /\ files \in Seq(FileState)
  /\ Len(files) <= MaxFile
  /\ inmem \in [Path -> 0..MaxFile]
  /\ changed \subseteq Path
  /\ editor \in [Path -> Code \cup {NoCode}]
  /\ panics \in 0..MaxPanic

(* A document the editor has open is found under its path in the tree, at  *)
(* the index the server edits: the debug assertion of store_in_memory_file *)
(* and what invalidate_path restores after a directory went away.          *)
InMemoryAgrees ==
  \A p \in Open : IsFile(tree, p) /\ entry[EntryAt(tree, p)].idx = inmem[p]

(* Every file state is the one its entry leads to: what                    *)
(* ensure_file_for_file_index asserts before it loads a file, through      *)
(* closed documents, directories that go away and recoveries.              *)
EntryPointsBack == \A i \in DOMAIN files : entry[EntryOf(files, i)].idx = i

(* No index dangles: what an entry, the list of open documents, an import  *)
(* cache or a registration of an importer names is a file state, in the    *)
(* first two of the same path, although a recovery numbers all of them     *)
(* anew and drops those that were not loaded.                              *)
IndexesExist ==
  /\ \A e \in Entry : LET i == entry[e].idx
                      IN  i # 0 => i \in DOMAIN files /\ files[i].path = e[1]
  /\ \A p \in Open : inmem[p] \in DOMAIN files /\ files[inmem[p]].path = p
  /\ \A f \in DOMAIN files, m \in Mod :
       files[f].cache[m] \in DOMAIN files \cup {Uncached, NotFound, Namespace}
  /\ \A n \in Node : tree[n].invs \subseteq DOMAIN files
  /\ \A e \in Entry : entry[e].invs \subseteq DOMAIN files

(* In-memory files override the file system: for every open document the   *)
(* checker works on the text the editor sent last, whatever happened on    *)
(* disk, to its directory or to the process in between.                    *)
EditorWins ==
  \A p \in Path :
    /\ editor[p] # NoCode <=> inmem[p] # 0
    /\ inmem[p] # 0 => files[inmem[p]].code = editor[p]

(* Whoever has an import cached is registered where its target will look   *)
(* for the files to invalidate when it changes.                            *)
DependentsRegistered ==
  \A f \in DOMAIN files, m \in Mod :
    LET i == files[f].cache[m]
    IN  i \in DOMAIN files =>
          LET e == EntryOf(files, i)
          IN  entry[e].db \/ f \in entry[e].invs

(* What a file has cached for an import is what the lookup would find now: *)
(* files that appear, disappear or take precedence are noticed.            *)
Sees(p) == p # NoPath /\ IF Visible(tree, p) THEN IsFile(tree, p)
                         ELSE disk[p] # NoCode

Lookup(m) ==
  LET d == Package[m]
  IN  IF IsDir(tree, d) /\ Sees(InitStub[d]) THEN InitStub[d]
      ELSE IF IsDir(tree, d) /\ Sees(InitFile[d]) THEN InitFile[d]
      ELSE IF Sees(Stub[m]) THEN Stub[m]
      ELSE IF Sees(Source[m]) THEN Source[m] ELSE NoPath

ResolutionFresh ==
  \A f \in DOMAIN files, m \in Mod :
    LET i == files[f].cache[m]
        p == Lookup(m)
    IN  /\ i = NotFound => p = NoPath /\ ~IsDir(tree, Package[m])
        /\ i = Namespace => p = NoPath /\ IsDir(tree, Package[m])
        /\ i \in DOMAIN files => /\ p = files[i].path
                                 /\ entry[EntryAt(tree, p)].idx = i

(* Nothing computed from a file survives a change of that file or of what  *)
(* it imports itself: an importer keeps a cached import only if its target *)
(* keeps its code (it may get loaded) and everything it had resolved.      *)
TransitiveInvalidation ==
  [][\A f \in DOMAIN files, m \in Mod :
       LET i == files[f].cache[m]
       IN  (panics' = panics /\ i \in DOMAIN files /\ files'[f].cache[m] = i)
           => /\ files[i].code \in {files'[i].code, NoCode}
              /\ \A k \in Mod : files[i].cache[k] \in
                                  {files'[i].cache[k], Uncached}]_vars

(* An open document that loses a cached import is announced, so that its   *)
(* diagnostics are computed again.                                         *)
LossAnnounced ==
  [][\A p \in Open :
       (inmem'[p] # 0 /\ \E m \in Mod :
           /\ files[inmem[p]].cache[m] # Uncached
           /\ files'[inmem'[p]].cache[m] # files[inmem[p]].cache[m])
       => p \in changed']_vars

(* The python state holds pointers into the builtins: whenever the         *)
(* database is used, the file of the builtins in the tree is loaded.       *)
BuiltinsLoaded ==
  Builtins # NoPath =>
    /\ IsFile(tree, Builtins)
    /\ LET i == entry[EntryAt(tree, Builtins)].idx
       IN  i # 0 /\ files[i].code # NoCode /\ entry[EntryAt(tree, Builtins)].db

(* Once every notification is handled, the files the checker sees are the  *)
(* files on disk plus the open documents, and what it has loaded of them   *)
(* is what is on disk; a recovery keeps code the disk has left behind      *)
(* ("we do not know what changed between the panic and now", vfs.rs:166).  *)
Converged ==
  queue = <<>> /\ panics = 0 =>
    \A p \in Path :
      Visible(tree, p) =>
        /\ IsFile(tree, p) <=> (disk[p] # NoCode \/ inmem[p] # 0)
        /\ (IsFile(tree, p) /\ inmem[p] = 0) =>
             LET i == entry[EntryAt(tree, p)].idx
             IN  i # 0 => files[i].code \in {disk[p], NoCode}

(* ... and so are the directories, even those that were gone and back (or  *)
(* there and gone) before their events were handled: what exists and what  *)
(* holds an open document is there, and what is there but does not exist   *)
(* was put back for documents and shows nothing but open ones.  A document *)
(* that is closed later leaves its directory behind; so does a panic, for  *)
(* any file that was loaded from it.                                       *)
DirsConverged ==
  queue = <<>> =>
    \A d \in Dir :
      /\ d \in dirs \/ Inside(d) \cap Open # {} => IsDir(tree, d)
      /\ panics = 0 /\ IsDir(tree, d) /\ d \notin dirs =>
           /\ Inside(d) \cap Editable # {}
           /\ \A p \in Inside(d) : IsFile(tree, p) => p \in Open

=============================================================================
