----------------------------- MODULE VfsProofs -----------------------------
(* Proofs about Vfs for every workspace and every bound.                   *)
EXTENDS Vfs, SequenceTheorems, TLAPS

(* The slots of files carry the entry they stand for.                      *)
GoodTree(T) ==
  /\ T \in [Node -> Slot]
  /\ \A p \in Path : T[p].kind = "file" => T[p].gen \in 1..MaxGen

(* An entry with an index belongs to a file state of the entry's path.     *)
GoodFiles(F, E) ==
  /\ F \in Seq(FileState)
  /\ Len(F) <= MaxFile
  /\ E \in [Entry -> EntryRecord]
  /\ \A e \in Entry : E[e].idx # 0 => /\ E[e].idx \in DOMAIN F
                                      /\ F[E[e].idx].path = e[1]

(* G has the file states of F; what was loaded in F still is.              *)
Extends(F, G) ==
  /\ DOMAIN F \subseteq DOMAIN G
  /\ \A i \in DOMAIN F : /\ G[i].path = F[i].path
                         /\ F[i].code # NoCode => G[i].code = F[i].code

(* The builtins are on disk and in the tree.                               *)
BuiltinsKnown ==
  Builtins # NoPath => disk[Builtins] # NoCode /\ tree[Builtins].kind = "file"

(* An open document has a file state of its own path.                      *)
OpenHasState ==
  \A p \in Path : inmem[p] # 0 => /\ inmem[p] \in DOMAIN files
                                  /\ files[inmem[p]].path = p

IInv ==
  /\ TypeOK
  /\ GoodTree(tree)
  /\ GoodFiles(files, entry)
  /\ BuiltinsKnown
  /\ OpenHasState

-----------------------------------------------------------------------------
(* Operators                                                               *)

(* A function on 1..n is a sequence of length n.                           *)
LEMMA FunctionIsSequence ==
  ASSUME NEW S, NEW n \in Nat, NEW f \in [1..n -> S]
  PROVE  f \in Seq(S) /\ Len(f) = n
  OBVIOUS

(* Fresh(p) is an entry of p when there is one left.                       *)
LEMMA FreshEntry ==
  ASSUME NEW p \in Path, HasFresh(p)
  PROVE  Fresh(p) \in Entry /\ Fresh(p)[1] = p /\ Fresh(p)[2] \in 1..MaxGen
  BY DEF HasFresh, Fresh, Unused, Entry

(* Slots are slots.                                                        *)
LEMMA SlotTypes ==
  /\ NoSlot \in Slot
  /\ \A r \in BOOLEAN : DirSlot(r) \in Slot /\ DirSlot(r).kind # "file"
  /\ \A e \in Entry : FileSlot(e) \in Slot /\ FileSlot(e).kind = "file"
                        /\ FileSlot(e).gen = e[2] /\ e[2] \in 1..MaxGen
  /\ \A S \in SUBSET FileIndex : MissingSlot(S) \in Slot
                                   /\ MissingSlot(S).kind # "file"
  /\ NoSlot.kind # "file"
  BY BoundAssumption DEF NoSlot, DirSlot, FileSlot, MissingSlot, Slot, Entry

(* Reading a directory gives its children slots and changes no other.      *)
LEMMA ListingGood ==
  ASSUME NEW T, GoodTree(T), NEW d \in Dir, CanList(d)
  PROVE  /\ GoodTree(Listing(T, d))
         /\ \A n \in Node : n \notin Inside(d) \cup {d} => Listing(T, d)[n] = T[n]
<1>1. \A n \in Node : n \in Inside(d) /\ disk[n] # NoCode =>
        Fresh(n) \in Entry
  BY FreshEntry DEF CanList, Inside
<1>2. \A n \in Node : Listing(T, d)[n] \in Slot
  BY <1>1, SlotTypes DEF Listing, GoodTree
<1>3. \A p \in Path : Listing(T, d)[p].kind = "file" =>
        Listing(T, d)[p].gen \in 1..MaxGen
  <2> SUFFICES ASSUME NEW p \in Path, Listing(T, d)[p].kind = "file"
               PROVE  Listing(T, d)[p].gen \in 1..MaxGen
    OBVIOUS
  <2>1. p \in Node
    BY DEF Node
  <2>2. CASE p \in Inside(d) /\ ~T[d].read
    BY <2>1, <2>2, <1>1, SlotTypes DEF Listing
  <2>3. CASE ~(p \in Inside(d) /\ ~T[d].read)
    BY <2>1, <2>3, SlotTypes DEF Listing, GoodTree
  <2> QED BY <2>2, <2>3
<1>4. Listing(T, d) \in [Node -> Slot]
  BY <1>2 DEF Listing
<1> QED BY <1>3, <1>4 DEF Listing, GoodTree

(* Registering missing names leaves files alone.                           *)
LEMMA AddMissingGood ==
  ASSUME NEW T, GoodTree(T), NEW M, NEW f \in FileIndex
  PROVE  /\ GoodTree(AddMissing(T, M, f))
         /\ \A p \in Path : T[p].kind = "file" =>
                              AddMissing(T, M, f)[p].kind = "file"
  BY SlotTypes DEF AddMissing, GoodTree, Slot, Node, NoSlot, MissingSlot

(* Freeing entries takes indexes away and adds none.                       *)
LEMMA FinishGood ==
  ASSUME NEW T, NEW F, NEW E, GoodFiles(F, E), Finish(T, F, E)
  PROVE  tree' = T /\ files' = F /\ GoodFiles(files', entry')
<1>1. BlankEntry \in EntryRecord /\ BlankEntry.idx = 0
  BY BoundAssumption DEF BlankEntry, EntryRecord
<1>2. Collect(T, F, E) \in [Entry -> EntryRecord]
  BY <1>1 DEF Collect, GoodFiles
<1> QED BY <1>1, <1>2 DEF Finish, GoodFiles, Collect

(* A new file state.                                                       *)
LEMMA NewStateType ==
  ASSUME NEW e \in Entry, NEW c \in Code \cup {NoCode}
  PROVE  /\ NewState(e, c) \in FileState
         /\ NewState(e, c).path = e[1] /\ NewState(e, c).code = c
  BY DEF NewState, FileState, Entry, NoCache, Cache

(* Dropping caches changes neither paths nor code.                         *)
LEMMA ForgetGood ==
  ASSUME NEW F \in Seq(FileState), NEW R
  PROVE  /\ Forget(F, R) \in Seq(FileState)
         /\ Len(Forget(F, R)) = Len(F)
         /\ DOMAIN Forget(F, R) = DOMAIN F
         /\ \A i \in DOMAIN F : /\ Forget(F, R)[i].path = F[i].path
                                /\ Forget(F, R)[i].code = F[i].code
<1>1. NoCache \in Cache
  BY DEF NoCache, Cache
<1>2. \A i \in 1..Len(F) : F[i] \in FileState
  OBVIOUS
<1>3. \A i \in 1..Len(F) : [F[i] EXCEPT !.cache = NoCache] \in FileState
  BY <1>1, <1>2 DEF FileState
<1>4. Forget(F, R) \in [1..Len(F) -> FileState]
  BY <1>2, <1>3 DEF Forget
<1>5. \A i \in DOMAIN F : /\ Forget(F, R)[i].path = F[i].path
                          /\ Forget(F, R)[i].code = F[i].code
  BY <1>2 DEF Forget, FileState
<1> QED BY <1>4, <1>5, FunctionIsSequence

(* Taking invalidations keeps the index of every entry.                    *)
LEMMA TakenGood ==
  ASSUME NEW E \in [Entry -> EntryRecord], NEW R
  PROVE  /\ Taken(E, R) \in [Entry -> EntryRecord]
         /\ \A e \in Entry : Taken(E, R)[e].idx = E[e].idx
  BY DEF Taken, EntryRecord

(* Unloading changes no path, and no code outside of what it unloads.      *)
LEMMA UnloadGood ==
  ASSUME NEW F \in Seq(FileState), NEW R
  PROVE  /\ Unload(F, R) \in Seq(FileState)
         /\ Len(Unload(F, R)) = Len(F)
         /\ DOMAIN Unload(F, R) = DOMAIN F
         /\ \A i \in DOMAIN F :
              /\ Unload(F, R)[i].path = F[i].path
              /\ i \notin R => Unload(F, R)[i].code = F[i].code
<1>1. NoCache \in Cache
  BY DEF NoCache, Cache
<1>2. \A i \in 1..Len(F) : F[i] \in FileState
  OBVIOUS
<1>3. \A i \in 1..Len(F) :
        [F[i] EXCEPT !.code = NoCode, !.cache = NoCache] \in FileState
  BY <1>1, <1>2 DEF FileState
<1>4. Unload(F, R) \in [1..Len(F) -> FileState]
  <2> DEFINE u(j) == [F[j] EXCEPT !.code = NoCode, !.cache = NoCache]
  <2>1. Unload(F, R) = [j \in 1..Len(F) |-> IF j \in R THEN u(j) ELSE F[j]]
    BY DEF Unload
  <2>2. \A j \in 1..Len(F) : u(j) \in FileState
    BY <1>3
  <2> HIDE DEF u
  <2> QED BY <1>2, <2>1, <2>2
<1>5. \A i \in DOMAIN F : /\ Unload(F, R)[i].path = F[i].path
                          /\ i \notin R => Unload(F, R)[i].code = F[i].code
  BY <1>2 DEF Unload, FileState
<1> QED BY <1>4, <1>5, FunctionIsSequence

(* A file state that gets code or loses its cache keeps its path.          *)
LEMMA AppendGood ==
  ASSUME NEW F, NEW E, GoodFiles(F, E), Len(F) < MaxFile,
         NEW s \in FileState, NEW e \in Entry, s.path = e[1],
         NEW r \in EntryRecord, r.idx = Len(F) + 1
  PROVE  /\ GoodFiles(Append(F, s), [E EXCEPT ![e] = r])
         /\ Extends(F, Append(F, s))
         /\ Append(F, s)[Len(F) + 1] = s
         /\ Len(F) + 1 \in DOMAIN Append(F, s)
         /\ Len(F) + 1 \in FileIndex
<1> DEFINE G == Append(F, s)
           H == [E EXCEPT ![e] = r]
<1>1. F \in Seq(FileState) /\ Len(F) \in Nat /\ Len(F) + 1 \in 1..MaxFile
  BY BoundAssumption DEF GoodFiles
<1>2. /\ G \in Seq(FileState) /\ Len(G) = Len(F) + 1
      /\ DOMAIN G = 1..(Len(F) + 1) /\ DOMAIN F = 1..Len(F)
      /\ \A i \in 1..Len(F) : G[i] = F[i]
      /\ G[Len(F) + 1] = s
  BY <1>1, AppendProperties, LenProperties
<1>4. H \in [Entry -> EntryRecord]
  BY DEF GoodFiles
<1>5. ASSUME NEW x \in Entry, H[x].idx # 0
      PROVE  H[x].idx \in DOMAIN G /\ G[H[x].idx].path = x[1]
  <2>1. CASE x = e
    <3>1. H[x].idx = Len(F) + 1
      BY <2>1 DEF GoodFiles
    <3> QED BY <3>1, <2>1, <1>1, <1>2
  <2>2. CASE x # e
    <3>1. H[x] = E[x]
      BY <2>2 DEF GoodFiles
    <3>2. E[x].idx \in 1..Len(F) /\ F[E[x].idx].path = x[1]
      BY <3>1, <1>5, <1>2 DEF GoodFiles
    <3> QED BY <3>1, <3>2, <1>1, <1>2
  <2> QED BY <2>1, <2>2
<1>6. GoodFiles(G, H)
  BY <1>1, <1>2, <1>4, <1>5 DEF GoodFiles
<1>7. Extends(F, G)
  BY <1>1, <1>2 DEF Extends
<1> HIDE DEF G, H
<1>8. Len(F) + 1 \in DOMAIN G /\ Len(F) + 1 \in FileIndex
  BY <1>1, <1>2 DEF FileIndex
<1> QED BY <1>2, <1>6, <1>7, <1>8 DEF G, H

(* Replacing a file state by one of the same path.                         *)
LEMMA ReplaceGood ==
  ASSUME NEW F, NEW E, GoodFiles(F, E), NEW i \in DOMAIN F,
         NEW s \in FileState, s.path = F[i].path
  PROVE  /\ GoodFiles([F EXCEPT ![i] = s], E)
         /\ DOMAIN [F EXCEPT ![i] = s] = DOMAIN F
         /\ \A j \in DOMAIN F :
              [F EXCEPT ![i] = s][j] = IF j = i THEN s ELSE F[j]
         /\ F[i].code \in {NoCode, s.code} => Extends(F, [F EXCEPT ![i] = s])
<1> DEFINE G == [F EXCEPT ![i] = s]
<1>1. F \in Seq(FileState) /\ DOMAIN F = 1..Len(F) /\ i \in 1..Len(F)
  BY DEF GoodFiles
<1>2. G \in Seq(FileState) /\ Len(G) = Len(F) /\ DOMAIN G = DOMAIN F
  BY <1>1, ExceptSeq
<1>3. \A j \in DOMAIN F : G[j] = IF j = i THEN s ELSE F[j]
  OBVIOUS
<1> HIDE DEF G
<1>4. \A j \in DOMAIN F : G[j].path = F[j].path
  BY <1>3
<1>5. GoodFiles(G, E)
  BY <1>2, <1>4 DEF GoodFiles
<1>6. F[i].code \in {NoCode, s.code} => Extends(F, G)
  BY <1>2, <1>3, <1>4 DEF Extends
<1> QED BY <1>2, <1>3, <1>5, <1>6 DEF G

(* Loading the builtins again extends the file states.                     *)
LEMMA RegenerateGood ==
  ASSUME NEW T, GoodTree(T), NEW F, NEW E, GoodFiles(F, E),
         Builtins # NoPath => T[Builtins].kind = "file",
         disk \in [Path -> Code \cup {NoCode}],
         Regenerate(T, F, E)
  PROVE  tree' = T /\ GoodFiles(files', entry') /\ Extends(F, files')
<1> DEFINE e == EntryAt(T, Builtins)
           i == E[e].idx
<1>0. Extends(F, F)
  BY DEF Extends
<1>1. CASE Builtins = NoPath \/ (i # 0 /\ F[i].code # NoCode)
  <2>1. Finish(T, F, E)
    BY <1>1 DEF Regenerate
  <2> QED BY <2>1, <1>0, FinishGood
<1>2. CASE Builtins # NoPath /\ i # 0 /\ F[i].code = NoCode
  <2>0. Builtins \in Path /\ e \in Entry
    BY <1>2, LayoutAssumption DEF GoodTree, EntryAt, Entry
  <2>1. i \in DOMAIN F /\ disk[Builtins] \in Code \cup {NoCode}
    BY <1>2, <2>0 DEF GoodFiles
  <2> DEFINE s == [F[i] EXCEPT !.code = disk[Builtins]]
  <2>2. F[i] \in FileState
    BY <2>1 DEF GoodFiles
  <2>3. s \in FileState /\ s.path = F[i].path
    BY <2>1, <2>2 DEF FileState
  <2>4. Finish(T, [F EXCEPT ![i].code = disk[Builtins]], E)
    BY <1>2 DEF Regenerate
  <2>5. Finish(T, [F EXCEPT ![i] = s], E)
    BY <2>4
  <2> HIDE DEF s, e, i
  <2>6. GoodFiles([F EXCEPT ![i] = s], E) /\ Extends(F, [F EXCEPT ![i] = s])
    BY <1>2, <2>1, <2>3, ReplaceGood
  <2> QED BY <2>5, <2>6, FinishGood
<1>3. CASE Builtins # NoPath /\ i = 0
  <2>0. Builtins \in Path /\ e \in Entry /\ e[1] = Builtins
    BY <1>3, LayoutAssumption DEF GoodTree, EntryAt, Entry
  <2>1. NewState(e, disk[Builtins]) \in FileState
        /\ NewState(e, disk[Builtins]).path = e[1]
    BY <2>0, NewStateType
  <2>2. /\ Len(F) < MaxFile
        /\ Finish(T, Append(F, NewState(e, disk[Builtins])),
                  [E EXCEPT ![e] = [idx |-> Len(F) + 1, invs |-> {},
                                    db |-> TRUE]])
    BY <1>3 DEF Regenerate
  <2> HIDE DEF e, i
  <2> DEFINE r == [idx |-> Len(F) + 1, invs |-> {}, db |-> TRUE]
  <2>3. r \in EntryRecord /\ r.idx = Len(F) + 1
    BY <2>2, BoundAssumption, LenProperties DEF EntryRecord, GoodFiles
  <2>4. /\ GoodFiles(Append(F, NewState(e, disk[Builtins])),
                     [E EXCEPT ![e] = r])
        /\ Extends(F, Append(F, NewState(e, disk[Builtins])))
    <3> HIDE DEF r
    <3> QED BY <2>0, <2>1, <2>2, <2>3, AppendGood
  <2> QED BY <2>2, <2>4, FinishGood
<1> QED BY <1>1, <1>2, <1>3

(* Invalidation loses caches, but neither file states nor code.            *)
LEMMA SettleGood ==
  ASSUME NEW T, GoodTree(T), NEW F, NEW E, GoodFiles(F, E),
         Builtins # NoPath => T[Builtins].kind = "file",
         disk \in [Path -> Code \cup {NoCode}], changed \subseteq Path,
         NEW R, NEW N \in SUBSET Path, NEW O \in SUBSET Path,
         Settle(T, F, E, R, N, O)
  PROVE  /\ tree' = T /\ GoodFiles(files', entry') /\ Extends(F, files')
         /\ changed' \subseteq Path
<1>1. changed' \subseteq Path
  BY DEF Settle, Announce
<1>2. \A X, Y : /\ GoodFiles(Forget(F, X), Taken(E, Y))
               /\ Extends(F, Forget(F, X))
               /\ DOMAIN Forget(F, X) = DOMAIN F
               /\ \A i \in DOMAIN F : Forget(F, X)[i].code = F[i].code
  BY ForgetGood, TakenGood DEF GoodFiles, Extends
<1>3. CASE Finish(T, Forget(F, R), Taken(E, R))
  BY <1>1, <1>2, <1>3, FinishGood
<1>4. ASSUME NEW V \in SUBSET R, Regenerate(T, Forget(F, DOMAIN F), Taken(E, V))
      PROVE  tree' = T /\ GoodFiles(files', entry') /\ Extends(F, files')
  <2>1. tree' = T /\ GoodFiles(files', entry')
          /\ Extends(Forget(F, DOMAIN F), files')
    BY <1>2, <1>4, RegenerateGood
  <2> QED BY <2>1, <1>2 DEF Extends
<1> QED BY <1>1, <1>3, <1>4 DEF Settle

(* Registering a dependent keeps the index of every entry.                 *)
LEMMA AddInvGood ==
  ASSUME NEW F, NEW E, GoodFiles(F, E), NEW e \in Entry, NEW f \in FileIndex
  PROVE  GoodFiles(F, AddInv(E, e, f))
  BY DEF GoodFiles, AddInv, EntryRecord

(* No directory of the workspace holds the builtins.                       *)
LEMMA BuiltinsOutside ==
  ASSUME Builtins # NoPath, NEW d \in Dir
  PROVE  Builtins \in Path /\ Builtins \notin Inside(d) \cup {d}
  BY LayoutAssumption DEF Inside, Node

(* What an import resolves to is a file of the tree.                       *)
LEMMA TargetIsFile ==
  ASSUME NEW T, NEW m \in Mod, Target(T, m) # NoPath
  PROVE  Target(T, m) \in Path /\ T[Target(T, m)].kind = "file"
<1>1. Package[m] # NoPath => Package[m] \in Dir
  BY LayoutAssumption
<1>2. \A d \in Dir : InitStub[d] \in Path \cup {NoPath}
                    /\ InitFile[d] \in Path \cup {NoPath}
  BY LayoutAssumption
<1>3. Stub[m] \in Path \cup {NoPath} /\ Source[m] \in Path \cup {NoPath}
  BY LayoutAssumption
<1> QED BY <1>1, <1>2, <1>3 DEF Target, IsDir, IsFile

(* Open documents survive when no loaded file state loses its code.        *)
LEMMA KeepsOpen ==
  ASSUME IInv, Extends(files, files'), UNCHANGED <<inmem, editor>>
  PROVE  OpenHasState' /\ (EditorWins => EditorWins')
<1>1. OpenHasState'
  BY DEF IInv, OpenHasState, Extends
<1>2. ASSUME EditorWins PROVE EditorWins'
  <2> SUFFICES ASSUME NEW p \in Path
               PROVE  /\ editor'[p] # NoCode <=> inmem'[p] # 0
                      /\ inmem'[p] # 0 => files'[inmem'[p]].code = editor'[p]
    BY DEF EditorWins
  <2>1. editor[p] # NoCode <=> inmem[p] # 0
    BY <1>2 DEF EditorWins
  <2>2. ASSUME inmem[p] # 0 PROVE files'[inmem[p]].code = editor[p]
    <3>1. files[inmem[p]].code = editor[p] /\ inmem[p] \in DOMAIN files
      BY <1>2, <2>2 DEF EditorWins, IInv, OpenHasState
    <3> QED BY <3>1, <2>1, <2>2 DEF Extends
  <2> QED BY <2>1, <2>2
<1> QED BY <1>1, <1>2

-----------------------------------------------------------------------------
(* Actions                                                                 *)

(* Resolving an import caches a file index or its absence.                 *)
LEMMA ImportGood ==
  ASSUME IInv, NEW f \in FileIndex, NEW m \in Mod, Import(f, m)
  PROVE  IInv' /\ (EditorWins => EditorWins')
<1> DEFINE d  == Package[m]
           T0 == IF IsDir(tree, d) THEN Listing(tree, d) ELSE tree
           T1 == AddMissing(T0, MissingNames(T0, m), f)
           p  == Target(T0, m)
           e  == EntryAt(T0, p)
           i  == entry[e].idx
           s(v) == [files[f] EXCEPT !.cache[m] = v]
           F(v) == [files EXCEPT ![f] = s(v)]
<1>1. GoodTree(T0) /\ (Builtins # NoPath => T0[Builtins].kind = "file")
  <2>1. CASE IsDir(tree, d)
    <3>1. d \in Dir /\ CanList(d)
      BY <2>1, LayoutAssumption DEF IsDir, Import
    <3>2. GoodTree(Listing(tree, d))
          /\ \A n \in Node : n \notin Inside(d) \cup {d} =>
               Listing(tree, d)[n] = tree[n]
      BY <3>1, ListingGood DEF IInv
    <3> QED BY <2>1, <3>1, <3>2, BuiltinsOutside DEF IInv, BuiltinsKnown, Node
  <2>2. CASE ~IsDir(tree, d)
    BY <2>2 DEF IInv, BuiltinsKnown
  <2> QED BY <2>1, <2>2
<1> HIDE DEF T0
<1>2. GoodTree(T1) /\ (Builtins # NoPath => T1[Builtins].kind = "file")
  BY <1>1, AddMissingGood, LayoutAssumption
<1>3. f \in DOMAIN files /\ files[f] \in FileState
  BY DEF Import, IInv, GoodFiles
<1>4. \A v \in FileIndex \cup {Uncached, NotFound, Namespace} :
        /\ GoodFiles(F(v), entry) /\ Extends(files, F(v)) /\ Len(F(v)) = Len(files)
        /\ [files EXCEPT ![f].cache[m] = v] = F(v)
  <2> SUFFICES ASSUME NEW v \in FileIndex \cup {Uncached, NotFound, Namespace}
               PROVE  /\ GoodFiles(F(v), entry) /\ Extends(files, F(v))
                      /\ Len(F(v)) = Len(files)
                      /\ [files EXCEPT ![f].cache[m] = v] = F(v)
    OBVIOUS
  <2>1. files[f].cache \in Cache
    BY <1>3 DEF FileState
  <2>2. [files[f].cache EXCEPT ![m] = v] \in Cache
    BY <2>1 DEF Cache
  <2>3. s(v) \in FileState /\ s(v).path = files[f].path /\ s(v).code = files[f].code
    BY <1>3, <2>2 DEF FileState
  <2>4. [files EXCEPT ![f].cache[m] = v] = F(v)
    OBVIOUS
  <2>5. GoodFiles(files, entry)
    BY DEF IInv
  <2> HIDE DEF s
  <2>6. GoodFiles(F(v), entry) /\ Extends(files, F(v))
    BY <1>3, <2>3, <2>5, ReplaceGood
  <2>7. Len(F(v)) = Len(files)
    BY <1>3, <2>3, ExceptSeq DEF IInv, GoodFiles
  <2> QED BY <2>4, <2>6, <2>7
<1> HIDE DEF s, F
<1>5. tree' = T1 /\ GoodFiles(files', entry') /\ Extends(files, files')
  <2>1. CASE p = NoPath
    <3>1. PICK v \in {Namespace, NotFound} :
            Finish(T1, [files EXCEPT ![f].cache[m] = v], entry)
      BY <2>1 DEF Import, T0
    <3>2. v \in FileIndex \cup {Uncached, NotFound, Namespace}
      OBVIOUS
    <3>3. GoodFiles(F(v), entry) /\ Extends(files, F(v)) /\ Finish(T1, F(v), entry)
      BY <3>1, <3>2, <1>4
    <3> HIDE DEF T1
    <3> QED BY <3>3, FinishGood
  <2>2. CASE p # NoPath
    <3>1. p \in Path /\ e \in Entry /\ e[1] = p
      BY <2>2, <1>1, TargetIsFile DEF GoodTree, EntryAt, Entry
    <3>2. i \in 0..MaxFile
      BY <3>1 DEF IInv, GoodFiles, EntryRecord
    <3>3. CASE i # 0
      <4>1. Finish(T1, [files EXCEPT ![f].cache[m] = i], AddInv(entry, e, f))
        BY <2>2, <3>3 DEF Import, T0
      <4>2. i \in FileIndex
        BY <3>2, <3>3, BoundAssumption DEF FileIndex
      <4>3. GoodFiles(F(i), AddInv(entry, e, f)) /\ Extends(files, F(i))
        BY <4>2, <1>4, <3>1, AddInvGood
      <4> QED BY <4>1, <4>2, <4>3, <1>4, FinishGood
    <3>4. CASE i = 0
      <4> DEFINE k == Len(files) + 1
                 r  == [entry[e] EXCEPT !.idx = k]
                 E0 == [entry EXCEPT ![e] = r]
                 G  == Append(F(k), NewState(e, NoCode))
      <4>1. Len(files) < MaxFile
            /\ Finish(T1, Append([files EXCEPT ![f].cache[m] = k],
                                 NewState(e, NoCode)), AddInv([entry EXCEPT ![e].idx = k], e, f))
        BY <2>2, <3>4 DEF Import, T0
      <4>2. k \in FileIndex
        BY <4>1, BoundAssumption, LenProperties DEF FileIndex, IInv, GoodFiles
      <4>3. r \in EntryRecord /\ r.idx = k /\ [entry EXCEPT ![e].idx = k] = E0
        <5>1. entry[e] \in EntryRecord /\ k \in 0..MaxFile
          BY <3>1, <4>2 DEF IInv, GoodFiles, FileIndex
        <5> QED BY <5>1 DEF EntryRecord
      <4>4. NewState(e, NoCode) \in FileState /\ NewState(e, NoCode).path = e[1]
        BY <3>1, NewStateType
      <4>5. Len(F(k)) = Len(files) /\ GoodFiles(F(k), entry)
            /\ Extends(files, F(k))
        BY <4>2, <1>4
      <4>6. GoodFiles(G, E0) /\ Extends(F(k), G)
        <5> HIDE DEF r
        <5> QED BY <4>1, <4>3, <4>4, <4>5, <3>1, AppendGood
      <4>7. GoodFiles(G, AddInv(E0, e, f)) /\ Extends(files, G)
        BY <4>3, <4>5, <4>6, <3>1, AddInvGood DEF Extends
      <4> QED BY <4>1, <4>2, <4>7, <1>4, FinishGood
    <3> QED BY <3>3, <3>4
  <2> QED BY <2>1, <2>2
<1>6. UNCHANGED <<disk, dirs, queue, inmem, changed, editor, panics>>
      /\ watched' \subseteq Dir
  BY LayoutAssumption DEF Import, IInv, TypeOK
<1>7. OpenHasState' /\ (EditorWins => EditorWins')
  BY <1>5, <1>6, KeepsOpen
<1>8. TypeOK'
  BY <1>2, <1>5, <1>6 DEF IInv, TypeOK, GoodTree, GoodFiles
<1> QED BY <1>2, <1>5, <1>6, <1>7, <1>8 DEF IInv, BuiltinsKnown

(* Reading the code of a file state that has none.                         *)
LEMMA LoadGood ==
  ASSUME IInv, NEW i \in FileIndex, Load(i)
  PROVE  IInv' /\ (EditorWins => EditorWins')
<1> DEFINE s == [files[i] EXCEPT !.code = disk[files[i].path]]
           F == [files EXCEPT ![i] = s]
<1>1. i \in DOMAIN files /\ files[i] \in FileState /\ files[i].code = NoCode
  BY DEF Load, IInv, GoodFiles
<1>2. disk[files[i].path] \in Code \cup {NoCode}
  BY <1>1 DEF IInv, TypeOK, FileState
<1>3. s \in FileState /\ s.path = files[i].path
  BY <1>1, <1>2 DEF FileState
<1>4. files' = F
  BY DEF Load
<1>5. UNCHANGED <<envVars, tree, entry, inmem, changed, editor, panics>>
  BY DEF Load
<1>6. GoodFiles(files, entry)
  BY DEF IInv
<1> HIDE DEF s
<1>7. GoodFiles(F, entry) /\ Extends(files, F)
  BY <1>1, <1>3, <1>6, ReplaceGood
<1>8. OpenHasState' /\ (EditorWins => EditorWins')
  BY <1>4, <1>5, <1>7, KeepsOpen
<1>9. TypeOK'
  BY <1>4, <1>5, <1>7 DEF IInv, TypeOK, GoodFiles, envVars
<1> QED BY <1>4, <1>5, <1>7, <1>8, <1>9 DEF IInv, BuiltinsKnown, envVars

(* Loading a file of the tree that has no index yet.                       *)
LEMMA LoadEntryGood ==
  ASSUME IInv, NEW p \in Path, LoadEntry(p)
  PROVE  IInv' /\ (EditorWins => EditorWins')
<1> DEFINE e == EntryAt(tree, p)
           s == NewState(e, disk[p])
           r == [entry[e] EXCEPT !.idx = Len(files) + 1]
           F == Append(files, s)
           E == [entry EXCEPT ![e] = r]
<1>1. e \in Entry /\ e[1] = p
  BY DEF LoadEntry, IsFile, IInv, GoodTree, EntryAt, Entry
<1>2. s \in FileState /\ s.path = e[1]
  BY <1>1, NewStateType DEF IInv, TypeOK
<1>3. Len(files) < MaxFile /\ GoodFiles(files, entry)
  BY DEF LoadEntry, IInv
<1>4. r \in EntryRecord /\ r.idx = Len(files) + 1
  <2>1. entry[e] \in EntryRecord /\ Len(files) + 1 \in 0..MaxFile
    BY <1>1, <1>3, BoundAssumption, LenProperties DEF GoodFiles
  <2> QED BY <2>1 DEF EntryRecord
<1>5. Finish(tree, F, E)
  BY DEF LoadEntry
<1>6. UNCHANGED <<envVars, inmem, changed, editor, panics>>
  BY DEF LoadEntry
<1> HIDE DEF e, s, r
<1>7. GoodFiles(F, E) /\ Extends(files, F)
  BY <1>1, <1>2, <1>3, <1>4, AppendGood
<1>8. tree' = tree /\ files' = F /\ GoodFiles(files', entry')
  BY <1>5, <1>7, FinishGood
<1>9. OpenHasState' /\ (EditorWins => EditorWins')
  BY <1>6, <1>7, <1>8, KeepsOpen
<1>10. TypeOK'
  BY <1>6, <1>8 DEF IInv, TypeOK, GoodFiles, envVars
<1> QED BY <1>6, <1>8, <1>9, <1>10 DEF IInv, BuiltinsKnown, envVars

(* Listing a directory, as a step of its own or to handle a notification.  *)
LEMMA EnterGood ==
  ASSUME IInv, NEW d \in Dir, Enter(d), queue' \in Seq(Node),
         UNCHANGED <<disk, dirs, inmem, editor, panics>>
  PROVE  IInv' /\ (EditorWins => EditorWins')
<1>1. tree' = Listing(tree, d) /\ CanList(d) /\ watched' \subseteq Dir
      /\ UNCHANGED <<entry, files, changed>>
  BY DEF Enter, IInv, TypeOK
<1>2. GoodTree(tree')
      /\ \A n \in Node : n \notin Inside(d) \cup {d} => tree'[n] = tree[n]
  BY <1>1, ListingGood DEF IInv
<1>3. BuiltinsKnown'
  BY <1>1, <1>2, BuiltinsOutside DEF IInv, BuiltinsKnown, Node
<1>4. OpenHasState' /\ (EditorWins => EditorWins')
  BY <1>1, KeepsOpen DEF Extends
<1>5. TypeOK'
  BY <1>1, <1>2 DEF IInv, TypeOK, GoodTree
<1>6. GoodFiles(files', entry')
  BY <1>1 DEF IInv
<1> QED BY <1>2, <1>3, <1>4, <1>5, <1>6 DEF IInv

(* The document p is edited: file state i gets its text c.                 *)
LEMMA EditedOpen ==
  ASSUME IInv, NEW p \in Path, NEW F, NEW i \in DOMAIN F, NEW c \in Code,
         F[i].path = p, F[i].code = c,
         DOMAIN files \subseteq DOMAIN F,
         \A j \in DOMAIN files : j # i => F[j] = files[j],
         i \in DOMAIN files => files[i].path = p,
         inmem' = [inmem EXCEPT ![p] = i], Extends(F, files'),
         editor' = [editor EXCEPT ![p] = c], 0 \notin DOMAIN F
  PROVE  OpenHasState' /\ (EditorWins => EditorWins')
<1>1. inmem \in [Path -> 0..MaxFile] /\ editor \in [Path -> Code \cup {NoCode}]
      /\ c # NoCode
  BY LayoutAssumption DEF IInv, TypeOK
<1>2. /\ inmem'[p] = i /\ editor'[p] = c /\ i # 0
      /\ i \in DOMAIN files' /\ files'[i].path = p /\ files'[i].code = c
  BY <1>1 DEF Extends
<1>3. ASSUME NEW q \in Path, q # p
      PROVE  inmem'[q] = inmem[q] /\ editor'[q] = editor[q]
  BY <1>1, <1>3
<1>4. ASSUME NEW q \in Path, q # p, inmem[q] # 0
      PROVE  /\ inmem[q] \in DOMAIN files' /\ files'[inmem[q]].path = q
             /\ EditorWins => files'[inmem[q]].code = editor[q]
  <2>1. inmem[q] \in DOMAIN files /\ files[inmem[q]].path = q
    BY <1>4 DEF IInv, OpenHasState
  <2>2. inmem[q] # i
    BY <2>1, <1>4
  <2>3. F[inmem[q]] = files[inmem[q]] /\ inmem[q] \in DOMAIN F
    BY <2>1, <2>2
  <2>4. EditorWins => files[inmem[q]].code = editor[q] /\ editor[q] # NoCode
    BY <1>4 DEF EditorWins
  <2> QED BY <2>1, <2>3, <2>4 DEF Extends
<1>5. OpenHasState'
  <2> SUFFICES ASSUME NEW q \in Path, inmem'[q] # 0
               PROVE  inmem'[q] \in DOMAIN files' /\ files'[inmem'[q]].path = q
    BY DEF OpenHasState
  <2> QED BY <1>2, <1>3, <1>4
<1>6. ASSUME EditorWins PROVE EditorWins'
  <2> SUFFICES ASSUME NEW q \in Path
               PROVE  /\ editor'[q] # NoCode <=> inmem'[q] # 0
                      /\ inmem'[q] # 0 => files'[inmem'[q]].code = editor'[q]
    BY DEF EditorWins
  <2>1. editor[q] # NoCode <=> inmem[q] # 0
    BY <1>6 DEF EditorWins
  <2> QED BY <1>1, <1>2, <1>3, <1>4, <1>6, <2>1
<1> QED BY <1>5, <1>6

(* didOpen and didChange.                                                  *)
LEMMA StoreGood ==
  ASSUME IInv, NEW p \in Path, NEW c \in Code, StoreInMemory(p, c)
  PROVE  IInv' /\ (EditorWins => EditorWins')
<1> DEFINE d  == Holder[p]
           T0 == IF d = Root THEN tree ELSE Listing(tree, d)
           e  == IF T0[p].kind = "file" THEN EntryAt(T0, p) ELSE Fresh(p)
           T1 == [T0 EXCEPT ![p] = FileSlot(e)]
           invs == T0[p].invs \cup (IF d = Root THEN {} ELSE tree[d].invs)
           i  == IF inmem[p] # 0 THEN inmem[p] ELSE entry[e].idx
           O  == Open \cup {p}
           s  == NewState(e, c)
           E0 == IF HitsDb(Reach({i}))
                 THEN [entry EXCEPT ![e].db = TRUE, ![e].invs = {}] ELSE entry
<1>0. p \in Node /\ (d # Root => d \in Dir) /\ Root \notin Node
  BY LayoutAssumption DEF Node
<1>1. GoodTree(T0) /\ (Builtins # NoPath => T0[Builtins].kind = "file")
  <2>1. CASE d = Root
    BY <2>1 DEF IInv, BuiltinsKnown
  <2>2. CASE d # Root
    <3>1. d \in Dir /\ CanList(d)
      BY <2>2, <1>0 DEF StoreInMemory
    <3>2. GoodTree(Listing(tree, d))
          /\ \A n \in Node : n \notin Inside(d) \cup {d} =>
               Listing(tree, d)[n] = tree[n]
      BY <3>1, ListingGood DEF IInv
    <3> QED BY <2>2, <3>1, <3>2, BuiltinsOutside DEF IInv, BuiltinsKnown, Node
  <2> QED BY <2>1, <2>2
<1> HIDE DEF T0
<1>2. e \in Entry /\ e[1] = p
  <2>1. CASE T0[p].kind = "file"
    BY <2>1, <1>1 DEF GoodTree, EntryAt, Entry
  <2>2. CASE T0[p].kind # "file"
    BY <2>2, FreshEntry DEF StoreInMemory
  <2> QED BY <2>1, <2>2
<1> HIDE DEF e
<1>3. GoodTree(T1) /\ (Builtins # NoPath => T1[Builtins].kind = "file")
  <2>1. FileSlot(e) \in Slot /\ FileSlot(e).kind = "file"
        /\ FileSlot(e).gen \in 1..MaxGen
    BY <1>2, SlotTypes
  <2>2. T1 \in [Node -> Slot]
    BY <1>1, <2>1 DEF GoodTree
  <2>3. \A q \in Path : T1[q].kind = "file" => T1[q].gen \in 1..MaxGen
    BY <1>0, <1>1, <2>1 DEF GoodTree, Node
  <2>4. Builtins # NoPath => T1[Builtins].kind = "file"
    BY <1>0, <1>1, <2>1, LayoutAssumption DEF GoodTree, Node
  <2> QED BY <2>2, <2>3, <2>4 DEF GoodTree
<1>4. i # 0 => i \in DOMAIN files /\ files[i].path = p
  BY <1>2 DEF IInv, OpenHasState, GoodFiles
<1>5. s \in FileState /\ s.path = p /\ s.code = c
  BY <1>2, NewStateType
<1>6. UNCHANGED <<disk, dirs, queue, panics>> /\ watched' \subseteq Dir
      /\ editor' = [editor EXCEPT ![p] = c]
  BY DEF StoreInMemory, IInv, TypeOK
<1>7. O \in SUBSET Path /\ {p} \in SUBSET Path /\ GoodFiles(files, entry)
      /\ disk \in [Path -> Code \cup {NoCode}] /\ changed \subseteq Path
  BY DEF Open, IInv, TypeOK
<1>8. 0 \notin DOMAIN files /\ Len(files) \in Nat /\ DOMAIN files = 1..Len(files)
  BY <1>7, LenProperties DEF GoodFiles
<1>9. \/ /\ i # 0 /\ files[i].code = c
         /\ Finish(T1, files, entry)
         /\ changed' = changed \cup {p}
         /\ inmem' = [inmem EXCEPT ![p] = i]
      \/ /\ i # 0
         /\ inmem' = [inmem EXCEPT ![p] = i]
         /\ Settle(T1, [files EXCEPT ![i] = s], E0, Reach({i} \cup invs), {p}, O)
      \/ /\ i = 0 /\ Len(files) < MaxFile
         /\ inmem' = [inmem EXCEPT ![p] = Len(files) + 1]
         /\ Settle(T1, Append(files, s), [entry EXCEPT ![e].idx = Len(files) + 1],
                   Reach(invs), {p}, O)
  BY DEF StoreInMemory, T0, e
<1> HIDE DEF T1, i, s, O, invs
<1>10. /\ tree' = T1 /\ GoodFiles(files', entry') /\ changed' \subseteq Path
       /\ inmem' \in [Path -> 0..MaxFile]
       /\ OpenHasState' /\ (EditorWins => EditorWins')
  <2>1. CASE /\ i # 0 /\ files[i].code = c
             /\ Finish(T1, files, entry)
             /\ changed' = changed \cup {p}
             /\ inmem' = [inmem EXCEPT ![p] = i]
    <3>1. tree' = T1 /\ files' = files /\ GoodFiles(files', entry')
      BY <2>1, <1>7, FinishGood
    <3>2. OpenHasState' /\ (EditorWins => EditorWins')
      BY <2>1, <3>1, <1>4, <1>6, <1>8, EditedOpen DEF Extends
    <3>3. i \in 0..MaxFile
      BY <2>1, <1>4, <1>8, <1>7, BoundAssumption DEF GoodFiles
    <3> QED BY <2>1, <3>1, <3>2, <3>3, <1>7 DEF IInv, TypeOK
  <2>2. CASE /\ i # 0
             /\ inmem' = [inmem EXCEPT ![p] = i]
             /\ Settle(T1, [files EXCEPT ![i] = s], E0, Reach({i} \cup invs),
                       {p}, O)
    <3> DEFINE F == [files EXCEPT ![i] = s]
    <3>1. GoodFiles(F, entry) /\ DOMAIN F = DOMAIN files
          /\ \A j \in DOMAIN files : F[j] = IF j = i THEN s ELSE files[j]
      BY <2>2, <1>4, <1>5, <1>7, ReplaceGood
    <3>2. GoodFiles(F, E0)
      <4>1. E0 \in [Entry -> EntryRecord]
            /\ \A x \in Entry : E0[x].idx = entry[x].idx
        <5> DEFINE r == [entry[e] EXCEPT !.db = TRUE, !.invs = {}]
        <5>1. entry[e] \in EntryRecord /\ entry \in [Entry -> EntryRecord]
          BY <1>2, <1>7 DEF GoodFiles
        <5>2. r \in EntryRecord /\ r.idx = entry[e].idx
          BY <5>1 DEF EntryRecord
        <5>3. E0 \in {entry, [entry EXCEPT ![e] = r]}
          BY <1>2, <5>1
        <5> HIDE DEF r, E0
        <5> QED BY <1>2, <5>1, <5>2, <5>3
      <4> HIDE DEF E0, F
      <4> QED BY <3>1, <4>1 DEF GoodFiles
    <3> HIDE DEF E0, F
    <3>3. tree' = T1 /\ GoodFiles(files', entry') /\ Extends(F, files')
          /\ changed' \subseteq Path
      BY <2>2, <3>2, <1>3, <1>7, SettleGood DEF F
    <3>4. i \in DOMAIN F /\ F[i].path = p /\ F[i].code = c /\ 0 \notin DOMAIN F
      BY <2>2, <3>1, <1>4, <1>5, <1>8
    <3>5. OpenHasState' /\ (EditorWins => EditorWins')
      BY <2>2, <3>1, <3>3, <3>4, <1>4, <1>6, EditedOpen
    <3>6. i \in 0..MaxFile
      BY <2>2, <1>4, <1>8, <1>7, BoundAssumption DEF GoodFiles
    <3> QED BY <2>2, <3>3, <3>5, <3>6 DEF IInv, TypeOK
  <2>3. CASE /\ i = 0 /\ Len(files) < MaxFile
             /\ inmem' = [inmem EXCEPT ![p] = Len(files) + 1]
             /\ Settle(T1, Append(files, s),
                       [entry EXCEPT ![e].idx = Len(files) + 1],
                       Reach(invs), {p}, O)
    <3> DEFINE F == Append(files, s)
               k == Len(files) + 1
               r == [entry[e] EXCEPT !.idx = k]
    <3>1. k \in FileIndex /\ k \in 0..MaxFile /\ k \notin DOMAIN files
      BY <2>3, <1>8, BoundAssumption DEF FileIndex
    <3>2. r \in EntryRecord /\ r.idx = k
      <4>1. entry[e] \in EntryRecord
        BY <1>2, <1>7 DEF GoodFiles
      <4> QED BY <4>1, <3>1 DEF EntryRecord
    <3>3. [entry EXCEPT ![e].idx = Len(files) + 1] = [entry EXCEPT ![e] = r]
      OBVIOUS
    <3> HIDE DEF r
    <3>4. /\ GoodFiles(F, [entry EXCEPT ![e] = r]) /\ Extends(files, F)
          /\ F[k] = s /\ k \in DOMAIN F
      BY <2>3, <3>2, <1>2, <1>5, <1>7, AppendGood
    <3>5. 0 \notin DOMAIN F /\ \A j \in DOMAIN files : F[j] = files[j]
      BY <1>5, <1>7, <1>8, AppendProperties, LenProperties DEF GoodFiles
    <3>6. Settle(T1, F, [entry EXCEPT ![e] = r], Reach(invs), {p}, O)
      BY <2>3, <3>3
    <3> HIDE DEF F, k
    <3>7. tree' = T1 /\ GoodFiles(files', entry') /\ Extends(F, files')
          /\ changed' \subseteq Path
      BY <3>4, <3>6, <1>3, <1>7, SettleGood
    <3>8. inmem' = [inmem EXCEPT ![p] = k]
      BY <2>3 DEF k
    <3>9. OpenHasState' /\ (EditorWins => EditorWins')
      BY <3>1, <3>4, <3>5, <3>7, <3>8, <1>5, <1>6, EditedOpen DEF Extends
    <3> QED BY <3>1, <3>7, <3>8, <3>9 DEF IInv, TypeOK
  <2> QED BY <1>9, <2>1, <2>2, <2>3
<1>11. editor' \in [Path -> Code \cup {NoCode}]
  BY <1>6 DEF IInv, TypeOK
<1>12. TypeOK'
  BY <1>3, <1>6, <1>10, <1>11 DEF IInv, TypeOK, GoodTree, GoodFiles
<1> QED BY <1>3, <1>6, <1>10, <1>12 DEF IInv, BuiltinsKnown

(* The document p is closed: only its file state may change.               *)
LEMMA ClosedOpen ==
  ASSUME IInv, NEW p \in Path, NEW F, DOMAIN F = DOMAIN files,
         \A j \in DOMAIN files : j # inmem[p] => F[j] = files[j],
         inmem' = [inmem EXCEPT ![p] = 0], Extends(F, files'),
         editor' = [editor EXCEPT ![p] = NoCode], inmem[p] # 0
  PROVE  OpenHasState' /\ (EditorWins => EditorWins')
<1>1. inmem \in [Path -> 0..MaxFile] /\ editor \in [Path -> Code \cup {NoCode}]
  BY DEF IInv, TypeOK
<1>2. inmem'[p] = 0 /\ editor'[p] = NoCode
  BY <1>1
<1>3. ASSUME NEW q \in Path, q # p
      PROVE  inmem'[q] = inmem[q] /\ editor'[q] = editor[q]
  BY <1>1, <1>3
<1>4. ASSUME NEW q \in Path, q # p, inmem[q] # 0
      PROVE  /\ inmem[q] \in DOMAIN files' /\ files'[inmem[q]].path = q
             /\ EditorWins => files'[inmem[q]].code = editor[q]
  <2>1. inmem[q] \in DOMAIN files /\ files[inmem[q]].path = q
    BY <1>4 DEF IInv, OpenHasState
  <2>2. inmem[q] # inmem[p]
    BY <2>1, <1>4 DEF IInv, OpenHasState
  <2>3. F[inmem[q]] = files[inmem[q]] /\ inmem[q] \in DOMAIN F
    BY <2>1, <2>2
  <2>4. EditorWins => files[inmem[q]].code = editor[q] /\ editor[q] # NoCode
    BY <1>4 DEF EditorWins
  <2> QED BY <2>1, <2>3, <2>4 DEF Extends
<1>5. OpenHasState'
  <2> SUFFICES ASSUME NEW q \in Path, inmem'[q] # 0
               PROVE  inmem'[q] \in DOMAIN files' /\ files'[inmem'[q]].path = q
    BY DEF OpenHasState
  <2> QED BY <1>2, <1>3, <1>4
<1>6. ASSUME EditorWins PROVE EditorWins'
  <2> SUFFICES ASSUME NEW q \in Path
               PROVE  /\ editor'[q] # NoCode <=> inmem'[q] # 0
                      /\ inmem'[q] # 0 => files'[inmem'[q]].code = editor'[q]
    BY DEF EditorWins
  <2>1. editor[q] # NoCode <=> inmem[q] # 0
    BY <1>6 DEF EditorWins
  <2> QED BY <1>2, <1>3, <1>4, <1>6, <2>1
<1> QED BY <1>5, <1>6

(* didClose.                                                               *)
LEMMA CloseGood ==
  ASSUME IInv, NEW p \in Path, Close(p)
  PROVE  IInv' /\ (EditorWins => EditorWins')
<1> DEFINE i == inmem[p]
           s == [files[i] EXCEPT !.code = disk[p], !.cache = NoCache]
           F == [files EXCEPT ![i] = s]
           T == IF IsFile(tree, p) THEN [tree EXCEPT ![p] = NoSlot] ELSE tree
           O == Open \ {p}
<1>1. i # 0 /\ i \in DOMAIN files /\ files[i].path = p /\ files[i] \in FileState
  BY DEF Close, IInv, OpenHasState, GoodFiles
<1>2. /\ inmem' = [inmem EXCEPT ![p] = 0] /\ editor' = [editor EXCEPT ![p] = NoCode]
      /\ UNCHANGED <<envVars, panics>>
  BY DEF Close
<1>3. /\ GoodFiles(files, entry) /\ O \in SUBSET Path /\ {} \in SUBSET Path
      /\ disk \in [Path -> Code \cup {NoCode}] /\ changed \subseteq Path
      /\ GoodTree(tree)
  BY DEF Open, IInv, TypeOK
<1>4. s \in FileState /\ s.path = files[i].path
  <2>1. NoCache \in Cache /\ disk[p] \in Code \cup {NoCode}
    BY <1>3 DEF NoCache, Cache
  <2> QED BY <1>1, <2>1 DEF FileState
<1>5. [files EXCEPT ![i].code = disk[p], ![i].cache = NoCache] = F
  BY <1>1 DEF IInv, GoodFiles
<1>6. \/ UNCHANGED <<tree, entry, files, changed>>
      \/ Settle(tree, F, entry, Reach({i}), {}, O)
      \/ disk[p] = NoCode /\ Settle(T, F, entry, Reach({i}), {}, O)
  BY <1>5 DEF Close
<1> HIDE DEF s
<1>7. /\ GoodFiles(F, entry) /\ DOMAIN F = DOMAIN files
      /\ \A j \in DOMAIN files : j # i => F[j] = files[j]
  BY <1>1, <1>3, <1>4, ReplaceGood
<1>8. GoodTree(T) /\ (disk[p] = NoCode => (Builtins # NoPath =>
                                              T[Builtins].kind = "file"))
  <2>1. NoSlot \in Slot /\ NoSlot.kind # "file" /\ p \in Node
    BY SlotTypes DEF Node
  <2>2. GoodTree(T)
    BY <1>3, <2>1 DEF GoodTree, Node
  <2>3. disk[p] = NoCode => (Builtins # NoPath => T[Builtins].kind = "file")
    BY <1>3, <2>1 DEF GoodTree, IInv, BuiltinsKnown
  <2> QED BY <2>2, <2>3
<1> HIDE DEF T, F, O
<1>9. /\ GoodTree(tree') /\ GoodFiles(files', entry') /\ changed' \subseteq Path
      /\ OpenHasState' /\ (EditorWins => EditorWins') /\ BuiltinsKnown'
  <2>1. CASE UNCHANGED <<tree, entry, files, changed>>
    <3>1. OpenHasState' /\ (EditorWins => EditorWins')
      BY <2>1, <1>1, <1>2, ClosedOpen DEF Extends
    <3> QED BY <2>1, <3>1, <1>2, <1>3 DEF IInv, BuiltinsKnown, envVars
  <2>2. CASE Settle(tree, F, entry, Reach({i}), {}, O)
    <3>1. tree' = tree /\ GoodFiles(files', entry') /\ Extends(F, files')
          /\ changed' \subseteq Path
      BY <2>2, <1>3, <1>7, SettleGood DEF IInv, BuiltinsKnown
    <3>2. OpenHasState' /\ (EditorWins => EditorWins')
      BY <3>1, <1>1, <1>2, <1>7, ClosedOpen
    <3> QED BY <3>1, <3>2, <1>2, <1>3 DEF IInv, BuiltinsKnown, envVars
  <2>3. CASE disk[p] = NoCode /\ Settle(T, F, entry, Reach({i}), {}, O)
    <3>1. tree' = T /\ GoodFiles(files', entry') /\ Extends(F, files')
          /\ changed' \subseteq Path
      BY <2>3, <1>3, <1>7, <1>8, SettleGood
    <3>2. OpenHasState' /\ (EditorWins => EditorWins')
      BY <3>1, <1>1, <1>2, <1>7, ClosedOpen
    <3> QED BY <2>3, <3>1, <3>2, <1>2, <1>8 DEF IInv, BuiltinsKnown, envVars
  <2> QED BY <1>6, <2>1, <2>2, <2>3
<1>10. TypeOK'
  BY <1>2, <1>9, BoundAssumption DEF IInv, TypeOK, GoodTree, GoodFiles, envVars
<1> QED BY <1>9, <1>10 DEF IInv

(* Unloading spares the open documents.                                    *)
LEMMA SparedOpen ==
  ASSUME IInv, NEW F, DOMAIN F = DOMAIN files,
         \A j \in DOMAIN files : F[j].path = files[j].path,
         \A p \in Path : inmem[p] # 0 =>
           F[inmem[p]].code = files[inmem[p]].code,
         Extends(F, files'), UNCHANGED <<inmem, editor>>
  PROVE  OpenHasState' /\ (EditorWins => EditorWins')
<1>1. OpenHasState'
  BY DEF IInv, OpenHasState, Extends
<1>2. ASSUME EditorWins PROVE EditorWins'
  <2> SUFFICES ASSUME NEW p \in Path
               PROVE  /\ editor'[p] # NoCode <=> inmem'[p] # 0
                      /\ inmem'[p] # 0 => files'[inmem'[p]].code = editor'[p]
    BY DEF EditorWins
  <2>1. editor[p] # NoCode <=> inmem[p] # 0
    BY <1>2 DEF EditorWins
  <2>2. ASSUME inmem[p] # 0 PROVE files'[inmem[p]].code = editor[p]
    <3>1. files[inmem[p]].code = editor[p] /\ inmem[p] \in DOMAIN files
      BY <1>2, <2>2 DEF EditorWins, IInv, OpenHasState
    <3> QED BY <3>1, <2>1, <2>2 DEF Extends
  <2> QED BY <2>1, <2>2
<1> QED BY <1>1, <1>2

(* The parts of Replace(n), named as there: the indexes of the files that  *)
(* go, the open documents among them, what is unloaded, where the          *)
(* invalidation starts, and the trees and entries it may end with.         *)
GoneIdxs(n) == {entry[EntryAt(tree, p)].idx :
                  p \in {q \in Walk(n) : IsFile(tree, q)}} \ {0}
Held(n)     == Retained(GoneIdxs(n))
Loose(n)    == GoneIdxs(n) \ {inmem[p] : p \in Held(n)}
Start(n)    == Loose(n) \cup (UNION {tree[x].invs : x \in Walk(n)})
                 \cup {inmem[p] : p \in Held(n)}
NewSlot(n)  == IF ~OnDisk(n) THEN NoSlot
               ELSE IF n \in Dir THEN DirSlot(FALSE) ELSE FileSlot(Fresh(n))
Cut(n)      == [x \in Node |-> IF x = n THEN NewSlot(n)
                               ELSE IF x \in Walk(n) THEN NoSlot
                               ELSE tree[x]]
Relisted(n) == IF n \in Dir /\ Held(n) # {} THEN Listing(Cut(n), n) ELSE Cut(n)
Restored(n) == [x \in Node |->
                  IF x \in Held(n) /\ Relisted(n)[x].kind # "file"
                  THEN FileSlot(Fresh(x)) ELSE Relisted(n)[x]]
Relinked(n) == [e \in Entry |->
                  IF e[1] \in Held(n) /\ e = EntryAt(Restored(n), e[1])
                  THEN [entry[e] EXCEPT !.idx = inmem[e[1]]] ELSE entry[e]]

(* Replace in terms of its parts.                                          *)
LEMMA ReplaceForm ==
  ASSUME NEW n, Replace(n)
  PROVE  /\ n \in Path => HasFresh(n)
         /\ \A p \in Held(n) : HasFresh(p)
         /\ Held(n) # {} => CanList(n)
         /\ watched' = watched \cup (dirs \cap {n})
         /\ \/ /\ ~HitsDb(Reach(Start(n)))
               /\ Settle(Restored(n), Unload(files, Loose(n)), Relinked(n),
                         Reach(Start(n)), Held(n), Open)
            \/ /\ HitsDb(Reach(Start(n)))
               /\ \E U \in SUBSET Loose(n) :
                    /\ HitsDb(Reach(U)) \/ U = Loose(n)
                    /\ Settle(Cut(n), Unload(files, U), entry,
                              Reach(Start(n)), {}, Open)
<1> DEFINE walked == {p \in Walk(n) : IsFile(tree, p)}
           idxs   == {entry[EntryAt(tree, p)].idx : p \in walked} \ {0}
           kept   == Retained(idxs)
           loose  == idxs \ {inmem[p] : p \in kept}
           invs   == UNION {tree[x].invs : x \in Walk(n)}
           start  == loose \cup invs \cup {inmem[p] : p \in kept}
           slot   == IF ~OnDisk(n) THEN NoSlot
                     ELSE IF n \in Dir THEN DirSlot(FALSE) ELSE FileSlot(Fresh(n))
           T1     == [x \in Node |-> IF x = n THEN slot
                                     ELSE IF x \in Walk(n) THEN NoSlot
                                     ELSE tree[x]]
           L      == IF n \in Dir /\ kept # {} THEN Listing(T1, n) ELSE T1
           T2     == [x \in Node |-> IF x \in kept /\ L[x].kind # "file"
                                     THEN FileSlot(Fresh(x)) ELSE L[x]]
           E2     == [e \in Entry |->
                        IF e[1] \in kept /\ e = EntryAt(T2, e[1])
                        THEN [entry[e] EXCEPT !.idx = inmem[e[1]]] ELSE entry[e]]
<1>1. /\ n \in Path => HasFresh(n)
      /\ \A p \in kept : HasFresh(p)
      /\ kept # {} => CanList(n)
      /\ watched' = watched \cup (dirs \cap {n})
      /\ \/ /\ ~HitsDb(Reach(start))
            /\ Settle(T2, Unload(files, loose), E2, Reach(start), kept, Open)
         \/ /\ HitsDb(Reach(start))
            /\ \E U \in SUBSET loose :
                 /\ HitsDb(Reach(U)) \/ U = loose
                 /\ Settle(T1, Unload(files, U), entry, Reach(start), {}, Open)
  BY DEF Replace
<1>2. idxs = GoneIdxs(n)
  BY DEF GoneIdxs
<1> HIDE DEF idxs
<1>3. kept = Held(n)
  BY <1>2 DEF Held
<1> HIDE DEF kept
<1>4. loose = Loose(n)
  BY <1>2, <1>3 DEF Loose
<1> HIDE DEF loose
<1>5. start = Start(n)
  BY <1>3, <1>4 DEF Start
<1>6. slot = NewSlot(n)
  BY DEF NewSlot
<1> HIDE DEF start, slot
<1>7. T1 = Cut(n)
  BY <1>6 DEF Cut
<1> HIDE DEF T1
<1>8. L = Relisted(n)
  BY <1>3, <1>7 DEF Relisted
<1> HIDE DEF L
<1>9. T2 = Restored(n)
  BY <1>3, <1>8 DEF Restored
<1> HIDE DEF T2
<1>10. E2 = Relinked(n)
  BY <1>3, <1>9 DEF Relinked
<1> HIDE DEF E2
<1> QED BY <1>1, <1>3, <1>4, <1>5, <1>7, <1>9, <1>10

(* The trees, file states and entries of Replace are well-formed, and what *)
(* it unloads is not open.                                                 *)
LEMMA ReplaceParts ==
  ASSUME IInv, NEW n \in Node, Replace(n)
  PROVE  /\ Held(n) \in SUBSET Path /\ Held(n) \subseteq Open
         /\ GoodTree(Cut(n)) /\ GoodTree(Restored(n))
         /\ Builtins # NoPath => /\ Cut(n)[Builtins].kind = "file"
                                 /\ Restored(n)[Builtins].kind = "file"
         /\ \A p \in Path : inmem[p] # 0 => inmem[p] \notin Loose(n)
         /\ \A U \in SUBSET Loose(n) :
              /\ GoodFiles(Unload(files, U), entry)
              /\ DOMAIN Unload(files, U) = DOMAIN files
              /\ \A j \in DOMAIN files :
                   Unload(files, U)[j].path = files[j].path
              /\ \A p \in Path : inmem[p] # 0 =>
                   Unload(files, U)[inmem[p]].code = files[inmem[p]].code
         /\ GoodFiles(Unload(files, Loose(n)), Relinked(n))
<1>1. /\ GoodFiles(files, entry) /\ GoodTree(tree)
      /\ Held(n) \in SUBSET Path /\ Held(n) \subseteq Open
  BY DEF Open, IInv, Retained, Held
<1>2. /\ n \in Path => HasFresh(n)
      /\ \A p \in Held(n) : HasFresh(p)
      /\ Held(n) # {} => CanList(n)
  BY ReplaceForm
<1>3. /\ NewSlot(n) \in Slot
      /\ n \in Path /\ NewSlot(n).kind = "file" => NewSlot(n).gen \in 1..MaxGen
      /\ n \in Path /\ OnDisk(n) => NewSlot(n).kind = "file"
  <2>1. n \in Path => Fresh(n) \in Entry
    BY <1>2, FreshEntry
  <2>2. n \in Path => n \notin Dir
    BY LayoutAssumption
  <2> QED BY <2>1, <2>2, SlotTypes DEF Node, NewSlot
<1>4. GoodTree(Cut(n)) /\ (Builtins # NoPath => Cut(n)[Builtins].kind = "file")
  <2>1. Cut(n) \in [Node -> Slot]
    BY <1>1, <1>3, SlotTypes DEF GoodTree, Cut
  <2>2. ASSUME NEW p \in Path, Cut(n)[p].kind = "file"
        PROVE  Cut(n)[p].gen \in 1..MaxGen
    <3>1. p \in Node
      BY DEF Node
    <3> QED BY <2>2, <3>1, <1>1, <1>3, SlotTypes DEF GoodTree, Cut
  <2>3. ASSUME Builtins # NoPath PROVE Cut(n)[Builtins].kind = "file"
    <3>1. Builtins \in Path /\ Builtins \in Node /\ disk[Builtins] # NoCode
          /\ tree[Builtins].kind = "file"
      BY <2>3, LayoutAssumption DEF IInv, BuiltinsKnown, Node
    <3>2. Builtins = n => OnDisk(n)
      BY <3>1, LayoutAssumption DEF OnDisk
    <3>3. Builtins # n => Builtins \notin Walk(n)
      BY <2>3, BuiltinsOutside DEF Walk
    <3> QED BY <3>1, <3>2, <3>3, <1>3 DEF Cut
  <2> QED BY <2>1, <2>2, <2>3 DEF GoodTree
<1>5. /\ GoodTree(Relisted(n))
      /\ Builtins # NoPath => Relisted(n)[Builtins].kind = "file"
  <2>1. CASE n \in Dir /\ Held(n) # {}
    <3>1. GoodTree(Listing(Cut(n), n))
          /\ \A x \in Node : x \notin Inside(n) \cup {n} =>
               Listing(Cut(n), n)[x] = Cut(n)[x]
      BY <2>1, <1>2, <1>4, ListingGood
    <3> QED BY <2>1, <3>1, <1>4, BuiltinsOutside DEF Node, Relisted
  <2>2. CASE ~(n \in Dir /\ Held(n) # {})
    BY <2>2, <1>4 DEF Relisted
  <2> QED BY <2>1, <2>2
<1>6. /\ GoodTree(Restored(n))
      /\ Builtins # NoPath => Restored(n)[Builtins].kind = "file"
  <2>1. \A x \in Held(n) : FileSlot(Fresh(x)) \in Slot
          /\ FileSlot(Fresh(x)).gen \in 1..MaxGen
          /\ FileSlot(Fresh(x)).kind = "file"
    BY <1>1, <1>2, FreshEntry, SlotTypes
  <2>2. Restored(n) \in [Node -> Slot]
    BY <2>1, <1>5 DEF GoodTree, Restored
  <2>3. ASSUME NEW p \in Path, Restored(n)[p].kind = "file"
        PROVE  Restored(n)[p].gen \in 1..MaxGen
    <3>1. p \in Node
      BY DEF Node
    <3> QED BY <2>1, <2>3, <3>1, <1>5 DEF GoodTree, Restored
  <2>4. Builtins # NoPath => Restored(n)[Builtins].kind = "file"
    BY <2>1, <1>5, LayoutAssumption DEF Node, Restored
  <2> QED BY <2>2, <2>3, <2>4 DEF GoodTree
<1>7. \A p \in Path : inmem[p] # 0 => inmem[p] \notin Loose(n)
  BY DEF Loose, Held, Retained, Open
<1>8. ASSUME NEW U \in SUBSET Loose(n)
      PROVE  /\ GoodFiles(Unload(files, U), entry)
             /\ DOMAIN Unload(files, U) = DOMAIN files
             /\ \A j \in DOMAIN files : Unload(files, U)[j].path = files[j].path
             /\ \A p \in Path : inmem[p] # 0 =>
                  Unload(files, U)[inmem[p]].code = files[inmem[p]].code
  <2>1. /\ Unload(files, U) \in Seq(FileState)
        /\ Len(Unload(files, U)) = Len(files)
        /\ DOMAIN Unload(files, U) = DOMAIN files
        /\ \A j \in DOMAIN files :
             /\ Unload(files, U)[j].path = files[j].path
             /\ j \notin U => Unload(files, U)[j].code = files[j].code
    BY <1>1, UnloadGood DEF GoodFiles
  <2>2. GoodFiles(Unload(files, U), entry)
    BY <2>1, <1>1 DEF GoodFiles
  <2> QED BY <2>1, <2>2, <1>7 DEF IInv, OpenHasState
<1>9. GoodFiles(Unload(files, Loose(n)), Relinked(n))
  <2>1. \A p \in Held(n) : /\ inmem[p] # 0 /\ inmem[p] \in 0..MaxFile
                           /\ inmem[p] \in DOMAIN files
                           /\ files[inmem[p]].path = p
    BY <1>1 DEF Open, IInv, TypeOK, OpenHasState
  <2>2. \A e \in Entry :
          /\ Relinked(n)[e] \in EntryRecord
          /\ Relinked(n)[e].idx \in {entry[e].idx} \cup
               (IF e[1] \in Held(n) THEN {inmem[e[1]]} ELSE {})
    <3> SUFFICES ASSUME NEW e \in Entry
                 PROVE  /\ Relinked(n)[e] \in EntryRecord
                        /\ Relinked(n)[e].idx \in {entry[e].idx} \cup
                             (IF e[1] \in Held(n) THEN {inmem[e[1]]} ELSE {})
      OBVIOUS
    <3>1. entry[e] \in EntryRecord
      BY <1>1 DEF GoodFiles
    <3>2. CASE e[1] \in Held(n) /\ e = EntryAt(Restored(n), e[1])
      <4>1. Relinked(n)[e] = [entry[e] EXCEPT !.idx = inmem[e[1]]]
        BY <3>2 DEF Relinked
      <4>2. inmem[e[1]] \in 0..MaxFile
        BY <2>1, <3>2
      <4> QED BY <3>1, <3>2, <4>1, <4>2 DEF EntryRecord
    <3>3. CASE ~(e[1] \in Held(n) /\ e = EntryAt(Restored(n), e[1]))
      <4>1. Relinked(n)[e] = entry[e]
        BY <3>3 DEF Relinked
      <4> QED BY <3>1, <4>1
    <3> QED BY <3>2, <3>3
  <2>3. Relinked(n) \in [Entry -> EntryRecord]
    BY <2>2 DEF Relinked
  <2> QED BY <2>1, <2>2, <2>3, <1>8 DEF GoodFiles
<1> QED BY <1>1, <1>4, <1>6, <1>7, <1>8, <1>9

(* Replacing an entry of the tree after a notification.                    *)
LEMMA ReplaceEntryGood ==
  ASSUME IInv, NEW n \in Node, Replace(n),
         UNCHANGED <<disk, dirs, inmem, editor, panics>>
  PROVE  /\ GoodTree(tree') /\ GoodFiles(files', entry') /\ changed' \subseteq Path
         /\ OpenHasState' /\ (EditorWins => EditorWins') /\ BuiltinsKnown'
         /\ watched' \subseteq Dir
<1>1. /\ Open \in SUBSET Path /\ {} \in SUBSET Path /\ changed \subseteq Path
      /\ disk \in [Path -> Code \cup {NoCode}]
  BY DEF Open, IInv, TypeOK
<1>2. watched' \subseteq Dir
  BY ReplaceForm DEF IInv, TypeOK
<1>3. CASE Settle(Restored(n), Unload(files, Loose(n)), Relinked(n),
                  Reach(Start(n)), Held(n), Open)
  <2>1. /\ tree' = Restored(n) /\ GoodFiles(files', entry')
        /\ changed' \subseteq Path
        /\ Extends(Unload(files, Loose(n)), files')
    BY <1>3, <1>1, ReplaceParts, SettleGood
  <2>2. OpenHasState' /\ (EditorWins => EditorWins')
    BY <2>1, ReplaceParts, SparedOpen
  <2> QED BY <2>1, <2>2, <1>2, ReplaceParts DEF IInv, BuiltinsKnown
<1>4. ASSUME NEW U \in SUBSET Loose(n),
             Settle(Cut(n), Unload(files, U), entry, Reach(Start(n)), {}, Open)
      PROVE  /\ GoodTree(tree') /\ GoodFiles(files', entry')
             /\ changed' \subseteq Path /\ BuiltinsKnown'
             /\ OpenHasState' /\ (EditorWins => EditorWins')
  <2>1. /\ tree' = Cut(n) /\ GoodFiles(files', entry') /\ changed' \subseteq Path
        /\ Extends(Unload(files, U), files')
    BY <1>4, <1>1, ReplaceParts, SettleGood
  <2>2. OpenHasState' /\ (EditorWins => EditorWins')
    BY <2>1, ReplaceParts, SparedOpen
  <2> QED BY <2>1, <2>2, ReplaceParts DEF IInv, BuiltinsKnown
<1> QED BY <1>2, <1>3, <1>4, ReplaceForm

(* How a notification is handled: the directory of n is read, or there is  *)
(* nothing to do, or entry n is replaced in a directory that was read.     *)
LEMMA NotifyCases ==
  ASSUME IInv, Notify, NEW n, n = Head(queue)
  PROVE  /\ n \in Node /\ queue # <<>> /\ queue' = Tail(queue) /\ queue' \in Seq(Node)
         /\ UNCHANGED <<disk, dirs, inmem, editor, panics>>
         /\ \/ /\ n \in Path /\ Holder[n] \in Dir
               /\ Enter(Holder[n])
            \/ /\ NothingToDo(n)
               /\ watched' = watched \cup (dirs \cap {n})
               /\ UNCHANGED <<tree, entry, files, changed>>
            \/ /\ ~NothingToDo(n) /\ (n \in Path => Visible(tree, n))
               /\ Replace(n)
<1>1. /\ n \in Node /\ queue # <<>> /\ queue' = Tail(queue) /\ queue' \in Seq(Node)
      /\ UNCHANGED <<disk, dirs, inmem, editor, panics>>
  BY DEF Notify, IInv, TypeOK
<1>2. CASE Unread(n) /\ Enter(Holder[n])
  BY <1>1, <1>2, LayoutAssumption DEF Unread
<1>3. CASE ~Unread(n) /\ NothingToDo(n)
           /\ watched' = watched \cup (dirs \cap {n})
           /\ UNCHANGED <<tree, entry, files, changed>>
  BY <1>1, <1>3
<1>4. CASE ~Unread(n) /\ ~NothingToDo(n) /\ Replace(n)
  <2>1. n \in Path => Visible(tree, n)
    BY <1>4 DEF Unread, NothingToDo, Irrelevant, Visible
  <2> QED BY <1>1, <1>4, <2>1
<1> QED BY <1>2, <1>3, <1>4 DEF Notify

(* Handling one notification.                                              *)
LEMMA NotifyGood ==
  ASSUME IInv, Notify
  PROVE  IInv' /\ (EditorWins => EditorWins')
<1> DEFINE n == Head(queue)
<1>1. n \in Node /\ queue' \in Seq(Node)
      /\ UNCHANGED <<disk, dirs, inmem, editor, panics>>
  BY NotifyCases
<1>2. CASE NothingToDo(n) /\ watched' = watched \cup (dirs \cap {n})
           /\ UNCHANGED <<tree, entry, files, changed>>
  <2>1. OpenHasState' /\ (EditorWins => EditorWins')
    BY <1>1, <1>2, KeepsOpen DEF Extends
  <2>2. TypeOK'
    BY <1>1, <1>2 DEF IInv, TypeOK
  <2> QED BY <1>1, <1>2, <2>1, <2>2 DEF IInv, BuiltinsKnown
<1>3. CASE ~NothingToDo(n) /\ Replace(n)
  <2>1. /\ GoodTree(tree') /\ GoodFiles(files', entry') /\ changed' \subseteq Path
        /\ OpenHasState' /\ (EditorWins => EditorWins') /\ BuiltinsKnown'
        /\ watched' \subseteq Dir
    BY <1>1, <1>3, ReplaceEntryGood
  <2>2. TypeOK'
    BY <1>1, <2>1 DEF IInv, TypeOK, GoodTree, GoodFiles
  <2> QED BY <2>1, <2>2 DEF IInv
<1>4. CASE Holder[n] \in Dir /\ Enter(Holder[n])
  BY <1>1, <1>4, EnterGood
<1> QED BY <1>2, <1>3, <1>4, NotifyCases

(* The disk changes under the database.                                    *)
LEMMA DiskGood ==
  ASSUME IInv, DiskNext
  PROVE  IInv' /\ (EditorWins => EditorWins')
<1>1. ASSUME UNCHANGED <<tree, entry, files, inmem, changed, editor, panics>>,
             disk' \in [Path -> Code \cup {NoCode}], dirs' \subseteq Dir,
             watched' \subseteq Dir, queue' \in Seq(Node),
             Builtins # NoPath => disk'[Builtins] # NoCode
      PROVE  IInv' /\ (EditorWins => EditorWins')
  <2>1. OpenHasState' /\ (EditorWins => EditorWins')
    BY <1>1, KeepsOpen DEF Extends
  <2>2. TypeOK'
    BY <1>1 DEF IInv, TypeOK
  <2> QED BY <1>1, <2>1, <2>2 DEF IInv, BuiltinsKnown
<1>2. ASSUME NEW n \in Node, NEW b, Report(n, b) PROVE queue' \in Seq(Node)
  <2>1. queue \in Seq(Node)
    BY DEF IInv, TypeOK
  <2>2. Append(queue, n) \in Seq(Node)
    BY <1>2, <2>1, AppendProperties
  <2> QED BY <1>2, <2>1, <2>2 DEF Report
<1>3. Path \subseteq Node /\ Dir \subseteq Node /\ NoCode \notin Code
      /\ (Builtins # NoPath => Builtins \in Path)
  BY LayoutAssumption DEF Node
<1>4. ASSUME NEW p \in Path, NEW c \in Code, WriteDisk(p, c)
      PROVE  IInv' /\ (EditorWins => EditorWins')
  <2>1. /\ disk' = [disk EXCEPT ![p] = c] /\ Report(p, Watches(p))
        /\ UNCHANGED <<dirs, watched, tree, entry, files, inmem, changed, editor,
                       panics>>
    BY <1>4 DEF WriteDisk
  <2>2. queue' \in Seq(Node)
    BY <2>1, <1>2, <1>3
  <2> QED BY <2>1, <2>2, <1>1, <1>3 DEF IInv, TypeOK, BuiltinsKnown
<1>5. ASSUME NEW p \in Path, DeleteDisk(p)
      PROVE  IInv' /\ (EditorWins => EditorWins')
  <2>1. /\ disk' = [disk EXCEPT ![p] = NoCode] /\ Report(p, Watches(p))
        /\ p # Builtins
        /\ UNCHANGED <<dirs, watched, tree, entry, files, inmem, changed, editor,
                       panics>>
    BY <1>5 DEF DeleteDisk
  <2>2. queue' \in Seq(Node)
    BY <2>1, <1>2, <1>3
  <2> QED BY <2>1, <2>2, <1>1, <1>3 DEF IInv, TypeOK, BuiltinsKnown
<1>6. ASSUME NEW d \in Dir, NEW content \in [Inside(d) -> Code \cup {NoCode}],
             MakeDir(d, content)
      PROVE  IInv' /\ (EditorWins => EditorWins')
  <2>1. /\ disk' = [p \in Path |-> IF p \in Inside(d) THEN content[p] ELSE disk[p]]
        /\ Report(d, TRUE) /\ dirs' = dirs \cup {d}
        /\ UNCHANGED <<watched, tree, entry, files, inmem, changed, editor, panics>>
    BY <1>6 DEF MakeDir
  <2>2. queue' \in Seq(Node)
    BY <2>1, <1>2, <1>3
  <2>3. disk' \in [Path -> Code \cup {NoCode}]
    BY <2>1 DEF IInv, TypeOK
  <2>4. Builtins # NoPath => disk'[Builtins] # NoCode
    BY <2>1, <1>3, BuiltinsOutside DEF IInv, BuiltinsKnown
  <2> QED BY <2>1, <2>2, <2>3, <2>4, <1>1 DEF IInv, TypeOK
<1>7. ASSUME NEW d \in Dir, RemoveDir(d)
      PROVE  IInv' /\ (EditorWins => EditorWins')
  <2>1. /\ disk' = [p \in Path |-> IF p \in Inside(d) THEN NoCode ELSE disk[p]]
        /\ Report(d, TRUE) /\ dirs' = dirs \ {d} /\ watched' = watched \ {d}
        /\ UNCHANGED <<tree, entry, files, inmem, changed, editor, panics>>
    BY <1>7 DEF RemoveDir
  <2>2. queue' \in Seq(Node)
    BY <2>1, <1>2, <1>3
  <2>3. disk' \in [Path -> Code \cup {NoCode}]
    BY <2>1 DEF IInv, TypeOK
  <2>4. Builtins # NoPath => disk'[Builtins] # NoCode
    BY <2>1, <1>3, BuiltinsOutside DEF IInv, BuiltinsKnown
  <2> QED BY <2>1, <2>2, <2>3, <2>4, <1>1 DEF IInv, TypeOK
<1> QED BY <1>4, <1>5, <1>6, <1>7 DEF DiskNext

(* A kept file state gets a new index, and its path leads there.           *)
LEMMA PlaceGood ==
  ASSUME NEW o, NEW p, Place(o, p) # 0
  PROVE  Place(o, p) \in DOMAIN o /\ files[o[Place(o, p)]].path = p
<1>1. \E k \in DOMAIN o : files[o[k]].path = p
  BY DEF Place
<1> QED BY <1>1 DEF Place

(* The parts of Recover for the order o, named as there: the file states,  *)
(* the directories that hold them, the tree and the entries.               *)
Saved(o)   == [k \in DOMAIN o |-> NewState(<<files[o[k]].path, 1>>,
                                          files[o[k]].code)]
Walked(o)  == {d \in Dir : \E p \in Inside(d) : Place(o, p) # 0}
Rebuilt(o) == [n \in Node |->
                 IF n \in Dir
                 THEN IF n \in Walked(o) THEN DirSlot(TRUE)
                      ELSE IF n \in dirs THEN DirSlot(FALSE) ELSE NoSlot
                 ELSE IF Place(o, n) # 0 \/
                         (disk[n] # NoCode /\ Holder[n] \in Walked(o) \cup {Root})
                 THEN FileSlot(<<n, 1>>) ELSE NoSlot]
Reentered(o) == [e \in Entry |->
                   LET k == Place(o, e[1])
                   IN  IF e[2] = 1 /\ k # 0
                       THEN [idx |-> k, invs |-> {},
                             db |-> entry[EntryOf(files, o[k])].db]
                       ELSE BlankEntry]

(* Recover in terms of its parts.                                          *)
LEMMA RecoverForm ==
  ASSUME Recover
  PROVE  /\ panics < MaxPanic /\ panics' = panics + 1
         /\ queue' = <<>> /\ changed' = Reannounced
         /\ UNCHANGED <<disk, dirs, editor>>
         /\ \E o \in Orders : /\ Regenerate(Rebuilt(o), Saved(o), Reentered(o))
                              /\ inmem' = Reopened(o)
                              /\ watched' = Walked(o) \cap dirs
  BY DEF Recover, Saved, Walked, Rebuilt, Reentered

(* The parts of Recover are well-formed.                                   *)
LEMMA RecoverParts ==
  ASSUME IInv, NEW o \in Orders
  PROVE  /\ GoodTree(Rebuilt(o))
         /\ Builtins # NoPath => Rebuilt(o)[Builtins].kind = "file"
         /\ GoodFiles(Saved(o), Reentered(o))
         /\ DOMAIN Saved(o) = DOMAIN o
         /\ \A k \in DOMAIN o :
              /\ o[k] \in DOMAIN files
              /\ Saved(o)[k] \in FileState
              /\ Saved(o)[k] = NewState(<<files[o[k]].path, 1>>,
                                        files[o[k]].code)
         /\ \A p : Place(o, p) # 0 =>
              /\ Place(o, p) \in DOMAIN o /\ Place(o, p) \in 0..MaxFile
              /\ files[o[Place(o, p)]].path = p
              /\ Saved(o)[Place(o, p)].path = p
<1>2. PICK n \in 0..Len(files) : o \in [1..n -> DOMAIN files]
  BY DEF Orders
<1>3. /\ GoodFiles(files, entry) /\ Len(files) \in Nat
      /\ DOMAIN files = 1..Len(files) /\ n \in 0..MaxFile /\ n \in Nat
      /\ \A k \in 1..n : o[k] \in DOMAIN files /\ files[o[k]] \in FileState
      /\ 1 \in 1..MaxGen /\ DOMAIN o = 1..n
  BY <1>2, LenProperties, BoundAssumption DEF IInv, GoodFiles
<1>4. ASSUME NEW k \in 1..n
      PROVE  /\ Saved(o)[k] \in FileState
             /\ Saved(o)[k].path = files[o[k]].path
             /\ Saved(o)[k] = NewState(<<files[o[k]].path, 1>>, files[o[k]].code)
             /\ entry[EntryOf(files, o[k])].db \in BOOLEAN
  <2>1. files[o[k]].path \in Path /\ files[o[k]].code \in Code \cup {NoCode}
        /\ files[o[k]].gen \in 1..MaxGen
    BY <1>3 DEF FileState
  <2>2. <<files[o[k]].path, 1>> \in Entry
    BY <2>1, <1>3 DEF Entry
  <2>3. Saved(o)[k] = NewState(<<files[o[k]].path, 1>>, files[o[k]].code)
    BY <1>3 DEF Saved
  <2>4. EntryOf(files, o[k]) \in Entry
    BY <2>1 DEF EntryOf, Entry
  <2> QED BY <2>1, <2>2, <2>3, <2>4, <1>3, NewStateType DEF GoodFiles, EntryRecord
<1>5. Saved(o) \in Seq(FileState) /\ Len(Saved(o)) = n /\ DOMAIN Saved(o) = 1..n
  <2>1. Saved(o) \in [1..n -> FileState]
    BY <1>3, <1>4 DEF Saved
  <2> QED BY <2>1, <1>3, FunctionIsSequence
<1>6. ASSUME NEW p, Place(o, p) # 0
      PROVE  /\ Place(o, p) \in 1..n /\ Place(o, p) \in 0..MaxFile
             /\ files[o[Place(o, p)]].path = p
             /\ Saved(o)[Place(o, p)].path = p
  <2>1. Place(o, p) \in DOMAIN o /\ files[o[Place(o, p)]].path = p
    BY <1>6, PlaceGood
  <2>2. Place(o, p) \in 1..n
    BY <2>1, <1>3
  <2>3. \A j \in 1..n : j \in 0..MaxFile
    BY <1>3, BoundAssumption
  <2> QED BY <2>1, <2>2, <2>3, <1>4
<1>7. /\ GoodTree(Rebuilt(o))
      /\ Builtins # NoPath => Rebuilt(o)[Builtins].kind = "file"
  <2>1. \A p \in Path : p \notin Dir /\ p \in Node /\ <<p, 1>> \in Entry
    BY <1>3, LayoutAssumption DEF Node, Entry
  <2>2. Rebuilt(o) \in [Node -> Slot]
    BY <2>1, SlotTypes DEF Node, Rebuilt
  <2>3. \A p \in Path : Rebuilt(o)[p].kind = "file" =>
                          Rebuilt(o)[p].gen \in 1..MaxGen
    BY <2>1, SlotTypes DEF Rebuilt
  <2>4. ASSUME Builtins # NoPath PROVE Rebuilt(o)[Builtins].kind = "file"
    <3>1. Builtins \in Path /\ disk[Builtins] # NoCode /\ Holder[Builtins] = Root
      BY <2>4, LayoutAssumption DEF IInv, BuiltinsKnown
    <3>2. Rebuilt(o)[Builtins] = FileSlot(<<Builtins, 1>>)
      BY <2>1, <3>1 DEF Rebuilt
    <3> QED BY <2>1, <3>1, <3>2, SlotTypes
  <2> QED BY <2>2, <2>3, <2>4 DEF GoodTree
<1>8. GoodFiles(Saved(o), Reentered(o))
  <2>1. BlankEntry \in EntryRecord /\ BlankEntry.idx = 0
    BY BoundAssumption DEF BlankEntry, EntryRecord
  <2>2. ASSUME NEW e \in Entry
        PROVE  /\ Reentered(o)[e] \in EntryRecord
               /\ Reentered(o)[e].idx # 0 =>
                    /\ Reentered(o)[e].idx \in DOMAIN Saved(o)
                    /\ Saved(o)[Reentered(o)[e].idx].path = e[1]
    <3>1. CASE e[2] = 1 /\ Place(o, e[1]) # 0
      <4> DEFINE k == Place(o, e[1])
                 r == [idx |-> k, invs |-> {}, db |-> entry[EntryOf(files, o[k])].db]
      <4>1. Reentered(o)[e] = r
        BY <3>1 DEF Reentered
      <4>2. k \in 1..n /\ Saved(o)[k].path = e[1] /\ k \in 0..MaxFile
        BY <3>1, <1>6
      <4>3. entry[EntryOf(files, o[k])].db \in BOOLEAN
        BY <4>2, <1>4
      <4>4. r \in EntryRecord /\ r.idx = k
        BY <4>2, <4>3 DEF EntryRecord
      <4> HIDE DEF r
      <4> QED BY <4>1, <4>2, <4>4, <1>5
    <3>2. CASE ~(e[2] = 1 /\ Place(o, e[1]) # 0)
      <4>1. Reentered(o)[e] = BlankEntry
        BY <3>2 DEF Reentered
      <4> QED BY <4>1, <2>1
    <3> QED BY <3>1, <3>2
  <2>3. Reentered(o) \in [Entry -> EntryRecord]
    BY <2>2 DEF Reentered
  <2> QED BY <2>2, <2>3, <1>3, <1>5 DEF GoodFiles
<1> QED BY <1>3, <1>4, <1>5, <1>6, <1>7, <1>8

(* A panic, or a change that reindexes the project.                        *)
LEMMA RecoverGood ==
  ASSUME IInv, Recover
  PROVE  IInv'
<1>1. PICK o \in Orders : /\ Regenerate(Rebuilt(o), Saved(o), Reentered(o))
                          /\ inmem' = Reopened(o)
                          /\ watched' = Walked(o) \cap dirs
  BY RecoverForm
<1>2. /\ tree' = Rebuilt(o) /\ GoodFiles(files', entry')
      /\ Extends(Saved(o), files')
  BY <1>1, RecoverParts, RegenerateGood DEF IInv, TypeOK
<1>3. changed' = Reannounced /\ queue' = <<>> /\ watched' \subseteq Dir
      /\ UNCHANGED <<disk, dirs, editor>> /\ panics' \in 0..MaxPanic
  BY <1>1, RecoverForm, BoundAssumption DEF IInv, TypeOK
<1>4. \A p \in Path : Place(o, p) # 0 =>
         /\ Place(o, p) \in DOMAIN files' /\ files'[Place(o, p)].path = p
         /\ Place(o, p) \in 0..MaxFile
  BY <1>2, RecoverParts DEF Extends
<1>5. OpenHasState' /\ inmem' \in [Path -> 0..MaxFile]
  BY <1>1, <1>4, BoundAssumption DEF OpenHasState, Reopened
<1>6. changed' \subseteq Path
  BY <1>3 DEF Reannounced, Open
<1>7. TypeOK'
  <2>1. <<>> \in Seq(Node)
    OBVIOUS
  <2> QED BY <2>1, <1>2, <1>3, <1>5, <1>6, RecoverParts
        DEF IInv, TypeOK, GoodTree, GoodFiles
<1> QED BY <1>2, <1>3, <1>5, <1>7, RecoverParts DEF IInv, BuiltinsKnown

-----------------------------------------------------------------------------
(* The invariant and the theorems                                          *)

(* The initial states satisfy the invariant.                               *)
LEMMA InitGood ==
  ASSUME Init
  PROVE  IInv /\ EditorWins
<1>1. /\ dirs \subseteq Dir /\ disk \in [Path -> Code \cup {NoCode}]
      /\ Builtins # NoPath => disk[Builtins] # NoCode
      /\ tree = [n \in Node |->
               IF n \in Dir THEN IF n \in dirs THEN DirSlot(FALSE) ELSE NoSlot
               ELSE IF Holder[n] = Root /\ disk[n] # NoCode
               THEN FileSlot(<<n, 1>>) ELSE NoSlot]
      /\ files = IF Builtins = NoPath THEN <<>>
                 ELSE <<NewState(<<Builtins, 1>>, disk[Builtins])>>
      /\ entry = [e \in Entry |->
                IF e = <<Builtins, 1>>
                THEN [idx |-> 1, invs |-> {}, db |-> TRUE] ELSE BlankEntry]
      /\ inmem = [p \in Path |-> 0] /\ editor = [p \in Path |-> NoCode]
      /\ watched = {} /\ queue = <<>> /\ changed = {} /\ panics = 0
  BY DEF Init
<1>2. \A p \in Path : p \notin Dir /\ p \in Node /\ <<p, 1>> \in Entry
  BY LayoutAssumption, BoundAssumption DEF Node, Entry
<1>3. GoodTree(tree)
  <2>1. tree \in [Node -> Slot]
    BY <1>1, <1>2, SlotTypes DEF Node
  <2>2. \A p \in Path : tree[p].kind = "file" => tree[p].gen \in 1..MaxGen
    BY <1>1, <1>2, SlotTypes
  <2> QED BY <2>1, <2>2 DEF GoodTree
<1>4. BuiltinsKnown
  <2> SUFFICES ASSUME Builtins # NoPath
               PROVE  disk[Builtins] # NoCode /\ tree[Builtins].kind = "file"
    BY DEF BuiltinsKnown
  <2>1. Builtins \in Path /\ Holder[Builtins] = Root
    BY LayoutAssumption
  <2>2. tree[Builtins] = FileSlot(<<Builtins, 1>>)
    BY <1>1, <1>2, <2>1
  <2> QED BY <1>1, <1>2, <2>1, <2>2, SlotTypes
<1>5. BlankEntry \in EntryRecord /\ BlankEntry.idx = 0
  BY BoundAssumption DEF BlankEntry, EntryRecord
<1>6. GoodFiles(files, entry)
  <2>1. CASE Builtins = NoPath
    <3>1. NoPath \notin Path
      BY LayoutAssumption DEF Node
    <3>2. \A e \in Entry : entry[e] = BlankEntry
      BY <1>1, <2>1, <3>1 DEF Entry
    <3>3. entry \in [Entry -> EntryRecord]
      BY <1>1, <1>5, <3>2
    <3>4. files \in Seq(FileState) /\ Len(files) <= MaxFile
      BY <1>1, <2>1, BoundAssumption
    <3> QED BY <1>5, <3>2, <3>3, <3>4 DEF GoodFiles
  <2>2. CASE Builtins # NoPath
    <3> DEFINE s == NewState(<<Builtins, 1>>, disk[Builtins])
               r == [idx |-> 1, invs |-> {}, db |-> TRUE]
    <3>1. s \in FileState /\ s.path = Builtins
      BY <1>1, <1>2, <2>2, NewStateType, LayoutAssumption
    <3>2. r \in EntryRecord /\ r.idx = 1
      BY <2>2, BoundAssumption DEF EntryRecord
    <3> HIDE DEF s, r
    <3>3. files = <<s>>
      BY <1>1, <2>2 DEF s
    <3>4. files \in Seq(FileState) /\ Len(files) = 1 /\ DOMAIN files = {1}
          /\ files[1] = s
      BY <3>1, <3>3
    <3>5. \A e \in Entry : entry[e] = IF e = <<Builtins, 1>> THEN r ELSE BlankEntry
      BY <1>1 DEF r
    <3>6. entry \in [Entry -> EntryRecord]
      BY <1>1, <1>5, <3>2, <3>5
    <3> QED BY <1>5, <2>2, <3>1, <3>2, <3>4, <3>5, <3>6, BoundAssumption
            DEF GoodFiles
  <2> QED BY <2>1, <2>2
<1>7. TypeOK
  <2>1. queue \in Seq(Node)
    BY <1>1
  <2>2. inmem \in [Path -> 0..MaxFile] /\ panics \in 0..MaxPanic
    BY <1>1, BoundAssumption
  <2>3. /\ editor \in [Path -> Code \cup {NoCode}] /\ changed \subseteq Path
        /\ watched \subseteq Dir
    BY <1>1
  <2>4. tree \in [Node -> Slot] /\ entry \in [Entry -> EntryRecord]
        /\ files \in Seq(FileState) /\ Len(files) <= MaxFile
    BY <1>3, <1>6 DEF GoodTree, GoodFiles
  <2>5. disk \in [Path -> Code \cup {NoCode}] /\ dirs \subseteq Dir
    BY <1>1
  <2> QED BY <2>1, <2>2, <2>3, <2>4, <2>5 DEF TypeOK
<1>8. OpenHasState /\ EditorWins
  BY <1>1 DEF OpenHasState, EditorWins
<1> QED BY <1>3, <1>4, <1>6, <1>7, <1>8 DEF IInv

(* Every step keeps the invariant; every step but a recovery keeps the     *)
(* text of the open documents.                                             *)
LEMMA StepGood ==
  ASSUME IInv, [Next]_vars
  PROVE  IInv' /\ (MaxPanic = 0 /\ EditorWins => EditorWins')
<1>1. ASSUME NEW f \in FileIndex, NEW m \in Mod, Import(f, m)
      PROVE  IInv' /\ (EditorWins => EditorWins')
  BY <1>1, ImportGood
<1>2. ASSUME NEW i \in FileIndex, Load(i)
      PROVE  IInv' /\ (EditorWins => EditorWins')
  BY <1>2, LoadGood
<1>3. ASSUME NEW p \in Path, LoadEntry(p) \/ Close(p)
      PROVE  IInv' /\ (EditorWins => EditorWins')
  BY <1>3, LoadEntryGood, CloseGood
<1>4. ASSUME NEW d \in Dir, ReadDir(d)
      PROVE  IInv' /\ (EditorWins => EditorWins')
  BY <1>4, EnterGood DEF ReadDir, IInv, TypeOK
<1>5. ASSUME NEW p \in Path, NEW c \in Code, StoreInMemory(p, c)
      PROVE  IInv' /\ (EditorWins => EditorWins')
  BY <1>5, StoreGood
<1>6. ASSUME Publish PROVE IInv' /\ (EditorWins => EditorWins')
  <2>1. UNCHANGED <<envVars, tree, entry, files, inmem, editor, panics>>
        /\ changed' = {}
    BY <1>6 DEF Publish
  <2>2. OpenHasState' /\ (EditorWins => EditorWins')
    BY <2>1, KeepsOpen DEF Extends
  <2>3. TypeOK'
    BY <2>1 DEF IInv, TypeOK, envVars
  <2> QED BY <2>1, <2>2, <2>3 DEF IInv, BuiltinsKnown, envVars
<1>7. ASSUME Notify PROVE IInv' /\ (EditorWins => EditorWins')
  BY <1>7, NotifyGood
<1>8. ASSUME Recover PROVE IInv' /\ MaxPanic # 0
  <2>1. panics < MaxPanic /\ panics \in 0..MaxPanic
    BY <1>8 DEF Recover, IInv, TypeOK
  <2> QED BY <1>8, <2>1, RecoverGood, BoundAssumption
<1>9. ASSUME DiskNext PROVE IInv' /\ (EditorWins => EditorWins')
  BY <1>9, DiskGood
<1>10. ASSUME UNCHANGED vars PROVE IInv' /\ (EditorWins => EditorWins')
  <2>1. OpenHasState' /\ (EditorWins => EditorWins')
    BY <1>10, KeepsOpen DEF Extends, vars
  <2>2. TypeOK'
    BY <1>10 DEF IInv, TypeOK, vars
  <2> QED BY <1>10, <2>1, <2>2 DEF IInv, BuiltinsKnown, vars
<1> QED
  BY <1>1, <1>2, <1>3, <1>4, <1>5, <1>6, <1>7, <1>8, <1>9, <1>10
  DEF Next, DatabaseNext

(* The state of the virtual file system is well-formed in every run: every *)
(* index, entry and slot is one that exists, whatever the disk, the editor *)
(* and panics do.                                                          *)
THEOREM Types == Spec => []TypeOK
<1>1. Init => IInv
  BY InitGood
<1>2. IInv /\ [Next]_vars => IInv'
  BY StepGood
<1>3. IInv => TypeOK
  BY DEF IInv
<1> QED BY <1>1, <1>2, <1>3, PTL DEF Spec

(* As long as the process does not panic, the checker works on the text    *)
(* the editor sent last for every open document, in workspaces of any      *)
(* shape and whatever happens on disk in between.                          *)
THEOREM EditorAlwaysWins ==
  ASSUME MaxPanic = 0
  PROVE  Spec => []EditorWins
<1>1. Init => IInv /\ EditorWins
  BY InitGood
<1>2. (IInv /\ EditorWins) /\ [Next]_vars => (IInv /\ EditorWins)'
  BY StepGood
<1> QED BY <1>1, <1>2, PTL DEF Spec
=============================================================================
