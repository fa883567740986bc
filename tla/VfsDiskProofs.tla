--------------------------- MODULE VfsDiskProofs ---------------------------
(* Proofs that Vfs catches up with the disk: what no event is pending for  *)
(* is as it is on disk and in the editor.                                  *)
EXTENDS VfsInvalidationProofs

(* What the tree T, the file states F and the entries E say about p is     *)
(* what the disk and the documents I say.                                  *)
Current(T, F, E, I, p) ==
  /\ T[p].kind = "file" <=> (disk[p] # NoCode \/ I[p] # 0)
  /\ T[p].kind = "file" /\ I[p] = 0 =>
       LET i == E[EntryAt(T, p)].idx
       IN  i # 0 => F[i].code \in {disk[p], NoCode}

(* The paths whose events are not handled yet.                             *)
Pending == {queue[k] : k \in DOMAIN queue}

(* The inductive invariants.                                               *)
RootsCurrent ==
  \A p \in Path : Holder[p] = Root /\ p \notin Pending =>
                    Current(tree, files, entry, inmem, p)
DirsSeen == \A d \in dirs \ Pending : tree[d].kind = "dir"

(* If d is in the tree T, it is there for the documents I below it.        *)
LeftFor(T, I, d) ==
  T[d].kind = "dir" =>
    /\ Inside(d) \cap Editable # {}
    /\ \A p \in Inside(d) : T[p].kind = "file" => I[p] # 0

DirsLeft == \A d \in Dir \ (dirs \cup Pending) : LeftFor(tree, inmem, d)

(* What is below a directory that is not on disk is not either.            *)
Bare == \A p \in Path : Holder[p] \in Dir \ dirs => disk[p] = NoCode

-----------------------------------------------------------------------------
(* Operators                                                               *)

(* The queue grows at its end and is handled from its front.               *)
LEMMA PendingGrows ==
  ASSUME queue \in Seq(Node), NEW n \in Node, NEW seen \in BOOLEAN,
         Report(n, seen)
  PROVE  Pending \subseteq Pending' /\ (seen => n \in Pending')
<1>1. CASE seen
  <2>1. queue' = Append(queue, n)
    BY <1>1 DEF Report
  <2>2. /\ \A k \in DOMAIN queue : k \in DOMAIN queue' /\ queue'[k] = queue[k]
        /\ Len(queue) + 1 \in DOMAIN queue' /\ queue'[Len(queue) + 1] = n
    BY <2>1, LenProperties, AppendProperties
  <2> QED BY <2>2 DEF Pending
<1>2. CASE ~seen
  BY <1>2 DEF Report, Pending
<1> QED BY <1>1, <1>2

(* Taking an event off the queue settles no other.                         *)
LEMMA PendingShrinks ==
  ASSUME queue \in Seq(Node), queue # <<>>, queue' = Tail(queue)
  PROVE  /\ Pending \subseteq Pending' \cup {Head(queue)}
         /\ Head(queue) \in Node
<1>1. /\ Head(queue) = queue[1] /\ Head(queue) \in Node
      /\ \A k \in DOMAIN queue : k = 1 \/ (k - 1 \in DOMAIN Tail(queue)
                                           /\ Tail(queue)[k - 1] = queue[k])
  OBVIOUS
<1> QED BY <1>1 DEF Pending

(* The tree, the documents and the states of other paths may change, and   *)
(* those of p may be unloaded or read again.                               *)
LEMMA SameCurrent ==
  ASSUME NEW p \in Path, NEW T, GoodTree(T), NEW F, NEW E, GoodFiles(F, E),
         NEW I, Current(T, F, E, I, p),
         NEW U, U[p].kind = "file" <=> T[p].kind = "file",
         T[p].kind = "file" => U[p].gen = T[p].gen,
         NEW J, J[p] = I[p], NEW G, NEW H,
         \A i \in DOMAIN F : F[i].path = p =>
           G[i].code \in {F[i].code, NoCode, disk[p]},
         T[p].kind = "file" =>
           LET e == EntryAt(T, p)
           IN  \/ H[e].idx = E[e].idx
               \/ H[e].idx # 0 => G[H[e].idx].code \in {disk[p], NoCode}
  PROVE  Current(U, G, H, J, p)
<1>1. CASE T[p].kind = "file" /\ I[p] = 0
  <2>1. EntryAt(U, p) = EntryAt(T, p)
    BY <1>1 DEF EntryAt
  <2>2. EntryAt(T, p) \in Entry /\ EntryAt(T, p)[1] = p
    BY <1>1 DEF EntryAt, GoodTree, Entry
  <2> DEFINE e == EntryAt(T, p)
  <2>3. E[e].idx # 0 => /\ E[e].idx \in DOMAIN F /\ F[E[e].idx].path = p
                        /\ F[E[e].idx].code \in {disk[p], NoCode}
    BY <1>1, <2>2 DEF GoodFiles, Current
  <2>4. H[e].idx # 0 => G[H[e].idx].code \in {disk[p], NoCode}
    BY <1>1, <2>3
  <2> HIDE DEF e
  <2> QED BY <1>1, <2>1, <2>4 DEF Current, e
<1>2. CASE ~(T[p].kind = "file" /\ I[p] = 0)
  BY <1>2 DEF Current
<1> QED BY <1>1, <1>2

(* Freeing entries takes none from the tree.                               *)
LEMMA FinishCurrent ==
  ASSUME NEW p \in Path, NEW T, GoodTree(T), NEW F, NEW E, GoodFiles(F, E),
         NEW I, Current(T, F, E, I, p), Finish(T, F, E)
  PROVE  tree' = T /\ Current(tree', files', entry', I, p)
<1>1. tree' = T /\ files' = F /\ entry' = Collect(T, F, E)
  BY DEF Finish
<1>2. T[p].kind = "file" => entry'[EntryAt(T, p)] = E[EntryAt(T, p)]
  <2>1. F \in Seq(FileState)
    BY DEF GoodFiles
  <2> QED BY <1>1, <2>1, LiveEntries DEF Collect
<1> QED BY <1>1, <1>2 DEF Current

(* The builtins are loaded from disk.                                      *)
LEMMA RegenerateCurrent ==
  ASSUME NEW p \in Path, NEW T, GoodTree(T), NEW F, NEW E, GoodFiles(F, E),
         NEW I, Current(T, F, E, I, p),
         Builtins # NoPath => T[Builtins].kind = "file",
         disk \in [Path -> Code \cup {NoCode}], Regenerate(T, F, E)
  PROVE  tree' = T /\ Current(tree', files', entry', I, p)
<1> DEFINE e == EntryAt(T, Builtins)
           i == E[e].idx
<1>0. F \in Seq(FileState) /\ E \in [Entry -> EntryRecord]
  BY DEF GoodFiles
<1>1. CASE Builtins = NoPath \/ (i # 0 /\ F[i].code # NoCode)
  BY <1>1, FinishCurrent DEF Regenerate
<1>2. CASE Builtins # NoPath /\ i # 0 /\ F[i].code = NoCode
  <2>1. Builtins \in Path /\ e \in Entry /\ e[1] = Builtins
    BY <1>0, <1>2, LayoutAssumption, LiveEntries
  <2>2. i \in DOMAIN F /\ F[i].path = Builtins /\ F[i] \in FileState
        /\ disk[Builtins] \in Code \cup {NoCode}
    BY <1>0, <1>2, <2>1 DEF GoodFiles
  <2> DEFINE s == [F[i] EXCEPT !.code = disk[Builtins]]
             G == [F EXCEPT ![i] = s]
  <2>3. s \in FileState /\ s.path = F[i].path /\ s.code = disk[Builtins]
    BY <2>2 DEF FileState
  <2>4. Finish(T, [F EXCEPT ![i].code = disk[Builtins]], E)
    BY <1>2 DEF Regenerate
  <2>5. Finish(T, G, E)
    BY <2>4
  <2> HIDE DEF s, i
  <2>6. GoodFiles(G, E) /\ \A j \in DOMAIN F : G[j] = IF j = i THEN s ELSE F[j]
    BY <2>2, <2>3, ReplaceGood
  <2>7. \A j \in DOMAIN F : F[j].path = p => G[j].code \in {F[j].code, NoCode, disk[p]}
    BY <2>2, <2>3, <2>6
  <2> HIDE DEF G
  <2>8. Current(T, G, E, I, p)
    BY <2>7, SameCurrent
  <2> QED BY <2>5, <2>6, <2>8, FinishCurrent
<1>3. CASE Builtins # NoPath /\ i = 0
  <2> DEFINE s == NewState(e, disk[Builtins])
             r == [idx |-> Len(F) + 1, invs |-> {}, db |-> TRUE]
             G == Append(F, s)
             H == [E EXCEPT ![e] = r]
  <2>1. Builtins \in Path /\ e \in Entry /\ e[1] = Builtins
    BY <1>0, <1>3, LayoutAssumption, LiveEntries
  <2>2. s \in FileState /\ s.path = e[1] /\ s.code = disk[Builtins]
    BY <2>1, NewStateType
  <2>3. Len(F) < MaxFile /\ Finish(T, G, H)
    BY <1>3 DEF Regenerate
  <2>4. r \in EntryRecord /\ r.idx = Len(F) + 1
    BY <1>0, <2>3, BoundAssumption, LenProperties DEF EntryRecord
  <2> HIDE DEF s, r, e, i
  <2>5. GoodFiles(G, H) /\ G[Len(F) + 1] = s
    BY <2>1, <2>2, <2>3, <2>4, AppendGood
  <2>6. \A j \in DOMAIN F : G[j] = F[j]
    BY <1>0, <2>2, AppendProperties, LenProperties
  <2>7. T[p].kind = "file" =>
          LET x == EntryAt(T, p)
          IN  \/ H[x].idx = E[x].idx
              \/ H[x].idx # 0 => G[H[x].idx].code \in {disk[p], NoCode}
    <3> SUFFICES ASSUME T[p].kind = "file"
                 PROVE  LET x == EntryAt(T, p)
                        IN  \/ H[x].idx = E[x].idx
                            \/ H[x].idx # 0 => G[H[x].idx].code \in {disk[p], NoCode}
      OBVIOUS
    <3>1. EntryAt(T, p) \in Entry /\ EntryAt(T, p)[1] = p
      BY <1>0, LiveEntries
    <3>2. H[e] = r /\ \A x \in Entry : x # e => H[x] = E[x]
      BY <1>0, <2>1
    <3> QED BY <2>1, <2>2, <2>4, <2>5, <3>1, <3>2
  <2> HIDE DEF G, H
  <2>8. Current(T, G, H, I, p)
    BY <2>6, <2>7, SameCurrent
  <2> QED BY <2>3, <2>5, <2>8, FinishCurrent
<1> QED BY <1>1, <1>2, <1>3

(* An invalidation takes caches and registrations only.                    *)
LEMMA SettleCurrent ==
  ASSUME NEW p \in Path, NEW T, GoodTree(T), NEW F, NEW E, GoodFiles(F, E),
         NEW I, Current(T, F, E, I, p),
         Builtins # NoPath => T[Builtins].kind = "file",
         disk \in [Path -> Code \cup {NoCode}],
         NEW R, NEW N, NEW O, Settle(T, F, E, R, N, O)
  PROVE  tree' = T /\ Current(tree', files', entry', I, p)
<1>1. ASSUME NEW X, NEW Y
      PROVE  /\ GoodFiles(Forget(F, X), Taken(E, Y))
             /\ Current(T, Forget(F, X), Taken(E, Y), I, p)
  <2>1. /\ F \in Seq(FileState) /\ E \in [Entry -> EntryRecord]
        /\ Len(F) <= MaxFile
    BY DEF GoodFiles
  <2>2. /\ Forget(F, X) \in Seq(FileState) /\ Len(Forget(F, X)) = Len(F)
        /\ DOMAIN Forget(F, X) = DOMAIN F
        /\ \A j \in DOMAIN F : /\ Forget(F, X)[j].path = F[j].path
                               /\ Forget(F, X)[j].code = F[j].code
    BY <2>1, ForgetGood
  <2>3. /\ Taken(E, Y) \in [Entry -> EntryRecord]
        /\ \A x \in Entry : Taken(E, Y)[x].idx = E[x].idx
    BY <2>1, TakenGood
  <2>4. GoodFiles(Forget(F, X), Taken(E, Y))
    BY <2>1, <2>2, <2>3 DEF GoodFiles
  <2>5. T[p].kind = "file" => EntryAt(T, p) \in Entry
    BY <2>1, LiveEntries
  <2>6. \A i \in DOMAIN F : F[i].path = p =>
          Forget(F, X)[i].code \in {F[i].code, NoCode, disk[p]}
    BY <2>2
  <2>7. T[p].kind = "file" =>
          LET e == EntryAt(T, p) IN Taken(E, Y)[e].idx = E[e].idx
    BY <2>3, <2>5
  <2>8. Current(T, Forget(F, X), Taken(E, Y), I, p)
    BY <2>6, <2>7, SameCurrent
  <2> QED BY <2>4, <2>8
<1>2. CASE ~HitsDb(R) /\ Finish(T, Forget(F, R), Taken(E, R))
  BY <1>1, <1>2, FinishCurrent
<1>3. ASSUME NEW V \in SUBSET R, Regenerate(T, Forget(F, DOMAIN F), Taken(E, V))
      PROVE  tree' = T /\ Current(tree', files', entry', I, p)
  BY <1>1, <1>3, RegenerateCurrent
<1> QED BY <1>2, <1>3 DEF Settle

-----------------------------------------------------------------------------
(* Actions                                                                 *)

(* An import reads directories and adds file states that are not loaded.   *)
LEMMA ImportCurrent ==
  ASSUME IInv, NEW f \in FileIndex, NEW m \in Mod, Import(f, m),
         NEW p \in Path, Holder[p] = Root,
         Current(tree, files, entry, inmem, p)
  PROVE  Current(tree, files, entry, inmem, p)'
<1> DEFINE d  == Package[m]
           T0 == IF IsDir(tree, d) THEN Listing(tree, d) ELSE tree
           T1 == AddMissing(T0, MissingNames(T0, m), f)
           t  == Target(T0, m)
           e  == EntryAt(T0, t)
           i  == entry[e].idx
           F(v) == [files EXCEPT ![f].cache[m] = v]
<1>1. /\ GoodTree(T0) /\ T0[p] = tree[p]
  <2>1. CASE IsDir(tree, d)
    <3>1. d \in Dir /\ CanList(d) /\ GoodTree(tree)
      BY <2>1, LayoutAssumption DEF IsDir, Import, IInv
    <3>2. p \in Node /\ p \notin Inside(d) \cup {d}
      BY <3>1, LayoutAssumption DEF Inside, Node
    <3> QED BY <2>1, <3>1, <3>2, ListingGood
  <2>2. CASE ~IsDir(tree, d)
    BY <2>2 DEF IInv
  <2> QED BY <2>1, <2>2
<1>2. /\ t = NoPath /\ \E v \in {NotFound, Namespace} : Finish(T1, F(v), entry)
      \/ /\ t # NoPath /\ i # 0
         /\ Finish(T1, F(i), AddInv(entry, e, f))
      \/ /\ t # NoPath /\ i = 0 /\ Len(files) < MaxFile
         /\ Finish(T1, Append(F(Len(files) + 1), NewState(e, NoCode)),
                   AddInv([entry EXCEPT ![e].idx = Len(files) + 1], e, f))
  BY DEF Import
<1>3. /\ disk' = disk /\ inmem' = inmem /\ f \in DOMAIN files
      /\ GoodFiles(files, entry) /\ files \in Seq(FileState)
      /\ entry \in [Entry -> EntryRecord] /\ Len(files) \in Nat
  BY LenProperties DEF Import, IInv, GoodFiles
<1>4. t # NoPath => e \in Entry /\ e[1] = t /\ entry[e] \in EntryRecord
  BY <1>1, <1>3, TargetIsFile DEF GoodTree, EntryAt, Entry
<1> HIDE DEF T0
<1>5. /\ GoodTree(T1)
      /\ T1[p].kind = "file" <=> tree[p].kind = "file"
      /\ tree[p].kind = "file" => T1[p].gen = tree[p].gen
  <2>1. GoodTree(T1)
    BY <1>1, AddMissingGood
  <2>2. \A S : MissingSlot(S).kind = "missing"
    BY DEF MissingSlot
  <2>3. p \in Node /\ T0[p] \in Slot
    BY <1>1 DEF GoodTree, Node
  <2>4. \/ T1[p] = T0[p]
        \/ T0[p].kind = "none" /\ \E S : T1[p] = MissingSlot(S)
        \/ \E S : T1[p] = [T0[p] EXCEPT !.invs = S]
    BY <2>3 DEF AddMissing
  <2> QED BY <1>1, <2>1, <2>2, <2>3, <2>4 DEF Slot
<1> HIDE DEF T1
<1>6. \A v \in FileIndex \cup {NotFound, Namespace} :
        /\ GoodFiles(F(v), entry) /\ Len(F(v)) = Len(files)
        /\ DOMAIN F(v) = DOMAIN files
        /\ \A j \in DOMAIN files : F(v)[j].code = files[j].code
  <2> SUFFICES ASSUME NEW v \in FileIndex \cup {NotFound, Namespace}
               PROVE  /\ GoodFiles(F(v), entry) /\ Len(F(v)) = Len(files)
                      /\ DOMAIN F(v) = DOMAIN files
                      /\ \A j \in DOMAIN files : F(v)[j].code = files[j].code
    OBVIOUS
  <2> DEFINE s == [files[f] EXCEPT !.cache = [@ EXCEPT ![m] = v]]
  <2>1. files[f] \in FileState /\ F(v) = [files EXCEPT ![f] = s]
    BY <1>3
  <2>2. s \in FileState /\ s.path = files[f].path /\ s.code = files[f].code
    BY <2>1 DEF FileState, Cache
  <2> HIDE DEF s
  <2> QED BY <1>3, <2>1, <2>2, ReplaceGood
<1> HIDE DEF F
<1>7. Current(T1, files, entry, inmem, p)
  BY <1>3, <1>5, SameCurrent DEF IInv
<1>8. \E G, H : /\ GoodFiles(G, H) /\ Finish(T1, G, H)
                /\ Current(T1, G, H, inmem, p)
  <2>0. tree[p].kind = "file" => EntryAt(T1, p) \in Entry /\ EntryAt(T1, p)[1] = p
    BY <1>3, <1>5, LiveEntries
  <2>1. ASSUME NEW H, GoodFiles(files, H), NEW x \in Entry,
               \A y \in Entry : H[y].idx = entry[y].idx \/ y = x
        PROVE  \A y \in Entry : AddInv(H, x, f)[y].idx = H[y].idx
    <3>1. \A y \in Entry : H[y] \in EntryRecord
      BY <2>1 DEF GoodFiles
    <3> QED BY <3>1, <2>1 DEF AddInv, GoodFiles, EntryRecord
  <2>2. CASE t = NoPath
    <3>1. PICK v \in {NotFound, Namespace} : Finish(T1, F(v), entry)
      BY <2>2, <1>2
    <3>2. /\ GoodFiles(F(v), entry)
          /\ \A j \in DOMAIN files : F(v)[j].code = files[j].code
      BY <1>6
    <3>3. Current(T1, F(v), entry, inmem, p)
      BY <1>3, <1>5, <1>7, <3>2, SameCurrent
    <3> QED BY <3>1, <3>2, <3>3
  <2>3. CASE t # NoPath /\ i # 0
    <3>1. i \in FileIndex
      BY <2>3, <1>4, BoundAssumption DEF FileIndex, EntryRecord
    <3>2. /\ GoodFiles(F(i), entry)
          /\ \A j \in DOMAIN files : F(i)[j].code = files[j].code
      BY <3>1, <1>6
    <3>3. GoodFiles(F(i), AddInv(entry, e, f))
      BY <2>3, <3>2, <1>4, AddInvGood
    <3>4. \A y \in Entry : AddInv(entry, e, f)[y].idx = entry[y].idx
      BY <2>1, <2>3, <1>3, <1>4
    <3>5. Current(T1, F(i), AddInv(entry, e, f), inmem, p)
      <4> HIDE DEF i
      <4> QED BY <1>3, <1>5, <1>7, <3>2, <3>4, <2>0, SameCurrent
    <3> QED BY <2>3, <3>3, <3>5, <1>2
  <2>4. CASE t # NoPath /\ i = 0
    <3> DEFINE k == Len(files) + 1
               r == [entry[e] EXCEPT !.idx = k]
               s == NewState(e, NoCode)
               H == [entry EXCEPT ![e] = r]
               G == Append(F(k), s)
               K == AddInv(H, e, f)
    <3>1. Len(files) < MaxFile /\ k \in FileIndex /\ k \in 0..MaxFile
      BY <2>4, <1>2, <1>3, BoundAssumption DEF FileIndex
    <3>2. r \in EntryRecord /\ r.idx = k
      BY <2>4, <1>4, <3>1 DEF EntryRecord
    <3>3. s \in FileState /\ s.path = e[1] /\ s.code = NoCode
      BY <2>4, <1>4, NewStateType
    <3>4. Finish(T1, G, K)
      BY <2>4, <1>2
    <3>5. /\ GoodFiles(F(k), entry) /\ Len(F(k)) = Len(files)
          /\ \A j \in DOMAIN files : F(k)[j].code = files[j].code
          /\ DOMAIN F(k) = DOMAIN files
      BY <3>1, <1>6
    <3>6. e \in Entry
      BY <2>4, <1>4
    <3> HIDE DEF e, s, r
    <3>7. GoodFiles(G, H) /\ G[k] = s
      <4>1. Len(F(k)) + 1 = k
        BY <3>5
      <4> HIDE DEF k
      <4> QED BY <3>1, <3>2, <3>3, <3>5, <3>6, <4>1, AppendGood
    <3>8. \A j \in DOMAIN files : G[j].code = files[j].code
      BY <3>3, <3>5, AppendProperties, LenProperties DEF GoodFiles
    <3>9. GoodFiles(G, K)
      BY <3>6, <3>7, AddInvGood
    <3>10. \A y \in Entry : K[y].idx = IF y = e THEN k ELSE entry[y].idx
      <4>1. \A y \in Entry : H[y] \in EntryRecord
        BY <3>7 DEF GoodFiles
      <4>2. \A y \in Entry : H[y].idx = IF y = e THEN k ELSE entry[y].idx
        BY <3>2, <3>6, <1>3
      <4>3. \A y \in Entry : K[y].idx = H[y].idx
        BY <4>1, <3>6, <3>7 DEF AddInv, GoodFiles, EntryRecord
      <4> QED BY <4>2, <4>3
    <3> HIDE DEF G, K, k
    <3>11. Current(T1, G, K, inmem, p)
      BY <1>3, <1>5, <1>7, <3>3, <3>7, <3>8, <3>10, <2>0, SameCurrent
    <3> QED BY <3>4, <3>9, <3>11
  <2> QED BY <2>2, <2>3, <2>4
<1>9. Current(tree', files', entry', inmem, p)
  BY <1>5, <1>8, FinishCurrent
<1> QED BY <1>3, <1>9 DEF Current

(* Listing a directory is none of the root's business.                     *)
LEMMA EnterCurrent ==
  ASSUME IInv, NEW p \in Path, Holder[p] = Root, NEW d \in Dir, Enter(d),
         UNCHANGED <<disk, inmem>>, Current(tree, files, entry, inmem, p)
  PROVE  Current(tree, files, entry, inmem, p)'
<1>1. tree' = Listing(tree, d) /\ CanList(d) /\ UNCHANGED <<entry, files>>
      /\ GoodTree(tree) /\ p \in Node
  BY DEF Enter, IInv, Node
<1>2. p \notin Inside(d) \cup {d}
  BY LayoutAssumption DEF Inside, Node
<1>3. tree'[p] = tree[p]
  BY <1>1, <1>2, ListingGood
<1>4. EntryAt(tree', p) = EntryAt(tree, p)
  BY <1>3 DEF EntryAt
<1> QED BY <1>1, <1>3, <1>4 DEF Current

(* Files are loaded from disk.                                             *)
LEMMA LoadCurrent ==
  ASSUME IInv, NEW p \in Path, Holder[p] = Root,
         Current(tree, files, entry, inmem, p),
         \/ \E i \in FileIndex : Load(i)
         \/ \E q \in Path : LoadEntry(q)
         \/ \E d \in Dir : ReadDir(d)
  PROVE  Current(tree, files, entry, inmem, p)'
<1>0. /\ GoodTree(tree) /\ GoodFiles(files, entry) /\ files \in Seq(FileState)
      /\ p \in Node /\ disk \in [Path -> Code \cup {NoCode}]
      /\ entry \in [Entry -> EntryRecord]
      /\ tree[p].kind = "file" => EntryAt(tree, p) \in Entry
  BY LiveEntries DEF IInv, GoodFiles, Node, TypeOK
<1>1. ASSUME NEW i \in FileIndex, Load(i)
      PROVE  Current(tree, files, entry, inmem, p)'
  <2>1. /\ files' = [files EXCEPT ![i].code = disk[files[i].path]]
        /\ UNCHANGED <<disk, tree, entry, inmem>>
    BY <1>1 DEF Load, envVars
  <2>2. \A j \in DOMAIN files : files[j] \in FileState
    BY <1>0
  <2>3. \A j \in DOMAIN files : files[j].path = p =>
          files'[j].code \in {files[j].code, NoCode, disk[p]}
    BY <2>1, <2>2 DEF FileState
  <2>4. Current(tree, files', entry, inmem, p)
    BY <1>0, <2>3, SameCurrent
  <2> QED BY <2>1, <2>4 DEF Current
<1>2. ASSUME NEW q \in Path, LoadEntry(q)
      PROVE  Current(tree, files, entry, inmem, p)'
  <2> DEFINE e == EntryAt(tree, q)
             s == NewState(e, disk[q])
             r == [entry[e] EXCEPT !.idx = Len(files) + 1]
             F == Append(files, s)
             E == [entry EXCEPT ![e] = r]
  <2>1. e \in Entry /\ e[1] = q /\ entry[e] \in EntryRecord
    BY <1>0, <1>2, LiveEntries DEF LoadEntry, IsFile
  <2>2. /\ Len(files) < MaxFile /\ Finish(tree, F, E)
        /\ UNCHANGED <<disk, inmem>>
    BY <1>2 DEF LoadEntry, envVars
  <2>3. s \in FileState /\ s.path = e[1] /\ s.code = disk[q]
    BY <1>0, <2>1, NewStateType
  <2>4. r \in EntryRecord /\ r.idx = Len(files) + 1
    <3>1. Len(files) + 1 \in 0..MaxFile
      BY <1>0, <2>2, BoundAssumption, LenProperties
    <3> QED BY <2>1, <3>1 DEF EntryRecord
  <2>5. tree[p].kind = "file" => EntryAt(tree, p)[1] = p
    BY <1>0, LiveEntries
  <2> HIDE DEF e, s, r
  <2>6. GoodFiles(F, E) /\ F[Len(files) + 1] = s
    <3>1. GoodFiles(files, entry) /\ Len(files) < MaxFile
      BY <1>0, <2>2
    <3> QED BY <2>1, <2>3, <2>4, <3>1, AppendGood
  <2>7. \A j \in DOMAIN files : F[j] = files[j]
    BY <1>0, <2>3, AppendProperties, LenProperties
  <2>8. \A x \in Entry : E[x] = IF x = e THEN r ELSE entry[x]
    BY <1>0, <2>1
  <2> HIDE DEF F, E
  <2>9. Current(tree, F, E, inmem, p)
    <3>1. \A j \in DOMAIN files : files[j].path = p =>
            F[j].code \in {files[j].code, NoCode, disk[p]}
      BY <2>7
    <3>2. ASSUME tree[p].kind = "file"
          PROVE  LET x == EntryAt(tree, p)
                 IN  \/ E[x].idx = entry[x].idx
                     \/ E[x].idx # 0 => F[E[x].idx].code \in {disk[p], NoCode}
      <4>1. EntryAt(tree, p) \in Entry /\ EntryAt(tree, p)[1] = p
        BY <1>0, <3>2, LiveEntries
      <4> QED BY <2>1, <2>3, <2>4, <2>6, <2>8, <4>1
    <3> QED BY <1>0, <3>1, <3>2, SameCurrent
  <2>10. Current(tree', files', entry', inmem, p)
    BY <1>0, <2>2, <2>6, <2>9, FinishCurrent
  <2> QED BY <2>2, <2>10 DEF Current
<1>3. ASSUME NEW d \in Dir, ReadDir(d)
      PROVE  Current(tree, files, entry, inmem, p)'
  BY <1>3, EnterCurrent DEF ReadDir
<1> QED BY <1>1, <1>2, <1>3

(* An operation ends with the tree it says.                                *)
LEMMA EndsWithTree ==
  ASSUME NEW T, NEW F, NEW E, NEW R, NEW N, NEW O,
         Finish(T, F, E) \/ Settle(T, F, E, R, N, O)
  PROVE  tree' = T
<1>1. ASSUME NEW G, NEW H, Finish(T, G, H) PROVE tree' = T
  BY <1>1 DEF Finish
<1>2. ASSUME NEW G, NEW H, Regenerate(T, G, H) PROVE tree' = T
  <2>1. \E X, Y : Finish(T, X, Y)
    BY <1>2, Zenon DEF Regenerate
  <2> QED BY <1>1, <2>1
<1> QED BY <1>1, <1>2 DEF Settle

(* didOpen and didChange.  The document itself is in the tree afterwards.  *)
LEMMA StoreCurrent ==
  ASSUME IInv, NEW p \in Path, NEW c \in Code, StoreInMemory(p, c),
         NEW q \in Path, Holder[q] = Root,
         q # p => Current(tree, files, entry, inmem, q)
  PROVE  Current(tree, files, entry, inmem, q)'
<1> DEFINE d  == Holder[p]
           T0 == IF d = Root THEN tree ELSE Listing(tree, d)
           e  == IF T0[p].kind = "file" THEN EntryAt(T0, p) ELSE Fresh(p)
           T1 == [T0 EXCEPT ![p] = FileSlot(e)]
           invs == T0[p].invs \cup (IF d = Root THEN {} ELSE tree[d].invs)
           i  == IF inmem[p] # 0 THEN inmem[p] ELSE entry[e].idx
           O  == Open \cup {p}
           s  == NewState(e, c)
           E0 == IF HitsDb(Reach({i}))
                 THEN [entry EXCEPT ![e].db = TRUE, ![e].invs = {}] ELSE entry
           k  == Len(files) + 1
           r  == [entry[e] EXCEPT !.idx = k]
           H  == [entry EXCEPT ![e] = r]
<1>0. /\ p \in Node /\ q \in Node /\ (d # Root => d \in Dir)
      /\ inmem \in [Path -> 0..MaxFile] /\ GoodFiles(files, entry)
      /\ entry \in [Entry -> EntryRecord] /\ files \in Seq(FileState)
      /\ c \in Code \cup {NoCode} /\ disk \in [Path -> Code \cup {NoCode}]
      /\ Len(files) \in Nat /\ disk' = disk
  BY LayoutAssumption, LenProperties DEF Node, StoreInMemory, IInv, TypeOK, GoodFiles
<1>1. GoodTree(T0) /\ T0[q] = tree[q]
      /\ (Builtins # NoPath => T0[Builtins].kind = "file")
  <2>1. CASE d = Root
    BY <2>1 DEF IInv, BuiltinsKnown
  <2>2. CASE d # Root
    <3>1. d \in Dir /\ CanList(d) /\ GoodTree(tree)
      BY <2>2, <1>0 DEF StoreInMemory, IInv
    <3>2. q \notin Inside(d) \cup {d}
      BY <3>1, LayoutAssumption DEF Inside, Node
    <3>3. Builtins # NoPath => Builtins \in Node /\ Builtins \notin Inside(d) \cup {d}
      BY <3>1, BuiltinsOutside DEF Node
    <3> QED BY <2>2, <1>0, <3>1, <3>2, <3>3, ListingGood DEF IInv, BuiltinsKnown
  <2> QED BY <2>1, <2>2
<1>2. \/ /\ i # 0 /\ inmem' = [inmem EXCEPT ![p] = i]
         /\ Finish(T1, files, entry)
      \/ /\ i # 0 /\ inmem' = [inmem EXCEPT ![p] = i]
         /\ Settle(T1, [files EXCEPT ![i] = s], E0, Reach({i} \cup invs), {p}, O)
      \/ /\ i = 0 /\ Len(files) < MaxFile
         /\ inmem' = [inmem EXCEPT ![p] = Len(files) + 1]
         /\ Settle(T1, Append(files, s), [entry EXCEPT ![e].idx = Len(files) + 1],
                   Reach(invs), {p}, O)
  BY DEF StoreInMemory
<1>3. e \in Entry /\ e[1] = p /\ entry[e] \in EntryRecord
  <2>1. CASE T0[p].kind = "file"
    BY <2>1, <1>0, <1>1 DEF GoodTree, EntryAt, Entry
  <2>2. CASE T0[p].kind # "file"
    <3>1. Fresh(p) \in Entry /\ Fresh(p)[1] = p
      BY FreshEntry DEF StoreInMemory
    <3> QED BY <2>2, <3>1, <1>0
  <2> QED BY <2>1, <2>2
<1> HIDE DEF T0, e
<1>4. /\ GoodTree(T1) /\ T1[p].kind = "file"
      /\ \A n \in Node : n # p => T1[n] = T0[n]
  <2>1. FileSlot(e) \in Slot /\ FileSlot(e).kind = "file"
        /\ FileSlot(e).gen = e[2] /\ e[2] \in 1..MaxGen
    BY <1>3, SlotTypes
  <2>2. T1[p] = FileSlot(e) /\ \A n \in Node : n # p => T1[n] = T0[n]
    BY <1>0, <1>1 DEF GoodTree
  <2>3. T1 \in [Node -> Slot]
    BY <1>1, <2>1 DEF GoodTree
  <2> QED BY <1>1, <2>1, <2>2, <2>3 DEF GoodTree, Node
<1>5. Builtins # NoPath => T1[Builtins].kind = "file"
  BY <1>1, <1>4, LayoutAssumption DEF Node
<1> HIDE DEF T1
<1>6. s \in FileState /\ s.path = p
  BY <1>0, <1>3, NewStateType
<1>7. i # 0 => i \in DOMAIN files /\ files[i].path = p
  BY <1>0, <1>3 DEF IInv, OpenHasState, GoodFiles
<1> HIDE DEF s, O, invs, i
<1>8. CASE q = p
  <2>1. tree' = T1 /\ inmem'[p] # 0
    <3>1. \A n : inmem' = [inmem EXCEPT ![p] = n] => inmem'[p] = n
      BY <1>0
    <3>2. Len(files) + 1 # 0
      BY <1>0
    <3> QED BY <1>2, <3>1, <3>2, EndsWithTree
  <2> QED BY <1>4, <1>8, <2>1 DEF Current
<1>9. CASE q # p
  <2>1. /\ \A n : inmem' = [inmem EXCEPT ![p] = n] => inmem'[q] = inmem[q]
        /\ T1[q] = tree[q]
    BY <1>0, <1>1, <1>4, <1>9
  <2>2. tree[q].kind = "file" =>
          EntryAt(tree, q) \in Entry /\ EntryAt(tree, q)[1] = q
    BY <1>0, LiveEntries DEF IInv
  <2>3. GoodTree(tree) /\ inmem'[q] = inmem[q]
    BY <1>2, <2>1 DEF IInv
  <2>4. CASE Finish(T1, files, entry)
    <3>1. Current(T1, files, entry, inmem', q)
      BY <1>0, <1>9, <2>1, <2>3, SameCurrent
    <3>2. Current(tree', files', entry', inmem', q)
      BY <1>0, <1>4, <2>4, <3>1, FinishCurrent
    <3> QED BY <1>0, <3>2 DEF Current
  <2>5. CASE /\ i # 0
             /\ Settle(T1, [files EXCEPT ![i] = s], E0, Reach({i} \cup invs),
                       {p}, O)
    <3> DEFINE F == [files EXCEPT ![i] = s]
    <3>1. /\ GoodFiles(F, entry)
          /\ \A j \in DOMAIN files : F[j] = IF j = i THEN s ELSE files[j]
      BY <1>0, <1>6, <1>7, <2>5, ReplaceGood
    <3>2. /\ E0 \in [Entry -> EntryRecord]
          /\ \A x \in Entry : E0[x].idx = entry[x].idx
      BY <1>0, <1>3 DEF EntryRecord
    <3>3. GoodFiles(F, E0)
      BY <3>1, <3>2 DEF GoodFiles
    <3> HIDE DEF E0, F
    <3>4. \A j \in DOMAIN files : files[j].path = q => F[j] = files[j]
      BY <1>7, <1>9, <2>5, <3>1
    <3>5. Current(T1, F, E0, inmem', q)
      <4>1. \A j \in DOMAIN files : files[j].path = q =>
              F[j].code \in {files[j].code, NoCode, disk[q]}
        BY <3>4
      <4>2. tree[q].kind = "file" =>
              LET x == EntryAt(tree, q) IN E0[x].idx = entry[x].idx
        BY <2>2, <3>2
      <4> QED BY <1>0, <1>9, <2>1, <2>3, <4>1, <4>2, SameCurrent
    <3>6. Current(tree', files', entry', inmem', q)
      BY <1>0, <1>4, <1>5, <2>5, <3>3, <3>5, SettleCurrent DEF F
    <3> QED BY <1>0, <3>6 DEF Current
  <2>6. CASE /\ Len(files) < MaxFile
             /\ Settle(T1, Append(files, s),
                       [entry EXCEPT ![e].idx = Len(files) + 1],
                       Reach(invs), {p}, O)
    <3> DEFINE F == Append(files, s)
    <3>1. r \in EntryRecord /\ r.idx = k
      <4>1. k \in 0..MaxFile
        BY <1>0, <2>6, BoundAssumption
      <4> QED BY <1>3, <4>1 DEF EntryRecord
    <3>2. Settle(T1, F, H, Reach(invs), {p}, O)
      BY <2>6
    <3> HIDE DEF r
    <3>3. GoodFiles(F, H)
      BY <1>0, <1>3, <1>6, <2>6, <3>1, AppendGood
    <3>4. \A j \in DOMAIN files : F[j] = files[j]
      BY <1>0, <1>6, AppendProperties, LenProperties
    <3>5. \A x \in Entry : x # e => H[x] = entry[x]
      BY <1>0, <1>3
    <3> HIDE DEF F, H
    <3>6. Current(T1, F, H, inmem', q)
      BY <1>0, <1>3, <1>9, <2>1, <2>2, <2>3, <3>4, <3>5, SameCurrent
    <3>7. Current(tree', files', entry', inmem', q)
      BY <1>0, <1>4, <1>5, <3>2, <3>3, <3>6, SettleCurrent
    <3> QED BY <1>0, <3>7 DEF Current
  <2> QED BY <1>2, <2>4, <2>5, <2>6
<1> QED BY <1>8, <1>9

(* didClose: what is on disk takes the place of the document.              *)
LEMMA CloseCurrent ==
  ASSUME IInv, LinkInv({}), NEW p \in Path, Close(p),
         NEW q \in Path, Holder[q] = Root,
         q # p => Current(tree, files, entry, inmem, q)
  PROVE  Current(tree, files, entry, inmem, q)'
<1> DEFINE i == inmem[p]
           s == [files[i] EXCEPT !.code = disk[p], !.cache = NoCache]
           F == [files EXCEPT ![i] = s]
           T == IF IsFile(tree, p) THEN [tree EXCEPT ![p] = NoSlot] ELSE tree
           O == Open \ {p}
<1>1. /\ i # 0 /\ i \in DOMAIN files /\ files[i].path = p /\ files[i] \in FileState
      /\ inmem' = [inmem EXCEPT ![p] = 0] /\ inmem \in [Path -> 0..MaxFile]
      /\ GoodFiles(files, entry) /\ GoodTree(tree) /\ disk' = disk
      /\ disk \in [Path -> Code \cup {NoCode}] /\ p \in Node /\ q \in Node
      /\ p # NoPath /\ q # NoPath
  BY LayoutAssumption DEF Close, IInv, OpenHasState, GoodFiles, TypeOK, envVars, Node
<1>2. s \in FileState /\ s.path = files[i].path /\ s.code = disk[p]
  <2>1. NoCache \in Cache /\ disk[p] \in Code \cup {NoCode}
    BY <1>1 DEF NoCache, Cache
  <2> QED BY <1>1, <2>1 DEF FileState
<1>3. \/ UNCHANGED <<tree, entry, files>> /\ disk[p] # NoCode /\ disk[p] = files[i].code
      \/ Settle(tree, F, entry, Reach({i}), {}, O) /\ disk[p] # NoCode
      \/ disk[p] = NoCode /\ Settle(T, F, entry, Reach({i}), {}, O)
  <2>1. [files EXCEPT ![i].code = disk[p], ![i].cache = NoCache] = F
    BY <1>1 DEF GoodFiles
  <2> QED BY <2>1 DEF Close
<1> HIDE DEF s
<1>4. /\ GoodFiles(F, entry)
      /\ \A j \in DOMAIN files : F[j] = IF j = i THEN s ELSE files[j]
  BY <1>1, <1>2, ReplaceGood
<1>5. /\ inmem'[p] = 0 /\ \A x \in Path : x # p => inmem'[x] = inmem[x]
  BY <1>1
<1>6. GoodTree(T) /\ (q # p => T[q] = tree[q]) /\ T[p].kind # "file"
  <2>1. NoSlot \in Slot /\ NoSlot.kind # "file"
    BY SlotTypes
  <2>2. T \in [Node -> Slot]
    BY <1>1, <2>1 DEF GoodTree
  <2>3. \A x \in Path : x \in Node
    BY DEF Node
  <2>4. \A x \in Node : x # p => T[x] = tree[x]
    BY <1>1 DEF GoodTree
  <2>5. T[p].kind # "file"
    BY <1>1, <2>1 DEF GoodTree, IsFile
  <2> QED BY <1>1, <2>2, <2>3, <2>4, <2>5 DEF GoodTree
<1>7. p # Builtins \/ disk[p] # NoCode
  BY <1>1 DEF IInv, BuiltinsKnown
<1>8. Builtins # NoPath => /\ tree[Builtins].kind = "file"
                           /\ disk[p] = NoCode => T[Builtins].kind = "file"
  BY <1>1, <1>7, LayoutAssumption DEF IInv, BuiltinsKnown, GoodTree, Node
<1>9. q = p => tree[q].kind = "file" /\ entry[EntryAt(tree, q)].idx = i
  <2>1. Anchored({}, p) => tree[p].kind = "file" /\ entry[EntryAt(tree, p)].idx = i
    BY <1>1 DEF LinkInv, Whole, Linked, Agrees
  <2> QED BY <2>1 DEF Anchored, Steady
<1> HIDE DEF T, i, O, F
<1>10. q # p => /\ Current(tree, files, entry, inmem', q)
                /\ Current(tree, F, entry, inmem', q)
                /\ Current(T, F, entry, inmem', q)
  <2> SUFFICES ASSUME q # p
               PROVE  /\ Current(tree, files, entry, inmem', q)
                      /\ Current(tree, F, entry, inmem', q)
                      /\ Current(T, F, entry, inmem', q)
    OBVIOUS
  <2>1. \A j \in DOMAIN files : files[j].path = q => F[j] = files[j]
    BY <1>1, <1>4
  <2>2. Current(tree, files, entry, inmem', q)
    <3>1. inmem'[q] = inmem[q]
      BY <1>5
    <3>2. Current(tree, files, entry, inmem, q)
      OBVIOUS
    <3> QED BY <3>1, <3>2 DEF Current
  <2>3. \A j \in DOMAIN files : files[j].path = q =>
          F[j].code \in {files[j].code, NoCode, disk[q]}
    BY <2>1
  <2>4. inmem'[q] = inmem[q] /\ T[q] = tree[q]
    BY <1>5, <1>6
  <2>5. Current(tree, F, entry, inmem', q)
    BY <1>1, <2>3, <2>4, SameCurrent
  <2>6. Current(T, F, entry, inmem', q)
    <3>1. EntryAt(T, q) = EntryAt(tree, q)
      BY <2>4 DEF EntryAt
    <3> QED BY <2>4, <2>5, <3>1 DEF Current
  <2> QED BY <2>2, <2>5, <2>6
<1>11. Current(tree', files', entry', inmem', q)
  <2>1. CASE UNCHANGED <<tree, entry, files>> /\ disk[p] # NoCode
             /\ disk[p] = files[i].code
    <3>1. Current(tree, files, entry, inmem', q)
      BY <1>5, <1>9, <1>10, <2>1 DEF Current
    <3> QED BY <2>1, <3>1
  <2>2. CASE Settle(tree, F, entry, Reach({i}), {}, O) /\ disk[p] # NoCode
    <3>1. Current(tree, F, entry, inmem', q)
      BY <1>1, <1>2, <1>4, <1>5, <1>9, <1>10, <2>2 DEF Current
    <3> QED BY <1>1, <1>4, <1>8, <2>2, <3>1, SettleCurrent
  <2>3. CASE disk[p] = NoCode /\ Settle(T, F, entry, Reach({i}), {}, O)
    <3>1. Current(T, F, entry, inmem', q)
      BY <1>5, <1>6, <1>10, <2>3 DEF Current
    <3> QED BY <1>1, <1>4, <1>6, <1>8, <2>3, <3>1, SettleCurrent
  <2> QED BY <1>3, <2>1, <2>2, <2>3
<1> QED BY <1>1, <1>11 DEF Current

(* A notification that changes nothing: what it is about was current.      *)
LEMMA NothingCurrent ==
  ASSUME IInv, LinkInv({}), NEW p \in Path, Holder[p] = Root, NothingToDo(p)
  PROVE  Current(tree, files, entry, inmem, p)
<1>1. p \notin Dir /\ Visible(tree, p) /\ p # NoPath
  BY LayoutAssumption DEF Visible, Node
<1>2. CASE inmem[p] # 0
  <2>1. tree[p].kind = "file"
    BY <1>2 DEF LinkInv, Whole, Linked, Agrees, Anchored, Steady
  <2> QED BY <1>2, <2>1 DEF Current
<1>3. CASE inmem[p] = 0
  <2>1. \/ disk[p] # NoCode /\ SameCode(p)
        \/ disk[p] = NoCode /\ tree[p].kind = "missing"
    BY <1>1, <1>3 DEF NothingToDo, Irrelevant, OnDisk
  <2>2. CASE disk[p] # NoCode /\ SameCode(p)
    BY <2>2 DEF SameCode, IsFile, Current
  <2>3. CASE disk[p] = NoCode /\ tree[p].kind = "missing"
    BY <1>3, <2>3 DEF Current
  <2> QED BY <2>1, <2>2, <2>3
<1> QED BY <1>2, <1>3

(* A notification that changes something makes current what it is about.   *)
LEMMA ReplaceCurrent ==
  ASSUME IInv, LinkInv({}), NEW n \in Node, ~NothingToDo(n), Replace(n),
         n \in Path => Visible(tree, n),
         NEW p \in Path, Holder[p] = Root,
         p # n => Current(tree, files, entry, inmem, p)
  PROVE  Current(tree', files', entry', inmem, p)
<1>0. /\ GoodTree(tree) /\ GoodFiles(files, entry) /\ files \in Seq(FileState)
      /\ p \in Node /\ p \notin Dir /\ disk \in [Path -> Code \cup {NoCode}]
      /\ tree[p].kind = "file" =>
           EntryAt(tree, p) \in Entry /\ EntryAt(tree, p)[1] = p
  BY LiveEntries, LayoutAssumption DEF IInv, GoodFiles, TypeOK, Node
<1>1. /\ GoodTree(Cut(n)) /\ GoodTree(Restored(n))
      /\ Builtins # NoPath => /\ Cut(n)[Builtins].kind = "file"
                              /\ Restored(n)[Builtins].kind = "file"
      /\ GoodFiles(Unload(files, Loose(n)), Relinked(n))
      /\ \A U \in SUBSET Loose(n) : GoodFiles(Unload(files, U), entry)
  BY ReplaceParts
<1>2. /\ p \notin Held(n)
      /\ p # n => p \notin Walk(n)
  <2>1. p \notin Held(n)
    BY HeldInside DEF Steady
  <2>2. p # n => p \notin Walk(n)
    BY LayoutAssumption DEF Walk, Inside, Node
  <2> QED BY <2>1, <2>2
<1>3. p # n => Cut(n)[p] = tree[p] /\ Restored(n)[p] = tree[p]
  BY <1>0, <1>2, CutLinks, RestoredLinks
<1>4. \A e \in Entry : e[1] = p => Relinked(n)[e] = entry[e]
  BY <1>2 DEF Relinked
<1>5. \A U, j : j \in DOMAIN files =>
        Unload(files, U)[j].code \in {files[j].code, NoCode}
  <2>1. \A j \in DOMAIN files : files[j] \in FileState
    BY <1>0
  <2> QED BY <2>1 DEF Unload, FileState
<1>6. p = n => /\ inmem[p] = 0
               /\ Cut(n)[p] = NewSlot(n) /\ Restored(n)[p] = NewSlot(n)
               /\ disk[p] = NoCode => NewSlot(n) = NoSlot
               /\ disk[p] # NoCode => NewSlot(n) = FileSlot(Fresh(n))
               /\ Fresh(n) \in Entry /\ Fresh(n)[1] = n
               /\ entry[Fresh(n)].idx = 0
  <2> SUFFICES ASSUME p = n
               PROVE  /\ inmem[p] = 0
                      /\ Cut(n)[p] = NewSlot(n) /\ Restored(n)[p] = NewSlot(n)
                      /\ disk[p] = NoCode => NewSlot(n) = NoSlot
                      /\ disk[p] # NoCode => NewSlot(n) = FileSlot(Fresh(n))
                      /\ Fresh(n) \in Entry /\ Fresh(n)[1] = n
                      /\ entry[Fresh(n)].idx = 0
    OBVIOUS
  <2>1. inmem[p] = 0
    BY DEF NothingToDo, Irrelevant
  <2>2. Cut(n)[p] = NewSlot(n)
    BY CutLinks
  <2>3. Restored(n)[p] = Cut(n)[p]
    BY <1>0, <1>2 DEF Restored, Relisted
  <2>4. HasFresh(n)
    BY ReplaceForm
  <2>5. Fresh(n) \in Entry /\ Fresh(n)[1] = n
    BY <2>4, FreshEntry
  <2>6. Fresh(n) \notin Live(tree, files)
    BY <2>4 DEF HasFresh, Fresh, Unused
  <2>7. entry[Fresh(n)].idx = 0
    BY <2>5, <2>6 DEF LinkInv, Freed
  <2>8. OnDisk(n) <=> disk[p] # NoCode
    BY <1>0 DEF OnDisk
  <2> QED BY <1>0, <2>1, <2>2, <2>3, <2>5, <2>7, <2>8 DEF NewSlot
<1>7. ASSUME NEW T, T \in {Cut(n), Restored(n)}, NEW U,
             NEW E, E \in {entry, Relinked(n)}
      PROVE  Current(T, Unload(files, U), E, inmem, p)
  <2>1. CASE p # n
    <3>1. T[p] = tree[p]
      BY <1>3, <1>7, <2>1
    <3>2. tree[p].kind = "file" =>
            LET e == EntryAt(tree, p) IN E[e].idx = entry[e].idx
      BY <1>0, <1>4, <1>7
    <3>3. \A j \in DOMAIN files : files[j].path = p =>
            Unload(files, U)[j].code \in {files[j].code, NoCode, disk[p]}
      BY <1>5
    <3> QED BY <1>0, <2>1, <3>1, <3>2, <3>3, SameCurrent
  <2>2. CASE p = n
    <3>1. T[p] = NewSlot(n) /\ E[Fresh(n)].idx = 0
      BY <1>4, <1>6, <1>7, <2>2
    <3>2. /\ NoSlot.kind # "file"
          /\ FileSlot(Fresh(n)).kind = "file"
          /\ FileSlot(Fresh(n)).gen = Fresh(n)[2]
      BY <1>6, <2>2, SlotTypes
    <3>3. Fresh(n) = <<p, Fresh(n)[2]>>
      BY <1>6, <2>2 DEF Entry
    <3>4. disk[p] # NoCode => EntryAt(T, p) = Fresh(n)
      BY <1>6, <2>2, <3>1, <3>2, <3>3 DEF EntryAt
    <3> QED BY <1>6, <2>2, <3>1, <3>2, <3>4 DEF Current
  <2> QED BY <2>1, <2>2
<1>8. ASSUME Settle(Restored(n), Unload(files, Loose(n)), Relinked(n),
                    Reach(Start(n)), Held(n), Open)
      PROVE  Current(tree', files', entry', inmem, p)
  BY <1>0, <1>1, <1>7, <1>8, SettleCurrent
<1>9. ASSUME NEW U \in SUBSET Loose(n),
             Settle(Cut(n), Unload(files, U), entry, Reach(Start(n)), {}, Open)
      PROVE  Current(tree', files', entry', inmem, p)
  BY <1>0, <1>1, <1>7, <1>9, SettleCurrent
<1> QED BY <1>8, <1>9, ReplaceForm

(* The disk changes, and what changed is pending.                          *)
LEMMA DiskCurrent ==
  ASSUME IInv, DiskNext
  PROVE  /\ RootsCurrent => RootsCurrent'
         /\ DirsSeen => DirsSeen'
         /\ DirsLeft => DirsLeft'
<1> DEFINE Catches == /\ RootsCurrent => RootsCurrent'
                      /\ DirsSeen => DirsSeen'
                      /\ DirsLeft => DirsLeft'
<1>0. queue \in Seq(Node) /\ Path \subseteq Node /\ Dir \subseteq Node
      /\ disk \in [Path -> Code \cup {NoCode}]
  BY DEF IInv, TypeOK, Node
<1>1. ASSUME NEW X \in SUBSET Path, NEW n \in Node,
             UNCHANGED <<tree, entry, files, inmem>>,
             \A p \in Path \ X : disk'[p] = disk[p],
             \A p \in X : Holder[p] = Root => p \in Pending',
             Pending \subseteq Pending'
      PROVE  RootsCurrent => RootsCurrent'
  <2> SUFFICES ASSUME RootsCurrent, NEW p \in Path, Holder[p] = Root, p \notin Pending'
               PROVE  Current(tree, files, entry, inmem, p)'
    BY DEF RootsCurrent
  <2>1. Current(tree, files, entry, inmem, p) /\ p \notin X
    BY <1>1 DEF RootsCurrent
  <2> QED BY <1>1, <2>1 DEF Current
<1>2. ASSUME NEW p \in Path, UNCHANGED <<dirs, tree, entry, files, inmem>>,
             \A q \in Path \ {p} : disk'[q] = disk[q], Report(p, Watches(p))
      PROVE  Catches
  <2>1. Watches(p) \in BOOLEAN /\ (Holder[p] = Root => Watches(p))
    BY DEF Watches
  <2>2. Pending \subseteq Pending' /\ (Holder[p] = Root => p \in Pending')
    BY <1>0, <1>2, <2>1, PendingGrows
  <2>3. \A q \in Path \ {p} : disk'[q] = disk[q]
    BY <1>2
  <2>4. RootsCurrent => RootsCurrent'
    <3>1. {p} \in SUBSET Path /\ p \in Node
      BY <1>0
    <3>2. \A q \in {p} : Holder[q] = Root => q \in Pending'
      BY <2>2
    <3>3. UNCHANGED <<tree, entry, files, inmem>>
      BY <1>2
    <3> QED BY <1>1, <2>2, <2>3, <3>1, <3>2, <3>3
  <2>5. UNCHANGED <<dirs, tree, inmem>>
    BY <1>2
  <2> QED BY <2>2, <2>4, <2>5 DEF DirsSeen, DirsLeft, LeftFor
<1>3. ASSUME NEW d \in Dir, UNCHANGED <<tree, entry, files, inmem>>,
             \A q \in Path : q \notin Inside(d) => disk'[q] = disk[q],
             dirs' \in {dirs \cup {d}, dirs \ {d}}, Report(d, TRUE)
      PROVE  Catches
  <2>1. Pending \subseteq Pending' /\ d \in Pending'
    BY <1>0, <1>3, PendingGrows
  <2>2. \A p \in Inside(d) : p \in Path /\ Holder[p] # Root
    BY LayoutAssumption DEF Inside, Node
  <2>3. RootsCurrent => RootsCurrent'
    BY <1>0, <1>1, <1>3, <2>1, <2>2
  <2> QED BY <1>3, <2>1, <2>3 DEF DirsSeen, DirsLeft, LeftFor
<1>4. ASSUME NEW p \in Path, NEW c \in Code, WriteDisk(p, c)
      PROVE  Catches
  BY <1>0, <1>2, <1>4 DEF WriteDisk
<1>5. ASSUME NEW p \in Path, DeleteDisk(p)
      PROVE  Catches
  BY <1>0, <1>2, <1>5 DEF DeleteDisk
<1>6. ASSUME NEW d \in Dir, NEW content \in [Inside(d) -> Code \cup {NoCode}],
             MakeDir(d, content)
      PROVE  Catches
  BY <1>0, <1>3, <1>6 DEF MakeDir
<1>7. ASSUME NEW d \in Dir, RemoveDir(d)
      PROVE  Catches
  BY <1>0, <1>3, <1>7 DEF RemoveDir
<1> QED BY <1>4, <1>5, <1>6, <1>7 DEF DiskNext

-----------------------------------------------------------------------------
(* Directories                                                             *)

(* Listing a directory makes it one, and only it.                          *)
LEMMA ListingDirs ==
  ASSUME NEW T, GoodTree(T), NEW d \in Dir, CanList(d), NEW x \in Dir
  PROVE  Listing(T, d)[x].kind = "dir" <=> (T[x].kind = "dir" \/ x = d)
<1>1. x \in Node /\ x \notin Inside(d) /\ DirSlot(TRUE).kind = "dir"
  BY LayoutAssumption DEF Inside, Node, DirSlot
<1> QED BY <1>1 DEF Listing

(* Listing a directory that is not on disk brings no file up.              *)
LEMMA ListingBare ==
  ASSUME Bare, NEW T, GoodTree(T), NEW d \in Dir, CanList(d),
         NEW x \in Dir \ dirs, NEW p \in Inside(x), Listing(T, d)[p].kind = "file"
  PROVE  T[p].kind = "file"
<1>1. p \in Path /\ Holder[p] = x /\ p \in Node /\ p # d /\ disk[p] = NoCode
  BY LayoutAssumption DEF Inside, Node, Bare
<1>2. NoSlot.kind = "none"
  BY DEF NoSlot
<1> QED BY <1>1, <1>2 DEF Listing, GoodTree

(* Whatever works on entries makes no directory disappear, and those that  *)
(* appear without being on disk do so for documents.                       *)
LEMMA EntriesDirs ==
  ASSUME IInv, NEW x \in Dir,
         \/ \E f \in FileIndex, m \in Mod : Import(f, m)
         \/ \E i \in FileIndex : Load(i)
         \/ \E p \in Path : LoadEntry(p)
         \/ \E d \in Dir : ReadDir(d)
         \/ \E p \in Path, c \in Code : StoreInMemory(p, c)
         \/ \E p \in Path : Close(p)
         \/ Publish
  PROVE  /\ UNCHANGED <<dirs, queue>>
         /\ tree[x].kind = "dir" => tree'[x].kind = "dir"
         /\ Bare /\ Listed(tree) /\ x \notin dirs =>
              (LeftFor(tree, inmem, x) => LeftFor(tree', inmem', x))
<1>0. GoodTree(tree) /\ x \in Node /\ x \notin Path
  BY LayoutAssumption DEF IInv, Node
<1>1. ASSUME NEW f \in FileIndex, NEW m \in Mod, Import(f, m)
      PROVE  /\ UNCHANGED <<dirs, queue, inmem>>
             /\ tree'[x].kind = "dir" <=> tree[x].kind = "dir"
             /\ Bare /\ x \notin dirs =>
                  \A p \in Inside(x) : tree'[p].kind = "file" => tree[p].kind = "file"
  <2> DEFINE d  == Package[m]
             T0 == IF IsDir(tree, d) THEN Listing(tree, d) ELSE tree
             T1 == AddMissing(T0, MissingNames(T0, m), f)
  <2>1. /\ GoodTree(T0) /\ (T0[x].kind = "dir" <=> tree[x].kind = "dir")
        /\ Bare /\ x \notin dirs =>
             \A p \in Inside(x) : T0[p].kind = "file" => tree[p].kind = "file"
    <3>1. CASE IsDir(tree, d)
      <4>1. d \in Dir /\ CanList(d) /\ tree[d].kind = "dir"
        BY <1>1, <3>1, LayoutAssumption DEF IsDir, Import
      <4> QED BY <1>0, <3>1, <4>1, ListingDirs, ListingGood, ListingBare
    <3>2. CASE ~IsDir(tree, d)
      BY <1>0, <3>2
    <3> QED BY <3>1, <3>2
  <2>2. \E G, H : Finish(T1, G, H)
    BY <1>1, Zenon DEF Import
  <2>3. tree' = T1
    BY <2>2, EndsWithTree
  <2> HIDE DEF T0
  <2>4. \A S : MissingSlot(S).kind = "missing"
    BY DEF MissingSlot
  <2>5. \A n \in Node : \/ T1[n] = T0[n]
                        \/ T0[n].kind = "none" /\ \E S : T1[n] = MissingSlot(S)
                        \/ \E S : T1[n] = [T0[n] EXCEPT !.invs = S]
    BY DEF AddMissing
  <2>6. \A n \in Node : T0[n] \in Slot
    BY <2>1 DEF GoodTree
  <2>7. \A n \in Node : \A k \in {"dir", "file"} : T1[n].kind = k <=> T0[n].kind = k
    BY <2>4, <2>5, <2>6 DEF Slot
  <2>8. UNCHANGED <<dirs, queue, inmem>>
    BY <1>1 DEF Import
  <2>9. \A p \in Inside(x) : p \in Node
    BY DEF Inside, Node
  <2> HIDE DEF T0, T1
  <2> QED BY <1>0, <2>1, <2>3, <2>7, <2>8, <2>9
<1>2. ASSUME NEW i \in FileIndex, Load(i)
      PROVE  UNCHANGED <<dirs, queue, tree, inmem>>
  BY <1>2 DEF Load, envVars
<1>3. ASSUME NEW p \in Path, LoadEntry(p)
      PROVE  UNCHANGED <<dirs, queue, tree, inmem>>
  BY <1>3 DEF LoadEntry, Finish, envVars
<1>4. ASSUME NEW d \in Dir, ReadDir(d)
      PROVE  /\ UNCHANGED <<dirs, queue, inmem>>
             /\ tree'[x].kind = "dir" <=> tree[x].kind = "dir"
             /\ Bare /\ x \notin dirs =>
                  \A p \in Inside(x) : tree'[p].kind = "file" => tree[p].kind = "file"
  BY <1>0, <1>4, ListingDirs, ListingBare DEF ReadDir, Enter
<1>5. ASSUME NEW p \in Path, NEW c \in Code, StoreInMemory(p, c)
      PROVE  /\ UNCHANGED <<dirs, queue>>
             /\ tree[x].kind = "dir" => tree'[x].kind = "dir"
             /\ Bare /\ Listed(tree) /\ x \notin dirs =>
                  (LeftFor(tree, inmem, x) => LeftFor(tree', inmem', x))
  <2> DEFINE d  == Holder[p]
             T0 == IF d = Root THEN tree ELSE Listing(tree, d)
             e  == IF T0[p].kind = "file" THEN EntryAt(T0, p) ELSE Fresh(p)
             T1 == [T0 EXCEPT ![p] = FileSlot(e)]
  <2>1. UNCHANGED <<dirs, queue>> /\ p \in Editable
    BY <1>5 DEF StoreInMemory
  <2>2. \/ \E F, E : Finish(T1, F, E)
        \/ \E F, E, R, N, O : Settle(T1, F, E, R, N, O)
    BY <1>5, Zenon DEF StoreInMemory
  <2>3. tree' = T1
    BY <2>2, EndsWithTree
  <2>4. /\ T0 \in [Node -> Slot]
        /\ tree[x].kind = "dir" => T0[x].kind = "dir"
        /\ T0[x].kind = "dir" => tree[x].kind = "dir" \/ x = d
        /\ Bare /\ x \notin dirs =>
             \A q \in Inside(x) : T0[q].kind = "file" => tree[q].kind = "file"
    <3>1. CASE d = Root
      BY <1>0, <3>1 DEF GoodTree
    <3>2. CASE d # Root
      <4>1. d \in Dir /\ CanList(d)
        BY <1>5, <3>2, LayoutAssumption DEF StoreInMemory
      <4> QED BY <1>0, <3>2, <4>1, ListingDirs, ListingGood, ListingBare DEF GoodTree
    <3> QED BY <3>1, <3>2
  <2>5. inmem'[p] # 0 /\ \A q \in Path \ {p} : inmem'[q] = inmem[q]
    <3>1. inmem \in [Path -> 0..MaxFile] /\ Len(files) + 1 # 0
      BY LenProperties DEF IInv, TypeOK
    <3>2. \E i : i # 0 /\ inmem' = [inmem EXCEPT ![p] = i]
      BY <1>5, <3>1 DEF StoreInMemory
    <3> QED BY <3>1, <3>2
  <2> HIDE DEF T0, e
  <2>6. T1[x] = T0[x] /\ \A q \in Path \ {p} : T1[q] = T0[q]
    BY <1>0, <2>4 DEF Node
  <2> HIDE DEF T1
  <2>7. ASSUME Bare, Listed(tree), x \notin dirs, LeftFor(tree, inmem, x),
               tree'[x].kind = "dir"
        PROVE  /\ Inside(x) \cap Editable # {}
               /\ \A q \in Inside(x) : tree'[q].kind = "file" => inmem'[q] # 0
    <3>1. Inside(x) \cap Editable # {}
      <4>1. x = Holder[p] => p \in Inside(x) \cap Editable
        BY <2>1 DEF Inside
      <4> QED BY <2>3, <2>4, <2>6, <2>7, <4>1 DEF LeftFor
    <3>2. ASSUME NEW q \in Inside(x), q # p, tree'[q].kind = "file"
          PROVE  inmem'[q] # 0
      <4>1. q \in Path /\ Holder[q] = x /\ x # Root /\ x \in Node
        BY LayoutAssumption DEF Inside, Node
      <4>2. tree[q].kind = "file"
        BY <2>3, <2>4, <2>6, <2>7, <3>2, <4>1
      <4>3. tree[x].kind = "dir"
        BY <2>7, <4>1, <4>2 DEF Listed
      <4> QED BY <2>5, <2>7, <3>2, <4>1, <4>2, <4>3 DEF LeftFor
    <3> QED BY <2>5, <3>1, <3>2
  <2> QED BY <2>1, <2>3, <2>4, <2>6, <2>7 DEF LeftFor
<1>6. ASSUME NEW p \in Path, Close(p)
      PROVE  /\ UNCHANGED <<dirs, queue>> /\ tree'[x] = tree[x]
             /\ Bare /\ x \notin dirs =>
                  \A q \in Inside(x) : tree'[q].kind = "file" =>
                                        tree[q].kind = "file" /\ inmem'[q] = inmem[q]
  <2> DEFINE T == IF IsFile(tree, p) THEN [tree EXCEPT ![p] = NoSlot] ELSE tree
  <2>1. UNCHANGED <<dirs, queue>>
    BY <1>6 DEF Close, envVars
  <2>2. \/ tree' = tree
        \/ \E F, E, R, N, O : Settle(tree, F, E, R, N, O)
        \/ \E F, E, R, N, O : Settle(T, F, E, R, N, O)
    BY <1>6, Zenon DEF Close
  <2>3. tree' \in {tree, T}
    BY <2>2, EndsWithTree
  <2>4. disk[p] = NoCode => tree' = T
    <3>1. disk[p] = NoCode => \E F, E, R, N, O : Settle(T, F, E, R, N, O)
      BY <1>6, Zenon DEF Close
    <3> QED BY <3>1, EndsWithTree
  <2>5. inmem' = [inmem EXCEPT ![p] = 0] /\ inmem \in [Path -> 0..MaxFile]
    BY <1>6, Zenon DEF Close, IInv, TypeOK
  <2>6. p # x /\ NoSlot.kind = "none" /\ \A q \in Path : q \in Node /\ q # NoPath
    BY <1>0, LayoutAssumption DEF NoSlot, Node
  <2>7. tree'[x] = tree[x]
    BY <1>0, <2>3, <2>6 DEF GoodTree
  <2>8. ASSUME Bare, x \notin dirs, NEW q \in Inside(x), tree'[q].kind = "file"
        PROVE  tree[q].kind = "file" /\ inmem'[q] = inmem[q]
    <3>1. q \in Path /\ disk[q] = NoCode
      BY <2>8 DEF Inside, Bare
    <3>2. tree[q].kind = "file"
      BY <1>0, <2>3, <2>6, <2>8, <3>1 DEF GoodTree
    <3>3. q # p
      BY <1>0, <2>4, <2>6, <2>8, <3>1, <3>2 DEF GoodTree, IsFile
    <3> QED BY <2>5, <3>1, <3>2, <3>3
  <2> QED BY <2>1, <2>7, <2>8
<1>7. ASSUME Publish
      PROVE  UNCHANGED <<dirs, queue, tree, inmem>>
  BY <1>7 DEF Publish, envVars
<1> QED BY <1>1, <1>2, <1>3, <1>4, <1>5, <1>6, <1>7 DEF LeftFor

(* A notification makes the directory it is about what it is on disk, or   *)
(* leaves it for the documents that are put back.                          *)
LEMMA NotifyDirs ==
  ASSUME IInv, LinkInv({}), Notify, NEW x \in Dir
  PROVE  /\ x # Head(queue) => tree'[x].kind = tree[x].kind
         /\ x = Head(queue) /\ x \in dirs => tree'[x].kind = "dir"
         /\ Bare /\ x \notin dirs
            /\ (x # Head(queue) => LeftFor(tree, inmem, x))
              => LeftFor(tree', inmem', x)
<1> DEFINE n == Head(queue)
<1>0. n \in Node /\ x \in Node /\ x \notin Path /\ x # NoPath
      /\ inmem' = inmem
  BY LayoutAssumption, NotifyCases DEF Node
<1>1. CASE NothingToDo(n) /\ tree' = tree
  <2>1. x = n => \/ tree[x].kind = "dir" /\ x \in dirs
                 \/ x \notin dirs /\ tree[x].kind = "missing"
    BY <1>0, <1>1 DEF NothingToDo, Irrelevant, SameCode, OnDisk
  <2> QED BY <1>0, <1>1, <2>1 DEF LeftFor
<1>2. CASE ~NothingToDo(n) /\ Replace(n) /\ (n \in Path => Visible(tree, n))
  <2>1. tree' \in {Cut(n), Restored(n)} /\ (Held(n) # {} => CanList(n))
    BY <1>2, ReplaceForm, EndsWithTree
  <2>2. GoodTree(Cut(n)) /\ GoodTree(Restored(n)) /\ Held(n) \subseteq Path
    BY <1>0, <1>2, ReplaceParts
  <2>3. x # n => Cut(n)[x] = tree[x] /\ Restored(n)[x] = tree[x]
    <3>1. x # n => x \notin Walk(n)
      BY <1>0 DEF Walk, Inside
    <3> QED BY <1>0, <1>2, <3>1, CutLinks, RestoredLinks
  <2>4. x = n => Cut(n)[x].kind = "dir" <=> x \in dirs
    <3>1. x = n => Cut(n)[x] = IF x \in dirs THEN DirSlot(FALSE) ELSE NoSlot
      BY <1>0, <1>2, CutLinks DEF NewSlot, OnDisk
    <3> QED BY <3>1 DEF DirSlot, NoSlot
  <2>5. x = n => Restored(n)[x].kind = "dir" <=> (x \in dirs \/ Held(n) # {})
    <3> SUFFICES ASSUME x = n
                 PROVE  Restored(n)[x].kind = "dir" <=> (x \in dirs \/ Held(n) # {})
      OBVIOUS
    <3>1. Restored(n)[x] = Relisted(n)[x]
      BY <1>0, <2>2 DEF Restored
    <3>2. Held(n) # {} => (Relisted(n)[x].kind = "dir")
      BY <2>1, <2>2, ListingDirs DEF Relisted
    <3>3. Held(n) = {} => Relisted(n)[x] = Cut(n)[x]
      BY DEF Relisted
    <3> QED BY <2>4, <3>1, <3>2, <3>3
  <2>6. ASSUME x \notin dirs, Bare, NEW p \in Inside(x)
        PROVE  /\ x = n => \A T \in {Cut(n), Restored(n)} :
                    T[p].kind = "file" /\ T[x].kind = "dir" => p \in Held(n)
               /\ x # n => \A T \in {Cut(n), Restored(n)} :
                    T[p].kind = "file" => tree[p].kind = "file"
    <3>1. /\ p \in Path /\ Holder[p] = x /\ p \in Node /\ p \notin Dir
          /\ disk[p] = NoCode /\ NoSlot.kind = "none"
      BY <2>6, LayoutAssumption DEF Inside, Bare, Node, NoSlot
    <3>2. CASE x = n
      <4>1. n \in Dir /\ Cut(n)[n] = NoSlot
        BY <1>0, <1>2, <2>6, <3>2, CutLinks DEF NewSlot, OnDisk
      <4>2. p \notin Held(n) => Restored(n)[p] = Relisted(n)[p]
        BY <3>1 DEF Restored
      <4>3. Held(n) # {} => Relisted(n)[p].kind = "none"
        <5>1. p \in Inside(n) /\ ~Cut(n)[n].read
          BY <2>6, <3>2, <4>1 DEF NoSlot
        <5> QED BY <3>1, <4>1, <5>1 DEF Relisted, Listing
      <4>4. Held(n) = {} => Restored(n)[x].kind # "dir"
        BY <2>5, <2>6, <3>2
      <4> QED BY <2>4, <2>6, <3>1, <3>2, <4>2, <4>3, <4>4
    <3>3. CASE x # n /\ p # n
      <4>1. p \notin Walk(n)
        BY <3>1, <3>3 DEF Walk, Inside
      <4> QED BY <1>0, <1>2, <3>1, <3>3, <4>1, CutLinks, RestoredLinks
    <3>4. CASE p = n
      <4>1. Cut(n)[n] = NoSlot
        BY <1>0, <1>2, <3>1, <3>4, CutLinks DEF NewSlot, OnDisk
      <4>2. Restored(n)[n] = Cut(n)[n]
        BY <1>0, <1>2, <3>1, <3>4, HeldInside DEF Restored, Relisted
      <4> QED BY <1>0, <3>1, <3>4, <4>1, <4>2
    <3> QED BY <3>2, <3>3, <3>4
  <2>7. \A p \in Held(n) : inmem[p] # 0 /\ p \in Inside(n) /\ p \in Editable
    BY <1>0, <1>2, <2>2, HeldInside DEF LinkInv, OpenEditable
  <2>8. ASSUME Bare, x \notin dirs, x # n => LeftFor(tree, inmem, x),
               tree'[x].kind = "dir"
        PROVE  /\ Inside(x) \cap Editable # {}
               /\ \A p \in Inside(x) : tree'[p].kind = "file" => inmem[p] # 0
    <3>1. CASE x = n
      <4>1. Held(n) # {}
        BY <2>1, <2>4, <2>5, <2>8, <3>1
      <4> QED BY <2>1, <2>6, <2>7, <2>8, <3>1, <4>1
    <3>2. CASE x # n
      BY <2>1, <2>3, <2>6, <2>8, <3>2 DEF LeftFor
    <3> QED BY <3>1, <3>2
  <2> QED BY <1>0, <2>1, <2>3, <2>4, <2>5, <2>8 DEF LeftFor
<1>3. CASE n \in Path /\ Holder[n] \in Dir /\ Enter(Holder[n])
  <2>1. tree'[x].kind = "dir" <=> tree[x].kind = "dir"
    BY <1>3, ListingDirs DEF Enter, IInv
  <2>2. tree'[x].kind = tree[x].kind
    <3>1. x = Holder[n] \/ Listing(tree, Holder[n])[x] = tree[x]
      BY <1>0 DEF Listing, Inside
    <3> QED BY <1>3, <2>1, <3>1 DEF Enter
  <2>3. ASSUME Bare, x \notin dirs, NEW p \in Inside(x), tree'[p].kind = "file"
        PROVE  tree[p].kind = "file"
    BY <1>3, <2>3, ListingBare DEF Enter, IInv
  <2> QED BY <1>0, <1>3, <2>2, <2>3 DEF LeftFor
<1> QED BY <1>1, <1>2, <1>3, NotifyCases

-----------------------------------------------------------------------------
(* The invariants                                                          *)

(* What the steps of the database leave alone: the disk's directories, the *)
(* events unless one is handled, and the panics.                           *)
LEMMA DatabaseFrame ==
  ASSUME DatabaseNext, ~Recover
  PROVE  /\ UNCHANGED <<disk, dirs, panics>>
         /\ ~Notify => UNCHANGED queue
<1> DEFINE Frame == UNCHANGED <<disk, dirs, queue, panics>>
<1>1. ASSUME NEW f \in FileIndex, NEW m \in Mod, Import(f, m)
      PROVE  Frame
  BY <1>1, Zenon DEF Import
<1>2. ASSUME NEW i \in FileIndex, Load(i)
      PROVE  Frame
  BY <1>2 DEF Load, envVars
<1>3. ASSUME NEW p \in Path, LoadEntry(p)
      PROVE  Frame
  BY <1>3 DEF LoadEntry, envVars
<1>4. ASSUME NEW d \in Dir, ReadDir(d)
      PROVE  Frame
  BY <1>4 DEF ReadDir
<1>5. ASSUME NEW p \in Path, NEW c \in Code, StoreInMemory(p, c)
      PROVE  Frame
  BY <1>5, Zenon DEF StoreInMemory
<1>6. ASSUME NEW p \in Path, Close(p)
      PROVE  Frame
  BY <1>6, Zenon DEF Close, envVars
<1>7. CASE Publish
  BY <1>7 DEF Publish, envVars
<1>8. CASE Notify
  BY <1>8, Zenon DEF Notify
<1> QED BY <1>1, <1>2, <1>3, <1>4, <1>5, <1>6, <1>7, <1>8 DEF DatabaseNext

(* Only a recovery counts panics.                                          *)
LEMMA PanicsCount ==
  ASSUME IInv, [Next]_vars
  PROVE  panics \in Nat /\ (panics' = panics \/ (Recover /\ panics' = panics + 1))
<1>1. panics \in Nat
  BY BoundAssumption DEF IInv, TypeOK
<1>2. Recover => panics' = panics + 1
  BY DEF Recover
<1>3. DiskNext => panics' = panics
  BY DEF DiskNext, WriteDisk, DeleteDisk, MakeDir, RemoveDir
<1>4. DatabaseNext => panics' = panics \/ Recover
  BY DatabaseFrame
<1> QED BY <1>1, <1>2, <1>3, <1>4 DEF Next, vars

(* What is in the root of the workspace stays as current as it is: a       *)
(* notification takes care of what it is about, and what changes on disk   *)
(* becomes pending.                                                        *)
LEMMA StepRoots ==
  ASSUME IInv, LinkInv({}), RootsCurrent, [Next]_vars, ~Recover
  PROVE  RootsCurrent'
<1>0. queue \in Seq(Node)
  BY DEF IInv, TypeOK
<1>1. ASSUME UNCHANGED queue,
             \A p \in Path : Holder[p] = Root
                              /\ Current(tree, files, entry, inmem, p)
                              => Current(tree, files, entry, inmem, p)'
      PROVE  RootsCurrent'
  BY <1>1 DEF RootsCurrent, Pending
<1>2. ASSUME NEW f \in FileIndex, NEW m \in Mod, Import(f, m)
      PROVE  RootsCurrent'
  <2>1. UNCHANGED queue
    BY <1>2 DEF Import
  <2> QED BY <1>1, <1>2, <2>1, ImportCurrent
<1>3. ASSUME \/ \E i \in FileIndex : Load(i)
             \/ \E q \in Path : LoadEntry(q)
             \/ \E d \in Dir : ReadDir(d)
      PROVE  RootsCurrent'
  <2>1. UNCHANGED queue
    BY <1>3 DEF Load, LoadEntry, ReadDir, envVars
  <2> QED BY <1>1, <1>3, <2>1, LoadCurrent
<1>4. ASSUME NEW q \in Path, NEW c \in Code, StoreInMemory(q, c)
      PROVE  RootsCurrent'
  <2>1. UNCHANGED queue
    BY <1>4 DEF StoreInMemory
  <2> QED BY <1>1, <1>4, <2>1, StoreCurrent
<1>5. ASSUME NEW q \in Path, Close(q)
      PROVE  RootsCurrent'
  <2>1. UNCHANGED queue
    BY <1>5 DEF Close, envVars
  <2> QED BY <1>1, <1>5, <2>1, CloseCurrent
<1>6. ASSUME Publish \/ UNCHANGED vars
      PROVE  RootsCurrent'
  BY <1>6 DEF Publish, envVars, vars, RootsCurrent, Pending, Current
<1>7. ASSUME Notify
      PROVE  RootsCurrent'
  <2> DEFINE n == Head(queue)
  <2>1. queue # <<>> /\ queue' = Tail(queue) /\ UNCHANGED <<disk, inmem>>
    BY <1>7 DEF Notify
  <2>2. n \in Node /\ Pending \subseteq Pending' \cup {n}
    BY <1>0, <2>1, PendingShrinks
  <2> SUFFICES ASSUME NEW p \in Path, Holder[p] = Root, p \notin Pending'
               PROVE  Current(tree, files, entry, inmem, p)'
    BY DEF RootsCurrent
  <2>3. p # n => Current(tree, files, entry, inmem, p)
    BY <2>2 DEF RootsCurrent
  <2>4. CASE NothingToDo(n) /\ UNCHANGED <<tree, entry, files>>
    <3>1. p = n => Current(tree, files, entry, inmem, p)
      BY <2>4, NothingCurrent
    <3> HIDE DEF n
    <3> QED BY <2>1, <2>3, <2>4, <3>1 DEF Current
  <2>5. CASE ~NothingToDo(n) /\ Replace(n) /\ (n \in Path => Visible(tree, n))
    <3>1. Current(tree', files', entry', inmem, p)
      BY <2>2, <2>3, <2>5, ReplaceCurrent
    <3> QED BY <2>1, <3>1 DEF Current
  <2>6. CASE Holder[n] \in Dir /\ Enter(Holder[n])
    <3>1. p # n
      BY <2>6, LayoutAssumption DEF Node
    <3> QED BY <2>1, <2>3, <2>6, <3>1, EnterCurrent
  <2> QED BY <1>7, <2>4, <2>5, <2>6, NotifyCases
<1>8. ASSUME DiskNext
      PROVE  RootsCurrent'
  BY <1>8, DiskCurrent
<1> QED BY <1>2, <1>3, <1>4, <1>5, <1>6, <1>7, <1>8 DEF Next, DatabaseNext

(* Directories on disk are in the tree, whatever happens: a recovery finds *)
(* them again.                                                             *)
LEMMA StepSeen ==
  ASSUME IInv, LinkInv({}), DirsSeen, [Next]_vars
  PROVE  DirsSeen'
<1>0. queue \in Seq(Node) /\ dirs \subseteq Dir
  BY DEF IInv, TypeOK
<1>1. CASE Recover
  <2>1. PICK o \in Orders : Regenerate(Rebuilt(o), Saved(o), Reentered(o))
    BY <1>1, RecoverForm
  <2>2. tree' = Rebuilt(o)
    BY <2>1, RecoverParts, RegenerateGood DEF IInv, TypeOK
  <2>3. \A d \in dirs : d \in Node /\ Rebuilt(o)[d].kind = "dir"
    BY <1>0 DEF Rebuilt, DirSlot, Node
  <2> QED BY <1>1, <2>2, <2>3, RecoverForm DEF DirsSeen
<1>2. CASE Notify
  <2>1. /\ queue # <<>> /\ queue' = Tail(queue) /\ dirs' = dirs
        /\ Pending \subseteq Pending' \cup {Head(queue)}
    BY <1>0, <1>2, PendingShrinks DEF Notify
  <2> SUFFICES ASSUME NEW d \in dirs \ Pending'
               PROVE  tree'[d].kind = "dir"
    BY <2>1 DEF DirsSeen
  <2> QED BY <1>0, <1>2, <2>1, NotifyDirs DEF DirsSeen
<1>3. CASE UNCHANGED vars
  BY <1>3 DEF vars, DirsSeen, Pending
<1>4. CASE DiskNext
  BY <1>4, DiskCurrent
<1>5. ASSUME DatabaseNext, ~Recover, ~Notify
      PROVE  DirsSeen'
  <2>1. UNCHANGED <<dirs, queue>>
    BY <1>5, DatabaseFrame
  <2>2. \A x \in Dir : tree[x].kind = "dir" => tree'[x].kind = "dir"
    BY <1>5, EntriesDirs DEF DatabaseNext
  <2> QED BY <1>0, <2>1, <2>2 DEF DirsSeen, Pending
<1> QED BY <1>1, <1>2, <1>3, <1>4, <1>5 DEF Next

(* What is not on disk is not below a directory that is not.               *)
LEMMA StepBare ==
  ASSUME IInv, Bare, [Next]_vars
  PROVE  Bare'
<1>1. CASE UNCHANGED <<disk, dirs>>
  BY <1>1 DEF Bare
<1>2. CASE DiskNext
  <2>1. ASSUME NEW p \in Path, NEW c \in Code, WriteDisk(p, c) PROVE Bare'
    BY <2>1, LayoutAssumption DEF WriteDisk, Bare, IInv, TypeOK, Node
  <2>2. ASSUME NEW p \in Path, DeleteDisk(p) PROVE Bare'
    BY <2>2 DEF DeleteDisk, Bare, IInv, TypeOK
  <2>3. ASSUME NEW d \in Dir, NEW content \in [Inside(d) -> Code \cup {NoCode}],
               MakeDir(d, content)
        PROVE  Bare'
    BY <2>3 DEF MakeDir, Bare, Inside
  <2>4. ASSUME NEW d \in Dir, RemoveDir(d) PROVE Bare'
    BY <2>4 DEF RemoveDir, Bare, Inside
  <2> QED BY <1>2, <2>1, <2>2, <2>3, <2>4 DEF DiskNext
<1>3. Recover => UNCHANGED <<disk, dirs>>
  BY DEF Recover
<1> QED BY <1>1, <1>2, <1>3, DatabaseFrame DEF Next, vars

(* Until a panic, a directory that is gone is left only for documents.     *)
LEMMA StepLeft ==
  ASSUME IInv, LinkInv({}), Bare, DirsLeft, [Next]_vars, ~Recover
  PROVE  DirsLeft'
<1>0. queue \in Seq(Node)
  BY DEF IInv, TypeOK
<1>1. CASE Notify
  <2>1. /\ queue # <<>> /\ queue' = Tail(queue) /\ dirs' = dirs
        /\ Pending \subseteq Pending' \cup {Head(queue)}
    BY <1>0, <1>1, PendingShrinks DEF Notify
  <2> SUFFICES ASSUME NEW d \in Dir \ (dirs \cup Pending')
               PROVE  LeftFor(tree', inmem', d)
    BY <2>1 DEF DirsLeft
  <2>2. d # Head(queue) => LeftFor(tree, inmem, d)
    BY <2>1 DEF DirsLeft
  <2> QED BY <1>1, <2>2, NotifyDirs
<1>2. CASE UNCHANGED vars
  BY <1>2 DEF vars, DirsLeft, LeftFor, Pending
<1>3. CASE DiskNext
  BY <1>3, DiskCurrent
<1>4. ASSUME DatabaseNext, ~Notify
      PROVE  DirsLeft'
  <2>1. UNCHANGED <<dirs, queue>>
    BY <1>4, DatabaseFrame
  <2>2. \A x \in Dir \ dirs : LeftFor(tree, inmem, x) => LeftFor(tree', inmem', x)
    BY <1>4, EntriesDirs DEF DatabaseNext, LinkInv
  <2> QED BY <2>1, <2>2 DEF DirsLeft, Pending
<1> QED BY <1>1, <1>2, <1>3, <1>4 DEF Next

(* The workspace is scanned when the server starts.                        *)
LEMMA InitCurrent ==
  ASSUME Init
  PROVE  RootsCurrent /\ DirsSeen /\ DirsLeft /\ Bare
<1>1. /\ tree = [n \in Node |->
               IF n \in Dir THEN IF n \in dirs THEN DirSlot(FALSE) ELSE NoSlot
               ELSE IF Holder[n] = Root /\ disk[n] # NoCode
               THEN FileSlot(<<n, 1>>) ELSE NoSlot]
      /\ files = IF Builtins = NoPath THEN <<>>
                 ELSE <<NewState(<<Builtins, 1>>, disk[Builtins])>>
      /\ entry = [e \in Entry |->
                IF e = <<Builtins, 1>>
                THEN [idx |-> 1, invs |-> {}, db |-> TRUE] ELSE BlankEntry]
      /\ inmem = [p \in Path |-> 0] /\ dirs \subseteq Dir
  BY DEF Init
<1>2. /\ \A p \in Path : p \in Node /\ p \notin Dir /\ <<p, 1>> \in Entry
      /\ \A d \in Dir : d \in Node
      /\ NoPath \notin Path
  BY LayoutAssumption, BoundAssumption DEF Node, Entry
<1>3. /\ \A r : DirSlot(r).kind = "dir"
      /\ NoSlot.kind = "none" /\ BlankEntry.idx = 0
      /\ \A e : FileSlot(e).kind = "file" /\ FileSlot(e).gen = e[2]
  BY DEF DirSlot, NoSlot, FileSlot, BlankEntry
<1>4. DirsSeen
  BY <1>1, <1>2, <1>3 DEF DirsSeen
<1>5. DirsLeft /\ Bare
  BY <1>1, <1>2, <1>3 DEF DirsLeft, LeftFor, Bare, Init
<1>6. ASSUME NEW p \in Path, Holder[p] = Root
      PROVE  Current(tree, files, entry, inmem, p)
  <2>1. tree[p] = IF disk[p] # NoCode THEN FileSlot(<<p, 1>>) ELSE NoSlot
    BY <1>1, <1>2, <1>6
  <2>2. tree[p].kind = "file" <=> disk[p] # NoCode
    BY <1>3, <2>1
  <2>3. tree[p].kind = "file" => EntryAt(tree, p) = <<p, 1>>
    <3>1. <<p, 1>>[2] = 1
      OBVIOUS
    <3> QED BY <1>3, <2>1, <2>2, <3>1 DEF EntryAt
  <2>4. CASE p # Builtins
    <3>1. entry[<<p, 1>>] = BlankEntry
      BY <1>1, <1>2, <2>4
    <3> QED BY <1>1, <1>3, <2>2, <2>3, <3>1 DEF Current
  <2>5. CASE p = Builtins
    <3>1. entry[<<p, 1>>].idx = 1
      BY <1>1, <1>2, <2>5
    <3>2. files[1] = NewState(<<p, 1>>, disk[p])
      BY <1>1, <1>2, <2>5
    <3>3. files[1].code = disk[p]
      BY <3>2 DEF NewState
    <3> QED BY <1>1, <2>2, <2>3, <3>1, <3>3 DEF Current
  <2> QED BY <2>4, <2>5
<1> QED BY <1>4, <1>5, <1>6 DEF RootsCurrent

-----------------------------------------------------------------------------
(* The theorems                                                            *)

(* Once every notification is handled, no directory on disk is missing     *)
(* from the tree: directories that are created, moved away and created     *)
(* again, listed by an import or found by a recovery.                      *)
THEOREM DirectoriesSeen ==
  Spec => [](queue = <<>> => \A d \in dirs : tree[d].kind = "dir")
<1>1. Init => DirsSeen
  BY InitCurrent
<1>2. (IInv /\ LinkInv({})) /\ DirsSeen /\ [Next]_vars => DirsSeen'
  BY StepSeen
<1>3. DirsSeen => (queue = <<>> => \A d \in dirs : tree[d].kind = "dir")
  BY DEF DirsSeen, Pending
<1> QED BY <1>1, <1>2, <1>3, Links, PTL DEF Spec

(* What the root of the workspace keeps current, for any layout: until a   *)
(* panic, a file in the root that no event is pending for is in the tree   *)
(* exactly when it is on disk or open, and what is loaded of it is what is *)
(* on disk.                                                                *)
THEOREM RootFilesCurrent == Spec => [](panics = 0 => RootsCurrent)
<1>1. Init => (panics = 0 => RootsCurrent)
  BY InitCurrent
<1>2. (IInv /\ LinkInv({})) /\ (panics = 0 => RootsCurrent) /\ [Next]_vars
      => (panics = 0 => RootsCurrent)'
  <2> SUFFICES ASSUME IInv, LinkInv({}), panics = 0 => RootsCurrent, [Next]_vars,
                      panics' = 0
               PROVE  RootsCurrent'
    OBVIOUS
  <2>1. panics \in Nat /\ (panics' = panics \/ (Recover /\ panics' = panics + 1))
    BY PanicsCount
  <2>2. Recover => panics' = panics + 1
    BY DEF Recover
  <2>3. ~Recover /\ RootsCurrent
    BY <2>1, <2>2
  <2> QED BY <2>3, StepRoots
<1> QED BY <1>1, <1>2, Links, PTL DEF Spec

(* When all files are in the root of the workspace, the files the checker  *)
(* sees once every notification is handled are the files on disk plus the  *)
(* open documents, with the code they have there.                          *)
THEOREM RootsConverge ==
  ASSUME \A p \in Path : Holder[p] = Root
  PROVE  Spec => []Converged
<1>1. (panics = 0 => RootsCurrent) => Converged
  <2> SUFFICES ASSUME RootsCurrent, queue = <<>>, NEW p \in Path
               PROVE  /\ IsFile(tree, p) <=> (disk[p] # NoCode \/ inmem[p] # 0)
                      /\ (IsFile(tree, p) /\ inmem[p] = 0) =>
                           LET i == entry[EntryAt(tree, p)].idx
                           IN  i # 0 => files[i].code \in {disk[p], NoCode}
    BY DEF Converged
  <2>1. Current(tree, files, entry, inmem, p)
    BY DEF RootsCurrent, Pending
  <2>2. IsFile(tree, p) <=> tree[p].kind = "file"
    BY LayoutAssumption DEF IsFile, Node
  <2> QED BY <2>1, <2>2 DEF Current
<1> QED BY <1>1, RootFilesCurrent, PTL

(* Until a panic, a directory that is gone from the disk is in the tree    *)
(* only where documents were opened, and shows nothing but open ones.      *)
LEMMA DirectoriesLeft == Spec => [](Bare /\ (panics = 0 => DirsLeft))
<1>1. Init => Bare /\ (panics = 0 => DirsLeft)
  BY InitCurrent
<1>2. (IInv /\ LinkInv({})) /\ Bare /\ (panics = 0 => DirsLeft) /\ [Next]_vars
      => Bare' /\ (panics = 0 => DirsLeft)'
  <2> SUFFICES ASSUME IInv, LinkInv({}), Bare, panics = 0 => DirsLeft, [Next]_vars
               PROVE  Bare' /\ (panics' = 0 => DirsLeft')
    OBVIOUS
  <2>1. panics \in Nat /\ (panics' = panics \/ (Recover /\ panics' = panics + 1))
    BY PanicsCount
  <2>2. Recover => panics' = panics + 1
    BY DEF Recover
  <2>3. panics' = 0 => ~Recover /\ DirsLeft
    BY <2>1, <2>2
  <2> QED BY <2>3, StepLeft, StepBare
<1> QED BY <1>1, <1>2, Links, PTL DEF Spec

(* As long as the builtins import nothing of the workspace: once every     *)
(* notification is handled, the directories that exist and those that hold *)
(* an open document are in the tree, and until a panic any other was put   *)
(* back for documents and shows no file but open ones.                     *)
THEOREM DirectoriesConverge == Spec /\ []BuiltinsImportNothing => []DirsConverged
<1>1. /\ LinkInv({}) /\ InMemoryAgrees /\ (panics = 0 => DirsLeft)
      /\ (queue = <<>> => \A d \in dirs : tree[d].kind = "dir")
      => DirsConverged
  <2> SUFFICES ASSUME LinkInv({}), InMemoryAgrees, panics = 0 => DirsLeft,
                      queue = <<>>, \A d \in dirs : tree[d].kind = "dir",
                      NEW d \in Dir
               PROVE  /\ d \in dirs \/ Inside(d) \cap Open # {} => IsDir(tree, d)
                      /\ panics = 0 /\ IsDir(tree, d) /\ d \notin dirs =>
                           /\ Inside(d) \cap Editable # {}
                           /\ \A p \in Inside(d) : IsFile(tree, p) => p \in Open
    BY DEF DirsConverged
  <2>1. d # NoPath /\ d # Root /\ d \in Node
    BY LayoutAssumption DEF Node
  <2>2. ASSUME NEW p \in Inside(d) \cap Open PROVE tree[d].kind = "dir"
    <3>1. p \in Path /\ Holder[p] = d /\ tree[p].kind = "file"
      BY DEF Inside, InMemoryAgrees, IsFile
    <3> QED BY <2>1, <3>1 DEF LinkInv, Listed
  <2>3. panics = 0 /\ d \notin dirs => LeftFor(tree, inmem, d)
    BY DEF DirsLeft, Pending
  <2> QED BY <2>1, <2>2, <2>3 DEF IsDir, IsFile, LeftFor, Inside, Open
<1> QED BY <1>1, DirectoriesLeft, DirectoriesSeen, DocumentsAgree, Links, PTL

(* When the editor opens documents in the root of the workspace only, no   *)
(* directory is put back for them: until a panic, and once every           *)
(* notification is handled, the directories in the tree are those on disk. *)
THEOREM RootDirsExact ==
  ASSUME \A p \in Editable : Holder[p] = Root
  PROVE  Spec => [](queue = <<>> /\ panics = 0 =>
                      \A d \in Dir : tree[d].kind = "dir" <=> d \in dirs)
<1>1. (panics = 0 => DirsLeft) /\ (queue = <<>> => \A d \in dirs : tree[d].kind = "dir")
      => (queue = <<>> /\ panics = 0 =>
            \A d \in Dir : tree[d].kind = "dir" <=> d \in dirs)
  <2> SUFFICES ASSUME DirsLeft, queue = <<>>, NEW d \in Dir, tree[d].kind = "dir"
               PROVE  d \in dirs
    OBVIOUS
  <2>1. Inside(d) \cap Editable = {}
    BY LayoutAssumption DEF Inside, Node
  <2> QED BY <2>1 DEF DirsLeft, LeftFor, Pending
<1> QED BY <1>1, DirectoriesLeft, DirectoriesSeen, PTL
=============================================================================
