--------------------------- MODULE VfsLinkProofs ---------------------------
(* Proofs that the tree, the entries, the file states and the table of     *)
(* in-memory files of Vfs keep pointing at each other.                     *)
EXTENDS VfsProofs

(* The entry of p is never replaced under an open document: p is not in a  *)
(* directory, or the editor does not open it.                              *)
Steady(p) == Holder[p] = Root \/ p \notin Editable

(* Documents below a directory are put back after it went away, unless the *)
(* whole database has to go with it: then they stay out of the tree.  A    *)
(* are the documents this cannot happen to.                                *)
Anchored(A, p) == Steady(p) \/ p \in A

(* A file state is the one its entry leads to.                             *)
PointsBack(A, F, E) ==
  \A i \in DOMAIN F : Anchored(A, F[i].path) => E[EntryOf(F, i)].idx = i

(* An entry leads to the file state that holds it.                         *)
Exact(F, E) ==
  \A e \in Entry : Steady(e[1]) /\ E[e].idx # 0 => F[E[e].idx].gen = e[2]

(* The documents I are in the tree, at their index.                        *)
Agrees(A, T, E, I) ==
  \A p \in Path : I[p] # 0 /\ Anchored(A, p) =>
    T[p].kind = "file" /\ E[EntryAt(T, p)].idx = I[p]

Linked(A, T, F, E, I) ==
  /\ GoodTree(T) /\ GoodFiles(F, E)
  /\ PointsBack(A, F, E) /\ Exact(F, E) /\ Agrees(A, T, E, I)

(* An entry nobody refers to has no file state.                            *)
Freed(T, F, E) == \A e \in Entry : e \notin Live(T, F) => E[e].idx = 0

(* The directory of a file in the tree was read; directories are no files  *)
(* and the paths of files no directories.                                  *)
Listed(T) ==
  /\ \A p \in Path : T[p].kind = "file" /\ Holder[p] # Root => T[Holder[p]].read
  /\ \A n \in Node : T[n].read => T[n].kind = "dir"
  /\ \A d \in Dir : T[d].kind # "file"
  /\ \A p \in Path : T[p].kind # "dir"

(* Only entries of the builtins and of what reaches them say InvalidatesDb, *)
(* and the entries of the builtins do.                                     *)
Marked(E) ==
  \A e \in Entry : /\ E[e].db => Builtins # NoPath
                   /\ e[1] = Builtins /\ E[e].idx # 0 => E[e].db

(* The builtins in the tree have a file state with code.                   *)
Loaded(T, F, E) ==
  Builtins # NoPath => /\ T[Builtins].kind = "file"
                       /\ LET i == E[EntryAt(T, Builtins)].idx
                          IN  i # 0 /\ F[i].code # NoCode

Whole(A, T, F, E, I) ==
  /\ Linked(A, T, F, E, I)
  /\ Marked(E)
  /\ Loaded(T, F, E)

OpenEditable == \A p \in Path : inmem[p] # 0 => p \in Editable

LinkInv(A) ==
  /\ Whole(A, tree, files, entry, inmem)
  /\ Freed(tree, files, entry)
  /\ Listed(tree)
  /\ OpenEditable

-----------------------------------------------------------------------------
(* Operators                                                               *)

(* Entries of file states and of files in the tree are entries, and alive. *)
LEMMA LiveEntries ==
  ASSUME NEW T, GoodTree(T), NEW F \in Seq(FileState)
  PROVE  /\ \A i \in DOMAIN F :
              /\ F[i] \in FileState
              /\ EntryOf(F, i) \in Entry /\ EntryOf(F, i) \in Live(T, F)
              /\ EntryOf(F, i)[1] = F[i].path /\ EntryOf(F, i)[2] = F[i].gen
         /\ \A p \in Path : T[p].kind = "file" =>
              /\ EntryAt(T, p) \in Entry /\ EntryAt(T, p) \in Live(T, F)
              /\ EntryAt(T, p)[1] = p /\ EntryAt(T, p)[2] = T[p].gen
<1>1. \A i \in DOMAIN F : F[i] \in FileState
  OBVIOUS
<1>2. \A i \in DOMAIN F : EntryOf(F, i) \in Live(T, F)
  BY DEF Live
<1>3. \A i \in DOMAIN F :
        /\ EntryOf(F, i) \in Entry
        /\ EntryOf(F, i)[1] = F[i].path /\ EntryOf(F, i)[2] = F[i].gen
  BY <1>1 DEF EntryOf, Entry, FileState
<1>4. \A p \in Path : T[p].kind = "file" =>
        /\ EntryAt(T, p) \in Entry /\ EntryAt(T, p) \in Live(T, F)
        /\ EntryAt(T, p)[1] = p /\ EntryAt(T, p)[2] = T[p].gen
  BY DEF EntryAt, Entry, GoodTree, Live
<1> QED BY <1>1, <1>2, <1>3, <1>4

(* Finish keeps the links, and the records of the entries that are alive.  *)
LEMMA FinishLinks ==
  ASSUME NEW A, NEW T, NEW F, NEW E, NEW I,
         Linked(A, T, F, E, I), Finish(T, F, E)
  PROVE  /\ tree' = T /\ files' = F /\ Linked(A, tree', files', entry', I)
         /\ Freed(tree', files', entry')
         /\ \A e \in Entry : e \in Live(T, F) => entry'[e] = E[e]
<1>1. GoodTree(T) /\ GoodFiles(F, E) /\ F \in Seq(FileState)
  BY DEF Linked, GoodFiles
<1>2. tree' = T /\ files' = F /\ GoodFiles(files', entry')
  BY <1>1, FinishGood
<1>3. BlankEntry.idx = 0
  BY DEF BlankEntry
<1>4. \A e \in Entry : entry'[e] = IF e \in Live(T, F) THEN E[e] ELSE BlankEntry
  BY DEF Finish, Collect
<1>5. PointsBack(A, files', entry')
  BY <1>1, <1>2, <1>4, LiveEntries DEF Linked, PointsBack
<1>6. Exact(files', entry')
  BY <1>2, <1>3, <1>4 DEF Linked, Exact
<1>7. Agrees(A, tree', entry', I)
  BY <1>1, <1>2, <1>4, LiveEntries DEF Linked, Agrees
<1>8. Freed(tree', files', entry')
  BY <1>2, <1>3, <1>4 DEF Freed
<1> QED BY <1>1, <1>2, <1>4, <1>5, <1>6, <1>7, <1>8 DEF Linked

(* Entries may change what is not their index, and states what is not      *)
(* their path or generation.                                               *)
LEMMA SameLinks ==
  ASSUME NEW A, NEW T, NEW F, NEW E, NEW I, Linked(A, T, F, E, I),
         NEW G, NEW H, GoodFiles(G, H), DOMAIN G = DOMAIN F,
         \A i \in DOMAIN F : G[i].path = F[i].path /\ G[i].gen = F[i].gen,
         \A e \in Entry : H[e].idx = E[e].idx
  PROVE  Linked(A, T, G, H, I)
<1>1. GoodTree(T) /\ GoodFiles(F, E) /\ F \in Seq(FileState)
  BY DEF Linked, GoodFiles
<1>2. \A i \in DOMAIN F : EntryOf(G, i) = EntryOf(F, i)
  BY DEF EntryOf
<1>3. PointsBack(A, G, H)
  BY <1>1, <1>2, LiveEntries DEF Linked, PointsBack
<1>4. Exact(G, H)
  BY <1>1 DEF Linked, Exact, GoodFiles
<1>5. Agrees(A, T, H, I)
  BY <1>1, LiveEntries DEF Linked, Agrees
<1> QED BY <1>1, <1>3, <1>4, <1>5 DEF Linked

(* The tree may change where no document is open.                          *)
LEMMA TreeLinks ==
  ASSUME NEW A, NEW T, NEW F, NEW E, NEW I,
         Linked(A, T, F, E, I), NEW U, GoodTree(U),
         \A p \in Path : I[p] # 0 /\ Anchored(A, p) =>
                           U[p].kind = T[p].kind /\ U[p].gen = T[p].gen
  PROVE  Linked(A, U, F, E, I)
<1>1. \A p \in Path : I[p] # 0 /\ Anchored(A, p) => EntryAt(U, p) = EntryAt(T, p)
  BY DEF EntryAt
<1>2. Agrees(A, U, E, I)
  BY <1>1 DEF Linked, Agrees
<1> QED BY <1>2 DEF Linked

(* A new file state takes an entry that has none.                          *)
LEMMA AppendLinks ==
  ASSUME NEW A, NEW T, NEW F, NEW E, NEW I,
         Linked(A, T, F, E, I), Len(F) < MaxFile,
         NEW s \in FileState, NEW e \in Entry, s.path = e[1], s.gen = e[2],
         E[e].idx = 0, NEW r \in EntryRecord, r.idx = Len(F) + 1
  PROVE  Linked(A, T, Append(F, s), [E EXCEPT ![e] = r], I)
<1> DEFINE G == Append(F, s)
           H == [E EXCEPT ![e] = r]
<1>1. GoodTree(T) /\ GoodFiles(F, E) /\ F \in Seq(FileState)
      /\ E \in [Entry -> EntryRecord]
  BY DEF Linked, GoodFiles
<1>2. GoodFiles(G, H)
  BY <1>1, AppendGood
<1>3. /\ DOMAIN F = 1..Len(F) /\ DOMAIN G = 1..(Len(F) + 1) /\ Len(F) \in Nat
      /\ \A i \in DOMAIN F : G[i] = F[i]
      /\ G[Len(F) + 1] = s
  BY <1>1, AppendProperties, LenProperties
<1>4. H[e] = r /\ \A x \in Entry : x # e => H[x] = E[x]
  BY <1>1
<1> HIDE DEF G, H
<1>5. PointsBack(A, G, H)
  <2> SUFFICES ASSUME NEW i \in DOMAIN G, Anchored(A, G[i].path)
               PROVE  H[EntryOf(G, i)].idx = i
    BY DEF PointsBack
  <2>1. CASE i \in DOMAIN F
    <3>1. EntryOf(G, i) = EntryOf(F, i) /\ EntryOf(F, i) \in Entry
          /\ E[EntryOf(F, i)].idx = i
      BY <1>1, <1>3, <2>1, LiveEntries DEF EntryOf, Linked, PointsBack
    <3>2. EntryOf(F, i) # e
      BY <3>1, <2>1, <1>3
    <3> QED BY <3>1, <3>2, <1>4
  <2>2. CASE i \notin DOMAIN F
    <3>1. i = Len(F) + 1
      BY <2>2, <1>3
    <3>2. EntryOf(G, i) = e
      BY <3>1, <1>3 DEF EntryOf, Entry
    <3> QED BY <3>1, <3>2, <1>4
  <2> QED BY <2>1, <2>2
<1>6. Exact(G, H)
  <2> SUFFICES ASSUME NEW x \in Entry, Steady(x[1]), H[x].idx # 0
               PROVE  G[H[x].idx].gen = x[2]
    BY DEF Exact
  <2>1. CASE x = e
    BY <2>1, <1>3, <1>4
  <2>2. CASE x # e
    <3>1. H[x] = E[x] /\ E[x].idx \in DOMAIN F /\ F[E[x].idx].gen = x[2]
      BY <2>2, <1>1, <1>4 DEF Linked, Exact, GoodFiles
    <3> QED BY <3>1, <1>3
  <2> QED BY <2>1, <2>2
<1>7. Agrees(A, T, H, I)
  BY <1>1, <1>4, LiveEntries DEF Linked, Agrees
<1> QED BY <1>1, <1>2, <1>5, <1>6, <1>7 DEF Linked, G, H

(* A file state may be replaced by one with an entry that leads to it.     *)
LEMMA ReplaceLinks ==
  ASSUME NEW A, NEW T, NEW F, NEW E, NEW I,
         Linked(A, T, F, E, I), NEW i \in DOMAIN F,
         NEW s \in FileState, NEW e \in Entry, s.path = e[1], s.gen = e[2],
         F[i].path = e[1], Anchored(A, e[1]) => E[e].idx = i
  PROVE  Linked(A, T, [F EXCEPT ![i] = s], E, I)
<1> DEFINE G == [F EXCEPT ![i] = s]
<1>1. GoodTree(T) /\ GoodFiles(F, E) /\ F \in Seq(FileState)
  BY DEF Linked, GoodFiles
<1>2. GoodFiles(G, E) /\ DOMAIN G = DOMAIN F
      /\ \A j \in DOMAIN F : G[j] = IF j = i THEN s ELSE F[j]
  BY <1>1, ReplaceGood
<1> HIDE DEF G
<1>3. PointsBack(A, G, E)
  <2> SUFFICES ASSUME NEW j \in DOMAIN F, Anchored(A, G[j].path)
               PROVE  E[EntryOf(G, j)].idx = j
    BY <1>2 DEF PointsBack
  <2>1. CASE j = i
    <3>1. EntryOf(G, j) = e
      BY <2>1, <1>2 DEF EntryOf, Entry
    <3> QED BY <3>1, <2>1, <1>2
  <2>2. CASE j # i
    <3>1. EntryOf(G, j) = EntryOf(F, j) /\ G[j] = F[j]
      BY <2>2, <1>2 DEF EntryOf
    <3> QED BY <3>1 DEF Linked, PointsBack
  <2> QED BY <2>1, <2>2
<1>4. Exact(G, E)
  <2> SUFFICES ASSUME NEW x \in Entry, Steady(x[1]), E[x].idx # 0
               PROVE  G[E[x].idx].gen = x[2]
    BY DEF Exact
  <2>1. E[x].idx \in DOMAIN F /\ F[E[x].idx].path = x[1] /\ F[E[x].idx].gen = x[2]
    BY <1>1 DEF Linked, Exact, GoodFiles
  <2>2. CASE E[x].idx = i
    <3>1. x[1] = e[1] /\ E[e].idx = i
      BY <2>1, <2>2 DEF Anchored
    <3>2. F[i].gen = e[2] /\ F[i].gen = x[2]
      BY <3>1, <2>1, <2>2, <1>1, LenProperties DEF Linked, Exact
    <3> QED BY <3>2, <2>2, <1>2
  <2>3. CASE E[x].idx # i
    BY <2>1, <2>3, <1>2
  <2> QED BY <2>2, <2>3
<1> QED BY <1>1, <1>2, <1>3, <1>4 DEF Linked, G

(* Finish keeps the builtins loaded.                                       *)
LEMMA FinishMarks ==
  ASSUME NEW T, GoodTree(T), NEW F, NEW E, GoodFiles(F, E), Marked(E),
         Builtins # NoPath => T[Builtins].kind = "file", Finish(T, F, E)
  PROVE  Marked(entry') /\ (Loaded(T, F, E) => Loaded(tree', files', entry'))
<1>1. \A e \in Entry : entry'[e] = IF e \in Live(T, F) THEN E[e] ELSE BlankEntry
  BY DEF Finish, Collect
<1>2. Marked(entry')
  BY <1>1 DEF Marked, BlankEntry
<1>3. Builtins # NoPath => EntryAt(T, Builtins) \in Entry
                             /\ EntryAt(T, Builtins) \in Live(T, F)
  BY LiveEntries, LayoutAssumption DEF GoodFiles
<1>4. Loaded(T, F, E) => Loaded(tree', files', entry')
  BY <1>1, <1>3 DEF Loaded, Finish
<1> QED BY <1>2, <1>4

(* Loading the builtins again keeps the links and leaves them loaded.      *)
LEMMA RegenerateLinks ==
  ASSUME NEW A, NEW T, NEW F, NEW E, NEW I, Linked(A, T, F, E, I), Marked(E),
         Builtins # NoPath => T[Builtins].kind = "file" /\ disk[Builtins] # NoCode,
         disk \in [Path -> Code \cup {NoCode}], Regenerate(T, F, E)
  PROVE  /\ tree' = T /\ Linked(A, tree', files', entry', I)
         /\ Freed(tree', files', entry')
         /\ Marked(entry') /\ Loaded(tree', files', entry')
<1> DEFINE e == EntryAt(T, Builtins)
           i == E[e].idx
<1>0. GoodTree(T) /\ GoodFiles(F, E) /\ F \in Seq(FileState)
  BY DEF Linked, GoodFiles
<1>1. CASE Builtins = NoPath \/ (i # 0 /\ F[i].code # NoCode)
  <2>1. Finish(T, F, E) /\ Loaded(T, F, E)
    BY <1>1 DEF Regenerate, Loaded
  <2> QED BY <2>1, <1>0, FinishLinks, FinishMarks
<1>2. CASE Builtins # NoPath /\ i # 0 /\ F[i].code = NoCode
  <2>0. Builtins \in Path /\ e \in Entry
    BY <1>0, <1>2, LayoutAssumption, LiveEntries
  <2>1. i \in DOMAIN F /\ disk[Builtins] \in Code \cup {NoCode} /\ F[i] \in FileState
    BY <1>0, <1>2, <2>0 DEF GoodFiles
  <2> DEFINE s == [F[i] EXCEPT !.code = disk[Builtins]]
             G == [F EXCEPT ![i] = s]
  <2>2. s \in FileState /\ s.path = F[i].path /\ s.gen = F[i].gen
        /\ s.code = disk[Builtins]
    BY <2>1 DEF FileState
  <2>3. Finish(T, [F EXCEPT ![i].code = disk[Builtins]], E)
    BY <1>2 DEF Regenerate
  <2>4. Finish(T, G, E)
    BY <2>3
  <2> HIDE DEF s
  <2>5. GoodFiles(G, E) /\ DOMAIN G = DOMAIN F
        /\ \A j \in DOMAIN F : G[j] = IF j = i THEN s ELSE F[j]
    <3> HIDE DEF i
    <3> QED BY <1>0, <2>1, <2>2, ReplaceGood
  <2> HIDE DEF G
  <2>6. Linked(A, T, G, E, I)
    <3> HIDE DEF i
    <3> QED BY <2>2, <2>5, SameLinks
  <2>7. Loaded(T, G, E)
    BY <1>2, <2>1, <2>2, <2>5 DEF Loaded
  <2> QED BY <2>4, <2>5, <2>6, <2>7, <1>0, FinishLinks, FinishMarks
<1>3. CASE Builtins # NoPath /\ i = 0
  <2> DEFINE s == NewState(e, disk[Builtins])
             r == [idx |-> Len(F) + 1, invs |-> {}, db |-> TRUE]
             G == Append(F, s)
             H == [E EXCEPT ![e] = r]
  <2>0. Builtins \in Path /\ e \in Entry /\ e[1] = Builtins
    BY <1>0, <1>3, LayoutAssumption, LiveEntries
  <2>1. s \in FileState /\ s.path = e[1] /\ s.gen = e[2] /\ s.code = disk[Builtins]
    BY <2>0, NewStateType DEF NewState
  <2>2. Len(F) < MaxFile /\ Finish(T, G, H)
    BY <1>3 DEF Regenerate
  <2>3. r \in EntryRecord /\ r.idx = Len(F) + 1 /\ r.db = TRUE
    BY <1>0, <2>2, BoundAssumption, LenProperties DEF EntryRecord
  <2>4. E[e].idx = 0
    BY <1>3
  <2> HIDE DEF e, i, s, r
  <2>5. Linked(A, T, G, H, I)
    BY <2>0, <2>1, <2>2, <2>3, <2>4, AppendLinks
  <2>6. H[e] = r /\ \A x \in Entry : x # e => H[x] = E[x]
    BY <1>0, <2>0 DEF GoodFiles
  <2>7. Marked(H)
    BY <1>3, <2>0, <2>3, <2>6 DEF Marked
  <2>8. G[Len(F) + 1] = s
    BY <1>0, <2>1, AppendProperties
  <2>9. Loaded(T, G, H)
    BY <1>0, <1>3, <2>1, <2>3, <2>6, <2>8, LenProperties DEF Loaded, e
  <2>10. GoodTree(T) /\ GoodFiles(G, H)
    BY <2>5 DEF Linked
  <2> QED BY <1>3, <2>2, <2>5, <2>7, <2>9, <2>10, FinishLinks, FinishMarks
<1> QED BY <1>1, <1>2, <1>3

(* An invalidation keeps the links and the builtins.                       *)
LEMMA SettleLinks ==
  ASSUME NEW A, NEW T, NEW F, NEW E, NEW I, Linked(A, T, F, E, I), Marked(E),
         Builtins # NoPath => T[Builtins].kind = "file" /\ disk[Builtins] # NoCode,
         disk \in [Path -> Code \cup {NoCode}],
         NEW R, NEW N, NEW O, Settle(T, F, E, R, N, O),
         ~HitsDb(R) => Loaded(T, F, E)
  PROVE  /\ tree' = T /\ Linked(A, tree', files', entry', I)
         /\ Freed(tree', files', entry')
         /\ Marked(entry') /\ Loaded(tree', files', entry')
<1>0. GoodTree(T) /\ GoodFiles(F, E) /\ F \in Seq(FileState)
      /\ E \in [Entry -> EntryRecord]
  BY DEF Linked, GoodFiles
<1>1. ASSUME NEW X, NEW Y
      PROVE  /\ Linked(A, T, Forget(F, X), Taken(E, Y), I) /\ Marked(Taken(E, Y))
             /\ GoodFiles(Forget(F, X), Taken(E, Y))
             /\ Loaded(T, F, E) => Loaded(T, Forget(F, X), Taken(E, Y))
  <2>1. GoodFiles(Forget(F, X), Taken(E, Y)) /\ DOMAIN Forget(F, X) = DOMAIN F
        /\ \A e \in Entry : Taken(E, Y)[e].idx = E[e].idx
    BY <1>0, ForgetGood, TakenGood DEF GoodFiles
  <2>2. \A j \in DOMAIN F : Forget(F, X)[j].path = F[j].path
          /\ Forget(F, X)[j].gen = F[j].gen /\ Forget(F, X)[j].code = F[j].code
    <3>1. \A j \in DOMAIN F : F[j] \in FileState
      BY <1>0
    <3> QED BY <3>1 DEF Forget, FileState
  <2>3. \A e \in Entry : Taken(E, Y)[e].db = E[e].db
    BY <1>0 DEF Taken, EntryRecord
  <2>4. Linked(A, T, Forget(F, X), Taken(E, Y), I)
    BY <2>1, <2>2, SameLinks
  <2>5. Marked(Taken(E, Y))
    BY <2>1, <2>3 DEF Marked
  <2>6. ASSUME Loaded(T, F, E) PROVE Loaded(T, Forget(F, X), Taken(E, Y))
    <3> SUFFICES ASSUME Builtins # NoPath
                 PROVE  LET i == Taken(E, Y)[EntryAt(T, Builtins)].idx
                        IN  i # 0 /\ Forget(F, X)[i].code # NoCode
      BY DEF Loaded
    <3>1. EntryAt(T, Builtins) \in Entry
      BY <1>0, LiveEntries, LayoutAssumption
    <3>2. E[EntryAt(T, Builtins)].idx # 0
          /\ F[E[EntryAt(T, Builtins)].idx].code # NoCode
      BY <2>6 DEF Loaded
    <3>3. E[EntryAt(T, Builtins)].idx \in DOMAIN F
      BY <1>0, <3>1, <3>2 DEF GoodFiles
    <3> QED BY <2>1, <2>2, <3>1, <3>2, <3>3
  <2> QED BY <2>1, <2>4, <2>5, <2>6
<1>2. CASE ~HitsDb(R) /\ Finish(T, Forget(F, R), Taken(E, R))
  BY <1>0, <1>1, <1>2, FinishLinks, FinishMarks
<1>3. ASSUME NEW V \in SUBSET R, Regenerate(T, Forget(F, DOMAIN F), Taken(E, V))
      PROVE  /\ tree' = T /\ Linked(A, tree', files', entry', I)
             /\ Freed(tree', files', entry')
             /\ Marked(entry') /\ Loaded(tree', files', entry')
  BY <1>1, <1>3, RegenerateLinks
<1> QED BY <1>2, <1>3 DEF Settle

(* Finish keeps all of it.                                                 *)
LEMMA FinishWhole ==
  ASSUME NEW A, NEW T, NEW F, NEW E, NEW I,
         Whole(A, T, F, E, I), Finish(T, F, E)
  PROVE  /\ tree' = T /\ Whole(A, tree', files', entry', I)
         /\ Freed(tree', files', entry')
<1>1. /\ GoodTree(T) /\ GoodFiles(F, E)
      /\ Builtins # NoPath => T[Builtins].kind = "file"
  BY DEF Whole, Linked, Loaded
<1> QED BY <1>1, FinishLinks, FinishMarks DEF Whole

(* An invalidation keeps all of it.                                        *)
LEMMA SettleWhole ==
  ASSUME NEW A, NEW T, NEW F, NEW E, NEW I, Whole(A, T, F, E, I), IInv,
         NEW R, NEW N, NEW O, Settle(T, F, E, R, N, O)
  PROVE  /\ tree' = T /\ Whole(A, tree', files', entry', I)
         /\ Freed(tree', files', entry')
<1>1. disk \in [Path -> Code \cup {NoCode}]
      /\ (Builtins # NoPath => disk[Builtins] # NoCode)
      /\ (Builtins # NoPath => T[Builtins].kind = "file")
  BY DEF IInv, TypeOK, BuiltinsKnown, Whole, Loaded
<1> QED BY <1>1, SettleLinks DEF Whole

(* File states may get other code and caches, entries other dependents.    *)
LEMMA SameWhole ==
  ASSUME NEW A, NEW T, NEW F, NEW E, NEW I, Whole(A, T, F, E, I),
         NEW G, NEW H, GoodFiles(G, H), DOMAIN G = DOMAIN F,
         \A i \in DOMAIN F :
           /\ G[i].path = F[i].path /\ G[i].gen = F[i].gen
           /\ F[i].path = Builtins /\ F[i].code # NoCode => G[i].code # NoCode,
         \A e \in Entry : H[e].idx = E[e].idx /\ H[e].db = E[e].db
  PROVE  Whole(A, T, G, H, I)
<1>1. Linked(A, T, G, H, I) /\ GoodTree(T) /\ GoodFiles(F, E)
  BY SameLinks DEF Whole, Linked
<1>2. Marked(H)
  BY DEF Whole, Marked
<1>3. ASSUME Builtins # NoPath
      PROVE  /\ T[Builtins].kind = "file"
             /\ H[EntryAt(T, Builtins)].idx # 0
             /\ G[H[EntryAt(T, Builtins)].idx].code # NoCode
  <2>1. /\ T[Builtins].kind = "file" /\ E[EntryAt(T, Builtins)].idx # 0
        /\ F[E[EntryAt(T, Builtins)].idx].code # NoCode
    BY <1>3 DEF Whole, Loaded
  <2>2. EntryAt(T, Builtins) \in Entry /\ EntryAt(T, Builtins)[1] = Builtins
    BY <1>1, <1>3, <2>1, LiveEntries, LayoutAssumption DEF GoodFiles
  <2> QED BY <2>1, <2>2, <1>1 DEF GoodFiles
<1> QED BY <1>1, <1>2, <1>3 DEF Whole, Loaded

(* Another tree keeps all of it when the open documents stay in place.     *)
LEMMA TreeWhole ==
  ASSUME NEW A, NEW T, NEW F, NEW E, NEW I,
         Whole(A, T, F, E, I), NEW U, GoodTree(U),
         \A p \in Path : (I[p] # 0 /\ Anchored(A, p)) \/ p = Builtins =>
                           U[p].kind = T[p].kind /\ U[p].gen = T[p].gen
  PROVE  Whole(A, U, F, E, I)
<1>1. Linked(A, U, F, E, I)
  BY TreeLinks DEF Whole
<1>2. Loaded(U, F, E)
  BY LayoutAssumption DEF Whole, Loaded, EntryAt
<1> QED BY <1>1, <1>2 DEF Whole

(* A new file state of an entry that has none.                             *)
LEMMA AppendWhole ==
  ASSUME NEW A, NEW T, NEW F, NEW E, NEW I,
         Whole(A, T, F, E, I), Len(F) < MaxFile,
         NEW s \in FileState, NEW e \in Entry, s.path = e[1], s.gen = e[2],
         E[e].idx = 0, e[1] # Builtins, NEW r \in EntryRecord,
         r.idx = Len(F) + 1, r.db = E[e].db
  PROVE  Whole(A, T, Append(F, s), [E EXCEPT ![e] = r], I)
<1> DEFINE G == Append(F, s)
           H == [E EXCEPT ![e] = r]
<1>1. GoodTree(T) /\ GoodFiles(F, E) /\ F \in Seq(FileState)
      /\ E \in [Entry -> EntryRecord]
  BY DEF Whole, Linked, GoodFiles
<1>2. Linked(A, T, G, H, I)
  BY AppendLinks DEF Whole
<1>3. H[e] = r /\ \A x \in Entry : x # e => H[x] = E[x]
  BY <1>1
<1>4. DOMAIN F = 1..Len(F) /\ \A i \in DOMAIN F : G[i] = F[i]
  BY <1>1, AppendProperties, LenProperties
<1> HIDE DEF G, H
<1>5. Marked(H)
  BY <1>3 DEF Whole, Marked
<1>6. ASSUME Builtins # NoPath
      PROVE  /\ T[Builtins].kind = "file"
             /\ H[EntryAt(T, Builtins)].idx # 0
             /\ G[H[EntryAt(T, Builtins)].idx].code # NoCode
  <2>1. /\ T[Builtins].kind = "file" /\ E[EntryAt(T, Builtins)].idx # 0
        /\ F[E[EntryAt(T, Builtins)].idx].code # NoCode
    BY <1>6 DEF Whole, Loaded
  <2>2. EntryAt(T, Builtins) \in Entry /\ EntryAt(T, Builtins)[1] = Builtins
    BY <1>1, <1>6, <2>1, LiveEntries, LayoutAssumption
  <2>3. H[EntryAt(T, Builtins)] = E[EntryAt(T, Builtins)]
    BY <2>2, <1>3
  <2>4. E[EntryAt(T, Builtins)].idx \in DOMAIN F
    BY <2>1, <2>2, <1>1 DEF GoodFiles
  <2> QED BY <2>1, <2>3, <2>4, <1>4
<1> QED BY <1>2, <1>5, <1>6 DEF Whole, Loaded, G, H

(* Another file state in the place of one whose entry leads to it.         *)
LEMMA ReplaceWhole ==
  ASSUME NEW A, NEW T, NEW F, NEW E, NEW I,
         Whole(A, T, F, E, I), NEW i \in DOMAIN F,
         NEW s \in FileState, NEW e \in Entry, s.path = e[1], s.gen = e[2],
         F[i].path = e[1], Anchored(A, e[1]) => E[e].idx = i,
         e[1] = Builtins => s.code # NoCode
  PROVE  Whole(A, T, [F EXCEPT ![i] = s], E, I)
<1> DEFINE G == [F EXCEPT ![i] = s]
<1>1. GoodTree(T) /\ GoodFiles(F, E)
  BY DEF Whole, Linked
<1>2. Linked(A, T, G, E, I)
  BY ReplaceLinks DEF Whole
<1>3. \A j \in DOMAIN F : G[j] = IF j = i THEN s ELSE F[j]
  OBVIOUS
<1> HIDE DEF G
<1>4. ASSUME Builtins # NoPath
      PROVE  /\ T[Builtins].kind = "file"
             /\ E[EntryAt(T, Builtins)].idx # 0
             /\ G[E[EntryAt(T, Builtins)].idx].code # NoCode
  <2>1. /\ T[Builtins].kind = "file" /\ E[EntryAt(T, Builtins)].idx # 0
        /\ F[E[EntryAt(T, Builtins)].idx].code # NoCode
    BY <1>4 DEF Whole, Loaded
  <2>2. EntryAt(T, Builtins) \in Entry /\ EntryAt(T, Builtins)[1] = Builtins
    BY <1>1, <1>4, <2>1, LiveEntries, LayoutAssumption DEF GoodFiles
  <2>3. /\ E[EntryAt(T, Builtins)].idx \in DOMAIN F
        /\ F[E[EntryAt(T, Builtins)].idx].path = Builtins
    BY <2>1, <2>2, <1>1 DEF GoodFiles
  <2> QED BY <2>1, <2>3, <1>3
<1> QED BY <1>2, <1>4 DEF Whole, Loaded, G

(* Reading a directory keeps the files it has in the tree.                 *)
LEMMA ListingLinks ==
  ASSUME NEW T, GoodTree(T), Listed(T), NEW d \in Dir, CanList(d)
  PROVE  /\ Listed(Listing(T, d))
         /\ \A p \in Path : T[p].kind = "file" => Listing(T, d)[p] = T[p]
<1>1. /\ d \in Node /\ d \notin Path /\ d # Root /\ d \notin Inside(d)
      /\ \A p \in Path : p \in Node /\ p # d
      /\ \A p \in Path : Holder[p] # Root => Holder[p] \in Dir /\ Holder[p] \in Node
                                               /\ Holder[p] \notin Inside(d)
  BY LayoutAssumption DEF Node, Inside
<1>2. \A p \in Path : T[p].kind = "file" => Listing(T, d)[p] = T[p]
  BY <1>1 DEF Listing, Listed, Inside
<1>3. Listing(T, d)[d] = DirSlot(TRUE)
  BY <1>1 DEF Listing
<1>4. /\ DirSlot(TRUE).read /\ DirSlot(TRUE).kind = "dir" /\ ~NoSlot.read
      /\ NoSlot.kind # "dir" /\ \A e : ~FileSlot(e).read /\ FileSlot(e).kind # "dir"
  BY DEF DirSlot, NoSlot, FileSlot
<1>7. \A c \in Dir : Listing(T, d)[c].kind # "file"
  <2>1. \A c \in Dir : c \in Node /\ c \notin Inside(d)
    BY LayoutAssumption DEF Node, Inside
  <2> QED BY <2>1, <1>4 DEF Listing, Listed
<1>5. ASSUME NEW p \in Path, Listing(T, d)[p].kind = "file", Holder[p] # Root
      PROVE  Listing(T, d)[Holder[p]].read
  <2>1. CASE Holder[p] = d
    BY <2>1, <1>3, <1>4
  <2>2. CASE Holder[p] # d
    <3>1. Listing(T, d)[p] = T[p] /\ Listing(T, d)[Holder[p]] = T[Holder[p]]
      BY <2>2, <1>1, <1>5 DEF Listing, Inside
    <3> QED BY <3>1, <1>5 DEF Listed
  <2> QED BY <2>1, <2>2
<1>6. ASSUME NEW n \in Node, Listing(T, d)[n].read
      PROVE  Listing(T, d)[n].kind = "dir"
  BY <1>4, <1>6 DEF Listing, Listed
<1>8. \A p \in Path : Listing(T, d)[p].kind # "dir"
  BY <1>1, <1>4 DEF Listing, Listed
<1> QED BY <1>2, <1>5, <1>6, <1>7, <1>8 DEF Listed

(* Registering missing names keeps files and directories.                  *)
LEMMA AddMissingLinks ==
  ASSUME NEW T, GoodTree(T), Listed(T), NEW M, NEW f \in FileIndex
  PROVE  /\ Listed(AddMissing(T, M, f))
         /\ \A n \in Node : T[n].kind # "none" =>
              /\ AddMissing(T, M, f)[n].kind = T[n].kind
              /\ AddMissing(T, M, f)[n].gen = T[n].gen
<1>1. \A n \in Node : T[n] \in Slot
  BY DEF GoodTree
<1>2. \A n \in Node :
        /\ T[n].kind # "none" => /\ AddMissing(T, M, f)[n].kind = T[n].kind
                                 /\ AddMissing(T, M, f)[n].gen = T[n].gen
                                 /\ AddMissing(T, M, f)[n].read = T[n].read
        /\ T[n].kind = "none" => /\ AddMissing(T, M, f)[n] = T[n] \/
                                    AddMissing(T, M, f)[n] = MissingSlot({f})
  BY <1>1 DEF AddMissing, Slot
<1>3. MissingSlot({f}).kind = "missing" /\ ~MissingSlot({f}).read
  BY DEF MissingSlot
<1>4. /\ \A p \in Path : p \in Node /\ (Holder[p] # Root => Holder[p] \in Node)
      /\ \A c \in Dir : c \in Node
  BY LayoutAssumption DEF Node
<1>5. Listed(AddMissing(T, M, f))
  BY <1>2, <1>3, <1>4 DEF Listed
<1> QED BY <1>2, <1>5

(* Caching an import.                                                      *)
LEMMA CachedWhole ==
  ASSUME NEW A, NEW T, NEW F, NEW E, NEW I,
         Whole(A, T, F, E, I), NEW f \in DOMAIN F,
         NEW m \in Mod, NEW v \in FileIndex \cup {Uncached, NotFound, Namespace}
  PROVE  /\ Whole(A, T, [F EXCEPT ![f].cache[m] = v], E, I)
         /\ Len([F EXCEPT ![f].cache[m] = v]) = Len(F)
<1> DEFINE s == [F[f] EXCEPT !.cache[m] = v]
           G == [F EXCEPT ![f] = s]
<1>1. GoodFiles(F, E) /\ F[f] \in FileState /\ F \in Seq(FileState)
  BY DEF Whole, Linked, GoodFiles
<1>2. [F[f].cache EXCEPT ![m] = v] \in Cache
  BY <1>1 DEF FileState, Cache
<1>3. /\ s \in FileState /\ s.path = F[f].path /\ s.gen = F[f].gen
      /\ s.code = F[f].code
  BY <1>1, <1>2 DEF FileState
<1>4. [F EXCEPT ![f].cache[m] = v] = G
  OBVIOUS
<1> HIDE DEF s
<1>5. /\ GoodFiles(G, E) /\ DOMAIN G = DOMAIN F
      /\ \A j \in DOMAIN F : G[j] = IF j = f THEN s ELSE F[j]
  BY <1>1, <1>3, ReplaceGood
<1>6. Len(G) = Len(F)
  BY <1>1, <1>3, ExceptSeq
<1> HIDE DEF G
<1>7. Whole(A, T, G, E, I)
  BY <1>3, <1>5, SameWhole
<1> QED BY <1>4, <1>6, <1>7

(* Registering a dependent.                                                *)
LEMMA AddInvWhole ==
  ASSUME NEW A, NEW T, NEW F, NEW E, NEW I,
         Whole(A, T, F, E, I), NEW e \in Entry,
         NEW f \in FileIndex
  PROVE  Whole(A, T, F, AddInv(E, e, f), I)
<1>1. GoodFiles(F, E)
  BY DEF Whole, Linked
<1>2. GoodFiles(F, AddInv(E, e, f))
  BY <1>1, AddInvGood
<1>3. \A x \in Entry : AddInv(E, e, f)[x].idx = E[x].idx
                         /\ AddInv(E, e, f)[x].db = E[x].db
  BY <1>1 DEF AddInv, GoodFiles, EntryRecord
<1> QED BY <1>2, <1>3, SameWhole

(* Reading a directory keeps all of it.                                    *)
LEMMA ListingWhole ==
  ASSUME NEW A, IInv, LinkInv(A), NEW d \in Dir, CanList(d)
  PROVE  /\ Whole(A, Listing(tree, d), files, entry, inmem)
         /\ Listed(Listing(tree, d)) /\ GoodTree(Listing(tree, d))
         /\ \A p \in Path : tree[p].kind = "file" =>
                              Listing(tree, d)[p] = tree[p]
<1>1. /\ Whole(A, tree, files, entry, inmem) /\ GoodTree(tree) /\ Listed(tree)
  BY DEF LinkInv, IInv
<1>2. /\ GoodTree(Listing(tree, d)) /\ Listed(Listing(tree, d))
      /\ \A p \in Path : tree[p].kind = "file" => Listing(tree, d)[p] = tree[p]
  BY <1>1, ListingGood, ListingLinks
<1>3. \A p \in Path : (inmem[p] # 0 /\ Anchored(A, p)) \/ p = Builtins =>
                         tree[p].kind = "file"
  BY <1>1, LayoutAssumption DEF Whole, Linked, Agrees, Loaded, Node
<1>4. Whole(A, Listing(tree, d), files, entry, inmem)
  BY <1>1, <1>2, <1>3, TreeWhole
<1> QED BY <1>2, <1>4

(* An import.                                                              *)
LEMMA ImportLinks ==
  ASSUME NEW A, IInv, LinkInv(A),
         NEW f \in FileIndex, NEW m \in Mod, Import(f, m)
  PROVE  LinkInv(A)'
<1> DEFINE d  == Package[m]
           T0 == IF IsDir(tree, d) THEN Listing(tree, d) ELSE tree
           T1 == AddMissing(T0, MissingNames(T0, m), f)
           p  == Target(T0, m)
           e  == EntryAt(T0, p)
           i  == entry[e].idx
           F(v) == [files EXCEPT ![f].cache[m] = v]
<1>1. /\ Whole(A, T0, files, entry, inmem) /\ Listed(T0) /\ GoodTree(T0)
      /\ \A q \in Path : tree[q].kind = "file" => T0[q] = tree[q]
  <2>1. CASE IsDir(tree, d)
    <3>1. d \in Dir /\ CanList(d)
      BY <2>1, LayoutAssumption DEF IsDir, Import
    <3> QED BY <2>1, <3>1, ListingWhole
  <2>2. CASE ~IsDir(tree, d)
    BY <2>2 DEF LinkInv, IInv
  <2> QED BY <2>1, <2>2
<1>2. /\ p = NoPath /\ \E v \in {NotFound, Namespace} : Finish(T1, F(v), entry)
      \/ /\ p # NoPath /\ i # 0
         /\ Finish(T1, F(i), AddInv(entry, e, f))
      \/ /\ p # NoPath /\ i = 0 /\ Len(files) < MaxFile
         /\ Finish(T1, Append(F(Len(files) + 1), NewState(e, NoCode)),
                   AddInv([entry EXCEPT ![e].idx = Len(files) + 1], e, f))
  BY DEF Import
<1> HIDE DEF T0
<1>3. Whole(A, T1, files, entry, inmem) /\ Listed(T1)
  <2>1. /\ GoodTree(T1) /\ Listed(T1)
        /\ \A n \in Node : T0[n].kind # "none" =>
             T1[n].kind = T0[n].kind /\ T1[n].gen = T0[n].gen
    BY <1>1, AddMissingGood, AddMissingLinks
  <2>2. \A q \in Path : (inmem[q] # 0 /\ Anchored(A, q)) \/ q = Builtins =>
                           T0[q].kind = "file" /\ q \in Node
    BY <1>1, LayoutAssumption DEF Whole, Linked, Agrees, Loaded, Node
  <2> HIDE DEF T1
  <2>3. Whole(A, T1, files, entry, inmem)
    BY <1>1, <2>1, <2>2, TreeWhole
  <2> QED BY <2>1, <2>3
<1>4. f \in DOMAIN files /\ Len(files) \in Nat /\ GoodFiles(files, entry)
  BY LenProperties DEF Import, IInv, GoodFiles
<1>5. \A v \in FileIndex \cup {Uncached, NotFound, Namespace} :
        Whole(A, T1, F(v), entry, inmem) /\ Len(F(v)) = Len(files)
  BY <1>3, <1>4, CachedWhole
<1> HIDE DEF F
<1>6. \E G, H : Whole(A, T1, G, H, inmem) /\ Finish(T1, G, H)
  <2>1. CASE p = NoPath
    BY <2>1, <1>2, <1>5
  <2>2. CASE p # NoPath
    <3>1. p \in Path /\ e \in Entry /\ e[1] = p /\ T0[p].kind = "file"
      BY <2>2, <1>1, TargetIsFile DEF GoodTree, EntryAt, Entry
    <3>2. entry[e] \in EntryRecord
      BY <3>1, <1>4 DEF GoodFiles
    <3>3. CASE i # 0
      <4>1. i \in FileIndex
        BY <3>2, <3>3, BoundAssumption DEF FileIndex, EntryRecord
      <4>2. Whole(A, T1, F(i), AddInv(entry, e, f), inmem)
        BY <4>1, <1>5, <3>1, AddInvWhole
      <4> QED BY <2>2, <3>3, <4>2, <1>2
    <3>4. CASE i = 0
      <4> DEFINE k == Len(files) + 1
                 r == [entry[e] EXCEPT !.idx = k]
                 s == NewState(e, NoCode)
                 H == [entry EXCEPT ![e] = r]
                 G == Append(F(k), s)
      <4>1. Len(files) < MaxFile /\ k \in FileIndex /\ k \in 0..MaxFile
        BY <2>2, <3>4, <1>2, <1>4, BoundAssumption DEF FileIndex
      <4>2. r \in EntryRecord /\ r.idx = k /\ r.db = entry[e].db
        BY <3>2, <4>1 DEF EntryRecord
      <4>3. s \in FileState /\ s.path = e[1] /\ s.gen = e[2]
        BY <3>1, NewStateType DEF NewState
      <4>4. e[1] # Builtins
        <5>1. ASSUME p = Builtins PROVE FALSE
          <6>1. Builtins # NoPath
            BY <5>1, <2>2
          <6>2. entry[e].idx # 0
            BY <1>1, <5>1, <6>1 DEF Whole, Loaded
          <6> QED BY <6>2, <3>4
        <5> QED BY <5>1, <3>1
      <4>5. Finish(T1, G, AddInv(H, e, f))
        BY <2>2, <3>4, <1>2
      <4>6. Whole(A, T1, F(k), entry, inmem) /\ Len(F(k)) = Len(files)
        BY <4>1, <1>5
      <4>7. entry[e].idx = 0
        BY <3>4
      <4> HIDE DEF r, s, k, e
      <4>8. Len(F(k)) + 1 = k
        BY <4>6 DEF k
      <4>9. Whole(A, T1, G, H, inmem)
        BY <4>1, <4>2, <4>3, <4>4, <4>6, <4>7, <4>8, <3>1, AppendWhole
      <4>10. Whole(A, T1, G, AddInv(H, e, f), inmem)
        BY <4>9, <3>1, AddInvWhole
      <4> QED BY <4>5, <4>10
    <3> QED BY <3>3, <3>4
  <2> QED BY <2>1, <2>2
<1>7. /\ tree' = T1 /\ Whole(A, tree', files', entry', inmem)
      /\ Freed(tree', files', entry')
  BY <1>6, FinishWhole
<1>8. inmem' = inmem
  BY DEF Import
<1> QED BY <1>3, <1>7, <1>8 DEF LinkInv, OpenEditable

(* Reading the code of a file state that has none.                         *)
LEMMA LoadLinks ==
  ASSUME NEW A, IInv, LinkInv(A), NEW i \in FileIndex, Load(i)
  PROVE  LinkInv(A)'
<1> DEFINE s == [files[i] EXCEPT !.code = disk[files[i].path]]
           F == [files EXCEPT ![i] = s]
<1>1. i \in DOMAIN files /\ files[i] \in FileState /\ files[i].code = NoCode
      /\ UNCHANGED <<tree, entry, inmem>> /\ GoodFiles(files, entry)
  BY DEF Load, IInv, GoodFiles
<1>2. files' = F
  BY DEF Load
<1>3. s \in FileState /\ s.path = files[i].path /\ s.gen = files[i].gen
  <2>1. disk[files[i].path] \in Code \cup {NoCode}
    BY <1>1 DEF IInv, TypeOK, FileState
  <2> QED BY <1>1, <2>1 DEF FileState
<1> HIDE DEF s
<1>4. /\ GoodFiles(F, entry) /\ DOMAIN F = DOMAIN files
      /\ \A j \in DOMAIN files : F[j] = IF j = i THEN s ELSE files[j]
  BY <1>1, <1>3, ReplaceGood
<1> HIDE DEF F
<1>5. Whole(A, tree, F, entry, inmem)
  BY <1>1, <1>3, <1>4, SameWhole DEF LinkInv
<1>6. Freed(tree, F, entry)
  <2>1. \A j \in DOMAIN files : EntryOf(F, j) = EntryOf(files, j)
    BY <1>3, <1>4 DEF EntryOf
  <2>2. Live(tree, F) = Live(tree, files)
    BY <2>1, <1>4 DEF Live
  <2> QED BY <2>2 DEF LinkInv, Freed
<1> QED BY <1>1, <1>2, <1>5, <1>6 DEF LinkInv, OpenEditable

(* Loading a file of the tree that has no index yet.                       *)
LEMMA LoadEntryLinks ==
  ASSUME NEW A, IInv, LinkInv(A), NEW p \in Path, LoadEntry(p)
  PROVE  LinkInv(A)'
<1> DEFINE e == EntryAt(tree, p)
           s == NewState(e, disk[p])
           r == [entry[e] EXCEPT !.idx = Len(files) + 1]
           F == Append(files, s)
           E == [entry EXCEPT ![e] = r]
<1>1. e \in Entry /\ e[1] = p /\ entry[e].idx = 0
  BY DEF LoadEntry, IsFile, IInv, GoodTree, EntryAt, Entry
<1>2. s \in FileState /\ s.path = e[1] /\ s.gen = e[2]
  BY <1>1, NewStateType DEF IInv, TypeOK, NewState
<1>3. Len(files) < MaxFile /\ GoodFiles(files, entry)
      /\ Whole(A, tree, files, entry, inmem)
  BY DEF LoadEntry, IInv, LinkInv
<1>4. r \in EntryRecord /\ r.idx = Len(files) + 1 /\ r.db = entry[e].db
  <2>1. entry[e] \in EntryRecord /\ Len(files) + 1 \in 0..MaxFile
    BY <1>1, <1>3, BoundAssumption, LenProperties DEF GoodFiles
  <2> QED BY <2>1 DEF EntryRecord
<1>5. Finish(tree, F, E) /\ inmem' = inmem
  BY DEF LoadEntry
<1>6. p # Builtins
  <2>1. Builtins # NoPath => entry[EntryAt(tree, Builtins)].idx # 0
    BY DEF LinkInv, Whole, Loaded
  <2> QED BY <2>1, <1>1, LayoutAssumption DEF Node
<1> HIDE DEF e, s, r
<1>7. Whole(A, tree, F, E, inmem)
  BY <1>1, <1>2, <1>3, <1>4, <1>6, AppendWhole
<1> HIDE DEF F, E
<1>8. /\ tree' = tree /\ Whole(A, tree', files', entry', inmem)
      /\ Freed(tree', files', entry')
  BY <1>5, <1>7, FinishWhole
<1> QED BY <1>5, <1>8 DEF LinkInv, OpenEditable

(* Listing a directory.                                                    *)
LEMMA EnterLinks ==
  ASSUME NEW A, IInv, LinkInv(A), NEW d \in Dir, Enter(d), inmem' = inmem
  PROVE  LinkInv(A)'
<1>1. /\ tree' = Listing(tree, d) /\ CanList(d)
      /\ UNCHANGED <<entry, files, inmem>>
  BY DEF Enter
<1>2. /\ Whole(A, tree', files', entry', inmem') /\ Listed(tree')
      /\ \A p \in Path : tree[p].kind = "file" => tree'[p] = tree[p]
  BY <1>1, ListingWhole
<1>3. Live(tree, files) \subseteq Live(tree', files')
  BY <1>1, <1>2 DEF Live, EntryAt
<1>4. Freed(tree', files', entry')
  BY <1>1, <1>3 DEF LinkInv, Freed
<1> QED BY <1>1, <1>2, <1>4 DEF LinkInv, OpenEditable

(* A document is opened at the index its entry has.                        *)
LEMMA OpenWhole ==
  ASSUME NEW A, NEW T, NEW F, NEW E, NEW I,
         Whole(A, T, F, E, I), NEW p \in Path, NEW k,
         I \in [Path -> 0..MaxFile], T[p].kind = "file",
         Anchored(A, p) => E[EntryAt(T, p)].idx = k
  PROVE  Whole(A, T, F, E, [I EXCEPT ![p] = k])
<1>1. Agrees(A, T, E, [I EXCEPT ![p] = k])
  BY DEF Whole, Linked, Agrees
<1> QED BY <1>1 DEF Whole, Linked

(* An entry takes InvalidatesDb over.                                      *)
LEMMA MarkWhole ==
  ASSUME NEW A, NEW T, NEW F, NEW E, NEW I,
         Whole(A, T, F, E, I), NEW e \in Entry,
         Builtins # NoPath
  PROVE  Whole(A, T, F, [E EXCEPT ![e].db = TRUE, ![e].invs = {}], I)
<1> DEFINE H == [E EXCEPT ![e].db = TRUE, ![e].invs = {}]
<1>1. GoodFiles(F, E) /\ E \in [Entry -> EntryRecord] /\ GoodTree(T)
  BY DEF Whole, Linked, GoodFiles
<1>2. /\ H \in [Entry -> EntryRecord]
      /\ \A x \in Entry : H[x].idx = E[x].idx /\ (E[x].db => H[x].db)
  BY <1>1 DEF EntryRecord
<1> HIDE DEF H
<1>3. GoodFiles(F, H)
  BY <1>1, <1>2 DEF GoodFiles
<1>4. Linked(A, T, F, H, I)
  BY <1>2, <1>3, SameLinks DEF Whole
<1>5. Marked(H)
  BY <1>2 DEF Whole, Marked
<1>6. Builtins \in Path /\ T[Builtins].kind = "file"
  BY LayoutAssumption DEF Whole, Loaded
<1>7. EntryAt(T, Builtins) \in Entry
  BY <1>1, <1>6, LiveEntries DEF GoodFiles
<1>8. Loaded(T, F, H)
  BY <1>2, <1>7 DEF Whole, Loaded
<1> QED BY <1>4, <1>5, <1>8 DEF Whole, H

(* Only with builtins can the whole database have to go.                   *)
LEMMA HitsBuiltins ==
  ASSUME NEW A, IInv, LinkInv(A), NEW S, HitsDb(Reach(S))
  PROVE  Builtins # NoPath
<1>1. PICK j \in Reach(S) : entry[EntryOf(files, j)].db
  BY DEF HitsDb
<1>2. j \in DOMAIN files /\ GoodTree(tree) /\ files \in Seq(FileState)
  BY DEF Reach, IInv, GoodFiles
<1>3. EntryOf(files, j) \in Entry
  BY <1>2, LiveEntries
<1> QED BY <1>1, <1>3 DEF LinkInv, Whole, Marked

(* didOpen and didChange.                                                  *)
LEMMA StoreLinks ==
  ASSUME NEW A, IInv, LinkInv(A),
         NEW p \in Path, NEW c \in Code, StoreInMemory(p, c)
  PROVE  LinkInv(A)'
<1> DEFINE d  == Holder[p]
           T0 == IF d = Root THEN tree ELSE Listing(tree, d)
           e  == IF T0[p].kind = "file" THEN EntryAt(T0, p) ELSE Fresh(p)
           T1 == [T0 EXCEPT ![p] = FileSlot(e)]
           invs == T0[p].invs \cup (IF d = Root THEN {} ELSE tree[d].invs)
           i  == IF inmem[p] # 0 THEN inmem[p] ELSE entry[e].idx
           O  == Open \cup {p}
           s  == NewState(e, c)
           E0 == IF HitsDb(Reach({i}))
                 THEN [entry EXCEPT ![e].db = TRUE, ![e].invs = {}] ELSE entry
<1>0. /\ p \in Node /\ (d # Root => d \in Dir) /\ p \in Editable
      /\ inmem \in [Path -> 0..MaxFile] /\ GoodFiles(files, entry)
      /\ c # NoCode /\ c \in Code \cup {NoCode}
  BY LayoutAssumption DEF Node, StoreInMemory, IInv, TypeOK
<1>1. /\ Whole(A, T0, files, entry, inmem) /\ Listed(T0) /\ GoodTree(T0)
      /\ d # Root => T0[d].read
  <2>1. CASE d = Root
    BY <2>1 DEF LinkInv, IInv
  <2>2. CASE d # Root
    <3>1. d \in Dir /\ CanList(d) /\ d \in Node /\ d \notin Inside(d)
      BY <2>2, <1>0, LayoutAssumption DEF StoreInMemory, Node, Inside
    <3>2. Listing(tree, d)[d].read
      BY <3>1 DEF Listing, DirSlot
    <3> QED BY <2>2, <3>1, <3>2, ListingWhole
  <2> QED BY <2>1, <2>2
<1>9. \/ /\ i # 0 /\ inmem' = [inmem EXCEPT ![p] = i]
         /\ Finish(T1, files, entry)
      \/ /\ i # 0 /\ inmem' = [inmem EXCEPT ![p] = i]
         /\ Settle(T1, [files EXCEPT ![i] = s], E0, Reach({i} \cup invs), {p}, O)
      \/ /\ i = 0 /\ Len(files) < MaxFile
         /\ inmem' = [inmem EXCEPT ![p] = Len(files) + 1]
         /\ Settle(T1, Append(files, s), [entry EXCEPT ![e].idx = Len(files) + 1],
                   Reach(invs), {p}, O)
  BY DEF StoreInMemory
<1>2. e \in Entry /\ e[1] = p /\ e = <<p, e[2]>>
      /\ (T0[p].kind = "file" => e = EntryAt(T0, p) /\ e[2] = T0[p].gen)
  <2>1. CASE T0[p].kind = "file"
    BY <2>1, <1>1 DEF GoodTree, EntryAt, Entry
  <2>2. CASE T0[p].kind # "file"
    <3>1. Fresh(p) \in Entry /\ Fresh(p)[1] = p
      BY FreshEntry DEF StoreInMemory
    <3> QED BY <2>2, <3>1 DEF Entry
  <2> QED BY <2>1, <2>2
<1>3. inmem[p] # 0 /\ Anchored(A, p) =>
        T0[p].kind = "file" /\ entry[e].idx = inmem[p]
  BY <1>1, <1>2 DEF Whole, Linked, Agrees
<1>4. p = Builtins => T0[p].kind = "file" /\ entry[e].idx # 0
  BY <1>0, <1>1, <1>2, LayoutAssumption DEF Whole, Loaded, Node
<1> HIDE DEF T0, e
<1>5. Anchored(A, p) => entry[e].idx = i
  BY <1>3
<1>6. i # 0 => i \in DOMAIN files /\ files[i].path = p
  BY <1>0, <1>2 DEF IInv, OpenHasState, GoodFiles
<1>7. /\ T1[p].kind = "file" /\ T1[p].gen = e[2] /\ ~T1[p].read
      /\ \A n \in Node : n # p => T1[n] = T0[n]
      /\ EntryAt(T1, p) = e /\ GoodTree(T1)
  <2>1. FileSlot(e) \in Slot /\ FileSlot(e).kind = "file" /\ ~FileSlot(e).read
        /\ FileSlot(e).gen = e[2] /\ e[2] \in 1..MaxGen
    BY <1>2, SlotTypes DEF FileSlot
  <2>2. T1[p] = FileSlot(e) /\ \A n \in Node : n # p => T1[n] = T0[n]
    BY <1>0, <1>1 DEF GoodTree
  <2>3. T1 \in [Node -> Slot]
    BY <1>1, <2>1 DEF GoodTree
  <2>4. \A q \in Path : T1[q].kind = "file" => T1[q].gen \in 1..MaxGen
    BY <1>0, <1>1, <2>1, <2>2 DEF GoodTree, Node
  <2>5. EntryAt(T1, p) = e
    BY <2>1, <2>2, <1>2 DEF EntryAt
  <2> QED BY <2>1, <2>2, <2>3, <2>4, <2>5 DEF GoodTree
<1> HIDE DEF T1
<1>8. Whole(A, T1, files, entry, inmem) /\ Listed(T1)
  <2>1. \A q \in Path : (inmem[q] # 0 /\ Anchored(A, q)) \/ q = Builtins =>
                          T1[q].kind = T0[q].kind /\ T1[q].gen = T0[q].gen
    BY <1>2, <1>3, <1>4, <1>7 DEF Node
  <2>2. Whole(A, T1, files, entry, inmem)
    BY <1>1, <1>7, <2>1, TreeWhole
  <2>3. \A q \in Path : Holder[q] # Root => Holder[q] \in Node /\ Holder[q] # p
    BY LayoutAssumption DEF Node
  <2>4. Listed(T1)
    <3>1. ASSUME NEW q \in Path, T1[q].kind = "file", Holder[q] # Root
          PROVE  T1[Holder[q]].read
      BY <1>1, <1>7, <2>3, <3>1 DEF Listed, Node
    <3>2. ASSUME NEW n \in Node, T1[n].read PROVE T1[n].kind = "dir"
      BY <1>1, <1>7, <3>2 DEF Listed
    <3>3. \A x \in Dir : x \in Node /\ x # p
      BY LayoutAssumption DEF Node
    <3>4. \A x \in Dir : T1[x].kind # "file"
      BY <1>1, <1>7, <3>3 DEF Listed
    <3>5. \A q \in Path : T1[q].kind # "dir"
      <4>1. FileSlot(e).kind # "dir"
        BY DEF FileSlot
      <4> QED BY <4>1, <1>1, <1>7 DEF Listed, Node
    <3> QED BY <3>1, <3>2, <3>4, <3>5 DEF Listed
  <2> QED BY <2>2, <2>4
<1>10. s \in FileState /\ s.path = e[1] /\ s.gen = e[2] /\ s.code = c
  BY <1>0, <1>2, NewStateType DEF NewState
<1> HIDE DEF s, O, invs
<1>11. /\ tree' = T1 /\ Whole(A, tree', files', entry', inmem')
       /\ Freed(tree', files', entry')
  <2>1. CASE /\ i # 0 /\ inmem' = [inmem EXCEPT ![p] = i]
             /\ Finish(T1, files, entry)
    <3> HIDE DEF i
    <3>1. Whole(A, T1, files, entry, inmem')
      BY <2>1, <1>0, <1>5, <1>7, <1>8, OpenWhole
    <3> QED BY <2>1, <3>1, FinishWhole
  <2>2. CASE /\ i # 0 /\ inmem' = [inmem EXCEPT ![p] = i]
             /\ Settle(T1, [files EXCEPT ![i] = s], E0, Reach({i} \cup invs),
                       {p}, O)
    <3> DEFINE F == [files EXCEPT ![i] = s]
    <3>1. Whole(A, T1, F, entry, inmem)
      <4> HIDE DEF i
      <4> QED BY <2>2, <1>0, <1>2, <1>5, <1>6, <1>8, <1>10, ReplaceWhole
    <3> HIDE DEF i, F
    <3>2. Whole(A, T1, F, entry, inmem')
      BY <2>2, <3>1, <1>0, <1>5, <1>7, OpenWhole
    <3>3. Whole(A, T1, F, E0, inmem')
      <4>1. CASE HitsDb(Reach({i}))
        <5>1. Whole(A, T1, F, [entry EXCEPT ![e].db = TRUE, ![e].invs = {}], inmem')
          BY <4>1, <3>2, <1>2, HitsBuiltins, MarkWhole
        <5> QED BY <4>1, <5>1
      <4>2. CASE ~HitsDb(Reach({i}))
        BY <4>2, <3>2
      <4> QED BY <4>1, <4>2
    <3> HIDE DEF E0
    <3> QED BY <2>2, <3>3, SettleWhole DEF F
  <2>3. CASE /\ i = 0 /\ Len(files) < MaxFile
             /\ inmem' = [inmem EXCEPT ![p] = Len(files) + 1]
             /\ Settle(T1, Append(files, s),
                       [entry EXCEPT ![e].idx = Len(files) + 1],
                       Reach(invs), {p}, O)
    <3> DEFINE F == Append(files, s)
               k == Len(files) + 1
               r == [entry[e] EXCEPT !.idx = k]
               H == [entry EXCEPT ![e] = r]
    <3>1. entry[e] \in EntryRecord /\ k \in 0..MaxFile
      BY <2>3, <1>0, <1>2, BoundAssumption, LenProperties DEF GoodFiles
    <3>2. r \in EntryRecord /\ r.idx = k /\ r.db = entry[e].db
      BY <3>1 DEF EntryRecord
    <3>3. Settle(T1, F, H, Reach(invs), {p}, O)
      BY <2>3
    <3>4. entry[e].idx = 0 /\ e[1] # Builtins
      BY <2>3, <1>0, <1>2, <1>4 DEF IInv, TypeOK
    <3> HIDE DEF r, F
    <3>5. Whole(A, T1, F, H, inmem)
      BY <2>3, <3>2, <3>4, <1>2, <1>8, <1>10, AppendWhole DEF F
    <3>6. H[e].idx = k
      BY <3>2, <1>0, <1>2 DEF GoodFiles
    <3> HIDE DEF H, k
    <3>7. inmem' = [inmem EXCEPT ![p] = k]
      BY <2>3 DEF k
    <3>8. Whole(A, T1, F, H, inmem')
      BY <3>5, <3>6, <3>7, <1>0, <1>7, OpenWhole
    <3> QED BY <3>3, <3>8, SettleWhole
  <2> QED BY <1>9, <2>1, <2>2, <2>3
<1>12. OpenEditable'
  BY <1>0, <1>9 DEF LinkInv, OpenEditable
<1> QED BY <1>8, <1>11, <1>12 DEF LinkInv

(* A document is closed.                                                   *)
LEMMA ShutWhole ==
  ASSUME NEW A, NEW T, NEW F, NEW E, NEW I,
         Whole(A, T, F, E, I), NEW p \in Path,
         I \in [Path -> 0..MaxFile]
  PROVE  Whole(A, T, F, E, [I EXCEPT ![p] = 0])
<1>1. Agrees(A, T, E, [I EXCEPT ![p] = 0])
  BY DEF Whole, Linked, Agrees
<1> QED BY <1>1 DEF Whole, Linked

(* didClose.                                                               *)
LEMMA CloseLinks ==
  ASSUME NEW A, IInv, LinkInv(A), NEW p \in Path, Close(p)
  PROVE  LinkInv(A)'
<1> DEFINE i == inmem[p]
           s == [files[i] EXCEPT !.code = disk[p], !.cache = NoCache]
           F == [files EXCEPT ![i] = s]
           T == IF IsFile(tree, p) THEN [tree EXCEPT ![p] = NoSlot] ELSE tree
           O == Open \ {p}
<1>1. i # 0 /\ i \in DOMAIN files /\ files[i].path = p /\ files[i] \in FileState
      /\ inmem' = [inmem EXCEPT ![p] = 0] /\ inmem \in [Path -> 0..MaxFile]
      /\ GoodFiles(files, entry) /\ GoodTree(tree)
  BY DEF Close, IInv, OpenHasState, GoodFiles, TypeOK
<1>2. s \in FileState /\ s.path = files[i].path /\ s.gen = files[i].gen
      /\ s.code = disk[p]
  <2>1. NoCache \in Cache /\ disk[p] \in Code \cup {NoCode}
    BY DEF NoCache, Cache, IInv, TypeOK
  <2> QED BY <1>1, <2>1 DEF FileState
<1>3. \/ UNCHANGED <<tree, entry, files>>
      \/ Settle(tree, F, entry, Reach({i}), {}, O)
      \/ disk[p] = NoCode /\ Settle(T, F, entry, Reach({i}), {}, O)
  <2>1. [files EXCEPT ![i].code = disk[p], ![i].cache = NoCache] = F
    BY <1>1 DEF GoodFiles
  <2> QED BY <2>1 DEF Close
<1> HIDE DEF s
<1>4. /\ GoodFiles(F, entry) /\ DOMAIN F = DOMAIN files
      /\ \A j \in DOMAIN files : F[j] = IF j = i THEN s ELSE files[j]
  BY <1>1, <1>2, ReplaceGood
<1> HIDE DEF F, i, O
<1>5. Whole(A, tree, files, entry, inmem')
  BY <1>1, ShutWhole DEF LinkInv
<1>6. Whole(A, tree, F, entry, inmem')
  <2>1. p = Builtins => disk[p] # NoCode
    BY LayoutAssumption DEF IInv, BuiltinsKnown, Node
  <2>2. \A j \in DOMAIN files : F[j].path = files[j].path /\ F[j].gen = files[j].gen
    BY <1>2, <1>4
  <2>3. ASSUME NEW j \in DOMAIN files, files[j].path = Builtins,
               files[j].code # NoCode
        PROVE  F[j].code # NoCode
    BY <1>1, <1>2, <1>4, <2>1, <2>3
  <2> QED BY <1>4, <1>5, <2>2, <2>3, SameWhole
<1>7. p \in Node /\ NoSlot \in Slot /\ NoSlot.kind \notin {"file", "dir"} /\ ~NoSlot.read
  BY SlotTypes DEF Node, NoSlot
<1>8. GoodTree(T) /\ Listed(T) /\ \A q \in Path : q # p => T[q] = tree[q]
  <2>1. \A q \in Path : q # p => T[q] = tree[q]
    BY <1>1 DEF GoodTree, Node
  <2>2. GoodTree(T)
    BY <1>1, <1>7 DEF GoodTree, Node
  <2>3. \A q \in Path : Holder[q] # Root => Holder[q] \in Node /\ Holder[q] # p
    BY LayoutAssumption DEF Node
  <2>4. Listed(tree)
    BY DEF LinkInv
  <2>5. \A c \in Dir : c \in Node /\ c # p
    BY LayoutAssumption DEF Node
  <2>6. Listed(T)
    BY <1>1, <1>7, <2>3, <2>4, <2>5 DEF Listed, GoodTree, Node
  <2> QED BY <2>1, <2>2, <2>6
<1>9. disk[p] = NoCode => Whole(A, T, F, entry, inmem')
  <2> SUFFICES ASSUME disk[p] = NoCode PROVE Whole(A, T, F, entry, inmem')
    OBVIOUS
  <2>1. p # Builtins
    BY LayoutAssumption DEF IInv, BuiltinsKnown, Node
  <2>2. inmem'[p] = 0 /\ (Builtins # NoPath => Builtins \in Path)
    BY <1>1, LayoutAssumption
  <2>3. Builtins # NoPath => T[Builtins] = tree[Builtins]
    BY <1>8, <2>1, <2>2
  <2>4. \A q \in Path : (inmem'[q] # 0 /\ Anchored(A, q)) \/ q = Builtins =>
                          T[q].kind = tree[q].kind /\ T[q].gen = tree[q].gen
    BY <1>8, <2>1, <2>2
  <2> QED BY <1>6, <1>8, <2>4, TreeWhole
<1> HIDE DEF T
<1>10. Whole(A, tree', files', entry', inmem') /\ Listed(tree')
       /\ Freed(tree', files', entry')
  <2>1. CASE UNCHANGED <<tree, entry, files>>
    BY <2>1, <1>5 DEF LinkInv
  <2>2. CASE Settle(tree, F, entry, Reach({i}), {}, O)
    BY <2>2, <1>6, SettleWhole DEF LinkInv
  <2>3. CASE disk[p] = NoCode /\ Settle(T, F, entry, Reach({i}), {}, O)
    BY <2>3, <1>8, <1>9, SettleWhole
  <2> QED BY <1>3, <2>1, <2>2, <2>3
<1>11. OpenEditable'
  BY <1>1 DEF LinkInv, OpenEditable
<1> QED BY <1>10, <1>11 DEF LinkInv

(* The open documents that a notification takes away are below the         *)
(* directory it is about.                                                  *)
LEMMA HeldInside ==
  ASSUME NEW A, IInv, LinkInv(A),
         NEW n \in Node, ~NothingToDo(n), NEW p \in Held(n)
  PROVE  /\ p \in Path /\ inmem[p] # 0 /\ ~Steady(p)
         /\ n \in Dir /\ tree[n].read /\ p \in Inside(n)
         /\ p \in Walk(n) /\ p # n
<1>1. p \in Path /\ inmem[p] # 0 /\ inmem[p] \in GoneIdxs(n)
  BY DEF Held, Retained, Open
<1>2. PICK q \in Walk(n) : /\ IsFile(tree, q)
                           /\ entry[EntryAt(tree, q)].idx = inmem[p]
  BY <1>1 DEF GoneIdxs
<1>3. q \in Path
  <2>1. q \in Node
    BY <1>2 DEF Walk, Inside, Node
  <2> QED BY <2>1, <1>2 DEF LinkInv, Listed, IsFile, Node
<1>4. EntryAt(tree, q) \in Entry /\ EntryAt(tree, q)[1] = q
  BY <1>2, <1>3, LiveEntries DEF IInv, GoodFiles, IsFile
<1>5. q = p
  BY <1>1, <1>2, <1>4 DEF IInv, GoodFiles, OpenHasState
<1>6. p # n
  BY <1>1 DEF NothingToDo, Irrelevant
<1>7. n \in Dir /\ tree[n].read /\ p \in Inside(n)
  BY <1>2, <1>5, <1>6 DEF Walk
<1>8. ~Steady(p)
  BY <1>1, <1>7, LayoutAssumption DEF LinkInv, OpenEditable, Steady, Inside, Node
<1> QED BY <1>1, <1>2, <1>5, <1>6, <1>7, <1>8

(* What the indexes that go belong to.                                     *)
LEMMA GoneFiles ==
  ASSUME NEW A, IInv, LinkInv(A), NEW n \in Node
  PROVE  /\ \A i \in GoneIdxs(n) : /\ i \in DOMAIN files
                                   /\ files[i].path \in Walk(n)
         /\ \A p \in Path : inmem[p] # 0 /\ Anchored(A, p) /\ p \in Walk(n) =>
                             p \in Held(n)
<1>1. ASSUME NEW i \in GoneIdxs(n)
      PROVE  i \in DOMAIN files /\ files[i].path \in Walk(n)
  <2>1. PICK q \in Walk(n) : IsFile(tree, q) /\ entry[EntryAt(tree, q)].idx = i
    BY <1>1 DEF GoneIdxs
  <2>2. q \in Path /\ i # 0
    <3>1. q \in Node
      BY <2>1 DEF Walk, Inside, Node
    <3> QED BY <3>1, <2>1, <1>1 DEF LinkInv, Listed, IsFile, Node, GoneIdxs
  <2>3. EntryAt(tree, q) \in Entry /\ EntryAt(tree, q)[1] = q
    BY <2>1, <2>2, LiveEntries DEF IInv, GoodFiles, IsFile
  <2> QED BY <2>1, <2>2, <2>3 DEF IInv, GoodFiles
<1>2. ASSUME NEW p \in Path, inmem[p] # 0, Anchored(A, p), p \in Walk(n)
      PROVE  p \in Held(n)
  <2>1. IsFile(tree, p) /\ entry[EntryAt(tree, p)].idx = inmem[p]
    BY <1>2, LayoutAssumption DEF LinkInv, Whole, Linked, Agrees, IsFile, Node
  <2> QED BY <1>2, <2>1 DEF Held, Retained, Open, GoneIdxs
<1> QED BY <1>1, <1>2

(* The tree without what a notification is about.                          *)
LEMMA CutLinks ==
  ASSUME NEW A, IInv, LinkInv(A), NEW n \in Node, ~NothingToDo(n), Replace(n),
         n \in Path => Visible(tree, n)
  PROVE  /\ \A x \in Node : x \notin Walk(n) => Cut(n)[x] = tree[x]
         /\ n \in Walk(n) /\ Cut(n)[n] = NewSlot(n) /\ ~NewSlot(n).read
         /\ \A x \in Walk(n) : x # n => x \in Node /\ Cut(n)[x] = NoSlot
         /\ Listed(Cut(n))
<1>1. /\ \A x \in Node : x \notin Walk(n) => Cut(n)[x] = tree[x]
      /\ n \in Walk(n) /\ Cut(n)[n] = NewSlot(n)
      /\ \A x \in Walk(n) : x # n => x \in Path /\ x \in Node /\ Cut(n)[x] = NoSlot
  BY DEF Walk, Cut, Inside, Node
<1>2. ~NewSlot(n).read /\ (n \in Dir => NewSlot(n).kind # "file")
  BY DEF NewSlot, NoSlot, DirSlot, FileSlot
<1>3. ~NoSlot.read /\ NoSlot.kind # "file"
  BY DEF NoSlot
<1>4. ASSUME NEW p \in Path, Cut(n)[p].kind = "file", Holder[p] # Root
      PROVE  Cut(n)[Holder[p]].read
  <2>1. /\ Holder[p] \in Dir /\ Holder[p] \in Node /\ Holder[p] \notin Path
        /\ p \in Node /\ p \notin Dir
    BY <1>4, LayoutAssumption DEF Node
  <2>2. CASE p = n
    <3>1. tree[Holder[p]].read
      BY <2>1, <2>2, <1>4 DEF Visible
    <3>2. Holder[p] \notin Walk(n)
      BY <1>1, <2>1, <2>2
    <3> QED BY <3>1, <3>2, <2>1, <1>1
  <2>3. CASE p # n
    <3>1. p \notin Walk(n) /\ tree[p].kind = "file"
      BY <2>1, <2>3, <1>1, <1>3, <1>4
    <3>2. tree[Holder[p]].read
      BY <3>1, <1>4 DEF LinkInv, Listed
    <3>3. Holder[p] # n
      BY <3>1, <3>2, <2>1 DEF Walk, Inside
    <3>4. Holder[p] \notin Walk(n)
      BY <3>3, <2>1, <1>1
    <3> QED BY <3>2, <3>4, <2>1, <1>1
  <2> QED BY <2>2, <2>3
<1>5. ASSUME NEW x \in Node, Cut(n)[x].read PROVE Cut(n)[x].kind = "dir"
  BY <1>1, <1>2, <1>3, <1>5 DEF LinkInv, Listed
<1>6. ASSUME NEW c \in Dir PROVE Cut(n)[c].kind # "file"
  BY <1>1, <1>2, <1>3, LayoutAssumption DEF LinkInv, Listed, Node
<1>7. ASSUME NEW p \in Path PROVE Cut(n)[p].kind # "dir"
  <2>1. p \in Node /\ p \notin Dir
    BY LayoutAssumption DEF Node
  <2>2. p = n => NewSlot(n).kind # "dir"
    BY <2>1 DEF NewSlot, NoSlot, FileSlot
  <2> QED BY <2>1, <2>2, <1>1 DEF LinkInv, Listed, NoSlot
<1> QED BY <1>1, <1>2, <1>4, <1>5, <1>6, <1>7 DEF Listed

(* The tree with the open documents put back.                              *)
LEMMA RestoredLinks ==
  ASSUME NEW A, IInv, LinkInv(A), NEW n \in Node, ~NothingToDo(n), Replace(n),
         n \in Path => Visible(tree, n)
  PROVE  /\ \A x \in Node : x \notin Walk(n) => Restored(n)[x] = tree[x]
         /\ \A x \in Held(n) : /\ Restored(n)[x] = FileSlot(Fresh(x))
                                /\ Fresh(x) \in Entry /\ Fresh(x)[1] = x
                                /\ Fresh(x) \notin Live(tree, files)
                                /\ EntryAt(Restored(n), x) = Fresh(x)
         /\ Listed(Restored(n))
<1>1. /\ \A x \in Node : x \notin Walk(n) => Cut(n)[x] = tree[x]
      /\ n \in Walk(n) /\ Cut(n)[n] = NewSlot(n) /\ ~NewSlot(n).read
      /\ \A x \in Walk(n) : x # n => x \in Node /\ Cut(n)[x] = NoSlot
      /\ Listed(Cut(n)) /\ GoodTree(Cut(n))
  BY CutLinks, ReplaceParts
<1>2. /\ \A p \in Held(n) : HasFresh(p)
      /\ Held(n) # {} => CanList(n)
  BY ReplaceForm
<1>3. \A x \in Held(n) : /\ Fresh(x) \in Entry /\ Fresh(x)[1] = x
                          /\ Fresh(x) \notin Live(tree, files)
                          /\ Fresh(x) = <<x, Fresh(x)[2]>>
  <2> SUFFICES ASSUME NEW x \in Held(n)
               PROVE  /\ Fresh(x) \in Entry /\ Fresh(x)[1] = x
                      /\ Fresh(x) \notin Live(tree, files)
                      /\ Fresh(x) = <<x, Fresh(x)[2]>>
    OBVIOUS
  <2>1. x \in Path /\ HasFresh(x)
    BY <1>2, HeldInside
  <2>2. Fresh(x) \in Unused(x)
    BY <2>1 DEF HasFresh, Fresh
  <2> QED BY <2>1, <2>2 DEF Unused, Entry
<1>4. /\ NoSlot.kind # "file" /\ \A e : FileSlot(e).kind = "file"
      /\ \A e : FileSlot(e).gen = e[2]
  BY DEF NoSlot, FileSlot
<1>5. CASE Held(n) = {}
  <2>1. Restored(n) = Cut(n)
    BY <1>5, <1>1 DEF Restored, Relisted, GoodTree
  <2> QED BY <2>1, <1>5, <1>1
<1>6. CASE Held(n) # {}
  <2>1. /\ n \in Dir /\ tree[n].read /\ CanList(n)
        /\ \A x \in Held(n) : x \in Path /\ x \in Node /\ x \in Inside(n)
                               /\ x \in Walk(n) /\ x # n
    BY <1>6, <1>2, HeldInside DEF Node
  <2>2. Inside(n) \subseteq Walk(n)
    BY <2>1 DEF Walk
  <2>3. Relisted(n) = Listing(Cut(n), n)
    BY <1>6, <2>1 DEF Relisted
  <2>4. Listed(Relisted(n))
    BY <1>1, <2>1, <2>3, ListingLinks
  <2>5. \A x \in Node : x \notin Walk(n) => Relisted(n)[x] = tree[x]
    BY <1>1, <2>1, <2>2, <2>3, ListingGood
  <2>6. \A x \in Held(n) : Relisted(n)[x] \in {NoSlot, FileSlot(Fresh(x))}
    BY <1>1, <2>1, <2>3 DEF Listing
  <2>7. \A x \in Held(n) : Restored(n)[x] = FileSlot(Fresh(x))
    BY <2>1, <2>6, <1>4 DEF Restored
  <2>8. \A x \in Held(n) : EntryAt(Restored(n), x) = Fresh(x)
    BY <2>7, <1>3, <1>4 DEF EntryAt
  <2>9. \A x \in Node : x \notin Held(n) => Restored(n)[x] = Relisted(n)[x]
    BY DEF Restored
  <2>10. \A x \in Node : x \notin Walk(n) => Restored(n)[x] = tree[x]
    BY <2>1, <2>5, <2>9
  <2>11. Listed(Restored(n))
    <3>1. \A d \in Dir : d \in Node /\ d \notin Path
      BY LayoutAssumption DEF Node
    <3>2. \A d \in Dir : Restored(n)[d] = Relisted(n)[d]
      BY <3>1, <2>1, <2>9
    <3>3. Relisted(n)[n].read
      BY <3>1, <2>1, <2>3, LayoutAssumption DEF Listing, DirSlot, Inside, Node
    <3>4. ASSUME NEW p \in Path, Restored(n)[p].kind = "file", Holder[p] # Root
          PROVE  Restored(n)[Holder[p]].read
      <4>1. Holder[p] \in Dir
        BY <3>4, LayoutAssumption
      <4>2. CASE p \in Held(n)
        BY <4>1, <4>2, <3>2, <3>3, <2>1 DEF Inside
      <4>3. CASE p \notin Held(n)
        BY <4>1, <4>3, <3>2, <3>4, <2>4, <2>9 DEF Listed, Node
      <4> QED BY <4>2, <4>3
    <3>5. \A e : ~FileSlot(e).read
      BY DEF FileSlot
    <3>6. \A x \in Node : Restored(n)[x].read => Restored(n)[x].kind = "dir"
      BY <2>4, <2>7, <2>9, <3>5 DEF Listed
    <3>7. \A d \in Dir : Restored(n)[d].kind # "file"
      BY <2>4, <3>2 DEF Listed
    <3>8. \A p \in Path : Restored(n)[p].kind # "dir"
      <4>1. \A e : FileSlot(e).kind # "dir"
        BY DEF FileSlot
      <4> QED BY <4>1, <2>4, <2>7, <2>9 DEF Listed, Node
    <3> QED BY <3>4, <3>6, <3>7, <3>8 DEF Listed
  <2> QED BY <1>3, <2>7, <2>8, <2>10, <2>11
<1> QED BY <1>5, <1>6

(* Replacing an entry of the tree after a notification.                    *)
LEMMA ReplaceEntryLinks ==
  ASSUME NEW A, IInv, LinkInv(A), NEW n \in Node, ~NothingToDo(n), Replace(n),
         n \in Path => Visible(tree, n),
         n \in Dir /\ HitsDb(Reach(Start(n))) => A = {}
  PROVE  /\ Whole(A, tree', files', entry', inmem)
         /\ Freed(tree', files', entry') /\ Listed(tree')
<1> DEFINE G(U) == Unload(files, U)
<1>1. /\ Whole(A, tree, files, entry, inmem) /\ GoodTree(tree)
      /\ GoodFiles(files, entry) /\ files \in Seq(FileState)
      /\ disk \in [Path -> Code \cup {NoCode}]
      /\ Builtins # NoPath => disk[Builtins] # NoCode
  BY DEF LinkInv, IInv, GoodFiles, TypeOK, BuiltinsKnown
<1>2. ASSUME NEW U \in SUBSET Loose(n)
      PROVE  /\ GoodFiles(G(U), entry) /\ DOMAIN G(U) = DOMAIN files
             /\ \A j \in DOMAIN files :
                  /\ G(U)[j].path = files[j].path /\ G(U)[j].gen = files[j].gen
                  /\ EntryOf(G(U), j) = EntryOf(files, j)
                  /\ j \notin U => G(U)[j].code = files[j].code
  <2>1. \A j \in DOMAIN files : files[j] \in FileState
    BY <1>1
  <2>2. \A j \in DOMAIN files :
          /\ G(U)[j].path = files[j].path /\ G(U)[j].gen = files[j].gen
          /\ j \notin U => G(U)[j].code = files[j].code
    BY <2>1 DEF Unload, FileState
  <2> QED BY <2>2, ReplaceParts DEF EntryOf
<1>3. ASSUME ~HitsDb(Reach(Start(n))),
             Settle(Restored(n), G(Loose(n)), Relinked(n), Reach(Start(n)),
                    Held(n), Open)
      PROVE  /\ Whole(A, tree', files', entry', inmem)
             /\ Freed(tree', files', entry') /\ Listed(tree')
  <2>1. /\ \A x \in Node : x \notin Walk(n) => Restored(n)[x] = tree[x]
        /\ \A x \in Held(n) : /\ Restored(n)[x] = FileSlot(Fresh(x))
                               /\ Fresh(x) \in Entry /\ Fresh(x)[1] = x
                               /\ Fresh(x) \notin Live(tree, files)
                               /\ EntryAt(Restored(n), x) = Fresh(x)
        /\ Listed(Restored(n)) /\ GoodTree(Restored(n))
        /\ GoodFiles(G(Loose(n)), Relinked(n))
    BY RestoredLinks, ReplaceParts
  <2>2. \A x \in Held(n) : x \in Path /\ inmem[x] # 0 /\ ~Steady(x)
    BY HeldInside
  <2>3. \A e \in Entry : e[1] \notin Held(n) => Relinked(n)[e] = entry[e]
    BY DEF Relinked
  <2>4. \A x \in Held(n) : Relinked(n)[Fresh(x)].idx = inmem[x]
    <3> SUFFICES ASSUME NEW x \in Held(n)
                 PROVE  Relinked(n)[Fresh(x)].idx = inmem[x]
      OBVIOUS
    <3>1. Relinked(n)[Fresh(x)] = [entry[Fresh(x)] EXCEPT !.idx = inmem[x]]
      BY <2>1 DEF Relinked
    <3>2. entry[Fresh(x)] \in EntryRecord
      BY <1>1, <2>1 DEF GoodFiles
    <3> QED BY <3>1, <3>2 DEF EntryRecord
  <2>5. PointsBack(A, G(Loose(n)), Relinked(n))
    <3> SUFFICES ASSUME NEW i \in DOMAIN files, Anchored(A, files[i].path)
                 PROVE  Relinked(n)[EntryOf(files, i)].idx = i
      BY <1>2 DEF PointsBack
    <3>1. /\ EntryOf(files, i) \in Entry /\ EntryOf(files, i) \in Live(tree, files)
          /\ EntryOf(files, i)[1] = files[i].path
      BY <1>1, LiveEntries
    <3>2. entry[EntryOf(files, i)].idx = i
      BY <1>1 DEF Whole, Linked, PointsBack
    <3>3. Relinked(n)[EntryOf(files, i)] = entry[EntryOf(files, i)]
      BY <3>1, <2>1 DEF Relinked
    <3> QED BY <3>2, <3>3
  <2>6. Exact(G(Loose(n)), Relinked(n))
    <3> SUFFICES ASSUME NEW e \in Entry, Steady(e[1]), Relinked(n)[e].idx # 0
                 PROVE  G(Loose(n))[Relinked(n)[e].idx].gen = e[2]
      BY DEF Exact
    <3>1. Relinked(n)[e] = entry[e]
      BY <2>2, <2>3
    <3>2. entry[e].idx \in DOMAIN files /\ files[entry[e].idx].gen = e[2]
      BY <3>1, <1>1 DEF Whole, Linked, Exact, GoodFiles
    <3> QED BY <3>1, <3>2, <1>2
  <2>7. Agrees(A, Restored(n), Relinked(n), inmem)
    <3> SUFFICES ASSUME NEW p \in Path, inmem[p] # 0, Anchored(A, p)
                 PROVE  /\ Restored(n)[p].kind = "file"
                        /\ Relinked(n)[EntryAt(Restored(n), p)].idx = inmem[p]
      BY DEF Agrees
    <3>1. CASE p \in Held(n)
      <4>1. FileSlot(Fresh(p)).kind = "file"
        BY DEF FileSlot
      <4> QED BY <4>1, <3>1, <2>1, <2>4
    <3>2. CASE p \notin Held(n)
      <4>1. Restored(n)[p] = tree[p]
        BY <3>2, <2>1, GoneFiles DEF Node
      <4>2. tree[p].kind = "file" /\ entry[EntryAt(tree, p)].idx = inmem[p]
        BY <1>1 DEF Whole, Linked, Agrees
      <4>3. EntryAt(Restored(n), p) = EntryAt(tree, p)
            /\ EntryAt(tree, p) \in Entry /\ EntryAt(tree, p)[1] = p
        BY <4>1, <4>2, <1>1, LiveEntries DEF EntryAt
      <4> QED BY <4>1, <4>2, <4>3, <3>2, <2>3
    <3> QED BY <3>1, <3>2
  <2>8. Linked(A, Restored(n), G(Loose(n)), Relinked(n), inmem)
    BY <2>1, <2>5, <2>6, <2>7 DEF Linked
  <2>9. \A e \in Entry : Relinked(n)[e].db = entry[e].db
    <3>1. \A e \in Entry : entry[e] \in EntryRecord
      BY <1>1 DEF GoodFiles
    <3> QED BY <3>1 DEF Relinked, EntryRecord
  <2>10. Marked(Relinked(n))
    <3>1. Builtins \notin Held(n)
      BY <2>2, LayoutAssumption DEF Steady, Node
    <3> QED BY <3>1, <1>1, <2>3, <2>9 DEF Whole, Marked
  <2>11. Loaded(Restored(n), G(Loose(n)), Relinked(n))
    <3> SUFFICES ASSUME Builtins # NoPath
                 PROVE  LET e == EntryAt(Restored(n), Builtins)
                        IN  /\ Restored(n)[Builtins].kind = "file"
                            /\ Relinked(n)[e].idx # 0
                            /\ G(Loose(n))[Relinked(n)[e].idx].code # NoCode
      BY DEF Loaded
    <3> DEFINE e == EntryAt(tree, Builtins)
               i == entry[e].idx
    <3>1. /\ Builtins \in Path /\ Builtins \in Node /\ Steady(Builtins)
          /\ tree[Builtins].kind = "file" /\ i # 0 /\ files[i].code # NoCode
      BY <1>1, LayoutAssumption DEF Whole, Loaded, Steady, Node
    <3>2. e \in Entry /\ e[1] = Builtins /\ e = <<Builtins, e[2]>>
      BY <1>1, <3>1, LiveEntries DEF EntryAt
    <3>3. i \in DOMAIN files /\ files[i].path = Builtins /\ files[i].gen = e[2]
      BY <1>1, <3>1, <3>2 DEF GoodFiles, Whole, Linked, Exact
    <3>4. EntryOf(files, i) = e /\ entry[e].db
      BY <1>1, <3>1, <3>2, <3>3 DEF EntryOf, Whole, Marked
    <3>5. Builtins \notin Walk(n)
      <4> SUFFICES ASSUME Builtins \in Walk(n) PROVE FALSE
        OBVIOUS
      <4>1. i \in GoneIdxs(n)
        BY <3>1, LayoutAssumption DEF GoneIdxs, IsFile, Node
      <4>2. i \in Start(n)
        BY <4>1 DEF Start, Loose
      <4>3. i \in Reach(Start(n))
        BY <4>2, <3>3 DEF Reach
      <4> QED BY <4>3, <3>4, <1>3 DEF HitsDb
    <3>6. Restored(n)[Builtins] = tree[Builtins]
      BY <3>1, <3>5, <2>1
    <3>7. EntryAt(Restored(n), Builtins) = e
      BY <3>6 DEF EntryAt
    <3>8. Builtins \notin Held(n)
      BY <2>2, <3>1
    <3>9. Relinked(n)[e] = entry[e]
      BY <3>2, <3>8, <2>3
    <3>10. i \notin Loose(n)
      BY <3>3, <3>5, GoneFiles DEF Loose
    <3> QED BY <3>1, <3>3, <3>6, <3>7, <3>9, <3>10, <1>2
  <2>12. Whole(A, Restored(n), G(Loose(n)), Relinked(n), inmem)
    BY <2>8, <2>10, <2>11 DEF Whole
  <2> QED BY <1>3, <2>1, <2>12, SettleWhole
<1>4. ASSUME NEW U \in SUBSET Loose(n), HitsDb(Reach(Start(n))),
             Settle(Cut(n), G(U), entry, Reach(Start(n)), {}, Open)
      PROVE  /\ Whole(A, tree', files', entry', inmem)
             /\ Freed(tree', files', entry') /\ Listed(tree')
  <2>1. Builtins # NoPath
    BY <1>4, HitsBuiltins
  <2>2. Linked(A, tree, G(U), entry, inmem)
    BY <1>1, <1>2, SameLinks DEF Whole
  <2>3. /\ GoodTree(Cut(n)) /\ Cut(n)[Builtins].kind = "file" /\ Listed(Cut(n))
        /\ \A x \in Node : x \notin Walk(n) => Cut(n)[x] = tree[x]
    BY <2>1, CutLinks, ReplaceParts
  <2>4. \A p \in Path : inmem[p] # 0 /\ Anchored(A, p) => p \notin Walk(n)
    <3> SUFFICES ASSUME NEW p \in Path, inmem[p] # 0, Anchored(A, p),
                        p \in Walk(n)
                 PROVE  FALSE
      OBVIOUS
    <3>1. p \in Held(n)
      BY GoneFiles
    <3>2. n \in Dir /\ ~Steady(p)
      BY <3>1, HeldInside
    <3> QED BY <1>4, <3>2 DEF Anchored
  <2>5. Linked(A, Cut(n), G(U), entry, inmem)
    <3> HIDE DEF G
    <3> QED BY <2>2, <2>3, <2>4, TreeLinks DEF Node
  <2> HIDE DEF G
  <2>6. Marked(entry)
    BY <1>1 DEF Whole
  <2> QED BY <1>1, <1>4, <2>3, <2>5, <2>6, SettleLinks DEF Whole
<1> QED BY <1>3, <1>4, ReplaceForm

(* Handling one notification.                                              *)
LEMMA NotifyLinks ==
  ASSUME NEW A, IInv, LinkInv(A), Notify,
         \A n \in Dir : HitsDb(Reach(Start(n))) => A = {}
  PROVE  LinkInv(A)'
<1>1. Head(queue) \in Node /\ inmem' = inmem
  BY NotifyCases
<1>2. CASE UNCHANGED <<tree, entry, files>>
  BY <1>1, <1>2 DEF LinkInv, OpenEditable
<1>3. CASE /\ ~NothingToDo(Head(queue)) /\ Replace(Head(queue))
           /\ Head(queue) \in Path => Visible(tree, Head(queue))
  BY <1>1, <1>3, ReplaceEntryLinks DEF LinkInv, OpenEditable
<1>4. CASE Holder[Head(queue)] \in Dir /\ Enter(Holder[Head(queue)])
  BY <1>1, <1>4, EnterLinks
<1> QED BY <1>2, <1>3, <1>4, NotifyCases

(* Every kept file state is found under its path after a recovery.         *)
LEMMA PlaceUnique ==
  ASSUME IInv, NEW o \in Orders, NEW k \in DOMAIN o
  PROVE  /\ k # 0 /\ files[o[k]].path \in Path
         /\ Place(o, files[o[k]].path) = k
<1>1. PICK n \in 0..Len(files) :
        /\ o \in [1..n -> DOMAIN files]
        /\ \A j \in 1..n : Kept(o[j])
        /\ \A i, j \in 1..n : i < j => o[i] < o[j]
  BY DEF Orders
<1>2. /\ DOMAIN o = 1..n /\ n \in Nat /\ DOMAIN files \subseteq Nat \ {0}
      /\ \A j \in 1..n : o[j] \in DOMAIN files /\ files[o[j]] \in FileState
  BY <1>1, LenProperties DEF IInv, GoodFiles
<1>3. \A i, j \in 1..n : i < j => files[o[i]].path # files[o[j]].path
  <2> SUFFICES ASSUME NEW i \in 1..n, NEW j \in 1..n, i < j,
                      files[o[i]].path = files[o[j]].path
               PROVE  FALSE
    OBVIOUS
  <2>1. o[i] < o[j] /\ o[i] \in Nat \ {0} /\ o[j] \in Nat
    BY <1>1, <1>2
  <2>2. o[i] \in 1..(o[j] - 1)
    BY <2>1
  <2>3. files[o[i]].code = NoCode
    BY <2>2, <1>1 DEF Kept
  <2> QED BY <2>3, <1>1 DEF Kept
<1>4. \A j \in 1..n : files[o[j]].path = files[o[k]].path => j = k
  BY <1>2, <1>3
<1>5. k # 0 /\ files[o[k]].path \in Path
  BY <1>2 DEF FileState
<1>6. Place(o, files[o[k]].path) # 0
  BY <1>2, <1>4 DEF Place
<1>7. Place(o, files[o[k]].path) \in 1..n
      /\ files[o[Place(o, files[o[k]].path)]].path = files[o[k]].path
  BY <1>2, <1>6, PlaceGood
<1> QED BY <1>4, <1>5, <1>7

(* A panic, or a change that reindexes the project.                        *)
LEMMA RecoverLinks ==
  ASSUME NEW A, IInv, LinkInv(A), Recover
  PROVE  LinkInv(A)'
<1>1. PICK o \in Orders : /\ Regenerate(Rebuilt(o), Saved(o), Reentered(o))
                          /\ inmem' = Reopened(o)
  BY RecoverForm
<1>2. /\ GoodTree(Rebuilt(o)) /\ GoodFiles(Saved(o), Reentered(o))
      /\ DOMAIN Saved(o) = DOMAIN o
      /\ \A k \in DOMAIN o :
           /\ o[k] \in DOMAIN files
           /\ Saved(o)[k].path = files[o[k]].path /\ Saved(o)[k].gen = 1
           /\ EntryOf(Saved(o), k) = <<files[o[k]].path, 1>>
  <2>0. \A k \in DOMAIN o :
          /\ o[k] \in DOMAIN files
          /\ Saved(o)[k] = NewState(<<files[o[k]].path, 1>>, files[o[k]].code)
    BY RecoverParts
  <2>1. \A k \in DOMAIN o :
          Saved(o)[k].path = files[o[k]].path /\ Saved(o)[k].gen = 1
    <3> SUFFICES ASSUME NEW k \in DOMAIN o
                 PROVE  Saved(o)[k].path = files[o[k]].path /\ Saved(o)[k].gen = 1
      OBVIOUS
    <3>1. Saved(o)[k] = NewState(<<files[o[k]].path, 1>>, files[o[k]].code)
      BY <2>0
    <3>2. /\ NewState(<<files[o[k]].path, 1>>, files[o[k]].code).path = files[o[k]].path
          /\ NewState(<<files[o[k]].path, 1>>, files[o[k]].code).gen = 1
      BY DEF NewState
    <3> QED BY <3>1, <3>2
  <2> QED BY <2>0, <2>1, RecoverParts DEF EntryOf
<1>3. \A k \in DOMAIN o : k # 0 /\ files[o[k]].path \in Path
                             /\ Place(o, files[o[k]].path) = k
  BY PlaceUnique
<1>4. \A p : Place(o, p) # 0 => Place(o, p) \in DOMAIN o
                                  /\ files[o[Place(o, p)]].path = p
  BY PlaceGood
<1>5. /\ 1 \in 1..MaxGen /\ \A p \in Path : <<p, 1>> \in Entry
      /\ BlankEntry.idx = 0 /\ ~BlankEntry.db
  BY BoundAssumption DEF Entry, BlankEntry
<1>6. \A e \in Entry :
        /\ e[2] = 1 /\ Place(o, e[1]) # 0 =>
             /\ Reentered(o)[e].idx = Place(o, e[1])
             /\ Reentered(o)[e].db = entry[EntryOf(files, o[Place(o, e[1])])].db
        /\ ~(e[2] = 1 /\ Place(o, e[1]) # 0) => Reentered(o)[e] = BlankEntry
  BY DEF Reentered
<1>7. PointsBack(A, Saved(o), Reentered(o))
  <2> SUFFICES ASSUME NEW k \in DOMAIN o
               PROVE  Reentered(o)[EntryOf(Saved(o), k)].idx = k
    BY <1>2 DEF PointsBack
  <2>1. EntryOf(Saved(o), k) \in Entry /\ EntryOf(Saved(o), k)[2] = 1
        /\ Place(o, EntryOf(Saved(o), k)[1]) = k /\ k # 0
    BY <1>2, <1>3, <1>5
  <2> QED BY <2>1, <1>6
<1>8. Exact(Saved(o), Reentered(o))
  <2> SUFFICES ASSUME NEW e \in Entry, Reentered(o)[e].idx # 0
               PROVE  Saved(o)[Reentered(o)[e].idx].gen = e[2]
    BY DEF Exact
  <2>1. e[2] = 1 /\ Place(o, e[1]) # 0
    BY <1>5, <1>6
  <2> QED BY <2>1, <1>2, <1>4, <1>6
<1>9. Agrees(A, Rebuilt(o), Reentered(o), Reopened(o))
  <2> SUFFICES ASSUME NEW p \in Path, Reopened(o)[p] # 0
               PROVE  /\ Rebuilt(o)[p].kind = "file"
                      /\ Reentered(o)[EntryAt(Rebuilt(o), p)].idx = Reopened(o)[p]
    BY DEF Agrees
  <2>1. Reopened(o)[p] = Place(o, p) /\ Place(o, p) # 0
    BY DEF Reopened
  <2>2. p \notin Dir /\ p \in Node
    BY LayoutAssumption DEF Node
  <2>3. Rebuilt(o)[p] = FileSlot(<<p, 1>>)
    BY <2>1, <2>2 DEF Rebuilt
  <2>4. FileSlot(<<p, 1>>).kind = "file" /\ FileSlot(<<p, 1>>).gen = 1
    BY DEF FileSlot
  <2>5. EntryAt(Rebuilt(o), p) = <<p, 1>>
    BY <2>3, <2>4 DEF EntryAt
  <2>6. <<p, 1>> \in Entry /\ <<p, 1>>[1] = p /\ <<p, 1>>[2] = 1
    BY <1>5
  <2>7. Reentered(o)[<<p, 1>>].idx = Place(o, p)
    BY <2>1, <2>6, <1>6
  <2> QED BY <2>1, <2>3, <2>4, <2>5, <2>7
<1>10. Marked(Reentered(o))
  <2> SUFFICES ASSUME NEW e \in Entry
               PROVE  /\ Reentered(o)[e].db => Builtins # NoPath
                      /\ e[1] = Builtins /\ Reentered(o)[e].idx # 0 =>
                           Reentered(o)[e].db
    BY DEF Marked
  <2>1. CASE ~(e[2] = 1 /\ Place(o, e[1]) # 0)
    BY <2>1, <1>5, <1>6
  <2>2. CASE e[2] = 1 /\ Place(o, e[1]) # 0
    <3> DEFINE i == o[Place(o, e[1])]
               x == EntryOf(files, i)
    <3>1. i \in DOMAIN files /\ files[i].path = e[1] /\ i # 0
      BY <2>2, <1>2, <1>4, LenProperties DEF IInv, GoodFiles
    <3>2. x \in Entry /\ x[1] = e[1]
      BY <3>1, LiveEntries DEF IInv, GoodFiles
    <3>3. Reentered(o)[e].db = entry[x].db
      BY <2>2, <1>6
    <3>4. Marked(entry) /\ PointsBack(A, files, entry)
      BY DEF LinkInv, Whole, Linked
    <3>5. e[1] = Builtins => Anchored(A, e[1])
      BY <3>2, LayoutAssumption DEF Anchored, Steady, Entry, Node
    <3>6. e[1] = Builtins => entry[x].idx # 0
      BY <3>1, <3>4, <3>5 DEF PointsBack
    <3> QED BY <3>2, <3>3, <3>4, <3>6 DEF Marked
  <2> QED BY <2>1, <2>2
<1>11. Linked(A, Rebuilt(o), Saved(o), Reentered(o), inmem')
  BY <1>1, <1>2, <1>7, <1>8, <1>9 DEF Linked
<1>12. /\ tree' = Rebuilt(o) /\ Whole(A, tree', files', entry', inmem')
       /\ Freed(tree', files', entry')
  <2>1. /\ disk \in [Path -> Code \cup {NoCode}]
        /\ Builtins # NoPath => /\ disk[Builtins] # NoCode
                                /\ Rebuilt(o)[Builtins].kind = "file"
    BY RecoverParts DEF IInv, TypeOK, BuiltinsKnown
  <2> QED BY <1>1, <1>10, <1>11, <2>1, RegenerateLinks DEF Whole
<1>13. Listed(Rebuilt(o))
  <2>1. \A p \in Path : p \in Node /\ p \notin Dir
    BY LayoutAssumption DEF Node
  <2>2. \A d \in Dir : d \in Node
    BY DEF Node
  <2>3. /\ \A r : DirSlot(r).kind = "dir" /\ DirSlot(r).read = r
        /\ ~NoSlot.read /\ NoSlot.kind \notin {"file", "dir"}
        /\ \A e : ~FileSlot(e).read /\ FileSlot(e).kind # "dir"
    BY DEF DirSlot, NoSlot, FileSlot
  <2>4. ASSUME NEW p \in Path, Rebuilt(o)[p].kind = "file", Holder[p] # Root
        PROVE  Rebuilt(o)[Holder[p]].read
    <3>1. Holder[p] \in Dir
      BY <2>4, LayoutAssumption
    <3>2. Place(o, p) # 0 \/ Holder[p] \in Walked(o)
      BY <2>1, <2>3, <2>4 DEF Rebuilt
    <3>3. Holder[p] \in Walked(o)
      BY <3>1, <3>2 DEF Walked, Inside
    <3> QED BY <3>1, <3>3, <2>2, <2>3 DEF Rebuilt
  <2>5. \A n \in Node : Rebuilt(o)[n].read => Rebuilt(o)[n].kind = "dir"
    BY <2>3 DEF Rebuilt
  <2>6. \A d \in Dir : Rebuilt(o)[d].kind # "file"
    BY <2>2, <2>3 DEF Rebuilt
  <2>7. \A p \in Path : Rebuilt(o)[p].kind # "dir"
    BY <2>1, <2>3 DEF Rebuilt
  <2> QED BY <2>4, <2>5, <2>6, <2>7 DEF Listed
<1>14. OpenEditable'
  BY <1>1 DEF LinkInv, OpenEditable, Reopened, Open
<1> QED BY <1>12, <1>13, <1>14 DEF LinkInv

(* The initial states.                                                     *)
LEMMA InitLinks ==
  ASSUME NEW A, Init
  PROVE  LinkInv(A)
<1>1. IInv
  BY InitGood
<1>2. /\ tree = [n \in Node |->
               IF n \in Dir THEN IF n \in dirs THEN DirSlot(FALSE) ELSE NoSlot
               ELSE IF Holder[n] = Root /\ disk[n] # NoCode
               THEN FileSlot(<<n, 1>>) ELSE NoSlot]
      /\ files = IF Builtins = NoPath THEN <<>>
                 ELSE <<NewState(<<Builtins, 1>>, disk[Builtins])>>
      /\ entry = [e \in Entry |->
                IF e = <<Builtins, 1>>
                THEN [idx |-> 1, invs |-> {}, db |-> TRUE] ELSE BlankEntry]
      /\ inmem = [p \in Path |-> 0]
  BY DEF Init
<1>3. /\ \A p \in Path : p \in Node /\ p \notin Dir /\ <<p, 1>> \in Entry
      /\ \A d \in Dir : d \in Node
      /\ NoPath \notin Path
  BY LayoutAssumption, BoundAssumption DEF Node, Entry
<1>4. /\ \A r : DirSlot(r).kind = "dir" /\ DirSlot(r).read = r
      /\ ~NoSlot.read /\ NoSlot.kind \notin {"file", "dir"}
      /\ \A e : ~FileSlot(e).read /\ FileSlot(e).kind = "file"
                                  /\ FileSlot(e).gen = e[2]
      /\ BlankEntry.idx = 0 /\ ~BlankEntry.db
  BY DEF DirSlot, NoSlot, FileSlot, BlankEntry
<1>5. Listed(tree)
  BY <1>2, <1>3, <1>4 DEF Listed
<1>6. CASE Builtins = NoPath
  <2>1. files = <<>> /\ DOMAIN files = {}
    BY <1>2, <1>6
  <2>2. \A e \in Entry : entry[e] = BlankEntry
    BY <1>2, <1>3, <1>6 DEF Entry
  <2>3. PointsBack(A, files, entry) /\ Exact(files, entry)
    BY <2>1, <2>2, <1>4 DEF PointsBack, Exact
  <2>4. Marked(entry) /\ Loaded(tree, files, entry)
    BY <2>2, <1>4, <1>6 DEF Marked, Loaded
  <2>5. Freed(tree, files, entry)
    BY <2>2, <1>4 DEF Freed
  <2>6. Agrees(A, tree, entry, inmem) /\ OpenEditable
    BY <1>2 DEF Agrees, OpenEditable
  <2> QED BY <1>1, <1>5, <2>3, <2>4, <2>5, <2>6 DEF LinkInv, Whole, Linked, IInv
<1>7. CASE Builtins # NoPath
  <2> DEFINE b == <<Builtins, 1>>
             s == NewState(b, disk[Builtins])
             r == [idx |-> 1, invs |-> {}, db |-> TRUE]
  <2>1. /\ Builtins \in Path /\ Holder[Builtins] = Root
        /\ disk[Builtins] # NoCode /\ disk[Builtins] \in Code \cup {NoCode}
        /\ b \in Entry
    BY <1>1, <1>3, <1>7, LayoutAssumption DEF IInv, BuiltinsKnown, TypeOK
  <2>2. /\ s.path = Builtins /\ s.gen = 1 /\ s.code # NoCode /\ s \in FileState
    BY <2>1, NewStateType DEF NewState
  <2>3. r.idx = 1 /\ r.db
    OBVIOUS
  <2>4. files = <<s>> /\ \A e \in Entry : entry[e] = IF e = b THEN r ELSE BlankEntry
    BY <1>2, <1>7
  <2>5. tree[Builtins].kind = "file" /\ EntryAt(tree, Builtins) = b
    BY <1>2, <1>3, <1>4, <2>1 DEF EntryAt
  <2>6. b[1] = Builtins /\ b[2] = 1
    OBVIOUS
  <2> HIDE DEF b, s, r
  <2>7. DOMAIN files = {1} /\ files[1] = s
    BY <2>2, <2>4
  <2>8. EntryOf(files, 1) = b
    BY <2>2, <2>7 DEF EntryOf, b
  <2>9. PointsBack(A, files, entry) /\ Exact(files, entry)
    BY <2>1, <2>2, <2>3, <2>4, <2>6, <2>7, <2>8, <1>4 DEF PointsBack, Exact
  <2>10. Marked(entry) /\ Loaded(tree, files, entry)
    BY <2>1, <2>2, <2>3, <2>4, <2>5, <2>6, <2>7, <1>4, <1>7 DEF Marked, Loaded
  <2>11. Freed(tree, files, entry)
    BY <2>4, <2>7, <2>8, <1>4 DEF Freed, Live
  <2>12. Agrees(A, tree, entry, inmem) /\ OpenEditable
    BY <1>2 DEF Agrees, OpenEditable
  <2> QED BY <1>1, <1>5, <2>9, <2>10, <2>11, <2>12 DEF LinkInv, Whole, Linked, IInv
<1> QED BY <1>6, <1>7

(* Every step keeps the links.                                             *)
LEMMA StepLinks ==
  ASSUME NEW A, IInv, LinkInv(A), [Next]_vars,
         \A n \in Dir : HitsDb(Reach(Start(n))) => A = {}
  PROVE  LinkInv(A)'
<1>1. ASSUME NEW f \in FileIndex, NEW m \in Mod, Import(f, m)
      PROVE  LinkInv(A)'
  BY <1>1, ImportLinks
<1>2. ASSUME NEW i \in FileIndex, Load(i)
      PROVE  LinkInv(A)'
  BY <1>2, LoadLinks
<1>3. ASSUME NEW p \in Path, LoadEntry(p)
      PROVE  LinkInv(A)'
  BY <1>3, LoadEntryLinks
<1>4. ASSUME NEW d \in Dir, ReadDir(d)
      PROVE  LinkInv(A)'
  BY <1>4, EnterLinks DEF ReadDir
<1>5. ASSUME NEW p \in Path, NEW c \in Code, StoreInMemory(p, c)
      PROVE  LinkInv(A)'
  BY <1>5, StoreLinks
<1>6. ASSUME NEW p \in Path, Close(p)
      PROVE  LinkInv(A)'
  BY <1>6, CloseLinks
<1>7. ASSUME Notify PROVE LinkInv(A)'
  BY <1>7, NotifyLinks
<1>8. ASSUME Recover PROVE LinkInv(A)'
  BY <1>8, RecoverLinks
<1>9. ASSUME UNCHANGED <<tree, entry, files, inmem>> PROVE LinkInv(A)'
  BY <1>9 DEF LinkInv, OpenEditable
<1>10. Publish \/ DiskNext \/ UNCHANGED vars => UNCHANGED <<tree, entry, files, inmem>>
  BY DEF Publish, DiskNext, WriteDisk, DeleteDisk, MakeDir, RemoveDir, vars
<1> QED
  BY <1>1, <1>2, <1>3, <1>4, <1>5, <1>6, <1>7, <1>8, <1>9, <1>10
  DEF Next, DatabaseNext

-----------------------------------------------------------------------------
(* The theorems                                                            *)

(* LinkInv for no document below a directory holds in every run.           *)
THEOREM Links == Spec => [](IInv /\ LinkInv({}))
<1>1. Init => IInv /\ LinkInv({})
  BY InitGood, InitLinks
<1>2. (IInv /\ LinkInv({})) /\ [Next]_vars => (IInv /\ LinkInv({}))'
  BY StepGood, StepLinks
<1> QED BY <1>1, <1>2, PTL DEF Spec

(* The pointers that the python state holds into the builtins stay good:   *)
(* whatever is invalidated, deleted, changed or recovered, the file of the *)
(* builtins is in the tree, loaded, and marked so that its next change     *)
(* drops the whole database.                                               *)
THEOREM BuiltinsStayLoaded == Spec => []BuiltinsLoaded
<1>1. IInv /\ LinkInv({}) => BuiltinsLoaded
  <2> SUFFICES ASSUME IInv, LinkInv({}), Builtins # NoPath
               PROVE  LET e == EntryAt(tree, Builtins)
                          i == entry[e].idx
                      IN  /\ tree[Builtins].kind = "file"
                          /\ i # 0 /\ files[i].code # NoCode /\ entry[e].db
    BY DEF BuiltinsLoaded, IsFile
  <2>1. Loaded(tree, files, entry) /\ Marked(entry)
    BY DEF LinkInv, Whole
  <2>2. EntryAt(tree, Builtins) \in Entry /\ EntryAt(tree, Builtins)[1] = Builtins
    BY <2>1, LiveEntries, LayoutAssumption DEF IInv, GoodFiles, Loaded
  <2> QED BY <2>1, <2>2 DEF Loaded, Marked
<1> QED BY <1>1, Links, PTL

(* Documents opened in the root of the workspace are found under their     *)
(* path, at the index the server edits, through edits on disk and in the   *)
(* editor, closing and opening again, and recoveries.                      *)
THEOREM RootDocumentsAgree ==
  ASSUME \A p \in Editable : Holder[p] = Root
  PROVE  Spec => []InMemoryAgrees
<1>1. IInv /\ LinkInv({}) => InMemoryAgrees
  <2> SUFFICES ASSUME LinkInv({}), NEW p \in Path, inmem[p] # 0
               PROVE  /\ p # NoPath /\ tree[p].kind = "file"
                      /\ entry[EntryAt(tree, p)].idx = inmem[p]
    BY DEF InMemoryAgrees, Open, IsFile
  <2>1. Anchored({}, p)
    BY DEF LinkInv, OpenEditable, Anchored, Steady
  <2> QED BY <2>1, LayoutAssumption DEF LinkInv, Whole, Linked, Agrees, Node
<1> QED BY <1>1, Links, PTL

(* With documents in the root of the workspace, what                       *)
(* ensure_file_for_file_index asserts never fails: the entry of a file     *)
(* state leads back to it, so that no file is ever held twice.             *)
THEOREM RootEntriesPointBack ==
  ASSUME \A p \in Editable : Holder[p] = Root
  PROVE  Spec => []EntryPointsBack
<1>1. IInv /\ LinkInv({}) => EntryPointsBack
  <2> SUFFICES ASSUME IInv, LinkInv({}), NEW i \in DOMAIN files
               PROVE  entry[EntryOf(files, i)].idx = i
    BY DEF EntryPointsBack
  <2>1. files[i] \in FileState
    BY DEF IInv, GoodFiles
  <2>2. Anchored({}, files[i].path)
    BY <2>1 DEF Anchored, Steady, FileState
  <2> QED BY <2>2 DEF LinkInv, Whole, Linked, PointsBack
<1> QED BY <1>1, Links, PTL
=============================================================================
