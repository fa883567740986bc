----------------------- MODULE VfsInvalidationProofs -----------------------
(* Proofs about invalidation in Vfs: who is registered where, what a       *)
(* change takes away, and who is told.                                     *)
EXTENDS VfsLinkProofs

(* Every importer that a slot or an entry has registered is in X.          *)
Registered(T, E, X) ==
  /\ \A n \in Node : T[n].invs \subseteq X
  /\ \A e \in Entry : E[e].invs \subseteq X

(* A cached import is a file state, and its entry will invalidate the      *)
(* importer; where documents below a directory get a new entry it may not. *)
NotedFor(F, E, f, m) ==
  LET i == F[f].cache[m]
  IN  /\ i \in DOMAIN F \cup {Uncached, NotFound, Namespace}
      /\ i \in DOMAIN F /\ Steady(F[i].path) =>
           E[EntryOf(F, i)].db \/ f \in E[EntryOf(F, i)].invs

Noted(F, E) == \A f \in DOMAIN F, m \in Mod : NotedFor(F, E, f, m)

(* The tree T, the file states F and the entries E of an operation that    *)
(* invalidates from S: nothing is registered, the file states that change  *)
(* are reached and lose their cache, new ones have none.                   *)
Shrinks(T, F, E, S) ==
  /\ GoodTree(T)
  /\ GoodFiles(F, E)
  /\ \A n \in Node : T[n].invs \subseteq tree[n].invs
  /\ \A e \in Entry : /\ E[e].invs \subseteq entry[e].invs
                      /\ entry[e].db => E[e].db
                      /\ E[e].db \/ E[e].invs = entry[e].invs
  /\ DOMAIN files \subseteq DOMAIN F
  /\ \A j \in DOMAIN files :
       /\ F[j].path = files[j].path
       /\ Steady(files[j].path) => F[j].gen = files[j].gen
       /\ F[j] = files[j] \/ (j \in Reach(S) /\ F[j].cache = NoCache)
  /\ \A j \in DOMAIN F : j \notin DOMAIN files => F[j].cache = NoCache

(* The in-memory files that stay are told about: N in any case, and O when *)
(* they are reached.                                                       *)
Tells(N, O) ==
  \A p \in Path : inmem[p] # 0 /\ inmem'[p] # 0 =>
                    inmem'[p] = inmem[p] /\ p \in N \cup O

(* Only what reaches an entry with InvalidatesDb becomes one itself.       *)
Spreads(E) ==
  \A x \in Entry : E[x].db =>
    \/ entry[x].db
    \/ \E i \in DOMAIN files : files[i].path = x[1] /\ HitsDb(Reach({i}))

(* The editor opens documents in the root only.                            *)
RootDocuments == \A p \in Editable : Holder[p] = Root

(* The parts of the tree the importers have seen: directories, and paths   *)
(* in the root or in a directory that was read.                            *)
Near(n) == n \in Dir \/ Visible(tree, n)

(* From T to U nothing changes at n for an importer that looked there: a   *)
(* directory stays one that was read, a file the same file, and what was   *)
(* missing still is, with everybody who is registered there.               *)
Stays(T, U, n) ==
  /\ n \in Dir /\ T[n].read => U[n].read
  /\ n \in Path /\ T[n].kind = "file" => U[n].kind = "file" /\ U[n].gen = T[n].gen
  /\ T[n].kind = "missing" =>
       U[n].kind = "missing" /\ T[n].invs \subseteq U[n].invs

(* Who is registered at x, and the file at x, are in S.                    *)
Told(S, x) ==
  /\ tree[x].kind = "missing" => tree[x].invs \subseteq S
  /\ x \in Path /\ tree[x].kind = "file" => entry[EntryAt(tree, x)].idx \in S \cup {0}

(* Where the tree changes for importers, the invalidation starts.          *)
Touches(T, S) ==
  RootDocuments => \A n \in Node : Near(n) =>
                     Stays(tree, T, n) \/ \A x \in Walk(n) : Told(S, x)

(* The tree does not change for importers.                                 *)
Spares(T) == RootDocuments => \A n \in Node : Near(n) => Stays(tree, T, n)

Invalidates(T, F, E, S, N, O) ==
  /\ Shrinks(T, F, E, S)
  /\ ~HitsDb(Reach(S)) => Touches(T, S)
  /\ Builtins # NoPath => T[Builtins].kind = "file"
  /\ Settle(T, F, E, Reach(S), N, O)
  /\ Tells(N, O)
  /\ Spreads(E)

(* An operation that invalidates nothing and forgets nothing.              *)
Quiet ==
  /\ files' = files
  /\ Spares(tree')
  /\ \A p \in Path : inmem[p] # 0 /\ inmem'[p] # 0 => inmem'[p] = inmem[p]
  /\ \A n \in Node : tree'[n].invs \subseteq tree[n].invs
  /\ \A e \in Entry : entry'[e].invs \subseteq entry[e].invs
  /\ \A e \in Entry : entry'[e].db => entry[e].db
  /\ \A j \in DOMAIN files : entry'[EntryOf(files, j)] = entry[EntryOf(files, j)]

(* What an operation that invalidates from S does to file state j.         *)
Emptied(j) ==
  /\ j \in DOMAIN files'
  /\ files'[j].path = files[j].path
  /\ files'[j].cache = NoCache

Grown(j) ==
  /\ j \in DOMAIN files'
  /\ files'[j].path = files[j].path
  /\ files[j].code \in {files'[j].code, NoCode}
  /\ \A k \in Mod : files[j].cache[k] \in {files'[j].cache[k], Uncached}

(* What an operation does that only adds, and registers importers in Y.    *)
Gains(Y) ==
  /\ \A j \in DOMAIN files : Grown(j)
  /\ \A p \in Path : inmem[p] # 0 /\ inmem'[p] # 0 => inmem'[p] = inmem[p]
  /\ \A n \in Node : tree'[n].invs \subseteq tree[n].invs \cup Y
  /\ \A e \in Entry : entry'[e].invs \subseteq entry[e].invs \cup Y
  /\ \A e \in Entry : entry'[e].db => entry[e].db
  /\ Noted(files, entry) => Noted(files', entry')

Moved(S) ==
  \A j \in DOMAIN files :
    IF HitsDb(Reach(S)) \/ j \in Reach(S) THEN Emptied(j) ELSE Grown(j)

-----------------------------------------------------------------------------
(* Invalidation                                                            *)

(* Every importer of a file that is reached is reached.                    *)
LEMMA ReachClosed ==
  ASSUME Registered(tree, entry, DOMAIN files), IInv,
         NEW S, NEW j \in Reach(S)
  PROVE  entry[EntryOf(files, j)].invs \subseteq Reach(S)
<1>1. EntryOf(files, j) \in Entry
  BY LiveEntries DEF Reach, IInv, GoodFiles
<1> QED BY <1>1 DEF Reach, Registered

(* The files of a set that is closed reach nothing outside of it.          *)
LEMMA ReachInside ==
  ASSUME NEW X \in SUBSET DOMAIN files, NEW S \in SUBSET X,
         \A j \in X : entry[EntryOf(files, j)].invs \subseteq X
  PROVE  Reach(S) \subseteq X
BY DEF Reach

(* What starts an invalidation is reached.                                 *)
LEMMA ReachStart ==
  ASSUME NEW S
  PROVE  /\ \A j \in DOMAIN files : j \in S => j \in Reach(S)
         /\ Reach(S) \subseteq DOMAIN files
         /\ Reach({}) = {}
<1>1. Reach({}) \subseteq {}
  BY ReachInside
<1> QED BY <1>1 DEF Reach

(* The caches and the entries after the builtins were loaded again.        *)
LEMMA RegenerateKeeps ==
  ASSUME NEW T, GoodTree(T), NEW F, NEW E, GoodFiles(F, E),
         Builtins # NoPath => T[Builtins].kind = "file",
         disk \in [Path -> Code \cup {NoCode}],
         Regenerate(T, F, E)
  PROVE  /\ tree' = T /\ files' \in Seq(FileState)
         /\ DOMAIN F \subseteq DOMAIN files'
         /\ \A j \in DOMAIN F : /\ files'[j].path = F[j].path
                                /\ files'[j].cache = F[j].cache
         /\ \A j \in DOMAIN files' : j \notin DOMAIN F => files'[j].cache = NoCache
         /\ \A x \in Entry : /\ entry'[x].invs \subseteq E[x].invs
                             /\ entry'[x].db => E[x].db \/ x[1] = Builtins
<1> DEFINE e == EntryAt(T, Builtins)
           i == E[e].idx
<1>0. /\ F \in Seq(FileState) /\ \A j \in DOMAIN F : F[j] \in FileState
      /\ BlankEntry.invs = {} /\ ~BlankEntry.db
  BY DEF GoodFiles, BlankEntry
<1>1. ASSUME NEW G, NEW H, Finish(T, G, H)
      PROVE  /\ tree' = T /\ files' = G
             /\ \A x \in Entry : entry'[x] = H[x] \/ entry'[x] = BlankEntry
  BY <1>1 DEF Finish, Collect
<1>2. CASE Builtins = NoPath \/ (i # 0 /\ F[i].code # NoCode)
  <2>1. Finish(T, F, E)
    BY <1>2 DEF Regenerate
  <2> QED BY <2>1, <1>0, <1>1
<1>3. CASE Builtins # NoPath /\ i # 0 /\ F[i].code = NoCode
  <2> DEFINE s == [F[i] EXCEPT !.code = disk[Builtins]]
             G == [F EXCEPT ![i] = s]
  <2>1. Builtins \in Path /\ e \in Entry
    BY <1>0, <1>3, LayoutAssumption, LiveEntries
  <2>2. i \in DOMAIN F /\ disk[Builtins] \in Code \cup {NoCode} /\ F[i] \in FileState
    BY <1>3, <2>1 DEF GoodFiles
  <2>3. s \in FileState /\ s.path = F[i].path /\ s.cache = F[i].cache
    BY <2>2 DEF FileState
  <2>4. Finish(T, [F EXCEPT ![i].code = disk[Builtins]], E)
    BY <1>3 DEF Regenerate
  <2>5. Finish(T, G, E)
    BY <2>4
  <2> HIDE DEF s
  <2>6. /\ GoodFiles(G, E) /\ DOMAIN G = DOMAIN F
        /\ \A j \in DOMAIN F : G[j] = IF j = i THEN s ELSE F[j]
    <3> HIDE DEF i
    <3> QED BY <2>2, <2>3, ReplaceGood
  <2> HIDE DEF G
  <2>7. G \in Seq(FileState)
        /\ \A j \in DOMAIN F : G[j].path = F[j].path /\ G[j].cache = F[j].cache
    <3> HIDE DEF i
    <3> QED BY <2>3, <2>6 DEF GoodFiles
  <2>8. /\ tree' = T /\ files' = G
        /\ \A x \in Entry : entry'[x] = E[x] \/ entry'[x] = BlankEntry
    BY <2>5, <1>1
  <2> HIDE DEF i
  <2>9. \A x \in Entry : entry'[x].invs \subseteq E[x].invs
                           /\ (entry'[x].db => E[x].db)
    BY <2>8, <1>0
  <2> QED BY <2>6, <2>7, <2>8, <2>9
<1>4. CASE Builtins # NoPath /\ i = 0
  <2> DEFINE s == NewState(e, disk[Builtins])
             r == [idx |-> Len(F) + 1, invs |-> {}, db |-> TRUE]
             G == Append(F, s)
             H == [E EXCEPT ![e] = r]
  <2>1. Builtins \in Path /\ e \in Entry /\ e[1] = Builtins
    BY <1>0, <1>4, LayoutAssumption, LiveEntries
  <2>2. s \in FileState /\ s.cache = NoCache
    BY <2>1, NewStateType DEF NewState
  <2>3. Finish(T, G, H)
    BY <1>4 DEF Regenerate
  <2>4. r.invs = {}
    OBVIOUS
  <2> HIDE DEF e, i, s, r
  <2>5. \A x \in Entry : H[x] = IF x = e THEN r ELSE E[x]
    BY <2>1 DEF GoodFiles
  <2>6. /\ G \in Seq(FileState) /\ DOMAIN G = 1..(Len(F) + 1)
        /\ DOMAIN F = 1..Len(F) /\ Len(F) \in Nat
        /\ \A j \in 1..Len(F) : G[j] = F[j]
        /\ G[Len(F) + 1] = s
    BY <1>0, <2>2, AppendProperties, LenProperties
  <2> HIDE DEF G, H
  <2>7. /\ DOMAIN F \subseteq DOMAIN G
        /\ \A j \in DOMAIN F : G[j] = F[j]
        /\ \A j \in DOMAIN G : j \notin DOMAIN F => G[j] = s
    BY <2>6
  <2>8. /\ tree' = T /\ files' = G
        /\ \A x \in Entry : entry'[x] = H[x] \/ entry'[x] = BlankEntry
    BY <2>3, <1>1
  <2>9. ASSUME NEW x \in Entry
        PROVE  /\ entry'[x].invs \subseteq E[x].invs
               /\ entry'[x].db => E[x].db \/ x[1] = Builtins
    BY <1>0, <2>1, <2>4, <2>5, <2>8
  <2> QED BY <2>2, <2>6, <2>7, <2>8, <2>9
<1> QED BY <1>2, <1>3, <1>4

(* What an operation that invalidates does to the file states: all caches  *)
(* are gone, or those of what was reached.                                 *)
LEMMA SettleKeeps ==
  ASSUME IInv, NEW T, NEW F, NEW E, NEW S, NEW N, NEW O,
         Shrinks(T, F, E, S), Builtins # NoPath => T[Builtins].kind = "file",
         Settle(T, F, E, Reach(S), N, O)
  PROVE  /\ tree' = T /\ files' \in Seq(FileState)
         /\ DOMAIN F \subseteq DOMAIN files'
         /\ \A j \in DOMAIN F : files'[j].path = F[j].path
         /\ HitsDb(Reach(S)) =>
              \A j \in DOMAIN files' : files'[j].cache = NoCache
         /\ ~HitsDb(Reach(S)) =>
              /\ Finish(T, Forget(F, Reach(S)), Taken(E, Reach(S)))
              /\ \A j \in DOMAIN F :
                   /\ j \in Reach(S) => files'[j].cache = NoCache
                   /\ j \notin Reach(S) => files'[j] = F[j]
         /\ \A x \in Entry : /\ entry'[x].invs \subseteq E[x].invs
                             /\ entry'[x].db => E[x].db \/ x[1] = Builtins
<1> DEFINE R == Reach(S)
<1>0. /\ GoodTree(T) /\ GoodFiles(F, E) /\ F \in Seq(FileState)
      /\ \A j \in DOMAIN F : F[j] \in FileState
      /\ E \in [Entry -> EntryRecord] /\ \A x \in Entry : E[x] \in EntryRecord
      /\ disk \in [Path -> Code \cup {NoCode}]
      /\ BlankEntry.invs = {} /\ ~BlankEntry.db
  BY DEF Shrinks, GoodFiles, IInv, TypeOK, BlankEntry
<1>1. ASSUME NEW X
      PROVE  /\ Forget(F, X) \in Seq(FileState) /\ DOMAIN Forget(F, X) = DOMAIN F
             /\ Len(Forget(F, X)) = Len(F)
             /\ \A j \in DOMAIN F :
                  /\ Forget(F, X)[j].path = F[j].path
                  /\ j \in X => Forget(F, X)[j].cache = NoCache
                  /\ j \notin X => Forget(F, X)[j] = F[j]
  <2>1. \A j \in DOMAIN F : j \in X => Forget(F, X)[j].cache = NoCache
    BY <1>0 DEF Forget, FileState
  <2>2. \A j \in DOMAIN F : j \notin X => Forget(F, X)[j] = F[j]
    BY DEF Forget
  <2> QED BY <1>0, <2>1, <2>2, ForgetGood
<1>2. ASSUME NEW X
      PROVE  \A x \in Entry : /\ Taken(E, X)[x] \in EntryRecord
                              /\ Taken(E, X)[x].idx = E[x].idx
                              /\ Taken(E, X)[x].invs \subseteq E[x].invs
                              /\ Taken(E, X)[x].db = E[x].db
  BY <1>0 DEF Taken, EntryRecord
<1>3. \A X, Y : GoodFiles(Forget(F, X), Taken(E, Y))
  BY <1>0, <1>1, TakenGood DEF GoodFiles
<1> HIDE DEF R
<1>4. CASE ~HitsDb(R) /\ Finish(T, Forget(F, R), Taken(E, R))
  <2>1. /\ tree' = T /\ files' = Forget(F, R)
        /\ \A x \in Entry : entry'[x] = Taken(E, R)[x] \/ entry'[x] = BlankEntry
    BY <1>4 DEF Finish, Collect
  <2> QED BY <1>0, <1>1, <1>2, <1>4, <2>1 DEF R
<1>5. ASSUME HitsDb(R), NEW V \in SUBSET R,
             Regenerate(T, Forget(F, DOMAIN F), Taken(E, V))
      PROVE  /\ tree' = T /\ files' \in Seq(FileState)
             /\ DOMAIN F \subseteq DOMAIN files'
             /\ \A j \in DOMAIN F : files'[j].path = F[j].path
             /\ \A j \in DOMAIN files' : files'[j].cache = NoCache
             /\ \A x \in Entry : /\ entry'[x].invs \subseteq E[x].invs
                                 /\ entry'[x].db => E[x].db \/ x[1] = Builtins
  <2> DEFINE G == Forget(F, DOMAIN F)
             H == Taken(E, V)
  <2>1. GoodFiles(G, H) /\ DOMAIN G = DOMAIN F
        /\ \A j \in DOMAIN F : G[j].path = F[j].path /\ G[j].cache = NoCache
    BY <1>1, <1>3
  <2>2. \A x \in Entry : H[x].invs \subseteq E[x].invs /\ H[x].db = E[x].db
    BY <1>2
  <2>3. Regenerate(T, G, H)
    BY <1>5
  <2> HIDE DEF G, H
  <2>4. /\ tree' = T /\ files' \in Seq(FileState) /\ DOMAIN G \subseteq DOMAIN files'
        /\ \A j \in DOMAIN G : files'[j].path = G[j].path
                                 /\ files'[j].cache = G[j].cache
        /\ \A j \in DOMAIN files' : j \notin DOMAIN G => files'[j].cache = NoCache
        /\ \A x \in Entry : /\ entry'[x].invs \subseteq H[x].invs
                            /\ entry'[x].db => H[x].db \/ x[1] = Builtins
    BY <1>0, <2>1, <2>3, RegenerateKeeps
  <2> QED BY <2>1, <2>2, <2>4
<1> QED BY <1>4, <1>5 DEF Settle, R

(* ... moves every file state,                                             *)
LEMMA SettleMoves ==
  ASSUME IInv, NEW T, NEW F, NEW E, NEW S, NEW N, NEW O,
         Shrinks(T, F, E, S), Builtins # NoPath => T[Builtins].kind = "file",
         Settle(T, F, E, Reach(S), N, O)
  PROVE  Moved(S)
<1> DEFINE R == Reach(S)
<1>1. /\ DOMAIN F \subseteq DOMAIN files' /\ DOMAIN files \subseteq DOMAIN F
      /\ \A j \in DOMAIN F : files'[j].path = F[j].path
      /\ HitsDb(R) => \A j \in DOMAIN files' : files'[j].cache = NoCache
      /\ ~HitsDb(R) => \A j \in DOMAIN F :
                         /\ j \in R => files'[j].cache = NoCache
                         /\ j \notin R => files'[j] = F[j]
      /\ \A j \in DOMAIN files :
           /\ F[j].path = files[j].path
           /\ F[j] = files[j] \/ (j \in R /\ F[j].cache = NoCache)
  BY SettleKeeps DEF Shrinks
<1> HIDE DEF R
<1>2. ASSUME NEW j \in DOMAIN files, HitsDb(R) \/ j \in R
      PROVE  Emptied(j)
  BY <1>1, <1>2 DEF Emptied
<1>3. ASSUME NEW j \in DOMAIN files, ~(HitsDb(R) \/ j \in R)
      PROVE  Grown(j)
  BY <1>1, <1>3 DEF Grown
<1> QED BY <1>2, <1>3 DEF Moved, R

(* ... tells every open document that loses a cached import,               *)
LEMMA SettleTells ==
  ASSUME IInv, NEW T, NEW F, NEW E, NEW S, NEW N, NEW O,
         Shrinks(T, F, E, S), Builtins # NoPath => T[Builtins].kind = "file",
         Settle(T, F, E, Reach(S), N, O), Tells(N, O),
         NEW p \in Path, inmem[p] # 0, inmem'[p] # 0
  PROVE  /\ inmem'[p] = inmem[p] /\ inmem[p] \in DOMAIN files
         /\ p \in changed' \/ files'[inmem[p]] = files[inmem[p]]
<1> DEFINE R == Reach(S)
           i == inmem[p]
<1>1. inmem'[p] = inmem[p] /\ p \in N \cup O
  BY DEF Tells
<1>2. i \in DOMAIN files /\ files[i].path = p /\ i \in DOMAIN F
      /\ (i \notin R => F[i] = files[i])
  BY DEF IInv, OpenHasState, Shrinks
<1>3. CASE HitsDb(R) \/ i \in R \/ p \in N
  <2>1. p \in Announce(R, N, O)
    BY <1>1, <1>2, <1>3 DEF Announce
  <2> QED BY <2>1, <1>1, <1>2 DEF Settle
<1>4. CASE ~HitsDb(R) /\ i \notin R
  <2>1. files'[i] = F[i]
    BY <1>2, <1>4, SettleKeeps
  <2> QED BY <2>1, <1>1, <1>2, <1>4
<1> QED BY <1>3, <1>4

(* ... registers nobody,                                                   *)
LEMMA SettleRegisters ==
  ASSUME IInv, NEW T, NEW F, NEW E, NEW S, NEW N, NEW O,
         Shrinks(T, F, E, S), Builtins # NoPath => T[Builtins].kind = "file",
         Settle(T, F, E, Reach(S), N, O), NEW X, Registered(tree, entry, X)
  PROVE  Registered(tree', entry', X)
<1>1. /\ tree' = T /\ \A x \in Entry : entry'[x].invs \subseteq E[x].invs
      /\ \A n \in Node : T[n].invs \subseteq tree[n].invs
      /\ \A x \in Entry : E[x].invs \subseteq entry[x].invs
  BY SettleKeeps DEF Shrinks
<1> QED BY <1>1 DEF Registered

(* ... and forgets a registration only with the import it is for.          *)
LEMMA SettleNotes ==
  ASSUME IInv, NEW T, NEW F, NEW E, NEW S, NEW N, NEW O,
         Shrinks(T, F, E, S), Builtins # NoPath => T[Builtins].kind = "file",
         Settle(T, F, E, Reach(S), N, O),
         Registered(tree, entry, DOMAIN files), Noted(files, entry)
  PROVE  Noted(files', entry')
<1> DEFINE R == Reach(S)
<1>1. /\ tree' = T /\ files' \in Seq(FileState)
      /\ DOMAIN F \subseteq DOMAIN files'
      /\ HitsDb(R) => \A j \in DOMAIN files' : files'[j].cache = NoCache
      /\ ~HitsDb(R) =>
           /\ Finish(T, Forget(F, R), Taken(E, R))
           /\ \A j \in DOMAIN F :
                /\ j \in R => files'[j].cache = NoCache
                /\ j \notin R => files'[j] = F[j]
  BY SettleKeeps
<1>2. /\ GoodTree(T) /\ GoodFiles(F, E) /\ DOMAIN files \subseteq DOMAIN F
      /\ F \in Seq(FileState) /\ R \subseteq DOMAIN files
      /\ files \in Seq(FileState) /\ GoodTree(tree)
      /\ \A x \in Entry : /\ entry[x].db => E[x].db
                          /\ E[x].db \/ E[x].invs = entry[x].invs
      /\ \A j \in DOMAIN files :
           /\ F[j].path = files[j].path
           /\ Steady(files[j].path) => F[j].gen = files[j].gen
           /\ F[j] = files[j] \/ (j \in R /\ F[j].cache = NoCache)
      /\ \A j \in DOMAIN F : j \notin DOMAIN files => F[j].cache = NoCache
  BY ReachStart DEF Shrinks, GoodFiles, IInv
<1>3. \A m \in Mod : NoCache[m] = Uncached
  BY DEF NoCache
<1>4. \A G \in Seq(FileState) : Uncached \notin DOMAIN G
  BY LenProperties DEF Uncached
<1>5. ASSUME NEW f \in DOMAIN files', NEW m \in Mod, files'[f].cache = NoCache
      PROVE  NotedFor(files', entry', f, m)
  BY <1>1, <1>3, <1>4, <1>5 DEF NotedFor
<1>6. ASSUME NEW f \in DOMAIN files', NEW m \in Mod, files'[f].cache # NoCache
      PROVE  NotedFor(files', entry', f, m)
  <2> DEFINE i == files[f].cache[m]
             x == EntryOf(files, i)
  <2>1. ~HitsDb(R) /\ files' = Forget(F, R) /\ DOMAIN files' = DOMAIN F
    <3>1. ~HitsDb(R)
      BY <1>1, <1>6
    <3>2. DOMAIN Forget(F, R) = DOMAIN F
      BY <1>2, ForgetGood
    <3> QED BY <3>1, <3>2, <1>1 DEF Finish
  <2>2. f \notin R /\ f \in DOMAIN files /\ files'[f] = files[f]
    BY <2>1, <1>1, <1>2, <1>6
  <2>3. /\ i \in DOMAIN files \cup {Uncached, NotFound, Namespace}
        /\ i \in DOMAIN files /\ Steady(files[i].path) =>
             entry[x].db \/ f \in entry[x].invs
    BY <2>2 DEF Noted, NotedFor
  <2> SUFFICES ASSUME i \in DOMAIN files', Steady(files'[i].path)
               PROVE  /\ i \in DOMAIN files
                      /\ EntryOf(files', i) = x
                      /\ entry'[x].db \/ f \in entry'[x].invs
    BY <2>1, <2>2, <2>3, <1>2 DEF NotedFor
  <2>4. i \in DOMAIN files
    <3>1. Uncached \notin DOMAIN files' /\ NotFound \notin DOMAIN files'
          /\ Namespace \notin DOMAIN files'
      BY <1>1, LenProperties DEF Uncached, NotFound, Namespace
    <3> QED BY <3>1, <2>3
  <2>5. Forget(F, R)[i].path = F[i].path /\ Forget(F, R)[i].gen = F[i].gen
    <3>1. F[i] \in FileState
      BY <2>4, <1>2
    <3> QED BY <3>1, <2>4, <1>2 DEF Forget, FileState
  <2>6. EntryOf(files', i) = x /\ Steady(files[i].path)
    BY <2>1, <2>4, <2>5, <1>2 DEF EntryOf
  <2>7. x \in Entry /\ x \in Live(T, Forget(F, R))
    <3>1. x \in Entry
      BY <2>4, <1>2, LiveEntries
    <3>2. x \in Live(T, Forget(F, R))
      BY <2>1, <2>6 DEF Live
    <3> QED BY <3>1, <3>2
  <2>8. entry'[x] = Taken(E, R)[x]
    BY <2>1, <2>7, <1>1 DEF Finish, Collect
  <2>9. E[x] \in EntryRecord
    BY <2>7, <1>2 DEF GoodFiles
  <2>10. CASE E[x].db
    BY <2>4, <2>6, <2>7, <2>8, <2>9, <2>10 DEF Taken, EntryRecord
  <2>11. CASE ~E[x].db
    <3>1. f \in entry[x].invs /\ E[x].invs = entry[x].invs
      BY <2>3, <2>4, <2>6, <2>7, <2>11, <1>2
    <3>2. ~ \E j \in R : EntryOf(files, j) = x
      BY <3>1, <2>2, ReachClosed
    <3> QED BY <3>1, <3>2, <2>4, <2>6, <2>7, <2>8 DEF Taken
  <2> QED BY <2>4, <2>6, <2>10, <2>11
<1> QED BY <1>5, <1>6 DEF Noted

-----------------------------------------------------------------------------
(* The operations that invalidate                                          *)

(* Listing a directory registers nobody.                                   *)
LEMMA ListingRegisters ==
  ASSUME NEW T, NEW d \in Dir
  PROVE  \A n \in Node : Listing(T, d)[n].invs \subseteq T[n].invs
<1>1. NoSlot.invs = {} /\ DirSlot(TRUE).invs = {} /\ \A e : FileSlot(e).invs = {}
  BY DEF NoSlot, DirSlot, FileSlot
<1> QED BY <1>1 DEF Listing

(* Finish leaves the entries of file states alone.                         *)
LEMMA FinishKeeps ==
  ASSUME NEW T, GoodTree(T), NEW F, NEW E, GoodFiles(F, E), Finish(T, F, E)
  PROVE  /\ tree' = T /\ files' = F
         /\ \A j \in DOMAIN F : /\ EntryOf(F, j) \in Entry
                                /\ entry'[EntryOf(F, j)] = E[EntryOf(F, j)]
         /\ \A x \in Entry : /\ entry'[x].invs \subseteq E[x].invs
                             /\ entry'[x].db => E[x].db
<1>1. BlankEntry.invs = {} /\ ~BlankEntry.db
  BY DEF BlankEntry
<1>2. \A x \in Entry : entry'[x] = IF x \in Live(T, F) THEN E[x] ELSE BlankEntry
  BY DEF Finish, Collect
<1>3. \A j \in DOMAIN F : EntryOf(F, j) \in Entry /\ EntryOf(F, j) \in Live(T, F)
  BY LiveEntries DEF GoodFiles
<1> QED BY <1>1, <1>2, <1>3 DEF Finish

(* Listing a directory changes only what nobody has seen.                  *)
LEMMA ListingSpares ==
  ASSUME IInv, LinkInv({}), NEW d \in Dir, tree[d].kind = "dir"
  PROVE  \A n \in Node : Near(n) => Stays(tree, Listing(tree, d), n)
<1>1. DirSlot(TRUE).read
  BY DEF DirSlot
<1> SUFFICES ASSUME NEW n \in Node, Near(n)
             PROVE  Stays(tree, Listing(tree, d), n)
  OBVIOUS
<1>2. CASE n = d
  <2>1. d \notin Inside(d) /\ d \notin Path
    BY LayoutAssumption DEF Inside
  <2>2. Listing(tree, d)[n] = DirSlot(TRUE)
    BY <2>1, <1>2 DEF Listing
  <2> QED BY <2>1, <2>2, <1>1, <1>2 DEF Stays
<1>3. CASE n # d
  <2>1. n \in Inside(d) => tree[d].read
    BY LayoutAssumption DEF Near, Visible, Inside, Node
  <2>2. Listing(tree, d)[n] = tree[n]
    BY <2>1, <1>3 DEF Listing
  <2> QED BY <2>2 DEF Stays
<1> QED BY <1>2, <1>3

(* What a document that is stored changes in the tree for importers: its   *)
(* name, when there was no file.                                           *)
LEMMA StoreTouches ==
  ASSUME IInv, LinkInv({}), NEW p \in Path, NEW T1, NEW e, NEW S,
         \A n \in Node : T1[n] = IF n = p THEN FileSlot(e) ELSE tree[n],
         tree[p].kind = "file" => e = EntryAt(tree, p)
  PROVE  /\ tree[p].invs \subseteq S => Touches(T1, S)
         /\ tree[p].kind = "file" => Spares(T1)
<1>1. FileSlot(e).kind = "file" /\ FileSlot(e).gen = e[2] /\ EntryAt(tree, p)[2] = tree[p].gen
  BY DEF FileSlot, EntryAt
<1>2. p \in Node /\ p \notin Dir
  BY LayoutAssumption DEF Node
<1>3. \A n \in Node : n # p \/ tree[p].kind = "file" => Stays(tree, T1, n)
  BY <1>1, <1>2 DEF Stays
<1>4. tree[p].invs \subseteq S /\ tree[p].kind # "file" =>
        \A x \in Walk(p) : Told(S, x)
  BY <1>2 DEF Walk, Told
<1> QED BY <1>3, <1>4 DEF Touches, Spares

(* didOpen and didChange.                                                  *)
LEMMA StoreForm ==
  ASSUME IInv, LinkInv({}), NEW p \in Path, NEW c \in Code, StoreInMemory(p, c)
  PROVE  Quiet \/ \E T, F, E, S, N, O : Invalidates(T, F, E, S, N, O)
<1> DEFINE d  == Holder[p]
           T0 == IF d = Root THEN tree ELSE Listing(tree, d)
           e  == IF T0[p].kind = "file" THEN EntryAt(T0, p) ELSE Fresh(p)
           T1 == [T0 EXCEPT ![p] = FileSlot(e)]
           invs == T0[p].invs \cup (IF d = Root THEN {} ELSE tree[d].invs)
           i  == IF inmem[p] # 0 THEN inmem[p] ELSE entry[e].idx
           O  == Open \cup {p}
           s  == NewState(e, c)
           E0 == IF HitsDb(Reach({i}))
                 THEN [entry EXCEPT ![e].db = TRUE, ![e].invs = {}] ELSE entry
<1>0. /\ p \in Node /\ (d # Root => d \in Dir) /\ c \in Code \cup {NoCode}
      /\ inmem \in [Path -> 0..MaxFile] /\ GoodFiles(files, entry)
      /\ files \in Seq(FileState) /\ entry \in [Entry -> EntryRecord]
      /\ \A x \in Entry : entry[x] \in EntryRecord
      /\ Whole({}, tree, files, entry, inmem) /\ Listed(tree)
  BY LayoutAssumption DEF Node, IInv, TypeOK, GoodFiles, LinkInv
<1>1. /\ GoodTree(T0)
      /\ \A q \in Path : tree[q].kind = "file" => T0[q] = tree[q]
      /\ \A n \in Node : T0[n].invs \subseteq tree[n].invs
  <2>1. CASE d = Root
    BY <2>1 DEF IInv
  <2>2. CASE d # Root
    <3>1. d \in Dir /\ CanList(d)
      BY <2>2, <1>0 DEF StoreInMemory
    <3> QED BY <2>2, <3>1, ListingWhole, ListingRegisters
  <2> QED BY <2>1, <2>2
<1>2. \/ i # 0 /\ inmem' = [inmem EXCEPT ![p] = i] /\ Finish(T1, files, entry)
      \/ /\ i # 0 /\ inmem' = [inmem EXCEPT ![p] = i]
         /\ Settle(T1, [files EXCEPT ![i] = s], E0, Reach({i} \cup invs), {p}, O)
      \/ /\ i = 0 /\ Len(files) < MaxFile
         /\ inmem' = [inmem EXCEPT ![p] = Len(files) + 1]
         /\ Settle(T1, Append(files, s), [entry EXCEPT ![e].idx = Len(files) + 1],
                   Reach(invs), {p}, O)
  BY DEF StoreInMemory
<1>3. e \in Entry /\ e[1] = p /\ e = <<p, e[2]>>
      /\ (T0[p].kind = "file" => e = EntryAt(T0, p) /\ e[2] = T0[p].gen)
  <2>1. CASE T0[p].kind = "file"
    BY <2>1, <1>1 DEF GoodTree, EntryAt, Entry
  <2>2. CASE T0[p].kind # "file"
    <3>1. Fresh(p) \in Entry /\ Fresh(p)[1] = p
      BY FreshEntry DEF StoreInMemory
    <3> QED BY <2>2, <3>1 DEF Entry
  <2> QED BY <2>1, <2>2
<1>4. Steady(p) /\ inmem[p] # 0 => entry[e].idx = inmem[p]
  <2> SUFFICES ASSUME Steady(p), inmem[p] # 0 PROVE entry[e].idx = inmem[p]
    OBVIOUS
  <2>1. tree[p].kind = "file" /\ entry[EntryAt(tree, p)].idx = inmem[p]
    BY <1>0 DEF Whole, Linked, Agrees, Anchored
  <2>2. e = EntryAt(tree, p)
    BY <2>1, <1>1, <1>3 DEF EntryAt
  <2> QED BY <2>1, <2>2
<1>5. Builtins # NoPath => Builtins \in Node /\ T0[Builtins].kind = "file"
  BY <1>0, <1>1, LayoutAssumption DEF Whole, Loaded, Node
<1> HIDE DEF T0, e
<1>6. i # 0 => /\ i \in DOMAIN files /\ files[i].path = p
               /\ Steady(p) => files[i].gen = e[2]
  <2>1. i # 0 => i \in DOMAIN files /\ files[i].path = p
    BY <1>0, <1>3 DEF IInv, OpenHasState, GoodFiles
  <2>2. i # 0 /\ Steady(p) => entry[e].idx = i
    BY <1>4
  <2> QED BY <2>1, <2>2, <1>0, <1>3 DEF Whole, Linked, Exact
<1>7. /\ GoodTree(T1) /\ \A n \in Node : T1[n].invs \subseteq tree[n].invs
      /\ Builtins # NoPath => T1[Builtins].kind = "file"
  <2>1. FileSlot(e) \in Slot /\ FileSlot(e).kind = "file"
        /\ FileSlot(e).gen \in 1..MaxGen /\ FileSlot(e).invs = {}
    BY <1>3, SlotTypes DEF FileSlot
  <2>2. T1[p] = FileSlot(e) /\ \A n \in Node : n # p => T1[n] = T0[n]
    BY <1>0, <1>1 DEF GoodTree
  <2>3. T1 \in [Node -> Slot]
    BY <1>1, <2>1 DEF GoodTree
  <2> HIDE DEF T1
  <2>4. \A q \in Path : T1[q].kind = "file" => T1[q].gen \in 1..MaxGen
    BY <1>1, <2>1, <2>2 DEF GoodTree, Node
  <2>5. \A n \in Node : T1[n].invs \subseteq tree[n].invs
    BY <1>1, <2>1, <2>2
  <2>6. Builtins # NoPath => T1[Builtins].kind = "file"
    BY <1>5, <2>1, <2>2
  <2> QED BY <2>3, <2>4, <2>5, <2>6 DEF GoodTree
<1>8. \A S : invs \subseteq S => Touches(T1, S)
  <2> SUFFICES ASSUME RootDocuments, NEW S, invs \subseteq S PROVE Touches(T1, S)
    BY DEF Touches
  <2>1. T0 = tree
    BY DEF RootDocuments, StoreInMemory, T0
  <2>2. /\ \A n \in Node : T1[n] = IF n = p THEN FileSlot(e) ELSE tree[n]
        /\ tree[p].kind = "file" => e = EntryAt(tree, p)
    BY <2>1, <1>0, <1>3 DEF IInv, GoodTree
  <2>3. tree[p].invs \subseteq S
    BY <2>1
  <2> QED BY <2>2, <2>3, StoreTouches
<1>9. i # 0 => Spares(T1)
  <2> SUFFICES ASSUME RootDocuments, i # 0 PROVE Spares(T1)
    BY DEF Spares
  <2>1. T0 = tree /\ Steady(p)
    BY DEF RootDocuments, StoreInMemory, T0, Steady
  <2>2. tree[p].kind = "file"
    <3>1. CASE inmem[p] # 0
      BY <3>1, <2>1, <1>0 DEF Whole, Linked, Agrees, Anchored
    <3>2. CASE inmem[p] = 0
      <4> SUFFICES ASSUME tree[p].kind # "file" PROVE FALSE
        OBVIOUS
      <4>1. e = Fresh(p) /\ e \in Entry /\ entry[e].idx # 0
        BY <3>2, <2>1, <1>3 DEF e
      <4>2. e \notin Live(tree, files)
        BY <4>1 DEF StoreInMemory, HasFresh, Fresh, Unused
      <4> QED BY <4>1, <4>2 DEF LinkInv, Freed
    <3> QED BY <3>1, <3>2
  <2>3. /\ \A n \in Node : T1[n] = IF n = p THEN FileSlot(e) ELSE tree[n]
        /\ e = EntryAt(tree, p)
    BY <2>1, <2>2, <1>0, <1>3 DEF IInv, GoodTree
  <2> QED BY <2>2, <2>3, StoreTouches
<1> HIDE DEF T1
<1>10. /\ s \in FileState /\ s.path = p /\ s.gen = e[2] /\ s.cache = NoCache
  BY <1>0, <1>3, NewStateType DEF NewState
<1> HIDE DEF s, invs
<1>11. CASE i # 0 /\ inmem' = [inmem EXCEPT ![p] = i] /\ Finish(T1, files, entry)
  <2>1. \A q \in Path : inmem[q] # 0 => inmem'[q] = inmem[q]
    BY <1>0, <1>11
  <2> HIDE DEF i
  <2> QED BY <2>1, <1>0, <1>7, <1>11, <1>9, FinishKeeps DEF Quiet
<1>12. CASE /\ i # 0 /\ inmem' = [inmem EXCEPT ![p] = i]
            /\ Settle(T1, [files EXCEPT ![i] = s], E0, Reach({i} \cup invs), {p}, O)
  <2> DEFINE F == [files EXCEPT ![i] = s]
  <2>1. Tells({p}, O)
    BY <1>0, <1>12 DEF Tells, Open
  <2> HIDE DEF i, O
  <2>2. /\ GoodFiles(F, entry) /\ DOMAIN F = DOMAIN files
        /\ \A j \in DOMAIN files : F[j] = IF j = i THEN s ELSE files[j]
    BY <1>0, <1>6, <1>10, <1>12, ReplaceGood
  <2>3. i \in Reach({i} \cup invs)
    BY <1>6, <1>12, ReachStart
  <2>4. /\ E0 \in [Entry -> EntryRecord] /\ E0[e].idx = entry[e].idx
        /\ E0[e].invs \subseteq entry[e].invs
        /\ E0[e].db \/ E0[e] = entry[e]
        /\ E0[e].db => entry[e].db \/ HitsDb(Reach({i}))
        /\ \A x \in Entry : x # e => E0[x] = entry[x]
    BY <1>0, <1>3 DEF EntryRecord
  <2> HIDE DEF E0, F
  <2>5. GoodFiles(F, E0)
    BY <2>2, <2>4 DEF GoodFiles
  <2>6. Shrinks(T1, F, E0, {i} \cup invs)
    BY <2>2, <2>3, <2>4, <2>5, <1>6, <1>7, <1>10, <1>12 DEF Shrinks
  <2>7. Spreads(E0)
    BY <2>4, <1>3, <1>6, <1>12 DEF Spreads
  <2>8. Invalidates(T1, F, E0, {i} \cup invs, {p}, O)
    BY <2>1, <2>6, <2>7, <1>7, <1>12, <1>8 DEF Invalidates, F
  <2> QED BY <2>8
<1>13. CASE /\ i = 0 /\ Len(files) < MaxFile
            /\ inmem' = [inmem EXCEPT ![p] = Len(files) + 1]
            /\ Settle(T1, Append(files, s), [entry EXCEPT ![e].idx = Len(files) + 1],
                      Reach(invs), {p}, O)
  <2> DEFINE F == Append(files, s)
             k == Len(files) + 1
             r == [entry[e] EXCEPT !.idx = k]
             H == [entry EXCEPT ![e] = r]
  <2>1. Tells({p}, O)
    BY <1>0, <1>13 DEF Tells, Open
  <2>2. entry[e] \in EntryRecord /\ k \in 0..MaxFile
    BY <1>13, <1>0, <1>3, BoundAssumption, LenProperties DEF GoodFiles
  <2>3. r \in EntryRecord /\ r.idx = k /\ r.db = entry[e].db /\ r.invs = entry[e].invs
    BY <2>2 DEF EntryRecord
  <2>4. Settle(T1, F, H, Reach(invs), {p}, O)
    BY <1>13
  <2> HIDE DEF r, O
  <2>5. GoodFiles(F, H)
    BY <2>3, <1>0, <1>3, <1>10, <1>13, AppendGood
  <2>6. /\ DOMAIN F = 1..k /\ DOMAIN files = 1..Len(files) /\ Len(files) \in Nat
        /\ \A j \in 1..Len(files) : F[j] = files[j]
        /\ F[k] = s
    BY <1>0, <1>10, AppendProperties, LenProperties
  <2> HIDE DEF F
  <2>7. /\ DOMAIN files \subseteq DOMAIN F
        /\ \A j \in DOMAIN files : F[j] = files[j]
        /\ \A j \in DOMAIN F : j \notin DOMAIN files => F[j] = s
    BY <2>6
  <2>8. \A x \in Entry : H[x].db = entry[x].db /\ H[x].invs = entry[x].invs
    BY <2>3, <1>0, <1>3
  <2> HIDE DEF H, k
  <2>9. Shrinks(T1, F, H, invs)
    BY <2>5, <2>7, <2>8, <1>7, <1>10 DEF Shrinks
  <2>10. Spreads(H)
    BY <2>8 DEF Spreads
  <2>11. Invalidates(T1, F, H, invs, {p}, O)
    BY <2>1, <2>4, <2>9, <2>10, <1>7, <1>8 DEF Invalidates
  <2> QED BY <2>11
<1> QED BY <1>2, <1>11, <1>12, <1>13

(* didClose.                                                               *)
LEMMA CloseForm ==
  ASSUME IInv, LinkInv({}), NEW p \in Path, Close(p)
  PROVE  Quiet \/ \E T, F, E, S, N, O : Invalidates(T, F, E, S, N, O)
<1> DEFINE i == inmem[p]
           s == [files[i] EXCEPT !.code = disk[p], !.cache = NoCache]
           F == [files EXCEPT ![i] = s]
           T == IF IsFile(tree, p) THEN [tree EXCEPT ![p] = NoSlot] ELSE tree
           O == Open \ {p}
<1>1. /\ i # 0 /\ i \in DOMAIN files /\ files[i].path = p /\ files[i] \in FileState
      /\ inmem' = [inmem EXCEPT ![p] = 0] /\ inmem \in [Path -> 0..MaxFile]
      /\ GoodFiles(files, entry) /\ GoodTree(tree)
      /\ Builtins # NoPath => Builtins \in Path /\ tree[Builtins].kind = "file"
                              /\ disk[Builtins] # NoCode
  BY LayoutAssumption
  DEF Close, IInv, OpenHasState, GoodFiles, TypeOK, BuiltinsKnown
<1>2. s \in FileState /\ s.path = files[i].path /\ s.gen = files[i].gen
      /\ s.cache = NoCache
  <2>1. NoCache \in Cache /\ disk[p] \in Code \cup {NoCode}
    BY DEF NoCache, Cache, IInv, TypeOK
  <2> QED BY <1>1, <2>1 DEF FileState
<1>3. \/ UNCHANGED <<tree, entry, files>>
      \/ Settle(tree, F, entry, Reach({i}), {}, O)
      \/ disk[p] = NoCode /\ Settle(T, F, entry, Reach({i}), {}, O)
  <2>1. [files EXCEPT ![i].code = disk[p], ![i].cache = NoCache] = F
    BY <1>1 DEF GoodFiles
  <2> QED BY <2>1 DEF Close
<1>4. Tells({}, O)
  BY <1>1 DEF Tells, Open
<1> HIDE DEF s
<1>5. /\ GoodFiles(F, entry) /\ DOMAIN F = DOMAIN files
      /\ \A j \in DOMAIN files : F[j] = IF j = i THEN s ELSE files[j]
  BY <1>1, <1>2, ReplaceGood
<1>6. i \in Reach({i})
  BY <1>1, ReachStart
<1> HIDE DEF F, i, O
<1>7. Spreads(entry)
  BY DEF Spreads
<1>8. ASSUME NEW U, GoodTree(U), \A n \in Node : U[n].invs \subseteq tree[n].invs
      PROVE  Shrinks(U, F, entry, {i})
  BY <1>1, <1>2, <1>5, <1>6, <1>8 DEF Shrinks
<1>9. Spares(tree) /\ Touches(tree, {i})
  BY DEF Spares, Touches, Stays
<1>10. CASE UNCHANGED <<tree, entry, files>>
  BY <1>1, <1>10, <1>9 DEF Quiet
<1>11. CASE Settle(tree, F, entry, Reach({i}), {}, O)
  <2>1. Invalidates(tree, F, entry, {i}, {}, O)
    BY <1>1, <1>4, <1>7, <1>8, <1>11, <1>9 DEF Invalidates
  <2> QED BY <2>1
<1>12. CASE disk[p] = NoCode /\ Settle(T, F, entry, Reach({i}), {}, O)
  <2>1. NoSlot \in Slot /\ NoSlot.kind # "file" /\ NoSlot.invs = {} /\ p \in Node
    BY SlotTypes DEF NoSlot, Node
  <2>2. GoodTree(T) /\ \A n \in Node : T[n].invs \subseteq tree[n].invs
    BY <1>1, <2>1 DEF GoodTree, Node
  <2>3. Builtins # NoPath => T[Builtins].kind = "file"
    BY <1>1, <1>12 DEF GoodTree, Node
  <2>4. Touches(T, {i})
    <3>1. \A n \in Node : n # p \/ tree[p].kind # "file" => T[n] = tree[n]
      BY DEF IsFile
    <3>2. ASSUME RootDocuments, tree[p].kind = "file"
          PROVE  Walk(p) = {p} /\ Told({i}, p)
      <4>1. Steady(p)
        BY <3>2, <1>1 DEF RootDocuments, Steady
      <4>2. entry[EntryAt(tree, p)].idx = i
        BY <4>1, <1>1 DEF LinkInv, Whole, Linked, Agrees, Anchored, i
      <4> QED BY <3>2, <4>2, LayoutAssumption DEF Walk, Told
    <3> QED BY <3>1, <3>2 DEF Touches, Stays
  <2> HIDE DEF T
  <2>5. Invalidates(T, F, entry, {i}, {}, O)
    BY <2>2, <2>3, <2>4, <1>4, <1>7, <1>8, <1>12 DEF Invalidates
  <2> QED BY <2>5
<1> QED BY <1>3, <1>10, <1>11, <1>12

(* What a notification takes out of the tree or replaces is told to those  *)
(* who looked there: no document is open there when documents are opened   *)
(* in the root only, so that nothing has to be put back.                   *)
LEMMA NotifyTouches ==
  ASSUME IInv, LinkInv({}), NEW n \in Node, ~NothingToDo(n)
  PROVE  Touches(Restored(n), Start(n))
<1> SUFFICES ASSUME RootDocuments PROVE Touches(Restored(n), Start(n))
  BY DEF Touches
<1>1. Held(n) = {}
  <2>1. \A p \in Path : Steady(p)
    BY DEF RootDocuments, Steady
  <2> QED BY <2>1, HeldInside
<1>2. \A x \in Node : x \notin Walk(n) => Restored(n)[x] = tree[x]
  BY <1>1 DEF Restored, Relisted, Cut, Walk
<1>3. ASSUME NEW x \in Walk(n), x \in Node PROVE Told(Start(n), x)
  <2>1. tree[x].invs \subseteq Start(n)
    BY <1>3 DEF Start
  <2>2. ASSUME x \in Path, tree[x].kind = "file"
        PROVE  entry[EntryAt(tree, x)].idx \in Start(n) \cup {0}
    <3>1. IsFile(tree, x)
      BY <2>2, LayoutAssumption DEF IsFile, Node
    <3>2. entry[EntryAt(tree, x)].idx \in GoneIdxs(n) \cup {0}
      BY <3>1, <1>3 DEF GoneIdxs
    <3> QED BY <3>2, <1>1 DEF Start, Loose
  <2> QED BY <2>1, <2>2 DEF Told
<1>4. \A x \in Walk(n) : x \in Node /\ Walk(x) \subseteq Walk(n)
  BY LayoutAssumption DEF Walk, Inside, Node
<1> QED BY <1>2, <1>3, <1>4 DEF Touches, Stays

(* Reading a directory.                                                    *)
LEMMA EnterForm ==
  ASSUME IInv, LinkInv({}), NEW d \in Dir, Enter(d), inmem' = inmem
  PROVE  Quiet
<1>1. /\ tree' = Listing(tree, d) /\ UNCHANGED <<entry, files, inmem>>
      /\ tree[d].kind = "dir"
  BY DEF Enter
<1>2. Spares(tree')
  BY <1>1, ListingSpares DEF Spares
<1> QED BY <1>1, <1>2, ListingRegisters DEF Quiet

(* One notification.                                                       *)
LEMMA NotifyForm ==
  ASSUME IInv, LinkInv({}), Notify
  PROVE  Quiet \/ \E T, F, E, S, N, O : Invalidates(T, F, E, S, N, O)
<1>1. CASE UNCHANGED <<tree, entry, files>>
  <2>1. Spares(tree)
    BY DEF Spares, Stays
  <2> QED BY <2>1, <1>1, NotifyCases DEF Quiet
<1>2. ASSUME NEW n, n = Head(queue), ~NothingToDo(n), Replace(n)
      PROVE  \E T, F, E, S, N, O : Invalidates(T, F, E, S, N, O)
  <2>1. n \in Node /\ inmem' = inmem
    BY <1>2, NotifyCases
  <2>2. /\ GoodFiles(files, entry) /\ files \in Seq(FileState) /\ GoodTree(tree)
        /\ \A e \in Entry : entry[e] \in EntryRecord
    BY DEF IInv, GoodFiles
  <2>3. /\ NoSlot.invs = {} /\ \A r : DirSlot(r).invs = {}
        /\ \A e : FileSlot(e).invs = {}
    BY DEF NoSlot, DirSlot, FileSlot
  <2>4. \A x \in Node : Cut(n)[x].invs \subseteq tree[x].invs
    BY <2>3 DEF Cut, NewSlot
  <2>5. \A x \in Node : Restored(n)[x].invs \subseteq tree[x].invs
    <3>1. \A x \in Node : Relisted(n)[x].invs \subseteq tree[x].invs
      BY <2>4, ListingRegisters DEF Relisted
    <3> QED BY <3>1, <2>3 DEF Restored
  <2>6. ASSUME NEW U \in SUBSET Loose(n)
        PROVE  /\ GoodFiles(Unload(files, U), entry)
               /\ DOMAIN Unload(files, U) = DOMAIN files
               /\ \A j \in DOMAIN files :
                    /\ Unload(files, U)[j].path = files[j].path
                    /\ Unload(files, U)[j].gen = files[j].gen
                    /\ \/ Unload(files, U)[j] = files[j]
                       \/ /\ j \in Reach(Start(n))
                          /\ Unload(files, U)[j].cache = NoCache
    <3>1. \A j \in DOMAIN files : files[j] \in FileState
      BY <2>2
    <3>2. \A j \in DOMAIN files :
            /\ Unload(files, U)[j].gen = files[j].gen
            /\ j \in U => Unload(files, U)[j].cache = NoCache
            /\ j \notin U => Unload(files, U)[j] = files[j]
      BY <3>1 DEF Unload, FileState
    <3>3. \A j \in DOMAIN files : j \in U => j \in Reach(Start(n))
      BY ReachStart DEF Start
    <3> QED BY <3>2, <3>3, <2>1, <1>2, ReplaceParts
  <2>7. \A N : Tells(N, Open)
    BY <2>1 DEF Tells, Open
  <2>8. CASE Settle(Restored(n), Unload(files, Loose(n)), Relinked(n),
                    Reach(Start(n)), Held(n), Open)
    <3>1. \A e \in Entry : /\ Relinked(n)[e].invs = entry[e].invs
                           /\ Relinked(n)[e].db = entry[e].db
      BY <2>2 DEF Relinked, EntryRecord
    <3>2. /\ GoodTree(Restored(n))
          /\ GoodFiles(Unload(files, Loose(n)), Relinked(n))
          /\ Builtins # NoPath => Restored(n)[Builtins].kind = "file"
      BY <2>1, <1>2, ReplaceParts
    <3>3. Shrinks(Restored(n), Unload(files, Loose(n)), Relinked(n), Start(n))
      BY <3>1, <3>2, <2>5, <2>6 DEF Shrinks
    <3>4. Spreads(Relinked(n))
      BY <3>1 DEF Spreads
    <3>5. Touches(Restored(n), Start(n))
      BY <2>1, <1>2, NotifyTouches
    <3>6. Invalidates(Restored(n), Unload(files, Loose(n)), Relinked(n),
                      Start(n), Held(n), Open)
      BY <3>2, <3>3, <3>4, <3>5, <2>7, <2>8 DEF Invalidates
    <3> QED BY <3>6
  <2>9. ASSUME NEW U \in SUBSET Loose(n), HitsDb(Reach(Start(n))),
               Settle(Cut(n), Unload(files, U), entry, Reach(Start(n)), {}, Open)
        PROVE  \E T, F, E, S, N, O : Invalidates(T, F, E, S, N, O)
    <3>1. /\ GoodTree(Cut(n))
          /\ Builtins # NoPath => Cut(n)[Builtins].kind = "file"
      BY <2>1, <1>2, ReplaceParts
    <3>2. Shrinks(Cut(n), Unload(files, U), entry, Start(n))
      BY <3>1, <2>4, <2>6 DEF Shrinks
    <3>3. Spreads(entry)
      BY DEF Spreads
    <3>4. Invalidates(Cut(n), Unload(files, U), entry, Start(n), {}, Open)
      BY <3>1, <3>2, <3>3, <2>7, <2>9 DEF Invalidates
    <3> QED BY <3>4
  <2> QED BY <1>2, <2>8, <2>9, ReplaceForm
<1>3. ASSUME NEW n, n = Head(queue), Holder[n] \in Dir, Enter(Holder[n])
      PROVE  Quiet
  BY <1>3, EnterForm, NotifyCases
<1> QED BY <1>1, <1>2, <1>3, NotifyCases

(* The steps that are not about the tree or the files.                     *)
LEMMA SameForm ==
  ASSUME UNCHANGED <<tree, entry, files, inmem>>
  PROVE  Quiet
BY DEF Quiet, Spares, Stays

-----------------------------------------------------------------------------
(* The operations that only add                                            *)

(* Adding a file state.                                                    *)
LEMMA AppendKeeps ==
  ASSUME NEW F \in Seq(FileState), NEW s \in FileState
  PROVE  /\ Append(F, s) \in Seq(FileState)
         /\ DOMAIN Append(F, s) = DOMAIN F \cup {Len(F) + 1}
         /\ Len(F) + 1 \notin DOMAIN F
         /\ \A j \in DOMAIN F : Append(F, s)[j] = F[j]
         /\ Append(F, s)[Len(F) + 1] = s
<1>1. /\ Append(F, s) \in Seq(FileState)
      /\ DOMAIN Append(F, s) = 1..(Len(F) + 1) /\ DOMAIN F = 1..Len(F)
      /\ Len(F) \in Nat /\ \A j \in 1..Len(F) : Append(F, s)[j] = F[j]
      /\ Append(F, s)[Len(F) + 1] = s
  BY AppendProperties, LenProperties
<1>2. 1..(Len(F) + 1) = 1..Len(F) \cup {Len(F) + 1} /\ Len(F) + 1 \notin 1..Len(F)
  BY <1>1
<1> QED BY <1>1, <1>2

(* Who is registered where stays true for a new file state without cache.  *)
LEMMA AppendNotes ==
  ASSUME NEW F, NEW E, GoodFiles(F, E), Noted(F, E),
         NEW s \in FileState, s.cache = NoCache, NEW H,
         \A x \in Entry : H[x].db = E[x].db /\ H[x].invs = E[x].invs
  PROVE  Noted(Append(F, s), H)
<1> DEFINE G == Append(F, s)
<1>1. /\ F \in Seq(FileState) /\ G \in Seq(FileState)
      /\ DOMAIN G = DOMAIN F \cup {Len(F) + 1}
      /\ Len(F) + 1 \notin DOMAIN F
      /\ \A j \in DOMAIN F : G[j] = F[j] /\ F[j] \in FileState
      /\ G[Len(F) + 1] = s
  BY AppendKeeps DEF GoodFiles
<1>2. Uncached \notin DOMAIN G /\ NotFound \notin DOMAIN G
      /\ Namespace \notin DOMAIN G
  BY <1>1, LenProperties DEF Uncached, NotFound, Namespace
<1> HIDE DEF G
<1>3. ASSUME NEW f \in DOMAIN F, NEW m \in Mod PROVE NotedFor(G, H, f, m)
  <2> DEFINE i == F[f].cache[m]
  <2>1. G[f].cache[m] = i /\ NotedFor(F, E, f, m)
    BY <1>1 DEF Noted
  <2>2. i \in DOMAIN G => i \in DOMAIN F
    BY <2>1, <1>2 DEF NotedFor
  <2>3. i \in DOMAIN F => /\ EntryOf(G, i) = EntryOf(F, i)
                          /\ EntryOf(F, i) \in Entry /\ G[i] = F[i]
    BY <1>1 DEF EntryOf, Entry, FileState
  <2> QED BY <2>1, <2>2, <2>3, <1>1 DEF NotedFor
<1>4. ASSUME NEW m \in Mod PROVE NotedFor(G, H, Len(F) + 1, m)
  <2>1. G[Len(F) + 1].cache[m] = Uncached
    BY <1>1 DEF NoCache
  <2> QED BY <2>1, <1>2 DEF NotedFor
<1> QED BY <1>1, <1>3, <1>4 DEF Noted, G

(* Freeing entries takes no registration from a file state.                *)
LEMMA FinishNotes ==
  ASSUME NEW T, GoodTree(T), NEW F, NEW E, GoodFiles(F, E), Finish(T, F, E),
         Noted(F, E)
  PROVE  Noted(files', entry')
BY FinishKeeps DEF Noted, NotedFor

(* Operations that leave the file states and their entries alone.          *)
LEMMA QuietGains ==
  ASSUME Quiet
  PROVE  Gains({})
<1>1. \A j \in DOMAIN files : Grown(j)
  BY DEF Quiet, Grown
<1>2. Noted(files, entry) => Noted(files', entry')
  BY DEF Quiet, Noted, NotedFor
<1> QED BY <1>1, <1>2 DEF Quiet, Gains

(* v is what f caches for the import of m.                                 *)
Cachable(F, v) == v \in DOMAIN F \/ v \in {NotFound, Namespace}
Cached(F, f, m, v) == [F EXCEPT ![f].cache[m] = v]

(* Caching an import changes one cache.                                    *)
LEMMA CacheKeeps ==
  ASSUME NEW F, NEW E, GoodFiles(F, E), NEW f \in DOMAIN F, NEW m \in Mod,
         NEW v, Cachable(F, v)
  PROVE  /\ GoodFiles(Cached(F, f, m, v), E)
         /\ DOMAIN Cached(F, f, m, v) = DOMAIN F
         /\ \A j \in DOMAIN F :
              /\ Cached(F, f, m, v)[j].path = F[j].path
              /\ Cached(F, f, m, v)[j].gen = F[j].gen
              /\ Cached(F, f, m, v)[j].code = F[j].code
              /\ \A k \in Mod : Cached(F, f, m, v)[j].cache[k] =
                                  IF j = f /\ k = m THEN v ELSE F[j].cache[k]
<1> DEFINE s == [F[f] EXCEPT !.cache[m] = v]
           G == [F EXCEPT ![f] = s]
<1>1. F[f] \in FileState /\ F[f].cache \in Cache
      /\ v \in FileIndex \cup {Uncached, NotFound, Namespace}
  <2>1. F[f] \in FileState /\ DOMAIN F \subseteq FileIndex
    BY BoundAssumption, LenProperties DEF GoodFiles, FileIndex
  <2> QED BY <2>1 DEF FileState, Cachable
<1>2. /\ [F[f].cache EXCEPT ![m] = v] \in Cache
      /\ \A k \in Mod : [F[f].cache EXCEPT ![m] = v][k] =
                          IF k = m THEN v ELSE F[f].cache[k]
  BY <1>1 DEF Cache
<1>3. /\ s \in FileState /\ s.path = F[f].path /\ s.gen = F[f].gen
      /\ s.code = F[f].code /\ s.cache = [F[f].cache EXCEPT ![m] = v]
  BY <1>1, <1>2 DEF FileState
<1>4. Cached(F, f, m, v) = G
  BY DEF Cached
<1> HIDE DEF s
<1>5. /\ GoodFiles(G, E) /\ DOMAIN G = DOMAIN F
      /\ \A j \in DOMAIN F : G[j] = IF j = f THEN s ELSE F[j]
  BY <1>3, ReplaceGood
<1> HIDE DEF G
<1>6. \A j \in DOMAIN F :
        /\ G[j].path = F[j].path /\ G[j].gen = F[j].gen /\ G[j].code = F[j].code
        /\ \A k \in Mod : G[j].cache[k] =
                            IF j = f /\ k = m THEN v ELSE F[j].cache[k]
  BY <1>2, <1>3, <1>5
<1> QED BY <1>4, <1>5, <1>6

(* ... and f is noted for all of it when it is registered with v.          *)
LEMMA CacheNotes ==
  ASSUME NEW F, NEW E, GoodFiles(F, E), Noted(F, E), NEW f \in DOMAIN F,
         NEW m \in Mod, NEW v, Cachable(F, v), NEW H,
         \A x \in Entry : /\ E[x].db => H[x].db
                          /\ E[x].invs \subseteq H[x].invs,
         v \in DOMAIN F /\ Steady(F[v].path) =>
           H[EntryOf(F, v)].db \/ f \in H[EntryOf(F, v)].invs
  PROVE  Noted(Cached(F, f, m, v), H)
<1> DEFINE G == Cached(F, f, m, v)
<1>1. \A j \in DOMAIN F : EntryOf(F, j) \in Entry
  <2>1. \A j \in DOMAIN F : F[j] \in FileState
    BY DEF GoodFiles
  <2> QED BY <2>1 DEF FileState, EntryOf, Entry
<1>2. /\ DOMAIN G = DOMAIN F
      /\ \A j \in DOMAIN F :
           /\ G[j].path = F[j].path /\ G[j].gen = F[j].gen
           /\ \A k \in Mod : G[j].cache[k] =
                               IF j = f /\ k = m THEN v ELSE F[j].cache[k]
  BY CacheKeeps
<1> HIDE DEF G
<1>3. \A j \in DOMAIN F : EntryOf(G, j) = EntryOf(F, j)
  BY <1>2 DEF EntryOf
<1>4. ASSUME NEW j \in DOMAIN F, NEW k \in Mod PROVE NotedFor(G, H, j, k)
  <2>1. CASE j = f /\ k = m
    BY <2>1, <1>2, <1>3 DEF NotedFor, Cachable
  <2>2. CASE ~(j = f /\ k = m)
    <3>1. NotedFor(F, E, j, k) /\ G[j].cache[k] = F[j].cache[k]
      BY <2>2, <1>2 DEF Noted
    <3> QED BY <3>1, <1>1, <1>2, <1>3 DEF NotedFor
  <2> QED BY <2>1, <2>2
<1> QED BY <1>2, <1>4 DEF Noted, G

(* Registering a dependent.                                                *)
LEMMA AddInvNotes ==
  ASSUME NEW E, E \in [Entry -> EntryRecord], NEW e \in Entry, NEW f
  PROVE  /\ \A x \in Entry : /\ AddInv(E, e, f)[x].db = E[x].db
                             /\ E[x].invs \subseteq AddInv(E, e, f)[x].invs
                             /\ AddInv(E, e, f)[x].invs \subseteq E[x].invs \cup {f}
         /\ AddInv(E, e, f)[e].db \/ f \in AddInv(E, e, f)[e].invs
BY DEF AddInv, EntryRecord

(* The tree in which the lookup of m searches, and the one it leaves.      *)
Searched(m) == IF IsDir(tree, Package[m]) THEN Listing(tree, Package[m]) ELSE tree
Named(f, m) == AddMissing(Searched(m), MissingNames(Searched(m), m), f)

(* f caches in G what the lookup of m finds.                               *)
Resolves(f, m, G) ==
  LET p == Target(Searched(m), m)
      v == G[f].cache[m]
  IN  IF p = NoPath
      THEN v = IF IsDir(Searched(m), Package[m]) THEN Namespace ELSE NotFound
      ELSE /\ v \in DOMAIN G /\ G[v].path = p
           /\ Steady(p) => EntryOf(G, v) = EntryAt(Searched(m), p)

(* The file states G and the entries E of an import of m by f.             *)
Adds(f, m, G, E) ==
  /\ GoodFiles(G, E)
  /\ DOMAIN files \subseteq DOMAIN G
  /\ \A j \in DOMAIN files :
       /\ G[j].path = files[j].path /\ G[j].code = files[j].code
       /\ G[j].gen = files[j].gen
       /\ \A n \in Mod : /\ files[j].cache[n] \in {G[j].cache[n], Uncached}
                         /\ (j = f /\ n = m) \/ G[j].cache[n] = files[j].cache[n]
  /\ \A j \in DOMAIN G : j \notin DOMAIN files => G[j].cache = NoCache
  /\ G[f].cache[m] # Uncached
  /\ Resolves(f, m, G)
  /\ \A x \in Entry : /\ E[x].invs \subseteq entry[x].invs \cup {f}
                      /\ E[x].db = entry[x].db
  /\ Noted(files, entry) => Noted(G, E)

(* An import: f is registered with the target it caches.                   *)
LEMMA ImportForm ==
  ASSUME IInv, LinkInv({}), NEW f \in FileIndex, NEW m \in Mod, Import(f, m)
  PROVE  /\ f \in DOMAIN files /\ inmem' = inmem
         /\ \E G, E : Adds(f, m, G, E) /\ Finish(Named(f, m), G, E)
         /\ GoodTree(Named(f, m)) /\ GoodTree(Searched(m)) /\ Listed(Searched(m))
         /\ \A n \in Node : Named(f, m)[n].invs \subseteq tree[n].invs \cup {f}
<1> DEFINE d  == Package[m]
           T0 == IF IsDir(tree, d) THEN Listing(tree, d) ELSE tree
           T1 == AddMissing(T0, MissingNames(T0, m), f)
           p  == Target(T0, m)
           e  == EntryAt(T0, p)
           i  == entry[e].idx
           F(v) == Cached(files, f, m, v)
           k  == Len(files) + 1
           s  == NewState(e, NoCode)
           H  == [entry EXCEPT ![e].idx = k]
<1>1. /\ GoodTree(T0) /\ Listed(T0)
      /\ \A n \in Node : T0[n].invs \subseteq tree[n].invs
  <2>1. CASE IsDir(tree, d)
    <3>1. d \in Dir /\ CanList(d)
      BY <2>1, LayoutAssumption DEF IsDir, Import
    <3> QED BY <2>1, <3>1, ListingWhole, ListingRegisters
  <2>2. CASE ~IsDir(tree, d)
    BY <2>2 DEF IInv, LinkInv
  <2> QED BY <2>1, <2>2
<1> DEFINE w == IF IsDir(T0, d) THEN Namespace ELSE NotFound
<1>2. \A G : Resolves(f, m, G) <=>
         IF p = NoPath THEN G[f].cache[m] = w
         ELSE /\ G[f].cache[m] \in DOMAIN G /\ G[G[f].cache[m]].path = p
              /\ Steady(p) => EntryOf(G, G[f].cache[m]) = e
  BY DEF Resolves, Searched
<1>3. T0 = Searched(m) /\ T1 = Named(f, m) /\ w \in {NotFound, Namespace}
  BY DEF Searched, Named
<1>4. /\ f \in DOMAIN files /\ files[f].cache[m] = Uncached /\ inmem' = inmem
      /\ \/ /\ p = NoPath
            /\ Finish(T1, F(w), entry)
         \/ /\ p # NoPath /\ i # 0
            /\ Finish(T1, F(i), AddInv(entry, e, f))
         \/ /\ p # NoPath /\ i = 0 /\ Len(files) < MaxFile
            /\ Finish(T1, Append(F(k), s), AddInv(H, e, f))
  BY DEF Import, Cached
<1>5. p # NoPath => e \in Entry /\ e[1] = p /\ e = <<p, e[2]>>
  <2> SUFFICES ASSUME p # NoPath
               PROVE  e \in Entry /\ e[1] = p /\ e = <<p, e[2]>>
    OBVIOUS
  <2>1. p \in Path /\ T0[p].kind = "file"
    BY TargetIsFile
  <2> QED BY <1>1, <2>1 DEF GoodTree, EntryAt, Entry
<1> HIDE DEF T0, p, e, w
<1>6. /\ GoodFiles(files, entry) /\ files \in Seq(FileState)
      /\ entry \in [Entry -> EntryRecord] /\ Exact(files, entry)
      /\ \A x \in Entry : entry[x] \in EntryRecord
      /\ Len(files) \in Nat /\ DOMAIN files = 1..Len(files)
  BY LenProperties DEF IInv, GoodFiles, LinkInv, Whole, Linked
<1>7. GoodTree(T1) /\ \A n \in Node : T1[n].invs \subseteq tree[n].invs \cup {f}
  <2>1. \A n \in Node : T0[n] \in Slot /\ MissingSlot({f}).invs = {f}
    BY <1>1 DEF GoodTree, MissingSlot
  <2>2. \A n \in Node : T1[n].invs \subseteq T0[n].invs \cup {f}
    BY <2>1 DEF AddMissing, Slot
  <2> QED BY <1>1, <2>2, AddMissingGood
<1> HIDE DEF T1
<1>8. Uncached \notin {NotFound, Namespace} /\ \A n \in Nat : Uncached \notin 1..n
      /\ \A x \in Nat : NotFound \notin 1..x /\ Namespace \notin 1..x
  BY DEF Uncached, NotFound, Namespace
<1>9. ASSUME p = NoPath, NEW v, v = w
      PROVE  Adds(f, m, F(v), entry)
  <2>0. Cachable(files, v) /\ v \notin DOMAIN files /\ v # Uncached
    BY <1>6, <1>8, <1>9, <1>3 DEF Cachable
  <2>1. /\ GoodFiles(F(v), entry) /\ DOMAIN F(v) = DOMAIN files
        /\ \A j \in DOMAIN files :
             /\ F(v)[j].path = files[j].path /\ F(v)[j].code = files[j].code
             /\ F(v)[j].gen = files[j].gen
             /\ \A n \in Mod : F(v)[j].cache[n] =
                                 IF j = f /\ n = m THEN v ELSE files[j].cache[n]
    <3>1. f \in DOMAIN files /\ Cachable(files, v) /\ GoodFiles(files, entry)
      BY <2>0, <1>4, <1>6
    <3> QED BY <3>1, CacheKeeps
  <2>2. Noted(files, entry) => Noted(F(v), entry)
    BY <2>0, <1>4, <1>6, CacheNotes
  <2>3. F(v)[f].cache[m] = v
    BY <2>1, <1>4
  <2>4. Resolves(f, m, F(v))
    BY <2>3, <1>9, <1>2
  <2> HIDE DEF F
  <2> QED BY <2>0, <2>1, <2>2, <2>3, <2>4, <1>4, <1>8 DEF Adds
<1>10. ASSUME p # NoPath, i # 0
      PROVE  Adds(f, m, F(i), AddInv(entry, e, f))
  <2> DEFINE E == AddInv(entry, e, f)
  <2>0. f \in DOMAIN files
    BY <1>4
  <2>1. /\ \A x \in Entry : /\ E[x].db = entry[x].db
                            /\ entry[x].invs \subseteq E[x].invs
                            /\ E[x].invs \subseteq entry[x].invs \cup {f}
        /\ E[e].db \/ f \in E[e].invs
        /\ GoodFiles(files, E)
    BY <1>5, <1>6, <1>10, AddInvNotes, AddInvGood
  <2>2. /\ i \in DOMAIN files /\ Cachable(files, i) /\ files[i].path = p
        /\ Steady(files[i].path) => EntryOf(files, i) = e
    <3>1. i \in DOMAIN files /\ files[i].path = p
      <4>1. e \in Entry /\ e[1] = p
        BY <1>5, <1>10
      <4>2. entry[e].idx # 0
        BY <1>10
      <4> HIDE DEF i
      <4> QED BY <1>6, <4>1, <4>2 DEF GoodFiles, i
    <3>2. Steady(p) => files[i].gen = e[2]
      BY <1>5, <1>6, <1>10 DEF Exact
    <3> QED BY <3>1, <3>2, <1>5, <1>10 DEF EntryOf, Cachable
  <2> HIDE DEF E
  <2>3. /\ GoodFiles(F(i), E) /\ DOMAIN F(i) = DOMAIN files
        /\ \A j \in DOMAIN files :
             /\ F(i)[j].path = files[j].path /\ F(i)[j].code = files[j].code
             /\ F(i)[j].gen = files[j].gen
             /\ \A n \in Mod : F(i)[j].cache[n] =
                                 IF j = f /\ n = m THEN i ELSE files[j].cache[n]
    <3> HIDE DEF i
    <3> QED BY <2>0, <2>1, <2>2, CacheKeeps
  <2>4. Noted(files, entry) => Noted(F(i), E)
    <3> HIDE DEF i
    <3> QED BY <2>0, <2>1, <2>2, <1>6, CacheNotes
  <2> HIDE DEF F
  <2>5. F(i)[f].cache[m] = i
    BY <2>3, <1>4
  <2>6. EntryOf(F(i), i) = EntryOf(files, i)
    BY <2>2, <2>3 DEF EntryOf
  <2>7. Resolves(f, m, F(i))
    <3> HIDE DEF i
    <3> QED BY <2>2, <2>3, <2>5, <2>6, <1>10, <1>2
  <2> HIDE DEF i
  <2> QED BY <2>1, <2>2, <2>3, <2>4, <2>5, <2>7, <1>4, <1>6, <1>8 DEF Adds, E
<1>11. ASSUME p # NoPath, i = 0, Len(files) < MaxFile
      PROVE  Adds(f, m, Append(F(k), s), AddInv(H, e, f))
  <2> DEFINE B == Append(files, s)
             C == Cached(B, f, m, k)
             E == AddInv(H, e, f)
             r == [entry[e] EXCEPT !.idx = k]
  <2>1. s \in FileState /\ s.path = e[1] /\ s.gen = e[2] /\ s.cache = NoCache
    BY <1>5, <1>11, NewStateType DEF NewState
  <2>2. entry[e] \in EntryRecord /\ k \in 0..MaxFile /\ k \in FileIndex
    BY <1>5, <1>6, <1>11, BoundAssumption DEF FileIndex
  <2>3. r \in EntryRecord /\ r.idx = k /\ r.db = entry[e].db /\ r.invs = entry[e].invs
    BY <2>2 DEF EntryRecord
  <2> HIDE DEF r, s
  <2>4. GoodFiles(B, [entry EXCEPT ![e] = r])
    BY <2>1, <2>3, <1>5, <1>6, <1>11, AppendGood
  <2>5. H = [entry EXCEPT ![e] = r]
    BY DEF r
  <2>6. /\ H \in [Entry -> EntryRecord]
        /\ \A x \in Entry : H[x].db = entry[x].db /\ H[x].invs = entry[x].invs
    BY <2>3, <2>5, <1>5, <1>6, <1>11
  <2> HIDE DEF H
  <2>7. /\ B \in Seq(FileState) /\ DOMAIN B = DOMAIN files \cup {k}
        /\ k \notin DOMAIN files /\ B[k] = s
        /\ \A j \in DOMAIN files : B[j] = files[j]
    BY <2>1, <1>6, AppendKeeps
  <2>8. /\ \A x \in Entry : /\ E[x].db = H[x].db
                            /\ H[x].invs \subseteq E[x].invs
                            /\ E[x].invs \subseteq H[x].invs \cup {f}
        /\ E[e].db \/ f \in E[e].invs
        /\ GoodFiles(B, E)
    <3>1. e \in Entry /\ GoodFiles(B, H)
      BY <2>4, <2>5, <1>5, <1>11
    <3> HIDE DEF B
    <3> QED BY <3>1, <2>6, AddInvNotes, AddInvGood
  <2>9. EntryOf(B, k) = e /\ Cachable(B, k)
    BY <2>1, <2>7, <1>5, <1>11 DEF EntryOf, Cachable
  <2>10. Append(F(k), s) = C
    <3> DEFINE u == [files[f] EXCEPT !.cache[m] = k]
               Z == [files EXCEPT ![f] = u]
    <3>1. F(k) = Z /\ C = [B EXCEPT ![f] = u]
      BY <2>7, <1>4 DEF Cached
    <3>2. u \in FileState
      <4>1. files[f] \in FileState
        BY <1>4, <1>6
      <4>2. [files[f].cache EXCEPT ![m] = k] \in Cache
        BY <4>1, <2>2 DEF FileState, Cache
      <4> QED BY <4>1, <4>2 DEF FileState
    <3> HIDE DEF u
    <3>3. Z \in Seq(FileState) /\ Len(Z) = Len(files)
      BY <3>2, <1>4, <1>6, ExceptSeq
    <3>4. \A j \in DOMAIN files : Z[j] = IF j = f THEN u ELSE files[j]
      BY <1>4
    <3> HIDE DEF Z
    <3>5. /\ Append(Z, s) \in Seq(FileState) /\ Len(Append(Z, s)) = k
          /\ \A j \in DOMAIN files : Append(Z, s)[j] = Z[j]
          /\ Append(Z, s)[k] = s
      BY <3>3, <2>1, <1>6, AppendProperties
    <3>6. [B EXCEPT ![f] = u] \in Seq(FileState) /\ Len([B EXCEPT ![f] = u]) = k
      BY <3>2, <2>1, <2>7, <1>4, <1>6, ExceptSeq, AppendProperties
    <3>7. /\ \A j \in DOMAIN B : [B EXCEPT ![f] = u][j] = IF j = f THEN u ELSE B[j]
          /\ 1..k = DOMAIN files \cup {k} /\ k # f
      <4>1. \A j \in DOMAIN B : [B EXCEPT ![f] = u][j] = IF j = f THEN u ELSE B[j]
        OBVIOUS
      <4>2. 1..k = DOMAIN files \cup {k}
        BY <1>6
      <4> HIDE DEF k
      <4> QED BY <4>1, <4>2, <2>7, <1>4
    <3> HIDE DEF B, k
    <3>8. \A j \in 1..k : Append(Z, s)[j] = [B EXCEPT ![f] = u][j]
      BY <3>4, <3>5, <3>7, <2>7, <1>4
    <3>9. Append(Z, s) = [B EXCEPT ![f] = u]
      BY <3>5, <3>6, <3>8, SeqEqual
    <3> QED BY <3>1, <3>9
  <2> HIDE DEF B, E, k
  <2>11. /\ GoodFiles(C, E) /\ DOMAIN C = DOMAIN B
         /\ \A j \in DOMAIN B :
              /\ C[j].path = B[j].path /\ C[j].code = B[j].code
              /\ C[j].gen = B[j].gen
              /\ \A n \in Mod : C[j].cache[n] =
                                  IF j = f /\ n = m THEN k ELSE B[j].cache[n]
    BY <2>7, <2>8, <2>9, <1>4, CacheKeeps
  <2>12. Noted(files, entry) => Noted(C, E)
    <3> SUFFICES ASSUME Noted(files, entry) PROVE Noted(C, E)
      OBVIOUS
    <3>1. Noted(B, H)
      BY <2>1, <2>6, <1>6, AppendNotes DEF B
    <3>2. GoodFiles(B, H)
      BY <2>4, <2>5
    <3> QED BY <3>1, <3>2, <2>7, <2>8, <2>9, <1>4, CacheNotes
  <2>13. k # Uncached
    BY <1>6 DEF k, Uncached
  <2> HIDE DEF C, F
  <2>14. C[f].cache[m] = k /\ k \in DOMAIN C /\ C[k].path = p /\ EntryOf(C, k) = e
    BY <2>1, <2>7, <2>9, <2>11, <1>4, <1>5, <1>11 DEF EntryOf
  <2>15. Resolves(f, m, C)
    BY <2>14, <1>11, <1>2
  <2>16. \A j \in DOMAIN C : j \notin DOMAIN files => C[j].cache = NoCache
    <3>1. \A j \in DOMAIN C : j \notin DOMAIN files => j = k
      BY <2>7, <2>11
    <3>2. C[k].cache = NoCache
      <4>1. C[k].cache \in Cache
        <5>1. C[k] \in FileState
          BY <2>14, <2>11 DEF GoodFiles
        <5> QED BY <5>1 DEF FileState
      <4>2. \A n \in Mod : C[k].cache[n] = NoCache[n]
        BY <2>1, <2>7, <2>11, <1>4
      <4> QED BY <4>1, <4>2 DEF Cache, NoCache
    <3> QED BY <3>1, <3>2
  <2>17. Adds(f, m, C, E)
    BY <2>6, <2>7, <2>8, <2>11, <2>12, <2>13, <2>14, <2>15, <2>16, <1>4 DEF Adds
  <2> QED BY <2>10, <2>17 DEF E
<1> HIDE DEF F, i, k, s, H
<1> QED BY <1>1, <1>4, <1>7, <1>9, <1>10, <1>11, <1>3

(* An import adds at most the importing file to what is registered, and    *)
(* leaves it with something cached.                                        *)
LEMMA ImportGains ==
  ASSUME IInv, LinkInv({}), NEW f \in FileIndex, NEW m \in Mod, Import(f, m)
  PROVE  /\ f \in DOMAIN files /\ Gains({f})
         /\ files'[f].cache[m] # Uncached
<1>1. f \in DOMAIN files /\ inmem' = inmem
  BY ImportForm
<1> DEFINE T == Named(f, m)
<1>2. PICK G, E : Adds(f, m, G, E) /\ Finish(T, G, E)
  BY ImportForm
<1>3. GoodTree(T) /\ \A n \in Node : T[n].invs \subseteq tree[n].invs \cup {f}
  BY ImportForm
<1> HIDE DEF T
<1>4. /\ GoodFiles(G, E) /\ DOMAIN files \subseteq DOMAIN G
      /\ \A j \in DOMAIN files :
           /\ G[j].path = files[j].path /\ G[j].code = files[j].code
           /\ \A n \in Mod : files[j].cache[n] \in {G[j].cache[n], Uncached}
      /\ G[f].cache[m] # Uncached
      /\ \A x \in Entry : /\ E[x].invs \subseteq entry[x].invs \cup {f}
                          /\ E[x].db = entry[x].db
      /\ Noted(files, entry) => Noted(G, E)
  BY <1>2 DEF Adds
<1>5. /\ tree' = T /\ files' = G
      /\ \A x \in Entry : /\ entry'[x].invs \subseteq E[x].invs
                          /\ entry'[x].db => E[x].db
  BY <1>2, <1>4, <1>3, FinishKeeps
<1>6. Noted(files, entry) => Noted(files', entry')
  BY <1>2, <1>4, <1>3, FinishNotes
<1>7. \A j \in DOMAIN files : Grown(j)
  BY <1>4, <1>5 DEF Grown
<1> QED BY <1>1, <1>4, <1>5, <1>6, <1>7, <1>3 DEF Gains

(* Reading the code of a file state that has none.                         *)
LEMMA LoadGains ==
  ASSUME IInv, NEW i \in FileIndex, Load(i)
  PROVE  Gains({})
<1> DEFINE s == [files[i] EXCEPT !.code = disk[files[i].path]]
           F == [files EXCEPT ![i] = s]
<1>1. i \in DOMAIN files /\ files[i] \in FileState /\ files[i].code = NoCode
      /\ UNCHANGED <<tree, entry, inmem>> /\ GoodFiles(files, entry)
      /\ files' = F
  BY DEF Load, IInv, GoodFiles
<1>2. /\ s \in FileState /\ s.path = files[i].path /\ s.gen = files[i].gen
      /\ s.cache = files[i].cache
  <2>1. disk[files[i].path] \in Code \cup {NoCode}
    BY <1>1 DEF IInv, TypeOK, FileState
  <2> QED BY <1>1, <2>1 DEF FileState
<1> HIDE DEF s
<1>3. /\ DOMAIN F = DOMAIN files
      /\ \A j \in DOMAIN files : F[j] = IF j = i THEN s ELSE files[j]
  BY <1>1, <1>2, ReplaceGood
<1> HIDE DEF F
<1>4. \A j \in DOMAIN files : Grown(j)
  BY <1>1, <1>2, <1>3 DEF Grown
<1>5. \A j \in DOMAIN files : /\ F[j].path = files[j].path
                              /\ F[j].cache = files[j].cache
                              /\ EntryOf(F, j) = EntryOf(files, j)
  BY <1>2, <1>3 DEF EntryOf
<1>6. Noted(files, entry) => Noted(files', entry')
  BY <1>1, <1>3, <1>5 DEF Noted, NotedFor
<1> QED BY <1>1, <1>4, <1>6 DEF Gains

(* Loading a file of the tree that has no index yet.                       *)
LEMMA LoadEntryGains ==
  ASSUME IInv, NEW p \in Path, LoadEntry(p)
  PROVE  Gains({})
<1> DEFINE e == EntryAt(tree, p)
           s == NewState(e, disk[p])
           r == [entry[e] EXCEPT !.idx = Len(files) + 1]
           F == Append(files, s)
           E == [entry EXCEPT ![e] = r]
<1>1. /\ e \in Entry /\ GoodTree(tree) /\ GoodFiles(files, entry)
      /\ files \in Seq(FileState) /\ Len(files) < MaxFile /\ inmem' = inmem
      /\ Finish(tree, F, E) /\ e[1] = p
  BY DEF LoadEntry, IsFile, IInv, GoodTree, GoodFiles, EntryAt, Entry
<1>2. s \in FileState /\ s.path = e[1] /\ s.cache = NoCache
  BY <1>1, NewStateType DEF IInv, TypeOK, NewState
<1>3. /\ r \in EntryRecord /\ r.idx = Len(files) + 1
      /\ r.db = entry[e].db /\ r.invs = entry[e].invs
  <2>1. entry[e] \in EntryRecord /\ Len(files) + 1 \in 0..MaxFile
    BY <1>1, BoundAssumption, LenProperties DEF GoodFiles
  <2> QED BY <2>1 DEF EntryRecord
<1> HIDE DEF e, s, r
<1>4. GoodFiles(F, E) /\ \A x \in Entry : E[x].db = entry[x].db
                                            /\ E[x].invs = entry[x].invs
  <2>1. \A x \in Entry : E[x].db = entry[x].db /\ E[x].invs = entry[x].invs
    BY <1>1, <1>3 DEF GoodFiles
  <2> QED BY <2>1, <1>1, <1>2, <1>3, AppendGood
<1>5. DOMAIN files \subseteq DOMAIN F /\ \A j \in DOMAIN files : F[j] = files[j]
  BY <1>1, <1>2, AppendKeeps
<1>6. Noted(files, entry) => Noted(F, E)
  <2> HIDE DEF E
  <2> QED BY <1>1, <1>2, <1>4, AppendNotes
<1> HIDE DEF F, E
<1>7. /\ tree' = tree /\ files' = F
      /\ \A x \in Entry : /\ entry'[x].invs \subseteq E[x].invs
                          /\ entry'[x].db => E[x].db
  BY <1>1, <1>4, FinishKeeps
<1>8. Noted(files, entry) => Noted(files', entry')
  BY <1>1, <1>4, <1>6, FinishNotes
<1>9. \A j \in DOMAIN files : Grown(j)
  BY <1>5, <1>7 DEF Grown
<1> QED BY <1>1, <1>4, <1>7, <1>8, <1>9 DEF Gains

(* Every step but a recovery invalidates from somewhere or only adds.      *)
LEMMA StepForm ==
  ASSUME IInv, LinkInv({}), [Next]_vars, ~Recover
  PROVE  \/ \E T, F, E, S, N, O : Invalidates(T, F, E, S, N, O)
         \/ Gains({})
         \/ \E f \in DOMAIN files, m \in Mod :
              Import(f, m) /\ Gains({f}) /\ files'[f].cache[m] # Uncached
<1>1. ASSUME NEW f \in FileIndex, NEW m \in Mod, Import(f, m)
      PROVE  f \in DOMAIN files /\ Gains({f}) /\ files'[f].cache[m] # Uncached
  BY <1>1, ImportGains
<1>2. ASSUME NEW i \in FileIndex, Load(i) PROVE Gains({})
  BY <1>2, LoadGains
<1>3. ASSUME NEW p \in Path, LoadEntry(p) PROVE Gains({})
  BY <1>3, LoadEntryGains
<1>4. ASSUME NEW d \in Dir, ReadDir(d) PROVE Gains({})
  BY <1>4, EnterForm, QuietGains DEF ReadDir
<1>5. ASSUME NEW p \in Path, NEW c \in Code, StoreInMemory(p, c)
      PROVE  Gains({}) \/ \E T, F, E, S, N, O : Invalidates(T, F, E, S, N, O)
  BY <1>5, StoreForm, QuietGains
<1>6. ASSUME NEW p \in Path, Close(p)
      PROVE  Gains({}) \/ \E T, F, E, S, N, O : Invalidates(T, F, E, S, N, O)
  BY <1>6, CloseForm, QuietGains
<1>7. ASSUME Notify
      PROVE  Gains({}) \/ \E T, F, E, S, N, O : Invalidates(T, F, E, S, N, O)
  BY <1>7, NotifyForm, QuietGains
<1>8. ASSUME UNCHANGED <<tree, entry, files, inmem>> PROVE Gains({})
  BY <1>8, SameForm, QuietGains
<1>9. Publish \/ DiskNext \/ UNCHANGED vars => UNCHANGED <<tree, entry, files, inmem>>
  BY DEF Publish, DiskNext, WriteDisk, DeleteDisk, MakeDir, RemoveDir, vars
<1> QED
  BY <1>1, <1>2, <1>3, <1>4, <1>5, <1>6, <1>7, <1>8, <1>9 DEF Next, DatabaseNext

(* What a recovery leaves: nothing is cached and nobody registered.        *)
LEMMA RecoverClears ==
  ASSUME IInv, LinkInv({}), Recover
  PROVE  /\ Registered(tree', entry', {}) /\ Noted(files', entry')
         /\ \A j \in DOMAIN files' : files'[j].cache = NoCache
         /\ \A e \in Entry : entry'[e].db =>
              \/ e[1] = Builtins
              \/ \E x \in Entry : x[1] = e[1] /\ entry[x].db
         /\ panics' # panics
         /\ \A p \in Path : inmem'[p] # 0 => inmem[p] # 0 /\ p \in changed'
<1>1. PICK o \in Orders : /\ Regenerate(Rebuilt(o), Saved(o), Reentered(o))
                          /\ inmem' = Reopened(o)
  BY RecoverForm
<1>2. /\ GoodTree(Rebuilt(o)) /\ GoodFiles(Saved(o), Reentered(o))
      /\ Builtins # NoPath => Rebuilt(o)[Builtins].kind = "file"
      /\ DOMAIN Saved(o) = DOMAIN o
      /\ \A k \in DOMAIN o :
           /\ o[k] \in DOMAIN files
           /\ Saved(o)[k] = NewState(<<files[o[k]].path, 1>>, files[o[k]].code)
      /\ disk \in [Path -> Code \cup {NoCode}] /\ panics \in Nat
  BY RecoverParts DEF IInv, TypeOK
<1>3. \A k \in DOMAIN Saved(o) : Saved(o)[k].cache = NoCache
  BY <1>2 DEF NewState
<1>4. \A p : Place(o, p) # 0 => Place(o, p) \in DOMAIN o
                                  /\ files[o[Place(o, p)]].path = p
  BY PlaceGood
<1>5. ASSUME NEW e \in Entry
      PROVE  /\ Reentered(o)[e].invs = {}
             /\ Reentered(o)[e].db => \E x \in Entry : x[1] = e[1] /\ entry[x].db
  <2>1. CASE e[2] = 1 /\ Place(o, e[1]) # 0
    <3> DEFINE i == o[Place(o, e[1])]
    <3>1. i \in DOMAIN files /\ files[i].path = e[1]
      BY <2>1, <1>2, <1>4
    <3>2. EntryOf(files, i) \in Entry /\ EntryOf(files, i)[1] = e[1]
      BY <3>1, LiveEntries DEF IInv, GoodFiles
    <3>3. Reentered(o)[e].invs = {}
          /\ Reentered(o)[e].db = entry[EntryOf(files, i)].db
      BY <2>1 DEF Reentered
    <3> QED BY <3>2, <3>3
  <2>2. CASE ~(e[2] = 1 /\ Place(o, e[1]) # 0)
    <3>1. Reentered(o)[e] = BlankEntry
      BY <2>2 DEF Reentered
    <3> QED BY <3>1 DEF BlankEntry
  <2> QED BY <2>1, <2>2
<1>6. /\ tree' = Rebuilt(o) /\ files' \in Seq(FileState)
      /\ \A j \in DOMAIN Saved(o) : files'[j].cache = Saved(o)[j].cache
      /\ \A j \in DOMAIN files' : j \notin DOMAIN Saved(o) => files'[j].cache = NoCache
      /\ \A x \in Entry : /\ entry'[x].invs \subseteq Reentered(o)[x].invs
                          /\ entry'[x].db => Reentered(o)[x].db \/ x[1] = Builtins
  BY <1>1, <1>2, RegenerateKeeps
<1>7. \A n \in Node : Rebuilt(o)[n].invs = {}
  <2>1. /\ NoSlot.invs = {} /\ \A r : DirSlot(r).invs = {}
        /\ \A e : FileSlot(e).invs = {}
    BY DEF NoSlot, DirSlot, FileSlot
  <2> QED BY <2>1 DEF Rebuilt
<1>8. Registered(tree', entry', {})
  BY <1>5, <1>6, <1>7 DEF Registered
<1>9. \A j \in DOMAIN files' : files'[j].cache = NoCache
  BY <1>3, <1>6
<1>10. Noted(files', entry')
  <2>1. \A j \in DOMAIN files', m \in Mod : files'[j].cache[m] = Uncached
    BY <1>9 DEF NoCache
  <2>2. Uncached \notin DOMAIN files'
    BY <1>6, LenProperties DEF Uncached
  <2> QED BY <2>1, <2>2 DEF Noted, NotedFor
<1>11. panics' # panics
  BY <1>2, RecoverForm
<1>12. ASSUME NEW p \in Path, inmem'[p] # 0 PROVE inmem[p] # 0 /\ p \in changed'
  <2>1. p \in Open
    BY <1>1, <1>12 DEF Reopened
  <2>2. inmem[p] \in DOMAIN files /\ files[inmem[p]].path = p
    BY <2>1 DEF IInv, OpenHasState, Open
  <2>3. p \in Reannounced
    BY <2>1, <2>2 DEF Reannounced
  <2> QED BY <2>1, <2>3, RecoverForm DEF Open
<1> QED BY <1>5, <1>6, <1>8, <1>10, <1>11, <1>12, <1>9

-----------------------------------------------------------------------------
(* The inductive invariant: importers are file states, and noted           *)

DepInv ==
  /\ IInv
  /\ LinkInv({})
  /\ Registered(tree, entry, DOMAIN files)
  /\ Noted(files, entry)

(* The database starts with no importers and nothing cached.               *)
LEMMA InitDeps == Init => DepInv
<1> SUFFICES ASSUME Init PROVE DepInv
  OBVIOUS
<1>1. IInv /\ LinkInv({})
  BY InitGood, InitLinks
<1>2. /\ NoSlot.invs = {} /\ \A r : DirSlot(r).invs = {}
      /\ \A e : FileSlot(e).invs = {}
      /\ BlankEntry.invs = {}
  BY DEF NoSlot, DirSlot, FileSlot, BlankEntry
<1>3. \A n \in Node : tree[n].invs = {}
  BY <1>2 DEF Init
<1>4. \A e \in Entry : entry[e].invs = {}
  <2>1. \A e \in Entry : entry[e] = [idx |-> 1, invs |-> {}, db |-> TRUE]
                           \/ entry[e] = BlankEntry
    BY DEF Init
  <2> QED BY <2>1, <1>2
<1>5. \A j \in DOMAIN files : files[j].cache = NoCache
  BY DEF Init, NewState
<1>6. files \in Seq(FileState)
  BY <1>1 DEF IInv, GoodFiles
<1>7. Uncached \notin DOMAIN files
  BY <1>6, LenProperties DEF Uncached
<1>8. Noted(files, entry)
  BY <1>5, <1>7 DEF Noted, NotedFor, NoCache
<1> QED BY <1>1, <1>3, <1>4, <1>8 DEF DepInv, Registered

(* Every step keeps the importers registered and noted: a recovery clears  *)
(* both, an invalidation takes both back together, and everything else     *)
(* only adds the importing file.                                           *)
LEMMA StepDeps == DepInv /\ [Next]_vars => DepInv'
<1> SUFFICES ASSUME DepInv, [Next]_vars PROVE DepInv'
  OBVIOUS
<1>1. IInv /\ LinkInv({}) /\ Registered(tree, entry, DOMAIN files)
      /\ Noted(files, entry)
  BY DEF DepInv
<1>2. IInv' /\ LinkInv({})'
  BY <1>1, StepGood, StepLinks
<1>3. Registered(tree', entry', DOMAIN files') /\ Noted(files', entry')
  <2>1. CASE Recover
    BY <2>1, <1>1, RecoverClears DEF Registered
  <2>2. ASSUME NEW T, NEW F, NEW E, NEW S, NEW N, NEW O, Invalidates(T, F, E, S, N, O)
        PROVE  Registered(tree', entry', DOMAIN files') /\ Noted(files', entry')
    <3>1. /\ Shrinks(T, F, E, S) /\ Settle(T, F, E, Reach(S), N, O)
          /\ Builtins # NoPath => T[Builtins].kind = "file"
      BY <2>2 DEF Invalidates
    <3>2. Registered(tree', entry', DOMAIN files) /\ Noted(files', entry')
      BY <3>1, <1>1, SettleRegisters, SettleNotes
    <3>3. DOMAIN files \subseteq DOMAIN files'
      BY <3>1, <1>1, SettleMoves DEF Moved, Emptied, Grown
    <3> QED BY <3>2, <3>3 DEF Registered
  <2>3. ASSUME NEW Y \in SUBSET DOMAIN files, Gains(Y)
        PROVE  Registered(tree', entry', DOMAIN files') /\ Noted(files', entry')
    <3>1. DOMAIN files \subseteq DOMAIN files'
      BY <2>3 DEF Gains, Grown
    <3> QED BY <3>1, <2>3, <1>1 DEF Gains, Registered
  <2>4. \/ Recover
        \/ \E T, F, E, S, N, O : Invalidates(T, F, E, S, N, O)
        \/ \E Y \in SUBSET DOMAIN files : Gains(Y)
    BY <1>1, StepForm
  <2> QED BY <2>1, <2>2, <2>3, <2>4
<1> QED BY <1>2, <1>3 DEF DepInv

-----------------------------------------------------------------------------
(* The theorems                                                            *)

(* DepInv holds in every run.                                              *)
THEOREM Dependents == Spec => []DepInv
BY InitDeps, StepDeps, PTL DEF Spec

(* No index dangles, for any layout: what entries, open documents, import  *)
(* caches and registrations name are file states, with the path of the     *)
(* entry or the document.                                                  *)
THEOREM IndexesStayValid == Spec => []IndexesExist
<1>1. DepInv => IndexesExist
  BY DEF DepInv, IndexesExist, IInv, GoodFiles, OpenHasState, Open,
         Registered, Noted, NotedFor
<1> QED BY <1>1, Dependents, PTL

(* Whoever has an import cached is registered where its target looks for   *)
(* the files to invalidate when it changes, in every workspace whose       *)
(* documents are opened in the root.  Below a directory that comes back,   *)
(* an open document gets a second entry, and its file state leads to the   *)
(* first one (vfs.rs:750).                                                 *)
THEOREM RootDependentsRegistered ==
  ASSUME RootDocuments
  PROVE  Spec => []DependentsRegistered
<1>1. DepInv => DependentsRegistered
  <2> SUFFICES ASSUME DepInv, NEW f \in DOMAIN files, NEW m \in Mod,
                      files[f].cache[m] \in DOMAIN files
               PROVE  LET e == EntryOf(files, files[f].cache[m])
                      IN  entry[e].db \/ f \in entry[e].invs
    BY DEF DependentsRegistered
  <2>1. files[files[f].cache[m]] \in FileState
    BY DEF DepInv, IInv, GoodFiles
  <2>2. Steady(files[files[f].cache[m]].path)
    BY <2>1 DEF RootDocuments, Steady, FileState
  <2> QED BY <2>2 DEF DepInv, Noted, NotedFor
<1> QED BY <1>1, Dependents, PTL

(* Nothing that was computed from a file survives a change of that file or *)
(* of what it imports itself: an importer keeps a cached import only if    *)
(* its target keeps its code and everything it had resolved.               *)
THEOREM RootInvalidationTransitive ==
  ASSUME RootDocuments
  PROVE  Spec => TransitiveInvalidation
<1> DEFINE A == \A f \in DOMAIN files, m \in Mod :
       LET i == files[f].cache[m]
       IN  (panics' = panics /\ i \in DOMAIN files /\ files'[f].cache[m] = i)
           => /\ files[i].code \in {files'[i].code, NoCode}
              /\ \A k \in Mod : files[i].cache[k] \in
                                  {files'[i].cache[k], Uncached}
<1>1. DepInv /\ [Next]_vars => [A]_vars
  <2> SUFFICES ASSUME DepInv, [Next]_vars, panics' = panics,
                      NEW f \in DOMAIN files, NEW m \in Mod, NEW i \in DOMAIN files,
                      files[f].cache[m] = i, files'[f].cache[m] = i
               PROVE  Grown(i)
    BY DEF Grown
  <2>1. IInv /\ LinkInv({}) /\ Registered(tree, entry, DOMAIN files)
        /\ Noted(files, entry)
    BY DEF DepInv
  <2>2. ~Recover
    BY <2>1, RecoverClears
  <2>3. \A j \in DOMAIN files : ~(Emptied(j) /\ j = f)
    <3>1. i # Uncached
      BY <2>1, LenProperties DEF IInv, GoodFiles, Uncached
    <3>2. Emptied(f) => files'[f].cache[m] = Uncached
      BY DEF Emptied, NoCache
    <3> QED BY <3>1, <3>2
  <2>4. (\A j \in DOMAIN files : Grown(j)) \/ \E S : Moved(S)
    <3>1. ASSUME NEW T, NEW F, NEW E, NEW S, NEW N, NEW O,
                 Invalidates(T, F, E, S, N, O)
          PROVE  Moved(S)
      BY <3>1, <2>1, SettleMoves DEF Invalidates
    <3> QED BY <3>1, <2>1, <2>2, StepForm DEF Gains
  <2>5. ASSUME NEW S, Moved(S) PROVE Grown(i)
    <3>1. ~HitsDb(Reach(S)) /\ f \notin Reach(S)
      BY <2>3, <2>5 DEF Moved
    <3>2. i \notin Reach(S)
      <4> SUFFICES ASSUME i \in Reach(S) PROVE FALSE
        OBVIOUS
      <4>1. Steady(files[i].path)
        <5>1. files[i] \in FileState
          BY <2>1 DEF IInv, GoodFiles
        <5> QED BY <5>1 DEF RootDocuments, Steady, FileState
      <4>2. entry[EntryOf(files, i)].db \/ f \in entry[EntryOf(files, i)].invs
        BY <4>1, <2>1 DEF Noted, NotedFor
      <4>3. ~entry[EntryOf(files, i)].db
        BY <3>1 DEF HitsDb
      <4>4. f \in Reach(S)
        BY <4>2, <4>3, <2>1, ReachClosed
      <4> QED BY <4>4, <3>1
    <3> QED BY <3>1, <3>2, <2>5 DEF Moved
  <2> QED BY <2>4, <2>5
<1> QED BY <1>1, Dependents, PTL DEF Spec, TransitiveInvalidation

(* An open document that loses a cached import is announced, whatever took *)
(* it away: an edit, a notification, a dropped database or a recovery.     *)
THEOREM LossesAnnounced == Spec => LossAnnounced
<1> DEFINE A == \A p \in Open :
       (inmem'[p] # 0 /\ \E m \in Mod :
           /\ files[inmem[p]].cache[m] # Uncached
           /\ files'[inmem'[p]].cache[m] # files[inmem[p]].cache[m])
       => p \in changed'
<1>1. (IInv /\ LinkInv({})) /\ [Next]_vars => [A]_vars
  <2> SUFFICES ASSUME IInv, LinkInv({}), [Next]_vars,
                      NEW p \in Path, inmem[p] # 0, inmem'[p] # 0, p \notin changed',
                      NEW m \in Mod, files[inmem[p]].cache[m] # Uncached
               PROVE  files'[inmem'[p]].cache[m] = files[inmem[p]].cache[m]
    BY DEF Open
  <2>1. ~Recover
    BY RecoverClears
  <2>2. ASSUME NEW T, NEW F, NEW E, NEW S, NEW N, NEW O,
               Invalidates(T, F, E, S, N, O)
        PROVE  files'[inmem'[p]] = files[inmem[p]]
    BY <2>2, SettleTells DEF Invalidates
  <2>3. ASSUME NEW Y, Gains(Y)
        PROVE  files'[inmem'[p]].cache[m] = files[inmem[p]].cache[m]
    <3>1. inmem'[p] = inmem[p] /\ inmem[p] \in DOMAIN files
      BY <2>3 DEF Gains, IInv, OpenHasState
    <3>2. Grown(inmem[p])
      BY <2>3, <3>1 DEF Gains
    <3> QED BY <3>1, <3>2 DEF Grown
  <2> QED BY <2>1, <2>2, <2>3, StepForm
<1> QED BY <1>1, Links, PTL DEF Spec, LossAnnounced

-----------------------------------------------------------------------------
(* Documents below directories                                             *)

(* The stubs of the builtins have not looked into the workspace.           *)
BuiltinsImportNothing ==
  \A i \in DOMAIN files : files[i].path = Builtins => files[i].cache = NoCache

Others(F) == {i \in DOMAIN F : F[i].path # Builtins}

(* Then nobody but an edit of the builtins can drop the whole database.    *)
ApartInv ==
  /\ IInv
  /\ LinkInv({})
  /\ LinkInv(Path)
  /\ Registered(tree, entry, Others(files))
  /\ \A e \in Entry : entry[e].db => e[1] = Builtins

(* What starts at other files than the builtins never gets to them.        *)
LEMMA AloneReach ==
  ASSUME ApartInv, NEW S, S \subseteq Others(files)
  PROVE  ~HitsDb(Reach(S))
<1>1. \A j \in DOMAIN files : /\ EntryOf(files, j) \in Entry
                              /\ EntryOf(files, j)[1] = files[j].path
  BY LiveEntries DEF ApartInv, IInv, GoodFiles
<1>2. Reach(S) \subseteq Others(files)
  <2>1. \A j \in Others(files) : entry[EntryOf(files, j)].invs \subseteq Others(files)
    BY <1>1 DEF ApartInv, Registered, Others
  <2>2. Others(files) \in SUBSET DOMAIN files
    BY DEF Others
  <2> QED BY <2>1, <2>2, ReachInside
<1> QED BY <1>1, <1>2 DEF HitsDb, ApartInv, Others

(* What goes away with a directory never leads to the builtins, as long    *)
(* as nobody who has an import cached is one of them.                      *)
LEMMA ApartStart ==
  ASSUME ApartInv, NEW n \in Dir
  PROVE  ~HitsDb(Reach(Start(n)))
<1>1. IInv /\ LinkInv({}) /\ n \in Node
  BY DEF ApartInv, Node
<1>2. \A i \in GoneIdxs(n) : i \in DOMAIN files /\ files[i].path \in Walk(n)
  BY <1>1, GoneFiles
<1>3. Builtins \notin Walk(n)
  <2>1. Builtins # n /\ Builtins \notin Inside(n)
    BY LayoutAssumption DEF Inside, Node
  <2> QED BY <2>1 DEF Walk
<1>4. \A p \in Held(n) : inmem[p] \in GoneIdxs(n)
  BY DEF Held, Retained
<1>5. GoneIdxs(n) \subseteq Others(files)
  BY <1>2, <1>3 DEF Others
<1>6. \A x \in Walk(n) : tree[x].invs \subseteq Others(files)
  <2>1. Walk(n) \subseteq Node
    BY <1>1 DEF Walk, Inside, Node
  <2> QED BY <2>1 DEF ApartInv, Registered
<1>7. Start(n) \subseteq Others(files)
  BY <1>4, <1>5, <1>6 DEF Start, Loose
<1> QED BY <1>7, AloneReach

(* As long as the builtins import nothing, no step registers them with     *)
(* another file, so that no directory that goes away takes the whole       *)
(* database with it.                                                       *)
LEMMA StepApart ==
  ASSUME ApartInv, BuiltinsImportNothing', [Next]_vars
  PROVE  ApartInv'
<1>1. IInv /\ LinkInv({}) /\ LinkInv(Path)
      /\ Registered(tree, entry, Others(files))
      /\ \A e \in Entry : entry[e].db => e[1] = Builtins
  BY DEF ApartInv
<1>2. IInv' /\ LinkInv({})' /\ LinkInv(Path)'
  BY <1>1, StepGood, StepLinks, ApartStart
<1>3. /\ Registered(tree', entry', Others(files'))
      /\ \A e \in Entry : entry'[e].db => e[1] = Builtins
  <2>1. CASE Recover
    BY <2>1, <1>1, RecoverClears DEF Registered
  <2>2. ASSUME NEW T, NEW F, NEW E, NEW S, NEW N, NEW O, Invalidates(T, F, E, S, N, O)
        PROVE  /\ Registered(tree', entry', Others(files'))
               /\ \A e \in Entry : entry'[e].db => e[1] = Builtins
    <3>1. /\ Shrinks(T, F, E, S) /\ Settle(T, F, E, Reach(S), N, O) /\ Spreads(E)
          /\ Builtins # NoPath => T[Builtins].kind = "file"
      BY <2>2 DEF Invalidates
    <3>2. Registered(tree', entry', Others(files))
      BY <3>1, <1>1, SettleRegisters
    <3>3. \A j \in DOMAIN files : j \in DOMAIN files' /\ files'[j].path = files[j].path
      BY <3>1, <1>1, SettleMoves DEF Moved, Emptied, Grown
    <3>4. Others(files) \subseteq Others(files')
      BY <3>3 DEF Others
    <3>5. \A e \in Entry : entry'[e].db => E[e].db \/ e[1] = Builtins
      BY <3>1, <1>1, SettleKeeps
    <3>6. \A i \in DOMAIN files : files[i].path # Builtins => ~HitsDb(Reach({i}))
      BY AloneReach DEF Others
    <3>7. \A e \in Entry : entry'[e].db => e[1] = Builtins
      BY <3>1, <3>5, <3>6, <1>1 DEF Spreads
    <3> QED BY <3>2, <3>4, <3>7 DEF Registered
  <2>3. ASSUME NEW Y \in SUBSET Others(files), Gains(Y)
        PROVE  /\ Registered(tree', entry', Others(files'))
               /\ \A e \in Entry : entry'[e].db => e[1] = Builtins
    <3>1. \A j \in DOMAIN files : j \in DOMAIN files' /\ files'[j].path = files[j].path
      BY <2>3 DEF Gains, Grown
    <3>2. Others(files) \subseteq Others(files')
      BY <3>1 DEF Others
    <3> QED BY <3>2, <2>3, <1>1 DEF Gains, Registered
  <2>4. ASSUME NEW f \in DOMAIN files, NEW m \in Mod, Gains({f}),
               files'[f].cache[m] # Uncached
        PROVE  f \in Others(files)
    <3>1. f \in DOMAIN files' /\ files'[f].path = files[f].path
      BY <2>4 DEF Gains, Grown
    <3> QED BY <3>1, <2>4 DEF BuiltinsImportNothing, NoCache, Others
  <2>5. \/ Recover
        \/ \E T, F, E, S, N, O : Invalidates(T, F, E, S, N, O)
        \/ \E Y \in SUBSET Others(files) : Gains(Y)
    BY <1>1, <2>4, StepForm
  <2> QED BY <2>1, <2>2, <2>3, <2>5
<1> QED BY <1>2, <1>3 DEF ApartInv

(* The database starts with only the builtins loaded and nothing           *)
(* registered.                                                             *)
LEMMA InitApart == Init => ApartInv
<1> SUFFICES ASSUME Init PROVE ApartInv
  OBVIOUS
<1>1. IInv /\ LinkInv({}) /\ LinkInv(Path)
  BY InitGood, InitLinks
<1>2. Registered(tree, entry, {})
  <2>1. /\ NoSlot.invs = {} /\ \A r : DirSlot(r).invs = {}
        /\ \A e : FileSlot(e).invs = {} /\ BlankEntry.invs = {}
    BY DEF NoSlot, DirSlot, FileSlot, BlankEntry
  <2>2. \A n \in Node : tree[n].invs = {}
    BY <2>1 DEF Init
  <2>3. \A e \in Entry : entry[e] = [idx |-> 1, invs |-> {}, db |-> TRUE]
                           \/ entry[e] = BlankEntry
    BY DEF Init
  <2>4. \A e \in Entry : entry[e].invs = {}
    BY <2>1, <2>3
  <2> QED BY <2>2, <2>4 DEF Registered
<1>3. \A e \in Entry : entry[e].db => e[1] = Builtins
  <2>1. \A e \in Entry : e # <<Builtins, 1>> => entry[e] = BlankEntry
    BY DEF Init
  <2> QED BY <2>1 DEF BlankEntry
<1> QED BY <1>1, <1>2, <1>3 DEF ApartInv, Registered

(* As long as the builtins import nothing of the workspace, documents      *)
(* below directories too are found under their path, at the index the      *)
(* server edits, when the directory goes away and comes back: what was     *)
(* open is put back into the tree.                                         *)
THEOREM DocumentsAgree == Spec /\ []BuiltinsImportNothing => []InMemoryAgrees
<1>1. ApartInv => InMemoryAgrees
  <2> SUFFICES ASSUME LinkInv(Path), NEW p \in Path, inmem[p] # 0
               PROVE  /\ p # NoPath /\ tree[p].kind = "file"
                      /\ entry[EntryAt(tree, p)].idx = inmem[p]
    BY DEF ApartInv, InMemoryAgrees, Open, IsFile
  <2>1. Anchored(Path, p)
    BY DEF Anchored
  <2> QED BY <2>1, LayoutAssumption DEF LinkInv, Whole, Linked, Agrees, Node
<1>2. ApartInv /\ BuiltinsImportNothing' /\ [Next]_vars => ApartInv'
  BY StepApart
<1> QED BY <1>1, <1>2, InitApart, PTL DEF Spec

(* ... and every file state is the one its entry leads to.                 *)
THEOREM EntriesLeadBack == Spec /\ []BuiltinsImportNothing => []EntryPointsBack
<1>1. ApartInv => EntryPointsBack
  <2> SUFFICES ASSUME ApartInv, NEW i \in DOMAIN files
               PROVE  entry[EntryOf(files, i)].idx = i
    BY DEF EntryPointsBack
  <2>1. files[i] \in FileState
    BY DEF ApartInv, IInv, GoodFiles
  <2>2. Anchored(Path, files[i].path)
    BY <2>1 DEF Anchored, FileState
  <2> QED BY <2>2 DEF ApartInv, LinkInv, Whole, Linked, PointsBack
<1>2. ApartInv /\ BuiltinsImportNothing' /\ [Next]_vars => ApartInv'
  BY StepApart
<1> QED BY <1>1, <1>2, InitApart, PTL DEF Spec
=============================================================================
