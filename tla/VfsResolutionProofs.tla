------------------------ MODULE VfsResolutionProofs ------------------------
(* Proofs that what the files of Vfs have cached for their imports is what *)
(* the lookup would find now.                                              *)
EXTENDS VfsInvalidationProofs

(* No name of a module can hide another one: a module is a package, a stub *)
(* or a source, and a lookup that finds it registers with all of its names *)
(* (imports.rs:421 does not when m.py hides m.pyi).  A package has an      *)
(* __init__ in its directory.                                              *)
Unshadowed ==
  /\ RootDocuments
  /\ \A m \in Mod :
       /\ Stub[m] # NoPath => /\ Holder[Stub[m]] = Root
                              /\ Source[m] = NoPath /\ Package[m] = NoPath
       /\ Source[m] # NoPath => Holder[Source[m]] = Root /\ Package[m] = NoPath
  /\ \A d \in Dir :
       /\ InitStub[d] # NoPath => Holder[InitStub[d]] = d
       /\ InitFile[d] # NoPath => Holder[InitFile[d]] = d
       /\ InitStub[d] # NoPath \/ InitFile[d] # NoPath

(* The names at which the lookup of m looks in T.                          *)
Looked(T, m) ==
  LET d == Package[m]
      inits == IF ~IsDir(T, d) THEN {}
               ELSE {InitStub[d]} \cup
                    (IF IsFile(T, InitStub[d]) THEN {} ELSE {InitFile[d]})
  IN  ({Stub[m], Source[m], d} \cup inits) \ {NoPath}

(* A change at n is noticed for f, which has i cached: n is a directory    *)
(* that was read, the file of i, or a missing name f is registered with.   *)
Guards(T, F, f, i, n) ==
  \/ n \in Dir /\ T[n].read
  \/ n \in Path /\ T[n].kind = "file" /\ i \in DOMAIN F /\ EntryAt(T, n) = EntryOf(F, i)
  \/ T[n].kind = "missing" /\ f \in T[n].invs

(* i is what the lookup of m finds in T.                                   *)
Found(T, F, m, i) ==
  /\ i = NotFound => Target(T, m) = NoPath /\ ~IsDir(T, Package[m])
  /\ i = Namespace => Target(T, m) = NoPath /\ IsDir(T, Package[m])
  /\ i \in DOMAIN F => Target(T, m) = F[i].path

Current(T, F, f, m, i) ==
  /\ \A n \in Looked(T, m) : Guards(T, F, f, i, n)
  /\ Found(T, F, m, i)

(* The inductive invariant: whatever f has cached is what the lookup finds *)
(* now, and f is told of a change at any name that lookup looks at.        *)
FreshInv ==
  \A f \in DOMAIN files, m \in Mod :
    files[f].cache[m] # Uncached =>
      Current(tree, files, f, m, files[f].cache[m])

-----------------------------------------------------------------------------
(* Operators                                                               *)

(* Where a lookup looks are names of the workspace; its target is one.     *)
LEMMA LookedNodes ==
  ASSUME NEW T, NEW m \in Mod
  PROVE  /\ Looked(T, m) \subseteq Node
         /\ Target(T, m) # NoPath => Target(T, m) \in Looked(T, m)
<1>1. /\ Stub[m] \in Path \cup {NoPath} /\ Source[m] \in Path \cup {NoPath}
      /\ Package[m] \in Dir \cup {NoPath}
  BY LayoutAssumption
<1>2. \A d \in Dir : InitStub[d] \in Path \cup {NoPath}
                       /\ InitFile[d] \in Path \cup {NoPath}
  BY LayoutAssumption
<1>3. Looked(T, m) \subseteq Node
  BY <1>1, <1>2 DEF Looked, Node, IsDir
<1>4. Target(T, m) # NoPath => Target(T, m) \in Looked(T, m)
  BY DEF Target, Looked
<1> QED BY <1>3, <1>4

(* A lookup finds the same when the kinds of what it looks at are the same.*)
LEMMA SameLookup ==
  ASSUME NEW T, NEW U, NEW m \in Mod,
         \A n \in Looked(T, m) : /\ T[n].kind = "file" <=> U[n].kind = "file"
                                 /\ T[n].kind = "dir" <=> U[n].kind = "dir"
  PROVE  /\ Looked(U, m) = Looked(T, m) /\ Target(U, m) = Target(T, m)
         /\ IsDir(U, Package[m]) <=> IsDir(T, Package[m])
<1> DEFINE d == Package[m]
<1>1. IsDir(U, d) <=> IsDir(T, d)
  BY DEF Looked, IsDir
<1>2. /\ IsFile(U, Stub[m]) <=> IsFile(T, Stub[m])
      /\ IsFile(U, Source[m]) <=> IsFile(T, Source[m])
  BY DEF Looked, IsFile
<1>3. IsDir(T, d) => (IsFile(U, InitStub[d]) <=> IsFile(T, InitStub[d]))
  BY DEF Looked, IsFile
<1>4. IsDir(T, d) /\ ~IsFile(T, InitStub[d]) =>
        (IsFile(U, InitFile[d]) <=> IsFile(T, InitFile[d]))
  BY DEF Looked, IsFile
<1> QED BY <1>1, <1>2, <1>3, <1>4 DEF Looked, Target

(* What does not change is still noticed, and of the same kind.            *)
LEMMA GuardStays ==
  ASSUME NEW T, NEW U, Listed(T), Listed(U), NEW F, NEW G, NEW f, NEW i,
         NEW n \in Node, Guards(T, F, f, i, n), Stays(T, U, n),
         i \in DOMAIN F => i \in DOMAIN G /\ EntryOf(G, i) = EntryOf(F, i)
  PROVE  /\ Guards(U, G, f, i, n)
         /\ T[n].kind = "file" <=> U[n].kind = "file"
         /\ T[n].kind = "dir" <=> U[n].kind = "dir"
<1>1. /\ T[n].read => T[n].kind = "dir"
      /\ U[n].read => U[n].kind = "dir"
  BY DEF Listed
<1>2. CASE n \in Dir /\ T[n].read
  BY <1>1, <1>2 DEF Stays, Guards
<1>3. CASE n \in Path /\ T[n].kind = "file" /\ i \in DOMAIN F
           /\ EntryAt(T, n) = EntryOf(F, i)
  <2>1. U[n].kind = "file" /\ EntryAt(U, n) = EntryAt(T, n)
    BY <1>3 DEF Stays, EntryAt
  <2> QED BY <2>1, <1>3 DEF Guards
<1>4. CASE T[n].kind = "missing" /\ f \in T[n].invs
  BY <1>4 DEF Stays, Guards
<1> QED BY <1>2, <1>3, <1>4 DEF Guards

(* ... and what is cached stays what the lookup finds.                     *)
LEMMA CurrentStays ==
  ASSUME NEW T, NEW U, Listed(T), Listed(U), NEW F, NEW G, NEW f, NEW i,
         NEW m \in Mod, Current(T, F, f, m, i),
         \A n \in Looked(T, m) : Stays(T, U, n),
         i \in DOMAIN F <=> i \in DOMAIN G,
         i \in DOMAIN F => EntryOf(G, i) = EntryOf(F, i)
  PROVE  Current(U, G, f, m, i)
<1>1. \A n \in Looked(T, m) : /\ Guards(U, G, f, i, n)
                              /\ T[n].kind = "file" <=> U[n].kind = "file"
                              /\ T[n].kind = "dir" <=> U[n].kind = "dir"
  BY LookedNodes, GuardStays DEF Current
<1>2. /\ Looked(U, m) = Looked(T, m) /\ Target(U, m) = Target(T, m)
      /\ IsDir(U, Package[m]) <=> IsDir(T, Package[m])
  BY <1>1, SameLookup
<1>3. i \in DOMAIN F => G[i].path = F[i].path
  BY DEF EntryOf
<1> QED BY <1>1, <1>2, <1>3 DEF Current, Found

(* What f looked at it has seen: the directory of an __init__ was read.    *)
LEMMA LookedNear ==
  ASSUME Unshadowed, Listed(tree), NEW f, NEW i, NEW m \in Mod,
         \A n \in Looked(tree, m) : Guards(tree, files, f, i, n)
  PROVE  \A n \in Looked(tree, m) : n \in Node /\ Near(n)
<1> DEFINE d == Package[m]
<1>1. Looked(tree, m) \subseteq Node
  BY LookedNodes
<1>2. d # NoPath => d \in Dir /\ d \notin Path
  BY LayoutAssumption
<1>3. IsDir(tree, d) => tree[d].read
  BY <1>2 DEF Looked, IsDir, Guards
<1>4. /\ Stub[m] # NoPath => Near(Stub[m])
      /\ Source[m] # NoPath => Near(Source[m])
      /\ d # NoPath => Near(d)
  BY <1>2 DEF Unshadowed, Near, Visible
<1>5. IsDir(tree, d) => /\ InitStub[d] # NoPath => Near(InitStub[d])
                        /\ InitFile[d] # NoPath => Near(InitFile[d])
  BY <1>2, <1>3 DEF Unshadowed, Near, Visible, IsDir
<1> QED BY <1>1, <1>4, <1>5 DEF Looked

-----------------------------------------------------------------------------
(* Invalidation                                                            *)

(* An importer is reached from what it is told.                            *)
LEMMA ToldReached ==
  ASSUME DepInv, RootDocuments, NEW f \in DOMAIN files, NEW m \in Mod,
         NEW S, ~HitsDb(Reach(S)), NEW n \in Node, Told(S, n),
         Guards(tree, files, f, files[f].cache[m], n),
         ~(n \in Dir /\ tree[n].read)
  PROVE  f \in Reach(S)
<1> DEFINE i == files[f].cache[m]
<1>1. IInv /\ LinkInv({}) /\ Registered(tree, entry, DOMAIN files)
      /\ Noted(files, entry)
  BY DEF DepInv
<1>2. CASE tree[n].kind = "missing" /\ f \in tree[n].invs
  BY <1>2, ReachStart DEF Told
<1>3. CASE n \in Path /\ tree[n].kind = "file" /\ i \in DOMAIN files
           /\ EntryAt(tree, n) = EntryOf(files, i)
  <2>1. files[i] \in FileState
    BY <1>1, <1>3 DEF IInv, GoodFiles
  <2>2. Steady(files[i].path)
    BY <2>1 DEF RootDocuments, Steady, FileState
  <2>3. entry[EntryOf(files, i)].idx = i
    BY <2>2, <1>1, <1>3 DEF LinkInv, Whole, Linked, PointsBack, Anchored
  <2>4. i # 0
    BY <1>1, <1>3, LenProperties DEF IInv, GoodFiles
  <2>5. i \in Reach(S)
    BY <2>3, <2>4, <1>3, ReachStart DEF Told
  <2>6. entry[EntryOf(files, i)].db \/ f \in entry[EntryOf(files, i)].invs
    BY <2>2, <1>1, <1>3 DEF Noted, NotedFor
  <2>7. ~entry[EntryOf(files, i)].db
    BY <2>5 DEF HitsDb
  <2>8. entry[EntryOf(files, i)].invs \subseteq Reach(S)
    BY <2>5, <1>1, ReachClosed
  <2> QED BY <2>6, <2>7, <2>8
<1> QED BY <1>2, <1>3 DEF Guards

(* Who is not reached has looked at nothing that changes.  A directory     *)
(* that goes takes its __init__ with it, or the name of the one it lacks.  *)
LEMMA UnreachedStays ==
  ASSUME DepInv, Unshadowed, NEW f \in DOMAIN files, NEW m \in Mod,
         Current(tree, files, f, m, files[f].cache[m]),
         NEW S, ~HitsDb(Reach(S)), f \notin Reach(S), NEW T, Touches(T, S)
  PROVE  \A n \in Looked(tree, m) : Stays(tree, T, n)
<1> DEFINE i == files[f].cache[m]
<1> SUFFICES ASSUME NEW n \in Looked(tree, m), ~Stays(tree, T, n) PROVE FALSE
  OBVIOUS
<1>1. RootDocuments /\ Listed(tree)
      /\ \A x \in Looked(tree, m) : Guards(tree, files, f, i, x)
  BY DEF Unshadowed, DepInv, LinkInv, Current
<1>2. \A x \in Looked(tree, m) : x \in Node /\ Near(x)
  BY <1>1, LookedNear
<1>3. \A x \in Walk(n) : Told(S, x)
  BY <1>1, <1>2 DEF Touches
<1>4. n \in Dir /\ tree[n].read
  <2>1. n \in Walk(n)
    BY DEF Walk
  <2> QED BY <2>1, <1>1, <1>2, <1>3, ToldReached
<1>5. PICK x \in Looked(tree, m) : x \in Inside(n)
  <2>1. n \notin Path /\ n # NoPath
    BY <1>4, LayoutAssumption DEF Node
  <2>2. n = Package[m]
    <3>1. Stub[m] \in Path \cup {NoPath} /\ Source[m] \in Path \cup {NoPath}
      BY LayoutAssumption
    <3>2. \A d \in Dir : InitStub[d] \in Path \cup {NoPath}
                           /\ InitFile[d] \in Path \cup {NoPath}
      BY LayoutAssumption
    <3>3. Package[m] \in Dir \cup {NoPath}
      BY LayoutAssumption
    <3> QED BY <2>1, <3>1, <3>2, <3>3 DEF Looked, IsDir
  <2>3. IsDir(tree, n)
    BY <1>1, <1>2, <1>4, <2>1 DEF Listed, IsDir
  <2>4. /\ InitStub[n] # NoPath => InitStub[n] \in Inside(n)
        /\ InitFile[n] # NoPath => InitFile[n] \in Inside(n)
        /\ InitStub[n] # NoPath \/ InitFile[n] # NoPath
    BY <1>4, LayoutAssumption DEF Unshadowed, Inside
  <2>5. CASE InitStub[n] # NoPath
    BY <2>2, <2>3, <2>4, <2>5 DEF Looked
  <2>6. CASE InitStub[n] = NoPath
    BY <2>2, <2>3, <2>4, <2>6 DEF Looked, IsFile
  <2> QED BY <2>5, <2>6
<1>6. x \in Walk(n) /\ x \notin Dir
  BY <1>4, <1>5, LayoutAssumption DEF Walk, Inside
<1> QED BY <1>1, <1>2, <1>3, <1>5, <1>6, ToldReached

(* A step keeps what it does not change, and what it finds is current.     *)
LEMMA KeepsFresh ==
  ASSUME DepInv, DepInv', FreshInv,
         \A f \in DOMAIN files', m \in Mod :
           LET i == files'[f].cache[m]
           IN  \/ i = Uncached
               \/ Current(tree', files', f, m, i)
               \/ /\ f \in DOMAIN files /\ files[f].cache[m] = i
                  /\ \A n \in Looked(tree, m) : Stays(tree, tree', n)
                  /\ i \in DOMAIN files =>
                       i \in DOMAIN files' /\ EntryOf(files', i) = EntryOf(files, i)
  PROVE  FreshInv'
<1> SUFFICES ASSUME NEW f \in DOMAIN files', NEW m \in Mod,
                    files'[f].cache[m] # Uncached,
                    ~Current(tree', files', f, m, files'[f].cache[m])
             PROVE  FALSE
  BY DEF FreshInv
<1> DEFINE i == files'[f].cache[m]
<1>1. /\ f \in DOMAIN files /\ files[f].cache[m] = i
      /\ \A n \in Looked(tree, m) : Stays(tree, tree', n)
      /\ i \in DOMAIN files =>
           i \in DOMAIN files' /\ EntryOf(files', i) = EntryOf(files, i)
  OBVIOUS
<1>2. Listed(tree) /\ Listed(tree') /\ Noted(files, entry)
      /\ files' \in Seq(FileState)
  BY DEF DepInv, LinkInv, IInv, GoodFiles
<1>3. i \in DOMAIN files' => i \in DOMAIN files
  <2>1. NotFound \notin DOMAIN files' /\ Namespace \notin DOMAIN files'
    BY <1>2, LenProperties DEF NotFound, Namespace
  <2>2. i \in DOMAIN files \cup {Uncached, NotFound, Namespace}
    BY <1>1, <1>2 DEF Noted, NotedFor
  <2> QED BY <2>1, <2>2
<1>4. Current(tree, files, f, m, i)
  BY <1>1 DEF FreshInv
<1> HIDE DEF i
<1>5. Current(tree', files', f, m, i)
  BY <1>1, <1>2, <1>3, <1>4, CurrentStays
<1> QED BY <1>5 DEF i

-----------------------------------------------------------------------------
(* Steps                                                                   *)

(* An operation that invalidates.                                          *)
LEMMA InvalidatesFresh ==
  ASSUME DepInv, DepInv', FreshInv, Unshadowed,
         NEW T, NEW F, NEW E, NEW S, NEW N, NEW O, Invalidates(T, F, E, S, N, O)
  PROVE  FreshInv'
<1> DEFINE R == Reach(S)
<1>1. IInv /\ Registered(tree, entry, DOMAIN files) /\ Noted(files, entry)
  BY DEF DepInv
<1>2. /\ tree' = T /\ files' \in Seq(FileState)
      /\ HitsDb(R) => \A j \in DOMAIN files' : files'[j].cache = NoCache
      /\ ~HitsDb(R) =>
           /\ Finish(T, Forget(F, R), Taken(E, R))
           /\ \A j \in DOMAIN F : /\ j \in R => files'[j].cache = NoCache
                                  /\ j \notin R => files'[j] = F[j]
  BY <1>1, SettleKeeps DEF Invalidates
<1>3. /\ DOMAIN files \subseteq DOMAIN F /\ GoodFiles(F, E)
      /\ \A j \in DOMAIN files : j \in R \/ F[j] = files[j]
      /\ \A j \in DOMAIN F : j \notin DOMAIN files => F[j].cache = NoCache
      /\ ~HitsDb(R) => Touches(T, S)
  BY DEF Invalidates, Shrinks
<1>4. \A m \in Mod : NoCache[m] = Uncached
  BY DEF NoCache
<1>5. ASSUME NEW f \in DOMAIN files', NEW m \in Mod, files'[f].cache # NoCache
      PROVE  LET i == files'[f].cache[m]
             IN  \/ i = Uncached
                 \/ /\ f \in DOMAIN files /\ files[f].cache[m] = i
                    /\ \A n \in Looked(tree, m) : Stays(tree, tree', n)
                    /\ i \in DOMAIN files => /\ i \in DOMAIN files'
                                              /\ EntryOf(files', i) = EntryOf(files, i)
  <2> DEFINE i == files[f].cache[m]
  <2>1. ~HitsDb(R) /\ DOMAIN files' = DOMAIN F
    <3>1. ~HitsDb(R)
      BY <1>2, <1>5
    <3>2. DOMAIN Forget(F, R) = DOMAIN F
      BY <1>3, ForgetGood DEF GoodFiles
    <3> QED BY <3>1, <3>2, <1>2 DEF Finish
  <2>2. f \notin R /\ f \in DOMAIN files /\ files'[f] = files[f]
    BY <2>1, <1>2, <1>3, <1>5
  <2> SUFFICES ASSUME i # Uncached
               PROVE  /\ \A n \in Looked(tree, m) : Stays(tree, T, n)
                      /\ i \in DOMAIN files => files'[i] = files[i]
    BY <2>1, <2>2, <1>2, <1>3 DEF EntryOf
  <2>3. \A n \in Looked(tree, m) : Stays(tree, T, n)
    <3>1. Current(tree, files, f, m, i)
      BY <2>2 DEF FreshInv
    <3> QED BY <3>1, <2>1, <2>2, <1>3, UnreachedStays
  <2>4. ASSUME i \in DOMAIN files, i \in R PROVE FALSE
    <3>1. files[i] \in FileState
      BY <2>4, <1>1 DEF IInv, GoodFiles
    <3>2. Steady(files[i].path)
      BY <3>1 DEF Unshadowed, RootDocuments, Steady, FileState
    <3>3. entry[EntryOf(files, i)].db \/ f \in entry[EntryOf(files, i)].invs
      BY <3>2, <2>2, <2>4, <1>1 DEF Noted, NotedFor
    <3>4. ~entry[EntryOf(files, i)].db
      BY <2>1, <2>4 DEF HitsDb
    <3> QED BY <3>3, <3>4, <2>2, <2>4, <1>1, ReachClosed
  <2>5. i \in DOMAIN files => files'[i] = files[i]
    BY <2>1, <2>4, <1>2, <1>3
  <2> QED BY <2>3, <2>5
<1>6. ASSUME NEW f \in DOMAIN files', NEW m \in Mod, files'[f].cache = NoCache
      PROVE  files'[f].cache[m] = Uncached
  BY <1>4, <1>6
<1> QED BY <1>5, <1>6, KeepsFresh

(* When importers see no change and no cache and entry of a file state     *)
(* changes, new file states having none, what is cached stays current.     *)
LEMMA SparesFresh ==
  ASSUME DepInv, DepInv', FreshInv, Unshadowed, Spares(tree'),
         \A j \in DOMAIN files : /\ j \in DOMAIN files'
                                 /\ EntryOf(files', j) = EntryOf(files, j)
                                 /\ files'[j].cache = files[j].cache,
         \A j \in DOMAIN files' : j \notin DOMAIN files => files'[j].cache = NoCache
  PROVE  FreshInv'
<1>1. \A m \in Mod : NoCache[m] = Uncached
  BY DEF NoCache
<1>2. \A n \in Node : Near(n) => Stays(tree, tree', n)
  BY DEF Spares, Unshadowed
<1>3. ASSUME NEW f \in DOMAIN files, NEW m \in Mod, files[f].cache[m] # Uncached
      PROVE  \A n \in Looked(tree, m) : Stays(tree, tree', n)
  <2>1. \A n \in Looked(tree, m) : Guards(tree, files, f, files[f].cache[m], n)
    BY <1>3 DEF FreshInv, Current
  <2>2. Listed(tree)
    BY DEF DepInv, LinkInv
  <2> QED BY <2>1, <2>2, <1>2, LookedNear
<1> QED BY <1>1, <1>3, KeepsFresh

(* Reading the code of a file.                                             *)
LEMMA LoadFresh ==
  ASSUME DepInv, DepInv', FreshInv, Unshadowed, NEW i \in FileIndex, Load(i)
  PROVE  FreshInv'
<1> DEFINE s == [files[i] EXCEPT !.code = disk[files[i].path]]
<1>1. i \in DOMAIN files /\ tree' = tree /\ files' = [files EXCEPT ![i] = s]
      /\ files[i] \in FileState
  BY DEF Load, DepInv, IInv, GoodFiles
<1>2. s.path = files[i].path /\ s.gen = files[i].gen /\ s.cache = files[i].cache
  BY <1>1 DEF FileState
<1> HIDE DEF s
<1>3. DOMAIN files' = DOMAIN files
      /\ \A j \in DOMAIN files : files'[j] = IF j = i THEN s ELSE files[j]
  BY <1>1
<1>4. \A j \in DOMAIN files : /\ EntryOf(files', j) = EntryOf(files, j)
                              /\ files'[j].cache = files[j].cache
  BY <1>2, <1>3 DEF EntryOf
<1>5. Spares(tree')
  BY <1>1 DEF Spares, Stays
<1> QED BY <1>3, <1>4, <1>5, SparesFresh

(* Loading a file of the tree that has no index yet.                       *)
LEMMA LoadEntryFresh ==
  ASSUME DepInv, DepInv', FreshInv, Unshadowed, NEW p \in Path, LoadEntry(p)
  PROVE  FreshInv'
<1> DEFINE e == EntryAt(tree, p)
           s == NewState(e, disk[p])
<1>1. /\ e \in Entry /\ files \in Seq(FileState)
      /\ disk[p] \in Code \cup {NoCode}
      /\ tree' = tree /\ files' = Append(files, s)
  BY DEF LoadEntry, IsFile, DepInv, IInv, TypeOK, GoodTree, EntryAt, Entry, Finish
<1>2. s \in FileState /\ s.cache = NoCache
  BY <1>1, NewStateType DEF NewState
<1> HIDE DEF s
<1>3. /\ DOMAIN files' = DOMAIN files \cup {Len(files) + 1}
      /\ \A j \in DOMAIN files : files'[j] = files[j]
      /\ files'[Len(files) + 1] = s
  BY <1>1, <1>2, AppendKeeps
<1>4. \A j \in DOMAIN files : EntryOf(files', j) = EntryOf(files, j)
  BY <1>3 DEF EntryOf
<1>5. Spares(tree')
  BY <1>1 DEF Spares, Stays
<1> QED BY <1>2, <1>3, <1>4, <1>5, SparesFresh

(* The steps that change neither files nor what importers see.             *)
LEMMA QuietFresh ==
  ASSUME DepInv, DepInv', FreshInv, Unshadowed, Quiet
  PROVE  FreshInv'
<1>1. \A j \in DOMAIN files : EntryOf(files', j) = EntryOf(files, j)
  BY DEF Quiet, EntryOf
<1> QED BY <1>1, SparesFresh DEF Quiet

(* Registering missing names keeps the kind of everything but the unknown  *)
(* names among them, and afterwards f is registered with all of them.      *)
LEMMA AddMissingKinds ==
  ASSUME NEW T, GoodTree(T), Listed(T), NEW M, NEW f \in FileIndex
  PROVE  \A n \in Node :
           /\ Stays(T, AddMissing(T, M, f), n)
           /\ AddMissing(T, M, f)[n].kind = "file" <=> T[n].kind = "file"
           /\ AddMissing(T, M, f)[n].kind = "dir" <=> T[n].kind = "dir"
           /\ n \in M => f \in AddMissing(T, M, f)[n].invs
           /\ n \in M /\ T[n].kind \notin {"file", "dir"} =>
                AddMissing(T, M, f)[n].kind = "missing"
<1> SUFFICES ASSUME NEW n \in Node
             PROVE  /\ Stays(T, AddMissing(T, M, f), n)
                    /\ AddMissing(T, M, f)[n].kind = "file" <=> T[n].kind = "file"
                    /\ AddMissing(T, M, f)[n].kind = "dir" <=> T[n].kind = "dir"
                    /\ n \in M => f \in AddMissing(T, M, f)[n].invs
                    /\ n \in M /\ T[n].kind \notin {"file", "dir"} =>
                         AddMissing(T, M, f)[n].kind = "missing"
  OBVIOUS
<1>1. T[n] \in Slot
  BY DEF GoodTree
<1>2. CASE n \notin M
  BY <1>2 DEF AddMissing, Stays
<1>3. CASE n \in M /\ T[n].kind = "none"
  <2>1. AddMissing(T, M, f)[n] = MissingSlot({f})
    BY <1>3 DEF AddMissing
  <2>2. MissingSlot({f}).kind = "missing" /\ MissingSlot({f}).invs = {f}
    BY DEF MissingSlot
  <2>3. T[n].read => n \notin Dir \/ AddMissing(T, M, f)[n].read
    BY <1>3 DEF Listed
  <2> QED BY <2>1, <2>2, <2>3, <1>3 DEF Stays
<1>4. CASE n \in M /\ T[n].kind # "none"
  <2> DEFINE s == [T[n] EXCEPT !.invs = @ \cup {f}]
  <2>1. AddMissing(T, M, f)[n] = s
    BY <1>4 DEF AddMissing
  <2>2. /\ s.kind = T[n].kind /\ s.gen = T[n].gen /\ s.read = T[n].read
        /\ s.invs = T[n].invs \cup {f}
    BY <1>1 DEF Slot
  <2>3. T[n].kind \in {"missing", "file", "dir"}
    BY <1>1, <1>4 DEF Slot
  <2> QED BY <2>1, <2>2, <2>3, <1>4 DEF Stays
<1> QED BY <1>2, <1>3, <1>4

(* What an import caches is what the lookup finds, and the importer is     *)
(* told of a change of every name it looked at.                            *)
LEMMA ImportCurrent ==
  ASSUME Unshadowed, NEW f \in FileIndex, NEW m \in Mod,
         GoodTree(Searched(m)), Listed(Searched(m)),
         IsDir(tree, Package[m]) => Searched(m)[Package[m]].read,
         NEW G \in Seq(FileState), Resolves(f, m, G)
  PROVE  Current(Named(f, m), G, f, m, G[f].cache[m])
<1> DEFINE d == Package[m]
           T == Searched(m)
           M == MissingNames(T, m)
           U == Named(f, m)
           p == Target(T, m)
           v == G[f].cache[m]
<1>1. \A n \in Node :
        /\ Stays(T, U, n)
        /\ U[n].kind = "file" <=> T[n].kind = "file"
        /\ U[n].kind = "dir" <=> T[n].kind = "dir"
        /\ n \in M => f \in U[n].invs
        /\ n \in M /\ T[n].kind \notin {"file", "dir"} => U[n].kind = "missing"
  BY AddMissingKinds DEF Named
<1>2. /\ Looked(U, m) = Looked(T, m) /\ Target(U, m) = p
      /\ IsDir(U, d) <=> IsDir(T, d)
  BY <1>1, LookedNodes, SameLookup
<1>3. IF p = NoPath THEN v = IF IsDir(T, d) THEN Namespace ELSE NotFound
      ELSE v \in DOMAIN G /\ G[v].path = p /\ EntryOf(G, v) = EntryAt(T, p)
  <2>1. p # NoPath => Steady(p)
    BY TargetIsFile DEF Unshadowed, RootDocuments, Steady
  <2> QED BY <2>1 DEF Resolves
<1>4. NotFound \notin DOMAIN G /\ Namespace \notin DOMAIN G /\ NotFound # Namespace
  BY LenProperties DEF NotFound, Namespace
<1>5. Found(U, G, m, v)
  BY <1>2, <1>3, <1>4 DEF Found
<1>6. /\ Stub[m] \in Path \cup {NoPath} /\ Source[m] \in Path \cup {NoPath}
      /\ d \in Dir \cup {NoPath} /\ d \notin Path
  <2>1. d \in Dir \cup {NoPath}
    BY LayoutAssumption
  <2>2. d \notin Path
    BY <2>1, LayoutAssumption DEF Node
  <2>3. Stub[m] \in Path \cup {NoPath} /\ Source[m] \in Path \cup {NoPath}
    BY LayoutAssumption
  <2> QED BY <2>1, <2>2, <2>3
<1>7. \A c \in Dir : InitStub[c] \in Path \cup {NoPath}
                       /\ InitFile[c] \in Path \cup {NoPath}
  BY LayoutAssumption
<1>8. ASSUME NEW n \in Looked(T, m)
      PROVE  n = p \/ n \in M \/ (n = d /\ IsDir(T, d))
  <2>1. CASE n = d
    BY <2>1, <1>8 DEF Looked, MissingNames, Unshadowed, Target, IsFile
  <2>2. CASE n = Stub[m] \/ n = Source[m]
    BY <2>2, <1>8 DEF Looked, MissingNames, Unshadowed, Target, IsFile, IsDir
  <2>3. CASE IsDir(T, d) /\ (n = InitStub[d] \/
                             (~IsFile(T, InitStub[d]) /\ n = InitFile[d]))
    BY <2>3, <1>8 DEF Looked, MissingNames, Target
  <2> QED BY <2>1, <2>2, <2>3, <1>8 DEF Looked
<1>9. ASSUME NEW n \in Looked(T, m) PROVE Guards(U, G, f, v, n)
  <2>1. n \in Node
    BY LookedNodes
  <2>2. CASE n = d /\ IsDir(T, d)
    <3>1. IsDir(tree, d)
      BY <2>2 DEF Searched
    <3>2. U[n].read /\ n \in Dir
      BY <3>1, <2>1, <2>2, <1>1, <1>6 DEF Stays, IsDir
    <3> QED BY <3>2 DEF Guards
  <2>3. CASE n = p
    <3>1. p # NoPath /\ p \in Path /\ T[p].kind = "file"
      BY <2>1, <2>3, TargetIsFile, LayoutAssumption
    <3>2. U[p].kind = "file" /\ EntryAt(U, p) = EntryAt(T, p)
      BY <3>1, <2>1, <2>3, <1>1 DEF Stays, EntryAt
    <3> QED BY <3>1, <3>2, <2>3, <1>3 DEF Guards
  <2>4. CASE n \in M /\ n # p /\ ~(n = d /\ IsDir(T, d))
    <3>1. T[n].kind # "dir"
      <4>1. n = d => T[n].kind # "dir"
        BY <2>1, <2>4, LayoutAssumption DEF IsDir
      <4>2. n # d => n \in Path
        BY <2>1, <1>6, <1>7, <1>9, LayoutAssumption DEF Looked, IsDir
      <4> QED BY <4>1, <4>2 DEF Listed
    <3>2. T[n].kind # "file"
      <4>1. n \in Dir => T[n].kind # "file"
        BY DEF Listed
      <4>2. ~IsFile(T, n)
        BY <2>4, <1>6 DEF MissingNames, Target, IsFile, Listed
      <4> QED BY <4>2, <2>1, LayoutAssumption DEF IsFile
    <3> QED BY <3>1, <3>2, <2>1, <2>4, <1>1 DEF Guards
  <2> QED BY <2>2, <2>3, <2>4, <1>8
<1> QED BY <1>2, <1>5, <1>9 DEF Current

(* An import.                                                              *)
LEMMA ImportFresh ==
  ASSUME DepInv, DepInv', FreshInv, Unshadowed,
         NEW f \in FileIndex, NEW m \in Mod, Import(f, m)
  PROVE  FreshInv'
<1> DEFINE d == Package[m]
           T == Searched(m)
           U == Named(f, m)
<1>1. /\ IInv /\ LinkInv({}) /\ GoodTree(T) /\ Listed(T) /\ Listed(tree)
      /\ f \in DOMAIN files
  BY ImportForm DEF DepInv, LinkInv
<1>2. PICK G, E : Adds(f, m, G, E) /\ Finish(U, G, E)
  BY <1>1, ImportForm
<1>3. tree' = U /\ files' = G
  BY <1>2 DEF Finish
<1>4. /\ G \in Seq(FileState) /\ DOMAIN files \subseteq DOMAIN G
      /\ \A j \in DOMAIN files :
           /\ EntryOf(G, j) = EntryOf(files, j)
           /\ \A k \in Mod : (j = f /\ k = m) \/ G[j].cache[k] = files[j].cache[k]
      /\ \A j \in DOMAIN G : j \notin DOMAIN files => G[j].cache = NoCache
      /\ Resolves(f, m, G)
  BY <1>2 DEF Adds, GoodFiles, EntryOf
<1>5. /\ IsDir(tree, d) => T[d].read
      /\ \A n \in Node : Near(n) => Stays(tree, T, n)
  <2>1. CASE IsDir(tree, d)
    <3>1. d \in Dir /\ d \in Node /\ d \notin Inside(d) /\ tree[d].kind = "dir"
      BY <2>1, LayoutAssumption DEF IsDir, Inside, Node
    <3>2. T = Listing(tree, d)
      BY <2>1 DEF Searched
    <3>3. T[d].read
      BY <3>1, <3>2 DEF Listing, DirSlot
    <3> QED BY <3>1, <3>2, <3>3, <1>1, ListingSpares
  <2>2. CASE ~IsDir(tree, d)
    BY <2>2 DEF Searched, Stays
  <2> QED BY <2>1, <2>2
<1>6. \A n \in Node : Near(n) => Stays(tree, U, n)
  <2>1. \A n \in Node : Stays(T, U, n)
    BY <1>1, AddMissingKinds DEF Named
  <2> QED BY <2>1, <1>5 DEF Stays
<1> HIDE DEF T, U
<1>7. ASSUME NEW j \in DOMAIN files, NEW k \in Mod, files[j].cache[k] # Uncached
      PROVE  \A n \in Looked(tree, k) : Stays(tree, U, n)
  <2>1. \A n \in Looked(tree, k) : Guards(tree, files, j, files[j].cache[k], n)
    BY <1>7 DEF FreshInv, Current
  <2> QED BY <2>1, <1>1, <1>6, LookedNear
<1>8. Current(U, G, f, m, G[f].cache[m])
  BY <1>1, <1>4, <1>5, ImportCurrent DEF T, U
<1>9. \A k \in Mod : NoCache[k] = Uncached
  BY DEF NoCache
<1>10. ASSUME NEW j \in DOMAIN files', NEW k \in Mod
       PROVE  LET i == files'[j].cache[k]
              IN  \/ i = Uncached
                  \/ Current(tree', files', j, k, i)
                  \/ /\ j \in DOMAIN files /\ files[j].cache[k] = i
                     /\ \A n \in Looked(tree, k) : Stays(tree, tree', n)
                     /\ i \in DOMAIN files =>
                          i \in DOMAIN files' /\ EntryOf(files', i) = EntryOf(files, i)
  <2>1. CASE j \notin DOMAIN files
    BY <2>1, <1>3, <1>4, <1>9
  <2>2. CASE j = f /\ k = m
    BY <2>2, <1>3, <1>8
  <2>3. CASE j \in DOMAIN files /\ ~(j = f /\ k = m)
    BY <2>3, <1>3, <1>4, <1>7
  <2> QED BY <2>1, <2>2, <2>3
<1> QED BY <1>10, KeepsFresh

(* At the start and after a recovery nothing is cached.                    *)
LEMMA NothingCached ==
  ASSUME \A j \in DOMAIN files : files[j].cache = NoCache
  PROVE  FreshInv
BY DEF FreshInv, NoCache

LEMMA InitFresh == Init => FreshInv
<1> SUFFICES ASSUME Init PROVE FreshInv
  OBVIOUS
<1>1. \A j \in DOMAIN files : files[j].cache = NoCache
  BY DEF Init, NewState
<1> QED BY <1>1, NothingCached

LEMMA RecoverFresh ==
  ASSUME IInv, LinkInv({}), Recover
  PROVE  FreshInv'
<1>1. \A j \in DOMAIN files' : files'[j].cache = NoCache
  BY RecoverClears
<1> QED BY <1>1 DEF FreshInv, NoCache

(* Every step keeps what is cached current.                                *)
LEMMA StepFresh ==
  ASSUME Unshadowed, DepInv, FreshInv, [Next]_vars
  PROVE  FreshInv'
<1>1. IInv /\ LinkInv({}) /\ DepInv'
  BY StepDeps DEF DepInv
<1>2. ASSUME NEW f \in FileIndex, NEW m \in Mod, Import(f, m) PROVE FreshInv'
  BY <1>1, <1>2, ImportFresh
<1>3. ASSUME NEW i \in FileIndex, Load(i) PROVE FreshInv'
  BY <1>1, <1>3, LoadFresh
<1>4. ASSUME NEW p \in Path, LoadEntry(p) PROVE FreshInv'
  BY <1>1, <1>4, LoadEntryFresh
<1>5. ASSUME Quiet \/ \E T, F, E, S, N, O : Invalidates(T, F, E, S, N, O)
      PROVE  FreshInv'
  BY <1>1, <1>5, QuietFresh, InvalidatesFresh
<1>6. ASSUME NEW d \in Dir, ReadDir(d) PROVE FreshInv'
  BY <1>1, <1>5, <1>6, EnterForm DEF ReadDir
<1>7. ASSUME NEW p \in Path, NEW c \in Code, StoreInMemory(p, c) PROVE FreshInv'
  BY <1>1, <1>5, <1>7, StoreForm
<1>8. ASSUME NEW p \in Path, Close(p) PROVE FreshInv'
  BY <1>1, <1>5, <1>8, CloseForm
<1>9. ASSUME Notify PROVE FreshInv'
  BY <1>1, <1>5, <1>9, NotifyForm
<1>10. ASSUME Recover PROVE FreshInv'
  BY <1>1, <1>10, RecoverFresh
<1>11. ASSUME Publish \/ DiskNext \/ UNCHANGED vars PROVE FreshInv'
  <2>1. UNCHANGED <<tree, entry, files, inmem>>
    BY <1>11 DEF Publish, DiskNext, WriteDisk, DeleteDisk, MakeDir, RemoveDir, vars
  <2> QED BY <2>1, <1>5, SameForm
<1> QED BY <1>2, <1>3, <1>4, <1>6, <1>7, <1>8, <1>9, <1>10, <1>11
        DEF Next, DatabaseNext

-----------------------------------------------------------------------------
(* The theorem                                                             *)

(* What an importer looked at it sees in the tree, not on the disk.        *)
LEMMA LookupTarget ==
  ASSUME Unshadowed, Listed(tree), NEW f, NEW i, NEW m \in Mod,
         \A n \in Looked(tree, m) : Guards(tree, files, f, i, n)
  PROVE  Lookup(m) = Target(tree, m)
<1> DEFINE d == Package[m]
<1>1. \A n \in Looked(tree, m) : n \in Dir \/ (Sees(n) <=> IsFile(tree, n))
  BY LookedNear DEF Near, Sees, IsFile, Looked
<1>2. /\ Stub[m] \in Path \cup {NoPath} /\ Source[m] \in Path \cup {NoPath}
      /\ d \in Dir \cup {NoPath}
  BY LayoutAssumption
<1>3. \A c \in Dir : InitStub[c] \in Path \cup {NoPath}
                       /\ InitFile[c] \in Path \cup {NoPath}
  BY LayoutAssumption
<1>4. \A n \in Path \cup {NoPath} : n \notin Dir
  BY LayoutAssumption DEF Node
<1>5. ~Sees(NoPath) /\ ~IsFile(tree, NoPath)
  BY DEF Sees, IsFile
<1>6. /\ Sees(Stub[m]) <=> IsFile(tree, Stub[m])
      /\ Sees(Source[m]) <=> IsFile(tree, Source[m])
  BY <1>1, <1>2, <1>4, <1>5 DEF Looked
<1>7. IsDir(tree, d) => (Sees(InitStub[d]) <=> IsFile(tree, InitStub[d]))
  BY <1>1, <1>2, <1>3, <1>4, <1>5 DEF Looked, IsDir
<1>8. IsDir(tree, d) /\ ~IsFile(tree, InitStub[d]) =>
        (Sees(InitFile[d]) <=> IsFile(tree, InitFile[d]))
  BY <1>1, <1>2, <1>3, <1>4, <1>5 DEF Looked, IsDir
<1> QED BY <1>6, <1>7, <1>8 DEF Lookup, Target

LEMMA FreshResolves ==
  ASSUME Unshadowed, DepInv, FreshInv
  PROVE  ResolutionFresh
<1>1. /\ Listed(tree) /\ Whole({}, tree, files, entry, inmem)
      /\ files \in Seq(FileState)
  BY DEF DepInv, LinkInv, IInv, GoodFiles
<1> SUFFICES ASSUME NEW f \in DOMAIN files, NEW m \in Mod
             PROVE  LET i == files[f].cache[m]
                        p == Lookup(m)
                    IN  /\ i = NotFound => p = NoPath /\ ~IsDir(tree, Package[m])
                        /\ i = Namespace => p = NoPath /\ IsDir(tree, Package[m])
                        /\ i \in DOMAIN files =>
                             /\ p = files[i].path
                             /\ entry[EntryAt(tree, p)].idx = i
  BY DEF ResolutionFresh
<1> DEFINE i == files[f].cache[m]
           p == Target(tree, m)
<1>2. Uncached \notin DOMAIN files /\ Uncached # NotFound /\ Uncached # Namespace
  BY <1>1, LenProperties DEF Uncached, NotFound, Namespace
<1>3. CASE i = Uncached
  BY <1>2, <1>3
<1>4. CASE i # Uncached
  <2>1. /\ \A n \in Looked(tree, m) : Guards(tree, files, f, i, n)
        /\ Found(tree, files, m, i)
    BY <1>4 DEF FreshInv, Current
  <2>2. Lookup(m) = p
    BY <2>1, <1>1, LookupTarget
  <2>3. ASSUME i \in DOMAIN files
        PROVE  p = files[i].path /\ entry[EntryAt(tree, p)].idx = i
    <3>1. files[i] \in FileState
      BY <2>3, <1>1
    <3>2. files[i].path \in Path
      BY <3>1 DEF FileState
    <3>3. p = files[i].path
      BY <2>1, <2>3 DEF Found
    <3> HIDE DEF p
    <3>4. p # NoPath /\ p \in Path /\ p \notin Dir
      BY <3>2, <3>3, LayoutAssumption DEF Node
    <3>5. p \in Looked(tree, m) /\ tree[p].kind = "file"
      BY <3>4, LookedNodes, TargetIsFile DEF p
    <3>6. EntryAt(tree, p) = EntryOf(files, i)
      BY <2>1, <3>4, <3>5 DEF Guards
    <3>7. Steady(files[i].path)
      BY <3>2 DEF Unshadowed, RootDocuments, Steady
    <3>8. entry[EntryOf(files, i)].idx = i
      BY <3>7, <2>3, <1>1 DEF Whole, Linked, PointsBack, Anchored
    <3> QED BY <3>3, <3>6, <3>8
  <2> QED BY <2>1, <2>2, <2>3 DEF Found
<1> QED BY <1>3, <1>4

(* What a file has cached for an import stays what the lookup would find   *)
(* now, through edits, changes on disk, directories that come and go and   *)
(* recoveries: importers are registered with every name they looked for    *)
(* and did not find (add_missing_entry_callback), with the file they found *)
(* (add_invalidation), and see nothing of a directory nobody read.  The    *)
(* editor opens documents of the root, and no name of a module hides       *)
(* another one.                                                            *)
THEOREM ResolutionStaysFresh ==
  ASSUME Unshadowed
  PROVE  Spec => []ResolutionFresh
<1>1. Init => DepInv /\ FreshInv
  BY InitDeps, InitFresh
<1>2. DepInv /\ FreshInv /\ [Next]_vars => (DepInv /\ FreshInv)'
  BY StepDeps, StepFresh
<1>3. DepInv /\ FreshInv => ResolutionFresh
  BY FreshResolves
<1> QED BY <1>1, <1>2, <1>3, PTL DEF Spec
=============================================================================
