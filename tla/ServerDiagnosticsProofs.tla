----------------------- MODULE ServerDiagnosticsProofs -----------------------
(***************************************************************************)
(* The diagnostics the client has are about what is open in the editor and *)
(* what is configured on disk whenever the server waits: the inductive     *)
(* invariant, its proof, and the theorem.                                  *)
(***************************************************************************)
EXTENDS ServerProofs

(* A reindex never falls on a project that was dropped just before, by a   *)
(* panic or a change of the configuration.  Where it does, the recovery    *)
(* forgets what the one before it announced.                               *)
OneRecovery == (pc = "after" /\ count > ReindexAfter) => project = "loaded"

(* The files whose events are queued.                                      *)
Queued == {events[k] : k \in DOMAIN events}

(* The search reaches configuration file n.                                *)
Reached(n) == \A k \in 1..(n - 1) : ~EndsSearch(config[k])

(* What the search has read is watched, and current unless an event about  *)
(* it is queued; and nothing else is used.                                 *)
Searching ==
  /\ \A n \in 1..(next - 1) :
       /\ n \in configPaths
       /\ n \in Queued \/ (options[n] = config[n] /\ ~EndsSearch(config[n]))
  /\ \A n \in next..NConfig : options[n] = NoConf
  /\ project = "read" => next \in configPaths

(* The options are those of the files on disk, and what they come from is  *)
(* watched.                                                                *)
UpToDate ==
  /\ options = CurrentOptions
  /\ \A n \in ConfigName : Reached(n) => n \in configPaths

ConfigInv ==
  /\ project \in {"watch", "read"} => Searching
  /\ project = "loaded" => UpToDate \/ Queued \cap configPaths # {}

(* Every open document is due to be published, or the client has its       *)
(* diagnostics and the project remembers that it computed them.            *)
Due == changed \cup toPublish
Current(d) == d \in analysed /\ shown[d] = ViewOf(d, options, docs)

ViewInv ==
  /\ project = "loaded" => \A d \in Opened(docs) : d \in Due \/ Current(d)
  /\ project # "loaded" => Opened(recovery) \subseteq Due
  /\ toPublish # {} => pc \in {"publish", "crashed"}
  /\ pc \in {"top", "publish", "select"} => changed = {}

-----------------------------------------------------------------------------
(* The configuration                                                       *)

(* Receiving an event of the watcher takes it from the queue.              *)
LEMMA QueuedTail ==
  ASSUME NEW S, NEW q \in Seq(S), q # <<>>, NEW P, Head(q) \notin P,
         {q[k] : k \in DOMAIN q} \cap P # {}
  PROVE  {Tail(q)[k] : k \in DOMAIN Tail(q)} \cap P # {}
<1>1. /\ Head(q) = q[1] /\ Len(q) \in Nat \ {0}
      /\ DOMAIN q = 1..Len(q)
      /\ DOMAIN Tail(q) = 1..(Len(q) - 1)
      /\ \A i \in 1..(Len(q) - 1) : Tail(q)[i] = q[i + 1]
  BY TailOfInbox
<1>2. PICK k \in DOMAIN q : q[k] \in P
  OBVIOUS
<1>3. k \in 1..Len(q) /\ k # 1
  BY <1>1, <1>2
<1>4. k - 1 \in DOMAIN Tail(q) /\ Tail(q)[k - 1] = q[k]
  BY <1>1, <1>3
<1> QED BY <1>2, <1>4

(* An event that is appended joins the queued ones.                        *)
LEMMA QueuedAppend ==
  ASSUME NEW S, NEW q \in Seq(S), NEW e \in S
  PROVE  {Append(q, e)[k] : k \in DOMAIN Append(q, e)} = {q[k] : k \in DOMAIN q} \cup {e}
<1> DEFINE r == Append(q, e)
<1>1. /\ Len(q) \in Nat /\ DOMAIN q = 1..Len(q)
      /\ DOMAIN r = 1..(Len(q) + 1)
      /\ r[Len(q) + 1] = e
      /\ \A k \in DOMAIN q : r[k] = q[k]
  OBVIOUS
<1> HIDE DEF r
<1>2. \A k : k \in DOMAIN r <=> k \in DOMAIN q \/ k = Len(q) + 1
  BY <1>1
<1>3. {r[k] : k \in DOMAIN r} = {q[k] : k \in DOMAIN q} \cup {e}
  BY <1>1, <1>2
<1> QED BY <1>3 DEF r

(* A file the search does not reach does not matter.                       *)
LEMMA Unreached ==
  ASSUME TypeOK, NEW m \in ConfigName, NEW c, config' = [config EXCEPT ![m] = c],
         ~Reached(m)
  PROVE  /\ \A n \in ConfigName : Reached(n)' <=> Reached(n)
         /\ CurrentOptions' = CurrentOptions
<1>1. PICK j \in 1..(m - 1) : EndsSearch(config[j])
  BY DEF Reached
<1>2. /\ m \in Nat \ {0} /\ j \in Nat \ {0} /\ j < m /\ j \in ConfigName
      /\ NConfig \in Nat
  BY ServerAssumption DEF ConfigName
<1>3. \A k \in ConfigName : k # m => config'[k] = config[k]
  BY DEF TypeOK
<1>4. EndsSearch(config'[j])
  BY <1>1, <1>2, <1>3
<1>5. ASSUME NEW n \in ConfigName PROVE Reached(n)' <=> Reached(n)
  <2>1. n \in Nat \ {0} /\ \A k \in 1..(n - 1) : k \in ConfigName
    BY <1>2 DEF ConfigName
  <2>2. CASE n <= m
    <3>1. \A k \in 1..(n - 1) : config'[k] = config[k]
      BY <1>2, <1>3, <2>1, <2>2
    <3> QED BY <3>1 DEF Reached, EndsSearch
  <2>3. CASE n > m
    <3>1. j \in 1..(n - 1)
      BY <1>2, <2>1, <2>3
    <3> QED BY <1>1, <1>4, <3>1 DEF Reached, EndsSearch
  <2> QED BY <1>2, <2>1, <2>2, <2>3
<1>6. \A n \in ConfigName : Reached(n) => config'[n] = config[n]
  BY <1>3
<1>7. CurrentOptions = IF \E n \in ConfigName : Reached(n) /\ config[n] \in Broken THEN Default
                       ELSE [n \in ConfigName |-> IF Reached(n) THEN config[n] ELSE NoConf]
  BY DEF CurrentOptions, Reached
<1>8. CurrentOptions' =
        IF \E n \in ConfigName : Reached(n)' /\ config'[n] \in Broken THEN Default
        ELSE [n \in ConfigName |-> IF Reached(n)' THEN config'[n] ELSE NoConf]
  BY DEF CurrentOptions, Reached, Default, EndsSearch
<1>9. (\E n \in ConfigName : Reached(n)' /\ config'[n] \in Broken)
        <=> (\E n \in ConfigName : Reached(n) /\ config[n] \in Broken)
  BY <1>5, <1>6
<1>10. [n \in ConfigName |-> IF Reached(n)' THEN config'[n] ELSE NoConf]
         = [n \in ConfigName |-> IF Reached(n) THEN config[n] ELSE NoConf]
  BY <1>5, <1>6
<1> QED BY <1>5, <1>7, <1>8, <1>9, <1>10

(* What ConfigInv is about does not change.                                *)
LEMMA ConfigSame ==
  ASSUME ConfigInv, UNCHANGED <<events, config, project, next, options, configPaths>>
  PROVE  ConfigInv'
<1>1. CurrentOptions' = CurrentOptions
  BY DEF CurrentOptions, EndsSearch, Default
<1>2. Queued' = Queued /\ \A n \in ConfigName : Reached(n)' <=> Reached(n)
  BY DEF Queued, Reached, EndsSearch
<1>3. Searching' <=> Searching
  BY <1>2 DEF Searching, EndsSearch
<1>4. UpToDate' <=> UpToDate
  BY <1>1, <1>2 DEF UpToDate
<1> QED BY <1>2, <1>3, <1>4 DEF ConfigInv

(* More events do no harm.                                                 *)
LEMMA MoreEvents ==
  ASSUME ConfigInv, UNCHANGED <<config, project, next, options, configPaths>>,
         Queued \subseteq Queued'
  PROVE  ConfigInv'
<1>1. CurrentOptions' = CurrentOptions
  BY DEF CurrentOptions, EndsSearch, Default
<1>2. \A n \in ConfigName : Reached(n)' <=> Reached(n)
  BY DEF Reached, EndsSearch
<1>3. Searching => Searching'
  BY DEF Searching, EndsSearch
<1>4. UpToDate => UpToDate'
  BY <1>1, <1>2 DEF UpToDate
<1> QED BY <1>3, <1>4 DEF ConfigInv

(* A change of a configuration file that was looked at is queued.          *)
LEMMA ConfigWritten ==
  ASSUME TypeOK, ConfigInv, NEW m \in ConfigName, NEW c \in Conf \cup {NoConf},
         WriteConfig(m, c)
  PROVE  ConfigInv'
<1>1. /\ config' = [config EXCEPT ![m] = c]
      /\ events' = IF Watching THEN Append(events, m) ELSE events
      /\ UNCHANGED <<project, next, options, configPaths>>
  BY DEF WriteConfig, DiskStep, serverVars, loadVars
<1>2. \A k \in ConfigName : k # m => config'[k] = config[k]
  BY <1>1 DEF TypeOK
<1>3. Watching => Queued' = Queued \cup {m}
  <2>1. events \in Seq(ConfigName \cup {FileEvent, ErrorEvent})
    BY DEF TypeOK
  <2> QED BY <1>1, <2>1, QueuedAppend DEF Queued
<1>4. next \in Nat \ {0} /\ next <= NConfig /\ NConfig \in Nat
  BY ServerAssumption DEF TypeOK, ConfigName
<1>5. CASE project \in {"watch", "read"}
  <2>1. Searching
    BY <1>5 DEF ConfigInv
  <2>2. ASSUME NEW n \in 1..(next - 1)
        PROVE  n \in configPaths /\ (n \in Queued' \/ (options[n] = config'[n] /\ ~EndsSearch(config'[n])))
    <3>1. Watching
      BY <1>4, <1>5, <2>2 DEF Watching
    <3>2. n \in ConfigName
      BY <1>4, <2>2 DEF ConfigName
    <3> QED BY <1>2, <1>3, <2>1, <2>2, <3>1, <3>2 DEF Searching
  <2>3. Searching'
    BY <1>1, <2>1, <2>2 DEF Searching, EndsSearch
  <2> QED BY <1>1, <1>5, <2>3 DEF ConfigInv
<1>6. CASE project = "loaded"
  <2>1. Watching
    BY <1>6 DEF Watching
  <2>2. CASE Queued \cap configPaths # {}
    BY <1>1, <1>3, <1>6, <2>1, <2>2 DEF ConfigInv
  <2>3. CASE UpToDate /\ Reached(m)
    BY <1>1, <1>3, <1>6, <2>1, <2>3 DEF ConfigInv, UpToDate
  <2>4. CASE UpToDate /\ ~Reached(m)
    <3>1. UpToDate'
      BY <1>1, <2>4, Unreached DEF UpToDate
    <3> QED BY <1>1, <1>6, <3>1 DEF ConfigInv
  <2> QED BY <1>6, <2>2, <2>3, <2>4 DEF ConfigInv
<1>7. CASE project = "none"
  BY <1>1, <1>7 DEF ConfigInv
<1> QED BY <1>5, <1>6, <1>7 DEF TypeOK

(* So does every step of the disk.                                         *)
LEMMA DiskConfig ==
  ASSUME TypeOK, ConfigInv, DiskNext
  PROVE  ConfigInv'
<1>1. ASSUME NEW e \in {FileEvent, ErrorEvent}, DiskStep(e), UNCHANGED config PROVE ConfigInv'
  <2>1. UNCHANGED <<project, next, options, configPaths>>
    BY <1>1 DEF DiskStep, serverVars, loadVars
  <2>2. events \in Seq(ConfigName \cup {FileEvent, ErrorEvent})
    BY DEF TypeOK
  <2>3. CASE events' = events
    BY <1>1, <2>1, <2>3, ConfigSame
  <2>4. CASE events' = Append(events, e)
    <3>1. Queued' = Queued \cup {e}
      BY <2>2, <2>4, QueuedAppend DEF Queued
    <3> QED BY <1>1, <2>1, <3>1, MoreEvents
  <2> QED BY <1>1, <2>3, <2>4 DEF DiskStep
<1> QED BY <1>1, ConfigWritten DEF DiskNext, WriteFile, WatcherFails

(* The search ends: what it made of the files is current, or one of them   *)
(* changed since it was read and the event about it is queued.             *)
LEMMA SearchEnds ==
  ASSUME TypeOK, Searching, project = "read", ReadConfig, project' = "loaded",
         next = NConfig \/ EndsSearch(config[next])
  PROVE  UpToDate' \/ (Queued \cap configPaths)' # {}
<1>1. /\ UNCHANGED <<config, events, configPaths>>
      /\ options' = IF config[next] \in Broken THEN Default
                    ELSE [options EXCEPT ![next] = config[next]]
  BY DEF ReadConfig, diskVars
<1>2. /\ next \in Nat \ {0} /\ next <= NConfig /\ NConfig \in Nat /\ next \in ConfigName
      /\ options \in [ConfigName -> Conf \cup {NoConf}]
      /\ \A n : n \in ConfigName <=> n \in Nat /\ n >= 1 /\ n <= NConfig
  BY ServerAssumption DEF TypeOK, ConfigName, Options
<1>3. CASE \E n \in 1..(next - 1) : n \in Queued
  BY <1>1, <1>3 DEF Searching, Queued
<1>4. CASE \A n \in 1..(next - 1) : n \notin Queued
  <2>1. \A n \in 1..(next - 1) :
          n \in configPaths /\ options[n] = config[n] /\ ~EndsSearch(config[n])
    BY <1>4 DEF Searching
  <2>2. \A n \in ConfigName : Reached(n) <=> n <= next
    <3> SUFFICES ASSUME NEW n \in ConfigName PROVE Reached(n) <=> n <= next
      OBVIOUS
    <3>1. CASE n <= next
      <4>1. \A k \in 1..(n - 1) : k \in 1..(next - 1)
        BY <1>2, <3>1
      <4> QED BY <2>1, <3>1, <4>1 DEF Reached
    <3>2. CASE n > next
      <4>1. next \in 1..(n - 1) /\ next # NConfig
        BY <1>2, <3>2
      <4>2. ~(n <= next)
        BY <1>2, <3>2
      <4> QED BY <4>1, <4>2 DEF Reached
    <3> QED BY <1>2, <3>1, <3>2
  <2>3. \A n \in ConfigName : n <= next => n = next \/ n \in 1..(next - 1)
    BY <1>2
  <2>4. \A n \in ConfigName : Reached(n) => n \in configPaths
    BY <2>1, <2>2, <2>3 DEF Searching
  <2>5. \A n \in ConfigName : config[n] \in Broken => EndsSearch(config[n])
    BY ServerAssumption DEF EndsSearch
  <2>6. CurrentOptions = IF \E n \in ConfigName : Reached(n) /\ config[n] \in Broken THEN Default
                         ELSE [n \in ConfigName |-> IF Reached(n) THEN config[n] ELSE NoConf]
    BY DEF CurrentOptions, Reached
  <2>7. CurrentOptions' = CurrentOptions /\ \A n \in ConfigName : Reached(n)' <=> Reached(n)
    BY <1>1 DEF CurrentOptions, Reached, EndsSearch, Default
  <2>8. options' = CurrentOptions
    <3>1. CASE config[next] \in Broken
      <4>1. Reached(next)
        BY <1>2, <2>2
      <4> QED BY <1>1, <1>2, <2>6, <3>1, <4>1
    <3>2. CASE config[next] \notin Broken
      <4>1. ~\E n \in ConfigName : Reached(n) /\ config[n] \in Broken
        BY <2>1, <2>2, <2>3, <2>5, <3>2
      <4>2. ASSUME NEW n \in ConfigName
            PROVE  options'[n] = IF Reached(n) THEN config[n] ELSE NoConf
        <5>1. options' = [options EXCEPT ![next] = config[next]]
          BY <1>1, <3>2
        <5>2. CASE n = next
          BY <1>2, <2>2, <5>1, <5>2
        <5>3. CASE n \in 1..(next - 1)
          BY <1>2, <2>1, <2>2, <5>1, <5>3
        <5>4. CASE n > next
          <6>1. n \in next..NConfig /\ n # next /\ ~(n <= next)
            BY <1>2, <5>4
          <6> QED BY <1>2, <2>2, <5>1, <6>1 DEF Searching
        <5> QED BY <1>2, <5>2, <5>3, <5>4
      <4>3. options' = [n \in ConfigName |-> options'[n]]
        BY <1>1, <1>2, <3>2
      <4> QED BY <2>6, <4>1, <4>2, <4>3
    <3> QED BY <3>1, <3>2
  <2>9. UpToDate'
    BY <1>1, <2>4, <2>7, <2>8 DEF UpToDate
  <2> QED BY <2>9
<1> QED BY <1>3, <1>4

(* Looking for the configuration keeps what was found current or queued.   *)
LEMMA LoadConfig ==
  ASSUME TypeOK, ConfigInv, LoadProject \/ WatchConfig \/ ReadConfig
  PROVE  ConfigInv'
<1>0. /\ next \in Nat \ {0} /\ next <= NConfig /\ NConfig \in Nat
      /\ options \in [ConfigName -> Conf \cup {NoConf}]
      /\ ConfigName = 1..NConfig
  BY ServerAssumption DEF TypeOK, ConfigName, Options
<1>1. CASE LoadProject
  <2>1. project' = "watch" /\ next' = 1 /\ options' = Default
    BY <1>1 DEF LoadProject
  <2>2. Searching'
    BY <1>0, <2>1 DEF Searching, Default
  <2> QED BY <2>1, <2>2 DEF ConfigInv
<1>2. CASE WatchConfig
  <2>1. /\ project = "watch" /\ project' = "read" /\ configPaths' = configPaths \cup {next}
        /\ UNCHANGED <<config, events, next, options>>
    BY <1>2 DEF WatchConfig, diskVars
  <2>2. Searching'
    BY <2>1 DEF ConfigInv, Searching, Queued, EndsSearch
  <2> QED BY <2>1, <2>2 DEF ConfigInv
<1>3. CASE ReadConfig /\ project' = "loaded"
  <2>1. project = "read" /\ (next = NConfig \/ EndsSearch(config[next]))
    BY <1>3 DEF ReadConfig
  <2>2. Searching
    BY <2>1 DEF ConfigInv
  <2> QED BY <1>3, <2>1, <2>2, SearchEnds DEF ConfigInv
<1>4. CASE ReadConfig /\ project' # "loaded"
  <2>1. /\ project = "read" /\ project' = "watch" /\ next < NConfig /\ next' = next + 1
        /\ ~EndsSearch(config[next])
        /\ UNCHANGED <<config, events, configPaths>>
    BY <1>4 DEF ReadConfig, Loaded, diskVars
  <2>2. config[next] \notin Broken
    BY <2>1, ServerAssumption DEF EndsSearch
  <2>3. options' = [options EXCEPT ![next] = config[next]]
    BY <1>4, <2>2 DEF ReadConfig
  <2>4. Searching
    BY <2>1 DEF ConfigInv
  <2>5. ASSUME NEW n \in 1..next
        PROVE  /\ n \in configPaths
               /\ n \in Queued \/ (options'[n] = config[n] /\ ~EndsSearch(config[n]))
    <3>1. CASE n = next
      BY <1>0, <2>1, <2>3, <2>4, <3>1 DEF Searching
    <3>2. CASE n \in 1..(next - 1)
      BY <1>0, <2>3, <2>4, <3>2 DEF Searching
    <3> QED BY <1>0, <3>1, <3>2
  <2>6. \A n \in (next + 1)..NConfig : options'[n] = NoConf
    BY <1>0, <2>3, <2>4 DEF Searching
  <2>7. next' - 1 = next
    BY <1>0, <2>1
  <2>8. Searching'
    BY <2>1, <2>5, <2>6, <2>7 DEF Searching, Queued, EndsSearch
  <2> QED BY <2>1, <2>8 DEF ConfigInv
<1> QED BY <1>1, <1>2, <1>3, <1>4

(* An event about a configuration file drops the project; one about        *)
(* another file leaves those in the queue.                                 *)
LEMMA EventConfig ==
  ASSUME TypeOK, ConfigInv, OnNotifyEvent
  PROVE  ConfigInv'
<1>1. events # <<>> /\ project = "loaded" /\ UNCHANGED <<config, next, options, configPaths>>
  BY DEF OnNotifyEvent, diskVars, loadVars
<1>2. events \in Seq(ConfigName \cup {FileEvent, ErrorEvent})
  BY DEF TypeOK
<1>3. CASE Head(events) \notin configPaths /\ OnFileEvent
  <2>1. events' = Tail(events) /\ project' = project
    BY <1>3 DEF OnFileEvent
  <2>2. CASE UpToDate
    <3>1. CurrentOptions' = CurrentOptions /\ \A n \in ConfigName : Reached(n)' <=> Reached(n)
      BY <1>1 DEF CurrentOptions, Reached, EndsSearch, Default
    <3> QED BY <1>1, <2>1, <2>2, <3>1 DEF ConfigInv, UpToDate
  <2>3. CASE Queued \cap configPaths # {}
    <3>1. (Queued \cap configPaths)' # {}
      BY <1>1, <1>2, <1>3, <2>1, <2>3, QueuedTail DEF Queued
    <3> QED BY <1>1, <2>1, <3>1 DEF ConfigInv
  <2> QED BY <1>1, <2>2, <2>3 DEF ConfigInv
<1>4. CASE OnConfigEvent
  BY <1>4 DEF OnConfigEvent, RecoverFromPanic, ConfigInv
<1>5. CASE OnErrorEvent
  BY <1>5 DEF OnErrorEvent, ConfigInv
<1> QED BY <1>3, <1>4, <1>5 DEF OnNotifyEvent

(* Every step keeps the configuration current or queued.                   *)
LEMMA ConfigStep == TypeOK /\ ConfigInv /\ [Next]_vars => ConfigInv'
<1> SUFFICES ASSUME TypeOK, ConfigInv, [Next]_vars PROVE ConfigInv'
  OBVIOUS
<1>1. ASSUME UNCHANGED <<diskVars, loadVars>>, UNCHANGED <<events, project>> \/ project' = "none"
      PROVE  ConfigInv'
  <2>1. CASE UNCHANGED <<events, project>>
    BY <1>1, <2>1, ConfigSame DEF diskVars, loadVars
  <2>2. CASE project' = "none"
    BY <2>2 DEF ConfigInv
  <2> QED BY <1>1, <2>1, <2>2
<1>2. CASE UNCHANGED vars
  BY <1>1, <1>2 DEF vars, diskVars, loadVars
<1>3. CASE ClientNext
  BY <1>1, <1>3
  DEF ClientNext, ClientOpen, ClientChange, ClientClose, ClientRequest, ClientNotify, serverVars
<1>4. CASE OnMessage
  <2>1. UNCHANGED <<events, project>>
    BY <1>4 DEF OnMessage, OnRequest, OnNotification
  <2> QED BY <1>1, <1>4, <2>1 DEF OnMessage
<1>5. CASE OnMessagePanics
  <2>1. project' = "none"
    BY <1>5 DEF OnMessagePanics, RecoverFromPanic
  <2> QED BY <1>1, <1>5, <2>1 DEF OnMessagePanics
<1>6. CASE OnExit \/ EventsHandled \/ TakeChanged \/ BlockOnSelect \/ Crash \/ \E d \in Doc : Publish(d)
  BY <1>1, <1>6 DEF OnExit, EventsHandled, TakeChanged, BlockOnSelect, Crash, Publish
<1>7. CASE Reindex
  BY <1>1, <1>7 DEF Reindex, RecoverFromPanic
<1> QED
  BY <1>2, <1>3, <1>4, <1>5, <1>6, <1>7, DiskConfig, LoadConfig, EventConfig
  DEF Next, ServerNext

-----------------------------------------------------------------------------
(* What is due and what is shown                                           *)

(* What ViewInv is about does not change.                                  *)
LEMMA ViewSame ==
  ASSUME ViewInv, UNCHANGED <<project, docs, recovery, analysed, changed, toPublish,
                              shown, options>>,
         toPublish # {} => pc' \in {"publish", "crashed"},
         pc' \in {"top", "publish", "select"} => changed = {}
  PROVE  ViewInv'
  BY DEF ViewInv, Due, Current, Opened, ViewOf

(* A document gets another text, and the documents that need it are        *)
(* announced, or it gets the text it has.                                  *)
LEMMA TextChanges ==
  ASSUME TypeOK, ViewInv, project = "loaded", UNCHANGED <<shown, options, toPublish>>,
         NEW d \in Doc, NEW t, docs' = [docs EXCEPT ![d] = t],
         NEW X, X = Dependents(d) \/ (docs[d] = t /\ X = {}),
         changed \cup X \subseteq changed',
         t = NoText \/ d \in changed',
         analysed' = analysed \ (X \cup {d}) \/ (X = {} /\ analysed' = analysed)
  PROVE  \A e \in Opened(docs') : e \in Due' \/ Current(e)'
<1>1. /\ docs \in [Doc -> Text \cup {NoText}] /\ docs'[d] = t
      /\ \A e \in Doc : e # d => docs'[e] = docs[e]
  BY DEF TypeOK
<1> SUFFICES ASSUME NEW e \in Opened(docs') PROVE e \in Due' \/ Current(e)'
  OBVIOUS
<1>2. e \in Doc /\ docs'[e] # NoText
  BY DEF Opened
<1>3. CASE e = d
  BY <1>1, <1>2, <1>3 DEF Due
<1>4. CASE e # d
  <2>1. e \in Opened(docs)
    BY <1>1, <1>2, <1>4 DEF Opened
  <2>2. CASE e \in Due
    BY <2>2 DEF Due
  <2>3. CASE Current(e) /\ e \in X
    BY <2>3 DEF Due
  <2>4. CASE Current(e) /\ e \notin X
    <3>1. \A x \in Needs[e] : docs'[x] = docs[x]
      <4>1. CASE docs[d] = t
        BY <1>1, <1>2, <4>1, ServerAssumption
      <4>2. CASE X = Dependents(d)
        <5>1. d \notin Needs[e]
          BY <1>4, <2>1, <2>4, <4>2 DEF Dependents, Current
        <5> QED BY <1>1, <1>2, <5>1, ServerAssumption
      <4> QED BY <4>1, <4>2
    <3>2. e \in analysed'
      BY <1>4, <2>4 DEF Current
    <3>3. ViewOf(e, options, docs') = ViewOf(e, options, docs)
      BY <3>1 DEF ViewOf
    <3>4. shown'[e] = ViewOf(e, options', docs')
      BY <2>4, <3>3 DEF Current
    <3> QED BY <3>2, <3>4 DEF Current
  <2> QED BY <2>1, <2>2, <2>3, <2>4 DEF ViewInv
<1> QED BY <1>3, <1>4

(* A notification of the client leaves every open document due or current. *)
LEMMA NotificationView ==
  ASSUME TypeOK, ViewInv, project = "loaded", UNCHANGED <<shown, options, toPublish>>,
         NEW m \in Message, OnNotification(m)
  PROVE  \A e \in Opened(docs') : e \in Due' \/ Current(e)'
<1>1. CASE m.kind \in {"open", "change"} /\ Store(m.doc, m.text)
  <2> DEFINE X == IF docs[m.doc] = m.text THEN {} ELSE Dependents(m.doc)
  <2>1. m.doc \in Doc /\ docs' = [docs EXCEPT ![m.doc] = m.text]
    BY <1>1, MessageFields DEF Store
  <2>2. changed' = changed \cup {m.doc} \cup X
    BY <1>1 DEF Store
  <2>3. analysed' = analysed \ (X \cup {m.doc}) \/ (X = {} /\ analysed' = analysed)
    BY <1>1 DEF Store
  <2>4. X = Dependents(m.doc) \/ (docs[m.doc] = m.text /\ X = {})
    OBVIOUS
  <2> HIDE DEF X
  <2> QED BY <2>1, <2>2, <2>3, <2>4, TextChanges
<1>2. CASE m.kind = "close" /\ Forget(m.doc)
  <2>1. m.doc \in Doc
    BY <1>2, MessageFields
  <2> QED BY <1>2, <2>1, TextChanges DEF Forget
<1>3. CASE UNCHANGED <<docs, changed, analysed>>
  BY <1>3 DEF ViewInv, Due, Current, Opened, ViewOf
<1> QED BY <1>1, <1>2, <1>3 DEF OnNotification

(* A message that is handled keeps ViewInv.                                *)
LEMMA MessageView ==
  ASSUME TypeOK, DocInv, ViewInv, OnMessage
  PROVE  ViewInv'
<1> DEFINE m == Head(inbox)
<1>1. /\ pc = "select" /\ pc' = "after" /\ inbox # <<>>
      /\ UNCHANGED <<shown, options, toPublish>>
  BY DEF OnMessage, loadVars
<1>2. project = "loaded" /\ toPublish = {} /\ m \in Message
  BY <1>1, TailOfInbox DEF DocInv, ViewInv, TypeOK
<1>3. CASE IsRequest(m)
  <2>1. UNCHANGED <<project, docs, recovery, analysed, changed>>
    BY <1>3 DEF OnMessage, OnRequest
  <2> QED BY <1>1, <1>2, <2>1, ViewSame
<1>4. CASE ~IsRequest(m)
  <2>1. OnNotification(m)
    BY <1>4 DEF OnMessage
  <2> HIDE DEF m
  <2>2. project' = project
    BY <2>1 DEF OnNotification
  <2>3. \A e \in Opened(docs') : e \in Due' \/ Current(e)'
    BY <1>1, <1>2, <2>1, NotificationView
  <2> QED BY <1>1, <1>2, <2>2, <2>3 DEF ViewInv, Opened
<1> QED BY <1>3, <1>4

(* A recovery from a loaded project announces all it keeps.                *)
LEMMA RecoverView ==
  ASSUME project = "loaded", NEW D, NEW A, RecoverFromPanic(D, A), Opened(D) \subseteq A,
         toPublish' = {}, pc' \notin {"top", "publish", "select"}
  PROVE  ViewInv'
<1>1. project' = "none" /\ recovery' = D /\ changed' = A
  BY DEF RecoverFromPanic
<1> QED BY <1>1 DEF ViewInv, Due, Opened

(* So do a handler that panics,                                            *)
LEMMA PanicView ==
  ASSUME TypeOK, DocInv, ViewInv, OnMessagePanics
  PROVE  ViewInv'
<1> DEFINE m == Head(inbox)
<1>1. project = "loaded" /\ pc' = "after" /\ toPublish' = {}
  BY DEF OnMessagePanics, DocInv, ViewInv
<1>2. PICK D \in Survivors(m) : \E A \in Announced(m, D) : RecoverFromPanic(D, A)
  BY DEF OnMessagePanics
<1>3. PICK A \in Announced(m, D) : RecoverFromPanic(D, A)
  BY <1>2
<1>4. Opened(D) \subseteq A
  BY <1>3 DEF Announced
<1> QED BY <1>1, <1>3, <1>4, RecoverView

(* an event of the watcher, which makes due what it invalidates,           *)
LEMMA EventView ==
  ASSUME TypeOK, DocInv, ViewInv, OnNotifyEvent
  PROVE  ViewInv'
<1>1. /\ project = "loaded" /\ pc' = "events" /\ pc \in {"select", "events"}
      /\ events # <<>> /\ UNCHANGED <<shown, options, toPublish>>
  BY DEF OnNotifyEvent, loadVars
<1>2. toPublish = {}
  BY <1>1 DEF ViewInv
<1>3. CASE OnConfigEvent
  BY <1>1, <1>2, <1>3, RecoverView DEF OnConfigEvent
<1>4. CASE OnFileEvent
  <2>1. PICK D \in SUBSET Opened(docs) : changed' = changed \cup D /\ analysed' = analysed \ D
    BY <1>4 DEF OnFileEvent
  <2>2. UNCHANGED <<project, docs>>
    BY <1>4 DEF OnFileEvent
  <2>3. ASSUME NEW e \in Opened(docs) PROVE e \in Due' \/ Current(e)'
    BY <1>1, <2>1, <2>2 DEF ViewInv, Due, Current, ViewOf
  <2> QED BY <1>1, <1>2, <2>2, <2>3 DEF ViewInv, Opened
<1>5. CASE Head(events) = ErrorEvent
  <2>1. events \in Seq(ConfigName \cup {FileEvent, ErrorEvent})
    BY DEF TypeOK
  <2>2. Head(events) = events[1] /\ 1 \in DOMAIN events
    BY <1>1, <2>1
  <2> QED BY <1>5, <2>2 DEF DocInv
<1> QED BY <1>3, <1>4, <1>5 DEF OnNotifyEvent

(* and a reindex of a project that is loaded.                              *)
LEMMA ReindexView ==
  ASSUME ViewInv, OneRecovery, Reindex
  PROVE  ViewInv'
<1>1. pc = "after" /\ pc' = "take" /\ UNCHANGED <<shown, options, toPublish>>
  BY DEF Reindex, loadVars
<1>2. toPublish = {}
  BY <1>1 DEF ViewInv
<1>3. CASE count > ReindexAfter /\ RecoverFromPanic(docs, Opened(docs))
  BY <1>1, <1>2, <1>3, RecoverView DEF OneRecovery
<1>4. CASE UNCHANGED <<project, docs, recovery, analysed, changed>>
  BY <1>1, <1>2, <1>4, ViewSame
<1> QED BY <1>3, <1>4 DEF Reindex

(* What was changed is taken to be published.                              *)
LEMMA TakeView ==
  ASSUME ViewInv, TakeChanged
  PROVE  ViewInv'
<1>1. /\ toPublish' = changed /\ changed' = {} /\ pc = "take"
      /\ pc' = IF changed = {} THEN "top" ELSE "publish"
      /\ UNCHANGED <<shown, options, project, docs, recovery, analysed>>
  BY DEF TakeChanged, loadVars
<1>2. toPublish = {}
  BY <1>1 DEF ViewInv
<1>3. Due' = Due
  BY <1>1, <1>2 DEF Due
<1>4. \A d : Current(d)' <=> Current(d)
  BY <1>1 DEF Current, ViewOf
<1>5. (project = "loaded" => \A d \in Opened(docs) : d \in Due \/ Current(d))'
  BY <1>1, <1>3, <1>4 DEF ViewInv
<1>6. (project # "loaded" => Opened(recovery) \subseteq Due)'
  BY <1>1, <1>3 DEF ViewInv
<1> QED BY <1>1, <1>5, <1>6 DEF ViewInv

(* What is published is current.                                           *)
LEMMA PublishView ==
  ASSUME TypeOK, ViewInv, NEW c \in Doc, Publish(c)
  PROVE  ViewInv'
<1>1. /\ project = "loaded" /\ pc = "publish" /\ toPublish' = toPublish \ {c}
      /\ shown' = [shown EXCEPT ![c] = ViewOf(c, options, docs)]
      /\ analysed' = analysed \cup {c}
      /\ pc' = IF toPublish = {c} THEN "top" ELSE "publish"
      /\ UNCHANGED <<project, docs, options, changed>>
  BY DEF Publish, loadVars
<1>2. shown \in [Doc -> View \cup {NoView}]
  BY DEF TypeOK
<1>3. ASSUME NEW e \in Opened(docs) PROVE e \in Due' \/ Current(e)'
  <2>1. ViewOf(e, options', docs') = ViewOf(e, options, docs) /\ e \in Doc
    BY <1>1 DEF ViewOf, Opened
  <2>2. CASE e = c
    <3>1. shown'[e] = ViewOf(e, options, docs) /\ e \in analysed'
      BY <1>1, <1>2, <2>2
    <3> QED BY <2>1, <3>1 DEF Current
  <2>3. CASE e # c
    <3>1. shown'[e] = shown[e]
      BY <1>1, <1>2, <2>1, <2>3
    <3>2. e \in Due => e \in Due'
      BY <1>1, <2>3 DEF Due
    <3>3. Current(e) => Current(e)'
      BY <1>1, <2>1, <3>1 DEF Current
    <3> QED BY <1>1, <3>2, <3>3 DEF ViewInv
  <2> QED BY <2>2, <2>3
<1>4. Opened(docs)' = Opened(docs)
  BY <1>1 DEF Opened
<1>5. changed = {}
  BY <1>1 DEF ViewInv
<1>6. toPublish' # {} => pc' = "publish"
  BY <1>1
<1> QED BY <1>1, <1>3, <1>4, <1>5, <1>6 DEF ViewInv

(* Loading makes nothing of what is due forgotten.                         *)
LEMMA LoadView ==
  ASSUME ViewInv, LoadProject \/ WatchConfig \/ ReadConfig
  PROVE  ViewInv'
<1>1. UNCHANGED <<pc, changed, toPublish>> /\ project # "loaded"
  BY DEF LoadProject, WatchConfig, ReadConfig
<1>2. CASE project' = "loaded"
  <2>1. docs' = recovery
    BY <1>2 DEF LoadProject, WatchConfig, ReadConfig, Loaded
  <2> QED BY <1>1, <1>2, <2>1 DEF ViewInv, Due, Opened
<1>3. CASE project' # "loaded"
  <2>1. recovery' = recovery
    BY <1>3 DEF LoadProject, WatchConfig, ReadConfig, Loaded
  <2> QED BY <1>1, <1>3, <2>1 DEF ViewInv, Due, Opened
<1> QED BY <1>2, <1>3

(* Every step keeps ViewInv, if no reindex meets a recovery.               *)
LEMMA ViewStep == TypeOK /\ DocInv /\ ViewInv /\ OneRecovery /\ [Next]_vars => ViewInv'
<1> SUFFICES ASSUME TypeOK, DocInv, ViewInv, OneRecovery, [Next]_vars PROVE ViewInv'
  OBVIOUS
<1>1. ASSUME UNCHANGED <<project, docs, recovery, analysed, changed, toPublish, shown, options>>,
             \/ pc' = pc \/ pc' = "crashed"
             \/ pc \in {"top", "select", "events"} /\ pc' \in {"select", "ended", "after"}
                /\ (pc' = "select" => pc = "top")
      PROVE  ViewInv'
  <2>1. toPublish # {} => pc' \in {"publish", "crashed"}
    BY <1>1 DEF ViewInv
  <2>2. pc' \in {"top", "publish", "select"} => changed = {}
    BY <1>1 DEF ViewInv
  <2> QED BY <1>1, <2>1, <2>2, ViewSame
<1>2. CASE UNCHANGED vars
  BY <1>1, <1>2 DEF vars, loadVars
<1>3. CASE ClientNext
  BY <1>1, <1>3
  DEF ClientNext, ClientOpen, ClientChange, ClientClose, ClientRequest, ClientNotify,
      serverVars, loadVars
<1>4. CASE DiskNext
  BY <1>1, <1>4 DEF DiskNext, WriteConfig, WriteFile, WatcherFails, DiskStep, serverVars, loadVars
<1>5. CASE OnExit \/ EventsHandled \/ BlockOnSelect \/ Crash
  BY <1>1, <1>5 DEF OnExit, EventsHandled, BlockOnSelect, Crash, loadVars
<1> QED
  BY <1>2, <1>3, <1>4, <1>5, MessageView, PanicView, EventView, ReindexView, TakeView,
     PublishView, LoadView
  DEF Next, ServerNext

-----------------------------------------------------------------------------
(* The theorem                                                             *)

DiagInv == ConfigInv /\ ViewInv

(* In the beginning nothing is loaded and nothing open.                    *)
LEMMA DiagInit == Init => DiagInv
  BY DEF Init, DiagInv, ConfigInv, ViewInv, Opened, NoDocs

(* What the invariants say of a server that waits with nothing to receive. *)
LEMMA WaitingIsCurrent == TypeOK /\ DocInv /\ DiagInv => DiagnosticsCurrent
<1> SUFFICES ASSUME TypeOK, DocInv, DiagInv, pc = "select", inbox = <<>>, events = <<>>,
                    NEW d \in Opened(editor)
             PROVE  shown[d] = ViewOf(d, CurrentOptions, editor)
  BY DEF DiagnosticsCurrent
<1>1. project = "loaded" /\ Due = {}
  BY DEF DocInv, DiagInv, ViewInv, Due
<1>2. docs = editor
  <2>1. \A x \in Doc : docs[x] = editor[x]
    BY DEF DocInv, Chain, About, Held
  <2>2. docs \in [Doc -> Text \cup {NoText}] /\ editor \in [Doc -> Text \cup {NoText}]
    BY DEF TypeOK
  <2> QED BY <2>1, <2>2
<1>3. Queued = {}
  BY DEF Queued
<1>4. options = CurrentOptions
  BY <1>1, <1>3 DEF DiagInv, ConfigInv, UpToDate
<1>5. Current(d)
  BY <1>1, <1>2 DEF DiagInv, ViewInv
<1> QED BY <1>2, <1>4, <1>5 DEF Current

(* With a watcher that works and without panics in the handlers of         *)
(* document messages, the client has, whenever the server waits and        *)
(* nothing is queued, the diagnostics of what is open in the editor,       *)
(* computed with the configuration on disk: edits, changes of imported     *)
(* documents, panics of other handlers, reindexing, and configuration      *)
(* files that change while they are searched included.  The one exception  *)
(* is a reindex that meets a project being recovered (OneRecovery).        *)
THEOREM DiagnosticsStayCurrent ==
  ASSUME Quiet
  PROVE  Spec /\ []OneRecovery => []DiagnosticsCurrent
<1>1. Init => TypeOK /\ DocInv /\ DiagInv
  BY InitTypes, DocInit, DiagInit
<1>2. TypeOK /\ DocInv /\ DiagInv /\ OneRecovery /\ [Next]_vars => (TypeOK /\ DocInv /\ DiagInv)'
  BY StepTypes, DocStep, ConfigStep, ViewStep DEF DiagInv
<1>3. TypeOK /\ DocInv /\ DiagInv => DiagnosticsCurrent
  BY WaitingIsCurrent
<1> QED BY <1>1, <1>2, <1>3, PTL DEF Spec
=============================================================================
