------------------------------- MODULE Server -------------------------------
(***************************************************************************)
(* The language server of zuban (crate zubanls): the event loop of         *)
(* server.rs between the client's messages and the file watcher, the       *)
(* project it loads, drops and loads again, the recovery from panics that  *)
(* is also used to reindex, and the diagnostics it pushes.                 *)
(*                                                                         *)
(* The database is abstracted to what module Vfs shows of it: the open     *)
(* documents, which of them get announced when one of them or a file       *)
(* changes, and what survives a recovery.  The diagnostics of a document   *)
(* are a function of its text, the texts of the documents it imports and   *)
(* the options of the configuration, so that they are modelled by these.   *)
(* The contents of files on disk are none of Text: opening and closing a   *)
(* document always changes what the others see.                            *)
(***************************************************************************)
EXTENDS Integers, FiniteSets, Sequences

CONSTANTS
  Doc,           \* documents the client edits
  Text,          \* their contents
  Needs,         \* Needs[d]: d and the documents it imports, transitively
  Conf,          \* contents of a configuration file
  Partial,       \* those without the part that ends the search
  Broken,        \* those that do not parse
  NConfig,       \* number of configuration files, in the order of CONFIG_NAMES
  Requests,      \* kinds of requests the client sends
  Notices,       \* and of notifications without a document
  CanPanic,      \* kinds of messages whose handler may panic, "publish" for
                 \* the code that runs between messages
  WatchErrors,   \* whether the watcher reports errors
  ReindexAfter,  \* REINDEX_AFTER_N_DIAGNOSTICS
  NoText, NoConf,
  MaxMessage,    \* bound: messages of the client
  MaxDisk        \* bound: events on the disk

ConfigName == 1..NConfig
Id == 1..MaxMessage
RequestKind == {"query", "diagnostics", "invalid", "shutdown"}

ASSUME ServerAssumption ==
  /\ Needs \in [Doc -> SUBSET Doc]
  /\ \A d \in Doc : d \in Needs[d] /\ \A x \in Needs[d] : Needs[x] \subseteq Needs[d]
  /\ NoText \notin Text /\ NoConf \notin Conf
  /\ Partial \subseteq Conf /\ Broken \subseteq Conf \ Partial
  /\ Requests \subseteq RequestKind /\ Notices \subseteq {"panic", "exit"}
  /\ CanPanic \subseteq {"query", "diagnostics", "open", "change", "close", "publish"}
  /\ WatchErrors \in BOOLEAN
  /\ NConfig \in Nat \ {0} /\ ReindexAfter \in Nat
  /\ MaxMessage \in Nat /\ MaxDisk \in Nat

VARIABLES
  inbox,       \* messages of the client the server has not received yet
  sent,        \* messages sent so far
  editor,      \* editor[d]: the text in the client's editor, or NoText
  shown,       \* shown[d]: what the diagnostics the client has are about
  responses,   \* the server's responses, in the order in which they are sent
  config,      \* config[n]: the contents of configuration file n, or NoConf
  diskSteps,   \* events on the disk so far
  events,      \* notify events in the channel of the project's watcher
  pc,          \* where the event loop is
  project,     \* "none", loading ("watch", "read") or "loaded"
  next,        \* the configuration file the loading project looks at
  options,     \* what the project uses of the configuration files
  configPaths, \* paths_that_invalidate_whole_project
  docs,        \* docs[d]: the in-memory file of the project, or NoText
  recovery,    \* panic_recovery: the in-memory files to load again
  analysed,    \* documents whose diagnostics were computed in this project
  changed,     \* changed_in_memory_files
  toPublish,   \* the files taken from changed that are being published
  count,       \* sent_diagnostic_count
  shutdown,    \* shutdown_requested
  hook,        \* whether the panic hook that notifies the client is set
  panics,      \* panics so far
  told         \* panics the client was notified of

clientVars == <<inbox, sent, editor>>
diskVars   == <<config, diskSteps>>
loadVars   == <<next, options, configPaths>>
panicVars  == <<hook, panics, told>>
vars == <<inbox, sent, editor, shown, responses, config, diskSteps, events, pc,
          project, next, options, configPaths, docs, recovery, analysed,
          changed, toPublish, count, shutdown, hook, panics, told>>

FileEvent  == 0
ErrorEvent == -1
NoDocs     == [d \in Doc |-> NoText]
Default    == [n \in ConfigName |-> NoConf]
Options    == [ConfigName -> Conf \cup {NoConf}]
View       == Options \X [Doc -> Text \cup {NoText}]
NoView     == <<>>
Stopped    == pc \in {"ended", "crashed"}

Message ==
  [kind : {"open", "change"}, doc : Doc, text : Text]
    \cup [kind : {"close"}, doc : Doc]
    \cup [kind : RequestKind, id : Id]
    \cup [kind : {"panic", "exit"}]

Opened(D) == {d \in Doc : D[d] # NoText}

(* What the diagnostics of d are about when the documents are D.           *)
ViewOf(d, o, D) == <<o, [x \in Doc |-> IF x \in Needs[d] THEN D[x] ELSE NoText]>>

-----------------------------------------------------------------------------
(* The client and the disk                                                 *)

Send(m) ==
  /\ sent < MaxMessage
  /\ ~Stopped
  /\ \A i \in DOMAIN inbox : inbox[i].kind # "exit"
  /\ inbox' = Append(inbox, m)
  /\ sent' = sent + 1

serverVars == <<pc, project, loadVars, docs, recovery, analysed, changed,
                toPublish, count, shutdown, panicVars>>

ClientOpen(d, t) ==
  /\ editor[d] = NoText
  /\ Send([kind |-> "open", doc |-> d, text |-> t])
  /\ editor' = [editor EXCEPT ![d] = t]
  /\ UNCHANGED <<shown, responses, diskVars, events, serverVars>>

ClientChange(d, t) ==
  /\ editor[d] \notin {NoText, t}
  /\ Send([kind |-> "change", doc |-> d, text |-> t])
  /\ editor' = [editor EXCEPT ![d] = t]
  /\ UNCHANGED <<shown, responses, diskVars, events, serverVars>>

ClientClose(d) ==
  /\ editor[d] # NoText
  /\ Send([kind |-> "close", doc |-> d])
  /\ editor' = [editor EXCEPT ![d] = NoText]
  /\ UNCHANGED <<shown, responses, diskVars, events, serverVars>>

ClientRequest(k) ==
  /\ Send([kind |-> k, id |-> sent + 1])
  /\ UNCHANGED <<editor, shown, responses, diskVars, events, serverVars>>

(* A notification that panics (test-panic, parameters that do not parse),  *)
(* and the end of the connection: the exit notification or a hang-up.      *)
ClientNotify(k) ==
  /\ Send([kind |-> k])
  /\ UNCHANGED <<editor, shown, responses, diskVars, events, serverVars>>

(* The first configuration file that is looked at puts a watch on its      *)
(* directory, which reports the changes of all of them.                    *)
Watching == project # "none" /\ (project = "watch" => next > 1)

DiskStep(e) ==
  /\ diskSteps < MaxDisk
  /\ ~Stopped
  /\ diskSteps' = diskSteps + 1
  /\ events' = IF Watching THEN Append(events, e) ELSE events
  /\ UNCHANGED <<clientVars, shown, responses, serverVars>>

WriteConfig(n, c) ==
  /\ config[n] # c
  /\ config' = [config EXCEPT ![n] = c]
  /\ DiskStep(n)

WriteFile == Watching /\ DiskStep(FileEvent) /\ UNCHANGED config

WatcherFails == WatchErrors /\ Watching /\ DiskStep(ErrorEvent) /\ UNCHANGED config

-----------------------------------------------------------------------------
(* Loading the project: GlobalState::project                               *)

(* The event loop asks for the project at its top, and publishing for      *)
(* every file.  A new project has a new watcher.                           *)
LoadProject ==
  /\ pc = "top" \/ pc = "publish"
  /\ project = "none"
  /\ project' = "watch"
  /\ next' = 1
  /\ options' = Default
  /\ events' = <<>>
  /\ UNCHANGED <<clientVars, shown, responses, diskVars, pc, configPaths,
                 docs, recovery, analysed, changed, toPublish, count,
                 shutdown, panicVars>>

(* Mutant of WatchConfig: only files that exist are watched.               *)
WatchExisting ==
  /\ project = "watch"
  /\ configPaths' = configPaths \cup {n \in {next} : config[n] # NoConf}
  /\ project' = "read"
  /\ UNCHANGED <<clientVars, shown, responses, diskVars, events, pc, next,
                 options, docs, recovery, analysed, changed, toPublish, count,
                 shutdown, panicVars>>

(* on_check_path, before the file is opened.                               *)
WatchConfig ==
  /\ project = "watch"
  /\ configPaths' = configPaths \cup {next}
  /\ project' = "read"
  /\ UNCHANGED <<clientVars, shown, responses, diskVars, events, pc, next,
                 options, docs, recovery, analysed, changed, toPublish, count,
                 shutdown, panicVars>>

(* Mutant of Loaded: the recovery is not used.                             *)
LoadedNew ==
  /\ project' = "loaded"
  /\ docs' = NoDocs
  /\ recovery' = NoDocs
  /\ analysed' = {}
  /\ UNCHANGED next

(* Project::from_recovery, or Project::new when there is no recovery.      *)
Loaded ==
  /\ project' = "loaded"
  /\ docs' = recovery
  /\ recovery' = NoDocs
  /\ analysed' = {}
  /\ UNCHANGED next

(* The search goes on after a file that is missing, or lacks the part that *)
(* ends it but may still be used; a file that does not parse ends it with  *)
(* the default options.                                                    *)
EndsSearch(c) == c \in Conf \ Partial

ReadConfig ==
  /\ project = "read"
  /\ options' = IF config[next] \in Broken THEN Default
                ELSE [options EXCEPT ![next] = config[next]]
  /\ \/ /\ next = NConfig \/ EndsSearch(config[next])
        /\ Loaded
     \/ /\ next < NConfig /\ ~EndsSearch(config[next])
        /\ next' = next + 1
        /\ project' = "watch"
        /\ UNCHANGED <<docs, recovery, analysed>>
  /\ UNCHANGED <<clientVars, shown, responses, diskVars, events, pc,
                 configPaths, changed, toPublish, count, shutdown, panicVars>>

-----------------------------------------------------------------------------
(* Recovery                                                                *)

(* Mutant of RecoverFromPanic: the list of changed documents is cleared    *)
(* after the recovery announced them.                                      *)
ClearLast(D, A) ==
  /\ changed' = {}
  /\ recovery' = IF project = "loaded" THEN D ELSE recovery
  /\ project' = "none"
  /\ docs' = NoDocs
  /\ events' = <<>>
  /\ analysed' = {}

(* The documents D are kept for the next project and A are announced, when *)
(* there is a project.                                                     *)
RecoverFromPanic(D, A) ==
  /\ changed' = IF project = "loaded" THEN A ELSE {}
  /\ recovery' = IF project = "loaded" THEN D ELSE recovery
  /\ project' = "none"
  /\ docs' = NoDocs
  /\ events' = <<>>
  /\ analysed' = {}

(* The panic hook takes itself out before it runs.                         *)
RunHook ==
  /\ panics' = panics + 1
  /\ told' = IF hook THEN told + 1 ELSE told
  /\ hook' = FALSE

-----------------------------------------------------------------------------
(* Messages                                                                *)

(* Mutant of Replies: a request after shutdown is refused and handled.     *)
RepliesTwice(m) ==
  LET handled == <<[id |-> m.id, outcome |->
                      IF m.kind = "shutdown" THEN "shutdown"
                      ELSE IF m.kind = "invalid" THEN "error" ELSE "ok"]>>
  IN  IF shutdown THEN <<[id |-> m.id, outcome |-> "error"]>> \o handled
      ELSE handled

(* Mutant of Replies: shutdown is not remembered by the requests.          *)
RepliesAlways(m) ==
  <<[id |-> m.id, outcome |-> IF m.kind = "shutdown" THEN "shutdown"
                              ELSE IF m.kind = "invalid" THEN "error" ELSE "ok"]>>

(* What on_request sends: unknown methods and parameters that do not parse *)
(* get an error, and so does everything after shutdown.                    *)
Replies(m) ==
  <<[id |-> m.id, outcome |->
       IF shutdown \/ m.kind = "invalid" THEN "error"
       ELSE IF m.kind = "shutdown" THEN "shutdown" ELSE "ok"]>>

OnRequest(m) ==
  /\ responses' = responses \o Replies(m)
  /\ shutdown' = (shutdown \/ m.kind = "shutdown")
  /\ count' = IF m.kind = "diagnostics" /\ ~shutdown THEN count + 1 ELSE count
  /\ UNCHANGED <<events, project, docs, recovery, analysed, changed>>

(* Mutant of Dependents: a document affects nobody else.                   *)
NoDependents(d) == {}

(* The open documents that have diagnostics computed with d.               *)
Dependents(d) == {x \in analysed \cap Opened(docs) : d \in Needs[x]} \ {d}

(* store_in_memory_file announces d; with the same code that is all.       *)
Store(d, t) ==
  /\ docs' = [docs EXCEPT ![d] = t]
  /\ changed' = changed \cup {d} \cup (IF docs[d] = t THEN {} ELSE Dependents(d))
  /\ analysed' = analysed \ (IF docs[d] = t THEN {} ELSE Dependents(d) \cup {d})

Forget(d) ==
  /\ docs' = [docs EXCEPT ![d] = NoText]
  /\ changed' = changed \cup Dependents(d)
  /\ analysed' = analysed \ (Dependents(d) \cup {d})

(* A change or close of a document that is not in memory is an error,      *)
(* which gets logged.                                                      *)
OnNotification(m) ==
  /\ \/ m.kind = "open" /\ Store(m.doc, m.text)
     \/ m.kind = "change" /\ docs[m.doc] # NoText /\ Store(m.doc, m.text)
     \/ m.kind = "close" /\ docs[m.doc] # NoText /\ Forget(m.doc)
     \/ /\ m.kind \in {"change", "close"}
        /\ docs[m.doc] = NoText
        /\ UNCHANGED <<docs, changed, analysed>>
  /\ UNCHANGED <<responses, shutdown, count, events, project, recovery>>

IsRequest(m) == m.kind \in RequestKind

OnMessage ==
  /\ pc = "select"
  /\ inbox # <<>>
  /\ inbox' = Tail(inbox)
  /\ LET m == Head(inbox)
     IN  /\ m.kind \notin {"panic", "exit"}
         /\ IF IsRequest(m) THEN OnRequest(m) ELSE OnNotification(m)
  /\ pc' = "after"
  /\ UNCHANGED <<sent, editor, shown, diskVars, loadVars, toPublish, panicVars>>

OnExit ==
  /\ pc = "select"
  /\ inbox # <<>>
  /\ Head(inbox).kind = "exit"
  /\ inbox' = Tail(inbox)
  /\ pc' = "ended"
  /\ UNCHANGED <<sent, editor, shown, responses, diskVars, events, project,
                 loadVars, docs, recovery, analysed, changed, toPublish, count,
                 shutdown, panicVars>>

(* The in-memory files that survive a panic while m is handled: a document *)
(* that is being stored may still have its old text, have the new one, or  *)
(* be unloaded and not parsed again.                                       *)
Survivors(m) ==
  IF m.kind \in {"open", "change"}
  THEN {docs, [docs EXCEPT ![m.doc] = m.text], [docs EXCEPT ![m.doc] = NoText]}
  ELSE IF m.kind = "close" THEN {docs, [docs EXCEPT ![m.doc] = NoText]}
  ELSE {docs}

(* What the recovery announces: the documents in memory, among which the   *)
(* one being stored may be although it does not survive.                   *)
Announced(m, D) ==
  {Opened(D)} \cup {Opened(D) \cup {m.doc} : k \in {m.kind} \cap {"open", "change"}}

(* Mutants of PanicReply: the client waits forever, and a notification is  *)
(* answered too.                                                           *)
NoPanicReply(m) == <<>>
PanicReplyAlways(m) ==
  <<[id |-> IF IsRequest(m) THEN m.id ELSE 0, outcome |-> "error"]>>

PanicReply(m) ==
  IF IsRequest(m) THEN <<[id |-> m.id, outcome |-> "error"]>> ELSE <<>>

(* The handler panics: the request gets an error and the server recovers.  *)
OnMessagePanics ==
  /\ pc = "select"
  /\ inbox # <<>>
  /\ inbox' = Tail(inbox)
  /\ LET m == Head(inbox)
     IN  /\ m.kind \in CanPanic \cup {"panic"}
         /\ IsRequest(m) => ~shutdown
         /\ responses' = responses \o PanicReply(m)
         /\ count' = IF m.kind = "diagnostics" THEN count + 1 ELSE count
         /\ \E D \in Survivors(m) :
              \E A \in Announced(m, D) : RecoverFromPanic(D, A)
  /\ RunHook
  /\ pc' = "after"
  /\ UNCHANGED <<sent, editor, shown, diskVars, loadVars, toPublish, shutdown>>

-----------------------------------------------------------------------------
(* Notify events                                                           *)

(* Mutant of OnConfigEvent: the project is dropped without a recovery.     *)
DropProject ==
  /\ project' = "none"
  /\ docs' = NoDocs
  /\ events' = <<>>
  /\ UNCHANGED <<changed, recovery, analysed>>

(* A configuration file changed: everything is loaded again.               *)
OnConfigEvent == RecoverFromPanic(docs, Opened(docs))

(* A file changed: any of the open documents may depend on it.             *)
OnFileEvent ==
  /\ \E D \in SUBSET Opened(docs) :
       /\ changed' = changed \cup D
       /\ analysed' = analysed \ D
  /\ events' = Tail(events)
  /\ UNCHANGED <<project, docs, recovery>>

(* The watcher failed: the project goes, with the documents in it.         *)
OnErrorEvent ==
  /\ project' = "none"
  /\ docs' = NoDocs
  /\ events' = <<>>
  /\ analysed' = {}
  /\ UNCHANGED <<changed, recovery>>

OnNotifyEvent ==
  /\ pc = "select" \/ pc = "events"
  /\ events # <<>>
  /\ project = "loaded"
  /\ LET e == Head(events)
     IN  \/ e \in configPaths /\ OnConfigEvent
         \/ e \notin configPaths /\ e # ErrorEvent /\ OnFileEvent
         \/ e = ErrorEvent /\ OnErrorEvent
  /\ pc' = "events"
  /\ UNCHANGED <<clientVars, shown, responses, diskVars, loadVars, toPublish,
                 count, shutdown, panicVars>>

(* on_notify_events stops when nothing is queued or the watcher is gone.   *)
EventsHandled ==
  /\ pc = "events"
  /\ events = <<>> \/ project = "none"
  /\ pc' = "after"
  /\ UNCHANGED <<clientVars, shown, responses, diskVars, events, project,
                 loadVars, docs, recovery, analysed, changed, toPublish, count,
                 shutdown, panicVars>>

-----------------------------------------------------------------------------
(* Reindexing and publishing                                               *)

Reindex ==
  /\ pc = "after"
  /\ \/ /\ count > ReindexAfter
        /\ count' = 0
        /\ RecoverFromPanic(docs, Opened(docs))
     \/ /\ count <= ReindexAfter
        /\ UNCHANGED <<count, project, docs, recovery, analysed, changed, events>>
  /\ pc' = "take"
  /\ UNCHANGED <<clientVars, shown, responses, diskVars, loadVars, toPublish,
                 shutdown, panicVars>>

TakeChanged ==
  /\ pc = "take"
  /\ toPublish' = changed
  /\ changed' = {}
  /\ pc' = IF changed = {} THEN "top" ELSE "publish"
  /\ UNCHANGED <<clientVars, shown, responses, diskVars, events, project,
                 loadVars, docs, recovery, analysed, count, shutdown, panicVars>>

Publish(d) ==
  /\ pc = "publish"
  /\ project = "loaded"
  /\ d \in toPublish
  /\ toPublish' = toPublish \ {d}
  /\ count' = count + 1
  /\ shown' = [shown EXCEPT ![d] = ViewOf(d, options, docs)]
  /\ analysed' = analysed \cup {d}
  /\ pc' = IF toPublish = {d} THEN "top" ELSE "publish"
  /\ UNCHANGED <<clientVars, responses, diskVars, events, project, loadVars,
                 docs, recovery, changed, shutdown, panicVars>>

BlockOnSelect ==
  /\ pc = "top"
  /\ project = "loaded"
  /\ pc' = "select"
  /\ UNCHANGED <<clientVars, shown, responses, diskVars, events, project,
                 loadVars, docs, recovery, analysed, changed, toPublish, count,
                 shutdown, panicVars>>

(* Nothing catches a panic outside of a message.                           *)
Crash ==
  /\ "publish" \in CanPanic
  /\ pc \in {"top", "events", "publish"}
  /\ RunHook
  /\ pc' = "crashed"
  /\ UNCHANGED <<clientVars, shown, responses, diskVars, events, project,
                 loadVars, docs, recovery, analysed, changed, toPublish, count,
                 shutdown>>

-----------------------------------------------------------------------------

Init ==
  /\ inbox = <<>>
  /\ sent = 0
  /\ editor = NoDocs
  /\ shown = [d \in Doc |-> NoView]
  /\ responses = <<>>
  /\ config \in [ConfigName -> Conf \cup {NoConf}]
  /\ diskSteps = 0
  /\ events = <<>>
  /\ pc = "top"
  /\ project = "none"
  /\ next = 1
  /\ options = Default
  /\ configPaths = {}
  /\ docs = NoDocs
  /\ recovery = NoDocs
  /\ analysed = {}
  /\ changed = {}
  /\ toPublish = {}
  /\ count = 0
  /\ shutdown = FALSE
  /\ hook = TRUE
  /\ panics = 0
  /\ told = 0

ClientNext ==
  \/ \E d \in Doc, t \in Text : ClientOpen(d, t)
  \/ \E d \in Doc, t \in Text : ClientChange(d, t)
  \/ \E d \in Doc : ClientClose(d)
  \/ \E k \in Requests : ClientRequest(k)
  \/ \E k \in Notices : ClientNotify(k)

DiskNext ==
  \/ \E n \in ConfigName, c \in Conf \cup {NoConf} : WriteConfig(n, c)
  \/ WriteFile
  \/ WatcherFails

ServerNext ==
  \/ LoadProject
  \/ WatchConfig
  \/ ReadConfig
  \/ BlockOnSelect
  \/ OnMessage
  \/ OnExit
  \/ OnMessagePanics
  \/ OnNotifyEvent
  \/ EventsHandled
  \/ Reindex
  \/ TakeChanged
  \/ \E d \in Doc : Publish(d)
  \/ Crash

Next == ClientNext \/ DiskNext \/ ServerNext

Spec == Init /\ [][Next]_vars

(* The server's thread keeps running; nobody else has to do anything.      *)
FairSpec == Spec /\ WF_vars(ServerNext)

-----------------------------------------------------------------------------
(* Properties                                                              *)

TypeOK ==
  /\ inbox \in Seq(Message)
  /\ sent \in 0..MaxMessage
  /\ editor \in [Doc -> Text \cup {NoText}]
  /\ shown \in [Doc -> View \cup {NoView}]
  /\ responses \in Seq([id : Id, outcome : {"ok", "error", "shutdown"}])
  /\ config \in [ConfigName -> Conf \cup {NoConf}]
  /\ diskSteps \in 0..MaxDisk
  /\ events \in Seq(ConfigName \cup {FileEvent, ErrorEvent})
  /\ pc \in {"top", "select", "events", "after", "take", "publish", "ended",
             "crashed"}
  /\ project \in {"none", "watch", "read", "loaded"}
  /\ next \in ConfigName
  /\ options \in Options
  /\ configPaths \subseteq ConfigName
  /\ docs \in [Doc -> Text \cup {NoText}]
  /\ recovery \in [Doc -> Text \cup {NoText}]
  /\ analysed \subseteq Doc
  /\ changed \subseteq Doc
  /\ toPublish \subseteq Doc
  /\ count \in Nat
  /\ shutdown \in BOOLEAN
  /\ hook \in BOOLEAN
  /\ panics \in Nat
  /\ told \in Nat

(* Every request gets one response, in the order of the requests, also     *)
(* when its handler panics or it comes after shutdown.                     *)
AnsweredInOrder ==
  \A i, j \in DOMAIN responses : i < j => responses[i].id < responses[j].id

(* Once shutdown was answered no request succeeds any more, whatever the   *)
(* server recovers from in between.                                        *)
ShutdownIsFinal ==
  \A i, j \in DOMAIN responses :
    (i < j /\ responses[i].outcome = "shutdown") => responses[j].outcome = "error"

(* What is open in the editor is what the project has in memory whenever   *)
(* the server waits: in-memory files override the file system and outlive  *)
(* panics, reindexing and changes of the configuration.                    *)
DocumentsKept == (pc = "select" /\ inbox = <<>>) => docs = editor

(* The options a search makes of the configuration files as they are now.  *)
CurrentOptions ==
  LET Reached(n) == \A k \in 1..(n - 1) : ~EndsSearch(config[k])
  IN  IF \E n \in ConfigName : Reached(n) /\ config[n] \in Broken THEN Default
      ELSE [n \in ConfigName |-> IF Reached(n) THEN config[n] ELSE NoConf]

(* The text the project has of d, or will have when it is loaded, and the  *)
(* edits among the messages.                                               *)
Held(d) == IF project = "loaded" THEN docs[d] ELSE recovery[d]
DocKind == {"open", "change", "close"}
After(m) == IF m.kind = "close" THEN NoText ELSE m.text
Edits(q) ==
  [i \in DOMAIN q |-> IF q[i].kind \in DocKind THEN <<q[i].doc, After(q[i])>> ELSE <<>>]

Mirror == INSTANCE Documents
            WITH queue <- Edits(inbox), held <- [d \in Doc |-> Held(d)]

(* The texts the server holds are changed by the edits the client sends,   *)
(* each of them once and in order, and by nothing else: no recovery,       *)
(* reindexing or loading changes one or applies an edit again.             *)
FollowsEditor == Mirror!Spec

(* When the server waits and nothing is left to be received, the           *)
(* diagnostics of every open document are about the texts in the editor    *)
(* and the configuration on disk.                                          *)
DiagnosticsCurrent ==
  (pc = "select" /\ inbox = <<>> /\ events = <<>>) =>
    \A d \in Opened(editor) : shown[d] = ViewOf(d, CurrentOptions, editor)

(* The client is notified of every panic.                                  *)
PanicsReported == told = panics

Answered(i) == \E k \in DOMAIN responses : responses[k].id = i

(* Every request is answered, unless the server ends or crashes.           *)
RequestsAnswered ==
  \A i \in Id :
    (\E k \in DOMAIN inbox : IsRequest(inbox[k]) /\ inbox[k].id = i)
      ~> (Answered(i) \/ Stopped)

(* The diagnostics of what is open get current and stay so once the client *)
(* and the disk rest, unless the server ends or crashes.                   *)
DiagnosticsSettle ==
  <>[](Stopped \/ \A d \in Opened(editor) :
                    shown[d] = ViewOf(d, CurrentOptions, editor))

=============================================================================
