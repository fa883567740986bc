---------------------------- MODULE ServerProofs ----------------------------
(***************************************************************************)
(* Theorems about the event loop of the language server and their proofs.  *)
(***************************************************************************)
EXTENDS Server, TLAPS

-----------------------------------------------------------------------------
(* Types                                                                   *)

(* The fields of a message follow from its kind.                           *)
LEMMA MessageFields ==
  ASSUME NEW m \in Message
  PROVE  /\ m.kind \in {"open", "change"} => m.doc \in Doc /\ m.text \in Text
         /\ m.kind = "close" => m.doc \in Doc
         /\ IsRequest(m) => m.id \in Id
         /\ ~IsRequest(m) => m.kind \in {"open", "change", "close", "panic", "exit"}
  BY DEF Message, IsRequest, RequestKind

(* What is sent is a message.                                              *)
LEMMA MessageForms ==
  /\ \A d \in Doc, t \in Text : [kind |-> "open", doc |-> d, text |-> t] \in Message
  /\ \A d \in Doc, t \in Text : [kind |-> "change", doc |-> d, text |-> t] \in Message
  /\ \A d \in Doc : [kind |-> "close", doc |-> d] \in Message
  /\ \A k \in RequestKind, i \in Id : [kind |-> k, id |-> i] \in Message
  /\ \A k \in {"panic", "exit"} : [kind |-> k] \in Message
  BY DEF Message

(* Receiving leaves a sequence of messages.                                *)
LEMMA TailOfInbox ==
  ASSUME NEW S, NEW q \in Seq(S), q # <<>>
  PROVE  /\ Tail(q) \in Seq(S)
         /\ Head(q) \in S
         /\ Head(q) = q[1]
         /\ Len(q) \in Nat \ {0}
         /\ Len(Tail(q)) = Len(q) - 1
         /\ \A i \in 1..(Len(q) - 1) : Tail(q)[i] = q[i + 1]
  OBVIOUS

(* What a sequence holds at one of its positions is in the set it is       *)
(* over.                                                                   *)
LEMMA ElementOf ==
  ASSUME NEW S, NEW q \in Seq(S), NEW i \in DOMAIN q
  PROVE  q[i] \in S
  OBVIOUS

(* Sending.                                                                *)
LEMMA SendTypes ==
  ASSUME TypeOK, NEW m \in Message, Send(m)
  PROVE  inbox' \in Seq(Message) /\ sent' \in 0..MaxMessage
  BY ServerAssumption DEF TypeOK, Send

(* What the client sends keeps the types.                                  *)
LEMMA ClientTypes ==
  ASSUME TypeOK, ClientNext
  PROVE  TypeOK'
<1>1. ASSUME NEW d \in Doc, NEW t \in Text, ClientOpen(d, t) PROVE TypeOK'
  <2>1. inbox' \in Seq(Message) /\ sent' \in 0..MaxMessage
    BY <1>1, SendTypes, MessageForms DEF ClientOpen
  <2> QED BY <1>1, <2>1 DEF TypeOK, ClientOpen, diskVars, serverVars, loadVars, panicVars
<1>2. ASSUME NEW d \in Doc, NEW t \in Text, ClientChange(d, t) PROVE TypeOK'
  <2>1. inbox' \in Seq(Message) /\ sent' \in 0..MaxMessage
    BY <1>2, SendTypes, MessageForms DEF ClientChange
  <2> QED BY <1>2, <2>1 DEF TypeOK, ClientChange, diskVars, serverVars, loadVars, panicVars
<1>3. ASSUME NEW d \in Doc, ClientClose(d) PROVE TypeOK'
  <2>1. inbox' \in Seq(Message) /\ sent' \in 0..MaxMessage
    BY <1>3, SendTypes, MessageForms DEF ClientClose
  <2> QED BY <1>3, <2>1 DEF TypeOK, ClientClose, diskVars, serverVars, loadVars, panicVars
<1>4. ASSUME NEW k \in Requests, ClientRequest(k) PROVE TypeOK'
  <2>1. sent + 1 \in Id
    BY <1>4, ServerAssumption DEF TypeOK, ClientRequest, Send, Id
  <2>2. inbox' \in Seq(Message) /\ sent' \in 0..MaxMessage
    BY <1>4, <2>1, SendTypes, MessageForms, ServerAssumption DEF ClientRequest
  <2> QED BY <1>4, <2>2 DEF TypeOK, ClientRequest, diskVars, serverVars, loadVars, panicVars
<1>5. ASSUME NEW k \in Notices, ClientNotify(k) PROVE TypeOK'
  <2>1. inbox' \in Seq(Message) /\ sent' \in 0..MaxMessage
    BY <1>5, SendTypes, MessageForms, ServerAssumption DEF ClientNotify
  <2> QED BY <1>5, <2>1 DEF TypeOK, ClientNotify, diskVars, serverVars, loadVars, panicVars
<1> QED BY <1>1, <1>2, <1>3, <1>4, <1>5 DEF ClientNext

(* A change on disk that queues an event keeps the types.                  *)
LEMMA DiskStepTypes ==
  ASSUME TypeOK, NEW e \in ConfigName \cup {FileEvent, ErrorEvent}, DiskStep(e),
         config' \in [ConfigName -> Conf \cup {NoConf}]
  PROVE  TypeOK'
<1>1. events' \in Seq(ConfigName \cup {FileEvent, ErrorEvent})
  BY DEF TypeOK, DiskStep
<1>2. diskSteps' \in 0..MaxDisk
  BY ServerAssumption DEF TypeOK, DiskStep
<1> QED
  BY <1>1, <1>2 DEF TypeOK, DiskStep, clientVars, serverVars, loadVars, panicVars

(* So does every step of the disk.                                         *)
LEMMA DiskTypes ==
  ASSUME TypeOK, DiskNext
  PROVE  TypeOK'
<1>1. ASSUME NEW n \in ConfigName, NEW c \in Conf \cup {NoConf}, WriteConfig(n, c)
      PROVE  TypeOK'
  <2>1. config' \in [ConfigName -> Conf \cup {NoConf}]
    BY <1>1 DEF WriteConfig, TypeOK
  <2> QED BY <1>1, <2>1, DiskStepTypes DEF WriteConfig
<1>2. ASSUME WriteFile PROVE TypeOK'
  BY <1>2, DiskStepTypes DEF WriteFile, TypeOK
<1>3. ASSUME WatcherFails PROVE TypeOK'
  BY <1>3, DiskStepTypes DEF WatcherFails, TypeOK
<1> QED BY <1>1, <1>2, <1>3 DEF DiskNext

(* The steps that handle no message.                                       *)
LEMMA LoadTypes ==
  ASSUME TypeOK, LoadProject \/ WatchConfig \/ ReadConfig
  PROVE  TypeOK'
<1>1. Default \in Options /\ NoDocs \in [Doc -> Text \cup {NoText}] /\ 1 \in ConfigName
  BY ServerAssumption DEF Default, Options, NoDocs, ConfigName
<1>2. ASSUME LoadProject PROVE TypeOK'
  BY <1>1, <1>2 DEF TypeOK, LoadProject, clientVars, diskVars, panicVars
<1>3. ASSUME WatchConfig PROVE TypeOK'
  BY <1>3 DEF TypeOK, WatchConfig, clientVars, diskVars, panicVars
<1>4. ASSUME ReadConfig PROVE TypeOK'
  <2>1. options' \in Options
    <3>1. [options EXCEPT ![next] = config[next]] \in Options
      BY DEF TypeOK, Options
    <3> QED BY <1>1, <1>4, <3>1 DEF ReadConfig
  <2>2. /\ project' \in {"none", "watch", "read", "loaded"}
        /\ docs' \in [Doc -> Text \cup {NoText}]
        /\ recovery' \in [Doc -> Text \cup {NoText}]
        /\ analysed' \subseteq Doc
    BY <1>1, <1>4 DEF TypeOK, ReadConfig, Loaded
  <2>3. next' \in ConfigName
    BY <1>4, ServerAssumption DEF TypeOK, ReadConfig, Loaded, ConfigName
  <2> QED
    BY <1>4, <2>1, <2>2, <2>3 DEF TypeOK, ReadConfig, clientVars, diskVars, panicVars
<1> QED BY <1>2, <1>3, <1>4

(* The parts of the state that a recovery changes.                         *)
ProjectTypes ==
  /\ events \in Seq(ConfigName \cup {FileEvent, ErrorEvent})
  /\ project \in {"none", "watch", "read", "loaded"}
  /\ docs \in [Doc -> Text \cup {NoText}]
  /\ recovery \in [Doc -> Text \cup {NoText}]
  /\ analysed \subseteq Doc
  /\ changed \subseteq Doc

(* recover_from_panic keeps the types of what it rebuilds.                 *)
LEMMA RecoverTypes ==
  ASSUME TypeOK, NEW D \in [Doc -> Text \cup {NoText}], NEW A \in SUBSET Doc,
         RecoverFromPanic(D, A)
  PROVE  ProjectTypes'
  BY DEF TypeOK, RecoverFromPanic, ProjectTypes, NoDocs

(* Answering a request keeps the types.                                    *)
LEMMA RequestTypes ==
  ASSUME TypeOK, NEW m \in Message, IsRequest(m), OnRequest(m)
  PROVE  /\ ProjectTypes'
         /\ responses' \in Seq([id : Id, outcome : {"ok", "error", "shutdown"}])
         /\ shutdown' \in BOOLEAN
         /\ count' \in Nat
<1>1. Replies(m) \in Seq([id : Id, outcome : {"ok", "error", "shutdown"}])
  BY MessageFields DEF Replies
<1>2. responses' \in Seq([id : Id, outcome : {"ok", "error", "shutdown"}])
  BY <1>1 DEF OnRequest, TypeOK
<1>3. shutdown' \in BOOLEAN /\ count' \in Nat
  BY DEF OnRequest, TypeOK
<1> QED BY <1>2, <1>3 DEF OnRequest, TypeOK, ProjectTypes

(* Handling a notification of the client keeps the types.                  *)
LEMMA NotificationTypes ==
  ASSUME TypeOK, NEW m \in Message, OnNotification(m)
  PROVE  ProjectTypes' /\ UNCHANGED <<responses, shutdown, count, events, project, recovery>>
<1>1. \A d \in Doc : Dependents(d) \subseteq Doc
  BY DEF Dependents, TypeOK
<1>2. docs' \in [Doc -> Text \cup {NoText}] /\ changed' \subseteq Doc /\ analysed' \subseteq Doc
  <2>1. CASE m.kind = "open" /\ Store(m.doc, m.text)
    BY <1>1, <2>1, MessageFields DEF Store, TypeOK
  <2>2. CASE m.kind = "change" /\ Store(m.doc, m.text)
    BY <1>1, <2>2, MessageFields DEF Store, TypeOK
  <2>3. CASE m.kind = "close" /\ Forget(m.doc)
    BY <1>1, <2>3, MessageFields DEF Forget, TypeOK
  <2>4. CASE UNCHANGED <<docs, changed, analysed>>
    BY <2>4 DEF TypeOK
  <2> QED BY <2>1, <2>2, <2>3, <2>4 DEF OnNotification
<1> QED BY <1>2 DEF OnNotification, ProjectTypes, TypeOK

(* So does every message that is handled without a panic.                  *)
LEMMA MessageTypes ==
  ASSUME TypeOK, OnMessage
  PROVE  TypeOK'
<1> DEFINE m == Head(inbox)
<1>1. m \in Message /\ inbox' \in Seq(Message)
  BY TailOfInbox DEF OnMessage, TypeOK
<1>2. /\ ProjectTypes'
      /\ responses' \in Seq([id : Id, outcome : {"ok", "error", "shutdown"}])
      /\ shutdown' \in BOOLEAN
      /\ count' \in Nat
  <2>1. CASE IsRequest(m)
    BY <1>1, <2>1, RequestTypes DEF OnMessage
  <2>2. CASE ~IsRequest(m)
    <3>1. OnNotification(m)
      BY <2>2 DEF OnMessage
    <3> HIDE DEF m
    <3> QED BY <1>1, <3>1, NotificationTypes DEF TypeOK
  <2> QED BY <2>1, <2>2
<1> QED
  BY <1>1, <1>2 DEF OnMessage, TypeOK, ProjectTypes, diskVars, loadVars, panicVars

(* What may survive a panic, and what may be announced then, are well      *)
(* typed.                                                                  *)
LEMMA SurvivorTypes ==
  ASSUME TypeOK, NEW m \in Message, NEW D \in Survivors(m), NEW A \in Announced(m, D)
  PROVE  D \in [Doc -> Text \cup {NoText}] /\ A \in SUBSET Doc
<1>1. D \in [Doc -> Text \cup {NoText}]
  BY MessageFields DEF Survivors, TypeOK
<1>2. Opened(D) \subseteq Doc
  BY DEF Opened
<1>3. A = Opened(D) \/ (m.kind \in {"open", "change"} /\ A = Opened(D) \cup {m.doc})
  BY DEF Announced
<1> QED BY <1>1, <1>2, <1>3, MessageFields

(* The panic hook keeps the types.                                         *)
LEMMA HookTypes ==
  ASSUME TypeOK, RunHook
  PROVE  hook' \in BOOLEAN /\ panics' \in Nat /\ told' \in Nat
<1>1. panics' = panics + 1 /\ (told' = told + 1 \/ told' = told) /\ hook' = FALSE
  BY Zenon DEF RunHook
<1>2. panics \in Nat /\ told \in Nat
  BY DEF TypeOK
<1>3. panics' \in Nat /\ told' \in Nat
  <2>1. CASE told' = told + 1
    BY <1>1, <1>2, <2>1
  <2>2. CASE told' = told
    BY <1>1, <1>2, <2>2
  <2> QED BY <1>1, <2>1, <2>2
<1>4. hook' \in BOOLEAN
  BY <1>1, Zenon
<1> QED BY <1>3, <1>4

(* A message whose handler panics keeps the types.                         *)
LEMMA PanicTypes ==
  ASSUME TypeOK, OnMessagePanics
  PROVE  TypeOK'
<1> DEFINE m == Head(inbox)
<1>1. m \in Message /\ inbox' \in Seq(Message)
  BY TailOfInbox DEF OnMessagePanics, TypeOK
<1>2. PICK D \in Survivors(m) : \E A \in Announced(m, D) : RecoverFromPanic(D, A)
  BY DEF OnMessagePanics
<1>3. ProjectTypes'
  <2> HIDE DEF m
  <2> QED BY <1>1, <1>2, SurvivorTypes, RecoverTypes
<1>4. responses' \in Seq([id : Id, outcome : {"ok", "error", "shutdown"}])
  <2>1. PanicReply(m) \in Seq([id : Id, outcome : {"ok", "error", "shutdown"}])
    <3> HIDE DEF m
    <3>1. CASE IsRequest(m)
      <4>1. [id |-> m.id, outcome |-> "error"] \in
              [id : Id, outcome : {"ok", "error", "shutdown"}]
        BY <1>1, <3>1, MessageFields
      <4>2. PanicReply(m) = <<[id |-> m.id, outcome |-> "error"]>>
        BY <3>1 DEF PanicReply
      <4> QED BY <4>1, <4>2
    <3>2. CASE ~IsRequest(m)
      BY <3>2 DEF PanicReply
    <3> QED BY <3>1, <3>2
  <2>2. responses' = responses \o PanicReply(m)
    BY DEF OnMessagePanics
  <2> QED BY <2>1, <2>2 DEF TypeOK
<1>5. count' \in Nat
  BY DEF OnMessagePanics, TypeOK
<1> QED
  BY <1>1, <1>3, <1>4, <1>5, HookTypes
  DEF OnMessagePanics, TypeOK, ProjectTypes, diskVars, loadVars

(* Handling an event of the watcher keeps the types.                       *)
LEMMA EventTypes ==
  ASSUME TypeOK, OnNotifyEvent \/ EventsHandled
  PROVE  TypeOK'
<1>1. ASSUME OnNotifyEvent PROVE TypeOK'
  <2>1. ProjectTypes'
    <3>1. CASE OnConfigEvent
      BY <3>1, RecoverTypes DEF OnConfigEvent, TypeOK, Opened
    <3>2. CASE OnFileEvent
      BY <1>1, <3>2 DEF OnNotifyEvent, OnFileEvent, TypeOK, Opened, ProjectTypes
    <3>3. CASE OnErrorEvent
      BY <3>3 DEF OnErrorEvent, TypeOK, ProjectTypes, NoDocs
    <3> QED BY <1>1, <3>1, <3>2, <3>3 DEF OnNotifyEvent
  <2> QED
    BY <1>1, <2>1 DEF OnNotifyEvent, TypeOK, ProjectTypes, clientVars, diskVars, loadVars, panicVars
<1>2. ASSUME EventsHandled PROVE TypeOK'
  BY <1>2 DEF EventsHandled, TypeOK, clientVars, diskVars, loadVars, panicVars
<1> QED BY <1>1, <1>2

(* Reindexing, and taking and publishing what is due, keep the types.      *)
LEMMA PublishTypes ==
  ASSUME TypeOK, Reindex \/ TakeChanged \/ (\E d \in Doc : Publish(d))
  PROVE  TypeOK'
<1>1. ASSUME Reindex PROVE TypeOK'
  <2>1. ProjectTypes'
    <3>1. CASE RecoverFromPanic(docs, Opened(docs))
      BY <3>1, RecoverTypes DEF TypeOK, Opened
    <3>2. CASE UNCHANGED <<project, docs, recovery, analysed, changed, events>>
      BY <3>2 DEF TypeOK, ProjectTypes
    <3> QED BY <1>1, <3>1, <3>2 DEF Reindex
  <2>2. count' \in Nat
    BY <1>1 DEF Reindex, TypeOK
  <2> QED
    BY <1>1, <2>1, <2>2 DEF Reindex, TypeOK, ProjectTypes, clientVars, diskVars, loadVars, panicVars
<1>2. ASSUME TakeChanged PROVE TypeOK'
  BY <1>2 DEF TakeChanged, TypeOK, clientVars, diskVars, loadVars, panicVars
<1>3. ASSUME NEW d \in Doc, Publish(d) PROVE TypeOK'
  <2>1. ViewOf(d, options, docs) \in View
    BY DEF ViewOf, View, TypeOK
  <2> HIDE DEF ViewOf, View
  <2>2. shown' \in [Doc -> View \cup {NoView}]
    BY <1>3, <2>1 DEF Publish, TypeOK
  <2> QED
    BY <1>3, <2>2 DEF Publish, TypeOK, clientVars, diskVars, loadVars, panicVars
<1> QED BY <1>1, <1>2, <1>3

(* Waiting, exiting and crashing keep the types.                           *)
LEMMA OtherTypes ==
  ASSUME TypeOK, OnExit \/ BlockOnSelect \/ Crash
  PROVE  TypeOK'
<1>1. ASSUME OnExit PROVE TypeOK'
  <2>1. inbox' \in Seq(Message)
    BY <1>1, TailOfInbox DEF OnExit, TypeOK
  <2> QED BY <1>1, <2>1 DEF OnExit, TypeOK, diskVars, loadVars, panicVars
<1>2. ASSUME BlockOnSelect PROVE TypeOK'
  BY <1>2 DEF BlockOnSelect, TypeOK, clientVars, diskVars, loadVars, panicVars
<1>3. ASSUME Crash PROVE TypeOK'
  BY <1>3, HookTypes DEF Crash, TypeOK, clientVars, diskVars, loadVars
<1> QED BY <1>1, <1>2, <1>3

(* The server starts well typed.                                           *)
LEMMA InitTypes == Init => TypeOK
<1> SUFFICES ASSUME Init PROVE TypeOK
  OBVIOUS
<1>1. Default \in Options /\ NoDocs \in [Doc -> Text \cup {NoText}] /\ 1 \in ConfigName
  BY ServerAssumption DEF Default, Options, NoDocs, ConfigName
<1>2. shown \in [Doc -> View \cup {NoView}]
  BY DEF Init
<1>3. inbox \in Seq(Message) /\ events \in Seq(ConfigName \cup {FileEvent, ErrorEvent})
  BY DEF Init
<1>4. sent \in 0..MaxMessage /\ diskSteps \in 0..MaxDisk
  BY ServerAssumption DEF Init
<1>5. responses \in Seq([id : Id, outcome : {"ok", "error", "shutdown"}])
  BY DEF Init
<1> QED BY <1>1, <1>2, <1>3, <1>4, <1>5 DEF Init, TypeOK

(* Every step keeps the types.                                             *)
LEMMA StepTypes == TypeOK /\ [Next]_vars => TypeOK'
<1> SUFFICES ASSUME TypeOK, [Next]_vars PROVE TypeOK'
  OBVIOUS
<1>1. CASE UNCHANGED vars
  BY <1>1 DEF vars, TypeOK
<1>2. CASE ServerNext
  BY <1>2, LoadTypes, MessageTypes, PanicTypes, EventTypes, PublishTypes, OtherTypes
  DEF ServerNext
<1> QED BY <1>1, <1>2, ClientTypes, DiskTypes DEF Next

(* The server's state is well-formed in every run, for any number of       *)
(* documents, configuration files, messages and events.                    *)
THEOREM ServerTypes == Spec => []TypeOK
  BY InitTypes, StepTypes, PTL DEF Spec

-----------------------------------------------------------------------------
(* Requests                                                                *)

(* Requests are numbered in the order in which they are sent, and those in *)
(* the inbox come after those that were answered.                          *)
Numbered ==
  /\ \A k \in DOMAIN inbox : IsRequest(inbox[k]) => inbox[k].id <= sent
  /\ \A k, l \in DOMAIN inbox :
       k < l /\ IsRequest(inbox[k]) /\ IsRequest(inbox[l]) => inbox[k].id < inbox[l].id
  /\ \A i \in DOMAIN responses : responses[i].id <= sent
  /\ \A i \in DOMAIN responses, k \in DOMAIN inbox :
       IsRequest(inbox[k]) => responses[i].id < inbox[k].id

(* Who answered shutdown remembers it.                                     *)
Remembered ==
  \A i \in DOMAIN responses : responses[i].outcome = "shutdown" => shutdown

RequestInv == Numbered /\ AnsweredInOrder /\ Remembered /\ ShutdownIsFinal

(* A message that is sent has the next number.                             *)
LEMMA SendNumbered ==
  ASSUME TypeOK, RequestInv, NEW m \in Message, Send(m), IsRequest(m) => m.id = sent + 1,
         UNCHANGED <<responses, shutdown>>
  PROVE  RequestInv'
<1>1. /\ inbox' = Append(inbox, m) /\ sent' = sent + 1 /\ sent \in Nat
      /\ inbox \in Seq(Message) /\ Len(inbox) \in Nat
  BY DEF Send, TypeOK
<1>2. /\ DOMAIN inbox' = 1..(Len(inbox) + 1)
      /\ DOMAIN inbox = 1..Len(inbox)
      /\ inbox'[Len(inbox) + 1] = m
      /\ \A k \in DOMAIN inbox : inbox'[k] = inbox[k]
  BY <1>1
<1>3. \A i \in DOMAIN responses : responses[i].id \in Nat
  <2>1. responses \in Seq([id : Id, outcome : {"ok", "error", "shutdown"}])
    BY DEF TypeOK
  <2>2. \A i \in DOMAIN responses : responses[i] \in [id : Id, outcome : {"ok", "error", "shutdown"}]
    BY <2>1, ElementOf
  <2> QED BY <2>2 DEF Id
<1>4. \A k \in DOMAIN inbox : IsRequest(inbox[k]) => inbox[k].id \in Nat
  BY <1>1, MessageFields DEF Id
<1>5. Numbered'
  <2>1. (\A k \in DOMAIN inbox : IsRequest(inbox[k]) => inbox[k].id <= sent)'
    BY <1>1, <1>2, <1>4 DEF RequestInv, Numbered, IsRequest
  <2>2. ASSUME NEW k \in DOMAIN inbox', NEW l \in DOMAIN inbox', k < l,
               IsRequest(inbox'[k]), IsRequest(inbox'[l])
        PROVE  inbox'[k].id < inbox'[l].id
    <3>1. k \in DOMAIN inbox /\ inbox'[k] = inbox[k]
      BY <1>1, <1>2, <2>2
    <3>2. CASE l \in DOMAIN inbox
      BY <1>2, <2>2, <3>1, <3>2 DEF RequestInv, Numbered
    <3>3. CASE l = Len(inbox) + 1
      BY <1>1, <1>2, <1>4, <2>2, <3>1, <3>3 DEF RequestInv, Numbered
    <3> QED BY <1>1, <1>2, <3>2, <3>3
  <2>3. (\A i \in DOMAIN responses : responses[i].id <= sent)'
    BY <1>1, <1>3 DEF RequestInv, Numbered
  <2>4. ASSUME NEW i \in DOMAIN responses', NEW k \in DOMAIN inbox', IsRequest(inbox'[k])
        PROVE  responses'[i].id < inbox'[k].id
    <3>1. CASE k \in DOMAIN inbox
      BY <1>2, <2>4, <3>1 DEF RequestInv, Numbered
    <3>2. CASE k = Len(inbox) + 1
      BY <1>1, <1>2, <1>3, <2>4, <3>2 DEF RequestInv, Numbered
    <3> QED BY <1>1, <1>2, <3>1, <3>2
  <2> QED BY <2>1, <2>2, <2>3, <2>4 DEF Numbered, IsRequest
<1> QED
  BY <1>5 DEF RequestInv, AnsweredInOrder, Remembered, ShutdownIsFinal

(* A message is received and not answered.                                 *)
LEMMA ReceiveNumbered ==
  ASSUME TypeOK, RequestInv, inbox # <<>>, inbox' = Tail(inbox),
         UNCHANGED <<sent, responses, shutdown>>
  PROVE  RequestInv'
<1>1. /\ Len(inbox) \in Nat \ {0}
      /\ DOMAIN inbox' = 1..(Len(inbox) - 1)
      /\ DOMAIN inbox = 1..Len(inbox)
      /\ \A k \in DOMAIN inbox' : k \in Int /\ k + 1 \in DOMAIN inbox /\ inbox'[k] = inbox[k + 1]
  BY TailOfInbox DEF TypeOK
<1>2. Numbered'
  BY <1>1 DEF RequestInv, Numbered, IsRequest
<1> QED
  BY <1>2 DEF RequestInv, AnsweredInOrder, Remembered, ShutdownIsFinal

(* A request is received and answered.                                     *)
LEMMA AnswerNumbered ==
  ASSUME TypeOK, RequestInv, inbox # <<>>, IsRequest(Head(inbox)),
         inbox' = Tail(inbox), UNCHANGED sent,
         NEW o \in {"ok", "error", "shutdown"},
         responses' = responses \o <<[id |-> Head(inbox).id, outcome |-> o]>>,
         o = "shutdown" => shutdown', shutdown => shutdown' /\ o = "error"
  PROVE  RequestInv'
<1>1. /\ Len(inbox) \in Nat \ {0}
      /\ DOMAIN inbox' = 1..(Len(inbox) - 1)
      /\ DOMAIN inbox = 1..Len(inbox)
      /\ Head(inbox) = inbox[1]
      /\ \A k \in DOMAIN inbox' : k \in Nat \ {0} /\ k + 1 \in DOMAIN inbox /\ inbox'[k] = inbox[k + 1]
  BY TailOfInbox DEF TypeOK
<1> DEFINE n == Len(responses)
<1>2. /\ n \in Nat
      /\ DOMAIN responses = 1..n /\ DOMAIN responses' = 1..(n + 1)
      /\ \A i \in 1..n : responses'[i] = responses[i]
      /\ responses'[n + 1].id = inbox[1].id
      /\ responses'[n + 1].outcome = o
  BY <1>1 DEF TypeOK
<1> HIDE DEF n
<1>3. \A i \in 1..(n + 1) : i \in 1..n \/ i = n + 1
  BY <1>2
<1>4. /\ 1 \in DOMAIN inbox /\ IsRequest(inbox[1])
      /\ \A i \in 1..n : responses[i].id < inbox[1].id
      /\ inbox[1].id <= sent
  <2>1. 1 \in DOMAIN inbox
    BY <1>1
  <2>2. IsRequest(inbox[1])
    BY <1>1
  <2>3. \A i \in 1..n : responses[i].id < inbox[1].id
    BY <1>2, <2>1, <2>2 DEF RequestInv, Numbered
  <2>4. inbox[1].id <= sent
    BY <2>1, <2>2 DEF RequestInv, Numbered
  <2> QED BY <2>1, <2>2, <2>3, <2>4
<1>5. Numbered'
  <2>1. (\A k \in DOMAIN inbox : IsRequest(inbox[k]) => inbox[k].id <= sent)'
    BY <1>1 DEF RequestInv, Numbered, IsRequest
  <2>2. \A k, l \in DOMAIN inbox' :
          k < l /\ IsRequest(inbox'[k]) /\ IsRequest(inbox'[l]) => inbox'[k].id < inbox'[l].id
    BY <1>1 DEF RequestInv, Numbered
  <2>3. \A i \in DOMAIN responses' : responses'[i].id <= sent'
    BY <1>2, <1>3, <1>4 DEF RequestInv, Numbered
  <2>4. ASSUME NEW i \in DOMAIN responses', NEW k \in DOMAIN inbox', IsRequest(inbox'[k])
        PROVE  responses'[i].id < inbox'[k].id
    <3>1. k + 1 \in DOMAIN inbox /\ 1 < k + 1 /\ inbox'[k] = inbox[k + 1]
      BY <1>1
    <3>2. CASE i \in 1..n
      BY <1>2, <2>4, <3>1, <3>2 DEF RequestInv, Numbered
    <3>3. CASE i = n + 1
      BY <1>2, <1>4, <2>4, <3>1, <3>3 DEF RequestInv, Numbered
    <3> QED BY <1>2, <1>3, <3>2, <3>3
  <2> QED BY <2>1, <2>2, <2>3, <2>4 DEF Numbered, IsRequest
<1>6. AnsweredInOrder'
  <2> SUFFICES ASSUME NEW i \in 1..(n + 1), NEW j \in 1..(n + 1), i < j
               PROVE  responses'[i].id < responses'[j].id
    BY <1>2 DEF AnsweredInOrder
  <2>1. i \in 1..n
    BY <1>2
  <2>2. CASE j \in 1..n
    BY <1>2, <2>1, <2>2 DEF RequestInv, AnsweredInOrder
  <2>3. CASE j = n + 1
    BY <1>2, <1>4, <2>1, <2>3
  <2> QED BY <1>3, <2>2, <2>3
<1>7. Remembered'
  BY <1>2, <1>3 DEF RequestInv, Remembered
<1>8. ShutdownIsFinal'
  <2> SUFFICES ASSUME NEW i \in 1..(n + 1), NEW j \in 1..(n + 1), i < j,
                      responses'[i].outcome = "shutdown"
               PROVE  responses'[j].outcome = "error"
    BY <1>2 DEF ShutdownIsFinal
  <2>1. i \in 1..n /\ responses[i].outcome = "shutdown"
    BY <1>2
  <2>2. CASE j \in 1..n
    BY <1>2, <2>1, <2>2 DEF RequestInv, ShutdownIsFinal
  <2>3. CASE j = n + 1
    BY <1>2, <2>1, <2>3 DEF RequestInv, Remembered
  <2> QED BY <1>3, <2>2, <2>3
<1> QED BY <1>5, <1>6, <1>7, <1>8 DEF RequestInv

(* Every step keeps the requests numbered and shutdown remembered: the     *)
(* client appends with a new number, the server answers the head of the    *)
(* inbox.                                                                  *)
LEMMA RequestStep == TypeOK /\ RequestInv /\ [Next]_vars => RequestInv'
<1> SUFFICES ASSUME TypeOK, RequestInv, [Next]_vars PROVE RequestInv'
  OBVIOUS
<1>1. ASSUME UNCHANGED <<inbox, sent, responses, shutdown>> PROVE RequestInv'
  BY <1>1 DEF RequestInv, Numbered, AnsweredInOrder, Remembered, ShutdownIsFinal, IsRequest
<1>2. CASE ClientNext
  <2>1. ASSUME NEW d \in Doc, NEW t \in Text, ClientOpen(d, t) PROVE RequestInv'
    BY <2>1, SendNumbered, MessageForms DEF ClientOpen, serverVars, IsRequest, RequestKind
  <2>2. ASSUME NEW d \in Doc, NEW t \in Text, ClientChange(d, t) PROVE RequestInv'
    BY <2>2, SendNumbered, MessageForms DEF ClientChange, serverVars, IsRequest, RequestKind
  <2>3. ASSUME NEW d \in Doc, ClientClose(d) PROVE RequestInv'
    BY <2>3, SendNumbered, MessageForms DEF ClientClose, serverVars, IsRequest, RequestKind
  <2>4. ASSUME NEW k \in Requests, ClientRequest(k) PROVE RequestInv'
    <3>1. [kind |-> k, id |-> sent + 1] \in Message
      <4>1. sent + 1 \in Id
        BY <2>4, ServerAssumption DEF TypeOK, ClientRequest, Send, Id
      <4> QED BY <4>1, MessageForms, ServerAssumption
    <3> QED BY <2>4, <3>1, SendNumbered DEF ClientRequest, serverVars
  <2>5. ASSUME NEW k \in Notices, ClientNotify(k) PROVE RequestInv'
    <3>1. k \in {"panic", "exit"}
      BY ServerAssumption
    <3> QED
      BY <2>5, <3>1, SendNumbered, MessageForms DEF ClientNotify, serverVars, IsRequest, RequestKind
  <2> QED BY <1>2, <2>1, <2>2, <2>3, <2>4, <2>5 DEF ClientNext
<1>3. CASE DiskNext
  BY <1>1, <1>3
  DEF DiskNext, WriteConfig, WriteFile, WatcherFails, DiskStep, clientVars, serverVars
<1>4. CASE OnMessage
  <2>1. inbox # <<>> /\ inbox' = Tail(inbox) /\ UNCHANGED sent
    BY <1>4 DEF OnMessage
  <2>2. CASE IsRequest(Head(inbox))
    <3> DEFINE m == Head(inbox)
    <3>1. OnRequest(m)
      BY <1>4, <2>2 DEF OnMessage
    <3> DEFINE o == IF shutdown \/ m.kind = "invalid" THEN "error"
                    ELSE IF m.kind = "shutdown" THEN "shutdown" ELSE "ok"
    <3>2. responses' = responses \o <<[id |-> m.id, outcome |-> o]>>
      BY <3>1 DEF OnRequest, Replies
    <3>3. o = "shutdown" => m.kind = "shutdown"
      BY Zenon
    <3>4. shutdown => o = "error"
      BY Zenon
    <3>5. shutdown' = (shutdown \/ m.kind = "shutdown")
      BY <3>1, Zenon DEF OnRequest
    <3>6. (o = "shutdown" => shutdown') /\ (shutdown => shutdown' /\ o = "error")
      BY <3>3, <3>4, <3>5, Zenon
    <3>7. o \in {"ok", "error", "shutdown"}
      BY Zenon
    <3> HIDE DEF o
    <3> QED BY <2>1, <2>2, <3>2, <3>6, <3>7, AnswerNumbered
  <2>3. CASE ~IsRequest(Head(inbox))
    <3>1. OnNotification(Head(inbox))
      BY <1>4, <2>3 DEF OnMessage
    <3>2. UNCHANGED <<responses, shutdown>>
      BY <3>1 DEF OnNotification
    <3> QED BY <2>1, <3>2, ReceiveNumbered
  <2> QED BY <2>2, <2>3
<1>5. CASE OnExit
  BY <1>5, ReceiveNumbered DEF OnExit
<1>6. CASE OnMessagePanics
  <2>1. inbox # <<>> /\ inbox' = Tail(inbox) /\ UNCHANGED <<sent, shutdown>>
    BY <1>6 DEF OnMessagePanics
  <2>2. CASE IsRequest(Head(inbox))
    <3>1. ~shutdown
      BY <1>6, <2>2 DEF OnMessagePanics
    <3>2. responses' = responses \o <<[id |-> Head(inbox).id, outcome |-> "error"]>>
      BY <1>6, <2>2 DEF OnMessagePanics, PanicReply
    <3> QED BY <2>1, <2>2, <3>1, <3>2, AnswerNumbered
  <2>3. CASE ~IsRequest(Head(inbox))
    <3>1. responses' = responses \o <<>>
      BY <1>6, <2>3 DEF OnMessagePanics, PanicReply
    <3>2. responses' = responses
      BY <3>1 DEF TypeOK
    <3> QED BY <2>1, <3>2, ReceiveNumbered
  <2> QED BY <2>2, <2>3
<1>7. CASE LoadProject \/ WatchConfig \/ ReadConfig
  BY <1>1, <1>7 DEF LoadProject, WatchConfig, ReadConfig, clientVars
<1>8. CASE BlockOnSelect \/ Crash
  BY <1>1, <1>8 DEF BlockOnSelect, Crash, clientVars
<1>9. CASE OnNotifyEvent \/ EventsHandled
  BY <1>1, <1>9 DEF OnNotifyEvent, EventsHandled, clientVars
<1>10. CASE Reindex \/ TakeChanged \/ (\E d \in Doc : Publish(d))
  BY <1>1, <1>10 DEF Reindex, TakeChanged, Publish, clientVars
<1>11. CASE UNCHANGED vars
  BY <1>1, <1>11 DEF vars
<1> QED
  BY <1>2, <1>3, <1>4, <1>5, <1>6, <1>7, <1>8, <1>9, <1>10, <1>11 DEF Next, ServerNext

(* Nothing was asked or answered in the beginning.                         *)
LEMMA RequestInit == Init => RequestInv
  BY DEF Init, RequestInv, Numbered, AnsweredInOrder, Remembered, ShutdownIsFinal

(* RequestInv is an invariant, together with the types.                    *)
LEMMA RequestsHold == Spec => [](TypeOK /\ RequestInv)
<1>1. Init => TypeOK /\ RequestInv
  BY InitTypes, RequestInit
<1>2. TypeOK /\ RequestInv /\ [Next]_vars => (TypeOK /\ RequestInv)'
  BY StepTypes, RequestStep
<1> QED BY <1>1, <1>2, PTL DEF Spec

(* No request is answered twice or before an earlier one, whichever        *)
(* handlers panic and however often the server recovers or reindexes.      *)
THEOREM AnswersInOrder == Spec => []AnsweredInOrder
<1>1. TypeOK /\ RequestInv => AnsweredInOrder
  BY DEF RequestInv
<1> QED BY <1>1, RequestsHold, PTL

(* After shutdown was answered every request is refused, also after any    *)
(* number of recoveries.                                                   *)
THEOREM ShutdownStays == Spec => []ShutdownIsFinal
<1>1. TypeOK /\ RequestInv => ShutdownIsFinal
  BY DEF RequestInv
<1> QED BY <1>1, RequestsHold, PTL

-----------------------------------------------------------------------------
(* Documents                                                               *)

(* The messages of q about document d.                                     *)
About(q, d) == {i \in DOMAIN q : q[i].kind \in DocKind /\ q[i].doc = d}

(* The messages q about d lead from the text h to the text e, and each of  *)
(* them is acceptable when it arrives: only an open needs no open document.*)
Chain(q, d, h, e) ==
  /\ About(q, d) = {} => h = e
  /\ \A i \in About(q, d) :
       (\A k \in About(q, d) : i <= k) => q[i].kind = "open" \/ h # NoText
  /\ \A i \in About(q, d) :
       (\A k \in About(q, d) : k <= i) => After(q[i]) = e
  /\ \A i, j \in About(q, d) :
       i < j /\ (\A k \in About(q, d) : k <= i \/ j <= k) =>
         q[j].kind = "open" \/ q[i].kind # "close"

(* The messages about a document after one more was sent.                  *)
LEMMA AboutAppend ==
  ASSUME NEW q \in Seq(Message), NEW m \in Message, NEW d \in Doc
  PROVE  /\ Len(q) \in Nat
         /\ \A i \in About(q, d) : i \in 1..Len(q) /\ Append(q, m)[i] = q[i]
         /\ Append(q, m)[Len(q) + 1] = m
         /\ m.kind \in DocKind /\ m.doc = d =>
              About(Append(q, m), d) = About(q, d) \cup {Len(q) + 1}
         /\ ~(m.kind \in DocKind /\ m.doc = d) => About(Append(q, m), d) = About(q, d)
<1>1. /\ Len(q) \in Nat /\ DOMAIN q = 1..Len(q)
      /\ DOMAIN Append(q, m) = 1..(Len(q) + 1)
      /\ Append(q, m)[Len(q) + 1] = m
      /\ \A i \in 1..Len(q) : Append(q, m)[i] = q[i]
  OBVIOUS
<1> QED BY <1>1 DEF About

(* The messages about a document after the first one was received.         *)
LEMMA AboutTail ==
  ASSUME NEW q \in Seq(Message), q # <<>>, NEW d \in Doc
  PROVE  /\ \A i \in About(Tail(q), d) :
              i \in Nat \ {0} /\ i + 1 \in About(q, d) /\ Tail(q)[i] = q[i + 1]
         /\ \A k \in About(q, d) : k \in Nat \ {0} /\ (k = 1 \/ k - 1 \in About(Tail(q), d))
         /\ 1 \in About(q, d) <=> q[1].kind \in DocKind /\ q[1].doc = d
<1>1. /\ Len(q) \in Nat \ {0}
      /\ DOMAIN Tail(q) = 1..(Len(q) - 1)
      /\ DOMAIN q = 1..Len(q)
      /\ \A i \in 1..(Len(q) - 1) : Tail(q)[i] = q[i + 1]
  BY TailOfInbox
<1> QED BY <1>1 DEF About

(* A message that is not about a document leaves its chain alone.          *)
LEMMA ChainOther ==
  ASSUME NEW q \in Seq(Message), NEW m \in Message, NEW d \in Doc, NEW h, NEW e,
         Chain(q, d, h, e), ~(m.kind \in DocKind /\ m.doc = d)
  PROVE  Chain(Append(q, m), d, h, e)
  BY AboutAppend DEF Chain

(* A chain is prolonged by a message that fits its end.                    *)
LEMMA ChainAppend ==
  ASSUME NEW q \in Seq(Message), NEW m \in Message, NEW d \in Doc, NEW h, NEW e,
         Chain(q, d, h, e), m.kind \in DocKind, m.doc = d,
         m.kind # "open" => e # NoText
  PROVE  Chain(Append(q, m), d, h, After(m))
<1> DEFINE p == Append(q, m)
           n == Len(q) + 1
           O == About(q, d)
<1>1. /\ n \in Nat /\ About(p, d) = O \cup {n} /\ p[n] = m
      /\ \A i \in O : i \in Nat /\ i < n /\ p[i] = q[i]
  BY AboutAppend
<1> HIDE DEF p, n, O
<1>2. /\ O = {} => h = e
      /\ \A i \in O : (\A k \in O : i <= k) => q[i].kind = "open" \/ h # NoText
      /\ \A i \in O : (\A k \in O : k <= i) => After(q[i]) = e
      /\ \A i, j \in O : i < j /\ (\A k \in O : k <= i \/ j <= k) =>
           q[j].kind = "open" \/ q[i].kind # "close"
  BY DEF Chain, O
<1>3. ASSUME NEW i \in O \cup {n}, \A k \in O \cup {n} : i <= k
      PROVE  p[i].kind = "open" \/ h # NoText
  <2>1. CASE i \in O
    BY <1>1, <1>2, <1>3, <2>1
  <2>2. CASE i = n
    <3>1. O = {}
      BY <1>1, <1>3, <2>2
    <3> QED BY <1>1, <1>2, <2>2, <3>1
  <2> QED BY <2>1, <2>2
<1>4. ASSUME NEW i \in O \cup {n}, \A k \in O \cup {n} : k <= i
      PROVE  After(p[i]) = After(m)
  <2>1. i = n
    BY <1>1, <1>4
  <2> QED BY <1>1, <2>1
<1>5. ASSUME NEW i \in O \cup {n}, NEW j \in O \cup {n}, i < j,
             \A k \in O \cup {n} : k <= i \/ j <= k
      PROVE  p[j].kind = "open" \/ p[i].kind # "close"
  <2>1. i \in O
    BY <1>1, <1>5
  <2>2. CASE j \in O
    BY <1>1, <1>2, <1>5, <2>1, <2>2
  <2>3. CASE j = n
    <3>1. \A k \in O : k <= i
      BY <1>1, <1>5, <2>1, <2>3
    <3>2. After(q[i]) = e
      BY <1>2, <2>1, <3>1
    <3>3. q[i].kind = "close" => e = NoText
      BY <3>2 DEF After
    <3> QED BY <1>1, <2>1, <2>3, <3>3
  <2> QED BY <2>2, <2>3
<1>6. Chain(p, d, h, After(m)) <=>
        /\ O \cup {n} = {} => h = After(m)
        /\ \A i \in O \cup {n} :
             (\A k \in O \cup {n} : i <= k) => p[i].kind = "open" \/ h # NoText
        /\ \A i \in O \cup {n} : (\A k \in O \cup {n} : k <= i) => After(p[i]) = After(m)
        /\ \A i, j \in O \cup {n} : i < j /\ (\A k \in O \cup {n} : k <= i \/ j <= k) =>
             p[j].kind = "open" \/ p[i].kind # "close"
  BY <1>1 DEF Chain
<1>7. Chain(p, d, h, After(m))
  BY <1>3, <1>4, <1>5, <1>6
<1> QED BY <1>7 DEF p

(* Receiving a message about something else leaves a chain alone.          *)
LEMMA ChainSkip ==
  ASSUME NEW q \in Seq(Message), q # <<>>, NEW d \in Doc, NEW h, NEW e,
         Chain(q, d, h, e), ~(q[1].kind \in DocKind /\ q[1].doc = d)
  PROVE  Chain(Tail(q), d, h, e)
<1> DEFINE p == Tail(q)
           O == About(q, d)
           P == About(p, d)
<1>1. /\ \A i \in P : i \in Nat \ {0} /\ i + 1 \in O /\ p[i] = q[i + 1]
      /\ \A k \in O : k \in Nat \ {0} /\ k - 1 \in P
  <2>1. 1 \notin O
    BY AboutTail
  <2> QED BY <2>1, AboutTail
<1>2. /\ O = {} => h = e
      /\ \A i \in O : (\A k \in O : i <= k) => q[i].kind = "open" \/ h # NoText
      /\ \A i \in O : (\A k \in O : k <= i) => After(q[i]) = e
      /\ \A i, j \in O : i < j /\ (\A k \in O : k <= i \/ j <= k) =>
           q[j].kind = "open" \/ q[i].kind # "close"
  BY DEF Chain
<1> HIDE DEF p, O, P
<1>3. P = {} => h = e
  BY <1>1, <1>2
<1>4. ASSUME NEW i \in P, \A k \in P : i <= k
      PROVE  p[i].kind = "open" \/ h # NoText
  <2>1. \A k \in O : i + 1 <= k
    BY <1>1, <1>4
  <2> QED BY <1>1, <1>2, <2>1
<1>5. ASSUME NEW i \in P, \A k \in P : k <= i
      PROVE  After(p[i]) = e
  <2>1. \A k \in O : k <= i + 1
    BY <1>1, <1>5
  <2> QED BY <1>1, <1>2, <2>1
<1>6. ASSUME NEW i \in P, NEW j \in P, i < j, \A k \in P : k <= i \/ j <= k
      PROVE  p[j].kind = "open" \/ p[i].kind # "close"
  <2>1. ASSUME NEW k \in O PROVE k <= i + 1 \/ j + 1 <= k
    <3>1. k \in Nat \ {0} /\ (k - 1 \in P) /\ i \in Nat /\ j \in Nat
      BY <1>1
    <3>2. CASE k - 1 \in P
      <4>1. k - 1 <= i \/ j <= k - 1
        BY <1>6, <3>2
      <4> QED BY <3>1, <4>1
    <3> QED BY <3>1, <3>2
  <2>2. i + 1 < j + 1 /\ i + 1 \in O /\ j + 1 \in O /\ p[i] = q[i + 1] /\ p[j] = q[j + 1]
    BY <1>1, <1>6
  <2> QED BY <1>2, <2>1, <2>2
<1> QED BY <1>3, <1>4, <1>5, <1>6 DEF Chain, p, P

(* Receiving a message about a document: the chain now starts with the     *)
(* text the message leaves, and the message was acceptable.                *)
LEMMA ChainTake ==
  ASSUME NEW q \in Seq(Message), q # <<>>, NEW d \in Doc, NEW h, NEW e,
         Chain(q, d, h, e), q[1].kind \in DocKind, q[1].doc = d
  PROVE  Chain(Tail(q), d, After(q[1]), e) /\ (q[1].kind = "open" \/ h # NoText)
<1> DEFINE p == Tail(q)
           O == About(q, d)
           P == About(p, d)
<1>1. /\ \A i \in P : i \in Nat \ {0} /\ i + 1 \in O /\ p[i] = q[i + 1]
      /\ \A k \in O : k \in Nat \ {0} /\ (k = 1 \/ k - 1 \in P)
      /\ 1 \in O
  BY AboutTail
<1>2. /\ \A i \in O : (\A k \in O : i <= k) => q[i].kind = "open" \/ h # NoText
      /\ \A i \in O : (\A k \in O : k <= i) => After(q[i]) = e
      /\ \A i, j \in O : i < j /\ (\A k \in O : k <= i \/ j <= k) =>
           q[j].kind = "open" \/ q[i].kind # "close"
  BY DEF Chain
<1>8. q[1] \in Message
  BY TailOfInbox
<1> HIDE DEF p, O, P
<1>3. q[1].kind = "open" \/ h # NoText
  <2>1. \A k \in O : 1 <= k
    BY <1>1
  <2> QED BY <1>1, <1>2, <2>1
<1>4. P = {} => After(q[1]) = e
  <2> SUFFICES ASSUME P = {} PROVE After(q[1]) = e
    OBVIOUS
  <2>1. \A k \in O : k <= 1
    BY <1>1
  <2> QED BY <1>1, <1>2, <2>1
<1>5. ASSUME NEW i \in P, \A k \in P : i <= k
      PROVE  p[i].kind = "open" \/ After(q[1]) # NoText
  <2>1. \A k \in O : k <= 1 \/ i + 1 <= k
    BY <1>1, <1>5
  <2>2. 1 < i + 1 /\ i + 1 \in O /\ p[i] = q[i + 1]
    BY <1>1
  <2>3. p[i].kind = "open" \/ q[1].kind # "close"
    BY <1>1, <1>2, <2>1, <2>2
  <2>4. q[1].kind # "close" => After(q[1]) \in Text
    BY <1>8, MessageFields DEF After, DocKind
  <2> QED BY <2>3, <2>4, ServerAssumption
<1>6. ASSUME NEW i \in P, \A k \in P : k <= i
      PROVE  After(p[i]) = e
  <2>1. \A k \in O : k <= i + 1
    BY <1>1, <1>6
  <2> QED BY <1>1, <1>2, <2>1
<1>7. ASSUME NEW i \in P, NEW j \in P, i < j, \A k \in P : k <= i \/ j <= k
      PROVE  p[j].kind = "open" \/ p[i].kind # "close"
  <2>1. ASSUME NEW k \in O PROVE k <= i + 1 \/ j + 1 <= k
    <3>1. k \in Nat \ {0} /\ (k = 1 \/ k - 1 \in P) /\ i \in Nat /\ j \in Nat
      BY <1>1
    <3>2. CASE k - 1 \in P
      <4>1. k - 1 <= i \/ j <= k - 1
        BY <1>7, <3>2
      <4> QED BY <3>1, <4>1
    <3> QED BY <3>1, <3>2
  <2>2. i + 1 < j + 1 /\ i + 1 \in O /\ j + 1 \in O /\ p[i] = q[i + 1] /\ p[j] = q[j + 1]
    BY <1>1, <1>7
  <2> QED BY <1>2, <2>1, <2>2
<1> QED BY <1>3, <1>4, <1>5, <1>6, <1>7 DEF Chain, p, P

(* No handler of a document's message panics, and the watcher works.       *)
Quiet == ~WatchErrors /\ CanPanic \cap DocKind = {}

DocInv ==
  /\ \A d \in Doc : Chain(inbox, d, Held(d), editor[d])
  /\ pc = "select" => project = "loaded"
  /\ \A i \in DOMAIN events : events[i] # ErrorEvent

(* Every step is one of the promised ones, or does not show.               *)
Follows == [Mirror!Next]_(Mirror!vars)

(* Sending a message appends its edit, or a blank, to the queue of         *)
(* Documents.                                                              *)
LEMMA EditsAppend ==
  ASSUME NEW q \in Seq(Message), NEW m \in Message
  PROVE  Edits(Append(q, m)) =
           Append(Edits(q), IF m.kind \in DocKind THEN <<m.doc, After(m)>> ELSE <<>>)
<1> DEFINE E(x) == IF x.kind \in DocKind THEN <<x.doc, After(x)>> ELSE <<>>
<1>1. Edits(q) = [i \in DOMAIN q |-> E(q[i])]
  BY DEF Edits
<1>2. Edits(Append(q, m)) = [i \in DOMAIN Append(q, m) |-> E(Append(q, m)[i])]
  BY DEF Edits
<1> HIDE DEF E
<1>3. /\ Len(q) \in Nat /\ DOMAIN q = 1..Len(q)
      /\ DOMAIN Append(q, m) = 1..(Len(q) + 1)
      /\ Append(q, m)[Len(q) + 1] = m
      /\ \A i \in 1..Len(q) : Append(q, m)[i] = q[i]
  OBVIOUS
<1>4. Edits(Append(q, m)) = Append(Edits(q), E(m))
  <2> DEFINE a == [i \in 1..Len(q) |-> E(q[i])]
             b == [i \in 1..(Len(q) + 1) |-> E(Append(q, m)[i])]
             S == {E(x) : x \in Message}
  <2>1. a \in Seq(S) /\ Len(a) = Len(q)
    BY <1>3
  <2>2. b = Append(a, E(m))
    BY <1>3, <2>1
  <2> QED BY <1>1, <1>2, <1>3, <2>2
<1> QED BY <1>4 DEF E

(* Receiving a message takes the head of that queue.                       *)
LEMMA EditsTail ==
  ASSUME NEW q \in Seq(Message), q # <<>>
  PROVE  /\ Edits(q) # <<>>
         /\ Edits(Tail(q)) = Tail(Edits(q))
         /\ Head(Edits(q)) =
              IF q[1].kind \in DocKind THEN <<q[1].doc, After(q[1])>> ELSE <<>>
<1> DEFINE E(x) == IF x.kind \in DocKind THEN <<x.doc, After(x)>> ELSE <<>>
<1>1. Edits(q) = [i \in DOMAIN q |-> E(q[i])]
  BY DEF Edits
<1>2. Edits(Tail(q)) = [i \in DOMAIN Tail(q) |-> E(Tail(q)[i])]
  BY DEF Edits
<1> HIDE DEF E
<1>3. /\ Len(q) \in Nat \ {0} /\ DOMAIN q = 1..Len(q)
      /\ DOMAIN Tail(q) = 1..(Len(q) - 1)
      /\ \A i \in 1..(Len(q) - 1) : Tail(q)[i] = q[i + 1]
  BY TailOfInbox
<1>4. Edits(q) # <<>> /\ Edits(Tail(q)) = Tail(Edits(q)) /\ Head(Edits(q)) = E(q[1])
  <2> DEFINE a == [i \in 1..Len(q) |-> E(q[i])]
             b == [i \in 1..(Len(q) - 1) |-> E(Tail(q)[i])]
             S == {E(x) : x \in Message}
  <2>1. a \in Seq(S) /\ Len(a) = Len(q)
    BY <1>3
  <2>2. a # <<>> /\ Head(a) = E(q[1])
    BY <1>3, <2>1
  <2>3. b = Tail(a)
    BY <1>3, <2>1
  <2> QED BY <1>1, <1>2, <1>3, <2>2, <2>3
<1> QED BY <1>4 DEF E

(* Whatever the client sends keeps the chains, and is a step of            *)
(* Documents.                                                              *)
LEMMA ClientDocs ==
  ASSUME TypeOK, DocInv, ClientNext
  PROVE  DocInv' /\ Follows
<1>1. UNCHANGED <<docs, recovery, project, pc, events>>
  BY DEF ClientNext, ClientOpen, ClientChange, ClientClose, ClientRequest, ClientNotify, serverVars
<1>2. \A d \in Doc : Held(d)' = Held(d)
  BY <1>1 DEF Held
<1>3. ASSUME NEW m \in Message, Send(m), m.kind \notin DocKind, UNCHANGED editor
      PROVE  DocInv' /\ Follows
  <2>1. inbox' = Append(inbox, m) /\ inbox \in Seq(Message)
    BY <1>3 DEF Send, TypeOK
  <2>2. \A d \in Doc : Chain(inbox', d, Held(d), editor[d])
    BY <1>3, <2>1, ChainOther DEF DocInv
  <2>3. Mirror!Other
    BY <1>2, <1>3, <2>1, EditsAppend DEF Mirror!Other
  <2> QED BY <1>1, <1>2, <1>3, <2>2, <2>3 DEF DocInv, Follows, Mirror!Next
<1>4. ASSUME NEW c \in Doc, NEW m \in Message, Send(m), m.kind \in DocKind, m.doc = c,
             m.kind # "open" => editor[c] # NoText,
             editor' = [editor EXCEPT ![c] = After(m)], After(m) # editor[c]
      PROVE  DocInv' /\ Follows
  <2>1. inbox' = Append(inbox, m) /\ inbox \in Seq(Message)
        /\ editor \in [Doc -> Text \cup {NoText}]
    BY <1>4 DEF Send, TypeOK
  <2>2. ASSUME NEW d \in Doc PROVE Chain(inbox', d, Held(d), editor'[d])
    <3>1. Chain(inbox, d, Held(d), editor[d])
      BY DEF DocInv
    <3>2. CASE d = c
      <4>1. editor'[d] = After(m)
        BY <1>4, <2>1, <3>2
      <4>2. Chain(Append(inbox, m), d, Held(d), After(m))
        BY <1>4, <2>1, <3>1, <3>2, ChainAppend
      <4> QED BY <2>1, <4>1, <4>2
    <3>3. CASE d # c
      <4>1. editor'[d] = editor[d]
        BY <1>4, <2>1, <3>3
      <4>2. Chain(Append(inbox, m), d, Held(d), editor[d])
        BY <1>4, <2>1, <3>1, <3>3, ChainOther
      <4> QED BY <2>1, <4>1, <4>2
    <3> QED BY <3>2, <3>3
  <2>3. After(m) \in Text \cup {NoText}
    BY <1>4, MessageFields DEF After, DocKind
  <2>4. Mirror!Edit(c, After(m))
    BY <1>2, <1>4, <2>1, EditsAppend DEF Mirror!Edit
  <2> QED BY <1>1, <1>2, <2>2, <2>3, <2>4 DEF DocInv, Follows, Mirror!Next
<1>5. ASSUME NEW d \in Doc, NEW t \in Text, ClientOpen(d, t) PROVE DocInv' /\ Follows
  <2> DEFINE m == [kind |-> "open", doc |-> d, text |-> t]
  <2>1. m \in Message /\ m.kind \in DocKind /\ m.doc = d /\ After(m) = t /\ m.kind = "open"
    BY MessageForms DEF DocKind, After
  <2>2. Send(m) /\ editor' = [editor EXCEPT ![d] = t] /\ t # editor[d]
    BY <1>5, ServerAssumption DEF ClientOpen
  <2> HIDE DEF m
  <2> QED BY <1>4, <2>1, <2>2
<1>6. ASSUME NEW d \in Doc, NEW t \in Text, ClientChange(d, t) PROVE DocInv' /\ Follows
  <2> DEFINE m == [kind |-> "change", doc |-> d, text |-> t]
  <2>1. m \in Message /\ m.kind \in DocKind /\ m.doc = d /\ After(m) = t
    BY MessageForms DEF DocKind, After
  <2>2. Send(m) /\ editor' = [editor EXCEPT ![d] = t] /\ editor[d] \notin {NoText, t}
    BY <1>6 DEF ClientChange
  <2> HIDE DEF m
  <2> QED BY <1>4, <2>1, <2>2
<1>7. ASSUME NEW d \in Doc, ClientClose(d) PROVE DocInv' /\ Follows
  <2> DEFINE m == [kind |-> "close", doc |-> d]
  <2>1. m \in Message /\ m.kind \in DocKind /\ m.doc = d /\ After(m) = NoText
    BY MessageForms DEF DocKind, After
  <2>2. Send(m) /\ editor' = [editor EXCEPT ![d] = NoText] /\ editor[d] # NoText
    BY <1>7 DEF ClientClose
  <2> HIDE DEF m
  <2> QED BY <1>4, <2>1, <2>2
<1>8. ASSUME NEW k \in Requests, ClientRequest(k) PROVE DocInv' /\ Follows
  <2> DEFINE m == [kind |-> k, id |-> sent + 1]
  <2>1. m \in Message /\ m.kind \notin DocKind
    <3>1. sent + 1 \in Id
      BY <1>8, ServerAssumption DEF TypeOK, ClientRequest, Send, Id
    <3> QED BY <3>1, MessageForms, ServerAssumption DEF DocKind, RequestKind
  <2>2. Send(m) /\ UNCHANGED editor
    BY <1>8 DEF ClientRequest
  <2> HIDE DEF m
  <2> QED BY <1>3, <2>1, <2>2
<1>9. ASSUME NEW k \in Notices, ClientNotify(k) PROVE DocInv' /\ Follows
  <2> DEFINE m == [kind |-> k]
  <2>1. m \in Message /\ m.kind \notin DocKind
    BY MessageForms, ServerAssumption DEF DocKind
  <2>2. Send(m) /\ UNCHANGED editor
    BY <1>9 DEF ClientNotify
  <2> HIDE DEF m
  <2> QED BY <1>3, <2>1, <2>2
<1> QED BY <1>5, <1>6, <1>7, <1>8, <1>9 DEF ClientNext

(* A step that leaves messages and editor alone and holds on to the texts. *)
LEMMA KeepsDocs ==
  ASSUME DocInv, UNCHANGED <<inbox, editor>>, \A d \in Doc : Held(d)' = Held(d),
         pc' = "select" => project' = "loaded",
         \A i \in DOMAIN events' : events'[i] # ErrorEvent
  PROVE  DocInv' /\ Follows
<1>1. DocInv'
  BY DEF DocInv
<1>2. UNCHANGED Mirror!vars
  BY DEF Mirror!vars
<1> QED BY <1>1, <1>2 DEF Follows

(* Receiving a message about no document.                                  *)
LEMMA SkipsMessage ==
  ASSUME TypeOK, DocInv, inbox # <<>>, inbox' = Tail(inbox), UNCHANGED editor,
         Head(inbox).kind \notin DocKind,
         \A d \in Doc : Held(d)' = Held(d),
         pc' # "select",
         \A i \in DOMAIN events' : events'[i] # ErrorEvent
  PROVE  DocInv' /\ Follows
<1>1. inbox \in Seq(Message) /\ Head(inbox) = inbox[1]
  BY TailOfInbox DEF TypeOK
<1>2. \A d \in Doc : Chain(inbox', d, Held(d), editor[d])
  BY <1>1, ChainSkip DEF DocInv
<1>3. Mirror!Receive
  BY <1>1, EditsTail DEF Mirror!Receive
<1> QED BY <1>2, <1>3 DEF DocInv, Follows, Mirror!Next

(* A recovery keeps the texts, whatever state the project is in.           *)
LEMMA RecoverHolds ==
  ASSUME NEW A, RecoverFromPanic(docs, A)
  PROVE  /\ \A d \in Doc : Held(d)' = Held(d)
         /\ \A i \in DOMAIN events' : events'[i] # ErrorEvent
<1>1. project' # "loaded" /\ events' = <<>>
  BY DEF RecoverFromPanic
<1>2. recovery' = IF project = "loaded" THEN docs ELSE recovery
  BY DEF RecoverFromPanic
<1> QED BY <1>1, <1>2 DEF Held

(* A message that is handled without a panic is a step of Documents.       *)
LEMMA MessageDocs ==
  ASSUME TypeOK, DocInv, OnMessage
  PROVE  DocInv' /\ Follows
<1> DEFINE m == Head(inbox)
<1>1. /\ inbox # <<>> /\ inbox' = Tail(inbox) /\ UNCHANGED editor /\ pc = "select"
      /\ pc' = "after" /\ m.kind \notin {"panic", "exit"}
  BY DEF OnMessage
<1>2. inbox \in Seq(Message) /\ m \in Message /\ m = inbox[1]
      /\ docs \in [Doc -> Text \cup {NoText}]
  BY <1>1, TailOfInbox DEF TypeOK
<1>3. project = "loaded"
  BY <1>1 DEF DocInv
<1>4. CASE IsRequest(m)
  <2>1. UNCHANGED <<events, project, docs, recovery>>
    BY <1>4 DEF OnMessage, OnRequest
  <2>2. m.kind \notin DocKind
    BY <1>4 DEF IsRequest, RequestKind, DocKind
  <2>3. \A d \in Doc : Held(d)' = Held(d)
    BY <2>1 DEF Held
  <2> QED BY <1>1, <2>1, <2>2, <2>3, SkipsMessage DEF DocInv
<1>5. CASE ~IsRequest(m)
  <2>1. OnNotification(m)
    BY <1>5 DEF OnMessage
  <2> HIDE DEF m
  <2>2. m.kind \in DocKind /\ m.doc \in Doc
    BY <1>1, <1>2, <1>5, MessageFields DEF DocKind
  <2>3. UNCHANGED <<events, project, recovery>>
    BY <2>1 DEF OnNotification
  <2>4. \A d \in Doc : Held(d) = docs[d] /\ Held(d)' = docs'[d]
    BY <1>3, <2>3 DEF Held
  <2>5. m.kind = "open" \/ docs[m.doc] # NoText
    BY <1>1, <1>2, <2>2, <2>4, ChainTake DEF DocInv
  <2>6. docs' = [docs EXCEPT ![m.doc] = After(m)]
    BY <2>1, <2>2, <2>5 DEF OnNotification, Store, Forget, After, DocKind
  <2>7. ASSUME NEW d \in Doc PROVE Chain(inbox', d, docs'[d], editor[d])
    <3>1. Chain(inbox, d, docs[d], editor[d])
      BY <2>4 DEF DocInv
    <3>2. CASE d = m.doc
      <4>1. docs'[d] = After(m)
        BY <1>2, <2>6, <3>2
      <4>2. Chain(Tail(inbox), d, After(inbox[1]), editor[d])
        BY <1>1, <1>2, <2>2, <3>1, <3>2, ChainTake
      <4> QED BY <1>1, <1>2, <4>1, <4>2
    <3>3. CASE d # m.doc
      <4>1. docs'[d] = docs[d]
        BY <1>2, <2>6, <3>3
      <4>2. Chain(Tail(inbox), d, docs[d], editor[d])
        BY <1>1, <1>2, <3>1, <3>3, ChainSkip
      <4> QED BY <1>1, <4>1, <4>2
    <3> QED BY <3>2, <3>3
  <2>8. (\A d \in Doc : Chain(inbox, d, Held(d), editor[d]))'
    BY <1>1, <2>4, <2>7
  <2>9. Mirror!Receive
    <3> DEFINE e == <<m.doc, After(m)>>
    <3>1. Edits(inbox) # <<>> /\ Edits(inbox') = Tail(Edits(inbox)) /\ Head(Edits(inbox)) = e
      BY <1>1, <1>2, <2>2, EditsTail
    <3>2. [d \in Doc |-> Held(d)] = docs /\ [d \in Doc |-> Held(d)]' = docs'
      BY <1>2, <2>4, <2>6
    <3>3. e # <<>> /\ e[1] = m.doc /\ e[2] = After(m)
      OBVIOUS
    <3> HIDE DEF e
    <3> QED BY <1>1, <2>6, <3>1, <3>2, <3>3 DEF Mirror!Receive
  <2> QED BY <1>1, <2>3, <2>8, <2>9 DEF DocInv, Follows, Mirror!Next
<1> QED BY <1>4, <1>5

(* A handler that panics, and the recovery from it, keep the documents.    *)
LEMMA PanicDocs ==
  ASSUME TypeOK, DocInv, Quiet, OnMessagePanics
  PROVE  DocInv' /\ Follows
<1> DEFINE m == Head(inbox)
<1>1. /\ inbox # <<>> /\ inbox' = Tail(inbox) /\ UNCHANGED editor
      /\ pc' = "after" /\ m.kind \in CanPanic \cup {"panic"}
  BY DEF OnMessagePanics
<1>2. m.kind \notin DocKind
  BY <1>1 DEF Quiet, DocKind
<1>3. Survivors(m) = {docs}
  BY <1>2 DEF Survivors, DocKind
<1>4. \E A \in Announced(m, docs) : RecoverFromPanic(docs, A)
  BY <1>3 DEF OnMessagePanics
<1>5. /\ \A d \in Doc : Held(d)' = Held(d)
      /\ \A i \in DOMAIN events' : events'[i] # ErrorEvent
  BY <1>4, RecoverHolds
<1> QED BY <1>1, <1>2, <1>5, SkipsMessage

(* So does handling an event of the watcher, which may drop the project    *)
(* into a recovery.                                                        *)
LEMMA EventDocs ==
  ASSUME TypeOK, DocInv, OnNotifyEvent
  PROVE  DocInv' /\ Follows
<1>1. events # <<>> /\ pc' = "events" /\ UNCHANGED <<inbox, editor>>
  BY DEF OnNotifyEvent, clientVars
<1>2. events \in Seq(ConfigName \cup {FileEvent, ErrorEvent})
  BY DEF TypeOK
<1>3. Head(events) # ErrorEvent /\ \A i \in DOMAIN Tail(events) : Tail(events)[i] # ErrorEvent
  <2>1. /\ Len(events) \in Nat \ {0} /\ DOMAIN events = 1..Len(events)
        /\ Head(events) = events[1]
        /\ DOMAIN Tail(events) = 1..(Len(events) - 1)
        /\ \A i \in 1..(Len(events) - 1) : Tail(events)[i] = events[i + 1]
    BY <1>1, <1>2, TailOfInbox
  <2> QED BY <2>1 DEF DocInv
<1>4. CASE OnConfigEvent
  BY <1>1, <1>4, RecoverHolds, KeepsDocs DEF OnConfigEvent
<1>5. CASE OnFileEvent
  <2>1. \A d \in Doc : Held(d)' = Held(d)
    BY <1>5 DEF OnFileEvent, Held
  <2> QED BY <1>1, <1>3, <1>5, <2>1, KeepsDocs DEF OnFileEvent
<1> QED BY <1>3, <1>4, <1>5 DEF OnNotifyEvent

(* The disk does not touch the documents, as long as the watcher reports   *)
(* no error.                                                               *)
LEMMA DiskDocs ==
  ASSUME TypeOK, DocInv, Quiet, DiskNext
  PROVE  DocInv' /\ Follows
<1>1. PICK e \in ConfigName \cup {FileEvent} : DiskStep(e)
  BY DEF DiskNext, WriteConfig, WriteFile, WatcherFails, Quiet
<1>2. e # ErrorEvent
  BY DEF ConfigName, FileEvent, ErrorEvent
<1>3. \A i \in DOMAIN events' : events'[i] # ErrorEvent
  <2>1. events \in Seq(ConfigName \cup {FileEvent, ErrorEvent})
    BY DEF TypeOK
  <2>2. CASE events' = events
    BY <2>2 DEF DocInv
  <2>3. CASE events' = Append(events, e)
    BY <1>2, <2>1, <2>3 DEF DocInv
  <2> QED BY <1>1, <2>2, <2>3 DEF DiskStep
<1>4. UNCHANGED <<inbox, editor, docs, recovery, project, pc>>
  BY <1>1 DEF DiskStep, clientVars, serverVars
<1>5. \A d \in Doc : Held(d)' = Held(d)
  BY <1>4 DEF Held
<1> QED BY <1>3, <1>4, <1>5, KeepsDocs DEF DocInv

(* Loading a project takes the documents over from the recovery.           *)
LEMMA LoadDocs ==
  ASSUME TypeOK, DocInv, LoadProject \/ WatchConfig \/ ReadConfig
  PROVE  DocInv' /\ Follows
<1>1. /\ UNCHANGED <<inbox, editor, pc>> /\ project # "loaded"
      /\ events' = <<>> \/ events' = events
  BY DEF LoadProject, WatchConfig, ReadConfig, clientVars
<1>2. \A d \in Doc : Held(d)' = Held(d)
  BY DEF LoadProject, WatchConfig, ReadConfig, Loaded, Held
<1> QED BY <1>1, <1>2, KeepsDocs DEF DocInv

(* So do waiting, reindexing, publishing and a crash.                      *)
LEMMA RestDocs ==
  ASSUME TypeOK, DocInv,
         \/ BlockOnSelect \/ EventsHandled \/ Reindex \/ TakeChanged \/ Crash
         \/ \E d \in Doc : Publish(d)
  PROVE  DocInv' /\ Follows
<1>1. CASE Reindex
  <2>1. UNCHANGED <<inbox, editor>> /\ pc' = "take"
    BY <1>1 DEF Reindex, clientVars
  <2>2. CASE RecoverFromPanic(docs, Opened(docs))
    BY <2>1, <2>2, RecoverHolds, KeepsDocs
  <2>3. CASE UNCHANGED <<project, docs, recovery, events>>
    BY <2>1, <2>3, KeepsDocs DEF DocInv, Held
  <2> QED BY <1>1, <2>2, <2>3 DEF Reindex
<1>2. CASE BlockOnSelect \/ EventsHandled \/ TakeChanged \/ Crash \/ \E d \in Doc : Publish(d)
  <2>1. UNCHANGED <<inbox, editor, project, docs, recovery, events>>
    BY <1>2 DEF BlockOnSelect, EventsHandled, TakeChanged, Crash, Publish, clientVars
  <2>2. pc' = "select" => project' = "loaded"
    BY <1>2 DEF BlockOnSelect, EventsHandled, TakeChanged, Crash, Publish
  <2> QED BY <2>1, <2>2, KeepsDocs DEF DocInv, Held
<1> QED BY <1>1, <1>2

(* Exiting leaves the documents alone.                                     *)
LEMMA ExitDocs ==
  ASSUME TypeOK, DocInv, OnExit
  PROVE  DocInv' /\ Follows
<1>1. \A d \in Doc : Held(d)' = Held(d)
  BY DEF OnExit, Held
<1> QED BY <1>1, SkipsMessage DEF OnExit, DocKind, DocInv

(* Every step keeps DocInv and is a step of Documents or a stutter, as     *)
(* long as nothing is lost (Quiet).                                        *)
LEMMA DocStep == TypeOK /\ DocInv /\ Quiet /\ [Next]_vars => DocInv' /\ Follows
<1> SUFFICES ASSUME TypeOK, DocInv, Quiet, [Next]_vars PROVE DocInv' /\ Follows
  OBVIOUS
<1>1. CASE UNCHANGED vars
  BY <1>1, KeepsDocs DEF vars, DocInv, Held
<1>2. CASE ServerNext
  BY <1>2, LoadDocs, MessageDocs, PanicDocs, EventDocs, RestDocs, ExitDocs DEF ServerNext
<1> QED BY <1>1, <1>2, ClientDocs, DiskDocs DEF Next

(* No document is open in the beginning.                                   *)
LEMMA DocInit == Init => DocInv
  BY DEF Init, DocInv, Chain, About, Held, NoDocs

(* Without panics inside the handlers of document messages, and with a     *)
(* watcher that works, the server never loses an open document or an edit: *)
(* not in panics of other handlers, not when it reindexes and not when the *)
(* configuration changes while the project is loaded because it changed.   *)
THEOREM OpenDocumentsKept ==
  ASSUME Quiet
  PROVE  Spec => []DocumentsKept
<1>1. Init => TypeOK /\ DocInv
  BY InitTypes, DocInit
<1>2. TypeOK /\ DocInv /\ [Next]_vars => (TypeOK /\ DocInv)'
  BY StepTypes, DocStep
<1>3. TypeOK /\ DocInv => DocumentsKept
  <2> SUFFICES ASSUME TypeOK, DocInv, pc = "select", inbox = <<>> PROVE docs = editor
    BY DEF DocumentsKept
  <2>1. \A d \in Doc : docs[d] = editor[d]
    BY DEF DocInv, Chain, About, Held
  <2>2. docs \in [Doc -> Text \cup {NoText}] /\ editor \in [Doc -> Text \cup {NoText}]
    BY DEF TypeOK
  <2> QED BY <2>1, <2>2
<1> QED BY <1>1, <1>2, <1>3, PTL DEF Spec

(* Under the same conditions the server does what Documents promises: what *)
(* it holds of a document changes with each edit of the client, once and   *)
(* in order, and with nothing else.                                        *)
THEOREM ServerFollowsEditor ==
  ASSUME Quiet
  PROVE  Spec => FollowsEditor
<1>1. Init => TypeOK /\ DocInv
  BY InitTypes, DocInit
<1>2. TypeOK /\ DocInv /\ [Next]_vars => (TypeOK /\ DocInv)' /\ [Mirror!Next]_(Mirror!vars)
  BY StepTypes, DocStep DEF Follows
<1>3. Init => Mirror!Init
  BY DEF Init, Mirror!Init, Held, NoDocs, Edits
<1> QED BY <1>1, <1>2, <1>3, PTL DEF Spec, FollowsEditor, Mirror!Spec
=============================================================================
