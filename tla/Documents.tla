----------------------------- MODULE Documents -----------------------------
(***************************************************************************)
(* What the language server promises to an editor: the text it holds of    *)
(* every document is changed by the edits of the client and by nothing     *)
(* else, in the order in which they were sent.  Module Server implements   *)
(* this with projects that come and go: loading, panics, reindexing and    *)
(* changes of the configuration do not show.                               *)
(***************************************************************************)
EXTENDS Sequences

CONSTANTS Doc, Text, NoText

VARIABLES
  editor,  \* the text of each document in the editor, NoText if not open
  queue,   \* messages on their way: an edit <<d, t>>, or <<>> without one
  held     \* the text the server holds of each document

vars == <<editor, queue, held>>

(* The client opens, changes or closes a document.                         *)
Edit(d, t) ==
  /\ t # editor[d]
  /\ editor' = [editor EXCEPT ![d] = t]
  /\ queue' = Append(queue, <<d, t>>)
  /\ UNCHANGED held

(* The client sends something else.                                        *)
Other ==
  /\ queue' = Append(queue, <<>>)
  /\ UNCHANGED <<editor, held>>

Receive ==
  /\ queue # <<>>
  /\ queue' = Tail(queue)
  /\ held' = IF Head(queue) = <<>> THEN held
             ELSE [held EXCEPT ![Head(queue)[1]] = Head(queue)[2]]
  /\ UNCHANGED editor

Init ==
  /\ editor = [d \in Doc |-> NoText]
  /\ queue = <<>>
  /\ held = [d \in Doc |-> NoText]

Next ==
  \/ \E d \in Doc, t \in Text \cup {NoText} : Edit(d, t)
  \/ Other
  \/ Receive

Spec == Init /\ [][Next]_vars
=============================================================================
