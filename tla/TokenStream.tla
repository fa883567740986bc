---------------------------- MODULE TokenStream ----------------------------
(* What the parser expects of its tokenizer: a stream it reads one token at  *)
(* a time and can rewind to a token it has marked, or to one it has read     *)
(* since the oldest mark.                                                    *)
EXTENDS Naturals, Sequences

CONSTANT Tokens

VARIABLES read,   \* the tokens the text has been cut into so far
          pos,    \* how many of them the parser has consumed
          out,    \* the token in hand, <<>> after the end and after a rewind
          marks   \* the positions it may still rewind to

vars == <<read, pos, out, marks>>

Init == read = <<>> /\ pos = 0 /\ out = <<>> /\ marks = {}

(* The next token: one that was read before a rewind, or a new one. *)
Again == /\ pos < Len(read)
         /\ pos' = pos + 1
         /\ out' = <<read[pos + 1]>>
         /\ UNCHANGED <<read, marks>>
Fresh == /\ pos = Len(read)
         /\ \E t \in Tokens : read' = Append(read, t) /\ out' = <<t>>
         /\ pos' = pos + 1
         /\ UNCHANGED marks
End == pos = Len(read) /\ out' = <<>> /\ UNCHANGED <<read, pos, marks>>

(* A mark lies just before the token in hand; marks are dropped together. *)
Mark == out # <<>> /\ marks' = marks \cup {pos - 1} /\ UNCHANGED <<read, pos, out>>
Drop == marks' = {} /\ UNCHANGED <<read, pos, out>>

(* Going back to a mark, or behind a token read after the oldest one. *)
Rewind == /\ \E p \in 0..Len(read) : (\E m \in marks : m <= p) /\ pos' = p
          /\ out' = <<>>
          /\ UNCHANGED <<read, marks>>

Next == Again \/ Fresh \/ End \/ Mark \/ Drop \/ Rewind

Spec == Init /\ [][Next]_vars
=============================================================================
