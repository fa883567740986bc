---------------------------- MODULE Backtracking ----------------------------
(* The BacktrackingTokenizer of crates/parsa (backtracking.rs): tokens come  *)
(* straight from the tokenizer until the parser starts recording; then they  *)
(* are kept, and a reset replays them.  `buf` is the struct, `read` what the *)
(* underlying iterator has produced, `out` the token last delivered and      *)
(* `marks` the indexes `start` has returned since the last `stop`.           *)
EXTENDS Naturals, Sequences

CONSTANT Tokens

VARIABLES buf, read, out, marks, ended

vars == <<buf, read, out, marks, ended>>

Empty == [tokens |-> <<>>, next |-> 0, recording |-> FALSE]

(* Mutant of NextFresh: a buffer that is no longer recorded is kept. *)
NextFreshKept(b, ts) ==
  IF b.tokens = <<>> \/ ~b.recording THEN b
  ELSE [b EXCEPT !.next = @ + 1, !.tokens = @ \o ts]

(* `next`, when the buffer has nothing left and the tokenizer gives ts, one  *)
(* token or none; and when the buffer still has a token.                     *)
Exhausted(b) == b.next >= Len(b.tokens)
NextFresh(b, ts) ==
  IF b.tokens = <<>> THEN b
  ELSE IF b.recording THEN [b EXCEPT !.next = @ + 1, !.tokens = @ \o ts]
  ELSE [b EXCEPT !.next = 0, !.tokens = <<>>]
NextKept(b) == [b EXCEPT !.next = @ + 1]

(* `start` begins to record at the token in hand and names its index. *)
Started(b, t) ==
  IF b.tokens = <<>> THEN [tokens |-> <<t>>, next |-> 1, recording |-> TRUE]
  ELSE [b EXCEPT !.recording = TRUE]
StartIndex(b) == IF b.tokens = <<>> THEN 0 ELSE b.next - 1

Stopped(b) == [b EXCEPT !.recording = FALSE]
ResetTo(b, index) == [b EXCEPT !.next = index]
-----------------------------------------------------------------------------
(* The parser's use of it. *)
Init == buf = Empty /\ read = <<>> /\ out = <<>> /\ marks = {} /\ ended = FALSE

ReadKept == /\ ~Exhausted(buf)
            /\ buf' = NextKept(buf)
            /\ out' = <<buf.tokens[buf.next + 1]>>
            /\ UNCHANGED <<read, marks, ended>>

ReadFresh == /\ Exhausted(buf) /\ ~ended
             /\ \E t \in Tokens : /\ buf' = NextFresh(buf, <<t>>)
                                  /\ read' = Append(read, t)
                                  /\ out' = <<t>>
             /\ UNCHANGED <<marks, ended>>

(* The end of the input; the iterator is asked again after every rewind. *)
ReadEnd == /\ Exhausted(buf)
           /\ buf' = NextFresh(buf, <<>>)
           /\ out' = <<>>
           /\ ended' = TRUE
           /\ UNCHANGED <<read, marks>>

Start == /\ out # <<>>
         /\ buf' = Started(buf, out[1])
         /\ marks' = marks \cup {StartIndex(buf)}
         /\ UNCHANGED <<read, out, ended>>

Stop == /\ buf' = Stopped(buf)
        /\ marks' = {}
        /\ UNCHANGED <<read, out, ended>>

Reset == /\ \E i \in marks : buf' = ResetTo(buf, i)
         /\ out' = <<>>
         /\ UNCHANGED <<read, marks, ended>>

(* reset_to_last_leaf: behind the last leaf of a subtree that is reused. *)
ResetToLastLeaf ==
  /\ \E i \in 1..Len(buf.tokens) : (\E m \in marks : m < i) /\ buf' = ResetTo(buf, i)
  /\ out' = <<>>
  /\ UNCHANGED <<read, marks, ended>>

Next == ReadKept \/ ReadFresh \/ ReadEnd \/ Start \/ Stop \/ Reset \/ ResetToLastLeaf

Spec == Init /\ [][Next]_vars
-----------------------------------------------------------------------------
(* The abstraction: the buffer is the tail of what was read. *)
Base == Len(read) - Len(buf.tokens)
Pos == IF buf.next > Len(buf.tokens) \/ buf.tokens = <<>> THEN Len(read) ELSE Base + buf.next
Stream == INSTANCE TokenStream WITH pos <- Pos, marks <- {Base + m : m \in marks}

(* The tokenizer with its buffer delivers what a stream that can be rewound  *)
(* delivers: no token lost, repeated or out of order.   *)
Rewindable == Stream!Spec
=============================================================================
