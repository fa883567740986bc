--------------------------- MODULE MCBacktracking ---------------------------
(* The buffered tokenizer over an input of at most MaxTokens tokens; an end  *)
(* of input that is asked for again only moves the index on, MaxEnd times.   *)
EXTENDS Backtracking

CONSTANTS MaxTokens, MaxEnd

Bounded == Len(read) <= MaxTokens /\ buf.next <= Len(buf.tokens) + MaxEnd
=============================================================================
