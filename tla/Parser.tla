------------------------------- MODULE Parser -------------------------------
(* The backtracking parser of crates/parsa (grammar.rs): it reads tokens,    *)
(* walks the plans of Automaton with a stack of open nodes and writes the    *)
(* concrete syntax tree as one array in preorder, in which a node points to  *)
(* its next sibling.  Alternatives that fail are taken back: the tree and    *)
(* the stack are cut and the tokens read again (Backtracking).  Broken code  *)
(* is kept in nodes marked as errors.                                        *)
(* A step is one round of a loop of `parse` or `apply_transition`; the text  *)
(* is chosen token by token as it is read.                                   *)
EXTENDS Language, Integers

CONSTANTS MaxTokens,   \* bound: tokens before the end marker
          Alphabet     \* the tokens a text of a grammar may consist of

VARIABLES grammar, \* the grammar
          read,   \* the tokens taken from the tokenizer so far
          buf,    \* the BacktrackingTokenizer
          cur,    \* the token being applied, <<>> if there is none
          stack,  \* the open nodes, the innermost one last
          tree,   \* tree_nodes: node i is tree[i + 1]
          phase   \* "fetch", "apply", "drain", "done" or "panic"

vars == <<grammar, read, buf, cur, stack, tree, phase>>

(* The end marker closes every text and has no length. *)
Ended == read # <<>> /\ read[Len(read)].type = "end"
Position == IF read = <<>> THEN 0 ELSE LET t == read[Len(read)] IN t.start + t.len
Token(t) == [type |-> t, start |-> Position, len |-> IF t = "end" THEN 0 ELSE 1]

Tokenizer == INSTANCE Backtracking
               WITH Tokens <- [type : STRING, start : Nat, len : {0, 1}],
                    out <- cur, marks <- {}, ended <- Ended

Rule(A) == Grammars[grammar].rules[A]
Dfa(node) == Table[grammar][node.node][node.dfa]

-----------------------------------------------------------------------------
(* The tree. *)
TreeNode(type, err, start, len) ==
  [type |-> type, err |-> err, start |-> start, len |-> len, next |-> 0]
InsertNode(tr, i, type) == InsertAt(tr, i + 1, TreeNode(type, FALSE, tr[i + 1].start, 0))
Top(s) == s.stack[Len(s.stack)]
TopIs(s, node) == [s EXCEPT !.stack[Len(s.stack)] = node]

(* Mutant of Measured: a node ends where its last child begins. *)
MeasuredShort(tr, i) == [tr EXCEPT ![i + 1].len = Last(tr).start - tr[i + 1].start]

(* update_tree_node_position: a node ends where the last node ends. *)
Measured(tr, i) ==
  [tr EXCEPT ![i + 1].len = Last(tr).start + Last(tr).len - tr[i + 1].start]

(* Mutant of LinkNext: the last child is forgotten, every node points on. *)
LinkAgain(s) ==
  LET i == Top(s).latest
      n == Len(s.tree)
  IN  [s EXCEPT !.tree = IF i # 0 /\ i < n THEN [@ EXCEPT ![i + 1].next = n - i] ELSE @]

(* calculate_previous_next_node: the latest child points to the next node. *)
LinkNext(s) ==
  LET i == Top(s).latest
      n == Len(s.tree)
  IN  [TopIs(s, [Top(s) EXCEPT !.latest = n]) EXCEPT
         !.tree = IF i # 0 /\ i < n THEN [@ EXCEPT ![i + 1].next = n - i] ELSE @]

LL == [kind |-> "LL"]
StackNode(A, i, dfa, count, mode, recording) ==
  [node |-> A, treeIndex |-> i, latest |-> 0, dfa |-> dfa, count |-> count,
   mode |-> mode, recording |-> recording]

(* A node around the children that the innermost node has so far. *)
Wrap(s) ==
  LET top == Top(s)
  IN  [TopIs(s, [top EXCEPT !.count = 1, !.latest = top.treeIndex + 1]) EXCEPT
         !.tree = InsertNode(@, top.treeIndex, top.node)]

-----------------------------------------------------------------------------
(* apply_plan: the nodes a token opens, and the token itself. *)
PushNode(s, push, tok) ==
  LET counted == TopIs(s, [Top(s) EXCEPT !.count = @ + 1])
      n == Len(s.tree)
      alt == push.alt[1]
      node == IF push.alt = <<>>
              THEN StackNode(push.node, n, push.next, 0, LL, Top(s).recording)
              ELSE StackNode(push.node, Top(s).treeIndex, push.next, Top(s).count,
                     [kind |-> "Alternative", trees |-> n,
                      token |-> Tokenizer!StartIndex(s.buf), count |-> Top(s).count,
                      replay |-> alt.replay, fallback |-> alt.fallback, reuse |-> alt.reuse],
                     TRUE)
      added == IF push.alt # <<>> \/ Rule(push.node).omit THEN s.tree
               ELSE Append(s.tree, TreeNode(push.node, FALSE, tok.start, 0))
  IN  [counted EXCEPT !.stack = Append(@, [node EXCEPT !.latest = Len(added)]),
                      !.tree = added,
                      !.buf = IF push.alt = <<>> THEN @ ELSE Tokenizer!Started(@, tok)]

AddLeaf(s, type, tok) ==
  [TopIs(s, [Top(s) EXCEPT !.count = @ + 1]) EXCEPT
     !.tree = Append(@, TreeNode(type, FALSE, tok.start, tok.len))]

(* Mutant of Outgrown: the node is opened when the third child comes. *)
OutgrownLate(s) == Rule(Top(s).node).omit /\ Top(s).count = 2

(* A node that was omitted is not any more when it gets a second child. *)
Outgrown(s) == Rule(Top(s).node).omit /\ Top(s).count = 1

ApplyPlan(s, plan, tok) ==
  LET moved == TopIs(s, [Top(s) EXCEPT !.dfa = plan.next])
      ready == IF plan.mode = "LeftRecursive"
               THEN Wrap([TopIs(moved, [Top(moved) EXCEPT !.mode = LL]) EXCEPT
                            !.tree = Measured(@, Top(s).treeIndex)])
               ELSE IF Outgrown(s) THEN Wrap(moved) ELSE moved
      pushed == FoldLeft(LAMBDA acc, push : PushNode(acc, push, tok), LinkNext(ready), plan.pushes)
  IN  IF plan.next = {} THEN moved ELSE AddLeaf(pushed, plan.type, tok)

-----------------------------------------------------------------------------
(* Mutant of EndOfNode: an alternative that held stops the recording. *)
EndStops(s) ==
  LET old == Top(s)
      popped == [s EXCEPT !.stack = Front(@)]
  IN  IF old.mode.kind = "LL"
      THEN [popped EXCEPT !.tree = Measured(@, old.treeIndex)]
      ELSE [TopIs(popped, [Top(popped) EXCEPT !.count = old.count, !.latest = old.latest])
              EXCEPT !.buf = Tokenizer!Stopped(@)]

(* end_of_node: a node is complete, or the alternative it was parsed with    *)
(* has held.                                                                 *)
EndOfNode(s) ==
  LET old == Top(s)
      popped == [s EXCEPT !.stack = Front(@)]
  IN  IF old.mode.kind = "LL"
      THEN [popped EXCEPT !.tree = Measured(@, old.treeIndex)]
      ELSE [TopIs(popped, [Top(popped) EXCEPT !.count = old.count, !.latest = old.latest])
              EXCEPT !.buf = IF Top(popped).recording THEN @ ELSE Tokenizer!Stopped(@)]

-----------------------------------------------------------------------------
(* error_recovery, looking for the innermost open node that can do something. *)
IsLeaf(node) == node.type \notin DOMAIN Grammars[grammar].rules

(* The first node of type A that begins where the nodes from c on begin. *)
Matching(tr, c, A) ==
  {i \in c..(Len(tr) - 1) :
     /\ tr[i + 1].type = A /\ ~tr[i + 1].err
     /\ \A j \in c..i : tr[j + 1].start = tr[c + 1].start
     /\ \A j \in c..(i - 1) : tr[j + 1].type # A \/ tr[j + 1].err}

(* last_leaf_if_proper_nonterminal *)
RECURSIVE LastLeaf(_, _)
LastLeaf(tr, i) == IF tr[i + 1].next > 0 THEN LastLeaf(tr, i + tr[i + 1].next)
                   ELSE IF IsLeaf(tr[i + 1]) THEN i ELSE LastLeaf(tr, i + 1)

ReusableNode(s, mode) ==
  IF mode.reuse = <<>> THEN {}
  ELSE Matching(s.tree, mode.trees, Last(mode.reuse[1].pushes).node)

(* find_matching_node looks at the first node of the alternative, which must *)
(* have one by then.                                                         *)
NothingToSearch(i) ==
  LET mode == stack[i].mode
  IN  mode.kind = "Alternative" /\ mode.reuse # <<>> /\ Len(tree) = mode.trees

Replays(s, mode) == LET start == Last(s.tree).start
                    IN  mode.firstStart > start \/ (mode.firstStart = start /\ mode.firstValid)

(* Mutants of CanRecover: the rules that recover are not looked for; a       *)
(* failed alternative is not tried in another way.                           *)
CanGoBackOnly(s, i) ==
  LET node == s.stack[i]
  IN  IF node.mode.kind = "Alternative" THEN TRUE
      ELSE node.mode.kind = "LastAlternative" /\ Replays(s, node.mode)
RulesRecover(s, i) == Rule(s.stack[i].node).recovers

CanRecover(s, i) ==
  LET node == s.stack[i]
  IN  IF node.mode.kind = "Alternative"
      THEN \A r \in ReusableNode(s, node.mode) : s.tree[r + 1].len # 0
      ELSE \/ node.mode.kind = "LastAlternative" /\ Replays(s, node.mode)
           \/ Rule(node.node).recovers

(* Mutant of Reset: the token the alternative began with is read again. *)
ResetBefore(s, i, mode) ==
  [s EXCEPT !.stack = [SubSeq(@, 1, i) EXCEPT ![i].count = mode.count],
            !.tree = SubSeq(@, 1, mode.trees),
            !.buf = Tokenizer!ResetTo(@, mode.token)]

(* Everything since the alternative at stack node i began is taken back. *)
Reset(s, i, mode) ==
  [s EXCEPT !.stack = [SubSeq(@, 1, i) EXCEPT ![i].count = mode.count],
            !.tree = SubSeq(@, 1, mode.trees),
            !.buf = Tokenizer!NextKept(Tokenizer!ResetTo(@, mode.token))]

(* Mutant of Second: a fallback that fails is tried again. *)
Again(s, i, mode) == mode

Second(s, i, mode) ==
  [kind |-> "LastAlternative", trees |-> mode.trees, token |-> mode.token,
   count |-> mode.count, replay |-> mode.replay,
   firstStart |-> Last(s.tree).start, firstValid |-> Len(s.stack) = i]

(* The second plan of an alternative, from its first token ... *)
Fallback(s, i, mode) ==
  LET back == Reset(s, i, mode)
  IN  ApplyPlan(TopIs(back, [Top(back) EXCEPT !.mode = Second(s, i, mode)]),
                mode.fallback, s.buf.tokens[mode.token + 1])

(* ... or from behind the node r that both plans begin with: its subtree     *)
(* stays, the nodes of the second plan are laid over it.                     *)
LayNode(acc, push, start, mode) ==
  LET at == IF push.alt = <<>> /\ ~Rule(push.node).omit THEN acc.at + 1 ELSE acc.at
      alt == push.alt[1]
  IN  [at |-> at,
       tree |-> IF at = acc.at THEN acc.tree
                ELSE [acc.tree EXCEPT ![at] = TreeNode(push.node, FALSE, start, 0)],
       stack |-> Append(acc.stack,
         [StackNode(push.node, acc.at, push.next, 1,
            IF push.alt = <<>> THEN LL
            ELSE [kind |-> "Alternative", trees |-> at, token |-> mode.token, count |-> 1,
                  replay |-> alt.replay, fallback |-> alt.fallback, reuse |-> alt.reuse],
            TRUE) EXCEPT !.latest = at])]

Reuse(s, i, mode, r) ==
  LET over == mode.reuse[1]
      c == mode.trees
      n == r - c
      leaf == s.tree[LastLeaf(s.tree, r + 1) + 1]
      kept == SubSeq(s.tree, 1, LastLeaf(s.tree, r + 1) + 1)
      start == s.tree[r + 1].start
      tr == SubSeq(kept, 1, c)
              \o [x \in 1..(IF over.needed > n THEN over.needed - n ELSE 0) |->
                     TreeNode("", FALSE, start, 0)]
              \o SubSeq(kept, c + 1 + (IF n > over.needed THEN n - over.needed ELSE 0), Len(kept))
      st == [SubSeq(s.stack, 1, i) EXCEPT ![i].mode = Second(s, i, mode),
                                           ![i].dfa = mode.fallback.next]
      laid == FoldLeft(LAMBDA acc, push : LayNode(acc, push, start, mode),
                       [at |-> c, tree |-> tr, stack |-> st], over.pushes)
      behind == {k \in DOMAIN s.buf.tokens :
                   s.buf.tokens[k].start = leaf.start /\ s.buf.tokens[k].len = leaf.len}
  IN  [s EXCEPT !.stack = laid.stack, !.tree = laid.tree,
                !.buf = Tokenizer!ResetTo(@, CHOOSE k \in behind : \A j \in behind : j <= k)]

(* The second plan got less far than the first: the first one again, for good. *)
Replay(s, i, mode) ==
  LET back == Reset(s, i, mode)
      popped == [back EXCEPT !.stack = [Front(@) EXCEPT ![i - 1].count = 0]]
      done == ApplyPlan(popped, mode.replay, s.buf.tokens[mode.token + 1])
  IN  [done EXCEPT !.buf = IF Top(done).recording THEN @ ELSE Tokenizer!Stopped(@)]

(* All the nodes from the recovering one on are closed as errors. *)
RECURSIVE FailFrom(_, _)
FailFrom(s, i) ==
  IF Len(s.stack) < i THEN s
  ELSE LET at == Top(s).treeIndex
       IN  FailFrom([s EXCEPT !.stack = Front(@),
                              !.tree = [Measured(@, at) EXCEPT ![at + 1].err = TRUE]], i)

(* A token nothing can begin with, under a node that repeats a recovering one. *)
ErrorNode(s, A, tok) ==
  [LinkNext(s) EXCEPT !.tree = @ \o <<TreeNode(A, TRUE, tok.start, tok.len),
                                      TreeNode(tok.type, TRUE, tok.start, tok.len)>>]
-----------------------------------------------------------------------------
State == [stack |-> stack, tree |-> tree, buf |-> buf]
Become(s) == stack' = s.stack /\ tree' = s.tree /\ buf' = s.buf
Current == Top(State)

Init ==
  /\ grammar \in DOMAIN Grammars
  /\ read = <<>> /\ buf = Tokenizer!Empty /\ cur = <<>> /\ phase = "fetch"
  /\ LET A == Grammars[grammar].start
     IN  /\ stack = <<StackNode(A, 0, Start(Build(Rule(A).rule, 0)), 0, LL, FALSE)>>
         /\ tree = <<TreeNode(A, FALSE, 0, 0)>>

(* parse: the next token, from the buffer or from the text ... *)
FetchKept ==
  /\ phase = "fetch" /\ ~Tokenizer!Exhausted(buf)
  /\ cur' = <<buf.tokens[buf.next + 1]>> /\ buf' = Tokenizer!NextKept(buf)
  /\ phase' = "apply"
  /\ UNCHANGED <<grammar, read, stack, tree>>

FetchFresh ==
  /\ phase = "fetch" /\ Tokenizer!Exhausted(buf) /\ ~Ended
  /\ \E t \in (IF Len(read) < MaxTokens THEN Alphabet[grammar] ELSE {}) \cup {"end"} :
       /\ cur' = <<Token(t)>> /\ read' = Append(read, Token(t))
       /\ buf' = Tokenizer!NextFresh(buf, <<Token(t)>>)
  /\ phase' = "apply"
  /\ UNCHANGED <<grammar, stack, tree>>

(* ... or its end. *)
FetchEnd ==
  /\ phase = "fetch" /\ Tokenizer!Exhausted(buf) /\ Ended
  /\ cur' = <<>> /\ buf' = Tokenizer!NextFresh(buf, <<>>)
  /\ phase' = "drain"
  /\ UNCHANGED <<grammar, read, stack, tree>>

(* apply_transition: what the innermost node's row of the table says to the  *)
(* token, or to there being none: follow the plan for it ...                 *)
Planned(row) == phase = "apply" /\ cur[1].type \in DOMAIN row.plans

FollowPlan(row) ==
  /\ Planned(row) /\ row.plans[cur[1].type].mode # "PositivePeek"
  /\ Become(ApplyPlan(State, row.plans[cur[1].type], cur[1]))
  /\ cur' = <<>> /\ phase' = "fetch"
  /\ UNCHANGED <<grammar, read>>

PeekOnward(row) ==
  /\ Planned(row) /\ row.plans[cur[1].type].mode = "PositivePeek"
  /\ stack' = [stack EXCEPT ![Len(stack)].dfa = row.plans[cur[1].type].next]
  /\ UNCHANGED <<grammar, read, buf, cur, tree, phase>>

(* ... close a node that may end here and try the token on the next one ...  *)
CloseNode(row) ==
  /\ ~Planned(row) /\ row.final
  /\ Become(EndOfNode(State))
  /\ phase' = CASE phase = "drain" -> IF Len(stack) = 1 THEN "done" ELSE "fetch"
               [] phase = "apply" -> IF Len(stack) = 1 THEN "panic" ELSE "apply"
  /\ UNCHANGED <<grammar, read, cur>>

(* ... or recover: by keeping the token as an error ... *)
Broken(row) == ~Planned(row) /\ ~row.final
KeepsToken(row) == cur # <<>> /\ row.recover # <<>>

SkipToken(row) ==
  /\ Broken(row) /\ KeepsToken(row)
  /\ Become(ErrorNode(State, row.recover[1], cur[1]))
  /\ cur' = <<>> /\ phase' = "fetch"
  /\ UNCHANGED <<grammar, read>>

(* ... or by the innermost node i that can, in the way that its mode says.   *)
Recovering == {i \in DOMAIN stack : CanRecover(State, i)}

TryFallback(i) ==
  /\ stack[i].mode.kind = "Alternative"
  /\ LET nodes == ReusableNode(State, stack[i].mode)
     IN  IF nodes = {} THEN Become(Fallback(State, i, stack[i].mode))
         ELSE \E r \in nodes : Become(Reuse(State, i, stack[i].mode, r))
  /\ cur' = <<>> /\ phase' = "fetch"
  /\ UNCHANGED <<grammar, read>>

ReplayFirst(i) ==
  /\ stack[i].mode.kind = "LastAlternative" /\ Replays(State, stack[i].mode)
  /\ Become(Replay(State, i, stack[i].mode))
  /\ cur' = <<>> /\ phase' = "fetch"
  /\ UNCHANGED <<grammar, read>>

(* The failed nodes are kept as errors and the token is applied outside. *)
GiveUp(i) ==
  /\ stack[i].mode.kind # "Alternative"
  /\ stack[i].mode.kind = "LastAlternative" => ~Replays(State, stack[i].mode)
  /\ Become(FailFrom(State, i))
  /\ phase' = IF phase = "drain" THEN "fetch" ELSE phase
  /\ UNCHANGED <<grammar, read, cur>>

Panic == phase' = "panic" /\ UNCHANGED <<grammar, read, buf, cur, stack, tree>>

Recover(row) ==
  /\ Broken(row) /\ ~KeepsToken(row)
  /\ LET i == CHOOSE x \in Recovering : \A j \in Recovering : j <= x
     IN  IF Recovering = {} \/ NothingToSearch(i) THEN Panic
         ELSE TryFallback(i) \/ ReplayFirst(i) \/ GiveUp(i)

Apply ==
  /\ phase \in {"apply", "drain"}
  /\ \E row \in {Dfa(Current)} :
       \/ FollowPlan(row) \/ PeekOnward(row) \/ CloseNode(row)
       \/ SkipToken(row) \/ Recover(row)

Next == FetchKept \/ FetchFresh \/ FetchEnd \/ Apply

(* parse loops until the stack is empty.  This is weak fairness of Next,     *)
(* which is enabled exactly as long as the parse is not over.                *)
Over == phase \in {"done", "panic"}
Fairness == []<>Over \/ []<><<Next>>_vars
Spec == Init /\ [][Next]_vars /\ Fairness
-----------------------------------------------------------------------------
(* Walking the finished tree, as the accessors of lib.rs do. *)
RECURSIVE Siblings(_, _)
Siblings(tr, i) == IF i >= Len(tr) THEN <<-1>>
                   ELSE IF tr[i + 1].next = 0 THEN <<i>>
                   ELSE <<i>> \o Siblings(tr, i + tr[i + 1].next)
Children(tr, i) == IF IsLeaf(tr[i + 1]) THEN <<>> ELSE Siblings(tr, i + 1)

(* parent: going back, the first inner node that reaches beyond node i, or   *)
(* the last of its siblings, which lies just before the first child.         *)
RECURSIVE ParentFrom(_, _, _, _)
ParentFrom(tr, i, back, sibling) ==
  IF back > i THEN {}
  ELSE LET n == tr[i - back + 1]
       IN  IF ~IsLeaf(n) /\ (n.next > back \/ (n.next = 0 /\ back = sibling + 1)) THEN {i - back}
           ELSE ParentFrom(tr, i, back + 1, IF sibling + n.next = back THEN back ELSE sibling)
Parent(tr, i) == ParentFrom(tr, i, 1, 0)

(* previous_sibling: the nearest node before i whose sibling is not nearer. *)
PreviousSibling(tr, i) ==
  LET far == {j \in 0..(i - 1) : tr[j + 1].next >= i - j}
      j == CHOOSE x \in far : \A y \in far : y <= x
  IN  IF far = {} \/ tr[j + 1].next > i - j THEN {} ELSE {j}

RECURSIVE Preorder(_, _)
Preorder(tr, i) == <<i>> \o FlattenSeq([k \in DOMAIN Children(tr, i) |->
                                           IF Children(tr, i)[k] <= i THEN <<>>
                                           ELSE Preorder(tr, Children(tr, i)[k])])

Done == phase = "done"
Inside(i) == SelectSeq(Preorder(tree, i), LAMBDA j : IsLeaf(tree[j + 1]))

-----------------------------------------------------------------------------
(* The walk over the children visits every node once, in the order of the    *)
(* array, and going up and back undoes going down and on: what               *)
(* assert_valid_tree checks of the trees of its examples                     *)
(* (parsa_python/tests/test_grammar.rs:30).                                  *)
TreeValid ==
  Done => /\ Preorder(tree, 0) = [k \in DOMAIN tree |-> k - 1]
          /\ \A i \in 0..(Len(tree) - 1) :
               LET kids == Children(tree, i)
               IN  \A k \in DOMAIN kids :
                     /\ Parent(tree, kids[k]) = {i}
                     /\ PreviousSibling(tree, kids[k]) = IF k = 1 THEN {} ELSE {kids[k - 1]}

(* Whatever was tried and taken back on the way, the leaves of the tree are  *)
(* the tokens consumed so far, each one once and in order; only a token that *)
(* a forbidden lookahead has just refused is still to come again.            *)
Consumed == IF buf.tokens = <<>> \/ buf.next > Len(buf.tokens) THEN Len(read)
            ELSE Len(read) - Len(buf.tokens) + buf.next
EveryTokenOnce ==
  (Done \/ (phase = "fetch" /\ Current.dfa # {})) =>
    LET leaves == SelectSeq(tree, IsLeaf)
        token(node) == [type |-> node.type, start |-> node.start, len |-> node.len]
    IN  [k \in DOMAIN leaves |-> token(leaves[k])] = SubSeq(read, 1, Consumed)

(* A node spans its leaves, from the first to the end of the last. *)
Spans ==
  Done => \A i \in 0..(Len(tree) - 1) :
            LET in == Inside(i)
                first == tree[Head(in) + 1]
                last == tree[Last(in) + 1]
            IN  /\ tree[i + 1].start = first.start
                /\ tree[i + 1].len = last.start + last.len - first.start

(* A text gets a tree without errors exactly if it is in the language, and   *)
(* such a tree is a derivation: the children of every node conform to its    *)
(* rule (the fallbacks of the plans neither admit nor lose a text).          *)
Clean == \A i \in DOMAIN tree : ~tree[i].err
ParsesLanguage == Done => (Clean <=> InLanguage(grammar, [i \in DOMAIN read |-> read[i].type]))
TokenAfter(i) == LET seen == {j \in DOMAIN read : read[j].start >= tree[i + 1].start + tree[i + 1].len}
                 IN  IF seen = {} THEN "" ELSE read[CHOOSE j \in seen : \A k \in seen : j <= k].type
IsDerivation ==
  Done /\ Clean =>
    \A i \in 0..(Len(tree) - 1) : ~IsLeaf(tree[i + 1]) =>
      LET kids == Children(tree, i)
      IN  Conforms(grammar, tree[i + 1].type, [k \in DOMAIN kids |-> tree[kids[k] + 1].type],
                   [k \in 0..Len(kids) |-> IF k = 0 THEN read[1].type ELSE TokenAfter(kids[k])])

(* As long as an alternative may be taken back, tokens are recorded and its  *)
(* first token and the place in the tree where it began are still there.     *)
CanGoBack ==
  \A i \in DOMAIN stack : stack[i].mode.kind # "LL" =>
    LET mode == stack[i].mode
    IN  /\ buf.recording /\ i > 1
        /\ mode.token < Len(buf.tokens) /\ mode.token <= buf.next
        /\ mode.trees <= Len(tree)
        /\ (phase = "fetch" => tree[mode.trees + 1].start = buf.tokens[mode.token + 1].start)

(* Some open node always knows how to go on, whatever the text is ("No error *)
(* recovery function found", grammar.rs:499) ...                             *)
NoPanic == phase # "panic"

(* ... and every text is parsed to its end: no alternative is tried for ever. *)
Terminates == <>Over
=============================================================================
