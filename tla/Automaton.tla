----------------------------- MODULE Automaton -----------------------------
(* The parser generator of crates/parsa (automaton.rs): every rule of a      *)
(* grammar becomes an NFA, the NFA a powerset automaton, and every state of  *)
(* that automaton a table from the next token to a plan: the stack nodes to  *)
(* push for the token and the state that follows.  Where two alternatives    *)
(* begin with the same token, the plan of the first one is pushed under an   *)
(* Alternative that remembers the plan of the second as its fallback.        *)
(* A DFA state is the eps-closed set of NFA states it stands for, which is   *)
(* how the code identifies it; {} is the state without transitions in which  *)
(* a forbidden lookahead ends.  Keywords are tokens; soft keywords are left  *)
(* out, as is the order in which the code's hash maps are walked.            *)
EXTENDS Naturals, Sequences, SequencesExt

(* The grammars: name -> [start, rules], rules: nonterminal -> [rule, omit,  *)
(* recovers], `omit` for "name:?" and `recovers` for "@error_recovery".      *)
CONSTANT Grammars

(* Rule expressions, as create_grammar! nests them. *)
Tok(t) == [op |-> "tok", name |-> t]
Node(A) == [op |-> "node", name |-> A]
Maybe(r) == [op |-> "maybe", arg |-> r]
Multiple(r) == [op |-> "multiple", arg |-> r]
Not(r) == [op |-> "neg", arg |-> r]
Peek(r) == [op |-> "pos", arg |-> r]
Or(r, s) == [op |-> "or", left |-> r, right |-> s]
Then(r, s) == [op |-> "next", left |-> r, right |-> s]
Many(r) == Maybe(Multiple(r))
Separated(r, sep) == Then(r, Many(Then(sep, r)))

-----------------------------------------------------------------------------
(* The NFA of a rule: states are numbered in the order the code creates      *)
(* them, which is the priority of the alternatives.                          *)
Edge(from, label, to) == [from |-> from, label |-> label, to |-> to]
Eps == <<"eps">>
Neg == <<"neg">>
Pos == <<"pos">>
PeekEnd == <<"end">>
IsSymbol(l) == l[1] \in {"tok", "node"}

RECURSIVE Build(_, _)
Build(r, n) ==
  CASE r.op \in {"tok", "node"} ->
         [start |-> n, end |-> n + 1, used |-> n + 2,
          edges |-> {Edge(n, <<r.op, r.name>>, n + 1)}]
    [] r.op = "or" ->
         LET x == Build(r.left, n + 2)
             y == Build(r.right, x.used)
         IN  [start |-> n, end |-> n + 1, used |-> y.used,
              edges |-> x.edges \cup y.edges
                \cup {Edge(n, Eps, x.start), Edge(n, Eps, y.start),
                      Edge(x.end, Eps, n + 1), Edge(y.end, Eps, n + 1)}]
    [] r.op = "next" ->
         LET x == Build(r.left, n)
             y == Build(r.right, x.used)
         IN  [start |-> x.start, end |-> y.end, used |-> y.used,
              edges |-> x.edges \cup y.edges \cup {Edge(x.end, Eps, y.start)}]
    [] r.op = "maybe" ->
         LET x == Build(r.arg, n)
         IN  [x EXCEPT !.edges = @ \cup {Edge(x.start, Eps, x.end)}]
    [] r.op = "multiple" ->
         LET x == Build(r.arg, n)
         IN  [x EXCEPT !.edges = @ \cup {Edge(x.end, Eps, x.start)}]
    [] r.op \in {"neg", "pos"} ->
         LET x == Build(r.arg, n)
         IN  [start |-> x.used, end |-> x.used + 1, used |-> x.used + 2,
              edges |-> x.edges \cup {Edge(x.used, <<r.op>>, x.start),
                                      Edge(x.end, PeekEnd, x.used + 1)}]

(* The rules of a grammar with their NFAs, the R of the operators below. *)
Rules(grammar) ==
  [A \in DOMAIN grammar.rules |->
     [nfa |-> Build(grammar.rules[A].rule, 0),
      omit |-> grammar.rules[A].omit, recovers |-> grammar.rules[A].recovers]]

RECURSIVE Closure(_, _)
Closure(nfa, S) ==
  LET more == {e.to : e \in {x \in nfa.edges : x.from \in S /\ x.label = Eps}}
  IN  IF more \subseteq S THEN S ELSE Closure(nfa, S \cup more)

Start(nfa) == Closure(nfa, {nfa.start})
End(nfa) == Closure(nfa, {nfa.end})

-----------------------------------------------------------------------------
(* The powerset automaton.  Equal symbols are merged; of several lookaheads  *)
(* that begin in one state only the last one survives.                       *)
Labels(nfa, D) == {e.label : e \in {x \in nfa.edges : x.from \in D}} \ {Eps}

Target(nfa, D, l) ==
  LET es == {e \in nfa.edges : e.from \in D /\ e.label = l}
      last == CHOOSE e \in es : \A x \in es : x.from <= e.from
  IN  Closure(nfa, IF IsSymbol(l) THEN {e.to : e \in es} ELSE {last.to})

(* Where a lookahead that begins in D goes on, and the tokens it looks for. *)
AfterPeek(nfa, D, l) ==
  LET inner == Target(nfa, D, l)
      any == CHOOSE s \in Labels(nfa, inner) : TRUE
  IN  Target(nfa, Target(nfa, inner, any), PeekEnd)
PeekTokens(nfa, D, l) == {s[2] : s \in Labels(nfa, Target(nfa, D, l))}

RECURSIVE IsFinal(_, _)
IsFinal(nfa, D) ==
  \/ nfa.end \in D
  \/ PeekEnd \in Labels(nfa, D)
  \/ Neg \in Labels(nfa, D) /\ IsFinal(nfa, AfterPeek(nfa, D, Neg))

RECURSIVE Reach(_, _)
Reach(nfa, Ds) ==
  LET more == UNION {{Target(nfa, D, l) : l \in Labels(nfa, D)} : D \in Ds}
  IN  IF more \subseteq Ds THEN Ds ELSE Reach(nfa, Ds \cup more)

-----------------------------------------------------------------------------
(* Plans.  `alt` and `reuse` are <<>> or one record. *)
Plan(pushes, next, t, mode) == [pushes |-> pushes, next |-> next, type |-> t, mode |-> mode]
Push(A, next, alt) == [node |-> A, next |-> next, alt |-> alt]
Nest(plan, A, next, alt) ==
  Plan(<<Push(A, plan.next, alt)>> \o plan.pushes, next, plan.type, "LL")

(* The tree nodes that pushes need before the one whose node is reused. *)
Needed(R, pushes) ==
  Len(SelectSeq(Front(pushes), LAMBDA p : p.alt = <<>> /\ ~R[p.node].omit))

(* A nonterminal both plans push first is parsed once: if the first plan     *)
(* fails, the nodes pushed up to that nonterminal are laid over its subtree. *)
Reusable(R, plan, fallback) ==
  LET common(p) == {k \in DOMAIN fallback.pushes :
                      fallback.pushes[k].node = p.node /\ fallback.pushes[k].alt = <<>>}
      hits == {i \in DOMAIN plan.pushes : plan.pushes[i].alt # <<>> \/ common(plan.pushes[i]) # {}}
      i == CHOOSE x \in hits : \A y \in hits : x <= y
      k == CHOOSE x \in common(plan.pushes[i]) : \A y \in common(plan.pushes[i]) : x <= y
      over == SubSeq(fallback.pushes, 1, k)
  IN  IF plan.mode # "LL" \/ fallback.mode # "LL" \/ hits = {} THEN <<>>
      ELSE IF plan.pushes[i].alt # <<>> THEN <<>>
      ELSE <<[pushes |-> [over EXCEPT ![k].next = End(R[over[k].node].nfa)],
              needed |-> Needed(R, over)]>>

(* split_tokens: the alternatives that conflict, in order of priority; each  *)
(* is the longest run of NFA states whose edges carry the same symbol.       *)
Split(nfa, D, conflicts) ==
  LET at == {e \in nfa.edges : e.from \in D /\ e.label \in conflicts}
      ordered == SetToSortSeq(at, LAMBDA x, y : x.from < y.from)
      heads == {i \in DOMAIN ordered : i = 1 \/ ordered[i].label # ordered[i - 1].label}
      run(i) == {ordered[j].from : j \in {x \in DOMAIN ordered :
                   x >= i /\ \A h \in heads : ~(i < h /\ h <= x)}}
      starts == SetToSortSeq(heads, <)
  IN  [k \in DOMAIN starts |-> Closure(nfa, run(starts[k]))]

(* What a symbol of a state offers for the next token; `firsts` holds the    *)
(* plans of the first state of every rule that may begin with this symbol.   *)
Offer(nfa, D, l, firsts) ==
  LET to == Target(nfa, D, l)
  IN  CASE l[1] = "tok" -> l[2] :> Plan(<<>>, to, l[2], "LL")
        [] l[1] = "node" -> [t \in DOMAIN firsts[l[2]] |-> Nest(firsts[l[2]][t], l[2], to, <<>>)]
        [] l = Pos -> [t \in PeekTokens(nfa, D, l) |->
                         Plan(<<>>, AfterPeek(nfa, D, l), t, "PositivePeek")]

(* A first state skips the symbol that makes its rule left recursive. *)
Offers(R, A, D, firsts) ==
  LET nfa == R[A].nfa
      own == IF D = Start(nfa) THEN {<<"node", A>>} ELSE {}
  IN  [l \in Labels(nfa, D) \ ({Neg, PeekEnd} \cup own) |-> Offer(nfa, D, l, firsts)]

ConflictTokens(offers) ==
  UNION {DOMAIN offers[x[1]] \cap DOMAIN offers[x[2]] :
           x \in {y \in (DOMAIN offers) \X (DOMAIN offers) : y[1] # y[2]}}
ConflictSymbols(offers) ==
  {l \in DOMAIN offers : DOMAIN offers[l] \cap ConflictTokens(offers) # {}}
SplitsOf(nfa, D, offers) == Split(nfa, D, ConflictSymbols(offers))

(* A token that one symbol offers is planned as it is. *)
Unshared(offers) ==
  [t \in UNION {DOMAIN offers[l] : l \in DOMAIN offers} \ ConflictTokens(offers) |->
     offers[CHOOSE l \in DOMAIN offers : t \in DOMAIN offers[l]][t]]

(* The plans `new` of an alternative over those of the later ones. *)
Preferred(R, A, new, later) ==
  LET both(t) == Nest(new[t], A, End(R[A].nfa),
                      <<[fallback |-> later[t], replay |-> new[t],
                         reuse |-> Reusable(R, new[t], later[t])]>>)
  IN  [t \in DOMAIN new |-> IF t \in DOMAIN later THEN both(t) ELSE new[t]] @@ later

(* A forbidden lookahead adds the plans behind it and aborts on its tokens.  *)
(* For a token of several symbols the alternatives are planned apart, from   *)
(* the last to the first, each one nested over the result so far.            *)
RECURSIVE PlansFor(_, _, _, _)
PlansFor(R, A, D, firsts) ==
  LET nfa == R[A].nfa
      offers == Offers(R, A, D, firsts)
      shared(new) == Restrict(new, ConflictTokens(offers) \cap DOMAIN new)
      behind == IF Neg \notin Labels(nfa, D) THEN <<>>
                ELSE [t \in PeekTokens(nfa, D, Neg) |-> Plan(<<>>, {}, t, "LL")]
                       @@ PlansFor(R, A, AfterPeek(nfa, D, Neg), firsts)
  IN  FoldRight(LAMBDA S, later : Preferred(R, A, shared(PlansFor(R, A, S, firsts)), later),
                SplitsOf(nfa, D, offers), behind @@ Unshared(offers))

(* The first plans, rule by rule: a rule is planned once all the rules it    *)
(* may begin with are.  A left recursive cycle of several rules has no plan  *)
(* (the code panics while it builds the grammar).                            *)
Begins(nfa) ==
  LET at == Start(nfa)
      from == IF Neg \in Labels(nfa, at) THEN {at, AfterPeek(nfa, at, Neg)} ELSE {at}
  IN  {l[2] : l \in {x \in UNION {Labels(nfa, D) : D \in from} : x[1] = "node"}}

RECURSIVE FirstPlans(_, _)
FirstPlans(R, known) ==
  LET ready == {A \in DOMAIN R \ DOMAIN known : Begins(R[A].nfa) \ {A} \subseteq DOMAIN known}
  IN  IF ready = {} THEN known
      ELSE FirstPlans(R, [A \in ready |-> PlansFor(R, A, Start(R[A].nfa), known)] @@ known)

(* Direct left recursion: in a state where the rule may end, what follows    *)
(* the recursive symbol begins an outer node around the finished one.        *)
LeftRecursion(R, A, D, firsts) ==
  LET nfa == R[A].nfa
      self == <<"node", A>>
      Outer(plans) == [t \in DOMAIN plans |-> [plans[t] EXCEPT !.mode = "LeftRecursive"]]
  IN  IF /\ self \in Labels(nfa, Start(nfa)) /\ D # Start(nfa)
         /\ IsFinal(nfa, D) /\ PeekEnd \notin Labels(nfa, D)
      THEN Outer(PlansFor(R, A, Target(nfa, Start(nfa), self), firsts))
      ELSE <<>>

(* The table of a rule: what the parser reads of each of its DFA states.     *)
(* Only the states known when the table is begun get plans, the ones         *)
(* reachable from the first state and from the alternatives it splits into;  *)
(* states that later splits add keep an empty table.                         *)
Row(R, A, D, planned, firsts) ==
  LET recovering == {l[2] : l \in {x \in Labels(R[A].nfa, D) :
                                      x[1] = "node" /\ R[x[2]].recovers}}
  IN  [final |-> IsFinal(R[A].nfa, D),
       plans |-> LeftRecursion(R, A, D, firsts)
                   @@ (IF planned THEN PlansFor(R, A, D, firsts) ELSE <<>>),
       recover |-> IF ~planned \/ recovering = {} THEN <<>>
                   ELSE <<CHOOSE B \in recovering : TRUE>>]

WithSplits(R, A, Ds, firsts) ==
  Reach(R[A].nfa, Ds \cup UNION {Range(SplitsOf(R[A].nfa, D, Offers(R, A, D, firsts))) : D \in Ds})

Rows(R, A, planned, firsts) ==
  [D \in WithSplits(R, A, planned, firsts) |-> Row(R, A, D, D \in planned, firsts)]

RuleTable(R, A, firsts) ==
  Rows(R, A, {{}, End(R[A].nfa)} \cup WithSplits(R, A, {Start(R[A].nfa)}, firsts), firsts)

TableOf(R, firsts) == [A \in DOMAIN R |-> RuleTable(R, A, firsts)]
Table == [g \in DOMAIN Grammars |->
           LET R == Rules(Grammars[g]) IN TableOf(R, FirstPlans(R, <<>>))]
=============================================================================
