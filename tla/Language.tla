------------------------------ MODULE Language ------------------------------
(* The language of a grammar, read off its rules without automata or plans:  *)
(* the reference the parser is compared with.  A match is <<s, i, j>>: the   *)
(* symbol s matches what lies between the positions i and j.                 *)
EXTENDS Automaton

RECURSIVE PeekNames(_)
PeekNames(r) == IF r.op = "tok" THEN {r.name} ELSE PeekNames(r.left) \cup PeekNames(r.right)

(* Where a rule expression can end that begins at i; next[i] is the token    *)
(* that follows position i, "any" if it is not to matter.                    *)
RECURSIVE Ends(_, _, _, _)
RECURSIVE Repeat(_, _, _, _)
Ends(r, matches, next, i) ==
  CASE r.op \in {"tok", "node"} ->
         {m[3] : m \in {x \in matches : x[1] = r.name /\ x[2] = i}}
    [] r.op = "or" -> Ends(r.left, matches, next, i) \cup Ends(r.right, matches, next, i)
    [] r.op = "next" -> UNION {Ends(r.right, matches, next, j) :
                                 j \in Ends(r.left, matches, next, i)}
    [] r.op = "maybe" -> {i} \cup Ends(r.arg, matches, next, i)
    [] r.op = "multiple" -> Repeat(r.arg, matches, next, Ends(r.arg, matches, next, i))
    [] r.op = "neg" -> IF next[i] \in PeekNames(r.arg) THEN {} ELSE {i}
    [] r.op = "pos" -> IF next[i] \in PeekNames(r.arg) \cup {"any"} THEN {i} ELSE {}
Repeat(r, matches, next, S) ==
  LET more == UNION {Ends(r, matches, next, j) : j \in S}
  IN  IF more \subseteq S THEN S ELSE Repeat(r, matches, next, S \cup more)

(* All the matches of nonterminals in a text, the least fixpoint. *)
RECURSIVE Matches(_, _, _)
Matches(g, text, known) ==
  LET next == [i \in 0..Len(text) |-> IF i < Len(text) THEN text[i + 1] ELSE ""]
      found == UNION {{<<A, i, j>> : j \in Ends(Grammars[g].rules[A].rule, known, next, i)} :
                        <<A, i>> \in (DOMAIN Grammars[g].rules) \X (0..Len(text))}
  IN  IF found \subseteq known THEN known ELSE Matches(g, text, known \cup found)

InLanguage(g, text) ==
  <<Grammars[g].start, 0, Len(text)>> \in
    Matches(g, text, {<<text[i], i - 1, i>> : i \in DOMAIN text})

(* A rule that may be omitted is, when it has one child: the symbols that    *)
(* may stand in the tree where a rule asks for A, and for a symbol the       *)
(* places it may stand in.                                                   *)
Symbols(g) == {l[2] : l \in {x \in UNION {{e.label : e \in r.nfa.edges} :
                                         r \in Range(Rules(Grammars[g]))} : IsSymbol(x)}}
                \cup {Grammars[g].start}
RECURSIVE StandFor(_, _)
StandFor(g, A) ==
  IF A \notin DOMAIN Grammars[g].rules \/ ~Grammars[g].rules[A].omit THEN {A}
  ELSE LET alone == {X \in Symbols(g) \ {A} :
                       1 \in Ends(Grammars[g].rules[A].rule, {<<X, 0, 1>>}, [i \in 0..1 |-> "any"], 0)}
       IN  {A} \cup UNION {StandFor(g, X) : X \in alone}
Roles(g, X) == {A \in Symbols(g) : X \in StandFor(g, A)}

(* A sequence of children conforms to the rule of their parent. *)
Conforms(g, A, kids, next) ==
  Len(kids) \in Ends(Grammars[g].rules[A].rule,
                     UNION {{<<B, k - 1, k>> : B \in Roles(g, kids[k])} : k \in DOMAIN kids},
                     next, 0)
=============================================================================
