------------------------------ MODULE MCParser ------------------------------
EXTENDS Parser

Rule_(r) == [rule |-> r, omit |-> FALSE, recovers |-> FALSE]
OmittedRule(r) == [rule |-> r, omit |-> TRUE, recovers |-> FALSE]
RecoveringRule(r) == [rule |-> r, omit |-> FALSE, recovers |-> TRUE]
File == Rule_(Then(Many(Node("stmt")), Tok("end")))
MCGrammars == [
 py |-> [start |-> "file", rules |-> 
  [file |-> File,
   stmt |-> RecoveringRule(Then(Or(Node("assignment"), Node("sum")), Tok("nl"))),
   assignment |-> Rule_(Then(Node("target"), Then(Tok("="), Node("sum")))),
   target |-> OmittedRule(Then(Node("name_def"), Not(Tok("(")))),
   name_def |-> Rule_(Tok("n")),
   sum |-> OmittedRule(Or(Then(Node("sum"), Then(Tok("+"), Node("atom"))), Node("atom"))),
   atom |-> Rule_(Or(Tok("n"), Then(Tok("("), Then(Node("sum"), Tok(")")))))]],
 star |-> [start |-> "file", rules |-> 
  [file |-> File,
   stmt |-> RecoveringRule(Then(Or(Node("assignment"), Node("primary")), Tok("nl"))),
   assignment |-> Rule_(Then(Node("star_target"), Then(Tok("="), Node("primary")))),
   star_target |-> OmittedRule(Then(Maybe(Tok("*")),
     Or(Then(Node("name_def"), Not(Tok("."))), Node("t_primary")))),
   t_primary |-> OmittedRule(Or(
     Then(Or(Then(Node("t_primary"), Then(Tok("."), Tok("n"))), Node("atom")), Peek(Tok("."))),
     Then(Node("t_primary"), Then(Tok("."), Node("name_def"))))),
   name_def |-> Rule_(Tok("n")),
   primary |-> OmittedRule(Or(Then(Node("primary"), Then(Tok("."), Tok("n"))), Node("atom"))),
   atom |-> Rule_(Tok("n"))]],
 slices |-> [start |-> "file", rules |->
  [file |-> File,
   stmt |-> RecoveringRule(Then(Node("slices"), Tok("nl"))),
   slices |-> OmittedRule(Then(
     Separated(Or(Then(Node("named"), Not(Tok(":"))), Node("slice")), Tok(",")), Maybe(Tok(",")))),
   slice |-> Rule_(Then(Maybe(Node("expression")), Then(Tok(":"), Maybe(Node("expression"))))),
   named |-> Rule_(Node("expression")),
   expression |-> Rule_(Node("sum")),
   sum |-> OmittedRule(Or(Then(Node("sum"), Then(Tok("+"), Node("atom"))), Node("atom"))),
   atom |-> Rule_(Tok("n"))]],
 paren |-> [start |-> "file", rules |->
  [file |-> File,
   stmt |-> RecoveringRule(Node("expression")),
   expression |-> Rule_(Node("sum")),
   sum |-> OmittedRule(Or(Then(Node("sum"), Then(Tok("+"), Node("atom"))), Node("atom"))),
   atom |-> Rule_(Or(Tok("n"), Then(Tok("("),
     Then(Or(Node("tuple"), Or(Node("expression"), Node("comprehension"))), Tok(")"))))),
   tuple |-> Rule_(Then(Node("star_named"), Then(Tok(","), Maybe(Separated(Node("star_named"), Tok(",")))))),
   star_named |-> OmittedRule(Or(Then(Tok("*"), Tok("n")), Node("expression"))),
   comprehension |-> Rule_(Then(Node("expression"), Then(Tok("for"), Tok("n"))))]]]
MCAlphabet == [py |-> {"n", "=", "nl", "(", ")"}, star |-> {"n", ".", "=", "nl"},
               slices |-> {"n", ":", ",", "nl", "+"}, paren |-> {"(", ")", "n", ",", "for"}]

(* Starred targets, for the run that shows what becomes of them. *)
MCStarGrammars == [star |-> MCGrammars.star]
MCStarAlphabet == [star |-> MCAlphabet.star \cup {"*"}]
=============================================================================
