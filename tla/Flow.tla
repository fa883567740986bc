-------------------------------- MODULE Flow --------------------------------
(***************************************************************************)
(* Narrowing: what zuban takes the type of a name, or of a member of a     *)
(* name, to be at a point of a function.  flow_analysis.rs walks the body  *)
(* once, keeping a stack of frames of narrowed keys, the assignments seen  *)
(* in every open try statement and the frames in which the innermost loop  *)
(* was left.  The model lets the program appear one statement at a time,   *)
(* and next to the analysis (flow, open) keeps what Python computes: envs, *)
(* every environment in which execution can arrive at this point.          *)
(*                                                                         *)
(* Types are sets of final classes.  Parameters are annotated, so the flag *)
(* widens is never set; pattern matching, Any, indexed members and the     *)
(* narrowing of a union by one of its members are left out.                *)
(***************************************************************************)
EXTENDS Naturals, Sequences, FiniteSets, SequencesExt, TLC

CONSTANTS Class,         \* final classes
          Name, Member,  \* narrowable keys: parameters, and their attributes
          Base,          \* the name a member belongs to
          Declared,      \* the annotated type of a key
          Declaration,   \* EntryKind::OriginalDeclaration
          Value,         \* the types of assigned expressions
          Test,          \* conditions of if and assert
          LoopTest,      \* conditions of loops
          LanguageServer,  \* RunCause::LanguageServer: dead code is analysed too
          MaxStatement, MaxDepth,  \* bounds: statements, open blocks
          Forgiven       \* the known gaps (below) that do not end a program

Key == Name \cup Member

ASSUME KeyAssumption == /\ Name \cap Member = {}
                        /\ Base \in [Member -> Name]
                        /\ Declared \in [Key -> SUBSET Class \ {{}}]
                        /\ \A t \in SUBSET Class : t # Declaration
ASSUME ValueAssumption == Value \subseteq SUBSET Class \ {{}}

Gone == "gone"  \* the value of a name after del, and of its members

VARIABLES flow,   \* frames, try_frames and loop_details of FlowAnalysis
          open,   \* the blocks being analysed, innermost last
          envs,   \* the environments that reach this point
          count,  \* statements so far
          gaps    \* constructs met that the analysis is known to get wrong

vars == <<flow, open, envs, count, gaps>>

-----------------------------------------------------------------------------
(* Entries and frames. *)

MembersOf(k) == {m \in Member : Base[m] = k}
Without(entries, ks) == [k \in DOMAIN entries \ ks |-> entries[k]]
NoEntries == <<>>

Conditional == [entries |-> NoEntries, unreachable |-> FALSE]
NewUnreachable == [entries |-> NoEntries, unreachable |-> TRUE]

Narrowed(t) == [type |-> t, modifies_ancestors |-> FALSE, deleted |-> FALSE]
Assigned(t) == [type |-> t, modifies_ancestors |-> TRUE, deleted |-> FALSE]
Deleted == [type |-> Class, modifies_ancestors |-> TRUE, deleted |-> TRUE]

FromType(k, t) == IF t = {} THEN NewUnreachable
                  ELSE [entries |-> k :> Narrowed(t), unreachable |-> FALSE]

SimplifiedUnion(t1, t2) ==
    IF Declaration \in {t1, t2} THEN Declaration ELSE t1 \cup t2

UnionOfRefs(e, f) ==
    [type |-> IF f.deleted /\ ~e.deleted THEN e.type
              ELSE IF e.deleted /\ ~f.deleted THEN f.type
              ELSE SimplifiedUnion(e.type, f.type),
     modifies_ancestors |-> e.modifies_ancestors \/ f.modifies_ancestors,
     deleted |-> e.deleted /\ f.deleted]

CommonSubType(t1, t2) == IF t1 = Declaration THEN t2
                         ELSE IF t2 = Declaration THEN t1
                         ELSE t1 \cap t2

(* The frames that have an entry for k, and the innermost such entry. *)
Holding(frames, k) == {i \in DOMAIN frames : k \in DOMAIN frames[i].entries}
Innermost(is) == CHOOSE i \in is : \A j \in is : j <= i

MergeKeyWithAncestorAssignment(frames, k, entry) ==
    LET is == Holding(frames, k) IN
    IF is = {} THEN [entry EXCEPT !.type = Declaration]
    ELSE UnionOfRefs(frames[Innermost(is)].entries[k], entry)

(* A name's entry is the innermost one.  For a member the search ends at   *)
(* the first frame in which its base was assigned.                         *)
Rebinds(frame, k) == /\ k \in Member
                     /\ Base[k] \in DOMAIN frame.entries
                     /\ frame.entries[Base[k]].modifies_ancestors
Lookup(frames, k) ==
    LET is == {i \in Holding(frames, k) :
                  \A j \in i + 1 .. Len(frames) : ~Rebinds(frames[j], k)}
    IN IF is = {} THEN Narrowed(Declaration)
       ELSE frames[Innermost(is)].entries[k]

TypeAt(frames, k) == LET t == Lookup(frames, k).type
                     IN IF t = Declaration THEN Declared[k] ELSE t

Top(fa) == Last(fa.frames)
Push(fa, frame) == [fa EXCEPT !.frames = Append(@, frame)]
Pop(fa) == [fa EXCEPT !.frames = Front(@)]
SetTop(fa, frame) == [fa EXCEPT !.frames[Len(fa.frames)] = frame]
MarkUnreachable(fa) == SetTop(fa, [Top(fa) EXCEPT !.unreachable = TRUE])

(* An assignment is also recorded in every try statement around it, as     *)
(* something that may have happened when an exception is raised.           *)
RecordLastInTry(entries, frames, k, entry) ==
    LET kept == Without(entries, MembersOf(k))
    IN IF k \in Member /\ Base[k] \in DOMAIN kept THEN kept
       ELSE (k :> MergeKeyWithAncestorAssignment(frames, k, entry)) @@ kept

RecordInTry(entries, frames, k, entry) ==
    LET kept == Without(entries, MembersOf(k))
        new == MergeKeyWithAncestorAssignment(frames, k, entry)
    IN IF k \in Member /\ Base[k] \in DOMAIN kept THEN kept
       ELSE (k :> IF k \in DOMAIN kept THEN UnionOfRefs(kept[k], new) ELSE new)
            @@ kept

OverwriteEntry(fa, k, entry) ==
    LET tries == [i \in DOMAIN fa.tries |->
                     RecordInTry(fa.tries[i], fa.frames, k, entry)]
        top == Top(fa)
    IN [SetTop(fa, [top EXCEPT !.entries =
                       (k :> entry) @@ Without(@, MembersOf(k))])
        EXCEPT !.tries = tries]

OverwriteEntries(fa, entries, mayModify) ==
    LET old == Without(Top(fa).entries,
                       UNION {MembersOf(k) : k \in DOMAIN entries})
        Put(k) == IF k \notin DOMAIN old THEN entries[k]
                  ELSE [entries[k] EXCEPT !.modifies_ancestors =
                           @ \/ old[k].modifies_ancestors \/ mayModify]
    IN SetTop(fa, [Top(fa) EXCEPT !.entries =
                      [k \in DOMAIN entries |-> Put(k)] @@ old])

OverwriteFrame(fa, frame) ==
    LET new == OverwriteEntries(fa, frame.entries, FALSE)
    IN IF frame.unreachable THEN MarkUnreachable(new) ELSE new

-----------------------------------------------------------------------------
(* Merging frames.  Entries are kept in the order they were made; what     *)
(* matters of it is that a name precedes the members assigned after it.    *)

InOrder == SetToSeq(Name) \o SetToSeq(Member)

(* The assignments of one branch, each united with what the other branch,  *)
(* or else the enclosing frames, say about its key.                        *)
MergeAssignmentsForFirstFrame(fa, first, other, skip) ==
    LET Merge(acc, k) ==
            IF \/ k \notin DOMAIN first \/ k \in skip
               \/ ~first[k].modifies_ancestors
            THEN acc
            ELSE OverwriteEntry(acc, k,
                    IF k \in DOMAIN other THEN UnionOfRefs(first[k], other[k])
                    ELSE MergeKeyWithAncestorAssignment(acc.frames, k, first[k]))
    IN FoldLeft(Merge, fa, InOrder)

DeadIfOneIs(fa, true, false) ==
    IF true.unreachable \/ false.unreachable THEN MarkUnreachable(fa)
    ELSE MergeAssignmentsForFirstFrame(
             MergeAssignmentsForFirstFrame(fa, true.entries, false.entries, {}),
             false.entries, true.entries, DOMAIN true.entries)

MergeConditional(fa, true, false) ==
    CASE true.unreachable /\ false.unreachable -> MarkUnreachable(fa)
      [] true.unreachable /\ ~false.unreachable ->
             OverwriteEntries(fa, false.entries, true.entries # NoEntries)
      [] ~true.unreachable /\ false.unreachable ->
             OverwriteEntries(fa, true.entries, false.entries # NoEntries)
      [] OTHER ->
             LET both == {k \in DOMAIN true.entries \cap DOMAIN false.entries :
                             true.entries[k].modifies_ancestors}
                 one == MergeAssignmentsForFirstFrame(fa, true.entries, false.entries, {})
             IN MergeAssignmentsForFirstFrame(one, false.entries, true.entries, both)

(* Either frame may hold.  With optional, y is the frame of a right        *)
(* operand, evaluated after the assignments of x.                          *)
MergeOr(fa, x, y, optional) ==
    IF x.unreachable THEN y ELSE IF y.unreachable THEN x ELSE
    LET xs == x.entries  ys == y.entries
        Modifying(es) == {k \in DOMAIN es : es[k].modifies_ancestors}
        both == DOMAIN xs \cap DOMAIN ys
        added == Modifying(ys) \ DOMAIN xs
        left == {k \in both \cup Modifying(xs) :
                     k \in Name \/ Base[k] \notin added}
        names == (left \cup added) \cap Name
        right == {k \in added : k \in Name \/ Base[k] \notin names}
        Merged(k) ==
            IF k \in both THEN UnionOfRefs(xs[k], ys[k])
            ELSE IF k \in DOMAIN xs
            THEN IF optional THEN xs[k]
                 ELSE MergeKeyWithAncestorAssignment(fa.frames, k, xs[k])
            ELSE MergeKeyWithAncestorAssignment(fa.frames, k, ys[k])
    IN [entries |-> [k \in left \cup right |-> Merged(k)], unreachable |-> FALSE]

(* Both frames hold. *)
MergeAnd(x, y) ==
    IF x.unreachable THEN x ELSE IF y.unreachable THEN y ELSE
    LET both == DOMAIN x.entries \cap DOMAIN y.entries
        Merged(k) ==
            IF k \notin DOMAIN y.entries THEN x.entries[k]
            ELSE IF k \notin DOMAIN x.entries \/ y.entries[k].modifies_ancestors
            THEN y.entries[k]
            ELSE [x.entries[k] EXCEPT !.type = CommonSubType(@, y.entries[k].type)]
        entries == [k \in DOMAIN x.entries \cup DOMAIN y.entries |-> Merged(k)]
    IN [entries |-> entries, unreachable |-> \E k \in both : entries[k].type = {}]

(* What the frames from index on say together, for break and continue. *)
MergeFramesForIndex(frames, index) ==
    LET above == SubSeq(frames, index, Len(frames))
        keys == {k \in Key : Holding(above, k) # {}}
    IN [entries |-> [k \in keys |-> above[Innermost(Holding(above, k))].entries[k]],
        unreachable |-> FALSE]

-----------------------------------------------------------------------------
(* Conditions: the frame of each outcome, and what evaluating the          *)
(* condition does to the analysis (a walrus is recorded in try frames).    *)

Opaque == [op |-> "opaque"]
True == [op |-> "true"]

(* The keys a condition tests ("is") or assigns ("walrus"). *)
RECURSIVE KeysOf(_, _)
KeysOf(t, op) == CASE t.op = op -> {t.key}
                   [] t.op = "not" -> KeysOf(t.arg, op)
                   [] t.op \in {"and", "or"} -> KeysOf(t.left, op) \cup KeysOf(t.right, op)
                   [] OTHER -> {}

(* A condition that tests a member of a name it assigns is left out. *)
ASSUME TestAssumption == \A t \in Test \cup LoopTest : \A k \in KeysOf(t, "walrus") :
                             KeysOf(t, "is") \cap MembersOf(k) = {}

RECURSIVE Guards(_, _)

(* isinstance(k, types) of a key whose type is a union of final classes *)
IsInstance(fa, k, types) ==
    LET now == TypeAt(fa.frames, k)
    IN [fa |-> fa, truthy |-> FromType(k, now \cap types),
                   falsey |-> FromType(k, now \ types)]

(* (k := ...) of a value that is neither always true nor always false: the *)
(* frame it was assigned in is copied into both outcomes.                  *)
Walrus(fa, k, t) ==
    LET saved == OverwriteEntry(Push(fa, Conditional), k, Assigned(t))
        frame == [entries |-> Top(saved).entries, unreachable |-> FALSE]
    IN [fa |-> Pop(saved), truthy |-> frame, falsey |-> frame]

(* The right operand is evaluated in the frame of the left one; without a  *)
(* right operand that is ever evaluated, default frames take its place.    *)
Conjunction(fa, left, right) ==
    LET l == Guards(fa, left) IN
    IF l.truthy.unreachable
    THEN [l EXCEPT !.falsey = MergeOr(l.fa, @, Conditional, TRUE)]
    ELSE LET r == Guards(Push(l.fa, l.truthy), right)
             done == Pop(r.fa)
         IN [fa |-> done, truthy |-> MergeAnd(Top(r.fa), r.truthy),
             falsey |-> MergeOr(done, l.falsey, r.falsey, TRUE)]

Disjunction(fa, left, right) ==
    LET l == Guards(fa, left) IN
    IF l.falsey.unreachable
    THEN [l EXCEPT !.truthy = MergeOr(l.fa, @, Conditional, TRUE)]
    ELSE LET r == Guards(Push(l.fa, l.falsey), right)
             done == Pop(r.fa)
         IN [fa |-> done, truthy |-> MergeOr(done, l.truthy, r.truthy, TRUE),
             falsey |-> MergeAnd(Top(r.fa), r.falsey)]

Guards(fa, t) ==
    CASE t.op = "opaque" ->
             [fa |-> fa, truthy |-> Conditional, falsey |-> Conditional]
      [] t.op = "true" ->
             [fa |-> fa, truthy |-> Conditional, falsey |-> NewUnreachable]
      [] t.op = "is" -> IsInstance(fa, t.key, t.type)
      [] t.op = "walrus" -> Walrus(fa, t.key, t.type)
      [] t.op = "not" ->
             LET g == Guards(fa, t.arg)
             IN [fa |-> g.fa, truthy |-> g.falsey, falsey |-> g.truthy]
      [] t.op = "and" -> Conjunction(fa, t.left, t.right)
      [] t.op = "or" -> Disjunction(fa, t.left, t.right)

-----------------------------------------------------------------------------
(* What Python computes: environments give every key a class. *)

Consistent(e) == \A m \in Member : (e[m] = Gone) <=> (e[Base[m]] = Gone)
Env == {e \in [Key -> Class \cup {Gone}] : Consistent(e)}

(* Assigning a name brings an object whose members are anything declared. *)
Assign(es, k, t) ==
    IF k \in Member
    THEN {[e EXCEPT ![k] = c] : e \in {x \in es : x[k] # Gone}, c \in t}
    ELSE UNION {{n \in Env : /\ n[k] \in t
                             /\ \A m \in MembersOf(k) : n[m] \in Declared[m]
                             /\ \A o \in Key \ ({k} \cup MembersOf(k)) : n[o] = e[o]}
                : e \in es}
Delete(es, k) == {[o \in Key |-> IF o = k \/ o \in MembersOf(k) THEN Gone ELSE e[o]]
                  : e \in {x \in es : x[k] # Gone}}

RECURSIVE Outcome(_, _, _)
Outcome(es, t, b) ==
    CASE t.op = "opaque" -> es
      [] t.op = "true" -> IF b THEN es ELSE {}
      [] t.op = "is" -> {e \in es : e[t.key] # Gone /\ (e[t.key] \in t.type <=> b)}
      [] t.op = "walrus" -> Assign(es, t.key, t.type)
      [] t.op = "not" -> Outcome(es, t.arg, ~b)
      [] t.op = "and" ->
             IF b THEN Outcome(Outcome(es, t.left, TRUE), t.right, TRUE)
             ELSE Outcome(es, t.left, FALSE)
                  \cup Outcome(Outcome(es, t.left, TRUE), t.right, FALSE)
      [] t.op = "or" ->
             IF b THEN Outcome(es, t.left, TRUE)
                       \cup Outcome(Outcome(es, t.left, FALSE), t.right, TRUE)
             ELSE Outcome(Outcome(es, t.left, FALSE), t.right, FALSE)

(* The environments in which evaluating a condition may raise. *)
RECURSIVE Raising(_, _)
Raising(es, t) ==
    CASE t.op \in {"opaque", "true", "is", "walrus"} -> es
      [] t.op = "not" -> Raising(es, t.arg)
      [] t.op \in {"and", "or"} ->
             Raising(es, t.left) \cup Raising(Outcome(es, t.left, t.op = "and"), t.right)

(* An exception may be raised before each statement: a try or with         *)
(* statement around it may go on from there.                               *)
Swallows(block) == block.kind \in {"try", "with"}
MayRaise(blocks, es) ==
    [i \in DOMAIN blocks |->
        IF Swallows(blocks[i])
        THEN [blocks[i] EXCEPT !.raised = @ \cup es] ELSE blocks[i]]

-----------------------------------------------------------------------------
(* Statements.  A statement in dead code is skipped, except in the         *)
(* language server (calc_stmts_diagnostics).                               *)

Unreachable == Top(flow).unreachable

Counted == /\ count < MaxStatement /\ count' = count + 1
           /\ gaps \subseteq Forgiven
Statement == Counted /\ (LanguageServer \/ ~Unreachable)

(* Known gaps: constructs for which the analysis is wrong.  gaps remembers *)
(* which of them the program has met; the README shows each of them.       *)
(*                                                                         *)
(* A name narrowed by a condition inside a try statement, then assigned    *)
(* there: the try frame unites the assignment with the narrowed type, and  *)
(* a handler no longer sees what the condition excluded.                   *)
GuardInTry(k) ==
    LET around == SelectSeq(open, Swallows) IN
    \E i \in DOMAIN around : /\ k \notin DOMAIN flow.tries[i]
                             /\ \E j \in Holding(flow.frames, k) : j >= around[i].start

(* A member with an entry in an outer frame, assigned in a frame that has  *)
(* an entry for its name, or under one that assigned its name: merges mix  *)
(* it with the outer entry, or drop it in favour of the outer entry.       *)
StaleIn(below, top, k) ==
    /\ Holding(below, k) # {} /\ {k, Base[k]} \subseteq DOMAIN top.entries
    /\ Rebinds(top, k) \/ top.entries[k].modifies_ancestors
StaleBelow(frames, k) ==
    \E i \in DOMAIN frames : /\ Rebinds(frames[i], k)
                            /\ Holding(frames, k) \cap (i .. Len(frames)) = {}
                            /\ Holding(frames, k) # {}
Modified(frames, i, k) ==
    /\ i \in DOMAIN frames /\ k \in DOMAIN frames[i].entries
    /\ frames[i].entries[k].modifies_ancestors
Dropped(k) ==
    LET i == Len(flow'.frames) IN
    /\ Modified(flow.frames, i, k)
    /\ ~Modified(flow'.frames, i, k) /\ ~Rebinds(Top(flow'), k)
    /\ Holding(Front(flow'.frames), k) # {}
StaleMember == \E k \in Member :
    Dropped(k) \/ StaleIn(Front(flow'.frames), Top(flow'), k)

Meets(guarded, stale) ==
    gaps' = gaps \cup (IF guarded THEN {"guard-in-try"} ELSE {})
                 \cup (IF stale \/ StaleMember THEN {"stale-member"} ELSE {})
Rebinding(k) == Meets(GuardInTry(k), StaleBelow(Front(flow.frames), k))
Testing(t) == Meets(\E k \in KeysOf(t, "walrus") : GuardInTry(k), FALSE)
Closing == Meets(FALSE, FALSE)

Simple(es) == /\ Statement /\ open' = MayRaise(open, es)

AssignStatement(k, t) ==
    /\ t \subseteq Declared[k]
    /\ Simple(envs)
    /\ flow' = OverwriteEntry(flow, k, Assigned(t))
    /\ envs' = Assign(envs, k, t)
    /\ Rebinding(k)

DelStatement(k) ==
    /\ k \in Name
    /\ Simple(envs)
    /\ flow' = OverwriteEntry(flow, k, Deleted)
    /\ envs' = Delete(envs, k)
    /\ Rebinding(k)

AssertStatement(t) ==
    LET g == Guards(flow, t) IN
    /\ Simple(Raising(envs, t) \cup Outcome(envs, t, FALSE))
    /\ flow' = OverwriteFrame(g.fa, g.truthy)
    /\ envs' = Outcome(envs, t, TRUE)
    /\ Testing(t)

(* return and raise: nothing follows; what was raised is in MayRaise. *)
LeaveStatement ==
    /\ Simple(envs)
    /\ flow' = MarkUnreachable(flow)
    /\ envs' = {}
    /\ UNCHANGED gaps

(* break and continue leave the innermost loop: the frames since it        *)
(* started are flattened into one.  A try statement left like this takes   *)
(* no finally block in the model (see the README).                         *)
NoLoop == [index |-> 0, breaks |-> <<>>, continues |-> <<>>,
           broken |-> {}, continued |-> {}]
(* Known gap: the flattened frame takes the innermost entry of a key.  If  *)
(* that is a narrowing of what the loop body assigned before, the frame no *)
(* longer says that the key was assigned.                                  *)
InLoop == SubSeq(flow.frames, flow.loop.index, Len(flow.frames))
NarrowedInLoop(k) ==
    LET is == {i \in Holding(flow.frames, k) : i >= flow.loop.index}
        Modifies(i) == flow.frames[i].entries[k].modifies_ancestors
    IN is # {} /\ ~Modifies(Innermost(is)) /\ \E i \in is : Modifies(i)

JumpStatement(isBreak) ==
    LET frame == MergeFramesForIndex(flow.frames, flow.loop.index)
        loop == IF isBreak
                THEN [flow.loop EXCEPT !.breaks = Append(@, frame), !.broken = @ \cup envs]
                ELSE [flow.loop EXCEPT !.continues = Append(@, frame),
                                       !.continued = @ \cup envs]
    IN /\ Statement
       /\ flow.loop # NoLoop
       /\ flow' = [MarkUnreachable(flow) EXCEPT !.loop = loop]
       /\ open' = [i \in DOMAIN open |->
                      [MayRaise(open, envs)[i] EXCEPT !.jumps = TRUE]]
       /\ envs' = {}
       /\ gaps' = gaps \cup
              (IF \E k \in Key : NarrowedInLoop(k) THEN {"narrowed-jump"} ELSE {}) \cup
              (IF \E k \in Member : \/ StaleBelow(InLoop, k)
                                    \/ StaleIn(SubSeq(flow.frames, 1, flow.loop.index - 1), frame, k)
               THEN {"stale-member"} ELSE {})

-----------------------------------------------------------------------------
(* Blocks.  An open block remembers the frames and environments it will be *)
(* merged with.                                                            *)

Block(kind) == [kind |-> kind, frame |-> Conditional, others |-> {},
                ok |-> NewUnreachable, passed |-> {},
                failed |-> NewUnreachable, handled |-> {},
                raised |-> {}, loop |-> NoLoop, test |-> Opaque, jumps |-> FALSE,
                start |-> Len(flow.frames) + 1]

Inner == Last(open)
Outer == Front(open)
Opens(block) == /\ Statement /\ Len(open) < MaxDepth
                /\ open' = Append(MayRaise(open, envs), block)
In(kinds) == open # <<>> /\ Inner.kind \in kinds

If(t) ==
    LET g == Guards(flow, t) IN
    /\ Opens([Block("if") EXCEPT !.frame = g.falsey, !.others = Outcome(envs, t, FALSE)])
    /\ flow' = Push(g.fa, g.truthy)
    /\ envs' = Outcome(envs, t, TRUE)
    /\ Testing(t)

Else ==
    /\ In({"if"})
    /\ open' = Append(Outer, [Inner EXCEPT !.kind = "else", !.frame = Top(flow),
                                           !.others = envs])
    /\ flow' = Push(Pop(flow), Inner.frame)
    /\ envs' = Inner.others
    /\ UNCHANGED <<count, gaps>>

EndIf ==
    /\ In({"else"})
    /\ open' = Outer
    /\ flow' = MergeConditional(Pop(flow), Inner.frame, Top(flow))
    /\ envs' = envs \cup Inner.others
    /\ Closing /\ UNCHANGED count

(* process_loop.  The body is analysed once, so it is executed at most     *)
(* once here.  A for loop is one whose condition tells nothing.            *)
Loop(t) ==
    LET g == Guards(flow, t) IN
    /\ Opens([Block("loop") EXCEPT !.frame = g.falsey, !.test = t,
                                   !.others = Outcome(envs, t, FALSE), !.loop = flow.loop])
    /\ flow' = [Push(g.fa, g.truthy) EXCEPT
                   !.loop = [NoLoop EXCEPT !.index = Len(flow.frames) + 1]]
    /\ envs' = Outcome(envs, t, TRUE)
    /\ Testing(t)

(* Known gap: what the condition excludes was computed before the body,    *)
(* and is taken to hold of what the body assigned.                         *)
Rewritten ==
    \E k \in KeysOf(Inner.test, "is"), f \in {Top(flow)} \cup Range(flow.loop.continues) :
        \/ k \in DOMAIN f.entries /\ f.entries[k].modifies_ancestors
        \/ Rebinds(f, k)

LoopElse ==
    LET popped == [Pop(flow) EXCEPT !.loop = Inner.loop]
        MergeContinue(x, y) == MergeOr(popped, x, y, FALSE)
        body == FoldLeft(MergeContinue, Top(flow), flow.loop.continues)
        after == MergeAnd(body, Inner.frame)
    IN /\ In({"loop"})
       /\ open' = Append(Outer, [Inner EXCEPT !.kind = "loopelse", !.loop = flow.loop])
       /\ flow' = Push(popped, MergeOr(popped, Inner.frame, after, FALSE))
       /\ envs' = Inner.others
                   \cup Outcome(envs \cup flow.loop.continued, Inner.test, FALSE)
       /\ gaps' = gaps \cup IF Rewritten THEN {"loop-condition"} ELSE {}
       /\ UNCHANGED count

EndLoop ==
    LET popped == Pop(flow)
        MergeBreak(x, y) == MergeOr(popped, x, y, FALSE)
        after == FoldLeft(MergeBreak, Top(flow), Inner.loop.breaks)
    IN /\ In({"loopelse"})
       /\ open' = Outer
       /\ flow' = MergeConditional(popped, after, NewUnreachable)
       /\ envs' = envs \cup Inner.loop.broken
       /\ Closing /\ UNCHANGED count

Try ==
    /\ Opens(Block("try"))
    /\ flow' = [Push(flow, Conditional) EXCEPT !.tries = Append(@, NoEntries)]
    /\ UNCHANGED <<envs, gaps>>

(* The first except clause closes the try block, a later one the clause    *)
(* before it.  Every handler starts from what the try block may have done. *)
HandlersMerged == MergeOr(Pop(flow), Top(flow), Inner.failed, FALSE)

Except ==
    /\ Counted /\ In({"try", "except"})
    /\ IF Inner.kind = "try"
       THEN LET frame == [entries |-> Last(flow.tries), unreachable |-> FALSE] IN
            /\ open' = Append(Outer, [Inner EXCEPT !.kind = "except", !.ok = Top(flow),
                                                   !.passed = envs, !.frame = frame])
            /\ flow' = [Push(Pop(flow), frame) EXCEPT !.tries = Front(@)]
       ELSE /\ open' = Append(Outer, [Inner EXCEPT !.failed = HandlersMerged,
                                                   !.handled = @ \cup envs])
            /\ flow' = Push(Pop(flow), Inner.frame)
    /\ envs' = Inner.raised
    /\ UNCHANGED gaps

(* The else block runs on top of the frame of the try block, and only what *)
(* it does itself is kept.                                                 *)
TryElse ==
    /\ Counted /\ In({"except"})
    /\ open' = Append(Outer, [Inner EXCEPT !.kind = "tryelse",
                                           !.failed = HandlersMerged,
                                           !.handled = @ \cup envs])
    /\ flow' = Push(Push(Pop(flow), Inner.ok),
                    IF Inner.ok.unreachable THEN NewUnreachable ELSE Conditional)
    /\ envs' = Inner.passed
    /\ gaps' = gaps \cup IF Inner.ok.entries # NoEntries THEN {"try-else"} ELSE {}

(* The frame of a try block without else, merged with no way to an else     *)
(* block: a block that ends dead leaves no entries.                         *)
TryOk(frame) == MergeOr(Pop(flow), frame, NewUnreachable, FALSE)

TryFrameKept ==
    CASE Inner.kind = "try" -> MergeConditional(Pop(flow), TryOk(Top(flow)), NewUnreachable)
      [] Inner.kind = "except" ->
             MergeConditional(Pop(flow), TryOk(Inner.ok), HandlersMerged)
      [] Inner.kind = "tryelse" ->
             MergeConditional(Pop(Pop(flow)), Top(flow), Inner.failed)

TryMerged ==
    CASE Inner.kind = "try" ->
             MergeConditional([Pop(flow) EXCEPT !.tries = Front(@)], TryOk(Top(flow)),
                              NewUnreachable)
      [] Inner.kind = "except" ->
             MergeConditional(Pop(flow), TryOk(Inner.ok), HandlersMerged)
      [] Inner.kind = "tryelse" ->
             MergeConditional(Pop(Pop(flow)),
                 MergeOr(Pop(flow), NewUnreachable, Top(flow), FALSE), Inner.failed)

TryPassed == IF Inner.kind = "tryelse" THEN envs \cup Inner.handled
             ELSE envs \cup Inner.handled \cup Inner.passed

EndTry ==
    /\ In({"except", "tryelse"})
    /\ open' = Outer /\ flow' = TryMerged /\ envs' = TryPassed
    /\ Closing /\ UNCHANGED count

(* The finally block is analysed once, for executions that get past the    *)
(* statement, and as reachable even when nothing does.                     *)
Finally ==
    /\ Counted /\ In({"try", "except", "tryelse"}) /\ ~Inner.jumps
    /\ open' = Append(Outer, [Block("finally") EXCEPT
                                 !.frame.unreachable = Top(TryMerged).unreachable])
    /\ flow' = SetTop(TryMerged, [Top(TryMerged) EXCEPT !.unreachable = FALSE])
    /\ envs' = TryPassed
    /\ Closing

EndFinally ==
    /\ In({"finally"})
    /\ open' = Outer
    /\ flow' = IF Inner.frame.unreachable THEN MarkUnreachable(flow) ELSE flow
    /\ UNCHANGED <<envs, count, gaps>>

(* A context manager that may swallow exceptions. *)
With ==
    /\ Opens(Block("with"))
    /\ flow' = [Push(flow, Conditional) EXCEPT !.tries = Append(@, NoEntries)]
    /\ UNCHANGED <<envs, gaps>>

EndWith ==
    /\ In({"with"})
    /\ open' = Outer
    /\ flow' = OverwriteEntries([Pop(flow) EXCEPT !.tries = Front(@)], Last(flow.tries), FALSE)
    /\ envs' = envs \cup Inner.raised
    /\ Closing /\ UNCHANGED count

-----------------------------------------------------------------------------
Init ==
    /\ flow = [frames |-> <<[entries |-> [k \in Name |-> Assigned(Declaration)],
                             unreachable |-> FALSE]>>,
               tries |-> <<>>, loop |-> NoLoop]
    /\ open = <<>>
    /\ envs = {e \in Env : \A k \in Key : e[k] \in Declared[k]}
    /\ count = 0
    /\ gaps = {}

Next ==
    \/ \E k \in Key, t \in Value : AssignStatement(k, t)
    \/ \E k \in Name : DelStatement(k)
    \/ \E t \in Test : AssertStatement(t) \/ If(t)
    \/ LeaveStatement
    \/ \E b \in BOOLEAN : JumpStatement(b)
    \/ \E t \in LoopTest : Loop(t)
    \/ Else \/ EndIf \/ LoopElse \/ EndLoop
    \/ Try \/ Except \/ TryElse \/ EndTry \/ Finally \/ EndFinally
    \/ With \/ EndWith

Spec == Init /\ [][Next]_vars

-----------------------------------------------------------------------------
Entry(e) == /\ e.type = Declaration \/ e.type \subseteq Class
            /\ e.modifies_ancestors \in BOOLEAN /\ e.deleted \in BOOLEAN
Entries(es) == DOMAIN es \subseteq Key /\ \A k \in DOMAIN es : Entry(es[k])

(* The frames and try frames that are open are those of the open blocks.   *)
FramesOf(block) == CASE block.kind = "finally" -> 0
                     [] block.kind = "tryelse" -> 2
                     [] OTHER -> 1
TypeOK ==
    /\ Len(flow.frames) = FoldLeft(LAMBDA n, b : n + FramesOf(b), 1, open)
    /\ Len(flow.tries) = Len(SelectSeq(open, Swallows))
    /\ \A i \in DOMAIN flow.frames : /\ Entries(flow.frames[i].entries)
                                     /\ flow.frames[i].unreachable \in BOOLEAN
    /\ \A i \in DOMAIN flow.tries : Entries(flow.tries[i])
    /\ envs \subseteq Env
    /\ count \in 0 .. MaxStatement

(* At no point does the analysis take a readable key to have a type that   *)
(* an execution reaching the point contradicts, or to be deleted.          *)
Agrees(e, k) == LET entry == Lookup(flow.frames, k)
                IN ~entry.deleted /\ e[k] \in TypeAt(flow.frames, k)
Sound == gaps \subseteq Forgiven =>
             \A e \in envs, k \in Key : e[k] # Gone => Agrees(e, k)

(* Code is called unreachable only if no execution arrives there. *)
DeadIsDead == gaps \subseteq Forgiven /\ Unreachable => envs = {}
=============================================================================
