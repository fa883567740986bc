------------------------- MODULE BacktrackingProofs -------------------------
(* That the buffered tokenizer implements the stream with marks, for every   *)
(* kind of tokens and every length of the input.                             *)
EXTENDS Backtracking, TLAPS

Buffer == [tokens : Seq(Tokens), next : Nat, recording : BOOLEAN]

TypeOK ==
  /\ buf \in Buffer
  /\ read \in Seq(Tokens) /\ out \in Seq(Tokens)
  /\ marks \in SUBSET Nat /\ ended \in BOOLEAN

(* The buffer is what was read last. *)
BufferIsTail ==
  /\ Len(buf.tokens) <= Len(read)
  /\ \A k \in 1..Len(buf.tokens) : buf.tokens[k] = read[Base + k]

(* Where the parser may go back to is in the buffer, and is kept there. *)
MarksKept ==
  /\ \A m \in marks : m < Len(buf.tokens)
  /\ marks # {} => buf.recording
  /\ buf.tokens = <<>> => ~buf.recording
  /\ buf.next > Len(buf.tokens) /\ buf.tokens # <<>> => ended

(* The token in hand is the one before the position. *)
InHand ==
  out # <<>> => /\ out = <<read[Pos]>> /\ Pos >= 1
                /\ buf.tokens # <<>> => buf.next >= 1 /\ buf.next <= Len(buf.tokens)

IInv == TypeOK /\ BufferIsTail /\ MarksKept /\ InHand

(* The tokenizer starts with an empty buffer and no marks.                 *)
LEMMA InitIInv == Init => IInv
<1> SUFFICES ASSUME Init PROVE IInv
  OBVIOUS
<1>1. /\ buf.tokens = <<>> /\ buf.next = 0 /\ buf.recording = FALSE
      /\ buf = [tokens |-> <<>>, next |-> 0, recording |-> FALSE]
      /\ read = <<>> /\ out = <<>> /\ marks = {} /\ ended = FALSE
  BY DEF Init, Empty
<1>2. TypeOK
  <2>1. ended \in BOOLEAN
    BY <1>1
  <2>2. buf \in Buffer
    BY <1>1 DEF Buffer
  <2> QED BY <1>1, <2>1, <2>2 DEF TypeOK
<1>3. BufferIsTail /\ MarksKept /\ InHand
  BY <1>1 DEF BufferIsTail, MarksKept, InHand
<1> QED BY <1>2, <1>3 DEF IInv

(* The values of a buffer, and a token appended to a sequence. *)
LEMMA Fields ==
  ASSUME TypeOK
  PROVE  /\ buf \in Buffer
         /\ buf.tokens \in Seq(Tokens) /\ buf.next \in Nat /\ buf.recording \in BOOLEAN
         /\ Len(buf.tokens) \in Nat /\ (buf.tokens = <<>> <=> Len(buf.tokens) = 0)
         /\ Len(read) \in Nat
BY DEF TypeOK, Buffer

(* A buffer from its parts.                                                *)
LEMMA BufferType ==
  ASSUME NEW s \in Seq(Tokens), NEW n \in Nat, NEW r \in BOOLEAN
  PROVE  [tokens |-> s, next |-> n, recording |-> r] \in Buffer
BY DEF Buffer

(* What appending one token does to a sequence of them.                    *)
LEMMA Extended ==
  ASSUME NEW s \in Seq(Tokens), NEW t \in Tokens
  PROVE  /\ s \o <<t>> \in Seq(Tokens) /\ s \o <<>> = s /\ s \o <<t>> = Append(s, t)
         /\ Len(s \o <<t>>) = Len(s) + 1 /\ (s \o <<t>>)[Len(s) + 1] = t
         /\ \A k \in 1..Len(s) : (s \o <<t>>)[k] = s[k]
OBVIOUS

(* The position, in and behind the buffer. *)
LEMMA Positions ==
  ASSUME IInv
  PROVE  /\ Base \in Nat /\ Base + Len(buf.tokens) = Len(read) /\ Pos \in 0..Len(read)
         /\ buf.tokens # <<>> /\ buf.next <= Len(buf.tokens) => Pos = Base + buf.next
         /\ buf.tokens = <<>> \/ buf.next >= Len(buf.tokens) => Pos = Len(read)
         /\ \A k \in 1..Len(buf.tokens) : buf.tokens[k] \in Tokens /\ buf.tokens[k] = read[Base + k]
<1>1. Len(buf.tokens) <= Len(read)
  BY DEF IInv, BufferIsTail
<1>2. Base \in Nat /\ Base + Len(buf.tokens) = Len(read)
  BY <1>1, Fields DEF IInv, Base
<1>3. \A k \in 1..Len(buf.tokens) : buf.tokens[k] \in Tokens
  BY Fields DEF IInv
<1>4. \A k \in 1..Len(buf.tokens) : buf.tokens[k] = read[Base + k]
  BY DEF IInv, BufferIsTail
<1> QED BY <1>2, <1>3, <1>4, Fields DEF IInv, Pos

(* Reading a token that is in the buffer only moves within it.             *)
LEMMA KeptKeepsIInv == IInv /\ ReadKept => IInv'
<1> SUFFICES ASSUME IInv, ReadKept PROVE IInv'
  OBVIOUS
<1>0. TypeOK /\ buf \in Buffer
  BY DEF IInv, TypeOK
<1>1. /\ ~Exhausted(buf) /\ buf' = [buf EXCEPT !.next = buf.next + 1]
      /\ out' = <<buf.tokens[buf.next + 1]>> /\ UNCHANGED <<read, marks, ended>>
  BY DEF ReadKept, NextKept
<1>2. buf.next < Len(buf.tokens)
  BY <1>0, <1>1, Fields DEF Exhausted
<1>3. /\ buf'.tokens = buf.tokens /\ buf'.next = buf.next + 1
      /\ buf'.recording = buf.recording /\ buf' \in Buffer
  <2>1. buf.tokens \in Seq(Tokens) /\ buf.next + 1 \in Nat /\ buf.recording \in BOOLEAN
    BY <1>0, Fields
  <2>2. buf' = [tokens |-> buf.tokens, next |-> buf.next + 1,
                recording |-> buf.recording]
    BY <1>0, <1>1 DEF Buffer
  <2>3. buf' \in Buffer
    BY <2>1, <2>2, BufferType, Zenon
  <2> QED BY <2>2, <2>3
<1>4. /\ buf.tokens[buf.next + 1] \in Tokens
      /\ buf.tokens[buf.next + 1] = read[Base + (buf.next + 1)]
  BY <1>0, <1>2, Fields, Positions
<1>5. TypeOK'
  BY <1>0, <1>1, <1>3, <1>4 DEF TypeOK
<1>6. Base' = Base
  BY <1>1, <1>3 DEF Base
<1>7. BufferIsTail' /\ MarksKept'
  BY <1>0, <1>1, <1>2, <1>3, <1>6, Fields DEF IInv, BufferIsTail, MarksKept
<1>8. Pos' = Base + (buf.next + 1) /\ Pos' >= 1
  BY <1>0, <1>1, <1>2, <1>3, <1>6, Fields, Positions DEF Pos
<1>9. InHand'
  BY <1>0, <1>1, <1>2, <1>3, <1>4, <1>8, Fields DEF InHand
<1> QED BY <1>5, <1>7, <1>9 DEF IInv

(* Reading a new token appends it to the buffer while something is         *)
(* recorded, and drops the buffer otherwise.                               *)
LEMMA FreshKeepsIInv == IInv /\ ReadFresh => IInv'
<1> SUFFICES ASSUME IInv, ReadFresh PROVE IInv'
  OBVIOUS
<1>0. TypeOK /\ buf \in Buffer /\ read \in Seq(Tokens)
  BY DEF IInv, TypeOK
<1>1. PICK t \in Tokens : /\ buf' = NextFresh(buf, <<t>>)
                          /\ read' = Append(read, t)
                          /\ out' = <<t>>
  BY DEF ReadFresh
<1>2. UNCHANGED <<marks, ended>> /\ buf.next >= Len(buf.tokens) /\ ~ended
  BY <1>0, Fields DEF ReadFresh, Exhausted
<1>3. /\ Len(read') = Len(read) + 1 /\ read' \in Seq(Tokens) /\ out' \in Seq(Tokens)
      /\ read'[Len(read) + 1] = t /\ \A k \in 1..Len(read) : read'[k] = read[k]
  BY <1>0, <1>1
<1>4. CASE ~buf.recording
  <2>1. buf'.tokens = <<>> /\ buf'.recording = FALSE /\ buf' \in Buffer
    <3>1. CASE buf.tokens = <<>>
      BY <1>0, <1>1, <1>4, <3>1, Fields DEF NextFresh
    <3>2. CASE buf.tokens # <<>>
      <4>1. buf' = [buf EXCEPT !.next = 0, !.tokens = <<>>]
        BY <1>1, <1>4, <3>2 DEF NextFresh
      <4>2. <<>> \in Seq(Tokens) /\ 0 \in Nat
        OBVIOUS
      <4> QED BY <1>0, <1>4, <4>1, <4>2 DEF Buffer
    <3> QED BY <3>1, <3>2
  <2>2. marks' = {} /\ ended' = ended
    BY <1>2, <1>4 DEF IInv, MarksKept
  <2>3. TypeOK'
    BY <1>0, <1>2, <1>3, <2>1, <2>2 DEF TypeOK
  <2>4. BufferIsTail' /\ MarksKept'
    BY <1>0, <1>3, <2>1, <2>2, Fields DEF BufferIsTail, MarksKept
  <2>5. Pos' = Len(read) + 1
    BY <1>3, <2>1 DEF Pos
  <2>6. InHand'
    BY <1>0, <1>1, <1>3, <2>1, <2>5, Fields DEF InHand
  <2> QED BY <2>3, <2>4, <2>6 DEF IInv
<1>5. CASE buf.recording
  <2> DEFINE ts == buf.tokens \o <<t>>
  <2>1. buf.tokens # <<>> /\ buf.next = Len(buf.tokens)
    BY <1>0, <1>2, <1>5, Fields DEF IInv, MarksKept
  <2>2. buf' = [buf EXCEPT !.next = buf.next + 1, !.tokens = ts]
    BY <1>1, <1>5, <2>1 DEF NextFresh
  <2>3. /\ ts \in Seq(Tokens) /\ ts # <<>> /\ Len(ts) = Len(buf.tokens) + 1
        /\ ts[Len(buf.tokens) + 1] = t /\ \A k \in 1..Len(buf.tokens) : ts[k] = buf.tokens[k]
    BY <1>0, Fields, Extended
  <2> HIDE DEF ts
  <2>4. /\ buf'.tokens = ts /\ buf'.next = buf.next + 1 /\ buf'.recording = buf.recording
        /\ buf' \in Buffer
    <3>1. buf.next + 1 \in Nat
      BY <1>0, Fields
    <3> QED BY <1>0, <2>2, <2>3, <3>1 DEF Buffer
  <2>5. TypeOK'
    BY <1>0, <1>2, <1>3, <2>4 DEF TypeOK
  <2>6. Base' = Base
    <3>1. Len(buf'.tokens) = Len(buf.tokens) + 1
      BY <2>3, <2>4
    <3> QED BY <1>0, <1>3, <3>1, Fields DEF Base
  <2>7. BufferIsTail'
    <3>1. ASSUME NEW k \in 1..Len(buf.tokens) PROVE ts[k] = read'[Base + k]
      <4>1. Base + k \in 1..Len(read) /\ buf.tokens[k] = read[Base + k]
        BY <1>0, Fields, Positions
      <4> QED BY <1>3, <2>3, <4>1
    <3>2. ts[Len(buf.tokens) + 1] = read'[Base + (Len(buf.tokens) + 1)]
      <4>1. Base \in Nat /\ Len(buf.tokens) \in Nat /\ Base + Len(buf.tokens) = Len(read)
        BY <1>0, Fields, Positions
      <4>2. Base + (Len(buf.tokens) + 1) = Len(read) + 1
        BY <4>1
      <4> QED BY <1>3, <2>3, <4>2
    <3>3. \A k \in 1..(Len(buf.tokens) + 1) : ts[k] = read'[Base + k]
      BY <1>0, <3>1, <3>2, Fields
    <3>4. Len(buf'.tokens) = Len(buf.tokens) + 1 /\ Len(buf'.tokens) <= Len(read')
      BY <1>0, <1>3, <2>3, <2>4, Fields, Positions
    <3> QED BY <2>4, <2>6, <3>3, <3>4 DEF BufferIsTail
  <2>8. MarksKept'
    BY <1>0, <1>2, <1>5, <2>1, <2>3, <2>4, Fields DEF IInv, TypeOK, MarksKept
  <2>9. Pos' = Len(read) + 1
    <3>1. /\ Len(buf'.tokens) = Len(buf.tokens) + 1 /\ buf'.next = Len(buf.tokens) + 1
          /\ buf'.tokens # <<>>
      BY <2>1, <2>3, <2>4
    <3>2. Base + (Len(buf.tokens) + 1) = Len(read) + 1
      <4>1. Base \in Nat /\ Len(buf.tokens) \in Nat /\ Base + Len(buf.tokens) = Len(read)
        BY <1>0, Fields, Positions
      <4> QED BY <4>1
    <3> QED BY <1>0, <1>3, <2>6, <3>1, <3>2, Fields DEF Pos
  <2>10. InHand'
    BY <1>0, <1>1, <1>3, <2>1, <2>3, <2>4, <2>9, Fields DEF InHand
  <2> QED BY <2>5, <2>7, <2>8, <2>10 DEF IInv
<1> QED BY <1>4, <1>5

(* At the end of the input nothing is read, and the buffer is kept while   *)
(* something is recorded.                                                  *)
LEMMA EndKeepsIInv == IInv /\ ReadEnd => IInv'
<1> SUFFICES ASSUME IInv, ReadEnd PROVE IInv'
  OBVIOUS
<1>0. TypeOK /\ buf \in Buffer
  BY DEF IInv, TypeOK
<1>1. /\ buf' = NextFresh(buf, <<>>) /\ out' = <<>> /\ ended' = TRUE
      /\ UNCHANGED <<read, marks>>
  BY DEF ReadEnd
<1>2. CASE buf.recording
  <2>1. buf' = [buf EXCEPT !.next = buf.next + 1, !.tokens = buf.tokens \o <<>>]
    BY <1>1, <1>2 DEF NextFresh, IInv, MarksKept
  <2>2. buf.tokens \o <<>> = buf.tokens
    BY <1>0, Fields
  <2>3. buf' = [buf EXCEPT !.next = buf.next + 1, !.tokens = buf.tokens]
    BY <2>1, <2>2
  <2>4. buf'.tokens = buf.tokens /\ buf'.recording = buf.recording /\ buf' \in Buffer
    <3>1. buf.next + 1 \in Nat /\ buf.tokens \in Seq(Tokens)
      BY <1>0, Fields
    <3> QED BY <1>0, <2>3, <3>1 DEF Buffer
  <2>5. TypeOK'
    <3>1. ended' \in BOOLEAN
      BY <1>1
    <3> QED BY <1>0, <1>1, <2>4, <3>1 DEF TypeOK
  <2>6. Base' = Base
    BY <1>1, <2>4 DEF Base
  <2>7. BufferIsTail' /\ MarksKept' /\ InHand'
    BY <1>1, <2>4, <2>6 DEF IInv, BufferIsTail, MarksKept, InHand
  <2> QED BY <2>5, <2>7 DEF IInv
<1>3. CASE ~buf.recording
  <2>1. buf'.tokens = <<>> /\ buf'.recording = FALSE /\ buf' \in Buffer
    <3>1. CASE buf.tokens = <<>>
      BY <1>0, <1>1, <1>3, <3>1, Fields DEF NextFresh
    <3>2. CASE buf.tokens # <<>>
      <4>1. buf' = [buf EXCEPT !.next = 0, !.tokens = <<>>]
        BY <1>1, <1>3, <3>2 DEF NextFresh
      <4>2. <<>> \in Seq(Tokens) /\ 0 \in Nat
        OBVIOUS
      <4> QED BY <1>0, <1>3, <4>1, <4>2 DEF Buffer
    <3> QED BY <3>1, <3>2
  <2>2. marks' = {}
    BY <1>1, <1>3 DEF IInv, MarksKept
  <2>3. TypeOK'
    BY <1>0, <1>1, <2>1, <2>2 DEF TypeOK
  <2>4. BufferIsTail' /\ MarksKept' /\ InHand'
    BY <1>0, <1>1, <2>1, <2>2, Fields DEF BufferIsTail, MarksKept, InHand
  <2> QED BY <2>3, <2>4 DEF IInv
<1> QED BY <1>2, <1>3

(* Starting to record puts the token in hand into the buffer and marks     *)
(* it.                                                                     *)
LEMMA StartKeepsIInv == IInv /\ Start => IInv'
<1> SUFFICES ASSUME IInv, Start PROVE IInv'
  OBVIOUS
<1>0. TypeOK /\ buf \in Buffer /\ read \in Seq(Tokens) /\ out \in Seq(Tokens)
  BY DEF IInv, TypeOK
<1>1. /\ out # <<>> /\ buf' = Started(buf, out[1]) /\ marks' = marks \cup {StartIndex(buf)}
      /\ UNCHANGED <<read, out, ended>>
  BY DEF Start
<1>2. /\ out = <<read[Pos]>> /\ Pos >= 1
      /\ buf.tokens # <<>> => buf.next >= 1 /\ buf.next <= Len(buf.tokens)
  BY <1>1 DEF IInv, InHand
<1>3. CASE buf.tokens = <<>>
  <2>1. Pos = Len(read) /\ Len(read) >= 1 /\ out[1] = read[Len(read)] /\ out[1] \in Tokens
    BY <1>0, <1>2, <1>3, Fields DEF Pos
  <2>2. buf' = [tokens |-> <<out[1]>>, next |-> 1, recording |-> TRUE]
    BY <1>1, <1>3 DEF Started
  <2>3. /\ buf'.tokens = <<out[1]>> /\ buf'.next = 1 /\ buf'.recording = TRUE
        /\ buf' \in Buffer
    <3>1. <<out[1]>> \in Seq(Tokens)
      BY <2>1
    <3>2. buf' \in Buffer
      BY <2>2, <3>1, BufferType, Zenon
    <3> QED BY <2>2, <3>2
  <2>4. marks' = {0}
    BY <1>1, <1>3 DEF IInv, MarksKept, StartIndex
  <2>5. Len(buf'.tokens) = 1 /\ buf'.tokens[1] = read[Len(read)] /\ buf'.tokens # <<>>
    BY <2>1, <2>3
  <2>6. TypeOK'
    <3>1. marks' \in SUBSET Nat
      BY <2>4
    <3> QED BY <1>0, <1>1, <2>3, <3>1 DEF TypeOK
  <2>7. Base' = Len(read) - 1
    BY <1>0, <1>1, <2>5 DEF Base
  <2>8. BufferIsTail' /\ MarksKept'
    BY <1>0, <1>1, <2>1, <2>3, <2>4, <2>5, <2>7, Fields DEF BufferIsTail, MarksKept
  <2>9. Pos' = Len(read)
    BY <1>0, <1>1, <2>3, <2>5, <2>7, Fields DEF Pos
  <2>10. InHand'
    BY <1>1, <1>2, <2>1, <2>3, <2>5, <2>9 DEF InHand
  <2> QED BY <2>6, <2>8, <2>10 DEF IInv
<1>4. CASE buf.tokens # <<>>
  <2>1. buf' = [buf EXCEPT !.recording = TRUE] /\ StartIndex(buf) = buf.next - 1
    BY <1>1, <1>4 DEF Started, StartIndex
  <2>2. /\ buf'.tokens = buf.tokens /\ buf'.next = buf.next /\ buf'.recording = TRUE
        /\ buf' \in Buffer
    BY <1>0, <2>1 DEF Buffer
  <2>3. StartIndex(buf) \in Nat /\ StartIndex(buf) < Len(buf.tokens)
    BY <1>0, <1>2, <1>4, <2>1, Fields
  <2>4. TypeOK'
    BY <1>0, <1>1, <2>2, <2>3 DEF TypeOK
  <2>5. Base' = Base /\ Pos' = Pos
    BY <1>1, <2>2 DEF Base, Pos
  <2>6. BufferIsTail' /\ MarksKept'
    BY <1>0, <1>1, <1>4, <2>2, <2>3, <2>5, Fields DEF IInv, BufferIsTail, MarksKept
  <2>7. InHand'
    BY <1>1, <1>2, <2>2, <2>5 DEF InHand
  <2> QED BY <2>4, <2>6, <2>7 DEF IInv
<1> QED BY <1>3, <1>4

(* Stopping and going back only move within the buffer.                    *)
LEMMA OthersKeepIInv == IInv /\ (Stop \/ Reset \/ ResetToLastLeaf \/ UNCHANGED vars) => IInv'
<1> SUFFICES ASSUME IInv, Stop \/ Reset \/ ResetToLastLeaf \/ UNCHANGED vars PROVE IInv'
  OBVIOUS
<1>0. TypeOK /\ buf \in Buffer
  BY DEF IInv, TypeOK
<1>1. CASE Stop
  <2>1. buf' = [buf EXCEPT !.recording = FALSE] /\ marks' = {} /\ UNCHANGED <<read, out, ended>>
    BY <1>1 DEF Stop, Stopped
  <2>2. /\ buf'.tokens = buf.tokens /\ buf'.next = buf.next /\ buf'.recording = FALSE
        /\ buf' \in Buffer
    BY <1>0, <2>1 DEF Buffer
  <2>3. TypeOK'
    BY <1>0, <2>1, <2>2 DEF TypeOK
  <2>4. Base' = Base /\ Pos' = Pos
    BY <2>1, <2>2 DEF Base, Pos
  <2>5. BufferIsTail' /\ MarksKept' /\ InHand'
    BY <2>1, <2>2, <2>4 DEF IInv, BufferIsTail, MarksKept, InHand
  <2> QED BY <2>3, <2>5 DEF IInv
<1>2. CASE Reset \/ ResetToLastLeaf
  <2>1. PICK i \in Nat : i <= Len(buf.tokens) /\ buf' = ResetTo(buf, i)
    <3>1. CASE Reset
      BY <1>0, <3>1, Fields DEF Reset, IInv, TypeOK, MarksKept
    <3>2. CASE ResetToLastLeaf
      BY <1>0, <3>2, Fields DEF ResetToLastLeaf
    <3> QED BY <1>2, <3>1, <3>2
  <2>2. marks # {} /\ out' = <<>> /\ UNCHANGED <<read, marks, ended>>
    BY <1>2 DEF Reset, ResetToLastLeaf
  <2>3. buf' = [buf EXCEPT !.next = i]
    BY <2>1 DEF ResetTo
  <2>4. /\ buf'.tokens = buf.tokens /\ buf'.next = i /\ buf'.recording = buf.recording
        /\ buf' \in Buffer
    BY <1>0, <2>3 DEF Buffer
  <2>5. TypeOK'
    BY <1>0, <2>2, <2>4 DEF TypeOK
  <2>6. Base' = Base
    BY <2>2, <2>4 DEF Base
  <2>7. BufferIsTail' /\ MarksKept' /\ InHand'
    BY <1>0, <2>1, <2>2, <2>4, <2>6, Fields DEF IInv, BufferIsTail, MarksKept, InHand
  <2> QED BY <2>5, <2>7 DEF IInv
<1>3. CASE UNCHANGED vars
  BY <1>3 DEF vars, IInv, TypeOK, BufferIsTail, MarksKept, InHand, Base, Pos
<1> QED BY <1>1, <1>2, <1>3

(* Every step keeps the invariant.                                         *)
LEMMA StepKeepsIInv == IInv /\ [Next]_vars => IInv'
BY KeptKeepsIInv, FreshKeepsIInv, EndKeepsIInv, StartKeepsIInv, OthersKeepIInv DEF Next

(* The buffer holds what was read last and every mark lies in it while it    *)
(* records: no reset can go behind what is kept (backtracking.rs:34).        *)
THEOREM BufferInvariant == Spec => []IInv
<1>1. IInv /\ [Next]_vars => IInv'
  BY StepKeepsIInv
<1> QED BY InitIInv, <1>1, PTL DEF Spec
-----------------------------------------------------------------------------
(* The tokenizer starts where the stream does.                             *)
LEMMA InitRefines == Init => Stream!Init
<1> SUFFICES ASSUME Init PROVE Stream!Init
  OBVIOUS
<1>1. buf.tokens = <<>> /\ read = <<>> /\ out = <<>> /\ marks = {}
  BY DEF Init, Empty
<1>2. Pos = 0
  BY <1>1 DEF Pos
<1> QED BY <1>1, <1>2 DEF Stream!Init

(* Reading moves the position on by one, and only a step that leaves a       *)
(* buffer behind moves its base.                                             *)
LEMMA StepRefines == IInv /\ IInv' /\ [Next]_vars => [Stream!Next]_(Stream!vars)
<1> SUFFICES ASSUME IInv, IInv', [Next]_vars PROVE [Stream!Next]_(Stream!vars)
  OBVIOUS
<1> DEFINE abs == {Base + m : m \in marks}
<1>0. /\ TypeOK /\ TypeOK' /\ buf \in Buffer /\ buf' \in Buffer
      /\ buf.recording \in BOOLEAN /\ read \in Seq(Tokens)
      /\ (marks # {} => buf.recording) /\ (buf.recording => buf.tokens # <<>>)
  BY Fields DEF IInv, TypeOK, MarksKept
<1>1. CASE ReadKept
  <2>1. /\ ~Exhausted(buf) /\ buf' = [buf EXCEPT !.next = buf.next + 1]
        /\ out' = <<buf.tokens[buf.next + 1]>> /\ UNCHANGED <<read, marks>>
    BY <1>1 DEF ReadKept, NextKept
  <2>2. buf.next < Len(buf.tokens) /\ buf.tokens # <<>>
    BY <1>0, <2>1, Fields DEF Exhausted
  <2>3. buf'.tokens = buf.tokens /\ buf'.next = buf.next + 1
    BY <1>0, <2>1 DEF Buffer
  <2>4. Base' = Base
    BY <2>1, <2>3 DEF Base
  <2>5. Pos = Base + buf.next /\ Pos' = Pos + 1 /\ Pos < Len(read)
    <3>1. /\ Base \in Nat /\ buf.next \in Nat /\ Len(buf.tokens) \in Nat
          /\ Base + Len(buf.tokens) = Len(read)
      BY <1>0, Fields, Positions DEF Base
    <3>2. Pos = Base + buf.next
      BY <2>2, <3>1 DEF Pos
    <3>3. Pos' = Base' + buf'.next
      BY <2>2, <2>3, <3>1 DEF Pos
    <3> QED BY <2>2, <2>3, <2>4, <3>1, <3>2, <3>3
  <2>6. out' = <<read[Pos + 1]>>
    <3>1. buf.next + 1 \in 1..Len(buf.tokens) /\ Pos + 1 = Base + (buf.next + 1)
      <4>1. Base \in Nat /\ Len(buf.tokens) \in Nat /\ buf.next \in Nat
        BY <1>0, Fields, Positions
      <4> QED BY <2>2, <2>5, <4>1
    <3>2. buf.tokens[buf.next + 1] = read[Pos + 1]
      BY <3>1, Positions
    <3> QED BY <2>1, <3>2
  <2>7. abs' = abs
    BY <2>1, <2>4
  <2> QED BY <2>1, <2>5, <2>6, <2>7 DEF Stream!Again, Stream!Next
<1>2. CASE ReadFresh
  <2>1. PICK t \in Tokens : /\ buf' = NextFresh(buf, <<t>>)
                            /\ read' = Append(read, t)
                            /\ out' = <<t>>
    BY <1>2 DEF ReadFresh
  <2>2. UNCHANGED marks /\ buf.next >= Len(buf.tokens)
    BY <1>0, <1>2, Fields DEF ReadFresh, Exhausted
  <2>3. Pos = Len(read) /\ Len(read') = Len(read) + 1
    BY <1>0, <2>1, <2>2, Fields, Positions
  <2>4. /\ Pos' = Len(read')
        /\ buf.recording => Base' = Base
    <3>1. CASE buf.recording
      <4>1. buf' = [buf EXCEPT !.next = buf.next + 1, !.tokens = buf.tokens \o <<t>>]
        BY <1>0, <2>1, <3>1 DEF NextFresh
      <4>2. buf'.tokens = buf.tokens \o <<t>> /\ buf'.next = buf.next + 1
        BY <1>0, <4>1 DEF Buffer
      <4>3. Len(buf'.tokens) = Len(buf.tokens) + 1
        BY <1>0, <4>2, Fields, Extended
      <4>4. Base' = Base
        BY <1>0, <2>3, <4>3, Fields DEF Base
      <4>5. buf'.next >= Len(buf'.tokens)
        BY <1>0, <2>2, <4>2, <4>3, Fields
      <4>6. Pos' = Len(read')
        <5>1. Base \in Nat /\ Len(buf.tokens) \in Nat /\ buf.next \in Nat
          BY <1>0, Fields, Positions
        <5>2. Base + Len(buf.tokens) = Len(read)
          BY Positions
        <5>3. buf.next = Len(buf.tokens)
          BY <1>0, <1>2, <2>2, <3>1, <5>1 DEF ReadFresh, IInv, MarksKept
        <5>4. Base' + buf'.next = Len(read')
          BY <2>3, <4>2, <4>4, <5>1, <5>2, <5>3
        <5> QED BY <5>4 DEF Pos
      <4> QED BY <4>4, <4>6
    <3>2. CASE ~buf.recording
      <4>1. buf'.tokens = <<>>
        BY <1>0, <2>1, <3>2 DEF NextFresh, Buffer
      <4> QED BY <3>2, <4>1 DEF Pos
    <3> QED BY <1>0, <3>1, <3>2
  <2>5. abs' = abs
    BY <1>0, <2>2, <2>4
  <2>6. Stream!Fresh
    BY <2>1, <2>3, <2>4, <2>5 DEF Stream!Fresh
  <2> QED BY <2>6 DEF Stream!Next
<1>3. CASE ReadEnd
  <2>1. /\ buf' = NextFresh(buf, <<>>) /\ out' = <<>> /\ UNCHANGED <<read, marks>>
        /\ buf.next >= Len(buf.tokens)
    BY <1>0, <1>3, Fields DEF ReadEnd, Exhausted
  <2>2. Pos = Len(read)
    BY <1>0, <2>1, Fields, Positions
  <2>3. /\ Pos' = Len(read)
        /\ buf.recording => Base' = Base
    <3>1. CASE buf.recording
      <4>1. buf' = [buf EXCEPT !.next = buf.next + 1, !.tokens = buf.tokens \o <<>>]
        BY <1>0, <2>1, <3>1 DEF NextFresh
      <4>2. buf.tokens \o <<>> = buf.tokens
        BY <1>0, Fields
      <4>3. buf'.tokens = buf.tokens /\ buf'.next = buf.next + 1
        BY <1>0, <4>1, <4>2 DEF Buffer
      <4>4. Base' = Base
        BY <2>1, <4>3 DEF Base
      <4> QED BY <1>0, <2>1, <4>3, <4>4, Fields DEF Pos
    <3>2. CASE ~buf.recording
      <4>1. buf'.tokens = <<>>
        BY <1>0, <2>1, <3>2 DEF NextFresh, Buffer
      <4> QED BY <2>1, <3>2, <4>1 DEF Pos
    <3> QED BY <1>0, <3>1, <3>2
  <2>4. abs' = abs
    BY <1>0, <2>1, <2>3
  <2> QED BY <2>1, <2>2, <2>3, <2>4 DEF Stream!End, Stream!Next
<1>4. CASE Start
  <2>1. /\ out # <<>> /\ buf' = Started(buf, out[1]) /\ marks' = marks \cup {StartIndex(buf)}
        /\ UNCHANGED <<read, out>>
    BY <1>4 DEF Start
  <2>2. /\ Pos >= 1 /\ Pos \in Nat
        /\ buf.tokens # <<>> => buf.next >= 1 /\ buf.next <= Len(buf.tokens)
    BY <1>0, <2>1, Positions, Fields DEF IInv, InHand
  <2>3. Pos' = Pos /\ Base' + StartIndex(buf) = Pos - 1 /\ (buf.recording => Base' = Base)
    <3>1. CASE buf.tokens = <<>>
      <4>1. buf' = [tokens |-> <<out[1]>>, next |-> 1, recording |-> TRUE]
        BY <2>1, <3>1 DEF Started
      <4>2. Len(buf'.tokens) = 1 /\ buf'.next = 1 /\ buf'.tokens # <<>>
        BY <4>1
      <4>3. Pos = Len(read) /\ StartIndex(buf) = 0
        BY <3>1 DEF Pos, StartIndex
      <4>4. Base' = Len(read) - 1
        BY <2>1, <4>2 DEF Base
      <4> QED BY <1>0, <2>1, <3>1, <4>2, <4>3, <4>4, Fields DEF Pos
    <3>2. CASE buf.tokens # <<>>
      <4>1. buf' = [buf EXCEPT !.recording = TRUE] /\ StartIndex(buf) = buf.next - 1
        BY <2>1, <3>2 DEF Started, StartIndex
      <4>2. buf'.tokens = buf.tokens /\ buf'.next = buf.next
        BY <1>0, <4>1 DEF Buffer
      <4>3. Base' = Base /\ Pos' = Pos
        BY <2>1, <4>2 DEF Base, Pos
      <4> QED BY <1>0, <2>2, <3>2, <4>1, <4>3, Fields, Positions
    <3> QED BY <3>1, <3>2
  <2>4. {Base' + m : m \in marks} = abs
    BY <1>0, <2>3
  <2>5. abs' = abs \cup {Pos - 1}
    BY <2>1, <2>3, <2>4
  <2> QED BY <2>1, <2>3, <2>5 DEF Stream!Mark, Stream!Next
<1>5. CASE Stop
  <2>1. buf' = [buf EXCEPT !.recording = FALSE] /\ marks' = {} /\ UNCHANGED <<read, out>>
    BY <1>5 DEF Stop, Stopped
  <2>2. buf'.tokens = buf.tokens /\ buf'.next = buf.next
    BY <1>0, <2>1 DEF Buffer
  <2>3. Pos' = Pos /\ abs' = {}
    BY <2>1, <2>2 DEF Pos, Base
  <2> QED BY <2>1, <2>3 DEF Stream!Drop, Stream!Next
<1>6. CASE Reset \/ ResetToLastLeaf
  <2>1. PICK i \in Nat, m \in marks : m <= i /\ i <= Len(buf.tokens) /\ buf' = ResetTo(buf, i)
    <3>1. CASE Reset
      BY <1>0, <3>1, Fields DEF Reset, IInv, TypeOK, MarksKept
    <3>2. CASE ResetToLastLeaf
      <4>1. PICK i \in 1..Len(buf.tokens) : (\E m \in marks : m < i) /\ buf' = ResetTo(buf, i)
        BY <3>2 DEF ResetToLastLeaf
      <4>2. PICK m \in marks : m < i
        BY <4>1
      <4>3. i \in Nat /\ m \in Nat /\ m <= i /\ i <= Len(buf.tokens)
        BY <1>0, <4>1, <4>2, Fields DEF TypeOK
      <4> QED BY <4>1, <4>3
    <3> QED BY <1>6, <3>1, <3>2
  <2>2. out' = <<>> /\ UNCHANGED <<read, marks>> /\ buf' = [buf EXCEPT !.next = i]
    BY <1>6, <2>1 DEF Reset, ResetToLastLeaf, ResetTo
  <2>3. buf'.tokens = buf.tokens /\ buf'.next = i /\ buf.tokens # <<>> /\ m \in Nat
    BY <1>0, <2>1, <2>2 DEF Buffer, TypeOK
  <2>4. Base' = Base
    BY <2>2, <2>3 DEF Base
  <2>5. Pos' = Base + i /\ Pos' \in 0..Len(read) /\ Base + m <= Pos'
    BY <1>0, <2>1, <2>3, <2>4, Fields, Positions DEF Pos
  <2>6. abs' = abs /\ Base + m \in abs
    BY <2>2, <2>4
  <2>7. Stream!Rewind
    BY <2>2, <2>5, <2>6 DEF Stream!Rewind
  <2> QED BY <2>7 DEF Stream!Next
<1>7. CASE UNCHANGED vars
  BY <1>7 DEF vars, Stream!vars, Pos, Base
<1> QED BY <1>1, <1>2, <1>3, <1>4, <1>5, <1>6, <1>7 DEF Next

(* The buffered tokenizer delivers what a stream with marks delivers: no     *)
(* token is lost, repeated or out of order, however often the parser goes    *)
(* back.                                                *)
THEOREM TokenizerIsStream == Spec => Rewindable
<1>1. IInv /\ IInv' /\ [Next]_vars => [Stream!Next]_(Stream!vars)
  BY StepRefines
<1> QED BY InitRefines, BufferInvariant, <1>1, PTL DEF Spec, Rewindable, Stream!Spec
=============================================================================
