------------------------------- MODULE MCFlow -------------------------------
(* Instances of Flow: one parameter x, annotated as any of the classes. *)
EXTENDS Flow

CONSTANTS A, B, x, m

OfX == [k \in Member |-> x]
All == [k \in Key |-> Class]
Values == {{c} : c \in Class}

Is(k, c) == [op |-> "is", key |-> k, type |-> {c}]
Bind(k, c) == [op |-> "walrus", key |-> k, type |-> {c}]
Not(t) == [op |-> "not", arg |-> t]
And(l, r) == [op |-> "and", left |-> l, right |-> r]
Or(l, r) == [op |-> "or", left |-> l, right |-> r]

XTests == {Is(x, A)}
Tests == {Is(x, A), Is(m, A), Not(And(Is(x, A), Opaque)),
          Or(Bind(x, A), Is(x, B))}
Loops == {True, Is(x, A)}
OpaqueLoops == {Opaque}
=============================================================================
