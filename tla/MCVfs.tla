------------------------------- MODULE MCVfs -------------------------------
(* Instances of Vfs for TLC.                                               *)
EXTENDS Vfs

CONSTANTS a, b, init, pkg

AllRoot == [p \in Path |-> Root]
Nothing == [x \in Mod |-> NoPath]
NoInit == [d \in Dir |-> NoPath]

(* Modules a and b, which may import each other and themselves.            *)
FlatPath == {a, b}
FlatSource == [x \in Mod |-> IF x = "a" THEN a ELSE b]

(* A package pkg with an __init__.py and the module a next to it.          *)
PackagePath == {a, init}
PackageHolder == [p \in Path |-> IF p = init THEN pkg ELSE Root]
PackageSource == [x \in Mod |-> IF x = "a" THEN a ELSE NoPath]
PackageDir == [x \in Mod |-> IF x = "pkg" THEN pkg ELSE NoPath]
PackageInit == [d \in Dir |-> init]

(* The package alone, which may import itself.                             *)
InitPath == {init}

(* The same with a module b, which the package and a may both import.      *)
ChainPath == {a, b, init}
ChainSource == [x \in Mod |-> IF x = "b" THEN b ELSE NoPath]
=============================================================================
