------------------------------ MODULE MCServer ------------------------------
(* Instances of Server for TLC.                                            *)
EXTENDS Server

CONSTANTS d1, d2

Alone == [d \in Doc |-> {d}]

(* d1 imports d2.                                                          *)
FirstImportsSecond == [d \in Doc |-> IF d = d1 THEN Doc ELSE {d}]
=============================================================================
