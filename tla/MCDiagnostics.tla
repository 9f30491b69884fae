---------------------------- MODULE MCDiagnostics ----------------------------
(***************************************************************************)
(* Two documents, the first of which imports the second.                   *)
(***************************************************************************)
EXTENDS Diagnostics

CONSTANTS A, B

ReadsDef == [d \in Docs |-> IF d = A THEN <<A, B>> ELSE <<d>>]
=============================================================================
