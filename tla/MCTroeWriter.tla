---------------------------- MODULE MCTroeWriter ----------------------------
(* TLC instances of TroeWriter: units of one byte, but for those of Big: two *)
EXTENDS TroeWriter, TLC

CONSTANTS Big

MCBytesOf(S) == Cardinality(S) + Cardinality(S \cap Big)

\* The writers are interchangeable
Threads == Permutations(Writer)
=============================================================================
