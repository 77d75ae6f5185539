-------------------------- MODULE MCStatusExchange --------------------------
(* StatusExchange for TLC.                                                  *)
EXTENDS StatusExchange, TLC

\* Remaining times are compared, and nothing else.
SomeTimes == Permutations(Times)
=============================================================================
