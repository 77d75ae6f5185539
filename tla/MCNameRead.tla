----------------------------- MODULE MCNameRead -----------------------------
(* NameRead for TLC: two outputs, of whose names the first halves count.     *)
EXTENDS NameRead, TLC

CONSTANTS a, b

MCHeads == <<a, b>>
=============================================================================
