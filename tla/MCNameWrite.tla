---------------------------- MODULE MCNameWrite -----------------------------
(* NameWrite for TLC.                                                      *)
EXTENDS NameWrite
=============================================================================
