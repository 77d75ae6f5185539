------------------------- MODULE MCStatelessClient -------------------------
(* StatelessClient for TLC: callers are interchangeable.                    *)
EXTENDS StatelessClient, TLC

Symmetry == Permutations(Callers)
=============================================================================
