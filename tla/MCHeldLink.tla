----------------------------- MODULE MCHeldLink -----------------------------
(* HeldLink for TLC: of what is not called, one initial state is enough.    *)
EXTENDS HeldLink, TLC

MCInit ==
    /\ LinkInit
    /\ ~(subject = "writes" /\ transaction = "rename") =>
          /\ names = (CHOOSE n \in Rename!Configs : TRUE)
          /\ nFrames = (CHOOSE f \in Rename!Pair : f[1][1] # f[2][1])
    /\ ~(subject = "writes" /\ transaction = "program") =>
          /\ config = (CHOOSE c \in Configs : TRUE)
          /\ base = (CHOOSE s \in Snapshots : TRUE)
    /\ subject # "writes" => transaction = "program"
    /\ subject # "store" => sCall = [c \in Callers |-> <<"read">>]

MCSpec == MCInit /\ [][LinkNext]_<<subject, writeVars, routingVars, storeVars>>

\* Callers are interchangeable.
Symmetry == Permutations(Callers)
=============================================================================
