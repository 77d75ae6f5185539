--------------------------- MODULE VerifiedWrite ----------------------------
(***************************************************************************)
(* What a configuration transaction of the client promises its caller,     *)
(* whatever it does to keep the promise: "confirmed" only after the        *)
(* controller was seen to hold the goal, "refused" only when this call has *)
(* written nothing, and "uncertain" for everything between.                *)
(***************************************************************************)
CONSTANTS Configs,   \* configurations of the controller
          Goals      \* what a caller may ask for: sets of configurations

VARIABLES config,    \* what the controller holds
          goal,      \* the configurations that satisfy the caller
          stage,     \* "idle", "open", or "seen" to hold the goal
          wrote,     \* whether this call has written
          verdict    \* the answer to the last call

vars == <<config, goal, stage, wrote, verdict>>

Init ==
    /\ config \in Configs /\ goal \in Goals
    /\ stage = "idle" /\ wrote = FALSE /\ verdict = "none"

Start ==
    /\ stage = "idle" /\ stage' = "open"
    /\ goal' \in Goals /\ wrote' = FALSE /\ verdict' = "none"
    /\ UNCHANGED config

Write ==
    /\ stage = "open" /\ wrote' = TRUE
    /\ UNCHANGED <<config, goal, stage, verdict>>

\* The controller changes: by this call, late, or by somebody else.
Change ==
    /\ stage # "seen" /\ config' \in Configs
    /\ UNCHANGED <<goal, stage, wrote, verdict>>

See ==
    /\ stage = "open" /\ config \in goal /\ stage' = "seen"
    /\ UNCHANGED <<config, goal, wrote, verdict>>

End ==
    /\ stage # "idle" /\ stage' = "idle"
    /\ \/ stage = "seen" /\ verdict' = "confirmed"
       \/ ~wrote /\ verdict' = "refused"
       \/ verdict' \in {"uncertain", "cancelled"}
    /\ wrote' \in {wrote, TRUE}
    /\ UNCHANGED <<config, goal>>

Next == Start \/ Write \/ Change \/ See \/ End

Spec == Init /\ [][Next]_vars
=============================================================================
