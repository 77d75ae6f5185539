--------------------------- MODULE LinkLifecycle ---------------------------
(***************************************************************************)
(* What the persistent client promises about the links it owns, without    *)
(* locks, retries, timers or hints: it holds at most one, never takes a    *)
(* new one while it holds one, hands a held link over to exactly one       *)
(* background release or forgets it, never takes back a link whose release *)
(* is running, and every release ends.                                     *)
(***************************************************************************)
CONSTANT Clients
VARIABLE state   \* state[c]: "closed", "held" or "releasing"

Init == state = [c \in Clients |-> "closed"]

Move(c, from, to) == state[c] = from /\ state' = [state EXCEPT ![c] = to]

Open(c) ==
    /\ \A d \in Clients : state[d] # "held"
    /\ Move(c, "closed", "held")

Release(c) == Move(c, "held", "releasing")
Forget(c)  == Move(c, "held", "closed")
End(c)     == Move(c, "releasing", "closed")

Next == \E c \in Clients : Open(c) \/ Release(c) \/ Forget(c) \/ End(c)

\* The safety part of the promise, and all of it.
Safe == Init /\ [][Next]_state
Spec == Safe /\ \A c \in Clients : WF_state(End(c))
=============================================================================
