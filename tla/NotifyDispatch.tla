--------------------------- MODULE NotifyDispatch ---------------------------
(***************************************************************************)
(* Routing notifications on a held link: _start_notify, _stop_notify and   *)
(* _dispatch_notification of client_persistent.py, as the operations of    *)
(* client_v2.py use them.                                                  *)
(*                                                                         *)
(* Operations run one at a time, numbered; each subscribes, sleeps the     *)
(* settle delay, writes, and waits for notifications.  What a write causes *)
(* may come at any time, in any order, or never: the answers of a request  *)
(* at once, the echoes of a program write a second later.  The links of    *)
(* failed operations are released in the background, and until then they   *)
(* deliver to the same dispatcher.  An operation whose link has dropped    *)
(* can only fail.                                                          *)
(***************************************************************************)
EXTENDS DispatchDelays

VARIABLES
    op,        \* number of the last operation started
    phase,     \* where it is; "free" when the session lock is
    timer,     \* ticks left of its sleep or wait
    tries,     \* subscription attempts begun
    link,      \* number of the last link established
    active,    \* _active_client: the link or 0
    dispatch,  \* _dispatch_client: a link or 0
    handler,   \* _active_handler: an operation or 0
    window,    \* ticks until _straggler_drop_until
    air,       \* frames under way: what caused them, and how long ago
    enabled,   \* history: CCCD writes that succeeded on the active link
    heard,     \* history: the frames the handler of this operation was given
    missed     \* history: a frame of the waiting operation was dropped

session == <<link, active, dispatch, handler, window>>
call    == <<op, phase, timer, tries>>
seen    == <<heard, missed>>
vars    == <<session, call, seen, air, enabled>>

Init ==
    /\ op = 0 /\ phase = "free" /\ timer = 0 /\ tries = 0
    /\ link = 0 /\ active = 0 /\ dispatch = 0 /\ handler = 0 /\ window = 0
    /\ air = {} /\ enabled = 0
    /\ heard = {} /\ missed = FALSE

-----------------------------------------------------------------------------
(* An operation.                                                           *)

Begin ==
    /\ phase = "free" /\ op < MaxOps
    /\ op' = op + 1 /\ phase' = "start" /\ timer' = 0 /\ tries' = 0
    /\ heard' = {} /\ missed' = FALSE
    /\ \/ active # 0 /\ UNCHANGED <<session, enabled>>
       \/ /\ active = 0 /\ link' = link + 1 /\ active' = link + 1
          /\ enabled' = 0
          /\ UNCHANGED <<dispatch, handler, window>>
    /\ UNCHANGED air

\* Mutant of SwapHandler: no straggler window.
SwapBare ==
    /\ phase = "start" /\ dispatch = active
    /\ handler' = op /\ window' = 0
    /\ phase' = "settle" /\ timer' = Settle
    /\ UNCHANGED <<op, tries, link, active, dispatch, seen, air, enabled>>

\* Mutant of SwapHandler: the window outlasts the settle delay.
SwapLong ==
    /\ phase = "start" /\ dispatch = active
    /\ handler' = op /\ window' = Settle + PartialRetry
    /\ phase' = "settle" /\ timer' = Settle
    /\ UNCHANGED <<op, tries, link, active, dispatch, seen, air, enabled>>

\* _start_notify on a link that is subscribed: the handler is swapped.
SwapHandler ==
    /\ phase = "start" /\ dispatch = active
    /\ handler' = op /\ window' = Settle
    /\ phase' = "settle" /\ timer' = Settle
    /\ UNCHANGED <<op, tries, link, active, dispatch, seen, air, enabled>>

\* Mutant of Subscribe: every operation subscribes, as the stateless ones do.
SubscribeAlways ==
    /\ phase = "start"
    /\ dispatch' = 0 /\ handler' = 0
    /\ phase' = "subscribe" /\ timer' = Settle /\ tries' = 1
    /\ UNCHANGED <<op, link, active, window, seen, air, enabled>>

\* _start_notify on any other link: routing is cleared, then it sleeps.
Subscribe ==
    /\ phase = "start" /\ dispatch # active
    /\ dispatch' = 0 /\ handler' = 0
    /\ phase' = "subscribe" /\ timer' = Settle /\ tries' = 1
    /\ UNCHANGED <<op, link, active, window, seen, air, enabled>>

\* client.start_notify returns: the subscription of this link.
Subscribed ==
    /\ phase = "subscribe" /\ timer = 0
    /\ enabled' = enabled + 1
    /\ dispatch' = active /\ handler' = op /\ window' = 0
    /\ phase' = "settle" /\ timer' = Settle
    /\ UNCHANGED <<op, tries, link, active, seen, air>>

\* It raises, having reached the controller or not: stop_notify, and again.
SubscribeFails ==
    /\ phase = "subscribe" /\ timer = 0 /\ tries < Attempts
    /\ tries' = tries + 1 /\ timer' = PartialRetry
    /\ UNCHANGED <<op, phase, session, seen, air, enabled>>

\* What a write of this operation causes: some frames, or none.
Cause == air' \in {air, air \cup {[op |-> op, age |-> 0]}}

Write ==
    /\ \/ phase = "settle" /\ timer = 0
       \/ phase = "wait"
    /\ Cause
    /\ phase' = "wait" /\ timer' = Stage
    /\ UNCHANGED <<op, tries, session, seen, enabled>>

\* A frame of write_irrigation_program: written without subscribing or waiting.
BareWrite ==
    /\ phase = "start" /\ Cause
    /\ phase' = "free"
    /\ UNCHANGED <<op, timer, tries, session, seen, enabled>>

\* The handler has seen enough, or there was nothing to ask (hold_link after it
\* subscribed, connect() before): routing stops, the link is kept.
Succeed ==
    /\ \/ phase = "wait" /\ heard # {}
       \/ phase \in {"start", "settle"}
    /\ handler' = 0 /\ phase' = "free" /\ timer' = 0
    /\ UNCHANGED <<op, tries, link, active, dispatch, window, seen, air, enabled>>

\* An error, a drop, a stage timeout or a cancellation: _reset_session_state.
\* What is on the air of the released link may still arrive.
Fail ==
    /\ phase # "free"
    /\ active' = 0 /\ dispatch' = 0 /\ handler' = 0 /\ window' = 0
    /\ phase' = "free" /\ timer' = 0
    /\ UNCHANGED <<op, tries, link, seen, air, enabled>>

\* disconnect() or the idle release, between operations.
Release ==
    /\ phase = "free" /\ active # 0
    /\ active' = 0 /\ dispatch' = 0 /\ handler' = 0 /\ window' = 0
    /\ UNCHANGED <<link, call, seen, air, enabled>>

-----------------------------------------------------------------------------
(* The radio and time.                                                     *)

\* _dispatch_notification, of one frame or of the last of its kind.
Dispatch ==
    \E f \in air :
        LET drop == handler = 0 \/ window > 0
        IN  /\ air' \in {air, air \ {f}}
            /\ heard' = IF drop THEN heard ELSE heard \cup {f}
            /\ missed' = (missed \/ (drop /\ phase = "wait" /\ f.op = op))
            /\ UNCHANGED <<session, call, enabled>>

Lose ==
    /\ \E f \in air : air' = air \ {f}
    /\ UNCHANGED <<session, call, seen, enabled>>

Less(n) == IF n = 0 THEN 0 ELSE n - 1

\* Ages are told apart up to a settle delay.
Older(f) == [op |-> f.op, age |-> IF f.age < Settle THEN f.age + 1 ELSE Settle]

\* One unit of time; a wait that is over has to end first.
Tick ==
    /\ ~(phase = "wait" /\ timer = 0)
    /\ timer' = Less(timer) /\ window' = Less(window)
    /\ air' = {Older(f) : f \in air}
    /\ UNCHANGED <<op, phase, tries, link, active, dispatch, handler, seen, enabled>>

Next ==
    \/ Begin \/ SwapHandler \/ Subscribe \/ Subscribed \/ SubscribeFails
    \/ Write \/ BareWrite \/ Succeed \/ Fail \/ Release
    \/ Dispatch \/ Lose \/ Tick

Spec == Init /\ [][Next]_vars

-----------------------------------------------------------------------------
(* What must hold.                                                         *)

Frame  == [op : Nat, age : 0 .. Settle]
Phases == {"free", "start", "subscribe", "settle", "wait"}

\* Types; the subscription and the handler belong to the current session.
TypeOK ==
    /\ op \in Nat /\ phase \in Phases /\ timer \in Nat /\ tries \in Nat
    /\ link \in Nat /\ active \in {0, link} /\ dispatch \in {0, active}
    /\ handler \in {0, op} /\ window \in 0 .. Settle
    /\ air \subseteq Frame
    /\ enabled \in Nat
    /\ heard \subseteq Frame /\ missed \in BOOLEAN

\* How old a frame of an earlier operation is, by where the current one is.
Straggler(f) ==
    /\ phase = "subscribe" => f.age + (IF tries = 1 THEN timer ELSE 0) >= Settle
    /\ phase = "settle" => f.age + window >= Settle
    /\ phase = "wait" => f.age >= Settle

\* The handler and its window, by where the operation is.
HandlerInv ==
    /\ phase \in {"settle", "wait"} => handler = op /\ window <= timer
    /\ phase \in {"free", "start", "subscribe"} => handler = 0
    /\ phase = "wait" => window = 0

\* What makes StragglersStayOut inductive: once a handler can be given a frame,
\* those of earlier operations are old.
RoutingInv == HandlerInv /\ \A f \in air : f.op # op => Straggler(f)

\* What makes SubscribedOnce inductive.
SubscriptionInv ==
    /\ phase # "free" => op # 0 /\ active # 0
    /\ phase = "subscribe" => dispatch = 0
    /\ active # 0 /\ dispatch = 0 => enabled = 0

\* No operation is given a frame that a write of another one caused less than a
\* settle delay ago, whether the link is held, fresh, or a released one that
\* still delivers.  Older ones it is given: the echoes of issue #73.
StragglersStayOut == \A f \in heard : f.op = op \/ f.age >= Settle

\* The straggler window never costs an operation a frame of its own.
NoFrameMissed == ~missed

\* One successful subscription per link, however many operations use it.
SubscribedOnce == enabled <= 1
=============================================================================
