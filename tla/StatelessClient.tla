-------------------------- MODULE StatelessClient --------------------------
(***************************************************************************)
(* StatelessSolemClient._run_operation and raw_ble_session (client_v2.py): *)
(* each attempt connects, runs and disconnects.  There is no lock: callers *)
(* of one object run at the same time and share _active_client and the     *)
(* drop hint.                                                              *)
(*                                                                         *)
(* A call has one client at a time, so a client is named by its caller.    *)
(* The controller takes a single connection at a time.                     *)
(***************************************************************************)
EXTENDS Integers, FiniteSets

CONSTANTS
    Callers,
    None,
    Deadline,       \* OPERATION_DEADLINE
    MaxAttempts,    \* REQUEST_MAX_ATTEMPTS
    RetryDelay,     \* REQUEST_RETRY_DELAY
    CloseTimeout,   \* the bound of _disconnect_quietly
    MayCancel       \* whether callers may be cancelled

ASSUME CallersAssumption == None \notin Callers
ASSUME DelaysAssumption ==
    /\ Deadline \in Nat \ {0} /\ MaxAttempts \in Nat \ {0}
    /\ CloseTimeout \in Nat /\ RetryDelay \in Nat /\ CloseTimeout < RetryDelay
ASSUME CancelAssumption == MayCancel \in BOOLEAN

VARIABLES
    run,       \* run[c]: the call of c, a record of Calls
    active,    \* _active_client: whose client it is, or None
    hint,      \* _link_dropped and _drop_event, always set and cleared as one
    up,        \* callers whose client is connected
    callback,  \* a disconnect callback the backend has yet to deliver
    resisted   \* history: links still up after their disconnect failed

link == <<up, callback, resisted>>
vars == <<run, active, hint, link>>

Calls == [pc : {"idle", "connect", "race", "raw", "closing", "backoff"},
          kind : {"none", "safe", "unsafe", "raw"},
          attempt : 0 .. MaxAttempts,
          left : Int,       \* deadline_at - now
          wait : Nat,       \* ticks until the connect, close or sleep times out
          op : {"none", "running", "ok", "failed", "dropped", "raised"}, \* op_task
          drop : BOOLEAN,   \* drop_task is done
          retry : BOOLEAN]  \* the loop goes on after the disconnect

Idle == [pc |-> "idle", kind |-> "none", attempt |-> 0, left |-> 0, wait |-> 0,
         op |-> "none", drop |-> FALSE, retry |-> FALSE]

Init ==
    /\ run = [c \in Callers |-> Idle]
    /\ active = None /\ hint = FALSE
    /\ up = {} /\ callback = FALSE /\ resisted = {}

At(c, pc)    == run[c].pc = pc
Becomes(c, r) == run' = [run EXCEPT ![c] = r]

-----------------------------------------------------------------------------
(* An attempt: connect, race, disconnect.                                  *)

\* The first attempt has the whole deadline; a raw session has none.
Call(c, k) ==
    /\ At(c, "idle")
    /\ LET budget == IF k = "raw" THEN 0 ELSE Deadline
       IN  Becomes(c, [Idle EXCEPT !.pc = "connect", !.kind = k, !.attempt = 1,
                                   !.left = budget, !.wait = budget])
    /\ UNCHANGED <<active, hint, link>>

\* Mutant of Disconnecting: the active client is cleared whoever owns it.
DisconnectingAny(c, retry) ==
    /\ Becomes(c, [run[c] EXCEPT !.pc = "closing", !.wait = CloseTimeout,
                                 !.op = "none", !.drop = FALSE, !.retry = retry])
    /\ active' = None /\ hint' = FALSE
    /\ UNCHANGED link

\* Leaving an attempt that has a client: the finally clause of _run_operation.
\* The active client is cleared only if it is ours, the hint in any case.
Disconnecting(c, retry) ==
    /\ Becomes(c, [run[c] EXCEPT !.pc = "closing", !.wait = CloseTimeout,
                                 !.op = "none", !.drop = FALSE, !.retry = retry])
    /\ active' = IF active = c THEN None ELSE active
    /\ hint' = FALSE
    /\ UNCHANGED link

\* _connect returns a client, which becomes the active one, and the hint is
\* cleared.  A call whose deadline has just passed raises and disconnects.
Connected(c) ==
    /\ At(c, "connect") /\ up = {}
    /\ up' = {c} /\ resisted' = {} /\ hint' = FALSE
    /\ LET r == run[c]
       IN  \/ /\ r.kind = "raw"
              /\ Becomes(c, [r EXCEPT !.pc = "raw"]) /\ active' = c
           \/ /\ r.kind # "raw" /\ r.left > 0
              /\ Becomes(c, [r EXCEPT !.pc = "race", !.op = "running", !.wait = 0])
              /\ active' = c
           \/ /\ r.kind # "raw" /\ r.left <= 0
              /\ Becomes(c, [r EXCEPT !.pc = "closing", !.wait = CloseTimeout])
              /\ active' = None
    /\ UNCHANGED callback

\* After a failed attempt: sleep, or end the call if the attempts or the
\* deadline are spent.
Retried(r) ==
    IF r.left > 0 /\ r.attempt < MaxAttempts
    THEN [r EXCEPT !.pc = "backoff", !.wait = RetryDelay, !.retry = FALSE]
    ELSE Idle

\* The connect fails or times out: there is no client to disconnect.
ConnectFailed(c) ==
    /\ At(c, "connect")
    /\ Becomes(c, IF run[c].kind = "safe" THEN Retried(run[c]) ELSE Idle)
    /\ UNCHANGED <<active, hint, link>>

\* Mutant of RaceEnds: success returns without disconnecting.
RaceEndsConnected(c) ==
    /\ At(c, "race") /\ ~run[c].drop /\ run[c].op \in {"ok", "raised"}
    /\ Becomes(c, Idle)
    /\ UNCHANGED <<active, hint, link>>

\* Mutant of AttemptFails: the race has no timeout.
AttemptFailsUntimed(c) ==
    /\ At(c, "race")
    /\ run[c].drop \/ run[c].op \in {"failed", "dropped"}
    /\ Disconnecting(c, run[c].kind = "safe")

\* Success, or an error that is not retried: data verdicts included.
RaceEnds(c) ==
    /\ At(c, "race") /\ ~run[c].drop /\ run[c].op \in {"ok", "raised"}
    /\ Disconnecting(c, FALSE)

\* A confirmed drop, a retryable error, or the deadline.
AttemptFails(c) ==
    /\ At(c, "race")
    /\ \/ run[c].drop
       \/ run[c].op \in {"failed", "dropped"}
       \/ run[c].op = "running" /\ run[c].left <= 0
    /\ Disconnecting(c, run[c].kind = "safe")

\* The raw session's block ends: the hint is cleared only by its owner.
RawEnds(c) ==
    /\ At(c, "raw")
    /\ Becomes(c, [run[c] EXCEPT !.pc = "closing", !.wait = CloseTimeout])
    /\ IF active = c THEN active' = None /\ hint' = FALSE
                     ELSE UNCHANGED <<active, hint>>
    /\ UNCHANGED link

\* What a disconnect may do to the links: close its own, or, where the backend
\* goes by MAC address, whichever is up; or fail, or be cut short.
Disconnect(c) ==
    \E closed \in {{}, {c}, up} :
        /\ up' = up \ closed
        /\ resisted' = (resisted \cup {c}) \cap up'
        /\ callback' = (callback \/ up \cap closed # {})

\* _disconnect_quietly is over; the call ends, or the loop goes on.
Closed(c) ==
    /\ At(c, "closing")
    /\ Disconnect(c)
    /\ Becomes(c, IF run[c].retry THEN Retried(run[c]) ELSE Idle)
    /\ UNCHANGED <<active, hint>>

\* Mutant of BackoffOver: every attempt gets the whole deadline to connect.
BackoffOverAfresh(c) ==
    /\ At(c, "backoff") /\ run[c].wait = 0
    /\ LET r == run[c]
       IN  Becomes(c, IF r.left <= 0 THEN Idle
                      ELSE [r EXCEPT !.pc = "connect", !.wait = Deadline,
                                     !.attempt = r.attempt + 1])
    /\ UNCHANGED <<active, hint, link>>

\* Mutant of BackoffOver: the attempt counter is advanced twice.
BackoffOverTwice(c) ==
    /\ At(c, "backoff") /\ run[c].wait = 0
    /\ LET r == run[c]
       IN  Becomes(c, IF r.left <= 0 THEN Idle
                      ELSE [r EXCEPT !.pc = "connect", !.wait = r.left,
                                     !.attempt = r.attempt + 2])
    /\ UNCHANGED <<active, hint, link>>

\* The retry sleep is over; at the top of the loop the deadline is checked.
BackoffOver(c) ==
    /\ At(c, "backoff") /\ run[c].wait = 0
    /\ LET r == run[c]
       IN  Becomes(c, IF r.left <= 0 THEN Idle
                      ELSE [r EXCEPT !.pc = "connect", !.wait = r.left,
                                     !.attempt = r.attempt + 1])
    /\ UNCHANGED <<active, hint, link>>

\* Cancellation: the finally clause still awaits the disconnect; cancelled
\* again, it gives the disconnect up.
Cancel(c) ==
    /\ MayCancel
    /\ \/ At(c, "race") /\ Disconnecting(c, FALSE)
       \/ RawEnds(c)
       \/ /\ run[c].pc \in {"connect", "backoff"}
          /\ Becomes(c, Idle)
          /\ UNCHANGED <<active, hint, link>>
       \/ /\ At(c, "closing")
          /\ Disconnect(c)
          /\ Becomes(c, Idle)
          /\ UNCHANGED <<active, hint>>

-----------------------------------------------------------------------------
(* Tasks beside the attempt, and the environment.                          *)

\* The operation closure ends; what its _check_drop finds is CheckDrop.
OperationEnds(c, r) ==
    /\ At(c, "race") /\ run[c].op = "running"
    /\ Becomes(c, [run[c] EXCEPT !.op = r])
    /\ UNCHANGED <<active, hint, link>>

\* Mutant of CheckDrop: the hint alone counts as a drop.
CheckHint(c) ==
    /\ At(c, "race") /\ run[c].op = "running" /\ hint
    /\ Becomes(c, [run[c] EXCEPT !.op = "dropped"])
    /\ UNCHANGED <<active, hint, link>>

\* _check_drop inside the operation: a hint counts only if the active client,
\* which need not be the operation's own, is disconnected.
CheckDrop(c) ==
    /\ At(c, "race") /\ run[c].op = "running" /\ hint
    /\ IF active # None /\ active \notin up
       THEN Becomes(c, [run[c] EXCEPT !.op = "dropped"]) /\ UNCHANGED hint
       ELSE hint' = FALSE /\ UNCHANGED run
    /\ UNCHANGED <<active, link>>

\* One round of _watch_drop on the operation's own client.
WatchDrop(c) ==
    /\ At(c, "race") /\ ~run[c].drop
    /\ \/ c \notin up /\ Becomes(c, [run[c] EXCEPT !.drop = TRUE]) /\ UNCHANGED hint
       \/ c \in up /\ hint /\ hint' = FALSE /\ UNCHANGED run
    /\ UNCHANGED <<active, link>>

LinkDrops ==
    /\ up # {}
    /\ up' = {} /\ resisted' = {} /\ callback' = TRUE
    /\ UNCHANGED <<run, active, hint>>

\* _on_disconnected, at any time after the drop and for any client.
CallbackArrives ==
    /\ callback /\ callback' = FALSE
    /\ hint' = TRUE
    /\ UNCHANGED <<run, active, up, resisted>>

\* Time passes when nothing is due or runnable.
Quiescent ==
    \A c \in Callers :
        /\ run[c].pc \in {"connect", "closing", "backoff"} =>
              run[c].wait > 0 \/ (At(c, "connect") /\ run[c].kind = "raw")
        /\ At(c, "race") => run[c].left > 0 /\ run[c].op = "running" /\ ~run[c].drop

Later(r) ==
    [r EXCEPT !.left = IF r.kind \in {"safe", "unsafe"} THEN @ - 1 ELSE @,
              !.wait = IF @ > 0 THEN @ - 1 ELSE @]

Tick ==
    /\ Quiescent /\ \E c \in Callers : ~At(c, "idle")
    /\ run' = [c \in Callers |-> Later(run[c])]
    /\ UNCHANGED <<active, hint, link>>

-----------------------------------------------------------------------------
Due(c) == RaceEnds(c) \/ AttemptFails(c) \/ BackoffOver(c)

Next ==
    \/ \E c \in Callers :
          \/ \E k \in {"safe", "unsafe", "raw"} : Call(c, k)
          \/ Connected(c) \/ ConnectFailed(c)
          \/ Due(c) \/ RawEnds(c) \/ Closed(c) \/ Cancel(c)
          \/ \E r \in {"ok", "failed", "raised"} : OperationEnds(c, r)
          \/ CheckDrop(c) \/ WatchDrop(c)
    \/ LinkDrops \/ CallbackArrives
    \/ Tick

\* Timers expire and runnable tasks run; time passes.  Nothing makes a connect
\* succeed, the controller answer, or a raw session end.
Fairness ==
    /\ SF_vars(Tick)
    /\ \A c \in Callers :
          /\ WF_vars(Due(c))
          /\ WF_vars(run[c].kind # "raw" /\ run[c].wait = 0 /\ ConnectFailed(c))
          /\ WF_vars(run[c].wait = 0 /\ Closed(c))

Spec == Init /\ [][Next]_vars /\ Fairness

-----------------------------------------------------------------------------
(* What must hold.                                                         *)

\* Types; the history variable covers only links that are up.
TypeOK ==
    /\ run \in [Callers -> Calls]
    /\ active \in Callers \cup {None} /\ hint \in BOOLEAN
    /\ up \subseteq Callers /\ callback \in BOOLEAN /\ resisted \subseteq up

\* Whatever other callers start or finish meanwhile, the link of a running
\* operation or raw session, while it is up, is the one _active_client names.
OwnLinkIsActive ==
    \A c \in up : run[c].pc \in {"race", "raw"} => active = c

\* An operation fails for a drop only when its own link is down, although the
\* hint and the client consulted are shared by all callers.
DropIsOwn ==
    [][\A c \in Callers :
          run'[c].op = "dropped" /\ run[c].op = "running" => c \notin up]_vars

\* When a call has returned or sleeps, its link is down unless its disconnect
\* failed: on success, error, timeout and cancellation alike.
NoLinkOutlivesAttempt ==
    \A c \in up : run[c].pc \in {"idle", "connect", "backoff"} => c \in resisted

\* A call ends less than one retry delay after its deadline.
CallBounded == \A c \in Callers : run[c].left > -RetryDelay

\* Every operation returns.
EveryOperationReturns ==
    \A c \in Callers : run[c].kind \in {"safe", "unsafe"} ~> At(c, "idle")
=============================================================================
