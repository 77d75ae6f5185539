-------------------------- MODULE PersistentClient --------------------------
(***************************************************************************)
(* PersistentSolemClient (client_persistent.py): one BLE link held across  *)
(* operations.  Callers queue on the asyncio session lock; its holder runs *)
(* the bounded retry loop of _run_operation; an idle timer and background  *)
(* releases run beside it; the link itself may drop at any moment.         *)
(*                                                                         *)
(* asyncio runs one task at a time, so an action is the code between two   *)
(* awaits.  Time is a discrete clock (Tick) that stops while a timer is    *)
(* due or a task is runnable; delays are CONSTANTS in ticks.               *)
(*                                                                         *)
(* A BleakClient object is a member of Clients.  An object nobody refers   *)
(* to is recycled, so connections are unbounded although Clients is finite.*)
(***************************************************************************)
EXTENDS Integers, Sequences, FiniteSets

CONSTANTS
    Callers,        \* tasks that call the public API of one client object
    Clients,        \* BleakClient objects
    None,           \* Python's None
    Deadline,       \* OPERATION_DEADLINE
    MaxAttempts,    \* REQUEST_MAX_ATTEMPTS
    RetryDelay,     \* REQUEST_RETRY_DELAY
    ReleaseTimeout, \* RELEASE_DISCONNECT_TIMEOUT
    IdleSeconds,    \* idle_release_seconds; 0 stands for None
    MayCancel       \* whether callers may be cancelled (asyncio task.cancel)

ASSUME NamesAssumption == None \notin Callers \cup Clients
ASSUME DelaysAssumption ==
    /\ Deadline \in Nat /\ MaxAttempts \in Nat \ {0} /\ RetryDelay \in Nat \ {0}
    /\ ReleaseTimeout \in Nat \ {0} /\ IdleSeconds \in Nat
    /\ ReleaseTimeout < RetryDelay /\ RetryDelay < Deadline
ASSUME CancelAssumption == MayCancel \in BOOLEAN

VARIABLES
    holder,    \* owner of _session_lock, or None
    queue,     \* callers waiting for _session_lock, in FIFO order
    kind,      \* what each caller is running; "none": nothing
    phase,     \* where the holder's _run_operation is suspended
    attempt,   \* the local attempt
    left,      \* deadline_at - now; negative once the deadline has passed
    remaining, \* the local remaining, as computed at the top of the attempt
    wait,      \* ticks until the drain, connect or retry sleep times out
    cur,       \* the local client: the link the operation runs on
    opTask,    \* op_task of the running attempt
    dropTask,  \* drop_task (_watch_drop) of the running attempt
    held,      \* _active_client
    hint,      \* _link_dropped and _drop_event, always set and cleared as one
    idle,      \* ticks until the idle timer fires; Off when there is none
    rel,       \* background release of each client: ticks left, Ended or Never
    up,        \* clients whose link is physically up (is_connected)
    callback,  \* a disconnect callback the backend has yet to deliver
    late       \* history: links that came up after their deadline, still up

caller == <<holder, queue, kind>>
exec   == <<phase, attempt, left, remaining, wait, cur, opTask, dropTask>>
link   == <<up, callback, late>>
vars   == <<caller, exec, held, hint, idle, rel, link>>

Off   == -1
Ended == -1
Never == -2

Pending == {c \in Clients : rel[c] >= 0}   \* _pending_releases

-----------------------------------------------------------------------------
(* Pieces the handlers share.                                              *)

\* _reset_session_state: no client, no hint.
Reset == held' = None /\ hint' = FALSE

\* rel once _schedule_background_disconnect(c) has run; nothing for None.
RelAfter(c) == IF c = None THEN rel ELSE [rel EXCEPT ![c] = ReleaseTimeout]

\* _schedule_idle_release: (re)arm the timer when one is configured.
ArmIdle == idle' = IF IdleSeconds = 0 THEN Off ELSE IdleSeconds

\* Leaving `async with self._session_lock`, by return or by exception.
Finish ==
    /\ kind' = [kind EXCEPT ![holder] = "none"]
    /\ holder' = None /\ cur' = None
    /\ phase' = "free" /\ attempt' = 0
    /\ left' = 0 /\ remaining' = 0 /\ wait' = 0
    /\ opTask' = "none" /\ dropTask' = "none"
    /\ UNCHANGED queue

\* Entering the race of op_task against drop_task on client c.
Launch(c) ==
    /\ phase' = "race" /\ cur' = c
    /\ opTask' = "running" /\ dropTask' = "watching"
    /\ wait' = 0

\* Suspended with a timeout and no task of the attempt in flight.
Await(p, ticks) ==
    /\ phase' = p /\ wait' = ticks
    /\ cur' = None /\ opTask' = "none" /\ dropTask' = "none"

-----------------------------------------------------------------------------
(* Callers and the lock.                                                   *)

Init ==
    /\ holder = None /\ queue = <<>> /\ kind = [c \in Callers |-> "none"]
    /\ phase = "free" /\ attempt = 0 /\ left = 0 /\ remaining = 0 /\ wait = 0
    /\ cur = None /\ opTask = "none" /\ dropTask = "none"
    /\ held = None /\ hint = FALSE /\ idle = Off
    /\ rel = [c \in Clients |-> Never]
    /\ up = {} /\ callback = FALSE /\ late = {}

\* A public call: the idle timer is cancelled first, then the lock is awaited.
\* "safe" and "unsafe" are operations by retry_safe, "close" is disconnect().
\* (A call made between the lock's release and the next waiter's step has the
\* same effect after that step, where the model puts it.)
Call(c, k) ==
    /\ kind[c] = "none"
    /\ holder = None => queue = <<>>
    /\ kind' = [kind EXCEPT ![c] = k]
    /\ queue' = Append(queue, c)
    /\ idle' = Off
    /\ UNCHANGED <<holder, exec, held, hint, rel, link>>

\* The lock goes to the longest waiter, whose deadline starts only now.
Acquire ==
    /\ holder = None /\ queue # <<>>
    /\ kind[Head(queue)] \in {"safe", "unsafe"}
    /\ holder' = Head(queue) /\ queue' = Tail(queue)
    /\ phase' = "start" /\ attempt' = 1 /\ left' = Deadline
    /\ UNCHANGED <<kind, remaining, wait, cur, opTask, dropTask,
                   held, hint, idle, rel, link>>

\* Mutant of Close: disconnect() does not wait for the lock.
CloseUnlocked ==
    /\ queue # <<>>
    /\ kind[Head(queue)] = "close"
    /\ kind' = [kind EXCEPT ![Head(queue)] = "none"]
    /\ queue' = Tail(queue)
    /\ Reset /\ rel' = RelAfter(held)
    /\ UNCHANGED <<holder, exec, idle, link>>

\* disconnect() under the lock: reset, then detach the release.  No await.
Close ==
    /\ holder = None /\ queue # <<>>
    /\ kind[Head(queue)] = "close"
    /\ kind' = [kind EXCEPT ![Head(queue)] = "none"]
    /\ queue' = Tail(queue)
    /\ Reset /\ rel' = RelAfter(held)
    /\ UNCHANGED <<holder, exec, idle, link>>

\* The caller's task is cancelled while it waits for the lock.
CancelWaiter(c) ==
    /\ MayCancel /\ holder # None
    /\ \E i \in DOMAIN queue :
          /\ queue[i] = c
          /\ queue' = [j \in 1 .. Len(queue) - 1 |->
                          IF j < i THEN queue[j] ELSE queue[j + 1]]
    /\ kind' = [kind EXCEPT ![c] = "none"]
    /\ UNCHANGED <<holder, exec, held, hint, idle, rel, link>>

-----------------------------------------------------------------------------
(* The retry loop of the lock holder.                                      *)

\* _active_client can be reused: up, and no drop hint, confirmed or not.
Reusable == held # None /\ held \in up /\ ~hint

\* Top of the loop with no budget left.
StartTooLate ==
    /\ phase = "start" /\ left <= 0
    /\ Reset /\ ArmIdle
    /\ Finish
    /\ UNCHANGED <<rel, link>>

StartReused ==
    /\ phase = "start" /\ left > 0 /\ Reusable
    /\ remaining' = left
    /\ Launch(held) /\ hint' = FALSE
    /\ UNCHANGED <<caller, attempt, left, held, idle, rel, link>>

\* Mutant of StartFresh: connect without draining the releases.
StartUndrained ==
    /\ phase = "start" /\ left > 0 /\ ~Reusable
    /\ remaining' = left
    /\ IF held # None THEN Reset ELSE UNCHANGED <<held, hint>>
    /\ rel' = RelAfter(held)
    /\ Await("connect", left)
    /\ UNCHANGED <<caller, attempt, left, idle, link>>

\* Mutant of StartFresh: the stale client is released but still cached.
StartWithoutReset ==
    /\ phase = "start" /\ left > 0 /\ ~Reusable
    /\ remaining' = left
    /\ rel' = RelAfter(held)
    /\ Await(IF \E c \in Clients : rel'[c] >= 0 THEN "drain" ELSE "connect", left)
    /\ UNCHANGED <<caller, attempt, left, held, hint, idle, link>>

\* Tear down a stale client, then drain; without a pending release the drain
\* returns at once and the connect begins in the same step.
StartFresh ==
    /\ phase = "start" /\ left > 0 /\ ~Reusable
    /\ remaining' = left
    /\ IF held # None THEN Reset ELSE UNCHANGED <<held, hint>>
    /\ rel' = RelAfter(held)
    /\ Await(IF \E c \in Clients : rel'[c] >= 0 THEN "drain" ELSE "connect", left)
    /\ UNCHANGED <<caller, attempt, left, idle, link>>

\* Mutant of Drained: the connect gets a fresh budget, not the remaining one.
DrainedAfresh ==
    /\ phase = "drain" /\ (Pending = {} \/ wait = 0)
    /\ Await("connect", Deadline)
    /\ UNCHANGED <<caller, attempt, left, remaining, held, hint, idle, rel, link>>

\* _drain_pending_releases is over: every release ended, or its timeout did.
\* No release can start during a drain (held is None), so awaiting the
\* releases pending at its start is awaiting Pending.
Drained ==
    /\ phase = "drain" /\ (Pending = {} \/ wait = 0)
    /\ Await("connect", remaining)
    /\ UNCHANGED <<caller, attempt, left, remaining, held, hint, idle, rel, link>>

\* _connect_within returns a client n.  The controller takes one connection
\* at a time.  A deadline that passed meanwhile raises SolemDeadlineExceeded,
\* whose handler resets the session before the finally clause looks at it.
Connected(n) ==
    /\ phase = "connect" /\ wait > 0 /\ up = {}
    /\ n # held /\ rel[n] < 0
    /\ up' = {n}
    /\ rel' = [rel EXCEPT ![n] = Never]
    /\ hint' = FALSE
    /\ IF left > 0
       THEN /\ held' = n /\ late' = {}
            /\ Launch(n)
            /\ UNCHANGED <<caller, attempt, left, remaining>>
       ELSE /\ held' = None /\ late' = {n}
            /\ Finish
    /\ UNCHANGED <<idle, callback>>

\* The connect fails or times out: never retried inside the operation.
ConnectFailed ==
    /\ phase = "connect"
    /\ Reset
    /\ rel' = IF kind[holder] = "unsafe" THEN RelAfter(held) ELSE rel
    /\ IF kind[holder] = "safe" THEN ArmIdle ELSE UNCHANGED idle
    /\ Finish
    /\ UNCHANGED link

\* Mutant of Settle: the session is reset but its link is not released.
SettleForgets(failed) ==
    IF failed /\ held # None THEN Reset /\ UNCHANGED rel
                             ELSE UNCHANGED <<held, hint, rel>>

\* What the finally clause of an attempt does to the session.
Settle(failed) ==
    IF failed /\ held # None THEN Reset /\ rel' = RelAfter(held)
                             ELSE UNCHANGED <<held, hint, rel>>

\* Mutant of RaceWon: success does not arm the idle timer.
RaceWonUntimed ==
    /\ phase = "race" /\ dropTask = "watching" /\ opTask = "ok"
    /\ Finish
    /\ UNCHANGED <<held, hint, idle, rel, link>>

\* asyncio.wait returned, no drop was seen, and the operation had succeeded.
RaceWon ==
    /\ phase = "race" /\ dropTask = "watching" /\ opTask = "ok"
    /\ ArmIdle
    /\ Finish
    /\ UNCHANGED <<held, hint, rel, link>>

\* The operation raised what no except clause of the loop names.
RaceRaised ==
    /\ phase = "race" /\ dropTask = "watching" /\ opTask = "raised"
    /\ Settle(TRUE)
    /\ Finish
    /\ UNCHANGED <<idle, link>>

\* Mutant of AttemptFailed: the wait has no timeout.
AttemptFailedUntimed ==
    /\ phase = "race"
    /\ dropTask = "done" \/ opTask = "failed"

\* Confirmed drop (whatever the operation did), retryable error or timeout.
AttemptFailed ==
    /\ phase = "race"
    /\ \/ dropTask = "done"
       \/ opTask = "failed"
       \/ opTask = "running" /\ left <= 0

\* retry_safe=False: release the session and raise.
FailUnsafe ==
    /\ AttemptFailed /\ kind[holder] = "unsafe"
    /\ Reset /\ rel' = RelAfter(held)
    /\ Finish
    /\ UNCHANGED <<idle, link>>

\* The last attempt failed: the loop ends, the session is reset.
FailLast ==
    /\ AttemptFailed /\ kind[holder] = "safe" /\ attempt = MaxAttempts
    /\ Reset
    /\ rel' = IF opTask # "ok" THEN RelAfter(held) ELSE rel
    /\ Finish
    /\ UNCHANGED <<idle, link>>

\* Mutant of FailRetry: one attempt too many.
FailRetryOnce ==
    /\ AttemptFailed /\ kind[holder] = "safe" /\ attempt <= MaxAttempts
    /\ Settle(opTask # "ok")
    /\ IF left > 0
       THEN Await("backoff", RetryDelay) /\ UNCHANGED attempt
       ELSE Await("start", 0) /\ attempt' = attempt + 1
    /\ UNCHANGED <<caller, left, remaining, idle, link>>

\* Another attempt, after the retry sleep unless the deadline has passed.
FailRetry ==
    /\ AttemptFailed /\ kind[holder] = "safe" /\ attempt < MaxAttempts
    /\ Settle(opTask # "ok")
    /\ IF left > 0
       THEN Await("backoff", RetryDelay) /\ UNCHANGED attempt
       ELSE Await("start", 0) /\ attempt' = attempt + 1
    /\ UNCHANGED <<caller, left, remaining, idle, link>>

BackoffOver ==
    /\ phase = "backoff" /\ wait = 0
    /\ phase' = "start" /\ attempt' = attempt + 1
    /\ UNCHANGED <<caller, left, remaining, wait, cur, opTask, dropTask,
                   held, hint, idle, rel, link>>

\* The holder's task is cancelled at one of its awaits.
CancelHolder ==
    /\ MayCancel /\ phase \in {"drain", "connect", "race", "backoff"}
    /\ Settle(phase = "race" /\ opTask # "ok")
    /\ Finish
    /\ UNCHANGED <<idle, link>>

-----------------------------------------------------------------------------
(* Tasks beside the loop, and the environment.                             *)

\* The operation closure ends: result, retryable error, any other exception.
OperationEnds(r) ==
    /\ phase = "race" /\ opTask = "running"
    /\ opTask' = r
    /\ UNCHANGED <<caller, phase, attempt, left, remaining, wait, cur, dropTask,
                   held, hint, idle, rel, link>>

\* One round of _watch_drop: a drop is confirmed, or a stale hint cleared.
WatchDrop ==
    /\ phase = "race" /\ dropTask = "watching"
    /\ \/ cur \notin up /\ dropTask' = "done" /\ UNCHANGED hint
       \/ cur \in up /\ hint /\ hint' = FALSE /\ UNCHANGED dropTask
    /\ UNCHANGED <<caller, phase, attempt, left, remaining, wait, cur, opTask,
                   held, idle, rel, link>>

\* The idle timer fires: reset, then detach the release.  No lock is taken.
IdleFires ==
    /\ idle = 0
    /\ idle' = Off
    /\ Reset /\ rel' = RelAfter(held)
    /\ UNCHANGED <<caller, exec, link>>

\* A background release ends: it closed its own link, or, where the backend
\* disconnects by MAC address, whichever link is up; or it failed or was cut.
ReleaseEnds(c) ==
    /\ rel[c] >= 0
    /\ rel' = [rel EXCEPT ![c] = Ended]
    /\ \E closed \in {{}, {c}, up} :
          /\ up' = up \ closed /\ late' = late \ closed
          /\ callback' = (callback \/ up \cap closed # {})
    /\ UNCHANGED <<caller, exec, held, hint, idle>>

\* The link drops by itself.
LinkDrops ==
    /\ up # {}
    /\ up' = {} /\ late' = {} /\ callback' = TRUE
    /\ UNCHANGED <<caller, exec, held, hint, idle, rel>>

\* _on_disconnected, possibly long after the drop and for a superseded link.
CallbackArrives ==
    /\ callback /\ callback' = FALSE
    /\ hint' = TRUE
    /\ UNCHANGED <<caller, exec, held, idle, rel, up, late>>

\* Nothing that is due or runnable is left: time passes.
Quiescent ==
    /\ holder = None => queue = <<>>
    /\ phase # "start"
    /\ phase \in {"drain", "connect", "backoff"} => wait > 0
    /\ phase = "drain" => Pending # {}
    /\ phase = "race" => left > 0 /\ opTask = "running" /\ dropTask = "watching"
    /\ idle # 0
    /\ \A c \in Clients : rel[c] # 0

Tick ==
    /\ Quiescent
    /\ left' = IF holder = None THEN 0 ELSE left - 1
    /\ wait' = IF wait > 0 THEN wait - 1 ELSE 0
    /\ idle' = IF idle > 0 THEN idle - 1 ELSE Off
    /\ rel' = [c \in Clients |-> IF rel[c] > 0 THEN rel[c] - 1 ELSE rel[c]]
    /\ UNCHANGED <<caller, phase, attempt, remaining, cur, opTask, dropTask,
                   held, hint, link>>

-----------------------------------------------------------------------------
Loop ==
    \/ StartTooLate \/ StartReused \/ StartFresh \/ Drained
    \/ RaceWon \/ RaceRaised \/ FailUnsafe \/ FailLast \/ FailRetry \/ BackoffOver

Next ==
    \/ \E c \in Callers, k \in {"safe", "unsafe", "close"} : Call(c, k)
    \/ \E c \in Callers : CancelWaiter(c)
    \/ Acquire \/ Close
    \/ Loop \/ CancelHolder
    \/ \E n \in Clients : Connected(n)
    \/ ConnectFailed
    \/ \E r \in {"ok", "failed", "raised"} : OperationEnds(r)
    \/ WatchDrop \/ IdleFires
    \/ \E c \in Clients : ReleaseEnds(c)
    \/ LinkDrops \/ CallbackArrives
    \/ Tick

\* The event loop runs what is runnable and what is due, and time passes
\* (strongly fair: no run of calls takes place in no time).
\* Nothing makes the controller answer, a connect succeed or a caller call.
Fairness ==
    /\ SF_vars(Tick) /\ WF_vars(Acquire \/ Close) /\ WF_vars(Loop)
    /\ WF_vars(wait = 0 /\ ConnectFailed)
    /\ WF_vars(IdleFires)
    /\ \A c \in Clients : WF_vars(rel[c] = 0 /\ ReleaseEnds(c))

Spec == Init /\ [][Next]_vars /\ Fairness
-----------------------------------------------------------------------------
(* What must hold.                                                         *)


\* Types, and which variables are meaningful in which phase.
TypeOK ==
    /\ holder \in Callers \cup {None} /\ queue \in Seq(Callers)
    /\ kind \in [Callers -> {"none", "safe", "unsafe", "close"}]
    /\ phase \in {"free", "start", "drain", "connect", "race", "backoff"}
    /\ attempt \in 0 .. MaxAttempts
    /\ left \in Int /\ remaining \in Int /\ wait \in Nat
    /\ cur \in Clients \cup {None} /\ held \in Clients \cup {None}
    /\ opTask \in {"none", "running", "ok", "failed", "raised"}
    /\ dropTask \in {"none", "watching", "done"}
    /\ hint \in BOOLEAN /\ callback \in BOOLEAN
    /\ idle \in Int /\ Off <= idle /\ idle <= IdleSeconds
    /\ rel \in [Clients -> Int]
    /\ \A c \in Clients : Never <= rel[c] /\ rel[c] <= ReleaseTimeout
    /\ up \subseteq Clients /\ late \subseteq up

\* However the calls, drops, cancellations and timers interleave, a link that
\* is up is the held one, or a release was scheduled for it (and may have
\* failed), or it came up after its operation's deadline.
NoLinkForgotten ==
    \A c \in up : c = held \/ rel[c] # Never \/ c \in late

\* Every link that is up is known to the client or was released: the comment
\* on the finally clause, "the session is invalidated synchronously and the
\* link torn down in the bounded background" on any exit but success.
EveryLinkTornDown == \A c \in up : c = held \/ rel[c] # Never

\* An operation gives up the lock less than one retry delay after its deadline,
\* whether it was a retry sleep or a drain before the connect that overran it.
HoldBounded == holder # None => left > -RetryDelay

\* When the first attempt of an operation connects, no release is pending
\* that could disconnect the new link by MAC address.
FirstConnectDrained == phase = "connect" /\ attempt = 1 => Pending = {}

\* While an operation runs, its link is the held one: neither the idle timer
\* nor disconnect() nor another operation took it away.
OperationOwnsLink == phase = "race" => cur = held

\* Of all that runs beside an operation (calls, disconnect(), cancellations,
\* releases, callbacks) only the idle timer takes its link from the session.
OnlyIdleSevers ==
    [][phase = "race" /\ phase' = "race" /\ cur = held
          => held' = held \/ idle = 0]_vars

\* A held link nobody is using or about to use has an idle timer running.
HeldLinkTimed ==
    IdleSeconds > 0 /\ holder = None /\ queue = <<>> /\ held # None => idle >= 0

\* Every call returns: the lock is handed on and no await is unbounded.
EveryCallReturns == \A c \in Callers : kind[c] # "none" ~> kind[c] = "none"

\* What the session knows of each link: held, being released, or neither.
LinkState ==
    [c \in Clients |-> IF c = held THEN "held"
                       ELSE IF rel[c] >= 0 THEN "releasing"
                       ELSE "closed"]

\* The links the session juggles behave as LinkLifecycle says: one held at a
\* time, released at most once, never taken back, every release ends.
Lifecycle == INSTANCE LinkLifecycle WITH state <- LinkState
KeepsLifecycle == Lifecycle!Spec
=============================================================================
