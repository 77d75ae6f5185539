----------------------- MODULE PersistentClientProofs -----------------------
(***************************************************************************)
(* For every set of callers and clients and every choice of delays: the    *)
(* safety invariants of PersistentClient, from one inductive invariant.    *)
(***************************************************************************)
EXTENDS PersistentClient, TLAPS

\* Which session state goes with which point of the retry loop.
PhaseInv ==
    /\ holder = None <=> phase = "free"
    /\ phase # "free" => attempt >= 1
    /\ phase = "start" /\ attempt = 1 => left = Deadline
    /\ phase = "start" /\ attempt # 1 => held \notin up
    /\ phase = "backoff" => held \notin up /\ attempt < MaxAttempts
    /\ phase \in {"drain", "connect"} => held = None
    /\ phase = "race" => /\ cur \in Clients /\ held \in {cur, None}
                         /\ dropTask = "done" => cur \notin up

\* How far the deadline can be behind at each point: a drain cannot outlast
\* the releases it awaits, a retry sleep starts before the deadline.
TimeInv ==
    /\ phase = "start" => left > -RetryDelay
    /\ phase = "drain" =>
          /\ left = wait /\ remaining >= wait /\ remaining <= wait + ReleaseTimeout
          /\ \A c \in Clients : rel[c] >= 0 => rel[c] + remaining <= wait + ReleaseTimeout
    /\ phase = "connect" => left + ReleaseTimeout >= wait
    /\ phase = "race" => left >= 0
    /\ phase = "backoff" => left + RetryDelay > wait

\* The first attempt has the whole deadline to drain, longer than any release.
DrainInv ==
    /\ phase = "drain" /\ attempt = 1 => \A c \in Clients : rel[c] < wait
    /\ phase = "connect" /\ attempt = 1 => \A c \in Clients : rel[c] < 0

IInv == TypeOK /\ PhaseInv /\ TimeInv /\ DrainInv /\ NoLinkForgotten

(* The inductive invariant holds initially, and every action keeps it.     *)
USE DEF caller, exec, link, Off, Ended, Never

\* The inductive invariant holds initially.
LEMMA InitInv == Init => IInv
<1> SUFFICES ASSUME Init PROVE IInv
  OBVIOUS
<1>1. hint \in BOOLEAN /\ callback \in BOOLEAN
  BY Zenon DEF Init
<1>2. TypeOK
  BY <1>1, DelaysAssumption DEF Init, TypeOK
<1>3. PhaseInv /\ TimeInv /\ DrainInv /\ NoLinkForgotten
  BY NamesAssumption DEF Init, PhaseInv, TimeInv, DrainInv, NoLinkForgotten
<1> QED BY <1>2, <1>3 DEF IInv

\* A call only queues and stops the idle timer.
LEMMA CallKeeps ==
    ASSUME IInv, NEW c \in Callers, NEW k \in {"safe", "unsafe", "close"}, Call(c, k) PROVE IInv'
<1> USE NamesAssumption, DelaysAssumption DEF IInv, Call
<1>1. TypeOK'
  BY DEF TypeOK, PhaseInv
<1>2. PhaseInv'
  BY DEF TypeOK, PhaseInv
<1>3. TimeInv'
  BY DEF TypeOK, PhaseInv, TimeInv
<1>4. DrainInv'
  BY DEF TypeOK, PhaseInv, TimeInv, DrainInv
<1>5. NoLinkForgotten'
  BY DEF TypeOK, PhaseInv, NoLinkForgotten
<1> QED BY <1>1, <1>2, <1>3, <1>4, <1>5

\* Leaving the queue touches nothing else.
LEMMA CancelWaiterKeeps ==
    ASSUME IInv, NEW c \in Callers, CancelWaiter(c) PROVE IInv'
<1> USE NamesAssumption, DelaysAssumption DEF IInv, CancelWaiter
<1>1. TypeOK'
  BY DEF TypeOK, PhaseInv
<1>2. PhaseInv'
  BY DEF TypeOK, PhaseInv
<1>3. TimeInv'
  BY DEF TypeOK, PhaseInv, TimeInv
<1>4. DrainInv'
  BY DEF TypeOK, PhaseInv, TimeInv, DrainInv
<1>5. NoLinkForgotten'
  BY DEF TypeOK, PhaseInv, NoLinkForgotten
<1> QED BY <1>1, <1>2, <1>3, <1>4, <1>5

\* The deadline starts whole.
LEMMA AcquireKeeps ==
    ASSUME IInv, Acquire PROVE IInv'
<1> USE NamesAssumption, DelaysAssumption DEF IInv, Acquire
<1>1. TypeOK'
  BY DEF TypeOK, PhaseInv
<1>2. PhaseInv'
  BY DEF TypeOK, PhaseInv
<1>3. TimeInv'
  BY DEF TypeOK, PhaseInv, TimeInv
<1>4. DrainInv'
  BY DEF TypeOK, PhaseInv, TimeInv, DrainInv
<1>5. NoLinkForgotten'
  BY DEF TypeOK, PhaseInv, NoLinkForgotten
<1> QED BY <1>1, <1>2, <1>3, <1>4, <1>5

\* disconnect() hands the link to a release.
LEMMA CloseKeeps ==
    ASSUME IInv, Close PROVE IInv'
<1> USE NamesAssumption, DelaysAssumption DEF IInv, Close, Reset, RelAfter
<1>1. TypeOK'
  <2>1. hint' \in BOOLEAN
    BY Zenon DEF TypeOK, IInv, Close, Reset
  <2> QED BY <2>1 DEF TypeOK, PhaseInv
<1>2. PhaseInv'
  BY DEF TypeOK, PhaseInv
<1>3. TimeInv'
  BY DEF TypeOK, PhaseInv, TimeInv
<1>4. DrainInv'
  BY DEF TypeOK, PhaseInv, TimeInv, DrainInv
<1>5. NoLinkForgotten'
  BY DEF TypeOK, PhaseInv, NoLinkForgotten
<1> QED BY <1>1, <1>2, <1>3, <1>4, <1>5

\* The link left behind is down: only a retry can be too late.
LEMMA StartTooLateKeeps ==
    ASSUME IInv, StartTooLate PROVE IInv'
<1> USE NamesAssumption, DelaysAssumption DEF IInv, StartTooLate, Reset, ArmIdle, Finish
<1>1. TypeOK'
  <2>1. hint' \in BOOLEAN
    BY Zenon DEF TypeOK, IInv, StartTooLate, Reset
  <2> QED BY <2>1 DEF TypeOK, PhaseInv
<1>2. PhaseInv'
  BY DEF TypeOK, PhaseInv
<1>3. TimeInv'
  BY DEF TypeOK, PhaseInv, TimeInv
<1>4. DrainInv'
  BY DEF TypeOK, PhaseInv, TimeInv, DrainInv
<1>5. NoLinkForgotten'
  BY DEF TypeOK, PhaseInv, NoLinkForgotten
<1> QED BY <1>1, <1>2, <1>3, <1>4, <1>5

\* The race starts on the held link.
LEMMA StartReusedKeeps ==
    ASSUME IInv, StartReused PROVE IInv'
<1> USE NamesAssumption, DelaysAssumption DEF IInv, StartReused, Reusable, Launch
<1>1. TypeOK'
  BY DEF TypeOK, PhaseInv
<1>2. PhaseInv'
  BY DEF TypeOK, PhaseInv
<1>3. TimeInv'
  BY DEF TypeOK, PhaseInv, TimeInv
<1>4. DrainInv'
  BY DEF TypeOK, PhaseInv, TimeInv, DrainInv
<1>5. NoLinkForgotten'
  BY DEF TypeOK, PhaseInv, NoLinkForgotten
<1> QED BY <1>1, <1>2, <1>3, <1>4, <1>5

\* The drain starts with the whole remaining budget.
LEMMA StartFreshKeeps ==
    ASSUME IInv, StartFresh PROVE IInv'
<1> USE NamesAssumption, DelaysAssumption DEF IInv, StartFresh, Reusable, Reset, RelAfter, Await
<1>1. TypeOK'
  <2>1. hint' \in BOOLEAN
    BY Zenon DEF TypeOK, IInv, StartFresh, Reset
  <2> QED BY <2>1 DEF TypeOK, PhaseInv
<1>2. PhaseInv'
  BY DEF TypeOK, PhaseInv
<1>3. TimeInv'
  BY DEF TypeOK, PhaseInv, TimeInv
<1>4. DrainInv'
  BY DEF TypeOK, PhaseInv, TimeInv, DrainInv
<1>5. NoLinkForgotten'
  BY DEF TypeOK, PhaseInv, NoLinkForgotten
<1> QED BY <1>1, <1>2, <1>3, <1>4, <1>5

\* The connect starts no later than the releases end.
LEMMA DrainedKeeps ==
    ASSUME IInv, Drained PROVE IInv'
<1> USE NamesAssumption, DelaysAssumption DEF IInv, Drained, Pending, Await
<1>1. TypeOK'
  BY DEF TypeOK, TimeInv
<1>2. PhaseInv'
  BY DEF TypeOK, PhaseInv
<1>3. TimeInv'
  BY DEF TypeOK, PhaseInv, TimeInv
<1>4. DrainInv'
  BY DEF TypeOK, PhaseInv, TimeInv, DrainInv
<1>5. NoLinkForgotten'
  BY DEF TypeOK, PhaseInv, NoLinkForgotten
<1> QED BY <1>1, <1>2, <1>3, <1>4, <1>5

\* Success keeps the link.
LEMMA RaceWonKeeps ==
    ASSUME IInv, RaceWon PROVE IInv'
<1> USE NamesAssumption, DelaysAssumption DEF IInv, RaceWon, ArmIdle, Finish
<1>1. TypeOK'
  BY DEF TypeOK, PhaseInv
<1>2. PhaseInv'
  BY DEF TypeOK, PhaseInv
<1>3. TimeInv'
  BY DEF TypeOK, PhaseInv, TimeInv
<1>4. DrainInv'
  BY DEF TypeOK, PhaseInv, TimeInv, DrainInv
<1>5. NoLinkForgotten'
  BY DEF TypeOK, PhaseInv, NoLinkForgotten
<1> QED BY <1>1, <1>2, <1>3, <1>4, <1>5

\* The finally clause releases the link.
LEMMA RaceRaisedKeeps ==
    ASSUME IInv, RaceRaised PROVE IInv'
<1> USE NamesAssumption, DelaysAssumption DEF IInv, RaceRaised, Settle, Reset, RelAfter, Finish
<1>1. TypeOK'
  <2>1. hint' \in BOOLEAN
    BY Zenon DEF TypeOK, IInv, RaceRaised, Settle, Reset
  <2> QED BY <2>1 DEF TypeOK, PhaseInv
<1>2. PhaseInv'
  BY DEF TypeOK, PhaseInv
<1>3. TimeInv'
  BY DEF TypeOK, PhaseInv, TimeInv
<1>4. DrainInv'
  BY DEF TypeOK, PhaseInv, TimeInv, DrainInv
<1>5. NoLinkForgotten'
  BY DEF TypeOK, PhaseInv, NoLinkForgotten
<1> QED BY <1>1, <1>2, <1>3, <1>4, <1>5

\* The link is released before the error is raised.
LEMMA FailUnsafeKeeps ==
    ASSUME IInv, FailUnsafe PROVE IInv'
<1> USE NamesAssumption, DelaysAssumption DEF IInv, FailUnsafe, AttemptFailed, Reset, RelAfter, Finish
<1>1. TypeOK'
  <2>1. hint' \in BOOLEAN
    BY Zenon DEF TypeOK, IInv, FailUnsafe, Reset
  <2> QED BY <2>1 DEF TypeOK, PhaseInv
<1>2. PhaseInv'
  BY DEF TypeOK, PhaseInv
<1>3. TimeInv'
  BY DEF TypeOK, PhaseInv, TimeInv
<1>4. DrainInv'
  BY DEF TypeOK, PhaseInv, TimeInv, DrainInv
<1>5. NoLinkForgotten'
  BY DEF TypeOK, PhaseInv, NoLinkForgotten
<1> QED BY <1>1, <1>2, <1>3, <1>4, <1>5

\* The link is released, or known to be down.
LEMMA FailLastKeeps ==
    ASSUME IInv, FailLast PROVE IInv'
<1> USE NamesAssumption, DelaysAssumption DEF IInv, FailLast, AttemptFailed, Reset, RelAfter, Finish
<1>1. TypeOK'
  <2>1. hint' \in BOOLEAN
    BY Zenon DEF TypeOK, IInv, FailLast, Reset
  <2> QED BY <2>1 DEF TypeOK, PhaseInv
<1>2. PhaseInv'
  BY DEF TypeOK, PhaseInv
<1>3. TimeInv'
  BY DEF TypeOK, PhaseInv, TimeInv
<1>4. DrainInv'
  BY DEF TypeOK, PhaseInv, TimeInv, DrainInv
<1>5. NoLinkForgotten'
  BY DEF TypeOK, PhaseInv, NoLinkForgotten
<1> QED BY <1>1, <1>2, <1>3, <1>4, <1>5

\* The same, and the retry sleep starts before the deadline.
LEMMA FailRetryKeeps ==
    ASSUME IInv, FailRetry PROVE IInv'
<1> USE NamesAssumption, DelaysAssumption DEF IInv, FailRetry, AttemptFailed, Settle, Reset, RelAfter, Await
<1>1. TypeOK'
  <2>1. hint' \in BOOLEAN
    BY Zenon DEF TypeOK, IInv, FailRetry, Settle, Reset
  <2> QED BY <2>1 DEF TypeOK, PhaseInv
<1>2. PhaseInv'
  BY DEF TypeOK, PhaseInv
<1>3. TimeInv'
  BY DEF TypeOK, PhaseInv, TimeInv
<1>4. DrainInv'
  BY DEF TypeOK, PhaseInv, TimeInv, DrainInv
<1>5. NoLinkForgotten'
  BY DEF TypeOK, PhaseInv, NoLinkForgotten
<1> QED BY <1>1, <1>2, <1>3, <1>4, <1>5

\* The next attempt starts with no link up.
LEMMA BackoffOverKeeps ==
    ASSUME IInv, BackoffOver PROVE IInv'
<1> USE NamesAssumption, DelaysAssumption DEF IInv, BackoffOver
<1>1. TypeOK'
  BY DEF TypeOK, PhaseInv
<1>2. PhaseInv'
  BY DEF TypeOK, PhaseInv
<1>3. TimeInv'
  BY DEF TypeOK, PhaseInv, TimeInv
<1>4. DrainInv'
  BY DEF TypeOK, PhaseInv, TimeInv, DrainInv
<1>5. NoLinkForgotten'
  BY DEF TypeOK, PhaseInv, NoLinkForgotten
<1> QED BY <1>1, <1>2, <1>3, <1>4, <1>5

\* Cancellation releases the link of a running operation.
LEMMA CancelHolderKeeps ==
    ASSUME IInv, CancelHolder PROVE IInv'
<1> USE NamesAssumption, DelaysAssumption DEF IInv, CancelHolder, Settle, Reset, RelAfter, Finish
<1>1. TypeOK'
  <2>1. hint' \in BOOLEAN
    BY Zenon DEF TypeOK, IInv, CancelHolder, Settle, Reset
  <2> QED BY <2>1 DEF TypeOK, PhaseInv
<1>2. PhaseInv'
  BY DEF TypeOK, PhaseInv
<1>3. TimeInv'
  BY DEF TypeOK, PhaseInv, TimeInv
<1>4. DrainInv'
  BY DEF TypeOK, PhaseInv, TimeInv, DrainInv
<1>5. NoLinkForgotten'
  BY DEF TypeOK, PhaseInv, NoLinkForgotten
<1> QED BY <1>1, <1>2, <1>3, <1>4, <1>5

\* The one link that is up is held, or late.
LEMMA ConnectedKeeps ==
    ASSUME IInv, NEW n \in Clients, Connected(n) PROVE IInv'
<1> USE NamesAssumption, DelaysAssumption DEF IInv, Connected, Launch, Finish
<1>1. TypeOK'
  <2>1. hint' \in BOOLEAN
    BY Zenon DEF TypeOK, IInv, Connected
  <2> QED BY <2>1 DEF TypeOK, PhaseInv
<1>2. PhaseInv'
  BY DEF TypeOK, PhaseInv
<1>3. TimeInv'
  BY DEF TypeOK, PhaseInv, TimeInv
<1>4. DrainInv'
  BY DEF TypeOK, PhaseInv, TimeInv, DrainInv
<1>5. NoLinkForgotten'
  BY DEF TypeOK, PhaseInv, NoLinkForgotten
<1> QED BY <1>1, <1>2, <1>3, <1>4, <1>5

\* Nothing is held while connecting.
LEMMA ConnectFailedKeeps ==
    ASSUME IInv, ConnectFailed PROVE IInv'
<1> USE NamesAssumption, DelaysAssumption DEF IInv, ConnectFailed, Reset, RelAfter, ArmIdle, Finish
<1>1. TypeOK'
  <2>1. hint' \in BOOLEAN
    BY Zenon DEF TypeOK, IInv, ConnectFailed, Reset
  <2> QED BY <2>1 DEF TypeOK, PhaseInv
<1>2. PhaseInv'
  BY DEF TypeOK, PhaseInv
<1>3. TimeInv'
  BY DEF TypeOK, PhaseInv, TimeInv
<1>4. DrainInv'
  BY DEF TypeOK, PhaseInv, TimeInv, DrainInv
<1>5. NoLinkForgotten'
  BY DEF TypeOK, PhaseInv, NoLinkForgotten
<1> QED BY <1>1, <1>2, <1>3, <1>4, <1>5

\* The closure ends; the session is untouched.
LEMMA OperationEndsKeeps ==
    ASSUME IInv, NEW r \in {"ok", "failed", "raised"}, OperationEnds(r) PROVE IInv'
<1> USE NamesAssumption, DelaysAssumption DEF IInv, OperationEnds
<1>1. TypeOK'
  BY DEF TypeOK, PhaseInv
<1>2. PhaseInv'
  BY DEF TypeOK, PhaseInv
<1>3. TimeInv'
  BY DEF TypeOK, PhaseInv, TimeInv
<1>4. DrainInv'
  BY DEF TypeOK, PhaseInv, TimeInv, DrainInv
<1>5. NoLinkForgotten'
  BY DEF TypeOK, PhaseInv, NoLinkForgotten
<1> QED BY <1>1, <1>2, <1>3, <1>4, <1>5

\* A drop is confirmed only when the link is down.
LEMMA WatchDropKeeps ==
    ASSUME IInv, WatchDrop PROVE IInv'
<1> USE NamesAssumption, DelaysAssumption DEF IInv, WatchDrop
<1>1. TypeOK'
  BY DEF TypeOK, PhaseInv
<1>2. PhaseInv'
  BY DEF TypeOK, PhaseInv
<1>3. TimeInv'
  BY DEF TypeOK, PhaseInv, TimeInv
<1>4. DrainInv'
  BY DEF TypeOK, PhaseInv, TimeInv, DrainInv
<1>5. NoLinkForgotten'
  BY DEF TypeOK, PhaseInv, NoLinkForgotten
<1> QED BY <1>1, <1>2, <1>3, <1>4, <1>5

\* The idle timer releases what it takes.
LEMMA IdleFiresKeeps ==
    ASSUME IInv, IdleFires PROVE IInv'
<1> USE NamesAssumption, DelaysAssumption DEF IInv, IdleFires, Reset, RelAfter
<1>1. TypeOK'
  <2>1. hint' \in BOOLEAN
    BY Zenon DEF TypeOK, IInv, IdleFires, Reset
  <2> QED BY <2>1 DEF TypeOK, PhaseInv
<1>2. PhaseInv'
  BY DEF TypeOK, PhaseInv
<1>3. TimeInv'
  BY DEF TypeOK, PhaseInv, TimeInv
<1>4. DrainInv'
  BY DEF TypeOK, PhaseInv, TimeInv, DrainInv
<1>5. NoLinkForgotten'
  BY DEF TypeOK, PhaseInv, NoLinkForgotten
<1> QED BY <1>1, <1>2, <1>3, <1>4, <1>5

\* A release only takes links down.
LEMMA ReleaseEndsKeeps ==
    ASSUME IInv, NEW c \in Clients, ReleaseEnds(c) PROVE IInv'
<1> USE NamesAssumption, DelaysAssumption DEF IInv, ReleaseEnds
<1>1. TypeOK'
  BY DEF TypeOK, PhaseInv
<1>2. PhaseInv'
  BY DEF TypeOK, PhaseInv
<1>3. TimeInv'
  BY DEF TypeOK, PhaseInv, TimeInv
<1>4. DrainInv'
  BY DEF TypeOK, PhaseInv, TimeInv, DrainInv
<1>5. NoLinkForgotten'
  BY DEF TypeOK, PhaseInv, NoLinkForgotten
<1> QED BY <1>1, <1>2, <1>3, <1>4, <1>5

\* No link is up.
LEMMA LinkDropsKeeps ==
    ASSUME IInv, LinkDrops PROVE IInv'
<1> USE NamesAssumption, DelaysAssumption DEF IInv, LinkDrops
<1>1. TypeOK'
  BY DEF TypeOK, PhaseInv
<1>2. PhaseInv'
  BY DEF TypeOK, PhaseInv
<1>3. TimeInv'
  BY DEF TypeOK, PhaseInv, TimeInv
<1>4. DrainInv'
  BY DEF TypeOK, PhaseInv, TimeInv, DrainInv
<1>5. NoLinkForgotten'
  BY DEF TypeOK, PhaseInv, NoLinkForgotten
<1> QED BY <1>1, <1>2, <1>3, <1>4, <1>5

\* Only the hint changes.
LEMMA CallbackArrivesKeeps ==
    ASSUME IInv, CallbackArrives PROVE IInv'
<1> USE NamesAssumption, DelaysAssumption DEF IInv, CallbackArrives
<1>1. TypeOK'
  BY DEF TypeOK, PhaseInv
<1>2. PhaseInv'
  BY DEF TypeOK, PhaseInv
<1>3. TimeInv'
  BY DEF TypeOK, PhaseInv, TimeInv
<1>4. DrainInv'
  BY DEF TypeOK, PhaseInv, TimeInv, DrainInv
<1>5. NoLinkForgotten'
  BY DEF TypeOK, PhaseInv, NoLinkForgotten
<1> QED BY <1>1, <1>2, <1>3, <1>4, <1>5

\* Time passes only while no timer is due.
LEMMA TickKeeps ==
    ASSUME IInv, Tick PROVE IInv'
<1> USE NamesAssumption, DelaysAssumption DEF IInv, Tick, Quiescent, Pending
<1>1. TypeOK'
  BY DEF TypeOK, PhaseInv
<1>2. PhaseInv'
  BY DEF TypeOK, PhaseInv
<1>3. TimeInv'
  BY DEF TypeOK, PhaseInv, TimeInv
<1>4. DrainInv'
  BY DEF TypeOK, PhaseInv, TimeInv, DrainInv
<1>5. NoLinkForgotten'
  BY DEF TypeOK, PhaseInv, NoLinkForgotten
<1> QED BY <1>1, <1>2, <1>3, <1>4, <1>5

\* Every step keeps the inductive invariant.
LEMMA StepInv == IInv /\ [Next]_vars => IInv'
<1> SUFFICES ASSUME IInv, [Next]_vars PROVE IInv'
  OBVIOUS
<1>1. ASSUME NEW c \in Callers, NEW k \in {"safe", "unsafe", "close"}, Call(c, k) PROVE IInv'
  BY <1>1, CallKeeps
<1>2. ASSUME NEW c \in Callers, CancelWaiter(c) PROVE IInv'
  BY <1>2, CancelWaiterKeeps
<1>3. CASE Acquire
  BY <1>3, AcquireKeeps
<1>4. CASE Close
  BY <1>4, CloseKeeps
<1>5. CASE StartTooLate
  BY <1>5, StartTooLateKeeps
<1>6. CASE StartReused
  BY <1>6, StartReusedKeeps
<1>7. CASE StartFresh
  BY <1>7, StartFreshKeeps
<1>8. CASE Drained
  BY <1>8, DrainedKeeps
<1>9. CASE RaceWon
  BY <1>9, RaceWonKeeps
<1>10. CASE RaceRaised
  BY <1>10, RaceRaisedKeeps
<1>11. CASE FailUnsafe
  BY <1>11, FailUnsafeKeeps
<1>12. CASE FailLast
  BY <1>12, FailLastKeeps
<1>13. CASE FailRetry
  BY <1>13, FailRetryKeeps
<1>14. CASE BackoffOver
  BY <1>14, BackoffOverKeeps
<1>15. CASE CancelHolder
  BY <1>15, CancelHolderKeeps
<1>16. ASSUME NEW n \in Clients, Connected(n) PROVE IInv'
  BY <1>16, ConnectedKeeps
<1>17. CASE ConnectFailed
  BY <1>17, ConnectFailedKeeps
<1>18. ASSUME NEW r \in {"ok", "failed", "raised"}, OperationEnds(r) PROVE IInv'
  BY <1>18, OperationEndsKeeps
<1>19. CASE WatchDrop
  BY <1>19, WatchDropKeeps
<1>20. CASE IdleFires
  BY <1>20, IdleFiresKeeps
<1>21. ASSUME NEW c \in Clients, ReleaseEnds(c) PROVE IInv'
  BY <1>21, ReleaseEndsKeeps
<1>22. CASE LinkDrops
  BY <1>22, LinkDropsKeeps
<1>23. CASE CallbackArrives
  BY <1>23, CallbackArrivesKeeps
<1>24. CASE Tick
  BY <1>24, TickKeeps
<1>25. CASE UNCHANGED vars
  BY <1>25 DEF vars, exec, IInv, TypeOK, PhaseInv, TimeInv, DrainInv, NoLinkForgotten
<1> QED BY <1>1, <1>2, <1>3, <1>4, <1>5, <1>6, <1>7, <1>8, <1>9, <1>10, <1>11,
       <1>12, <1>13, <1>14, <1>15, <1>16, <1>17, <1>18, <1>19, <1>20, <1>21,
       <1>22, <1>23, <1>24, <1>25 DEF Next, Loop

\* Hence it holds in every reachable state.
LEMMA InvAlways == Spec => []IInv
BY InitInv, StepInv, PTL DEF Spec

-----------------------------------------------------------------------------
\* Every reachable state is well typed.
THEOREM TypeCorrect == Spec => []TypeOK
<1>1. IInv => TypeOK
  BY DEF IInv
<1> QED BY <1>1, InvAlways, PTL

\* No interleaving of calls, drops, cancellations and timers loses a link: one
\* that is up is held, was handed to a release, or came up past its deadline.
THEOREM NoLinkLost == Spec => []NoLinkForgotten
<1>1. IInv => NoLinkForgotten
  BY DEF IInv
<1> QED BY <1>1, InvAlways, PTL

\* However drain, connect, operation and retry sleep divide the time, the lock
\* is released less than one retry delay after the deadline.
THEOREM LockHeldBounded == Spec => []HoldBounded
<1>1. IInv => HoldBounded
  BY DelaysAssumption DEF IInv, TypeOK, PhaseInv, TimeInv, HoldBounded
<1> QED BY <1>1, InvAlways, PTL

\* The first connect of an operation has no release beside it.
THEOREM FirstConnectAlone == Spec => []FirstConnectDrained
<1>1. IInv => FirstConnectDrained
  BY DEF IInv, TypeOK, DrainInv, FirstConnectDrained, Pending
<1> QED BY <1>1, InvAlways, PTL

-----------------------------------------------------------------------------
(* What can take the link from a running operation.                        *)

Severed == phase = "race" /\ phase' = "race" /\ cur = held

\* Whoever calls, cancels, releases or drops beside a running operation, only
\* the idle timer takes its link from the session.
THEOREM OnlyIdleTakesTheLink == Spec => OnlyIdleSevers
<1>1. IInv /\ [Next]_vars => (Severed => held' = held \/ idle = 0)
  <2> SUFFICES ASSUME IInv, [Next]_vars, Severed PROVE held' = held \/ idle = 0
    OBVIOUS
  <2> USE DEF IInv, PhaseInv, Severed
  <2>1. ASSUME NEW c \in Callers, NEW k \in {"safe", "unsafe", "close"}, Call(c, k) PROVE held' = held \/ idle = 0
    BY <2>1 DEF Call
  <2>2. ASSUME NEW c \in Callers, CancelWaiter(c) PROVE held' = held \/ idle = 0
    BY <2>2 DEF CancelWaiter
  <2>3. CASE Acquire
    BY <2>3 DEF Acquire
  <2>4. CASE Close
    BY <2>4 DEF Close, Reset
  <2>5. CASE StartTooLate
    BY <2>5 DEF StartTooLate, Finish
  <2>6. CASE StartReused
    BY <2>6 DEF StartReused
  <2>7. CASE StartFresh
    BY <2>7 DEF StartFresh
  <2>8. CASE Drained
    BY <2>8 DEF Drained
  <2>9. CASE RaceWon
    BY <2>9 DEF RaceWon, Finish
  <2>10. CASE RaceRaised
    BY <2>10 DEF RaceRaised, Finish
  <2>11. CASE FailUnsafe
    BY <2>11 DEF FailUnsafe, Finish
  <2>12. CASE FailLast
    BY <2>12 DEF FailLast, Finish
  <2>13. CASE FailRetry
    BY <2>13 DEF FailRetry, Await
  <2>14. CASE BackoffOver
    BY <2>14 DEF BackoffOver
  <2>15. CASE CancelHolder
    BY <2>15 DEF CancelHolder, Finish
  <2>16. ASSUME NEW n \in Clients, Connected(n) PROVE held' = held \/ idle = 0
    BY <2>16 DEF Connected
  <2>17. CASE ConnectFailed
    BY <2>17 DEF ConnectFailed
  <2>18. ASSUME NEW r \in {"ok", "failed", "raised"}, OperationEnds(r) PROVE held' = held \/ idle = 0
    BY <2>18 DEF OperationEnds
  <2>19. CASE WatchDrop
    BY <2>19 DEF WatchDrop
  <2>20. CASE IdleFires
    BY <2>20 DEF IdleFires
  <2>21. ASSUME NEW c \in Clients, ReleaseEnds(c) PROVE held' = held \/ idle = 0
    BY <2>21 DEF ReleaseEnds
  <2>22. CASE LinkDrops
    BY <2>22 DEF LinkDrops
  <2>23. CASE CallbackArrives
    BY <2>23 DEF CallbackArrives
  <2>24. CASE Tick
    BY <2>24 DEF Tick
  <2>25. CASE UNCHANGED vars
    BY <2>25 DEF vars
  <2> QED BY <2>1, <2>2, <2>3, <2>4, <2>5, <2>6, <2>7, <2>8, <2>9, <2>10,
         <2>11, <2>12, <2>13, <2>14, <2>15, <2>16, <2>17, <2>18, <2>19, <2>20,
         <2>21, <2>22, <2>23, <2>24, <2>25 DEF Next, Loop
<1> QED BY <1>1, InvAlways, PTL DEF Spec, OnlyIdleSevers, Severed

-----------------------------------------------------------------------------
(* Without an idle timer nothing takes the link from a running operation.  *)

OwnInv == idle = Off /\ OperationOwnsLink

\* With idle_release_seconds left at None, an operation's link stays the held
\* one for as long as the operation runs, whoever else calls or disconnects.
THEOREM OperationOwnsItsLink ==
    ASSUME IdleSeconds = 0 PROVE Spec => []OperationOwnsLink
<1>1. Init => OwnInv
  BY DEF Init, OwnInv, OperationOwnsLink
<1>2. IInv /\ OwnInv /\ [Next]_vars => OwnInv'
  <2> SUFFICES ASSUME IInv, OwnInv, [Next]_vars PROVE OwnInv'
    OBVIOUS
  <2> USE IdleSeconds = 0 DEF IInv, PhaseInv, OwnInv, OperationOwnsLink
  <2>1. ASSUME NEW c \in Callers, NEW k \in {"safe", "unsafe", "close"}, Call(c, k) PROVE OwnInv'
    BY <2>1 DEF Call
  <2>2. ASSUME NEW c \in Callers, CancelWaiter(c) PROVE OwnInv'
    BY <2>2 DEF CancelWaiter
  <2>3. CASE Acquire
    BY <2>3 DEF Acquire
  <2>4. CASE Close
    BY <2>4 DEF Close, Reset
  <2>5. CASE StartTooLate
    BY <2>5 DEF StartTooLate, Reset, ArmIdle, Finish
  <2>6. CASE StartReused
    BY <2>6 DEF StartReused, Reusable, Launch
  <2>7. CASE StartFresh
    BY <2>7 DEF StartFresh, Reusable, Reset, Await
  <2>8. CASE Drained
    BY <2>8 DEF Drained, Pending, Await
  <2>9. CASE RaceWon
    BY <2>9 DEF RaceWon, ArmIdle, Finish
  <2>10. CASE RaceRaised
    BY <2>10 DEF RaceRaised, Settle, Reset, Finish
  <2>11. CASE FailUnsafe
    BY <2>11 DEF FailUnsafe, Reset, Finish
  <2>12. CASE FailLast
    BY <2>12 DEF FailLast, Reset, Finish
  <2>13. CASE FailRetry
    BY <2>13 DEF FailRetry, Settle, Reset, Await
  <2>14. CASE BackoffOver
    BY <2>14 DEF BackoffOver
  <2>15. CASE CancelHolder
    BY <2>15 DEF CancelHolder, Settle, Reset, Finish
  <2>16. ASSUME NEW n \in Clients, Connected(n) PROVE OwnInv'
    BY <2>16 DEF Connected, Launch, Finish
  <2>17. CASE ConnectFailed
    BY <2>17 DEF ConnectFailed, Reset, ArmIdle, Finish
  <2>18. ASSUME NEW r \in {"ok", "failed", "raised"}, OperationEnds(r) PROVE OwnInv'
    BY <2>18 DEF OperationEnds
  <2>19. CASE WatchDrop
    BY <2>19 DEF WatchDrop
  <2>20. CASE IdleFires
    BY <2>20 DEF IdleFires, Reset
  <2>21. ASSUME NEW c \in Clients, ReleaseEnds(c) PROVE OwnInv'
    BY <2>21 DEF ReleaseEnds
  <2>22. CASE LinkDrops
    BY <2>22 DEF LinkDrops
  <2>23. CASE CallbackArrives
    BY <2>23 DEF CallbackArrives
  <2>24. CASE Tick
    BY <2>24 DEF Tick, Quiescent, Pending
  <2>25. CASE UNCHANGED vars
    BY <2>25 DEF vars, exec
  <2> QED BY <2>1, <2>2, <2>3, <2>4, <2>5, <2>6, <2>7, <2>8, <2>9, <2>10,
         <2>11, <2>12, <2>13, <2>14, <2>15, <2>16, <2>17, <2>18, <2>19, <2>20,
         <2>21, <2>22, <2>23, <2>24, <2>25 DEF Next, Loop
<1>3. OwnInv => OperationOwnsLink
  BY DEF OwnInv
<1> QED BY <1>1, <1>2, <1>3, InvAlways, PTL DEF Spec

-----------------------------------------------------------------------------
(* A held link that nobody uses is being timed.                            *)

\* However the operations queue and end, the one that leaves a link behind for
\* nobody starts its timer.  A cancellation after the operation has succeeded
\* would not (see the README): hence the assumption.
THEOREM HeldLinkIsTimed ==
    ASSUME MayCancel = FALSE PROVE Spec => []HeldLinkTimed
<1>1. Init => HeldLinkTimed
  BY DEF Init, HeldLinkTimed
<1>2. IInv /\ HeldLinkTimed /\ [Next]_vars => HeldLinkTimed'
  <2> SUFFICES ASSUME IInv, HeldLinkTimed, [Next]_vars PROVE HeldLinkTimed'
    OBVIOUS
  <2> USE NamesAssumption, DelaysAssumption, MayCancel = FALSE
          DEF IInv, TypeOK, PhaseInv, HeldLinkTimed
  <2>1. ASSUME NEW c \in Callers, NEW k \in {"safe", "unsafe", "close"}, Call(c, k)
        PROVE  HeldLinkTimed'
    <3>1. queue' = Append(queue, c) /\ queue \in Seq(Callers)
      BY <2>1, Zenon DEF Call
    <3>2. queue' # <<>>
      BY <3>1
    <3> QED BY <3>2
  <2>2. ASSUME NEW c \in Callers, CancelWaiter(c) PROVE HeldLinkTimed'
    BY <2>2 DEF CancelWaiter
  <2>3. CASE Acquire
    BY <2>3 DEF Acquire
  <2>4. CASE Close
    BY <2>4 DEF Close, Reset
  <2>5. CASE StartTooLate
    BY <2>5 DEF StartTooLate, Reset
  <2>6. CASE StartReused \/ StartFresh \/ Drained \/ FailRetry \/ BackoffOver
    <3>1. holder' = holder /\ holder # None
      BY <2>6 DEF StartReused, StartFresh, Drained, FailRetry, BackoffOver, AttemptFailed
    <3> QED BY <3>1
  <2>7. CASE RaceWon
    BY <2>7 DEF RaceWon, ArmIdle
  <2>8. CASE RaceRaised
    BY <2>8 DEF RaceRaised, Settle, Reset
  <2>9. CASE FailUnsafe \/ FailLast \/ ConnectFailed
    <3>1. held' = None
      BY <2>9, Zenon DEF FailUnsafe, FailLast, ConnectFailed, Reset
    <3> QED BY <3>1
  <2>10. CASE CancelHolder
    BY <2>10 DEF CancelHolder
  <2>11. ASSUME NEW n \in Clients, Connected(n) PROVE HeldLinkTimed'
    BY <2>11 DEF Connected, Finish
  <2>12. CASE IdleFires
    BY <2>12 DEF IdleFires, Reset
  <2>13. CASE \/ \E r \in {"ok", "failed", "raised"} : OperationEnds(r)
              \/ WatchDrop \/ (\E c \in Clients : ReleaseEnds(c))
              \/ LinkDrops \/ CallbackArrives \/ UNCHANGED vars
    <3>1. holder' = holder /\ queue' = queue /\ held' = held /\ idle' = idle
      BY <2>13, Zenon DEF OperationEnds, WatchDrop, ReleaseEnds, LinkDrops, CallbackArrives, vars
    <3> QED BY <3>1
  <2>14. CASE Tick
    BY <2>14 DEF Tick, Quiescent
  <2> QED BY <2>1, <2>2, <2>3, <2>4, <2>5, <2>6, <2>7, <2>8, <2>9, <2>10, <2>11,
         <2>12, <2>13, <2>14 DEF Next, Loop
<1> QED BY <1>1, <1>2, InvAlways, PTL DEF Spec

-----------------------------------------------------------------------------
(* Refinement: how a step moves the links.  Each lemma is one kind of step. *)

HeldIdle == held # None => rel[held] < 0   \* a held link is not being released

\* A step that changes neither the held link nor any pending release.
LEMMA SameLinks ==
    ASSUME held' = held, \A c \in Clients : rel'[c] >= 0 <=> rel[c] >= 0
    PROVE  LinkState' = LinkState
BY DEF LinkState

\* Resetting the session and scheduling the release of its link.
LEMMA HandOver ==
    ASSUME TypeOK, HeldIdle, held' = None, rel' = RelAfter(held)
    PROVE  LinkState' = LinkState \/ \E c \in Clients : Lifecycle!Release(c)
<1>1. CASE held = None
  BY <1>1, SameLinks DEF RelAfter
<1>2. CASE held # None
  <2>1. held \in Clients /\ LinkState[held] = "held"
    BY <1>2 DEF TypeOK, LinkState
  <2>2. LinkState' = [LinkState EXCEPT ![held] = "releasing"]
    <3>1. held' = None /\ \A c \in Clients : c # None /\ rel[c] \in Int
      BY NamesAssumption DEF TypeOK
    <3>2. \A c \in Clients : rel'[c] = IF c = held THEN ReleaseTimeout ELSE rel[c]
      BY <1>2 DEF TypeOK, RelAfter
    <3>3. \A c \in Clients :
             LinkState'[c] = IF c = held THEN "releasing" ELSE LinkState[c]
      BY <3>1, <3>2, DelaysAssumption DEF LinkState
    <3> QED BY <3>3 DEF LinkState
  <2> QED BY <2>1, <2>2 DEF Lifecycle!Release, Lifecycle!Move
<1> QED BY <1>1, <1>2

\* Resetting the session without a release.
LEMMA LetGo ==
    ASSUME TypeOK, HeldIdle, held' = None, rel' = rel
    PROVE  LinkState' = LinkState \/ \E c \in Clients : Lifecycle!Forget(c)
<1>1. CASE held = None
  BY <1>1, SameLinks
<1>2. CASE held # None
  <2>1. held \in Clients /\ LinkState[held] = "held"
    BY <1>2 DEF TypeOK, LinkState
  <2>2. LinkState' = [LinkState EXCEPT ![held] = "closed"]
    <3>1. \A c \in Clients : c # None /\ rel[c] \in Int
      BY NamesAssumption DEF TypeOK
    <3>2. \A c \in Clients :
             LinkState'[c] = IF c = held THEN "closed" ELSE LinkState[c]
      BY <1>2, <3>1 DEF LinkState, HeldIdle
    <3> QED BY <3>2 DEF LinkState
  <2> QED BY <2>1, <2>2 DEF Lifecycle!Forget, Lifecycle!Move
<1> QED BY <1>1, <1>2

\* Holding a link that came up.
LEMMA TakeUp ==
    ASSUME TypeOK, NEW n \in Clients, rel[n] < 0, held = None, held' = n,
           rel' = [rel EXCEPT ![n] = Never]
    PROVE  Lifecycle!Open(n)
<1>1. LinkState[n] = "closed" /\ \A d \in Clients : LinkState[d] # "held"
  BY NamesAssumption DEF TypeOK, LinkState
<1>2. LinkState' = [LinkState EXCEPT ![n] = "held"]
  BY NamesAssumption DEF TypeOK, LinkState
<1> QED BY <1>1, <1>2 DEF Lifecycle!Open, Lifecycle!Move

\* The end of a background release.
LEMMA ReleaseOver ==
    ASSUME TypeOK, HeldIdle, NEW c \in Clients, ReleaseEnds(c)
    PROVE  Lifecycle!End(c)
<1> USE DEF ReleaseEnds
<1>1. c # held
  BY NamesAssumption DEF TypeOK, HeldIdle
<1>2. LinkState[c] = "releasing"
  BY <1>1 DEF TypeOK, LinkState
<1>3. LinkState' = [LinkState EXCEPT ![c] = "closed"]
  <2>1. \A d \in Clients :
           LinkState'[d] = IF d = c THEN "closed" ELSE LinkState[d]
    BY <1>1 DEF TypeOK, LinkState
  <2> QED BY <2>1 DEF LinkState
<1> QED BY <1>2, <1>3 DEF Lifecycle!End, Lifecycle!Move

\* The links of the persistent client behave as LinkLifecycle says: at most one
\* is held, it is released once, and none is taken back while its release runs.
THEOREM RefinesLifecycle == Spec => Lifecycle!Safe
<1>1. Init => HeldIdle /\ Lifecycle!Init
  BY NamesAssumption DEF Init, HeldIdle, LinkState, Lifecycle!Init
<1>2. IInv /\ HeldIdle /\ [Next]_vars => HeldIdle'
  <2> SUFFICES ASSUME IInv, HeldIdle, [Next]_vars PROVE HeldIdle'
    OBVIOUS
  <2> USE NamesAssumption DEF IInv, TypeOK, HeldIdle
  <2>1. ASSUME NEW c \in Callers, NEW k \in {"safe", "unsafe", "close"}, Call(c, k) PROVE HeldIdle'
    BY <2>1 DEF Call
  <2>2. ASSUME NEW c \in Callers, CancelWaiter(c) PROVE HeldIdle'
    BY <2>2 DEF CancelWaiter
  <2>3. CASE Acquire
    BY <2>3 DEF Acquire
  <2>4. CASE Close
    BY <2>4 DEF Close, Reset, RelAfter
  <2>5. CASE StartTooLate
    BY <2>5 DEF StartTooLate, Reset, Finish
  <2>6. CASE StartReused
    BY <2>6 DEF StartReused, Launch
  <2>7. CASE StartFresh
    BY <2>7 DEF StartFresh, Reset, RelAfter, Await
  <2>8. CASE Drained
    BY <2>8 DEF Drained, Await
  <2>9. CASE RaceWon
    BY <2>9 DEF RaceWon, Finish
  <2>10. CASE RaceRaised
    BY <2>10 DEF RaceRaised, Settle, Reset, RelAfter, Finish
  <2>11. CASE FailUnsafe
    BY <2>11 DEF FailUnsafe, Reset, RelAfter, Finish
  <2>12. CASE FailLast
    BY <2>12 DEF FailLast, Reset, RelAfter, Finish
  <2>13. CASE FailRetry
    BY <2>13 DEF FailRetry, Settle, Reset, RelAfter, Await
  <2>14. CASE BackoffOver
    BY <2>14 DEF BackoffOver
  <2>15. CASE CancelHolder
    BY <2>15 DEF CancelHolder, Settle, Reset, RelAfter, Finish
  <2>16. ASSUME NEW n \in Clients, Connected(n) PROVE HeldIdle'
    BY <2>16 DEF Connected, Launch, Finish
  <2>17. CASE ConnectFailed
    BY <2>17 DEF ConnectFailed, Reset, RelAfter, Finish
  <2>18. ASSUME NEW r \in {"ok", "failed", "raised"}, OperationEnds(r) PROVE HeldIdle'
    BY <2>18 DEF OperationEnds
  <2>19. CASE WatchDrop
    BY <2>19 DEF WatchDrop
  <2>20. CASE IdleFires
    BY <2>20 DEF IdleFires, Reset, RelAfter
  <2>21. ASSUME NEW c \in Clients, ReleaseEnds(c) PROVE HeldIdle'
    BY <2>21 DEF ReleaseEnds
  <2>22. CASE LinkDrops
    BY <2>22 DEF LinkDrops
  <2>23. CASE CallbackArrives
    BY <2>23 DEF CallbackArrives
  <2>24. CASE Tick
    BY <2>24 DEF Tick
  <2>25. CASE UNCHANGED vars
    BY <2>25 DEF vars, exec
  <2> QED BY <2>1, <2>2, <2>3, <2>4, <2>5, <2>6, <2>7, <2>8, <2>9, <2>10,
         <2>11, <2>12, <2>13, <2>14, <2>15, <2>16, <2>17, <2>18, <2>19, <2>20,
         <2>21, <2>22, <2>23, <2>24, <2>25 DEF Next, Loop
<1>3. IInv /\ HeldIdle /\ [Next]_vars => [Lifecycle!Next]_LinkState
  <2> SUFFICES ASSUME IInv, HeldIdle, [Next]_vars
               PROVE  LinkState' = LinkState \/ Lifecycle!Next
    OBVIOUS
  <2> USE DEF IInv
  <2>1. ASSUME NEW c \in Callers, NEW k \in {"safe", "unsafe", "close"}, Call(c, k)
       PROVE  LinkState' = LinkState \/ Lifecycle!Next
    BY <2>1, SameLinks DEF Call
  <2>2. ASSUME NEW c \in Callers, CancelWaiter(c)
       PROVE  LinkState' = LinkState \/ Lifecycle!Next
    BY <2>2, SameLinks DEF CancelWaiter
  <2>3. CASE Acquire
    BY <2>3, SameLinks DEF Acquire
  <2>4. CASE Close
    BY <2>4, HandOver DEF Close, Reset, Lifecycle!Next
  <2>5. CASE StartTooLate
    BY <2>5, LetGo DEF StartTooLate, Reset, Lifecycle!Next
  <2>6. CASE StartReused
    BY <2>6, SameLinks DEF StartReused
  <2>7. CASE StartFresh
    BY <2>7, HandOver, LetGo, SameLinks DEF StartFresh, Settle, Reset, RelAfter, Lifecycle!Next
  <2>8. CASE Drained
    BY <2>8, SameLinks DEF Drained
  <2>9. CASE RaceWon
    BY <2>9, SameLinks DEF RaceWon
  <2>10. CASE RaceRaised
    BY <2>10, HandOver, LetGo, SameLinks DEF RaceRaised, Settle, Reset, RelAfter, Lifecycle!Next
  <2>11. CASE FailUnsafe
    BY <2>11, HandOver DEF FailUnsafe, Reset, Lifecycle!Next
  <2>12. CASE FailLast
    BY <2>12, HandOver, LetGo, SameLinks DEF FailLast, Settle, Reset, RelAfter, Lifecycle!Next
  <2>13. CASE FailRetry
    BY <2>13, HandOver, LetGo, SameLinks DEF FailRetry, Settle, Reset, RelAfter, Lifecycle!Next
  <2>14. CASE BackoffOver
    BY <2>14, SameLinks DEF BackoffOver
  <2>15. CASE CancelHolder
    BY <2>15, HandOver, LetGo, SameLinks DEF CancelHolder, Settle, Reset, RelAfter, Lifecycle!Next
  <2>16. ASSUME NEW n \in Clients, Connected(n)
       PROVE  LinkState' = LinkState \/ Lifecycle!Next
    <3> USE <2>16 DEF Connected
    <3>1. held = None
      BY DEF PhaseInv
    <3>2. CASE left > 0
      BY <3>1, <3>2, TakeUp DEF Lifecycle!Next
    <3>3. CASE ~(left > 0)
      <4>1. held' = held
        BY <3>1, <3>3
      <4>2. \A c \in Clients : rel'[c] >= 0 <=> rel[c] >= 0
        BY DEF TypeOK
      <4> QED BY <4>1, <4>2, SameLinks
    <3> QED BY <3>2, <3>3
  <2>17. CASE ConnectFailed
    BY <2>17, HandOver, LetGo, SameLinks DEF ConnectFailed, Settle, Reset, RelAfter, Lifecycle!Next
  <2>18. ASSUME NEW r \in {"ok", "failed", "raised"}, OperationEnds(r)
       PROVE  LinkState' = LinkState \/ Lifecycle!Next
    BY <2>18, SameLinks DEF OperationEnds
  <2>19. CASE WatchDrop
    BY <2>19, SameLinks DEF WatchDrop
  <2>20. CASE IdleFires
    BY <2>20, HandOver DEF IdleFires, Reset, Lifecycle!Next
  <2>21. ASSUME NEW c \in Clients, ReleaseEnds(c)
       PROVE  LinkState' = LinkState \/ Lifecycle!Next
    BY <2>21, ReleaseOver DEF Lifecycle!Next
  <2>22. CASE LinkDrops
    BY <2>22, SameLinks DEF LinkDrops
  <2>23. CASE CallbackArrives
    BY <2>23, SameLinks DEF CallbackArrives
  <2>24. CASE Tick
    BY <2>24, SameLinks DEF Tick, TypeOK
  <2>25. CASE UNCHANGED vars
    BY <2>25, SameLinks DEF vars
  <2> QED BY <2>1, <2>2, <2>3, <2>4, <2>5, <2>6, <2>7, <2>8, <2>9, <2>10,
         <2>11, <2>12, <2>13, <2>14, <2>15, <2>16, <2>17, <2>18, <2>19, <2>20,
         <2>21, <2>22, <2>23, <2>24, <2>25 DEF Next, Loop
<1> QED BY <1>1, <1>2, <1>3, InvAlways, PTL DEF Spec, Lifecycle!Safe
=============================================================================
