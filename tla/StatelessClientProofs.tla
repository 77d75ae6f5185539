----------------------- MODULE StatelessClientProofs -----------------------
(***************************************************************************)
(* Proofs about StatelessClient, for any number of callers, any deadline   *)
(* and delays DelaysAssumption allows, with or without cancellation.       *)
(*                                                                         *)
(* OwnLinkIsActive and NoLinkOutlivesAttempt are inductive beside TypeOK.  *)
(* CallBounded is not: it needs TimeInv, which says what the time left is  *)
(* worth in each phase of a call.                                          *)
(***************************************************************************)
EXTENDS StatelessClient, TLAPS

\* What a call has left of its deadline.  A connect may wait for all of it; a
\* race ends with it; the disconnect and the sleep that follow may overrun it,
\* each by no more than its own length.  A raw session has no deadline.
TimeOf(r) ==
    /\ r.pc = "idle" => r = Idle
    /\ r.kind = "none" => r.pc = "idle"
    /\ r.kind = "raw" => r.left = 0
    /\ r.pc = "raw" => r.kind = "raw"
    /\ r.pc = "connect" => r.left = r.wait
    /\ r.pc = "race" => r.left >= 0
    /\ r.pc = "closing" => r.left >= r.wait - CloseTimeout
    /\ r.pc = "backoff" => r.left > r.wait - RetryDelay /\ r.attempt < MaxAttempts

TimeInv == \A c \in Callers : TimeOf(run[c])

IInv == TypeOK /\ TimeInv /\ OwnLinkIsActive /\ NoLinkOutlivesAttempt

USE DEF link

-----------------------------------------------------------------------------
(* One call's record: what each way of changing it keeps.                  *)

\* The record of a call that is not running is well typed and has time 0.
LEMMA IdleSound == Idle \in Calls /\ TimeOf(Idle)
BY DelaysAssumption, SMT DEF Idle, Calls, TimeOf

\* A step that gives c a sound record keeps every record sound.
LEMMA BecomesSound ==
    ASSUME TypeOK, TimeInv, NEW c \in Callers, NEW r \in Calls, TimeOf(r), Becomes(c, r)
    PROVE  /\ run' \in [Callers -> Calls]
           /\ TimeInv'
           /\ run'[c] = r
           /\ \A d \in Callers \ {c} : run'[d] = run[d]
<1>1. run' = [run EXCEPT ![c] = r]
  BY DEF Becomes
<1>2. run \in [Callers -> Calls]
  BY DEF TypeOK
<1>3. /\ run' \in [Callers -> Calls]
      /\ run'[c] = r
      /\ \A d \in Callers \ {c} : run'[d] = run[d]
  BY <1>1, <1>2
<1>4. \A d \in Callers : TimeOf(run'[d])
  BY <1>3 DEF TimeInv
<1>5. TimeInv'
  BY <1>4 DEF TimeInv, TimeOf, Idle
<1> QED BY <1>3, <1>5

\* The retry decision after a failed attempt: a sleep begins only while the
\* deadline has not passed.
LEMMA RetriedSound ==
    ASSUME NEW r \in Calls, r.kind = "raw" => r.left = 0, r.kind # "none"
    PROVE  Retried(r) \in Calls /\ TimeOf(Retried(r)) /\ Retried(r).pc \in {"idle", "backoff"}
<1>1. CASE r.left > 0 /\ r.attempt < MaxAttempts
  <2> DEFINE q == [r EXCEPT !.pc = "backoff", !.wait = RetryDelay, !.retry = FALSE]
  <2>1. Retried(r) = q
    BY <1>1 DEF Retried
  <2>2. q \in Calls
    <3>1. RetryDelay \in Nat /\ FALSE \in BOOLEAN
      BY DelaysAssumption
    <3> QED BY <3>1, Zenon DEF Calls
  <2>3. /\ q.pc = "backoff" /\ q.wait = RetryDelay
        /\ q.kind = r.kind /\ q.left = r.left /\ q.attempt = r.attempt
    BY DEF Calls
  <2>4. r.left \in Int /\ r.attempt \in Nat
    BY DEF Calls
  <2>5. TimeOf(q)
    BY <1>1, <2>3, <2>4, DelaysAssumption, SMT DEF TimeOf
  <2> QED BY <2>1, <2>2, <2>3, <2>5
<1>2. CASE ~(r.left > 0 /\ r.attempt < MaxAttempts)
  <2>1. Retried(r) = Idle
    BY <1>2 DEF Retried
  <2> QED BY <2>1, IdleSound DEF Idle
<1> QED BY <1>1, <1>2

\* The passing of time, when nothing of the call is due.
LEMMA LaterSound ==
    ASSUME NEW r \in Calls, TimeOf(r),
           r.pc \in {"connect", "closing", "backoff"} =>
              r.wait > 0 \/ (r.pc = "connect" /\ r.kind = "raw"),
           r.pc = "race" => r.left > 0
    PROVE  Later(r) \in Calls /\ TimeOf(Later(r)) /\ Later(r).pc = r.pc
<1>1. Later(r).pc = r.pc /\ Later(r).kind = r.kind /\ Later(r).attempt = r.attempt
  BY DEF Later, Calls
<1>2. Later(r) \in Calls
  <2> DEFINE l == IF r.kind \in {"safe", "unsafe"} THEN r.left - 1 ELSE r.left
             w == IF r.wait > 0 THEN r.wait - 1 ELSE r.wait
  <2>1. l \in Int /\ w \in Nat
    BY SMT DEF Calls
  <2>2. Later(r) = [r EXCEPT !.left = l, !.wait = w]
    BY DEF Later, Calls
  <2> QED BY <2>1, <2>2 DEF Calls
<1>3. r.pc = "idle" => Later(r) = Idle
  <2> SUFFICES ASSUME r.pc = "idle" PROVE Later(r) = Idle
    OBVIOUS
  <2>1. r = Idle
    BY DEF TimeOf
  <2>2. Later(Idle) = [Idle EXCEPT !.left = 0, !.wait = 0]
    BY SMT DEF Later, Idle
  <2> QED BY <2>1, <2>2 DEF Idle
<1>4. /\ Later(r).left = IF r.kind \in {"safe", "unsafe"} THEN r.left - 1 ELSE r.left
      /\ Later(r).wait = IF r.wait > 0 THEN r.wait - 1 ELSE r.wait
  BY DEF Later, Calls
<1>5. r.left \in Int /\ r.wait \in Nat /\ r.attempt \in Nat
  BY DEF Calls
<1>6. r.pc # "idle" => r.kind \in {"safe", "unsafe", "raw"} \/ r.kind = "none"
  BY DEF Calls
<1>7. TimeOf(Later(r))
  BY <1>1, <1>3, <1>4, <1>5, <1>6, DelaysAssumption, SMT DEF TimeOf
<1> QED BY <1>1, <1>2, <1>7

-----------------------------------------------------------------------------
(* The four ways an action disturbs the links and what is shared.          *)

Holding == {"race", "raw"}               \* a client that is the active one
Free    == {"idle", "connect", "backoff"} \* no client

\* A step of one call that leaves the links and the active client alone.
LEMMA LocalStepKeeps ==
    ASSUME IInv, NEW c \in Callers, NEW r \in Calls, TimeOf(r), Becomes(c, r),
           r.pc \in Holding => run[c].pc \in Holding,
           r.pc \in Free => run[c].pc \in Free,
           hint' \in BOOLEAN, UNCHANGED <<active, link>>
    PROVE  IInv'
<1>1. TypeOK /\ TimeInv
  BY DEF IInv
<1>2. /\ run' \in [Callers -> Calls] /\ TimeInv'
      /\ run'[c] = r /\ \A d \in Callers \ {c} : run'[d] = run[d]
  BY <1>1, BecomesSound
<1>3. active' = active /\ up' = up /\ callback' = callback /\ resisted' = resisted
  BY Zenon
<1>4. TypeOK'
  BY <1>1, <1>2, <1>3, Zenon DEF TypeOK
<1>5. up \subseteq Callers
  BY <1>1 DEF TypeOK
<1>6. OwnLinkIsActive'
  <2>1. \A d \in up : run'[d].pc \in Holding => run[d].pc \in Holding
    BY <1>2, <1>5
  <2> QED BY <2>1, <1>3 DEF IInv, OwnLinkIsActive, Holding
<1>7. NoLinkOutlivesAttempt'
  <2>1. \A d \in up : run'[d].pc \in Free => run[d].pc \in Free
    BY <1>2, <1>5
  <2> QED BY <2>1, <1>3 DEF IInv, NoLinkOutlivesAttempt, Free
<1> QED BY <1>2, <1>4, <1>6, <1>7 DEF IInv

\* A step that begins a disconnect: the active client is cleared only by the
\* call it belongs to.
LEMMA LeavingKeeps ==
    ASSUME IInv, NEW c \in Callers, NEW r \in Calls, TimeOf(r), Becomes(c, r),
           r.pc = "closing",
           active' = active \/ (active = c /\ active' = None),
           hint' \in BOOLEAN, UNCHANGED link
    PROVE  IInv'
<1>1. TypeOK /\ TimeInv
  BY DEF IInv
<1>2. /\ run' \in [Callers -> Calls] /\ TimeInv'
      /\ run'[c] = r /\ \A d \in Callers \ {c} : run'[d] = run[d]
  BY <1>1, BecomesSound
<1>3. up' = up /\ callback' = callback /\ resisted' = resisted
  BY Zenon
<1>4. TypeOK'
  <2>1. active' \in Callers \cup {None}
    BY <1>1, Zenon DEF TypeOK
  <2> QED BY <1>1, <1>2, <1>3, <2>1, Zenon DEF TypeOK
<1>5. up \subseteq Callers
  BY <1>1 DEF TypeOK
<1>6. OwnLinkIsActive'
  <2> SUFFICES ASSUME NEW d \in up, run'[d].pc \in {"race", "raw"} PROVE active' = d
    BY <1>3 DEF OwnLinkIsActive
  <2>1. d # c /\ run'[d] = run[d]
    BY <1>2, <1>5
  <2>2. active = d
    BY <2>1 DEF IInv, OwnLinkIsActive
  <2> QED BY <2>1, <2>2
<1>7. NoLinkOutlivesAttempt'
  <2> SUFFICES ASSUME NEW d \in up, run'[d].pc \in {"idle", "connect", "backoff"}
               PROVE  d \in resisted
    BY <1>3 DEF NoLinkOutlivesAttempt
  <2>1. d # c /\ run'[d] = run[d]
    BY <1>2, <1>5
  <2> QED BY <2>1 DEF IInv, NoLinkOutlivesAttempt
<1> QED BY <1>2, <1>4, <1>6, <1>7 DEF IInv

\* The end of a disconnect: whatever it did to the links, one of its own that
\* is still up has resisted it.
LEMMA ClosingKeeps ==
    ASSUME IInv, NEW c \in Callers, NEW r \in Calls, TimeOf(r), Becomes(c, r),
           r.pc \in Free, Disconnect(c), UNCHANGED <<active, hint>>
    PROVE  IInv'
<1>1. TypeOK /\ TimeInv
  BY DEF IInv
<1>2. /\ run' \in [Callers -> Calls] /\ TimeInv'
      /\ run'[c] = r /\ \A d \in Callers \ {c} : run'[d] = run[d]
  BY <1>1, BecomesSound
<1>3. up' \subseteq up /\ resisted' = (resisted \cup {c}) \cap up'
  BY DEF Disconnect
<1>4. callback' \in BOOLEAN
  BY Zenon DEF Disconnect
<1>5. up \subseteq Callers /\ up' \subseteq Callers /\ resisted' \subseteq up'
  BY <1>1, <1>3 DEF TypeOK
<1>6. TypeOK'
  BY <1>1, <1>2, <1>4, <1>5, Zenon DEF TypeOK
<1>7. OwnLinkIsActive'
  <2> SUFFICES ASSUME NEW d \in up', run'[d].pc \in {"race", "raw"} PROVE active' = d
    BY DEF OwnLinkIsActive
  <2>1. d # c /\ run'[d] = run[d] /\ d \in up
    BY <1>2, <1>3, <1>5 DEF Free
  <2> QED BY <2>1 DEF IInv, OwnLinkIsActive
<1>8. NoLinkOutlivesAttempt'
  <2> SUFFICES ASSUME NEW d \in up', run'[d].pc \in {"idle", "connect", "backoff"}
               PROVE  d \in resisted'
    BY DEF NoLinkOutlivesAttempt
  <2>1. CASE d = c
    BY <2>1, <1>3
  <2>2. CASE d # c
    <3>1. run'[d] = run[d] /\ d \in up
      BY <2>2, <1>2, <1>3, <1>5
    <3>2. d \in resisted
      BY <3>1 DEF IInv, NoLinkOutlivesAttempt
    <3> QED BY <3>2, <1>3
  <2> QED BY <2>1, <2>2
<1> QED BY <1>2, <1>6, <1>7, <1>8 DEF IInv

-----------------------------------------------------------------------------
(* Every action keeps the invariant.                                       *)

\* What the invariant says of one call.
LEMMA CallSound ==
    ASSUME IInv, NEW c \in Callers
    PROVE  /\ run[c] \in Calls /\ TimeOf(run[c])
           /\ run[c].pc # "idle" => run[c].kind # "none"
BY DEF IInv, TypeOK, TimeInv, TimeOf

LEMMA CallKeeps ==
    ASSUME IInv, NEW c \in Callers, NEW k \in {"safe", "unsafe", "raw"}, Call(c, k)
    PROVE  IInv'
<1> DEFINE budget == IF k = "raw" THEN 0 ELSE Deadline
           r == [Idle EXCEPT !.pc = "connect", !.kind = k, !.attempt = 1,
                             !.left = budget, !.wait = budget]
<1>1. budget \in Nat /\ 1 \in 0 .. MaxAttempts /\ (k = "raw" => budget = 0)
  BY DelaysAssumption, SMT
<1> HIDE DEF budget
<1>2. Idle \in Calls
  BY IdleSound
<1>3. budget \in Int
  BY <1>1, SMT
<1>4. r \in Calls
  BY <1>1, <1>2, <1>3, Zenon DEF Calls
<1>5. r.pc = "connect" /\ r.kind = k /\ r.left = budget /\ r.wait = budget
  BY <1>2 DEF Calls
<1>6. TimeOf(r) /\ r.pc = "connect"
  BY <1>1, <1>5 DEF TimeOf
<1>7. Becomes(c, r) /\ UNCHANGED <<active, hint, link>> /\ run[c].pc = "idle"
  BY DEF Call, At, budget
<1>8. hint' \in BOOLEAN
  BY <1>7, Zenon DEF IInv, TypeOK
<1> QED BY <1>4, <1>6, <1>7, <1>8, LocalStepKeeps DEF Holding, Free

LEMMA ConnectFailedKeeps ==
    ASSUME IInv, NEW c \in Callers, ConnectFailed(c)
    PROVE  IInv'
<1> DEFINE r == IF run[c].kind = "safe" THEN Retried(run[c]) ELSE Idle
<1>1. run[c] \in Calls /\ run[c].pc = "connect" /\ TimeOf(run[c])
  BY CallSound DEF ConnectFailed, At
<1>2. run[c].kind = "safe" =>
        Retried(run[c]) \in Calls /\ TimeOf(Retried(run[c])) /\ Retried(run[c]).pc \in Free
  BY <1>1, RetriedSound DEF Free
<1>3. r \in Calls /\ TimeOf(r) /\ r.pc \in Free
  BY <1>2, IdleSound DEF Free, Idle
<1>4. Becomes(c, r) /\ UNCHANGED <<active, hint, link>>
  BY DEF ConnectFailed
<1>5. hint' \in BOOLEAN
  BY <1>4, Zenon DEF IInv, TypeOK
<1> HIDE DEF r
<1> QED BY <1>1, <1>3, <1>4, <1>5, LocalStepKeeps DEF Holding, Free

LEMMA BackoffOverKeeps ==
    ASSUME IInv, NEW c \in Callers, BackoffOver(c)
    PROVE  IInv'
<1> DEFINE q == [run[c] EXCEPT !.pc = "connect", !.wait = run[c].left,
                               !.attempt = run[c].attempt + 1]
           r == IF run[c].left <= 0 THEN Idle ELSE q
<1>1. run[c] \in Calls /\ run[c].pc = "backoff" /\ TimeOf(run[c]) /\ run[c].kind # "none"
  BY CallSound DEF BackoffOver, At
<1>2. run[c].left > 0 => q \in Calls /\ TimeOf(q) /\ q.pc = "connect"
  <2> SUFFICES ASSUME run[c].left > 0 PROVE q \in Calls /\ TimeOf(q) /\ q.pc = "connect"
    OBVIOUS
  <2>1. run[c].left \in Nat /\ run[c].attempt + 1 \in 0 .. MaxAttempts
    BY <1>1, DelaysAssumption, SMT DEF Calls, TimeOf
  <2>2. q \in Calls
    BY <1>1, <2>1, Zenon DEF Calls
  <2>3. q.pc = "connect" /\ q.kind = run[c].kind /\ q.left = run[c].left /\ q.wait = run[c].left
    BY <1>1 DEF Calls
  <2> QED BY <1>1, <2>2, <2>3 DEF TimeOf
<1>3. run[c].left \in Int
  BY <1>1 DEF Calls
<1>4. r \in Calls /\ TimeOf(r) /\ r.pc \in Free
  <2>1. CASE run[c].left <= 0
    BY <2>1, IdleSound DEF Idle, Free
  <2>2. CASE ~(run[c].left <= 0)
    <3>1. run[c].left > 0
      BY <2>2, <1>3, SMT
    <3> QED BY <2>2, <3>1, <1>2 DEF Free
  <2> QED BY <2>1, <2>2
<1>5. Becomes(c, r) /\ UNCHANGED <<active, hint, link>>
  BY DEF BackoffOver
<1>6. hint' \in BOOLEAN
  BY <1>5, Zenon DEF IInv, TypeOK
<1> HIDE DEF r
<1> QED BY <1>1, <1>4, <1>5, <1>6, LocalStepKeeps DEF Holding, Free

\* The race of c goes on with another fact about its tasks.
LEMMA RaceGoesOnKeeps ==
    ASSUME IInv, NEW c \in Callers, run[c].pc = "race", hint' \in BOOLEAN,
           UNCHANGED <<active, link>>,
           \/ \E o \in {"ok", "failed", "raised", "dropped"} :
                 Becomes(c, [run[c] EXCEPT !.op = o])
           \/ Becomes(c, [run[c] EXCEPT !.drop = TRUE])
           \/ UNCHANGED run
    PROVE  IInv'
<1>1. run[c] \in Calls /\ TimeOf(run[c]) /\ run \in [Callers -> Calls]
  BY CallSound DEF IInv, TypeOK
<1>2. PICK r \in Calls : /\ Becomes(c, r)
                         /\ r.pc = "race" /\ r.kind = run[c].kind /\ r.left = run[c].left
  <2>1. CASE \E o \in {"ok", "failed", "raised", "dropped"} :
                 Becomes(c, [run[c] EXCEPT !.op = o])
    <3>1. PICK o \in {"ok", "failed", "raised", "dropped"} :
                 Becomes(c, [run[c] EXCEPT !.op = o])
      BY <2>1
    <3> DEFINE r == [run[c] EXCEPT !.op = o]
    <3>2. r \in Calls
      BY <1>1 DEF Calls
    <3>3. r.pc = "race" /\ r.kind = run[c].kind /\ r.left = run[c].left
      BY <1>1 DEF Calls
    <3> QED BY <3>1, <3>2, <3>3
  <2>2. CASE Becomes(c, [run[c] EXCEPT !.drop = TRUE])
    <3> DEFINE r == [run[c] EXCEPT !.drop = TRUE]
    <3>2. r \in Calls
      BY <1>1, Zenon DEF Calls
    <3>3. r.pc = "race" /\ r.kind = run[c].kind /\ r.left = run[c].left
      BY <1>1 DEF Calls
    <3> QED BY <2>2, <3>2, <3>3
  <2>3. CASE UNCHANGED run
    <3>1. Becomes(c, run[c])
      BY <2>3, <1>1 DEF Becomes
    <3> QED BY <3>1, <1>1
  <2> QED BY <2>1, <2>2, <2>3
<1>3. TimeOf(r)
  BY <1>1, <1>2 DEF TimeOf
<1> QED BY <1>2, <1>3, LocalStepKeeps DEF Holding, Free

LEMMA OperationEndsKeeps ==
    ASSUME IInv, NEW c \in Callers, NEW o \in {"ok", "failed", "raised"}, OperationEnds(c, o)
    PROVE  IInv'
<1>1. hint' \in BOOLEAN
  BY Zenon DEF IInv, TypeOK, OperationEnds
<1> QED BY <1>1, RaceGoesOnKeeps DEF OperationEnds, At

LEMMA CheckDropKeeps ==
    ASSUME IInv, NEW c \in Callers, CheckDrop(c)
    PROVE  IInv'
<1>1. hint' \in BOOLEAN
  BY Zenon DEF IInv, TypeOK, CheckDrop
<1>2. run[c].pc = "race" /\ UNCHANGED <<active, link>>
  BY DEF CheckDrop, At
<1>3. Becomes(c, [run[c] EXCEPT !.op = "dropped"]) \/ UNCHANGED run
  BY Zenon DEF CheckDrop
<1> QED BY <1>1, <1>2, <1>3, RaceGoesOnKeeps

LEMMA WatchDropKeeps ==
    ASSUME IInv, NEW c \in Callers, WatchDrop(c)
    PROVE  IInv'
<1>1. hint' \in BOOLEAN
  BY Zenon DEF IInv, TypeOK, WatchDrop
<1>2. run[c].pc = "race" /\ UNCHANGED <<active, link>>
  BY DEF WatchDrop, At
<1>3. Becomes(c, [run[c] EXCEPT !.drop = TRUE]) \/ UNCHANGED run
  BY Zenon DEF WatchDrop
<1> QED BY <1>1, <1>2, <1>3, RaceGoesOnKeeps

\* A fresh link: no other is up, so whoever else runs holds none.
LEMMA ConnectedKeeps ==
    ASSUME IInv, NEW c \in Callers, Connected(c)
    PROVE  IInv'
<1>1. run[c] \in Calls /\ run[c].pc = "connect" /\ TimeOf(run[c]) /\ run[c].kind # "none"
  BY CallSound DEF Connected, At
<1>2. up' = {c} /\ resisted' = {}
  BY DEF Connected
<1>3. hint' = FALSE /\ callback' = callback
  BY Zenon DEF Connected
<1>4. PICK r \in Calls :
        /\ TimeOf(r) /\ Becomes(c, r)
        /\ \/ r.pc \in Holding /\ active' = c
           \/ r.pc = "closing" /\ active' = None
  <2>1. CASE run[c].kind = "raw"
    <3> DEFINE r == [run[c] EXCEPT !.pc = "raw"]
    <3>1. r \in Calls
      BY <1>1, Zenon DEF Calls
    <3>2. r.pc = "raw" /\ r.kind = run[c].kind /\ r.left = run[c].left
      BY <1>1 DEF Calls
    <3>3. Becomes(c, r) /\ active' = c
      BY <2>1, Zenon DEF Connected
    <3>4. TimeOf(r)
      BY <1>1, <2>1, <3>2 DEF TimeOf
    <3> QED BY <3>1, <3>2, <3>3, <3>4 DEF Holding
  <2>2. CASE run[c].kind # "raw" /\ run[c].left > 0
    <3> DEFINE r == [run[c] EXCEPT !.pc = "race", !.op = "running", !.wait = 0]
    <3>1. r \in Calls
      <4>1. 0 \in Nat
        OBVIOUS
      <4> QED BY <1>1, <4>1, Zenon DEF Calls
    <3>2. r.pc = "race" /\ r.kind = run[c].kind /\ r.left = run[c].left
      BY <1>1 DEF Calls
    <3>3. Becomes(c, r) /\ active' = c
      <4>1. run[c].left \in Int
        BY <1>1 DEF Calls
      <4>2. ~(run[c].left <= 0)
        BY <2>2, <4>1, SMT
      <4> QED BY <2>2, <4>2, Zenon DEF Connected
    <3>4. TimeOf(r)
      <4>1. run[c].left \in Int
        BY <1>1 DEF Calls
      <4> QED BY <1>1, <2>2, <3>2, <4>1, SMT DEF TimeOf
    <3> QED BY <3>1, <3>2, <3>3, <3>4 DEF Holding
  <2>3. CASE run[c].kind # "raw" /\ run[c].left <= 0
    <3> DEFINE r == [run[c] EXCEPT !.pc = "closing", !.wait = CloseTimeout]
    <3>1. r \in Calls
      <4>1. CloseTimeout \in Nat
        BY DelaysAssumption
      <4> QED BY <1>1, <4>1, Zenon DEF Calls
    <3>2. /\ r.pc = "closing" /\ r.kind = run[c].kind
          /\ r.left = run[c].left /\ r.wait = CloseTimeout
      BY <1>1 DEF Calls
    <3>3. Becomes(c, r) /\ active' = None
      <4>1. run[c].left \in Int
        BY <1>1 DEF Calls
      <4>2. ~(run[c].left > 0)
        BY <2>3, <4>1, SMT
      <4> QED BY <2>3, <4>2, Zenon DEF Connected
    <3>4. TimeOf(r)
      <4>1. run[c].left = run[c].wait /\ run[c].wait \in Nat
        BY <1>1 DEF Calls, TimeOf
      <4> QED BY <1>1, <2>3, <3>2, <4>1, DelaysAssumption, SMT DEF TimeOf
    <3> QED BY <3>1, <3>2, <3>3, <3>4
  <2>4. run[c].left \in Int
    BY <1>1 DEF Calls
  <2> QED BY <2>1, <2>2, <2>3, <2>4, SMT
<1>5. /\ run' \in [Callers -> Calls] /\ TimeInv' /\ run'[c] = r
  BY <1>4, BecomesSound DEF IInv
<1>6. TypeOK'
  <2>1. active' \in Callers \cup {None} /\ up' \subseteq Callers /\ resisted' \subseteq up'
    BY <1>2, <1>4
  <2>2. hint' \in BOOLEAN /\ callback' \in BOOLEAN
    BY <1>3, Zenon DEF IInv, TypeOK
  <2> QED BY <1>5, <2>1, <2>2, Zenon DEF TypeOK
<1>7. OwnLinkIsActive'
  BY <1>2, <1>4, <1>5 DEF OwnLinkIsActive, Holding
<1>8. NoLinkOutlivesAttempt'
  BY <1>2, <1>4, <1>5 DEF NoLinkOutlivesAttempt, Holding
<1> QED BY <1>5, <1>6, <1>7, <1>8 DEF IInv

\* The finally clause of _run_operation.
LEMMA DisconnectingKeeps ==
    ASSUME IInv, NEW c \in Callers, run[c].pc = "race", NEW retry \in BOOLEAN,
           Disconnecting(c, retry)
    PROVE  IInv'
<1> DEFINE r == [run[c] EXCEPT !.pc = "closing", !.wait = CloseTimeout,
                               !.op = "none", !.drop = FALSE, !.retry = retry]
<1>1. run[c] \in Calls /\ TimeOf(run[c])
  BY CallSound
<1>2. r \in Calls
  <2>1. CloseTimeout \in Nat /\ FALSE \in BOOLEAN
    BY DelaysAssumption
  <2> QED BY <1>1, <2>1, Zenon DEF Calls
<1>3. /\ r.pc = "closing" /\ r.kind = run[c].kind
      /\ r.left = run[c].left /\ r.wait = CloseTimeout
  BY <1>1 DEF Calls
<1>4. TimeOf(r)
  <2>1. run[c].left \in Int
    BY <1>1 DEF Calls
  <2> QED BY <1>1, <1>3, <2>1, DelaysAssumption, SMT DEF TimeOf
<1>5. Becomes(c, r) /\ UNCHANGED link /\ hint' = FALSE
  BY Zenon DEF Disconnecting
<1>6. active' = active \/ (active = c /\ active' = None)
  BY DEF Disconnecting
<1>7. hint' \in BOOLEAN
  BY <1>5, Zenon
<1> HIDE DEF r
<1> QED BY <1>2, <1>3, <1>4, <1>5, <1>6, <1>7, LeavingKeeps

LEMMA DueKeeps ==
    ASSUME IInv, NEW c \in Callers, Due(c)
    PROVE  IInv'
<1>1. CASE RaceEnds(c)
  <2>1. run[c].pc = "race" /\ Disconnecting(c, FALSE)
    BY <1>1 DEF RaceEnds, At
  <2>2. FALSE \in BOOLEAN
    OBVIOUS
  <2> QED BY <2>1, <2>2, DisconnectingKeeps
<1>2. CASE AttemptFails(c)
  <2>1. run[c].pc = "race" /\ Disconnecting(c, run[c].kind = "safe")
    BY <1>2, Zenon DEF AttemptFails, At
  <2>2. (run[c].kind = "safe") \in BOOLEAN
    OBVIOUS
  <2> QED BY <2>1, <2>2, DisconnectingKeeps
<1>3. CASE BackoffOver(c)
  BY <1>3, BackoffOverKeeps
<1> QED BY <1>1, <1>2, <1>3 DEF Due

LEMMA RawEndsKeeps ==
    ASSUME IInv, NEW c \in Callers, RawEnds(c)
    PROVE  IInv'
<1> DEFINE r == [run[c] EXCEPT !.pc = "closing", !.wait = CloseTimeout]
<1>1. run[c] \in Calls /\ TimeOf(run[c]) /\ run[c].pc = "raw"
  BY CallSound DEF RawEnds, At
<1>2. r \in Calls
  <2>1. CloseTimeout \in Nat
    BY DelaysAssumption
  <2> QED BY <1>1, <2>1, Zenon DEF Calls
<1>3. /\ r.pc = "closing" /\ r.kind = run[c].kind
      /\ r.left = run[c].left /\ r.wait = CloseTimeout
  BY <1>1 DEF Calls
<1>4. TimeOf(r)
  <2>1. run[c].kind = "raw" /\ run[c].left = 0
    BY <1>1 DEF TimeOf
  <2> QED BY <1>3, <2>1, DelaysAssumption, SMT DEF TimeOf
<1>5. Becomes(c, r) /\ UNCHANGED link
  BY Zenon DEF RawEnds
<1>6. active' = active \/ (active = c /\ active' = None)
  BY Zenon DEF RawEnds
<1>7. hint' \in BOOLEAN
  BY Zenon DEF RawEnds, IInv, TypeOK
<1> HIDE DEF r
<1> QED BY <1>2, <1>3, <1>4, <1>5, <1>6, <1>7, LeavingKeeps

LEMMA ClosedKeeps ==
    ASSUME IInv, NEW c \in Callers, Closed(c)
    PROVE  IInv'
<1> DEFINE r == IF run[c].retry THEN Retried(run[c]) ELSE Idle
<1>1. run[c] \in Calls /\ TimeOf(run[c]) /\ run[c].kind # "none"
  BY CallSound DEF Closed, At
<1>2. /\ Retried(run[c]) \in Calls /\ TimeOf(Retried(run[c]))
      /\ Retried(run[c]).pc \in {"idle", "backoff"}
  BY <1>1, RetriedSound DEF TimeOf
<1>3. Idle \in Calls /\ TimeOf(Idle) /\ Idle.pc = "idle"
  BY IdleSound DEF Idle
<1>4. r = Retried(run[c]) \/ r = Idle
  BY Zenon
<1>5. Becomes(c, r) /\ Disconnect(c) /\ UNCHANGED <<active, hint>>
  BY Zenon DEF Closed
<1> HIDE DEF r
<1>6. r \in Calls /\ TimeOf(r) /\ r.pc \in Free
  BY <1>2, <1>3, <1>4 DEF Free
<1> QED BY <1>5, <1>6, ClosingKeeps

LEMMA CancelKeeps ==
    ASSUME IInv, NEW c \in Callers, Cancel(c)
    PROVE  IInv'
<1>1. Idle \in Calls /\ TimeOf(Idle) /\ Idle.pc \in Free
  BY IdleSound DEF Idle, Free
<1>2. CASE At(c, "race") /\ Disconnecting(c, FALSE)
  <2>1. FALSE \in BOOLEAN
    OBVIOUS
  <2> QED BY <1>2, <2>1, DisconnectingKeeps DEF At
<1>3. CASE RawEnds(c)
  BY <1>3, RawEndsKeeps
<1>4. CASE run[c].pc \in {"connect", "backoff"} /\ Becomes(c, Idle) /\ UNCHANGED <<active, hint, link>>
  <2>1. hint' \in BOOLEAN
    BY <1>4, Zenon DEF IInv, TypeOK
  <2>2. run[c].pc \in Free /\ ~(Idle.pc \in Holding)
    BY <1>4 DEF Free, Holding, Idle
  <2> QED BY <1>1, <1>4, <2>1, <2>2, LocalStepKeeps
<1>5. CASE At(c, "closing") /\ Disconnect(c) /\ Becomes(c, Idle) /\ UNCHANGED <<active, hint>>
  BY <1>1, <1>5, ClosingKeeps
<1> QED BY <1>2, <1>3, <1>4, <1>5, Zenon DEF Cancel

LEMMA LinkDropsKeeps ==
    ASSUME IInv, LinkDrops
    PROVE  IInv'
<1>1. /\ up' = {} /\ resisted' = {} /\ run' = run /\ active' = active
  BY DEF LinkDrops
<1>2. callback' \in BOOLEAN /\ hint' \in BOOLEAN
  BY Zenon DEF LinkDrops, IInv, TypeOK
<1>3. TypeOK'
  <2>1. up' \subseteq Callers /\ resisted' \subseteq up'
    BY <1>1
  <2> QED BY <1>1, <1>2, <2>1, Zenon DEF IInv, TypeOK
<1>4. TimeInv'
  BY <1>1 DEF IInv, TimeInv, TimeOf, Idle
<1> QED BY <1>1, <1>3, <1>4 DEF IInv, OwnLinkIsActive, NoLinkOutlivesAttempt

LEMMA CallbackArrivesKeeps ==
    ASSUME IInv, CallbackArrives
    PROVE  IInv'
<1>1. /\ up' = up /\ resisted' = resisted /\ run' = run /\ active' = active
  BY Zenon DEF CallbackArrives
<1>2. callback' \in BOOLEAN /\ hint' \in BOOLEAN
  BY Zenon DEF CallbackArrives
<1>3. TypeOK'
  BY <1>1, <1>2, Zenon DEF IInv, TypeOK
<1>4. TimeInv'
  BY <1>1 DEF IInv, TimeInv, TimeOf, Idle
<1> QED BY <1>1, <1>3, <1>4 DEF IInv, OwnLinkIsActive, NoLinkOutlivesAttempt

LEMMA TickKeeps ==
    ASSUME IInv, Tick
    PROVE  IInv'
<1>1. run' = [c \in Callers |-> Later(run[c])]
  BY DEF Tick
<1>2. active' = active /\ up' = up /\ resisted' = resisted
  BY Zenon DEF Tick
<1>3. hint' \in BOOLEAN /\ callback' \in BOOLEAN
  BY Zenon DEF Tick, IInv, TypeOK
<1>4. \A c \in Callers : /\ Later(run[c]) \in Calls /\ TimeOf(Later(run[c]))
                         /\ Later(run[c]).pc = run[c].pc
  <2> SUFFICES ASSUME NEW c \in Callers
               PROVE  /\ Later(run[c]) \in Calls /\ TimeOf(Later(run[c]))
                      /\ Later(run[c]).pc = run[c].pc
    OBVIOUS
  <2>1. run[c] \in Calls /\ TimeOf(run[c])
    BY CallSound
  <2>2. /\ run[c].pc \in {"connect", "closing", "backoff"} =>
              run[c].wait > 0 \/ (run[c].pc = "connect" /\ run[c].kind = "raw")
        /\ run[c].pc = "race" => run[c].left > 0
    BY Zenon DEF Tick, Quiescent, At
  <2> QED BY <2>1, <2>2, LaterSound
<1>5. TypeOK'
  <2>1. run' \in [Callers -> Calls]
    BY <1>1, <1>4
  <2> QED BY <1>2, <1>3, <2>1, Zenon DEF IInv, TypeOK
<1>6. TimeInv'
  <2>1. \A c \in Callers : TimeOf(run'[c])
    BY <1>1, <1>4
  <2> QED BY <2>1 DEF TimeInv, TimeOf, Idle
<1>7. \A c \in up : run'[c].pc = run[c].pc
  BY <1>1, <1>4 DEF IInv, TypeOK
<1> QED BY <1>2, <1>5, <1>6, <1>7 DEF IInv, OwnLinkIsActive, NoLinkOutlivesAttempt

-----------------------------------------------------------------------------
(* The theorems.                                                           *)

LEMMA InitHolds ==
    ASSUME Init
    PROVE  IInv
<1>1. \A c \in Callers : run[c] = Idle
  BY DEF Init
<1>2. TypeOK
  <2>1. run \in [Callers -> Calls]
    BY IdleSound DEF Init
  <2>2. hint \in BOOLEAN /\ callback \in BOOLEAN
    BY Zenon DEF Init
  <2>3. active \in Callers \cup {None} /\ up \subseteq Callers /\ resisted \subseteq up
    BY DEF Init
  <2> QED BY <2>1, <2>2, <2>3, Zenon DEF TypeOK
<1>3. TimeInv
  BY <1>1, IdleSound DEF TimeInv
<1> QED BY <1>2, <1>3 DEF IInv, OwnLinkIsActive, NoLinkOutlivesAttempt, Init

LEMMA NextKeeps ==
    ASSUME IInv, [Next]_vars
    PROVE  IInv'
<1>1. CASE Next
  <2>1. CASE \E c \in Callers :
               \/ \E k \in {"safe", "unsafe", "raw"} : Call(c, k)
               \/ Connected(c) \/ ConnectFailed(c)
               \/ Due(c) \/ RawEnds(c) \/ Closed(c) \/ Cancel(c)
               \/ \E r \in {"ok", "failed", "raised"} : OperationEnds(c, r)
               \/ CheckDrop(c) \/ WatchDrop(c)
    <3>1. PICK c \in Callers :
               \/ \E k \in {"safe", "unsafe", "raw"} : Call(c, k)
               \/ Connected(c) \/ ConnectFailed(c)
               \/ Due(c) \/ RawEnds(c) \/ Closed(c) \/ Cancel(c)
               \/ \E r \in {"ok", "failed", "raised"} : OperationEnds(c, r)
               \/ CheckDrop(c) \/ WatchDrop(c)
      BY <2>1
    <3> QED BY <3>1, CallKeeps, ConnectedKeeps, ConnectFailedKeeps, DueKeeps, RawEndsKeeps,
               ClosedKeeps, CancelKeeps, OperationEndsKeeps, CheckDropKeeps, WatchDropKeeps, Zenon
  <2>2. CASE LinkDrops
    BY <2>2, LinkDropsKeeps
  <2>3. CASE CallbackArrives
    BY <2>3, CallbackArrivesKeeps
  <2>4. CASE Tick
    BY <2>4, TickKeeps
  <2> QED BY <1>1, <2>1, <2>2, <2>3, <2>4, Zenon DEF Next
<1>2. CASE UNCHANGED vars
  <2>1. /\ run' = run /\ active' = active /\ hint' = hint /\ up' = up
        /\ callback' = callback /\ resisted' = resisted
    BY <1>2, Zenon DEF vars
  <2>2. TypeOK'
    BY <2>1, Zenon DEF IInv, TypeOK
  <2> QED BY <2>1, <2>2 DEF IInv, TimeInv, TimeOf, Idle, OwnLinkIsActive, NoLinkOutlivesAttempt
<1> QED BY <1>1, <1>2, Zenon

LEMMA InvAlways == Spec => []IInv
BY InitHolds, NextKeeps, PTL DEF Spec

\* Type correctness: no attempt beyond the last, no negative timer, and the
\* resisting links are links.
THEOREM TypeCorrect == Spec => []TypeOK
<1>1. IInv => TypeOK
  BY DEF IInv
<1> QED BY <1>1, InvAlways, PTL

\* The link of a running operation or raw session, while it is up, is the one
\* _active_client names, whatever other callers start or finish meanwhile.
THEOREM OwnLinkAlwaysActive == Spec => []OwnLinkIsActive
<1>1. IInv => OwnLinkIsActive
  BY DEF IInv
<1> QED BY <1>1, InvAlways, PTL

\* A call that has returned or sleeps has no link up, unless the backend failed
\* to close it.
THEOREM LinksClosed == Spec => []NoLinkOutlivesAttempt
<1>1. IInv => NoLinkOutlivesAttempt
  BY DEF IInv
<1> QED BY <1>1, InvAlways, PTL

\* A call never runs a retry delay or more beyond its deadline.
THEOREM CallsBounded == Spec => []CallBounded
<1>1. IInv => CallBounded
  <2> SUFFICES ASSUME IInv, NEW c \in Callers PROVE run[c].left > -RetryDelay
    BY DEF CallBounded
  <2>1. run[c] \in Calls /\ TimeOf(run[c])
    BY CallSound
  <2>2. run[c].left \in Int /\ run[c].wait \in Nat
    BY <2>1 DEF Calls
  <2>3. run[c].pc \in {"idle", "connect", "race", "raw", "closing", "backoff"}
    BY <2>1 DEF Calls
  <2>4. run[c].pc = "idle" => run[c].left = 0
    BY <2>1 DEF TimeOf, Idle
  <2> QED BY <2>1, <2>2, <2>3, <2>4, DelaysAssumption, SMT DEF TimeOf
<1> QED BY <1>1, InvAlways, PTL

\* Of all steps only _check_drop makes an operation fail for a drop.
LEMMA OnlyCheckDrop ==
    ASSUME IInv, Next, NEW c \in Callers, run'[c].op = "dropped", run[c].op = "running"
    PROVE  CheckDrop(c)
<1>1. run \in [Callers -> Calls] /\ run[c] \in Calls
  BY DEF IInv, TypeOK
<1>2. ASSUME NEW d \in Callers, NEW r, Becomes(d, r), r.op # "dropped"
      PROVE  FALSE
  <2>1. run'[c] = r \/ run'[c] = run[c]
    BY <1>1, <1>2 DEF Becomes
  <2> QED BY <2>1, <1>2
<1>3. run' # run
  OBVIOUS
<1>4. Idle.op # "dropped"
  BY DEF Idle
<1>5. ASSUME NEW d \in Callers, Becomes(d, Retried(run[d]))
      PROVE  d = c
  BY <1>1, <1>5 DEF Becomes
<1>6. ASSUME NEW d \in Callers, Becomes(d, Retried(run[d])) \/ Becomes(d, Idle)
      PROVE  FALSE
  <2>1. CASE Becomes(d, Retried(run[d]))
    <3>1. d = c
      BY <2>1, <1>5
    <3>2. Retried(run[c]).op \in {run[c].op, "none"}
      BY <1>1 DEF Retried, Idle, Calls
    <3> QED BY <2>1, <3>1, <3>2, <1>2
  <2>2. CASE Becomes(d, Idle)
    BY <2>2, <1>2, <1>4
  <2> QED BY <1>6, <2>1, <2>2
<1>7. ASSUME NEW d \in Callers, NEW retry, Disconnecting(d, retry)
      PROVE  FALSE
  <2> DEFINE r == [run[d] EXCEPT !.pc = "closing", !.wait = CloseTimeout,
                                 !.op = "none", !.drop = FALSE, !.retry = retry]
  <2>1. r.op # "dropped"
    BY <1>1 DEF Calls
  <2>2. Becomes(d, r)
    BY <1>7 DEF Disconnecting
  <2> HIDE DEF r
  <2> QED BY <1>2, <2>1, <2>2
<1>8. ASSUME NEW d \in Callers, Becomes(d, [run[d] EXCEPT !.pc = "closing", !.wait = CloseTimeout])
      PROVE  FALSE
  <2>1. run[d] \in Calls
    BY <1>1
  <2>2. [run[d] EXCEPT !.pc = "closing", !.wait = CloseTimeout].op = run[d].op
    BY <2>1 DEF Calls
  <2>3. run'[c].op = run[c].op
    BY <1>1, <1>8, <2>2 DEF Becomes
  <2> QED BY <2>3
<1>9. ASSUME NEW d \in Callers, RawEnds(d) PROVE FALSE
  BY <1>9, <1>8, Zenon DEF RawEnds
<1>10. ASSUME NEW d \in Callers, Connected(d) PROVE FALSE
  <2>1. run[d] \in Calls
    BY <1>1
  <2>2. CASE Becomes(d, [run[d] EXCEPT !.pc = "raw"])
    <3>1. [run[d] EXCEPT !.pc = "raw"].op = run[d].op
      BY <2>1 DEF Calls
    <3>2. run'[c].op = run[c].op
      BY <1>1, <2>2, <3>1 DEF Becomes
    <3> QED BY <3>2
  <2>3. CASE Becomes(d, [run[d] EXCEPT !.pc = "race", !.op = "running", !.wait = 0])
    <3>1. [run[d] EXCEPT !.pc = "race", !.op = "running", !.wait = 0].op # "dropped"
      BY <2>1 DEF Calls
    <3> QED BY <2>3, <3>1, <1>2
  <2>4. CASE Becomes(d, [run[d] EXCEPT !.pc = "closing", !.wait = CloseTimeout])
    BY <2>4, <1>8
  <2> QED BY <1>10, <2>2, <2>3, <2>4, Zenon DEF Connected
<1>11. ASSUME NEW d \in Callers, BackoffOver(d) PROVE FALSE
  <2> DEFINE q == [run[d] EXCEPT !.pc = "connect", !.wait = run[d].left,
                                 !.attempt = run[d].attempt + 1]
  <2>1. run[d] \in Calls
    BY <1>1
  <2>2. q.op = run[d].op
    BY <2>1 DEF Calls
  <2>3. Becomes(d, Idle) \/ Becomes(d, q)
    BY <1>11, Zenon DEF BackoffOver
  <2> HIDE DEF q
  <2>4. CASE Becomes(d, q)
    <3>1. run'[c].op = run[c].op
      BY <1>1, <2>2, <2>4 DEF Becomes
    <3> QED BY <3>1
  <2> QED BY <2>3, <2>4, <1>6
<1>12. ASSUME NEW d \in Callers, NEW k \in {"safe", "unsafe", "raw"}, Call(d, k) PROVE FALSE
  <2> DEFINE budget == IF k = "raw" THEN 0 ELSE Deadline
             r == [Idle EXCEPT !.pc = "connect", !.kind = k, !.attempt = 1,
                               !.left = budget, !.wait = budget]
  <2>1. Idle \in Calls
    BY IdleSound
  <2>2. Becomes(d, r)
    BY <1>12 DEF Call
  <2> HIDE DEF budget
  <2>3. r.op = Idle.op
    BY <2>1 DEF Calls
  <2> HIDE DEF r
  <2> QED BY <2>2, <2>3, <1>2, <1>4
<1>13. ASSUME NEW d \in Callers, NEW o \in {"ok", "failed", "raised"}, OperationEnds(d, o)
       PROVE  FALSE
  <2>1. [run[d] EXCEPT !.op = o].op = o
    BY <1>1 DEF Calls
  <2> QED BY <1>2, <1>13, <2>1 DEF OperationEnds
<1>14. ASSUME NEW d \in Callers, WatchDrop(d) PROVE FALSE
  <2>1. run[d] \in Calls
    BY <1>1
  <2>2. [run[d] EXCEPT !.drop = TRUE].op = run[d].op
    BY <2>1 DEF Calls
  <2>3. Becomes(d, [run[d] EXCEPT !.drop = TRUE])
    BY <1>3, <1>14, Zenon DEF WatchDrop
  <2>4. run'[c].op = run[c].op
    BY <1>1, <2>2, <2>3 DEF Becomes
  <2> QED BY <2>4
<1>15. ASSUME Tick PROVE FALSE
  <2>1. run'[c] = Later(run[c])
    BY <1>15 DEF Tick
  <2>2. Later(run[c]).op = run[c].op
    BY <1>1 DEF Later, Calls
  <2> QED BY <2>1, <2>2
<1>16. ASSUME NEW d \in Callers, CheckDrop(d) PROVE d = c
  <2>1. Becomes(d, [run[d] EXCEPT !.op = "dropped"])
    BY <1>3, <1>16, Zenon DEF CheckDrop
  <2> QED BY <1>1, <2>1 DEF Becomes
<1>17. ASSUME NEW d \in Callers, ConnectFailed(d) \/ Closed(d) PROVE FALSE
  <2>1. Becomes(d, Retried(run[d])) \/ Becomes(d, Idle)
    BY <1>17, Zenon DEF ConnectFailed, Closed
  <2> QED BY <2>1, <1>6
<1>18. ASSUME NEW d \in Callers, Cancel(d) PROVE FALSE
  BY <1>18, <1>6, <1>7, <1>9, Zenon DEF Cancel
<1>19. ASSUME NEW d \in Callers, Due(d) PROVE FALSE
  BY <1>19, <1>7, <1>11, Zenon DEF Due, RaceEnds, AttemptFails
<1>20. ASSUME LinkDrops \/ CallbackArrives PROVE FALSE
  BY <1>20, <1>3, Zenon DEF LinkDrops, CallbackArrives
<1> QED BY <1>9, <1>10, <1>12, <1>13, <1>14, <1>15, <1>16, <1>17, <1>18, <1>19, <1>20, Zenon
        DEF Next

\* An operation fails for a drop only when its own link is down: the hint and
\* the client _check_drop consults are shared, but while the operation's link
\* is up that client is its own.
THEOREM DropsAreOwn == Spec => DropIsOwn
<1> DEFINE Own == \A c \in Callers :
                     run'[c].op = "dropped" /\ run[c].op = "running" => c \notin up
<1>1. IInv /\ Next => Own
  <2> SUFFICES ASSUME IInv, Next, NEW c \in Callers,
                      run'[c].op = "dropped", run[c].op = "running", c \in up
               PROVE  FALSE
    OBVIOUS
  <2>1. run'[c] # run[c] /\ CheckDrop(c)
    BY OnlyCheckDrop
  <2>2. run' # run
    BY <2>1
  <2>3. run[c].pc = "race" /\ active \notin up
    BY <2>1, <2>2, Zenon DEF CheckDrop, At
  <2> QED BY <2>3 DEF IInv, OwnLinkIsActive
<1>2. IInv /\ [Next]_vars => [Own]_vars
  BY <1>1
<1> QED BY <1>2, InvAlways, PTL DEF Spec, DropIsOwn
=============================================================================
