------------------------ MODULE NotifyDispatchProofs ------------------------
(***************************************************************************)
(* For all delays, and any number of operations and frames that come at    *)
(* any time: the straggler window and the sleeps of a subscription keep    *)
(* young frames of earlier operations out, cost an operation none of its   *)
(* own, and no link is subscribed twice.                                   *)
(***************************************************************************)
EXTENDS NotifyDispatch, TLAPS

\* TypeOK without the frames, whose types the solvers are given apart.
Scalars ==
    /\ op \in Nat /\ phase \in Phases /\ timer \in Nat /\ tries \in Nat
    /\ link \in Nat /\ active \in {0, link} /\ dispatch \in {0, active}
    /\ handler \in {0, op} /\ window \in 0 .. Settle
    /\ enabled \in Nat /\ missed \in BOOLEAN

\* What is so of the session, and what is so of the frames.
SessionInv == Scalars /\ HandlerInv /\ SubscriptionInv /\ NoFrameMissed /\ SubscribedOnce

FrameInv ==
    /\ air \subseteq Frame /\ heard \subseteq Frame
    /\ \A f \in air : f.op # op => Straggler(f)
    /\ StragglersStayOut

IInv == SessionInv /\ FrameInv

USE DelaysAssumption

\* The parts are the invariants of the specification.
LEMMA Parts == IInv <=> /\ TypeOK /\ RoutingInv /\ SubscriptionInv
                        /\ StragglersStayOut /\ NoFrameMissed /\ SubscribedOnce
BY DEF IInv, SessionInv, FrameInv, Scalars, TypeOK, RoutingInv

\* A frame, for the solvers.
LEMMA Framed == \A f \in Frame : f.op \in Nat /\ f.age \in Nat /\ f.age <= Settle
BY DEF Frame

(* What a step does to the frames.                                         *)

\* A step that adds no frame, and none an earlier operation's to those heard,
\* keeps them if what is still under way may be.
LEMMA SameFramesKeep ==
    ASSUME FrameInv, air' \subseteq air, heard' \in {heard, {}},
           op' = op \/ heard' = {},
           \A f \in Frame : (f.op # op => Straggler(f)) => (f.op # op' => Straggler(f)')
    PROVE  FrameInv'
<1>1. \A f \in air' : f.op # op' => Straggler(f)'
  <2> SUFFICES ASSUME NEW f \in air', f.op # op' PROVE Straggler(f)'
    OBVIOUS
  <2>1. f \in Frame /\ (f.op # op => Straggler(f))
    BY DEF FrameInv
  <2> QED BY <2>1
<1>2. StragglersStayOut'
  BY DEF FrameInv, StragglersStayOut
<1> QED BY <1>1, <1>2 DEF FrameInv

(* The inductive invariant holds initially, and every action keeps it.     *)

LEMMA InitInv == Init => IInv
<1> SUFFICES ASSUME Init PROVE IInv
  OBVIOUS
<1>1. missed \in BOOLEAN /\ ~missed
  BY Zenon DEF Init
<1>2. SessionInv
  BY <1>1 DEF Init, SessionInv, Scalars, HandlerInv, SubscriptionInv, NoFrameMissed, SubscribedOnce, Phases
<1>3. FrameInv
  BY DEF Init, FrameInv, StragglersStayOut
<1> QED BY <1>2, <1>3 DEF IInv

\* A new operation: what is under way is an earlier one's.
LEMMA BeginKeeps == ASSUME IInv, Begin PROVE IInv'
<1>1. missed' \in BOOLEAN
  BY Zenon DEF IInv, SessionInv, Scalars, Begin, session, call, seen
<1>2. SessionInv'
  BY <1>1 DEF IInv, SessionInv, Scalars, HandlerInv, SubscriptionInv, NoFrameMissed, SubscribedOnce, Phases,
     Begin, session, call, seen
<1>3. \A f \in Frame : (f.op # op => Straggler(f)) => (f.op # op' => Straggler(f)')
  BY Framed DEF IInv, SessionInv, Scalars, HandlerInv, Phases, Straggler, Begin, session, call
<1>4. air' \subseteq air /\ heard' \in {heard, {}} /\ (op' = op \/ heard' = {})
  BY DEF Begin, session, call, seen
<1>5. FrameInv'
  BY <1>3, <1>4, SameFramesKeep DEF IInv
<1> QED BY <1>2, <1>5 DEF IInv

\* The swap opens a window as long as the settle delay.
LEMMA SwapHandlerKeeps == ASSUME IInv, SwapHandler PROVE IInv'
<1>1. missed' \in BOOLEAN
  BY Zenon DEF IInv, SessionInv, Scalars, SwapHandler, session, call, seen
<1>2. SessionInv'
  BY <1>1 DEF IInv, SessionInv, Scalars, HandlerInv, SubscriptionInv, NoFrameMissed, SubscribedOnce, Phases,
     SwapHandler, session, call, seen
<1>3. \A f \in Frame : (f.op # op => Straggler(f)) => (f.op # op' => Straggler(f)')
  BY Framed DEF IInv, SessionInv, Scalars, HandlerInv, Phases, Straggler, SwapHandler, session, call
<1>4. air' \subseteq air /\ heard' \in {heard, {}} /\ (op' = op \/ heard' = {})
  BY DEF SwapHandler, session, call, seen
<1>5. FrameInv'
  BY <1>3, <1>4, SameFramesKeep DEF IInv
<1> QED BY <1>2, <1>5 DEF IInv

\* Routing stops before the sleep that precedes the subscription.
LEMMA SubscribeKeeps == ASSUME IInv, Subscribe PROVE IInv'
<1>1. missed' \in BOOLEAN
  BY Zenon DEF IInv, SessionInv, Scalars, Subscribe, session, call, seen
<1>2. SessionInv'
  BY <1>1 DEF IInv, SessionInv, Scalars, HandlerInv, SubscriptionInv, NoFrameMissed, SubscribedOnce, Phases,
     Subscribe, session, call, seen
<1>3. \A f \in Frame : (f.op # op => Straggler(f)) => (f.op # op' => Straggler(f)')
  BY Framed DEF IInv, SessionInv, Scalars, HandlerInv, Phases, Straggler, Subscribe, session, call
<1>4. air' \subseteq air /\ heard' \in {heard, {}} /\ (op' = op \/ heard' = {})
  BY DEF Subscribe, session, call, seen
<1>5. FrameInv'
  BY <1>3, <1>4, SameFramesKeep DEF IInv
<1> QED BY <1>2, <1>5 DEF IInv

\* After that sleep the frames of earlier operations are old.
LEMMA SubscribedKeeps == ASSUME IInv, Subscribed PROVE IInv'
<1>1. missed' \in BOOLEAN
  BY Zenon DEF IInv, SessionInv, Scalars, Subscribed, session, call, seen
<1>2. SessionInv'
  BY <1>1 DEF IInv, SessionInv, Scalars, HandlerInv, SubscriptionInv, NoFrameMissed, SubscribedOnce, Phases,
     Subscribed, session, call, seen
<1>3. \A f \in Frame : (f.op # op => Straggler(f)) => (f.op # op' => Straggler(f)')
  BY Framed DEF IInv, SessionInv, Scalars, HandlerInv, Phases, Straggler, Subscribed, session, call
<1>4. air' \subseteq air /\ heard' \in {heard, {}} /\ (op' = op \/ heard' = {})
  BY DEF Subscribed, session, call, seen
<1>5. FrameInv'
  BY <1>3, <1>4, SameFramesKeep DEF IInv
<1> QED BY <1>2, <1>5 DEF IInv

\* So they are after the sleeps before further attempts.
LEMMA SubscribeFailsKeeps == ASSUME IInv, SubscribeFails PROVE IInv'
<1>1. missed' \in BOOLEAN
  BY Zenon DEF IInv, SessionInv, Scalars, SubscribeFails, session, call, seen
<1>2. SessionInv'
  BY <1>1 DEF IInv, SessionInv, Scalars, HandlerInv, SubscriptionInv, NoFrameMissed, SubscribedOnce, Phases,
     SubscribeFails, session, call, seen
<1>3. \A f \in Frame : (f.op # op => Straggler(f)) => (f.op # op' => Straggler(f)')
  BY Framed DEF IInv, SessionInv, Scalars, HandlerInv, Phases, Straggler, SubscribeFails, session, call
<1>4. air' \subseteq air /\ heard' \in {heard, {}} /\ (op' = op \/ heard' = {})
  BY DEF SubscribeFails, session, call, seen
<1>5. FrameInv'
  BY <1>3, <1>4, SameFramesKeep DEF IInv
<1> QED BY <1>2, <1>5 DEF IInv

\* Routing stops, the link stays subscribed.
LEMMA SucceedKeeps == ASSUME IInv, Succeed PROVE IInv'
<1>1. missed' \in BOOLEAN
  BY Zenon DEF IInv, SessionInv, Scalars, Succeed, session, call, seen
<1>2. SessionInv'
  BY <1>1 DEF IInv, SessionInv, Scalars, HandlerInv, SubscriptionInv, NoFrameMissed, SubscribedOnce, Phases,
     Succeed, session, call, seen
<1>3. \A f \in Frame : (f.op # op => Straggler(f)) => (f.op # op' => Straggler(f)')
  BY Framed DEF IInv, SessionInv, Scalars, HandlerInv, Phases, Straggler, Succeed, session, call
<1>4. air' \subseteq air /\ heard' \in {heard, {}} /\ (op' = op \/ heard' = {})
  BY DEF Succeed, session, call, seen
<1>5. FrameInv'
  BY <1>3, <1>4, SameFramesKeep DEF IInv
<1> QED BY <1>2, <1>5 DEF IInv

\* The session is reset; frames under way find no handler.
LEMMA FailKeeps == ASSUME IInv, Fail PROVE IInv'
<1>1. missed' \in BOOLEAN
  BY Zenon DEF IInv, SessionInv, Scalars, Fail, session, call, seen
<1>2. SessionInv'
  BY <1>1 DEF IInv, SessionInv, Scalars, HandlerInv, SubscriptionInv, NoFrameMissed, SubscribedOnce, Phases,
     Fail, session, call, seen
<1>3. \A f \in Frame : (f.op # op => Straggler(f)) => (f.op # op' => Straggler(f)')
  BY Framed DEF IInv, SessionInv, Scalars, HandlerInv, Phases, Straggler, Fail, session, call
<1>4. air' \subseteq air /\ heard' \in {heard, {}} /\ (op' = op \/ heard' = {})
  BY DEF Fail, session, call, seen
<1>5. FrameInv'
  BY <1>3, <1>4, SameFramesKeep DEF IInv
<1> QED BY <1>2, <1>5 DEF IInv

\* The same between operations.
LEMMA ReleaseKeeps == ASSUME IInv, Release PROVE IInv'
<1>1. missed' \in BOOLEAN
  BY Zenon DEF IInv, SessionInv, Scalars, Release, session, call, seen
<1>2. SessionInv'
  BY <1>1 DEF IInv, SessionInv, Scalars, HandlerInv, SubscriptionInv, NoFrameMissed, SubscribedOnce, Phases,
     Release, session, call, seen
<1>3. \A f \in Frame : (f.op # op => Straggler(f)) => (f.op # op' => Straggler(f)')
  BY Framed DEF IInv, SessionInv, Scalars, HandlerInv, Phases, Straggler, Release, session, call
<1>4. air' \subseteq air /\ heard' \in {heard, {}} /\ (op' = op \/ heard' = {})
  BY DEF Release, session, call, seen
<1>5. FrameInv'
  BY <1>3, <1>4, SameFramesKeep DEF IInv
<1> QED BY <1>2, <1>5 DEF IInv

\* A frame is lost.
LEMMA LoseKeeps == ASSUME IInv, Lose PROVE IInv'
<1>1. missed' \in BOOLEAN
  BY Zenon DEF IInv, SessionInv, Scalars, Lose, session, call, seen
<1>2. SessionInv'
  BY <1>1 DEF IInv, SessionInv, Scalars, HandlerInv, SubscriptionInv, NoFrameMissed, SubscribedOnce, Phases,
     Lose, session, call, seen
<1>3. \A f \in Frame : (f.op # op => Straggler(f)) => (f.op # op' => Straggler(f)')
  BY Framed DEF IInv, SessionInv, Scalars, HandlerInv, Phases, Straggler, Lose, session, call
<1>4. air' \subseteq air /\ heard' \in {heard, {}} /\ (op' = op \/ heard' = {})
  BY DEF Lose, session, call, seen
<1>5. FrameInv'
  BY <1>3, <1>4, SameFramesKeep DEF IInv
<1> QED BY <1>2, <1>5 DEF IInv

\* A write adds frames of its own operation, and its handler is given those of
\* earlier ones only once the window, or the subscription, has let them age.
LEMMA WritesKeep == ASSUME IInv, Write \/ BareWrite PROVE IInv'
<1>1. missed' \in BOOLEAN
  BY Zenon DEF IInv, SessionInv, Scalars, Write, BareWrite, session, seen
<1>2. SessionInv'
  BY <1>1 DEF IInv, SessionInv, Scalars, HandlerInv, SubscriptionInv, NoFrameMissed, SubscribedOnce, Phases,
     Write, BareWrite, session, seen
<1>3. \A f \in Frame : (f.op # op => Straggler(f)) => (f.op # op' => Straggler(f)')
  BY Framed DEF IInv, SessionInv, Scalars, HandlerInv, Phases, Straggler, Write, BareWrite, session
<1>4. /\ air' \in {air, air \cup {[op |-> op, age |-> 0]}} /\ heard' = heard
      /\ op' = op /\ op \in Nat
  BY DEF IInv, SessionInv, Scalars, Write, BareWrite, Cause, seen
<1>5. air' \subseteq Frame
  <2>1. [op |-> op, age |-> 0] \in Frame
    BY <1>4 DEF Frame
  <2> QED BY <1>4, <2>1 DEF IInv, FrameInv
<1>6. ASSUME NEW f \in air', f.op # op' PROVE Straggler(f)'
  <2>1. f \in air
    BY <1>4, <1>6
  <2> QED BY <1>3, <1>4, <1>6, <2>1 DEF IInv, FrameInv
<1>7. StragglersStayOut'
  BY <1>4 DEF IInv, FrameInv, StragglersStayOut
<1>8. heard' \subseteq Frame
  BY <1>4 DEF IInv, FrameInv
<1> QED BY <1>2, <1>5, <1>6, <1>7, <1>8 DEF IInv, FrameInv

\* What the handler is given of earlier operations is old.
LEMMA DispatchKeeps == ASSUME IInv, Dispatch PROVE IInv'
<1> DEFINE drop == handler = 0 \/ window > 0
<1>1. PICK f \in air :
          /\ air' \in {air, air \ {f}}
          /\ heard' = IF drop THEN heard ELSE heard \cup {f}
          /\ missed' = (missed \/ (drop /\ phase = "wait" /\ f.op = op))
          /\ UNCHANGED <<op, phase, timer, tries, link, active, dispatch, handler, window, enabled>>
  BY DEF Dispatch, session, call
<1>2. ~(drop /\ phase = "wait")
  BY DEF IInv, SessionInv, Scalars, HandlerInv, SubscriptionInv
<1>3. f \in Frame /\ (f.op # op => Straggler(f))
  BY DEF IInv, FrameInv
<1>4. ~drop => f.op = op \/ f.age >= Settle
  <2>1. ~drop => phase \in {"settle", "wait"} /\ window = 0
    BY DEF IInv, SessionInv, Scalars, HandlerInv, Phases
  <2> QED BY <1>3, <2>1, Framed DEF Straggler
<1> HIDE DEF drop
<1>5. missed' = FALSE /\ missed' \in BOOLEAN
  BY <1>1, <1>2, Zenon DEF IInv, SessionInv, NoFrameMissed
<1>6. SessionInv'
  BY <1>1, <1>5 DEF IInv, SessionInv, Scalars, HandlerInv, SubscriptionInv, NoFrameMissed, SubscribedOnce
<1>7. \A g \in air' : g.op # op' => Straggler(g)'
  BY <1>1 DEF IInv, FrameInv, Straggler
<1>8. StragglersStayOut'
  BY <1>1, <1>4 DEF IInv, FrameInv, StragglersStayOut
<1>9. air' \subseteq Frame /\ heard' \subseteq Frame
  BY <1>1, <1>3 DEF IInv, FrameInv
<1> QED BY <1>6, <1>7, <1>8, <1>9 DEF IInv, FrameInv

\* The window and the sleeps run down as fast as the frames age.
LEMMA TickKeeps == ASSUME IInv, Tick PROVE IInv'
<1>1. missed' \in BOOLEAN
  BY Zenon DEF IInv, SessionInv, Scalars, Tick, seen
<1>2. SessionInv'
  BY <1>1 DEF IInv, SessionInv, Scalars, HandlerInv, SubscriptionInv, NoFrameMissed, SubscribedOnce, Phases,
     Tick, Less, seen
<1>3. /\ air' = {Older(f) : f \in air} /\ heard' = heard /\ op' = op
      /\ phase' = phase /\ tries' = tries
      /\ timer \in Nat /\ timer' \in Nat /\ timer' >= timer - 1
      /\ window \in Nat /\ window' \in Nat /\ window' >= window - 1
  BY DEF IInv, SessionInv, Scalars, Tick, Less, seen
<1>4. ASSUME NEW f \in Frame
      PROVE  /\ Older(f) \in Frame /\ Older(f).op = f.op
             /\ Older(f).age >= Settle \/ Older(f).age = f.age + 1
  BY Framed DEF Older, Frame
<1>5. ASSUME NEW f \in air, f.op # op PROVE Straggler(Older(f))'
  <2>1. f \in Frame /\ Straggler(f)
    BY <1>5 DEF IInv, FrameInv
  <2>2. PICK o : o = Older(f)
    OBVIOUS
  <2>3. o.age \in Nat /\ f.age \in Nat /\ (o.age >= Settle \/ o.age = f.age + 1) /\ f.age <= Settle
    BY <1>4, <2>1, <2>2, Framed
  <2>4. Straggler(o)'
    BY <1>3, <2>1, <2>3 DEF Straggler
  <2>5. Older(f)' = Older(f)
    BY DEF Older
  <2> QED BY <2>2, <2>4 DEF Straggler, Older
<1>6. air' \subseteq Frame
  BY <1>3, <1>4 DEF IInv, FrameInv
<1>7. \A g \in air' : g.op # op' => Straggler(g)'
  <2> SUFFICES ASSUME NEW g \in air', g.op # op' PROVE Straggler(g)'
    OBVIOUS
  <2>1. PICK f \in air : g = Older(f)
    BY <1>3
  <2>2. f \in Frame
    BY DEF IInv, FrameInv
  <2>3. f.op # op
    BY <1>3, <1>4, <2>1, <2>2
  <2> QED BY <1>5, <2>1, <2>3 DEF Straggler, Older
<1>8. heard' \subseteq Frame /\ StragglersStayOut'
  BY <1>3 DEF IInv, FrameInv, StragglersStayOut
<1> QED BY <1>2, <1>6, <1>7, <1>8 DEF IInv, FrameInv

(* The theorems.                                                           *)

\* The inductive invariant is an invariant.
LEMMA InvAlways == Spec => []IInv
<1>1. IInv /\ [Next]_vars => IInv'
  <2> SUFFICES ASSUME IInv, [Next]_vars PROVE IInv'
    OBVIOUS
  <2>1. CASE Next
    BY <2>1, BeginKeeps, SwapHandlerKeeps, SubscribeKeeps, SubscribedKeeps, SubscribeFailsKeeps,
       WritesKeep, SucceedKeeps, FailKeeps, ReleaseKeeps, DispatchKeeps, LoseKeeps, TickKeeps, Zenon DEF Next
  <2>2. CASE UNCHANGED vars
    BY <2>2 DEF vars, session, call, seen, IInv, SessionInv, FrameInv, Scalars, HandlerInv, SubscriptionInv,
       StragglersStayOut, NoFrameMissed, SubscribedOnce, Straggler
  <2> QED BY <2>1, <2>2
<1> QED BY <1>1, InitInv, PTL DEF Spec

\* Every reachable state of the routing is well typed.
THEOREM TypeCorrect == Spec => []TypeOK
BY InvAlways, Parts, PTL

\* _dispatch_notification and _start_notify: for any delays, and frames that
\* come at any time, no handler is given a frame that a write of another
\* operation caused less than a settle delay ago.
THEOREM StragglersAreDropped == Spec => []StragglersStayOut
BY InvAlways, Parts, PTL

\* The straggler window never drops a frame of the operation that waits.
THEOREM WindowCostsNothing == Spec => []NoFrameMissed
BY InvAlways, Parts, PTL

\* Nothing subscribes a link that is subscribed.
THEOREM OneSubscription == Spec => []SubscribedOnce
BY InvAlways, Parts, PTL
=============================================================================
