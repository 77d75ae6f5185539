------------------------------ MODULE HeldLink ------------------------------
(***************************************************************************)
(* The configuration calls of a client that holds its link, side by side:  *)
(* notifications on their way to a handler (NotifyDispatch), single-       *)
(* program calls (ProgramStore) and verified writes (VerifiedWrites).  A   *)
(* behaviour is one of the three, and the state of the other two stays     *)
(* that of a client on which nothing was called.  The instances are of the *)
(* modules with the proofs, so that their theorems can be cited.           *)
(***************************************************************************)
EXTENDS VerifiedWrites, DispatchDelays, StoreLayout, CallBounds

VARIABLES
    subject,    \* which of the three
    rOp, rPhase, rTimer, rTries, rLink, rActive, rDispatch, rHandler, rWindow, rAir,
    rEnabled, rHeard, rMissed,
    sConfig, sLink, sNotes, sChanges, sOwner, sAttempt, sPayloads, sAnswered, sCall, sPc,
    sFrame, sResult

Routing == INSTANCE NotifyDispatchProofs WITH
    op <- rOp, phase <- rPhase, timer <- rTimer, tries <- rTries, link <- rLink,
    active <- rActive, dispatch <- rDispatch, handler <- rHandler, window <- rWindow,
    air <- rAir, enabled <- rEnabled, heard <- rHeard, missed <- rMissed

Calls == INSTANCE ProgramStoreProofs WITH
    config <- sConfig, link <- sLink, notes <- sNotes, changes <- sChanges, owner <- sOwner,
    attempt <- sAttempt, payloads <- sPayloads, answered <- sAnswered, call <- sCall,
    pc <- sPc, frame <- sFrame, result <- sResult

writeVars   == <<transaction, vars, renameVars>>
routingVars == <<rOp, rPhase, rTimer, rTries, rLink, rActive, rDispatch, rHandler, rWindow,
                 rAir, rEnabled, rHeard, rMissed>>
storeVars   == <<sConfig, sLink, sNotes, sChanges, sOwner, sAttempt, sPayloads, sAnswered,
                 sCall, sPc, sFrame, sResult>>

LinkInit ==
    /\ WritesInit /\ Routing!Init /\ Calls!Init
    /\ subject \in {"writes", "routing", "store"}

Writes(A) == subject = "writes" /\ A /\ UNCHANGED <<subject, routingVars, storeVars>>
Routes(A) == subject = "routing" /\ A /\ UNCHANGED <<subject, writeVars, storeVars>>
Stores(A) == subject = "store" /\ A /\ UNCHANGED <<subject, writeVars, routingVars>>

\* Every call has ended: the one way in which nothing may be left to do.
AllEnded == (\A c \in Callers : sPc[c] \in Calls!Verdicts) /\ UNCHANGED storeVars

\* Next of one of the three.
LinkNext ==
    \/ Writes(WritesNext)
    \/ Routes(Routing!Begin) \/ Routes(Routing!SwapHandler) \/ Routes(Routing!Subscribe)
    \/ Routes(Routing!Subscribed) \/ Routes(Routing!SubscribeFails) \/ Routes(Routing!Write)
    \/ Routes(Routing!BareWrite) \/ Routes(Routing!Succeed) \/ Routes(Routing!Fail)
    \/ Routes(Routing!Release) \/ Routes(Routing!Dispatch) \/ Routes(Routing!Lose)
    \/ Routes(Routing!Tick)
    \/ \E c \in Callers :
          \/ Stores(Calls!Call(c)) \/ Stores(Calls!Acquire(c)) \/ Stores(Calls!WriteFrame(c))
          \/ Stores(Calls!Request(c)) \/ Stores(Calls!Handle(c)) \/ Stores(Calls!Finish(c))
          \/ Stores(Calls!Connect(c)) \/ Stores(Calls!Retry(c)) \/ Stores(Calls!Fail(c))
          \/ Stores(Calls!Cancel(c))
    \/ Stores(Calls!Lose) \/ Stores(Calls!IdleRelease) \/ Stores(Calls!Interfere)
    \/ Stores(AllEnded)

LinkSpec == LinkInit /\ [][LinkNext]_<<subject, writeVars, routingVars, storeVars>>

-----------------------------------------------------------------------------
(* What must hold, as the modules state it.                                *)

\* Types of the dispatcher: subscription and handler are of the current session.
RoutingTypeOK == Routing!TypeOK

\* No operation is given a frame that another one caused less than a settle
\* delay ago.
StragglersStayOut == Routing!StragglersStayOut

\* The straggler window costs no operation a frame of its own.
NoFrameMissed == Routing!NoFrameMissed

\* A link is subscribed once, however many operations use it.
SubscribedOnce == Routing!SubscribedOnce

\* Types of the program calls: only the owner of the lock runs.
StoreTypeOK == Calls!TypeOK

\* A configuration read returns what the controller held when it answered.
ReadTrue == Calls!ReadTrue

\* A set that returns normally was in force as a whole during its call.
SetVerified == Calls!SetVerified

\* Interleaved sets of one program do not all succeed and leave a mixture.
MixtureNoticed == Calls!MixtureNoticed
=============================================================================
