--------------------------- MODULE VerifiedWrites ---------------------------
(***************************************************************************)
(* The two transactions that promise VerifiedWrite, side by side: a        *)
(* behaviour is one of ProgramWrite or one of NameWrite, and the other's   *)
(* state stays that of a client on which nothing was called.               *)
(***************************************************************************)
EXTENDS ProgramWrite

CONSTANTS Halves    \* halves of names; what they hold is taken from Values

VARIABLES
    transaction,    \* which of the two
    names, nBefore, nFrames, nExpected, nPhase, nPart, nAcked, nRejected, nOutcome,
    nUp, nCmds, nNotes, nRead, nSent

Rename == INSTANCE NameWrite WITH
    Frags <- Halves, before <- nBefore, frames <- nFrames, expected <- nExpected,
    phase <- nPhase, part <- nPart, acked <- nAcked, rejected <- nRejected,
    outcome <- nOutcome, up <- nUp, cmds <- nCmds, notes <- nNotes, read <- nRead, sent <- nSent

renameVars == <<names, nBefore, nFrames, nExpected, nPhase, nPart, nAcked, nRejected,
                nOutcome, nUp, nCmds, nNotes, nRead, nSent>>

WritesInit == Init /\ Rename!Init /\ transaction \in {"program", "rename"}

Transfers(A) == transaction = "program" /\ A /\ UNCHANGED <<transaction, renameVars>>
Renames(A)  == transaction = "rename" /\ A /\ UNCHANGED <<transaction, vars>>

\* Next of the one or the other, action by action.
WritesNext ==
    \/ Transfers(Begin) \/ Transfers(Preflight) \/ Transfers(Open) \/ Transfers(WriteBlock)
    \/ Transfers(ReadBack) \/ Transfers(Verify) \/ Transfers(Fail) \/ Transfers(Cancel)
    \/ Transfers(Handle) \/ Transfers(Echo) \/ Transfers(Store) \/ Transfers(Refuse) \/ Transfers(Report)
    \/ Transfers(Lose) \/ Transfers(LinkDrops) \/ Transfers(Interfere)
    \/ Renames(Rename!Begin) \/ Renames(Rename!Open) \/ Renames(Rename!Preflight)
    \/ Renames(Rename!NextPart) \/ Renames(Rename!Rejected) \/ Renames(Rename!Verify)
    \/ Renames(Rename!Invalid) \/ Renames(Rename!Fail) \/ Renames(Rename!Cancel)
    \/ Renames(Rename!Handle) \/ Renames(Rename!Store) \/ Renames(Rename!Report)
    \/ Renames(Rename!LinkDrops) \/ Renames(Rename!Interfere)

WritesSpec == WritesInit /\ [][WritesNext]_<<transaction, vars, renameVars>>

\* The types of a rename, as NameWrite states them.
RenameTypeOK == Rename!TypeOK

\* No tail on a head that is not there: once the second half of a rename is on
\* its way, and for as long as the call runs, the controller holds the first.
RenameSecondOnFirst == Rename!SecondOnFirst

\* A rename keeps the promise of VerifiedWrite, to a caller that takes
\* InvalidSnapshot after a write for uncertain.
RenameKeepsPromise == Rename!KeepsPromise
=============================================================================
