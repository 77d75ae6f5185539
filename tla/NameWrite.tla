----------------------------- MODULE NameWrite ------------------------------
(***************************************************************************)
(* write_station_name of client_v2.py: on one connection, a complete read  *)
(* of the names, the two halves of one name, each acknowledged, and a      *)
(* second complete read.                                                   *)
(*                                                                         *)
(* Names map halves (Frags) to values.  While the link is up nobody else   *)
(* writes: the controller holds one connection.  NameRead shows what a     *)
(* read can end in; here it is complete, invalid (InvalidSnapshot), or     *)
(* fails (any other exception).                                            *)
(***************************************************************************)
EXTENDS Integers, Sequences, FiniteSets

CONSTANTS
    Frags,      \* halves of names
    Values      \* what a half may hold

Configs == [Frags -> Values]
Pair    == [1 .. 2 -> Frags \X Values]   \* the frames of a rename

VARIABLES
    names,      \* what the controller holds
    before,     \* the caller's baseline
    frames,     \* two frames, for the two halves of one output
    expected,   \* the names the caller expects
    phase,      \* "idle", "connect" or a phase of the diagnostics
    part,       \* frames written
    acked,      \* session.acknowledged
    rejected,   \* session.rejected
    outcome,    \* how the last call ended
    up,         \* the link
    cmds,       \* commands on their way
    notes,      \* acknowledgements on their way
    read,       \* history: names answered to the readback, as a set
    sent        \* history: frames written

call == <<before, frames, expected>>
vars == <<names, call, phase, part, acked, rejected, outcome, up, cmds, notes, read, sent>>

Init ==
    /\ names \in Configs /\ before = names /\ expected = names
    /\ frames \in Pair /\ frames[1][1] # frames[2][1]
    /\ phase = "idle" /\ part = 0 /\ acked = FALSE /\ rejected = FALSE
    /\ outcome = "none" /\ up = FALSE /\ cmds = <<>> /\ notes = <<>>
    /\ read = {} /\ sent = 0

End(verdict) ==
    /\ phase' = "idle" /\ outcome' = verdict
    /\ up' = FALSE /\ notes' = <<>>
    /\ UNCHANGED <<names, call, part, acked, rejected, cmds, sent>>

\* One call is enough: all that outlives it is the names, and Init and
\* Interfere range over those.
Begin ==
    /\ phase = "idle" /\ outcome = "none" /\ phase' = "connect"
    /\ before' \in Configs /\ expected' \in Configs
    /\ frames' \in Pair /\ frames'[1][1] # frames'[2][1]
    /\ UNCHANGED <<names, part, acked, rejected, outcome, up, cmds, notes, read, sent>>

Open ==
    /\ phase = "connect" /\ phase' = "preflight" /\ up' = TRUE
    /\ UNCHANGED <<names, call, part, acked, rejected, outcome, cmds, notes, read, sent>>

\* The frame of the next part, its header remembered, the event cleared.
Send ==
    /\ up /\ phase' = "await_ack" /\ part' = part + 1
    /\ acked' = FALSE /\ rejected' = FALSE
    /\ cmds' = Append(cmds, frames[part + 1]) /\ sent' = sent + 1
    /\ UNCHANGED <<names, call, outcome, up, notes, read>>

\* The preflight read is complete: StaleProgram, or the first part.
Preflight ==
    /\ phase = "preflight" /\ up
    /\ \/ names # before /\ End("stale") /\ UNCHANGED read
       \/ names = before /\ Send

\* Mutant of NextPart: the readback follows the first part.
NextPartOnce ==
    /\ phase = "await_ack" /\ acked /\ ~rejected
    /\ phase' = "readback"
    /\ UNCHANGED <<names, call, part, acked, rejected, outcome, up, cmds, notes, read, sent>>

\* Mutant of NextPart: whatever wakes the waiter is an acknowledgement.
NextPartRefused ==
    /\ phase = "await_ack" /\ acked /\ part < 2 /\ Send

NextPart ==
    /\ phase = "await_ack" /\ acked /\ ~rejected
    /\ \/ part < 2 /\ Send
       \/ /\ part = 2 /\ phase' = "readback"
          /\ UNCHANGED <<names, call, part, acked, rejected, outcome, up, cmds, notes, read, sent>>

Rejected ==
    /\ phase = "await_ack" /\ acked /\ rejected
    /\ End("uncertain") /\ UNCHANGED read

\* Mutant of Verify: the acknowledgements are enough.
VerifyNothing ==
    /\ phase = "readback" /\ up /\ read # {}
    /\ End("confirmed") /\ UNCHANGED read

\* The readback is complete.
Verify ==
    /\ phase = "readback" /\ up /\ read # {}
    /\ End(IF read = {expected} THEN "confirmed" ELSE "uncertain")
    /\ UNCHANGED read

\* InvalidSnapshot from either read passes through unwrapped.
Invalid ==
    /\ phase \in {"preflight", "readback"} /\ up
    /\ End("invalid") /\ UNCHANGED read

\* Every other exception: connecting, writing, waiting, a deadline, a drop.
Fail ==
    /\ phase # "idle" /\ End("uncertain") /\ UNCHANGED read

\* CancelledError is not wrapped.
Cancel ==
    /\ phase # "idle" /\ End("cancelled") /\ UNCHANGED read

-----------------------------------------------------------------------------
(* Notifications, the controller, and others.                              *)

\* handle_notification outside the reads; the F0 reply carries no part.
Handle ==
    /\ up /\ notes # <<>> /\ notes' = Tail(notes)
    /\ LET n == Head(notes)
           waiting == phase = "await_ack"
           rejects == waiting /\ n = <<"reject">>
           acks == waiting /\ (n = <<"short">> \/ n = <<"part", frames[part][1]>>)
       IN  /\ acked' = (acked \/ rejects \/ acks)
           /\ rejected' = (rejected \/ rejects)
    /\ UNCHANGED <<names, call, phase, part, outcome, up, cmds, read, sent>>

\* A half is stored or refused, answered once, twice or never.
Store ==
    /\ cmds # <<>> /\ cmds' = Tail(cmds)
    /\ LET f == Head(cmds)
           Answers == {<<>>, << <<"short">> >>, << <<"part", f[1]>> >>, << <<"short">>, <<"part", f[1]>> >>}
       IN  \/ /\ names' = [names EXCEPT ![f[1]] = f[2]]
              /\ \E a \in Answers : notes' = IF up THEN notes \o a ELSE notes
           \/ /\ up /\ notes' = Append(notes, <<"reject">>) /\ UNCHANGED names
    /\ UNCHANGED <<call, phase, part, acked, rejected, outcome, up, read, sent>>

\* The readback is answered, after the halves that were sent before it.
Report ==
    /\ phase = "readback" /\ up /\ cmds = <<>> /\ read = {}
    /\ read' = {names}
    /\ UNCHANGED <<names, call, phase, part, acked, rejected, outcome, up, cmds, notes, sent>>

LinkDrops ==
    /\ up /\ up' = FALSE /\ cmds' = <<>> /\ notes' = <<>>
    /\ UNCHANGED <<names, call, phase, part, acked, rejected, outcome, read, sent>>

Interfere ==
    /\ ~up /\ phase \in {"idle", "connect"}
    /\ names' \in Configs
    /\ UNCHANGED <<call, phase, part, acked, rejected, outcome, up, cmds, notes, read, sent>>

Next ==
    \/ Begin \/ Open \/ Preflight \/ NextPart \/ Rejected \/ Verify
    \/ Invalid \/ Fail \/ Cancel
    \/ Handle \/ Store \/ Report \/ LinkDrops \/ Interfere

Spec == Init /\ [][Next]_vars

-----------------------------------------------------------------------------
(* What must hold.                                                         *)

\* Types; the two parts go out one after the other, each when the one before
\* was answered, and nothing is confirmed before both have.
TypeOK ==
    /\ names \in Configs /\ before \in Configs /\ expected \in Configs /\ frames \in Pair
    /\ phase \in {"idle", "connect", "preflight", "await_ack", "readback"}
    /\ part \in 0 .. 2 /\ acked \in BOOLEAN /\ rejected \in BOOLEAN
    /\ outcome \in {"none", "confirmed", "stale", "invalid", "uncertain", "cancelled"}
    /\ up \in BOOLEAN /\ read \subseteq Configs /\ sent \in 0 .. 2
    /\ rejected => acked
    /\ phase = "preflight" => ~acked
    /\ outcome = "confirmed" => sent = 2

\* No tail on a head that is not there: once the second half is on its way, and
\* for as long as the call runs, the controller holds the first half, whatever
\* it refused, answered twice or never, and however late.
SecondOnFirst ==
    phase # "idle" /\ sent = 2 => names[frames[1][1]] = frames[1][2]

\* A failure after the first write frame is surfaced as uncertain.
FailureUncertain == outcome = "invalid" => sent = 0

\* The transaction keeps the promise of VerifiedWrite ("confirmed": the readback
\* was answered with the names the caller expects), to a caller that takes
\* InvalidSnapshot after a write for uncertain.
Promise == INSTANCE VerifiedWrite WITH
    Configs <- Configs, Goals <- SUBSET Configs, config <- names, goal <- {expected},
    wrote   <- sent > 0,
    verdict <- IF outcome = "stale" THEN "refused"
               ELSE IF outcome = "invalid" THEN IF sent = 0 THEN "refused" ELSE "uncertain"
               ELSE outcome,
    stage   <- IF phase = "idle" THEN "idle" ELSE IF read = {expected} THEN "seen" ELSE "open"

KeepsPromise == Promise!Spec
=============================================================================
