---------------------------- MODULE ProgramWrite ----------------------------
(***************************************************************************)
(* write_program_frames of client_v2.py: a preflight read in an operation  *)
(* of its own, then one operation that writes every block, waits for its   *)
(* acknowledgement, and reads everything back.                             *)
(*                                                                         *)
(* A configuration maps blocks to values.  A read reports every core block *)
(* (programs A/B/C), or fails, and any of the extra ones.  The controller  *)
(* applies commands in order; it may store a value of its own, answer with *)
(* a short acknowledgement, an echo of the block, both, a rejection, or    *)
(* nothing; and the echo of an earlier call's write may come a second      *)
(* late.  Others may change it while no link of this call is up.           *)
(***************************************************************************)
EXTENDS Integers, Sequences, FiniteSets, SequencesExt

CONSTANTS
    Core,       \* blocks irrigation_config_complete insists on
    Extra,      \* blocks a response may lack
    Values,     \* what a block may hold
    MaxFrames   \* bound on frames in a call

ASSUME BlocksAssumption ==
    /\ Core # {} /\ Core \cap Extra = {} /\ IsFiniteSet(Core \cup Extra)
    /\ MaxFrames \in Nat

Blocks    == Core \cup Extra
Configs   == [Blocks -> Values]
Snapshots == UNION {[Core \cup E -> Values] : E \in SUBSET Extra}
Frames    == UNION {[1 .. n -> Blocks \X Values] : n \in 0 .. MaxFrames}

VARIABLES
    config,      \* what the controller holds
    base,        \* before_revision: the snapshot the caller edited
    frames,      \* the frames of the call
    expected,    \* the snapshot it expects
    phase,       \* "idle" or the phase of the transaction
    block,       \* frames written
    acked,       \* the acknowledged event
    rejected,    \* the rejected flag
    started,     \* mutation_started
    payloads,    \* fragments of the readback
    outcome,     \* how the last call ended
    up,          \* the link of the mutation
    cmds,        \* commands on their way to the controller
    notes,       \* notifications on their way back
    answered,    \* history: what it held when it answered the readback
    sent         \* history: frames written by this call

call  == <<base, frames, expected>>
local == <<block, acked, rejected, payloads>>
op    == <<local, started>>
radio == <<up, cmds, notes>>
vars  == <<config, call, phase, op, outcome, radio, answered, sent>>

Init ==
    /\ config \in Configs
    /\ base \in Snapshots /\ frames = <<>> /\ expected = base
    /\ phase = "idle" /\ outcome = "none"
    /\ block = 0 /\ acked = FALSE /\ rejected = FALSE /\ started = FALSE
    /\ payloads = {} /\ up = FALSE /\ cmds = <<>> /\ notes = <<>>
    /\ answered = {} /\ sent = 0

-----------------------------------------------------------------------------
(* Snapshots.                                                              *)

\* What a read of this configuration may assemble: every core block.
Reports(c) == {[b \in Core \cup E |-> c[b]] : E \in SUBSET Extra}

\* The fragments of a response as a snapshot, when there is one.
Assembled(frags) ==
    {s \in Snapshots : frags = {<<b, s[b]>> : b \in DOMAIN s}}

\* What the frames make of a snapshot: later frames win.
Written(s, f) ==
    [b \in DOMAIN s |->
        LET hits == {i \in DOMAIN f : f[i][1] = b}
        IN  IF hits = {} THEN s[b]
            ELSE f[CHOOSE i \in hits : \A j \in hits : j <= i][2]]

\* validate_expected_write: the expectation is the preflight plus the frames.
ValidExpected(s, f, e) ==
    /\ DOMAIN e = DOMAIN s
    /\ \A i \in DOMAIN f : f[i][1] \in DOMAIN s
    /\ e = Written(s, f)

-----------------------------------------------------------------------------
(* The call.                                                               *)

\* The call ends and its link is released; nothing more is delivered to it.
End(verdict) ==
    /\ phase' = "idle" /\ outcome' = verdict
    /\ block' = 0 /\ acked' = FALSE /\ rejected' = FALSE /\ payloads' = {}
    /\ up' = FALSE /\ notes' = <<>>

\* One call is enough: all that outlives it is the configuration, and Init
\* and Interfere range over those.
Begin ==
    /\ phase = "idle" /\ outcome = "none"
    /\ base' \in Snapshots /\ expected' \in Snapshots /\ frames' \in Frames
    /\ phase' = "preflight"
    /\ UNCHANGED <<config, op, outcome, radio, answered, sent>>

\* Mutant of Preflight: the revision is not compared.
PreflightAnyRevision ==
    /\ phase = "preflight"
    /\ \E seen \in Reports(config) :
          IF ValidExpected(seen, frames, expected)
          THEN phase' = "between" /\ UNCHANGED <<local, outcome, up, notes>>
          ELSE End("refused")
    /\ UNCHANGED <<config, call, started, cmds, answered, sent>>

\* StaleProgram, InvalidSnapshot, or on to the mutation.
Preflight ==
    /\ phase = "preflight"
    /\ \E seen \in Reports(config) :
          IF seen = base /\ ValidExpected(seen, frames, expected)
          THEN phase' = "between" /\ UNCHANGED <<local, outcome, up, notes>>
          ELSE End("refused")
    /\ UNCHANGED <<config, call, started, cmds, answered, sent>>

\* The mutation's operation has its link.
Open ==
    /\ phase = "between"
    /\ phase' = "subscribe" /\ up' = TRUE
    /\ UNCHANGED <<config, call, op, outcome, cmds, notes, answered, sent>>

\* Subscribed, or the block before acknowledged.
Ready == phase = "subscribe" \/ (phase = "await_ack" /\ acked /\ ~rejected)

\* The next block: mutation_started is set before _write, which may raise.
WriteBlock ==
    /\ Ready /\ block < Len(frames)
    /\ started' = TRUE
    /\ \/ /\ up /\ phase' = "await_ack" /\ sent' = sent + 1
          /\ block' = block + 1 /\ acked' = FALSE /\ rejected' = FALSE
          /\ cmds' = Append(cmds, <<"write", frames[block + 1]>>)
          /\ UNCHANGED <<payloads, outcome, up, notes>>
       \/ End("uncertain") /\ UNCHANGED <<cmds, sent>>
    /\ UNCHANGED <<config, call, answered>>

ReadBack ==
    /\ Ready /\ block = Len(frames) /\ up
    /\ phase' = "readback" /\ payloads' = {}
    /\ cmds' = Append(cmds, <<"read">>)
    /\ UNCHANGED <<config, call, block, acked, rejected, started, outcome, up, notes, answered, sent>>

\* The readback is complete, after its idle window or at its deadline.
Verify ==
    /\ phase = "readback"
    /\ \E actual \in Assembled(payloads) :
          End(IF actual = expected THEN "confirmed" ELSE "uncertain")
    /\ UNCHANGED <<config, call, started, cmds, answered, sent>>

\* Mutant of Fail: the operation is retried like any other.
FailRetried ==
    /\ phase # "idle"
    /\ phase' = "between" /\ block' = 0 /\ up' = FALSE /\ notes' = <<>>
    /\ UNCHANGED <<config, call, acked, rejected, started, payloads, outcome, cmds, answered, sent>>

\* A read, subscription, write, acknowledgement or deadline fails, the link
\* drops, or the block was rejected: uncertain once the mutation has started.
Fail ==
    /\ phase # "idle"
    /\ End(IF started THEN "uncertain" ELSE "refused")
    /\ UNCHANGED <<config, call, started, cmds, answered, sent>>

\* CancelledError is not an Exception: no verdict is put on it.
Cancel ==
    /\ phase # "idle" /\ End("cancelled")
    /\ UNCHANGED <<config, call, started, cmds, answered, sent>>

-----------------------------------------------------------------------------
(* Notifications, the controller, and others.                              *)

\* notification_handler: what it makes of a frame depends on the phase.
Handle ==
    /\ up /\ notes # <<>> /\ notes' = Tail(notes)
    /\ LET n == Head(notes)
           ack == phase = "await_ack" /\ (n = <<"short">> \/ n = <<"echo", frames[block][1]>>)
           rejects == phase = "await_ack" /\ n = <<"reject">>
       IN  /\ acked' = (acked \/ ack \/ rejects)
           /\ rejected' = (rejected \/ rejects)
           /\ payloads' = IF phase = "readback" /\ n[1] = "frag" THEN payloads \cup {n[2]} ELSE payloads
    /\ UNCHANGED <<config, call, phase, block, started, outcome, up, cmds, answered, sent>>

\* A late frame of an earlier call: its echo of the very block that is awaited.
\* In the reads the handler keeps to read responses, and drops every echo.
Echo ==
    /\ phase = "await_ack" /\ up /\ acked' = TRUE
    /\ UNCHANGED <<config, call, phase, block, rejected, started, payloads, outcome, radio, answered, sent>>

\* The answers to a stored block: the echo comes after the short form.
Answers(b) == {<<>>, << <<"short">> >>, << <<"echo", b>> >>, << <<"short">>, <<"echo", b>> >>}

\* A block is stored, as it was sent or normalised, even after the call ended.
Store ==
    /\ cmds # <<>> /\ Head(cmds)[1] = "write" /\ cmds' = Tail(cmds)
    /\ LET b == Head(cmds)[2][1]
       IN  /\ \E v \in Values : config' = [config EXCEPT ![b] = v]
           /\ \E a \in Answers(b) : notes' = IF up THEN notes \o a ELSE notes
    /\ UNCHANGED <<call, phase, op, outcome, up, answered, sent>>

Refuse ==
    /\ up /\ cmds # <<>> /\ Head(cmds)[1] = "write" /\ cmds' = Tail(cmds)
    /\ notes' = Append(notes, <<"reject">>)
    /\ UNCHANGED <<config, call, phase, op, outcome, up, answered, sent>>

\* The readback is answered with the fragments of every block.
Report ==
    /\ up /\ cmds # <<>> /\ Head(cmds) = <<"read">> /\ cmds' = Tail(cmds)
    /\ answered' = {config}
    /\ notes' = notes \o SetToSeq({<<"frag", <<b, config[b]>> >> : b \in Blocks})
    /\ UNCHANGED <<config, call, phase, op, outcome, up, sent>>

Lose ==
    /\ notes # <<>> /\ notes' = Tail(notes)
    /\ UNCHANGED <<config, call, phase, op, outcome, up, cmds, answered, sent>>

LinkDrops ==
    /\ up /\ up' = FALSE /\ cmds' = <<>> /\ notes' = <<>>
    /\ UNCHANGED <<config, call, phase, op, outcome, answered, sent>>

\* Another client of the controller, or another call of this one.
Interfere ==
    /\ phase \in {"idle", "preflight", "between"}
    /\ config' \in Configs /\ Cardinality({b \in Blocks : config'[b] # config[b]}) = 1
    /\ UNCHANGED <<call, phase, op, outcome, radio, answered, sent>>

Next ==
    \/ Begin \/ Preflight \/ Open \/ WriteBlock \/ ReadBack \/ Verify
    \/ Fail \/ Cancel
    \/ Handle \/ Echo \/ Store \/ Refuse \/ Report \/ Lose \/ LinkDrops \/ Interfere

Spec == Init /\ [][Next]_vars

-----------------------------------------------------------------------------
(* What must hold.                                                         *)

\* Types; a rejection always wakes the waiter, no link outlives the call, and
\* no frame is written twice: the mutation is never replayed.
TypeOK ==
    /\ config \in Configs /\ base \in Snapshots /\ expected \in Snapshots
    /\ frames \in Frames
    /\ phase \in {"idle", "preflight", "between", "subscribe", "await_ack", "readback"}
    /\ block \in 0 .. Len(frames) /\ acked \in BOOLEAN /\ rejected \in BOOLEAN
    /\ started \in BOOLEAN /\ payloads \subseteq Blocks \X Values
    /\ outcome \in {"none", "confirmed", "refused", "uncertain", "cancelled"}
    /\ up \in BOOLEAN /\ answered \subseteq Configs
    /\ rejected => acked
    /\ up => phase \in {"subscribe", "await_ack", "readback"}
    /\ sent \in 0 .. Len(frames)

\* The configurations that give the caller what it asked for: its baseline
\* with its frames in it.
Goal == {c \in Configs : \A b \in DOMAIN base : c[b] = Written(base, frames)[b]}

\* The transaction keeps the promise of VerifiedWrite.  "Confirmed" means that
\* the controller, when it answered the readback, held the caller's baseline
\* with the frames of the call in it, whatever it lost, normalised or
\* acknowledged late and whoever else wrote before; "refused", that this call
\* has written nothing.
Promise == INSTANCE VerifiedWrite WITH
    Configs <- Configs, Goals <- SUBSET Configs, config <- config, goal <- Goal,
    wrote   <- started, verdict <- outcome,
    stage   <- IF phase = "idle" THEN "idle"
               ELSE IF answered # {} /\ answered \subseteq Goal THEN "seen" ELSE "open"

KeepsPromise == Promise!Spec
=============================================================================
