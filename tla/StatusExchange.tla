--------------------------- MODULE StatusExchange ---------------------------
(***************************************************************************)
(* The operations that read a status: get_status, set_time and the manual  *)
(* commands (client_v2.py), with the parser of protocol.py they share.     *)
(*                                                                         *)
(* A commit makes the controller execute the command it was sent, if any,  *)
(* and answer with three notifications, numbered 2 (the status), 1 (the    *)
(* remaining time of a high station) and 0.  What it does may change       *)
(* between two of them.  Notifications arrive in order or are lost.        *)
(*                                                                         *)
(* Frames of an earlier operation on the same link arrive too, at any      *)
(* moment after the settle delay: a program write is echoed about a second *)
(* later, and the handlers look at the number of a frame only, never at    *)
(* its opcode (Echo).  Those that arrive earlier are dropped before they   *)
(* reach a handler (NotifyDispatch), so each attempt starts with an empty  *)
(* air.                                                                    *)
(***************************************************************************)
EXTENDS CallBounds, Sequences, FiniteSets

CONSTANTS
    Low, High,     \* stations below 3, and from 3 on
    Times,         \* remaining times
    Overlaid,      \* stations whose remaining time a late frame can supply
    MaxAir         \* bound on notifications under way

ASSUME AirAssumption == MaxAir \in Nat
ASSUME OverlaidAssumption == Overlaid \subseteq High

\* What a controller is doing: a station and its time, a program between two
\* stations, activity bits alone, or nothing.
Stations == Low \cup High
Runs     == Stations \X Times \cup {<<"gap">>, <<"bits">>, <<"idle">>}
Devices  == [on : BOOLEAN, run : Runs, alarm : BOOLEAN]

VARIABLES
    device,    \* the controller
    jobs,      \* what it was sent and still has to do
    air,       \* notifications on their way
    pending,   \* a command awaits its commit
    changes,   \* changes during this call
    kind,      \* the operation
    phase,     \* where it is suspended; "free" between operations
    attempt,   \* which attempt of the executor this is
    status,    \* status_result or last_status; {} or one status
    event,     \* status_event or response_event
    replied,   \* reply_acknowledged
    outcome,   \* how the last operation ended
    facts,     \* history: what happened during this call
    seen       \* history: what the controller was doing during this call

controller == <<device, jobs, air, pending, changes>>
local      == <<status, event, replied>>
vars       == <<controller, kind, phase, attempt, local, outcome, facts, seen>>

Kinds == {"status", "settime", "command"}

-----------------------------------------------------------------------------
(* What the parser makes of the controller.                                *)

NoTime == 0
Active(run) == Len(run) = 2

\* parse_status_notification; the time of a high station may be missing.
Parsed(d, timed) ==
    [watering |-> d.on /\ d.run \notin {<<"idle">>, <<"gap">>},
     station  |-> IF d.on /\ Active(d.run) THEN {d.run[1]} ELSE {},
     left     |-> IF d.on /\ Active(d.run) /\ timed THEN d.run[2] ELSE NoTime,
     program  |-> d.on /\ d.run = <<"gap">>,
     alarm    |-> d.alarm]

\* The slots of notification 1: only that of a running high station is filled.
Slot(d, s) == IF d.run \in High \X Times /\ d.run[1] = s THEN d.run[2] ELSE NoTime

\* What it is doing; an off controller goes through its schedule dry.
Doing(d) == <<d.on, d.run>>

\* Mutant of Busy: a program between two stations is not noticed.
BusyByStation(s) == s.watering

\* What set_time defers to.
Busy(s) == s.watering \/ s.program

-----------------------------------------------------------------------------
(* The operations.                                                         *)

Init ==
    /\ device \in Devices /\ jobs = <<>> /\ air = <<>>
    /\ pending \in {"none", "old"} /\ changes = 0
    /\ kind \in Kinds /\ phase = "free" /\ attempt = 0
    /\ status = {} /\ event = FALSE /\ replied = "none"
    /\ outcome = "none" /\ facts = {} /\ seen = {}

\* An attempt of the executor up to its subscription: the variables of its
\* closure, and nothing in the air that others asked for.
Attempt ==
    /\ phase' = "subscribed"
    /\ status' = {} /\ event' = FALSE /\ replied' = "none"
    /\ jobs' = <<>> /\ air' = <<>>

Begin ==
    /\ phase = "free" /\ kind' \in Kinds
    /\ Attempt /\ attempt' = 1
    /\ pending' = (IF pending = "none" THEN "none" ELSE "old")
    /\ changes' = 0 /\ outcome' = "none"
    /\ facts' = {} /\ seen' = {Doing(device)}
    /\ UNCHANGED device

\* What it leaves behind on the link is no later operation's.
End(verdict) ==
    /\ phase' = "free" /\ outcome' = verdict
    /\ jobs' = <<>> /\ air' = <<>>

\* Mutant of Fail: one retry too many.
FailOneMore ==
    /\ phase # "free"
    /\ \/ /\ kind # "settime" /\ attempt <= MaxAttempts
          /\ Attempt /\ attempt' = attempt + 1 /\ UNCHANGED outcome
       \/ End("failed") /\ UNCHANGED <<attempt, local>>
    /\ pending' \in {pending, "none"}
    /\ UNCHANGED <<device, changes, kind, facts, seen>>

\* An error, a timeout or a drop: the executor retries all but set_time on a
\* fresh link, where the controller may have forgotten a pending command, until
\* its attempts or its deadline are spent.
Fail ==
    /\ phase # "free"
    /\ \/ /\ kind # "settime" /\ attempt < MaxAttempts
          /\ Attempt /\ attempt' = attempt + 1 /\ UNCHANGED outcome
       \/ End("failed") /\ UNCHANGED <<attempt, local>>
    /\ pending' \in {pending, "none"}
    /\ UNCHANGED <<device, changes, kind, facts, seen>>

\* A commit is written, to be answered with a status.
SendCommit(next) ==
    /\ jobs' = Append(jobs, "commit") /\ phase' = next
    /\ UNCHANGED <<device, air, pending, changes, kind, attempt, replied, outcome, facts, seen>>

\* read_status of set_time, up to its wait: an earlier status is forgotten.
ReadStatus(next) == SendCommit(next) /\ status' = {} /\ event' = FALSE

\* get_status and set_time ask for a status first; get_status keeps what it was
\* told while it slept.
Ask ==
    /\ phase = "subscribed"
    /\ \/ kind = "status" /\ SendCommit("wait") /\ UNCHANGED <<status, event>>
       \/ kind = "settime" /\ ReadStatus("wait")

\* Mutant of Command: the commit goes first.
CommandAfterCommit ==
    /\ phase = "subscribed" /\ kind = "command"
    /\ jobs' = jobs \o <<"commit", "command">> /\ phase' = "wait"
    /\ UNCHANGED <<device, air, pending, changes, kind, attempt, local, outcome, facts, seen>>

\* _execute_command writes the command and its commit.
Command ==
    /\ phase = "subscribed" /\ kind = "command"
    /\ jobs' = jobs \o <<"command", "commit">> /\ phase' = "wait"
    /\ UNCHANGED <<device, air, pending, changes, kind, attempt, local, outcome, facts, seen>>

\* The response to a command.
CommandEnds ==
    /\ phase = "wait" /\ kind = "command" /\ event
    /\ End("done")
    /\ UNCHANGED <<device, pending, changes, kind, attempt, local, facts, seen>>

\* A high station without its time: notification 1 is waited for.
Untimed(s) == s.watering /\ s.left = NoTime /\ s.station \subseteq High /\ s.station # {}

\* get_status has its status: it waits a settle delay more, or returns it.
StatusEnds ==
    /\ kind = "status" /\ event
    /\ phase \in {"wait", "settle"}
    /\ \E s \in status : IF phase = "wait" /\ Untimed(s)
                         THEN phase' = "settle" /\ UNCHANGED <<jobs, air, outcome>>
                         ELSE End("done")
    /\ UNCHANGED <<device, pending, changes, kind, attempt, local, facts, seen>>

\* set_time sends the time only when the controller is not busy.
SendTime ==
    /\ phase = "wait" /\ kind = "settime" /\ event
    /\ \E s \in status :
          IF Busy(s) THEN End("busy") /\ UNCHANGED facts
          ELSE /\ jobs' = Append(jobs, "time") /\ phase' = "reply"
               /\ facts' = facts \cup {"sent"} /\ UNCHANGED <<air, outcome>>
    /\ UNCHANGED <<device, pending, changes, kind, attempt, local, seen>>

\* Its reply: rejected, or a second status is read.
CheckReply ==
    /\ phase = "reply" /\ replied # "none"
    /\ \/ replied = "ack" /\ ReadStatus("verify")
       \/ /\ replied = "reject" /\ End("rejected")
          /\ UNCHANGED <<device, pending, changes, kind, attempt, local, facts, seen>>

\* The second status: the alarm must be gone.
VerifyTime ==
    /\ phase = "verify" /\ event
    /\ \E s \in status : End(IF s.alarm THEN "unverified" ELSE "done")
    /\ UNCHANGED <<device, pending, changes, kind, attempt, local, facts, seen>>

-----------------------------------------------------------------------------
(* The notification handlers.                                              *)

\* Mutant of Timed: whatever station the time is of.
TimedByAny(s, d) ==
    {[s EXCEPT !.left = Slot(d, h)] :
        h \in {h \in High : Untimed(s) /\ Slot(d, h) # NoTime}}

\* parse_intermediate_remaining completes an untimed status of its station.
Timed(s, d) ==
    {[s EXCEPT !.left = Slot(d, h)] :
        h \in {h \in s.station : Untimed(s) /\ Slot(d, h) # NoTime}}

\* Notification n reaches the handler of the running operation.
Receive(n) ==
    LET timed == IF n.seq = "one" /\ kind = "status"
                 THEN UNION {Timed(s, n.device) : s \in status} ELSE {}
    IN  /\ status' = IF n.seq = "two" THEN {n.status} ELSE IF timed # {} THEN timed ELSE status
        /\ event' = (event \/ IF kind = "command" THEN n.seq = "zero"
                              ELSE n.seq = "two" \/ timed # {})
        /\ replied' = IF kind = "settime" /\ n.seq \in {"ack", "reject"} THEN n.seq ELSE replied

\* The next of those the controller sent.
Handle ==
    /\ phase # "free" /\ air # <<>>
    /\ Receive(Head(air)) /\ air' = Tail(air)
    /\ UNCHANGED <<device, jobs, pending, changes, kind, phase, attempt, outcome, facts, seen>>

\* What a late frame reads like: one numbered 2, an off controller without an
\* alarm; one numbered 1, time t left for station st.
Blank       == [on |-> FALSE, run |-> <<"idle">>, alarm |-> FALSE]
Posing(st, t) == [on |-> FALSE, run |-> <<st, t>>, alarm |-> FALSE]

\* A frame of an earlier operation, such as the echo of a program write.  Only
\* get_status looks at number 1, and only commands at number 0.
Echo ==
    /\ phase # "free"
    /\ \/ /\ Receive([seq |-> "two", status |-> Parsed(Blank, TRUE)])
          /\ facts' = facts \cup {"echo2"}
       \/ /\ kind = "status" /\ facts' = facts \cup {"echo1"}
          /\ \E st \in Overlaid, t \in Times : Receive([seq |-> "one", device |-> Posing(st, t)])
       \/ /\ kind = "command" /\ facts' = facts \cup {"echo0"}
          /\ Receive([seq |-> "zero"])
    /\ UNCHANGED <<device, jobs, air, pending, changes, kind, phase, attempt, outcome, seen>>

Lose ==
    /\ air # <<>> /\ air' = Tail(air)
    /\ UNCHANGED <<device, jobs, pending, changes, kind, phase, attempt, local, outcome, facts, seen>>

-----------------------------------------------------------------------------
(* The controller.                                                         *)

\* Notification n, made now.
Notify(n) ==
    /\ Len(air) < MaxAir /\ air' = Append(air, n)

Statuses == {[seq |-> "two", status |-> Parsed(device, timed)] :
                timed \in IF device.run \in High \X Times THEN BOOLEAN ELSE {TRUE}}

\* A status made without an alarm after the time was stored in this call.
Noted ==
    facts \cup (IF "stored" \in facts /\ ~device.alarm THEN {"clear"} ELSE {})

\* What the controller does changes.
Become(devices) ==
    /\ changes < MaxChanges /\ changes' = changes + 1
    /\ device' \in devices \ {device}
    /\ seen' = seen \cup {Doing(device')}

\* A command waits for its commit.
TakeCommand ==
    /\ jobs # <<>> /\ Head(jobs) = "command" /\ jobs' = Tail(jobs)
    /\ pending' = "mine"
    /\ UNCHANGED <<device, air, changes, kind, phase, attempt, local, outcome, facts, seen>>

\* A commit executes it, with an effect that is one of the bounded changes or
\* none, and the three notifications are due.
TakeCommit ==
    /\ jobs # <<>> /\ Head(jobs) = "commit"
    /\ jobs' = <<"two", "one", "zero">> \o Tail(jobs)
    /\ IF pending = "none" THEN UNCHANGED <<device, changes, seen>>
       ELSE Become({d \in Devices : d.alarm = device.alarm}) \/ UNCHANGED <<device, changes, seen>>
    /\ pending' = "none"
    /\ facts' = facts \cup (IF pending = "mine" THEN {"executed"} ELSE {})
    /\ UNCHANGED <<air, kind, phase, attempt, local, outcome>>

Emit ==
    /\ jobs # <<>> /\ jobs' = Tail(jobs)
    /\ \/ Head(jobs) = "two" /\ (\E n \in Statuses : Notify(n)) /\ facts' = Noted
       \/ Head(jobs) = "one" /\ Notify([seq |-> "one", device |-> device]) /\ UNCHANGED facts
       \/ Head(jobs) = "zero" /\ Notify([seq |-> "zero"]) /\ UNCHANGED facts
    /\ UNCHANGED <<device, pending, changes, kind, phase, attempt, local, outcome, seen>>

\* The time is stored and acknowledged, the alarm then goes or stays; or it is
\* refused.
TakeTime ==
    /\ jobs # <<>> /\ Head(jobs) = "time" /\ jobs' = Tail(jobs)
    /\ \/ /\ \E a \in {device.alarm, FALSE} : device' = [device EXCEPT !.alarm = a]
          /\ Notify([seq |-> "ack"]) /\ facts' = facts \cup {"stored"}
       \/ /\ Notify([seq |-> "reject"]) /\ UNCHANGED <<device, facts>>
    /\ UNCHANGED <<pending, changes, kind, phase, attempt, local, outcome, seen>>

\* A notification nobody asked for.
Spontaneous ==
    /\ phase # "free" /\ air = <<>>
    /\ \E n \in Statuses : Notify(n) /\ facts' = Noted
    /\ UNCHANGED <<device, jobs, pending, changes, kind, phase, attempt, local, outcome, seen>>

\* Its programs, its buttons and its clock.
Change ==
    /\ phase # "free" /\ Become(Devices)
    /\ UNCHANGED <<jobs, air, pending, kind, phase, attempt, local, outcome, facts>>

Next ==
    \/ Begin \/ Ask \/ Command \/ CommandEnds \/ StatusEnds
    \/ SendTime \/ CheckReply \/ VerifyTime \/ Fail
    \/ Handle \/ Echo \/ Lose
    \/ TakeCommand \/ TakeCommit \/ Emit \/ TakeTime \/ Spontaneous \/ Change

Spec == Init /\ [][Next]_vars
-----------------------------------------------------------------------------
(* What must hold.                                                         *)

\* Types: an operation makes at most MaxAttempts attempts, holds at most one
\* status, and only set_time knows a reply.
TypeOK ==
    /\ device \in Devices /\ pending \in {"none", "old", "mine"}
    /\ jobs \in Seq({"command", "commit", "time", "two", "one", "zero"})
    /\ Len(air) <= MaxAir /\ changes \in 0 .. MaxChanges
    /\ kind \in Kinds /\ attempt \in 0 .. MaxAttempts
    /\ phase \in {"free", "subscribed", "wait", "settle", "reply", "verify"}
    /\ Cardinality(status) <= 1 /\ event \in BOOLEAN
    /\ replied \in {"none", "ack", "reject"}
    /\ replied # "none" => kind = "settime"
    /\ outcome \in {"none", "done", "busy", "rejected", "unverified", "failed"}

\* set_time tells the truth, and harms no run: unless an echo was taken for a
\* status, the time goes only to a controller that watered nothing, and was
\* between no two stations of a program, at some moment of this call, and done
\* means that the controller reported no alarm after it stored the time.  Echo
\* or not, done and unverified mean that the time was stored, rejected that it
\* was not, and busy that it was not sent and that the controller was at work.
TimeVerdictTrue ==
    /\ "sent" \in facts =>
          "echo2" \in facts \/ \E d \in seen : d[1] => d[2] = <<"idle">>
    /\ kind = "settime" =>
          /\ outcome \in {"done", "unverified"} => "stored" \in facts
          /\ outcome = "done" => "clear" \in facts \/ "echo2" \in facts
          /\ outcome = "rejected" => "stored" \notin facts
          /\ outcome = "busy" => /\ "sent" \notin facts
                                 /\ \E d \in seen : d[1] /\ d[2] # <<"idle">>

\* get_status returns a station the controller was watering at some moment of
\* the call, and a time that was left for that very station at some moment of
\* it, though the two may come from different notifications; the time of an
\* overlaid station may come from an echo instead.
StatusCoherent ==
    kind = "status" /\ outcome = "done" =>
        \A s \in status : \A st \in s.station :
            /\ \E d \in seen : d[1] /\ Active(d[2]) /\ d[2][1] = st
            /\ \/ s.left = NoTime
               \/ \E d \in seen : d[2] = <<st, s.left>>
               \/ "echo1" \in facts /\ st \in Overlaid

\* _execute_command: a command reported done was executed in this call, though
\* the response that ends it may be late or answer an earlier commit, unless an
\* echo was taken for the response.
CommandDone ==
    kind = "command" /\ outcome = "done" => "executed" \in facts \/ "echo0" \in facts

-----------------------------------------------------------------------------
(* What a docstring promises, and an echo breaks.                          *)

\* set_time is deferred while the controller waters or has an active program.
TimeIsDeferred == "sent" \in facts => \E d \in seen : d[1] => d[2] = <<"idle">>
=============================================================================
