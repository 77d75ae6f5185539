------------------------------ MODULE NameRead ------------------------------
(***************************************************************************)
(* Reading every station name on one subscribed connection:                *)
(* _read_station_names_on_connection of client_v2.py, and the in-place     *)
(* re-requests client_persistent.py wraps around it.                       *)
(*                                                                         *)
(* A fragment is half a name; the controller's names are a function from   *)
(* fragments to values.  It may answer a request late or never; fragments  *)
(* may be lost on the air; the link may drop, or be severed by the idle    *)
(* release of the persistent client.  One tick is one 50 ms sleep.         *)
(***************************************************************************)
EXTENDS Integers, Sequences, FiniteSets, SequencesExt

CONSTANTS
    Frags,           \* halves of names the controller reports
    Values,          \* what a half may hold
    Blank,           \* the value that starts with NUL: no name
    Heads,           \* the half the name of output 1, 2, ... starts with
    MaxStation,      \* max_station_num, the width the client was made with
    IdleTicks,       \* STATION_NAMES_IDLE_TIMEOUT
    ReadTicks,       \* STATUS_NOTIFY_TIMEOUT
    PauseTicks,      \* NAME_READ_IN_PLACE_DELAY
    InPlaceRetries,  \* NAME_READ_IN_PLACE_RETRIES; 0: the stateless client
    MaxAsked,        \* bound on requests without an answer
    MayChange        \* whether another client may rename during a read

ASSUME TicksAssumption ==
    /\ {IdleTicks, ReadTicks, PauseTicks} \subseteq Nat \ {0}
    /\ Blank \in Values /\ Heads \in Seq(Frags) /\ MaxStation \in 1 .. Len(Heads)
    /\ IsFiniteSet(Frags) /\ MayChange \in BOOLEAN
    /\ InPlaceRetries \in Nat /\ MaxAsked \in Nat /\ InPlaceRetries < MaxAsked

VARIABLES
    names,     \* the controller's names
    asked,     \* requests the controller has not answered yet
    air,       \* notifications on their way, in order
    up,        \* is_connected
    phase,     \* "poll", "pause" between re-requests, or "done"
    got,       \* frames collected since the request
    arrived,   \* frames came since the last poll
    quiet,     \* ticks since last_received
    elapsed,   \* ticks since the request, or since the pause began
    grace,     \* last_rejected_count = len(frames)
    retries,   \* attempts_left
    result,    \* how the read ended
    width,     \* station_count
    held,      \* the link is still the session's _active_client
    past,      \* history: values of each half since the first request
    extra,     \* history: outputs past MaxStation that have had a name
    clock      \* history: ticks slept since the first request

radio  == <<names, asked, air, up, past, extra>>
reader == <<phase, got, arrived, quiet, elapsed, grace, retries, result, width, held>>
vars   == <<radio, reader, clock>>

\* A read asks once and once more per retry, each with its pause and window.
Bound == InPlaceRetries * (IdleTicks + 1 + PauseTicks) + ReadTicks

\* The history clock saturates just past the bound.
Elapse == clock' = IF clock <= Bound THEN clock + 1 ELSE clock

Now(n) == [f \in Frags |-> {n[f]}]

\* The outputs that have a name, where a half may hold any value of a set.
Named(halves) == {i \in DOMAIN Heads : halves[Heads[i]] \ {Blank} # {}}

\* The state a (re-)request leaves: frames.clear(), then the write.
Request(outstanding) ==
    /\ phase' = "poll" /\ got' = {} /\ arrived' = FALSE
    /\ quiet' = 0 /\ elapsed' = 0 /\ grace' = FALSE
    /\ asked' = outstanding + 1

Init ==
    /\ names \in [Frags -> Values]
    /\ asked = 1 /\ air = <<>> /\ up = TRUE
    /\ phase = "poll" /\ got = {} /\ arrived = FALSE
    /\ quiet = 0 /\ elapsed = 0 /\ grace = FALSE
    /\ retries = InPlaceRetries /\ result = "none"
    /\ width = MaxStation /\ held = TRUE
    /\ past = Now(names) /\ extra = Named(past) \ (1 .. MaxStation) /\ clock = 0

\* A new read: on the held link, where earlier requests may still be answered
\* while frames under way are dropped before it writes, or on a fresh one.
NewRead ==
    /\ phase = "done"
    /\ \/ up /\ held /\ asked + InPlaceRetries < MaxAsked /\ Request(asked)
       \/ Request(0)
    /\ retries' = InPlaceRetries /\ result' = "none"
    /\ air' = <<>> /\ up' = TRUE /\ held' = TRUE
    /\ past' = Now(names) /\ clock' = 0
    /\ UNCHANGED <<names, extra, width>>

-----------------------------------------------------------------------------
(* The polling loop.                                                       *)

\* Mutant of Complete: missing halves are not looked for.
CompleteSomehow(frames) == \A x, y \in frames : x[1] = y[1] => x = y

\* StationNameSnapshot.from_frames accepts: every half, and no conflict.
Complete(frames) ==
    /\ \A f \in Frags : \E x \in frames : x[1] = f
    /\ \A x, y \in frames : x[1] = y[1] => x = y

\* The values of each half in a response.
Heard(frames) == [f \in Frags |-> {x[2] : x \in {y \in frames : y[1] = f}}]

\* Mutant of Adopted: a response without a name counts its outputs.
AdoptedUnclamped(frames) ==
    IF Named(Heard(frames)) = {} THEN Len(Heads) ELSE Max(Named(Heard(frames)))

\* station_count of the snapshot, clamped when no output has a name.
Adopted(frames) ==
    IF Named(Heard(frames)) = {} THEN Min({Len(Heads), MaxStation}) ELSE Max(Named(Heard(frames)))

End(r) == /\ phase' = "done" /\ result' = r
          /\ width' = IF r = "names" THEN Max({width, Adopted(got)}) ELSE width
          /\ UNCHANGED <<got, arrived, quiet, elapsed, grace, retries, held, clock>>

Silence == IF arrived THEN 0 ELSE quiet

\* The loop body up to its sleep, and the sleep.
KeepPolling(g) ==
    /\ phase' = "poll" /\ arrived' = FALSE
    /\ quiet' = IF Silence < IdleTicks THEN Silence + 1 ELSE IdleTicks
    /\ elapsed' = elapsed + 1 /\ grace' = g /\ Elapse
    /\ UNCHANGED <<got, retries, result, width, held>>

\* Mutant of Polling: the loop runs once past its deadline.
PollingPast == phase = "poll" /\ elapsed <= ReadTicks

Polling == phase = "poll" /\ elapsed < ReadTicks

\* A confirmed dead link wins over any verdict about the data.
PollDropped == Polling /\ ~up /\ End("dropped")

PollQuiet == Polling /\ up /\ Silence < IdleTicks /\ KeepPolling(grace)

\* The idle window elapsed without a single frame: it is forgiven until the
\* next poll, and then asked again in place while the session holds the link.
PollEmpty ==
    /\ Polling /\ up /\ Silence >= IdleTicks /\ got = {}
    /\ \/ ~grace /\ KeepPolling(TRUE)
       \/ /\ grace /\ held /\ retries > 0
          /\ phase' = "pause" /\ elapsed' = 0 /\ retries' = retries - 1
          /\ UNCHANGED <<got, arrived, quiet, grace, result, width, held, clock>>
       \/ grace /\ (~held \/ retries = 0) /\ End("silent")

\* It elapsed with frames: they are judged, a rejection is forgiven once.
PollFrames ==
    /\ Polling /\ up /\ Silence >= IdleTicks /\ got # {}
    /\ IF Complete(got) THEN End("names")
       ELSE IF ~grace THEN KeepPolling(TRUE) ELSE End("invalid")

PollTimeout == phase = "poll" /\ elapsed >= ReadTicks /\ End("invalid")

Poll ==
    /\ PollDropped \/ PollQuiet \/ PollEmpty \/ PollFrames \/ PollTimeout
    /\ UNCHANGED radio

\* The pause before an in-place re-request.
Pause ==
    /\ phase = "pause" /\ elapsed < PauseTicks
    /\ elapsed' = elapsed + 1 /\ Elapse
    /\ UNCHANGED <<radio, phase, got, arrived, quiet, grace, retries, result, width, held>>

\* Mutant of Rerequest: last_rejected_count survives the re-request.
RerequestWithGrace ==
    /\ phase = "pause" /\ elapsed = PauseTicks
    /\ \/ /\ up /\ phase' = "poll" /\ got' = {} /\ arrived' = FALSE
          /\ quiet' = 0 /\ elapsed' = 0 /\ asked' = asked + 1
          /\ UNCHANGED <<grace, retries, result, width, held, clock>>
       \/ ~up /\ End("dropped") /\ UNCHANGED asked
    /\ UNCHANGED <<names, air, up, past, extra>>

\* Mutant of Rerequest: the same budget again after every silence.
RerequestForever ==
    /\ phase = "pause" /\ elapsed = PauseTicks
    /\ \/ up /\ Request(asked) /\ retries' = InPlaceRetries /\ UNCHANGED <<result, width, held, clock>>
       \/ ~up /\ End("dropped") /\ UNCHANGED asked
    /\ UNCHANGED <<names, air, up, past, extra>>

Rerequest ==
    /\ phase = "pause" /\ elapsed = PauseTicks
    /\ \/ up /\ Request(asked) /\ UNCHANGED <<retries, result, width, held, clock>>
       \/ ~up /\ End("dropped") /\ UNCHANGED asked
    /\ UNCHANGED <<names, air, up, past, extra>>

-----------------------------------------------------------------------------
(* The controller and the air.                                             *)

\* The controller answers with its current names, or stays silent for good.
Answer ==
    /\ up /\ asked > 0 /\ asked' = asked - 1
    /\ LET order == SetToSeq(Frags)
       IN  air' = air \o [i \in DOMAIN order |-> <<order[i], names[order[i]]>>]
    /\ UNCHANGED <<names, up, past, extra, reader, clock>>

Ignore ==
    /\ asked > 0 /\ asked' = asked - 1
    /\ UNCHANGED <<names, air, up, past, extra, reader, clock>>

\* The next notification reaches the handler, during the pause too, while the
\* session holds the link: Sever takes the handler away.
Arrive ==
    /\ up /\ held /\ air # <<>> /\ phase # "done"
    /\ air' = Tail(air)
    /\ got' = got \cup {Head(air)} /\ arrived' = TRUE /\ grace' = FALSE
    /\ UNCHANGED <<names, asked, up, past, extra, phase, quiet, elapsed, retries, result, width, held, clock>>

Lose ==
    /\ air # <<>> /\ air' = Tail(air)
    /\ UNCHANGED <<names, asked, up, past, extra, reader, clock>>

LinkDrops ==
    /\ up /\ up' = FALSE /\ air' = <<>> /\ asked' = 0
    /\ UNCHANGED <<names, past, extra, reader, clock>>

\* The idle timer of the persistent client fires during the read: the session
\* lets the link go, which a release in the background has yet to take down.
Sever ==
    /\ InPlaceRetries > 0 /\ held /\ phase # "done"
    /\ held' = FALSE
    /\ UNCHANGED <<radio, phase, got, arrived, quiet, elapsed, grace, retries, result, width, clock>>

\* Another client of the controller renames a station.
Rename(f, v) ==
    /\ MayChange /\ phase # "done"
    /\ names' = [names EXCEPT ![f] = v]
    /\ past' = [past EXCEPT ![f] = @ \cup {v}]
    /\ extra' = extra \cup (Named([past EXCEPT ![f] = {v}]) \ (1 .. MaxStation))
    /\ UNCHANGED <<asked, air, up, reader, clock>>

Next ==
    \/ NewRead \/ Poll \/ Pause \/ Rerequest
    \/ Answer \/ Ignore \/ Arrive \/ Lose \/ LinkDrops \/ Sever
    \/ \E f \in Frags, v \in Values : Rename(f, v)

\* The event loop polls on; the radio owes nothing.
Spec == Init /\ [][Next]_vars /\ WF_vars(Poll) /\ WF_vars(Pause) /\ WF_vars(Rerequest)

-----------------------------------------------------------------------------
(* What must hold.                                                         *)

\* Types and ranges: the retry budget and the windows are never exceeded,
\* and with its re-requests and pauses a read ends in bounded time.
TypeOK ==
    /\ names \in [Frags -> Values] /\ asked \in 0 .. MaxAsked
    /\ air \in Seq(Frags \X Values) /\ up \in BOOLEAN
    /\ phase \in {"poll", "pause", "done"} /\ got \subseteq Frags \X Values
    /\ arrived \in BOOLEAN /\ grace \in BOOLEAN
    /\ quiet \in 0 .. IdleTicks /\ elapsed \in (0 .. ReadTicks) \cup (0 .. PauseTicks)
    /\ retries \in 0 .. InPlaceRetries
    /\ result \in {"none", "names", "silent", "invalid", "dropped"}
    /\ width \in 1 .. Len(Heads) /\ extra \subseteq DOMAIN Heads
    /\ held \in BOOLEAN /\ clock <= Bound

\* Names are returned only when every half is there exactly once, with a value
\* the controller held since the read began: never a gap, a conflict or a value
\* from before, whatever was lost, late or answered twice.
NamesComplete ==
    result = "names" => \A f \in Frags :
        Cardinality({x \in got : x[1] = f}) = 1 /\ (\E x \in got : x[1] = f /\ x[2] \in past[f])

\* A link is called silent only after an idle window and one more poll since
\* the last request; and a link the session still holds only after all its
\* re-requests met the same, with a pause before each, whatever came in between.
SilenceIsPatient ==
    result = "silent" =>
        /\ elapsed > IdleTicks
        /\ held => clock >= (InPlaceRetries + 1) * (IdleTicks + 1) + InPlaceRetries * PauseTicks

\* What the poll's comment says instead: "only the second consecutive empty
\* window is the verdict".  The code gives one poll after the first.
SecondWindow == result = "silent" => elapsed >= 2 * IdleTicks

\* The width the client adopts is its own or an output the controller has had a
\* name for, covers every name it has returned, and never falls: however many
\* outputs a response lists, and whatever is renamed or blanked between reads.
WidthTrue ==
    /\ [](/\ width \in {MaxStation} \cup extra
          /\ result = "names" => \A i \in Named(Heard(got)) : i <= width)
    /\ [][width' >= width]_vars

\* Every read ends.
EveryReadEnds == phase # "done" ~> phase = "done"
=============================================================================
