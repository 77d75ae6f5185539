----------------------------- MODULE ProgramEdit -----------------------------
(***************************************************************************)
(* Editing stored programs: the codec of protocol.py (pack, parse,         *)
(* normalise), the snapshot of snapshot.py (patch, write_frames,           *)
(* validate_expected_write) and what becomes of the edits on a controller  *)
(* whose interval programs count down the days to their next run.          *)
(*                                                                         *)
(* A program is seven chunks, a chunk the bytes of its frame from byte 4   *)
(* on, at the offsets of the code.  How a transaction fares on the air is  *)
(* ProgramWrite's subject and how calls interleave ProgramStore's: here a  *)
(* transaction is one step, which may break off after any of its frames.   *)
(***************************************************************************)
EXTENDS Integers, Sequences, FiniteSets, FiniteSetsExt

CONSTANTS
    ProgramCount,      \* IRRIGATION_PROGRAM_COUNT, the editable slots
    SlotCount,         \* slots of the controller, the hidden ones included
    PhysicalStations,  \* outputs the caller's controller has
    Factory,           \* what the slots may hold at first
    Changes,           \* patches callers may ask for
    Requests,          \* programs callers may set
    Cuts,              \* numbers of frames after which a transfer may break off
    MaxDays, MaxJobs   \* bounds on midnights and on edits

ASSUME EditAssumption ==
    /\ ProgramCount \in Nat /\ SlotCount \in Nat /\ ProgramCount < SlotCount
    /\ PhysicalStations \in 1 .. 12 /\ Cuts \subseteq Nat
    /\ MaxDays \in 1 .. 31 /\ MaxJobs \in Nat

Programs == 0 .. ProgramCount - 1
Slots    == 0 .. SlotCount - 1
Hidden   == Slots \ Programs
Chunks   == 0 .. 6
Header   == 2                                  \* the chunk of the interval
Disabled == 1440                               \* DISABLED_START_TIME
None     == -1                                 \* a start slot not in use
Byte     == 0 .. 255
MaxWord     == 65535                           \* what two bytes hold
MaxDuration == 16777215                        \* 0xFFFFFF, what three bytes hold

\* _FRAGMENT_LENGTHS, and the offsets of the bytes of a chunk.
FrameLength == <<20, 20, 16, 20, 19, 19, 10>>
Offsets(k)  == 4 .. FrameLength[k + 1] - 1
IsProgram(b) ==
    /\ DOMAIN b = Chunks
    /\ \A k \in Chunks : DOMAIN b[k] = Offsets(k) /\ \A o \in Offsets(k) : b[k][o] \in Byte

-----------------------------------------------------------------------------
(* The codec.  Numbers are stored with the high byte first.                *)

Int2(b, at) == 256 * b[at] + b[at + 1]
Int3(b, at) == 65536 * b[at] + Int2(b, at + 1)
Bytes2(v)   == <<v \div 256, v % 256>>
Bytes3(v)   == <<v \div 65536, (v \div 256) % 256, v % 256>>

\* Half of a name: the bytes before the first NUL.
Text(b) ==
    LET end == Min({o \in DOMAIN b : b[o] = 0} \cup {20})
    IN  [i \in 1 .. end - 4 |-> b[i + 3]]

\* The stations whose durations a chunk holds.
Held(k) == CASE k = 4 -> 0 .. 4 [] k = 5 -> 5 .. 9 [] k = 6 -> 10 .. 11

\* _apply_irrigation_chunk on all seven; the header date is nobody's field.
Decoded(b) ==
    [name                |-> Text(b[0]) \o Text(b[1]),
     inter_station_delay |-> Int2(b[2], 4),
     water_budget        |-> Int2(b[2], 6),
     cycle               |-> b[2][8],
     week_days           |-> b[2][9],
     period_length       |-> b[2][10],
     synchro_day         |-> b[2][11],
     start_times         |-> [s \in 0 .. 7 |->
         LET minutes == Int2(b[3], 4 + 2 * s) IN IF minutes >= Disabled THEN None ELSE minutes],
     station_durations   |-> [t \in 0 .. 11 |->
         LET k == CHOOSE k \in 4 .. 6 : t \in Held(k)
         IN  Int3(b[k], 4 + 3 * (t - Min(Held(k))))]]

\* What a program is made of, and the programs that can be stored.
Fields == {"name", "inter_station_delay", "water_budget", "cycle", "week_days", "period_length",
           "synchro_day", "start_times", "station_durations"}
Storable(p) ==
    /\ p.name \in Seq(Byte)
    /\ p.inter_station_delay \in 0 .. MaxWord /\ p.water_budget \in 0 .. MaxWord
    /\ p.cycle \in Byte /\ p.week_days \in Byte
    /\ p.period_length \in Byte /\ p.synchro_day \in Byte
    /\ p.start_times \in [0 .. 7 -> {None} \cup (0 .. Disabled - 1)]
    /\ p.station_durations \in [0 .. 11 -> 0 .. MaxDuration]

\* The controller starts with programs; a request is a program but for its
\* ranges, with at most one anchor.
ASSUME ProgramsAssumption ==
    /\ \A f \in Factory : \A s \in Slots : Storable(f[s])
    /\ \A r \in Requests :
          /\ r.name \in Seq(Byte)
          /\ r.start_times \in Seq(Int) /\ r.station_durations \in Seq(Int)
          /\ \A a, b \in r.anchor : a \in Int /\ a = b

\* Mutant of Synchro: the days since the anchor, not those still to go.
SynchroElapsed(anchor, period, day) == (day - anchor) % period

\* period_start_to_synchro; Python's % takes the sign of the period, as TLA+'s.
Synchro(anchor, period, day) == (period - ((day - anchor) % period)) % period

\* normalize_irrigation_program_for_write: what it refuses, and what it makes
\* of a program.  "anchor" is period_start_date, {} or one day.
Acceptable(r) ==
    /\ r.inter_station_delay \in 0 .. MaxWord /\ r.water_budget \in 0 .. MaxWord
    /\ r.cycle \in Byte /\ r.week_days \in Byte
    /\ r.period_length \in Byte /\ r.synchro_day \in Byte
    /\ r.cycle = 4 => r.period_length >= 1 /\ (r.anchor # {} \/ r.synchro_day < r.period_length)
    /\ Len(r.start_times) <= 8 /\ Len(r.station_durations) <= 12
    /\ \A s \in DOMAIN r.start_times : r.start_times[s] \in {None} \cup (0 .. Disabled - 1)
    /\ \A t \in DOMAIN r.station_durations : r.station_durations[t] \in 0 .. MaxDuration

Normal(r, day) ==
    [name                |-> SubSeq(r.name, 1, Min({31, Len(r.name)})),
     inter_station_delay |-> r.inter_station_delay,
     water_budget        |-> r.water_budget,
     cycle               |-> r.cycle,
     week_days           |-> r.week_days,
     period_length       |-> r.period_length,
     synchro_day         |->
         IF r.cycle = 4 /\ r.anchor # {}
         THEN Synchro(Min(r.anchor), r.period_length, day) ELSE r.synchro_day,
     start_times         |-> [s \in 0 .. 7 |->
         IF s + 1 \in DOMAIN r.start_times THEN r.start_times[s + 1] ELSE None],
     station_durations   |-> [t \in 0 .. 11 |->
         IF t + 1 \in DOMAIN r.station_durations THEN r.station_durations[t + 1] ELSE 0]]

Padded(name) == [i \in 1 .. 31 |-> IF i <= Len(name) THEN name[i] ELSE 0]

\* Mutant of SecondHalf: it is not padded to its frame.
SecondHalfShort(name) == SubSeq(Padded(name), 17, 31)

SecondHalf(name) == [i \in 1 .. 16 |-> IF i = 16 THEN 0 ELSE Padded(name)[16 + i]]

\* pack_set_irrigation_program on a normalised program: the payloads of its
\* frames.  The header carries the day of the write (of January 2000).
Packed(p, day) ==
    LET delay  == Bytes2(p.inter_station_delay)
        budget == Bytes2(p.water_budget)
        start(s) == Bytes2(IF p.start_times[s] = None THEN Disabled ELSE p.start_times[s])
        durations(first, n) == [i \in 1 .. 3 * n |->
            Bytes3(p.station_durations[first + ((i - 1) \div 3)])[((i - 1) % 3) + 1]]
        payload == <<SubSeq(Padded(p.name), 1, 16), SecondHalf(p.name),
                     <<delay[1], delay[2], budget[1], budget[2], p.cycle, p.week_days,
                       p.period_length, p.synchro_day, day, 1, 7, 208>>,
                     [i \in 1 .. 16 |-> start((i - 1) \div 2)[((i - 1) % 2) + 1]],
                     durations(0, 5), durations(5, 5), durations(10, 2)>>
    IN  [k \in Chunks |-> [o \in 4 .. Len(payload[k + 1]) + 3 |-> payload[k + 1][o - 3]]]

-----------------------------------------------------------------------------
(* Patches.  A patch is a function from the fields it changes to values.   *)

\* Mutant of Place: the stations of the patch are counted from one.
PlaceFromOne(station) ==
    IF station < 5 THEN <<4, station>> ELSE IF station < 10 THEN <<5, station - 5>>
    ELSE <<6, station - 10>>

\* The chunk of a station's duration and its slot there.
Place(station) ==
    LET t == station - 1
    IN  IF t < 5 THEN <<4, t>> ELSE IF t < 10 THEN <<5, t - 5>> ELSE <<6, t - 10>>

\* What one change splices into the frames: bytes, from an offset of a chunk.
Splices(field, v) ==
    CASE field = "name" ->
             {<<0, 4, SubSeq(Padded(v), 1, 16)>>, <<1, 4, SubSeq(Padded(v), 17, 31)>>}
      [] field = "inter_station_delay" -> {<<2, 4, Bytes2(v)>>}
      [] field = "water_budget"  -> {<<2, 6, Bytes2(v)>>}
      [] field = "cycle"         -> {<<2, 8, <<v>> >>}
      [] field = "week_days"     -> {<<2, 9, <<v>> >>}
      [] field = "period_length" -> {<<2, 10, <<v>> >>}
      [] field = "synchro_day"   -> {<<2, 11, <<v>> >>}
      [] field = "start_times"   ->
             {<<3, 2 + 2 * s, Bytes2(IF v[s] = None THEN Disabled ELSE v[s])>> : s \in 1 .. 8}
      [] field = "station_durations" ->
             {<<Place(t)[1], 4 + 3 * Place(t)[2], Bytes3(v[t])>> : t \in DOMAIN v}

\* patch: the program with the splices in its bytes.
Patched(b, change) ==
    LET all == UNION {Splices(f, change[f]) : f \in DOMAIN change}
    IN  [k \in Chunks |-> [o \in Offsets(k) |->
            LET hits == {x \in all : x[1] = k /\ o - x[2] \in 0 .. Len(x[3]) - 1}
            IN  IF hits = {} THEN b[k][o] ELSE LET x == CHOOSE x \in hits : TRUE IN x[3][o - x[2] + 1]]]

\* The fields patch supports, and the ranges it insists on.
InRange(change) ==
    /\ DOMAIN change \subseteq Fields
    /\ \A f \in DOMAIN change :
        LET v == change[f]
        IN  CASE f = "name" -> v \in Seq(Byte) /\ Len(v) <= 31 /\ \A i \in DOMAIN v : v[i] # 0
              [] f \in {"inter_station_delay", "water_budget"} -> v \in 0 .. MaxWord
              [] f = "cycle" -> v \in 0 .. 4
              [] f = "week_days" -> v \in 0 .. 127
              [] f = "period_length" -> v \in Byte \ {0}
              [] f = "synchro_day" -> v \in Byte
              [] f = "start_times" -> \A s \in 1 .. 8 : v[s] \in {None} \cup (0 .. Disabled - 1)
              [] f = "station_durations" ->
                     \A t \in DOMAIN v : t \in 1 .. PhysicalStations /\ v[t] \in 0 .. MaxDuration

\* The interval patch accepts in the header it has made.
IntervalKept(h) == h[8] = 4 => h[10] >= 1 /\ h[11] < h[10]

-----------------------------------------------------------------------------
(* Snapshots: the programs, and the fragments of the hidden slots.         *)

Reported(c, lost) ==
    [blocks |-> [p \in Programs |-> c[p]],
     extras |-> {[slot |-> s, id |-> (SlotCount - s) * 7 - 1 - k, body |-> c[s][k]] :
                    s \in Hidden, k \in Chunks \ lost}]

\* What a read may assemble: fragments of the hidden slots may be lost, here
\* none, the first or all of each.
Reports(c) == {Reported(c, lost) : lost \in {{}, {0}, Chunks}}

Own(s, slot)   == {f \in s.extras : f.slot = slot}
Rank(s, f)     == Cardinality({g \in Own(s, f.slot) : g.id > f.id})
Reporting(s)   == {f.slot : f \in s.extras}

\* require_known_programs: no hidden slot was reported, or all were, whole.
Known(s) ==
    /\ Reporting(s) # {} => Reporting(s) = Hidden
    /\ \A slot \in Reporting(s) :
          LET ids == {f.id : f \in Own(s, slot)}
          IN  Cardinality(Own(s, slot)) = 7 /\ Cardinality(ids) = 7 /\ Max(ids) - Min(ids) = 6
    /\ \A f \in s.extras : DOMAIN f.body = Offsets(Rank(s, f))

\* The frame that writes a chunk, and the chunk a frame writes.
Frame(slot, k, body) ==
    [op |-> IF k < 2 THEN "2F" ELSE "37", id |-> IF k < 2 THEN k ELSE k - 2, slot |-> slot, body |-> body]
ChunkOf(f) == IF f.op = "2F" THEN f.id ELSE f.id + 2

Frames(slot, b) == [i \in 1 .. 7 |-> Frame(slot, i - 1, b[i - 1])]

\* The chunks of a snapshot by slot and logical chunk.
Keyed(s) ==
    [key \in (Programs \X Chunks) \cup {<<f.slot, Rank(s, f)>> : f \in s.extras} |->
        IF key[1] \in Programs THEN s.blocks[key[1]][key[2]]
        ELSE (CHOOSE f \in Own(s, key[1]) : Rank(s, f) = key[2]).body]

\* Mutant of Restorable: the slots there are will do.
RestorablePartly(s) == Known(s)

\* write_frames refuses a snapshot without every slot; else it echoes them all.
Restorable(s) == Known(s) /\ Reporting(s) = Hidden
WriteFrames(s) ==
    [i \in 1 .. 7 * Cardinality(Programs \cup Reporting(s)) |->
        LET slot == (i - 1) \div 7
            k    == (i - 1) % 7
        IN  Frame(slot, k, Keyed(s)[<<slot, k>>])]

\* validate_expected_write; later frames win.
ValidExpected(s, frames, expected) ==
    LET now  == Keyed(s)
        then == Keyed(expected)
        For(key) == {i \in DOMAIN frames : <<frames[i].slot, ChunkOf(frames[i])>> = key}
    IN  /\ DOMAIN then = DOMAIN now
        /\ \A i \in DOMAIN frames : <<frames[i].slot, ChunkOf(frames[i])>> \in DOMAIN now
        /\ \A key \in DOMAIN now :
              then[key] = IF For(key) = {} THEN now[key] ELSE frames[Max(For(key))].body

-----------------------------------------------------------------------------
(* The controller, its days, and the calls.                                *)

NoSnapshot == [blocks |-> <<>>, extras |-> {}]
NoJob      == [kind |-> "none"]

VARIABLES
    config,    \* what the slots hold
    today,     \* the day
    draft,     \* the snapshot an editor was opened on
    backup,    \* a snapshot kept to be restored
    held,      \* history: what the controller held when that was read
    job,       \* the edit that has been prepared
    jobs,      \* edits asked for
    verdict,   \* how the call that just returned ended
    due        \* history: the day, if any, a program was last told to run on

vars == <<config, today, draft, backup, held, job, jobs, verdict, due>>

\* The day a header asks for, seen from today.
DueBy(h) == IF h[8] = 4 THEN {today + h[11]} ELSE {}

Init ==
    /\ today = 1
    /\ \E f \in Factory : config = [s \in Slots |-> Packed(f[s], 1)]
    /\ draft = NoSnapshot /\ backup = NoSnapshot /\ held = config
    /\ job = NoJob /\ jobs = 0 /\ verdict = "none"
    /\ due = [p \in Programs |-> IF IntervalKept(config[p][Header]) THEN DueBy(config[p][Header]) ELSE {}]

\* get_program_snapshot, for an editor or to be kept.
Read ==
    /\ draft = NoSnapshot /\ job = NoJob /\ jobs < MaxJobs
    /\ draft' \in Reports(config)
    /\ UNCHANGED <<config, today, backup, held, job, jobs, due>> /\ verdict' = "none"

Keep ==
    /\ backup = NoSnapshot /\ job = NoJob /\ jobs < MaxJobs
    /\ backup' \in Reports(config) /\ held' = config
    /\ UNCHANGED <<config, today, draft, job, jobs, due>> /\ verdict' = "none"

\* patch: refused, without effect; nothing to write; or frames and what the
\* controller is expected to report.  A patch is a function of the draft alone,
\* so it is made just before its write: only Commit follows.
Patch(p, change) ==
    /\ draft # NoSnapshot /\ job = NoJob /\ jobs < MaxJobs
    /\ Known(draft) /\ InRange(change) /\ draft.blocks[p][Header][8] \in 0 .. 4
    /\ LET new == Patched(draft.blocks[p], change)
       IN  /\ IntervalKept(new[Header]) /\ new # draft.blocks[p]
           /\ job' = [kind |-> "patch", slot |-> p, change |-> change, base |-> draft,
                      frames |-> Frames(p, new), expected |-> [draft EXCEPT !.blocks[p] = new]]
    /\ draft' = NoSnapshot /\ jobs' = jobs + 1
    /\ UNCHANGED <<config, today, backup, held, due>> /\ verdict' = "none"

\* The kept snapshot is to be put back over the one just read.
Restore ==
    /\ draft # NoSnapshot /\ backup # NoSnapshot /\ job = NoJob /\ jobs < MaxJobs
    /\ Restorable(backup)
    /\ job' = [kind |-> "restore", base |-> draft, frames |-> WriteFrames(backup), expected |-> backup]
    /\ draft' = NoSnapshot /\ jobs' = jobs + 1
    /\ UNCHANGED <<config, today, backup, held, due>> /\ verdict' = "none"

\* The controller stores a frame where its header says.
Stored(c, frames) ==
    [s \in Slots |-> [k \in Chunks |->
        LET hits == {i \in DOMAIN frames : frames[i].slot = s /\ ChunkOf(frames[i]) = k}
        IN  IF hits = {} THEN c[s][k] ELSE frames[Max(hits)].body]]

\* The first frames of a transfer, which may break off.
Sent(frames) == {SubSeq(frames, 1, n) : n \in (Cuts \cap (0 .. Len(frames))) \cup {Len(frames)}}

\* The days after frames were stored that give program p the days in "asked".
Retimed(frames, p, asked) ==
    due' = [q \in Programs |->
        IF \E i \in DOMAIN frames : frames[i].slot = q /\ ChunkOf(frames[i]) = Header
        THEN IF q = p THEN asked ELSE {} ELSE due[q]]

\* Mutant of Fresh: a draft is written whatever has happened since.
FreshAlways(seen) == ValidExpected(seen, job.frames, job.expected)

\* The preflight of write_program_frames.
Fresh(seen) == seen = job.base /\ ValidExpected(seen, job.frames, job.expected)

\* write_program_frames, as ProgramWrite shows it; all on one day.
Commit ==
    /\ job # NoJob /\ job' = NoJob
    /\ \E seen \in Reports(config) :
          IF Fresh(seen)
          THEN \E sent \in Sent(job.frames) :
                 /\ config' = Stored(config, sent)
                 /\ \E actual \in Reports(config') :
                       verdict' = IF sent = job.frames /\ actual = job.expected
                                  THEN "confirmed" ELSE "uncertain"
                 /\ IF job.kind = "restore" THEN Retimed(sent, None, {})
                    ELSE Retimed(sent, job.slot,
                             IF DOMAIN job.change \cap {"cycle", "period_length", "synchro_day"} = {}
                             THEN due[job.slot] ELSE DueBy(job.expected.blocks[job.slot][Header]))
          ELSE verdict' = "refused" /\ UNCHANGED <<config, due>>
    /\ UNCHANGED <<today, draft, backup, held, jobs>>

\* set_irrigation_program: no baseline; read back field by field.
Set(p, r) ==
    /\ job = NoJob /\ jobs < MaxJobs /\ jobs' = jobs + 1 /\ Acceptable(r)
    /\ LET want == Normal(r, today)
       IN  \E sent \in Sent(Frames(p, Packed(want, today))) :
             /\ config' = Stored(config, sent)
             /\ verdict' = IF Len(sent) < 7 THEN "uncertain"
                           ELSE IF Decoded(config'[p]) = want THEN "confirmed" ELSE "mismatch"
             /\ Retimed(sent, p, IF r.cycle # 4 THEN {} ELSE IF r.anchor # {} THEN r.anchor
                                 ELSE {today + r.synchro_day})
    /\ UNCHANGED <<today, draft, backup, held, job>>

\* The header as the controller counts it down: a countdown that is over is
\* reloaded, then or at midnight.
Interval(h) == h[8] = 4 /\ h[10] >= 1
Counted(h) ==
    IF ~Interval(h) THEN h ELSE [h EXCEPT ![11] = IF @ = 0 THEN h[10] - 1 ELSE @ - 1]

Reload(p) ==
    /\ job = NoJob /\ Interval(config[p][Header]) /\ config[p][Header][11] = 0
    /\ config' = [config EXCEPT ![p][Header][11] = config[p][Header][10]]
    /\ UNCHANGED <<today, draft, backup, held, job, jobs, due>> /\ verdict' = "none"

Midnight ==
    /\ job = NoJob /\ today < MaxDays /\ today' = today + 1
    /\ config' = [s \in Slots |-> [config[s] EXCEPT ![Header] = Counted(@)]]
    /\ UNCHANGED <<draft, backup, held, job, jobs, due>> /\ verdict' = "none"

Next ==
    \/ Read \/ Keep \/ Restore \/ Commit \/ Midnight
    \/ \E p \in Programs :
          \/ Reload(p)
          \/ \E change \in Changes : Patch(p, change)
          \/ \E r \in Requests : Set(p, r)

Spec == Init /\ [][Next]_vars
-----------------------------------------------------------------------------
(* What must hold.                                                         *)

\* Types: every slot holds seven chunks of bytes of their lengths.
TypeOK ==
    /\ DOMAIN config = Slots /\ \A s \in Slots : IsProgram(config[s])
    /\ today \in 1 .. MaxDays /\ jobs \in 0 .. MaxJobs
    /\ verdict \in {"none", "confirmed", "refused", "uncertain", "mismatch"}
    /\ job.kind \in {"none", "patch", "restore"}

\* The fields of a program with a patch applied, for comparison.
Changed(fields, change) ==
    [f \in DOMAIN fields |->
        IF f \notin DOMAIN change THEN fields[f]
        ELSE IF f = "start_times" THEN [s \in 0 .. 7 |-> change[f][s + 1]]
        ELSE IF f = "station_durations"
             THEN [t \in 0 .. 11 |-> IF t + 1 \in DOMAIN change[f] THEN change[f][t + 1] ELSE fields[f][t]]
        ELSE change[f]]

\* What patch prepares reads back as the old fields with the change in them and
\* nothing else, keeps every byte no field owns, and is accepted over its own
\* base; and what a set writes reads back as what was asked.  Patch, pack and
\* parse each have their own offsets.
EditExact ==
    /\ verdict # "mismatch"
    /\ job.kind = "patch" =>
          LET old == job.base.blocks[job.slot]
              new == job.expected.blocks[job.slot]
          IN  /\ Decoded(new) = Changed(Decoded(old), job.change)
              /\ \A o \in 12 .. 15 : new[Header][o] = old[Header][o]
              /\ job.expected = [job.base EXCEPT !.blocks[job.slot] = new]
              /\ ValidExpected(job.base, job.frames, job.expected)

\* A restore that is confirmed has brought back every slot as it was when the
\* snapshot was read, byte for byte, the hidden ones too: whatever was edited,
\* broken off or lost from a response since.
RestoreExact == [][job.kind = "restore" /\ job' = NoJob /\ verdict' = "confirmed" => config' = held]_vars

\* A program that was told to run every n days from some day does: its countdown
\* is over on these days only, whatever else is edited in between and however
\* old the draft was.
RunsOnItsDays ==
    \A p \in Programs : \A day \in due[p] :
        LET h == config[p][Header]
        IN  Interval(h) /\ h[11] % h[10] = (day - today) % h[10]
=============================================================================
