# Verification of solem-blip-ble

TLA+ specifications of `solem_blip_ble`, a Python/asyncio client for Solem BL-IP
irrigation controllers over Bluetooth Low Energy. The modules model the client's
own control: sessions, retries, deadlines, timers, request/response protocols and
the configuration transactions. TLC checks them on small instances; TLAPS proves
the central properties for every value of the constants.

## 1. Inventory

| Component | Source | State | Operations |
|---|---|---|---|
| Persistent session | `client_persistent.py` | `_session_lock`, `_active_client`, `_link_dropped`/`_drop_event`, `_idle_task`, `_pending_releases` | `_run_operation`, `disconnect`, `hold_link`, idle release, background releases |
| Notification dispatcher | `client_persistent.py` | `_dispatch_client`, `_active_handler`, `_straggler_drop_until` | `_start_notify`, `_stop_notify`, `_dispatch_notification` |
| Name read | `client_v2.py`, `client_persistent.py` | frames collected, idle windows, `station_count` | `_read_station_names_on_connection`, in-place re-request, width adoption |
| Stateless executor | `client_v2.py` | `_active_client`, drop hint (shared by concurrent operations), raw sessions | `_run_operation`, `raw_ble_session`, `_watch_drop`, `_check_drop` |
| Device cache | `client_v2.py` | `_ble_device`, `_ble_device_cached_at` | `_resolve_ble_device`, `_ble_device_callback` |
| Program transaction | `client_v2.py` | phase, acknowledged block, diagnostics, `last_snapshot` | `write_program_frames` |
| Name transaction | `client_v2.py` | `_StationNameWriteSession` | `write_station_name` |
| Set-time transaction | `client_v2.py` | replies seen | `set_time` |
| Commands and status | `client_v2.py`, `protocol.py` | partial status of one poll | `_execute_command`, `get_status`, status parsing |
| Program snapshot | `snapshot.py` | frames of one configuration read | `from_frames`, `revision`, `write_frames`, `validate_expected_write`, `patch` |
| Name snapshot | `station_names.py` | labels of one name read | `from_frames`, `station_count`, `renamed` |
| Codecs | `protocol.py` | none | packing, parsing, schedule normalisation |
| Validation CLI | `validate*.py` | none kept between runs | scripted calls of the client |

**How they interact.** Every public call builds a closure and passes it to
`_run_operation`, the executor. The executor connects (or reuses a link), runs the
closure as a task beside a drop watcher, and retries. The closure subscribes to one
notify characteristic, writes requests, and waits for an `asyncio.Event` that a
notification handler sets. `PersistentSolemClient` inherits all closures and replaces
the executor, the subscription and the silent-link reaction.

**What is hard.** Tasks interleave at every `await`: callers, the lock, idle timer,
detached releases, drop callbacks of superseded links, cancellation. Timeouts race
late answers. Notifications are lost, late or left over from an earlier request.
Writes have no transport acknowledgement and some are replayed. A configuration
change is read, written in blocks and read back over links that may fail at each step.

**What makes each component correct.**

* Session: a running operation keeps its link; no link is lost; a release never
  reaches a newer link; every call returns, in bounded time; an unused link is released.
* Dispatcher: one subscription per link; a handler gets no straggler of the operation before,
  and misses no frame of its own.
* Name read: complete or an error, never a mixture; the width only grows.
* Stateless executor: one operation's clean-up never disturbs another's link.
* Transactions: nothing is written over a stale draft; "confirmed" only after a
  matching readback; a failure after the first write is uncertain, never replayed.
* Commands and status: what is returned of the controller was true of it during the call.
* Snapshots and codecs: what is written decodes to what was asked and changes nothing else;
  a restore brings back the hidden programs too; an interval program runs on its days.

## 2. The modules and the code

Constants named after the code's own (`Deadline`, `MaxAttempts`, `Settle`...) stand for
the constants of `const.py` and the client modules, in ticks. An action is the code
between two `await`s unless said otherwise.

| Module | Models | Abstracts |
|---|---|---|
| `PersistentClient` | `PersistentSolemClient._run_operation`, `disconnect`, idle release, detached releases, drop callbacks, cancellation | an operation is "returns, raises, hangs"; the drop hint is one flag |
| `LinkLifecycle` | abstract: what a link may go through (held, released once, gone) | everything else |
| `StatelessClient` | `StatelessSolemClient._run_operation`, `raw_ble_session`, `_watch_drop`, `_check_drop` | as above; there is no lock |
| `NotifyDispatch` | `_start_notify`, `_stop_notify`, `_dispatch_notification` and the straggler window | a notification is the number of the operation that caused it and its age |
| `NameRead` | `_read_station_names_on_connection`, the in-place re-requests, the adoption of `station_count` | half a name is a model value |
| `VerifiedWrite` | abstract: what a verified write promises (refused, confirmed, uncertain) | everything else |
| `ProgramWrite` | `write_program_frames` | a block is a model value; a read reports every core block and any extra one |
| `NameWrite` | `write_station_name`, `_StationNameWriteSession` | its two reads end complete, invalid or failing |
| `VerifiedWrites` | composes the two: a client that calls one or the other | nothing more |
| `HeldLink` | side by side, for TLC: `NotifyDispatch`, `ProgramStore`, `VerifiedWrites` | nothing more |
| `DispatchDelays`, `CallBounds`, `StoreLayout` | the constants of `NotifyDispatch`, of retries, of the program store, with their assumptions | |
| `StatusExchange` | `get_status`, `set_time`, `_execute_command`; the status parser | a status is what it says about activity, station, time, alarm |
| `ProgramStore` | `get_irrigation_config`, `get_program_snapshot`, `write_irrigation_program`, `set_irrigation_program`; completeness, consistency and assembly of a response | a chunk is the name of who wrote it |
| `ProgramEdit` | `normalize_irrigation_program_for_write`, `period_start_to_synchro`, `pack_set_irrigation_program` and the parser of its chunks; `ProgramSnapshot.patch`, `write_frames`, `require_known_programs`, `validate_expected_write` | a transaction is one step that may break off; a name is a sequence of bytes; the header date is a day number |

How the modules fit together: `PersistentClient` and `StatelessClient` are the two
executors; what they show of an operation (one at a time, on its own link, retried on a
new one, ended within a bound) is what the others assume of the operation they model.
`NotifyDispatch` shows what the straggler window does and what it does not: frames of another
operation that are less than a settle delay old never reach a handler, older ones do. Those
are real. The code says that a program write is echoed about a second later
(`client_v2.py:1178-1183`, issue #73), so on a held link the echo lands in whatever operation
runs then. The modules of the operations therefore have late frames as far as their handlers
let them in: in `StatusExchange` the action `Echo` (its handlers look at the number of a frame,
never at its opcode), in `ProgramWrite` an `Echo` that matches the awaited block, in
`ProgramStore` echoes that outlive their write. The handlers of a rename and of a name read admit
frames of their own opcodes only, which no program echo has. Nothing connects the modules
formally except the refinements: `PersistentClient` implements `LinkLifecycle`,
`ProgramWrite` and `NameWrite` implement `VerifiedWrite`, each by itself and side by side in
`VerifiedWrites`, whose behaviours are those of the one or of the other. `HeldLink` puts
the modules of the configuration calls side by side in the same way, so that one run checks
them; it claims no interaction between them. `ProgramEdit` supplies
what `ProgramWrite` takes as given, the frames and the snapshot to expect.

`PersistentClient`: `held` is `_active_client`; `cur` the client of the running attempt;
`rel` the detached releases and the time each still has; `hint` `_link_dropped`; `idle`
the idle timer; `holder` and `queue` the session lock; `phase` is the `await` at which its
holder is suspended (`drain`, `connect`, `race`, `backoff`); `left` is
`deadline_at - time.monotonic()`. A `BleakClient` that nobody refers to is recycled, so
connections are unbounded although `Clients` is finite.

`NotifyDispatch`: a session is a link with its dispatcher; `Dispatch` is the code of
`_dispatch_notification` that decides whether the active handler gets a frame. `Cause` puts a
frame on the air that may arrive at any later time, any number of times, or never; `BareWrite`
is a write of `write_irrigation_program`, which neither subscribes nor waits and whose echo is
always somebody else's.

`StatusExchange`: the controller is part of the model (`device`, `jobs`, `pending`): a
commit executes whatever command is pending, also one an earlier call left behind, and is
answered with three notifications, between which the controller may change what it does.
The three operations differ by `kind` and share the retry loop and the handlers (`Receive`).
`get_status` (`SendCommit`) keeps what its handler was told while it slept; each status read of
`set_time` (`ReadStatus`) clears it first. `Echo` gives the handler a frame of an earlier operation
at any moment: one numbered 2 reads as an off controller without an alarm (byte 3 of an echo is
`0x10` plus the number of the program, which leaves the bits of both clear; `0x10` itself, the
first program, the parser refuses), one numbered 1 as a remaining time for the stations its
bytes reach (`Overlaid`), one numbered 0 as a response. What is left of an earlier commit
on the link is numbered 1 or 0 and covered by the same action: an operation ends with its own
status, or failing, and then its link is closed.

`ProgramStore`: `pc[c]` is `queued` between two operations of one call, which is where other
callers come in. Fragment numbers are those of the protocol (downwards through the whole
response; an echo carries the number of its chunk), because the collision of the two
numberings is the point.

`NameRead`: `held` says that the link is still the session's: `Sever` is the idle timer firing
during the read (finding 1), which takes the handler away and with it the in-place
re-requests (`client is not self._active_client`, `client_persistent.py:343`), while the
polling goes on until the release in the background ends. `width` is `station_count`; `extra` remembers the outputs beyond the caller's own
that have ever had a name, the only ones a true width may count. Reads follow each other on
one client, between them the controller's names may change.

`ProgramEdit`: a program is seven chunks, each a function from the offset in its frame (4 on)
to the byte there, at the literal offsets of the code: `patch`, packing and parsing each have
their own, and `EditExact` compares them. `draft` is the snapshot an editor holds, `backup`
one kept for a restore (`held` what the controller held then), `job` the frames and the
expected snapshot handed to `write_program_frames`. The fragments of the hidden program slots
may be missing from any read. `due` is the day a program was last told to run on. The
controller is external: it counts the days of an interval program down at midnight and
reloads a countdown that is over with the period, then or at the next midnight, as the docstring of
`period_start_to_synchro` expects (`protocol.py:593-599`).

## 3. What the runs check

| Run | Properties | What it shows |
|---|---|---|
| `persistent_safety` | `NoLinkForgotten`, `HoldBounded`, `FirstConnectDrained`, `OnlyIdleSevers`, `TypeOK` | No link that is up is unknown to the client, except one that came up after the deadline (finding 2); the lock is held less than a retry sleep past the deadline; a first attempt never connects beside a release; of everything that runs beside an operation only the idle timer takes its link |
| `persistent_live` | `EveryCallReturns`, `HeldLinkTimed`, `KeepsLifecycle` | Calls return against hanging connects, silence and drops; an unused held link has its timer; the session implements `LinkLifecycle` with its fairness |
| `stateless_safety` | `OwnLinkIsActive`, `NoLinkOutlivesAttempt`, `CallBounded`, `DropIsOwn`, `EveryOperationReturns`, `TypeOK` | Two concurrent callers do not close or abort each other, every way out of an attempt closes its link, the bound on a call is deadline + retry sleep + disconnect |
| `name_read_safety` | `NamesComplete`, `SilenceIsPatient`, `WidthTrue`, `EveryReadEnds`, `TypeOK` | Names are assembled only of complete halves the controller held; silence is concluded on a held link only after every window, poll, pause and re-request, on a severed one after a window and a poll; a read ends within its bound (part of `TypeOK`); the width never falls and never counts an output that had no name |
| `held_link` | `StragglersStayOut`, `NoFrameMissed`, `SubscribedOnce`, `RoutingTypeOK` | No handler gets a frame that another operation caused less than a settle delay ago, however links are held, released and made; the window that ensures it drops no frame of the operation itself; a link is subscribed once |
| | `ReadTrue`, `SetVerified`, `MixtureNoticed`, `StoreTypeOK` | A read is what the controller held; a set that returns was in force; interleaved sets of one program cannot all succeed and leave a mixture |
| | `KeepsPromise`, `RenameKeepsPromise`, `RenameSecondOnFirst`, `TypeOK`, `RenameTypeOK` | Both transactions implement `VerifiedWrite`: "confirmed" means it was in force after the last write, "refused" that nothing was written, and nothing is written twice; the second half of a rename goes out only to a controller that holds the first, whatever woke the waiter |
| `program_edit` | `EditExact`, `RestoreExact`, `RunsOnItsDays`, `TypeOK` | A patch or a set reads back as exactly what was asked, and what is not asked keeps its bytes; a confirmed restore brings back every slot, whatever fragments were lost; an interval program keeps its days over midnights and edits |
| `status_exchange` | `TimeVerdictTrue`, `StatusCoherent`, `CommandDone`, `TypeOK` | Whatever late frames say, `set_time` is done only if the time was stored, rejected only if it was not, and busy only if nothing was sent and the controller was at work; a status joins no two stations; and unless a late frame was taken for the very reply, the time goes only to a controller that was idle, done means an alarm-free status after it was stored, and a command reported done was executed in this call |
| `idle_severs`, `late_connect_leaks`, `name_failure_unwrapped`, `second_window`, `echo_sends_time` | one each, violated | the findings of section 6 |

**Bounds.** The sizes are the smallest at which the hazards meet.
*Session:* three callers are needed for "one runs, one waits, one acts beside", three
clients for "one held, one being released, one connecting"; delays keep the order of the
real ones (release < retry sleep < deadline) and the deadline leaves room for three
attempts. The liveness run has two of each. *Stateless:* two callers, so that one can
disturb the other. *Dispatcher:* four operations let a frame of the first arrive in the
third; settle 2 < retry 3, and a frame's age is told apart up to a settle delay. *Names:* two halves of two values (a mixture needs two of
each), one in-place re-request, a stage long enough for several idle windows, three
requests outstanding; two outputs, of which the client knows one, so that a width can be
adopted too small or too large. *Writes:* one core and one optional block and up to two frames,
also two on one block; two halves of a name; one call per behaviour. *Edits:* two editable
slots (a weekday and an interval program) and a hidden one, two edits and one midnight, a
transfer that may break off after the header; the patches cross every border of the layout
(stations 5/6 and 10/11/12, start times 0 and 1439, two- and three-byte numbers, a name of 31
bytes), the requests a name cut off at 31 bytes and a period anchored in the past.
*Status:* one low and two high stations (a wrong station needs two), of which
a late frame reaches one, two times (interchangeable, hence the symmetry), two attempts, one
change of the controller per call, any number of late frames; the run of the finding needs
neither a change nor a second attempt. *Store:* two programs of
two chunks (response and echo numbers collide), two callers, one foreign change.
`CHECK_DEADLOCK FALSE` is set for `ProgramEdit`, whose days and edits are bounded; in every other
passing run deadlock is checked. In `HeldLink` the callers of `ProgramStore` make one call each, and
`AllEnded` lets a behaviour stay where all of them have ended, and nowhere else.

**Fairness.** Only what an event loop and a clock give: time goes on (strong fairness of
`Tick`, because a tick is disabled while a task is runnable), a task that is runnable runs
(weak fairness of the loop's actions, of the lock's next waiter, of timers and of awaits
that have reached their timeout). Nothing is assumed of the controller or the radio: a
connect may hang, a notification never come. `NameRead` assumes the same of its polling
loop. The remaining modules check safety only.

**Assumptions about what is not in the repository.** A frame may be late without bound as far as
`NotifyDispatch`, `StatusExchange` and `ProgramStore` go. `NameRead`, `NameWrite` and `ProgramWrite`
let a request be answered late, but take it that a fragment of a read or an acknowledgement of a
name is not on the air for longer than a settle delay after its operation; only echoes of program
writes are documented to be, and those their handlers drop, or `ProgramWrite` has. What a late
frame reads like in a status handler is taken from the code's own sample echoes
(`tests/test_client_v2.py:1171-1182`), with opcodes `0x30` and `0x38`; that one reaches the status
parsers long enough is what the layout allows, not a recorded incident. The controller keeps one connection, so nobody else writes
while the link of a transaction is up. It executes a command at the next commit, and
answers a read from its configuration at that moment. The write of a BLE frame may fail
although the frame arrived. For `ProgramEdit`: a write happens within one day, the caller's
day is the controller's, the countdown is the one the docstring expects (it is "pending
hardware validation"), and the date in a header stays as it was written, so that a draft goes
stale by its countdown and not by its date.

## 4. What the properties are aimed at

The hazards are the ones listed for the project, at the lines where they bite: an idle
timer beside queued operations, releases that act by MAC address, results and drops in
one loop iteration, cancellation at any `await`, a shared drop hint, late notifications
after a handler swap, echoes taken for a status or a response, answers around a re-request, partial writes, echoes that look like
acknowledgements or like data, status and time from two notifications, commits that
execute a stale command, three sets of offsets for one layout, hidden programs missing from a
response, a countdown that goes on while a draft is open, a width adopted from a response
that lists every output. Each passing property is broken by at least one plausible
mutation of the code (the operators marked "Mutant of" in the modules).

## 5. What is proved

The proofs hold for every value of the constants that satisfies the assumptions named in
the modules: any callers, clients, stations, programs, chunks, blocks, attempts, delays,
patches and requests.
The assumptions are that the delays keep the order of the real ones (`DelaysAssumption` of
`PersistentClient` and `StatelessClient`; `TicksAssumption`), that a caller is
not mistaken for a model value (`NamesAssumption`, `CallersAssumption`, `StoreAssumption`),
that what a controller reports is finite (`BlocksAssumption`, `StoreAssumption`,
`TicksAssumption`), and that the bounds of the models are numbers (those of `NotifyDispatch` positive); `NameRead` must
also be allowed as many outstanding requests as one read makes, and a late frame supplies times for
high stations only (`OverlaidAssumption`). `ProgramEdit` has at least one hidden
slot, starts with programs that can be stored, takes requests that are programs
except for the ranges of their numbers (`ProgramsAssumption`), and has its midnights in one
January, because the header date is a day of the month (`EditAssumption`). `EditsAreExact` alone
has a hypothesis besides, `NoNul`: no request names a program with a NUL byte, for which
`set_irrigation_program` does report a mismatch (section 6). Eight modules hold the proofs.

| Module | Theorems (and the property each states) |
|---|---|
| `PersistentClientProofs` | `TypeCorrect`, `NoLinkLost` (`NoLinkForgotten`), `LockHeldBounded` (`HoldBounded`), `FirstConnectAlone` (`FirstConnectDrained`), `OnlyIdleTakesTheLink` (`OnlyIdleSevers`), `OperationOwnsItsLink`, `HeldLinkIsTimed` (`HeldLinkTimed`), `RefinesLifecycle` (safety of `KeepsLifecycle`) |
| `StatelessClientProofs` | `TypeCorrect`, `OwnLinkAlwaysActive` (`OwnLinkIsActive`), `LinksClosed` (`NoLinkOutlivesAttempt`), `CallsBounded` (`CallBounded`), `DropsAreOwn` (`DropIsOwn`) |
| `NotifyDispatchProofs` | `TypeCorrect`, `StragglersAreDropped` (`StragglersStayOut`), `WindowCostsNothing` (`NoFrameMissed`), `OneSubscription` (`SubscribedOnce`) |
| `NameReadProofs` | `TypeCorrect`, `NamesAreComplete` (`NamesComplete`), `SilencePatient` (`SilenceIsPatient`), `WidthCorrect` (`WidthTrue`) |
| `HeldLinkProofs` | `TypeCorrect`, `RefinesVerifiedWrite` (`KeepsPromise`); of `NameWrite`: `RenameTypeCorrect` (`RenameTypeOK`), `SecondHalfOnFirst` (`RenameSecondOnFirst`), `RenameRefinesVerifiedWrite` (`RenameKeepsPromise`); `BothKeepTheirPromises` puts them together for `VerifiedWrites`. Of `HeldLink`: `LinkKeepsPromises`, and by citing the theorems of `NotifyDispatchProofs` and `ProgramStoreProofs`, `RoutingTypeCorrect`, `StragglersDropped`, `NoFrameLost`, `SubscribesOnce`, `StoreTypeCorrect`, `ReadsTrue`, `SetsVerified`, `MixturesNoticed` |
| `StatusExchangeProofs` | `TypeCorrect`, `TimeVerdictsTrue` (`TimeVerdictTrue`), `StatusesCoherent` (`StatusCoherent`), `CommandsDone` (`CommandDone`) |
| `ProgramStoreProofs` | `TypeCorrect`, `ReadsTrue` (`ReadTrue`), `SetsVerified` (`SetVerified`), `MixturesNoticed` (`MixtureNoticed`) |
| `ProgramEditProofs` | `TypeCorrect`, `EditsAreExact` (`EditExact`), `RestoreIsExact` (`RestoreExact`), `ProgramsRunOnTheirDays` (`RunsOnItsDays`) |

None of the properties is inductive alone. Each module defines an `IInv`, shows that it holds
at first and that every action keeps it (one lemma an action, or one a part of the
invariant), and derives the theorems.

*Session.* Whether a link is forgotten depends on which
point of the retry loop the holder is at, and how long the lock is held depends on how
much of the deadline each phase may have consumed. The invariant
`IInv == TypeOK /\ PhaseInv /\ TimeInv /\ DrainInv /\ NoLinkForgotten` says what the
session state is at each `await` (`PhaseInv`), how far behind the deadline each may be
(`TimeInv`: a drain cannot outlast the releases it awaits, a retry sleep starts before the
deadline) and that a first attempt has more time to drain than any release takes
(`DrainInv`). The action property `OnlyIdleTakesTheLink` follows step by step.
`OperationOwnsItsLink` shows that with idle release off (`IdleSeconds = 0`) the first finding
cannot occur; `HeldLinkIsTimed` assumes, as its run does, that nobody is cancelled, and
`MayCancel = TRUE` would refute it (section 6). `RefinesLifecycle` maps the session to
`LinkLifecycle`: initial states to initial states, each action to a step or a stutter.

*Stateless executor.* `TimeInv` says what `left` is worth at each `await` of a call. With it,
`OwnLinkIsActive` and `NoLinkOutlivesAttempt` are inductive: an attempt enters its race only as
the owner of the one link there can be, and every way out closes the link or sees it resist.

*Dispatcher.* The age of a frame and what is left of the straggler window, or of the sleep
before a subscription, add up to a settle delay at least, for every frame of another operation
(`Straggler`, `RoutingInv`); so by the time the window is over it is that old. No bound on the
latency is needed. The link that carries the dispatcher is the one that was subscribed
(`SubscriptionInv`).

*Name read.* `PastInv` says that whatever is on the air or collected was held since the read
began, and that the outputs the history names beyond the client's width are in `extra`: with
`Complete` it gives the names, with the clamp in `Adopted` the width. `TimeInv` knows the clock
exactly while a read runs (`Spent`, the price of the rounds used up, plus the ticks of this
one), because a request is repeated only if nothing came since it went out, and then the
silence, the grace and the ticks since the request determine each other. The same equation
bounds the read from above (the last conjunct of `TypeOK`) and, while the session holds the link,
a verdict of silence from below.

*Program and name transactions.* `PhaseInv` ties the phase to what has been sent and
acknowledged; for a program, `CommandsInv` ties what is on its way to the block being written
and `FragmentsInv` what a readback has collected to what the controller holds. Every step maps to
a step of `VerifiedWrite` or a stutter: "confirmed" needs the fragments of the readback to be
the configuration itself, "refused" that nothing has gone out. `RenameAckInv` adds for a rename
that while the first half is unanswered no acknowledgement is on its way, and that what there
is after a refusal acknowledges nothing (`NoAcknowledgement`).

*Status exchanges.* `MessagesOK` and `SeenInv` say that what is on the air was true at some
moment of the call; `ReplyInv` that a reply in a handler was; `CommandInv` and `FreeInv` where
the pending command and the operation stand in the exchange.

*Program store.* The heart is the lemma `Reassembly`: fragments of one response that pass the
completeness test of the code are all of it, and assemble to what was sent. It turns on the
numbering, which goes down through the programs. `ReadInv` says that while a read is under way
what it has collected and what is still to come are disjoint parts of one response, and that at
any other time no fragment of a read is on the air; hence a read that finishes leaves none
behind for the next one, whoever that is. `MixtureNoticed` is inductive with it: the last of
several setters to finish has seen what the controller holds.

*Program edits.* `IInv` says what each piece of state is made of: whatever the controller holds
is a block per slot (`IsBlock`: seven chunks of bytes of their lengths), a draft is a snapshot, a
backup is a report of what `held` remembers, and a prepared job is a patch of a snapshot or the
restore of the backup, with its frames and the snapshot to expect. All but the types is a matter
of the codec, which is taken apart byte by byte. `StoredAt` says what a configuration holds after
any prefix of a transfer, `PatchedByte` which splice owns a byte and that no two own the same one,
`MidnightBlock` what a day changes.

* `RestoreIsExact`: a backup that `write_frames` accepts has lost no fragment
  (`RestorableIsWhole`: as many slots report as are hidden, with all their chunks), so its frames cover every
  slot, and a confirmed transfer leaves nothing of what was there before.
* `ProgramsRunOnTheirDays`: `SynchroPhase` gives what `period_start_to_synchro` must, a countdown
  below the period that ends on a day of the anchor's phase; `DayPasses` keeps both when the
  countdown moves or is reloaded. A stale draft is refused (`Fresh`), so a patch of another field
  writes back today's countdown and never yesterday's.
* `EditsAreExact`: `HasBytesReads` says that a program whose fields stand at the parser's offsets
  decodes to them; pack puts them there (`PackedBlock` and what follows it), and so does a patch
  for the fields of its change and the others (`PatchReads`), which is where the three sets of
  offsets must agree. `KeyedIs` reads `validate_expected_write` the same way. That `verdict` is never
  "mismatch" is inductive together with `IInv`.

*Only model-checked* is liveness: `EveryCallReturns`, `EveryOperationReturns`, `EveryReadEnds`
and the fairness part of `KeepsLifecycle`, which the prover does not handle. Every invariant and
every safety part of an action or temporal property of the passing runs is proved.

## 6. Findings

1. `idle_severs`: the idle timer is cancelled before the lock is awaited
   (`client_persistent.py:433`). An operation queued behind another one does not cancel the
   timer the first arms on success; it fires during the queued operation and takes its link.
2. `late_connect_leaks`: a connect that succeeds as the deadline passes is forgotten: the
   handler of `SolemDeadlineExceeded` clears the session before the `finally` clause
   looks at it (`client_persistent.py:530`).
3. `name_failure_unwrapped`: an invalid readback after a rename surfaces as
   `InvalidSnapshot`, not as the documented `UncertainWrite` (`client_v2.py:1133`).
4. `second_window`: the comment of the polling loop promises that "only the second consecutive
   empty window is the verdict" (`client_v2.py:986-989`); but `last_received` is not renewed, so
   the verdict comes with the next poll, 50 ms after the first window.
5. `echo_sends_time`: the handlers of status and commands look at the number of a frame and never
   at its opcode (`protocol.py:234`), so `set_time` may take a late echo of a program write for the
   status of an idle controller and send the time to one that waters.

The same echo breaks three more docstrings, each where a property of `status_exchange` has the
fact `echo2`, `echo1` or `echo0` as its exception: it may be returned by `get_status` as a status or a
remaining time (`protocol.py:233`), confirm a `set_time` whose alarm is still set
(`client_v2.py:1544-1546`), and end `_execute_command` before the controller has executed the
command (`client_v2.py:1656`; 1633 says that it waits for the acknowledgement). Without the exception TLC refutes
each of them.

Smaller observations, without a run of their own:

* Two reads of a name around a rename may return a name whose halves are from before and after it:
  a response is not a snapshot of the controller, and no document says it is (`NamesComplete`
  is about each half).
* The docstring at `client_persistent.py:328-331` has the silent verdict propagate "only when
  the controller stays silent through every re-request"; when the idle timer took the link during
  the read (finding 1), it does so with no re-request.
* A retry's drain is bounded by what is left of the budget, so a late retry may connect
  while a release is pending; `FirstConnectDrained` is stated for first attempts only.
* A cancellation that arrives between the end of the operation task and the executor's
  resumption keeps the client without arming the idle timer; the run of `HeldLinkTimed`
  therefore has `MayCancel = FALSE`.
* The connect is given the budget computed before the drain, so a call can outlast its
  deadline by the drain; `HoldBounded` is the exact bound.
* The persistent executor has no counterpart of the stateless
  `except (InvalidSnapshot, StaleProgram)`: it may retry a verdict no retry can change.
* An off controller keeps reporting remaining times; `get_status` can attach one to a
  status read just before it was turned off.
* A command whose response is lost is sent again on purpose, so a manual run may start
  twice.
* The persistent executor reads `_link_dropped` to decide whether to reuse its link
  (`client_persistent.py:455-459`), while `_on_disconnected` says that only `_check_drop`
  consults the hint: a stale one gives up a healthy link, and the comment on clearing a stale
  hint (463-467) describes a case that cannot occur there.
* `get_station_name` raises `KeyError` when the station is missing from a partial response,
  which `get_station_names` returns once its stage is over (`client_v2.py:827`).
* Once the controller has reloaded a countdown to `period_length`, `patch` refuses every edit
  of that program that leaves its interval alone, until the next midnight (`snapshot.py:266`).
* `set_irrigation_program` accepts a name with a NUL, which `patch` refuses; it is cut off
  there on readback, so that the set fails its verification.
* A set whose readback comes after midnight fails its verification: the countdown has moved.

## 7. Not modelled

* The layouts of status, command and name frames, of the firmware and controller-name replies,
  and of dates other than the countdown: pure functions on bytes whose results the modules
  take as values. UTF-8, too: a name is its bytes.
* `StationNameSnapshot.renamed` and the splitting of a name in two frames: one concatenation.
* The device cache (`_resolve_ble_device`, `_ble_device_callback`): all that reaches the
  executors is a connect that succeeds, hangs or fails, and these they allow at any time. A
  device of the wrong age or none at all is a failed connect.
* `get_firmware_version`, `get_station_names`: single request and
  response with the shape of `_execute_command`, without effect on the controller or on later
  calls.
* A command that is replayed because its response was lost, and a write over midnight: the code
  has no defence and no document says what should happen, so there is nothing to check.
* Mock mode, logging, diagnostics text, exception messages: no control depends on them.
* `validate*.py`: a command-line script that calls the client in sequence and prints reports.

## 8. Plan

Built: the session, the stateless executor, the dispatcher, the name read with its width, both
transactions with their abstraction, the status exchanges, the program store, and the program
codec with its snapshots and countdown, each with its proofs.

Next: an abstract specification of a verified read (asked, answered, returned or given up) that
`NameRead` and `ProgramStore` can be shown to implement, as the writes implement theirs.
