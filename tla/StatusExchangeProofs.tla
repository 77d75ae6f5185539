------------------------ MODULE StatusExchangeProofs ------------------------
(***************************************************************************)
(* Proofs about StatusExchange, for any stations, times and numbers of     *)
(* attempts, changes and notifications under way.                          *)
(*                                                                         *)
(* The verdicts of the operations are not inductive: they follow from what *)
(* is still on its way.  SeenInv says that every status, in the air or     *)
(* received, was true of the controller at some moment of the call, or is  *)
(* what an echo taken during the call reads like; CommandInv that no       *)
(* response to a command is on its way before the command is executed;     *)
(* ReplyInv what the replies to a time, and the statuses behind them, say  *)
(* about the controller's store.                                           *)
(***************************************************************************)
EXTENDS StatusExchange, SequenceTheorems, FiniteSetTheorems, TLAPS

-----------------------------------------------------------------------------
(* The inductive invariant.                                                *)

Reports == [watering : BOOLEAN, station : SUBSET Stations, left : Times \cup {NoTime},
            program : BOOLEAN, alarm : BOOLEAN]

Notices == [seq : {"two"}, status : Reports] \cup [seq : {"one"}, device : Devices]
             \cup [seq : {"zero", "ack", "reject"}]

\* Status s, its time aside, is what the parser makes of a controller doing e.
Fits(s, e) ==
    /\ \A st \in s.station : s.station = {st} /\ e[1] /\ Active(e[2]) /\ e[2][1] = st
    /\ Busy(s) <=> e[1] /\ e[2] # <<"idle">>

\* It was so at one of some moments, and the time was that of its station at
\* one of others.
Told(s, moments, times) ==
    /\ \E e \in moments : Fits(s, e)
    /\ \A st \in s.station : s.left = NoTime \/ \E e \in times : e[2] = <<st, s.left>>

\* The moments of the call, with what the echoes it took for a status, or for a
\* remaining time, read like.
Moments == seen \cup (IF "echo2" \in facts THEN {Doing(Blank)} ELSE {})
Spells  == seen \cup (IF "echo1" \in facts
                      THEN {Doing(Posing(st, t)) : st \in Overlaid, t \in Times} ELSE {})

\* Beside TypeOK: what is in the air, and that at most one status is held.
MessagesOK ==
    /\ air \in Seq(Notices)
    /\ status = {} \/ \E s \in Reports : status = {s}

\* Between operations nothing is under way; an operation that is under way has
\* no outcome yet.
FreeInv ==
    /\ phase = "free" => jobs = <<>> /\ air = <<>>
    /\ phase # "free" => outcome = "none"

\* Every status was true at some moment of the call, echoes aside.
SeenInv ==
    /\ phase # "free" => Doing(device) \in seen
    /\ \A s \in status : Told(s, Moments, Spells)
    /\ \A i \in 1 .. Len(air) :
          /\ air[i].seq = "two" => Told(air[i].status, seen, seen)
          /\ air[i].seq = "one" => Doing(air[i].device) \in seen
    /\ "sent" \in facts => \E e \in Moments : e[1] => e[2] = <<"idle">>

\* Until the command is executed it is on its way, with its commit behind it,
\* and no response is, nor was an echo taken for it.
CommandInv ==
    kind = "command" /\ "executed" \notin facts /\ "echo0" \notin facts =>
        /\ ~event /\ outcome # "done"
        /\ \A i \in 1 .. Len(air) : air[i].seq # "zero"
        /\ \/ phase \in {"free", "subscribed"} /\ jobs = <<>>
           \/ phase = "wait" /\ jobs = <<"command", "commit">>
           \/ phase = "wait" /\ jobs = <<"commit">> /\ pending = "mine"

\* A reply is on its way or has arrived.
Reply(r) == replied = r \/ \E i \in 1 .. Len(air) : air[i].seq = r

\* An acknowledgement precedes notification i.
Acked(i) == replied = "ack" \/ \E j \in 1 .. i - 1 : air[j].seq = "ack"

\* The alarm is gone, or so an echo says.
Cleared == "clear" \in facts \/ "echo2" \in facts

\* While the time is on its way it is the last job, and there is no reply; a
\* reply tells whether the controller stored it; and a status without an alarm
\* that follows an acknowledgement was made after the time was stored.
ReplyInv ==
    kind = "settime" /\ phase # "free" =>
        /\ phase # "settle"
        /\ phase \in {"subscribed", "wait"} =>
              /\ "sent" \notin facts /\ "stored" \notin facts
              /\ ~Reply("ack") /\ ~Reply("reject")
        /\ \A i \in 1 .. Len(jobs) : jobs[i] = "time" =>
              /\ i = Len(jobs) /\ phase = "reply" /\ "stored" \notin facts
              /\ ~Reply("ack") /\ ~Reply("reject")
        /\ Reply("ack") => "stored" \in facts
        /\ Reply("reject") => /\ "stored" \notin facts
                              /\ \A i \in 1 .. Len(jobs) : jobs[i] # "time"
        /\ \A i \in 1 .. Len(air) : air[i].seq = "two" /\ Acked(i) =>
              air[i].status.alarm \/ Cleared
        /\ phase = "verify" =>
              /\ replied = "ack"
              /\ \A s \in status : s.alarm \/ Cleared

IInv ==
    /\ TypeOK /\ MessagesOK /\ FreeInv /\ SeenInv /\ CommandInv /\ ReplyInv
    /\ TimeVerdictTrue

USE DEF controller, local

-----------------------------------------------------------------------------
(* Lemmas on the parser.                                                   *)

\* A controller that waters is at one station, with its time.
LEMMA ActiveRun ==
    ASSUME NEW run \in Runs, Active(run)
    PROVE  run \in Stations \X Times /\ run = <<run[1], run[2]>>
<1>1. Len(<<"gap">>) = 1 /\ Len(<<"bits">>) = 1 /\ Len(<<"idle">>) = 1
  OBVIOUS
<1>2. run \in Stations \X Times
  BY <1>1, SMT DEF Runs, Active
<1> QED BY <1>2

\* What the parser makes of a controller is a status, and true of it.
LEMMA ParsedTrue ==
    ASSUME NEW d \in Devices, NEW timed \in BOOLEAN, NEW moments, NEW times,
           Doing(d) \in moments, Doing(d) \in times
    PROVE  Parsed(d, timed) \in Reports /\ Told(Parsed(d, timed), moments, times)
<1> DEFINE s == Parsed(d, timed)
           waters == d.on /\ Active(d.run)
<1>1. /\ d.on \in BOOLEAN /\ d.run \in Runs /\ d.alarm \in BOOLEAN
  BY Zenon DEF Devices
<1>2. waters => d.run[1] \in Stations /\ d.run[2] \in Times /\ d.run = <<d.run[1], d.run[2]>>
  BY <1>1, ActiveRun
<1>3. /\ s.watering = (d.on /\ d.run \notin {<<"idle">>, <<"gap">>})
      /\ s.station = IF waters THEN {d.run[1]} ELSE {}
      /\ s.left = IF waters /\ timed THEN d.run[2] ELSE NoTime
      /\ s.program = (d.on /\ d.run = <<"gap">>)
      /\ s.alarm = d.alarm
  BY Zenon DEF Parsed
<1>4. s \in Reports
  <2>1. s.station \in SUBSET Stations /\ s.left \in Times \cup {NoTime}
    BY <1>2, <1>3
  <2>2. s.watering \in BOOLEAN /\ s.program \in BOOLEAN /\ s.alarm \in BOOLEAN
    BY <1>1, <1>3, Zenon
  <2>3. s = [watering |-> s.watering, station |-> s.station, left |-> s.left,
             program |-> s.program, alarm |-> s.alarm]
    BY Zenon DEF Parsed
  <2> HIDE DEF s
  <2> QED BY <2>1, <2>2, <2>3, Zenon DEF Reports
<1>5. Doing(d)[1] = d.on /\ Doing(d)[2] = d.run
  BY DEF Doing
<1>6. Fits(s, Doing(d))
  <2>1. \A st \in s.station : s.station = {st} /\ d.on /\ Active(d.run) /\ d.run[1] = st
    BY <1>3
  <2>2. Busy(s) <=> d.on /\ d.run # <<"idle">>
    <3>1. <<"gap">> # <<"idle">>
      OBVIOUS
    <3> QED BY <1>3, <3>1, Zenon DEF Busy
  <2> HIDE DEF s
  <2> QED BY <1>5, <2>1, <2>2, Zenon DEF Fits
<1>7. \A st \in s.station : s.left = NoTime \/ Doing(d)[2] = <<st, s.left>>
  BY <1>2, <1>3, <1>5
<1> HIDE DEF s
<1>8. Told(s, moments, times)
  BY <1>6, <1>7, Zenon DEF Told
<1> QED BY <1>4, <1>8 DEF s

\* The more moments, the more is true of one of them.
LEMMA ToldMore ==
    ASSUME NEW s, NEW moments, NEW times, NEW more, NEW longer,
           moments \subseteq more, times \subseteq longer, Told(s, moments, times)
    PROVE  Told(s, more, longer)
BY Zenon DEF Told

\* A status completed with the time of its station is still true, at two
\* moments of the call.
LEMMA TimedTrue ==
    ASSUME NEW s \in Reports, NEW d \in Devices, NEW moments, NEW times,
           Doing(d) \in times, Told(s, moments, times)
    PROVE  /\ \A q \in Timed(s, d) : q \in Reports /\ Told(q, moments, times) /\ q.alarm = s.alarm
           /\ Timed(s, d) = {} \/ \E q \in Reports : Timed(s, d) = {q}
<1>1. \A h \in s.station : s.station = {h}
  BY DEF Told, Fits
<1>2. ASSUME NEW h \in s.station, Untimed(s), Slot(d, h) # NoTime
      PROVE  /\ [s EXCEPT !.left = Slot(d, h)] \in Reports
             /\ Told([s EXCEPT !.left = Slot(d, h)], moments, times)
             /\ [s EXCEPT !.left = Slot(d, h)].alarm = s.alarm
  <2> DEFINE q == [s EXCEPT !.left = Slot(d, h)]
  <2>1. d.run \in High \X Times /\ d.run[1] = h /\ Slot(d, h) = d.run[2]
    BY <1>2 DEF Slot
  <2>2. Slot(d, h) \in Times /\ d.run = <<h, Slot(d, h)>>
    BY <2>1
  <2>3. q \in Reports
    BY <2>2, Zenon DEF Reports
  <2>4. /\ q.station = s.station /\ q.left = Slot(d, h) /\ q.alarm = s.alarm
        /\ q.watering = s.watering /\ q.program = s.program
    BY DEF Reports
  <2>5. Doing(d)[2] = d.run
    BY DEF Doing
  <2> HIDE DEF q
  <2>6. \A e \in moments : Fits(s, e) => Fits(q, e)
    BY <2>4, Zenon DEF Fits, Busy
  <2>7. \A st \in q.station : Doing(d)[2] = <<st, q.left>>
    BY <1>1, <2>2, <2>4, <2>5
  <2>8. Told(q, moments, times)
    BY <2>6, <2>7, Zenon DEF Told
  <2> QED BY <2>3, <2>4, <2>8 DEF q
<1>3. \A q \in Timed(s, d) : q \in Reports /\ Told(q, moments, times) /\ q.alarm = s.alarm
  <2> SUFFICES ASSUME NEW q \in Timed(s, d)
               PROVE  q \in Reports /\ Told(q, moments, times) /\ q.alarm = s.alarm
    OBVIOUS
  <2>1. PICK h \in s.station : /\ Untimed(s) /\ Slot(d, h) # NoTime
                               /\ q = [s EXCEPT !.left = Slot(d, h)]
    BY Zenon DEF Timed
  <2> QED BY <2>1, <1>2, Zenon
<1>4. \A q, p \in Timed(s, d) : q = p
  BY <1>1, Zenon DEF Timed
<1> QED BY <1>3, <1>4

-----------------------------------------------------------------------------
(* Lemmas on the air: what a step leaves in it, or puts behind it.         *)

\* The first notification is taken, or lost.
LEMMA TailAir ==
    ASSUME air \in Seq(Notices), air # <<>>, air' = Tail(air)
    PROVE  /\ air' \in Seq(Notices) /\ Len(air') = Len(air) - 1
           /\ \A i \in 1 .. Len(air') : i + 1 \in 1 .. Len(air) /\ air'[i] = air[i + 1]
           /\ Head(air) = air[1] /\ Head(air) \in Notices /\ 1 \in 1 .. Len(air)
BY SMT

\* One more notification.
LEMMA NotifyAir ==
    ASSUME air \in Seq(Notices), NEW n \in Notices, Notify(n)
    PROVE  /\ air' \in Seq(Notices) /\ Len(air') = Len(air) + 1 /\ Len(air') <= MaxAir
           /\ \A i \in 1 .. Len(air) : air'[i] = air[i]
           /\ air'[Len(air')] = n
           /\ \A i \in 1 .. Len(air') : i \in 1 .. Len(air) \/ i = Len(air) + 1
<1>1. air' = Append(air, n) /\ Len(air) < MaxAir
  BY DEF Notify
<1>2. Len(air') = Len(air) + 1 /\ Len(air) \in Nat
  BY <1>1
<1>3. Len(air') <= MaxAir
  BY <1>1, <1>2, AirAssumption, SMT
<1> QED BY <1>1, <1>2, <1>3, SMT

\* The kinds of notifications.
LEMMA NoticeKinds ==
    ASSUME NEW n \in Notices
    PROVE  /\ n.seq \in {"two", "one", "zero", "ack", "reject"}
           /\ n.seq = "two" => n.status \in Reports
           /\ n.seq = "one" => n.device \in Devices
BY SMT DEF Notices

LEMMA PlainNotices ==
    ASSUME NEW x \in {"zero", "ack", "reject"}
    PROVE  [seq |-> x] \in Notices /\ [seq |-> x].seq = x
BY SMT DEF Notices

\* A status the controller may make now.
LEMMA StatusNotice ==
    ASSUME device \in Devices, NEW n \in Statuses
    PROVE  /\ n \in Notices /\ n.seq = "two" /\ n.status.alarm = device.alarm
           /\ \A moments : Doing(device) \in moments => Told(n.status, moments, moments)
<1>1. PICK timed \in BOOLEAN : n = [seq |-> "two", status |-> Parsed(device, timed)]
  BY Zenon DEF Statuses
<1>2. Parsed(device, timed) \in Reports
  <2> DEFINE now == {Doing(device)}
  <2>1. Doing(device) \in now
    OBVIOUS
  <2> HIDE DEF now
  <2>2. \A times : Doing(device) \in times => Parsed(device, timed) \in Reports
    BY <2>1, ParsedTrue
  <2> QED BY <2>1, <2>2, Zenon
<1>3. n.seq = "two" /\ n.status = Parsed(device, timed)
  BY <1>1
<1>4. n \in Notices
  BY <1>1, <1>2, Zenon DEF Notices
<1>5. n.status.alarm = device.alarm
  <2>1. Parsed(device, timed).alarm = device.alarm
    BY Zenon DEF Parsed
  <2> QED BY <1>3, <2>1
<1> QED BY <1>3, <1>4, <1>5, ParsedTrue

LEMMA DeviceNotice ==
    ASSUME device \in Devices
    PROVE  /\ [seq |-> "one", device |-> device] \in Notices
           /\ [seq |-> "one", device |-> device].seq = "one"
           /\ [seq |-> "one", device |-> device].device = device
BY SMT DEF Notices

-----------------------------------------------------------------------------
(* Types.                                                                  *)

Types == TypeOK /\ MessagesOK

Phases == {"free", "subscribed", "wait", "settle", "reply", "verify"}
Jobs == {"command", "commit", "time", "two", "one", "zero"}

\* At most one status: what TypeOK counts.
LEMMA OneStatus ==
    ASSUME NEW S, S = {} \/ \E s \in Reports : S = {s}
    PROVE  Cardinality(S) <= 1
<1>1. CASE S = {}
  BY <1>1, FS_EmptySet, SMT
<1>2. CASE \E s \in Reports : S = {s}
  BY <1>2, FS_Singleton, SMT
<1> QED BY <1>1, <1>2

\* The effect of a notification on the operation that receives it.
LEMMA ReceiveEffect ==
    ASSUME Types, NEW n \in Notices, Receive(n), NEW moments, NEW times,
           n.seq = "one" => Doing(n.device) \in times,
           \A s \in status : Told(s, moments, times)
    PROVE  /\ event' \in BOOLEAN
           /\ kind = "command" => (event' <=> event \/ n.seq = "zero")
           /\ replied' = IF kind = "settime" /\ n.seq \in {"ack", "reject"} THEN n.seq ELSE replied
           /\ status' = {} \/ \E s \in Reports : status' = {s}
           /\ n.seq = "two" => status' = {n.status}
           /\ n.seq # "two" =>
                 \A q \in status' : Told(q, moments, times) /\ \E s \in status : q.alarm = s.alarm
<1> DEFINE timed == IF n.seq = "one" /\ kind = "status"
                    THEN UNION {Timed(s, n.device) : s \in status} ELSE {}
<1>1. /\ n.seq = "two" => n.status \in Reports
      /\ n.seq = "one" => n.device \in Devices
  BY NoticeKinds
<1>2. /\ status' = IF n.seq = "two" THEN {n.status} ELSE IF timed # {} THEN timed ELSE status
      /\ event' = (event \/ IF kind = "command" THEN n.seq = "zero" ELSE n.seq = "two" \/ timed # {})
      /\ replied' = IF kind = "settime" /\ n.seq \in {"ack", "reject"} THEN n.seq ELSE replied
  BY Zenon DEF Receive
<1>3. /\ timed = {} \/ \E s \in Reports : timed = {s}
      /\ \A q \in timed : Told(q, moments, times) /\ \E s \in status : q.alarm = s.alarm
  <2>1. CASE n.seq = "one" /\ kind = "status" /\ status # {}
    <3>1. PICK s \in Reports : status = {s}
      BY <2>1 DEF Types, MessagesOK
    <3>2. timed = Timed(s, n.device)
      BY <2>1, <3>1
    <3>3. Told(s, moments, times) /\ Doing(n.device) \in times /\ n.device \in Devices
      BY <1>1, <2>1, <3>1
    <3> HIDE DEF timed
    <3> QED BY <3>1, <3>2, <3>3, TimedTrue
  <2>2. CASE ~(n.seq = "one" /\ kind = "status" /\ status # {})
    <3>1. timed = {}
      BY <2>2
    <3> QED BY <3>1
  <2> QED BY <2>1, <2>2
<1>4. event \in BOOLEAN
  BY DEF Types, TypeOK
<1>5. event' \in BOOLEAN /\ (kind = "command" => (event' <=> event \/ n.seq = "zero"))
  BY <1>2, <1>4, Zenon
<1>6. status = {} \/ \E s \in Reports : status = {s}
  BY DEF Types, MessagesOK
<1> HIDE DEF timed
<1>7. status' = {} \/ \E s \in Reports : status' = {s}
  BY <1>1, <1>2, <1>3, <1>6
<1>8. n.seq # "two" =>
         \A q \in status' : Told(q, moments, times) /\ \E s \in status : q.alarm = s.alarm
  BY <1>2, <1>3
<1> QED BY <1>2, <1>5, <1>7, <1>8

\* Of one the controller sent.
LEMMA HandleEffect ==
    ASSUME Types, SeenInv, Handle
    PROVE  /\ air # <<>> /\ air' = Tail(air) /\ Head(air) \in Notices /\ phase # "free"
           /\ UNCHANGED <<device, jobs, pending, changes, kind, phase, attempt, outcome, facts, seen>>
           /\ event' \in BOOLEAN
           /\ kind = "command" => (event' <=> event \/ Head(air).seq = "zero")
           /\ replied' = IF kind = "settime" /\ Head(air).seq \in {"ack", "reject"}
                         THEN Head(air).seq ELSE replied
           /\ status' = {} \/ \E s \in Reports : status' = {s}
           /\ \A q \in status' : Told(q, Moments, Spells)
           /\ Head(air).seq = "two" => status' = {Head(air).status}
           /\ Head(air).seq # "two" => \A q \in status' : \E s \in status : q.alarm = s.alarm
<1>1. /\ air # <<>> /\ air' = Tail(air) /\ air \in Seq(Notices) /\ phase # "free" /\ Receive(Head(air))
      /\ UNCHANGED <<device, jobs, pending, changes, kind, phase, attempt, outcome, facts, seen>>
  BY Zenon DEF Handle, Types, MessagesOK
<1>2. /\ Head(air) = air[1] /\ Head(air) \in Notices /\ 1 \in 1 .. Len(air)
  BY <1>1, SMT
<1>3. seen \subseteq Moments /\ seen \subseteq Spells
  BY DEF Moments, Spells
<1>4. /\ Head(air).seq = "one" => Doing(Head(air).device) \in Spells
      /\ Head(air).seq = "two" => Told(Head(air).status, Moments, Spells)
      /\ \A s \in status : Told(s, Moments, Spells)
  BY <1>2, <1>3, ToldMore DEF SeenInv
<1>5. /\ event' \in BOOLEAN
      /\ kind = "command" => (event' <=> event \/ Head(air).seq = "zero")
      /\ replied' = IF kind = "settime" /\ Head(air).seq \in {"ack", "reject"}
                    THEN Head(air).seq ELSE replied
      /\ status' = {} \/ \E s \in Reports : status' = {s}
      /\ Head(air).seq = "two" => status' = {Head(air).status}
      /\ Head(air).seq # "two" =>
            \A q \in status' : Told(q, Moments, Spells) /\ \E s \in status : q.alarm = s.alarm
  BY <1>1, <1>2, <1>4, ReceiveEffect
<1>6. \A q \in status' : Told(q, Moments, Spells)
  BY <1>4, <1>5
<1> QED BY <1>1, <1>2, <1>5, <1>6, Zenon

\* Of an echo: the moments it reads like count from then on.
LEMMA EchoEffect ==
    ASSUME Types, SeenInv, Echo
    PROVE  /\ phase # "free"
           /\ UNCHANGED <<device, jobs, air, pending, changes, kind, phase, attempt, replied, outcome, seen>>
           /\ event' \in BOOLEAN
           /\ kind = "command" => (event' <=> event) \/ "echo0" \in facts'
           /\ \E x \in {"echo0", "echo1", "echo2"} : facts' = facts \cup {x}
           /\ status' = {} \/ \E s \in Reports : status' = {s}
           /\ \A q \in status' : Told(q, Moments', Spells')
           /\ "echo2" \in facts' \/ \A q \in status' : \E s \in status : q.alarm = s.alarm
<1>1. /\ phase # "free"
      /\ UNCHANGED <<device, jobs, air, pending, changes, kind, phase, attempt, outcome, seen>>
  BY Zenon DEF Echo
<1>2. ASSUME facts \subseteq facts'
      PROVE  \A s \in status : Told(s, Moments', Spells')
  <2>1. Moments \subseteq Moments' /\ Spells \subseteq Spells'
    BY <1>1, <1>2 DEF Moments, Spells
  <2> QED BY <2>1, ToldMore DEF SeenInv
<1>3. ASSUME NEW n \in Notices, Receive(n), facts \subseteq facts', n.seq \notin {"ack", "reject"},
             n.seq = "one" => Doing(n.device) \in Spells'
      PROVE  /\ event' \in BOOLEAN /\ replied' = replied
             /\ kind = "command" => (event' <=> event \/ n.seq = "zero")
             /\ status' = {} \/ \E s \in Reports : status' = {s}
             /\ n.seq = "two" => status' = {n.status}
             /\ n.seq # "two" =>
                   \A q \in status' : Told(q, Moments', Spells') /\ \E s \in status : q.alarm = s.alarm
  BY <1>2, <1>3, ReceiveEffect
<1>4. CASE Receive([seq |-> "two", status |-> Parsed(Blank, TRUE)]) /\ facts' = facts \cup {"echo2"}
  <2> DEFINE n == [seq |-> "two", status |-> Parsed(Blank, TRUE)]
  <2>1. Blank \in Devices
    BY DEF Blank, Devices, Runs
  <2>2. Doing(Blank) \in Moments'
    BY <1>4 DEF Moments
  <2>3. Parsed(Blank, TRUE) \in Reports /\ Told(Parsed(Blank, TRUE), Moments', {Doing(Blank)})
    BY <2>1, <2>2, ParsedTrue
  <2>4. Parsed(Blank, TRUE).station = {}
    BY DEF Parsed, Blank
  <2>5. Told(Parsed(Blank, TRUE), Moments', Spells')
    BY <2>3, <2>4, Zenon DEF Told
  <2>6. n \in Notices /\ n.seq = "two" /\ n.status = Parsed(Blank, TRUE)
    BY <2>3, Zenon DEF Notices
  <2>7. Receive(n) /\ facts \subseteq facts' /\ n.seq \notin {"ack", "reject"} /\ n.seq # "one" /\ n.seq # "zero"
    BY <1>4, <2>6
  <2> HIDE DEF n
  <2>8. /\ event' \in BOOLEAN /\ replied' = replied
        /\ kind = "command" => (event' <=> event \/ n.seq = "zero")
        /\ status' = {Parsed(Blank, TRUE)}
    BY <1>3, <2>6, <2>7
  <2>9. kind = "command" => (event' <=> event)
    BY <2>7, <2>8
  <2> QED BY <1>1, <1>4, <2>3, <2>5, <2>8, <2>9
<1>5. ASSUME NEW st \in Overlaid, NEW t \in Times, kind = "status", facts' = facts \cup {"echo1"},
             Receive([seq |-> "one", device |-> Posing(st, t)])
      PROVE  /\ event' \in BOOLEAN /\ replied' = replied
             /\ status' = {} \/ \E s \in Reports : status' = {s}
             /\ \A q \in status' : Told(q, Moments', Spells') /\ \E s \in status : q.alarm = s.alarm
  <2> DEFINE n == [seq |-> "one", device |-> Posing(st, t)]
  <2>1. <<st, t>> \in Runs
    BY OverlaidAssumption DEF Runs, Stations
  <2>2. Posing(st, t) \in Devices
    BY <2>1 DEF Posing, Devices
  <2>3. n \in Notices /\ n.seq = "one" /\ n.device = Posing(st, t)
    BY <2>2, Zenon DEF Notices
  <2>4. Doing(n.device) \in Spells'
    BY <1>5, <2>3 DEF Spells
  <2>5. facts \subseteq facts' /\ n.seq \notin {"ack", "reject"} /\ n.seq # "two" /\ Receive(n)
    BY <1>5, <2>3
  <2> HIDE DEF n
  <2> QED BY <1>3, <2>3, <2>4, <2>5
<1>6. CASE kind = "command" /\ facts' = facts \cup {"echo0"} /\ Receive([seq |-> "zero"])
  <2> DEFINE n == [seq |-> "zero"]
  <2>1. n \in Notices /\ n.seq = "zero"
    BY PlainNotices
  <2>2. /\ facts \subseteq facts' /\ n.seq \notin {"ack", "reject"} /\ n.seq # "two" /\ n.seq # "one"
        /\ Receive(n)
    BY <1>6, <2>1
  <2> HIDE DEF n
  <2>3. /\ event' \in BOOLEAN /\ replied' = replied
        /\ status' = {} \/ \E s \in Reports : status' = {s}
        /\ \A q \in status' : Told(q, Moments', Spells') /\ \E s \in status : q.alarm = s.alarm
    BY <1>3, <2>1, <2>2
  <2> QED BY <1>1, <1>6, <2>3
<1>7. \/ Receive([seq |-> "two", status |-> Parsed(Blank, TRUE)]) /\ facts' = facts \cup {"echo2"}
      \/ /\ kind = "status" /\ facts' = facts \cup {"echo1"}
         /\ \E st \in Overlaid, t \in Times : Receive([seq |-> "one", device |-> Posing(st, t)])
      \/ kind = "command" /\ facts' = facts \cup {"echo0"} /\ Receive([seq |-> "zero"])
  BY Zenon DEF Echo
<1>8. CASE kind = "status" /\ facts' = facts \cup {"echo1"}
           /\ \E st \in Overlaid, t \in Times : Receive([seq |-> "one", device |-> Posing(st, t)])
  <2>1. /\ event' \in BOOLEAN /\ replied' = replied
        /\ status' = {} \/ \E s \in Reports : status' = {s}
        /\ \A q \in status' : Told(q, Moments', Spells') /\ \E s \in status : q.alarm = s.alarm
    BY <1>5, <1>8, Zenon
  <2> QED BY <1>1, <1>8, <2>1
<1> QED BY <1>4, <1>6, <1>7, <1>8, Zenon

LEMMA TypesKept ==
    ASSUME IInv, [Next]_vars
    PROVE  Types'
<1> USE DEF Types
<1>1. /\ device \in Devices /\ pending \in {"none", "old", "mine"} /\ jobs \in Seq(Jobs)
      /\ air \in Seq(Notices) /\ Len(air) <= MaxAir
      /\ changes \in 0 .. MaxChanges /\ kind \in Kinds /\ attempt \in 0 .. MaxAttempts
      /\ phase \in Phases /\ Cardinality(status) <= 1 /\ event \in BOOLEAN
      /\ status = {} \/ \E s \in Reports : status = {s}
      /\ replied \in {"none", "ack", "reject"} /\ (replied # "none" => kind = "settime")
      /\ outcome \in {"none", "done", "busy", "rejected", "unverified", "failed"}
  BY Zenon DEF IInv, TypeOK, MessagesOK, Jobs, Phases
<1>2. SUFFICES
      /\ device' \in Devices /\ pending' \in {"none", "old", "mine"} /\ jobs' \in Seq(Jobs)
      /\ air' \in Seq(Notices) /\ Len(air') <= MaxAir
      /\ changes' \in 0 .. MaxChanges /\ kind' \in Kinds /\ attempt' \in 0 .. MaxAttempts
      /\ phase' \in Phases /\ event' \in BOOLEAN
      /\ status' = {} \/ \E s \in Reports : status' = {s}
      /\ replied' \in {"none", "ack", "reject"} /\ (replied' # "none" => kind' = "settime")
      /\ outcome' \in {"none", "done", "busy", "rejected", "unverified", "failed"}
  <2>1. Cardinality(status') <= 1
    BY <1>2, OneStatus
  <2> QED BY <1>2, <2>1, Zenon DEF TypeOK, MessagesOK, Jobs, Phases
<1>3. /\ <<>> \in Seq(Jobs) /\ <<>> \in Seq(Notices) /\ Len(<<>>) <= MaxAir
      /\ FALSE \in BOOLEAN /\ 0 \in 0 .. MaxChanges /\ 1 \in 0 .. MaxAttempts
  BY ChangesAssumption, AirAssumption, AttemptsAssumption, SMT
<1>4. /\ Append(jobs, "commit") \in Seq(Jobs) /\ Append(jobs, "time") \in Seq(Jobs)
      /\ jobs \o <<"command", "commit">> \in Seq(Jobs)
      /\ jobs # <<>> => Tail(jobs) \in Seq(Jobs) /\ <<"two", "one", "zero">> \o Tail(jobs) \in Seq(Jobs)
  <2>1. /\ "commit" \in Jobs /\ "time" \in Jobs /\ "command" \in Jobs
        /\ "two" \in Jobs /\ "one" \in Jobs /\ "zero" \in Jobs
    BY DEF Jobs
  <2>2. <<"command", "commit">> \in Seq(Jobs) /\ <<"two", "one", "zero">> \in Seq(Jobs)
    BY <2>1
  <2>3. jobs # <<>> => Tail(jobs) \in Seq(Jobs)
    BY <1>1
  <2> QED BY <1>1, <2>1, <2>2, <2>3, ConcatProperties, AppendProperties
<1>5. \A p \in {"free", "subscribed", "wait", "settle", "reply", "verify"} : p \in Phases
  BY DEF Phases
<1>6. ASSUME NEW v \in {"done", "busy", "rejected", "unverified", "failed"}, End(v)
      PROVE  /\ phase' \in Phases /\ jobs' \in Seq(Jobs) /\ air' \in Seq(Notices) /\ Len(air') <= MaxAir
             /\ outcome' \in {"none", "done", "busy", "rejected", "unverified", "failed"}
  BY <1>3, <1>5, <1>6 DEF End
<1>7. ASSUME Attempt
      PROVE  /\ phase' \in Phases /\ jobs' \in Seq(Jobs) /\ air' \in Seq(Notices) /\ Len(air') <= MaxAir
             /\ status' = {} /\ event' \in BOOLEAN /\ replied' = "none"
  BY <1>3, <1>5, <1>7, Zenon DEF Attempt
<1>8. CASE Begin
  <2>1. /\ kind' \in Kinds /\ Attempt /\ attempt' = 1 /\ changes' = 0 /\ outcome' = "none"
        /\ device' = device
    BY <1>8, Zenon DEF Begin
  <2>2. pending' \in {"none", "old", "mine"}
    BY <1>8 DEF Begin
  <2> QED BY <1>1, <1>3, <1>7, <2>1, <2>2, Zenon
<1>9. ASSUME NEW next \in Phases, SendCommit(next)
      PROVE  /\ jobs' \in Seq(Jobs) /\ phase' \in Phases
             /\ UNCHANGED <<device, air, pending, changes, kind, attempt, replied, outcome>>
  BY <1>4, <1>9, Zenon DEF SendCommit
<1>10. CASE Ask
  <2>1. /\ SendCommit("wait")
        /\ UNCHANGED <<status, event>> \/ (status' = {} /\ event' = FALSE)
    BY <1>10, Zenon DEF Ask, ReadStatus
  <2>2. event' \in BOOLEAN /\ (status' = {} \/ \E s \in Reports : status' = {s})
    BY <1>1, <2>1
  <2> QED BY <1>1, <1>2, <1>5, <1>9, <2>1, <2>2, Zenon
<1>11. CASE Command
  <2>1. jobs' = jobs \o <<"command", "commit">> /\ phase' = "wait"
    BY <1>11, Zenon DEF Command
  <2>2. UNCHANGED <<device, air, pending, changes, kind, attempt, local, outcome>>
    BY <1>11, Zenon DEF Command
  <2> QED BY <1>1, <1>2, <1>4, <1>5, <2>1, <2>2, Zenon
<1>12. CASE CommandEnds
  <2>1. End("done") /\ UNCHANGED <<device, pending, changes, kind, attempt, local>>
    BY <1>12, Zenon DEF CommandEnds
  <2> QED BY <1>1, <1>2, <1>6, <2>1, Zenon
<1>13. CASE StatusEnds
  <2>1. UNCHANGED <<device, pending, changes, kind, attempt, local>>
    BY <1>13, Zenon DEF StatusEnds
  <2>2. (phase' = "settle" /\ UNCHANGED <<jobs, air, outcome>>) \/ End("done")
    BY <1>13, Zenon DEF StatusEnds
  <2> QED BY <1>1, <1>2, <1>5, <1>6, <2>1, <2>2, Zenon
<1>14. CASE SendTime
  <2>1. UNCHANGED <<device, pending, changes, kind, attempt, local>>
    BY <1>14, Zenon DEF SendTime
  <2>2. \/ jobs' = Append(jobs, "time") /\ phase' = "reply" /\ UNCHANGED <<air, outcome>>
        \/ End("busy")
    BY <1>14, Zenon DEF SendTime
  <2> QED BY <1>1, <1>2, <1>4, <1>5, <1>6, <2>1, <2>2, Zenon
<1>15. CASE CheckReply
  <2>1. CASE ReadStatus("verify")
    <3>1. SendCommit("verify") /\ status' = {} /\ event' = FALSE
      BY <2>1, Zenon DEF ReadStatus
    <3> QED BY <1>1, <1>2, <1>3, <1>5, <1>9, <3>1, Zenon
  <2>2. CASE End("rejected") /\ UNCHANGED <<device, pending, changes, kind, attempt, local>>
    BY <1>1, <1>2, <1>6, <2>2, Zenon
  <2> QED BY <1>15, <2>1, <2>2, Zenon DEF CheckReply
<1>16. CASE VerifyTime
  <2>1. UNCHANGED <<device, pending, changes, kind, attempt, local>>
    BY <1>16, Zenon DEF VerifyTime
  <2>2. \E s \in status : End(IF s.alarm THEN "unverified" ELSE "done")
    BY <1>16, Zenon DEF VerifyTime
  <2>3. End("unverified") \/ End("done")
    BY <2>2, Zenon
  <2> QED BY <1>1, <1>2, <1>6, <2>1, <2>3, Zenon
<1>17. CASE Fail
  <2>1. pending' \in {"none", "old", "mine"} /\ UNCHANGED <<device, changes, kind>>
    BY <1>1, <1>17 DEF Fail
  <2>2. CASE Attempt /\ attempt < MaxAttempts /\ attempt' = attempt + 1 /\ UNCHANGED outcome
    <3>1. attempt' \in 0 .. MaxAttempts
      BY <1>1, <2>2, AttemptsAssumption, SMT
    <3> QED BY <1>1, <1>2, <1>7, <2>1, <2>2, <3>1, Zenon
  <2>3. CASE End("failed") /\ UNCHANGED <<attempt, local>>
    BY <1>1, <1>2, <1>6, <2>1, <2>3, Zenon
  <2> QED BY <1>17, <2>2, <2>3, Zenon DEF Fail
<1>18. CASE Handle
  <2>1. Types /\ SeenInv
    BY DEF IInv
  <2>3. /\ air # <<>> /\ air' = Tail(air)
        /\ UNCHANGED <<device, jobs, pending, changes, kind, phase, attempt, outcome>>
        /\ event' \in BOOLEAN /\ (status' = {} \/ \E s \in Reports : status' = {s})
        /\ replied' = IF kind = "settime" /\ Head(air).seq \in {"ack", "reject"}
                      THEN Head(air).seq ELSE replied
    BY <1>18, <2>1, HandleEffect, Zenon
  <2>4. replied' \in {"none", "ack", "reject"} /\ (replied' # "none" => kind = "settime")
    BY <1>1, <2>3
  <2>5. air' \in Seq(Notices) /\ Len(air') <= MaxAir
    BY <1>1, <2>3, AirAssumption, TailAir, SMT
  <2> QED BY <1>1, <1>2, <2>3, <2>4, <2>5, Zenon
<1>19. CASE Lose
  <2>1. air # <<>> /\ air' = Tail(air)
    BY <1>19, Zenon DEF Lose
  <2>2. UNCHANGED <<device, jobs, pending, changes, kind, phase, attempt, local, outcome>>
    BY <1>19, Zenon DEF Lose
  <2>3. air' \in Seq(Notices) /\ Len(air') <= MaxAir
    BY <1>1, <2>1, AirAssumption, TailAir, SMT
  <2> QED BY <1>1, <1>2, <2>2, <2>3, Zenon
<1>20. CASE TakeCommand
  <2>1. jobs # <<>> /\ jobs' = Tail(jobs) /\ pending' = "mine"
    BY <1>20, Zenon DEF TakeCommand
  <2>2. UNCHANGED <<device, air, changes, kind, phase, attempt, local, outcome>>
    BY <1>20, Zenon DEF TakeCommand
  <2> QED BY <1>1, <1>2, <1>4, <2>1, <2>2, Zenon
<1>21. ASSUME NEW D \in SUBSET Devices, Become(D)
       PROVE  device' \in Devices /\ changes' \in 0 .. MaxChanges
  <2>1. device' \in Devices
    BY <1>21 DEF Become
  <2>2. changes < MaxChanges /\ changes' = changes + 1
    BY <1>21 DEF Become
  <2> QED BY <1>1, <2>1, <2>2, ChangesAssumption, SMT
<1>22. CASE TakeCommit
  <2>1. jobs # <<>> /\ jobs' = <<"two", "one", "zero">> \o Tail(jobs) /\ pending' = "none"
    BY <1>22, Zenon DEF TakeCommit
  <2>2. UNCHANGED <<air, kind, phase, attempt, local, outcome>>
    BY <1>22, Zenon DEF TakeCommit
  <2>3. device' \in Devices /\ changes' \in 0 .. MaxChanges
    <3>1. CASE Become({d \in Devices : d.alarm = device.alarm})
      BY <3>1, <1>21
    <3>2. CASE UNCHANGED <<device, changes, seen>>
      BY <1>1, <3>2
    <3> QED BY <1>22, <3>1, <3>2, Zenon DEF TakeCommit
  <2> QED BY <1>1, <1>2, <1>4, <2>1, <2>2, <2>3, Zenon
<1>23. CASE Emit
  <2>1. jobs # <<>> /\ jobs' = Tail(jobs)
    BY <1>23, Zenon DEF Emit
  <2>2. UNCHANGED <<device, pending, changes, kind, phase, attempt, local, outcome>>
    BY <1>23, Zenon DEF Emit
  <2>3. PICK n \in Notices : Notify(n)
    BY <1>1, <1>23, StatusNotice, DeviceNotice, PlainNotices DEF Emit
  <2>4. air' \in Seq(Notices) /\ Len(air') <= MaxAir
    BY <1>1, <2>3, NotifyAir
  <2> QED BY <1>1, <1>2, <1>4, <2>1, <2>2, <2>4, Zenon
<1>24. CASE TakeTime
  <2>1. jobs # <<>> /\ jobs' = Tail(jobs)
    BY <1>24, Zenon DEF TakeTime
  <2>2. UNCHANGED <<pending, changes, kind, phase, attempt, local, outcome>>
    BY <1>24, Zenon DEF TakeTime
  <2>3. PICK n \in Notices : Notify(n)
    BY <1>24, PlainNotices DEF TakeTime
  <2>4. air' \in Seq(Notices) /\ Len(air') <= MaxAir
    BY <1>1, <2>3, NotifyAir
  <2>5. device' \in Devices
    <3>1. ASSUME NEW a \in {device.alarm, FALSE} PROVE [device EXCEPT !.alarm = a] \in Devices
      <4>1. device.alarm \in BOOLEAN
        BY <1>1, Zenon DEF Devices
      <4>2. a \in BOOLEAN
        BY <4>1, Zenon
      <4> QED BY <1>1, <4>2, Zenon DEF Devices
    <3> QED BY <1>1, <1>24, <3>1, Zenon DEF TakeTime
  <2> QED BY <1>1, <1>2, <1>4, <2>1, <2>2, <2>4, <2>5, Zenon
<1>25. CASE Spontaneous
  <2>1. UNCHANGED <<device, jobs, pending, changes, kind, phase, attempt, local, outcome>>
    BY <1>25, Zenon DEF Spontaneous
  <2>2. PICK n \in Notices : Notify(n)
    BY <1>1, <1>25, StatusNotice DEF Spontaneous
  <2>3. air' \in Seq(Notices) /\ Len(air') <= MaxAir
    BY <1>1, <2>2, NotifyAir
  <2> QED BY <1>1, <1>2, <2>1, <2>3, Zenon
<1>26. CASE Change
  <2>1. UNCHANGED <<jobs, air, pending, kind, phase, attempt, local, outcome>>
    BY <1>26, Zenon DEF Change
  <2>2. Become(Devices)
    BY <1>26 DEF Change
  <2>3. device' \in Devices /\ changes' \in 0 .. MaxChanges
    BY <1>21, <2>2
  <2> QED BY <1>1, <1>2, <2>1, <2>3, Zenon
<1>27. CASE Echo
  <2>1. Types /\ SeenInv
    BY DEF IInv
  <2>2. /\ UNCHANGED <<device, jobs, air, pending, changes, kind, phase, attempt, replied, outcome>>
        /\ event' \in BOOLEAN /\ (status' = {} \/ \E s \in Reports : status' = {s})
    BY <1>27, <2>1, EchoEffect
  <2> QED BY <1>1, <1>2, <2>2, Zenon
<1>28. CASE UNCHANGED vars
  BY <1>1, <1>2, <1>28, Zenon DEF vars
<1> QED BY <1>8, <1>10, <1>11, <1>12, <1>13, <1>14, <1>15, <1>16, <1>17, <1>18, <1>19, <1>20,
           <1>22, <1>23, <1>24, <1>25, <1>26, <1>27, <1>28, Zenon DEF Next

-----------------------------------------------------------------------------
(* Operations begin and end.                                               *)

Verdicts == {"done", "busy", "rejected", "unverified", "failed"}

\* Every step but Begin is a step of an operation under way, which ends or not.
LEMMA UnderWay ==
    ASSUME FreeInv, Next, ~Begin
    PROVE  /\ phase # "free" /\ kind' = kind
           /\ (phase' # "free" /\ outcome' = outcome) \/ (\E v \in Verdicts : End(v))
<1>1. jobs # <<>> \/ air # <<>> => phase # "free"
  BY DEF FreeInv
<1>2. ASSUME NEW v \in Verdicts, End(v)
      PROVE  \E w \in Verdicts : End(w)
  BY <1>2
<1>3. \A v \in {"done", "busy", "rejected", "unverified", "failed"} : v \in Verdicts
  BY DEF Verdicts
<1>4. CASE Ask \/ Command
  BY <1>4 DEF Ask, ReadStatus, SendCommit, Command
<1>5. CASE CommandEnds \/ VerifyTime
  <2>1. phase # "free" /\ kind' = kind
    BY <1>5 DEF CommandEnds, VerifyTime
  <2>2. (\E s \in status : End(IF s.alarm THEN "unverified" ELSE "done")) \/ End("done")
    BY <1>5, Zenon DEF CommandEnds, VerifyTime
  <2>3. End("unverified") \/ End("done")
    BY <2>2, Zenon
  <2> QED BY <1>3, <2>1, <2>3, Zenon
<1>6. CASE StatusEnds
  <2>1. phase # "free" /\ kind' = kind
    BY <1>6 DEF StatusEnds
  <2>2. (phase' = "settle" /\ outcome' = outcome) \/ End("done")
    BY <1>6, Zenon DEF StatusEnds
  <2> QED BY <1>3, <2>1, <2>2
<1>7. CASE SendTime
  <2>1. phase # "free" /\ kind' = kind
    BY <1>7 DEF SendTime
  <2>2. (phase' = "reply" /\ outcome' = outcome) \/ End("busy")
    BY <1>7, Zenon DEF SendTime
  <2> QED BY <1>3, <2>1, <2>2
<1>8. CASE CheckReply
  <2>1. phase # "free"
    BY <1>8 DEF CheckReply
  <2>2. CASE ReadStatus("verify")
    BY <2>1, <2>2 DEF ReadStatus, SendCommit
  <2>3. CASE End("rejected") /\ kind' = kind
    BY <1>3, <2>1, <2>3, Zenon
  <2> QED BY <1>8, <2>2, <2>3, Zenon DEF CheckReply
<1>9. CASE Fail
  <2>1. phase # "free" /\ kind' = kind
    BY <1>9 DEF Fail
  <2>2. CASE Attempt /\ UNCHANGED outcome
    BY <2>1, <2>2 DEF Attempt
  <2>3. CASE End("failed")
    BY <1>3, <2>1, <2>3, Zenon
  <2> QED BY <1>9, <2>2, <2>3, Zenon DEF Fail
<1>10. CASE Handle \/ Echo
  BY <1>10, Zenon DEF Handle, Echo
<1>11. CASE Lose \/ TakeCommand \/ Spontaneous \/ Change
  BY <1>1, <1>11 DEF Lose, TakeCommand, Spontaneous, Change
<1>12. CASE TakeCommit \/ Emit \/ TakeTime
  <2>1. jobs # <<>> /\ UNCHANGED <<kind, phase, outcome>>
    BY <1>12, Zenon DEF TakeCommit, Emit, TakeTime
  <2> QED BY <1>1, <2>1
<1> QED BY <1>4, <1>5, <1>6, <1>7, <1>8, <1>9, <1>10, <1>11, <1>12, Zenon DEF Next

LEMMA FreeKept ==
    ASSUME IInv, [Next]_vars
    PROVE  FreeInv'
<1>1. FreeInv
  BY DEF IInv
<1>2. CASE Begin
  BY <1>2 DEF Begin, Attempt, FreeInv
<1>3. CASE Next /\ ~Begin
  <2>1. CASE \E v \in Verdicts : End(v)
    BY <2>1 DEF End, FreeInv
  <2>2. CASE phase' # "free" /\ outcome' = outcome
    BY <1>1, <1>3, <2>2, UnderWay DEF FreeInv
  <2> QED BY <1>1, <1>3, <2>1, <2>2, UnderWay
<1>4. CASE UNCHANGED vars
  BY <1>1, <1>4 DEF vars, FreeInv
<1> QED BY <1>2, <1>3, <1>4

-----------------------------------------------------------------------------
(* What was true at some moment of the call.                               *)

\* The history of a call only grows.
LEMMA FactsGrow ==
    ASSUME Next, ~Begin
    PROVE  facts \subseteq facts'
<1>1. CASE Ask \/ Command \/ CommandEnds \/ StatusEnds \/ CheckReply \/ VerifyTime \/ Fail
  BY <1>1 DEF Ask, ReadStatus, SendCommit, Command, CommandEnds, StatusEnds, CheckReply, VerifyTime, Fail
<1>2. CASE SendTime
  BY <1>2 DEF SendTime
<1>3. CASE Handle \/ Lose \/ TakeCommand \/ Change
  BY <1>3 DEF Handle, Lose, TakeCommand, Change
<1>4. CASE TakeCommit \/ Emit \/ TakeTime \/ Spontaneous
  <2>1. \/ facts' = facts \/ facts' = Noted \/ facts' = facts \cup {"stored"}
        \/ facts' = facts \cup (IF pending = "mine" THEN {"executed"} ELSE {})
    BY <1>4, Zenon DEF TakeCommit, Emit, TakeTime, Spontaneous
  <2> QED BY <2>1 DEF Noted
<1>5. CASE Echo
  BY <1>5 DEF Echo
<1> QED BY <1>1, <1>2, <1>3, <1>4, <1>5, Zenon DEF Next

\* The moments of a call grow, and the present one is among them.
LEMMA SeenGrows ==
    ASSUME IInv, Next, ~Begin
    PROVE  seen \subseteq seen' /\ Doing(device') \in seen'
<1>1. Doing(device) \in seen
  BY UnderWay DEF IInv, SeenInv
<1>2. ASSUME UNCHANGED <<device, seen>>
      PROVE  seen \subseteq seen' /\ Doing(device') \in seen'
  BY <1>1, <1>2
<1>3. ASSUME NEW D, Become(D)
      PROVE  seen \subseteq seen' /\ Doing(device') \in seen'
  BY <1>3 DEF Become
<1>4. CASE TakeCommit
  BY <1>2, <1>3, <1>4, Zenon DEF TakeCommit
<1>5. CASE Change
  BY <1>3, <1>5, Zenon DEF Change
<1>6. CASE TakeTime
  <2>1. seen' = seen
    BY <1>6, Zenon DEF TakeTime
  <2>2. device \in Devices
    BY DEF IInv, TypeOK
  <2>3. device' = device \/ \E a \in {device.alarm, FALSE} : device' = [device EXCEPT !.alarm = a]
    BY <1>6, Zenon DEF TakeTime
  <2>4. device'.on = device.on /\ device'.run = device.run
    BY <2>2, <2>3 DEF Devices
  <2>5. Doing(device') = Doing(device)
    BY <2>4 DEF Doing
  <2> QED BY <1>1, <2>1, <2>5
<1>7. CASE Ask \/ Command \/ CommandEnds \/ StatusEnds \/ SendTime \/ CheckReply \/ VerifyTime \/ Fail
  BY <1>2, <1>7, Zenon DEF Ask, ReadStatus, SendCommit, Command, CommandEnds, StatusEnds, SendTime, CheckReply,
     VerifyTime, Fail
<1>8. CASE Handle \/ Echo \/ Lose \/ TakeCommand \/ Emit \/ Spontaneous
  BY <1>2, <1>8, Zenon DEF Handle, Echo, Lose, TakeCommand, Emit, Spontaneous
<1> QED BY <1>4, <1>5, <1>6, <1>7, <1>8, Zenon DEF Next

\* And with them what a status may tell of.
LEMMA MomentsGrow ==
    ASSUME IInv, Next, ~Begin
    PROVE  /\ seen \subseteq seen' /\ Moments \subseteq Moments' /\ Spells \subseteq Spells'
           /\ \A s : Told(s, Moments, Spells) => Told(s, Moments', Spells')
           /\ \A s : Told(s, seen, seen) => Told(s, seen', seen')
<1>1. seen \subseteq seen' /\ facts \subseteq facts'
  BY SeenGrows, FactsGrow
<1>2. Moments \subseteq Moments' /\ Spells \subseteq Spells'
  BY <1>1 DEF Moments, Spells
<1> QED BY <1>1, <1>2, ToldMore

\* How a step of an operation changes the air.
LEMMA AirStep ==
    ASSUME IInv, Next, ~Begin
    PROVE  \/ air' = <<>>
           \/ air' = air
           \/ air # <<>> /\ air' = Tail(air) /\ (Handle \/ Lose)
           \/ \E n \in Notices :
                 /\ Notify(n) /\ (Emit \/ TakeTime \/ Spontaneous)
                 /\ n.seq = "two" => Told(n.status, seen, seen)
                 /\ n.seq = "one" => Doing(n.device) \in seen
<1>1. Doing(device) \in seen /\ device \in Devices
  BY UnderWay DEF IInv, SeenInv, TypeOK
<1>2. ASSUME NEW v, End(v) PROVE air' = <<>>
  BY <1>2 DEF End
<1>3. CASE Ask \/ Command \/ CommandEnds \/ StatusEnds \/ SendTime \/ CheckReply \/ VerifyTime \/ Fail
  BY <1>2, <1>3, Zenon DEF Ask, ReadStatus, SendCommit, Command, CommandEnds, StatusEnds, SendTime, CheckReply,
     VerifyTime, Fail, Attempt
<1>4. CASE Handle \/ Lose
  BY <1>4, Zenon DEF Handle, Lose
<1>5. CASE Echo \/ TakeCommand \/ TakeCommit \/ Change
  BY <1>5, Zenon DEF Echo, TakeCommand, TakeCommit, Change
<1>6. ASSUME NEW n \in Statuses
      PROVE  n \in Notices /\ n.seq = "two" /\ Told(n.status, seen, seen)
  BY <1>1, <1>6, StatusNotice
<1>7. ASSUME NEW x \in {"zero", "ack", "reject"}
      PROVE  [seq |-> x] \in Notices /\ [seq |-> x].seq # "two" /\ [seq |-> x].seq # "one"
  BY PlainNotices
<1>8. CASE Emit
  <2>1. \/ \E n \in Statuses : Notify(n)
        \/ Notify([seq |-> "one", device |-> device])
        \/ Notify([seq |-> "zero"])
    BY <1>8, Zenon DEF Emit
  <2>2. CASE \E n \in Statuses : Notify(n)
    BY <1>6, <1>8, <2>2
  <2>3. CASE Notify([seq |-> "one", device |-> device])
    BY <1>1, <1>8, <2>3, DeviceNotice
  <2>4. CASE Notify([seq |-> "zero"])
    BY <1>7, <1>8, <2>4
  <2> QED BY <2>1, <2>2, <2>3, <2>4
<1>9. CASE TakeTime
  <2>1. Notify([seq |-> "ack"]) \/ Notify([seq |-> "reject"])
    BY <1>9, Zenon DEF TakeTime
  <2> QED BY <1>7, <1>9, <2>1
<1>10. CASE Spontaneous
  <2>1. \E n \in Statuses : Notify(n)
    BY <1>10, Zenon DEF Spontaneous
  <2> QED BY <1>6, <1>10, <2>1
<1> QED BY <1>3, <1>4, <1>5, <1>8, <1>9, <1>10, Zenon DEF Next

\* How it changes the status it holds.
LEMMA StatusStep ==
    ASSUME IInv, Next, ~Begin
    PROVE  \/ status' = {}
           \/ status' = status
           \/ Handle \/ Echo
<1>1. CASE Ask \/ Command \/ CommandEnds \/ StatusEnds \/ SendTime \/ CheckReply \/ VerifyTime \/ Fail
  BY <1>1, Zenon DEF Ask, ReadStatus, SendCommit, Command, CommandEnds, StatusEnds, SendTime, CheckReply,
     VerifyTime, Fail, Attempt
<1>2. CASE Lose \/ TakeCommand \/ TakeCommit \/ Emit \/ TakeTime \/ Spontaneous \/ Change
  BY <1>2, Zenon DEF Lose, TakeCommand, TakeCommit, Emit, TakeTime, Spontaneous, Change
<1> QED BY <1>1, <1>2, Zenon DEF Next

\* The time is sent only on a status that was not busy.
LEMMA SentStep ==
    ASSUME IInv, Next, ~Begin, "sent" \in facts', "sent" \notin facts
    PROVE  SendTime /\ \E s \in status : ~Busy(s)
<1>1. ASSUME facts' = facts PROVE FALSE
  BY <1>1
<1>2. ASSUME facts' = Noted \/ facts' = facts \cup {"stored"} \/ facts' = facts \cup {"executed"}
             \/ facts' = facts \cup {}
      PROVE  FALSE
  BY <1>2 DEF Noted
<1>3. CASE Ask \/ Command \/ CommandEnds \/ StatusEnds \/ CheckReply \/ VerifyTime \/ Fail
  BY <1>1, <1>3, Zenon DEF Ask, ReadStatus, SendCommit, Command, CommandEnds, StatusEnds, CheckReply, VerifyTime, Fail
<1>4. CASE SendTime
  BY <1>1, <1>4, Zenon DEF SendTime
<1>5. CASE Handle \/ Lose \/ TakeCommand \/ Change
  BY <1>1, <1>5, Zenon DEF Handle, Lose, TakeCommand, Change
<1>7. CASE Echo
  BY <1>7 DEF Echo
<1>6. CASE TakeCommit \/ Emit \/ TakeTime \/ Spontaneous
  BY <1>1, <1>2, <1>6, Zenon DEF TakeCommit, Emit, TakeTime, Spontaneous
<1> QED BY <1>3, <1>4, <1>5, <1>6, <1>7, Zenon DEF Next

LEMMA SeenKept ==
    ASSUME IInv, [Next]_vars
    PROVE  SeenInv'
<1>1. SeenInv /\ air \in Seq(Notices)
  BY DEF IInv, MessagesOK
<1>2. CASE Begin
  <2>1. /\ status' = {} /\ air' = <<>> /\ facts' = {} /\ seen' = {Doing(device)} /\ device' = device
    BY <1>2, Zenon DEF Begin, Attempt
  <2>2. Doing(device') \in seen'
    BY <2>1
  <2> QED BY <2>1, <2>2 DEF SeenInv
<1>3. CASE Next /\ ~Begin
  <2>1. /\ seen \subseteq seen' /\ Doing(device') \in seen'
        /\ seen \subseteq Moments /\ Moments \subseteq Moments'
    BY <1>3, SeenGrows, MomentsGrow DEF Moments
  <2>2. /\ \A s : Told(s, Moments, Spells) => Told(s, Moments', Spells')
        /\ \A s : Told(s, seen, seen) => Told(s, seen', seen')
    BY <1>3, MomentsGrow
  <2>3. \A s \in status' : Told(s, Moments', Spells')
    <3>1. CASE status' = {} \/ status' = status
      BY <1>1, <2>2, <3>1 DEF SeenInv
    <3>2. CASE Handle \/ Echo
      <4>1. Types /\ SeenInv
        BY DEF IInv, Types
      <4> QED BY <2>2, <3>2, <4>1, HandleEffect, EchoEffect
    <3> QED BY <1>3, <3>1, <3>2, StatusStep
  <2>4. \A i \in 1 .. Len(air') :
          /\ air'[i].seq = "two" => Told(air'[i].status, seen', seen')
          /\ air'[i].seq = "one" => Doing(air'[i].device) \in seen'
    <3>1. \A i \in 1 .. Len(air) :
             /\ air[i].seq = "two" => Told(air[i].status, seen', seen')
             /\ air[i].seq = "one" => Doing(air[i].device) \in seen'
      BY <1>1, <2>1, <2>2 DEF SeenInv
    <3>2. CASE air' = <<>>
      BY <3>2
    <3>3. CASE air' = air
      BY <3>1, <3>3
    <3>4. CASE air # <<>> /\ air' = Tail(air)
      BY <1>1, <3>1, <3>4, TailAir
    <3>5. ASSUME NEW n \in Notices, Notify(n), n.seq = "two" => Told(n.status, seen, seen),
                 n.seq = "one" => Doing(n.device) \in seen
          PROVE  \A i \in 1 .. Len(air') :
                   /\ air'[i].seq = "two" => Told(air'[i].status, seen', seen')
                   /\ air'[i].seq = "one" => Doing(air'[i].device) \in seen'
      <4>1. /\ n.seq = "two" => Told(n.status, seen', seen')
            /\ n.seq = "one" => Doing(n.device) \in seen'
        BY <2>1, <2>2, <3>5
      <4>2. /\ \A i \in 1 .. Len(air) : air'[i] = air[i]
            /\ air'[Len(air')] = n /\ Len(air') = Len(air) + 1
            /\ \A i \in 1 .. Len(air') : i \in 1 .. Len(air) \/ i = Len(air) + 1
        BY <1>1, <3>5, NotifyAir
      <4> QED BY <3>1, <4>1, <4>2, Zenon
    <3> QED BY <1>3, <3>2, <3>3, <3>4, <3>5, AirStep
  <2>5. "sent" \in facts' => \E e \in Moments' : e[1] => e[2] = <<"idle">>
    <3>1. CASE "sent" \in facts
      BY <1>1, <2>1, <3>1 DEF SeenInv
    <3>2. CASE "sent" \in facts' /\ "sent" \notin facts
      <4>1. PICK s \in status : ~Busy(s)
        BY <1>3, <3>2, SentStep
      <4>2. PICK e \in Moments : Fits(s, e)
        BY <1>1, Zenon DEF SeenInv, Told
      <4>3. e[1] => e[2] = <<"idle">>
        BY <4>1, <4>2, Zenon DEF Fits
      <4> QED BY <2>1, <4>3
    <3> QED BY <3>1, <3>2
  <2> QED BY <2>1, <2>3, <2>4, <2>5, Zenon DEF SeenInv
<1>4. CASE UNCHANGED vars
  <2>1. UNCHANGED <<device, phase, status, air, facts, seen>>
    BY <1>4, Zenon DEF vars
  <2>2. Moments' = Moments /\ Spells' = Spells
    BY <2>1 DEF Moments, Spells
  <2> QED BY <1>1, <2>1, <2>2, Zenon DEF SeenInv, Told
<1> QED BY <1>2, <1>3, <1>4

-----------------------------------------------------------------------------
(* Commands.                                                               *)

LEMMA CommandKept ==
    ASSUME IInv, [Next]_vars
    PROVE  CommandInv'
<1>1. CASE Begin
  <2>1. phase' = "subscribed" /\ event' = FALSE /\ jobs' = <<>> /\ air' = <<>> /\ outcome' = "none"
    BY <1>1, Zenon DEF Begin, Attempt
  <2> QED BY <2>1 DEF CommandInv
<1>2. ASSUME Next, ~Begin, kind = "command", "executed" \notin facts', "echo0" \notin facts'
      PROVE  /\ ~event' /\ outcome' # "done"
             /\ \A i \in 1 .. Len(air') : air'[i].seq # "zero"
             /\ \/ phase' \in {"free", "subscribed"} /\ jobs' = <<>>
                \/ phase' = "wait" /\ jobs' = <<"command", "commit">>
                \/ phase' = "wait" /\ jobs' = <<"commit">> /\ pending' = "mine"
  <2>1. "executed" \notin facts /\ "echo0" \notin facts
    BY <1>2, FactsGrow
  <2>2. /\ ~event /\ outcome # "done"
        /\ \A i \in 1 .. Len(air) : air[i].seq # "zero"
        /\ \/ phase \in {"free", "subscribed"} /\ jobs = <<>>
           \/ phase = "wait" /\ jobs = <<"command", "commit">>
           \/ phase = "wait" /\ jobs = <<"commit">> /\ pending = "mine"
    BY <1>2, <2>1, Zenon DEF IInv, CommandInv
  <2>3. /\ air \in Seq(Notices) /\ Types /\ SeenInv /\ event \in BOOLEAN
        /\ replied # "none" => kind = "settime"
    BY DEF IInv, Types, MessagesOK, TypeOK
  <2>4. jobs # <<>> => \/ jobs = <<"command", "commit">> /\ Head(jobs) = "command" /\ Tail(jobs) = <<"commit">>
                       \/ jobs = <<"commit">> /\ Head(jobs) = "commit" /\ pending = "mine"
    <3>1. /\ Head(<<"command", "commit">>) = "command" /\ Head(<<"commit">>) = "commit"
          /\ Tail(<<"command", "commit">>) = <<"commit">>
      OBVIOUS
    <3> QED BY <2>2, <3>1, Zenon
  <2>5. CASE Command
    <3>1. phase = "subscribed" /\ jobs' = jobs \o <<"command", "commit">> /\ phase' = "wait"
      BY <2>5, Zenon DEF Command
    <3>2. jobs' = <<"command", "commit">>
      BY <2>2, <3>1
    <3>3. UNCHANGED <<air, event, outcome>>
      BY <2>5, Zenon DEF Command
    <3> QED BY <2>2, <3>1, <3>2, <3>3, Zenon
  <2>6. CASE Fail
    <3>1. CASE Attempt /\ UNCHANGED outcome
      <4>1. phase' = "subscribed" /\ event' = FALSE /\ jobs' = <<>> /\ air' = <<>>
        BY <3>1, Zenon DEF Attempt
      <4> QED BY <2>2, <3>1, <4>1
    <3>2. CASE End("failed") /\ UNCHANGED local
      <4>1. phase' = "free" /\ jobs' = <<>> /\ air' = <<>> /\ outcome' = "failed" /\ event' = event
        BY <3>2, Zenon DEF End
      <4>2. ~event'
        BY <2>2, <4>1, Zenon
      <4> QED BY <4>1, <4>2
    <3> QED BY <2>6, <3>1, <3>2, Zenon DEF Fail
  <2>7. CASE Handle
    <3>1. /\ air # <<>> /\ air' = Tail(air) /\ UNCHANGED <<jobs, pending, phase, outcome>>
          /\ (event' <=> event \/ Head(air).seq = "zero")
      BY <1>2, <2>3, <2>7, HandleEffect
    <3>2. /\ \A i \in 1 .. Len(air') : air'[i].seq # "zero"
          /\ Head(air).seq # "zero"
      BY <2>2, <2>3, <3>1, TailAir
    <3>3. ~event'
      BY <2>2, <3>1, <3>2, Zenon
    <3> QED BY <2>2, <3>1, <3>2, <3>3, Zenon
  <2>8. CASE Lose
    <3>1. air # <<>> /\ air' = Tail(air) /\ UNCHANGED <<jobs, pending, phase, event, outcome>>
      BY <2>8, Zenon DEF Lose
    <3>2. \A i \in 1 .. Len(air') : air'[i].seq # "zero"
      BY <2>2, <2>3, <3>1, TailAir
    <3> QED BY <2>2, <3>1, <3>2, Zenon
  <2>9. CASE TakeCommand
    <3>1. /\ jobs # <<>> /\ Head(jobs) = "command" /\ jobs' = Tail(jobs) /\ pending' = "mine"
          /\ UNCHANGED <<air, phase, event, outcome>>
      BY <2>9, Zenon DEF TakeCommand
    <3>2. phase = "wait" /\ jobs' = <<"commit">>
      BY <2>2, <2>4, <3>1
    <3> QED BY <2>2, <3>1, <3>2, Zenon
  <2>10. CASE TakeCommit
    <3>1. jobs # <<>> /\ Head(jobs) = "commit"
      BY <2>10, Zenon DEF TakeCommit
    <3>2. pending = "mine"
      BY <2>4, <3>1
    <3>3. facts' = facts \cup {"executed"}
      BY <2>10, <3>2, Zenon DEF TakeCommit
    <3> QED BY <1>2, <3>3
  <2>11. CASE Emit \/ TakeTime
    <3>1. jobs # <<>> /\ Head(jobs) \in {"two", "one", "zero", "time"}
      BY <2>11 DEF Emit, TakeTime
    <3> QED BY <2>4, <3>1
  <2>12. CASE Spontaneous
    <3>1. UNCHANGED <<jobs, pending, phase, event, outcome>>
      BY <2>12, Zenon DEF Spontaneous
    <3>2. PICK n \in Statuses : Notify(n)
      BY <2>12, Zenon DEF Spontaneous
    <3>3. n \in Notices /\ n.seq = "two"
      BY StatusNotice DEF IInv, TypeOK
    <3>4. \A i \in 1 .. Len(air') : air'[i].seq # "zero"
      BY <2>2, <2>3, <3>2, <3>3, NotifyAir
    <3> QED BY <2>2, <3>1, <3>4, Zenon
  <2>13. CASE Change
    <3>1. UNCHANGED <<jobs, air, pending, phase, event, outcome>>
      BY <2>13, Zenon DEF Change
    <3> QED BY <2>2, <3>1, Zenon
  <2>16. CASE Echo
    <3>1. /\ UNCHANGED <<jobs, air, pending, phase, outcome>>
          /\ (event' <=> event)
      BY <1>2, <2>3, <2>16, EchoEffect
    <3>2. ~event'
      BY <2>2, <3>1, Zenon
    <3> QED BY <2>2, <3>1, <3>2, Zenon
  <2>14. CASE Ask \/ StatusEnds \/ SendTime \/ CheckReply
    BY <1>2, <2>3, <2>14 DEF Ask, StatusEnds, SendTime, CheckReply
  <2>15. CASE CommandEnds \/ VerifyTime
    BY <2>2, <2>15 DEF CommandEnds, VerifyTime
  <2> QED BY <1>2, <2>5, <2>6, <2>7, <2>8, <2>9, <2>10, <2>11, <2>12, <2>13, <2>14, <2>15, <2>16, Zenon
          DEF Next
<1>3. CASE Next /\ ~Begin
  <2>1. kind' = kind
    BY <1>3, UnderWay DEF IInv
  <2> QED BY <1>2, <1>3, <2>1, Zenon DEF CommandInv
<1>4. CASE UNCHANGED vars
  BY <1>4, Zenon DEF IInv, vars, CommandInv
<1> QED BY <1>1, <1>3, <1>4

-----------------------------------------------------------------------------
(* The time and its reply.                                                 *)

\* Taking or losing a notification brings no reply that was not on its way.
LEMMA ReplyTaken ==
    ASSUME air \in Seq(Notices), air # <<>>, air' = Tail(air),
           replied' = replied \/ (replied' = Head(air).seq /\ Head(air).seq \in {"ack", "reject"})
    PROVE  /\ \A r \in {"ack", "reject"} :
                 (replied' = r \/ \E i \in 1 .. Len(air') : air'[i].seq = r) => Reply(r)
           /\ \A i \in 1 .. Len(air') :
                 (replied' = "ack" \/ \E j \in 1 .. i - 1 : air'[j].seq = "ack") =>
                    i + 1 \in 1 .. Len(air) /\ Acked(i + 1)
<1>1. /\ \A i \in 1 .. Len(air') : i + 1 \in 1 .. Len(air) /\ air'[i] = air[i + 1]
      /\ Head(air) = air[1] /\ 1 \in 1 .. Len(air)
      /\ Len(air') \in Nat
  BY TailAir
<1>2. \A r \in {"ack", "reject"} :
         (replied' = r \/ \E i \in 1 .. Len(air') : air'[i].seq = r) => Reply(r)
  BY <1>1 DEF Reply
<1>3. ASSUME NEW i \in 1 .. Len(air'), replied' = "ack" \/ \E j \in 1 .. i - 1 : air'[j].seq = "ack"
      PROVE  Acked(i + 1)
  <2>1. CASE replied = "ack"
    BY <2>1 DEF Acked
  <2>2. CASE replied' = "ack" /\ replied # "ack"
    <3>1. air[1].seq = "ack" /\ 1 \in 1 .. (i + 1) - 1
      BY <1>1, <2>2, SMT
    <3> QED BY <3>1 DEF Acked
  <2>3. CASE \E j \in 1 .. i - 1 : air'[j].seq = "ack"
    <3>1. PICK j \in 1 .. i - 1 : air'[j].seq = "ack"
      BY <2>3
    <3>2. j \in 1 .. Len(air') /\ j + 1 \in 1 .. (i + 1) - 1
      BY <1>1, SMT
    <3>3. air[j + 1].seq = "ack"
      BY <1>1, <3>1, <3>2
    <3> QED BY <3>2, <3>3 DEF Acked
  <2> QED BY <1>3, <2>1, <2>2, <2>3
<1> QED BY <1>1, <1>2, <1>3

\* A new notification is behind all the others.
LEMMA ReplyMade ==
    ASSUME air \in Seq(Notices), NEW n \in Notices, Notify(n), replied' = replied
    PROVE  /\ \A r \in {"ack", "reject"} :
                 (replied' = r \/ \E i \in 1 .. Len(air') : air'[i].seq = r) => Reply(r) \/ n.seq = r
           /\ \A i \in 1 .. Len(air) :
                 (replied' = "ack" \/ \E j \in 1 .. i - 1 : air'[j].seq = "ack") => Acked(i)
           /\ (replied' = "ack" \/ \E j \in 1 .. (Len(air) + 1) - 1 : air'[j].seq = "ack") => Reply("ack")
<1>1. /\ Len(air) \in Nat /\ \A i \in 1 .. Len(air) : air'[i] = air[i]
      /\ air'[Len(air) + 1] = n
      /\ \A i \in 1 .. Len(air') : i \in 1 .. Len(air) \/ i = Len(air) + 1
  BY NotifyAir
<1>2. \A r \in {"ack", "reject"} :
         (replied' = r \/ \E i \in 1 .. Len(air') : air'[i].seq = r) => Reply(r) \/ n.seq = r
  BY <1>1 DEF Reply
<1>3. ASSUME NEW i \in 1 .. Len(air), replied' = "ack" \/ \E j \in 1 .. i - 1 : air'[j].seq = "ack"
      PROVE  Acked(i)
  <2>1. \A j \in 1 .. i - 1 : j \in 1 .. Len(air)
    BY <1>1, SMT
  <2> QED BY <1>1, <1>3, <2>1 DEF Acked
<1>4. (replied' = "ack" \/ \E j \in 1 .. (Len(air) + 1) - 1 : air'[j].seq = "ack") => Reply("ack")
  <2>1. \A j \in 1 .. (Len(air) + 1) - 1 : j \in 1 .. Len(air)
    BY <1>1, SMT
  <2> QED BY <1>1, <2>1 DEF Reply
<1> QED BY <1>2, <1>3, <1>4

\* Where the time can be among the jobs, after each way of changing them: as
\* far from the end as before, or new at the end.
LEMMA TimeMoves ==
    ASSUME jobs \in Seq(Jobs), jobs # <<>>,
           jobs' = Tail(jobs) \/ jobs' = <<"two", "one", "zero">> \o Tail(jobs),
           NEW i \in 1 .. Len(jobs'), jobs'[i] = "time"
    PROVE  \E k \in 1 .. Len(jobs) : jobs[k] = "time" /\ (k = Len(jobs) => i = Len(jobs'))
<1> DEFINE rest == Tail(jobs)
<1>1. /\ Len(rest) = Len(jobs) - 1 /\ Len(jobs) \in Nat \ {0} /\ rest \in Seq(Jobs)
      /\ \A k \in 1 .. Len(rest) : rest[k] = jobs[k + 1]
  BY SMT
<1>2. CASE jobs' = rest
  <2>1. i \in 1 .. Len(rest) /\ rest[i] = "time"
    BY <1>2
  <2> HIDE DEF rest
  <2>2. i + 1 \in 1 .. Len(jobs) /\ jobs[i + 1] = "time" /\ (i + 1 = Len(jobs) => i = Len(rest))
    BY <1>1, <2>1, SMT
  <2> QED BY <1>2, <2>2
<1>3. CASE jobs' = <<"two", "one", "zero">> \o rest
  <2> HIDE DEF rest
  <2>1. /\ Len(jobs') = Len(rest) + 3
        /\ jobs'[1] = "two" /\ jobs'[2] = "one" /\ jobs'[3] = "zero"
        /\ \A k \in 4 .. Len(rest) + 3 : jobs'[k] = rest[k - 3]
    BY <1>1, <1>3, SMT
  <2>2. i \in 4 .. Len(rest) + 3
    BY <1>1, <2>1, SMT
  <2>3. jobs[(i - 3) + 1] = "time" /\ i - 3 \in 1 .. Len(rest)
    BY <1>1, <2>1, <2>2, SMT
  <2>4. (i - 3) + 1 \in 1 .. Len(jobs) /\ ((i - 3) + 1 = Len(jobs) => i = Len(jobs'))
    BY <1>1, <2>1, <2>2, SMT
  <2> QED BY <2>3, <2>4
<1> QED BY <1>2, <1>3

LEMMA TimeAdded ==
    ASSUME jobs \in Seq(Jobs), NEW x \in Jobs, jobs' = Append(jobs, x),
           NEW i \in 1 .. Len(jobs'), jobs'[i] = "time"
    PROVE  (x = "time" /\ i = Len(jobs')) \/ \E k \in 1 .. Len(jobs) : jobs[k] = "time"
<1>1. /\ Len(jobs') = Len(jobs) + 1 /\ jobs'[Len(jobs) + 1] = x /\ Len(jobs) \in Nat
      /\ \A k \in 1 .. Len(jobs) : jobs'[k] = jobs[k]
  BY SMT
<1>2. i \in 1 .. Len(jobs) \/ i = Len(jobs) + 1
  BY <1>1, SMT
<1> QED BY <1>1, <1>2

\* The invariant, of an operation that sets the time and goes on.
LEMMA ReplyParts ==
    ASSUME ReplyInv, kind = "settime", phase # "free"
    PROVE  /\ phase # "settle"
           /\ phase \in {"subscribed", "wait"} =>
                 /\ "sent" \notin facts /\ "stored" \notin facts
                 /\ ~Reply("ack") /\ ~Reply("reject")
           /\ \A i \in 1 .. Len(jobs) : jobs[i] = "time" =>
                 /\ i = Len(jobs) /\ phase = "reply" /\ "stored" \notin facts
                 /\ ~Reply("ack") /\ ~Reply("reject")
           /\ Reply("ack") => "stored" \in facts
           /\ Reply("reject") => /\ "stored" \notin facts
                                 /\ \A i \in 1 .. Len(jobs) : jobs[i] # "time"
           /\ \A i \in 1 .. Len(air) : air[i].seq = "two" /\ Acked(i) =>
                 air[i].status.alarm \/ Cleared
           /\ phase = "verify" =>
                 /\ replied = "ack"
                 /\ \A s \in status : s.alarm \/ Cleared
BY Zenon DEF ReplyInv

\* Steps that leave the replies and the facts of the time alone.
LEMMA ReplyCalm ==
    ASSUME ReplyInv, kind = "settime", phase # "free", kind' = kind,
           UNCHANGED <<air, replied>>, facts \subseteq facts',
           "stored" \in facts' => "stored" \in facts,
           \/ phase' = phase /\ (status' = status \/ Cleared')
           \/ phase' = "wait" /\ phase = "subscribed"
           \/ phase' = "verify" /\ replied = "ack" /\ status' = {},
           "sent" \in facts' => "sent" \in facts,
           \A i \in 1 .. Len(jobs') : jobs'[i] = "time" =>
              \E k \in 1 .. Len(jobs) : jobs[k] = "time" /\ (k = Len(jobs) => i = Len(jobs'))
    PROVE  ReplyInv'
<1>1. \A i : Acked(i)' <=> Acked(i)
  BY DEF Acked
<1>2. /\ Reply("ack")' <=> Reply("ack")
      /\ Reply("reject")' <=> Reply("reject")
  BY DEF Reply
<1>3. phase' # "settle"
  BY ReplyParts
<1>4. phase' \in {"subscribed", "wait"} =>
         "sent" \notin facts' /\ "stored" \notin facts' /\ ~Reply("ack")' /\ ~Reply("reject")'
  BY <1>2, ReplyParts
<1>5. \A i \in 1 .. Len(jobs') : jobs'[i] = "time" =>
         i = Len(jobs') /\ phase' = "reply" /\ "stored" \notin facts' /\ ~Reply("ack")' /\ ~Reply("reject")'
  <2> SUFFICES ASSUME NEW i \in 1 .. Len(jobs'), jobs'[i] = "time"
               PROVE  i = Len(jobs') /\ phase' = "reply" /\ "stored" \notin facts'
                      /\ ~Reply("ack")' /\ ~Reply("reject")'
    OBVIOUS
  <2>1. PICK k \in 1 .. Len(jobs) : jobs[k] = "time" /\ (k = Len(jobs) => i = Len(jobs'))
    OBVIOUS
  <2>2. k = Len(jobs) /\ phase = "reply" /\ "stored" \notin facts /\ ~Reply("ack") /\ ~Reply("reject")
    BY <2>1, ReplyParts
  <2>3. replied # "ack"
    BY <2>2 DEF Reply
  <2> QED BY <1>2, <2>1, <2>2, <2>3
<1>6. Reply("ack")' => "stored" \in facts'
  BY <1>2, ReplyParts
<1>7. Reply("reject")' => "stored" \notin facts' /\ \A i \in 1 .. Len(jobs') : jobs'[i] # "time"
  BY <1>2, ReplyParts
<1>0. Cleared => Cleared'
  BY DEF Cleared
<1>8. \A i \in 1 .. Len(air') : air'[i].seq = "two" /\ Acked(i)' =>
         air'[i].status.alarm \/ Cleared'
  BY <1>0, <1>1, ReplyParts
<1>9. phase' = "verify" => replied' = "ack" /\ \A s \in status' : s.alarm \/ Cleared'
  BY <1>0, ReplyParts
<1> QED BY <1>3, <1>4, <1>5, <1>6, <1>7, <1>8, <1>9, Zenon DEF ReplyInv

\* A notification is taken or lost.
LEMMA ReplyTakenKeeps ==
    ASSUME IInv, kind = "settime", Handle \/ Lose
    PROVE  ReplyInv'
<1>1. /\ ReplyInv /\ Types /\ SeenInv /\ air \in Seq(Notices)
      /\ phase # "free"
  <2>1. air # <<>>
    BY Zenon DEF Handle, Lose
  <2> QED BY <2>1 DEF IInv, Types, MessagesOK, FreeInv
<1>2. /\ air # <<>> /\ air' = Tail(air)
      /\ UNCHANGED <<jobs, kind, phase, facts>>
  BY Zenon DEF Handle, Lose
<1>3. /\ \A i \in 1 .. Len(air') : i + 1 \in 1 .. Len(air) /\ air'[i] = air[i + 1]
      /\ Head(air) = air[1] /\ 1 \in 1 .. Len(air)
  BY <1>1, <1>2, TailAir
<1>4. /\ replied' = replied \/ (replied' = Head(air).seq /\ Head(air).seq \in {"ack", "reject"})
      /\ \/ status' = status
         \/ Head(air).seq = "two" /\ status' = {Head(air).status}
         \/ \A q \in status' : \E s \in status : q.alarm = s.alarm
  <2>1. CASE Handle
    BY <1>1, <2>1, HandleEffect
  <2>2. CASE Lose
    BY <2>2, Zenon DEF Lose
  <2> QED BY <2>1, <2>2
<1>5. /\ \A r \in {"ack", "reject"} :
            (replied' = r \/ \E i \in 1 .. Len(air') : air'[i].seq = r) => Reply(r)
      /\ \A i \in 1 .. Len(air') :
            (replied' = "ack" \/ \E j \in 1 .. i - 1 : air'[j].seq = "ack") =>
               i + 1 \in 1 .. Len(air) /\ Acked(i + 1)
  BY <1>1, <1>2, <1>4, ReplyTaken
<1>6. /\ Reply("ack")' => Reply("ack")
      /\ Reply("reject")' => Reply("reject")
      /\ \A i \in 1 .. Len(air') : Acked(i)' => i + 1 \in 1 .. Len(air) /\ Acked(i + 1)
  BY <1>5 DEF Reply, Acked
<1>7. \A i \in 1 .. Len(air') : air'[i].seq = "two" /\ Acked(i)' =>
         air'[i].status.alarm \/ Cleared'
  BY <1>1, <1>2, <1>3, <1>6, ReplyParts DEF Cleared
<1>8. phase = "verify" => replied' = "ack" /\ \A s \in status' : s.alarm \/ Cleared'
  <2> SUFFICES ASSUME phase = "verify"
               PROVE  replied' = "ack" /\ \A s \in status' : s.alarm \/ Cleared'
    OBVIOUS
  <2>1. replied = "ack" /\ \A s \in status : s.alarm \/ Cleared
    BY <1>1, ReplyParts
  <2>2. Reply("ack") /\ ~Reply("reject")
    BY <1>1, <2>1, ReplyParts DEF Reply
  <2>3. replied' = "ack"
    BY <1>3, <1>4, <2>1, <2>2 DEF Reply
  <2>4. Head(air).seq = "two" => Head(air).status.alarm \/ Cleared
    <3>1. Acked(1)
      BY <2>1 DEF Acked
    <3> QED BY <1>1, <1>3, <3>1, ReplyParts
  <2> QED BY <1>2, <1>4, <2>1, <2>3, <2>4 DEF Cleared
<1>9. /\ phase # "settle"
      /\ phase \in {"subscribed", "wait"} =>
            "sent" \notin facts /\ "stored" \notin facts /\ ~Reply("ack")' /\ ~Reply("reject")'
      /\ \A i \in 1 .. Len(jobs) : jobs[i] = "time" =>
            i = Len(jobs) /\ phase = "reply" /\ "stored" \notin facts /\ ~Reply("ack")' /\ ~Reply("reject")'
      /\ Reply("ack")' => "stored" \in facts
      /\ Reply("reject")' => "stored" \notin facts /\ \A i \in 1 .. Len(jobs) : jobs[i] # "time"
  BY <1>1, <1>6, ReplyParts
<1> QED BY <1>2, <1>7, <1>8, <1>9, Zenon DEF ReplyInv

\* A status is made, or another notification that is no reply.
LEMMA ReplyMadeKeeps ==
    ASSUME IInv, kind = "settime", phase # "free", NEW n \in Notices, Notify(n),
           n.seq \notin {"ack", "reject"},
           n.seq = "two" => n.status.alarm = device.alarm /\ facts' = Noted,
           facts' = Noted \/ facts' = facts,
           UNCHANGED <<kind, phase, status, replied>>,
           jobs' = jobs \/ (jobs # <<>> /\ jobs' = Tail(jobs))
    PROVE  ReplyInv'
<1>1. /\ ReplyInv /\ air \in Seq(Notices) /\ jobs \in Seq(Jobs)
  BY DEF IInv, MessagesOK, TypeOK, Jobs
<1>2. /\ \A i \in 1 .. Len(air) : air'[i] = air[i]
      /\ air'[Len(air')] = n /\ Len(air') = Len(air) + 1
      /\ \A i \in 1 .. Len(air') : i \in 1 .. Len(air) \/ i = Len(air) + 1
  BY <1>1, NotifyAir
<1>3. /\ \A r \in {"ack", "reject"} :
            (replied' = r \/ \E i \in 1 .. Len(air') : air'[i].seq = r) => Reply(r) \/ n.seq = r
      /\ \A i \in 1 .. Len(air) :
            (replied' = "ack" \/ \E j \in 1 .. i - 1 : air'[j].seq = "ack") => Acked(i)
      /\ (replied' = "ack" \/ \E j \in 1 .. (Len(air) + 1) - 1 : air'[j].seq = "ack") => Reply("ack")
  BY <1>1, ReplyMade
<1>4. /\ Reply("ack")' => Reply("ack")
      /\ Reply("reject")' => Reply("reject")
      /\ \A i \in 1 .. Len(air) : Acked(i)' => Acked(i)
      /\ \A i : i = Len(air) + 1 /\ Acked(i)' => Reply("ack")
  BY <1>3 DEF Reply, Acked
<1>5. /\ facts \subseteq facts'
      /\ "sent" \in facts' => "sent" \in facts
      /\ "stored" \in facts' => "stored" \in facts
      /\ n.seq = "two" /\ "stored" \in facts => n.status.alarm \/ Cleared'
      /\ Cleared => Cleared'
  BY DEF Noted, Cleared
<1>6. \A i \in 1 .. Len(jobs') : jobs'[i] = "time" =>
         \E k \in 1 .. Len(jobs) : jobs[k] = "time" /\ (k = Len(jobs) => i = Len(jobs'))
  BY <1>1, TimeMoves
<1>7. \A i \in 1 .. Len(air') : air'[i].seq = "two" /\ Acked(i)' =>
         air'[i].status.alarm \/ Cleared'
  <2> SUFFICES ASSUME NEW i \in 1 .. Len(air'), air'[i].seq = "two", Acked(i)'
               PROVE  air'[i].status.alarm \/ Cleared'
    OBVIOUS
  <2>1. CASE i \in 1 .. Len(air)
    BY <1>1, <1>2, <1>4, <1>5, <2>1, ReplyParts
  <2>2. CASE i = Len(air) + 1
    <3>1. Reply("ack") /\ air'[i] = n
      BY <1>2, <1>4, <2>2
    <3>2. "stored" \in facts
      BY <1>1, <3>1, ReplyParts
    <3> QED BY <1>5, <3>1, <3>2
  <2> QED BY <1>2, <2>1, <2>2
<1>8. /\ phase # "settle"
      /\ phase \in {"subscribed", "wait"} =>
            "sent" \notin facts' /\ "stored" \notin facts' /\ ~Reply("ack")' /\ ~Reply("reject")'
      /\ Reply("ack")' => "stored" \in facts'
      /\ phase = "verify" => replied = "ack" /\ \A s \in status : s.alarm \/ Cleared'
  BY <1>1, <1>4, <1>5, ReplyParts
<1>9. \A i \in 1 .. Len(jobs') : jobs'[i] = "time" =>
         i = Len(jobs') /\ phase = "reply" /\ "stored" \notin facts' /\ ~Reply("ack")' /\ ~Reply("reject")'
  BY <1>1, <1>4, <1>5, <1>6, ReplyParts
<1>10. Reply("reject")' => "stored" \notin facts' /\ \A i \in 1 .. Len(jobs') : jobs'[i] # "time"
  BY <1>1, <1>4, <1>5, <1>6, ReplyParts
<1> QED BY <1>7, <1>8, <1>9, <1>10, Zenon DEF ReplyInv

\* The controller meets the time: it was the last job, and there was no reply.
LEMMA TakeTimeKeeps ==
    ASSUME IInv, kind = "settime", TakeTime
    PROVE  ReplyInv'
<1>1. /\ ReplyInv /\ air \in Seq(Notices) /\ jobs \in Seq(Jobs)
      /\ jobs # <<>> /\ Head(jobs) = "time" /\ jobs' = Tail(jobs)
      /\ UNCHANGED <<kind, phase, status, replied>>
  BY Zenon DEF IInv, MessagesOK, TypeOK, Jobs, TakeTime
<1>2. phase # "free"
  BY <1>1 DEF IInv, FreeInv
<1>3. 1 \in 1 .. Len(jobs) /\ jobs[1] = "time" /\ Len(jobs) \in Nat
  BY <1>1
<1>4. /\ 1 = Len(jobs) /\ phase = "reply" /\ "stored" \notin facts
      /\ ~Reply("ack") /\ ~Reply("reject")
  BY <1>1, <1>2, <1>3, ReplyParts
<1>5. jobs' = <<>>
  BY <1>1, <1>4
<1>6. PICK n \in Notices : /\ Notify(n)
                           /\ \/ n.seq = "ack" /\ facts' = facts \cup {"stored"}
                              \/ n.seq = "reject" /\ facts' = facts
  <2>1. \/ Notify([seq |-> "ack"]) /\ facts' = facts \cup {"stored"}
        \/ Notify([seq |-> "reject"]) /\ facts' = facts
    BY Zenon DEF TakeTime
  <2> QED BY <2>1, PlainNotices
<1>7. /\ air'[Len(air')] = n /\ Len(air') = Len(air) + 1
      /\ \A i \in 1 .. Len(air') : i \in 1 .. Len(air) \/ i = Len(air) + 1
  BY <1>1, <1>6, NotifyAir
<1>8. /\ \A r \in {"ack", "reject"} :
            (replied' = r \/ \E i \in 1 .. Len(air') : air'[i].seq = r) => Reply(r) \/ n.seq = r
      /\ \A i \in 1 .. Len(air) :
            (replied' = "ack" \/ \E j \in 1 .. i - 1 : air'[j].seq = "ack") => Acked(i)
  BY <1>1, <1>6, ReplyMade
<1>9. /\ Reply("ack")' => n.seq = "ack"
      /\ Reply("reject")' => n.seq = "reject"
      /\ \A i \in 1 .. Len(air) : Acked(i)' => Acked(i)
  BY <1>4, <1>8 DEF Reply, Acked
<1>10. \A i \in 1 .. Len(air) : ~Acked(i)
  <2> SUFFICES ASSUME NEW i \in 1 .. Len(air), Acked(i) PROVE Reply("ack")
    BY <1>4
  <2>1. \A j \in 1 .. i - 1 : j \in 1 .. Len(air)
    BY <1>1, SMT
  <2> QED BY <2>1 DEF Acked, Reply
<1>11. \A i \in 1 .. Len(air') : air'[i].seq = "two" => ~Acked(i)'
  <2> SUFFICES ASSUME NEW i \in 1 .. Len(air'), air'[i].seq = "two" PROVE ~Acked(i)'
    OBVIOUS
  <2>1. i # Len(air')
    BY <1>6, <1>7
  <2>2. i \in 1 .. Len(air)
    BY <1>7, <2>1
  <2> QED BY <1>9, <1>10, <2>2
<1>12. /\ Reply("ack")' => "stored" \in facts'
       /\ Reply("reject")' => "stored" \notin facts'
  BY <1>4, <1>6, <1>9
<1>13. \A i \in 1 .. Len(jobs') : jobs'[i] # "time"
  BY <1>5
<1> QED BY <1>1, <1>4, <1>11, <1>12, <1>13, <1>5 DEF ReplyInv

LEMMA ReplyKept ==
    ASSUME IInv, [Next]_vars
    PROVE  ReplyInv'
<1>1. ReplyInv /\ jobs \in Seq(Jobs)
  BY DEF IInv, TypeOK, Jobs
<1>2. CASE Begin
  <2>1. /\ phase' = "subscribed" /\ status' = {} /\ replied' = "none" /\ jobs' = <<>>
        /\ air' = <<>> /\ facts' = {}
    BY <1>2, Zenon DEF Begin, Attempt
  <2> QED BY <2>1 DEF ReplyInv, Reply, Acked
<1>3. ASSUME Next, ~Begin, kind = "settime", phase' # "free"
      PROVE  ReplyInv'
  <2>1. /\ phase # "free" /\ kind' = kind /\ facts \subseteq facts'
        /\ \A v : ~End(v)
    BY <1>3, UnderWay, FactsGrow DEF IInv, End
  <2>2. ASSUME NEW next \in {"wait", "verify"}, ReadStatus(next),
               \A i \in 1 .. Len(jobs) : jobs[i] # "time",
               (next = "wait" /\ phase = "subscribed") \/ (next = "verify" /\ replied = "ack")
        PROVE  ReplyInv'
    <3>1. /\ status' = {} /\ jobs' = Append(jobs, "commit") /\ phase' = next
          /\ UNCHANGED <<air, replied, facts>>
      BY <2>2, Zenon DEF ReadStatus, SendCommit
    <3>2. \A i \in 1 .. Len(jobs') : jobs'[i] # "time"
      <4>1. "commit" \in Jobs
        BY DEF Jobs
      <4> QED BY <1>1, <2>2, <3>1, <4>1, TimeAdded
    <3> QED BY <1>1, <1>3, <2>1, <2>2, <3>1, <3>2, ReplyCalm
  <2>3. CASE Ask
    <3>1. ReadStatus("wait") /\ phase = "subscribed"
      BY <1>3, <2>3 DEF Ask
    <3>2. \A i \in 1 .. Len(jobs) : jobs[i] # "time"
      BY <1>1, <1>3, <2>1, <3>1, ReplyParts
    <3> QED BY <2>2, <3>1, <3>2
  <2>4. CASE CheckReply
    <3>1. replied = "ack" /\ ReadStatus("verify")
      BY <2>1, <2>4, Zenon DEF CheckReply
    <3>2. \A i \in 1 .. Len(jobs) : jobs[i] # "time"
      <4>1. Reply("ack")
        BY <3>1 DEF Reply
      <4> QED BY <1>1, <1>3, <2>1, <4>1, ReplyParts
    <3> QED BY <2>2, <3>1, <3>2
  <2>5. CASE SendTime
    <3>1. phase = "wait"
      BY <2>5, Zenon DEF SendTime
    <3>2. /\ jobs' = Append(jobs, "time") /\ phase' = "reply" /\ facts' = facts \cup {"sent"}
          /\ UNCHANGED <<air, replied, status>>
      BY <2>1, <2>5, Zenon DEF SendTime
    <3>3. /\ "stored" \notin facts' /\ ~Reply("ack") /\ ~Reply("reject")
          /\ \A k \in 1 .. Len(jobs) : jobs[k] # "time"
      BY <1>1, <1>3, <2>1, <3>1, <3>2, ReplyParts
    <3>4. /\ ~Reply("ack")' /\ ~Reply("reject")' /\ \A i : Acked(i)' <=> Acked(i)
      BY <3>2, <3>3 DEF Reply, Acked
    <3>5. \A i \in 1 .. Len(jobs') : jobs'[i] = "time" => i = Len(jobs')
      <4>1. "time" \in Jobs
        BY DEF Jobs
      <4> QED BY <1>1, <3>2, <3>3, <4>1, TimeAdded
    <3>6. \A i \in 1 .. Len(air') : air'[i].seq = "two" /\ Acked(i)' =>
             air'[i].status.alarm \/ Cleared'
      BY <1>1, <1>3, <2>1, <3>2, <3>4, ReplyParts DEF Cleared
    <3> QED BY <3>2, <3>3, <3>4, <3>5, <3>6 DEF ReplyInv
  <2>6. CASE Handle \/ Lose
    BY <1>3, <2>6, ReplyTakenKeeps
  <2>7. CASE TakeCommand \/ TakeCommit
    <3>1. /\ jobs # <<>>
          /\ jobs' = Tail(jobs) \/ jobs' = <<"two", "one", "zero">> \o Tail(jobs)
          /\ UNCHANGED <<air, replied, phase, status>>
          /\ facts' = facts \/ facts' = facts \cup (IF pending = "mine" THEN {"executed"} ELSE {})
      BY <2>7, Zenon DEF TakeCommand, TakeCommit
    <3>2. /\ "stored" \in facts' => "stored" \in facts
          /\ "sent" \in facts' => "sent" \in facts
      BY <3>1
    <3>3. \A i \in 1 .. Len(jobs') : jobs'[i] = "time" =>
             \E k \in 1 .. Len(jobs) : jobs[k] = "time" /\ (k = Len(jobs) => i = Len(jobs'))
      BY <1>1, <3>1, TimeMoves
    <3> QED BY <1>1, <1>3, <2>1, <3>1, <3>2, <3>3, ReplyCalm
  <2>8. CASE Emit
    <3>1. jobs # <<>> /\ jobs' = Tail(jobs) /\ UNCHANGED <<kind, phase, status, replied>>
      BY <2>8, Zenon DEF Emit
    <3>2. \/ \E n \in Statuses : Notify(n) /\ facts' = Noted
          \/ Notify([seq |-> "one", device |-> device]) /\ facts' = facts
          \/ Notify([seq |-> "zero"]) /\ facts' = facts
      BY <2>8, Zenon DEF Emit
    <3>3. PICK n \in Notices : /\ Notify(n) /\ n.seq \notin {"ack", "reject"}
                               /\ n.seq = "two" => n.status.alarm = device.alarm /\ facts' = Noted
                               /\ facts' = Noted \/ facts' = facts
      <4>1. device \in Devices
        BY DEF IInv, TypeOK
      <4> QED BY <3>2, <4>1, StatusNotice, DeviceNotice, PlainNotices
    <3> QED BY <1>3, <2>1, <3>1, <3>3, ReplyMadeKeeps
  <2>9. CASE Spontaneous
    <3>1. UNCHANGED <<jobs, kind, phase, status, replied>>
      BY <2>9, Zenon DEF Spontaneous
    <3>2. PICK n \in Statuses : Notify(n) /\ facts' = Noted
      BY <2>9, Zenon DEF Spontaneous
    <3>3. n \in Notices /\ n.seq = "two" /\ n.status.alarm = device.alarm
      BY StatusNotice DEF IInv, TypeOK
    <3> QED BY <1>3, <2>1, <3>1, <3>2, <3>3, ReplyMadeKeeps
  <2>10. CASE TakeTime
    BY <1>3, <2>10, TakeTimeKeeps
  <2>11. CASE Change
    <3>1. UNCHANGED <<jobs, air, phase, status, replied, facts>>
      BY <2>11, Zenon DEF Change
    <3> QED BY <1>1, <1>3, <2>1, <3>1, ReplyCalm
  <2>14. CASE Echo
    <3>1. Types /\ SeenInv
      BY DEF IInv, Types
    <3>2. /\ UNCHANGED <<jobs, air, kind, phase, replied>>
          /\ \E x \in {"echo0", "echo1", "echo2"} : facts' = facts \cup {x}
          /\ "echo2" \in facts' \/ \A q \in status' : \E s \in status : q.alarm = s.alarm
      BY <2>14, <3>1, EchoEffect
    <3>3. status' = status \/ Cleared'
      BY <1>3, <2>1, <2>14 DEF Echo, Receive, Cleared
    <3>4. /\ "stored" \in facts' => "stored" \in facts
          /\ "sent" \in facts' => "sent" \in facts
      BY <3>2
    <3> QED BY <1>1, <1>3, <2>1, <3>2, <3>3, <3>4, ReplyCalm
  <2>12. CASE Command \/ CommandEnds \/ StatusEnds
    BY <1>3, <2>12 DEF Command, CommandEnds, StatusEnds
  <2>13. CASE VerifyTime \/ Fail
    BY <1>3, <2>1, <2>13, Zenon DEF VerifyTime, Fail
  <2> QED BY <1>3, <2>3, <2>4, <2>5, <2>6, <2>7, <2>8, <2>9, <2>10, <2>11, <2>12, <2>13, <2>14, Zenon
          DEF Next
<1>4. CASE Next /\ ~Begin
  <2>1. kind' = kind
    BY <1>4, UnderWay DEF IInv
  <2>2. CASE kind = "settime" /\ phase' # "free"
    BY <1>3, <1>4, <2>2
  <2>3. CASE ~(kind = "settime" /\ phase' # "free")
    BY <2>1, <2>3, Zenon DEF ReplyInv
  <2> QED BY <2>2, <2>3
<1>5. CASE UNCHANGED vars
  BY <1>1, <1>5, Zenon DEF vars, ReplyInv, Reply, Acked, Cleared
<1> QED BY <1>2, <1>4, <1>5

LEMMA VerdictKept ==
    ASSUME IInv, [Next]_vars
    PROVE  TimeVerdictTrue'
<1>1. "sent" \in facts' => "echo2" \in facts' \/ \E d \in seen' : d[1] => d[2] = <<"idle">>
  <2>1. "sent" \in facts' => \E d \in Moments' : d[1] => d[2] = <<"idle">>
    BY SeenKept, Zenon DEF SeenInv
  <2> QED BY <2>1 DEF Moments
<1>2. CASE Begin
  <2>1. outcome' = "none"
    BY <1>2, Zenon DEF Begin
  <2> QED BY <1>1, <2>1 DEF TimeVerdictTrue
<1>3. ASSUME Next, ~Begin, kind = "settime"
      PROVE  /\ outcome' \in {"done", "unverified"} => "stored" \in facts'
             /\ outcome' = "done" => "clear" \in facts' \/ "echo2" \in facts'
             /\ outcome' = "rejected" => "stored" \notin facts'
             /\ outcome' = "busy" => /\ "sent" \notin facts'
                                     /\ \E d \in seen' : d[1] /\ d[2] # <<"idle">>
  <2>1. ReplyInv /\ phase # "free" /\ outcome = "none"
    BY <1>3, UnderWay DEF IInv, FreeInv
  <2>2. CASE outcome' = outcome
    BY <2>1, <2>2
  <2>3. CASE SendTime /\ outcome' # outcome
    <3>1. phase = "wait" /\ facts' = facts /\ seen' = seen /\ outcome' = "busy"
      BY <2>3, Zenon DEF SendTime, End
    <3>2. PICK s \in status : Busy(s)
      BY <2>3, Zenon DEF SendTime
    <3>3. PICK e \in Moments : Fits(s, e)
      BY Zenon DEF IInv, SeenInv, Told
    <3>4. e[1] /\ e[2] # <<"idle">>
      BY <3>2, <3>3, Zenon DEF Fits
    <3>5. Doing(Blank)[1] = FALSE
      BY DEF Doing, Blank
    <3>6. e \in seen
      BY <3>4, <3>5, Zenon DEF Moments
    <3> QED BY <1>3, <2>1, <3>1, <3>4, <3>6, ReplyParts
  <2>4. CASE CheckReply /\ outcome' # outcome
    <3>1. replied = "reject" /\ facts' = facts /\ outcome' = "rejected"
      BY <2>4, Zenon DEF CheckReply, ReadStatus, SendCommit, End
    <3>2. Reply("reject")
      BY <3>1 DEF Reply
    <3> QED BY <1>3, <2>1, <3>1, <3>2, ReplyParts
  <2>5. CASE VerifyTime
    <3>1. phase = "verify" /\ facts' = facts
      BY <2>5, Zenon DEF VerifyTime
    <3>2. PICK s \in status : End(IF s.alarm THEN "unverified" ELSE "done")
      BY <2>5, Zenon DEF VerifyTime
    <3>3. (s.alarm /\ outcome' = "unverified") \/ (~s.alarm /\ outcome' = "done")
      BY <3>2, Zenon DEF End
    <3>4. Reply("ack") /\ (s.alarm \/ Cleared)
      BY <1>3, <2>1, <3>1, ReplyParts DEF Reply
    <3>5. "stored" \in facts
      BY <1>3, <2>1, <3>4, ReplyParts
    <3> QED BY <3>1, <3>3, <3>4, <3>5 DEF Cleared
  <2>6. CASE Fail
    <3>1. outcome' = outcome \/ outcome' = "failed"
      BY <2>6, Zenon DEF Fail, End
    <3> QED BY <2>1, <3>1
  <2>7. CASE Ask \/ Handle \/ Echo \/ Lose \/ TakeCommand \/ TakeCommit \/ Emit \/ TakeTime \/ Spontaneous \/ Change
    <3>1. outcome' = outcome
      BY <2>7, Zenon DEF Ask, ReadStatus, SendCommit, Handle, Echo, Lose, TakeCommand, TakeCommit, Emit, TakeTime,
         Spontaneous, Change
    <3> QED BY <2>2, <3>1
  <2>8. CASE Command \/ CommandEnds \/ StatusEnds
    BY <1>3, <2>8 DEF Command, CommandEnds, StatusEnds
  <2> QED BY <1>3, <2>2, <2>3, <2>4, <2>5, <2>6, <2>7, <2>8, Zenon DEF Next
<1>4. CASE Next /\ ~Begin
  <2>1. kind' = kind
    BY <1>4, UnderWay DEF IInv
  <2> QED BY <1>1, <1>3, <1>4, <2>1, Zenon DEF TimeVerdictTrue
<1>5. CASE UNCHANGED vars
  BY <1>5, Zenon DEF IInv, vars, TimeVerdictTrue
<1> QED BY <1>2, <1>4, <1>5

-----------------------------------------------------------------------------
(* The theorems.                                                           *)

LEMMA InitHolds ==
    ASSUME Init
    PROVE  IInv
<1>1. TypeOK
  <2>1. jobs \in Seq({"command", "commit", "time", "two", "one", "zero"}) /\ Len(air) <= MaxAir
    BY AirAssumption DEF Init
  <2>2. changes \in 0 .. MaxChanges /\ attempt \in 0 .. MaxAttempts
    BY ChangesAssumption, AttemptsAssumption DEF Init
  <2>3. Cardinality(status) <= 1
    BY OneStatus DEF Init
  <2>4. /\ device \in Devices /\ pending \in {"none", "old", "mine"} /\ kind \in Kinds
        /\ phase = "free" /\ event = FALSE /\ replied = "none" /\ outcome = "none"
    BY Zenon DEF Init
  <2>5. pending \in {"none", "old", "mine"}
    BY DEF Init
  <2> QED BY <2>1, <2>2, <2>3, <2>4, <2>5, Zenon DEF TypeOK
<1>2. MessagesOK /\ FreeInv
  BY DEF Init, MessagesOK, FreeInv
<1>3. SeenInv
  BY DEF Init, SeenInv
<1>4. CommandInv
  <2>1. event = FALSE /\ outcome = "none" /\ air = <<>> /\ jobs = <<>> /\ phase = "free"
    BY Zenon DEF Init
  <2> QED BY <2>1 DEF CommandInv
<1>5. ReplyInv
  BY DEF Init, ReplyInv
<1>6. TimeVerdictTrue
  BY DEF Init, TimeVerdictTrue
<1> QED BY <1>1, <1>2, <1>3, <1>4, <1>5, <1>6 DEF IInv

LEMMA NextKeeps ==
    ASSUME IInv, [Next]_vars
    PROVE  IInv'
BY TypesKept, FreeKept, SeenKept, CommandKept, ReplyKept, VerdictKept, Zenon DEF IInv, Types

LEMMA InvAlways == Spec => []IInv
BY InitHolds, NextKeeps, PTL DEF Spec

\* Type correctness: at most MaxAttempts attempts, at most one status held, and
\* a reply only to set_time.
THEOREM TypeCorrect == Spec => []TypeOK
<1>1. IInv => TypeOK
  BY DEF IInv
<1> QED BY <1>1, InvAlways, PTL

\* set_time tells the truth: unless an echo was taken for a status, it is sent
\* only to a controller that was not busy at some moment, and done only if the
\* alarm was gone after the time was stored; echo or not, done and unverified
\* only if it was stored, rejected only if not, and busy only if the controller
\* was at work and nothing was sent.
THEOREM TimeVerdictsTrue == Spec => []TimeVerdictTrue
<1>1. IInv => TimeVerdictTrue
  BY DEF IInv
<1> QED BY <1>1, InvAlways, PTL

\* get_status returns a station that was watered during the call, and a time
\* that was left for it during the call or was read from an echo.
THEOREM StatusesCoherent == Spec => []StatusCoherent
<1>1. IInv => StatusCoherent
  <2> SUFFICES ASSUME IInv, NEW s \in status, NEW st \in s.station
               PROVE  /\ \E d \in seen : d[1] /\ Active(d[2]) /\ d[2][1] = st
                      /\ \/ s.left = NoTime
                         \/ \E d \in seen : d[2] = <<st, s.left>>
                         \/ "echo1" \in facts /\ st \in Overlaid
    BY Zenon DEF StatusCoherent
  <2>1. Told(s, Moments, Spells)
    BY Zenon DEF IInv, SeenInv
  <2>2. PICK e \in Moments : e[1] /\ Active(e[2]) /\ e[2][1] = st
    BY <2>1, Zenon DEF Told, Fits
  <2>3. e \in seen
    <3>1. Doing(Blank)[1] = FALSE
      BY DEF Doing, Blank
    <3> QED BY <2>2, <3>1, Zenon DEF Moments
  <2>4. ASSUME NEW d \in Spells, d[2] = <<st, s.left>>
        PROVE  d \in seen \/ ("echo1" \in facts /\ st \in Overlaid)
    <3>1. ASSUME NEW x \in Overlaid, NEW t \in Times, d = Doing(Posing(x, t))
          PROVE  st = x
      BY <2>4, <3>1 DEF Doing, Posing
    <3> QED BY <3>1 DEF Spells
  <2> QED BY <2>1, <2>2, <2>3, <2>4, Zenon DEF Told
<1> QED BY <1>1, InvAlways, PTL

\* A command reported done was executed during the call, or an echo was taken
\* for the response to it.
THEOREM CommandsDone == Spec => []CommandDone
<1>1. IInv => CommandDone
  BY Zenon DEF IInv, CommandInv, CommandDone
<1> QED BY <1>1, InvAlways, PTL
=============================================================================
