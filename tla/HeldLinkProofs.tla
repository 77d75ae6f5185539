--------------------------- MODULE HeldLinkProofs ---------------------------
(***************************************************************************)
(* For all finite sets of blocks, values, frames and halves of names:      *)
(* write_program_frames and write_station_name keep the promise of         *)
(* VerifiedWrite, and the second half of a rename goes out only to a       *)
(* controller that holds the first.  At the end, what this module and the  *)
(* proofs of NotifyDispatch and ProgramStore give for HeldLink.            *)
(***************************************************************************)
EXTENDS HeldLink, SequenceTheorems, FiniteSetTheorems, TLAPS

\* What goes over the link: frames and one request; answers and fragments.
Commands      == {<<"write", f>> : f \in Blocks \X Values} \cup {<<"read">>}
Notifications == {<<"short">>, <<"reject">>} \cup {<<"echo", b>> : b \in Blocks}
                     \cup {<<"frag", p>> : p \in Blocks \X Values}

\* The fragments among notifications.
Frags(s) == {s[i][2] : i \in {i \in 1 .. Len(s) : s[i][1] = "frag"}}

\* How far the call is, and what it has done.
PhaseInv ==
    /\ phase = "idle" => block = 0
    /\ phase = "idle" /\ outcome = "none" => sent = 0 /\ answered = {} /\ ~started
    /\ phase # "idle" => sent = block
    /\ phase \in {"preflight", "between", "subscribe"} => ~started /\ answered = {} /\ block = 0
    /\ phase = "await_ack" => answered = {} /\ block > 0
    /\ phase \notin {"idle", "preflight"} => ValidExpected(base, frames, expected)

\* A fragment is of the configuration the readback was answered with.
FromAnswer(p) == answered # {} /\ \A c \in answered : c[p[1]] = p[2]

\* The readback is asked for once, after every frame, and answered once.
CommandsInv ==
    /\ cmds \in Seq(Commands)
    /\ \A i \in 1 .. Len(cmds) : cmds[i] = <<"read">> =>
          /\ i = Len(cmds)
          /\ \/ phase = "readback" /\ answered = {}
             \/ phase = "idle" /\ outcome # "none"
    /\ phase # "idle" /\ answered # {} => cmds = <<>>

\* Every fragment on its way or collected is of that answer.
FragmentsInv ==
    /\ notes \in Seq(Notifications)
    /\ \A p \in payloads \cup Frags(notes) : FromAnswer(p)

IInv == TypeOK /\ PhaseInv /\ CommandsInv /\ FragmentsInv

(* Lemmas on the sequences and sets of the model.                          *)

\* Commands are taken in order: what is last stays last.
LEMMA TailCommands ==
    ASSUME NEW s \in Seq(Commands), s # <<>>
    PROVE  /\ Tail(s) \in Seq(Commands) /\ Head(s) = s[1] /\ Len(s) >= 1
           /\ Len(Tail(s)) = Len(s) - 1
           /\ \A i \in 1 .. Len(Tail(s)) : Tail(s)[i] = s[i + 1] /\ i + 1 \in 1 .. Len(s)
BY HeadTailProperties

\* A write is not the request.
LEMMA WritesAreNotRead == \A f : <<"write", f>> # <<"read">>
OBVIOUS

\* Taking a notification leaves fragments that were there.
LEMMA TailFragments ==
    ASSUME NEW s \in Seq(Notifications), s # <<>>
    PROVE  /\ Tail(s) \in Seq(Notifications) /\ Head(s) \in Notifications
           /\ Frags(Tail(s)) \subseteq Frags(s)
           /\ Head(s)[1] = "frag" => Head(s)[2] \in Frags(s)
<1>1. /\ Tail(s) \in Seq(Notifications) /\ Head(s) \in Notifications /\ Head(s) = s[1]
      /\ \A i \in 1 .. Len(Tail(s)) : Tail(s)[i] = s[i + 1] /\ i + 1 \in 1 .. Len(s)
      /\ 1 \in 1 .. Len(s)
  BY HeadTailProperties
<1> QED BY <1>1 DEF Frags

\* Adding notifications adds their fragments.
LEMMA ConcatFragments ==
    ASSUME NEW s \in Seq(Notifications), NEW t \in Seq(Notifications)
    PROVE  s \o t \in Seq(Notifications) /\ Frags(s \o t) \subseteq Frags(s) \cup Frags(t)
<1>1. /\ s \o t \in Seq(Notifications) /\ Len(s \o t) = Len(s) + Len(t)
      /\ Len(s) \in Nat /\ Len(t) \in Nat
      /\ \A i \in 1 .. Len(s) + Len(t) : (s \o t)[i] = IF i <= Len(s) THEN s[i] ELSE t[i - Len(s)]
  BY ConcatProperties
<1>2. ASSUME NEW i \in 1 .. Len(s \o t), (s \o t)[i][1] = "frag"
      PROVE  (s \o t)[i][2] \in Frags(s) \cup Frags(t)
  <2>1. CASE i <= Len(s)
    BY <1>1, <1>2, <2>1 DEF Frags
  <2>2. CASE i > Len(s)
    <3>1. i - Len(s) \in 1 .. Len(t) /\ (s \o t)[i] = t[i - Len(s)]
      BY <1>1, <2>2
    <3> QED BY <3>1, <1>2 DEF Frags
  <2> QED BY <1>1, <2>1, <2>2
<1> QED BY <1>1, <1>2 DEF Frags

\* A finite set as a sequence has its elements and no others.
LEMMA SetToSeqElements ==
    ASSUME NEW S, IsFiniteSet(S)
    PROVE  SetToSeq(S) \in [1 .. Cardinality(S) -> S] /\ Cardinality(S) \in Nat
<1>1. Cardinality(S) \in Nat /\ ExistsBijection(1 .. Cardinality(S), S)
  BY FS_CardinalityType
<1>2. \E f \in [1 .. Cardinality(S) -> S] : IsInjective(f)
  BY <1>1 DEF ExistsBijection, Bijection, Injection
<1> QED BY <1>1, <1>2 DEF SetToSeq

\* The answer to the readback: fragments, of the configuration there is.
LEMMA AnswerFragments ==
    ASSUME config \in Configs
    PROVE  LET t == SetToSeq({<<"frag", <<b, config[b]>> >> : b \in Blocks})
           IN  /\ t \in Seq(Notifications)
               /\ \A p \in Frags(t) : \E b \in Blocks : p = <<b, config[b]>>
<1> DEFINE Answer(b) == <<"frag", <<b, config[b]>> >>
           S == {Answer(b) : b \in Blocks}
           t == SetToSeq(S)
<1>1. IsFiniteSet(Blocks)
  BY BlocksAssumption DEF Blocks
<1>2. IsFiniteSet(S)
  <2> DEFINE f == [b \in Blocks |-> Answer(b)]
  <2>1. f \in Surjection(Blocks, S)
    BY Zenon DEF Surjection
  <2> HIDE DEF f, S
  <2> QED BY <1>1, <2>1, FS_Surjection, Zenon
<1>3. t \in [1 .. Cardinality(S) -> S] /\ Cardinality(S) \in Nat
  BY <1>2, SetToSeqElements, Zenon
<1>4. S \subseteq Notifications
  BY DEF Notifications, Configs
<1>5. t \in Seq(S) /\ Len(t) = Cardinality(S)
  <2> HIDE DEF S, t
  <2> QED BY <1>3
<1>6. t \in Seq(Notifications)
  <2> HIDE DEF S, t
  <2> QED BY <1>4, <1>5
<1>7. ASSUME NEW p \in Frags(t) PROVE \E b \in Blocks : p = <<b, config[b]>>
  <2>1. PICK i \in 1 .. Len(t) : p = t[i][2]
    BY <1>7, Zenon DEF Frags
  <2>2. t[i] \in S
    <3> HIDE DEF S, t
    <3> QED BY <1>3, <1>5, <2>1
  <2>3. PICK b \in Blocks : t[i] = Answer(b)
    BY <2>2, Zenon
  <2> HIDE DEF t
  <2> QED BY <2>1, <2>3
<1> QED BY <1>6, <1>7, Zenon

\* The frames of a call are a sequence of blocks with their values.
LEMMA FramesAreSequences ==
    ASSUME NEW f \in Frames
    PROVE  f \in Seq(Blocks \X Values) /\ Len(f) \in Nat
<1>1. PICK n \in 0 .. MaxFrames : f \in [1 .. n -> Blocks \X Values]
  BY DEF Frames
<1> QED BY <1>1, BlocksAssumption

(* The inductive invariant holds initially, and every action keeps it.     *)
USE DEF call, local, op, radio

\* The inductive invariant holds initially.
LEMMA InitInv == Init => IInv
<1> SUFFICES ASSUME Init PROVE IInv
  OBVIOUS
<1>1. <<>> \in Frames /\ Len(<<>>) = 0
  BY BlocksAssumption DEF Frames
<1>2. ~acked /\ ~rejected /\ ~started /\ ~up /\ acked \in BOOLEAN /\ rejected \in BOOLEAN
      /\ started \in BOOLEAN /\ up \in BOOLEAN
  BY Zenon DEF Init
<1>3. TypeOK
  BY <1>1, <1>2 DEF Init, TypeOK
<1>4. PhaseInv
  BY <1>2 DEF Init, PhaseInv
<1>5. CommandsInv /\ FragmentsInv
  BY DEF Init, CommandsInv, FragmentsInv, Frags
<1> QED BY <1>3, <1>4, <1>5 DEF IInv

\* Ending the call drops what was under way to it.
LEMMA EndKeeps ==
    ASSUME IInv, NEW verdict \in {"confirmed", "refused", "uncertain", "cancelled"},
           End(verdict), UNCHANGED <<config, call, answered, sent, cmds>>,
           started' \in BOOLEAN
    PROVE  IInv'
<1> USE DEF IInv, End
<1>1. acked' \in BOOLEAN /\ rejected' \in BOOLEAN /\ ~rejected' /\ up' \in BOOLEAN /\ ~up'
  BY Zenon DEF End
<1>2. TypeOK'
  BY <1>1, FramesAreSequences DEF TypeOK
<1>3. PhaseInv'
  BY DEF PhaseInv
<1>4. CommandsInv'
  BY <1>1 DEF CommandsInv
<1>5. FragmentsInv'
  BY DEF FragmentsInv, Frags
<1> QED BY <1>2, <1>3, <1>4, <1>5

\* The call starts with nothing sent, and nothing seen.
LEMMA BeginKeeps == ASSUME IInv, Begin PROVE IInv'
<1> USE DEF IInv, Begin
<1>1. TypeOK'
  BY FramesAreSequences DEF TypeOK, PhaseInv
<1>2. PhaseInv'
  BY DEF PhaseInv
<1>3. CommandsInv'
  BY DEF CommandsInv, PhaseInv, TypeOK
<1>4. FragmentsInv'
  BY DEF FragmentsInv, FromAnswer
<1> QED BY <1>1, <1>2, <1>3, <1>4

\* The mutation starts only with a valid expectation.
LEMMA PreflightKeeps == ASSUME IInv, Preflight PROVE IInv'
<1>1. CASE End("refused")
  <2>1. UNCHANGED <<config, call, answered, sent, cmds>> /\ started' \in BOOLEAN
    BY DEF Preflight, IInv, TypeOK
  <2> QED BY <1>1, <2>1, EndKeeps
<1>2. CASE phase' = "between" /\ UNCHANGED <<local, outcome, up, notes>> /\ ValidExpected(base, frames, expected)
  <2> USE <1>2 DEF IInv, Preflight
  <2>1. TypeOK'
    BY DEF TypeOK, PhaseInv
  <2>2. PhaseInv'
    BY DEF PhaseInv, ValidExpected
  <2>3. CommandsInv'
    BY DEF CommandsInv, PhaseInv, TypeOK
  <2>4. FragmentsInv'
    BY DEF FragmentsInv, FromAnswer
  <2> QED BY <2>1, <2>2, <2>3, <2>4
<1> QED BY <1>1, <1>2 DEF Preflight

\* The link of the mutation comes up.
LEMMA OpenKeeps == ASSUME IInv, Open PROVE IInv'
<1> USE DEF IInv, Open
<1>1. TypeOK'
  BY Zenon DEF TypeOK, PhaseInv
<1>2. PhaseInv'
  BY DEF PhaseInv
<1>3. CommandsInv'
  BY DEF CommandsInv, PhaseInv, TypeOK
<1>4. FragmentsInv'
  BY DEF FragmentsInv, FromAnswer
<1> QED BY <1>1, <1>2, <1>3, <1>4

\* A block goes out after an acknowledgement, or the call ends.
LEMMA WriteBlockKeeps == ASSUME IInv, WriteBlock PROVE IInv'
<1>1. CASE End("uncertain") /\ UNCHANGED <<cmds, sent>>
  <2>1. UNCHANGED <<config, call, answered, sent, cmds>> /\ started' \in BOOLEAN
    BY <1>1, Zenon DEF WriteBlock
  <2> QED BY <1>1, <2>1, EndKeeps
<1>2. CASE up /\ phase' = "await_ack" /\ UNCHANGED <<payloads, outcome, up, notes>>
           /\ sent' = sent + 1 /\ block' = block + 1 /\ acked' = FALSE /\ rejected' = FALSE
           /\ cmds' = Append(cmds, <<"write", frames[block + 1]>>)
  <2> USE <1>2 DEF IInv, WriteBlock, Ready
  <2>1. acked' \in BOOLEAN /\ rejected' \in BOOLEAN /\ ~rejected' /\ started' \in BOOLEAN
    BY Zenon DEF WriteBlock
  <2>2. frames \in Seq(Blocks \X Values) /\ Len(frames) \in Nat /\ block \in Nat
        /\ block + 1 \in 1 .. Len(frames) /\ sent = block
    BY FramesAreSequences DEF TypeOK, PhaseInv
  <2>3. <<"write", frames[block + 1]>> \in Commands
    BY <2>2 DEF Commands
  <2>4. TypeOK'
    BY <2>1, <2>2 DEF TypeOK
  <2>5. PhaseInv'
    BY <2>2 DEF PhaseInv
  <2>6. CommandsInv'
    <3>1. cmds' \in Seq(Commands) /\ Len(cmds') = Len(cmds) + 1 /\ Len(cmds) \in Nat
          /\ cmds'[Len(cmds')] = <<"write", frames[block + 1]>>
          /\ \A i \in 1 .. Len(cmds) : cmds'[i] = cmds[i]
      BY <2>3 DEF CommandsInv
    <3>2. \A i \in 1 .. Len(cmds) : cmds[i] # <<"read">>
      BY DEF CommandsInv
    <3>3. \A i \in 1 .. Len(cmds') : cmds'[i] # <<"read">>
      BY <3>1, <3>2, WritesAreNotRead
    <3> QED BY <3>1, <3>3 DEF CommandsInv, PhaseInv
  <2>7. FragmentsInv'
    BY DEF FragmentsInv, FromAnswer
  <2> QED BY <2>4, <2>5, <2>6, <2>7
<1> QED BY <1>1, <1>2 DEF WriteBlock

\* The request is the last command.
LEMMA ReadBackKeeps == ASSUME IInv, ReadBack PROVE IInv'
<1> USE DEF IInv, ReadBack, Ready
<1>1. TypeOK'
  BY DEF TypeOK
<1>2. PhaseInv'
  BY DEF PhaseInv
<1>3. CommandsInv'
  <2>1. <<"read">> \in Commands
    BY DEF Commands
  <2>2. cmds' \in Seq(Commands) /\ Len(cmds') = Len(cmds) + 1 /\ Len(cmds) \in Nat
        /\ \A i \in 1 .. Len(cmds) : cmds'[i] = cmds[i]
    BY <2>1 DEF CommandsInv
  <2>3. \A i \in 1 .. Len(cmds) : cmds[i] # <<"read">>
    BY DEF CommandsInv
  <2>4. answered' = {}
    BY DEF PhaseInv
  <2>5. ASSUME NEW i \in 1 .. Len(cmds'), cmds'[i] = <<"read">>
        PROVE  i = Len(cmds')
    BY <2>2, <2>3, <2>5
  <2>6. phase' = "readback"
    OBVIOUS
  <2> HIDE DEF ReadBack
  <2> QED BY <2>2, <2>4, <2>5, <2>6 DEF CommandsInv
<1>4. FragmentsInv'
  BY DEF FragmentsInv, FromAnswer
<1> QED BY <1>1, <1>2, <1>3, <1>4

\* Every way the call ends.
LEMMA VerifyKeeps == ASSUME IInv, Verify PROVE IInv'
<1>1. PICK verdict \in {"confirmed", "uncertain"} : End(verdict)
  BY DEF Verify
<1>2. UNCHANGED <<config, call, answered, sent, cmds>> /\ started' \in BOOLEAN
  BY DEF Verify, IInv, TypeOK
<1> QED BY <1>1, <1>2, EndKeeps

LEMMA FailKeeps == ASSUME IInv, Fail PROVE IInv'
<1>1. PICK verdict \in {"refused", "uncertain"} : End(verdict)
  BY DEF Fail
<1>2. UNCHANGED <<config, call, answered, sent, cmds>> /\ started' \in BOOLEAN
  BY DEF Fail, IInv, TypeOK
<1> QED BY <1>1, <1>2, EndKeeps

LEMMA CancelKeeps == ASSUME IInv, Cancel PROVE IInv'
<1>1. UNCHANGED <<config, call, answered, sent, cmds>> /\ started' \in BOOLEAN
  BY DEF Cancel, IInv, TypeOK
<1> QED BY <1>1, EndKeeps DEF Cancel

\* A notification wakes the waiter, or its fragment is collected.
LEMMA HandleKeeps == ASSUME IInv, Handle PROVE IInv'
<1> USE DEF IInv
<1>1. notes \in Seq(Notifications) /\ notes # <<>> /\ notes' = Tail(notes)
  BY DEF Handle, FragmentsInv
<1>2. /\ notes' \in Seq(Notifications) /\ Head(notes) \in Notifications
      /\ Frags(notes') \subseteq Frags(notes)
      /\ Head(notes)[1] = "frag" => Head(notes)[2] \in Frags(notes)
  BY <1>1, TailFragments
<1>3. UNCHANGED <<config, call, phase, block, started, outcome, up, cmds, answered, sent>>
  BY DEF Handle
<1>4. payloads' = payloads \/ (Head(notes)[1] = "frag" /\ payloads' = payloads \cup {Head(notes)[2]})
  <2>1. payloads' = IF phase = "readback" /\ Head(notes)[1] = "frag"
                    THEN payloads \cup {Head(notes)[2]} ELSE payloads
    BY Zenon DEF Handle
  <2> QED BY <2>1
<1>5. TypeOK'
  <2>1. acked' \in BOOLEAN /\ rejected' \in BOOLEAN /\ (rejected' => acked')
    BY Zenon DEF Handle, TypeOK
  <2>2. payloads' \subseteq Blocks \X Values
    BY <1>2, <1>4 DEF TypeOK, Notifications
  <2> QED BY <1>3, <2>1, <2>2 DEF TypeOK
<1>6. PhaseInv'
  BY <1>3 DEF PhaseInv
<1>7. CommandsInv'
  BY <1>3 DEF CommandsInv
<1>8. FragmentsInv'
  BY <1>2, <1>3, <1>4 DEF FragmentsInv, FromAnswer
<1> QED BY <1>5, <1>6, <1>7, <1>8

\* A late echo wakes the waiter, and is no fragment.
LEMMA EchoKeeps == ASSUME IInv, Echo PROVE IInv'
<1> USE DEF IInv, Echo
<1>1. acked' /\ acked' \in BOOLEAN
  BY Zenon DEF Echo
<1>2. TypeOK'
  BY <1>1 DEF TypeOK
<1>3. PhaseInv'
  BY DEF PhaseInv
<1>4. CommandsInv'
  BY DEF CommandsInv
<1>5. FragmentsInv'
  BY DEF FragmentsInv, FromAnswer
<1> QED BY <1>2, <1>3, <1>4, <1>5

\* An answer to a block holds no fragment.
LEMMA AnswersHoldNone ==
    ASSUME NEW b \in Blocks, NEW a \in Answers(b)
    PROVE  a \in Seq(Notifications) /\ Frags(a) = {}
<1>1. <<"short">> \in Notifications /\ <<"echo", b>> \in Notifications
  BY DEF Notifications
<1>2. <<"short">>[1] # "frag" /\ <<"echo", b>>[1] # "frag"
  OBVIOUS
<1>3. CASE a = <<>>
  BY <1>3 DEF Frags
<1>4. CASE a = << <<"short">> >>
  BY <1>1, <1>2, <1>4 DEF Frags
<1>5. CASE a = << <<"echo", b>> >>
  BY <1>1, <1>2, <1>5 DEF Frags
<1>6. CASE a = << <<"short">>, <<"echo", b>> >>
  BY <1>1, <1>2, <1>6 DEF Frags
<1> QED BY <1>3, <1>4, <1>5, <1>6 DEF Answers

\* The head of the commands goes; what is left keeps its place.
LEMMA TakeKeeps ==
    ASSUME IInv, cmds # <<>>, cmds' = Tail(cmds), UNCHANGED <<phase, outcome>>, answered' = answered
    PROVE  CommandsInv' /\ (Head(cmds) # <<"read">> => phase = "idle" \/ answered = {})
<1>1. cmds \in Seq(Commands)
  BY DEF IInv, CommandsInv
<1> QED BY <1>1, TailCommands DEF IInv, CommandsInv

\* A block is stored.
LEMMA StoreKeeps == ASSUME IInv, Store PROVE IInv'
<1> USE DEF IInv
<1>1. UNCHANGED <<call, phase, op, outcome, up, answered, sent>> /\ cmds # <<>> /\ cmds' = Tail(cmds)
  BY DEF Store
<1>2. Head(cmds) \in Commands /\ Head(cmds)[1] = "write"
  BY TailCommands DEF Store, CommandsInv
<1>3. Head(cmds)[2][1] \in Blocks
  BY <1>2 DEF Commands
<1>4. config' \in Configs
  BY <1>3 DEF Store, TypeOK, Configs
<1>5. PICK a \in Answers(Head(cmds)[2][1]) : notes' = IF up THEN notes \o a ELSE notes
  BY DEF Store
<1>6. notes' \in Seq(Notifications) /\ Frags(notes') \subseteq Frags(notes)
  BY <1>3, <1>5, AnswersHoldNone, ConcatFragments DEF FragmentsInv
<1>7. TypeOK'
  BY <1>1, <1>4 DEF TypeOK
<1>8. PhaseInv'
  BY <1>1 DEF PhaseInv
<1>9. CommandsInv'
  BY <1>1, TakeKeeps
<1>10. FragmentsInv'
  BY <1>1, <1>6 DEF FragmentsInv, FromAnswer
<1> QED BY <1>7, <1>8, <1>9, <1>10

\* A block is refused.
LEMMA RefuseKeeps == ASSUME IInv, Refuse PROVE IInv'
<1> USE DEF IInv
<1>1. UNCHANGED <<config, call, phase, op, outcome, up, answered, sent>> /\ cmds # <<>> /\ cmds' = Tail(cmds)
  BY DEF Refuse
<1>2. notes' \in Seq(Notifications) /\ Frags(notes') \subseteq Frags(notes)
  <2>1. << <<"reject">> >> \in Seq(Notifications) /\ Frags(<< <<"reject">> >>) = {}
    BY DEF Notifications, Frags
  <2>2. notes' = notes \o << <<"reject">> >>
    BY DEF Refuse, FragmentsInv
  <2> QED BY <2>1, <2>2, ConcatFragments DEF FragmentsInv
<1>3. TypeOK'
  BY <1>1 DEF TypeOK
<1>4. PhaseInv'
  BY <1>1 DEF PhaseInv
<1>5. CommandsInv'
  BY <1>1, TakeKeeps
<1>6. FragmentsInv'
  BY <1>1, <1>2 DEF FragmentsInv, FromAnswer
<1> QED BY <1>3, <1>4, <1>5, <1>6

\* The answer to the request is the first, and its fragments are of it.
LEMMA ReportKeeps == ASSUME IInv, Report PROVE IInv'
<1> USE DEF IInv
<1>1. UNCHANGED <<config, call, phase, op, outcome, up, sent>> /\ cmds # <<>> /\ cmds' = Tail(cmds)
      /\ up /\ Head(cmds) = <<"read">> /\ answered' = {config}
  BY DEF Report
<1>2. phase = "readback" /\ answered = {} /\ cmds' = <<>>
  BY <1>1, TailCommands DEF CommandsInv, TypeOK
<1> DEFINE t == SetToSeq({<<"frag", <<b, config[b]>> >> : b \in Blocks})
<1>3. t \in Seq(Notifications) /\ \A p \in Frags(t) : \E b \in Blocks : p = <<b, config[b]>>
  BY AnswerFragments, Zenon DEF TypeOK
<1>4. notes' = notes \o t
  BY Zenon DEF Report
<1> HIDE DEF t
<1>5. payloads = {} /\ Frags(notes) = {}
  BY <1>2 DEF FragmentsInv, FromAnswer
<1>6. notes' \in Seq(Notifications) /\ Frags(notes') \subseteq Frags(t)
  BY <1>3, <1>4, <1>5, ConcatFragments DEF FragmentsInv
<1>7. TypeOK'
  BY <1>1 DEF TypeOK
<1>8. PhaseInv'
  BY <1>1, <1>2 DEF PhaseInv
<1>9. CommandsInv'
  BY <1>2 DEF CommandsInv
<1>10. FragmentsInv'
  BY <1>1, <1>3, <1>5, <1>6 DEF FragmentsInv, FromAnswer
<1> QED BY <1>7, <1>8, <1>9, <1>10

\* Loss, of a notification or of the link.
LEMMA LoseKeeps == ASSUME IInv, Lose PROVE IInv'
<1> USE DEF IInv, Lose
<1>1. TypeOK'
  BY DEF TypeOK
<1>2. PhaseInv'
  BY DEF PhaseInv
<1>3. CommandsInv'
  BY DEF CommandsInv
<1>4. FragmentsInv'
  BY TailFragments DEF FragmentsInv, FromAnswer
<1> QED BY <1>1, <1>2, <1>3, <1>4

LEMMA LinkDropsKeeps == ASSUME IInv, LinkDrops PROVE IInv'
<1> USE DEF IInv, LinkDrops
<1>1. TypeOK'
  <2>1. ~up' /\ up' \in BOOLEAN
    BY Zenon DEF LinkDrops
  <2> QED BY <2>1 DEF TypeOK
<1>2. PhaseInv'
  BY DEF PhaseInv
<1>3. CommandsInv'
  BY DEF CommandsInv
<1>4. FragmentsInv'
  BY DEF FragmentsInv, FromAnswer, Frags
<1> QED BY <1>1, <1>2, <1>3, <1>4

\* Others write.
LEMMA InterfereKeeps == ASSUME IInv, Interfere PROVE IInv'
<1> USE DEF IInv, Interfere
<1>1. TypeOK'
  BY DEF TypeOK
<1>2. PhaseInv'
  BY DEF PhaseInv
<1>3. CommandsInv'
  BY DEF CommandsInv
<1>4. FragmentsInv'
  BY DEF FragmentsInv, FromAnswer
<1> QED BY <1>1, <1>2, <1>3, <1>4

\* The inductive invariant is kept by every step.
LEMMA NextKeeps == IInv /\ [Next]_vars => IInv'
<1> SUFFICES ASSUME IInv, [Next]_vars PROVE IInv'
  OBVIOUS
<1>1. CASE UNCHANGED vars
  BY <1>1 DEF vars, IInv, TypeOK, PhaseInv, CommandsInv, FragmentsInv, FromAnswer
<1> QED BY <1>1, BeginKeeps, PreflightKeeps, OpenKeeps, WriteBlockKeeps, ReadBackKeeps, VerifyKeeps,
         FailKeeps, CancelKeeps, HandleKeeps, EchoKeeps, StoreKeeps, RefuseKeeps, ReportKeeps, LoseKeeps,
         LinkDropsKeeps, InterfereKeeps DEF Next

\* The inductive invariant holds in every behaviour.
LEMMA InvAlways == Spec => []IInv
BY InitInv, NextKeeps, PTL DEF Spec

\* The types of ProgramWrite; among them, that no frame is written twice and no
\* link outlives the call.
THEOREM TypeCorrect == Spec => []TypeOK
<1>1. IInv => TypeOK
  BY DEF IInv
<1> QED BY <1>1, InvAlways, PTL

-----------------------------------------------------------------------------
(* The transaction implements VerifiedWrite, step by step.                 *)

\* What the caller is after depends on its call alone.
LEMMA GoalKept == UNCHANGED call => Goal' = Goal
BY DEF Goal

\* It always is a set of configurations.
LEMMA GoalType == Goal \in SUBSET Configs /\ Goal' \in SUBSET Configs
BY DEF Goal, Configs

\* A step that shows nothing of the call.
LEMMA Stutters ==
    ASSUME UNCHANGED <<config, call, phase, outcome, started, answered>>
    PROVE  UNCHANGED Promise!vars
BY GoalKept DEF Promise!vars

\* The call ends with nothing written, or is in doubt.
LEMMA EndsUnconfirmed ==
    ASSUME phase # "idle", NEW verdict \in {"refused", "uncertain", "cancelled"}, End(verdict),
           UNCHANGED <<config, call>>, started \in BOOLEAN, started' \in {started, TRUE},
           verdict = "refused" => ~started
    PROVE  Promise!End
BY GoalKept DEF End, Promise!End

\* The link's answer is complete and as expected: it was the goal.
LEMMA ConfirmedWasSeen ==
    ASSUME IInv, phase = "readback", NEW actual \in Assembled(payloads), actual = expected
    PROVE  answered # {} /\ answered \subseteq Goal
<1>1. actual \in Snapshots /\ payloads = {<<b, actual[b]>> : b \in DOMAIN actual}
  BY DEF Assembled
<1>2. PICK E \in SUBSET Extra : actual \in [Core \cup E -> Values]
  BY <1>1 DEF Snapshots
<1>3. DOMAIN actual = Core \cup E /\ Core # {}
  BY <1>2, BlocksAssumption
<1>4. answered # {}
  BY <1>1, <1>3 DEF IInv, FragmentsInv, FromAnswer
<1>5. expected = Written(base, frames) /\ DOMAIN expected = DOMAIN base
  BY DEF IInv, PhaseInv, ValidExpected
<1>6. ASSUME NEW c \in answered, NEW b \in DOMAIN base PROVE c[b] = Written(base, frames)[b]
  <2>1. <<b, actual[b]>> \in payloads
    BY <1>1, <1>5
  <2> QED BY <2>1, <1>5 DEF IInv, FragmentsInv, FromAnswer
<1> QED BY <1>4, <1>6 DEF Goal, IInv, TypeOK

\* write_program_frames keeps the promise of VerifiedWrite: confirmed only when
\* the controller was seen to hold the caller's baseline with its frames in it,
\* refused only when nothing was written.
THEOREM RefinesVerifiedWrite == Spec => KeepsPromise
<1>1. Init => Promise!Init
  BY GoalType DEF Init, Promise!Init
<1>2. IInv /\ [Next]_vars => [Promise!Next]_(Promise!vars)
  <2> SUFFICES ASSUME IInv, [Next]_vars PROVE UNCHANGED Promise!vars \/ Promise!Next
    OBVIOUS
  <2>1. CASE Begin
    BY <2>1, GoalType DEF Begin, IInv, PhaseInv, Promise!Start, Promise!Next
  <2>2. CASE Preflight
    <3>1. CASE End("refused")
      BY <2>2, <3>1, EndsUnconfirmed DEF Preflight, IInv, TypeOK, PhaseInv, Promise!Next
    <3>2. CASE phase' = "between" /\ UNCHANGED <<local, outcome, up, notes>>
      BY <2>2, <3>2, GoalKept DEF Preflight, Promise!vars
    <3> QED BY <2>2, <3>1, <3>2 DEF Preflight
  <2>3. CASE Open
    BY <2>3, GoalKept DEF Open, Promise!vars
  <2>4. CASE WriteBlock
    <3>1. CASE End("uncertain")
      BY <2>4, <3>1, EndsUnconfirmed DEF WriteBlock, Ready, IInv, TypeOK, Promise!Next
    <3>2. CASE phase' = "await_ack" /\ UNCHANGED outcome
      BY <2>4, <3>2, GoalKept DEF WriteBlock, Ready, IInv, PhaseInv, Promise!Write, Promise!Next
    <3> QED BY <2>4, <3>1, <3>2 DEF WriteBlock
  <2>5. CASE ReadBack
    BY <2>5, GoalKept DEF ReadBack, Ready, Promise!vars
  <2>6. CASE Verify
    <3>1. PICK actual \in Assembled(payloads) : End(IF actual = expected THEN "confirmed" ELSE "uncertain")
      BY <2>6 DEF Verify
    <3>2. CASE actual # expected
      BY <2>6, <3>1, <3>2, EndsUnconfirmed DEF Verify, IInv, TypeOK, Promise!Next
    <3>3. CASE actual = expected
      <4>1. answered # {} /\ answered \subseteq Goal
        BY <2>6, <3>3, ConfirmedWasSeen DEF Verify
      <4> QED BY <2>6, <3>1, <3>3, <4>1, GoalKept DEF Verify, End, Promise!End, Promise!Next
    <3> QED BY <3>2, <3>3
  <2>7. CASE Fail
    BY <2>7, EndsUnconfirmed DEF Fail, IInv, TypeOK, Promise!Next
  <2>8. CASE Cancel
    BY <2>8, EndsUnconfirmed DEF Cancel, IInv, TypeOK, Promise!Next
  <2>9. CASE Handle
    BY <2>9, Stutters DEF Handle
  <2>10. CASE Store
    <3>1. IInv'
      BY <2>10, StoreKeeps
    <3>2. phase = "idle" \/ answered = {}
      BY <2>10 DEF Store, IInv, CommandsInv
    <3> QED BY <2>10, <3>1, <3>2, GoalKept DEF Store, IInv, TypeOK, Promise!Change, Promise!Next
  <2>11. CASE Refuse
    BY <2>11, Stutters DEF Refuse
  <2>12. CASE Report
    <3>1. answered = {}
      BY <2>12, TailCommands DEF Report, IInv, CommandsInv, TypeOK
    <3> QED BY <2>12, <3>1, GoalKept DEF Report, Promise!See, Promise!vars, Promise!Next
  <2>13. CASE Lose
    BY <2>13, Stutters DEF Lose
  <2>14. CASE LinkDrops
    BY <2>14, Stutters DEF LinkDrops
  <2>15. CASE Interfere
    BY <2>15, GoalKept DEF Interfere, IInv, PhaseInv, Promise!Change, Promise!Next
  <2>16. CASE UNCHANGED vars
    BY <2>16, Stutters DEF vars
  <2>17. CASE Echo
    BY <2>17, Stutters DEF Echo
  <2> QED BY <2>1, <2>2, <2>3, <2>4, <2>5, <2>6, <2>7, <2>8, <2>9, <2>10,
         <2>11, <2>12, <2>13, <2>14, <2>15, <2>16, <2>17 DEF Next
<1> QED BY <1>1, <1>2, InvAlways, PTL DEF Spec, KeepsPromise, Promise!Spec

-----------------------------------------------------------------------------
(* A rename.                                                               *)

\* How far the call is, what it has sent, and what it may have seen.
RenamePhaseInv ==
    /\ nPhase # "idle" => nOutcome = "none"
    /\ nPhase = "idle" /\ nOutcome = "none" => nPart = 0 /\ ~nAcked
    /\ nPart = nSent
    /\ nPhase = "await_ack" => nPart \in 1 .. 2
    /\ nPhase \in {"connect", "preflight"} => nPart = 0 /\ ~nAcked
    /\ nPhase = "readback" => nPart = 2
    /\ nRead # {} => (nPhase = "idle" /\ nOutcome # "none") \/ (nPhase = "readback" /\ nCmds = <<>>)

RenameIInv == Rename!TypeOK /\ RenamePhaseInv /\ nCmds \in Seq(Halves \X Values)

\* The frames of a rename are halves with their values.
LEMMA RenameFramesTyped ==
    ASSUME NEW f \in Rename!Pair, NEW i \in 1 .. 2
    PROVE  f[i] \in Halves \X Values
BY DEF Rename!Pair

(* The inductive invariant holds initially, and every action keeps it.     *)
USE DEF Rename!call

\* The inductive invariant holds initially.
LEMMA RenameInitInv == Rename!Init => RenameIInv
<1> SUFFICES ASSUME Rename!Init PROVE RenameIInv
  OBVIOUS
<1>1. ~nAcked /\ ~nRejected /\ nAcked \in BOOLEAN /\ nRejected \in BOOLEAN /\ ~nUp /\ nUp \in BOOLEAN
  BY Zenon DEF Rename!Init
<1> QED BY <1>1 DEF Rename!Init, RenameIInv, Rename!TypeOK, RenamePhaseInv

\* The call ends: what it has sent and seen stays.
LEMMA RenameEndKeeps ==
    ASSUME RenameIInv, nPhase # "idle", NEW verdict \in {"confirmed", "stale", "invalid", "uncertain",
           "cancelled"},
           Rename!End(verdict), nRead' = nRead, verdict = "confirmed" => nPhase = "readback"
    PROVE  RenameIInv'
<1> USE DEF RenameIInv, Rename!End
<1>1. nUp' \in BOOLEAN
  BY Zenon DEF Rename!End
<1>2. Rename!TypeOK'
  BY <1>1 DEF Rename!TypeOK, RenamePhaseInv
<1>3. RenamePhaseInv'
  BY DEF RenamePhaseInv
<1> QED BY <1>2, <1>3

\* A half goes out: the first after the preflight, the second after the first.
LEMMA RenameSendKeeps ==
    ASSUME RenameIInv, Rename!Send, nPhase \in {"preflight", "await_ack"}, nPart < 2
    PROVE  RenameIInv'
<1> USE DEF RenameIInv, Rename!Send
<1>1. nAcked' \in BOOLEAN /\ nRejected' \in BOOLEAN /\ ~nAcked' /\ ~nRejected'
  BY Zenon DEF Rename!Send
<1>2. nPart \in {0, 1} /\ nSent = nPart /\ nFrames[nPart + 1] \in Halves \X Values
  BY RenameFramesTyped DEF Rename!TypeOK, RenamePhaseInv
<1>3. Rename!TypeOK'
  BY <1>1, <1>2 DEF Rename!TypeOK
<1>4. RenamePhaseInv'
  BY <1>2 DEF RenamePhaseInv
<1>5. nCmds' \in Seq(Halves \X Values)
  BY <1>2
<1> QED BY <1>3, <1>4, <1>5

\* The call starts with nothing sent.
LEMMA RenameBeginKeeps == ASSUME RenameIInv, Rename!Begin PROVE RenameIInv'
BY DEF RenameIInv, Rename!Begin, Rename!TypeOK, RenamePhaseInv

\* Its link comes up.
LEMMA RenameOpenKeeps == ASSUME RenameIInv, Rename!Open PROVE RenameIInv'
<1>1. nUp' \in BOOLEAN
  BY Zenon DEF Rename!Open
<1> QED BY <1>1 DEF RenameIInv, Rename!Open, Rename!TypeOK, RenamePhaseInv

\* The baseline is compared.
LEMMA RenamePreflightKeeps == ASSUME RenameIInv, Rename!Preflight PROVE RenameIInv'
<1>1. CASE Rename!End("stale") /\ UNCHANGED nRead
  BY <1>1, RenameEndKeeps DEF Rename!Preflight
<1>2. CASE Rename!Send
  BY <1>2, RenameSendKeeps DEF Rename!Preflight, RenameIInv, RenamePhaseInv
<1> QED BY <1>1, <1>2 DEF Rename!Preflight

\* The second half, or the readback after it.
LEMMA RenameNextPartKeeps == ASSUME RenameIInv, Rename!NextPart PROVE RenameIInv'
<1>1. CASE nPart < 2 /\ Rename!Send
  BY <1>1, RenameSendKeeps DEF Rename!NextPart
<1>2. CASE nPart = 2 /\ nPhase' = "readback"
           /\ UNCHANGED <<names, Rename!call, nPart, nAcked, nRejected, nOutcome, nUp, nCmds, nNotes,
              nRead, nSent>>
  BY <1>2 DEF Rename!NextPart, RenameIInv, Rename!TypeOK, RenamePhaseInv
<1> QED BY <1>1, <1>2 DEF Rename!NextPart

\* Every way the call ends.
LEMMA RenameCallEndsKeeps ==
    ASSUME RenameIInv,
           Rename!Rejected \/ Rename!Verify \/ Rename!Invalid \/ Rename!Fail \/ Rename!Cancel
    PROVE  RenameIInv'
<1>1. PICK verdict \in {"confirmed", "invalid", "uncertain", "cancelled"} :
           Rename!End(verdict) /\ nPhase # "idle" /\ nRead' = nRead /\ (verdict = "confirmed" => nPhase = "readback")
  BY DEF Rename!Rejected, Rename!Verify, Rename!Invalid, Rename!Fail, Rename!Cancel
<1> QED BY <1>1, RenameEndKeeps

\* An acknowledgement or a rejection wakes the waiter.
LEMMA RenameHandleKeeps == ASSUME RenameIInv, Rename!Handle PROVE RenameIInv'
<1>1. UNCHANGED <<names, Rename!call, nPhase, nPart, nOutcome, nUp, nCmds, nRead, nSent>>
  BY DEF Rename!Handle
<1>2. nAcked' \in BOOLEAN /\ nRejected' \in BOOLEAN /\ (nRejected' => nAcked')
      /\ (nPhase # "await_ack" => nAcked' = nAcked)
  BY Zenon DEF Rename!Handle, RenameIInv, Rename!TypeOK
<1> QED BY <1>1, <1>2 DEF RenameIInv, Rename!TypeOK, RenamePhaseInv

\* A half is stored or refused.
LEMMA RenameStoreKeeps == ASSUME RenameIInv, Rename!Store PROVE RenameIInv'
<1>1. UNCHANGED <<Rename!call, nPhase, nPart, nAcked, nRejected, nOutcome, nUp, nRead, nSent>>
      /\ nCmds # <<>> /\ nCmds' = Tail(nCmds)
  BY DEF Rename!Store
<1>2. Head(nCmds) \in Halves \X Values /\ nCmds' \in Seq(Halves \X Values)
  BY <1>1, HeadTailProperties DEF RenameIInv
<1>3. names' \in Rename!Configs
  <2>1. names' = names \/ names' = [names EXCEPT ![Head(nCmds)[1]] = Head(nCmds)[2]]
    BY DEF Rename!Store
  <2> QED BY <2>1, <1>2 DEF RenameIInv, Rename!TypeOK, Rename!Configs
<1> QED BY <1>1, <1>2, <1>3 DEF RenameIInv, Rename!TypeOK, RenamePhaseInv

\* The readback is answered when every half before it has been taken.
LEMMA RenameReportKeeps == ASSUME RenameIInv, Rename!Report PROVE RenameIInv'
BY DEF RenameIInv, Rename!Report, Rename!TypeOK, RenamePhaseInv

\* The link drops.
LEMMA RenameLinkDropsKeeps == ASSUME RenameIInv, Rename!LinkDrops PROVE RenameIInv'
<1>1. nUp' \in BOOLEAN
  BY Zenon DEF Rename!LinkDrops
<1> QED BY <1>1 DEF RenameIInv, Rename!LinkDrops, Rename!TypeOK, RenamePhaseInv

\* Others write.
LEMMA RenameInterfereKeeps == ASSUME RenameIInv, Rename!Interfere PROVE RenameIInv'
BY DEF RenameIInv, Rename!Interfere, Rename!TypeOK, RenamePhaseInv

\* The inductive invariant is kept by every step.
LEMMA RenameNextKeeps == RenameIInv /\ [Rename!Next]_(Rename!vars) => RenameIInv'
<1> SUFFICES ASSUME RenameIInv, [Rename!Next]_(Rename!vars) PROVE RenameIInv'
  OBVIOUS
<1>1. CASE UNCHANGED Rename!vars
  BY <1>1 DEF Rename!vars, RenameIInv, Rename!TypeOK, RenamePhaseInv
<1> QED BY <1>1, RenameBeginKeeps, RenameOpenKeeps, RenamePreflightKeeps, RenameNextPartKeeps,
         RenameCallEndsKeeps, RenameHandleKeeps,
         RenameStoreKeeps, RenameReportKeeps, RenameLinkDropsKeeps, RenameInterfereKeeps DEF Rename!Next

\* The inductive invariant holds in every behaviour.
LEMMA RenameInvAlways == Rename!Spec => []RenameIInv
BY RenameInitInv, RenameNextKeeps, PTL DEF Rename!Spec

\* The types of NameWrite; among them, that nothing is confirmed before both
\* halves were sent.
THEOREM RenameTypeCorrect == Rename!Spec => []RenameTypeOK
<1>1. RenameIInv => RenameTypeOK
  BY DEF RenameIInv, RenameTypeOK
<1> QED BY <1>1, RenameInvAlways, PTL

\* The controller holds the first half.
FirstHeld == names[nFrames[1][1]] = nFrames[1][2]

\* Nothing the waiter could take for an acknowledgement is there or on its way.
NoAcknowledgement == nNotes \in Seq({<<"reject">>}) /\ (nAcked => nRejected)

\* The first half is on its way and unanswered, held, or not acknowledged; after
\* it, only the second is on its way.
RenameAckInv ==
    /\ nPhase # "idle" => nFrames[1][1] # nFrames[2][1]
    /\ (nPhase = "idle" /\ nOutcome = "none") \/ nPhase \in {"connect", "preflight"} =>
          nCmds = <<>> /\ nNotes = <<>>
    /\ nPhase = "await_ack" /\ nPart = 1 =>
          \/ nCmds = <<nFrames[1]>> /\ nNotes = <<>> /\ ~nAcked
          \/ nCmds = <<>> /\ NoAcknowledgement
          \/ nCmds = <<>> /\ FirstHeld
    /\ nPhase \in {"await_ack", "readback"} /\ nPart = 2 =>
          FirstHeld /\ nCmds \in Seq({nFrames[2]})

\* Nothing on its way is a sequence of anything.
LEMMA NothingUnderWay == \A S : <<>> \in Seq(S)
OBVIOUS

\* It holds initially: nothing was sent.
LEMMA RenameAckInit == Rename!Init => RenameAckInv
BY DEF Rename!Init, RenameAckInv

\* A half goes out: the first over an empty link, the second over a held first.
LEMMA RenameAckSend ==
    ASSUME RenameIInv, RenameAckInv, Rename!Send, nPart < 2,
           nPhase = "preflight" \/ (nPhase = "await_ack" /\ nAcked /\ ~nRejected)
    PROVE  RenameAckInv'
<1>1. nCmds = <<>> /\ nCmds' = <<nFrames[nPart + 1]>> /\ UNCHANGED <<names, nFrames, nNotes>>
      /\ nPhase' = "await_ack" /\ nPart' = nPart + 1 /\ nFrames[1][1] # nFrames[2][1]
  <2>1. nCmds = <<>>
    BY DEF RenameIInv, RenameAckInv, NoAcknowledgement, RenamePhaseInv, Rename!TypeOK
  <2> QED BY <2>1 DEF Rename!Send, RenameAckInv
<1>2. ~nAcked'
  BY Zenon DEF Rename!Send
<1>3. CASE nPhase = "preflight"
  <2>1. nPart = 0 /\ nNotes = <<>>
    BY <1>3 DEF RenameIInv, RenamePhaseInv, RenameAckInv
  <2> QED BY <1>1, <1>2, <2>1 DEF RenameAckInv
<1>4. CASE nPhase = "await_ack" /\ nAcked /\ ~nRejected
  <2>1. nPart = 1 /\ FirstHeld
    BY <1>4 DEF RenameIInv, RenameAckInv, NoAcknowledgement, RenamePhaseInv, Rename!TypeOK
  <2>2. nPart' = 2 /\ nCmds' \in Seq({nFrames[2]})
    BY <1>1, <2>1
  <2> QED BY <1>1, <2>1, <2>2 DEF RenameAckInv, FirstHeld
<1> QED BY <1>3, <1>4

\* The call is over, and its phase with it.
LEMMA RenameAckEnd ==
    ASSUME NEW verdict, verdict # "none", Rename!End(verdict)
    PROVE  RenameAckInv'
BY DEF Rename!End, RenameAckInv

\* What is handled of a link on which nothing acknowledges does not either.
LEMMA RenameAckHandle == ASSUME RenameIInv, RenameAckInv, Rename!Handle PROVE RenameAckInv'
<1>1. UNCHANGED <<names, nFrames, nPhase, nPart, nOutcome, nCmds>> /\ nNotes # <<>> /\ nNotes' = Tail(nNotes)
  BY DEF Rename!Handle
<1>2. ASSUME nPhase = "await_ack", NoAcknowledgement PROVE NoAcknowledgement'
  <2>1. nNotes' \in Seq({<<"reject">>}) /\ Head(nNotes) = <<"reject">>
    <3>1. nNotes' \in Seq({<<"reject">>}) /\ Head(nNotes) \in {<<"reject">>}
      BY <1>1, <1>2, HeadTailProperties DEF NoAcknowledgement
    <3> QED BY <3>1
  <2>2. nRejected'
    BY <1>2, <2>1, Zenon DEF Rename!Handle
  <2> QED BY <2>1, <2>2 DEF NoAcknowledgement
<1>3. FirstHeld' = FirstHeld
  BY <1>1 DEF FirstHeld
<1> QED BY <1>1, <1>2, <1>3 DEF RenameAckInv

\* The first half is taken or refused, the second leaves the first alone.
LEMMA RenameAckStore == ASSUME RenameIInv, RenameAckInv, Rename!Store PROVE RenameAckInv'
<1>1. UNCHANGED <<nFrames, nPhase, nPart, nAcked, nRejected, nOutcome, nUp>>
      /\ nCmds # <<>> /\ nCmds' = Tail(nCmds)
  BY DEF Rename!Store
<1>2. names' = [names EXCEPT ![Head(nCmds)[1]] = Head(nCmds)[2]]
      \/ (names' = names /\ nNotes' = Append(nNotes, <<"reject">>))
  BY DEF Rename!Store
<1>3. names \in [Halves -> Values] /\ nFrames[1][1] \in Halves /\ nFrames \in Rename!Pair
  BY RenameFramesTyped DEF RenameIInv, Rename!TypeOK, Rename!Configs
<1>4. CASE nPhase = "await_ack" /\ nPart = 1
  <2>1. nCmds = <<nFrames[1]>> /\ nNotes = <<>> /\ ~nAcked
    BY <1>1, <1>4 DEF RenameAckInv
  <2>2. nCmds' = <<>> /\ Head(nCmds) = nFrames[1]
    BY <1>1, <2>1
  <2>3. FirstHeld' \/ NoAcknowledgement'
    <3>1. CASE names' = [names EXCEPT ![Head(nCmds)[1]] = Head(nCmds)[2]]
      BY <3>1, <1>1, <1>3, <2>2 DEF FirstHeld
    <3>2. CASE nNotes' = Append(nNotes, <<"reject">>)
      BY <3>2, <1>1, <2>1 DEF NoAcknowledgement
    <3> QED BY <1>2, <3>1, <3>2
  <2> QED BY <1>1, <1>4, <2>2, <2>3 DEF RenameAckInv
<1>5. CASE nPhase \in {"await_ack", "readback"} /\ nPart = 2
  <2>1. FirstHeld /\ nCmds \in Seq({nFrames[2]}) /\ nFrames[1][1] # nFrames[2][1]
    BY <1>5 DEF RenameAckInv
  <2>2. nCmds' \in Seq({nFrames[2]}) /\ Head(nCmds) = nFrames[2]
    <3>1. nCmds' \in Seq({nFrames[2]}) /\ Head(nCmds) \in {nFrames[2]}
      BY <1>1, <2>1, HeadTailProperties
    <3> QED BY <3>1
  <2>3. FirstHeld'
    BY <1>1, <1>2, <1>3, <2>1, <2>2 DEF FirstHeld
  <2> QED BY <1>1, <1>5, <2>1, <2>2, <2>3 DEF RenameAckInv
<1>6. CASE nPhase = "idle"
  BY <1>1, <1>6 DEF RenameAckInv
<1> QED BY <1>1, <1>4, <1>5, <1>6 DEF RenameAckInv, RenameIInv, RenamePhaseInv, Rename!TypeOK

\* A drop takes what is under way with it.
LEMMA RenameAckDrops == ASSUME RenameIInv, RenameAckInv, Rename!LinkDrops PROVE RenameAckInv'
<1>1. UNCHANGED <<names, nFrames, nPhase, nPart, nAcked, nRejected, nOutcome>>
      /\ nCmds' = <<>> /\ nNotes' = <<>>
  BY DEF Rename!LinkDrops
<1> QED BY <1>1, NothingUnderWay DEF RenameAckInv, NoAcknowledgement, FirstHeld

\* The steps left move no half: the call, its readback, and others.
LEMMA RenameAckRest ==
    ASSUME RenameIInv, RenameAckInv,
           Rename!Begin \/ Rename!Open \/ Rename!Report \/ Rename!Interfere
             \/ (Rename!NextPart /\ ~Rename!Send)
    PROVE  RenameAckInv'
<1>1. CASE Rename!Begin
  BY <1>1 DEF Rename!Begin, RenameAckInv
<1>2. CASE Rename!Open
  BY <1>2 DEF Rename!Open, RenameAckInv
<1>3. CASE Rename!Report
  BY <1>3 DEF Rename!Report, RenameAckInv, FirstHeld
<1>4. CASE Rename!Interfere
  BY <1>4 DEF Rename!Interfere, RenameAckInv
<1>5. CASE Rename!NextPart /\ ~Rename!Send
  <2>1. nPhase = "await_ack" /\ nPart = 2 /\ nPhase' = "readback"
        /\ UNCHANGED <<names, nFrames, nPart, nCmds>>
    BY <1>5 DEF Rename!NextPart
  <2>2. FirstHeld /\ nCmds \in Seq({nFrames[2]}) /\ nFrames[1][1] # nFrames[2][1]
    BY <2>1 DEF RenameAckInv
  <2>3. FirstHeld' /\ nCmds' \in Seq({nFrames'[2]})
    BY <2>1, <2>2 DEF FirstHeld
  <2> QED BY <2>1, <2>2, <2>3 DEF RenameAckInv
<1> QED BY <1>1, <1>2, <1>3, <1>4, <1>5

\* Every step keeps it.
LEMMA RenameAckKeeps == RenameIInv /\ RenameAckInv /\ [Rename!Next]_(Rename!vars) => RenameAckInv'
<1> SUFFICES ASSUME RenameIInv, RenameAckInv, [Rename!Next]_(Rename!vars) PROVE RenameAckInv'
  OBVIOUS
<1>1. CASE UNCHANGED Rename!vars
  BY <1>1 DEF Rename!vars, RenameAckInv, FirstHeld, NoAcknowledgement
<1>2. CASE Rename!Preflight
  <2>1. CASE Rename!End("stale")
    BY <2>1, RenameAckEnd
  <2>2. CASE Rename!Send
    BY <1>2, <2>2, RenameAckSend DEF Rename!Preflight, RenameIInv, RenamePhaseInv
  <2> QED BY <1>2, <2>1, <2>2 DEF Rename!Preflight
<1>3. CASE Rename!NextPart
  <2>1. CASE Rename!Send
    BY <1>3, <2>1, RenameAckSend DEF Rename!NextPart, Rename!Send, RenameIInv, Rename!TypeOK
  <2> QED BY <1>3, <2>1, RenameAckRest
<1>4. CASE Rename!Rejected \/ Rename!Verify \/ Rename!Invalid \/ Rename!Fail \/ Rename!Cancel
  <2>1. PICK verdict \in {"confirmed", "invalid", "uncertain", "cancelled"} : Rename!End(verdict)
    BY <1>4 DEF Rename!Rejected, Rename!Verify, Rename!Invalid, Rename!Fail, Rename!Cancel
  <2> QED BY <2>1, RenameAckEnd
<1> QED BY <1>1, <1>2, <1>3, <1>4, RenameAckRest, RenameAckHandle, RenameAckStore, RenameAckDrops
        DEF Rename!Next

\* The second half of a rename goes out only to a controller that took the
\* first: the answers that could wake the waiter wrongly (a refusal, a duplicate,
\* an answer that comes late) never stand for one that was not given.
THEOREM SecondHalfOnFirst == Rename!Spec => []RenameSecondOnFirst
<1>1. RenameIInv /\ RenameAckInv => RenameSecondOnFirst
  BY DEF RenameIInv, RenamePhaseInv, RenameAckInv, FirstHeld, RenameSecondOnFirst,
         Rename!SecondOnFirst, Rename!TypeOK
<1> QED BY <1>1, RenameAckInit, RenameAckKeeps, RenameInvAlways, PTL DEF Rename!Spec

-----------------------------------------------------------------------------
(* The transaction implements VerifiedWrite, step by step.                 *)

\* A step that shows nothing of the call.
LEMMA RenameStutters ==
    ASSUME UNCHANGED <<names, Rename!call, nPhase, nOutcome, nRead, nSent>>
    PROVE  UNCHANGED Rename!Promise!vars
BY DEF Rename!Promise!vars

\* The call ends with nothing written, or is in doubt.
LEMMA RenameEndsUnconfirmed ==
    ASSUME RenameIInv, nPhase # "idle", NEW verdict \in {"stale", "invalid", "uncertain",
           "cancelled"}, Rename!End(verdict),
           nRead' = nRead, verdict = "stale" => nSent = 0
    PROVE  Rename!Promise!End
BY DEF Rename!End, Rename!Promise!End, RenameIInv, Rename!TypeOK

\* A half is written before anything was seen.
LEMMA RenameWritesUnseen ==
    ASSUME RenameIInv, nPhase \in {"preflight", "await_ack"}, Rename!Send
    PROVE  Rename!Promise!Write
<1>1. nSent' > 0 /\ nRead = {} /\ nOutcome = "none"
  BY DEF Rename!Send, RenameIInv, Rename!TypeOK, RenamePhaseInv
<1>2. UNCHANGED <<names, Rename!call, nOutcome, nRead>> /\ nPhase' = "await_ack"
  BY DEF Rename!Send
<1> QED BY <1>1, <1>2 DEF Rename!Promise!Write

\* write_station_name keeps the promise of VerifiedWrite: confirmed only when the
\* controller was seen to hold the expected names, refused only when nothing was
\* written.
THEOREM RenameRefinesVerifiedWrite == Rename!Spec => RenameKeepsPromise
<1>1. Rename!Init => Rename!Promise!Init
  BY DEF Rename!Init, Rename!Promise!Init
<1>2. RenameIInv /\ [Rename!Next]_(Rename!vars) => [Rename!Promise!Next]_(Rename!Promise!vars)
  <2> SUFFICES ASSUME RenameIInv, [Rename!Next]_(Rename!vars)
          PROVE UNCHANGED Rename!Promise!vars \/ Rename!Promise!Next
    OBVIOUS
  <2>1. CASE Rename!Begin
    <3>1. nRead = {} /\ nSent = 0 /\ nOutcome = "none" /\ nPhase = "idle" /\ nExpected' \in Rename!Configs
      BY <2>1 DEF Rename!Begin, RenameIInv, RenamePhaseInv
    <3>2. Rename!Promise!Start
      BY <2>1, <3>1 DEF Rename!Begin, Rename!Promise!Start
    <3> QED BY <3>2 DEF Rename!Promise!Next
  <2>2. CASE Rename!Open
    BY <2>2 DEF Rename!Open, Rename!Promise!vars
  <2>3. CASE Rename!Preflight
    <3>1. CASE Rename!End("stale") /\ UNCHANGED nRead
      BY <2>3, <3>1, RenameEndsUnconfirmed DEF Rename!Preflight, RenameIInv, RenamePhaseInv,
         Rename!Promise!Next
    <3>2. CASE Rename!Send
      BY <2>3, <3>2, RenameWritesUnseen DEF Rename!Preflight, Rename!Promise!Next
    <3> QED BY <2>3, <3>1, <3>2 DEF Rename!Preflight
  <2>4. CASE Rename!NextPart
    <3>1. CASE Rename!Send
      BY <2>4, <3>1, RenameWritesUnseen DEF Rename!NextPart, Rename!Promise!Next
    <3>2. CASE nPhase' = "readback" /\ UNCHANGED <<names, Rename!call, nOutcome, nRead, nSent>>
      BY <2>4, <3>2 DEF Rename!NextPart, Rename!Promise!vars
    <3> QED BY <2>4, <3>1, <3>2 DEF Rename!NextPart
  <2>5. CASE Rename!Rejected
    BY <2>5, RenameEndsUnconfirmed DEF Rename!Rejected, Rename!Promise!Next
  <2>6. CASE Rename!Verify
    <3>1. CASE nRead = {nExpected}
      BY <2>6, <3>1 DEF Rename!Verify, Rename!End, Rename!Promise!End, Rename!Promise!Next
    <3>2. CASE nRead # {nExpected}
      BY <2>6, <3>2, RenameEndsUnconfirmed DEF Rename!Verify, Rename!Promise!Next
    <3> QED BY <3>1, <3>2
  <2>7. CASE Rename!Invalid
    BY <2>7, RenameEndsUnconfirmed DEF Rename!Invalid, Rename!Promise!Next
  <2>8. CASE Rename!Fail
    BY <2>8, RenameEndsUnconfirmed DEF Rename!Fail, Rename!Promise!Next
  <2>9. CASE Rename!Cancel
    BY <2>9, RenameEndsUnconfirmed DEF Rename!Cancel, Rename!Promise!Next
  <2>10. CASE Rename!Handle
    BY <2>10, RenameStutters DEF Rename!Handle
  <2>11. CASE Rename!Store
    <3>1. RenameIInv'
      BY <2>11, RenameStoreKeeps
    <3>2. nPhase = "idle" \/ nRead = {}
      BY <2>11 DEF Rename!Store, RenameIInv, RenamePhaseInv
    <3> QED BY <2>11, <3>1, <3>2 DEF Rename!Store, RenameIInv, Rename!TypeOK, Rename!Promise!Change,
       Rename!Promise!Next
  <2>12. CASE Rename!Report
    BY <2>12 DEF Rename!Report, Rename!Promise!See, Rename!Promise!vars, Rename!Promise!Next
  <2>13. CASE Rename!LinkDrops
    BY <2>13, RenameStutters DEF Rename!LinkDrops
  <2>14. CASE Rename!Interfere
    BY <2>14 DEF Rename!Interfere, RenameIInv, RenamePhaseInv, Rename!Promise!Change,
       Rename!Promise!Next
  <2>15. CASE UNCHANGED Rename!vars
    BY <2>15, RenameStutters DEF Rename!vars
  <2> QED BY <2>1, <2>2, <2>3, <2>4, <2>5, <2>6, <2>7, <2>8, <2>9, <2>10,
         <2>11, <2>12, <2>13, <2>14, <2>15 DEF Rename!Next
<1> QED BY <1>1, <1>2, RenameInvAlways, PTL DEF Rename!Spec, RenameKeepsPromise, Rename!KeepsPromise,
         Rename!Promise!Spec

-----------------------------------------------------------------------------
(* Side by side.                                                           *)

\* A step of the one leaves the other's state alone, so that each behaviour is
\* one of either transaction.
LEMMA EachAlone == WritesSpec => Spec /\ Rename!Spec
<1>1. WritesInit => Init /\ Rename!Init
  BY DEF WritesInit
<1>2. [WritesNext]_<<transaction, vars, renameVars>> => [Next]_vars
  <2> SUFFICES ASSUME WritesNext PROVE [Next]_vars
    BY DEF vars, renameVars
  <2> QED BY DEF WritesNext, Transfers, Renames, Next
<1>3. [WritesNext]_<<transaction, vars, renameVars>> => [Rename!Next]_(Rename!vars)
  <2>1. UNCHANGED renameVars => UNCHANGED Rename!vars
    BY DEF renameVars, Rename!vars
  <2> SUFFICES ASSUME WritesNext PROVE [Rename!Next]_(Rename!vars)
    BY <2>1
  <2> QED BY <2>1 DEF WritesNext, Transfers, Renames, Rename!Next
<1> QED BY <1>1, <1>2, <1>3, PTL DEF WritesSpec, Spec, Rename!Spec

\* Whichever of the two a client calls, the types hold, the halves of a rename
\* go out one on the other, and the call keeps the promise of VerifiedWrite.
THEOREM BothKeepTheirPromises ==
    WritesSpec => []TypeOK /\ []RenameTypeOK /\ []RenameSecondOnFirst /\ KeepsPromise /\ RenameKeepsPromise
BY EachAlone, TypeCorrect, RenameTypeCorrect, SecondHalfOnFirst, RefinesVerifiedWrite,
   RenameRefinesVerifiedWrite, PTL

\* The same for the three subjects of HeldLink.
LEMMA LinkWrites == LinkSpec => WritesSpec
<1>1. LinkInit => WritesInit
  BY DEF LinkInit
<1>2. [LinkNext]_<<subject, writeVars, routingVars, storeVars>>
          => [WritesNext]_<<transaction, vars, renameVars>>
  BY DEF LinkNext, Writes, Routes, Stores, writeVars
<1> QED BY <1>1, <1>2, PTL DEF LinkSpec, WritesSpec

LEMMA LinkRoutes == LinkSpec => Routing!Spec
<1>1. LinkInit => Routing!Init
  BY DEF LinkInit
<1>2. [LinkNext]_<<subject, writeVars, routingVars, storeVars>> => [Routing!Next]_(Routing!vars)
  <2>1. UNCHANGED routingVars => UNCHANGED Routing!vars
    BY DEF routingVars, Routing!vars, Routing!session, Routing!call, Routing!seen
  <2> SUFFICES ASSUME LinkNext PROVE [Routing!Next]_(Routing!vars)
    BY <2>1
  <2> QED BY <2>1 DEF LinkNext, Writes, Routes, Stores, Routing!Next
<1> QED BY <1>1, <1>2, PTL DEF LinkSpec, Routing!Spec

LEMMA LinkStores == LinkSpec => Calls!Spec
<1>1. LinkInit => Calls!Init
  BY DEF LinkInit
<1>2. [LinkNext]_<<subject, writeVars, routingVars, storeVars>> => [Calls!Next]_(Calls!vars)
  <2>1. UNCHANGED storeVars => UNCHANGED Calls!vars
    BY DEF storeVars, Calls!vars, Calls!device, Calls!operation
  <2> SUFFICES ASSUME LinkNext PROVE [Calls!Next]_(Calls!vars)
    BY <2>1
  <2> QED BY <2>1 DEF LinkNext, Writes, Routes, Stores, AllEnded, Calls!Next
<1> QED BY <1>1, <1>2, PTL DEF LinkSpec, Calls!Spec

-----------------------------------------------------------------------------
(* What NotifyDispatchProofs and ProgramStoreProofs prove, of HeldLink.     *)

\* The types of the routing.
THEOREM RoutingTypeCorrect == LinkSpec => []RoutingTypeOK
BY LinkRoutes, Routing!TypeCorrect, DelaysAssumption, PTL DEF RoutingTypeOK

\* Whatever arrives when, an operation is given no frame that another one
\* caused less than a settle delay ago.
THEOREM StragglersDropped == LinkSpec => []StragglersStayOut
BY LinkRoutes, Routing!StragglersAreDropped, DelaysAssumption, PTL DEF StragglersStayOut

\* The straggler window never drops a frame of the operation that waits.
THEOREM NoFrameLost == LinkSpec => []NoFrameMissed
BY LinkRoutes, Routing!WindowCostsNothing, DelaysAssumption, PTL DEF NoFrameMissed

\* A subscribed link is never subscribed again.
THEOREM SubscribesOnce == LinkSpec => []SubscribedOnce
BY LinkRoutes, Routing!OneSubscription, DelaysAssumption, PTL DEF SubscribedOnce

\* The types of the program calls, and who runs.
THEOREM StoreTypeCorrect == LinkSpec => []StoreTypeOK
BY LinkStores, Calls!TypeCorrect, StoreAssumption, AttemptsAssumption, ChangesAssumption,
   PTL DEF StoreTypeOK

\* A read returns what the controller held when it answered.
THEOREM ReadsTrue == LinkSpec => []ReadTrue
BY LinkStores, Calls!ReadsTrue, StoreAssumption, AttemptsAssumption, ChangesAssumption,
   PTL DEF ReadTrue

\* A set that returns normally was in force, whole, at one moment of its call.
THEOREM SetsVerified == LinkSpec => []SetVerified
BY LinkStores, Calls!SetsVerified, StoreAssumption, AttemptsAssumption, ChangesAssumption,
   PTL DEF SetVerified

\* Setters of one program who were all told it is done leave no mixture.
THEOREM MixturesNoticed == LinkSpec => []MixtureNoticed
BY LinkStores, Calls!MixturesNoticed, StoreAssumption, AttemptsAssumption, ChangesAssumption,
   PTL DEF MixtureNoticed

\* And the two transactions keep their promises.
THEOREM LinkKeepsPromises == LinkSpec => KeepsPromise /\ RenameKeepsPromise
BY LinkWrites, BothKeepTheirPromises, PTL
=============================================================================
