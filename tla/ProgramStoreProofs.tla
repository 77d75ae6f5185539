------------------------- MODULE ProgramStoreProofs -------------------------
(***************************************************************************)
(* Proofs about ProgramStore, for any number of callers, programs, chunks, *)
(* attempts and changes by others.                                         *)
(*                                                                         *)
(* The heart is Reassembly: fragments of one response that the program's   *)
(* own test calls complete are all of it, and give back what was sent.     *)
(* The invariant then needs only that a read collects fragments of one     *)
(* response, and that none is left on the air when the read is over.       *)
(***************************************************************************)
EXTENDS ProgramStore, FiniteSetTheorems, WellFoundedInduction, TLAPS

-----------------------------------------------------------------------------
(* The inductive invariant.                                                *)

Holding == {"running", "reading"}

\* The calls are what they were at first.
CallsOK == call \in [Callers -> Kinds]

\* While a read is under way the controller keeps what it answered, and all its
\* fragments, collected or on their way, are of that answer, each in one place.
\* Otherwise no fragment of a read is on its way.
ReadInv ==
    /\ \A c \in Callers : pc[c] = "reading" =>
          /\ link /\ answered = {config} /\ payloads \subseteq Response(config)
          /\ payloads \cap notes = {}
          /\ \A f \in notes : f.op = "read" => f \in Response(config)
    /\ (\A c \in Callers : pc[c] # "reading") => \A f \in notes : f.op # "read"

\* A call that is done has a result, which is true and, of a set, its own.
ResultInv ==
    /\ result \in [Callers -> SUBSET (Configs \X Configs)]
    /\ ReadTrue
    /\ \A c \in Callers : pc[c] = "done" =>
          /\ result[c] # {}
          /\ call[c][1] = "set" => \A r \in result[c], k \in Chunks : r[2][call[c][2]][k] = c

IInv == TypeOK /\ CallsOK /\ ReadInv /\ ResultInv /\ MixtureNoticed

USE DEF device, operation

-----------------------------------------------------------------------------
(* The response and its fragments.                                         *)

\* A set of natural numbers has a least one; one of integers with a bound has a
\* greatest, which Max chooses.
LEMMA Least ==
    ASSUME NEW T, T \subseteq Nat, T # {}
    PROVE  \E x \in T : \A y \in T : x <= y
<1> DEFINE R == OpToRel(<, Nat)
<1>1. \E x \in T : \A y \in T : <<y, x>> \notin R
  <2>1. IsWellFoundedOn(R, Nat)
    BY NatLessThanWellFounded
  <2> HIDE DEF R
  <2> QED BY <2>1, WFMin
<1>2. ASSUME NEW x \in T, NEW y \in T, <<y, x>> \notin R
      PROVE  x <= y
  <2>1. x \in Nat /\ y \in Nat /\ ~(y < x)
    BY <1>2 DEF OpToRel
  <2> QED BY <2>1, SMT
<1> QED BY <1>1, <1>2

LEMMA Greatest ==
    ASSUME NEW b \in Int, NEW T, T \subseteq Int, T # {}, \A x \in T : x <= b
    PROVE  Max(T) \in T /\ \A y \in T : Max(T) >= y
<1> DEFINE D == {b - x : x \in T}
<1>1. \A x \in T : b - x \in Nat
  BY SMT
<1>2. D \subseteq Nat /\ D # {}
  BY <1>1
<1>3. PICK d \in D : \A y \in D : d <= y
  BY <1>2, Least
<1>4. PICK m \in T : d = b - m
  OBVIOUS
<1>5. \A y \in T : m >= y
  <2> SUFFICES ASSUME NEW y \in T PROVE m >= y
    OBVIOUS
  <2>1. d <= b - y /\ y \in Int /\ m \in Int
    BY <1>3
  <2> QED BY <1>4, <2>1, SMT
<1> QED BY <1>5 DEF Max

\* The number of the first fragment of a program.
Base(p) == (ProgramCount - p) * ChunkCount - 1

LEMMA Ids ==
    ASSUME NEW p \in Programs
    PROVE  Base(p) \in Int /\ \A k \in Chunks : Id(p, k) = Base(p) - k
<1>1. p \in Int /\ ChunkCount \in Nat /\ ProgramCount \in Nat
  BY StoreAssumption DEF Programs
<1>2. (ProgramCount - p) * ChunkCount \in Int
  BY <1>1, SMT
<1> QED BY <1>2 DEF Base, Id

\* Fragments of one response that are complete are the whole response, and what
\* is assembled from them is what the controller held.
LEMMA Reassembly ==
    ASSUME NEW held \in Configs, NEW frags, frags \subseteq Response(held), Complete(frags)
    PROVE  frags = Response(held) /\ Assembled(frags) = held
<1>1. ASSUME NEW f \in frags
      PROVE  /\ f.op = "read" /\ f.program \in Programs
             /\ \E k \in Chunks : f = [op |-> "read", program |-> f.program,
                                       id |-> Base(f.program) - k, value |-> held[f.program][k]]
  <2>1. PICK p \in Programs, k \in Chunks :
           f = [op |-> "read", program |-> p, id |-> Id(p, k), value |-> held[p][k]]
    BY <1>1 DEF Response
  <2>2. f.op = "read" /\ f.program = p /\ Id(p, k) = Base(p) - k
    BY <2>1, Ids
  <2> QED BY <2>1, <2>2
<1>2. ASSUME NEW p \in Programs
      PROVE  /\ First(Of(p, frags)) = Base(p)
             /\ \A k \in Chunks : [op |-> "read", program |-> p, id |-> Id(p, k), value |-> held[p][k]]
                                     \in frags
  <2> DEFINE own == Of(p, frags)
             ids == {f.id : f \in own}
  <2>1. own # {} /\ Chunks \subseteq {First(own) - f.id : f \in own}
    BY DEF Complete
  <2>2. \A f \in own : f \in frags /\ f.program = p
    BY DEF Of
  <2>3. Base(p) \in Int /\ ChunkCount \in Nat \ {0}
    BY Ids, StoreAssumption
  <2>4. \A f \in own : \E k \in Chunks :
           f = [op |-> "read", program |-> p, id |-> Base(p) - k, value |-> held[p][k]]
    BY <1>1, <2>2
  <2> HIDE DEF own
  <2>5. \A f \in own : f.id \in Int /\ f.id <= Base(p) /\ f.id >= Base(p) - (ChunkCount - 1)
    <3> SUFFICES ASSUME NEW f \in own
                 PROVE  f.id \in Int /\ f.id <= Base(p) /\ f.id >= Base(p) - (ChunkCount - 1)
      OBVIOUS
    <3>1. PICK k \in Chunks : f.id = Base(p) - k
      BY <2>4
    <3> QED BY <2>3, <3>1, SMT DEF Chunks
  <2>6. ids \subseteq Int /\ ids # {} /\ \A x \in ids : x <= Base(p)
    BY <2>1, <2>5
  <2>7. Max(ids) \in ids
    BY <2>3, <2>6, Greatest
  <2>8. First(own) \in Int /\ First(own) <= Base(p)
    BY <2>6, <2>7 DEF First
  <2>9. First(own) = Base(p)
    <3>1. ChunkCount - 1 \in Chunks
      BY <2>3, SMT DEF Chunks
    <3>2. PICK f \in own : First(own) - f.id = ChunkCount - 1
      BY <2>1, <3>1
    <3> QED BY <2>3, <2>5, <2>8, <3>2, SMT
  <2>10. ASSUME NEW k \in Chunks
         PROVE  [op |-> "read", program |-> p, id |-> Id(p, k), value |-> held[p][k]] \in frags
    <3>1. PICK f \in own : First(own) - f.id = k
      BY <2>1
    <3>2. PICK j \in Chunks : f = [op |-> "read", program |-> p, id |-> Base(p) - j, value |-> held[p][j]]
      BY <2>4
    <3>3. f.id = Base(p) - j
      BY <3>2
    <3>4. j = k
      BY <2>3, <2>9, <3>1, <3>3, SMT DEF Chunks
    <3>5. Id(p, k) = Base(p) - k
      BY Ids
    <3> QED BY <2>2, <3>2, <3>4, <3>5
  <2> QED BY <2>9, <2>10 DEF own
<1>3. frags = Response(held)
  BY <1>2 DEF Response
<1>4. ASSUME NEW p \in Programs, NEW k \in Chunks
      PROVE  Assembled(frags)[p][k] = held[p][k]
  <2> DEFINE own == Of(p, frags)
             hits == {f \in own : First(own) - f.id = k}
             whole == [op |-> "read", program |-> p, id |-> Id(p, k), value |-> held[p][k]]
  <2>1. Assembled(frags)[p][k] = IF hits = {} THEN Factory ELSE (CHOOSE f \in hits : TRUE).value
    BY DEF Assembled
  <2>2. First(own) = Base(p) /\ Base(p) \in Int /\ Id(p, k) = Base(p) - k /\ k \in Int
    BY <1>2, Ids DEF Chunks
  <2>3. whole \in hits
    <3>1. whole \in own
      BY <1>2 DEF Of
    <3>2. Base(p) - whole.id = k
      BY <2>2, SMT
    <3> QED BY <2>2, <3>1, <3>2
  <2>4. \A f \in hits : f.value = held[p][k]
    <3> SUFFICES ASSUME NEW f \in hits PROVE f.value = held[p][k]
      OBVIOUS
    <3>1. f \in frags /\ f.program = p /\ Base(p) - f.id = k
      BY <2>2 DEF Of
    <3>2. PICK j \in Chunks : f = [op |-> "read", program |-> p, id |-> Base(p) - j, value |-> held[p][j]]
      BY <1>1, <3>1
    <3>3. f.id = Base(p) - j /\ f.value = held[p][j] /\ j \in Int
      BY <3>2 DEF Chunks
    <3>4. j = k
      BY <2>2, <3>1, <3>3, SMT
    <3> QED BY <3>3, <3>4
  <2> HIDE DEF hits
  <2>5. (CHOOSE f \in hits : TRUE) \in hits
    BY <2>3
  <2> QED BY <2>1, <2>3, <2>4, <2>5
<1>5. Assembled(frags) = held
  <2>1. Assembled(frags) = [p \in Programs |-> [k \in Chunks |-> Assembled(frags)[p][k]]]
    BY DEF Assembled
  <2>2. held = [p \in Programs |-> [k \in Chunks |-> held[p][k]]]
    BY DEF Configs
  <2> QED BY <1>4, <2>1, <2>2
<1> QED BY <1>3, <1>5

-----------------------------------------------------------------------------
(* Types.                                                                  *)

\* Who runs holds the lock, and nobody else runs.
LEMMA OneRuns ==
    ASSUME TypeOK, NEW c \in Callers, owner = c
    PROVE  /\ pc[c] \in Holding
           /\ \A d \in Callers \ {c} : pc[d] \notin Holding
BY Zenon DEF TypeOK, Holding

LEMMA NoneRuns ==
    ASSUME TypeOK, owner = Nobody
    PROVE  \A d \in Callers : pc[d] \notin Holding
BY StoreAssumption DEF TypeOK, Holding

\* A frame changes one chunk of the program of its call.
LEMMA StoreEffect ==
    ASSUME TypeOK, CallsOK, NEW c \in Callers, Writes(c), Store(c)
    PROVE  /\ config' \in Configs
           /\ call[c][2] \in Programs /\ call[c] = <<"set", call[c][2]>>
           /\ \A q \in Programs \ {call[c][2]} : config'[q] = config[q]
<1>1. call[c][1] = "set" /\ frame[c] < ChunkCount /\ frame[c] \in 0 .. ChunkCount
  BY DEF Writes, TypeOK
<1>2. PICK p \in Programs : call[c] = <<"set", p>>
  BY <1>1 DEF CallsOK, Kinds
<1>3. call[c][2] = p
  BY <1>2
<1>4. frame[c] \in Chunks /\ c \in Contents /\ config \in [Programs -> [Chunks -> Contents]]
  BY <1>1, StoreAssumption, SMT DEF Chunks, Contents, TypeOK, Configs
<1>5. config' = [config EXCEPT ![p] = [config[p] EXCEPT ![frame[c]] = c]]
  BY <1>3 DEF Store
<1>6. [config[p] EXCEPT ![frame[c]] = c] \in [Chunks -> Contents]
  BY <1>4
<1>7. config' \in Configs
  BY <1>4, <1>5, <1>6 DEF Configs
<1> QED BY <1>2, <1>3, <1>4, <1>5, <1>7

LEMMA TypesKept ==
    ASSUME TypeOK, CallsOK, [Next]_vars
    PROVE  TypeOK' /\ CallsOK'
<1> DEFINE States == {"idle", "queued", "running", "reading"} \cup Verdicts
<1>1. /\ config \in Configs /\ link \in BOOLEAN /\ changes \in 0 .. MaxChanges
      /\ owner \in Callers \cup {Nobody} /\ attempt \in 0 .. MaxAttempts
      /\ pc \in [Callers -> States] /\ frame \in [Callers -> 0 .. ChunkCount]
      /\ \A c \in Callers : pc[c] \in Holding <=> owner = c
      /\ owner = Nobody => payloads = {} /\ attempt = 0
      /\ ~link => notes = {}
  BY Zenon DEF TypeOK, Holding
<1>2. CallsOK'
  <2>1. call' = call
    BY Zenon DEF Next, vars, Call, Acquire, WriteFrame, Request, Handle, Finish, Connect, Retry, Fail,
       Cancel, Lose, IdleRelease, Interfere
  <2> QED BY <2>1, Zenon DEF CallsOK
<1>3. ASSUME config' \in Configs, link' \in BOOLEAN, changes' \in 0 .. MaxChanges,
             owner' \in Callers \cup {Nobody}, attempt' \in 0 .. MaxAttempts,
             pc' \in [Callers -> States], frame' \in [Callers -> 0 .. ChunkCount],
             \A c \in Callers : pc'[c] \in Holding <=> owner' = c,
             owner' = Nobody => payloads' = {} /\ attempt' = 0,
             ~link' => notes' = {}
      PROVE  TypeOK'
  BY <1>3, Zenon DEF TypeOK, Holding
<1>4. \A s \in {"idle", "queued", "running", "reading", "done", "mismatch", "failed"} : s \in States
  BY DEF Verdicts
<1> HIDE DEF States
<1>5. /\ 1 \in 0 .. MaxAttempts /\ 0 \in 0 .. MaxAttempts
      /\ TRUE \in BOOLEAN /\ FALSE \in BOOLEAN /\ Nobody \notin Callers
  BY StoreAssumption, AttemptsAssumption
\* A step that is no caller's leaves the lock and the program counters alone.
<1>6. ASSUME UNCHANGED <<owner, attempt, payloads, pc, frame>>
       PROVE  /\ owner' \in Callers \cup {Nobody} /\ attempt' \in 0 .. MaxAttempts
              /\ pc' \in [Callers -> States] /\ frame' \in [Callers -> 0 .. ChunkCount]
              /\ \A c \in Callers : pc'[c] \in Holding <=> owner' = c
              /\ owner' = Nobody => payloads' = {} /\ attempt' = 0
  <2>1. owner' = owner /\ attempt' = attempt /\ payloads' = payloads /\ pc' = pc /\ frame' = frame
    BY <1>6
  <2> QED BY <1>1, <2>1
\* A step of caller c sets its pc, and gives it the lock or takes it from it.
<1>7. ASSUME NEW c \in Callers, NEW s \in States, pc' = [pc EXCEPT ![c] = s],
             \/ owner' = owner /\ (s \in Holding <=> owner = c)
             \/ owner' = c /\ owner \in {c, Nobody} /\ s \in Holding
             \/ owner' = Nobody /\ owner = c /\ s \notin Holding
      PROVE  /\ pc' \in [Callers -> States] /\ owner' \in Callers \cup {Nobody}
             /\ \A d \in Callers : pc'[d] \in Holding <=> owner' = d
  <2>1. pc' \in [Callers -> States] /\ owner' \in Callers \cup {Nobody}
    BY <1>1, <1>7
  <2>2. pc'[c] = s /\ \A d \in Callers \ {c} : pc'[d] = pc[d]
    BY <1>1, <1>7
  <2>3. ASSUME NEW d \in Callers PROVE pc'[d] \in Holding <=> owner' = d
    <3>1. CASE d = c
      BY <1>5, <1>7, <2>2, <3>1
    <3>2. CASE d # c
      BY <1>1, <1>5, <1>7, <2>2, <3>2
    <3> QED BY <3>1, <3>2
  <2> QED BY <2>1, <2>3
<1>8. ASSUME NEW c \in Callers, Call(c) \/ Cancel(c)
      PROVE  TypeOK'
  <2>1. /\ pc[c] \in {"idle", "queued"}
        /\ \E s \in {"queued", "failed"} : pc' = [pc EXCEPT ![c] = s]
        /\ UNCHANGED <<config, link, notes, changes, owner, attempt, payloads, frame>>
    BY <1>8 DEF Call, Cancel
  <2>2. pc[c] \notin Holding /\ owner # c
    BY <1>1, <2>1 DEF Holding
  <2>3. \A s \in {"queued", "failed"} : s \in States /\ s \notin Holding
    BY <1>4 DEF Holding
  <2>4. /\ pc' \in [Callers -> States] /\ owner' \in Callers \cup {Nobody}
        /\ \A d \in Callers : pc'[d] \in Holding <=> owner' = d
    BY <1>7, <2>1, <2>2, <2>3
  <2> QED BY <1>1, <1>3, <2>1, <2>4, Zenon
<1>9. ASSUME NEW c \in Callers, Acquire(c)
      PROVE  TypeOK'
  <2>1. /\ owner = Nobody /\ owner' = c /\ attempt' = 1 /\ pc' = [pc EXCEPT ![c] = "running"]
        /\ UNCHANGED <<config, link, notes, changes, payloads, frame>>
    BY <1>9, Zenon DEF Acquire
  <2>2. /\ pc' \in [Callers -> States] /\ owner' \in Callers \cup {Nobody}
        /\ \A d \in Callers : pc'[d] \in Holding <=> owner' = d
    BY <1>4, <1>7, <2>1 DEF Holding
  <2>3. owner' # Nobody
    BY <1>5, <2>1
  <2> QED BY <1>1, <1>3, <1>5, <2>1, <2>2, <2>3, Zenon
<1>10. ASSUME NEW c \in Callers, Connect(c)
      PROVE  TypeOK'
  <2>1. /\ link' = TRUE
        /\ UNCHANGED <<config, changes, owner, attempt, payloads, frame, pc>>
    BY <1>10, Zenon DEF Connect
  <2> QED BY <1>1, <1>3, <2>1, Zenon
<1>11. ASSUME NEW c \in Callers, WriteFrame(c)
       PROVE  TypeOK'
  <2>1. /\ owner = c /\ Writes(c) /\ link /\ Store(c) /\ pc' = [pc EXCEPT ![c] = "queued"]
        /\ owner' = Nobody /\ attempt' = 0 /\ payloads' = {}
        /\ frame' = [frame EXCEPT ![c] = frame[c] + 1]
        /\ UNCHANGED <<link, changes>>
    BY <1>11, Zenon DEF WriteFrame, Release
  <2>2. /\ pc' \in [Callers -> States] /\ owner' \in Callers \cup {Nobody}
        /\ \A d \in Callers : pc'[d] \in Holding <=> owner' = d
    BY <1>4, <1>7, <2>1 DEF Holding
  <2>3. frame' \in [Callers -> 0 .. ChunkCount]
    <3>1. frame[c] + 1 \in 0 .. ChunkCount
      BY <1>1, <2>1, StoreAssumption, SMT DEF Writes
    <3> QED BY <1>1, <2>1, <3>1
  <2>4. config' \in Configs
    BY <2>1, StoreEffect
  <2>5. link'
    BY <2>1, Zenon
  <2> QED BY <1>1, <1>3, <1>5, <2>1, <2>2, <2>3, <2>4, <2>5, Zenon
<1>12. ASSUME NEW c \in Callers, Request(c)
       PROVE  TypeOK'
  <2>1. /\ owner = c /\ link /\ pc' = [pc EXCEPT ![c] = "reading"]
        /\ UNCHANGED <<config, link, changes, owner, attempt, frame>>
    BY <1>12, Zenon DEF Request
  <2>2. /\ pc' \in [Callers -> States] /\ owner' \in Callers \cup {Nobody}
        /\ \A d \in Callers : pc'[d] \in Holding <=> owner' = d
    BY <1>4, <1>7, <2>1 DEF Holding
  <2>3. link' /\ owner' # Nobody
    BY <1>5, <2>1, Zenon
  <2> QED BY <1>1, <1>3, <2>1, <2>2, <2>3, Zenon
<1>13. ASSUME NEW c \in Callers, Handle(c)
       PROVE  TypeOK'
  <2>1. /\ owner = c /\ UNCHANGED <<config, link, changes, owner, attempt, pc, frame>>
        /\ \E f \in notes : notes' = notes \ {f}
    BY <1>13, Zenon DEF Handle
  <2>2. owner' # Nobody /\ (~link' => notes' = {})
    BY <1>1, <1>5, <2>1
  <2> QED BY <1>1, <1>3, <2>1, <2>2, Zenon
<1>14. ASSUME NEW c \in Callers, Finish(c)
       PROVE  TypeOK'
  <2>1. /\ owner = c /\ \E s \in {"mismatch", "done"} : pc' = [pc EXCEPT ![c] = s]
        /\ owner' = Nobody /\ attempt' = 0 /\ payloads' = {}
        /\ UNCHANGED <<config, link, notes, changes, frame>>
    BY <1>14, Zenon DEF Finish, Release
  <2>2. \A s \in {"mismatch", "done"} : s \in States /\ s \notin Holding
    BY <1>4 DEF Holding
  <2>3. /\ pc' \in [Callers -> States] /\ owner' \in Callers \cup {Nobody}
        /\ \A d \in Callers : pc'[d] \in Holding <=> owner' = d
    BY <1>7, <2>1, <2>2
  <2> QED BY <1>1, <1>3, <1>5, <2>1, <2>3, Zenon
<1>15. ASSUME NEW c \in Callers, StoredOrNot(c)
       PROVE  config' \in Configs
  <2>1. (Writes(c) /\ Store(c)) \/ config' = config
    BY <1>15, Zenon DEF StoredOrNot
  <2> QED BY <1>1, <2>1, StoreEffect
<1>16. ASSUME NEW c \in Callers, Retry(c)
       PROVE  TypeOK'
  <2>1. /\ owner = c /\ StoredOrNot(c) /\ link' = FALSE /\ notes' = {}
        /\ attempt < MaxAttempts /\ attempt' = attempt + 1 /\ pc' = [pc EXCEPT ![c] = "running"]
        /\ UNCHANGED <<changes, owner, frame>>
    BY <1>16, Zenon DEF Retry, Drop
  <2>2. /\ pc' \in [Callers -> States] /\ owner' \in Callers \cup {Nobody}
        /\ \A d \in Callers : pc'[d] \in Holding <=> owner' = d
    BY <1>4, <1>7, <2>1 DEF Holding
  <2>3. attempt' \in 0 .. MaxAttempts
    BY <1>1, <2>1, AttemptsAssumption, SMT
  <2>4. owner' # Nobody
    BY <1>5, <2>1
  <2> QED BY <1>1, <1>3, <1>5, <1>15, <2>1, <2>2, <2>3, <2>4, Zenon
<1>17. ASSUME NEW c \in Callers, Fail(c)
       PROVE  TypeOK'
  <2>1. /\ owner = c /\ StoredOrNot(c) /\ link' = FALSE /\ notes' = {}
        /\ pc' = [pc EXCEPT ![c] = "failed"]
        /\ owner' = Nobody /\ attempt' = 0 /\ payloads' = {}
        /\ UNCHANGED <<changes, frame>>
    BY <1>17, Zenon DEF Fail, Drop, Release
  <2>2. /\ pc' \in [Callers -> States] /\ owner' \in Callers \cup {Nobody}
        /\ \A d \in Callers : pc'[d] \in Holding <=> owner' = d
    BY <1>4, <1>7, <2>1 DEF Holding
  <2> QED BY <1>1, <1>3, <1>5, <1>15, <2>1, <2>2, Zenon
<1>18. CASE Lose
  <2>1. /\ UNCHANGED <<config, link, changes, owner, attempt, payloads, pc, frame>>
        /\ \E f \in notes : notes' = notes \ {f}
    BY <1>18, Zenon DEF Lose
  <2>2. ~link' => notes' = {}
    BY <1>1, <2>1
  <2>3. UNCHANGED <<config, link, changes>> /\ UNCHANGED <<owner, attempt, payloads, pc, frame>>
    BY <2>1
  <2> QED BY <1>1, <1>2, <1>3, <1>6, <2>2, <2>3
<1>19. CASE IdleRelease
  <2>1. /\ link' = FALSE /\ notes' = {}
        /\ UNCHANGED <<config, changes, owner, attempt, payloads, pc, frame>>
    BY <1>19, Zenon DEF IdleRelease, Drop
  <2>2. UNCHANGED <<config, changes>> /\ UNCHANGED <<owner, attempt, payloads, pc, frame>>
    BY <2>1
  <2> QED BY <1>1, <1>2, <1>3, <1>5, <1>6, <2>1, <2>2
<1>20. CASE Interfere
  <2>1. /\ changes < MaxChanges /\ changes' = changes + 1
        /\ UNCHANGED <<link, notes, owner, attempt, payloads, pc, frame>>
    BY <1>20, Zenon DEF Interfere
  <2>2. changes' \in 0 .. MaxChanges
    BY <1>1, <2>1, ChangesAssumption, SMT
  <2>3. config' \in Configs
    <3>1. PICK p \in Programs, k \in Chunks : config' = [config EXCEPT ![p] = [config[p] EXCEPT ![k] = Factory]]
      BY <1>20 DEF Interfere
    <3>2. config \in [Programs -> [Chunks -> Contents]] /\ Factory \in Contents
      BY <1>1 DEF Configs, Contents
    <3>3. [config[p] EXCEPT ![k] = Factory] \in [Chunks -> Contents]
      BY <3>2
    <3> QED BY <3>1, <3>2, <3>3 DEF Configs
  <2>4. UNCHANGED <<link, notes>> /\ UNCHANGED <<owner, attempt, payloads, pc, frame>>
    BY <2>1
  <2> QED BY <1>1, <1>2, <1>3, <1>6, <2>2, <2>3, <2>4
<1>21. CASE UNCHANGED vars
  <2>1. UNCHANGED <<config, link, notes, changes>> /\ UNCHANGED <<owner, attempt, payloads, pc, frame>>
    BY <1>21, Zenon DEF vars
  <2> QED BY <1>1, <1>2, <1>3, <1>6, <2>1
<1> QED BY <1>2, <1>8, <1>9, <1>10, <1>11, <1>12, <1>13, <1>14, <1>16, <1>17, <1>18, <1>19, <1>20, <1>21,
           Zenon DEF Next

-----------------------------------------------------------------------------
(* Reads.                                                                  *)

\* When a read is over, its fragments are the whole answer: none is left on the
\* air, and what it returns is what the controller held.
LEMMA ReadOver ==
    ASSUME TypeOK, ReadInv, NEW c \in Callers, Finish(c)
    PROVE  /\ Assembled(payloads) = config /\ answered = {config}
           /\ \A f \in notes : f.op # "read"
<1>1. pc[c] = "reading" /\ Complete(payloads) /\ config \in Configs
  BY Zenon DEF Finish, TypeOK
<1>2. /\ answered = {config} /\ payloads \subseteq Response(config) /\ payloads \cap notes = {}
      /\ \A f \in notes : f.op = "read" => f \in Response(config)
  BY <1>1, Zenon DEF ReadInv
<1>3. payloads = Response(config) /\ Assembled(payloads) = config
  BY <1>1, <1>2, Reassembly
<1> QED BY <1>2, <1>3

LEMMA ReadKept ==
    ASSUME TypeOK, CallsOK, ReadInv, [Next]_vars
    PROVE  ReadInv'
\* Nobody reads after the step, or the step does nothing to who reads.
<1>1. ASSUME \A c \in Callers : pc'[c] # "reading", \A f \in notes' : f.op # "read"
      PROVE  ReadInv'
  BY <1>1 DEF ReadInv
<1>2. ASSUME UNCHANGED <<config, link, answered, payloads>>, notes' \subseteq notes,
             \A c \in Callers : pc'[c] = "reading" <=> pc[c] = "reading"
      PROVE  ReadInv'
  <2>1. config' = config /\ link' = link /\ answered' = answered /\ payloads' = payloads
    BY <1>2
  <2>2. Response(config)' = Response(config)
    BY <2>1 DEF Response
  <2>3. payloads \cap notes = {} => payloads' \cap notes' = {}
    BY <1>2, <2>1
  <2>4. \A f \in notes' : f \in notes
    BY <1>2
  <2>5. ASSUME NEW c \in Callers, pc'[c] = "reading"
        PROVE  /\ link' /\ answered' = {config'} /\ payloads' \subseteq Response(config)'
               /\ payloads' \cap notes' = {}
               /\ \A f \in notes' : f.op = "read" => f \in Response(config)'
    <3>1. pc[c] = "reading"
      BY <1>2, <2>5
    <3>2. /\ link /\ answered = {config} /\ payloads \subseteq Response(config)
          /\ payloads \cap notes = {}
          /\ \A f \in notes : f.op = "read" => f \in Response(config)
      BY <3>1, Zenon DEF ReadInv
    <3> QED BY <2>1, <2>2, <2>3, <2>4, <3>2, Zenon
  <2>6. (\A c \in Callers : pc'[c] # "reading") => \A f \in notes' : f.op # "read"
    BY <1>2, <2>4, Zenon DEF ReadInv
  <2> QED BY <2>5, <2>6, Zenon DEF ReadInv
<1>3. pc \in [Callers -> {"idle", "queued", "running", "reading"} \cup Verdicts]
  BY DEF TypeOK
<1>4. /\ \A c \in Callers : pc[c] = "reading" => owner = c
      /\ ~link => notes = {} /\ \A c \in Callers : pc[c] # "reading"
      /\ owner = Nobody => \A c \in Callers : pc[c] # "reading"
  BY NoneRuns, Zenon DEF TypeOK, ReadInv, Holding
\* After a step of the owner c only c may be reading.
<1>5. ASSUME NEW c \in Callers, owner = c, NEW s, pc' = [pc EXCEPT ![c] = s], s # "reading"
      PROVE  \A d \in Callers : pc'[d] # "reading"
  BY <1>3, <1>4, <1>5
<1>6. ASSUME NEW c \in Callers, Call(c) \/ Cancel(c) \/ Acquire(c)
      PROVE  ReadInv'
  <2>1. /\ UNCHANGED <<config, link, answered, payloads, notes>>
        /\ pc[c] \in {"idle", "queued"}
        /\ \E s \in {"queued", "failed", "running"} : pc' = [pc EXCEPT ![c] = s]
    BY <1>6 DEF Call, Cancel, Acquire
  <2> QED BY <1>2, <1>3, <2>1
<1>7. ASSUME NEW c \in Callers, Connect(c)
      PROVE  ReadInv'
  <2>1. ~link /\ notes' = notes /\ pc' = pc
    BY <1>7, Zenon DEF Connect
  <2> QED BY <1>1, <1>4, <2>1
<1>8. ASSUME NEW c \in Callers, WriteFrame(c)
      PROVE  ReadInv'
  <2>1. /\ owner = c /\ pc[c] = "running" /\ pc' = [pc EXCEPT ![c] = "queued"]
        /\ (notes' = notes \/ \E p, k : notes' = notes \cup {Echo(p, k, c)})
    BY <1>8, Zenon DEF WriteFrame
  <2>2. \A d \in Callers : pc[d] # "reading"
    BY <1>4, <2>1
  <2>3. \A f \in notes : f.op # "read"
    BY <2>2, Zenon DEF ReadInv
  <2>4. \A p, k : Echo(p, k, c).op # "read"
    BY DEF Echo
  <2>5. \A f \in notes' : f.op # "read"
    <3>1. CASE notes' = notes
      BY <2>3, <3>1, Zenon
    <3>2. CASE \E p, k : notes' = notes \cup {Echo(p, k, c)}
      <4>1. PICK p, k : notes' = notes \cup {Echo(p, k, c)}
        BY <3>2, Zenon
      <4>2. \A f \in notes' : f \in notes \/ f = Echo(p, k, c)
        BY <4>1
      <4> QED BY <2>3, <2>4, <4>2, Zenon
    <3> QED BY <2>1, <3>1, <3>2, Zenon
  <2>6. \A d \in Callers : pc'[d] # "reading"
    BY <1>5, <2>1
  <2> QED BY <1>1, <2>5, <2>6, Zenon
<1>9. ASSUME NEW c \in Callers, Request(c)
      PROVE  ReadInv'
  <2>1. /\ owner = c /\ pc[c] = "running" /\ link /\ pc' = [pc EXCEPT ![c] = "reading"]
        /\ payloads' = {} /\ notes' = notes \cup Response(config) /\ answered' = {config}
        /\ config' = config /\ link' = link
    BY <1>9, Zenon DEF Request
  <2>2. \A d \in Callers : pc[d] # "reading"
    BY <1>4, <2>1
  <2>3. \A f \in notes : f.op # "read"
    BY <2>2, Zenon DEF ReadInv
  <2>4. Response(config)' = Response(config) /\ pc'[c] = "reading"
    BY <1>3, <2>1 DEF Response
  <2>5. /\ link' /\ answered' = {config'} /\ payloads' \subseteq Response(config)'
        /\ payloads' \cap notes' = {}
        /\ \A f \in notes' : f.op = "read" => f \in Response(config)'
    BY <2>1, <2>3, <2>4
  <2> QED BY <2>4, <2>5, Zenon DEF ReadInv
<1>10. ASSUME NEW c \in Callers, Handle(c)
       PROVE  ReadInv'
  <2>1. /\ owner = c /\ pc[c] = "reading" /\ pc' = pc
        /\ config' = config /\ link' = link /\ answered' = answered
    BY <1>10, Zenon DEF Handle
  <2>2. PICK f \in notes : notes' = notes \ {f} /\ payloads' = payloads \cup {g \in {f} : Collects(g)}
    BY <1>10, Zenon DEF Handle
  <2>3. /\ link /\ answered = {config} /\ payloads \subseteq Response(config)
        /\ payloads \cap notes = {}
        /\ \A g \in notes : g.op = "read" => g \in Response(config)
    BY <2>1, Zenon DEF ReadInv
  <2>4. Response(config)' = Response(config)
    BY <2>1 DEF Response
  <2>5. payloads' \subseteq Response(config) /\ payloads' \cap notes' = {}
    BY <2>2, <2>3 DEF Collects
  <2>6. \A g \in notes' : g.op = "read" => g \in Response(config)
    BY <2>2, <2>3
  <2> QED BY <2>1, <2>3, <2>4, <2>5, <2>6, Zenon DEF ReadInv
<1>11. ASSUME NEW c \in Callers, Finish(c)
       PROVE  ReadInv'
  <2>1. owner = c /\ notes' = notes /\ \E s \in {"mismatch", "done"} : pc' = [pc EXCEPT ![c] = s]
    BY <1>11, Zenon DEF Finish
  <2>2. \A f \in notes : f.op # "read"
    BY <1>11, ReadOver
  <2> QED BY <1>1, <1>5, <2>1, <2>2
<1>12. ASSUME NEW c \in Callers, Retry(c) \/ Fail(c)
       PROVE  ReadInv'
  <2>1. owner = c /\ notes' = {} /\ \E s \in {"running", "failed"} : pc' = [pc EXCEPT ![c] = s]
    BY <1>12, Zenon DEF Retry, Fail, Drop
  <2> QED BY <1>1, <1>5, <2>1
<1>13. CASE Lose
  <2>1. pc' = pc /\ UNCHANGED <<config, link, answered, payloads>> /\ notes' \subseteq notes
    BY <1>13 DEF Lose
  <2> QED BY <1>2, <2>1
<1>14. CASE IdleRelease
  <2>1. owner = Nobody /\ pc' = pc /\ notes' = {}
    BY <1>14, Zenon DEF IdleRelease, Drop
  <2> QED BY <1>1, <1>4, <2>1
<1>15. CASE Interfere
  <2>1. ~link /\ pc' = pc /\ notes' = notes
    BY <1>15, Zenon DEF Interfere
  <2> QED BY <1>1, <1>4, <2>1
<1>16. CASE UNCHANGED vars
  <2>1. pc' = pc /\ UNCHANGED <<config, link, answered, payloads, notes>>
    BY <1>16 DEF vars
  <2> QED BY <1>2, <2>1
<1> QED BY <1>6, <1>7, <1>8, <1>9, <1>10, <1>11, <1>12, <1>13, <1>14, <1>15, <1>16, Zenon DEF Next

-----------------------------------------------------------------------------
(* Results.                                                                *)

\* What a caller who finishes returns, and when it is told that it is done.
LEMMA FinishEffect ==
    ASSUME TypeOK, ReadInv, NEW c \in Callers, Finish(c)
    PROVE  /\ result' = [result EXCEPT ![c] = {<<config, config>>}]
           /\ pc' = [pc EXCEPT ![c] = IF Mismatch(c, config) THEN "mismatch" ELSE "done"]
<1>1. Assembled(payloads) = config /\ answered = {config}
  BY ReadOver
<1>2. /\ result' = [result EXCEPT ![c] = {<<config, held>> : held \in answered}]
      /\ pc' = [pc EXCEPT ![c] = IF Mismatch(c, config) THEN "mismatch" ELSE "done"]
  BY <1>1, Zenon DEF Finish
<1>3. {<<config, held>> : held \in answered} = {<<config, config>>}
  BY <1>1
<1> QED BY <1>2, <1>3

LEMMA ResultKept ==
    ASSUME TypeOK, CallsOK, ReadInv, ResultInv, [Next]_vars
    PROVE  ResultInv'
<1>1. /\ result \in [Callers -> SUBSET (Configs \X Configs)]
      /\ \A c \in Callers : \A r \in result[c] : r[1] = r[2]
      /\ \A c \in Callers : pc[c] = "done" =>
            /\ result[c] # {}
            /\ call[c][1] = "set" => \A r \in result[c], k \in Chunks : r[2][call[c][2]][k] = c
  BY Zenon DEF ResultInv, ReadTrue
<1>2. pc \in [Callers -> {"idle", "queued", "running", "reading"} \cup Verdicts]
  BY DEF TypeOK
<1>3. ASSUME result' = result, call' = call,
             \A c \in Callers : pc'[c] = "done" => pc[c] = "done"
      PROVE  ResultInv'
  <2>1. \A c \in Callers : pc'[c] = "done" =>
           /\ result'[c] # {}
           /\ call'[c][1] = "set" => \A r \in result'[c], k \in Chunks : r[2][call'[c][2]][k] = c
    BY <1>1, <1>3
  <2>2. ReadTrue' /\ result' \in [Callers -> SUBSET (Configs \X Configs)]
    BY <1>1, <1>3 DEF ReadTrue
  <2> QED BY <2>1, <2>2, Zenon DEF ResultInv
<1>4. ASSUME NEW c \in Callers,
             \E s \in {"queued", "running", "reading", "failed"} : pc' = [pc EXCEPT ![c] = s]
      PROVE  \A d \in Callers : pc'[d] = "done" => pc[d] = "done"
  BY <1>2, <1>4
<1>5. ASSUME NEW c \in Callers,
             \/ Call(c) \/ Acquire(c) \/ WriteFrame(c) \/ Request(c)
             \/ Retry(c) \/ Fail(c) \/ Cancel(c)
      PROVE  ResultInv'
  <2>1. /\ result' = result /\ call' = call
        /\ \E s \in {"queued", "running", "reading", "failed"} : pc' = [pc EXCEPT ![c] = s]
    BY <1>5, Zenon DEF Call, Acquire, WriteFrame, Request, Retry, Fail, Cancel
  <2> QED BY <1>3, <1>4, <2>1
<1>6. ASSUME NEW c \in Callers, Finish(c)
      PROVE  ResultInv'
  <2>1. /\ result' = [result EXCEPT ![c] = {<<config, config>>}]
        /\ pc' = [pc EXCEPT ![c] = IF Mismatch(c, config) THEN "mismatch" ELSE "done"]
    BY <1>6, FinishEffect
  <2>2. call' = call /\ config \in Configs
    BY <1>6, Zenon DEF Finish, TypeOK
  <2>3. result' \in [Callers -> SUBSET (Configs \X Configs)]
    BY <1>1, <2>1, <2>2
  <2>4. result'[c] = {<<config, config>>} /\ \A d \in Callers \ {c} : result'[d] = result[d]
    BY <1>1, <2>1
  <2>5. ReadTrue'
    BY <1>1, <2>4 DEF ReadTrue
  <2>6. pc'[c] = "done" => ~Mismatch(c, config)
    BY <1>2, <2>1
  <2>7. ASSUME NEW d \in Callers, pc'[d] = "done"
        PROVE  /\ result'[d] # {}
               /\ call[d][1] = "set" => \A r \in result'[d], k \in Chunks : r[2][call[d][2]][k] = d
    <3>1. CASE d = c
      <4>1. call[c][1] = "set" => \A k \in Chunks : config[call[c][2]][k] = c
        BY <2>6, <2>7, <3>1 DEF Mismatch
      <4>2. \A r \in result'[c] : r[2] = config
        BY <2>4
      <4> QED BY <2>4, <3>1, <4>1, <4>2, Zenon
    <3>2. CASE d # c
      <4>1. pc[d] = "done"
        BY <1>2, <2>1, <2>7, <3>2
      <4> QED BY <1>1, <2>4, <3>2, <4>1
    <3> QED BY <3>1, <3>2
  <2>8. \A d \in Callers : pc'[d] = "done" =>
           /\ result'[d] # {}
           /\ call'[d][1] = "set" => \A r \in result'[d], k \in Chunks : r[2][call'[d][2]][k] = d
    BY <2>2, <2>7
  <2> QED BY <2>3, <2>5, <2>8, Zenon DEF ResultInv
<1>7. ASSUME NEW c \in Callers, Handle(c) \/ Connect(c)
      PROVE  ResultInv'
  <2>1. result' = result /\ call' = call /\ pc' = pc
    BY <1>7, Zenon DEF Handle, Connect
  <2> QED BY <1>3, <2>1
<1>8. CASE Lose \/ IdleRelease \/ Interfere \/ UNCHANGED vars
  <2>1. result' = result /\ call' = call /\ pc' = pc
    BY <1>8, Zenon DEF Lose, IdleRelease, Interfere, vars
  <2> QED BY <1>3, <2>1
<1> QED BY <1>5, <1>6, <1>7, <1>8, Zenon DEF Next

-----------------------------------------------------------------------------
(* Mixtures.                                                               *)

LEMMA MixtureKept ==
    ASSUME TypeOK, CallsOK, ReadInv, MixtureNoticed, [Next]_vars
    PROVE  MixtureNoticed'
<1> DEFINE Whole(p) == \E c \in Callers : /\ call[c] = <<"set", p>> /\ pc[c] # "idle"
                                          /\ \A k \in Chunks : config[p][k] = c
           Begun(p) == \E c \in Callers : call[c] = <<"set", p>> /\ pc[c] # "idle"
           Quiet(p) == /\ changes = 0
                       /\ \A c \in Callers : call[c] = <<"set", p>> => pc[c] \in {"idle", "done"}
           Fine(p) == Quiet(p) /\ Begun(p) => Whole(p)
<1>1. \A p \in Programs : Fine(p)
  BY DEF MixtureNoticed
<1>2. (\A p \in Programs : Fine(p)') => MixtureNoticed'
  BY DEF MixtureNoticed
<1>3. pc \in [Callers -> {"idle", "queued", "running", "reading"} \cup Verdicts]
  BY DEF TypeOK
\* A step keeps it for a program it does not touch, of which no setter finishes.
<1>4. ASSUME NEW p \in Programs, config'[p] = config[p], changes' = changes, call' = call,
             \A c \in Callers : call[c] = <<"set", p>> =>
                /\ pc'[c] = "done" => pc[c] = "done"
                /\ pc'[c] = "idle" <=> pc[c] = "idle"
      PROVE  Fine(p)'
  <2>1. Quiet(p)' => Quiet(p)
    BY <1>4
  <2>2. Begun(p)' => Begun(p)
    BY <1>4
  <2>3. Whole(p) => Whole(p)'
    BY <1>4
  <2> QED BY <1>1, <2>1, <2>2, <2>3
\* A setter that has begun and is not done: nothing is claimed of its program.
<1>5. ASSUME NEW p \in Programs, NEW c \in Callers, call' = call, call[c] = <<"set", p>>,
             pc'[c] \notin {"idle", "done"}
      PROVE  Fine(p)'
  BY <1>5
<1> HIDE DEF Fine
\* A step of a caller who is not done after it, and may have stored a frame.
<1>6. ASSUME NEW c \in Callers, call' = call, changes' = changes,
             NEW s \in {"queued", "running", "reading", "failed", "mismatch"},
             pc' = [pc EXCEPT ![c] = s],
             config' = config \/ (Writes(c) /\ Store(c))
      PROVE  MixtureNoticed'
  <2>1. pc'[c] \notin {"idle", "done"} /\ \A d \in Callers \ {c} : pc'[d] = pc[d]
    BY <1>3, <1>6
  <2>2. ASSUME NEW p \in Programs PROVE Fine(p)'
    <3>1. CASE call[c] = <<"set", p>>
      BY <1>5, <1>6, <2>1, <3>1
    <3>2. CASE call[c] # <<"set", p>>
      <4>1. config'[p] = config[p]
        BY <1>6, <3>2, StoreEffect
      <4>2. \A d \in Callers : call[d] = <<"set", p>> => pc'[d] = pc[d]
        BY <2>1, <3>2, Zenon
      <4> QED BY <1>4, <1>6, <4>1, <4>2
    <3> QED BY <3>1, <3>2
  <2> QED BY <1>2, <2>2
<1>7. ASSUME config' = config, changes' = changes, call' = call, pc' = pc
      PROVE  MixtureNoticed'
  <2>1. \A p \in Programs : Fine(p)'
    BY <1>4, <1>7
  <2> QED BY <1>2, <2>1
<1>8. ASSUME NEW c \in Callers,
             \/ Call(c) \/ Acquire(c) \/ WriteFrame(c) \/ Request(c)
             \/ Retry(c) \/ Fail(c) \/ Cancel(c)
      PROVE  MixtureNoticed'
  <2>1. /\ call' = call /\ changes' = changes
        /\ \E s \in {"queued", "running", "reading", "failed", "mismatch"} : pc' = [pc EXCEPT ![c] = s]
        /\ config' = config \/ (Writes(c) /\ Store(c))
    BY <1>8, Zenon DEF Call, Acquire, WriteFrame, Request, Retry, Fail, Cancel, StoredOrNot
  <2> QED BY <1>6, <2>1
<1>9. ASSUME NEW c \in Callers, Finish(c)
      PROVE  MixtureNoticed'
  <2>1. pc' = [pc EXCEPT ![c] = IF Mismatch(c, config) THEN "mismatch" ELSE "done"]
    BY <1>9, FinishEffect
  <2>2. config' = config /\ changes' = changes /\ call' = call
    BY <1>9, Zenon DEF Finish
  <2>3. CASE Mismatch(c, config)
    <3>1. pc' = [pc EXCEPT ![c] = "mismatch"]
      BY <2>1, <2>3, Zenon
    <3> QED BY <1>6, <2>2, <3>1
  <2>4. CASE ~Mismatch(c, config)
    <3>1. pc'[c] = "done" /\ \A d \in Callers \ {c} : pc'[d] = pc[d]
      BY <1>3, <2>1, <2>4
    <3>2. ASSUME NEW p \in Programs PROVE Fine(p)'
      <4>1. CASE call[c] = <<"set", p>>
        <5>1. call[c][1] = "set" /\ call[c][2] = p
          BY <4>1
        <5>2. \A k \in Chunks : config[p][k] = c
          BY <2>4, <5>1 DEF Mismatch
        <5>3. Whole(p)'
          BY <2>2, <3>1, <4>1, <5>2
        <5> QED BY <5>3 DEF Fine
      <4>2. CASE call[c] # <<"set", p>>
        <5>1. \A d \in Callers : call[d] = <<"set", p>> => pc'[d] = pc[d]
          BY <3>1, <4>2, Zenon
        <5> QED BY <1>4, <2>2, <5>1
      <4> QED BY <4>1, <4>2
    <3> QED BY <1>2, <3>2
  <2> QED BY <2>3, <2>4
<1>10. ASSUME NEW c \in Callers, Handle(c) \/ Connect(c)
       PROVE  MixtureNoticed'
  <2>1. config' = config /\ changes' = changes /\ call' = call /\ pc' = pc
    BY <1>10, Zenon DEF Handle, Connect
  <2> QED BY <1>7, <2>1
<1>11. CASE Lose \/ IdleRelease \/ UNCHANGED vars
  <2>1. config' = config /\ changes' = changes /\ call' = call /\ pc' = pc
    BY <1>11, Zenon DEF Lose, IdleRelease, vars
  <2> QED BY <1>7, <2>1
<1>12. CASE Interfere
  <2>1. changes' = changes + 1 /\ changes \in Nat
    BY <1>12 DEF Interfere, TypeOK
  <2>2. changes' # 0
    BY <2>1
  <2> QED BY <2>2 DEF MixtureNoticed
<1> QED BY <1>8, <1>9, <1>10, <1>11, <1>12, Zenon DEF Next

-----------------------------------------------------------------------------
(* The invariant.                                                          *)

LEMMA InvAtFirst ==
    ASSUME Init
    PROVE  IInv
<1>1. TypeOK
  <2>1. config \in Configs
    BY DEF Init, Configs, Contents
  <2>2. /\ changes \in 0 .. MaxChanges
        /\ owner \in Callers \cup {Nobody} /\ attempt \in 0 .. MaxAttempts
    BY AttemptsAssumption, ChangesAssumption DEF Init
  <2>3. link \in BOOLEAN
    BY Zenon DEF Init
  <2>4. /\ pc \in [Callers -> {"idle", "queued", "running", "reading"} \cup Verdicts]
        /\ frame \in [Callers -> 0 .. ChunkCount]
    <3>1. 0 \in 0 .. ChunkCount
      BY StoreAssumption
    <3> QED BY <3>1 DEF Init
  <2>5. /\ \A c \in Callers : pc[c] \in {"running", "reading"} <=> owner = c
        /\ owner = Nobody => payloads = {} /\ attempt = 0
        /\ ~link => notes = {}
    BY StoreAssumption DEF Init
  <2> QED BY <2>1, <2>2, <2>3, <2>4, <2>5, Zenon DEF TypeOK
<1>2. CallsOK /\ ReadInv
  BY DEF Init, CallsOK, ReadInv
<1>3. ResultInv
  BY DEF Init, ResultInv, ReadTrue, Nothing
<1>4. MixtureNoticed
  BY DEF Init, MixtureNoticed
<1> QED BY <1>1, <1>2, <1>3, <1>4 DEF IInv

LEMMA InvAlways == Spec => []IInv
<1>1. IInv /\ [Next]_vars => IInv'
  BY TypesKept, ReadKept, ResultKept, MixtureKept, Zenon DEF IInv
<1> QED BY <1>1, InvAtFirst, PTL DEF Spec

-----------------------------------------------------------------------------
(* The theorems.                                                           *)

\* The types, and that only the owner of the session lock is in an operation,
\* which leaves nothing behind: PersistentSolemClient's operations.
THEOREM TypeCorrect == Spec => []TypeOK
BY InvAlways, PTL DEF IInv

\* get_irrigation_config returns what the controller held when it answered this
\* read, however many callers write through the same link before and after, and
\* whatever is lost, repeated or late.
THEOREM ReadsTrue == Spec => []ReadTrue
BY InvAlways, PTL DEF IInv, ResultInv

\* set_irrigation_program returns normally only if the controller held the whole
\* program of this caller at one moment of the call.
THEOREM SetsVerified == Spec => []SetVerified
<1>1. IInv => SetVerified
  BY DEF IInv, ResultInv, SetVerified
<1> QED BY <1>1, InvAlways, PTL

\* Setters of one program who were all told it is done leave no mixture of their
\* frames: the last readback of them saw what the controller holds.
THEOREM MixturesNoticed == Spec => []MixtureNoticed
BY InvAlways, PTL DEF IInv
=============================================================================
