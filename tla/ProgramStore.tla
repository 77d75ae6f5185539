---------------------------- MODULE ProgramStore ----------------------------
(***************************************************************************)
(* The single-program calls of client_v2.py on a shared client:            *)
(* get_irrigation_config and set_irrigation_program.  A set writes each    *)
(* frame in an operation of its own, then reads everything back; other     *)
(* callers' operations may run between two of its own.  protocol.py tells  *)
(* when a response is complete, snapshot.py when it is consistent.         *)
(*                                                                         *)
(* Operations hold the session lock (PersistentClient) and retry on a new  *)
(* link.  A caller makes one call, and writes itself into every chunk.     *)
(***************************************************************************)
EXTENDS StoreLayout, CallBounds, FiniteSets, FiniteSetsExt

Programs == 0 .. ProgramCount - 1
Chunks   == 0 .. ChunkCount - 1
Contents == Callers \cup {Factory}
Configs  == [Programs -> [Chunks -> Contents]]
Nothing  == {}

\* A call: a read, or a set of one program.
Kinds == {<<"read">>} \cup {<<"set", p>> : p \in Programs}

VARIABLES
    config,     \* what the controller holds
    link,       \* a link is up
    notes,      \* notifications on their way over it
    changes,    \* changes made by others
    owner,      \* who holds the session lock
    attempt,    \* which attempt of its operation this is
    payloads,   \* fragments its read has collected
    answered,   \* history: what the controller held when it answered, as a set
    call,       \* the call of each caller
    pc,         \* "idle", "queued", "running" or "reading"; then its verdict
    frame,      \* frames a set has written
    result      \* what a call returned, and what the controller held

device    == <<config, link, notes, changes>>
operation == <<attempt, payloads, answered>>
vars      == <<device, owner, operation, call, pc, frame, result>>

Verdicts == {"done", "mismatch", "failed"}

Init ==
    /\ config = [p \in Programs |-> [k \in Chunks |-> Factory]]
    /\ link = FALSE /\ notes = {} /\ changes = 0
    /\ owner = Nobody /\ attempt = 0 /\ payloads = {} /\ answered = {}
    /\ call \in [Callers -> Kinds]
    /\ pc = [c \in Callers |-> "idle"] /\ frame = [c \in Callers |-> 0]
    /\ result = [c \in Callers |-> Nothing]

-----------------------------------------------------------------------------
(* Frames on the air.  A response numbers its fragments downwards, through *)
(* all its programs; an echo carries the number of the written chunk.      *)

Id(p, k) == (ProgramCount - p) * ChunkCount - 1 - k

Response(c) ==
    {[op |-> "read", program |-> p, id |-> Id(p, k), value |-> c[p][k]] :
        p \in Programs, k \in Chunks}

Echo(p, k, v) == [op |-> "echo", program |-> p, id |-> k, value |-> v]

\* Mutant of Collects: echoes of earlier writes are collected too.
CollectsEcho(f) == TRUE

\* The read's handler keeps read responses.
Collects(f) == f.op = "read"

\* irrigation_program_complete and from_frames on the fragments of a program.
Of(p, frags) == {f \in frags : f.program = p}
First(frags) == Max({f.id : f \in frags})

Complete(frags) ==
    \A p \in Programs :
        LET own == Of(p, frags)
        IN  own # {} /\ Chunks \subseteq {First(own) - f.id : f \in own}

\* No two fragments under one number, and none too many.
Consistent(frags) ==
    \A p \in Programs :
        LET own == Of(p, frags)
        IN  Cardinality(own) = ChunkCount /\ Cardinality({f.id : f \in own}) = ChunkCount

\* assemble_irrigation_programs; a chunk that is missing stays empty.
Assembled(frags) ==
    [p \in Programs |-> [k \in Chunks |->
        LET own  == Of(p, frags)
            hits == {f \in own : First(own) - f.id = k}
        IN  IF hits = {} THEN Factory ELSE (CHOOSE f \in hits : TRUE).value]]

-----------------------------------------------------------------------------
(* Calls and the session.                                                  *)

Call(c) ==
    /\ pc[c] = "idle" /\ pc' = [pc EXCEPT ![c] = "queued"]
    /\ UNCHANGED <<device, owner, operation, call, frame, result>>

\* What the next operation of a call is.
Writes(c) == call[c][1] = "set" /\ frame[c] < ChunkCount

\* Mutant of Acquire: the lock is not awaited.
AcquireAnyway(c) ==
    /\ pc[c] = "queued"
    /\ owner' = c /\ attempt' = 1
    /\ pc' = [pc EXCEPT ![c] = "running"]
    /\ UNCHANGED <<device, payloads, answered, call, frame, result>>

\* The lock is free, and an operation starts.
Acquire(c) ==
    /\ pc[c] = "queued" /\ owner = Nobody
    /\ owner' = c /\ attempt' = 1
    /\ pc' = [pc EXCEPT ![c] = "running"]
    /\ UNCHANGED <<device, payloads, answered, call, frame, result>>

\* It has no cached link: it connects.
Connect(c) ==
    /\ owner = c /\ ~link /\ link' = TRUE
    /\ UNCHANGED <<config, notes, changes, owner, operation, call, pc, frame, result>>

\* The lock is released.
Release ==
    /\ owner' = Nobody /\ attempt' = 0 /\ payloads' = {} /\ answered' = {}

\* The link is gone with all that was under way; what was sent may be lost.
Drop == link' = FALSE /\ notes' = {}

\* The frame reaches the controller, which may echo it later.
Store(c) ==
    LET p == call[c][2]
        k == frame[c]
    IN  config' = [config EXCEPT ![p][k] = c]

\* write_irrigation_program: one frame in one operation.
WriteFrame(c) ==
    /\ owner = c /\ pc[c] = "running" /\ Writes(c) /\ link
    /\ Store(c) /\ Release
    /\ \/ notes' = notes \cup {Echo(call[c][2], frame[c], c)}
       \/ UNCHANGED notes
    /\ frame' = [frame EXCEPT ![c] = @ + 1]
    /\ pc' = [pc EXCEPT ![c] = "queued"]
    /\ UNCHANGED <<link, changes, call, result>>

\* get_irrigation_config: subscribed, the request is answered.
Request(c) ==
    /\ owner = c /\ pc[c] = "running" /\ ~Writes(c) /\ link
    /\ pc' = [pc EXCEPT ![c] = "reading"]
    /\ payloads' = {} /\ notes' = notes \cup Response(config) /\ answered' = {config}
    /\ UNCHANGED <<config, link, changes, owner, attempt, call, frame, result>>

\* A notification arrives at the handler of the read.
Handle(c) ==
    /\ owner = c /\ pc[c] = "reading"
    /\ \E f \in notes :
          /\ notes' = notes \ {f}
          /\ payloads' = payloads \cup {g \in {f} : Collects(g)}
    /\ UNCHANGED <<config, link, changes, owner, attempt, answered, call, pc, frame, result>>

\* One is lost, or arrives when nobody is subscribed.
Lose ==
    /\ \E f \in notes : notes' = notes \ {f}
    /\ UNCHANGED <<config, link, changes, owner, operation, call, pc, frame, result>>

\* Mutant of Mismatch: the first chunk is not compared.
MismatchButFirst(c, programs) ==
    call[c][1] = "set" /\ \E k \in Chunks \ {0} : programs[call[c][2]][k] # c

\* irrigation_program_write_mismatches: the program written, chunk by chunk.
Mismatch(c, programs) ==
    call[c][1] = "set" /\ \E k \in Chunks : programs[call[c][2]][k] # c

\* The read is over: nothing new for a while, or its deadline.
Finish(c) ==
    /\ owner = c /\ pc[c] = "reading" /\ Complete(payloads) /\ Consistent(payloads)
    /\ LET programs == Assembled(payloads)
       IN  /\ result' = [result EXCEPT ![c] = {<<programs, held>> : held \in answered}]
           /\ pc' = [pc EXCEPT ![c] = IF Mismatch(c, programs) THEN "mismatch" ELSE "done"]
    /\ Release
    /\ UNCHANGED <<device, call, frame>>

\* A frame may be stored although its write fails.
StoredOrNot(c) ==
    \/ pc[c] = "running" /\ Writes(c) /\ link /\ Store(c)
    \/ UNCHANGED config

\* An attempt fails and is repeated on a new link.
Retry(c) ==
    /\ owner = c /\ StoredOrNot(c) /\ Drop
    /\ attempt < MaxAttempts /\ attempt' = attempt + 1
    /\ payloads' = {} /\ answered' = {}
    /\ pc' = [pc EXCEPT ![c] = "running"]
    /\ UNCHANGED <<changes, owner, call, frame, result>>

\* Its last attempt fails, its deadline passes or its caller is cancelled: the
\* call ends, whatever it has stored.
Fail(c) ==
    /\ owner = c /\ StoredOrNot(c) /\ Drop /\ Release
    /\ pc' = [pc EXCEPT ![c] = "failed"]
    /\ UNCHANGED <<changes, call, frame, result>>

\* The caller is cancelled while it waits for the lock.
Cancel(c) ==
    /\ pc[c] = "queued" /\ pc' = [pc EXCEPT ![c] = "failed"]
    /\ UNCHANGED <<device, owner, operation, call, frame, result>>

\* The idle link is released.
IdleRelease ==
    /\ owner = Nobody /\ link /\ Drop
    /\ UNCHANGED <<config, changes, owner, operation, call, pc, frame, result>>

\* Another application changes a chunk while it can connect.
Interfere ==
    /\ ~link /\ changes < MaxChanges /\ changes' = changes + 1
    /\ \E p \in Programs, k \in Chunks : config' = [config EXCEPT ![p][k] = Factory]
    /\ UNCHANGED <<link, notes, owner, operation, call, pc, frame, result>>

Next ==
    \/ \E c \in Callers :
          \/ Call(c) \/ Acquire(c) \/ WriteFrame(c) \/ Request(c)
          \/ Handle(c) \/ Finish(c) \/ Connect(c)
          \/ Retry(c) \/ Fail(c) \/ Cancel(c)
    \/ Lose \/ IdleRelease \/ Interfere

Spec == Init /\ [][Next]_vars
-----------------------------------------------------------------------------
(* What must hold.                                                         *)

\* Types; only the owner of the lock runs, and between operations nothing of
\* the last one is left.
TypeOK ==
    /\ config \in Configs /\ link \in BOOLEAN /\ changes \in 0 .. MaxChanges
    /\ owner \in Callers \cup {Nobody} /\ attempt \in 0 .. MaxAttempts
    /\ pc \in [Callers -> {"idle", "queued", "running", "reading"} \cup Verdicts]
    /\ frame \in [Callers -> 0 .. ChunkCount]
    /\ \A c \in Callers : pc[c] \in {"running", "reading"} <=> owner = c
    /\ owner = Nobody => payloads = {} /\ attempt = 0
    /\ ~link => notes = {}

\* What get_irrigation_config returns is what the controller held when it
\* answered this very read: no fragment of it comes from an echo or is made up.
ReadTrue ==
    \A c \in Callers : \A r \in result[c] : r[1] = r[2]

\* set_irrigation_program returns normally only if the controller held, at one
\* moment of the call, the whole program of this caller.
SetVerified ==
    \A c \in Callers :
        call[c][1] = "set" /\ pc[c] = "done" =>
            \E r \in result[c] : \A k \in Chunks : r[2][call[c][2]][k] = c

\* Two callers who set one program may interleave their frames.  When nobody
\* else changed the controller and all who began were told it is done, what it
\* holds is the whole program of one of them.
MixtureNoticed ==
    \A p \in Programs :
        LET setters == {c \in Callers : call[c] = <<"set", p>> /\ pc[c] # "idle"}
        IN  changes = 0 /\ setters # {} /\ (\A c \in setters : pc[c] = "done") =>
                \E c \in setters : \A k \in Chunks : config[p][k] = c
=============================================================================
