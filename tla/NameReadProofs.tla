--------------------------- MODULE NameReadProofs ---------------------------
(***************************************************************************)
(* Proofs about NameRead, for any names, windows, retries and renames.     *)
(*                                                                         *)
(* Two arguments meet.  The history of what each half has held covers all  *)
(* that is on the air or collected, so what is returned was held; and the  *)
(* clock is known exactly while a read runs, because a request may be      *)
(* repeated only after a window in which nothing came.                     *)
(***************************************************************************)
EXTENDS NameRead, FiniteSetTheorems, WellFoundedInduction, TLAPS

-----------------------------------------------------------------------------
(* The inductive invariant.                                                *)

\* The ticks of a request that is repeated, and of all repeated ones.
Round == IdleTicks + 1 + PauseTicks
Spent(left) == (InPlaceRetries - left) * Round

\* The requests a read may still make are within the bound.
AskedInv ==
    /\ phase = "poll" => asked + retries <= MaxAsked
    /\ phase = "pause" => asked + retries < MaxAsked /\ retries < InPlaceRetries

\* What the clock shows while a read runs.  Until the first frame comes, the
\* poll counts its silence from the request.
TimeInv ==
    /\ clock \in Nat
    /\ phase = "poll" => elapsed <= ReadTicks /\ clock = Spent(retries) + elapsed
    /\ phase = "poll" /\ got = {} =>
          /\ ~arrived
          /\ grace => elapsed = IdleTicks + 1 /\ quiet = IdleTicks
          /\ ~grace => elapsed <= IdleTicks /\ quiet = elapsed
    /\ phase = "pause" => elapsed <= PauseTicks /\ clock = Spent(retries) - PauseTicks + elapsed

\* All that is on the air or collected was held since the read began.
PastInv ==
    /\ past \in [Frags -> SUBSET Values]
    /\ \A f \in Frags : names[f] \in past[f]
    /\ \A i \in DOMAIN air : air[i][2] \in past[air[i][1]]
    /\ \A x \in got : x[2] \in past[x[1]]
    /\ Named(past) \ (1 .. MaxStation) \subseteq extra

\* A read has a result when it is over, and names only from a complete response.
ResultInv ==
    /\ result = "none" <=> phase # "done"
    /\ result = "names" => Complete(got)

WidthInv ==
    /\ MaxStation <= width /\ width \in {MaxStation} \cup extra
    /\ result = "names" => \A i \in Named(Heard(got)) : i <= width

IInv == TypeOK /\ AskedInv /\ TimeInv /\ PastInv /\ ResultInv /\ WidthInv /\ SilenceIsPatient

USE DEF radio, reader

-----------------------------------------------------------------------------
(* The constants, and the helpers of the model.                            *)

LEMMA Constants ==
    /\ IdleTicks \in Nat \ {0} /\ ReadTicks \in Nat \ {0} /\ PauseTicks \in Nat \ {0}
    /\ InPlaceRetries \in Nat /\ MaxAsked \in Nat /\ InPlaceRetries < MaxAsked
    /\ MaxStation \in Nat \ {0} /\ Len(Heads) \in Nat /\ MaxStation <= Len(Heads)
    /\ DOMAIN Heads = 1 .. Len(Heads) /\ \A i \in DOMAIN Heads : Heads[i] \in Frags
BY TicksAssumption

\* Every request that is repeated costs its round.
LEMMA Rounds ==
    /\ Round \in Nat /\ Round = IdleTicks + 1 + PauseTicks /\ Spent(InPlaceRetries) = 0
    /\ Bound = Spent(0) + ReadTicks
    /\ \A r \in 0 .. InPlaceRetries :
          /\ Spent(r) \in Nat /\ Spent(r) <= Spent(0)
          /\ r > 0 => Spent(r - 1) = Spent(r) + Round
    /\ Spent(0) + IdleTicks + 1
          = (InPlaceRetries + 1) * (IdleTicks + 1) + InPlaceRetries * PauseTicks
<1>1. Round \in Nat /\ Round = IdleTicks + 1 + PauseTicks /\ Spent(InPlaceRetries) = 0
  BY Constants, SMT DEF Round, Spent
<1>2. Bound = Spent(0) + ReadTicks
  BY Constants, SMT DEF Bound, Spent, Round
<1>3. Spent(0) + IdleTicks + 1
          = (InPlaceRetries + 1) * (IdleTicks + 1) + InPlaceRetries * PauseTicks
  BY Constants, SMT DEF Spent, Round
<1>4. ASSUME NEW r \in 0 .. InPlaceRetries
      PROVE  /\ Spent(r) \in Nat /\ Spent(r) <= Spent(0)
             /\ r > 0 => Spent(r - 1) = Spent(r) + Round
  <2>1. \A x, y \in Nat : x * y \in Nat
    BY SMT
  <2>2. \A x, y, z \in Nat : (x + y) * z = x * z + y * z
    BY SMT
  <2>3. InPlaceRetries - r \in Nat /\ r \in Nat /\ (InPlaceRetries - r) + r = InPlaceRetries - 0
    BY Constants, SMT
  <2>4. Spent(r) \in Nat /\ r * Round \in Nat
    BY <1>1, <2>1, <2>3 DEF Spent
  <2>5. Spent(0) = Spent(r) + r * Round
    BY <1>1, <2>2, <2>3 DEF Spent
  <2>6. r > 0 => Spent(r - 1) = Spent(r) + Round
    <3> SUFFICES ASSUME r > 0 PROVE Spent(r - 1) = Spent(r) + Round
      OBVIOUS
    <3>1. InPlaceRetries - (r - 1) = (InPlaceRetries - r) + 1 /\ 1 * Round = Round
      BY <1>1, <2>3, Constants, SMT
    <3> QED BY <1>1, <2>2, <2>3, <3>1 DEF Spent
  <2> QED BY <2>4, <2>5, <2>6, SMT
<1> QED BY <1>1, <1>2, <1>3, <1>4

\* The greatest of some outputs, and the lesser and the greater of two.
LEMMA Greatest ==
    ASSUME NEW n \in Nat, NEW T, T \subseteq 1 .. n, T # {}
    PROVE  Max(T) \in T /\ \A y \in T : Max(T) >= y
<1> DEFINE R == OpToRel(<, Nat)
           D == {n - x : x \in T}
<1>1. \A x \in T : n - x \in Nat /\ x \in Int
  BY SMT
<1>2. D \subseteq Nat /\ D # {}
  BY <1>1
<1>3. PICK d \in D : \A y \in D : <<y, d>> \notin R
  <2>1. IsWellFoundedOn(R, Nat)
    BY NatLessThanWellFounded
  <2> HIDE DEF R, D
  <2> QED BY <1>2, <2>1, WFMin
<1>4. PICK m \in T : d = n - m
  OBVIOUS
<1>5. \A y \in T : m >= y
  <2> SUFFICES ASSUME NEW y \in T PROVE m >= y
    OBVIOUS
  <2>1. n - y \in Nat /\ d \in Nat /\ ~(n - y < d)
    BY <1>1, <1>3, <1>4 DEF OpToRel
  <2> QED BY <1>1, <1>4, <2>1, SMT
<1> QED BY <1>5 DEF Max

LEMMA OfTwo ==
    ASSUME NEW x \in Nat, NEW y \in Nat
    PROVE  /\ Max({x, y}) \in {x, y} /\ Max({x, y}) >= x /\ Max({x, y}) >= y
           /\ x >= y => Min({x, y}) = y
<1>1. \E m \in {x, y} : \A z \in {x, y} : m >= z
  BY SMT
<1>2. Max({x, y}) \in {x, y} /\ \A z \in {x, y} : Max({x, y}) >= z
  BY <1>1, Zenon DEF Max
<1>3. ASSUME x >= y PROVE Min({x, y}) = y
  <2>1. y \in {x, y} /\ \A z \in {x, y} : y <= z
    BY <1>3, SMT
  <2>2. Min({x, y}) \in {x, y} /\ \A z \in {x, y} : Min({x, y}) <= z
    BY <2>1, Zenon DEF Min
  <2>3. Min({x, y}) <= y /\ y <= Min({x, y}) /\ Min({x, y}) \in Nat
    BY <2>1, <2>2
  <2> QED BY <2>3, SMT
<1> QED BY <1>2, <1>3

\* More values of the halves name more outputs.
LEMMA NamedGrows ==
    ASSUME NEW s, NEW t, \A f \in Frags : s[f] \subseteq t[f]
    PROVE  Named(s) \subseteq Named(t) /\ Named(s) \subseteq DOMAIN Heads
BY Constants DEF Named

\* The width a snapshot gives is the client's own, or an output with a name.
LEMMA AdoptedWidth ==
    ASSUME NEW halves, Named(Heard(halves)) \subseteq DOMAIN Heads
    PROVE  /\ Adopted(halves) \in {MaxStation} \cup Named(Heard(halves))
           /\ Adopted(halves) \in Nat
           /\ \A i \in Named(Heard(halves)) : i <= Adopted(halves)
<1> DEFINE N == Named(Heard(halves))
<1>1. CASE N = {}
  <2>1. Adopted(halves) = Min({Len(Heads), MaxStation})
    BY <1>1 DEF Adopted
  <2>2. Min({Len(Heads), MaxStation}) = MaxStation
    <3>1. Len(Heads) >= MaxStation /\ Len(Heads) \in Nat /\ MaxStation \in Nat
      BY Constants
    <3> QED BY <3>1, OfTwo
  <2> QED BY <1>1, <2>1, <2>2, Constants
<1>2. CASE N # {}
  <2>1. Adopted(halves) = Max(N)
    BY <1>2 DEF Adopted
  <2> HIDE DEF N
  <2>2. Max(N) \in N /\ (\A i \in N : Max(N) >= i) /\ N \subseteq 1 .. Len(Heads)
    BY <1>2, Constants, Greatest DEF N
  <2>3. \A i \in N : i <= Max(N)
    BY <2>2, SMT
  <2> QED BY <2>1, <2>2, <2>3 DEF N
<1> QED BY <1>1, <1>2

-----------------------------------------------------------------------------
(* The invariant at first, and through a read.                             *)

USE DEF IInv

\* What a moment's names tell: the history begins with them.
LEMMA HistoryBegins ==
    ASSUME NEW n \in [Frags -> Values]
    PROVE  /\ Now(n) \in [Frags -> SUBSET Values]
           /\ \A f \in Frags : n[f] \in Now(n)[f]
BY DEF Now

LEMMA InitInv == Init => IInv
<1> SUFFICES ASSUME Init PROVE IInv
  OBVIOUS
<1>1. up /\ ~arrived /\ ~grace
  BY Zenon DEF Init
<1>2. up \in BOOLEAN /\ held \in BOOLEAN /\ arrived \in BOOLEAN /\ grace \in BOOLEAN
  <2>1. up = TRUE /\ held = TRUE /\ arrived = FALSE /\ grace = FALSE
    BY Zenon DEF Init
  <2> QED BY <2>1, Zenon
<1>3. /\ names \in [Frags -> Values] /\ past = Now(names) /\ air = <<>> /\ got = {}
      /\ extra = Named(past) \ (1 .. MaxStation) /\ width = MaxStation
      /\ phase = "poll" /\ result = "none" /\ asked = 1 /\ retries = InPlaceRetries
      /\ quiet = 0 /\ elapsed = 0 /\ clock = 0
  BY Zenon DEF Init
<1>4. extra \subseteq DOMAIN Heads
  BY <1>3 DEF Named
<1>5. clock <= Bound
  <2>1. Spent(0) \in Nat
    BY Rounds, Constants
  <2> QED BY <1>3, <2>1, Rounds, Constants
<1>6. TypeOK
  BY <1>2, <1>3, <1>4, <1>5, Constants DEF TypeOK
<1>7. AskedInv
  BY <1>3, Constants DEF AskedInv
<1>8. TimeInv
  BY <1>1, <1>3, Constants, Rounds DEF TimeInv
<1>9. PastInv
  BY <1>3, HistoryBegins DEF PastInv
<1>10. ResultInv /\ WidthInv /\ SilenceIsPatient
  BY <1>3, Constants DEF ResultInv, WidthInv, SilenceIsPatient
<1> QED BY <1>6, <1>7, <1>8, <1>9, <1>10

\* A new read starts from the names there are.
LEMMA NewReadKeeps == ASSUME IInv, NewRead PROVE IInv'
<1>1. up' /\ ~arrived' /\ ~grace'
  BY Zenon DEF NewRead, Request
<1>2. up' \in BOOLEAN /\ held' \in BOOLEAN /\ arrived' \in BOOLEAN /\ grace' \in BOOLEAN
  <2>1. up' = TRUE /\ held' = TRUE /\ arrived' = FALSE /\ grace' = FALSE
    BY Zenon DEF NewRead, Request
  <2> QED BY <2>1, Zenon
<1>3. /\ past' = Now(names) /\ air' = <<>> /\ got' = {} /\ names' = names
      /\ extra' = extra /\ width' = width
      /\ phase' = "poll" /\ result' = "none" /\ retries' = InPlaceRetries
      /\ quiet' = 0 /\ elapsed' = 0 /\ clock' = 0
      /\ (asked + InPlaceRetries < MaxAsked /\ asked' = asked + 1) \/ asked' = 0 + 1
  BY Zenon DEF NewRead, Request
<1>4. names \in [Frags -> Values] /\ asked \in 0 .. MaxAsked
  BY DEF TypeOK
<1>5. asked' \in 0 .. MaxAsked /\ asked' + InPlaceRetries <= MaxAsked
  BY <1>3, <1>4, Constants, SMT
<1>6. clock' <= Bound
  <2>1. Spent(0) \in Nat
    BY Rounds, Constants
  <2> QED BY <1>3, <2>1, Rounds, Constants
<1>7. TypeOK'
  BY <1>2, <1>3, <1>5, <1>6, Constants DEF TypeOK
<1>8. AskedInv'
  BY <1>3, <1>5 DEF AskedInv
<1>9. TimeInv'
  BY <1>1, <1>3, Constants, Rounds DEF TimeInv
<1>10. PastInv'
  <2>1. \A f \in Frags : past'[f] \subseteq past[f]
    BY <1>3, <1>4 DEF PastInv, Now
  <2>2. Named(past') \subseteq Named(past)
    BY <2>1, NamedGrows
  <2>3. Named(past)' = Named(past')
    BY DEF Named
  <2>4. Named(past) \ (1 .. MaxStation) \subseteq extra
    BY DEF PastInv
  <2> QED BY <1>3, <1>4, <2>2, <2>3, <2>4, HistoryBegins DEF PastInv
<1>11. ResultInv' /\ SilenceIsPatient'
  BY <1>3 DEF ResultInv, SilenceIsPatient
<1>12. WidthInv'
  BY <1>3 DEF WidthInv
<1> QED BY <1>7, <1>8, <1>9, <1>10, <1>11, <1>12

-----------------------------------------------------------------------------
(* The polling loop.                                                       *)

\* A poll is counted, and leaves the radio alone.
LEMMA PollTick ==
    ASSUME IInv, Elapse
    PROVE  clock' = clock + 1 /\ clock \in Nat
BY DEF Elapse, TypeOK, TimeInv

\* What the radio leaves alone of the history.
LEMMA PastStays ==
    ASSUME PastInv, UNCHANGED <<names, air, past, extra>>, got' = got
    PROVE  PastInv'
<1>1. Named(past)' = Named(past)
  BY DEF Named
<1> QED BY <1>1, Zenon DEF PastInv

\* The loop goes on: nothing but the time and the grace changes.
LEMMA GoesOn ==
    ASSUME IInv, Polling, UNCHANGED radio, NEW g \in BOOLEAN, KeepPolling(g),
           got = {} => \/ Silence < IdleTicks /\ g = grace
                       \/ Silence >= IdleTicks /\ ~grace /\ g = TRUE
    PROVE  IInv'
<1>1. /\ phase' = "poll" /\ ~arrived' /\ elapsed' = elapsed + 1 /\ grace' = g
      /\ quiet' = IF Silence < IdleTicks THEN Silence + 1 ELSE IdleTicks
      /\ got' = got /\ retries' = retries /\ result' = result /\ width' = width
      /\ held' = held /\ Elapse
      /\ names' = names /\ asked' = asked /\ air' = air /\ up' = up /\ past' = past /\ extra' = extra
  BY Zenon DEF KeepPolling
<1>2. phase = "poll" /\ elapsed < ReadTicks
  BY DEF Polling
<1>3. /\ elapsed \in (0 .. ReadTicks) \cup (0 .. PauseTicks) /\ quiet \in 0 .. IdleTicks
      /\ retries \in 0 .. InPlaceRetries
  BY DEF TypeOK
<1>4. Silence \in 0 .. IdleTicks
  <2>1. 0 \in 0 .. IdleTicks
    BY Constants
  <2> QED BY <1>3, <2>1, Zenon DEF Silence
<1>5. quiet' \in 0 .. IdleTicks /\ elapsed' \in 0 .. ReadTicks
  BY <1>1, <1>2, <1>3, <1>4, Constants, SMT
<1>6. clock' = Spent(retries) + elapsed' /\ clock' \in Nat /\ clock' <= Bound
  <2>1. clock' = clock + 1 /\ clock \in Nat /\ clock = Spent(retries) + elapsed
    BY <1>1, <1>2, PollTick DEF TimeInv
  <2>2. Spent(retries) \in Nat /\ Spent(retries) <= Spent(0) /\ Spent(0) \in Nat
    BY <1>3, Rounds, Constants
  <2>3. Bound = Spent(0) + ReadTicks /\ ReadTicks \in Nat /\ elapsed \in Nat
    BY <1>3, Rounds, Constants
  <2>4. elapsed' = elapsed + 1
    BY <1>1
  <2> QED BY <1>2, <2>1, <2>2, <2>3, <2>4, SMT
<1>7. arrived' \in BOOLEAN /\ grace' \in BOOLEAN
  <2>1. arrived' = FALSE
    BY Zenon DEF KeepPolling
  <2> QED BY <1>1, <2>1, Zenon
<1>8. TypeOK'
  <2>1. /\ names' \in [Frags -> Values] /\ asked' \in 0 .. MaxAsked
        /\ air' \in Seq(Frags \X Values) /\ up' \in BOOLEAN
        /\ got' \subseteq Frags \X Values
        /\ retries' \in 0 .. InPlaceRetries
        /\ result' \in {"none", "names", "silent", "invalid", "dropped"}
        /\ width' \in 1 .. Len(Heads) /\ extra' \subseteq DOMAIN Heads /\ held' \in BOOLEAN
    BY <1>1, Zenon DEF TypeOK
  <2> QED BY <1>1, <1>5, <1>6, <1>7, <2>1 DEF TypeOK
<1>9. AskedInv'
  BY <1>1, <1>2 DEF AskedInv
<1>10. TimeInv'
  <2>1. ASSUME got = {}
        PROVE  /\ grace' => elapsed' = IdleTicks + 1 /\ quiet' = IdleTicks
               /\ ~grace' => elapsed' <= IdleTicks /\ quiet' = elapsed'
    <3>1. /\ ~arrived
          /\ grace => elapsed = IdleTicks + 1 /\ quiet = IdleTicks
          /\ ~grace => elapsed <= IdleTicks /\ quiet = elapsed
      BY <1>2, <2>1 DEF TimeInv
    <3>2. Silence = quiet
      BY <3>1, Zenon DEF Silence
    <3>3. CASE Silence < IdleTicks /\ g = grace
      <4>1. ~grace
        BY <1>3, <3>1, <3>2, <3>3
      <4>2. ~grace'
        BY <1>1, <3>3, <4>1, Zenon
      <4>3. elapsed' <= IdleTicks /\ quiet' = elapsed'
        BY <1>1, <1>3, <3>1, <3>2, <3>3, <4>1, Constants
      <4> QED BY <4>2, <4>3, Zenon
    <3>4. CASE Silence >= IdleTicks /\ ~grace /\ g = TRUE
      <4>1. grace'
        BY <1>1, <3>4, Zenon
      <4>2. elapsed' = IdleTicks + 1 /\ quiet' = IdleTicks
        BY <1>1, <1>3, <3>1, <3>2, <3>4, Constants
      <4> QED BY <4>1, <4>2, Zenon
    <3> QED BY <2>1, <3>3, <3>4
  <2>2. elapsed' <= ReadTicks
    BY <1>5, Constants
  <2>3. Spent(retries)' = Spent(retries)
    BY <1>1 DEF Spent
  <2> QED BY <1>1, <1>6, <2>1, <2>2, <2>3, Zenon DEF TimeInv
<1>11. PastInv'
  BY <1>1, PastStays
<1>12. ResultInv' /\ SilenceIsPatient'
  <2>1. result = "none"
    BY <1>2 DEF ResultInv
  <2> QED BY <1>1, <2>1 DEF ResultInv, SilenceIsPatient
<1>13. WidthInv'
  <2>1. result = "none"
    BY <1>2 DEF ResultInv
  <2> QED BY <1>1, <2>1 DEF WidthInv
<1> QED BY <1>8, <1>9, <1>10, <1>11, <1>12, <1>13

\* What is heard was held: the outputs it names are the client's or have had one.
LEMMA HeardWasHeld ==
    ASSUME IInv
    PROVE  /\ Named(Heard(got)) \subseteq Named(past)
           /\ Named(Heard(got)) \subseteq DOMAIN Heads
<1>1. \A x \in got : x[2] \in past[x[1]]
  BY DEF PastInv
<1>2. \A f \in Frags : Heard(got)[f] \subseteq past[f]
  BY <1>1 DEF Heard
<1> QED BY <1>2, NamedGrows

\* The width a read ends with is the greater of the old one and the adopted one.
LEMMA WidthAdopted ==
    ASSUME IInv
    PROVE  LET w == Max({width, Adopted(got)})
           IN  /\ w \in {MaxStation} \cup extra /\ w >= width /\ w \in 1 .. Len(Heads)
               /\ \A i \in Named(Heard(got)) : i <= w
<1> DEFINE a == Adopted(got)
           w == Max({width, a})
<1>1. /\ a \in {MaxStation} \cup Named(Heard(got)) /\ a \in Nat
      /\ \A i \in Named(Heard(got)) : i <= a
  BY HeardWasHeld, AdoptedWidth
<1>2. /\ width \in 1 .. Len(Heads) /\ MaxStation <= width /\ width \in {MaxStation} \cup extra
      /\ width \in Nat /\ extra \subseteq DOMAIN Heads
  BY Constants DEF TypeOK, WidthInv
<1>3. w \in {width, a} /\ w >= width /\ w >= a
  BY <1>1, <1>2, OfTwo
<1>4. Named(past) \ (1 .. MaxStation) \subseteq extra
  BY DEF PastInv
<1> HIDE DEF a, w
<1>5. w \in {MaxStation} \cup extra
  <2>1. CASE w = width
    BY <1>2, <2>1
  <2>2. CASE w = a
    <3>1. CASE a = MaxStation
      BY <2>2, <3>1
    <3>2. CASE a \in Named(past)
      <4>1. a \in 1 .. MaxStation => a = width
        BY <1>1, <1>2, <1>3, <2>2, Constants, SMT
      <4> QED BY <1>2, <1>4, <2>2, <3>2, <4>1
    <3> QED BY <1>1, HeardWasHeld, <3>1, <3>2
  <2> QED BY <1>3, <2>1, <2>2
<1>6. w \in 1 .. Len(Heads)
  BY <1>2, <1>5, Constants
<1>7. ASSUME NEW i \in Named(Heard(got)) PROVE i <= w
  <2>1. i \in 1 .. Len(Heads) /\ i <= a
    BY <1>1, HeardWasHeld, Constants
  <2> QED BY <1>1, <1>3, <1>6, <2>1, Constants, SMT
<1> QED BY <1>3, <1>5, <1>6, <1>7 DEF a, w

\* A read ends: it has the names only if all are there, and calls the link silent
\* only after the time that takes.
LEMMA Ends ==
    ASSUME IInv, phase # "done",
           NEW r \in {"names", "silent", "invalid", "dropped"}, End(r),
           asked' \in 0 .. MaxAsked,
           UNCHANGED <<names, air, up, past, extra>>,
           r = "names" => Complete(got),
           r = "silent" => elapsed > IdleTicks /\ (held => clock >= Spent(0) + IdleTicks + 1)
    PROVE  IInv'
<1>1. /\ phase' = "done" /\ result' = r
      /\ width' = IF r = "names" THEN Max({width, Adopted(got)}) ELSE width
      /\ got' = got /\ arrived' = arrived /\ quiet' = quiet /\ elapsed' = elapsed
      /\ grace' = grace /\ retries' = retries /\ held' = held /\ clock' = clock
      /\ names' = names /\ air' = air /\ up' = up /\ past' = past /\ extra' = extra
  BY Zenon DEF End
<1>2. /\ width' \in {MaxStation} \cup extra /\ width' \in 1 .. Len(Heads) /\ MaxStation <= width'
      /\ r = "names" => \A i \in Named(Heard(got)) : i <= width'
  <2>1. width \in {MaxStation} \cup extra /\ width \in 1 .. Len(Heads) /\ MaxStation <= width
    BY DEF TypeOK, WidthInv
  <2>2. CASE r = "names"
    <3>1. width' = Max({width, Adopted(got)})
      BY <1>1, <2>2, Zenon
    <3>2. /\ width' \in {MaxStation} \cup extra /\ width' >= width /\ width' \in 1 .. Len(Heads)
          /\ \A i \in Named(Heard(got)) : i <= width'
      BY <3>1, WidthAdopted, Zenon
    <3> QED BY <2>1, <3>2, Constants
  <2>3. CASE r # "names"
    BY <1>1, <2>1, <2>3
  <2> QED BY <2>2, <2>3
<1>3. TypeOK'
  <2>1. /\ names' \in [Frags -> Values] /\ air' \in Seq(Frags \X Values) /\ up' \in BOOLEAN
        /\ got' \subseteq Frags \X Values /\ arrived' \in BOOLEAN /\ grace' \in BOOLEAN
        /\ quiet' \in 0 .. IdleTicks /\ elapsed' \in (0 .. ReadTicks) \cup (0 .. PauseTicks)
        /\ retries' \in 0 .. InPlaceRetries /\ extra' \subseteq DOMAIN Heads
        /\ held' \in BOOLEAN /\ clock' <= Bound
    BY <1>1, Zenon DEF TypeOK
  <2>2. phase' \in {"poll", "pause", "done"}
        /\ result' \in {"none", "names", "silent", "invalid", "dropped"}
    BY <1>1
  <2> QED BY <1>2, <2>1, <2>2, Zenon DEF TypeOK
<1>4. AskedInv' /\ TimeInv'
  <2>1. clock' \in Nat
    BY <1>1 DEF TimeInv
  <2> QED BY <1>1, <2>1 DEF AskedInv, TimeInv
<1>5. PastInv'
  BY <1>1, PastStays
<1>6. ResultInv'
  <2>1. r = "names" => Complete(got)'
    BY <1>1 DEF Complete
  <2> QED BY <1>1, <2>1 DEF ResultInv
<1>7. WidthInv'
  <2>1. Named(Heard(got))' = Named(Heard(got))
    BY <1>1 DEF Named, Heard
  <2> QED BY <1>1, <1>2, <2>1, Zenon DEF WidthInv
<1>8. SilenceIsPatient'
  BY <1>1, Rounds DEF SilenceIsPatient
<1> QED BY <1>3, <1>4, <1>5, <1>6, <1>7, <1>8

\* Every pass of the loop keeps the invariant.
LEMMA PollKeeps == ASSUME IInv, Poll PROVE IInv'
<1>1. /\ UNCHANGED radio
      /\ PollDropped \/ PollQuiet \/ PollEmpty \/ PollFrames \/ PollTimeout
      /\ UNCHANGED <<names, air, up, past, extra>> /\ asked' = asked
  BY Zenon DEF Poll
<1>2. phase = "poll"
  BY <1>1 DEF PollDropped, PollQuiet, PollEmpty, PollFrames, PollTimeout, Polling
<1>3. /\ elapsed \in Nat /\ elapsed <= ReadTicks /\ quiet \in 0 .. IdleTicks /\ quiet \in Nat
      /\ retries \in 0 .. InPlaceRetries /\ asked \in 0 .. MaxAsked /\ grace \in BOOLEAN
  <2>1. grace \in BOOLEAN
    BY Zenon DEF TypeOK
  <2> QED BY <1>2, <2>1, Constants DEF TypeOK, TimeInv
<1>4. clock = Spent(retries) + elapsed /\ clock \in Nat /\ clock <= Bound
  BY <1>2 DEF TypeOK, TimeInv
\* The loop ends with a verdict, but "silent".
<1>5. ASSUME NEW r \in {"names", "invalid", "dropped"}, End(r), r = "names" => Complete(got)
      PROVE  IInv'
  BY <1>1, <1>2, <1>3, <1>5, Ends
<1>6. CASE PollDropped \/ PollTimeout
  <2>1. End("dropped") \/ End("invalid")
    BY <1>6, Zenon DEF PollDropped, PollTimeout
  <2> QED BY <1>5, <2>1
<1>7. CASE PollQuiet
  <2>1. Polling /\ Silence < IdleTicks /\ KeepPolling(grace)
    BY <1>7, Zenon DEF PollQuiet
  <2> QED BY <1>1, <1>3, <2>1, GoesOn, Zenon
<1>8. CASE PollFrames
  <2>1. Polling /\ got # {} /\ Complete(got) => End("names")
    BY <1>8, Zenon DEF PollFrames
  <2>2. ~Complete(got) => KeepPolling(TRUE) \/ End("invalid")
    BY <1>8, Zenon DEF PollFrames
  <2>3. Polling /\ got # {} /\ TRUE \in BOOLEAN
    BY <1>8, Zenon DEF PollFrames
  <2>4. CASE KeepPolling(TRUE)
    BY <1>1, <2>3, <2>4, GoesOn, Zenon
  <2>5. CASE (Complete(got) /\ End("names")) \/ End("invalid")
    BY <1>5, <2>5
  <2> QED BY <2>1, <2>2, <2>3, <2>4, <2>5, Zenon
<1>9. CASE PollEmpty
  <2>1. Polling /\ up /\ Silence >= IdleTicks /\ got = {}
    BY <1>9, Zenon DEF PollEmpty
  <2>2. CASE ~grace
    <3>1. KeepPolling(TRUE)
      BY <1>9, <2>2, Zenon DEF PollEmpty
    <3> QED BY <1>1, <2>1, <2>2, <3>1, GoesOn, Zenon
  <2>3. CASE grace
    <3>1. elapsed = IdleTicks + 1
      BY <1>2, <2>1, <2>3 DEF TimeInv
    <3>2. CASE held /\ retries > 0 /\ phase' = "pause"
      <4>1. /\ phase' = "pause" /\ elapsed' = 0 /\ retries' = retries - 1
            /\ got' = got /\ arrived' = arrived /\ quiet' = quiet /\ grace' = grace
            /\ result' = result /\ width' = width /\ held' = held /\ clock' = clock
        BY <1>9, <2>3, <3>2, Zenon DEF PollEmpty, End
      <4>2. /\ names' = names /\ asked' = asked /\ air' = air /\ up' = up
            /\ past' = past /\ extra' = extra
        BY <1>1, Zenon
      <4>3. retries' \in 0 .. InPlaceRetries /\ retries' < InPlaceRetries
        BY <1>3, <3>2, <4>1, Constants, SMT
      <4>4. TypeOK'
        <5>1. /\ names' \in [Frags -> Values] /\ air' \in Seq(Frags \X Values) /\ up' \in BOOLEAN
              /\ asked' \in 0 .. MaxAsked
              /\ got' \subseteq Frags \X Values /\ arrived' \in BOOLEAN /\ grace' \in BOOLEAN
              /\ quiet' \in 0 .. IdleTicks
              /\ result' \in {"none", "names", "silent", "invalid", "dropped"}
              /\ width' \in 1 .. Len(Heads) /\ extra' \subseteq DOMAIN Heads
              /\ held' \in BOOLEAN /\ clock' <= Bound
          BY <4>1, <4>2, Zenon DEF TypeOK
        <5>2. elapsed' \in (0 .. ReadTicks) \cup (0 .. PauseTicks)
          BY <4>1, Constants
        <5> QED BY <4>1, <4>3, <5>1, <5>2 DEF TypeOK
      <4>5. AskedInv'
        <5>1. asked + retries <= MaxAsked
          BY <1>2 DEF AskedInv
        <5> QED BY <1>3, <4>1, <4>2, <4>3, <5>1, Constants DEF AskedInv
      <4>6. TimeInv'
        <5>1. Spent(retries - 1) = Spent(retries) + Round /\ Round = IdleTicks + 1 + PauseTicks
              /\ Spent(retries) \in Nat
          BY <1>3, <3>2, Rounds
        <5>2. Spent(retries)' = Spent(retries - 1)
          BY <4>1 DEF Spent
        <5>3. clock' = Spent(retries)' - PauseTicks + elapsed'
          BY <1>3, <1>4, <3>1, <4>1, <5>1, <5>2, Constants
        <5> QED BY <1>4, <4>1, <5>3, Constants DEF TimeInv
      <4>7. PastInv'
        BY <4>1, <4>2, PastStays
      <4>8. result = "none"
        BY <1>2 DEF ResultInv
      <4>9. ResultInv' /\ SilenceIsPatient'
        BY <4>1, <4>8 DEF ResultInv, SilenceIsPatient
      <4>10. WidthInv'
        BY <4>1, <4>2, <4>8 DEF WidthInv
      <4> QED BY <4>4, <4>5, <4>6, <4>7, <4>9, <4>10
    <3>3. CASE (~held \/ retries = 0) /\ End("silent")
      <4>1. elapsed > IdleTicks
        BY <3>1, Constants
      <4>2. ASSUME held PROVE clock >= Spent(0) + IdleTicks + 1
        <5>1. Spent(0) \in Nat
          BY Rounds, Constants
        <5>2. retries = 0
          BY <3>3, <4>2
        <5> QED BY <1>4, <3>1, <5>1, <5>2, Constants
      <4> QED BY <1>1, <1>2, <1>3, <3>3, <4>1, <4>2, Ends
    <3>4. (held /\ retries > 0 /\ phase' = "pause") \/ ((~held \/ retries = 0) /\ End("silent"))
      BY <1>9, <2>3, Zenon DEF PollEmpty
    <3> QED BY <3>2, <3>3, <3>4
  <2> QED BY <2>2, <2>3
<1> QED BY <1>1, <1>6, <1>7, <1>8, <1>9

-----------------------------------------------------------------------------
(* The pause, the radio, and renames.                                      *)

\* The pause is counted, and a request follows it.
LEMMA PauseKeeps == ASSUME IInv, Pause PROVE IInv'
<1>1. /\ phase = "pause" /\ elapsed < PauseTicks /\ elapsed' = elapsed + 1 /\ Elapse
      /\ phase' = phase /\ got' = got /\ arrived' = arrived /\ quiet' = quiet /\ grace' = grace
      /\ retries' = retries /\ result' = result /\ width' = width /\ held' = held
      /\ names' = names /\ asked' = asked /\ air' = air /\ up' = up /\ past' = past /\ extra' = extra
  BY Zenon DEF Pause
<1>2. clock' = clock + 1 /\ clock \in Nat /\ clock = Spent(retries) - PauseTicks + elapsed
  BY <1>1, PollTick DEF TimeInv
<1>3. retries \in 0 .. InPlaceRetries /\ elapsed \in Nat
  BY Constants DEF TypeOK
<1>4. clock' \in Nat /\ clock' <= Bound /\ clock' = Spent(retries) - PauseTicks + elapsed'
  <2>1. Spent(retries) \in Nat /\ Spent(retries) <= Spent(0) /\ Spent(0) \in Nat
        /\ Bound = Spent(0) + ReadTicks
    BY <1>3, Rounds, Constants
  <2> QED BY <1>1, <1>2, <1>3, <2>1, Constants
<1>5. TypeOK'
  <2>1. /\ names' \in [Frags -> Values] /\ air' \in Seq(Frags \X Values) /\ up' \in BOOLEAN
        /\ asked' \in 0 .. MaxAsked /\ phase' \in {"poll", "pause", "done"}
        /\ got' \subseteq Frags \X Values /\ arrived' \in BOOLEAN /\ grace' \in BOOLEAN
        /\ quiet' \in 0 .. IdleTicks /\ retries' \in 0 .. InPlaceRetries
        /\ result' \in {"none", "names", "silent", "invalid", "dropped"}
        /\ width' \in 1 .. Len(Heads) /\ extra' \subseteq DOMAIN Heads /\ held' \in BOOLEAN
    BY <1>1, Zenon DEF TypeOK
  <2>2. elapsed' \in (0 .. ReadTicks) \cup (0 .. PauseTicks)
    BY <1>1, <1>3, Constants
  <2> QED BY <1>4, <2>1, <2>2, Zenon DEF TypeOK
<1>6. AskedInv'
  BY <1>1, Zenon DEF AskedInv
<1>7. TimeInv'
  <2>1. Spent(retries)' = Spent(retries)
    BY <1>1 DEF Spent
  <2> QED BY <1>1, <1>3, <1>4, <2>1, Constants DEF TimeInv
<1>8. PastInv'
  BY <1>1, PastStays
<1>9. result = "none"
  BY <1>1 DEF ResultInv
<1>10. ResultInv' /\ SilenceIsPatient' /\ WidthInv'
  BY <1>1, <1>9 DEF ResultInv, SilenceIsPatient, WidthInv
<1> QED BY <1>5, <1>6, <1>7, <1>8, <1>10

LEMMA RerequestKeeps == ASSUME IInv, Rerequest PROVE IInv'
<1>1. /\ phase = "pause" /\ elapsed = PauseTicks
      /\ names' = names /\ air' = air /\ up' = up /\ past' = past /\ extra' = extra
      /\ clock' = clock /\ held' = held
  BY Zenon DEF Rerequest, End
<1>2. /\ clock \in Nat /\ clock <= Bound /\ clock = Spent(retries)
      /\ asked \in 0 .. MaxAsked /\ retries \in 0 .. InPlaceRetries
  <2>1. clock = Spent(retries) - PauseTicks + PauseTicks /\ retries \in 0 .. InPlaceRetries
    BY <1>1 DEF TimeInv, TypeOK
  <2>2. Spent(retries) \in Nat
    BY <2>1, Rounds
  <2> QED BY <2>1, <2>2, Constants DEF TimeInv, TypeOK
<1>3. CASE ~up /\ End("dropped") /\ UNCHANGED asked
  <2>1. asked' \in 0 .. MaxAsked
    BY <1>1, <1>2, <1>3
  <2> QED BY <1>1, <1>3, <2>1, Ends
<1>4. CASE up /\ Request(asked) /\ UNCHANGED <<retries, result, width, held, clock>>
  <2>1. /\ phase' = "poll" /\ got' = {} /\ arrived' = FALSE /\ quiet' = 0 /\ elapsed' = 0
        /\ grace' = FALSE /\ asked' = asked + 1
        /\ retries' = retries /\ result' = result /\ width' = width
    BY <1>4, Zenon DEF Request
  <2>2. asked + retries < MaxAsked
    BY <1>1 DEF AskedInv
  <2>3. asked' \in 0 .. MaxAsked /\ asked' + retries' <= MaxAsked
    BY <1>2, <2>1, <2>2, Constants
  <2>4. TypeOK'
    <3>1. /\ names' \in [Frags -> Values] /\ air' \in Seq(Frags \X Values) /\ up' \in BOOLEAN
          /\ retries' \in 0 .. InPlaceRetries
          /\ result' \in {"none", "names", "silent", "invalid", "dropped"}
          /\ width' \in 1 .. Len(Heads) /\ extra' \subseteq DOMAIN Heads /\ held' \in BOOLEAN
      BY <1>1, <2>1, Zenon DEF TypeOK
    <3>2. arrived' \in BOOLEAN /\ grace' \in BOOLEAN
      BY <2>1, Zenon
    <3> QED BY <1>1, <1>2, <2>1, <2>3, <3>1, <3>2, Constants DEF TypeOK
  <2>5. AskedInv'
    BY <2>1, <2>3 DEF AskedInv
  <2>6. TimeInv'
    <3>1. Spent(retries)' = Spent(retries) /\ clock' = Spent(retries) + 0
      BY <1>1, <1>2, <2>1, Rounds DEF Spent
    <3>2. ~arrived' /\ ~grace'
      BY <2>1, Zenon
    <3> QED BY <1>1, <1>2, <2>1, <3>1, <3>2, Constants DEF TimeInv
  <2>7. PastInv'
    <3>1. Named(past)' = Named(past)
      BY <1>1 DEF Named
    <3> QED BY <1>1, <2>1, <3>1 DEF PastInv
  <2>8. result = "none"
    BY <1>1 DEF ResultInv
  <2>9. ResultInv' /\ SilenceIsPatient' /\ WidthInv'
    BY <1>1, <2>1, <2>8 DEF ResultInv, SilenceIsPatient, WidthInv
  <2> QED BY <2>4, <2>5, <2>6, <2>7, <2>9
<1> QED BY <1>3, <1>4, Zenon DEF Rerequest

\* A step of the radio that leaves the reader alone, and asks for nothing.
LEMMA RadioKeeps ==
    ASSUME IInv, UNCHANGED <<reader, clock>>,
           names' \in [Frags -> Values], air' \in Seq(Frags \X Values), up' \in BOOLEAN,
           asked' \in 0 .. asked, extra' \subseteq DOMAIN Heads, extra \subseteq extra', PastInv'
    PROVE  IInv'
<1>1. /\ phase' = phase /\ got' = got /\ arrived' = arrived /\ quiet' = quiet /\ elapsed' = elapsed
      /\ grace' = grace /\ retries' = retries /\ result' = result /\ width' = width /\ clock' = clock
      /\ held' = held
  BY Zenon
<1>2. asked \in 0 .. MaxAsked /\ retries \in 0 .. InPlaceRetries
  BY DEF TypeOK
<1>3. asked' \in 0 .. MaxAsked /\ asked' <= asked
  BY <1>2, Constants
<1>4. TypeOK'
  <2>1. /\ phase' \in {"poll", "pause", "done"}
        /\ got' \subseteq Frags \X Values /\ arrived' \in BOOLEAN /\ grace' \in BOOLEAN
        /\ quiet' \in 0 .. IdleTicks /\ elapsed' \in (0 .. ReadTicks) \cup (0 .. PauseTicks)
        /\ retries' \in 0 .. InPlaceRetries
        /\ result' \in {"none", "names", "silent", "invalid", "dropped"}
        /\ width' \in 1 .. Len(Heads) /\ clock' <= Bound /\ held' \in BOOLEAN
    BY <1>1, Zenon DEF TypeOK
  <2> QED BY <1>3, <2>1, Zenon DEF TypeOK
<1>5. AskedInv'
  <2>1. /\ phase = "poll" => asked + retries <= MaxAsked
        /\ phase = "pause" => asked + retries < MaxAsked /\ retries < InPlaceRetries
    BY DEF AskedInv
  <2>2. \A x, y, z, m \in Int : y <= x =>
           /\ x + z <= m => y + z <= m
           /\ x + z < m => y + z < m
    BY SMT
  <2>3. asked \in Int /\ asked' \in Int /\ retries \in Int /\ MaxAsked \in Int
    BY <1>2, <1>3, Constants
  <2> QED BY <1>1, <1>3, <2>1, <2>2, <2>3, Zenon DEF AskedInv
<1>6. TimeInv'
  <2>1. Spent(retries)' = Spent(retries)
    BY <1>1 DEF Spent
  <2>2. /\ clock' \in Nat
        /\ phase' = "poll" => elapsed' <= ReadTicks /\ clock' = Spent(retries)' + elapsed'
        /\ phase' = "pause" => elapsed' <= PauseTicks
                              /\ clock' = Spent(retries)' - PauseTicks + elapsed'
    BY <1>1, <2>1, Zenon DEF TimeInv
  <2>3. phase' = "poll" /\ got' = {} =>
           /\ ~arrived'
           /\ grace' => elapsed' = IdleTicks + 1 /\ quiet' = IdleTicks
           /\ ~grace' => elapsed' <= IdleTicks /\ quiet' = elapsed'
    <3>1. phase = "poll" /\ got = {} =>
             /\ ~arrived
             /\ grace => elapsed = IdleTicks + 1 /\ quiet = IdleTicks
             /\ ~grace => elapsed <= IdleTicks /\ quiet = elapsed
      BY Zenon DEF TimeInv
    <3> QED BY <1>1, <3>1
  <2> QED BY <2>2, <2>3, Zenon DEF TimeInv
<1>7. ResultInv'
  <2>1. Complete(got)' = Complete(got)
    BY <1>1 DEF Complete
  <2> QED BY <1>1, <2>1, Zenon DEF ResultInv
<1>8. WidthInv'
  <2>1. Named(Heard(got))' = Named(Heard(got))
    BY <1>1 DEF Named, Heard
  <2> QED BY <1>1, <2>1 DEF WidthInv
<1>9. SilenceIsPatient'
  BY <1>1 DEF SilenceIsPatient
<1> QED BY <1>4, <1>5, <1>6, <1>7, <1>8, <1>9

\* The answer of the controller: its names, each fragment once.
LEMMA AnswerFragments ==
    ASSUME names \in [Frags -> Values]
    PROVE  LET order == SetToSeq(Frags)
               s == [i \in DOMAIN order |-> <<order[i], names[order[i]]>>]
           IN  /\ s \in Seq(Frags \X Values)
               /\ \A i \in DOMAIN s : s[i][1] \in Frags /\ s[i][2] = names[s[i][1]]
<1> DEFINE order == SetToSeq(Frags)
           s == [i \in DOMAIN order |-> <<order[i], names[order[i]]>>]
           n == Cardinality(Frags)
<1>1. order \in [1 .. n -> Frags] /\ n \in Nat
  <2>1. n \in Nat /\ ExistsBijection(1 .. n, Frags)
    BY TicksAssumption, FS_CardinalityType
  <2>2. \E f \in [1 .. n -> Frags] : IsInjective(f)
    BY <2>1 DEF ExistsBijection, Bijection, Injection
  <2> QED BY <2>1, <2>2 DEF SetToSeq
<1> HIDE DEF order, n
<1>2. s \in [1 .. n -> Frags \X Values] /\ DOMAIN order = 1 .. n
  BY <1>1
<1>3. \A i \in DOMAIN s : s[i][1] \in Frags /\ s[i][2] = names[s[i][1]]
  BY <1>1
<1>4. s \in Seq(Frags \X Values)
  <2> HIDE DEF s
  <2> QED BY <1>1, <1>2
<1> QED BY <1>3, <1>4 DEF order

\* What the radio steps keep of the history when no name changes.
LEMMA PastOfAir ==
    ASSUME PastInv, names' = names, past' = past, extra' = extra,
           \A x \in got' : x[2] \in past[x[1]],
           \A i \in DOMAIN air' : air'[i][2] \in past[air'[i][1]]
    PROVE  PastInv'
<1>1. Named(past)' = Named(past)
  BY DEF Named
<1> QED BY <1>1, Zenon DEF PastInv

LEMMA AnswerKeeps == ASSUME IInv, Answer PROVE IInv'
<1> DEFINE order == SetToSeq(Frags)
           s == [i \in DOMAIN order |-> <<order[i], names[order[i]]>>]
<1>1. /\ air' = air \o s /\ asked > 0 /\ asked' = asked - 1
      /\ names' = names /\ up' = up /\ past' = past /\ extra' = extra
      /\ UNCHANGED <<reader, clock>> /\ got' = got
  BY Zenon DEF Answer
<1>2. /\ names \in [Frags -> Values] /\ air \in Seq(Frags \X Values) /\ asked \in 0 .. MaxAsked
      /\ extra \subseteq DOMAIN Heads
  BY DEF TypeOK
<1>3. up \in BOOLEAN
  BY Zenon DEF TypeOK
<1>4. s \in Seq(Frags \X Values) /\ \A i \in DOMAIN s : s[i][1] \in Frags /\ s[i][2] = names[s[i][1]]
  BY <1>2, AnswerFragments
<1>5. /\ \A f \in Frags : names[f] \in past[f]
      /\ \A i \in DOMAIN air : air[i][2] \in past[air[i][1]]
      /\ \A x \in got : x[2] \in past[x[1]]
  BY DEF PastInv
<1> HIDE DEF s
<1>6. ASSUME NEW i \in DOMAIN air' PROVE air'[i][2] \in past[air'[i][1]]
  <2>1. air'[i] = IF i <= Len(air) THEN air[i] ELSE s[i - Len(air)]
    BY <1>1, <1>2, <1>4
  <2>2. CASE i \in DOMAIN air
    BY <1>2, <1>5, <2>1, <2>2
  <2>3. CASE i \notin DOMAIN air
    <3>1. i - Len(air) \in DOMAIN s /\ ~(i <= Len(air))
      BY <1>1, <1>2, <1>4, <1>6, <2>3
    <3> QED BY <1>4, <1>5, <2>1, <3>1
  <2> QED BY <2>2, <2>3
<1>7. PastInv'
  BY <1>1, <1>5, <1>6, PastOfAir
<1>8. air' \in Seq(Frags \X Values) /\ asked' \in 0 .. asked
  BY <1>1, <1>2, <1>4, Constants
<1>9. extra' \subseteq DOMAIN Heads /\ extra \subseteq extra' /\ names' \in [Frags -> Values]
  BY <1>1, <1>2
<1>10. up' \in BOOLEAN
  BY <1>1, <1>3, Zenon
<1> QED BY <1>1, <1>7, <1>8, <1>9, <1>10, RadioKeeps

\* Requests ignored, fragments lost, the link dropped: the air only shrinks.
LEMMA LossKeeps == ASSUME IInv, Ignore \/ Lose \/ LinkDrops PROVE IInv'
<1>1. /\ names' = names /\ past' = past /\ extra' = extra
      /\ UNCHANGED <<reader, clock>> /\ got' = got
      /\ up' \in {up, FALSE}
  BY Zenon DEF Ignore, Lose, LinkDrops
<1>2. /\ names \in [Frags -> Values] /\ air \in Seq(Frags \X Values) /\ asked \in 0 .. MaxAsked
      /\ extra \subseteq DOMAIN Heads
  BY DEF TypeOK
<1>3. asked' \in 0 .. asked
  BY <1>2, Constants DEF Ignore, Lose, LinkDrops
<1>4. air' = air \/ air' = <<>> \/ (air # <<>> /\ air' = Tail(air))
  BY Zenon DEF Ignore, Lose, LinkDrops
<1>5. /\ \A i \in DOMAIN air : air[i][2] \in past[air[i][1]]
      /\ \A x \in got : x[2] \in past[x[1]]
  BY DEF PastInv
<1>6. air' \in Seq(Frags \X Values)
  <2>1. CASE air # <<>> /\ air' = Tail(air)
    BY <1>2, <2>1
  <2>2. CASE air' = air
    BY <1>2, <2>2
  <2>3. CASE air' = <<>>
    BY <2>3
  <2> QED BY <1>4, <2>1, <2>2, <2>3
<1>7. ASSUME NEW i \in DOMAIN air' PROVE \E j \in DOMAIN air : air'[i] = air[j]
  <2>1. CASE air' = air
    BY <1>7, <2>1
  <2>2. CASE air' = <<>>
    BY <1>7, <2>2
  <2>3. CASE air # <<>> /\ air' = Tail(air)
    <3>1. i + 1 \in DOMAIN air /\ air'[i] = air[i + 1]
      BY <1>2, <1>7, <2>3
    <3> QED BY <3>1
  <2> QED BY <1>4, <2>1, <2>2, <2>3
<1>8. PastInv'
  BY <1>1, <1>5, <1>7, PastOfAir
<1>9. up' \in BOOLEAN
  <2>1. up \in BOOLEAN
    BY Zenon DEF TypeOK
  <2> QED BY <1>1, <2>1, Zenon
<1> QED BY <1>1, <1>2, <1>3, <1>6, <1>8, <1>9, RadioKeeps

\* A notification reaches the handler: it was held, and the silence is over.
LEMMA ArriveKeeps == ASSUME IInv, Arrive PROVE IInv'
<1>1. /\ up /\ air # <<>> /\ phase # "done" /\ air' = Tail(air)
      /\ got' = got \cup {Head(air)} /\ arrived' = TRUE /\ grace' = FALSE
      /\ names' = names /\ asked' = asked /\ up' = up /\ past' = past /\ extra' = extra
      /\ phase' = phase /\ quiet' = quiet /\ elapsed' = elapsed /\ retries' = retries
      /\ result' = result /\ width' = width /\ held' = held /\ clock' = clock
  BY Zenon DEF Arrive
<1>2. air \in Seq(Frags \X Values) /\ got \subseteq Frags \X Values
  BY DEF TypeOK
<1>3. /\ Head(air) = air[1] /\ 1 \in DOMAIN air /\ air[1] \in Frags \X Values
      /\ air' \in Seq(Frags \X Values)
      /\ \A i \in DOMAIN air' : i + 1 \in DOMAIN air /\ air'[i] = air[i + 1]
  BY <1>1, <1>2
<1>4. TypeOK'
  <2>1. /\ names' \in [Frags -> Values] /\ up' \in BOOLEAN /\ asked' \in 0 .. MaxAsked
        /\ phase' \in {"poll", "pause", "done"}
        /\ quiet' \in 0 .. IdleTicks /\ elapsed' \in (0 .. ReadTicks) \cup (0 .. PauseTicks)
        /\ retries' \in 0 .. InPlaceRetries
        /\ result' \in {"none", "names", "silent", "invalid", "dropped"}
        /\ width' \in 1 .. Len(Heads) /\ extra' \subseteq DOMAIN Heads /\ clock' <= Bound
        /\ held' \in BOOLEAN
    BY <1>1, Zenon DEF TypeOK
  <2>2. arrived' \in BOOLEAN /\ grace' \in BOOLEAN
    BY <1>1, Zenon
  <2>3. got' \subseteq Frags \X Values
    BY <1>1, <1>2, <1>3
  <2> QED BY <1>3, <2>1, <2>2, <2>3, Zenon DEF TypeOK
<1>5. AskedInv'
  BY <1>1, Zenon DEF AskedInv
<1>6. TimeInv'
  <2>1. Spent(retries)' = Spent(retries) /\ got' # {}
    BY <1>1 DEF Spent
  <2>2. /\ clock' \in Nat
        /\ phase' = "poll" => elapsed' <= ReadTicks /\ clock' = Spent(retries)' + elapsed'
        /\ phase' = "pause" => elapsed' <= PauseTicks
                              /\ clock' = Spent(retries)' - PauseTicks + elapsed'
    BY <1>1, <2>1, Zenon DEF TimeInv
  <2> QED BY <2>1, <2>2, Zenon DEF TimeInv
<1>7. PastInv'
  <2>1. /\ \A i \in DOMAIN air : air[i][2] \in past[air[i][1]]
        /\ \A x \in got : x[2] \in past[x[1]]
    BY DEF PastInv
  <2>2. \A i \in DOMAIN air' : air'[i][2] \in past[air'[i][1]]
    BY <1>3, <2>1
  <2>3. \A x \in got' : x[2] \in past[x[1]]
    BY <1>1, <1>3, <2>1
  <2> QED BY <1>1, <2>2, <2>3, PastOfAir
<1>8. result = "none"
  BY <1>1 DEF ResultInv
<1>9. ResultInv' /\ SilenceIsPatient' /\ WidthInv'
  BY <1>1, <1>8 DEF ResultInv, SilenceIsPatient, WidthInv
<1> QED BY <1>4, <1>5, <1>6, <1>7, <1>9

\* The session lets the link go: what the read is owed no longer binds.
LEMMA SeverKeeps == ASSUME IInv, Sever PROVE IInv'
<1>1. /\ held' = FALSE /\ phase # "done"
      /\ phase' = phase /\ got' = got /\ arrived' = arrived /\ quiet' = quiet /\ elapsed' = elapsed
      /\ grace' = grace /\ retries' = retries /\ result' = result /\ width' = width /\ clock' = clock
      /\ names' = names /\ asked' = asked /\ air' = air /\ up' = up /\ past' = past /\ extra' = extra
  BY Zenon DEF Sever
<1>2. TypeOK' /\ AskedInv'
  BY <1>1, Zenon DEF TypeOK, AskedInv
<1>3. TimeInv'
  <2>1. Spent(retries)' = Spent(retries)
    BY <1>1 DEF Spent
  <2> QED BY <1>1, <2>1, Zenon DEF TimeInv
<1>4. PastInv'
  BY <1>1, PastStays
<1>5. result = "none"
  BY <1>1 DEF ResultInv
<1>6. ResultInv' /\ SilenceIsPatient' /\ WidthInv'
  BY <1>1, <1>5 DEF ResultInv, SilenceIsPatient, WidthInv
<1> QED BY <1>2, <1>3, <1>4, <1>6

\* A rename adds to what was held, and to the outputs that have had a name.
LEMMA RenameKeeps ==
    ASSUME IInv, NEW f \in Frags, NEW v \in Values, Rename(f, v)
    PROVE  IInv'
<1>1. /\ names' = [names EXCEPT ![f] = v]
      /\ past' = [past EXCEPT ![f] = past[f] \cup {v}]
      /\ extra' = extra \cup (Named([past EXCEPT ![f] = {v}]) \ (1 .. MaxStation))
      /\ asked' = asked /\ air' = air /\ up' = up /\ got' = got
      /\ UNCHANGED <<reader, clock>>
  BY Zenon DEF Rename
<1>2. /\ names \in [Frags -> Values] /\ air \in Seq(Frags \X Values) /\ asked \in 0 .. MaxAsked
      /\ extra \subseteq DOMAIN Heads /\ got \subseteq Frags \X Values
  BY DEF TypeOK
<1>3. /\ past \in [Frags -> SUBSET Values]
      /\ \A g \in Frags : names[g] \in past[g]
      /\ \A i \in DOMAIN air : air[i][2] \in past[air[i][1]]
      /\ \A x \in got : x[2] \in past[x[1]]
      /\ Named(past) \ (1 .. MaxStation) \subseteq extra
  BY DEF PastInv
<1>4. past' \in [Frags -> SUBSET Values] /\ \A g \in Frags : past[g] \subseteq past'[g]
  BY <1>1, <1>3
<1>5. \A g \in Frags : names'[g] \in past'[g]
  BY <1>1, <1>2, <1>3
<1>6. \A i \in DOMAIN air' : air'[i][2] \in past'[air'[i][1]]
  <2>1. \A i \in DOMAIN air : air[i][1] \in Frags
    BY <1>2
  <2> QED BY <1>1, <1>3, <1>4, <2>1
<1>7. \A x \in got' : x[2] \in past'[x[1]]
  <2>1. \A x \in got : x[1] \in Frags
    BY <1>2
  <2> QED BY <1>1, <1>3, <1>4, <2>1
<1>8. Named(past') \subseteq Named(past) \cup Named([past EXCEPT ![f] = {v}])
  <2> SUFFICES ASSUME NEW i \in DOMAIN Heads, past'[Heads[i]] \ {Blank} # {}
               PROVE  \/ past[Heads[i]] \ {Blank} # {}
                      \/ [past EXCEPT ![f] = {v}][Heads[i]] \ {Blank} # {}
    BY DEF Named
  <2>1. Heads[i] \in Frags
    BY Constants
  <2> QED BY <1>1, <1>3, <2>1
<1>9. PastInv'
  <2>1. Named(past)' = Named(past')
    BY DEF Named
  <2>2. Named(past') \ (1 .. MaxStation) \subseteq extra'
    BY <1>1, <1>3, <1>8
  <2> QED BY <1>4, <1>5, <1>6, <1>7, <2>1, <2>2, Zenon DEF PastInv
<1>10. extra' \subseteq DOMAIN Heads /\ extra \subseteq extra' /\ names' \in [Frags -> Values]
  <2>1. Named([past EXCEPT ![f] = {v}]) \subseteq DOMAIN Heads
    BY DEF Named
  <2> QED BY <1>1, <1>2, <2>1
<1>11. up' \in BOOLEAN
  <2>1. up \in BOOLEAN
    BY Zenon DEF TypeOK
  <2> QED BY <1>1, <2>1, Zenon
<1>12. air' \in Seq(Frags \X Values) /\ asked' \in 0 .. asked
  BY <1>1, <1>2, Constants
<1> QED BY <1>1, <1>9, <1>10, <1>11, <1>12, RadioKeeps

LEMMA InvKept == IInv /\ [Next]_vars => IInv'
<1> SUFFICES ASSUME IInv, [Next]_vars PROVE IInv'
  OBVIOUS
<1>1. CASE UNCHANGED vars
  <2>1. /\ UNCHANGED <<reader, clock>> /\ names' = names /\ asked' = asked /\ air' = air
        /\ up' = up /\ past' = past /\ extra' = extra /\ got' = got
    BY <1>1, Zenon DEF vars
  <2>2. /\ names' \in [Frags -> Values] /\ air' \in Seq(Frags \X Values) /\ up' \in BOOLEAN
        /\ extra' \subseteq DOMAIN Heads
    BY <2>1, Zenon DEF TypeOK
  <2>3. asked' \in 0 .. asked /\ extra \subseteq extra'
    BY <2>1, Constants DEF TypeOK
  <2>4. PastInv'
    BY <2>1, PastStays
  <2> QED BY <2>1, <2>2, <2>3, <2>4, RadioKeeps
<1>2. CASE Next
  BY <1>2, NewReadKeeps, PollKeeps, PauseKeeps, RerequestKeeps, AnswerKeeps, LossKeeps,
     ArriveKeeps, SeverKeeps, RenameKeeps, Zenon DEF Next
<1> QED BY <1>1, <1>2

LEMMA InvAlways == Spec => []IInv
BY InitInv, InvKept, PTL DEF Spec

-----------------------------------------------------------------------------
(* The theorems.                                                           *)

\* The types, and that a read is over within its windows and pauses, however
\* fragments come: _read_station_names_on_connection.
THEOREM TypeCorrect == Spec => []TypeOK
BY InvAlways, PTL

\* The names a read returns are each there once, and were held since it began:
\* StationNameSnapshot.from_frames judges a response, on a link where requests
\* are answered late, twice or in part.
THEOREM NamesAreComplete == Spec => []NamesComplete
<1>1. IInv => NamesComplete
  <2> SUFFICES ASSUME IInv, result = "names", NEW f \in Frags
               PROVE  /\ Cardinality({x \in got : x[1] = f}) = 1
                      /\ \E x \in got : x[1] = f /\ x[2] \in past[f]
    BY DEF NamesComplete
  <2>1. PICK x \in got : x[1] = f
    BY DEF ResultInv, Complete
  <2>2. \A y \in got : y[1] = x[1] => y = x
    BY <2>1 DEF ResultInv, Complete
  <2>3. {y \in got : y[1] = f} = {x}
    BY <2>1, <2>2
  <2>4. Cardinality({x}) = 1
    BY FS_Singleton
  <2>5. x[2] \in past[f]
    BY <2>1 DEF PastInv
  <2> QED BY <2>1, <2>3, <2>4, <2>5
<1> QED BY <1>1, InvAlways, PTL

\* SolemSilentLink: raised no sooner than one poll after an idle window since
\* the last request, and on a link the session holds not before every
\* re-request and pause, for any length of theirs and any number of re-requests.
THEOREM SilencePatient == Spec => []SilenceIsPatient
BY InvAlways, PTL

\* station_count: the client's width is its own or an output that has had a
\* name, covers the names it returns, and never falls.
THEOREM WidthCorrect == Spec => WidthTrue
<1>1. IInv => /\ width \in {MaxStation} \cup extra
              /\ result = "names" => \A i \in Named(Heard(got)) : i <= width
  BY DEF WidthInv
<1>2. IInv /\ [Next]_vars => width' >= width
  <2> SUFFICES ASSUME IInv, [Next]_vars PROVE width' >= width
    OBVIOUS
  <2>1. width \in Nat
    BY Constants DEF TypeOK
  <2>2. width' = width \/ width' = Max({width, Adopted(got)})
    <3>1. ASSUME NEW r, End(r)
          PROVE  width' = width \/ width' = Max({width, Adopted(got)})
      BY <3>1, Zenon DEF End
    <3>2. CASE Poll
      BY <3>1, <3>2, Zenon DEF Poll, PollDropped, PollQuiet, PollEmpty, PollFrames, PollTimeout, KeepPolling
    <3>3. CASE Rerequest
      BY <3>1, <3>3, Zenon DEF Rerequest
    <3>4. CASE ~Poll /\ ~Rerequest
      BY <3>4, Zenon DEF Next, vars, NewRead, Pause, Answer, Ignore, Arrive, Lose, LinkDrops, Sever, Rename
    <3> QED BY <3>2, <3>3, <3>4
  <2>3. Max({width, Adopted(got)}) >= width
    BY WidthAdopted, Zenon
  <2> QED BY <2>1, <2>2, <2>3
<1>3. IInv /\ [Next]_vars => [width' >= width]_vars
  BY <1>2
<1> QED BY <1>1, <1>3, InvAlways, PTL DEF Spec, WidthTrue
=============================================================================
