-------------------------- MODULE ProgramEditProofs --------------------------
(***************************************************************************)
(* Theorems about ProgramEdit, for every number of programs, slots, days   *)
(* and edits, every patch and every request: types, the exactness of       *)
(* restores, of patches and of sets, and the days on which interval        *)
(* programs run.                                                           *)
(*                                                                         *)
(* The inductive invariant IInv says what each piece of state is made of;  *)
(* the rest is about the codec: what a byte of a packed, a patched or a    *)
(* counted-down program is (PackedBlock, PatchedByte, MidnightBlock), what *)
(* a transfer leaves (StoredAt), and that what is packed or patched reads  *)
(* back (HasBytesReads, PatchReads).                                       *)
(***************************************************************************)
EXTENDS ProgramEdit, SequenceTheorems, FiniteSetTheorems, TLAPS

-----------------------------------------------------------------------------
(* Numbers, and their bytes. *)

\* The chunks, one by one.
LEMMA ChunksAre == Chunks = {0, 1, 2, 3, 4, 5, 6} /\ 0 \in Chunks /\ Header \in Chunks
BY DEF Chunks, Header

\* The offsets of the bytes of each chunk.
LEMMA OffsetsAre ==
    /\ Offsets(0) = 4 .. 19 /\ Offsets(1) = 4 .. 19 /\ Offsets(2) = 4 .. 15 /\ Offsets(3) = 4 .. 19
    /\ Offsets(4) = 4 .. 18 /\ Offsets(5) = 4 .. 18 /\ Offsets(6) = 4 .. 9
BY DEF Offsets, FrameLength

\* Wherever the bytes of a chunk are.
LEMMA OffsetsWithin ==
    ASSUME NEW k \in Chunks, NEW o \in Offsets(k)
    PROVE  o \in Int /\ 4 <= o /\ o <= 19 /\ (k = 2 => o <= 15)
<1>1. k \in {0, 1, 3} => o \in 4 .. 19
  BY OffsetsAre
<1>2. k = 2 => o \in 4 .. 15
  BY OffsetsAre
<1>3. k \in {4, 5} => o \in 4 .. 18
  BY OffsetsAre
<1>4. k = 6 => o \in 4 .. 9
  BY OffsetsAre
<1> QED BY <1>1, <1>2, <1>3, <1>4, ChunksAre

\* The largest of one number is that number.
LEMMA MaxOfOne == \A i \in Int : Max({i}) = i
<1> TAKE i \in Int
<1> DEFINE IsMax(x) == \A y \in {i} : x >= y
<1>1. i \in {i} /\ IsMax(i)
  OBVIOUS
<1>2. (CHOOSE x \in {i} : IsMax(x)) \in {i}
  BY <1>1
<1> QED BY <1>2 DEF Max

\* A member of a set that no member is below is its least.
LEMMA MinIs ==
    ASSUME NEW S \in SUBSET Int, NEW m \in S, \A y \in S : m <= y
    PROVE  Min(S) = m
<1> DEFINE IsMin(x) == \A y \in S : x =< y
<1>1. IsMin(m)
  OBVIOUS
<1>2. (CHOOSE x \in S : IsMin(x)) \in S /\ IsMin(CHOOSE x \in S : IsMin(x))
  BY <1>1
<1>3. \A x \in S : IsMin(x) => x = m
  OBVIOUS
<1> QED BY <1>2, <1>3 DEF Min

\* The remainder of a number that is written with one.
LEMMA ModUnique ==
    ASSUME NEW n \in Nat \ {0}, NEW q \in Int, NEW r \in 0 .. n - 1
    PROVE  (n * q + r) % n = r
OBVIOUS

\* A number from its quotient and its remainder.
LEMMA ModDef ==
    ASSUME NEW n \in Nat \ {0}, NEW a \in Int
    PROVE  a % n \in 0 .. n - 1 /\ a = n * (a \div n) + (a % n) /\ a \div n \in Int
OBVIOUS

\* A byte is a number from 0 to 255.
LEMMA ByteIs == Byte \subseteq Int /\ 0 \in Byte /\ \A v \in Int : v \in Byte <=> 0 <= v /\ v <= 255
BY DEF Byte

\* A word is below 65536.
LEMMA MaxWordIs == MaxWord \in Int /\ MaxWord >= 65535 /\ MaxWord < 65536
BY DEF MaxWord

\* The two bytes of a word are bytes, and make the word again.
LEMMA Bytes2Back ==
    ASSUME NEW v \in 0 .. MaxWord
    PROVE  /\ Bytes2(v)[1] \in Byte /\ Bytes2(v)[2] \in Byte
           /\ 256 * Bytes2(v)[1] + Bytes2(v)[2] = v
BY ByteIs, MaxWordIs DEF Bytes2

\* A duration is below 2^24.
LEMMA MaxDurationIs == MaxDuration \in Int /\ 0 <= MaxDuration /\ MaxDuration < 16777216
BY DEF MaxDuration

\* The three bytes of a duration are bytes, and make the duration again.
LEMMA Bytes3Back ==
    ASSUME NEW v \in 0 .. MaxDuration
    PROVE  /\ Bytes3(v)[1] \in Byte /\ Bytes3(v)[2] \in Byte /\ Bytes3(v)[3] \in Byte
           /\ 65536 * Bytes3(v)[1] + (256 * Bytes3(v)[2] + Bytes3(v)[3]) = v
<1>1. v \in Int /\ 0 <= v /\ v < 16777216
  BY MaxDurationIs
<1>2. v \div 65536 \in Byte
  BY <1>1, ByteIs
<1>3. (v \div 256) % 256 \in Byte
  BY <1>1, ByteIs
<1>4. v % 256 \in Byte
  BY <1>1, ByteIs
<1>5. 65536 * (v \div 65536) + (256 * ((v \div 256) % 256) + (v % 256)) = v
  <2>1. v = 256 * (v \div 256) + (v % 256) /\ v \div 256 \in Int
    BY <1>1, ModDef
  <2>2. v \div 256 = 256 * ((v \div 256) \div 256) + ((v \div 256) % 256) /\ (v \div 256) \div 256 \in Int
    BY <2>1, ModDef
  <2>3. (v \div 256) \div 256 = v \div 65536
    BY <1>1
  <2> QED BY <2>1, <2>2, <2>3
<1> QED BY <1>2, <1>5, <1>3, <1>4 DEF Bytes3

\* A padded name is 31 bytes.
LEMMA PaddedBytes ==
    ASSUME NEW name \in Seq(Byte)
    PROVE  Padded(name) \in [1 .. 31 -> Byte]
<1>1. ASSUME NEW i \in 1 .. 31 PROVE (IF i <= Len(name) THEN name[i] ELSE 0) \in Byte
  <2>1. CASE i <= Len(name)
    <3>1. i \in 1 .. Len(name)
      BY <2>1
    <3> QED BY <2>1, <3>1
  <2>2. CASE ~(i <= Len(name))
    BY <2>2, ByteIs
  <2> QED BY <2>1, <2>2
<1> QED BY <1>1 DEF Padded

\* Numbers of one remainder keep it when the same is added to both.
LEMMA ModPlus ==
    ASSUME NEW n \in Nat \ {0}, NEW a \in Int, NEW b \in Int, NEW c \in Int, a % n = b % n
    PROVE  (a + c) % n = (b + c) % n
<1>1. a = n * (a \div n) + (a % n) /\ a \div n \in Int /\ b = n * (b \div n) + (b % n) /\ b \div n \in Int
  BY ModDef
<1>2. (b + c) % n \in 0 .. n - 1 /\ b + c = n * ((b + c) \div n) + ((b + c) % n) /\ (b + c) \div n \in Int
  BY ModDef
<1> DEFINE q == (b + c) \div n + ((a \div n) - (b \div n))
<1>3. q \in Int
  BY <1>1, <1>2
<1>4. a + c = n * q + ((b + c) % n)
  <2>1. n * q = n * ((b + c) \div n) + (n * (a \div n) - n * (b \div n))
    BY <1>1, <1>2
  <2> HIDE DEF q
  <2> QED BY <1>1, <1>2, <2>1
<1> HIDE DEF q
<1> QED BY <1>2, <1>3, <1>4, ModUnique

\* The same, of numbers said to be in phase.
InPhase(a, b, n) == a % n = b % n
LEMMA StillInPhase ==
    ASSUME NEW n \in Nat \ {0}, NEW a \in Int, NEW b \in Int, NEW c \in Int, InPhase(a, b, n)
    PROVE  InPhase(a + c, b + c, n)
BY ModPlus DEF InPhase

\* A whole period changes no remainder.
LEMMA ModPeriod ==
    ASSUME NEW n \in Nat \ {0}, NEW a \in Int
    PROVE  (a + n) % n = a % n /\ n % n = 0 /\ 0 % n = 0
<1>1. n = n * 1 + 0 /\ 0 = n * 0 + 0
  OBVIOUS
<1>2. n % n = 0 /\ 0 % n = 0
  BY <1>1, ModUnique
<1>3. (n + a) % n = (0 + a) % n
  <2>1. n \in Int /\ 0 \in Int /\ n % n = 0 % n
    BY <1>2
  <2> QED BY <2>1, ModPlus
<1>4. n + a = a + n /\ 0 + a = a
  OBVIOUS
<1> QED BY <1>2, <1>3, <1>4, Zenon

\* period_start_to_synchro counts down to a day of the anchor's phase.
LEMMA SynchroPhase ==
    ASSUME NEW n \in Nat \ {0}, NEW anchor \in Int, NEW day \in Int
    PROVE  /\ Synchro(anchor, n, day) \in 0 .. n - 1
           /\ Synchro(anchor, n, day) % n = (anchor - day) % n
<1> DEFINE since == day - anchor
           s == Synchro(anchor, n, day)
<1>1. since \in Int /\ since % n \in 0 .. n - 1 /\ since = n * (since \div n) + (since % n) /\ since \div n \in Int
  <2>1. since \in Int
    OBVIOUS
  <2> HIDE DEF since
  <2> QED BY <2>1, ModDef
<1>2. n - (since % n) \in Int /\ s = (n - (since % n)) % n /\ s \in 0 .. n - 1
  BY <1>1, ModDef DEF Synchro
<1>3. s % n = s
  <2>1. s = n * 0 + s
    BY <1>2
  <2> QED BY <1>2, <2>1, ModUnique
<1>4. s = (anchor - day) % n
  <2>1. n - (since % n) = n * (1 + (since \div n)) + (0 - since)
    <3>1. n * (1 + (since \div n)) = n + n * (since \div n)
      BY <1>1
    <3> HIDE DEF since
    <3> QED BY <1>1, <3>1
  <2>2. 0 - since = n * ((0 - since) \div n) + ((0 - since) % n) /\ (0 - since) \div n \in Int
        /\ (0 - since) % n \in 0 .. n - 1
    BY <1>1, ModDef
  <2>3. n - (since % n) = n * ((1 + (since \div n)) + ((0 - since) \div n)) + ((0 - since) % n)
    <3>1. n * ((1 + (since \div n)) + ((0 - since) \div n)) = n * (1 + (since \div n)) + n * ((0 - since) \div n)
      BY <1>1, <2>2
    <3> HIDE DEF since
    <3> QED BY <1>1, <2>1, <2>2, <3>1
  <2>4. (1 + (since \div n)) + ((0 - since) \div n) \in Int
    BY <1>1, <2>2
  <2>5. (n - (since % n)) % n = (0 - since) % n
    BY <2>2, <2>3, <2>4, ModUnique
  <2>6. 0 - since = anchor - day
    OBVIOUS
  <2> QED BY <1>2, <2>5, <2>6
<1> QED BY <1>2, <1>3, <1>4

\* A countdown that is due on some day still is when a day has passed.
LEMMA DayPasses ==
    ASSUME NEW n \in Nat \ {0}, NEW left \in Nat, NEW day \in Int, NEW now \in Int,
           left % n = (day - now) % n
    PROVE  (IF left = 0 THEN n - 1 ELSE left - 1) % n = (day - (now + 1)) % n
<1>1. (left - 1) % n = (day - (now + 1)) % n
  <2>1. (left + (0 - 1)) % n = ((day - now) + (0 - 1)) % n
    <3> DEFINE d == day - now
               m == 0 - 1
    <3>1. n \in Nat \ {0} /\ left \in Int /\ d \in Int /\ m \in Int /\ InPhase(left, d, n)
      BY DEF InPhase
    <3> HIDE DEF d, m
    <3>2. InPhase(left + m, d + m, n)
      BY <3>1, StillInPhase, Zenon
    <3> QED BY <3>2, Zenon DEF InPhase, d, m
  <2>2. left + (0 - 1) = left - 1 /\ (day - now) + (0 - 1) = day - (now + 1)
    OBVIOUS
  <2> QED BY <2>1, <2>2
<1>2. ((0 - 1) + n) % n = (0 - 1) % n
  <2>1. 0 - 1 \in Int
    OBVIOUS
  <2> QED BY <2>1, ModPeriod
<1>3. (0 - 1) + n = n - 1
  OBVIOUS
<1>4. CASE left = 0
  <2>1. left - 1 = 0 - 1
    BY <1>4
  <2> QED BY <1>1, <1>2, <1>3, <1>4, <2>1
<1> QED BY <1>1, <1>4

-----------------------------------------------------------------------------
(* What pack makes. *)

\* A chunk of a packed program has the bytes of its payload, from offset 4.
LEMMA ChunkAt ==
    ASSUME NEW b, NEW payload, NEW k \in Chunks, NEW s, NEW n \in Nat,
           b = [j \in Chunks |-> [o \in 4 .. Len(payload[j + 1]) + 3 |-> payload[j + 1][o - 3]]],
           payload[k + 1] = s, Len(s) = n
    PROVE  b[k] = [o \in 4 .. n + 3 |-> s[o - 3]]
OBVIOUS

\* The halves of 31 bytes.
LEMMA HalvesOf ==
    ASSUME NEW pad, \A i \in 1 .. 31 : pad[i] \in Byte
    PROVE  /\ Len(SubSeq(pad, 1, 16)) = 16 /\ \A i \in 1 .. 16 : SubSeq(pad, 1, 16)[i] = pad[i]
           /\ Len(SubSeq(pad, 17, 31)) = 15 /\ \A i \in 1 .. 15 : SubSeq(pad, 17, 31)[i] = pad[16 + i]
           /\ SubSeq(pad, 17, 31) \in Seq(Byte)
<1>1. \A i \in 1 .. 16 : pad[i] \in Byte
  OBVIOUS
<1>2. \A i \in 17 .. 31 : pad[i] \in Byte
  OBVIOUS
<1>3. /\ Len(SubSeq(pad, 1, 16)) = IF 1 <= 16 THEN 16 - 1 + 1 ELSE 0
      /\ \A i \in 1 .. 16 - 1 + 1 : SubSeq(pad, 1, 16)[i] = pad[1 + i - 1]
  BY <1>1, SubSeqProperties
<1>4. /\ SubSeq(pad, 17, 31) \in Seq(Byte)
      /\ Len(SubSeq(pad, 17, 31)) = IF 17 <= 31 THEN 31 - 17 + 1 ELSE 0
      /\ \A i \in 1 .. 31 - 17 + 1 : SubSeq(pad, 17, 31)[i] = pad[17 + i - 1]
  BY <1>2, SubSeqProperties
<1>5. /\ \A i \in 1 .. 16 : 1 + i - 1 = i
      /\ \A i \in 1 .. 15 : 17 + i - 1 = 16 + i
      /\ 16 - 1 + 1 = 16 /\ 31 - 17 + 1 = 15 /\ 1 <= 16 /\ 17 <= 31
  OBVIOUS
<1>6. \A i \in 1 .. 16 : SubSeq(pad, 1, 16)[i] = pad[i]
  BY <1>3, <1>5
<1>7. \A i \in 1 .. 15 : SubSeq(pad, 17, 31)[i] = pad[16 + i]
  BY <1>4, <1>5
<1> QED BY <1>3, <1>4, <1>5, <1>6, <1>7

\* The halves of a padded name.
LEMMA Halves ==
    ASSUME NEW name \in Seq(Byte)
    PROVE  /\ Len(SubSeq(Padded(name), 1, 16)) = 16
           /\ \A i \in 1 .. 16 : SubSeq(Padded(name), 1, 16)[i] = Padded(name)[i]
           /\ Len(SubSeq(Padded(name), 17, 31)) = 15
           /\ \A i \in 1 .. 15 : SubSeq(Padded(name), 17, 31)[i] = Padded(name)[16 + i]
<1>1. \A i \in 1 .. 31 : Padded(name)[i] \in Byte
  BY PaddedBytes
<1> QED BY <1>1, HalvesOf

\* The ranges of what can be stored, one by one.
LEMMA StorableParts ==
    ASSUME NEW p, Storable(p)
    PROVE  /\ p.name \in Seq(Byte)
           /\ p.inter_station_delay \in 0 .. MaxWord /\ p.water_budget \in 0 .. MaxWord
           /\ p.cycle \in Byte /\ p.week_days \in Byte
           /\ p.period_length \in Byte /\ p.synchro_day \in Byte
           /\ p.start_times \in [0 .. 7 -> {None} \cup (0 .. Disabled - 1)]
           /\ p.station_durations \in [0 .. 11 -> 0 .. MaxDuration]
BY Zenon DEF Storable

\* The chunks of a packed program.
IsPacked(b, p, day) ==
    LET delay  == Bytes2(p.inter_station_delay)
        budget == Bytes2(p.water_budget)
        header == <<delay[1], delay[2], budget[1], budget[2], p.cycle, p.week_days,
                    p.period_length, p.synchro_day, day, 1, 7, 208>>
        minutes(s) == IF p.start_times[s] = None THEN Disabled ELSE p.start_times[s]
    IN  /\ b = [k \in Chunks |-> b[k]]
        /\ b[0] = [o \in 4 .. 19 |-> Padded(p.name)[o - 3]]
        /\ b[1] = [o \in 4 .. 19 |-> IF o = 19 THEN 0 ELSE Padded(p.name)[o + 13]]
        /\ b[2] = [o \in 4 .. 15 |-> header[o - 3]]
        /\ b[3] = [o \in 4 .. 19 |-> Bytes2(minutes((o - 4) \div 2))[((o - 4) % 2) + 1]]
        /\ b[4] = [o \in 4 .. 18 |-> Bytes3(p.station_durations[(o - 4) \div 3])[((o - 4) % 3) + 1]]
        /\ b[5] = [o \in 4 .. 18 |-> Bytes3(p.station_durations[5 + ((o - 4) \div 3)])[((o - 4) % 3) + 1]]
        /\ b[6] = [o \in 4 .. 9 |-> Bytes3(p.station_durations[10 + ((o - 4) \div 3)])[((o - 4) % 3) + 1]]

\* Pack lays the chunks out so.
LEMMA PackedChunks ==
    ASSUME NEW p, Storable(p), NEW day
    PROVE  IsPacked(Packed(p, day), p, day)
<1> DEFINE first == SubSeq(Padded(p.name), 1, 16)
           second == SecondHalf(p.name)
           delay == Bytes2(p.inter_station_delay)
           budget == Bytes2(p.water_budget)
           header == <<delay[1], delay[2], budget[1], budget[2], p.cycle, p.week_days,
                       p.period_length, p.synchro_day, day, 1, 7, 208>>
           start(s) == Bytes2(IF p.start_times[s] = None THEN Disabled ELSE p.start_times[s])
           starts == [i \in 1 .. 16 |-> start((i - 1) \div 2)[((i - 1) % 2) + 1]]
           durations(from, n) == [i \in 1 .. 3 * n |->
                     Bytes3(p.station_durations[from + ((i - 1) \div 3)])[((i - 1) % 3) + 1]]
           d1 == durations(0, 5)
           d2 == durations(5, 5)
           d3 == durations(10, 2)
           payload == <<first, second, header, starts, d1, d2, d3>>
           b == Packed(p, day)
<1>1. b = [k \in Chunks |-> [o \in 4 .. Len(payload[k + 1]) + 3 |-> payload[k + 1][o - 3]]]
  BY DEF Packed
<1>2. p.name \in Seq(Byte)
  BY StorableParts, Zenon
<1>3. Len(first) = 16 /\ \A i \in 1 .. 16 : first[i] = Padded(p.name)[i]
  BY <1>2, Halves, Zenon
<1>4. Len(second) = 16 /\ second[16] = 0 /\ \A i \in 1 .. 15 : second[i] = Padded(p.name)[16 + i]
  BY DEF SecondHalf
<1>5. Len(header) = 12
  OBVIOUS
<1>6. Len(starts) = 16 /\ Len(d1) = 15 /\ Len(d2) = 15 /\ Len(d3) = 6
  OBVIOUS
<1>7. /\ payload[0 + 1] = first /\ payload[1 + 1] = second /\ payload[2 + 1] = header
      /\ payload[3 + 1] = starts
      /\ payload[4 + 1] = d1 /\ payload[5 + 1] = d2 /\ payload[6 + 1] = d3
  OBVIOUS
<1> HIDE DEF payload, first, second, header, starts, d1, d2, d3
<1>8. /\ b[0] = [o \in 4 .. 19 |-> first[o - 3]] /\ b[1] = [o \in 4 .. 19 |-> second[o - 3]]
      /\ b[2] = [o \in 4 .. 15 |-> header[o - 3]] /\ b[3] = [o \in 4 .. 19 |-> starts[o - 3]]
      /\ b[4] = [o \in 4 .. 18 |-> d1[o - 3]] /\ b[5] = [o \in 4 .. 18 |-> d2[o - 3]]
      /\ b[6] = [o \in 4 .. 9 |-> d3[o - 3]]
  <2>1. /\ b[0] = [o \in 4 .. 16 + 3 |-> first[o - 3]] /\ b[1] = [o \in 4 .. 16 + 3 |-> second[o - 3]]
        /\ b[2] = [o \in 4 .. 12 + 3 |-> header[o - 3]] /\ b[3] = [o \in 4 .. 16 + 3 |-> starts[o - 3]]
        /\ b[4] = [o \in 4 .. 15 + 3 |-> d1[o - 3]] /\ b[5] = [o \in 4 .. 15 + 3 |-> d2[o - 3]]
        /\ b[6] = [o \in 4 .. 6 + 3 |-> d3[o - 3]]
    <3> HIDE DEF b
    <3>1. 0 \in Chunks /\ 1 \in Chunks /\ 2 \in Chunks /\ 3 \in Chunks /\ 4 \in Chunks /\ 5 \in Chunks /\ 6 \in Chunks
      BY DEF Chunks
    <3>2. b[0] = [o \in 4 .. 16 + 3 |-> first[o - 3]]
      BY <1>1, <1>3, <1>7, <3>1, ChunkAt
    <3>3. b[1] = [o \in 4 .. 16 + 3 |-> second[o - 3]]
      BY <1>1, <1>4, <1>7, <3>1, ChunkAt
    <3>4. b[2] = [o \in 4 .. 12 + 3 |-> header[o - 3]]
      BY <1>1, <1>5, <1>7, <3>1, ChunkAt
    <3>5. b[3] = [o \in 4 .. 16 + 3 |-> starts[o - 3]]
      BY <1>1, <1>6, <1>7, <3>1, ChunkAt
    <3>6. b[4] = [o \in 4 .. 15 + 3 |-> d1[o - 3]] /\ b[5] = [o \in 4 .. 15 + 3 |-> d2[o - 3]]
      BY <1>1, <1>6, <1>7, <3>1, ChunkAt
    <3>7. b[6] = [o \in 4 .. 6 + 3 |-> d3[o - 3]]
      BY <1>1, <1>6, <1>7, <3>1, ChunkAt
    <3> QED BY <3>2, <3>3, <3>4, <3>5, <3>6, <3>7
  <2> QED BY <2>1
<1>9. b[0] = [o \in 4 .. 19 |-> Padded(p.name)[o - 3]]
  BY <1>3, <1>8
<1>10. b[1] = [o \in 4 .. 19 |-> IF o = 19 THEN 0 ELSE Padded(p.name)[o + 13]]
  <2>1. ASSUME NEW o \in 4 .. 19 PROVE second[o - 3] = IF o = 19 THEN 0 ELSE Padded(p.name)[o + 13]
    <3>1. CASE o = 19
      BY <1>4, <3>1
    <3>2. CASE o # 19
      <4>1. o - 3 \in 1 .. 15 /\ 16 + (o - 3) = o + 13
        BY <3>2
      <4> QED BY <1>4, <3>2, <4>1
    <3> QED BY <3>1, <3>2
  <2> QED BY <1>8, <2>1
<1>11. b[3] = [o \in 4 .. 19 |-> start((o - 4) \div 2)[((o - 4) % 2) + 1]]
  <2>1. ASSUME NEW o \in 4 .. 19 PROVE starts[o - 3] = start((o - 4) \div 2)[((o - 4) % 2) + 1]
    <3> HIDE DEF start
    <3>1. (o - 3) - 1 = o - 4 /\ o - 3 \in 1 .. 16
      OBVIOUS
    <3> QED BY <3>1 DEF starts
  <2> HIDE DEF start
  <2> QED BY <1>8, <2>1
<1>12. ASSUME NEW from \in Int, NEW n \in 1 .. 5, NEW o \in 4 .. 3 * n + 3
       PROVE  durations(from, n)[o - 3] = Bytes3(p.station_durations[from + ((o - 4) \div 3)])[((o - 4) % 3) + 1]
  <2>1. (o - 3) - 1 = o - 4 /\ o - 3 \in 1 .. 3 * n
    OBVIOUS
  <2> QED BY <2>1
<1> HIDE DEF durations
<1>13. b[4] = [o \in 4 .. 18 |-> Bytes3(p.station_durations[0 + ((o - 4) \div 3)])[((o - 4) % 3) + 1]]
  BY <1>8, <1>12 DEF d1
<1>14. b[5] = [o \in 4 .. 18 |-> Bytes3(p.station_durations[5 + ((o - 4) \div 3)])[((o - 4) % 3) + 1]]
  BY <1>8, <1>12 DEF d2
<1>15. b[6] = [o \in 4 .. 9 |-> Bytes3(p.station_durations[10 + ((o - 4) \div 3)])[((o - 4) % 3) + 1]]
  BY <1>8, <1>12 DEF d3
<1>16. \A o \in 4 .. 18 : 0 + ((o - 4) \div 3) = (o - 4) \div 3
  OBVIOUS
<1>17. b[4] = [o \in 4 .. 18 |-> Bytes3(p.station_durations[(o - 4) \div 3])[((o - 4) % 3) + 1]]
  BY <1>13, <1>16
<1>18. DOMAIN b = Chunks /\ b = [k \in Chunks |-> b[k]]
  BY <1>1
<1> HIDE DEF b
<1> QED BY <1>8, <1>9, <1>10, <1>11, <1>14, <1>15, <1>17, <1>18 DEF header, b, IsPacked

-----------------------------------------------------------------------------
(* Blocks and configurations. *)

\* A block: what a slot holds.  No field owns the last byte of the second chunk.
IsBlock(b) ==
    /\ b = [k \in Chunks |-> b[k]]
    /\ \A k \in Chunks : b[k] \in [Offsets(k) -> Byte]
    /\ b[1][19] = 0
IsConfig(c) == c = [s \in Slots |-> c[s]] /\ \A s \in Slots : IsBlock(c[s])

\* A block is a program.
LEMMA BlockIsProgram ==
    ASSUME NEW b, IsBlock(b)
    PROVE  IsProgram(b)
BY DEF IsBlock, IsProgram

\* The chunks by their numbers.
LEMMA NumbersAre == /\ 0 \in Chunks /\ 1 \in Chunks /\ 2 \in Chunks /\ 3 \in Chunks /\ 4 \in Chunks /\ 5 \in Chunks
    /\ 6 \in Chunks /\ Header = 2
BY DEF Chunks, Header

-----------------------------------------------------------------------------
(* What patch makes, byte by byte. *)

\* What Patched makes of one byte.
Hits(change, k, o) ==
    {x \in UNION {Splices(f, change[f]) : f \in DOMAIN change} : x[1] = k /\ o - x[2] \in 0 .. Len(x[3]) - 1}

\* A byte no splice hits is kept; one that is hit has what all its splices say.
LEMMA PatchedAt ==
    ASSUME NEW b, NEW change, NEW k \in Chunks, NEW o \in Offsets(k)
    PROVE  /\ Hits(change, k, o) = {} => Patched(b, change)[k][o] = b[k][o]
           /\ \A v : Hits(change, k, o) # {} /\ (\A x \in Hits(change, k, o) : x[3][o - x[2] + 1] = v)
                     => Patched(b, change)[k][o] = v
<1> DEFINE P == Patched(b, change)
           H(kk, oo) == {x \in UNION {Splices(f, change[f]) : f \in DOMAIN change} :
                            x[1] = kk /\ oo - x[2] \in 0 .. Len(x[3]) - 1}
           V(kk, oo) == IF H(kk, oo) = {} THEN b[kk][oo]
                        ELSE LET x == CHOOSE x \in H(kk, oo) : TRUE IN x[3][oo - x[2] + 1]
<1>1. P = [kk \in Chunks |-> [oo \in Offsets(kk) |-> V(kk, oo)]]
  BY DEF Patched
<1> HIDE DEF P, V
<1>2. P[k][o] = V(k, o)
  BY <1>1
<1>3. H(k, o) = Hits(change, k, o)
  BY DEF Hits
<1> HIDE DEF H
<1>4. Hits(change, k, o) = {} => V(k, o) = b[k][o]
  BY <1>3 DEF V
<1>5. ASSUME NEW v, Hits(change, k, o) # {}, \A x \in Hits(change, k, o) : x[3][o - x[2] + 1] = v
      PROVE  V(k, o) = v
  <2>1. (CHOOSE x \in Hits(change, k, o) : TRUE) \in Hits(change, k, o)
    BY <1>5
  <2> QED BY <1>3, <1>5, <2>1 DEF V
<1> QED BY <1>2, <1>4, <1>5 DEF P

\* A patched program has every chunk, at its offsets.
LEMMA PatchedShape ==
    ASSUME NEW b, NEW change
    PROVE  LET new == Patched(b, change)
           IN  new = [k \in Chunks |-> new[k]] /\ \A k \in Chunks : new[k] = [o \in Offsets(k) |-> new[k][o]]
BY DEF Patched

\* The ranges a patch insists on, field by field.
LEMMA Ranges ==
    ASSUME NEW change, InRange(change)
    PROVE  /\ DOMAIN change \subseteq Fields
           /\ "name" \in DOMAIN change =>
                 /\ change["name"] \in Seq(Byte) /\ Len(change["name"]) <= 31
                 /\ \A i \in DOMAIN change["name"] : change["name"][i] # 0
           /\ "inter_station_delay" \in DOMAIN change => change["inter_station_delay"] \in 0 .. MaxWord
           /\ "water_budget" \in DOMAIN change => change["water_budget"] \in 0 .. MaxWord
           /\ "cycle" \in DOMAIN change => change["cycle"] \in 0 .. 4
           /\ "week_days" \in DOMAIN change => change["week_days"] \in 0 .. 127
           /\ "period_length" \in DOMAIN change => change["period_length"] \in Byte \ {0}
           /\ "synchro_day" \in DOMAIN change => change["synchro_day"] \in Byte
           /\ "start_times" \in DOMAIN change =>
                 \A s \in 1 .. 8 : change["start_times"][s] \in {None} \cup (0 .. Disabled - 1)
           /\ "station_durations" \in DOMAIN change =>
                 \A t \in DOMAIN change["station_durations"] :
                    t \in 1 .. PhysicalStations /\ change["station_durations"][t] \in 0 .. MaxDuration
BY Zenon DEF InRange

\* The field a byte belongs to, and what a patch puts there.
Owner(k, o) ==
    IF k = 0 \/ (k = 1 /\ o <= 18) THEN "name"
    ELSE IF k = 2 /\ o <= 5 THEN "inter_station_delay" ELSE IF k = 2 /\ o <= 7 THEN "water_budget"
    ELSE IF k = 2 /\ o = 8  THEN "cycle"         ELSE IF k = 2 /\ o = 9  THEN "week_days"
    ELSE IF k = 2 /\ o = 10 THEN "period_length" ELSE IF k = 2 /\ o = 11 THEN "synchro_day"
    ELSE IF k = 3 THEN "start_times" ELSE IF k >= 4 THEN "station_durations" ELSE "nobody"
Station(k, o) == 1 + 5 * (k - 4) + ((o - 4) \div 3)
StartOf(v, s) == IF v[s] = None THEN Disabled ELSE v[s]
Value(v, k, o) ==
    IF k = 0 THEN Padded(v)[o - 3] ELSE IF k = 1 THEN Padded(v)[o + 13]
    ELSE IF k = 2 /\ o <= 5 THEN Bytes2(v)[o - 3] ELSE IF k = 2 /\ o <= 7 THEN Bytes2(v)[o - 5]
    ELSE IF k = 2 THEN v
    ELSE IF k = 3 THEN Bytes2(StartOf(v, (o - 2) \div 2))[((o - 4) % 2) + 1]
    ELSE Bytes3(v[Station(k, o)])[((o - 4) % 3) + 1]
Spot(x, k, o) == x[1] = k /\ o - x[2] \in 0 .. Len(x[3]) - 1

\* A splice hits the bytes from its offset on, as many as it has.
LEMMA SpotsOf ==
    ASSUME NEW x, NEW from \in Int, NEW n \in Nat, x[2] = from, Len(x[3]) = n, NEW k, NEW o \in Int
    PROVE  Spot(x, k, o) <=> x[1] = k /\ from <= o /\ o < from + n
BY DEF Spot

\* The splices of a name hit the bytes of the name, all of them, with its bytes.
LEMMA NameSplices ==
    ASSUME NEW v \in Seq(Byte), NEW k \in Chunks, NEW o \in Offsets(k)
    PROVE  /\ \A x \in Splices("name", v) :
                 Spot(x, k, o) => Owner(k, o) = "name" /\ x[3][o - x[2] + 1] = Value(v, k, o)
           /\ Owner(k, o) = "name" => \E x \in Splices("name", v) : Spot(x, k, o)
<1> DEFINE first  == SubSeq(Padded(v), 1, 16)
           second == SubSeq(Padded(v), 17, 31)
           x1 == <<0, 4, first>>
           x2 == <<1, 4, second>>
<1>1. Splices("name", v) = {x1, x2}
  BY DEF Splices
<1>2. /\ Len(first) = 16 /\ \A i \in 1 .. 16 : first[i] = Padded(v)[i]
      /\ Len(second) = 15 /\ \A i \in 1 .. 15 : second[i] = Padded(v)[16 + i]
  BY Halves, Zenon
<1>3. x1[1] = 0 /\ x1[2] = 4 /\ x1[3] = first /\ x2[1] = 1 /\ x2[2] = 4 /\ x2[3] = second
  OBVIOUS
<1> HIDE DEF first, second, x1, x2
<1>4. o \in Int /\ 4 <= o /\ o <= 19
  BY OffsetsWithin, Zenon
<1>5. Spot(x1, k, o) <=> 0 = k /\ 4 <= o /\ o < 4 + 16
  <2>1. x1[1] = 0 /\ x1[2] = 4 /\ Len(x1[3]) = 16
    BY <1>2, <1>3, Zenon
  <2> QED BY <2>1, <1>4 DEF Spot
<1>6. Spot(x2, k, o) <=> 1 = k /\ 4 <= o /\ o < 4 + 15
  <2>1. x2[1] = 1 /\ x2[2] = 4 /\ Len(x2[3]) = 15
    BY <1>2, <1>3, Zenon
  <2> QED BY <2>1, <1>4 DEF Spot
<1>7. Owner(k, o) = "name" <=> k = 0 \/ (k = 1 /\ o <= 18)
  BY DEF Owner
<1>8. ASSUME Spot(x1, k, o) PROVE Owner(k, o) = "name" /\ first[o - 4 + 1] = Value(v, k, o)
  <2>1. o - 4 + 1 \in 1 .. 16 /\ o - 4 + 1 = o - 3 /\ k = 0
    BY <1>4, <1>5, <1>8
  <2> QED BY <1>2, <1>7, <2>1 DEF Value
<1>9. ASSUME Spot(x2, k, o) PROVE Owner(k, o) = "name" /\ second[o - 4 + 1] = Value(v, k, o)
  <2>1. o - 4 + 1 \in 1 .. 15 /\ 16 + (o - 4 + 1) = o + 13 /\ k = 1 /\ o <= 18 /\ k # 0
    BY <1>4, <1>6, <1>9
  <2> QED BY <1>2, <1>7, <2>1 DEF Value
<1>10. Owner(k, o) = "name" => Spot(x1, k, o) \/ Spot(x2, k, o)
  BY <1>4, <1>5, <1>6, <1>7
<1> QED BY <1>1, <1>8, <1>9, <1>3, <1>10

\* The splices of a field of the header hit its bytes, all of them.
LEMMA HeaderSplices ==
    ASSUME NEW v, NEW k \in Chunks, NEW o \in Offsets(k),
           NEW f \in {"inter_station_delay", "water_budget", "cycle", "week_days", "period_length",
                      "synchro_day"}
    PROVE  /\ \A x \in Splices(f, v) :
                 Spot(x, k, o) => Owner(k, o) = f /\ x[3][o - x[2] + 1] = Value(v, k, o)
           /\ Owner(k, o) = f => \E x \in Splices(f, v) : Spot(x, k, o)
<1>1. o \in Int /\ 4 <= o /\ (k = 2 => o <= 15)
  BY OffsetsWithin, Zenon
<1>2. ASSUME NEW from \in Int, NEW n \in Nat, NEW bytes, Len(bytes) = n,
             Splices(f, v) = {<<2, from, bytes>>},
             Owner(k, o) = f <=> k = 2 /\ from <= o /\ o < from + n,
             k = 2 /\ from <= o /\ o < from + n => bytes[o - from + 1] = Value(v, k, o)
      PROVE  /\ \A x \in Splices(f, v) :
                   Spot(x, k, o) => Owner(k, o) = f /\ x[3][o - x[2] + 1] = Value(v, k, o)
             /\ Owner(k, o) = f => \E x \in Splices(f, v) : Spot(x, k, o)
  <2> DEFINE x == <<2, from, bytes>>
  <2>1. x[1] = 2 /\ x[2] = from /\ x[3] = bytes /\ Splices(f, v) = {x}
    BY <1>2
  <2> HIDE DEF x
  <2>2. Spot(x, k, o) <=> 2 = k /\ from <= o /\ o < from + n
    BY <1>1, <1>2, <2>1, SpotsOf
  <2> QED BY <1>2, <2>2, <2>1
<1>3. CASE f = "inter_station_delay"
  <2> DEFINE bytes == Bytes2(v)
  <2>1. Splices(f, v) = {<<2, 4, bytes>>} /\ Len(bytes) = 2 /\ 4 \in Int /\ 2 \in Nat
    BY <1>3 DEF Splices, Bytes2
  <2>2. Owner(k, o) = f <=> k = 2 /\ 4 <= o /\ o < 4 + 2
    BY <1>1, <1>3 DEF Owner
  <2>3. k = 2 /\ 4 <= o /\ o < 4 + 2 => bytes[o - 4 + 1] = Value(v, k, o)
    BY <1>1 DEF Value
  <2> HIDE DEF bytes
  <2> QED BY <1>2, <2>1, <2>2, <2>3, Zenon
<1>4. CASE f = "water_budget"
  <2> DEFINE bytes == Bytes2(v)
  <2>1. Splices(f, v) = {<<2, 6, bytes>>} /\ Len(bytes) = 2 /\ 6 \in Int /\ 2 \in Nat
    BY <1>4 DEF Splices, Bytes2
  <2>2. Owner(k, o) = f <=> k = 2 /\ 6 <= o /\ o < 6 + 2
    BY <1>1, <1>4 DEF Owner
  <2>3. k = 2 /\ 6 <= o /\ o < 6 + 2 => bytes[o - 6 + 1] = Value(v, k, o)
    BY <1>1 DEF Value
  <2> HIDE DEF bytes
  <2> QED BY <1>2, <2>1, <2>2, <2>3, Zenon
<1>5. ASSUME NEW at \in 8 .. 11, Splices(f, v) = {<<2, at, <<v>> >>}, Owner(k, o) = f <=> k = 2 /\ o = at
      PROVE  /\ \A x \in Splices(f, v) :
                   Spot(x, k, o) => Owner(k, o) = f /\ x[3][o - x[2] + 1] = Value(v, k, o)
             /\ Owner(k, o) = f => \E x \in Splices(f, v) : Spot(x, k, o)
  <2> DEFINE bytes == <<v>>
  <2>1. Len(bytes) = 1 /\ bytes[1] = v
    OBVIOUS
  <2> HIDE DEF bytes
  <2>2. at \in Int /\ 1 \in Nat
    OBVIOUS
  <2>3. Splices(f, v) = {<<2, at, bytes>>}
    BY <1>5 DEF bytes
  <2>4. Owner(k, o) = f <=> k = 2 /\ at <= o /\ o < at + 1
    BY <1>1, <1>5
  <2>5. k = 2 /\ at <= o /\ o < at + 1 => bytes[o - at + 1] = Value(v, k, o)
    <3>1. ASSUME k = 2, at <= o, o < at + 1 PROVE o - at + 1 = 1 /\ o >= 8
      BY <1>1, <1>5, <3>1
    <3> QED BY <1>1, <2>1, <3>1 DEF Value
  <2> QED BY <1>2, <2>1, <2>2, <2>3, <2>4, <2>5
<1>6. CASE f = "cycle"
  <2>1. Splices(f, v) = {<<2, 8, <<v>> >>} /\ (Owner(k, o) = f <=> k = 2 /\ o = 8)
    BY <1>1, <1>6 DEF Splices, Owner
  <2> QED BY <1>5, <2>1
<1>7. CASE f = "week_days"
  <2>1. Splices(f, v) = {<<2, 9, <<v>> >>} /\ (Owner(k, o) = f <=> k = 2 /\ o = 9)
    BY <1>1, <1>7 DEF Splices, Owner
  <2> QED BY <1>5, <2>1
<1>8. CASE f = "period_length"
  <2>1. Splices(f, v) = {<<2, 10, <<v>> >>} /\ (Owner(k, o) = f <=> k = 2 /\ o = 10)
    BY <1>1, <1>8 DEF Splices, Owner
  <2> QED BY <1>5, <2>1
<1>9. CASE f = "synchro_day"
  <2>1. Splices(f, v) = {<<2, 11, <<v>> >>} /\ (Owner(k, o) = f <=> k = 2 /\ o = 11)
    BY <1>1, <1>9 DEF Splices, Owner
  <2> QED BY <1>5, <2>1
<1> QED BY <1>3, <1>4, <1>6, <1>7, <1>8, <1>9

\* The splices of the start times hit their bytes, all of them.
LEMMA StartSplices ==
    ASSUME NEW v, NEW k \in Chunks, NEW o \in Offsets(k)
    PROVE  /\ \A x \in Splices("start_times", v) :
                 Spot(x, k, o) => Owner(k, o) = "start_times" /\ x[3][o - x[2] + 1] = Value(v, k, o)
           /\ Owner(k, o) = "start_times" => \E x \in Splices("start_times", v) : Spot(x, k, o)
<1> DEFINE X(s) == <<3, 2 + 2 * s, Bytes2(StartOf(v, s))>>
<1>1. Splices("start_times", v) = {X(s) : s \in 1 .. 8}
  BY DEF Splices, StartOf
<1>2. o \in Int /\ 4 <= o /\ o <= 19
  BY OffsetsAre, ChunksAre
<1>3. Owner(k, o) = "start_times" <=> k = 3
  BY DEF Owner
<1>4. ASSUME NEW s \in 1 .. 8
      PROVE  /\ Spot(X(s), k, o) <=> 3 = k /\ 2 + 2 * s <= o /\ o < 2 + 2 * s + 2
             /\ X(s)[2] = 2 + 2 * s /\ X(s)[3] = Bytes2(StartOf(v, s))
  <2>1. Len(Bytes2(StartOf(v, s))) = 2
    BY DEF Bytes2
  <2>2. X(s)[1] = 3 /\ X(s)[2] = 2 + 2 * s /\ X(s)[3] = Bytes2(StartOf(v, s))
    OBVIOUS
  <2>3. Len(X(s)[3]) = 2 /\ X(s)[1] = 3 /\ X(s)[2] = 2 + 2 * s
    BY <2>1, <2>2, Zenon
  <2> HIDE DEF X
  <2>4. Spot(X(s), k, o) <=> 3 = k /\ 2 + 2 * s <= o /\ o < 2 + 2 * s + 2
    BY <1>2, <2>3 DEF Spot
  <2> QED BY <2>2, <2>4, Zenon
<1> HIDE DEF X
<1>5. ASSUME NEW s \in 1 .. 8, Spot(X(s), k, o)
      PROVE  Owner(k, o) = "start_times" /\ X(s)[3][o - X(s)[2] + 1] = Value(v, k, o)
  <2>1. k = 3 /\ (o - 2) \div 2 = s /\ o - (2 + 2 * s) + 1 = ((o - 4) % 2) + 1
    BY <1>2, <1>4, <1>5
  <2> QED BY <1>3, <1>4, <2>1 DEF Value
<1>6. ASSUME k = 3 PROVE \E s \in 1 .. 8 : Spot(X(s), k, o)
  <2>1. (o - 2) \div 2 \in 1 .. 8 /\ 2 + 2 * ((o - 2) \div 2) <= o /\ o < 2 + 2 * ((o - 2) \div 2) + 2
    BY <1>2
  <2> QED BY <1>4, <1>6, <2>1
<1> QED BY <1>1, <1>3, <1>5, <1>6

\* The splices of durations hit the bytes of the stations they are for, and only these.
LEMMA DurationSplices ==
    ASSUME NEW v, \A t \in DOMAIN v : t \in 1 .. 12, NEW k \in Chunks, NEW o \in Offsets(k)
    PROVE  /\ \A x \in Splices("station_durations", v) :
                 Spot(x, k, o) => /\ Owner(k, o) = "station_durations" /\ Station(k, o) \in DOMAIN v
                                  /\ x[3][o - x[2] + 1] = Value(v, k, o)
           /\ Owner(k, o) = "station_durations" /\ Station(k, o) \in DOMAIN v
                 => \E x \in Splices("station_durations", v) : Spot(x, k, o)
<1> DEFINE X(t) == <<Place(t)[1], 4 + 3 * Place(t)[2], Bytes3(v[t])>>
<1>1. Splices("station_durations", v) = {X(t) : t \in DOMAIN v}
  BY DEF Splices
<1>2. /\ o \in Int /\ 4 <= o /\ o <= 19 /\ k \in 0 .. 6
      /\ (k = 4 \/ k = 5 => o <= 18) /\ (k = 6 => o <= 9)
  BY OffsetsAre, ChunksAre
<1>3. Owner(k, o) = "station_durations" <=> k >= 4
  BY <1>2 DEF Owner
<1>4. ASSUME NEW t \in DOMAIN v
      PROVE  /\ t \in 1 .. 12
             /\ Spot(X(t), k, o) <=> Place(t)[1] = k /\ 4 + 3 * Place(t)[2] <= o /\ o < 4 + 3 * Place(t)[2] + 3
             /\ X(t)[2] = 4 + 3 * Place(t)[2] /\ X(t)[3] = Bytes3(v[t])
             /\ Place(t)[1] \in 4 .. 6 /\ Place(t)[2] \in 0 .. 4 /\ 1 + 5 * (Place(t)[1] - 4) + Place(t)[2] = t
  <2>1. Len(Bytes3(v[t])) = 3
    BY DEF Bytes3
  <2>2. t \in 1 .. 12
    OBVIOUS
  <2>3. Place(t)[1] \in 4 .. 6 /\ Place(t)[2] \in 0 .. 4 /\ 1 + 5 * (Place(t)[1] - 4) + Place(t)[2] = t
    BY <2>2 DEF Place
  <2>4. 4 + 3 * Place(t)[2] \in Int
    BY <2>3
  <2>5. X(t)[1] = Place(t)[1] /\ X(t)[2] = 4 + 3 * Place(t)[2] /\ X(t)[3] = Bytes3(v[t])
    OBVIOUS
  <2> HIDE DEF X
  <2>6. Spot(X(t), k, o) <=> Place(t)[1] = k /\ 4 + 3 * Place(t)[2] <= o /\ o < 4 + 3 * Place(t)[2] + 3
    <3>1. Len(X(t)[3]) = 3
      BY <2>1, <2>5, Zenon
    <3> DEFINE from == 4 + 3 * Place(t)[2]
    <3>2. from \in Int /\ X(t)[2] = from
      BY <2>4, <2>5
    <3> HIDE DEF from
    <3>3. Spot(X(t), k, o) <=> X(t)[1] = k /\ from <= o /\ o < from + 3
      BY <1>2, <3>1, <3>2 DEF Spot
    <3> QED BY <2>5, <3>3, Zenon DEF from
  <2> QED BY <2>2, <2>3, <2>6, <2>5
<1> HIDE DEF X
<1>5. ASSUME NEW t \in DOMAIN v, Spot(X(t), k, o)
      PROVE  k >= 4 /\ Station(k, o) = t /\ X(t)[3][o - X(t)[2] + 1] = Value(v, k, o)
  <2> DEFINE q == Place(t)[2]
  <2>1. /\ k \in 4 .. 6 /\ q \in 0 .. 4 /\ 4 + 3 * q <= o /\ o < 4 + 3 * q + 3
        /\ 1 + 5 * (k - 4) + q = t
    BY <1>4, <1>5
  <2>2. X(t)[2] = 4 + 3 * q /\ X(t)[3] = Bytes3(v[t])
    BY <1>4
  <2> HIDE DEF q
  <2>3. (o - 4) \div 3 = q /\ o - (4 + 3 * q) + 1 = ((o - 4) % 3) + 1
    BY <1>2, <2>1
  <2>4. Station(k, o) = t
    BY <2>1, <2>3 DEF Station
  <2> QED BY <2>1, <2>2, <2>3, <2>4 DEF Value
<1>6. ASSUME k >= 4, Station(k, o) \in DOMAIN v PROVE Spot(X(Station(k, o)), k, o)
  <2> DEFINE t == Station(k, o)
  <2>1. t = 1 + 5 * (k - 4) + ((o - 4) \div 3) /\ t \in DOMAIN v
    BY <1>6 DEF Station
  <2> HIDE DEF t
  <2>2. /\ t \in 1 .. 12 /\ Place(t)[1] \in 4 .. 6 /\ Place(t)[2] \in 0 .. 4
        /\ 1 + 5 * (Place(t)[1] - 4) + Place(t)[2] = t
    BY <1>4, <2>1
  <2>3. (o - 4) \div 3 \in 0 .. 4 /\ k \in 4 .. 6
    BY <1>2, <1>6
  <2>4. Place(t)[1] = k /\ Place(t)[2] = (o - 4) \div 3
    BY <2>1, <2>2, <2>3
  <2>5. 4 + 3 * ((o - 4) \div 3) <= o /\ o < 4 + 3 * ((o - 4) \div 3) + 3
    BY <1>2
  <2>6. Spot(X(t), k, o)
    BY <1>4, <2>1, <2>4, <2>5
  <2> QED BY <2>6 DEF t
<1> QED BY <1>1, <1>3, <1>5, <1>6

\* A patch has written a byte.
Wrote(change, k, o) ==
    /\ Owner(k, o) \in DOMAIN change
    /\ Owner(k, o) = "station_durations" => Station(k, o) \in DOMAIN change["station_durations"]

\* The splices of a field hit its bytes, all of them, with its value.
LEMMA FieldSplices ==
    ASSUME NEW change, InRange(change), NEW f \in DOMAIN change, NEW k \in Chunks, NEW o \in Offsets(k)
    PROVE  /\ \A x \in Splices(f, change[f]) :
                 Spot(x, k, o) => /\ Owner(k, o) = f /\ Wrote(change, k, o)
                                  /\ x[3][o - x[2] + 1] = Value(change[f], k, o)
           /\ Owner(k, o) = f /\ Wrote(change, k, o) => \E x \in Splices(f, change[f]) : Spot(x, k, o)
<1>1. f \in Fields
  BY Ranges, Zenon
<1>2. CASE f = "name"
  <2>1. change[f] \in Seq(Byte)
    BY <1>2, Ranges, Zenon
  <2>2. Owner(k, o) = f => Wrote(change, k, o)
    BY <1>2 DEF Wrote
  <2> QED BY <1>2, <2>1, <2>2, NameSplices
<1>3. CASE f \in {"inter_station_delay", "water_budget", "cycle", "week_days", "period_length", "synchro_day"}
  <2>1. Owner(k, o) = f => Wrote(change, k, o)
    BY <1>3 DEF Wrote
  <2> DEFINE v == change[f]
  <2> HIDE DEF v
  <2>2. /\ \A x \in Splices(f, v) :
              Spot(x, k, o) => Owner(k, o) = f /\ x[3][o - x[2] + 1] = Value(v, k, o)
        /\ Owner(k, o) = f => \E x \in Splices(f, v) : Spot(x, k, o)
    BY ONLY <1>3, HeaderSplices, k \in Chunks, o \in Offsets(k)
  <2> QED BY <2>1, <2>2, Zenon DEF v
<1>4. CASE f = "start_times"
  <2>1. Owner(k, o) = f => Wrote(change, k, o)
    BY <1>4 DEF Wrote
  <2> QED BY <1>4, <2>1, StartSplices
<1>5. CASE f = "station_durations"
  <2>1. \A t \in DOMAIN change["station_durations"] : t \in 1 .. PhysicalStations
    BY <1>5, Ranges, Zenon
  <2>2. \A t \in DOMAIN change["station_durations"] : t \in 1 .. 12
    BY <2>1, EditAssumption DEF EditAssumption
  <2>3. Owner(k, o) = f => (Wrote(change, k, o) <=> Station(k, o) \in DOMAIN change["station_durations"])
    BY <1>5 DEF Wrote
  <2> QED BY <1>5, <2>2, <2>3, DurationSplices
<1> QED BY <1>1, <1>2, <1>3, <1>4, <1>5, Zenon DEF Fields

\* Patch, byte by byte: a byte of a field that is patched has the field's value, any
\* other is kept.
LEMMA PatchedByte ==
    ASSUME NEW b, NEW change, InRange(change), NEW k \in Chunks, NEW o \in Offsets(k)
    PROVE  Patched(b, change)[k][o] =
               IF Wrote(change, k, o) THEN Value(change[Owner(k, o)], k, o) ELSE b[k][o]
<1>1. Hits(change, k, o) = {x \in UNION {Splices(f, change[f]) : f \in DOMAIN change} : Spot(x, k, o)}
  BY DEF Hits, Spot
<1>2. ASSUME NEW x \in Hits(change, k, o)
      PROVE  Wrote(change, k, o) /\ x[3][o - x[2] + 1] = Value(change[Owner(k, o)], k, o)
  <2>1. PICK f \in DOMAIN change : x \in Splices(f, change[f]) /\ Spot(x, k, o)
    BY <1>1, <1>2
  <2>2. /\ Owner(k, o) = f /\ Wrote(change, k, o)
        /\ x[3][o - x[2] + 1] = Value(change[f], k, o)
    BY <2>1, FieldSplices
  <2> QED BY <2>2, Zenon
<1>3. ASSUME Wrote(change, k, o) PROVE Hits(change, k, o) # {}
  <2>1. Owner(k, o) \in DOMAIN change
    BY <1>3 DEF Wrote
  <2>2. PICK x \in Splices(Owner(k, o), change[Owner(k, o)]) : Spot(x, k, o)
    BY <1>3, <2>1, FieldSplices, Zenon
  <2>3. x \in Hits(change, k, o)
    BY <1>1, <2>1, <2>2
  <2> QED BY <2>3
<1>4. CASE Wrote(change, k, o)
  <2> DEFINE v == Value(change[Owner(k, o)], k, o)
  <2>1. Hits(change, k, o) # {} /\ \A x \in Hits(change, k, o) : x[3][o - x[2] + 1] = v
    BY <1>2, <1>3, <1>4, Zenon
  <2> HIDE DEF v
  <2>2. Patched(b, change)[k][o] = v
    BY <2>1, PatchedAt
  <2> QED BY <1>4, <2>2 DEF v
<1>5. CASE ~Wrote(change, k, o)
  <2>1. Hits(change, k, o) = {}
    BY <1>2, <1>5
  <2>2. Patched(b, change)[k][o] = b[k][o]
    BY ONLY <2>1, PatchedAt, k \in Chunks, o \in Offsets(k)
  <2> QED BY <1>5, <2>2
<1> QED BY <1>4, <1>5

\* The start times are below the one that stands for none.
LEMMA DisabledIs == Disabled \in Int /\ 1440 <= Disabled /\ Disabled <= 1440 /\ None = -1
BY DEF Disabled, None

\* A start time as it is stored is a word, and is read back.
LEMMA StartIs ==
    ASSUME NEW m \in {None} \cup (0 .. Disabled - 1)
    PROVE  LET v == IF m = None THEN Disabled ELSE m
           IN  /\ v \in 0 .. MaxWord /\ v \in Int
               /\ (IF v >= Disabled THEN None ELSE v) = m
BY MaxWordIs, DisabledIs

\* What a patch puts into a frame are bytes.
LEMMA ValueIsByte ==
    ASSUME NEW change, InRange(change), NEW k \in Chunks, NEW o \in Offsets(k), Wrote(change, k, o)
    PROVE  Value(change[Owner(k, o)], k, o) \in Byte
<1> DEFINE f == Owner(k, o)
           v == change[f]
<1>1. f \in DOMAIN change /\ f \in Fields
  BY Ranges, Zenon DEF Wrote
<1>2. /\ o \in Int /\ 4 <= o /\ o <= 19 /\ k \in 0 .. 6 /\ (k = 2 => o <= 15)
  BY OffsetsWithin, ChunksAre
<1>3. CASE k \in {0, 1}
  <2>1. f = "name" \/ f = "nobody"
    BY <1>3 DEF Owner
  <2>2. f = "name"
    BY <1>1, <2>1 DEF Fields
  <2>3. v \in Seq(Byte)
    BY <1>1, <2>2, Ranges, Zenon
  <2>4. \A i \in 1 .. 31 : Padded(v)[i] \in Byte
    BY <2>3, PaddedBytes
  <2>5. k = 1 => o <= 18
    BY <2>2 DEF Owner
  <2> HIDE DEF v, f
  <2> QED BY <1>2, <1>3, <2>4, <2>5 DEF Value, v, f
<1>4. CASE k = 2
  <2>1. CASE o <= 7
    <3>1. (f = "inter_station_delay" /\ o <= 5) \/ (f = "water_budget" /\ ~(o <= 5))
      BY <1>2, <1>4, <2>1 DEF Owner
    <3>2. v \in 0 .. MaxWord
      BY <1>1, <3>1, Ranges, Zenon
    <3>3. Bytes2(v)[1] \in Byte /\ Bytes2(v)[2] \in Byte
      BY <3>2, Bytes2Back, Zenon
    <3> HIDE DEF v, f
    <3>4. Value(v, k, o) = Bytes2(v)[1] \/ Value(v, k, o) = Bytes2(v)[2]
      <4>1. o = 4 \/ o = 5 \/ o = 6 \/ o = 7
        BY <1>2, <2>1
      <4> QED BY <1>4, <4>1 DEF Value
    <3> QED BY <3>3, <3>4, Zenon DEF v, f
  <2>2. CASE ~(o <= 7)
    <3>1. f \in {"cycle", "week_days", "period_length", "synchro_day", "nobody"}
      BY <1>2, <1>4, <2>2 DEF Owner
    <3>2. v \in 0 .. 4 \/ v \in 0 .. 127 \/ v \in Byte
      <4>1. f \in {"cycle", "week_days", "period_length", "synchro_day"}
        BY <1>1, <3>1 DEF Fields
      <4>2. f \in {"period_length", "synchro_day"} => v \in Byte
        BY <1>1, Ranges, Zenon
      <4>3. (f = "cycle" => v \in 0 .. 4) /\ (f = "week_days" => v \in 0 .. 127)
        BY <1>1, Ranges, Zenon
      <4> QED BY <4>1, <4>2, <4>3, Zenon
    <3>3. v \in Byte
      <4> HIDE DEF v
      <4> QED BY <3>2, ByteIs
    <3>4. Value(v, k, o) = v
      <4> HIDE DEF v
      <4> QED BY <1>2, <1>4, <2>2 DEF Value
    <3> QED BY <3>3, <3>4, Zenon
  <2> QED BY <2>1, <2>2
<1>5. CASE k = 3
  <2>1. f = "start_times"
    BY <1>5 DEF Owner
  <2>2. \A s \in 1 .. 8 : v[s] \in {None} \cup (0 .. Disabled - 1)
    BY <1>1, <2>1, Ranges, Zenon
  <2> DEFINE s == (o - 2) \div 2
  <2>3. s \in 1 .. 8 /\ (((o - 4) % 2) + 1 = 1 \/ ((o - 4) % 2) + 1 = 2)
    BY <1>2
  <2> HIDE DEF s
  <2>4. StartOf(v, s) \in 0 .. MaxWord
    BY <2>2, <2>3, StartIs, Zenon DEF StartOf
  <2>5. Bytes2(StartOf(v, s))[1] \in Byte /\ Bytes2(StartOf(v, s))[2] \in Byte
    BY <2>4, Bytes2Back, Zenon
  <2>6. Value(v, k, o) = Bytes2(StartOf(v, s))[((o - 4) % 2) + 1]
    <3> HIDE DEF v
    <3> QED BY <1>5 DEF Value, s
  <2> HIDE DEF v
  <2>7. Value(v, k, o) \in Byte
    BY <2>3, <2>5, <2>6
  <2> QED BY <2>7 DEF v
<1>6. CASE k \in 4 .. 6
  <2>1. f = "station_durations"
    BY <1>6 DEF Owner
  <2> DEFINE d == v[Station(k, o)]
  <2>2. d \in 0 .. MaxDuration
    BY <1>1, <2>1, Ranges, Zenon DEF Wrote
  <2>3. Bytes3(d)[1] \in Byte /\ Bytes3(d)[2] \in Byte /\ Bytes3(d)[3] \in Byte
    <3> HIDE DEF d
    <3> QED BY <2>2, Bytes3Back
  <2>4. Value(v, k, o) = Bytes3(d)[((o - 4) % 3) + 1]
    <3> HIDE DEF v
    <3> QED BY <1>6 DEF Value
  <2>5. ((o - 4) % 3) + 1 = 1 \/ ((o - 4) % 3) + 1 = 2 \/ ((o - 4) % 3) + 1 = 3
    BY <1>2
  <2> HIDE DEF v, d
  <2>6. Value(v, k, o) \in Byte
    BY <2>3, <2>4, <2>5
  <2> QED BY <2>6 DEF v
<1> QED BY <1>2, <1>3, <1>4, <1>5, <1>6

\* A patched block is a block.
LEMMA PatchedBlock ==
    ASSUME NEW b, IsBlock(b), NEW change, InRange(change)
    PROVE  IsBlock(Patched(b, change))
<1> DEFINE new == Patched(b, change)
<1>1. new = [k \in Chunks |-> new[k]] /\ \A k \in Chunks : new[k] = [o \in Offsets(k) |-> new[k][o]]
  BY PatchedShape, Zenon
<1>2. ASSUME NEW k \in Chunks, NEW o \in Offsets(k) PROVE new[k][o] \in Byte
  <2>1. b[k][o] \in Byte
    BY DEF IsBlock
  <2>2. new[k][o] = IF Wrote(change, k, o) THEN Value(change[Owner(k, o)], k, o) ELSE b[k][o]
    BY PatchedByte, Zenon
  <2>3. Wrote(change, k, o) => Value(change[Owner(k, o)], k, o) \in Byte
    BY ValueIsByte, Zenon
  <2> HIDE DEF new
  <2> QED BY <2>1, <2>2, <2>3
<1>3. new[1][19] = 0
  <2>1. Owner(1, 19) = "nobody" /\ 19 \in Offsets(1) /\ 1 \in Chunks
    BY OffsetsAre, NumbersAre DEF Owner
  <2>2. ~Wrote(change, 1, 19)
    <3>1. "nobody" \notin DOMAIN change
      BY Ranges DEF Fields
    <3> QED BY <2>1, <3>1 DEF Wrote
  <2>3. new[1][19] = IF Wrote(change, 1, 19) THEN Value(change[Owner(1, 19)], 1, 19) ELSE b[1][19]
    BY <2>1, PatchedByte
  <2> QED BY <2>2, <2>3 DEF IsBlock
<1> HIDE DEF new
<1>4. \A k \in Chunks : new[k] \in [Offsets(k) -> Byte]
  BY <1>1, <1>2
<1>5. IsBlock(new)
  BY <1>1, <1>3, <1>4 DEF IsBlock
<1> QED BY <1>5 DEF new

-----------------------------------------------------------------------------
(* A program that can be stored is packed into a block. *)

\* The bytes of a packed program, by offset.
HasBytes(b, p, day) ==
    /\ \A o \in 4 .. 19 : b[0][o] = Padded(p.name)[o - 3]
    /\ \A o \in 4 .. 18 : b[1][o] = Padded(p.name)[o + 13]
    /\ b[1][19] = 0
    /\ b[2][4] = Bytes2(p.inter_station_delay)[1] /\ b[2][5] = Bytes2(p.inter_station_delay)[2]
    /\ b[2][6] = Bytes2(p.water_budget)[1] /\ b[2][7] = Bytes2(p.water_budget)[2]
    /\ b[2][8] = p.cycle /\ b[2][9] = p.week_days
    /\ b[2][10] = p.period_length /\ b[2][11] = p.synchro_day
    /\ b[2][12] = day /\ b[2][13] = 1 /\ b[2][14] = 7 /\ b[2][15] = 208
    /\ \A o \in 4 .. 19 :
          b[3][o] = Bytes2(StartOf(p.start_times, (o - 4) \div 2))[((o - 4) % 2) + 1]
    /\ \A k \in 4 .. 6 : \A o \in Offsets(k) :
          b[k][o] = Bytes3(p.station_durations[Station(k, o) - 1])[((o - 4) % 3) + 1]

\* The bytes of a packed program.
LEMMA PackedBytes ==
    ASSUME NEW p, NEW day, NEW b, IsPacked(b, p, day)
    PROVE  HasBytes(b, p, day)
<1> DEFINE delay == Bytes2(p.inter_station_delay)
           budget == Bytes2(p.water_budget)
           header == <<delay[1], delay[2], budget[1], budget[2], p.cycle, p.week_days,
                       p.period_length, p.synchro_day, day, 1, 7, 208>>
<1>1. /\ b[0] = [o \in 4 .. 19 |-> Padded(p.name)[o - 3]]
      /\ b[1] = [o \in 4 .. 19 |-> IF o = 19 THEN 0 ELSE Padded(p.name)[o + 13]]
  BY DEF IsPacked
<1>2. b[2] = [o \in 4 .. 15 |-> header[o - 3]]
  BY DEF IsPacked
<1>3. b[3] = [o \in 4 .. 19 |-> Bytes2(StartOf(p.start_times, (o - 4) \div 2))[((o - 4) % 2) + 1]]
  BY DEF IsPacked, StartOf
<1>4. b[4] = [o \in 4 .. 18 |-> Bytes3(p.station_durations[(o - 4) \div 3])[((o - 4) % 3) + 1]]
  BY DEF IsPacked
<1>5. b[5] = [o \in 4 .. 18 |-> Bytes3(p.station_durations[5 + ((o - 4) \div 3)])[((o - 4) % 3) + 1]]
  BY DEF IsPacked
<1>6. b[6] = [o \in 4 .. 9 |-> Bytes3(p.station_durations[10 + ((o - 4) \div 3)])[((o - 4) % 3) + 1]]
  BY DEF IsPacked
<1>7. \A o \in 4 .. 19 : b[0][o] = Padded(p.name)[o - 3]
  BY <1>1
<1>8. b[1][19] = 0 /\ \A o \in 4 .. 18 : b[1][o] = Padded(p.name)[o + 13]
  BY <1>1
<1>9. /\ header[1] = Bytes2(p.inter_station_delay)[1] /\ header[2] = Bytes2(p.inter_station_delay)[2]
      /\ header[3] = Bytes2(p.water_budget)[1] /\ header[4] = Bytes2(p.water_budget)[2]
      /\ header[5] = p.cycle /\ header[6] = p.week_days
      /\ header[7] = p.period_length /\ header[8] = p.synchro_day
      /\ header[9] = day /\ header[10] = 1 /\ header[11] = 7 /\ header[12] = 208
  OBVIOUS
<1> HIDE DEF header
<1>10. /\ b[2][4] = header[1] /\ b[2][5] = header[2] /\ b[2][6] = header[3] /\ b[2][7] = header[4]
      /\ b[2][8] = header[5] /\ b[2][9] = header[6] /\ b[2][10] = header[7] /\ b[2][11] = header[8]
      /\ b[2][12] = header[9] /\ b[2][13] = header[10] /\ b[2][14] = header[11] /\ b[2][15] = header[12]
  BY <1>2
<1>11. /\ b[2][4] = Bytes2(p.inter_station_delay)[1] /\ b[2][5] = Bytes2(p.inter_station_delay)[2]
      /\ b[2][6] = Bytes2(p.water_budget)[1] /\ b[2][7] = Bytes2(p.water_budget)[2]
      /\ b[2][8] = p.cycle /\ b[2][9] = p.week_days
      /\ b[2][10] = p.period_length /\ b[2][11] = p.synchro_day
      /\ b[2][12] = day /\ b[2][13] = 1 /\ b[2][14] = 7 /\ b[2][15] = 208
  BY <1>9, <1>10
<1>12. \A o \in 4 .. 19 : b[3][o] = Bytes2(StartOf(p.start_times, (o - 4) \div 2))[((o - 4) % 2) + 1]
  BY <1>3
<1>13. ASSUME NEW k \in 4 .. 6, NEW o \in Offsets(k)
      PROVE  b[k][o] = Bytes3(p.station_durations[Station(k, o) - 1])[((o - 4) % 3) + 1]
  <2>1. CASE k = 4
    <3>1. o \in 4 .. 18
      BY <2>1, OffsetsAre
    <3>2. Station(k, o) - 1 = (o - 4) \div 3
      BY <2>1, <3>1 DEF Station
    <3> QED BY <1>4, <2>1, <3>1, <3>2
  <2>2. CASE k = 5
    <3>1. o \in 4 .. 18
      BY <2>2, OffsetsAre
    <3>2. Station(k, o) - 1 = 5 + ((o - 4) \div 3)
      BY <2>2, <3>1 DEF Station
    <3> QED BY <1>5, <2>2, <3>1, <3>2
  <2>3. CASE k = 6
    <3>1. o \in 4 .. 9
      BY <2>3, OffsetsAre
    <3>2. Station(k, o) - 1 = 10 + ((o - 4) \div 3)
      BY <2>3, <3>1 DEF Station
    <3> QED BY <1>6, <2>3, <3>1, <3>2
  <2> QED BY <2>1, <2>2, <2>3
<1> QED BY <1>7, <1>8, <1>11, <1>12, <1>13, Zenon DEF HasBytes

\* The station and the byte of a duration at an offset.
LEMMA StationIs ==
    ASSUME NEW k \in 4 .. 6, NEW o \in Offsets(k)
    PROVE  /\ Station(k, o) \in 1 .. 12 /\ Station(k, o) - 1 \in 0 .. 11 /\ o \in Int
           /\ (((o - 4) % 3) + 1 = 1 \/ ((o - 4) % 3) + 1 = 2 \/ ((o - 4) % 3) + 1 = 3)
<1>1. o \in Int /\ 4 <= o /\ o <= 18 /\ (k = 6 => o <= 9)
  BY OffsetsAre
<1> QED BY <1>1 DEF Station

\* A packed program has every chunk, at its offsets.
LEMMA PackedDomains ==
    ASSUME NEW p, NEW day, NEW b, IsPacked(b, p, day)
    PROVE  b = [k \in Chunks |-> b[k]] /\ \A k \in Chunks : b[k] = [o \in Offsets(k) |-> b[k][o]]
<1>1. b = [k \in Chunks |-> b[k]]
  BY DEF IsPacked
<1>2. /\ b[0] = [o \in Offsets(0) |-> b[0][o]] /\ b[1] = [o \in Offsets(1) |-> b[1][o]]
      /\ b[2] = [o \in Offsets(2) |-> b[2][o]] /\ b[3] = [o \in Offsets(3) |-> b[3][o]]
      /\ b[4] = [o \in Offsets(4) |-> b[4][o]] /\ b[5] = [o \in Offsets(5) |-> b[5][o]]
      /\ b[6] = [o \in Offsets(6) |-> b[6][o]]
  <2>1. /\ b[0] = [o \in 4 .. 19 |-> b[0][o]] /\ b[1] = [o \in 4 .. 19 |-> b[1][o]]
        /\ b[2] = [o \in 4 .. 15 |-> b[2][o]] /\ b[3] = [o \in 4 .. 19 |-> b[3][o]]
    BY DEF IsPacked
  <2>2. /\ b[4] = [o \in 4 .. 18 |-> b[4][o]] /\ b[5] = [o \in 4 .. 18 |-> b[5][o]]
        /\ b[6] = [o \in 4 .. 9 |-> b[6][o]]
    BY DEF IsPacked
  <2> QED BY <2>1, <2>2, OffsetsAre, Zenon
<1>3. \A k \in Chunks : b[k] = [o \in Offsets(k) |-> b[k][o]]
  BY <1>2, ChunksAre
<1> QED BY <1>1, <1>3

\* A program that can be stored is packed into a block.
LEMMA PackedBlock ==
    ASSUME NEW p, Storable(p), NEW day \in 1 .. 31
    PROVE  IsBlock(Packed(p, day))
<1> DEFINE b == Packed(p, day)
<1>1. IsPacked(b, p, day)
  BY PackedChunks
<1> HIDE DEF b
<1>2. b = [k \in Chunks |-> b[k]] /\ \A k \in Chunks : b[k] = [o \in Offsets(k) |-> b[k][o]]
  BY <1>1, PackedDomains
<1>3. HasBytes(b, p, day)
  BY <1>1, PackedBytes
<1>4. /\ p.name \in Seq(Byte)
      /\ p.inter_station_delay \in 0 .. MaxWord /\ p.water_budget \in 0 .. MaxWord
      /\ p.cycle \in Byte /\ p.week_days \in Byte
      /\ p.period_length \in Byte /\ p.synchro_day \in Byte
      /\ p.start_times \in [0 .. 7 -> {None} \cup (0 .. Disabled - 1)]
      /\ p.station_durations \in [0 .. 11 -> 0 .. MaxDuration]
  BY StorableParts, Zenon
<1>5. ASSUME NEW o \in Offsets(0) PROVE b[0][o] \in Byte
  <2>1. \A i \in 1 .. 31 : Padded(p.name)[i] \in Byte
    BY <1>4, PaddedBytes
  <2> QED BY <1>3, <2>1, OffsetsAre DEF HasBytes
<1>6. ASSUME NEW o \in Offsets(1) PROVE b[1][o] \in Byte
  <2>1. \A i \in 1 .. 31 : Padded(p.name)[i] \in Byte
    BY <1>4, PaddedBytes
  <2> QED BY <1>3, <2>1, OffsetsAre, ByteIs DEF HasBytes
<1>7. ASSUME NEW o \in Offsets(2) PROVE b[2][o] \in Byte
  <2>1. /\ Bytes2(p.inter_station_delay)[1] \in Byte /\ Bytes2(p.inter_station_delay)[2] \in Byte
        /\ Bytes2(p.water_budget)[1] \in Byte /\ Bytes2(p.water_budget)[2] \in Byte
    BY <1>4, Bytes2Back
  <2>2. day \in Byte /\ 1 \in Byte /\ 7 \in Byte /\ 208 \in Byte
    BY ByteIs
  <2>3. o \in {4, 5, 6, 7, 8, 9, 10, 11, 12, 13, 14, 15}
    BY OffsetsAre
  <2>4. /\ b[2][4] \in Byte /\ b[2][5] \in Byte /\ b[2][6] \in Byte /\ b[2][7] \in Byte
        /\ b[2][8] \in Byte /\ b[2][9] \in Byte /\ b[2][10] \in Byte /\ b[2][11] \in Byte
        /\ b[2][12] \in Byte /\ b[2][13] \in Byte /\ b[2][14] \in Byte /\ b[2][15] \in Byte
    <3>1. /\ b[2][4] = Bytes2(p.inter_station_delay)[1] /\ b[2][5] = Bytes2(p.inter_station_delay)[2]
          /\ b[2][6] = Bytes2(p.water_budget)[1] /\ b[2][7] = Bytes2(p.water_budget)[2]
      BY <1>3, Zenon DEF HasBytes
    <3>2. /\ b[2][4] \in Byte /\ b[2][5] \in Byte /\ b[2][6] \in Byte /\ b[2][7] \in Byte
      BY <2>1, <3>1, Zenon
    <3>3. /\ b[2][8] = p.cycle /\ b[2][9] = p.week_days /\ b[2][10] = p.period_length
          /\ b[2][11] = p.synchro_day
      BY <1>3, Zenon DEF HasBytes
    <3>4. /\ b[2][8] \in Byte /\ b[2][9] \in Byte /\ b[2][10] \in Byte /\ b[2][11] \in Byte
      BY <1>4, <3>3, Zenon
    <3>5. /\ b[2][12] \in Byte /\ b[2][13] \in Byte /\ b[2][14] \in Byte /\ b[2][15] \in Byte
      BY <1>3, <2>2, Zenon DEF HasBytes
    <3> QED BY <3>2, <3>4, <3>5, Zenon
  <2> QED BY <2>3, <2>4
<1>8. ASSUME NEW o \in Offsets(3) PROVE b[3][o] \in Byte
  <2> DEFINE s == (o - 4) \div 2
  <2>1. /\ o \in 4 .. 19 /\ s \in 0 .. 7 /\ (((o - 4) % 2) + 1 = 1 \/ ((o - 4) % 2) + 1 = 2)
        /\ b[3][o] = Bytes2(StartOf(p.start_times, s))[((o - 4) % 2) + 1]
    BY <1>3, OffsetsAre DEF HasBytes
  <2> HIDE DEF s
  <2>2. p.start_times[s] \in {None} \cup (0 .. Disabled - 1)
    BY <1>4, <2>1
  <2>3. StartOf(p.start_times, s) \in 0 .. MaxWord
    BY <2>2, StartIs, Zenon DEF StartOf
  <2>4. Bytes2(StartOf(p.start_times, s))[1] \in Byte /\ Bytes2(StartOf(p.start_times, s))[2] \in Byte
    BY <2>3, Bytes2Back, Zenon
  <2> QED BY <2>1, <2>4
<1>9. ASSUME NEW k \in 4 .. 6, NEW o \in Offsets(k) PROVE b[k][o] \in Byte
  <2> DEFINE d == p.station_durations[Station(k, o) - 1]
  <2>1. /\ Station(k, o) - 1 \in 0 .. 11
        /\ (((o - 4) % 3) + 1 = 1 \/ ((o - 4) % 3) + 1 = 2 \/ ((o - 4) % 3) + 1 = 3)
    BY StationIs, Zenon
  <2>2. d \in 0 .. MaxDuration
    BY <1>4, <2>1
  <2>3. b[k][o] = Bytes3(d)[((o - 4) % 3) + 1]
    BY <1>3, Zenon DEF HasBytes
  <2> HIDE DEF d
  <2>4. Bytes3(d)[1] \in Byte /\ Bytes3(d)[2] \in Byte /\ Bytes3(d)[3] \in Byte
    BY <2>2, Bytes3Back
  <2> QED BY <2>1, <2>3, <2>4
<1>10. ASSUME NEW k \in Chunks, NEW o \in Offsets(k) PROVE b[k][o] \in Byte
  <2>1. k = 0 \/ k = 1 \/ k = 2 \/ k = 3 \/ k \in 4 .. 6
    BY ChunksAre
  <2> QED BY <1>5, <1>6, <1>7, <1>8, <1>9, <2>1
<1>11. \A k \in Chunks : b[k] \in [Offsets(k) -> Byte]
  BY <1>2, <1>10
<1>12. IsBlock(b)
  BY <1>2, <1>3, <1>11, Zenon DEF IsBlock, HasBytes
<1> QED BY <1>12 DEF b

-----------------------------------------------------------------------------
(* What normalisation makes of a request. *)

\* What normalisation accepts, one by one.
LEMMA AcceptableParts ==
    ASSUME NEW r, Acceptable(r)
    PROVE  /\ r.inter_station_delay \in 0 .. MaxWord /\ r.water_budget \in 0 .. MaxWord
           /\ r.cycle \in Byte /\ r.week_days \in Byte
           /\ r.period_length \in Byte /\ r.synchro_day \in Byte
           /\ r.cycle = 4 => r.period_length >= 1
           /\ \A s \in DOMAIN r.start_times : r.start_times[s] \in {None} \cup (0 .. Disabled - 1)
           /\ \A t \in DOMAIN r.station_durations : r.station_durations[t] \in 0 .. MaxDuration
BY Zenon DEF Acceptable

\* What requests are, one by one.
LEMMA RequestParts ==
    ASSUME NEW r \in Requests
    PROVE  /\ r.name \in Seq(Byte)
           /\ r.start_times \in Seq(Int) /\ r.station_durations \in Seq(Int)
           /\ \A a, b \in r.anchor : a \in Int /\ a = b
BY ProgramsAssumption, Zenon DEF ProgramsAssumption

\* The smaller of two numbers.
LEMMA MinOfTwo ==
    ASSUME NEW a \in Int, NEW b \in Int
    PROVE  Min({a, b}) = IF a <= b THEN a ELSE b
<1>1. CASE a <= b
  <2>1. a \in {a, b} /\ {a, b} \subseteq Int /\ \A y \in {a, b} : a <= y
    BY <1>1
  <2> QED BY <1>1, <2>1, MinIs
<1>2. CASE ~(a <= b)
  <2>1. b \in {a, b} /\ {a, b} \subseteq Int /\ \A y \in {a, b} : b <= y
    BY <1>2
  <2> QED BY <1>2, <2>1, MinIs
<1> QED BY <1>1, <1>2

\* A name cut to what can be stored.
Cut(name) == SubSeq(name, 1, Min({31, Len(name)}))

\* A name is cut to 31 bytes.
LEMMA NameCut ==
    ASSUME NEW name \in Seq(Byte)
    PROVE  /\ Cut(name) \in Seq(Byte) /\ Len(Cut(name)) <= 31
           /\ \A i \in 1 .. Len(Cut(name)) : i \in DOMAIN name /\ Cut(name)[i] = name[i]
<1> DEFINE n == Min({31, Len(name)})
<1>1. Len(name) \in Nat /\ DOMAIN name = 1 .. Len(name) /\ \A i \in 1 .. Len(name) : name[i] \in Byte
  OBVIOUS
<1>2. n \in Nat /\ n <= 31 /\ n <= Len(name)
  BY <1>1, MinOfTwo
<1>3. Cut(name) = SubSeq(name, 1, n)
  BY DEF Cut
<1> HIDE DEF n
<1>4. \A i \in 1 .. n : name[i] \in Byte /\ i \in DOMAIN name
  BY <1>1, <1>2
<1>5. /\ SubSeq(name, 1, n) \in Seq(Byte)
      /\ Len(SubSeq(name, 1, n)) = IF 1 <= n THEN n - 1 + 1 ELSE 0
      /\ \A i \in 1 .. n - 1 + 1 : SubSeq(name, 1, n)[i] = name[1 + i - 1]
  BY <1>2, <1>4, SubSeqProperties
<1>6. /\ Cut(name) \in Seq(Byte)
      /\ Len(Cut(name)) = IF 1 <= n THEN n - 1 + 1 ELSE 0
      /\ \A i \in 1 .. n - 1 + 1 : Cut(name)[i] = name[1 + i - 1]
  BY <1>3, <1>5, Zenon
<1>7. Len(Cut(name)) = n
  BY <1>2, <1>6
<1>8. \A i \in 1 .. n : Cut(name)[i] = name[i]
  <2> SUFFICES ASSUME NEW i \in 1 .. n PROVE Cut(name)[i] = name[i]
    OBVIOUS
  <2>1. i \in 1 .. n - 1 + 1 /\ 1 + i - 1 = i
    BY <1>2
  <2> QED BY <1>6, <2>1
<1> QED BY <1>2, <1>4, <1>7, <1>8, <1>6

\* What normalisation makes can be stored, keeps the first bytes of the name, and for
\* an interval program with an anchor counts down to the anchor's phase.
LEMMA NormalParts ==
    ASSUME NEW r \in Requests, Acceptable(r), NEW day \in Int, NEW w, w = Normal(r, day)
    PROVE  /\ Storable(w)
           /\ Len(w.name) <= 31
           /\ \A i \in 1 .. Len(w.name) : i \in DOMAIN r.name /\ w.name[i] = r.name[i]
           /\ w.cycle = r.cycle
           /\ r.cycle = 4 => /\ w.period_length \in Nat \ {0}
                             /\ r.anchor = {} => w.synchro_day = r.synchro_day
                             /\ \A a \in r.anchor : w.synchro_day % w.period_length = (a - day) % w.period_length
<1>1. /\ w.name = Cut(r.name)
      /\ w.inter_station_delay = r.inter_station_delay /\ w.water_budget = r.water_budget
      /\ w.cycle = r.cycle /\ w.week_days = r.week_days /\ w.period_length = r.period_length
      /\ w.synchro_day = IF r.cycle = 4 /\ r.anchor # {}
                         THEN Synchro(Min(r.anchor), r.period_length, day) ELSE r.synchro_day
      /\ w.start_times = [s \in 0 .. 7 |-> IF s + 1 \in DOMAIN r.start_times THEN r.start_times[s + 1] ELSE None]
      /\ w.station_durations = [t \in 0 .. 11 |->
              IF t + 1 \in DOMAIN r.station_durations THEN r.station_durations[t + 1] ELSE 0]
  BY Zenon DEF Normal, Cut
<1>2. w.name \in Seq(Byte) /\ Len(w.name) <= 31
      /\ \A i \in 1 .. Len(w.name) : i \in DOMAIN r.name /\ w.name[i] = r.name[i]
  <2>1. r.name \in Seq(Byte)
    BY RequestParts, Zenon
  <2>2. /\ Cut(r.name) \in Seq(Byte) /\ Len(Cut(r.name)) <= 31
        /\ \A i \in 1 .. Len(Cut(r.name)) : i \in DOMAIN r.name /\ Cut(r.name)[i] = r.name[i]
    BY <2>1, NameCut
  <2>3. w.name = Cut(r.name)
    BY <1>1, Zenon
  <2> QED BY <2>2, <2>3, Zenon
<1>3. w.start_times \in [0 .. 7 -> {None} \cup (0 .. Disabled - 1)]
  <2>1. \A s \in DOMAIN r.start_times : r.start_times[s] \in {None} \cup (0 .. Disabled - 1)
    BY AcceptableParts, Zenon
  <2>2. w.start_times = [s \in 0 .. 7 |-> IF s + 1 \in DOMAIN r.start_times THEN r.start_times[s + 1] ELSE None]
    BY <1>1, Zenon
  <2> QED BY <2>1, <2>2
<1>4. w.station_durations \in [0 .. 11 -> 0 .. MaxDuration]
  <2>1. \A t \in DOMAIN r.station_durations : r.station_durations[t] \in 0 .. MaxDuration
    BY AcceptableParts, Zenon
  <2>2. 0 \in 0 .. MaxDuration
    BY MaxDurationIs
  <2>3. w.station_durations = [t \in 0 .. 11 |->
              IF t + 1 \in DOMAIN r.station_durations THEN r.station_durations[t + 1] ELSE 0]
    BY <1>1, Zenon
  <2> QED BY <2>1, <2>2, <2>3
<1>5. /\ w.inter_station_delay \in 0 .. MaxWord /\ w.water_budget \in 0 .. MaxWord
      /\ w.cycle \in Byte /\ w.week_days \in Byte /\ w.period_length \in Byte
      /\ r.synchro_day \in Byte /\ (r.cycle = 4 => r.period_length >= 1)
  BY <1>1, AcceptableParts, Zenon
<1>6. w.period_length \in Int /\ w.period_length <= 255 /\ 0 <= w.period_length
  BY <1>5, ByteIs
<1>7. ASSUME r.cycle = 4
      PROVE  /\ w.period_length \in Nat \ {0} /\ w.synchro_day \in Byte
             /\ r.anchor = {} => w.synchro_day = r.synchro_day
             /\ \A a \in r.anchor : w.synchro_day % w.period_length = (a - day) % w.period_length
  <2>1. w.period_length \in Nat \ {0}
    <3>1. w.period_length >= 1
      BY <1>1, <1>5, <1>7, Zenon
    <3> QED BY <1>6, <3>1
  <2>2. CASE r.anchor = {}
    <3>1. w.synchro_day = r.synchro_day
      BY <1>1, <2>2
    <3> QED BY <1>5, <2>1, <2>2, <3>1
  <2>3. CASE r.anchor # {}
    <3>1. PICK a : a \in r.anchor
      BY <2>3
    <3>2. a \in Int /\ r.anchor = {a}
      BY <3>1, RequestParts
    <3>3. Min(r.anchor) = a
      <4>1. a \in {a} /\ {a} \subseteq Int /\ \A y \in {a} : a <= y
        BY <3>2
      <4> QED BY <3>2, <4>1, MinIs
    <3>4. w.synchro_day = Synchro(a, w.period_length, day)
      BY <1>1, <1>7, <2>3, <3>3
    <3>5. w.synchro_day \in 0 .. w.period_length - 1 /\ w.synchro_day % w.period_length = (a - day) % w.period_length
      <4> DEFINE n == w.period_length
      <4>1. n \in Nat \ {0} /\ a \in Int /\ w.synchro_day = Synchro(a, n, day)
        BY <2>1, <3>2, <3>4
      <4> HIDE DEF n
      <4>2. Synchro(a, n, day) \in 0 .. n - 1 /\ Synchro(a, n, day) % n = (a - day) % n
        BY <4>1, SynchroPhase, Zenon
      <4> QED BY <4>1, <4>2, Zenon DEF n
    <3>6. w.synchro_day \in Byte
      <4>1. w.synchro_day \in 0 .. w.period_length - 1
        BY <3>5, Zenon
      <4> QED BY <1>6, <4>1, ByteIs
    <3> QED BY <2>1, <2>3, <3>2, <3>5, <3>6
  <2> QED BY <2>2, <2>3
<1>8. w.synchro_day \in Byte
  <2>1. CASE r.cycle = 4
    BY <1>7, <2>1
  <2>2. CASE r.cycle # 4
    BY <1>1, <1>5, <2>2
  <2> QED BY <2>1, <2>2
<1>9. Storable(w)
  BY <1>2, <1>3, <1>4, <1>5, <1>8, Zenon DEF Storable
<1> QED BY <1>1, <1>2, <1>7, <1>9, Zenon

-----------------------------------------------------------------------------
(* Transfers, and what they leave. *)

\* What a frame tells of its slot, chunk and bytes.
LEMMA FrameParts ==
    ASSUME NEW slot, NEW k \in Chunks, NEW body
    PROVE  Frame(slot, k, body).slot = slot /\ ChunkOf(Frame(slot, k, body)) = k /\ Frame(slot, k, body).body = body
<1>1. k \in Int
  BY ChunksAre
<1>2. CASE k < 2
  BY <1>1, <1>2 DEF Frame, ChunkOf
<1>3. CASE ~(k < 2)
  BY <1>1, <1>3 DEF Frame, ChunkOf
<1> QED BY <1>2, <1>3

\* Frame i writes chunk k of slot s.
Aim(frames, i, s, k) == frames[i].slot = s /\ ChunkOf(frames[i]) = k

\* A list of n frames that writes chunks, each at most once.
IsTransfer(frames, n) ==
    /\ n \in Nat /\ frames = [i \in 1 .. n |-> frames[i]]
    /\ \A i \in 1 .. n : \E s \in Slots : \E k \in Chunks :
          /\ Aim(frames, i, s, k) /\ frames[i].body \in [Offsets(k) -> Byte]
          /\ k = 1 => frames[i].body[19] = 0
          /\ \A j \in 1 .. n : Aim(frames, j, s, k) => j = i

\* The first m of a sequence.
LEMMA Prefix ==
    ASSUME NEW f, NEW m \in Nat
    PROVE  SubSeq(f, 1, m) = [i \in 1 .. m |-> f[i]]
<1>1. m - 1 + 1 = m /\ \A i \in 1 .. m : 1 + i - 1 = i /\ i - 1 + 1 = i /\ i + 1 - 1 = i
  OBVIOUS
<1> QED BY <1>1

\* What was sent of a transfer is its first frames, and a transfer again.
LEMMA SentPrefix ==
    ASSUME NEW frames, NEW n, IsTransfer(frames, n), NEW sent \in Sent(frames)
    PROVE  \E m \in 0 .. n : /\ sent = [i \in 1 .. m |-> frames[i]] /\ Len(sent) = m
                             /\ IsTransfer(sent, m) /\ (m = n => sent = frames)
<1>1. n \in Nat /\ frames = [i \in 1 .. n |-> frames[i]] /\ Len(frames) = n
  BY DEF IsTransfer
<1>2. PICK m \in 0 .. n : sent = SubSeq(frames, 1, m)
  <2>1. PICK m \in (Cuts \cap (0 .. Len(frames))) \cup {Len(frames)} : sent = SubSeq(frames, 1, m)
    BY Zenon DEF Sent
  <2>2. n \in Nat /\ Len(frames) = n
    BY <1>1, Zenon
  <2>3. m \in 0 .. n
    BY <2>2
  <2> QED BY <2>1, <2>3, Zenon
<1>3. sent = [i \in 1 .. m |-> frames[i]]
  <2>1. m \in Nat
    BY <1>1
  <2> QED BY <1>2, <2>1, Prefix, Zenon
<1>4. Len(sent) = m /\ sent = [i \in 1 .. m |-> sent[i]] /\ \A i \in 1 .. m : i \in 1 .. n /\ sent[i] = frames[i]
  BY <1>1, <1>3
<1>5. \A i \in 1 .. m : \A s, k : Aim(sent, i, s, k) <=> Aim(frames, i, s, k)
  BY <1>4 DEF Aim
<1>6. ASSUME NEW i \in 1 .. m
      PROVE  \E s \in Slots : \E k \in Chunks :
                /\ Aim(sent, i, s, k) /\ sent[i].body \in [Offsets(k) -> Byte]
                /\ k = 1 => sent[i].body[19] = 0
                /\ \A j \in 1 .. m : Aim(sent, j, s, k) => j = i
  <2>1. i \in 1 .. n /\ sent[i] = frames[i]
    BY <1>4
  <2>2. PICK s \in Slots, k \in Chunks :
                /\ Aim(frames, i, s, k) /\ frames[i].body \in [Offsets(k) -> Byte]
                /\ k = 1 => frames[i].body[19] = 0
                /\ \A j \in 1 .. n : Aim(frames, j, s, k) => j = i
    BY <2>1, Zenon DEF IsTransfer
  <2>3. \A j \in 1 .. m : Aim(sent, j, s, k) => j = i
    BY <1>4, <1>5, <2>2, Zenon
  <2> QED BY <1>5, <2>1, <2>2, <2>3, Zenon
<1>7. IsTransfer(sent, m)
  <2>1. m \in Nat
    BY <1>1
  <2> QED BY <1>4, <1>6, <2>1, Zenon DEF IsTransfer
<1>8. m = n => sent = frames
  BY <1>1, <1>3
<1> QED BY <1>3, <1>4, <1>7, <1>8

\* What Stored makes of a chunk.
LEMMA StoredAt ==
    ASSUME NEW c, NEW frames, NEW n, IsTransfer(frames, n), NEW s \in Slots, NEW k \in Chunks
    PROVE  /\ \A i \in 1 .. n : Aim(frames, i, s, k) => Stored(c, frames)[s][k] = frames[i].body
           /\ (\A i \in 1 .. n : ~Aim(frames, i, s, k)) => Stored(c, frames)[s][k] = c[s][k]
<1> DEFINE hits == {i \in DOMAIN frames : frames[i].slot = s /\ ChunkOf(frames[i]) = k}
<1>1. n \in Nat /\ DOMAIN frames = 1 .. n
  BY DEF IsTransfer
<1>2. hits = {i \in 1 .. n : Aim(frames, i, s, k)}
  BY <1>1 DEF Aim
<1>3. Stored(c, frames)[s][k] = IF hits = {} THEN c[s][k] ELSE frames[Max(hits)].body
  BY DEF Stored
<1> HIDE DEF hits
<1>4. ASSUME NEW i \in 1 .. n, Aim(frames, i, s, k) PROVE Stored(c, frames)[s][k] = frames[i].body
  <2>1. PICK ss \in Slots, kk \in Chunks : Aim(frames, i, ss, kk) /\ \A j \in 1 .. n : Aim(frames, j, ss, kk) => j = i
    BY Zenon DEF IsTransfer
  <2>2. ss = s /\ kk = k
    BY <1>4, <2>1 DEF Aim
  <2>3. hits = {i}
    BY <1>2, <1>4, <2>1, <2>2
  <2>4. Max(hits) = i
    BY <1>1, <2>3, MaxOfOne
  <2> QED BY <1>3, <2>3, <2>4
<1>5. ASSUME \A i \in 1 .. n : ~Aim(frames, i, s, k) PROVE Stored(c, frames)[s][k] = c[s][k]
  <2>1. hits = {}
    BY <1>2, <1>5
  <2> QED BY <1>3, <2>1
<1> QED BY <1>4, <1>5

\* A configuration after a transfer has every slot and every chunk.
LEMMA StoredShape ==
    ASSUME NEW c, NEW frames
    PROVE  LET new == Stored(c, frames)
           IN  new = [s \in Slots |-> new[s]] /\ \A s \in Slots : new[s] = [k \in Chunks |-> new[s][k]]
BY DEF Stored

\* A transfer leaves a configuration.
LEMMA StoredConfig ==
    ASSUME NEW c, IsConfig(c), NEW frames, NEW n, IsTransfer(frames, n)
    PROVE  IsConfig(Stored(c, frames))
<1> DEFINE new == Stored(c, frames)
<1>1. new = [s \in Slots |-> new[s]] /\ \A s \in Slots : new[s] = [k \in Chunks |-> new[s][k]]
  BY StoredShape, Zenon
<1>2. ASSUME NEW s \in Slots, NEW k \in Chunks
      PROVE  new[s][k] \in [Offsets(k) -> Byte] /\ (k = 1 => new[s][k][19] = 0)
  <2>1. CASE \E i \in 1 .. n : Aim(frames, i, s, k)
    <3>1. PICK i \in 1 .. n : Aim(frames, i, s, k)
      BY <2>1
    <3>2. PICK ss \in Slots, kk \in Chunks :
             /\ Aim(frames, i, ss, kk) /\ frames[i].body \in [Offsets(kk) -> Byte]
             /\ kk = 1 => frames[i].body[19] = 0
      BY Zenon DEF IsTransfer
    <3>3. kk = k
      BY <3>1, <3>2 DEF Aim
    <3>4. new[s][k] = frames[i].body
      BY <3>1, StoredAt
    <3> QED BY <3>2, <3>3, <3>4, Zenon
  <2>2. CASE \A i \in 1 .. n : ~Aim(frames, i, s, k)
    <3>1. new[s][k] = c[s][k]
      BY <2>2, StoredAt
    <3> QED BY <3>1, Zenon DEF IsConfig, IsBlock
  <2> QED BY <2>1, <2>2
<1> HIDE DEF new
<1>3. ASSUME NEW s \in Slots PROVE IsBlock(new[s])
  BY <1>1, <1>2, NumbersAre, Zenon DEF IsBlock
<1>4. IsConfig(new)
  BY <1>1, <1>3, Zenon DEF IsConfig
<1> QED BY <1>4 DEF new

\* The seven frames of a block.
LEMMA FramesTransfer ==
    ASSUME NEW slot \in Slots, NEW b, IsBlock(b)
    PROVE  /\ IsTransfer(Frames(slot, b), 7)
           /\ \A i \in 1 .. 7 : \A s, k : Aim(Frames(slot, b), i, s, k) <=> s = slot /\ k = i - 1
           /\ \A i \in 1 .. 7 : Frames(slot, b)[i].body = b[i - 1]
<1> DEFINE F == Frames(slot, b)
<1>1. F = [i \in 1 .. 7 |-> Frame(slot, i - 1, b[i - 1])]
  BY DEF Frames
<1> HIDE DEF F
<1>2. ASSUME NEW i \in 1 .. 7
      PROVE i - 1 \in Chunks /\ F[i].slot = slot /\ ChunkOf(F[i]) = i - 1 /\ F[i].body = b[i - 1]
  <2>1. i - 1 \in Chunks /\ F[i] = Frame(slot, i - 1, b[i - 1])
    BY <1>1 DEF Chunks
  <2> DEFINE k == i - 1
  <2> HIDE DEF k
  <2>2. k \in Chunks /\ F[i] = Frame(slot, k, b[k])
    BY <2>1 DEF k
  <2>3. F[i].slot = slot /\ ChunkOf(F[i]) = k /\ F[i].body = b[k]
    BY <2>2, FrameParts
  <2> QED BY <2>1, <2>3 DEF k
<1>3. \A i \in 1 .. 7 : \A s, k : Aim(F, i, s, k) <=> s = slot /\ k = i - 1
  BY <1>2 DEF Aim
<1>4. ASSUME NEW i \in 1 .. 7
      PROVE  \E s \in Slots : \E k \in Chunks :
                /\ Aim(F, i, s, k) /\ F[i].body \in [Offsets(k) -> Byte]
                /\ k = 1 => F[i].body[19] = 0
                /\ \A j \in 1 .. 7 : Aim(F, j, s, k) => j = i
  <2>1. i - 1 \in Chunks /\ Aim(F, i, slot, i - 1) /\ F[i].body = b[i - 1]
    BY <1>2, <1>3
  <2>2. \A j \in 1 .. 7 : Aim(F, j, slot, i - 1) => j = i
    BY <1>3
  <2>3. b[i - 1] \in [Offsets(i - 1) -> Byte] /\ (i - 1 = 1 => b[i - 1][19] = 0)
    BY <2>1, Zenon DEF IsBlock
  <2> QED BY <2>1, <2>2, <2>3, Zenon
<1>5. IsTransfer(F, 7)
  <2>1. F = [i \in 1 .. 7 |-> F[i]] /\ 7 \in Nat
    BY <1>1
  <2> QED BY <2>1, <1>4, Zenon DEF IsTransfer
<1> QED BY <1>2, <1>3, <1>5 DEF F

-----------------------------------------------------------------------------
(* Reports, and what restores them. *)

\* A set that an interval counts through.
LEMMA Numbered ==
    ASSUME NEW n \in Nat, NEW T, NEW f \in [0 .. n - 1 -> T], \A t \in T : \E i \in 0 .. n - 1 : f[i] = t
    PROVE  /\ IsFiniteSet(T) /\ Cardinality(T) \in Nat /\ Cardinality(T) <= n
           /\ (\A i, j \in 0 .. n - 1 : f[i] = f[j] => i = j) => Cardinality(T) = n
<1>1. IsFiniteSet(0 .. n - 1) /\ Cardinality(0 .. n - 1) = n
  <2>1. 0 \in Int /\ n - 1 \in Int /\ (IF 0 > n - 1 THEN 0 ELSE n - 1 - 0 + 1) = n
    OBVIOUS
  <2> QED BY <2>1, FS_Interval
<1>2. f \in Surjection(0 .. n - 1, T)
  BY DEF Surjection
<1>3. /\ IsFiniteSet(T) /\ Cardinality(T) <= Cardinality(0 .. n - 1)
      /\ Cardinality(T) = Cardinality(0 .. n - 1) <=> f \in Injection(0 .. n - 1, T)
  BY <1>1, <1>2, FS_Surjection
<1>4. Cardinality(T) \in Nat
  BY <1>3, FS_CardinalityType
<1>5. (\A i, j \in 0 .. n - 1 : f[i] = f[j] => i = j) => f \in Injection(0 .. n - 1, T)
  BY DEF Injection, IsInjective
<1> QED BY <1>1, <1>3, <1>4, <1>5

\* Slots are those of the programs and the hidden ones, of which there is one.
LEMMA SlotsAre ==
    /\ ProgramCount \in Nat /\ SlotCount \in Nat /\ ProgramCount < SlotCount
    /\ Slots \subseteq Nat /\ Programs \subseteq Slots /\ Hidden \subseteq Slots
    /\ \A s \in Slots : s < SlotCount /\ (s \in Programs \/ s \in Hidden)
    /\ \A s \in Hidden : s \notin Programs
    /\ SlotCount - 1 \in Hidden
    /\ Programs \cup Hidden = Slots
BY EditAssumption DEF EditAssumption, Slots, Programs, Hidden

\* The fragment of a hidden slot's chunk.
Piece(c, s, k) == [slot |-> s, id |-> (SlotCount - s) * 7 - 1 - k, body |-> c[s][k]]

\* Fragments of one slot are told apart by their ids, which fall with the chunk.
LEMMA PieceIs ==
    ASSUME NEW c, NEW s \in Slots, NEW k \in Chunks
    PROVE  /\ Piece(c, s, k).slot = s /\ Piece(c, s, k).body = c[s][k]
           /\ \A j \in Chunks : Piece(c, s, j).id > Piece(c, s, k).id <=> j < k
           /\ \A j \in Chunks : Piece(c, s, j) = Piece(c, s, k) => j = k
<1>1. SlotCount \in Int /\ s \in Int /\ k \in Int /\ \A j \in Chunks : j \in Int
  BY SlotsAre, ChunksAre
<1> DEFINE m == (SlotCount - s) * 7 - 1
<1>2. m \in Int
  BY <1>1
<1>3. \A j : Piece(c, s, j).id = m - j /\ Piece(c, s, j).slot = s /\ Piece(c, s, j).body = c[s][j]
  BY DEF Piece
<1> HIDE DEF m
<1>4. \A j \in Chunks : Piece(c, s, j).id > Piece(c, s, k).id <=> j < k
  BY <1>1, <1>2, <1>3
<1>5. \A j \in Chunks : Piece(c, s, j).id = Piece(c, s, k).id => j = k
  BY <1>1, <1>2, <1>3
<1>6. \A j \in Chunks : Piece(c, s, j) = Piece(c, s, k) => j = k
  BY <1>5, Zenon
<1> QED BY <1>3, <1>4, <1>6

\* The fragments a report has, and those of one slot.
Pieces(c, lost)     == {Piece(c, s, k) : s \in Hidden, k \in Chunks \ lost}
PiecesOf(c, lost, s) == {Piece(c, s, k) : k \in Chunks \ lost}

\* A fragment of a report is that of some chunk that was not lost.
LEMMA PiecesAre ==
    ASSUME NEW c, NEW lost, NEW f
    PROVE  /\ f \in Pieces(c, lost) <=> \E s \in Hidden, k \in Chunks \ lost : f = Piece(c, s, k)
           /\ \A s : f \in PiecesOf(c, lost, s) <=> \E k \in Chunks \ lost : f = Piece(c, s, k)
BY DEF Pieces, PiecesOf

\* The two parts of a report.
LEMMA Extras ==
    ASSUME NEW c, NEW lost
    PROVE  /\ Reported(c, lost).extras = Pieces(c, lost)
           /\ Reported(c, lost).blocks = [p \in Programs |-> c[p]]
BY DEF Reported, Piece, Pieces

\* The fragments of one slot in a report.
LEMMA OwnPieces ==
    ASSUME NEW c, NEW lost, NEW s \in Hidden
    PROVE  Own(Reported(c, lost), s) = PiecesOf(c, lost, s)
<1>1. \A t, k : Piece(c, t, k).slot = t
  BY DEF Piece
<1>2. \A f : f \in Own(Reported(c, lost), s) <=> f \in Pieces(c, lost) /\ f.slot = s
  BY Extras DEF Own
<1>3. ASSUME NEW f \in Pieces(c, lost), f.slot = s PROVE f \in PiecesOf(c, lost, s)
  <2>1. PICK t \in Hidden, k \in Chunks \ lost : f = Piece(c, t, k)
    BY PiecesAre
  <2>2. s = t
    BY <1>1, <1>3, <2>1, Zenon
  <2> QED BY <2>1, <2>2, PiecesAre
<1>4. ASSUME NEW f \in PiecesOf(c, lost, s) PROVE f \in Pieces(c, lost) /\ f.slot = s
  <2>1. PICK k \in Chunks \ lost : f = Piece(c, s, k)
    BY DEF PiecesOf
  <2> QED BY <1>1, <2>1, PiecesAre
<1> QED BY <1>2, <1>3, <1>4

\* A fragment of a whole report is ranked by its chunk.
LEMMA PieceRank ==
    ASSUME NEW c, NEW s \in Hidden, NEW k \in Chunks
    PROVE  Rank(Reported(c, {}), Piece(c, s, k)) = k
<1> DEFINE T == {g \in Own(Reported(c, {}), s) : g.id > Piece(c, s, k).id}
           f == [j \in 0 .. k - 1 |-> Piece(c, s, j)]
<1>1. s \in Slots /\ k \in Nat /\ k <= 6 /\ \A j \in 0 .. k - 1 : j \in Chunks /\ j < k
  BY SlotsAre, ChunksAre DEF Chunks
<1>2. Piece(c, s, k).slot = s
  BY DEF Piece
<1>3. \A j \in Chunks : Piece(c, s, j).id > Piece(c, s, k).id <=> j \in 0 .. k - 1
  <2>1. \A j \in Chunks : Piece(c, s, j).id > Piece(c, s, k).id <=> j < k
    BY <1>1, PieceIs
  <2>2. \A j \in Chunks : j < k <=> j \in 0 .. k - 1
    BY <1>1 DEF Chunks
  <2> QED BY <2>1, <2>2
<1>4. f \in [0 .. k - 1 -> T] /\ \A t \in T : \E i \in 0 .. k - 1 : f[i] = t
  <2>1. T = {g \in PiecesOf(c, {}, s) : g.id > Piece(c, s, k).id}
    BY OwnPieces
  <2> HIDE DEF T
  <2>2. ASSUME NEW i \in 0 .. k - 1 PROVE f[i] \in T
    <3>1. f[i] = Piece(c, s, i) /\ i \in Chunks \ {}
      BY <1>1
    <3>2. f[i] \in PiecesOf(c, {}, s)
      BY <3>1, Zenon DEF PiecesOf
    <3> QED BY <1>3, <2>1, <3>1, <3>2
  <2>3. ASSUME NEW t \in T PROVE \E i \in 0 .. k - 1 : f[i] = t
    <3>1. PICK i \in Chunks \ {} : t = Piece(c, s, i)
      BY <2>1, <2>3, Zenon DEF PiecesOf
    <3>2. i \in 0 .. k - 1
      BY <1>3, <2>1, <3>1
    <3> QED BY <3>1, <3>2
  <2> QED BY <2>2, <2>3
<1> HIDE DEF T
<1>5. \A i, j \in 0 .. k - 1 : f[i] = f[j] => i = j
  <2>1. \A i \in 0 .. k - 1 : f[i] = Piece(c, s, i) /\ i \in Chunks
    BY <1>1
  <2>2. ASSUME NEW j \in Chunks
        PROVE  \A i \in Chunks : Piece(c, s, i) = Piece(c, s, j) => i = j
    BY <1>1, PieceIs
  <2> HIDE DEF f
  <2> QED BY <2>1, <2>2, Zenon
<1> HIDE DEF f
<1>6. Cardinality(T) = k
  BY <1>1, <1>4, <1>5, Numbered
<1> QED BY <1>2, <1>6 DEF Rank, T

\* The chunks of a whole report.
LEMMA KeyedWhole ==
    ASSUME NEW c, NEW s \in Slots, NEW k \in Chunks
    PROVE  Keyed(Reported(c, {}))[<<s, k>>] = c[s][k]
<1> DEFINE R == Reported(c, {})
           dom == (Programs \X Chunks) \cup {<<f.slot, Rank(R, f)>> : f \in R.extras}
<1>1. Keyed(R) = [key \in dom |->
        IF key[1] \in Programs THEN R.blocks[key[1]][key[2]]
        ELSE (CHOOSE f \in Own(R, key[1]) : Rank(R, f) = key[2]).body]
  BY DEF Keyed
<1>2. R.blocks = [p \in Programs |-> c[p]] /\ R.extras = Pieces(c, {})
  BY Extras
<1>3. CASE s \in Programs
  <2> HIDE DEF R
  <2>1. <<s, k>> \in dom
    BY <1>3
  <2>2. <<s, k>>[1] = s /\ <<s, k>>[2] = k /\ R.blocks[s] = c[s]
    BY <1>2, <1>3
  <2> HIDE DEF dom
  <2>3. Keyed(R)[<<s, k>>] = R.blocks[s][k]
    BY <1>1, <1>3, <2>1, <2>2
  <2> QED BY <2>2, <2>3, Zenon DEF R
<1>4. CASE s \in Hidden
  <2>1. s \notin Programs
    BY <1>4, SlotsAre
  <2>2. Piece(c, s, k) \in R.extras /\ Piece(c, s, k).slot = s /\ Rank(R, Piece(c, s, k)) = k
    <3>1. Piece(c, s, k) \in Pieces(c, {})
      BY <1>4 DEF Pieces
    <3>2. Rank(R, Piece(c, s, k)) = k
      BY <1>4, PieceRank, Zenon
    <3>3. Piece(c, s, k).slot = s
      BY DEF Piece
    <3> QED BY <1>2, <3>1, <3>2, <3>3, Zenon
  <2>3. Own(R, s) = PiecesOf(c, {}, s) /\ \A j \in Chunks : Rank(R, Piece(c, s, j)) = j
    BY <1>4, OwnPieces, PieceRank, Zenon
  <2> HIDE DEF R
  <2>4. <<s, k>> \in dom
    <3>1. <<Piece(c, s, k).slot, Rank(R, Piece(c, s, k))>> = <<s, k>>
      BY <2>2, Zenon
    <3> QED BY <2>2, <3>1, Zenon
  <2>5. (CHOOSE f \in Own(R, s) : Rank(R, f) = k) = Piece(c, s, k)
    <3>1. Piece(c, s, k) \in Own(R, s) /\ Rank(R, Piece(c, s, k)) = k
      BY <2>2, <2>3 DEF PiecesOf
    <3>2. \A f \in Own(R, s) : Rank(R, f) = k => f = Piece(c, s, k)
      <4> TAKE f \in Own(R, s)
      <4>1. PICK j \in Chunks \ {} : f = Piece(c, s, j)
        BY <2>3 DEF PiecesOf
      <4>2. Rank(R, f) = j
        BY <2>3, <4>1
      <4> QED BY <4>1, <4>2
    <3> QED BY <3>1, <3>2, Zenon
  <2>6. Piece(c, s, k).body = c[s][k]
    BY DEF Piece
  <2>7. <<s, k>>[1] = s /\ <<s, k>>[2] = k
    OBVIOUS
  <2> HIDE DEF dom
  <2>8. Keyed(R)[<<s, k>>] = (CHOOSE f \in Own(R, s) : Rank(R, f) = k).body
    BY <1>1, <2>1, <2>4, <2>7
  <2> QED BY <2>5, <2>6, <2>8, Zenon DEF R
<1> QED BY <1>3, <1>4, SlotsAre

\* A kept report that can be restored is whole.
LEMMA RestorableIsWhole ==
    ASSUME NEW c, NEW s \in Reports(c), Restorable(s)
    PROVE  s = Reported(c, {}) /\ Reporting(s) = Hidden
<1>1. PICK lost \in {{}, {0}, Chunks} : s = Reported(c, lost)
  BY DEF Reports
<1>2. Reporting(s) = Hidden /\ Known(s)
  BY DEF Restorable
<1>3. PICK h : h \in Hidden
  BY SlotsAre
<1>4. Cardinality(Own(s, h)) = 7
  BY <1>2, <1>3 DEF Known
<1>5. CASE lost = {0}
  <2> DEFINE T == Own(s, h)
             f == [j \in 0 .. 6 - 1 |-> Piece(c, h, j + 1)]
  <2>1. T = PiecesOf(c, {0}, h)
    BY <1>1, <1>3, <1>5, OwnPieces
  <2>2. \A k \in Chunks \ {0} : k - 1 \in 0 .. 6 - 1 /\ (k - 1) + 1 = k
    BY DEF Chunks
  <2>3. \A j \in 0 .. 6 - 1 : j + 1 \in Chunks \ {0}
    BY DEF Chunks
  <2> HIDE DEF T
  <2>4. f \in [0 .. 6 - 1 -> T] /\ \A t \in T : \E i \in 0 .. 6 - 1 : f[i] = t
    <3>1. \A j \in 0 .. 6 - 1 : f[j] = Piece(c, h, j + 1)
      OBVIOUS
    <3>2. ASSUME NEW j \in 0 .. 6 - 1 PROVE f[j] \in T
      BY <2>1, <2>3, <3>1 DEF PiecesOf
    <3>3. ASSUME NEW t \in T PROVE \E i \in 0 .. 6 - 1 : f[i] = t
      <4>1. PICK k \in Chunks \ {0} : t = Piece(c, h, k)
        BY <2>1 DEF PiecesOf
      <4> QED BY <2>2, <3>1, <4>1
    <3> QED BY <3>2, <3>3
  <2> HIDE DEF f
  <2>5. 6 \in Nat
    OBVIOUS
  <2>6. Cardinality(T) \in Nat /\ Cardinality(T) <= 6
    BY <2>4, <2>5, Numbered
  <2> QED BY <1>4, <2>6 DEF T
<1>6. CASE lost = Chunks
  <2>1. s.extras = {}
    <3>1. s.extras = Pieces(c, Chunks)
      BY <1>1, <1>6, Extras, Zenon
    <3> QED BY <3>1 DEF Pieces
  <2> QED BY <1>2, <1>3, <2>1 DEF Reporting
<1> QED BY <1>1, <1>2, <1>5, <1>6

\* The frames that restore a whole report are those of its configuration.
LEMMA RestoreFrames ==
    ASSUME NEW c, IsConfig(c), NEW s, s = Reported(c, {}), Reporting(s) = Hidden
    PROVE  IsTransfer(WriteFrames(s), 7 * SlotCount)
<1> DEFINE n == 7 * SlotCount
           W == WriteFrames(s)
<1>1. SlotCount \in Nat /\ n \in Nat
  BY SlotsAre
<1>2. Cardinality(Programs \cup Reporting(s)) = SlotCount
  <2>1. Programs \cup Reporting(s) = 0 .. SlotCount - 1
    BY SlotsAre DEF Slots
  <2>2. 0 \in Int /\ SlotCount - 1 \in Int /\ (IF 0 > SlotCount - 1 THEN 0 ELSE SlotCount - 1 - 0 + 1) = SlotCount
    BY SlotsAre
  <2> QED BY <2>1, <2>2, FS_Interval
<1>3. W = [i \in 1 .. n |-> Frame((i - 1) \div 7, (i - 1) % 7, Keyed(s)[<<(i - 1) \div 7, (i - 1) % 7>>])]
  BY <1>2 DEF WriteFrames
<1> HIDE DEF n, W
<1>4. ASSUME NEW i \in 1 .. n
      PROVE  /\ (i - 1) \div 7 \in Slots /\ (i - 1) % 7 \in Chunks
             /\ Aim(W, i, (i - 1) \div 7, (i - 1) % 7) /\ W[i].body = c[(i - 1) \div 7][(i - 1) % 7]
             /\ i = 7 * ((i - 1) \div 7) + ((i - 1) % 7) + 1
  <2> DEFINE q == (i - 1) \div 7
             k == (i - 1) % 7
  <2>1. q \in Slots /\ k \in Chunks /\ i = 7 * q + k + 1
    <3>1. q \in Int /\ k \in 0 .. 6 /\ i - 1 = 7 * q + k
      BY <1>1
    <3> HIDE DEF q, k
    <3> QED BY <1>1, <3>1 DEF Slots, Chunks, n
  <2>2. W[i] = Frame(q, k, Keyed(s)[<<q, k>>])
    BY <1>3
  <2> HIDE DEF q, k
  <2>3. Keyed(s)[<<q, k>>] = c[q][k]
    BY <2>1, KeyedWhole
  <2>4. W[i].slot = q /\ ChunkOf(W[i]) = k /\ W[i].body = c[q][k]
    BY <2>1, <2>2, <2>3, FrameParts
  <2> QED BY <2>1, <2>4 DEF Aim, q, k
<1>5. ASSUME NEW i \in 1 .. n
      PROVE  \E t \in Slots : \E k \in Chunks :
                /\ Aim(W, i, t, k) /\ W[i].body \in [Offsets(k) -> Byte]
                /\ k = 1 => W[i].body[19] = 0
                /\ \A j \in 1 .. n : Aim(W, j, t, k) => j = i
  <2> DEFINE q == (i - 1) \div 7
             k == (i - 1) % 7
  <2>1. q \in Slots /\ k \in Chunks /\ Aim(W, i, q, k) /\ W[i].body = c[q][k] /\ i = 7 * q + k + 1
    BY <1>4
  <2> HIDE DEF q, k
  <2>2. W[i].body \in [Offsets(k) -> Byte] /\ (k = 1 => W[i].body[19] = 0)
    <3>1. IsBlock(c[q])
      BY <2>1 DEF IsConfig
    <3>2. c[q][k] \in [Offsets(k) -> Byte] /\ c[q][1][19] = 0
      BY <2>1, <3>1, Zenon DEF IsBlock
    <3> QED BY <2>1, <3>2
  <2>3. ASSUME NEW j \in 1 .. n, Aim(W, j, q, k) PROVE j = i
    <3>1. Aim(W, j, (j - 1) \div 7, (j - 1) % 7) /\ j = 7 * ((j - 1) \div 7) + ((j - 1) % 7) + 1
      BY <1>4
    <3>2. (j - 1) \div 7 = q /\ (j - 1) % 7 = k
      BY <2>3, <3>1, Zenon DEF Aim
    <3> QED BY <2>1, <3>1, <3>2
  <2> QED BY <2>1, <2>2, <2>3, Zenon
<1>6. IsTransfer(W, n)
  <2>1. W = [i \in 1 .. n |-> W[i]]
    BY <1>3
  <2> QED BY <1>1, <1>5, <2>1, Zenon DEF IsTransfer
<1> QED BY <1>6 DEF W, n

\* Subtraction tells the numbers subtracted apart.
LEMMA MinusTells == \A m, i, j \in Int : m - i = m - j => i = j
OBVIOUS

\* Reports of two configurations that agree, and are whole, are of one.
LEMMA WholeReportTells ==
    ASSUME NEW c, c = [s \in Slots |-> c[s]], NEW d, d = [s \in Slots |-> d[s]],
           \A s \in Slots : c[s] = [k \in Chunks |-> c[s][k]] /\ d[s] = [k \in Chunks |-> d[s][k]],
           NEW lost, Reported(c, {}) = Reported(d, lost)
    PROVE  c = d
<1>1. [p \in Programs |-> c[p]] = [p \in Programs |-> d[p]] /\ Pieces(c, {}) = Pieces(d, lost)
  <2>1. /\ Reported(c, {}).blocks = [p \in Programs |-> c[p]]
        /\ Reported(d, lost).blocks = [p \in Programs |-> d[p]]
        /\ Reported(c, {}).extras = Pieces(c, {}) /\ Reported(d, lost).extras = Pieces(d, lost)
    BY Extras, Zenon
  <2> QED BY <2>1, Zenon
<1>2. \A p \in Programs : c[p] = d[p]
  BY <1>1
<1>3. ASSUME NEW s \in Hidden, NEW k \in Chunks PROVE c[s][k] = d[s][k]
  <2>1. Piece(c, s, k) \in Pieces(c, {})
    BY DEF Pieces
  <2>2. PICK t \in Hidden, j \in Chunks \ lost : Piece(c, s, k) = Piece(d, t, j)
    <3>1. Piece(c, s, k) \in Pieces(d, lost)
      BY <1>1, <2>1, Zenon
    <3> QED BY <3>1 DEF Pieces
  <2>3. Piece(c, s, k).slot = s /\ Piece(d, t, j).slot = t
    BY DEF Piece
  <2>4. Piece(c, s, k).id = (SlotCount - s) * 7 - 1 - k /\ Piece(d, t, j).id = (SlotCount - t) * 7 - 1 - j
    BY DEF Piece
  <2>5. Piece(c, s, k).body = c[s][k] /\ Piece(d, t, j).body = d[t][j]
    BY DEF Piece
  <2>6. s = t
    BY <2>2, <2>3
  <2>7. k = j
    <3> DEFINE m == (SlotCount - s) * 7 - 1
    <3>1. m \in Int /\ k \in Int /\ j \in Int
      BY SlotsAre, ChunksAre
    <3>2. m - k = m - j
      BY <2>2, <2>4, <2>6
    <3> HIDE DEF m
    <3> QED BY <3>1, <3>2, MinusTells, Zenon
  <2>8. Piece(c, s, k).body = Piece(d, t, j).body
    BY <2>2, Zenon
  <2>9. c[s][k] = d[t][j]
    BY <2>5, <2>8
  <2> QED BY <2>6, <2>7, <2>9, Zenon
<1>4. \A s \in Slots : c[s] = d[s]
  <2>1. ASSUME NEW s \in Slots, s \in Hidden PROVE c[s] = d[s]
    <3>1. c[s] = [k \in Chunks |-> c[s][k]] /\ d[s] = [k \in Chunks |-> d[s][k]]
      OBVIOUS
    <3>2. [k \in Chunks |-> c[s][k]] = [k \in Chunks |-> d[s][k]]
      BY <1>3, <2>1
    <3> QED BY <3>1, <3>2, Zenon
  <2> QED BY <1>2, <2>1, SlotsAre
<1> QED BY <1>4

-----------------------------------------------------------------------------
(* The inductive invariant: what is held are blocks, drafts and backups are
   reports, and what is prepared is a patch or the restore of the backup. *)

\* A snapshot that was read: programs, and fragments of the hidden slots.
IsSnapshot(s) ==
    /\ s = [blocks |-> s.blocks, extras |-> s.extras]
    /\ s.blocks = [p \in Programs |-> s.blocks[p]] /\ \A p \in Programs : IsBlock(s.blocks[p])
    /\ \A f \in s.extras : f.slot \in Hidden

\* A prepared edit: what patch, and the restore of the kept snapshot, make.
IsPatch(j) ==
    LET new == Patched(j.base.blocks[j.slot], j.change)
    IN  /\ j.kind = "patch" /\ j.slot \in Programs /\ IsSnapshot(j.base)
        /\ InRange(j.change) /\ IntervalKept(new[Header])
        /\ j.frames = Frames(j.slot, new) /\ j.expected = [j.base EXCEPT !.blocks[j.slot] = new]
IsRestore(j, kept, was) ==
    /\ j.kind = "restore" /\ Restorable(kept) /\ kept \in Reports(was)
    /\ j.frames = WriteFrames(kept) /\ j.expected = kept

\* The inductive invariant.
Scalars   == today \in 1 .. MaxDays /\ jobs \in 0 .. MaxJobs
Verdicts  == verdict \in {"none", "confirmed", "refused", "uncertain", "mismatch"}
Blocks    == IsConfig(config) /\ IsConfig(held)
Drafts    == draft = NoSnapshot \/ IsSnapshot(draft)
Backups   == backup = NoSnapshot \/ backup \in Reports(held)
Jobs      == job = NoJob \/ IsPatch(job) \/ IsRestore(job, backup, held)
Days      == due = [p \in Programs |-> due[p]] /\ \A p \in Programs : \A day \in due[p] : day \in Int
IInv == Scalars /\ Verdicts /\ Blocks /\ Drafts /\ Backups /\ Jobs /\ Days

\* What a read assembles is a snapshot of the programs the controller holds.
LEMMA ReportSnapshot ==
    ASSUME NEW c, IsConfig(c), NEW s \in Reports(c)
    PROVE  IsSnapshot(s) /\ \A p \in Programs : s.blocks[p] = c[p]
<1>1. PICK lost \in {{}, {0}, Chunks} : s = Reported(c, lost)
  BY Zenon DEF Reports
<1>2. s.blocks = [p \in Programs |-> c[p]] /\ s.extras = Pieces(c, lost)
  BY <1>1, Extras, Zenon
<1>3. \A p \in Programs : s.blocks[p] = c[p] /\ IsBlock(c[p])
  BY <1>2, SlotsAre DEF IsConfig
<1>4. s.blocks = [p \in Programs |-> s.blocks[p]]
  BY <1>2
<1>5. \A f \in s.extras : f.slot \in Hidden
  <2> TAKE f \in s.extras
  <2>1. PICK t \in Hidden, k \in Chunks \ lost : f = Piece(c, t, k)
    BY <1>2 DEF Pieces
  <2>2. Piece(c, t, k).slot = t
    BY DEF Piece
  <2> QED BY <2>1, <2>2, Zenon
<1>6. s = [blocks |-> s.blocks, extras |-> s.extras]
  BY <1>1 DEF Reported
<1> QED BY <1>3, <1>4, <1>5, <1>6, Zenon DEF IsSnapshot

\* What is prepared is a transfer.
LEMMA PatchTransfer ==
    ASSUME NEW j, IsPatch(j)
    PROVE  LET new == Patched(j.base.blocks[j.slot], j.change)
           IN  /\ IsBlock(new) /\ j.frames = Frames(j.slot, new) /\ IsTransfer(j.frames, 7)
<1> DEFINE old == j.base.blocks[j.slot]
           new == Patched(old, j.change)
<1>1. IsBlock(old) /\ InRange(j.change) /\ j.slot \in Programs
  BY Zenon DEF IsPatch, IsSnapshot
<1>2. j.frames = Frames(j.slot, new)
  BY Zenon DEF IsPatch
<1> HIDE DEF old
<1>3. IsBlock(new)
  BY <1>1, PatchedBlock, Zenon
<1> HIDE DEF new
<1>4. j.slot \in Slots
  BY <1>1, SlotsAre
<1>5. IsTransfer(Frames(j.slot, new), 7)
  BY <1>3, <1>4, FramesTransfer
<1> QED BY <1>2, <1>3, <1>5, Zenon DEF new, old

\* A restore is of a whole report, and a transfer of every chunk of every slot.
LEMMA RestoreTransfer ==
    ASSUME NEW j, NEW kept, NEW was, IsConfig(was), IsRestore(j, kept, was)
    PROVE  /\ kept = Reported(was, {}) /\ j.expected = kept
           /\ IsTransfer(j.frames, 7 * SlotCount)
<1>1. kept \in Reports(was) /\ Restorable(kept)
  BY Zenon DEF IsRestore
<1>2. kept = Reported(was, {}) /\ Reporting(kept) = Hidden
  BY <1>1, RestorableIsWhole, Zenon
<1>3. IsTransfer(WriteFrames(kept), 7 * SlotCount)
  BY <1>2, RestoreFrames, Zenon
<1> QED BY <1>2, <1>3, Zenon DEF IsRestore

\* Whatever was prepared is a transfer.
LEMMA JobTransfer ==
    ASSUME IInv, job # NoJob
    PROVE  \E n : IsTransfer(job.frames, n)
<1>1. IsConfig(held) /\ (IsPatch(job) \/ IsRestore(job, backup, held))
  BY Zenon DEF IInv, Blocks, Jobs
<1> QED BY <1>1, PatchTransfer, RestoreTransfer, Zenon

\* Any first frames of a transfer leave a configuration.
LEMMA SentConfig ==
    ASSUME NEW c, IsConfig(c), NEW frames, NEW n, IsTransfer(frames, n), NEW sent \in Sent(frames)
    PROVE  IsConfig(Stored(c, sent))
BY SentPrefix, StoredConfig, Zenon

\* The interval of a block's header is bytes.
LEMMA HeaderBytes ==
    ASSUME NEW b, IsBlock(b)
    PROVE  /\ b[Header][8] \in Byte /\ b[Header][10] \in Byte /\ b[Header][11] \in Byte
           /\ b[Header][8] \in Nat /\ b[Header][10] \in Nat /\ b[Header][11] \in Nat
<1>1. b[2] \in [Offsets(2) -> Byte] /\ Header = 2
  BY NumbersAre, Zenon DEF IsBlock
<1>2. 8 \in Offsets(2) /\ 10 \in Offsets(2) /\ 11 \in Offsets(2)
  BY OffsetsAre
<1>3. b[2][8] \in Byte /\ b[2][10] \in Byte /\ b[2][11] \in Byte
  BY <1>1, <1>2, Zenon
<1>4. \A v \in Byte : v \in Nat
  BY ByteIs
<1> QED BY <1>1, <1>3, <1>4, Zenon

\* The inductive invariant holds at first.
LEMMA Initially == Init => IInv
<1> SUFFICES ASSUME Init PROVE IInv
  OBVIOUS
<1>1. PICK f \in Factory : config = [s \in Slots |-> Packed(f[s], 1)]
  BY Zenon DEF Init
<1>2. ASSUME NEW s \in Slots PROVE IsBlock(config[s])
  <2>1. config[s] = Packed(f[s], 1)
    BY <1>1
  <2>2. Storable(f[s]) /\ 1 \in 1 .. 31
    BY ProgramsAssumption
  <2> QED BY <2>1, <2>2, PackedBlock, Zenon
<1>3. config = [s \in Slots |-> config[s]]
  BY <1>1
<1>4. IsConfig(config)
  BY <1>2, <1>3, Zenon DEF IsConfig
<1>5. held = config /\ draft = NoSnapshot /\ backup = NoSnapshot /\ job = NoJob
  BY Zenon DEF Init
<1>6. Scalars /\ Verdicts
  BY EditAssumption DEF Init, Scalars, Verdicts
<1>7. Days
  <2> DEFINE d(p) == IF IntervalKept(config[p][Header]) THEN DueBy(config[p][Header]) ELSE {}
  <2>1. due = [p \in Programs |-> d(p)] /\ today = 1
    BY Zenon DEF Init
  <2>2. ASSUME NEW p \in Programs, NEW day \in d(p) PROVE day \in Int
    <3>1. day = today + config[p][Header][11]
      BY DEF DueBy
    <3>2. config[p][Header][11] \in Int
      BY <1>2, SlotsAre, HeaderBytes
    <3> QED BY <2>1, <3>1, <3>2
  <2> HIDE DEF d
  <2> QED BY <2>1, <2>2 DEF Days
<1> QED BY <1>4, <1>5, <1>6, <1>7, Zenon DEF IInv, Blocks, Drafts, Backups, Jobs

-----------------------------------------------------------------------------
(* Every call keeps it. *)

\* The inductive invariant gives the types.
LEMMA TypesFollow == IInv => TypeOK
<1> SUFFICES ASSUME IInv PROVE TypeOK
  OBVIOUS
<1>1. today \in 1 .. MaxDays /\ jobs \in 0 .. MaxJobs
  BY Zenon DEF IInv, Scalars
<1>2. verdict \in {"none", "confirmed", "refused", "uncertain", "mismatch"}
  BY Zenon DEF IInv, Verdicts
<1>3. config = [s \in Slots |-> config[s]] /\ \A s \in Slots : IsBlock(config[s])
  BY Zenon DEF IInv, Blocks, IsConfig
<1>4. DOMAIN config = Slots
  BY <1>3, Zenon
<1>5. \A s \in Slots : IsProgram(config[s])
  BY <1>3, BlockIsProgram, Zenon
<1>6. job.kind \in {"none", "patch", "restore"}
  <2>1. job = NoJob \/ job.kind = "patch" \/ job.kind = "restore"
    BY Zenon DEF IInv, Jobs, IsPatch, IsRestore
  <2>2. NoJob.kind = "none"
    BY DEF NoJob
  <2> QED BY <2>1, <2>2, Zenon
<1> QED BY <1>1, <1>2, <1>4, <1>5, <1>6, Zenon DEF TypeOK

\* A call that does not reach the controller leaves it as it was.
LEMMA UntouchedKept ==
    ASSUME IInv, UNCHANGED <<config, held, due>>
    PROVE  Blocks' /\ Days'
BY DEF IInv, Blocks, Days

\* The inductive invariant survives a read for an editor.
LEMMA ReadKeeps == IInv /\ Read => IInv'
<1> SUFFICES ASSUME IInv, Read PROVE IInv'
  OBVIOUS
<1>1. /\ draft' \in Reports(config) /\ verdict' = "none"
      /\ UNCHANGED <<config, today, backup, held, job, jobs, due>>
  BY Zenon DEF Read
<1>2. Blocks' /\ Days'
  BY <1>1, UntouchedKept
<1>3. Drafts'
  BY <1>1, ReportSnapshot, Zenon DEF IInv, Blocks, Drafts
<1>4. Scalars' /\ Verdicts' /\ Backups' /\ Jobs'
  BY <1>1 DEF IInv, Scalars, Verdicts, Backups, Jobs
<1> QED BY <1>2, <1>3, <1>4 DEF IInv

\* It survives a read that is kept: what is kept is a report of what is held.
LEMMA KeepKeeps == IInv /\ Keep => IInv'
<1> SUFFICES ASSUME IInv, Keep PROVE IInv'
  OBVIOUS
<1>1. /\ backup' \in Reports(config) /\ held' = config /\ verdict' = "none" /\ job = NoJob
      /\ UNCHANGED <<config, today, draft, job, jobs, due>>
  BY Zenon DEF Keep
<1>2. Blocks' /\ Days'
  BY <1>1 DEF IInv, Blocks, Days
<1>3. Scalars' /\ Verdicts' /\ Backups' /\ Jobs' /\ Drafts'
  BY <1>1 DEF IInv, Scalars, Verdicts, Backups, Jobs, Drafts
<1> QED BY <1>2, <1>3 DEF IInv

\* It survives a patch, which prepares what IsPatch says.
LEMMA PatchKeeps ==
    ASSUME NEW p \in Programs, NEW change \in Changes, IInv, Patch(p, change)
    PROVE  IInv'
<1> DEFINE new == Patched(draft.blocks[p], change)
           j   == [kind |-> "patch", slot |-> p, change |-> change, base |-> draft,
                   frames |-> Frames(p, new), expected |-> [draft EXCEPT !.blocks[p] = new]]
<1>1. /\ draft # NoSnapshot /\ InRange(change) /\ IntervalKept(new[Header]) /\ jobs < MaxJobs
      /\ job' = j /\ draft' = NoSnapshot /\ jobs' = jobs + 1 /\ verdict' = "none"
      /\ UNCHANGED <<config, today, backup, held, due>>
  BY Zenon DEF Patch
<1>2. IsSnapshot(draft)
  BY <1>1, Zenon DEF IInv, Drafts
<1>3. IsPatch(j)
  <2>1. /\ j.kind = "patch" /\ j.slot = p /\ j.change = change /\ j.base = draft
        /\ j.frames = Frames(p, new) /\ j.expected = [draft EXCEPT !.blocks[p] = new]
    BY Zenon
  <2>2. Patched(j.base.blocks[j.slot], j.change) = new
    BY <2>1, Zenon
  <2> HIDE DEF j, new
  <2>3. j.slot \in Programs /\ IsSnapshot(j.base) /\ InRange(j.change)
    BY <1>1, <1>2, <2>1, Zenon
  <2>4. j.expected = [j.base EXCEPT !.blocks[j.slot] = new] /\ j.frames = Frames(j.slot, new)
    BY <2>1, Zenon
  <2> QED BY <1>1, <2>1, <2>2, <2>3, <2>4, Zenon DEF IsPatch
<1> HIDE DEF j, new
<1>4. Blocks' /\ Days'
  BY <1>1, UntouchedKept
<1>5. Jobs' /\ Drafts' /\ Verdicts'
  BY <1>1, <1>3 DEF Jobs, Drafts, Verdicts
<1>6. Scalars' /\ Backups'
  BY <1>1, EditAssumption DEF IInv, Scalars, Backups
<1> QED BY <1>4, <1>5, <1>6 DEF IInv

\* It survives the preparation of a restore.
LEMMA RestoreKeeps == IInv /\ Restore => IInv'
<1> SUFFICES ASSUME IInv, Restore PROVE IInv'
  OBVIOUS
<1> DEFINE j == [kind |-> "restore", base |-> draft, frames |-> WriteFrames(backup), expected |-> backup]
<1>1. /\ backup # NoSnapshot /\ Restorable(backup) /\ jobs < MaxJobs
      /\ job' = j /\ draft' = NoSnapshot /\ jobs' = jobs + 1 /\ verdict' = "none"
      /\ UNCHANGED <<config, today, backup, held, due>>
  BY Zenon DEF Restore
<1>2. backup \in Reports(held)
  BY <1>1, Zenon DEF IInv, Backups
<1>3. IsRestore(j, backup, held)
  <2>1. j.kind = "restore" /\ j.frames = WriteFrames(backup) /\ j.expected = backup
    BY Zenon
  <2> HIDE DEF j
  <2> QED BY <1>1, <1>2, <2>1, Zenon DEF IsRestore
<1> HIDE DEF j
<1>4. Blocks' /\ Days'
  BY <1>1, UntouchedKept
<1>5. Jobs' /\ Drafts' /\ Verdicts'
  BY <1>1, <1>3 DEF Jobs, Drafts, Verdicts
<1>6. Scalars' /\ Backups'
  BY <1>1, EditAssumption DEF IInv, Scalars, Backups
<1> QED BY <1>4, <1>5, <1>6 DEF IInv

\* The days after a transfer are days.
LEMMA RetimedDays ==
    ASSUME Days, NEW frames, NEW p, NEW asked, \A day \in asked : day \in Int, Retimed(frames, p, asked)
    PROVE  Days'
BY Zenon DEF Days, Retimed

\* A header is on these days.
OnTime(h, days, now) == \A day \in days : Interval(h) /\ h[11] % h[10] = (day - now) % h[10]

\* RunsOnItsDays, header by header.
LEMMA RunsIs == RunsOnItsDays <=> \A p \in Programs : OnTime(config[p][Header], due[p], today)
BY Zenon DEF RunsOnItsDays, OnTime

\* The fields of a header that make its interval.
IntervalFields == {"cycle", "period_length", "synchro_day"}

\* The days a patch asks for.
AskedBy(j) == IF DOMAIN j.change \cap IntervalFields = {} THEN due[j.slot]
              ELSE DueBy(j.expected.blocks[j.slot][Header])

\* What a commit does: nothing when it is refused, else it stores the first frames.
LEMMA CommitParts ==
    ASSUME Commit
    PROVE  /\ job # NoJob /\ job' = NoJob /\ UNCHANGED <<today, draft, backup, held, jobs>>
           /\ \/ verdict' = "refused" /\ UNCHANGED <<config, due>>
              \/ \E seen \in Reports(config), sent \in Sent(job.frames) :
                    /\ Fresh(seen) /\ config' = Stored(config, sent)
                    /\ verdict' \in {"confirmed", "uncertain"}
                    /\ verdict' = "confirmed" => job.expected \in Reports(config')
                    /\ job.kind = "restore" => Retimed(sent, None, {})
                    /\ job.kind # "restore" => Retimed(sent, job.slot, AskedBy(job))
<1>1. job # NoJob /\ job' = NoJob /\ UNCHANGED <<today, draft, backup, held, jobs>>
  BY Zenon DEF Commit
<1>2. PICK seen \in Reports(config) :
          IF Fresh(seen)
          THEN \E sent \in Sent(job.frames) :
                 /\ config' = Stored(config, sent)
                 /\ \E actual \in Reports(config') :
                       verdict' = IF sent = job.frames /\ actual = job.expected
                                  THEN "confirmed" ELSE "uncertain"
                 /\ IF job.kind = "restore" THEN Retimed(sent, None, {})
                    ELSE Retimed(sent, job.slot,
                             IF DOMAIN job.change \cap {"cycle", "period_length", "synchro_day"} = {}
                             THEN due[job.slot] ELSE DueBy(job.expected.blocks[job.slot][Header]))
          ELSE verdict' = "refused" /\ UNCHANGED <<config, due>>
  BY Zenon DEF Commit
<1>3. CASE Fresh(seen)
  <2>1. PICK sent \in Sent(job.frames) :
                 /\ config' = Stored(config, sent)
                 /\ \E actual \in Reports(config') :
                       verdict' = IF sent = job.frames /\ actual = job.expected
                                  THEN "confirmed" ELSE "uncertain"
                 /\ IF job.kind = "restore" THEN Retimed(sent, None, {})
                    ELSE Retimed(sent, job.slot,
                             IF DOMAIN job.change \cap {"cycle", "period_length", "synchro_day"} = {}
                             THEN due[job.slot] ELSE DueBy(job.expected.blocks[job.slot][Header]))
    BY <1>2, <1>3, Zenon
  <2>2. PICK actual \in Reports(config') :
            verdict' = IF sent = job.frames /\ actual = job.expected THEN "confirmed" ELSE "uncertain"
    BY <2>1, Zenon
  <2>3. verdict' \in {"confirmed", "uncertain"} /\ (verdict' = "confirmed" => job.expected \in Reports(config'))
    <3>1. CASE sent = job.frames /\ actual = job.expected
      <4>1. verdict' = "confirmed"
        BY <2>2, <3>1, Zenon
      <4> QED BY <3>1, <4>1, Zenon
    <3>2. CASE ~(sent = job.frames /\ actual = job.expected)
      <4>1. verdict' = "uncertain" /\ "uncertain" # "confirmed"
        BY <2>2, <3>2, Zenon
      <4> QED BY <4>1, Zenon
    <3> QED BY <3>1, <3>2
  <2>4. /\ job.kind = "restore" => Retimed(sent, None, {})
        /\ job.kind # "restore" => Retimed(sent, job.slot, AskedBy(job))
    BY <2>1, Zenon DEF AskedBy, IntervalFields
  <2>5. \E seen2 \in Reports(config), sent2 \in Sent(job.frames) :
                    /\ Fresh(seen2) /\ config' = Stored(config, sent2)
                    /\ verdict' \in {"confirmed", "uncertain"}
                    /\ verdict' = "confirmed" => job.expected \in Reports(config')
                    /\ job.kind = "restore" => Retimed(sent2, None, {})
                    /\ job.kind # "restore" => Retimed(sent2, job.slot, AskedBy(job))
    BY <1>3, <2>1, <2>3, <2>4, Zenon
  <2> QED BY <1>1, <2>5, Zenon
<1>4. CASE ~Fresh(seen)
  BY <1>1, <1>2, <1>4, Zenon
<1> QED BY <1>3, <1>4

\* The days a commit may ask for are days.
LEMMA AskedDays ==
    ASSUME IInv, IsPatch(job)
    PROVE  \A day \in AskedBy(job) : day \in Int
<1> DEFINE new == Patched(job.base.blocks[job.slot], job.change)
<1>1. job.slot \in Programs /\ job.expected = [job.base EXCEPT !.blocks[job.slot] = new]
  BY Zenon DEF IsPatch
<1>2. job.expected.blocks[job.slot] = new
  <2>1. job.base.blocks = [p \in Programs |-> job.base.blocks[p]]
    BY Zenon DEF IsPatch, IsSnapshot
  <2> QED BY <1>1, <2>1
<1>3. IsBlock(new)
  BY PatchTransfer, Zenon
<1> HIDE DEF new
<1>4. \A day \in due[job.slot] : day \in Int
  BY <1>1, Zenon DEF IInv, Days
<1>5. \A day \in DueBy(new[Header]) : day \in Int
  <2>1. new[Header][11] \in Int /\ today \in Int
    BY <1>3, HeaderBytes DEF IInv, Scalars
  <2> QED BY <2>1 DEF DueBy
<1> QED BY <1>2, <1>4, <1>5, Zenon DEF AskedBy

\* The inductive invariant survives a commit.
LEMMA CommitKeeps == IInv /\ Commit => IInv'
<1> SUFFICES ASSUME IInv, Commit PROVE IInv'
  OBVIOUS
<1>1. job # NoJob /\ job' = NoJob /\ UNCHANGED <<today, draft, backup, held, jobs>>
  BY CommitParts
<1>2. Scalars' /\ Drafts' /\ Backups' /\ Jobs'
  BY <1>1 DEF IInv, Scalars, Drafts, Backups, Jobs
<1>3. CASE verdict' = "refused" /\ UNCHANGED <<config, due>>
  <2>1. Blocks' /\ Days'
    BY <1>1, <1>3, UntouchedKept
  <2> QED BY <1>2, <1>3, <2>1 DEF IInv, Verdicts
<1>4. ASSUME NEW sent \in Sent(job.frames), config' = Stored(config, sent),
             verdict' \in {"confirmed", "uncertain"},
             job.kind = "restore" => Retimed(sent, None, {}),
             job.kind # "restore" => Retimed(sent, job.slot, AskedBy(job))
      PROVE  IInv'
  <2>1. PICK n : IsTransfer(job.frames, n)
    BY <1>1, JobTransfer
  <2>2. IsConfig(config) /\ IsConfig(held)
    BY Zenon DEF IInv, Blocks
  <2>3. IsConfig(config')
    BY <1>4, <2>1, <2>2, SentConfig, Zenon
  <2>4. Blocks'
    BY <1>1, <2>2, <2>3 DEF Blocks
  <2>5. Days'
    <3>1. CASE job.kind = "restore"
      <4>1. Retimed(sent, None, {}) /\ \A day \in {} : day \in Int
        BY <1>4, <3>1
      <4>2. Days
        BY Zenon DEF IInv
      <4> QED BY <4>1, <4>2, RetimedDays
    <3>2. CASE job.kind # "restore"
      <4>1. IsPatch(job)
        BY <1>1, <3>2, Zenon DEF IInv, Jobs, IsRestore
      <4>2. \A day \in AskedBy(job) : day \in Int
        BY <4>1, AskedDays
      <4> QED BY <1>4, <3>2, <4>2, RetimedDays, Zenon DEF IInv
    <3> QED BY <3>1, <3>2
  <2>6. Verdicts'
    BY <1>4 DEF Verdicts
  <2> QED BY <1>2, <2>4, <2>5, <2>6 DEF IInv
<1> QED BY <1>3, <1>4, CommitParts, Zenon

-----------------------------------------------------------------------------
(* A confirmed restore. *)

\* A confirmed restore has brought back what the controller held.
LEMMA ConfirmedRestore ==
    ASSUME IInv, Commit, job.kind = "restore", verdict' = "confirmed"
    PROVE  config' = held
<1>1. IsConfig(held) /\ job # NoJob
  BY CommitParts, Zenon DEF IInv, Blocks
<1>2. IsRestore(job, backup, held)
  BY <1>1, Zenon DEF IInv, Jobs, IsPatch
<1>3. job.expected = Reported(held, {})
  BY <1>1, <1>2, RestoreTransfer, Zenon
<1>4. PICK sent : config' = Stored(config, sent) /\ job.expected \in Reports(config')
  <2>1. "confirmed" # "refused"
    OBVIOUS
  <2> QED BY <2>1, CommitParts, Zenon
<1> DEFINE new == Stored(config, sent)
<1>5. new = [s \in Slots |-> new[s]] /\ \A s \in Slots : new[s] = [k \in Chunks |-> new[s][k]]
  BY StoredShape, Zenon
<1>6. held = [s \in Slots |-> held[s]] /\ \A s \in Slots : held[s] = [k \in Chunks |-> held[s][k]]
  <2>1. held = [s \in Slots |-> held[s]] /\ \A s \in Slots : IsBlock(held[s])
    BY <1>1, Zenon DEF IsConfig
  <2>2. \A b : IsBlock(b) => b = [k \in Chunks |-> b[k]]
    BY Zenon DEF IsBlock
  <2> QED BY <2>1, <2>2, Zenon
<1>7. PICK lost : Reported(held, {}) = Reported(new, lost)
  BY <1>3, <1>4, Zenon DEF Reports
<1> HIDE DEF new
<1>8. \A s \in Slots : held[s] = [k \in Chunks |-> held[s][k]] /\ new[s] = [k \in Chunks |-> new[s][k]]
  BY <1>5, <1>6, Zenon
<1>9. held = new
  <2>1. held = [s \in Slots |-> held[s]] /\ new = [s \in Slots |-> new[s]]
    BY <1>5, <1>6, Zenon
  <2> QED BY <1>7, <1>8, <2>1, WholeReportTells, Zenon
<1> QED BY <1>4, <1>9, Zenon DEF new

\* Every step keeps what RestoreExact says.
LEMMA RestoresExactly ==
    IInv /\ [Next]_vars => [job.kind = "restore" /\ job' = NoJob /\ verdict' = "confirmed" => config' = held]_vars
<1> SUFFICES ASSUME IInv, Next, job.kind = "restore", job' = NoJob, verdict' = "confirmed"
             PROVE  config' = held
  BY Zenon DEF vars
<1>1. job # NoJob
  BY DEF NoJob
<1>2. CASE Commit
  BY <1>2, ConfirmedRestore, Zenon
<1>3. CASE Read \/ Keep \/ Restore \/ Midnight
  <2>1. verdict' = "none" /\ "none" # "confirmed"
    BY <1>3, Zenon DEF Read, Keep, Restore, Midnight
  <2> QED BY <2>1, Zenon
<1>4. ASSUME NEW p \in Programs, \/ Reload(p) \/ (\E change \in Changes : Patch(p, change))
                                 \/ \E r \in Requests : Set(p, r)
      PROVE  FALSE
  BY <1>1, <1>4, Zenon DEF Reload, Patch, Set
<1> QED BY <1>2, <1>3, <1>4, Zenon DEF Next

-----------------------------------------------------------------------------
(* Setting a program, and the days that pass. *)

\* What a set writes.
LEMMA SetParts ==
    ASSUME IInv, NEW p \in Programs, NEW r \in Requests, Set(p, r)
    PROVE  LET want == Normal(r, today)
               asked == IF r.cycle # 4 THEN {} ELSE IF r.anchor # {} THEN r.anchor ELSE {today + r.synchro_day}
           IN  /\ job = NoJob /\ jobs < MaxJobs /\ jobs' = jobs + 1 /\ UNCHANGED <<today, draft, backup, held, job>>
               /\ Acceptable(r) /\ today \in Int
               /\ Storable(want) /\ IsBlock(Packed(want, today)) /\ HasBytes(Packed(want, today), want, today)
               /\ \A day \in asked : day \in Int
               /\ \E sent \in Sent(Frames(p, Packed(want, today))) :
                     /\ config' = Stored(config, sent)
                     /\ verdict' = IF Len(sent) < 7 THEN "uncertain"
                                   ELSE IF Decoded(config'[p]) = want THEN "confirmed" ELSE "mismatch"
                     /\ Retimed(sent, p, asked)
<1> DEFINE want == Normal(r, today)
           asked == IF r.cycle # 4 THEN {} ELSE IF r.anchor # {} THEN r.anchor ELSE {today + r.synchro_day}
<1>1. /\ job = NoJob /\ jobs < MaxJobs /\ jobs' = jobs + 1 /\ UNCHANGED <<today, draft, backup, held, job>>
      /\ Acceptable(r)
      /\ \E sent \in Sent(Frames(p, Packed(want, today))) :
                     /\ config' = Stored(config, sent)
                     /\ verdict' = IF Len(sent) < 7 THEN "uncertain"
                                   ELSE IF Decoded(config'[p]) = want THEN "confirmed" ELSE "mismatch"
                     /\ Retimed(sent, p, asked)
  BY Zenon DEF Set
<1>2. today \in 1 .. 31 /\ today \in Int
  BY EditAssumption DEF IInv, Scalars
<1>3. \A w : w = want => Storable(w)
  BY <1>1, <1>2, NormalParts, Zenon
<1>4. Storable(want)
  BY <1>3, Zenon
<1> HIDE DEF want
<1>5. IsBlock(Packed(want, today)) /\ HasBytes(Packed(want, today), want, today)
  <2>1. IsPacked(Packed(want, today), want, today)
    BY <1>4, PackedChunks, Zenon
  <2> QED BY <1>2, <1>4, <2>1, PackedBlock, PackedBytes, Zenon
<1>6. \A day \in asked : day \in Int
  <2>1. \A a \in r.anchor : a \in Int
    BY RequestParts, Zenon
  <2>2. r.synchro_day \in Int
    BY <1>1, AcceptableParts, ByteIs
  <2> QED BY <1>2, <2>1, <2>2
<1> HIDE DEF asked
<1> QED BY <1>1, <1>2, <1>4, <1>5, <1>6, Zenon DEF want, asked

\* The inductive invariant survives a set.
LEMMA SetKeeps ==
    ASSUME IInv, NEW p \in Programs, NEW r \in Requests, Set(p, r)
    PROVE  IInv'
<1> DEFINE b == Packed(Normal(r, today), today)
           asked == IF r.cycle # 4 THEN {} ELSE IF r.anchor # {} THEN r.anchor ELSE {today + r.synchro_day}
<1>1. /\ jobs < MaxJobs /\ jobs' = jobs + 1 /\ UNCHANGED <<today, draft, backup, held, job>>
      /\ IsBlock(b) /\ \A day \in asked : day \in Int
  BY SetParts, Zenon
<1>2. PICK sent \in Sent(Frames(p, b)) :
         /\ config' = Stored(config, sent) /\ Retimed(sent, p, asked)
         /\ verdict' = IF Len(sent) < 7 THEN "uncertain"
                       ELSE IF Decoded(config'[p]) = Normal(r, today) THEN "confirmed" ELSE "mismatch"
  BY SetParts, Zenon
<1> HIDE DEF b, asked
<1>3. IsTransfer(Frames(p, b), 7)
  BY <1>1, SlotsAre, FramesTransfer
<1>4. IsConfig(config) /\ IsConfig(held) /\ Days
  BY Zenon DEF IInv, Blocks
<1>5. IsConfig(config')
  BY <1>2, <1>3, <1>4, SentConfig, Zenon
<1>6. Blocks'
  BY <1>1, <1>4, <1>5 DEF Blocks
<1>7. Days'
  BY <1>1, <1>2, <1>4, RetimedDays, Zenon
<1>8. Scalars' /\ Drafts' /\ Backups' /\ Jobs'
  BY <1>1, EditAssumption DEF IInv, Scalars, Drafts, Backups, Jobs
<1>9. Verdicts'
  BY <1>2, Zenon DEF Verdicts
<1> QED BY <1>6, <1>7, <1>8, <1>9 DEF IInv

\* A header with another countdown.
LEMMA CountdownBlock ==
    ASSUME NEW b, IsBlock(b), NEW left \in Byte
    PROVE  /\ IsBlock([b EXCEPT ![Header] = [b[Header] EXCEPT ![11] = left]])
           /\ LET h == [b EXCEPT ![Header] = [b[Header] EXCEPT ![11] = left]][Header]
              IN  h[8] = b[Header][8] /\ h[10] = b[Header][10] /\ h[11] = left
<1> DEFINE g == [b[Header] EXCEPT ![11] = left]
           c == [b EXCEPT ![Header] = g]
<1>1. Header = 2 /\ 1 \in Chunks /\ 2 \in Chunks
  BY NumbersAre
<1>2. b = [k \in Chunks |-> b[k]] /\ (\A k \in Chunks : b[k] \in [Offsets(k) -> Byte]) /\ b[1][19] = 0
  BY Zenon DEF IsBlock
<1>3. b[Header] \in [Offsets(2) -> Byte] /\ 8 \in Offsets(2) /\ 10 \in Offsets(2) /\ 11 \in Offsets(2)
  BY <1>1, <1>2, OffsetsAre
<1>4. g \in [Offsets(2) -> Byte] /\ g[8] = b[Header][8] /\ g[10] = b[Header][10] /\ g[11] = left
  BY <1>3
<1> HIDE DEF g
<1>5. c[Header] = g /\ (\A k \in Chunks : k # Header => c[k] = b[k]) /\ c = [k \in Chunks |-> c[k]]
  BY <1>1, <1>2
<1> HIDE DEF c
<1>6. \A k \in Chunks : c[k] \in [Offsets(k) -> Byte]
  BY <1>1, <1>2, <1>4, <1>5, Zenon
<1>7. c[1][19] = 0
  BY <1>1, <1>2, <1>5
<1>8. IsBlock(c)
  BY <1>5, <1>6, <1>7, Zenon DEF IsBlock
<1> QED BY <1>4, <1>5, <1>8, Zenon DEF c, g

\* A block with another countdown.
Recounted(b, left) == [b EXCEPT ![Header] = [b[Header] EXCEPT ![11] = left]]

\* CountdownBlock, by name.
LEMMA RecountedBlock ==
    ASSUME NEW b, IsBlock(b), NEW left \in Byte
    PROVE  /\ IsBlock(Recounted(b, left))
           /\ Recounted(b, left)[Header][8] = b[Header][8] /\ Recounted(b, left)[Header][10] = b[Header][10]
           /\ Recounted(b, left)[Header][11] = left
BY CountdownBlock, Zenon DEF Recounted

\* What a reload does to the configuration.
LEMMA ReloadParts ==
    ASSUME IInv, NEW p \in Programs, Reload(p)
    PROVE  /\ config' = [s \in Slots |-> IF s = p THEN Recounted(config[p], config[p][Header][10]) ELSE config[s]]
           /\ Interval(config[p][Header]) /\ config[p][Header][11] = 0
           /\ UNCHANGED <<today, draft, backup, held, job, jobs, due>> /\ verdict' = "none"
<1>1. /\ config' = [config EXCEPT ![p][Header][11] = config[p][Header][10]]
      /\ Interval(config[p][Header]) /\ config[p][Header][11] = 0
      /\ UNCHANGED <<today, draft, backup, held, job, jobs, due>> /\ verdict' = "none"
  BY Zenon DEF Reload
<1>2. config' = [config EXCEPT ![p] = Recounted(config[p], config[p][Header][10])]
  BY <1>1 DEF Recounted
<1>3. DOMAIN config = Slots
  BY Zenon DEF IInv, Blocks, IsConfig
<1>4. config' = [s \in Slots |-> IF s = p THEN Recounted(config[p], config[p][Header][10]) ELSE config[s]]
  BY <1>2, <1>3
<1> QED BY <1>1, <1>4, Zenon

\* What midnight leaves of a block.
Overnight(b) == [b EXCEPT ![Header] = Counted(@)]

\* A block after midnight is a block whose countdown alone has changed.
LEMMA MidnightBlock ==
    ASSUME NEW b, IsBlock(b)
    PROVE  /\ IsBlock(Overnight(b))
           /\ ~Interval(b[Header]) => Overnight(b) = b
           /\ Interval(b[Header]) =>
                 /\ Overnight(b)[Header][8] = b[Header][8] /\ Overnight(b)[Header][10] = b[Header][10]
                 /\ Overnight(b)[Header][11] = IF b[Header][11] = 0 THEN b[Header][10] - 1 ELSE b[Header][11] - 1
<1>1. DOMAIN b = Chunks /\ b = [k \in Chunks |-> b[k]] /\ Header \in Chunks
  BY NumbersAre, Zenon DEF IsBlock
<1>2. Overnight(b) = [b EXCEPT ![Header] = Counted(b[Header])]
  BY <1>1 DEF Overnight
<1>3. CASE ~Interval(b[Header])
  <2>1. Counted(b[Header]) = b[Header]
    BY <1>3 DEF Counted
  <2>2. Overnight(b) = b
    BY <1>1, <1>2, <2>1
  <2> QED BY <1>3, <2>2, Zenon
<1>4. CASE Interval(b[Header])
  <2> DEFINE left == IF b[Header][11] = 0 THEN b[Header][10] - 1 ELSE b[Header][11] - 1
  <2>1. b[2] \in [Offsets(2) -> Byte] /\ Header = 2 /\ 11 \in Offsets(2)
    BY NumbersAre, OffsetsAre DEF IsBlock
  <2>2. Counted(b[Header]) = [b[Header] EXCEPT ![11] = left]
    BY <1>4, <2>1 DEF Counted
  <2>3. left \in Byte
    <3> DEFINE r == b[Header][10]
               d == b[Header][11]
    <3>1. r \in Byte /\ d \in Byte /\ r >= 1
      BY <1>4, HeaderBytes, Zenon DEF Interval
    <3> HIDE DEF r, d
    <3>2. (IF d = 0 THEN r - 1 ELSE d - 1) \in Byte
      BY <3>1, ByteIs
    <3> QED BY <3>2 DEF r, d
  <2> HIDE DEF left
  <2>4. Overnight(b) = Recounted(b, left)
    BY <1>2, <2>2, Zenon DEF Recounted
  <2>5. /\ IsBlock(Overnight(b)) /\ Overnight(b)[Header][8] = b[Header][8] /\ Overnight(b)[Header][10] = b[Header][10]
        /\ Overnight(b)[Header][11] = left
    <3> DEFINE c == Recounted(b, left)
    <3>1. IsBlock(c) /\ c[Header][8] = b[Header][8] /\ c[Header][10] = b[Header][10] /\ c[Header][11] = left
      BY <2>3, RecountedBlock, Zenon
    <3> HIDE DEF c
    <3>2. Overnight(b) = c
      BY <2>4 DEF c
    <3> QED BY <3>1, <3>2
  <2>6. Overnight(b)[Header][11] = IF b[Header][11] = 0 THEN b[Header][10] - 1 ELSE b[Header][11] - 1
    BY <2>5, Zenon DEF left
  <2>7. IsBlock(Overnight(b)) /\ Overnight(b)[Header][8] = b[Header][8] /\ Overnight(b)[Header][10] = b[Header][10]
    BY <2>5
  <2> QED BY <1>4, <2>6, <2>7
<1> QED BY <1>3, <1>4

\* What midnight does to the configuration.
LEMMA MidnightParts ==
    ASSUME IInv, Midnight
    PROVE  /\ config' = [s \in Slots |-> Overnight(config[s])] /\ today' = today + 1 /\ today' \in 1 .. MaxDays
           /\ UNCHANGED <<draft, backup, held, job, jobs, due>> /\ verdict' = "none"
<1>1. today \in 1 .. MaxDays /\ today < MaxDays /\ today' = today + 1
  BY Zenon DEF IInv, Scalars, Midnight
<1>2. today' \in 1 .. MaxDays
  BY <1>1, EditAssumption
<1> QED BY <1>1, <1>2, Zenon DEF Midnight, Overnight

\* The inductive invariant survives a reload.
LEMMA ReloadKeeps ==
    ASSUME IInv, NEW p \in Programs, Reload(p)
    PROVE  IInv'
<1> DEFINE new(s) == IF s = p THEN Recounted(config[p], config[p][Header][10]) ELSE config[s]
<1>1. /\ config' = [s \in Slots |-> new(s)]
      /\ UNCHANGED <<today, draft, backup, held, job, jobs, due>> /\ verdict' = "none"
  BY ReloadParts, Zenon
<1>2. p \in Slots /\ \A s \in Slots : IsBlock(config[s])
  BY SlotsAre DEF IInv, Blocks, IsConfig
<1>3. \A s \in Slots : IsBlock(new(s))
  <2>1. config[p][Header][10] \in Byte
    BY <1>2, HeaderBytes, Zenon
  <2> QED BY <1>2, <2>1, RecountedBlock, Zenon
<1> HIDE DEF new
<1>4. IsConfig(config')
  BY <1>1, <1>3 DEF IsConfig
<1>5. Blocks'
  BY <1>1, <1>4 DEF IInv, Blocks
<1>6. Scalars' /\ Verdicts' /\ Drafts' /\ Backups' /\ Jobs' /\ Days'
  BY <1>1 DEF IInv, Scalars, Verdicts, Drafts, Backups, Jobs, Days
<1> QED BY <1>5, <1>6 DEF IInv

\* It survives midnight.
LEMMA MidnightKeeps == IInv /\ Midnight => IInv'
<1> SUFFICES ASSUME IInv, Midnight PROVE IInv'
  OBVIOUS
<1>1. /\ config' = [s \in Slots |-> Overnight(config[s])] /\ today' = today + 1 /\ today' \in 1 .. MaxDays
      /\ UNCHANGED <<draft, backup, held, job, jobs, due>> /\ verdict' = "none"
  BY MidnightParts, Zenon
<1>2. \A s \in Slots : IsBlock(Overnight(config[s]))
  <2>1. \A s \in Slots : IsBlock(config[s])
    BY Zenon DEF IInv, Blocks, IsConfig
  <2> QED BY <2>1, MidnightBlock, Zenon
<1>3. IsConfig(config')
  BY <1>1, <1>2 DEF IsConfig
<1>4. Blocks'
  BY <1>1, <1>3 DEF IInv, Blocks
<1>5. Scalars' /\ Verdicts' /\ Drafts' /\ Backups' /\ Jobs' /\ Days'
  BY <1>1 DEF IInv, Scalars, Verdicts, Drafts, Backups, Jobs, Days
<1> QED BY <1>4, <1>5 DEF IInv

\* It survives a step that changes nothing.
LEMMA StutterKeeps == IInv /\ UNCHANGED vars => IInv'
BY DEF vars, IInv, Scalars, Verdicts, Blocks, Drafts, Backups, Jobs, Days

\* The inductive invariant survives every step.
LEMMA Inductive == IInv /\ [Next]_vars => IInv'
<1> SUFFICES ASSUME IInv, [Next]_vars PROVE IInv'
  OBVIOUS
<1>1. CASE Read
  BY <1>1, ReadKeeps
<1>2. CASE Keep
  BY <1>2, KeepKeeps
<1>3. CASE Restore
  BY <1>3, RestoreKeeps
<1>4. CASE Commit
  BY <1>4, CommitKeeps
<1>5. CASE Midnight
  BY <1>5, MidnightKeeps
<1>6. ASSUME NEW p \in Programs, Reload(p) PROVE IInv'
  BY <1>6, ReloadKeeps
<1>7. ASSUME NEW p \in Programs, NEW change \in Changes, Patch(p, change) PROVE IInv'
  BY <1>7, PatchKeeps
<1>8. ASSUME NEW p \in Programs, NEW r \in Requests, Set(p, r) PROVE IInv'
  BY <1>8, SetKeeps
<1>9. CASE UNCHANGED vars
  BY <1>9, StutterKeeps
<1> QED BY <1>1, <1>2, <1>3, <1>4, <1>5, <1>6, <1>7, <1>8, <1>9, Zenon DEF Next

\* Whatever programs, patches and requests there are, and wherever transfers break off,
\* every slot of the controller holds seven chunks of bytes of their lengths.
THEOREM TypeCorrect == Spec => []TypeOK
<1>1. Spec => []IInv
  BY Initially, Inductive, PTL DEF Spec
<1> QED BY <1>1, TypesFollow, PTL

\* A restore that is confirmed has brought back, byte for byte, every slot as it was when
\* the snapshot was read, the hidden slots included: for any number of slots, whatever
\* was written, broken off or lost from a response in between (write_frames and
\* write_program_frames).
THEOREM RestoreIsExact == Spec => RestoreExact
<1>1. Spec => []IInv
  BY Initially, Inductive, PTL DEF Spec
<1> QED BY <1>1, RestoresExactly, PTL DEF Spec, RestoreExact

\* StoredAt, as a property of the result.
Holds(new, c, frames, n, s, k) ==
    /\ \A i \in 1 .. n : Aim(frames, i, s, k) => new[s][k] = frames[i].body
    /\ (\A i \in 1 .. n : ~Aim(frames, i, s, k)) => new[s][k] = c[s][k]

-----------------------------------------------------------------------------
(* The days on which programs run. *)

\* A transfer leaves a chunk it aims at with its bytes, and others alone.
LEMMA StoredAs ==
    ASSUME NEW c, NEW frames, NEW n, IsTransfer(frames, n), NEW s \in Slots, NEW k \in Chunks
    PROVE  Holds(Stored(c, frames), c, frames, n, s, k)
BY StoredAt DEF Holds

\* A transfer after which due is retimed keeps every program on its days, if
\* the header it stores for p, when it does, has the days asked for p.
LEMMA TransferOnTime ==
    ASSUME RunsOnItsDays, NEW sent, NEW m, IsTransfer(sent, m), NEW p, NEW asked,
           config' = Stored(config, sent), today' = today, Retimed(sent, p, asked),
           \A i \in 1 .. m : p \in Programs /\ Aim(sent, i, p, Header) => OnTime(sent[i].body, asked, today)
    PROVE  RunsOnItsDays'
<1>1. m \in Nat /\ DOMAIN sent = 1 .. m
  BY Zenon DEF IsTransfer
<1>2. \A q \in Programs : q \in Slots /\ Header \in Chunks
  BY SlotsAre, NumbersAre
<1> DEFINE new == config'
<1>3. \A q \in Programs : Holds(new, config, sent, m, q, Header)
  <2>1. \A q \in Programs : Holds(Stored(config, sent), config, sent, m, q, Header)
    BY <1>2, StoredAs
  <2> QED BY <2>1
<1> HIDE DEF new
<1>4. ASSUME NEW q \in Programs PROVE OnTime(config'[q][Header], due'[q], today)
  <2>1. due'[q] = IF \E i \in 1 .. m : Aim(sent, i, q, Header) THEN IF q = p THEN asked ELSE {} ELSE due[q]
    BY <1>1 DEF Retimed, Aim
  <2>2. CASE \E i \in 1 .. m : Aim(sent, i, q, Header)
    <3>1. PICK i \in 1 .. m : Aim(sent, i, q, Header)
      BY <2>2
    <3>2. config'[q][Header] = sent[i].body
      BY <1>3, <3>1, Zenon DEF Holds, new
    <3>3. CASE q = p
      <4>1. due'[q] = asked
        BY <2>1, <2>2, <3>3
      <4>2. OnTime(sent[i].body, asked, today)
        BY <3>1, <3>3
      <4> QED BY <3>2, <4>1, <4>2
    <3>4. CASE q # p
      <4>1. due'[q] = {}
        BY <2>1, <2>2, <3>4
      <4> QED BY <4>1 DEF OnTime
    <3> QED BY <3>3, <3>4
  <2>3. CASE \A i \in 1 .. m : ~Aim(sent, i, q, Header)
    <3>1. config'[q][Header] = config[q][Header]
      BY <1>3, <2>3, Zenon DEF Holds, new
    <3>2. config'[q][Header] = config[q][Header] /\ due'[q] = due[q]
      BY <2>1, <2>3, <3>1
    <3>3. OnTime(config[q][Header], due[q], today)
      BY RunsIs, Zenon
    <3> QED BY <3>2, <3>3
  <2> QED BY <2>2, <2>3
<1> QED BY <1>4 DEF RunsOnItsDays, OnTime

\* The header of the first frames of a program, when it is among them.
LEMMA SentHeader ==
    ASSUME NEW slot \in Slots, NEW b, IsBlock(b), NEW sent \in Sent(Frames(slot, b))
    PROVE  \E m : /\ IsTransfer(sent, m)
                  /\ \A i \in 1 .. m : \A s, k : Aim(sent, i, s, k) => s = slot /\ k = i - 1 /\ sent[i].body = b[k]
<1> DEFINE F == Frames(slot, b)
<1>1. /\ IsTransfer(F, 7) /\ \A i \in 1 .. 7 : F[i].body = b[i - 1]
      /\ \A i \in 1 .. 7 : \A s, k : Aim(F, i, s, k) <=> s = slot /\ k = i - 1
  BY FramesTransfer, Zenon
<1> HIDE DEF F
<1>2. PICK m \in 0 .. 7 : sent = [i \in 1 .. m |-> F[i]] /\ IsTransfer(sent, m)
  BY <1>1, SentPrefix, Zenon DEF F
<1>3. ASSUME NEW i \in 1 .. m, NEW s, NEW k, Aim(sent, i, s, k)
      PROVE  s = slot /\ k = i - 1 /\ sent[i].body = b[k]
  <2>1. i \in 1 .. 7 /\ sent[i] = F[i]
    BY <1>2
  <2>2. Aim(F, i, s, k)
    BY <1>3, <2>1 DEF Aim
  <2>3. s = slot /\ k = i - 1 /\ F[i].body = b[i - 1]
    BY <1>1, <2>1, <2>2
  <2> QED BY <2>1, <2>3
<1> QED BY <1>2, <1>3

\* A commit keeps programs on their days: only a patch of the interval changes them,
\* and what a stale draft would write over a countdown is refused.
LEMMA CommitOnTime ==
    ASSUME IInv, RunsOnItsDays, Commit
    PROVE  RunsOnItsDays'
<1>1. job # NoJob /\ today' = today
  BY CommitParts
<1>2. CASE verdict' = "refused" /\ UNCHANGED <<config, due>>
  BY <1>1, <1>2 DEF RunsOnItsDays
<1>3. ASSUME NEW seen \in Reports(config), NEW sent \in Sent(job.frames),
             Fresh(seen), config' = Stored(config, sent),
             job.kind = "restore" => Retimed(sent, None, {}),
             job.kind # "restore" => Retimed(sent, job.slot, AskedBy(job))
      PROVE  RunsOnItsDays'
  <2>1. CASE job.kind = "restore"
    <3>1. PICK n : IsTransfer(job.frames, n)
      BY <1>1, JobTransfer
    <3>2. PICK m : IsTransfer(sent, m)
      BY <3>1, SentPrefix, Zenon
    <3>3. Retimed(sent, None, {})
      BY <1>3, <2>1
    <3>4. \A h : OnTime(h, {}, today)
      BY DEF OnTime
    <3> QED BY <1>1, <1>3, <3>2, <3>3, <3>4, TransferOnTime
  <2>2. CASE job.kind # "restore"
    <3>1. IsPatch(job)
      BY <1>1, <2>2, Zenon DEF IInv, Jobs, IsRestore
    <3> DEFINE p   == job.slot
               old == job.base.blocks[p]
               new == Patched(old, job.change)
    <3>2. /\ p \in Programs /\ InRange(job.change) /\ IntervalKept(new[Header])
          /\ job.expected = [job.base EXCEPT !.blocks[p] = new]
      BY <3>1, Zenon DEF IsPatch
    <3>3. IsBlock(new) /\ job.frames = Frames(p, new)
      BY <3>1, PatchTransfer, Zenon
    <3>4. old = config[p]
      <4>1. seen = job.base
        BY <1>3, Zenon DEF Fresh
      <4>2. IsConfig(config)
        BY Zenon DEF IInv, Blocks
      <4>3. \A q \in Programs : seen.blocks[q] = config[q]
        BY <4>2, ReportSnapshot
      <4> QED BY <3>2, <4>1, <4>3, Zenon
    <3>5. job.expected.blocks[p] = new
      <4>1. job.base.blocks = [q \in Programs |-> job.base.blocks[q]]
        BY <3>1, Zenon DEF IsPatch, IsSnapshot
      <4> QED BY <3>2, <4>1
    <3>6. AskedBy(job) = IF DOMAIN job.change \cap IntervalFields = {} THEN due[p] ELSE DueBy(new[Header])
      BY <3>5, Zenon DEF AskedBy
    <3>7. DOMAIN job.change \cap IntervalFields = {} =>
             new[Header][8] = old[Header][8] /\ new[Header][10] = old[Header][10] /\ new[Header][11] = old[Header][11]
      <4>1. Header \in Chunks /\ Header = 2 /\ 8 \in Offsets(2) /\ 10 \in Offsets(2) /\ 11 \in Offsets(2)
        BY NumbersAre, OffsetsAre
      <4>2. Owner(2, 8) = "cycle" /\ Owner(2, 10) = "period_length" /\ Owner(2, 11) = "synchro_day"
        BY DEF Owner
      <4> SUFFICES ASSUME DOMAIN job.change \cap IntervalFields = {}
                   PROVE  new[2][8] = old[2][8] /\ new[2][10] = old[2][10] /\ new[2][11] = old[2][11]
        BY <4>1
      <4>3. "cycle" \notin DOMAIN job.change /\ "period_length" \notin DOMAIN job.change
            /\ "synchro_day" \notin DOMAIN job.change
        BY DEF IntervalFields
      <4>4. ~Wrote(job.change, 2, 8) /\ ~Wrote(job.change, 2, 10) /\ ~Wrote(job.change, 2, 11)
        BY <4>2, <4>3, Zenon DEF Wrote
      <4> HIDE DEF old
      <4> QED BY <3>2, <4>1, <4>4, PatchedByte
    <3> HIDE DEF new, old
    <3>8. OnTime(new[Header], AskedBy(job), today)
      <4>1. CASE DOMAIN job.change \cap IntervalFields = {}
        <5>1. OnTime(old[Header], due[p], today)
          BY <3>2, <3>4, RunsIs, Zenon
        <5> QED BY <3>6, <3>7, <4>1, <5>1 DEF OnTime, Interval
      <4>2. CASE DOMAIN job.change \cap IntervalFields # {}
        <5>1. AskedBy(job) = DueBy(new[Header])
          BY <3>6, <4>2
        <5> DEFINE n == new[Header][10]
                   l == new[Header][11]
        <5>2. new[Header][8] = 4 => n \in Nat /\ l \in Nat /\ n >= 1
          BY <3>2, <3>3, HeaderBytes, Zenon DEF IntervalKept
        <5>3. today \in Int
          BY DEF IInv, Scalars
        <5>4. ASSUME NEW day \in DueBy(new[Header])
              PROVE  new[Header][8] = 4 /\ n >= 1 /\ l % n = (day - today) % n
          <6>1. new[Header][8] = 4 /\ day = today + l
            BY DEF DueBy
          <6>2. n \in Nat /\ l \in Nat /\ n >= 1
            BY <5>2, <6>1
          <6> HIDE DEF n, l
          <6>3. day - today = l
            BY <5>3, <6>1, <6>2
          <6> QED BY <6>1, <6>2, <6>3
        <5> QED BY <5>1, <5>4, Zenon DEF OnTime, Interval
      <4> QED BY <4>1, <4>2
    <3>9. Retimed(sent, p, AskedBy(job))
      BY <1>3, <2>2
    <3> HIDE DEF p
    <3>10. PICK m : /\ IsTransfer(sent, m)
                    /\ \A i \in 1 .. m : \A s, k : Aim(sent, i, s, k) => s = p /\ k = i - 1 /\ sent[i].body = new[k]
      BY <1>3, <3>2, <3>3, SlotsAre, SentHeader
    <3>11. \A i \in 1 .. m : p \in Programs /\ Aim(sent, i, p, Header) => OnTime(sent[i].body, AskedBy(job), today)
      BY <3>8, <3>10, Zenon
    <3> QED BY <1>1, <1>3, <3>9, <3>10, <3>11, TransferOnTime, Zenon
  <2> QED BY <2>1, <2>2
<1> QED BY <1>2, <1>3, CommitParts, Zenon

\* A set puts its program on the days it asks for.
LEMMA SetOnTime ==
    ASSUME IInv, RunsOnItsDays, NEW p \in Programs, NEW r \in Requests, Set(p, r)
    PROVE  RunsOnItsDays'
<1> DEFINE want == Normal(r, today)
           b == Packed(want, today)
           asked == IF r.cycle # 4 THEN {} ELSE IF r.anchor # {} THEN r.anchor ELSE {today + r.synchro_day}
<1>1. /\ today' = today /\ today \in Int /\ Acceptable(r) /\ IsBlock(b) /\ HasBytes(b, want, today)
      /\ \A day \in asked : day \in Int
  BY SetParts, Zenon
<1>2. PICK sent \in Sent(Frames(p, b)) : config' = Stored(config, sent) /\ Retimed(sent, p, asked)
  BY SetParts, Zenon
<1>3. /\ want.cycle = r.cycle
      /\ r.cycle = 4 => /\ want.period_length \in Nat \ {0}
                        /\ r.anchor = {} => want.synchro_day = r.synchro_day
                        /\ \A a \in r.anchor :
                              want.synchro_day % want.period_length = (a - today) % want.period_length
  BY <1>1, NormalParts
<1> HIDE DEF want
<1>4. b[Header][8] = want.cycle /\ b[Header][10] = want.period_length /\ b[Header][11] = want.synchro_day
  BY <1>1, NumbersAre, Zenon DEF HasBytes
<1> HIDE DEF b
<1>5. OnTime(b[Header], asked, today)
  <2>1. ASSUME NEW day \in asked
        PROVE  /\ b[Header][8] = 4 /\ b[Header][10] >= 1
               /\ b[Header][11] % b[Header][10] = (day - today) % b[Header][10]
    <3>1. r.cycle = 4
      BY Zenon
    <3> DEFINE n == want.period_length
               l == want.synchro_day
    <3>2. n \in Nat \ {0} /\ want.cycle = 4
      BY <1>3, <3>1, Zenon
    <3>3. l % n = (day - today) % n
      <4>1. CASE r.anchor # {}
        <5>1. day \in r.anchor
          BY <3>1, <4>1, Zenon
        <5> QED BY <1>3, <3>1, <5>1, Zenon
      <4>2. CASE r.anchor = {}
        <5>1. day = today + r.synchro_day
          BY <3>1, <4>2
        <5>2. l = r.synchro_day
          BY <1>3, <3>1, <4>2, Zenon
        <5>3. l \in Int
          BY <1>1, <5>2, AcceptableParts, ByteIs
        <5> HIDE DEF l, n
        <5>4. day - today = l
          BY <1>1, <5>1, <5>2, <5>3
        <5> QED BY <5>4
      <4> QED BY <4>1, <4>2
    <3> HIDE DEF n, l
    <3>4. b[Header][8] = want.cycle /\ b[Header][10] = n /\ b[Header][11] = l
      BY <1>4 DEF n, l
    <3> QED BY <3>2, <3>3, <3>4
  <2> QED BY <2>1, Zenon DEF OnTime, Interval
<1>6. p \in Slots
  BY SlotsAre
<1>7. PICK m : /\ IsTransfer(sent, m)
               /\ \A i \in 1 .. m : \A s, k : Aim(sent, i, s, k) => s = p /\ k = i - 1 /\ sent[i].body = b[k]
  BY <1>1, <1>2, <1>6, SentHeader
<1> HIDE DEF asked
<1>8. \A i \in 1 .. m : p \in Programs /\ Aim(sent, i, p, Header) => OnTime(sent[i].body, asked, today)
  BY <1>5, <1>7, Zenon
<1> QED BY <1>1, <1>2, <1>7, <1>8, TransferOnTime

\* A reload adds a whole period, so the days stay.
LEMMA ReloadOnTime ==
    ASSUME IInv, RunsOnItsDays, NEW p \in Programs, Reload(p)
    PROVE  RunsOnItsDays'
<1> DEFINE old == config[p]
           new == Recounted(old, old[Header][10])
<1>1. /\ config' = [s \in Slots |-> IF s = p THEN new ELSE config[s]]
      /\ Interval(old[Header]) /\ old[Header][11] = 0 /\ today' = today /\ due' = due
  BY ReloadParts, Zenon
<1>2. IsBlock(old) /\ \A q \in Programs : q \in Slots
  BY SlotsAre DEF IInv, Blocks, IsConfig
<1>3. /\ new[Header][8] = old[Header][8] /\ new[Header][10] = old[Header][10]
      /\ new[Header][11] = old[Header][10] /\ old[Header][10] \in Nat
  <2>1. old[Header][10] \in Byte /\ old[Header][10] \in Nat
    BY <1>2, HeaderBytes, Zenon
  <2> HIDE DEF old
  <2>2. \A left \in Byte : /\ Recounted(old, left)[Header][8] = old[Header][8]
                           /\ Recounted(old, left)[Header][10] = old[Header][10]
                           /\ Recounted(old, left)[Header][11] = left
    BY <1>2, RecountedBlock, Zenon
  <2> QED BY <2>1, <2>2
<1> HIDE DEF new
<1>4. OnTime(new[Header], due[p], today)
  <2> DEFINE n == old[Header][10]
  <2>1. n \in Nat \ {0}
    BY <1>1, <1>3 DEF Interval
  <2>2. ASSUME NEW day \in due[p] PROVE 0 % n = (day - today) % n
    BY <1>1, RunsIs DEF OnTime
  <2> HIDE DEF n
  <2>3. n % n = 0 % n
    BY <2>1, ModPeriod
  <2>4. Interval(new[Header]) /\ new[Header][10] = n /\ new[Header][11] = n
    BY <1>1, <1>3 DEF Interval, n
  <2> QED BY <2>2, <2>3, <2>4 DEF OnTime
<1>5. ASSUME NEW q \in Programs PROVE OnTime(config'[q][Header], due'[q], today')
  <2>1. CASE q = p
    BY <1>1, <1>2, <1>4, <2>1
  <2>2. CASE q # p
    <3>1. config'[q] = config[q]
      BY <1>1, <1>2, <2>2
    <3> QED BY <1>1, <3>1, RunsIs
  <2> QED BY <2>1, <2>2
<1> QED BY <1>5 DEF RunsOnItsDays, OnTime

\* A countdown and its day come one day nearer together.
LEMMA MidnightOnTime ==
    ASSUME IInv, RunsOnItsDays, Midnight
    PROVE  RunsOnItsDays'
<1>1. config' = [s \in Slots |-> Overnight(config[s])] /\ today' = today + 1 /\ due' = due
  BY MidnightParts, Zenon
<1>2. today \in Int
  BY DEF IInv, Scalars
<1>3. ASSUME NEW q \in Programs PROVE OnTime(config'[q][Header], due'[q], today')
  <2> DEFINE old == config[q][Header]
             new == Overnight(config[q])[Header]
  <2>1. q \in Slots /\ IsBlock(config[q])
    BY SlotsAre DEF IInv, Blocks, IsConfig
  <2>2. config'[q][Header] = new
    BY <1>1, <2>1
  <2>3. OnTime(old, due[q], today)
    BY RunsIs, Zenon
  <2>4. old[10] \in Nat /\ old[11] \in Nat
    BY <2>1, HeaderBytes, Zenon
  <2>5. Interval(old) => /\ new[8] = old[8] /\ new[10] = old[10]
                         /\ new[11] = IF old[11] = 0 THEN old[10] - 1 ELSE old[11] - 1
    BY <2>1, MidnightBlock, Zenon
  <2> HIDE DEF old, new
  <2>6. ASSUME NEW day \in due[q] PROVE Interval(new) /\ new[11] % new[10] = (day - (today + 1)) % new[10]
    <3>1. Interval(old) /\ old[11] % old[10] = (day - today) % old[10]
      BY <2>3, Zenon DEF OnTime
    <3>2. old[10] \in Nat \ {0} /\ day \in Int
      <4>1. day \in Int
        BY Zenon DEF IInv, Days
      <4> QED BY <2>4, <3>1, <4>1 DEF Interval
    <3> DEFINE n == old[10]
               l == old[11]
    <3>3. n \in Nat \ {0} /\ l \in Nat /\ l % n = (day - today) % n
      BY <2>4, <3>1, <3>2, Zenon
    <3>4. Interval(new) /\ new[10] = n /\ new[11] = IF l = 0 THEN n - 1 ELSE l - 1
      BY <2>5, <3>1, Zenon DEF Interval
    <3> HIDE DEF n, l
    <3>5. (IF l = 0 THEN n - 1 ELSE l - 1) % n = (day - (today + 1)) % n
      BY <1>2, <3>2, <3>3, DayPasses
    <3> QED BY <3>4, <3>5
  <2>7. OnTime(new, due[q], today + 1)
    BY <2>6, Zenon DEF OnTime
  <2> QED BY <1>1, <2>2, <2>7
<1> QED BY <1>3 DEF RunsOnItsDays, OnTime

\* The programs the controller starts with are on the days they ask for.
LEMMA InitOnTime ==
    ASSUME Init
    PROVE  RunsOnItsDays
<1> DEFINE d(p) == IF IntervalKept(config[p][Header]) THEN DueBy(config[p][Header]) ELSE {}
<1>1. due = [p \in Programs |-> d(p)]
  BY Zenon DEF Init
<1>2. ASSUME NEW p \in Programs PROVE OnTime(config[p][Header], d(p), today)
  <2> DEFINE n == config[p][Header][10]
             l == config[p][Header][11]
  <2>1. p \in Slots /\ IsBlock(config[p]) /\ today \in Int
    BY Initially, SlotsAre DEF IInv, Blocks, IsConfig, Scalars
  <2>2. n \in Nat /\ l \in Nat
    BY <2>1, HeaderBytes, Zenon
  <2>3. ASSUME NEW day \in d(p)
        PROVE  config[p][Header][8] = 4 /\ n >= 1 /\ l % n = (day - today) % n
    <3>1. IntervalKept(config[p][Header]) /\ day \in DueBy(config[p][Header])
      BY Zenon
    <3>2. config[p][Header][8] = 4 /\ day = today + l
      BY <3>1 DEF DueBy
    <3>3. n >= 1
      BY <3>1, <3>2, Zenon DEF IntervalKept
    <3> HIDE DEF n, l
    <3>4. day - today = l
      BY <2>1, <2>2, <3>2
    <3> QED BY <3>2, <3>3, <3>4
  <2> QED BY <2>3, Zenon DEF OnTime, Interval
<1> HIDE DEF d
<1>3. \A p \in Programs : OnTime(config[p][Header], due[p], today)
  BY <1>1, <1>2
<1> QED BY <1>3, RunsIs

\* Every step keeps programs on their days.
LEMMA StepOnTime == IInv /\ RunsOnItsDays /\ [Next]_vars => RunsOnItsDays'
<1> SUFFICES ASSUME IInv, RunsOnItsDays, [Next]_vars PROVE RunsOnItsDays'
  OBVIOUS
<1>1. CASE Read \/ Keep \/ Restore \/ UNCHANGED vars
  <2>1. UNCHANGED <<config, today, due>>
    BY <1>1, Zenon DEF Read, Keep, Restore, vars
  <2> QED BY <2>1 DEF RunsOnItsDays
<1>2. CASE Commit
  BY <1>2, CommitOnTime
<1>3. CASE Midnight
  BY <1>3, MidnightOnTime
<1>4. ASSUME NEW p \in Programs, Reload(p) PROVE RunsOnItsDays'
  BY <1>4, ReloadOnTime
<1>5. ASSUME NEW p \in Programs, NEW change \in Changes, Patch(p, change) PROVE RunsOnItsDays'
  <2>1. UNCHANGED <<config, today, due>>
    BY <1>5, Zenon DEF Patch
  <2> QED BY <2>1 DEF RunsOnItsDays
<1>6. ASSUME NEW p \in Programs, NEW r \in Requests, Set(p, r) PROVE RunsOnItsDays'
  BY <1>6, SetOnTime
<1> QED BY <1>1, <1>2, <1>3, <1>4, <1>5, <1>6, Zenon DEF Next

\* A program that was told to run every n days from some day does, for any number of
\* days and edits: its countdown is over on these days only, whatever else is patched,
\* set or restored over, and however old the draft of a patch was.
THEOREM ProgramsRunOnTheirDays == Spec => []RunsOnItsDays
<1>1. Spec => []IInv
  BY Initially, Inductive, PTL DEF Spec
<1> QED BY <1>1, InitOnTime, StepOnTime, PTL DEF Spec

-----------------------------------------------------------------------------
(* What is packed is read back. *)

\* The parts of what is decoded.
NameOf(b)     == Text(b[0]) \o Text(b[1])
StartTime(b, s) == LET minutes == Int2(b[3], 4 + 2 * s) IN IF minutes >= Disabled THEN None ELSE minutes
Duration(b, t)  == LET k == CHOOSE k \in 4 .. 6 : t \in Held(k)
                   IN  Int3(b[k], 4 + 3 * (t - Min(Held(k))))

\* What a block is read as, in its parts.
LEMMA DecodedIs ==
    ASSUME NEW b
    PROVE  /\ Decoded(b) = [f \in Fields |-> Decoded(b)[f]]
           /\ Decoded(b) = [name |-> NameOf(b), inter_station_delay |-> Int2(b[2], 4),
                            water_budget |-> Int2(b[2], 6), cycle |-> b[2][8], week_days |-> b[2][9],
                            period_length |-> b[2][10], synchro_day |-> b[2][11],
                            start_times |-> [s \in 0 .. 7 |-> StartTime(b, s)],
                            station_durations |-> [t \in 0 .. 11 |-> Duration(b, t)]]
<1>1. Decoded(b) = [name |-> NameOf(b), inter_station_delay |-> Int2(b[2], 4),
                            water_budget |-> Int2(b[2], 6), cycle |-> b[2][8], week_days |-> b[2][9],
                            period_length |-> b[2][10], synchro_day |-> b[2][11],
                            start_times |-> [s \in 0 .. 7 |-> StartTime(b, s)],
                            station_durations |-> [t \in 0 .. 11 |-> Duration(b, t)]]
  BY Zenon DEF Decoded, NameOf, StartTime, Duration
<1> DEFINE d == Decoded(b)
<1>2. d = [f \in Fields |-> d[f]]
  BY <1>1 DEF Fields
<1> QED BY <1>1, <1>2

\* A number from its bytes.
LEMMA WordBack ==
    ASSUME NEW v \in 0 .. MaxWord, NEW c, NEW at, c[at] = Bytes2(v)[1], c[at + 1] = Bytes2(v)[2]
    PROVE  Int2(c, at) = v
BY Bytes2Back DEF Int2

\* A duration from its bytes.
LEMMA LongIs == \A c : \A at \in Int : Int3(c, at) = 65536 * c[at] + (256 * c[at + 1] + c[at + 2])
<1> TAKE c
<1> TAKE at \in Int
<1>1. at + 1 + 1 = at + 2
  OBVIOUS
<1> QED BY <1>1 DEF Int3, Int2

\* A duration is read back from the bytes that were stored for it.
LEMMA LongBack ==
    ASSUME NEW v \in 0 .. MaxDuration
    PROVE  \A c : \A at \in Int :
              c[at] = Bytes3(v)[1] /\ c[at + 1] = Bytes3(v)[2] /\ c[at + 2] = Bytes3(v)[3] => Int3(c, at) = v
<1> DEFINE x == Bytes3(v)[1]
           y == Bytes3(v)[2]
           z == Bytes3(v)[3]
<1>1. 65536 * x + (256 * y + z) = v
  BY Bytes3Back
<1> HIDE DEF x, y, z
<1>2. \A c : \A at \in Int : c[at] = x /\ c[at + 1] = y /\ c[at + 2] = z => Int3(c, at) = v
  BY <1>1, LongIs
<1> QED BY <1>2 DEF x, y, z

\* A station's duration is the three bytes of that station.
LEMMA DurationAt ==
    ASSUME NEW t \in 0 .. 11
    PROVE  \E k \in 4 .. 6 : \E o \in Offsets(k) :
              /\ o + 1 \in Offsets(k) /\ o + 2 \in Offsets(k) /\ o \in Int
              /\ Station(k, o) = t + 1 /\ Station(k, o + 1) = t + 1 /\ Station(k, o + 2) = t + 1
              /\ ((o - 4) % 3) + 1 = 1 /\ ((o + 1 - 4) % 3) + 1 = 2 /\ ((o + 2 - 4) % 3) + 1 = 3
              /\ \A b : Duration(b, t) = Int3(b[k], o)
<1>1. /\ \A k \in 4 .. 6 : t \in Held(k) <=> (k = 4 /\ t <= 4) \/ (k = 5 /\ 5 <= t /\ t <= 9) \/ (k = 6 /\ 10 <= t)
      /\ Held(4) = 0 .. 4 /\ Held(5) = 5 .. 9 /\ Held(6) = 10 .. 11
  BY DEF Held
<1>2. Min(Held(4)) = 0 /\ Min(Held(5)) = 5 /\ Min(Held(6)) = 10
  <2>1. Min(0 .. 4) = 0
    <3>1. 0 .. 4 \in SUBSET Int /\ 0 \in 0 .. 4 /\ \A y \in 0 .. 4 : 0 <= y
      OBVIOUS
    <3> QED BY <3>1, MinIs
  <2>2. Min(5 .. 9) = 5
    <3>1. 5 .. 9 \in SUBSET Int /\ 5 \in 5 .. 9 /\ \A y \in 5 .. 9 : 5 <= y
      OBVIOUS
    <3> QED BY <3>1, MinIs
  <2>3. Min(10 .. 11) = 10
    <3>1. 10 .. 11 \in SUBSET Int /\ 10 \in 10 .. 11 /\ \A y \in 10 .. 11 : 10 <= y
      OBVIOUS
    <3> QED BY <3>1, MinIs
  <2> QED BY <1>1, <2>1, <2>2, <2>3
<1>3. ASSUME NEW k \in 4 .. 6, t \in Held(k) PROVE \A b : Duration(b, t) = Int3(b[k], 4 + 3 * (t - Min(Held(k))))
  <2>1. \A j \in 4 .. 6 : t \in Held(j) => j = k
    BY <1>1, <1>3
  <2>2. (CHOOSE j \in 4 .. 6 : t \in Held(j)) = k
    BY <1>3, <2>1
  <2> QED BY <2>2, Zenon DEF Duration
<1>4. CASE t <= 4
  <2> DEFINE o == 4 + 3 * t
  <2>1. \A b : Duration(b, t) = Int3(b[4], 4 + 3 * (t - Min(Held(4))))
    BY <1>1, <1>3, <1>4
  <2>2. \A b : Duration(b, t) = Int3(b[4], o)
    BY <1>2, <2>1
  <2>3. /\ 4 \in 4 .. 6 /\ o \in 4 .. 18 /\ o + 1 \in 4 .. 18 /\ o + 2 \in 4 .. 18 /\ o \in Int
        /\ 1 + 5 * (4 - 4) + ((o - 4) \div 3) = t + 1 /\ 1 + 5 * (4 - 4) + ((o + 1 - 4) \div 3) = t + 1
        /\ 1 + 5 * (4 - 4) + ((o + 2 - 4) \div 3) = t + 1
        /\ ((o - 4) % 3) + 1 = 1 /\ ((o + 1 - 4) % 3) + 1 = 2 /\ ((o + 2 - 4) % 3) + 1 = 3
    BY <1>4
  <2> HIDE DEF o
  <2>4. o \in Offsets(4) /\ o + 1 \in Offsets(4) /\ o + 2 \in Offsets(4)
    BY <2>3, OffsetsAre
  <2>5. Station(4, o) = t + 1 /\ Station(4, o + 1) = t + 1 /\ Station(4, o + 2) = t + 1
    BY <2>3 DEF Station
  <2> QED BY <2>2, <2>3, <2>4, <2>5, Zenon
<1>5. CASE 5 <= t /\ t <= 9
  <2> DEFINE o == 4 + 3 * (t - 5)
  <2>1. \A b : Duration(b, t) = Int3(b[5], 4 + 3 * (t - Min(Held(5))))
    BY <1>1, <1>3, <1>5
  <2>2. \A b : Duration(b, t) = Int3(b[5], o)
    BY <1>2, <2>1
  <2>3. /\ 5 \in 4 .. 6 /\ o \in 4 .. 18 /\ o + 1 \in 4 .. 18 /\ o + 2 \in 4 .. 18 /\ o \in Int
        /\ 1 + 5 * (5 - 4) + ((o - 4) \div 3) = t + 1 /\ 1 + 5 * (5 - 4) + ((o + 1 - 4) \div 3) = t + 1
        /\ 1 + 5 * (5 - 4) + ((o + 2 - 4) \div 3) = t + 1
        /\ ((o - 4) % 3) + 1 = 1 /\ ((o + 1 - 4) % 3) + 1 = 2 /\ ((o + 2 - 4) % 3) + 1 = 3
    BY <1>5
  <2> HIDE DEF o
  <2>4. o \in Offsets(5) /\ o + 1 \in Offsets(5) /\ o + 2 \in Offsets(5)
    BY <2>3, OffsetsAre
  <2>5. Station(5, o) = t + 1 /\ Station(5, o + 1) = t + 1 /\ Station(5, o + 2) = t + 1
    BY <2>3 DEF Station
  <2> QED BY <2>2, <2>3, <2>4, <2>5, Zenon
<1>6. CASE 10 <= t
  <2> DEFINE o == 4 + 3 * (t - 10)
  <2>1. \A b : Duration(b, t) = Int3(b[6], 4 + 3 * (t - Min(Held(6))))
    BY <1>1, <1>3, <1>6
  <2>2. \A b : Duration(b, t) = Int3(b[6], o)
    BY <1>2, <2>1
  <2>3. /\ 6 \in 4 .. 6 /\ o \in 4 .. 9 /\ o + 1 \in 4 .. 9 /\ o + 2 \in 4 .. 9 /\ o \in Int
        /\ 1 + 5 * (6 - 4) + ((o - 4) \div 3) = t + 1 /\ 1 + 5 * (6 - 4) + ((o + 1 - 4) \div 3) = t + 1
        /\ 1 + 5 * (6 - 4) + ((o + 2 - 4) \div 3) = t + 1
        /\ ((o - 4) % 3) + 1 = 1 /\ ((o + 1 - 4) % 3) + 1 = 2 /\ ((o + 2 - 4) % 3) + 1 = 3
    BY <1>6
  <2> HIDE DEF o
  <2>4. o \in Offsets(6) /\ o + 1 \in Offsets(6) /\ o + 2 \in Offsets(6)
    BY <2>3, OffsetsAre
  <2>5. Station(6, o) = t + 1 /\ Station(6, o + 1) = t + 1 /\ Station(6, o + 2) = t + 1
    BY <2>3 DEF Station
  <2> QED BY <2>2, <2>3, <2>4, <2>5, Zenon
<1> QED BY <1>4, <1>5, <1>6

\* A text of n bytes, padded with zeros.
IsText(c, n, v) ==
    /\ DOMAIN c = 4 .. 19 /\ n \in 0 .. 16
    /\ \A o \in 4 .. 19 : IF o - 3 <= n THEN c[o] = v[o - 3] /\ c[o] # 0 ELSE c[o] = 0

\* The first n members of a sequence, and n after the first m.
First(v, n) == [i \in 1 .. n |-> v[i]]
After(v, m, n) == [i \in 1 .. n |-> v[m + i]]

\* A padded text is read as what it was before the padding.
LEMMA TextOf ==
    ASSUME NEW c, NEW n, NEW v, IsText(c, n, v)
    PROVE  Text(c) = First(v, n)
<1>1. /\ DOMAIN c = 4 .. 19 /\ n \in 0 .. 16
      /\ \A o \in 4 .. 19 : IF o - 3 <= n THEN c[o] = v[o - 3] /\ c[o] # 0 ELSE c[o] = 0
  BY Zenon DEF IsText
<1> DEFINE S == {o \in DOMAIN c : c[o] = 0} \cup {20}
<1>2. S \in SUBSET Int /\ n + 4 \in Int
  BY <1>1
<1>3. n + 4 \in S /\ \A y \in S : n + 4 <= y
  <2>1. \A o \in 4 .. 19 : c[o] = 0 <=> o - 3 > n
    BY <1>1
  <2>2. \A o : o \in S <=> (o \in 4 .. 19 /\ o - 3 > n) \/ o = 20
    BY <1>1, <2>1
  <2> HIDE DEF S
  <2> QED BY <1>1, <2>2
<1> HIDE DEF S
<1>4. Min(S) = n + 4
  BY <1>2, <1>3, MinIs
<1>5. Text(c) = [i \in 1 .. Min(S) - 4 |-> c[i + 3]]
  BY Zenon DEF Text, S
<1>6. n + 4 - 4 = n /\ \A i \in 1 .. n : c[i + 3] = v[i]
  <2>1. \A i \in 1 .. n : i + 3 \in 4 .. 19 /\ (i + 3) - 3 = i /\ i + 3 - 3 <= n
    BY <1>1
  <2>2. \A i \in 1 .. n : c[i + 3] = v[(i + 3) - 3]
    BY <1>1, <2>1
  <2> QED BY <1>1, <2>1, <2>2
<1>7. Text(c) = [i \in 1 .. n |-> v[i]]
  <2>1. Text(c) = [i \in 1 .. n |-> c[i + 3]]
    <3>1. Min(S) - 4 = n
      BY <1>1, <1>4
    <3> QED BY <1>5, <3>1, Zenon
  <2>2. [i \in 1 .. n |-> c[i + 3]] = [i \in 1 .. n |-> v[i]]
    BY <1>6, Zenon
  <2> QED BY <2>1, <2>2, Zenon
<1> QED BY <1>7, Zenon DEF First

\* The two halves of a name.
LEMMA Joined ==
    ASSUME NEW name \in Seq(Byte), NEW m \in Nat, NEW n \in Nat, m + n = Len(name)
    PROVE  First(name, m) \o After(name, m, n) = name
<1> DEFINE s == First(name, m)
           t == After(name, m, n)
<1>1. s \in Seq(Byte) /\ Len(s) = m /\ \A i \in 1 .. m : s[i] = name[i]
  BY DEF First
<1>2. t \in Seq(Byte) /\ Len(t) = n /\ \A i \in 1 .. n : t[i] = name[m + i]
  BY DEF After
<1> HIDE DEF s, t
<1> DEFINE u == s \o t
<1>3. /\ u \in Seq(Byte) /\ Len(u) = Len(s) + Len(t)
      /\ \A i \in 1 .. Len(s) + Len(t) : u[i] = IF i <= Len(s) THEN s[i] ELSE t[i - Len(s)]
  <2>1. s \in Seq(Byte) /\ t \in Seq(Byte)
    BY <1>1, <1>2
  <2> QED BY <2>1, ConcatProperties
<1> HIDE DEF u
<1>4. /\ Len(u) = m + n /\ \A i \in 1 .. m + n : u[i] = IF i <= m THEN s[i] ELSE t[i - m]
  BY <1>1, <1>2, <1>3, Zenon
<1>5. \A i \in 1 .. m + n : (i <= m => i \in 1 .. m) /\ (~(i <= m) => i - m \in 1 .. n /\ m + (i - m) = i)
  OBVIOUS
<1>6. \A i \in 1 .. m + n : u[i] = name[i]
  <2> TAKE i \in 1 .. m + n
  <2>1. CASE i <= m
    <3>1. u[i] = s[i]
      BY <1>4, <2>1, Zenon
    <3>2. s[i] = name[i]
      BY <1>1, <1>5, <2>1, Zenon
    <3> QED BY <3>1, <3>2, Zenon
  <2>2. CASE ~(i <= m)
    <3>1. u[i] = t[i - m]
      BY <1>4, <2>2, Zenon
    <3>2. t[i - m] = name[m + (i - m)] /\ m + (i - m) = i
      BY <1>2, <1>5, <2>2, Zenon
    <3> QED BY <3>1, <3>2, Zenon
  <2> QED BY <2>1, <2>2
<1>7. u = name
  <2>1. u \in Seq(Byte) /\ Len(u) = Len(name) /\ \A i \in 1 .. Len(u) : u[i] = name[i]
    BY <1>3, <1>4, <1>6, Zenon
  <2> QED BY <2>1, SeqEqual, Zenon
<1> QED BY <1>7 DEF u, s, t

\* The bytes of a name in the first two chunks.
NameBytes(b, name) ==
    /\ DOMAIN b[0] = 4 .. 19 /\ DOMAIN b[1] = 4 .. 19 /\ b[1][19] = 0
    /\ \A o \in 4 .. 19 : b[0][o] = Padded(name)[o - 3]
    /\ \A o \in 4 .. 18 : b[1][o] = Padded(name)[o + 13]

\* Two chunks with the halves of a name of l bytes, and what they are read as.
HalfBytes(c, d, name, l) ==
    /\ l \in 0 .. 31 /\ \A i \in 1 .. l : name[i] # 0
    /\ DOMAIN c = 4 .. 19 /\ DOMAIN d = 4 .. 19 /\ d[19] = 0
    /\ \A o \in 4 .. 19 : c[o] = IF o - 3 <= l THEN name[o - 3] ELSE 0
    /\ \A o \in 4 .. 18 : d[o] = IF o + 13 <= l THEN name[o + 13] ELSE 0
SplitAt(c, d, name, l) ==
    \E m, n \in Nat : m + n = l /\ Text(c) = First(name, m) /\ Text(d) = After(name, m, n)

\* The halves of a padded name are padded texts, which join to the name.
LEMMA HalfTexts ==
    ASSUME NEW c, NEW d, NEW name, NEW l, HalfBytes(c, d, name, l)
    PROVE  SplitAt(c, d, name, l)
<1>1. /\ l \in 0 .. 31 /\ \A i \in 1 .. l : name[i] # 0
      /\ DOMAIN c = 4 .. 19 /\ DOMAIN d = 4 .. 19 /\ d[19] = 0
      /\ \A o \in 4 .. 19 : c[o] = IF o - 3 <= l THEN name[o - 3] ELSE 0
      /\ \A o \in 4 .. 18 : d[o] = IF o + 13 <= l THEN name[o + 13] ELSE 0
  BY Zenon DEF HalfBytes
<1>2. l \in 0 .. 31
  BY <1>1
<1> DEFINE m == IF l <= 16 THEN l ELSE 16
           n == l - m
<1>3. m \in 0 .. 16 /\ n \in 0 .. 15 /\ m + n = l /\ (n > 0 => m = 16) /\ (m < 16 => m = l /\ n = 0)
  BY <1>2
<1> HIDE DEF m, n
<1>4. Text(c) = First(name, m)
  <2>1. \A o \in 4 .. 19 : IF o - 3 <= m THEN c[o] = name[o - 3] /\ c[o] # 0 ELSE c[o] = 0
    <3> TAKE o \in 4 .. 19
    <3> DEFINE i == o - 3
    <3>1. i \in 1 .. 16
      OBVIOUS
    <3>2. c[o] = IF i <= l THEN name[i] ELSE 0
      BY <1>1, Zenon
    <3> HIDE DEF i
    <3>3. i <= l <=> i <= m
      BY <1>2, <1>3, <3>1
    <3>4. i <= l => name[i] # 0
      <4>1. i <= l => i \in 1 .. l
        BY <1>2, <3>1
      <4> QED BY <1>1, <4>1, Zenon
    <3>5. IF i <= m THEN c[o] = name[i] /\ c[o] # 0 ELSE c[o] = 0
      BY <3>2, <3>3, <3>4, Zenon
    <3> QED BY <3>5, Zenon DEF i
  <2>2. IsText(c, m, name)
    BY <1>1, <1>3, <2>1, Zenon DEF IsText
  <2> QED BY <2>2, TextOf, Zenon
<1> DEFINE v == [i \in 1 .. 15 |-> name[m + i]]
<1>5. Text(d) = First(v, n)
  <2>1. \A o \in 4 .. 19 : IF o - 3 <= n THEN d[o] = v[o - 3] /\ d[o] # 0 ELSE d[o] = 0
    <3> TAKE o \in 4 .. 19
    <3> DEFINE i == o - 3
    <3>1. CASE o <= 18
      <4>1. i \in 1 .. 15 /\ o + 13 = 16 + i /\ o \in 4 .. 18
        BY <3>1
      <4>2. d[o] = IF o + 13 <= l THEN name[o + 13] ELSE 0
        BY <1>1, <4>1, Zenon
      <4>3. v[i] = name[m + i]
        BY <4>1
      <4> HIDE DEF v, i
      <4>4. d[o] = IF 16 + i <= l THEN name[16 + i] ELSE 0
        BY <4>1, <4>2, Zenon
      <4>5. (16 + i <= l <=> i <= n) /\ (i <= n => m = 16)
        BY <1>2, <1>3, <4>1
      <4>6. 16 + i <= l => name[16 + i] # 0
        <5>1. 16 + i <= l => 16 + i \in 1 .. l
          BY <1>2, <4>1
        <5> QED BY <1>1, <5>1, Zenon
      <4>7. IF i <= n THEN d[o] = v[i] /\ d[o] # 0 ELSE d[o] = 0
        BY <4>3, <4>4, <4>5, <4>6, Zenon
      <4> QED BY <4>7, Zenon DEF i
    <3>2. CASE o = 19
      BY <1>1, <1>3, <3>2
    <3> QED BY <3>1, <3>2
  <2>2. n \in 0 .. 16
    BY <1>3
  <2> HIDE DEF v
  <2>3. IsText(d, n, v)
    BY <1>1, <2>1, <2>2, Zenon DEF IsText
  <2> QED BY <2>3, TextOf, Zenon
<1>6. First(v, n) = After(name, m, n)
  <2>1. \A i \in 1 .. n : i \in 1 .. 15
    BY <1>3
  <2>2. \A i \in 1 .. n : v[i] = name[m + i]
    BY <2>1
  <2> HIDE DEF v
  <2> QED BY <2>2 DEF First, After
<1>7. m \in Nat /\ n \in Nat
  BY <1>3
<1> HIDE DEF v
<1> QED BY <1>3, <1>4, <1>5, <1>6, <1>7, Zenon DEF SplitAt

\* The length of a short sequence.
LEMMA LenIs ==
    ASSUME NEW s \in Seq(Byte), NEW most \in Nat, Len(s) <= most
    PROVE  Len(s) \in 0 .. most /\ \A i \in 1 .. Len(s) : i \in DOMAIN s
OBVIOUS

\* A name without NUL of at most 31 bytes is read back.
LEMMA NameBack ==
    ASSUME NEW name \in Seq(Byte), Len(name) <= 31, \A i \in DOMAIN name : name[i] # 0,
           NEW b, NameBytes(b, name)
    PROVE  NameOf(b) = name
<1>1. /\ DOMAIN b[0] = 4 .. 19 /\ DOMAIN b[1] = 4 .. 19 /\ b[1][19] = 0
      /\ \A o \in 4 .. 19 : b[0][o] = Padded(name)[o - 3]
      /\ \A o \in 4 .. 18 : b[1][o] = Padded(name)[o + 13]
  BY Zenon DEF NameBytes
<1>2. Len(name) \in 0 .. 31 /\ \A i \in 1 .. Len(name) : name[i] # 0
  <2>1. 31 \in Nat
    OBVIOUS
  <2> QED BY <2>1, LenIs, Zenon
<1>3. \A i \in 1 .. 31 : Padded(name)[i] = IF i <= Len(name) THEN name[i] ELSE 0
  BY DEF Padded
<1>4. PICK m \in Nat, n \in Nat :
         m + n = Len(name) /\ Text(b[0]) = First(name, m) /\ Text(b[1]) = After(name, m, n)
  <2>1. \A o \in 4 .. 19 : b[0][o] = IF o - 3 <= Len(name) THEN name[o - 3] ELSE 0
    <3>1. \A o \in 4 .. 19 : o - 3 \in 1 .. 31
      OBVIOUS
    <3> QED BY <1>1, <1>3, <3>1, Zenon
  <2>2. \A o \in 4 .. 18 : b[1][o] = IF o + 13 <= Len(name) THEN name[o + 13] ELSE 0
    <3>1. \A o \in 4 .. 18 : o + 13 \in 1 .. 31
      OBVIOUS
    <3> QED BY <1>1, <1>3, <3>1, Zenon
  <2>3. HalfBytes(b[0], b[1], name, Len(name))
    BY <1>1, <1>2, <2>1, <2>2, Zenon DEF HalfBytes
  <2>4. SplitAt(b[0], b[1], name, Len(name))
    BY <2>3, HalfTexts, Zenon
  <2> QED BY <2>4, Zenon DEF SplitAt
<1>5. First(name, m) \o After(name, m, n) = name
  BY <1>4, Joined, Zenon
<1> QED BY <1>4, <1>5, Zenon DEF NameOf

\* The fields that are read from a block are p's.
Reads(b, p) ==
    /\ NameOf(b) = p.name
    /\ Int2(b[2], 4) = p.inter_station_delay /\ Int2(b[2], 6) = p.water_budget
    /\ b[2][8] = p.cycle /\ b[2][9] = p.week_days
    /\ b[2][10] = p.period_length /\ b[2][11] = p.synchro_day
    /\ \A s \in 0 .. 7 : StartTime(b, s) = p.start_times[s]
    /\ \A t \in 0 .. 11 : Duration(b, t) = p.station_durations[t]

\* The domains of a block's first chunks.
LEMMA BlockDomains ==
    ASSUME NEW b, IsBlock(b)
    PROVE  DOMAIN b[0] = 4 .. 19 /\ DOMAIN b[1] = 4 .. 19 /\ b[1][19] = 0
<1>1. b[0] \in [Offsets(0) -> Byte] /\ b[1] \in [Offsets(1) -> Byte] /\ b[1][19] = 0
  BY NumbersAre, Zenon DEF IsBlock
<1> QED BY <1>1, OffsetsAre

\* A start time from its two bytes, and a duration from its three.
LEMMA StartBack ==
    ASSUME NEW b, NEW s \in 0 .. 7, NEW m \in {None} \cup (0 .. Disabled - 1), NEW v,
           v = IF m = None THEN Disabled ELSE m,
           b[3][4 + 2 * s] = Bytes2(v)[1], b[3][4 + 2 * s + 1] = Bytes2(v)[2]
    PROVE  StartTime(b, s) = m
<1>1. v \in 0 .. MaxWord /\ (IF v >= Disabled THEN None ELSE v) = m
  BY StartIs
<1>2. Int2(b[3], 4 + 2 * s) = v
  BY <1>1, WordBack, Zenon
<1> QED BY <1>1, <1>2, Zenon DEF StartTime

\* A packed program is read back, field by field.
LEMMA HasBytesReads ==
    ASSUME NEW b, IsBlock(b), NEW p, Storable(p), NEW day, HasBytes(b, p, day),
           Len(p.name) <= 31, \A i \in DOMAIN p.name : p.name[i] # 0
    PROVE  Reads(b, p)
<1>1. NameOf(b) = p.name
  <2>1. NameBytes(b, p.name)
    BY BlockDomains, Zenon DEF HasBytes, NameBytes
  <2>2. p.name \in Seq(Byte)
    BY Zenon DEF Storable
  <2> DEFINE name == p.name
  <2>3. name \in Seq(Byte) /\ Len(name) <= 31 /\ (\A i \in DOMAIN name : name[i] # 0) /\ NameBytes(b, name)
    BY <2>1, <2>2, Zenon
  <2> HIDE DEF name
  <2>4. NameOf(b) = name
    BY <2>3, NameBack, Zenon
  <2> QED BY <2>4, Zenon DEF name
<1>2. Int2(b[2], 4) = p.inter_station_delay /\ Int2(b[2], 6) = p.water_budget
  <2>1. b[2][4] = Bytes2(p.inter_station_delay)[1] /\ b[2][5] = Bytes2(p.inter_station_delay)[2]
        /\ b[2][6] = Bytes2(p.water_budget)[1] /\ b[2][7] = Bytes2(p.water_budget)[2]
    BY Zenon DEF HasBytes
  <2>2. p.inter_station_delay \in 0 .. MaxWord /\ p.water_budget \in 0 .. MaxWord
    BY StorableParts, Zenon
  <2> DEFINE c == b[2]
             delay == p.inter_station_delay
             budget == p.water_budget
  <2>3. c[4] = Bytes2(delay)[1] /\ c[4 + 1] = Bytes2(delay)[2]
        /\ c[6] = Bytes2(budget)[1] /\ c[6 + 1] = Bytes2(budget)[2]
    BY <2>1
  <2>4. delay \in 0 .. MaxWord /\ budget \in 0 .. MaxWord
    BY <2>2
  <2> HIDE DEF c, delay, budget
  <2>5. Int2(c, 4) = delay
    BY <2>3, <2>4, WordBack
  <2>6. Int2(c, 6) = budget
    BY <2>3, <2>4, WordBack
  <2> QED BY <2>5, <2>6, Zenon DEF c, delay, budget
<1>3. b[2][8] = p.cycle /\ b[2][9] = p.week_days /\ b[2][10] = p.period_length /\ b[2][11] = p.synchro_day
  BY Zenon DEF HasBytes
<1>4. ASSUME NEW s \in 0 .. 7 PROVE StartTime(b, s) = p.start_times[s]
  <2>1. p.start_times[s] \in {None} \cup (0 .. Disabled - 1)
    BY StorableParts, Zenon
  <2>2. \A o \in 4 .. 19 : b[3][o] = Bytes2(StartOf(p.start_times, (o - 4) \div 2))[((o - 4) % 2) + 1]
    BY Zenon DEF HasBytes
  <2> DEFINE o == 4 + 2 * s
             u == o + 1
  <2>3. o \in 4 .. 19 /\ u \in 4 .. 19
    OBVIOUS
  <2>4. o = 4 + 2 * s /\ u = o + 1
    OBVIOUS
  <2> HIDE DEF o, u
  <2>5. (o - 4) \div 2 = s /\ (u - 4) \div 2 = s /\ ((o - 4) % 2) + 1 = 1 /\ ((u - 4) % 2) + 1 = 2
    BY <2>4
  <2>6. b[3][o] = Bytes2(StartOf(p.start_times, s))[1] /\ b[3][o + 1] = Bytes2(StartOf(p.start_times, s))[2]
    <3> DEFINE d == p.start_times
               c == b[3]
    <3> HIDE DEF d, c
    <3>1. \A i \in 4 .. 19 : c[i] = Bytes2(StartOf(d, (i - 4) \div 2))[((i - 4) % 2) + 1]
      BY <2>2, Zenon DEF d, c
    <3>2. c[o] = Bytes2(StartOf(d, (o - 4) \div 2))[((o - 4) % 2) + 1]
      BY <2>3, <3>1, Zenon
    <3>3. c[u] = Bytes2(StartOf(d, (u - 4) \div 2))[((u - 4) % 2) + 1]
      BY <2>3, <3>1, Zenon
    <3>4. c[o] = Bytes2(StartOf(d, s))[1] /\ c[u] = Bytes2(StartOf(d, s))[2]
      BY <2>5, <3>2, <3>3, Zenon
    <3> QED BY <3>4, Zenon DEF u, d, c
  <2> DEFINE v == StartOf(p.start_times, s)
             m == p.start_times[s]
  <2>7. v = IF m = None THEN Disabled ELSE m
    BY Zenon DEF StartOf
  <2> HIDE DEF v, m
  <2>8. b[3][o] = Bytes2(v)[1] /\ b[3][o + 1] = Bytes2(v)[2] /\ m \in {None} \cup (0 .. Disabled - 1)
    BY <2>1, <2>6, Zenon DEF v, m
  <2>9. StartTime(b, s) = m
    BY <2>7, <2>8, StartBack, Zenon DEF o
  <2> QED BY <2>9, Zenon DEF m
<1>5. ASSUME NEW t \in 0 .. 11 PROVE Duration(b, t) = p.station_durations[t]
  <2>1. p.station_durations[t] \in 0 .. MaxDuration
    BY StorableParts, Zenon
  <2>2. \A k \in 4 .. 6 : \A o \in Offsets(k) :
          b[k][o] = Bytes3(p.station_durations[Station(k, o) - 1])[((o - 4) % 3) + 1]
    BY Zenon DEF HasBytes
  <2>3. PICK k \in 4 .. 6 : \E o \in Offsets(k) :
              /\ o + 1 \in Offsets(k) /\ o + 2 \in Offsets(k) /\ o \in Int
              /\ Station(k, o) = t + 1 /\ Station(k, o + 1) = t + 1 /\ Station(k, o + 2) = t + 1
              /\ ((o - 4) % 3) + 1 = 1 /\ ((o + 1 - 4) % 3) + 1 = 2 /\ ((o + 2 - 4) % 3) + 1 = 3
              /\ \A h : Duration(h, t) = Int3(h[k], o)
    BY DurationAt, Zenon
  <2>4. PICK o \in Offsets(k) :
              /\ o + 1 \in Offsets(k) /\ o + 2 \in Offsets(k) /\ o \in Int
              /\ Station(k, o) = t + 1 /\ Station(k, o + 1) = t + 1 /\ Station(k, o + 2) = t + 1
              /\ ((o - 4) % 3) + 1 = 1 /\ ((o + 1 - 4) % 3) + 1 = 2 /\ ((o + 2 - 4) % 3) + 1 = 3
              /\ \A h : Duration(h, t) = Int3(h[k], o)
    BY <2>3, Zenon
  <2> DEFINE v == p.station_durations[t]
             c == b[k]
  <2>5. t + 1 - 1 = t
    OBVIOUS
  <2>6. c[o] = Bytes3(v)[1] /\ c[o + 1] = Bytes3(v)[2] /\ c[o + 2] = Bytes3(v)[3]
    <3> DEFINE u == o + 1
               w == o + 2
               d == p.station_durations
    <3> HIDE DEF u, w, d, c, v
    <3>1. \A i \in Offsets(k) : c[i] = Bytes3(d[Station(k, i) - 1])[((i - 4) % 3) + 1]
      BY <2>2, Zenon DEF d, c
    <3>2. u \in Offsets(k) /\ w \in Offsets(k)
      BY <2>4, Zenon DEF u, w
    <3>3. /\ Station(k, o) - 1 = t /\ Station(k, u) - 1 = t /\ Station(k, w) - 1 = t
          /\ ((o - 4) % 3) + 1 = 1 /\ ((u - 4) % 3) + 1 = 2 /\ ((w - 4) % 3) + 1 = 3
      BY <2>4, <2>5 DEF u, w
    <3>4. c[o] = Bytes3(d[t])[1]
      BY <3>1, <3>3, Zenon
    <3>5. c[u] = Bytes3(d[t])[2]
      BY <3>1, <3>2, <3>3, Zenon
    <3>6. c[w] = Bytes3(d[t])[3]
      BY <3>1, <3>2, <3>3, Zenon
    <3>7. d[t] = v
      BY Zenon DEF d, v
    <3> QED BY <3>4, <3>5, <3>6, <3>7, Zenon DEF u, w
  <2>7. v \in 0 .. MaxDuration
    BY <2>1
  <2> HIDE DEF v, c
  <2>8. Int3(c, o) = v
    BY <2>4, <2>6, <2>7, LongBack
  <2> QED BY <2>4, <2>8, Zenon DEF v, c
<1> QED BY <1>1, <1>2, <1>3, <1>4, <1>5, Zenon DEF Reads

\* What a set makes is read back as it was normalised.
LEMMA SetReadsBack ==
    ASSUME NEW r, NEW day, NEW b, Reads(b, Normal(r, day)),
           Storable(Normal(r, day))
    PROVE  Decoded(b) = Normal(r, day)
<1> DEFINE w == Normal(r, day)
           name == SubSeq(r.name, 1, Min({31, Len(r.name)}))
           synchro == IF r.cycle = 4 /\ r.anchor # {}
                      THEN Synchro(Min(r.anchor), r.period_length, day) ELSE r.synchro_day
           starts == [s \in 0 .. 7 |-> IF s + 1 \in DOMAIN r.start_times THEN r.start_times[s + 1] ELSE None]
           durations == [t \in 0 .. 11 |->
                           IF t + 1 \in DOMAIN r.station_durations THEN r.station_durations[t + 1] ELSE 0]
<1>1. w = [name |-> name, inter_station_delay |-> r.inter_station_delay, water_budget |-> r.water_budget,
           cycle |-> r.cycle, week_days |-> r.week_days, period_length |-> r.period_length,
           synchro_day |-> synchro, start_times |-> starts, station_durations |-> durations]
  BY Zenon DEF Normal
<1>2. Reads(b, w)
  BY Zenon
<1>3. starts = [s \in 0 .. 7 |-> starts[s]] /\ durations = [t \in 0 .. 11 |-> durations[t]]
  OBVIOUS
<1> HIDE DEF w, name, synchro, starts, durations
<1>4. /\ w.name = name /\ w.inter_station_delay = r.inter_station_delay /\ w.water_budget = r.water_budget
      /\ w.cycle = r.cycle /\ w.week_days = r.week_days /\ w.period_length = r.period_length
      /\ w.synchro_day = synchro /\ w.start_times = starts /\ w.station_durations = durations
  BY <1>1
<1>5. /\ NameOf(b) = name /\ Int2(b[2], 4) = r.inter_station_delay /\ Int2(b[2], 6) = r.water_budget
      /\ b[2][8] = r.cycle /\ b[2][9] = r.week_days
      /\ b[2][10] = r.period_length /\ b[2][11] = synchro
      /\ \A s \in 0 .. 7 : StartTime(b, s) = starts[s]
      /\ \A t \in 0 .. 11 : Duration(b, t) = durations[t]
  BY <1>2, <1>4, Zenon DEF Reads
<1>6. [s \in 0 .. 7 |-> StartTime(b, s)] = starts /\ [t \in 0 .. 11 |-> Duration(b, t)] = durations
  BY <1>3, <1>5, Zenon
<1>7. Decoded(b) = w
  BY <1>1, <1>5, <1>6, DecodedIs, Zenon
<1> QED BY <1>7, Zenon DEF w

-----------------------------------------------------------------------------
(* A set reads back what was asked. *)

\* A transfer of all seven frames leaves the block.
LEMMA WholeStored ==
    ASSUME NEW c, NEW slot \in Slots, NEW b, IsBlock(b)
    PROVE  Stored(c, Frames(slot, b))[slot] = b
<1> DEFINE F == Frames(slot, b)
           new == Stored(c, F)
<1>1. /\ IsTransfer(F, 7) /\ \A i \in 1 .. 7 : F[i].body = b[i - 1]
      /\ \A i \in 1 .. 7 : \A s, k : Aim(F, i, s, k) <=> s = slot /\ k = i - 1
  BY FramesTransfer, Zenon
<1>2. new[slot] = [k \in Chunks |-> new[slot][k]]
  BY StoredShape
<1> HIDE DEF F
<1>3. ASSUME NEW k \in Chunks PROVE new[slot][k] = b[k]
  <2> DEFINE i == k + 1
  <2>1. i \in 1 .. 7 /\ i - 1 = k
    BY DEF Chunks
  <2> HIDE DEF i
  <2>2. Aim(F, i, slot, k) /\ F[i].body = b[k]
    BY <1>1, <2>1, Zenon
  <2>3. Holds(new, c, F, 7, slot, k)
    BY <1>1, StoredAs
  <2> HIDE DEF new
  <2> QED BY <2>1, <2>2, <2>3, Zenon DEF Holds
<1>4. b = [k \in Chunks |-> b[k]]
  BY Zenon DEF IsBlock
<1> HIDE DEF new
<1>5. new[slot] = b
  <2>1. [k \in Chunks |-> new[slot][k]] = [k \in Chunks |-> b[k]]
    BY <1>3, Zenon
  <2> QED BY <1>2, <1>4, <2>1, Zenon
<1> QED BY <1>5, Zenon DEF new, F

\* A transfer that was not cut short has sent every frame.
LEMMA SentWhole ==
    ASSUME NEW frames, IsTransfer(frames, 7), NEW sent \in Sent(frames), ~(Len(sent) < 7)
    PROVE  sent = frames
<1>1. frames = [i \in 1 .. 7 |-> frames[i]] /\ Len(frames) = 7
  BY DEF IsTransfer
<1>2. PICK m \in (Cuts \cap (0 .. Len(frames))) \cup {Len(frames)} : sent = SubSeq(frames, 1, m)
  BY Zenon DEF Sent
<1>3. m \in 0 .. 7
  BY <1>1, <1>2
<1>4. sent = [i \in 1 .. m |-> frames[i]]
  BY <1>2, <1>3, Prefix
<1>5. Len(sent) = m
  BY <1>3, <1>4
<1>6. m = 7
  BY <1>3, <1>5
<1> QED BY <1>1, <1>4, <1>6, Zenon

\* No request names a program with a NUL byte, which ends a name that is read.
NoNul == \A r \in Requests : \A i \in DOMAIN r.name : r.name[i] # 0

\* A set that got every frame across reads back what was asked.
LEMMA SetMatches ==
    ASSUME NoNul, IInv, NEW p \in Programs, NEW r \in Requests, Set(p, r)
    PROVE  verdict' # "mismatch"
<1> DEFINE want == Normal(r, today)
           b == Packed(want, today)
<1>1. /\ Acceptable(r) /\ today \in Int /\ Storable(want) /\ IsBlock(b) /\ HasBytes(b, want, today)
  BY SetParts, Zenon
<1>2. PICK sent \in Sent(Frames(p, b)) :
         /\ config' = Stored(config, sent)
         /\ verdict' = IF Len(sent) < 7 THEN "uncertain"
                       ELSE IF Decoded(config'[p]) = want THEN "confirmed" ELSE "mismatch"
  BY SetParts, Zenon
<1>3. Len(want.name) <= 31 /\ \A i \in 1 .. Len(want.name) : i \in DOMAIN r.name /\ want.name[i] = r.name[i]
  BY <1>1, NormalParts
<1>4. \A i \in DOMAIN want.name : want.name[i] # 0
  <2>1. want.name \in Seq(Byte)
    BY <1>1, StorableParts
  <2> DEFINE name == want.name
  <2>2. name \in Seq(Byte) /\ \A i \in 1 .. Len(name) : i \in DOMAIN r.name /\ name[i] = r.name[i]
    BY <1>3, <2>1, Zenon
  <2> HIDE DEF name
  <2>3. DOMAIN name = 1 .. Len(name)
    BY <2>2
  <2>4. \A i \in DOMAIN name : name[i] # 0
    BY <2>2, <2>3, Zenon DEF NoNul
  <2> QED BY <2>4, Zenon DEF name
<1>5. Reads(b, want)
  <2> HIDE DEF b, want
  <2> QED BY <1>1, <1>3, <1>4, HasBytesReads, Zenon
<1>6. Decoded(b) = want
  <2> HIDE DEF b
  <2> QED BY <1>1, <1>5, SetReadsBack, Zenon
<1> HIDE DEF b, want
<1>7. p \in Slots
  BY SlotsAre
<1>8. CASE Len(sent) < 7
  <2>1. verdict' = "uncertain" /\ "uncertain" # "mismatch"
    BY <1>2, <1>8, Zenon
  <2> QED BY <2>1, Zenon
<1>9. CASE ~(Len(sent) < 7)
  <2>1. IsTransfer(Frames(p, b), 7)
    BY <1>1, <1>7, FramesTransfer, Zenon
  <2>2. sent = Frames(p, b)
    BY <1>9, <2>1, SentWhole, Zenon
  <2>3. config' = Stored(config, Frames(p, b))
    BY <1>2, <2>2, Zenon
  <2>4. config'[p] = b
    <3>1. Stored(config, Frames(p, b))[p] = b
      BY <1>1, <1>7, WholeStored
    <3> QED BY <2>3, <3>1
  <2>5. verdict' = "confirmed" /\ "confirmed" # "mismatch"
    BY <1>2, <1>6, <1>9, <2>4, Zenon
  <2> QED BY <2>5, Zenon
<1> QED BY <1>8, <1>9

-----------------------------------------------------------------------------
(* A patch reads back the change. *)

\* A patched program, field by field.
Kept(new, b, change) ==
    \A k \in Chunks : \A o \in Offsets(k) : Owner(k, o) \notin DOMAIN change => new[k][o] = b[k][o]
Given(new, f, v) ==
    \A k \in Chunks : \A o \in Offsets(k) : Owner(k, o) = f => new[k][o] = Value(v, k, o)

\* Patch keeps the bytes of the fields it does not change.
LEMMA UntouchedBytes ==
    ASSUME NEW b, NEW change, InRange(change)
    PROVE  Kept(Patched(b, change), b, change)
<1> DEFINE new == Patched(b, change)
<1>1. ASSUME NEW k \in Chunks, NEW o \in Offsets(k), Owner(k, o) \notin DOMAIN change
      PROVE  new[k][o] = b[k][o]
  <2>1. new[k][o] = IF Wrote(change, k, o) THEN Value(change[Owner(k, o)], k, o) ELSE b[k][o]
    BY PatchedByte
  <2>2. ~Wrote(change, k, o)
    BY <1>1, Zenon DEF Wrote
  <2> QED BY <2>1, <2>2, Zenon
<1> QED BY <1>1, Zenon DEF Kept

\* The bytes of a field that is patched.
LEMMA TouchedBytes ==
    ASSUME NEW b, NEW change, InRange(change), NEW f \in DOMAIN change, f # "station_durations"
    PROVE  Given(Patched(b, change), f, change[f])
<1> DEFINE new == Patched(b, change)
<1>1. ASSUME NEW k \in Chunks, NEW o \in Offsets(k), Owner(k, o) = f
      PROVE  new[k][o] = Value(change[f], k, o)
  <2>1. new[k][o] = IF Wrote(change, k, o) THEN Value(change[Owner(k, o)], k, o) ELSE b[k][o]
    BY PatchedByte
  <2>2. Wrote(change, k, o)
    BY <1>1, Zenon DEF Wrote
  <2> QED BY <1>1, <2>1, <2>2, Zenon
<1> QED BY <1>1, Zenon DEF Given

\* A patched program's name is the new one, or the old.
LEMMA PatchedName ==
    ASSUME NEW b, IsBlock(b), NEW change, InRange(change)
    PROVE  NameOf(Patched(b, change)) = IF "name" \in DOMAIN change THEN change["name"] ELSE NameOf(b)
<1> DEFINE new == Patched(b, change)
<1>1. /\ b[0] = [o \in Offsets(0) |-> b[0][o]] /\ b[1] = [o \in Offsets(1) |-> b[1][o]] /\ b[1][19] = 0
      /\ new[0] = [o \in Offsets(0) |-> new[0][o]] /\ new[1] = [o \in Offsets(1) |-> new[1][o]]
      /\ IsBlock(new) /\ 0 \in Chunks /\ 1 \in Chunks
  <2>1. IsBlock(new) /\ 0 \in Chunks /\ 1 \in Chunks
    BY PatchedBlock, NumbersAre, Zenon
  <2>2. \A c : IsBlock(c) => c[0] = [o \in Offsets(0) |-> c[0][o]] /\ c[1] = [o \in Offsets(1) |-> c[1][o]] /\ c[1][19] = 0
    BY <2>1 DEF IsBlock
  <2> HIDE DEF new
  <2> QED BY <2>1, <2>2, Zenon
<1>2. /\ \A o \in Offsets(0) : o \in 4 .. 19 /\ Owner(0, o) = "name"
      /\ \A o \in Offsets(1) : o \in 4 .. 19 /\ Owner(1, o) = IF o <= 18 THEN "name" ELSE "nobody"
      /\ \A o \in 4 .. 19 : o \in Offsets(0) /\ o \in Offsets(1) /\ (o <= 18 => o \in 4 .. 18)
      /\ \A o \in 4 .. 18 : o <= 18 /\ o \in Offsets(1)
  BY OffsetsAre DEF Owner
<1>3. "nobody" \notin DOMAIN change
  BY Ranges DEF Fields
<1>4. \A k \in Chunks : \A o \in Offsets(k) : Owner(k, o) \notin DOMAIN change => new[k][o] = b[k][o]
  BY UntouchedBytes, Zenon DEF Kept
<1>5. CASE "name" \notin DOMAIN change
  <2>1. (\A o \in Offsets(0) : new[0][o] = b[0][o]) /\ (\A o \in Offsets(1) : new[1][o] = b[1][o])
    <3> HIDE DEF new
    <3> QED BY <1>1, <1>2, <1>3, <1>4, <1>5
  <2> HIDE DEF new
  <2>2. new[0] = b[0]
    <3>1. [o \in Offsets(0) |-> new[0][o]] = [o \in Offsets(0) |-> b[0][o]]
      BY <2>1, Zenon
    <3> QED BY <1>1, <3>1, Zenon
  <2>3. new[1] = b[1]
    <3>1. [o \in Offsets(1) |-> new[1][o]] = [o \in Offsets(1) |-> b[1][o]]
      BY <2>1, Zenon
    <3> QED BY <1>1, <3>1, Zenon
  <2>4. NameOf(new) = NameOf(b)
    BY <2>2, <2>3, Zenon DEF NameOf
  <2> QED BY <1>5, <2>4, Zenon DEF new
<1>6. CASE "name" \in DOMAIN change
  <2> DEFINE v == change["name"]
  <2>1. v \in Seq(Byte) /\ Len(v) <= 31 /\ \A i \in DOMAIN v : v[i] # 0
    BY <1>6, Ranges, Zenon
  <2>2. \A k \in Chunks : \A o \in Offsets(k) : Owner(k, o) = "name" => new[k][o] = Value(v, k, o)
    <3>1. "name" # "station_durations"
      OBVIOUS
    <3>2. Given(new, "name", v)
      BY <1>6, <3>1, TouchedBytes
    <3> QED BY <3>2, Zenon DEF Given
  <2>3. \A o : Value(v, 0, o) = Padded(v)[o - 3] /\ Value(v, 1, o) = Padded(v)[o + 13]
    BY DEF Value
  <2> HIDE DEF v, new
  <2>4. \A o \in 4 .. 19 : new[0][o] = Padded(v)[o - 3]
    <3> TAKE o \in 4 .. 19
    <3>1. o \in Offsets(0) /\ Owner(0, o) = "name"
      BY <1>2, Zenon
    <3>2. new[0][o] = Value(v, 0, o)
      BY <1>1, <2>2, <3>1, Zenon
    <3> QED BY <2>3, <3>2, Zenon
  <2>5. \A o \in 4 .. 18 : new[1][o] = Padded(v)[o + 13]
    <3> TAKE o \in 4 .. 18
    <3>1. o \in Offsets(1) /\ Owner(1, o) = "name"
      BY <1>2, Zenon
    <3>2. new[1][o] = Value(v, 1, o)
      BY <1>1, <2>2, <3>1, Zenon
    <3> QED BY <2>3, <3>2, Zenon
  <2>6. NameBytes(new, v)
    BY <1>1, <2>4, <2>5, BlockDomains, Zenon DEF NameBytes
  <2>7. NameOf(new) = v
    BY <2>1, <2>6, NameBack, Zenon
  <2> QED BY <1>6, <2>7, Zenon DEF new, v
<1> QED BY <1>5, <1>6

\* So are its delay and its budget,
LEMMA PatchedWords ==
    ASSUME NEW b, NEW change, InRange(change)
    PROVE  LET new == Patched(b, change)
           IN  /\ Int2(new[2], 4) = IF "inter_station_delay" \in DOMAIN change
                                    THEN change["inter_station_delay"] ELSE Int2(b[2], 4)
               /\ Int2(new[2], 6) = IF "water_budget" \in DOMAIN change
                                    THEN change["water_budget"] ELSE Int2(b[2], 6)
<1> DEFINE new == Patched(b, change)
<1>1. Kept(new, b, change)
  BY UntouchedBytes
<1>2. 2 \in Chunks /\ 4 \in Offsets(2) /\ 5 \in Offsets(2) /\ 6 \in Offsets(2) /\ 7 \in Offsets(2)
  BY NumbersAre, OffsetsAre
<1>3. /\ Owner(2, 4) = "inter_station_delay" /\ Owner(2, 5) = "inter_station_delay"
      /\ Owner(2, 6) = "water_budget" /\ Owner(2, 7) = "water_budget"
  BY DEF Owner
<1>4. \A v : /\ Value(v, 2, 4) = Bytes2(v)[1] /\ Value(v, 2, 5) = Bytes2(v)[2]
             /\ Value(v, 2, 6) = Bytes2(v)[1] /\ Value(v, 2, 7) = Bytes2(v)[2]
  BY DEF Value
<1>5. 4 + 1 = 5 /\ 6 + 1 = 7
  OBVIOUS
<1>6. "inter_station_delay" \in DOMAIN change => Int2(new[2], 4) = change["inter_station_delay"]
  <2> SUFFICES ASSUME "inter_station_delay" \in DOMAIN change
               PROVE  Int2(new[2], 4) = change["inter_station_delay"]
    OBVIOUS
  <2> DEFINE v == change["inter_station_delay"]
  <2>1. v \in 0 .. MaxWord /\ "inter_station_delay" # "station_durations"
    BY Ranges, Zenon
  <2>2. new[2][4] = Value(v, 2, 4) /\ new[2][5] = Value(v, 2, 5)
    <3>1. Given(new, "inter_station_delay", v)
      BY <2>1, TouchedBytes
    <3> QED BY <1>2, <1>3, <3>1, Zenon DEF Given
  <2> HIDE DEF new, v
  <2>3. Int2(new[2], 4) = v
    BY <1>4, <1>5, <2>1, <2>2, WordBack
  <2> QED BY <2>3 DEF v
<1>7. "water_budget" \in DOMAIN change => Int2(new[2], 6) = change["water_budget"]
  <2> SUFFICES ASSUME "water_budget" \in DOMAIN change
               PROVE  Int2(new[2], 6) = change["water_budget"]
    OBVIOUS
  <2> DEFINE v == change["water_budget"]
  <2>1. v \in 0 .. MaxWord /\ "water_budget" # "station_durations"
    BY Ranges, Zenon
  <2>2. new[2][6] = Value(v, 2, 6) /\ new[2][7] = Value(v, 2, 7)
    <3>1. Given(new, "water_budget", v)
      BY <2>1, TouchedBytes
    <3> QED BY <1>2, <1>3, <3>1, Zenon DEF Given
  <2> HIDE DEF new, v
  <2>3. Int2(new[2], 6) = v
    BY <1>4, <1>5, <2>1, <2>2, WordBack
  <2> QED BY <2>3 DEF v
<1>8. "inter_station_delay" \notin DOMAIN change => new[2][4] = b[2][4] /\ new[2][5] = b[2][5]
  BY <1>1, <1>2, <1>3, Zenon DEF Kept
<1>9. "water_budget" \notin DOMAIN change => new[2][6] = b[2][6] /\ new[2][7] = b[2][7]
  BY <1>1, <1>2, <1>3, Zenon DEF Kept
<1> HIDE DEF new
<1>10. "inter_station_delay" \notin DOMAIN change => Int2(new[2], 4) = Int2(b[2], 4)
  BY <1>5, <1>8 DEF Int2
<1>11. "water_budget" \notin DOMAIN change => Int2(new[2], 6) = Int2(b[2], 6)
  BY <1>5, <1>9 DEF Int2
<1> QED BY <1>6, <1>7, <1>10, <1>11, Zenon DEF new

\* its cycle, days, period and countdown,
LEMMA PatchedBytes ==
    ASSUME NEW b, NEW change, InRange(change)
    PROVE  LET new == Patched(b, change)
           IN  /\ new[2][8] = IF "cycle" \in DOMAIN change THEN change["cycle"] ELSE b[2][8]
               /\ new[2][9] = IF "week_days" \in DOMAIN change THEN change["week_days"] ELSE b[2][9]
               /\ new[2][10] = IF "period_length" \in DOMAIN change THEN change["period_length"] ELSE b[2][10]
               /\ new[2][11] = IF "synchro_day" \in DOMAIN change THEN change["synchro_day"] ELSE b[2][11]
<1> DEFINE new == Patched(b, change)
<1>1. Kept(new, b, change)
  BY UntouchedBytes
<1>2. 2 \in Chunks /\ 8 \in Offsets(2) /\ 9 \in Offsets(2) /\ 10 \in Offsets(2) /\ 11 \in Offsets(2)
  BY NumbersAre, OffsetsAre
<1>3. /\ Owner(2, 8) = "cycle" /\ Owner(2, 9) = "week_days"
      /\ Owner(2, 10) = "period_length" /\ Owner(2, 11) = "synchro_day"
  BY DEF Owner
<1>4. \A v : Value(v, 2, 8) = v /\ Value(v, 2, 9) = v /\ Value(v, 2, 10) = v /\ Value(v, 2, 11) = v
  BY DEF Value
<1>5. /\ "cycle" # "station_durations" /\ "week_days" # "station_durations"
      /\ "period_length" # "station_durations" /\ "synchro_day" # "station_durations"
  OBVIOUS
<1>6. new[2][8] = IF "cycle" \in DOMAIN change THEN change["cycle"] ELSE b[2][8]
  <2>1. "cycle" \in DOMAIN change => Given(new, "cycle", change["cycle"])
    BY <1>5, TouchedBytes
  <2>2. "cycle" \in DOMAIN change => new[2][8] = Value(change["cycle"], 2, 8)
    BY <1>2, <1>3, <2>1, Zenon DEF Given
  <2>3. "cycle" \notin DOMAIN change => new[2][8] = b[2][8]
    BY <1>1, <1>2, <1>3, Zenon DEF Kept
  <2> QED BY <1>4, <2>2, <2>3, Zenon
<1>7. new[2][9] = IF "week_days" \in DOMAIN change THEN change["week_days"] ELSE b[2][9]
  <2>1. "week_days" \in DOMAIN change => Given(new, "week_days", change["week_days"])
    BY <1>5, TouchedBytes
  <2>2. "week_days" \in DOMAIN change => new[2][9] = Value(change["week_days"], 2, 9)
    BY <1>2, <1>3, <2>1, Zenon DEF Given
  <2>3. "week_days" \notin DOMAIN change => new[2][9] = b[2][9]
    BY <1>1, <1>2, <1>3, Zenon DEF Kept
  <2> QED BY <1>4, <2>2, <2>3, Zenon
<1>8. new[2][10] = IF "period_length" \in DOMAIN change THEN change["period_length"] ELSE b[2][10]
  <2>1. "period_length" \in DOMAIN change => Given(new, "period_length", change["period_length"])
    BY <1>5, TouchedBytes
  <2>2. "period_length" \in DOMAIN change => new[2][10] = Value(change["period_length"], 2, 10)
    BY <1>2, <1>3, <2>1, Zenon DEF Given
  <2>3. "period_length" \notin DOMAIN change => new[2][10] = b[2][10]
    BY <1>1, <1>2, <1>3, Zenon DEF Kept
  <2> QED BY <1>4, <2>2, <2>3, Zenon
<1>9. new[2][11] = IF "synchro_day" \in DOMAIN change THEN change["synchro_day"] ELSE b[2][11]
  <2>1. "synchro_day" \in DOMAIN change => Given(new, "synchro_day", change["synchro_day"])
    BY <1>5, TouchedBytes
  <2>2. "synchro_day" \in DOMAIN change => new[2][11] = Value(change["synchro_day"], 2, 11)
    BY <1>2, <1>3, <2>1, Zenon DEF Given
  <2>3. "synchro_day" \notin DOMAIN change => new[2][11] = b[2][11]
    BY <1>1, <1>2, <1>3, Zenon DEF Kept
  <2> QED BY <1>4, <2>2, <2>3, Zenon
<1> QED BY <1>6, <1>7, <1>8, <1>9, Zenon

\* The bytes of the header that no field owns are kept.
LEMMA NobodysBytes ==
    ASSUME NEW b, NEW change, InRange(change)
    PROVE  \A o \in 12 .. 15 : Patched(b, change)[2][o] = b[2][o]
<1>1. 2 \in Chunks /\ \A o \in 12 .. 15 : o \in Offsets(2) /\ Owner(2, o) = "nobody"
  BY NumbersAre, OffsetsAre DEF Owner
<1>2. "nobody" \notin DOMAIN change
  BY Ranges DEF Fields
<1>3. Kept(Patched(b, change), b, change)
  BY UntouchedBytes
<1> QED BY <1>1, <1>2, <1>3, Zenon DEF Kept

\* its start times,
LEMMA PatchedStart ==
    ASSUME NEW b, NEW change, InRange(change), NEW s \in 0 .. 7
    PROVE  StartTime(Patched(b, change), s) =
              IF "start_times" \in DOMAIN change THEN change["start_times"][s + 1] ELSE StartTime(b, s)
<1> DEFINE new == Patched(b, change)
           o == 4 + 2 * s
           u == o + 1
<1>1. Kept(new, b, change)
  BY UntouchedBytes
<1>2. o = 4 + 2 * s /\ u = o + 1
  OBVIOUS
<1> HIDE DEF o, u
<1>3. /\ o \in Offsets(3) /\ u \in Offsets(3) /\ s + 1 \in 1 .. 8
      /\ (o - 2) \div 2 = s + 1 /\ (u - 2) \div 2 = s + 1
      /\ ((o - 4) % 2) + 1 = 1 /\ ((u - 4) % 2) + 1 = 2
  BY <1>2, OffsetsAre
<1>4. 3 \in Chunks /\ \A j : Owner(3, j) = "start_times"
  BY NumbersAre DEF Owner
<1>5. \A v, j : Value(v, 3, j) = Bytes2(StartOf(v, (j - 2) \div 2))[((j - 4) % 2) + 1]
  BY DEF Value
<1>6. CASE "start_times" \in DOMAIN change
  <2> DEFINE v == change["start_times"]
             m == v[s + 1]
             w == StartOf(v, s + 1)
  <2>1. "start_times" # "station_durations"
    OBVIOUS
  <2>2. new[3][o] = Value(v, 3, o) /\ new[3][u] = Value(v, 3, u)
    <3>1. Given(new, "start_times", v)
      BY <1>6, <2>1, TouchedBytes
    <3> QED BY <1>3, <1>4, <3>1, Zenon DEF Given
  <2>3. m \in {None} \cup (0 .. Disabled - 1)
    BY <1>3, <1>6, Ranges, Zenon
  <2>4. w = IF m = None THEN Disabled ELSE m
    BY Zenon DEF StartOf
  <2>5. Value(v, 3, o) = Bytes2(w)[1] /\ Value(v, 3, u) = Bytes2(w)[2]
    <3> HIDE DEF new, v
    <3>1. /\ Value(v, 3, o) = Bytes2(StartOf(v, (o - 2) \div 2))[((o - 4) % 2) + 1]
          /\ Value(v, 3, u) = Bytes2(StartOf(v, (u - 2) \div 2))[((u - 4) % 2) + 1]
      BY <1>5, Zenon
    <3> QED BY <1>3, <3>1, Zenon
  <2> HIDE DEF new, v, m, w
  <2>6. new[3][o] = Bytes2(w)[1] /\ new[3][u] = Bytes2(w)[2]
    BY <2>2, <2>5, Zenon
  <2>7. StartTime(new, s) = m
    BY <2>3, <2>4, <2>6, StartBack, Zenon DEF o, u
  <2> QED BY <1>6, <2>7, Zenon DEF new, m, v
<1>7. CASE "start_times" \notin DOMAIN change
  <2>1. new[3][o] = b[3][o] /\ new[3][u] = b[3][u]
    BY <1>1, <1>3, <1>4, <1>7, Zenon DEF Kept
  <2> HIDE DEF new
  <2>2. Int2(new[3], o) = Int2(b[3], o)
    BY <2>1, Zenon DEF Int2, u
  <2>3. StartTime(new, s) = StartTime(b, s)
    BY <2>2, Zenon DEF StartTime, o
  <2> QED BY <1>7, <2>3, Zenon DEF new
<1> QED BY <1>6, <1>7

\* and its durations, station by station.
LEMMA PatchedDuration ==
    ASSUME NEW b, NEW change, InRange(change), NEW t \in 0 .. 11
    PROVE  Duration(Patched(b, change), t) =
              IF "station_durations" \in DOMAIN change /\ t + 1 \in DOMAIN change["station_durations"]
              THEN change["station_durations"][t + 1] ELSE Duration(b, t)
<1> DEFINE new == Patched(b, change)
<1>1. PICK k \in 4 .. 6 : \E o \in Offsets(k) :
              /\ o + 1 \in Offsets(k) /\ o + 2 \in Offsets(k) /\ o \in Int
              /\ Station(k, o) = t + 1 /\ Station(k, o + 1) = t + 1 /\ Station(k, o + 2) = t + 1
              /\ ((o - 4) % 3) + 1 = 1 /\ ((o + 1 - 4) % 3) + 1 = 2 /\ ((o + 2 - 4) % 3) + 1 = 3
              /\ \A c : Duration(c, t) = Int3(c[k], o)
  BY DurationAt, Zenon
<1>2. PICK o \in Offsets(k) :
              /\ o + 1 \in Offsets(k) /\ o + 2 \in Offsets(k) /\ o \in Int
              /\ Station(k, o) = t + 1 /\ Station(k, o + 1) = t + 1 /\ Station(k, o + 2) = t + 1
              /\ ((o - 4) % 3) + 1 = 1 /\ ((o + 1 - 4) % 3) + 1 = 2 /\ ((o + 2 - 4) % 3) + 1 = 3
              /\ \A c : Duration(c, t) = Int3(c[k], o)
  BY <1>1, Zenon
<1>3. k \in Chunks /\ \A j : Owner(k, j) = "station_durations"
  BY DEF Owner, Chunks
<1>4. \A v, j : Value(v, k, j) = Bytes3(v[Station(k, j)])[((j - 4) % 3) + 1]
  BY DEF Value
<1>5. \A j \in Offsets(k) : Station(k, j) = t + 1 =>
        new[k][j] = IF "station_durations" \in DOMAIN change /\ t + 1 \in DOMAIN change["station_durations"]
                    THEN Value(change["station_durations"], k, j) ELSE b[k][j]
  <2> TAKE j \in Offsets(k)
  <2> HAVE Station(k, j) = t + 1
  <2>1. new[k][j] = IF Wrote(change, k, j) THEN Value(change[Owner(k, j)], k, j) ELSE b[k][j]
    BY <1>3, PatchedByte
  <2>2. Owner(k, j) = "station_durations"
    BY <1>3, Zenon
  <2>3. Wrote(change, k, j) <=>
           "station_durations" \in DOMAIN change /\ t + 1 \in DOMAIN change["station_durations"]
    BY <2>2, Zenon DEF Wrote
  <2> HIDE DEF new
  <2> QED BY <2>1, <2>2, <2>3, Zenon
<1>6. CASE "station_durations" \in DOMAIN change /\ t + 1 \in DOMAIN change["station_durations"]
  <2> DEFINE v == change["station_durations"]
             m == v[t + 1]
             c == new[k]
  <2>1. m \in 0 .. MaxDuration
    BY <1>6, Ranges, Zenon
  <2>2. c[o] = Value(v, k, o) /\ c[o + 1] = Value(v, k, o + 1) /\ c[o + 2] = Value(v, k, o + 2)
    BY <1>2, <1>5, <1>6, Zenon
  <2> HIDE DEF c, new
  <2>3. Value(v, k, o) = Bytes3(m)[1] /\ Value(v, k, o + 1) = Bytes3(m)[2] /\ Value(v, k, o + 2) = Bytes3(m)[3]
    <3> HIDE DEF v
    <3> QED BY <1>2, <1>4
  <2> HIDE DEF v, m
  <2>4. c[o] = Bytes3(m)[1] /\ c[o + 1] = Bytes3(m)[2] /\ c[o + 2] = Bytes3(m)[3]
    BY <2>2, <2>3, Zenon
  <2>5. Int3(c, o) = m
    BY <1>2, <2>1, <2>4, LongBack
  <2> QED BY <1>2, <1>6, <2>5, Zenon DEF c, new, m, v
<1>7. CASE ~("station_durations" \in DOMAIN change /\ t + 1 \in DOMAIN change["station_durations"])
  <2>1. new[k][o] = b[k][o] /\ new[k][o + 1] = b[k][o + 1] /\ new[k][o + 2] = b[k][o + 2]
    BY <1>2, <1>5, <1>7, Zenon
  <2> HIDE DEF new
  <2>2. Int3(new[k], o) = Int3(b[k], o)
    <3> DEFINE c == new[k]
               d == b[k]
    <3>1. c[o] = d[o] /\ c[o + 1] = d[o + 1] /\ c[o + 2] = d[o + 2]
      BY <2>1
    <3> HIDE DEF c, d
    <3>2. /\ Int3(c, o) = 65536 * c[o] + (256 * c[o + 1] + c[o + 2])
          /\ Int3(d, o) = 65536 * d[o] + (256 * d[o + 1] + d[o + 2])
      BY <1>2, LongIs
    <3>3. Int3(c, o) = Int3(d, o)
      BY <3>1, <3>2
    <3> QED BY <3>3, Zenon DEF c, d
  <2> QED BY <1>2, <1>7, <2>2, Zenon DEF new
<1> QED BY <1>6, <1>7

\* The fields of what is decoded.
LEMMA DecodedFields ==
    ASSUME NEW b
    PROVE  LET d == Decoded(b)
           IN  /\ d = [f \in Fields |-> d[f]] /\ DOMAIN d = Fields
               /\ d["name"] = NameOf(b) /\ d["inter_station_delay"] = Int2(b[2], 4)
               /\ d["water_budget"] = Int2(b[2], 6) /\ d["cycle"] = b[2][8]
               /\ d["week_days"] = b[2][9] /\ d["period_length"] = b[2][10]
               /\ d["synchro_day"] = b[2][11]
               /\ d["start_times"] = [s \in 0 .. 7 |-> StartTime(b, s)]
               /\ d["station_durations"] = [t \in 0 .. 11 |-> Duration(b, t)]
<1> DEFINE d == Decoded(b)
           name == NameOf(b)
           starts == [s \in 0 .. 7 |-> StartTime(b, s)]
           durations == [t \in 0 .. 11 |-> Duration(b, t)]
           delay == Int2(b[2], 4)
           budget == Int2(b[2], 6)
<1>1. d = [name |-> name, inter_station_delay |-> delay,
           water_budget |-> budget, cycle |-> b[2][8], week_days |-> b[2][9],
           period_length |-> b[2][10], synchro_day |-> b[2][11],
           start_times |-> starts, station_durations |-> durations]
  BY DecodedIs, Zenon
<1>2. d = [f \in Fields |-> d[f]]
  BY DecodedIs, Zenon
<1> HIDE DEF d, name, starts, durations, delay, budget
<1>3. DOMAIN d = Fields
  BY <1>2
<1>4. /\ d["name"] = name /\ d["inter_station_delay"] = delay
      /\ d["water_budget"] = budget /\ d["cycle"] = b[2][8]
      /\ d["week_days"] = b[2][9] /\ d["period_length"] = b[2][10]
      /\ d["synchro_day"] = b[2][11]
      /\ d["start_times"] = starts /\ d["station_durations"] = durations
  BY <1>1
<1> QED BY <1>2, <1>3, <1>4, Zenon DEF d, name, starts, durations, delay, budget

\* A patched program reads back as the old one with the change in it.
LEMMA PatchReads ==
    ASSUME NEW b, IsBlock(b), NEW change, InRange(change)
    PROVE  Decoded(Patched(b, change)) = Changed(Decoded(b), change)
<1> DEFINE new == Patched(b, change)
           d   == Decoded(b)
           e   == Decoded(new)
           x   == DOMAIN change
           value(f) ==
               IF f \notin x THEN d[f]
               ELSE IF f = "start_times" THEN [s \in 0 .. 7 |-> change[f][s + 1]]
               ELSE IF f = "station_durations"
                    THEN [t \in 0 .. 11 |-> IF t + 1 \in DOMAIN change[f] THEN change[f][t + 1] ELSE d[f][t]]
               ELSE change[f]
<1>1. /\ e = [f \in Fields |-> e[f]] /\ e["name"] = NameOf(new)
      /\ e["inter_station_delay"] = Int2(new[2], 4) /\ e["water_budget"] = Int2(new[2], 6)
      /\ e["cycle"] = new[2][8] /\ e["week_days"] = new[2][9] /\ e["period_length"] = new[2][10]
      /\ e["synchro_day"] = new[2][11]
      /\ e["start_times"] = [s \in 0 .. 7 |-> StartTime(new, s)]
      /\ e["station_durations"] = [t \in 0 .. 11 |-> Duration(new, t)]
  BY DecodedFields, Zenon
<1>2. /\ DOMAIN d = Fields /\ d["name"] = NameOf(b)
      /\ d["inter_station_delay"] = Int2(b[2], 4) /\ d["water_budget"] = Int2(b[2], 6)
      /\ d["cycle"] = b[2][8] /\ d["week_days"] = b[2][9] /\ d["period_length"] = b[2][10]
      /\ d["synchro_day"] = b[2][11]
      /\ d["start_times"] = [s \in 0 .. 7 |-> StartTime(b, s)]
      /\ d["station_durations"] = [t \in 0 .. 11 |-> Duration(b, t)]
  BY DecodedFields, Zenon
<1>3. Changed(d, change) = [f \in DOMAIN d |-> value(f)]
  BY Zenon DEF Changed
<1>4. NameOf(new) = IF "name" \in x THEN change["name"] ELSE NameOf(b)
  BY PatchedName, Zenon
<1>5. /\ Int2(new[2], 4) = IF "inter_station_delay" \in x THEN change["inter_station_delay"] ELSE Int2(b[2], 4)
      /\ Int2(new[2], 6) = IF "water_budget" \in x THEN change["water_budget"] ELSE Int2(b[2], 6)
  BY PatchedWords, Zenon
<1>6. /\ new[2][8] = IF "cycle" \in x THEN change["cycle"] ELSE b[2][8]
      /\ new[2][9] = IF "week_days" \in x THEN change["week_days"] ELSE b[2][9]
      /\ new[2][10] = IF "period_length" \in x THEN change["period_length"] ELSE b[2][10]
      /\ new[2][11] = IF "synchro_day" \in x THEN change["synchro_day"] ELSE b[2][11]
  BY PatchedBytes
<1>7. \A s \in 0 .. 7 : StartTime(new, s) =
          IF "start_times" \in x THEN change["start_times"][s + 1] ELSE StartTime(b, s)
  BY PatchedStart, Zenon
<1>8. \A t \in 0 .. 11 : Duration(new, t) =
          IF "station_durations" \in x /\ t + 1 \in DOMAIN change["station_durations"]
          THEN change["station_durations"][t + 1] ELSE Duration(b, t)
  BY PatchedDuration, Zenon
<1> HIDE DEF new, d, e, x
<1>9. ASSUME NEW f \in Fields, f # "start_times", f # "station_durations"
      PROVE  e[f] = value(f)
  <2>1. value(f) = IF f \notin x THEN d[f] ELSE change[f]
    BY <1>9, Zenon
  <2> HIDE DEF value
  <2>2. f \in {"name", "inter_station_delay", "water_budget", "cycle", "week_days", "period_length", "synchro_day"}
    BY <1>9, Zenon DEF Fields
  <2> DEFINE same(g) == e[g] = IF g \notin x THEN d[g] ELSE change[g]
  <2>3. same("name")
    BY <1>1, <1>2, <1>4, Zenon
  <2>4. same("inter_station_delay") /\ same("water_budget")
    BY <1>1, <1>2, <1>5, Zenon
  <2>5. same("cycle") /\ same("week_days")
    BY <1>1, <1>2, <1>6, Zenon
  <2>6. same("period_length") /\ same("synchro_day")
    BY <1>1, <1>2, <1>6, Zenon
  <2> HIDE DEF same
  <2>7. same(f)
    BY <2>2, <2>3, <2>4, <2>5, <2>6, Zenon
  <2> QED BY <2>1, <2>7 DEF same
<1>10. e["start_times"] = value("start_times")
  <2>1. CASE "start_times" \in x
    <3>1. value("start_times") = [s \in 0 .. 7 |-> change["start_times"][s + 1]]
      BY <2>1, Zenon
    <3> HIDE DEF value
    <3>2. \A s \in 0 .. 7 : StartTime(new, s) = change["start_times"][s + 1]
      BY <1>7, <2>1, Zenon
    <3>3. e["start_times"] = [s \in 0 .. 7 |-> change["start_times"][s + 1]]
      BY <1>1, <3>2, Zenon
    <3> QED BY <3>1, <3>3, Zenon
  <2>2. CASE "start_times" \notin x
    <3>1. value("start_times") = d["start_times"]
      BY <2>2, Zenon
    <3> HIDE DEF value
    <3>2. \A s \in 0 .. 7 : StartTime(new, s) = StartTime(b, s)
      BY <1>7, <2>2, Zenon
    <3>3. e["start_times"] = [s \in 0 .. 7 |-> StartTime(b, s)]
      BY <1>1, <3>2, Zenon
    <3> QED BY <1>2, <3>1, <3>3, Zenon
  <2> QED BY <2>1, <2>2, Zenon
<1>11. e["station_durations"] = value("station_durations")
  <2> DEFINE g == change["station_durations"]
             h == d["station_durations"]
  <2>1. CASE "station_durations" \in x
    <3>1. value("station_durations") = [t \in 0 .. 11 |-> IF t + 1 \in DOMAIN g THEN g[t + 1] ELSE h[t]]
      <4>1. "station_durations" # "start_times"
        OBVIOUS
      <4> QED BY <2>1, <4>1, Zenon
    <3> HIDE DEF value
    <3>2. \A t \in 0 .. 11 : h[t] = Duration(b, t)
      BY <1>2
    <3>3. \A t \in 0 .. 11 : Duration(new, t) = IF t + 1 \in DOMAIN g THEN g[t + 1] ELSE h[t]
      <4> TAKE t \in 0 .. 11
      <4>1. h[t] = Duration(b, t)
        BY <3>2, Zenon
      <4>2. Duration(new, t) = IF "station_durations" \in x /\ t + 1 \in DOMAIN g THEN g[t + 1] ELSE Duration(b, t)
        BY <1>8, Zenon
      <4> HIDE DEF g, h
      <4> QED BY <2>1, <4>1, <4>2, Zenon
    <3>4. e["station_durations"] = [t \in 0 .. 11 |-> IF t + 1 \in DOMAIN g THEN g[t + 1] ELSE h[t]]
      <4> HIDE DEF g, h
      <4> QED BY <1>1, <3>3, Zenon
    <3> QED BY <3>1, <3>4, Zenon
  <2>2. CASE "station_durations" \notin x
    <3>1. value("station_durations") = d["station_durations"]
      BY <2>2, Zenon
    <3> HIDE DEF value
    <3>2. \A t \in 0 .. 11 : Duration(new, t) = Duration(b, t)
      BY <1>8, <2>2, Zenon
    <3>3. e["station_durations"] = [t \in 0 .. 11 |-> Duration(b, t)]
      BY <1>1, <3>2, Zenon
    <3> QED BY <1>2, <3>1, <3>3, Zenon
  <2> QED BY <2>1, <2>2, Zenon
<1> HIDE DEF value
<1>12. \A f \in Fields : e[f] = value(f)
  BY <1>9, <1>10, <1>11, Zenon
<1>13. [f \in Fields |-> e[f]] = [f \in Fields |-> value(f)]
  BY <1>12, Zenon
<1>14. e = Changed(d, change)
  BY <1>1, <1>2, <1>3, <1>13, Zenon
<1> QED BY <1>14, Zenon DEF e, d, new

-----------------------------------------------------------------------------
(* A patch is accepted over its own base. *)

\* A snapshot with one program replaced.
Replaced(s, slot, new) == [s EXCEPT !.blocks[slot] = new]

\* Only that program has changed in it.
LEMMA ReplacedIs ==
    ASSUME NEW s, IsSnapshot(s), NEW slot \in Programs, NEW new
    PROVE  LET x == Replaced(s, slot, new)
           IN  /\ x.extras = s.extras /\ x.blocks[slot] = new
               /\ \A p \in Programs : p # slot => x.blocks[p] = s.blocks[p]
<1> DEFINE x == Replaced(s, slot, new)
           blocks == s.blocks
           extras == s.extras
<1>1. s = [blocks |-> blocks, extras |-> extras] /\ blocks = [p \in Programs |-> blocks[p]]
  BY Zenon DEF IsSnapshot
<1>2. slot \in DOMAIN blocks
  <2> HIDE DEF blocks
  <2> QED BY <1>1
<1>3. x = [s EXCEPT !.blocks = [blocks EXCEPT ![slot] = new]]
  BY Zenon DEF Replaced
<1> DEFINE other == [blocks EXCEPT ![slot] = new]
<1>4. x = [blocks |-> other, extras |-> extras]
  <2> HIDE DEF blocks, extras, other
  <2>1. [[blocks |-> blocks, extras |-> extras] EXCEPT !.blocks = other] = [blocks |-> other, extras |-> extras]
    OBVIOUS
  <2> QED BY <1>1, <1>3, <2>1 DEF other
<1>5. other[slot] = new /\ \A p \in Programs : p # slot => other[p] = blocks[p]
  <2> HIDE DEF blocks
  <2> QED BY <1>1, <1>2
<1>6. x.extras = extras /\ x.blocks = other
  <2> HIDE DEF other, extras, x
  <2> QED BY <1>4
<1> QED BY <1>5, <1>6, Zenon

\* The chunks of a snapshot: those of the programs, and of the hidden slots.
RankIn(e, f)     == Cardinality({g \in {h \in e : h.slot = f.slot} : g.id > f.id})
KeysIn(e)        == {<<f.slot, RankIn(e, f)>> : f \in e}
ChunkIn(e, key)  == (CHOOSE f \in {h \in e : h.slot = key[1]} : RankIn(e, f) = key[2]).body
IsKeyed(keyed, blocks, e) ==
    /\ DOMAIN keyed = (Programs \X Chunks) \cup KeysIn(e)
    /\ \A key \in (Programs \X Chunks) \cup KeysIn(e) :
          keyed[key] = IF key[1] \in Programs THEN blocks[key[1]][key[2]] ELSE ChunkIn(e, key)

\* The chunks of a snapshot by their keys.
LEMMA KeyedIs == ASSUME NEW s PROVE IsKeyed(Keyed(s), s.blocks, s.extras)
<1> DEFINE D == (Programs \X Chunks) \cup KeysIn(s.extras)
           value(key) == IF key[1] \in Programs THEN s.blocks[key[1]][key[2]] ELSE ChunkIn(s.extras, key)
<1>1. Keyed(s) = [key \in D |-> value(key)]
  BY DEF Keyed, KeysIn, ChunkIn, RankIn, Rank, Own
<1> HIDE DEF D, value
<1>2. DOMAIN Keyed(s) = D /\ \A key \in D : Keyed(s)[key] = value(key)
  BY <1>1
<1> QED BY <1>2, Zenon DEF D, value, IsKeyed

\* The keys of the hidden slots' chunks are no program's.
LEMMA HiddenKey ==
    ASSUME NEW s, IsSnapshot(s), NEW key \in KeysIn(s.extras)
    PROVE  key[1] \notin Programs
<1>1. PICK f \in s.extras : key = <<f.slot, RankIn(s.extras, f)>>
  BY Zenon DEF KeysIn
<1>2. f.slot \in Hidden
  BY Zenon DEF IsSnapshot
<1>3. key[1] = f.slot
  BY <1>1
<1> QED BY <1>2, <1>3, SlotsAre

\* The frames of a patch, and what it expects, are accepted over its base.
LEMMA PatchValid ==
    ASSUME NEW s, IsSnapshot(s), NEW slot \in Programs, NEW new, IsBlock(new)
    PROVE  ValidExpected(s, Frames(slot, new), Replaced(s, slot, new))
<1> DEFINE x == Replaced(s, slot, new)
           F == Frames(slot, new)
           D == (Programs \X Chunks) \cup KeysIn(s.extras)
           now == Keyed(s)
           then == Keyed(x)
           at(i) == <<F[i].slot, ChunkOf(F[i])>>
           For(key) == {i \in DOMAIN F : at(i) = key}
<1>1. /\ x.extras = s.extras /\ x.blocks[slot] = new
      /\ \A p \in Programs : p # slot => x.blocks[p] = s.blocks[p]
  BY ReplacedIs
<1>2. /\ DOMAIN now = D
      /\ \A key \in D : now[key] =
            IF key[1] \in Programs THEN s.blocks[key[1]][key[2]] ELSE ChunkIn(s.extras, key)
  <2>1. IsKeyed(now, s.blocks, s.extras)
    BY KeyedIs
  <2> HIDE DEF now
  <2> QED BY <2>1 DEF IsKeyed
<1>3. /\ DOMAIN then = D
      /\ \A key \in D : then[key] =
            IF key[1] \in Programs THEN x.blocks[key[1]][key[2]] ELSE ChunkIn(s.extras, key)
  <2>1. IsKeyed(then, x.blocks, s.extras)
    BY <1>1, KeyedIs, Zenon
  <2> HIDE DEF then, x
  <2> QED BY <2>1 DEF IsKeyed
<1>4. DOMAIN F = 1 .. 7 /\ \A i \in 1 .. 7 : at(i) = <<slot, i - 1>> /\ F[i].body = new[i - 1]
  <2>1. /\ IsTransfer(F, 7) /\ \A i \in 1 .. 7 : F[i].body = new[i - 1]
        /\ \A i \in 1 .. 7 : \A t, k : Aim(F, i, t, k) <=> t = slot /\ k = i - 1
    BY FramesTransfer, SlotsAre
  <2>2. DOMAIN F = 1 .. 7
    <3> HIDE DEF F
    <3>1. F = [i \in 1 .. 7 |-> F[i]]
      BY <2>1, Zenon DEF IsTransfer
    <3> QED BY <3>1, Zenon
  <2> HIDE DEF F
  <2>3. \A i \in 1 .. 7 : F[i].slot = slot /\ ChunkOf(F[i]) = i - 1
    BY <2>1, Zenon DEF Aim
  <2> QED BY <2>1, <2>2, <2>3, Zenon
<1>5. \A i \in DOMAIN F : at(i) \in D
  <2>1. \A i \in 1 .. 7 : i - 1 \in Chunks
    BY DEF Chunks
  <2> HIDE DEF F, at
  <2>2. \A i \in 1 .. 7 : <<slot, i - 1>> \in Programs \X Chunks
    BY <2>1
  <2> QED BY <1>4, <2>2, Zenon
<1> HIDE DEF x, F, now, then
<1>6. ASSUME NEW key \in D
      PROVE  then[key] = IF For(key) = {} THEN now[key] ELSE F[Max(For(key))].body
  <2>1. CASE \E k \in Chunks : key = <<slot, k>>
    <3>1. PICK k \in Chunks : key = <<slot, k>>
      BY <2>1
    <3> DEFINE i == k + 1
    <3>2. i \in 1 .. 7 /\ i - 1 = k /\ i \in Int /\ \A j \in 1 .. 7 : j - 1 = k => j = i
      BY DEF Chunks
    <3> HIDE DEF i
    <3>3. \A j \in 1 .. 7 : at(j) = key <=> j = i
      <4> HIDE DEF at
      <4>1. \A j \in 1 .. 7 : at(j) = <<slot, j - 1>>
        BY <1>4, Zenon
      <4>2. \A j \in 1 .. 7 : <<slot, j - 1>> = <<slot, k>> <=> j - 1 = k
        OBVIOUS
      <4> QED BY <3>1, <3>2, <4>1, <4>2, Zenon
    <3>4. For(key) = {i}
      <4> HIDE DEF at
      <4>1. \A j : j \in For(key) <=> j \in 1 .. 7 /\ at(j) = key
        BY <1>4
      <4> HIDE DEF For
      <4> QED BY <3>2, <3>3, <4>1
    <3>5. Max(For(key)) = i /\ For(key) # {}
      BY <3>2, <3>4, MaxOfOne, Zenon
    <3>6. F[i].body = new[k]
      BY <1>4, <3>2, Zenon
    <3>7. key[1] = slot /\ key[2] = k
      BY <3>1
    <3>8. then[key] = new[k]
      BY <1>1, <1>3, <3>7, Zenon
    <3> HIDE DEF For
    <3> QED BY <3>5, <3>6, <3>8, Zenon
  <2>2. CASE ~ \E k \in Chunks : key = <<slot, k>>
    <3>1. For(key) = {}
      <4>1. ASSUME NEW j \in DOMAIN F, at(j) = key PROVE FALSE
        <5> HIDE DEF at
        <5>1. key = <<slot, j - 1>> /\ j - 1 \in Chunks
          BY <1>4, <4>1 DEF Chunks
        <5> QED BY <2>2, <5>1, Zenon
      <4> HIDE DEF at
      <4> QED BY <4>1
    <3>2. then[key] = now[key]
      <4>1. CASE key[1] \in Programs
        <5>1. key \in Programs \X Chunks
          BY <4>1, HiddenKey
        <5>2. key = <<key[1], key[2]>> /\ key[2] \in Chunks
          BY <5>1
        <5>3. key[1] # slot
          BY <2>2, <5>2, Zenon
        <5>4. x.blocks[key[1]] = s.blocks[key[1]]
          BY <1>1, <4>1, <5>3, Zenon
        <5> QED BY <1>2, <1>3, <4>1, <5>4, Zenon
      <4>2. CASE key[1] \notin Programs
        BY <1>2, <1>3, <4>2, Zenon
      <4> QED BY <4>1, <4>2
    <3> HIDE DEF For
    <3> QED BY <3>1, <3>2, Zenon
  <2> QED BY <2>1, <2>2
<1> HIDE DEF D
<1>7. ValidExpected(s, F, x)
  BY <1>2, <1>3, <1>5, <1>6, Zenon DEF ValidExpected, now, then
<1> QED BY <1>7, Zenon DEF F, x

\* What a patch prepares is exact.
LEMMA PatchExact ==
    ASSUME NEW j, IsPatch(j)
    PROVE  LET old == j.base.blocks[j.slot]
               new == j.expected.blocks[j.slot]
           IN  /\ Decoded(new) = Changed(Decoded(old), j.change)
               /\ \A o \in 12 .. 15 : new[Header][o] = old[Header][o]
               /\ j.expected = [j.base EXCEPT !.blocks[j.slot] = new]
               /\ ValidExpected(j.base, j.frames, j.expected)
<1> DEFINE old == j.base.blocks[j.slot]
           new == Patched(old, j.change)
           x   == Replaced(j.base, j.slot, new)
<1>1. /\ IsSnapshot(j.base) /\ j.slot \in Programs /\ IsBlock(old) /\ InRange(j.change)
      /\ j.frames = Frames(j.slot, new) /\ j.expected = x
  BY Zenon DEF IsPatch, IsSnapshot, Replaced
<1>2. x.blocks[j.slot] = new
  BY <1>1, ReplacedIs
<1>3. IsBlock(new) /\ Decoded(new) = Changed(Decoded(old), j.change)
  BY <1>1, PatchedBlock, PatchReads, Zenon
<1>4. \A o \in 12 .. 15 : new[Header][o] = old[Header][o]
  <2>1. \A o \in 12 .. 15 : new[2][o] = old[2][o]
    BY <1>1, NobodysBytes, Zenon
  <2>2. Header = 2
    BY NumbersAre, Zenon
  <2> HIDE DEF new, old
  <2> QED BY <2>1, <2>2, Zenon
<1>5. ValidExpected(j.base, Frames(j.slot, new), x)
  BY <1>1, <1>3, PatchValid, Zenon
<1>6. j.expected.blocks[j.slot] = new /\ ValidExpected(j.base, j.frames, j.expected)
  <2> HIDE DEF new, x
  <2> QED BY <1>1, <1>2, <1>5, Zenon
<1>7. j.expected = [j.base EXCEPT !.blocks[j.slot] = new]
  BY <1>1, Zenon DEF Replaced
<1> QED BY <1>3, <1>4, <1>6, <1>7, Zenon

\* EditExact follows from the inductive invariant and the verdicts there may be.
LEMMA ExactFollows == IInv /\ verdict # "mismatch" => EditExact
<1> SUFFICES ASSUME IInv, verdict # "mismatch", job.kind = "patch" PROVE EditExact
  BY Zenon DEF EditExact
<1>1. job # NoJob
  BY DEF NoJob
<1>2. job.kind # "restore"
  OBVIOUS
<1>3. IsPatch(job)
  BY <1>1, <1>2, Zenon DEF IInv, Jobs, IsRestore
<1> QED BY <1>3, PatchExact, Zenon DEF EditExact

\* No step makes a program read back differently from what was asked.
LEMMA StepMatches ==
    ASSUME NoNul, IInv, verdict # "mismatch", [Next]_vars
    PROVE  verdict' # "mismatch"
<1>1. "none" # "mismatch" /\ "confirmed" # "mismatch" /\ "uncertain" # "mismatch" /\ "refused" # "mismatch"
  OBVIOUS
<1>2. CASE Read
  BY <1>1, <1>2, Zenon DEF Read
<1>3. CASE Keep
  BY <1>1, <1>3, Zenon DEF Keep
<1>4. CASE Restore
  BY <1>1, <1>4, Zenon DEF Restore
<1>5. CASE Commit
  <2>1. verdict' = "refused" \/ verdict' \in {"confirmed", "uncertain"}
    BY <1>5, CommitParts, Zenon
  <2> QED BY <1>1, <2>1, Zenon
<1>6. CASE Midnight
  BY <1>1, <1>6, Zenon DEF Midnight
<1>7. ASSUME NEW p \in Programs, Reload(p) PROVE verdict' # "mismatch"
  BY <1>1, <1>7, Zenon DEF Reload
<1>8. ASSUME NEW p \in Programs, NEW change \in Changes, Patch(p, change) PROVE verdict' # "mismatch"
  BY <1>1, <1>8, Zenon DEF Patch
<1>9. ASSUME NEW p \in Programs, NEW r \in Requests, Set(p, r) PROVE verdict' # "mismatch"
  BY <1>9, SetMatches
<1>10. CASE UNCHANGED vars
  BY <1>10, Zenon DEF vars
<1> QED BY <1>2, <1>3, <1>4, <1>5, <1>6, <1>7, <1>8, <1>9, <1>10, Zenon DEF Next

\* Whatever is patched reads back as the old fields with the change in them and nothing
\* else, keeps the bytes no field owns and is accepted by validate_expected_write over
\* its own base; and whatever is set reads back as what was asked: pack, patch and parse
\* agree on every offset, for every program and every change they accept.  That a
\* request's name holds no NUL byte is assumed: patch refuses such a name, set writes it
\* and then reports a mismatch.
THEOREM EditsAreExact == ASSUME NoNul PROVE Spec => []EditExact
<1> DEFINE Exact == IInv /\ verdict # "mismatch"
<1>1. Init => Exact
  <2>1. Init => verdict # "mismatch"
    BY DEF Init
  <2> QED BY <2>1, Initially, Zenon
<1>2. Exact /\ [Next]_vars => Exact'
  BY Inductive, StepMatches, Zenon
<1>3. Exact => EditExact
  BY ExactFollows
<1> QED BY <1>1, <1>2, <1>3, PTL DEF Spec
=============================================================================
