---------------------------- MODULE ReaderProofs ----------------------------
(***************************************************************************)
(* Ring and GrpcPull, for any bounds: a reader of the fragment ring misses *)
(* nothing that is neither expired nor ahead of it; a reader that pulls a  *)
(* stream gets it in order, and a call it abandons costs one message.      *)
(***************************************************************************)
EXTENDS Ring, GrpcPull, FiniteSetTheorems, TLAPS

Fragments == [dts : Nat, at : Int]
Cursors == [pc : {"read", "wait", "asleep"}, ch : Nat, from : Nat \ {0}, missed : SUBSET Nat]

\* The state's types, the ring no longer than its history.
RingTypes == /\ frags \in Seq(Fragments) /\ pushed \in Seq(Int) /\ Len(frags) <= Len(pushed)
             /\ now \in Int /\ notify \in Nat \ {0} /\ shut \subseteq Nat /\ waking \in Nat
             /\ reader \in [Readers -> Cursors]

\* Every channel before the current one is closed or the one Push is waking,
\* and a sleeping reader has one of them or the current one.
Channels == /\ \A i \in 1 .. notify - 1 : i \in shut \/ i = waking
            /\ waking < notify /\ \A i \in shut : i < notify
            /\ \A r \in Readers : reader[r].pc = "asleep" => reader[r].ch \in 1 .. notify

\* The fragments are the last ones pushed, and those before them have expired.
Gone == Len(pushed) - Len(frags)
Window == /\ \A i \in 1 .. Len(frags) : frags[i].dts = Gone + i /\ frags[i].at = pushed[Gone + i]
          /\ \A d \in 1 .. Gone : now - pushed[d] > MaxAge

\* A reader is never ahead of the ring, and has missed only what it went past.
Behind == \A r \in Readers : /\ reader[r].from <= Len(pushed) + 1
                             /\ reader[r].missed \subseteq 1 .. Len(pushed)

RingInv == RingTypes /\ Channels /\ Window /\ Behind /\ MissesOnlyExpired
-----------------------------------------------------------------------------
\* The numbers of the leading fragments that have expired.
Leading(fs) == {i \in DOMAIN fs : \A j \in 1 .. i : Expired(fs[j])}

\* Push drops a prefix of the ring, and only fragments that have expired.
LEMMA EvictDropsExpired ==
  ASSUME NEW fs \in Seq(Fragments)
  PROVE  \E n \in 0 .. Len(fs) : /\ Evict(fs) = SubSeq(fs, n + 1, Len(fs))
                                 /\ \A i \in 1 .. n : Expired(fs[i])
<1> DEFINE E == Leading(fs)
           n == Cardinality(E)
<1>1. E \subseteq 1 .. Len(fs)
  BY SMTT(40) DEF Leading
<1>2. IsFiniteSet(1 .. Len(fs)) /\ Cardinality(1 .. Len(fs)) = Len(fs)
  <2>1. Len(fs) \in Nat /\ 1 \in Int
    BY SMTT(40)
  <2> QED BY <2>1, FS_Interval, SMTT(40)
<1>3. IsFiniteSet(E) /\ n \in Nat /\ n <= Len(fs)
  <2> HIDE DEF E
  <2>1. IsFiniteSet(E) /\ Cardinality(E) <= Cardinality(1 .. Len(fs))
    BY <1>1, <1>2, FS_Subset, Zenon
  <2> QED BY <2>1, <1>2, FS_CardinalityType, Zenon
<1>4. ASSUME NEW i \in 1 .. n PROVE Expired(fs[i])
  <2>1. CASE i \in E
    BY <2>1, SMTT(40) DEF Leading
  <2>2. CASE i \notin E
    <3>1. ASSUME NEW k \in E PROVE k \in 1 .. i - 1
      <4>1. k \in 1 .. Len(fs) /\ \A j \in 1 .. k : Expired(fs[j])
        BY SMTT(40) DEF Leading
      <4>2. ~(i <= k)
        <5> SUFFICES ASSUME i <= k PROVE FALSE
          BY Zenon
        <5>1. i \in 1 .. Len(fs) /\ \A j \in 1 .. i : Expired(fs[j])
          BY <1>3, <4>1, SMTT(40)
        <5> QED BY <5>1, <2>2, SMTT(40) DEF Leading
      <4> QED BY <4>1, <4>2, <1>3, SMTT(40)
    <3>2. IsFiniteSet(1 .. i - 1) /\ Cardinality(1 .. i - 1) = i - 1
      <4>1. i - 1 \in Nat /\ 1 \in Int
        BY <1>3, SMTT(40)
      <4> QED BY <4>1, FS_Interval, SMTT(40)
    <3>3. n <= i - 1
      <4> HIDE DEF E
      <4>1. E \subseteq 1 .. i - 1
        BY <3>1, Zenon
      <4> QED BY <4>1, <3>2, FS_Subset, ZenonT(60)
    <3> QED BY <3>3, <1>3, SMTT(40)
  <2> QED BY <2>1, <2>2, Zenon
<1>5. Evict(fs) = SubSeq(fs, n + 1, Len(fs))
  BY Zenon DEF Evict, Leading
<1> HIDE DEF n, E
<1> QED BY <1>3, <1>4, <1>5, SMTT(40)

\* ReadFrom's result, of a ring that holds the fragments Gone + 1 and up: the new
\* ones, the last one pushed last.
LEMMA FromIsTheNewOnes ==
  ASSUME RingTypes, Window, Behind, NEW r \in Readers
  PROVE  IF reader[r].from > Len(pushed) \/ frags = <<>> THEN From(r) = <<>>
         ELSE /\ From(r) # <<>> /\ From(r)[Len(From(r))].dts = Len(pushed)
              /\ \A d \in reader[r].from .. Len(pushed) :
                   d > Gone => \E i \in DOMAIN From(r) : From(r)[i].dts = d
<1> DEFINE f == reader[r].from
           H == Hits(r)
<1>1. /\ f \in Nat \ {0} /\ Gone \in Nat /\ Len(pushed) \in Nat /\ Len(frags) \in Nat
      /\ f <= Len(pushed) + 1 /\ Len(pushed) = Gone + Len(frags)
      /\ DOMAIN frags = 1 .. Len(frags)
  BY SMTT(40) DEF RingTypes, Cursors, Behind, Gone
<1>2. H = {i \in 1 .. Len(frags) : Gone + i >= f}
  BY <1>1, Zenon DEF Hits, Window
<1>3. CASE f > Len(pushed) \/ frags = <<>>
  <2>1. H = {}
    BY <1>1, <1>2, <1>3, SMTT(40)
  <2> QED BY <2>1, <1>3, Zenon DEF From
<1>4. CASE ~(f > Len(pushed) \/ frags = <<>>)
  <2>1. Len(frags) > 0
    BY <1>4, SMTT(40) DEF RingTypes
  <2> DEFINE k == CHOOSE i \in H : \A j \in H : i <= j
             w == IF f > Gone THEN f - Gone ELSE 1
  <2>2. w \in H /\ \A j \in H : w <= j
    BY <1>1, <1>2, <1>4, <2>1, SMTT(40)
  <2>3. k \in H /\ \A j \in H : k <= j
    BY <2>2, Zenon
  <2>4. k = w
    <3> HIDE DEF k, w, H
    <3>1. H \subseteq Nat
      BY <1>2, SMTT(40)
    <3> QED BY <2>2, <2>3, <3>1, SMTT(40)
  <2>5. From(r) = SubSeq(frags, w, Len(frags)) /\ w \in 1 .. Len(frags)
    BY <2>2, <2>4, <1>2, Zenon DEF From
  <2> HIDE DEF k, w, H
  <2>6. /\ From(r) \in Seq(Fragments)
        /\ Len(From(r)) = Len(frags) - w + 1 /\ DOMAIN From(r) = 1 .. Len(frags) - w + 1
        /\ \A i \in 1 .. Len(frags) - w + 1 : From(r)[i] = frags[w + i - 1]
    BY <2>5, <1>1, SMTT(40) DEF RingTypes
  <2>7. From(r) # <<>> /\ From(r)[Len(From(r))] = frags[Len(frags)]
    <3>1. Len(frags) - w + 1 \in 1 .. Len(frags) - w + 1
          /\ w + (Len(frags) - w + 1) - 1 = Len(frags)
      BY <2>5, <1>1, SMTT(40)
    <3>2. From(r)[Len(From(r))] = frags[Len(frags)]
      BY <2>6, <3>1, Zenon
    <3> QED BY <2>6, <3>1, <3>2, SMTT(40)
  <2>8. From(r)[Len(From(r))].dts = Len(pushed)
    BY <2>7, <2>1, <1>1, SMTT(40) DEF Window
  <2>9. ASSUME NEW d \in f .. Len(pushed), d > Gone
        PROVE  \E i \in DOMAIN From(r) : From(r)[i].dts = d
    <3> DEFINE i == d - Gone - w + 1
    <3>1. i \in 1 .. Len(frags) - w + 1 /\ w + i - 1 = d - Gone /\ d - Gone \in 1 .. Len(frags)
      <4>1. d \in Nat /\ f <= d /\ d <= Len(pushed) /\ d > Gone
        BY <1>1, <2>9, SMTT(40)
      <4>2. CASE f > Gone
        <5>1. w = f - Gone
          BY <4>2, Zenon DEF w
        <5> HIDE DEF f
        <5> QED BY <4>1, <5>1, <1>1, <2>5, SMTT(40)
      <4>3. CASE ~(f > Gone)
        BY <4>1, <4>3, <1>1, <2>5, SMTT(40) DEF w
      <4> QED BY <4>2, <4>3, Zenon
    <3> HIDE DEF i
    <3>2. From(r)[i].dts = d
      <4>1. From(r)[i] = frags[d - Gone]
        BY <3>1, <2>6, Zenon
      <4>2. frags[d - Gone].dts = Gone + (d - Gone)
        BY <3>1, Zenon DEF Window
      <4>3. Gone + (d - Gone) = d
        BY <1>1, <2>9, SMTT(40)
      <4> QED BY <4>1, <4>2, <4>3, Zenon
    <3> QED BY <3>1, <3>2, <2>6, Zenon
  <2> QED BY <1>4, <2>7, <2>8, <2>9, Zenon
<1> QED BY <1>3, <1>4, Zenon
-----------------------------------------------------------------------------
ringState == <<frags, now, pushed>>

\* Window is about the fragments, the time and the history alone.
LEMMA WindowKept ==
  ASSUME RingTypes, Window, UNCHANGED ringState
  PROVE  Window'
BY Zenon DEF Window, Gone, ringState

\* The invariant holds of the empty ring.
LEMMA Initially == RingInit => RingInv
BY SMTT(40) DEF RingInit, RingInv, RingTypes, Channels, Window, Gone, Behind, MissesOnlyExpired, Cursors,
     Fragments

\* Time passes: what has expired stays so.
LEMMA TickKeeps == Durations /\ RingInv /\ Tick => RingInv'
<1> SUFFICES ASSUME Durations, RingInv, Tick PROVE RingInv'
  BY Zenon
<1>1. RingTypes' /\ Channels' /\ Behind'
  BY SMTT(40) DEF Tick, RingInv, RingTypes, Channels, Behind
<1>2. now' = now + 1 /\ now \in Int /\ MaxAge \in Int /\ UNCHANGED <<frags, pushed, reader>>
  BY Zenon DEF Tick, RingInv, RingTypes, Durations
<1>3. ASSUME NEW d \in 1 .. Len(pushed), now - pushed[d] > MaxAge PROVE now' - pushed[d] > MaxAge
  <2>1. pushed[d] \in Int
    BY SMTT(40) DEF RingInv, RingTypes
  <2> QED BY <2>1, <1>2, <1>3, SMTT(40)
<1>4. Window'
  <2>1. Gone' = Gone /\ 1 .. Gone \subseteq 1 .. Len(pushed)
    BY <1>2, SMTT(40) DEF Gone, RingInv, RingTypes
  <2> QED BY <2>1, <1>2, <1>3, Zenon DEF RingInv, Window
<1>5. MissesOnlyExpired'
  BY <1>2, <1>3, Zenon DEF RingInv, MissesOnlyExpired, Behind
<1> QED BY <1>1, <1>4, <1>5, Zenon DEF RingInv

\* A fragment is pushed and the expired ones are dropped.
LEMMA PushKeeps ==
  ASSUME Durations, RingInv, NEW lag \in Lags, Push(lag)
  PROVE  RingInv'
<1> DEFINE new == [dts |-> Len(pushed) + 1, at |-> now - lag]
           fs == Append(frags, new)
           L == Len(frags)
           N == Len(pushed)
<1>1. /\ now \in Int /\ lag \in Int /\ MaxAge \in Int /\ N \in Nat /\ L \in Nat /\ L <= N
      /\ new \in Fragments
  BY SMTT(40) DEF Durations, RingInv, RingTypes, Fragments
<1>2. /\ pushed' = Append(pushed, now - lag) /\ pushed' \in Seq(Int) /\ Len(pushed') = N + 1
      /\ pushed'[N + 1] = now - lag /\ \A i \in 1 .. N : pushed'[i] = pushed[i]
  BY <1>1, SMTT(40) DEF Push, RingInv, RingTypes
<1>3. frags' = Evict(fs)
  BY <1>2, Zenon DEF Push
<1>4. /\ fs \in Seq(Fragments) /\ Len(fs) = L + 1 /\ fs[L + 1] = new
      /\ \A i \in 1 .. L : fs[i] = frags[i]
  BY <1>1, SMTT(40) DEF RingInv, RingTypes
<1>5. PICK n \in 0 .. L + 1 : /\ frags' = SubSeq(fs, n + 1, L + 1)
                              /\ \A i \in 1 .. n : Expired(fs[i])
  BY <1>3, <1>4, EvictDropsExpired, Zenon
<1>6. /\ UNCHANGED <<shut, now, reader>> /\ waking = 0 /\ waking' = notify
      /\ notify' = notify + 1
  BY Zenon DEF Push, NewChannel
<1>7. \A i \in 1 .. L + 1 : fs[i].dts = N - L + i /\ fs[i].at = pushed'[N - L + i]
  <2> TAKE i \in 1 .. L + 1
  <2>1. CASE i = L + 1
    <3>1. N - L + i = N + 1
      BY <2>1, <1>1, SMTT(40)
    <3> QED BY <2>1, <3>1, <1>2, <1>4, SMTT(40)
  <2>2. CASE i \in 1 .. L
    <3>1. Gone = N - L /\ Gone + i \in 1 .. N
      BY <2>2, <1>1, SMTT(40) DEF Gone
    <3>2. frags[i].dts = N - L + i /\ frags[i].at = pushed[N - L + i]
      BY <3>1, <2>2, Zenon DEF RingInv, Window
    <3> HIDE DEF fs
    <3> QED BY <2>2, <3>1, <3>2, <1>2, <1>4, Zenon
  <2> QED BY <2>1, <2>2, <1>1, SMTT(40)
<1> HIDE DEF fs, new
<1>8. /\ frags' \in Seq(Fragments) /\ Len(frags') = L + 1 - n
      /\ \A i \in 1 .. L + 1 - n : frags'[i] = fs[n + i]
  BY <1>4, <1>5, <1>1, SMTT(40)
<1>9. Gone' = N - L + n
  BY <1>1, <1>2, <1>8, SMTT(40) DEF Gone
<1>10. RingTypes'
  BY <1>1, <1>2, <1>6, <1>8, SMTT(40) DEF RingInv, RingTypes
<1>11. Channels'
  BY <1>6, SMTT(40) DEF RingInv, RingTypes, Channels, Cursors
<1>12. Window'
  <2>1. ASSUME NEW i \in 1 .. Len(frags')
        PROVE  frags'[i].dts = Gone' + i /\ frags'[i].at = pushed'[Gone' + i]
    <3>1. n + i \in 1 .. L + 1 /\ N - L + (n + i) = Gone' + i /\ i \in 1 .. L + 1 - n
      BY <1>1, <1>8, <1>9, SMTT(40)
    <3> QED BY <3>1, <1>7, <1>8, Zenon
  <2>2. ASSUME NEW d \in 1 .. Gone'
        PROVE  now' - pushed'[d] > MaxAge
    <3>1. CASE d \in 1 .. N - L
      <4>1. d \in 1 .. Gone /\ d \in 1 .. N
        BY <3>1, <1>1, SMTT(40) DEF Gone
      <4> QED BY <4>1, <1>2, <1>6, Zenon DEF RingInv, Window
    <3>2. CASE d \notin 1 .. N - L
      <4> DEFINE k == d - (N - L)
      <4>1. k \in 1 .. n /\ k \in 1 .. L + 1 /\ N - L + k = d
        BY <3>2, <1>1, <1>9, SMTT(40)
      <4> HIDE DEF k
      <4>2. fs[k].at < now - MaxAge /\ fs[k].at = pushed'[d]
        BY <4>1, <1>5, <1>7, Zenon DEF Expired
      <4>3. d \in 1 .. N + 1
        BY <4>1, <1>1, <1>9, SMTT(40)
      <4>4. pushed'[d] \in Int
        BY <4>3, <1>2, SMTT(40)
      <4> QED BY <4>2, <4>4, <1>1, <1>6, SMTT(40)
    <3> QED BY <3>1, <3>2, Zenon
  <2> QED BY <2>1, <2>2, Zenon DEF Window
<1>13. Behind' /\ MissesOnlyExpired'
  <2>1. ASSUME NEW r \in Readers
        PROVE  /\ reader[r].from <= N + 1 + 1 /\ reader[r].missed \subseteq 1 .. N
               /\ \A d \in reader[r].missed : now - pushed[d] > MaxAge
    BY <1>1, SMTT(40) DEF RingInv, RingTypes, Behind, MissesOnlyExpired, Cursors
  <2> QED BY <2>1, <1>1, <1>2, <1>6, SMTT(40) DEF Behind, MissesOnlyExpired
<1> QED BY <1>10, <1>11, <1>12, <1>13, Zenon DEF RingInv

\* A reader takes what is new: what it passes over is no longer in the ring.
LEMMA ReadFromKeeps ==
  ASSUME Durations, RingInv, NEW r \in Readers, ReadFrom(r)
  PROVE  RingInv'
<1> DEFINE f == reader[r].from
           N == Len(pushed)
           past == (f .. From(r)[Len(From(r))].dts) \ {From(r)[i].dts : i \in DOMAIN From(r)}
<1>1. UNCHANGED <<frags, notify, shut, waking, now, pushed>>
  BY Zenon DEF ReadFrom
<1>2. /\ reader \in [Readers -> Cursors] /\ f \in Nat \ {0} /\ N \in Nat /\ Gone \in Nat
      /\ f <= N + 1
  BY SMTT(40) DEF RingInv, RingTypes, Cursors, Behind, Gone
<1>3. ASSUME NEW q \in Readers, q # r PROVE reader'[q] = reader[q]
  BY <1>2, <1>3, Zenon DEF ReadFrom
<1>4. reader'[r].pc = "wait" /\ reader'[r].ch = reader[r].ch
  BY <1>2, Zenon DEF ReadFrom, Cursors
<1>5. /\ reader'[r].from \in 1 .. N + 1
      /\ reader'[r].missed \subseteq 1 .. N
      /\ \A d \in reader'[r].missed : now - pushed[d] > MaxAge
  <2>1. /\ reader[r].missed \subseteq 1 .. N
        /\ \A d \in reader[r].missed : now - pushed[d] > MaxAge
    BY Zenon DEF RingInv, Behind, MissesOnlyExpired
  <2>2. CASE f > N \/ frags = <<>>
    <3>1. From(r) = <<>>
      BY <2>2, FromIsTheNewOnes, Zenon DEF RingInv
    <3>2. reader'[r].from = f /\ reader'[r].missed = reader[r].missed
      BY <3>1, <1>2, Zenon DEF ReadFrom, Cursors
    <3> QED BY <3>2, <2>1, <1>2, SMTT(40)
  <2>3. CASE ~(f > N \/ frags = <<>>)
    <3>1. /\ From(r) # <<>> /\ From(r)[Len(From(r))].dts = N
          /\ \A d \in f .. N : d > Gone => \E i \in DOMAIN From(r) : From(r)[i].dts = d
      BY <2>3, FromIsTheNewOnes, Zenon DEF RingInv
    <3>2. reader'[r].from = N + 1 /\ reader'[r].missed = reader[r].missed \cup past
      BY <3>1, <1>2, Zenon DEF ReadFrom, Cursors
    <3>3. ASSUME NEW d \in past PROVE d \in 1 .. N /\ now - pushed[d] > MaxAge
      <4>1. d \in f .. N /\ d \in 1 .. N
        BY <3>1, <1>2, SMTT(40)
      <4>2. ~(d > Gone)
        BY <4>1, <3>1, Zenon
      <4>3. d \in 1 .. Gone
        BY <4>1, <4>2, <1>2, SMTT(40)
      <4> QED BY <4>1, <4>3, Zenon DEF RingInv, Window
    <3> HIDE DEF past
    <3> QED BY <3>2, <3>3, <2>1, <1>2, SMTT(40)
  <2> QED BY <2>2, <2>3, Zenon
<1>6. RingTypes'
  <2>1. reader'[r] \in Cursors
    <3>1. DOMAIN reader'[r] = DOMAIN reader[r]
      BY <1>2, Zenon DEF ReadFrom
    <3> DEFINE c == [pc |-> "wait", ch |-> reader[r].ch, from |-> reader'[r].from,
                     missed |-> reader'[r].missed]
    <3>2. reader'[r] = c
      BY <1>2, ZenonT(60) DEF ReadFrom, Cursors
    <3>3. c \in Cursors
      BY <1>2, <1>5, SMTT(40) DEF Cursors
    <3> QED BY <3>2, <3>3, Zenon
  <2>2. reader' \in [Readers -> Cursors]
    <3>1. reader' = [reader EXCEPT ![r] = reader'[r]]
      BY <1>2, Zenon DEF ReadFrom
    <3> QED BY <2>1, <1>2, <3>1, Zenon
  <2> QED BY <2>2, <1>1, Zenon DEF RingInv, RingTypes
<1>7. Channels'
  BY <1>1, <1>3, <1>4, Zenon DEF RingInv, Channels
<1>8. Window'
  BY <1>1, WindowKept, Zenon DEF RingInv, ringState
<1>9. Behind' /\ MissesOnlyExpired'
  <2>1. ASSUME NEW q \in Readers
        PROVE  /\ reader'[q].from <= N + 1 /\ reader'[q].missed \subseteq 1 .. N
               /\ \A d \in reader'[q].missed : now - pushed[d] > MaxAge
    <3>1. CASE q = r
      BY <3>1, <1>5, <1>2, SMTT(40)
    <3>2. CASE q # r
      BY <3>2, <1>3, Zenon DEF RingInv, Behind, MissesOnlyExpired
    <3> QED BY <3>1, <3>2, Zenon
  <2> QED BY <2>1, <1>1, Zenon DEF Behind, MissesOnlyExpired
<1> QED BY <1>6, <1>7, <1>8, <1>9, Zenon DEF RingInv

\* Push closes a channel: nothing of the ring changes.
LEMMA PushWakesKeeps == RingInv /\ (PushWakes \/ UNCHANGED ringVars) => RingInv'
<1> SUFFICES ASSUME RingInv, PushWakes \/ UNCHANGED ringVars PROVE RingInv'
  BY Zenon
<1>1. UNCHANGED <<ringState, notify, reader>>
  BY Zenon DEF PushWakes, ringVars, ringState
<1>2. Window'
  BY <1>1, WindowKept, Zenon DEF RingInv
<1>3. Behind' /\ MissesOnlyExpired'
  BY <1>1, Zenon DEF RingInv, Behind, MissesOnlyExpired, ringState
<1>4. CASE PushWakes
  <2>1. RingTypes' /\ Channels'
    BY <1>4, SMTT(40) DEF PushWakes, RingInv, RingTypes, Channels
  <2> QED BY <2>1, <1>2, <1>3, Zenon DEF RingInv
<1>5. CASE UNCHANGED ringVars
  <2>1. RingTypes' /\ Channels'
    BY <1>5, Zenon DEF ringVars, RingInv, RingTypes, Channels
  <2> QED BY <2>1, <1>2, <1>3, Zenon DEF RingInv
<1> QED BY <1>4, <1>5, Zenon

\* A reader goes to sleep on the current channel, or leaves Wait.
LEMMA WaitKeeps ==
  ASSUME RingInv, NEW r \in Readers, TakeChannel(r) \/ Wake(r) \/ GiveUp(r)
  PROVE  RingInv'
<1>1. UNCHANGED <<ringState, notify, shut, waking>>
  BY Zenon DEF TakeChannel, Wake, GiveUp, ringState
<1>2. Window'
  BY <1>1, WindowKept, Zenon DEF RingInv
<1>3. reader \in [Readers -> Cursors] /\ notify \in Nat \ {0}
  BY Zenon DEF RingInv, RingTypes
<1>4. reader' \in [Readers -> Cursors]
  BY <1>3, SMTT(40) DEF TakeChannel, Wake, GiveUp, Cursors
<1>5. \A q \in Readers : /\ reader'[q].from = reader[q].from /\ reader'[q].missed = reader[q].missed
                         /\ \/ reader'[q].pc = "read"
                            \/ reader'[q].ch = notify
                            \/ reader'[q].pc = reader[q].pc /\ reader'[q].ch = reader[q].ch
  BY <1>3, SMTT(40) DEF TakeChannel, Wake, GiveUp, Cursors
<1>6. RingTypes'
  BY <1>1, <1>4, Zenon DEF RingInv, RingTypes, ringState
<1>7. Channels'
  BY <1>1, <1>3, <1>5, SMTT(40) DEF RingInv, Channels
<1>8. Behind' /\ MissesOnlyExpired'
  BY <1>1, <1>5, Zenon DEF RingInv, Behind, MissesOnlyExpired, ringState
<1> QED BY <1>2, <1>6, <1>7, <1>8, Zenon DEF RingInv

\* A reader that polls with ReadFrom and sleeps in Wait is woken by every Push
\* that begins after it took its channel, and misses only fragments that grew
\* older than maxAge first, however its calls interleave with Push.
THEOREM NothingMissed == RingSpec => []RingMissesNothing
<1>1. RingInv /\ [RingNext]_ringVars => RingInv'
  <2> SUFFICES ASSUME RingInv, [RingNext]_ringVars PROVE RingInv'
    BY Zenon
  <2>1. CASE Tick
    BY <2>1, TickKeeps, DurationsAssumption, Zenon
  <2>2. CASE \E lag \in Lags : Push(lag)
    BY <2>2, PushKeeps, DurationsAssumption, Zenon
  <2>3. CASE \E r \in Readers : ReadFrom(r)
    BY <2>3, ReadFromKeeps, DurationsAssumption, Zenon
  <2>4. CASE PushWakes \/ UNCHANGED ringVars
    BY <2>4, PushWakesKeeps, Zenon
  <2>5. CASE \E r \in Readers : TakeChannel(r) \/ Wake(r) \/ GiveUp(r)
    BY <2>5, WaitKeeps, Zenon
  <2> QED BY <2>1, <2>2, <2>3, <2>4, <2>5, Zenon DEF RingNext
<1>2. RingInv => RingMissesNothing
  <2> SUFFICES ASSUME RingInv PROVE SleeperIsWoken
    BY Zenon DEF RingInv, RingMissesNothing
  <2> QED BY SMTT(40) DEF RingInv, RingTypes, Channels, SleeperIsWoken
<1> QED BY Initially, <1>1, <1>2, PTL DEF RingSpec

-----------------------------------------------------------------------------
\* GrpcPull: the error a message carries, the messages, the error of a trailer.
Reasons   == {"", "upstream", "EOF", "cancelled"}
Responses == [t : {"header", "packet", "trailer", "error"}, v : Nat \cup Reasons]
Ends == {"", "upstream"}
PullTypes ==
  /\ DOMAIN sm = {"header", "closed", "n", "err"} /\ DOMAIN cd = {"codecs", "closed"}
  /\ sm.header \in BOOLEAN /\ sm.closed \in BOOLEAN /\ sm.n \in Nat
  /\ cd.codecs \in BOOLEAN /\ cd.closed \in BOOLEAN
  /\ strm \in Seq(Responses) /\ inbox \in Seq(Responses) /\ Len(inbox) <= 1
  /\ recvs \subseteq Nat /\ call \in Nat /\ pulled \in Seq(Nat) /\ cancels \in Nat

\* The goroutines: one per abandoned call at most, and the one of the call in
\* progress until it has left its message.
Goroutines ==
  /\ recvs \subseteq 1 .. cancels \cup {call} /\ 0 \notin recvs
  /\ call \in {0, cancels + 1}
  /\ call = 0 => inbox = <<>>
  /\ call # 0 => (inbox = <<>> <=> call \in recvs)
  /\ cancels = 0 => recvs \subseteq {call}
  /\ ~cd.codecs => recvs = {} /\ call = 0 /\ pulled = <<>> /\ cancels = 0

\* The messages that wait: the header first, the trailer last, and between
\* them the last packets that were written.
HeaderWaits  == IF sm.header /\ ~cd.codecs /\ strm # <<>> THEN 1 ELSE 0
TrailerWaits == IF sm.closed /\ strm # <<>> THEN 1 ELSE 0
OffStream == sm.n - (Len(strm) - HeaderWaits - TrailerWaits)
Waiting ==
  /\ OffStream \in Nat
  /\ ~sm.header => sm.n = 0 /\ ~cd.codecs
  /\ cd.codecs => sm.header
  /\ ~cd.codecs => OffStream = 0 /\ (sm.header \/ (sm.closed /\ ~cd.closed) => strm # <<>>)
  /\ \A i \in 1 .. Len(strm) :
       IF i = 1 /\ HeaderWaits = 1 THEN strm[i].t = "header"
       ELSE IF i = Len(strm) /\ sm.closed THEN strm[i].t = "trailer" /\ strm[i].v = sm.err
       ELSE strm[i].t = "packet" /\ strm[i].v = OffStream + i - HeaderWaits

\* What was taken off the stream: returned, in the inbox, or lost.
ArrivedIn(p, b) == {p[i] : i \in 1 .. Len(p)} \cup {b[i].v : i \in {j \in 1 .. Len(b) : b[j].t = "packet"}}
Arrived == ArrivedIn(pulled, inbox)
Lost == (1 .. OffStream) \ Arrived
Accounted ==
  /\ Arrived \subseteq 1 .. OffStream
  /\ \A i, j \in 1 .. Len(pulled) : i < j => pulled[i] < pulled[j]
  /\ inbox # <<>> /\ inbox[1].t = "packet" => \A i \in 1 .. Len(pulled) : pulled[i] < inbox[1].v
  /\ Cardinality(Lost) + Cardinality(recvs \ {call}) <= cancels

TheEnd == IF sm.err = "" THEN "EOF" ELSE sm.err
Ending ==
  /\ ended # "" => call = 0
  /\ (inbox # <<>> /\ inbox[1].t # "packet") \/ ended # "" =>
        cd.closed \/ (sm.closed /\ strm = <<>>)
  /\ ~cd.closed /\ cancels = 0 =>
       /\ ended # "" => ended = TheEnd
       /\ inbox # <<>> /\ inbox[1].t # "packet" => inbox[1].t = "trailer" /\ inbox[1].v = sm.err
       /\ sm.closed /\ strm = <<>> =>
            ended # "" \/ (inbox # <<>> /\ inbox[1].t = "trailer")

PullInv == PullTypes /\ Goroutines /\ Waiting /\ Accounted /\ Ending

-----------------------------------------------------------------------------
\* The goroutines left behind and the lost packets are finitely many.
LEMMA CountsAreFinite ==
  ASSUME PullTypes, Goroutines, Waiting
  PROVE  /\ IsFiniteSet(Lost) /\ Cardinality(Lost) \in Nat
         /\ IsFiniteSet(recvs \ {call}) /\ Cardinality(recvs \ {call}) \in Nat
<1>1. IsFiniteSet(1 .. OffStream) /\ IsFiniteSet(1 .. cancels)
  <2>1. 1 \in Int /\ OffStream \in Int /\ cancels \in Int
    BY SMT DEF PullTypes, Waiting
  <2> QED BY <2>1, FS_Interval, Zenon
<1>2. recvs \ {call} \subseteq 1 .. cancels /\ Lost \subseteq 1 .. OffStream
  BY Zenon DEF Goroutines, Lost
<1> QED BY <1>1, <1>2, FS_Subset, FS_CardinalityType, Zenon

\* A smaller set has no more elements, one more element adds at most one.
LEMMA CountGrows ==
  ASSUME NEW S, NEW T, IsFiniteSet(S), NEW x, T \subseteq S \cup {x}
  PROVE  /\ IsFiniteSet(T) /\ Cardinality(T) \in Nat /\ Cardinality(S) \in Nat
         /\ Cardinality(T) <= Cardinality(S) + 1
         /\ T \subseteq S => Cardinality(T) <= Cardinality(S)
<1>1. IsFiniteSet(S \cup {x}) /\ Cardinality(S \cup {x}) <= Cardinality(S) + 1
      /\ Cardinality(S) \in Nat /\ Cardinality(S \cup {x}) \in Nat
  BY FS_AddElement, FS_CardinalityType, SMT
<1>2. IsFiniteSet(T) /\ Cardinality(T) <= Cardinality(S \cup {x}) /\ Cardinality(T) \in Nat
  BY <1>1, FS_Subset, FS_CardinalityType, Zenon
<1>3. T \subseteq S => Cardinality(T) <= Cardinality(S)
  BY FS_Subset, Zenon
<1> QED BY <1>1, <1>2, <1>3, SMT

\* Writing to the stream changes nothing that was taken from it.
LEMMA WritingKeeps ==
  ASSUME PullInv, UNCHANGED demuxState, OffStream' = OffStream, ~sm.closed, strm' # <<>>
  PROVE  Goroutines' /\ Accounted' /\ Ending'
<1>1. Goroutines'
  BY Zenon DEF PullInv, Goroutines, demuxState
<1>2. Arrived' = Arrived /\ Lost' = Lost
  BY Zenon DEF Arrived, Lost, demuxState
<1>3. Accounted'
  BY <1>2, Zenon DEF PullInv, Accounted, demuxState
<1>4. Ending'
  <2>1. ended' = ended /\ inbox' = inbox /\ call' = call /\ cd' = cd
    BY Zenon DEF demuxState
  <2> QED BY <2>1, Zenon DEF PullInv, Ending
<1> QED BY <1>1, <1>3, <1>4, Zenon

\* A message is put behind the others.
LEMMA SendingKeeps ==
  ASSUME PullInv, ~sm.closed, NEW m \in Responses, strm' = Append(strm, m), UNCHANGED demuxState
  PROVE  /\ strm' \in Seq(Responses) /\ Len(strm') = Len(strm) + 1 /\ strm' # <<>>
         /\ \A i \in 1 .. Len(strm) : strm'[i] = strm[i]
         /\ strm'[Len(strm) + 1] = m
<1>1. strm \in Seq(Responses)
  BY Zenon DEF PullInv, PullTypes
<1> QED BY <1>1, SMT

\* The header goes first, onto an empty stream.
LEMMA SendHeaderKeeps == PullInv /\ SendHeader => PullInv'
<1> SUFFICES ASSUME PullInv, SendHeader PROVE PullInv'
  OBVIOUS
<1>1. /\ sm'.header = TRUE /\ sm'.closed = sm.closed /\ sm'.n = sm.n /\ sm'.err = sm.err
      /\ DOMAIN sm' = {"header", "closed", "n", "err"}
  BY Zenon DEF SendHeader, PullInv, PullTypes
<1> DEFINE m == [t |-> "header", v |-> ""]
<1>2. m \in Responses /\ m.t = "header"
  BY Zenon DEF Responses, Reasons
<1>3. ~sm.closed /\ ~sm.header /\ strm' = Append(strm, m) /\ UNCHANGED demuxState
  BY Zenon DEF SendHeader
<1> HIDE DEF m
<1>4. /\ strm' \in Seq(Responses) /\ Len(strm') = Len(strm) + 1 /\ strm' # <<>>
      /\ \A i \in 1 .. Len(strm) : strm'[i] = strm[i]
      /\ strm'[Len(strm) + 1] = m
  BY <1>2, <1>3, SendingKeeps, Zenon
<1>5. Len(strm) = 0 /\ sm.n = 0 /\ cd' = cd /\ ~cd.codecs /\ ~sm'.closed
  <2>1. Len(strm) \in Nat
    BY SMT DEF PullInv, PullTypes
  <2>2. ~cd.codecs /\ sm.n = 0 /\ HeaderWaits = 0 /\ TrailerWaits = 0 /\ OffStream \in Nat
    BY <1>3, Zenon DEF PullInv, Waiting, HeaderWaits, TrailerWaits
  <2> QED BY <1>1, <1>3, <2>1, <2>2, SMT DEF OffStream, demuxState
<1>6. HeaderWaits' = 1 /\ TrailerWaits' = 0 /\ HeaderWaits = 0 /\ TrailerWaits = 0
  BY <1>1, <1>3, <1>4, <1>5, Zenon DEF HeaderWaits, TrailerWaits
<1>7. OffStream' = 0 /\ OffStream = 0
  BY <1>1, <1>4, <1>5, <1>6, SMT DEF OffStream
<1>8. Waiting'
  BY <1>1, <1>2, <1>4, <1>5, <1>6, <1>7, SMT DEF Waiting
<1>9. PullTypes'
  BY <1>1, <1>3, <1>4, Zenon DEF PullInv, PullTypes, demuxState
<1> QED BY <1>3, <1>4, <1>7, <1>8, <1>9, WritingKeeps, Zenon DEF PullInv

\* A packet goes behind the ones that wait.
LEMMA SendPacketKeeps == PullInv /\ SendPacket => PullInv'
<1> SUFFICES ASSUME PullInv, SendPacket PROVE PullInv'
  OBVIOUS
<1>1. /\ sm'.header = sm.header /\ sm'.closed = sm.closed /\ sm'.n = sm.n + 1 /\ sm'.err = sm.err
      /\ DOMAIN sm' = {"header", "closed", "n", "err"} /\ sm.n \in Nat
  BY Zenon DEF SendPacket, PullInv, PullTypes
<1> DEFINE m == [t |-> "packet", v |-> sm.n + 1]
<1>2. m \in Responses /\ m.t = "packet" /\ m.v = sm.n + 1
  <2>1. sm.n + 1 \in Nat
    BY <1>1, SMT
  <2> QED BY <2>1, Zenon DEF Responses
<1>3. ~sm.closed /\ sm.header /\ strm' = Append(strm, m) /\ UNCHANGED demuxState
  BY Zenon DEF SendPacket
<1> HIDE DEF m
<1>4. /\ strm' \in Seq(Responses) /\ Len(strm') = Len(strm) + 1 /\ strm' # <<>>
      /\ \A i \in 1 .. Len(strm) : strm'[i] = strm[i]
      /\ strm'[Len(strm) + 1] = m
  BY <1>2, <1>3, SendingKeeps, Zenon
<1>5. cd' = cd /\ cd.codecs \in BOOLEAN /\ ~sm'.closed /\ sm'.header /\ Len(strm) \in Nat
      /\ (~cd.codecs => strm # <<>>) /\ OffStream \in Nat
  BY <1>1, <1>3, SMT DEF PullInv, PullTypes, Waiting, demuxState
<1>6. HeaderWaits' = HeaderWaits /\ TrailerWaits' = 0 /\ TrailerWaits = 0 /\ HeaderWaits \in {0, 1}
      /\ (HeaderWaits = 1 <=> ~cd.codecs)
  BY <1>1, <1>3, <1>4, <1>5, SMT DEF HeaderWaits, TrailerWaits
<1>7. OffStream' = OffStream /\ sm.n = OffStream + Len(strm) - HeaderWaits
  BY <1>1, <1>4, <1>5, <1>6, SMT DEF OffStream
<1>8. Waiting'
  <2>1. ASSUME NEW i \in 1 .. Len(strm')
        PROVE  IF i = 1 /\ HeaderWaits' = 1 THEN strm'[i].t = "header"
               ELSE strm'[i].t = "packet" /\ strm'[i].v = OffStream' + i - HeaderWaits'
    <3>1. CASE i \in 1 .. Len(strm)
      <4>1. IF i = 1 /\ HeaderWaits = 1 THEN strm[i].t = "header"
            ELSE strm[i].t = "packet" /\ strm[i].v = OffStream + i - HeaderWaits
        BY <1>3, <3>1, Zenon DEF PullInv, Waiting
      <4> QED BY <1>4, <1>6, <1>7, <3>1, <4>1, Zenon
    <3>2. CASE i = Len(strm) + 1
      <4>1. ~(i = 1 /\ HeaderWaits' = 1)
        BY <1>5, <1>6, <3>2, SMT
      <4>2. sm.n + 1 = OffStream' + i - HeaderWaits'
        BY <1>1, <1>5, <1>6, <1>7, <3>2, SMT
      <4> QED BY <1>2, <1>4, <3>2, <4>1, <4>2, Zenon
    <3> QED BY <1>4, <1>5, <3>1, <3>2, SMT
  <2>2. /\ OffStream' \in Nat /\ sm'.header /\ (~cd'.codecs => OffStream' = 0 /\ strm' # <<>>)
    BY <1>4, <1>5, <1>7, Zenon DEF PullInv, Waiting
  <2> QED BY <1>5, <2>1, <2>2, Zenon DEF Waiting
<1>9. PullTypes'
  <2>1. sm'.n \in Nat
    BY <1>1, SMT
  <2> QED BY <1>1, <1>3, <1>4, <2>1, Zenon DEF PullInv, PullTypes, demuxState
<1> QED BY <1>3, <1>4, <1>7, <1>8, <1>9, WritingKeeps, Zenon DEF PullInv

\* The trailer goes last.
LEMMA SendTrailerKeeps == ASSUME PullInv, NEW e, e \in Ends, SendTrailer(e) PROVE PullInv'
<1>1. /\ sm'.header = sm.header /\ sm'.closed = TRUE /\ sm'.n = sm.n /\ sm'.err = e
      /\ DOMAIN sm' = {"header", "closed", "n", "err"} /\ sm.n \in Nat /\ sm.header \in BOOLEAN
  BY Zenon DEF SendTrailer, PullInv, PullTypes
<1> DEFINE m == [t |-> "trailer", v |-> e]
<1>2. m \in Responses /\ m.t = "trailer" /\ m.v = e
  BY Zenon DEF Responses, Reasons, Ends
<1>3. ~sm.closed /\ strm' = Append(strm, m) /\ UNCHANGED demuxState
  BY Zenon DEF SendTrailer
<1> HIDE DEF m
<1>4. /\ strm' \in Seq(Responses) /\ Len(strm') = Len(strm) + 1 /\ strm' # <<>>
      /\ \A i \in 1 .. Len(strm) : strm'[i] = strm[i]
      /\ strm'[Len(strm) + 1] = m
  BY <1>2, <1>3, SendingKeeps, Zenon
<1>5. cd' = cd /\ cd.codecs \in BOOLEAN /\ Len(strm) \in Nat
      /\ (~cd.codecs /\ sm.header => strm # <<>>) /\ OffStream \in Nat
      /\ (strm = <<>> <=> Len(strm) = 0)
  <2>1. strm \in Seq(Responses)
    BY Zenon DEF PullInv, PullTypes
  <2>2. Len(strm) \in Nat /\ (strm = <<>> <=> Len(strm) = 0)
    BY <2>1, SMT
  <2> QED BY <1>3, <2>2, Zenon DEF PullInv, PullTypes, Waiting, demuxState
<1>6. HeaderWaits' = HeaderWaits /\ TrailerWaits' = 1 /\ TrailerWaits = 0 /\ HeaderWaits \in {0, 1}
      /\ (HeaderWaits = 1 <=> (~cd.codecs /\ sm.header))
  <2>1. TrailerWaits' = 1 /\ TrailerWaits = 0
    BY <1>1, <1>3, <1>4, Zenon DEF TrailerWaits
  <2>2. CASE ~cd.codecs /\ sm.header
    <3>1. HeaderWaits = 1 /\ HeaderWaits' = 1
      BY <1>1, <1>4, <1>5, <2>2, Zenon DEF HeaderWaits
    <3> QED BY <2>1, <2>2, <3>1, Zenon
  <2>3. CASE ~(~cd.codecs /\ sm.header)
    <3>1. HeaderWaits = 0 /\ HeaderWaits' = 0
      BY <1>1, <1>4, <1>5, <2>3, Zenon DEF HeaderWaits
    <3> QED BY <2>1, <2>3, <3>1, SMT
  <2> QED BY <2>2, <2>3, Zenon
<1>7. OffStream' = OffStream
  BY <1>1, <1>4, <1>5, <1>6, SMT DEF OffStream
<1>8. Waiting'
  <2>1. ASSUME NEW i \in 1 .. Len(strm')
        PROVE  IF i = 1 /\ HeaderWaits' = 1 THEN strm'[i].t = "header"
               ELSE IF i = Len(strm') THEN strm'[i].t = "trailer" /\ strm'[i].v = sm'.err
               ELSE strm'[i].t = "packet" /\ strm'[i].v = OffStream' + i - HeaderWaits'
    <3>1. CASE i \in 1 .. Len(strm)
      <4>1. IF i = 1 /\ HeaderWaits = 1 THEN strm[i].t = "header"
            ELSE strm[i].t = "packet" /\ strm[i].v = OffStream + i - HeaderWaits
        BY <1>3, <3>1, Zenon DEF PullInv, Waiting
      <4>2. i # Len(strm')
        BY <1>4, <1>5, <3>1, SMT
      <4> QED BY <1>4, <1>6, <1>7, <3>1, <4>1, <4>2, Zenon
    <3>2. CASE i = Len(strm) + 1
      <4>1. ~(i = 1 /\ HeaderWaits' = 1)
        <5>1. i = 1 => Len(strm) = 0
          BY <1>5, <3>2, SMT
        <5> QED BY <1>5, <1>6, <5>1, Zenon
      <4> QED BY <1>1, <1>2, <1>4, <3>2, <4>1, Zenon
    <3> QED BY <1>4, <1>5, <3>1, <3>2, SMT
  <2>2. OffStream' \in Nat /\ (~cd'.codecs => OffStream' = 0 /\ strm' # <<>>)
    BY <1>4, <1>5, <1>7, Zenon DEF PullInv, Waiting
  <2>3. (~sm'.header => sm'.n = 0 /\ ~cd'.codecs) /\ (cd'.codecs => sm'.header)
    BY <1>1, <1>5, Zenon DEF PullInv, Waiting
  <2> QED BY <1>1, <2>1, <2>2, <2>3, Zenon DEF Waiting
<1>9. PullTypes'
  BY <1>1, <1>3, <1>4, Zenon DEF PullInv, PullTypes, demuxState
<1> QED BY <1>3, <1>4, <1>7, <1>8, <1>9, WritingKeeps, Zenon DEF PullInv

\* A sequence of length 0 is empty.
LEMMA NothingLeft == ASSUME NEW S, NEW s \in Seq(S) PROVE (s = <<>> <=> Len(s) = 0) /\ Len(s) \in Nat
OBVIOUS

\* What is left of a sequence without its first element.
LEMMA TakingOff ==
  ASSUME NEW S, NEW s \in Seq(S), s # <<>>
  PROVE  /\ Tail(s) \in Seq(S) /\ Head(s) = s[1] /\ s[1] \in S
         /\ Len(s) \in Nat /\ Len(Tail(s)) = Len(s) - 1 /\ Len(s) >= 1
         /\ \A i \in 1 .. Len(Tail(s)) : Tail(s)[i] = s[i + 1] /\ i + 1 \in 1 .. Len(s)
         /\ (Tail(s) = <<>> <=> Len(Tail(s)) = 0)
<1>1. Tail(s) \in Seq(S) /\ Head(s) = s[1] /\ s[1] \in S
  OBVIOUS
<1>2. Len(s) \in Nat /\ Len(Tail(s)) = Len(s) - 1 /\ Len(s) >= 1
  OBVIOUS
<1>3. \A i \in 1 .. Len(Tail(s)) : Tail(s)[i] = s[i + 1] /\ i + 1 \in 1 .. Len(s)
  OBVIOUS
<1>4. Tail(s) = <<>> <=> Len(Tail(s)) = 0
  BY <1>1, NothingLeft, Zenon
<1> QED BY <1>1, <1>2, <1>3, <1>4, Zenon

\* The first message is taken off the stream.
LEMMA TakingKeeps ==
  ASSUME PullInv, cd'.codecs, sm.header, strm # <<>>, strm' = Tail(strm), sm' = sm
  PROVE  /\ strm' \in Seq(Responses) /\ Head(strm) \in Responses /\ HeaderWaits' = 0
         /\ \A i \in 1 .. Len(strm') :
              IF i = Len(strm') /\ sm.closed THEN strm'[i].t = "trailer" /\ strm'[i].v = sm.err
              ELSE strm'[i].t = "packet" /\ strm'[i].v = OffStream' + i
         /\ OffStream' \in Nat /\ HeaderWaits \in {0, 1}
         /\ HeaderWaits = 1 => Head(strm).t = "header" /\ OffStream' = OffStream /\ (sm.closed => strm' # <<>>)
         /\ HeaderWaits = 0 =>
              \/ /\ Head(strm).t = "packet" /\ Head(strm).v = OffStream + 1 /\ OffStream' = OffStream + 1
                 /\ sm.closed => strm' # <<>>
              \/ /\ Head(strm).t = "trailer" /\ Head(strm).v = sm.err /\ OffStream' = OffStream
                 /\ sm.closed /\ strm' = <<>>
<1>1. strm \in Seq(Responses) /\ sm.n \in Nat /\ sm.closed \in BOOLEAN /\ OffStream \in Nat
  BY Zenon DEF PullInv, PullTypes, Waiting
<1>2. /\ strm' \in Seq(Responses) /\ Head(strm) = strm[1] /\ strm[1] \in Responses
      /\ Len(strm) \in Nat /\ Len(strm') = Len(strm) - 1 /\ Len(strm) >= 1
      /\ \A i \in 1 .. Len(strm') : strm'[i] = strm[i + 1] /\ i + 1 \in 1 .. Len(strm)
      /\ (strm' = <<>> <=> Len(strm') = 0)
  BY <1>1, TakingOff, Zenon
<1>3. HeaderWaits' = 0 /\ HeaderWaits \in {0, 1}
  BY Zenon DEF HeaderWaits
<1>5. \A i \in 1 .. Len(strm) :
        IF i = 1 /\ HeaderWaits = 1 THEN strm[i].t = "header"
        ELSE IF i = Len(strm) /\ sm.closed THEN strm[i].t = "trailer" /\ strm[i].v = sm.err
        ELSE strm[i].t = "packet" /\ strm[i].v = OffStream + i - HeaderWaits
  BY Zenon DEF PullInv, Waiting
<1>6. 1 \in 1 .. Len(strm)
  BY <1>2, SMT
<1>7. ASSUME NEW i \in 1 .. Len(strm'), OffStream' = OffStream + 1 - HeaderWaits
      PROVE  IF i = Len(strm') /\ sm.closed THEN strm'[i].t = "trailer" /\ strm'[i].v = sm.err
             ELSE strm'[i].t = "packet" /\ strm'[i].v = OffStream' + i
  <2>1. i + 1 \in 1 .. Len(strm) /\ strm'[i] = strm[i + 1] /\ i + 1 # 1
        /\ (i + 1 = Len(strm) <=> i = Len(strm'))
    BY <1>2, SMT
  <2>2. IF i + 1 = Len(strm) /\ sm.closed THEN strm[i + 1].t = "trailer" /\ strm[i + 1].v = sm.err
        ELSE strm[i + 1].t = "packet" /\ strm[i + 1].v = OffStream + (i + 1) - HeaderWaits
    BY <1>5, <2>1, Zenon
  <2>3. OffStream + (i + 1) - HeaderWaits = OffStream' + i
    BY <1>1, <1>3, <1>7, SMT
  <2> QED BY <2>1, <2>2, <2>3, Zenon
<1>8. CASE sm.closed /\ Len(strm) = 1
  <2>1. strm' = <<>> /\ Len(strm') = 0 /\ TrailerWaits = 1 /\ TrailerWaits' = 0
    BY <1>2, <1>8, SMT DEF TrailerWaits
  <2>2. OffStream' = sm.n /\ OffStream = sm.n + HeaderWaits
    <3>1. Len(strm') = 0 /\ TrailerWaits = 1 /\ TrailerWaits' = 0 /\ Len(strm) = 1
      BY <1>8, <2>1, Zenon
    <3> QED BY <1>1, <1>3, <3>1, SMT DEF OffStream
  <2>3. CASE HeaderWaits = 0
    <3>1. strm[1].t = "trailer" /\ strm[1].v = sm.err /\ OffStream' = OffStream
      <4>1. 1 = Len(strm) /\ ~(1 = 1 /\ HeaderWaits = 1) /\ OffStream' = OffStream
        BY <1>8, <2>2, <2>3, <1>1, SMT
      <4> QED BY <1>5, <1>6, <1>8, <4>1, Zenon
    <3>2. \A i \in 1 .. Len(strm') : FALSE
      <4>1. 1 .. 0 = {}
        BY SMT
      <4> QED BY <2>1, <4>1, Zenon
    <3>3. HeaderWaits # 1 /\ OffStream' \in Nat
      BY <2>3, <3>1, <1>1, SMT
    <3> QED BY <1>1, <1>2, <1>3, <1>8, <2>1, <2>3, <3>1, <3>2, <3>3, Zenon
  <2>4. CASE HeaderWaits = 1
    <3>1. ~cd.codecs
      BY <2>4, SMT DEF HeaderWaits
    <3>2. OffStream = 0
      BY <3>1, Zenon DEF PullInv, Waiting
    <3> QED BY <1>1, <2>2, <2>4, <3>2, SMT
  <2> QED BY <1>3, <2>3, <2>4, Zenon
<1>9. CASE ~(sm.closed /\ Len(strm) = 1)
  <2>1. TrailerWaits' = TrailerWaits /\ TrailerWaits \in {0, 1} /\ (sm.closed => strm' # <<>>)
    <3>1. sm.closed => strm' # <<>>
      BY <1>2, <1>9, SMT
    <3> QED BY <3>1, Zenon DEF TrailerWaits
  <2>2. OffStream' = OffStream + 1 - HeaderWaits
    BY <1>1, <1>2, <1>3, <2>1, SMTT(40) DEF OffStream
  <2>3. CASE HeaderWaits = 0
    <3>1. strm[1].t = "packet" /\ strm[1].v = OffStream + 1 - HeaderWaits
      <4>1. ~(1 = 1 /\ HeaderWaits = 1)
        BY <2>3, SMT
      <4> QED BY <1>5, <1>6, <1>9, <4>1, Zenon
    <3>2. OffStream' = OffStream + 1 /\ OffStream + 1 - HeaderWaits = OffStream + 1 /\ OffStream' \in Nat /\ HeaderWaits # 1
      BY <1>1, <2>2, <2>3, SMT
    <3> QED BY <1>2, <1>3, <1>7, <2>1, <2>2, <2>3, <3>1, <3>2, Zenon
  <2>4. CASE HeaderWaits = 1
    <3>1. OffStream' = OffStream /\ HeaderWaits # 0
      BY <1>1, <2>2, <2>4, SMT
    <3>2. strm[1].t = "header"
      BY <1>5, <1>6, <2>4, Zenon
    <3> QED BY <1>1, <1>2, <1>3, <1>7, <2>1, <2>2, <2>4, <3>1, <3>2, Zenon
  <2> QED BY <1>3, <2>3, <2>4, Zenon
<1> QED BY <1>8, <1>9, Zenon

\* What waits after that is still in order.
LEMMA TakingWaits ==
  ASSUME PullInv, cd'.codecs, sm.header, strm # <<>>, strm' = Tail(strm), sm' = sm
  PROVE  Waiting'
<1>1. /\ strm' \in Seq(Responses) /\ HeaderWaits' = 0 /\ OffStream' \in Nat
      /\ \A i \in 1 .. Len(strm') :
           IF i = Len(strm') /\ sm.closed THEN strm'[i].t = "trailer" /\ strm'[i].v = sm.err
           ELSE strm'[i].t = "packet" /\ strm'[i].v = OffStream' + i
  BY TakingKeeps, Zenon
<1>2. ASSUME NEW i \in 1 .. Len(strm')
      PROVE  OffStream' + i = OffStream' + i - HeaderWaits' /\ HeaderWaits' # 1
  <2>1. i \in Int /\ OffStream' \in Int
    BY <1>1, SMT
  <2> QED BY <1>1, <2>1, SMT
<1> QED BY <1>1, <1>2, Zenon DEF Waiting

\* The header is taken, or another message in its place, which ends the pull.
LEMMA GetCodecsKeeps == PullInv /\ GetCodecs => PullInv'
<1> SUFFICES ASSUME PullInv, GetCodecs PROVE PullInv'
  OBVIOUS
<1>1. /\ ~cd.codecs /\ ~cd.closed /\ strm # <<>> /\ strm' = Tail(strm)
      /\ sm' = sm /\ recvs' = recvs /\ call' = call /\ inbox' = inbox
      /\ pulled' = pulled /\ cancels' = cancels
      /\ recvs = {} /\ call = 0 /\ pulled = <<>> /\ cancels = 0 /\ inbox = <<>>
  BY Zenon DEF GetCodecs, PullInv, Goroutines
<1>2. DOMAIN cd' = {"codecs", "closed"} /\ cd'.codecs \in BOOLEAN /\ cd'.closed \in BOOLEAN
      /\ (Head(strm).t = "header" => cd'.codecs = TRUE /\ cd'.closed = FALSE /\ ended' = ended)
      /\ (Head(strm).t # "header" => cd'.codecs = FALSE /\ cd'.closed = TRUE)
  BY <1>1, Zenon DEF GetCodecs, PullInv, PullTypes
<1>3. strm \in Seq(Responses) /\ strm' \in Seq(Responses) /\ Head(strm) = strm[1] /\ 1 \in 1 .. Len(strm)
  <2>1. strm \in Seq(Responses)
    BY Zenon DEF PullInv, PullTypes
  <2>2. strm' \in Seq(Responses) /\ Head(strm) = strm[1] /\ Len(strm) \in Nat /\ Len(strm) >= 1
    BY <1>1, <2>1, TakingOff, Zenon
  <2>3. 1 \in 1 .. Len(strm)
    BY <2>2, SMT
  <2> QED BY <2>1, <2>2, <2>3, Zenon
<1>4. PullTypes'
  BY <1>1, <1>2, <1>3, Zenon DEF PullInv, PullTypes
<1>5. ended = ""
  BY <1>1, Zenon DEF PullInv, Ending
<1>6. OffStream = 0 /\ (Head(strm).t = "header" <=> sm.header) /\ (sm.header <=> HeaderWaits = 1)
  <2>1. sm.header <=> HeaderWaits = 1
    <3>1. 1 # 0
      BY SMT
    <3> QED BY <1>1, <3>1, Zenon DEF HeaderWaits
  <2>2. IF HeaderWaits = 1 THEN strm[1].t = "header" ELSE strm[1].t \in {"trailer", "packet"}
    BY <1>3, Zenon DEF PullInv, Waiting
  <2> QED BY <1>1, <1>3, <2>1, <2>2, Zenon DEF PullInv, Waiting
<1>7. OffStream' = OffStream => Accounted'
  <2>1. OffStream' = OffStream => Arrived' = Arrived /\ Lost' = Lost
    BY <1>1, Zenon DEF Arrived, ArrivedIn, Lost
  <2> QED BY <1>1, <2>1, Zenon DEF PullInv, Accounted
<1>8. CASE sm.header
  <2>1. cd'.codecs = TRUE /\ cd'.closed = FALSE /\ ended' = ended
    BY <1>2, <1>6, <1>8, Zenon
  <2>2. OffStream' = OffStream /\ (sm.closed => strm' # <<>>)
    BY <1>1, <1>6, <1>8, <2>1, TakingKeeps, Zenon
  <2>3. Waiting'
    BY <1>1, <1>8, <2>1, TakingWaits, Zenon
  <2>4. Goroutines'
    BY <1>1, <2>1, Zenon DEF PullInv, Goroutines
  <2>5. Ending'
    BY <1>1, <1>5, <2>1, <2>2, Zenon DEF Ending
  <2> QED BY <1>4, <1>7, <2>2, <2>3, <2>4, <2>5, Zenon DEF PullInv
<1>9. CASE ~sm.header
  <2>1. cd'.codecs = FALSE /\ cd'.closed = TRUE
    BY <1>2, <1>6, <1>9, Zenon
  <2>2. sm.n = 0 /\ HeaderWaits = 0 /\ HeaderWaits' = 0 /\ TrailerWaits \in {0, 1}
    BY <1>1, <1>9, Zenon DEF PullInv, Waiting, HeaderWaits, TrailerWaits
  <2>3. Len(strm) = 1
    <3>1. Len(strm) \in Nat /\ Len(strm) >= 1
      BY <1>1, <1>3, TakingOff, Zenon
    <3>2. 0 = 0 - (Len(strm) - 0 - TrailerWaits)
      BY <1>6, <2>2, Zenon DEF OffStream
    <3>3. ASSUME NEW k \in Nat, NEW w \in {0, 1}, k >= 1, 0 = 0 - (k - 0 - w) PROVE k = 1
      BY <3>3, SMT
    <3> QED BY <2>2, <3>1, <3>2, <3>3, Zenon
  <2>4. strm' = <<>> /\ Len(strm') = 0
    <3>1. Len(strm') = Len(strm) - 1 /\ (strm' = <<>> <=> Len(strm') = 0)
      BY <1>1, <1>3, TakingOff, Zenon
    <3> QED BY <2>3, <3>1, SMT
  <2>5. TrailerWaits' = 0 /\ sm'.n = 0
    BY <1>1, <2>2, <2>4, Zenon DEF TrailerWaits
  <2>6. OffStream' = 0
    <3>1. Len(strm') = 0
      BY <2>4, Zenon
    <3> QED BY <2>2, <2>5, <3>1, SMT DEF OffStream
  <2>7. Waiting'
    <3>1. 0 \in Nat /\ 1 .. 0 = {}
      BY SMT
    <3> QED BY <1>1, <1>9, <2>1, <2>2, <2>4, <2>6, <3>1, Zenon DEF Waiting
  <2>8. Goroutines'
    BY <1>1, <2>1, Zenon DEF PullInv, Goroutines
  <2>9. Ending'
    BY <1>1, <2>1, Zenon DEF Ending
  <2> QED BY <1>4, <1>6, <1>7, <2>6, <2>7, <2>8, <2>9, Zenon DEF PullInv
<1> QED BY <1>8, <1>9, Zenon

\* A call that starts, ends or is abandoned touches the stream not at all.
LEMMA StreamKeeps == ASSUME Waiting, sm' = sm, strm' = strm, cd' = cd PROVE Waiting' /\ OffStream' = OffStream
<1>1. HeaderWaits' = HeaderWaits /\ TrailerWaits' = TrailerWaits
  BY Zenon DEF HeaderWaits, TrailerWaits
<1>2. OffStream' = OffStream
  BY <1>1, Zenon DEF OffStream
<1> QED BY <1>1, <1>2, Zenon DEF Waiting

\* A call starts its goroutine.
LEMMA PullPacketKeeps == PullInv /\ PullPacket => PullInv'
<1> SUFFICES ASSUME PullInv, PullPacket PROVE PullInv'
  OBVIOUS
<1>1. /\ cd.codecs /\ call = 0 /\ ended = "" /\ call' = cancels + 1 /\ recvs' = recvs \cup {cancels + 1}
      /\ inbox' = <<>> /\ inbox = <<>> /\ sm' = sm /\ strm' = strm /\ cd' = cd
      /\ pulled' = pulled /\ ended' = ended /\ cancels' = cancels /\ cancels \in Nat /\ 0 \notin recvs
      /\ recvs \subseteq 1 .. cancels \cup {call}
  BY Zenon DEF PullPacket, PullInv, Goroutines, PullTypes
<1>2. Waiting' /\ OffStream' = OffStream
  BY <1>1, StreamKeeps, Zenon DEF PullInv
<1>3. cancels + 1 \in Nat /\ cancels + 1 # 0 /\ (cancels = 0 => 1 .. cancels = {}) /\ cancels + 1 \notin 1 .. cancels
  <2>1. cancels \in Nat
    BY <1>1, Zenon
  <2> QED BY <2>1, SMT
<1>4. recvs \subseteq 1 .. cancels
  BY <1>1, Zenon
<1>5. PullTypes'
  BY <1>1, <1>3, Zenon DEF PullInv, PullTypes
<1>6. Goroutines'
  BY <1>1, <1>3, <1>4, Zenon DEF Goroutines
<1>7. Accounted'
  <2>1. recvs' \ {call'} = recvs \ {call} 
    BY <1>1, <1>3, <1>4, Zenon
  <2>2. Arrived' = Arrived /\ Lost' = Lost
    BY <1>1, <1>2, Zenon DEF Arrived, Lost
  <2> QED BY <1>1, <1>2, <2>1, <2>2, Zenon DEF PullInv, Accounted
<1>8. Ending'
  BY <1>1, Zenon DEF PullInv, Ending, TheEnd
<1> QED BY <1>2, <1>5, <1>6, <1>7, <1>8, Zenon DEF PullInv

\* What a goroutine leaves when it returns: in the inbox if it belongs to the
\* call, nowhere otherwise.
LEMMA ReturningKeeps ==
  ASSUME PullInv, NEW g \in recvs, NEW m \in Responses, recvs' = recvs \ {g}, inbox' = Deliver(g, m),
         call' = call, pulled' = pulled, ended' = ended, cancels' = cancels, cd' = cd
  PROVE  /\ Goroutines' /\ cd.codecs
         /\ recvs' \in SUBSET Nat /\ inbox' \in Seq(Responses) /\ Len(inbox') <= 1
         /\ g = call => inbox = <<>> /\ inbox' = <<m>> /\ recvs' \ {call'} = recvs \ {call}
         /\ g # call => /\ inbox' = inbox /\ cancels # 0
                        /\ Cardinality(recvs' \ {call'}) = Cardinality(recvs \ {call}) - 1
<1>1. /\ recvs \subseteq Nat /\ inbox \in Seq(Responses) /\ Len(inbox) <= 1 /\ g # 0
      /\ recvs \subseteq 1 .. cancels \cup {call} /\ 0 \notin recvs /\ call \in {0, cancels + 1}
      /\ (call = 0 => inbox = <<>>) /\ (call # 0 => (inbox = <<>> <=> call \in recvs))
      /\ (cancels = 0 => recvs \subseteq {call}) /\ cd.codecs
  BY Zenon DEF PullInv, PullTypes, Goroutines
<1>2. <<m>> \in Seq(Responses) /\ Len(<<m>>) <= 1 /\ <<m>> # <<>>
  BY SMT
<1>3. CASE g = call
  <2>1. inbox' = <<m>> /\ inbox = <<>> /\ call # 0
    BY <1>1, <1>3, Zenon DEF Deliver
  <2>2. recvs' \ {call'} = recvs \ {call} /\ call' \notin recvs' /\ recvs' \subseteq recvs
    BY <1>3, Zenon
  <2>3. Goroutines'
    BY <1>1, <1>2, <2>1, <2>2, Zenon DEF Goroutines
  <2> QED BY <1>1, <1>2, <1>3, <2>1, <2>2, <2>3, Zenon
<1>4. CASE g # call
  <2>1. inbox' = inbox /\ cancels # 0 /\ (call \in recvs' <=> call \in recvs) /\ recvs' \subseteq recvs
    BY <1>1, <1>4, Zenon DEF Deliver
  <2>2. Goroutines'
    BY <1>1, <2>1, Zenon DEF Goroutines
  <2>3. Cardinality(recvs' \ {call'}) = Cardinality(recvs \ {call}) - 1
    <3>1. IsFiniteSet(recvs \ {call})
      BY CountsAreFinite, Zenon DEF PullInv
    <3>2. recvs' \ {call'} = (recvs \ {call}) \ {g} /\ g \in recvs \ {call}
      BY <1>4, Zenon
    <3> QED BY <3>1, <3>2, FS_RemoveElement, Zenon
  <2> QED BY <1>1, <1>4, <2>1, <2>2, <2>3, Zenon
<1> QED BY <1>3, <1>4, Zenon

\* The packet that waits in the inbox.
LEMMA InboxArrives ==
  ASSUME NEW p, NEW b \in Seq(Responses), Len(b) <= 1
  PROVE  /\ b = <<>> => ArrivedIn(p, b) = {p[i] : i \in 1 .. Len(p)}
         /\ b # <<>> => b[1] \in Responses
         /\ b # <<>> /\ b[1].t = "packet" => ArrivedIn(p, b) = {p[i] : i \in 1 .. Len(p)} \cup {b[1].v}
         /\ b # <<>> /\ b[1].t # "packet" => ArrivedIn(p, b) = {p[i] : i \in 1 .. Len(p)}
<1>1. b = <<>> => 1 .. Len(b) = {}
  BY SMT
<1>2. b # <<>> => b[1] \in Responses /\ 1 .. Len(b) = {1}
  <2> SUFFICES ASSUME b # <<>> PROVE b[1] \in Responses /\ 1 .. Len(b) = {1}
    OBVIOUS
  <2>1. Len(b) = 1
    BY NothingLeft, SMTT(40)
  <2> QED BY <2>1, SMT
<1> QED BY <1>1, <1>2, Zenon DEF ArrivedIn

\* A goroutine takes a message: for its call, or with it into nowhere, in which
\* case the call was abandoned and the goroutine no longer counts.
LEMMA RecvMsgKeeps == ASSUME PullInv, NEW g \in recvs, RecvMsg(g) PROVE PullInv'
<1> DEFINE m == Head(strm)
<1>1. /\ strm # <<>> /\ recvs' = recvs \ {g} /\ strm' = Tail(strm) /\ inbox' = Deliver(g, m)
      /\ sm' = sm /\ cd' = cd /\ call' = call /\ pulled' = pulled /\ ended' = ended /\ cancels' = cancels
  BY Zenon DEF RecvMsg
<1>2. cd.codecs /\ sm.header /\ HeaderWaits = 0 /\ g # 0
  BY Zenon DEF PullInv, Goroutines, Waiting, HeaderWaits
<1>3. /\ strm' \in Seq(Responses) /\ m \in Responses /\ OffStream' \in Nat
      /\ \/ /\ m.t = "packet" /\ m.v = OffStream + 1 /\ OffStream' = OffStream + 1
            /\ sm.closed => strm' # <<>>
         \/ /\ m.t = "trailer" /\ m.v = sm.err /\ OffStream' = OffStream
            /\ sm.closed /\ strm' = <<>>
  BY <1>1, <1>2, TakingKeeps, Zenon
<1>4. Waiting'
  BY <1>1, <1>2, TakingWaits, Zenon
<1> HIDE DEF m
<1>5. /\ Goroutines'
      /\ recvs' \in SUBSET Nat /\ inbox' \in Seq(Responses) /\ Len(inbox') <= 1
      /\ g = call => inbox = <<>> /\ inbox' = <<m>> /\ recvs' \ {call'} = recvs \ {call}
      /\ g # call => /\ inbox' = inbox /\ cancels # 0
                     /\ Cardinality(recvs' \ {call'}) = Cardinality(recvs \ {call}) - 1
  BY <1>1, <1>3, ReturningKeeps, Zenon
<1>6. PullTypes'
  BY <1>1, <1>3, <1>5, Zenon DEF PullInv, PullTypes
<1> DEFINE P == {pulled[i] : i \in 1 .. Len(pulled)}
<1>7. /\ g = call => Arrived = P /\ Arrived' = IF m.t = "packet" THEN P \cup {m.v} ELSE P
      /\ g # call => Arrived' = Arrived
  <2>1. g = call => Arrived = P
    BY <1>5, InboxArrives, Zenon DEF PullInv, PullTypes, Arrived
  <2>2. g = call => inbox'[1] = m /\ inbox' # <<>>
    BY <1>5, SMTT(40)
  <2>3. g = call => Arrived' = IF m.t = "packet" THEN P \cup {m.v} ELSE P
    BY <1>1, <1>5, <2>2, InboxArrives, ZenonT(60) DEF Arrived
  <2>4. g # call => Arrived' = Arrived
    BY <1>1, <1>5, Zenon DEF Arrived
  <2> QED BY <2>1, <2>3, <2>4, Zenon
<1>8. /\ Arrived \subseteq 1 .. OffStream /\ OffStream \in Nat /\ cancels \in Nat
      /\ \A i, j \in 1 .. Len(pulled) : i < j => pulled[i] < pulled[j]
      /\ inbox # <<>> /\ inbox[1].t = "packet" => \A i \in 1 .. Len(pulled) : pulled[i] < inbox[1].v
      /\ Cardinality(Lost) + Cardinality(recvs \ {call}) <= cancels
  BY Zenon DEF PullInv, Accounted, Waiting, PullTypes
<1>9. /\ IsFiniteSet(Lost) /\ Cardinality(Lost) \in Nat /\ Cardinality(recvs \ {call}) \in Nat
  BY CountsAreFinite, Zenon DEF PullInv
<1>10. Arrived' \subseteq 1 .. OffStream' /\ Lost' \subseteq Lost \cup {OffStream + 1}
       /\ (g = call \/ m.t # "packet" => Lost' \subseteq Lost)
  <2>1. 1 .. (OffStream + 1) = (1 .. OffStream) \cup {OffStream + 1}
    BY <1>8, SMT
  <2> HIDE DEF P
  <2>2. CASE g = call
    BY <1>3, <1>7, <1>8, <2>1, <2>2, Zenon DEF Lost
  <2>3. CASE g # call
    BY <1>3, <1>7, <1>8, <2>1, <2>3, Zenon DEF Lost
  <2> QED BY <2>2, <2>3, Zenon
<1>11. Cardinality(Lost') + Cardinality(recvs' \ {call'}) <= cancels'
  <2>1. /\ Cardinality(Lost') <= Cardinality(Lost) + 1 /\ Cardinality(Lost') \in Nat
        /\ Lost' \subseteq Lost => Cardinality(Lost') <= Cardinality(Lost)
    BY <1>9, <1>10, CountGrows, Zenon
  <2>2. CASE g = call
    <3>1. Cardinality(Lost') <= Cardinality(Lost) /\ Cardinality(recvs' \ {call'}) = Cardinality(recvs \ {call})
      BY <1>5, <1>10, <2>1, <2>2, Zenon
    <3> QED BY <1>1, <1>8, <1>9, <2>1, <3>1, SMT
  <2>3. CASE g # call
    <3>1. Cardinality(recvs' \ {call'}) = Cardinality(recvs \ {call}) - 1
      BY <1>5, <2>3, Zenon
    <3> QED BY <1>1, <1>8, <1>9, <2>1, <3>1, SMT
  <2> QED BY <2>2, <2>3, Zenon
<1>12. inbox' # <<>> /\ inbox'[1].t = "packet" => \A i \in 1 .. Len(pulled') : pulled'[i] < inbox'[1].v
  <2>1. CASE g = call
    <3> SUFFICES ASSUME m.t = "packet", NEW i \in 1 .. Len(pulled) PROVE pulled[i] < m.v
      <4>1. g = call => inbox'[1] = m
        BY <1>5, SMT
      <4> QED BY <1>1, <2>1, <4>1, Zenon
    <3>1. m.v = OffStream + 1
      BY <1>3, Zenon
    <3>2. pulled[i] \in 1 .. OffStream
      BY <1>7, <1>8, <2>1, Zenon
    <3> QED BY <1>8, <3>1, <3>2, SMT
  <2>2. CASE g # call
    BY <1>1, <1>5, <1>8, <2>2, Zenon
  <2> QED BY <2>1, <2>2, Zenon
<1>13. Accounted'
  BY <1>1, <1>8, <1>10, <1>11, <1>12, Zenon DEF Accounted
<1>14. Ending'
  <2>1. CASE g = call
    <3>1. inbox'[1] = m /\ inbox' # <<>> /\ ended = "" /\ ended' = "" /\ inbox = <<>>
      <4>1. g = call => inbox'[1] = m /\ inbox' # <<>>
        BY <1>5, SMTT(40)
      <4> QED BY <1>1, <1>2, <1>5, <2>1, <4>1, Zenon DEF PullInv, Ending
    <3> QED BY <1>1, <1>3, <3>1, Zenon DEF Ending
  <2>2. CASE g # call
    BY <1>1, <1>5, <2>2, Zenon DEF PullInv, Ending
  <2> QED BY <2>1, <2>2, Zenon
<1> QED BY <1>4, <1>5, <1>6, <1>13, <1>14, Zenon DEF PullInv

\* A goroutine takes the error of the stream, which is no message.
LEMMA RecvErrKeeps == ASSUME PullInv, NEW g \in recvs, RecvErr(g) PROVE PullInv'
<1> DEFINE m == [t |-> "error", v |-> IF cd.closed THEN "cancelled" ELSE "EOF"]
<1>1. /\ cd.closed \/ (sm.closed /\ strm = <<>>)
      /\ recvs' = recvs \ {g} /\ strm' = strm /\ inbox' = Deliver(g, m)
      /\ sm' = sm /\ cd' = cd /\ call' = call /\ pulled' = pulled /\ ended' = ended /\ cancels' = cancels
  BY Zenon DEF RecvErr
<1>2. m \in Responses /\ m.t = "error" /\ g # 0
  BY Zenon DEF Responses, Reasons, PullInv, Goroutines
<1>3. Waiting' /\ OffStream' = OffStream
  BY <1>1, StreamKeeps, Zenon DEF PullInv
<1> HIDE DEF m
<1>4. /\ Goroutines'
      /\ recvs' \in SUBSET Nat /\ inbox' \in Seq(Responses) /\ Len(inbox') <= 1
      /\ g = call => inbox = <<>> /\ inbox' = <<m>> /\ recvs' \ {call'} = recvs \ {call}
      /\ g # call => /\ inbox' = inbox /\ cancels # 0
                     /\ Cardinality(recvs' \ {call'}) = Cardinality(recvs \ {call}) - 1
  BY <1>1, <1>2, ReturningKeeps, Zenon
<1>5. g = call => inbox'[1] = m /\ inbox' # <<>>
  BY <1>4, SMTT(40)
<1>6. PullTypes'
  BY <1>1, <1>4, Zenon DEF PullInv, PullTypes
<1>7. Arrived' = Arrived /\ Lost' = Lost
  <2>1. g = call => Arrived = {pulled[i] : i \in 1 .. Len(pulled)}
    BY <1>4, InboxArrives, Zenon DEF PullInv, PullTypes, Arrived
  <2>2. g = call => Arrived' = {pulled[i] : i \in 1 .. Len(pulled)}
    <3>1. g = call => inbox' # <<>> /\ inbox'[1].t # "packet"
      BY <1>2, <1>5, Zenon
    <3>2. g = call => ArrivedIn(pulled', inbox') = {pulled'[i] : i \in 1 .. Len(pulled')}
      BY <1>4, <3>1, InboxArrives, Zenon
    <3> QED BY <1>1, <3>2, Zenon DEF Arrived
  <2>3. g # call => Arrived' = Arrived
    BY <1>1, <1>4, Zenon DEF Arrived
  <2> QED BY <1>3, <2>1, <2>2, <2>3, Zenon DEF Lost
<1>8. Accounted'
  <2>1. Cardinality(Lost') + Cardinality(recvs' \ {call'}) <= cancels'
    <3>1. /\ Cardinality(Lost) \in Nat /\ Cardinality(recvs \ {call}) \in Nat /\ cancels \in Nat
          /\ Cardinality(Lost) + Cardinality(recvs \ {call}) <= cancels
      BY CountsAreFinite, Zenon DEF PullInv, PullTypes, Accounted
    <3>2. CASE g = call
      BY <1>1, <1>4, <1>7, <3>1, <3>2, Zenon
    <3>3. CASE g # call
      <4>1. Cardinality(recvs' \ {call'}) = Cardinality(recvs \ {call}) - 1 /\ Lost' = Lost
        BY <1>4, <1>7, <3>3, Zenon
      <4> QED BY <1>1, <3>1, <4>1, SMT
    <3> QED BY <3>2, <3>3, Zenon
  <2>2. inbox' # <<>> /\ inbox'[1].t = "packet" => inbox' = inbox
    BY <1>2, <1>4, <1>5, Zenon
  <2> QED BY <1>1, <1>3, <1>7, <2>1, <2>2, Zenon DEF PullInv, Accounted
<1>9. Ending'
  <2>1. CASE g = call
    <3>1. ended = "" /\ inbox = <<>>
      BY <1>2, <1>4, <2>1, Zenon DEF PullInv, Ending
    <3> QED BY <1>1, <1>5, <2>1, <3>1, Zenon DEF PullInv, Ending
  <2>2. CASE g # call
    BY <1>1, <1>4, <2>2, Zenon DEF PullInv, Ending
  <2> QED BY <2>1, <2>2, Zenon
<1> QED BY <1>3, <1>4, <1>6, <1>8, <1>9, Zenon DEF PullInv

\* A call returns what its goroutine left.
LEMMA PullReturnsKeeps == PullInv /\ PullReturns => PullInv'
<1> SUFFICES ASSUME PullInv, PullReturns PROVE PullInv'
  OBVIOUS
<1> DEFINE m == inbox[1]
<1>1. /\ call # 0 /\ inbox # <<>> /\ call' = 0 /\ inbox' = <<>>
      /\ pulled' = (IF m.t = "packet" THEN Append(pulled, m.v) ELSE pulled)
      /\ ended' = ErrorOf(m)
      /\ sm' = sm /\ strm' = strm /\ cd' = cd /\ recvs' = recvs /\ cancels' = cancels
  BY Zenon DEF PullReturns
<1>2. Waiting' /\ OffStream' = OffStream
  BY <1>1, StreamKeeps, Zenon DEF PullInv
<1>3. /\ recvs \subseteq Nat /\ pulled \in Seq(Nat) /\ cancels \in Nat /\ call \notin recvs /\ 0 \notin recvs
      /\ inbox \in Seq(Responses) /\ Len(inbox) <= 1 /\ ended = "" /\ cd.codecs
      /\ recvs \subseteq 1 .. cancels
  BY <1>1, Zenon DEF PullInv, PullTypes, Goroutines, Ending
<1>4. /\ m.t = "packet" => Arrived = {pulled[i] : i \in 1 .. Len(pulled)} \cup {m.v}
      /\ m.t # "packet" => Arrived = {pulled[i] : i \in 1 .. Len(pulled)}
  BY <1>1, <1>3, InboxArrives, Zenon DEF Arrived
<1>5. /\ Arrived \subseteq 1 .. OffStream /\ OffStream \in Nat
      /\ m.t = "packet" => \A i \in 1 .. Len(pulled) : pulled[i] < m.v
      /\ \A i, j \in 1 .. Len(pulled) : i < j => pulled[i] < pulled[j]
  BY <1>1, Zenon DEF PullInv, Accounted, Waiting
<1>6. m.t = "packet" => m.v \in Nat
  <2>1. 1 .. OffStream \subseteq Nat
    BY <1>5, SMT
  <2> QED BY <1>4, <1>5, <2>1, Zenon
<1> HIDE DEF m
<1>7. /\ pulled' \in Seq(Nat)
      /\ {pulled'[i] : i \in 1 .. Len(pulled')} = Arrived
      /\ \A i, j \in 1 .. Len(pulled') : i < j => pulled'[i] < pulled'[j]
  <2>1. CASE m.t = "packet"
    <3>1. pulled' = Append(pulled, m.v) /\ m.v \in Nat
      BY <1>1, <1>6, <2>1, Zenon
    <3>2. /\ pulled' \in Seq(Nat) /\ Len(pulled') = Len(pulled) + 1 /\ Len(pulled) \in Nat
          /\ \A i \in 1 .. Len(pulled) : pulled'[i] = pulled[i]
          /\ pulled'[Len(pulled) + 1] = m.v
      <4>1. pulled \in Seq(Nat)
        BY <1>3, Zenon
      <4> QED BY <3>1, <4>1, SMT
    <3>3. 1 .. Len(pulled') = (1 .. Len(pulled)) \cup {Len(pulled) + 1}
      BY <3>2, SMT
    <3>4. {pulled'[i] : i \in 1 .. Len(pulled')} = {pulled[i] : i \in 1 .. Len(pulled)} \cup {m.v}
      BY <3>2, <3>3, Zenon
    <3>5. ASSUME NEW i \in 1 .. Len(pulled'), NEW j \in 1 .. Len(pulled'), i < j
          PROVE  pulled'[i] < pulled'[j]
      <4>1. i \in 1 .. Len(pulled) /\ (j \in 1 .. Len(pulled) \/ j = Len(pulled) + 1)
        BY <3>2, <3>5, SMTT(40)
      <4>2. \A k \in 1 .. Len(pulled) : pulled[k] < m.v
        BY <1>5, <2>1, Zenon
      <4>3. CASE j \in 1 .. Len(pulled)
        BY <1>5, <3>2, <3>5, <4>1, <4>3, Zenon
      <4>4. CASE j = Len(pulled) + 1
        BY <3>2, <4>1, <4>2, <4>4, Zenon
      <4> QED BY <4>1, <4>3, <4>4, Zenon
    <3> QED BY <1>4, <2>1, <3>2, <3>4, <3>5, Zenon
  <2>2. CASE m.t # "packet"
    BY <1>1, <1>3, <1>4, <1>5, <2>2, Zenon
  <2> QED BY <2>1, <2>2, Zenon
<1>8. <<>> \in Seq(Responses) /\ Len(<<>>) <= 1 /\ 0 \in Nat /\ (cancels = 0 => 1 .. cancels = {})
  BY SMT
<1>9. PullTypes'
  BY <1>1, <1>3, <1>7, <1>8, Zenon DEF PullInv, PullTypes
<1>10. Goroutines'
  BY <1>1, <1>3, <1>8, Zenon DEF Goroutines
<1>11. Accounted'
  <2>1. Arrived' = Arrived /\ Lost' = Lost
    <3>1. inbox' \in Seq(Responses) /\ Len(inbox') <= 1 /\ inbox' = <<>>
      BY <1>1, <1>8, Zenon
    <3>2. ArrivedIn(pulled', inbox') = {pulled'[i] : i \in 1 .. Len(pulled')}
      BY <3>1, InboxArrives, Zenon
    <3> QED BY <1>2, <1>7, <3>2, Zenon DEF Arrived, Lost
  <2>2. recvs' \ {call'} = recvs \ {call}
    BY <1>1, <1>3, Zenon
  <2> QED BY <1>1, <1>2, <1>5, <1>7, <2>1, <2>2, Zenon DEF PullInv, Accounted
<1>12. Ending'
  <2>1. m.t = "packet" => ended' = ""
    BY <1>1, Zenon DEF ErrorOf
  <2>2. m.t = "trailer" /\ m.v = sm.err => ended' = TheEnd /\ ended' # ""
    BY <1>1, Zenon DEF ErrorOf, TheEnd
  <2>3. TheEnd' = TheEnd
    BY <1>1, Zenon DEF TheEnd
  <2>4. /\ m.t # "packet" => cd.closed \/ (sm.closed /\ strm = <<>>)
        /\ ~cd.closed /\ cancels = 0 =>
             /\ m.t # "packet" => m.t = "trailer" /\ m.v = sm.err
             /\ sm.closed /\ strm = <<>> => m.t = "trailer"
    BY <1>1, <1>3, Zenon DEF PullInv, Ending, m
  <2>5. ended' # "" => cd'.closed \/ (sm'.closed /\ strm' = <<>>)
    BY <1>1, <2>1, <2>4, Zenon
  <2>6. ~cd'.closed /\ cancels' = 0 /\ ended' # "" => ended' = TheEnd'
    BY <1>1, <2>1, <2>2, <2>3, <2>4, Zenon
  <2>7. ~cd'.closed /\ cancels' = 0 /\ sm'.closed /\ strm' = <<>> => ended' # ""
    <3>1. "trailer" # "packet"
      OBVIOUS
    <3> QED BY <1>1, <2>2, <2>4, <3>1, Zenon
  <2> QED BY <1>1, <2>5, <2>6, <2>7, Zenon DEF Ending
<1> QED BY <1>2, <1>9, <1>10, <1>11, <1>12, Zenon DEF PullInv

\* A call is abandoned: with the message in its inbox, or with a goroutine that
\* will take one.
LEMMA ReturnCancelledKeeps == PullInv /\ ReturnCancelled => PullInv'
<1> SUFFICES ASSUME PullInv, ReturnCancelled PROVE PullInv'
  OBVIOUS
<1>1. /\ call # 0 /\ call' = 0 /\ inbox' = <<>> /\ cancels' = cancels + 1 /\ pulled' = pulled /\ ended' = ended
      /\ sm' = sm /\ strm' = strm /\ cd' = cd /\ recvs' = recvs
  BY Zenon DEF ReturnCancelled
<1>2. Waiting' /\ OffStream' = OffStream
  BY <1>1, StreamKeeps, Zenon DEF PullInv
<1>3. /\ recvs \subseteq Nat /\ cancels \in Nat /\ 0 \notin recvs /\ call = cancels + 1
      /\ inbox \in Seq(Responses) /\ Len(inbox) <= 1 /\ ended = "" /\ cd.codecs
      /\ recvs \subseteq 1 .. cancels \cup {cancels + 1} /\ (inbox = <<>> <=> call \in recvs)
  BY <1>1, Zenon DEF PullInv, PullTypes, Goroutines, Ending
<1>4. /\ cancels + 1 \in Nat /\ 1 .. (cancels + 1) = 1 .. cancels \cup {cancels + 1} /\ cancels + 1 # 0
      /\ <<>> \in Seq(Responses) /\ Len(<<>>) <= 1 /\ 0 \in Nat
  <2>1. cancels \in Nat
    BY <1>3, Zenon
  <2> QED BY <2>1, SMT
<1>5. PullTypes'
  BY <1>1, <1>3, <1>4, Zenon DEF PullInv, PullTypes
<1>6. Goroutines'
  BY <1>1, <1>3, <1>4, Zenon DEF Goroutines
<1>7. /\ Arrived \subseteq 1 .. OffStream /\ IsFiniteSet(Lost) /\ Cardinality(Lost) \in Nat
      /\ IsFiniteSet(recvs \ {call}) /\ Cardinality(recvs \ {call}) \in Nat
      /\ Cardinality(Lost) + Cardinality(recvs \ {call}) <= cancels
  BY CountsAreFinite, Zenon DEF PullInv, Accounted
<1>8. Arrived' = {pulled[i] : i \in 1 .. Len(pulled)} /\ Arrived' \subseteq Arrived
  <2>1. inbox' \in Seq(Responses) /\ Len(inbox') <= 1 /\ inbox' = <<>>
    BY <1>1, <1>4, Zenon
  <2>2. ArrivedIn(pulled', inbox') = {pulled'[i] : i \in 1 .. Len(pulled')}
    BY <2>1, InboxArrives, Zenon
  <2> QED BY <1>1, <2>2, Zenon DEF Arrived, ArrivedIn
<1>9. Cardinality(Lost') + Cardinality(recvs' \ {call'}) <= cancels'
  <2>1. CASE inbox = <<>>
    <3>1. Lost' = Lost
      BY <1>2, <1>3, <1>8, <2>1, InboxArrives, Zenon DEF Lost, Arrived
    <3>2. recvs' \ {call'} \subseteq (recvs \ {call}) \cup {call}
      BY <1>1, Zenon
    <3>3. Cardinality(recvs' \ {call'}) <= Cardinality(recvs \ {call}) + 1 /\ Cardinality(recvs' \ {call'}) \in Nat
      BY <1>7, <3>2, CountGrows, Zenon
    <3>4. cancels \in Nat /\ cancels' = cancels + 1
      BY <1>1, <1>3, Zenon
    <3> QED BY <1>7, <3>1, <3>3, <3>4, SMT
  <2>2. CASE inbox # <<>>
    <3>1. recvs' \ {call'} = recvs \ {call}
      BY <1>1, <1>3, <2>2, Zenon
    <3>2. Lost' \subseteq Lost \cup {inbox[1].v}
      BY <1>2, <1>3, <1>8, <2>2, InboxArrives, ZenonT(60) DEF Lost, Arrived
    <3>3. Cardinality(Lost') <= Cardinality(Lost) + 1 /\ Cardinality(Lost') \in Nat
      BY <1>7, <3>2, CountGrows, Zenon
    <3>4. cancels \in Nat /\ cancels' = cancels + 1
      BY <1>1, <1>3, Zenon
    <3>5. Cardinality(recvs' \ {call'}) = Cardinality(recvs \ {call})
      BY <3>1, Zenon
    <3> QED BY <1>7, <3>3, <3>4, <3>5, SMT
  <2> QED BY <2>1, <2>2, Zenon
<1>10. Accounted'
  BY <1>1, <1>2, <1>7, <1>8, <1>9, Zenon DEF PullInv, Accounted
<1>11. Ending'
  BY <1>1, <1>3, <1>4, Zenon DEF Ending
<1> QED BY <1>2, <1>5, <1>6, <1>10, <1>11, Zenon DEF PullInv

\* Close changes what the goroutines will find, nothing that was taken.
LEMMA ClosePullKeeps == PullInv /\ ClosePull => PullInv'
<1> SUFFICES ASSUME PullInv, ClosePull PROVE PullInv'
  OBVIOUS
<1>1. /\ cd'.closed = TRUE /\ cd'.codecs = cd.codecs /\ DOMAIN cd' = {"codecs", "closed"}
      /\ sm' = sm /\ strm' = strm /\ recvs' = recvs /\ call' = call /\ inbox' = inbox
      /\ pulled' = pulled /\ ended' = ended /\ cancels' = cancels
  BY Zenon DEF ClosePull, PullInv, PullTypes
<1>2. PullTypes'
  BY <1>1, Zenon DEF PullInv, PullTypes
<1>3. Goroutines'
  BY <1>1, Zenon DEF PullInv, Goroutines
<1>4. HeaderWaits' = HeaderWaits /\ TrailerWaits' = TrailerWaits
  BY <1>1, Zenon DEF HeaderWaits, TrailerWaits
<1>5. OffStream' = OffStream
  BY <1>1, <1>4, Zenon DEF OffStream
<1>6. Waiting'
  BY <1>1, <1>4, <1>5, Zenon DEF PullInv, Waiting
<1>7. Accounted'
  <2>1. Arrived' = Arrived /\ Lost' = Lost
    BY <1>1, <1>5, Zenon DEF Arrived, ArrivedIn, Lost
  <2> QED BY <1>1, <1>5, <2>1, Zenon DEF PullInv, Accounted
<1>8. Ending'
  BY <1>1, Zenon DEF PullInv, Ending
<1> QED BY <1>2, <1>3, <1>6, <1>7, <1>8, Zenon DEF PullInv

\* Nothing is sent, taken or lost at the start.
LEMMA PullStarts == PullInit => PullInv
<1> SUFFICES ASSUME PullInit PROVE PullInv
  OBVIOUS
<1>1. /\ DOMAIN sm = {"header", "closed", "n", "err"} /\ DOMAIN cd = {"codecs", "closed"}
      /\ sm.header = FALSE /\ sm.closed = FALSE /\ sm.n = 0 /\ cd.codecs = FALSE /\ cd.closed = FALSE
      /\ strm = <<>> /\ recvs = {} /\ call = 0 /\ inbox = <<>> /\ pulled = <<>> /\ ended = "" /\ cancels = 0
  BY Zenon DEF PullInit
<1>2. /\ 0 \in Nat /\ <<>> \in Seq(Responses) /\ <<>> \in Seq(Nat) /\ Len(<<>>) <= 1 /\ 1 .. 0 = {}
      /\ Len(<<>>) = 0
  BY SMT
<1>3. PullTypes /\ Goroutines
  BY <1>1, <1>2, Zenon DEF PullTypes, Goroutines
<1>4. HeaderWaits = 0 /\ TrailerWaits = 0
  BY <1>1, Zenon DEF HeaderWaits, TrailerWaits
<1>5. OffStream = 0
  <2>1. OffStream = 0 - (0 - 0 - 0)
    BY <1>1, <1>2, <1>4, Zenon DEF OffStream
  <2> QED BY <2>1, SMT
<1>6. Waiting
  BY <1>1, <1>2, <1>5, Zenon DEF Waiting
<1>7. Accounted
  <2>1. Arrived = {} /\ Lost = {} /\ recvs \ {call} = {}
    BY <1>1, <1>2, <1>5, Zenon DEF Arrived, ArrivedIn, Lost
  <2>2. Cardinality({}) = 0 /\ 0 + 0 <= 0
    BY FS_EmptySet, SMT
  <2> QED BY <1>1, <1>2, <2>1, <2>2, Zenon DEF Accounted
<1>8. Ending
  BY <1>1, Zenon DEF Ending
<1> QED BY <1>3, <1>6, <1>7, <1>8, Zenon DEF PullInv

\* Each action keeps the invariant.
LEMMA PullStepKeeps == PullInv /\ [PullNext]_pullVars => PullInv'
<1> SUFFICES ASSUME PullInv, [PullNext]_pullVars PROVE PullInv'
  OBVIOUS
<1>1. CASE SendHeader
  BY <1>1, SendHeaderKeeps, Zenon
<1>2. CASE SendPacket
  BY <1>2, SendPacketKeeps, Zenon
<1>3. ASSUME NEW e, e \in Ends, SendTrailer(e) PROVE PullInv'
  BY <1>3, SendTrailerKeeps, Zenon
<1>4. CASE GetCodecs
  BY <1>4, GetCodecsKeeps, Zenon
<1>5. CASE PullPacket
  BY <1>5, PullPacketKeeps, Zenon
<1>6. CASE PullReturns
  BY <1>6, PullReturnsKeeps, Zenon
<1>7. CASE ReturnCancelled
  BY <1>7, ReturnCancelledKeeps, Zenon
<1>8. CASE ClosePull
  BY <1>8, ClosePullKeeps, Zenon
<1>9. ASSUME NEW g \in recvs, RecvMsg(g) \/ RecvErr(g) PROVE PullInv'
  BY <1>9, RecvMsgKeeps, RecvErrKeeps, Zenon
<1>10. CASE UNCHANGED pullVars
  <2>1. /\ sm' = sm /\ strm' = strm /\ cd' = cd /\ recvs' = recvs /\ call' = call /\ inbox' = inbox
        /\ pulled' = pulled /\ ended' = ended /\ cancels' = cancels
    BY <1>10, Zenon DEF pullVars
  <2>2. Waiting' /\ OffStream' = OffStream
    BY <2>1, StreamKeeps, Zenon DEF PullInv
  <2>3. Arrived' = Arrived /\ Lost' = Lost
    BY <2>1, <2>2, Zenon DEF Arrived, Lost
  <2>4. PullTypes' /\ Goroutines'
    BY <2>1, Zenon DEF PullInv, PullTypes, Goroutines
  <2>5. Accounted' /\ Ending'
    BY <2>1, <2>2, <2>3, Zenon DEF PullInv, Accounted, Ending, TheEnd
  <2> QED BY <2>2, <2>4, <2>5, Zenon DEF PullInv
<1> QED BY <1>1, <1>2, <1>3, <1>4, <1>5, <1>6, <1>7, <1>8, <1>9, <1>10, Zenon DEF PullNext, Ends

\* What is missing up to a packet that arrived is lost.
LEMMA MissingIsLost == PullInv => PullLosesOnlyAbandoned
<1> SUFFICES ASSUME PullInv PROVE PullLosesOnlyAbandoned
  OBVIOUS
<1>1. /\ pulled \in Seq(Nat) /\ sm.n \in Nat /\ OffStream \in Nat /\ cancels \in Nat
      /\ Arrived \subseteq 1 .. OffStream /\ inbox \in Seq(Responses) /\ Len(inbox) <= 1
      /\ \A i, j \in 1 .. Len(pulled) : i < j => pulled[i] < pulled[j]
      /\ inbox # <<>> /\ inbox[1].t = "packet" => \A i \in 1 .. Len(pulled) : pulled[i] < inbox[1].v
      /\ Cardinality(Lost) + Cardinality(recvs \ {call}) <= cancels
      /\ IsFiniteSet(Lost) /\ Cardinality(Lost) \in Nat /\ Cardinality(recvs \ {call}) \in Nat
  BY CountsAreFinite, Zenon DEF PullInv, PullTypes, Waiting, Accounted
<1>2. DOMAIN pulled = 1 .. Len(pulled) /\ Len(pulled) \in Nat
  BY <1>1, SMT
<1>3. \A S : S \subseteq Lost => Cardinality(S) <= cancels
  <2> SUFFICES ASSUME NEW S, S \subseteq Lost PROVE Cardinality(S) <= cancels
    OBVIOUS
  <2>1. Cardinality(S) <= Cardinality(Lost) /\ Cardinality(S) \in Nat
    BY <1>1, FS_Subset, FS_CardinalityType, Zenon
  <2> QED BY <1>1, <2>1, SMT
<1>4. pulled # <<>> => Cardinality(Missing(pulled[Len(pulled)])) <= cancels
  <2> SUFFICES ASSUME pulled # <<>> PROVE Missing(pulled[Len(pulled)]) \subseteq Lost
    BY <1>3, Zenon
  <2> DEFINE v == pulled[Len(pulled)]
  <2>1. Len(pulled) \in 1 .. Len(pulled)
    BY <1>1, SMT
  <2>2. v \in 1 .. OffStream
    BY <1>1, <2>1, Zenon DEF Arrived, ArrivedIn
  <2>3. ASSUME NEW x \in Missing(v) PROVE x \in Lost
    <3>1. x \in 1 .. v /\ x \notin {pulled[i] : i \in 1 .. Len(pulled)}
      BY <1>2, Zenon DEF Missing
    <3>2. x \in 1 .. OffStream
      BY <1>1, <2>2, <3>1, SMT
    <3>3. ASSUME inbox # <<>>, inbox[1].t = "packet" PROVE x # inbox[1].v
      <4>1. v < inbox[1].v
        BY <1>1, <2>1, <3>3, Zenon
      <4>2. inbox[1].v \in 1 .. OffStream
        BY <1>1, <3>3, InboxArrives, Zenon DEF Arrived
      <4> QED BY <1>1, <2>2, <3>1, <4>1, <4>2, SMTT(40)
    <3>4. x \notin Arrived
      BY <1>1, <3>1, <3>3, InboxArrives, ZenonT(60) DEF Arrived
    <3> QED BY <3>2, <3>4, Zenon DEF Lost
  <2> QED BY <2>3, Zenon
<1>5. ended = "EOF" /\ ~cd.closed => Cardinality(Missing(sm.n)) <= cancels
  <2> SUFFICES ASSUME ended = "EOF", ~cd.closed PROVE Missing(sm.n) \subseteq Lost
    BY <1>3, Zenon
  <2>1. call = 0 /\ inbox = <<>> /\ strm = <<>>
    BY Zenon DEF PullInv, Ending, Goroutines
  <2>2. HeaderWaits = 0 /\ TrailerWaits = 0
    BY <2>1, Zenon DEF HeaderWaits, TrailerWaits
  <2>3. OffStream = sm.n
    <3>1. Len(<<>>) = 0
      BY SMT
    <3>2. OffStream = sm.n - (0 - 0 - 0)
      BY <2>1, <2>2, <3>1, Zenon DEF OffStream
    <3> QED BY <1>1, <3>2, SMT
  <2>4. Arrived = {pulled[i] : i \in 1 .. Len(pulled)}
    BY <1>1, <2>1, InboxArrives, Zenon DEF Arrived
  <2> QED BY <1>2, <2>3, <2>4, Zenon DEF Missing, Lost
<1>6. ended # "" /\ ~cd.closed /\ cancels = 0 => ended = IF sm.err = "" THEN "EOF" ELSE sm.err
  BY Zenon DEF PullInv, Ending, TheEnd
<1> QED BY <1>1, <1>2, <1>4, <1>5, <1>6, Zenon DEF PullLosesOnlyAbandoned

\* ReadPacket returns the packets in the order sent, none twice; each abandoned
\* call costs one message at most, whatever the number of goroutines left in
\* Recv, and with none the error at the end is the one of the trailer.
THEOREM PullLoses == PullSpec => []PullLosesOnlyAbandoned
<1>1. PullSpec => []PullInv
  BY PullStarts, PullStepKeeps, PTL DEF PullSpec
<1> QED BY <1>1, MissingIsLost, PTL
=============================================================================
