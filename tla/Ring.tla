-------------------------------- MODULE Ring --------------------------------
(***************************************************************************)
(* av/segment/ringbuf.go: the recent fragments kept for near-live          *)
(* playback.  One writer pushes; readers take what is new with ReadFrom    *)
(* and sleep in Wait, on a channel that every Push closes after it has     *)
(* released the lock.                                                      *)
(***************************************************************************)
EXTENDS Integers, Sequences, FiniteSets

CONSTANTS Readers, MaxAge, MaxPushes, MaxTime,
          Lags                    \* how old a fragment's first packet is when it is pushed

\* Time is discrete, maxAge and the lags are durations.
Durations == MaxAge \in Int /\ Lags \subseteq Int
ASSUME DurationsAssumption == Durations

VARIABLES frags,                  \* fragments, as [dts, at], at the Timestamp
          notify,                 \* the number of the current channel
          shut,                   \* the channels that are closed
          waking,                \* the channel Push has yet to close, 0: none
          now, pushed,            \* pushed[d]: the Timestamp of the fragment with DTS d
          reader                  \* reader[r]: where it is, the channel, the next DTS, what it got

ringVars == <<frags, notify, shut, waking, now, pushed, reader>>

RingInit == /\ frags = <<>> /\ notify = 1 /\ shut = {} /\ waking = 0 /\ now = 0 /\ pushed = <<>>
            /\ reader = [r \in Readers |-> [pc |-> "read", ch |-> 0, from |-> 1, missed |-> {}]]

Tick == /\ now < MaxTime /\ now' = now + 1
        /\ UNCHANGED <<frags, notify, shut, waking, pushed, reader>>

\* Push: append, drop the leading fragments that are older than maxAge, and
\* replace the channel, under the lock.
Expired_AtMaxAge(f) == f.at <= now - MaxAge
Expired(f) == f.at < now - MaxAge
Evict(fs) == LET n == Cardinality({i \in DOMAIN fs : \A j \in 1 .. i : Expired(fs[j])})
             IN  SubSeq(fs, n + 1, Len(fs))
NewChannel_Shared == notify
NewChannel == notify + 1
Push(lag) == /\ waking = 0 /\ Len(pushed) < MaxPushes
             /\ pushed' = Append(pushed, now - lag)
             /\ frags' = Evict(Append(frags, [dts |-> Len(pushed'), at |-> now - lag]))
             /\ waking' = notify /\ notify' = NewChannel
             /\ UNCHANGED <<shut, now, reader>>
PushWakes == /\ waking # 0
             /\ shut' = shut \cup {waking} /\ waking' = 0
             /\ UNCHANGED <<frags, notify, now, pushed, reader>>

\* ReadFrom: everything behind the first fragment that is new, and the DTS the
\* reader goes on from.
Hits(r) == {i \in DOMAIN frags : frags[i].dts >= reader[r].from}
From(r) == IF Hits(r) = {} THEN <<>>
           ELSE SubSeq(frags, CHOOSE i \in Hits(r) : \A j \in Hits(r) : i <= j, Len(frags))
ReadFrom(r) ==
  LET fs == From(r)
      last == fs[Len(fs)].dts
  IN  /\ reader[r].pc = "read"
      /\ reader' = [reader EXCEPT ![r].pc = "wait",
           ![r].from = IF fs = <<>> THEN @ ELSE last + 1,
           ![r].missed = IF fs = <<>> THEN @
                         ELSE @ \cup ((reader[r].from .. last) \ {fs[i].dts : i \in DOMAIN fs})]
      /\ UNCHANGED <<frags, notify, shut, waking, now, pushed>>

\* Wait takes the channel under the lock and then sleeps on it.
TakeChannel(r) == /\ reader[r].pc = "wait"
                  /\ reader' = [reader EXCEPT ![r].pc = "asleep", ![r].ch = notify]
                  /\ UNCHANGED <<frags, notify, shut, waking, now, pushed>>
Wake(r) == /\ reader[r].pc = "asleep" /\ reader[r].ch \in shut
           /\ reader' = [reader EXCEPT ![r].pc = "read"]
           /\ UNCHANGED <<frags, notify, shut, waking, now, pushed>>

\* Its context ends first; the caller may come back later.
GiveUp(r) == /\ reader[r].pc = "asleep"
             /\ reader' = [reader EXCEPT ![r].pc = "read"]
             /\ UNCHANGED <<frags, notify, shut, waking, now, pushed>>

RingNext == \/ Tick \/ PushWakes \/ \E lag \in Lags : Push(lag)
            \/ \E r \in Readers : ReadFrom(r) \/ TakeChannel(r) \/ Wake(r) \/ GiveUp(r)

RingSpec == RingInit /\ [][RingNext]_ringVars

-----------------------------------------------------------------------------
\* A sleeping reader sleeps on the channel the next Push closes, on the one a
\* Push is about to close, or on a closed one: no Push that begins after Wait
\* took its channel is slept through.
SleeperIsWoken == \A r \in Readers : reader[r].pc = "asleep" =>
  /\ reader[r].ch = notify \/ reader[r].ch = waking \/ reader[r].ch \in shut
  /\ notify \notin shut /\ waking # notify

\* A reader that polls misses a fragment only because it grew older than maxAge
\* before the reader came back.
MissesOnlyExpired == \A r \in Readers : \A d \in reader[r].missed : now - pushed[d] > MaxAge

\* A reader of the ring sleeps through no Push and misses only what has expired.
RingMissesNothing == SleeperIsWoken /\ MissesOnlyExpired
=============================================================================
