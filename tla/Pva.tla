-------------------------------- MODULE Pva --------------------------------
(***************************************************************************)
(* av/pva: how inference results find their frames.  Ingestion streams     *)
(* call Handle, which puts a result into the AnalyticsStore and then       *)
(* broadcasts it; a BlockingMerger looks a frame up, subscribes, looks     *)
(* again and waits to be told, up to maxWait.  Broadcast walks a slice it  *)
(* took under the lock while Unsubscribe shifts that slice in place and    *)
(* closes the channel, so the slices are modelled with their arrays.       *)
(***************************************************************************)
EXTENDS Integers, Sequences

CONSTANTS Streams,                \* the ingestion goroutines
          Mergers,                \* the readers of frames
          Chans, NoCh,            \* the channels, 1 .. n; an empty element of an array
          Times, FrameTimes,      \* the wall clocks of results and of frames
          Tolerance,              \* matchTolerance
          Cutoffs,                \* what time.Now() - ttl may be
          ChanBuf,                \* hubChanBufSize
          MaxResults

\* Clocks are integers, the tolerance is not negative and a channel has room.
Clocks == /\ Times \subseteq Int /\ FrameTimes \subseteq Int /\ Cutoffs \subseteq Int
          /\ Tolerance \in Nat /\ ChanBuf \in Nat \ {0}
ASSUME PvaAssumption == Clocks

VARIABLES data,                   \* AnalyticsStore.data: the entries' wall clocks, sorted
          arrays, list,           \* AnalyticsHub.subs: the arrays allocated; the slice [id, len]
          hubChans,               \* hubChans[ch]: [n, open], the results buffered
          ing,                    \* ing[i]: what stream i's call of Handle does
          mrg,                    \* mrg[m]: what m's ReadPacket does
          results, panicked,      \* results handled; a send on a closed channel
          shifted                 \* history: a slice changed under a Broadcast

pvaVars == <<data, arrays, list, hubChans, ing, mrg, results, panicked, shifted>>

NoHandle == [pc |-> "idle", slice |-> [id |-> 1, len |-> 0], at |-> 1]
NoCall == [pc |-> "idle", t |-> 0, ch |-> NoCh]
PvaInit == /\ data = <<>> /\ arrays = <<<<>>>> /\ list = [id |-> 1, len |-> 0]
           /\ hubChans = [ch \in Chans |-> [n |-> 0, open |-> FALSE]]
           /\ ing = [i \in Streams |-> NoHandle]
           /\ mrg = [m \in Mergers |-> NoCall]
           /\ results = 0 /\ panicked = FALSE /\ shifted = FALSE

-----------------------------------------------------------------------------
\* sort.Search in sorted entries: the first that is not before t.
NotBefore(es, t, k) == (\A i \in 1 .. k - 1 : es[i] < t) /\ (k <= Len(es) => es[k] >= t)
Search(es, t) == CHOOSE k \in 1 .. Len(es) + 1 : NotBefore(es, t, k)

\* Put: evict what is not after the cutoff, insert before the first entry that
\* is not before the new one.
Insert_Append(es, t) == Append(es, t)
Insert(es, t) == [k \in 1 .. Len(es) + 1 |-> IF k < Search(es, t) THEN es[k]
                                             ELSE IF k = Search(es, t) THEN t ELSE es[k - 1]]
Put(t, cutoff) == data' = Insert(SubSeq(data, Search(data, cutoff + 1), Len(data)), t)

\* lookup: the first entry not before the frame, or the one before that if it
\* is nearer.
Diff(a, b) == IF a < b THEN b - a ELSE a - b
Within(i, t) == i \in DOMAIN data /\ Diff(data[i], t) <= Tolerance
Lookup(t) ==
  LET pos  == Search(data, t)
      best == IF Within(pos, t) THEN {data[pos]} ELSE {}
  IN  IF Within(pos - 1, t) /\ \A x \in best : Diff(data[pos - 1], t) < Diff(x, t)
        THEN {data[pos - 1]} ELSE best

-----------------------------------------------------------------------------
\* make(chan): a closed channel may stand for a new one once no slice in
\* use refers to it.
InUse(ch) ==
  \/ hubChans[ch].open
  \/ \E i \in Streams : \E k \in ing[i].at .. ing[i].slice.len : arrays[ing[i].slice.id][k] = ch
NewChan == CHOOSE ch \in Chans : ~InUse(ch)

\* Subscribe: append to the slice, in place while its array has room.
Subscribe(ch) ==
  LET a == arrays[list.id]
      n == list.len
  IN  /\ hubChans' = [hubChans EXCEPT ![ch] = [n |-> 0, open |-> TRUE]]
      /\ IF n < Len(a)
           THEN /\ arrays' = [arrays EXCEPT ![list.id] = [@ EXCEPT ![n + 1] = ch]]
                /\ list' = [list EXCEPT !.len = n + 1]
           ELSE /\ arrays' = Append(arrays,
                     [k \in 1 .. (IF n = 0 THEN 1 ELSE 2 * n) |->
                        IF k <= n THEN a[k] ELSE IF k = n + 1 THEN ch ELSE NoCh])
                /\ list' = [id |-> Len(arrays) + 1, len |-> n + 1]

\* Unsubscribe: shift the rest of the slice to the left, within its array.
Shift_Swap(a, k) == [a EXCEPT ![k] = a[1]]
Shift(a, k) == [i \in DOMAIN a |-> IF i \in k .. list.len - 1 THEN a[i + 1] ELSE a[i]]
Unsubscribe(ch) ==
  /\ arrays' = [arrays EXCEPT ![list.id] =
                  Shift(@, CHOOSE k \in 1 .. list.len : @[k] = ch)]
  /\ list' = [list EXCEPT !.len = @ - 1]
  /\ hubChans' = [hubChans EXCEPT ![ch] = [n |-> 0, open |-> FALSE]]
  /\ shifted' = (shifted \/ \E i \in Streams : ing[i].pc = "send")

-----------------------------------------------------------------------------
\* Handle: Put, then the slice under the lock, then a send to each element.
HandlePut(i, t, cutoff) ==
  /\ ing[i].pc = "idle" /\ results < MaxResults /\ ~panicked
  /\ Put(t, cutoff) /\ results' = results + 1
  /\ ing' = [ing EXCEPT ![i] = [@ EXCEPT !.pc = "broadcast"]]
  /\ UNCHANGED <<arrays, list, hubChans, mrg, panicked, shifted>>
Broadcast(i) == /\ ing[i].pc = "broadcast" /\ ~panicked
                /\ ing' = [ing EXCEPT ![i] = [NoHandle EXCEPT !.pc = "send", !.slice = list]]
                /\ UNCHANGED <<data, arrays, list, hubChans, mrg, results, panicked, shifted>>
SendTo(i) ==
  /\ ing[i].pc = "send" /\ ~panicked
  /\ IF ing[i].at > ing[i].slice.len
       THEN ing' = [ing EXCEPT ![i] = NoHandle] /\ UNCHANGED <<hubChans, panicked>>
       ELSE LET ch == arrays[ing[i].slice.id][ing[i].at]
            IN  /\ ing' = [ing EXCEPT ![i] = [@ EXCEPT !.at = ing[i].at + 1]]
                /\ panicked' = ~hubChans[ch].open
                /\ hubChans' = IF hubChans[ch].open /\ hubChans[ch].n < ChanBuf
                                 THEN [hubChans EXCEPT ![ch] = [@ EXCEPT !.n = hubChans[ch].n + 1]]
                                 ELSE hubChans
  /\ UNCHANGED <<data, arrays, list, mrg, results, shifted>>

-----------------------------------------------------------------------------
\* BlockingMerger.ReadPacket of a video frame captured at t.
ReturnFrame(m) == mrg' = [mrg EXCEPT ![m] = NoCall]
Fetch(m, t) == /\ mrg[m].pc = "idle" /\ ~panicked
               /\ IF Lookup(t) # {} THEN ReturnFrame(m)
                  ELSE mrg' = [mrg EXCEPT ![m] = [NoCall EXCEPT !.pc = "subscribe", !.t = t]]
               /\ UNCHANGED <<data, arrays, list, hubChans, ing, results, panicked, shifted>>
Listen(m) == /\ mrg[m].pc = "subscribe" /\ ~panicked
             /\ \E ch \in Chans : ~InUse(ch)
             /\ Subscribe(NewChan)
             /\ mrg' = [mrg EXCEPT ![m] = [@ EXCEPT !.pc = "recheck", !.ch = NewChan]]
             /\ UNCHANGED <<data, ing, results, panicked, shifted>>
Recheck_Never(m) == /\ mrg[m].pc = "recheck" /\ ~panicked
                    /\ mrg' = [mrg EXCEPT ![m] = [@ EXCEPT !.pc = "wait"]]
                    /\ UNCHANGED <<data, arrays, list, hubChans, ing, results, panicked, shifted>>
Recheck(m) == /\ mrg[m].pc = "recheck" /\ ~panicked
              /\ IF Lookup(mrg[m].t) = {}
                   THEN /\ mrg' = [mrg EXCEPT ![m] = [@ EXCEPT !.pc = "wait"]]
                        /\ UNCHANGED <<arrays, list, hubChans, shifted>>
                   ELSE Unsubscribe(mrg[m].ch) /\ ReturnFrame(m)
              /\ UNCHANGED <<data, ing, results, panicked>>
Told(m) == /\ mrg[m].pc = "wait" /\ hubChans[mrg[m].ch].n > 0 /\ ~panicked
           /\ IF Lookup(mrg[m].t) = {}
                THEN /\ hubChans' = [hubChans EXCEPT ![mrg[m].ch] =
                                       [@ EXCEPT !.n = hubChans[mrg[m].ch].n - 1]]
                     /\ UNCHANGED <<mrg, arrays, list, shifted>>
                ELSE Unsubscribe(mrg[m].ch) /\ ReturnFrame(m)
           /\ UNCHANGED <<data, ing, results, panicked>>
\* maxWait, or the caller's context.
Expire(m) == /\ mrg[m].pc = "wait" /\ ~panicked
             /\ Unsubscribe(mrg[m].ch) /\ ReturnFrame(m)
             /\ UNCHANGED <<data, ing, results, panicked>>

PvaNext == \/ \E i \in Streams : \/ \E t \in Times, c \in Cutoffs : HandlePut(i, t, c)
                                 \/ Broadcast(i) \/ SendTo(i)
           \/ \E m \in Mergers : \/ \E t \in FrameTimes : Fetch(m, t)
                                 \/ Listen(m) \/ Recheck(m) \/ Told(m) \/ Expire(m)

PvaSpec == PvaInit /\ [][PvaNext]_pvaVars

-----------------------------------------------------------------------------
Near(t) == {i \in DOMAIN data : Diff(data[i], t) <= Tolerance}

\* Whatever the order results come in, the store finds a frame the nearest
\* result within the tolerance, if there is one.
LookupIsNearest == \A t \in Times \cup FrameTimes :
  /\ Lookup(t) = {} <=> Near(t) = {}
  /\ \A e \in Lookup(t), i \in Near(t) : Diff(e, t) <= Diff(data[i], t)

\* A merger does not wait while its result is in the store: it has been told, or
\* the call that put the result is about to tell it; unless a subscriber left
\* while a Broadcast walked the slice.
AboutToTell(i, ch) ==
  \/ ing[i].pc = "broadcast"
  \/ ing[i].pc = "send" /\ \E k \in ing[i].at .. ing[i].slice.len : arrays[ing[i].slice.id][k] = ch
WaitingWillBeTold == \A m \in Mergers :
  mrg[m].pc = "wait" /\ Near(mrg[m].t) # {} /\ ~shifted =>
    hubChans[mrg[m].ch].n > 0 \/ \E i \in Streams : AboutToTell(i, mrg[m].ch)

Listening == {mrg[m].ch : m \in {x \in Mergers : mrg[x].pc \in {"recheck", "wait"}}}

\* The channels of the hub are those of the mergers that listen, once each, and
\* only they are open.
SubscribersListen ==
  /\ \A j, k \in 1 .. list.len : arrays[list.id][j] = arrays[list.id][k] => j = k
  /\ {arrays[list.id][k] : k \in 1 .. list.len} = Listening
  /\ {ch \in Chans : hubChans[ch].open} = Listening

\* A frame gets the nearest result: the store finds it, a merger that waits for
\* it is told, and the hub's channels are those of the mergers that listen.
FramesFindResults == LookupIsNearest /\ WaitingWillBeTold /\ SubscribersListen

\* "Broadcast sends analytics to all current subscribers": not to a channel that
\* has been unsubscribed and closed.
SendsToSubscribers == ~panicked
=============================================================================
