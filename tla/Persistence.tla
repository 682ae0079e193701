---------------------------- MODULE Persistence ----------------------------
(***************************************************************************)
(* One channel of av/pva/persistence: the Writer's goroutine, which        *)
(* batches records into SQLite and prunes it, and the PersistenceSource a  *)
(* player reads them back through, a cached window at a time.  A record's  *)
(* time is in ticks, Second of them to the second; it is stored as text.   *)
(***************************************************************************)
EXTENDS Integers, SequencesExt, FiniteSetsExt

CONSTANTS Second, Times, QueueSize, FlushBatch,
          Cutoffs,                \* what time.Now() - retention may be
          MaxRows,                \* Writer.maxRows
          Half, Tolerance, Limit, \* cacheWindowHalf, persistMatchTolerance, rows of a query
          MaxRecords, MaxFaults, MaxLoads

VARIABLES queue, batch,           \* Writer.incoming, run's batch
          wr,                     \* the writer: [pc, cutoff, n]
          closing,                \* Close has cancelled the context
          frames, dets,           \* the tables: rows [id, t], and the ids detections refer to
          cache,                  \* PersistenceSource
          enq, faults, loads,     \* bounds
          ever, lost, torn        \* history: rows committed; records lost, and why; a
                                  \* prune's statement failed

perVars == <<queue, batch, wr, closing, frames, dets, cache, enq, faults, loads,
             ever, lost, torn>>
readVars == <<cache, loads>>

Run == [pc |-> "run", cutoff |-> 0, n |-> 0]
Init == /\ queue = <<>> /\ batch = <<>> /\ wr = Run /\ closing = FALSE
        /\ frames = {} /\ dets = {}
        /\ cache = [from |-> 0, to |-> 0, rows |-> <<>>, upto |-> 0]
        /\ enq = 0 /\ faults = 0 /\ loads = 0 /\ ever = <<>> /\ lost = {} /\ torn = FALSE

\* RFC3339Nano drops trailing zeros, and '.' sorts before 'Z': as text, a whole
\* second comes after the fractions of that second.
TsKey(t) == IF t % Second = 0 THEN 2 * (t + Second) - 1 ELSE 2 * t

-----------------------------------------------------------------------------
Enqueue(t) ==
  /\ enq < MaxRecords /\ enq' = enq + 1
  /\ LET rec == [id |-> enq + 1, t |-> t]
     IN  IF Len(queue) < QueueSize THEN queue' = Append(queue, rec) /\ UNCHANGED lost
         ELSE lost' = lost \cup {<<rec.id, "full">>} /\ UNCHANGED queue
  /\ UNCHANGED <<batch, wr, closing, frames, dets, faults, ever, torn, readVars>>

Close == /\ ~closing /\ closing' = TRUE
         /\ UNCHANGED <<queue, batch, wr, frames, dets, enq, faults, ever, lost, torn, readVars>>

\* A call on the database: it fails once the context is cancelled.
Attempt(ok) == /\ closing => ~ok
               /\ ok \/ closing \/ faults < MaxFaults
               /\ faults' = IF ok \/ closing THEN faults ELSE faults + 1

\* flushChannel: the batch in one transaction.  A failed GetDB, BeginTx or Commit
\* stores nothing; insertRecord swallows the error of a single frame, whose
\* detections are then skipped, and of a frame's detections.
Stored(b, ok, kept, seen) ==
  /\ ok => kept = Range(b) /\ seen = kept
  /\ seen \subseteq kept
  /\ closing => kept = {}
After_KeepsBatch(b) == b
After(b) == <<>>
Flush(b, ok) ==
  /\ Attempt(ok)
  /\ batch' = After(b)
  /\ \E kept, seen \in SUBSET Range(b) :
       /\ Stored(b, ok, kept, seen)
       /\ frames' = frames \cup kept
       /\ dets' = dets \cup {r.id : r \in seen}
       /\ ever' = ever \o SelectSeq(b, LAMBDA r : r \in kept)
       /\ lost' = lost \cup {<<r.id, "failed">> : r \in Range(b) \ kept}

\* The cases of run's select.
Receive(ok) ==
  /\ wr.pc = "run" /\ queue # <<>> /\ queue' = Tail(queue)
  /\ LET b == Append(batch, Head(queue))
     IN  IF Len(b) >= FlushBatch THEN Flush(b, ok)
         ELSE ok /\ batch' = b /\ UNCHANGED <<frames, dets, faults, ever, lost>>
  /\ UNCHANGED <<wr, closing, enq, torn, readVars>>
Tick(ok) ==
  /\ wr.pc = "run" /\ batch # <<>> /\ Flush(batch, ok)
  /\ UNCHANGED <<queue, wr, closing, enq, torn, readVars>>
Done ==
  /\ wr.pc = "run" /\ closing
  /\ wr' = [wr EXCEPT !.pc = "done"]
  /\ IF batch # <<>> THEN Flush(batch, FALSE)
     ELSE UNCHANGED <<batch, frames, dets, faults, ever, lost>>
  /\ UNCHANGED <<queue, closing, enq, torn, readVars>>

-----------------------------------------------------------------------------
\* prune: five statements, each of which may fail.
Ordered_NewestFirst == SetToSortSeq(frames, LAMBDA a, b : TsKey(a.t) > TsKey(b.t) \/ (TsKey(a.t) = TsKey(b.t) /\ a.id > b.id))
Ordered == SetToSortSeq(frames, LAMBDA a, b : TsKey(a.t) < TsKey(b.t) \/ (TsKey(a.t) = TsKey(b.t) /\ a.id < b.id))
Oldest(n) == Range(SubSeq(Ordered, 1, Min({n, Len(Ordered)})))
Expired == {r \in frames : TsKey(r.t) < TsKey(wr.cutoff)}
DeleteDets(rs, ok) == dets' = (IF ok THEN dets \ {r.id : r \in rs} ELSE dets) /\ UNCHANGED frames
DeleteFrames(rs, ok) == frames' = (IF ok THEN frames \ rs ELSE frames) /\ UNCHANGED dets

PruneDue(cutoff) ==
  /\ wr.pc = "run" /\ frames # {}
  /\ wr' = [pc |-> "expiredDets", cutoff |-> cutoff, n |-> 0]
  /\ UNCHANGED <<queue, batch, closing, frames, dets, enq, faults, ever, lost, torn, readVars>>

FirstStep_FramesFirst(rs, ok) == DeleteFrames(rs, ok)
FirstStep(rs, ok) == DeleteDets(rs, ok)
PruneStep(ok) ==
  /\ Attempt(ok) /\ torn' = (torn \/ ~ok)
  /\ \/ /\ wr.pc = "expiredDets" /\ FirstStep(Expired, ok)
        /\ wr' = [wr EXCEPT !.pc = "expiredFrames"]
     \/ /\ wr.pc = "expiredFrames" /\ DeleteFrames(Expired, ok)
        /\ wr' = [wr EXCEPT !.pc = "count"]
     \/ /\ wr.pc = "count"
        /\ wr' = IF ok /\ Cardinality(frames) > MaxRows
                   THEN [wr EXCEPT !.pc = "oldDets", !.n = Cardinality(frames) - (MaxRows * 4) \div 5]
                   ELSE Run
        /\ UNCHANGED <<frames, dets>>
     \/ /\ wr.pc = "oldDets" /\ FirstStep(Oldest(wr.n), ok)
        /\ wr' = [wr EXCEPT !.pc = "oldFrames"]
     \/ /\ wr.pc = "oldFrames" /\ DeleteFrames(Oldest(wr.n), ok)
        /\ wr' = Run
  /\ UNCHANGED <<queue, batch, closing, enq, ever, lost, readVars>>

-----------------------------------------------------------------------------
\* QueryFrames over [from, to), by capture time; PersistenceSource.reload.
QueryFrames_Unordered(from, to) ==
  SetToSortSeq({r \in frames : from <= r.t /\ r.t < to}, LAMBDA a, b : a.id > b.id)
QueryFrames(from, to) ==
  LET rs == SetToSortSeq({r \in frames : from <= r.t /\ r.t < to},
                         LAMBDA a, b : a.t < b.t \/ (a.t = b.t /\ a.id < b.id))
  IN  SubSeq(rs, 1, Min({Limit, Len(rs)}))
Window(t) == [from |-> t - Half, to |-> t + Half]
\* One player: nothing else touches the cache between the query and its use.
FetchMiss(t) ==
  /\ loads < MaxLoads /\ ~(cache.from <= t /\ t < cache.to)
  /\ loads' = loads + 1
  /\ cache' = [from |-> Window(t).from, to |-> Window(t).to,
               rows |-> QueryFrames(t - Half, t + Half), upto |-> Len(ever)]
  /\ UNCHANGED <<queue, batch, wr, closing, frames, dets, enq, faults, ever, lost, torn>>

\* searchCache: the nearest cached row within the tolerance.
Abs(n) == IF n < 0 THEN -n ELSE n
Search(t) ==
  LET ts == [i \in DOMAIN cache.rows |-> cache.rows[i].t]
      pos == Len(SelectSeq(ts, LAMBDA x : x < t)) + 1
      near(i) == i \in DOMAIN ts /\ Abs(ts[i] - t) <= Tolerance
      best == IF near(pos) THEN {ts[pos]} ELSE {}
  IN  IF near(pos - 1) /\ \A x \in best : Abs(ts[pos - 1] - t) < Abs(x - t)
        THEN {ts[pos - 1]} ELSE best

Next == \/ \E t \in Times : Enqueue(t) \/ FetchMiss(t)
        \/ \E t \in Cutoffs : PruneDue(t)
        \/ \E ok \in BOOLEAN : Receive(ok) \/ Tick(ok) \/ PruneStep(ok)
        \/ Close \/ Done

Spec == Init /\ [][Next]_perVars

-----------------------------------------------------------------------------
\* Every record is accounted for once: queued, in the batch, committed once and
\* in the order it was handed over, or lost to a full queue or a failed flush.
RecordedOnce ==
  LET on == queue \o IF wr.pc = "done" THEN <<>> ELSE batch
      all == [i \in DOMAIN ever |-> ever[i].id]
  IN  /\ \A i \in 1 .. Len(all) - 1 : all[i] < all[i + 1]
      /\ \A id \in 1 .. enq :
           Cardinality({i \in DOMAIN all : all[i] = id}) + Cardinality({i \in DOMAIN on : on[i].id = id})
             + Cardinality({l \in lost : l[1] = id}) = 1

\* "Delete detections first to maintain referential integrity": a detection's
\* frame exists at every point of a prune, unless one of its statements failed.
NoOrphans == ~torn => dets \subseteq {r.id : r \in frames}

\* A prune does not delete a row of a later second than a row it keeps, though
\* it compares the times as text.
PruneOldestFirst == [][\A x \in frames \ frames', y \in frames \cap frames' :
                         x.t \div Second <= y.t \div Second]_perVars

\* Away from the edges of its window, what the cache finds for a frame is the
\* nearest of the rows that were stored when the window was loaded, unless the
\* window held more rows than the query returns.
FindsStored ==
  \A t \in Times :
    /\ cache.from <= t - Tolerance /\ t + Tolerance < cache.to
    /\ Len(cache.rows) < Limit
    => \A r \in frames : r.id \in {ever[i].id : i \in 1 .. cache.upto} /\ Abs(r.t - t) <= Tolerance =>
         \E x \in Search(t) : Abs(x - t) <= Abs(r.t - t)
=============================================================================
