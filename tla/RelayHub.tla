------------------------------- MODULE RelayHub -------------------------------
(***************************************************************************)
(* av/relayhub: who owns what, and who waits for whom.                     *)
(*                                                                         *)
(* The hub goroutine (RelayHub.Start) starts queued relays, reclaims idle  *)
(* ones and closes all of them on shutdown.  Each relay runs a main        *)
(* goroutine (Relay.Start), which opens the demuxer, sweeps inactive       *)
(* consumers and cleans up, and a read loop.  Each attached consumer runs  *)
(* a goroutine of its own.  Callers run Consume and ConsumerHandle.Close   *)
(* concurrently, and one of them runs Stop.                                *)
(*                                                                         *)
(* A step is what happens between two points at which another goroutine    *)
(* can interfere: a critical section of hub.mu or relay.mu, the CAS of an  *)
(* alreadyClosing flag, a channel operation, or a blocking wait.  Packets  *)
(* are left to RelayDelivery, the muxer of a consumer to Consumer.         *)
(*                                                                         *)
(* A relay or a consumer object that nothing refers to any more is garbage *)
(* and its identity is used again, so that a bounded set of identities     *)
(* models an unbounded run.                                                *)
(***************************************************************************)
EXTENDS Integers, Sequences, FiniteSets

CONSTANTS Sources, Callers, Relays, Ids,
          SrcOf,         \* [Callers -> Sources], the sourceID a caller asks for
          QCap,          \* capacity of relaysToStart (10 in New)
          MaxConsumers,  \* WithMaxConsumers, 0 for no limit
          Events,        \* what may happen from outside: a subset of AllEvents
          None

\* The demuxer factory, GetCodecs or ReadPacket fails, a muxer reports an error,
\* a caller's context is cancelled, Stop is called, or the context that Start
\* was given is cancelled by its owner.
AllEvents == {"open", "codecs", "read", "muxer", "ctx", "stop", "parent"}

ASSUME HubAssumption ==
  /\ SrcOf \in [Callers -> Sources]
  /\ QCap \in Nat \ {0} /\ MaxConsumers \in Nat
  /\ Events \subseteq AllEvents
  /\ None \notin Relays \cup Callers \cup Sources \cup Ids

VARIABLES
  \* RelayHub
  hpc,         \* where the hub goroutine is
  hubCtx,      \* its context: "nil" until Start stored m.cancel, "live", "done"
  hubClosing,  \* alreadyClosing
  stopper,     \* progress of Stop
  relays,      \* the relays map
  startQ,      \* relaysToStart
  batch,       \* relays the hub is about to close, None-free
  drop,        \* sourceIDs it deletes afterwards
  hcur,        \* the relay it is closing, or whose Start has failed
  \* Relay
  src, started, closing,
  rctx,        \* the relay's own context: "nil" before Start, "live", "done"
  hdr,         \* headersAvailable: "wait", or closed with "ok" or "err"
  main, rw,    \* the two goroutines
  dmx,         \* the demuxer: "none", "open", "closed"
  consumers,   \* the consumers map, by id
  cbatch, cdrop, ccur,   \* as batch, drop, hcur, for the main goroutine
  \* Callers and the Consumer object each of them creates
  pc, prel,    \* where the caller is, and the relay it works with
  cid,         \* the ConsumerID of its call or handle
  target,      \* the consumer object it is closing
  con,         \* the consumer goroutine: "none", "run", "ending", "exit"
  crel,        \* the relay whose context it was started with
  cclosing     \* Consumer.alreadyClosing

hubVars    == <<hpc, hubCtx, hubClosing, stopper, relays, startQ, batch, drop, hcur>>
relayVars  == <<src, started, closing, rctx, hdr, main, rw, dmx, consumers, cbatch, cdrop, ccur>>
callerVars == <<pc, prel, cid, target, con, crel, cclosing>>
vars == <<hubVars, relayVars, callerVars>>

Init ==
  /\ hpc = "unstarted" /\ hubCtx = "nil" /\ hubClosing = FALSE /\ stopper = "no"
  /\ relays = [s \in Sources |-> None] /\ startQ = <<>>
  /\ batch = {} /\ drop = {} /\ hcur = None
  /\ src = [r \in Relays |-> None]
  /\ started = [r \in Relays |-> FALSE] /\ closing = [r \in Relays |-> FALSE]
  /\ rctx = [r \in Relays |-> "nil"] /\ hdr = [r \in Relays |-> "wait"]
  /\ main = [r \in Relays |-> "none"] /\ rw = [r \in Relays |-> "none"]
  /\ dmx = [r \in Relays |-> "none"]
  /\ consumers = [r \in Relays |-> [i \in Ids |-> None]]
  /\ cbatch = [r \in Relays |-> {}] /\ cdrop = [r \in Relays |-> {}]
  /\ ccur = [r \in Relays |-> None]
  /\ pc = [c \in Callers |-> "idle"] /\ prel = [c \in Callers |-> None]
  /\ target = [c \in Callers |-> None] /\ cid = [c \in Callers |-> None]
  /\ con = [c \in Callers |-> "none"] /\ crel = [c \in Callers |-> None]
  /\ cclosing = [c \in Callers |-> FALSE]

-----------------------------------------------------------------------------
(* What the steps look at. *)

\* The context of a relay is derived from the hub's, that of a consumer from
\* its relay's.
RelayDone(r) == rctx[r] = "done" \/ (rctx[r] # "nil" /\ hubCtx = "done")

ConDone(c) == cclosing[c] \/ RelayDone(crel[c])

\* Consumer.Inactive.
Inactive(c) == cclosing[c] \/ con[c] # "run"

Attached(r)      == { consumers[r][i] : i \in Ids } \ {None}
ConsumerCount(r) == Cardinality({ i \in Ids : consumers[r][i] # None })

\* Relay.wg.Wait() returns.
RelayStopped_WaitsForStart(r) == main[r] = "exit" /\ rw[r] # "run"
RelayStopped(r) == main[r] \in {"none", "exit"} /\ rw[r] # "run"

\* No goroutine and no data structure refers to the object any more.
InQueue(r)   == \E i \in 1 .. Len(startQ) : startQ[i] = r
FreeRelay(r) == /\ \A s \in Sources : relays[s] # r
                /\ ~InQueue(r) /\ r \notin batch /\ hcur # r
                /\ main[r] \in {"none", "exit"} /\ rw[r] # "run"
                /\ \A c \in Callers :
                     prel[c] # r /\ (crel[c] = r => con[c] \in {"none", "exit"})
FreeConsumer(c) == /\ con[c] \in {"none", "exit"}
                   /\ \A r \in Relays : c \notin Attached(r) \cup cbatch[r] /\ ccur[r] # c
                   /\ \A d \in Callers : target[d] # c

-----------------------------------------------------------------------------
(* The hub: Start, Stop and the hub goroutine. *)

\* Start, up to the CAS of started.
HubStart ==
  /\ hpc = "unstarted"
  /\ hpc' = "launch"
  /\ UNCHANGED <<hubCtx, hubClosing, stopper, relays, startQ, batch, drop, hcur,
                 relayVars, callerVars>>

\* m.cancel is stored and the goroutine spawned.
HubLaunch ==
  /\ hpc = "launch"
  /\ hpc' = "select"
  /\ hubCtx' = "live"
  /\ UNCHANGED <<hubClosing, stopper, relays, startQ, batch, drop, hcur, relayVars, callerVars>>

\* SignalStop: first the CAS, then the cancel function if there is one.
SignalStop ==
  /\ "stop" \in Events /\ stopper = "no"
  /\ hubClosing' = TRUE
  /\ stopper' = "flagged"
  /\ UNCHANGED <<hpc, hubCtx, relays, startQ, batch, drop, hcur, relayVars, callerVars>>

SignalCancel ==
  /\ stopper = "flagged"
  /\ stopper' = "waiting"
  /\ hubCtx' = IF hubCtx = "live" THEN "done" ELSE hubCtx
  /\ UNCHANGED <<hpc, hubClosing, relays, startQ, batch, drop, hcur, relayVars, callerVars>>

\* WaitStop returns: the WaitGroup counts no goroutine.
WaitStop ==
  /\ stopper = "waiting"
  /\ hpc \in {"unstarted", "launch", "done"}
  /\ stopper' = "returned"
  /\ UNCHANGED <<hpc, hubCtx, hubClosing, relays, startQ, batch, drop, hcur,
                 relayVars, callerVars>>

\* The context given to Start is cancelled by its owner.
ParentCancel ==
  /\ "parent" \in Events /\ hubCtx = "live"
  /\ hubCtx' = "done"
  /\ UNCHANGED <<hpc, hubClosing, stopper, relays, startQ, batch, drop, hcur,
                 relayVars, callerVars>>

\* case <-ticker.C: collect the relays without consumers.
IdleSource_FailedOnly(s) ==
  relays[s] # None /\ ConsumerCount(relays[s]) = 0 /\ hdr[relays[s]] = "err"
IdleSource(s) == relays[s] # None /\ ConsumerCount(relays[s]) = 0

HubTick ==
  /\ hpc = "select"
  /\ LET idle == { s \in Sources : IdleSource(s) }
     IN  /\ idle # {}
         /\ batch' = { relays[s] : s \in idle }
         /\ drop' = idle
  /\ hpc' = "close"
  /\ UNCHANGED <<hubCtx, hubClosing, stopper, relays, startQ, hcur, relayVars, callerVars>>

\* case <-sctx.Done(): the deferred function collects every relay.
HubDone ==
  /\ hpc = "select" /\ hubCtx = "done"
  /\ batch' = { relays[s] : s \in Sources } \ {None}
  /\ hpc' = "closeAll"
  /\ UNCHANGED <<hubCtx, hubClosing, stopper, relays, startQ, drop, hcur, relayVars, callerVars>>

\* Relay.Close, called by the hub goroutine only: the CAS and the cancel.
RelayClose(r) ==
  /\ hpc \in {"close", "closeAll"} /\ hcur = None /\ r \in batch
  /\ batch' = batch \ {r}
  /\ IF closing[r]
       THEN UNCHANGED <<hcur, closing, rctx>>
       ELSE /\ closing' = [closing EXCEPT ![r] = TRUE]
            /\ rctx' = [rctx EXCEPT ![r] = IF @ = "nil" THEN @ ELSE "done"]
            /\ hcur' = r
  /\ UNCHANGED <<hpc, hubCtx, hubClosing, stopper, relays, startQ, drop, src, started, hdr,
                 main, rw, dmx, consumers, cbatch, cdrop, ccur, callerVars>>

\* Relay.Close returns once both goroutines of the relay have ended.
RelayClosed ==
  /\ hpc \in {"close", "closeAll"} /\ hcur # None
  /\ RelayStopped(hcur)
  /\ hcur' = None
  /\ UNCHANGED <<hpc, hubCtx, hubClosing, stopper, relays, startQ, batch, drop,
                 relayVars, callerVars>>

\* The closed relays are deleted from the map, by sourceID.
HubDelete ==
  /\ hpc \in {"close", "closeAll"} /\ hcur = None /\ batch = {}
  /\ relays' = [s \in Sources |-> IF hpc = "closeAll" \/ s \in drop THEN None ELSE relays[s]]
  /\ drop' = {}
  /\ hpc' = IF hpc = "closeAll" THEN "done" ELSE "select"
  /\ UNCHANGED <<hubCtx, hubClosing, stopper, startQ, batch, hcur, relayVars, callerVars>>

\* Relay.Start goes ahead.
MayStart_ClosingIgnored(r) == ~started[r]
MayStart(r) == ~started[r] /\ ~closing[r]

\* case p := <-relaysToStart: Relay.Start.  It never runs together with
\* Relay.Close, both are called by the hub goroutine.
HubStartRelay ==
  /\ hpc = "select" /\ startQ # <<>>
  /\ LET r == Head(startQ)
     IN  /\ startQ' = Tail(startQ)
         /\ started' = [started EXCEPT ![r] = TRUE]
         /\ IF MayStart(r)
              THEN /\ rctx' = [rctx EXCEPT ![r] = "live"]
                   /\ main' = [main EXCEPT ![r] = "open"]
                   /\ UNCHANGED <<hpc, hcur>>
              ELSE /\ hpc' = "startFailed" /\ hcur' = r
                   /\ UNCHANGED <<rctx, main>>
  /\ UNCHANGED <<hubCtx, hubClosing, stopper, relays, batch, drop, src, closing, hdr, rw, dmx,
                 consumers, cbatch, cdrop, ccur, callerVars>>

\* A relay that did not start is deleted, by its id.
HubStartFailed ==
  /\ hpc = "startFailed"
  /\ relays' = [relays EXCEPT ![src[hcur]] = None]
  /\ hpc' = "select" /\ hcur' = None
  /\ UNCHANGED <<hubCtx, hubClosing, stopper, startQ, batch, drop, relayVars, callerVars>>

Hub == \/ HubLaunch \/ HubTick \/ HubDone \/ RelayClosed \/ HubDelete
       \/ HubStartRelay \/ HubStartFailed \/ \E r \in Relays : RelayClose(r)

-----------------------------------------------------------------------------
(* A relay: the main goroutine of Relay.Start and the read loop. *)

\* demuxerFactory: on failure the error is stored and the goroutine ends.
OpenDemuxer(r) ==
  /\ main[r] = "open"
  /\ \/ /\ dmx' = [dmx EXCEPT ![r] = "open"]
        /\ main' = [main EXCEPT ![r] = "codecs"]
        /\ UNCHANGED <<hdr, rctx>>
     \/ /\ "open" \in Events \/ RelayDone(r)
        /\ hdr' = [hdr EXCEPT ![r] = "err"]
        /\ main' = [main EXCEPT ![r] = "exit"]
        /\ rctx' = [rctx EXCEPT ![r] = "done"]
        /\ UNCHANGED dmx
  /\ UNCHANGED <<hubVars, callerVars, src, started, closing, rw, consumers, cbatch, cdrop, ccur>>

\* GetCodecs returns the streams: they are published and the read loop spawned.
GetCodecs(r) ==
  /\ main[r] = "codecs"
  /\ hdr' = [hdr EXCEPT ![r] = "ok"]
  /\ rw' = [rw EXCEPT ![r] = "run"]
  /\ main' = [main EXCEPT ![r] = "loop"]
  /\ UNCHANGED <<hubVars, callerVars, src, started, closing, rctx, dmx, consumers, cbatch,
                 cdrop, ccur>>

\* GetCodecs fails, or is cancelled.
GetCodecsFails(r) ==
  /\ main[r] = "codecs"
  /\ "codecs" \in Events \/ RelayDone(r)
  /\ hdr' = [hdr EXCEPT ![r] = "err"]
  /\ main' = [main EXCEPT ![r] = "clean"]
  /\ cbatch' = [cbatch EXCEPT ![r] = Attached(r)]
  /\ UNCHANGED <<hubVars, callerVars, src, started, closing, rctx, rw, dmx, consumers, cdrop, ccur>>

\* case <-ticker.C: collect the inactive consumers.
Sweep(r) ==
  /\ main[r] = "loop"
  /\ LET idle == { i \in Ids : consumers[r][i] # None /\ Inactive(consumers[r][i]) }
     IN  /\ idle # {}
         /\ cbatch' = [cbatch EXCEPT ![r] = { consumers[r][i] : i \in idle }]
         /\ cdrop' = [cdrop EXCEPT ![r] = idle]
  /\ main' = [main EXCEPT ![r] = "sweep"]
  /\ UNCHANGED <<hubVars, callerVars, src, started, closing, rctx, hdr, rw, dmx, consumers, ccur>>

\* case <-sctx.Done(): the first deferred function collects every consumer.
MainDone(r) ==
  /\ main[r] = "loop" /\ RelayDone(r)
  /\ cbatch' = [cbatch EXCEPT ![r] = Attached(r)]
  /\ main' = [main EXCEPT ![r] = "clean"]
  /\ UNCHANGED <<hubVars, callerVars, src, started, closing, rctx, hdr, rw, dmx, consumers,
                 cdrop, ccur>>

\* Consumer.Close on one of them: whoever loses the CAS does not wait.
SweepClose(r) ==
  /\ main[r] \in {"sweep", "clean"} /\ ccur[r] = None
  /\ \E c \in cbatch[r] :
       /\ cbatch' = [cbatch EXCEPT ![r] = @ \ {c}]
       /\ cclosing' = [cclosing EXCEPT ![c] = TRUE]
       /\ ccur' = [ccur EXCEPT ![r] = IF cclosing[c] THEN None ELSE c]
  /\ UNCHANGED <<hubVars, src, started, closing, rctx, hdr, main, rw, dmx, consumers, cdrop,
                 pc, prel, cid, target, con, crel>>

\* Consumer.Close returns once the consumer goroutine has ended.
SweepClosed(r) ==
  /\ ccur[r] # None /\ con[ccur[r]] = "exit"
  /\ ccur' = [ccur EXCEPT ![r] = None]
  /\ UNCHANGED <<hubVars, callerVars, src, started, closing, rctx, hdr, main, rw, dmx,
                 consumers, cbatch, cdrop>>

\* The closed consumers are deleted, by id; all of them after a clean-up.
SweepDelete(r) ==
  /\ main[r] \in {"sweep", "clean"} /\ ccur[r] = None /\ cbatch[r] = {}
  /\ consumers' = [consumers EXCEPT ![r] =
       [i \in Ids |-> IF main[r] = "clean" \/ i \in cdrop[r] THEN None ELSE @[i]]]
  /\ cdrop' = [cdrop EXCEPT ![r] = {}]
  /\ main' = [main EXCEPT ![r] = IF @ = "clean" THEN "remove" ELSE "loop"]
  /\ UNCHANGED <<hubVars, callerVars, src, started, closing, rctx, hdr, rw, dmx, cbatch, ccur>>

\* The second deferred function calls the demuxerRemover.
DemuxerRemove(r) ==
  /\ main[r] = "remove"
  /\ main' = [main EXCEPT ![r] = "closeDemuxer"]
  /\ UNCHANGED <<hubVars, callerVars, src, started, closing, rctx, hdr, rw, dmx, consumers,
                 cbatch, cdrop, ccur>>

\* The third closes the demuxer, the last cancels the context.
DemuxerClose(r) ==
  /\ main[r] = "closeDemuxer"
  /\ main' = [main EXCEPT ![r] = "exit"]
  /\ dmx' = [dmx EXCEPT ![r] = "closed"]
  /\ rctx' = [rctx EXCEPT ![r] = "done"]
  /\ UNCHANGED <<hubVars, callerVars, src, started, closing, hdr, rw, consumers, cbatch, cdrop, ccur>>

\* readWriteLoop ends: ReadPacket failed, and the context is cancelled ...
ReadFails(r) ==
  /\ rw[r] = "run" /\ "read" \in Events
  /\ rctx' = [rctx EXCEPT ![r] = "done"]
  /\ rw' = [rw EXCEPT ![r] = "exit"]
  /\ UNCHANGED <<hubVars, callerVars, src, started, closing, hdr, main, dmx, consumers, cbatch,
                 cdrop, ccur>>

\* ... or the context was cancelled.
ReadDone(r) ==
  /\ rw[r] = "run" /\ RelayDone(r)
  /\ rw' = [rw EXCEPT ![r] = "exit"]
  /\ UNCHANGED <<hubVars, callerVars, src, started, closing, rctx, hdr, main, dmx, consumers,
                 cbatch, cdrop, ccur>>

-----------------------------------------------------------------------------
(* The goroutine of a consumer. *)

\* The muxer reports an error.
MuxerFails(c) ==
  /\ con[c] = "run" /\ "muxer" \in Events
  /\ con' = [con EXCEPT ![c] = "ending"]
  /\ UNCHANGED <<hubVars, relayVars, pc, prel, cid, target, crel, cclosing>>

\* Its context is cancelled.
ConsumerDone(c) ==
  /\ con[c] = "run" /\ ConDone(c)
  /\ con' = [con EXCEPT ![c] = "ending"]
  /\ UNCHANGED <<hubVars, relayVars, pc, prel, cid, target, crel, cclosing>>

\* Trailer, close and remover are done with.
ConsumerExit(c) ==
  /\ con[c] = "ending"
  /\ con' = [con EXCEPT ![c] = "exit"]
  /\ UNCHANGED <<hubVars, relayVars, pc, prel, cid, target, crel, cclosing>>

-----------------------------------------------------------------------------
(* Callers: RelayHub.Consume with Relay.AddConsumer, and handle.Close. *)

\* Consume is called and finds the hub not closing (otherwise it returns).
Consume(c) ==
  /\ pc[c] = "idle" /\ FreeConsumer(c) /\ ~hubClosing
  /\ pc' = [pc EXCEPT ![c] = "lookup"]
  /\ \E i \in Ids : cid' = [cid EXCEPT ![c] = i]
  /\ con' = [con EXCEPT ![c] = "none"]
  /\ crel' = [crel EXCEPT ![c] = None]
  /\ cclosing' = [cclosing EXCEPT ![c] = FALSE]
  /\ UNCHANGED <<hubVars, relayVars, prel, target>>

\* The call goes on, and it returns.
Goto(c, where) == pc' = [pc EXCEPT ![c] = where] /\ UNCHANGED <<prel, cid>>

Return(c) == /\ pc' = [pc EXCEPT ![c] = "idle"]
             /\ prel' = [prel EXCEPT ![c] = None]
             /\ cid' = [cid EXCEPT ![c] = None]

\* ErrRelayHubNotStartedYet.
NotStarted(c) ==
  /\ pc[c] = "lookup" /\ hpc = "unstarted"
  /\ Return(c)
  /\ UNCHANGED <<hubVars, relayVars, target, con, crel, cclosing>>

\* Get the relay of the source, ...
FindRelay(c) ==
  /\ pc[c] = "lookup" /\ hpc # "unstarted"
  /\ relays[SrcOf[c]] # None
  /\ prel' = [prel EXCEPT ![c] = relays[SrcOf[c]]]
  /\ pc' = [pc EXCEPT ![c] = "check"]
  /\ UNCHANGED <<hubVars, relayVars, cid, target, con, crel, cclosing>>

\* ... or make one, to be queued for the hub goroutine.
NewRelay(c, r) ==
  /\ pc[c] = "lookup" /\ hpc # "unstarted"
  /\ relays[SrcOf[c]] = None /\ FreeRelay(r)
  /\ relays' = [relays EXCEPT ![SrcOf[c]] = r]
  /\ src' = [src EXCEPT ![r] = SrcOf[c]]
  /\ started' = [started EXCEPT ![r] = FALSE]
  /\ closing' = [closing EXCEPT ![r] = FALSE]
  /\ rctx' = [rctx EXCEPT ![r] = "nil"]
  /\ hdr' = [hdr EXCEPT ![r] = "wait"]
  /\ main' = [main EXCEPT ![r] = "none"]
  /\ rw' = [rw EXCEPT ![r] = "none"]
  /\ dmx' = [dmx EXCEPT ![r] = "none"]
  /\ consumers' = [consumers EXCEPT ![r] = [i \in Ids |-> None]]
  /\ prel' = [prel EXCEPT ![c] = r]
  /\ pc' = [pc EXCEPT ![c] = "enqueue"]
  /\ UNCHANGED <<hpc, hubCtx, hubClosing, stopper, startQ, batch, drop, hcur, cbatch, cdrop,
                 ccur, cid, target, con, crel, cclosing>>

Enqueue_DropsWhenFull(c) ==
  /\ pc[c] = "enqueue"
  /\ startQ' = IF Len(startQ) < QCap THEN Append(startQ, prel[c]) ELSE startQ
  /\ Goto(c, "check")
  /\ UNCHANGED <<hpc, hubCtx, hubClosing, stopper, relays, batch, drop, hcur, relayVars,
                 target, con, crel, cclosing>>

\* case relaysToStart <- p
Enqueue(c) ==
  /\ pc[c] = "enqueue" /\ Len(startQ) < QCap
  /\ startQ' = Append(startQ, prel[c])
  /\ Goto(c, "check")
  /\ UNCHANGED <<hpc, hubCtx, hubClosing, stopper, relays, batch, drop, hcur, relayVars,
                 target, con, crel, cclosing>>

\* The stored error of the relay is returned.
CheckError(c) ==
  /\ pc[c] = "check"
  /\ IF hdr[prel[c]] = "err" THEN Return(c) ELSE Goto(c, "admit")
  /\ UNCHANGED <<hubVars, relayVars, target, con, crel, cclosing>>

\* AddConsumer's first checks: a relay that is closing or not started is tried
\* again.
Admit(c) ==
  /\ pc[c] = "admit"
  /\ Goto(c, IF closing[prel[c]] \/ ~started[prel[c]] THEN "backoff" ELSE "register")
  /\ UNCHANGED <<hubVars, relayVars, target, con, crel, cclosing>>

\* The section under RLock: limit, duplicate, context.
Register(c) ==
  LET r == prel[c] IN
  /\ pc[c] = "register"
  /\ IF \/ hdr[r] = "err"
        \/ MaxConsumers > 0 /\ ConsumerCount(r) >= MaxConsumers
        \/ consumers[r][cid[c]] # None
       THEN Return(c)
       ELSE Goto(c, IF rctx[r] = "nil" THEN "backoff" ELSE "codecs")
  /\ UNCHANGED <<hubVars, relayVars, target, con, crel, cclosing>>

\* Relay.GetCodecs returns the error of the relay.
CodecsFail(c) ==
  /\ pc[c] = "codecs" /\ hdr[prel[c]] = "err"
  /\ Return(c)
  /\ UNCHANGED <<hubVars, relayVars, target, con, crel, cclosing>>

\* It returns the headers: the consumer is created and started, its headers
\* written and the cached GOP injected.  With the caller's context cancelled
\* meanwhile the headers need not arrive: the consumer ends, and is inserted.
StartConsumer(c) ==
  /\ pc[c] = "codecs" /\ hdr[prel[c]] = "ok"
  /\ \/ con' = [con EXCEPT ![c] = "run"]
     \/ "ctx" \in Events /\ con' = [con EXCEPT ![c] = "ending"]
  /\ crel' = [crel EXCEPT ![c] = prel[c]]
  /\ Goto(c, "insert")
  /\ UNCHANGED <<hubVars, relayVars, target, cclosing>>

\* The same, but Consumer.WriteHeader reports that the muxer has failed already,
\* or that there are no streams: the consumer ends by itself.
HeaderFails(c) ==
  /\ pc[c] = "codecs" /\ hdr[prel[c]] = "ok" /\ "muxer" \in Events
  /\ con' = [con EXCEPT ![c] = "ending"]
  /\ crel' = [crel EXCEPT ![c] = prel[c]]
  /\ Return(c)
  /\ UNCHANGED <<hubVars, relayVars, target, cclosing>>

\* Under the write lock closing and duplicates are looked at again.
Verdict_ClosingIgnored(c) ==
  IF consumers[prel[c]][cid[c]] # None THEN "undoFail" ELSE "attached"
Verdict_DuplicateIgnored(c) == IF closing[prel[c]] THEN "undoRetry" ELSE "attached"
Verdict(c) == CASE closing[prel[c]] -> "undoRetry"
                [] ~closing[prel[c]] /\ consumers[prel[c]][cid[c]] # None -> "undoFail"
                [] OTHER -> "attached"

\* The consumer is inserted, or closed again.
Insert(c) ==
  /\ pc[c] = "insert"
  /\ Goto(c, Verdict(c))
  /\ IF Verdict(c) = "attached"
       THEN /\ consumers' = [consumers EXCEPT ![prel[c]][cid[c]] = c]
            /\ UNCHANGED cclosing
       ELSE /\ cclosing' = [cclosing EXCEPT ![c] = TRUE]
            /\ UNCHANGED consumers
  /\ UNCHANGED <<hubVars, src, started, closing, rctx, hdr, main, rw, dmx, cbatch, cdrop, ccur,
                 target, con, crel>>

\* The Close of a consumer that was not inserted returns.
Undone(c) ==
  /\ pc[c] \in {"undoRetry", "undoFail"} /\ con[c] = "exit"
  /\ IF pc[c] = "undoFail" THEN Return(c) ELSE Goto(c, "backoff")
  /\ UNCHANGED <<hubVars, relayVars, target, con, crel, cclosing>>

\* 10 ms later Consume starts over.
Retry(c) ==
  /\ pc[c] = "backoff"
  /\ pc' = [pc EXCEPT ![c] = "lookup"]
  /\ prel' = [prel EXCEPT ![c] = None]
  /\ con' = [con EXCEPT ![c] = "none"]
  /\ crel' = [crel EXCEPT ![c] = None]
  /\ cclosing' = [cclosing EXCEPT ![c] = FALSE]
  /\ UNCHANGED <<hubVars, relayVars, cid, target>>

\* The caller's context is cancelled where Consume selects on it.
CtxCancelled(c) ==
  /\ pc[c] \in {"enqueue", "backoff", "codecs"} /\ "ctx" \in Events
  /\ Return(c)
  /\ UNCHANGED <<hubVars, relayVars, target, con, crel, cclosing>>

\* handle.Close looks up the relay that has the source now.
HandleClose(c) ==
  LET r == relays[SrcOf[c]] IN
  /\ pc[c] = "attached"
  /\ IF r = None
       THEN Return(c)
       ELSE /\ pc' = [pc EXCEPT ![c] = "detach"] /\ prel' = [prel EXCEPT ![c] = r]
            /\ UNCHANGED cid
  /\ UNCHANGED <<hubVars, relayVars, target, con, crel, cclosing>>

\* Relay.RemoveConsumer takes the consumer with the handle's id off the map
\* and closes it, ...
RemoveConsumer(c) ==
  LET r == prel[c]
      d == consumers[r][cid[c]]
  IN  /\ pc[c] = "detach"
      /\ IF d = None
           THEN Return(c) /\ UNCHANGED <<consumers, target, cclosing>>
           ELSE /\ consumers' = [consumers EXCEPT ![r][cid[c]] = None]
                /\ cclosing' = [cclosing EXCEPT ![d] = TRUE]
                /\ target' = [target EXCEPT ![c] = IF cclosing[d] THEN None ELSE d]
                /\ Goto(c, "closing")
      /\ UNCHANGED <<hubVars, src, started, closing, rctx, hdr, main, rw, dmx, cbatch, cdrop,
                     ccur, con, crel>>

\* ... and returns when its goroutine has ended, or at once when it lost the CAS.
Removed(c) ==
  /\ pc[c] = "closing"
  /\ target[c] # None => con[target[c]] = "exit"
  /\ target' = [target EXCEPT ![c] = None]
  /\ Return(c)
  /\ UNCHANGED <<hubVars, relayVars, con, crel, cclosing>>

\* What a caller does inside a call, and all it may do.
CallerStep(c) == \/ NotStarted(c) \/ FindRelay(c) \/ (\E r \in Relays : NewRelay(c, r))
                 \/ Enqueue(c) \/ CheckError(c) \/ Admit(c) \/ Register(c) \/ CodecsFail(c)
                 \/ StartConsumer(c) \/ HeaderFails(c) \/ Insert(c) \/ Undone(c) \/ Retry(c)
                 \/ RemoveConsumer(c) \/ Removed(c)
Caller(c) == Consume(c) \/ CallerStep(c) \/ CtxCancelled(c) \/ HandleClose(c)

Relay(r) == \/ OpenDemuxer(r) \/ GetCodecs(r) \/ GetCodecsFails(r) \/ Sweep(r) \/ MainDone(r)
            \/ SweepClose(r) \/ SweepClosed(r) \/ SweepDelete(r) \/ DemuxerRemove(r)
            \/ DemuxerClose(r) \/ ReadFails(r) \/ ReadDone(r)

Next == \/ HubStart \/ SignalStop \/ SignalCancel \/ WaitStop \/ ParentCancel \/ Hub
        \/ \E r \in Relays : Relay(r)
        \/ \E c \in Callers : Caller(c) \/ MuxerFails(c) \/ ConsumerDone(c) \/ ConsumerExit(c)

SafeSpec == Init /\ [][Next]_vars

\* Every goroutine inside a call runs on, and Go's select picks every case that
\* keeps being ready.  Factories, muxers and demuxers return once their context
\* is cancelled; a demuxer need not produce codecs or packets before, and nobody
\* is obliged to call Consume, Close or Stop.
MainStep(r) == \/ OpenDemuxer(r)
               \/ RelayDone(r) /\ (GetCodecs(r) \/ GetCodecsFails(r))
               \/ Sweep(r) \/ MainDone(r) \/ SweepClose(r) \/ SweepClosed(r) \/ SweepDelete(r)
               \/ DemuxerRemove(r) \/ DemuxerClose(r)

Fairness ==
  /\ WF_vars(Hub) /\ SF_vars(HubTick) /\ SF_vars(HubDone)
  /\ WF_vars(SignalCancel \/ WaitStop)
  /\ \A r \in Relays : WF_vars(MainStep(r)) /\ SF_vars(MainDone(r)) /\ WF_vars(ReadDone(r))
  /\ \A c \in Callers : WF_vars(ConsumerDone(c) \/ ConsumerExit(c)) /\ WF_vars(CallerStep(c))

Spec == SafeSpec /\ Fairness

-----------------------------------------------------------------------------
(* Properties. *)

HubTypes ==
  /\ hpc \in {"unstarted", "launch", "select", "close", "closeAll", "startFailed", "done"}
  /\ hubCtx \in {"nil", "live", "done"} /\ hubClosing \in BOOLEAN
  /\ stopper \in {"no", "flagged", "waiting", "returned"}
  /\ relays \in [Sources -> Relays \cup {None}] /\ startQ \in Seq(Relays)
  /\ batch \subseteq Relays /\ drop \subseteq Sources /\ hcur \in Relays \cup {None}

RelayTypes ==
  /\ src \in [Relays -> Sources \cup {None}]
  /\ started \in [Relays -> BOOLEAN] /\ closing \in [Relays -> BOOLEAN]
  /\ rctx \in [Relays -> {"nil", "live", "done"}]
  /\ hdr \in [Relays -> {"wait", "ok", "err"}]
  /\ main \in [Relays -> {"none", "open", "codecs", "loop", "sweep", "clean", "remove",
                         "closeDemuxer", "exit"}]
  /\ rw \in [Relays -> {"none", "run", "exit"}]
  /\ dmx \in [Relays -> {"none", "open", "closed"}]
  /\ consumers \in [Relays -> [Ids -> Callers \cup {None}]]
  /\ cbatch \in [Relays -> SUBSET Callers] /\ cdrop \in [Relays -> SUBSET Ids]
  /\ ccur \in [Relays -> Callers \cup {None}]

Places == {"idle", "lookup", "enqueue", "check", "admit", "register", "codecs", "insert",
           "undoRetry", "undoFail", "backoff", "attached", "detach", "closing"}

CallTypes == /\ pc \in [Callers -> Places]
             /\ prel \in [Callers -> Relays \cup {None}] /\ cid \in [Callers -> Ids \cup {None}]

ConsumerTypes == /\ target \in [Callers -> Callers \cup {None}]
                 /\ con \in [Callers -> {"none", "run", "ending", "exit"}]
                 /\ crel \in [Callers -> Relays \cup {None}]
                 /\ cclosing \in [Callers -> BOOLEAN]

TypeOK == HubTypes /\ RelayTypes /\ CallTypes /\ ConsumerTypes

\* Once a relay is marked as closing, either the hub is still waiting for it or
\* neither of its goroutines is left and its demuxer is not open, whatever was
\* in progress or queued when Close was called (relay.go:93-100, 229-249).
ReclaimIsComplete ==
  \A r \in Relays : closing[r] =>
    \/ hcur = r /\ hpc \in {"close", "closeAll"}
    \/ RelayStopped(r) /\ dmx[r] # "open"

\* A relay that was closed while it ran holds no consumer any more: none joins
\* it unseen between its clean-up and its removal from the map (relay.go:146-163,
\* 452-471).  Source failures excluded, see DeadRelayReclaimed.
ClosedRelayIsEmpty ==
  \A r \in Relays : closing[r] /\ hcur # r => Attached(r) = {}

\* A consumer is never displaced by another one with the same id: its entry
\* stays until it is deleted (relay.go:399-404, 462-468).
NoDisplacement ==
  [][\A r \in Relays, i \in Ids :
        consumers[r][i] # None /\ (\A s \in Sources : relays'[s] = relays[s])
          => consumers'[r][i] \in {consumers[r][i], None}]_vars

\* While the hub runs, a relay in the map that was not started is in the start
\* queue, or its creator is about to put it there: it is not left behind
\* unstarted with everybody retrying on it (relayhub.go:129-149, 313-345).
NoStrandedRelay ==
  \A s \in Sources :
    relays[s] # None /\ ~started[relays[s]] /\ hpc # "done" =>
      \/ InQueue(relays[s])
      \/ \E c \in Callers : pc[c] = "enqueue" /\ prel[c] = relays[s]

\* All goroutines of relays and consumers have ended, no demuxer is open.
Quiet == /\ \A r \in Relays : RelayStopped(r) /\ dmx[r] # "open"
         /\ \A c \in Callers : con[c] \in {"none", "exit"}

\* Once the hub's context is cancelled, Stop returns and at some moment after that
\* every goroutine has ended and every demuxer is closed, the relays that left the
\* map included, whatever callers are doing: the chain of waits from the hub over
\* the relays to the consumers has no cycle (relayhub.go:289-306, 379-385,
\* relay.go:146-163, 229-249).
StopCompletes ==
  (hubCtx = "done") ~> (Quiet /\ hpc = "done" /\ stopper \in {"no", "returned"})

\* While the hub runs a relay without consumers gets one or leaves the map,
\* whichever of its steps failed (av/relayhub.go:93-95, relayhub.go:311-333).
IdleReclaimed ==
  \A s \in Sources :
    (relays[s] # None /\ ConsumerCount(relays[s]) = 0)
      ~> (relays[s] = None \/ ConsumerCount(relays[s]) > 0 \/ hubCtx = "done")

-----------------------------------------------------------------------------
(* What the documentation says and the code does not do. *)

\* README.md:144: one demuxer per source.
OneDemuxerPerSource ==
  \A p, q \in Relays : p # q /\ src[p] = src[q] => ~(dmx[p] = "open" /\ dmx[q] = "open")

\* av/relayhub.go:93-94: a relay with a consumer is not reclaimed.
AttachedRelayAlive ==
  [][\A r \in Relays : hpc = "close" /\ closing'[r] /\ ~closing[r] => ConsumerCount(r) = 0]_vars

\* av/relayhub.go:133-136: Consume waits for the codecs of a relay that is still
\* starting, and does not fail because that relay is reclaimed.
ConsumeSurvivesReclaim ==
  [][\A c \in Callers : CodecsFail(c) => ~closing[prel[c]]]_vars

\* av/relayhub.go:140: Consume returns once Stop has been called.
ConsumeEndsAfterStop ==
  \A c \in Callers :
    (hubClosing /\ pc[c] \in {"lookup", "enqueue", "check", "admit", "backoff"})
      ~> (pc[c] \in {"idle", "attached"})

\* README.md:173: a relay whose source failed is reclaimed by the hub.
DeadRelayReclaimed ==
  \A s \in Sources, r \in Relays : (relays[s] = r /\ rw[r] = "exit") ~> (relays[s] # r)

\* relayhub.go:377: when Stop returns all relays and consumers have exited.
StopIsComplete == stopper = "returned" /\ hpc = "done" => Quiet

\* av/relayhub.go:61-62: Close detaches the consumer of its own handle.
HandleClosesOwn ==
  [][\A c \in Callers : RemoveConsumer(c) => consumers[prel[c]][cid[c]] \in {None, c}]_vars

\* README.md:259: the relay's clean-up closes the consumers it removes.
SweepDeletesOnlyClosed ==
  [][\A r \in Relays, i \in Ids :
        SweepDelete(r) /\ consumers[r][i] # None /\ consumers'[r][i] = None
          => cclosing[consumers[r][i]]]_vars

\* relayhub.go:29-31: the number of consumers of a relay is limited.
ConsumerLimit ==
  \A r \in Relays : MaxConsumers > 0 => ConsumerCount(r) <= MaxConsumers

\* av/factory.go:12-13: the remover is called after the demuxer is closed.
RemoverAfterClose == [][\A r \in Relays : DemuxerRemove(r) => dmx[r] = "closed"]_vars
=============================================================================
