------------------------------- MODULE Consumer -------------------------------
(***************************************************************************)
(* av/relayhub/consumer.go: a bounded packet queue and the goroutine that  *)
(* drives an av.Muxer from it.  The goroutine opens the muxer, writes its  *)
(* header, hands packets over and, when the muxer asks for it, rotates to  *)
(* a new muxer.  Each of its steps is one call into a factory or muxer,    *)
(* which may fail.  Start and Close race with each other, several Closes   *)
(* race among themselves.                                                  *)
(*                                                                         *)
(* Codec headers are generations: 1 for the initial ones, one more for     *)
(* each change announced by a packet.  The n-th packet has number n.       *)
(***************************************************************************)
EXTENDS Integers, Sequences, FiniteSets

CONSTANTS Closers,     \* the goroutines that call Close
          QueueSize,   \* capacity of the packets channel
          CanChange,   \* the muxer implements av.CodecChanger
          HasErrCh,    \* ConsumeOptions.ErrChan is not nil
          Failures,    \* what may fail: a subset of AllFailures
          MaxPkts,     \* bound on the packets written to the queue
          MaxMuxers    \* bound on the muxers opened

AllFailures == {"codecs", "factory", "header", "change", "write"}

ASSUME ConsumerAssumption ==
  /\ QueueSize \in Nat \ {0} /\ MaxPkts \in Nat /\ MaxMuxers \in Nat \ {0}
  /\ CanChange \in BOOLEAN /\ HasErrCh \in BOOLEAN
  /\ Failures \subseteq AllFailures

VARIABLES
  spc,       \* Start: "idle", "checked", "started", "failed"
  closing,   \* alreadyClosing
  inactive,
  ctx,       \* the context: "nil" until Start stored m.cancel, "live", "done"
  cpc,       \* each Close: "idle", "flagged", "waiting", "done", or "lost" the CAS
  headers,   \* the headers field, as a generation; 0 when nil
  hch,       \* headersAvailable: "open", "sent", "drained", "closed" (empty)
  lastErr,   \* headersErr # nil
  queue,     \* the packets channel
  sent,      \* number of packets written to it
  gpc,       \* where the goroutine is
  pkt,       \* the packet it holds, in the steps from "change" to "rotWrite"
  cur,       \* the muxer variable of run, an index of mux
  mux,       \* history: what happened to each muxer opened
  acc,       \* history: the packets accepted, and by which muxer
  seen,      \* history: the last codec generation a packet taken announced
  removed    \* history: calls of muxerRemover

lifeVars == <<spc, closing, ctx, cpc>>
feedVars == <<headers, queue, sent>>
muxVars  == <<cur, mux, acc>>
vars == <<spc, closing, inactive, ctx, cpc, headers, hch, lastErr, queue, sent, gpc, pkt, cur,
          mux, acc, seen, removed>>

Packet == [n : Nat, codecs : Nat]      \* codecs = 0: NewCodecs is nil
NoPkt  == [n |-> 0, codecs |-> 0]
MuxRec == [hdr : Nat, trailers : Nat, closes : Nat]
AccRec == [n : Nat, m : Nat]
Opened == [hdr |-> 0, trailers |-> 0, closes |-> 0]

Init ==
  /\ spc = "idle" /\ closing = FALSE /\ inactive = FALSE /\ ctx = "nil"
  /\ cpc = [k \in Closers |-> "idle"]
  /\ headers = 0 /\ hch = "open" /\ lastErr = FALSE /\ queue = <<>> /\ sent = 0
  /\ gpc = "none" /\ pkt = NoPkt /\ cur = 0
  /\ mux = <<>> /\ acc = <<>> /\ seen = 0 /\ removed = 0

-----------------------------------------------------------------------------
(* Start and Close. *)

\* Start, the first look at alreadyClosing.
StartCheck ==
  /\ spc = "idle"
  /\ spc' = IF closing THEN "failed" ELSE "checked"
  /\ UNCHANGED <<feedVars, muxVars, closing, inactive, ctx, cpc, hch, lastErr, gpc, pkt, seen,
                 removed>>

StartSpawn_NoSecondLook ==
  /\ spc = "checked"
  /\ spc' = "started" /\ gpc' = "headers" /\ ctx' = "live"
  /\ UNCHANGED <<feedVars, muxVars, closing, inactive, cpc, hch, lastErr, pkt, seen, removed>>

\* The section under m.mu: look again, then spawn the goroutine.
StartSpawn ==
  /\ spc = "checked"
  /\ IF closing
       THEN spc' = "failed" /\ UNCHANGED <<gpc, ctx>>
       ELSE spc' = "started" /\ gpc' = "headers" /\ ctx' = "live"
  /\ UNCHANGED <<feedVars, muxVars, closing, inactive, cpc, hch, lastErr, pkt, seen, removed>>

\* Close: whoever loses the CAS returns at once, ...
CloseFlag(k) ==
  /\ cpc[k] = "idle"
  /\ cpc' = [cpc EXCEPT ![k] = IF closing THEN "lost" ELSE "flagged"]
  /\ closing' = TRUE
  /\ inactive' = TRUE
  /\ UNCHANGED <<feedVars, muxVars, spc, ctx, hch, lastErr, gpc, pkt, seen, removed>>

CloseCancel_Nothing(k) ==
  /\ cpc[k] = "flagged"
  /\ cpc' = [cpc EXCEPT ![k] = "waiting"]
  /\ UNCHANGED <<feedVars, muxVars, spc, closing, inactive, ctx, hch, lastErr, gpc, pkt, seen,
                 removed>>

\* ... the winner cancels the context, if there is one, ...
CloseCancel(k) ==
  /\ cpc[k] = "flagged"
  /\ cpc' = [cpc EXCEPT ![k] = "waiting"]
  /\ ctx' = IF ctx = "live" THEN "done" ELSE ctx
  /\ UNCHANGED <<feedVars, muxVars, spc, closing, inactive, hch, lastErr, gpc, pkt, seen, removed>>

\* ... and waits for the goroutine.
CloseReturn(k) ==
  /\ cpc[k] = "waiting" /\ gpc \in {"none", "exit"}
  /\ cpc' = [cpc EXCEPT ![k] = "done"]
  /\ UNCHANGED <<feedVars, muxVars, spc, closing, inactive, ctx, hch, lastErr, gpc, pkt, seen,
                 removed>>

\* The context of the relay, from which that of the consumer is derived, ends.
RelayCancel ==
  /\ ctx = "live"
  /\ ctx' = "done"
  /\ UNCHANGED <<feedVars, muxVars, spc, closing, inactive, cpc, hch, lastErr, gpc, pkt, seen,
                 removed>>

-----------------------------------------------------------------------------
(* The producer side: AddConsumer and readWriteLoop. *)

\* setLastError marks the consumer inactive only when there is an error channel.
SetLastError == /\ lastErr' = TRUE
                /\ inactive' = (inactive \/ HasErrCh)

\* WriteHeader: the streams are stored and sent, unless ctx is done first.
WriteHeader ==
  /\ spc = "started" /\ hch = "open"
  /\ headers' = 1
  /\ hch' \in {"sent", "closed"}
  /\ UNCHANGED <<lifeVars, muxVars, inactive, lastErr, queue, sent, gpc, pkt, seen, removed>>

\* There are no streams.
WriteNoHeader ==
  /\ spc = "started" /\ hch = "open" /\ "codecs" \in Failures
  /\ hch' = "closed"
  /\ SetLastError
  /\ UNCHANGED <<lifeVars, feedVars, muxVars, gpc, pkt, seen, removed>>

\* A packet is put on the channel, blocking or leaky; it may announce new codecs.
WritePacket(change) ==
  /\ hch # "open" /\ sent < MaxPkts /\ Len(queue) < QueueSize
  /\ sent' = sent + 1
  /\ queue' = Append(queue, [n |-> sent + 1, codecs |-> IF change THEN sent + 2 ELSE 0])
  /\ UNCHANGED <<lifeVars, muxVars, headers, inactive, hch, lastErr, gpc, pkt, seen, removed>>

-----------------------------------------------------------------------------
(* The goroutine: run. *)

\* closeMuxer: WriteTrailer and Close, errors ignored.
Closed(m) ==
  [mux EXCEPT ![m] = [hdr |-> @.hdr, trailers |-> @.trailers + 1, closes |-> @.closes + 1]]

\* waitForHeaders
HeadersArrive ==
  /\ gpc = "headers" /\ hch = "sent"
  /\ gpc' = "open" /\ hch' = "drained"
  /\ UNCHANGED <<lifeVars, feedVars, muxVars, inactive, lastErr, pkt, seen, removed>>

HeadersNever ==
  /\ gpc = "headers" /\ (ctx = "done" \/ hch = "closed")
  /\ gpc' = "finish"
  /\ UNCHANGED <<lifeVars, feedVars, muxVars, inactive, hch, lastErr, pkt, seen, removed>>

\* Where an error takes the goroutine: run's deferred closeMuxer is in place
\* once the first muxer is open, also while a rotation is under way.
ErrorExit(first) == gpc' = IF first THEN "finish" ELSE "close"

\* openAndInitMuxer, at start and in a rotation: muxerFactory, ...
OpenMuxer ==
  /\ gpc \in {"open", "rotOpen"}
  /\ mux' = Append(mux, Opened)
  /\ gpc' = IF gpc = "open" THEN "init" ELSE "rotInit"
  /\ UNCHANGED <<lifeVars, feedVars, inactive, hch, lastErr, pkt, cur, acc, seen, removed>>

OpenFails ==
  /\ gpc \in {"open", "rotOpen"}
  /\ "factory" \in Failures \/ ctx = "done"
  /\ SetLastError
  /\ ErrorExit(gpc = "open")
  /\ UNCHANGED <<lifeVars, feedVars, muxVars, hch, pkt, seen, removed>>

\* ... then the header, ...
InitMuxer ==
  /\ gpc \in {"init", "rotInit"}
  /\ mux' = [mux EXCEPT ![Len(mux)].hdr = headers]
  /\ IF gpc = "init" THEN gpc' = "loop" /\ cur' = Len(mux)
                     ELSE gpc' = "rotWrite" /\ UNCHANGED cur
  /\ UNCHANGED <<lifeVars, feedVars, inactive, hch, lastErr, pkt, acc, seen, removed>>

InitFails_LeavesMuxerOpen ==
  /\ gpc \in {"init", "rotInit"} /\ "header" \in Failures
  /\ SetLastError
  /\ ErrorExit(gpc = "init")
  /\ UNCHANGED <<lifeVars, feedVars, muxVars, hch, pkt, seen, removed>>

\* ... and on failure the new muxer is closed.
InitFails ==
  /\ gpc \in {"init", "rotInit"} /\ "header" \in Failures
  /\ mux' = Closed(Len(mux))
  /\ SetLastError
  /\ ErrorExit(gpc = "init")
  /\ UNCHANGED <<lifeVars, feedVars, hch, pkt, cur, acc, seen, removed>>

\* packetLoop
LoopDone ==
  /\ gpc = "loop" /\ ctx = "done"
  /\ gpc' = "close"
  /\ UNCHANGED <<lifeVars, feedVars, muxVars, inactive, hch, lastErr, pkt, seen, removed>>

Take ==
  /\ gpc = "loop" /\ queue # <<>>
  /\ pkt' = Head(queue) /\ queue' = Tail(queue)
  /\ seen' = IF pkt'.codecs # 0 THEN pkt'.codecs ELSE seen
  /\ gpc' = IF pkt'.codecs # 0 /\ CanChange THEN "change" ELSE "write"
  /\ UNCHANGED <<lifeVars, muxVars, headers, sent, inactive, hch, lastErr, removed>>

\* handlePacket
ChangeCodecs ==
  /\ gpc = "change"
  /\ mux' = [mux EXCEPT ![cur].hdr = pkt.codecs]
  /\ gpc' = "write"
  /\ UNCHANGED <<lifeVars, feedVars, inactive, hch, lastErr, pkt, cur, acc, seen, removed>>

ChangeFails ==
  /\ gpc = "change" /\ "change" \in Failures
  /\ SetLastError
  /\ gpc' = "close" /\ pkt' = NoPkt
  /\ UNCHANGED <<lifeVars, feedVars, muxVars, hch, seen, removed>>

Accept(m) == acc' = Append(acc, [n |-> pkt.n, m |-> m])

WriteMuxer ==
  /\ gpc = "write"
  /\ Accept(cur)
  /\ gpc' = "loop" /\ pkt' = NoPkt
  /\ UNCHANGED <<lifeVars, feedVars, inactive, hch, lastErr, cur, mux, seen, removed>>

WriteFails ==
  /\ gpc = "write" /\ "write" \in Failures
  /\ SetLastError
  /\ gpc' = "close" /\ pkt' = NoPkt
  /\ UNCHANGED <<lifeVars, feedVars, muxVars, hch, seen, removed>>

Rotate_OldStaysOpen ==
  /\ gpc = "write" /\ Len(mux) < MaxMuxers
  /\ gpc' = "rotOpen"
  /\ UNCHANGED <<lifeVars, feedVars, muxVars, inactive, hch, lastErr, pkt, seen, removed>>

\* The muxer answers ErrMuxerRotate: rotateMuxer closes it, ...
Rotate ==
  /\ gpc = "write" /\ Len(mux) < MaxMuxers
  /\ mux' = Closed(cur)
  /\ gpc' = "rotOpen"
  /\ UNCHANGED <<lifeVars, feedVars, inactive, hch, lastErr, pkt, cur, acc, seen, removed>>

RotateWrite_PacketForgotten ==
  /\ gpc = "rotWrite"
  /\ cur' = Len(mux)
  /\ gpc' = "loop" /\ pkt' = NoPkt
  /\ UNCHANGED <<lifeVars, feedVars, inactive, hch, lastErr, mux, acc, seen, removed>>

RotateWrite_ToOldMuxer ==
  /\ gpc = "rotWrite"
  /\ Accept(cur)
  /\ cur' = Len(mux)
  /\ gpc' = "loop" /\ pkt' = NoPkt
  /\ UNCHANGED <<lifeVars, feedVars, inactive, hch, lastErr, mux, seen, removed>>

\* ... and the new muxer gets the packet the old one did not take.
RotateWrite ==
  /\ gpc = "rotWrite"
  /\ Accept(Len(mux))
  /\ cur' = Len(mux)
  /\ gpc' = "loop" /\ pkt' = NoPkt
  /\ UNCHANGED <<lifeVars, feedVars, inactive, hch, lastErr, mux, seen, removed>>

\* The new muxer does not take it either, or asks to rotate once more.
RotateWriteFails ==
  /\ gpc = "rotWrite" /\ "write" \in Failures
  /\ mux' = Closed(Len(mux))
  /\ SetLastError
  /\ gpc' = "close" /\ pkt' = NoPkt
  /\ UNCHANGED <<lifeVars, feedVars, hch, cur, acc, seen, removed>>

\* The deferred functions of run: closeMuxer, ...
CloseMuxer ==
  /\ gpc = "close"
  /\ mux' = Closed(cur)
  /\ gpc' = "finish"
  /\ UNCHANGED <<lifeVars, feedVars, inactive, hch, lastErr, pkt, cur, acc, seen, removed>>

Finish_StaysActive ==
  /\ gpc = "finish"
  /\ gpc' = "remove"
  /\ UNCHANGED <<lifeVars, feedVars, muxVars, inactive, hch, lastErr, pkt, seen, removed>>

\* ... inactive.Store(true), ...
Finish ==
  /\ gpc = "finish"
  /\ inactive' = TRUE
  /\ gpc' = "remove"
  /\ UNCHANGED <<lifeVars, feedVars, muxVars, hch, lastErr, pkt, seen, removed>>

\* ... cleanupRemover and cancel.
Remove ==
  /\ gpc = "remove"
  /\ removed' = removed + 1
  /\ ctx' = "done"
  /\ gpc' = "exit"
  /\ UNCHANGED <<feedVars, muxVars, spc, closing, cpc, inactive, hch, lastErr, pkt, seen>>

Run == \/ HeadersArrive \/ HeadersNever \/ OpenMuxer \/ OpenFails \/ InitMuxer \/ InitFails
       \/ LoopDone \/ Take \/ ChangeCodecs \/ ChangeFails \/ WriteMuxer \/ WriteFails \/ Rotate
       \/ RotateWrite \/ RotateWriteFails \/ CloseMuxer \/ Finish \/ Remove

Next == \/ StartCheck \/ StartSpawn \/ RelayCancel \/ WriteHeader \/ WriteNoHeader
        \/ \E change \in BOOLEAN : WritePacket(change)
        \/ \E k \in Closers : CloseFlag(k) \/ CloseCancel(k) \/ CloseReturn(k)
        \/ Run

\* Calls in progress run on and the muxer's calls return; the select of
\* packetLoop picks Done in the end, however many packets arrive.
Fairness == /\ WF_vars(Run) /\ SF_vars(LoopDone)
            /\ \A k \in Closers : WF_vars(CloseCancel(k) \/ CloseReturn(k))

Spec == Init /\ [][Next]_vars /\ Fairness

-----------------------------------------------------------------------------
(* Properties. *)

Muxers == 1 .. Len(mux)
Taken  == sent - Len(queue)

TypeOK ==
  /\ spc \in {"idle", "checked", "started", "failed"}
  /\ closing \in BOOLEAN /\ inactive \in BOOLEAN /\ lastErr \in BOOLEAN
  /\ ctx \in {"nil", "live", "done"}
  /\ cpc \in [Closers -> {"idle", "flagged", "waiting", "done", "lost"}]
  /\ headers \in Nat /\ hch \in {"open", "sent", "drained", "closed"}
  /\ queue \in Seq(Packet) /\ sent \in Nat /\ pkt \in Packet
  /\ gpc \in {"none", "headers", "open", "init", "loop", "change", "write", "rotOpen", "rotInit",
              "rotWrite", "close", "finish", "remove", "exit"}
  /\ mux \in Seq(MuxRec)
  /\ cur \in 0 .. Len(mux)
  /\ acc \in Seq(AccRec)
  /\ seen \in Nat /\ removed \in Nat

\* Packets reach the muxers in the order of the queue, none twice and none left
\* out: while the goroutine is between two packets the muxers together hold all
\* it has taken, also those during whose delivery a muxer was rotated out, and
\* they hold them in the order the muxers were opened (consumer.go:336-391).
RotationLosesNothing ==
  /\ \A i \in DOMAIN acc : acc[i].n = i
  /\ \A i, j \in DOMAIN acc : i < j => acc[i].m <= acc[j].m
  /\ gpc = "loop" => Len(acc) = Taken

\* The files of two segments are never open at the same time (consumer.go:373-391).
OneMuxerOpen == \A m \in Muxers : mux[m].closes = 0 => m = Len(mux)

\* A muxer gets packets only between its header and its trailer (av/muxer.go:13-17).
WriteInsideLifecycle ==
  [][acc' # acc => LET m == acc'[Len(acc')].m
                   IN  mux[m].hdr # 0 /\ mux[m].trailers = 0 /\ mux[m].closes = 0]_vars

\* The remover is called once, after every muxer was finalised and closed
\* (consumer.go:259-295, README.md:260).
RemoverLast ==
  /\ removed = IF gpc = "exit" THEN 1 ELSE 0
  /\ gpc \in {"finish", "remove", "exit"} =>
       \A m \in Muxers : mux[m].trailers > 0 /\ mux[m].closes > 0

\* When the Close that won the CAS has returned there is no goroutine, and none
\* starts any more, however Close and Start interleave (consumer.go:83-133).
CloseIsFinal == (\E k \in Closers : cpc[k] = "done") => gpc \in {"none", "exit"}

\* Close returns, and a consumer that recorded an error ends and is seen as
\* inactive by the relay's sweep, with or without an error channel.
CloseReturns == \A k \in Closers : cpc[k] = "flagged" ~> cpc[k] = "done"
ErrorEnds    == lastErr ~> (gpc = "exit" /\ inactive)

-----------------------------------------------------------------------------
(* What the documentation says and the code does not do. *)

\* av/muxer.go:16: WriteTrailer is called exactly once.
TrailerOnce == \A m \in Muxers : mux[m].trailers <= 1

\* README.md:209, 269: the header of a new segment has the current codecs.
RotationHeaderIsCurrent ==
  [][gpc = "rotInit" /\ gpc' = "rotWrite" => mux'[Len(mux)].hdr >= seen]_vars
=============================================================================
