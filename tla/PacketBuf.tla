------------------------------ MODULE PacketBuf ------------------------------
(***************************************************************************)
(* av/packetbuf/buffer.go: a sliding window of packets with one writer and *)
(* any number of blocking readers (bufDemuxer).  Readers sleep on a notify *)
(* channel that every write and the close replace under the lock and close *)
(* after releasing it, so the interleavings of interest are between the    *)
(* snapshot a reader takes, the swap and the close of the channel.         *)
(*                                                                         *)
(* One step of a reader is one iteration of the loop in ReadPacket: the    *)
(* snapshot is taken under RLock and all that follows reads locals only.   *)
(***************************************************************************)
EXTENDS PacketOps, FiniteSets

CONSTANTS Readers,     \* the bufDemuxers made by Buffer.Demuxer
          Since,       \* [Readers -> Times], the argument of Demuxer(since)
          MaxAge,      \* Buffer.maxAge
          MaxTime,     \* bound on the clock
          MaxPkts      \* bound on the number of packets written

Times == 1 .. MaxTime
Unset == 0             \* the zero WallClockTime, stamped with time.Now()
Pkt   == [wall : Times]

ASSUME BufAssumption == /\ MaxAge \in Nat
                        /\ MaxTime \in Nat \ {0}
                        /\ MaxPkts \in Nat
                        /\ Since \in [Readers -> Times]

VARIABLES
  now,         \* time.Now()
  pkts,        \* Buffer.pkts
  baseOffset,  \* Buffer.baseOffset
  closed,      \* Buffer.closed
  notify,      \* identity of the channel in Buffer.notify
  fired,       \* the notify channels that were closed
  writer,      \* channel WritePacket has swapped out and not yet closed, or 0
  closer,      \* progress of Buffer.Close: "no", "flagged", "swapped", "done"
  closerCh,    \* the channel Close swapped out
  cursor,      \* bufDemuxer.cursor
  scanned,     \* bufDemuxer.started
  done,        \* bufDemuxer.done
  rpc,         \* each reader: "idle" between calls, "loop" or "wait" inside one
  waitCh,      \* the channel a waiting reader selects on
  log, got, eof \* history: all packets written, positions returned, EOFs

bufVars    == <<pkts, baseOffset, notify>>
readerVars == <<cursor, scanned, rpc, waitCh, got, eof>>
vars == <<now, pkts, baseOffset, closed, notify, fired, writer, closer, closerCh,
          cursor, scanned, done, rpc, waitCh, log, got, eof>>

Init == /\ now = 1
        /\ pkts = <<>> /\ baseOffset = 0 /\ closed = FALSE
        /\ notify = 1 /\ fired = {}
        /\ writer = 0 /\ closer = "no" /\ closerCh = 0
        /\ cursor  = [r \in Readers |-> 0]
        /\ scanned = [r \in Readers |-> FALSE]
        /\ done    = [r \in Readers |-> FALSE]
        /\ rpc     = [r \in Readers |-> "idle"]
        /\ waitCh  = [r \in Readers |-> 0]
        /\ log = <<>>
        /\ got = [r \in Readers |-> <<>>]
        /\ eof = {}

-----------------------------------------------------------------------------
(* The write side. *)

Tick == /\ now < MaxTime
        /\ now' = now + 1
        /\ UNCHANGED <<bufVars, readerVars, closed, fired, writer, closer, closerCh, done, log>>

\* A packet without a wall clock time gets the current one.
Stamp(w) == IF w = Unset THEN now ELSE w

\* WritePacket up to the unlock: stamp, append, evictLocked, swap the channel.
\* Nothing is written once the buffer is closed: Relay.Close waits for the
\* read loop, the only writer, before it calls Buffer.Close.
WritePacket(w) ==
  /\ ~closed /\ writer = 0 /\ Len(log) < MaxPkts
  /\ LET p    == [wall |-> Stamp(w)]
         all  == Append(pkts, p)
         n    == OlderPrefix(all, now - MaxAge)
     IN  /\ pkts' = SubSeq(all, n + 1, Len(all))
         /\ baseOffset' = baseOffset + n
         /\ log' = Append(log, p)
  /\ writer' = notify
  /\ notify' = notify + 1
  /\ UNCHANGED <<readerVars, now, closed, fired, closer, closerCh, done>>

WakeReaders_RereadsNotify ==
  /\ writer # 0
  /\ fired' = fired \cup {notify}
  /\ writer' = 0
  /\ UNCHANGED <<bufVars, readerVars, now, closed, closer, closerCh, done, log>>

\* close(ch) at the end of WritePacket.
WakeReaders ==
  /\ writer # 0
  /\ fired' = fired \cup {writer}
  /\ writer' = 0
  /\ UNCHANGED <<bufVars, readerVars, now, closed, closer, closerCh, done, log>>

\* Buffer.Close, whose first step is the compare-and-swap of closed.
CloseFlag ==
  /\ closer = "no" /\ ~closed
  /\ closed' = TRUE
  /\ closer' = "flagged"
  /\ UNCHANGED <<bufVars, readerVars, now, fired, writer, closerCh, done, log>>

CloseSwap ==
  /\ closer = "flagged"
  /\ closerCh' = notify
  /\ notify' = notify + 1
  /\ closer' = "swapped"
  /\ UNCHANGED <<readerVars, now, pkts, baseOffset, closed, fired, writer, done, log>>

CloseWake_RereadsNotify ==
  /\ closer = "swapped"
  /\ fired' = fired \cup {notify}
  /\ closer' = "done"
  /\ UNCHANGED <<bufVars, readerVars, now, closed, writer, closerCh, done, log>>

CloseWake ==
  /\ closer = "swapped"
  /\ fired' = fired \cup {closerCh}
  /\ closer' = "done"
  /\ UNCHANGED <<bufVars, readerVars, now, closed, writer, closerCh, done, log>>

-----------------------------------------------------------------------------
(* The read side: bufDemuxer. *)

\* ReadPacket is entered; a closed demuxer returns io.EOF at once.
ReadCall(r) ==
  /\ rpc[r] = "idle" /\ ~done[r]
  /\ rpc' = [rpc EXCEPT ![r] = "loop"]
  /\ UNCHANGED <<bufVars, now, closed, fired, writer, closer, closerCh, cursor,
                 scanned, done, waitCh, log, got, eof>>

Position_SkipsFirst(r) ==
  LET c == IF scanned[r] THEN cursor[r] ELSE baseOffset + OlderPrefix(pkts, Since[r])
  IN  IF c < baseOffset THEN baseOffset + 1 ELSE c

\* Where the cursor stands after the startup scan and the eviction fix-up.
Position(r) ==
  LET c == IF scanned[r] THEN cursor[r] ELSE baseOffset + OlderPrefix(pkts, Since[r])
  IN  IF c < baseOffset THEN baseOffset ELSE c

\* The packet is older than the reader asked for.
TooOld_Never(p, r) == FALSE
TooOld(p, r) == p.wall < Since[r]

\* One iteration of the loop finds a packet: it is returned, or skipped when
\* it is older than the requested start.
ReadOne(r) ==
  LET c == Position(r)
      p == pkts[c - baseOffset + 1]
  IN  /\ rpc[r] = "loop"
      /\ c - baseOffset < Len(pkts)
      /\ cursor' = [cursor EXCEPT ![r] = c + 1]
      /\ scanned' = [scanned EXCEPT ![r] = TRUE]
      /\ IF TooOld(p, r)
           THEN UNCHANGED <<rpc, got>>
           ELSE /\ rpc' = [rpc EXCEPT ![r] = "idle"]
                /\ got' = [got EXCEPT ![r] = Append(@, c + 1)]
      /\ UNCHANGED <<bufVars, now, closed, fired, writer, closer, closerCh, done,
                     waitCh, log, eof>>

\* Nothing left: io.EOF when closed, otherwise wait on the channel of the
\* snapshot.
ReadNone(r) ==
  LET c == Position(r)
  IN  /\ rpc[r] = "loop"
      /\ c - baseOffset >= Len(pkts)
      /\ cursor' = [cursor EXCEPT ![r] = c]
      /\ scanned' = [scanned EXCEPT ![r] = TRUE]
      /\ IF closed
           THEN /\ rpc' = [rpc EXCEPT ![r] = "idle"]
                /\ eof' = eof \cup {r}
                /\ UNCHANGED waitCh
           ELSE /\ rpc' = [rpc EXCEPT ![r] = "wait"]
                /\ waitCh' = [waitCh EXCEPT ![r] = notify]
                /\ UNCHANGED eof
      /\ UNCHANGED <<bufVars, now, closed, fired, writer, closer, closerCh, done, log, got>>

Woken(r) ==
  /\ rpc[r] = "wait" /\ waitCh[r] \in fired
  /\ rpc' = [rpc EXCEPT ![r] = "loop"]
  /\ UNCHANGED <<bufVars, now, closed, fired, writer, closer, closerCh, cursor,
                 scanned, done, waitCh, log, got, eof>>

\* The context of the call is cancelled while it waits.
CtxDone(r) ==
  /\ rpc[r] = "wait"
  /\ rpc' = [rpc EXCEPT ![r] = "idle"]
  /\ UNCHANGED <<bufVars, now, closed, fired, writer, closer, closerCh, cursor,
                 scanned, done, waitCh, log, got, eof>>

\* bufDemuxer.Close only sets the flag that the next ReadPacket looks at.
DemuxerClose(r) ==
  /\ ~done[r]
  /\ done' = [done EXCEPT ![r] = TRUE]
  /\ UNCHANGED <<bufVars, readerVars, now, closed, fired, writer, closer, closerCh, log>>

-----------------------------------------------------------------------------
Reader(r) == ReadOne(r) \/ ReadNone(r) \/ Woken(r)

Next == \/ Tick
        \/ \E w \in Times \cup {Unset} : WritePacket(w)
        \/ WakeReaders
        \/ CloseFlag \/ CloseSwap \/ CloseWake
        \/ \E r \in Readers : ReadCall(r) \/ Reader(r) \/ CtxDone(r) \/ DemuxerClose(r)

\* Goroutines that are in the middle of a call keep running; nobody is
\* obliged to write, to read, to cancel or to close.
Fairness == /\ WF_vars(WakeReaders)
            /\ WF_vars(CloseSwap) /\ WF_vars(CloseWake)
            /\ \A r \in Readers : WF_vars(Reader(r))

Spec == Init /\ [][Next]_vars /\ Fairness

-----------------------------------------------------------------------------
(* Properties. *)

TypeOK == /\ now \in Times
          /\ pkts \in Seq(Pkt) /\ log \in Seq(Pkt)
          /\ baseOffset \in Nat
          /\ closed \in BOOLEAN
          /\ notify \in Nat \ {0}
          /\ fired \subseteq Nat
          /\ writer \in Nat
          /\ closer \in {"no", "flagged", "swapped", "done"}
          /\ closerCh \in Nat
          /\ cursor \in [Readers -> Nat]
          /\ scanned \in [Readers -> BOOLEAN]
          /\ done \in [Readers -> BOOLEAN]
          /\ rpc \in [Readers -> {"idle", "loop", "wait"}]
          /\ waitCh \in [Readers -> Nat]
          /\ got \in [Readers -> Seq(Nat)]
          /\ eof \subseteq Readers

\* A reader asleep on the notify channel has nothing to read and no close to
\* learn of, unless the channel it sleeps on is closed or a writer or closer
\* that has already swapped it out is about to close it (buffer.go:54-61,
\* 66-74, 155-160, 204-209).
NoLostWakeup ==
  \A r \in Readers : rpc[r] = "wait" =>
    \/ waitCh[r] \in fired
    \/ writer # 0 /\ waitCh[r] = writer
    \/ closer = "swapped" /\ waitCh[r] = closerCh
    \/ /\ waitCh[r] = notify
       /\ cursor[r] = baseOffset + Len(pkts)
       /\ closed => closer = "flagged"

\* Every packet the cursor of a reader has passed was returned to it, or is
\* older than the start it asked for, or was evicted (buffer.go:162-197).
OnlyEvictedOrOldMissed ==
  \A r \in Readers : \A i \in 1 .. Len(log) :
    i <= cursor[r] => \/ i \in { got[r][k] : k \in DOMAIN got[r] }
                      \/ log[i].wall < Since[r]
                      \/ i <= baseOffset

\* The buffer implements the abstract replay stream: reads are in order,
\* without duplicates, never older than asked for, and end only when a closed
\* buffer is drained.
Stream == INSTANCE ReplayStream WITH Packets <- Pkt, gone <- baseOffset
StreamSpec == Stream!SSpec

\* What the proofs need besides: the window is the log without its evicted
\* prefix, and what lies between the last packet a reader was given and its
\* cursor is evicted or older than the reader asked for.
WindowInv ==
  /\ Len(log) = baseOffset + Len(pkts)
  /\ \A i \in 1 .. Len(pkts) : pkts[i] = log[baseOffset + i]

CursorInv ==
  \A r \in Readers :
    /\ Stream!LastGot(r) <= cursor[r]
    /\ cursor[r] <= Len(log)
    /\ ~scanned[r] => cursor[r] = 0
    /\ \A i \in Stream!LastGot(r)+1 .. cursor[r] :
         i <= baseOffset \/ log[i].wall < Since[r]

IInv == TypeOK /\ WindowInv /\ CursorInv /\ NoLostWakeup /\ OnlyEvictedOrOldMissed

\* A ReadPacket call with a packet to return, or running against a closed
\* buffer, returns, unless all it could return is evicted before it looks: no
\* reader sleeps forever on a packet or on the close.
Answerable(r) == closed \/ Stream!Eligible(r) # {}
ReadReturns ==
  \A r \in Readers :
    (rpc[r] # "idle" /\ Answerable(r)) ~> (rpc[r] = "idle" \/ ~Answerable(r))
=============================================================================
