----------------------------- MODULE RelayDelivery -----------------------------
(***************************************************************************)
(* av/relayhub, which packets a consumer gets: the read loop of a relay    *)
(* (Relay.readWriteLoop) reads a packet, appends it to the packet buffer   *)
(* and hands it to the consumers attached at that moment, blocking when    *)
(* there is exactly one and dropping what does not fit when there are      *)
(* more.  Meanwhile callers attach (Relay.AddConsumer): a new consumer is  *)
(* primed with the last group of pictures in the buffer and then inserted  *)
(* into the map the loop takes its snapshots of.                           *)
(*                                                                         *)
(* The packet buffer appears as what PacketBuf is shown to implement: a    *)
(* log, log[base+1 .. ] being still there.  A packet is its position in    *)
(* the log; deliv records for each one put on a queue how it came there.   *)
(***************************************************************************)
EXTENDS PacketOps, FiniteSets

CONSTANTS Consumers,
          QueueSize,    \* capacity of a consumer's queue
          Kinds,        \* packets the source produces: "key", "delta", "audio"
          DtsSteps,     \* by how much DTS may change from one packet to the next;
                        \* it steps back where the packets of two streams interleave
          MaxPkts,      \* bound on the packets read
          MaxEvict,     \* bound on the packets evicted by one write
          Events        \* a subset of AllEvents

\* A muxer fails, a consumer's handle is closed, the relay's context ends.
AllEvents == {"muxer", "close", "done"}

ASSUME DeliveryAssumption ==
  /\ IsFiniteSet(Consumers) /\ QueueSize \in Nat \ {0} /\ MaxPkts \in Nat /\ MaxEvict \in Nat
  /\ Kinds \subseteq {"key", "delta", "audio"} /\ DtsSteps \subseteq Int
  /\ Events \subseteq AllEvents

VARIABLES
  log, base,    \* the packet buffer
  lpc,          \* the read loop: "read", "snapshot", "deliver", "exit"
  pend,         \* consumers of the snapshot not yet served
  blocking,     \* the snapshot had one consumer
  done,         \* the relay's context is cancelled
  jpc,          \* AddConsumer: "out", "inject", "in"
  gop,          \* what is left to inject, positions in the log
  skipTo,       \* Consumer.skipBefore, as a position; 0 when not set
  needsKey,     \* Consumer.needsKeyframe
  attached,     \* the consumers map
  dead,         \* the consumer's goroutine has ended, Inactive() holds
  queue,        \* each consumer's packets channel
  deliv,        \* history: what was put on it, injected ("gop") or "live"
  leaky         \* history: the packets delivered to several consumers

loopVars == <<log, base, lpc, pend, blocking, leaky>>
joinVars == <<jpc, gop>>
conVars  == <<skipTo, needsKey, queue, deliv>>
vars == <<log, base, lpc, pend, blocking, done, jpc, gop, skipTo, needsKey, attached, dead,
          queue, deliv, leaky>>

Pkt == [key : BOOLEAN, video : BOOLEAN, dts : Int]
Packet(kind, dts) == [key |-> kind = "key", video |-> kind # "audio", dts |-> dts]
LastDts == IF log = <<>> THEN 0 ELSE log[Len(log)].dts

Init ==
  /\ log = <<>> /\ base = 0
  /\ lpc = "read" /\ pend = {} /\ blocking = FALSE /\ done = FALSE
  /\ jpc = [c \in Consumers |-> "out"] /\ gop = [c \in Consumers |-> <<>>]
  /\ skipTo = [c \in Consumers |-> 0] /\ needsKey = [c \in Consumers |-> FALSE]
  /\ attached = {} /\ dead = {}
  /\ queue = [c \in Consumers |-> <<>>] /\ deliv = [c \in Consumers |-> <<>>]
  /\ leaky = {}

-----------------------------------------------------------------------------
(* The read loop. *)

\* ReadPacket, and pktBuf.WritePacket with the eviction it does.
Read(kind, step) ==
  /\ lpc = "read" /\ Len(log) < MaxPkts
  /\ log' = Append(log, Packet(kind, LastDts + step))
  /\ base' \in base .. (base + MaxEvict) /\ base' <= Len(log)
  /\ lpc' = "snapshot"
  /\ UNCHANGED <<joinVars, conVars, pend, blocking, done, attached, dead, leaky>>

Cur == Len(log)

\* The consumers that are attached and active, under RLock.
Snapshot ==
  /\ lpc = "snapshot"
  /\ LET active == attached \ dead
     IN  /\ pend' = active
         /\ blocking' = (Cardinality(active) = 1)
         /\ leaky' = IF Cardinality(active) > 1 THEN leaky \cup {Cur} ELSE leaky
         /\ lpc' = IF active = {} THEN "read" ELSE "deliver"
  /\ UNCHANGED <<joinVars, conVars, log, base, done, attached, dead>>

\* Consumer.ShouldSkip: the packet is older than the last one injected.
ShouldSkip(c) == skipTo[c] # 0 /\ log[Cur].dts < log[skipTo[c]].dts

\* ShouldSkip stops looking once a packet has passed.
StopSkipping(c) == skipTo' = [skipTo EXCEPT ![c] = 0]

Served(c) == /\ pend' = pend \ {c}
             /\ lpc' = IF pend = {c} THEN "read" ELSE "deliver"

Put(c) == /\ queue' = [queue EXCEPT ![c] = Append(@, Cur)]
          /\ deliv' = [deliv EXCEPT ![c] = Append(@, [i |-> Cur, how |-> "live"])]

Full(c) == Len(queue[c]) >= QueueSize

Skip(c) ==
  /\ lpc = "deliver" /\ c \in pend /\ ShouldSkip(c)
  /\ Served(c)
  /\ UNCHANGED <<joinVars, conVars, log, base, blocking, done, leaky, attached, dead>>

WritePacket_DropsWhenFull(c) ==
  /\ lpc = "deliver" /\ c \in pend /\ blocking /\ ~ShouldSkip(c)
  /\ StopSkipping(c)
  /\ IF Full(c) THEN UNCHANGED <<queue, deliv>> ELSE Put(c)
  /\ Served(c)
  /\ UNCHANGED <<joinVars, log, base, blocking, done, leaky, needsKey, attached, dead>>

\* WritePacket: wait for room.
WritePacket(c) ==
  /\ lpc = "deliver" /\ c \in pend /\ blocking /\ ~ShouldSkip(c) /\ ~Full(c)
  /\ StopSkipping(c)
  /\ Put(c)
  /\ Served(c)
  /\ UNCHANGED <<joinVars, log, base, blocking, done, leaky, needsKey, attached, dead>>

\* NeedsKeyframeRecovery: after a drop everything up to the next keyframe is
\* left out.
Recover(c) ==
  /\ lpc = "deliver" /\ c \in pend /\ ~blocking /\ ~ShouldSkip(c)
  /\ needsKey[c] /\ ~log[Cur].key
  /\ StopSkipping(c)
  /\ Served(c)
  /\ UNCHANGED <<joinVars, log, base, blocking, done, leaky, needsKey, queue, deliv, attached, dead>>

\* Whether a consumer has to wait for a keyframe after a leaky write.
KeyNeeded_Never(c) == FALSE
KeyNeeded(c) == Full(c)

WritePacketLeaky_WaitsForRoom(c) ==
  /\ lpc = "deliver" /\ c \in pend /\ ~blocking /\ ~ShouldSkip(c)
  /\ needsKey[c] => log[Cur].key
  /\ ~Full(c)
  /\ StopSkipping(c)
  /\ needsKey' = [needsKey EXCEPT ![c] = KeyNeeded(c)]
  /\ Put(c)
  /\ Served(c)
  /\ UNCHANGED <<joinVars, log, base, blocking, done, leaky, attached, dead>>

\* WritePacketLeaky: a packet that does not fit is dropped.
WritePacketLeaky(c) ==
  /\ lpc = "deliver" /\ c \in pend /\ ~blocking /\ ~ShouldSkip(c)
  /\ needsKey[c] => log[Cur].key
  /\ StopSkipping(c)
  /\ needsKey' = [needsKey EXCEPT ![c] = KeyNeeded(c)]
  /\ IF Full(c) THEN UNCHANGED <<queue, deliv>> ELSE Put(c)
  /\ Served(c)
  /\ UNCHANGED <<joinVars, log, base, blocking, done, leaky, attached, dead>>

\* The relay's context ends ...
RelayDone ==
  /\ "done" \in Events /\ ~done
  /\ done' = TRUE
  /\ UNCHANGED <<loopVars, joinVars, conVars, attached, dead>>

WriteCancelled_LeakyOnly(c) ==
  /\ done /\ lpc = "deliver" /\ c \in pend /\ ~ShouldSkip(c)
  /\ ~blocking /\ (needsKey[c] => log[Cur].key)
  /\ StopSkipping(c)
  /\ needsKey' = [needsKey EXCEPT ![c] = FALSE]
  /\ Served(c)
  /\ UNCHANGED <<joinVars, log, base, blocking, done, leaky, queue, deliv, attached, dead>>

\* ... and a write in progress may return without the packet, which is then
\* lost without being counted, ...
WriteCancelled(c) ==
  /\ done /\ lpc = "deliver" /\ c \in pend /\ ~ShouldSkip(c)
  /\ ~blocking /\ needsKey[c] => log[Cur].key
  /\ StopSkipping(c)
  /\ needsKey' = IF blocking THEN needsKey ELSE [needsKey EXCEPT ![c] = FALSE]
  /\ Served(c)
  /\ UNCHANGED <<joinVars, log, base, blocking, done, leaky, queue, deliv, attached, dead>>

\* ... until the loop sees it at its select or in ReadPacket.
LoopDone ==
  /\ done /\ lpc = "read"
  /\ lpc' = "exit"
  /\ UNCHANGED <<joinVars, conVars, log, base, pend, blocking, leaky, done, attached, dead>>

-----------------------------------------------------------------------------
(* AddConsumer, from LastGOP on, and what becomes of a consumer. *)

\* The positions LastGOP returns the packets of.
GopPositions_FromStart == [k \in 1 .. Len(log) - base |-> base + k]
GopPositions == LET n == Len(LastGOP(SubSeq(log, base + 1, Len(log))))
                IN  [k \in 1 .. n |-> Len(log) - n + k]

\* LastGOP.
TakeGop(c) ==
  /\ jpc[c] = "out"
  /\ gop' = [gop EXCEPT ![c] = GopPositions]
  /\ jpc' = [jpc EXCEPT ![c] = "inject"]
  /\ UNCHANGED <<loopVars, conVars, done, attached, dead>>

\* Its packets go on the queue one by one, blocking; the last one sets skipBefore.
Inject(c) ==
  /\ jpc[c] = "inject" /\ gop[c] # <<>> /\ ~Full(c)
  /\ queue' = [queue EXCEPT ![c] = Append(@, Head(gop[c]))]
  /\ deliv' = [deliv EXCEPT ![c] = Append(@, [i |-> Head(gop[c]), how |-> "gop"])]
  /\ gop' = [gop EXCEPT ![c] = Tail(@)]
  /\ skipTo' = [skipTo EXCEPT ![c] = Head(gop[c])]
  /\ UNCHANGED <<loopVars, done, jpc, needsKey, attached, dead>>

\* The consumer becomes visible to the loop.
Insert_BeforeInjection(c) ==
  /\ jpc[c] = "inject"
  /\ attached' = attached \cup {c}
  /\ jpc' = [jpc EXCEPT ![c] = IF gop[c] = <<>> THEN "in" ELSE @]
  /\ UNCHANGED <<loopVars, conVars, done, gop, dead>>

Insert(c) ==
  /\ jpc[c] = "inject" /\ gop[c] = <<>>
  /\ attached' = attached \cup {c}
  /\ jpc' = [jpc EXCEPT ![c] = "in"]
  /\ UNCHANGED <<loopVars, conVars, done, gop, dead>>

\* The consumer's goroutine passes a packet to the muxer.
Drain(c) ==
  /\ jpc[c] # "out" /\ c \notin dead /\ queue[c] # <<>>
  /\ queue' = [queue EXCEPT ![c] = Tail(@)]
  /\ UNCHANGED <<loopVars, joinVars, done, skipTo, needsKey, attached, dead, deliv>>

\* It ends because the muxer failed; the relay's sweep takes it off the map.
Dies(c) ==
  /\ "muxer" \in Events /\ jpc[c] # "out" /\ c \notin dead
  /\ dead' = dead \cup {c}
  /\ UNCHANGED <<loopVars, joinVars, conVars, done, attached>>

Sweep(c) ==
  /\ c \in attached \cap dead
  /\ attached' = attached \ {c}
  /\ UNCHANGED <<loopVars, joinVars, conVars, done, dead>>

\* handle.Close takes it off the map and ends its goroutine.
Leave(c) ==
  /\ "close" \in Events /\ c \in attached
  /\ attached' = attached \ {c}
  /\ dead' = dead \cup {c}
  /\ UNCHANGED <<loopVars, joinVars, conVars, done>>

-----------------------------------------------------------------------------
ReadAny    == \E kind \in Kinds, step \in DtsSteps : Read(kind, step)
Deliver    == \E c \in Consumers : Skip(c) \/ WritePacket(c) \/ Recover(c) \/ WritePacketLeaky(c)
                                   \/ WriteCancelled(c)
AddConsumer(c) == Inject(c) \/ Insert(c)

Next == \/ ReadAny \/ Snapshot \/ Deliver \/ RelayDone \/ LoopDone
        \/ \E c \in Consumers : \/ TakeGop(c) \/ AddConsumer(c) \/ Drain(c) \/ Dies(c)
                                \/ Sweep(c) \/ Leave(c)

\* The loop and the callers that are attaching run on; sources need not produce
\* packets.  In LoopSpec muxers may stall, in Spec those that have not failed
\* keep taking packets.
SafeSpec == Init /\ [][Next]_vars
LoopSpec == /\ SafeSpec
            /\ WF_vars(Snapshot \/ Deliver) /\ SF_vars(LoopDone)
            /\ \A c \in Consumers : WF_vars(AddConsumer(c)) /\ WF_vars(Sweep(c))
Spec == LoopSpec /\ \A c \in Consumers : WF_vars(Drain(c))

-----------------------------------------------------------------------------
(* Properties. *)

TypeOK ==
  /\ log \in Seq(Pkt) /\ base \in 0 .. Len(log)
  /\ lpc \in {"read", "snapshot", "deliver", "exit"}
  /\ pend \subseteq Consumers /\ blocking \in BOOLEAN /\ done \in BOOLEAN
  /\ jpc \in [Consumers -> {"out", "inject", "in"}]
  /\ gop \in [Consumers -> Seq(1 .. Len(log))]
  /\ skipTo \in [Consumers -> 0 .. Len(log)] /\ needsKey \in [Consumers -> BOOLEAN]
  /\ attached \subseteq Consumers /\ dead \subseteq Consumers
  /\ queue \in [Consumers -> Seq(1 .. Len(log))]
  /\ deliv \in [Consumers -> Seq([i : 1 .. Len(log), how : {"gop", "live"}])]
  /\ leaky \subseteq 1 .. Len(log)

\* Packets are put on a queue in the order they were read, the injected ones
\* before the live ones; only the last one injected can appear a second time,
\* as the first live one (relay.go:435-448, consumer.go:200-212).
DeliveredInOrder ==
  \A c \in Consumers : \A k \in 1 .. Len(deliv[c]) - 1 :
    LET p == deliv[c][k]
        q == deliv[c][k + 1]
    IN  /\ q.how = "gop" => p.how = "gop"
        /\ p.i < q.i \/ (p.i = q.i /\ p.how = "gop" /\ q.how # "gop")

\* A consumer that is primed starts with a video keyframe and gets all packets
\* from there to the point at which it joined (buffer.go:86-109).
PrimedFromKeyframe ==
  \A c \in Consumers : \A k \in DOMAIN deliv[c] : deliv[c][k].how = "gop" =>
    /\ k = 1 => log[deliv[c][k].i].key /\ log[deliv[c][k].i].video
    /\ k > 1 => deliv[c][k].i = deliv[c][k - 1].i + 1

\* Back-pressure loses nothing: a packet missing between two live packets of a
\* consumer was delivered while there were others (relay.go:587-604, README.md:165).
BackpressureLosesNothing ==
  ~done => \A c \in Consumers : \A k \in 1 .. Len(deliv[c]) - 1 :
    LET p == deliv[c][k]
        q == deliv[c][k + 1]
    IN  p.how = "live" => \A i \in p.i + 1 .. q.i - 1 : i \in leaky

\* After a gap, a leaky write goes on with a keyframe: a decoder is not fed
\* pictures whose reference was dropped (relay.go:606-616, consumer.go:180-194).
ResyncOnKeyframe ==
  ~done => \A c \in Consumers : \A k \in 1 .. Len(deliv[c]) - 1 :
    LET p == deliv[c][k]
        q == deliv[c][k + 1]
    IN  p.how = "live" /\ q.i > p.i + 1 /\ q.i \in leaky => log[q.i].key

\* With two or more consumers the loop gets through a packet although every
\* muxer may be stalled (relay.go:591-593).
LeakyNeverStalls == (lpc = "deliver" /\ ~blocking) ~> (lpc # "deliver")

\* The loop ends when the relay's context is cancelled, even when it waits for
\* room in the queue of a stalled consumer (relay.go:531-533, consumer.go:214-222).
LoopEnds == done ~> (lpc = "exit")

-----------------------------------------------------------------------------
(* What the documentation says and the code does not do. *)

\* consumer.go:38: no packet is delivered twice.
NoDuplicateDelivery ==
  \A c \in Consumers : \A j, k \in DOMAIN deliv[c] : j # k => deliv[c][j].i # deliv[c][k].i

\* consumer.go:170-171: the packets skipped are duplicates of injected ones.
SkipsOnlyDuplicates ==
  [][\A c \in Consumers : Skip(c) => \E k \in DOMAIN deliv[c] : deliv[c][k].i = Cur]_vars

\* README.md:165: the packets a single consumer gets have no gap.
SoleConsumerComplete ==
  \A c \in Consumers : \A k \in 1 .. Len(deliv[c]) - 1 :
    deliv[c][k + 1].i <= deliv[c][k].i + 1

\* consumer.go:45-47: after a drop no packet that is not a keyframe is given to
\* the consumer until a keyframe was.
NoDeltaWhileRecovering ==
  [][\A c \in Consumers :
        lpc = "deliver" /\ needsKey[c] /\ deliv'[c] # deliv[c] /\ log[Cur].video => log[Cur].key]_vars

\* consumer.go:46: while recovering only video packets are skipped.
AudioIsNotSkipped ==
  [][\A c \in Consumers : Recover(c) => log[Cur].video]_vars

\* README.md:166: a consumer does not stall the others.
OthersNotStalled ==
  \A c \in Consumers :
    (c \in attached \ dead /\ c \notin pend /\ lpc = "deliver")
      ~> (lpc # "deliver" \/ c \notin attached \ dead)

\* av/relayhub.go:133-134: attaching takes as long as the codec headers take.
AttachCompletes == \A c \in Consumers : jpc[c] = "inject" ~> jpc[c] = "in"
=============================================================================
