------------------------------ MODULE GrpcPush ------------------------------
(***************************************************************************)
(* av/format/grpc, pushing: ClientMuxers send header, packets and trailer  *)
(* over PushStream RPCs; the server registers a ServerDemuxer per source   *)
(* and feeds its bounded channel; a relay obtains it from DemuxerFactory   *)
(* and reads it while a controller pauses and resumes it.  A client may    *)
(* be cancelled at any point and connect again under the same source ID.   *)
(***************************************************************************)
EXTENDS Integers, Sequences

CONSTANTS Conns,           \* the PushStream RPCs for one source ID
          None,
          BufSize,         \* defaultPacketBufSize
          Configs,         \* the codec configurations; "" is a missing one
          Errors,          \* the upstream errors a trailer carries; "" is none
          MaxPackets,      \* MaxPackets[c]: bound on the packets sent on c
          MaxPushPauses

\* No RPC is called None.
Wired == None \notin Conns
ASSUME WiredAssumption == Wired

VARIABLES mx,              \* mx[c]: the ClientMuxer
          net,             \* net[c]: messages on the wire
          cut,             \* the RPCs whose context is cancelled
          srv,             \* srv[c]: the PushStream handler
          demuxers,        \* Server.demuxers[sourceID], or None
          dmx,             \* dmx[c]: the ServerDemuxer
          relay,           \* the relay reading: [pc, on, ch]
          ctl,             \* the controller: what is left of a Pause or Resume
          pauses,
          received, ends   \* history: what was read from c; the error it ended with

pushVars == <<mx, net, cut, srv, demuxers, dmx, relay, ctl, pauses, received, ends>>

NewMuxer   == [header |-> FALSE, closed |-> FALSE, n |-> 0, acked |-> FALSE]
NewDemuxer == [queue |-> <<>>, shut |-> FALSE, err |-> "", codecs |-> "",
               paused |-> FALSE, pauseCh |-> 0, closed |-> FALSE]
Serving(pc) == [pc |-> pc, pkt |-> 0]
NoReader   == [pc |-> "idle", on |-> None, ch |-> 0]

PushInit == /\ mx = [c \in Conns |-> NewMuxer] /\ net = [c \in Conns |-> <<>>] /\ cut = {}
            /\ srv = [c \in Conns |-> Serving("first")]
            /\ demuxers = None
            /\ dmx = [c \in Conns |-> NewDemuxer]
            /\ relay = NoReader /\ ctl = <<>> /\ pauses = 0
            /\ received = [c \in Conns |-> <<>>] /\ ends = [c \in Conns |-> ""]

Send(c, msg) == net' = [net EXCEPT ![c] = Append(@, msg)]
serverSide == <<srv, demuxers, dmx, relay, ctl, pauses, received, ends>>

\* ClientMuxer.WriteHeader.  marshalStream keeps the configuration record.
WriteHeader(c, cfg) ==
  /\ ~mx[c].header /\ ~mx[c].closed
  /\ mx' = [mx EXCEPT ![c].header = TRUE]
  /\ Send(c, [t |-> "header", v |-> cfg])
  /\ UNCHANGED <<cut, serverSide>>

\* ClientMuxer.WritePacket; Send fails once the server has returned.
WritePacket(c) ==
  /\ mx[c].header /\ ~mx[c].closed /\ mx[c].n < MaxPackets[c] /\ srv[c].pc # "done"
  /\ mx' = [mx EXCEPT ![c].n = @ + 1]
  /\ Send(c, [t |-> "packet", v |-> mx[c].n + 1])
  /\ UNCHANGED <<cut, serverSide>>

\* WriteTrailer sends the upstream error, then waits for the server's answer.
WriteTrailer(c, e) ==
  /\ mx[c].header /\ ~mx[c].closed /\ srv[c].pc # "done"
  /\ mx' = [mx EXCEPT ![c].closed = TRUE]
  /\ Send(c, [t |-> "trailer", v |-> e])
  /\ UNCHANGED <<cut, serverSide>>

\* ClientMuxer.Close, or a lost connection: what is on the wire may not arrive.
\* Without effect once the RPC is over.
Cancel(c) == /\ mx[c].header /\ c \notin cut /\ srv[c].pc # "done"
             /\ mx' = [mx EXCEPT ![c].closed = TRUE]
             /\ cut' = cut \cup {c}
             /\ \E k \in 0 .. Len(net[c]) : net' = [net EXCEPT ![c] = SubSeq(@, 1, k)]
             /\ UNCHANGED serverSide

clientSide == <<mx, cut>>

-----------------------------------------------------------------------------
\* setError: the first one stays.
SetError(d, e) == [d EXCEPT !.err = IF @ = "" THEN e ELSE @]

\* The deferred function of PushStream: the demuxer leaves the map, then its
\* channel is closed.  What is still on the wire is not received any more.
ReturnPush(c, e, ack) ==
  /\ srv' = [srv EXCEPT ![c] = Serving("done")]
  /\ demuxers' = IF demuxers = c THEN None ELSE demuxers
  /\ dmx' = [dmx EXCEPT ![c] = [SetError(@, e) EXCEPT !.shut = TRUE]]
  /\ mx' = [mx EXCEPT ![c].closed = TRUE, ![c].acked = ack]
  /\ net' = [net EXCEPT ![c] = <<>>] /\ cut' = cut \ {c}

Refuse(c) == /\ srv' = [srv EXCEPT ![c] = Serving("done")]
             /\ net' = [net EXCEPT ![c] = <<>>] /\ cut' = cut \ {c}
             /\ mx' = [mx EXCEPT ![c].closed = TRUE]
             /\ UNCHANGED <<demuxers, dmx>>

\* PushStream up to the registration: the header must be readable (H.264, H.265
\* and AAC need their configuration) and the source ID free.
SourceInUse_Never(c) == FALSE
SourceInUse(c) == demuxers # None
PushStream(c) ==
  /\ srv[c].pc = "first" /\ net[c] # <<>>
  /\ IF Head(net[c]).t # "header" \/ Head(net[c]).v = "" \/ SourceInUse(c) THEN Refuse(c)
     ELSE /\ net' = [net EXCEPT ![c] = Tail(@)] /\ UNCHANGED cut
          /\ srv' = [srv EXCEPT ![c] = Serving("recv")]
          /\ demuxers' = c
          /\ dmx' = [dmx EXCEPT ![c].codecs = Head(net[c]).v]
          /\ UNCHANGED mx
  /\ UNCHANGED <<relay, ctl, pauses, received, ends>>
PushFails(c) ==
  /\ srv[c].pc = "first" /\ net[c] = <<>> /\ c \in cut
  /\ Refuse(c)
  /\ UNCHANGED <<relay, ctl, pauses, received, ends>>

\* One message in pushReadLoop.
Recv(c) ==
  LET m == Head(net[c])
      rest == net' = [net EXCEPT ![c] = Tail(@)] /\ UNCHANGED cut
  IN  /\ srv[c].pc = "recv" /\ net[c] # <<>>
      /\ CASE m.t = "packet" -> /\ srv' = [srv EXCEPT ![c] = [pc |-> "put", pkt |-> m.v]]
                                /\ rest /\ UNCHANGED <<demuxers, dmx, mx>>
           [] m.t = "trailer" -> ReturnPush(c, IF m.v = "" THEN "EOF" ELSE m.v, TRUE)
           [] OTHER -> IF m.v = "" THEN ReturnPush(c, "config", FALSE)
                       ELSE /\ dmx' = [dmx EXCEPT ![c].codecs = m.v]
                            /\ rest /\ UNCHANGED <<srv, demuxers, mx>>
      /\ UNCHANGED <<relay, ctl, pauses, received, ends>>

\* Recv fails, or the context ends while the channel is full.
RecvFails(c) == /\ srv[c].pc = "recv" /\ net[c] = <<>> /\ c \in cut
                /\ ReturnPush(c, "cancelled", FALSE)
                /\ UNCHANGED <<relay, ctl, pauses, received, ends>>
PutFails(c) == /\ srv[c].pc = "put" /\ c \in cut
               /\ ReturnPush(c, "cancelled", FALSE)
               /\ UNCHANGED <<relay, ctl, pauses, received, ends>>
PutPacket(c) == /\ srv[c].pc = "put" /\ Len(dmx[c].queue) < BufSize
                /\ dmx' = [dmx EXCEPT ![c].queue = Append(@, srv[c].pkt)]
                /\ srv' = [srv EXCEPT ![c] = Serving("recv")]
                /\ UNCHANGED <<net, cut, mx, demuxers, relay, ctl, pauses, received, ends>>

-----------------------------------------------------------------------------
\* DemuxerFactory and GetCodecs: the codecs are known before the registration.
OpenReader == /\ relay.pc = "idle" /\ demuxers # None
              /\ relay' = [pc |-> "read", on |-> demuxers, ch |-> 0]
              /\ UNCHANGED <<net, clientSide, srv, demuxers, dmx, ctl, pauses, received, ends>>

\* ReadPacket: paused.Load, then the channel under pauseMu, then the packet.
ReadPacket == /\ relay.pc = "read"
              /\ relay' = [relay EXCEPT !.pc = IF dmx[relay.on].paused THEN "paused?" ELSE "take"]
              /\ UNCHANGED <<net, clientSide, srv, demuxers, dmx, ctl, pauses, received, ends>>
LoadPauseCh == /\ relay.pc = "paused?"
               /\ relay' = [relay EXCEPT
                              !.pc = IF dmx[relay.on].pauseCh = 0 THEN "take" ELSE "blocked",
                              !.ch = dmx[relay.on].pauseCh]
               /\ UNCHANGED <<net, clientSide, srv, demuxers, dmx, ctl, pauses, received, ends>>
TakePacket == /\ relay.pc = "take" /\ dmx[relay.on].queue # <<>>
              /\ received' = [received EXCEPT ![relay.on] = Append(@, Head(dmx[relay.on].queue))]
              /\ dmx' = [dmx EXCEPT ![relay.on].queue = Tail(@)]
              /\ relay' = [relay EXCEPT !.pc = "read"]
              /\ UNCHANGED <<net, clientSide, srv, demuxers, ctl, pauses, ends>>
TakeEnd_Early == /\ relay.pc = "take" /\ dmx[relay.on].shut
                 /\ ends' = [ends EXCEPT ![relay.on] = dmx[relay.on].err]
                 /\ relay' = [relay EXCEPT !.pc = "close"]
                 /\ UNCHANGED <<net, clientSide, srv, demuxers, dmx, ctl, pauses, received>>
TakeEnd == /\ relay.pc = "take" /\ dmx[relay.on].queue = <<>> /\ dmx[relay.on].shut
           /\ ends' = [ends EXCEPT ![relay.on] = dmx[relay.on].err]
           /\ relay' = [relay EXCEPT !.pc = "close"]
           /\ UNCHANGED <<net, clientSide, srv, demuxers, dmx, ctl, pauses, received>>

\* The relay's context ends; it closes the demuxer, which resumes it.
StopReader == /\ relay.pc \in {"take", "blocked"} /\ ctl = <<>>
              /\ relay' = [relay EXCEPT !.pc = "close"]
              /\ UNCHANGED <<net, clientSide, srv, demuxers, dmx, ctl, pauses, received, ends>>
CloseReader == /\ relay.pc = "close" /\ ctl = <<>>
               /\ dmx' = IF dmx[relay.on].closed THEN dmx
                         ELSE [dmx EXCEPT ![relay.on].closed = TRUE, ![relay.on].paused = FALSE,
                                          ![relay.on].pauseCh = 0]
               /\ relay' = NoReader
               /\ UNCHANGED <<net, clientSide, srv, demuxers, ctl, pauses, received, ends>>

\* Pause: the flag by compare-and-swap, then a channel under pauseMu.
PauseDemuxer == /\ ctl = <<>> /\ relay.on # None /\ pauses < MaxPushPauses /\ ~dmx[relay.on].paused
                /\ dmx' = [dmx EXCEPT ![relay.on].paused = TRUE]
                /\ pauses' = pauses + 1 /\ ctl' = <<"make", relay.on>>
                /\ UNCHANGED <<net, clientSide, srv, demuxers, relay, received, ends>>
PauseMakes == /\ ctl # <<>> /\ ctl[1] = "make"
              /\ dmx' = [dmx EXCEPT ![ctl[2]].pauseCh = pauses]
              /\ ctl' = <<>>
              /\ UNCHANGED <<net, clientSide, srv, demuxers, relay, pauses, received, ends>>
\* Resume: the flag, then the channel is taken, then closed.
ResumeDemuxer == /\ ctl = <<>> /\ relay.on # None /\ dmx[relay.on].paused
                 /\ dmx' = [dmx EXCEPT ![relay.on].paused = FALSE]
                 /\ ctl' = <<"take", relay.on>>
                 /\ UNCHANGED <<net, clientSide, srv, demuxers, relay, pauses, received, ends>>
ResumeTakes == /\ ctl # <<>> /\ ctl[1] = "take"
               /\ ctl' = <<"close", dmx[ctl[2]].pauseCh>>
               /\ dmx' = [dmx EXCEPT ![ctl[2]].pauseCh = 0]
               /\ UNCHANGED <<net, clientSide, srv, demuxers, relay, pauses, received, ends>>
ResumeCloses_NoWake == /\ ctl # <<>> /\ ctl[1] = "close" /\ ctl' = <<>>
                       /\ UNCHANGED <<net, clientSide, srv, demuxers, dmx, relay, pauses, received, ends>>
ResumeCloses == /\ ctl # <<>> /\ ctl[1] = "close"
                /\ ctl' = <<>>
                /\ relay' = IF relay.pc = "blocked" /\ relay.ch = ctl[2]
                             THEN [relay EXCEPT !.pc = "take"] ELSE relay
                /\ UNCHANGED <<net, clientSide, srv, demuxers, dmx, pauses, received, ends>>

PushNext == \/ \E c \in Conns :
                 \/ \E cfg \in Configs : WriteHeader(c, cfg)
                 \/ WritePacket(c) \/ Cancel(c)
                 \/ \E e \in Errors : WriteTrailer(c, e)
                 \/ PushStream(c) \/ PushFails(c) \/ Recv(c) \/ RecvFails(c)
                 \/ PutPacket(c) \/ PutFails(c)
            \/ OpenReader \/ ReadPacket \/ LoadPauseCh \/ TakePacket \/ TakeEnd
            \/ StopReader \/ CloseReader
            \/ PauseDemuxer \/ PauseMakes \/ ResumeDemuxer \/ ResumeTakes \/ ResumeCloses

PushSpec == PushInit /\ [][PushNext]_pushVars

-----------------------------------------------------------------------------
FirstN(n) == [i \in 1 .. n |-> i]

\* Reading gives a source's packets once each and in the order pushed, and its
\* end is only reported after the last one the server took: with a trailer the
\* client saw acknowledged that is all of them, and the error is the trailer's.
EndAfterLastPacket ==
  \A c \in Conns :
    /\ received[c] \o dmx[c].queue = FirstN(Len(received[c] \o dmx[c].queue))
    /\ ends[c] # "" => dmx[c].queue = <<>> /\ ends[c] = dmx[c].err
    /\ mx[c].acked => /\ Len(received[c] \o dmx[c].queue) = mx[c].n
                      /\ dmx[c].err \in {"EOF"} \cup (Errors \ {""})

\* The registered demuxer is one that a handler still feeds, so that a relay
\* that opens its source again after the end never gets the ended one.
RegisteredIsFed ==
  /\ demuxers # None => srv[demuxers].pc \in {"recv", "put"} /\ ~dmx[demuxers].shut
  /\ \A c \in Conns : srv[c].pc \in {"recv", "put"} => demuxers = c

\* A reader blocked by a pause waits on the channel the next Resume closes or
\* the one a Resume is about to close; with no control call in progress it is
\* blocked only while paused.
BlockedIsPaused ==
  relay.pc = "blocked" =>
    \/ relay.ch = dmx[relay.on].pauseCh /\ (dmx[relay.on].paused \/ ctl = <<"take", relay.on>>)
    \/ ctl = <<"close", relay.ch>>

\* What is pushed is read.
PushedIsRead == EndAfterLastPacket /\ RegisteredIsFed /\ BlockedIsPaused
=============================================================================
