------------------------------ MODULE GrpcPull ------------------------------
(***************************************************************************)
(* av/format/grpc, pulling: a relay consumer drives a ServerMuxer, whose   *)
(* messages a ClientDemuxer reads.  Every ReadPacket starts a goroutine    *)
(* that calls Recv; when the caller's context ends first the goroutine is  *)
(* left behind and takes the next message with it.                         *)
(***************************************************************************)
EXTENDS Integers, Sequences, FiniteSets

CONSTANTS MaxSent, MaxCancels

VARIABLES sm,          \* the ServerMuxer: its flags, packets sent, the error it ended with
          strm,        \* the messages of the PullStream RPC
          cd,          \* the ClientDemuxer: its codecs, and whether it is closed
          recvs,       \* the goroutines in Recv
          call,        \* the goroutine of the ReadPacket in progress, or 0
          inbox,       \* what that goroutine left in its channel
          pulled, ended, cancels     \* history: packets returned; the final error

pullVars == <<sm, strm, cd, recvs, call, inbox, pulled, ended, cancels>>
demuxState == <<cd, recvs, call, inbox, pulled, ended, cancels>>

PullInit == /\ sm = [header |-> FALSE, closed |-> FALSE, n |-> 0, err |-> ""]
            /\ strm = <<>>
            /\ cd = [codecs |-> FALSE, closed |-> FALSE]
            /\ recvs = {} /\ call = 0 /\ inbox = <<>>
            /\ pulled = <<>> /\ ended = "" /\ cancels = 0

SendHeader == /\ ~sm.closed /\ ~sm.header
              /\ sm' = [sm EXCEPT !.header = TRUE]
              /\ strm' = Append(strm, [t |-> "header", v |-> ""])
              /\ UNCHANGED demuxState
SendPacket == /\ ~sm.closed /\ sm.header /\ sm.n < MaxSent
              /\ sm' = [sm EXCEPT !.n = @ + 1]
              /\ strm' = Append(strm, [t |-> "packet", v |-> sm.n + 1])
              /\ UNCHANGED demuxState
\* The header is no condition: a trailer may be the first message.
SendTrailer(e) == /\ ~sm.closed
                  /\ sm' = [sm EXCEPT !.closed = TRUE, !.err = e]
                  /\ strm' = Append(strm, [t |-> "trailer", v |-> e])
                  /\ UNCHANGED demuxState

\* GetCodecs opens the RPC and takes the header.
GetCodecs == /\ ~cd.codecs /\ ~cd.closed /\ strm # <<>>
             /\ strm' = Tail(strm)
             /\ IF Head(strm).t = "header" THEN cd' = [cd EXCEPT !.codecs = TRUE] /\ UNCHANGED ended
                ELSE cd' = [cd EXCEPT !.closed = TRUE] /\ ended' = "unexpected header"
             /\ UNCHANGED <<sm, recvs, call, inbox, pulled, cancels>>

\* ReadPacket starts its goroutine.  Each abandoned call leaves one behind, so
\* the next number is free.
PullPacket == /\ cd.codecs /\ call = 0 /\ ended = ""
              /\ call' = cancels + 1
              /\ recvs' = recvs \cup {call'} /\ inbox' = <<>>
              /\ UNCHANGED <<sm, strm, cd, pulled, ended, cancels>>

\* A goroutine's Recv returns a message, or the error of the closed stream.
Deliver(g, msg) == IF g = call THEN <<msg>> ELSE inbox
RecvMsg(g) == /\ strm # <<>> /\ recvs' = recvs \ {g}
              /\ strm' = Tail(strm)
              /\ inbox' = Deliver(g, Head(strm))
              /\ UNCHANGED <<sm, cd, call, pulled, ended, cancels>>
RecvErr_AtEndOnly(g) == /\ sm.closed /\ strm = <<>>
                        /\ recvs' = recvs \ {g}
                        /\ inbox' = Deliver(g, [t |-> "error", v |-> "EOF"])
                        /\ UNCHANGED <<sm, strm, cd, call, pulled, ended, cancels>>
RecvErr(g) == /\ cd.closed \/ (sm.closed /\ strm = <<>>)
              /\ recvs' = recvs \ {g}
              /\ inbox' = Deliver(g, [t |-> "error", v |-> IF cd.closed THEN "cancelled" ELSE "EOF"])
              /\ UNCHANGED <<sm, strm, cd, call, pulled, ended, cancels>>

\* decodeResponse: the error a call returns with a message, "" for a packet.
ErrorOf_NoTrailer(m) == CASE m.t = "packet" -> ""
                          [] m.t = "error" -> m.v
                          [] OTHER -> "EOF"
ErrorOf(m) == CASE m.t = "packet" -> ""
                [] m.t = "trailer" -> IF m.v = "" THEN "EOF" ELSE m.v
                [] m.t = "error" -> m.v
                [] OTHER -> "unexpected payload"
PullReturns == LET m == inbox[1]
          IN  /\ call # 0 /\ inbox # <<>>
              /\ call' = 0 /\ inbox' = <<>>
              /\ pulled' = IF m.t = "packet" THEN Append(pulled, m.v) ELSE pulled
              /\ ended' = ErrorOf(m)
              /\ UNCHANGED <<sm, strm, cd, recvs, cancels>>

\* The context of the call ends; the goroutine stays behind.
ReturnCancelled == /\ call # 0 /\ cancels < MaxCancels
                   /\ cancels' = cancels + 1 /\ call' = 0 /\ inbox' = <<>>
                   /\ UNCHANGED <<sm, strm, cd, recvs, pulled, ended>>

ClosePull == /\ ~cd.closed /\ cd' = [cd EXCEPT !.closed = TRUE]
             /\ UNCHANGED <<sm, strm, recvs, call, inbox, pulled, ended, cancels>>

PullNext == \/ SendHeader \/ SendPacket \/ \E e \in {"", "upstream"} : SendTrailer(e)
            \/ GetCodecs \/ PullPacket \/ PullReturns \/ ReturnCancelled \/ ClosePull
            \/ \E g \in recvs : RecvMsg(g) \/ RecvErr(g)

PullSpec == PullInit /\ [][PullNext]_pullVars

\* A goroutine that can run does.
PullFairness == /\ WF_pullVars(PullReturns)
                /\ WF_pullVars(\E g \in recvs : RecvMsg(g) \/ RecvErr(g))

-----------------------------------------------------------------------------
Missing(n) == (1 .. n) \ {pulled[i] : i \in DOMAIN pulled}
\* Packets are returned in the order sent, none twice, and each call that was
\* abandoned costs one message at most: with no abandoned call nothing is lost
\* before the end, and the end reported is the one the muxer was closed with.
PullLosesOnlyAbandoned ==
  /\ \A i, j \in DOMAIN pulled : i < j => pulled[i] < pulled[j]
  /\ pulled # <<>> => Cardinality(Missing(pulled[Len(pulled)])) <= cancels
  /\ (ended = "EOF" /\ ~cd.closed) => Cardinality(Missing(sm.n)) <= cancels
  /\ (ended # "" /\ ~cd.closed /\ cancels = 0) => ended = IF sm.err = "" THEN "EOF" ELSE sm.err

\* Close makes a reader that is waiting for a message return.
CloseUnblocksRead == cd.closed /\ call # 0 ~> call = 0
=============================================================================
