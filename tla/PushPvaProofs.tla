--------------------------- MODULE PushPvaProofs ---------------------------
(***************************************************************************)
(* GrpcPush, for any set of RPCs, any size of the channel and any bounds:  *)
(* what is pushed is read, once and in order, the end comes last, and a    *)
(* reader is blocked only while it is paused.  Pva, for any streams,       *)
(* mergers, channels, times and tolerance: a frame finds its result.       *)
(***************************************************************************)
EXTENDS GrpcPush, Pva, WellFoundedInduction, TLAPS

Muxers   == [header : BOOLEAN, closed : BOOLEAN, n : Nat, acked : BOOLEAN]
Messages == [t : {"header"}, v : Configs] \cup [t : {"packet"}, v : Nat]
              \cup [t : {"trailer"}, v : Errors]
Handlers == [pc : {"first", "recv", "put", "done"}, pkt : Nat]
Endings  == Errors \cup {"", "EOF", "cancelled"}
Demuxers == [queue : Seq(Nat), shut : BOOLEAN, err : Endings, codecs : Configs \cup {""},
             paused : BOOLEAN, pauseCh : Nat, closed : BOOLEAN]
Readers  == [pc : {"idle", "read", "paused?", "take", "blocked", "close"},
             on : Conns \cup {None}, ch : Nat]

PushTypes ==
  /\ mx \in [Conns -> Muxers] /\ net \in [Conns -> Seq(Messages)]
  /\ srv \in [Conns -> Handlers] /\ demuxers \in Conns \cup {None}
  /\ dmx \in [Conns -> Demuxers] /\ relay \in Readers
  /\ pauses \in Nat /\ received \in [Conns -> Seq(Nat)] /\ ends \in [Conns -> Endings]
  /\ relay.pc = "idle" <=> relay.on = None
  /\ ctl # <<>> => /\ relay.on # None
                   /\ \/ ctl = <<"make", relay.on>> \/ ctl = <<"take", relay.on>>
                      \/ ctl = <<"close", ctl[2]>> /\ ctl[2] \in Nat

\* An RPC that has not returned has ended nothing; one that has is left alone;
\* an end is reported where there is one.
Stage(c) ==
  /\ srv[c].pc # "done" => ~dmx[c].shut /\ dmx[c].err = "" /\ ~mx[c].acked
  /\ srv[c].pc = "done" => mx[c].closed /\ net[c] = <<>>
  /\ ends[c] # "" => dmx[c].shut /\ dmx[c].queue = <<>> /\ ends[c] = dmx[c].err

\* A channel to wait on exists while paused, or until Resume takes it.
Pausing ==
  /\ \A c \in Conns : dmx[c].pauseCh # 0 => dmx[c].paused \/ ctl = <<"take", c>>
  /\ ctl = <<"make", relay.on>> => dmx[relay.on].paused /\ dmx[relay.on].pauseCh = 0
  /\ relay.pc = "blocked" => relay.ch # 0

\* The number of packets c's handler has taken.
Taken(c) == Len(received[c]) + Len(dmx[c].queue)
Base(c)  == IF srv[c].pc = "first" THEN -1 ELSE IF srv[c].pc = "put" THEN Taken(c) + 1 ELSE Taken(c)

\* The packets read and those queued are the first ones pushed, in order.
InOrder(c) ==
  /\ \A i \in 1 .. Len(received[c]) : received[c][i] = i
  /\ \A i \in 1 .. Len(dmx[c].queue) : dmx[c].queue[i] = Len(received[c]) + i

\* On the wire: a header the handler waits for, then the packets that follow
\* those taken, then at most a trailer.
OnWire(c) ==
  \A i \in 1 .. Len(net[c]) :
    \/ srv[c].pc = "first" /\ i = 1 /\ net[c][i].t = "header"
    \/ (srv[c].pc = "first" => i # 1) /\ net[c][i].t = "packet" /\ net[c][i].v = Base(c) + i
    \/ /\ srv[c].pc = "first" => i # 1
       /\ net[c][i].t = "trailer" /\ i = Len(net[c]) /\ mx[c].closed
       /\ mx[c].n = Base(c) + i - 1

\* Nothing is lost on the way of an RPC that is not cancelled.
Complete(c) ==
  /\ ~mx[c].header => net[c] = <<>> /\ mx[c].n = 0 /\ srv[c].pc \in {"first", "done"}
  /\ srv[c].pc = "first" => received[c] = <<>> /\ dmx[c].queue = <<>>
  /\ srv[c].pc = "put" => srv[c].pkt = Taken(c) + 1
  /\ mx[c].header /\ ~mx[c].closed => mx[c].n = Base(c) + Len(net[c])
  /\ mx[c].acked => Taken(c) = mx[c].n /\ dmx[c].err \in {"EOF"} \cup (Errors \ {""})

ConnInv(c) == Stage(c) /\ InOrder(c) /\ OnWire(c) /\ Complete(c)

PushInv == /\ PushTypes /\ RegisteredIsFed /\ Pausing /\ BlockedIsPaused
           /\ \A c \in Conns : ConnInv(c)
-----------------------------------------------------------------------------
\* An RPC that a step leaves alone stays as it should be.
LEMMA OthersKept ==
  ASSUME NEW e \in Conns, ConnInv(e), mx'[e] = mx[e], net'[e] = net[e], srv'[e] = srv[e],
         received'[e] = received[e], ends'[e] = ends[e], dmx'[e].queue = dmx[e].queue,
         dmx'[e].shut = dmx[e].shut, dmx'[e].err = dmx[e].err
  PROVE  ConnInv(e)'
<1>1. Stage(e)'
  BY Zenon DEF ConnInv, Stage
<1>2. Taken(e)' = Taken(e)
  BY Zenon DEF Taken
<1>3. Base(e)' = Base(e)
  BY Zenon, <1>2 DEF Base
<1>4. InOrder(e)'
  BY Zenon DEF ConnInv, InOrder
<1>5. OnWire(e)'
  BY ZenonT(60), <1>3 DEF ConnInv, OnWire
<1>6. Complete(e)'
  BY Zenon, <1>2, <1>3 DEF ConnInv, Complete
<1> QED BY Zenon, <1>1, <1>4, <1>5, <1>6 DEF ConnInv

\* The empty sequence.
LEMMA EmptySeq == Len(<<>>) = 0 /\ 1 .. 0 = {} /\ \A S : <<>> \in Seq(S)
BY SMTT(40)

\* What a message is.
LEMMA MessageIs ==
  ASSUME NEW m \in Messages
  PROVE  /\ m.t \in {"header", "packet", "trailer"}
         /\ m.t = "header" => m.v \in Configs
         /\ m.t = "packet" => m.v \in Nat
         /\ m.t = "trailer" => m.v \in Errors
BY Zenon DEF Messages

\* The fields of what the types hold.
LEMMA Fields ==
  ASSUME PushTypes, NEW c \in Conns
  PROVE  /\ mx[c] \in Muxers /\ net[c] \in Seq(Messages) /\ srv[c] \in Handlers
         /\ dmx[c] \in Demuxers /\ received[c] \in Seq(Nat) /\ ends[c] \in Endings
         /\ mx[c].n \in Nat /\ srv[c].pc \in {"first", "recv", "put", "done"}
         /\ srv[c].pkt \in Nat
         /\ dmx[c].queue \in Seq(Nat) /\ dmx[c].pauseCh \in Nat /\ dmx[c].err \in Endings
         /\ Len(net[c]) \in Nat /\ Len(received[c]) \in Nat /\ Len(dmx[c].queue) \in Nat
         /\ Taken(c) \in Nat /\ Base(c) \in Int
<1>1. /\ mx[c] \in Muxers /\ net[c] \in Seq(Messages) /\ srv[c] \in Handlers
      /\ dmx[c] \in Demuxers /\ received[c] \in Seq(Nat) /\ ends[c] \in Endings
  BY Zenon DEF PushTypes
<1>2. /\ mx[c].n \in Nat /\ srv[c].pc \in {"first", "recv", "put", "done"} /\ srv[c].pkt \in Nat
      /\ dmx[c].queue \in Seq(Nat) /\ dmx[c].pauseCh \in Nat /\ dmx[c].err \in Endings
  BY <1>1, Zenon DEF Muxers, Handlers, Demuxers
<1>3. Len(net[c]) \in Nat /\ Len(received[c]) \in Nat /\ Len(dmx[c].queue) \in Nat
  BY <1>1, <1>2, SMTT(40)
<1>4. Taken(c) \in Nat
  <2>1. \A x, y \in Nat : x + y \in Nat
    BY SMTT(40)
  <2> QED BY Zenon, <1>3, <2>1 DEF Taken
<1>5. Base(c) \in Int
  BY <1>4, SMTT(40) DEF Base
<1> QED BY <1>1, <1>2, <1>3, <1>4, <1>5, Zenon

\* What the server holds stays as it should be while it does nothing.
LEMMA ServerKept ==
  ASSUME PushInv, UNCHANGED <<srv, demuxers, dmx, relay, ctl>>
  PROVE  RegisteredIsFed' /\ Pausing' /\ BlockedIsPaused'
BY Zenon DEF PushInv, RegisteredIsFed, Pausing, BlockedIsPaused

-----------------------------------------------------------------------------
(* The client's steps. *)

\* The client sends its header.
LEMMA WriteHeaderKeeps ==
  ASSUME Wired, PushInv, NEW c \in Conns, NEW cfg \in Configs, WriteHeader(c, cfg)
  PROVE  PushInv'
<1> DEFINE m == [t |-> "header", v |-> cfg]
<1>1. /\ ~mx[c].header /\ ~mx[c].closed
      /\ mx' = [mx EXCEPT ![c].header = TRUE]
      /\ net' = [net EXCEPT ![c] = Append(@, m)]
      /\ UNCHANGED <<srv, demuxers, dmx, relay, ctl, pauses, received, ends>>
  BY Zenon DEF WriteHeader, Send, serverSide
<1>2. PushTypes /\ ConnInv(c) /\ mx[c] \in Muxers /\ net[c] \in Seq(Messages) /\ mx[c].n \in Nat
  BY Fields, Zenon DEF PushInv
<1>3. m \in Messages
  BY <1>1, <1>2, Zenon DEF Messages
<1> HIDE DEF m
<1>4. /\ mx' \in [Conns -> Muxers] /\ mx'[c].header = TRUE /\ mx'[c].closed = mx[c].closed
      /\ mx'[c].n = mx[c].n /\ mx'[c].acked = mx[c].acked
      /\ \A e \in Conns : e # c => mx'[e] = mx[e]
  <2> DEFINE r == [mx[c] EXCEPT !.header = TRUE]
  <2>1. /\ r \in Muxers /\ r.header = TRUE /\ r.closed = mx[c].closed /\ r.n = mx[c].n
        /\ r.acked = mx[c].acked
    BY <1>2, Zenon DEF Muxers
  <2>2. mx' = [mx EXCEPT ![c] = r]
    BY <1>1, Zenon
  <2> HIDE DEF r
  <2> QED BY <1>2, <2>1, <2>2, Zenon DEF PushTypes
<1>5. /\ net' \in [Conns -> Seq(Messages)] /\ net'[c] = Append(net[c], m)
      /\ \A e \in Conns : e # c => net'[e] = net[e]
  BY <1>1, <1>2, <1>3, SMTT(40) DEF PushTypes
<1>6. PushTypes'
  BY <1>1, <1>2, <1>4, <1>5, Zenon DEF PushTypes
<1>7. \A e \in Conns : e # c => ConnInv(e)'
  BY <1>1, <1>4, <1>5, OthersKept, Zenon DEF PushInv
<1>8. Taken(c)' = Taken(c) /\ Base(c)' = Base(c) /\ InOrder(c)'
  BY <1>1, <1>2, Zenon DEF Taken, Base, ConnInv, InOrder
<1>9. Stage(c)'
  BY <1>1, <1>2, <1>4, <1>5, Zenon DEF ConnInv, Stage
<1>10. OnWire(c)'
  <2>1. net[c] = <<>> /\ srv[c].pc = "first"
    BY <1>1, <1>2, Zenon DEF ConnInv, Complete, Stage
  <2>2. Len(net'[c]) = 1 /\ net'[c][1] = m
    BY <1>2, <1>3, <1>5, <2>1, SMTT(40)
  <2>3. m.t = "header"
    BY Zenon DEF m
  <2> QED BY <1>1, <2>1, <2>2, <2>3, SMTT(40) DEF OnWire
<1>11. Complete(c)'
  <2>1. net[c] = <<>> /\ srv[c].pc = "first" /\ mx[c].n = 0
    BY <1>1, <1>2, Zenon DEF ConnInv, Complete, Stage
  <2>2. Len(net'[c]) = 1 /\ Base(c) = -1
    BY <1>2, <1>3, <1>5, <2>1, SMTT(40) DEF Base
  <2>3. mx'[c].n = Base(c)' + Len(net'[c])
    BY <1>4, <1>8, <2>1, <2>2, SMTT(40)
  <2> QED BY <1>1, <1>2, <1>4, <1>8, <2>1, <2>3, Zenon DEF ConnInv, Complete, Stage
<1>12. RegisteredIsFed' /\ Pausing' /\ BlockedIsPaused'
  BY <1>1, ServerKept, Zenon
<1> QED BY <1>6, <1>7, <1>8, <1>9, <1>10, <1>11, <1>12, Zenon DEF PushInv, ConnInv

\* The client sends a packet.
LEMMA WritePacketKeeps ==
  ASSUME Wired, PushInv, NEW c \in Conns, WritePacket(c)
  PROVE  PushInv'
<1> DEFINE m == [t |-> "packet", v |-> mx[c].n + 1]
<1>1. /\ mx[c].header /\ ~mx[c].closed /\ srv[c].pc # "done"
      /\ mx' = [mx EXCEPT ![c].n = @ + 1]
      /\ net' = [net EXCEPT ![c] = Append(@, m)]
      /\ UNCHANGED <<srv, demuxers, dmx, relay, ctl, pauses, received, ends>>
  BY Zenon DEF WritePacket, Send, serverSide
<1>2. PushTypes /\ ConnInv(c) /\ mx[c] \in Muxers /\ net[c] \in Seq(Messages) /\ mx[c].n \in Nat
  BY Fields, Zenon DEF PushInv
<1>3. m \in Messages
  BY <1>1, <1>2, SMTT(40) DEF Messages
<1> HIDE DEF m
<1>4. /\ mx' \in [Conns -> Muxers] /\ mx'[c].header = mx[c].header
      /\ mx'[c].closed = mx[c].closed /\ mx'[c].n = mx[c].n + 1 /\ mx'[c].acked = mx[c].acked
      /\ \A e \in Conns : e # c => mx'[e] = mx[e]
  <2> DEFINE r == [mx[c] EXCEPT !.n = mx[c].n + 1]
  <2>1. /\ r \in Muxers /\ r.header = mx[c].header /\ r.closed = mx[c].closed
        /\ r.n = mx[c].n + 1 /\ r.acked = mx[c].acked
    BY <1>2, SMTT(40) DEF Muxers
  <2>2. mx' = [mx EXCEPT ![c] = r]
    BY <1>1, Zenon
  <2> HIDE DEF r
  <2> QED BY <1>2, <2>1, <2>2, Zenon DEF PushTypes
<1>5. /\ net' \in [Conns -> Seq(Messages)] /\ net'[c] = Append(net[c], m)
      /\ \A e \in Conns : e # c => net'[e] = net[e]
  BY <1>1, <1>2, <1>3, SMTT(40) DEF PushTypes
<1>6. PushTypes'
  BY <1>1, <1>2, <1>4, <1>5, Zenon DEF PushTypes
<1>7. \A e \in Conns : e # c => ConnInv(e)'
  BY <1>1, <1>4, <1>5, OthersKept, Zenon DEF PushInv
<1>8. Taken(c)' = Taken(c) /\ Base(c)' = Base(c) /\ InOrder(c)'
  BY <1>1, <1>2, Zenon DEF Taken, Base, ConnInv, InOrder
<1>9. Stage(c)'
  BY <1>1, <1>2, <1>4, <1>5, Zenon DEF ConnInv, Stage
<1>10. OnWire(c)'
  <2>1. Len(net'[c]) = Len(net[c]) + 1 /\ net'[c][Len(net[c]) + 1] = m
        /\ \A i \in 1 .. Len(net[c]) : net'[c][i] = net[c][i]
    BY <1>2, <1>3, <1>5, SMTT(40)
  <2>3. mx[c].n = Base(c) + Len(net[c]) /\ Base(c) \in Int /\ Len(net[c]) \in Nat
    BY <1>1, <1>2, Fields, Zenon DEF ConnInv, Complete
  <2>2. ASSUME srv[c].pc = "first", net[c] = <<>> PROVE FALSE
    <3>1. Base(c) = -1 /\ Len(net[c]) = 0
      BY <2>2, Zenon DEF Base
    <3> QED BY <1>2, <2>3, <3>1, SMTT(40)
  <2>4. \A i \in 1 .. Len(net[c]) : net[c][i].t # "trailer"
    BY <1>1, <1>2, Zenon DEF ConnInv, OnWire
  <2>5. ASSUME NEW i \in 1 .. Len(net[c])
        PROVE  \/ srv[c].pc = "first" /\ i = 1 /\ net'[c][i].t = "header"
               \/ (srv[c].pc = "first" => i # 1) /\ net'[c][i].t = "packet" /\ net'[c][i].v = Base(c) + i
    BY <1>2, <2>1, <2>4, Zenon DEF ConnInv, OnWire
  <2>6. m.t = "packet" /\ m.v = mx[c].n + 1
    BY Zenon DEF m
  <2>7. m.v = Base(c) + Len(net'[c]) /\ (srv[c].pc = "first" => Len(net'[c]) # 1)
    BY <1>2, <2>1, <2>2, <2>3, <2>6, SMTT(40)
  <2>8. ASSUME NEW i \in 1 .. Len(net'[c])
        PROVE  \/ srv[c].pc = "first" /\ i = 1 /\ net'[c][i].t = "header"
               \/ (srv[c].pc = "first" => i # 1) /\ net'[c][i].t = "packet" /\ net'[c][i].v = Base(c) + i
    <3>1. CASE i \in 1 .. Len(net[c])
      BY <2>5, <3>1, Zenon
    <3>2. CASE i = Len(net'[c])
      BY <2>1, <2>6, <2>7, <3>2, Zenon
    <3> QED BY <2>1, <2>3, <3>1, <3>2, SMTT(40)
  <2> QED BY <1>1, <1>8, <2>8, Zenon DEF OnWire
<1>11. Complete(c)'
  <2>1. Len(net'[c]) = Len(net[c]) + 1 /\ Base(c) \in Int /\ Len(net[c]) \in Nat
    BY <1>2, <1>3, <1>5, Fields, SMTT(40)
  <2>2. mx[c].n = Base(c) + Len(net[c])
    BY <1>1, <1>2, Zenon DEF ConnInv, Complete
  <2>3. mx'[c].n = Base(c)' + Len(net'[c])
    BY <1>4, <1>8, <2>1, <2>2, SMTT(40)
  <2> QED BY <1>1, <1>2, <1>4, <1>8, <2>3, Zenon DEF ConnInv, Complete, Stage
<1>12. RegisteredIsFed' /\ Pausing' /\ BlockedIsPaused'
  BY <1>1, ServerKept, Zenon
<1> QED BY <1>6, <1>7, <1>8, <1>9, <1>10, <1>11, <1>12, Zenon DEF PushInv, ConnInv

\* The client sends its trailer.
LEMMA WriteTrailerKeeps ==
  ASSUME Wired, PushInv, NEW c \in Conns, NEW u \in Errors, WriteTrailer(c, u)
  PROVE  PushInv'
<1> DEFINE m == [t |-> "trailer", v |-> u]
<1>1. /\ mx[c].header /\ ~mx[c].closed /\ srv[c].pc # "done"
      /\ mx' = [mx EXCEPT ![c].closed = TRUE]
      /\ net' = [net EXCEPT ![c] = Append(@, m)]
      /\ UNCHANGED <<srv, demuxers, dmx, relay, ctl, pauses, received, ends>>
  BY Zenon DEF WriteTrailer, Send, serverSide
<1>2. PushTypes /\ ConnInv(c) /\ mx[c] \in Muxers /\ net[c] \in Seq(Messages) /\ mx[c].n \in Nat
  BY Fields, Zenon DEF PushInv
<1>3. m \in Messages
  BY <1>1, <1>2, Zenon DEF Messages
<1> HIDE DEF m
<1>4. /\ mx' \in [Conns -> Muxers] /\ mx'[c].header = mx[c].header /\ mx'[c].closed = TRUE
      /\ mx'[c].n = mx[c].n /\ mx'[c].acked = mx[c].acked
      /\ \A e \in Conns : e # c => mx'[e] = mx[e]
  <2> DEFINE r == [mx[c] EXCEPT !.closed = TRUE]
  <2>1. /\ r \in Muxers /\ r.header = mx[c].header /\ r.closed = TRUE /\ r.n = mx[c].n
        /\ r.acked = mx[c].acked
    BY <1>2, Zenon DEF Muxers
  <2>2. mx' = [mx EXCEPT ![c] = r]
    BY <1>1, Zenon
  <2> HIDE DEF r
  <2> QED BY <1>2, <2>1, <2>2, Zenon DEF PushTypes
<1>5. /\ net' \in [Conns -> Seq(Messages)] /\ net'[c] = Append(net[c], m)
      /\ \A e \in Conns : e # c => net'[e] = net[e]
  BY <1>1, <1>2, <1>3, SMTT(40) DEF PushTypes
<1>6. PushTypes'
  BY <1>1, <1>2, <1>4, <1>5, Zenon DEF PushTypes
<1>7. \A e \in Conns : e # c => ConnInv(e)'
  BY <1>1, <1>4, <1>5, OthersKept, Zenon DEF PushInv
<1>8. Taken(c)' = Taken(c) /\ Base(c)' = Base(c) /\ InOrder(c)'
  BY <1>1, <1>2, Zenon DEF Taken, Base, ConnInv, InOrder
<1>9. Stage(c)'
  BY <1>1, <1>2, <1>4, <1>5, Zenon DEF ConnInv, Stage
<1>10. OnWire(c)'
  <2>1. Len(net'[c]) = Len(net[c]) + 1 /\ net'[c][Len(net[c]) + 1] = m
        /\ \A i \in 1 .. Len(net[c]) : net'[c][i] = net[c][i]
    BY <1>2, <1>3, <1>5, SMTT(40)
  <2>3. mx[c].n = Base(c) + Len(net[c]) /\ Base(c) \in Int /\ Len(net[c]) \in Nat
    BY <1>1, <1>2, Fields, Zenon DEF ConnInv, Complete
  <2>2. ASSUME srv[c].pc = "first", net[c] = <<>> PROVE FALSE
    <3>1. Base(c) = -1 /\ Len(net[c]) = 0
      BY <2>2, Zenon DEF Base
    <3> QED BY <1>2, <2>3, <3>1, SMTT(40)
  <2>4. \A i \in 1 .. Len(net[c]) : net[c][i].t # "trailer"
    BY <1>1, <1>2, Zenon DEF ConnInv, OnWire
  <2>5. ASSUME NEW i \in 1 .. Len(net[c])
        PROVE  \/ srv[c].pc = "first" /\ i = 1 /\ net'[c][i].t = "header"
               \/ (srv[c].pc = "first" => i # 1) /\ net'[c][i].t = "packet" /\ net'[c][i].v = Base(c) + i
    BY <1>2, <2>1, <2>4, Zenon DEF ConnInv, OnWire
  <2>6. m.t = "trailer"
    BY Zenon DEF m
  <2>7. mx'[c].n = Base(c) + Len(net'[c]) - 1 /\ (srv[c].pc = "first" => Len(net'[c]) # 1)
    BY <1>2, <1>4, <2>1, <2>2, <2>3, SMTT(40)
  <2>8. ASSUME NEW i \in 1 .. Len(net'[c])
        PROVE  \/ srv[c].pc = "first" /\ i = 1 /\ net'[c][i].t = "header"
               \/ (srv[c].pc = "first" => i # 1) /\ net'[c][i].t = "packet" /\ net'[c][i].v = Base(c) + i
               \/ /\ srv[c].pc = "first" => i # 1
                  /\ net'[c][i].t = "trailer" /\ i = Len(net'[c]) /\ mx'[c].n = Base(c) + i - 1
    <3>1. CASE i \in 1 .. Len(net[c])
      BY <2>5, <3>1, Zenon
    <3>2. CASE i = Len(net'[c])
      BY <2>1, <2>6, <2>7, <3>2, Zenon
    <3> QED BY <2>1, <2>3, <3>1, <3>2, SMTT(40)
  <2> QED BY <1>1, <1>4, <1>8, <2>8, SMTT(40) DEF OnWire
<1>11. Complete(c)'
  BY <1>1, <1>2, <1>4, <1>8, Zenon DEF ConnInv, Complete, Stage
<1>12. RegisteredIsFed' /\ Pausing' /\ BlockedIsPaused'
  BY <1>1, ServerKept, Zenon
<1> QED BY <1>6, <1>7, <1>8, <1>9, <1>10, <1>11, <1>12, Zenon DEF PushInv, ConnInv

\* The client is cancelled, and what is on the wire is cut off somewhere.
LEMMA CancelKeeps ==
  ASSUME Wired, PushInv, NEW c \in Conns, Cancel(c)
  PROVE  PushInv'
<1>1. /\ mx[c].header /\ srv[c].pc # "done"
      /\ mx' = [mx EXCEPT ![c].closed = TRUE]
      /\ \E k \in 0 .. Len(net[c]) : net' = [net EXCEPT ![c] = SubSeq(@, 1, k)]
      /\ UNCHANGED <<srv, demuxers, dmx, relay, ctl, pauses, received, ends>>
  BY Zenon DEF Cancel, Send, serverSide
<1>2. PushTypes /\ ConnInv(c) /\ mx[c] \in Muxers /\ net[c] \in Seq(Messages) /\ mx[c].n \in Nat
  BY Fields, Zenon DEF PushInv
<1>3. PICK k \in 0 .. Len(net[c]) : net' = [net EXCEPT ![c] = SubSeq(@, 1, k)]
  BY <1>1, Zenon
<1>4. /\ mx' \in [Conns -> Muxers] /\ mx'[c].header = mx[c].header /\ mx'[c].closed = TRUE
      /\ mx'[c].n = mx[c].n /\ mx'[c].acked = mx[c].acked
      /\ \A e \in Conns : e # c => mx'[e] = mx[e]
  <2> DEFINE r == [mx[c] EXCEPT !.closed = TRUE]
  <2>1. /\ r \in Muxers /\ r.header = mx[c].header /\ r.closed = TRUE /\ r.n = mx[c].n
        /\ r.acked = mx[c].acked
    BY <1>2, Zenon DEF Muxers
  <2>2. mx' = [mx EXCEPT ![c] = r]
    BY <1>1, Zenon
  <2> HIDE DEF r
  <2> QED BY <1>2, <2>1, <2>2, Zenon DEF PushTypes
<1>5. /\ net' \in [Conns -> Seq(Messages)] /\ net'[c] = SubSeq(net[c], 1, k)
      /\ \A e \in Conns : e # c => net'[e] = net[e]
  BY <1>1, <1>2, <1>3, SMTT(40) DEF PushTypes
<1>6. PushTypes'
  BY <1>1, <1>2, <1>4, <1>5, Zenon DEF PushTypes
<1>7. \A e \in Conns : e # c => ConnInv(e)'
  BY <1>1, <1>4, <1>5, OthersKept, Zenon DEF PushInv
<1>8. Taken(c)' = Taken(c) /\ Base(c)' = Base(c) /\ InOrder(c)'
  BY <1>1, <1>2, Zenon DEF Taken, Base, ConnInv, InOrder
<1>9. Stage(c)'
  BY <1>1, <1>2, <1>4, <1>5, Zenon DEF ConnInv, Stage
<1>10. OnWire(c)'
  <2>1. Len(net'[c]) = k /\ \A i \in 1 .. k : i \in 1 .. Len(net[c]) /\ net'[c][i] = net[c][i]
    BY <1>2, <1>3, <1>5, SMTT(40)
  <2>2. ASSUME NEW i \in 1 .. k, net[c][i].t = "trailer" PROVE i = k
    BY <1>2, <2>1, <2>2, SMTT(40) DEF ConnInv, OnWire
  <2> QED BY <1>1, <1>2, <1>4, <1>8, <2>1, <2>2, SMTT(40) DEF ConnInv, OnWire
<1>11. Complete(c)'
  BY <1>1, <1>2, <1>4, <1>8, Zenon DEF ConnInv, Complete, Stage
<1>12. RegisteredIsFed' /\ Pausing' /\ BlockedIsPaused'
  BY <1>1, ServerKept, Zenon
<1> QED BY <1>6, <1>7, <1>8, <1>9, <1>10, <1>11, <1>12, Zenon DEF PushInv, ConnInv

-----------------------------------------------------------------------------
(* The server's steps. *)

\* Pause and Resume are not concerned by a step that leaves reader, controller
\* and what they share alone.
LEMMA PausingKept ==
  ASSUME PushTypes, Pausing, BlockedIsPaused, UNCHANGED <<relay, ctl>>,
         \A e \in Conns : dmx'[e].paused = dmx[e].paused /\ dmx'[e].pauseCh = dmx[e].pauseCh
  PROVE  Pausing' /\ BlockedIsPaused'
<1>1. relay.pc = "blocked" \/ ctl = <<"make", relay.on>> => relay.on \in Conns
  <2>1. relay.on \in Conns \cup {None}
    BY Zenon DEF PushTypes, Readers
  <2>2. ctl = <<"make", relay.on>> => ctl # <<>>
    BY SMTT(40)
  <2> QED BY <2>1, <2>2, Zenon DEF PushTypes
<1>2. Pausing'
  BY Zenon, <1>1 DEF Pausing
<1> QED BY Zenon, <1>1, <1>2 DEF BlockedIsPaused

\* A handler that has returned: nothing is on the wire any more.
LEMMA OverIsRight ==
  ASSUME PushTypes', NEW c \in Conns, InOrder(c), srv'[c].pc = "done", net'[c] = <<>>, mx'[c].closed,
         received'[c] = received[c], dmx'[c].queue = dmx[c].queue,
         mx'[c].header = mx[c].header, mx'[c].n = mx[c].n, ~mx[c].header => mx[c].n = 0,
         mx'[c].acked => Taken(c) = mx[c].n /\ dmx'[c].err \in {"EOF"} \cup (Errors \ {""})
  PROVE  InOrder(c)' /\ OnWire(c)' /\ Complete(c)'
<1>1. Taken(c)' = Taken(c) /\ InOrder(c)'
  BY Zenon DEF Taken, InOrder
<1>2. OnWire(c)'
  <2>1. 1 .. Len(net'[c]) = {}
    BY Zenon, EmptySeq
  <2> QED BY Zenon, <2>1 DEF OnWire
<1>3. Complete(c)'
  BY <1>1, Zenon DEF Complete
<1> QED BY <1>1, <1>2, <1>3, Zenon

\* A PushStream that is refused.
LEMMA RefuseKeeps ==
  ASSUME Wired, PushInv, NEW c \in Conns, srv[c].pc = "first", Refuse(c),
         UNCHANGED <<relay, ctl, pauses, received, ends>>
  PROVE  PushInv'
<1>1. PushTypes /\ ConnInv(c) /\ mx[c] \in Muxers
  BY Fields, Zenon DEF PushInv
<1>2. /\ mx' \in [Conns -> Muxers] /\ mx'[c].closed /\ mx'[c].header = mx[c].header
      /\ mx'[c].n = mx[c].n /\ mx'[c].acked = mx[c].acked
      /\ \A e \in Conns : e # c => mx'[e] = mx[e]
  <2> DEFINE r == [mx[c] EXCEPT !.closed = TRUE]
  <2>1. /\ r \in Muxers /\ r.closed /\ r.header = mx[c].header /\ r.n = mx[c].n
        /\ r.acked = mx[c].acked
    BY <1>1, Zenon DEF Muxers
  <2>2. mx' = [mx EXCEPT ![c] = r]
    BY Zenon DEF Refuse
  <2> HIDE DEF r
  <2> QED BY <1>1, <2>1, <2>2, Zenon DEF PushTypes
<1>3. /\ srv' \in [Conns -> Handlers] /\ srv'[c].pc = "done"
      /\ net' \in [Conns -> Seq(Messages)] /\ net'[c] = <<>>
      /\ \A e \in Conns : e # c => srv'[e] = srv[e] /\ net'[e] = net[e]
  BY <1>1, SMTT(40) DEF Refuse, Serving, PushTypes, Handlers
<1>4. UNCHANGED <<demuxers, dmx>>
  BY Zenon DEF Refuse
<1>5. PushTypes'
  BY <1>1, <1>2, <1>3, <1>4, Zenon DEF PushTypes
<1>6. \A e \in Conns : e # c => ConnInv(e)'
  BY <1>2, <1>3, <1>4, OthersKept, Zenon DEF PushInv
<1>7. Stage(c)'
  BY <1>1, <1>2, <1>3, <1>4, Zenon DEF ConnInv, Stage
<1>8. InOrder(c)' /\ OnWire(c)' /\ Complete(c)'
  BY <1>1, <1>2, <1>3, <1>4, <1>5, OverIsRight, Zenon DEF ConnInv, Complete, Stage
<1>9. RegisteredIsFed'
  BY <1>3, <1>4, Zenon DEF RegisteredIsFed, PushInv, PushTypes
<1>10. Pausing' /\ BlockedIsPaused'
  BY <1>1, <1>4, PausingKept, Zenon DEF PushInv
<1> QED BY <1>5, <1>6, <1>7, <1>8, <1>9, <1>10, Zenon DEF PushInv, ConnInv

\* PushStream's deferred function, for a handler that was reading: with a
\* trailer acknowledged, all of the packets were taken.
LEMMA ReturnKeeps ==
  ASSUME Wired, PushInv, NEW c \in Conns, srv[c].pc \in {"recv", "put"},
         NEW u \in Endings, u # "", NEW ack \in BOOLEAN, ReturnPush(c, u, ack),
         ack => Taken(c) = mx[c].n /\ u \in {"EOF"} \cup (Errors \ {""}),
         UNCHANGED <<relay, ctl, pauses, received, ends>>
  PROVE  PushInv'
<1>1. PushTypes /\ ConnInv(c) /\ mx[c] \in Muxers /\ dmx[c] \in Demuxers
  BY Fields, Zenon DEF PushInv
<1>2. /\ mx' \in [Conns -> Muxers] /\ mx'[c].closed /\ mx'[c].header = mx[c].header
      /\ mx'[c].n = mx[c].n /\ mx'[c].acked = ack
      /\ \A e \in Conns : e # c => mx'[e] = mx[e]
  <2> DEFINE r == [mx[c] EXCEPT !.closed = TRUE, !.acked = ack]
  <2>1. r \in Muxers /\ r.closed /\ r.header = mx[c].header /\ r.n = mx[c].n /\ r.acked = ack
    BY <1>1, Zenon DEF Muxers
  <2>2. mx' = [mx EXCEPT ![c] = r]
    BY <1>1, Zenon DEF ReturnPush, PushTypes
  <2> HIDE DEF r
  <2> QED BY <1>1, <2>1, <2>2, Zenon DEF PushTypes
<1>3. /\ srv' \in [Conns -> Handlers] /\ srv'[c].pc = "done"
      /\ net' \in [Conns -> Seq(Messages)] /\ net'[c] = <<>>
      /\ \A e \in Conns : e # c => srv'[e] = srv[e] /\ net'[e] = net[e]
  <2>1. srv' = [srv EXCEPT ![c] = Serving("done")] /\ net' = [net EXCEPT ![c] = <<>>]
    BY Zenon DEF ReturnPush
  <2>2. Serving("done") \in Handlers /\ Serving("done").pc = "done"
    BY Zenon DEF Serving, Handlers
  <2>3. <<>> \in Seq(Messages)
    BY Zenon, EmptySeq
  <2>4. /\ srv' \in [Conns -> Handlers] /\ srv'[c] = Serving("done")
        /\ \A e \in Conns : e # c => srv'[e] = srv[e]
    BY <1>1, <2>1, <2>2, Zenon DEF PushTypes
  <2>5. /\ net' \in [Conns -> Seq(Messages)] /\ net'[c] = <<>>
        /\ \A e \in Conns : e # c => net'[e] = net[e]
    BY <1>1, <2>1, <2>3, Zenon DEF PushTypes
  <2> QED BY <2>2, <2>4, <2>5, Zenon
<1>4. /\ dmx' \in [Conns -> Demuxers] /\ dmx'[c].shut /\ dmx'[c].err = u
      /\ dmx'[c].queue = dmx[c].queue /\ dmx'[c].paused = dmx[c].paused
      /\ dmx'[c].pauseCh = dmx[c].pauseCh /\ \A e \in Conns : e # c => dmx'[e] = dmx[e]
  <2> DEFINE r == [SetError(dmx[c], u) EXCEPT !.shut = TRUE]
  <2>1. dmx[c].err = ""
    BY <1>1, Zenon DEF ConnInv, Stage
  <2>2. /\ r \in Demuxers /\ r.shut /\ r.err = u /\ r.queue = dmx[c].queue
        /\ r.paused = dmx[c].paused /\ r.pauseCh = dmx[c].pauseCh
    BY <1>1, <2>1, Zenon DEF Demuxers, SetError
  <2>3. dmx' = [dmx EXCEPT ![c] = r]
    BY Zenon DEF ReturnPush
  <2> HIDE DEF r
  <2> QED BY <1>1, <2>2, <2>3, Zenon DEF PushTypes
<1>5. demuxers = c /\ demuxers' = None
  BY Zenon DEF ReturnPush, PushInv, RegisteredIsFed
<1>6. PushTypes'
  BY <1>1, <1>2, <1>3, <1>4, <1>5, Zenon DEF PushTypes
<1>7. \A e \in Conns : e # c => ConnInv(e)'
  BY <1>2, <1>3, <1>4, OthersKept, Zenon DEF PushInv
<1>8. Stage(c)'
  BY <1>1, <1>2, <1>3, <1>4, Zenon DEF ConnInv, Stage
<1>9. InOrder(c)' /\ OnWire(c)' /\ Complete(c)'
  BY <1>1, <1>2, <1>3, <1>4, <1>6, OverIsRight, Zenon DEF ConnInv, Complete
<1>10. RegisteredIsFed'
  BY <1>3, <1>5, Zenon DEF RegisteredIsFed, PushInv
<1>11. Pausing' /\ BlockedIsPaused'
  BY <1>1, <1>4, PausingKept, Zenon DEF PushInv
<1> QED BY <1>6, <1>7, <1>8, <1>9, <1>10, <1>11, Zenon DEF PushInv, ConnInv

\* The handler takes a message off the wire.
LEMMA HeadTaken ==
  ASSUME PushTypes, NEW c \in Conns, OnWire(c), net[c] # <<>>, net'[c] = Tail(net[c]),
         Base(c)' = Base(c) + 1, srv'[c].pc # "first", mx'[c] = mx[c]
  PROVE  OnWire(c)' /\ Len(net'[c]) = Len(net[c]) - 1
<1>1. net[c] \in Seq(Messages) /\ Len(net[c]) \in Nat /\ Base(c) \in Int
  BY Fields, Zenon
<1>2. /\ Len(net'[c]) = Len(net[c]) - 1
      /\ \A i \in 1 .. Len(net'[c]) : i + 1 \in 1 .. Len(net[c]) /\ net'[c][i] = net[c][i + 1]
  BY <1>1, SMTT(40)
<1>3. ASSUME NEW i \in 1 .. Len(net'[c])
      PROVE  \/ net'[c][i].t = "packet" /\ net'[c][i].v = Base(c) + 1 + i
             \/ /\ net'[c][i].t = "trailer" /\ i = Len(net'[c]) /\ mx'[c].closed
                /\ mx'[c].n = Base(c) + 1 + i - 1
  <2> DEFINE j == i + 1
  <2>1. j \in 1 .. Len(net[c]) /\ j # 1 /\ net'[c][i] = net[c][j] /\ i \in Int
    BY <1>1, <1>2, SMTT(40)
  <2> HIDE DEF j
  <2>2. \/ net[c][j].t = "packet" /\ net[c][j].v = Base(c) + j
        \/ net[c][j].t = "trailer" /\ j = Len(net[c]) /\ mx[c].closed /\ mx[c].n = Base(c) + j - 1
    BY <2>1, Zenon DEF OnWire
  <2>3. /\ Base(c) + j = Base(c) + 1 + i /\ Base(c) + j - 1 = Base(c) + 1 + i - 1
        /\ j = Len(net[c]) => i = Len(net'[c])
    <3>1. \A b, x, y \in Int : /\ b + (x + 1) = b + 1 + x /\ b + (x + 1) - 1 = b + 1 + x - 1
                               /\ x + 1 = y => x = y - 1
      BY SMTT(40)
    <3>2. Len(net[c]) \in Int
      BY <1>1, SMTT(40)
    <3> QED BY Zenon, <1>1, <1>2, <2>1, <3>1, <3>2 DEF j
  <2> QED BY <2>1, <2>2, <2>3, Zenon
<1> QED BY <1>2, <1>3, Zenon DEF OnWire

\* PushStream registers the source.
LEMMA AcceptKeeps ==
  ASSUME Wired, PushInv, NEW c \in Conns, srv[c].pc = "first", net[c] # <<>>, demuxers = None,
         Head(net[c]).t = "header", net' = [net EXCEPT ![c] = Tail(@)],
         srv' = [srv EXCEPT ![c] = Serving("recv")], demuxers' = c,
         dmx' = [dmx EXCEPT ![c].codecs = Head(net[c]).v],
         UNCHANGED <<mx, relay, ctl, pauses, received, ends>>
  PROVE  PushInv'
<1>1. /\ PushTypes /\ ConnInv(c) /\ net[c] \in Seq(Messages) /\ dmx[c] \in Demuxers
      /\ Len(net[c]) \in Nat /\ mx[c].n \in Nat
  BY Fields, Zenon DEF PushInv
<1>2. /\ srv' \in [Conns -> Handlers] /\ srv'[c].pc = "recv"
      /\ \A e \in Conns : e # c => srv'[e] = srv[e]
  <2>1. Serving("recv") \in Handlers /\ Serving("recv").pc = "recv"
    BY Zenon DEF Serving, Handlers
  <2> QED BY <1>1, <2>1, Zenon DEF PushTypes
<1>3. /\ net' \in [Conns -> Seq(Messages)] /\ net'[c] = Tail(net[c])
      /\ \A e \in Conns : e # c => net'[e] = net[e]
  BY <1>1, SMTT(40) DEF PushTypes
<1>4. /\ dmx' \in [Conns -> Demuxers] /\ dmx'[c].shut = dmx[c].shut /\ dmx'[c].err = dmx[c].err
      /\ dmx'[c].queue = dmx[c].queue /\ dmx'[c].paused = dmx[c].paused
      /\ dmx'[c].pauseCh = dmx[c].pauseCh /\ \A e \in Conns : e # c => dmx'[e] = dmx[e]
  <2> DEFINE r == [dmx[c] EXCEPT !.codecs = Head(net[c]).v]
  <2>1. Head(net[c]) \in Messages
    BY <1>1, SMTT(40)
  <2>2. Head(net[c]).v \in Configs \cup {""}
    BY <2>1, MessageIs, Zenon
  <2>3. /\ r \in Demuxers /\ r.shut = dmx[c].shut /\ r.err = dmx[c].err
        /\ r.queue = dmx[c].queue /\ r.paused = dmx[c].paused /\ r.pauseCh = dmx[c].pauseCh
    BY <1>1, <2>2, Zenon DEF Demuxers
  <2>4. dmx' = [dmx EXCEPT ![c] = r]
    BY Zenon
  <2> HIDE DEF r
  <2> QED BY <1>1, <2>3, <2>4, Zenon DEF PushTypes
<1>5. PushTypes'
  BY <1>1, <1>2, <1>3, <1>4, Zenon DEF PushTypes
<1>6. \A e \in Conns : e # c => ConnInv(e)'
  BY <1>2, <1>3, <1>4, OthersKept, Zenon DEF PushInv
<1>7. Stage(c)'
  BY <1>1, <1>2, <1>3, <1>4, Zenon DEF ConnInv, Stage
<1>8. received[c] = <<>> /\ dmx[c].queue = <<>> /\ mx[c].header
  BY <1>1, Zenon DEF ConnInv, Complete
<1>9. Base(c) = -1 /\ Taken(c)' = 0 /\ Base(c)' = 0
  <2>1. Taken(c)' = 0
    BY <1>4, <1>8, SMTT(40) DEF Taken
  <2> QED BY <1>2, <2>1, Zenon DEF Base
<1>10. OnWire(c)' /\ Len(net'[c]) = Len(net[c]) - 1
  BY <1>1, <1>2, <1>3, <1>9, HeadTaken, SMTT(40) DEF ConnInv
<1>11. InOrder(c)'
  BY Zenon, <1>1, <1>4 DEF ConnInv, InOrder
<1>12. Complete(c)'
  <2>1. ~mx[c].acked
    BY <1>1, Zenon DEF ConnInv, Stage
  <2>2. ~mx[c].closed => mx[c].n = Base(c) + Len(net[c])
    BY <1>1, <1>8, Zenon DEF ConnInv, Complete
  <2>3. ~mx[c].closed => mx[c].n = Base(c)' + Len(net'[c])
    BY <1>1, <1>9, <1>10, <2>2, SMTT(40)
  <2> QED BY <1>2, <1>8, <2>1, <2>3, Zenon DEF Complete
<1>13. RegisteredIsFed'
  BY <1>1, <1>2, <1>4, Zenon DEF RegisteredIsFed, PushInv, ConnInv, Stage, Wired
<1>14. Pausing' /\ BlockedIsPaused'
  BY <1>1, <1>4, PausingKept, Zenon DEF PushInv
<1> QED BY <1>5, <1>6, <1>7, <1>10, <1>11, <1>12, <1>13, <1>14, Zenon DEF PushInv, ConnInv

\* The handler has received a packet and is about to queue it.
LEMMA RecvPacketKeeps ==
  ASSUME Wired, PushInv, NEW c \in Conns, srv[c].pc = "recv", net[c] # <<>>,
         Head(net[c]).t = "packet", net' = [net EXCEPT ![c] = Tail(@)],
         srv' = [srv EXCEPT ![c] = [pc |-> "put", pkt |-> Head(net[c]).v]],
         UNCHANGED <<mx, demuxers, dmx, relay, ctl, pauses, received, ends>>
  PROVE  PushInv'
<1>1. /\ PushTypes /\ ConnInv(c) /\ net[c] \in Seq(Messages)
      /\ Len(net[c]) \in Nat /\ mx[c].n \in Nat /\ Taken(c) \in Nat
  BY Fields, Zenon DEF PushInv
<1>2. Base(c) = Taken(c) /\ Head(net[c]).v \in Nat /\ Head(net[c]).v = Taken(c) + 1
  <2>1. Head(net[c]) \in Messages /\ Head(net[c]) = net[c][1] /\ 1 \in 1 .. Len(net[c])
    BY <1>1, SMTT(40)
  <2>2. Base(c) = Taken(c)
    BY Zenon DEF Base
  <2>3. net[c][1].v = Base(c) + 1
    BY <1>1, <2>1, Zenon DEF ConnInv, OnWire
  <2> QED BY <2>1, <2>2, <2>3, MessageIs, Zenon
<1>3. /\ srv' \in [Conns -> Handlers] /\ srv'[c].pc = "put" /\ srv'[c].pkt = Taken(c) + 1
      /\ \A e \in Conns : e # c => srv'[e] = srv[e]
  <2> DEFINE r == [pc |-> "put", pkt |-> Head(net[c]).v]
  <2>1. r \in Handlers /\ r.pc = "put" /\ r.pkt = Taken(c) + 1
    BY <1>2, Zenon DEF Handlers
  <2>2. srv' = [srv EXCEPT ![c] = r]
    BY Zenon
  <2> HIDE DEF r
  <2> QED BY <1>1, <2>1, <2>2, Zenon DEF PushTypes
<1>4. /\ net' \in [Conns -> Seq(Messages)] /\ net'[c] = Tail(net[c])
      /\ \A e \in Conns : e # c => net'[e] = net[e]
  BY <1>1, SMTT(40) DEF PushTypes
<1>5. PushTypes'
  BY <1>1, <1>3, <1>4, Zenon DEF PushTypes
<1>6. \A e \in Conns : e # c => ConnInv(e)'
  BY <1>3, <1>4, OthersKept, Zenon DEF PushInv
<1>7. Stage(c)'
  BY <1>1, <1>3, <1>4, Zenon DEF ConnInv, Stage
<1>8. Taken(c)' = Taken(c) /\ InOrder(c)'
  BY Zenon, <1>1 DEF Taken, ConnInv, InOrder
<1>9. Base(c)' = Base(c) + 1
  BY <1>2, <1>3, <1>8, Zenon DEF Base
<1>10. OnWire(c)' /\ Len(net'[c]) = Len(net[c]) - 1
  BY <1>1, <1>3, <1>4, <1>9, HeadTaken, Zenon DEF ConnInv
<1>11. Complete(c)'
  <2>1. mx[c].header /\ ~mx[c].acked
    BY <1>1, Zenon DEF ConnInv, Stage, Complete
  <2>2. ~mx[c].closed => mx[c].n = Base(c) + Len(net[c])
    BY <1>1, <2>1, Zenon DEF ConnInv, Complete
  <2>3. ~mx[c].closed => mx[c].n = Base(c)' + Len(net'[c])
    BY <1>1, <1>2, <1>9, <1>10, <2>2, SMTT(40)
  <2> QED BY <1>3, <1>8, <2>1, <2>3, Zenon DEF Complete
<1>12. RegisteredIsFed'
  BY <1>3, Zenon DEF RegisteredIsFed, PushInv
<1>13. Pausing' /\ BlockedIsPaused'
  BY <1>1, PausingKept, Zenon DEF PushInv
<1> QED BY <1>5, <1>6, <1>7, <1>8, <1>10, <1>11, <1>12, <1>13, Zenon DEF PushInv, ConnInv

\* The handler queues the packet.
LEMMA PutKeeps ==
  ASSUME Wired, PushInv, NEW c \in Conns, PutPacket(c)
  PROVE  PushInv'
<1>1. /\ srv[c].pc = "put" /\ dmx' = [dmx EXCEPT ![c].queue = Append(@, srv[c].pkt)]
      /\ srv' = [srv EXCEPT ![c] = Serving("recv")]
      /\ UNCHANGED <<net, mx, demuxers, relay, ctl, pauses, received, ends>>
  BY Zenon DEF PutPacket
<1>2. /\ PushTypes /\ ConnInv(c) /\ dmx[c] \in Demuxers /\ dmx[c].queue \in Seq(Nat)
      /\ Len(received[c]) \in Nat /\ Len(dmx[c].queue) \in Nat /\ srv[c].pkt \in Nat
      /\ Taken(c) \in Nat /\ mx[c].header
  BY <1>1, Fields, Zenon DEF PushInv, ConnInv, Complete
<1>3. /\ srv' \in [Conns -> Handlers] /\ srv'[c].pc = "recv"
      /\ \A e \in Conns : e # c => srv'[e] = srv[e]
  <2>1. Serving("recv") \in Handlers /\ Serving("recv").pc = "recv"
    BY Zenon DEF Serving, Handlers
  <2> QED BY <1>1, <1>2, <2>1, Zenon DEF PushTypes
<1>4. /\ dmx' \in [Conns -> Demuxers] /\ dmx'[c].shut = dmx[c].shut /\ dmx'[c].err = dmx[c].err
      /\ dmx'[c].queue = Append(dmx[c].queue, srv[c].pkt) /\ dmx'[c].paused = dmx[c].paused
      /\ dmx'[c].pauseCh = dmx[c].pauseCh /\ \A e \in Conns : e # c => dmx'[e] = dmx[e]
  <2> DEFINE q == Append(dmx[c].queue, srv[c].pkt)
             r == [dmx[c] EXCEPT !.queue = q]
  <2>1. q \in Seq(Nat)
    BY <1>2, SMTT(40)
  <2>2. dmx' = [dmx EXCEPT ![c] = r]
    BY <1>1, Zenon
  <2> HIDE DEF q
  <2>3. /\ r \in Demuxers /\ r.shut = dmx[c].shut /\ r.err = dmx[c].err
        /\ r.queue = q /\ r.paused = dmx[c].paused /\ r.pauseCh = dmx[c].pauseCh
    BY <1>2, <2>1, Zenon DEF Demuxers
  <2> HIDE DEF r
  <2>4. dmx' \in [Conns -> Demuxers] /\ dmx'[c] = r /\ \A e \in Conns : e # c => dmx'[e] = dmx[e]
    BY <1>2, <2>2, <2>3, Zenon DEF PushTypes
  <2> QED BY <2>3, <2>4, Zenon DEF q
<1>5. PushTypes'
  BY <1>1, <1>2, <1>3, <1>4, Zenon DEF PushTypes
<1>6. \A e \in Conns : e # c => ConnInv(e)'
  BY <1>1, <1>3, <1>4, OthersKept, Zenon DEF PushInv
<1>7. Stage(c)'
  BY <1>1, <1>2, <1>3, <1>4, Zenon DEF ConnInv, Stage
<1>8. srv[c].pkt = Taken(c) + 1
  BY <1>1, <1>2, Zenon DEF ConnInv, Complete
<1>9. InOrder(c)' /\ Taken(c)' = Taken(c) + 1
  <2> DEFINE q == dmx[c].queue
             s == Append(q, srv[c].pkt)
  <2>1. q \in Seq(Nat) /\ Len(q) \in Nat /\ Taken(c) = Len(received[c]) + Len(q)
    BY <1>2, Zenon DEF Taken
  <2>2. InOrder(c)
    BY <1>2, Zenon DEF ConnInv
  <2>3. Len(s) = Len(q) + 1 /\ s[Len(q) + 1] = srv[c].pkt /\ \A i \in 1 .. Len(q) : s[i] = q[i]
    BY <1>2, <2>1, SMTT(40)
  <2> HIDE DEF s
  <2>4. \A i \in 1 .. Len(s) : s[i] = Len(received[c]) + i
    <3>1. \A i \in 1 .. Len(q) : q[i] = Len(received[c]) + i
      BY <2>2, Zenon DEF InOrder
    <3> HIDE DEF q
    <3>2. \A g, n \in Nat : /\ g + n + 1 = g + (n + 1)
                            /\ \A i \in 1 .. n + 1 : i \in 1 .. n \/ i = n + 1
      BY SMTT(40)
    <3>5. srv[c].pkt = Len(received[c]) + Len(q) + 1
      BY Zenon, <1>8, <2>1
    <3>6. Len(received[c]) + Len(q) + 1 = Len(received[c]) + (Len(q) + 1)
      BY Zenon, <1>2, <2>1, <3>2
    <3>3. srv[c].pkt = Len(received[c]) + (Len(q) + 1)
      BY Zenon, <3>5, <3>6
    <3>4. \A i \in 1 .. Len(q) + 1 : i \in 1 .. Len(q) \/ i = Len(q) + 1
      BY Zenon, <2>1, <3>2
    <3> QED BY Zenon, <2>3, <3>1, <3>3, <3>4
  <2>5. received'[c] = received[c] /\ dmx'[c].queue = s
    BY <1>1, <1>4, Zenon DEF s
  <2>6. InOrder(c)'
    BY Zenon, <2>2, <2>4, <2>5 DEF InOrder
  <2>7. Taken(c)' = Len(received[c]) + Len(s)
    BY Zenon, <2>5 DEF Taken
  <2>8. \A g, n \in Nat : g + (n + 1) = g + n + 1
    BY SMTT(40)
  <2> HIDE DEF q
  <2> QED BY ZenonT(60), <1>2, <2>1, <2>3, <2>6, <2>7, <2>8
<1>10. Base(c)' = Base(c)
  BY <1>1, <1>3, <1>9, Zenon DEF Base
<1>11. OnWire(c)'
  <2>1. net'[c] = net[c] /\ mx'[c] = mx[c] /\ srv'[c].pc # "first" /\ srv[c].pc # "first"
    BY <1>1, <1>3, Zenon
  <2> QED BY ZenonT(60), <1>2, <1>10, <2>1 DEF ConnInv, OnWire
<1>12. Complete(c)'
  <2>1. ~mx[c].acked
    BY <1>1, <1>2, Zenon DEF ConnInv, Stage
  <2>2. ~mx[c].closed => mx[c].n = Base(c)' + Len(net[c])
    BY <1>2, <1>10, Zenon DEF ConnInv, Complete
  <2> QED BY <1>1, <1>2, <1>3, <2>1, <2>2, Zenon DEF Complete
<1>13. RegisteredIsFed'
  BY <1>1, <1>3, <1>4, Zenon DEF RegisteredIsFed, PushInv
<1>14. Pausing' /\ BlockedIsPaused'
  BY <1>1, <1>2, <1>4, PausingKept, Zenon DEF PushInv
<1> QED BY <1>5, <1>6, <1>7, <1>9, <1>11, <1>12, <1>13, <1>14, Zenon DEF PushInv, ConnInv

-----------------------------------------------------------------------------
(* The steps of the reader and of the controller. *)

\* A step of the reader or the controller that reads no packet and no end.
LEMMA ConnsKept ==
  ASSUME PushInv, UNCHANGED <<mx, net, srv, demuxers, received, ends>>,
         \A e \in Conns : /\ dmx'[e].queue = dmx[e].queue /\ dmx'[e].shut = dmx[e].shut
                          /\ dmx'[e].err = dmx[e].err
  PROVE  RegisteredIsFed' /\ \A c \in Conns : ConnInv(c)'
<1>1. \A c \in Conns : ConnInv(c)'
  BY OthersKept, Zenon DEF PushInv
<1>2. RegisteredIsFed'
  BY Zenon DEF PushInv, PushTypes, RegisteredIsFed
<1> QED BY <1>1, <1>2, Zenon

\* The reader, and what it reads from unless it is idle.
LEMMA ReaderIs ==
  ASSUME PushTypes
  PROVE  /\ relay \in Readers /\ relay.on \in Conns \cup {None} /\ relay.ch \in Nat
         /\ relay.pc \in {"idle", "read", "paused?", "take", "blocked", "close"}
         /\ relay.pc # "idle" => relay.on \in Conns
         /\ ctl # <<>> => relay.on \in Conns
<1>1. /\ relay \in Readers /\ relay.on \in Conns \cup {None} /\ relay.ch \in Nat
      /\ relay.pc \in {"idle", "read", "paused?", "take", "blocked", "close"}
  BY Zenon DEF PushTypes, Readers
<1> QED BY <1>1, Zenon DEF PushTypes

\* A relay opens the source.
LEMMA OpenReaderKeeps ==
  ASSUME Wired, PushInv, OpenReader
  PROVE  PushInv'
<1>1. /\ relay.pc = "idle" /\ demuxers \in Conns /\ ctl = <<>>
      /\ UNCHANGED <<mx, net, srv, demuxers, dmx, ctl, pauses, received, ends>>
  BY Zenon DEF OpenReader, clientSide, PushInv, PushTypes
<1>2. PushTypes /\ relay \in Readers
  BY <1>1, ReaderIs, Zenon DEF PushInv
<1>3. relay' \in Readers /\ relay'.pc = "read" /\ relay'.on = demuxers /\ relay'.ch = 0
  BY <1>1, <1>2, Zenon DEF OpenReader, Readers
<1>4. PushTypes'
  BY <1>1, <1>2, <1>3, Zenon DEF PushTypes, Wired
<1>5. RegisteredIsFed' /\ \A c \in Conns : ConnInv(c)'
  BY <1>1, ConnsKept, Zenon
<1>6. Pausing'
  BY <1>1, <1>2, <1>3, Zenon DEF PushInv, Pausing
<1>7. BlockedIsPaused'
  BY <1>1, <1>2, <1>3, Zenon DEF PushInv, BlockedIsPaused
<1> QED BY <1>4, <1>5, <1>6, <1>7, Zenon DEF PushInv

\* ReadPacket loads the flag.
LEMMA ReadPacketKeeps ==
  ASSUME Wired, PushInv, ReadPacket
  PROVE  PushInv'
<1>1. /\ relay.pc = "read"
      /\ UNCHANGED <<mx, net, srv, demuxers, dmx, ctl, pauses, received, ends>>
  BY Zenon DEF ReadPacket, clientSide
<1>2. PushTypes /\ relay \in Readers /\ relay.on \in Conns
  BY <1>1, ReaderIs, Zenon DEF PushInv
<1>3. relay' \in Readers /\ relay'.pc \in {"paused?", "take"} /\ relay'.on = relay.on /\ relay'.ch = relay.ch
  BY <1>1, <1>2, Zenon DEF ReadPacket, Readers
<1>4. PushTypes'
  BY <1>1, <1>2, <1>3, Zenon DEF PushTypes
<1>5. RegisteredIsFed' /\ \A c \in Conns : ConnInv(c)'
  BY <1>1, ConnsKept, Zenon
<1>6. Pausing'
  BY <1>1, <1>2, <1>3, Zenon DEF PushInv, Pausing
<1>7. BlockedIsPaused'
  BY <1>1, <1>2, <1>3, Zenon DEF PushInv, BlockedIsPaused
<1> QED BY <1>4, <1>5, <1>6, <1>7, Zenon DEF PushInv

\* ReadPacket takes the pause channel, if there is one.
LEMMA LoadPauseChKeeps ==
  ASSUME Wired, PushInv, LoadPauseCh
  PROVE  PushInv'
<1>1. /\ relay.pc = "paused?"
      /\ UNCHANGED <<mx, net, srv, demuxers, dmx, ctl, pauses, received, ends>>
  BY Zenon DEF LoadPauseCh, clientSide
<1>2. PushTypes /\ relay \in Readers /\ relay.on \in Conns
  BY <1>1, ReaderIs, Zenon DEF PushInv
<1>8. dmx[relay.on].pauseCh \in Nat
  BY <1>2, Fields, Zenon
<1>3. /\ relay' \in Readers /\ relay'.pc = (IF dmx[relay.on].pauseCh = 0 THEN "take" ELSE "blocked")
      /\ relay'.on = relay.on /\ relay'.ch = dmx[relay.on].pauseCh
  BY <1>1, <1>2, <1>8, Zenon DEF LoadPauseCh, Readers
<1>4. PushTypes'
  BY <1>1, <1>2, <1>3, Zenon DEF PushTypes
<1>5. RegisteredIsFed' /\ \A c \in Conns : ConnInv(c)'
  BY <1>1, ConnsKept, Zenon
<1>6. Pausing'
  BY <1>1, <1>2, <1>3, Zenon DEF PushInv, Pausing
<1>7. BlockedIsPaused'
  BY <1>1, <1>2, <1>3, Zenon DEF PushInv, Pausing, BlockedIsPaused
<1> QED BY <1>4, <1>5, <1>6, <1>7, Zenon DEF PushInv

\* The relay's context ends.
LEMMA StopReaderKeeps ==
  ASSUME Wired, PushInv, StopReader
  PROVE  PushInv'
<1>1. /\ relay.pc \in {"take", "blocked"} /\ ctl = <<>>
      /\ UNCHANGED <<mx, net, srv, demuxers, dmx, ctl, pauses, received, ends>>
  BY Zenon DEF StopReader, clientSide
<1>2. PushTypes /\ relay \in Readers /\ relay.on \in Conns
  BY <1>1, ReaderIs, Zenon DEF PushInv
<1>3. relay' \in Readers /\ relay'.pc = "close" /\ relay'.on = relay.on /\ relay'.ch = relay.ch
  BY <1>1, <1>2, Zenon DEF StopReader, Readers
<1>4. PushTypes'
  BY <1>1, <1>2, <1>3, Zenon DEF PushTypes
<1>5. RegisteredIsFed' /\ \A c \in Conns : ConnInv(c)'
  BY <1>1, ConnsKept, Zenon
<1>6. Pausing'
  BY <1>1, <1>2, <1>3, Zenon DEF PushInv, Pausing
<1>7. BlockedIsPaused'
  BY <1>1, <1>2, <1>3, Zenon DEF PushInv, BlockedIsPaused
<1> QED BY <1>4, <1>5, <1>6, <1>7, Zenon DEF PushInv

\* Resume closes the channel and so wakes the reader.
LEMMA ResumeClosesKeeps ==
  ASSUME Wired, PushInv, ResumeCloses
  PROVE  PushInv'
<1>1. /\ ctl # <<>> /\ ctl[1] = "close" /\ ctl' = <<>>
      /\ UNCHANGED <<mx, net, srv, demuxers, dmx, pauses, received, ends>>
  BY Zenon DEF ResumeCloses, clientSide
<1>2. PushTypes /\ relay \in Readers /\ relay.on \in Conns
  BY <1>1, ReaderIs, Zenon DEF PushInv
<1>3. /\ relay' \in Readers /\ (relay.pc = "blocked" /\ relay.ch = ctl[2] => relay'.pc = "take")
      /\ relay'.on = relay.on /\ relay'.ch = relay.ch
      /\ (relay.pc # "blocked" \/ relay.ch # ctl[2] => relay' = relay)
  BY <1>1, <1>2, Zenon DEF ResumeCloses, Readers
<1>4. PushTypes'
  BY <1>1, <1>2, <1>3, Zenon DEF PushTypes
<1>5. RegisteredIsFed' /\ \A c \in Conns : ConnInv(c)'
  BY <1>1, ConnsKept, Zenon
<1>6. Pausing'
  BY <1>1, <1>2, <1>3, SMTT(40) DEF PushInv, Pausing
<1>7. BlockedIsPaused'
  BY <1>1, <1>2, <1>3, SMTT(40) DEF PushInv, BlockedIsPaused
<1> QED BY <1>4, <1>5, <1>6, <1>7, Zenon DEF PushInv

\* The reader takes a packet: it moves from the queue to what was read.
LEMMA TakePacketKeeps ==
  ASSUME Wired, PushInv, NEW c \in Conns, c = relay.on, TakePacket
  PROVE  PushInv'
<1> DEFINE q == dmx[c].queue
<1>1. /\ relay.pc = "take" /\ q # <<>> /\ received' = [received EXCEPT ![c] = Append(@, Head(q))]
      /\ dmx' = [dmx EXCEPT ![c].queue = Tail(@)] /\ relay' = [relay EXCEPT !.pc = "read"]
      /\ UNCHANGED <<mx, net, srv, demuxers, ctl, pauses, ends>>
  BY Zenon DEF TakePacket, clientSide
<1>2. PushTypes /\ relay \in Readers /\ c \in Conns /\ ConnInv(c)
  BY <1>1, ReaderIs, Zenon DEF PushInv
<1>3. dmx[c] \in Demuxers /\ q \in Seq(Nat) /\ received[c] \in Seq(Nat)
  BY <1>2, Fields, Zenon
<1>4. relay' \in Readers /\ relay'.pc = "read" /\ relay'.on = c
  BY <1>1, <1>2, Zenon DEF Readers
<1> HIDE DEF q
<1>5. /\ received' \in [Conns -> Seq(Nat)] /\ received'[c] = Append(received[c], Head(q))
      /\ \A e \in Conns : e # c => received'[e] = received[e]
  <2>1. Append(received[c], Head(q)) \in Seq(Nat)
    BY <1>1, <1>3, SMTT(40)
  <2> QED BY <1>1, <1>2, <2>1, Zenon DEF PushTypes
<1>6. /\ dmx' \in [Conns -> Demuxers] /\ dmx'[c].shut = dmx[c].shut /\ dmx'[c].err = dmx[c].err
      /\ dmx'[c].queue = Tail(q) /\ \A e \in Conns : e # c => dmx'[e] = dmx[e]
      /\ \A e \in Conns : dmx'[e].paused = dmx[e].paused /\ dmx'[e].pauseCh = dmx[e].pauseCh
  <2> DEFINE s == Tail(q)
             r == [dmx[c] EXCEPT !.queue = s]
  <2>1. s \in Seq(Nat)
    BY <1>1, <1>3, SMTT(40)
  <2>2. dmx' = [dmx EXCEPT ![c] = r]
    BY <1>1, Zenon DEF q
  <2> HIDE DEF s
  <2>3. /\ r \in Demuxers /\ r.shut = dmx[c].shut /\ r.err = dmx[c].err
        /\ r.queue = s /\ r.paused = dmx[c].paused /\ r.pauseCh = dmx[c].pauseCh
    BY <1>3, <2>1, Zenon DEF Demuxers
  <2> HIDE DEF r
  <2>4. dmx' \in [Conns -> Demuxers] /\ dmx'[c] = r /\ \A e \in Conns : e # c => dmx'[e] = dmx[e]
    BY <1>2, <2>2, <2>3, Zenon DEF PushTypes
  <2> QED BY <2>3, <2>4, Zenon DEF s
<1>7. PushTypes'
  BY <1>1, <1>2, <1>4, <1>5, <1>6, Zenon DEF PushTypes
<1>8. \A e \in Conns : e # c => ConnInv(e)'
  BY <1>1, <1>5, <1>6, OthersKept, Zenon DEF PushInv
<1>9. /\ Len(q) \in Nat /\ Len(q) > 0 /\ Len(received[c]) \in Nat /\ Len(received'[c]) = Len(received[c]) + 1
      /\ Len(dmx'[c].queue) = Len(q) - 1 /\ received'[c][Len(received[c]) + 1] = q[1]
      /\ \A i \in 1 .. Len(received[c]) : received'[c][i] = received[c][i]
      /\ \A i \in 1 .. Len(q) - 1 : dmx'[c].queue[i] = q[i + 1]
  <2>1. Len(q) \in Nat /\ Len(q) > 0 /\ Head(q) = q[1] /\ Head(q) \in Nat /\ Len(received[c]) \in Nat
    BY <1>1, <1>3, SMTT(40)
  <2>2. Len(Tail(q)) = Len(q) - 1 /\ \A i \in 1 .. Len(q) - 1 : Tail(q)[i] = q[i + 1]
    BY <1>1, <1>3, SMTT(40)
  <2>3. /\ Len(received'[c]) = Len(received[c]) + 1 /\ received'[c][Len(received[c]) + 1] = Head(q)
        /\ \A i \in 1 .. Len(received[c]) : received'[c][i] = received[c][i]
    BY <1>3, <1>5, <2>1, SMTT(40)
  <2> QED BY Zenon, <1>6, <2>1, <2>2, <2>3
<1>10. InOrder(c)' /\ Taken(c)' = Taken(c)
  <2> DEFINE n == Len(received[c])
             k == Len(q)
  <2>1. /\ \A i \in 1 .. n : received[c][i] = i
        /\ \A i \in 1 .. k : q[i] = n + i
    BY <1>2, Zenon DEF ConnInv, InOrder, q
  <2>2. n \in Nat /\ k \in Nat /\ k > 0
    BY <1>9, Zenon
  <2>3. Len(received'[c]) = n + 1 /\ Len(dmx'[c].queue) = k - 1
    BY <1>9, Zenon
  <2>4. /\ received'[c][n + 1] = q[1] /\ \A i \in 1 .. n : received'[c][i] = received[c][i]
        /\ \A i \in 1 .. k - 1 : dmx'[c].queue[i] = q[i + 1]
    BY <1>9, Zenon
  <2>5. Taken(c) = n + k /\ Taken(c)' = Len(received'[c]) + Len(dmx'[c].queue)
    BY Zenon DEF Taken, q
  <2> HIDE DEF n, k
  <2>6. \A i \in 1 .. n + 1 : received'[c][i] = i
    <3>1. q[1] = n + 1
      BY <2>1, <2>2, SMTT(40)
    <3> QED BY <2>1, <2>2, <2>4, <3>1, SMTT(40)
  <2>7. \A i \in 1 .. k - 1 : dmx'[c].queue[i] = n + 1 + i
    <3>1. \A i \in 1 .. k - 1 : i + 1 \in 1 .. k /\ n + (i + 1) = n + 1 + i
      BY <2>2, SMTT(40)
    <3> QED BY Zenon, <2>1, <2>4, <3>1
  <2>8. InOrder(c)'
    BY Zenon, <2>3, <2>6, <2>7 DEF InOrder
  <2> QED BY <2>2, <2>3, <2>5, <2>8, SMTT(40)
<1>11. srv[c].pc # "first"
  BY <1>1, <1>2, Zenon DEF ConnInv, Complete, q
<1>12. Base(c)' = Base(c)
  BY Zenon, <1>1, <1>10 DEF Base
<1>13. OnWire(c)'
  BY ZenonT(60), <1>1, <1>2, <1>12 DEF ConnInv, OnWire
<1>14. Complete(c)'
  BY Zenon, <1>1, <1>2, <1>6, <1>10, <1>11, <1>12 DEF ConnInv, Complete
<1>15. Stage(c)'
  BY <1>1, <1>2, <1>6, Zenon DEF ConnInv, Stage, q
<1>16. RegisteredIsFed'
  BY <1>1, <1>6, Zenon DEF PushInv, PushTypes, RegisteredIsFed
<1>17. Pausing' /\ BlockedIsPaused'
  BY <1>1, <1>2, <1>4, <1>6, SMTT(40) DEF PushInv, Pausing, BlockedIsPaused
<1> QED BY <1>7, <1>8, <1>10, <1>13, <1>14, <1>15, <1>16, <1>17, Zenon DEF PushInv, ConnInv

\* The reader has read the last packet and gets the end.
LEMMA TakeEndKeeps ==
  ASSUME Wired, PushInv, NEW c \in Conns, c = relay.on, TakeEnd
  PROVE  PushInv'
<1>1. /\ relay.pc = "take" /\ dmx[c].queue = <<>> /\ dmx[c].shut
      /\ ends' = [ends EXCEPT ![c] = dmx[c].err] /\ relay' = [relay EXCEPT !.pc = "close"]
      /\ UNCHANGED <<mx, net, srv, demuxers, dmx, ctl, pauses, received>>
  BY Zenon DEF TakeEnd, clientSide
<1>2. PushTypes /\ relay \in Readers /\ c \in Conns /\ ConnInv(c)
  BY <1>1, ReaderIs, Zenon DEF PushInv
<1>3. dmx[c].err \in Endings
  BY <1>2, Fields, Zenon
<1>4. relay' \in Readers /\ relay'.pc = "close" /\ relay'.on = c
  BY <1>1, <1>2, Zenon DEF Readers
<1>5. /\ ends' \in [Conns -> Endings] /\ ends'[c] = dmx[c].err
      /\ \A e \in Conns : e # c => ends'[e] = ends[e]
  BY <1>1, <1>2, <1>3, Zenon DEF PushTypes
<1>6. PushTypes'
  BY <1>1, <1>2, <1>4, <1>5, Zenon DEF PushTypes
<1>7. \A e \in Conns : e # c => ConnInv(e)'
  BY <1>1, <1>5, OthersKept, Zenon DEF PushInv
<1>8. Stage(c)'
  BY <1>1, <1>2, <1>5, Zenon DEF ConnInv, Stage
<1>9. Taken(c)' = Taken(c) /\ InOrder(c)'
  BY Zenon, <1>1, <1>2 DEF Taken, ConnInv, InOrder
<1>10. Base(c)' = Base(c)
  BY Zenon, <1>1, <1>9 DEF Base
<1>11. OnWire(c)' /\ Complete(c)'
  <2>1. OnWire(c)'
    BY ZenonT(60), <1>1, <1>2, <1>10 DEF ConnInv, OnWire
  <2>2. Complete(c)'
    BY Zenon, <1>1, <1>2, <1>9, <1>10 DEF ConnInv, Complete
  <2> QED BY <2>1, <2>2, Zenon
<1>12. RegisteredIsFed'
  BY Zenon, <1>1 DEF PushInv, RegisteredIsFed
<1>13. Pausing' /\ BlockedIsPaused'
  BY <1>1, <1>2, <1>4, Zenon DEF PushInv, Pausing, BlockedIsPaused
<1> QED BY <1>6, <1>7, <1>8, <1>9, <1>11, <1>12, <1>13, Zenon DEF PushInv, ConnInv

\* Pause sets the flag.
LEMMA PauseKeeps ==
  ASSUME Wired, PushInv, NEW c \in Conns, c = relay.on, PauseDemuxer
  PROVE  PushInv'
<1>1. /\ ctl = <<>> /\ c # None /\ ~dmx[c].paused /\ pauses' = pauses + 1 /\ ctl' = <<"make", c>>
      /\ dmx' = [dmx EXCEPT ![c].paused = TRUE]
      /\ UNCHANGED <<mx, net, srv, demuxers, received, ends, relay>>
  BY Zenon DEF PauseDemuxer, clientSide
<1>2. PushTypes /\ relay \in Readers /\ c \in Conns /\ c = relay.on
  BY <1>1, ReaderIs, Zenon DEF PushInv
<1>3. dmx[c] \in Demuxers /\ dmx[c].pauseCh \in Nat /\ pauses \in Nat
  BY <1>2, Fields, Zenon DEF PushTypes
<1>5. /\ dmx' \in [Conns -> Demuxers] /\ dmx'[c].queue = dmx[c].queue
      /\ dmx'[c].shut = dmx[c].shut /\ dmx'[c].err = dmx[c].err
      /\ dmx'[c].paused = TRUE /\ dmx'[c].pauseCh = dmx[c].pauseCh
      /\ \A e \in Conns : e # c => dmx'[e] = dmx[e]
  <2> DEFINE r == [dmx[c] EXCEPT !.paused = TRUE]
  <2>1. /\ r \in Demuxers /\ r.queue = dmx[c].queue /\ r.shut = dmx[c].shut
        /\ r.err = dmx[c].err /\ r.paused = TRUE /\ r.pauseCh = dmx[c].pauseCh
    BY <1>1, <1>3, Zenon DEF Demuxers
  <2>2. dmx' = [dmx EXCEPT ![c] = r]
    BY <1>1, Zenon
  <2> HIDE DEF r
  <2> QED BY <1>2, <2>1, <2>2, Zenon DEF PushTypes
<1>6. PushTypes'
  BY <1>1, <1>2, <1>3, <1>5, SMTT(40) DEF PushTypes
<1>7. RegisteredIsFed' /\ \A e \in Conns : ConnInv(e)'
  BY <1>1, <1>5, ConnsKept, Zenon
<1>8. Pausing'
  BY <1>1, <1>2, <1>5, Zenon DEF PushInv, Pausing
<1>9. BlockedIsPaused'
  BY <1>1, <1>2, <1>5, Zenon DEF PushInv, Pausing, BlockedIsPaused
<1> QED BY <1>6, <1>7, <1>8, <1>9, Zenon DEF PushInv

\* Pause makes the channel.
LEMMA PauseMakesKeeps ==
  ASSUME Wired, PushInv, NEW c \in Conns, c = relay.on, PauseMakes
  PROVE  PushInv'
<1>1. /\ ctl = <<"make", c>> /\ ctl' = <<>>
      /\ dmx' = [dmx EXCEPT ![c].pauseCh = pauses]
      /\ UNCHANGED <<mx, net, srv, demuxers, received, ends, relay, pauses>>
  <2>1. ctl # <<>> /\ ctl[1] = "make"
    BY Zenon DEF PauseMakes
  <2>2. ctl = <<"make", c>>
    BY <2>1, SMTT(40) DEF PushInv, PushTypes
  <2> QED BY <2>2, Zenon DEF PauseMakes, clientSide
<1>2. PushTypes /\ relay \in Readers /\ c \in Conns /\ c = relay.on
  BY <1>1, ReaderIs, Zenon DEF PushInv
<1>3. dmx[c] \in Demuxers /\ dmx[c].pauseCh \in Nat /\ pauses \in Nat
  BY <1>2, Fields, Zenon DEF PushTypes
<1>5. /\ dmx' \in [Conns -> Demuxers] /\ dmx'[c].queue = dmx[c].queue
      /\ dmx'[c].shut = dmx[c].shut /\ dmx'[c].err = dmx[c].err
      /\ dmx'[c].paused = dmx[c].paused /\ dmx'[c].pauseCh = pauses
      /\ \A e \in Conns : e # c => dmx'[e] = dmx[e]
  <2> DEFINE r == [dmx[c] EXCEPT !.pauseCh = pauses]
  <2>1. /\ r \in Demuxers /\ r.queue = dmx[c].queue /\ r.shut = dmx[c].shut
        /\ r.err = dmx[c].err /\ r.paused = dmx[c].paused /\ r.pauseCh = pauses
    BY <1>1, <1>3, Zenon DEF Demuxers
  <2>2. dmx' = [dmx EXCEPT ![c] = r]
    BY <1>1, Zenon
  <2> HIDE DEF r
  <2> QED BY <1>2, <2>1, <2>2, Zenon DEF PushTypes
<1>6. PushTypes'
  BY <1>1, <1>2, <1>3, <1>5, Zenon DEF PushTypes
<1>7. RegisteredIsFed' /\ \A e \in Conns : ConnInv(e)'
  BY <1>1, <1>5, ConnsKept, Zenon
<1>8. Pausing'
  BY <1>1, <1>2, <1>5, Zenon DEF PushInv, Pausing
<1>9. BlockedIsPaused'
  BY <1>1, <1>2, <1>5, Zenon DEF PushInv, Pausing, BlockedIsPaused
<1> QED BY <1>6, <1>7, <1>8, <1>9, Zenon DEF PushInv

\* Resume clears the flag.
LEMMA ResumeKeeps ==
  ASSUME Wired, PushInv, NEW c \in Conns, c = relay.on, ResumeDemuxer
  PROVE  PushInv'
<1>1. /\ ctl = <<>> /\ c # None /\ dmx[c].paused /\ ctl' = <<"take", c>>
      /\ dmx' = [dmx EXCEPT ![c].paused = FALSE]
      /\ UNCHANGED <<mx, net, srv, demuxers, received, ends, relay, pauses>>
  BY Zenon DEF ResumeDemuxer, clientSide
<1>2. PushTypes /\ relay \in Readers /\ c \in Conns /\ c = relay.on
  BY <1>1, ReaderIs, Zenon DEF PushInv
<1>3. dmx[c] \in Demuxers /\ dmx[c].pauseCh \in Nat /\ pauses \in Nat
  BY <1>2, Fields, Zenon DEF PushTypes
<1>5. /\ dmx' \in [Conns -> Demuxers] /\ dmx'[c].queue = dmx[c].queue
      /\ dmx'[c].shut = dmx[c].shut /\ dmx'[c].err = dmx[c].err
      /\ dmx'[c].paused = FALSE /\ dmx'[c].pauseCh = dmx[c].pauseCh
      /\ \A e \in Conns : e # c => dmx'[e] = dmx[e]
  <2> DEFINE r == [dmx[c] EXCEPT !.paused = FALSE]
  <2>1. /\ r \in Demuxers /\ r.queue = dmx[c].queue /\ r.shut = dmx[c].shut
        /\ r.err = dmx[c].err /\ r.paused = FALSE /\ r.pauseCh = dmx[c].pauseCh
    BY <1>1, <1>3, Zenon DEF Demuxers
  <2>2. dmx' = [dmx EXCEPT ![c] = r]
    BY <1>1, Zenon
  <2> HIDE DEF r
  <2> QED BY <1>2, <2>1, <2>2, Zenon DEF PushTypes
<1>6. PushTypes'
  BY <1>1, <1>2, <1>3, <1>5, Zenon DEF PushTypes
<1>7. RegisteredIsFed' /\ \A e \in Conns : ConnInv(e)'
  BY <1>1, <1>5, ConnsKept, Zenon
<1>8. Pausing'
  BY <1>1, <1>2, <1>5, Zenon DEF PushInv, Pausing
<1>9. BlockedIsPaused'
  BY <1>1, <1>2, <1>5, SMTT(40) DEF PushInv, Pausing, BlockedIsPaused
<1> QED BY <1>6, <1>7, <1>8, <1>9, Zenon DEF PushInv

\* Resume takes the channel.
LEMMA ResumeTakesKeeps ==
  ASSUME Wired, PushInv, NEW c \in Conns, c = relay.on, ResumeTakes
  PROVE  PushInv'
<1>1. /\ ctl = <<"take", c>> /\ ctl' = <<"close", dmx[c].pauseCh>>
      /\ dmx' = [dmx EXCEPT ![c].pauseCh = 0]
      /\ UNCHANGED <<mx, net, srv, demuxers, received, ends, relay, pauses>>
  <2>1. ctl # <<>> /\ ctl[1] = "take"
    BY Zenon DEF ResumeTakes
  <2>2. ctl = <<"take", c>>
    BY <2>1, SMTT(40) DEF PushInv, PushTypes
  <2> QED BY <2>2, Zenon DEF ResumeTakes, clientSide
<1>2. PushTypes /\ relay \in Readers /\ c \in Conns /\ c = relay.on
  BY <1>1, ReaderIs, Zenon DEF PushInv
<1>3. dmx[c] \in Demuxers /\ dmx[c].pauseCh \in Nat /\ pauses \in Nat
  BY <1>2, Fields, Zenon DEF PushTypes
<1>5. /\ dmx' \in [Conns -> Demuxers] /\ dmx'[c].queue = dmx[c].queue
      /\ dmx'[c].shut = dmx[c].shut /\ dmx'[c].err = dmx[c].err
      /\ dmx'[c].paused = dmx[c].paused /\ dmx'[c].pauseCh = 0
      /\ \A e \in Conns : e # c => dmx'[e] = dmx[e]
  <2> DEFINE r == [dmx[c] EXCEPT !.pauseCh = 0]
  <2>1. /\ r \in Demuxers /\ r.queue = dmx[c].queue /\ r.shut = dmx[c].shut
        /\ r.err = dmx[c].err /\ r.paused = dmx[c].paused /\ r.pauseCh = 0
    BY <1>1, <1>3, Zenon DEF Demuxers
  <2>2. dmx' = [dmx EXCEPT ![c] = r]
    BY <1>1, Zenon
  <2> HIDE DEF r
  <2> QED BY <1>2, <2>1, <2>2, Zenon DEF PushTypes
<1>6. PushTypes'
  BY <1>1, <1>2, <1>3, <1>5, Zenon DEF PushTypes
<1>7. RegisteredIsFed' /\ \A e \in Conns : ConnInv(e)'
  BY <1>1, <1>5, ConnsKept, Zenon
<1>8. Pausing'
  BY <1>1, <1>2, <1>5, Zenon DEF PushInv, Pausing
<1>9. BlockedIsPaused'
  BY <1>1, <1>2, <1>5, Zenon DEF PushInv, Pausing, BlockedIsPaused
<1> QED BY <1>6, <1>7, <1>8, <1>9, Zenon DEF PushInv

\* The relay closes the demuxer, which resumes it.
LEMMA CloseFirstKeeps ==
  ASSUME Wired, PushInv, NEW c \in Conns, c = relay.on, CloseReader, ~dmx[c].closed
  PROVE  PushInv'
<1>1. /\ relay.pc = "close" /\ ctl = <<>> /\ relay' = NoReader
      /\ dmx' = [dmx EXCEPT ![c].closed = TRUE, ![c].paused = FALSE, ![c].pauseCh = 0]
      /\ UNCHANGED <<mx, net, srv, demuxers, received, ends, ctl, pauses>>
  BY Zenon DEF CloseReader, clientSide
<1>2. PushTypes /\ relay \in Readers /\ c \in Conns /\ c = relay.on
  BY <1>1, ReaderIs, Zenon DEF PushInv
<1>3. dmx[c] \in Demuxers /\ dmx[c].pauseCh \in Nat /\ pauses \in Nat
  BY <1>2, Fields, Zenon DEF PushTypes
<1>4. relay' \in Readers /\ relay'.pc = "idle" /\ relay'.on = None
  BY <1>1, Zenon DEF NoReader, Readers
<1>5. /\ dmx' \in [Conns -> Demuxers] /\ dmx'[c].queue = dmx[c].queue
      /\ dmx'[c].shut = dmx[c].shut /\ dmx'[c].err = dmx[c].err
      /\ dmx'[c].paused = FALSE /\ dmx'[c].pauseCh = 0
      /\ \A e \in Conns : e # c => dmx'[e] = dmx[e]
  <2> DEFINE r == [dmx[c] EXCEPT !.closed = TRUE, !.paused = FALSE, !.pauseCh = 0]
  <2>1. /\ r \in Demuxers /\ r.queue = dmx[c].queue /\ r.shut = dmx[c].shut
        /\ r.err = dmx[c].err /\ r.paused = FALSE /\ r.pauseCh = 0
    BY <1>1, <1>3, Zenon DEF Demuxers
  <2>2. dmx' = [dmx EXCEPT ![c] = r]
    BY <1>1, Zenon
  <2> HIDE DEF r
  <2> QED BY <1>2, <2>1, <2>2, Zenon DEF PushTypes
<1>6. PushTypes'
  BY <1>1, <1>2, <1>3, <1>4, <1>5, Zenon DEF PushTypes
<1>7. RegisteredIsFed' /\ \A e \in Conns : ConnInv(e)'
  BY <1>1, <1>5, ConnsKept, Zenon
<1>8. Pausing'
  BY <1>1, <1>2, <1>4, <1>5, Zenon DEF PushInv, Pausing
<1>9. BlockedIsPaused'
  BY <1>4, Zenon DEF BlockedIsPaused
<1> QED BY <1>6, <1>7, <1>8, <1>9, Zenon DEF PushInv

\* A demuxer that is closed already is left alone.
LEMMA CloseReaderKeeps ==
  ASSUME Wired, PushInv, CloseReader
  PROVE  PushInv'
<1>1. CASE ~dmx[relay.on].closed
  BY <1>1, CloseFirstKeeps, ReaderIs, Zenon DEF CloseReader, PushInv
<1>2. CASE dmx[relay.on].closed
  <2>1. /\ relay.pc = "close" /\ ctl = <<>> /\ relay' = NoReader
        /\ UNCHANGED <<mx, net, srv, demuxers, dmx, ctl, pauses, received, ends>>
    BY <1>2, Zenon DEF CloseReader, clientSide
  <2>2. relay' \in Readers /\ relay'.pc = "idle" /\ relay'.on = None
    BY <2>1, Zenon DEF NoReader, Readers
  <2>3. PushTypes'
    BY <2>1, <2>2, Zenon DEF PushInv, PushTypes
  <2>4. RegisteredIsFed' /\ \A c \in Conns : ConnInv(c)'
    BY <2>1, ConnsKept, Zenon
  <2>5. Pausing' /\ BlockedIsPaused'
    BY <2>1, <2>2, Zenon DEF PushInv, Pausing, BlockedIsPaused
  <2> QED BY <2>3, <2>4, <2>5, Zenon DEF PushInv
<1> QED BY <1>1, <1>2, Zenon

-----------------------------------------------------------------------------
(* The theorem. *)

\* The server starts as it should be.
LEMMA PushStarts ==
  ASSUME Wired, PushInit
  PROVE  PushInv
<1>1. /\ NewMuxer \in Muxers /\ ~NewMuxer.header /\ ~NewMuxer.closed /\ ~NewMuxer.acked
      /\ NewMuxer.n = 0
  BY Zenon DEF NewMuxer, Muxers
<1>2. <<>> \in Seq(Messages) /\ <<>> \in Seq(Nat) /\ Len(<<>>) = 0 /\ 1 .. 0 = {}
  BY Zenon, EmptySeq
<1>3. /\ NewDemuxer \in Demuxers /\ NewDemuxer.queue = <<>> /\ ~NewDemuxer.shut
      /\ NewDemuxer.err = "" /\ NewDemuxer.pauseCh = 0
  <2>1. "" \in Endings /\ "" \in Configs \cup {""}
    BY Zenon DEF Endings
  <2>2. NewDemuxer \in Demuxers
    BY <1>2, <2>1, Zenon DEF NewDemuxer, Demuxers
  <2> QED BY <2>2, Zenon DEF NewDemuxer
<1>4. Serving("first") \in Handlers /\ Serving("first").pc = "first"
  BY Zenon DEF Serving, Handlers
<1>5. NoReader \in Readers /\ NoReader.pc = "idle" /\ NoReader.on = None
  BY Zenon DEF NoReader, Readers
<1>6. /\ mx = [c \in Conns |-> NewMuxer] /\ net = [c \in Conns |-> <<>>]
      /\ srv = [c \in Conns |-> Serving("first")] /\ demuxers = None
      /\ dmx = [c \in Conns |-> NewDemuxer] /\ relay = NoReader /\ ctl = <<>> /\ pauses = 0
      /\ received = [c \in Conns |-> <<>>] /\ ends = [c \in Conns |-> ""]
  BY Zenon DEF PushInit
<1> HIDE DEF PushInit
<1>7. PushTypes
  <2>1. /\ mx \in [Conns -> Muxers] /\ net \in [Conns -> Seq(Messages)]
        /\ srv \in [Conns -> Handlers]
    BY <1>1, <1>2, <1>4, <1>6, Zenon
  <2>4. "" \in Endings
    BY Zenon DEF Endings
  <2>2. dmx \in [Conns -> Demuxers] /\ received \in [Conns -> Seq(Nat)] /\ ends \in [Conns -> Endings]
    BY Zenon, <1>2, <1>3, <1>6, <2>4
  <2>3. pauses \in Nat
    BY <1>6, Zenon
  <2> QED BY Zenon, <1>5, <1>6, <2>1, <2>2, <2>3 DEF PushTypes
<1>8. ASSUME NEW c \in Conns PROVE ConnInv(c)
  <2>1. mx[c] = NewMuxer /\ net[c] = <<>> /\ srv[c].pc = "first" /\ dmx[c] = NewDemuxer
        /\ received[c] = <<>> /\ ends[c] = ""
    BY <1>4, <1>6, Zenon
  <2>2. Stage(c)
    BY Zenon, <1>1, <1>3, <2>1 DEF Stage
  <2>3. InOrder(c) /\ OnWire(c)
    BY ZenonT(60), <1>2, <1>3, <2>1 DEF InOrder, OnWire
  <2>4. Complete(c)
    BY Zenon, <1>1, <1>3, <2>1 DEF Complete
  <2> QED BY <2>2, <2>3, <2>4, Zenon DEF ConnInv
<1>9. RegisteredIsFed
  BY <1>4, <1>6, Zenon DEF RegisteredIsFed
<1>10. Pausing /\ BlockedIsPaused
  BY <1>3, <1>5, <1>6, Zenon DEF Pausing, BlockedIsPaused
<1> QED BY <1>7, <1>8, <1>9, <1>10, Zenon DEF PushInv

\* Every step of an RPC keeps the invariant.
LEMMA RpcStep ==
  ASSUME Wired, PushInv, NEW c \in Conns,
         PushStream(c) \/ PushFails(c) \/ Recv(c) \/ RecvFails(c) \/ PutPacket(c) \/ PutFails(c)
  PROVE  PushInv'
<1>1. CASE PushStream(c)
  <2>1. CASE Head(net[c]).t # "header" \/ Head(net[c]).v = "" \/ SourceInUse(c)
    BY <1>1, <2>1, RefuseKeeps, Zenon DEF PushStream
  <2>2. CASE ~(Head(net[c]).t # "header" \/ Head(net[c]).v = "" \/ SourceInUse(c))
    BY <1>1, <2>2, AcceptKeeps, Zenon DEF PushStream, SourceInUse
  <2> QED BY <2>1, <2>2, Zenon
<1>2. CASE PushFails(c)
  BY <1>2, RefuseKeeps, Zenon DEF PushFails
<1>3. CASE Recv(c)
  <2> DEFINE m == Head(net[c])
  <2>1. /\ srv[c].pc = "recv" /\ net[c] # <<>> /\ ConnInv(c) /\ PushTypes
        /\ net[c] \in Seq(Messages) /\ Base(c) \in Int /\ Len(net[c]) \in Nat /\ mx[c].n \in Nat
        /\ UNCHANGED <<relay, ctl, pauses, received, ends>>
    BY <1>3, Fields, Zenon DEF Recv, PushInv
  <2>2. m \in Messages /\ m = net[c][1] /\ 1 \in 1 .. Len(net[c])
    BY <2>1, SMTT(40)
  <2>3. \/ m.t = "packet"
        \/ m.t = "trailer" /\ mx[c].n = Base(c) + 1 - 1
    BY <2>1, <2>2, Zenon DEF ConnInv, OnWire
  <2>4. CASE m.t = "packet"
    BY <1>3, <2>1, <2>4, RecvPacketKeeps, Zenon DEF Recv
  <2>5. CASE m.t = "trailer"
    <3> DEFINE u == IF m.v = "" THEN "EOF" ELSE m.v
    <3>1. m.v \in Errors
      BY <2>2, <2>5, MessageIs, Zenon
    <3>2. u \in Endings /\ u # "" /\ u \in {"EOF"} \cup (Errors \ {""})
      <4>1. CASE m.v = ""
        BY <4>1, Zenon DEF Endings
      <4>2. CASE m.v # ""
        BY <3>1, <4>2, Zenon DEF Endings
      <4> QED BY <4>1, <4>2, Zenon
    <3>3. Taken(c) = Base(c)
      BY <2>1, Zenon DEF Base
    <3>4. Taken(c) = mx[c].n
      BY <2>1, <2>3, <2>5, <3>3, SMTT(40)
    <3>5. ReturnPush(c, u, TRUE)
      BY <1>3, <2>5, Zenon DEF Recv
    <3> HIDE DEF u
    <3> QED BY <2>1, <3>2, <3>4, <3>5, ReturnKeeps, Zenon
  <2> QED BY <2>3, <2>4, <2>5, Zenon
<1>6. ASSUME srv[c].pc \in {"recv", "put"}, ReturnPush(c, "cancelled", FALSE),
             UNCHANGED <<relay, ctl, pauses, received, ends>>
      PROVE  PushInv'
  <2>1. "cancelled" \in Endings /\ "cancelled" # "" /\ FALSE \in BOOLEAN
    BY Zenon DEF Endings
  <2> QED BY Zenon, <1>6, <2>1, ReturnKeeps
<1>4. CASE RecvFails(c)
  BY <1>4, <1>6, Zenon DEF RecvFails
<1>5. CASE PutFails(c)
  BY <1>5, <1>6, Zenon DEF PutFails
<1> QED BY <1>1, <1>2, <1>3, <1>4, <1>5, PutKeeps, Zenon

\* Every step of the reader or the controller does.
LEMMA ReaderStep ==
  ASSUME Wired, PushInv,
         \/ OpenReader \/ ReadPacket \/ LoadPauseCh \/ TakePacket \/ TakeEnd
         \/ StopReader \/ CloseReader
         \/ PauseDemuxer \/ PauseMakes \/ ResumeDemuxer \/ ResumeTakes \/ ResumeCloses
  PROVE  PushInv'
<1>1. PushTypes
  BY Zenon DEF PushInv
<1>2. CASE TakePacket
  BY <1>1, <1>2, ReaderIs, TakePacketKeeps, Zenon DEF TakePacket
<1>3. CASE TakeEnd
  BY <1>1, <1>3, ReaderIs, TakeEndKeeps, Zenon DEF TakeEnd
<1>4. CASE PauseDemuxer
  BY <1>1, <1>4, ReaderIs, PauseKeeps, Zenon DEF PauseDemuxer
<1>5. CASE PauseMakes
  BY <1>1, <1>5, ReaderIs, PauseMakesKeeps, Zenon DEF PauseMakes
<1>6. CASE ResumeDemuxer
  BY <1>1, <1>6, ReaderIs, ResumeKeeps, Zenon DEF ResumeDemuxer
<1>7. CASE ResumeTakes
  BY <1>1, <1>7, ReaderIs, ResumeTakesKeeps, Zenon DEF ResumeTakes
<1> QED BY <1>2, <1>3, <1>4, <1>5, <1>6, <1>7, OpenReaderKeeps, ReadPacketKeeps, Zenon,
           LoadPauseChKeeps, StopReaderKeeps, CloseReaderKeeps, ResumeClosesKeeps

\* Every step does.
LEMMA PushStep ==
  ASSUME Wired, PushInv, [PushNext]_pushVars
  PROVE  PushInv'
<1>1. ASSUME NEW c \in Conns, NEW cfg \in Configs, WriteHeader(c, cfg) PROVE PushInv'
  BY <1>1, WriteHeaderKeeps, Zenon
<1>2. ASSUME NEW c \in Conns, NEW e \in Errors, WriteTrailer(c, e) PROVE PushInv'
  BY <1>2, WriteTrailerKeeps, Zenon
<1>3. ASSUME NEW c \in Conns, WritePacket(c) \/ Cancel(c) PROVE PushInv'
  BY <1>3, WritePacketKeeps, CancelKeeps, Zenon
<1>4. CASE UNCHANGED pushVars
  <2>1. UNCHANGED <<mx, net, srv, demuxers, dmx, relay, ctl, pauses, received, ends>>
    BY <1>4, Zenon DEF pushVars
  <2>2. PushTypes'
    BY Zenon, <2>1 DEF PushInv, PushTypes
  <2>3. RegisteredIsFed' /\ \A c \in Conns : ConnInv(c)'
    BY <2>1, ConnsKept, Zenon
  <2> QED BY <2>1, <2>2, <2>3, ServerKept, Zenon DEF PushInv
<1> QED BY <1>1, <1>2, <1>3, <1>4, RpcStep, ReaderStep, Zenon DEF PushNext

\* Packets numbered from 1 are the first ones.
LEMMA FirstOnes ==
  ASSUME NEW s \in Seq(Nat), \A i \in 1 .. Len(s) : s[i] = i
  PROVE  s = FirstN(Len(s))
<1>1. FirstN(Len(s)) = [i \in 1 .. Len(s) |-> i]
  BY Zenon DEF FirstN
<1>2. s = [i \in 1 .. Len(s) |-> s[i]]
  BY SMTT(40)
<1> QED BY <1>1, <1>2, Zenon

\* The invariant says of the sequences what is meant.
LEMMA InOrderIsFirst ==
  ASSUME PushTypes, NEW c \in Conns, InOrder(c)
  PROVE  /\ received[c] \o dmx[c].queue = FirstN(Len(received[c] \o dmx[c].queue))
         /\ Len(received[c] \o dmx[c].queue) = Taken(c)
<1> DEFINE g == received[c]
           q == dmx[c].queue
           s == g \o q
<1>1. g \in Seq(Nat) /\ q \in Seq(Nat)
  BY Fields, Zenon
<1>2. Taken(c) = Len(g) + Len(q)
  BY Zenon DEF Taken
<1>3. /\ \A i \in 1 .. Len(g) : g[i] = i
      /\ \A i \in 1 .. Len(q) : q[i] = Len(g) + i
  BY Zenon DEF InOrder
<1> HIDE DEF g, q
<1>4. s \in Seq(Nat) /\ Len(s) = Len(g) + Len(q) /\ Len(g) \in Nat /\ Len(q) \in Nat
  BY <1>1, SMTT(40)
<1>5. ASSUME NEW i \in 1 .. Len(s) PROVE s[i] = i
  <2>1. CASE i <= Len(g)
    <3>1. s[i] = g[i]
      BY <1>1, <1>4, <2>1, SMTT(40)
    <3>2. i \in 1 .. Len(g)
      BY <1>4, <2>1, SMTT(40)
    <3> QED BY <1>3, <3>1, <3>2, Zenon
  <2>2. CASE i > Len(g)
    <3>1. s[i] = q[i - Len(g)]
      BY <1>1, <1>4, <2>2, SMTT(40)
    <3>2. i - Len(g) \in 1 .. Len(q) /\ Len(g) + (i - Len(g)) = i
      BY <1>4, <2>2, SMTT(40)
    <3> QED BY <1>3, <3>1, <3>2, Zenon
  <2> QED BY <1>4, <2>1, <2>2, SMTT(40)
<1> HIDE DEF s
<1>6. s = FirstN(Len(s))
  BY <1>4, <1>5, FirstOnes, Zenon
<1> QED BY <1>2, <1>4, <1>6, Zenon DEF g, q, s

\* In every behaviour what is pushed is read, once and in order; the end comes
\* last, after every packet of a stream whose trailer was acknowledged; a
\* registered demuxer is being fed; a reader is blocked only while paused.
THEOREM PushIsRead == PushSpec => []PushedIsRead
<1>1. PushInit => PushInv
  BY PushStarts, WiredAssumption, Zenon
<1>2. PushInv /\ [PushNext]_pushVars => PushInv'
  BY PushStep, WiredAssumption, Zenon
<1>3. PushInv => PushedIsRead
  <2> SUFFICES ASSUME PushInv PROVE EndAfterLastPacket
    BY Zenon DEF PushInv, PushedIsRead
  <2>1. ASSUME NEW c \in Conns
        PROVE  /\ received[c] \o dmx[c].queue = FirstN(Len(received[c] \o dmx[c].queue))
               /\ Len(received[c] \o dmx[c].queue) = Taken(c)
    BY InOrderIsFirst, Zenon DEF PushInv, ConnInv
  <2>2. ASSUME NEW c \in Conns
        PROVE  /\ ends[c] # "" => dmx[c].queue = <<>> /\ ends[c] = dmx[c].err
               /\ mx[c].acked => /\ Taken(c) = mx[c].n
                                 /\ dmx[c].err \in {"EOF"} \cup (Errors \ {""})
    BY Zenon DEF PushInv, ConnInv, Stage, Complete
  <2> QED BY Zenon, <2>1, <2>2 DEF EndAfterLastPacket
<1> QED BY <1>1, <1>2, <1>3, PTL DEF PushSpec

-----------------------------------------------------------------------------
(* Pva *)

Sorted(es) == \A j, k \in 1 .. Len(es) : j <= k => es[j] <= es[k]

\* What Handle and ReadPacket are doing.
Slots   == Chans \cup {NoCh}
Handles == [pc : {"idle", "broadcast", "send"}, slice : [id : Nat, len : Nat], at : Nat \ {0}]
Calls   == [pc : {"idle", "subscribe", "recheck", "wait"}, t : Int, ch : Slots]

PvaTypes ==
  /\ data \in Seq(Int) /\ Sorted(data)
  /\ arrays \in Seq(Seq(Slots)) /\ list \in [id : Nat, len : Nat]
  /\ hubChans \in [Chans -> [n : Nat, open : BOOLEAN]]
  /\ ing \in [Streams -> Handles] /\ mrg \in [Mergers -> Calls]

\* A slice s of the arrays as holds channels.
SliceOf(s, as) == /\ s.id \in 1 .. Len(as) /\ s.len \in 0 .. Len(as[s.id])
                  /\ \A k \in 1 .. s.len : as[s.id][k] \in Chans
Slices == SliceOf(list, arrays) /\ \A i \in Streams : SliceOf(ing[i].slice, arrays)

\* What a Broadcast walks is a part of the list, or of one that was replaced.
Walks == ~shifted => \A i \in Streams :
           ing[i].pc = "send" /\ ing[i].slice.id = list.id => ing[i].slice.len <= list.len

\* The mergers have channels of their own.
Listens(m) == mrg[m].pc \in {"recheck", "wait"}
Own == /\ \A m \in Mergers : mrg[m].pc # "idle" => mrg[m].t \in FrameTimes
       /\ \A m \in Mergers : Listens(m) => mrg[m].ch \in Chans
       /\ \A m, o \in Mergers : Listens(m) /\ Listens(o) /\ mrg[m].ch = mrg[o].ch => m = o

PvaInv == PvaTypes /\ Slices /\ Walks /\ Own /\ SubscribersListen /\ WaitingWillBeTold

-----------------------------------------------------------------------------

\* A non-empty set of naturals has a least element.
LEMMA LeastPosition ==
  ASSUME NEW T, T \subseteq Nat, T # {}
  PROVE  \E x \in T : \A y \in T : x <= y
<1>1. PICK x \in T : \A y \in T : ~(<<y, x>> \in OpToRel(<, Nat))
  BY NatLessThanWellFounded, WFMin
<1>2. ASSUME NEW y \in T PROVE x <= y
  <2>1. x \in Nat /\ y \in Nat
    OBVIOUS
  <2>2. ~(y < x)
    BY <1>1, <2>1 DEF OpToRel
  <2> QED BY <2>1, <2>2, SMT
<1> QED BY <1>2

\* sort.Search finds the first entry that is not before t.
LEMMA SearchIs ==
  ASSUME NEW es \in Seq(Int), NEW t \in Int
  PROVE  /\ Search(es, t) \in 1 .. Len(es) + 1
         /\ \A i \in 1 .. Search(es, t) - 1 : es[i] < t
         /\ Search(es, t) <= Len(es) => es[Search(es, t)] >= t
<1> DEFINE T == {i \in 1 .. Len(es) : es[i] >= t} \cup {Len(es) + 1}
<1>1. T \subseteq Nat /\ T # {} /\ Len(es) \in Nat
  BY SMT
<1>2. PICK x \in T : \A y \in T : x <= y
  BY <1>1, LeastPosition, Zenon
<1>3. x \in 1 .. Len(es) + 1 /\ (x <= Len(es) => es[x] >= t)
  BY <1>1, <1>2, SMT
<1>4. ASSUME NEW i \in 1 .. x - 1 PROVE es[i] < t
  <2>1. i \notin T
    BY <1>1, <1>2, <1>3, SMT
  <2>2. i \in 1 .. Len(es)
    BY <1>1, <1>3, SMT
  <2>3. es[i] \in Int /\ ~(es[i] >= t)
    BY <2>1, <2>2, SMT
  <2> QED BY <2>3, SMT
<1>5. \E k \in 1 .. Len(es) + 1 : NotBefore(es, t, k)
  BY <1>3, <1>4, Zenon DEF NotBefore
<1>6. Search(es, t) \in 1 .. Len(es) + 1 /\ NotBefore(es, t, Search(es, t))
  BY <1>5, Zenon DEF Search
<1> QED BY <1>6, Zenon DEF NotBefore

\* Put keeps the entries sorted: a sorted insertion,
LEMMA Inserted ==
  ASSUME NEW es \in Seq(Int), Sorted(es), NEW t \in Int
  PROVE  Insert(es, t) \in Seq(Int) /\ Sorted(Insert(es, t))
<1> DEFINE p == Search(es, t)
           r == Insert(es, t)
<1>1. p \in 1 .. Len(es) + 1 /\ (\A i \in 1 .. p - 1 : es[i] < t) /\ (p <= Len(es) => es[p] >= t)
  BY SearchIs, Zenon
<1>2. r = [k \in 1 .. Len(es) + 1 |-> IF k < p THEN es[k] ELSE IF k = p THEN t ELSE es[k - 1]]
  BY Zenon DEF Insert
<1>3. Len(es) \in Nat /\ \A k \in 1 .. Len(es) : es[k] \in Int
  BY SMT
<1> HIDE DEF p, r
<1>4. ASSUME NEW k \in 1 .. Len(es) + 1
      PROVE  /\ r[k] = IF k < p THEN es[k] ELSE IF k = p THEN t ELSE es[k - 1]
             /\ r[k] \in Int
  BY <1>1, <1>2, <1>3, SMT
<1>5. r \in Seq(Int) /\ Len(r) = Len(es) + 1
  BY <1>2, <1>3, <1>4, SMT
<1>6. \A i \in 1 .. Len(es) : i >= p => es[i] >= t
  BY <1>1, <1>3, SMT DEF Sorted
<1>7. ASSUME NEW j \in 1 .. Len(es) + 1, NEW k \in 1 .. Len(es) + 1, j <= k PROVE r[j] <= r[k]
  <2>1. CASE k < p
    <3>1. r[j] = es[j] /\ r[k] = es[k] /\ j \in 1 .. Len(es) /\ k \in 1 .. Len(es)
      BY <1>1, <1>3, <1>4, <1>7, <2>1, SMT
    <3> QED BY <1>7, <3>1, Zenon DEF Sorted
  <2>2. CASE k >= p /\ j < p
    <3>1. r[j] = es[j] /\ es[j] < t /\ es[j] \in Int
      BY <1>1, <1>3, <1>4, <2>2, SMT
    <3>2. r[k] >= t /\ r[k] \in Int
      <4>1. CASE k = p
        BY <1>4, <2>2, <4>1, SMT
      <4>2. CASE k # p
        <5>1. r[k] = es[k - 1] /\ k - 1 \in 1 .. Len(es) /\ k - 1 >= p
          BY <1>1, <1>3, <1>4, <2>2, <4>2, SMT
        <5> QED BY <1>3, <1>6, <5>1, Zenon
      <4> QED BY <4>1, <4>2, Zenon
    <3> QED BY <3>1, <3>2, SMT
  <2>3. CASE j = p
    <3>1. CASE k = p
      BY <1>4, <2>3, <3>1, SMT
    <3>2. CASE k # p
      <4>1. r[k] = es[k - 1] /\ k - 1 \in 1 .. Len(es) /\ k - 1 >= p /\ r[j] = t
        BY <1>1, <1>3, <1>4, <1>7, <2>3, <3>2, SMT
      <4>2. es[k - 1] >= t /\ es[k - 1] \in Int
        BY <1>3, <1>6, <4>1, Zenon
      <4> QED BY <4>1, <4>2, SMT
    <3> QED BY <3>1, <3>2, Zenon
  <2>4. CASE j > p
    <3>1. /\ r[j] = es[j - 1] /\ r[k] = es[k - 1] /\ j - 1 \in 1 .. Len(es) /\ k - 1 \in 1 .. Len(es)
          /\ j - 1 <= k - 1
      BY <1>1, <1>3, <1>4, <1>7, <2>4, SMT
    <3> QED BY <3>1, Zenon DEF Sorted
  <2> QED BY <1>1, <1>7, <2>1, <2>2, <2>3, <2>4, SMT
<1> QED BY <1>5, <1>7, Zenon DEF Sorted, r

\* and an eviction at the front.
LEMMA Evicted ==
  ASSUME NEW es \in Seq(Int), Sorted(es), NEW k \in 1 .. Len(es) + 1
  PROVE  SubSeq(es, k, Len(es)) \in Seq(Int) /\ Sorted(SubSeq(es, k, Len(es)))
<1> DEFINE r == SubSeq(es, k, Len(es))
<1>1. /\ r \in Seq(Int) /\ Len(r) = Len(es) - k + 1 /\ Len(es) \in Nat
      /\ \A i \in 1 .. Len(r) : r[i] = es[i + k - 1]
  BY SMT
<1> HIDE DEF r
<1>2. ASSUME NEW i \in 1 .. Len(r), NEW j \in 1 .. Len(r), i <= j PROVE r[i] <= r[j]
  <2>1. i + k - 1 \in 1 .. Len(es) /\ j + k - 1 \in 1 .. Len(es) /\ i + k - 1 <= j + k - 1
    BY <1>1, <1>2, SMT
  <2> QED BY <1>1, <2>1, Zenon DEF Sorted
<1> QED BY <1>1, <1>2, Zenon DEF Sorted, r

\* lookup: nothing is nearer than the entries on both sides of the frame.
LEMMA NearestFound ==
  ASSUME PvaTypes, NEW t \in Int
  PROVE  /\ Lookup(t) = {} <=> Near(t) = {}
         /\ \A e \in Lookup(t), i \in Near(t) : Diff(e, t) <= Diff(data[i], t)
<1> DEFINE p == Search(data, t)
           D(i) == Diff(data[i], t)
<1>1. data \in Seq(Int) /\ Sorted(data)
  BY Zenon DEF PvaTypes
<1>2. p \in 1 .. Len(data) + 1 /\ (\A i \in 1 .. p - 1 : data[i] < t) /\ (p <= Len(data) => data[p] >= t)
  BY <1>1, SearchIs, Zenon
<1>3. Len(data) \in Nat /\ DOMAIN data = 1 .. Len(data) /\ \A i \in 1 .. Len(data) : data[i] \in Int
  BY <1>1, SMT
<1>4. Tolerance \in Nat
  BY PvaAssumption, Zenon DEF Clocks
<1>5. \A i : i \in Near(t) <=> Within(i, t)
  BY Zenon DEF Near, Within
<1>6. \A i : Within(i, t) <=> i \in 1 .. Len(data) /\ D(i) <= Tolerance
  BY <1>3, Zenon DEF Within
<1>7. Lookup(t) = LET best == IF Within(p, t) THEN {data[p]} ELSE {}
                  IN  IF Within(p - 1, t) /\ \A x \in best : Diff(data[p - 1], t) < Diff(x, t)
                        THEN {data[p - 1]} ELSE best
  BY Zenon DEF Lookup
<1> HIDE DEF p
<1>8. ASSUME NEW a \in Int, NEW b \in Int PROVE Diff(a, b) \in Nat
  BY SMT DEF Diff
<1>9. \A i \in 1 .. Len(data) : D(i) \in Nat
  BY <1>3, <1>8, Zenon
<1>10. ASSUME NEW i \in 1 .. Len(data), i >= p PROVE p \in 1 .. Len(data) /\ D(p) <= D(i)
  <2>1. p \in 1 .. Len(data) /\ data[p] >= t
    BY <1>2, <1>3, <1>10, SMT
  <2>2. data[p] <= data[i]
    BY <1>1, <1>10, <2>1, SMT DEF Sorted
  <2>3. ASSUME NEW a \in Int, NEW b \in Int, t <= a, a <= b PROVE Diff(a, t) <= Diff(b, t)
    BY <2>3, SMT DEF Diff
  <2>4. t <= data[p] /\ data[p] \in Int /\ data[i] \in Int
    BY <1>3, <2>1, SMT
  <2> QED BY <2>1, <2>2, <2>3, <2>4, Zenon
<1>11. ASSUME NEW i \in 1 .. Len(data), i < p PROVE p - 1 \in 1 .. Len(data) /\ D(p - 1) <= D(i)
  <2>1. p - 1 \in 1 .. Len(data) /\ p - 1 \in 1 .. p - 1
    BY <1>2, <1>3, <1>11, SMT
  <2>2. data[i] <= data[p - 1] /\ data[p - 1] < t
    <3>1. i <= p - 1
      BY <1>2, <1>11, SMT
    <3> QED BY <1>1, <1>2, <2>1, <3>1, Zenon DEF Sorted
  <2>3. ASSUME NEW a \in Int, NEW b \in Int, a <= b, b < t PROVE Diff(b, t) <= Diff(a, t)
    BY <2>3, SMT DEF Diff
  <2> QED BY <1>3, <2>1, <2>2, <2>3, Zenon
<1>12. ASSUME NEW i, Within(i, t)
       PROVE  (Within(p, t) /\ D(p) <= D(i)) \/ (Within(p - 1, t) /\ D(p - 1) <= D(i))
  <2>1. i \in 1 .. Len(data) /\ D(i) <= Tolerance
    BY <1>6, <1>12, Zenon
  <2>2. ASSUME NEW a \in Nat, NEW b \in Nat, a <= b, b <= Tolerance PROVE a <= Tolerance
    BY <1>4, <2>2, SMT
  <2>3. CASE i >= p
    BY <1>6, <1>9, <1>10, <2>1, <2>2, <2>3, Zenon
  <2>4. CASE i < p
    BY <1>6, <1>9, <1>11, <2>1, <2>2, <2>4, Zenon
  <2> QED BY <1>2, <2>1, <2>3, <2>4, SMT
<1> HIDE DEF D
<1>13. CASE Within(p - 1, t) /\ (Within(p, t) => D(p - 1) < D(p))
  <2>1. Lookup(t) = {data[p - 1]}
    BY <1>7, <1>13, Zenon DEF D
  <2>2. ASSUME NEW i \in Near(t) PROVE D(p - 1) <= D(i)
    <3>1. Within(i, t)
      BY <1>5, Zenon
    <3>2. CASE Within(p, t) /\ D(p) <= D(i)
      <4>1. D(p) \in Nat /\ D(p - 1) \in Nat /\ D(i) \in Nat /\ D(p - 1) < D(p)
        BY <1>6, <1>9, <1>13, <3>1, <3>2, Zenon
      <4> QED BY <3>2, <4>1, SMT
    <3> QED BY <1>12, <3>1, <3>2, Zenon
  <2> QED BY <1>5, <1>13, <2>1, <2>2, Zenon DEF D
<1>14. CASE ~(Within(p - 1, t) /\ (Within(p, t) => D(p - 1) < D(p))) /\ Within(p, t)
  <2>1. Lookup(t) = {data[p]}
    BY <1>7, <1>14, Zenon DEF D
  <2>2. ASSUME NEW i \in Near(t) PROVE D(p) <= D(i)
    <3>1. Within(i, t)
      BY <1>5, Zenon
    <3>2. CASE Within(p - 1, t) /\ D(p - 1) <= D(i)
      <4>1. D(p) \in Nat /\ D(p - 1) \in Nat /\ D(i) \in Nat /\ ~(D(p - 1) < D(p))
        BY <1>6, <1>9, <1>14, <3>1, <3>2, Zenon
      <4> QED BY <3>2, <4>1, SMT
    <3> QED BY <1>12, <3>1, <3>2, Zenon
  <2> QED BY <1>5, <1>14, <2>1, <2>2, Zenon DEF D
<1>15. CASE ~Within(p - 1, t) /\ ~Within(p, t)
  <2>1. Lookup(t) = {}
    BY <1>7, <1>15, Zenon
  <2> QED BY <1>5, <1>12, <1>15, <2>1, Zenon
<1> QED BY <1>13, <1>14, <1>15, Zenon

-----------------------------------------------------------------------------
\* What the types say of one call of Handle, of one ReadPacket, of one channel.
LEMMA PvaParts ==
  ASSUME PvaTypes
  PROVE  /\ \A i \in Streams : /\ ing[i] \in Handles /\ ing[i].slice \in [id : Nat, len : Nat]
                               /\ ing[i].at \in Nat \ {0} /\ ing[i].slice.len \in Nat
         /\ \A m \in Mergers : mrg[m] \in Calls /\ mrg[m].t \in Int
         /\ \A ch \in Chans : /\ hubChans[ch] \in [n : Nat, open : BOOLEAN]
                              /\ hubChans[ch].n \in Nat
         /\ list.id \in Nat /\ list.len \in Nat
<1>1. /\ list \in [id : Nat, len : Nat] /\ hubChans \in [Chans -> [n : Nat, open : BOOLEAN]]
      /\ ing \in [Streams -> Handles] /\ mrg \in [Mergers -> Calls]
  BY Zenon DEF PvaTypes
<1>2. \A i \in Streams : ing[i] \in Handles
  BY <1>1, Zenon
<1>3. \A h \in Handles : h.slice \in [id : Nat, len : Nat] /\ h.at \in Nat \ {0}
  BY Zenon DEF Handles
<1>4. \A r \in [id : Nat, len : Nat] : r.id \in Nat /\ r.len \in Nat
  BY Zenon
<1>5. \A m \in Mergers : mrg[m] \in Calls /\ mrg[m].t \in Int
  <2>1. \A r \in Calls : r.t \in Int
    BY Zenon DEF Calls
  <2> QED BY <1>1, <2>1, Zenon
<1>6. \A ch \in Chans : hubChans[ch] \in [n : Nat, open : BOOLEAN] /\ hubChans[ch].n \in Nat
  <2>1. \A r \in [n : Nat, open : BOOLEAN] : r.n \in Nat
    BY Zenon
  <2> QED BY <1>1, <2>1, Zenon
<1> QED BY <1>1, <1>2, <1>3, <1>4, <1>5, <1>6, Zenon

\* The list and who listens stay.
LEMMA HubStays ==
  ASSUME PvaInv, mrg' = mrg, list' = list, arrays' = arrays,
         \A ch \in Chans : hubChans'[ch].open <=> hubChans[ch].open
  PROVE  Own' /\ SubscribersListen'
<1>1. Own'
  BY Zenon DEF PvaInv, Own, Listens
<1>2. Listening' = Listening
  BY Zenon DEF Listening
<1>3. {ch \in Chans : hubChans'[ch].open} = {ch \in Chans : hubChans[ch].open}
  BY Zenon
<1> DEFINE S == {arrays[list.id][k] : k \in 1 .. list.len}
<1>4. /\ \A j, k \in 1 .. list.len : arrays[list.id][j] = arrays[list.id][k] => j = k
      /\ S = Listening /\ {ch \in Chans : hubChans[ch].open} = Listening
  BY Zenon DEF PvaInv, SubscribersListen
<1>5. {arrays'[list'.id][k] : k \in 1 .. list'.len} = S
  OBVIOUS
<1>6. \A j, k \in 1 .. list'.len : arrays'[list'.id][j] = arrays'[list'.id][k] => j = k
  BY <1>4, Zenon
<1> HIDE DEF S
<1> QED BY <1>1, <1>2, <1>3, <1>4, <1>5, <1>6, Zenon DEF SubscribersListen

\* A result is put into the store: its Broadcast is still to come.
LEMMA HandlePutKeeps ==
  ASSUME PvaInv, NEW i \in Streams, NEW t \in Times, NEW cutoff \in Cutoffs, HandlePut(i, t, cutoff)
  PROVE  PvaInv'
<1> DEFINE h == [ing[i] EXCEPT !.pc = "broadcast"]
<1>1. /\ data' = Insert(SubSeq(data, Search(data, cutoff + 1), Len(data)), t)
      /\ ing' = [ing EXCEPT ![i] = h] /\ arrays' = arrays /\ list' = list
      /\ hubChans' = hubChans /\ mrg' = mrg /\ shifted' = shifted
  BY Zenon DEF HandlePut, Put
<1>2. PvaTypes /\ t \in Int /\ cutoff \in Int
  BY PvaAssumption, Zenon DEF PvaInv, Clocks
<1>3. data' \in Seq(Int) /\ Sorted(data')
  <2>1. data \in Seq(Int) /\ Sorted(data) /\ cutoff + 1 \in Int
    <3>1. cutoff + 1 \in Int
      BY <1>2, SMT
    <3> QED BY <1>2, <3>1, Zenon DEF PvaTypes
  <2>2. Search(data, cutoff + 1) \in 1 .. Len(data) + 1
    BY <2>1, SearchIs, Zenon
  <2> QED BY <1>1, <1>2, <2>1, <2>2, Evicted, Inserted, Zenon
<1>4. h \in Handles /\ h.pc = "broadcast" /\ h.slice = ing[i].slice
  BY <1>2, PvaParts, Zenon DEF Handles
<1> HIDE DEF h
<1>5. /\ ing' \in [Streams -> Handles] /\ ing'[i] = h /\ \A x \in Streams : x # i => ing'[x] = ing[x]
  BY <1>1, <1>2, <1>4, Zenon DEF PvaTypes
<1>6. PvaTypes'
  BY <1>1, <1>2, <1>3, <1>5, Zenon DEF PvaTypes
<1>7. \A x \in Streams : ing'[x].slice = ing[x].slice /\ (ing'[x].pc = "send" => ing[x].pc = "send")
  BY <1>4, <1>5, Zenon
<1>8. Slices' /\ Walks'
  BY <1>1, <1>7, Zenon DEF PvaInv, Slices, Walks
<1>9. Own' /\ SubscribersListen'
  BY <1>1, HubStays, Zenon
<1>10. WaitingWillBeTold'
  BY <1>4, <1>5, Zenon DEF WaitingWillBeTold, AboutToTell
<1> QED BY <1>6, <1>8, <1>9, <1>10, Zenon DEF PvaInv

\* A merger that listens is in the list, and its channel is open.
LEMMA ListenerListed ==
  ASSUME PvaInv, NEW m \in Mergers, Listens(m)
  PROVE  /\ mrg[m].ch \in Listening /\ mrg[m].ch \in Chans /\ hubChans[mrg[m].ch].open
         /\ \E k \in 1 .. list.len : arrays[list.id][k] = mrg[m].ch
<1>1. mrg[m].ch \in Listening
  BY Zenon DEF Listening, Listens
<1> QED BY <1>1, Zenon DEF PvaInv, SubscribersListen, Own

\* Broadcast takes the list: every merger that waits is in it.
LEMMA BroadcastKeeps ==
  ASSUME PvaInv, NEW i \in Streams, Broadcast(i)
  PROVE  PvaInv'
<1> DEFINE h == [NoHandle EXCEPT !.pc = "send", !.slice = list]
<1>1. /\ ing[i].pc = "broadcast" /\ ing' = [ing EXCEPT ![i] = h] /\ arrays' = arrays /\ list' = list
      /\ hubChans' = hubChans /\ mrg' = mrg /\ shifted' = shifted /\ data' = data
  BY Zenon DEF Broadcast
<1>2. PvaTypes /\ list \in [id : Nat, len : Nat]
  BY Zenon DEF PvaInv, PvaTypes
<1>3. h \in Handles /\ h.pc = "send" /\ h.slice = list /\ h.at = 1
  <2>1. 1 \in Nat \ {0} /\ 0 \in Nat
    BY SMT
  <2> QED BY <1>2, <2>1, Zenon DEF Handles, NoHandle
<1> HIDE DEF h
<1>4. /\ ing' \in [Streams -> Handles] /\ ing'[i] = h /\ \A x \in Streams : x # i => ing'[x] = ing[x]
  BY <1>1, <1>2, <1>3, Zenon DEF PvaTypes
<1>5. PvaTypes'
  BY <1>1, <1>2, <1>4, Zenon DEF PvaTypes
<1>6. Slices'
  BY <1>1, <1>3, <1>4, Zenon DEF PvaInv, Slices
<1>7. Walks'
  <2>1. list.len <= list.len
    <3>1. list.len \in Nat
      BY <1>2, PvaParts, Zenon
    <3> QED BY <3>1, SMT
  <2> QED BY <1>1, <1>3, <1>4, <2>1, Zenon DEF PvaInv, Walks
<1>8. Own' /\ SubscribersListen'
  BY <1>1, HubStays, Zenon
<1>9. WaitingWillBeTold'
  <2> SUFFICES ASSUME NEW m \in Mergers, mrg[m].pc = "wait"
               PROVE  \E x \in Streams : AboutToTell(x, mrg[m].ch)'
    BY <1>1, Zenon DEF WaitingWillBeTold
  <2>1. \E k \in 1 .. list.len : arrays[list.id][k] = mrg[m].ch
    BY ListenerListed, Zenon DEF Listens
  <2>2. AboutToTell(i, mrg[m].ch)'
    BY <1>1, <1>3, <1>4, <2>1, Zenon DEF AboutToTell
  <2> QED BY <2>2, Zenon
<1> QED BY <1>5, <1>6, <1>7, <1>8, <1>9, Zenon DEF PvaInv

\* Broadcast sends to one element of its slice, or is done.
LEMMA SendToKeeps ==
  ASSUME PvaInv, NEW i \in Streams, SendTo(i)
  PROVE  PvaInv'
<1>1. /\ ing[i].pc = "send" /\ arrays' = arrays /\ list' = list /\ mrg' = mrg /\ shifted' = shifted
      /\ data' = data
  BY Zenon DEF SendTo
<1>2. PvaTypes /\ ing[i] \in Handles /\ ing[i].at \in Nat \ {0} /\ ing[i].slice.len \in Nat
  BY PvaParts, Zenon DEF PvaInv
<1>3. SliceOf(list, arrays) /\ SliceOf(ing[i].slice, arrays)
  BY Zenon DEF PvaInv, Slices
<1>4. \A t : Near(t)' = Near(t)
  BY <1>1, Zenon DEF Near
<1>5. CASE ing[i].at > ing[i].slice.len
  <2>1. ing' = [ing EXCEPT ![i] = NoHandle] /\ hubChans' = hubChans
    BY <1>5, Zenon DEF SendTo
  <2>2. NoHandle \in Handles /\ NoHandle.pc = "idle" /\ NoHandle.slice = [id |-> 1, len |-> 0]
    <3>1. 1 \in Nat \ {0} /\ 1 \in Nat /\ 0 \in Nat
      BY SMT
    <3> QED BY <3>1, Zenon DEF NoHandle, Handles
  <2>3. SliceOf([id |-> 1, len |-> 0], arrays)
    <3>1. list.id \in 1 .. Len(arrays) /\ arrays \in Seq(Seq(Slots))
      BY <1>2, <1>3, Zenon DEF SliceOf, PvaTypes
    <3>2. 1 \in 1 .. Len(arrays) /\ 0 \in 0 .. Len(arrays[1]) /\ 1 .. 0 = {}
      BY <3>1, SMT
    <3> QED BY <3>2, Zenon DEF SliceOf
  <2>4. /\ ing' \in [Streams -> Handles] /\ ing'[i] = NoHandle
        /\ \A x \in Streams : x # i => ing'[x] = ing[x]
    BY <1>2, <2>1, <2>2, Zenon DEF PvaTypes
  <2>5. PvaTypes'
    BY <1>1, <1>2, <2>1, <2>4, Zenon DEF PvaTypes
  <2>6. Slices' /\ Walks'
    BY <1>1, <2>2, <2>3, <2>4, Zenon DEF PvaInv, Slices, Walks
  <2>7. Own' /\ SubscribersListen'
    BY <1>1, <2>1, HubStays, Zenon
  <2>8. ASSUME NEW x \in Streams, NEW ch, AboutToTell(x, ch) PROVE AboutToTell(x, ch)'
    <3>1. CASE x = i
      <4>1. ing[i].at .. ing[i].slice.len = {}
        BY <1>2, <1>5, SMT
      <4> QED BY <1>1, <2>8, <3>1, <4>1, Zenon DEF AboutToTell
    <3>2. CASE x # i
      BY <1>1, <2>4, <2>8, <3>2, Zenon DEF AboutToTell
    <3> QED BY <3>1, <3>2, Zenon
  <2>9. WaitingWillBeTold'
    BY <1>1, <1>4, <2>1, <2>8, Zenon DEF PvaInv, WaitingWillBeTold
  <2> QED BY <2>5, <2>6, <2>7, <2>9, Zenon DEF PvaInv
<1>6. CASE ~(ing[i].at > ing[i].slice.len)
  <2> DEFINE ch == arrays[ing[i].slice.id][ing[i].at]
             h  == [ing[i] EXCEPT !.at = ing[i].at + 1]
             c2 == [hubChans[ch] EXCEPT !.n = hubChans[ch].n + 1]
  <2>1. /\ ing' = [ing EXCEPT ![i] = h]
        /\ hubChans' = IF hubChans[ch].open /\ hubChans[ch].n < ChanBuf
                         THEN [hubChans EXCEPT ![ch] = c2] ELSE hubChans
    BY <1>6, Zenon DEF SendTo
  <2>2. ch \in Chans
    <3>1. ing[i].at \in 1 .. ing[i].slice.len
      BY <1>2, <1>6, SMT
    <3> QED BY <1>3, <3>1, Zenon DEF SliceOf
  <2>3. hubChans[ch] \in [n : Nat, open : BOOLEAN] /\ hubChans[ch].n \in Nat
    BY <1>2, <2>2, PvaParts, Zenon
  <2>4. ing[i].at + 1 \in Nat \ {0} /\ hubChans[ch].n + 1 \in Nat /\ hubChans[ch].n + 1 > 0
    <3>1. ASSUME NEW a \in Nat PROVE a + 1 \in Nat \ {0} /\ a + 1 \in Nat /\ a + 1 > 0
      BY SMT
    <3> QED BY <1>2, <2>3, <3>1, Zenon
  <2>5. h \in Handles /\ h.pc = ing[i].pc /\ h.slice = ing[i].slice /\ h.at = ing[i].at + 1
    BY <1>2, <2>4, Zenon DEF Handles
  <2>6. c2 \in [n : Nat, open : BOOLEAN] /\ c2.n = hubChans[ch].n + 1 /\ (c2.open <=> hubChans[ch].open)
    BY <2>3, <2>4, Zenon
  <2> HIDE DEF h, c2, ch
  <2>7. /\ ing' \in [Streams -> Handles] /\ ing'[i] = h
        /\ \A x \in Streams : x # i => ing'[x] = ing[x]
    BY <1>2, <2>1, <2>5, Zenon DEF PvaTypes
  <2>8. /\ hubChans' \in [Chans -> [n : Nat, open : BOOLEAN]]
        /\ \A x \in Chans : /\ hubChans'[x].open <=> hubChans[x].open
                            /\ hubChans'[x] = hubChans[x] \/ (x = ch /\ hubChans'[x] = c2)
    BY <1>2, <2>1, <2>2, <2>6, Zenon DEF PvaTypes
  <2>9. PvaTypes'
    BY <1>1, <1>2, <2>7, <2>8, Zenon DEF PvaTypes
  <2>10. \A x \in Streams : ing'[x].slice = ing[x].slice /\ ing'[x].pc = ing[x].pc
    BY <2>5, <2>7, Zenon
  <2>11. Slices' /\ Walks'
    BY <1>1, <2>10, Zenon DEF PvaInv, Slices, Walks
  <2>12. Own' /\ SubscribersListen'
    BY <1>1, <2>8, HubStays, Zenon
  <2>13. ASSUME hubChans[ch].open PROVE hubChans'[ch].n > 0
    <3>1. CASE hubChans[ch].n < ChanBuf
      <4>1. hubChans'[ch] = c2
        BY <1>2, <2>1, <2>2, <2>13, <3>1, Zenon DEF PvaTypes
      <4> QED BY <2>4, <2>6, <4>1, Zenon
    <3>2. CASE ~(hubChans[ch].n < ChanBuf)
      <4>1. hubChans' = hubChans /\ ChanBuf \in Nat \ {0}
        BY <2>1, <3>2, PvaAssumption, Zenon DEF Clocks
      <4>2. ASSUME NEW a \in Nat, ~(a < ChanBuf) PROVE a > 0
        BY <4>1, <4>2, SMT
      <4> QED BY <2>3, <3>2, <4>1, <4>2, Zenon
    <3> QED BY <3>1, <3>2, Zenon
  <2>14. ASSUME NEW x \in Chans, hubChans[x].n > 0 PROVE hubChans'[x].n > 0
    <3>1. CASE hubChans'[x] = hubChans[x]
      BY <2>14, <3>1, Zenon
    <3>2. CASE x = ch /\ hubChans'[x] = c2
      BY <2>4, <2>6, <3>2, Zenon
    <3> QED BY <2>8, <3>1, <3>2, Zenon
  <2>15. ASSUME NEW x \in Streams, NEW c \in Chans, hubChans[c].open, AboutToTell(x, c)
         PROVE  hubChans'[c].n > 0 \/ AboutToTell(x, c)'
    <3>1. CASE x # i
      BY <1>1, <2>7, <2>15, <3>1, Zenon DEF AboutToTell
    <3>2. CASE x = i
      <4>1. PICK k \in ing[i].at .. ing[i].slice.len : arrays[ing[i].slice.id][k] = c
        BY <1>1, <2>15, <3>2, Zenon DEF AboutToTell
      <4>2. CASE k = ing[i].at
        <5>1. c = ch
          BY <4>1, <4>2, Zenon DEF ch
        <5> QED BY <2>13, <2>15, <5>1, Zenon
      <4>3. CASE k # ing[i].at
        <5>1. k \in ing[i].at + 1 .. ing[i].slice.len
          BY <1>2, <4>1, <4>3, SMT
        <5> QED BY <1>1, <2>5, <2>7, <3>2, <4>1, <5>1, Zenon DEF AboutToTell
      <4> QED BY <4>2, <4>3, Zenon
    <3> QED BY <3>1, <3>2, Zenon
  <2>16. WaitingWillBeTold'
    <3> SUFFICES ASSUME NEW m \in Mergers, mrg[m].pc = "wait", Near(mrg[m].t) # {}, ~shifted,
                        NEW c, c = mrg[m].ch
                 PROVE  hubChans'[c].n > 0 \/ \E x \in Streams : AboutToTell(x, c)'
      BY <1>1, <1>4, Zenon DEF WaitingWillBeTold
    <3>1. c \in Chans /\ hubChans[c].open
      BY ListenerListed, Zenon DEF Listens
    <3>2. hubChans[c].n > 0 \/ \E x \in Streams : AboutToTell(x, c)
      BY Zenon DEF PvaInv, WaitingWillBeTold
    <3> QED BY <2>14, <2>15, <3>1, <3>2, Zenon
  <2> QED BY <2>9, <2>11, <2>12, <2>16, Zenon DEF PvaInv
<1> QED BY <1>5, <1>6, Zenon

\* The channels listened to, now and after a step.
LEMMA WhoListens ==
  /\ \A c : c \in Listening <=> \E x \in Mergers : Listens(x) /\ mrg[x].ch = c
  /\ \A c : c \in Listening' <=> \E x \in Mergers : Listens(x)' /\ mrg'[x].ch = c
<1>1. \A c : c \in Listening <=> \E x \in Mergers : Listens(x) /\ mrg[x].ch = c
  BY Zenon DEF Listening, Listens
<1>2. \A c : c \in Listening' <=> \E x \in Mergers : Listens(x)' /\ mrg'[x].ch = c
  BY Zenon DEF Listening, Listens
<1> QED BY <1>1, <1>2, Zenon

\* A merger that does not listen fetches.
LEMMA FetchKeeps ==
  ASSUME PvaInv, NEW m \in Mergers, NEW t \in FrameTimes, Fetch(m, t)
  PROVE  PvaInv'
<1> DEFINE r == [NoCall EXCEPT !.pc = "subscribe", !.t = t]
<1>1. /\ mrg[m].pc = "idle"
      /\ mrg' = [mrg EXCEPT ![m] = NoCall] \/ mrg' = [mrg EXCEPT ![m] = r]
      /\ arrays' = arrays /\ list' = list /\ hubChans' = hubChans /\ shifted' = shifted
      /\ data' = data /\ ing' = ing
  BY Zenon DEF Fetch, ReturnFrame
<1>2. PvaTypes /\ t \in Int /\ 0 \in Int
  <2>1. 0 \in Int
    BY SMT
  <2> QED BY <2>1, PvaAssumption, Zenon DEF PvaInv, Clocks
<1>3. /\ NoCall \in Calls /\ NoCall.pc = "idle"
      /\ r \in Calls /\ r.pc = "subscribe" /\ r.t = t
  BY <1>2, Zenon DEF NoCall, Calls, Slots
<1> HIDE DEF r
<1>4. PICK q \in Calls : /\ mrg' = [mrg EXCEPT ![m] = q] /\ q.pc \in {"idle", "subscribe"}
                         /\ q.pc # "idle" => q.t \in FrameTimes
  BY <1>1, <1>3, Zenon
<1>5. /\ mrg' \in [Mergers -> Calls] /\ mrg'[m] = q /\ \A x \in Mergers : x # m => mrg'[x] = mrg[x]
  BY <1>2, <1>4, Zenon DEF PvaTypes
<1>6. PvaTypes'
  BY <1>1, <1>2, <1>5, Zenon DEF PvaTypes
<1>7. Slices' /\ Walks'
  BY <1>1, Zenon DEF PvaInv, Slices, Walks
<1>8. ~Listens(m) /\ ~Listens(m)' /\ \A x \in Mergers : x # m => (Listens(x)' <=> Listens(x))
  <2>1. ~Listens(m)
    BY <1>1, Zenon DEF Listens
  <2>2. ~Listens(m)'
    BY <1>4, <1>5, Zenon DEF Listens
  <2>3. \A x \in Mergers : x # m => (Listens(x)' <=> Listens(x))
    BY <1>5, Zenon DEF Listens
  <2> QED BY <2>1, <2>2, <2>3, Zenon
<1>9. Own'
  <2>1. \A x \in Mergers : mrg'[x].pc # "idle" => mrg'[x].t \in FrameTimes
    BY <1>4, <1>5, Zenon DEF PvaInv, Own
  <2>2. \A x \in Mergers : Listens(x)' => Listens(x) /\ mrg'[x] = mrg[x]
    BY <1>5, <1>8, Zenon
  <2>3. \A x \in Mergers : Listens(x)' => mrg'[x].ch \in Chans
    BY <2>2, Zenon DEF PvaInv, Own
  <2>4. \A x, o \in Mergers : Listens(x)' /\ Listens(o)' /\ mrg'[x].ch = mrg'[o].ch => x = o
    BY <2>2, Zenon DEF PvaInv, Own
  <2> QED BY <2>1, <2>3, <2>4, Zenon DEF Own
<1>10. Listening' = Listening
  <2>1. ASSUME NEW c PROVE c \in Listening' => c \in Listening
    BY <1>5, <1>8, WhoListens, Zenon
  <2>2. ASSUME NEW c PROVE c \in Listening => c \in Listening'
    BY <1>5, <1>8, WhoListens, Zenon
  <2> QED BY <2>1, <2>2, Zenon
<1>11. SubscribersListen'
  <2>1. SubscribersListen
    BY Zenon DEF PvaInv
  <2> QED BY <1>1, <1>10, <2>1 DEF SubscribersListen
<1>12. WaitingWillBeTold'
  <2>2. \A tt : Near(tt)' = Near(tt)
    BY <1>1, Zenon DEF Near
  <2> SUFFICES ASSUME NEW x \in Mergers, mrg'[x].pc = "wait", ~shifted,
                      NEW tt, tt = mrg'[x].t, Near(tt) # {}, NEW c, c = mrg'[x].ch
               PROVE  hubChans[c].n > 0 \/ \E i \in Streams : AboutToTell(i, c)'
    BY <1>1, <2>2, Zenon DEF WaitingWillBeTold
  <2>1. x # m /\ mrg'[x] = mrg[x]
    BY <1>4, <1>5, Zenon
  <2>3. \A i \in Streams : AboutToTell(i, c) => AboutToTell(i, c)'
    BY <1>1, Zenon DEF AboutToTell
  <2> QED BY <2>1, <2>3, Zenon DEF PvaInv, WaitingWillBeTold
<1> QED BY <1>6, <1>7, <1>9, <1>11, <1>12, Zenon DEF PvaInv

-----------------------------------------------------------------------------
\* The slice of n elements of the array a holds the channels of S, once each.
Hub(a, n, S) == /\ \A j, k \in 1 .. n : a[j] = a[k] => j = k
                /\ \A k \in 1 .. n : a[k] \in S
                /\ \A ch \in S : \E k \in 1 .. n : a[k] = ch

\* The list is such a slice, now and after a step.
LEMMA ListIsHub ==
  /\ SubscribersListen <=> /\ Hub(arrays[list.id], list.len, Listening)
                           /\ \A ch : ch \in Listening <=> ch \in Chans /\ hubChans[ch].open
  /\ SubscribersListen' <=> /\ Hub(arrays'[list'.id], list'.len, Listening')
                            /\ \A ch : ch \in Listening' <=> ch \in Chans /\ hubChans'[ch].open
<1>1. SubscribersListen <=> /\ Hub(arrays[list.id], list.len, Listening)
                           /\ \A ch : ch \in Listening <=> ch \in Chans /\ hubChans[ch].open
  <2>1. {arrays[list.id][k] : k \in 1 .. list.len} = Listening
          <=> /\ \A k \in 1 .. list.len : arrays[list.id][k] \in Listening
              /\ \A ch \in Listening : \E k \in 1 .. list.len : arrays[list.id][k] = ch
    BY Zenon
  <2>2. {ch \in Chans : hubChans[ch].open} = Listening
          <=> \A ch : ch \in Listening <=> ch \in Chans /\ hubChans[ch].open
    BY Zenon
  <2> QED BY <2>1, <2>2, Zenon DEF SubscribersListen, Hub
<1>2. SubscribersListen' <=> /\ Hub(arrays'[list'.id], list'.len, Listening')
                            /\ \A ch : ch \in Listening' <=> ch \in Chans /\ hubChans'[ch].open
  <2>1. {arrays'[list'.id][k] : k \in 1 .. list'.len} = Listening'
          <=> /\ \A k \in 1 .. list'.len : arrays'[list'.id][k] \in Listening'
              /\ \A ch \in Listening' : \E k \in 1 .. list'.len : arrays'[list'.id][k] = ch
    BY Zenon
  <2>2. {ch \in Chans : hubChans'[ch].open} = Listening'
          <=> \A ch : ch \in Listening' <=> ch \in Chans /\ hubChans'[ch].open
    BY Zenon
  <2> QED BY <2>1, <2>2, Zenon DEF SubscribersListen, Hub
<1> QED BY <1>1, <1>2, Zenon

\* append: one element more.
LEMMA HubAdds ==
  ASSUME NEW a, NEW b, NEW n \in Nat, NEW S, Hub(a, n, S), NEW ch, ch \notin S,
         \A k \in 1 .. n : b[k] = a[k], b[n + 1] = ch
  PROVE  Hub(b, n + 1, S \cup {ch})
<1>1. \A k \in 1 .. n + 1 : k \in 1 .. n \/ k = n + 1
  BY SMT
<1>2. \A k \in 1 .. n : k \in 1 .. n + 1
  BY SMT
<1>3. n + 1 \in 1 .. n + 1
  BY SMT
<1>4. \A k \in 1 .. n : b[k] \in S /\ b[k] # ch
  BY Zenon DEF Hub
<1>5. ASSUME NEW j \in 1 .. n + 1, NEW k \in 1 .. n + 1, b[j] = b[k] PROVE j = k
  <2>1. CASE j \in 1 .. n /\ k \in 1 .. n
    BY <1>5, <2>1, ZenonT(60) DEF Hub
  <2>2. CASE j \in 1 .. n /\ k = n + 1
    BY <1>4, <1>5, <2>2, Zenon
  <2>3. CASE j = n + 1 /\ k \in 1 .. n
    BY <1>4, <1>5, <2>3, Zenon
  <2> QED BY <1>1, <2>1, <2>2, <2>3, Zenon
<1>6. \A k \in 1 .. n + 1 : b[k] \in S \cup {ch}
  BY <1>1, <1>4, Zenon
<1>7. ASSUME NEW c \in S \cup {ch} PROVE \E k \in 1 .. n + 1 : b[k] = c
  <2>1. CASE c \in S
    <3>1. PICK k \in 1 .. n : a[k] = c
      BY <2>1, Zenon DEF Hub
    <3> QED BY <1>2, <3>1, Zenon
  <2> QED BY <1>3, <2>1, Zenon
<1> QED BY <1>5, <1>6, <1>7, Zenon DEF Hub

\* append(list[:i], list[i+1:]...): the rest is moved up.
LEMMA HubDrops ==
  ASSUME NEW a, NEW b, NEW n \in Nat, NEW S, Hub(a, n, S), NEW d \in 1 .. n,
         \A i \in 1 .. n : b[i] = IF i \in d .. n - 1 THEN a[i + 1] ELSE a[i]
  PROVE  Hub(b, n - 1, S \ {a[d]})
<1> DEFINE f(i) == IF i \in d .. n - 1 THEN i + 1 ELSE i
<1>1. ASSUME NEW i \in 1 .. n - 1 PROVE f(i) \in 1 .. n /\ f(i) # d /\ i \in 1 .. n
  BY SMT
<1>2. \A i \in 1 .. n - 1 : b[i] = a[f(i)]
  BY <1>1, Zenon
<1>3. ASSUME NEW i \in 1 .. n - 1, NEW j \in 1 .. n - 1, f(i) = f(j) PROVE i = j
  BY <1>3, SMT
<1>4. ASSUME NEW k \in 1 .. n, k # d PROVE \E i \in 1 .. n - 1 : f(i) = k
  <2>1. CASE k < d
    <3>1. k \in 1 .. n - 1 /\ f(k) = k
      BY <2>1, SMT
    <3> QED BY <3>1, Zenon
  <2>2. CASE k > d
    <3>1. k - 1 \in 1 .. n - 1 /\ f(k - 1) = k
      BY <2>2, SMT
    <3> QED BY <3>1, Zenon
  <2> QED BY <1>4, <2>1, <2>2, SMT
<1> HIDE DEF f
<1>5. ASSUME NEW i \in 1 .. n - 1, NEW j \in 1 .. n - 1, b[i] = b[j] PROVE i = j
  <2>1. a[f(i)] = a[f(j)] /\ f(i) \in 1 .. n /\ f(j) \in 1 .. n
    BY <1>1, <1>2, <1>5, Zenon
  <2>2. f(i) = f(j)
    BY <2>1, Zenon DEF Hub
  <2> QED BY <1>3, <2>2, Zenon
<1>6. ASSUME NEW i \in 1 .. n - 1 PROVE b[i] \in S \ {a[d]}
  <2>1. b[i] = a[f(i)] /\ f(i) \in 1 .. n /\ f(i) # d
    BY <1>1, <1>2, Zenon
  <2>2. a[f(i)] \in S /\ a[f(i)] # a[d]
    BY <2>1, Zenon DEF Hub
  <2> QED BY <2>1, <2>2, Zenon
<1>7. ASSUME NEW c \in S \ {a[d]} PROVE \E i \in 1 .. n - 1 : b[i] = c
  <2>1. PICK k \in 1 .. n : a[k] = c
    BY Zenon DEF Hub
  <2>2. PICK i \in 1 .. n - 1 : f(i) = k
    BY <1>4, <2>1, Zenon
  <2> QED BY <1>2, <2>1, <2>2, Zenon
<1> QED BY <1>5, <1>6, <1>7, Zenon DEF Hub

\* A sequence with one element replaced.
LEMMA Replaced ==
  ASSUME NEW T, NEW s \in Seq(T), NEW i \in 1 .. Len(s), NEW x \in T, NEW r, r = [s EXCEPT ![i] = x]
  PROVE  /\ r \in Seq(T) /\ Len(r) = Len(s) /\ r[i] = x
         /\ \A j \in 1 .. Len(s) : j # i => r[j] = s[j]
BY SMT

\* Subscribe appends to the list and leaves what the slices in use hold, unless
\* they reach beyond the list in its array.
LEMMA Subscribed ==
  ASSUME PvaInv, NEW ch \in Chans, Subscribe(ch)
  PROVE  /\ arrays' \in Seq(Seq(Slots)) /\ list' \in [id : Nat, len : Nat]
         /\ list'.len = list.len + 1 /\ SliceOf(list', arrays')
         /\ \A k \in 1 .. list.len : arrays'[list'.id][k] = arrays[list.id][k]
         /\ arrays'[list'.id][list.len + 1] = ch
         /\ \A s \in [id : Nat, len : Nat] : SliceOf(s, arrays) =>
              /\ SliceOf(s, arrays') /\ (s.id = list'.id => s.id = list.id)
              /\ (s.id = list.id => s.len <= list.len) =>
                   \A k \in 1 .. s.len : arrays'[s.id][k] = arrays[s.id][k]
<1> DEFINE a == arrays[list.id]
           n == list.len
<1>1. PvaTypes /\ arrays \in Seq(Seq(Slots)) /\ list \in [id : Nat, len : Nat] /\ SliceOf(list, arrays)
  BY Zenon DEF PvaInv, PvaTypes, Slices
<1>2. list.id \in 1 .. Len(arrays) /\ n \in 0 .. Len(a) /\ \A k \in 1 .. n : a[k] \in Chans
  BY <1>1, Zenon DEF SliceOf
<1>3. a \in Seq(Slots) /\ Len(arrays) \in Nat /\ Len(a) \in Nat /\ ch \in Slots /\ NoCh \in Slots
  <2>1. a \in Seq(Slots) /\ Len(arrays) \in Nat
    BY <1>1, <1>2, SMT
  <2>2. Len(a) \in Nat
    BY <2>1, SMT
  <2> QED BY <2>1, <2>2, Zenon DEF Slots
<1>4. CASE n < Len(a)
  <2> DEFINE b == [a EXCEPT ![n + 1] = ch]
  <2>1. arrays' = [arrays EXCEPT ![list.id] = b] /\ list' = [list EXCEPT !.len = n + 1]
    BY <1>4, Zenon DEF Subscribe
  <2>2. /\ b \in Seq(Slots) /\ Len(b) = Len(a) /\ b[n + 1] = ch
        /\ \A k \in 1 .. Len(a) : k # n + 1 => b[k] = a[k]
    <3> HIDE DEF a
    <3> QED BY <1>2, <1>3, <1>4, SMT
  <2>3. n + 1 \in Nat /\ n \in Nat /\ n + 1 \in 0 .. Len(a) /\ (\A k \in 1 .. n : k # n + 1 /\ k \in 1 .. Len(a))
    <3> HIDE DEF a
    <3> QED BY <1>2, <1>3, <1>4, SMT
  <2>4. list' \in [id : Nat, len : Nat] /\ list'.id = list.id /\ list'.len = n + 1
    BY <1>1, <2>1, <2>3, Zenon
  <2> HIDE DEF b
  <2>5. /\ arrays' \in Seq(Seq(Slots)) /\ Len(arrays') = Len(arrays) /\ arrays'[list.id] = b
        /\ \A i \in 1 .. Len(arrays) : i # list.id => arrays'[i] = arrays[i]
    <3>1. /\ arrays \in Seq(Seq(Slots)) /\ list.id \in 1 .. Len(arrays) /\ b \in Seq(Slots)
          /\ arrays' = [arrays EXCEPT ![list.id] = b]
      BY <1>1, <1>2, <2>1, <2>2, Zenon
    <3> QED BY <3>1, Replaced
  <2>6. ASSUME NEW s \in [id : Nat, len : Nat], SliceOf(s, arrays)
        PROVE  /\ SliceOf(s, arrays')
               /\ (s.id = list.id => s.len <= n) =>
                    \A k \in 1 .. s.len : arrays'[s.id][k] = arrays[s.id][k]
    <3>1. s.id \in 1 .. Len(arrays) /\ s.len \in 0 .. Len(arrays[s.id]) /\ s.len \in Nat
          /\ \A k \in 1 .. s.len : arrays[s.id][k] \in Chans
      BY <2>6, Zenon DEF SliceOf
    <3>2. CASE s.id # list.id
      <4>1. arrays'[s.id] = arrays[s.id]
        BY <2>5, <3>1, <3>2, Zenon
      <4> QED BY <2>5, <3>1, <4>1, Zenon DEF SliceOf
    <3>3. CASE s.id = list.id
      <4>1. arrays[s.id] = a /\ arrays'[s.id] = b /\ s.len \in 0 .. Len(b)
        BY <2>2, <2>5, <3>1, <3>3, Zenon
      <4>2. \A k \in 1 .. s.len : k \in 1 .. Len(a)
        <5>1. ASSUME NEW x \in Nat, NEW y \in 0 .. x, NEW k \in 1 .. y PROVE k \in 1 .. x
          BY SMT
        <5> QED BY <1>3, <3>1, <3>3, <5>1, Zenon
      <4>3. \A k \in 1 .. s.len : b[k] \in Chans
        BY <2>2, <3>1, <3>3, <4>2, Zenon
      <4>4. ASSUME s.len <= n, NEW k \in 1 .. s.len PROVE b[k] = a[k]
        <5>1. k # n + 1
          <6>1. ASSUME NEW x \in Nat, NEW y \in Nat, x <= y, NEW l \in 1 .. x PROVE l # y + 1
            BY <6>1, SMT
          <6> QED BY <2>3, <3>1, <4>4, <6>1, Zenon
        <5> QED BY <2>2, <4>2, <5>1, Zenon
      <4>5. SliceOf(s, arrays')
        BY <2>5, <3>1, <4>1, <4>3, Zenon DEF SliceOf
      <4> QED BY <3>3, <4>1, <4>4, <4>5, Zenon
    <3> QED BY <3>2, <3>3, Zenon
  <2>7. \A k \in 1 .. n : b[k] = a[k]
    BY <2>2, <2>3, Zenon
  <2>8. SliceOf(list', arrays')
    <3>1. \A k \in 1 .. n + 1 : k \in 1 .. n \/ k = n + 1
      BY <2>3, SMT
    <3>2. \A k \in 1 .. n + 1 : b[k] \in Chans
      BY <1>2, <2>2, <2>7, <3>1, Zenon
    <3> QED BY <1>2, <2>2, <2>3, <2>4, <2>5, <3>2, Zenon DEF SliceOf
  <2> QED BY <2>2, <2>4, <2>5, <2>6, <2>7, <2>8, Zenon
<1>5. CASE ~(n < Len(a))
  <2> DEFINE M == IF n = 0 THEN 1 ELSE 2 * n
             b == [k \in 1 .. M |-> IF k <= n THEN a[k] ELSE IF k = n + 1 THEN ch ELSE NoCh]
  <2>1. arrays' = Append(arrays, b) /\ list' = [id |-> Len(arrays) + 1, len |-> n + 1]
    BY <1>5, Zenon DEF Subscribe
  <2>2. /\ n \in Nat /\ n = Len(a) /\ M \in Nat /\ n + 1 \in 1 .. M /\ n + 1 \in 0 .. M /\ n + 1 \in Nat
        /\ Len(arrays) + 1 \in Nat
        /\ (\A k \in 1 .. n : k \in 1 .. M /\ k <= n) /\ ~(n + 1 <= n)
        /\ (\A k \in 1 .. M : k <= n => k \in 1 .. n)
        /\ (\A k \in 1 .. n + 1 : k \in 1 .. n \/ k = n + 1)
    <3> HIDE DEF a, n, M
    <3>1. n \in Nat /\ n = Len(a)
      BY <1>2, <1>3, <1>5, SMT
    <3>2. M \in Nat /\ n + 1 <= M
      <4>1. CASE n = 0
        <5>1. M = 1
          BY <4>1, Zenon DEF M
        <5> QED BY <4>1, <5>1, SMT
      <4>2. CASE n # 0
        <5>1. M = 2 * n
          BY <4>2, Zenon DEF M
        <5> QED BY <3>1, <4>2, <5>1, SMT
      <4> QED BY <4>1, <4>2, Zenon
    <3>3. ASSUME NEW x \in Nat, NEW y \in Nat, x + 1 <= y
          PROVE  /\ x + 1 \in 1 .. y /\ x + 1 \in 0 .. y /\ x + 1 \in Nat
                 /\ (\A k \in 1 .. x : k \in 1 .. y /\ k <= x) /\ ~(x + 1 <= x)
                 /\ (\A k \in 1 .. y : k <= x => k \in 1 .. x)
                 /\ (\A k \in 1 .. x + 1 : k \in 1 .. x \/ k = x + 1)
      BY <3>3, SMT
    <3>4. Len(arrays) + 1 \in Nat
      BY <1>3, SMT
    <3> QED BY <3>1, <3>2, <3>3, <3>4, Zenon
  <2> HIDE DEF M
  <2>3. /\ (\A k \in 1 .. n : b[k] = a[k]) /\ b[n + 1] = ch /\ (\A k \in 1 .. M : b[k] \in Slots)
    BY <1>2, <1>3, <2>2, Zenon DEF Slots
  <2>4. b \in [1 .. M -> Slots]
    BY <2>3, Zenon
  <2> HIDE DEF b
  <2>5. b \in Seq(Slots) /\ Len(b) = M
    <3>1. ASSUME NEW T, NEW x \in Nat, NEW g \in [1 .. x -> T] PROVE g \in Seq(T) /\ Len(g) = x
      BY SMT
    <3> QED BY <2>2, <2>4, <3>1, Zenon
  <2>6. /\ arrays' \in Seq(Seq(Slots)) /\ Len(arrays') = Len(arrays) + 1 /\ arrays'[Len(arrays) + 1] = b
        /\ \A i \in 1 .. Len(arrays) : arrays'[i] = arrays[i]
    BY <1>1, <2>1, <2>5, SMT
  <2>7. list' \in [id : Nat, len : Nat] /\ list'.id = Len(arrays) + 1 /\ list'.len = n + 1
    BY <2>1, <2>2, Zenon
  <2>8. \A i \in 1 .. Len(arrays) : i \in 1 .. Len(arrays') /\ i # Len(arrays) + 1
    BY <1>3, <2>6, SMT
  <2>9. ASSUME NEW s \in [id : Nat, len : Nat], SliceOf(s, arrays)
        PROVE  SliceOf(s, arrays') /\ s.id # list'.id /\ arrays'[s.id] = arrays[s.id]
    BY <2>6, <2>7, <2>8, <2>9, Zenon DEF SliceOf
  <2>10. SliceOf(list', arrays')
    <3>1. Len(arrays) + 1 \in 1 .. Len(arrays')
      BY <1>3, <2>6, SMT
    <3>2. \A k \in 1 .. n + 1 : b[k] \in Chans
      BY <1>2, <2>2, <2>3, Zenon
    <3> QED BY <2>2, <2>5, <2>6, <2>7, <3>1, <3>2, Zenon DEF SliceOf
  <2> QED BY <2>3, <2>6, <2>7, <2>9, <2>10, Zenon
<1> QED BY <1>4, <1>5, Zenon

\* A merger subscribes: its channel is new, and who waited still will be told.
LEMMA ListenKeeps ==
  ASSUME PvaInv, NEW m \in Mergers, Listen(m)
  PROVE  PvaInv'
<1> DEFINE r == [mrg[m] EXCEPT !.pc = "recheck", !.ch = NewChan]
<1>1. /\ mrg[m].pc = "subscribe" /\ Subscribe(NewChan) /\ mrg' = [mrg EXCEPT ![m] = r]
      /\ data' = data /\ ing' = ing /\ shifted' = shifted /\ \E ch \in Chans : ~InUse(ch)
  BY Zenon DEF Listen
<1>2. NewChan \in Chans /\ ~InUse(NewChan)
  BY <1>1, Zenon DEF NewChan
<1>3. PICK ch \in Chans : ch = NewChan /\ ~hubChans[ch].open
  BY <1>2, Zenon DEF InUse
<1>4. PvaTypes /\ mrg[m] \in Calls /\ Slices
  BY PvaParts, Zenon DEF PvaInv
<1>5. r \in Calls /\ r.pc = "recheck" /\ r.ch = ch /\ r.t = mrg[m].t
  BY <1>3, <1>4, Zenon DEF Calls, Slots
<1> HIDE DEF r
<1>6. /\ mrg' \in [Mergers -> Calls] /\ mrg'[m] = r /\ \A x \in Mergers : x # m => mrg'[x] = mrg[x]
  BY <1>1, <1>4, <1>5, Zenon DEF PvaTypes
<1>7. Subscribe(ch)
  BY <1>1, <1>3, Zenon
<1>8. /\ arrays' \in Seq(Seq(Slots)) /\ list' \in [id : Nat, len : Nat]
      /\ list'.len = list.len + 1 /\ SliceOf(list', arrays')
      /\ \A k \in 1 .. list.len : arrays'[list'.id][k] = arrays[list.id][k]
      /\ arrays'[list'.id][list.len + 1] = ch
      /\ \A s \in [id : Nat, len : Nat] : SliceOf(s, arrays) =>
           /\ SliceOf(s, arrays') /\ (s.id = list'.id => s.id = list.id)
           /\ (s.id = list.id => s.len <= list.len) =>
                \A k \in 1 .. s.len : arrays'[s.id][k] = arrays[s.id][k]
  BY <1>7, Subscribed, Zenon
<1>9. /\ hubChans' \in [Chans -> [n : Nat, open : BOOLEAN]] /\ hubChans'[ch].open
      /\ \A x \in Chans : x # ch => hubChans'[x] = hubChans[x]
  <2>1. hubChans' = [hubChans EXCEPT ![ch] = [n |-> 0, open |-> TRUE]] /\ 0 \in Nat
    <3>1. 0 \in Nat
      BY SMT
    <3> QED BY <1>7, <3>1, Zenon DEF Subscribe
  <2>2. [n |-> 0, open |-> TRUE] \in [n : Nat, open : BOOLEAN] /\ [n |-> 0, open |-> TRUE].open
    BY <2>1, Zenon
  <2> QED BY <1>4, <2>1, <2>2, Zenon DEF PvaTypes
<1>10. PvaTypes'
  BY <1>1, <1>4, <1>6, <1>8, <1>9, Zenon DEF PvaTypes
<1>11. \A i \in Streams : ing[i].slice \in [id : Nat, len : Nat] /\ SliceOf(ing[i].slice, arrays)
  BY <1>4, PvaParts, Zenon DEF Slices
<1>12. Slices'
  BY <1>1, <1>8, <1>11, Zenon DEF Slices
<1>13. Walks'
  <2>1. ASSUME ~shifted, NEW i \in Streams, ing[i].pc = "send", ing[i].slice.id = list'.id
        PROVE  ing[i].slice.len <= list'.len
    <3>1. ing[i].slice.len <= list.len
      BY <1>8, <1>11, <2>1, Zenon DEF PvaInv, Walks
    <3>2. ing[i].slice.len \in Nat /\ list.len \in Nat
      BY <1>4, PvaParts, Zenon
    <3>3. ASSUME NEW a \in Nat, NEW b \in Nat, a <= b PROVE a <= b + 1
      BY <3>3, SMT
    <3> QED BY <1>8, <3>1, <3>2, <3>3, Zenon
  <2> QED BY <1>1, <2>1, Zenon DEF Walks
<1>14. /\ ~Listens(m) /\ Listens(m)' /\ mrg'[m].ch = ch
       /\ \A x \in Mergers : x # m => (Listens(x)' <=> Listens(x)) /\ mrg'[x].ch = mrg[x].ch
  <2>1. ~Listens(m)
    BY <1>1, Zenon DEF Listens
  <2>2. Listens(m)' /\ mrg'[m].ch = ch
    BY <1>5, <1>6, Zenon DEF Listens
  <2>3. \A x \in Mergers : x # m => (Listens(x)' <=> Listens(x)) /\ mrg'[x].ch = mrg[x].ch
    BY <1>6, Zenon DEF Listens
  <2> QED BY <2>1, <2>2, <2>3, Zenon
<1>15. \A x \in Mergers : Listens(x) => mrg[x].ch # ch
  BY <1>3, ListenerListed, Zenon
<1>16. Own'
  <2>1. ASSUME NEW x \in Mergers, mrg'[x].pc # "idle" PROVE mrg'[x].t \in FrameTimes
    <3>1. CASE x = m
      <4>1. mrg[m].t \in FrameTimes
        BY <1>1, Zenon DEF PvaInv, Own
      <4> QED BY <1>5, <1>6, <3>1, <4>1, Zenon
    <3>2. CASE x # m
      BY <1>6, <2>1, <3>2, Zenon DEF PvaInv, Own
    <3> QED BY <3>1, <3>2, Zenon
  <2>2. \A x \in Mergers : Listens(x)' => mrg'[x].ch \in Chans
    BY <1>14, Zenon DEF PvaInv, Own
  <2>3. ASSUME NEW x \in Mergers, NEW o \in Mergers, Listens(x)', Listens(o)', mrg'[x].ch = mrg'[o].ch
        PROVE  x = o
    <3>1. CASE x # m /\ o # m
      BY <1>14, <2>3, <3>1, Zenon DEF PvaInv, Own
    <3>2. CASE x = m /\ o # m
      BY <1>14, <1>15, <2>3, <3>2, Zenon
    <3>3. CASE x # m /\ o = m
      BY <1>14, <1>15, <2>3, <3>3, Zenon
    <3> QED BY <3>1, <3>2, <3>3, Zenon
  <2> QED BY <2>1, <2>2, <2>3, Zenon DEF Own
<1>17. Listening' = Listening \cup {ch} /\ ch \notin Listening
  <2>1. ch \notin Listening
    BY <1>15, WhoListens, Zenon
  <2>2. ASSUME NEW c PROVE c \in Listening' <=> c \in Listening \/ c = ch
    <3>1. ASSUME c \in Listening' PROVE c \in Listening \/ c = ch
      <4>1. PICK x \in Mergers : Listens(x)' /\ mrg'[x].ch = c
        BY <3>1, WhoListens, Zenon
      <4>2. CASE x = m
        BY <1>14, <4>1, <4>2, Zenon
      <4>3. CASE x # m
        BY <1>14, <4>1, <4>3, WhoListens, Zenon
      <4> QED BY <4>2, <4>3, Zenon
    <3>2. ASSUME c \in Listening PROVE c \in Listening'
      <4>1. PICK x \in Mergers : Listens(x) /\ mrg[x].ch = c
        BY <3>2, WhoListens, Zenon
      <4>2. Listens(x)' /\ mrg'[x].ch = c
        BY <1>14, <4>1, Zenon
      <4> QED BY <4>2, WhoListens, Zenon
    <3>3. ch \in Listening'
      BY <1>14, WhoListens, Zenon
    <3> QED BY <3>1, <3>2, <3>3, Zenon
  <2> QED BY <2>1, <2>2, Zenon
<1>18. SubscribersListen'
  <2>1. /\ Hub(arrays[list.id], list.len, Listening)
        /\ \A x : x \in Listening <=> x \in Chans /\ hubChans[x].open
    BY ListIsHub, Zenon DEF PvaInv
  <2>2. list.len \in Nat
    BY <1>4, PvaParts, Zenon
  <2>3. Hub(arrays'[list'.id], list'.len, Listening')
    <3>1. PICK a, b, S : a = arrays[list.id] /\ b = arrays'[list'.id] /\ S = Listening
      OBVIOUS
    <3>2. PICK n \in Nat : n = list.len
      BY <2>2, Zenon
    <3>3. Hub(a, n, S) /\ ch \notin S /\ (\A k \in 1 .. n : b[k] = a[k]) /\ b[n + 1] = ch
      BY <1>8, <1>17, <2>1, <3>1, <3>2, Zenon
    <3>4. Hub(b, n + 1, S \cup {ch})
      BY <3>3, HubAdds, Zenon
    <3> QED BY <1>8, <1>17, <3>1, <3>2, <3>4, Zenon
  <2>4. \A x : x \in Listening' <=> x \in Chans /\ hubChans'[x].open
    BY <1>9, <1>17, <2>1, Zenon
  <2> QED BY <2>3, <2>4, ListIsHub, Zenon
<1>19. WaitingWillBeTold'
  <2>1. \A tt : Near(tt)' = Near(tt)
    BY <1>1, Zenon DEF Near
  <2> SUFFICES ASSUME NEW x \in Mergers, mrg'[x].pc = "wait", ~shifted,
                      NEW tt, tt = mrg'[x].t, Near(tt) # {}, NEW c, c = mrg'[x].ch
               PROVE  hubChans'[c].n > 0 \/ \E i \in Streams : AboutToTell(i, c)'
    BY <1>1, <2>1, Zenon DEF WaitingWillBeTold
  <2>2. x # m /\ mrg'[x] = mrg[x] /\ Listens(x)
    BY <1>5, <1>6, Zenon DEF Listens
  <2>3. c \in Chans /\ c # ch /\ hubChans'[c] = hubChans[c]
    BY <1>9, <1>15, <2>2, ListenerListed, Zenon
  <2>4. hubChans[c].n > 0 \/ \E i \in Streams : AboutToTell(i, c)
    BY <2>2, Zenon DEF PvaInv, WaitingWillBeTold
  <2>5. ASSUME NEW i \in Streams, AboutToTell(i, c) PROVE AboutToTell(i, c)'
    <3>1. CASE ing[i].pc = "broadcast"
      BY <1>1, <3>1, Zenon DEF AboutToTell
    <3>2. ASSUME ing[i].pc = "send", NEW k \in ing[i].at .. ing[i].slice.len,
                 arrays[ing[i].slice.id][k] = c
          PROVE  AboutToTell(i, c)'
      <4>1. ing[i].slice.id = list.id => ing[i].slice.len <= list.len
        BY <3>2, Zenon DEF PvaInv, Walks
      <4>2. k \in 1 .. ing[i].slice.len
        <5>1. ing[i].at \in Nat \ {0} /\ ing[i].slice.len \in Nat
          BY <1>4, PvaParts, Zenon
        <5>2. ASSUME NEW a \in Nat \ {0}, NEW b \in Nat, NEW j \in a .. b PROVE j \in 1 .. b
          BY SMT
        <5> QED BY <3>2, <5>1, <5>2, Zenon
      <4>3. arrays'[ing[i].slice.id][k] = c
        BY <1>8, <1>11, <3>2, <4>1, <4>2, Zenon
      <4> QED BY <1>1, <3>2, <4>3, Zenon DEF AboutToTell
    <3> QED BY <2>5, <3>1, <3>2, Zenon DEF AboutToTell
  <2> QED BY <2>3, <2>4, <2>5, Zenon
<1> QED BY <1>10, <1>12, <1>13, <1>16, <1>18, <1>19, Zenon DEF PvaInv

\* Unsubscribe takes the channel out of the list; the slices in use still hold
\* channels.
LEMMA Unsubscribed ==
  ASSUME PvaInv, NEW ch \in Listening, Unsubscribe(ch)
  PROVE  /\ arrays' \in Seq(Seq(Slots)) /\ list' \in [id : Nat, len : Nat] /\ SliceOf(list', arrays')
         /\ Hub(arrays'[list'.id], list'.len, Listening \ {ch})
         /\ \A s \in [id : Nat, len : Nat] : SliceOf(s, arrays) => SliceOf(s, arrays')
<1> DEFINE a == arrays[list.id]
           n == list.len
           d == CHOOSE k \in 1 .. n : a[k] = ch
           b == Shift(a, d)
<1>1. /\ PvaTypes /\ arrays \in Seq(Seq(Slots)) /\ list \in [id : Nat, len : Nat]
      /\ SliceOf(list, arrays) /\ Hub(a, n, Listening)
  BY ListIsHub, Zenon DEF PvaInv, PvaTypes, Slices
<1>2. list.id \in 1 .. Len(arrays) /\ n \in 0 .. Len(a) /\ \A k \in 1 .. n : a[k] \in Chans
  BY <1>1, Zenon DEF SliceOf
<1>3. a \in Seq(Slots) /\ Len(arrays) \in Nat /\ Len(a) \in Nat /\ n \in Nat
  <2>1. a \in Seq(Slots) /\ Len(arrays) \in Nat
    BY <1>1, <1>2, SMT
  <2>2. Len(a) \in Nat
    BY <2>1, SMT
  <2> QED BY <1>1, <2>1, <2>2, Zenon
<1>4. d \in 1 .. n /\ a[d] = ch
  <2>1. \E k \in 1 .. n : a[k] = ch
    BY <1>1, Zenon DEF Hub
  <2> QED BY <2>1, Zenon
<1>5. arrays' = [arrays EXCEPT ![list.id] = b] /\ list' = [list EXCEPT !.len = n - 1]
  BY Zenon DEF Unsubscribe
<1>6. b = [i \in DOMAIN a |-> IF i \in d .. n - 1 THEN a[i + 1] ELSE a[i]]
  BY Zenon DEF Shift
<1> HIDE DEF d, b
<1>7. /\ b \in Seq(Slots) /\ Len(b) = Len(a)
      /\ \A i \in 1 .. Len(a) : b[i] = IF i \in d .. n - 1 THEN a[i + 1] ELSE a[i]
  <2> HIDE DEF a, n
  <2>1. DOMAIN a = 1 .. Len(a) /\ \A k \in 1 .. Len(a) : a[k] \in Slots
    BY <1>3, SMT
  <2>2. \A i \in 1 .. Len(a) : i \in d .. n - 1 => i + 1 \in 1 .. Len(a)
    BY <1>2, <1>3, <1>4, SMT
  <2>3. b \in [1 .. Len(a) -> Slots] /\ \A i \in 1 .. Len(a) : b[i] = IF i \in d .. n - 1 THEN a[i + 1] ELSE a[i]
    BY <1>6, <2>1, <2>2, Zenon
  <2>4. ASSUME NEW T, NEW x \in Nat, NEW g \in [1 .. x -> T] PROVE g \in Seq(T) /\ Len(g) = x
    BY SMT
  <2> QED BY <1>3, <2>3, <2>4, Zenon
<1>8. n - 1 \in Nat /\ n - 1 \in 0 .. Len(a) /\ \A k \in 1 .. n : k \in 1 .. Len(a)
  <2> HIDE DEF a, n
  <2> QED BY <1>2, <1>3, <1>4, SMT
<1>9. list' \in [id : Nat, len : Nat] /\ list'.id = list.id /\ list'.len = n - 1
  BY <1>1, <1>5, <1>8, Zenon
<1>10. /\ arrays' \in Seq(Seq(Slots)) /\ Len(arrays') = Len(arrays) /\ arrays'[list.id] = b
       /\ \A i \in 1 .. Len(arrays) : i # list.id => arrays'[i] = arrays[i]
  <2>1. /\ arrays \in Seq(Seq(Slots)) /\ list.id \in 1 .. Len(arrays) /\ b \in Seq(Slots)
        /\ arrays' = [arrays EXCEPT ![list.id] = b]
    BY <1>1, <1>2, <1>5, <1>7, Zenon
  <2> QED BY <2>1, Replaced
<1>11. ASSUME NEW k \in 1 .. Len(a), a[k] \in Chans PROVE b[k] \in Chans
  <2>1. CASE k \in d .. n - 1
    <3>1. k + 1 \in 1 .. n
      <4> HIDE DEF a, n
      <4> QED BY <1>3, <1>4, <2>1, SMT
    <3> QED BY <1>2, <1>7, <2>1, <3>1, Zenon
  <2> QED BY <1>7, <1>11, <2>1, Zenon
<1>12. ASSUME NEW s \in [id : Nat, len : Nat], SliceOf(s, arrays) PROVE SliceOf(s, arrays')
  <2>1. s.id \in 1 .. Len(arrays) /\ s.len \in 0 .. Len(arrays[s.id]) /\ s.len \in Nat
        /\ \A k \in 1 .. s.len : arrays[s.id][k] \in Chans
    BY <1>12, Zenon DEF SliceOf
  <2>2. CASE s.id # list.id
    <3>1. arrays'[s.id] = arrays[s.id]
      BY <1>10, <2>1, <2>2, Zenon
    <3> QED BY <1>10, <2>1, <3>1, Zenon DEF SliceOf
  <2>3. CASE s.id = list.id
    <3>1. arrays[s.id] = a /\ arrays'[s.id] = b /\ s.len \in 0 .. Len(b)
      BY <1>7, <1>10, <2>1, <2>3, Zenon
    <3>2. \A k \in 1 .. s.len : k \in 1 .. Len(a)
      <4>1. ASSUME NEW x \in Nat, NEW y \in 0 .. x, NEW k \in 1 .. y PROVE k \in 1 .. x
        BY SMT
      <4> QED BY <1>3, <2>1, <2>3, <4>1, Zenon
    <3>3. \A k \in 1 .. s.len : b[k] \in Chans
      BY <1>11, <2>1, <2>3, <3>2, Zenon
    <3> QED BY <1>10, <2>1, <3>1, <3>3, Zenon DEF SliceOf
  <2> QED BY <2>2, <2>3, Zenon
<1>13. SliceOf(list', arrays')
  <2>1. \A k \in 1 .. n - 1 : k \in 1 .. n
    <3> HIDE DEF n
    <3> QED BY <1>3, SMT
  <2>2. \A k \in 1 .. n - 1 : b[k] \in Chans
    BY <1>2, <1>8, <1>11, <2>1, Zenon
  <2> QED BY <1>2, <1>7, <1>8, <1>9, <1>10, <2>2, Zenon DEF SliceOf
<1>14. Hub(b, n - 1, Listening \ {ch})
  <2>1. PICK S : S = Listening
    OBVIOUS
  <2> HIDE DEF a, n
  <2>2. \A i \in 1 .. n : b[i] = IF i \in d .. n - 1 THEN a[i + 1] ELSE a[i]
    BY <1>7, <1>8, Zenon
  <2>3. Hub(b, n - 1, S \ {a[d]})
    BY <1>1, <1>3, <1>4, <2>1, <2>2, HubDrops, Zenon
  <2> QED BY <1>4, <2>1, <2>3, Zenon
<1> QED BY <1>9, <1>10, <1>12, <1>13, <1>14, Zenon

\* A merger leaves: the others keep their channels, and who waits is told unless
\* a Broadcast was walking the list.
LEMMA LeaveKeeps ==
  ASSUME PvaInv, NEW m \in Mergers, Listens(m), Unsubscribe(mrg[m].ch), ReturnFrame(m),
         data' = data, ing' = ing
  PROVE  PvaInv'
<1>1. PICK ch \in Chans : ch = mrg[m].ch /\ ch \in Listening
  BY ListenerListed, Zenon
<1>2. /\ Unsubscribe(ch) /\ mrg' = [mrg EXCEPT ![m] = NoCall]
      /\ hubChans' = [hubChans EXCEPT ![ch] = [n |-> 0, open |-> FALSE]]
      /\ shifted' = (shifted \/ \E i \in Streams : ing[i].pc = "send")
  BY <1>1, Zenon DEF Unsubscribe, ReturnFrame
<1>3. PvaTypes /\ Slices /\ Own
  BY Zenon DEF PvaInv
<1>4. /\ arrays' \in Seq(Seq(Slots)) /\ list' \in [id : Nat, len : Nat] /\ SliceOf(list', arrays')
      /\ Hub(arrays'[list'.id], list'.len, Listening \ {ch})
      /\ \A s \in [id : Nat, len : Nat] : SliceOf(s, arrays) => SliceOf(s, arrays')
  BY <1>1, <1>2, Unsubscribed, Zenon
<1>5. NoCall \in Calls /\ NoCall.pc = "idle"
  <2>1. 0 \in Int
    BY SMT
  <2> QED BY <2>1, Zenon DEF NoCall, Calls, Slots
<1>6. /\ mrg' \in [Mergers -> Calls] /\ mrg'[m] = NoCall
      /\ \A x \in Mergers : x # m => mrg'[x] = mrg[x]
  BY <1>2, <1>3, <1>5, Zenon DEF PvaTypes
<1>7. /\ hubChans' \in [Chans -> [n : Nat, open : BOOLEAN]] /\ ~hubChans'[ch].open
      /\ \A x \in Chans : x # ch => hubChans'[x] = hubChans[x]
  <2>1. 0 \in Nat
    BY SMT
  <2>2. [n |-> 0, open |-> FALSE] \in [n : Nat, open : BOOLEAN] /\ ~[n |-> 0, open |-> FALSE].open
    BY <2>1, Zenon
  <2> QED BY <1>2, <1>3, <2>2, Zenon DEF PvaTypes
<1>8. PvaTypes'
  BY <1>3, <1>4, <1>6, <1>7, Zenon DEF PvaTypes
<1>9. Slices'
  <2>1. \A i \in Streams : ing[i].slice \in [id : Nat, len : Nat] /\ SliceOf(ing[i].slice, arrays)
    BY <1>3, PvaParts, Zenon DEF Slices
  <2> QED BY <1>4, <2>1, Zenon DEF Slices
<1>10. ~shifted' => ~shifted /\ \A i \in Streams : ing[i].pc # "send"
  BY <1>2, Zenon
<1>11. Walks'
  BY <1>10, Zenon DEF Walks
<1>12. /\ ~Listens(m)'
       /\ \A x \in Mergers : x # m => (Listens(x)' <=> Listens(x)) /\ mrg'[x].ch = mrg[x].ch
  <2>1. ~Listens(m)'
    BY <1>5, <1>6, Zenon DEF Listens
  <2>2. \A x \in Mergers : x # m => (Listens(x)' <=> Listens(x)) /\ mrg'[x].ch = mrg[x].ch
    BY <1>6, Zenon DEF Listens
  <2> QED BY <2>1, <2>2, Zenon
<1>13. \A x \in Mergers : x # m /\ Listens(x) => mrg[x].ch # ch
  BY <1>1, <1>3, Zenon DEF Own
<1>14. Own'
  <2>1. \A x \in Mergers : mrg'[x].pc # "idle" => mrg'[x].t \in FrameTimes
    BY <1>3, <1>5, <1>6, Zenon DEF Own
  <2>2. \A x \in Mergers : Listens(x)' => mrg'[x].ch \in Chans
    BY <1>3, <1>12, Zenon DEF Own
  <2>3. \A x, o \in Mergers : Listens(x)' /\ Listens(o)' /\ mrg'[x].ch = mrg'[o].ch => x = o
    BY <1>3, <1>12, Zenon DEF Own
  <2> QED BY <2>1, <2>2, <2>3, Zenon DEF Own
<1>15. Listening' = Listening \ {ch}
  <2>1. ASSUME NEW c PROVE c \in Listening' <=> c \in Listening /\ c # ch
    <3>1. ASSUME c \in Listening' PROVE c \in Listening /\ c # ch
      <4>1. PICK x \in Mergers : Listens(x)' /\ mrg'[x].ch = c
        BY <3>1, WhoListens, Zenon
      <4>2. x # m /\ Listens(x) /\ mrg[x].ch = c
        BY <1>12, <4>1, Zenon
      <4> QED BY <1>13, <4>2, WhoListens, Zenon
    <3>2. ASSUME c \in Listening, c # ch PROVE c \in Listening'
      <4>1. PICK x \in Mergers : Listens(x) /\ mrg[x].ch = c
        BY <3>2, WhoListens, Zenon
      <4>2. Listens(x)' /\ mrg'[x].ch = c
        BY <1>1, <1>12, <3>2, <4>1, Zenon
      <4> QED BY <4>2, WhoListens, Zenon
    <3> QED BY <3>1, <3>2, Zenon
  <2> QED BY <2>1, Zenon
<1>16. SubscribersListen'
  <2>1. \A x : x \in Listening <=> x \in Chans /\ hubChans[x].open
    BY ListIsHub, Zenon DEF PvaInv
  <2>2. \A x : x \in Listening' <=> x \in Chans /\ hubChans'[x].open
    BY <1>7, <1>15, <2>1, Zenon
  <2>3. Hub(arrays'[list'.id], list'.len, Listening')
    BY <1>4, <1>15, Zenon
  <2> QED BY <2>2, <2>3, ListIsHub, Zenon
<1>17. WaitingWillBeTold'
  <2>1. \A tt : Near(tt)' = Near(tt)
    BY Zenon DEF Near
  <2> SUFFICES ASSUME NEW x \in Mergers, mrg'[x].pc = "wait", ~shifted',
                      NEW tt, tt = mrg'[x].t, Near(tt) # {}, NEW c, c = mrg'[x].ch
               PROVE  hubChans'[c].n > 0 \/ \E i \in Streams : AboutToTell(i, c)'
    BY <2>1, Zenon DEF WaitingWillBeTold
  <2>2. x # m /\ mrg'[x] = mrg[x] /\ Listens(x)
    BY <1>5, <1>6, Zenon DEF Listens
  <2>3. c \in Chans /\ c # ch /\ hubChans'[c] = hubChans[c]
    BY <1>7, <1>13, <2>2, ListenerListed, Zenon
  <2>4. hubChans[c].n > 0 \/ \E i \in Streams : AboutToTell(i, c)
    BY <1>10, <2>2, Zenon DEF PvaInv, WaitingWillBeTold
  <2>5. ASSUME NEW i \in Streams, AboutToTell(i, c) PROVE AboutToTell(i, c)'
    BY <1>10, <2>5, Zenon DEF AboutToTell
  <2> QED BY <2>3, <2>4, <2>5, Zenon
<1> QED BY <1>8, <1>9, <1>11, <1>14, <1>16, <1>17, Zenon DEF PvaInv

\* The second lookup: a merger waits only if its result is not in the store.
LEMMA RecheckKeeps ==
  ASSUME PvaInv, NEW m \in Mergers, Recheck(m)
  PROVE  PvaInv'
<1>1. mrg[m].pc = "recheck" /\ Listens(m) /\ data' = data /\ ing' = ing
  BY Zenon DEF Recheck, Listens
<1>2. CASE Lookup(mrg[m].t) # {}
  BY <1>1, <1>2, LeaveKeeps, Zenon DEF Recheck
<1>3. CASE Lookup(mrg[m].t) = {}
  <2> DEFINE r == [mrg[m] EXCEPT !.pc = "wait"]
  <2>1. /\ mrg' = [mrg EXCEPT ![m] = r] /\ arrays' = arrays /\ list' = list /\ hubChans' = hubChans
        /\ shifted' = shifted
    BY <1>3, Zenon DEF Recheck
  <2>2. PvaTypes /\ mrg[m] \in Calls /\ Near(mrg[m].t) = {}
    BY <1>3, PvaParts, NearestFound, Zenon DEF PvaInv
  <2>3. r \in Calls /\ r.pc = "wait" /\ r.t = mrg[m].t /\ r.ch = mrg[m].ch
    BY <2>2, Zenon DEF Calls
  <2> HIDE DEF r
  <2>4. /\ mrg' \in [Mergers -> Calls] /\ mrg'[m] = r
        /\ \A x \in Mergers : x # m => mrg'[x] = mrg[x]
    BY <2>1, <2>2, <2>3, Zenon DEF PvaTypes
  <2>5. PvaTypes'
    BY <1>1, <2>1, <2>2, <2>4, Zenon DEF PvaTypes
  <2>6. Slices' /\ Walks'
    BY <1>1, <2>1, Zenon DEF PvaInv, Slices, Walks
  <2>7. ASSUME NEW x \in Mergers
        PROVE  /\ Listens(x)' <=> Listens(x)
               /\ mrg'[x].ch = mrg[x].ch /\ mrg'[x].t = mrg[x].t
               /\ mrg'[x].pc # "idle" => mrg[x].pc # "idle"
    <3>1. CASE x = m
      BY <1>1, <2>3, <2>4, <3>1, Zenon DEF Listens
    <3>2. CASE x # m
      BY <2>4, <3>2, Zenon DEF Listens
    <3> QED BY <3>1, <3>2, Zenon
  <2>8. Own'
    BY <2>7, Zenon DEF PvaInv, Own
  <2>9. Listening' = Listening
    <3>1. ASSUME NEW c PROVE c \in Listening' => c \in Listening
      BY <2>7, WhoListens, Zenon
    <3>2. ASSUME NEW c PROVE c \in Listening => c \in Listening'
      BY <2>7, WhoListens, Zenon
    <3> QED BY <3>1, <3>2, Zenon
  <2>10. SubscribersListen'
    <3>1. SubscribersListen
      BY Zenon DEF PvaInv
    <3> QED BY <2>1, <2>9, <3>1 DEF SubscribersListen
  <2>11. WaitingWillBeTold'
    <3>1. \A tt : Near(tt)' = Near(tt)
      BY <1>1, Zenon DEF Near
    <3> SUFFICES ASSUME NEW x \in Mergers, mrg'[x].pc = "wait", ~shifted,
                        NEW tt, tt = mrg'[x].t, Near(tt) # {}, NEW c, c = mrg'[x].ch
                 PROVE  hubChans[c].n > 0 \/ \E i \in Streams : AboutToTell(i, c)'
      BY <2>1, <3>1, Zenon DEF WaitingWillBeTold
    <3>2. x # m /\ mrg'[x] = mrg[x]
      BY <2>2, <2>4, <2>7, Zenon
    <3>3. \A i \in Streams : AboutToTell(i, c) => AboutToTell(i, c)'
      BY <1>1, <2>1, Zenon DEF AboutToTell
    <3> QED BY <3>2, <3>3, Zenon DEF PvaInv, WaitingWillBeTold
  <2> QED BY <2>5, <2>6, <2>8, <2>10, <2>11, Zenon DEF PvaInv
<1> QED BY <1>2, <1>3, Zenon

\* A merger is told: it leaves with its result, or waits on because there is none.
LEMMA ToldKeeps ==
  ASSUME PvaInv, NEW m \in Mergers, Told(m)
  PROVE  PvaInv'
<1>1. /\ mrg[m].pc = "wait" /\ Listens(m) /\ data' = data /\ ing' = ing
      /\ hubChans[mrg[m].ch].n > 0
  BY Zenon DEF Told, Listens
<1>2. CASE Lookup(mrg[m].t) # {}
  BY <1>1, <1>2, LeaveKeeps, Zenon DEF Told
<1>3. CASE Lookup(mrg[m].t) = {}
  <2>1. PICK ch \in Chans : ch = mrg[m].ch
    BY <1>1, ListenerListed, Zenon
  <2> DEFINE r == [hubChans[ch] EXCEPT !.n = hubChans[ch].n - 1]
  <2>2. /\ hubChans' = [hubChans EXCEPT ![ch] = r] /\ arrays' = arrays /\ list' = list /\ mrg' = mrg
        /\ shifted' = shifted
    BY <1>3, <2>1, Zenon DEF Told
  <2>3. PvaTypes /\ Near(mrg[m].t) = {} /\ Own
    BY <1>3, PvaParts, NearestFound, Zenon DEF PvaInv
  <2>4. hubChans[ch] \in [n : Nat, open : BOOLEAN] /\ hubChans[ch].n \in Nat
    BY <2>3, PvaParts, Zenon
  <2>5. hubChans[ch].n - 1 \in Nat
    <3>1. ASSUME NEW a \in Nat, a > 0 PROVE a - 1 \in Nat
      BY <3>1, SMT
    <3> QED BY <1>1, <2>1, <2>4, <3>1, Zenon
  <2>6. r \in [n : Nat, open : BOOLEAN] /\ (r.open <=> hubChans[ch].open)
    BY <2>4, <2>5, Zenon
  <2> HIDE DEF r
  <2>7. /\ hubChans' \in [Chans -> [n : Nat, open : BOOLEAN]] /\ hubChans'[ch] = r
        /\ \A x \in Chans : x # ch => hubChans'[x] = hubChans[x]
    BY <2>2, <2>3, <2>6, Zenon DEF PvaTypes
  <2>8. PvaTypes'
    BY <1>1, <2>2, <2>3, <2>7, Zenon DEF PvaTypes
  <2>9. Slices' /\ Walks'
    BY <1>1, <2>2, Zenon DEF PvaInv, Slices, Walks
  <2>10. \A x \in Chans : hubChans'[x].open <=> hubChans[x].open
    BY <2>6, <2>7, Zenon
  <2>11. Own' /\ SubscribersListen'
    BY <2>2, <2>10, HubStays, Zenon
  <2>12. WaitingWillBeTold'
    <3>1. \A tt : Near(tt)' = Near(tt)
      BY <1>1, Zenon DEF Near
    <3> SUFFICES ASSUME NEW x \in Mergers, mrg[x].pc = "wait", ~shifted, Near(mrg[x].t) # {},
                        NEW c, c = mrg[x].ch
                 PROVE  hubChans'[c].n > 0 \/ \E i \in Streams : AboutToTell(i, c)'
      BY <2>2, <3>1, Zenon DEF WaitingWillBeTold
    <3>2. x # m /\ Listens(x)
      BY <2>3, Zenon DEF Listens
    <3>3. c \in Chans /\ c # ch
      BY <1>1, <2>1, <2>3, <3>2, Zenon DEF Own
    <3>4. hubChans[c].n > 0 \/ \E i \in Streams : AboutToTell(i, c)
      BY Zenon DEF PvaInv, WaitingWillBeTold
    <3>5. \A i \in Streams : AboutToTell(i, c) => AboutToTell(i, c)'
      BY <1>1, <2>2, Zenon DEF AboutToTell
    <3> QED BY <2>7, <3>3, <3>4, <3>5, Zenon
  <2> QED BY <2>8, <2>9, <2>11, <2>12, Zenon DEF PvaInv
<1> QED BY <1>2, <1>3, Zenon

\* Nothing is stored and no one listens.
LEMMA PvaBegins == PvaInit => PvaInv
<1> SUFFICES ASSUME PvaInit PROVE PvaInv
  OBVIOUS
<1>1. /\ data = <<>> /\ arrays = <<<<>>>> /\ list = [id |-> 1, len |-> 0]
      /\ hubChans = [ch \in Chans |-> [n |-> 0, open |-> FALSE]]
      /\ ing = [i \in Streams |-> NoHandle] /\ mrg = [m \in Mergers |-> NoCall] /\ ~shifted
  BY Zenon DEF PvaInit
<1>2. 0 \in Nat /\ 1 \in Nat /\ 1 \in Nat \ {0} /\ 0 \in Int /\ 1 .. 0 = {}
  BY SMT
<1>3. NoHandle \in Handles /\ NoHandle.pc = "idle" /\ NoHandle.slice = list
  BY <1>1, <1>2, Zenon DEF NoHandle, Handles
<1>4. NoCall \in Calls /\ NoCall.pc = "idle"
  BY <1>2, Zenon DEF NoCall, Calls, Slots
<1>5. data \in Seq(Int) /\ Sorted(data)
  BY <1>1, SMT DEF Sorted
<1>6. arrays \in Seq(Seq(Slots)) /\ SliceOf(list, arrays)
  <2>1. <<<<>>>> \in Seq(Seq(Slots)) /\ 1 \in 1 .. Len(<<<<>>>>) /\ 0 \in 0 .. Len(<<<<>>>>[1])
    BY SMT
  <2> QED BY <1>1, <1>2, <2>1, Zenon DEF SliceOf
<1>7. PvaTypes
  <2>1. list \in [id : Nat, len : Nat]
    BY <1>1, <1>2, Zenon
  <2>2. hubChans \in [Chans -> [n : Nat, open : BOOLEAN]]
    BY <1>1, <1>2, Zenon
  <2>3. ing \in [Streams -> Handles] /\ mrg \in [Mergers -> Calls]
    BY <1>1, <1>3, <1>4, Zenon
  <2> QED BY <1>5, <1>6, <2>1, <2>2, <2>3, Zenon DEF PvaTypes
<1>8. (\A i \in Streams : ing[i] = NoHandle) /\ (\A m \in Mergers : mrg[m] = NoCall)
  BY <1>1, Zenon
<1>9. Slices
  BY <1>3, <1>6, <1>8, Zenon DEF Slices
<1>10. Walks
  BY <1>3, <1>8, Zenon DEF Walks
<1>11. Own /\ WaitingWillBeTold
  BY <1>4, <1>8, Zenon DEF Own, Listens, WaitingWillBeTold
<1>12. \A c : c \notin Listening
  BY <1>4, <1>8, WhoListens, Zenon DEF Listens
<1>13. SubscribersListen
  <2>1. list.len = 0 /\ \A ch \in Chans : ~hubChans[ch].open
    BY <1>1, Zenon
  <2>2. Hub(arrays[list.id], list.len, Listening)
    BY <1>2, <1>12, <2>1, Zenon DEF Hub
  <2> QED BY <1>12, <2>1, <2>2, ListIsHub, Zenon
<1> QED BY <1>7, <1>9, <1>10, <1>11, <1>13, Zenon DEF PvaInv

\* Every step of Handle and of ReadPacket keeps the invariant.
LEMMA PvaStep == PvaInv /\ [PvaNext]_pvaVars => PvaInv'
<1> SUFFICES ASSUME PvaInv, [PvaNext]_pvaVars PROVE PvaInv'
  OBVIOUS
<1>1. ASSUME NEW i \in Streams, NEW t \in Times, NEW c \in Cutoffs, HandlePut(i, t, c) PROVE PvaInv'
  BY <1>1, HandlePutKeeps, Zenon
<1>2. ASSUME NEW i \in Streams, Broadcast(i) PROVE PvaInv'
  BY <1>2, BroadcastKeeps, Zenon
<1>3. ASSUME NEW i \in Streams, SendTo(i) PROVE PvaInv'
  BY <1>3, SendToKeeps, Zenon
<1>4. ASSUME NEW m \in Mergers, NEW t \in FrameTimes, Fetch(m, t) PROVE PvaInv'
  BY <1>4, FetchKeeps, Zenon
<1>5. ASSUME NEW m \in Mergers, Listen(m) PROVE PvaInv'
  BY <1>5, ListenKeeps, Zenon
<1>6. ASSUME NEW m \in Mergers, Recheck(m) PROVE PvaInv'
  BY <1>6, RecheckKeeps, Zenon
<1>7. ASSUME NEW m \in Mergers, Told(m) PROVE PvaInv'
  BY <1>7, ToldKeeps, Zenon
<1>8. ASSUME NEW m \in Mergers, Expire(m) PROVE PvaInv'
  BY <1>8, LeaveKeeps, Zenon DEF Expire, Listens
<1>9. ASSUME UNCHANGED pvaVars PROVE PvaInv'
  <2>1. /\ data' = data /\ arrays' = arrays /\ list' = list /\ hubChans' = hubChans /\ ing' = ing
        /\ mrg' = mrg /\ shifted' = shifted
    BY <1>9, Zenon DEF pvaVars
  <2>2. Own' /\ SubscribersListen'
    BY <2>1, HubStays, Zenon
  <2>3. PvaTypes' /\ Slices' /\ Walks'
    BY <2>1, Zenon DEF PvaInv, PvaTypes, Slices, Walks
  <2>4. WaitingWillBeTold'
    BY <2>1, ZenonT(60) DEF PvaInv, WaitingWillBeTold, Near, AboutToTell
  <2> QED BY <2>2, <2>3, <2>4, Zenon DEF PvaInv
<1> QED BY <1>1, <1>2, <1>3, <1>4, <1>5, <1>6, <1>7, <1>8, <1>9, Zenon DEF PvaNext

\* A frame gets the nearest result within the tolerance: the sorted store finds
\* it (Put, lookup), a merger that waits is told of it or about to be (Handle,
\* Broadcast, ReadPacket), and the hub's slice holds the channels of those that
\* listen, once each, through every append and every shift in place.
THEOREM FramesFind == PvaSpec => []FramesFindResults
<1>1. PvaInv => FramesFindResults
  <2> SUFFICES ASSUME PvaInv PROVE FramesFindResults
    OBVIOUS
  <2>1. \A t \in Times \cup FrameTimes : t \in Int
    BY PvaAssumption, Zenon DEF Clocks
  <2>2. LookupIsNearest
    BY <2>1, NearestFound, Zenon DEF PvaInv, LookupIsNearest
  <2> QED BY <2>2, Zenon DEF PvaInv, FramesFindResults
<1> QED BY <1>1, PvaBegins, PvaStep, PTL DEF PvaSpec
=============================================================================
