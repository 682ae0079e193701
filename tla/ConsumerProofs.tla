---------------------------- MODULE ConsumerProofs ----------------------------
(***************************************************************************)
(* Proofs about Consumer, for any number of closers, packets and muxers,   *)
(* any queue size and any combination of failures.                         *)
(***************************************************************************)
EXTENDS Consumer, SequenceTheorems, TLAPS

Early   == gpc \in {"none", "headers", "open", "init"}
Holding == gpc \in {"change", "write", "rotOpen", "rotInit", "rotWrite"}

\* A Close past its CAS has set the flag, and only Start spawns the goroutine.
CloseInv == /\ \A k \in Closers : cpc[k] # "idle" => closing
            /\ spc # "started" => gpc = "none"
            /\ CloseIsFinal

\* The queue holds the packets that follow those taken.
QueueInv == /\ Len(queue) <= sent
            /\ \A i \in 1 .. Len(queue) : queue[i].n = Taken + i

\* What was taken was accepted, but for the packet in hand.
AccInv == /\ Early => Len(acc) = 0 /\ Taken = 0
          /\ gpc = "loop" => Len(acc) = Taken
          /\ Holding => Len(acc) + 1 = Taken /\ pkt.n = Taken
          /\ \A i \in 1 .. Len(acc) : acc[i].n = i /\ acc[i].m <= cur
          /\ \A i, j \in 1 .. Len(acc) : i < j => acc[i].m <= acc[j].m

\* Headers are there before a muxer is opened.
HdrInv == /\ hch \in {"sent", "drained"} => headers # 0
          /\ gpc \notin {"none", "headers", "finish", "remove", "exit"} => headers # 0
          /\ gpc = "change" => pkt.codecs # 0

Finalised(m) == mux[m].trailers > 0 /\ mux[m].closes > 0
Fresh(m)     == mux[m].trailers = 0 /\ mux[m].closes = 0

\* Which muxers are finalised, by the place where the goroutine is.
MuxInv == /\ gpc \in {"none", "headers", "open"} => Len(mux) = 0
          /\ gpc = "init" => Len(mux) = 1 /\ Fresh(1)
          /\ gpc \in {"loop", "change", "write", "rotOpen"} => cur = Len(mux) /\ cur >= 1
          /\ gpc \in {"loop", "change", "write"} => Fresh(cur) /\ mux[cur].hdr # 0
          /\ gpc \in {"rotInit", "rotWrite"} => cur = Len(mux) - 1 /\ cur >= 1 /\ Fresh(Len(mux))
          /\ gpc = "rotWrite" => mux[Len(mux)].hdr # 0
          /\ gpc = "rotOpen" => Finalised(cur)
          /\ gpc = "close" => cur >= 1 /\ \A m \in Muxers : m # cur => Finalised(m)
          /\ gpc \in {"finish", "remove", "exit"} => \A m \in Muxers : Finalised(m)
          /\ \A m \in Muxers : m # Len(mux) => Finalised(m)

RemoveInv == removed = IF gpc = "exit" THEN 1 ELSE 0

IInv == /\ TypeOK /\ CloseInv /\ QueueInv /\ AccInv /\ HdrInv /\ MuxInv /\ RemoveInv

-----------------------------------------------------------------------------
(* What the steps do to the sequences. *)

\* closeMuxer adds a trailer and a close to one muxer.
LEMMA ClosedMuxer ==
  ASSUME mux \in Seq(MuxRec), NEW m \in Muxers
  PROVE  /\ Closed(m) \in Seq(MuxRec) /\ Len(Closed(m)) = Len(mux)
         /\ Closed(m)[m].hdr = mux[m].hdr
         /\ Closed(m)[m].trailers = mux[m].trailers + 1
         /\ Closed(m)[m].closes = mux[m].closes + 1
         /\ \A j \in Muxers : j # m => Closed(m)[j] = mux[j]
  <1> DEFINE r == [hdr |-> mux[m].hdr, trailers |-> mux[m].trailers + 1,
                   closes |-> mux[m].closes + 1]
  <1>1. mux[m] \in MuxRec /\ m \in 1 .. Len(mux)
    BY ElementOfSeq DEF Muxers
  <1>2. /\ r \in MuxRec /\ r.hdr = mux[m].hdr
        /\ r.trailers = mux[m].trailers + 1 /\ r.closes = mux[m].closes + 1
    BY <1>1, SMTT(40) DEF MuxRec
  <1>3. Closed(m) = [mux EXCEPT ![m] = r]
    BY <1>1 DEF Closed
  <1> HIDE DEF r
  <1>4. /\ Closed(m) \in Seq(MuxRec) /\ Len(Closed(m)) = Len(mux)
        /\ \A j \in 1 .. Len(mux) : Closed(m)[j] = IF j = m THEN r ELSE mux[j]
    BY <1>1, <1>2, <1>3, ExceptSeq
  <1> QED
    BY <1>1, <1>2, <1>4 DEF Muxers

\* WriteHeader and WriteCodecChange give one muxer its codecs.
LEMMA WithHeader ==
  ASSUME mux \in Seq(MuxRec), NEW m \in Muxers, NEW h \in Nat,
         NEW w, w = [mux EXCEPT ![m].hdr = h]
  PROVE  /\ w \in Seq(MuxRec) /\ Len(w) = Len(mux)
         /\ w[m].hdr = h /\ w[m].trailers = mux[m].trailers /\ w[m].closes = mux[m].closes
         /\ \A j \in Muxers : j # m => w[j] = mux[j]
  <1> DEFINE r == [mux[m] EXCEPT !.hdr = h]
  <1>1. mux[m] \in MuxRec /\ m \in 1 .. Len(mux)
    BY ElementOfSeq DEF Muxers
  <1>2. /\ r \in MuxRec /\ r.hdr = h
        /\ r.trailers = mux[m].trailers /\ r.closes = mux[m].closes
    BY <1>1 DEF MuxRec
  <1>3. w = [mux EXCEPT ![m] = r]
    BY <1>1
  <1> HIDE DEF r
  <1>4. /\ w \in Seq(MuxRec) /\ Len(w) = Len(mux)
        /\ \A j \in 1 .. Len(mux) : w[j] = IF j = m THEN r ELSE mux[j]
    BY <1>1, <1>2, <1>3, ExceptSeq
  <1> QED
    BY <1>1, <1>2, <1>4 DEF Muxers

\* A muxer just created.
LEMMA NewMuxer ==
  ASSUME mux \in Seq(MuxRec)
  PROVE  /\ Append(mux, Opened) \in Seq(MuxRec)
         /\ Len(Append(mux, Opened)) = Len(mux) + 1
         /\ Append(mux, Opened)[Len(mux) + 1] = Opened
         /\ \A j \in Muxers : Append(mux, Opened)[j] = mux[j]
  <1>1. Opened \in MuxRec
    BY DEF Opened, MuxRec
  <1> QED
    BY <1>1, AppendProperties DEF Muxers

\* A packet put on a muxer's stream.
LEMMA Accepted ==
  ASSUME acc \in Seq(AccRec), pkt \in Packet, NEW m \in Nat, Accept(m)
  PROVE  /\ acc' \in Seq(AccRec) /\ Len(acc') = Len(acc) + 1
         /\ acc'[Len(acc) + 1] = [n |-> pkt.n, m |-> m]
         /\ \A i \in 1 .. Len(acc) : acc'[i] = acc[i]
  <1>1. [n |-> pkt.n, m |-> m] \in AccRec
    BY DEF AccRec, Packet
  <1>2. acc' = Append(acc, [n |-> pkt.n, m |-> m])
    BY DEF Accept
  <1> QED
    BY <1>1, <1>2, AppendProperties

-----------------------------------------------------------------------------
(* The inductive step: IInv is preserved by every action. *)

\* Start, Close and the headers leave packets and muxers alone.
LEMMA LifecyclePreserves ==
  ASSUME IInv,
         \/ StartCheck
         \/ StartSpawn
         \/ RelayCancel
         \/ WriteHeader
         \/ WriteNoHeader
         \/ \E k \in Closers : CloseFlag(k)
         \/ \E k \in Closers : CloseCancel(k)
         \/ \E k \in Closers : CloseReturn(k)
  PROVE  IInv'
  <1> USE DEF IInv, TypeOK, CloseInv, CloseIsFinal, QueueInv, Taken, AccInv, Early, Holding,
              HdrInv, MuxInv, Muxers, Fresh, Finalised, RemoveInv, Packet, NoPkt,
              lifeVars, feedVars, muxVars
  <1>1. CASE StartCheck
    BY <1>1 DEF StartCheck
  <1>2. CASE StartSpawn
    BY <1>2 DEF StartSpawn
  <1>3. CASE RelayCancel
    BY <1>3 DEF RelayCancel
  <1>4. CASE WriteHeader
    BY <1>4 DEF WriteHeader
  <1>5. CASE WriteNoHeader
    BY <1>5 DEF WriteNoHeader, SetLastError
  <1>6. CASE \E k \in Closers : CloseFlag(k)
    BY <1>6 DEF CloseFlag
  <1>7. CASE \E k \in Closers : CloseCancel(k)
    BY <1>7 DEF CloseCancel
  <1>8. CASE \E k \in Closers : CloseReturn(k)
    BY <1>8 DEF CloseReturn
  <1> QED
    BY <1>1, <1>2, <1>3, <1>4, <1>5, <1>6, <1>7, <1>8

\* So do the steps of the goroutine that only move on.
LEMMA ControlPreserves ==
  ASSUME IInv,
         \/ HeadersArrive
         \/ HeadersNever
         \/ OpenFails
         \/ LoopDone
         \/ ChangeFails
         \/ WriteFails
         \/ Finish
         \/ Remove
  PROVE  IInv'
  <1> USE DEF IInv, TypeOK, CloseInv, CloseIsFinal, QueueInv, Taken, AccInv, Early, Holding,
              HdrInv, MuxInv, Muxers, Fresh, Finalised, RemoveInv, Packet, NoPkt,
              lifeVars, feedVars, muxVars
  <1>1. CASE HeadersArrive
    BY <1>1 DEF HeadersArrive
  <1>2. CASE HeadersNever
    BY <1>2 DEF HeadersNever
  <1>3. CASE OpenFails
    BY <1>3 DEF OpenFails, SetLastError, ErrorExit
  <1>4. CASE LoopDone
    BY <1>4 DEF LoopDone
  <1>5. CASE ChangeFails
    BY <1>5 DEF ChangeFails, SetLastError
  <1>6. CASE WriteFails
    BY <1>6 DEF WriteFails, SetLastError
  <1>7. CASE Finish
    BY <1>7 DEF Finish
  <1>8. CASE Remove
    BY <1>8 DEF Remove
  <1> QED
    BY <1>1, <1>2, <1>3, <1>4, <1>5, <1>6, <1>7, <1>8

\* A packet is appended with the next number.
LEMMA WritePacketPreserves ==
  ASSUME IInv, NEW change \in BOOLEAN, WritePacket(change)
  PROVE  IInv'
  <1> DEFINE p == [n |-> sent + 1, codecs |-> IF change THEN sent + 2 ELSE 0]
  <1>1. p \in Packet /\ p.n = sent + 1
    BY DEF IInv, TypeOK, Packet
  <1>2. queue' = Append(queue, p) /\ sent' = sent + 1
    BY DEF WritePacket
  <1> HIDE DEF p
  <1>3. /\ queue' \in Seq(Packet) /\ Len(queue') = Len(queue) + 1
        /\ queue'[Len(queue) + 1] = p
        /\ \A i \in 1 .. Len(queue) : queue'[i] = queue[i]
    BY <1>1, <1>2, AppendProperties DEF IInv, TypeOK
  <1>4. Taken' = Taken /\ Len(queue) \in Nat /\ Len(queue') \in Nat
    BY <1>2, <1>3 DEF Taken, IInv, TypeOK
  <1>5. TypeOK'
    BY <1>2, <1>3 DEF IInv, TypeOK, WritePacket, lifeVars, muxVars
  <1>6. QueueInv'
    <2>1. Len(queue') <= sent'
      BY <1>2, <1>3, <1>4 DEF IInv, TypeOK, QueueInv
    <2>2. ASSUME NEW i \in 1 .. Len(queue')
          PROVE  queue'[i].n = Taken' + i
      <3>1. CASE i = Len(queue) + 1
        BY <1>1, <1>2, <1>3, <3>1 DEF IInv, TypeOK, QueueInv, Taken
      <3>2. CASE i # Len(queue) + 1
        BY <1>3, <1>4, <3>2 DEF IInv, QueueInv
      <3> QED
        BY <3>1, <3>2
    <2> QED
      BY <2>1, <2>2 DEF QueueInv
  <1>7. AccInv'
    BY <1>4 DEF IInv, AccInv, Early, Holding, WritePacket, lifeVars, muxVars
  <1>8. CloseInv' /\ HdrInv' /\ MuxInv' /\ RemoveInv'
    BY DEF IInv, CloseInv, CloseIsFinal, HdrInv, MuxInv, Muxers, Fresh, Finalised, RemoveInv,
           WritePacket, lifeVars, muxVars
  <1> QED
    BY <1>5, <1>6, <1>7, <1>8 DEF IInv

\* The goroutine takes the packet after the last one accepted.
LEMMA TakePreserves ==
  ASSUME IInv, Take
  PROVE  IInv'
  <1>1. /\ pkt' = queue[1] /\ pkt' \in Packet
        /\ queue' \in Seq(Packet) /\ Len(queue') = Len(queue) - 1 /\ Len(queue) \in Nat \ {0}
        /\ \A i \in 1 .. Len(queue') : queue'[i] = queue[i + 1]
    BY HeadTailProperties DEF IInv, TypeOK, Take
  <1>2. Taken' = Taken + 1
    BY <1>1 DEF Taken, Take, IInv, TypeOK
  <1>3. pkt'.n = Taken + 1 /\ gpc = "loop" /\ gpc' \in {"change", "write"}
    BY <1>1 DEF Take, IInv, QueueInv
  <1>4. TypeOK'
    BY <1>1, <1>3 DEF IInv, TypeOK, Take, Packet, lifeVars, muxVars
  <1>5. QueueInv'
    <2>1. Len(queue') <= sent'
      BY <1>1 DEF IInv, TypeOK, QueueInv, Take
    <2>2. ASSUME NEW i \in 1 .. Len(queue')
          PROVE  queue'[i].n = Taken' + i
      <3>1. i + 1 \in 1 .. Len(queue)
        BY <1>1
      <3>2. queue'[i] = queue[i + 1] /\ queue[i + 1].n = Taken + (i + 1)
        BY <1>1, <3>1 DEF IInv, QueueInv
      <3>3. Taken \in Int
        BY <1>1 DEF IInv, TypeOK, Taken
      <3> QED
        BY <1>2, <3>2, <3>3
    <2> QED
      BY <2>1, <2>2 DEF QueueInv
  <1>6. AccInv'
    <2>1. Len(acc) = Taken /\ acc' = acc /\ cur' = cur
      BY <1>3 DEF IInv, AccInv, Take, muxVars
    <2> QED
      BY <1>2, <1>3, <2>1 DEF IInv, AccInv, Early, Holding
  <1>7. CloseInv' /\ HdrInv' /\ MuxInv' /\ RemoveInv'
    BY <1>3, Zenon DEF IInv, CloseInv, CloseIsFinal, HdrInv, MuxInv, Muxers, Fresh, Finalised, RemoveInv,
                Take, lifeVars, muxVars
  <1> QED
    BY <1>4, <1>5, <1>6, <1>7 DEF IInv

\* The current muxer accepts the packet in hand.
LEMMA WriteMuxerPreserves ==
  ASSUME IInv, WriteMuxer
  PROVE  IInv'
  <1>1. /\ cur \in Nat /\ cur <= cur /\ pkt \in Packet
        /\ Accept(cur) /\ pkt' = NoPkt /\ gpc' = "loop"
        /\ cur' = cur
    BY DEF IInv, TypeOK, MuxInv, WriteMuxer
  <1>2. /\ acc' \in Seq(AccRec) /\ Len(acc') = Len(acc) + 1 /\ Len(acc) \in Nat
        /\ acc'[Len(acc) + 1] = [n |-> pkt.n, m |-> cur]
        /\ \A i \in 1 .. Len(acc) : acc'[i] = acc[i]
    BY <1>1, Accepted DEF IInv, TypeOK
  <1>3. pkt.n = Len(acc) + 1 /\ Len(acc) + 1 = Taken /\ Taken' = Taken
    BY DEF IInv, AccInv, Holding, WriteMuxer, Taken, feedVars
  <1>4. TypeOK'
    BY <1>1, <1>2 DEF IInv, TypeOK, WriteMuxer, Packet, NoPkt, lifeVars, feedVars
  <1>5. AccInv'
    <2>1. ASSUME NEW i \in 1 .. Len(acc')
          PROVE  acc'[i].n = i /\ acc'[i].m <= cur /\ (i <= Len(acc) => acc'[i] = acc[i])
      <3>1. CASE i = Len(acc) + 1
        BY <1>1, <1>2, <1>3, <3>1
      <3>2. CASE i # Len(acc) + 1
        <4>1. i \in 1 .. Len(acc)
          BY <1>2, <3>2
        <4>2. acc'[i] = acc[i] /\ acc[i] \in AccRec /\ acc[i].n = i /\ acc[i].m <= cur
          BY <1>2, <4>1, ElementOfSeq, Zenon DEF IInv, TypeOK, AccInv
        <4> QED
          BY <1>1, <4>2 DEF AccRec, IInv, TypeOK
      <3> QED
        BY <3>1, <3>2
    <2>2. ASSUME NEW i \in 1 .. Len(acc'), NEW j \in 1 .. Len(acc'), i < j
          PROVE  acc'[i].m <= acc'[j].m
      <3>1. CASE j = Len(acc) + 1
        BY <1>2, <2>1, <3>1
      <3>2. CASE j # Len(acc) + 1
        <4>1. i \in 1 .. Len(acc) /\ j \in 1 .. Len(acc)
          BY <1>2, <2>2, <3>2
        <4> QED
          BY <1>2, <2>2, <4>1 DEF IInv, AccInv
      <3> QED
        BY <3>1, <3>2
    <2> QED
      BY <1>1, <1>2, <1>3, <2>1, <2>2 DEF AccInv, Early, Holding
  <1>6. QueueInv'
    BY <1>3 DEF IInv, QueueInv, WriteMuxer, feedVars
  <1>7. CloseInv' /\ HdrInv' /\ MuxInv' /\ RemoveInv'
    BY Zenon DEF IInv, TypeOK, CloseInv, CloseIsFinal, HdrInv, MuxInv, Muxers, Fresh, Finalised,
           RemoveInv,
           WriteMuxer, lifeVars, feedVars
  <1> QED
    BY <1>4, <1>5, <1>6, <1>7 DEF IInv

\* After a rotation it is the new muxer that accepts it.
LEMMA RotateWritePreserves ==
  ASSUME IInv, RotateWrite
  PROVE  IInv'
  <1>1. /\ Len(mux) \in Nat /\ cur <= Len(mux) /\ pkt \in Packet
        /\ Accept(Len(mux)) /\ pkt' = NoPkt /\ gpc' = "loop"
        /\ cur' = Len(mux)
    BY DEF IInv, TypeOK, MuxInv, RotateWrite
  <1>2. /\ acc' \in Seq(AccRec) /\ Len(acc') = Len(acc) + 1 /\ Len(acc) \in Nat
        /\ acc'[Len(acc) + 1] = [n |-> pkt.n, m |-> Len(mux)]
        /\ \A i \in 1 .. Len(acc) : acc'[i] = acc[i]
    BY <1>1, Accepted DEF IInv, TypeOK
  <1>3. pkt.n = Len(acc) + 1 /\ Len(acc) + 1 = Taken /\ Taken' = Taken
    BY DEF IInv, AccInv, Holding, RotateWrite, Taken, feedVars
  <1>4. TypeOK'
    BY <1>1, <1>2 DEF IInv, TypeOK, RotateWrite, Packet, NoPkt, lifeVars, feedVars
  <1>5. AccInv'
    <2>1. ASSUME NEW i \in 1 .. Len(acc')
          PROVE  acc'[i].n = i /\ acc'[i].m <= Len(mux) /\ (i <= Len(acc) => acc'[i] = acc[i])
      <3>1. CASE i = Len(acc) + 1
        BY <1>1, <1>2, <1>3, <3>1
      <3>2. CASE i # Len(acc) + 1
        <4>1. i \in 1 .. Len(acc)
          BY <1>2, <3>2
        <4>2. acc'[i] = acc[i] /\ acc[i] \in AccRec /\ acc[i].n = i /\ acc[i].m <= cur
          BY <1>2, <4>1, ElementOfSeq, Zenon DEF IInv, TypeOK, AccInv
        <4> QED
          BY <1>1, <4>2 DEF AccRec, IInv, TypeOK
      <3> QED
        BY <3>1, <3>2
    <2>2. ASSUME NEW i \in 1 .. Len(acc'), NEW j \in 1 .. Len(acc'), i < j
          PROVE  acc'[i].m <= acc'[j].m
      <3>1. CASE j = Len(acc) + 1
        BY <1>2, <2>1, <3>1
      <3>2. CASE j # Len(acc) + 1
        <4>1. i \in 1 .. Len(acc) /\ j \in 1 .. Len(acc)
          BY <1>2, <2>2, <3>2
        <4> QED
          BY <1>2, <2>2, <4>1 DEF IInv, AccInv
      <3> QED
        BY <3>1, <3>2
    <2> QED
      BY <1>1, <1>2, <1>3, <2>1, <2>2 DEF AccInv, Early, Holding
  <1>6. QueueInv'
    BY <1>3 DEF IInv, QueueInv, RotateWrite, feedVars
  <1>7. CloseInv' /\ HdrInv' /\ MuxInv' /\ RemoveInv'
    BY DEF IInv, TypeOK, CloseInv, CloseIsFinal, HdrInv, MuxInv, Muxers, Fresh, Finalised,
           RemoveInv,
           RotateWrite, lifeVars, feedVars
  <1> QED
    BY <1>4, <1>5, <1>6, <1>7 DEF IInv

\* A new muxer is opened after the last one was closed.
LEMMA OpenMuxerPreserves ==
  ASSUME IInv, OpenMuxer
  PROVE  IInv'
  <1>1. mux \in Seq(MuxRec) /\ mux' = Append(mux, Opened)
    BY DEF IInv, TypeOK, OpenMuxer
  <1>2. /\ mux' \in Seq(MuxRec) /\ Len(mux') = Len(mux) + 1 /\ mux'[Len(mux) + 1] = Opened
        /\ \A j \in Muxers : mux'[j] = mux[j]
    BY <1>1, NewMuxer
  <1>3. TypeOK'
    BY <1>1, <1>2 DEF IInv, TypeOK, OpenMuxer, Packet, NoPkt, lifeVars, feedVars
  <1>4. QueueInv' /\ AccInv'
    BY <1>1, <1>2 DEF IInv, TypeOK, QueueInv, AccInv, Early, Holding, Taken, MuxInv, OpenMuxer,
                      feedVars
  <1>5. CloseInv' /\ HdrInv' /\ RemoveInv'
    BY DEF IInv, TypeOK, CloseInv, CloseIsFinal, HdrInv, RemoveInv, OpenMuxer, lifeVars, feedVars
  <1>6. MuxInv'
    BY <1>1, <1>2 DEF IInv, TypeOK, HdrInv, MuxInv, Muxers, Fresh, Finalised, OpenMuxer, Opened,
                      feedVars
  <1> QED
    BY <1>3, <1>4, <1>5, <1>6 DEF IInv

\* The last muxer gets its header and, at the start, becomes the current one.
LEMMA InitMuxerPreserves ==
  ASSUME IInv, InitMuxer
  PROVE  IInv'
  <1>1. /\ mux \in Seq(MuxRec) /\ Len(mux) \in Muxers
        /\ headers \in Nat /\ headers # 0 /\ mux' = [mux EXCEPT ![Len(mux)].hdr = headers]
    <2>0. Len(mux) \in Nat /\ cur \in 0 .. Len(mux)
      BY LenProperties DEF IInv, TypeOK
    <2>1. Len(mux) \in Nat \ {0}
      BY <2>0 DEF IInv, MuxInv, InitMuxer
    <2>2. mux \in Seq(MuxRec) /\ Len(mux) \in Muxers
      BY <2>1 DEF IInv, TypeOK, MuxInv, Muxers, InitMuxer
    <2>3. headers \in Nat /\ headers # 0
      BY DEF IInv, TypeOK, HdrInv, Packet, InitMuxer
    <2> QED
      BY <2>2, <2>3 DEF InitMuxer
  <1>2. /\ mux' \in Seq(MuxRec) /\ Len(mux') = Len(mux)
        /\ mux'[Len(mux)].hdr = headers /\ mux'[Len(mux)].trailers = mux[Len(mux)].trailers
        /\ mux'[Len(mux)].closes = mux[Len(mux)].closes
        /\ \A j \in Muxers : j # Len(mux) => mux'[j] = mux[j]
    <2> DEFINE h == headers
    <2>1. h \in Nat /\ mux' = [mux EXCEPT ![Len(mux)].hdr = h]
      BY <1>1
    <2> HIDE DEF h
    <2>2. /\ mux' \in Seq(MuxRec) /\ Len(mux') = Len(mux)
          /\ mux'[Len(mux)].hdr = h /\ mux'[Len(mux)].trailers = mux[Len(mux)].trailers
          /\ mux'[Len(mux)].closes = mux[Len(mux)].closes
          /\ \A j \in Muxers : j # Len(mux) => mux'[j] = mux[j]
      BY <1>1, <2>1, WithHeader
    <2> QED
      BY <2>2 DEF h
  <1>3. TypeOK'
    BY <1>1, <1>2 DEF IInv, TypeOK, InitMuxer, Packet, NoPkt, lifeVars, feedVars
  <1>4. QueueInv' /\ AccInv'
    BY <1>1, <1>2, SMTT(40) DEF IInv, TypeOK, QueueInv, AccInv, Early, Holding, Taken, MuxInv, InitMuxer,
                      feedVars
  <1>5. CloseInv' /\ HdrInv' /\ RemoveInv'
    BY DEF IInv, TypeOK, CloseInv, CloseIsFinal, HdrInv, RemoveInv, InitMuxer, lifeVars, feedVars
  <1>6. MuxInv'
    BY <1>1, <1>2, SMTT(40) DEF IInv, TypeOK, HdrInv, MuxInv, Muxers, Fresh, Finalised, InitMuxer, feedVars
  <1> QED
    BY <1>3, <1>4, <1>5, <1>6 DEF IInv

\* A muxer whose header failed is closed before the goroutine ends.
LEMMA InitFailsPreserves ==
  ASSUME IInv, InitFails
  PROVE  IInv'
  <1>1. mux \in Seq(MuxRec) /\ Len(mux) \in Muxers /\ mux' = Closed(Len(mux))
    <2>0. Len(mux) \in Nat /\ cur \in 0 .. Len(mux)
      BY LenProperties DEF IInv, TypeOK
    <2>1. Len(mux) \in Nat \ {0}
      BY <2>0 DEF IInv, MuxInv, InitFails
    <2> QED
      BY <2>1 DEF IInv, TypeOK, MuxInv, Muxers, InitFails
  <1>2. /\ mux' \in Seq(MuxRec) /\ Len(mux') = Len(mux)
        /\ mux'[Len(mux)].hdr = mux[Len(mux)].hdr
        /\ mux'[Len(mux)].trailers > 0 /\ mux'[Len(mux)].closes > 0
        /\ \A j \in Muxers : j # Len(mux) => mux'[j] = mux[j]
    <2>1. mux[Len(mux)] \in MuxRec
      BY <1>1, ElementOfSeq DEF Muxers
    <2>2. mux[Len(mux)].trailers \in Nat /\ mux[Len(mux)].closes \in Nat
      BY <2>1 DEF MuxRec
    <2> QED
      BY <1>1, <2>2, ClosedMuxer
  <1>3. TypeOK'
    BY <1>1, <1>2 DEF IInv, TypeOK, InitFails, SetLastError, ErrorExit, Packet, NoPkt, lifeVars,
                      feedVars
  <1>4. QueueInv' /\ AccInv'
    BY <1>1, <1>2, Zenon DEF IInv, TypeOK, QueueInv, AccInv, Early, Holding, Taken, MuxInv, InitFails,
                      SetLastError, ErrorExit, feedVars
  <1>5. CloseInv' /\ HdrInv' /\ RemoveInv'
    BY DEF IInv, TypeOK, CloseInv, CloseIsFinal, HdrInv, RemoveInv, InitFails, SetLastError,
           ErrorExit, lifeVars, feedVars
  <1>6. MuxInv'
    BY <1>1, <1>2, Zenon DEF IInv, TypeOK, HdrInv, MuxInv, Muxers, Fresh, Finalised, InitFails,
                      SetLastError, ErrorExit, feedVars
  <1> QED
    BY <1>3, <1>4, <1>5, <1>6 DEF IInv

\* The current muxer gets new codecs.
LEMMA ChangeCodecsPreserves ==
  ASSUME IInv, ChangeCodecs
  PROVE  IInv'
  <1>1. /\ mux \in Seq(MuxRec) /\ cur \in Muxers
        /\ pkt.codecs \in Nat /\ pkt.codecs # 0 /\ mux' = [mux EXCEPT ![cur].hdr = pkt.codecs]
    <2>0. Len(mux) \in Nat /\ cur \in 0 .. Len(mux)
      BY LenProperties DEF IInv, TypeOK
    <2>1. Len(mux) \in Nat \ {0}
      BY <2>0 DEF IInv, MuxInv, ChangeCodecs
    <2>2. mux \in Seq(MuxRec) /\ cur \in Muxers
      BY <2>1 DEF IInv, TypeOK, MuxInv, Muxers, ChangeCodecs
    <2>3. pkt.codecs \in Nat /\ pkt.codecs # 0
      BY DEF IInv, TypeOK, HdrInv, Packet, ChangeCodecs
    <2> QED
      BY <2>2, <2>3 DEF ChangeCodecs
  <1>2. /\ mux' \in Seq(MuxRec) /\ Len(mux') = Len(mux)
        /\ mux'[cur].hdr = pkt.codecs /\ mux'[cur].trailers = mux[cur].trailers
        /\ mux'[cur].closes = mux[cur].closes
        /\ \A j \in Muxers : j # cur => mux'[j] = mux[j]
    <2> DEFINE h == pkt.codecs
    <2>1. h \in Nat /\ mux' = [mux EXCEPT ![cur].hdr = h]
      BY <1>1
    <2> HIDE DEF h
    <2>2. /\ mux' \in Seq(MuxRec) /\ Len(mux') = Len(mux)
          /\ mux'[cur].hdr = h /\ mux'[cur].trailers = mux[cur].trailers
          /\ mux'[cur].closes = mux[cur].closes
          /\ \A j \in Muxers : j # cur => mux'[j] = mux[j]
      BY <1>1, <2>1, WithHeader
    <2> QED
      BY <2>2 DEF h
  <1>3. TypeOK'
    BY <1>1, <1>2 DEF IInv, TypeOK, ChangeCodecs, Packet, NoPkt, lifeVars, feedVars
  <1>4. QueueInv' /\ AccInv'
    BY <1>1, <1>2 DEF IInv, TypeOK, QueueInv, AccInv, Early, Holding, Taken, MuxInv,
                      ChangeCodecs, feedVars
  <1>5. CloseInv' /\ HdrInv' /\ RemoveInv'
    BY DEF IInv, TypeOK, CloseInv, CloseIsFinal, HdrInv, RemoveInv, ChangeCodecs, lifeVars,
           feedVars
  <1>6. MuxInv'
    BY <1>1, <1>2 DEF IInv, TypeOK, HdrInv, MuxInv, Muxers, Fresh, Finalised, ChangeCodecs,
                      feedVars
  <1> QED
    BY <1>3, <1>4, <1>5, <1>6 DEF IInv

\* A rotation closes the current muxer first.
LEMMA RotatePreserves ==
  ASSUME IInv, Rotate
  PROVE  IInv'
  <1>1. mux \in Seq(MuxRec) /\ cur \in Muxers /\ mux' = Closed(cur)
    <2>0. Len(mux) \in Nat /\ cur \in 0 .. Len(mux)
      BY LenProperties DEF IInv, TypeOK
    <2>1. Len(mux) \in Nat \ {0}
      BY <2>0 DEF IInv, MuxInv, Rotate
    <2> QED
      BY <2>1 DEF IInv, TypeOK, MuxInv, Muxers, Rotate
  <1>2. /\ mux' \in Seq(MuxRec) /\ Len(mux') = Len(mux)
        /\ mux'[cur].hdr = mux[cur].hdr
        /\ mux'[cur].trailers > 0 /\ mux'[cur].closes > 0
        /\ \A j \in Muxers : j # cur => mux'[j] = mux[j]
    <2>1. mux[cur] \in MuxRec
      BY <1>1, ElementOfSeq DEF Muxers
    <2>2. mux[cur].trailers \in Nat /\ mux[cur].closes \in Nat
      BY <2>1 DEF MuxRec
    <2> QED
      BY <1>1, <2>2, ClosedMuxer, SMTT(40)
  <1>3. TypeOK'
    BY <1>1, <1>2 DEF IInv, TypeOK, Rotate, Packet, NoPkt, lifeVars, feedVars
  <1>4. QueueInv' /\ AccInv'
    BY <1>1, <1>2 DEF IInv, TypeOK, QueueInv, AccInv, Early, Holding, Taken, MuxInv, Rotate,
                      feedVars
  <1>5. CloseInv' /\ HdrInv' /\ RemoveInv'
    BY DEF IInv, TypeOK, CloseInv, CloseIsFinal, HdrInv, RemoveInv, Rotate, lifeVars, feedVars
  <1>6. MuxInv'
    BY <1>1, <1>2, Zenon DEF IInv, TypeOK, HdrInv, MuxInv, Muxers, Fresh, Finalised, Rotate, feedVars
  <1> QED
    BY <1>3, <1>4, <1>5, <1>6 DEF IInv

\* A new muxer that refuses the packet is closed.
LEMMA RotateWriteFailsPreserves ==
  ASSUME IInv, RotateWriteFails
  PROVE  IInv'
  <1>1. mux \in Seq(MuxRec) /\ Len(mux) \in Muxers /\ mux' = Closed(Len(mux))
    <2>0. Len(mux) \in Nat /\ cur \in 0 .. Len(mux)
      BY LenProperties DEF IInv, TypeOK
    <2>1. Len(mux) \in Nat \ {0}
      BY <2>0 DEF IInv, MuxInv, RotateWriteFails
    <2> QED
      BY <2>1 DEF IInv, TypeOK, MuxInv, Muxers, RotateWriteFails
  <1>2. /\ mux' \in Seq(MuxRec) /\ Len(mux') = Len(mux)
        /\ mux'[Len(mux)].hdr = mux[Len(mux)].hdr
        /\ mux'[Len(mux)].trailers > 0 /\ mux'[Len(mux)].closes > 0
        /\ \A j \in Muxers : j # Len(mux) => mux'[j] = mux[j]
    <2>1. mux[Len(mux)] \in MuxRec
      BY <1>1, ElementOfSeq DEF Muxers
    <2>2. mux[Len(mux)].trailers \in Nat /\ mux[Len(mux)].closes \in Nat
      BY <2>1 DEF MuxRec
    <2> QED
      BY <1>1, <2>2, ClosedMuxer
  <1>3. TypeOK'
    BY <1>1, <1>2, Zenon DEF IInv, TypeOK, RotateWriteFails, SetLastError, Packet, NoPkt, lifeVars,
                      feedVars
  <1>4. QueueInv' /\ AccInv'
    BY <1>1, <1>2, Zenon DEF IInv, TypeOK, QueueInv, AccInv, Early, Holding, Taken, MuxInv,
                      RotateWriteFails, SetLastError, feedVars
  <1>5. CloseInv' /\ HdrInv' /\ RemoveInv'
    BY DEF IInv, TypeOK, CloseInv, CloseIsFinal, HdrInv, RemoveInv, RotateWriteFails,
           SetLastError, lifeVars, feedVars
  <1>6. MuxInv'
    BY <1>1, <1>2, Zenon DEF IInv, TypeOK, HdrInv, MuxInv, Muxers, Fresh, Finalised, RotateWriteFails,
                      SetLastError, feedVars
  <1> QED
    BY <1>3, <1>4, <1>5, <1>6 DEF IInv

\* The deferred closeMuxer closes the current muxer.
LEMMA CloseMuxerPreserves ==
  ASSUME IInv, CloseMuxer
  PROVE  IInv'
  <1>1. mux \in Seq(MuxRec) /\ cur \in Muxers /\ mux' = Closed(cur)
    <2>0. Len(mux) \in Nat /\ cur \in 0 .. Len(mux)
      BY LenProperties DEF IInv, TypeOK
    <2>1. Len(mux) \in Nat \ {0}
      BY <2>0 DEF IInv, MuxInv, CloseMuxer
    <2> QED
      BY <2>1 DEF IInv, TypeOK, MuxInv, Muxers, CloseMuxer
  <1>2. /\ mux' \in Seq(MuxRec) /\ Len(mux') = Len(mux)
        /\ mux'[cur].hdr = mux[cur].hdr
        /\ mux'[cur].trailers > 0 /\ mux'[cur].closes > 0
        /\ \A j \in Muxers : j # cur => mux'[j] = mux[j]
    <2>1. mux[cur] \in MuxRec
      BY <1>1, ElementOfSeq DEF Muxers
    <2>2. mux[cur].trailers \in Nat /\ mux[cur].closes \in Nat
      BY <2>1 DEF MuxRec
    <2> QED
      BY <1>1, <2>2, ClosedMuxer
  <1>3. TypeOK'
    BY <1>1, <1>2, Zenon DEF IInv, TypeOK, CloseMuxer, Packet, NoPkt, lifeVars, feedVars
  <1>4. QueueInv' /\ AccInv'
    BY <1>1, <1>2, Zenon DEF IInv, TypeOK, QueueInv, AccInv, Early, Holding, Taken, MuxInv, CloseMuxer,
                      feedVars
  <1>5. CloseInv' /\ HdrInv' /\ RemoveInv'
    BY DEF IInv, TypeOK, CloseInv, CloseIsFinal, HdrInv, RemoveInv, CloseMuxer, lifeVars, feedVars
  <1>6. MuxInv'
    BY <1>1, <1>2, ZenonT(40) DEF IInv, TypeOK, HdrInv, MuxInv, Muxers, Fresh, Finalised, CloseMuxer, feedVars
  <1> QED
    BY <1>3, <1>4, <1>5, <1>6 DEF IInv

-----------------------------------------------------------------------------
(* The theorems. *)

\* The invariant holds when the manager is created.
LEMMA Initially == Init => IInv
  <1> SUFFICES ASSUME Init PROVE IInv
    OBVIOUS
  <1>1. NoPkt \in Packet
    BY DEF NoPkt, Packet
  <1>2. /\ queue \in Seq(Packet) /\ Len(queue) = 0
        /\ mux \in Seq(MuxRec) /\ Len(mux) = 0
        /\ acc \in Seq(AccRec) /\ Len(acc) = 0
    BY EmptySeq DEF Init
  <1>3. /\ spc = "idle" /\ closing = FALSE /\ inactive = FALSE /\ ctx = "nil"
        /\ cpc = [k \in Closers |-> "idle"]
        /\ headers = 0 /\ hch = "open" /\ lastErr = FALSE /\ sent = 0
        /\ gpc = "none" /\ pkt = NoPkt /\ cur = 0 /\ seen = 0 /\ removed = 0
    BY DEF Init
  <1>4. TypeOK
    <2>1. cpc \in [Closers -> {"idle", "flagged", "waiting", "done", "lost"}]
      BY <1>3
    <2>2. /\ cur \in 0 .. Len(mux) /\ headers \in Nat
          /\ sent \in Nat /\ seen \in Nat /\ removed \in Nat
      BY <1>2, <1>3
    <2>3. closing \in BOOLEAN /\ inactive \in BOOLEAN /\ lastErr \in BOOLEAN /\ pkt \in Packet
      BY <1>1, <1>3, ZenonT(40)
    <2> QED
      BY <1>2, <1>3, <2>1, <2>2, <2>3 DEF TypeOK
  <1>5. CloseInv /\ QueueInv /\ AccInv /\ HdrInv /\ MuxInv /\ RemoveInv
    BY <1>2, <1>3 DEF CloseInv, CloseIsFinal, QueueInv, AccInv, Early, Holding, Taken, HdrInv,
                MuxInv, Muxers, RemoveInv
  <1> QED
    BY <1>4, <1>5 DEF IInv

\* Every step keeps the invariant.
LEMMA Inductive == IInv /\ [Next]_vars => IInv'
  <1> SUFFICES ASSUME IInv, [Next]_vars PROVE IInv'
    OBVIOUS
  <1>1. CASE \/ StartCheck \/ StartSpawn \/ RelayCancel \/ WriteHeader \/ WriteNoHeader
             \/ \E k \in Closers : CloseFlag(k) \/ CloseCancel(k) \/ CloseReturn(k)
    BY <1>1, LifecyclePreserves
  <1>2. CASE \E change \in BOOLEAN : WritePacket(change)
    BY <1>2, WritePacketPreserves
  <1>3. CASE Run
    BY <1>3, ControlPreserves, TakePreserves, WriteMuxerPreserves, RotateWritePreserves,
       OpenMuxerPreserves, InitMuxerPreserves, InitFailsPreserves, ChangeCodecsPreserves,
       RotatePreserves, RotateWriteFailsPreserves, CloseMuxerPreserves DEF Run
  <1>4. CASE UNCHANGED vars
    <2>1. CloseInv' /\ HdrInv' /\ RemoveInv'
      BY <1>4, Zenon DEF vars, IInv, CloseInv, CloseIsFinal, HdrInv, RemoveInv
    <2>4. TypeOK'
      BY <1>4, SMTT(40) DEF vars, IInv, TypeOK
    <2>2. QueueInv' /\ AccInv'
      BY <1>4, Zenon DEF vars, IInv, QueueInv, Taken, AccInv, Early, Holding
    <2>3. MuxInv'
      BY <1>4, Zenon DEF vars, IInv, MuxInv, Muxers, Fresh, Finalised
    <2> QED
      BY <2>1, <2>2, <2>3, <2>4, Zenon DEF IInv
  <1> QED
    BY <1>1, <1>2, <1>3, <1>4 DEF Next

\* The invariant holds in every state.
LEMMA Invariance == Spec => []IInv
  BY Initially, Inductive, PTL DEF Spec

\* Every variable keeps its type, in particular cur is the index of a muxer.
THEOREM TypeCorrect == Spec => []TypeOK
  <1>1. IInv => TypeOK
    BY DEF IInv
  <1> QED
    BY <1>1, Invariance, PTL

\* Once the winning Close has returned there is no goroutine and none starts,
\* for any number of concurrent Closes (Start looks at alreadyClosing twice).
THEOREM CloseReturnedMeansGone == Spec => []CloseIsFinal
  <1>1. IInv => CloseIsFinal
    BY DEF IInv, CloseInv
  <1> QED
    BY <1>1, Invariance, PTL

\* Any number of rotations delivers each packet taken from the queue to exactly
\* one muxer, in order (handlePacket and rotateMuxer).
THEOREM RotationsLoseNothing == Spec => []RotationLosesNothing
  <1>1. IInv => RotationLosesNothing
    <2> SUFFICES ASSUME IInv PROVE RotationLosesNothing
      OBVIOUS
    <2>1. DOMAIN acc = 1 .. Len(acc)
      BY LenProperties DEF IInv, TypeOK
    <2> QED
      BY <2>1, Zenon DEF IInv, AccInv, RotationLosesNothing
  <1> QED
    BY <1>1, Invariance, PTL

\* Only the last muxer opened can be open, whatever call fails.
THEOREM AtMostOneOpen == Spec => []OneMuxerOpen
  <1>1. IInv => OneMuxerOpen
    <2> SUFFICES ASSUME IInv, NEW m \in Muxers, m # Len(mux)
                 PROVE  mux[m].closes # 0
      BY DEF OneMuxerOpen
    <2>1. mux[m].closes > 0
      BY Zenon DEF IInv, MuxInv, Finalised
    <2> QED
      BY <2>1
  <1> QED
    BY <1>1, Invariance, PTL

\* The remover runs once, after every muxer was finalised and closed, along
\* every error path of run.
THEOREM RemoverRunsLast == Spec => []RemoverLast
  <1>1. IInv => RemoverLast
    BY DEF IInv, RemoveInv, MuxInv, Finalised, RemoverLast
  <1> QED
    BY <1>1, Invariance, PTL

\* A muxer accepts packets only after its header and before its trailer.
THEOREM WritesInsideLifecycle == Spec => WriteInsideLifecycle
  <1> DEFINE A == acc' # acc => LET m == acc'[Len(acc')].m
                                IN  mux[m].hdr # 0 /\ mux[m].trailers = 0 /\ mux[m].closes = 0
  <1>1. IInv /\ [Next]_vars => [A]_vars
    <2> SUFFICES ASSUME IInv, Next, acc' # acc PROVE A
      OBVIOUS
    <2>1. WriteMuxer \/ RotateWrite
      BY DEF Next, Run, StartCheck, StartSpawn, RelayCancel, WriteHeader, WriteNoHeader,
             WritePacket,
             CloseFlag, CloseCancel, CloseReturn, HeadersArrive, HeadersNever, OpenMuxer, OpenFails,
             InitMuxer, InitFails, LoopDone, Take, ChangeCodecs, ChangeFails, WriteFails, Rotate,
             RotateWriteFails, CloseMuxer, Finish, Remove, muxVars
    <2>2. CASE WriteMuxer
      <3>1. acc'[Len(acc')].m = cur
        <4>1. cur \in Nat /\ pkt \in Packet /\ acc \in Seq(AccRec) /\ Accept(cur)
          BY <2>2, LenProperties DEF WriteMuxer, IInv, TypeOK
        <4>2. Len(acc') = Len(acc) + 1 /\ acc'[Len(acc) + 1] = [n |-> pkt.n, m |-> cur]
          BY <4>1, Accepted
        <4> QED
          BY <4>2
      <3> QED
        BY <2>2, <3>1, Zenon DEF WriteMuxer, IInv, MuxInv, Fresh
    <2>3. CASE RotateWrite
      <3>1. acc'[Len(acc')].m = Len(mux)
        <4>1. Len(mux) \in Nat /\ pkt \in Packet /\ acc \in Seq(AccRec) /\ Accept(Len(mux))
          BY <2>3, LenProperties DEF RotateWrite, IInv, TypeOK
        <4>2. Len(acc') = Len(acc) + 1 /\ acc'[Len(acc) + 1] = [n |-> pkt.n, m |-> Len(mux)]
          BY <4>1, Accepted
        <4> QED
          BY <4>2
      <3> QED
        BY <2>3, <3>1, Zenon DEF RotateWrite, IInv, MuxInv, Fresh
    <2> QED
      BY <2>1, <2>2, <2>3
  <1> QED
    BY <1>1, Invariance, PTL DEF Spec, WriteInsideLifecycle

=============================================================================
