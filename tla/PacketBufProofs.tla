--------------------------- MODULE PacketBufProofs ---------------------------
(***************************************************************************)
(* Proofs about PacketBuf for any number of readers, any start times, any  *)
(* retention and any number of packets.                                    *)
(***************************************************************************)
EXTENDS PacketBuf, SequenceTheorems, WellFoundedInduction, TLAPS

(***************************************************************************)
(* Operators.                                                              *)
(***************************************************************************)

\* A non-empty set of naturals has a least element.
LEMMA NatMin ==
  ASSUME NEW T, T \subseteq Nat, T # {}
  PROVE  \E x \in T : \A y \in T : x <= y
<1>1. PICK x \in T : \A y \in T : ~(<<y, x>> \in OpToRel(<, Nat))
  BY NatLessThanWellFounded, WFMin
<1>2. ASSUME NEW y \in T PROVE x <= y
  <2>1. ~(<<y, x>> \in OpToRel(<, Nat))
    BY <1>1
  <2>2. x \in Nat /\ y \in Nat
    OBVIOUS
  <2>3. ~(y < x)
    BY <2>1, <2>2 DEF OpToRel
  <2> QED
    BY <2>2, <2>3
<1> QED
  BY <1>2

\* The scan that evictLocked and the startup of ReadPacket share stops at the
\* first packet that is not older than the cutoff, or at the end.
LEMMA OlderPrefixProp ==
  ASSUME NEW s \in Seq(Pkt), NEW c \in Int
  PROVE  /\ OlderPrefix(s, c) \in 0 .. Len(s)
         /\ \A i \in 1 .. OlderPrefix(s, c) : s[i].wall < c
         /\ OlderPrefix(s, c) < Len(s) => s[OlderPrefix(s, c) + 1].wall >= c
<1> DEFINE T == { n \in 0 .. Len(s) : n = Len(s) \/ s[n + 1].wall >= c }
<1>0. /\ Len(s) \in Nat
      /\ \A i \in 1 .. Len(s) : s[i].wall \in Int
  <2>1. Len(s) \in Nat /\ \A i \in 1 .. Len(s) : s[i] \in Pkt
    OBVIOUS
  <2> QED
    BY <2>1, BufAssumption DEF Pkt, Times
<1>1. T \subseteq Nat /\ Len(s) \in T
  BY <1>0
<1>2. PICK n \in T : \A m \in T : n <= m
  <2> HIDE DEF T
  <2> QED
    BY <1>1, NatMin
<1>3. \A i \in 1 .. n : s[i].wall < c
  <2> SUFFICES ASSUME NEW i \in 1 .. n, ~(s[i].wall < c) PROVE FALSE
    OBVIOUS
  <2>1. n \in 0 .. Len(s)
    OBVIOUS
  <2>2. i - 1 \in 0 .. Len(s) /\ (i - 1) + 1 = i /\ s[i].wall >= c
    BY <1>0, <2>1
  <2>3. i - 1 \in T
    BY <2>2
  <2>4. n <= i - 1
    BY <1>2, <2>3
  <2> QED
    BY <1>0, <2>1, <2>4
<1>4. /\ n \in 0 .. Len(s)
      /\ \A i \in 1 .. n : s[i].wall < c
      /\ n < Len(s) => s[n + 1].wall >= c
  BY <1>0, <1>3
<1> HIDE DEF T
<1> QED
  BY <1>4, Zenon DEF OlderPrefix

-----------------------------------------------------------------------------
(***************************************************************************)
(* What one write and one loop iteration do to the log and the cursors.    *)
(***************************************************************************)

\* What the types say of the packets of the log and of the buffer.
LEMMA LogWalls ==
  ASSUME TypeOK
  PROVE  /\ Len(log) \in Nat /\ Len(pkts) \in Nat
         /\ \A i \in 1 .. Len(log) : log[i] \in Pkt /\ log[i].wall \in Int
         /\ \A i \in 1 .. Len(pkts) : pkts[i] \in Pkt /\ pkts[i].wall \in Int
         /\ \A r \in Readers : Since[r] \in Int
<1>1. log \in Seq(Pkt) /\ pkts \in Seq(Pkt)
  BY DEF TypeOK
<1>2. /\ Len(log) \in Nat /\ Len(pkts) \in Nat
      /\ \A i \in 1 .. Len(log) : log[i] \in Pkt
      /\ \A i \in 1 .. Len(pkts) : pkts[i] \in Pkt
  BY <1>1
<1>3. \A p \in Pkt : p.wall \in Int
  BY BufAssumption DEF Pkt, Times
<1> QED
  BY <1>2, <1>3, BufAssumption DEF Times

\* A write appends one packet to the log and keeps a suffix of it.
LEMMA WriteStep ==
  ASSUME TypeOK, WindowInv, NEW w \in Times \cup {Unset}, WritePacket(w)
  PROVE  /\ \E p \in Pkt : log' = Append(log, p)
         /\ log' \in Seq(Pkt) /\ pkts' \in Seq(Pkt)
         /\ Len(log') = Len(log) + 1
         /\ \A i \in 1 .. Len(log) : log'[i] = log[i]
         /\ baseOffset' \in Nat /\ baseOffset <= baseOffset'
         /\ Len(log') = baseOffset' + Len(pkts')
         /\ \A i \in 1 .. Len(pkts') : pkts'[i] = log'[baseOffset' + i]
<1> DEFINE p   == [wall |-> Stamp(w)]
           all == Append(pkts, p)
           n   == OlderPrefix(all, now - MaxAge)
<1>1. /\ pkts' = SubSeq(all, n + 1, Len(all))
      /\ baseOffset' = baseOffset + n
      /\ log' = Append(log, p)
  BY DEF WritePacket
<1>2. /\ p \in Pkt /\ now - MaxAge \in Int
      /\ pkts \in Seq(Pkt) /\ log \in Seq(Pkt)
      /\ baseOffset \in Nat
  BY BufAssumption DEF TypeOK, Pkt, Times, Unset, Stamp
<1> HIDE DEF p
<1>3. /\ all \in Seq(Pkt) /\ Len(all) = Len(pkts) + 1
      /\ \A i \in 1 .. Len(pkts) : all[i] = pkts[i]
      /\ all[Len(pkts) + 1] = p
  BY <1>2, AppendProperties
<1>4. /\ log' \in Seq(Pkt) /\ Len(log') = Len(log) + 1
      /\ \A i \in 1 .. Len(log) : log'[i] = log[i]
      /\ log'[Len(log) + 1] = p
  BY <1>1, <1>2, AppendProperties
<1>5. Len(pkts) \in Nat /\ Len(log) \in Nat
  BY <1>2
<1> HIDE DEF all
<1>6. n \in 0 .. Len(all)
  BY <1>2, <1>3, OlderPrefixProp
<1> HIDE DEF n
<1>7. \A i \in 1 .. Len(all) : all[i] = log'[baseOffset + i]
  <2> SUFFICES ASSUME NEW i \in 1 .. Len(all) PROVE all[i] = log'[baseOffset + i]
    OBVIOUS
  <2>1. CASE i \in 1 .. Len(pkts)
    <3>1. baseOffset + i \in 1 .. Len(log)
      BY <2>1, <1>2, <1>5 DEF WindowInv
    <3> QED
      BY <2>1, <3>1, <1>3, <1>4 DEF WindowInv
  <2>2. CASE i = Len(pkts) + 1
    <3>1. baseOffset + i = Len(log) + 1
      BY <2>2, <1>2, <1>5 DEF WindowInv
    <3> QED
      BY <2>2, <3>1, <1>3, <1>4
  <2> QED
    BY <2>1, <2>2, <1>3, <1>5
<1>8. \A i \in n + 1 .. Len(all) : all[i] \in Pkt
  BY <1>3, <1>5, <1>6
<1>9. /\ pkts' \in Seq(Pkt)
      /\ Len(pkts') = Len(all) - n
      /\ \A i \in 1 .. Len(pkts') : pkts'[i] = all[n + i]
  <2>1. Len(all) \in Int /\ n + 1 \in Int
    BY <1>3, <1>5, <1>6
  <2>2. /\ pkts' \in Seq(Pkt)
        /\ Len(pkts') = IF n + 1 <= Len(all) THEN Len(all) - (n + 1) + 1 ELSE 0
        /\ \A i \in 1 .. Len(all) - (n + 1) + 1 : pkts'[i] = all[(n + 1) + i - 1]
    BY <1>1, <1>8, <2>1, SubSeqProperties
  <2>3. Len(pkts') = Len(all) - n /\ Len(all) - (n + 1) + 1 = Len(all) - n
    BY <1>3, <1>5, <1>6, <2>2
  <2>4. \A i \in 1 .. Len(pkts') : (n + 1) + i - 1 = n + i
    BY <1>3, <1>5, <1>6, <2>3
  <2> QED
    BY <2>2, <2>3, <2>4
<1>10. \A i \in 1 .. Len(pkts') : pkts'[i] = log'[baseOffset' + i]
  <2> SUFFICES ASSUME NEW i \in 1 .. Len(pkts') PROVE pkts'[i] = log'[baseOffset' + i]
    OBVIOUS
  <2>1. n + i \in 1 .. Len(all)
    BY <1>3, <1>5, <1>6, <1>9
  <2>2. baseOffset + (n + i) = baseOffset' + i
    BY <1>1, <1>2, <1>3, <1>5, <1>6, <1>9
  <2> QED
    BY <2>1, <2>2, <1>7, <1>9
<1>11. /\ baseOffset' \in Nat /\ baseOffset <= baseOffset'
       /\ Len(log') = baseOffset' + Len(pkts')
  <2>1. /\ Len(log) = baseOffset + Len(pkts) /\ Len(pkts') = Len(all) - n
        /\ Len(all) = Len(pkts) + 1 /\ Len(log') = Len(log) + 1
        /\ baseOffset' = baseOffset + n
    BY <1>1, <1>3, <1>4, <1>9 DEF WindowInv
  <2> QED
    BY <2>1, <1>2, <1>5, <1>6
<1> QED
  BY <1>1, <1>2, <1>4, <1>9, <1>10, <1>11

\* Where a loop iteration looks: at or after the cursor, within the window,
\* having passed over evicted and old packets only.
LEMMA PositionProp ==
  ASSUME TypeOK, WindowInv, CursorInv, NEW r \in Readers
  PROVE  /\ Position(r) \in Nat
         /\ baseOffset <= Position(r) /\ Position(r) <= Len(log)
         /\ cursor[r] <= Position(r)
         /\ \A i \in cursor[r] + 1 .. Position(r) :
              i <= baseOffset \/ log[i].wall < Since[r]
<1>1. /\ cursor[r] \in Nat /\ baseOffset \in Nat /\ cursor[r] <= Len(log)
      /\ Len(log) = baseOffset + Len(pkts) /\ Len(pkts) \in Nat
      /\ ~scanned[r] => cursor[r] = 0
      /\ pkts \in Seq(Pkt) /\ Since[r] \in Int
  BY LogWalls, Zenon DEF TypeOK, WindowInv, CursorInv
<1>2. CASE scanned[r]
  BY <1>1, <1>2 DEF Position
<1>3. CASE ~scanned[r]
  <2> DEFINE m == OlderPrefix(pkts, Since[r])
  <2>1. m \in 0 .. Len(pkts) /\ \A i \in 1 .. m : pkts[i].wall < Since[r]
    BY <1>1, OlderPrefixProp
  <2> HIDE DEF m
  <2>2. Position(r) = baseOffset + m
    <3>1. Position(r) = IF baseOffset + m < baseOffset THEN baseOffset ELSE baseOffset + m
      BY <1>3 DEF Position, m
    <3> QED
      BY <3>1, <2>1, <1>1
  <2>3. ASSUME NEW i \in 1 .. baseOffset + m, ~(i <= baseOffset)
        PROVE  log[i].wall < Since[r]
    <3>1. i - baseOffset \in 1 .. m /\ i - baseOffset \in 1 .. Len(pkts)
          /\ baseOffset + (i - baseOffset) = i
      BY <1>1, <2>1, <2>3
    <3> QED
      BY <3>1, <2>1 DEF WindowInv
  <2> QED
    BY <1>1, <1>3, <2>1, <2>2, <2>3, SMTT(40)
<1> QED
  BY <1>2, <1>3

\* The last packet a reader got.
LEMMA LastGotProp ==
  ASSUME TypeOK, NEW r \in Readers
  PROVE  /\ Stream!LastGot(r) \in Nat
         /\ got'[r] = got[r] => Stream!LastGot(r)' = Stream!LastGot(r)
         /\ \A k \in Nat : got'[r] = Append(got[r], k) => Stream!LastGot(r)' = k
<1>1. got[r] \in Seq(Nat)
  BY DEF TypeOK
<1>2. Stream!LastGot(r) \in Nat
  BY <1>1 DEF Stream!LastGot
<1>3. got'[r] = got[r] => Stream!LastGot(r)' = Stream!LastGot(r)
  BY DEF Stream!LastGot
<1>4. ASSUME NEW k \in Nat, got'[r] = Append(got[r], k)
      PROVE  Stream!LastGot(r)' = k
  <2>1. got'[r] # <<>> /\ Len(got'[r]) = Len(got[r]) + 1 /\ got'[r][Len(got[r]) + 1] = k
    BY <1>1, <1>4, AppendProperties, SMTT(40)
  <2> QED
    BY <2>1 DEF Stream!LastGot
<1> QED
  BY <1>2, <1>3, <1>4

-----------------------------------------------------------------------------
(***************************************************************************)
(* The inductive invariant.                                                *)
(***************************************************************************)

\* The invariant holds of an empty buffer.
LEMMA InitIInv == Init => IInv
<1> SUFFICES ASSUME Init PROVE IInv
  OBVIOUS
<1>1. TypeOK
  <2>1. <<>> \in Seq(Pkt) /\ <<>> \in Seq(Nat) /\ now \in Times
    BY BufAssumption DEF Init, Times
  <2>2. /\ cursor \in [Readers -> Nat] /\ scanned \in [Readers -> BOOLEAN]
        /\ done \in [Readers -> BOOLEAN]
        /\ rpc \in [Readers -> {"idle", "loop", "wait"}]
        /\ waitCh \in [Readers -> Nat] /\ got \in [Readers -> Seq(Nat)]
    BY <2>1 DEF Init
  <2>3. /\ pkts \in Seq(Pkt) /\ log \in Seq(Pkt) /\ eof \subseteq Readers
        /\ closed \in BOOLEAN /\ fired \subseteq Nat
    BY <2>1, ZenonT(40) DEF Init
  <2>4. /\ baseOffset \in Nat /\ notify \in Nat \ {0} /\ writer \in Nat
        /\ closer \in {"no", "flagged", "swapped", "done"} /\ closerCh \in Nat
    BY DEF Init
  <2> QED
    BY <2>1, <2>2, <2>3, <2>4 DEF TypeOK
<1>2. WindowInv
  BY DEF Init, WindowInv
<1>3. CursorInv
  BY DEF Init, CursorInv, Stream!LastGot
<1>4. NoLostWakeup /\ OnlyEvictedOrOldMissed
  BY DEF Init, NoLostWakeup, OnlyEvictedOrOldMissed
<1> QED
  BY <1>1, <1>2, <1>3, <1>4 DEF IInv

\* Every step keeps the types.
LEMMA TypeStep == IInv /\ [Next]_vars => TypeOK'
<1> SUFFICES ASSUME IInv, [Next]_vars PROVE TypeOK'
  OBVIOUS
<1> USE DEF IInv
<1>1. CASE Tick
  BY <1>1, BufAssumption DEF Tick, TypeOK, Times, bufVars, readerVars
<1>2. ASSUME NEW w \in Times \cup {Unset}, WritePacket(w) PROVE TypeOK'
  <2>1. log' \in Seq(Pkt) /\ pkts' \in Seq(Pkt) /\ baseOffset' \in Nat
    BY <1>2, WriteStep
  <2>2. UNCHANGED <<readerVars, now, closed, fired, closer, closerCh, done>>
        /\ writer' = notify /\ notify' = notify + 1
    BY <1>2 DEF WritePacket
  <2> QED
    BY <2>1, <2>2 DEF TypeOK, readerVars
<1>3. CASE WakeReaders
  BY <1>3 DEF WakeReaders, TypeOK, bufVars, readerVars
<1>4. CASE CloseFlag \/ CloseSwap \/ CloseWake
  <2>1. CASE CloseFlag
    BY <2>1 DEF CloseFlag, TypeOK, bufVars, readerVars
  <2>2. CASE CloseSwap
    BY <2>2 DEF CloseSwap, TypeOK, readerVars
  <2>3. CASE CloseWake
    BY <2>3 DEF CloseWake, TypeOK, bufVars, readerVars
  <2> QED
    BY <1>4, <2>1, <2>2, <2>3
<1>5. ASSUME NEW r \in Readers, ReadCall(r) \/ Woken(r) \/ CtxDone(r) \/ DemuxerClose(r)
      PROVE  TypeOK'
  <2>1. CASE ReadCall(r)
    BY <2>1 DEF ReadCall, TypeOK, bufVars
  <2>2. CASE Woken(r)
    BY <2>2 DEF Woken, TypeOK, bufVars
  <2>3. CASE CtxDone(r)
    BY <2>3 DEF CtxDone, TypeOK, bufVars
  <2>4. CASE DemuxerClose(r)
    BY <2>4 DEF DemuxerClose, TypeOK, bufVars, readerVars
  <2> QED
    BY <1>5, <2>1, <2>2, <2>3, <2>4
<1>6. ASSUME NEW r \in Readers, ReadOne(r) PROVE TypeOK'
  <2>1. Position(r) \in Nat
    BY PositionProp
  <2>2. got' \in [Readers -> Seq(Nat)] /\ rpc' \in [Readers -> {"idle", "loop", "wait"}]
    <3>1. Append(got[r], Position(r) + 1) \in Seq(Nat)
      BY <2>1, AppendProperties DEF TypeOK
    <3>2. \/ UNCHANGED <<rpc, got>>
          \/ /\ rpc' = [rpc EXCEPT ![r] = "idle"]
             /\ got' = [got EXCEPT ![r] = Append(got[r], Position(r) + 1)]
      BY <1>6 DEF ReadOne, TooOld
    <3> QED
      BY <3>1, <3>2, ZenonT(40) DEF TypeOK
  <2>3. /\ cursor' = [cursor EXCEPT ![r] = Position(r) + 1]
        /\ scanned' = [scanned EXCEPT ![r] = TRUE]
        /\ UNCHANGED <<bufVars, now, closed, fired, writer, closer, closerCh, done,
                       waitCh, log, eof>>
    BY <1>6 DEF ReadOne, TooOld
  <2> QED
    BY <2>1, <2>2, <2>3 DEF TypeOK, bufVars
<1>7. ASSUME NEW r \in Readers, ReadNone(r) PROVE TypeOK'
  <2>1. Position(r) \in Nat
    BY PositionProp
  <2> QED
    BY <1>7, <2>1, ZenonT(40) DEF ReadNone, TypeOK, bufVars
<1>8. CASE UNCHANGED vars
  BY <1>8 DEF vars, TypeOK
<1> QED
  BY <1>1, <1>2, <1>3, <1>4, <1>5, <1>6, <1>7, <1>8 DEF Next, Reader

\* Every step keeps the window a piece of the log.
LEMMA WindowStep == IInv /\ [Next]_vars => WindowInv'
<1> SUFFICES ASSUME IInv, [Next]_vars PROVE WindowInv'
  OBVIOUS
<1>1. ASSUME NEW w \in Times \cup {Unset}, WritePacket(w) PROVE WindowInv'
  BY <1>1, WriteStep, Zenon DEF IInv, WindowInv
<1>2. CASE UNCHANGED <<log, pkts, baseOffset>>
  BY <1>2 DEF IInv, WindowInv
<1> QED
  BY <1>1, <1>2, Zenon DEF Next, Reader, vars, bufVars, Tick, WakeReaders, CloseFlag, CloseSwap,
     CloseWake, ReadCall, ReadOne, ReadNone, Woken, CtxDone, DemuxerClose

\* Every step keeps the cursors inside the log.
LEMMA CursorStep == IInv /\ [Next]_vars => CursorInv'
<1> SUFFICES ASSUME IInv, [Next]_vars, NEW q \in Readers
             PROVE  /\ Stream!LastGot(q)' <= cursor'[q]
                    /\ cursor'[q] <= Len(log')
                    /\ ~scanned'[q] => cursor'[q] = 0
                    /\ \A i \in Stream!LastGot(q)' + 1 .. cursor'[q] :
                         i <= baseOffset' \/ log'[i].wall < Since[q]
  BY DEF CursorInv
<1>0. /\ Stream!LastGot(q) <= cursor[q] /\ cursor[q] <= Len(log)
      /\ ~scanned[q] => cursor[q] = 0
      /\ \A i \in Stream!LastGot(q) + 1 .. cursor[q] :
           i <= baseOffset \/ log[i].wall < Since[q]
      /\ Stream!LastGot(q) \in Nat /\ cursor[q] \in Nat
      /\ Len(log) \in Nat /\ baseOffset \in Nat
  BY LastGotProp, LogWalls DEF IInv, CursorInv, TypeOK
<1>1. ASSUME NEW w \in Times \cup {Unset}, WritePacket(w)
      PROVE  /\ Stream!LastGot(q)' <= cursor'[q]
             /\ cursor'[q] <= Len(log')
             /\ ~scanned'[q] => cursor'[q] = 0
             /\ \A i \in Stream!LastGot(q)' + 1 .. cursor'[q] :
                  i <= baseOffset' \/ log'[i].wall < Since[q]
  <2>1. Stream!LastGot(q)' = Stream!LastGot(q) /\ cursor' = cursor /\ scanned' = scanned
    BY <1>1, LastGotProp DEF IInv, WritePacket, readerVars
  <2>2. /\ Len(log') = Len(log) + 1
        /\ \A i \in 1 .. Len(log) : log'[i] = log[i]
        /\ baseOffset' \in Nat /\ baseOffset <= baseOffset'
    BY <1>1, WriteStep DEF IInv
  <2>3. ASSUME NEW i \in Stream!LastGot(q) + 1 .. cursor[q]
        PROVE  i <= baseOffset' \/ log'[i].wall < Since[q]
    <3>1. i \in 1 .. Len(log)
      BY <1>0
    <3>2. log'[i] = log[i]
      BY <3>1, <2>2
    <3> QED
      BY <1>0, <2>2, <3>1, <3>2
  <2> QED
    BY <1>0, <2>1, <2>2, <2>3, SMTT(40)
<1>2. CASE UNCHANGED <<log, baseOffset, got, cursor, scanned>>
  <2>1. Stream!LastGot(q)' = Stream!LastGot(q)
    BY <1>2, LastGotProp DEF IInv
  <2> QED
    BY <1>0, <1>2, <2>1
<1>3. ASSUME NEW r \in Readers, ReadOne(r) \/ ReadNone(r)
      PROVE  /\ Stream!LastGot(q)' <= cursor'[q]
             /\ cursor'[q] <= Len(log')
             /\ ~scanned'[q] => cursor'[q] = 0
             /\ \A i \in Stream!LastGot(q)' + 1 .. cursor'[q] :
                  i <= baseOffset' \/ log'[i].wall < Since[q]
  <2>0. /\ cursor \in [Readers -> Nat] /\ scanned \in [Readers -> BOOLEAN]
        /\ got \in [Readers -> Seq(Nat)] /\ log' = log /\ baseOffset' = baseOffset
        /\ Since[q] \in Int
        /\ \A i \in 1 .. Len(log) : log[i].wall \in Int
    BY <1>3, LogWalls, Zenon DEF IInv, TypeOK, ReadOne, ReadNone, bufVars
  <2>1. CASE q # r
    <3>1. cursor'[q] = cursor[q] /\ scanned'[q] = scanned[q] /\ got'[q] = got[q]
      BY <1>3, <2>0, <2>1, Zenon DEF ReadOne, TooOld, ReadNone
    <3>2. Stream!LastGot(q)' = Stream!LastGot(q)
      BY <3>1, LastGotProp DEF IInv
    <3> QED
      BY <1>0, <2>0, <3>1, <3>2, Zenon
  <2>2. CASE q = r
    <3> DEFINE c == Position(q)
    <3>1. /\ c \in Nat /\ baseOffset <= c /\ c <= Len(log) /\ cursor[q] <= c
          /\ \A i \in cursor[q] + 1 .. c : i <= baseOffset \/ log[i].wall < Since[q]
      BY PositionProp DEF IInv
    <3>2. scanned'[q] = TRUE
      BY <1>3, <2>0, <2>2, Zenon DEF ReadOne, TooOld, ReadNone
    <3>3. CASE ReadNone(r)
      <4>1. cursor'[q] = c /\ got'[q] = got[q]
        BY <3>3, <2>0, <2>2, Zenon DEF ReadNone
      <4> HIDE DEF c
      <4>2. Stream!LastGot(q)' = Stream!LastGot(q)
        BY <4>1, LastGotProp DEF IInv
      <4> QED
        BY <1>0, <2>0, <3>1, <3>2, <4>1, <4>2
    <3>4. CASE ReadOne(r)
      <4> DEFINE p == pkts[c - baseOffset + 1]
      <4>1. cursor'[q] = c + 1 /\ c - baseOffset < Len(pkts)
        BY <3>4, <2>0, <2>2 DEF ReadOne, TooOld
      <4>2. c + 1 <= Len(log) /\ p = log[c + 1]
        <5>1. Len(log) = baseOffset + Len(pkts) /\ Len(pkts) \in Nat
          BY LogWalls DEF IInv, WindowInv
        <5>2. c - baseOffset + 1 \in 1 .. Len(pkts) /\ baseOffset + (c - baseOffset + 1) = c + 1
          BY <1>0, <3>1, <4>1, <5>1
        <5> QED
          BY <1>0, <3>1, <4>1, <5>1, <5>2, SMTT(40) DEF IInv, WindowInv
      <4>3. CASE p.wall < Since[q]
        <5>1. got'[q] = got[q]
          BY <3>4, <4>3, <2>2, Zenon DEF ReadOne, TooOld
        <5> HIDE DEF c, p
        <5>2. Stream!LastGot(q)' = Stream!LastGot(q)
          BY <5>1, LastGotProp DEF IInv
        <5>3. ASSUME NEW i \in Stream!LastGot(q) + 1 .. c + 1
              PROVE  i <= baseOffset \/ log[i].wall < Since[q]
          <6>1. i \in Stream!LastGot(q) + 1 .. cursor[q] \/ i \in cursor[q] + 1 .. c \/ i = c + 1
            BY <1>0, <3>1
          <6> QED
            BY <6>1, <1>0, <3>1, <4>2, <4>3
        <5> QED
          BY <1>0, <2>0, <3>1, <3>2, <4>1, <4>2, <5>2, <5>3
      <4>4. CASE ~(p.wall < Since[q])
        <5>1. got'[q] = Append(got[q], c + 1)
          BY <3>4, <4>4, <2>0, <2>2, Zenon DEF ReadOne, TooOld
        <5> HIDE DEF c, p
        <5>2. Stream!LastGot(q)' = c + 1
          <6>1. c + 1 \in Nat
            BY <3>1
          <6> QED
            BY <5>1, <6>1, LastGotProp DEF IInv
        <5> QED
          BY <1>0, <2>0, <3>1, <3>2, <4>1, <4>2, <5>2
      <4> QED
        BY <4>3, <4>4
    <3> QED
      BY <1>3, <3>3, <3>4
  <2> QED
    BY <2>1, <2>2
<1> QED
  BY <1>1, <1>2, <1>3, Zenon DEF Next, Reader, vars, bufVars, readerVars, Tick, WakeReaders, CloseFlag,
     CloseSwap, CloseWake, ReadCall, Woken, CtxDone, DemuxerClose

\* No step loses a wake-up.
LEMMA WakeupStep == IInv /\ [Next]_vars => NoLostWakeup'
<1> DEFINE Awake(q) ==
      \/ waitCh[q] \in fired
      \/ writer # 0 /\ waitCh[q] = writer
      \/ closer = "swapped" /\ waitCh[q] = closerCh
      \/ /\ waitCh[q] = notify
         /\ cursor[q] = baseOffset + Len(pkts)
         /\ closed => closer = "flagged"
<1> SUFFICES ASSUME IInv, [Next]_vars, NEW q \in Readers, rpc'[q] = "wait"
             PROVE  Awake(q)'
  BY Zenon DEF NoLostWakeup
<1>0. rpc[q] = "wait" => Awake(q)
  BY DEF IInv, NoLostWakeup
<1>1. CASE \E w \in Times \cup {Unset} : WritePacket(w)
  BY <1>0, <1>1, Zenon DEF WritePacket, readerVars, IInv, TypeOK
<1>2. CASE WakeReaders
  BY <1>0, <1>2, Zenon DEF WakeReaders, bufVars, readerVars
<1>3. CASE CloseFlag
  BY <1>0, <1>3 DEF CloseFlag, bufVars, readerVars
<1>4. CASE CloseSwap
  BY <1>0, <1>4 DEF CloseSwap, readerVars
<1>5. CASE CloseWake
  BY <1>0, <1>5 DEF CloseWake, bufVars, readerVars
<1>6. ASSUME NEW r \in Readers, ReadNone(r) PROVE Awake(q)'
  <2>0. UNCHANGED <<pkts, baseOffset, notify, closed, fired, writer, closer, closerCh>>
    BY <1>6 DEF ReadNone, bufVars
  <2>1. CASE q # r
    <3>1. rpc'[q] = rpc[q] /\ waitCh'[q] = waitCh[q] /\ cursor'[q] = cursor[q]
      BY <1>6, <2>1 DEF ReadNone, IInv, TypeOK
    <3> QED
      BY <1>0, <2>0, <3>1
  <2>2. CASE q = r
    <3>1. ~closed /\ waitCh'[q] = notify /\ cursor'[q] = Position(q)
          /\ Position(q) - baseOffset >= Len(pkts)
      BY <1>6, <2>2 DEF ReadNone, IInv, TypeOK
    <3>2. Position(q) = baseOffset + Len(pkts)
      <4>1. Position(q) \in Nat /\ Position(q) <= Len(log)
        BY PositionProp DEF IInv
      <4>2. Len(log) = baseOffset + Len(pkts) /\ Len(pkts) \in Nat /\ baseOffset \in Nat
        BY LogWalls DEF IInv, TypeOK, WindowInv
      <4> QED
        BY <3>1, <4>1, <4>2
    <3> QED
      BY <2>0, <3>1, <3>2
  <2> QED
    BY <2>1, <2>2
<1>7. ASSUME NEW r \in Readers, ReadCall(r) \/ ReadOne(r) \/ Woken(r) \/ CtxDone(r)
      PROVE  Awake(q)'
  <2>1. UNCHANGED <<pkts, baseOffset, notify, closed, fired, writer, closer, closerCh, waitCh>>
    BY <1>7, Zenon DEF ReadCall, ReadOne, Woken, CtxDone, bufVars
  <2>2. q # r /\ rpc[q] = "wait" /\ cursor'[q] = cursor[q]
    BY <1>7, Zenon DEF ReadCall, ReadOne, Woken, CtxDone, IInv, TypeOK
  <2> QED
    BY <1>0, <2>1, <2>2, Zenon
<1>8. CASE Tick \/ (\E r \in Readers : DemuxerClose(r)) \/ UNCHANGED vars
  BY <1>0, <1>8, Zenon DEF Tick, DemuxerClose, vars, bufVars, readerVars
<1> QED
  BY <1>1, <1>2, <1>3, <1>4, <1>5, <1>6, <1>7, <1>8, Zenon DEF Next, Reader

\* No step makes a reader miss a packet that was neither evicted nor old.
LEMMA MissedStep == IInv /\ [Next]_vars => OnlyEvictedOrOldMissed'
<1> DEFINE Given(q) == { got[q][k] : k \in DOMAIN got[q] }
<1> SUFFICES ASSUME IInv, [Next]_vars, NEW q \in Readers, NEW i \in 1 .. Len(log'),
                    i <= cursor'[q]
             PROVE  i \in Given(q)' \/ log'[i].wall < Since[q] \/ i <= baseOffset'
  BY DEF OnlyEvictedOrOldMissed
<1>0. /\ i \in 1 .. Len(log) /\ i <= cursor[q] =>
           i \in Given(q) \/ log[i].wall < Since[q] \/ i <= baseOffset
      /\ cursor[q] \in Nat /\ cursor[q] <= Len(log) /\ Len(log) \in Nat
      /\ baseOffset \in Nat
  BY LogWalls DEF IInv, OnlyEvictedOrOldMissed, CursorInv, TypeOK
<1>1. ASSUME NEW w \in Times \cup {Unset}, WritePacket(w)
      PROVE  i \in Given(q)' \/ log'[i].wall < Since[q] \/ i <= baseOffset'
  <2>1. /\ Len(log') = Len(log) + 1
        /\ \A k \in 1 .. Len(log) : log'[k] = log[k]
        /\ baseOffset' \in Nat /\ baseOffset <= baseOffset'
    BY <1>1, WriteStep DEF IInv
  <2>2. cursor' = cursor /\ got' = got
    BY <1>1 DEF WritePacket, readerVars
  <2>3. i \in 1 .. Len(log) /\ i <= cursor[q]
    BY <1>0, <2>1, <2>2
  <2>4. log'[i] = log[i] /\ Given(q)' = Given(q)
    BY <2>1, <2>2, <2>3
  <2>5. i <= baseOffset => i <= baseOffset'
    BY <1>0, <2>1
  <2> HIDE DEF Given
  <2> QED
    BY <1>0, <2>3, <2>4, <2>5
<1>2. CASE UNCHANGED <<log, baseOffset, got, cursor>>
  BY <1>0, <1>2
<1>3. ASSUME NEW r \in Readers, ReadOne(r) \/ ReadNone(r)
      PROVE  i \in Given(q)' \/ log'[i].wall < Since[q] \/ i <= baseOffset'
  <2>0. log' = log /\ baseOffset' = baseOffset
    BY <1>3, Zenon DEF ReadOne, TooOld, ReadNone, bufVars
  <2>1. CASE q # r
    <3>1. cursor'[q] = cursor[q] /\ got'[q] = got[q]
      BY <1>3, <2>1 DEF ReadOne, TooOld, ReadNone, IInv, TypeOK
    <3> QED
      BY <1>0, <2>0, <3>1
  <2>2. CASE q = r
    <3> DEFINE c == Position(q)
    <3>1. /\ c \in Nat /\ baseOffset <= c /\ c <= Len(log) /\ cursor[q] <= c
          /\ \A k \in cursor[q] + 1 .. c : k <= baseOffset \/ log[k].wall < Since[q]
      BY PositionProp DEF IInv
    <3>2. CASE ReadNone(r)
      <4>1. cursor'[q] = c /\ got'[q] = got[q]
        BY <3>2, <2>2 DEF ReadNone, IInv, TypeOK
      <4> HIDE DEF c
      <4>2. i <= cursor[q] \/ i \in cursor[q] + 1 .. c
        BY <1>0, <3>1, <4>1, <2>0
      <4> QED
        BY <1>0, <2>0, <3>1, <4>1, <4>2, Zenon
    <3>3. CASE ReadOne(r)
      <4> DEFINE p == pkts[c - baseOffset + 1]
      <4>1. cursor'[q] = c + 1 /\ c - baseOffset < Len(pkts)
        BY <3>3, <2>2, Zenon DEF ReadOne, TooOld, IInv, TypeOK
      <4>2. p = log[c + 1]
        <5>1. Len(log) = baseOffset + Len(pkts) /\ Len(pkts) \in Nat
          BY LogWalls DEF IInv, WindowInv
        <5>2. c - baseOffset + 1 \in 1 .. Len(pkts) /\ baseOffset + (c - baseOffset + 1) = c + 1
          BY <1>0, <3>1, <4>1, <5>1
        <5> QED
          BY <5>2 DEF IInv, WindowInv
      <4>3. /\ p.wall < Since[q] => got'[q] = got[q]
            /\ ~(p.wall < Since[q]) => got'[q] = Append(got[q], c + 1)
        BY <3>3, <2>2, Zenon DEF ReadOne, TooOld, IInv, TypeOK
      <4> HIDE DEF c, p
      <4>4. Given(q) \subseteq Given(q)' /\ (~(p.wall < Since[q]) => c + 1 \in Given(q)')
        <5>1. got[q] \in Seq(Nat) /\ c + 1 \in Nat
          BY <3>1 DEF IInv, TypeOK
        <5>2. CASE p.wall < Since[q]
          BY <4>3, <5>2, Zenon
        <5>3. CASE ~(p.wall < Since[q])
          <6>1. /\ got'[q] \in Seq(Nat) /\ Len(got'[q]) = Len(got[q]) + 1
                /\ \A k \in 1 .. Len(got[q]) : got'[q][k] = got[q][k]
                /\ got'[q][Len(got[q]) + 1] = c + 1
            <7>1. got'[q] = Append(got[q], c + 1)
              BY <4>3, <5>3
            <7> QED
              BY <7>1, <5>1, AppendProperties
          <6>2. /\ DOMAIN got[q] = 1 .. Len(got[q]) /\ Len(got[q]) \in Nat
                /\ DOMAIN got'[q] = 1 .. Len(got'[q])
            BY <5>1, <6>1
          <6>3. /\ \A k \in DOMAIN got[q] : k \in DOMAIN got'[q] /\ got'[q][k] = got[q][k]
                /\ Len(got[q]) + 1 \in DOMAIN got'[q]
            BY <6>1, <6>2, SMTT(40)
          <6> QED
            BY <6>1, <6>3
        <5> QED
          BY <5>2, <5>3, ZenonT(40)
      <4>5. i <= cursor[q] \/ i \in cursor[q] + 1 .. c \/ i = c + 1
        BY <1>0, <3>1, <4>1, <2>0
      <4> HIDE DEF Given
      <4> QED
        BY <1>0, <2>0, <3>1, <4>1, <4>2, <4>4, <4>5, Zenon
    <3> QED
      BY <1>3, <3>2, <3>3, Zenon
  <2> QED
    BY <2>1, <2>2
<1> QED
  BY <1>1, <1>2, <1>3, Zenon DEF Next, Reader, vars, bufVars, readerVars, Tick, WakeReaders, CloseFlag,
     CloseSwap, CloseWake, ReadCall, Woken, CtxDone, DemuxerClose

\* The variables of every reachable state have their types.
THEOREM TypeCorrect == Spec => []TypeOK
<1>1. IInv /\ [Next]_vars => IInv'
  BY TypeStep, WindowStep, CursorStep, WakeupStep, MissedStep DEF IInv
<1> QED
  BY <1>1, InitIInv, PTL DEF Spec, IInv

\* No reader of the buffer sleeps through a write or the close: its channel is
\* closed or about to be, unless there is nothing for it to read
\* (buffer.go:54-61, 66-74, 204-209).
THEOREM WakeupsAreNotLost == Spec => []NoLostWakeup
<1>1. IInv /\ [Next]_vars => IInv'
  BY TypeStep, WindowStep, CursorStep, WakeupStep, MissedStep DEF IInv
<1> QED
  BY <1>1, InitIInv, PTL DEF Spec, IInv

\* What a reader's cursor has passed it was given, unless it is older than the
\* reader asked for or was evicted (buffer.go:162-197).
THEOREM NothingElseMissed == Spec => []OnlyEvictedOrOldMissed
<1>1. IInv /\ [Next]_vars => IInv'
  BY TypeStep, WindowStep, CursorStep, WakeupStep, MissedStep DEF IInv
<1> QED
  BY <1>1, InitIInv, PTL DEF Spec, IInv

-----------------------------------------------------------------------------
(***************************************************************************)
(* Refinement.                                                             *)
(***************************************************************************)

\* Every step is one of the abstract stream, or none.
LEMMA StreamStep == IInv /\ [Next]_vars => [Stream!SNext]_(Stream!svars)
<1> SUFFICES ASSUME IInv, [Next]_vars PROVE [Stream!SNext]_(Stream!svars)
  OBVIOUS
<1>1. ASSUME NEW w \in Times \cup {Unset}, WritePacket(w) PROVE Stream!SNext
  <2>1. PICK p \in Pkt : log' = Append(log, p)
    BY <1>1, WriteStep DEF IInv
  <2>2. baseOffset' \in baseOffset .. Len(log')
    <3>1. /\ baseOffset' \in Nat /\ baseOffset <= baseOffset' /\ pkts' \in Seq(Pkt)
          /\ Len(log') = baseOffset' + Len(pkts')
      BY <1>1, WriteStep DEF IInv
    <3>2. Len(pkts') \in Nat /\ baseOffset \in Nat
      BY <3>1 DEF IInv, TypeOK
    <3> QED
      BY <3>1, <3>2
  <2>3. ~closed /\ UNCHANGED <<closed, got, eof>>
    BY <1>1 DEF WritePacket, readerVars
  <2> QED
    BY <2>1, <2>2, <2>3 DEF Stream!SNext, Stream!Push
<1>2. CASE CloseFlag
  BY <1>2 DEF CloseFlag, bufVars, readerVars, Stream!SNext, Stream!Finish
<1>3. CASE UNCHANGED <<log, baseOffset, closed, got, eof>>
  BY <1>3 DEF Stream!svars
<1>4. ASSUME NEW r \in Readers, ReadOne(r) \/ ReadNone(r)
      PROVE  Stream!SNext \/ UNCHANGED <<log, baseOffset, closed, got, eof>>
  <2> DEFINE c == Position(r)
  <2>0. UNCHANGED <<log, baseOffset, closed>>
    BY <1>4 DEF ReadOne, TooOld, ReadNone, bufVars
  <2>1. /\ c \in Nat /\ baseOffset <= c /\ c <= Len(log) /\ cursor[r] <= c
        /\ \A k \in cursor[r] + 1 .. c : k <= baseOffset \/ log[k].wall < Since[r]
    BY PositionProp DEF IInv
  <2>2. /\ Stream!LastGot(r) \in Nat /\ Stream!LastGot(r) <= cursor[r]
        /\ \A k \in Stream!LastGot(r) + 1 .. cursor[r] :
             k <= baseOffset \/ log[k].wall < Since[r]
        /\ cursor[r] \in Nat /\ baseOffset \in Nat /\ Len(pkts) \in Nat
        /\ Len(log) = baseOffset + Len(pkts) /\ Since[r] \in Int
        /\ \A k \in 1 .. Len(log) : log[k].wall \in Int
    BY LastGotProp, LogWalls, Zenon DEF IInv, CursorInv, TypeOK, WindowInv
  <2>3. \A k \in Stream!Eligible(r) : k \in Nat /\ k > c
    <3> HIDE DEF c
    <3> SUFFICES ASSUME NEW k \in Stream!Eligible(r) PROVE k \in Nat /\ k > c
      OBVIOUS
    <3>1. /\ k \in Stream!LastGot(r) + 1 .. Len(log)
          /\ k > baseOffset /\ log[k].wall >= Since[r]
      BY Zenon DEF Stream!Eligible
    <3>2. k \in Nat /\ log[k].wall \in Int
      BY <2>2, <3>1
    <3>3. ~(k <= baseOffset \/ log[k].wall < Since[r])
      BY <2>2, <3>1, <3>2
    <3> QED
      BY <2>1, <2>2, <3>1, <3>2, <3>3
  <2>4. CASE ReadNone(r)
    <3>1. UNCHANGED got /\ (closed => eof' = eof \cup {r}) /\ (~closed => UNCHANGED eof)
          /\ c - baseOffset >= Len(pkts)
      BY <2>4 DEF ReadNone
    <3>2. Stream!Eligible(r) = {}
      <4> HIDE DEF c
      <4> SUFFICES ASSUME NEW k \in Stream!Eligible(r) PROVE FALSE
        OBVIOUS
      <4>1. k \in Stream!LastGot(r) + 1 .. Len(log)
        BY DEF Stream!Eligible
      <4> QED
        BY <2>1, <2>2, <2>3, <3>1, <4>1
    <3> QED
      BY <2>0, <3>1, <3>2 DEF Stream!SNext, Stream!EndOfStream
  <2>5. CASE ReadOne(r)
    <3> DEFINE p == pkts[c - baseOffset + 1]
    <3>1. c - baseOffset < Len(pkts) /\ UNCHANGED eof
      BY <2>5, Zenon DEF ReadOne, TooOld
    <3>2. p = log[c + 1] /\ c + 1 <= Len(log)
      <4>1. c - baseOffset + 1 \in 1 .. Len(pkts) /\ baseOffset + (c - baseOffset + 1) = c + 1
            /\ c + 1 <= Len(log)
        BY <2>1, <2>2, <3>1
      <4> QED
        BY <4>1 DEF IInv, WindowInv
    <3>3. CASE p.wall < Since[r]
      BY <2>0, <2>5, <3>1, <3>3, Zenon DEF ReadOne, TooOld
    <3>4. CASE ~(p.wall < Since[r])
      <4>1. got' = [got EXCEPT ![r] = Append(@, c + 1)]
        BY <2>5, <3>4, Zenon DEF ReadOne, TooOld
      <4> HIDE DEF c, p
      <4>2. c + 1 \in Stream!Eligible(r)
        <5>1. c + 1 \in 1 .. Len(log) /\ c + 1 \in Stream!LastGot(r) + 1 .. Len(log)
              /\ c + 1 > baseOffset
          BY <2>1, <2>2, <3>2
        <5>2. log[c + 1].wall \in Int
          BY <2>2, <5>1, Zenon
        <5>3. log[c + 1].wall >= Since[r]
          BY <2>2, <3>2, <3>4, <5>2
        <5> QED
          BY <5>1, <5>3 DEF Stream!Eligible
      <4>3. \A k \in Stream!Eligible(r) : c + 1 <= k
        BY <2>1, <2>3
      <4> QED
        BY <2>0, <3>1, <4>1, <4>2, <4>3 DEF Stream!SNext, Stream!Deliver
    <3> QED
      BY <3>3, <3>4
  <2> QED
    BY <1>4, <2>4, <2>5
<1> QED
  BY <1>1, <1>2, <1>3, <1>4, Zenon DEF Next, Reader, vars, bufVars, readerVars, Tick, WakeReaders,
     CloseSwap, CloseWake, ReadCall, Woken, CtxDone, DemuxerClose

\* The ring buffer with cursors and wake-up channels implements the abstract
\* replay stream: each read returns the earliest retained packet not older
\* than asked for that follows the last one returned, and io.EOF is reported
\* only when a closed buffer holds no such packet (buffer.go:149-211).
THEOREM BufferImplementsStream == Spec => StreamSpec
<1>1. IInv /\ [Next]_vars => IInv'
  BY TypeStep, WindowStep, CursorStep, WakeupStep, MissedStep DEF IInv
<1>2. Init => Stream!SInit
  BY DEF Init, Stream!SInit
<1> QED
  BY <1>1, <1>2, InitIInv, StreamStep, PTL DEF Spec, StreamSpec, Stream!SSpec
=============================================================================
