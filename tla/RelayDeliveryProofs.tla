-------------------------- MODULE RelayDeliveryProofs --------------------------
(***************************************************************************)
(* Proofs about RelayDelivery for any number of consumers, any queue size  *)
(* and any number of packets.                                              *)
(***************************************************************************)
EXTENDS RelayDelivery, FiniteSetTheorems, SequenceTheorems, WellFoundedInduction, TLAPS

(***************************************************************************)
(* The inductive invariant.                                                *)
(***************************************************************************)

EndsLive(c) == deliv[c] # <<>> /\ deliv[c][Len(deliv[c])].how = "live"
LastPut(c)  == deliv[c][Len(deliv[c])].i

\* The consumers that the loop has still to serve the current packet, and the
\* last packet a consumer has been considered for.
Due(c)  == lpc = "snapshot" \/ c \in pend
Upto(c) == IF Due(c) THEN Cur - 1 ELSE Cur

\* The consumers that will be considered for the next packet.
Follows(c) == c \in attached \ dead \/ c \in pend

\* How far AddConsumer has come.
PhaseInv ==
  /\ lpc # "deliver" => pend = {}
  /\ \A c \in Consumers :
       /\ c \in attached \cup pend => jpc[c] = "in"
       /\ jpc[c] # "inject" => gop[c] = <<>>
       /\ jpc[c] = "out" => deliv[c] = <<>>
       /\ jpc[c] # "in" => \A k \in 1 .. Len(deliv[c]) : deliv[c][k].how = "gop"

\* What is still to be injected goes on where the injected packets end.
GopInv ==
  \A c \in Consumers :
    /\ \A k \in 1 .. Len(gop[c]) - 1 : gop[c][k + 1] = gop[c][k] + 1
    /\ gop[c] # <<>> /\ deliv[c] = <<>> => log[gop[c][1]].key /\ log[gop[c][1]].video
    /\ gop[c] # <<>> /\ deliv[c] # <<>> => gop[c][1] = LastPut(c) + 1

\* A consumer that is due has not got the current packet live.
DueInv ==
  \A c \in Consumers : Due(c) =>
    \A k \in 1 .. Len(deliv[c]) : deliv[c][k].how = "live" => deliv[c][k].i < Cur

LeakyInv ==
  /\ lpc \in {"snapshot", "deliver"} => Cur >= 1
  /\ lpc = "snapshot" => Cur \notin leaky
  /\ lpc = "deliver" => (Cur \in leaky <=> ~blocking)

\* A consumer that follows the stream missed only packets of leaky rounds, and
\* waits for a keyframe if it missed any.
GapInv ==
  \A c \in Consumers : EndsLive(c) =>
    /\ skipTo[c] = 0
    /\ ~done /\ Follows(c) => /\ \A i \in LastPut(c) + 1 .. Upto(c) : i \in leaky
                              /\ LastPut(c) < Upto(c) => needsKey[c]

IInv == /\ TypeOK /\ PhaseInv /\ GopInv /\ DueInv /\ LeakyInv /\ GapInv
        /\ DeliveredInOrder /\ PrimedFromKeyframe
        /\ BackpressureLosesNothing /\ ResyncOnKeyframe

\* What DeliveredInOrder says of two packets that follow each other, and GopInv
\* of what is injected, g, after what was put, s.
InOrder(p, q) == /\ q.how = "gop" => p.how = "gop"
                 /\ p.i < q.i \/ (p.i = q.i /\ p.how = "gop" /\ q.how # "gop")
GoesOn(l, g, s) == /\ \A k \in 1 .. Len(g) - 1 : g[k + 1] = g[k] + 1
                   /\ g # <<>> /\ s = <<>> => l[g[1]].key /\ l[g[1]].video
                   /\ g # <<>> /\ s # <<>> => g[1] = s[Len(s)].i + 1

-----------------------------------------------------------------------------
(***************************************************************************)
(* Operators.                                                              *)
(***************************************************************************)

\* A non-empty set of naturals has a least element.
LEMMA LeastNat ==
  ASSUME NEW T, T \subseteq Nat, T # {}
  PROVE  \E x \in T : \A y \in T : x <= y
<1>1. PICK x \in T : \A y \in T : ~(<<y, x>> \in OpToRel(<, Nat))
  BY NatLessThanWellFounded, WFMin
<1>2. ASSUME NEW y \in T PROVE x <= y
  <2>1. ~(<<y, x>> \in OpToRel(<, Nat))
    BY <1>1
  <2>2. x \in Nat /\ y \in Nat
    OBVIOUS
  <2>3. ~(y < x)
    BY <2>1, <2>2 DEF OpToRel
  <2> QED
    BY <2>2, <2>3
<1> QED
  BY <1>2

\* A non-empty set of positions of a sequence has a last element.
LEMMA LastPosition ==
  ASSUME NEW n \in Nat, NEW T, T \subseteq 1 .. n, T # {}
  PROVE  \E x \in T : \A y \in T : y <= x
<1>0. T \subseteq Int
  OBVIOUS
<1> DEFINE R == { n - x : x \in T }
<1>1. R \subseteq Nat /\ R # {}
  <2>1. \A x \in T : n - x \in Nat
    OBVIOUS
  <2>2. PICK x \in T : TRUE
    BY Zenon
  <2>3. n - x \in R
    OBVIOUS
  <2> QED
    BY <2>1, <2>3
<1>2. PICK r \in R : \A y \in R : r <= y
  <2> HIDE DEF R
  <2> QED
    BY <1>1, LeastNat, Zenon
<1>3. PICK x \in T : r = n - x
  OBVIOUS
<1>4. ASSUME NEW y \in T PROVE y <= x
  <2>1. n - y \in R
    BY Zenon
  <2>3. x \in Int /\ y \in Int
    BY <1>0, Zenon
  <2>2. n - x <= n - y
    BY <1>2, <1>3, <2>1
  <2> QED
    BY <2>2, <2>3
<1> QED
  BY <1>4

\* LastGOP is empty or a suffix that starts with a video keyframe.
LEMMA LastGOPProp ==
  ASSUME NEW s \in Seq(Pkt)
  PROVE  LET n == Len(LastGOP(s))
         IN  /\ n \in 0 .. Len(s)
             /\ n > 0 => s[Len(s) - n + 1].key /\ s[Len(s) - n + 1].video
<1> DEFINE keys == { i \in DOMAIN s : s[i].key /\ s[i].video }
           first == CHOOSE i \in keys : \A j \in keys : j <= i
<1>1. Len(s) \in Nat /\ DOMAIN s = 1 .. Len(s)
  OBVIOUS
<1>2. CASE keys = {}
  <2>1. LastGOP(s) = <<>>
    BY <1>2 DEF LastGOP
  <2> QED
    BY <1>1, <2>1
<1>3. CASE keys # {}
  <2>1. \E i \in keys : \A j \in keys : j <= i
    <3>1. keys \subseteq 1 .. Len(s)
      BY <1>1
    <3> HIDE DEF keys
    <3> QED
      BY <1>1, <1>3, <3>1, LastPosition, Zenon
  <2>2. first \in keys
    <3> HIDE DEF keys
    <3> QED
      BY <2>1
  <2>3. first \in 1 .. Len(s) /\ s[first].key /\ s[first].video
    BY <1>1, <2>2
  <2>4. LastGOP(s) = SubSeq(s, first, Len(s))
    BY <1>3, Zenon DEF LastGOP
  <2> HIDE DEF first
  <2>5. Len(LastGOP(s)) = Len(s) - first + 1
    BY <1>1, <2>3, <2>4, SubSeqProperties
  <2>6. Len(s) - Len(LastGOP(s)) + 1 = first
    BY <1>1, <2>3, <2>5
  <2> QED
    BY <1>1, <2>3, <2>5, <2>6
<1> QED
  BY <1>2, <1>3

\* A sequence over a set is one over any larger set.
LEMMA SeqOfMore ==
  ASSUME NEW A, NEW B, A \subseteq B
  PROVE  Seq(A) \subseteq Seq(B)
<1> SUFFICES ASSUME NEW s \in Seq(A) PROVE s \in Seq(B)
  OBVIOUS
<1>1. Len(s) \in Nat /\ s \in [1 .. Len(s) -> B]
  OBVIOUS
<1> QED
  BY <1>1

-----------------------------------------------------------------------------
(***************************************************************************)
(* Facts about the state.                                                  *)
(***************************************************************************)

Put1 == [i : 1 .. Len(log), how : {"gop", "live"}]

\* The types of what a relay and its consumers hold.
LEMMA Types ==
  ASSUME TypeOK
  PROVE  /\ log \in Seq(Pkt) /\ Cur \in Nat
         /\ \A c \in Consumers :
              /\ deliv[c] \in Seq(Put1) /\ gop[c] \in Seq(1 .. Len(log))
              /\ Len(deliv[c]) \in Nat /\ Len(gop[c]) \in Nat
              /\ deliv[c] = <<>> <=> Len(deliv[c]) = 0
              /\ DOMAIN deliv[c] = 1 .. Len(deliv[c])
              /\ gop[c] = <<>> <=> Len(gop[c]) = 0
              /\ \A k \in 1 .. Len(deliv[c]) : /\ deliv[c][k].i \in 1 .. Cur
                                               /\ deliv[c][k].how \in {"gop", "live"}
              /\ \A k \in 1 .. Len(gop[c]) : gop[c][k] \in 1 .. Cur
<1>1. log \in Seq(Pkt) /\ Cur \in Nat
  BY DEF TypeOK, Cur
<1>2. ASSUME NEW c \in Consumers
      PROVE  deliv[c] \in Seq(Put1) /\ gop[c] \in Seq(1 .. Len(log))
  BY Zenon DEF TypeOK, Put1
<1>3. ASSUME NEW c \in Consumers
      PROVE  /\ \A k \in 1 .. Len(deliv[c]) : deliv[c][k] \in Put1
             /\ \A k \in 1 .. Len(gop[c]) : gop[c][k] \in 1 .. Cur
             /\ Len(deliv[c]) \in Nat /\ Len(gop[c]) \in Nat
             /\ deliv[c] = <<>> <=> Len(deliv[c]) = 0
             /\ DOMAIN deliv[c] = 1 .. Len(deliv[c])
             /\ gop[c] = <<>> <=> Len(gop[c]) = 0
  BY <1>2, EmptySeq, SMTT(40) DEF Cur
<1>4. \A p \in Put1 : p.i \in 1 .. Cur /\ p.how \in {"gop", "live"}
  BY DEF Put1, Cur
<1> QED
  BY <1>1, <1>2, <1>3, <1>4

\* A step that leaves the group of pictures and how far AddConsumer is alone.
LEMMA JoinKept ==
  ASSUME PhaseInv, GopInv, UNCHANGED <<log, jpc, gop, deliv, pend>>,
         lpc' # "deliver" => pend = {},
         attached' \subseteq attached
  PROVE  PhaseInv' /\ GopInv'
<1>1. PhaseInv'
  BY DEF PhaseInv
<1>2. \A c \in Consumers : LastPut(c)' = LastPut(c)
  BY DEF LastPut
<1>3. GopInv'
  BY <1>2 DEF GopInv
<1> QED
  BY <1>1, <1>3

\* A step that leaves the packets, the loop and the deliveries alone.
LEMMA QuietStep ==
  ASSUME IInv, TypeOK',
         UNCHANGED <<log, lpc, pend, blocking, deliv, leaky, skipTo, needsKey>>,
         done => done',
         \A c \in Consumers : EndsLive(c) /\ c \in attached' \ dead' => c \in attached \ dead
  PROVE  /\ DueInv' /\ LeakyInv' /\ GapInv'
         /\ DeliveredInOrder' /\ PrimedFromKeyframe'
         /\ BackpressureLosesNothing' /\ ResyncOnKeyframe'
<1>1. DueInv'
  BY DEF IInv, DueInv, Due, Cur
<1>2. LeakyInv'
  BY DEF IInv, LeakyInv, Cur
<1>3. GapInv'
  <2> SUFFICES ASSUME NEW c \in Consumers, EndsLive(c)
               PROVE  /\ skipTo[c] = 0
                      /\ ~done' /\ Follows(c)' =>
                           /\ \A i \in LastPut(c) + 1 .. Upto(c) : i \in leaky
                           /\ LastPut(c) < Upto(c) => needsKey[c]
    BY DEF GapInv, EndsLive, LastPut, Upto, Due, Cur
  <2>1. Follows(c)' => Follows(c)
    BY DEF Follows
  <2> QED
    BY <2>1 DEF IInv, GapInv
<1>4. DeliveredInOrder' /\ PrimedFromKeyframe'
  BY DEF IInv, DeliveredInOrder, PrimedFromKeyframe
<1>5. BackpressureLosesNothing' /\ ResyncOnKeyframe'
  BY Zenon DEF IInv, BackpressureLosesNothing, ResyncOnKeyframe
<1> QED
  BY <1>1, <1>2, <1>3, <1>4, <1>5

\* The loop goes on without having put the packet on c's queue.
LEMMA PassOver ==
  ASSUME IInv, TypeOK', NEW c \in Consumers, lpc = "deliver", c \in pend, Served(c),
         UNCHANGED <<joinVars, log, blocking, done, leaky, deliv, attached, dead>>,
         \A d \in Consumers \ {c} : needsKey'[d] = needsKey[d],
         \A d \in Consumers : skipTo'[d] \in {0, skipTo[d]},
         ~done /\ EndsLive(c) => ~blocking /\ needsKey'[c]
  PROVE  IInv'
<1> USE DEF joinVars
<1>0. Cur' = Cur /\ Cur \in Nat
  BY Types DEF IInv, Cur
<1>1. PhaseInv'
  BY DEF IInv, PhaseInv, Served
<1>2. GopInv'
  BY DEF IInv, GopInv, LastPut
<1>3. DueInv'
  BY <1>0 DEF IInv, DueInv, Due, Served
<1>4. LeakyInv'
  BY <1>0 DEF IInv, LeakyInv, Served
<1>5. GapInv'
  <2> SUFFICES ASSUME NEW d \in Consumers, EndsLive(d)
               PROVE  /\ skipTo'[d] = 0
                      /\ ~done /\ Follows(d)' =>
                           /\ \A i \in LastPut(d) + 1 .. Upto(d)' : i \in leaky
                           /\ LastPut(d) < Upto(d)' => needsKey'[d]
    BY DEF GapInv, EndsLive, LastPut
  <2>1. skipTo'[d] = 0
    BY DEF IInv, GapInv
  <2>2. Follows(d)' => Follows(d)
    BY DEF Follows, Served
  <2>3. CASE d # c
    <3>1. Upto(d)' = Upto(d)
      BY <1>0, <2>3 DEF Upto, Due, Served
    <3> QED
      BY <2>1, <2>2, <2>3, <3>1 DEF IInv, GapInv
  <2>4. CASE d = c
    <3>1. Upto(c) = Cur - 1 /\ Upto(c)' = Cur
      BY <1>0 DEF Upto, Due, Served
    <3>2. LastPut(c) \in Nat
      BY <2>4, Types DEF IInv, EndsLive, LastPut
    <3>3. ~done => Cur \in leaky /\ needsKey'[c]
      BY <2>4 DEF IInv, LeakyInv
    <3>4. \A i \in LastPut(c) + 1 .. Cur : i \in LastPut(c) + 1 .. Cur - 1 \/ i = Cur
      BY <1>0, <3>2
    <3> QED
      BY <2>1, <2>2, <2>4, <3>1, <3>3, <3>4, Zenon DEF IInv, GapInv
  <2> QED
    BY <2>3, <2>4
<1>6. DeliveredInOrder' /\ PrimedFromKeyframe'
  BY DEF IInv, DeliveredInOrder, PrimedFromKeyframe
<1>7. BackpressureLosesNothing' /\ ResyncOnKeyframe'
  BY Zenon DEF IInv, BackpressureLosesNothing, ResyncOnKeyframe
<1> QED
  BY <1>1, <1>2, <1>3, <1>4, <1>5, <1>6, <1>7 DEF IInv

\* What appending to a consumer's deliveries does.
LEMMA Appended ==
  ASSUME TypeOK, NEW c \in Consumers, NEW p,
         deliv' = [deliv EXCEPT ![c] = Append(@, p)]
  PROVE  /\ \A d \in Consumers \ {c} : deliv'[d] = deliv[d]
         /\ Len(deliv'[c]) = Len(deliv[c]) + 1
         /\ DOMAIN deliv'[c] = 1 .. Len(deliv[c]) + 1
         /\ \A k \in 1 .. Len(deliv[c]) : deliv'[c][k] = deliv[c][k]
         /\ deliv'[c][Len(deliv[c]) + 1] = p
         /\ deliv'[c] # <<>>
<1>1. deliv \in [Consumers -> Seq(Put1)]
  BY Zenon DEF TypeOK, Put1
<1>2. deliv'[c] = Append(deliv[c], p) /\ \A d \in Consumers \ {c} : deliv'[d] = deliv[d]
  BY <1>1
<1>3. deliv[c] \in Seq(Put1 \cup {p}) /\ p \in Put1 \cup {p}
  <2>1. deliv[c] \in Seq(Put1)
    BY <1>1
  <2> QED
    BY <2>1
<1>4. /\ Append(deliv[c], p) \in Seq(Put1 \cup {p})
      /\ Len(Append(deliv[c], p)) = Len(deliv[c]) + 1
      /\ \A k \in 1 .. Len(deliv[c]) : Append(deliv[c], p)[k] = deliv[c][k]
      /\ Append(deliv[c], p)[Len(deliv[c]) + 1] = p
  BY <1>3, AppendProperties
<1>5. Append(deliv[c], p) # <<>>
  BY <1>3
<1> QED
  BY <1>2, <1>4, <1>5

\* The loop puts the current packet on c's queue.
LEMMA PutLive ==
  ASSUME IInv, TypeOK', NEW c \in Consumers, lpc = "deliver", c \in pend, Served(c),
         StopSkipping(c), Put(c),
         UNCHANGED <<joinVars, log, blocking, done, leaky, attached, dead>>,
         \A d \in Consumers \ {c} : needsKey'[d] = needsKey[d],
         ~blocking /\ needsKey[c] => log[Cur].key
  PROVE  IInv'
<1> USE DEF joinVars
<1> DEFINE n == Len(deliv[c])
           q == [i |-> Cur, how |-> "live"]
<1>0. Cur' = Cur /\ Cur \in Nat /\ n \in Nat
  BY Types DEF IInv, Cur
<1>1. /\ \A d \in Consumers \ {c} : deliv'[d] = deliv[d]
      /\ Len(deliv'[c]) = n + 1
      /\ DOMAIN deliv'[c] = 1 .. n + 1
      /\ \A k \in 1 .. n : deliv'[c][k] = deliv[c][k]
      /\ deliv'[c][n + 1] = q
      /\ deliv'[c] # <<>>
  BY Appended, Zenon DEF IInv, Put
<1>2. c \notin pend' /\ lpc' # "snapshot" /\ jpc[c] = "in" /\ gop[c] = <<>>
  BY DEF Served, IInv, PhaseInv
<1>3. \A d \in Consumers \ {c} : Due(d)' <=> Due(d)
  BY DEF Due, Served
<1>4. PhaseInv'
  <2>1. lpc' # "deliver" => pend' = {}
    BY DEF Served, IInv, PhaseInv
  <2>2. ASSUME NEW d \in Consumers
        PROVE  /\ d \in attached' \cup pend' => jpc'[d] = "in"
               /\ jpc'[d] # "inject" => gop'[d] = <<>>
               /\ jpc'[d] = "out" => deliv'[d] = <<>>
               /\ jpc'[d] # "in" => \A k \in 1 .. Len(deliv'[d]) : deliv'[d][k].how = "gop"
    <3>1. CASE d = c
      BY <1>2, <3>1
    <3>2. CASE d # c
      BY <1>1, <3>2 DEF Served, IInv, PhaseInv
    <3> QED
      BY <3>1, <3>2
  <2> QED
    BY <2>1, <2>2 DEF PhaseInv
<1>5. GopInv'
  <2> SUFFICES ASSUME NEW d \in Consumers
               PROVE  GoesOn(log, gop[d], deliv'[d])
    BY Zenon DEF GopInv, GoesOn, LastPut
  <2>0. GoesOn(log, gop[d], deliv[d])
    BY Zenon DEF IInv, GopInv, GoesOn, LastPut
  <2>1. CASE d = c
    BY <1>2, <2>0, <2>1, Zenon DEF GoesOn
  <2>2. CASE d # c
    <3>1. deliv'[d] = deliv[d]
      BY <1>1, <2>2, Zenon
    <3> QED
      BY <2>0, <3>1, Zenon
  <2> QED
    BY <2>1, <2>2, Zenon
<1>6. DueInv'
  <2> SUFFICES ASSUME NEW d \in Consumers, Due(d)', NEW k \in 1 .. Len(deliv'[d]),
                      deliv'[d][k].how = "live"
               PROVE  deliv'[d][k].i < Cur
    BY <1>0, Zenon DEF DueInv
  <2>1. d # c
    BY <1>2, Zenon DEF Due
  <2> QED
    BY <1>1, <1>3, <2>1, Zenon DEF IInv, DueInv
<1>7. LeakyInv'
  BY <1>0 DEF IInv, LeakyInv, Served
<1>8. GapInv'
  <2> SUFFICES ASSUME NEW d \in Consumers, EndsLive(d)'
               PROVE  /\ skipTo'[d] = 0
                      /\ ~done /\ Follows(d)' =>
                           /\ \A i \in LastPut(d)' + 1 .. Upto(d)' : i \in leaky
                           /\ LastPut(d)' < Upto(d)' => needsKey'[d]
    BY DEF GapInv
  <2>0. skipTo \in [Consumers -> 0 .. Len(log)]
    BY DEF IInv, TypeOK
  <2>1. CASE d = c
    <3>1. LastPut(c)' = Cur
      BY <1>0, <1>1 DEF LastPut
    <3>2. Upto(c)' = Cur
      BY <1>0, <1>2, Zenon DEF Upto, Due
    <3> QED
      BY <1>0, <2>0, <2>1, <3>1, <3>2 DEF StopSkipping
  <2>2. CASE d # c
    <3>1. EndsLive(d) /\ LastPut(d)' = LastPut(d) /\ Upto(d)' = Upto(d)
      BY <1>0, <1>1, <1>3, <2>2 DEF EndsLive, LastPut, Upto
    <3>2. Follows(d)' => Follows(d)
      BY DEF Follows, Served
    <3> QED
      BY <2>0, <2>2, <3>1, <3>2, Zenon DEF IInv, GapInv, StopSkipping
  <2> QED
    BY <2>1, <2>2
\* The pair of the packets put last.
<1>9. ASSUME n > 0
      PROVE  LET p == deliv[c][n]
             IN  /\ p.i \in 1 .. Cur /\ p.how \in {"gop", "live"}
                 /\ p.how = "live" => p.i < Cur
                 /\ ~done /\ p.how = "live" => /\ \A i \in p.i + 1 .. Cur - 1 : i \in leaky
                                               /\ Cur > p.i + 1 /\ Cur \in leaky => log[Cur].key
  <2> DEFINE p == deliv[c][n]
  <2>1. p.i \in 1 .. Cur /\ p.how \in {"gop", "live"} /\ deliv[c] # <<>>
    BY <1>0, <1>9, Types DEF IInv
  <2>2. p.how = "live" => p.i < Cur
    BY <1>0, <1>9 DEF IInv, DueInv, Due
  <2>3. ASSUME ~done, p.how = "live"
        PROVE  /\ \A i \in p.i + 1 .. Cur - 1 : i \in leaky
               /\ Cur > p.i + 1 /\ Cur \in leaky => log[Cur].key
    <3>1. EndsLive(c) /\ LastPut(c) = p.i /\ Upto(c) = Cur - 1 /\ Follows(c)
      BY <2>1, <2>3 DEF EndsLive, LastPut, Upto, Due, Follows
    <3>2. /\ \A i \in p.i + 1 .. Cur - 1 : i \in leaky
          /\ p.i < Cur - 1 => needsKey[c]
      BY <2>3, <3>1 DEF IInv, GapInv
    <3>3. Cur \in leaky => ~blocking
      BY DEF IInv, LeakyInv
    <3> QED
      BY <1>0, <2>1, <3>2, <3>3
  <2> QED
    BY <2>1, <2>2, <2>3, Zenon
<1> HIDE DEF q
<1>10. DeliveredInOrder'
  <2> SUFFICES ASSUME NEW d \in Consumers, NEW k \in 1 .. Len(deliv'[d]) - 1
               PROVE  InOrder(deliv'[d][k], deliv'[d][k + 1])
    BY Zenon DEF DeliveredInOrder, InOrder
  <2>1. CASE d # c
    <3>1. deliv'[d] = deliv[d]
      BY <1>1, <2>1, Zenon
    <3>2. k \in 1 .. Len(deliv[d]) - 1
      BY <3>1, Zenon
    <3>3. InOrder(deliv[d][k], deliv[d][k + 1])
      BY <3>2, Zenon DEF IInv, DeliveredInOrder, InOrder
    <3> QED
      BY <3>1, <3>3, Zenon
  <2>2. CASE d = c /\ k < n
    <3>1. k \in 1 .. n - 1 /\ k + 1 \in 1 .. n /\ k \in 1 .. n
      BY <1>0, <1>1, <2>2
    <3>2. deliv'[d][k] = deliv[c][k] /\ deliv'[d][k + 1] = deliv[c][k + 1]
      BY <1>1, <2>2, <3>1, Zenon
    <3>3. InOrder(deliv[c][k], deliv[c][k + 1])
      <4>1. k \in 1 .. Len(deliv[c]) - 1
        BY <3>1, Zenon
      <4> QED
        BY <4>1, Zenon DEF IInv, DeliveredInOrder, InOrder
    <3> QED
      BY <3>2, <3>3, Zenon
  <2>3. CASE d = c /\ ~(k < n)
    <3>1. k = n /\ n > 0 /\ n \in 1 .. n
      BY <1>0, <1>1, <2>3
    <3>2. q.i = Cur /\ q.how = "live"
      BY DEF q
    <3>3. deliv'[d][k] = deliv[c][n] /\ deliv'[d][k + 1] = q
      BY <1>1, <2>3, <3>1
    <3>4. /\ deliv[c][n].i \in 1 .. Cur /\ deliv[c][n].how \in {"gop", "live"}
          /\ deliv[c][n].how = "live" => deliv[c][n].i < Cur
      BY <1>9, <3>1, Zenon
    <3>5. InOrder(deliv[c][n], q)
      BY <1>0, <3>2, <3>4, SMT DEF InOrder
    <3> QED
      BY <3>3, <3>5, Zenon
  <2> QED
    BY <2>1, <2>2, <2>3, Zenon
<1>11. PrimedFromKeyframe'
  <2> SUFFICES ASSUME NEW d \in Consumers, NEW k \in DOMAIN deliv'[d], deliv'[d][k].how = "gop"
               PROVE  /\ k = 1 => log[deliv'[d][k].i].key /\ log[deliv'[d][k].i].video
                      /\ k > 1 => deliv'[d][k].i = deliv'[d][k - 1].i + 1
    BY Zenon DEF PrimedFromKeyframe
  <2>1. CASE d # c
    <3>1. deliv'[d] = deliv[d]
      BY <1>1, <2>1, Zenon
    <3>2. k \in DOMAIN deliv[d] /\ deliv[d][k].how = "gop"
      BY <3>1, Zenon
    <3> QED
      BY <3>1, <3>2, Zenon DEF IInv, PrimedFromKeyframe
  <2>2. CASE d = c
    <3>1. k # n + 1
      BY <1>1, <2>2 DEF q
    <3>2. k \in 1 .. n /\ (k > 1 => k - 1 \in 1 .. n)
      BY <1>0, <1>1, <2>2, <3>1
    <3>3. deliv'[d][k] = deliv[c][k] /\ (k > 1 => deliv'[d][k - 1] = deliv[c][k - 1])
      BY <1>1, <2>2, <3>2, ZenonT(40)
    <3>4. k \in DOMAIN deliv[c]
      BY <3>2, Types, Zenon DEF IInv
    <3>5. deliv[c][k].how = "gop"
      BY <3>3, Zenon
    <3> QED
      BY <2>2, <3>3, <3>4, <3>5, Zenon DEF IInv, PrimedFromKeyframe
  <2> QED
    BY <2>1, <2>2, Zenon
<1>12. BackpressureLosesNothing' /\ ResyncOnKeyframe'
  <2> SUFFICES ASSUME ~done, NEW d \in Consumers, NEW k \in 1 .. Len(deliv'[d]) - 1,
                      deliv'[d][k].how = "live"
               PROVE  /\ \A i \in deliv'[d][k].i + 1 .. deliv'[d][k + 1].i - 1 : i \in leaky
                      /\ deliv'[d][k + 1].i > deliv'[d][k].i + 1 /\ deliv'[d][k + 1].i \in leaky
                           => log[deliv'[d][k + 1].i].key
    BY Zenon DEF BackpressureLosesNothing, ResyncOnKeyframe
  <2>1. CASE d # c
    BY <1>1, <2>1, ZenonT(40) DEF IInv, BackpressureLosesNothing, ResyncOnKeyframe
  <2>2. CASE d = c /\ k < n
    <3>1. k \in 1 .. n - 1 /\ k + 1 \in 1 .. n /\ k \in 1 .. n
      BY <1>0, <1>1, <2>2
    <3>2. deliv'[d][k] = deliv[c][k] /\ deliv'[d][k + 1] = deliv[c][k + 1]
      BY <1>1, <2>2, <3>1, Zenon
    <3> QED
      BY <3>1, <3>2, Zenon DEF IInv, BackpressureLosesNothing, ResyncOnKeyframe
  <2>3. CASE d = c /\ ~(k < n)
    <3>1. k = n /\ n > 0 /\ n \in 1 .. n
      BY <1>0, <1>1, <2>3
    <3>2. q.i = Cur
      BY DEF q
    <3>3. deliv'[d][k] = deliv[c][n] /\ deliv'[d][k + 1] = q
      BY <1>1, <2>3, <3>1, Zenon
    <3>4. /\ \A i \in deliv[c][n].i + 1 .. Cur - 1 : i \in leaky
          /\ Cur > deliv[c][n].i + 1 /\ Cur \in leaky => log[Cur].key
      BY <1>9, <3>1, <3>3, Zenon
    <3> QED
      BY <3>2, <3>3, <3>4, Zenon
  <2> QED
    BY <2>1, <2>2, <2>3, Zenon
<1> QED
  BY <1>4, <1>5, <1>6, <1>7, <1>8, <1>10, <1>11, <1>12 DEF IInv

-----------------------------------------------------------------------------
(***************************************************************************)
(* Reading a packet and priming a consumer.                                *)
(***************************************************************************)

\* A packet is appended; what is known of the earlier ones stays.
LEMMA ReadStep ==
  ASSUME IInv, NEW kind \in Kinds, NEW step \in DtsSteps, Read(kind, step)
  PROVE  IInv'
<1> USE DEF joinVars, conVars
<1> DEFINE p == Packet(kind, LastDts + step)
<1>1. log \in Seq(Pkt) /\ Cur \in Nat
  BY Types DEF IInv
<1>2. p \in Pkt
  <2>1. LastDts \in Int
    <3>1. \A i \in 1 .. Len(log) : log[i] \in Pkt
      BY <1>1
    <3>2. log # <<>> => Len(log) \in 1 .. Len(log)
      BY <1>1, EmptySeq
    <3> QED
      BY <3>1, <3>2 DEF LastDts, Pkt
  <2> QED
    BY <2>1, DeliveryAssumption DEF Packet, Pkt
<1> HIDE DEF p
<1>3. /\ log' \in Seq(Pkt) /\ Len(log') = Len(log) + 1
      /\ \A i \in 1 .. Len(log) : log'[i] = log[i]
  <2>1. log' = Append(log, p)
    BY DEF Read, p
  <2> QED
    BY <1>1, <1>2, <2>1, AppendProperties
<1>4. Cur' = Cur + 1 /\ 1 .. Len(log) \subseteq 1 .. Len(log')
  BY <1>1, <1>3 DEF Cur
<1>5. TypeOK'
  <2>1. base' \in 0 .. Len(log')
    BY <1>1, <1>3, DeliveryAssumption DEF IInv, TypeOK, Read, Cur
  <2>2. /\ Seq(1 .. Len(log)) \subseteq Seq(1 .. Len(log'))
        /\ Seq(Put1) \subseteq Seq(Put1')
    <3>1. Put1 \subseteq Put1'
      BY <1>4 DEF Put1
    <3> QED
      BY <1>4, <3>1, SeqOfMore
  <2>3. 0 .. Len(log) \subseteq 0 .. Len(log')
    BY <1>1, <1>3
  <2>4. gop' \in [Consumers -> Seq(1 .. Len(log'))] /\ queue' \in [Consumers -> Seq(1 .. Len(log'))]
    BY <2>2 DEF IInv, TypeOK, Read
  <2>5. deliv' \in [Consumers -> Seq(Put1')]
    BY <2>2, Zenon DEF IInv, TypeOK, Read, Put1
  <2>6. skipTo' \in [Consumers -> 0 .. Len(log')] /\ leaky' \subseteq 1 .. Len(log')
    BY <1>4, <2>3 DEF IInv, TypeOK, Read
  <2> QED
    BY <1>3, <2>1, <2>4, <2>5, <2>6 DEF IInv, TypeOK, Read, Put1
<1>6. PhaseInv'
  BY Zenon DEF IInv, PhaseInv, Read
<1>7. pend = {} /\ lpc = "read" /\ lpc' = "snapshot"
  BY DEF IInv, PhaseInv, Read
<1>8. \A c \in Consumers : \A k \in 1 .. Len(gop[c]) : gop[c][k] \in 1 .. Len(log)
  BY Types DEF IInv, Cur
<1>9. \A c \in Consumers : \A k \in 1 .. Len(deliv[c]) : deliv[c][k].i \in 1 .. Len(log)
  BY Types DEF IInv, Cur
<1>10. GopInv'
  <2>1. \A c \in Consumers : gop[c] # <<>> => 1 \in 1 .. Len(gop[c])
    BY Types DEF IInv
  <2> QED
    BY <1>3, <1>8, <2>1, Zenon DEF IInv, GopInv, Read, LastPut
<1>11. DueInv'
  BY <1>1, <1>4, <1>9 DEF DueInv, Read, Cur
<1>12. LeakyInv'
  BY <1>1, <1>4, <1>7 DEF IInv, TypeOK, LeakyInv, Read, Cur
<1>13. GapInv'
  <2> SUFFICES ASSUME NEW c \in Consumers, EndsLive(c)
               PROVE  /\ skipTo[c] = 0
                      /\ ~done /\ Follows(c) =>
                           /\ \A i \in LastPut(c) + 1 .. Upto(c)' : i \in leaky
                           /\ LastPut(c) < Upto(c)' => needsKey[c]
    BY Zenon DEF GapInv, EndsLive, LastPut, Follows, Read
  <2>1. Upto(c)' = Upto(c)
    BY <1>1, <1>4, <1>7 DEF Upto, Due
  <2> QED
    BY <2>1, Zenon DEF IInv, GapInv
<1>14. DeliveredInOrder'
  BY Zenon DEF IInv, DeliveredInOrder, Read
<1>15. PrimedFromKeyframe'
  <2>1. \A c \in Consumers : \A k \in DOMAIN deliv[c] : log'[deliv[c][k].i] = log[deliv[c][k].i]
    BY <1>3, <1>9, Types, Zenon DEF IInv
  <2> QED
    BY <2>1, Zenon DEF IInv, PrimedFromKeyframe, Read
<1>16. BackpressureLosesNothing'
  BY Zenon DEF IInv, BackpressureLosesNothing, Read
<1>17. ResyncOnKeyframe'
  <2>1. \A c \in Consumers : \A k \in 1 .. Len(deliv[c]) - 1 : log'[deliv[c][k + 1].i] = log[deliv[c][k + 1].i]
    <3>1. \A c \in Consumers : \A k \in 1 .. Len(deliv[c]) - 1 : k + 1 \in 1 .. Len(deliv[c])
      BY Types DEF IInv
    <3> QED
      BY <1>3, <1>9, <3>1
  <2> QED
    BY <2>1, Zenon DEF IInv, ResyncOnKeyframe, Read
<1> QED
  BY <1>5, <1>6, <1>10, <1>11, <1>12, <1>13, <1>14, <1>15, <1>16, <1>17 DEF IInv

\* The consumers are chosen; a round with several of them is leaky.
LEMMA SnapshotStep ==
  ASSUME IInv, Snapshot
  PROVE  IInv'
<1> USE DEF joinVars, conVars
<1> DEFINE active == attached \ dead
<1>1. Cur \in Nat /\ Cur' = Cur /\ (leaky' = leaky \/ leaky' = leaky \cup {Cur}) /\ leaky \subseteq leaky'
  BY Types, ZenonT(40) DEF IInv, Snapshot, Cur
<1>2. lpc = "snapshot" /\ pend = {} /\ pend' = active
  BY Zenon DEF IInv, PhaseInv, Snapshot
<1>3. TypeOK'
  <2>1. leaky' \subseteq 1 .. Len(log)
    BY <1>1, <1>2 DEF IInv, TypeOK, LeakyInv, Cur
  <2>2. pend' \subseteq Consumers /\ blocking' \in BOOLEAN /\ lpc' \in {"read", "deliver"}
    BY DEF IInv, TypeOK, Snapshot
  <2> QED
    BY <2>1, <2>2, Zenon DEF IInv, TypeOK, Snapshot
<1>4. PhaseInv'
  BY <1>2, Zenon DEF IInv, PhaseInv, Snapshot
<1>5. GopInv'
  BY Zenon DEF IInv, GopInv, Snapshot, LastPut
<1>6. DueInv'
  BY <1>1, <1>2, Zenon DEF IInv, DueInv, Due, Snapshot
<1>7. LeakyInv'
  <2>1. IsFiniteSet(active)
    BY DeliveryAssumption, FS_Subset DEF IInv, TypeOK
  <2>2. Cardinality(active) \in Nat /\ (active # {} => Cardinality(active) # 0)
    BY <2>1, FS_CardinalityType, FS_EmptySet
  <2>3. Cur \notin leaky
    BY <1>2 DEF IInv, LeakyInv
  <2>4. lpc' = "deliver" => (Cur \in leaky' <=> ~blocking')
    <3>1. lpc' = "deliver" => Cardinality(active) # 0
      BY <2>2 DEF Snapshot
    <3>2. Cardinality(active) > 1 <=> Cur \in leaky'
      BY <2>3 DEF Snapshot
    <3>3. blocking' <=> Cardinality(active) = 1
      BY Zenon DEF Snapshot
    <3> QED
      BY <2>2, <3>1, <3>2, <3>3
  <2>5. lpc' # "snapshot" /\ Cur >= 1
    BY <1>2 DEF IInv, LeakyInv, Snapshot
  <2> QED
    BY <1>1, <2>4, <2>5 DEF LeakyInv
<1>8. GapInv'
  <2> SUFFICES ASSUME NEW c \in Consumers, EndsLive(c)
               PROVE  /\ skipTo[c] = 0
                      /\ ~done /\ Follows(c)' =>
                           /\ \A i \in LastPut(c) + 1 .. Upto(c)' : i \in leaky'
                           /\ LastPut(c) < Upto(c)' => needsKey[c]
    BY Zenon DEF GapInv, EndsLive, LastPut, Snapshot
  <2>1. Follows(c)' => Follows(c) /\ c \in pend'
    BY <1>2 DEF Follows, Snapshot
  <2>2. c \in pend' => Upto(c)' = Upto(c)
    BY <1>1, <1>2 DEF Upto, Due
  <2> QED
    BY <1>1, <2>1, <2>2, Zenon DEF IInv, GapInv
<1>9. DeliveredInOrder' /\ PrimedFromKeyframe'
  BY Zenon DEF IInv, DeliveredInOrder, PrimedFromKeyframe, Snapshot
<1>10. BackpressureLosesNothing'
  BY <1>1, Zenon DEF IInv, BackpressureLosesNothing, Snapshot
<1>11. ResyncOnKeyframe'
  <2> SUFFICES ASSUME ~done, NEW c \in Consumers, NEW k \in 1 .. Len(deliv[c]) - 1,
                      deliv[c][k].how = "live", deliv[c][k + 1].i > deliv[c][k].i + 1,
                      deliv[c][k + 1].i \in leaky'
               PROVE  log[deliv[c][k + 1].i].key
    BY Zenon DEF ResyncOnKeyframe, Snapshot
  <2>1. k + 1 \in 1 .. Len(deliv[c])
    BY Types DEF IInv
  <2>2. deliv[c][k + 1].how = "live"
    <3>1. deliv[c][k + 1].how # "gop"
      BY Zenon DEF IInv, DeliveredInOrder
    <3> QED
      BY <2>1, <3>1, Types DEF IInv
  <2>3. deliv[c][k + 1].i < Cur
    BY <1>2, <2>1, <2>2, Zenon DEF IInv, DueInv, Due
  <2>4. deliv[c][k + 1].i \in leaky
    <3>1. deliv[c][k + 1].i \in Nat
      BY <2>1, Types DEF IInv
    <3> QED
      BY <1>1, <2>3, <3>1
  <2> QED
    BY <2>4, Zenon DEF IInv, ResyncOnKeyframe
<1> QED
  BY <1>3, <1>4, <1>5, <1>6, <1>7, <1>8, <1>9, <1>10, <1>11 DEF IInv

\* LastGOP gives consecutive packets, the first one a video keyframe.
LEMMA GopPositionsProp ==
  ASSUME TypeOK
  PROVE  /\ GopPositions \in Seq(1 .. Len(log))
         /\ \A k \in 1 .. Len(GopPositions) - 1 : GopPositions[k + 1] = GopPositions[k] + 1
         /\ GopPositions # <<>> => log[GopPositions[1]].key /\ log[GopPositions[1]].video
<1> DEFINE s == SubSeq(log, base + 1, Len(log))
           n == Len(LastGOP(s))
<1>1. log \in Seq(Pkt) /\ Len(log) \in Nat /\ base \in 0 .. Len(log)
  BY DEF TypeOK
<1>2. /\ s \in Seq(Pkt) /\ Len(s) = Len(log) - base
      /\ \A i \in 1 .. Len(log) - base : s[i] = log[base + i]
  <2>1. CASE base < Len(log)
    <3>1. base + 1 \in 1 .. Len(log) /\ Len(log) \in base + 1 .. Len(log)
      BY <1>1, <2>1
    <3>2. /\ s \in Seq(Pkt) /\ Len(s) = Len(log) - (base + 1) + 1
          /\ \A i \in 1 .. Len(log) - (base + 1) + 1 : s[i] = log[(base + 1) + i - 1]
      BY <1>1, <3>1, SubSeqProperties
    <3> HIDE DEF s
    <3>3. s \in Seq(Pkt) /\ Len(s) = Len(log) - base
      BY <1>1, <3>2
    <3>4. ASSUME NEW i \in 1 .. Len(log) - base PROVE s[i] = log[base + i]
      <4>1. i \in 1 .. Len(log) - (base + 1) + 1 /\ (base + 1) + i - 1 = base + i
        BY <1>1
      <4> QED
        BY <3>2, <4>1
    <3> QED
      BY <3>3, <3>4
  <2>2. CASE base = Len(log)
    <3>1. s = <<>>
      BY <1>1, <2>2, SubSeqEmpty
    <3> QED
      BY <1>1, <2>2, <3>1
  <2> QED
    BY <1>1, <2>1, <2>2
<1> HIDE DEF s
<1>3. n \in 0 .. Len(s) /\ (n > 0 => s[Len(s) - n + 1].key /\ s[Len(s) - n + 1].video)
  BY <1>2, LastGOPProp
<1> HIDE DEF n
<1>4. GopPositions = [k \in 1 .. n |-> Len(log) - n + k]
  BY DEF GopPositions, n, s
<1>5. n \in Nat /\ n <= Len(log) /\ \A k \in 1 .. n : Len(log) - n + k \in 1 .. Len(log)
  BY <1>1, <1>2, <1>3
<1>6. GopPositions \in Seq(1 .. Len(log)) /\ Len(GopPositions) = n
  BY <1>4, <1>5
<1>7. \A k \in 1 .. n - 1 : GopPositions[k + 1] = GopPositions[k] + 1
  BY <1>1, <1>4, <1>5
<1>8. ASSUME GopPositions # <<>>
      PROVE  log[GopPositions[1]].key /\ log[GopPositions[1]].video
  <2>1. n > 0
    BY <1>5, <1>6, <1>8, EmptySeq
  <2>2. GopPositions[1] = Len(log) - n + 1
    BY <1>4, <1>5, <2>1
  <2>3. Len(s) - n + 1 \in 1 .. Len(log) - base /\ base + (Len(s) - n + 1) = Len(log) - n + 1
    BY <1>1, <1>2, <1>3, <2>1
  <2> QED
    BY <1>2, <1>3, <2>1, <2>2, <2>3
<1> QED
  BY <1>6, <1>7, <1>8

\* The replay of the cached group of pictures keeps the invariant.
LEMMA TakeGopStep ==
  ASSUME IInv, NEW c \in Consumers, TakeGop(c)
  PROVE  IInv'
<1> USE DEF loopVars, conVars
<1>1. /\ GopPositions \in Seq(1 .. Len(log))
      /\ \A k \in 1 .. Len(GopPositions) - 1 : GopPositions[k + 1] = GopPositions[k] + 1
      /\ GopPositions # <<>> => log[GopPositions[1]].key /\ log[GopPositions[1]].video
  BY GopPositionsProp DEF IInv
<1> HIDE DEF GopPositions
<1>2. jpc[c] = "out" /\ deliv[c] = <<>> /\ c \notin attached \cup pend
  BY DEF IInv, PhaseInv, TakeGop
<1>3. TypeOK'
  BY <1>1, Zenon DEF IInv, TypeOK, TakeGop
<1>4. jpc'[c] = "inject" /\ gop'[c] = GopPositions
      /\ \A d \in Consumers \ {c} : jpc'[d] = jpc[d] /\ gop'[d] = gop[d]
  BY DEF IInv, TypeOK, TakeGop
<1>5. PhaseInv'
  <2>1. lpc' # "deliver" => pend' = {}
    BY Zenon DEF IInv, PhaseInv, TakeGop
  <2>2. ASSUME NEW d \in Consumers
        PROVE  /\ d \in attached \cup pend => jpc'[d] = "in"
               /\ jpc'[d] # "inject" => gop'[d] = <<>>
               /\ jpc'[d] = "out" => deliv[d] = <<>>
               /\ jpc'[d] # "in" => \A k \in 1 .. Len(deliv[d]) : deliv[d][k].how = "gop"
    <3>1. CASE d = c
      BY <1>2, <1>4, <3>1, Zenon DEF IInv, PhaseInv
    <3>2. CASE d # c
      BY <1>4, <3>2, Zenon DEF IInv, PhaseInv
    <3> QED
      BY <3>1, <3>2, Zenon
  <2> QED
    BY <2>1, <2>2, Zenon DEF PhaseInv, TakeGop
<1>6. GopInv'
  <2> SUFFICES ASSUME NEW d \in Consumers
               PROVE  GoesOn(log, gop'[d], deliv[d])
    BY Zenon DEF GopInv, GoesOn, LastPut, TakeGop
  <2>1. CASE d = c
    BY <1>1, <1>2, <1>4, <2>1, Zenon DEF GoesOn
  <2>2. CASE d # c
    <3>1. gop'[d] = gop[d]
      BY <1>4, <2>2, Zenon
    <3>2. GoesOn(log, gop[d], deliv[d])
      BY Zenon DEF IInv, GopInv, GoesOn, LastPut
    <3> QED
      BY <3>1, <3>2, Zenon
  <2> QED
    BY <2>1, <2>2, Zenon
<1> QED
  BY <1>3, <1>5, <1>6, QuietStep, Zenon DEF IInv, TakeGop

\* The next packet of the group of pictures goes on c's queue.
LEMMA InjectStep ==
  ASSUME IInv, NEW c \in Consumers, Inject(c)
  PROVE  IInv'
<1> USE DEF loopVars
<1> DEFINE n == Len(deliv[c])
           h == Head(gop[c])
           q == [i |-> h, how |-> "gop"]
<1>0. Cur' = Cur /\ Cur \in Nat /\ n \in Nat
  BY Types, Zenon DEF IInv, Cur, Inject
<1>1. /\ gop[c] \in Seq(1 .. Len(log)) /\ gop[c] # <<>> /\ Len(gop[c]) \in Nat \ {0}
      /\ h = gop[c][1] /\ h \in 1 .. Len(log)
      /\ Tail(gop[c]) \in Seq(1 .. Len(log))
      /\ Len(Tail(gop[c])) = Len(gop[c]) - 1
      /\ \A k \in 1 .. Len(gop[c]) - 1 : Tail(gop[c])[k] = gop[c][k + 1]
  <2>1. gop[c] \in Seq(1 .. Len(log)) /\ gop[c] # <<>>
    BY Zenon DEF IInv, TypeOK, Inject
  <2>2. h \in 1 .. Len(log) /\ Tail(gop[c]) \in Seq(1 .. Len(log))
    BY <2>1, HeadTailProperties, Zenon
  <2>5. h = gop[c][1]
    BY <2>1
  <2>3. Len(gop[c]) \in Nat \ {0} /\ Len(Tail(gop[c])) = Len(gop[c]) - 1
    BY <2>1
  <2>4. \A k \in 1 .. Len(gop[c]) - 1 : Tail(gop[c])[k] = gop[c][k + 1]
    BY <2>1
  <2> QED
    BY <2>1, <2>2, <2>3, <2>4, <2>5, Zenon
<1>2. gop'[c] = Tail(gop[c]) /\ \A d \in Consumers \ {c} : gop'[d] = gop[d]
  BY Zenon DEF IInv, TypeOK, Inject
<1>3. /\ \A d \in Consumers \ {c} : deliv'[d] = deliv[d]
      /\ Len(deliv'[c]) = n + 1
      /\ DOMAIN deliv'[c] = 1 .. n + 1
      /\ \A k \in 1 .. n : deliv'[c][k] = deliv[c][k]
      /\ deliv'[c][n + 1] = q
      /\ deliv'[c] # <<>>
  BY Appended, Zenon DEF IInv, Inject
<1>4. /\ jpc[c] = "inject" /\ c \notin attached \cup pend
      /\ \A k \in 1 .. n : deliv[c][k].how = "gop"
  BY Zenon DEF IInv, PhaseInv, Inject
<1>5. q.i = h /\ q.how = "gop"
  OBVIOUS
<1>6. TypeOK'
  <2>1. q \in Put1
    BY <1>1, Zenon DEF Put1
  <2>2. deliv[c] \in Seq(Put1) /\ queue[c] \in Seq(1 .. Len(log))
    BY Zenon DEF IInv, TypeOK, Put1
  <2>3. Append(deliv[c], q) \in Seq(Put1) /\ Append(queue[c], h) \in Seq(1 .. Len(log))
    BY <1>1, <2>1, <2>2, AppendProperties, Zenon
  <2>4. deliv' \in [Consumers -> Seq(Put1)] /\ queue' \in [Consumers -> Seq(1 .. Len(log))]
    BY <2>3, Zenon DEF IInv, TypeOK, Put1, Inject
  <2>5. gop' \in [Consumers -> Seq(1 .. Len(log))] /\ skipTo' \in [Consumers -> 0 .. Len(log)]
    BY <1>1 DEF IInv, TypeOK, Inject
  <2> QED
    BY <2>4, <2>5, ZenonT(40) DEF IInv, TypeOK, Put1, Inject
<1> HIDE DEF q, h
<1>7. PhaseInv'
  <2>1. lpc' # "deliver" => pend' = {}
    BY Zenon DEF IInv, PhaseInv, Inject
  <2>2. ASSUME NEW d \in Consumers
        PROVE  /\ d \in attached \cup pend => jpc[d] = "in"
               /\ jpc[d] # "inject" => gop'[d] = <<>>
               /\ jpc[d] = "out" => deliv'[d] = <<>>
               /\ jpc[d] # "in" => \A k \in 1 .. Len(deliv'[d]) : deliv'[d][k].how = "gop"
    <3>1. CASE d = c
      <4>1. \A k \in 1 .. n + 1 : k \in 1 .. n \/ k = n + 1
        BY <1>0
      <4> QED
        BY <1>3, <1>4, <1>5, <3>1, <4>1, Zenon
    <3>2. CASE d # c
      <4>1. gop'[d] = gop[d] /\ deliv'[d] = deliv[d]
        BY <1>2, <1>3, <3>2, Zenon
      <4> QED
        BY <4>1, Zenon DEF IInv, PhaseInv
    <3> QED
      BY <3>1, <3>2, Zenon
  <2> QED
    BY <2>1, <2>2, Zenon DEF PhaseInv, Inject
<1>8. GopInv'
  <2> SUFFICES ASSUME NEW d \in Consumers
               PROVE  GoesOn(log, gop'[d], deliv'[d])
    <3>1. log' = log
      BY Zenon DEF Inject
    <3> QED
      BY <3>1, Zenon DEF GopInv, GoesOn, LastPut
  <2>1. CASE d = c
    <3>1. \A k \in 1 .. Len(gop[c]) - 1 : gop[c][k + 1] = gop[c][k] + 1
      BY Zenon DEF IInv, GopInv
    <3>2. ASSUME NEW k \in 1 .. Len(Tail(gop[c])) - 1
          PROVE  Tail(gop[c])[k + 1] = Tail(gop[c])[k] + 1
      <4>1. k \in 1 .. Len(gop[c]) - 1 /\ k + 1 \in 1 .. Len(gop[c]) - 1
        BY <1>1
      <4> QED
        BY <1>1, <3>1, <4>1, Zenon
    <3>3. ASSUME Tail(gop[c]) # <<>>
          PROVE  Tail(gop[c])[1] = h + 1
      <4>1. Len(Tail(gop[c])) # 0
        BY <1>1, <3>3, EmptySeq, ZenonT(40)
      <4>2. Len(gop[c]) \in Nat \ {0} /\ Len(gop[c]) - 1 # 0
        BY <1>1, <4>1
      <4>3. 1 \in 1 .. Len(gop[c]) - 1
        <5>1. Len(gop[c]) - 1 \in Nat \ {0}
          BY <4>2
        <5> DEFINE x == Len(gop[c]) - 1
        <5> HIDE DEF x
        <5>2. x \in Nat \ {0} => 1 \in 1 .. x
          OBVIOUS
        <5> QED
          BY <5>1, <5>2 DEF x
      <4> QED
        BY <1>1, <3>1, <4>3, Zenon
    <3>4. deliv'[c][Len(deliv'[c])].i = h
      BY <1>3, <1>5, Zenon
    <3>5. GoesOn(log, Tail(gop[c]), deliv'[c])
      BY <1>3, <3>2, <3>3, <3>4, Zenon DEF GoesOn
    <3> QED
      BY <1>2, <2>1, <3>5, Zenon
  <2>2. CASE d # c
    <3>1. gop'[d] = gop[d] /\ deliv'[d] = deliv[d]
      BY <1>2, <1>3, <2>2, Zenon
    <3>2. GoesOn(log, gop[d], deliv[d])
      BY Zenon DEF IInv, GopInv, GoesOn, LastPut
    <3> QED
      BY <3>1, <3>2, Zenon
  <2> QED
    BY <2>1, <2>2, Zenon
<1>9. DueInv'
  <2> SUFFICES ASSUME NEW d \in Consumers, Due(d), NEW k \in 1 .. Len(deliv'[d]),
                      deliv'[d][k].how = "live"
               PROVE  deliv'[d][k].i < Cur
    BY <1>0, Zenon DEF DueInv, Due, Inject
  <2>1. CASE d = c
    <3>1. k \in 1 .. n \/ k = n + 1
      BY <1>0, <1>3, <2>1
    <3> QED
      BY <1>3, <1>4, <1>5, <2>1, <3>1, Zenon
  <2>2. CASE d # c
    BY <1>3, <2>2, Zenon DEF IInv, DueInv
  <2> QED
    BY <2>1, <2>2, Zenon
<1>10. LeakyInv'
  BY <1>0, Zenon DEF IInv, LeakyInv, Inject
<1>11. GapInv'
  <2> SUFFICES ASSUME NEW d \in Consumers, EndsLive(d)'
               PROVE  /\ skipTo'[d] = 0
                      /\ ~done /\ Follows(d) =>
                           /\ \A i \in LastPut(d)' + 1 .. Upto(d) : i \in leaky
                           /\ LastPut(d)' < Upto(d) => needsKey[d]
    BY <1>0, Zenon DEF GapInv, Inject, Follows, Upto, Due
  <2>1. d # c
    BY <1>3, <1>5, Zenon DEF EndsLive
  <2>2. EndsLive(d) /\ LastPut(d)' = LastPut(d) /\ skipTo'[d] = skipTo[d]
    BY <1>3, <2>1, Zenon DEF EndsLive, LastPut, Inject, IInv, TypeOK
  <2> QED
    BY <2>2, Zenon DEF IInv, GapInv
\* The packet injected goes on where the ones before end.
<1>12. /\ n = 0 => log[h].key /\ log[h].video
       /\ n > 0 => h = deliv[c][n].i + 1 /\ deliv[c][n].i \in Nat
  <2>1. n = 0 => deliv[c] = <<>>
    BY Types, Zenon DEF IInv
  <2>2. n > 0 => deliv[c] # <<>>
    BY Types DEF IInv
  <2>3. n > 0 => n \in 1 .. n /\ deliv[c][n].i \in Nat
    BY <1>0, Types DEF IInv
  <2> QED
    BY <1>1, <2>1, <2>2, <2>3, Zenon DEF IInv, GopInv, LastPut
<1>13. DeliveredInOrder'
  <2> SUFFICES ASSUME NEW d \in Consumers, NEW k \in 1 .. Len(deliv'[d]) - 1
               PROVE  InOrder(deliv'[d][k], deliv'[d][k + 1])
    BY Zenon DEF DeliveredInOrder, InOrder
  <2>1. CASE d # c
    <3>1. deliv'[d] = deliv[d]
      BY <1>3, <2>1, Zenon
    <3>2. k \in 1 .. Len(deliv[d]) - 1
      BY <3>1, Zenon
    <3>3. InOrder(deliv[d][k], deliv[d][k + 1])
      BY <3>2, Zenon DEF IInv, DeliveredInOrder, InOrder
    <3> QED
      BY <3>1, <3>3, Zenon
  <2>2. CASE d = c /\ k < n
    <3>1. k \in 1 .. n - 1 /\ k + 1 \in 1 .. n /\ k \in 1 .. n
      BY <1>0, <1>3, <2>2
    <3>2. deliv'[d][k] = deliv[c][k] /\ deliv'[d][k + 1] = deliv[c][k + 1]
      BY <1>3, <2>2, <3>1, Zenon
    <3>3. InOrder(deliv[c][k], deliv[c][k + 1])
      <4>1. k \in 1 .. Len(deliv[c]) - 1
        BY <3>1, Zenon
      <4> QED
        BY <4>1, Zenon DEF IInv, DeliveredInOrder, InOrder
    <3> QED
      BY <3>2, <3>3, Zenon
  <2>3. CASE d = c /\ ~(k < n)
    <3>1. k = n /\ n > 0 /\ n \in 1 .. n
      BY <1>0, <1>3, <2>3
    <3>2. deliv'[d][k] = deliv[c][n] /\ deliv'[d][k + 1] = q
      BY <1>3, <2>3, <3>1, Zenon
    <3>3. deliv[c][n].how = "gop"
      BY <1>4, <3>1, Zenon
    <3>4. InOrder(deliv[c][n], q)
      <4>1. deliv[c][n].i \in Nat /\ q.i = deliv[c][n].i + 1 /\ q.how = "gop"
        BY <1>5, <1>12, <3>1, Zenon
      <4> QED
        BY <3>3, <4>1, SMT DEF InOrder
    <3> QED
      BY <3>2, <3>4, Zenon
  <2> QED
    BY <2>1, <2>2, <2>3, Zenon
<1>14. PrimedFromKeyframe'
  <2> SUFFICES ASSUME NEW d \in Consumers, NEW k \in DOMAIN deliv'[d], deliv'[d][k].how = "gop"
               PROVE  /\ k = 1 => log[deliv'[d][k].i].key /\ log[deliv'[d][k].i].video
                      /\ k > 1 => deliv'[d][k].i = deliv'[d][k - 1].i + 1
    <3>1. log' = log
      BY Zenon DEF Inject
    <3> QED
      BY <3>1, Zenon DEF PrimedFromKeyframe
  <2>1. CASE d # c
    <3>1. deliv'[d] = deliv[d]
      BY <1>3, <2>1, Zenon
    <3>2. k \in DOMAIN deliv[d] /\ deliv[d][k].how = "gop"
      BY <3>1, Zenon
    <3> QED
      BY <3>1, <3>2, Zenon DEF IInv, PrimedFromKeyframe
  <2>2. CASE d = c /\ k # n + 1
    <3>1. k \in 1 .. n /\ (k > 1 => k - 1 \in 1 .. n)
      <4>1. n \in Nat /\ k \in 1 .. n + 1 /\ k # n + 1
        BY <1>0, <1>3, <2>2, Zenon
      <4> QED
        BY <4>1
    <3>2. deliv'[d][k] = deliv[c][k] /\ (k > 1 => deliv'[d][k - 1] = deliv[c][k - 1])
      BY <1>3, <2>2, <3>1, Zenon
    <3>3. k \in DOMAIN deliv[c]
      BY <3>1, Types, Zenon DEF IInv
    <3>4. deliv[c][k].how = "gop"
      BY <3>2, Zenon
    <3> QED
      BY <2>2, <3>2, <3>3, <3>4, Zenon DEF IInv, PrimedFromKeyframe
  <2>3. CASE d = c /\ k = n + 1
    <3>1. (k = 1 => n = 0) /\ (k > 1 => n > 0 /\ n \in 1 .. n /\ k - 1 = n)
      BY <1>0, <2>3
    <3> QED
      BY <1>3, <1>5, <1>12, <2>3, <3>1, Zenon
  <2> QED
    BY <2>1, <2>2, <2>3, Zenon
<1>15. BackpressureLosesNothing' /\ ResyncOnKeyframe'
  <2> SUFFICES ASSUME ~done, NEW d \in Consumers, NEW k \in 1 .. Len(deliv'[d]) - 1,
                      deliv'[d][k].how = "live"
               PROVE  /\ \A i \in deliv'[d][k].i + 1 .. deliv'[d][k + 1].i - 1 : i \in leaky
                      /\ deliv'[d][k + 1].i > deliv'[d][k].i + 1 /\ deliv'[d][k + 1].i \in leaky
                           => log[deliv'[d][k + 1].i].key
    BY DEF BackpressureLosesNothing, ResyncOnKeyframe, Inject
  <2>1. d # c
    <3>1. d = c => k \in 1 .. n
      BY <1>0, <1>3
    <3> QED
      BY <1>3, <1>4, <3>1
  <2> QED
    BY <1>3, <2>1, Zenon DEF IInv, BackpressureLosesNothing, ResyncOnKeyframe
<1> QED
  BY <1>6, <1>7, <1>8, <1>9, <1>10, <1>11, <1>13, <1>14, <1>15 DEF IInv

\* A consumer's insertion keeps the invariant.
LEMMA InsertStep ==
  ASSUME IInv, NEW c \in Consumers, Insert(c)
  PROVE  IInv'
<1> USE DEF loopVars, conVars
<1>1. TypeOK'
  BY ZenonT(40) DEF IInv, TypeOK, Insert
<1>2. jpc'[c] = "in" /\ \A d \in Consumers \ {c} : jpc'[d] = jpc[d]
  BY Zenon DEF IInv, TypeOK, Insert
<1>3. PhaseInv'
  BY <1>2 DEF IInv, PhaseInv, Insert
<1>4. GopInv'
  BY Zenon DEF IInv, GopInv, LastPut, Insert
<1>5. ~EndsLive(c)
  <2>1. \A k \in 1 .. Len(deliv[c]) : deliv[c][k].how = "gop"
    BY Zenon DEF IInv, PhaseInv, Insert
  <2>2. deliv[c] # <<>> => Len(deliv[c]) \in 1 .. Len(deliv[c])
    BY Types DEF IInv
  <2> QED
    BY <2>1, <2>2 DEF EndsLive
<1> QED
  BY <1>1, <1>3, <1>4, <1>5, QuietStep, Zenon DEF IInv, Insert

-----------------------------------------------------------------------------
(***************************************************************************)
(* The invariant is inductive.                                             *)
(***************************************************************************)

\* The invariant holds of a relay just started.
LEMMA InitIInv == Init => IInv
<1> SUFFICES ASSUME Init PROVE IInv
  OBVIOUS
<1>1. log = <<>> /\ Len(log) = 0 /\ Len(<<>>) = 0
  BY DEF Init
<1>2. \A S : <<>> \in Seq(S)
  OBVIOUS
<1>3. TypeOK
  <2>1. log \in Seq(Pkt) /\ base \in 0 .. Len(log) /\ leaky \subseteq 1 .. Len(log)
    BY <1>1, <1>2 DEF Init
  <2>2. /\ gop \in [Consumers -> Seq(1 .. Len(log))] /\ queue \in [Consumers -> Seq(1 .. Len(log))]
        /\ deliv \in [Consumers -> Seq(Put1)]
    BY <1>2 DEF Init
  <2>3. skipTo \in [Consumers -> 0 .. Len(log)]
    BY <1>1 DEF Init
  <2>4. jpc \in [Consumers -> {"out", "inject", "in"}] /\ needsKey \in [Consumers -> BOOLEAN]
    BY DEF Init
  <2> QED
    BY <2>1, <2>2, <2>3, <2>4, Zenon DEF Init, TypeOK, Put1
<1>4. \A c \in Consumers : /\ deliv[c] = <<>> /\ Len(deliv[c]) = 0 /\ DOMAIN deliv[c] = {}
                           /\ gop[c] = <<>> /\ Len(gop[c]) = 0
  BY DEF Init
<1>5. PhaseInv
  BY <1>4 DEF Init, PhaseInv
<1>6. GopInv /\ DueInv /\ LeakyInv /\ GapInv
  <2>1. \A x : x \notin 1 .. 0 /\ x \notin 1 .. 0 - 1
    BY SMT
  <2> QED
    BY <1>4, <2>1, Zenon DEF Init, GopInv, DueInv, LeakyInv, GapInv, EndsLive
<1>7. DeliveredInOrder /\ PrimedFromKeyframe /\ BackpressureLosesNothing /\ ResyncOnKeyframe
  <2>1. \A x : x \notin 1 .. 0 - 1
    BY SMT
  <2> QED
    BY <1>4, <2>1, Zenon DEF DeliveredInOrder, PrimedFromKeyframe, BackpressureLosesNothing, ResyncOnKeyframe
<1> QED
  BY <1>3, <1>5, <1>6, <1>7 DEF IInv

\* A packet that is put on a queue is a position in the log.
LEMMA PutTypes ==
  ASSUME IInv, NEW c \in Consumers, lpc = "deliver", Put(c), UNCHANGED log
  PROVE  /\ queue' \in [Consumers -> Seq(1 .. Len(log))]
         /\ deliv' \in [Consumers -> Seq(Put1)]
<1>1. Cur \in 1 .. Len(log)
  BY Types DEF IInv, LeakyInv, Cur
<1>2. [i |-> Cur, how |-> "live"] \in Put1
  BY <1>1 DEF Put1
<1>3. deliv[c] \in Seq(Put1) /\ queue[c] \in Seq(1 .. Len(log))
  BY Zenon DEF IInv, TypeOK, Put1
<1>4. /\ Append(deliv[c], [i |-> Cur, how |-> "live"]) \in Seq(Put1)
      /\ Append(queue[c], Cur) \in Seq(1 .. Len(log))
  BY <1>1, <1>2, <1>3, AppendProperties, Zenon
<1> QED
  BY <1>4, ZenonT(40) DEF IInv, TypeOK, Put, Put1

\* A delivery keeps the invariant.
LEMMA DeliverStep ==
  ASSUME IInv, NEW c \in Consumers,
         Skip(c) \/ WritePacket(c) \/ Recover(c) \/ WritePacketLeaky(c) \/ WriteCancelled(c)
  PROVE  IInv'
<1> USE DEF joinVars, conVars
<1>0. /\ skipTo \in [Consumers -> 0 .. Len(log)] /\ needsKey \in [Consumers -> BOOLEAN]
      /\ Len(log) \in Nat
  BY DEF IInv, TypeOK
<1>1. StopSkipping(c) => /\ skipTo' \in [Consumers -> 0 .. Len(log)]
                         /\ \A d \in Consumers : skipTo'[d] \in {0, skipTo[d]}
  BY <1>0 DEF StopSkipping
<1>2. CASE Skip(c)
  <2>1. TypeOK'
    BY <1>2 DEF IInv, TypeOK, Skip, Served
  <2>2. ~EndsLive(c)
    BY <1>2 DEF IInv, GapInv, Skip, ShouldSkip
  <2> QED
    BY <1>2, <2>1, <2>2, PassOver, Zenon DEF Skip
<1>3. CASE WritePacket(c)
  <2>1. TypeOK'
    BY <1>1, <1>3, PutTypes, Zenon DEF IInv, TypeOK, WritePacket, Served, Put1
  <2> QED
    BY <1>3, <2>1, PutLive, Zenon DEF WritePacket
<1>4. CASE Recover(c)
  <2>1. TypeOK'
    BY <1>1, <1>4, ZenonT(40) DEF IInv, TypeOK, Recover, Served
  <2> QED
    BY <1>1, <1>4, <2>1, PassOver, Zenon DEF Recover
<1>5. CASE WritePacketLeaky(c)
  <2>0. /\ needsKey' \in [Consumers -> BOOLEAN] /\ needsKey'[c] = Full(c)
        /\ \A d \in Consumers \ {c} : needsKey'[d] = needsKey[d]
    BY <1>0, <1>5 DEF WritePacketLeaky, KeyNeeded, Full
  <2>1. CASE Full(c)
    <3>1. TypeOK'
      BY <1>1, <1>5, <2>0, <2>1, Zenon DEF IInv, TypeOK, WritePacketLeaky, Served
    <3>2. /\ lpc = "deliver" /\ c \in pend /\ Served(c) /\ ~blocking
          /\ UNCHANGED <<joinVars, log, blocking, done, leaky, deliv, attached, dead>>
          /\ \A d \in Consumers : skipTo'[d] \in {0, skipTo[d]}
      BY <1>1, <1>5, <2>1, Zenon DEF WritePacketLeaky
    <3>3. needsKey'[c] /\ \A d \in Consumers \ {c} : needsKey'[d] = needsKey[d]
      BY <2>0, <2>1, Zenon
    <3> QED
      BY <3>1, <3>2, <3>3, PassOver, Zenon
  <2>2. CASE ~Full(c)
    <3>1. TypeOK'
      BY <1>1, <1>5, <2>0, <2>2, PutTypes, ZenonT(40) DEF IInv, TypeOK, WritePacketLeaky, Served, Put1
    <3> QED
      BY <1>5, <2>0, <2>2, <3>1, PutLive, Zenon DEF WritePacketLeaky
  <2> QED
    BY <2>1, <2>2
<1>6. CASE WriteCancelled(c)
  <2>0. /\ needsKey' \in [Consumers -> BOOLEAN]
        /\ \A d \in Consumers \ {c} : needsKey'[d] = needsKey[d]
    BY <1>0, <1>6, Zenon DEF WriteCancelled
  <2>1. TypeOK'
    BY <1>1, <1>6, <2>0, Zenon DEF IInv, TypeOK, WriteCancelled, Served
  <2> QED
    BY <1>1, <1>6, <2>0, <2>1, PassOver, Zenon DEF WriteCancelled
<1> QED
  BY <1>2, <1>3, <1>4, <1>5, <1>6

\* Every step keeps the invariant.
LEMMA NextIInv ==
  ASSUME IInv, [Next]_vars
  PROVE  IInv'
<1> USE DEF loopVars, joinVars, conVars
<1>1. CASE ReadAny
  BY <1>1, ReadStep DEF ReadAny
<1>2. CASE Snapshot
  BY <1>2, SnapshotStep
<1>3. CASE Deliver
  BY <1>3, DeliverStep DEF Deliver
<1>4. CASE RelayDone
  <2>1. TypeOK'
    BY <1>4, Zenon DEF IInv, TypeOK, RelayDone
  <2>2. PhaseInv' /\ GopInv'
    <3>1. lpc # "deliver" => pend = {}
      BY Zenon DEF IInv, PhaseInv
    <3> QED
      BY <1>4, <3>1, JoinKept DEF IInv, RelayDone
  <2> QED
    BY <1>4, <2>1, <2>2, QuietStep, Zenon DEF IInv, RelayDone
<1>5. CASE LoopDone
  <2>1. done /\ done' /\ lpc = "read" /\ lpc' = "exit" /\ pend = {}
    BY <1>5, Zenon DEF IInv, PhaseInv, LoopDone
  <2>2. TypeOK' /\ PhaseInv' /\ GopInv'
    <3>1. TypeOK'
      BY <1>5, <2>1, Zenon DEF IInv, TypeOK, LoopDone
    <3>2. PhaseInv' /\ GopInv'
      BY <1>5, <2>1, JoinKept DEF IInv, LoopDone
    <3> QED
      BY <3>1, <3>2
  <2>3. DueInv' /\ LeakyInv' /\ GapInv'
    BY <1>5, <2>1, Zenon DEF IInv, DueInv, Due, LeakyInv, GapInv, EndsLive, LoopDone
  <2>4. DeliveredInOrder' /\ PrimedFromKeyframe' /\ BackpressureLosesNothing' /\ ResyncOnKeyframe'
    BY <1>5, <2>1, Zenon DEF IInv, DeliveredInOrder, PrimedFromKeyframe, BackpressureLosesNothing,
                             ResyncOnKeyframe, LoopDone
  <2> QED
    BY <2>2, <2>3, <2>4 DEF IInv
<1>6. ASSUME NEW c \in Consumers, TakeGop(c) PROVE IInv'
  BY <1>6, TakeGopStep
<1>7. ASSUME NEW c \in Consumers, AddConsumer(c) PROVE IInv'
  BY <1>7, InjectStep, InsertStep DEF AddConsumer
<1>8. ASSUME NEW c \in Consumers, Drain(c) PROVE IInv'
  <2>1. queue[c] \in Seq(1 .. Len(log)) /\ queue[c] # <<>>
    BY <1>8 DEF IInv, TypeOK, Drain
  <2>2. Tail(queue[c]) \in Seq(1 .. Len(log))
    BY <2>1, HeadTailProperties, ZenonT(40)
  <2>3. queue' \in [Consumers -> Seq(1 .. Len(log))]
    BY <1>8, <2>2, Zenon DEF IInv, TypeOK, Drain
  <2>4. TypeOK'
    BY <1>8, <2>3, Zenon DEF IInv, TypeOK, Drain
  <2>5. PhaseInv' /\ GopInv'
    <3>1. lpc # "deliver" => pend = {}
      BY DEF IInv, PhaseInv
    <3> QED
      BY <1>8, <3>1, JoinKept, Zenon DEF IInv, Drain
  <2> QED
    BY <1>8, <2>4, <2>5, QuietStep, Zenon DEF IInv, Drain
<1>9. ASSUME NEW c \in Consumers, Dies(c) \/ Sweep(c) \/ Leave(c) PROVE IInv'
  <2>1. TypeOK' /\ attached' \ dead' \subseteq attached \ dead /\ attached' \subseteq attached
    BY <1>9, Zenon DEF IInv, TypeOK, Dies, Sweep, Leave
  <2>2. PhaseInv' /\ GopInv'
    <3>1. lpc # "deliver" => pend = {}
      BY DEF IInv, PhaseInv
    <3> QED
      BY <1>9, <2>1, <3>1, JoinKept, Zenon DEF IInv, Dies, Sweep, Leave
  <2>3. /\ UNCHANGED <<log, lpc, pend, blocking, deliv, leaky, skipTo, needsKey>>
        /\ done => done'
    BY <1>9, SMT DEF Dies, Sweep, Leave
  <2>4. \A d \in Consumers : EndsLive(d) /\ d \in attached' \ dead' => d \in attached \ dead
    BY <2>1, Zenon
  <2> QED
    BY <2>1, <2>2, <2>3, <2>4, QuietStep, Zenon DEF IInv
<1>10. CASE UNCHANGED vars
  <2>1. TypeOK'
    BY <1>10, Zenon DEF IInv, TypeOK, vars
  <2>2. lpc # "deliver" => pend = {}
    BY DEF IInv, PhaseInv
  <2>3. PhaseInv' /\ GopInv'
    BY <1>10, <2>2, JoinKept, Zenon DEF IInv, vars
  <2> QED
    BY <1>10, <2>1, <2>3, QuietStep, Zenon DEF IInv, vars
<1> QED
  BY <1>1, <1>2, <1>3, <1>4, <1>5, <1>6, <1>7, <1>8, <1>9, <1>10 DEF Next

\* The invariant holds in every state.
LEMMA Invariance == SafeSpec => []IInv
BY InitIInv, NextIInv, PTL DEF SafeSpec

-----------------------------------------------------------------------------
(***************************************************************************)
(* The theorems.                                                           *)
(***************************************************************************)

\* The read loop and AddConsumer keep the state of the relay well-formed.
THEOREM DeliveryTypeCorrect == SafeSpec => []TypeOK
<1>1. IInv => TypeOK
  BY DEF IInv
<1> QED
  BY <1>1, Invariance, PTL

\* A consumer's queue is fed in the order the packets were read, injected ones
\* first (relay.go:435-448, consumer.go:200-212).
THEOREM DeliveryInOrder == SafeSpec => []DeliveredInOrder
<1>1. IInv => DeliveredInOrder
  BY DEF IInv
<1> QED
  BY <1>1, Invariance, PTL

\* A consumer is primed with a whole group of pictures, however many packets
\* are read and evicted while AddConsumer injects it (buffer.go:86-109).
THEOREM DeliveryPrimes == SafeSpec => []PrimedFromKeyframe
<1>1. IInv => PrimedFromKeyframe
  BY DEF IInv
<1> QED
  BY <1>1, Invariance, PTL

\* A consumer misses only packets of rounds with several consumers
\* (relay.go:587-604).
THEOREM DeliveryLosesNothing == SafeSpec => []BackpressureLosesNothing
<1>1. IInv => BackpressureLosesNothing
  BY DEF IInv
<1> QED
  BY <1>1, Invariance, PTL

\* After a gap a leaky write goes on with a keyframe (relay.go:606-616).
THEOREM DeliveryResyncs == SafeSpec => []ResyncOnKeyframe
<1>1. IInv => ResyncOnKeyframe
  BY DEF IInv
<1> QED
  BY <1>1, Invariance, PTL
=============================================================================
