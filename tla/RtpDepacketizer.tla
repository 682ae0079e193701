-------------------------- MODULE RtpDepacketizer --------------------------
(***************************************************************************)
(* The RTP depacketizers of an RTSP track: av/format/rtsp                  *)
(* h264RTPDecoder and aacRTPDecoder, and codec/h265parser Parser.  A       *)
(* camera sends pictures of NALUs one to a packet, several in an           *)
(* aggregation packet or one in two fragments, marks the last packet of a  *)
(* picture or forgets to, and may skip packets.  Both video decoders are   *)
(* fed the same packets, each in its own encoding of them.                 *)
(***************************************************************************)
EXTENDS Integers, SequencesExt, FiniteSetsExt

CONSTANTS Shapes,                 \* the kinds of NALU of a picture
          MaxPictures, MaxLost,
          SeqNums,                 \* RTP sequence numbers are modulo this (2^16)
          Byte,                   \* bits in a byte
          AuSizes, MaxAus         \* AAC access units: their sizes, how many in a packet

VARIABLES pics,                   \* pics[p]: the kinds of NALU of picture p
          sent,                   \* how many NALUs of the last picture are sent
          half,                   \* the first fragment of the next NALU is sent
          seq, lost, unmarked,    \* sequence number; packets skipped; a marker was forgotten
          h264, h265,             \* the decoders
          out264, out265,         \* the access units they returned, with the timestamp they got
          cut,                    \* history: the h265 Parser dropped the rest of a packet
          aac                     \* an AAC packet: what it carried and what came out

rtpVars == <<pics, sent, half, seq, lost, unmarked, h264, h265, out264, out265, cut, aac>>

Init == /\ pics = <<>> /\ sent = 0 /\ half = FALSE /\ seq = SeqNums - 2 /\ lost = 0
        /\ unmarked = FALSE
        /\ h264 = [first |-> FALSE, frags |-> <<>>, next |-> 0, frame |-> <<>>, ts |-> 0]
        /\ h265 = [current |-> <<>>, fu |-> <<>>, active |-> FALSE]
        /\ out264 = <<>> /\ out265 = <<>> /\ cut = FALSE
        /\ aac = [sent |-> <<>>, got |-> <<>>]

\* A NALU is its two halves, so that a splice of two NALUs shows.
Piece(p, i, part) == [pic |-> p, nal |-> i, part |-> part]
Nalu(p, i) == <<Piece(p, i, 1), Piece(p, i, 2)>>
Kind(n) == pics[n[1].pic][n[1].nal]
IsFirstSlice(n) == Kind(n) = "first"
IsDataNALU(n) == Kind(n) \in {"first", "slice"}
Vcl(ns) == SelectSeq(ns, IsDataNALU)

-----------------------------------------------------------------------------
\* h264RTPDecoder.decodeNALUs: the NALUs that pkt completes.  none: it returned
\* an error, or needs more packets.
Loses_Never(d, pkt) == FALSE
Loses(d, pkt) == pkt.seq # d.next
Reset(d) == [d EXCEPT !.frags = <<>>]
DecodeFUA(d, pkt) ==
  IF pkt.start
    THEN [d |-> [d EXCEPT !.frags = pkt.data, !.next = (pkt.seq + 1) % SeqNums, !.first = TRUE],
          none |-> TRUE, nalus |-> <<>>]
  ELSE IF d.frags = <<>> THEN [d |-> d, none |-> TRUE, nalus |-> <<>>]
  ELSE IF Loses(d, pkt) THEN [d |-> Reset(d), none |-> TRUE, nalus |-> <<>>]
  ELSE [d |-> [Reset(d) EXCEPT !.next = (@ + 1) % SeqNums], none |-> FALSE,
        nalus |-> <<d.frags \o pkt.data>>]
DecodeNALUs(d, pkt) ==
  IF pkt.form = "fu" THEN DecodeFUA(d, pkt)
  ELSE [d |-> [Reset(d) EXCEPT !.first = TRUE], none |-> FALSE, nalus |-> pkt.data]

\* Decode: an access unit ends with the marker or with the timestamp.  The
\* limits of 512 NALUs and 4 MB are out of reach.
SplitsAt_MarkerOnly(d, pkt) == FALSE
SplitsAt(d, pkt) == d.frame # <<>> /\ pkt.ts # d.ts
Decode264(pkt) ==
  LET r == DecodeNALUs(h264, pkt)
      d == r.d
      whole == d.frame \o r.nalus
  IN  CASE r.none -> [d |-> d, au |-> <<>>]
        [] ~r.none /\ SplitsAt(d, pkt) ->
             [d |-> [d EXCEPT !.frame = r.nalus, !.ts = pkt.ts], au |-> d.frame]
        [] ~r.none /\ ~SplitsAt(d, pkt) /\ ~pkt.marker ->
             [d |-> [d EXCEPT !.frame = whole, !.ts = pkt.ts], au |-> <<>>]
        [] OTHER -> [d |-> [d EXCEPT !.frame = <<>>, !.ts = pkt.ts], au |-> whole]

-----------------------------------------------------------------------------
\* Parser.pushNALU, buildAU.
PushNALU_EveryNALU(p, n) ==
  IF p.current # <<>> /\ IsDataNALU(n) THEN [p |-> [p EXCEPT !.current = <<n>>], au |-> p.current]
  ELSE [p |-> [p EXCEPT !.current = Append(@, n)], au |-> <<>>]
PushNALU(p, n) ==
  IF IsFirstSlice(n) /\ p.current # <<>> /\ Vcl(p.current) # <<>>
    THEN [p |-> [p EXCEPT !.current = <<n>>], au |-> p.current]
  ELSE IF Kind(n) = "aud" THEN [p |-> p, au |-> <<>>]
  ELSE [p |-> [p EXCEPT !.current = Append(@, n)], au |-> <<>>]

\* parseAP returns at the first access unit it completes, and the NALUs after it
\* are lost; a single NALU is an aggregate of one.
ParseAP(p, ns) ==
  FoldLeft(LAMBDA r, n : IF r.au # <<>> THEN [r EXCEPT !.rest = @ + 1]
                         ELSE [rest |-> 0] @@ PushNALU(r.p, n),
           [p |-> p, au |-> <<>>, rest |-> 0], ns)

\* parseFU looks at no sequence number.
ParseFU(p, pkt) ==
  IF pkt.start THEN [p |-> [p EXCEPT !.fu = pkt.data, !.active = TRUE], au |-> <<>>, rest |-> 0]
  ELSE IF ~p.active THEN [p |-> p, au |-> <<>>, rest |-> 0]
  ELSE ParseAP([p EXCEPT !.active = FALSE, !.fu = <<>>], <<p.fu \o pkt.data>>)
PushRTP(p, pkt) == IF pkt.form = "fu" THEN ParseFU(p, pkt) ELSE ParseAP(p, pkt.data)

-----------------------------------------------------------------------------
P == Len(pics)
Left == IF pics = <<>> THEN 0 ELSE Len(pics[P]) - sent
Picture(shape) == /\ Left = 0 /\ P < MaxPictures /\ aac.sent = <<>>
                  /\ pics' = Append(pics, shape) /\ sent' = 0
                  /\ UNCHANGED <<half, seq, lost, unmarked, h264, h265, out264, out265, cut, aac>>

Receive(pkt) ==
  LET a == Decode264(pkt)
      b == PushRTP(h265, pkt)
  IN  /\ h264' = a.d /\ out264' = IF a.au = <<>> THEN out264
                                  ELSE Append(out264, [ts |-> pkt.ts, nalus |-> a.au])
      /\ h265' = b.p /\ out265' = IF b.au = <<>> THEN out265
                                  ELSE Append(out265, [ts |-> pkt.ts, nalus |-> b.au])
      /\ cut' = (cut \/ b.rest > 0)

\* A packet leaves the camera, or is skipped and only takes a number.
Send(form, start, data, last, marks, skipped) ==
  /\ seq' = (seq + 1) % SeqNums
  /\ marks \/ last
  /\ unmarked' = (unmarked \/ ~marks)
  /\ IF skipped THEN /\ lost < MaxLost /\ lost' = lost + 1
                     /\ UNCHANGED <<h264, h265, out264, out265, cut>>
     ELSE /\ lost' = lost
          /\ Receive([form |-> form, seq |-> seq, ts |-> P, marker |-> last /\ marks,
                      start |-> start, data |-> data])
  /\ UNCHANGED <<pics, aac>>

SendWhole(n, marks, skipped) ==
  /\ ~half /\ n \in 1 .. Left
  /\ Send("whole", FALSE, [i \in 1 .. n |-> Nalu(P, sent + i)], n = Left, marks, skipped)
  /\ sent' = sent + n /\ half' = FALSE
SendFirstHalf(skipped) ==
  /\ ~half /\ Left > 0
  /\ Send("fu", TRUE, <<Piece(P, sent + 1, 1)>>, FALSE, TRUE, skipped)
  /\ half' = TRUE /\ sent' = sent
SendSecondHalf(marks, skipped) ==
  /\ half
  /\ Send("fu", FALSE, <<Piece(P, sent + 1, 2)>>, Left = 1, marks, skipped)
  /\ half' = FALSE /\ sent' = sent + 1

-----------------------------------------------------------------------------
\* aacRTPDecoder: AU headers of sizeLength and index bits, then the units.
Bits(v, n) == [i \in 1 .. n |-> (v \div 2 ^ (n - i)) % 2]
ReadBits(bs, pos, n) == FoldLeft(LAMBDA v, i : 2 * v + bs[pos + i], 0, [i \in 1 .. n |-> i])
Encode(aus, sl, il, dl) ==
  LET head(i) == Bits(Len(aus[i]), sl) \o Bits(0, IF i = 1 THEN il ELSE dl)
      bits == FlattenSeq([i \in 1 .. Len(aus) |-> head(i)])
  IN  [bits |-> Len(bits), head |-> bits \o [i \in 1 .. ((-Len(bits)) % Byte) |-> 0],
       data |-> FlattenSeq(aus)]
IndexBits_Same(first, il, dl) == il
IndexBits(first, il, dl) == IF first THEN il ELSE dl
AuSizesOf(pkt, sl, il, dl) ==
  LET step(s, i) == IF s.left <= 0 THEN s
                    ELSE LET n == sl + IndexBits(s.sizes = <<>>, il, dl)
                         IN  [left |-> s.left - n, pos |-> s.pos + n,
                              sizes |-> Append(s.sizes, ReadBits(pkt.head, s.pos, sl))]
  IN  FoldLeft(step, [left |-> pkt.bits, pos |-> 0, sizes |-> <<>>],
               [i \in 1 .. pkt.bits |-> i]).sizes
DecodeAac(pkt, sl, il, dl) ==
  FoldLeft(LAMBDA s, n : [aus |-> Append(s.aus, SubSeq(pkt.data, s.at + 1, s.at + n)),
                          at |-> s.at + n],
           [aus |-> <<>>, at |-> 0], AuSizesOf(pkt, sl, il, dl)).aus

SendAac(aus, sl, il, dl) ==
  /\ aac' = [sent |-> aus, got |-> DecodeAac(Encode(aus, sl, il, dl), sl, il, dl)]
  /\ UNCHANGED <<pics, sent, half, seq, lost, unmarked, h264, h265, out264, out265, cut>>

Next == \/ \E s \in Shapes : Picture(s)
        \/ \E n \in 1 .. 2, m, k \in BOOLEAN : SendWhole(n, m, k)
        \/ \E k \in BOOLEAN : SendFirstHalf(k)
        \/ \E m, k \in BOOLEAN : SendSecondHalf(m, k)
        \/ /\ pics = <<>> /\ aac.sent = <<>>
           /\ \E aus \in BoundedSeq(UNION {[1 .. n -> {0, 1}] : n \in AuSizes}, MaxAus) \ {<<>>},
                 il, dl \in 0 .. 2 : SendAac(aus, 2, il, dl)

Spec == Init /\ [][Next]_rtpVars

-----------------------------------------------------------------------------
NalusOf(p) == [i \in 1 .. Len(pics[p]) |-> Nalu(p, i)]
Slices(p) == SelectSeq(NalusOf(p), LAMBDA n : pics[p][n[1].nal] \in {"first", "slice"})

\* H.264 without loss: every access unit is one picture, whole and in order,
\* however it was packetized and whether or not markers were set; with markers
\* it has its own timestamp.
H264Pictures ==
  lost = 0 => \A k \in 1 .. Len(out264) : /\ out264[k].nalus = NalusOf(k)
                                          /\ ~unmarked => out264[k].ts = k

\* H.264 with loss: no NALU is put together from fragments of two, also when
\* sequence numbers wrap, and no access unit mixes two pictures.
H264NeverSpliced ==
  \A k \in 1 .. Len(out264) : LET ns == out264[k].nalus IN
    /\ \A i \in 1 .. Len(ns) : ns[i] = Nalu(ns[i][1].pic, ns[i][1].nal)
    /\ \A i \in 1 .. Len(ns) - 1 : /\ ns[i][1].pic = ns[i + 1][1].pic
                                   /\ ns[i][1].nal < ns[i + 1][1].nal

\* H.265 without loss: access unit k has the slices of picture k, all of them
\* and no others, unless the Parser dropped the rest of an aggregation packet.
H265Pictures ==
  lost = 0 /\ ~cut => \A k \in 1 .. Len(out265) :
    SelectSeq(out265[k].nalus, LAMBDA n : pics[n[1].pic][n[1].nal] \in {"first", "slice"})
      = Slices(k)

\* The AAC units of a packet come out as they went in, whatever the widths of
\* the AU header's fields, also when the headers do not fill their last byte.
AacRoundTrip == aac.got = aac.sent
=============================================================================
