----------------------------- MODULE ReplayStream -----------------------------
(***************************************************************************)
(* What av/packetbuf promises its readers, without the ring buffer, the    *)
(* cursors and the notify channel: a log that only grows, of which a       *)
(* prefix may have been evicted, and for each reader the sequence of log   *)
(* positions it was given.  A read returns the earliest packet after the   *)
(* last one returned that is still retained and not older than the wall    *)
(* clock time the reader asked for; the end of the stream is reported only *)
(* when the buffer is closed and no such packet is left.                   *)
(***************************************************************************)
EXTENDS Integers, Sequences

CONSTANTS Readers,   \* the bufDemuxers
          Packets,   \* the packets that may be written, with a wall clock time
          Since      \* the start time each reader asked for

VARIABLES log,       \* every packet ever written, in order
          gone,      \* number of evicted packets, a prefix of log
          closed,    \* Buffer.Close was called
          got,       \* the log positions returned to each reader
          eof        \* the readers that were told io.EOF

svars == <<log, gone, closed, got, eof>>

\* Position of the last packet given to r, 0 before the first one.
LastGot(r) == IF got[r] = <<>> THEN 0 ELSE got[r][Len(got[r])]

\* The positions r may still be given.
Eligible(r) == { i \in LastGot(r)+1 .. Len(log) :
                     i > gone /\ log[i].wall >= Since[r] }

SInit == /\ log = <<>>
         /\ gone = 0
         /\ closed = FALSE
         /\ got = [r \in Readers |-> <<>>]
         /\ eof = {}

Push(p) == /\ ~closed
           /\ log' = Append(log, p)
           /\ gone' \in gone .. Len(log')
           /\ UNCHANGED <<closed, got, eof>>

Finish == /\ closed' = TRUE
          /\ UNCHANGED <<log, gone, got, eof>>

Deliver(r) == \E i \in Eligible(r) :
                /\ \A j \in Eligible(r) : i <= j
                /\ got' = [got EXCEPT ![r] = Append(@, i)]
                /\ UNCHANGED <<log, gone, closed, eof>>

EndOfStream(r) == /\ closed
                  /\ Eligible(r) = {}
                  /\ eof' = eof \cup {r}
                  /\ UNCHANGED <<log, gone, closed, got>>

SNext == \/ \E p \in Packets : Push(p)
         \/ Finish
         \/ \E r \in Readers : Deliver(r) \/ EndOfStream(r)

SSpec == SInit /\ [][SNext]_svars
=============================================================================
