------------------------------ MODULE MCMedia ------------------------------
(***************************************************************************)
(* What is recorded and played back: Chain, Ring, GrpcPull and LLHLS, and  *)
(* instances of Fmp4File, Segment, Mp4File, Persistence and DbManager,     *)
(* which share no state.  Each initial state names the one that runs, in   *)
(* "sel", and the others stay as they are; the run visits the states of    *)
(* each once.                                                              *)
(***************************************************************************)
EXTENDS Chain, Ring, GrpcPull, LLHLS

CONSTANT NoTime

VARIABLES sel,
  \* Fmp4File
  mux, file, sent, clock, changes, npkts,
  \* Segment
  smux, disk, swritten, failed, hasKey, frag, sclosed, sring, held, pc, snpkts, sclock,
  sfaults, done, log, eager,
  \* Mp4File
  samples, written, closed, mfile, input, mfaults,
  \* Persistence
  queue, batch, wr, pclosing, frames, dets, cache, enq, pfaults, loads, ever, lost, ptorn,
  \* DbManager
  dbs, lastAccess, open, dcall, opens

\* A second has 12 units; the video's timescale divides it, the audio's does not.
V(c) == [idx |-> 0, codec |-> [kind |-> c, conf |-> "c1"], scale |-> 12]
A(c) == [idx |-> 1, codec |-> [kind |-> c, conf |-> "c1"], scale |-> 8]

Fmp4 == INSTANCE Fmp4File WITH
  Second <- 12, Millisecond <- 2, MaxGap <- 3, MaxGaps <- 2,
  Streams <- <<V("h264"), A("aac")>>, Changed <- <<V("h265")>>,
  VideoSteps <- {4}, AudioStep <- 3, Start <- 5, MaxPackets <- 4, MaxChanges <- 1

\* A segment is full after two groups of pictures; 428 bytes leave, among
\* others, 4 bytes of padding.
Seg == INSTANCE Segment WITH
  Second <- 12, Millisecond <- 2, MaxGap <- 3, MaxGaps <- 2,
  Streams <- <<V("h264"), A("aac")>>, MaxSegmentBytes <- 300, Prealloc <- 428, FixedSize <- TRUE,
  VideoStep <- 2, AudioStep <- 3, AudioKey <- FALSE, MaxPackets <- 6, MaxFaults <- 1,
  mux <- smux, written <- swritten, closed <- sclosed, ring <- sring, npkts <- snpkts,
  clock <- sclock, faults <- sfaults

\* Stream 1 has a codec MP4 does not hold.
MCTracks == << [idx |-> 0, scale |-> 4, video |-> TRUE, known |-> TRUE],
               [idx |-> 1, scale |-> 1, video |-> FALSE, known |-> FALSE],
               [idx |-> 2, scale |-> 3, video |-> FALSE, known |-> TRUE] >>
MCPackets == { [dur |-> 3, cts |-> 0, key |-> TRUE, size |-> 2],
               [dur |-> 3, cts |-> 6, key |-> FALSE, size |-> 1],
               [dur |-> 8, cts |-> 0, key |-> FALSE, size |-> 1] }
Mp4 == INSTANCE Mp4File WITH
  Second <- 12, Tracks <- MCTracks, Packets <- MCPackets, MaxPackets <- 4, MaxFaults <- 1,
  file <- mfile, faults <- mfaults

\* Four segments: an empty one, a change of the picture's size and back, a
\* change of the profile, a gap in time before the third.
P(d, l) == [dts |-> d, dur |-> l]
S(tag, dim) == <<[idx |-> 0, type |-> "h264", tag |-> tag, dim |-> dim]>>
MCSegs == << [streams |-> S("main", "hd"), pkts |-> <<P(0, 1), P(1, 2)>>],
             [streams |-> S("main", "sd"), pkts |-> <<>>],
             [streams |-> S("main", "hd"), pkts |-> <<P(0, 1)>>],
             [streams |-> S("high", "hd"), pkts |-> <<P(0, 1), P(1, 1)>>] >>

\* A request without a query, for a part of segment 0, for segment 1.
MCAsks == {[msn |-> -1, part |-> -1], [msn |-> 0, part |-> 1], [msn |-> 1, part |-> -1]}

\* Two records of one second, 3 (a whole second) and 4, and one of the next.
Prs == INSTANCE Persistence WITH
  Second <- 3, Times <- {3, 4, 7}, Cutoffs <- {4}, QueueSize <- 1, FlushBatch <- 2,
  MaxRows <- 2, Half <- 2, Tolerance <- 1, Limit <- 3, MaxRecords <- 3, MaxFaults <- 1, MaxLoads <- 1,
  closing <- pclosing, faults <- pfaults, torn <- ptorn

Dbm == INSTANCE DbManager WITH
  Callers <- {"c1", "c2"}, Channels <- {"a", "b"}, NoDb <- [n |-> 0, ch |-> "none"],
  Threshold <- 1, MaxOpens <- 4, call <- dcall

fmp4 == <<mux, file, sent, clock, changes, npkts>>
segment == <<smux, disk, swritten, failed, hasKey, frag, sclosed, sring, held, pc, snpkts,
             sclock, sfaults, done, log, eager>>
mp4 == <<samples, written, closed, mfile, input, mfaults>>
persistence == <<queue, batch, wr, pclosing, frames, dets, cache, enq, pfaults, loads, ever,
                 lost, ptorn>>
dbmanager == <<dbs, lastAccess, open, dcall, opens>>
vars == <<sel, fmp4, segment, ringVars, mp4, chainVars, hlsVars, pullVars, persistence, dbmanager>>

MCInit ==
  /\ sel \in {"fmp4", "segment", "ringbuf", "mp4", "chain",
             "hls", "pull", "persistence", "dbmanager"}
  /\ Fmp4!Init /\ Seg!Init /\ RingInit /\ Mp4!Init /\ Init
  /\ HlsInit /\ PullInit /\ Prs!Init /\ Dbm!Init

MCNext ==
  \/ /\ sel = "fmp4" /\ Fmp4!Next
     /\ UNCHANGED <<sel, segment, ringVars, mp4, chainVars, hlsVars, pullVars, persistence, dbmanager>>
  \/ /\ sel = "segment" /\ Seg!Next
     /\ UNCHANGED <<sel, fmp4, ringVars, mp4, chainVars, hlsVars, pullVars, persistence, dbmanager>>
  \/ /\ sel = "ringbuf" /\ RingNext
     /\ UNCHANGED <<sel, fmp4, segment, mp4, chainVars, hlsVars, pullVars, persistence, dbmanager>>
  \/ /\ sel = "mp4" /\ Mp4!Next
     /\ UNCHANGED <<sel, fmp4, segment, ringVars, chainVars, hlsVars, pullVars, persistence, dbmanager>>
  \/ /\ sel = "chain" /\ Next
     /\ UNCHANGED <<sel, fmp4, segment, ringVars, mp4, hlsVars, pullVars, persistence, dbmanager>>
  \/ /\ sel = "hls" /\ HlsNext
     /\ UNCHANGED <<sel, fmp4, segment, ringVars, mp4, chainVars, pullVars, persistence, dbmanager>>
  \/ /\ sel = "pull" /\ PullNext
     /\ UNCHANGED <<sel, fmp4, segment, ringVars, mp4, chainVars, hlsVars, persistence, dbmanager>>
  \/ /\ sel = "persistence" /\ Prs!Next
     /\ UNCHANGED <<sel, fmp4, segment, ringVars, mp4, chainVars, hlsVars, pullVars, dbmanager>>
  \/ /\ sel = "dbmanager" /\ Dbm!Next
     /\ UNCHANGED <<sel, fmp4, segment, ringVars, mp4, chainVars, hlsVars, pullVars, persistence>>

\* The fairness of LLHLS and GrpcPull.
MCSpec ==
  /\ MCInit /\ [][MCNext]_vars
  /\ HlsFairness /\ PullFairness

-----------------------------------------------------------------------------
\* What an fmp4.Demuxer reads back is what the fmp4.Muxer was given, and a codec
\* change is announced with the first packet behind it (Fmp4File).
FilePlaysBack == sel = "fmp4" => Fmp4!DecodedIsWritten /\ Fmp4!ChangeIsAnnounced
\* Seeking finds the fragment, through the sidx or without it (Fmp4File).
SeekLands == sel = "fmp4" => Fmp4!SeekLands
\* Over any number of rotations the segments hold every packet once, each one that
\* was closed plays to its end, and the ring has their fragments in order,
\* wherever the disk fails (Segment).
SegmentsHoldStream ==
  sel = "segment" => /\ Seg!RotationKeepsEverything /\ Seg!ClosedSegmentPlays
                     /\ Seg!RingIsRecorded
\* A finished MP4 file plays back what was written, in DTS order over all its
\* tracks (Mp4File).
Mp4PlaysBack == sel = "mp4" => Mp4!Mp4PlaysBack /\ Mp4!Mp4InOrder
\* Close makes the calls that wait return: blocking reloads of a playlist, the
\* read of a pulled stream (LLHLS, GrpcPull).
CloseUnblocks == CloseReleases /\ CloseUnblocksRead
\* Every analytics record is stored once or lost to a full queue or a failure,
\* none out of order; a prune leaves no detection without its frame and deletes
\* the older seconds first; the cached window finds what was stored; and the manager
\* reaches every database that is open (Persistence, DbManager).
RecordsAreKept ==
  /\ [](sel = "persistence" => Prs!RecordedOnce /\ Prs!NoOrphans /\ Prs!FindsStored)
  /\ [](sel = "dbmanager" => Dbm!OpenIsManaged)
  /\ Prs!PruneOldestFirst
=============================================================================
