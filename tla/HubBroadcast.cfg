SPECIFICATION MCSpec
CONSTANTS
  NoTime = NoTime
  Tracks = {"v", "a"}
  NoTrack = "none"
  RtpMod = 16
  Jumps <- MCJumps
  DefaultDur = 1
  MaxFrames = 2
  MaxConns = 2
  MaxPauses = 1
  MaxKeepAlives = 1
  Conns = {"c1", "c2"}
  None = "none"
  BufSize = 1
  Configs = {"", "cfg"}
  Errors = {"upstream"}
  MaxPackets <- MCMaxPackets
  MaxPushPauses = 1
  Streams = {"i1"}
  Mergers = {"m1", "m2"}
  Chans = {1, 2, 3, 4}
  NoCh = 0
  Times = {1, 2, 5}
  FrameTimes = {1, 4}
  Tolerance = 1
  Cutoffs = {0, 3}
  ChanBuf = 1
  MaxResults = 2
INVARIANTS SendsToSubscribers
CHECK_DEADLOCK FALSE
