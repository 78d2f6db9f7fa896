SPECIFICATION MCSpec

CONSTANTS
  Requests = {r1, r2, r3, r4}
  NoInst = NoInst
  PoolCalls = {c1, c2, c3, c4}
  Workers = 1
  MaxPending = 2
  Streams = {s1, s2}
  LastVersion = 3
  QueueSize = 1
  Heartbeat = 15
  Resync = 2
  Procs = {p1, p2}
  Families = {f1}
  MaxThreads = 2
  MaxCrashes = 2
  ParseCalls = {y1}
  WarmCalls = {w1}
  Profiles = {"standard"}
  MaxPages = 2
  MaxEvictions = 1

INVARIANT SlotTruthful
INVARIANT AdmissionExact
INVARIANT StreamsFaithful
INVARIANT ParsingSound
INVARIANT OneProcessWorks
PROPERTY LineMoves
PROPERTY ViewCatchesUp
PROPERTY StreamsEnd
CHECK_DEADLOCK FALSE
