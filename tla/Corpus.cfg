SPECIFICATION MCSpec

CONSTANTS
  x1 = x1
  x2 = x2
  EvalRuns = {v1}
  Questions = {u1, u2}
  Tags = {t1}
  Freezers = {z1, z2}
  EvalAttempts = 3
  MaxDisturbances = 2
  Fitters = {i1, i2}
  Askers = {q1}
  Removers = {k1}
  NoStats = NoStats
  Torn = Torn
  e1 = e1
  e2 = e2
  GraphChunks = {x1, x2}
  Entities = {e1, e2}
  MentionedIn <- MCMentionedIn
  ClaimedIn <- MCClaimedIn
  NoColl = NoColl
  MaxBuilds = 2
  NumNames = 4
  MergeNames = {1, 2}
  MaxTimes = 2
  NodeCap = 3
  MaxRounds = 20
  Rankable = {1, 2, 3}
  RecallChannels = {"dense", "sparse"}
  Discounts <- MCDiscounts
  Grades = {0, 1, 2, 3}
  ProbePages = 20
  Marks = {"h1", "h2", "fence", "word", "stop", "blank"}
  MaxMarks = 4
  PackSizes <- MCPackSizes
  MaxTokens = 9
  MaxSentences = 4
  f1 = f1
  f2 = f2
  h1 = h1
  h2 = h2
  n1 = n1
  n2 = n2
  m1 = m1
  Hits = {1, 2, 3}
  Files = {f1, f2}
  FileOf <- MCFileOf
  IndexOf <- MCIndexOf
  Tokens <- MCTokens
  SectionOf <- MCSectionOf
  Nodes = {n1, n2}
  NodeHits <- MCNodeHits
  Groups = {m1}
  GroupNodes <- MCGroupNodes
  NoFile = NoFile
  Unit = 60
  RrfK = 2
  Budgets = {1, 2, 5, 9}
  MmrFloor = 1

INVARIANT EvaluationSound
INVARIANT StatisticsSound
INVARIANT GraphSound
INVARIANT GraphAlgorithmsSound
INVARIANT MetricsSound
INVARIANT ProfilesSound
INVARIANT ChunkingSound
INVARIANT RetrievalSound
PROPERTY EvalEnds
CHECK_DEADLOCK FALSE
