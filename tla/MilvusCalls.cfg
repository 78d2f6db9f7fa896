SPECIFICATION Spec
CONSTANTS
  Threads = {t1, t2}
  Databases = {default, other}
  Collections = {c}
  Shapes = {s1, s2}
  Default = default
  None = None
  Torn = Torn
  MaxCalls = 1
INVARIANT CachesTruthful
INVARIANT UndisturbedCallsReach
CHECK_DEADLOCK FALSE

VIEW MCView
SYMMETRY MCSymmetry
