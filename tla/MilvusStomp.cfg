SPECIFICATION FairSpec

CONSTANTS
  Threads = {t1, t2}
  Databases = {default, other}
  Collections = {c}
  Shapes = {s1}
  Default = default
  None = None
  Torn = Torn
  MaxCalls = 1

PROPERTY DropsStayInDatabase

CHECK_DEADLOCK FALSE
