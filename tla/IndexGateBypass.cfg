SPECIFICATION Spec

CONSTANTS
  Docs = {d1}
  Uploads = {}
  Targets = {r1, r2}
  Checks = {c1}
  Jobs = {r1, r2, c1}
  Logical = Logical
  NoRef = NoRef
  NoJob = NoJob
  MaxAttempts = 1
  Faults = {}
  MaxFaults = 0

PROPERTY PromotionAuthorized

CHECK_DEADLOCK FALSE
