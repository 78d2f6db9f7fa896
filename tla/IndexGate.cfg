SPECIFICATION Spec

CONSTANTS
  Docs = {d1}
  Uploads = {}
  Targets = {r1}
  Checks = {c1, c2}
  Jobs = {r1, c1, c2}
  Logical = Logical
  NoRef = NoRef
  NoJob = NoJob
  MaxAttempts = 3
  Faults = {"cleanup", "finish", "retire", "delete"}
  MaxFaults = 1

PROPERTY PromotionAuthorized
PROPERTY ImplementsLifecycle

VIEW View
SYMMETRY CheckSymmetry

CHECK_DEADLOCK FALSE
