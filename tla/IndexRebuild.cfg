SPECIFICATION Spec

CONSTANTS
  Docs = {d1, d2}
  Uploads = {d2}
  Targets = {r1, r2}
  Checks = {}
  Jobs = {d2, r1, r2}
  Logical = Logical
  NoRef = NoRef
  NoJob = NoJob
  MaxAttempts = 2
  Faults = {"cleanup", "retire"}
  MaxFaults = 1

INVARIANT TypeOK
INVARIANT BoundIndexesExist
INVARIANT IndexComplete
INVARIANT FailedLeavesNothing
INVARIANT RegistryFollowsBinding

VIEW View
SYMMETRY TargetSymmetry

CHECK_DEADLOCK FALSE
