SPECIFICATION Spec

CONSTANTS
  Jobs = {j1, j2}
  Digests = {d1}
  DigestOf <- MCDigestOf
  NoJob = NoJob
  MaxAttempts = 2
  MaxCrashes = 0
  Faults = {}
  MaxFaults = 0

INVARIANT CancelKept
