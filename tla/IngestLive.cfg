SPECIFICATION FairSpec

CONSTANTS
  Jobs = {j1, j2}
  Digests = {d1}
  DigestOf <- MCDigestOf
  NoJob = NoJob
  MaxAttempts = 2
  MaxCrashes = 0
  Faults = {"create"}
  MaxFaults = 1

INVARIANT UploadsSettled
PROPERTY FairLifecycle
