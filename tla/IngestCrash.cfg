SPECIFICATION Spec

CONSTANTS
  Jobs = {j1, j2}
  Digests = {d1}
  DigestOf <- MCDigestOf
  NoJob = NoJob
  MaxAttempts = 2
  MaxCrashes = 2
  Faults = {}
  MaxFaults = 0

INVARIANT TypeOK
INVARIANT SpoolHeld
INVARIANT NoResidue
INVARIANT StoresAgree
INVARIANT StageMeansExecuting
INVARIANT CancelledOnRequest
