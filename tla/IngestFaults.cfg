SPECIFICATION FairSpec

CONSTANTS
  Jobs = {j1}
  Digests = {d1}
  DigestOf <- MCDigestOf
  NoJob = NoJob
  MaxAttempts = 3
  MaxCrashes = 2
  Faults = {"create", "claim", "cleanup", "settle", "promote", "spool"}
  MaxFaults = 3

PROPERTY ImplementsLifecycle
PROPERTY EndsUnlessUnsettled
