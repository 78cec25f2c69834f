SPECIFICATION FairSpec
CONSTANTS
  None = None
  r1 = r1
  r2 = r2
  r3 = r3
  Reqs <- MCReqs
  MaxNonce = 3
  MaxNc = 3
PROPERTY Serial
INVARIANT NotStuck
INVARIANT NoReplay
INVARIANT RetrySigned
