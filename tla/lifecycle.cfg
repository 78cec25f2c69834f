SPECIFICATION FairSpec
CONSTANTS
  Obs = Obs
  None = None
  c1 = c1
  c2 = c2
  t1 = t1
  t2 = t2
  Conns <- MCConns
  Recons <- MCRecons
CONSTRAINT NoLateClaim
PROPERTY StopReturns
PROPERTY DeadConnectionReplaced
INVARIANT ExclusiveUntilLate
INVARIANT RetireUntilLate
INVARIANT StopCleanUntilLate
INVARIANT OneWorker
INVARIANT ReconnectNotLost
