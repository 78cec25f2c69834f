SPECIFICATION Spec
CONSTANTS
  None = None
  h1 = h1
  two = two
  Default1 = Default1
  Default2 = Default2
  Hosts <- MCHosts
  Addresses <- MCAddresses
  MaxObs = 2
  MaxClicks = 2
  MaxQueued = 2
INVARIANT PresenceSettles
INVARIANT OfflineMark
INVARIANT FiresOnce
PROPERTY SourceListed
CHECK_DEADLOCK FALSE
