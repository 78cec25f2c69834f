SPECIFICATION Spec
PROPERTY StopJoins
CONSTANTS
  None = None
  c1 = c1
  c2 = c2
  Cameras <- MCCameras
  Families <- MCFamilies
  Shapes <- MCShapes
  Interfaces <- MCInterfaces
  Windows = FALSE
  MaxSockets = 32
  Ttl = 1
  MaxTime = 2
  MaxQueries = 2
INVARIANT ListingExact
INVARIANT ListedOwnAddress
