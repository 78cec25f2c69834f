SPECIFICATION Spec
CONSTANTS
  None = None
  new = new
  old = old
  Cams <- MCCams
  PtzCams <- MCPtzCams
  Offers <- MCOffers
  Values = {1, 2}
  Dirs = {0, 1}
  Nested = FALSE
  MaxActs = 8
  MaxFaults = 2
  MaxQueue = 3
INVARIANT BarShowsCamera
INVARIANT PadStops
INVARIANT TabFollows
CHECK_DEADLOCK FALSE
