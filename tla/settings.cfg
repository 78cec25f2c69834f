SPECIFICATION Spec
CONSTANTS
  None = None
  Empty = Empty
  k1 = k1
  k2 = k2
  k3 = k3
  c1 = c1
  c2 = c2
  v1 = v1
  v2 = v2
  Keys <- MCKeys
  Catalogs <- MCCatalogs
  Values <- MCValues
  Schema <- MCSchema
  Reported <- MCReported
  Targets <- MCTargets
  PtzKeys <- MCPtzKeys
  Cameras <- MCCameras
  ReadOnly <- MCReadOnly
  MaxQueue = 2
  MaxJobs = 2
SYMMETRY MCSymmetry
INVARIANT ReadsAccounted
INVARIANT CacheFollowsCamera
INVARIANT RowsSettle
INVARIANT PaneShowsGroup
