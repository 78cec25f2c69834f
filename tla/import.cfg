SPECIFICATION Spec
CONSTANTS
  d1 = d1
  d2 = d2
  c1 = c1
  c2 = c2
  c3 = c3
  None = None
  Unknown = Unknown
  Decoders <- MCDecoders
  Contexts <- MCContexts
  Others = {"receive"}
  Luids <- MCLuids
  ObsLuid = "discrete"
  Sizes = {"hd", "uhd"}
  MaxPools = 2
SYMMETRY MCSymmetry
INVARIANT EverythingOwned
INVARIANT OwnContextCurrent
