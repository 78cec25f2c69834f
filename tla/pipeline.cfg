SPECIFICATION Spec
CONSTANTS
  None = None
  d1 = d1
  d2 = d2
  d3 = d3
  f1 = f1
  f2 = f2
  f3 = f3
  Decs <- MCDecs
  Frames <- MCFrames
  Metas <- MCMetas
  Windows = FALSE
SYMMETRY MCSymmetry
INVARIANT DecoderOwnership
INVARIANT FrameOwnership
INVARIANT CpuFrameAlive
INVARIANT DecoderMatchesCodec
INVARIANT HardwareMatchesStream
