SPECIFICATION PresetSpec
CONSTANTS
  Unread = Unread
  Empty = Empty
  Default = Default
  Blank = Blank
  Dots = Dots
  x1 = x1
  x2 = x2
  Cams <- MCCams
  Slots <- MCSlots
  Versions = {1, 2}
  MaxQueue = 2
  MaxActs = 7
  MaxFaults = 1
SYMMETRY MCSymmetry
INVARIANT SlotShowsOwn
INVARIANT NameSettles
INVARIANT PictureSettles
INVARIANT TransportKnown
CHECK_DEADLOCK FALSE
