SPECIFICATION PresetSpec
CONSTANTS
  Unread = Unread
  Empty = Empty
  Default = Default
  Blank = Blank
  Dots = Dots
  x1 = x1
  x2 = x2
  Cams <- MCCams
  Slots <- MCSlots
  Versions = {1, 2}
  MaxQueue = 2
  MaxActs = 7
  MaxFaults = 1
INVARIANT SlotsInRange
CHECK_DEADLOCK FALSE
