SPECIFICATION DeviceSpec
CONSTANTS
  Devices <- MCDevices
  Probed = {12, 18, 40}
  ChainOffsets = {64, 72, 80, 252}
  Pointers = {16, 64, 74, 255}
  Counts = {0}
INVARIANT
  UpperHalfRefused
