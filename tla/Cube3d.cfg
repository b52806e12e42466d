SPECIFICATION FairSpec
CONSTANTS
  N = 2
  Width = 64
  On = 2
  Off = 1
  Colors = {7}
  Coordinates = {0, 1, 2}
  MaxKeys = 3
  MaxUpdates = 1
INVARIANTS
  PictureKept
  CursorStaysInCube
PROPERTIES
  Blinks
