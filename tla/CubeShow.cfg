SPECIFICATION FairShowSpec
CONSTANTS
  N = 3
  Layers = 3
  Width = 4
  Observed = 1
  Values = {2}
  MaxUpdates = 1
  White = 3
  Colors = {0, 3}
  Text <- MCText
  Draws <- MCDraws
  Scenes <- MCScenes
  Watched <- MCWatched
INVARIANTS
  GlyphMoves
  PictureAges
  BrightnessIsBits
PROPERTIES
  ShowGoesOn
