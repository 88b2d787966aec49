\* TIM3 has 4 counts, 2 ticks between two readings; a reading out of range.
SPECIFICATION Spec
CONSTANTS
  Top = 3
  MaxTurn = 2
  StallReadings = 2
  Distances = {10, 40, 136}
  Places <- MCPlaces
  Asin <- MCAsin
  AtanMoving <- MCAtanMoving
  AtanStill <- MCAtanStill
INVARIANTS VelocityTrue Mirrored SteersToTheMiddle
PROPERTY StallIsReal
