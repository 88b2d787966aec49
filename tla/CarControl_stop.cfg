\* A stop in manual mode.
SPECIFICATION Spec
CONSTANTS
  Sent <- MCSent
  Speeds <- MCSpeeds
  Angles <- MCAngles
  Gains = {1, 2, 5}
  HeadingPWM <- MCHeadingPWM
  Batch = 2
INVARIANT StopStopsMotor
