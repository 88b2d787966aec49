\* Every command of the enumeration; one without a callback ends the main loop.
SPECIFICATION Spec
CONSTANTS
  Sent <- Commands
  Speeds <- MCSpeeds
  Angles <- MCAngles
  Gains = {1, 2, 5}
  HeadingPWM <- MCHeadingPWM
  Batch = 2
INVARIANTS TypeOK AutoDrive ManualDrive EchoIsTrue
PROPERTY ThrottleNeedsStart
CHECK_DEADLOCK FALSE
