\* Every command of the enumeration, also those without a callback. After the fault nothing moves.
SPECIFICATION Spec
CONSTANTS
  Sent <- Commands
  Speeds <- MCSpeeds
  Angles <- MCAngles
  Gains = {1, 2, 5}
  HeadingPWM <- MCHeadingPWM
  Batch = 2
INVARIANT OnlyCallbacksCalled
CHECK_DEADLOCK FALSE
