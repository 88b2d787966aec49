\* A ring of one character, a clock of six ticks; transfers may fail.
SPECIFICATION FairSpec
CONSTANTS
  Size = 1
  Wrap = 3
  MaxTyped = 1
  CharTimes = 1
  TickWrap = 6
  Interval = 2
  Announced = 3
  MaxHeld = 1
  Faults = {"noStart", "noAck"}
  PowerDelay = 1
  EnableDelay = 3
  Callbacks <- MCCallbacks
INVARIANTS ConsoleSafe StatusSpaced SensorEnabled
PROPERTY StatusSent
