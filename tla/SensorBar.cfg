\* The four sensors; no interrupt takes 10 us.
SPECIFICATION FairSpec
CONSTANTS
  NUM_SENSORS = 4
  mux_map <- MCmux_map
  sensor_order <- MCsensor_order
  LongIsr = FALSE
INVARIANTS ReadingsAreOwn TriggerEnds
PROPERTY SensorsRead
