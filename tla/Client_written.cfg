\* One sender on a connection that lasts.
SPECIFICATION FairSpec
CONSTANTS
  s = s
  t = t
  Sender = {s}
  MaxWaiting = 2
  MaxFails = 0
  SendEarly = FALSE
  INIT_RECONNECT_INTERVAL = 500
  MAX_RECONNECT_INTERVAL = 30000
PROPERTY DataWritten
