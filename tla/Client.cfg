\* Two senders that do not wait for the connection, and a network that fails twice.
SPECIFICATION FairSpec
CONSTANTS
  s = s
  t = t
  Sender <- Senders
  MaxWaiting = 2
  MaxFails = 2
  SendEarly = TRUE
  INIT_RECONNECT_INTERVAL = 1
  MAX_RECONNECT_INTERVAL = 2
INVARIANTS NoRequestSleptOn ConnectedListens
PROPERTIES GetsConnected RequestsFlush
