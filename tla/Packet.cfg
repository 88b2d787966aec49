\* Payloads of up to four bytes; _cpos++ is evaluated from left to right.
SPECIFICATION PacketSpec
CONSTANTS
  Cmds = {1, 5}
  Values <- MCValues
  MaxPayload = 4
  Errors <- MCErrors
  EvalOrders = {"leftFirst"}
INVARIANTS IsDivision DamageDetected RoundTrip
CHECK_DEADLOCK FALSE
