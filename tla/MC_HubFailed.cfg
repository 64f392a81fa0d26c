SPECIFICATION FairSpec
CONSTANTS
  c1 = c1
  h1 = h1
  g1 = g1
  Conns = {c1}
  Hubs = {h1}
  Home <- OneHub
  Rooms = {}
  Callers = {g1}
  SendBuf = 1
  Ping = FALSE
  Modes = {"failed"}
  Stalls = FALSE
  MaxResend = 1
  MaxMsg = 1
PROPERTY Delivered
CHECK_DEADLOCK FALSE
