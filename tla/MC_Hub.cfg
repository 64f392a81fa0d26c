SPECIFICATION FairSpec
CONSTANTS
  c1 = c1
  h1 = h1
  g1 = g1
  Conns = {c1}
  Hubs = {h1}
  Home <- OneHub
  Rooms = {"a"}
  Callers = {g1}
  SendBuf = 1
  Ping = TRUE
  Modes = {"none", "ok"}
  Stalls = TRUE
  MaxResend = 1
  MaxMsg = 2
INVARIANTS RoomsAgree PublishedOrder
PROPERTIES NoSendOnClosed Delivered CloseEnds
ACTION_CONSTRAINT RoomsFirst
CHECK_DEADLOCK FALSE
