SPECIFICATION Spec
CHECK_DEADLOCK FALSE
CONSTANTS
  Instants = {1, 2}
  DayLength = 2
  Days = {0, 1}
  Zones <- EveryZone
  All = All
  Pages = {"logs", "clients", "compose"}
  SocketPages = {"logs", "clients"}
  MaxEvents = 2
  MaxClicks = 2
  MaxFaults = 1
INVARIANTS StaleListHasCause UnreadClearedOnLogs ListenerIsConnected
