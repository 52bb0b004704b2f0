\* A second client of the log socket configures networks.
SPECIFICATION Spec
CONSTANTS
  Words = {"network", "delete", "deleteall", "list", "OPEN", "WPA", "Y"}
  MaxProfiles = 1
  BufSize = 4
  WlanFails = TRUE
  MaxLines = 4
  MaxOpens = 2
INVARIANT LinesHandled
CHECK_DEADLOCK FALSE
