\* The first client of the log socket configures networks.
SPECIFICATION Spec
CONSTANTS
  Words = {"network", "delete", "deleteall", "list", "OPEN", "WPA", "Y"}
  MaxProfiles = 1
  BufSize = 6
  WlanFails = TRUE
  MaxLines = 8
  MaxOpens = 1
INVARIANTS
  TypeOK
  LinesHandledAtFirst
PROPERTY ChangedAsAsked
CHECK_DEADLOCK FALSE
