\* Two connections; every ACK belongs to the connection that is in the table.
SPECIFICATION FairSpec
CONSTANTS
  SeqMod = 8
  ResendLimit = 3
  StaleAcks = FALSE
  MaxReq = 2
  MaxConn = 2
CHECK_DEADLOCK FALSE
INVARIANTS TypeOK PendingHasTask StopsOnlyIfReceived
PROPERTY TasksEnd
