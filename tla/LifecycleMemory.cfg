SPECIFICATION FairSpec
CONSTANTS
  Callers = {c1, c2}
  Serials = {s1, s2}
  Reasons = {1, 4}
  NoRevocation = NoRevocation
  NoSerial = NoSerial
  Backend = "memory"
  MaxReservationRetries = 2
PROPERTIES LedgerSpec CallsReturn
