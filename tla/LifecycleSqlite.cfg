SPECIFICATION Spec
CONSTANTS
  Callers = {c1, c2, c3}
  Serials = {s1, s2}
  Reasons = {1, 4}
  NoRevocation = NoRevocation
  NoSerial = NoSerial
  Backend = "sqlite"
  MaxReservationRetries = 2
INVARIANTS TypeOK OneCertificatePerSerial TablesAgree
PROPERTIES LedgerSpec
SYMMETRY Symmetry
