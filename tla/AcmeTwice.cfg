SPECIFICATION Spec
CONSTANTS
  Callers = {c1, c2}
  Orders = {o1}
  Authzs = {a1}
  Serials = {s1, s2}
  Reasons = {1}
  NoRevocation = NoRevocation
  NoOrder = NoOrder
  NoSerial = NoSerial
  Backend = "sqlite"
  SkipChallengeValidation = TRUE
INVARIANTS OneCertificatePerOrder
SYMMETRY Symmetry
