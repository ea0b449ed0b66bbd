SPECIFICATION Spec
CONSTANTS
  Callers = {c1, c2, c3}
  Orders = {o1, o2}
  Authzs = {a1, a2, a3}
  Serials = {s1, s2, s3}
  Reasons = {1}
  NoRevocation = NoRevocation
  NoOrder = NoOrder
  NoSerial = NoSerial
  Backend = "sqlite"
  SkipChallengeValidation = TRUE
INVARIANTS TypeOK StatusFollowsAuthorizations SignedIsAuthorized ValidHasItsCertificate
PROPERTIES LifeSpec
SYMMETRY Symmetry
