SPECIFICATION Spec
CONSTANTS
  Callers = {c1, c2}
  Nonces = {n1, n2, n3}
  Keys = {k1, k2}
  Accounts = {a1, a2}
  NoNonce = NoNonce
  NoKey = NoKey
  NoAccount = NoAccount
INVARIANTS TypeOK NonceLetsOneThrough NoNonceIsLost HeadersAreFresh
PROPERTIES GateSpec
SYMMETRY Symmetry
