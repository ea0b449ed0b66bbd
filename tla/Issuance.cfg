SPECIFICATION Spec
CONSTANTS
  Labels = {"empty", "*", "w*", "www", "com", "local", "onion", "localhost", "mylocalhost"}
  MaxLabels = 4
  Profiles <- MCProfiles
  Logs = {l1, l2}
  NilLog = NilLog
  MaxLogs = 3
  ExtLengths = {0, 32000, 65500, 65536}
  SigLengths = {0, 72}
  NoRequest = NoRequest
INVARIANTS TypeOK SignedNamesAreGood LintBlamesTheProfile ValidateCSRAgrees FinalHasItsSCTs LengthsAreTrue
\* The call ends.
CHECK_DEADLOCK FALSE
