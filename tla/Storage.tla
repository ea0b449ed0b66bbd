------------------------------- MODULE Storage -------------------------------
(***************************************************************************)
(* The certificate store of go-certa (pkg/storage): the three tables every *)
(* protocol handler works on, and the operations of the Storage interface  *)
(* as actions with their result as last parameter.  Each operation is one  *)
(* step, because MemoryStorage holds its mutex for the whole call and      *)
(* SQLiteStorage runs it in one transaction on its only connection.  The   *)
(* exception is SQLite's ReserveSerial, which is two statements without a  *)
(* transaction and hence two actions here.                                 *)
(*                                                                         *)
(* The result "failed" stands for every error that leaves the tables as    *)
(* they were and that no caller tells apart: a cancelled context, a closed *)
(* or failing database, a rolled-back transaction.                         *)
(***************************************************************************)
CONSTANTS
  Serials,       \* the serial numbers that can be drawn
  Reasons,       \* the revocation reason codes
  NoRevocation,  \* "no row": the serial has no revocation record
  Backend        \* which implementation of Storage is wired in

ASSUME StorageAssumption ==
  /\ NoRevocation \notin Reasons
  /\ Backend \in {"memory", "sqlite"}

VARIABLES
  certificates,  \* per serial: no record, or a record and its revoked flag
  revocations,   \* per serial: the reason in its revocation record, if any
  serials        \* the reserved serials

storeVars == <<certificates, revocations, serials>>

StorageTypeOK ==
  /\ certificates \in [Serials -> {"absent", "valid", "revoked"}]
  /\ revocations \in [Serials -> Reasons \cup {NoRevocation}]
  /\ serials \in SUBSET Serials

StorageInit ==
  /\ certificates = [s \in Serials |-> "absent"]
  /\ revocations = [s \in Serials |-> NoRevocation]
  /\ serials = {}

(***************************************************************************)
(* Writes.                                                                 *)
(***************************************************************************)

\* Bug: the lock is dropped between the check and the claim.
ReserveSerialUnchecked(s, res) ==
  /\ res = "ok"
  /\ serials' = serials \cup {s}
  /\ UNCHANGED <<certificates, revocations>>

\* MemoryStorage.ReserveSerial: check and claim under one lock.
ReserveSerial(s, res) ==
  LET taken == s \in serials \/ certificates[s] # "absent" IN
  \/ /\ ~taken
     /\ res = "ok"
     /\ serials' = serials \cup {s}
     /\ UNCHANGED <<certificates, revocations>>
  \/ /\ res \in {"failed"} \cup {e \in {"ErrAlreadyExists"} : taken}
     /\ UNCHANGED storeVars

\* The first statement of SQLiteStorage.ReserveSerial, SELECT COUNT(*).
SelectSerial(s, res) ==
  /\ res \in {"failed", IF s \in serials THEN "ErrAlreadyExists" ELSE "unclaimed"}
  /\ UNCHANGED storeVars

\* Bug: INSERT OR IGNORE, as SaveCertificate uses for the same table.
InsertSerialOrIgnore(s, res) ==
  /\ res = "ok"
  /\ serials' = serials \cup {s}
  /\ UNCHANGED <<certificates, revocations>>

\* The second one, INSERT: a row that came in between violates the primary
\* key, and the driver's error is returned as it is.
InsertSerial(s, res) ==
  \/ /\ s \notin serials
     /\ res = "ok"
     /\ serials' = serials \cup {s}
     /\ UNCHANGED <<certificates, revocations>>
  \/ /\ res \in {"failed"} \cup {e \in {"UniqueViolation"} : s \in serials}
     /\ UNCHANGED storeVars

\* A certificate is saved once; its serial counts as reserved from then on.
SaveCertificate(s, res) ==
  \/ /\ certificates[s] = "absent"
     /\ res = "ok"
     /\ certificates' = [certificates EXCEPT ![s] = "valid"]
     /\ serials' = serials \cup {s}
     /\ UNCHANGED revocations
  \/ /\ res \in {"failed"} \cup {e \in {"ErrAlreadyExists"} : certificates[s] # "absent"}
     /\ UNCHANGED storeVars

\* Both tables are written together.  SQLite looks at the flag only, and a
\* revocation row without the flag makes its INSERT fail and roll back.
AlreadyRevoked(s) ==
  \/ certificates[s] = "revoked"
  \/ certificates[s] = "valid" /\ Backend = "memory" /\ revocations[s] # NoRevocation

\* Bug: the two tables are not written in one transaction, and the second
\* write fails.
RevokeCertificateFlagOnly(s, r, res) ==
  /\ certificates[s] = "valid"
  /\ res = "failed"
  /\ certificates' = [certificates EXCEPT ![s] = "revoked"]
  /\ UNCHANGED <<revocations, serials>>

\* Bug: revoking again replaces the record.
RevokeCertificateAgain(s, r, res) ==
  /\ certificates[s] # "absent"
  /\ res = "ok"
  /\ certificates' = [certificates EXCEPT ![s] = "revoked"]
  /\ revocations' = [revocations EXCEPT ![s] = r]
  /\ UNCHANGED serials

RevokeCertificate(s, r, res) ==
  \/ /\ certificates[s] = "valid"
     /\ revocations[s] = NoRevocation
     /\ res = "ok"
     /\ certificates' = [certificates EXCEPT ![s] = "revoked"]
     /\ revocations' = [revocations EXCEPT ![s] = r]
     /\ UNCHANGED serials
  \/ /\ res \in {"failed"} \cup {e \in {"ErrNotFound"} : certificates[s] = "absent"}
                           \cup {e \in {"ErrAlreadyRevoked"} : AlreadyRevoked(s)}
     /\ UNCHANGED storeVars

(***************************************************************************)
(* Reads: the possible results of a call made now.                         *)
(***************************************************************************)

\* "absent" is ErrNotFound.
GetCertificate(s) == {certificates[s], "failed"}

\* NoRevocation is ErrNotFound as well as any other error: both callers fall
\* back to their defaults on every error alike.
GetRevocation(s) == {revocations[s], NoRevocation}

\* Every revocation record; the order of the rows is left out.
ListRevoked == {s \in Serials : revocations[s] # NoRevocation}
=============================================================================
