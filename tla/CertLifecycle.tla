---------------------------- MODULE CertLifecycle ----------------------------
(***************************************************************************)
(* The life of a certificate across the handlers that share the store:     *)
(* enrolment (GenerateAndReserveSerialWithBits, sign, SaveCertificate),    *)
(* the revocation API (RevokeCertificate, then GetRevocation) and the OCSP *)
(* responder (GetCertificate, then GetRevocation).  A caller is one HTTP   *)
(* request goroutine at a time; every access to the store is a step, and   *)
(* the steps of different callers interleave.                              *)
(***************************************************************************)
EXTENDS Storage, Naturals

CONSTANTS
  Callers,               \* request goroutines
  NoSerial,              \* no serial in hand
  MaxReservationRetries  \* attempts to reserve a serial

ASSUME LifecycleAssumption ==
  /\ NoSerial \notin Serials
  /\ MaxReservationRetries \in Nat

VARIABLES
  pc,          \* where each caller is
  held,        \* the serial it works on
  attempt,     \* how many serials it has tried to reserve
  asked,       \* the reason its revocation request gave
  answer,      \* the last answer it sent
  signatures   \* history: how often each serial has been signed

callVars == <<pc, held, attempt, asked, answer>>
vars == <<storeVars, callVars, signatures>>

Answer(k, s, r) == [kind |-> k, serial |-> s, reason |-> r]
NoAnswer == Answer("none", NoSerial, NoRevocation)
Kinds == {"none", "certificate", "confirmed", "good", "revoked", "unknown", "failed",
          "UniqueViolation", "ErrSerialExhaustion", "ErrNotFound", "ErrAlreadyRevoked"}
Answers == [kind : Kinds, serial : Serials \cup {NoSerial},
            reason : Reasons \cup {NoRevocation}]

Init ==
  /\ StorageInit
  /\ pc = [c \in Callers |-> "idle"]
  /\ held = [c \in Callers |-> NoSerial]
  /\ attempt = [c \in Callers |-> 0]
  /\ asked = [c \in Callers |-> NoRevocation]
  /\ answer = [c \in Callers |-> NoAnswer]
  /\ signatures = [s \in Serials |-> 0]

\* Caller c moves on to state p with serial s in hand.
Proceed(c, p, s) ==
  /\ pc' = [pc EXCEPT ![c] = p]
  /\ held' = [held EXCEPT ![c] = s]
  /\ answer' = [answer EXCEPT ![c] = NoAnswer]

\* Caller c answers its request and is done with it.
Finish(c, a) ==
  /\ pc' = [pc EXCEPT ![c] = "idle"]
  /\ held' = [held EXCEPT ![c] = NoSerial]
  /\ attempt' = [attempt EXCEPT ![c] = 0]
  /\ asked' = [asked EXCEPT ![c] = NoRevocation]
  /\ answer' = [answer EXCEPT ![c] = a]

Fail(c, k) == Finish(c, Answer(k, held[c], NoRevocation))

(***************************************************************************)
(* Enrolment.                                                              *)
(***************************************************************************)

\* A well-formed enrolment request reaches the serial allocation.
Enroll(c) ==
  /\ pc[c] = "idle"
  /\ Proceed(c, "drawing", NoSerial)
  /\ UNCHANGED <<storeVars, attempt, asked, signatures>>

\* Bug: a collision does not count as an attempt.  (The serial stays in hand,
\* so that drawing one taken serial after the other is not mere stuttering.)
AfterReserveUncounted(c, s, res) ==
  \/ res = "ok" /\ Proceed(c, "signing", s) /\ UNCHANGED <<attempt, asked>>
  \/ res = "ErrAlreadyExists" /\ Proceed(c, "drawing", s) /\ UNCHANGED <<attempt, asked>>
  \/ res \notin {"ok", "ErrAlreadyExists"} /\ Fail(c, res)

\* What the retry loop does with the outcome of a reservation: go on, draw a
\* fresh serial, or give up.
AfterReserve(c, s, res) ==
  \/ /\ res = "ok"
     /\ Proceed(c, "signing", s)
     /\ UNCHANGED <<attempt, asked>>
  \/ /\ res = "ErrAlreadyExists"
     /\ Proceed(c, "drawing", NoSerial)
     /\ attempt' = [attempt EXCEPT ![c] = @ + 1]
     /\ UNCHANGED asked
  \/ /\ res \notin {"ok", "ErrAlreadyExists"}
     /\ Fail(c, res)

Reserve(c, s) ==
  /\ pc[c] = "drawing"
  /\ attempt[c] < MaxReservationRetries
  /\ Backend = "memory"
  /\ \E res \in {"ok", "ErrAlreadyExists", "failed"} :
       ReserveSerial(s, res) /\ AfterReserve(c, s, res)
  /\ UNCHANGED signatures

\* Bug: the loop has no bound.
SelectUnbounded(c, s) ==
  /\ pc[c] = "drawing"
  /\ Backend = "sqlite"
  /\ \E res \in {"unclaimed", "ErrAlreadyExists"} :
       /\ SelectSerial(s, res)
       /\ \/ res = "unclaimed" /\ Proceed(c, "inserting", s) /\ UNCHANGED <<attempt, asked>>
          \/ res # "unclaimed" /\ AfterReserve(c, s, res)
  /\ UNCHANGED signatures

Select(c, s) ==
  /\ pc[c] = "drawing"
  /\ attempt[c] < MaxReservationRetries
  /\ Backend = "sqlite"
  /\ \E res \in {"unclaimed", "ErrAlreadyExists", "failed"} :
       /\ SelectSerial(s, res)
       /\ \/ /\ res = "unclaimed"
             /\ Proceed(c, "inserting", s)
             /\ UNCHANGED <<attempt, asked>>
          \/ /\ res # "unclaimed"
             /\ AfterReserve(c, s, res)
  /\ UNCHANGED signatures

Insert(c) ==
  /\ pc[c] = "inserting"
  /\ \E res \in {"ok", "UniqueViolation", "failed"} :
       InsertSerial(held[c], res) /\ AfterReserve(c, held[c], res)
  /\ UNCHANGED signatures

\* Every attempt met a taken serial.
Exhaust(c) ==
  /\ pc[c] = "drawing"
  /\ attempt[c] >= MaxReservationRetries
  /\ Fail(c, "ErrSerialExhaustion")
  /\ UNCHANGED <<storeVars, signatures>>

\* The issuer signs, or refuses the request (policy, lint, a signer error);
\* a refused serial stays reserved for good.
Sign(c) ==
  /\ pc[c] = "signing"
  /\ \/ /\ signatures' = [signatures EXCEPT ![held[c]] = @ + 1]
        /\ Proceed(c, "saving", held[c])
        /\ UNCHANGED <<attempt, asked>>
     \/ /\ Fail(c, "failed")
        /\ UNCHANGED signatures
  /\ UNCHANGED storeVars

\* The certificate is sent to the client whatever SaveCertificate returned.
Save(c) ==
  /\ pc[c] = "saving"
  /\ \E res \in {"ok", "ErrAlreadyExists", "failed"} : SaveCertificate(held[c], res)
  /\ Finish(c, Answer("certificate", held[c], NoRevocation))
  /\ UNCHANGED signatures

(***************************************************************************)
(* The revocation API.                                                     *)
(***************************************************************************)
Revoke(c, s, r) ==
  /\ pc[c] = "idle"
  /\ \E res \in {"ok", "ErrNotFound", "ErrAlreadyRevoked", "failed"} :
       /\ RevokeCertificate(s, r, res)
       /\ \/ /\ res = "ok"
             /\ Proceed(c, "confirming", s)
             /\ asked' = [asked EXCEPT ![c] = r]
             /\ UNCHANGED attempt
          \/ /\ res # "ok"
             /\ Finish(c, Answer(res, s, NoRevocation))
  /\ UNCHANGED signatures

\* The record is read back for its time only; the reason reported is the one
\* of the request.
Confirm(c) ==
  /\ pc[c] = "confirming"
  /\ Finish(c, Answer("confirmed", held[c], asked[c]))
  /\ UNCHANGED <<storeVars, signatures>>

(***************************************************************************)
(* The OCSP responder.                                                     *)
(***************************************************************************)
\* Bug: a serial without a record is good, as in the responder's older
\* in-memory revocation list.
StatusGoodByDefault(c, s) ==
  /\ pc[c] = "idle"
  /\ \/ /\ certificates[s] = "revoked"
        /\ Proceed(c, "reading", s)
        /\ UNCHANGED <<attempt, asked>>
     \/ /\ certificates[s] # "revoked"
        /\ Finish(c, Answer("good", s, NoRevocation))
  /\ UNCHANGED <<storeVars, signatures>>

Status(c, s) ==
  /\ pc[c] = "idle"
  /\ \E rec \in GetCertificate(s) :
       \/ /\ rec = "revoked"
          /\ Proceed(c, "reading", s)
          /\ UNCHANGED <<attempt, asked>>
       \/ /\ rec # "revoked"
          /\ Finish(c, Answer(CASE rec = "absent" -> "unknown"
                                [] rec = "valid"  -> "good"
                                [] rec = "failed" -> "failed", s, NoRevocation))
  /\ UNCHANGED <<storeVars, signatures>>

ReadRevocation(c) ==
  /\ pc[c] = "reading"
  /\ \E r \in GetRevocation(held[c]) : Finish(c, Answer("revoked", held[c], r))
  /\ UNCHANGED <<storeVars, signatures>>

(***************************************************************************)
(* The process stops at any point and starts again on the same database.   *)
(* With the memory backend a restart creates a new store under a new       *)
(* issuer, which is a new behaviour from Init.                             *)
(***************************************************************************)
Restart ==
  /\ Backend = "sqlite"
  /\ pc' = [c \in Callers |-> "idle"]
  /\ held' = [c \in Callers |-> NoSerial]
  /\ attempt' = [c \in Callers |-> 0]
  /\ asked' = [c \in Callers |-> NoRevocation]
  /\ answer' = [c \in Callers |-> NoAnswer]
  /\ UNCHANGED <<storeVars, signatures>>

\* The steps of a call that has started.
Step(c) ==
  \/ \E s \in Serials : Reserve(c, s) \/ Select(c, s)
  \/ Insert(c) \/ Exhaust(c) \/ Sign(c) \/ Save(c)
  \/ Confirm(c) \/ ReadRevocation(c)

Arrive(c) ==
  \/ Enroll(c)
  \/ \E s \in Serials : Status(c, s)
  \/ \E s \in Serials, r \in Reasons : Revoke(c, s, r)

Next == (\E c \in Callers : Step(c) \/ Arrive(c)) \/ Restart

Spec == Init /\ [][Next]_vars

\* The Go scheduler runs every goroutine that can run.
FairSpec == Spec /\ \A c \in Callers : WF_vars(Step(c))

(***************************************************************************)
(* Properties.                                                             *)
(***************************************************************************)
Working ==
  {"drawing", "inserting", "signing", "saving", "confirming", "reading"}

CallTypeOK ==
  /\ pc \in [Callers -> {"idle"} \cup Working]
  /\ held \in [Callers -> Serials \cup {NoSerial}]
  /\ attempt \in [Callers -> 0..MaxReservationRetries]
  /\ asked \in [Callers -> Reasons \cup {NoRevocation}]
  /\ answer \in [Callers -> Answers]
  /\ \A c \in Callers : pc[c] \notin {"idle", "drawing"} => held[c] \in Serials

\* The type invariant; in particular the retry loop of
\* GenerateAndReserveSerialWithBits never goes past its bound.
TypeOK ==
  /\ StorageTypeOK
  /\ CallTypeOK
  /\ signatures \in [Serials -> Nat]

\* No serial number is ever signed twice, whichever callers draw it, in which
\* order their reservations interleave, and across restarts on one database.
OneCertificatePerSerial == \A s \in Serials : signatures[s] <= 1

\* The revoked flag and the revocation record, which live in two tables, agree;
\* and only a certificate that was signed under a reserved serial has either.
TablesAgree ==
  \A s \in Serials :
    /\ certificates[s] = "revoked" <=> revocations[s] # NoRevocation
    /\ certificates[s] # "absent" => s \in serials /\ signatures[s] = 1

\* A revocation is final: no later call clears it or replaces its reason.
RevocationIsFinal ==
  [][\A s \in Serials : revocations[s] # NoRevocation =>
        revocations'[s] = revocations[s] /\ certificates'[s] = "revoked"]_vars

\* Every call that has begun is answered (or lost in a restart): the loop over
\* colliding serials ends.
CallsReturn == \A c \in Callers : pc[c] # "idle" ~> pc[c] = "idle"

(***************************************************************************)
(* Why a serial is signed once: while a caller holds a reserved serial it  *)
(* is the only one to do so, and until it signs nobody has.                *)
(***************************************************************************)
Reserved(c) == pc[c] \in {"signing", "saving"}

HeldExclusively ==
  \A c \in Callers :
    Reserved(c) =>
      /\ held[c] \in serials
      /\ certificates[held[c]] = "absent"
      /\ signatures[held[c]] = IF pc[c] = "signing" THEN 0 ELSE 1
      /\ \A d \in Callers \ {c} : Reserved(d) => held[d] # held[c]

SignedIsReserved == \A s \in Serials : signatures[s] > 0 => s \in serials

\* A confirmation or an OCSP read-back works on a serial that is revoked, for
\* the very reason the caller asked for.
PendingReadsAreRevoked ==
  \A c \in Callers :
    /\ pc[c] \in {"confirming", "reading"} => certificates[held[c]] = "revoked"
    /\ pc[c] = "confirming" => revocations[held[c]] = asked[c]

\* Nothing is sent before the call is over.
SilentWhileWorking == \A c \in Callers : pc[c] # "idle" => answer[c] = NoAnswer

\* The inductive invariant.
LifecycleInv ==
  /\ OneCertificatePerSerial
  /\ TablesAgree
  /\ HeldExclusively
  /\ SignedIsReserved
  /\ PendingReadsAreRevoked

(***************************************************************************)
(* The tables, read as the abstract ledger.                                *)
(***************************************************************************)
Phase(s) ==
  IF certificates[s] = "revoked" THEN "revoked"
  ELSE IF certificates[s] = "valid" THEN "stored"
  ELSE IF signatures[s] > 0 THEN "signed"
  ELSE IF s \in serials THEN "claimed"
  ELSE "free"

PhaseMap == [s \in Serials |-> Phase(s)]

Ledger == INSTANCE SerialLedger WITH
            phase <- PhaseMap,
            bearing <- signatures,
            reason <- revocations

\* Enrolment, revocation and status requests, together with restarts, implement
\* the ledger: serials only move forward, each is borne by one certificate at
\* most, and every answer is true when given.
LedgerSpec == Ledger!LedgerSpec
=============================================================================
