--------------------------- MODULE LifecycleProofs ---------------------------
(***************************************************************************)
(* What TLC checks of CertLifecycle on three callers and two serials,      *)
(* proved for any set of callers, serials and reasons, any number of       *)
(* attempts and both backends: the types, the inductive invariant with the *)
(* safety properties it implies, and the refinement of SerialLedger.       *)
(***************************************************************************)
EXTENDS CertLifecycle, TLAPS

-----------------------------------------------------------------------------
(***************************************************************************)
(* Type correctness.                                                       *)
(***************************************************************************)

LEMMA AnswerType ==
  ASSUME NEW k \in Kinds, NEW s \in Serials \cup {NoSerial},
         NEW r \in Reasons \cup {NoRevocation}
  PROVE  Answer(k, s, r) \in Answers
BY DEF Answer, Answers

\* A call that moves on keeps the types of its own state.
LEMMA ProceedTypes ==
  ASSUME CallTypeOK, NEW c \in Callers, NEW s \in Serials \cup {NoSerial},
         NEW p \in Working, Proceed(c, p, s), p = "drawing" \/ s \in Serials,
         attempt' \in [Callers -> 0..MaxReservationRetries],
         asked' \in [Callers -> Reasons \cup {NoRevocation}]
  PROVE  CallTypeOK'
<1>1. NoAnswer \in Answers
  BY AnswerType DEF NoAnswer, Kinds
<1> QED BY <1>1 DEF CallTypeOK, Proceed

\* So does one that is answered.
LEMMA FinishTypes ==
  ASSUME CallTypeOK, NEW c \in Callers, NEW a \in Answers, Finish(c, a)
  PROVE  CallTypeOK'
BY LifecycleAssumption DEF CallTypeOK, Finish

\* The outcome of a reservation is handled within the bound on attempts.
LEMMA AfterReserveTypes ==
  ASSUME CallTypeOK, NEW c \in Callers, NEW s \in Serials,
         NEW res \in {"ok", "ErrAlreadyExists", "failed", "UniqueViolation"},
         res = "ErrAlreadyExists" => attempt[c] < MaxReservationRetries,
         AfterReserve(c, s, res)
  PROVE  CallTypeOK'
<1>1. CASE res = "ok" /\ Proceed(c, "signing", s) /\ UNCHANGED <<attempt, asked>>
  BY <1>1, ProceedTypes DEF CallTypeOK, Working
<1>2. CASE /\ res = "ErrAlreadyExists"
           /\ Proceed(c, "drawing", NoSerial)
           /\ attempt' = [attempt EXCEPT ![c] = @ + 1]
           /\ UNCHANGED asked
  <2>1. attempt' \in [Callers -> 0..MaxReservationRetries]
    BY <1>2, LifecycleAssumption DEF CallTypeOK
  <2>2. asked' \in [Callers -> Reasons \cup {NoRevocation}]
    BY <1>2 DEF CallTypeOK
  <2> QED BY <1>2, <2>1, <2>2, ProceedTypes DEF Working
<1>3. CASE res \notin {"ok", "ErrAlreadyExists"} /\ Fail(c, res)
  <2>1. Answer(res, held[c], NoRevocation) \in Answers
    BY <1>3, AnswerType DEF CallTypeOK, Kinds
  <2> QED BY <1>3, <2>1, FinishTypes DEF Fail
<1> QED BY <1>1, <1>2, <1>3 DEF AfterReserve

\* The store's operations keep its tables well-typed.
LEMMA StorageTypes ==
  ASSUME StorageTypeOK, NEW s \in Serials, NEW r \in Reasons, NEW res
  PROVE  /\ ReserveSerial(s, res) => StorageTypeOK'
         /\ SelectSerial(s, res) => StorageTypeOK'
         /\ InsertSerial(s, res) => StorageTypeOK'
         /\ SaveCertificate(s, res) => StorageTypeOK'
         /\ RevokeCertificate(s, r, res) => StorageTypeOK'
BY DEF StorageTypeOK, storeVars, ReserveSerial, SelectSerial, InsertSerial,
       SaveCertificate, RevokeCertificate

LEMMA StorageUnchanged ==
  ASSUME StorageTypeOK, UNCHANGED storeVars
  PROVE  StorageTypeOK'
BY DEF StorageTypeOK, storeVars

\* TypeOK is inductive: one step per action.
LEMMA TypeInductive == TypeOK /\ [Next]_vars => TypeOK'
<1> SUFFICES ASSUME TypeOK, [Next]_vars PROVE TypeOK'
  OBVIOUS
<1> USE DEF TypeOK
<1>1. ASSUME NEW c \in Callers, Enroll(c) PROVE TypeOK'
  <2>1. CallTypeOK'
    BY <1>1, ProceedTypes DEF Enroll, CallTypeOK, Working
  <2> QED BY <1>1, <2>1, StorageUnchanged DEF Enroll
<1>2. ASSUME NEW c \in Callers, NEW s \in Serials, Reserve(c, s) PROVE TypeOK'
  <2>1. PICK res \in {"ok", "ErrAlreadyExists", "failed"} :
          ReserveSerial(s, res) /\ AfterReserve(c, s, res)
    BY <1>2 DEF Reserve
  <2>2. CallTypeOK'
    BY <1>2, <2>1, AfterReserveTypes DEF Reserve
  <2>3. StorageTypeOK'
    BY <2>1 DEF StorageTypeOK, ReserveSerial, storeVars
  <2> QED BY <1>2, <2>2, <2>3 DEF Reserve
<1>3. ASSUME NEW c \in Callers, NEW s \in Serials, Select(c, s) PROVE TypeOK'
  <2>1. PICK res \in {"unclaimed", "ErrAlreadyExists", "failed"} :
          /\ SelectSerial(s, res)
          /\ \/ res = "unclaimed" /\ Proceed(c, "inserting", s) /\ UNCHANGED <<attempt, asked>>
             \/ res # "unclaimed" /\ AfterReserve(c, s, res)
    BY <1>3 DEF Select
  <2>2. StorageTypeOK'
    BY <2>1 DEF SelectSerial, StorageTypeOK, storeVars
  <2>3. CASE res = "unclaimed"
    <3>1. Proceed(c, "inserting", s) /\ UNCHANGED <<attempt, asked>>
      BY <2>1, <2>3
    <3>2. CallTypeOK'
      BY <3>1, ProceedTypes DEF CallTypeOK, Working
    <3> QED BY <1>3, <2>2, <3>2 DEF Select
  <2>4. CASE res # "unclaimed"
    <3>1. CallTypeOK'
      BY <1>3, <2>1, <2>4, AfterReserveTypes DEF Select
    <3> QED BY <1>3, <2>2, <3>1 DEF Select
  <2> QED BY <2>3, <2>4
<1>4. ASSUME NEW c \in Callers, Insert(c) PROVE TypeOK'
  <2> held[c] \in Serials
    BY <1>4 DEF Insert, CallTypeOK
  <2>1. PICK res \in {"ok", "UniqueViolation", "failed"} :
          InsertSerial(held[c], res) /\ AfterReserve(c, held[c], res)
    BY <1>4 DEF Insert
  <2>2. CallTypeOK'
    BY <1>4, <2>1, AfterReserveTypes
  <2>3. StorageTypeOK'
    BY <1>4, <2>1 DEF StorageTypeOK, InsertSerial, storeVars
  <2> QED BY <1>4, <2>2, <2>3 DEF Insert
<1>5. ASSUME NEW c \in Callers, Exhaust(c) PROVE TypeOK'
  <2>1. Answer("ErrSerialExhaustion", held[c], NoRevocation) \in Answers
    BY AnswerType DEF CallTypeOK, Kinds
  <2>2. CallTypeOK'
    BY <1>5, <2>1, FinishTypes DEF Exhaust, Fail
  <2> QED BY <1>5, <2>2, StorageUnchanged DEF Exhaust
<1>6. ASSUME NEW c \in Callers, Sign(c) PROVE TypeOK'
  <2>1. held[c] \in Serials
    BY <1>6 DEF Sign, CallTypeOK
  <2>2. Answer("failed", held[c], NoRevocation) \in Answers
    BY <2>1, AnswerType DEF Kinds
  <2>3. ASSUME Proceed(c, "saving", held[c]) /\ UNCHANGED <<attempt, asked>>
       PROVE  CallTypeOK'
    BY <2>1, <2>3, ProceedTypes DEF CallTypeOK, Working
  <2>4. ASSUME Fail(c, "failed")
       PROVE  CallTypeOK'
    BY <2>2, <2>4, FinishTypes DEF Fail
  <2>5. CallTypeOK'
    BY <1>6, <2>3, <2>4 DEF Sign
  <2> QED BY <1>6, <2>1, <2>5, StorageUnchanged DEF Sign
<1>7. ASSUME NEW c \in Callers, Save(c) PROVE TypeOK'
  <2>1. held[c] \in Serials
    BY <1>7 DEF Save, CallTypeOK
  <2>2. Answer("certificate", held[c], NoRevocation) \in Answers
    BY <2>1, AnswerType DEF Kinds
  <2>3. CallTypeOK'
    BY <1>7, <2>2, FinishTypes DEF Save
  <2>4. StorageTypeOK'
    BY <1>7, <2>1 DEF Save, SaveCertificate, StorageTypeOK, storeVars
  <2> QED BY <1>7, <2>3, <2>4 DEF Save
<1>8. ASSUME NEW c \in Callers, Confirm(c) PROVE TypeOK'
  <2>1. Answer("confirmed", held[c], asked[c]) \in Answers
    BY AnswerType DEF CallTypeOK, Kinds
  <2>2. CallTypeOK'
    BY <1>8, <2>1, FinishTypes DEF Confirm
  <2> QED BY <1>8, <2>2, StorageUnchanged DEF Confirm
<1>9. ASSUME NEW c \in Callers, ReadRevocation(c) PROVE TypeOK'
  <2>1. PICK r \in GetRevocation(held[c]) : Finish(c, Answer("revoked", held[c], r))
    BY <1>9 DEF ReadRevocation
  <2>2. r \in Reasons \cup {NoRevocation}
    BY <1>9 DEF ReadRevocation, GetRevocation, StorageTypeOK, CallTypeOK
  <2>3. Answer("revoked", held[c], r) \in Answers
    BY <2>2, AnswerType DEF CallTypeOK, Kinds
  <2>4. CallTypeOK'
    BY <2>1, <2>3, FinishTypes
  <2> QED BY <1>9, <2>4, StorageUnchanged DEF ReadRevocation
<1>10. ASSUME NEW c \in Callers, NEW s \in Serials, Status(c, s) PROVE TypeOK'
  <2>1. \A k \in Kinds : Answer(k, s, NoRevocation) \in Answers
    BY AnswerType
  <2>2. ASSUME Proceed(c, "reading", s) /\ UNCHANGED <<attempt, asked>>
       PROVE  CallTypeOK'
    BY <2>2, ProceedTypes DEF CallTypeOK, Working
  <2>3. ASSUME \E k \in Kinds : Finish(c, Answer(k, s, NoRevocation))
       PROVE  CallTypeOK'
    BY <2>1, <2>3, FinishTypes
  <2>4. \A rec \in GetCertificate(s) : rec # "revoked" =>
          (CASE rec = "absent" -> "unknown" [] rec = "valid" -> "good"
             [] rec = "failed" -> "failed") \in Kinds
    BY DEF GetCertificate, StorageTypeOK, Kinds
  <2>5. CallTypeOK'
    BY <1>10, <2>2, <2>3, <2>4 DEF Status
  <2> QED BY <1>10, <2>5, StorageUnchanged DEF Status
<1>11. ASSUME NEW c \in Callers, NEW s \in Serials, NEW r \in Reasons, Revoke(c, s, r)
       PROVE  TypeOK'
  <2>1. PICK res \in {"ok", "ErrNotFound", "ErrAlreadyRevoked", "failed"} :
          /\ RevokeCertificate(s, r, res)
          /\ \/ /\ res = "ok"
                /\ Proceed(c, "confirming", s)
                /\ asked' = [asked EXCEPT ![c] = r]
                /\ UNCHANGED attempt
             \/ /\ res # "ok"
                /\ Finish(c, Answer(res, s, NoRevocation))
    BY <1>11 DEF Revoke
  <2>2. ASSUME res = "ok"
       PROVE  CallTypeOK'
    <3>1. asked' \in [Callers -> Reasons \cup {NoRevocation}]
      BY <2>1, <2>2 DEF CallTypeOK
    <3> QED BY <2>1, <2>2, <3>1, ProceedTypes DEF CallTypeOK, Working
  <2>3. ASSUME res # "ok"
       PROVE  CallTypeOK'
    <3>1. Answer(res, s, NoRevocation) \in Answers
      BY <2>1, <2>3, AnswerType DEF Kinds
    <3> QED BY <2>1, <2>3, <3>1, FinishTypes
  <2>4. StorageTypeOK'
    BY <2>1, StorageTypes
  <2> QED BY <1>11, <2>2, <2>3, <2>4 DEF Revoke
<1>12. ASSUME Restart PROVE TypeOK'
  <2>1. NoAnswer \in Answers
    BY AnswerType DEF NoAnswer, Kinds
  <2>2. CallTypeOK'
    BY <1>12, <2>1, LifecycleAssumption DEF Restart, CallTypeOK
  <2> QED BY <1>12, <2>2, StorageUnchanged DEF Restart
<1>13. ASSUME UNCHANGED vars PROVE TypeOK'
  BY <1>13 DEF vars, storeVars, callVars, CallTypeOK, StorageTypeOK
<1> QED
  BY <1>1, <1>2, <1>3, <1>4, <1>5, <1>6, <1>7, <1>8, <1>9, <1>10, <1>11, <1>12, <1>13
  DEF Next, Step, Arrive

\* Every reachable state is well-typed: the tables, the calls in flight and the
\* bound of the reservation loop.
THEOREM TypeCorrect == Spec => []TypeOK
<1>1. Init => TypeOK
  BY LifecycleAssumption, AnswerType
  DEF Init, StorageInit, TypeOK, StorageTypeOK, CallTypeOK, NoAnswer, Kinds
<1> QED BY <1>1, TypeInductive, PTL DEF Spec

-----------------------------------------------------------------------------
(***************************************************************************)
(* The inductive invariant.                                                *)
(***************************************************************************)

\* The step touches the state of no caller but c.
OnlyCaller(c) ==
  \A d \in Callers \ {c} : pc'[d] = pc[d] /\ held'[d] = held[d] /\ asked'[d] = asked[d]

LEMMA ProceedOnly ==
  ASSUME CallTypeOK, NEW c \in Callers, NEW s \in Serials \cup {NoSerial}, NEW p,
         Proceed(c, p, s)
  PROVE  pc'[c] = p /\ held'[c] = s /\ (asked' = asked => OnlyCaller(c))
BY DEF CallTypeOK, Proceed, OnlyCaller

LEMMA FinishOnly ==
  ASSUME CallTypeOK, NEW c \in Callers, NEW a, Finish(c, a)
  PROVE  pc'[c] = "idle" /\ OnlyCaller(c)
BY DEF CallTypeOK, Finish, OnlyCaller

\* A step of c that leaves tables and signatures alone and does not bring c into
\* possession of a reserved serial keeps the invariant, provided c then waits
\* for nothing, or for a read of what is indeed revoked.
LEMMA QuietStep ==
  ASSUME TypeOK, LifecycleInv, NEW c \in Callers, OnlyCaller(c),
         UNCHANGED <<storeVars, signatures>>,
         pc'[c] \notin {"signing", "saving", "confirming"},
         pc'[c] = "reading" => certificates[held'[c]] = "revoked"
  PROVE  LifecycleInv'
<1>1. OneCertificatePerSerial' /\ TablesAgree' /\ SignedIsReserved'
  BY DEF LifecycleInv, OneCertificatePerSerial, TablesAgree, SignedIsReserved, storeVars
<1>2. HeldExclusively'
  BY DEF LifecycleInv, HeldExclusively, Reserved, OnlyCaller, storeVars
<1>3. PendingReadsAreRevoked'
  BY DEF LifecycleInv, PendingReadsAreRevoked, OnlyCaller, storeVars
<1> QED BY <1>1, <1>2, <1>3 DEF LifecycleInv

LEMMA QuietFinish ==
  ASSUME TypeOK, LifecycleInv, NEW c \in Callers, NEW a, Finish(c, a),
         UNCHANGED <<storeVars, signatures>>
  PROVE  LifecycleInv'
BY FinishOnly, QuietStep DEF TypeOK

\* Claiming an unreserved serial makes c its only holder: nobody holds or has
\* signed a serial that is not reserved.
LEMMA ClaimStep ==
  ASSUME TypeOK, LifecycleInv, NEW c \in Callers, NEW s \in Serials,
         s \notin serials, serials' = serials \cup {s},
         UNCHANGED <<certificates, revocations, signatures, attempt, asked>>,
         Proceed(c, "signing", s)
  PROVE  LifecycleInv'
<1>1. pc'[c] = "signing" /\ held'[c] = s /\ OnlyCaller(c)
  BY ProceedOnly DEF TypeOK
<1>2. signatures[s] = 0 /\ certificates[s] = "absent"
  BY DEF LifecycleInv, SignedIsReserved, TablesAgree, TypeOK, StorageTypeOK
<1>3. \A d \in Callers : Reserved(d) => held[d] # s
  BY DEF LifecycleInv, HeldExclusively
<1>4. OneCertificatePerSerial' /\ TablesAgree' /\ SignedIsReserved'
  BY DEF LifecycleInv, OneCertificatePerSerial, TablesAgree, SignedIsReserved
<1>5. HeldExclusively'
  BY <1>1, <1>2, <1>3 DEF LifecycleInv, HeldExclusively, Reserved, OnlyCaller
<1>6. PendingReadsAreRevoked'
  BY <1>1 DEF LifecycleInv, PendingReadsAreRevoked, OnlyCaller
<1> QED BY <1>4, <1>5, <1>6 DEF LifecycleInv

\* A reservation that is refused or fails changes nothing the invariant sees.
LEMMA RefusedReserve ==
  ASSUME TypeOK, LifecycleInv, NEW c \in Callers, NEW s, NEW res,
         res # "ok", AfterReserve(c, s, res), UNCHANGED <<storeVars, signatures>>
  PROVE  LifecycleInv'
<1>1. CASE Proceed(c, "drawing", NoSerial) /\ UNCHANGED asked
  BY <1>1, ProceedOnly, QuietStep DEF TypeOK
<1>2. CASE Fail(c, res)
  BY <1>2, QuietFinish DEF Fail
<1> QED BY <1>1, <1>2 DEF AfterReserve

LEMMA SignStep ==
  ASSUME TypeOK, LifecycleInv, NEW c \in Callers, Sign(c)
  PROVE  LifecycleInv'
<1>1. CASE Fail(c, "failed") /\ UNCHANGED signatures
  BY <1>1, QuietFinish DEF Fail, Sign
<1>2. CASE /\ signatures' = [signatures EXCEPT ![held[c]] = @ + 1]
           /\ Proceed(c, "saving", held[c])
           /\ UNCHANGED <<attempt, asked>>
  <2>1. held[c] \in Serials /\ Reserved(c)
    BY DEF TypeOK, CallTypeOK, Sign, Reserved
  <2>2. /\ held[c] \in serials
        /\ certificates[held[c]] = "absent"
        /\ signatures[held[c]] = 0
        /\ \A d \in Callers \ {c} : Reserved(d) => held[d] # held[c]
    BY <2>1 DEF LifecycleInv, HeldExclusively, Sign
  <2>3. pc'[c] = "saving" /\ held'[c] = held[c] /\ OnlyCaller(c)
    BY <1>2, <2>1, ProceedOnly DEF TypeOK
  <2>4. signatures'[held[c]] = 1 /\ \A s \in Serials \ {held[c]} : signatures'[s] = signatures[s]
    BY <1>2, <2>1, <2>2 DEF TypeOK
  <2>5. UNCHANGED <<certificates, revocations, serials>>
    BY DEF Sign, storeVars
  <2>6. OneCertificatePerSerial' /\ SignedIsReserved'
    BY <2>2, <2>4, <2>5 DEF LifecycleInv, OneCertificatePerSerial, SignedIsReserved
  <2>7. TablesAgree'
    BY <2>2, <2>4, <2>5 DEF LifecycleInv, TablesAgree
  <2>8. HeldExclusively'
    BY <2>1, <2>2, <2>3, <2>4, <2>5
    DEF LifecycleInv, HeldExclusively, Reserved, OnlyCaller, TypeOK, CallTypeOK
  <2>9. PendingReadsAreRevoked'
    BY <2>3, <2>5 DEF LifecycleInv, PendingReadsAreRevoked, OnlyCaller
  <2> QED BY <2>6, <2>7, <2>8, <2>9 DEF LifecycleInv
<1> QED BY <1>1, <1>2 DEF Sign

LEMMA SaveStep ==
  ASSUME TypeOK, LifecycleInv, NEW c \in Callers, Save(c)
  PROVE  LifecycleInv'
<1>1. PICK res : SaveCertificate(held[c], res)
  BY DEF Save
<1>2. pc'[c] = "idle" /\ OnlyCaller(c)
  BY FinishOnly DEF Save, TypeOK
<1>3. CASE UNCHANGED storeVars
  BY <1>3, QuietFinish DEF Save
<1>4. CASE /\ certificates' = [certificates EXCEPT ![held[c]] = "valid"]
           /\ serials' = serials \cup {held[c]}
           /\ UNCHANGED revocations
  <2>1. held[c] \in Serials /\ Reserved(c) /\ pc[c] = "saving"
    BY DEF TypeOK, CallTypeOK, Save, Reserved
  <2>2. /\ held[c] \in serials
        /\ certificates[held[c]] = "absent"
        /\ signatures[held[c]] = 1
        /\ \A d \in Callers \ {c} : Reserved(d) => held[d] # held[c]
    BY <2>1 DEF LifecycleInv, HeldExclusively
  <2>3. serials' = serials /\ signatures' = signatures
    BY <1>4, <2>2 DEF Save
  <2>4. /\ certificates'[held[c]] = "valid"
        /\ \A s \in Serials \ {held[c]} : certificates'[s] = certificates[s]
    BY <1>4, <2>1 DEF TypeOK, StorageTypeOK
  <2>5. OneCertificatePerSerial' /\ SignedIsReserved'
    BY <2>3 DEF LifecycleInv, OneCertificatePerSerial, SignedIsReserved
  <2>6. TablesAgree'
    BY <1>4, <2>2, <2>3, <2>4 DEF LifecycleInv, TablesAgree
  <2>7. HeldExclusively'
    BY <1>2, <2>2, <2>3, <2>4
    DEF LifecycleInv, HeldExclusively, Reserved, OnlyCaller, TypeOK, CallTypeOK
  <2>8. PendingReadsAreRevoked'
    BY <1>2, <1>4, <2>2, <2>4
    DEF LifecycleInv, PendingReadsAreRevoked, OnlyCaller, TypeOK, CallTypeOK
  <2> QED BY <2>5, <2>6, <2>7, <2>8 DEF LifecycleInv
<1> QED BY <1>1, <1>3, <1>4 DEF SaveCertificate

LEMMA RevokeStep ==
  ASSUME TypeOK, LifecycleInv, NEW c \in Callers, NEW s \in Serials, NEW r \in Reasons,
         Revoke(c, s, r)
  PROVE  LifecycleInv'
<1>1. PICK res \in {"ok", "ErrNotFound", "ErrAlreadyRevoked", "failed"} :
        /\ RevokeCertificate(s, r, res)
        /\ \/ /\ res = "ok"
              /\ Proceed(c, "confirming", s)
              /\ asked' = [asked EXCEPT ![c] = r]
           \/ /\ res # "ok"
              /\ Finish(c, Answer(res, s, NoRevocation))
  BY DEF Revoke
<1>2. CASE res # "ok"
  BY <1>1, <1>2, QuietFinish DEF Revoke, RevokeCertificate
<1>3. CASE res = "ok"
  <2>1. /\ certificates[s] = "valid"
        /\ certificates' = [certificates EXCEPT ![s] = "revoked"]
        /\ revocations' = [revocations EXCEPT ![s] = r]
        /\ UNCHANGED <<serials, signatures>>
    BY <1>1, <1>3 DEF RevokeCertificate, Revoke
  <2>2. /\ certificates'[s] = "revoked" /\ revocations'[s] = r
        /\ \A t \in Serials \ {s} :
             certificates'[t] = certificates[t] /\ revocations'[t] = revocations[t]
    BY <2>1 DEF TypeOK, StorageTypeOK
  <2>3. /\ pc'[c] = "confirming" /\ held'[c] = s /\ asked'[c] = r
        /\ OnlyCaller(c)
    BY <1>1, <1>3 DEF Proceed, OnlyCaller, TypeOK, CallTypeOK
  <2>4. r # NoRevocation
    BY StorageAssumption
  <2>5. OneCertificatePerSerial' /\ SignedIsReserved'
    BY <2>1 DEF LifecycleInv, OneCertificatePerSerial, SignedIsReserved
  <2>6. TablesAgree'
    BY <2>1, <2>2, <2>4 DEF LifecycleInv, TablesAgree
  <2>7. HeldExclusively'
    BY <2>1, <2>2, <2>3
    DEF LifecycleInv, HeldExclusively, Reserved, OnlyCaller, TypeOK, CallTypeOK
  <2>8. PendingReadsAreRevoked'
    <3> SUFFICES ASSUME NEW d \in Callers
                 PROVE  /\ pc'[d] \in {"confirming", "reading"} =>
                              certificates'[held'[d]] = "revoked"
                        /\ pc'[d] = "confirming" => revocations'[held'[d]] = asked'[d]
      BY DEF PendingReadsAreRevoked
    <3>1. CASE d = c
      BY <2>2, <2>3, <3>1
    <3>2. CASE d # c
      BY <2>1, <2>2, <2>3, <3>2
      DEF LifecycleInv, PendingReadsAreRevoked, OnlyCaller, TypeOK, CallTypeOK
    <3> QED BY <3>1, <3>2
  <2> QED BY <2>5, <2>6, <2>7, <2>8 DEF LifecycleInv
<1> QED BY <1>2, <1>3

LEMMA LifecycleInductive == TypeOK /\ LifecycleInv /\ [Next]_vars => LifecycleInv'
<1> SUFFICES ASSUME TypeOK, LifecycleInv, [Next]_vars PROVE LifecycleInv'
  OBVIOUS
<1>1. ASSUME NEW c \in Callers, Enroll(c) PROVE LifecycleInv'
  BY <1>1, ProceedOnly, QuietStep DEF Enroll, TypeOK
<1>2. ASSUME NEW c \in Callers, NEW s \in Serials, Reserve(c, s) PROVE LifecycleInv'
  <2>1. PICK res : ReserveSerial(s, res) /\ AfterReserve(c, s, res)
    BY <1>2 DEF Reserve
  <2>2. CASE res = "ok"
    BY <1>2, <2>1, <2>2, ClaimStep DEF Reserve, ReserveSerial, AfterReserve
  <2>3. CASE res # "ok"
    BY <1>2, <2>1, <2>3, RefusedReserve DEF Reserve, ReserveSerial
  <2> QED BY <2>2, <2>3
<1>3. ASSUME NEW c \in Callers, NEW s \in Serials, Select(c, s) PROVE LifecycleInv'
  <2>1. PICK res \in {"unclaimed", "ErrAlreadyExists", "failed"} :
          \/ res = "unclaimed" /\ Proceed(c, "inserting", s) /\ UNCHANGED <<attempt, asked>>
          \/ res # "unclaimed" /\ AfterReserve(c, s, res)
    BY <1>3 DEF Select
  <2>2. UNCHANGED <<storeVars, signatures>>
    BY <1>3 DEF Select, SelectSerial
  <2>3. CASE res = "unclaimed"
    BY <2>1, <2>2, <2>3, ProceedOnly, QuietStep DEF TypeOK
  <2>4. CASE res # "unclaimed"
    BY <2>1, <2>2, <2>4, RefusedReserve
  <2> QED BY <2>3, <2>4
<1>4. ASSUME NEW c \in Callers, Insert(c) PROVE LifecycleInv'
  <2>1. PICK res : InsertSerial(held[c], res) /\ AfterReserve(c, held[c], res)
    BY <1>4 DEF Insert
  <2>2. held[c] \in Serials
    BY <1>4 DEF Insert, TypeOK, CallTypeOK
  <2>3. CASE res = "ok"
    BY <1>4, <2>1, <2>2, <2>3, ClaimStep DEF Insert, InsertSerial, AfterReserve
  <2>4. CASE res # "ok"
    BY <1>4, <2>1, <2>4, RefusedReserve DEF Insert, InsertSerial
  <2> QED BY <2>3, <2>4
<1>5. ASSUME NEW c \in Callers, Exhaust(c) \/ Confirm(c) \/ ReadRevocation(c)
      PROVE  LifecycleInv'
  BY <1>5, QuietFinish DEF Exhaust, Fail, Confirm, ReadRevocation
<1>6. ASSUME NEW c \in Callers, NEW s \in Serials, Status(c, s) PROVE LifecycleInv'
  <2>1. CASE \E a : Finish(c, a)
    BY <1>6, <2>1, QuietFinish DEF Status
  <2>2. CASE "revoked" \in GetCertificate(s) /\ Proceed(c, "reading", s)
                                           /\ UNCHANGED <<attempt, asked>>
    <3>1. certificates[s] = "revoked"
      BY <2>2 DEF GetCertificate
    <3>2. pc'[c] = "reading" /\ held'[c] = s /\ OnlyCaller(c)
      BY <2>2, ProceedOnly DEF TypeOK
    <3> QED BY <1>6, <3>1, <3>2, QuietStep DEF Status
  <2> QED BY <1>6, <2>1, <2>2 DEF Status
<1>7. ASSUME Restart PROVE LifecycleInv'
  BY <1>7 DEF Restart, LifecycleInv, OneCertificatePerSerial, TablesAgree, HeldExclusively,
              Reserved, SignedIsReserved, PendingReadsAreRevoked, storeVars
<1>8. ASSUME UNCHANGED vars PROVE LifecycleInv'
  BY <1>8 DEF vars, callVars, storeVars, LifecycleInv, OneCertificatePerSerial, TablesAgree,
              HeldExclusively, Reserved, SignedIsReserved, PendingReadsAreRevoked
<1> QED
  BY <1>1, <1>2, <1>3, <1>4, <1>5, <1>6, <1>7, <1>8, SignStep, SaveStep, RevokeStep
  DEF Next, Step, Arrive

\* The inductive invariant holds in every reachable state.
THEOREM LifecycleInvariant == Spec => []LifecycleInv
<1>1. Init => LifecycleInv
  BY DEF Init, StorageInit, LifecycleInv, OneCertificatePerSerial, TablesAgree,
         HeldExclusively, Reserved, SignedIsReserved, PendingReadsAreRevoked
<1> QED BY <1>1, TypeCorrect, LifecycleInductive, PTL DEF Spec

\* No serial number is signed twice, whatever the callers draw and however their
\* reservations, signatures, saves and restarts interleave, on either backend.
THEOREM SerialsAreUnique == Spec => []OneCertificatePerSerial
<1>1. LifecycleInv => OneCertificatePerSerial
  BY DEF LifecycleInv
<1> QED BY <1>1, LifecycleInvariant, PTL

\* The revoked flag and the revocation record never disagree, and a stored
\* certificate was signed under a reserved serial.
THEOREM TablesConsistent == Spec => []TablesAgree
<1>1. LifecycleInv => TablesAgree
  BY DEF LifecycleInv
<1> QED BY <1>1, LifecycleInvariant, PTL

-----------------------------------------------------------------------------
(***************************************************************************)
(* Revocations are final.                                                  *)
(***************************************************************************)

LEMMA RevocationStep ==
  ASSUME TypeOK, LifecycleInv, [Next]_vars, NEW t \in Serials, revocations[t] # NoRevocation
  PROVE  revocations'[t] = revocations[t] /\ certificates'[t] = "revoked"
<1>1. certificates[t] = "revoked"
  BY DEF LifecycleInv, TablesAgree
<1>2. CASE UNCHANGED <<certificates, revocations>>
  BY <1>1, <1>2
<1>3. ASSUME NEW s \in Serials, NEW r \in Reasons, NEW res, RevokeCertificate(s, r, res)
      PROVE  revocations'[t] = revocations[t] /\ certificates'[t] = "revoked"
  <2>1. CASE UNCHANGED storeVars
    BY <1>1, <2>1 DEF storeVars
  <2>2. CASE /\ certificates[s] = "valid"
             /\ certificates' = [certificates EXCEPT ![s] = "revoked"]
             /\ revocations' = [revocations EXCEPT ![s] = r]
    BY <1>1, <2>2 DEF TypeOK, StorageTypeOK
  <2> QED BY <1>3, <2>1, <2>2 DEF RevokeCertificate
<1>4. ASSUME NEW s \in Serials, NEW res, SaveCertificate(s, res)
      PROVE  revocations'[t] = revocations[t] /\ certificates'[t] = "revoked"
  BY <1>1, <1>4 DEF SaveCertificate, storeVars, TypeOK, StorageTypeOK
<1>5. ASSUME NEW c \in Callers, Save(c)
      PROVE  revocations'[t] = revocations[t] /\ certificates'[t] = "revoked"
  BY <1>4, <1>5 DEF Save, TypeOK, CallTypeOK
<1>6. ASSUME NEW c \in Callers, NEW s \in Serials,
             Reserve(c, s) \/ Select(c, s) \/ Insert(c) \/ Exhaust(c) \/ Sign(c)
               \/ Confirm(c) \/ ReadRevocation(c) \/ Enroll(c) \/ Status(c, s)
      PROVE  UNCHANGED <<certificates, revocations>>
  BY <1>6 DEF Reserve, ReserveSerial, Select, SelectSerial, Insert, InsertSerial, Exhaust,
              Sign, Confirm, ReadRevocation, Enroll, Status, storeVars
<1>7. ASSUME Restart \/ UNCHANGED vars
      PROVE  UNCHANGED <<certificates, revocations>>
  BY <1>7 DEF Restart, vars, storeVars
<1> QED
  BY <1>2, <1>3, <1>5, <1>6, <1>7 DEF Next, Step, Arrive, Revoke

\* No later call, failure or restart clears a revocation or rewrites its reason.
THEOREM RevocationsAreFinal == Spec => RevocationIsFinal
<1>1. TypeOK /\ LifecycleInv /\ [Next]_vars =>
        [\A s \in Serials : revocations[s] # NoRevocation =>
            revocations'[s] = revocations[s] /\ certificates'[s] = "revoked"]_vars
  BY RevocationStep
<1> QED BY <1>1, TypeCorrect, LifecycleInvariant, PTL DEF Spec, RevocationIsFinal

-----------------------------------------------------------------------------
(***************************************************************************)
(* The refinement of SerialLedger.                                         *)
(***************************************************************************)

\* A call that is under way has not answered yet.
LEMMA SilentInvariant == Spec => []SilentWhileWorking
<1>1. Init => SilentWhileWorking
  BY DEF Init, SilentWhileWorking
<1>2. TypeOK /\ SilentWhileWorking /\ [Next]_vars => SilentWhileWorking'
  <2> SUFFICES ASSUME TypeOK, SilentWhileWorking, [Next]_vars PROVE SilentWhileWorking'
    OBVIOUS
  <2>1. ASSUME NEW c \in Callers, NEW p, NEW s, Proceed(c, p, s) PROVE SilentWhileWorking'
    BY <2>1 DEF Proceed, SilentWhileWorking, TypeOK, CallTypeOK
  <2>2. ASSUME NEW c \in Callers, NEW a, Finish(c, a) PROVE SilentWhileWorking'
    BY <2>2 DEF Finish, SilentWhileWorking, TypeOK, CallTypeOK
  <2>3. ASSUME NEW c \in Callers, NEW s, NEW res, AfterReserve(c, s, res)
        PROVE  SilentWhileWorking'
    BY <2>1, <2>2, <2>3 DEF AfterReserve, Fail
  <2>4. ASSUME NEW c \in Callers, NEW s \in Serials,
               Reserve(c, s) \/ Select(c, s)
        PROVE  SilentWhileWorking'
    BY <2>1, <2>2, <2>3, <2>4 DEF Reserve, Select
  <2>5. ASSUME NEW c \in Callers,
               \/ Insert(c) \/ Exhaust(c) \/ Sign(c) \/ Save(c)
               \/ Confirm(c) \/ ReadRevocation(c) \/ Enroll(c)
        PROVE  SilentWhileWorking'
    BY <2>1, <2>2, <2>3, <2>5
    DEF Insert, Exhaust, Sign, Fail, Save, Confirm, ReadRevocation, Enroll
  <2>6. ASSUME NEW c \in Callers, NEW s \in Serials, NEW r \in Reasons, Revoke(c, s, r)
        PROVE  SilentWhileWorking'
    BY <2>1, <2>2, <2>6 DEF Revoke
  <2>7. ASSUME NEW c \in Callers, NEW s \in Serials, Status(c, s)
        PROVE  SilentWhileWorking'
    BY <2>1, <2>2, <2>7 DEF Status
  <2>8. CASE Restart \/ UNCHANGED vars
    BY <2>8 DEF Restart, SilentWhileWorking, vars, callVars
  <2> QED BY <2>4, <2>5, <2>6, <2>7, <2>8 DEF Next, Step, Arrive
<1> QED BY <1>1, <1>2, TypeCorrect, PTL DEF Spec

\* The phase of a serial, case by case.
LEMMA PhaseOf ==
  ASSUME TypeOK, NEW s \in Serials
  PROVE  /\ certificates[s] = "revoked" <=> Phase(s) = "revoked"
         /\ certificates[s] = "valid" <=> Phase(s) = "stored"
         /\ certificates[s] = "absent" /\ signatures[s] > 0 <=> Phase(s) = "signed"
         /\ certificates[s] = "absent" /\ signatures[s] = 0 /\ s \in serials
              <=> Phase(s) = "claimed"
         /\ certificates[s] = "absent" /\ signatures[s] = 0 /\ s \notin serials
              <=> Phase(s) = "free"
BY DEF TypeOK, StorageTypeOK, Phase

\* What a step does to the phase of one serial and leaves of the others.
LEMMA PhasesAfter ==
  ASSUME NEW s \in Serials, NEW q, Phase(s)' = q,
         \A t \in Serials \ {s} :
           /\ certificates'[t] = certificates[t]
           /\ signatures'[t] = signatures[t]
           /\ t \in serials' <=> t \in serials
  PROVE  PhaseMap' = [PhaseMap EXCEPT ![s] = q]
<1>1. \A t \in Serials \ {s} : Phase(t)' = Phase(t)
  BY DEF Phase
<1> QED BY <1>1 DEF PhaseMap

LEMMA PhasesUnchanged ==
  ASSUME UNCHANGED <<certificates, serials, signatures>>
  PROVE  UNCHANGED PhaseMap
BY DEF Phase, PhaseMap

\* An answer that is true of the tables, given in a step that leaves the ledger
\* alone, is the abstract Reply.
LEMMA ReplyStep ==
  ASSUME TypeOK, NEW c \in Callers, NEW a,
         answer' = [answer EXCEPT ![c] = a], a.kind # "none" => Ledger!True(a),
         UNCHANGED <<certificates, revocations, serials, signatures>>
  PROVE  Ledger!LedgerNext
<1>1. answer'[c] = a
  BY DEF TypeOK, CallTypeOK
<1>2. UNCHANGED PhaseMap
  BY PhasesUnchanged
<1> QED BY <1>1, <1>2 DEF Ledger!LedgerNext, Ledger!Reply

\* In particular starting a call, or moving on inside one, is.
LEMMA ProceedReply ==
  ASSUME TypeOK, NEW c \in Callers, NEW p, NEW s, Proceed(c, p, s),
         UNCHANGED <<storeVars, signatures>>
  PROVE  Ledger!LedgerNext
<1>1. NoAnswer.kind = "none"
  BY DEF NoAnswer, Answer
<1> QED BY <1>1, ReplyStep DEF Proceed, storeVars

\* So is an answer that says nothing about a serial.
Silent == {"failed", "UniqueViolation", "ErrSerialExhaustion", "ErrAlreadyExists"}

LEMMA SilentReply ==
  ASSUME TypeOK, NEW c \in Callers, NEW k \in Silent, NEW s, NEW r,
         Finish(c, Answer(k, s, r)), UNCHANGED <<storeVars, signatures>>
  PROVE  Ledger!LedgerNext
<1>1. Ledger!True(Answer(k, s, r))
  BY DEF Ledger!True, Answer, Silent
<1> QED BY <1>1, ReplyStep DEF Finish, storeVars

\* A reservation that did not succeed is such an answer, or none.
LEMMA RefusedReply ==
  ASSUME TypeOK, NEW c \in Callers, NEW s,
         NEW res \in {"ErrAlreadyExists", "UniqueViolation", "failed"},
         AfterReserve(c, s, res), UNCHANGED <<storeVars, signatures>>
  PROVE  Ledger!LedgerNext
<1>1. CASE Proceed(c, "drawing", NoSerial)
  BY <1>1, ProceedReply
<1>2. CASE Fail(c, res)
  BY <1>2, SilentReply DEF Fail, Silent
<1> QED BY <1>1, <1>2 DEF AfterReserve

\* A successful one is the abstract Claim.
LEMMA ClaimRefines ==
  ASSUME TypeOK, LifecycleInv, SilentWhileWorking, NEW c \in Callers, NEW s \in Serials,
         pc[c] # "idle", s \notin serials, serials' = serials \cup {s},
         UNCHANGED <<certificates, revocations, signatures>>, Proceed(c, "signing", s)
  PROVE  Ledger!LedgerNext
<1>1. certificates[s] = "absent" /\ signatures[s] = 0
  BY DEF LifecycleInv, TablesAgree, SignedIsReserved, TypeOK, StorageTypeOK
<1>2. PhaseMap[s] = "free" /\ Phase(s)' = "claimed"
  BY <1>1 DEF PhaseMap, Phase
<1>3. PhaseMap' = [PhaseMap EXCEPT ![s] = "claimed"]
  BY <1>2, PhasesAfter
<1>4. answer' = answer
  BY DEF SilentWhileWorking, Proceed, TypeOK, CallTypeOK
<1> QED BY <1>2, <1>3, <1>4 DEF Ledger!LedgerNext, Ledger!Claim, Ledger!Move

LEMMA SignRefines ==
  ASSUME TypeOK, LifecycleInv, SilentWhileWorking, NEW c \in Callers, Sign(c)
  PROVE  Ledger!LedgerNext
<1>1. CASE Fail(c, "failed") /\ UNCHANGED signatures
  BY <1>1, SilentReply DEF Fail, Silent, Sign
<1>2. CASE /\ signatures' = [signatures EXCEPT ![held[c]] = @ + 1]
           /\ Proceed(c, "saving", held[c])
  <2>1. held[c] \in Serials /\ Reserved(c) /\ pc[c] = "signing"
    BY DEF TypeOK, CallTypeOK, Sign, Reserved
  <2>2. held[c] \in serials /\ certificates[held[c]] = "absent" /\ signatures[held[c]] = 0
    BY <2>1 DEF LifecycleInv, HeldExclusively
  <2>3. /\ signatures'[held[c]] = 1
        /\ \A t \in Serials \ {held[c]} : signatures'[t] = signatures[t]
        /\ UNCHANGED <<certificates, revocations, serials>>
    BY <1>2, <2>1, <2>2 DEF TypeOK, Sign, storeVars
  <2> DEFINE s == held[c]
  <2>4. s \in Serials
    BY <2>1
  <2>5. PhaseMap[s] = "claimed"
    BY <2>2, <2>4 DEF PhaseMap, Phase
  <2>6. PICK t \in Serials : t = s
    BY <2>4
  <2>7. Phase(t)' = "signed"
    BY <2>2, <2>3, <2>6 DEF Phase
  <2>8. PhaseMap' = [PhaseMap EXCEPT ![t] = "signed"]
    BY <2>3, <2>6, <2>7, PhasesAfter
  <2>9. answer' = answer
    BY <1>2, <2>1 DEF SilentWhileWorking, Proceed, TypeOK, CallTypeOK
  <2>10. signatures' = [signatures EXCEPT ![t] = @ + 1]
    BY <1>2, <2>6
  <2>11. PhaseMap[t] = "claimed" /\ UNCHANGED <<revocations, answer>>
    BY <2>3, <2>5, <2>6, <2>9
  <2> HIDE DEF s
  <2> QED BY <2>8, <2>10, <2>11 DEF Ledger!LedgerNext, Ledger!SignOnce, Ledger!Move
<1> QED BY <1>1, <1>2 DEF Sign

LEMMA SaveRefines ==
  ASSUME TypeOK, LifecycleInv, NEW c \in Callers, Save(c)
  PROVE  Ledger!LedgerNext
<1>1. held[c] \in Serials /\ Reserved(c) /\ pc[c] = "saving"
  BY DEF TypeOK, CallTypeOK, Save, Reserved
<1>2. PICK s \in Serials : s = held[c]
  BY <1>1
<1>3. s \in serials /\ certificates[s] = "absent" /\ signatures[s] = 1
  BY <1>1, <1>2 DEF LifecycleInv, HeldExclusively
<1>4. PhaseMap[s] = "signed"
  BY <1>3 DEF PhaseMap, Phase
<1>5. answer' = [answer EXCEPT ![c] = Answer("certificate", s, NoRevocation)]
  BY <1>2 DEF Save, Finish
<1>6. PICK res : SaveCertificate(s, res)
  BY <1>2 DEF Save
<1>7. CASE UNCHANGED storeVars
  <2>1. Ledger!True(Answer("certificate", s, NoRevocation))
    BY <1>4 DEF Ledger!True, Answer
  <2> QED BY <1>5, <1>7, <2>1, ReplyStep DEF Save, storeVars
<1>8. CASE /\ certificates' = [certificates EXCEPT ![s] = "valid"]
           /\ serials' = serials \cup {s}
           /\ UNCHANGED revocations
  <2>1. certificates'[s] = "valid"
    BY <1>8 DEF TypeOK, StorageTypeOK
  <2>2. \A t \in Serials \ {s} : certificates'[t] = certificates[t]
    BY <1>8 DEF TypeOK, StorageTypeOK
  <2>3. Phase(s)' = "stored"
    BY <2>1 DEF Phase
  <2>4. PhaseMap' = [PhaseMap EXCEPT ![s] = "stored"]
    BY <1>8, <2>2, <2>3, PhasesAfter DEF Save
  <2>5. signatures' = signatures
    BY DEF Save
  <2> QED
    BY <1>4, <1>5, <1>8, <2>4, <2>5
    DEF Ledger!LedgerNext, Ledger!Store, Ledger!Move, Ledger!Answer, Answer
<1> QED BY <1>6, <1>7, <1>8 DEF SaveCertificate

LEMMA RevokeRefines ==
  ASSUME TypeOK, LifecycleInv, NEW c \in Callers, NEW s \in Serials, NEW r \in Reasons,
         Revoke(c, s, r)
  PROVE  Ledger!LedgerNext
<1>1. PICK res \in {"ok", "ErrNotFound", "ErrAlreadyRevoked", "failed"} :
        /\ RevokeCertificate(s, r, res)
        /\ \/ /\ res = "ok"
              /\ Proceed(c, "confirming", s)
           \/ /\ res # "ok"
              /\ Finish(c, Answer(res, s, NoRevocation))
  BY DEF Revoke
<1>2. CASE res = "ok"
  <2>1. /\ certificates[s] = "valid"
        /\ certificates' = [certificates EXCEPT ![s] = "revoked"]
        /\ revocations' = [revocations EXCEPT ![s] = r]
        /\ UNCHANGED <<serials, signatures>>
    BY <1>1, <1>2 DEF RevokeCertificate, Revoke
  <2>2. certificates'[s] = "revoked"
    BY <2>1 DEF TypeOK, StorageTypeOK
  <2>3. \A t \in Serials \ {s} : certificates'[t] = certificates[t]
    BY <2>1 DEF TypeOK, StorageTypeOK
  <2>4. PhaseMap[s] = "stored" /\ Phase(s)' = "revoked"
    BY <2>1, <2>2 DEF PhaseMap, Phase
  <2>5. PhaseMap' = [PhaseMap EXCEPT ![s] = "revoked"]
    BY <2>1, <2>3, <2>4, PhasesAfter
  <2>6. answer' = [answer EXCEPT ![c] = Ledger!NoAnswer]
    BY <1>1, <1>2 DEF Proceed, NoAnswer, Answer, Ledger!NoAnswer, Ledger!Answer
  <2> QED
    BY <2>1, <2>4, <2>5, <2>6 DEF Ledger!LedgerNext, Ledger!RevokeOnce, Ledger!Move
<1>3. CASE res # "ok"
  <2>1. UNCHANGED <<storeVars, signatures>>
    BY <1>1, <1>3 DEF RevokeCertificate, Revoke
  <2>2. \/ res = "failed"
        \/ res = "ErrNotFound" /\ certificates[s] = "absent"
        \/ res = "ErrAlreadyRevoked" /\ AlreadyRevoked(s)
    BY <1>1, <1>3 DEF RevokeCertificate
  <2>3. AlreadyRevoked(s) => certificates[s] = "revoked"
    BY DEF AlreadyRevoked, LifecycleInv, TablesAgree
  <2>4. Ledger!True(Answer(res, s, NoRevocation))
    BY <2>2, <2>3 DEF Ledger!True, Ledger!OnRecord, Answer, PhaseMap, Phase
  <2> QED BY <1>1, <1>3, <2>1, <2>4, ReplyStep DEF Finish, storeVars
<1> QED BY <1>2, <1>3

\* What is read back or confirmed is still true: the revocation cannot have
\* changed since the certificate was read or revoked.
LEMMA ReadBackRefines ==
  ASSUME TypeOK, LifecycleInv, NEW c \in Callers, Confirm(c) \/ ReadRevocation(c)
  PROVE  Ledger!LedgerNext
<1>1. held[c] \in Serials /\ certificates[held[c]] = "revoked"
  BY DEF Confirm, ReadRevocation, TypeOK, CallTypeOK, LifecycleInv, PendingReadsAreRevoked
<1>2. PhaseMap[held[c]] = "revoked"
  BY <1>1 DEF PhaseMap, Phase
<1>3. CASE Confirm(c)
  <2>1. asked[c] = revocations[held[c]]
    BY <1>3 DEF Confirm, LifecycleInv, PendingReadsAreRevoked
  <2>2. Ledger!True(Answer("confirmed", held[c], asked[c]))
    BY <1>2, <2>1 DEF Ledger!True, Answer
  <2> QED BY <1>3, <2>2, ReplyStep DEF Confirm, Finish, storeVars
<1>4. CASE ReadRevocation(c)
  <2>1. PICK r \in GetRevocation(held[c]) : Finish(c, Answer("revoked", held[c], r))
    BY <1>4 DEF ReadRevocation
  <2>2. Ledger!True(Answer("revoked", held[c], r))
    BY <1>2 DEF Ledger!True, Answer, GetRevocation
  <2> QED BY <1>4, <2>1, <2>2, ReplyStep DEF ReadRevocation, Finish, storeVars
<1> QED BY <1>3, <1>4

LEMMA StatusRefines ==
  ASSUME TypeOK, NEW c \in Callers, NEW s \in Serials, Status(c, s)
  PROVE  Ledger!LedgerNext
<1>1. UNCHANGED <<storeVars, signatures>>
  BY DEF Status
<1>2. ASSUME NEW k, Finish(c, Answer(k, s, NoRevocation)),
             \/ k = "unknown" /\ certificates[s] = "absent"
             \/ k = "good" /\ certificates[s] = "valid"
             \/ k = "failed"
      PROVE  Ledger!LedgerNext
  <2>1. Ledger!True(Answer(k, s, NoRevocation))
    BY <1>2 DEF Ledger!True, Ledger!OnRecord, Answer, PhaseMap, Phase
  <2> QED BY <1>1, <1>2, <2>1, ReplyStep DEF Finish, storeVars
<1>3. CASE Proceed(c, "reading", s)
  BY <1>1, <1>3, ProceedReply
<1>4. PICK rec \in GetCertificate(s) :
        \/ Proceed(c, "reading", s)
        \/ /\ rec # "revoked"
           /\ Finish(c, Answer(CASE rec = "absent" -> "unknown"
                                 [] rec = "valid"  -> "good"
                                 [] rec = "failed" -> "failed", s, NoRevocation))
  BY DEF Status
<1>5. rec \in {"absent", "valid", "revoked", "failed"} /\ (rec # "failed" => rec = certificates[s])
  BY DEF GetCertificate, TypeOK, StorageTypeOK
<1> QED BY <1>2, <1>3, <1>4, <1>5

LEMMA LedgerStep ==
  TypeOK /\ LifecycleInv /\ SilentWhileWorking /\ [Next]_vars
    => [Ledger!LedgerNext]_(Ledger!ledgerVars)
<1> SUFFICES ASSUME TypeOK, LifecycleInv, SilentWhileWorking, [Next]_vars
             PROVE  [Ledger!LedgerNext]_(Ledger!ledgerVars)
  OBVIOUS
<1>1. ASSUME NEW c \in Callers, Enroll(c) PROVE Ledger!LedgerNext
  BY <1>1, ProceedReply DEF Enroll
<1>2. ASSUME NEW c \in Callers, NEW s \in Serials, Reserve(c, s) PROVE Ledger!LedgerNext
  <2>1. PICK res \in {"ok", "ErrAlreadyExists", "failed"} :
          ReserveSerial(s, res) /\ AfterReserve(c, s, res)
    BY <1>2 DEF Reserve
  <2>2. CASE res = "ok"
    BY <1>2, <2>1, <2>2, ClaimRefines DEF Reserve, ReserveSerial, AfterReserve
  <2>3. CASE res # "ok"
    BY <1>2, <2>1, <2>3, RefusedReply DEF Reserve, ReserveSerial
  <2> QED BY <2>2, <2>3
<1>3. ASSUME NEW c \in Callers, NEW s \in Serials, Select(c, s) PROVE Ledger!LedgerNext
  <2>1. PICK res \in {"unclaimed", "ErrAlreadyExists", "failed"} :
          \/ Proceed(c, "inserting", s)
          \/ res # "unclaimed" /\ AfterReserve(c, s, res)
    BY <1>3 DEF Select
  <2>2. UNCHANGED <<storeVars, signatures>>
    BY <1>3 DEF Select, SelectSerial
  <2> QED BY <2>1, <2>2, ProceedReply, RefusedReply
<1>4. ASSUME NEW c \in Callers, Insert(c) PROVE Ledger!LedgerNext
  <2>1. PICK res \in {"ok", "UniqueViolation", "failed"} :
          InsertSerial(held[c], res) /\ AfterReserve(c, held[c], res)
    BY <1>4 DEF Insert
  <2>2. held[c] \in Serials
    BY <1>4 DEF Insert, TypeOK, CallTypeOK
  <2>3. CASE res = "ok"
    BY <1>4, <2>1, <2>2, <2>3, ClaimRefines DEF Insert, InsertSerial, AfterReserve
  <2>4. CASE res # "ok"
    BY <1>4, <2>1, <2>4, RefusedReply DEF Insert, InsertSerial
  <2> QED BY <2>3, <2>4
<1>5. ASSUME NEW c \in Callers, Exhaust(c) PROVE Ledger!LedgerNext
  BY <1>5, SilentReply DEF Exhaust, Fail, Silent
<1>6. ASSUME Restart PROVE Ledger!LedgerNext
  <2>1. UNCHANGED PhaseMap
    BY <1>6, PhasesUnchanged DEF Restart, storeVars
  <2> QED
    BY <1>6, <2>1
    DEF Restart, storeVars, NoAnswer, Answer, Ledger!LedgerNext, Ledger!Forget,
        Ledger!NoAnswer, Ledger!Answer
<1>7. ASSUME UNCHANGED vars PROVE UNCHANGED Ledger!ledgerVars
  <2>1. UNCHANGED PhaseMap
    BY <1>7, PhasesUnchanged DEF vars, storeVars
  <2> QED BY <1>7, <2>1 DEF vars, storeVars, callVars, Ledger!ledgerVars
<1> QED
  BY <1>1, <1>2, <1>3, <1>4, <1>5, <1>6, <1>7,
     SignRefines, SaveRefines, RevokeRefines, ReadBackRefines, StatusRefines
  DEF Next, Step, Arrive

\* The handlers over the store implement the ledger: every serial moves forward
\* only, and no client is ever told something about a serial that is not so.
THEOREM ImplementsLedger == Spec => LedgerSpec
<1>1. Init => Ledger!LedgerInit
  BY DEF Init, StorageInit, PhaseMap, Phase, NoAnswer, Answer, Ledger!LedgerInit,
         Ledger!NoAnswer, Ledger!Answer
<1> QED
  BY <1>1, TypeCorrect, LifecycleInvariant, SilentInvariant, LedgerStep, PTL
  DEF Spec, LedgerSpec, Ledger!LedgerSpec
=============================================================================
