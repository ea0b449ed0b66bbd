----------------------------- MODULE AcmeProofs -----------------------------
(***************************************************************************)
(* The safety properties TLC checks of AcmeOrders, proved for any number   *)
(* of requests, orders, authorizations and serials, both backends and both *)
(* settings of SkipChallengeValidation.                                    *)
(***************************************************************************)
EXTENDS AcmeOrders, TLAPS

\* The part of the invariant about orders and authorizations, and that about
\* serials and certificates.
OrdersInv == MapsAgree /\ StatusFollowsAuthorizations

IssueInv == FinalisingInv /\ IssuedIsReserved /\ SignedIsAuthorized /\ ValidHasItsCertificate

\* What any step that leaves finalisations alone may do to the orders.
OrdersOnly ==
  /\ UNCHANGED <<pc, order, held, issued, serials, chains>>
  /\ \A o \in Orders :
       /\ orders'[o].cert = orders[o].cert
       /\ Known(o) => Known(o)' /\ (orders[o].status # "pending" => orders'[o].status # "pending")
       /\ orders[o].status = "valid" <=> orders'[o].status = "valid"

-----------------------------------------------------------------------------
(***************************************************************************)
(* Steps outside finalisation.                                             *)
(***************************************************************************)

\* Such a step keeps what is known of serials and certificates.
LEMMA OrdersOnlyKeeps ==
  ASSUME TypeOK, IssueInv, OrdersOnly
  PROVE  IssueInv'
<1> USE DEF IssueInv, OrdersOnly
<1>1. FinalisingInv'
  BY DEF TypeOK, FinalisingInv
<1>2. IssuedIsReserved'
  BY DEF IssuedIsReserved
<1>3. SignedIsAuthorized'
  BY AcmeAssumption DEF TypeOK, SignedIsAuthorized
<1>4. ValidHasItsCertificate'
  BY DEF ValidHasItsCertificate
<1> QED BY <1>1, <1>2, <1>3, <1>4

\* A new order is pending, with authorizations nobody else has.
LEMMA NewOrderStep ==
  ASSUME AcmeInv, NEW o \in Orders, NEW A \in SUBSET Authzs, NewOrder(o, A)
  PROVE  AcmeInv'
<1> DEFINE new == Order("pending", A, NoSerial)
<1>1. new \in OrderRecords /\ new.status = "pending" /\ new.authzs = A /\ new.cert = NoSerial
  BY DEF Order, OrderRecords, Statuses
<1>2. orders' = [orders EXCEPT ![o] = new]
  BY DEF NewOrder
<1> HIDE DEF new
<1>3. TypeOK'
  BY <1>1, <1>2 DEF AcmeInv, TypeOK, NewOrder, storeVars, callVars, StorageTypeOK
<1>4. MapsAgree'
  BY <1>1, <1>2, AcmeAssumption DEF AcmeInv, TypeOK, MapsAgree, NewOrder, Known
<1>5. StatusFollowsAuthorizations'
  <2>1. \A p \in Orders \ {o} : \A a \in orders[p].authzs : a \notin A
    BY AcmeAssumption DEF AcmeInv, TypeOK, OrderRecords, MapsAgree, NewOrder
  <2>2. ASSUME NEW p \in Orders, p # o, Known(p)'
        PROVE  (orders[p].status = "pending" <=> ~AllValid(p))'
    <3>1. orders'[p] = orders[p] /\ Known(p)
      BY <1>2, <2>2 DEF AcmeInv, TypeOK, Known
    <3>2. \A a \in orders[p].authzs : authorizations'[a] = authorizations[a]
      BY <2>1, <2>2 DEF AcmeInv, TypeOK, OrderRecords, NewOrder
    <3> QED BY <3>1, <3>2 DEF AcmeInv, StatusFollowsAuthorizations, AllValid
  <2>3. (orders[o].status = "pending" <=> ~AllValid(o))'
    <3>1. orders'[o] = new
      BY <1>2 DEF AcmeInv, TypeOK
    <3>2. PICK a \in A : authorizations'[a] = "pending"
      BY DEF NewOrder
    <3> QED BY <1>1, <3>1, <3>2 DEF AllValid
  <2> QED BY <2>2, <2>3 DEF StatusFollowsAuthorizations
<1>6. orders[o].status = "absent" /\ orders[o].cert = NoSerial
  BY DEF AcmeInv, TypeOK, OrderRecords, NewOrder, Known, ValidHasItsCertificate
<1>7. OrdersOnly
  BY <1>1, <1>2, <1>6 DEF AcmeInv, TypeOK, OrdersOnly, NewOrder, Known, callVars, storeVars
<1> QED BY <1>3, <1>4, <1>5, <1>7, OrdersOnlyKeeps DEF AcmeInv, IssueInv

\* An answered challenge makes the order ready exactly if it was the last.
LEMMA ChallengeStep ==
  ASSUME AcmeInv, NEW a \in Authzs, Challenge(a)
  PROVE  AcmeInv'
<1>1. PICK o \in Orders : o = orderAuthzMap[a] /\ Known(o) /\ a \in orders[o].authzs
  BY AcmeAssumption DEF AcmeInv, TypeOK, MapsAgree, Challenge
<1>2. /\ orders' = IF orders[o].status = "pending" /\ \A b \in orders[o].authzs \ {a} : authorizations[b] = "valid"
                     THEN [orders EXCEPT ![o].status = "ready"] ELSE orders
      /\ authorizations' = [authorizations EXCEPT ![a] = "valid"]
      /\ UNCHANGED <<storeVars, orderAuthzMap, chains, callVars, issued>>
  BY <1>1, AcmeAssumption DEF Challenge
<1>3. \A p \in Orders : orders[p] \in OrderRecords /\ orders'[p].authzs = orders[p].authzs
  BY <1>1, <1>2 DEF AcmeInv, TypeOK, OrderRecords
<1>4. TypeOK'
  <2>1. orders' \in [Orders -> OrderRecords]
    BY <1>1, <1>2 DEF AcmeInv, TypeOK, OrderRecords, Statuses
  <2> QED BY <1>2, <2>1 DEF AcmeInv, TypeOK, storeVars, callVars, StorageTypeOK
<1>5. \A p \in Orders : Known(p)' <=> Known(p)
  BY <1>1, <1>2 DEF AcmeInv, TypeOK, OrderRecords, Known
<1>6. MapsAgree'
  BY <1>1, <1>2, <1>3, <1>5, AcmeAssumption DEF AcmeInv, TypeOK, MapsAgree, Challenge
<1>7. StatusFollowsAuthorizations'
  <2>1. ASSUME NEW p \in Orders, Known(p)', p # o
        PROVE  (orders[p].status = "pending" <=> ~AllValid(p))'
    <3>1. a \notin orders[p].authzs
      BY <1>1, <2>1 DEF AcmeInv, MapsAgree
    <3>2. orders'[p] = orders[p]
      BY <1>1, <1>2, <2>1 DEF AcmeInv, TypeOK
    <3> QED BY <1>2, <1>3, <1>5, <2>1, <3>1, <3>2 DEF AcmeInv, TypeOK, OrderRecords, StatusFollowsAuthorizations, AllValid
  <2>2. (orders[o].status = "pending" <=> ~AllValid(o))'
    <3>1. AllValid(o)' <=> \A b \in orders[o].authzs \ {a} : authorizations[b] = "valid"
      BY <1>1, <1>2, <1>3 DEF AcmeInv, TypeOK, OrderRecords, AllValid
    <3>2. orders[o].status # "pending" => AllValid(o)
      BY <1>1 DEF AcmeInv, StatusFollowsAuthorizations
    <3>3. orders[o].status # "pending" => AllValid(o)'
      BY <3>1, <3>2 DEF AllValid
    <3> QED BY <1>1, <1>2, <1>3, <3>1, <3>3 DEF AcmeInv, TypeOK, OrderRecords
  <2> QED BY <2>1, <2>2 DEF StatusFollowsAuthorizations
<1>8. OrdersOnly
  BY <1>1, <1>2, <1>5 DEF AcmeInv, TypeOK, OrderRecords, OrdersOnly, callVars, storeVars
<1> QED BY <1>4, <1>6, <1>7, <1>8, OrdersOnlyKeeps DEF AcmeInv, IssueInv

\* Looking at an order changes nothing.
LEMMA GetOrderStutters ==
  ASSUME AcmeInv, NEW o \in Orders, GetOrder(o)
  PROVE  UNCHANGED vars
BY DEF AcmeInv, StatusFollowsAuthorizations, GetOrder, vars, acmeVars

-----------------------------------------------------------------------------
(***************************************************************************)
(* The steps of a finalisation.                                            *)
(***************************************************************************)

\* A step that leaves the orders alone keeps what is known of them.
LEMMA OrdersUntouched ==
  ASSUME OrdersInv, UNCHANGED <<orders, authorizations, orderAuthzMap>>
  PROVE  OrdersInv'
BY DEF OrdersInv, MapsAgree, StatusFollowsAuthorizations, Known, AllValid

\* A caller that gives up keeps the types of the calls, and the invariant of
\* the others if no serial changes hands.
LEMMA GiveUpKeeps ==
  ASSUME TypeOK, FinalisingInv, NEW c \in Callers, GiveUp(c),
         UNCHANGED <<orders, serials, issued>>
  PROVE  /\ pc' \in [Callers -> {"idle", "reserving", "signing", "saving", "publishing"}]
         /\ order' \in [Callers -> Orders \cup {NoOrder}]
         /\ held' \in [Callers -> Serials \cup {NoSerial}]
         /\ \A d \in Callers : /\ pc'[d] # "idle" => order'[d] \in Orders
                               /\ pc'[d] \notin {"idle", "reserving"} => held'[d] \in Serials
         /\ FinalisingInv'
<1>1. pc'[c] = "idle" /\ \A d \in Callers \ {c} : pc'[d] = pc[d] /\ order'[d] = order[d] /\ held'[d] = held[d]
  BY DEF TypeOK, GiveUp, Proceed
<1>2. FinalisingInv'
  BY <1>1 DEF TypeOK, FinalisingInv, Known
<1>3. /\ pc' \in [Callers -> {"idle", "reserving", "signing", "saving", "publishing"}]
      /\ order' \in [Callers -> Orders \cup {NoOrder}]
      /\ held' \in [Callers -> Serials \cup {NoSerial}]
  BY DEF TypeOK, GiveUp, Proceed
<1> QED BY <1>1, <1>2, <1>3 DEF TypeOK

\* A finalisation starts on an order whose authorizations are all valid.
LEMMA FinalizeStep ==
  ASSUME AcmeInv, NEW c \in Callers, NEW o \in Orders, Finalize(c, o)
  PROVE  AcmeInv'
<1> USE DEF Finalize, Proceed
<1>1. TypeOK'
  BY DEF AcmeInv, TypeOK, storeVars, acmeVars, StorageTypeOK
<1>2. OrdersInv'
  BY OrdersUntouched DEF AcmeInv, OrdersInv, acmeVars
<1>3. FinalisingInv'
  <2>1. orders[o].status # "pending"
    BY DEF AcmeInv, StatusFollowsAuthorizations
  <2> QED BY <2>1 DEF AcmeInv, TypeOK, FinalisingInv, Known, acmeVars, storeVars
<1>4. IssuedIsReserved' /\ SignedIsAuthorized' /\ ValidHasItsCertificate'
  BY DEF AcmeInv, IssuedIsReserved, SignedIsAuthorized, ValidHasItsCertificate, Known, acmeVars, storeVars
<1> QED BY <1>1, <1>2, <1>3, <1>4 DEF AcmeInv, OrdersInv

\* The serial reserved was nobody's.
LEMMA ReserveStep ==
  ASSUME AcmeInv, NEW c \in Callers, Reserve(c)
  PROVE  AcmeInv'
<1>1. OrdersInv'
  BY OrdersUntouched DEF AcmeInv, OrdersInv, Reserve, acmeVars
<1>2. CASE GiveUp(c) /\ UNCHANGED storeVars
  <2>1. TypeOK' /\ FinalisingInv'
    BY <1>2, GiveUpKeeps DEF AcmeInv, TypeOK, Reserve, acmeVars, storeVars, StorageTypeOK
  <2>2. IssuedIsReserved' /\ SignedIsAuthorized' /\ ValidHasItsCertificate'
    BY <1>2 DEF AcmeInv, IssuedIsReserved, SignedIsAuthorized, ValidHasItsCertificate, Known, Reserve, acmeVars, storeVars
  <2> QED BY <1>1, <2>1, <2>2 DEF AcmeInv, OrdersInv
<1>3. ASSUME NEW s \in Serials, held' = [held EXCEPT ![c] = s], Proceed(c, "signing"),
             UNCHANGED order,
             IF Backend = "memory" THEN ReserveSerial(s, "ok") ELSE InsertSerial(s, "ok")
      PROVE  AcmeInv'
  <2>1. s \notin serials /\ serials' = serials \cup {s} /\ UNCHANGED <<certificates, revocations>>
    BY <1>3 DEF ReserveSerial, InsertSerial
  <2>2. /\ pc[c] = "reserving" /\ pc'[c] = "signing" /\ held'[c] = s
        /\ \A d \in Callers \ {c} : pc'[d] = pc[d] /\ held'[d] = held[d]
    BY <1>3 DEF AcmeInv, TypeOK, Reserve, Proceed
  <2>3. TypeOK'
    <3>1. /\ pc' \in [Callers -> {"idle", "reserving", "signing", "saving", "publishing"}]
          /\ held' \in [Callers -> Serials \cup {NoSerial}]
      BY <1>3 DEF AcmeInv, TypeOK, Proceed
    <3> QED BY <1>3, <2>1, <2>2, <3>1 DEF AcmeInv, TypeOK, Reserve, acmeVars, StorageTypeOK
  <2>4. issued[s] = NoOrder
    BY <2>1 DEF AcmeInv, IssuedIsReserved
  <2>5. FinalisingInv'
    BY <1>3, <2>1, <2>2, <2>4 DEF AcmeInv, TypeOK, FinalisingInv, Known, Reserve, acmeVars
  <2>6. IssuedIsReserved' /\ SignedIsAuthorized' /\ ValidHasItsCertificate'
    BY <2>1 DEF AcmeInv, IssuedIsReserved, SignedIsAuthorized, ValidHasItsCertificate, Known, Reserve, acmeVars
  <2> QED BY <1>1, <2>3, <2>5, <2>6 DEF AcmeInv, OrdersInv
<1> QED BY <1>2, <1>3 DEF Reserve

\* The signature is for the caller's order, which is not pending.
LEMMA SignStep ==
  ASSUME AcmeInv, NEW c \in Callers, Sign(c)
  PROVE  AcmeInv'
<1>1. OrdersInv'
  BY OrdersUntouched DEF AcmeInv, OrdersInv, Sign, acmeVars
<1>2. CASE GiveUp(c) /\ UNCHANGED issued
  <2>1. TypeOK' /\ FinalisingInv'
    BY <1>2, GiveUpKeeps DEF AcmeInv, TypeOK, Sign, acmeVars, storeVars, StorageTypeOK
  <2>2. IssuedIsReserved' /\ SignedIsAuthorized' /\ ValidHasItsCertificate'
    BY <1>2 DEF AcmeInv, IssuedIsReserved, SignedIsAuthorized, ValidHasItsCertificate, Known, Sign, acmeVars, storeVars
  <2> QED BY <1>1, <2>1, <2>2 DEF AcmeInv, OrdersInv
<1>3. CASE /\ issued' = [issued EXCEPT ![held[c]] = order[c]]
           /\ Proceed(c, "saving")
           /\ UNCHANGED <<order, held>>
  <2>1. /\ held[c] \in Serials /\ held[c] \in serials /\ issued[held[c]] = NoOrder
        /\ order[c] \in Orders /\ Known(order[c]) /\ orders[order[c]].status # "pending"
        /\ \A d \in Callers \ {c} : pc[d] \notin {"idle", "reserving"} => held[d] # held[c]
    BY DEF AcmeInv, TypeOK, FinalisingInv, Sign
  <2>2. TypeOK'
    BY <1>3, <2>1 DEF AcmeInv, TypeOK, Sign, Proceed, acmeVars, storeVars, StorageTypeOK
  <2>3. FinalisingInv'
    BY <1>3, <2>1 DEF AcmeInv, TypeOK, FinalisingInv, Known, Sign, Proceed, acmeVars, storeVars
  <2>4. IssuedIsReserved' /\ SignedIsAuthorized'
    BY <1>3, <2>1 DEF AcmeInv, TypeOK, IssuedIsReserved, SignedIsAuthorized, Known, Sign, acmeVars, storeVars
  <2>5. ValidHasItsCertificate'
    BY <1>3, <2>1, AcmeAssumption DEF AcmeInv, TypeOK, ValidHasItsCertificate, Sign, acmeVars
  <2> QED BY <1>1, <2>2, <2>3, <2>4, <2>5 DEF AcmeInv, OrdersInv
<1> QED BY <1>2, <1>3 DEF Sign

\* Saving only touches the store.
LEMMA SaveStep ==
  ASSUME AcmeInv, NEW c \in Callers, Save(c)
  PROVE  AcmeInv'
<1>1. PICK res \in {"ok", "ErrAlreadyExists", "failed"} : SaveCertificate(held[c], res)
  BY DEF Save
<1>2. held[c] \in Serials /\ held[c] \in serials
  BY DEF AcmeInv, TypeOK, FinalisingInv, Save
<1>3. serials' = serials /\ StorageTypeOK'
  BY <1>1, <1>2 DEF AcmeInv, TypeOK, StorageTypeOK, SaveCertificate, storeVars
<1>4. TypeOK'
  BY <1>3 DEF AcmeInv, TypeOK, Save, Proceed, acmeVars
<1>5. OrdersInv'
  BY OrdersUntouched DEF AcmeInv, OrdersInv, Save, acmeVars
<1>6. FinalisingInv'
  BY <1>3 DEF AcmeInv, TypeOK, FinalisingInv, Known, Save, Proceed, acmeVars
<1>7. IssuedIsReserved' /\ SignedIsAuthorized' /\ ValidHasItsCertificate'
  BY <1>3 DEF AcmeInv, IssuedIsReserved, SignedIsAuthorized, ValidHasItsCertificate, Known, Save, acmeVars
<1> QED BY <1>4, <1>5, <1>6, <1>7 DEF AcmeInv, OrdersInv

\* What publishing does: order p, settled before, gets the certificate with
\* serial s, which was signed for it.
Published(c, p, s) ==
  /\ order[c] = p /\ held[c] = s /\ issued[s] = p
  /\ orders[p].status \notin {"absent", "pending"}
  /\ orders' \in [Orders -> OrderRecords]
  /\ orders'[p].status = "valid" /\ orders'[p].cert = s
  /\ orders'[p].authzs = orders[p].authzs
  /\ \A o \in Orders \ {p} : orders'[o] = orders[o]
  /\ chains' = chains \cup {s}

LEMMA PublishOrders ==
  ASSUME AcmeInv, NEW c \in Callers, Publish(c)
  PROVE  \E p \in Orders, s \in Serials : Published(c, p, s)
<1>1. PICK p \in Orders, s \in Serials : order[c] = p /\ held[c] = s
  BY DEF AcmeInv, TypeOK, Publish
<1>2. issued[s] = p /\ orders[p].status \notin {"absent", "pending"}
  BY <1>1 DEF AcmeInv, FinalisingInv, Publish, Known
<1>3. /\ orders' = [orders EXCEPT ![p].status = "valid", ![p].cert = s]
      /\ orders \in [Orders -> OrderRecords]
      /\ chains' = chains \cup {s}
  BY <1>1 DEF AcmeInv, TypeOK, Publish
<1>4. /\ orders' \in [Orders -> OrderRecords]
      /\ orders'[p].status = "valid" /\ orders'[p].cert = s
      /\ orders'[p].authzs = orders[p].authzs
      /\ \A o \in Orders \ {p} : orders'[o] = orders[o]
  BY <1>3 DEF OrderRecords, Statuses
<1> QED BY <1>1, <1>2, <1>3, <1>4 DEF Published

\* The second critical section makes a settled order valid, with the
\* certificate signed for it.
LEMMA PublishStep ==
  ASSUME AcmeInv, NEW c \in Callers, Publish(c)
  PROVE  AcmeInv'
<1>p. PICK p \in Orders, s \in Serials : Published(c, p, s)
  BY PublishOrders
<1>1. \A o \in Orders : /\ orders'[o].authzs = orders[o].authzs
                        /\ Known(o)' <=> Known(o)
                        /\ orders'[o].status = "pending" <=> orders[o].status = "pending"
  BY <1>p DEF Known, Published
<1>2. /\ pc'[c] = "idle"
      /\ \A d \in Callers \ {c} : pc'[d] = pc[d] /\ order'[d] = order[d] /\ held'[d] = held[d]
  BY DEF AcmeInv, TypeOK, Publish, GiveUp, Proceed
<1>3. TypeOK'
  <2>1. chains' \in SUBSET Serials
    BY <1>p DEF AcmeInv, TypeOK, Published
  <2>2. /\ pc' \in [Callers -> {"idle", "reserving", "signing", "saving", "publishing"}]
        /\ order' \in [Callers -> Orders \cup {NoOrder}]
        /\ held' \in [Callers -> Serials \cup {NoSerial}]
    BY DEF AcmeInv, TypeOK, Publish, GiveUp, Proceed
  <2> QED BY <1>2, <1>p, <2>1, <2>2 DEF AcmeInv, TypeOK, Published, Publish, storeVars, StorageTypeOK
<1>4. OrdersInv'
  BY <1>1 DEF AcmeInv, OrdersInv, TypeOK, MapsAgree, StatusFollowsAuthorizations, AllValid, Publish
<1>5. FinalisingInv'
  BY <1>1, <1>2 DEF AcmeInv, TypeOK, FinalisingInv, Publish, storeVars
<1>6. IssuedIsReserved' /\ SignedIsAuthorized'
  BY <1>1 DEF AcmeInv, TypeOK, IssuedIsReserved, SignedIsAuthorized, Publish, storeVars
<1>7. ValidHasItsCertificate'
  <2>1. s # NoSerial /\ issued' = issued
    BY AcmeAssumption DEF Publish
  <2> QED BY <1>p, <2>1 DEF AcmeInv, ValidHasItsCertificate, Published
<1> QED BY <1>3, <1>4, <1>5, <1>6, <1>7 DEF AcmeInv, OrdersInv

-----------------------------------------------------------------------------
(***************************************************************************)
(* Theorems.                                                               *)
(***************************************************************************)

\* Nothing in the invariant depends on anything but the variables.
LEMMA StutterKeeps ==
  ASSUME AcmeInv, UNCHANGED vars
  PROVE  AcmeInv'
BY DEF AcmeInv, TypeOK, StorageTypeOK, MapsAgree, StatusFollowsAuthorizations, FinalisingInv,
       IssuedIsReserved, SignedIsAuthorized, ValidHasItsCertificate, Known, AllValid,
       vars, storeVars, acmeVars, callVars

\* The invariant holds initially and is kept by every step.
LEMMA AcmeInductive ==
  (Init => AcmeInv) /\ (AcmeInv /\ [Next]_vars => AcmeInv')
<1>1. ASSUME Init PROVE AcmeInv
  <2> USE <1>1 DEF Init, StorageInit
  <2>1. TypeOK
    BY DEF TypeOK, StorageTypeOK, Order, OrderRecords, Statuses
  <2>2. MapsAgree /\ StatusFollowsAuthorizations
    BY AcmeAssumption DEF MapsAgree, StatusFollowsAuthorizations, Known, Order
  <2>3. FinalisingInv /\ IssuedIsReserved /\ SignedIsAuthorized /\ ValidHasItsCertificate
    BY DEF FinalisingInv, IssuedIsReserved, SignedIsAuthorized, ValidHasItsCertificate, Order
  <2> QED BY <2>1, <2>2, <2>3 DEF AcmeInv
<1>2. ASSUME AcmeInv, [Next]_vars PROVE AcmeInv'
  <2>1. ASSUME NEW o \in Orders, GetOrder(o) PROVE AcmeInv'
    BY <1>2, <2>1, GetOrderStutters, StutterKeeps
  <2> QED BY <1>2, <2>1, NewOrderStep, ChallengeStep, FinalizeStep, ReserveStep, SignStep,
             SaveStep, PublishStep, StutterKeeps DEF Next
<1> QED BY <1>1, <1>2

\* Every reachable state of the ACME server satisfies the whole invariant
\* (server.go:425-755).
THEOREM AcmeInvariant == Spec => []AcmeInv
BY AcmeInductive, PTL DEF Spec

\* The variables keep their types.
THEOREM AcmeTypeCorrect == Spec => []TypeOK
<1>1. AcmeInv => TypeOK
  BY DEF AcmeInv
<1> QED BY <1>1, AcmeInvariant, PTL

\* Orders are pending exactly while an authorization is not valid
\* (server.go:593-608).
THEOREM StatusIsRight == Spec => []StatusFollowsAuthorizations
<1>1. AcmeInv => StatusFollowsAuthorizations
  BY DEF AcmeInv
<1> QED BY <1>1, AcmeInvariant, PTL

\* No certificate is signed for an order with an authorization that is not valid
\* (server.go:652-709).
THEOREM SigningIsAuthorized == Spec => []SignedIsAuthorized
<1>1. AcmeInv => SignedIsAuthorized
  BY DEF AcmeInv
<1> QED BY <1>1, AcmeInvariant, PTL

\* A valid order's certificate was signed for it and can be downloaded
\* (server.go:744-749).
THEOREM ValidOrdersHaveCertificates == Spec => []ValidHasItsCertificate
<1>1. AcmeInv => ValidHasItsCertificate
  BY DEF AcmeInv
<1> QED BY <1>1, AcmeInvariant, PTL

\* No step moves an order back or changes its authorizations
\* (docs/acme_server.md:11-21).
THEOREM OrdersNeverRegress == Spec => OrdersMoveForward
<1> DEFINE Forward == \A o \in Orders : /\ Ahead(orders[o].status, orders'[o].status)
                                        /\ Known(o) => orders'[o].authzs = orders[o].authzs
<1>1. ASSUME AcmeInv, Next PROVE Forward
  <2>1. ASSUME NEW p \in Orders, NEW A \in SUBSET Authzs, NewOrder(p, A) PROVE Forward
    BY <1>1, <2>1 DEF AcmeInv, TypeOK, NewOrder, Known, Ahead
  <2>2. ASSUME NEW a \in Authzs, Challenge(a) PROVE Forward
    BY <1>1, <2>2 DEF AcmeInv, TypeOK, OrderRecords, Challenge, Known, Ahead
  <2>3. ASSUME NEW c \in Callers, Publish(c) PROVE Forward
    <3>1. PICK p \in Orders, s \in Serials : Published(c, p, s)
      BY <1>1, <2>3, PublishOrders
    <3> QED BY <3>1 DEF Published, Ahead
  <2>4. ASSUME UNCHANGED orders PROVE Forward
    BY <2>4 DEF Ahead
  <2>5. ASSUME NEW p \in Orders, GetOrder(p) PROVE Forward
    BY <1>1, <2>4, <2>5, GetOrderStutters DEF vars, acmeVars
  <2>6. ASSUME NEW c \in Callers, Reserve(c) \/ Sign(c) \/ Save(c) \/ \E p \in Orders : Finalize(c, p)
        PROVE  Forward
    BY <2>4, <2>6 DEF Reserve, Sign, Save, Finalize, acmeVars
  <2> QED BY <1>1, <2>1, <2>2, <2>3, <2>5, <2>6 DEF Next
<1>2. AcmeInv /\ [Next]_vars => [Forward]_vars
  BY <1>1
<1> QED BY <1>2, AcmeInvariant, PTL DEF Spec, OrdersMoveForward
-----------------------------------------------------------------------------
(***************************************************************************)
(* The refinement of OrderLifecycle.  One more invariant is needed: what a *)
(* finalisation works on cannot be downloaded yet, so that a signature     *)
(* before Publish shows nobody anything and Publish shows it once.         *)
(***************************************************************************)
Unpublished ==
  /\ chains \subseteq serials
  /\ \A c \in Callers : pc[c] \notin {"idle", "reserving"} => held[c] \notin chains

LifeInv == AcmeInv /\ Unpublished

\* A caller that gives up, or goes on with the serial it has.
LEMMA UnpublishedKept ==
  ASSUME LifeInv, NEW c \in Callers,
         UNCHANGED chains, serials \subseteq serials',
         GiveUp(c) \/ (pc[c] \notin {"idle", "reserving"} /\ UNCHANGED held /\ pc' = [pc EXCEPT ![c] = pc'[c]])
  PROVE  Unpublished'
<1>1. \A d \in Callers \ {c} : pc'[d] = pc[d] /\ held'[d] = held[d]
  BY DEF LifeInv, AcmeInv, TypeOK, GiveUp, Proceed
<1>2. pc'[c] = "idle" \/ (pc[c] \notin {"idle", "reserving"} /\ held'[c] = held[c])
  BY DEF LifeInv, AcmeInv, TypeOK, GiveUp, Proceed
<1> QED BY <1>1, <1>2 DEF LifeInv, Unpublished

\* A reserved serial is new; a published one has left its holder.
LEMMA UnpublishedStep == LifeInv /\ [Next]_vars => Unpublished'
<1> SUFFICES ASSUME LifeInv, [Next]_vars  PROVE Unpublished'
  OBVIOUS
<1>1. ASSUME UNCHANGED <<chains, pc, held, serials>>  PROVE Unpublished'
  BY <1>1 DEF LifeInv, Unpublished
<1>2. ASSUME \/ \E o \in Orders, A \in SUBSET Authzs : NewOrder(o, A)
             \/ \E a \in Authzs : Challenge(a)
             \/ \E o \in Orders : GetOrder(o)
             \/ UNCHANGED vars
      PROVE  Unpublished'
  BY <1>1, <1>2 DEF NewOrder, Challenge, GetOrder, vars, storeVars, callVars, acmeVars
<1>3. ASSUME NEW c \in Callers, NEW o \in Orders, Finalize(c, o)  PROVE Unpublished'
  BY <1>3 DEF LifeInv, AcmeInv, TypeOK, Unpublished, Finalize, Proceed, storeVars, acmeVars
<1>4. ASSUME NEW c \in Callers, Reserve(c)  PROVE Unpublished'
  <2>1. CASE GiveUp(c) /\ UNCHANGED storeVars
    BY <1>4, <2>1, UnpublishedKept DEF Reserve, acmeVars, storeVars
  <2>2. ASSUME NEW s \in Serials, held' = [held EXCEPT ![c] = s], Proceed(c, "signing"),
               IF Backend = "memory" THEN ReserveSerial(s, "ok") ELSE InsertSerial(s, "ok")
        PROVE  Unpublished'
    <3>1. s \notin serials /\ serials' = serials \cup {s} /\ chains' = chains
      BY <1>4, <2>2 DEF ReserveSerial, InsertSerial, Reserve, acmeVars
    <3>2. held'[c] = s /\ \A d \in Callers \ {c} : pc'[d] = pc[d] /\ held'[d] = held[d]
      BY <2>2 DEF LifeInv, AcmeInv, TypeOK, Proceed
    <3> QED BY <3>1, <3>2 DEF LifeInv, Unpublished
  <2> QED BY <1>4, <2>1, <2>2 DEF Reserve
<1>5. ASSUME NEW c \in Callers, Sign(c) \/ Save(c)  PROVE Unpublished'
  <2>1. serials' = serials /\ chains' = chains /\ pc[c] \notin {"idle", "reserving"}
    <3>1. CASE Sign(c)
      BY <3>1 DEF Sign, storeVars, acmeVars
    <3>2. CASE Save(c)
      <4>1. PICK res \in {"ok", "ErrAlreadyExists", "failed"} : SaveCertificate(held[c], res)
        BY <3>2 DEF Save
      <4>2. pc[c] = "saving" /\ held[c] \in serials
        BY <3>2 DEF Save, LifeInv, AcmeInv, FinalisingInv
      <4> QED BY <3>2, <4>1, <4>2 DEF Save, SaveCertificate, storeVars, acmeVars
    <3> QED BY <1>5, <3>1, <3>2
  <2>2. GiveUp(c) \/ (UNCHANGED held /\ pc' = [pc EXCEPT ![c] = pc'[c]])
    BY <1>5 DEF Sign, Save, Proceed, LifeInv, AcmeInv, TypeOK
  <2> QED BY <2>1, <2>2, UnpublishedKept
<1>6. ASSUME NEW c \in Callers, Publish(c)  PROVE Unpublished'
  <2>1. PICK p \in Orders, s \in Serials : Published(c, p, s)
    BY <1>6, PublishOrders DEF LifeInv
  <2>2. serials' = serials /\ pc[c] = "publishing"
    BY <1>6 DEF Publish, storeVars
  <2>3. s \in serials /\ \A d \in Callers \ {c} : pc[d] \notin {"idle", "reserving"} => held[d] # s
    BY <2>1, <2>2 DEF LifeInv, AcmeInv, FinalisingInv, Published
  <2>4. pc'[c] = "idle" /\ \A d \in Callers \ {c} : pc'[d] = pc[d] /\ held'[d] = held[d]
    BY <1>6 DEF LifeInv, AcmeInv, TypeOK, Publish, GiveUp, Proceed
  <2> QED BY <2>1, <2>2, <2>3, <2>4 DEF LifeInv, Unpublished, Published
<1> QED BY <1>2, <1>3, <1>4, <1>5, <1>6 DEF Next

LEMMA LifeInvariant == Spec => []LifeInv
<1>1. Init => Unpublished
  BY DEF Init, Unpublished
<1>2. LifeInv /\ [Next]_vars => LifeInv'
  BY AcmeInductive, UnpublishedStep DEF LifeInv
<1>3. AcmeInv /\ Unpublished => LifeInv
  BY DEF LifeInv
<1> QED BY <1>1, <1>2, <1>3, AcmeInductive, PTL DEF Spec

LifeStep == Life!LifeNext \/ UNCHANGED Life!lifeVars

\* A step of a request that shows nobody anything.
LEMMA LifeStutters ==
  ASSUME UNCHANGED <<orders, authorizations, chains>>, \A s \in chains : issued'[s] = issued[s]
  PROVE  LifeStep
<1>1. UNCHANGED Life!lifeVars
  BY DEF Life!lifeVars
<1> QED BY <1>1 DEF LifeStep

\* No authorization of a new order belongs to another, or has been answered.
LEMMA NewOrderImplements ==
  ASSUME LifeInv, NEW o \in Orders, NEW A \in SUBSET Authzs, NewOrder(o, A)
  PROVE  LifeStep
<1>1. PICK new : new = Order("pending", A, NoSerial)
  OBVIOUS
<1>2. orders' = [orders EXCEPT ![o] = new] /\ new.status = "pending" /\ new.authzs = A /\ new.cert = NoSerial
  BY <1>1 DEF NewOrder, Order
<1>3. orders \in [Orders -> OrderRecords] /\ orders[o].status = "absent" /\ orders[o].cert = NoSerial
  BY DEF LifeInv, AcmeInv, TypeOK, OrderRecords, NewOrder, Known, ValidHasItsCertificate
<1>4. \A p \in Orders : A \cap orders[p].authzs = {}
  BY AcmeAssumption DEF LifeInv, AcmeInv, TypeOK, MapsAgree, NewOrder
<1>5. UNCHANGED <<chains, issued>>
  BY DEF NewOrder
<1>6. {a \in Authzs : authorizations'[a] = "valid"} = {a \in Authzs : authorizations[a] = "valid"}
  BY DEF NewOrder
<1>7. A # {} /\ A \cap {a \in Authzs : authorizations[a] = "valid"} = {}
  BY DEF NewOrder
<1>8. Life!Create(o, A)
  BY <1>2, <1>3, <1>4, <1>5, <1>6, <1>7 DEF Life!Create
<1> QED BY <1>8 DEF LifeStep, Life!LifeNext

\* Answering a challenge proves one authorization more, of an order that was
\* pending; answering it again changes nothing.
LEMMA ChallengeImplements ==
  ASSUME LifeInv, NEW a \in Authzs, Challenge(a)
  PROVE  LifeStep
<1>1. PICK o \in Orders : o = orderAuthzMap[a] /\ Known(o) /\ a \in orders[o].authzs
  BY AcmeAssumption DEF LifeInv, AcmeInv, TypeOK, MapsAgree, Challenge
<1>2. /\ orders' = IF orders[o].status = "pending" /\ \A b \in orders[o].authzs \ {a} : authorizations[b] = "valid"
                     THEN [orders EXCEPT ![o].status = "ready"] ELSE orders
      /\ authorizations' = [authorizations EXCEPT ![a] = "valid"]
      /\ UNCHANGED <<chains, issued>>
  BY <1>1, AcmeAssumption DEF Challenge
<1>3. orders \in [Orders -> OrderRecords] /\ authorizations \in [Authzs -> {"absent", "pending", "valid"}]
  BY DEF LifeInv, AcmeInv, TypeOK
<1>4. orders[o].status = "pending" <=> ~AllValid(o)
  BY <1>1 DEF LifeInv, AcmeInv, StatusFollowsAuthorizations
<1>5. CASE authorizations[a] = "valid"
  <2>1. authorizations' = authorizations
    BY <1>2, <1>3, <1>5
  <2>2. orders' = orders
    BY <1>2, <1>4, <1>5 DEF AllValid
  <2> QED BY <1>2, <2>1, <2>2, LifeStutters
<1>6. CASE authorizations[a] # "valid"
  <2>1. orders[o].status = "pending"
    BY <1>1, <1>4, <1>6 DEF AllValid
  <2> DEFINE proven == {b \in Authzs : authorizations[b] = "valid"}
             all == \A b \in orders[o].authzs \ {a} : authorizations[b] = "valid"
  <2>2. proven' = proven \cup {a} /\ a \in orders[o].authzs \ proven
    BY <1>1, <1>2, <1>3, <1>6
  <2>3. orders[o].authzs \subseteq proven' <=> all
    BY <1>3, <2>2 DEF OrderRecords
  <2>4. /\ \A p \in Orders : orders'[p].authzs = orders[p].authzs /\ orders'[p].cert = orders[p].cert
        /\ \A p \in Orders \ {o} : orders'[p].status = orders[p].status
        /\ orders'[o].status = IF all THEN "ready" ELSE "pending"
    BY <1>2, <1>3, <2>1 DEF OrderRecords
  <2>5. /\ [p \in Orders |-> orders'[p].status]
              = [[p \in Orders |-> orders[p].status] EXCEPT ![o] = IF all THEN "ready" ELSE "pending"]
        /\ [p \in Orders |-> orders'[p].authzs] = [p \in Orders |-> orders[p].authzs]
        /\ [p \in Orders |-> orders'[p].cert] = [p \in Orders |-> orders[p].cert]
    BY <2>4
  <2>6. Life!Prove(o, a)
    BY <1>2, <2>1, <2>2, <2>3, <2>5 DEF Life!Prove
  <2> QED BY <2>6 DEF LifeStep, Life!LifeNext
<1> QED BY <1>5, <1>6

\* A serial that is being worked on is not published, so signing shows nothing.
LEMMA SignShowsNothing ==
  ASSUME LifeInv, NEW c \in Callers, Sign(c)
  PROVE  LifeStep
<1>1. held[c] \notin chains /\ UNCHANGED <<orders, authorizations, chains>>
  BY DEF LifeInv, Unpublished, Sign, acmeVars
<1>2. \A s \in chains : issued'[s] = issued[s]
  BY <1>1 DEF LifeInv, AcmeInv, TypeOK, Sign
<1> QED BY <1>1, <1>2, LifeStutters

\* Publishing gives a settled order a certificate nobody could download before.
LEMMA PublishImplements ==
  ASSUME LifeInv, NEW c \in Callers, Publish(c)
  PROVE  LifeStep
<1>1. PICK p \in Orders, s \in Serials : Published(c, p, s)
  BY PublishOrders DEF LifeInv
<1>2. s \notin chains /\ UNCHANGED <<authorizations, issued>>
  BY <1>1 DEF LifeInv, Unpublished, Publish, Published
<1>3. orders[p].status \in {"ready", "valid"}
  BY <1>1 DEF LifeInv, AcmeInv, TypeOK, OrderRecords, Statuses, Published
<1>4. [t \in Serials |-> IF t \in chains' THEN issued'[t] ELSE NoOrder]
        = [[t \in Serials |-> IF t \in chains THEN issued[t] ELSE NoOrder] EXCEPT ![s] = p]
  BY <1>1, <1>2 DEF Published
<1>5. /\ [o \in Orders |-> orders'[o].cert] = [[o \in Orders |-> orders[o].cert] EXCEPT ![p] = s]
      /\ [o \in Orders |-> orders'[o].status] = [[o \in Orders |-> orders[o].status] EXCEPT ![p] = "valid"]
      /\ [o \in Orders |-> orders'[o].authzs] = [o \in Orders |-> orders[o].authzs]
  BY <1>1 DEF Published
<1>6. Life!Certify(p, s)
  BY <1>2, <1>3, <1>4, <1>5 DEF Life!Certify
<1> QED BY <1>6 DEF LifeStep, Life!LifeNext

LEMMA EveryStepImplements == LifeInv /\ [Next]_vars => LifeStep
<1> SUFFICES ASSUME LifeInv, [Next]_vars  PROVE LifeStep
  OBVIOUS
<1>1. ASSUME UNCHANGED <<orders, authorizations, chains, issued>>  PROVE LifeStep
  BY <1>1, LifeStutters
<1>2. ASSUME NEW o \in Orders, GetOrder(o)  PROVE LifeStep
  BY <1>1, <1>2, GetOrderStutters DEF LifeInv, vars, acmeVars
<1>3. ASSUME NEW c \in Callers, Reserve(c) \/ Save(c) \/ \E o \in Orders : Finalize(c, o)
      PROVE  LifeStep
  BY <1>1, <1>3 DEF Reserve, Save, Finalize, acmeVars
<1>4. ASSUME UNCHANGED vars  PROVE LifeStep
  BY <1>1, <1>4 DEF vars, acmeVars
<1> QED BY <1>2, <1>3, <1>4, NewOrderImplements, ChallengeImplements, SignShowsNothing,
           PublishImplements DEF Next

\* LifeSpec: the handlers implement OrderLifecycle for any number of requests,
\* orders and serials, whatever runs between the two critical sections of a
\* finalisation and however many work on one order (server.go:593-608, 652-755).
THEOREM ImplementsOrderLife == Spec => LifeSpec
<1>1. Init => Life!LifeInit
  BY DEF Init, Order, Life!LifeInit
<1>2. LifeInv /\ [Next]_vars => [Life!LifeNext]_(Life!lifeVars)
  BY EveryStepImplements DEF LifeStep
<1> QED BY <1>1, <1>2, LifeInvariant, PTL DEF Spec, LifeSpec, Life!LifeSpec
=============================================================================
