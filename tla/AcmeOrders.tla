----------------------------- MODULE AcmeOrders -----------------------------
(***************************************************************************)
(* Orders, authorizations and certificates of the ACME server              *)
(* (pkg/protocols/acme/server.go), from the point where a request's JWS    *)
(* has been verified.  Every handler touches the server's maps in critical *)
(* sections of one mutex; handleFinalizeOrder has two, with the work on    *)
(* serial, signature and store between them, and is several steps here.    *)
(*                                                                         *)
(* Identifiers are drawn at random and never repeat.  An authorization has *)
(* one challenge, whose status is always written together with its own;    *)
(* one value stands for both.  A certificate chain is downloaded under an  *)
(* identifier of its own; its serial stands for it.                        *)
(***************************************************************************)
EXTENDS Storage

CONSTANTS
  Callers,   \* request goroutines
  Orders,    \* identifiers for orders
  Authzs,    \* identifiers for authorizations
  NoOrder,   \* no order
  NoSerial,  \* no serial, or no certificate
  SkipChallengeValidation  \* the server's flag: a challenge can be answered again

ASSUME AcmeAssumption ==
  /\ NoOrder \notin Orders
  /\ NoSerial \notin Serials
  /\ SkipChallengeValidation \in BOOLEAN

VARIABLES
  orders,          \* the orders: status, authorizations, certificate
  authorizations,  \* the status of each authorization
  orderAuthzMap,   \* the order of each authorization
  chains,          \* the certificates that can be downloaded
  pc,              \* where each caller is in handleFinalizeOrder
  order,           \* the order it finalises
  held,            \* the serial it works on
  issued           \* history: the order each serial was signed for

acmeVars == <<orders, authorizations, orderAuthzMap, chains>>
callVars == <<pc, order, held>>
vars == <<storeVars, acmeVars, callVars, issued>>

Order(st, A, crt) == [status |-> st, authzs |-> A, cert |-> crt]

Known(o) == orders[o].status # "absent"

AllValid(o) == \A a \in orders[o].authzs : authorizations[a] = "valid"

Init ==
  /\ StorageInit
  /\ orders = [o \in Orders |-> Order("absent", {}, NoSerial)]
  /\ authorizations = [a \in Authzs |-> "absent"]
  /\ orderAuthzMap = [a \in Authzs |-> NoOrder]
  /\ chains = {}
  /\ pc = [c \in Callers |-> "idle"]
  /\ order = [c \in Callers |-> NoOrder]
  /\ held = [c \in Callers |-> NoSerial]
  /\ issued = [s \in Serials |-> NoOrder]

(***************************************************************************)
(* Orders and challenges: one critical section each.                       *)
(***************************************************************************)
NewOrder(o, A) ==
  /\ ~Known(o)
  /\ A # {} /\ \A a \in A : authorizations[a] = "absent"
  /\ orders' = [orders EXCEPT ![o] = Order("pending", A, NoSerial)]
  /\ authorizations' = [a \in Authzs |-> IF a \in A THEN "pending" ELSE authorizations[a]]
  /\ orderAuthzMap' = [a \in Authzs |-> IF a \in A THEN o ELSE orderAuthzMap[a]]
  /\ UNCHANGED <<storeVars, chains, callVars, issued>>

\* Bug: the parent order is looked at before the authorization is updated.
ChallengeTooEarly(a) ==
  LET o == orderAuthzMap[a] IN
  /\ authorizations[a] = "pending"
  /\ authorizations' = [authorizations EXCEPT ![a] = "valid"]
  /\ orders' = IF orders[o].status = "pending" /\ AllValid(o)
                 THEN [orders EXCEPT ![o].status = "ready"] ELSE orders
  /\ UNCHANGED <<storeVars, orderAuthzMap, chains, callVars, issued>>

\* Bug: whatever its status, the parent order is made ready.
ChallengeAgain(a) ==
  LET o == orderAuthzMap[a] IN
  /\ authorizations[a] # "absent"
  /\ authorizations' = [authorizations EXCEPT ![a] = "valid"]
  /\ orders' = IF \A b \in orders[o].authzs \ {a} : authorizations[b] = "valid"
                 THEN [orders EXCEPT ![o].status = "ready"] ELSE orders
  /\ UNCHANGED <<storeVars, orderAuthzMap, chains, callVars, issued>>

\* A POST to the challenge of authorization a; its parent order is ready once
\* the last of its authorizations is valid.
Challenge(a) ==
  LET o == orderAuthzMap[a] IN
  /\ authorizations[a] # "absent"
  /\ SkipChallengeValidation \/ authorizations[a] = "pending"
  /\ authorizations' = [authorizations EXCEPT ![a] = "valid"]
  /\ orders' = IF /\ o # NoOrder
                  /\ orders[o].status = "pending"
                  /\ \A b \in orders[o].authzs \ {a} : authorizations[b] = "valid"
                 THEN [orders EXCEPT ![o].status = "ready"]
                 ELSE orders
  /\ UNCHANGED <<storeVars, orderAuthzMap, chains, callVars, issued>>

\* Looking at an order re-evaluates its readiness.
GetOrder(o) ==
  /\ Known(o)
  /\ orders' = IF orders[o].status = "pending" /\ AllValid(o)
                 THEN [orders EXCEPT ![o].status = "ready"] ELSE orders
  /\ UNCHANGED <<storeVars, authorizations, orderAuthzMap, chains, callVars, issued>>

(***************************************************************************)
(* Finalisation.                                                           *)
(***************************************************************************)
Proceed(c, l) == pc' = [pc EXCEPT ![c] = l]

GiveUp(c) ==
  /\ Proceed(c, "idle")
  /\ order' = [order EXCEPT ![c] = NoOrder]
  /\ held' = [held EXCEPT ![c] = NoSerial]

\* Bug: the authorizations are not checked.
FinalizeUnchecked(c, o) ==
  /\ pc[c] = "idle"
  /\ Known(o)
  /\ Proceed(c, "reserving")
  /\ order' = [order EXCEPT ![c] = o]
  /\ UNCHANGED <<storeVars, acmeVars, held, issued>>

\* Bug: the order is marked valid when its finalisation starts.
FinalizeEarly(c, o) ==
  /\ pc[c] = "idle"
  /\ Known(o) /\ AllValid(o)
  /\ Proceed(c, "reserving")
  /\ order' = [order EXCEPT ![c] = o]
  /\ orders' = [orders EXCEPT ![o].status = "valid"]
  /\ UNCHANGED <<storeVars, authorizations, orderAuthzMap, chains, held, issued>>

\* The authorizations are checked under the mutex, which is then released;
\* the status of the order is not looked at.
Finalize(c, o) ==
  /\ pc[c] = "idle"
  /\ Known(o) /\ AllValid(o)
  /\ Proceed(c, "reserving")
  /\ order' = [order EXCEPT ![c] = o]
  /\ UNCHANGED <<storeVars, acmeVars, held, issued>>

\* Bug: the error of the reservation is not looked at.
ReserveUnchecked(c) ==
  /\ pc[c] = "reserving"
  /\ \/ \E s \in Serials : InsertSerial(s, "ok") /\ held' = [held EXCEPT ![c] = s]
     \/ UNCHANGED <<storeVars, held>>
  /\ Proceed(c, "signing")
  /\ UNCHANGED <<acmeVars, order, issued>>

\* GenerateAndReserveSerial, as module CertLifecycle has it step by step: it
\* claims a serial nobody has, or fails.
Reserve(c) ==
  /\ pc[c] = "reserving"
  /\ \/ \E s \in Serials :
          /\ IF Backend = "memory" THEN ReserveSerial(s, "ok") ELSE InsertSerial(s, "ok")
          /\ held' = [held EXCEPT ![c] = s]
          /\ Proceed(c, "signing")
          /\ UNCHANGED order
     \/ GiveUp(c) /\ UNCHANGED storeVars
  /\ UNCHANGED <<acmeVars, issued>>

Sign(c) ==
  /\ pc[c] = "signing"
  /\ \/ /\ issued' = [issued EXCEPT ![held[c]] = order[c]]
        /\ Proceed(c, "saving")
        /\ UNCHANGED <<order, held>>
     \/ GiveUp(c) /\ UNCHANGED issued
  /\ UNCHANGED <<storeVars, acmeVars>>

\* The outcome of SaveCertificate is ignored.
Save(c) ==
  /\ pc[c] = "saving"
  /\ \E res \in {"ok", "ErrAlreadyExists", "failed"} : SaveCertificate(held[c], res)
  /\ Proceed(c, "publishing")
  /\ UNCHANGED <<acmeVars, order, held, issued>>

\* The second critical section.
Publish(c) ==
  /\ pc[c] = "publishing"
  /\ chains' = chains \cup {held[c]}
  /\ orders' = [orders EXCEPT ![order[c]].status = "valid", ![order[c]].cert = held[c]]
  /\ GiveUp(c)
  /\ UNCHANGED <<storeVars, authorizations, orderAuthzMap, issued>>

Next ==
  \/ \E o \in Orders, A \in SUBSET Authzs : NewOrder(o, A)
  \/ \E a \in Authzs : Challenge(a)
  \/ \E o \in Orders : GetOrder(o)
  \/ \E c \in Callers, o \in Orders : Finalize(c, o)
  \/ \E c \in Callers : Reserve(c) \/ Sign(c) \/ Save(c) \/ Publish(c)

Spec == Init /\ [][Next]_vars

(***************************************************************************)
(* Properties that hold.                                                   *)
(***************************************************************************)
Statuses == {"absent", "pending", "ready", "valid"}

OrderRecords ==
  [status : Statuses, authzs : SUBSET Authzs, cert : Serials \cup {NoSerial}]

\* Types; who has begun a finalisation has an order, and past the reservation
\* a serial.
TypeOK ==
  /\ StorageTypeOK
  /\ orders \in [Orders -> OrderRecords]
  /\ authorizations \in [Authzs -> {"absent", "pending", "valid"}]
  /\ orderAuthzMap \in [Authzs -> Orders \cup {NoOrder}]
  /\ chains \in SUBSET Serials
  /\ pc \in [Callers -> {"idle", "reserving", "signing", "saving", "publishing"}]
  /\ order \in [Callers -> Orders \cup {NoOrder}]
  /\ held \in [Callers -> Serials \cup {NoSerial}]
  /\ issued \in [Serials -> Orders \cup {NoOrder}]
  /\ \A c \in Callers : /\ pc[c] # "idle" => order[c] \in Orders
                        /\ pc[c] \notin {"idle", "reserving"} => held[c] \in Serials

\* An order is pending exactly as long as one of its authorizations is not
\* valid, whichever requests change them: a client is never told to wait for an
\* order that is ready (server.go:593-608; the second evaluation in
\* handleGetOrder, 518-531, never changes anything).
StatusFollowsAuthorizations ==
  \A o \in Orders : Known(o) => (orders[o].status = "pending" <=> ~AllValid(o))

\* Nothing is signed for an order before all its authorizations are valid,
\* although they are checked in one critical section and the signature happens
\* long after it (server.go:652-664, 709).
SignedIsAuthorized ==
  \A s \in Serials : issued[s] # NoOrder =>
    Known(issued[s]) /\ orders[issued[s]].status # "pending"

\* A valid order, and no other, has a certificate; it can be downloaded and was
\* signed for this very order (server.go:744-749).
ValidHasItsCertificate ==
  \A o \in Orders :
    /\ orders[o].status = "valid" <=> orders[o].cert # NoSerial
    /\ orders[o].cert # NoSerial =>
         orders[o].cert \in chains /\ issued[orders[o].cert] = o

\* docs/acme_server.md:11-21: an order goes from pending to ready to valid and
\* never back, and its authorizations are settled when it is created.
Ahead(s, t) ==
  \/ s = t \/ s = "absent" \/ t = "valid"
  \/ s = "pending" /\ t = "ready"

OrdersMoveForward ==
  [][\A o \in Orders :
       /\ Ahead(orders[o].status, orders'[o].status)
       /\ Known(o) => orders'[o].authzs = orders[o].authzs]_vars

\* The handlers implement the life of orders (OrderLifecycle): however many
\* finalisations work on an order between the two critical sections, each
\* certificate is published for the order it was signed for, once, and only of
\* an order that is ready (server.go:593-608, 652-664, 744-749).
Life == INSTANCE OrderLifecycle WITH
  status <- [o \in Orders |-> orders[o].status],
  authzs <- [o \in Orders |-> orders[o].authzs],
  cert <- [o \in Orders |-> orders[o].cert],
  proven <- {a \in Authzs : authorizations[a] = "valid"},
  published <- [s \in Serials |-> IF s \in chains THEN issued[s] ELSE NoOrder]

LifeSpec == Life!LifeSpec

(***************************************************************************)
(* The inductive invariant behind them.                                    *)
(***************************************************************************)

\* Orders and authorizations refer to each other, and only to what exists.
MapsAgree ==
  /\ \A a \in Authzs :
       /\ authorizations[a] # "absent" <=> orderAuthzMap[a] # NoOrder
       /\ orderAuthzMap[a] # NoOrder => Known(orderAuthzMap[a])
  /\ \A o \in Orders, a \in Authzs : a \in orders[o].authzs <=> orderAuthzMap[a] = o

\* A finalisation under way works on a settled order, and on a serial of its
\* own: unsigned until Sign, signed for its order from then on.
FinalisingInv ==
  \A c \in Callers :
    /\ pc[c] # "idle" => Known(order[c]) /\ orders[order[c]].status # "pending"
    /\ pc[c] \notin {"idle", "reserving"} =>
         /\ held[c] \in serials
         /\ issued[held[c]] = IF pc[c] = "signing" THEN NoOrder ELSE order[c]
         /\ \A d \in Callers \ {c} : pc[d] \notin {"idle", "reserving"} => held[d] # held[c]

IssuedIsReserved == \A s \in Serials : issued[s] # NoOrder => s \in serials

\* All of it: the two critical sections of handleFinalizeOrder fit together
\* because a reserved serial has one holder and an order never gets unready.
AcmeInv ==
  /\ TypeOK /\ MapsAgree /\ StatusFollowsAuthorizations /\ FinalisingInv
  /\ IssuedIsReserved /\ SignedIsAuthorized /\ ValidHasItsCertificate

(***************************************************************************)
(* Claims of the documentation that the code does not keep.                *)
(***************************************************************************)

\* docs/acme_server.md:9-20: in the "strict state machine" a finalisation leads
\* to the valid order and its download, so an order gets one certificate.
OneCertificatePerOrder ==
  \A s, t \in Serials : issued[s] # NoOrder /\ issued[s] = issued[t] => s = t
=============================================================================
