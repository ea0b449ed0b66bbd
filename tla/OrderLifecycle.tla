--------------------------- MODULE OrderLifecycle ---------------------------
(***************************************************************************)
(* What the ACME server promises about its orders (docs/acme_server.md):   *)
(* an order is created pending with authorizations of its own, is ready    *)
(* from the moment the last of them is valid, and gets certificates only   *)
(* from then on, each made for this order and published once.  How many    *)
(* requests work on it, and how long they take, is left open.              *)
(***************************************************************************)
CONSTANTS Orders, Authzs, Serials, NoOrder, NoSerial

VARIABLES
  status,    \* absent, pending, ready or valid
  authzs,    \* the authorizations of each order
  proven,    \* the authorizations that are valid
  cert,      \* the certificate each order points to
  published  \* the order of each certificate that can be downloaded

lifeVars == <<status, authzs, proven, cert, published>>

LifeInit ==
  /\ status = [o \in Orders |-> "absent"]
  /\ authzs = [o \in Orders |-> {}]
  /\ proven = {}
  /\ cert = [o \in Orders |-> NoSerial]
  /\ published = [s \in Serials |-> NoOrder]

Create(o, A) ==
  /\ status[o] = "absent"
  /\ A # {} /\ A \cap proven = {}
  /\ \A p \in Orders : A \cap authzs[p] = {}
  /\ status' = [status EXCEPT ![o] = "pending"]
  /\ authzs' = [authzs EXCEPT ![o] = A]
  /\ UNCHANGED <<proven, cert, published>>

Prove(o, a) ==
  /\ status[o] = "pending" /\ a \in authzs[o] \ proven
  /\ proven' = proven \cup {a}
  /\ status' = [status EXCEPT ![o] = IF authzs[o] \subseteq proven' THEN "ready" ELSE "pending"]
  /\ UNCHANGED <<authzs, cert, published>>

Certify(o, s) ==
  /\ status[o] \in {"ready", "valid"}
  /\ published[s] = NoOrder
  /\ published' = [published EXCEPT ![s] = o]
  /\ cert' = [cert EXCEPT ![o] = s]
  /\ status' = [status EXCEPT ![o] = "valid"]
  /\ UNCHANGED <<authzs, proven>>

LifeNext ==
  \E o \in Orders :
    \/ \E A \in SUBSET Authzs : Create(o, A)
    \/ \E a \in Authzs : Prove(o, a)
    \/ \E s \in Serials : Certify(o, s)

LifeSpec == LifeInit /\ [][LifeNext]_lifeVars
=============================================================================
