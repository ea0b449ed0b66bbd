---------------------------- MODULE AcmeAuthProofs ----------------------------
(***************************************************************************)
(* Theorems about nonces and accounts, for any number of requests, nonces, *)
(* keys and accounts.                                                      *)
(***************************************************************************)
EXTENDS AcmeAuth, TLAPS

NonceStates == {"unused", "live", "expired", "gone"}

\* What is known about nonces and the headers that carry them.
NoncesInv == NonceInv /\ NonceLetsOneThrough /\ NoNonceIsLost /\ HeadersAreFresh

\* What is known about accounts, in terms of the two maps.
AccountsInv == AccountMapsAgree /\ \A p \in told : accounts[p[2]] = p[1]

Work == TypeOK /\ NoncesInv /\ AccountsInv /\ CallInv

\* In maps that agree, what has been told determines key and account mutually.
LEMMA MapsDecide == TypeOK /\ AccountsInv => OneAccountPerKey
<1> SUFFICES ASSUME TypeOK, AccountsInv, NEW p \in told, NEW q \in told
             PROVE  accounts[p[2]] = p[1] /\ (p[1] = q[1] <=> p[2] = q[2])
  BY DEF OneAccountPerKey
<1>1. p[1] \in Keys /\ p[2] \in Accounts /\ q[1] \in Keys /\ q[2] \in Accounts  BY DEF TypeOK
<1>2. accounts[p[2]] = p[1] /\ accounts[q[2]] = q[1]  BY DEF AccountsInv
<1>3. accountsByThumb[KeyToJWK(p[1])] = p[2] /\ accountsByThumb[KeyToJWK(q[1])] = q[2]
  <2>1. accounts[p[2]] # NoKey /\ accounts[q[2]] # NoKey  BY <1>1, <1>2, AuthAssumption
  <2>2. QED  BY <1>1, <1>2, <2>1 DEF AccountsInv, AccountMapsAgree
<1>4. QED  BY <1>2, <1>3

\* A request with a jwk carries one of a key.
LEMMA JWKsOfRequests ==
  ASSUME NEW r \in Requests
  PROVE  /\ HasJWK(r) => r.by \in JWKs /\ JWKToKey(r.by) \in Keys
         /\ ~HasJWK(r) /\ HasKid(r) => r.by.kid \in Accounts
         /\ r.nonce \in Nonces \cup {NoNonce}
<1>1. r.by \in JWKs \cup [kid : Accounts] \cup {Nothing} /\ r.nonce \in Nonces \cup {NoNonce}
  BY DEF Requests, Presented
<1>2. CASE r.by \in JWKs
  BY <1>1, <1>2 DEF JWKs, JWKToKey, HasJWK, HasKid
<1>3. CASE r.by \in [kid : Accounts]
  BY <1>1, <1>3 DEF HasJWK, HasKid
<1>4. CASE r.by = Nothing
  BY <1>1, <1>4 DEF HasJWK, HasKid, Nothing
<1>5. QED  BY <1>1, <1>2, <1>3, <1>4

LEMMA KeyToJWKType == ASSUME NEW k \in Keys PROVE KeyToJWK(k) \in JWKs
  BY DEF KeyToJWK, JWK, JWKs

LEMMA KeyToJWKInjective ==
  ASSUME NEW k \in Keys, NEW l \in Keys, KeyToJWK(k) = KeyToJWK(l) PROVE k = l
  BY DEF KeyToJWK, JWK

LEMMA AuthInitially == Init => Work
<1> SUFFICES ASSUME Init PROVE Work
  OBVIOUS
<1>1. TypeOK  BY AuthAssumption, SMT DEF Init, TypeOK, PCs
<1>2. NoncesInv
  BY AuthAssumption, SMT DEF Init, NoncesInv, NonceInv, NonceLetsOneThrough, NoNonceIsLost, HeadersAreFresh
<1>3. AccountsInv  BY KeyToJWKType DEF Init, AccountsInv, AccountMapsAgree
<1>4. CallInv  BY DEF Init, CallInv
<1>5. QED  BY <1>1, <1>2, <1>3, <1>4 DEF Work

(***************************************************************************)
(* What making nonces for an answer of c does, over the map given.         *)
(***************************************************************************)
HeaderStep(c, map) ==
  /\ nonces' \in [Nonces -> NonceStates]
  /\ header' \in [Callers -> Nonces \cup {NoNonce}]
  /\ \A n \in Nonces : nonces'[n] = map[n] \/ (map[n] = "unused" /\ nonces'[n] = "live")
  /\ \A d \in Callers : d # c => header'[d] = header[d]
  /\ \/ header'[c] = header[c]
     \/ header'[c] \in Nonces /\ map[header'[c]] = "unused" /\ nonces'[header'[c]] = "live"

LEMMA Adds ==
  ASSUME NEW c \in Callers, NEW k, NEW map \in [Nonces -> NonceStates],
         header \in [Callers -> Nonces \cup {NoNonce}], AddNonceHeaders(c, k, map)
  PROVE  HeaderStep(c, map)
<1>1. PICK S \in SUBSET {n \in Nonces : map[n] = "unused"} :
        /\ nonces' = [n \in Nonces |-> IF n \in S THEN "live" ELSE map[n]]
        /\ header' = header \/ \E n \in S : header' = [header EXCEPT ![c] = n]
  BY DEF AddNonceHeaders
<1>2. nonces' \in [Nonces -> NonceStates]  BY <1>1 DEF NonceStates
<1>3. \A n \in Nonces : nonces'[n] = map[n] \/ (map[n] = "unused" /\ nonces'[n] = "live")
  BY <1>1
<1>4. CASE header' = header  BY <1>2, <1>3, <1>4 DEF HeaderStep
<1>5. CASE \E n \in S : header' = [header EXCEPT ![c] = n]
  BY <1>1, <1>2, <1>3, <1>5, SMT DEF HeaderStep
<1>6. QED  BY <1>1, <1>4, <1>5

LEMMA NoHeaderStep ==
  TypeOK => \A c \in Callers : UNCHANGED <<nonces, header>> => HeaderStep(c, nonces)
  BY DEF TypeOK, HeaderStep, NonceStates

\* The map after a nonce was consumed.
LEMMA Consumes ==
  ASSUME nonces \in [Nonces -> NonceStates], NEW n \in Nonces \cup {NoNonce}
  PROVE  /\ ConsumeNonce(n) \in [Nonces -> NonceStates]
         /\ \A m \in Nonces : m # n => ConsumeNonce(n)[m] = nonces[m]
         /\ n \in Nonces /\ nonces[n] \in {"live", "expired"} => ConsumeNonce(n)[n] = "gone"
         /\ n \in Nonces /\ nonces[n] \notin {"live", "expired"} => ConsumeNonce(n)[n] = nonces[n]
  BY AuthAssumption, SMT DEF ConsumeNonce, Known, NonceStates

(***************************************************************************)
(* A step of one request: it may consume the nonce it came with, which has *)
(* been sent to somebody, and makes nonces for its answer.                 *)
(***************************************************************************)
RequestStep(c, map) ==
  /\ HeaderStep(c, map)
  /\ map \in [Nonces -> NonceStates]
  /\ uses' \in [Nonces -> Nat]
  /\ \A n \in Nonces :
       \/ map[n] = nonces[n] /\ uses'[n] = uses[n]
       \/ /\ map[n] = "gone" /\ n \in sent
          /\ \/ nonces[n] = "live" /\ uses'[n] = uses[n] + 1
             \/ nonces[n] = "expired" /\ uses'[n] = uses[n]
  /\ UNCHANGED <<sent, lapsed>>
  /\ \A d \in Callers : d # c => pc'[d] = pc[d] /\ request'[d] = request[d]
  /\ pc'[c] # "idle"
  /\ pc'[c] # "answering" => request'[c].nonce \in sent \cup {NoNonce}

LEMMA NoncesAfterRequest ==
  ASSUME TypeOK, NoncesInv, NEW c \in Callers, NEW map, RequestStep(c, map)
  PROVE  NoncesInv'
<1> USE AuthAssumption
<1>0. /\ nonces \in [Nonces -> NonceStates] /\ nonces' \in [Nonces -> NonceStates]
      /\ header \in [Callers -> Nonces \cup {NoNonce}]
      /\ header' \in [Callers -> Nonces \cup {NoNonce}]
      /\ uses \in [Nonces -> Nat] /\ uses' \in [Nonces -> Nat]
      /\ sent' = sent /\ lapsed' = lapsed
  BY DEF TypeOK, NonceStates, RequestStep, HeaderStep
<1>1. \A n \in Nonces :
        /\ nonces'[n] = map[n] \/ (map[n] = "unused" /\ nonces'[n] = "live")
        /\ \/ map[n] = nonces[n] /\ uses'[n] = uses[n]
           \/ /\ map[n] = "gone" /\ n \in sent
              /\ \/ nonces[n] = "live" /\ uses'[n] = uses[n] + 1
                 \/ nonces[n] = "expired" /\ uses'[n] = uses[n]
  BY DEF RequestStep, HeaderStep
<1>2. /\ \A d \in Callers : d # c => header'[d] = header[d]
      /\ \/ header'[c] = header[c]
         \/ header'[c] \in Nonces /\ map[header'[c]] = "unused" /\ nonces'[header'[c]] = "live"
  BY DEF RequestStep, HeaderStep
<1>3. \A n \in Nonces :
        /\ nonces[n] = "unused" => n \notin sent /\ \A d \in Callers : header[d] # n
        /\ nonces[n] = "expired" => n \in lapsed
        /\ nonces[n] # "gone" => uses[n] = 0
        /\ uses[n] <= 1 /\ (uses[n] = 1 => n \in sent /\ nonces[n] = "gone")
        /\ nonces[n] = "gone" => uses[n] = 1 \/ n \in lapsed
  BY DEF NoncesInv, NonceInv, NonceLetsOneThrough, NoNonceIsLost
<1>4. \A n \in Nonces :
        /\ nonces'[n] = "unused" => n \notin sent /\ \A d \in Callers : header'[d] # n
        /\ nonces'[n] = "expired" => n \in lapsed
        /\ nonces'[n] # "gone" => uses'[n] = 0
  <2> TAKE n \in Nonces
  <2>1. nonces'[n] = "unused" => nonces[n] = "unused"  BY <1>1
  <2>2. nonces'[n] = "unused" => n \notin sent /\ \A d \in Callers : header'[d] # n
    BY <1>0, <1>2, <1>3, <2>1
  <2>3. nonces'[n] = "expired" => n \in lapsed  BY <1>1, <1>3
  <2>4. nonces'[n] # "gone" => uses'[n] = 0  BY <1>1, <1>3
  <2>5. QED  BY <2>2, <2>3, <2>4
<1>5. \A n \in Nonces :
        /\ uses'[n] <= 1 /\ (uses'[n] = 1 => n \in sent /\ nonces'[n] = "gone")
        /\ nonces'[n] = "gone" => uses'[n] = 1 \/ n \in lapsed
  BY <1>1, <1>3, SMT
<1>6. NonceInv'
  <2>1. ASSUME NEW d \in Callers
        PROVE  /\ pc'[d] \notin {"idle", "answering"} => request'[d].nonce \in sent \cup {NoNonce}
               /\ pc'[d] = "idle" => header'[d] = NoNonce
    BY <1>2, <2>1 DEF RequestStep, NoncesInv, NonceInv
  <2>2. QED  BY <1>0, <1>4, <2>1 DEF NonceInv
<1>7. HeadersAreFresh'
  <2> SUFFICES ASSUME NEW d \in Callers, header'[d] # NoNonce
               PROVE  /\ nonces'[header'[d]] = "live" \/ header'[d] \in lapsed
                      /\ uses'[header'[d]] = 0
                      /\ header'[d] \notin sent
                      /\ \A e \in Callers \ {d} : header'[e] # header'[d]
    BY <1>0 DEF HeadersAreFresh
  <2>1. header'[d] \in Nonces  BY <1>0
  <2>2. \A e \in Callers : header[e] # NoNonce =>
          /\ header[e] \in Nonces
          /\ nonces[header[e]] = "live" \/ header[e] \in lapsed
          /\ uses[header[e]] = 0
          /\ header[e] \notin sent
          /\ \A f \in Callers \ {e} : header[f] # header[e]
    BY <1>0 DEF NoncesInv, HeadersAreFresh
  <2>3. CASE header'[d] = header[d]
    <3>1. header[d] \notin sent /\ header[d] \in Nonces  BY <2>2, <2>3
    <3>2. map[header[d]] = nonces[header[d]] /\ uses'[header[d]] = uses[header[d]]
      BY <1>1, <3>1
    <3>3. nonces[header[d]] # "unused"  BY <1>3, <3>1
    <3>4. nonces'[header[d]] = nonces[header[d]]  BY <1>1, <3>1, <3>2, <3>3
    <3>5. ASSUME NEW e \in Callers \ {d}  PROVE header'[e] # header'[d]
      <4>1. header[e] # header[d]  BY <2>2, <2>3
      <4>2. CASE header'[e] = header[e]  BY <2>3, <4>1, <4>2
      <4>3. CASE header'[e] # header[e]  BY <1>2, <2>3, <3>2, <3>3, <4>3
      <4>4. QED  BY <4>2, <4>3
    <3>6. QED  BY <2>2, <2>3, <3>2, <3>4, <3>5
  <2>4. CASE header'[d] # header[d]
    <3>1. d = c /\ map[header'[d]] = "unused" /\ nonces'[header'[d]] = "live"  BY <1>2, <2>4
    <3>2. nonces[header'[d]] = "unused" /\ uses'[header'[d]] = uses[header'[d]]
      BY <1>1, <2>1, <3>1
    <3>3. header'[d] \notin sent /\ uses[header'[d]] = 0 /\ \A e \in Callers : header[e] # header'[d]
      BY <1>3, <2>1, <3>2
    <3>4. QED  BY <1>2, <3>1, <3>2, <3>3
  <2>5. QED  BY <2>3, <2>4
<1>8. QED  BY <1>0, <1>5, <1>6, <1>7 DEF NoncesInv, NonceLetsOneThrough, NoNonceIsLost

\* Each step of a request is such a step.
LEMMA WritesProblem ==
  ASSUME TypeOK, NEW c \in Callers, NEW k, writeProblem(c, k, nonces),
         UNCHANGED <<sent, uses, lapsed>>
  PROVE  RequestStep(c, nonces)
<1>1. nonces \in [Nonces -> NonceStates] /\ header \in [Callers -> Nonces \cup {NoNonce}]
  BY DEF TypeOK, NonceStates
<1>2. HeaderStep(c, nonces)  BY <1>1, Adds DEF writeProblem
<1>3. QED  BY <1>1, <1>2 DEF RequestStep, writeProblem, Finish, Proceed, TypeOK

LEMMA ReceiveStep ==
  ASSUME Work, NEW c \in Callers, NEW r \in Requests, Receive(c, r)
  PROVE  RequestStep(c, nonces)
<1>1. nonces \in [Nonces -> NonceStates] /\ header \in [Callers -> Nonces \cup {NoNonce}]
  BY DEF Work, TypeOK, NonceStates
<1>2. HeaderStep(c, nonces)  BY <1>1, Adds DEF Receive
<1>3. QED  BY <1>1, <1>2 DEF RequestStep, Receive, Proceed, Work, TypeOK

LEMMA DecodeStep ==
  ASSUME Work, NEW c \in Callers, Decode(c)
  PROVE  RequestStep(c, nonces)
<1>1. CASE writeProblem(c, 1, nonces)  BY <1>1, WritesProblem DEF Decode, Work
<1>2. CASE Proceed(c, "verified") /\ UNCHANGED <<nonces, header, request>>
  <2>1. HeaderStep(c, nonces)  BY <1>2, NoHeaderStep DEF Work
  <2>2. request[c].nonce \in sent \cup {NoNonce}
    BY DEF Decode, Work, NoncesInv, NonceInv
  <2>3. QED  BY <1>2, <2>1, <2>2 DEF Decode, RequestStep, Proceed, Work, TypeOK, NonceStates
<1>3. QED  BY <1>1, <1>2 DEF Decode

LEMMA CheckStep ==
  ASSUME Work, NEW c \in Callers, CheckNonce(c)
  PROVE  RequestStep(c, ConsumeNonce(request[c].nonce))
<1> DEFINE n == request[c].nonce
           map == ConsumeNonce(n)
<1> USE AuthAssumption
<1>1. /\ nonces \in [Nonces -> NonceStates] /\ header \in [Callers -> Nonces \cup {NoNonce}]
      /\ sent \subseteq Nonces /\ uses \in [Nonces -> Nat]
  BY DEF Work, TypeOK, NonceStates
<1>2. n \in sent \cup {NoNonce}  BY DEF CheckNonce, Work, NoncesInv, NonceInv
<1>3. n \in Nonces \cup {NoNonce}  BY <1>1, <1>2
<1>4. /\ map \in [Nonces -> NonceStates]
      /\ \A m \in Nonces : m # n => map[m] = nonces[m]
      /\ n \in Nonces /\ nonces[n] \in {"live", "expired"} => map[n] = "gone"
      /\ n \in Nonces /\ nonces[n] \notin {"live", "expired"} => map[n] = nonces[n]
  <2> HIDE DEF n
  <2>1. QED  BY <1>1, <1>3, Consumes
<1>5. HeaderStep(c, map)
  <2>1. \E k : AddNonceHeaders(c, k, map)  BY DEF CheckNonce, writeProblem
  <2> HIDE DEF n, map
  <2>2. QED  BY <1>1, <1>4, <2>1, Adds
<1>6. /\ UNCHANGED <<sent, lapsed>>
      /\ \A d \in Callers : d # c => pc'[d] = pc[d] /\ request'[d] = request[d]
      /\ pc'[c] # "idle"
      /\ pc'[c] # "answering" => request'[c].nonce \in sent \cup {NoNonce}
  BY <1>2 DEF CheckNonce, writeProblem, Finish, Proceed, Work, TypeOK
<1>7. CASE Accepted(n) /\ uses' = [uses EXCEPT ![n] = @ + 1]
  <2>1. n \in sent /\ n \in Nonces /\ nonces[n] = "live"  BY <1>1, <1>2, <1>7 DEF Accepted
  <2>2. uses' \in [Nonces -> Nat] /\ uses'[n] = uses[n] + 1
          /\ \A m \in Nonces : m # n => uses'[m] = uses[m]
    <3> HIDE DEF n
    <3>1. QED  BY <1>1, <1>7, <2>1
  <2> HIDE DEF n, map
  <2>3. QED  BY <1>4, <1>5, <1>6, <2>1, <2>2 DEF RequestStep, n, map
<1>8. CASE ~Accepted(n) /\ uses' = uses
  <2>1. n \in Nonces => nonces[n] # "live"  BY <1>8 DEF Accepted
  <2> HIDE DEF map
  <2>2. ASSUME NEW m \in Nonces
        PROVE  \/ map[m] = nonces[m] /\ uses'[m] = uses[m]
               \/ /\ map[m] = "gone" /\ m \in sent
                  /\ nonces[m] = "expired" /\ uses'[m] = uses[m]
    BY <1>1, <1>2, <1>4, <1>8, <2>1
  <2>3. QED  BY <1>1, <1>4, <1>5, <1>6, <1>8, <2>2 DEF RequestStep, map
<1>9. QED  BY <1>7, <1>8 DEF CheckNonce

LEMMA ActingStep ==
  ASSUME Work, NEW c \in Callers, NewAccount(c) \/ Problem(c) \/ Other(c)
  PROVE  RequestStep(c, nonces)
<1>1. UNCHANGED <<sent, uses, lapsed>>  BY DEF NewAccount, Problem, Other
<1>2. CASE writeProblem(c, 1, nonces)  BY <1>1, <1>2, WritesProblem DEF Work
<1>3. CASE Finish(c) /\ UNCHANGED <<nonces, header>>
  <2>1. HeaderStep(c, nonces)  BY <1>3, NoHeaderStep DEF Work
  <2>2. QED  BY <1>1, <1>3, <2>1 DEF RequestStep, Finish, Proceed, Work, TypeOK, NonceStates
<1>4. QED  BY <1>2, <1>3 DEF NewAccount, Problem, Other

(***************************************************************************)
(* The steps that are not of a request being worked on.                    *)
(***************************************************************************)
LEMMA NoncesAfterOthers ==
  ASSUME Work, NEW n \in Nonces, Expire(n) \/ NewNonce(n) \/ Cleanup
  PROVE  NoncesInv'
<1> USE AuthAssumption
<1>1. TypeOK /\ NonceInv /\ NonceLetsOneThrough /\ NoNonceIsLost /\ HeadersAreFresh
  BY DEF Work, NoncesInv
<1>2. CASE Expire(n)
  <2>1. NonceInv'
    BY <1>1, <1>2 DEF Expire, callVars, accountVars, NonceInv, TypeOK
  <2>2. NonceLetsOneThrough'
    BY <1>1, <1>2 DEF Expire, callVars, accountVars, NonceLetsOneThrough, TypeOK
  <2>3. NoNonceIsLost'
    BY <1>1, <1>2 DEF Expire, callVars, accountVars, NoNonceIsLost, TypeOK
  <2>4. HeadersAreFresh'
    BY <1>1, <1>2 DEF Expire, callVars, accountVars, HeadersAreFresh, TypeOK
  <2>5. QED  BY <2>1, <2>2, <2>3, <2>4 DEF NoncesInv
<1>3. CASE NewNonce(n)
  <2>1. NonceInv'
    BY <1>1, <1>3 DEF NewNonce, callVars, accountVars, NonceInv, TypeOK
  <2>2. NonceLetsOneThrough'
    BY <1>1, <1>3 DEF NewNonce, callVars, accountVars, NonceLetsOneThrough, TypeOK
  <2>3. NoNonceIsLost'
    BY <1>1, <1>3 DEF NewNonce, callVars, accountVars, NoNonceIsLost, TypeOK
  <2>4. HeadersAreFresh'
    BY <1>1, <1>3 DEF NewNonce, callVars, accountVars, HeadersAreFresh, TypeOK, NonceInv
  <2>5. QED  BY <2>1, <2>2, <2>3, <2>4 DEF NoncesInv
<1>4. CASE Cleanup
  <2>1. NonceInv'
    BY <1>1, <1>4 DEF Cleanup, callVars, accountVars, NonceInv, TypeOK
  <2>2. NonceLetsOneThrough'
    BY <1>1, <1>4 DEF Cleanup, callVars, accountVars, NonceLetsOneThrough, TypeOK
  <2>3. NoNonceIsLost'
    BY <1>1, <1>4 DEF Cleanup, callVars, accountVars, NoNonceIsLost, NonceInv, TypeOK
  <2>4. HeadersAreFresh'
    BY <1>1, <1>4 DEF Cleanup, callVars, accountVars, HeadersAreFresh, TypeOK
  <2>5. QED  BY <2>1, <2>2, <2>3, <2>4 DEF NoncesInv
<1>5. QED  BY <1>2, <1>3, <1>4

LEMMA NoncesAfterAnswer ==
  ASSUME Work, NEW c \in Callers, Answer(c)
  PROVE  NoncesInv'
<1> USE AuthAssumption
<1>1. TypeOK /\ NonceInv /\ NonceLetsOneThrough /\ NoNonceIsLost /\ HeadersAreFresh
  BY DEF Work, NoncesInv
<1>2. NonceInv'
  <2>1. ASSUME NEW m \in Nonces, nonces'[m] = "unused"
        PROVE  m \notin sent' /\ \A d \in Callers : header'[d] # m
    <3>1. m \notin sent /\ \A d \in Callers : header[d] # m
      BY <1>1, <2>1 DEF Answer, NonceInv
    <3>2. QED  BY <1>1, <3>1 DEF Answer, TypeOK
  <2>2. \A m \in Nonces : /\ nonces'[m] = "expired" => m \in lapsed'
                          /\ nonces'[m] # "gone" => uses'[m] = 0
    BY <1>1 DEF Answer, NonceInv
  <2>3. ASSUME NEW d \in Callers
        PROVE  /\ pc'[d] \notin {"idle", "answering"} => request'[d].nonce \in sent' \cup {NoNonce}
               /\ pc'[d] = "idle" => header'[d] = NoNonce
    BY <1>1 DEF Answer, Proceed, NonceInv, TypeOK
  <2>4. QED  BY <2>1, <2>2, <2>3 DEF NonceInv
<1>3. NonceLetsOneThrough'  BY <1>1 DEF Answer, NonceLetsOneThrough
<1>4. NoNonceIsLost'  BY <1>1 DEF Answer, NoNonceIsLost
<1>5. HeadersAreFresh'
  <2> SUFFICES ASSUME NEW d \in Callers, header'[d] # NoNonce
               PROVE  /\ nonces'[header'[d]] = "live" \/ header'[d] \in lapsed'
                      /\ uses'[header'[d]] = 0
                      /\ header'[d] \notin sent'
                      /\ \A e \in Callers \ {d} : header'[e] # header'[d]
    BY DEF HeadersAreFresh
  <2>1. d # c /\ header'[d] = header[d]  BY <1>1 DEF Answer, TypeOK
  <2>2. /\ nonces[header[d]] = "live" \/ header[d] \in lapsed
        /\ uses[header[d]] = 0
        /\ header[d] \notin sent
        /\ \A e \in Callers \ {d} : header[e] # header[d]
    BY <1>1, <2>1 DEF HeadersAreFresh
  <2>3. header'[d] \notin sent'  BY <2>1, <2>2 DEF Answer
  <2>4. \A e \in Callers \ {d} : header'[e] # header'[d]
    BY <1>1, <2>1, <2>2 DEF Answer, TypeOK
  <2>5. QED  BY <2>1, <2>2, <2>3, <2>4 DEF Answer
<1>6. QED  BY <1>2, <1>3, <1>4, <1>5 DEF NoncesInv

(***************************************************************************)
(* Types, accounts and the keys of the calls.                              *)
(***************************************************************************)
LEMMA RequestKeepsTypes ==
  ASSUME TypeOK, NEW c \in Callers, NEW map, RequestStep(c, map),
         accounts' \in [Accounts -> Keys \cup {NoKey}],
         accountsByThumb' \in [JWKs -> Accounts \cup {NoAccount}],
         NEW l \in PCs, pc' = [pc EXCEPT ![c] = l],
         DOMAIN request' = Callers,
         l \notin {"idle", "answering"} => request'[c] \in Requests,
         NEW k \in Keys \cup {NoKey}, key' = [key EXCEPT ![c] = k],
         l \in {"verified", "acting"} => k \in Keys,
         told' \in SUBSET (Keys \X Accounts)
  PROVE  TypeOK'
<1>1. /\ nonces' \in [Nonces -> {"unused", "live", "expired", "gone"}]
      /\ header' \in [Callers -> Nonces \cup {NoNonce}]
      /\ sent' \in SUBSET Nonces /\ lapsed' \in SUBSET Nonces /\ uses' \in [Nonces -> Nat]
  BY DEF TypeOK, RequestStep, HeaderStep, NonceStates
<1>2. pc' \in [Callers -> PCs] /\ key' \in [Callers -> Keys \cup {NoKey}]
  BY DEF TypeOK, PCs
<1>3. ASSUME NEW d \in Callers
      PROVE  /\ pc'[d] \notin {"idle", "answering"} => request'[d] \in Requests
             /\ pc'[d] \in {"verified", "acting"} => key'[d] \in Keys
  BY DEF TypeOK, RequestStep
<1>4. QED  BY <1>1, <1>2, <1>3 DEF TypeOK

\* While the maps of the accounts stay, what is known of them does.
LEMMA AccountsStay ==
  ASSUME AccountsInv, UNCHANGED accountVars, UNCHANGED told
  PROVE  AccountsInv'
  BY DEF AccountsInv, AccountMapsAgree, accountVars

LEMMA ReceiveKeeps ==
  ASSUME Work, NEW c \in Callers, NEW r \in Requests, Receive(c, r)
  PROVE  Work'
<1>1. RequestStep(c, nonces)  BY ReceiveStep
<1>2. TypeOK /\ NoncesInv /\ AccountsInv /\ CallInv  BY DEF Work
<1>3. NoncesInv'  BY <1>1, <1>2, NoncesAfterRequest
<1>4. AccountsInv'  BY <1>2, AccountsStay DEF Receive, accountVars
<1>5. TypeOK'
  <2>1. key[c] \in Keys \cup {NoKey} /\ key' = [key EXCEPT ![c] = key[c]]
    BY <1>2 DEF Receive, TypeOK
  <2>2. "decoding" \in PCs /\ pc' = [pc EXCEPT ![c] = "decoding"]  BY DEF Receive, Proceed, PCs
  <2>3. DOMAIN request' = Callers /\ request'[c] \in Requests  BY <1>2 DEF Receive, TypeOK
  <2>4. /\ accounts' \in [Accounts -> Keys \cup {NoKey}]
        /\ accountsByThumb' \in [JWKs -> Accounts \cup {NoAccount}]
        /\ told' \in SUBSET (Keys \X Accounts)
    BY <1>2 DEF Receive, accountVars, TypeOK
  <2>5. QED  BY <1>1, <1>2, <2>1, <2>2, <2>3, <2>4, RequestKeepsTypes
<1>6. CallInv'  BY <1>2 DEF Receive, Proceed, CallInv, TypeOK
<1>7. QED  BY <1>3, <1>4, <1>5, <1>6 DEF Work

LEMMA DecodeKeeps ==
  ASSUME Work, NEW c \in Callers, Decode(c)
  PROVE  Work'
<1> USE AuthAssumption
<1>1. RequestStep(c, nonces)  BY DecodeStep
<1>2. TypeOK /\ NoncesInv /\ AccountsInv /\ CallInv  BY DEF Work
<1>3. NoncesInv'  BY <1>1, <1>2, NoncesAfterRequest
<1>4. AccountsInv'  BY <1>2, AccountsStay DEF Decode, accountVars
<1>5. /\ accounts' \in [Accounts -> Keys \cup {NoKey}]
      /\ accountsByThumb' \in [JWKs -> Accounts \cup {NoAccount}]
      /\ told' \in SUBSET (Keys \X Accounts)
  BY <1>2 DEF Decode, accountVars, TypeOK
<1>6. request[c] \in Requests  BY <1>2 DEF Decode, TypeOK
<1>7. CASE /\ ResolvedKey(request[c]) # NoKey /\ Proceed(c, "verified")
           /\ key' = [key EXCEPT ![c] = ResolvedKey(request[c])]
           /\ UNCHANGED <<nonces, header, request>>
  <2>1. PICK k : k = ResolvedKey(request[c])  OBVIOUS
  <2>2. k \in Keys
    <3>1. PICK r \in Requests : r = request[c]  BY <1>6
    <3>2. k = IF HasJWK(r) THEN JWKToKey(r.by) ELSE IF HasKid(r) THEN accounts[r.by.kid] ELSE NoKey
      BY <2>1, <3>1 DEF ResolvedKey
    <3>3. k # NoKey  BY <1>7, <2>1
    <3>4. /\ HasJWK(r) => JWKToKey(r.by) \in Keys
          /\ ~HasJWK(r) /\ HasKid(r) => r.by.kid \in Accounts
      BY JWKsOfRequests
    <3>5. accounts \in [Accounts -> Keys \cup {NoKey}]  BY <1>2 DEF TypeOK
    <3>6. QED  BY <3>2, <3>3, <3>4, <3>5
  <2>3. pc' = [pc EXCEPT ![c] = "verified"] /\ "verified" \in PCs
          /\ key' = [key EXCEPT ![c] = k] /\ DOMAIN request' = Callers /\ request'[c] \in Requests
    BY <1>2, <1>6, <1>7, <2>1 DEF Proceed, PCs, TypeOK
  <2>4. TypeOK'  BY <1>1, <1>2, <1>5, <2>2, <2>3, RequestKeepsTypes
  <2>5. HasJWK(request[c]) => k = JWKToKey(request[c].by)  BY <2>1 DEF ResolvedKey
  <2>6. CallInv'
    <3>1. ASSUME NEW d \in Callers, pc'[d] \in {"verified", "acting"}, HasJWK(request[d])
          PROVE  key'[d] = JWKToKey(request[d].by)
      <4>1. CASE d = c  BY <1>2, <2>3, <2>5, <3>1, <4>1 DEF TypeOK
      <4>2. CASE d # c  BY <1>2, <2>3, <3>1, <4>2 DEF TypeOK, CallInv
      <4>3. QED  BY <4>1, <4>2
    <3>2. QED  BY <1>7, <3>1 DEF CallInv, HasJWK
  <2>7. QED  BY <1>3, <1>4, <2>4, <2>6 DEF Work
<1>8. CASE Finish(c)
  <2>1. pc' = [pc EXCEPT ![c] = "answering"] /\ "answering" \in PCs
          /\ key' = [key EXCEPT ![c] = NoKey] /\ DOMAIN request' = Callers
    BY <1>2, <1>8 DEF Finish, Proceed, PCs, TypeOK
  <2>2. TypeOK'  BY <1>1, <1>2, <1>5, <2>1, RequestKeepsTypes
  <2>3. CallInv'  BY <1>2, <1>8 DEF Finish, Proceed, CallInv, TypeOK, HasJWK
  <2>4. QED  BY <1>3, <1>4, <2>2, <2>3 DEF Work
<1>9. QED  BY <1>7, <1>8 DEF Decode, writeProblem

LEMMA CheckKeeps ==
  ASSUME Work, NEW c \in Callers, CheckNonce(c)
  PROVE  Work'
<1> USE AuthAssumption
<1>1. PICK map : RequestStep(c, map)  BY CheckStep
<1>2. TypeOK /\ NoncesInv /\ AccountsInv /\ CallInv  BY DEF Work
<1>3. NoncesInv'  BY <1>1, <1>2, NoncesAfterRequest
<1>4. AccountsInv'  BY <1>2, AccountsStay DEF CheckNonce, accountVars
<1>5. /\ accounts' \in [Accounts -> Keys \cup {NoKey}]
      /\ accountsByThumb' \in [JWKs -> Accounts \cup {NoAccount}]
      /\ told' \in SUBSET (Keys \X Accounts)
  BY <1>2 DEF CheckNonce, accountVars, TypeOK
<1>6. CASE Proceed(c, "acting") /\ UNCHANGED <<request, key>>
  <2>1. key[c] \in Keys /\ key' = [key EXCEPT ![c] = key[c]]
    BY <1>2, <1>6 DEF CheckNonce, TypeOK
  <2>2. pc' = [pc EXCEPT ![c] = "acting"] /\ "acting" \in PCs
          /\ DOMAIN request' = Callers /\ request'[c] \in Requests
    BY <1>2, <1>6 DEF CheckNonce, Proceed, PCs, TypeOK
  <2>3. TypeOK'  BY <1>1, <1>2, <1>5, <2>1, <2>2, RequestKeepsTypes
  <2>4. CallInv'  BY <1>2, <1>6 DEF CheckNonce, Proceed, CallInv, TypeOK, HasJWK
  <2>5. QED  BY <1>3, <1>4, <2>3, <2>4 DEF Work
<1>7. CASE Finish(c)
  <2>1. pc' = [pc EXCEPT ![c] = "answering"] /\ "answering" \in PCs
          /\ key' = [key EXCEPT ![c] = NoKey] /\ DOMAIN request' = Callers
    BY <1>2, <1>7 DEF Finish, Proceed, PCs, TypeOK
  <2>2. TypeOK'  BY <1>1, <1>2, <1>5, <2>1, RequestKeepsTypes
  <2>3. CallInv'  BY <1>2, <1>7 DEF Finish, Proceed, CallInv, TypeOK, HasJWK
  <2>4. QED  BY <1>3, <1>4, <2>2, <2>3 DEF Work
<1>8. QED  BY <1>6, <1>7 DEF CheckNonce, writeProblem

\* What the making of an account does to the two maps.
LEMMA AccountIsMade ==
  ASSUME TypeOK, AccountsInv, NEW k \in Keys, NEW a \in Accounts,
         accounts[a] = NoKey, accountsByThumb[KeyToJWK(k)] = NoAccount,
         accounts' = [accounts EXCEPT ![a] = k],
         accountsByThumb' = [accountsByThumb EXCEPT ![KeyToJWK(k)] = a],
         told' = told \cup {<<k, a>>}
  PROVE  AccountsInv'
<1> USE AuthAssumption
<1>1. accounts \in [Accounts -> Keys \cup {NoKey}] /\ accountsByThumb \in [JWKs -> Accounts \cup {NoAccount}]
  BY DEF TypeOK
<1>2. \A l \in Keys : KeyToJWK(l) \in JWKs /\ (KeyToJWK(l) = KeyToJWK(k) => l = k)
  BY KeyToJWKType, KeyToJWKInjective
<1>3. /\ \A b \in Accounts : accounts[b] # NoKey => accountsByThumb[KeyToJWK(accounts[b])] = b
      /\ \A l \in Keys : accountsByThumb[KeyToJWK(l)] # NoAccount => accounts[accountsByThumb[KeyToJWK(l)]] = l
  BY DEF AccountsInv, AccountMapsAgree
<1>4. ASSUME NEW b \in Accounts, accounts'[b] # NoKey
      PROVE  accountsByThumb'[KeyToJWK(accounts'[b])] = b
  <2>1. CASE b = a  BY <1>1, <1>2, <2>1
  <2>2. CASE b # a
    <3>1. accounts'[b] = accounts[b] /\ accounts[b] \in Keys  BY <1>1, <1>4, <2>2
    <3>2. accounts[b] # k  BY <1>3, <3>1
    <3>3. KeyToJWK(accounts[b]) # KeyToJWK(k)  BY <1>2, <3>1, <3>2
    <3>4. QED  BY <1>1, <1>2, <1>3, <3>1, <3>3
  <2>3. QED  BY <2>1, <2>2
<1>5. ASSUME NEW l \in Keys, accountsByThumb'[KeyToJWK(l)] # NoAccount
      PROVE  accounts'[accountsByThumb'[KeyToJWK(l)]] = l
  <2>1. CASE l = k  BY <1>1, <1>2, <2>1
  <2>2. CASE l # k
    <3>1. accountsByThumb'[KeyToJWK(l)] = accountsByThumb[KeyToJWK(l)]  BY <1>1, <1>2, <2>2
    <3>2. accounts[accountsByThumb[KeyToJWK(l)]] = l  BY <1>3, <1>5, <3>1
    <3>3. accountsByThumb[KeyToJWK(l)] # a  BY <3>2
    <3>4. QED  BY <1>1, <1>2, <1>5, <3>1, <3>2, <3>3
  <2>3. QED  BY <2>1, <2>2
<1>6. ASSUME NEW p \in told'  PROVE accounts'[p[2]] = p[1]
  <2>1. CASE p = <<k, a>>  BY <1>1, <2>1
  <2>2. CASE p \in told
    <3>1. accounts[p[2]] = p[1] /\ p[1] \in Keys /\ p[2] \in Accounts
      BY <2>2 DEF AccountsInv, TypeOK
    <3>2. QED  BY <1>1, <3>1
  <2>3. QED  BY <1>6, <2>1, <2>2
<1>7. QED  BY <1>4, <1>5, <1>6 DEF AccountsInv, AccountMapsAgree

LEMMA ActingKeeps ==
  ASSUME Work, NEW c \in Callers, NewAccount(c) \/ Problem(c) \/ Other(c)
  PROVE  Work'
<1> USE AuthAssumption
<1>1. RequestStep(c, nonces)  BY ActingStep
<1>2. TypeOK /\ NoncesInv /\ AccountsInv /\ CallInv  BY DEF Work
<1>3. NoncesInv'  BY <1>1, <1>2, NoncesAfterRequest
<1>4. Finish(c)  BY DEF NewAccount, Problem, Other, writeProblem
<1>5. pc' = [pc EXCEPT ![c] = "answering"] /\ "answering" \in PCs
        /\ key' = [key EXCEPT ![c] = NoKey] /\ DOMAIN request' = Callers
  BY <1>2, <1>4 DEF Finish, Proceed, PCs, TypeOK
<1>6. CallInv'  BY <1>2, <1>4 DEF Finish, Proceed, CallInv, TypeOK, HasJWK
<1>7. /\ accounts' \in [Accounts -> Keys \cup {NoKey}]
      /\ accountsByThumb' \in [JWKs -> Accounts \cup {NoAccount}]
      /\ told' \in SUBSET (Keys \X Accounts)
      /\ AccountsInv'
  <2>1. CASE UNCHANGED <<accountVars, told>>
    <3>1. UNCHANGED accountVars /\ UNCHANGED told  BY <2>1
    <3>2. QED  BY <1>2, <3>1, AccountsStay DEF accountVars, TypeOK
  <2>2. CASE NewAccount(c) /\ ~UNCHANGED <<accountVars, told>>
    <3>1. PICK r \in Requests : r = request[c]  BY <1>2, <2>2 DEF NewAccount, TypeOK
    <3>2. PICK k \in Keys : k = key[c]  BY <1>2, <2>2 DEF NewAccount, TypeOK
    <3>3. HasJWK(r) /\ k = JWKToKey(r.by)  BY <1>2, <2>2, <3>1, <3>2 DEF NewAccount, CallInv
    <3>4. ComputeJWKThumbprint(request[c]) = KeyToJWK(k)  BY <3>1, <3>3 DEF ComputeJWKThumbprint
    <3>5. KeyToJWK(k) \in JWKs  BY KeyToJWKType
    <3>6. accounts \in [Accounts -> Keys \cup {NoKey}] /\ accountsByThumb \in [JWKs -> Accounts \cup {NoAccount}]
            /\ told \in SUBSET (Keys \X Accounts)
      BY <1>2 DEF TypeOK
    <3>7. PICK t : t = KeyToJWK(k)  OBVIOUS
    <3>8. \/ /\ accountsByThumb[t] # NoAccount
             /\ told' = told \cup {<<k, accountsByThumb[t]>>}
             /\ UNCHANGED accountVars
          \/ /\ accountsByThumb[t] = NoAccount
             /\ \E a \in Accounts :
                  /\ accounts[a] = NoKey
                  /\ accounts' = [accounts EXCEPT ![a] = k]
                  /\ accountsByThumb' = [accountsByThumb EXCEPT ![t] = a]
                  /\ told' = told \cup {<<k, a>>}
      BY <2>2, <3>2, <3>4, <3>7 DEF NewAccount
    <3>9. CASE /\ accountsByThumb[t] # NoAccount
               /\ told' = told \cup {<<k, accountsByThumb[t]>>}
               /\ UNCHANGED accountVars
      <4>1. accounts' = accounts /\ accountsByThumb' = accountsByThumb  BY <3>9 DEF accountVars
      <4>2. accountsByThumb[t] \in Accounts  BY <3>5, <3>6, <3>7, <3>9
      <4>3. accounts[accountsByThumb[t]] = k  BY <1>2, <3>7, <3>9 DEF AccountsInv, AccountMapsAgree
      <4>4. AccountsInv'
        BY <1>2, <3>9, <4>1, <4>3 DEF AccountsInv, AccountMapsAgree
      <4>5. QED  BY <3>6, <3>9, <4>1, <4>2, <4>4
    <3>10. ASSUME NEW a \in Accounts, accounts[a] = NoKey, accountsByThumb[t] = NoAccount,
                  accounts' = [accounts EXCEPT ![a] = k],
                  accountsByThumb' = [accountsByThumb EXCEPT ![t] = a],
                  told' = told \cup {<<k, a>>}
           PROVE  /\ accounts' \in [Accounts -> Keys \cup {NoKey}]
                  /\ accountsByThumb' \in [JWKs -> Accounts \cup {NoAccount}]
                  /\ told' \in SUBSET (Keys \X Accounts)
                  /\ AccountsInv'
      <4>1. AccountsInv'  BY <1>2, <3>7, <3>10, AccountIsMade
      <4>2. accounts' \in [Accounts -> Keys \cup {NoKey}]  BY <3>6, <3>10
      <4>3. accountsByThumb' \in [JWKs -> Accounts \cup {NoAccount}]  BY <3>6, <3>10
      <4>4. told' \in SUBSET (Keys \X Accounts)  BY <3>6, <3>10
      <4>5. QED  BY <4>1, <4>2, <4>3, <4>4
    <3>11. QED  BY <3>8, <3>9, <3>10
  <2>3. QED  BY <2>1, <2>2 DEF NewAccount, Problem, Other
<1>8. TypeOK'  BY <1>1, <1>2, <1>5, <1>7, RequestKeepsTypes
<1>9. QED  BY <1>3, <1>6, <1>7, <1>8 DEF Work

LEMMA OthersKeep ==
  ASSUME Work, NEW n \in Nonces, Expire(n) \/ NewNonce(n) \/ Cleanup
  PROVE  Work'
<1>1. TypeOK /\ AccountsInv /\ CallInv  BY DEF Work
<1>2. NoncesInv'  BY NoncesAfterOthers
<1>3. UNCHANGED <<accounts, accountsByThumb, told, pc, request, key, header, uses>>
  BY DEF Expire, NewNonce, Cleanup, accountVars, callVars
<1>4. AccountsInv'  BY <1>1, <1>3, AccountsStay DEF accountVars
<1>5. CallInv'  BY <1>1, <1>3 DEF CallInv, HasJWK
<1>6. /\ nonces' \in [Nonces -> {"unused", "live", "expired", "gone"}]
      /\ sent' \in SUBSET Nonces /\ lapsed' \in SUBSET Nonces
  BY <1>1 DEF Expire, NewNonce, Cleanup, TypeOK
<1>7. TypeOK'  BY <1>1, <1>3, <1>6 DEF TypeOK
<1>8. QED  BY <1>2, <1>4, <1>5, <1>7 DEF Work

LEMMA AnswerKeeps ==
  ASSUME Work, NEW c \in Callers, Answer(c)
  PROVE  Work'
<1> USE AuthAssumption
<1>1. TypeOK /\ AccountsInv /\ CallInv  BY DEF Work
<1>2. NoncesInv'  BY NoncesAfterAnswer
<1>3. AccountsInv'  BY <1>1, AccountsStay DEF Answer, accountVars
<1>4. CallInv'  BY <1>1 DEF Answer, Proceed, CallInv, HasJWK, TypeOK
<1>5. /\ pc' \in [Callers -> PCs] /\ header' \in [Callers -> Nonces \cup {NoNonce}]
      /\ sent' \in SUBSET Nonces
  BY <1>1 DEF Answer, Proceed, TypeOK, PCs
<1>6. \A d \in Callers : pc'[d] = pc[d] \/ pc'[d] = "idle"  BY <1>1 DEF Answer, Proceed, TypeOK
<1>7. UNCHANGED <<nonces, accounts, accountsByThumb, request, key, told, uses, lapsed>>
  BY DEF Answer, accountVars
<1>8. TypeOK'  BY <1>1, <1>5, <1>6, <1>7 DEF TypeOK
<1>9. QED  BY <1>2, <1>3, <1>4, <1>8 DEF Work

LEMMA AuthStep == Work /\ [Next]_vars => Work'
<1> SUFFICES ASSUME Work, [Next]_vars PROVE Work'
  OBVIOUS
<1>1. CASE \E n \in Nonces : Expire(n) \/ NewNonce(n)  BY <1>1, OthersKeep
<1>2. CASE Cleanup
  <2>1. \E n \in Nonces : nonces[n] = "expired"  BY <1>2 DEF Cleanup
  <2>2. QED  BY <1>2, <2>1, OthersKeep
<1>3. CASE \E c \in Callers, r \in Requests : Receive(c, r)  BY <1>3, ReceiveKeeps
<1>4. CASE \E c \in Callers : Decode(c)  BY <1>4, DecodeKeeps
<1>5. CASE \E c \in Callers : CheckNonce(c)  BY <1>5, CheckKeeps
<1>6. CASE \E c \in Callers : NewAccount(c) \/ Problem(c) \/ Other(c)  BY <1>6, ActingKeeps
<1>7. CASE \E c \in Callers : Answer(c)  BY <1>7, AnswerKeeps
<1>8. CASE UNCHANGED vars
  <2>1. UNCHANGED <<nonces, accounts, accountsByThumb, pc, request, key, header, sent, told, uses, lapsed>>
    BY <1>8 DEF vars, accountVars, callVars
  <2>2. TypeOK'  BY <2>1 DEF Work, TypeOK
  <2>3. NoncesInv'
    BY <2>1 DEF Work, NoncesInv, NonceInv, NonceLetsOneThrough, NoNonceIsLost, HeadersAreFresh
  <2>4. AccountsInv'  BY <2>1, AccountsStay DEF Work, accountVars
  <2>5. CallInv'  BY <2>1 DEF Work, CallInv, HasJWK
  <2>6. QED  BY <2>2, <2>3, <2>4, <2>5 DEF Work
<1>9. QED  BY <1>1, <1>2, <1>3, <1>4, <1>5, <1>6, <1>7, <1>8 DEF Next

(***************************************************************************)
(* The theorems.                                                           *)
(***************************************************************************)

\* The inductive invariant of nonces and accounts, for any number of concurrent
\* requests (nonce.go, verifyJWS and handleNewAccount of server.go).
THEOREM AuthInvariant == Spec => []AuthInv
<1>1. Spec => []Work  BY AuthInitially, AuthStep, PTL DEF Spec
<1>2. Work => AuthInv
  BY MapsDecide DEF Work, NoncesInv, AccountsInv, AuthInv
<1>3. QED  BY <1>1, <1>2, PTL

\* TypeOK: types, and a request past the decoding has a key (jws.go).
THEOREM AuthTypeCorrect == Spec => []TypeOK
<1>1. AuthInv => TypeOK  BY DEF AuthInv
<1>2. QED  BY <1>1, AuthInvariant, PTL

\* NonceLetsOneThrough: a nonce lets at most one request through, of however many
\* that carry it at the same time (ValidateAndConsumeNonce, nonce.go:44-62).
THEOREM NoncesAreSingleUse == Spec => []NonceLetsOneThrough
<1>1. AuthInv => NonceLetsOneThrough  BY DEF AuthInv
<1>2. QED  BY <1>1, AuthInvariant, PTL

\* NoNonceIsLost: a request that is refused takes no nonce from another
\* (server.go:198-213).
THEOREM RefusalsTakeNoNonce == Spec => []NoNonceIsLost
<1>1. AuthInv => NoNonceIsLost  BY DEF AuthInv
<1>2. QED  BY <1>1, AuthInvariant, PTL

\* HeadersAreFresh: the nonce an answer carries has gone to nobody else
\* (addNonceHeader, server.go:163-167).
THEOREM AnswersCarryFreshNonces == Spec => []HeadersAreFresh
<1>1. AuthInv => HeadersAreFresh  BY DEF AuthInv
<1>2. QED  BY <1>1, AuthInvariant, PTL

\* OneAccountPerKey: concurrent newAccount requests for one key, in whichever
\* encoding, name one account (handleNewAccount, server.go:353-389).
THEOREM AccountsAreOnePerKey == Spec => []OneAccountPerKey
<1>1. AuthInv => OneAccountPerKey  BY DEF AuthInv
<1>2. QED  BY <1>1, AuthInvariant, PTL
(***************************************************************************)
(* The refinement of RequestGate.                                          *)
(***************************************************************************)
LEMMA WorkInvariant == Spec => []Work
  BY AuthInitially, AuthStep, PTL DEF Spec

LEMMA LiveStep == Work /\ LiveIsNotLapsed /\ [Next]_vars => LiveIsNotLapsed'
<1> SUFFICES ASSUME Work, LiveIsNotLapsed, [Next]_vars PROVE LiveIsNotLapsed'
  OBVIOUS
<1>1. ASSUME NEW c \in Callers, NEW map, RequestStep(c, map)  PROVE LiveIsNotLapsed'
  BY <1>1 DEF LiveIsNotLapsed, RequestStep, HeaderStep
<1>2. ASSUME NEW n \in Nonces, Expire(n)  PROVE LiveIsNotLapsed'
  BY <1>2 DEF LiveIsNotLapsed, Expire, Work, TypeOK
<1>3. ASSUME NEW n \in Nonces, NewNonce(n)  PROVE LiveIsNotLapsed'
  BY <1>3 DEF LiveIsNotLapsed, NewNonce, Work, TypeOK
<1>4. CASE Cleanup  BY <1>4 DEF LiveIsNotLapsed, Cleanup
<1>5. ASSUME NEW c \in Callers, Answer(c)  PROVE LiveIsNotLapsed'
  BY <1>5 DEF LiveIsNotLapsed, Answer
<1>6. CASE UNCHANGED vars  BY <1>6 DEF LiveIsNotLapsed, vars
<1>7. QED
  BY <1>1, <1>2, <1>3, <1>4, <1>5, <1>6, ReceiveStep, DecodeStep, CheckStep, ActingStep DEF Next

GateInv == Work /\ LiveIsNotLapsed

LEMMA GateInvariant == Spec => []GateInv
<1>1. Init => LiveIsNotLapsed  BY DEF Init, LiveIsNotLapsed
<1>2. GateInv <=> Work /\ LiveIsNotLapsed  BY DEF GateInv
<1>3. QED  BY <1>1, <1>2, LiveStep, WorkInvariant, PTL DEF Spec

Spent == {n \in Nonces : uses[n] > 0}

GateStep == Gate!GateNext \/ UNCHANGED <<sent, Spent, lapsed, accounts, told>>

\* A step between the lookups shows nothing.
LEMMA UnseenStep ==
  ASSUME UNCHANGED <<sent, uses, lapsed, accounts, told>>  PROVE GateStep
<1>1. Spent' = Spent  BY DEF Spent
<1>2. QED  BY <1>1 DEF GateStep

\* A nonce that goes out is one nobody was sent or has used.
LEMMA SendImplements ==
  ASSUME NEW n \in Nonces, n \notin sent, uses[n] = 0, sent' = sent \cup {n},
         UNCHANGED <<uses, lapsed, accounts, told>>
  PROVE  GateStep
<1>1. Spent' = Spent /\ n \notin Spent  BY DEF Spent
<1>2. Gate!Send(n)  BY <1>1 DEF Gate!Send, Spent
<1>3. QED  BY <1>2 DEF GateStep, Gate!GateNext

LEMMA AnswerImplements ==
  ASSUME GateInv, NEW c \in Callers, Answer(c)  PROVE GateStep
<1>1. UNCHANGED <<uses, lapsed, accounts, told>>  BY DEF Answer, accountVars
<1>2. CASE header[c] = NoNonce
  BY <1>1, <1>2, UnseenStep DEF Answer
<1>3. CASE header[c] # NoNonce
  <2>1. PICK n \in Nonces : n = header[c]  BY <1>3 DEF GateInv, Work, TypeOK
  <2>2. n \notin sent /\ uses[n] = 0
    BY <1>3, <2>1 DEF GateInv, Work, NoncesInv, HeadersAreFresh
  <2>3. sent' = sent \cup {n}  BY <1>3, <2>1 DEF Answer
  <2>4. QED  BY <1>1, <2>2, <2>3, SendImplements
<1>4. QED  BY <1>2, <1>3

LEMMA NewNonceImplements ==
  ASSUME GateInv, NEW n \in Nonces, NewNonce(n)  PROVE GateStep
<1>1. n \notin sent /\ uses[n] = 0 /\ sent' = sent \cup {n}
  BY DEF GateInv, Work, NoncesInv, NonceInv, NewNonce
<1>2. UNCHANGED <<uses, lapsed, accounts, told>>  BY DEF NewNonce, accountVars
<1>3. QED  BY <1>1, <1>2, SendImplements

LEMMA ExpireImplements ==
  ASSUME GateInv, NEW n \in Nonces, Expire(n)  PROVE GateStep
<1>1. uses[n] = 0 /\ lapsed' = lapsed \cup {n}
  BY DEF GateInv, Work, NoncesInv, NonceInv, Expire
<1>2. UNCHANGED <<sent, uses, accounts, told>>  BY DEF Expire, accountVars
<1>3. Spent' = Spent /\ n \notin Spent  BY <1>1, <1>2 DEF Spent
<1>4. Gate!Lapse(n)  BY <1>1, <1>2, <1>3 DEF Gate!Lapse, Spent
<1>5. QED  BY <1>4 DEF GateStep, Gate!GateNext

\* Whoever gets past the nonce is the first, with one that was sent.
LEMMA CheckImplements ==
  ASSUME GateInv, NEW c \in Callers, CheckNonce(c)  PROVE GateStep
<1>1. UNCHANGED <<sent, lapsed, accounts, told>>  BY DEF CheckNonce, accountVars
<1>2. PICK n : n = request[c].nonce  OBVIOUS
<1>3. n \in sent \cup {NoNonce} /\ sent \subseteq Nonces /\ uses \in [Nonces -> Nat]
  BY <1>2 DEF CheckNonce, GateInv, Work, NoncesInv, NonceInv, TypeOK
<1>4. CASE uses' = uses  BY <1>1, <1>4, UnseenStep
<1>5. CASE Accepted(n) /\ uses' = [uses EXCEPT ![n] = @ + 1]
  <2>1. n \in sent /\ n \in Nonces /\ nonces[n] = "live"  BY <1>3, <1>5 DEF Accepted
  <2>2. uses[n] = 0 /\ n \notin lapsed
    BY <2>1 DEF GateInv, Work, NoncesInv, NonceInv, LiveIsNotLapsed
  <2>3. Spent' = Spent \cup {n} /\ n \notin Spent  BY <1>3, <1>5, <2>1, <2>2 DEF Spent
  <2>4. Gate!Pass(n)  BY <1>1, <2>1, <2>2, <2>3 DEF Gate!Pass, Spent
  <2>5. QED  BY <2>1, <2>4 DEF GateStep, Gate!GateNext
<1>6. QED  BY <1>2, <1>4, <1>5 DEF CheckNonce

\* An account is made for the key of a request only if that has none, whatever
\* encoding of the key it came in.
LEMMA NewAccountImplements ==
  ASSUME GateInv, NEW c \in Callers, NewAccount(c)  PROVE GateStep
<1>1. UNCHANGED <<sent, uses, lapsed>>  BY DEF NewAccount
<1>2. Spent' = Spent  BY <1>1 DEF Spent
<1>3. PICK k \in Keys : k = key[c]  BY DEF NewAccount, GateInv, Work, TypeOK
<1>4. PICK t \in JWKs : t = KeyToJWK(k)  BY KeyToJWKType
<1>5. ComputeJWKThumbprint(request[c]) = t
  BY <1>3, <1>4 DEF NewAccount, GateInv, Work, CallInv, ComputeJWKThumbprint
<1>6. CASE UNCHANGED <<accounts, told>>  BY <1>1, <1>6, UnseenStep
<1>7. CASE /\ accountsByThumb[t] # NoAccount
           /\ told' = told \cup {<<k, accountsByThumb[t]>>}
           /\ accounts' = accounts
  <2>1. PICK a \in Accounts : a = accountsByThumb[t]  BY <1>7 DEF GateInv, Work, TypeOK
  <2>2. accounts[a] = k
    BY <1>4, <1>7, <2>1 DEF GateInv, Work, AccountsInv, AccountMapsAgree
  <2>3. Gate!Tell(k, a)  BY <1>1, <1>2, <1>7, <2>1, <2>2 DEF Gate!Tell, Spent
  <2>4. QED  BY <2>3 DEF GateStep, Gate!GateNext
<1>8. ASSUME NEW a \in Accounts, accountsByThumb[t] = NoAccount, accounts[a] = NoKey,
             accounts' = [accounts EXCEPT ![a] = k], told' = told \cup {<<k, a>>}
      PROVE  GateStep
  <2>1. \A b \in Accounts : accounts[b] # k
    BY <1>4, <1>8, AuthAssumption DEF GateInv, Work, AccountsInv, AccountMapsAgree
  <2>2. Gate!Register(k, a)  BY <1>1, <1>2, <1>8, <2>1 DEF Gate!Register, Spent
  <2>3. QED  BY <2>2 DEF GateStep, Gate!GateNext
<1>9. \/ UNCHANGED <<accounts, told>>
      \/ /\ accountsByThumb[t] # NoAccount
         /\ told' = told \cup {<<k, accountsByThumb[t]>>}
         /\ accounts' = accounts
      \/ /\ accountsByThumb[t] = NoAccount
         /\ \E a \in Accounts : /\ accounts[a] = NoKey
                                /\ accounts' = [accounts EXCEPT ![a] = k]
                                /\ told' = told \cup {<<k, a>>}
  BY <1>3, <1>5 DEF NewAccount, accountVars
<1>10. QED  BY <1>6, <1>7, <1>8, <1>9

LEMMA EveryStepImplements == GateInv /\ [Next]_vars => GateStep
<1> SUFFICES ASSUME GateInv, [Next]_vars PROVE GateStep
  OBVIOUS
<1>1. ASSUME NEW c \in Callers, Decode(c) \/ Problem(c) \/ Other(c) \/ \E r \in Requests : Receive(c, r)
      PROVE  GateStep
  BY <1>1, UnseenStep DEF Decode, Problem, Other, Receive, accountVars
<1>2. CASE Cleanup \/ UNCHANGED vars
  BY <1>2, UnseenStep DEF Cleanup, vars, accountVars
<1>3. QED
  BY <1>1, <1>2, AnswerImplements, NewNonceImplements, ExpireImplements, CheckImplements,
     NewAccountImplements DEF Next

\* GateSpec: nonces and accounts implement RequestGate, however many requests run
\* between the locks and however often each is repeated (nonce.go:28-62,
\* server.go:163-226, 353-389).
THEOREM ImplementsGate == Spec => GateSpec
<1>1. Init => Gate!GateInit  BY DEF Init, Gate!GateInit
<1>2. GateStep => [Gate!GateNext]_(Gate!gateVars)
  BY DEF GateStep, Gate!gateVars, Spent
<1>3. QED
  BY <1>1, <1>2, EveryStepImplements, GateInvariant, PTL DEF Spec, GateSpec, Gate!GateSpec
=============================================================================
