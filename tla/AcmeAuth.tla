------------------------------ MODULE AcmeAuth ------------------------------
(***************************************************************************)
(* What every POST to the ACME server goes through before its handler      *)
(* works (pkg/protocols/acme: nonce.go, jws.go, verifyJWS in server.go),   *)
(* and the accounts.  Requests run concurrently; the nonces are under one  *)
(* mutex, the accounts under another.  The network may deliver a request   *)
(* any number of times, in any order, and late.                            *)
(*                                                                         *)
(* A nonce that has just been generated is known to nobody until an answer *)
(* carries it, so generating one commutes with the steps of the others and *)
(* is done in the step before it.  Random identifiers never repeat.        *)
(***************************************************************************)
EXTENDS Naturals, FiniteSets

CONSTANTS
  Callers,    \* request goroutines
  Nonces,     \* values a nonce can have
  Keys,       \* public keys of clients, as parsed
  Accounts,   \* identifiers for accounts
  NoNonce, NoKey, NoAccount

ASSUME AuthAssumption ==
  /\ NoNonce \notin Nonces
  /\ NoKey \notin Keys
  /\ NoAccount \notin Accounts

VARIABLES
  nonces,           \* the nonce map; what is not in it was never made or is gone
  accounts,         \* the key of each account
  accountsByThumb,  \* the account of each thumbprint
  pc,               \* where each request is
  request,          \* what it asks
  key,              \* the key its signature was verified with
  header,           \* the Replay-Nonce header of its answer
  sent,             \* nonces some client has been sent
  told,             \* history: the keys and accounts newAccount has answered
  uses,             \* history: the requests each nonce has let through
  lapsed            \* history: the nonces that have expired

callVars == <<pc, request, key, header>>
accountVars == <<accounts, accountsByThumb>>
vars == <<nonces, accountVars, callVars, sent, told, uses, lapsed>>

(***************************************************************************)
(* Keys.  One key has several encodings as a JWK, for instance with        *)
(* leading zeros; KeyToJWK always writes the canonical one, and the        *)
(* thumbprint is a hash of that.                                           *)
(***************************************************************************)
JWK(k, form) == [jwk |-> k, form |-> form]
JWKs == [jwk : Keys, form : {"canonical", "padded"}]

JWKToKey(j) == j.jwk
KeyToJWK(k) == JWK(k, "canonical")

\* Bug: the thumbprint is taken of the JWK as it was sent.
RawThumbprint(r) == r.by

ComputeJWKThumbprint(r) == KeyToJWK(JWKToKey(r.by))

\* What a request that verifies with it presents: its jwk, or else the account
\* its kid names.  Nothing stands for all that cannot be verified: a body or a
\* jwk that cannot be decoded, no key, an unsupported algorithm, a wrong signature.
Nothing == [none |-> "none"]
Presented == JWKs \cup [kid : Accounts] \cup {Nothing}

Requests ==
  [op : {"newAccount", "onlyReturnExisting", "other"}, by : Presented,
   nonce : Nonces \cup {NoNonce}]

HasJWK(r) == "jwk" \in DOMAIN r.by
HasKid(r) == "kid" \in DOMAIN r.by

Init ==
  /\ nonces = [n \in Nonces |-> "unused"]
  /\ accounts = [a \in Accounts |-> NoKey]
  /\ accountsByThumb = [t \in JWKs |-> NoAccount]
  /\ pc = [c \in Callers |-> "idle"]
  /\ request = [c \in Callers |-> NoNonce]
  /\ key = [c \in Callers |-> NoKey]
  /\ header = [c \in Callers |-> NoNonce]
  /\ sent = {} /\ told = {} /\ lapsed = {}
  /\ uses = [n \in Nonces |-> 0]

(***************************************************************************)
(* The nonce manager.                                                      *)
(***************************************************************************)

\* Bug: a nonce that is still in the map is handed out again.
GenerateUsed(c, k, map) ==
  \E S \in SUBSET {n \in Nonces : map[n] \in {"unused", "live"}} :
    /\ Cardinality(S) <= k
    /\ nonces' = [n \in Nonces |-> IF n \in S THEN "live" ELSE map[n]]
    /\ \/ S = {} /\ UNCHANGED header
       \/ \E n \in S : header' = [header EXCEPT ![c] = n]

\* c calls addNonceHeader k times: each call makes a nonce and overwrites the
\* header, or fails and leaves it.
AddNonceHeaders(c, k, map) ==
  \E S \in SUBSET {n \in Nonces : map[n] = "unused"} :
    /\ Cardinality(S) <= k
    /\ nonces' = [n \in Nonces |-> IF n \in S THEN "live" ELSE map[n]]
    /\ \/ S = {} /\ UNCHANGED header
       \/ \E n \in S : header' = [header EXCEPT ![c] = n]

Accepted(n) == n # NoNonce /\ nonces[n] = "live"
Known(n) == n # NoNonce /\ nonces[n] \in {"live", "expired"}

\* Bug: only a nonce that has expired is deleted.
LookUpNonce(n) ==
  IF Known(n) /\ nonces[n] = "expired" THEN [nonces EXCEPT ![n] = "gone"] ELSE nonces

\* The map after ValidateAndConsumeNonce, which accepts a live nonce only.
ConsumeNonce(n) == IF Known(n) THEN [nonces EXCEPT ![n] = "gone"] ELSE nonces

Expire(n) ==
  /\ nonces[n] = "live"
  /\ nonces' = [nonces EXCEPT ![n] = "expired"]
  /\ lapsed' = lapsed \cup {n}
  /\ UNCHANGED <<accountVars, callVars, sent, told, uses>>

\* An operation of the manager that the server itself never calls.
Cleanup ==
  /\ \E n \in Nonces : nonces[n] = "expired"
  /\ nonces' = [n \in Nonces |-> IF nonces[n] = "expired" THEN "gone" ELSE nonces[n]]
  /\ UNCHANGED <<accountVars, callVars, sent, told, uses, lapsed>>

\* HEAD or GET new-nonce.
NewNonce(n) ==
  /\ nonces[n] = "unused"
  /\ nonces' = [nonces EXCEPT ![n] = "live"]
  /\ sent' = sent \cup {n}
  /\ UNCHANGED <<accountVars, callVars, told, uses, lapsed>>

(***************************************************************************)
(* A POST.                                                                 *)
(***************************************************************************)
Proceed(c, l) == pc' = [pc EXCEPT ![c] = l]

\* ServeHTTP.  The nonce is one that some client was sent, or made up.
Receive(c, r) ==
  /\ pc[c] = "idle"
  /\ r.nonce \in sent \cup {NoNonce}
  /\ Proceed(c, "decoding")
  /\ request' = [request EXCEPT ![c] = r]
  /\ AddNonceHeaders(c, 1, nonces)
  /\ UNCHANGED <<accountVars, key, sent, told, uses, lapsed>>

\* The work on the request ends, and its answer is ready.
Finish(c) ==
  /\ Proceed(c, "answering")
  /\ request' = [request EXCEPT ![c] = NoNonce]
  /\ key' = [key EXCEPT ![c] = NoKey]

writeProblem(c, k, map) == Finish(c) /\ AddNonceHeaders(c, k, map)

\* The key of a request: that of its jwk, or the one lookupKey finds for its kid.
ResolvedKey(r) ==
  IF HasJWK(r) THEN JWKToKey(r.by) ELSE IF HasKid(r) THEN accounts[r.by.kid] ELSE NoKey

\* Bug: the nonce is consumed before the signature is verified.
DecodeAfterNonce(c) ==
  LET k == ResolvedKey(request[c]) IN
  /\ pc[c] = "decoding"
  /\ \/ /\ k # NoKey
        /\ Proceed(c, "verified")
        /\ key' = [key EXCEPT ![c] = k]
        /\ UNCHANGED <<nonces, header, request>>
     \/ k = NoKey /\ writeProblem(c, 1, ConsumeNonce(request[c].nonce))
  /\ UNCHANGED <<accountVars, sent, told, uses, lapsed>>

\* Bug: a kid that lookupKey does not find is let through, with no key.
DecodeUnknown(c) ==
  /\ pc[c] = "decoding"
  /\ Proceed(c, "verified")
  /\ key' = [key EXCEPT ![c] = ResolvedKey(request[c])]
  /\ UNCHANGED <<nonces, header, request, accountVars, sent, told, uses, lapsed>>

\* DecodeAndVerifyJWS.
Decode(c) ==
  LET k == ResolvedKey(request[c]) IN
  /\ pc[c] = "decoding"
  /\ \/ /\ k # NoKey
        /\ Proceed(c, "verified")
        /\ key' = [key EXCEPT ![c] = k]
        /\ UNCHANGED <<nonces, header, request>>
     \/ k = NoKey /\ writeProblem(c, 1, nonces)
  /\ UNCHANGED <<accountVars, sent, told, uses, lapsed>>

\* The rest of verifyJWS.
CheckNonce(c) ==
  LET n == request[c].nonce IN
  /\ pc[c] = "verified"
  /\ \/ /\ Accepted(n)
        /\ uses' = [uses EXCEPT ![n] = @ + 1]
        /\ Proceed(c, "acting")
        /\ AddNonceHeaders(c, 1, ConsumeNonce(n))
        /\ UNCHANGED <<request, key>>
     \/ /\ ~Accepted(n)
        /\ writeProblem(c, 2, ConsumeNonce(n))
        /\ UNCHANGED uses
  /\ UNCHANGED <<accountVars, sent, told, lapsed>>

\* handleNewAccount, to its end: the account of the key is found, asked for in
\* vain, or made, in one critical section.
NewAccount(c) ==
  LET t == ComputeJWKThumbprint(request[c]) IN
  /\ pc[c] = "acting" /\ request[c].op # "other" /\ HasJWK(request[c])
  /\ \/ /\ accountsByThumb[t] # NoAccount
        /\ told' = told \cup {<<key[c], accountsByThumb[t]>>}
        /\ Finish(c)
        /\ UNCHANGED <<nonces, header, accountVars>>
     \/ /\ accountsByThumb[t] = NoAccount /\ request[c].op = "onlyReturnExisting"
        /\ writeProblem(c, 1, nonces)
        /\ UNCHANGED <<told, accountVars>>
     \/ /\ accountsByThumb[t] = NoAccount /\ request[c].op = "newAccount"
        /\ \E a \in Accounts :
             /\ accounts[a] = NoKey
             /\ accounts' = [accounts EXCEPT ![a] = key[c]]
             /\ accountsByThumb' = [accountsByThumb EXCEPT ![t] = a]
             /\ told' = told \cup {<<key[c], a>>}
        /\ Finish(c)
        /\ UNCHANGED <<nonces, header>>
  /\ UNCHANGED <<sent, uses, lapsed>>

\* newAccount without a jwk or with a payload that is no JSON, and every other
\* handler that has a problem with the request.
Problem(c) ==
  /\ pc[c] = "acting"
  /\ writeProblem(c, 1, nonces)
  /\ UNCHANGED <<accountVars, sent, told, uses, lapsed>>

\* Every other handler does its own work on the request.
Other(c) ==
  /\ pc[c] = "acting" /\ request[c].op = "other"
  /\ Finish(c)
  /\ UNCHANGED <<nonces, header, accountVars, sent, told, uses, lapsed>>

\* The answer goes out.
Answer(c) ==
  /\ pc[c] = "answering"
  /\ Proceed(c, "idle")
  /\ sent' = IF header[c] = NoNonce THEN sent ELSE sent \cup {header[c]}
  /\ header' = [header EXCEPT ![c] = NoNonce]
  /\ UNCHANGED <<nonces, accountVars, request, key, told, uses, lapsed>>

Next ==
  \/ \E n \in Nonces : Expire(n) \/ NewNonce(n)
  \/ Cleanup
  \/ \E c \in Callers, r \in Requests : Receive(c, r)
  \/ \E c \in Callers :
       \/ Decode(c) \/ CheckNonce(c)
       \/ NewAccount(c) \/ Problem(c) \/ Other(c)
       \/ Answer(c)

Spec == Init /\ [][Next]_vars

(***************************************************************************)
(* Properties.                                                             *)
(***************************************************************************)
PCs == {"idle", "decoding", "verified", "acting", "answering"}

\* Types; past the decoding a request has a key.
TypeOK ==
  /\ nonces \in [Nonces -> {"unused", "live", "expired", "gone"}]
  /\ accounts \in [Accounts -> Keys \cup {NoKey}]
  /\ accountsByThumb \in [JWKs -> Accounts \cup {NoAccount}]
  /\ pc \in [Callers -> PCs]
  /\ DOMAIN request = Callers
  /\ \A c \in Callers : pc[c] \notin {"idle", "answering"} => request[c] \in Requests
  /\ key \in [Callers -> Keys \cup {NoKey}]
  /\ \A c \in Callers : pc[c] \in {"verified", "acting"} => key[c] \in Keys
  /\ header \in [Callers -> Nonces \cup {NoNonce}]
  /\ sent \in SUBSET Nonces
  /\ told \in SUBSET (Keys \X Accounts)
  /\ uses \in [Nonces -> Nat]
  /\ lapsed \in SUBSET Nonces

\* A nonce lets at most one request through, however often and however
\* concurrently requests with it arrive, and only after an answer has carried
\* it (nonce.go:44-62; docs/acme_server.md:54-64, "single-use").
NonceLetsOneThrough ==
  \A n \in Nonces : uses[n] <= 1 /\ (uses[n] = 1 => n \in sent /\ nonces[n] = "gone")

\* No nonce is lost: one that is no longer in the map has let its request
\* through or has expired.  A copy of a request that is refused, for its
\* signature or as a duplicate of another, takes nobody's nonce
\* (server.go:198-213: the nonce is looked up last).
NoNonceIsLost ==
  \A n \in Nonces : nonces[n] = "gone" => uses[n] = 1 \/ n \in lapsed

\* The nonce in the header of an answer under way has been given to nobody
\* else, and has not been consumed: the next request of the client that gets it
\* will not fail for it unless it comes too late (server.go:163-167, 224, 237).
HeadersAreFresh ==
  \A c \in Callers : header[c] # NoNonce =>
    /\ nonces[header[c]] = "live" \/ header[c] \in lapsed
    /\ uses[header[c]] = 0
    /\ header[c] \notin sent
    /\ \A d \in Callers \ {c} : header[d] # header[c]

\* All answers to newAccount for one key, in whichever encoding and however
\* concurrently it was presented, name the same account, no two keys share one,
\* and a kid that was answered is found with its key (server.go:353-389).
OneAccountPerKey ==
  \A p \in told :
    /\ accounts[p[2]] = p[1]
    /\ \A q \in told : p[1] = q[1] <=> p[2] = q[2]

\* Concurrent requests, with the lookups, the nonces and the accounts under
\* separate locks, implement RequestGate: each nonce is sent once and lets through
\* one request in time, and accounts and keys belong to each other for ever
\* (nonce.go:28-62, server.go:163-226, 353-389).
Gate == INSTANCE RequestGate WITH
  spent <- {n \in Nonces : uses[n] > 0},
  owner <- accounts

GateSpec == Gate!GateSpec

(***************************************************************************)
(* The inductive invariant behind them.                                    *)
(***************************************************************************)

\* The two maps of accounts are inverse to each other on canonical encodings.
AccountMapsAgree ==
  /\ \A a \in Accounts : accounts[a] # NoKey => accountsByThumb[KeyToJWK(accounts[a])] = a
  /\ \A k \in Keys : accountsByThumb[KeyToJWK(k)] # NoAccount =>
                       accounts[accountsByThumb[KeyToJWK(k)]] = k

\* A request with a jwk was verified with the key of that.
CallInv ==
  \A c \in Callers :
    pc[c] \in {"verified", "acting"} /\ HasJWK(request[c]) => key[c] = JWKToKey(request[c].by)

\* What is known of a nonce in each state of its life.
NonceInv ==
  /\ \A n \in Nonces : /\ nonces[n] = "unused" => n \notin sent /\ \A c \in Callers : header[c] # n
                       /\ nonces[n] = "expired" => n \in lapsed
                       /\ nonces[n] # "gone" => uses[n] = 0
  /\ \A c \in Callers : /\ pc[c] \notin {"idle", "answering"} => request[c].nonce \in sent \cup {NoNonce}
                        /\ pc[c] = "idle" => header[c] = NoNonce

\* A nonce that can still let a request through has never expired.
LiveIsNotLapsed == \A n \in Nonces : nonces[n] \in {"unused", "live"} => n \notin lapsed

AuthInv ==
  /\ TypeOK /\ NonceInv /\ NonceLetsOneThrough /\ NoNonceIsLost /\ HeadersAreFresh
  /\ AccountMapsAgree /\ CallInv /\ OneAccountPerKey
=============================================================================
