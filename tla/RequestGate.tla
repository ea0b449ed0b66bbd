----------------------------- MODULE RequestGate ------------------------------
(***************************************************************************)
(* What the ACME server promises about the requests it lets through and    *)
(* the accounts it makes: a nonce is sent to one client, and lets one      *)
(* request through between that and its expiry; an account has one key for *)
(* ever and a key one account, which is what every client with it is told. *)
(* How requests are decoded, refused and answered is left open.            *)
(***************************************************************************)
CONSTANTS Nonces, Keys, Accounts, NoKey

VARIABLES
  sent,    \* nonces that were sent to a client
  spent,   \* nonces that have let a request through
  lapsed,  \* nonces that have expired before that
  owner,   \* the key of each account
  told     \* the keys and accounts clients have been told

gateVars == <<sent, spent, lapsed, owner, told>>

GateInit ==
  /\ sent = {} /\ spent = {} /\ lapsed = {} /\ told = {}
  /\ owner = [a \in Accounts |-> NoKey]

Send(n) ==
  /\ n \notin sent \cup spent
  /\ sent' = sent \cup {n}
  /\ UNCHANGED <<spent, lapsed, owner, told>>

Pass(n) ==
  /\ n \in sent \ (spent \cup lapsed)
  /\ spent' = spent \cup {n}
  /\ UNCHANGED <<sent, lapsed, owner, told>>

Lapse(n) ==
  /\ n \notin spent
  /\ lapsed' = lapsed \cup {n}
  /\ UNCHANGED <<sent, spent, owner, told>>

Register(k, a) ==
  /\ owner[a] = NoKey /\ \A b \in Accounts : owner[b] # k
  /\ owner' = [owner EXCEPT ![a] = k]
  /\ told' = told \cup {<<k, a>>}
  /\ UNCHANGED <<sent, spent, lapsed>>

Tell(k, a) ==
  /\ owner[a] = k
  /\ told' = told \cup {<<k, a>>}
  /\ UNCHANGED <<sent, spent, lapsed, owner>>

GateNext ==
  \/ \E n \in Nonces : Send(n) \/ Pass(n) \/ Lapse(n)
  \/ \E k \in Keys, a \in Accounts : Register(k, a) \/ Tell(k, a)

GateSpec == GateInit /\ [][GateNext]_gateVars
=============================================================================
