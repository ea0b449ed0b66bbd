---------------------------- MODULE DataDirectory ----------------------------
(***************************************************************************)
(* The processes that run on one data directory, one after the other: each *)
(* comes by its authority (module KeyStore), opens the audit log and       *)
(* records the access to the keys (module AuditChain), serves and stops,   *)
(* or stops before (cmd/certa-server/app.go, NewServerApp).                *)
(***************************************************************************)
EXTENDS KeyStore, AuditChain

CONSTANT MaxLines  \* bound: no event is logged once the ids have come so far

ASSUME MaxLinesAssumption == MaxLines \in Nat

VARIABLE nextId  \* the identifier of the next event

vars == <<keyVars, auditVars, nextId>>

Init == KeyInit /\ AuditInit /\ nextId = 1

Log == \E outcome \in Outcomes : LogEvent(nextId, outcome) /\ nextId' = nextId + 1

\* The steps of LoadOrInitializeAuthority.
KeyStep ==
  /\ Boot \/ LoadOrInitialize \/ loadAuthority \/ Truncate \/ Fill \/ CeremonyDone
  /\ UNCHANGED <<auditVars, nextId>>

\* The rest of NewServerApp as far as it touches the directory: the log is
\* opened when the authority is there, and the first event is the access to it.
\* No server starts once the bound is reached.
OpenLog ==
  /\ phase = "ready" /\ events = <<>> /\ nextId <= MaxLines
  /\ Log
  /\ UNCHANGED keyVars

StartServing == events # <<>> /\ Serve /\ UNCHANGED <<auditVars, nextId>>

\* Other events; the program at this commit logs none, its logger is there for them.
LogWhileServing ==
  /\ phase = "serving" /\ nextId <= MaxLines
  /\ Log
  /\ UNCHANGED keyVars

\* The memory of the process is gone; the next one starts a chain of its own.
StopProcess == Stop /\ NewChainAuditLogger /\ UNCHANGED nextId

Next == KeyStep \/ OpenLog \/ StartServing \/ LogWhileServing \/ StopProcess

Spec == Init /\ [][Next]_vars

TypeOK ==
  /\ KeyTypeOK
  /\ nextId \in Nat /\ start \in Nat /\ cut \in BOOLEAN
  /\ phase \in {"down", "booting", "loading", "writing", "filling", "refused"} => events = <<>>
=============================================================================
