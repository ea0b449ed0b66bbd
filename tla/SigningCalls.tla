----------------------------- MODULE SigningCalls -----------------------------
(***************************************************************************)
(* What the worker pool and the end of the server promise to requests that *)
(* need a signature: each gets one result of its own, and a shutdown that  *)
(* ends in time ends after the last of them, with none to come.  A forced  *)
(* one may overtake them.  The queue, the workers, their number and the    *)
(* order they work in are left open.                                       *)
(***************************************************************************)
CONSTANT Handlers

VARIABLES
  call,  \* idle, open, or its result: cert or error
  gate   \* open; then clean or forced, by how the shutdown went; then shut

callsVars == <<call, gate>>

CallsInit == call = [h \in Handlers |-> "idle"] /\ gate = "open"

Ask(h) ==
  /\ gate \in {"open", "forced"} /\ call[h] = "idle"
  /\ call' = [call EXCEPT ![h] = "open"]
  /\ UNCHANGED gate

Settle(h) ==
  /\ gate # "shut" /\ call[h] = "open"
  /\ \E res \in {"cert", "error"} : call' = [call EXCEPT ![h] = res]
  /\ UNCHANGED gate

Answer(h) ==
  /\ gate # "shut" /\ call[h] \in {"cert", "error"}
  /\ call' = [call EXCEPT ![h] = "idle"]
  /\ UNCHANGED gate

EndCleanly ==
  /\ gate = "open" /\ \A h \in Handlers : call[h] = "idle"
  /\ gate' = "clean"
  /\ UNCHANGED call

Force == gate = "open" /\ gate' = "forced" /\ UNCHANGED call

Shut == gate \in {"clean", "forced"} /\ gate' = "shut" /\ UNCHANGED call

CallsNext ==
  \/ \E h \in Handlers : Ask(h) \/ Settle(h) \/ Answer(h)
  \/ EndCleanly \/ Force \/ Shut

CallsSpec == CallsInit /\ [][CallsNext]_callsVars
=============================================================================
