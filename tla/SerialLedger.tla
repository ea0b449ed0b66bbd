---------------------------- MODULE SerialLedger ----------------------------
(***************************************************************************)
(* What the certificate store and the handlers around it promise: a serial *)
(* number only moves forward                                               *)
(*                                                                         *)
(*    free -> claimed -> signed -> stored -> revoked                       *)
(*                                                                         *)
(* it is claimed once, signed once and revoked once, and every answer a    *)
(* client gets is true of the ledger at the moment it is given.            *)
(***************************************************************************)
EXTENDS Naturals

CONSTANTS Callers, Serials, Reasons, NoRevocation, NoSerial

VARIABLES
  phase,   \* how far each serial has come
  bearing, \* how many certificates bear it
  reason,  \* why it was revoked
  answer   \* the last answer each caller got

ledgerVars == <<phase, bearing, reason, answer>>

Phases == {"free", "claimed", "signed", "stored", "revoked"}

Answer(k, s, r) == [kind |-> k, serial |-> s, reason |-> r]
NoAnswer == Answer("none", NoSerial, NoRevocation)

OnRecord == {"stored", "revoked"}

\* The answers that claim something about a serial, and when that is true.
True(a) ==
  /\ a.kind = "certificate" => phase[a.serial] \in {"signed"} \cup OnRecord
  /\ a.kind = "good" => phase[a.serial] = "stored"
  /\ a.kind \in {"unknown", "ErrNotFound"} => phase[a.serial] \notin OnRecord
  /\ a.kind = "ErrAlreadyRevoked" => phase[a.serial] = "revoked"
  /\ a.kind = "confirmed" => phase[a.serial] = "revoked" /\ a.reason = reason[a.serial]
  /\ a.kind = "revoked" => /\ phase[a.serial] = "revoked"
                           /\ a.reason \in {reason[a.serial], NoRevocation}

LedgerInit ==
  /\ phase = [s \in Serials |-> "free"]
  /\ bearing = [s \in Serials |-> 0]
  /\ reason = [s \in Serials |-> NoRevocation]
  /\ answer = [c \in Callers |-> NoAnswer]

Move(s, from, to) ==
  /\ phase[s] = from
  /\ phase' = [phase EXCEPT ![s] = to]

Claim(s) == Move(s, "free", "claimed") /\ UNCHANGED <<bearing, reason, answer>>

SignOnce(s) ==
  /\ Move(s, "claimed", "signed")
  /\ bearing' = [bearing EXCEPT ![s] = @ + 1]
  /\ UNCHANGED <<reason, answer>>

Store(c, s) ==
  /\ Move(s, "signed", "stored")
  /\ answer' = [answer EXCEPT ![c] = Answer("certificate", s, NoRevocation)]
  /\ UNCHANGED <<bearing, reason>>

\* Caller c's request takes effect; its answer is still to come.
RevokeOnce(c, s, r) ==
  /\ Move(s, "stored", "revoked")
  /\ reason' = [reason EXCEPT ![s] = r]
  /\ answer' = [answer EXCEPT ![c] = NoAnswer]
  /\ UNCHANGED bearing

\* A caller is answered, or (kind "none") starts its next call.
Reply(c) ==
  /\ answer'[c].kind # "none" => True(answer'[c])
  /\ answer' = [answer EXCEPT ![c] = answer'[c]]
  /\ UNCHANGED <<phase, bearing, reason>>

\* The process restarts: every open call is lost, the ledger is not.
Forget ==
  /\ answer' = [c \in Callers |-> NoAnswer]
  /\ UNCHANGED <<phase, bearing, reason>>

LedgerNext ==
  \/ \E s \in Serials : Claim(s) \/ SignOnce(s)
  \/ \E c \in Callers, s \in Serials :
       Store(c, s) \/ \E r \in Reasons : RevokeOnce(c, s, r)
  \/ \E c \in Callers : Reply(c)
  \/ Forget

LedgerSpec == LedgerInit /\ [][LedgerNext]_ledgerVars
=============================================================================
