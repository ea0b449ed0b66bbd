--------------------------- MODULE RevocationLists ---------------------------
(***************************************************************************)
(* What the CRL service promises about its lists: those of one process are *)
(* numbered upwards, each contains the ones before it and nothing that is  *)
(* not revoked; the one that is served is one of them; and who publishes   *)
(* one publishes a list of all that was revoked when its call began.       *)
(* Which call publishes last is left open, and so is how a call fails.     *)
(***************************************************************************)
EXTENDS Naturals

CONSTANTS Procs, Serials, NoCRL

VARIABLES
  revoked,  \* the serials that are revoked
  lists,    \* the lists this process has signed
  served,   \* the list clients get
  known     \* what was revoked when each open call began

listVars == <<revoked, lists, served, known>>

ListsInit ==
  /\ revoked = {} /\ lists = {} /\ served = NoCRL
  /\ known = [p \in Procs |-> {}]

RevokeSerial(s) == revoked' = revoked \cup {s} /\ UNCHANGED <<lists, served, known>>

Ask(p) == known' = [known EXCEPT ![p] = revoked] /\ UNCHANGED <<revoked, lists, served>>

GiveUp(p) == known' = [known EXCEPT ![p] = {}] /\ UNCHANGED <<revoked, lists, served>>

\* Who waits for the list does not matter: any call may publish it.
SignList ==
  /\ \E crl \in lists' :
       /\ lists' = lists \cup {crl}
       /\ crl.number > 0 /\ crl.entries \subseteq revoked
       /\ \A l \in lists : l.number < crl.number /\ l.entries \subseteq crl.entries
  /\ UNCHANGED <<revoked, served, known>>

ServeList(p) ==
  /\ \E l \in lists : known[p] \subseteq l.entries /\ served' = l
  /\ known' = [known EXCEPT ![p] = {}]
  /\ UNCHANGED <<revoked, lists>>

\* The process restarts; what is revoked stays revoked.
LoseLists ==
  /\ lists' = {} /\ served' = NoCRL
  /\ known' = [p \in Procs |-> {}]
  /\ UNCHANGED revoked

ListsNext ==
  \/ \E s \in Serials : RevokeSerial(s)
  \/ \E p \in Procs : Ask(p) \/ GiveUp(p) \/ ServeList(p)
  \/ SignList \/ LoseLists

ListsSpec == ListsInit /\ [][ListsNext]_listVars
=============================================================================
