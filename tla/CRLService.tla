----------------------------- MODULE CRLService -----------------------------
(***************************************************************************)
(* Generation and publication of revocation lists (pkg/protocols/crl):     *)
(* CRLGenerator.GenerateCRL under the generator's mutex, Regenerate, which *)
(* publishes the result under the service's mutex in a second critical     *)
(* section, and the service's Start, Stop and background loop.             *)
(*                                                                         *)
(* Callers are goroutines that call Regenerate, Start or Stop; Loops are   *)
(* the background goroutines Start spawns.  Critical sections of the       *)
(* service's own mutex contain no call and are single steps; the           *)
(* generator's mutex is held across a storage call and a signature, so it  *)
(* is a variable.  Revocations come from the store (module Storage).       *)
(***************************************************************************)
EXTENDS Storage, Naturals, FiniteSets

CONSTANTS
  Callers,      \* goroutines using the service's API
  Loops,        \* identities for the background goroutines
  NoCRL,        \* no list: nothing cached, or nothing in hand
  Free,         \* the generator's mutex is not locked
  MaxCalls,     \* bound: calls of Regenerate, Start and Stop
  MaxNumber,    \* bound: no more ticks once so many lists are numbered
  MaxRestarts   \* bound: restarts of the process

ASSUME CRLAssumption ==
  /\ Free \notin Callers \cup Loops
  /\ Callers \cap Loops = {}
  /\ IsFiniteSet(Loops)
  /\ MaxCalls \in 0 .. 2 * Cardinality(Loops)  \* a loop for every Start
  /\ MaxNumber \in Nat /\ MaxRestarts \in Nat

VARIABLES
  mu,         \* the generator's mutex: its owner, or Free
  crlNumber,  \* the generator's counter
  cached,     \* the list LatestCRL serves
  running,    \* the service's running flag
  stopCh,     \* its current stop channel, numbered in the order of creation
  closed,     \* the stop channels that have been closed
  cancelled,  \* the context given to Start is done
  pc,         \* where each goroutine is
  hand,       \* the list it is building or about to publish
  known,      \* history: the serials revoked when its regeneration began
  starting,   \* the callers whose regeneration is the initial one of Start
  watched,    \* the stop channel each loop's select waits on
  signed,     \* history: every list ever signed
  calls,      \* calls made so far
  restarts    \* restarts so far

serviceVars == <<cached, running, stopCh, closed, cancelled>>
generatorVars == <<mu, crlNumber, signed>>
procVars == <<pc, hand, known, starting, watched>>
boundVars == <<calls, restarts>>
vars == <<storeVars, serviceVars, generatorVars, procVars, boundVars>>

Procs == Callers \cup Loops

\* A list; boot, the process it was signed by, is history.
CRL(n, e) == [boot |-> restarts, number |-> n, entries |-> e]

CRLs == [boot : Nat, number : Nat, entries : SUBSET Serials]

\* The store holds issued certificates, none of them revoked yet.
Init ==
  /\ certificates = [s \in Serials |-> "valid"]
  /\ revocations = [s \in Serials |-> NoRevocation]
  /\ serials = Serials
  /\ mu = Free /\ crlNumber = 0 /\ signed = {}
  /\ cached = NoCRL /\ running = FALSE /\ cancelled = FALSE
  /\ stopCh = 0 /\ closed = {}
  /\ pc = [p \in Procs |-> "off"]
  /\ hand = [p \in Procs |-> NoCRL]
  /\ known = [p \in Procs |-> {}]
  /\ starting = {}
  /\ watched = [b \in Loops |-> 0]
  /\ calls = 0 /\ restarts = 0

Goto(p, l) == pc' = [pc EXCEPT ![p] = l]

Call == calls < MaxCalls /\ calls' = calls + 1 /\ UNCHANGED restarts

(***************************************************************************)
(* Regenerate, in the goroutine p.                                         *)
(***************************************************************************)

Begin(p) ==
  /\ Goto(p, "locking")
  /\ known' = [known EXCEPT ![p] = ListRevoked]

\* Where p goes once Regenerate has returned: a loop to its select, a caller
\* back to its own business, and from a successful Start only after spawning a
\* loop.  A failed Start leaves the running flag set.
Leave(p, ok) ==
  IF p \in Loops THEN Goto(p, "looping")
  ELSE IF ~(ok /\ p \in starting) THEN Goto(p, "off")
  ELSE \E b \in Loops : /\ pc[b] = "off"
                        /\ pc' = [pc EXCEPT ![p] = "off", ![b] = "looping"]

Return(p, ok) ==
  /\ Leave(p, ok)
  /\ hand' = [hand EXCEPT ![p] = NoCRL]
  /\ known' = [known EXCEPT ![p] = {}]
  /\ starting' = starting \ {p}
  /\ UNCHANGED watched

Lock(p) ==
  /\ pc[p] = "locking"
  /\ mu = Free
  /\ mu' = p
  /\ Goto(p, "listing")
  /\ UNCHANGED <<storeVars, serviceVars, crlNumber, signed, hand, known, starting, watched, boundVars>>

\* Bug: the records come from the last list when there is one.
ListFromCache(p) ==
  /\ pc[p] = "listing"
  /\ hand' = [hand EXCEPT ![p] = CRL(0, IF cached = NoCRL THEN ListRevoked ELSE cached.entries)]
  /\ Goto(p, "signing")
  /\ UNCHANGED <<storeVars, serviceVars, generatorVars, known, starting, watched, boundVars>>

\* Bug: the records are fetched before the lock is taken again for the counter.
ListUnlocked(p) ==
  /\ pc[p] = "listing"
  /\ hand' = [hand EXCEPT ![p] = CRL(0, ListRevoked)]
  /\ mu' = Free
  /\ Goto(p, "signing")
  /\ UNCHANGED <<storeVars, serviceVars, crlNumber, signed, known, starting, watched, boundVars>>

\* The records are fetched; a failing store, or Start's context being done,
\* ends the call.
List(p) ==
  /\ pc[p] = "listing"
  /\ \/ /\ ~(p \in starting /\ cancelled)
        /\ hand' = [hand EXCEPT ![p] = CRL(0, ListRevoked)]
        /\ Goto(p, "signing")
        /\ UNCHANGED <<mu, known, starting, watched>>
     \/ /\ mu' = Free
        /\ Return(p, FALSE)
  /\ UNCHANGED <<storeVars, serviceVars, crlNumber, signed, boundVars>>

\* Bug: the number is taken before the increment.
SignUnnumbered(p) ==
  /\ pc[p] = "signing"
  /\ crlNumber' = crlNumber + 1
  /\ mu' = Free
  /\ LET crl == CRL(crlNumber, hand[p].entries) IN
     /\ hand' = [hand EXCEPT ![p] = crl]
     /\ signed' = signed \cup {crl}
  /\ Goto(p, "publishing")
  /\ UNCHANGED <<storeVars, serviceVars, boundVars, known, starting, watched>>

\* Bug: no deferred unlock, so the error path keeps the mutex.
SignLeaky(p) ==
  /\ pc[p] = "signing"
  /\ crlNumber' = crlNumber + 1
  /\ LET crl == CRL(crlNumber + 1, hand[p].entries) IN
     \/ /\ mu' = Free
        /\ hand' = [hand EXCEPT ![p] = crl]
        /\ signed' = signed \cup {crl}
        /\ Goto(p, "publishing")
        /\ UNCHANGED <<known, starting, watched>>
     \/ /\ Return(p, FALSE)
        /\ UNCHANGED <<mu, signed>>
  /\ UNCHANGED <<storeVars, serviceVars, boundVars>>

\* Bug: the error of the signature is not looked at.
SignUnlooked(p) ==
  /\ pc[p] = "signing"
  /\ crlNumber' = crlNumber + 1
  /\ mu' = Free
  /\ LET crl == CRL(crlNumber + 1, hand[p].entries) IN
     /\ hand' = [hand EXCEPT ![p] = crl]
     /\ signed' \in {signed, signed \cup {crl}}
  /\ Goto(p, "publishing")
  /\ UNCHANGED <<known, starting, watched, storeVars, serviceVars, boundVars>>

\* The counter is bumped, then the list is signed; the mutex is released.  A
\* failed signature loses the number.
Sign(p) ==
  /\ pc[p] = "signing"
  /\ crlNumber' = crlNumber + 1
  /\ mu' = Free
  /\ LET crl == CRL(crlNumber + 1, hand[p].entries) IN
     \/ /\ hand' = [hand EXCEPT ![p] = crl]
        /\ signed' = signed \cup {crl}
        /\ Goto(p, "publishing")
        /\ UNCHANGED <<known, starting, watched>>
     \/ /\ Return(p, FALSE)
        /\ UNCHANGED signed
  /\ UNCHANGED <<storeVars, serviceVars, boundVars>>

Publish(p) ==
  /\ pc[p] = "publishing"
  /\ cached' = hand[p]
  /\ Return(p, TRUE)
  /\ UNCHANGED <<storeVars, generatorVars, running, stopCh, closed, cancelled, boundVars>>

(***************************************************************************)
(* The API.                                                                *)
(***************************************************************************)
Regenerate(c) ==
  /\ pc[c] = "off" /\ Call
  /\ Begin(c)
  /\ UNCHANGED <<storeVars, serviceVars, generatorVars, hand, starting, watched>>

Start(c) ==
  /\ pc[c] = "off" /\ Call
  /\ \/ /\ running
        /\ UNCHANGED <<serviceVars, procVars>>
     \/ /\ ~running
        /\ running' = TRUE
        /\ stopCh' = stopCh + 1
        /\ starting' = starting \cup {c}
        /\ Begin(c)
        /\ UNCHANGED <<cached, closed, cancelled, hand, watched>>
  /\ UNCHANGED <<storeVars, generatorVars>>

\* Bug: only the flag is reset.
StopFlagOnly(c) ==
  /\ pc[c] = "off" /\ Call
  /\ running' = FALSE
  /\ UNCHANGED <<storeVars, generatorVars, procVars, cached, stopCh, closed, cancelled>>

Stop(c) ==
  /\ pc[c] = "off" /\ Call
  /\ \/ /\ ~running
        /\ UNCHANGED <<running, closed>>
     \/ /\ running
        /\ running' = FALSE
        /\ closed' = closed \cup {stopCh}
  /\ UNCHANGED <<storeVars, generatorVars, procVars, cached, stopCh, cancelled>>

\* The context given to Start is cancelled; the flag is not reset.
Cancel ==
  /\ ~cancelled
  /\ cancelled' = TRUE
  /\ UNCHANGED <<storeVars, generatorVars, procVars, boundVars, cached, running, stopCh, closed>>

(***************************************************************************)
(* The background loop b.                                                  *)
(***************************************************************************)

\* The select statement reads the channel to wait on each time around.
Select(b) ==
  /\ pc[b] = "looping"
  /\ watched' = [watched EXCEPT ![b] = stopCh]
  /\ Goto(b, "selecting")
  /\ UNCHANGED <<storeVars, serviceVars, generatorVars, boundVars, hand, known, starting>>

\* A tick tries the generator's mutex, ignores whether it got it, and then
\* calls Regenerate, which locks it in any case.
Tick(b) ==
  /\ pc[b] = "selecting" /\ crlNumber < MaxNumber
  /\ mu' = IF mu = Free THEN b ELSE mu
  /\ Begin(b)
  /\ UNCHANGED <<storeVars, serviceVars, boundVars, crlNumber, signed, hand, starting, watched>>

Quit(b) ==
  /\ pc[b] = "selecting"
  /\ watched[b] \in closed \/ cancelled
  /\ Goto(b, "off")
  /\ UNCHANGED <<storeVars, serviceVars, generatorVars, boundVars, hand, known, starting, watched>>

(***************************************************************************)
(* The environment: revocations through the API, and process restarts of a *)
(* persistent server, which rebuild generator and service from scratch     *)
(* over the same tables and the same issuer.                               *)
(***************************************************************************)
Revoke(s, r) ==
  /\ RevokeCertificate(s, r, "ok")
  /\ UNCHANGED <<serviceVars, generatorVars, procVars, boundVars>>

\* Bug: the tables are made anew, not only when they are missing.
RestartAnew ==
  /\ Backend = "sqlite" /\ restarts < MaxRestarts
  /\ restarts' = restarts + 1
  /\ certificates' = [s \in Serials |-> "valid"]
  /\ revocations' = [s \in Serials |-> NoRevocation]
  /\ mu' = Free /\ crlNumber' = 0
  /\ cached' = NoCRL /\ running' = FALSE /\ cancelled' = FALSE
  /\ stopCh' = 0 /\ closed' = {}
  /\ pc' = [p \in Procs |-> "off"]
  /\ hand' = [p \in Procs |-> NoCRL]
  /\ known' = [p \in Procs |-> {}]
  /\ starting' = {}
  /\ watched' = [b \in Loops |-> 0]
  /\ UNCHANGED <<serials, signed, calls>>

Restart ==
  /\ Backend = "sqlite" /\ restarts < MaxRestarts
  /\ restarts' = restarts + 1
  /\ mu' = Free /\ crlNumber' = 0
  /\ cached' = NoCRL /\ running' = FALSE /\ cancelled' = FALSE
  /\ stopCh' = 0 /\ closed' = {}
  /\ pc' = [p \in Procs |-> "off"]
  /\ hand' = [p \in Procs |-> NoCRL]
  /\ known' = [p \in Procs |-> {}]
  /\ starting' = {}
  /\ watched' = [b \in Loops |-> 0]
  /\ UNCHANGED <<storeVars, signed, calls>>

Step(p) == Lock(p) \/ List(p) \/ Sign(p) \/ Publish(p)

Next ==
  \/ \E p \in Procs : Step(p)
  \/ \E c \in Callers : Regenerate(c) \/ Start(c) \/ Stop(c)
  \/ \E b \in Loops : Select(b) \/ Tick(b) \/ Quit(b)
  \/ \E s \in Serials, r \in Reasons : Revoke(s, r)
  \/ Cancel \/ Restart

Spec == Init /\ [][Next]_vars

(***************************************************************************)
(* Every goroutine that can run does; the ticker keeps firing; sync.Mutex  *)
(* starves nobody, hence strong fairness of Lock; a select with a closed   *)
(* channel does not prefer the ticker for ever, hence of Quit; store and   *)
(* signer do not fail for ever, hence of the succeeding List and Sign.     *)
(***************************************************************************)
Fairness ==
  /\ \A p \in Procs : /\ SF_vars(Lock(p))
                      /\ WF_vars(Publish(p))
                      /\ WF_vars(List(p)) /\ SF_vars(List(p) /\ pc'[p] = "signing")
                      /\ WF_vars(Sign(p)) /\ SF_vars(Sign(p) /\ pc'[p] = "publishing")
  /\ \A b \in Loops : WF_vars(Select(b)) /\ WF_vars(Tick(b)) /\ SF_vars(Quit(b))

FairSpec == Spec /\ Fairness

(***************************************************************************)
(* Properties that hold.                                                   *)
(***************************************************************************)

\* Types; lists carry positive numbers, and at most one of them is being
\* built under the generator's mutex.
TypeOK ==
  /\ StorageTypeOK
  /\ mu \in Procs \cup {Free} /\ crlNumber \in Nat
  /\ signed \subseteq CRLs /\ \A crl \in signed : crl.number > 0
  /\ cached \in signed \cup {NoCRL}
  /\ running \in BOOLEAN /\ cancelled \in BOOLEAN
  /\ stopCh \in Nat /\ closed \subseteq 1 .. stopCh
  /\ pc \in [Procs -> {"off", "locking", "listing", "signing", "publishing", "looping", "selecting"}]
  /\ hand \in [Procs -> CRLs \cup {NoCRL}]
  /\ known \in [Procs -> SUBSET Serials]
  /\ starting \subseteq Callers
  /\ watched \in [Loops -> Nat]
  /\ calls \in Nat /\ restarts \in Nat

\* Numbering (generator.go:98): no number is used twice by one process, and a
\* list with a higher number is never missing a revocation that a list with a
\* lower one has, whichever goroutines built them and in whatever order they
\* are published.
NumbersOrdered ==
  \A a, b \in signed :
    a.boot = b.boot => /\ a.number = b.number => a = b
                       /\ a.number < b.number => a.entries \subseteq b.entries

\* Across restarts the numbers begin again (generator.go:66) and order nothing.
\* The lists still do not go back: one of a later process has every revocation
\* that any list of an earlier process had, whatever that process was doing
\* when it stopped (generator.go:76, sqlite.go:226).
LaterListsCoverEarlier ==
  \A a, b \in signed : a.boot < b.boot => a.entries \subseteq b.entries

\* What a call of Regenerate returns covers every revocation that was made
\* before the call, also when it had to wait for the mutex (generator.go:147).
RegenerateIsFresh ==
  \A p \in Procs : pc[p] = "publishing" => known[p] \subseteq hand[p].entries

\* A loop that waits on a channel nobody has closed waits on the current one
\* of a running service: Stop leaves no select behind that cannot end
\* (generator.go:197-222), however often the service was started and stopped.
NoLoopLeftBehind ==
  \A b \in Loops : pc[b] = "selecting" /\ watched[b] \notin closed
                     => running /\ watched[b] = stopCh

\* The service implements its abstract specification (RevocationLists): the
\* generator's mutex and its counter, the list in each goroutine's hand and the
\* second critical section that publishes it come to one ordered sequence of
\* lists, and every publication is of one that covers what its call had to
\* cover (generator.go:71-121, 147-160).
Lists == INSTANCE RevocationLists WITH
  revoked <- ListRevoked,
  lists <- {crl \in signed : crl.boot = restarts},
  served <- cached

ListsSpec == Lists!ListsSpec

(***************************************************************************)
(* The inductive invariant behind them.                                    *)
(***************************************************************************)
MutexHeld == \A p \in Procs : pc[p] \in {"listing", "signing"} => mu = p

\* The lists signed so far are numbered up to the counter and are not ahead of
\* the store.
SignedBelow ==
  \A crl \in signed : /\ crl.boot <= restarts
                      /\ crl.boot = restarts => crl.number <= crlNumber
                      /\ crl.entries \subseteq ListRevoked

\* The records in hand under the mutex cover all the lists signed before, by
\* whichever process.
HandCovers ==
  \A p \in Procs :
    /\ known[p] \subseteq ListRevoked
    /\ pc[p] = "publishing" => hand[p] \in signed
    /\ pc[p] = "signing" =>
         /\ hand[p] \in CRLs
         /\ known[p] \subseteq hand[p].entries
         /\ hand[p].entries \subseteq ListRevoked
         /\ \A crl \in signed : crl.entries \subseteq hand[p].entries

ChannelsClosed ==
  /\ (running \/ starting # {} \/ \E b \in Loops : pc[b] # "off") => stopCh > 0
  /\ stopCh = 0 \/ stopCh \in closed \/ running

\* All of it: the counter and the records are consistent because both are used
\* under one mutex (generator.go:72), the stop channels because the flag and
\* the channel change together (generator.go:178-185, 214-221).
CRLInv ==
  /\ TypeOK /\ MutexHeld /\ SignedBelow /\ HandCovers /\ RegenerateIsFresh
  /\ NumbersOrdered /\ LaterListsCoverEarlier
  /\ ChannelsClosed /\ NoLoopLeftBehind

\* The loop b waits for a mutex that its own TryLock took.
SelfLocked(b) == pc[b] = "locking" /\ mu = b

\* The generator's mutex is never kept: its owner is on its way to releasing it,
\* in the middle of GenerateCRL, but for a loop that waits for itself
\* (generator.go:72-73, 199).
OwnerReleases ==
  mu # Free => \/ mu \in Procs /\ pc[mu] \in {"listing", "signing"}
               \/ mu \in Loops /\ SelfLocked(mu)

\* Once a loop has locked itself out, no list is signed any more by this
\* process, whoever asks for one, and nothing but a restart ends that
\* (generator.go:199-204).
LockoutIsFinal ==
  [][\A b \in Loops : SelfLocked(b) =>
       \/ restarts' # restarts
       \/ SelfLocked(b)' /\ signed' = signed]_vars

\* Regenerate returns, whatever fails in it: the only thing that can stop it is
\* a background loop that has locked itself out (generator.go:199).
RegenerateReturns ==
  \A p \in Procs : pc[p] = "locking" ~> \/ pc[p] \in {"off", "looping", "selecting"}
                                        \/ \E b \in Loops : SelfLocked(b)

(***************************************************************************)
(* Claims of the documentation that the code does not keep.                *)
(***************************************************************************)

\* docs/crl_generation.md:53: while the service runs with its background loop,
\* a revocation gets into the served list.
RevocationIsPublished ==
  \A s \in Serials :
    (s \in ListRevoked /\ running /\ \E b \in Loops : pc[b] # "off")
      ~> \/ cached # NoCRL /\ s \in cached.entries
         \/ ~running \/ cancelled

\* generator.go:212: Stop halts the periodic goroutine, so there are never two
\* waiting on the channel of the same Start.
OneLoopPerStart ==
  \A a, b \in Loops :
    pc[a] = "selecting" /\ pc[b] = "selecting" /\ watched[a] = watched[b]
    /\ watched[a] \notin closed => a = b
=============================================================================
