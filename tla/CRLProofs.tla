------------------------------ MODULE CRLProofs ------------------------------
(***************************************************************************)
(* The safety properties TLC checks of CRLService, proved for any number   *)
(* of callers, background loops, serials, calls and restarts.              *)
(***************************************************************************)
EXTENDS CRLService, TLAPS

\* The part of the invariant about the generator, and that about the channels.
GeneratorInv ==
  /\ MutexHeld /\ SignedBelow /\ HandCovers /\ RegenerateIsFresh
  /\ NumbersOrdered /\ LaterListsCoverEarlier

ChannelInv == ChannelsClosed /\ NoLoopLeftBehind

\* What a step of p outside Begin does to the goroutines, as far as the
\* invariant is concerned: p leaves Regenerate, and a loop may be spawned.
Left(p) ==
  /\ pc' \in [Procs -> {"off", "locking", "listing", "signing", "publishing", "looping", "selecting"}]
  /\ hand' \in [Procs -> CRLs \cup {NoCRL}]
  /\ known' \in [Procs -> SUBSET Serials]
  /\ starting' \subseteq starting
  /\ watched' = watched
  /\ pc'[p] \in {"off", "looping"}
  /\ known'[p] = {}
  /\ \A q \in Procs \ {p} : /\ hand'[q] = hand[q] /\ known'[q] = known[q]
                            /\ pc'[q] = pc[q] \/ (pc[q] = "off" /\ pc'[q] = "looping")
  /\ (\E b \in Loops : pc'[b] # "off") => starting # {} \/ \E b \in Loops : pc[b] # "off"

-----------------------------------------------------------------------------
(***************************************************************************)
(* Lemmas about steps.                                                     *)
(***************************************************************************)

\* Return does no more than Left says.
LEMMA ReturnLeaves ==
  ASSUME TypeOK, NEW p \in Procs, NEW ok \in BOOLEAN, pc[p] # "off", Return(p, ok)
  PROVE  Left(p)
<1>1. /\ hand' \in [Procs -> CRLs \cup {NoCRL}]
      /\ known' \in [Procs -> SUBSET Serials]
      /\ starting' \subseteq starting
      /\ watched' = watched
      /\ known'[p] = {}
      /\ \A q \in Procs \ {p} : hand'[q] = hand[q] /\ known'[q] = known[q]
  BY DEF TypeOK, Return
<1>2. CASE p \in Loops
  BY <1>1, <1>2 DEF TypeOK, Return, Leave, Goto, Left, Procs
<1>3. CASE p \notin Loops /\ ~(ok /\ p \in starting)
  BY <1>1, <1>3 DEF TypeOK, Return, Leave, Goto, Left, Procs
<1>4. CASE p \notin Loops /\ ok /\ p \in starting
  <2>1. PICK b \in Loops : pc[b] = "off" /\ pc' = [pc EXCEPT ![p] = "off", ![b] = "looping"]
    BY <1>4 DEF Return, Leave
  <2> QED BY <1>1, <1>4, <2>1 DEF TypeOK, Left, Procs
<1> QED BY <1>2, <1>3, <1>4

\* A step that signs nothing, keeps the revocations and moves no goroutine
\* forward under the mutex keeps the generator's part.
LEMMA QuietGenerator ==
  ASSUME GeneratorInv,
         UNCHANGED <<signed, crlNumber, restarts, revocations>>,
         \A q \in Procs : known'[q] = known[q] \/ known'[q] \subseteq ListRevoked,
         \A q \in Procs : pc'[q] \in {"listing", "signing", "publishing"} =>
           pc'[q] = pc[q] /\ hand'[q] = hand[q] /\ known'[q] = known[q],
         \A q \in Procs : pc'[q] \in {"listing", "signing"} => mu' = mu
  PROVE  GeneratorInv'
<1>1. ListRevoked' = ListRevoked
  BY DEF ListRevoked
<1>2. MutexHeld'
  BY DEF GeneratorInv, MutexHeld
<1>3. SignedBelow' /\ NumbersOrdered' /\ LaterListsCoverEarlier'
  BY <1>1 DEF GeneratorInv, SignedBelow, NumbersOrdered, LaterListsCoverEarlier
<1>4. HandCovers'
  BY <1>1 DEF GeneratorInv, HandCovers
<1>5. RegenerateIsFresh'
  BY DEF GeneratorInv, RegenerateIsFresh
<1> QED BY <1>2, <1>3, <1>4, <1>5 DEF GeneratorInv

\* A step that leaves the channels alone, lets no loop into its select and
\* spawns one only for a Start keeps the part about the channels.
LEMMA QuietChannels ==
  ASSUME ChannelInv,
         UNCHANGED <<running, stopCh, closed, watched>>,
         starting' \subseteq starting,
         \A b \in Loops : pc'[b] = "selecting" => pc[b] = "selecting",
         (\E b \in Loops : pc'[b] # "off") => starting # {} \/ \E b \in Loops : pc[b] # "off"
  PROVE  ChannelInv'
BY DEF ChannelInv, ChannelsClosed, NoLoopLeftBehind

\* The goroutine that leaves Regenerate without signing, releasing the mutex
\* if it has it, keeps both parts.
LEMMA LeavingKeeps ==
  ASSUME TypeOK, GeneratorInv, ChannelInv, NEW p \in Procs, Left(p),
         mu' = mu \/ mu = p,
         UNCHANGED <<signed, crlNumber, restarts, revocations, running, stopCh, closed>>
  PROVE  GeneratorInv' /\ ChannelInv'
<1>1. \A q \in Procs : pc'[q] \in {"listing", "signing", "publishing"} =>
        q # p /\ pc'[q] = pc[q] /\ hand'[q] = hand[q] /\ known'[q] = known[q]
  BY DEF Left
<1>2. \A q \in Procs : known'[q] = known[q] \/ known'[q] \subseteq ListRevoked
  BY DEF Left
<1>3. \A q \in Procs : pc'[q] \in {"listing", "signing"} => mu' = mu
  BY <1>1 DEF GeneratorInv, MutexHeld
<1>4. GeneratorInv'
  BY <1>1, <1>2, <1>3, QuietGenerator
<1>5. \A b \in Loops : pc'[b] = "selecting" => pc[b] = "selecting"
  BY DEF Left, Procs
<1>6. ChannelInv'
  BY <1>5, QuietChannels DEF Left
<1> QED BY <1>4, <1>6

-----------------------------------------------------------------------------
(***************************************************************************)
(* The steps of Regenerate.                                                *)
(***************************************************************************)

\* Begin moves one goroutine to the mutex, with the revocations of this moment.
LEMMA BeginQuiet ==
  ASSUME TypeOK, NEW p \in Procs, Begin(p)
  PROVE  /\ pc' \in [Procs -> {"off", "locking", "listing", "signing", "publishing", "looping", "selecting"}]
         /\ known' \in [Procs -> SUBSET Serials]
         /\ pc'[p] = "locking"
         /\ known'[p] = ListRevoked
         /\ \A q \in Procs \ {p} : pc'[q] = pc[q] /\ known'[q] = known[q]
<1>1. ListRevoked \in SUBSET Serials
  BY DEF ListRevoked
<1> QED BY <1>1 DEF TypeOK, Begin, Goto

\* Taking the mutex.
LEMMA LockStep ==
  ASSUME CRLInv, NEW p \in Procs, Lock(p)
  PROVE  CRLInv'
<1> USE DEF Lock, Goto
<1>1. TypeOK'
  BY DEF CRLInv, TypeOK, storeVars, serviceVars, boundVars, StorageTypeOK
<1>2. MutexHeld'
  BY CRLAssumption DEF CRLInv, TypeOK, MutexHeld, Procs
<1>3. ListRevoked' = ListRevoked
  BY DEF storeVars, ListRevoked
<1>4. SignedBelow' /\ NumbersOrdered' /\ LaterListsCoverEarlier'
  BY <1>3 DEF CRLInv, SignedBelow, NumbersOrdered, LaterListsCoverEarlier, boundVars
<1>5. HandCovers' /\ RegenerateIsFresh'
  BY <1>3 DEF CRLInv, TypeOK, HandCovers, RegenerateIsFresh, boundVars
<1>6. ChannelInv'
  <2>1. \A b \in Loops : pc'[b] = "selecting" => pc[b] = "selecting"
    BY DEF CRLInv, TypeOK
  <2>2. (\E b \in Loops : pc'[b] # "off") => \E b \in Loops : pc[b] # "off"
    BY DEF CRLInv, TypeOK
  <2> QED BY <2>1, <2>2, QuietChannels DEF CRLInv, ChannelInv, serviceVars
<1> QED BY <1>1, <1>2, <1>4, <1>5, <1>6 DEF CRLInv, ChannelInv

\* Fetching the records: they cover what was known when the call began, and,
\* as revocations are never undone, every list signed before.
LEMMA ListStep ==
  ASSUME CRLInv, NEW p \in Procs, List(p)
  PROVE  CRLInv'
<1>1. CASE Return(p, FALSE) /\ mu' = Free
  <2>1. Left(p)
    BY <1>1, ReturnLeaves DEF CRLInv, List
  <2>2. TypeOK'
    BY <1>1, <2>1 DEF CRLInv, TypeOK, Left, List, storeVars, serviceVars, boundVars, StorageTypeOK
  <2>3. mu = p
    BY DEF CRLInv, MutexHeld, List
  <2>4. GeneratorInv' /\ ChannelInv'
    BY <2>1, <2>3, LeavingKeeps DEF CRLInv, GeneratorInv, ChannelInv, List, storeVars, serviceVars, boundVars
  <2> QED BY <2>2, <2>4 DEF CRLInv, GeneratorInv, ChannelInv
<1>2. CASE /\ hand' = [hand EXCEPT ![p] = CRL(0, ListRevoked)]
           /\ Goto(p, "signing")
           /\ UNCHANGED <<mu, known, starting, watched>>
  <2> USE <1>2 DEF List, Goto
  <2>1. CRL(0, ListRevoked) \in CRLs /\ CRL(0, ListRevoked).entries = ListRevoked
    BY DEF CRL, CRLs, ListRevoked, CRLInv, TypeOK
  <2>2. TypeOK'
    BY <2>1 DEF CRLInv, TypeOK, storeVars, serviceVars, boundVars, StorageTypeOK
  <2>3. MutexHeld'
    BY DEF CRLInv, TypeOK, MutexHeld
  <2>4. ListRevoked' = ListRevoked
    BY DEF storeVars, ListRevoked
  <2>5. SignedBelow' /\ NumbersOrdered' /\ LaterListsCoverEarlier'
    BY <2>4 DEF CRLInv, SignedBelow, NumbersOrdered, LaterListsCoverEarlier, boundVars
  <2>6. HandCovers'
    BY <2>1, <2>4 DEF CRLInv, TypeOK, HandCovers, SignedBelow, boundVars
  <2>7. RegenerateIsFresh'
    BY DEF CRLInv, TypeOK, RegenerateIsFresh
  <2>8. ChannelInv'
    <3>1. \A b \in Loops : pc'[b] = "selecting" => pc[b] = "selecting"
      BY DEF CRLInv, TypeOK
    <3>2. (\E b \in Loops : pc'[b] # "off") => \E b \in Loops : pc[b] # "off"
      BY DEF CRLInv, TypeOK
    <3> QED BY <3>1, <3>2, QuietChannels DEF CRLInv, ChannelInv, serviceVars
  <2> QED BY <2>2, <2>3, <2>5, <2>6, <2>7, <2>8 DEF CRLInv, ChannelInv
<1> QED BY <1>1, <1>2 DEF List

\* Signing: the new list has the highest number of its process, and covers the
\* lists with lower ones.
LEMMA SignStep ==
  ASSUME CRLInv, NEW p \in Procs, Sign(p)
  PROVE  CRLInv'
<1> DEFINE crl == CRL(crlNumber + 1, hand[p].entries)
<1>1. /\ hand[p] \in CRLs /\ mu = p
      /\ known[p] \subseteq hand[p].entries
      /\ hand[p].entries \subseteq ListRevoked
      /\ \A c \in signed : c.entries \subseteq hand[p].entries
  BY DEF CRLInv, MutexHeld, HandCovers, Sign
<1>2. /\ crl \in CRLs /\ crl.number = crlNumber + 1 /\ crl.number > 0
      /\ crl.boot = restarts /\ crl.entries = hand[p].entries
  BY <1>1 DEF CRL, CRLs, CRLInv, TypeOK
<1>3. ListRevoked' = ListRevoked
  BY DEF Sign, storeVars, ListRevoked
<1>4. \A q \in Procs \ {p} : pc[q] \notin {"listing", "signing"}
  BY <1>1 DEF CRLInv, MutexHeld
<1>5. CASE /\ hand' = [hand EXCEPT ![p] = crl]
           /\ signed' = signed \cup {crl}
           /\ Goto(p, "publishing")
           /\ UNCHANGED <<known, starting, watched>>
  <2> HIDE DEF crl
  <2> USE <1>5 DEF Sign, Goto
  <2>1. TypeOK'
    BY <1>2 DEF CRLInv, TypeOK, storeVars, serviceVars, boundVars, StorageTypeOK
  <2>2. MutexHeld'
    BY <1>4 DEF CRLInv, TypeOK, MutexHeld
  <2>3. SignedBelow'
    <3>1. crlNumber' = crlNumber + 1 /\ crlNumber \in Nat /\ restarts' = restarts /\ restarts \in Nat
      BY DEF CRLInv, TypeOK, boundVars
    <3>2. \A c \in signed : /\ c.number \in Nat /\ c.boot <= restarts
                            /\ c.boot = restarts => c.number <= crlNumber
                            /\ c.entries \subseteq ListRevoked
      BY DEF CRLInv, TypeOK, SignedBelow, CRLs
    <3> QED BY <1>1, <1>2, <1>3, <3>1, <3>2 DEF SignedBelow
  <2>4. NumbersOrdered'
    <3>1. \A c \in signed : c.boot = restarts => c.number < crl.number /\ c.entries \subseteq crl.entries
      BY <1>1, <1>2 DEF CRLInv, TypeOK, SignedBelow, CRLs
    <3>2. crl.number \in Nat /\ \A c \in signed : c.number \in Nat
      BY <1>2 DEF CRLInv, TypeOK, CRLs
    <3> QED BY <1>2, <3>1, <3>2 DEF CRLInv, NumbersOrdered
  <2>8. LaterListsCoverEarlier'
    <3>1. \A c \in signed : c.entries \subseteq crl.entries /\ c.boot <= crl.boot /\ c.boot \in Nat
      BY <1>1, <1>2 DEF CRLInv, TypeOK, SignedBelow, CRLs
    <3>2. crl.boot \in Nat  BY <1>2 DEF CRLInv, TypeOK
    <3>3. \A c \in signed : ~(crl.boot < c.boot)  BY <3>1, <3>2
    <3> QED BY <3>1, <3>2, <3>3 DEF CRLInv, LaterListsCoverEarlier
  <2>5. HandCovers'
    BY <1>3, <1>4 DEF CRLInv, TypeOK, HandCovers, boundVars
  <2>6. RegenerateIsFresh'
    BY <1>1, <1>2 DEF CRLInv, TypeOK, RegenerateIsFresh
  <2>7. ChannelInv'
    <3>1. \A b \in Loops : pc'[b] = "selecting" => pc[b] = "selecting"
      BY DEF CRLInv, TypeOK
    <3>2. (\E b \in Loops : pc'[b] # "off") => \E b \in Loops : pc[b] # "off"
      BY DEF CRLInv, TypeOK
    <3> QED BY <3>1, <3>2, QuietChannels DEF CRLInv, ChannelInv, serviceVars
  <2> QED BY <2>1, <2>2, <2>3, <2>4, <2>5, <2>6, <2>7, <2>8 DEF CRLInv, ChannelInv
<1>6. CASE Return(p, FALSE) /\ UNCHANGED signed
  <2>1. Left(p)
    BY <1>6, ReturnLeaves DEF CRLInv, Sign
  <2>2. TypeOK'
    BY <1>6, <2>1 DEF CRLInv, TypeOK, Left, Sign, storeVars, serviceVars, boundVars, StorageTypeOK
  <2>3. \A q \in Procs : pc'[q] \notin {"listing", "signing"}
    BY <1>4, <2>1 DEF Left
  <2>4. MutexHeld'
    BY <2>3 DEF MutexHeld
  <2>5. SignedBelow'
    BY <1>3, <1>6 DEF CRLInv, TypeOK, SignedBelow, Sign, boundVars, CRLs
  <2>6. NumbersOrdered' /\ LaterListsCoverEarlier'
    BY <1>6 DEF CRLInv, NumbersOrdered, LaterListsCoverEarlier
  <2>7. HandCovers'
    BY <1>3, <1>6, <2>1, <2>3 DEF CRLInv, HandCovers, Left
  <2>8. RegenerateIsFresh'
    BY <2>1 DEF CRLInv, RegenerateIsFresh, Left
  <2>9. ChannelInv'
    <3>1. \A b \in Loops : pc'[b] = "selecting" => pc[b] = "selecting"
      BY <2>1 DEF Left, Procs
    <3> QED BY <2>1, <3>1, QuietChannels DEF CRLInv, ChannelInv, Sign, serviceVars, Left
  <2> QED BY <2>2, <2>4, <2>5, <2>6, <2>7, <2>8, <2>9 DEF CRLInv, ChannelInv
<1> QED BY <1>5, <1>6 DEF Sign

\* Publishing, and for Start spawning the loop.
LEMMA PublishStep ==
  ASSUME CRLInv, NEW p \in Procs, Publish(p)
  PROVE  CRLInv'
<1>1. Left(p)
  BY ReturnLeaves DEF CRLInv, Publish
<1>2. TypeOK'
  BY <1>1 DEF CRLInv, TypeOK, HandCovers, Left, Publish, storeVars, generatorVars, boundVars, StorageTypeOK
<1>3. GeneratorInv' /\ ChannelInv'
  BY <1>1, LeavingKeeps DEF CRLInv, GeneratorInv, ChannelInv, Publish, storeVars, generatorVars, boundVars
<1> QED BY <1>2, <1>3 DEF CRLInv, GeneratorInv, ChannelInv

-----------------------------------------------------------------------------
(***************************************************************************)
(* The steps of the API, the loops and the environment.                    *)
(***************************************************************************)

\* A call or a tick that begins a regeneration without signing anything keeps
\* the generator's part, provided the mutex of a running one stays with it.
LEMMA BeginKeeps ==
  ASSUME CRLInv, NEW p \in Procs, Begin(p), pc[p] \in {"off", "selecting"},
         mu' = mu \/ mu = Free,
         UNCHANGED <<signed, crlNumber, restarts, revocations, hand>>
  PROVE  GeneratorInv'
<1>1. \A q \in Procs : pc'[q] \in {"listing", "signing", "publishing"} =>
        pc'[q] = pc[q] /\ hand'[q] = hand[q] /\ known'[q] = known[q]
  BY BeginQuiet DEF CRLInv
<1>2. \A q \in Procs : known'[q] = known[q] \/ known'[q] \subseteq ListRevoked
  BY BeginQuiet DEF CRLInv
<1>3. \A q \in Procs : pc'[q] \in {"listing", "signing"} => mu' = mu
  BY <1>1, CRLAssumption DEF CRLInv, MutexHeld, Procs
<1> QED BY <1>1, <1>2, <1>3, QuietGenerator DEF CRLInv, GeneratorInv

\* A call of Regenerate, Start or Stop.
LEMMA CallStep ==
  ASSUME CRLInv, NEW c \in Callers, Regenerate(c) \/ Start(c) \/ Stop(c)
  PROVE  CRLInv'
<1>1. c \in Procs /\ c \notin Loops
  BY CRLAssumption DEF Procs
<1>2. CASE Regenerate(c)
  <2>1. TypeOK'
    BY <1>1, <1>2, BeginQuiet DEF CRLInv, TypeOK, Regenerate, Call, storeVars, serviceVars, generatorVars, StorageTypeOK
  <2>2. GeneratorInv'
    BY <1>1, <1>2, BeginKeeps DEF Regenerate, Call, storeVars, generatorVars
  <2>3. \A b \in Loops : pc'[b] = pc[b]
    BY <1>1, <1>2, BeginQuiet DEF CRLInv, Regenerate, Procs
  <2>4. ChannelInv'
    BY <1>2, <2>3, QuietChannels DEF CRLInv, ChannelInv, Regenerate, serviceVars
  <2> QED BY <2>1, <2>2, <2>4 DEF CRLInv, GeneratorInv, ChannelInv
<1>3. CASE Start(c) /\ running
  <2>1. TypeOK'
    <3>1. running' \in BOOLEAN /\ cancelled' \in BOOLEAN
      BY <1>3 DEF CRLInv, TypeOK, Start, serviceVars
    <3>2. UNCHANGED <<storeVars, serviceVars, generatorVars, procVars, restarts>> /\ calls' = calls + 1
      BY <1>3 DEF Start, Call
    <3> QED BY <3>1, <3>2 DEF CRLInv, TypeOK, storeVars, serviceVars, generatorVars, procVars, StorageTypeOK
  <2>2. GeneratorInv'
    BY <1>3, QuietGenerator DEF CRLInv, GeneratorInv, Start, Call, storeVars, generatorVars, procVars
  <2>3. ChannelInv'
    BY <1>3, QuietChannels DEF CRLInv, ChannelInv, Start, serviceVars, procVars
  <2> QED BY <2>1, <2>2, <2>3 DEF CRLInv, GeneratorInv, ChannelInv
<1>4. CASE Start(c) /\ ~running
  <2>1. TypeOK'
    <3>1. running' \in BOOLEAN /\ cancelled' \in BOOLEAN
      BY <1>4 DEF CRLInv, TypeOK, Start
    <3>2. stopCh' = stopCh + 1 /\ closed' = closed /\ UNCHANGED <<cached, signed>>
      BY <1>4 DEF Start, generatorVars
    <3>3. stopCh' \in Nat /\ closed' \subseteq 1 .. stopCh' /\ cached' \in signed' \cup {NoCRL}
      BY <3>2 DEF CRLInv, TypeOK
    <3> QED BY <1>1, <1>4, <3>1, <3>3, BeginQuiet DEF CRLInv, TypeOK, Start, Call, storeVars, generatorVars, StorageTypeOK
  <2>2. GeneratorInv'
    BY <1>1, <1>4, BeginKeeps DEF Start, Call, storeVars, generatorVars
  <2>3. \A b \in Loops : pc'[b] = pc[b]
    BY <1>1, <1>4, BeginQuiet DEF CRLInv, Start, Procs
  <2>4. ChannelInv'
    BY <1>4, <2>3 DEF CRLInv, TypeOK, ChannelInv, ChannelsClosed, NoLoopLeftBehind, Start
  <2> QED BY <2>1, <2>2, <2>4 DEF CRLInv, GeneratorInv, ChannelInv
<1>5. CASE Stop(c)
  <2>1. TypeOK'
    <3>1. closed' \subseteq 1 .. stopCh' /\ running' \in BOOLEAN
      <4>1. CASE running
        <5>1. closed' = closed \cup {stopCh} /\ running' = FALSE /\ stopCh' = stopCh
          BY <1>5, <4>1 DEF Stop
        <5>2. stopCh > 0
          BY <4>1 DEF CRLInv, ChannelsClosed
        <5>3. closed' \subseteq 1 .. stopCh'
          BY <5>1, <5>2 DEF CRLInv, TypeOK
        <5> QED BY <5>1, <5>3
      <4>2. CASE ~running
        BY <1>5, <4>2 DEF CRLInv, TypeOK, Stop
      <4> QED BY <4>1, <4>2
    <3> QED BY <1>5, <3>1 DEF CRLInv, TypeOK, Stop, Call, storeVars, generatorVars, procVars, StorageTypeOK
  <2>2. GeneratorInv'
    BY <1>5, QuietGenerator DEF CRLInv, GeneratorInv, Stop, Call, storeVars, generatorVars, procVars
  <2>3. ChannelInv'
    BY <1>5 DEF CRLInv, TypeOK, ChannelInv, ChannelsClosed, NoLoopLeftBehind, Stop, procVars
  <2> QED BY <2>1, <2>2, <2>3 DEF CRLInv, GeneratorInv, ChannelInv
<1> QED BY <1>2, <1>3, <1>4, <1>5

\* A step of a background loop.  A tick takes the mutex only when it is free,
\* so that no regeneration under way can lose it.
LEMMA LoopStep ==
  ASSUME CRLInv, NEW b \in Loops, Select(b) \/ Tick(b) \/ Quit(b)
  PROVE  CRLInv'
<1>1. b \in Procs
  BY DEF Procs
<1>2. CASE Select(b)
  <2> USE <1>2 DEF Select, Goto
  <2>1. TypeOK'
    BY <1>1 DEF CRLInv, TypeOK, storeVars, serviceVars, generatorVars, boundVars, StorageTypeOK
  <2>2. GeneratorInv'
    <3>1. \A q \in Procs : pc'[q] \in {"listing", "signing", "publishing"} =>
            pc'[q] = pc[q] /\ hand'[q] = hand[q] /\ known'[q] = known[q]
      BY <1>1 DEF CRLInv, TypeOK
    <3> QED BY <3>1, QuietGenerator DEF CRLInv, GeneratorInv, storeVars, generatorVars, boundVars
  <2>3. ChannelInv'
    BY <1>1 DEF CRLInv, TypeOK, ChannelInv, ChannelsClosed, NoLoopLeftBehind, serviceVars
  <2> QED BY <2>1, <2>2, <2>3 DEF CRLInv, GeneratorInv, ChannelInv
<1>3. CASE Tick(b)
  <2>1. TypeOK'
    BY <1>1, <1>3, BeginQuiet DEF CRLInv, TypeOK, Tick, storeVars, serviceVars, boundVars, StorageTypeOK, Procs
  <2>2. ASSUME mu = Free PROVE GeneratorInv'
    <3>1. \A q \in Procs : pc[q] \notin {"listing", "signing"}
      BY <2>2, CRLAssumption DEF CRLInv, MutexHeld, Procs
    <3>2. \A q \in Procs : pc'[q] \in {"listing", "signing", "publishing"} =>
            pc'[q] = pc[q] /\ hand'[q] = hand[q] /\ known'[q] = known[q]
      BY <1>1, <1>3, BeginQuiet DEF CRLInv, Tick
    <3>3. \A q \in Procs : known'[q] = known[q] \/ known'[q] \subseteq ListRevoked
      BY <1>1, <1>3, BeginQuiet DEF CRLInv, Tick
    <3>4. \A q \in Procs : pc'[q] \notin {"listing", "signing"}
      BY <3>1, <3>2
    <3> QED BY <1>3, <3>2, <3>3, <3>4, QuietGenerator DEF CRLInv, GeneratorInv, Tick, storeVars, boundVars
  <2>3. ASSUME mu # Free PROVE GeneratorInv'
    BY <1>1, <1>3, <2>3, BeginKeeps DEF Tick, storeVars, boundVars
  <2>4. ChannelInv'
    <3>1. \A a \in Loops : pc'[a] = "selecting" => pc[a] = "selecting"
      BY <1>1, <1>3, BeginQuiet DEF CRLInv, Tick, Procs
    <3>2. pc[b] # "off"
      BY <1>3 DEF Tick
    <3> QED BY <1>3, <3>1, <3>2, QuietChannels DEF CRLInv, ChannelInv, Tick, serviceVars
  <2>5. GeneratorInv'
    BY <2>2, <2>3
  <2> QED BY <2>1, <2>4, <2>5 DEF CRLInv, GeneratorInv, ChannelInv
<1>4. CASE Quit(b)
  <2> USE <1>4 DEF Quit, Goto
  <2>1. TypeOK'
    BY <1>1 DEF CRLInv, TypeOK, storeVars, serviceVars, generatorVars, boundVars, StorageTypeOK
  <2>2. GeneratorInv'
    <3>1. \A q \in Procs : pc'[q] \in {"listing", "signing", "publishing"} =>
            pc'[q] = pc[q] /\ hand'[q] = hand[q] /\ known'[q] = known[q]
      BY <1>1 DEF CRLInv, TypeOK
    <3> QED BY <3>1, QuietGenerator DEF CRLInv, GeneratorInv, storeVars, generatorVars, boundVars
  <2>3. ChannelInv'
    <3>1. \A a \in Loops : pc'[a] = "selecting" => pc[a] = "selecting"
      BY <1>1 DEF CRLInv, TypeOK, Procs
    <3>2. pc[b] # "off"
      OBVIOUS
    <3> QED BY <3>1, <3>2, QuietChannels DEF CRLInv, ChannelInv, serviceVars
  <2> QED BY <2>1, <2>2, <2>3 DEF CRLInv, GeneratorInv, ChannelInv
<1> QED BY <1>2, <1>3, <1>4

\* A revocation only adds to what lists may contain.
LEMMA RevokeStep ==
  ASSUME CRLInv, NEW s \in Serials, NEW r \in Reasons, Revoke(s, r)
  PROVE  CRLInv'
<1> USE DEF Revoke
<1>1. TypeOK'
  BY DEF CRLInv, TypeOK, StorageTypeOK, RevokeCertificate, storeVars, serviceVars, generatorVars, procVars, boundVars
<1>2. ListRevoked \subseteq ListRevoked'
  BY StorageAssumption DEF ListRevoked, CRLInv, TypeOK, StorageTypeOK, RevokeCertificate, storeVars
<1>3. SignedBelow' /\ NumbersOrdered' /\ LaterListsCoverEarlier'
  BY <1>2 DEF CRLInv, SignedBelow, NumbersOrdered, LaterListsCoverEarlier, generatorVars, boundVars
<1>4. MutexHeld' /\ HandCovers' /\ RegenerateIsFresh'
  BY <1>2 DEF CRLInv, MutexHeld, HandCovers, RegenerateIsFresh, generatorVars, procVars, boundVars
<1>5. ChannelInv'
  BY QuietChannels DEF CRLInv, ChannelInv, serviceVars, procVars
<1> QED BY <1>1, <1>3, <1>4, <1>5 DEF CRLInv, ChannelInv

\* A restart loses everything but the store; the numbers begin again, which is
\* why they are ordered per process only.
LEMMA RestartStep ==
  ASSUME CRLInv, Restart
  PROVE  CRLInv'
<1>1. TypeOK'
  <2>1. running' \in BOOLEAN /\ cancelled' \in BOOLEAN
    BY DEF Restart
  <2> QED BY <2>1 DEF Restart, CRLInv, TypeOK, StorageTypeOK, storeVars
<1> USE DEF Restart
<1>2. ListRevoked' = ListRevoked
  BY DEF ListRevoked, storeVars
<1>3. SignedBelow'
  BY <1>2 DEF CRLInv, TypeOK, SignedBelow, CRLs
<1>4. NumbersOrdered' /\ LaterListsCoverEarlier'
  BY DEF CRLInv, NumbersOrdered, LaterListsCoverEarlier
<1>5. MutexHeld' /\ RegenerateIsFresh' /\ HandCovers'
  BY DEF MutexHeld, RegenerateIsFresh, HandCovers
<1>6. ChannelInv'
  BY DEF ChannelInv, ChannelsClosed, NoLoopLeftBehind, Procs
<1> QED BY <1>1, <1>3, <1>4, <1>5, <1>6 DEF CRLInv, ChannelInv

\* The context's cancellation, and stuttering.
LEMMA CancelStep ==
  ASSUME CRLInv, Cancel \/ UNCHANGED vars
  PROVE  CRLInv'
<1>1. /\ UNCHANGED <<storeVars, generatorVars, procVars, boundVars, cached, running, stopCh, closed>>
      /\ cancelled' \in BOOLEAN
  BY DEF CRLInv, TypeOK, Cancel, vars, serviceVars
<1>2. TypeOK'
  BY <1>1 DEF CRLInv, TypeOK, StorageTypeOK, storeVars, generatorVars, procVars, boundVars
<1>3. GeneratorInv'
  BY <1>1, QuietGenerator DEF CRLInv, GeneratorInv, storeVars, generatorVars, procVars, boundVars
<1>4. ChannelInv'
  BY <1>1, QuietChannels DEF CRLInv, ChannelInv, procVars
<1> QED BY <1>2, <1>3, <1>4 DEF CRLInv, GeneratorInv, ChannelInv

-----------------------------------------------------------------------------
(***************************************************************************)
(* Theorems.                                                               *)
(***************************************************************************)

\* The invariant holds initially and is kept by every step.
LEMMA CRLInductive ==
  (Init => CRLInv) /\ (CRLInv /\ [Next]_vars => CRLInv')
<1>1. ASSUME Init PROVE CRLInv
  <2> USE <1>1 DEF Init
  <2>1. TypeOK
    BY DEF TypeOK, StorageTypeOK
  <2>2. /\ MutexHeld /\ SignedBelow /\ HandCovers /\ RegenerateIsFresh
        /\ NumbersOrdered /\ LaterListsCoverEarlier
    BY DEF MutexHeld, SignedBelow, HandCovers, RegenerateIsFresh, NumbersOrdered, LaterListsCoverEarlier
  <2>3. ChannelsClosed /\ NoLoopLeftBehind
    BY DEF ChannelsClosed, NoLoopLeftBehind, Procs
  <2> QED BY <2>1, <2>2, <2>3 DEF CRLInv
<1>2. ASSUME CRLInv, [Next]_vars PROVE CRLInv'
  <2>1. ASSUME NEW p \in Procs, Step(p) PROVE CRLInv'
    BY <1>2, <2>1, LockStep, ListStep, SignStep, PublishStep DEF Step
  <2> QED BY <1>2, <2>1, CallStep, LoopStep, RevokeStep, RestartStep, CancelStep DEF Next
<1> QED BY <1>1, <1>2

\* Every reachable state of the CRL service satisfies the whole invariant:
\* generator.go's counter, records and channels stay consistent.
THEOREM CRLInvariant == Spec => []CRLInv
BY CRLInductive, PTL DEF Spec

\* The variables keep their types and every signed list has a positive number
\* (generator.go:99).
THEOREM CRLTypeCorrect == Spec => []TypeOK
<1>1. CRLInv => TypeOK
  BY DEF CRLInv
<1> QED BY <1>1, CRLInvariant, PTL

\* Within one process the numbers of the signed lists are unique and ordered
\* like their contents, for any number of concurrent regenerations
\* (generator.go:71-121).
THEOREM NumbersAreOrdered == Spec => []NumbersOrdered
<1>1. CRLInv => NumbersOrdered
  BY DEF CRLInv
<1> QED BY <1>1, CRLInvariant, PTL

\* A list of a later process has every revocation an earlier one has listed,
\* however often and whenever processes stopped (generator.go:66, 76).
THEOREM RestartsLoseNoEntry == Spec => []LaterListsCoverEarlier
<1>1. CRLInv => LaterListsCoverEarlier
  BY DEF CRLInv
<1> QED BY <1>1, CRLInvariant, PTL

\* What Regenerate returns covers every revocation made before it was called
\* (generator.go:147).
THEOREM RegenerationsAreFresh == Spec => []RegenerateIsFresh
<1>1. CRLInv => RegenerateIsFresh
  BY DEF CRLInv
<1> QED BY <1>1, CRLInvariant, PTL

\* No sequence of Start, Stop and restarts leaves a background loop waiting on
\* an open channel that a later Stop would not close (generator.go:177-222).
THEOREM NoLoopIsLeftBehind == Spec => []NoLoopLeftBehind
<1>1. CRLInv => NoLoopLeftBehind
  BY DEF CRLInv
<1> QED BY <1>1, CRLInvariant, PTL

-----------------------------------------------------------------------------
(***************************************************************************)
(* The owner of the mutex, and the lists of this process.                  *)
(***************************************************************************)

\* What is served or about to be is a list of this process.
OwnLists ==
  /\ cached # NoCRL => cached.boot = restarts
  /\ \A p \in Procs : pc[p] = "publishing" => hand[p].boot = restarts

ServiceInv == CRLInv /\ OwnLists /\ OwnerReleases

\* A step that moves neither the owner of the mutex nor one who publishes.
LEMMA QuietOwner ==
  ASSUME ServiceInv, UNCHANGED <<mu, cached, restarts>>,
         \A q \in Procs : pc'[q] = "publishing" => pc[q] = "publishing" /\ hand'[q] = hand[q],
         \A q \in Procs : pc[q] \in {"listing", "signing", "locking"} => pc'[q] = pc[q]
  PROVE  OwnLists' /\ OwnerReleases'
<1>1. OwnLists'  BY DEF ServiceInv, OwnLists
<1>2. OwnerReleases'  BY DEF ServiceInv, OwnerReleases, SelfLocked, Procs
<1>3. QED  BY <1>1, <1>2

\* A goroutine that leaves Regenerate without publishing, and releases the
\* mutex if it has it.
LEMMA LeavingReleases ==
  ASSUME ServiceInv, NEW p \in Procs, Left(p), mu' = Free \/ (mu' = mu /\ mu # p),
         UNCHANGED <<cached, restarts>>
  PROVE  OwnLists' /\ OwnerReleases'
<1>1. \A q \in Procs : pc'[q] = "publishing" => pc[q] = "publishing" /\ hand'[q] = hand[q]
  BY DEF Left
<1>2. OwnLists'  BY <1>1 DEF ServiceInv, OwnLists
<1>3. CASE mu' = Free  BY <1>2, <1>3 DEF OwnerReleases
<1>4. CASE mu' = mu /\ mu # p /\ mu # Free
  <2>1. mu \in Procs /\ pc[mu] \in {"listing", "signing", "locking"}
    BY <1>4 DEF ServiceInv, OwnerReleases, SelfLocked, CRLInv, TypeOK
  <2>2. pc'[mu] = pc[mu]  BY <1>4, <2>1 DEF Left
  <2>3. QED  BY <1>2, <1>4, <2>1, <2>2 DEF ServiceInv, OwnerReleases, SelfLocked
<1>5. QED  BY <1>2, <1>3, <1>4

LEMMA ServiceStep == ServiceInv /\ [Next]_vars => ServiceInv'
<1> SUFFICES ASSUME ServiceInv, [Next]_vars PROVE OwnLists' /\ OwnerReleases'
  BY CRLInductive DEF ServiceInv
<1>0. CRLInv /\ TypeOK  BY DEF ServiceInv, CRLInv
<1>1. ASSUME NEW p \in Procs, Lock(p)  PROVE OwnLists' /\ OwnerReleases'
  <2>1. /\ mu' = p /\ pc'[p] = "listing" /\ UNCHANGED <<cached, restarts, hand>>
        /\ \A q \in Procs : pc'[q] = "publishing" => pc[q] = "publishing"
    BY <1>0, <1>1 DEF Lock, Goto, serviceVars, boundVars, TypeOK
  <2>2. OwnLists'  BY <2>1 DEF ServiceInv, OwnLists
  <2>3. OwnerReleases'  BY <2>1 DEF OwnerReleases
  <2>4. QED  BY <2>2, <2>3
<1>2. ASSUME NEW p \in Procs, List(p)  PROVE OwnLists' /\ OwnerReleases'
  <2>1. mu = p /\ UNCHANGED <<cached, restarts>>
    BY <1>0, <1>2 DEF List, CRLInv, MutexHeld, serviceVars, boundVars
  <2>2. CASE mu' = Free /\ Return(p, FALSE)
    <3>1. Left(p)  BY <1>0, <1>2, <2>2, ReturnLeaves DEF List
    <3>2. QED  BY <2>1, <2>2, <3>1, LeavingReleases
  <2>3. CASE /\ hand' = [hand EXCEPT ![p] = CRL(0, ListRevoked)]
             /\ Goto(p, "signing") /\ mu' = mu
    <3>1. /\ pc'[p] = "signing"
          /\ \A q \in Procs : pc'[q] = "publishing" => pc[q] = "publishing" /\ hand'[q] = hand[q]
      BY <1>0, <2>3 DEF Goto, TypeOK
    <3>2. OwnLists'  BY <2>1, <3>1 DEF ServiceInv, OwnLists
    <3>3. OwnerReleases'  BY <2>1, <2>3, <3>1 DEF OwnerReleases
    <3>4. QED  BY <3>2, <3>3
  <2>4. QED  BY <1>2, <2>2, <2>3 DEF List
<1>3. ASSUME NEW p \in Procs, Sign(p)  PROVE OwnLists' /\ OwnerReleases'
  <2>1. mu' = Free /\ UNCHANGED <<cached, restarts>>
    BY <1>3 DEF Sign, serviceVars, boundVars
  <2>2. CASE Return(p, FALSE)
    <3>1. Left(p)  BY <1>0, <1>3, <2>2, ReturnLeaves DEF Sign
    <3>2. QED  BY <2>1, <3>1, LeavingReleases
  <2>3. CASE /\ hand' = [hand EXCEPT ![p] = CRL(crlNumber + 1, hand[p].entries)]
             /\ Goto(p, "publishing")
    <3>1. PICK crl : crl = CRL(crlNumber + 1, hand[p].entries)  OBVIOUS
    <3>2. crl.boot = restarts /\ hand' = [hand EXCEPT ![p] = crl]  BY <2>3, <3>1 DEF CRL
    <3>3. \A q \in Procs : pc'[q] = "publishing" =>
            hand'[q].boot = restarts
      BY <1>0, <2>3, <3>2 DEF Goto, TypeOK, ServiceInv, OwnLists
    <3>4. OwnLists'  BY <2>1, <3>3 DEF ServiceInv, OwnLists
    <3>5. QED  BY <2>1, <3>4 DEF OwnerReleases
  <2>4. QED  BY <1>3, <2>2, <2>3 DEF Sign
<1>4. ASSUME NEW p \in Procs, Publish(p)  PROVE OwnLists' /\ OwnerReleases'
  <2>1. Left(p) /\ mu' = mu /\ cached' = hand[p] /\ restarts' = restarts /\ pc[p] = "publishing"
    BY <1>0, <1>4, ReturnLeaves DEF Publish, generatorVars, boundVars
  <2>2. OwnLists'  BY <2>1 DEF Left, ServiceInv, OwnLists
  <2>3. CASE mu = Free  BY <2>1, <2>2, <2>3 DEF OwnerReleases
  <2>4. CASE mu # Free
    <3>1. mu \in Procs /\ pc[mu] \in {"listing", "signing", "locking"}
      BY <1>0, <2>4 DEF ServiceInv, OwnerReleases, SelfLocked, TypeOK
    <3>2. pc'[mu] = pc[mu]  BY <2>1, <3>1 DEF Left
    <3>3. OwnerReleases'  BY <2>1, <2>4, <3>1, <3>2 DEF ServiceInv, OwnerReleases, SelfLocked
    <3>4. QED  BY <2>2, <3>3
  <2>5. QED  BY <2>2, <2>3, <2>4
<1>5. ASSUME NEW p \in Procs, pc[p] \in {"off", "selecting"}, Begin(p),
             UNCHANGED <<mu, cached, restarts, hand>>
      PROVE  OwnLists' /\ OwnerReleases'
  <2>1. pc'[p] = "locking" /\ \A q \in Procs \ {p} : pc'[q] = pc[q]  BY <1>0, <1>5, BeginQuiet
  <2>2. QED  BY <1>5, <2>1, QuietOwner
<1>6. ASSUME NEW c \in Callers, Regenerate(c)  PROVE OwnLists' /\ OwnerReleases'
  BY <1>5, <1>6 DEF Regenerate, Call, serviceVars, generatorVars, Procs
<1>7. ASSUME NEW c \in Callers, Start(c)  PROVE OwnLists' /\ OwnerReleases'
  <2>1. CASE running
    BY <1>7, <2>1, QuietOwner DEF Start, Call, serviceVars, generatorVars, procVars
  <2>2. CASE ~running
    BY <1>5, <1>7, <2>2 DEF Start, Call, generatorVars, Procs
  <2>3. QED  BY <2>1, <2>2
<1>8. ASSUME NEW c \in Callers, Stop(c)  PROVE OwnLists' /\ OwnerReleases'
  BY <1>8, QuietOwner DEF Stop, Call, generatorVars, procVars
<1>9. ASSUME NEW b \in Loops, Select(b) \/ Quit(b)  PROVE OwnLists' /\ OwnerReleases'
  <2>1. UNCHANGED <<mu, cached, restarts, hand>>
    BY <1>9 DEF Select, Quit, serviceVars, generatorVars, boundVars
  <2>2. /\ pc[b] \in {"looping", "selecting"} /\ pc'[b] \in {"off", "selecting"}
        /\ \A q \in Procs \ {b} : pc'[q] = pc[q]
    BY <1>0, <1>9 DEF Select, Quit, Goto, TypeOK, Procs
  <2>3. QED  BY <2>1, <2>2, QuietOwner
<1>10. ASSUME NEW b \in Loops, Tick(b)  PROVE OwnLists' /\ OwnerReleases'
  <2>1. Begin(b) /\ pc[b] = "selecting" /\ UNCHANGED <<cached, restarts, hand>>
    BY <1>10 DEF Tick, serviceVars, boundVars
  <2>2. CASE mu # Free  BY <1>5, <1>10, <2>1, <2>2 DEF Tick, Procs
  <2>3. CASE mu = Free
    <3>1. mu' = b /\ b \in Procs  BY <1>10, <2>3 DEF Tick, Procs
    <3>2. pc'[b] = "locking" /\ \A q \in Procs \ {b} : pc'[q] = pc[q]
      BY <1>0, <2>1, <3>1, BeginQuiet
    <3>3. OwnLists'  BY <2>1, <3>1, <3>2 DEF ServiceInv, OwnLists
    <3>4. OwnerReleases'  BY <3>1, <3>2 DEF OwnerReleases, SelfLocked
    <3>5. QED  BY <3>3, <3>4
  <2>4. QED  BY <2>2, <2>3
<1>11. ASSUME NEW s \in Serials, NEW r \in Reasons, Revoke(s, r)  PROVE OwnLists' /\ OwnerReleases'
  BY <1>11, QuietOwner DEF Revoke, serviceVars, generatorVars, procVars, boundVars
<1>12. CASE Cancel
  BY <1>12, QuietOwner DEF Cancel, generatorVars, procVars, boundVars
<1>13. CASE Restart
  BY <1>13 DEF Restart, OwnLists, OwnerReleases
<1>14. CASE UNCHANGED vars
  BY <1>14, QuietOwner DEF vars, serviceVars, generatorVars, procVars, boundVars
<1>15. QED
  BY <1>1, <1>2, <1>3, <1>4, <1>6, <1>7, <1>8, <1>9, <1>10, <1>11, <1>12, <1>13, <1>14
     DEF Next, Step

LEMMA ServiceInvariant == Spec => []ServiceInv
<1>1. Init => ServiceInv
  <2>1. Init => CRLInv  BY CRLInductive
  <2>2. Init => OwnLists /\ OwnerReleases  BY DEF Init, OwnLists, OwnerReleases
  <2>3. QED  BY <2>1, <2>2 DEF ServiceInv
<1>2. QED  BY <1>1, ServiceStep, PTL DEF Spec

\* OwnerReleases: whoever has the generator's mutex is in GenerateCRL and gives
\* it back on every path out of it, but for a loop that its own TryLock has
\* locked out (generator.go:72-73, 199).
THEOREM OnlyLoopsLockThemselvesOut == Spec => []OwnerReleases
<1>1. ServiceInv => OwnerReleases  BY DEF ServiceInv
<1>2. QED  BY <1>1, ServiceInvariant, PTL

\* LockoutIsFinal: after that nobody signs a list in this process any more, for
\* any number of callers and other loops (generator.go:199-204).
THEOREM LockoutsAreFinal == Spec => LockoutIsFinal
<1>1. ASSUME ServiceInv, [Next]_vars, NEW b \in Loops, SelfLocked(b)
      PROVE  restarts' # restarts \/ (SelfLocked(b)' /\ signed' = signed)
  <2>0. /\ CRLInv /\ TypeOK /\ b \in Procs /\ mu = b /\ mu # Free /\ pc[b] = "locking"
        /\ \A q \in Procs : pc[q] \notin {"listing", "signing"}
    BY <1>1, CRLAssumption DEF ServiceInv, CRLInv, MutexHeld, SelfLocked, Procs
  <2>1. ASSUME NEW p \in Procs, Step(p)  PROVE mu' = mu /\ pc'[b] = pc[b] /\ signed' = signed
    <3>1. Publish(p)  BY <2>0, <2>1 DEF Step, Lock, List, Sign
    <3>2. Left(p) /\ p # b /\ UNCHANGED <<mu, signed>>
      BY <2>0, <3>1, ReturnLeaves DEF Publish, generatorVars
    <3>3. QED  BY <2>0, <3>2 DEF Left
  <2>2. ASSUME NEW p \in Procs, p # b, Begin(p)  PROVE pc'[b] = pc[b]
    BY <2>0, <2>2, BeginQuiet
  <2>3. ASSUME NEW c \in Callers, Regenerate(c) \/ Start(c) \/ Stop(c)
        PROVE  mu' = mu /\ pc'[b] = pc[b] /\ signed' = signed
    <3>1. UNCHANGED <<mu, signed>> /\ (Begin(c) \/ pc' = pc)
      BY <2>3 DEF Regenerate, Start, Stop, generatorVars, procVars
    <3>2. c # b /\ c \in Procs  BY CRLAssumption DEF Procs
    <3>3. QED  BY <2>2, <3>1, <3>2
  <2>4. ASSUME NEW a \in Loops, Select(a) \/ Tick(a) \/ Quit(a)
        PROVE  mu' = mu /\ pc'[b] = pc[b] /\ signed' = signed
    <3>1. a # b /\ a \in Procs  BY <2>0, <2>4 DEF Select, Tick, Quit, Procs
    <3>2. UNCHANGED <<mu, signed>>
      BY <2>0, <2>4 DEF Select, Tick, Quit, generatorVars
    <3>3. Begin(a) \/ \E l \in {"selecting", "off"} : Goto(a, l)
      BY <2>4 DEF Select, Tick, Quit
    <3>4. pc'[b] = pc[b]  BY <2>0, <2>2, <3>1, <3>3 DEF Goto, TypeOK
    <3>5. QED  BY <3>2, <3>4
  <2>5. ASSUME (\E s \in Serials, r \in Reasons : Revoke(s, r)) \/ Cancel \/ UNCHANGED vars
        PROVE  mu' = mu /\ pc'[b] = pc[b] /\ signed' = signed
    BY <2>5 DEF Revoke, Cancel, vars, generatorVars, procVars
  <2>6. ASSUME Restart  PROVE restarts' # restarts
    BY <2>0, <2>6 DEF Restart, TypeOK
  <2>7. QED  BY <1>1, <2>0, <2>1, <2>3, <2>4, <2>5, <2>6 DEF Next, SelfLocked
<1>2. ServiceInv /\ [Next]_vars =>
        [\A b \in Loops : SelfLocked(b) =>
           \/ restarts' # restarts
           \/ SelfLocked(b)' /\ signed' = signed]_vars
  BY <1>1
<1>3. QED  BY <1>2, ServiceInvariant, PTL DEF Spec, LockoutIsFinal

-----------------------------------------------------------------------------
(***************************************************************************)
(* The refinement of RevocationLists: each step is one of its steps or     *)
(* leaves its variables alone.                                             *)
(***************************************************************************)
ThisBoot == {crl \in signed : crl.boot = restarts}

ListsStep == Lists!ListsNext \/ UNCHANGED Lists!listVars

\* A step that has nothing to do with the lists.
LEMMA StutterStep ==
  ASSUME UNCHANGED <<revocations, signed, restarts, cached, known>>  PROVE ListsStep
<1>1. ListRevoked' = ListRevoked  BY DEF ListRevoked
<1>2. QED  BY <1>1 DEF ListsStep, Lists!listVars

\* A call begins.
LEMMA AskStep ==
  ASSUME NEW p \in Procs, Begin(p), UNCHANGED <<revocations, signed, restarts, cached>>
  PROVE  ListsStep
<1>1. ListRevoked' = ListRevoked  BY DEF ListRevoked
<1>2. known' = [known EXCEPT ![p] = ListRevoked]  BY DEF Begin
<1>3. Lists!Ask(p)  BY <1>1, <1>2 DEF Lists!Ask
<1>4. QED  BY <1>3 DEF ListsStep, Lists!ListsNext

\* A call fails.
LEMMA GiveUpStep ==
  ASSUME NEW p \in Procs, Return(p, FALSE), UNCHANGED <<revocations, signed, restarts, cached>>
  PROVE  ListsStep
<1>1. ListRevoked' = ListRevoked  BY DEF ListRevoked
<1>2. known' = [known EXCEPT ![p] = {}]  BY DEF Return
<1>3. Lists!GiveUp(p)  BY <1>1, <1>2 DEF Lists!GiveUp
<1>4. QED  BY <1>3 DEF ListsStep, Lists!ListsNext

\* Sign: the list has the next number and everything the ones before it have,
\* because its records were fetched under the mutex it still holds.
LEMMA SignImplements ==
  ASSUME ServiceInv, NEW p \in Procs, Sign(p)  PROVE ListsStep
<1>1. UNCHANGED <<revocations, restarts, cached>> /\ pc[p] = "signing"
  BY DEF Sign, storeVars, serviceVars, boundVars
<1>2. CASE Return(p, FALSE) /\ UNCHANGED signed  BY <1>1, <1>2, GiveUpStep
<1>3. CASE /\ signed' = signed \cup {CRL(crlNumber + 1, hand[p].entries)}
           /\ UNCHANGED known
  <2>1. PICK crl : crl = CRL(crlNumber + 1, hand[p].entries)  OBVIOUS
  <2>2. /\ hand[p] \in CRLs /\ hand[p].entries \subseteq ListRevoked
        /\ \A c \in signed : c.entries \subseteq hand[p].entries
    BY <1>1 DEF ServiceInv, CRLInv, HandCovers
  <2>3. crlNumber \in Nat /\ signed \subseteq CRLs  BY DEF ServiceInv, CRLInv, TypeOK
  <2>4. /\ crl.boot = restarts /\ crl.number = crlNumber + 1 /\ crl.number > 0
        /\ crl.entries = hand[p].entries
    BY <2>1, <2>3 DEF CRL
  <2>5. ThisBoot' = ThisBoot \cup {crl}  BY <1>1, <1>3, <2>1, <2>4 DEF ThisBoot
  <2>6. \A l \in ThisBoot : l.number < crl.number /\ l.entries \subseteq crl.entries
    BY <2>2, <2>3, <2>4 DEF ServiceInv, CRLInv, SignedBelow, ThisBoot, CRLs
  <2>7. ListRevoked' = ListRevoked  BY <1>1 DEF ListRevoked
  <2>8. Lists!SignList  BY <1>1, <1>3, <2>2, <2>4, <2>5, <2>6, <2>7 DEF Lists!SignList, ThisBoot
  <2>9. QED  BY <2>8 DEF ListsStep, Lists!ListsNext
<1>4. QED  BY <1>2, <1>3 DEF Sign

\* Publish: the list in hand is one of this process, and covers the call.
LEMMA PublishImplements ==
  ASSUME ServiceInv, NEW p \in Procs, Publish(p)  PROVE ListsStep
<1>1. /\ UNCHANGED <<revocations, signed, restarts>> /\ pc[p] = "publishing"
      /\ cached' = hand[p] /\ known' = [known EXCEPT ![p] = {}]
  BY DEF Publish, Return, storeVars, generatorVars, boundVars
<1>2. hand[p] \in ThisBoot  BY <1>1 DEF ServiceInv, CRLInv, HandCovers, OwnLists, ThisBoot
<1>3. known[p] \subseteq hand[p].entries
  BY <1>1 DEF ServiceInv, CRLInv, RegenerateIsFresh
<1>4. ListRevoked' = ListRevoked  BY <1>1 DEF ListRevoked
<1>5. Lists!ServeList(p)  BY <1>1, <1>2, <1>3, <1>4 DEF Lists!ServeList, ThisBoot
<1>6. QED  BY <1>5 DEF ListsStep, Lists!ListsNext

LEMMA RevokeImplements ==
  ASSUME ServiceInv, NEW s \in Serials, NEW r \in Reasons, Revoke(s, r)  PROVE ListsStep
<1>1. UNCHANGED <<signed, restarts, cached, known>>
  BY DEF Revoke, serviceVars, generatorVars, procVars, boundVars
<1>2. CASE UNCHANGED storeVars  BY <1>1, <1>2, StutterStep DEF storeVars
<1>3. CASE revocations' = [revocations EXCEPT ![s] = r]
  <2>1. ListRevoked' = ListRevoked \cup {s}
    BY <1>3, StorageAssumption DEF ListRevoked, ServiceInv, CRLInv, TypeOK, StorageTypeOK
  <2>2. Lists!RevokeSerial(s)  BY <1>1, <2>1 DEF Lists!RevokeSerial
  <2>3. QED  BY <2>2 DEF ListsStep, Lists!ListsNext
<1>4. QED  BY <1>2, <1>3 DEF Revoke, RevokeCertificate

LEMMA RestartImplements ==
  ASSUME ServiceInv, Restart  PROVE ListsStep
<1>1. /\ signed' = signed /\ revocations' = revocations /\ cached' = NoCRL
      /\ restarts' = restarts + 1 /\ known' = [p \in Procs |-> {}]
  BY DEF Restart, storeVars
<1>2. \A crl \in signed : crl.boot \in Nat /\ crl.boot <= restarts /\ restarts \in Nat
  BY DEF ServiceInv, CRLInv, TypeOK, SignedBelow, CRLs
<1>3. ThisBoot' = {}  BY <1>1, <1>2 DEF ThisBoot
<1>4. ListRevoked' = ListRevoked  BY <1>1 DEF ListRevoked
<1>5. Lists!LoseLists  BY <1>1, <1>3, <1>4 DEF Lists!LoseLists, ThisBoot
<1>6. QED  BY <1>5 DEF ListsStep, Lists!ListsNext

LEMMA EveryStepImplements == ServiceInv /\ [Next]_vars => ListsStep
<1> SUFFICES ASSUME ServiceInv, [Next]_vars PROVE ListsStep
  OBVIOUS
<1>1. ASSUME NEW p \in Procs, Lock(p)  PROVE ListsStep
  BY <1>1, StutterStep DEF Lock, storeVars, serviceVars, boundVars
<1>2. ASSUME NEW p \in Procs, List(p)  PROVE ListsStep
  <2>1. UNCHANGED <<revocations, signed, restarts, cached>> /\ (UNCHANGED known \/ Return(p, FALSE))
    BY <1>2 DEF List, storeVars, serviceVars, boundVars
  <2>2. QED  BY <2>1, StutterStep, GiveUpStep
<1>3. ASSUME NEW p \in Procs, Sign(p) \/ Publish(p)  PROVE ListsStep
  BY <1>3, SignImplements, PublishImplements
<1>4. ASSUME NEW c \in Callers, Regenerate(c) \/ Start(c) \/ Stop(c)  PROVE ListsStep
  <2>1. UNCHANGED <<revocations, signed, restarts, cached>> /\ (UNCHANGED known \/ Begin(c))
    BY <1>4 DEF Regenerate, Start, Stop, Call, storeVars, serviceVars, generatorVars, procVars
  <2>2. QED  BY <2>1, StutterStep, AskStep DEF Procs
<1>5. ASSUME NEW b \in Loops, Select(b) \/ Tick(b) \/ Quit(b)  PROVE ListsStep
  <2>1. UNCHANGED <<revocations, signed, restarts, cached>> /\ (UNCHANGED known \/ Begin(b))
    BY <1>5 DEF Select, Tick, Quit, storeVars, serviceVars, generatorVars, boundVars
  <2>2. QED  BY <2>1, StutterStep, AskStep DEF Procs
<1>6. ASSUME Cancel \/ UNCHANGED vars  PROVE ListsStep
  BY <1>6, StutterStep DEF Cancel, vars, storeVars, serviceVars, generatorVars, procVars, boundVars
<1>7. QED
  BY <1>1, <1>2, <1>3, <1>4, <1>5, <1>6, RevokeImplements, RestartImplements DEF Next, Step

\* ListsSpec: the service implements RevocationLists, for any number of callers,
\* loops, serials and restarts: whoever builds lists, and in whatever order they
\* are published (generator.go:71-121, 147-160).
THEOREM ImplementsLists == Spec => ListsSpec
<1>1. Init => Lists!ListsInit
  <2>1. SUFFICES ASSUME Init  PROVE Lists!ListsInit
    OBVIOUS
  <2>2. ListRevoked = {}  BY <2>1 DEF Init, ListRevoked
  <2>3. ThisBoot = {}  BY <2>1 DEF Init, ThisBoot
  <2>4. QED  BY <2>1, <2>2, <2>3 DEF Init, Lists!ListsInit, ThisBoot
<1>2. ServiceInv /\ [Next]_vars => [Lists!ListsNext]_(Lists!listVars)
  BY EveryStepImplements DEF ListsStep
<1>3. QED  BY <1>1, <1>2, ServiceInvariant, PTL DEF Spec, ListsSpec, Lists!ListsSpec
=============================================================================
