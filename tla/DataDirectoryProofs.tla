------------------------- MODULE DataDirectoryProofs -------------------------
(***************************************************************************)
(* Theorems about the processes on one data directory, for any number of   *)
(* ceremonies and of lines.                                                *)
(***************************************************************************)
EXTENDS DataDirectory, SequenceTheorems, TLAPS

\* What any step does to the variables of the key store.
KeyNext ==
  \/ Boot \/ LoadOrInitialize \/ loadAuthority \/ Truncate \/ Fill \/ CeremonyDone
  \/ Serve \/ Stop

LEMMA KeyInitially == KeyInit => KeyInv
  BY KeyStoreAssumption, SMT
     DEF KeyInit, KeyInv, KeyTypeOK, WritingInv, CommitInv, ServedIsOfOneCeremony, SameAuthorityForever,
         RefusedOnlyHalfWritten, Phases, Made, NoAuthority, Authority, FileNames, Needed

\* Once all files are there they are of one ceremony, but for a certificate of
\* the intermediate that may be half written (CommitInv).
LEMMA Boots == KeyInv /\ Boot => KeyInv'
  BY KeyStoreAssumption, SMT
     DEF Boot, KeyInv, KeyTypeOK, WritingInv, CommitInv, ServedIsOfOneCeremony, SameAuthorityForever,
         RefusedOnlyHalfWritten, Phases, Authority, FileNames, Needed

LEMMA Decides == KeyInv /\ LoadOrInitialize => KeyInv'
  BY KeyStoreAssumption, SMT
     DEF LoadOrInitialize, StartCeremony, KeyInv, KeyTypeOK, WritingInv, CommitInv, ServedIsOfOneCeremony,
         SameAuthorityForever, RefusedOnlyHalfWritten, Phases, Made, Authority, FileNames, Needed

LEMMA Loads == KeyInv /\ loadAuthority => KeyInv'
  BY KeyStoreAssumption, SMT
     DEF loadAuthority, KeyInv, KeyTypeOK, WritingInv, CommitInv, ServedIsOfOneCeremony,
         SameAuthorityForever, RefusedOnlyHalfWritten, Phases, Made, Authority, FileNames, Needed

LEMMA Truncates == KeyInv /\ Truncate => KeyInv'
  BY KeyStoreAssumption, SMT
     DEF Truncate, Files, KeyInv, KeyTypeOK, WritingInv, CommitInv, ServedIsOfOneCeremony,
         SameAuthorityForever, RefusedOnlyHalfWritten, Phases, Made, Authority, FileNames, Needed

LEMMA Fills == KeyInv /\ Fill => KeyInv'
  BY KeyStoreAssumption, SMT
     DEF Fill, Files, KeyInv, KeyTypeOK, WritingInv, CommitInv, ServedIsOfOneCeremony,
         SameAuthorityForever, RefusedOnlyHalfWritten, Phases, Made, Authority, FileNames, Needed

LEMMA Completes == KeyInv /\ CeremonyDone => KeyInv'
<1> SUFFICES ASSUME KeyInv, CeremonyDone PROVE KeyInv'
  OBVIOUS
<1>1. ceremony \in used /\ \A f \in FileNames : disk[f] = ceremony
  BY SMT DEF CeremonyDone, KeyInv, WritingInv, FileNames
<1>2. KeyTypeOK'
  BY SMT DEF CeremonyDone, KeyInv, KeyTypeOK, Phases, Made, Authority
<1>3. ServedIsOfOneCeremony'
  BY <1>1, SMT DEF CeremonyDone, ServedIsOfOneCeremony
<1>4. WritingInv' /\ CommitInv' /\ SameAuthorityForever' /\ RefusedOnlyHalfWritten'
  BY SMT DEF CeremonyDone, KeyInv, WritingInv, CommitInv, SameAuthorityForever, RefusedOnlyHalfWritten
<1>5. QED  BY <1>2, <1>3, <1>4 DEF KeyInv

LEMMA Serves == KeyInv /\ Serve => KeyInv'
  BY KeyStoreAssumption, SMT
     DEF Serve, KeyInv, KeyTypeOK, WritingInv, CommitInv, ServedIsOfOneCeremony,
         SameAuthorityForever, RefusedOnlyHalfWritten, Phases, Made, Authority, FileNames, Needed

LEMMA Stops == KeyInv /\ Stop => KeyInv'
  BY KeyStoreAssumption, SMT
     DEF Stop, NoAuthority, KeyInv, KeyTypeOK, WritingInv, CommitInv, ServedIsOfOneCeremony,
         SameAuthorityForever, RefusedOnlyHalfWritten, Phases, Made, Authority, FileNames, Needed

LEMMA Idles == KeyInv /\ UNCHANGED keyVars => KeyInv'
  BY SMT
     DEF keyVars, KeyInv, KeyTypeOK, WritingInv, CommitInv, ServedIsOfOneCeremony, SameAuthorityForever,
         RefusedOnlyHalfWritten, Phases, Made, Authority, FileNames, Needed

LEMMA KeySteps == KeyInv /\ (KeyNext \/ UNCHANGED keyVars) => KeyInv'
  BY Boots, Decides, Loads, Truncates, Fills, Completes, Serves, Stops, Idles DEF KeyNext

\* The directory's steps are steps of the key store, or leave it alone.
LEMMA KeyStoreSteps == [Next]_vars => KeyNext \/ UNCHANGED keyVars
  BY DEF Next, KeyStep, OpenLog, StartServing, LogWhileServing, StopProcess, vars, KeyNext

\* KeyInv, the inductive invariant: the certificate of the intermediate is the
\* commit record of a ceremony (key_store.go:175-187).
THEOREM KeyInvariant == Spec => []KeyInv
<1>1. Init => KeyInv  BY KeyInitially DEF Init
<1>2. KeyInv /\ [Next]_vars => KeyInv'  BY KeySteps, KeyStoreSteps
<1>3. QED  BY <1>1, <1>2, PTL DEF Spec

\* ServedIsOfOneCeremony: whatever stopped however often before, a server that
\* starts has an authority whose parts belong together and are what the files
\* hold (key_store.go:38-198).
THEOREM ServedIsWhole == Spec => []ServedIsOfOneCeremony
<1>1. KeyInv => ServedIsOfOneCeremony  BY DEF KeyInv
<1>2. QED  BY <1>1, KeyInvariant, PTL

\* SameAuthorityForever: all servers that start on a directory have the same
\* authority (README.md:126).
THEOREM AuthorityIsKept == Spec => []SameAuthorityForever
<1>1. KeyInv => SameAuthorityForever  BY DEF KeyInv
<1>2. QED  BY <1>1, KeyInvariant, PTL

\* RefusedOnlyHalfWritten: the one state of the files in which no process will
\* ever start again (key_store.go:76-79, 185).
THEOREM RefusalsAreKnown == Spec => []RefusedOnlyHalfWritten
<1>1. KeyInv => RefusedOnlyHalfWritten  BY DEF KeyInv
<1>2. QED  BY <1>1, KeyInvariant, PTL

\* With the last file there a boot finds all it needs, and a ceremony under way
\* has come to its end.
LEMMA CommittedStaysPut ==
  ASSUME KeyInv, disk["intermediate.crt"] # Absent, phase # "filling",
         KeyNext \/ UNCHANGED keyVars
  PROVE  UNCHANGED <<disk, used>>
<1>1. \A f \in Needed : disk[f] # Absent
  BY KeyStoreAssumption, SMT DEF KeyInv, CommitInv, KeyTypeOK, Needed, FileNames
<1>2. phase = "writing" => next = 5
  BY SMT DEF KeyInv, WritingInv
<1>3. ~LoadOrInitialize \/ UNCHANGED <<disk, used>>
  BY <1>1 DEF LoadOrInitialize
<1>4. ~Truncate
  BY <1>2, SMT DEF Truncate
<1>5. ~Fill
  BY DEF Fill
<1>6. QED
  BY <1>3, <1>4, <1>5 DEF KeyNext, Boot, loadAuthority, CeremonyDone, Serve, Stop, keyVars

\* CommitIsFinal: after the last file no process writes a file or makes keys, so
\* what the first complete boot finds, the authority or a refusal, is what all
\* later ones find (key_store.go:47-52, 185).
THEOREM CommitsAreFinal == Spec => CommitIsFinal
<1>1. KeyInv /\ [Next]_vars =>
        [disk["intermediate.crt"] # Absent /\ phase # "filling" => UNCHANGED <<disk, used>>]_keyVars
  BY CommittedStaysPut, KeyStoreSteps
<1>2. QED  BY <1>1, KeyInvariant, PTL DEF Spec, CommitIsFinal

(***************************************************************************)
(* The audit log.                                                          *)
(***************************************************************************)

\* A chain with one more event verifies if it did and the event fits.
LEMMA ChainAppend ==
  ASSUME NEW s \in Seq(Lines), NEW e \in Lines
  PROVE  VerifyChain(Append(s, e)) <=>
           /\ VerifyChain(s)
           /\ e.prev = IF s = <<>> THEN GenesisHash ELSE s[Len(s)].hash
           /\ e.hash = ComputeEventHash(e)
  BY SMT DEF VerifyChain

\* A prefix of a chain that verifies verifies.
LEMMA PrefixVerifies ==
  ASSUME NEW s \in Seq(Lines), NEW t \in Seq(Lines), IsPrefixOf(s, t), VerifyChain(t)
  PROVE  VerifyChain(s)
  BY SMT DEF VerifyChain, IsPrefixOf

\* The lines of the process as a sequence, and what appending to the file and
\* beginning anew make of it.
LEMMA StretchIs ==
  ASSUME NEW f \in Seq(Lines), NEW n \in Nat, n <= Len(f)
  PROVE  /\ SubSeq(f, n + 1, Len(f)) \in Seq(Lines)
         /\ Len(SubSeq(f, n + 1, Len(f))) = Len(f) - n
         /\ \A i \in 1 .. Len(f) - n : SubSeq(f, n + 1, Len(f))[i] = f[n + i]
  BY SMT

LEMMA StretchAppend ==
  ASSUME NEW f \in Seq(Lines), NEW n \in Nat, n <= Len(f), NEW e \in Lines
  PROVE  SubSeq(Append(f, e), n + 1, Len(Append(f, e))) = Append(SubSeq(f, n + 1, Len(f)), e)
<1> DEFINE s == SubSeq(f, n + 1, Len(f))
           g == Append(f, e)
           t == SubSeq(g, n + 1, Len(g))
<1>1. g \in Seq(Lines) /\ Len(g) = Len(f) + 1 /\ g[Len(f) + 1] = e /\ \A i \in 1 .. Len(f) : g[i] = f[i]
  BY AppendProperties
<1>2. s \in Seq(Lines) /\ Len(s) = Len(f) - n /\ \A i \in 1 .. Len(f) - n : s[i] = f[n + i]
  BY StretchIs
<1>3. t \in Seq(Lines) /\ Len(t) = Len(f) + 1 - n /\ \A i \in 1 .. Len(f) + 1 - n : t[i] = g[n + i]
  <2>0. Len(f) \in Nat  BY LenProperties
  <2> HIDE DEF g
  <2>1. n <= Len(g)  BY <1>1, <2>0, SMT
  <2>2. t \in Seq(Lines) /\ Len(t) = Len(g) - n /\ \A i \in 1 .. Len(g) - n : t[i] = g[n + i]
    BY <1>1, <2>1, StretchIs
  <2>3. QED  BY <1>1, <2>2
<1>4. /\ Append(s, e) \in Seq(Lines) /\ Len(Append(s, e)) = Len(s) + 1
      /\ Append(s, e)[Len(s) + 1] = e /\ \A i \in 1 .. Len(s) : Append(s, e)[i] = s[i]
  <2> HIDE DEF s
  <2> QED  BY <1>2, AppendProperties
<1>5. Len(f) \in Nat  BY LenProperties
<1> HIDE DEF s, g, t
<1>6. \A i \in 1 .. Len(t) : t[i] = Append(s, e)[i]
  <2> SUFFICES ASSUME NEW i \in 1 .. Len(t) PROVE t[i] = Append(s, e)[i]
    OBVIOUS
  <2>0. i \in 1 .. Len(f) + 1 - n  BY <1>3
  <2>1. t[i] = g[n + i]  BY <1>3, <2>0
  <2>2. CASE i = Len(f) + 1 - n
    <3>1. n + i = Len(f) + 1 /\ i = Len(s) + 1  BY <1>2, <1>5, <2>0, <2>2, SMT
    <3>2. QED  BY <1>1, <1>4, <2>1, <3>1
  <2>3. CASE i # Len(f) + 1 - n
    <3>1. n + i \in 1 .. Len(f) /\ i \in 1 .. Len(f) - n
      BY <1>5, <2>0, <2>3, SMT
    <3>2. i \in 1 .. Len(s)  BY <1>2, <3>1
    <3>3. QED  BY <1>1, <1>2, <1>4, <2>1, <3>1, <3>2
  <2>4. QED  BY <2>2, <2>3
<1>7. Len(t) = Len(Append(s, e))  BY <1>2, <1>3, <1>4, <1>5, SMT
<1>8. t = Append(s, e)  BY <1>3, <1>4, <1>6, <1>7, SeqEqual
<1>9. QED  BY <1>8 DEF s, g, t

LEMMA PrefixOfLonger ==
  ASSUME NEW s \in Seq(Lines), NEW t \in Seq(Lines), NEW e \in Lines, Len(s) <= Len(t)
  PROVE  IsPrefixOf(s, Append(t, e)) <=> IsPrefixOf(s, t)
  BY SMT DEF IsPrefixOf

\* An event verifies after the lines that are there only if none is missing.
LEMMA LineInPlace ==
  ASSUME NEW s \in Seq(Lines), NEW t \in Seq(Lines), NEW e \in Lines,
         Len(s) <= Len(t), VerifyChain(s) <=> IsPrefixOf(s, t), VerifyChain(Append(t, e)),
         \A i \in 1 .. Len(t) : Len(t[i].hash) = i,
         Len(e.prev) = Len(t)
  PROVE  VerifyChain(Append(s, e)) <=> IsPrefixOf(Append(s, e), Append(t, e))
<1>1. ASSUME IsPrefixOf(Append(s, e), Append(t, e)) PROVE VerifyChain(Append(s, e))
  <2>1. Append(s, e) \in Seq(Lines) /\ Append(t, e) \in Seq(Lines)  BY AppendProperties
  <2>2. QED  BY <1>1, <2>1, PrefixVerifies
<1>2. ASSUME VerifyChain(Append(s, e)) PROVE IsPrefixOf(Append(s, e), Append(t, e))
  <2>1. IsPrefixOf(s, t)  BY <1>2, ChainAppend
  <2>2. e.prev = IF s = <<>> THEN <<>> ELSE s[Len(s)].hash  BY <1>2, ChainAppend DEF GenesisHash
  <2>3. Len(s) = Len(t)
    <3>1. CASE s = <<>>  BY <2>2, <3>1, SMT
    <3>2. CASE s # <<>>
      <4>1. Len(s) \in 1 .. Len(t)  BY <3>2, SMT
      <4>2. s[Len(s)] = t[Len(s)]  BY <2>1, <4>1, SMT DEF IsPrefixOf
      <4>3. Len(t[Len(s)].hash) = Len(s)  BY <4>1
      <4>4. QED  BY <2>2, <3>2, <4>2, <4>3
    <3>3. QED  BY <3>1, <3>2
  <2>4. QED  BY <2>1, <2>3, SMT DEF IsPrefixOf
<1>3. QED  BY <1>1, <1>2

LEMMA GarbageShows ==
  ASSUME NEW s \in Seq(Lines), NEW t \in Seq(Lines), \A i \in 1 .. Len(t) : Len(t[i].hash) = i
  PROVE  /\ Garbage \in Lines
         /\ ~VerifyChain(Append(s, Garbage))
         /\ ~IsPrefixOf(Append(s, Garbage), t)
<1>1. Garbage \in Lines /\ Garbage.hash = <<>> /\ Garbage.prev = <<>> /\ Garbage.id = 0
  BY EmptySeq DEF Garbage, Event, GenesisHash, Lines
<1>2. ~VerifyChain(Append(s, Garbage))
  <2>1. Append(<<>>, 0) # <<>>  BY SMT
  <2>2. Garbage.hash # ComputeEventHash(Garbage)  BY <1>1, <2>1 DEF ComputeEventHash
  <2>3. QED  BY <1>1, <2>2, ChainAppend
<1>3. ~IsPrefixOf(Append(s, Garbage), t)
  <2>1. SUFFICES ASSUME IsPrefixOf(Append(s, Garbage), t) PROVE FALSE
    OBVIOUS
  <2>2. Len(s) + 1 \in 1 .. Len(t) /\ t[Len(s) + 1] = Garbage
    BY <1>1, <2>1, AppendProperties, LenProperties, SMT DEF IsPrefixOf
  <2>3. QED  BY <1>1, <2>2, SMT
<1>4. QED  BY <1>1, <1>2, <1>3

\* LogEvent keeps the invariant, whatever becomes of the write.
LEMMA Logging ==
  ASSUME AuditInv, NEW id \in Nat, NEW outcome, LogEvent(id, outcome)
  PROVE  AuditInv'
<1>1. /\ events \in Seq(Lines) /\ lastHash \in Seq(Nat) /\ file \in Seq(Lines) /\ cut \in BOOLEAN
      /\ start \in Nat /\ start <= Len(file) /\ Len(file) \in Nat /\ Len(events) \in Nat
  BY LenProperties DEF AuditInv, AuditTypeOK
<1>2. PICK e \in Lines :
        /\ e.id = id /\ e.prev = lastHash /\ e.hash = ComputeEventHash(e) /\ e.hash = Append(lastHash, id)
        /\ events' = Append(events, e) /\ lastHash' = e.hash
        /\ WriteLine(e, outcome) /\ UNCHANGED start
  <2> DEFINE e == Event(id, lastHash, Append(lastHash, id))
  <2>1. e \in Lines  BY <1>1, SMT DEF Event, Lines
  <2>2. QED  BY <2>1 DEF LogEvent, Event, ComputeEventHash, GenesisHash
<1>3. e.prev = IF events = <<>> THEN GenesisHash ELSE events[Len(events)].hash
  BY <1>1, <1>2, SMT DEF AuditInv, HashesCount, GenesisHash
<1>4. VerifyChain(Append(events, e))
  BY <1>1, <1>2, <1>3, ChainAppend DEF AuditInv, LossShows
<1>5. VerifyChain(events')  BY <1>2, <1>4
<1>6. /\ Append(events, e) \in Seq(Lines) /\ Len(events') = Len(events) + 1
      /\ events'[Len(events) + 1] = e /\ \A i \in 1 .. Len(events) : events'[i] = events[i]
  BY <1>1, <1>2, AppendProperties
<1>7. Len(lastHash) = Len(events) /\ Len(lastHash') = Len(events) + 1 /\ lastHash' \in Seq(Nat)
  BY <1>1, <1>2, AppendProperties DEF AuditInv, HashesCount
<1>8. \A i \in 1 .. Len(events') : Len(events'[i].hash) = i
  BY <1>1, <1>2, <1>6, <1>7, SMT DEF AuditInv, HashesCount
<1>9. /\ Stretch \in Seq(Lines) /\ Len(Stretch) = Len(file) - start /\ Len(Stretch) <= Len(events)
  BY <1>1, StretchIs, SMT DEF Stretch, AuditInv, HashesCount
<1>10. VerifyChain(Stretch) <=> IsPrefixOf(Stretch, events)
  BY DEF AuditInv, LossShows
<1>11. CASE UNCHANGED file /\ cut' \in BOOLEAN
  <2>1. Stretch' = Stretch  BY <1>2, <1>11 DEF Stretch
  <2>2. IsPrefixOf(Stretch, events') <=> IsPrefixOf(Stretch, events)
    BY <1>1, <1>2, <1>9, PrefixOfLonger
  <2>3. LossShows'  BY <1>5, <1>10, <2>1, <2>2 DEF LossShows
  <2>4. AuditTypeOK'  BY <1>1, <1>2, <1>6, <1>7, <1>11 DEF AuditTypeOK
  <2>5. Len(file') <= start' + Len(events')
    BY <1>1, <1>2, <1>6, <1>11, SMT DEF AuditInv, HashesCount
  <2>6. HashesCount'
    BY <1>2, <1>6, <1>7, <1>8, <2>5 DEF HashesCount
  <2>7. QED  BY <2>3, <2>4, <2>6 DEF AuditInv
<1>12. ASSUME NEW l \in {Garbage, e}, file' = Append(file, l), cut' \in BOOLEAN PROVE AuditInv'
  <2>1. l \in Lines  BY <1>1, <1>9, <1>12, <1>6, <1>8, <1>2, GarbageShows
  <2>2. Append(file, l) \in Seq(Lines) /\ Len(file') = Len(file) + 1
    BY <1>1, <1>12, <2>1, AppendProperties
  <2>3. Stretch' = Append(Stretch, l)
    BY <1>1, <1>2, <1>12, <2>1, StretchAppend DEF Stretch
  <2>4. VerifyChain(Stretch') <=> IsPrefixOf(Stretch', events')
    <3>1. CASE l = e
      <4>1. VerifyChain(Append(Stretch, e)) <=> IsPrefixOf(Append(Stretch, e), Append(events, e))
        BY <1>1, <1>2, <1>4, <1>7, <1>9, <1>10, LineInPlace DEF AuditInv, HashesCount
      <4>2. QED  BY <1>2, <2>3, <3>1, <4>1
    <3>2. CASE l = Garbage
      <4>1. ~VerifyChain(Append(Stretch, Garbage))  BY <1>9, <1>6, <1>8, GarbageShows, EmptySeq
      <4>2. ~IsPrefixOf(Append(Stretch, Garbage), events')
        BY <1>2, <1>6, <1>8, <1>9, GarbageShows
      <4>3. QED  BY <2>3, <3>2, <4>1, <4>2
    <3>3. QED  BY <3>1, <3>2
  <2>5. LossShows'  BY <1>5, <2>4 DEF LossShows
  <2>6. start <= Len(file) + 1  BY <1>1, SMT
  <2>7. AuditTypeOK'  BY <1>1, <1>2, <1>6, <1>7, <1>12, <2>2, <2>6 DEF AuditTypeOK
  <2>8. Len(file') <= start' + Len(events')
    BY <1>1, <1>2, <1>6, <2>2, SMT DEF AuditInv, HashesCount
  <2>9. HashesCount'
    BY <1>2, <1>6, <1>7, <1>8, <2>8 DEF HashesCount
  <2>10. QED  BY <2>5, <2>7, <2>9 DEF AuditInv
<1>13. QED
  <2>1. /\ cut' \in BOOLEAN
        /\ UNCHANGED file \/ file' = Append(file, Garbage) \/ file' = Append(file, e)
    BY <1>1, <1>2 DEF WriteLine
  <2>2. QED  BY <1>11, <1>12, <2>1

LEMMA NewLogger == AuditInv /\ NewChainAuditLogger => AuditInv'
<1> SUFFICES ASSUME AuditInv, NewChainAuditLogger PROVE AuditInv'
  OBVIOUS
<1>1. file \in Seq(Lines) /\ Len(file) \in Nat /\ cut \in BOOLEAN
  BY LenProperties DEF AuditInv, AuditTypeOK
<1>2. events' = <<>> /\ lastHash' = <<>> /\ start' = Len(file) /\ UNCHANGED <<file, cut>>
  BY DEF NewChainAuditLogger, GenesisHash
<1>3. Stretch' = <<>>  BY <1>1, <1>2, SubSeqEmpty, SMT DEF Stretch
<1>4. LossShows'
  BY <1>2, <1>3, SMT DEF LossShows, VerifyChain, IsPrefixOf
<1>5. AuditTypeOK' /\ HashesCount'
  BY <1>1, <1>2, EmptySeq, SMT DEF AuditTypeOK, HashesCount
<1>6. QED  BY <1>4, <1>5 DEF AuditInv

DirectoryInv == TypeOK /\ KeyInv /\ AuditInv

LEMMA DirectoryInitially == Init => DirectoryInv
<1> SUFFICES ASSUME Init PROVE DirectoryInv
  OBVIOUS
<1>1. KeyInv  BY KeyInitially DEF Init
<1>2. events = <<>> /\ lastHash = <<>> /\ file = <<>> /\ cut = FALSE /\ start = 0 /\ nextId = 1
  BY DEF Init, AuditInit, GenesisHash
<1>3. Stretch = <<>>  BY <1>2, SubSeqEmpty, SMT DEF Stretch
<1>4. LossShows  BY <1>2, <1>3, SMT DEF LossShows, VerifyChain, IsPrefixOf
<1>5. AuditTypeOK
  <2>1. <<>> \in Seq(Lines) /\ <<>> \in Seq(Nat) /\ Len(<<>>) = 0  BY EmptySeq
  <2>2. events \in Seq(Lines) /\ file \in Seq(Lines) /\ lastHash \in Seq(Nat) /\ Len(file) = 0
    BY <1>2, <2>1
  <2>3. cut \in BOOLEAN  BY <1>2
  <2>4. start \in Nat /\ start <= Len(file)  BY <1>2, <2>2, SMT
  <2>5. QED  BY <2>2, <2>3, <2>4 DEF AuditTypeOK
<1>6. HashesCount  BY <1>2, EmptySeq, SMT DEF HashesCount
<1>7. TypeOK  BY <1>1, <1>2 DEF TypeOK, KeyInv
<1>8. QED  BY <1>1, <1>4, <1>5, <1>6, <1>7 DEF DirectoryInv, AuditInv

\* The audit log's steps are LogEvent and the start of a new logger.
LEMMA AuditSteps == DirectoryInv /\ [Next]_vars => AuditInv'
<1> SUFFICES ASSUME DirectoryInv, [Next]_vars PROVE AuditInv'
  OBVIOUS
<1>1. nextId \in Nat /\ AuditInv  BY DEF DirectoryInv, TypeOK
<1>2. CASE UNCHANGED auditVars
  <2>1. events' = events /\ lastHash' = lastHash /\ file' = file /\ cut' = cut /\ start' = start
    BY <1>2 DEF auditVars
  <2>2. Stretch' = Stretch  BY <2>1 DEF Stretch
  <2>3. QED  BY <1>1, <2>1, <2>2 DEF AuditInv, AuditTypeOK, HashesCount, LossShows
<1>3. CASE Log  BY <1>1, <1>3, Logging DEF Log
<1>4. CASE NewChainAuditLogger  BY <1>1, <1>4, NewLogger
<1>5. QED
  BY <1>2, <1>3, <1>4 DEF Next, KeyStep, OpenLog, StartServing, LogWhileServing, StopProcess, vars

LEMMA TypeSteps == DirectoryInv /\ [Next]_vars => TypeOK'
<1> SUFFICES ASSUME DirectoryInv, [Next]_vars PROVE TypeOK'
  OBVIOUS
<1>1. KeyInv' /\ AuditInv'  BY AuditSteps, KeySteps, KeyStoreSteps DEF DirectoryInv
<1>2. KeyTypeOK' /\ start' \in Nat /\ cut' \in BOOLEAN  BY <1>1 DEF KeyInv, AuditInv, AuditTypeOK
<1>3. nextId' \in Nat
  <2>1. nextId' = nextId \/ nextId' = nextId + 1
    BY DEF Next, KeyStep, OpenLog, StartServing, LogWhileServing, StopProcess, vars, Log
  <2>2. QED  BY <2>1, SMT DEF DirectoryInv, TypeOK
<1>4. (phase \in {"down", "booting", "loading", "writing", "filling", "refused"} => events = <<>>)'
  <2>1. CASE KeyStep
    BY <2>1, SMT DEF KeyStep, auditVars, DirectoryInv, TypeOK, Boot, LoadOrInitialize, StartCeremony,
                     loadAuthority, Truncate, Fill, CeremonyDone
  <2>2. CASE OpenLog \/ LogWhileServing
    BY <2>2, SMT DEF OpenLog, LogWhileServing, keyVars
  <2>3. CASE StartServing  BY <2>3, SMT DEF StartServing, Serve
  <2>4. CASE StopProcess  BY <2>4 DEF StopProcess, NewChainAuditLogger
  <2>5. CASE UNCHANGED vars
    BY <2>5 DEF vars, keyVars, auditVars, DirectoryInv, TypeOK
  <2>6. QED  BY <2>1, <2>2, <2>3, <2>4, <2>5 DEF Next
<1>5. QED  BY <1>2, <1>3, <1>4 DEF TypeOK


LEMMA DirectoryInvariant == Spec => []DirectoryInv
<1>1. DirectoryInv /\ [Next]_vars => DirectoryInv'
  BY TypeSteps, AuditSteps, KeySteps, KeyStoreSteps DEF DirectoryInv
<1>2. QED  BY <1>1, DirectoryInitially, PTL DEF Spec

\* TypeOK: types, and a process has logged nothing before it has its authority
\* (app.go:106-158).
THEOREM DirectoryTypeCorrect == Spec => []TypeOK
<1>1. DirectoryInv => TypeOK  BY DEF DirectoryInv
<1>2. QED  BY <1>1, DirectoryInvariant, PTL

\* LossShows: the chain of a process verifies at its end, and its lines in the
\* file verify exactly when none is missing before the last (logger.go:134-214).
THEOREM LossesShow == Spec => []LossShows
<1>1. DirectoryInv => LossShows  BY DEF DirectoryInv, AuditInv
<1>2. QED  BY <1>1, DirectoryInvariant, PTL
=============================================================================
