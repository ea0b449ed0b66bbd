---------------------------- MODULE IssuanceProofs ----------------------------
(***************************************************************************)
(* Theorems about what the CA signs, for names of any length, any set of   *)
(* profiles, any number of logs and any lengths they answer with.          *)
(***************************************************************************)
EXTENDS Issuance, SequenceTheorems, TLAPS

SomeLabels == {"empty", "*", "w*", "www", "com", "local", "onion", "localhost", "mylocalhost"}

(***************************************************************************)
(* Names.                                                                  *)
(***************************************************************************)

LEMMA NamesAreSequences == \A n \in Names \cup UNION SomeNames : n \in Seq(SomeLabels)
<1>1. ASSUME NEW n \in Names  PROVE n \in Seq(SomeLabels)
  <2>1. PICK k \in 1 .. MaxLabels : n \in [1 .. k -> Labels]  BY DEF Names
  <2>2. k \in Nat  BY PolicyAssumption
  <2>3. Labels \subseteq SomeLabels  BY PolicyAssumption DEF SomeLabels
  <2>4. n \in [1 .. k -> SomeLabels]  BY <2>1, <2>3
  <2>5. QED  BY <2>2, <2>4
<1>2. <<"www", "com">> \in Seq(SomeLabels) /\ <<"*", "com">> \in Seq(SomeLabels)
  BY DEF SomeLabels
<1>3. QED  BY <1>1, <1>2 DEF SomeNames

LEMMA ValidNamesAreGood ==
  ASSUME NEW n \in Seq(SomeLabels), ValidateDNSName(n)
  PROVE  n # <<"empty">> /\ GoodName(n)
<1>1. n # <<"empty">> /\ ~Disallowed(n) /\ Len(n) \in Nat  BY DEF ValidateDNSName
<1>2. ASSUME NEW i \in 1 .. Len(n), HasStar(n[i])
      PROVE  i = 1 /\ n[i] = "*" /\ Len(n) >= 3
  <2>1. /\ Len(n) > 1 /\ n[1] = "*" /\ Len(Tail(n)) > 1
        /\ ~ \E j \in 1 .. Len(Tail(n)) : HasStar(Tail(n)[j])
    BY <1>2 DEF ValidateDNSName
  <2>2. /\ Len(Tail(n)) = Len(n) - 1
        /\ \A j \in 1 .. Len(Tail(n)) : Tail(n)[j] = n[j + 1]
    BY <1>1, HeadTailProperties
  <2>3. CASE i = 1  BY <1>1, <2>1, <2>2, <2>3
  <2>4. CASE i # 1
    <3>1. i - 1 \in 1 .. Len(Tail(n))  BY <1>1, <2>2, <2>4
    <3>2. Tail(n)[i - 1] = n[i]  BY <2>2, <3>1
    <3>3. QED  BY <1>2, <2>1, <3>1, <3>2
  <2>5. QED  BY <2>3, <2>4
<1>3. QED  BY <1>1, <1>2 DEF GoodName, Disallowed

(***************************************************************************)
(* Requests.                                                               *)
(***************************************************************************)
LEMMA RequestsAre ==
  ASSUME NEW r \in Requests
  PROVE  /\ r.profile \in AnyProfile
         /\ r.validity \in Nat
         /\ \A n \in SANs(r) \cup CTNames(r) : n \in Seq(SomeLabels)
<1>0. GetProfile \subseteq AnyProfile /\ Profiles \subseteq AnyProfile  BY IssuanceAssumption
<1>1. /\ r.profile \in AnyProfile
      /\ r.validity \in Nat
      /\ r.override \in SomeNames
      /\ r.csrNames \in SomeNames \cup {{n} : n \in Names}
  <2>1. CASE r \in NameRequests  BY <1>0, <2>1 DEF NameRequests, GetProfile
  <2>2. CASE r \in OtherRequests  BY <1>0, <2>2 DEF OtherRequests
  <2>3. CASE r \in {[q EXCEPT !.pop = FALSE] : q \in NameRequests}
    <3>1. PICK q \in NameRequests : r = [q EXCEPT !.pop = FALSE]  BY <2>3
    <3>2. QED  BY <1>0, <3>1 DEF NameRequests, GetProfile
  <2>4. QED  BY <2>1, <2>2, <2>3 DEF Requests
<1>2. /\ SANs(r) \in SomeNames \cup {{n} : n \in Names}
      /\ CTNames(r) \in SomeNames \cup {{n} : n \in Names}
  BY <1>1 DEF SANs, CTNames
<1>3. QED  BY <1>1, <1>2, NamesAreSequences

\* Either call signs the names it has checked.
LEMMA SignedAreGood ==
  ASSUME NEW r \in Requests
  PROVE  /\ SignWithProfile(r) => \A n \in Template(r).names : n # <<"empty">> /\ GoodName(n)
         /\ SignWithCT(r) => \A n \in CTTemplate(r).names : n # <<"empty">> /\ GoodName(n)
<1>1. ASSUME SignWithProfile(r)
      PROVE  \A n \in Template(r).names : n # <<"empty">> /\ GoodName(n)
  <2>1. \A n \in SANs(r) : ValidateDNSName(n)  BY <1>1 DEF SignWithProfile, PassesWithProfile
  <2>2. Template(r).names = SANs(r)  BY DEF Template
  <2>3. QED  BY <2>1, <2>2, RequestsAre, ValidNamesAreGood
<1>2. ASSUME SignWithCT(r)
      PROVE  \A n \in CTTemplate(r).names : n # <<"empty">> /\ GoodName(n)
  <2>1. \A n \in CTNames(r) : ValidateDNSName(n)  BY <1>2 DEF SignWithCT, PassesWithCT
  <2>2. CTTemplate(r).names = CTNames(r)  BY DEF CTTemplate
  <2>3. QED  BY <2>1, <2>2, RequestsAre, ValidNamesAreGood
<1>3. QED  BY <1>1, <1>2

(***************************************************************************)
(* The inductive invariant of a call.                                      *)
(***************************************************************************)
Answers == [log : Logs, ext : Nat, extField : Nat, sig : Nat]

CallInv ==
  /\ pc = "asked" => request \in Requests
  /\ \A i \in DOMAIN scts : /\ scts[i].ext \in Nat /\ scts[i].sig \in Nat
                            /\ scts[i].extField = scts[i].ext % 65536
  /\ scts \in Seq(Answers)
  /\ next \in Nat \ {0} /\ submitters \in Seq(Logs \cup {NilLog})
  /\ LengthsAreTrue

LEMMA SCTIs ==
  ASSUME NEW l \in Logs, NEW e \in ExtLengths, NEW s \in SigLengths
  PROVE  /\ SCT(l, e, s) \in Answers
         /\ SCT(l, e, s).ext \in Nat /\ SCT(l, e, s).sig \in Nat
         /\ SCT(l, e, s).extField = SCT(l, e, s).ext % 65536
  BY IssuanceAssumption DEF SCT, Answers

\* What can be encoded has its true lengths.
LEMMA EncodedIsTrue ==
  ASSUME CallInv, scts = <<>> \/ CanSerialize(scts)
  PROVE  \A i \in DOMAIN scts : scts[i].extField = scts[i].ext
<1> SUFFICES ASSUME NEW i \in DOMAIN scts PROVE scts[i].extField = scts[i].ext
  OBVIOUS
<1>1. CanSerialize(scts) /\ i \in 1 .. Len(scts)  BY DEF CallInv
<1>2. LengthOf(scts[i]) <= 65535  BY <1>1 DEF CanSerialize
<1>3. scts[i].ext \in Nat /\ scts[i].sig \in Nat /\ scts[i].extField = scts[i].ext % 65536
  BY DEF CallInv
<1>4. LengthOf(scts[i]) = 43 + scts[i].ext + scts[i].sig  BY DEF LengthOf
<1>5. scts[i].ext < 65536  BY <1>2, <1>3, <1>4
<1>6. QED  BY <1>3, <1>5

LEMMA CallInitially == Init => CallInv
<1> SUFFICES ASSUME Init PROVE CallInv
  OBVIOUS
<1>1. scts = <<>> /\ certificate = <<>> /\ pc = "idle"  BY DEF Init
<1>2. scts \in Seq(Answers)  BY <1>1, EmptySeq
<1>3. next = 1 /\ submitters = <<>>  BY DEF Init
<1>4. submitters \in Seq(Logs \cup {NilLog})  BY <1>3, EmptySeq
<1>5. QED  BY <1>1, <1>2, <1>3, <1>4 DEF CallInv, LengthsAreTrue

LEMMA CallStep == CallInv /\ [Next]_vars => CallInv'
<1> SUFFICES ASSUME CallInv, [Next]_vars PROVE CallInv'
  OBVIOUS
<1>1. ASSUME NEW r \in Requests, Ask(r)  PROVE CallInv'
  BY <1>1 DEF Ask, CallInv, LengthsAreTrue
<1>2. CASE Profiled \/ Checked
  <2>1. UNCHANGED <<scts, next, submitters>> /\ certificate' = <<>> /\ pc' # "asked"  BY <1>2 DEF Profiled, Checked, End
  <2>2. QED  BY <2>1 DEF CallInv, LengthsAreTrue
<1>3. CASE \E S \in Submitters : Precertificate(S)
  <2>1. UNCHANGED <<scts, next, certificate>> /\ pc' # "asked"
    BY <1>3 DEF Precertificate
  <2>2. PICK S \in Submitters : Precertificate(S)  BY <1>3
  <2>3. submitters' = S \/ submitters' = submitters  BY <2>2 DEF Precertificate
  <2>4. PICK k \in 0 .. MaxLogs : S \in [1 .. k -> Logs \cup {NilLog}]  BY DEF Submitters
  <2>5. S \in Seq(Logs \cup {NilLog})
    <3>1. k \in Nat  BY IssuanceAssumption
    <3>2. QED  BY <2>4, <3>1
  <2>6. submitters' \in Seq(Logs \cup {NilLog})  BY <2>3, <2>5 DEF CallInv
  <2>7. QED  BY <2>1, <2>6 DEF CallInv, LengthsAreTrue
<1>4. CASE SubmissionFails
  <2>1. UNCHANGED <<scts, next, submitters>> /\ certificate' = <<>> /\ pc' # "asked"  BY <1>4 DEF SubmissionFails, End
  <2>2. QED  BY <2>1 DEF CallInv, LengthsAreTrue
<1>5. CASE Submit
  <2>1. /\ pc' # "asked" /\ certificate' = certificate
        /\ submitters' = submitters /\ next' = next + 1
    BY <1>5 DEF Submit
  <2>2. LengthsAreTrue'  BY <2>1 DEF CallInv, LengthsAreTrue
  <2>3. next' \in Nat \ {0} /\ submitters' \in Seq(Logs \cup {NilLog})
    BY <2>1 DEF CallInv
  <2>4. CASE scts' = scts  BY <2>1, <2>2, <2>3, <2>4 DEF CallInv
  <2>5. CASE \E e \in ExtLengths, s \in SigLengths :
               /\ submitters[next] # NilLog
               /\ scts' = Append(scts, SCT(submitters[next], e, s))
    <3>1. PICK e \in ExtLengths, s \in SigLengths :
            /\ submitters[next] # NilLog
            /\ scts' = Append(scts, SCT(submitters[next], e, s))
      BY <2>5
    <3>2. submitters[next] \in Logs  BY <1>5, <3>1 DEF Submit, CallInv
    <3>3. PICK t : t = SCT(submitters[next], e, s)  OBVIOUS
    <3>4. t \in Answers /\ t.ext \in Nat /\ t.sig \in Nat /\ t.extField = t.ext % 65536
      BY <3>2, <3>3, SCTIs
    <3>5. scts \in Seq(Answers) /\ scts' = Append(scts, t)  BY <3>1, <3>3 DEF CallInv
    <3>6. /\ scts' \in Seq(Answers) /\ DOMAIN scts' = 1 .. Len(scts) + 1
          /\ \A i \in 1 .. Len(scts) : scts'[i] = scts[i]
          /\ scts'[Len(scts) + 1] = t /\ DOMAIN scts = 1 .. Len(scts) /\ Len(scts) \in Nat
      BY <3>4, <3>5, AppendProperties
    <3>7. ASSUME NEW i \in DOMAIN scts'
          PROVE  scts'[i].ext \in Nat /\ scts'[i].sig \in Nat /\ scts'[i].extField = scts'[i].ext % 65536
      <4>1. CASE i \in 1 .. Len(scts)  BY <3>6, <4>1 DEF CallInv
      <4>2. CASE i = Len(scts) + 1  BY <3>4, <3>6, <4>2
      <4>3. QED  BY <3>6, <4>1, <4>2
    <3>8. QED  BY <2>1, <2>2, <2>3, <3>6, <3>7 DEF CallInv
  <2>6. QED  BY <1>5, <2>4, <2>5 DEF Submit
<1>6. CASE Finish
  <2>1. UNCHANGED <<scts, next, submitters>> /\ pc' # "asked"  BY <1>6 DEF Finish, End
  <2>2. certificate' = <<>> \/ (certificate' = scts /\ (scts = <<>> \/ CanSerialize(scts)))
    BY <1>6 DEF Finish, End
  <2>3. LengthsAreTrue'  BY <2>2, EncodedIsTrue DEF LengthsAreTrue
  <2>4. QED  BY <2>1, <2>3 DEF CallInv
<1>7. CASE UNCHANGED vars  BY <1>7 DEF vars, CallInv, LengthsAreTrue
<1>8. QED  BY <1>1, <1>2, <1>3, <1>4, <1>5, <1>6, <1>7 DEF Next

\* Before there is a precertificate nothing has been submitted.
NothingSubmitted == pc \in {"idle", "asked", "checked"} => next = 1 /\ submitters = <<>>

LEMMA TypeInitially == Init => TypeOK /\ NothingSubmitted
<1> SUFFICES ASSUME Init PROVE TypeOK /\ NothingSubmitted
  OBVIOUS
<1>1. pc = "idle" /\ request = NoRequest /\ logged = {} /\ certificate = <<>>  BY DEF Init
<1>2. scts = <<>> /\ submitters = <<>> /\ next = 1  BY DEF Init
<1>3. scts \in Seq(SCTs) /\ Len(scts) = 0 /\ Len(submitters) = 0  BY <1>2, EmptySeq
<1>4. Len(scts) < next /\ next <= Len(submitters) + 1  BY <1>2, <1>3
<1>5. QED  BY <1>1, <1>2, <1>3, <1>4 DEF TypeOK, NothingSubmitted

LEMMA TypeStep == TypeOK /\ NothingSubmitted /\ CallInv /\ [Next]_vars => TypeOK' /\ NothingSubmitted'
<1> SUFFICES ASSUME TypeOK, NothingSubmitted, CallInv, [Next]_vars PROVE TypeOK' /\ NothingSubmitted'
  OBVIOUS
<1>0. /\ scts \in Seq(SCTs) /\ Len(scts) \in Nat /\ Len(submitters) \in Nat /\ next \in Nat \ {0}
      /\ Len(scts) < next /\ next <= Len(submitters) + 1
  BY DEF TypeOK, CallInv
<1>1. ASSUME NEW r \in Requests, pc = "idle", Ask(r)  PROVE TypeOK' /\ NothingSubmitted'
  BY <1>1, RequestAssumption DEF Ask, TypeOK, NothingSubmitted
<1>2. CASE Profiled
  BY <1>2 DEF Profiled, End, TypeOK, NothingSubmitted
<1>3. CASE Checked
  BY <1>3 DEF Checked, End, TypeOK, NothingSubmitted
<1>4. ASSUME pc = "checked", NEW S \in Submitters, Precertificate(S)  PROVE TypeOK' /\ NothingSubmitted'
  <2>1. PICK k \in 0 .. MaxLogs : S \in [1 .. k -> Logs \cup {NilLog}]  BY DEF Submitters
  <2>2. k \in Nat  BY IssuanceAssumption
  <2>3. S \in Seq(Logs \cup {NilLog}) /\ Len(S) \in Nat  BY <2>1, <2>2
  <2>4. next = 1  BY <1>4 DEF NothingSubmitted
  <2>5. Len(submitters') \in Nat  BY <1>0, <1>4, <2>3 DEF Precertificate
  <2>6. next <= Len(submitters') + 1  BY <2>4, <2>5
  <2>7. /\ UNCHANGED <<request, next, scts, logged, certificate>>
        /\ pc' \in {"submitting", "refused"} /\ pc = "checked"
    BY <1>4 DEF Precertificate
  <2>8. QED  BY <2>6, <2>7 DEF TypeOK, NothingSubmitted
<1>5. CASE SubmissionFails
  <2>1. submitters[next] \in Logs  BY <1>0, <1>5 DEF SubmissionFails, CallInv
  <2>2. logged' \subseteq Logs  BY <1>5, <2>1 DEF SubmissionFails, TypeOK
  <2>3. UNCHANGED <<submitters, next, scts>> /\ pc' = "refused" /\ request' = NoRequest /\ certificate' = <<>>
    BY <1>5 DEF SubmissionFails, End
  <2>4. QED  BY <2>2, <2>3 DEF TypeOK, NothingSubmitted
<1>6. CASE Submit
  <2>1. /\ next <= Len(submitters) /\ next' = next + 1 /\ pc = "submitting"
        /\ UNCHANGED <<pc, request, submitters, certificate>>
    BY <1>6 DEF Submit
  <2>2. next' <= Len(submitters') + 1  BY <1>0, <2>1
  <2>3. CASE UNCHANGED <<scts, logged>>
    <3>1. Len(scts') < next'  BY <1>0, <2>1, <2>3
    <3>2. QED  BY <2>1, <2>2, <2>3, <3>1 DEF TypeOK, NothingSubmitted
  <2>4. CASE /\ submitters[next] # NilLog
             /\ \E e \in ExtLengths, s \in SigLengths :
                  scts' = Append(scts, SCT(submitters[next], e, s))
             /\ logged' = logged \cup {submitters[next]}
    <3>1. submitters[next] \in Logs  BY <1>0, <2>1, <2>4 DEF CallInv
    <3>2. PICK t \in SCTs : scts' = Append(scts, t)  BY <2>4, <3>1 DEF SCTs
    <3>3. scts' \in Seq(SCTs) /\ Len(scts') = Len(scts) + 1  BY <1>0, <3>2, AppendProperties
    <3>4. Len(scts') < next'  BY <1>0, <2>1, <3>3
    <3>5. logged' \subseteq Logs  BY <2>4, <3>1 DEF TypeOK
    <3>6. QED  BY <2>1, <2>2, <3>3, <3>4, <3>5 DEF TypeOK, NothingSubmitted
  <2>5. QED  BY <1>6, <2>3, <2>4 DEF Submit
<1>7. CASE Finish
  <2>1. UNCHANGED <<scts, next, submitters, logged>> /\ request' = NoRequest
    BY <1>7 DEF Finish, End
  <2>2. pc' = "issued" \/ (pc' = "refused" /\ certificate' = <<>>)  BY <1>7 DEF Finish, End
  <2>3. QED  BY <2>1, <2>2 DEF TypeOK, NothingSubmitted
<1>8. CASE UNCHANGED vars  BY <1>8 DEF vars, TypeOK, NothingSubmitted
<1>9. QED  BY <1>1, <1>2, <1>3, <1>4, <1>5, <1>6, <1>7, <1>8 DEF Next

LEMMA CallInvariant == Spec => []CallInv
  BY CallInitially, CallStep, PTL DEF Spec

(***************************************************************************)
(* The SCTs of a call: after each step the list is complete for the logs   *)
(* the call has come by, and a certificate is issued only at the end.      *)
(***************************************************************************)
SCTInv ==
  /\ OneSCTEach(scts, next - 1)
  /\ pc = "issued" => certificate = scts /\ next - 1 = Len(submitters)

CallsInv == CallInv /\ TypeOK /\ NothingSubmitted

\* No logs, no SCTs.
LEMMA EmptyIsComplete == OneSCTEach(<<>>, 0)
<1>1. Len(<<>>) = 0 /\ 1 .. 0 = {}  OBVIOUS
<1>2. PICK from : from \in [1 .. 0 -> 1 .. 0]
  <2>1. [i \in 1 .. 0 |-> i] \in [1 .. 0 -> 1 .. 0]  OBVIOUS
  <2>2. QED  BY <2>1
<1>3. /\ \A i, j \in 1 .. 0 : i < j => from[i] < from[j]
      /\ \A i \in 1 .. 0 : <<>>[i].log = submitters[from[i]] /\ <<>>[i].log \in logged
      /\ \A k \in 1 .. 0 : submitters[k] # NilLog <=> \E i \in 1 .. 0 : from[i] = k
  BY <1>1
<1>4. QED  BY <1>1, <1>2, <1>3 DEF OneSCTEach

\* The list stays what it is while the call does not come to another log.
LEMMA SCTsKept ==
  ASSUME SCTInv, UNCHANGED <<scts, next, submitters>>, logged \subseteq logged'
  PROVE  OneSCTEach(scts, next - 1)'
<1>1. PICK from \in [1 .. Len(scts) -> 1 .. next - 1] :
        /\ \A i, j \in 1 .. Len(scts) : i < j => from[i] < from[j]
        /\ \A i \in 1 .. Len(scts) : scts[i].log = submitters[from[i]] /\ scts[i].log \in logged
        /\ \A k \in 1 .. next - 1 : submitters[k] # NilLog <=> \E i \in 1 .. Len(scts) : from[i] = k
  BY DEF SCTInv, OneSCTEach
<1>2. \A i \in 1 .. Len(scts) : scts[i].log \in logged'  BY <1>1
<1>3. QED  BY <1>1, <1>2 DEF OneSCTEach

\* A submitter that is nil is passed by.
LEMMA NilPassed ==
  ASSUME SCTInv, CallsInv, Submit, submitters[next] = NilLog, UNCHANGED <<scts, logged>>
  PROVE  OneSCTEach(scts, next - 1)'
<1>1. PICK from \in [1 .. Len(scts) -> 1 .. next - 1] :
        /\ \A i, j \in 1 .. Len(scts) : i < j => from[i] < from[j]
        /\ \A i \in 1 .. Len(scts) : scts[i].log = submitters[from[i]] /\ scts[i].log \in logged
        /\ \A k \in 1 .. next - 1 : submitters[k] # NilLog <=> \E i \in 1 .. Len(scts) : from[i] = k
  BY DEF SCTInv, OneSCTEach
<1>2. next \in Nat \ {0} /\ next' = next + 1 /\ UNCHANGED submitters
  BY DEF Submit, CallsInv, CallInv
<1>3. from \in [1 .. Len(scts) -> 1 .. next]  BY <1>1, <1>2
<1>4. ASSUME NEW k \in 1 .. next
      PROVE  submitters[k] # NilLog <=> \E i \in 1 .. Len(scts) : from[i] = k
  <2>1. CASE k \in 1 .. next - 1  BY <1>1, <2>1
  <2>2. CASE k = next  BY <1>1, <1>2, <2>2
  <2>3. QED  BY <1>2, <2>1, <2>2
<1>5. next' - 1 = next  BY <1>2
<1>6. QED  BY <1>1, <1>2, <1>3, <1>4, <1>5 DEF OneSCTEach

\* The answer of a log is the SCT of that log.
LEMMA SCTAdded ==
  ASSUME SCTInv, CallsInv, Submit, submitters[next] \in Logs,
         NEW t, t.log = submitters[next], t \in SCTs,
         scts' = Append(scts, t), logged' = logged \cup {submitters[next]}
  PROVE  OneSCTEach(scts, next - 1)'
<1>1. PICK from \in [1 .. Len(scts) -> 1 .. next - 1] :
        /\ \A i, j \in 1 .. Len(scts) : i < j => from[i] < from[j]
        /\ \A i \in 1 .. Len(scts) : scts[i].log = submitters[from[i]] /\ scts[i].log \in logged
        /\ \A k \in 1 .. next - 1 : submitters[k] # NilLog <=> \E i \in 1 .. Len(scts) : from[i] = k
  BY DEF SCTInv, OneSCTEach
<1>2. next \in Nat \ {0} /\ next' = next + 1 /\ UNCHANGED submitters
  BY DEF Submit, CallsInv, CallInv
<1>3. scts \in Seq(SCTs) /\ Len(scts) \in Nat  BY DEF CallsInv, TypeOK
<1>4. PICK n \in Nat : n = Len(scts)  BY <1>3
<1>5. /\ Len(scts') = n + 1
      /\ \A i \in 1 .. n : scts'[i] = scts[i]
      /\ scts'[n + 1] = t
  BY <1>3, <1>4, AppendProperties
<1>6. PICK g : g = [i \in 1 .. n + 1 |-> IF i = n + 1 THEN next ELSE from[i]]  OBVIOUS
<1>7. g \in [1 .. n + 1 -> 1 .. next]  BY <1>1, <1>2, <1>4, <1>6
<1>8. ASSUME NEW i \in 1 .. n + 1, NEW j \in 1 .. n + 1, i < j  PROVE g[i] < g[j]
  <2>1. i \in 1 .. n /\ g[i] = from[i] /\ from[i] \in 1 .. next - 1  BY <1>1, <1>4, <1>6, <1>8
  <2>2. CASE j \in 1 .. n  BY <1>1, <1>4, <1>6, <1>8, <2>1, <2>2
  <2>3. CASE j = n + 1  BY <1>2, <1>6, <2>1, <2>3
  <2>4. QED  BY <1>4, <2>2, <2>3
<1>9. ASSUME NEW i \in 1 .. n + 1
      PROVE  scts'[i].log = submitters[g[i]] /\ scts'[i].log \in logged'
  <2>1. CASE i \in 1 .. n  BY <1>1, <1>4, <1>5, <1>6, <2>1
  <2>2. CASE i = n + 1  BY <1>5, <1>6, <2>2
  <2>3. QED  BY <1>4, <2>1, <2>2
<1>10. ASSUME NEW k \in 1 .. next
       PROVE  submitters[k] # NilLog <=> \E i \in 1 .. n + 1 : g[i] = k
  <2>1. CASE k \in 1 .. next - 1  BY <1>1, <1>2, <1>4, <1>6, <2>1
  <2>2. CASE k = next
    <3>1. g[n + 1] = k /\ n + 1 \in 1 .. n + 1  BY <1>6, <2>2
    <3>2. submitters[k] # NilLog  BY <2>2, IssuanceAssumption
    <3>3. QED  BY <3>1, <3>2
  <2>3. QED  BY <1>2, <2>1, <2>2
<1>11. next' - 1 = next  BY <1>2
<1>12. g \in [1 .. Len(scts') -> 1 .. next' - 1]  BY <1>5, <1>7, <1>11
<1>13. \A k \in 1 .. next' - 1 : submitters'[k] # NilLog <=> \E i \in 1 .. Len(scts') : g[i] = k
  BY <1>2, <1>5, <1>10, <1>11
<1>14. \A i, j \in 1 .. Len(scts') : i < j => g[i] < g[j]  BY <1>5, <1>8
<1>15. \A i \in 1 .. Len(scts') : scts'[i].log = submitters'[g[i]] /\ scts'[i].log \in logged'
  BY <1>2, <1>5, <1>9
<1>16. QED  BY <1>12, <1>13, <1>14, <1>15 DEF OneSCTEach

LEMMA SCTsInitially == Init => SCTInv
<1> SUFFICES ASSUME Init PROVE SCTInv
  OBVIOUS
<1>1. scts = <<>> /\ next - 1 = 0 /\ pc = "idle"  BY DEF Init
<1>2. QED  BY <1>1, EmptyIsComplete DEF SCTInv

LEMMA SCTsStep == SCTInv /\ CallsInv /\ [Next]_vars => SCTInv'
<1> SUFFICES ASSUME SCTInv, CallsInv, [Next]_vars PROVE SCTInv'
  OBVIOUS
<1>1. ASSUME NEW r \in Requests, Ask(r)  PROVE SCTInv'
  <2>1. UNCHANGED <<scts, next, submitters>> /\ logged \subseteq logged' /\ pc' = "asked"
    BY <1>1 DEF Ask
  <2>2. QED  BY <2>1, SCTsKept DEF SCTInv
<1>2. CASE Profiled
  <2>1. /\ UNCHANGED <<scts, next, submitters>> /\ logged \subseteq logged'
        /\ certificate' = <<>> /\ pc = "asked"
    BY <1>2 DEF Profiled, End
  <2>2. next = 1 /\ submitters = <<>>  BY <2>1 DEF CallsInv, NothingSubmitted
  <2>3. scts \in Seq(SCTs) /\ Len(scts) < 1 /\ Len(submitters) = 0  BY <2>2 DEF CallsInv, TypeOK
  <2>4. scts = <<>>  BY <2>3, EmptySeq
  <2>5. QED  BY <2>1, <2>2, <2>3, <2>4, SCTsKept DEF SCTInv
<1>3. CASE Checked
  <2>1. UNCHANGED <<scts, next, submitters>> /\ logged \subseteq logged' /\ pc' # "issued"
    BY <1>3 DEF Checked, End
  <2>2. QED  BY <2>1, SCTsKept DEF SCTInv
<1>4. ASSUME pc = "checked", NEW S \in Submitters, Precertificate(S)  PROVE SCTInv'
  <2>1. UNCHANGED <<scts, next>> /\ pc' # "issued"  BY <1>4 DEF Precertificate
  <2>2. next = 1  BY <1>4 DEF CallsInv, NothingSubmitted
  <2>3. scts \in Seq(SCTs) /\ Len(scts) < 1  BY <2>2 DEF CallsInv, TypeOK
  <2>4. scts = <<>>  BY <2>3, EmptySeq
  <2>5. scts' = <<>> /\ next' - 1 = 0  BY <2>1, <2>2, <2>4
  <2>6. OneSCTEach(<<>>, 0)'  BY EmptyIsComplete, PTL
  <2>7. QED  BY <2>1, <2>5, <2>6 DEF SCTInv
<1>5. CASE SubmissionFails
  <2>1. UNCHANGED <<scts, next, submitters>> /\ logged \subseteq logged' /\ pc' # "issued"
    BY <1>5 DEF SubmissionFails, End
  <2>2. QED  BY <2>1, SCTsKept DEF SCTInv
<1>6. CASE Submit
  <2>1. pc' = "submitting"  BY <1>6 DEF Submit
  <2>2. CASE submitters[next] = NilLog /\ UNCHANGED <<scts, logged>>
    BY <1>6, <2>1, <2>2, NilPassed DEF SCTInv
  <2>3. CASE /\ submitters[next] # NilLog
             /\ \E e \in ExtLengths, s \in SigLengths :
                  scts' = Append(scts, SCT(submitters[next], e, s))
             /\ logged' = logged \cup {submitters[next]}
    <3>1. submitters[next] \in Logs  BY <1>6, <2>3 DEF Submit, CallsInv, CallInv
    <3>2. PICK e \in ExtLengths, s \in SigLengths : scts' = Append(scts, SCT(submitters[next], e, s))
      BY <2>3
    <3>3. PICK t : t = SCT(submitters[next], e, s)  OBVIOUS
    <3>4. t \in SCTs /\ t.log = submitters[next]  BY <3>1, <3>3 DEF SCTs, SCT
    <3>5. OneSCTEach(scts, next - 1)'  BY <1>6, <2>3, <3>1, <3>2, <3>3, <3>4, SCTAdded
    <3>6. QED  BY <2>1, <3>5 DEF SCTInv
  <2>4. QED  BY <1>6, <2>2, <2>3 DEF Submit
<1>7. CASE Finish
  <2>1. /\ UNCHANGED <<scts, next, submitters>> /\ logged \subseteq logged' /\ next > Len(submitters)
        /\ pc' = "issued" => certificate' = scts
    BY <1>7 DEF Finish, End
  <2>2. next <= Len(submitters) + 1 /\ next \in Nat /\ Len(submitters) \in Nat
    BY DEF CallsInv, TypeOK, CallInv
  <2>3. next - 1 = Len(submitters)  BY <2>1, <2>2
  <2>4. QED  BY <2>1, <2>3, SCTsKept DEF SCTInv
<1>8. CASE UNCHANGED vars
  <2>1. UNCHANGED <<scts, next, submitters, pc, certificate>> /\ logged \subseteq logged'  BY <1>8 DEF vars
  <2>2. QED  BY <2>1, SCTsKept DEF SCTInv
<1>9. QED  BY <1>1, <1>2, <1>3, <1>4, <1>5, <1>6, <1>7, <1>8 DEF Next

(***************************************************************************)
(* The theorems.                                                           *)
(***************************************************************************)

\* TypeOK: types; a call has at most one SCT of each log it has come to, and no
\* certificate unless it is issued (authority.go:362-385).
THEOREM CallTypeCorrect == Spec => []TypeOK
<1>1. Spec => [](TypeOK /\ NothingSubmitted)
  BY TypeInitially, TypeStep, CallInvariant, PTL DEF Spec
<1>2. QED  BY <1>1, PTL

\* FinalHasItsSCTs: for any number of logs, some of them nil and some given more
\* than once, a final certificate carries in order one SCT of each, and none of
\* a log that does not hold the precertificate (authority.go:362-385).
THEOREM EveryLogAnswered == Spec => []FinalHasItsSCTs
<1>1. Spec => [](TypeOK /\ NothingSubmitted)
  BY TypeInitially, TypeStep, CallInvariant, PTL DEF Spec
<1>2. Spec => []CallsInv  BY <1>1, CallInvariant, PTL DEF CallsInv
<1>3. Spec => []SCTInv  BY <1>2, SCTsInitially, SCTsStep, PTL DEF Spec
<1>4. SCTInv => FinalHasItsSCTs
  <2>1. SUFFICES ASSUME SCTInv, pc = "issued"  PROVE OneSCTEach(certificate, Len(submitters))
    BY DEF FinalHasItsSCTs
  <2>2. QED  BY <2>1 DEF SCTInv
<1>5. QED  BY <1>3, <1>4, PTL

\* SignedNamesAreGood: whatever the length of a name, wherever it has empty
\* labels, and whoever gave it, if either call signs it its last label is not a
\* forbidden one and a star is its whole leftmost label with two to the right,
\* which may be empty (policy.go:199-240).
THEOREM GoodNames == Spec => []SignedNamesAreGood
<1>1. CallInv => SignedNamesAreGood
  <2> SUFFICES ASSUME CallInv, pc = "asked"
               PROVE  /\ SignWithProfile(request) =>
                           \A n \in Template(request).names : n # <<"empty">> /\ GoodName(n)
                      /\ SignWithCT(request) =>
                           \A n \in CTTemplate(request).names : n # <<"empty">> /\ GoodName(n)
    BY DEF SignedNamesAreGood
  <2>1. PICK r \in Requests : r = request  BY DEF CallInv
  <2>2. QED  BY <2>1, SignedAreGood
<1>2. QED  BY <1>1, CallInvariant, PTL

\* LengthsAreTrue: no certificate carries an SCT whose length was cut to sixteen
\* bits, whatever a log answers (client.go:100, precert.go:53-63).
THEOREM TrueLengths == Spec => []LengthsAreTrue
<1>1. CallInv => LengthsAreTrue  BY DEF CallInv
<1>2. QED  BY <1>1, CallInvariant, PTL

(***************************************************************************)
(* The lint, and the policy's own check of a CSR.                          *)
(***************************************************************************)

\* The lint of a template as both calls make it of what they have checked.
LEMMA LintFinds ==
  ASSUME NEW r \in Requests, r.serialBits > 0, NEW t,
         t.serialBits = r.serialBits, t.basicConstraintsValid, t.isCA = r.profile.isCA,
         t.notAfter = (IF r.validity <= 0 THEN r.profile.default ELSE r.validity),
         t.keyUsage = (IF r.key.type \in {"ecdsa", "ed25519"} /\ "DigitalSignature" \in r.profile.keyUsage
                         THEN r.profile.keyUsage \ {"KeyEncipherment"} ELSE r.profile.keyUsage),
         t.extKeyUsage = r.profile.extKeyUsage,
         r.profile.requireSAN => t.names # {} \/ t.otherSANs
  PROVE  LintCertificate(t, r.key, r.profile) \ {"serial-20-octets"} = ProfileFaults(r)
<1>1. t.serialBits # 0  OBVIOUS
<1>2. t.notAfter < 0 <=> r.validity <= 0 /\ r.profile.default < 0
  BY RequestsAre DEF AnyProfile
<1>3. r.key.type \in {"ecdsa", "ed25519"} =>
        ("KeyEncipherment" \in t.keyUsage
           <=> "KeyEncipherment" \in r.profile.keyUsage /\ "DigitalSignature" \notin r.profile.keyUsage)
  OBVIOUS
<1>4. "CertSign" \in t.keyUsage <=> "CertSign" \in r.profile.keyUsage  OBVIOUS
<1>5. ASSUME NEW rule
      PROVE  rule \in LintCertificate(t, r.key, r.profile) \ {"serial-20-octets"}
               <=> rule \in ProfileFaults(r)
  <2>1. CASE rule = "validity-chronological"
    BY <1>2, <2>1 DEF LintCertificate, ProfileFaults
  <2>2. CASE rule = "key-usage-algorithm-alignment"
    BY <1>3, <2>2 DEF LintCertificate, ProfileFaults
  <2>3. CASE rule = "ca-key-usage-cert-sign"
    BY <1>4, <2>3 DEF LintCertificate, ProfileFaults
  <2>4. CASE rule = "server-tls-eku"
    BY <2>4 DEF LintCertificate, ProfileFaults
  <2>5. CASE rule \notin {"validity-chronological", "key-usage-algorithm-alignment",
                          "ca-key-usage-cert-sign", "server-tls-eku"}
    BY <1>1, <2>5 DEF LintCertificate, ProfileFaults
  <2>6. QED  BY <2>1, <2>2, <2>3, <2>4, <2>5
<1>6. QED  BY <1>5

\* The profiles of the code have no fault, whatever the key.
LEMMA PresetsAreFaultless ==
  ASSUME NEW r, r.profile \in GetProfile
  PROVE  ProfileFaults(r) = {}
<1>1. /\ ~(r.profile.default < 0)
      /\ "KeyEncipherment" \notin r.profile.keyUsage
      /\ r.profile.isCA => "CertSign" \in r.profile.keyUsage
      /\ r.profile.type = "server-tls" => "ServerAuth" \in r.profile.extKeyUsage
  BY DEF GetProfile, ServerTLS, ClientAuth, CodeSigning, SubCA, Profile
<1>2. QED  BY <1>1 DEF ProfileFaults

\* LintBlamesTheProfile: whatever profile a caller passes, what the lint finds in
\* a request that either call has checked is, besides a serial that is too long,
\* what is wrong with the profile, and with the four of the code that is nothing
\* (authority.go:158-240, 279-349; policy.go:242-348).
THEOREM LintFindsFaultsOnly == Spec => []LintBlamesTheProfile
<1>1. ASSUME NEW r \in Requests, PassesWithProfile(r)
      PROVE  LintCertificate(Template(r), r.key, r.profile) \ {"serial-20-octets"} = ProfileFaults(r)
  <2>1. PICK t : t = Template(r)  OBVIOUS
  <2>2. /\ t.serialBits = r.serialBits /\ t.basicConstraintsValid /\ t.isCA = r.profile.isCA
        /\ t.notAfter = Validity(r) /\ t.keyUsage = KeyUsage(r)
        /\ t.extKeyUsage = r.profile.extKeyUsage
        /\ t.names = SANs(r) /\ t.otherSANs = (r.otherSANs \/ r.ipOverride)
    BY <2>1 DEF Template
  <2>3. r.serialBits > 0 /\ (r.profile.requireSAN => t.names # {} \/ t.otherSANs)
    BY <1>1, <2>2 DEF PassesWithProfile
  <2>4. QED  BY <2>1, <2>2, <2>3, LintFinds DEF Validity, KeyUsage
<1>2. ASSUME NEW r \in Requests, PassesWithCT(r)
      PROVE  LintCertificate(CTTemplate(r), r.key, r.profile) \ {"serial-20-octets"} = ProfileFaults(r)
  <2>1. PICK t : t = CTTemplate(r)  OBVIOUS
  <2>2. /\ t.serialBits = r.serialBits /\ t.basicConstraintsValid /\ t.isCA = r.profile.isCA
        /\ t.notAfter = CTValidity(r) /\ t.keyUsage = CTKeyUsage(r)
        /\ t.extKeyUsage = r.profile.extKeyUsage
        /\ t.names = CTNames(r) /\ t.otherSANs = r.otherSANs
    BY <2>1 DEF CTTemplate
  <2>3. r.serialBits > 0 /\ (r.profile.requireSAN => t.names # {} \/ t.otherSANs)
    BY <1>2, <2>2 DEF PassesWithCT
  <2>4. QED  BY <2>1, <2>2, <2>3, LintFinds DEF CTValidity, CTKeyUsage
<1>3. CallInv => LintBlamesTheProfile
  <2>1. SUFFICES ASSUME CallInv, pc = "asked"
        PROVE  /\ PassesWithProfile(request) =>
                    LintCertificate(Template(request), request.key, request.profile) \ {"serial-20-octets"}
                      = ProfileFaults(request)
               /\ PassesWithCT(request) =>
                    LintCertificate(CTTemplate(request), request.key, request.profile) \ {"serial-20-octets"}
                      = ProfileFaults(request)
               /\ request.profile \in GetProfile => ProfileFaults(request) = {}
    BY DEF LintBlamesTheProfile
  <2>2. PICK r \in Requests : r = request  BY <2>1 DEF CallInv
  <2>3. QED  BY <1>1, <1>2, <2>2, PresetsAreFaultless
<1>4. QED  BY <1>3, CallInvariant, PTL

\* ValidateCSRAgrees: for server certificates with the names of the CSR, the
\* check nothing calls and those in the signing path come to the same
\* (policy.go:120-178).
THEOREM UncalledCheckAgrees == Spec => []ValidateCSRAgrees
<1>1. ASSUME NEW r \in Requests, r.profile = ServerTLS, r.override = {}, ~r.ipOverride,
             r.serialBits > 0, r.pop
      PROVE  PassesWithProfile(r) <=> ValidateCSR(r)
  <2>1. /\ r.profile.max = 398 /\ r.profile.default = 90 /\ r.profile.requireSAN
        /\ r.profile.type = "server-tls"
    BY <1>1 DEF ServerTLS, Profile
  <2>2. SANs(r) = r.csrNames  BY <1>1 DEF SANs
  <2>3. Validity(r) = IF r.validity <= 0 THEN r.profile.default ELSE r.validity  BY DEF Validity
  <2>4. (r.profile.max > 0 => Validity(r) <= r.profile.max)
          <=> Validity(r) <= MaxValidityDuration /\ (r.profile.max > 0 => Validity(r) <= r.profile.max)
    BY <2>1 DEF MaxValidityDuration
  <2>5. QED  BY <1>1, <2>1, <2>2, <2>3, <2>4 DEF PassesWithProfile, ValidateCSR
<1>2. CallInv => ValidateCSRAgrees
  <2>1. SUFFICES ASSUME CallInv, pc = "asked", request.profile = ServerTLS, request.override = {},
                        ~request.ipOverride, request.serialBits > 0, request.pop
                 PROVE  PassesWithProfile(request) <=> ValidateCSR(request)
    BY DEF ValidateCSRAgrees
  <2>2. PICK r \in Requests : r = request  BY <2>1 DEF CallInv
  <2>3. QED  BY <1>1, <2>1, <2>2
<1>3. QED  BY <1>2, CallInvariant, PTL
=============================================================================
