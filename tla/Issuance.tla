------------------------------ MODULE Issuance ------------------------------
(***************************************************************************)
(* One call of the issuing authority (pkg/ca/authority.go): with a profile *)
(* or, in the two phases of Certificate Transparency, through a            *)
(* precertificate and the logs it is submitted to one after the other      *)
(* (pkg/ctlog).  What comes before a signature stands twice in the code    *)
(* and twice here: the operators of the second call begin with CT.         *)
(*                                                                         *)
(* Of a certificate this keeps what it is checked for and its CT           *)
(* extensions; a CSR that cannot be parsed counts as one whose signature   *)
(* fails, and keys are as the parser lets them through.                    *)
(***************************************************************************)
EXTENDS IssuancePolicy

CONSTANTS
  Profiles,    \* the profiles callers pass
  Logs,        \* CT logs
  NilLog,      \* a submitter that is nil
  MaxLogs,     \* bound: submitters of one call
  ExtLengths,  \* bytes of extensions a log can answer with
  SigLengths,  \* bytes of signature
  NoRequest

ASSUME IssuanceAssumption ==
  /\ GetProfile \subseteq Profiles /\ Profiles \subseteq AnyProfile
  /\ NilLog \notin Logs
  /\ MaxLogs \in Nat
  /\ ExtLengths \subseteq Nat /\ SigLengths \subseteq Nat

VARIABLES
  pc,           \* where the call is
  request,      \* its arguments, while they are checked
  submitters,   \* the logs to submit to, in order
  next,         \* the number of the next one
  scts,         \* what they answered
  logged,       \* the logs that hold the precertificate
  certificate   \* the CT extensions of the certificate that was returned

vars == <<AllowInternalDomains, pc, request, submitters, next, scts, logged, certificate>>

Names == UNION {[1 .. n -> Labels] : n \in 1 .. MaxLabels}

PublicKeys ==
  [type : {"rsa"}, bits : {2047, 2048}, e : {3, 65537}]
    \cup [type : {"ecdsa"}, curve : {"P-224", "P-256"}] \cup [type : {"ed25519", "dsa"}]

\* The names of a request vary while the rest does not, and the rest varies
\* with names that are good, bad or missing.
SomeNames == {{}, {<<"www", "com">>}, {<<"www", "com">>, <<"*", "com">>}}

NameRequests ==
  [pop : {TRUE}, serialBits : {64}, profile : {ServerTLS}, validity : {0},
   key : [type : {"ed25519"}], csrNames : {{n} : n \in Names}, override : SomeNames,
   ipOverride : {FALSE}, otherSANs : {FALSE}]

OtherRequests ==
  [pop : {TRUE}, serialBits : {0, 159, 160}, profile : Profiles,
   validity : {0, 398, 399, 731, 3650}, key : PublicKeys, csrNames : SomeNames,
   override : SomeNames, ipOverride : BOOLEAN, otherSANs : BOOLEAN]

Requests == NameRequests \cup OtherRequests \cup {[r EXCEPT !.pop = FALSE] : r \in NameRequests}

ASSUME RequestAssumption == NoRequest \notin Requests

Init ==
  /\ AllowInternalDomains \in BOOLEAN
  /\ pc = "idle" /\ request = NoRequest
  /\ submitters = <<>> /\ next = 1 /\ scts = <<>>
  /\ logged = {} /\ certificate = <<>>

(***************************************************************************)
(* The checks of SignCertificateWithProfile.                               *)
(***************************************************************************)
Validity(r) == IF r.validity <= 0 THEN r.profile.default ELSE r.validity

SANs(r) == IF r.override # {} THEN r.override ELSE r.csrNames

\* Bug: the key usage of the profile is taken as it is.
UnalignedKeyUsage(r) == r.profile.keyUsage

\* The key usage for the key of the CSR.
KeyUsage(r) ==
  IF r.key.type \in {"ecdsa", "ed25519"} /\ "DigitalSignature" \in r.profile.keyUsage
    THEN r.profile.keyUsage \ {"KeyEncipherment"} ELSE r.profile.keyUsage

Template(r) ==
  [serialBits |-> r.serialBits, names |-> SANs(r),
   otherSANs |-> r.otherSANs \/ r.ipOverride,
   notAfter |-> Validity(r), keyUsage |-> KeyUsage(r),
   extKeyUsage |-> r.profile.extKeyUsage, basicConstraintsValid |-> TRUE,
   isCA |-> r.profile.isCA]

PassesWithProfile(r) ==
  /\ r.serialBits > 0
  /\ r.pop
  /\ r.profile.max > 0 => Validity(r) <= r.profile.max
  /\ r.profile.requireSAN => SANs(r) # {} \/ r.ipOverride \/ r.otherSANs
  /\ ValidatePublicKey(r.key)
  /\ \A n \in SANs(r) : ValidateDNSName(n)

SignWithProfile(r) ==
  PassesWithProfile(r) /\ ~HasLintErrors(LintCertificate(Template(r), r.key, r.profile))

(***************************************************************************)
(* The same in the call with CT, which takes no IP addresses.              *)
(***************************************************************************)
CTValidity(r) == IF r.validity <= 0 THEN r.profile.default ELSE r.validity

CTNames(r) == IF r.override # {} THEN r.override ELSE r.csrNames

\* Bug: the second copy takes the key usage of the profile as it is.
CTUnalignedKeyUsage(r) == r.profile.keyUsage

CTKeyUsage(r) ==
  IF r.key.type \in {"ecdsa", "ed25519"} /\ "DigitalSignature" \in r.profile.keyUsage
    THEN r.profile.keyUsage \ {"KeyEncipherment"} ELSE r.profile.keyUsage

CTTemplate(r) ==
  [serialBits |-> r.serialBits, names |-> CTNames(r), otherSANs |-> r.otherSANs,
   notAfter |-> CTValidity(r), keyUsage |-> CTKeyUsage(r),
   extKeyUsage |-> r.profile.extKeyUsage, basicConstraintsValid |-> TRUE,
   isCA |-> r.profile.isCA]

\* Bug: the names of the CSR are checked, and those of the caller signed.
CTChecksCSRNames(r) ==
  /\ r.serialBits > 0 /\ r.pop
  /\ r.profile.max > 0 => CTValidity(r) <= r.profile.max
  /\ r.profile.requireSAN => CTNames(r) # {} \/ r.otherSANs
  /\ ValidatePublicKey(r.key)
  /\ \A n \in r.csrNames : ValidateDNSName(n)

PassesWithCT(r) ==
  /\ r.serialBits > 0
  /\ r.pop
  /\ r.profile.max > 0 => CTValidity(r) <= r.profile.max
  /\ r.profile.requireSAN => CTNames(r) # {} \/ r.otherSANs
  /\ ValidatePublicKey(r.key)
  /\ \A n \in CTNames(r) : ValidateDNSName(n)

SignWithCT(r) ==
  PassesWithCT(r) /\ ~HasLintErrors(LintCertificate(CTTemplate(r), r.key, r.profile))

(***************************************************************************)
(* Signing.                                                                *)
(***************************************************************************)
Ask(r) ==
  /\ pc' = "asked" /\ request' = r
  /\ UNCHANGED <<submitters, next, scts, logged, certificate>>

\* The call ends; the certificate it returns has the CT extensions exts.
End(l, exts) == pc' = l /\ request' = NoRequest /\ certificate' = exts

\* SignCertificateWithProfile; the signature itself can fail.
Profiled ==
  /\ pc = "asked"
  /\ \/ SignWithProfile(request) /\ End("issued", <<>>)
     \/ End("refused", <<>>)
  /\ UNCHANGED <<submitters, next, scts, logged>>

\* SignCertificateWithCT: the checks, and then the precertificate with the
\* poison; the logs it goes to are arguments of the call.
Checked ==
  /\ pc = "asked" /\ ~request.ipOverride
  /\ End(IF SignWithCT(request) THEN "checked" ELSE "refused", <<>>)
  /\ UNCHANGED <<submitters, next, scts, logged>>

Precertificate(S) ==
  /\ \/ pc' = "submitting" /\ submitters' = S
     \/ pc' = "refused" /\ UNCHANGED submitters
  /\ UNCHANGED <<request, next, scts, logged, certificate>>

\* A signed certificate timestamp, with the two bytes for the length of the
\* extensions as SubmitPreCertificate packs them.
SCT(log, ext, sig) == [log |-> log, ext |-> ext, extField |-> ext % 65536, sig |-> sig]
LengthOf(t) == 43 + t.ext + t.sig

\* Bug: a log that fails is passed over.
SkipFailed ==
  /\ pc = "submitting" /\ next <= Len(submitters)
  /\ submitters[next] # NilLog
  /\ next' = next + 1
  /\ UNCHANGED <<pc, request, submitters, scts, logged, certificate>>

\* A log refuses, cannot be reached, or answers with something else; it may hold
\* the precertificate although its answer was lost.  The call fails.
SubmissionFails ==
  /\ pc = "submitting" /\ next <= Len(submitters)
  /\ submitters[next] # NilLog
  /\ \/ UNCHANGED logged
     \/ logged' = logged \cup {submitters[next]}
  /\ End("refused", <<>>)
  /\ UNCHANGED <<submitters, next, scts>>

\* Bug: one log is asked again and again.
SubmitAgain ==
  /\ pc = "submitting" /\ next <= Len(submitters)
  /\ submitters[next] # NilLog
  /\ \E ext \in ExtLengths, sig \in SigLengths :
       scts' = Append(scts, SCT(submitters[next], ext, sig))
  /\ logged' = logged \cup {submitters[next]}
  /\ UNCHANGED <<pc, request, submitters, next, certificate>>

Submit ==
  /\ pc = "submitting" /\ next <= Len(submitters)
  /\ next' = next + 1
  /\ \/ /\ submitters[next] = NilLog
        /\ UNCHANGED <<scts, logged>>
     \/ /\ submitters[next] # NilLog
        /\ \E ext \in ExtLengths, sig \in SigLengths :
             scts' = Append(scts, SCT(submitters[next], ext, sig))
        /\ logged' = logged \cup {submitters[next]}
  /\ UNCHANGED <<pc, request, submitters, certificate>>

\* The bytes of all the SCTs of s, each with the two of its length.
TotalLength(s) ==
  LET Sum[i \in 0 .. Len(s)] == IF i = 0 THEN 0 ELSE Sum[i - 1] + 2 + LengthOf(s[i])
  IN Sum[Len(s)]

\* Bug: lengths are added up in sixteen bits.
ShortSums(s) ==
  /\ \A i \in 1 .. Len(s) : LengthOf(s[i]) % 65536 > 0
  /\ TotalLength(s) % 65536 <= 65535

\* Whether SerializeSCTList can encode s; else it returns an error.
CanSerialize(s) ==
  /\ \A i \in 1 .. Len(s) : LengthOf(s[i]) > 0 /\ LengthOf(s[i]) <= 65535
  /\ TotalLength(s) <= 65535

\* The list is embedded, without the poison of the precertificate, and the final
\* certificate signed, which can fail; without any log it is signed as it is.
Finish ==
  /\ pc = "submitting" /\ next > Len(submitters)
  /\ \/ (scts = <<>> \/ CanSerialize(scts)) /\ End("issued", scts)
     \/ End("refused", <<>>)
  /\ UNCHANGED <<submitters, next, scts, logged>>

Submitters == UNION {[1 .. n -> Logs \cup {NilLog}] : n \in 0 .. MaxLogs}

Next ==
  /\ \/ pc = "idle" /\ \E r \in Requests : Ask(r)
     \/ Profiled \/ Checked
     \/ pc = "checked" /\ \E S \in Submitters : Precertificate(S)
     \/ SubmissionFails \/ Submit \/ Finish
  /\ UNCHANGED AllowInternalDomains

Spec == Init /\ [][Next]_vars

(***************************************************************************)
(* Properties.                                                             *)
(***************************************************************************)
SCTs == {SCT(l, e, s) : l \in Logs, e \in ExtLengths, s \in SigLengths}

TypeOK ==
  /\ pc \in {"idle", "asked", "checked", "submitting", "issued", "refused"}
  /\ request # NoRequest <=> pc = "asked"
  /\ scts \in Seq(SCTs) /\ Len(scts) < next /\ next <= Len(submitters) + 1
  /\ logged \subseteq Logs
  /\ pc # "issued" => certificate = <<>>

\* docs/policy_and_linting.md:96-112: whatever the caller overrides and whichever
\* call it is, each name that is signed has a star only as its whole leftmost
\* label, with two labels or more to the right, and its last label is not onion
\* nor, unless allowed, an internal one.  Of names without an empty label this is
\* what the document asks.  A label here may be empty, as the checks of
\* policy.go:211 and 228 look at the string: "*.com." and "x.onion." are signed.
GoodName(n) ==
  /\ \A i \in 1 .. Len(n) : HasStar(n[i]) => i = 1 /\ n[i] = "*" /\ Len(n) >= 3
  /\ Len(n) > 1 => LastOf(n) # "onion"
  /\ ~AllowInternalDomains => /\ Len(n) > 1 => LastOf(n) # "local"
                              /\ LastOf(n) \notin {"localhost", "mylocalhost"}

SignedNamesAreGood ==
  pc = "asked" =>
    /\ SignWithProfile(request) =>
         \A n \in Template(request).names : n # <<"empty">> /\ GoodName(n)
    /\ SignWithCT(request) =>
         \A n \in CTTemplate(request).names : n # <<"empty">> /\ GoodName(n)

\* What is wrong with the profile of a request, given its key and validity.
ProfileFaults(r) ==
  {rule \in {"validity-chronological", "key-usage-algorithm-alignment",
             "ca-key-usage-cert-sign", "server-tls-eku"} :
     \/ rule = "validity-chronological" /\ r.validity <= 0 /\ r.profile.default < 0
     \/ rule = "key-usage-algorithm-alignment" /\ r.key.type \in {"ecdsa", "ed25519"}
          /\ "KeyEncipherment" \in r.profile.keyUsage
          /\ "DigitalSignature" \notin r.profile.keyUsage
     \/ rule = "ca-key-usage-cert-sign" /\ r.profile.isCA /\ "CertSign" \notin r.profile.keyUsage
     \/ rule = "server-tls-eku" /\ r.profile.type = "server-tls"
                              /\ "ServerAuth" \notin r.profile.extKeyUsage}

\* The lint judges the template after the names, the validity and the key usage
\* have been settled (authority.go:158-240, 279-349; policy.go:242-348).  Of a
\* request that passes the checks it finds, besides a serial that is too long,
\* the faults of the profile and nothing else: nothing the subscriber asks for
\* gets as far as the lint and is refused there, and the four profiles of the
\* code have no fault with any key.  A profile with KeyEncipherment and without
\* DigitalSignature has one with an EC or Ed25519 key: only beside
\* DigitalSignature is KeyEncipherment taken away.
LintBlamesTheProfile ==
  pc = "asked" =>
    /\ PassesWithProfile(request) =>
         LintCertificate(Template(request), request.key, request.profile) \ {"serial-20-octets"}
           = ProfileFaults(request)
    /\ PassesWithCT(request) =>
         LintCertificate(CTTemplate(request), request.key, request.profile) \ {"serial-20-octets"}
           = ProfileFaults(request)
    /\ request.profile \in GetProfile => ProfileFaults(request) = {}

\* docs/policy_and_linting.md:31-39 has ValidateCSR in the signing path, which
\* makes checks of its own instead: for server certificates, and names that the
\* caller does not override, they come to the same.
ValidateCSRAgrees ==
  pc = "asked" /\ request.profile = ServerTLS /\ request.override = {} /\ ~request.ipOverride
      /\ request.serialBits > 0 /\ request.pop
    => (PassesWithProfile(request) <=> ValidateCSR(request))

\* The SCTs of s are, in order, one of each of the first n submitters that is
\* there, and their logs hold the precertificate.
OneSCTEach(s, n) ==
  \E from \in [1 .. Len(s) -> 1 .. n] :
    /\ \A i, j \in 1 .. Len(s) : i < j => from[i] < from[j]
    /\ \A i \in 1 .. Len(s) : s[i].log = submitters[from[i]] /\ s[i].log \in logged
    /\ \A k \in 1 .. n : submitters[k] # NilLog <=> \E i \in 1 .. Len(s) : from[i] = k

\* A final certificate carries, in order, one SCT of each log it was to be
\* submitted to, and all of them hold its precertificate: no failure in between
\* leads to a certificate with fewer (authority.go:362-385).
FinalHasItsSCTs == pc = "issued" => OneSCTEach(certificate, Len(submitters))

\* In a final certificate the two bytes for the length of an SCT's extensions say
\* how many there are.  The conversion to uint16 in client.go:100 can wrap; what
\* keeps such an SCT out is a check of another package (precert.go:53, 63).
LengthsAreTrue ==
  \A i \in DOMAIN certificate : certificate[i].extField = certificate[i].ext
=============================================================================
