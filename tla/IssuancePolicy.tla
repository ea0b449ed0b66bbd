--------------------------- MODULE IssuancePolicy ---------------------------
(***************************************************************************)
(* What the CA checks before it signs (pkg/ca/policy.go, profile.go), as   *)
(* pure operators.  A DNS name is a string, in lower case and trimmed: the *)
(* sequence of what stands between its dots.  "empty" is for nothing at    *)
(* all: <<"empty">> is the empty string, <<"x", "onion", "empty">> is      *)
(* "x.onion.".  The code's tests of substrings and suffixes are then tests *)
(* of labels.                                                              *)
(* Durations are in days.                                                  *)
(***************************************************************************)
EXTENDS Naturals, Integers, Sequences

CONSTANTS
  Labels,    \* what stands between the dots of a name
  MaxLabels  \* bound: labels in a name

ASSUME PolicyAssumption ==
  /\ Labels \subseteq {"empty", "*", "w*", "www", "com", "local", "onion", "localhost", "mylocalhost"}
  /\ MaxLabels \in Nat

VARIABLE AllowInternalDomains  \* the flag of the policy engine, set before it is used

(***************************************************************************)
(* Profiles.                                                               *)
(***************************************************************************)
Profile(type, max, default, usage, ext, ca, san) ==
  [type |-> type, max |-> max, default |-> default, keyUsage |-> usage,
   extKeyUsage |-> ext, isCA |-> ca, requireSAN |-> san]

ServerTLS ==
  Profile("server-tls", 398, 90, {"DigitalSignature"}, {"ServerAuth", "ClientAuth"}, FALSE, TRUE)
ClientAuth == Profile("client-auth", 730, 365, {"DigitalSignature"}, {"ClientAuth"}, FALSE, FALSE)
CodeSigning == Profile("code-signing", 1095, 365, {"DigitalSignature"}, {"CodeSigning"}, FALSE, FALSE)
SubCA == Profile("sub-ca", 3650, 1825, {"CertSign", "CRLSign"}, {}, TRUE, FALSE)
GetProfile == {ServerTLS, ClientAuth, CodeSigning, SubCA}

\* A profile is an argument of the signing calls, so it can be any record.
AnyProfile ==
  [type : {p.type : p \in GetProfile}, max : Int, default : Int,
   keyUsage : SUBSET {"DigitalSignature", "KeyEncipherment", "CertSign", "CRLSign"},
   extKeyUsage : SUBSET {"ServerAuth", "ClientAuth", "CodeSigning"},
   isCA : BOOLEAN, requireSAN : BOOLEAN]

(***************************************************************************)
(* The policy engine with its default settings.                            *)
(***************************************************************************)
ShortMax == 397  \* Bug: a day less than the profile allows.
MaxValidityDuration == 398
MinRSAKeySize == 2048
AllowedECCurves == {"P-256", "P-384", "P-521"}
MaxSerialBits == 159

ValidatePublicKey(k) ==
  \/ k.type = "rsa" /\ k.bits >= MinRSAKeySize /\ k.e >= 65537
  \/ k.type = "ecdsa" /\ k.curve \in AllowedECCurves
  \/ k.type = "ed25519"

HasStar(l) == l \in {"*", "w*"}
LastOf(n) == n[Len(n)]

\* Whether the string ends with an entry of DisallowedDNSNames.  All but localhost
\* begin with a dot, and all but .onion are internal; .local stands for these.
Disallowed(n) ==
  \/ ~AllowInternalDomains /\ LastOf(n) \in {"localhost", "mylocalhost"}
  \/ ~AllowInternalDomains /\ Len(n) > 1 /\ LastOf(n) = "local"
  \/ Len(n) > 1 /\ LastOf(n) = "onion"

\* Bug: the remainder of a wildcard name need not have a dot.
WildcardOverTLD(n) ==
  /\ n # <<"empty">> /\ ~Disallowed(n)
  /\ (\E i \in 1 .. Len(n) : HasStar(n[i])) =>
       Len(n) > 1 /\ n[1] = "*" /\ ~ \E i \in 2 .. Len(n) : HasStar(n[i])

\* A remainder of more than one label contains a dot, also when a label is empty.
ValidateDNSName(n) ==
  /\ n # <<"empty">> /\ ~Disallowed(n)
  /\ (\E i \in 1 .. Len(n) : HasStar(n[i])) =>
       LET remainder == Tail(n) IN
       /\ Len(n) > 1 /\ n[1] = "*"
       /\ Len(remainder) > 1
       /\ ~ \E i \in 1 .. Len(remainder) : HasStar(remainder[i])

\* ValidateCSR; nothing but tests calls it.
ValidateCSR(r) ==
  LET validity == IF r.validity <= 0 THEN r.profile.default ELSE r.validity IN
  /\ ValidatePublicKey(r.key)
  /\ validity <= MaxValidityDuration
  /\ r.profile.max > 0 => validity <= r.profile.max
  /\ \A n \in r.csrNames : ValidateDNSName(n)
  /\ r.profile.requireSAN \/ r.profile.type = "server-tls" => r.csrNames # {} \/ r.otherSANs

\* The rules of LintCertificate a template t violates.  A serial of no bits
\* stands for nil too, which is a rule of its own in the code.
LintCertificate(t, k, profile) ==
  {rule \in {"serial-positive", "serial-20-octets", "validity-chronological",
             "basic-constraints-valid", "basic-constraints-is-ca",
             "key-usage-algorithm-alignment", "ca-key-usage-cert-sign", "san-present", "server-tls-eku"} :
     \/ rule = "serial-positive" /\ t.serialBits = 0
     \/ rule = "serial-20-octets" /\ t.serialBits > MaxSerialBits
     \/ rule = "validity-chronological" /\ t.notAfter < 0  \* five minutes count as none
     \/ rule = "basic-constraints-valid" /\ ~t.basicConstraintsValid
     \/ rule = "basic-constraints-is-ca" /\ t.isCA # profile.isCA
     \/ rule = "key-usage-algorithm-alignment" /\ k.type \in {"ecdsa", "ed25519"}
                                               /\ "KeyEncipherment" \in t.keyUsage
     \/ rule = "ca-key-usage-cert-sign" /\ t.isCA /\ "CertSign" \notin t.keyUsage
     \/ rule = "san-present" /\ profile.requireSAN /\ t.names = {} /\ ~t.otherSANs
     \/ rule = "server-tls-eku" /\ profile.type = "server-tls" /\ "ServerAuth" \notin t.extKeyUsage}

HasLintErrors(results) == results # {}
=============================================================================
