----------------------------- MODULE MCIssuance -----------------------------
(* Instances of Issuance for TLC. *)
EXTENDS Issuance

\* The profiles of the code, and what a caller could make of two of them: every
\* usage of the key, without ServerAuth, with a default in the past.
MCProfiles ==
  GetProfile
    \cup {[ServerTLS EXCEPT !.keyUsage = u, !.extKeyUsage = e, !.default = d] :
            u \in SUBSET {"DigitalSignature", "KeyEncipherment"},
            e \in {{"ServerAuth"}, {"ClientAuth"}}, d \in {90, -1}}
    \cup {[SubCA EXCEPT !.keyUsage = u, !.max = 0] :
            u \in SUBSET {"DigitalSignature", "KeyEncipherment", "CertSign"}}
=============================================================================
