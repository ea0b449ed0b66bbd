------------------------------ MODULE KeyStore ------------------------------
(***************************************************************************)
(* The CA's files and how a process comes by its authority                 *)
(* (pkg/ca/key_store.go, LoadOrInitializeAuthority).  os.WriteFile         *)
(* truncates the file and then fills it; the process may stop, by a crash  *)
(* or an error, between any two steps.  What a file holds is the ceremony  *)
(* it was made in, the same for both keys and both certificates.           *)
(*                                                                         *)
(* What WriteFile has written survives the process.  One process uses the  *)
(* directory at a time, and a file that is there can be seen and read.     *)
(***************************************************************************)
EXTENDS Naturals

CONSTANTS
  Ceremonies,  \* key ceremonies
  Absent,      \* no such file
  Partial,     \* a file that was truncated and not filled: no PEM block in it
  NoCeremony   \* none under way, no authority

ASSUME KeyStoreAssumption ==
  /\ Absent \notin Ceremonies /\ Partial \notin Ceremonies /\ NoCeremony \notin Ceremonies
  /\ Absent # Partial

VARIABLES
  phase,      \* where the process is in NewServerApp
  disk,       \* the contents of each file
  ceremony,   \* the ceremony under way
  next,       \* the number of the file to write next
  authority,  \* the authority in memory: what its three parts were made in
  used,       \* the ceremonies there have been
  served      \* history: the authorities a server has started with

keyVars == <<phase, disk, ceremony, next, authority, used, served>>

\* Bug: the certificate of the intermediate is written before the others.
CertificateFirst == <<"intermediate.crt", "root.key", "root.crt", "intermediate.key">>

\* The order they are written in.
Files == <<"root.key", "root.crt", "intermediate.key", "intermediate.crt">>
FileNames == {"root.key", "root.crt", "intermediate.key", "intermediate.crt"}

\* The files that are looked for, and read; the root's key is not one of them.
Needed == FileNames \ {"root.key"}

Authority(r, i, k) == [root |-> r, intermediate |-> i, key |-> k]
NoAuthority == Authority(NoCeremony, NoCeremony, NoCeremony)

KeyInit ==
  /\ phase = "down"
  /\ disk = [f \in FileNames |-> Absent]
  /\ ceremony = NoCeremony /\ next = 1 /\ authority = NoAuthority
  /\ used = {} /\ served = {}

Boot ==
  /\ phase = "down"
  /\ phase' = "booting"
  /\ UNCHANGED <<disk, ceremony, next, authority, used, served>>

StartCeremony ==
  \E c \in Ceremonies \ used :
    /\ phase' = "writing"
    /\ ceremony' = c /\ used' = used \cup {c} /\ next' = 1

\* Bug: the files are not looked at.
AlwaysGenerate ==
  /\ phase = "booting"
  /\ StartCeremony
  /\ UNCHANGED <<disk, authority, served>>

\* Files that are all there are loaded; when one is not, all are made anew.
LoadOrInitialize ==
  /\ phase = "booting"
  /\ \/ /\ \A f \in Needed : disk[f] # Absent
        /\ phase' = "loading"
        /\ UNCHANGED <<ceremony, next, used>>
     \/ /\ \E f \in Needed : disk[f] = Absent
        /\ StartCeremony
  /\ UNCHANGED <<disk, authority, served>>

loadAuthority ==
  /\ phase = "loading"
  /\ \/ /\ \A f \in Needed : disk[f] # Partial
        /\ phase' = "ready"
        /\ authority' = Authority(disk["root.crt"], disk["intermediate.crt"], disk["intermediate.key"])
     \/ /\ \E f \in Needed : disk[f] = Partial
        /\ phase' = "refused"
        /\ UNCHANGED authority
  /\ UNCHANGED <<disk, ceremony, next, used, served>>

\* Bug: a file that is already there is kept.
TruncateUnlessThere ==
  /\ phase = "writing" /\ next <= 4
  /\ \/ /\ disk[Files[next]] \in {Absent, Partial}
        /\ phase' = "filling"
        /\ disk' = [disk EXCEPT ![Files[next]] = Partial]
        /\ UNCHANGED next
     \/ /\ disk[Files[next]] \in Ceremonies
        /\ next' = next + 1
        /\ UNCHANGED <<phase, disk>>
  /\ UNCHANGED <<ceremony, authority, used, served>>

\* os.WriteFile, up to the truncation and then to the end.
Truncate ==
  /\ phase = "writing" /\ next <= 4
  /\ phase' = "filling"
  /\ disk' = [disk EXCEPT ![Files[next]] = Partial]
  /\ UNCHANGED <<ceremony, next, authority, used, served>>

Fill ==
  /\ phase = "filling"
  /\ phase' = "writing"
  /\ disk' = [disk EXCEPT ![Files[next]] = ceremony]
  /\ next' = next + 1
  /\ UNCHANGED <<ceremony, authority, used, served>>

CeremonyDone ==
  /\ phase = "writing" /\ next = 5
  /\ phase' = "ready"
  /\ authority' = Authority(ceremony, ceremony, ceremony)
  /\ UNCHANGED <<disk, ceremony, next, used, served>>

\* NewServerApp returns, and the server serves.
Serve ==
  /\ phase = "ready"
  /\ phase' = "serving"
  /\ served' = served \cup {authority}
  /\ UNCHANGED <<disk, ceremony, next, authority, used>>

\* The process ends: an error of a write or of loadAuthority, a crash, or the
\* end of a server.
Stop ==
  /\ phase # "down"
  /\ phase' = "down"
  /\ ceremony' = NoCeremony /\ next' = 1 /\ authority' = NoAuthority
  /\ UNCHANGED <<disk, used, served>>

(***************************************************************************)
(* Properties.                                                             *)
(***************************************************************************)
Phases == {"down", "booting", "loading", "writing", "filling", "ready", "serving", "refused"}
Made == Ceremonies \cup {NoCeremony}

KeyTypeOK ==
  /\ phase \in Phases
  /\ disk \in [FileNames -> Ceremonies \cup {Absent, Partial}]
  /\ ceremony \in Made
  /\ next \in 1 .. 5
  /\ authority \in [root : Made, intermediate : Made, key : Made]
  /\ used \in SUBSET Ceremonies

\* The authority a server signs with has certificates and a key of one
\* ceremony, and they are what the files hold: loadAuthority compares neither
\* the key with the certificate nor this with the root, and files of several
\* interrupted ceremonies may lie in the directory (key_store.go:64-100, 176-185).
ServedIsOfOneCeremony ==
  phase \in {"ready", "serving"} =>
    \E c \in used : /\ authority = Authority(c, c, c)
                    /\ \A f \in FileNames : disk[f] = c

\* README.md:126: whatever crashes there were before and since, all servers
\* that ever start on the directory have the same authority.
SameAuthorityForever == \A a, b \in served : a = b

\* A boot is refused, and then all later ones are, only in one case: a first
\* ceremony stopped while it wrote the last file (key_store.go:47, 66-87, 185).
RefusedOnlyHalfWritten ==
  phase = "refused" => /\ disk["intermediate.crt"] = Partial
                       /\ served = {}
                       /\ \E c \in used : \A f \in FileNames \ {"intermediate.crt"} : disk[f] = c

\* Once the last file is there and nobody is writing it, no file is written any
\* more and no keys are made, by this process or a later one: a whole one makes
\* the authority final, a half written one the refusal (key_store.go:47-52, 185).
CommitIsFinal ==
  [][disk["intermediate.crt"] # Absent /\ phase # "filling" => UNCHANGED <<disk, used>>]_keyVars

(***************************************************************************)
(* The inductive invariant behind them: intermediate.crt is the commit     *)
(* record.  Once it is there the other files are of its ceremony, and      *)
(* nothing is written any more.                                            *)
(***************************************************************************)
WritingInv ==
  /\ phase \in {"writing", "filling"} =>
       /\ ceremony \in used
       /\ \/ disk["intermediate.crt"] = Absent /\ next < 5
          \/ next = 4 /\ phase = "filling" /\ disk["intermediate.crt"] = Partial
          \/ next = 5 /\ disk["intermediate.crt"] = ceremony
       /\ next > 1 => disk["root.key"] = ceremony
       /\ next > 2 => disk["root.crt"] = ceremony
       /\ next > 3 => disk["intermediate.key"] = ceremony
  /\ phase = "filling" => next <= 4

CommitInv ==
  /\ disk["intermediate.crt"] # Absent =>
       \E c \in used : /\ \A f \in FileNames \ {"intermediate.crt"} : disk[f] = c
                       /\ disk["intermediate.crt"] \in {c, Partial}
  /\ phase = "loading" => \A f \in Needed : disk[f] # Absent
  /\ \A a \in served : \E c \in used :
       a = Authority(c, c, c) /\ \A f \in FileNames : disk[f] = c

KeyInv ==
  /\ KeyTypeOK /\ WritingInv /\ CommitInv
  /\ ServedIsOfOneCeremony /\ SameAuthorityForever /\ RefusedOnlyHalfWritten
=============================================================================
