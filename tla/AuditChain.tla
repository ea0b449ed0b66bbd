----------------------------- MODULE AuditChain -----------------------------
(***************************************************************************)
(* The audit log (pkg/audit/logger.go): a hash chain in memory, and its    *)
(* events as lines appended to a file that several processes fill one      *)
(* after the other.  SHA-256 is taken to be free of collisions, so a hash  *)
(* is the sequence of the events hashed into it; an event is known by its  *)
(* random identifier, which never repeats.                                 *)
(***************************************************************************)
EXTENDS Naturals, Sequences

VARIABLES
  events,    \* the chain in memory
  lastHash,  \* the hash of its head
  file,      \* the lines of audit.log
  cut,       \* its last line has no end
  start      \* the length of the file when the process opened it

auditVars == <<events, lastHash, file, cut, start>>

GenesisHash == <<>>

Event(id, prev, hash) == [id |-> id, prev |-> prev, hash |-> hash]

\* A line that holds no event: cut off, or two run into one.
Garbage == Event(0, GenesisHash, GenesisHash)

ComputeEventHash(e) == Append(e.prev, e.id)

VerifyChain(s) ==
  \A i \in 1 .. Len(s) :
    /\ s[i].prev = IF i = 1 THEN GenesisHash ELSE s[i - 1].hash
    /\ s[i].hash = ComputeEventHash(s[i])

AuditInit ==
  /\ events = <<>> /\ lastHash = GenesisHash
  /\ file = <<>> /\ cut = FALSE /\ start = 0

\* Bug: the new logger goes on with the events of the old one.
KeepEvents == start' = Len(file) /\ lastHash' = GenesisHash /\ UNCHANGED <<events, file, cut>>

\* A process makes its logger: the chain begins at genesis, the file goes on.
NewChainAuditLogger ==
  /\ events' = <<>> /\ lastHash' = GenesisHash
  /\ start' = Len(file)
  /\ UNCHANGED <<file, cut>>

\* What a write leaves in the file: the line, part of it, or nothing, because
\* the file could not be opened or standard output failed before it.  A line
\* that follows one without end is garbage together with it.
WriteLine(e, outcome) ==
  \/ outcome = "none" /\ UNCHANGED <<file, cut>>
  \/ /\ outcome = "part"
     /\ file' = IF cut THEN file ELSE Append(file, Garbage)
     /\ cut' = TRUE
  \/ /\ outcome = "line"
     /\ file' = IF cut THEN file ELSE Append(file, e)
     /\ cut' = FALSE

Outcomes == {"line", "part", "none"}

\* Bug: the chain advances only when the event could be written.
LogEventIfWritten(id, outcome) ==
  LET e == Event(id, lastHash, ComputeEventHash(Event(id, lastHash, GenesisHash))) IN
  /\ events' = Append(events, e)
  /\ lastHash' = IF outcome = "line" THEN e.hash ELSE lastHash
  /\ WriteLine(e, outcome)
  /\ UNCHANGED start

\* LogEvent, under the logger's mutex; a failed write is ignored.
LogEvent(id, outcome) ==
  LET e == Event(id, lastHash, ComputeEventHash(Event(id, lastHash, GenesisHash))) IN
  /\ events' = Append(events, e)
  /\ lastHash' = e.hash
  /\ WriteLine(e, outcome)
  /\ UNCHANGED start

(***************************************************************************)
(* Properties.                                                             *)
(***************************************************************************)

\* The lines of this process.
Stretch == SubSeq(file, start + 1, Len(file))

IsPrefixOf(s, t) == Len(s) <= Len(t) /\ \A i \in 1 .. Len(s) : s[i] = t[i]

\* The chain in memory verifies at shutdown (main.go:94-99), and the lines of
\* this process verify exactly when they are its first events, without a gap:
\* an event whose write failed, or was run into another line, shows as soon as
\* a later one is in the file (logger.go:165-177).
LossShows ==
  /\ VerifyChain(events)
  /\ VerifyChain(Stretch) <=> IsPrefixOf(Stretch, events)

(***************************************************************************)
(* The inductive invariant behind it: a hash is as long as its event is    *)
(* deep in the chain, so an event can only verify in its own place.        *)
(***************************************************************************)
Lines == [id : Nat, prev : Seq(Nat), hash : Seq(Nat)]

AuditTypeOK ==
  /\ events \in Seq(Lines) /\ lastHash \in Seq(Nat)
  /\ file \in Seq(Lines) /\ cut \in BOOLEAN
  /\ start \in Nat /\ start <= Len(file)

HashesCount ==
  /\ Len(lastHash) = Len(events)
  /\ events # <<>> => lastHash = events[Len(events)].hash
  /\ \A i \in 1 .. Len(events) : Len(events[i].hash) = i
  /\ Len(file) <= start + Len(events)

AuditInv == AuditTypeOK /\ HashesCount /\ LossShows
=============================================================================
