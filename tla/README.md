# A TLA+ model of go-certa

go-certa is a certificate authority: clients enrol over EST or ACME, operators
revoke over a small REST API, and relying parties ask the OCSP responder or
fetch a CRL. These modules model its core, the state shared by all of that, and
check and prove what makes it correct. All paths below are relative to the
repository's root.

## 1. Inventory

| Component | State | Operations | What is hard | What makes it correct |
|---|---|---|---|---|
| Storage (`pkg/storage`) | certificates, revocations, reserved serials | save, get, revoke, list, reserve | two backends; SQLite's reservation is two statements; revocation writes two tables | one owner per serial, tables agree, revocation final |
| Serial allocation (`pkg/ca/serial.go`) | none | draw, reserve, retry at most five times | collisions between concurrent draws | no serial signed twice, the loop ends |
| EST (`pkg/protocols/est`) | none | enrol: reserve, queue for signing, save, answer | store failure after signing | what is returned is on record |
| Worker pool (`pkg/signer`) | bounded queue of jobs, workers | submit, work, stop | full queue, shutdown with jobs queued | every submitted job is answered |
| Revocation API and OCSP (`pkg/protocols/ocsp`) | none of their own | revoke and read back; status lookup in two reads | reads of two tables at two moments | answers are true when given |
| CRL (`pkg/protocols/crl`) | list counter, cached list, running flag, stop channel, one loop | regenerate, start, stop, tick | two mutexes, a background loop, publication after unlocking, restarts | numbers ordered like contents, freshness, progress, no stray loop |
| ACME (`pkg/protocols/acme`) | accounts, orders, authorizations, challenges, certificates, nonces | the RFC 8555 handlers | check, unlock, work, lock again in finalisation; orders outlive requests | order status follows authorizations; one certificate per order |
| Key store (`pkg/ca/key_store.go`) | four files | load or create | crash between writes | a restart loads a matching set or fails |
| Authority and CT (`pkg/ca/authority.go`, `pkg/ctlog`) | none | precertificate, submit to logs, final certificate | partial failure of several logs | a certificate carries the timestamps of its own precertificate |
| Policy and profiles (`pkg/ca/policy.go`, `profile.go`) | none | pure checks | numeric and list edges | only permitted requests are signed |
| Audit (`pkg/audit`) | sequence of hashed events, previous hash | append, verify | write errors, restarts | the file verifies |
| Telemetry (`pkg/telemetry`) | atomic counters | increment, export | two-step updates | counters never run backwards |
| Bootstrap (`cmd/certa-server`) | the wiring | start, stop | order of shutdown | nothing is used after it is closed |

The handlers interact through the storage and, for EST, the worker pool's
queue, each on a goroutine of its own per request. The CRL service has a
background goroutine besides. ACME keeps its
objects in memory and uses the storage for reservation and saving. A restart
keeps SQLite's tables and the key files and loses all else.

## 2. Order of the work

1. `Storage`, `SerialLedger`, `CertLifecycle`, `LifecycleProofs`: the store
   with the protocols around it, the core of the system. Done.
2. `CRLService`, `RevocationLists`, `CRLProofs`: generation and publication of
   CRLs. Done.
3. `AcmeOrders`, `OrderLifecycle`, `AcmeProofs`: orders on top of `Storage`;
   `AcmeAuth`, `RequestGate`, `AcmeAuthProofs`: what a request passes before those
   handlers. Done.
4. `KeyStore`, `AuditChain`, composed in `DataDirectory`,
   `DataDirectoryProofs`: processes, crashes and write errors on one data
   directory. `ServerProcess`, `SigningCalls`, `ServerProcessProofs`: the worker
   pool, EST's wait for it, and the shutdown. Done.
5. `IssuancePolicy`, `Issuance`, `IssuanceProofs`: the checks before a
   signature and the submission to CT logs. Done.

What would come next: an abstract specification of the data directory and one of
issuance, the HTTP layer of OCSP (its older in-memory revocation list and its
caching headers), and http-01 validation once the server calls it.

## 3. Modules

**`Storage`**: the three tables as `certificates`, `revocations` and `serials`,
the operations of the `Storage` interface as actions that take their result as
last parameter. `MemoryStorage` holds its mutex through a call and
`SQLiteStorage` has one connection, so an operation is a step, except SQLite's
`ReserveSerial` (sqlite.go:252), which runs a SELECT and an INSERT outside any
transaction and is the two actions `SelectSerial` and `InsertSerial`. A serial,
once normalised, is a model value; times, DER and PEM are left out; the error
`"failed"` stands for all that callers do not tell apart.

**`SerialLedger`**: what the store and the handlers promise. A serial goes from
free through claimed, signed and stored to revoked, each once; `bearing` counts
the certificates that bear it; and every answer is true of the ledger at the
moment it is given. `CertLifecycle` maps the phase to its tables, and `bearing` to
`signatures`, the count of what was really signed, so an implementation cannot
sign a serial twice nor change or lose a revocation.

**`CertLifecycle`** (extends `Storage`): callers are request goroutines. An
enrolment draws, reserves (`Reserve`, or `Select` and `Insert`), signs and
saves; a revocation revokes and reads back (`Confirm`); an OCSP query reads the
certificate (`Status`) and, if it is revoked, the record (`ReadRevocation`).
Every storage call is a step and may fail; steps interleave; `Restart` drops
all callers. ACME's finalisation allocates serials by the same function, and
ignores a failing save in the same way.

**`CRLService`** (extends `Storage`): callers run `Regenerate`, `Start` and
`Stop`; loops are the goroutines `Start` spawns. The generator's mutex `mu` is
held from `Lock` to the end of `Sign`; the service's mutex guards sections
without calls, which are single steps. The stop channels are numbered and a
loop's `select` first reads the current one (`Select`) and then waits for a tick
(`Tick`), or the closed channel or the context (`Quit`). `Tick` performs the
TryLock of generator.go:199 whose result the code ignores. `known` and `signed`
are history variables. **`RevocationLists`** is its abstract specification:
serials get revoked, lists are signed that are numbered upwards and contain
the earlier ones, and who publishes one publishes a list of all that was
revoked when its call began. It has no mutex, loop or counter. The mapping
(`Lists`) takes the lists of the running process out of `signed`.

**`AcmeOrders`** (extends `Storage`): orders with their status, authorizations
and certificate. `NewOrder`, `Challenge` and `GetOrder` are one critical section
each. A finalisation checks the authorizations in one (`Finalize`), works
without the mutex (`Reserve`, `Sign`, `Save`, each of which may fail) and
publishes in a second (`Publish`). Requests begin where their JWS has been
verified. An authorization has exactly one challenge and both are always
written together, so one value stands for both; a serial stands for the random
identifier its chain is downloaded under; identifiers do not repeat.
`GenerateAndReserveSerial` is one step that claims a free serial or fails, as
`OneCertificatePerSerial` of `CertLifecycle` allows. The configuration
flag `SkipChallengeValidation` lets a challenge be answered repeatedly; it is a
constant, the run takes the setting with more behaviours, the proofs cover
both. ACME's maps live in memory and a restart begins them anew, so there is no
restart action. **`OrderLifecycle`** is what clients see of an order: created with
authorizations of its own, ready when the last of them is proven, certified
from then on. In the mapping (`Life`) a finalisation is one step, its
publication, and whatever happens between its two critical sections is none.
That an order can be certified more than once is what the code does
(`AcmeTwice`).

**`AcmeAuth`**: what a POST passes before its handler works. `Receive` is the
head of `ServeHTTP`, `Decode` is `DecodeAndVerifyJWS` with the look-up of a `kid`
under the server's mutex, `CheckNonce` the rest of `verifyJWS`, and
`NewAccount`, `Problem` and `Other` the handler; `Answer` sends the headers. The
nonce map is under a mutex of its own, so looking at a nonce and deleting it is
one step. `addNonceHeader` is called up to three times for one answer and can
fail each time. A client may send any request any number of times, with any
nonce that was ever sent to anybody. A JWK is a key and one of two encodings of
it; a thumbprint is the canonical JWK it is the hash of. All that fails before
a key is found, a wrong signature included, is `Nothing`. **`RequestGate`** keeps
of all that which nonces were sent, let a request through (`spent`) or expired
(`lapsed`), the key of each account, and what clients have been told.

**`KeyStore`**: `LoadOrInitializeAuthority`. The steps are looking for the three
files it needs, loading them, and for each of the four files it writes the
truncation and the filling. `Stop` ends the process in any state. What a file
holds is the ceremony it comes from. **`AuditChain`**: `LogEvent` with the three
outcomes of its write, `VerifyChain`, and a new logger in each process. A hash
is the sequence of identifiers hashed into it. **`DataDirectory`** extends both:
`NewServerApp` opens the log when the authority is there, and the server logs
and stops. At this commit it logs one event, at its start; the model logs any
number, which is what the logger's API allows.

**`ServerProcess`**: handlers submit to a queue of `QueueSize`, wait for their
result channel and save; workers take, sign and quit; main's goroutine goes
through draining, cancelling, closing and exiting. `Submit` blocks while the
queue is full. A worker with both a job and a done context takes either, as
`select` does. The drain ends when all requests have (`Drained`) or after its five
seconds (`TimesOut`), and then the shutdown goes on all the same.
**`SigningCalls`** is what requests rely on: each gets one result, and a shutdown
that ends in time ends after the last of them. The mapping (`Calls`) hides the
queue and the workers.

**`IssuancePolicy`**: the profiles and `ValidatePublicKey`, `ValidateDNSName`,
`ValidateCSR` and `LintCertificate` as operators. The checks of a name test a
string, lower-cased and trimmed: contains a star, ends with `.onion`, begins
with `*.`, has a dot after that. A name is therefore the sequence of what
stands between its dots, of which `"empty"` is nothing at all, so that `x.onion.`
and `*..com` are names like others. What is signed is the name as it was given,
before trimming and lower-casing. **`Issuance`** extends it: one call of
`SignCertificateWithProfile` (`Profiled`) or `SignCertificateWithCT` (`Checked`,
`Precertificate`, `Submit` or `SubmissionFails` for each log, `Finish`). The code
writes the default of the validity, the choice of names, the key usage, the
template and the checks once for each call; the second copies are the operators
that begin with `CT`, and `PassesWithCT`. An SCT keeps the length of its extensions and the two bytes the code writes for it (`% 65536`).
At this commit the server calls neither `SignCertificateWithCT` nor
`ValidateCSR`; they are part of the package's API.

**`LifecycleProofs`**, **`CRLProofs`**, **`AcmeProofs`**, **`AcmeAuthProofs`**,
**`DataDirectoryProofs`**, **`ServerProcessProofs`**, **`IssuanceProofs`**: the
theorems. **`MCLifecycle`**, **`MCCRL`**, **`MCAcme`**, **`MCAcmeAuth`**,
**`MCDataDirectory`**: symmetry sets for TLC; **`MCIssuance`**: the profiles;
**`MCServerProcess`** adds nothing, as liveness rules symmetry out.

The definitions preceded by a comment that begins with "Bug:" are not part of
any specification; each is the form an operation would take with a plausible
mistake in it, and the property it is meant for fails with it.

## 4. Runs

| Run | Bounds | Shows |
|---|---|---|
| LifecycleSqlite | 3 callers, 2 serials, 2 reasons, 2 attempts | types, unique serials, agreeing tables, and refinement of `SerialLedger`, in which revocations are final |
| LifecycleMemory | 2 callers, otherwise the same | refinement of `SerialLedger`, unique serials included, on the other backend; every call is answered |
| CRLSafety | 2 callers, 2 loops, 2 serials, 4 calls, 1 restart | ordering of numbers, contents across restarts, freshness, stop channels, refinement of `RevocationLists` |
| CRLReturns | 2 callers, 1 loop, 2 calls | a regeneration returns unless a loop has locked itself out |
| CRLPublished | 1 caller, 1 loop | violated: revocations get published |
| CRLStop | 1 caller, 2 loops | violated: Stop halts the loop |
| AcmeSafety | 3 callers, 2 orders, 3 authorizations, 3 serials | status follows authorizations, no unauthorized signature, valid orders have their certificate, refinement of `OrderLifecycle` |
| AcmeTwice | 2 callers, 1 order | violated: an order gets one certificate |
| AcmeRequests | 2 callers, 3 nonces, 2 keys, 2 accounts | nonces are single use and not lost, answers carry fresh ones, refinement of `RequestGate` with one account per key |
| ServerStop | 3 handlers, 2 workers, queue of 1 | a request is in one place, clean shutdown, refinement of `SigningCalls`, every request answered, the process ends |
| DataDirectory | 3 ceremonies, 4 lines, any number of processes | one authority of one ceremony for ever, refusals, losses show in the audit file |
| Issuance | names of up to 4 labels of 9, 28 profiles, 3 submitters, 4 lengths of extensions | good names from both calls, a lint that blames only profiles, the uncalled check, all SCTs and true lengths |

Two serials let callers collide and also do without collision; three callers
give a race between two and an observer. Two attempts reach both the retry and
the exhaustion. `MaxCalls` (calls of the CRL service's API), `MaxNumber`
(ticks stop when that many lists are numbered; only two loops alternating can
tick without bound) and `MaxRestarts` keep the state space finite; four calls
are enough for Start, Stop, Start and a concurrent Regenerate.

Three authorizations allow an order with two and another with one, so that the
last challenge of an order matters and the two do not mix; three callers and
serials allow two finalisations of one order next to one of the other.

Two callers race for one nonce or one account while the third nonce is in a
header. Three handlers fill one worker, a queue of one and its sender; with two
workers one can quit beside one that signs. Three ceremonies leave parts of two
interrupted ones under a third, and `MaxLines` (the lines of the file) of four
lets two processes log two events each. Four labels put a wildcard in front, in
the middle and over a suffix, and empty labels anywhere; the profiles are the four
of the code, and those of servers and subordinates with any key usage, without
`ServerAuth` and with a default validity in the past; `MaxLogs` (the submitters of a call) of three has a
nil one between two logs or a log twice. The lengths are none, half of what
fits, what fits alone but not beside its own header, and one past sixteen bits.

`CHECK_DEADLOCK FALSE` is in the CRL runs, where the service idles when the calls
are used up, or all its goroutines wait for the mutex, which is what
`RegenerateReturns` and `RevocationIsPublished` are about; in ServerStop, where
the process exits; and in Issuance, where the call returns.

The violated properties are claims of the documentation or of comments; the
project file quotes each line next to the trace's explanation.

**Fairness.** Lifecycle: weak fairness of each caller's steps, as the Go
scheduler runs every runnable goroutine and no step waits. CRL: weak fairness of
steps; strong fairness of taking the mutex, since `sync.Mutex` hands over to
starving waiters; strong fairness of a loop's leaving, since `select` chooses at
random among ready cases; and of the succeeding branches of listing and signing,
as failures do not last for ever. ServerProcess: weak fairness of goroutines and
of the drain's timer; strong fairness of `Submit`, since senders blocked on a
channel are queued in order of arrival; none of arrivals, of the signal that
begins the shutdown, or of a worker's quitting. No property that holds relies on
a call being made.

## 5. Proofs

The inductive invariants are not properties of the runs: the proofs establish
them. The runs check what follows from them. An abstract specification is a
property of a run, and a theorem `Implements...`: the initial states map to
initial ones, and each action has a lemma that its step maps to one abstract
step or to a stutter.

`LifecycleProofs` proves, for any callers, serials, reasons, bound on attempts
and both backends: `TypeOK`; the inductive invariant `LifecycleInv`, whose
heart is `HeldExclusively`: a caller between reservation and saving is the only
one with its serial, the serial is reserved, and it has been signed exactly if
the caller is past signing. From it follow unique serials and agreeing tables;
`RevocationIsFinal` is proved as an action property; and every step is shown to
map to a step of `SerialLedger` or to a stutter. `OneCertificatePerSerial` alone
is not inductive: nothing in it keeps two callers from holding one serial. For
the ledger's `SignOnce` the phase has to say how many certificates bear a serial,
and `HeldExclusively` does.

`CRLProofs` proves, for any number of callers, loops, calls and restarts, the
inductive invariant `CRLInv`: who is between `Lock` and `Sign` has the mutex;
no list is ahead of the counter or of the store; and the records in hand under
the mutex cover every list signed before (`HandCovers`), which
is why numbers are ordered like contents. They cover those of earlier processes
too, as revocations stay in the store, and so lists only grow across restarts
(`LaterListsCoverEarlier`) although numbers begin again. The channels' part is `ChannelsClosed`.

That the service implements `RevocationLists` needs besides that the lists in
hand and in the cache are of the running process (`OwnLists`): a restart loses
both. Two facts about the TryLock go with it. `OnlyLoopsLockThemselvesOut`: who
has the mutex is in `GenerateCRL` and gives it back on every path, but for a
loop whose TryLock succeeded and which then waits for itself.
`LockoutsAreFinal`: from then on nobody in this process signs a list. They are
why `RegenerateReturns`, which TLC checks, needs its second alternative and no
other, and they explain the violation in `CRLPublished`.

`AcmeProofs` proves the safety properties of `AcmeOrders` for any number of
requests, orders and authorizations, both backends and both settings of the
flag. The inductive invariant `AcmeInv` adds to them that the maps of orders and
authorizations agree (`MapsAgree`), without which a challenge could ready an
order it does not belong to, and that a finalisation under way has an order that
is settled and a serial nobody else holds, unsigned until `Sign` and signed for
that order afterwards (`FinalisingInv`). The first is kept because authorizations
never become invalid again, which is what makes it safe to check them in one
critical section and to act on them in a later one. For `OrderLifecycle` a
publication has to make its chain for the first time; `Unpublished` says why: a
finalisation under way holds a serial nothing is published under, and all
published ones are reserved.

`AcmeAuthProofs` proves all safety properties of `AcmeAuth` for any number of
requests, nonces, keys and accounts. Every step of a request, from its arrival to
the end of its handler, is a `RequestStep`: it may consume one nonce, which has
been sent to somebody, and puts into its header a nonce that was unused, so one
argument (`NoncesAfterRequest`) serves all of them. The fact that makes it
inductive is that what is in a header has not been sent, and what a request
carries has. The two maps of the accounts stay inverse to each other on canonical
encodings (`AccountMapsAgree`), which needs that a request was verified with the
key of its own jwk (`CallInv`). `RequestGate` is implemented: the one step that
consumes a nonce is its `Pass`, and that a nonce in the map has not been
marked expired (`LiveIsNotLapsed`) makes it allowed.

`DataDirectoryProofs` proves the properties of the data directory for any number
of ceremonies and lines. In `KeyInv` the certificate of the intermediate, the
last file written, is the commit record: until it exists every start makes all
files anew, and once it does the others are of its ceremony and nothing is
written any more (`WritingInv`, `CommitInv`). A crash while it is written is the
one case that refuses every later start. `CommitsAreFinal` states both as an
action property: once that file is there and nobody is writing it, no process
changes a file or makes keys. In `AuditInv` a hash is as long as its event is
deep in the chain, so that a line can verify in its own place only, which makes
the gap of a lost line visible.

`ServerProcessProofs` proves the safety properties of `ServerProcess` for any
number of handlers, and any number of workers and capacity but none.
`InOnePlace` is inductive with the types. A clean shutdown follows from it and
from `NoneLeft`: after a drain without timeout all handlers are idle, no
connection can bring another request, and so nothing can be in the queue or with
a worker. With them `SigningCalls` is implemented, for a call has its result
settled once, by the worker that has it.

`NobodyIsStuck` is the safety part of `RequestsAreAnswered`: until a shutdown
times out, workers do not go, and a request that is not finished can take its
next step or some worker can. It rests on the two assumptions of
`ProcessAssumption`, at least one worker and a queue of at least one
(app.go:161); that everybody who can go on eventually does is fairness, and
stays with TLC.

`IssuanceProofs` proves, for names of any length with empty labels anywhere, any
set of profiles, any number of logs and any lengths:

- `FinalHasItsSCTs`: the SCTs of a final certificate are, in order, one for each
  submitter that is not nil, by naming the submitter of each (`OneSCTEach`); that
  this holds of the SCTs so far and the submitters passed is inductive (`SCTInv`).
- `LengthsAreTrue`: an SCT that can be encoded has less than 65536 bytes, so its
  extensions have, although the conversion that writes their length does not check.
- `SignedNamesAreGood`, for each call with its own copy of the choice of names. It
  is about the labels of the string, as the checks are: of a name without empty
  labels it says what docs/policy_and_linting.md:96-112 asks, of others less
  (section 6).
- `LintBlamesTheProfile`: what the lint finds in a request that a call has checked
  is, besides a serial that is too long, exactly what is wrong with its profile: a
  default validity in the past that is used, KeyEncipherment without
  DigitalSignature and an EC or Ed25519 key, a CA without CertSign, a server
  profile without ServerAuth. One argument (`LintFinds`) serves the templates of
  both calls. The four profiles of the code have no fault.
- `ValidateCSRAgrees`, for server certificates with the names of the CSR.

The requests are those of `Requests`, whose keys and validities are the listed
ones.

The assumptions are those on the constants, which TLC evaluates in the runs.
Only model-checked are the liveness properties (`CallsReturn`, `RegenerateReturns`,
`RequestsAreAnswered`, `StopEnds`), as the prover has no rules for fairness. All
other properties of the passing runs are theorems. Three theorems state what no
run lists because a run's refinement implies it (`RevocationsAreFinal`,
`OrdersNeverRegress`, `AccountsAreOnePerKey`), one what two invariants have in
common (`CommitsAreFinal`), and three what is on the way to liveness
(`OnlyLoopsLockThemselvesOut`, `LockoutsAreFinal`, `NobodyIsStuck`).

## 6. Assumptions and what no property is about

Taken as given: random identifiers and serial numbers of ACME and audit objects
do not repeat, where the code does not check (serials of certificates do, and
are reserved); SHA-256 has no collisions; what `os.WriteFile` has written
survives the process (loss of power is not modelled; the code does not sync);
one process at a time uses a data directory, and a file that is there can be
seen and read (any error of `os.Stat` starts a new ceremony, key_store.go:57);
keys the X.509 parser refuses do not reach the policy; the answer to a
submission is the SCT of the log it was sent to (client.go:75-98 does not compare
the log's identifier). Clocks are left out: validities are in days and the five
minutes of backdating count as none. Generating a nonce commutes with the steps of others,
as nobody knows it yet. A failing listener ends the process through `log.Fatalf`,
without a shutdown; that exit is left out.

Behaviour the models contain and no property is about:

- EST and ACME return a certificate whose record could not be saved
  (est/handler.go:105, acme/server.go:736; docs/acme_server.md:19 has the
  certificate stored before the order is valid).
- A reservation that collides between SQLite's two statements returns the
  driver's error, which is not retried (sqlite.go:267;
  docs/storage_and_serials.md:107).
- Names with an empty label get past rules the documentation states without
  exception. "Wildcards cannot directly precede a top-level domain"
  (docs/policy_and_linting.md:100), and `.onion` "remains strictly forbidden" (:112),
  but the code looks for a dot in what follows `*.` (policy.go:228) and compares the
  end of the string (policy.go:211), so that `*.com.`, whose last dot is the root's,
  `*..com` and `x.onion.` are signed, and `x.local.` where internal domains are not
  allowed. ACME
  passes identifiers on as they come (acme/server.go:452, 690-716).
  `SignedNamesAreGood` is what does hold of such names.
- List numbers begin at one again after a restart (generator.go:66), although by
  docs/crl_generation.md:54 the number lets relying parties reject older lists;
  `LaterListsCoverEarlier` says that the contents do not go back.
- Two regenerations can publish in the other order than they were numbered
  (generator.go:153; docs/crl_generation.md:54), and a `Start` whose first list fails leaves
  the running flag set (generator.go:188).
- Nobody calls the nonces' `Cleanup`, and a request makes nonces that no answer
  carries (nonce.go:65, server.go:164).
- A drain that times out takes workers and store away from requests under way
  (app.go:402): a certificate can then come to a closed store.
- docs/policy_and_linting.md:31-39 has `ValidateCSR` in the signing path; the code
  does not call it. `ValidateCSRAgrees` says where that makes no difference.

## 7. Not modelled

Encodings (X.509, ASN.1, JOSE, PEM, hex), HTTP headers and routing, the random
source, clocks, flags and environment. The OCSP responder's request and response
encoding, its caching headers, and the in-memory revocation list that the server
does not use. The directory and the
problem documents of ACME, and http-01 validation, which the server does not
call. `NewAuthority`, the hierarchy of a server without a data directory, which a
restart loses, and the mock CT log, which enters as the answers a log can give.
Telemetry: no caller increments a
counter at this commit, and the one gauge that is set samples the length of
the queue, so there is no state to relate it to. The API documentation handler
serves a file and the mTLS example is not part of the server.
