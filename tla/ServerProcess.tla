---------------------------- MODULE ServerProcess ----------------------------
(***************************************************************************)
(* One life of the server: enrolment requests that wait for a signature    *)
(* from the worker pool (pkg/signer/pool.go, HandleSimpleEnroll), and its  *)
(* end (ServerApp.Stop and main): the HTTP server drains with a timeout,   *)
(* the workers' context is cancelled, the store and the audit file are     *)
(* closed, the process exits.                                              *)
(*                                                                         *)
(* A handler stands for its request and for the result channel it made.    *)
(* What the pool signs is CertLifecycle's and Issuance's business.         *)
(***************************************************************************)
EXTENDS Naturals, Sequences

CONSTANTS
  Handlers,   \* handler goroutines of the HTTP server
  Workers,    \* goroutines of the pool
  QueueSize,  \* the capacity of the jobs channel
  NoJob       \* a worker has no job

\* app.go:161 makes 16 workers and a queue of 1000.
ASSUME ProcessAssumption ==
  /\ NoJob \notin Handlers
  /\ QueueSize \in Nat \ {0}
  /\ Workers # {}

VARIABLES
  phase,     \* how far Stop has come
  timedOut,  \* the context of the shutdown was done before the requests were
  jobs,      \* the jobs channel
  pc,        \* where each handler is
  result,    \* what is in its result channel
  job,       \* the job each worker signs
  state,     \* where each worker is
  late       \* history: a certificate came to a store that was closed

vars == <<phase, timedOut, jobs, pc, result, job, state, late>>

Phases == {"serving", "draining", "drained", "cancelled", "closed", "exited"}

Running == phase # "exited"
ContextDone == phase \in {"cancelled", "closed"}

Init ==
  /\ phase = "serving" /\ timedOut = FALSE /\ late = FALSE
  /\ jobs = <<>>
  /\ pc = [h \in Handlers |-> "idle"]
  /\ result = [h \in Handlers |-> "none"]
  /\ job = [w \in Workers |-> NoJob]
  /\ state = [w \in Workers |-> "new"]

(***************************************************************************)
(* Requests.                                                               *)
(***************************************************************************)
Go(h, l) == pc' = [pc EXCEPT ![h] = l]

\* A request whose body decodes and whose serial is reserved.  Shutdown closes the
\* listener, and every connection when it is idle: while it waits, and after it
\* has given up, requests still come over connections accepted before.
Arrive(h) ==
  /\ phase \in {"serving", "draining"} \/ (timedOut /\ Running)
  /\ pc[h] = "idle"
  /\ Go(h, "submitting")
  /\ UNCHANGED <<phase, timedOut, jobs, result, job, state, late>>

\* Bug: the queue takes whatever comes.
SubmitUnbounded(h) ==
  /\ Running /\ pc[h] = "submitting"
  /\ jobs' = Append(jobs, h)
  /\ Go(h, "waiting")
  /\ UNCHANGED <<phase, timedOut, result, job, state, late>>

\* Submit; it blocks while the queue is full.
Submit(h) ==
  /\ Running /\ pc[h] = "submitting"
  /\ Len(jobs) < QueueSize
  /\ jobs' = Append(jobs, h)
  /\ Go(h, "waiting")
  /\ UNCHANGED <<phase, timedOut, result, job, state, late>>

\* The handler gets its result; an error is answered at once.
Receive(h) ==
  /\ Running /\ pc[h] = "waiting" /\ result[h] # "none"
  /\ Go(h, IF result[h] = "cert" THEN "saving" ELSE "idle")
  /\ result' = [result EXCEPT ![h] = "none"]
  /\ UNCHANGED <<phase, timedOut, jobs, job, state, late>>

\* SaveCertificate, whose error is ignored, and the answer.
Save(h) ==
  /\ Running /\ pc[h] = "saving"
  /\ Go(h, "idle")
  /\ late' = (late \/ phase = "closed")
  /\ UNCHANGED <<phase, timedOut, jobs, result, job, state>>

(***************************************************************************)
(* Workers.  A select with a job and a done context takes either.          *)
(***************************************************************************)
Become(w, l) == state' = [state EXCEPT ![w] = l]

StartWorker(w) ==
  /\ Running /\ state[w] = "new"
  /\ Become(w, "idle")
  /\ UNCHANGED <<phase, timedOut, jobs, pc, result, job, late>>

\* Bug: the job is left in the queue until it is signed.
TakePeeking(w) ==
  /\ Running /\ state[w] = "idle" /\ jobs # <<>>
  /\ job' = [job EXCEPT ![w] = Head(jobs)]
  /\ Become(w, "signing")
  /\ UNCHANGED <<phase, timedOut, jobs, pc, result, late>>

Take(w) ==
  /\ Running /\ state[w] = "idle" /\ jobs # <<>>
  /\ job' = [job EXCEPT ![w] = Head(jobs)]
  /\ jobs' = Tail(jobs)
  /\ Become(w, "signing")
  /\ UNCHANGED <<phase, timedOut, pc, result, late>>

\* Bug: a worker returns the error of a job, which ends the errgroup's context.
SignOrReturn(w) ==
  /\ Running /\ state[w] = "signing"
  /\ \E res \in {"cert", "error"} :
       /\ result' = [result EXCEPT ![job[w]] = res]
       /\ state' = IF res = "cert" THEN [state EXCEPT ![w] = "idle"]
                                   ELSE [v \in Workers |-> IF v = w \/ job[v] = NoJob THEN "gone" ELSE state[v]]
  /\ job' = [job EXCEPT ![w] = NoJob]
  /\ UNCHANGED <<phase, timedOut, jobs, pc, late>>

\* SignCertificate; the result channel has room for the one result.
Sign(w) ==
  /\ Running /\ state[w] = "signing"
  /\ \E res \in {"cert", "error"} : result' = [result EXCEPT ![job[w]] = res]
  /\ job' = [job EXCEPT ![w] = NoJob]
  /\ Become(w, "idle")
  /\ UNCHANGED <<phase, timedOut, jobs, pc, late>>

Quit(w) ==
  /\ ContextDone /\ state[w] = "idle"
  /\ Become(w, "gone")
  /\ UNCHANGED <<phase, timedOut, jobs, pc, result, job, late>>

(***************************************************************************)
(* The end, in main's goroutine.                                           *)
(***************************************************************************)
StopBegins ==
  /\ phase = "serving"
  /\ phase' = "draining"
  /\ UNCHANGED <<timedOut, jobs, pc, result, job, state, late>>

\* Bug: Stop does not wait for the requests.
DrainAtOnce ==
  /\ phase = "draining"
  /\ phase' = "drained"
  /\ UNCHANGED <<timedOut, jobs, pc, result, job, state, late>>

\* HTTPServer.Shutdown returns when no request is left.
Drained ==
  /\ phase = "draining"
  /\ \A h \in Handlers : pc[h] = "idle"
  /\ phase' = "drained"
  /\ UNCHANGED <<timedOut, jobs, pc, result, job, state, late>>

\* It returns after five seconds; Stop goes on all the same.
TimesOut ==
  /\ phase = "draining"
  /\ phase' = "drained" /\ timedOut' = TRUE
  /\ UNCHANGED <<jobs, pc, result, job, state, late>>

\* Bug: the workers are waited for before their context is cancelled.
StopAwaitsWorkers ==
  /\ \/ /\ phase = "drained" /\ \A w \in Workers : state[w] = "gone"
        /\ phase' = "cancelled"
     \/ phase = "cancelled" /\ phase' = "closed"
     \/ phase = "closed" /\ phase' = "exited"
  /\ UNCHANGED <<timedOut, jobs, pc, result, job, state, late>>

\* CRLService.Stop and workerCancel; then the store and the audit file are
\* closed; then the chain is verified and main returns.
StopGoesOn ==
  /\ \/ phase = "drained" /\ phase' = "cancelled"
     \/ phase = "cancelled" /\ phase' = "closed"
     \/ phase = "closed" /\ phase' = "exited"
  /\ UNCHANGED <<timedOut, jobs, pc, result, job, state, late>>

Next ==
  \/ \E h \in Handlers : Arrive(h) \/ Submit(h) \/ Receive(h) \/ Save(h)
  \/ \E w \in Workers : StartWorker(w) \/ Take(w) \/ Sign(w) \/ Quit(w)
  \/ StopBegins \/ Drained \/ TimesOut \/ StopGoesOn

Spec == Init /\ [][Next]_vars

\* Goroutines run and the timer fires.  Senders blocked on a channel are parked
\* in order of arrival, so none is passed over for ever (SF); nothing makes
\* requests arrive or the process stop.
Fairness ==
  /\ \A h \in Handlers : SF_vars(Submit(h)) /\ WF_vars(Receive(h)) /\ WF_vars(Save(h))
  /\ \A w \in Workers : WF_vars(StartWorker(w) \/ Take(w) \/ Sign(w))
  /\ WF_vars(Drained \/ TimesOut) /\ WF_vars(StopGoesOn)

FairSpec == Spec /\ Fairness

(***************************************************************************)
(* Properties.                                                             *)
(***************************************************************************)
TypeOK ==
  /\ phase \in Phases
  /\ timedOut \in BOOLEAN /\ late \in BOOLEAN
  /\ jobs \in Seq(Handlers) /\ Len(jobs) <= QueueSize
  /\ pc \in [Handlers -> {"idle", "submitting", "waiting", "saving"}]
  /\ result \in [Handlers -> {"none", "cert", "error"}]
  /\ job \in [Workers -> Handlers \cup {NoJob}]
  /\ state \in [Workers -> {"new", "idle", "signing", "gone"}]
  /\ \A w \in Workers : state[w] = "signing" <=> job[w] # NoJob

Queued(h) == \E i \in 1 .. Len(jobs) : jobs[i] = h
Signing(h) == \E w \in Workers : job[w] = h

\* A request that waits is in exactly one place: once in the queue, with one
\* worker, or answered; and no other request is in any.  So it is signed once,
\* gets its own answer, and the worker that sends it never blocks on the result
\* channel (pool.go:53-64, handler.go:85-94).
InOnePlace ==
  /\ \A h \in Handlers :
       /\ pc[h] = "waiting" <=> Queued(h) \/ Signing(h) \/ result[h] # "none"
       /\ ~(Queued(h) /\ Signing(h))
       /\ result[h] # "none" => ~Queued(h) /\ ~Signing(h)
  /\ \A i, j \in 1 .. Len(jobs) : jobs[i] = jobs[j] => i = j
  /\ \A v, w \in Workers : job[v] = job[w] /\ job[v] # NoJob => v = w

\* docs/server_bootstrapping.md:10: a shutdown that does not time out completes
\* the active requests before it stops the workers.  No job is left behind, none
\* is half signed, and no certificate comes to a closed store.
ShutdownIsClean ==
  phase \notin {"serving", "draining"} /\ ~timedOut =>
    /\ jobs = <<>> /\ ~late
    /\ \A h \in Handlers : pc[h] = "idle"
    /\ \A w \in Workers : job[w] = NoJob

\* The pool implements the calls of SigningCalls: a queue several handlers send to
\* and several workers receive from, a channel for each result and a select that
\* may prefer either branch give each request one result of its own, and none is
\* open when a shutdown ends in time (pool.go:48-73, app.go:396-431).
Calls == INSTANCE SigningCalls WITH
  call <- [h \in Handlers |->
             IF pc[h] = "idle" THEN "idle"
             ELSE IF pc[h] = "saving" THEN "cert"
             ELSE IF result[h] # "none" THEN result[h] ELSE "open"],
  gate <- IF phase \in {"serving", "draining"} THEN "open"
          ELSE IF phase = "exited" THEN "shut"
          ELSE IF timedOut THEN "forced" ELSE "clean"

CallsSpec == Calls!CallsSpec

\* Until a shutdown has timed out, nobody who waits is stuck: the request itself
\* can go on, or a worker can, whatever is queued or full; and workers only go
\* when nobody waits (pool.go:54-64, app.go:412-415).
SomebodyCanGoOn ==
  \A h \in Handlers : pc[h] # "idle" /\ ~timedOut =>
    /\ Running /\ \A w \in Workers : state[w] # "gone"
    /\ \/ pc[h] = "submitting" /\ Len(jobs) < QueueSize
       \/ pc[h] = "waiting" /\ result[h] # "none"
       \/ pc[h] = "saving"
       \/ \E w \in Workers : state[w] \in {"new", "signing"} \/ (state[w] = "idle" /\ jobs # <<>>)

\* A request that waits is answered, full queue and failing jobs or not, unless
\* the shutdown timed out: workers outlive the requests (pool.go:54-56, app.go:400-415).
RequestsAreAnswered ==
  \A h \in Handlers : pc[h] # "idle" ~> pc[h] = "idle" \/ timedOut

\* A server that begins to stop does stop, whatever its requests wait for.
StopEnds == phase = "draining" ~> phase = "exited"
=============================================================================
