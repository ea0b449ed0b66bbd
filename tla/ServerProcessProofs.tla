------------------------- MODULE ServerProcessProofs -------------------------
(***************************************************************************)
(* Theorems about the worker pool and the end of the server, for any       *)
(* number of requests and workers and any size of the queue.               *)
(***************************************************************************)
EXTENDS ServerProcess, SequenceTheorems, TLAPS

\* After a drain that did not time out no request is left, and none can come.
NoneLeft ==
  /\ phase \notin {"serving", "draining"} /\ ~timedOut => \A h \in Handlers : pc[h] = "idle"
  /\ late => timedOut

ProcessInv == TypeOK /\ InOnePlace /\ NoneLeft

\* The jobs channel gains a job at its end and loses one at its front.
LEMMA Joins ==
  ASSUME NEW q \in Seq(Handlers), NEW h \in Handlers
  PROVE  /\ Append(q, h) \in Seq(Handlers) /\ Len(Append(q, h)) = Len(q) + 1
         /\ \A i \in 1 .. Len(q) : Append(q, h)[i] = q[i]
         /\ Append(q, h)[Len(q) + 1] = h
  BY AppendProperties

LEMMA Leaves ==
  ASSUME NEW q \in Seq(Handlers), q # <<>>
  PROVE  /\ Tail(q) \in Seq(Handlers) /\ Len(Tail(q)) = Len(q) - 1 /\ Len(q) \in Nat \ {0}
         /\ \A i \in 1 .. Len(Tail(q)) : Tail(q)[i] = q[i + 1] /\ i + 1 \in 1 .. Len(q)
         /\ Head(q) = q[1] /\ Head(q) \in Handlers
  BY HeadTailProperties

LEMMA ProcessInitially == Init => ProcessInv
<1> SUFFICES ASSUME Init PROVE ProcessInv
  OBVIOUS
<1>1. jobs \in Seq(Handlers) /\ Len(jobs) = 0  BY EmptySeq DEF Init
<1>2. TypeOK
  <2>0. Len(jobs) <= QueueSize  BY <1>1, ProcessAssumption
  <2>1. phase \in Phases /\ timedOut \in BOOLEAN /\ late \in BOOLEAN
    BY DEF Init, Phases
  <2>2. /\ pc \in [Handlers -> {"idle", "submitting", "waiting", "saving"}]
        /\ result \in [Handlers -> {"none", "cert", "error"}]
        /\ job \in [Workers -> Handlers \cup {NoJob}]
        /\ state \in [Workers -> {"new", "idle", "signing", "gone"}]
    BY DEF Init
  <2>3. \A w \in Workers : state[w] = "signing" <=> job[w] # NoJob  BY DEF Init
  <2>4. QED  BY <1>1, <2>0, <2>1, <2>2, <2>3 DEF TypeOK
<1>3. InOnePlace
  <2>1. \A h \in Handlers : ~Queued(h) /\ ~Signing(h)
    <3>1. \A i \in 1 .. Len(jobs) : FALSE  BY <1>1
    <3>2. \A h \in Handlers : ~Queued(h)  BY <3>1 DEF Queued
    <3>3. \A h \in Handlers : ~Signing(h)  BY ProcessAssumption DEF Init, Signing
    <3>4. QED  BY <3>2, <3>3
  <2>2. QED  BY <1>1, <2>1 DEF Init, InOnePlace
<1>4. NoneLeft  BY DEF Init, NoneLeft
<1>5. QED  BY <1>2, <1>3, <1>4 DEF ProcessInv

\* Where requests are does not change with a step of main, or one of a handler
\* that neither waits nor begins to.
LEMMA PlacesStay ==
  ASSUME InOnePlace, UNCHANGED <<jobs, result, job>>,
         \A h \in Handlers : pc'[h] = "waiting" <=> pc[h] = "waiting"
  PROVE  InOnePlace'
  BY DEF InOnePlace, Queued, Signing

LEMMA ArriveKeeps ==
  ASSUME ProcessInv, NEW h \in Handlers, Arrive(h)  PROVE  ProcessInv'
<1>1. TypeOK'  BY DEF ProcessInv, TypeOK, Arrive, Go
<1>2. InOnePlace'  BY PlacesStay DEF ProcessInv, TypeOK, Arrive, Go
<1>3. NoneLeft'  BY DEF ProcessInv, TypeOK, Arrive, Go, NoneLeft, Running
<1>4. QED  BY <1>1, <1>2, <1>3 DEF ProcessInv

LEMMA SubmitKeeps ==
  ASSUME ProcessInv, NEW h \in Handlers, Submit(h)  PROVE  ProcessInv'
<1>1. /\ jobs \in Seq(Handlers) /\ jobs' = Append(jobs, h)
      /\ Len(jobs) \in Nat /\ Len(jobs) < QueueSize
      /\ pc \in [Handlers -> {"idle", "submitting", "waiting", "saving"}]
      /\ pc[h] = "submitting" /\ pc' = [pc EXCEPT ![h] = "waiting"]
      /\ result' = result /\ job' = job
  BY DEF ProcessInv, TypeOK, Submit, Go
<1>2. /\ jobs' \in Seq(Handlers) /\ Len(jobs') = Len(jobs) + 1
      /\ \A i \in 1 .. Len(jobs) : jobs'[i] = jobs[i]
      /\ jobs'[Len(jobs) + 1] = h
  BY <1>1, Joins
<1>3. TypeOK'
  BY <1>1, <1>2, ProcessAssumption DEF ProcessInv, TypeOK, Submit
<1>4. ~Queued(h) /\ ~Signing(h) /\ result[h] = "none"
  BY <1>1 DEF ProcessInv, InOnePlace
<1>5. \A g \in Handlers : Queued(g)' <=> g = h \/ Queued(g)
  BY <1>1, <1>2 DEF Queued
<1>6. \A g \in Handlers : Signing(g)' <=> Signing(g)  BY <1>1 DEF Signing
<1>7. \A g \in Handlers :
        /\ pc'[g] = "waiting" <=> Queued(g)' \/ Signing(g)' \/ result'[g] # "none"
        /\ ~(Queued(g)' /\ Signing(g)')
        /\ result'[g] # "none" => ~Queued(g)' /\ ~Signing(g)'
  BY <1>1, <1>4, <1>5, <1>6 DEF ProcessInv, InOnePlace
<1>8. \A i, j \in 1 .. Len(jobs') : jobs'[i] = jobs'[j] => i = j
  BY <1>1, <1>2, <1>4 DEF ProcessInv, InOnePlace, Queued
<1>9. InOnePlace'  BY <1>1, <1>7, <1>8 DEF ProcessInv, InOnePlace
<1>10. NoneLeft'  BY <1>1 DEF ProcessInv, NoneLeft, Submit
<1>11. QED  BY <1>3, <1>9, <1>10 DEF ProcessInv

LEMMA ReceiveKeeps ==
  ASSUME ProcessInv, NEW h \in Handlers, Receive(h)  PROVE  ProcessInv'
<1>1. PICK l \in {"saving", "idle"} : pc' = [pc EXCEPT ![h] = l]
  BY DEF Receive, Go
<1>2. /\ pc \in [Handlers -> {"idle", "submitting", "waiting", "saving"}]
      /\ result \in [Handlers -> {"none", "cert", "error"}]
      /\ pc[h] = "waiting" /\ result[h] # "none"
      /\ result' = [result EXCEPT ![h] = "none"]
      /\ UNCHANGED <<jobs, job, state, phase, timedOut, late>>
  BY DEF ProcessInv, TypeOK, Receive
<1>3. TypeOK'  BY <1>1, <1>2 DEF ProcessInv, TypeOK
<1>4. \A g \in Handlers : (Queued(g)' <=> Queued(g)) /\ (Signing(g)' <=> Signing(g))
  BY <1>2 DEF Queued, Signing
<1>5. InOnePlace'  BY <1>1, <1>2, <1>4 DEF ProcessInv, InOnePlace
<1>6. NoneLeft'  BY <1>1, <1>2 DEF ProcessInv, NoneLeft
<1>7. QED  BY <1>3, <1>5, <1>6 DEF ProcessInv

LEMMA SaveKeeps ==
  ASSUME ProcessInv, NEW h \in Handlers, Save(h)  PROVE  ProcessInv'
<1>1. TypeOK'  BY DEF ProcessInv, TypeOK, Save, Go
<1>2. InOnePlace'  BY PlacesStay DEF ProcessInv, TypeOK, Save, Go
<1>3. NoneLeft'  BY DEF ProcessInv, TypeOK, Save, Go, NoneLeft
<1>4. QED  BY <1>1, <1>2, <1>3 DEF ProcessInv

LEMMA WorkersComeAndGo ==
  ASSUME ProcessInv, NEW w \in Workers, StartWorker(w) \/ Quit(w)  PROVE  ProcessInv'
<1>1. UNCHANGED <<phase, timedOut, jobs, pc, result, job, late>>  BY DEF StartWorker, Quit
<1>2. TypeOK'  BY <1>1 DEF ProcessInv, TypeOK, StartWorker, Quit, Become
<1>3. InOnePlace'  BY <1>1, PlacesStay DEF ProcessInv
<1>4. NoneLeft'  BY <1>1 DEF ProcessInv, NoneLeft
<1>5. QED  BY <1>2, <1>3, <1>4 DEF ProcessInv

LEMMA TakeKeeps ==
  ASSUME ProcessInv, NEW w \in Workers, Take(w)  PROVE  ProcessInv'
<1>1. PICK h \in Handlers : h = Head(jobs)
  BY Leaves DEF ProcessInv, TypeOK, Take
<1>2. /\ job \in [Workers -> Handlers \cup {NoJob}]
      /\ job[w] = NoJob /\ job' = [job EXCEPT ![w] = h]
      /\ state' = [state EXCEPT ![w] = "signing"]
      /\ UNCHANGED <<phase, timedOut, pc, result, late>>
  BY <1>1 DEF ProcessInv, TypeOK, Take, Become
<1>3. /\ jobs' \in Seq(Handlers) /\ Len(jobs') = Len(jobs) - 1 /\ Len(jobs) \in Nat \ {0}
      /\ \A i \in 1 .. Len(jobs') : jobs'[i] = jobs[i + 1] /\ i + 1 \in 1 .. Len(jobs)
      /\ h = jobs[1]
  BY <1>1, Leaves DEF ProcessInv, TypeOK, Take
<1>4. TypeOK'
  BY <1>2, <1>3, ProcessAssumption DEF ProcessInv, TypeOK
<1>5. \A i, j \in 1 .. Len(jobs) : jobs[i] = jobs[j] => i = j
  BY DEF ProcessInv, InOnePlace
<1>6. \A g \in Handlers : Queued(g)' <=> g # h /\ Queued(g)
  <2> TAKE g \in Handlers
  <2>1. ASSUME NEW i \in 1 .. Len(jobs'), jobs'[i] = g  PROVE g # h /\ Queued(g)
    BY <1>3, <1>5, <2>1 DEF Queued
  <2>2. ASSUME NEW i \in 1 .. Len(jobs), jobs[i] = g, g # h
        PROVE  Queued(g)'
    <3>1. i - 1 \in 1 .. Len(jobs')  BY <1>3, <2>2
    <3>2. jobs'[i - 1] = g  BY <1>3, <2>2, <3>1
    <3>3. QED  BY <3>1, <3>2 DEF Queued
  <2>3. QED  BY <2>1, <2>2 DEF Queued
<1>7. Queued(h)  BY <1>3 DEF Queued
<1>8. \A g \in Handlers : Signing(g)' <=> g = h \/ Signing(g)
  BY <1>2, ProcessAssumption DEF Signing
<1>9. \A g \in Handlers :
        /\ pc'[g] = "waiting" <=> Queued(g)' \/ Signing(g)' \/ result'[g] # "none"
        /\ ~(Queued(g)' /\ Signing(g)')
        /\ result'[g] # "none" => ~Queued(g)' /\ ~Signing(g)'
  BY <1>2, <1>6, <1>7, <1>8 DEF ProcessInv, InOnePlace
<1>10. \A i, j \in 1 .. Len(jobs') : jobs'[i] = jobs'[j] => i = j
  BY <1>3, <1>5
<1>11. ~Signing(h)  BY <1>7 DEF ProcessInv, InOnePlace
<1>12. \A u, v \in Workers : job'[u] = job'[v] /\ job'[u] # NoJob => u = v
  BY <1>2, <1>11 DEF ProcessInv, InOnePlace, Signing
<1>13. InOnePlace'  BY <1>9, <1>10, <1>12 DEF InOnePlace
<1>14. NoneLeft'  BY <1>2 DEF ProcessInv, NoneLeft
<1>15. QED  BY <1>4, <1>13, <1>14 DEF ProcessInv

LEMMA SignKeeps ==
  ASSUME ProcessInv, NEW w \in Workers, Sign(w)  PROVE  ProcessInv'
<1>1. PICK h \in Handlers : h = job[w]
  BY DEF ProcessInv, TypeOK, Sign
<1>2. PICK res \in {"cert", "error"} : result' = [result EXCEPT ![h] = res]
  BY <1>1 DEF Sign
<1>3. /\ job \in [Workers -> Handlers \cup {NoJob}] /\ job' = [job EXCEPT ![w] = NoJob]
      /\ result \in [Handlers -> {"none", "cert", "error"}]
      /\ state' = [state EXCEPT ![w] = "idle"]
      /\ UNCHANGED <<phase, timedOut, jobs, pc, late>>
  BY DEF ProcessInv, TypeOK, Sign, Become
<1>4. TypeOK'  BY <1>2, <1>3, ProcessAssumption DEF ProcessInv, TypeOK
<1>5. h # NoJob /\ Signing(h)  BY <1>1, ProcessAssumption DEF Signing
<1>6. \A g \in Handlers : Queued(g)' <=> Queued(g)  BY <1>3 DEF Queued
<1>7. \A g \in Handlers : Signing(g)' <=> g # h /\ Signing(g)
  BY <1>1, <1>3, <1>5, ProcessAssumption DEF Signing, ProcessInv, InOnePlace
<1>8. \A g \in Handlers :
        /\ pc'[g] = "waiting" <=> Queued(g)' \/ Signing(g)' \/ result'[g] # "none"
        /\ ~(Queued(g)' /\ Signing(g)')
        /\ result'[g] # "none" => ~Queued(g)' /\ ~Signing(g)'
  BY <1>2, <1>3, <1>5, <1>6, <1>7 DEF ProcessInv, InOnePlace
<1>9. \A u, v \in Workers : job'[u] = job'[v] /\ job'[u] # NoJob => u = v
  BY <1>3 DEF ProcessInv, InOnePlace
<1>10. InOnePlace'  BY <1>3, <1>8, <1>9 DEF ProcessInv, InOnePlace
<1>11. NoneLeft'  BY <1>3 DEF ProcessInv, NoneLeft
<1>12. QED  BY <1>4, <1>10, <1>11 DEF ProcessInv

LEMMA MainKeeps ==
  ASSUME ProcessInv, StopBegins \/ Drained \/ TimesOut \/ StopGoesOn  PROVE  ProcessInv'
<1>1. UNCHANGED <<jobs, pc, result, job, state, late>>
  BY DEF StopBegins, Drained, TimesOut, StopGoesOn
<1>2. phase' \in Phases /\ timedOut' \in BOOLEAN
  BY DEF StopBegins, Drained, TimesOut, StopGoesOn, Phases, ProcessInv, TypeOK
<1>3. TypeOK'  BY <1>1, <1>2 DEF ProcessInv, TypeOK
<1>4. InOnePlace'  BY <1>1, PlacesStay DEF ProcessInv
<1>5. NoneLeft'
  <2>1. CASE StopBegins  BY <1>1, <2>1 DEF ProcessInv, NoneLeft, StopBegins
  <2>2. CASE Drained  BY <1>1, <2>2 DEF ProcessInv, NoneLeft, Drained
  <2>3. CASE TimesOut  BY <1>1, <2>3 DEF ProcessInv, NoneLeft, TimesOut
  <2>4. CASE StopGoesOn  BY <1>1, <2>4 DEF ProcessInv, NoneLeft, StopGoesOn
  <2>5. QED  BY <2>1, <2>2, <2>3, <2>4
<1>6. QED  BY <1>3, <1>4, <1>5 DEF ProcessInv

LEMMA ProcessStep == ProcessInv /\ [Next]_vars => ProcessInv'
<1> SUFFICES ASSUME ProcessInv, [Next]_vars PROVE ProcessInv'
  OBVIOUS
<1>1. CASE \E h \in Handlers : Arrive(h)  BY <1>1, ArriveKeeps
<1>2. CASE \E h \in Handlers : Submit(h)  BY <1>2, SubmitKeeps
<1>3. CASE \E h \in Handlers : Receive(h)  BY <1>3, ReceiveKeeps
<1>4. CASE \E h \in Handlers : Save(h)  BY <1>4, SaveKeeps
<1>5. CASE \E w \in Workers : StartWorker(w) \/ Quit(w)  BY <1>5, WorkersComeAndGo
<1>6. CASE \E w \in Workers : Take(w)  BY <1>6, TakeKeeps
<1>7. CASE \E w \in Workers : Sign(w)  BY <1>7, SignKeeps
<1>8. CASE StopBegins \/ Drained \/ TimesOut \/ StopGoesOn  BY <1>8, MainKeeps
<1>9. CASE UNCHANGED vars
  <2>1. UNCHANGED <<phase, timedOut, jobs, pc, result, job, state, late>>  BY <1>9 DEF vars
  <2>2. TypeOK'  BY <2>1 DEF ProcessInv, TypeOK
  <2>3. InOnePlace'  BY <2>1, PlacesStay DEF ProcessInv
  <2>4. NoneLeft'  BY <2>1 DEF ProcessInv, NoneLeft
  <2>5. QED  BY <2>2, <2>3, <2>4 DEF ProcessInv
<1>10. QED
  BY <1>1, <1>2, <1>3, <1>4, <1>5, <1>6, <1>7, <1>8, <1>9 DEF Next

LEMMA ProcessInvariant == Spec => []ProcessInv
  BY ProcessInitially, ProcessStep, PTL DEF Spec

(***************************************************************************)
(* The theorems.                                                           *)
(***************************************************************************)

\* TypeOK: types, the bound of the jobs channel, and a worker that signs has a
\* job (pool.go:28-75).
THEOREM ProcessTypeCorrect == Spec => []TypeOK
<1>1. ProcessInv => TypeOK  BY DEF ProcessInv
<1>2. QED  BY <1>1, ProcessInvariant, PTL

\* InOnePlace: a request that waits is in the queue once, with one worker, or
\* answered, and so is signed once and gets its own result (pool.go:53-64,
\* handler.go:85-94).
THEOREM RequestsAreInOnePlace == Spec => []InOnePlace
<1>1. ProcessInv => InOnePlace  BY DEF ProcessInv
<1>2. QED  BY <1>1, ProcessInvariant, PTL

\* ShutdownIsClean: a shutdown that does not time out leaves no job, no request
\* and no certificate for a closed store (app.go:396-429).
THEOREM CleanShutdown == Spec => []ShutdownIsClean
<1>1. ProcessInv => ShutdownIsClean
  <2> SUFFICES ASSUME ProcessInv, phase \notin {"serving", "draining"}, ~timedOut
               PROVE  /\ jobs = <<>> /\ ~late
                      /\ \A h \in Handlers : pc[h] = "idle"
                      /\ \A w \in Workers : job[w] = NoJob
    BY DEF ShutdownIsClean
  <2>1. ~late /\ \A h \in Handlers : pc[h] = "idle"  BY DEF ProcessInv, NoneLeft
  <2>2. \A h \in Handlers : ~Queued(h) /\ ~Signing(h)
    BY <2>1 DEF ProcessInv, InOnePlace
  <2>3. jobs = <<>>
    <3>1. SUFFICES ASSUME jobs # <<>> PROVE FALSE
      OBVIOUS
    <3>2. Head(jobs) \in Handlers /\ Head(jobs) = jobs[1] /\ 1 \in 1 .. Len(jobs)
      BY <3>1, Leaves DEF ProcessInv, TypeOK
    <3>3. QED  BY <2>2, <3>2 DEF Queued
  <2>4. \A w \in Workers : job[w] = NoJob
    BY <2>2 DEF ProcessInv, TypeOK, Signing
  <2>5. QED  BY <2>1, <2>3, <2>4
<1>2. QED  BY <1>1, ProcessInvariant, PTL
(***************************************************************************)
(* Nobody is stuck.                                                        *)
(***************************************************************************)

\* Workers go only once their context is cancelled, which Stop does last.
WorkersServe == phase \in {"serving", "draining", "drained"} => \A w \in Workers : state[w] # "gone"

LEMMA WorkersServeStep == WorkersServe /\ TypeOK /\ [Next]_vars => WorkersServe'
<1> SUFFICES ASSUME WorkersServe, TypeOK, [Next]_vars PROVE WorkersServe'
  OBVIOUS
<1>1. CASE UNCHANGED <<phase, state>>  BY <1>1 DEF WorkersServe
<1>2. CASE \E w \in Workers : StartWorker(w) \/ Take(w) \/ Sign(w)
  BY <1>2 DEF WorkersServe, TypeOK, StartWorker, Take, Sign, Become
<1>3. CASE \E w \in Workers : Quit(w)  BY <1>3 DEF WorkersServe, Quit, ContextDone
<1>4. CASE StopBegins \/ Drained \/ TimesOut \/ StopGoesOn
  BY <1>4 DEF WorkersServe, StopBegins, Drained, TimesOut, StopGoesOn
<1>5. CASE \E h \in Handlers : Arrive(h) \/ Submit(h) \/ Receive(h) \/ Save(h)
  BY <1>1, <1>5 DEF Arrive, Submit, Receive, Save
<1>6. QED  BY <1>1, <1>2, <1>3, <1>4, <1>5 DEF Next, vars

LEMMA WorkersServeAlways == Spec => []WorkersServe
<1>1. Init => WorkersServe  BY DEF Init, WorkersServe
<1>2. QED  BY <1>1, WorkersServeStep, ProcessTypeCorrect, PTL DEF Spec

\* A queue that is full or holds a job keeps no worker waiting.
LEMMA JobsAreTaken ==
  ASSUME TypeOK, WorkersServe, phase \in {"serving", "draining"}, jobs # <<>>
  PROVE  \E w \in Workers : state[w] \in {"new", "signing"} \/ (state[w] = "idle" /\ jobs # <<>>)
<1>1. PICK w \in Workers : TRUE  BY ProcessAssumption
<1>2. state[w] \in {"new", "idle", "signing"}  BY <1>1 DEF TypeOK, WorkersServe
<1>3. QED  BY <1>1, <1>2

\* SomebodyCanGoOn: as long as no shutdown has timed out, the request that waits
\* can go on or a worker can; with fair goroutines this is why every request is
\* answered, for any number of workers and any size of the queue but none
\* (pool.go:54-64, app.go:161, 412-415).
THEOREM NobodyIsStuck == Spec => []SomebodyCanGoOn
<1>1. ProcessInv /\ WorkersServe => SomebodyCanGoOn
  <2>1. SUFFICES ASSUME ProcessInv, WorkersServe, NEW h \in Handlers, pc[h] # "idle", ~timedOut
        PROVE  /\ Running /\ \A w \in Workers : state[w] # "gone"
               /\ \/ pc[h] = "submitting" /\ Len(jobs) < QueueSize
                  \/ pc[h] = "waiting" /\ result[h] # "none"
                  \/ pc[h] = "saving"
                  \/ \E w \in Workers : state[w] \in {"new", "signing"} \/ (state[w] = "idle" /\ jobs # <<>>)
    BY DEF SomebodyCanGoOn
  <2>2. phase \in {"serving", "draining"}  BY <2>1 DEF ProcessInv, NoneLeft
  <2>3. Running /\ \A w \in Workers : state[w] # "gone"
    BY <2>1, <2>2 DEF Running, WorkersServe
  <2>4. CASE pc[h] = "submitting"
    <3>1. jobs = <<>> => Len(jobs) < QueueSize
      <4>1. Len(<<>>) = 0 /\ QueueSize > 0  BY ProcessAssumption
      <4>2. QED  BY <4>1
    <3>2. QED  BY <2>1, <2>2, <2>3, <2>4, <3>1, JobsAreTaken DEF ProcessInv
  <2>5. CASE pc[h] = "waiting"
    <3>1. Queued(h) \/ Signing(h) \/ result[h] # "none"
      BY <2>1, <2>5 DEF ProcessInv, InOnePlace
    <3>2. Queued(h) => jobs # <<>>
      <4>1. Len(<<>>) = 0  OBVIOUS
      <4>2. jobs = <<>> => \A i \in 1 .. Len(jobs) : FALSE  BY <4>1
      <4>3. QED  BY <4>2 DEF Queued
    <3>3. Signing(h) => \E w \in Workers : state[w] = "signing"
      BY <2>1, ProcessAssumption DEF ProcessInv, TypeOK, Signing
    <3>4. QED  BY <2>1, <2>2, <2>3, <2>5, <3>1, <3>2, <3>3, JobsAreTaken DEF ProcessInv
  <2>6. CASE pc[h] = "saving"  BY <2>3, <2>6
  <2>7. QED  BY <2>1, <2>4, <2>5, <2>6 DEF ProcessInv, TypeOK
<1>2. QED  BY <1>1, ProcessInvariant, WorkersServeAlways, PTL

(***************************************************************************)
(* The refinement of SigningCalls.                                         *)
(***************************************************************************)
Call(h) ==
  IF pc[h] = "idle" THEN "idle"
  ELSE IF pc[h] = "saving" THEN "cert"
  ELSE IF result[h] # "none" THEN result[h] ELSE "open"

Gate ==
  IF phase \in {"serving", "draining"} THEN "open"
  ELSE IF phase = "exited" THEN "shut"
  ELSE IF timedOut THEN "forced" ELSE "clean"

CallMap == [h \in Handlers |-> Call(h)]

\* The abstract variables are CallMap and Gate.
CallsStep == Calls!CallsNext \/ UNCHANGED <<CallMap, Gate>>

\* A step of main or of a worker that goes to or leaves the queue, and one of a
\* handler before it has its result, is not seen.
LEMMA UnseenStep ==
  ASSUME UNCHANGED <<phase, timedOut, result>>, \A h \in Handlers : Call(h)' = Call(h)
  PROVE  CallsStep
<1>1. CallMap' = CallMap  BY DEF CallMap
<1>2. Gate' = Gate  BY DEF Gate
<1>3. QED  BY <1>1, <1>2 DEF CallsStep

\* What one handler's step does to the calls.
LEMMA CallChanges ==
  ASSUME NEW h \in Handlers, NEW v, Call(h)' = v,
         \A g \in Handlers \ {h} : pc'[g] = pc[g] /\ result'[g] = result[g]
  PROVE  CallMap' = [CallMap EXCEPT ![h] = v]
<1>1. \A g \in Handlers \ {h} : Call(g)' = Call(g)  BY DEF Call
<1>2. QED  BY <1>1 DEF CallMap

LEMMA ArriveImplements ==
  ASSUME ProcessInv, NEW h \in Handlers, Arrive(h)  PROVE CallsStep
<1>1. /\ pc[h] = "idle" /\ pc'[h] = "submitting" /\ result'[h] = "none"
      /\ \A g \in Handlers \ {h} : pc'[g] = pc[g] /\ result'[g] = result[g]
      /\ UNCHANGED <<phase, timedOut>>
  BY DEF ProcessInv, TypeOK, InOnePlace, Arrive, Go
<1>2. Call(h) = "idle" /\ Call(h)' = "open"  BY <1>1 DEF Call
<1>3. CallMap' = [CallMap EXCEPT ![h] = "open"]  BY <1>1, <1>2, CallChanges
<1>4. Gate' = Gate /\ Gate \in {"open", "forced"}
  BY <1>1 DEF Gate, Arrive, Running, ProcessInv, TypeOK
<1>5. Calls!Ask(h)  BY <1>2, <1>3, <1>4 DEF Calls!Ask, CallMap, Gate, Call
<1>6. QED  BY <1>5 DEF CallsStep, Calls!CallsNext

LEMMA SignImplements ==
  ASSUME ProcessInv, NEW w \in Workers, Sign(w)  PROVE CallsStep
<1>1. PICK h \in Handlers : h = job[w]  BY DEF ProcessInv, TypeOK, Sign
<1>2. PICK res \in {"cert", "error"} : result' = [result EXCEPT ![h] = res]
  BY <1>1 DEF Sign
<1>3. Signing(h)  BY <1>1 DEF Signing
<1>4. pc[h] = "waiting" /\ result[h] = "none"  BY <1>3 DEF ProcessInv, InOnePlace
<1>5. UNCHANGED <<phase, timedOut, pc>> /\ Running  BY DEF Sign
<1>6. Call(h) = "open" /\ Call(h)' = res
  BY <1>2, <1>4, <1>5 DEF Call, ProcessInv, TypeOK
<1>7. \A g \in Handlers \ {h} : pc'[g] = pc[g] /\ result'[g] = result[g]
  BY <1>2, <1>5 DEF ProcessInv, TypeOK
<1>8. CallMap' = [CallMap EXCEPT ![h] = res]  BY <1>6, <1>7, CallChanges
<1>9. Gate' = Gate /\ Gate # "shut"  BY <1>5 DEF Gate, Running
<1>10. Calls!Settle(h)  BY <1>6, <1>8, <1>9 DEF Calls!Settle, CallMap, Gate, Call
<1>11. QED  BY <1>10 DEF CallsStep, Calls!CallsNext

\* A handler answers: an error when it gets it, a certificate after Save.
LEMMA AnswerImplements ==
  ASSUME ProcessInv, NEW h \in Handlers, Receive(h) \/ Save(h)  PROVE CallsStep
<1>1. /\ UNCHANGED <<phase, timedOut>> /\ Running
      /\ \A g \in Handlers \ {h} : pc'[g] = pc[g] /\ result'[g] = result[g]
  BY DEF ProcessInv, TypeOK, Receive, Save, Go
<1>2. Gate' = Gate /\ Gate # "shut"  BY <1>1 DEF Gate, Running
<1>3. CASE Call(h) \in {"cert", "error"} /\ Call(h)' = "idle"
  <2>1. CallMap' = [CallMap EXCEPT ![h] = "idle"]  BY <1>1, <1>3, CallChanges
  <2>2. Calls!Answer(h)  BY <1>2, <1>3, <2>1 DEF Calls!Answer, CallMap, Gate, Call
  <2>3. QED  BY <2>2 DEF CallsStep, Calls!CallsNext
<1>4. CASE Call(h) = "cert" /\ Call(h)' = "cert"
  <2>1. \A g \in Handlers : Call(g)' = Call(g)  BY <1>1, <1>4 DEF Call
  <2>2. CallMap' = CallMap  BY <2>1 DEF CallMap
  <2>3. QED  BY <1>2, <2>2 DEF CallsStep
<1>5. CASE Receive(h)
  BY <1>3, <1>4, <1>5 DEF Call, Receive, Go, ProcessInv, TypeOK
<1>6. CASE Save(h)
  BY <1>3, <1>6 DEF Call, Save, Go, ProcessInv, TypeOK
<1>7. QED  BY <1>5, <1>6

\* Shutdown: Drained is the clean end, TimesOut the forced one.
LEMMA MainImplements ==
  ASSUME ProcessInv, StopBegins \/ Drained \/ TimesOut \/ StopGoesOn  PROVE CallsStep
<1>1. UNCHANGED <<pc, result>>  BY DEF StopBegins, Drained, TimesOut, StopGoesOn
<1>2. CallMap' = CallMap  BY <1>1 DEF CallMap, Call
<1>3. CASE StopBegins
  BY <1>2, <1>3 DEF CallsStep, StopBegins, Gate
<1>4. CASE Drained /\ ~timedOut
  <2>1. Gate = "open" /\ Gate' = "clean"  BY <1>4 DEF Drained, Gate
  <2>2. \A h \in Handlers : CallMap[h] = "idle"  BY <1>4 DEF Drained, CallMap, Call
  <2>3. Calls!EndCleanly  BY <1>2, <2>1, <2>2 DEF Calls!EndCleanly, CallMap, Gate, Call
  <2>4. QED  BY <2>3 DEF CallsStep, Calls!CallsNext
<1>5. CASE TimesOut \/ (Drained /\ timedOut)
  <2>1. Gate = "open" /\ Gate' = "forced"  BY <1>5 DEF Drained, TimesOut, Gate
  <2>2. Calls!Force  BY <1>2, <2>1 DEF Calls!Force, CallMap, Gate, Call
  <2>3. QED  BY <2>2 DEF CallsStep, Calls!CallsNext
<1>6. CASE StopGoesOn
  <2>1. \/ Gate' = Gate
        \/ Gate \in {"clean", "forced"} /\ Gate' = "shut"
    BY <1>6 DEF StopGoesOn, Gate
  <2>2. ASSUME Gate \in {"clean", "forced"}, Gate' = "shut"  PROVE Calls!Shut
    BY <1>2, <2>2 DEF Calls!Shut, CallMap, Gate, Call
  <2>3. QED  BY <1>2, <2>1, <2>2 DEF CallsStep, Calls!CallsNext
<1>7. QED  BY <1>3, <1>4, <1>5, <1>6

LEMMA EveryStepImplements == ProcessInv /\ [Next]_vars => CallsStep
<1> SUFFICES ASSUME ProcessInv, [Next]_vars PROVE CallsStep
  OBVIOUS
<1>1. ASSUME NEW h \in Handlers, Submit(h)  PROVE CallsStep
  BY <1>1, UnseenStep DEF Submit, Go, Call, ProcessInv, TypeOK
<1>2. ASSUME NEW w \in Workers, StartWorker(w) \/ Take(w) \/ Quit(w)  PROVE CallsStep
  BY <1>2, UnseenStep DEF StartWorker, Take, Quit, Call
<1>3. CASE UNCHANGED vars  BY <1>3, UnseenStep DEF vars, Call
<1>4. QED
  BY <1>1, <1>2, <1>3, ArriveImplements, SignImplements, AnswerImplements, MainImplements DEF Next

\* CallsSpec: the pool and the shutdown implement SigningCalls for any number of
\* requests and workers and any queue (pool.go:48-73, handler.go:85-105,
\* app.go:396-431).
THEOREM ImplementsCalls == Spec => CallsSpec
<1>1. Init => Calls!CallsInit  BY DEF Init, Calls!CallsInit
<1>2. CallsStep => [Calls!CallsNext]_(Calls!callsVars)
  BY DEF CallsStep, Calls!callsVars, CallMap, Call, Gate
<1>3. QED
  BY <1>1, <1>2, EveryStepImplements, ProcessInvariant, PTL DEF Spec, CallsSpec, Calls!CallsSpec
=============================================================================
