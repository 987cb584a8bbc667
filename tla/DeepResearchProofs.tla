------------------------- MODULE DeepResearchProofs -------------------------
(***************************************************************************)
(* Proofs about the research runs: for any number of workers, requests,    *)
(* passes, attempts, stalls and faults, a run has one executor, a          *)
(* completed run its whole report, a cancelled run no report, and an ended *)
(* run stays.                                                              *)
(*                                                                         *)
(* The claim of a run is no fence by itself, for an attempt that counts as *)
(* a retry of its job may take over a run whose lease still lives.  What   *)
(* makes that sound is the queue: a job that was never taken back has      *)
(* one worker, so a retry finds all others idle.                           *)
(***************************************************************************)
EXTENDS DeepResearchRuns, TLAPS

\* The run can neither be restarted nor completed any more.
Over == run.status = "CANCELLED" \/ (run.status = "FAILED" /\ run.error = "scope")

\* The run is still the one of w, or over.
Mine(w) == Owns(w) \/ Over

\* What a worker at j.stage knows of run and report.
KnowsOK(w, j) ==
  /\ j.stage \in {"claimed", "researching", "completing", "deleting"} => Mine(w)
  /\ j.stage \in {"cleaning", "overruled"} => run.status = "CANCELLED"
  /\ j.stage = "researching" /\ Owns(w) => ~HasReport
  /\ j.stage = "completing" /\ ~j.partial /\ Owns(w) => report = "whole"

ExecOK ==
  /\ ~disrupted => \A w \in Workers : KnowsOK(w, work[w])
  /\ OneExecutor
  /\ CompletedIsWhole

\* The queue: a worker without its lock was stalled, and a retry that has its
\* lock is alone.
QueueOK ==
  /\ qjob.state = "none" => qjob.stalls = 0
  /\ qjob.state \in {"none", "waiting", "active"} => qjob.made < Attempts
  /\ ~disrupted => \A w \in Workers :
       work[w] # Idle => Locked(w) \/ qjob.stalls > 0 \/ qjob.state = "failed"
  /\ ~disrupted => \A v, w \in Workers :
       v # w /\ work[w] # Idle /\ work[w].retry /\ Locked(w) => work[v] = Idle

DInv == TypeOK /\ QueueOK /\ ExecOK

-----------------------------------------------------------------------------
(* The kinds of steps.                                                     *)

\* The first state.
LEMMA InitHolds == Init => DInv
<1> SUFFICES ASSUME Init PROVE DInv
  OBVIOUS
<1>1. TypeOK
  <2>1. run \in Run /\ run.status = "ABSENT" /\ run.claim = None /\ run.lapsed = FALSE
    BY DEF Init, Run, Statuses
  <2>2. qjob \in QueueJob
    BY ResearchAssumption DEF Init, NoQueueJob, QueueJob
  <2>3. faults \in 0 .. MaxFaults
    BY ResearchAssumption DEF Init
  <2> QED BY <2>1, <2>2, <2>3 DEF Init, TypeOK, Reports
<1>2. QueueOK
  BY ResearchAssumption DEF Init, QueueOK, NoQueueJob
<1>3. ExecOK
  BY DEF Init, ExecOK, KnowsOK, OneExecutor, Executing, CompletedIsWhole, Idle
<1> QED BY <1>1, <1>2, <1>3 DEF DInv

\* Steps of requests, passes and the queue change no worker, run or report.
LEMMA QuietHolds ==
  ASSUME DInv, UNCHANGED <<run, report, work>>, QueueOK',
         qjob' \in QueueJob,
         request' \in [Requests -> {"idle", "creating", "joining", "failing"}],
         pass' \in [Passes -> {"idle", "scanned", "removing", "adding"}],
         faults' \in 0 .. MaxFaults, disrupted' \in BOOLEAN, disrupted => disrupted'
  PROVE  DInv'
<1>1. TypeOK'
  BY DEF DInv, TypeOK
<1>2. ExecOK'
  BY DEF DInv, ExecOK, KnowsOK, Mine, Owns, Over, HasReport, OneExecutor, Executing, CompletedIsWhole
<1> QED BY <1>1, <1>2 DEF DInv

\* The bound on faults.
LEMMA FaultIs == ASSUME TypeOK, Fault PROVE faults' \in 0 .. MaxFaults
  BY ResearchAssumption DEF TypeOK, Fault

\* Adding a job that may be known.
LEMMA AddedHolds ==
  ASSUME DInv, qjob' \in {qjob, Added}, UNCHANGED <<work, disrupted>>
  PROVE  qjob' \in QueueJob /\ QueueOK'
<1>1. CASE qjob' = qjob
  BY <1>1 DEF DInv, TypeOK, QueueOK, Locked
<1>2. CASE qjob' # qjob
  <2>1. qjob.state = "none" /\ qjob' = [NoQueueJob EXCEPT !.state = "waiting"]
    BY <1>2 DEF Added
  <2>2. /\ qjob' \in QueueJob /\ qjob'.state = "waiting"
        /\ qjob'.stalls = 0 /\ qjob'.made = 0
    BY <2>1, ResearchAssumption DEF NoQueueJob, QueueJob
  <2>3. ~disrupted => \A w \in Workers : work[w] = Idle
    BY <2>1 DEF DInv, QueueOK, Locked
  <2> QED BY <2>2, <2>3, ResearchAssumption DEF QueueOK, Locked
<1> QED BY <1>1, <1>2

\* Removing a job disrupts who works at it.
LEMMA RemovedHolds ==
  ASSUME DInv, qjob' = NoQueueJob, UNCHANGED work,
         disrupted' = (disrupted \/ \E w \in Workers : work[w] # Idle)
  PROVE  qjob' \in QueueJob /\ QueueOK' /\ disrupted' \in BOOLEAN
<1>1. /\ qjob' \in QueueJob /\ qjob'.state = "none" /\ qjob'.stalls = 0 /\ qjob'.made = 0
  BY ResearchAssumption DEF NoQueueJob, QueueJob
<1>2. ~disrupted' => \A w \in Workers : work[w] = Idle
  OBVIOUS
<1>3. disrupted' \in BOOLEAN
  BY DEF DInv, TypeOK
<1> QED BY <1>1, <1>2, <1>3, ResearchAssumption DEF QueueOK, Locked

\* Taking a job back leaves a mark on it.
LEMMA StalledHolds ==
  ASSUME DInv, qjob.state = "active", qjob' = Stalled, UNCHANGED <<work, disrupted>>
  PROVE  qjob' \in QueueJob /\ QueueOK'
<1>1. /\ qjob \in QueueJob /\ qjob.stalls \in 0 .. MaxStalls /\ qjob.made \in 0 .. Attempts
      /\ qjob.made < Attempts
  BY DEF DInv, TypeOK, QueueJob, QueueOK
<1>2. CASE qjob.stalls = MaxStalls
  <2>1. qjob' = [qjob EXCEPT !.state = "failed", !.holder = None]
    BY <1>2 DEF Stalled
  <2>2. qjob' \in QueueJob /\ qjob'.state = "failed"
    BY <1>1, <2>1 DEF QueueJob
  <2> QED BY <2>2 DEF QueueOK, Locked
<1>3. CASE qjob.stalls # MaxStalls
  <2>1. PICK n \in 0 .. MaxStalls : n = qjob.stalls + 1 /\ n > 0
    BY <1>1, <1>3, ResearchAssumption
  <2>2. qjob' = [qjob EXCEPT !.state = "waiting", !.holder = None, !.stalls = n]
    BY <1>3, <2>1 DEF Stalled
  <2>3. /\ qjob' \in QueueJob /\ qjob'.state = "waiting"
        /\ qjob'.stalls = n /\ qjob'.made = qjob.made
    BY <1>1, <2>2 DEF QueueJob
  <2> QED BY <1>1, <2>1, <2>3 DEF QueueOK, Locked
<1> QED BY <1>2, <1>3

-----------------------------------------------------------------------------
(* Requests, passes and the queue.                                         *)

\* The steps of enqueueForLead() other than failing the run.
LEMMA RequestHolds ==
  ASSUME DInv, NEW r \in Requests, AddQueueJob(r) \/ AddFails(r) \/ ServerDies(r)
  PROVE  DInv'
<1>1. /\ UNCHANGED <<run, report, work, pass, disrupted>>
      /\ qjob' \in {qjob, Added}
  BY DEF AddQueueJob, AddFails, ServerDies
<1>2. request' \in [Requests -> {"idle", "creating", "joining", "failing"}]
  BY DEF AddQueueJob, AddFails, ServerDies, Asks, DInv, TypeOK
<1>3. faults' \in 0 .. MaxFaults
  BY FaultIs DEF AddQueueJob, AddFails, ServerDies, DInv, TypeOK
<1>4. qjob' \in QueueJob /\ QueueOK'
  BY <1>1, AddedHolds
<1> QED BY <1>1, <1>2, <1>3, <1>4, QuietHolds DEF DInv, TypeOK

\* The steps of reconcilePendingRuns().
LEMMA PassHolds ==
  ASSUME DInv, NEW c \in Passes, PassStep(c) \/ PassFails(c)
  PROVE  DInv'
<1>1. UNCHANGED <<run, report, work, request>>
  BY DEF PassStep, PassFails, Scan, LookAtJob, Remove, AddAgain
<1>2. ASSUME NEW st \in {"idle", "scanned", "removing", "adding"}, Passing(c, st)
      PROVE  pass' \in [Passes -> {"idle", "scanned", "removing", "adding"}]
  BY <1>2 DEF Passing, DInv, TypeOK
<1>3. CASE Scan(c) \/ AddAgain(c) \/ PassFails(c)
  <2>1. qjob' \in {qjob, Added} /\ UNCHANGED disrupted
    BY <1>3 DEF Scan, AddAgain, PassFails
  <2>2. qjob' \in QueueJob /\ QueueOK'
    BY <1>1, <2>1, AddedHolds
  <2>3. pass' \in [Passes -> {"idle", "scanned", "removing", "adding"}]
    BY <1>2, <1>3 DEF Scan, AddAgain, PassFails
  <2>4. faults' \in 0 .. MaxFaults
    BY <1>3, FaultIs DEF Scan, AddAgain, PassFails, DInv, TypeOK
  <2> QED BY <1>1, <2>1, <2>2, <2>3, <2>4, QuietHolds DEF DInv, TypeOK
<1>4. CASE LookAtJob(c)
  <2>1. UNCHANGED <<qjob, faults, disrupted>>
    BY <1>4 DEF LookAtJob
  <2>2. qjob' \in QueueJob /\ QueueOK'
    BY <1>1, <2>1, AddedHolds
  <2>3. pass' \in [Passes -> {"idle", "scanned", "removing", "adding"}]
    <3>1. qjob.state \in {"none", "waiting", "active", "completed", "failed"}
      BY DEF DInv, TypeOK, QueueJob
    <3> QED BY <1>2, <1>4, <3>1 DEF LookAtJob
  <2> QED BY <1>1, <2>1, <2>2, <2>3, QuietHolds DEF DInv, TypeOK
<1>5. CASE Remove(c)
  <2>1. pass' \in [Passes -> {"idle", "scanned", "removing", "adding"}] /\ faults' = faults
    BY <1>2, <1>5 DEF Remove
  <2>2. CASE qjob.state = "active"
    <3>1. UNCHANGED <<qjob, disrupted>>
      BY <1>5, <2>2 DEF Remove
    <3>2. qjob' \in QueueJob /\ QueueOK'
      BY <1>1, <3>1, AddedHolds
    <3> QED BY <1>1, <2>1, <3>1, <3>2, QuietHolds DEF DInv, TypeOK
  <2>3. CASE qjob.state # "active"
    <3>1. qjob' \in QueueJob /\ QueueOK' /\ disrupted' \in BOOLEAN /\ (disrupted => disrupted')
      BY <1>1, <1>5, <2>3, RemovedHolds DEF Remove
    <3> QED BY <1>1, <2>1, <3>1, QuietHolds DEF DInv, TypeOK
  <2> QED BY <2>2, <2>3
<1> QED BY <1>3, <1>4, <1>5 DEF PassStep

\* What BullMQ does by itself.
LEMMA QueueHolds == ASSUME DInv, TakeBack \/ LoseLock \/ Forget PROVE DInv'
<1>1. UNCHANGED <<run, report, work, request, pass>>
  BY DEF TakeBack, LoseLock, Forget
<1>2. faults' \in 0 .. MaxFaults
  BY FaultIs DEF TakeBack, LoseLock, Forget, DInv, TypeOK
<1>3. CASE TakeBack \/ LoseLock
  <2>1. qjob' \in QueueJob /\ QueueOK' /\ UNCHANGED disrupted
    BY <1>3, StalledHolds DEF TakeBack, LoseLock
  <2> QED BY <1>1, <1>2, <2>1, QuietHolds DEF DInv, TypeOK
<1>4. CASE Forget
  <2>1. qjob' \in QueueJob /\ QueueOK' /\ disrupted' \in BOOLEAN /\ (disrupted => disrupted')
    BY <1>4, RemovedHolds DEF Forget
  <2> QED BY <1>1, <1>2, <2>1, QuietHolds DEF DInv, TypeOK
<1> QED BY <1>3, <1>4

-----------------------------------------------------------------------------
(* The moves of a worker.                                                  *)

\* A worker that has a job and goes on with it does not disturb the queue.
LEMMA MoveHolds ==
  ASSUME DInv, NEW w \in Workers, NEW j \in Work, work[w] # Idle,
         work' = [work EXCEPT ![w] = j], j.retry => work[w].retry,
         UNCHANGED qjob, disrupted => disrupted'
  PROVE  QueueOK'
<1>1. \A v \in Workers : work'[v] = IF v = w THEN j ELSE work[v]
  BY DEF DInv, TypeOK
<1>2. \A v \in Workers : Locked(v)' <=> Locked(v)
  BY DEF Locked
<1> QED BY <1>1, <1>2 DEF DInv, QueueOK

\* What a step of worker w, which leaves it with j, has to show.
LEMMA WorkerHolds ==
  ASSUME DInv, NEW w \in Workers, NEW j \in Work \cup {Idle},
         work' = [work EXCEPT ![w] = j], UNCHANGED <<request, pass>>,
         run' \in Run, run'.status = "RUNNING" <=> run'.claim # None,
         run'.lapsed => run'.status = "RUNNING", report' \in Reports,
         qjob' \in QueueJob, QueueOK',
         faults' \in 0 .. MaxFaults, disrupted' \in BOOLEAN, disrupted => disrupted',
         ~disrupted' => KnowsOK(w, j)',
         ~disrupted' => \A v \in Workers \ {w} : KnowsOK(v, work[v])',
         ~disrupted' /\ j.stage \in {"claimed", "researching", "completing"} =>
            Executing(w) \/ \A v \in Workers \ {w} : ~Executing(v),
         CompletedIsWhole'
  PROVE  DInv'
<1>1. \A v \in Workers : work'[v] = IF v = w THEN j ELSE work[v]
  BY DEF DInv, TypeOK
<1>2. TypeOK'
  BY DEF DInv, TypeOK
<1>3. OneExecutor'
  BY <1>1 DEF DInv, ExecOK, OneExecutor, Executing
<1>4. ExecOK'
  <2>1. ~disrupted' => KnowsOK(w, work[w])'
    BY <1>1
  <2> QED BY <1>3, <2>1 DEF ExecOK
<1> QED BY <1>2, <1>4 DEF DInv

\* The same for a step that leaves run, report and job.
LEMMA StageHolds ==
  ASSUME DInv, NEW w \in Workers, NEW j \in Work, work[w] # Idle,
         work' = [work EXCEPT ![w] = j], j.retry => work[w].retry,
         UNCHANGED <<run, report, qjob, request, pass, disrupted>>,
         faults' \in 0 .. MaxFaults,
         ~disrupted => KnowsOK(w, j),
         j.stage \in {"claimed", "researching", "completing"} => Executing(w)
  PROVE  DInv'
<1>1. QueueOK'
  BY MoveHolds
<1>2. \A v \in Workers : \A i : KnowsOK(v, i)' <=> KnowsOK(v, i)
  BY DEF KnowsOK, Mine, Owns, Over, HasReport
<1>3. ~disrupted' => KnowsOK(w, j)'
  BY <1>2
<1>4. ~disrupted' => \A v \in Workers \ {w} : KnowsOK(v, work[v])'
  <2>1. \A v \in Workers \ {w} : work'[v] = work[v]
    BY DEF DInv, TypeOK
  <2> QED BY <1>2, <2>1 DEF DInv, ExecOK, KnowsOK, Mine, Owns, Over, HasReport
<1>5. CompletedIsWhole'
  BY DEF DInv, ExecOK, CompletedIsWhole
<1> QED BY <1>1, <1>3, <1>4, <1>5, WorkerHolds DEF DInv, TypeOK

\* Goes(w, stage) as a whole new record.
LEMMA GoesIs ==
  ASSUME TypeOK, NEW w \in Workers, work[w] # Idle, NEW s, Goes(w, s),
         s \in {"cleaning", "checked", "claimed", "researching", "completing", "overruled",
                "checking", "deleting", "failing", "done", "thrown"}
  PROVE  \E j \in Work : /\ work' = [work EXCEPT ![w] = j]
                         /\ j = [work[w] EXCEPT !.stage = s]
                         /\ j.stage = s /\ j.retry = work[w].retry
                         /\ j.partial = work[w].partial
<1>1. work[w] \in Work
  BY DEF TypeOK
<1>2. [work[w] EXCEPT !.stage = s] \in Work
  BY <1>1 DEF Work
<1>3. work' = [work EXCEPT ![w] = [work[w] EXCEPT !.stage = s]]
  BY DEF Goes, TypeOK
<1> QED BY <1>1, <1>2, <1>3 DEF Work

\* GoesOn(w, stage) as a whole new record.
LEMMA GoesOnIs ==
  ASSUME TypeOK, NEW w \in Workers, work[w] # Idle, NEW s, GoesOn(w, s), s \in {"claimed", "done"}
  PROVE  \E j \in Work : work' = [work EXCEPT ![w] = j] /\ j.stage = s /\ ~j.retry
<1>1. work[w] \in Work
  BY DEF TypeOK
<1>2. [work[w] EXCEPT !.stage = s, !.retry = FALSE] \in Work
  BY <1>1 DEF Work
<1>3. work' = [work EXCEPT ![w] = [work[w] EXCEPT !.stage = s, !.retry = FALSE]]
  BY DEF GoesOn, TypeOK
<1> QED BY <1>1, <1>2, <1>3 DEF Work

-----------------------------------------------------------------------------
(* A worker gets a job and gives it up.                                    *)

\* A job that waits, was never taken back and was not disrupted has no worker.
LEMMA FetchHolds == ASSUME DInv, NEW w \in Workers, Fetch(w) PROVE DInv'
<1>1. PICK j \in Work : /\ j = [stage |-> "fetched", retry |-> IsRetry, partial |-> FALSE]
                       /\ j.retry = IsRetry /\ j.stage = "fetched"
  <2>1. PICK b \in BOOLEAN : b = IsRetry
    BY DEF IsRetry
  <2>2. [stage |-> "fetched", retry |-> b, partial |-> FALSE] \in Work
    BY DEF Work
  <2> QED BY <2>1, <2>2
<1>2. work' = [work EXCEPT ![w] = j]
  BY <1>1 DEF Fetch
<1>3. /\ UNCHANGED <<run, report, request, pass, faults, disrupted>>
      /\ work[w] = Idle /\ qjob.state = "waiting"
  BY DEF Fetch
<1>4. /\ qjob' \in QueueJob /\ qjob'.state = "active" /\ qjob'.holder = w
      /\ qjob'.stalls = qjob.stalls /\ qjob'.made = qjob.made
  BY DEF Fetch, DInv, TypeOK, QueueJob
<1>5. \A v \in Workers : work'[v] = IF v = w THEN j ELSE work[v]
  BY <1>2 DEF DInv, TypeOK
<1>6. QueueOK'
  <2>1. qjob'.made < Attempts
    BY <1>3, <1>4 DEF DInv, QueueOK
  <2>2. ~disrupted' => \A v \in Workers :
          work'[v] # Idle => Locked(v)' \/ qjob'.stalls > 0 \/ qjob'.state = "failed"
    BY <1>3, <1>4, <1>5 DEF DInv, QueueOK, Locked
  <2>3. ~disrupted' => \A v, x \in Workers :
          v # x /\ work'[x] # Idle /\ work'[x].retry /\ Locked(x)' => work'[v] = Idle
    <3> SUFFICES ASSUME ~disrupted', NEW v \in Workers, NEW x \in Workers,
                        v # x, work'[x].retry, Locked(x)'
                 PROVE  work'[v] = Idle
      OBVIOUS
    <3>1. x = w
      BY <1>4 DEF Locked
    <3>2. qjob.stalls = 0
      BY <1>1, <1>5, <3>1 DEF IsRetry
    <3>3. work[v] = Idle
      BY <1>3, <3>2 DEF DInv, QueueOK, Locked
    <3> QED BY <1>5, <3>1, <3>3
  <2> QED BY <1>4, <2>1, <2>2, <2>3 DEF QueueOK
<1>7. KnowsOK(w, j)'
  BY <1>1 DEF KnowsOK
<1>8. ~disrupted' => \A v \in Workers \ {w} : KnowsOK(v, work[v])'
  BY <1>3, <1>5 DEF DInv, ExecOK, KnowsOK, Mine, Owns, Over, HasReport
<1>9. CompletedIsWhole'
  BY <1>3 DEF DInv, ExecOK, CompletedIsWhole
<1> QED BY <1>1, <1>2, <1>3, <1>4, <1>6, <1>7, <1>8, <1>9, WorkerHolds DEF DInv, TypeOK

\* A worker that is through with its job in any way.
LEMMA LeaveHolds ==
  ASSUME DInv, NEW w \in Workers, Return(w) \/ Throw(w) \/ Crash(w)
  PROVE  DInv'
<1>1. /\ UNCHANGED <<run, report, request, pass, disrupted>>
      /\ work' = [work EXCEPT ![w] = Idle]
  BY DEF Return, Throw, Crash
<1>2. work[w] # Idle
  BY DEF Return, Throw, Crash, Idle
<1>3. \A v \in Workers : work'[v] = IF v = w THEN Idle ELSE work[v]
  BY <1>1 DEF DInv, TypeOK
<1>4. faults' \in 0 .. MaxFaults
  BY FaultIs DEF Return, Throw, Crash, DInv, TypeOK
<1>5. qjob' \in QueueJob /\ QueueOK'
  <2>1. CASE qjob' = qjob
    BY <1>1, <1>3, <2>1 DEF DInv, TypeOK, QueueOK, Locked
  <2>2. CASE qjob' # qjob
    <3>1. Locked(w)
      BY <2>2 DEF Return, Throw, Crash
    <3>2. \A v \in Workers \ {w} : ~Locked(v)
      BY <3>1 DEF Locked
    <3>3. ~disrupted => \A v \in Workers \ {w} :
            work[v] # Idle => qjob.stalls > 0
      BY <3>1, <3>2 DEF DInv, QueueOK, Locked
    <3>4. /\ qjob' \in QueueJob /\ qjob'.stalls = qjob.stalls
          /\ qjob'.state \in {"completed", "failed", "waiting"}
          /\ qjob'.state = "waiting" => qjob'.made < Attempts
      <4>1. qjob \in QueueJob /\ qjob.made \in 0 .. Attempts /\ qjob.made < Attempts
        BY <3>1 DEF DInv, TypeOK, QueueJob, QueueOK, Locked
      <4>2. CASE Return(w)
        <5>1. qjob' = [qjob EXCEPT !.state = "completed", !.holder = None]
          BY <3>1, <4>2 DEF Return
        <5> QED BY <4>1, <5>1 DEF QueueJob
      <4>3. CASE Throw(w)
        <5>1. PICK n \in 0 .. Attempts : n = qjob.made + 1
          BY <4>1, ResearchAssumption
        <5>2. PICK s \in {"failed", "waiting"} : s = IF n = Attempts THEN "failed" ELSE "waiting"
          OBVIOUS
        <5>3. qjob' = [qjob EXCEPT !.made = n, !.holder = None, !.state = s]
          BY <3>1, <4>3, <5>1, <5>2 DEF Throw
        <5>4. /\ qjob' \in QueueJob /\ qjob'.stalls = qjob.stalls
              /\ qjob'.state = s /\ qjob'.made = n
          BY <4>1, <5>3 DEF QueueJob
        <5>5. s = "waiting" => n < Attempts
          BY <5>1, <5>2, ResearchAssumption
        <5> QED BY <5>2, <5>4, <5>5
      <4> QED BY <2>2, <4>2, <4>3 DEF Crash
    <3> QED BY <1>1, <1>3, <3>3, <3>4 DEF QueueOK, Locked
  <2> QED BY <2>1, <2>2
<1>6. KnowsOK(w, Idle)'
  BY DEF KnowsOK, Idle
<1>7. ~disrupted' => \A v \in Workers \ {w} : KnowsOK(v, work[v])'
  BY <1>1, <1>3 DEF DInv, ExecOK, KnowsOK, Mine, Owns, Over, HasReport
<1>8. CompletedIsWhole'
  BY <1>1 DEF DInv, ExecOK, CompletedIsWhole
<1>9. Idle.stage = "idle"
  BY DEF Idle
<1> QED BY <1>1, <1>4, <1>5, <1>6, <1>7, <1>8, <1>9, WorkerHolds DEF DInv, TypeOK

-----------------------------------------------------------------------------
(* Moves that leave run and report as they are.                            *)

\* A new stage at which nothing is known.
LEMMA OnwardHolds ==
  ASSUME DInv, NEW w \in Workers, work[w] # Idle, NEW j \in Work,
         work' = [work EXCEPT ![w] = j], j.retry => work[w].retry,
         UNCHANGED <<run, report, qjob, request, pass, disrupted>>,
         faults' \in 0 .. MaxFaults,
         j.stage \in {"checked", "checking", "failing", "done", "thrown"}
  PROVE  DInv'
<1>1. KnowsOK(w, j)
  BY DEF KnowsOK
<1> QED BY <1>1, StageHolds

\* Reading the run, and the two ends of an attempt by an error.
LEMMA ReadHolds ==
  ASSUME DInv, NEW w \in Workers, ReadRun(w) \/ ResearchFails(w) \/ DatabaseFails(w)
  PROVE  DInv'
<1>1. work[w] # Idle /\ work[w] \in Work
  BY DEF ReadRun, ResearchFails, DatabaseFails, Idle, DInv, TypeOK
<1>2. UNCHANGED <<run, report, qjob, request, pass, disrupted>>
  BY DEF ReadRun, ResearchFails, DatabaseFails
<1>3. faults' \in 0 .. MaxFaults
  BY FaultIs DEF ReadRun, ResearchFails, DatabaseFails, DInv, TypeOK
<1>4. CASE ReadRun(w)
  <2> DEFINE retry == work[w].retry /\ run.status = "RUNNING"
  <2>1. PICK s \in {"cleaning", "checked", "thrown", "done"} :
          /\ s = "cleaning" => run.status = "CANCELLED"
          /\ work' = [work EXCEPT ![w].stage = s, ![w].retry = (retry /\ s = "checked")]
    <3>1. run.status \in Statuses
      BY DEF DInv, TypeOK, Run
    <3> QED BY <1>4, <3>1 DEF ReadRun, Statuses
  <2>2. PICK b \in BOOLEAN : /\ b => work[w].retry
                            /\ work' = [work EXCEPT ![w].stage = s, ![w].retry = b]
    BY <2>1
  <2>3. [work[w] EXCEPT !.stage = s, !.retry = b] \in Work
    BY <1>1 DEF Work
  <2>4. PICK j \in Work : j = [work[w] EXCEPT !.stage = s, !.retry = b]
    BY <2>3
  <2>5. work' = [work EXCEPT ![w] = j]
    BY <2>2, <2>4 DEF DInv, TypeOK
  <2>6. j.stage = s /\ (j.retry => work[w].retry)
    BY <1>1, <2>2, <2>4 DEF Work
  <2>7. KnowsOK(w, j)
    BY <2>1, <2>6 DEF KnowsOK
  <2> QED BY <1>1, <1>2, <1>3, <2>5, <2>6, <2>7, StageHolds
<1>5. CASE ResearchFails(w)
  <2>1. PICK j \in Work : j = [work[w] EXCEPT !.stage = "checking", !.partial = FALSE]
    BY <1>1 DEF Work
  <2>2. work' = [work EXCEPT ![w] = j]
    BY <1>5, <2>1 DEF ResearchFails, DInv, TypeOK
  <2>3. j.stage = "checking" /\ j.retry = work[w].retry
    BY <1>1, <2>1 DEF Work
  <2> QED BY <1>1, <1>2, <1>3, <2>2, <2>3, OnwardHolds
<1>6. CASE DatabaseFails(w)
  <2>1. PICK s \in {"checking", "thrown"} :
          work' = [work EXCEPT ![w].stage = s, ![w].partial = FALSE]
    BY <1>6 DEF DatabaseFails
  <2>2. PICK j \in Work : j = [work[w] EXCEPT !.stage = s, !.partial = FALSE]
    BY <1>1 DEF Work
  <2>3. work' = [work EXCEPT ![w] = j]
    BY <2>1, <2>2 DEF DInv, TypeOK
  <2>4. j.stage = s /\ j.retry = work[w].retry
    BY <1>1, <2>2 DEF Work
  <2> QED BY <1>1, <1>2, <1>3, <2>3, <2>4, OnwardHolds
<1> QED BY <1>4, <1>5, <1>6

\* A report that is found is of the run, and a worker deletes what it may.
LEMMA LookHolds ==
  ASSUME DInv, NEW w \in Workers, LookForReport(w) \/ CheckDelete(w)
  PROVE  DInv'
<1>1. work[w] # Idle /\ work[w] \in Work
  BY DEF LookForReport, CheckDelete, Idle, DInv, TypeOK
<1>2. UNCHANGED <<run, report, qjob, request, pass, faults, disrupted>>
  BY DEF LookForReport, CheckDelete
<1>3. faults' \in 0 .. MaxFaults
  BY <1>2 DEF DInv, TypeOK
<1>4. CASE LookForReport(w)
  <2>1. PICK s \in {"completing", "researching"} :
          s = IF HasReport THEN "completing" ELSE "researching"
    OBVIOUS
  <2>2. PICK b \in BOOLEAN : b = (report = "partial")
    OBVIOUS
  <2>3. PICK j \in Work : j = [work[w] EXCEPT !.stage = s, !.partial = b]
    BY <1>1 DEF Work
  <2>4. work' = [work EXCEPT ![w] = j]
    BY <1>4, <2>1, <2>2, <2>3 DEF LookForReport, DInv, TypeOK
  <2>5. j.stage = s /\ j.retry = work[w].retry /\ j.partial = b
    BY <1>1, <2>3 DEF Work
  <2>6. ~disrupted => Mine(w)
    BY <1>4 DEF LookForReport, DInv, ExecOK, KnowsOK
  <2>7. ~disrupted => KnowsOK(w, j)
    BY <2>1, <2>2, <2>5, <2>6 DEF KnowsOK, HasReport
  <2>8. Executing(w)
    BY <1>4 DEF LookForReport, Executing
  <2> QED BY <1>1, <1>2, <1>3, <2>4, <2>5, <2>7, <2>8, StageHolds
<1>5. CASE CheckDelete(w)
  <2>1. PICK s \in {"deleting", "failing"} :
          s = IF run.status = "CANCELLED" \/ run.claim = w THEN "deleting" ELSE "failing"
    OBVIOUS
  <2>2. PICK j \in Work : /\ work' = [work EXCEPT ![w] = j] /\ j.stage = s
                         /\ j.retry = work[w].retry
    BY <1>1, <1>5, <2>1, GoesIs DEF CheckDelete, DInv
  <2>3. s = "deleting" => Mine(w)
    BY <2>1, ResearchAssumption DEF Mine, Owns, Over, DInv, TypeOK
  <2>4. KnowsOK(w, j)
    BY <2>2, <2>3 DEF KnowsOK
  <2> QED BY <1>1, <1>2, <1>3, <2>2, <2>4, StageHolds
<1> QED BY <1>4, <1>5

-----------------------------------------------------------------------------
(* Moves that change run or report.                                        *)

\* WorkerHolds for a worker that keeps its job.
LEMMA ChangeHolds ==
  ASSUME DInv, NEW w \in Workers, work[w] # Idle, NEW j \in Work,
         work' = [work EXCEPT ![w] = j], j.retry => work[w].retry,
         UNCHANGED <<qjob, request, pass, faults>>,
         run' \in Run, run'.status = "RUNNING" <=> run'.claim # None,
         run'.lapsed => run'.status = "RUNNING", report' \in Reports,
         disrupted' \in BOOLEAN, disrupted => disrupted',
         ~disrupted' => KnowsOK(w, j)',
         ~disrupted' => \A v \in Workers \ {w} : KnowsOK(v, work[v])',
         ~disrupted' /\ j.stage \in {"claimed", "researching", "completing"} =>
            Executing(w) \/ \A v \in Workers \ {w} : ~Executing(v),
         CompletedIsWhole'
  PROVE  DInv'
<1>1. QueueOK'
  BY MoveHolds
<1> QED BY <1>1, WorkerHolds DEF DInv, TypeOK

\* A worker deletes the report of a run that is its own, or over.
LEMMA DeletionHolds ==
  ASSUME DInv, NEW w \in Workers, CleanUp(w) \/ Overruled(w) \/ Delete(w)
  PROVE  DInv'
<1>1. work[w] # Idle /\ work[w] \in Work
  BY DEF CleanUp, Overruled, Delete, Idle, DInv, TypeOK
<1>2. UNCHANGED <<run, qjob, request, pass, faults, disrupted>> /\ report' = "none"
  BY DEF CleanUp, Overruled, Delete
<1>3. PICK j \in Work : /\ work' = [work EXCEPT ![w] = j] /\ j.stage \in {"done", "failing"}
                       /\ j.retry = work[w].retry
  BY <1>1, GoesIs DEF CleanUp, Overruled, Delete, DInv
<1>4. ~disrupted => Mine(w)
  BY DEF CleanUp, Overruled, Delete, Over, Mine, DInv, ExecOK, KnowsOK
<1>5. KnowsOK(w, j)'
  BY <1>3 DEF KnowsOK
<1>6. ASSUME ~disrupted, NEW v \in Workers \ {w} PROVE KnowsOK(v, work[v])'
  <2>1. work'[v] = work[v] /\ ~HasReport'
    BY <1>2, <1>3 DEF DInv, TypeOK, HasReport
  <2>2. KnowsOK(v, work[v]) /\ Mine(w)
    BY <1>4, <1>6 DEF DInv, ExecOK
  <2>3. ~Owns(v)
    BY <2>2 DEF Mine, Owns, Over
  <2> QED BY <1>2, <2>1, <2>2, <2>3 DEF KnowsOK, Mine, Owns, Over
<1>7. CompletedIsWhole'
  BY <1>2, <1>4 DEF CompletedIsWhole, Mine, Owns, Over
<1> QED BY <1>1, <1>2, <1>3, <1>5, <1>6, <1>7, ChangeHolds DEF DInv, TypeOK, Reports

\* failRun() without a claim ends a run that is not over, for everyone.
LEMMA FailScopeHolds == ASSUME DInv, NEW w \in Workers, FailScope(w) PROVE DInv'
<1>1. work[w] # Idle /\ work[w] \in Work
  BY DEF FailScope, Idle, DInv, TypeOK
<1>2. PICK j \in Work : /\ work' = [work EXCEPT ![w] = j] /\ j.stage = "done"
                       /\ j.retry = work[w].retry
  BY <1>1, GoesIs DEF FailScope, DInv
<1>3. UNCHANGED <<qjob, request, pass, faults, disrupted>>
  BY DEF FailScope
<1>4. CASE ~Waits
  BY <1>1, <1>2, <1>3, <1>4, OnwardHolds DEF FailScope, DInv, TypeOK
<1>5. CASE Waits
  <2>1. /\ run' \in Run /\ run'.status = "FAILED" /\ run'.error = "scope"
        /\ run'.claim = None /\ run'.lapsed = FALSE /\ report' = "none"
    <3>1. run' = Ended("FAILED", "scope") /\ report' = "none"
      BY <1>5 DEF FailScope
    <3>2. LET u == Ended("FAILED", "scope")
          IN  u \in Run /\ u.status = "FAILED" /\ u.error = "scope" /\ u.claim = None /\ u.lapsed = FALSE
      BY DEF Ended, Run, Statuses, Errors
    <3> QED BY <3>1, <3>2
  <2>2. Over' /\ ~HasReport' /\ \A v \in Workers : ~Owns(v)'
    BY <2>1 DEF Over, HasReport, Owns
  <2>3. KnowsOK(w, j)'
    BY <1>2 DEF KnowsOK
  <2>4. ASSUME ~disrupted, NEW v \in Workers \ {w} PROVE KnowsOK(v, work[v])'
    <3>1. work'[v] = work[v] /\ KnowsOK(v, work[v])
      BY <1>2, <2>4 DEF DInv, TypeOK, ExecOK
    <3>2. work[v].stage \notin {"cleaning", "overruled"}
      BY <1>5, <3>1 DEF KnowsOK, Waits
    <3> QED BY <2>2, <3>1, <3>2 DEF KnowsOK, Mine
  <2>5. CompletedIsWhole'
    BY <2>1 DEF CompletedIsWhole
  <2> QED BY <1>1, <1>2, <1>3, <2>1, <2>3, <2>4, <2>5, ChangeHolds DEF DInv, TypeOK, Reports
<1> QED BY <1>4, <1>5

\* Nobody else is at a run that a worker may claim: before its first attempt
\* and after a failed one there is no claim, an expired lease is that of a
\* dead worker, and a retry of the job is alone with it.
LEMMA ClaimHolds == ASSUME DInv, NEW w \in Workers, Claim(w) PROVE DInv'
<1>1. work[w] # Idle /\ work[w] \in Work
  BY DEF Claim, Idle, DInv, TypeOK
<1>2. UNCHANGED <<report, qjob, request, pass, faults>>
  BY DEF Claim
<1> DEFINE Free == MayRestart(run) \/ (run.status = "RUNNING" /\ (run.lapsed \/ work[w].retry))
<1>3. CASE ~Free
  <2>1. PICK j \in Work : /\ work' = [work EXCEPT ![w] = j] /\ j.stage = "done"
                         /\ ~j.retry
    BY <1>1, <1>3, GoesOnIs DEF Claim, DInv
  <2>2. UNCHANGED <<run, disrupted>>
    BY <1>3 DEF Claim
  <2> QED BY <1>1, <1>2, <2>1, <2>2, OnwardHolds DEF DInv, TypeOK
<1>4. CASE Free
  <2>1. PICK j \in Work : /\ work' = [work EXCEPT ![w] = j] /\ j.stage = "claimed"
                         /\ ~j.retry
    BY <1>1, <1>4, GoesOnIs DEF Claim, DInv
  <2>2. /\ run' \in Run /\ run'.status = "RUNNING" /\ run'.claim = w /\ run'.lapsed = FALSE
    <3>1. run' = [status |-> "RUNNING", error |-> None, claim |-> w, lapsed |-> FALSE]
      BY <1>4 DEF Claim
    <3> QED BY <3>1 DEF Run, Statuses
  <2>3. disrupted' = (disrupted \/ ~Locked(w) \/ (run.lapsed /\ Occupied))
    BY <1>4 DEF Claim
  <2>4. ASSUME ~disrupted', NEW v \in Workers \ {w}
        PROVE  work[v].stage \notin {"claimed", "researching", "completing", "deleting",
                                    "cleaning", "overruled"}
    <3>1. KnowsOK(v, work[v])
      BY <2>3, <2>4 DEF DInv, ExecOK
    <3>2. CASE MayRestart(run)
      BY <3>1, <3>2 DEF MayRestart, KnowsOK, Mine, Owns, Over
    <3>3. CASE run.status = "RUNNING" /\ run.lapsed
      <4>1. ~Executing(v) /\ ~CleaningUp(v)
        BY <2>3, <2>4, <3>3 DEF Occupied
      <4> QED BY <3>1, <3>3, <4>1 DEF Executing, CleaningUp, KnowsOK
    <3>4. CASE run.status = "RUNNING" /\ work[w].retry
      <4>1. work[v] = Idle
        BY <1>1, <2>3, <2>4, <3>4 DEF DInv, QueueOK
      <4> QED BY <4>1 DEF Idle
    <3> QED BY <1>4, <3>2, <3>3, <3>4
  <2>5. KnowsOK(w, j)'
    BY <2>1, <2>2 DEF KnowsOK, Mine, Owns
  <2>6. ASSUME ~disrupted', NEW v \in Workers \ {w} PROVE KnowsOK(v, work[v])'
    <3>1. work'[v] = work[v]
      BY <2>1 DEF DInv, TypeOK
    <3> QED BY <2>4, <2>6, <3>1 DEF KnowsOK
  <2>7. ~disrupted' => \A v \in Workers \ {w} : ~Executing(v)
    BY <2>4 DEF Executing
  <2>8. CompletedIsWhole'
    BY <2>2 DEF CompletedIsWhole
  <2>9. run'.claim # None /\ disrupted' \in BOOLEAN
    BY <2>2, <2>3, ResearchAssumption DEF DInv, TypeOK
  <2> HIDE DEF Free
  <2> QED BY <1>1, <1>2, <2>1, <2>2, <2>3, <2>5, <2>6, <2>7, <2>8, <2>9, ChangeHolds DEF DInv, TypeOK
<1> QED BY <1>3, <1>4

\* A report is archived by the one worker that executes the run.
LEMMA ArchiveHolds == ASSUME DInv, NEW w \in Workers, Archive(w) PROVE DInv'
<1>1. /\ work[w] # Idle /\ work[w] \in Work
      /\ UNCHANGED <<run, qjob, request, pass, faults, disrupted>>
  BY DEF Archive, Idle, DInv, TypeOK
<1>2. PICK found \in {"whole", "partial"} :
        /\ report' = IF HasReport THEN report ELSE found
        /\ work' = [work EXCEPT ![w].stage = "completing", ![w].partial = (found = "partial")]
  BY DEF Archive
<1>3. PICK b \in BOOLEAN : b = (found = "partial")
  OBVIOUS
<1>4. PICK j \in Work : j = [work[w] EXCEPT !.stage = "completing", !.partial = b]
  BY <1>1 DEF Work
<1>5. work' = [work EXCEPT ![w] = j]
  BY <1>2, <1>3, <1>4 DEF DInv, TypeOK
<1>6. j.stage = "completing" /\ j.partial = b /\ j.retry = work[w].retry
  BY <1>1, <1>4 DEF Work
<1>7. ~disrupted => Mine(w) /\ (Owns(w) => ~HasReport)
  BY DEF Archive, DInv, ExecOK, KnowsOK
<1>8. Executing(w)
  BY DEF Archive, Executing
<1>9. ~disrupted' => KnowsOK(w, j)'
  BY <1>1, <1>2, <1>3, <1>6, <1>7 DEF KnowsOK, Mine, Owns, Over
<1>10. ASSUME ~disrupted', NEW v \in Workers \ {w} PROVE KnowsOK(v, work[v])'
  <2>1. work'[v] = work[v] /\ KnowsOK(v, work[v]) /\ ~Executing(v)
    BY <1>1, <1>5, <1>8, <1>10 DEF DInv, TypeOK, ExecOK, OneExecutor
  <2> QED BY <1>1, <2>1 DEF KnowsOK, Executing, Mine, Owns, Over
<1>11. CompletedIsWhole'
  BY <1>1, <1>7 DEF CompletedIsWhole, Mine, Owns, Over
<1>12. report' \in Reports
  BY <1>2 DEF Reports, DInv, TypeOK
<1> QED
  BY <1>1, <1>5, <1>6, <1>8, <1>9, <1>10, <1>11, <1>12, ChangeHolds DEF DInv, TypeOK

\* The run of a worker is the run of no one else.
LEMMA OthersKnowNothing ==
  ASSUME DInv, ~disrupted, NEW w \in Workers, Owns(w), NEW v \in Workers \ {w}
  PROVE  work[v].stage \notin {"claimed", "researching", "completing", "deleting",
                              "cleaning", "overruled"}
  BY DEF DInv, ExecOK, KnowsOK, Mine, Owns, Over

\* A run is completed by its worker, on the whole report.
LEMMA CompleteHolds == ASSUME DInv, NEW w \in Workers, Complete(w) PROVE DInv'
<1>1. /\ work[w] # Idle /\ work[w] \in Work
      /\ UNCHANGED <<report, qjob, request, pass, faults, disrupted>>
  BY DEF Complete, Idle, DInv, TypeOK
<1>2. PICK s \in {"checking", "overruled", "done"} :
        /\ Goes(w, s)
        /\ s = "overruled" => run.status = "CANCELLED"
  <2>1. work[w].partial \in BOOLEAN
    BY <1>1 DEF Work
  <2> QED BY <2>1 DEF Complete
<1>3. PICK j \in Work : /\ work' = [work EXCEPT ![w] = j] /\ j.stage = s
                       /\ j.retry = work[w].retry
  BY <1>1, <1>2, GoesIs DEF DInv
<1>4. CASE work[w].partial \/ ~Owns(w)
  <2>1. run' = run
    BY <1>4 DEF Complete
  <2>2. KnowsOK(w, j)
    BY <1>2, <1>3 DEF KnowsOK
  <2> QED BY <1>1, <1>3, <2>1, <2>2, StageHolds DEF DInv, TypeOK
<1>5. CASE ~work[w].partial /\ Owns(w)
  <2>1. /\ run' \in Run /\ run'.status = "COMPLETED"
        /\ run'.claim = None /\ run'.lapsed = FALSE
    <3>1. run' = Ended("COMPLETED", None)
      BY <1>5 DEF Complete
    <3>2. LET u == Ended("COMPLETED", None)
          IN  u \in Run /\ u.status = "COMPLETED" /\ u.error = None /\ u.claim = None /\ u.lapsed = FALSE
      BY DEF Ended, Run, Statuses
    <3> QED BY <3>1, <3>2
  <2>2. KnowsOK(w, j)'
    BY <1>2, <1>3, <1>5 DEF KnowsOK, Owns
  <2>3. ASSUME ~disrupted, NEW v \in Workers \ {w} PROVE KnowsOK(v, work[v])'
    <3>1. work'[v] = work[v]
      BY <1>3 DEF DInv, TypeOK
    <3> QED BY <1>5, <2>3, <3>1, OthersKnowNothing DEF KnowsOK
  <2>4. CompletedIsWhole'
    <3>1. ~disrupted => report = "whole"
      BY <1>5 DEF Complete, DInv, ExecOK, KnowsOK
    <3> QED BY <1>1, <3>1 DEF CompletedIsWhole
  <2> QED BY <1>1, <1>2, <1>3, <2>1, <2>2, <2>3, <2>4, ChangeHolds DEF DInv, TypeOK
<1> QED BY <1>4, <1>5

\* A worker fails the run it still has, and deletes its report.
LEMMA FailRunHolds == ASSUME DInv, NEW w \in Workers, FailRun(w) PROVE DInv'
<1>1. /\ work[w] # Idle /\ work[w] \in Work
      /\ UNCHANGED <<qjob, request, pass, faults, disrupted>>
  BY DEF FailRun, Idle, DInv, TypeOK
<1>2. PICK s \in {"checking", "thrown"} :
        work' = [work EXCEPT ![w].stage = s, ![w].partial = FALSE]
  BY DEF FailRun
<1>3. PICK j \in Work : j = [work[w] EXCEPT !.stage = s, !.partial = FALSE]
  BY <1>1 DEF Work
<1>4. work' = [work EXCEPT ![w] = j]
  BY <1>2, <1>3 DEF DInv, TypeOK
<1>5. j.stage = s /\ j.retry = work[w].retry
  BY <1>1, <1>3 DEF Work
<1>6. CASE ~Owns(w)
  <2>1. UNCHANGED <<run, report>>
    BY <1>6 DEF FailRun
  <2> QED BY <1>1, <1>4, <1>5, <2>1, OnwardHolds DEF DInv, TypeOK
<1>7. CASE Owns(w)
  <2>1. /\ run' \in Run /\ run'.status = "FAILED" /\ run'.claim = None
        /\ run'.lapsed = FALSE /\ report' = "none"
    <3>1. run' = Ended("FAILED", "retryable") /\ report' = "none"
      BY <1>7 DEF FailRun
    <3>2. LET u == Ended("FAILED", "retryable")
          IN  u \in Run /\ u.status = "FAILED" /\ u.error = "retryable" /\ u.claim = None /\ u.lapsed = FALSE
      BY DEF Ended, Run, Statuses, Errors
    <3> QED BY <3>1, <3>2
  <2>2. KnowsOK(w, j)'
    BY <1>5 DEF KnowsOK
  <2>3. ASSUME ~disrupted, NEW v \in Workers \ {w} PROVE KnowsOK(v, work[v])'
    <3>1. work'[v] = work[v]
      BY <1>4 DEF DInv, TypeOK
    <3> QED BY <1>7, <2>3, <3>1, OthersKnowNothing DEF KnowsOK
  <2>4. CompletedIsWhole'
    BY <2>1 DEF CompletedIsWhole
  <2> QED BY <1>1, <1>4, <1>5, <2>1, <2>2, <2>3, <2>4, ChangeHolds DEF DInv, TypeOK, Reports
<1> QED BY <1>6, <1>7

-----------------------------------------------------------------------------
(* Users, requests and time.                                               *)

\* What a step that moves no worker and no job has to show.
LEMMA RunHolds ==
  ASSUME DInv, UNCHANGED <<work, qjob, pass, faults, disrupted>>,
         request' \in [Requests -> {"idle", "creating", "joining", "failing"}],
         run' \in Run, run'.status = "RUNNING" <=> run'.claim # None,
         run'.lapsed => run'.status = "RUNNING", report' \in Reports,
         ~disrupted => \A v \in Workers : KnowsOK(v, work[v])',
         CompletedIsWhole'
  PROVE  DInv'
<1>1. TypeOK'
  BY DEF DInv, TypeOK
<1>2. QueueOK'
  BY DEF DInv, QueueOK, Locked
<1>3. ExecOK'
  BY DEF DInv, ExecOK, OneExecutor, Executing
<1> QED BY <1>1, <1>2, <1>3 DEF DInv

\* A run that is new, or failed before it was queued, has no worker.
LEMMA EnqueueHolds ==
  ASSUME DInv, NEW r \in Requests, CreateOrGetRun(r) \/ FailUnqueued(r)
  PROVE  DInv'
<1>1. UNCHANGED <<report, qjob, work, pass, faults, disrupted>>
  BY DEF CreateOrGetRun, FailUnqueued
<1>2. request' \in [Requests -> {"idle", "creating", "joining", "failing"}]
  BY DEF CreateOrGetRun, FailUnqueued, Asks, DInv, TypeOK
<1>3. CASE run' = run
  BY <1>1, <1>2, <1>3, RunHolds
     DEF DInv, TypeOK, ExecOK, KnowsOK, Mine, Owns, Over, HasReport, CompletedIsWhole
<1>4. CASE run' # run
  <2>1. run.status \in {"ABSENT", "PENDING"} /\ run.claim = None /\ run.lapsed = FALSE
    BY <1>4 DEF CreateOrGetRun, FailUnqueued, DInv, TypeOK, Run
  <2>2. /\ run' \in Run /\ run'.status \in {"PENDING", "FAILED"}
        /\ run'.claim = None /\ run'.lapsed = FALSE
    <3>1. CASE CreateOrGetRun(r)
      <4>1. run' = [run EXCEPT !.status = "PENDING"]
        BY <1>4, <3>1 DEF CreateOrGetRun
      <4> QED BY <2>1, <4>1 DEF DInv, TypeOK, Run, Statuses
    <3>2. CASE FailUnqueued(r)
      <4>1. run' = Ended("FAILED", "queue")
        BY <1>4, <3>2 DEF FailUnqueued
      <4>2. LET u == Ended("FAILED", "queue")
            IN  u \in Run /\ u.status = "FAILED" /\ u.error = "queue" /\ u.claim = None /\ u.lapsed = FALSE
        BY DEF Ended, Run, Statuses, Errors
      <4> QED BY <4>1, <4>2
    <3> QED BY <3>1, <3>2
  <2>3. ~disrupted => \A v \in Workers : KnowsOK(v, work[v])'
    BY <1>1, <2>1 DEF DInv, ExecOK, KnowsOK, Mine, Owns, Over
  <2>4. CompletedIsWhole'
    BY <2>2 DEF CompletedIsWhole
  <2> QED BY <1>1, <1>2, <2>2, <2>3, <2>4, RunHolds DEF DInv, TypeOK
<1> QED BY <1>3, <1>4

\* cancel(), the deletion of a report, and the end of a lease.
LEMMA UserHolds == ASSUME DInv, Cancel \/ DeleteReport \/ LeaseLapses PROVE DInv'
<1>1. UNCHANGED <<qjob, work, request, pass, faults, disrupted>>
  BY DEF Cancel, DeleteReport, LeaseLapses
<1>2. CASE Cancel
  <2>1. /\ run' \in Run /\ run'.status = "CANCELLED" /\ run'.claim = None
        /\ run'.lapsed = FALSE /\ report' = "none"
    <3>1. run' = Ended("CANCELLED", run.error) /\ report' = "none"
      BY <1>2 DEF Cancel
    <3>2. LET u == Ended("CANCELLED", run.error)
          IN  u \in Run /\ u.status = "CANCELLED" /\ u.error = run.error /\ u.claim = None /\ u.lapsed = FALSE
      BY DEF Ended, Run, Statuses, DInv, TypeOK
    <3> QED BY <3>1, <3>2
  <2>2. \A v \in Workers : KnowsOK(v, work[v])'
    BY <2>1 DEF KnowsOK, Mine, Owns, Over
  <2>3. CompletedIsWhole'
    BY <2>1 DEF CompletedIsWhole
  <2> QED BY <1>1, <2>1, <2>2, <2>3, RunHolds DEF DInv, TypeOK, Reports
<1>3. CASE DeleteReport
  <2>1. UNCHANGED run /\ report' = "removed" /\ run.status = "COMPLETED"
    BY <1>3 DEF DeleteReport
  <2>2. ~disrupted => \A v \in Workers : KnowsOK(v, work[v])'
    BY <1>1, <2>1 DEF DInv, ExecOK, KnowsOK, Mine, Owns, Over
  <2>3. CompletedIsWhole'
    BY <2>1 DEF CompletedIsWhole
  <2> QED BY <1>1, <2>1, <2>2, <2>3, RunHolds DEF DInv, TypeOK, Reports
<1>4. CASE LeaseLapses
  <2>1. /\ UNCHANGED report /\ run' \in Run /\ run.status = "RUNNING"
        /\ run'.status = run.status /\ run'.claim = run.claim /\ run'.error = run.error
    BY <1>4 DEF LeaseLapses, DInv, TypeOK, Run
  <2>2. ~disrupted => \A v \in Workers : KnowsOK(v, work[v])'
    BY <1>1, <2>1 DEF DInv, ExecOK, KnowsOK, Mine, Owns, Over, HasReport
  <2>3. CompletedIsWhole'
    BY <2>1 DEF CompletedIsWhole
  <2> QED BY <1>1, <2>1, <2>2, <2>3, RunHolds DEF DInv, TypeOK
<1> QED BY <1>2, <1>3, <1>4

-----------------------------------------------------------------------------
(* Theorems.                                                               *)

\* Every step keeps the invariant.
LEMMA StepHolds == DInv /\ [Next]_vars => DInv'
<1> SUFFICES ASSUME DInv, [Next]_vars PROVE DInv'
  OBVIOUS
<1>1. ASSUME NEW r \in Requests,
             CreateOrGetRun(r) \/ AddQueueJob(r) \/ AddFails(r) \/ FailUnqueued(r) \/ ServerDies(r)
      PROVE  DInv'
  BY <1>1, EnqueueHolds, RequestHolds
<1>2. ASSUME NEW c \in Passes, PassStep(c) \/ PassFails(c) PROVE DInv'
  BY <1>2, PassHolds
<1>3. ASSUME NEW w \in Workers, Fetch(w) \/ Step(w) \/ DatabaseFails(w) \/ Crash(w)
      PROVE  DInv'
  BY <1>3, FetchHolds, LeaveHolds, ReadHolds, LookHolds, DeletionHolds, FailScopeHolds,
     ClaimHolds, ArchiveHolds, CompleteHolds, FailRunHolds DEF Step
<1>4. ASSUME UNCHANGED vars PROVE DInv'
  BY <1>4 DEF vars, DInv, TypeOK, QueueOK, Locked, ExecOK, KnowsOK, Mine, Owns, Over, HasReport,
              OneExecutor, Executing, CompletedIsWhole
<1> QED BY <1>1, <1>2, <1>3, <1>4, QueueHolds, UserHolds DEF Next

\* The invariant of the specification.
THEOREM ResearchInvariant == Spec => []DInv
<1> QED BY InitHolds, StepHolds, PTL DEF Spec

\* Types: a run has a claim and a lease exactly while it is RUNNING.
THEOREM ResearchTypeCorrect == Spec => []TypeOK
<1>1. DInv => TypeOK
  BY DEF DInv
<1> QED BY <1>1, ResearchInvariant, PTL

\* Neither stalls, retries nor reconciliation start the research twice, as
\* long as no worker outlives its lease or its job.
THEOREM ExecutedByOne == Spec => []OneExecutor
<1>1. DInv => OneExecutor
  BY DEF DInv, ExecOK
<1> QED BY <1>1, ResearchInvariant, PTL

\* What a user's cancellation overtakes is deleted, unless something fails.
THEOREM CancelledIsClean == Spec => []CancelledLeavesNothing
<1>1. Init => CancelledLeavesNothing
  BY DEF Init, CancelledLeavesNothing
<1>2. DInv /\ CancelledLeavesNothing /\ [Next]_vars => CancelledLeavesNothing'
  <2> SUFFICES ASSUME DInv, CancelledLeavesNothing, [Next]_vars,
                      run'.status = "CANCELLED", HasReport', faults' = 0
               PROVE  \E w \in Workers :
                        work'[w].stage \in {"completing", "overruled", "checking", "deleting"}
    BY DEF CancelledLeavesNothing
  <2> DEFINE Deletes(w) == work[w].stage \in {"completing", "overruled", "checking", "deleting"}
  <2>1. ~Fault
    BY ResearchAssumption DEF Fault, DInv, TypeOK
  <2>2. ASSUME UNCHANGED <<run, report, faults>>, NEW w \in Workers, ~Deletes(w),
               \A v \in Workers \ {w} : work'[v] = work[v]
        PROVE  \E v \in Workers : Deletes(v)'
    BY <2>2 DEF CancelledLeavesNothing, HasReport
  <2>3. ASSUME UNCHANGED <<run, report, faults, work>> PROVE \E v \in Workers : Deletes(v)'
    BY <2>3 DEF CancelledLeavesNothing, HasReport
  <2>4. ASSUME NEW w \in Workers, Fetch(w) \/ Step(w)
        PROVE  \E v \in Workers : Deletes(v)'
    <3>1. \A v \in Workers \ {w} : work'[v] = work[v]
      BY <2>4 DEF Step, Fetch, Return, Throw, ReadRun, CleanUp, FailScope, Claim, LookForReport,
                  Archive, ResearchFails, Complete, Overruled, CheckDelete, Delete, FailRun, Goes,
                  GoesOn, DInv, TypeOK
    <3>2. CASE Fetch(w) \/ Return(w) \/ Throw(w) \/ ReadRun(w) \/ LookForReport(w)
      <4>1. ~Deletes(w) /\ UNCHANGED <<run, report, faults>>
        BY <3>2 DEF Fetch, Return, Throw, ReadRun, LookForReport, Idle
      <4> QED BY <2>2, <3>1, <4>1
    <3>3. CASE CleanUp(w) \/ Overruled(w) \/ Delete(w)
      BY <3>3 DEF CleanUp, Overruled, Delete, HasReport
    <3>4. CASE FailScope(w) \/ Claim(w) \/ FailRun(w)
      <4>1. ~Deletes(w) /\ UNCHANGED <<run, report, faults>>
        BY <3>4 DEF FailScope, Claim, FailRun, Ended, HasReport
      <4> QED BY <2>2, <3>1, <4>1
    <3>5. CASE ResearchFails(w)
      <4>1. ~Deletes(w) /\ UNCHANGED <<run, report, faults>>
        BY <2>1, <3>5 DEF ResearchFails
      <4> QED BY <2>2, <3>1, <4>1
    <3>6. CASE Archive(w) \/ Complete(w) \/ CheckDelete(w)
      <4>1. work[w] \in Work
        BY <3>6 DEF Archive, Complete, CheckDelete, Idle, DInv, TypeOK
      <4>2. Deletes(w)'
        <5>1. CASE Archive(w)
          BY <4>1, <5>1 DEF Archive, Work, DInv, TypeOK
        <5>2. CASE Complete(w) \/ CheckDelete(w)
          <6>1. run.status = "CANCELLED"
            BY <5>2 DEF Complete, CheckDelete, Ended
          <6>2. Goes(w, "checking") \/ Goes(w, "overruled") \/ Goes(w, "deleting")
            BY <4>1, <5>2, <6>1 DEF Complete, CheckDelete, Work
          <6> QED BY <4>1, <6>2 DEF Goes, Work, DInv, TypeOK
        <5> QED BY <3>6, <5>1, <5>2
      <4> QED BY <4>2
    <3> QED BY <2>4, <3>2, <3>3, <3>4, <3>5, <3>6 DEF Step
  <2>5. ASSUME NEW r \in Requests,
               CreateOrGetRun(r) \/ AddQueueJob(r) \/ AddFails(r) \/ FailUnqueued(r) \/ ServerDies(r)
        PROVE  UNCHANGED <<run, report, faults, work>>
    BY <2>1, <2>5 DEF CreateOrGetRun, AddQueueJob, AddFails, FailUnqueued, ServerDies, Ended,
                      DInv, TypeOK, Run
  <2>6. ASSUME NEW c \in Passes, PassStep(c) \/ PassFails(c)
        PROVE  UNCHANGED <<run, report, faults, work>>
    BY <2>1, <2>6 DEF PassStep, PassFails, Scan, LookAtJob, Remove, AddAgain
  <2>7. ASSUME NEW w \in Workers, DatabaseFails(w) \/ Crash(w) PROVE FALSE
    BY <2>1, <2>7 DEF DatabaseFails, Crash
  <2>8. ASSUME TakeBack \/ LoseLock \/ Forget \/ UNCHANGED vars
        PROVE  UNCHANGED <<run, report, faults, work>>
    BY <2>1, <2>8 DEF TakeBack, LoseLock, Forget, vars
  <2>9. ~Cancel /\ ~DeleteReport /\ ~LeaseLapses
    BY DEF Cancel, DeleteReport, LeaseLapses, HasReport, DInv, TypeOK, Run
  <2> QED BY <2>3, <2>4, <2>5, <2>6, <2>7, <2>8, <2>9 DEF Next
<1> QED BY <1>1, <1>2, ResearchInvariant, PTL DEF Spec

\* An ended run changes only when an attempt tries a failed research again.
LEMMA EndedStep ==
  ASSUME [Next]_vars, run.status \in Terminal, run' # run
  PROVE  run.error = "retryable" /\ run.status = "FAILED" /\ run'.status = "RUNNING"
<1>1. run.status \notin {"ABSENT", "PENDING", "RUNNING"}
  BY DEF Terminal
<1>2. ASSUME NEW w \in Workers, Claim(w)
      PROVE  run.error = "retryable" /\ run.status = "FAILED" /\ run'.status = "RUNNING"
  BY <1>1, <1>2 DEF Claim, MayRestart
<1>3. ASSUME NEW w \in Workers, FailScope(w) \/ Complete(w) \/ FailRun(w) PROVE FALSE
  BY <1>1, <1>3 DEF FailScope, Complete, FailRun, Waits, Owns
<1>4. ASSUME NEW r \in Requests, CreateOrGetRun(r) \/ FailUnqueued(r) PROVE FALSE
  BY <1>1, <1>4 DEF CreateOrGetRun, FailUnqueued
<1>5. ASSUME Cancel \/ LeaseLapses PROVE FALSE
  BY <1>1, <1>5 DEF Cancel, LeaseLapses
<1>6. ASSUME NEW w \in Workers,
             \/ Fetch(w) \/ DatabaseFails(w) \/ Crash(w) \/ Return(w) \/ Throw(w)
             \/ ReadRun(w) \/ CleanUp(w) \/ LookForReport(w) \/ Archive(w)
             \/ ResearchFails(w) \/ Overruled(w) \/ CheckDelete(w) \/ Delete(w)
      PROVE  FALSE
  BY <1>6 DEF Fetch, DatabaseFails, Crash, Return, Throw, ReadRun, CleanUp,
                    LookForReport, Archive, ResearchFails, Overruled, CheckDelete, Delete
<1>7. ASSUME NEW r \in Requests, AddQueueJob(r) \/ AddFails(r) \/ ServerDies(r) PROVE FALSE
  BY <1>7 DEF AddQueueJob, AddFails, ServerDies
<1>8. ASSUME NEW c \in Passes, PassStep(c) \/ PassFails(c) PROVE FALSE
  BY <1>8 DEF PassStep, PassFails, Scan, LookAtJob, Remove, AddAgain
<1>9. ASSUME \/ TakeBack \/ LoseLock \/ Forget \/ DeleteReport \/ UNCHANGED vars PROVE FALSE
  BY <1>9 DEF TakeBack, LoseLock, Forget, DeleteReport, vars
<1> QED BY <1>2, <1>3, <1>4, <1>5, <1>6, <1>7, <1>8, <1>9 DEF Next, Step

\* An ended run changes only when an attempt tries a failed research again.
THEOREM EndedForGood == Spec => EndedStays
<1>1. [Next]_vars => [run.status \in Terminal /\ run' # run =>
                       run.error = "retryable" /\ run.status = "FAILED" /\ run'.status = "RUNNING"]_vars
  BY EndedStep
<1> QED BY <1>1, PTL DEF Spec, EndedStays

\* How the steps of a worker write its record.
LEMMA StageIs ==
  ASSUME TypeOK, NEW w \in Workers, NEW s, NEW r, NEW b,
         \/ work' = [work EXCEPT ![w].stage = s]
         \/ work' = [work EXCEPT ![w].stage = s, ![w].retry = r]
         \/ work' = [work EXCEPT ![w].stage = s, ![w].partial = b]
         \/ work' = [work EXCEPT ![w] = [stage |-> s, retry |-> r, partial |-> b]]
  PROVE  work'[w].stage = s /\ \A v \in Workers \ {w} : work'[v] = work[v]
<1>1. work[w] \in Work \/ work[w] = Idle
  BY DEF TypeOK
<1>2. CASE work[w] \in Work
  BY <1>2 DEF TypeOK, Work
<1>3. CASE work[w] = Idle
  BY <1>3 DEF TypeOK, Idle
<1> QED BY <1>1, <1>2, <1>3

\* A worker goes to such a clean-up only when it reads the run as CANCELLED.
LEMMA CleaningStep ==
  ASSUME TypeOK, [Next]_vars, NEW w \in Workers,
         work'[w].stage \in {"cleaning", "overruled"},
         work[w].stage \notin {"cleaning", "overruled"}
  PROVE  run.status = "CANCELLED"
<1>1. PICK v \in Workers : Fetch(v) \/ Step(v) \/ DatabaseFails(v) \/ Crash(v)
  BY DEF Next, CreateOrGetRun, AddQueueJob, AddFails, FailUnqueued, ServerDies, PassStep, PassFails,
         Scan, LookAtJob, Remove, AddAgain, TakeBack, LoseLock, Forget, Cancel, DeleteReport,
         LeaseLapses, vars
<1>2. ASSUME NEW s \in {"fetched", "checked", "claimed", "researching", "completing", "checking",
                        "deleting", "failing", "done", "thrown"}, NEW r, NEW b,
             \/ work' = [work EXCEPT ![v].stage = s]
             \/ work' = [work EXCEPT ![v].stage = s, ![v].retry = r]
             \/ work' = [work EXCEPT ![v].stage = s, ![v].partial = b]
             \/ work' = [work EXCEPT ![v] = [stage |-> s, retry |-> r, partial |-> b]]
      PROVE  FALSE
  BY <1>2, StageIs
<1>3. CASE Return(v) \/ Throw(v) \/ Crash(v)
  BY <1>3 DEF Return, Throw, Crash, Idle, TypeOK
<1>4. CASE CleanUp(v) \/ FailScope(v) \/ Overruled(v) \/ Delete(v)
  BY <1>2, <1>4 DEF CleanUp, FailScope, Overruled, Delete, Goes
<1>5. CASE Claim(v) \/ CheckDelete(v)
  <2>1. PICK s \in {"claimed", "done", "deleting", "failing"} :
          \/ work' = [work EXCEPT ![v].stage = s]
          \/ work' = [work EXCEPT ![v].stage = s, ![v].retry = FALSE]
    BY <1>5 DEF Claim, CheckDelete, Goes, GoesOn
  <2> QED BY <1>2, <2>1
<1>6. CASE Fetch(v)
  BY <1>2, <1>6 DEF Fetch
<1>7. CASE LookForReport(v) \/ Archive(v) \/ ResearchFails(v) \/ FailRun(v) \/ DatabaseFails(v)
  <2>1. PICK s \in {"researching", "completing", "checking", "thrown"}, b \in BOOLEAN :
          work' = [work EXCEPT ![v].stage = s, ![v].partial = b]
    <3>1. CASE LookForReport(v)
      <4>1. PICK b \in BOOLEAN : b = (report = "partial")
        OBVIOUS
      <4> QED BY <3>1, <4>1 DEF LookForReport
    <3>2. CASE Archive(v)
      <4>1. PICK found \in {"whole", "partial"} :
              work' = [work EXCEPT ![v].stage = "completing", ![v].partial = (found = "partial")]
        BY <3>2 DEF Archive
      <4>2. PICK b \in BOOLEAN : b = (found = "partial")
        OBVIOUS
      <4> QED BY <4>1, <4>2
    <3>3. CASE ResearchFails(v) \/ FailRun(v) \/ DatabaseFails(v)
      BY <3>3 DEF ResearchFails, FailRun, DatabaseFails
    <3> QED BY <1>7, <3>1, <3>2, <3>3
  <2> QED BY <1>2, <2>1
<1>8. CASE ReadRun(v)
  <2> DEFINE retry == work[v].retry /\ run.status = "RUNNING"
  <2>1. PICK s \in {"cleaning", "checked", "thrown", "done"} :
          /\ s = "cleaning" => run.status = "CANCELLED"
          /\ work' = [work EXCEPT ![v].stage = s, ![v].retry = (retry /\ s = "checked")]
    BY <1>8 DEF ReadRun, TypeOK, Run, Statuses
  <2> QED BY <2>1, StageIs
<1>9. CASE Complete(v)
  <2>1. PICK s \in {"checking", "overruled", "done"} :
          /\ s = "overruled" => run.status = "CANCELLED"
          /\ work' = [work EXCEPT ![v].stage = s]
    BY <1>9 DEF Complete, Goes, TypeOK, Work, Idle
  <2> QED BY <2>1, StageIs
<1> QED BY <1>1, <1>3, <1>4, <1>5, <1>6, <1>7, <1>8, <1>9 DEF Step

\* A worker that cleans up after a cancellation has seen the run CANCELLED.
CleansCancelled ==
  \A w \in Workers : work[w].stage \in {"cleaning", "overruled"} => run.status = "CANCELLED"

\* The report of a completed run is taken away by the user, or by the deletion
\* of a worker that was overtaken.
LEMMA ReportTaken ==
  ASSUME DInv, CleansCancelled, [Next]_vars,
         run.status = "COMPLETED", HasReport, ~HasReport'
  PROVE  report' = "removed" \/ (disrupted /\ \E w \in Workers : Delete(w))
<1>1. ASSUME NEW w \in Workers, Delete(w) PROVE disrupted
  <2>1. ~Mine(w)
    BY DEF Mine, Owns, Over
  <2> QED BY <1>1, <2>1 DEF Delete, DInv, ExecOK, KnowsOK
<1>2. ASSUME NEW w \in Workers, CleanUp(w) \/ Overruled(w) PROVE FALSE
  BY <1>2 DEF CleanUp, Overruled, CleansCancelled
<1>3. ASSUME NEW w \in Workers, FailScope(w) \/ FailRun(w) PROVE FALSE
  BY <1>3 DEF FailScope, FailRun, Waits, Owns, HasReport
<1>4. ASSUME NEW w \in Workers,
             \/ Fetch(w) \/ Return(w) \/ Throw(w) \/ ReadRun(w) \/ Claim(w) \/ LookForReport(w)
             \/ Archive(w) \/ ResearchFails(w) \/ Complete(w) \/ CheckDelete(w)
             \/ DatabaseFails(w) \/ Crash(w)
      PROVE  FALSE
  BY <1>4 DEF Fetch, Return, Throw, ReadRun, Claim, LookForReport, Archive, ResearchFails,
              Complete, CheckDelete, DatabaseFails, Crash, HasReport
<1>5. ASSUME NEW r \in Requests,
             CreateOrGetRun(r) \/ AddQueueJob(r) \/ AddFails(r) \/ FailUnqueued(r) \/ ServerDies(r)
      PROVE  FALSE
  BY <1>5 DEF CreateOrGetRun, AddQueueJob, AddFails, FailUnqueued, ServerDies, HasReport
<1>6. ASSUME NEW c \in Passes, PassStep(c) \/ PassFails(c) PROVE FALSE
  BY <1>6 DEF PassStep, PassFails, Scan, LookAtJob, Remove, AddAgain, HasReport
<1>7. ASSUME TakeBack \/ LoseLock \/ Forget \/ Cancel \/ LeaseLapses \/ UNCHANGED vars PROVE FALSE
  BY <1>7 DEF TakeBack, LoseLock, Forget, Cancel, LeaseLapses, vars, HasReport
<1>8. ASSUME DeleteReport PROVE report' = "removed"
  BY <1>8 DEF DeleteReport
<1> QED BY <1>1, <1>2, <1>3, <1>4, <1>5, <1>6, <1>7, <1>8 DEF Next, Step

\* A completed run keeps its whole report until the user removes it, or a
\* deletion overtakes it whose check is of an earlier execution.
THEOREM CompletedWhole == Spec => WholeUntilRemoved
<1>1. DInv => CompletedIsWhole
  BY DEF DInv, ExecOK
<1>2. Init => CleansCancelled
  BY DEF Init, CleansCancelled, Idle
<1>3. DInv /\ CleansCancelled /\ [Next]_vars => CleansCancelled'
  <2> SUFFICES ASSUME DInv, CleansCancelled, [Next]_vars, NEW w \in Workers,
                      work'[w].stage \in {"cleaning", "overruled"}
               PROVE  run'.status = "CANCELLED"
    BY DEF CleansCancelled
  <2>1. run.status = "CANCELLED"
    BY CleaningStep DEF CleansCancelled, DInv
  <2>2. run' = run
    BY <2>1, EndedStep DEF Terminal
  <2> QED BY <2>1, <2>2
<1>4. DInv /\ CleansCancelled /\ [Next]_vars =>
        [run.status = "COMPLETED" /\ HasReport /\ ~HasReport' =>
           report' = "removed" \/ (disrupted /\ \E w \in Workers : Delete(w))]_vars
  BY ReportTaken
<1> QED BY <1>1, <1>2, <1>3, <1>4, ResearchInvariant, PTL DEF Spec, WholeUntilRemoved

-----------------------------------------------------------------------------
(* The claim implements LeaseContract.  Types are all it takes: what the   *)
(* contract promises does not depend on who is alone.                      *)

\* The first state has no holders.
LEMMA LeaseInit == Init => Lease!Init
  BY DEF Init, Lease!Init, Phases, Places, Holders, PhaseOf, TheRun, AtWork, AtWorkStages, Idle

\* The run, who is at it, and who holds it stay.
LEMMA LeaseStutter ==
  ASSUME PhaseOf(run') = PhaseOf(run), run'.claim = run.claim,
         (run'.status = "RUNNING") <=> (run.status = "RUNNING"),
         \A w \in Workers : AtWork(w)' <=> AtWork(w)
  PROVE  UNCHANGED Lease!leaseVars
<1>1. Phases' = Phases /\ Places' = Places
  BY DEF Phases, Places, TheRun
<1>2. \A w \in Workers : Owns(w)' <=> Owns(w)
  BY DEF Owns
<1>3. Holders' = Holders
  BY <1>2 DEF Holders, TheRun
<1> QED BY <1>1, <1>3 DEF Lease!leaseVars

\* A worker goes on, or leaves the run as it is.
LEMMA LeaseLeft ==
  ASSUME UNCHANGED run, NEW w \in Workers, AtWork(w)' => AtWork(w),
         \A v \in Workers \ {w} : work'[v] = work[v]
  PROVE  [Lease!Next]_(Lease!leaseVars)
<1>1. \A v \in Workers \ {w} : AtWork(v)' <=> AtWork(v)
  BY DEF AtWork, AtWorkStages
<1>2. CASE AtWork(w)' <=> AtWork(w)
  BY <1>1, <1>2, LeaseStutter
<1>3. CASE AtWork(w) /\ ~AtWork(w)'
  <2>1. \A v \in Workers : Owns(v)' <=> Owns(v)
    BY DEF Owns
  <2>2. Places' = [Places EXCEPT ![w] = None] /\ Places[w] = "run"
    BY <1>1, <1>3 DEF Places
  <2>3. Holders' = [Holders EXCEPT !["run"] = Holders["run"] \ {w}]
    <3>1. {v \in Workers : AtWork(v) /\ Owns(v)}' = {v \in Workers : AtWork(v) /\ Owns(v)} \ {w}
      BY <1>1, <1>3, <2>1
    <3> QED BY <3>1 DEF Holders, TheRun
  <2>4. UNCHANGED Phases
    BY DEF Phases
  <2>5. Lease!Leave(w, "run")
    BY <2>2, <2>3, <2>4 DEF Lease!Leave
  <2> QED BY <2>5 DEF Lease!Next, TheRun
<1> QED BY <1>2, <1>3

\* The run becomes something else, and its holders others.
LEMMA LeaseBecomes ==
  ASSUME NEW H, {v \in Workers : AtWork(v) /\ Owns(v)}' = H
  PROVE  Lease!Becomes("run", PhaseOf(run'), H)
<1>1. Phases' = [Phases EXCEPT !["run"] = PhaseOf(run')]
  BY DEF Phases, TheRun
<1>2. Holders' = [Holders EXCEPT !["run"] = H]
  BY DEF Holders, TheRun
<1> QED BY <1>1, <1>2 DEF Lease!Becomes

\* Somebody drops the run.
LEMMA LeaseDropped ==
  ASSUME run.status \in {"PENDING", "RUNNING"},
         run'.status = "CANCELLED" \/ (run'.status = "FAILED" /\ run'.error # "retryable"),
         \A w \in Workers : AtWork(w)' <=> AtWork(w)
  PROVE  Lease!Next
<1>1. PhaseOf(run') = "dropped"
  BY DEF PhaseOf, MayRestart
<1>2. {v \in Workers : AtWork(v) /\ Owns(v)}' = {}
  BY DEF Owns
<1>3. Lease!Becomes("run", "dropped", {})
  BY <1>1, <1>2, LeaseBecomes
<1>4. Phases["run"] \in {"open", "held"} /\ UNCHANGED Places
  BY DEF Phases, TheRun, PhaseOf, Places
<1>5. Lease!Drop("run")
  BY <1>3, <1>4 DEF Lease!Drop
<1> QED BY <1>5 DEF Lease!Next, TheRun

\* A worker that holds the run ends it.
LEMMA LeaseEnded ==
  ASSUME NEW w \in Workers, AtWork(w), Owns(w),
         \A v \in Workers \ {w} : work'[v] = work[v],
         \/ run'.status = "COMPLETED" /\ ~AtWork(w)'
         \/ run'.status = "FAILED" /\ run'.error = "retryable"
  PROVE  Lease!Next
<1>1. {v \in Workers : AtWork(v) /\ Owns(v)}' = {}
  BY DEF Owns
<1>2. Lease!Becomes("run", PhaseOf(run'), {})
  BY <1>1, LeaseBecomes
<1>3. Places[w] = "run" /\ w \in Holders["run"]
  BY DEF Places, Holders, TheRun
<1>4. \A v \in Workers \ {w} : AtWork(v)' <=> AtWork(v)
  BY DEF AtWork, AtWorkStages
<1>5. Places' = Places \/ Places' = [Places EXCEPT ![w] = None]
  BY <1>4 DEF Places
<1>6. ~AtWork(w)' => Places' = [Places EXCEPT ![w] = None]
  BY <1>4 DEF Places
<1>7. CASE run'.status = "COMPLETED" /\ ~AtWork(w)'
  <2>1. PhaseOf(run') = "done"
    BY <1>7 DEF PhaseOf, MayRestart
  <2>2. Lease!Finish(w, "run")
    BY <1>2, <1>3, <1>6, <1>7, <2>1 DEF Lease!Finish
  <2> QED BY <2>2 DEF Lease!Next, TheRun
<1>8. CASE run'.status = "FAILED" /\ run'.error = "retryable"
  <2>1. PhaseOf(run') = "open"
    BY <1>8 DEF PhaseOf, MayRestart
  <2>2. Lease!GiveBack(w, "run")
    BY <1>2, <1>3, <1>5, <2>1 DEF Lease!GiveBack
  <2> QED BY <2>2 DEF Lease!Next, TheRun
<1> QED BY <1>7, <1>8

\* A claim grants the run to the worker, whoever is still at it.
LEMMA LeaseClaimed ==
  ASSUME TypeOK, NEW w \in Workers, Claim(w)
  PROVE  [Lease!Next]_(Lease!leaseVars)
<1>1. ~AtWork(w)
  BY DEF Claim, AtWork, AtWorkStages
<1>2. CASE UNCHANGED run /\ GoesOn(w, "done")
  <2>1. work'[w].stage = "done" /\ \A v \in Workers \ {w} : work'[v] = work[v]
    BY <1>2, StageIs DEF GoesOn
  <2>2. ~AtWork(w)'
    BY <2>1 DEF AtWork, AtWorkStages
  <2> QED BY <1>2, <2>1, <2>2, LeaseLeft
<1>3. CASE /\ run' = [status |-> "RUNNING", error |-> None, claim |-> w, lapsed |-> FALSE]
           /\ GoesOn(w, "claimed")
           /\ MayRestart(run) \/ run.status = "RUNNING"
  <2>1. work'[w].stage = "claimed" /\ \A v \in Workers \ {w} : work'[v] = work[v]
    BY <1>3, StageIs DEF GoesOn
  <2>2. AtWork(w)'
    BY <2>1 DEF AtWork, AtWorkStages
  <2>3. \A v \in Workers \ {w} : AtWork(v)' <=> AtWork(v)
    BY <2>1 DEF AtWork, AtWorkStages
  <2>4. \A v \in Workers : Owns(v)' <=> v = w
    BY <1>3 DEF Owns
  <2>5. {v \in Workers : AtWork(v) /\ Owns(v)}' = {w}
    BY <2>2, <2>4
  <2>6. PhaseOf(run') = "held"
    BY <1>3 DEF PhaseOf, MayRestart
  <2>7. Lease!Becomes("run", "held", {w})
    BY <2>5, <2>6, LeaseBecomes
  <2>8. Places' = [Places EXCEPT ![w] = "run"] /\ Places[w] = None
    BY <1>1, <2>2, <2>3 DEF Places
  <2>9. Phases["run"] \in {"open", "held"}
    BY <1>3 DEF Phases, TheRun, PhaseOf, MayRestart
  <2>10. Lease!Grant(w, "run")
    BY <2>7, <2>8, <2>9 DEF Lease!Grant
  <2> QED BY <2>10 DEF Lease!Next, TheRun
<1> QED BY <1>2, <1>3 DEF Claim

\* A worker that outlived its lease, or was cancelled, completes nothing.
LEMMA LeaseCompleted ==
  ASSUME TypeOK, NEW w \in Workers, Complete(w)
  PROVE  [Lease!Next]_(Lease!leaseVars)
<1>1. PICK s \in {"checking", "overruled", "done"} :
        /\ work' = [work EXCEPT ![w].stage = s]
        /\ Owns(w) /\ ~work[w].partial => s = "done"
  BY DEF Complete, Goes, Owns, TypeOK, Work, Idle
<1>2. work'[w].stage = s /\ \A v \in Workers \ {w} : work'[v] = work[v]
  BY <1>1, StageIs
<1>3. AtWork(w)
  BY DEF Complete, AtWork, AtWorkStages
<1>4. CASE Owns(w) /\ ~work[w].partial
  <2>1. run'.status = "COMPLETED"
    BY <1>4 DEF Complete, Ended
  <2>2. ~AtWork(w)'
    BY <1>1, <1>2, <1>4 DEF AtWork, AtWorkStages
  <2> QED BY <1>2, <1>3, <1>4, <2>1, <2>2, LeaseEnded
<1>5. CASE ~(Owns(w) /\ ~work[w].partial)
  <2>1. UNCHANGED run
    BY <1>5 DEF Complete
  <2> QED BY <1>2, <1>3, <2>1, LeaseLeft
<1> QED BY <1>4, <1>5

\* Nor does it fail anything.
LEMMA LeaseFailed ==
  ASSUME TypeOK, NEW w \in Workers, FailRun(w)
  PROVE  [Lease!Next]_(Lease!leaseVars)
<1>1. \A v \in Workers \ {w} : work'[v] = work[v]
  BY StageIs DEF FailRun
<1>2. AtWork(w)
  BY DEF FailRun, AtWork, AtWorkStages
<1>3. CASE Owns(w)
  <2>1. run'.status = "FAILED" /\ run'.error = "retryable"
    BY <1>3 DEF FailRun, Ended
  <2> QED BY <1>1, <1>2, <1>3, <2>1, LeaseEnded
<1>4. CASE ~Owns(w)
  BY <1>1, <1>2, <1>4, LeaseLeft DEF FailRun
<1> QED BY <1>3, <1>4

\* The other steps of a worker leave the run alone.
LEMMA LeaseWorker ==
  ASSUME TypeOK, NEW w \in Workers,
         \/ Fetch(w) \/ Return(w) \/ Throw(w) \/ ReadRun(w) \/ CleanUp(w)
         \/ LookForReport(w) \/ Archive(w) \/ ResearchFails(w) \/ Overruled(w)
         \/ CheckDelete(w) \/ Delete(w) \/ DatabaseFails(w) \/ Crash(w)
  PROVE  [Lease!Next]_(Lease!leaseVars)
<1>1. UNCHANGED run
  BY DEF Fetch, Return, Throw, ReadRun, CleanUp, LookForReport, Archive, ResearchFails,
         Overruled, CheckDelete, Delete, DatabaseFails, Crash
<1>2. CASE Return(w) \/ Throw(w) \/ Crash(w)
  <2>1. work' = [work EXCEPT ![w] = Idle]
    BY <1>2 DEF Return, Throw, Crash
  <2>2. work'[w] = Idle /\ \A v \in Workers \ {w} : work'[v] = work[v]
    BY <2>1 DEF TypeOK
  <2>3. ~AtWork(w)'
    BY <2>2 DEF AtWork, AtWorkStages, Idle
  <2> QED BY <1>1, <2>2, <2>3, LeaseLeft
<1>3. CASE \/ LookForReport(w) \/ Archive(w) \/ ResearchFails(w) \/ Overruled(w)
           \/ CheckDelete(w) \/ Delete(w)
           \/ DatabaseFails(w) /\ AtWork(w)
  <2>1. AtWork(w)
    BY <1>3 DEF LookForReport, Archive, ResearchFails, Overruled, CheckDelete, Delete,
                AtWork, AtWorkStages
  <2>2. \A v \in Workers \ {w} : work'[v] = work[v]
    BY <1>3 DEF LookForReport, Archive, ResearchFails, Overruled, CheckDelete, Delete,
                DatabaseFails, Goes, TypeOK
  <2> QED BY <1>1, <2>1, <2>2, LeaseLeft
<1>4. CASE Fetch(w) \/ ReadRun(w) \/ CleanUp(w) \/ (DatabaseFails(w) /\ ~AtWork(w))
  <2>1. PICK s \in {"fetched", "cleaning", "checked", "thrown", "done"}, r \in BOOLEAN, b \in BOOLEAN :
          \/ work' = [work EXCEPT ![w].stage = s]
          \/ work' = [work EXCEPT ![w].stage = s, ![w].retry = r]
          \/ work' = [work EXCEPT ![w].stage = s, ![w].partial = b]
          \/ work' = [work EXCEPT ![w] = [stage |-> s, retry |-> r, partial |-> b]]
    <3>1. CASE Fetch(w)
      <4>1. IsRetry \in BOOLEAN
        BY DEF IsRetry
      <4>2. work' = [work EXCEPT ![w] = [stage |-> "fetched", retry |-> IsRetry, partial |-> FALSE]]
        BY <3>1 DEF Fetch
      <4> QED BY <4>1, <4>2
    <3>2. CASE ReadRun(w)
      <4> DEFINE retry == work[w].retry /\ run.status = "RUNNING"
      <4>1. PICK s \in {"cleaning", "checked", "thrown", "done"} :
              work' = [work EXCEPT ![w].stage = s, ![w].retry = (retry /\ s = "checked")]
        BY <3>2 DEF ReadRun, TypeOK, Run, Statuses
      <4>2. (retry /\ s = "checked") \in BOOLEAN
        OBVIOUS
      <4> HIDE DEF retry
      <4> QED BY <4>1, <4>2
    <3>3. CASE CleanUp(w)
      BY <3>3 DEF CleanUp, Goes
    <3>4. CASE DatabaseFails(w) /\ ~AtWork(w)
      BY <3>4 DEF DatabaseFails, CleaningUp, AtWork, AtWorkStages
    <3> QED BY <1>4, <3>1, <3>2, <3>3, <3>4
  <2>2. work'[w].stage = s /\ \A v \in Workers \ {w} : work'[v] = work[v]
    BY <2>1, StageIs
  <2>3. ~AtWork(w)'
    BY <2>2 DEF AtWork, AtWorkStages
  <2> QED BY <1>1, <2>2, <2>3, LeaseLeft
<1> QED BY <1>2, <1>3, <1>4

\* Requests and users.
LEMMA LeaseOthers ==
  ASSUME TypeOK,
         \/ \E r \in Requests : CreateOrGetRun(r) \/ FailUnqueued(r)
         \/ Cancel \/ DeleteReport \/ LeaseLapses
  PROVE  [Lease!Next]_(Lease!leaseVars)
<1>1. \A v \in Workers : AtWork(v)' <=> AtWork(v)
  BY DEF CreateOrGetRun, FailUnqueued, Cancel, DeleteReport, LeaseLapses, AtWork, AtWorkStages
<1>2. CASE UNCHANGED run
  BY <1>1, <1>2, LeaseStutter
<1>3. CASE run' # run /\ \E r \in Requests : CreateOrGetRun(r)
  <2>1. run.status = "ABSENT" /\ run' = [run EXCEPT !.status = "PENDING"]
    BY <1>3 DEF CreateOrGetRun
  <2>2. run'.status = "PENDING" /\ run'.claim = run.claim
    BY <2>1 DEF TypeOK, Run
  <2>3. PhaseOf(run') = PhaseOf(run)
    BY <2>1, <2>2 DEF PhaseOf
  <2> QED BY <1>1, <2>1, <2>2, <2>3, LeaseStutter
<1>4. CASE LeaseLapses
  <2>1. run'.status = run.status /\ run'.claim = run.claim /\ run'.error = run.error
    BY <1>4 DEF LeaseLapses, TypeOK, Run
  <2>2. PhaseOf(run') = PhaseOf(run)
    BY <2>1 DEF PhaseOf, MayRestart
  <2> QED BY <1>1, <2>1, <2>2, LeaseStutter
<1>5. CASE run' # run /\ \E r \in Requests : FailUnqueued(r)
  <2>1. run.status = "PENDING" /\ run' = Ended("FAILED", "queue")
    BY <1>5 DEF FailUnqueued
  <2> QED BY <1>1, <2>1, LeaseDropped DEF Ended
<1>6. CASE Cancel
  BY <1>1, <1>6, LeaseDropped DEF Cancel, Ended
<1>7. CASE DeleteReport
  BY <1>2, <1>7 DEF DeleteReport
<1> QED BY <1>2, <1>3, <1>4, <1>5, <1>6, <1>7

\* failRun() without a claim drops the run.
LEMMA LeaseScope ==
  ASSUME TypeOK, NEW w \in Workers, FailScope(w)
  PROVE  [Lease!Next]_(Lease!leaseVars)
<1>1. work'[w].stage = "done" /\ \A v \in Workers \ {w} : work'[v] = work[v]
  BY StageIs DEF FailScope, Goes
<1>2. ~AtWork(w) /\ ~AtWork(w)'
  BY <1>1 DEF FailScope, AtWork, AtWorkStages
<1>3. \A v \in Workers : AtWork(v)' <=> AtWork(v)
  BY <1>1, <1>2 DEF AtWork, AtWorkStages
<1>4. CASE Waits
  <2>1. run.status \in {"PENDING", "RUNNING"} /\ run' = Ended("FAILED", "scope")
    BY <1>4 DEF FailScope, Waits
  <2> QED BY <1>3, <2>1, LeaseDropped DEF Ended
<1>5. CASE ~Waits
  BY <1>1, <1>2, <1>5, LeaseLeft DEF FailScope
<1> QED BY <1>4, <1>5

\* Every step is a step of the contract or one it does not see.
LEMMA LeaseStep ==
  ASSUME TypeOK, [Next]_vars
  PROVE  [Lease!Next]_(Lease!leaseVars)
<1>1. ASSUME UNCHANGED <<run, work>> PROVE [Lease!Next]_(Lease!leaseVars)
  BY <1>1, LeaseStutter DEF AtWork, AtWorkStages
<1>2. ASSUME NEW r \in Requests, AddQueueJob(r) \/ AddFails(r) \/ ServerDies(r)
      PROVE  UNCHANGED <<run, work>>
  BY <1>2 DEF AddQueueJob, AddFails, ServerDies
<1>3. ASSUME NEW c \in Passes, PassStep(c) \/ PassFails(c) PROVE UNCHANGED <<run, work>>
  BY <1>3 DEF PassStep, PassFails, Scan, LookAtJob, Remove, AddAgain
<1>4. ASSUME TakeBack \/ LoseLock \/ Forget \/ UNCHANGED vars PROVE UNCHANGED <<run, work>>
  BY <1>4 DEF TakeBack, LoseLock, Forget, vars
<1>5. ASSUME NEW w \in Workers, Fetch(w) \/ Step(w) \/ DatabaseFails(w) \/ Crash(w)
      PROVE  [Lease!Next]_(Lease!leaseVars)
  BY <1>5, LeaseWorker, LeaseScope, LeaseClaimed, LeaseCompleted, LeaseFailed DEF Step
<1> QED BY <1>1, <1>2, <1>3, <1>4, <1>5, LeaseOthers DEF Next

\* The claim of a run is a lease, however disrupted: a worker that was overtaken
\* neither completes nor fails the run, and a run that is over stays so.
THEOREM ResearchImplementsLease == Spec => ImplementsLease
  BY ResearchTypeCorrect, LeaseInit, LeaseStep, PTL DEF Spec, ImplementsLease, Lease!Spec
=============================================================================
