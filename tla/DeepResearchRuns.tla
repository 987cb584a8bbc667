-------------------------- MODULE DeepResearchRuns --------------------------
(***************************************************************************)
(* Background research of a customer: deep-research-run.service.ts,        *)
(* deep-research.processor.ts and cancel() of agent.service.ts.            *)
(*                                                                         *)
(* One run of one request key, its BullMQ job of a fixed id, and the       *)
(* report that is unique for the run.  The database is the truth and the   *)
(* queue only wakes a worker; a timer puts a run that is PENDING, or whose *)
(* lease ran out, back into the queue.  A worker claims the run and then   *)
(* writes under its claim, but it archives the report by the run's id and  *)
(* deletes it after a check.                                               *)
(*                                                                         *)
(* There is no clock: a lease may run out at any time.  The claim of a     *)
(* worker is its name, for one worker has one execution at a time.         *)
(***************************************************************************)
EXTENDS Naturals

CONSTANTS
  Workers,   \* worker slots of the deep-research queue
  Requests,  \* calls of enqueueForLead() with the same key
  Passes,    \* overlapping passes of reconcilePendingRuns()
  None,      \* SQL NULL
  Attempts,  \* attempts of a queue job
  MaxStalls, \* how often a stalled job is taken back
  MaxFaults  \* bound on crashes, lost locks and errors of the database or Redis

ASSUME ResearchAssumption ==
  /\ Attempts \in Nat \ {0}
  /\ MaxStalls \in Nat
  /\ MaxFaults \in Nat
  /\ None \notin Workers

VARIABLES
  run,       \* AgentRun
  report,    \* DeepResearchReport of the run
  qjob,      \* the BullMQ job agent-run-<id>
  work,      \* what each worker holds
  request,   \* where each call of enqueueForLead() is
  pass,      \* where each reconciliation pass is
  faults,    \* how many faults happened
  disrupted  \* history: a lease was taken over from a live worker, a worker claimed
             \* without its lock, or a job was removed while a worker was at it

vars == <<run, report, qjob, work, request, pass, faults, disrupted>>

Statuses == {"ABSENT", "PENDING", "RUNNING", "COMPLETED", "FAILED", "CANCELLED"}

\* RESEARCH_EXECUTION_FAILED and RESEARCH_PARTIAL_FAILED can be tried again.
Errors == {"retryable", "scope", "queue"}

Run == [status : Statuses, error : Errors \cup {None},
        claim : Workers \cup {None}, lapsed : BOOLEAN]

\* "removed" by the user is absent for the worker.
Reports == {"none", "whole", "partial", "removed"}

QueueJob == [state : {"none", "waiting", "active", "completed", "failed"},
             made : 0 .. Attempts, stalls : 0 .. MaxStalls, holder : Workers \cup {None}]

NoQueueJob == [state |-> "none", made |-> 0, stalls |-> 0, holder |-> None]

Work == [stage : {"fetched", "cleaning", "checked", "claimed", "researching", "completing",
                  "overruled", "checking", "deleting", "failing", "done", "thrown"},
         retry : BOOLEAN, partial : BOOLEAN]

Executing(w) == work[w].stage \in {"claimed", "researching", "completing"}

CleaningUp(w) == work[w].stage \in {"checking", "deleting", "failing"}

Occupied == \E w \in Workers : Executing(w) \/ CleaningUp(w)

Idle == [stage |-> "idle", retry |-> FALSE, partial |-> FALSE]

\* Types; a run has a claim and a lease exactly while it is RUNNING.
TypeOK ==
  /\ run \in Run
  /\ run.status = "RUNNING" <=> run.claim # None
  /\ run.lapsed => run.status = "RUNNING"
  /\ report \in Reports
  /\ qjob \in QueueJob
  /\ work \in [Workers -> Work \cup {Idle}]
  /\ request \in [Requests -> {"idle", "creating", "joining", "failing"}]
  /\ pass \in [Passes -> {"idle", "scanned", "removing", "adding"}]
  /\ faults \in 0 .. MaxFaults
  /\ disrupted \in BOOLEAN

Init ==
  /\ run = [status |-> "ABSENT", error |-> None, claim |-> None, lapsed |-> FALSE]
  /\ report = "none"
  /\ qjob = NoQueueJob
  /\ work = [w \in Workers |-> Idle]
  /\ request = [r \in Requests |-> "idle"]
  /\ pass = [c \in Passes |-> "idle"]
  /\ faults = 0
  /\ disrupted = FALSE

Terminal == {"COMPLETED", "FAILED", "CANCELLED"}

\* A run leaves RUNNING without claim and lease.
Ended(status, error) == [status |-> status, error |-> error, claim |-> None, lapsed |-> FALSE]

HasReport == report \in {"whole", "partial"}

Fault == faults < MaxFaults /\ faults' = faults + 1

\* add() of a job whose id is known, in any state, changes nothing.
Added == IF qjob.state = "none" THEN [NoQueueJob EXCEPT !.state = "waiting"] ELSE qjob

-----------------------------------------------------------------------------
(* enqueueForLead().                                                       *)

Asks(r, stage) == request' = [request EXCEPT ![r] = stage]

CreateOrGetRun(r) ==
  /\ request[r] = "idle"
  /\ \/ /\ run.status = "ABSENT"
        /\ run' = [run EXCEPT !.status = "PENDING"]
        /\ Asks(r, "creating")
     \/ /\ run.status = "PENDING"
        /\ run' = run
        /\ Asks(r, "joining")
  /\ UNCHANGED <<report, qjob, work, pass, faults, disrupted>>

AddQueueJob(r) ==
  /\ request[r] \in {"creating", "joining"}
  /\ qjob' = Added
  /\ Asks(r, "idle")
  /\ UNCHANGED <<run, report, work, pass, faults, disrupted>>

\* Redis refuses, or its answer is lost; the creator goes on to fail the run.
AddFails(r) ==
  /\ request[r] \in {"creating", "joining"}
  /\ Fault
  /\ qjob' \in {qjob, Added}
  /\ Asks(r, IF request[r] = "creating" THEN "failing" ELSE "idle")
  /\ UNCHANGED <<run, report, work, pass, disrupted>>

\* Mutant: the run is failed whatever it has become.
FailUnqueuedAnyhow(r) ==
  /\ request[r] = "failing"
  /\ run' = Ended("FAILED", "queue")
  /\ Asks(r, "idle")
  /\ UNCHANGED <<report, qjob, work, pass, faults, disrupted>>

FailUnqueued(r) ==
  /\ request[r] = "failing"
  /\ run' = IF run.status = "PENDING" THEN Ended("FAILED", "queue") ELSE run
  /\ Asks(r, "idle")
  /\ UNCHANGED <<report, qjob, work, pass, faults, disrupted>>

ServerDies(r) ==
  /\ request[r] # "idle"
  /\ Fault
  /\ Asks(r, "idle")
  /\ UNCHANGED <<run, report, qjob, work, pass, disrupted>>

-----------------------------------------------------------------------------
(* reconcilePendingRuns(): scan, look at the job, remove it, add it.       *)

Passing(c, stage) == pass' = [pass EXCEPT ![c] = stage]

\* Mutant: only runs that never started are put back.
WaitsPending == run.status = "PENDING"

Waits == run.status = "PENDING" \/ (run.status = "RUNNING" /\ run.lapsed)

Scan(c) ==
  /\ pass[c] = "idle"
  /\ Waits
  /\ Passing(c, "scanned")
  /\ UNCHANGED <<run, report, qjob, work, request, faults, disrupted>>

LookAtJob(c) ==
  /\ pass[c] = "scanned"
  /\ Passing(c, CASE qjob.state = "none" -> "adding"
                  [] qjob.state \in {"waiting", "active"} -> "idle"
                  [] qjob.state \in {"completed", "failed"} -> "removing")
  /\ UNCHANGED <<run, report, qjob, work, request, faults, disrupted>>

\* A job that a worker has taken meanwhile is locked: remove() throws.
Remove(c) ==
  /\ pass[c] = "removing"
  /\ IF qjob.state = "active" THEN Passing(c, "idle") /\ UNCHANGED <<qjob, disrupted>>
     ELSE /\ qjob' = NoQueueJob
          /\ disrupted' = (disrupted \/ \E w \in Workers : work[w] # Idle)
          /\ Passing(c, "adding")
  /\ UNCHANGED <<run, report, work, request, faults>>

AddAgain(c) ==
  /\ pass[c] = "adding"
  /\ qjob' = Added
  /\ Passing(c, "idle")
  /\ UNCHANGED <<run, report, work, request, faults, disrupted>>

PassFails(c) ==
  /\ pass[c] # "idle"
  /\ Fault
  /\ qjob' \in {qjob, IF pass[c] = "adding" THEN Added ELSE qjob}
  /\ Passing(c, "idle")
  /\ UNCHANGED <<run, report, work, request, disrupted>>

-----------------------------------------------------------------------------
(* The queue.                                                              *)

Goes(w, stage) == work' = [work EXCEPT ![w].stage = stage]

\* After the claim nobody asks any more whether the attempt is a retry.
GoesOn(w, stage) == work' = [work EXCEPT ![w].stage = stage, ![w].retry = FALSE]

Locked(w) == qjob.state = "active" /\ qjob.holder = w

\* Mutant: a job that was taken back from a worker counts as a retry.
IsRetryAlsoStalled == qjob.made > 0 \/ qjob.stalls > 0

\* isSameJobRetry: an earlier attempt of this very job ended by throwing.
IsRetry == qjob.made > 0 /\ qjob.stalls = 0

Fetch(w) ==
  /\ work[w] = Idle
  /\ qjob.state = "waiting"
  /\ qjob' = [qjob EXCEPT !.state = "active", !.holder = w]
  /\ work' = [work EXCEPT ![w] = [stage |-> "fetched", retry |-> IsRetry, partial |-> FALSE]]
  /\ UNCHANGED <<run, report, request, pass, faults, disrupted>>

\* process() returned; a worker that lost its lock cannot end the job.
Return(w) ==
  /\ work[w].stage = "done"
  /\ qjob' = IF Locked(w) THEN [qjob EXCEPT !.state = "completed", !.holder = None] ELSE qjob
  /\ work' = [work EXCEPT ![w] = Idle]
  /\ UNCHANGED <<run, report, request, pass, faults, disrupted>>

Throw(w) ==
  /\ work[w].stage = "thrown"
  /\ qjob' = IF ~Locked(w) THEN qjob
             ELSE [qjob EXCEPT !.made = @ + 1, !.holder = None,
                               !.state = IF qjob.made + 1 = Attempts THEN "failed" ELSE "waiting"]
  /\ work' = [work EXCEPT ![w] = Idle]
  /\ UNCHANGED <<run, report, request, pass, faults, disrupted>>

Crash(w) ==
  /\ work[w] # Idle
  /\ Fault
  /\ work' = [work EXCEPT ![w] = Idle]
  /\ UNCHANGED <<run, report, qjob, request, pass, disrupted>>

Stalled == IF qjob.stalls = MaxStalls THEN [qjob EXCEPT !.state = "failed", !.holder = None]
           ELSE [qjob EXCEPT !.state = "waiting", !.holder = None, !.stalls = @ + 1]

\* The lock of a dead worker runs out.
TakeBack ==
  /\ qjob.state = "active"
  /\ work[qjob.holder] = Idle
  /\ qjob' = Stalled
  /\ UNCHANGED <<run, report, work, request, pass, faults, disrupted>>

\* A live worker does not renew its lock in time, and goes on.
LoseLock ==
  /\ qjob.state = "active"
  /\ work[qjob.holder] # Idle
  /\ Fault
  /\ qjob' = Stalled
  /\ UNCHANGED <<run, report, work, request, pass, disrupted>>

\* Of the jobs that ended only the last hundred are kept.
Forget ==
  /\ qjob.state \in {"completed", "failed"}
  /\ qjob' = NoQueueJob
  /\ disrupted' = (disrupted \/ \E w \in Workers : work[w] # Idle)
  /\ UNCHANGED <<run, report, work, request, pass, faults>>

-----------------------------------------------------------------------------
(* process(): reading and claiming the run.                                *)

MayRestart(r) == r.status = "PENDING" \/ (r.status = "FAILED" /\ r.error = "retryable")

ReadRun(w) ==
  LET retry == work[w].retry /\ run.status = "RUNNING"
      stage == CASE run.status = "CANCELLED" -> "cleaning"
                 [] run.status = "RUNNING" -> IF run.lapsed \/ retry THEN "checked" ELSE "thrown"
                 [] run.status \in {"PENDING", "COMPLETED", "FAILED"} ->
                      IF MayRestart(run) THEN "checked" ELSE "done"
                 [] run.status = "ABSENT" -> "thrown"
  IN  /\ work[w].stage = "fetched"
      /\ work' = [work EXCEPT ![w].stage = stage, ![w].retry = (retry /\ stage = "checked")]
      /\ UNCHANGED <<run, report, qjob, request, pass, faults, disrupted>>

\* The report that a cancelled run left behind.
CleanUp(w) ==
  /\ work[w].stage = "cleaning"
  /\ report' = "none"
  /\ Goes(w, "done")
  /\ UNCHANGED <<run, qjob, request, pass, faults, disrupted>>

\* failRun() without a claim: the task, the operator or the customer is out of scope.
FailScope(w) ==
  /\ work[w].stage = "checked"
  /\ IF Waits THEN run' = Ended("FAILED", "scope") /\ report' = "none"
     ELSE UNCHANGED <<run, report>>
  /\ Goes(w, "done")
  /\ UNCHANGED <<qjob, request, pass, faults, disrupted>>

Claim(w) ==
  /\ work[w].stage = "checked"
  /\ IF MayRestart(run) \/ (run.status = "RUNNING" /\ (run.lapsed \/ work[w].retry))
     THEN /\ run' = [status |-> "RUNNING", error |-> None, claim |-> w, lapsed |-> FALSE]
          /\ disrupted' = (disrupted \/ ~Locked(w) \/ (run.lapsed /\ Occupied))
          /\ GoesOn(w, "claimed")
     ELSE UNCHANGED <<run, disrupted>> /\ GoesOn(w, "done")
  /\ UNCHANGED <<report, qjob, request, pass, faults>>

-----------------------------------------------------------------------------
(* The research, the report, and the outcome.                              *)

LookForReport(w) ==
  /\ work[w].stage = "claimed"
  /\ work' = [work EXCEPT ![w].stage = IF HasReport THEN "completing" ELSE "researching",
                          ![w].partial = (report = "partial")]
  /\ UNCHANGED <<run, report, qjob, request, pass, faults, disrupted>>

\* The upsert leaves a report that is there as it is.
Archive(w) ==
  /\ work[w].stage = "researching"
  /\ \E found \in {"whole", "partial"} :
       /\ report' = IF HasReport THEN report ELSE found
       /\ work' = [work EXCEPT ![w].stage = "completing", ![w].partial = (found = "partial")]
  /\ UNCHANGED <<run, qjob, request, pass, faults, disrupted>>

\* No usable evidence, or an error of the database.
ResearchFails(w) ==
  /\ \/ work[w].stage = "researching" /\ faults' = faults
     \/ work[w].stage \in {"claimed", "completing"} /\ Fault
  /\ work' = [work EXCEPT ![w].stage = "checking", ![w].partial = FALSE]
  /\ UNCHANGED <<run, report, qjob, request, pass, disrupted>>

Owns(w) == run.status = "RUNNING" /\ run.claim = w

\* Mutant: a cancellation that overtook the worker is not looked at.
CompleteQuietly(w) ==
  /\ work[w].stage = "completing"
  /\ run' = IF ~work[w].partial /\ Owns(w) THEN Ended("COMPLETED", None) ELSE run
  /\ Goes(w, IF work[w].partial THEN "checking" ELSE "done")
  /\ UNCHANGED <<report, qjob, request, pass, faults, disrupted>>

\* completeRun(): partial evidence fails the run; a run that was cancelled
\* meanwhile has its report deleted.
Complete(w) ==
  /\ work[w].stage = "completing"
  /\ run' = IF ~work[w].partial /\ Owns(w) THEN Ended("COMPLETED", None) ELSE run
  /\ Goes(w, CASE work[w].partial -> "checking"
               [] ~work[w].partial /\ run.status = "CANCELLED" -> "overruled"
               [] ~work[w].partial /\ run.status # "CANCELLED" -> "done")
  /\ UNCHANGED <<report, qjob, request, pass, faults, disrupted>>

Overruled(w) ==
  /\ work[w].stage = "overruled"
  /\ report' = "none"
  /\ Goes(w, "done")
  /\ UNCHANGED <<run, qjob, request, pass, faults, disrupted>>

\* deleteRunReport(): the check and the deletion are two statements.
CheckDelete(w) ==
  /\ work[w].stage = "checking"
  /\ Goes(w, IF run.status = "CANCELLED" \/ run.claim = w THEN "deleting" ELSE "failing")
  /\ UNCHANGED <<run, report, qjob, request, pass, faults, disrupted>>

Delete(w) ==
  /\ work[w].stage = "deleting"
  /\ report' = "none"
  /\ Goes(w, "failing")
  /\ UNCHANGED <<run, qjob, request, pass, faults, disrupted>>

\* Mutant: the run is failed whoever has claimed it.
FailRunOfAnother(w) ==
  /\ work[w].stage = "failing"
  /\ IF run.status = "RUNNING" THEN run' = Ended("FAILED", "retryable") /\ report' = "none"
     ELSE UNCHANGED <<run, report>>
  /\ work' = [work EXCEPT ![w].stage = IF work[w].partial THEN "checking" ELSE "thrown",
                          ![w].partial = FALSE]
  /\ UNCHANGED <<qjob, request, pass, faults, disrupted>>

\* Mutant: the report is deleted whoever has claimed the run.
FailRunAndDelete(w) ==
  /\ work[w].stage = "failing"
  /\ run' = IF Owns(w) THEN Ended("FAILED", "retryable") ELSE run
  /\ report' = "none"
  /\ work' = [work EXCEPT ![w].stage = IF work[w].partial THEN "checking" ELSE "thrown",
                          ![w].partial = FALSE]
  /\ UNCHANGED <<qjob, request, pass, faults, disrupted>>

\* failRun() under the claim.  After partial evidence the error of
\* completeRun() is caught and the clean-up goes through once more.
FailRun(w) ==
  /\ work[w].stage = "failing"
  /\ IF Owns(w) THEN run' = Ended("FAILED", "retryable") /\ report' = "none"
     ELSE UNCHANGED <<run, report>>
  /\ work' = [work EXCEPT ![w].stage = IF work[w].partial THEN "checking" ELSE "thrown",
                          ![w].partial = FALSE]
  /\ UNCHANGED <<qjob, request, pass, faults, disrupted>>

\* The database fails outside the try block, or in the clean-up itself.  What
\* completeRun() throws is caught, and cleaned up once more.
DatabaseFails(w) ==
  /\ work[w].stage \in {"fetched", "cleaning", "checked", "overruled",
                        "checking", "deleting", "failing"}
  /\ Fault
  /\ work' = [work EXCEPT ![w].stage = IF @ = "overruled" \/ (CleaningUp(w) /\ work[w].partial)
                                      THEN "checking" ELSE "thrown",
                          ![w].partial = FALSE]
  /\ UNCHANGED <<run, report, qjob, request, pass, disrupted>>

-----------------------------------------------------------------------------
(* Users and time.                                                         *)

Cancel ==
  /\ run.status \in {"PENDING", "RUNNING"}
  /\ run' = Ended("CANCELLED", run.error)
  /\ report' = "none"
  /\ UNCHANGED <<qjob, work, request, pass, faults, disrupted>>

DeleteReport ==
  /\ run.status = "COMPLETED"
  /\ HasReport
  /\ report' = "removed"
  /\ UNCHANGED <<run, qjob, work, request, pass, faults, disrupted>>

LeaseLapses ==
  /\ run.status = "RUNNING"
  /\ ~run.lapsed
  /\ run' = [run EXCEPT !.lapsed = TRUE]
  /\ UNCHANGED <<report, qjob, work, request, pass, faults, disrupted>>

Step(w) ==
  \/ Return(w) \/ Throw(w) \/ ReadRun(w) \/ CleanUp(w) \/ FailScope(w) \/ Claim(w)
  \/ LookForReport(w) \/ Archive(w) \/ ResearchFails(w) \/ Complete(w) \/ Overruled(w)
  \/ CheckDelete(w) \/ Delete(w) \/ FailRun(w)

PassStep(c) == Scan(c) \/ LookAtJob(c) \/ Remove(c) \/ AddAgain(c)

Next ==
  \/ \E r \in Requests : CreateOrGetRun(r) \/ AddQueueJob(r) \/ AddFails(r)
                         \/ FailUnqueued(r) \/ ServerDies(r)
  \/ \E c \in Passes : PassStep(c) \/ PassFails(c)
  \/ \E w \in Workers : Fetch(w) \/ Step(w) \/ DatabaseFails(w) \/ Crash(w)
  \/ TakeBack \/ LoseLock \/ Forget
  \/ Cancel \/ DeleteReport \/ LeaseLapses

Spec == Init /\ [][Next]_vars

\* Workers fetch and go on, the timer makes its passes, BullMQ looks for
\* stalled jobs, and leases run out.
Fairness ==
  /\ \A w \in Workers : WF_vars(Step(w))
  /\ WF_vars(\E w \in Workers : Fetch(w))
  /\ \A c \in Passes : WF_vars(PassStep(c))
  /\ WF_vars(TakeBack)
  /\ WF_vars(LeaseLapses)

FairSpec == Spec /\ Fairness
-----------------------------------------------------------------------------
(* Properties.                                                             *)

\* A completed run has its whole report, or none after the user removed it,
\* unless a worker outlived its lease or its job.
CompletedIsWhole ==
  run.status = "COMPLETED" /\ ~disrupted => report \in {"whole", "removed"}

\* What the user sees of a completed run (completedReportVisibility) is its whole
\* report until the user removes it: late, repeated and failed attempts neither
\* take the report away nor complete a run on partial evidence.  Even after a
\* worker outlived its lease or its job, a completed run loses its report only
\* to the user, or to deleteRunReport() of a worker that was overtaken between
\* its check and its deletion.
WholeUntilRemoved ==
  /\ []CompletedIsWhole
  /\ [][run.status = "COMPLETED" /\ HasReport /\ ~HasReport' =>
          \/ report' = "removed"
          \/ disrupted /\ \E w \in Workers : Delete(w)]_vars

\* A run is executed by one worker at a time, unless a worker outlived its
\* lease or its job: neither a stalled job, a retry, nor a job that was put
\* back while another one ran starts the research twice.
OneExecutor ==
  \A v, w \in Workers : Executing(v) /\ Executing(w) /\ ~disrupted => v = w

\* "A replay must clean that orphan instead of returning while a cancelled
\* report remains visible" (deep-research.processor.ts:75): as long as nothing
\* fails, the only report of a cancelled run is one that a worker, overtaken by
\* the cancellation while it archived, is about to delete.
CancelledLeavesNothing ==
  run.status = "CANCELLED" /\ HasReport /\ faults = 0 =>
    \E w \in Workers : work[w].stage \in {"completing", "overruled", "checking", "deleting"}

\* "The same deep research request already failed and was not re-queued"
\* (deep-research.controller.ts:57): an ended run stays as it is, for ever,
\* except that an attempt of its job tries a failed research again.
EndedStays ==
  [][run.status \in Terminal /\ run' # run =>
       run.error = "retryable" /\ run.status = "FAILED" /\ run'.status = "RUNNING"]_vars

AtWorkStages ==
  {"claimed", "researching", "completing", "overruled", "checking", "deleting", "failing"}

AtWork(w) == work[w].stage \in AtWorkStages

PhaseOf(r) == CASE r.status = "RUNNING"   -> "held"
                [] r.status = "COMPLETED" -> "done"
                [] r.status \in {"ABSENT", "PENDING"} \/ MayRestart(r) -> "open"
                [] r.status \in {"FAILED", "CANCELLED"} /\ ~MayRestart(r) -> "dropped"

TheRun == {"run"}
Phases == [i \in TheRun |-> PhaseOf(run)]
Places == [w \in Workers |-> IF AtWork(w) THEN "run" ELSE None]
Holders == [i \in TheRun |-> {w \in Workers : AtWork(w) /\ Owns(w)}]

Lease == INSTANCE LeaseContract WITH
  Items <- TheRun, Agents <- Workers, Nothing <- None,
  phase <- Phases, at <- Places, holders <- Holders

\* The claim is a lease as LeaseContract describes it, disrupted or not: however
\* many workers are at the run, only the one whose claim it bears completes or
\* fails it, and a run that is over stays so.
ImplementsLease == Lease!Spec

\* "A failed/finished queue record must not permanently mask a durable PENDING
\* run or an expired RUNNING lease" (deep-research-run.service.ts:289): once
\* faults end, every run ends.
EveryRunEnds == (run.status \in {"PENDING", "RUNNING"}) ~> (run.status \in Terminal)
=============================================================================
