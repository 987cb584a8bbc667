----------------------------- MODULE RenderJobs -----------------------------
(***************************************************************************)
(* The PDF render jobs of one quote: renderQuote() and executeRenderJob()  *)
(* of sales-delivery.service.ts, and the render part of                    *)
(* sales-delivery-recovery.service.ts.                                     *)
(*                                                                         *)
(* A handler hashes the quote, looks for a job with that hash, creates one *)
(* or goes on with the one it found, leases it, renders the quote as it    *)
(* then is, and completes the job behind its leaseId.  Recovery requeues   *)
(* jobs whose lease ran out and jobs whose rendering failed.               *)
(*                                                                         *)
(* Abstractions.  A hash stands for the content it was computed from.  The *)
(* clock is gone: a lease may run out and a failed job may be due at any   *)
(* time.  A leaseId is the number of the claim that took it, for attempt   *)
(* counts the claims of a job.                                             *)
(***************************************************************************)
EXTENDS Naturals, FiniteSets

CONSTANTS
  Procs,        \* HTTP requests in flight
  Hashes,       \* contents of the quote
  None,         \* SQL NULL
  MaxJobs,      \* bound on the jobs of the quote
  MaxAttempts,  \* maxAttempts of a job
  MaxClaims     \* bound on the claims of a job

ASSUME RenderJobsAssumption ==
  /\ MaxJobs \in Nat /\ MaxAttempts \in Nat /\ MaxClaims \in Nat
  /\ None \notin Nat /\ None \notin Hashes

VARIABLES
  quote,  \* the content of the quote now
  jobs,   \* QuoteRenderJob by quoteVersion
  files,  \* the content of the PDF written for each job
  job     \* what each handler holds in memory

vars == <<quote, jobs, files, job>>

Versions == 1 .. MaxJobs

\* SalesDeliveryRenderJobStatus, and ABSENT before the insert.
Statuses == {"ABSENT", "QUEUED", "PROCESSING", "COMPLETED", "FAILED", "DEAD_LETTER"}

RenderJob == [status : Statuses, quoteHash : Hashes \cup {None}, attempt : Nat,
              leaseId : Nat \cup {None}]

NoRenderJob == [status |-> "ABSENT", quoteHash |-> None, attempt |-> 0, leaseId |-> None]

Stages == {"idle", "hashed", "numbering", "creating", "claiming", "rendering", "writing",
           "completing", "failing", "recovering", "retrying"}

\* version is the job a handler works on, content the quote it read or rendered.
Job == [stage : Stages, version : Nat, content : Hashes \cup {None},
        leaseId : Nat \cup {None}, exhausted : BOOLEAN]

Idle == [stage |-> "idle", version |-> 0, content |-> None, leaseId |-> None,
         exhausted |-> FALSE]

TypeOK ==
  /\ quote \in Hashes
  /\ jobs \in [Versions -> RenderJob]
  /\ files \in [Versions -> Hashes \cup {None}]
  /\ job \in [Procs -> Job]

Init ==
  /\ quote \in Hashes
  /\ jobs = [v \in Versions |-> NoRenderJob]
  /\ files = [v \in Versions |-> None]
  /\ job = [p \in Procs |-> Idle]

Goto(p, j) == job' = [job EXCEPT ![p] = j]

Present == {v \in Versions : jobs[v].status # "ABSENT"}

-----------------------------------------------------------------------------
(* renderQuote().                                                          *)

\* The user edits the quote.
EditQuote ==
  /\ \E c \in Hashes \ {quote} : quote' = c
  /\ UNCHANGED <<jobs, files, job>>

\* The quote is read and hashed.
Ask(p) ==
  /\ job[p] = Idle
  /\ Goto(p, [Idle EXCEPT !.stage = "hashed", !.content = quote])
  /\ UNCHANGED <<quote, jobs, files>>

\* The latest job with the hash.
Matching(c) == {v \in Present : jobs[v].quoteHash = c}

LatestOf(S, v) == v \in S /\ \A u \in S : u <= v

\* The job found is returned, or goes on to be claimed.
FindJob(p) ==
  LET c == job[p].content
  IN  /\ job[p].stage = "hashed"
      /\ \/ \E v \in Versions, forceRefresh \in BOOLEAN :
              /\ LatestOf(Matching(c), v)
              /\ Goto(p, IF jobs[v].status \in {"COMPLETED", "PROCESSING", "QUEUED"} /\ ~forceRefresh
                           THEN Idle
                           ELSE [Idle EXCEPT !.stage = "claiming", !.version = v])
         \/ /\ Matching(c) = {}
            /\ Goto(p, [job[p] EXCEPT !.stage = "numbering"])
      /\ UNCHANGED <<quote, jobs, files>>

\* nextQuoteVersion(): one more than the highest version, in a read of its own.
NextQuoteVersion(p) ==
  /\ job[p].stage = "numbering"
  /\ Goto(p, [job[p] EXCEPT !.stage = "creating", !.version = Cardinality(Present) + 1])
  /\ UNCHANGED <<quote, jobs, files>>

\* The insert; the unique index on (quoteId, quoteVersion) refuses a version
\* that a concurrent handler took.
CreateJob(p) ==
  LET v == job[p].version
  IN  /\ job[p].stage = "creating"
      /\ v \in Versions
      /\ IF jobs[v].status = "ABSENT"
           THEN /\ jobs' = [jobs EXCEPT ![v] = [NoRenderJob EXCEPT !.status = "QUEUED",
                                                                   !.quoteHash = job[p].content]]
                /\ Goto(p, [Idle EXCEPT !.stage = "claiming", !.version = v])
           ELSE Goto(p, Idle) /\ UNCHANGED jobs
      /\ UNCHANGED <<quote, files>>

-----------------------------------------------------------------------------
(* executeRenderJob().                                                     *)

\* Mutant: a completed job can be claimed again.
ClaimableAlsoCompleted == {"QUEUED", "FAILED", "DEAD_LETTER", "COMPLETED"}

Claimable == {"QUEUED", "FAILED", "DEAD_LETTER"}

Claim(p) ==
  LET v == job[p].version
      n == jobs[v].attempt + 1
  IN  /\ job[p].stage = "claiming"
      /\ IF jobs[v].status \in Claimable
           THEN /\ n <= MaxClaims
                /\ jobs' = [jobs EXCEPT ![v] = [@ EXCEPT !.status = "PROCESSING", !.attempt = n,
                                                         !.leaseId = n]]
                /\ Goto(p, [job[p] EXCEPT !.stage = "rendering", !.leaseId = n])
           ELSE Goto(p, Idle) /\ UNCHANGED jobs
      /\ UNCHANGED <<quote, files>>

\* generatePiHtml() reads the quote anew, and rendering may fail.
Render(p) ==
  /\ job[p].stage = "rendering"
  /\ \/ Goto(p, [job[p] EXCEPT !.stage = "writing", !.content = quote])
     \/ Goto(p, [job[p] EXCEPT !.stage = "failing"])
  /\ UNCHANGED <<quote, jobs, files>>

HoldsLease(p) == jobs[job[p].version].leaseId = job[p].leaseId

\* Mutant: the lease stays with the job.
EndedKeepingLease(v, status) == [jobs EXCEPT ![v] = [@ EXCEPT !.status = status]]

Ended(v, status) == [jobs EXCEPT ![v] = [@ EXCEPT !.status = status, !.leaseId = None]]

\* persistPdf() writes the file of the job whether or not the lease is held.
WritePdf(p) ==
  /\ job[p].stage = "writing"
  /\ files' = [files EXCEPT ![job[p].version] = job[p].content]
  /\ Goto(p, [job[p] EXCEPT !.stage = "completing", !.content = None])
  /\ UNCHANGED <<quote, jobs>>

Complete(p) ==
  /\ job[p].stage = "completing"
  /\ jobs' = IF HoldsLease(p) THEN Ended(job[p].version, "COMPLETED") ELSE jobs
  /\ Goto(p, Idle)
  /\ UNCHANGED <<quote, files>>

\* The update of the job throws, and the catch block fails the job.
CompleteThrows(p) ==
  /\ job[p].stage = "completing"
  /\ Goto(p, [job[p] EXCEPT !.stage = "failing"])
  /\ UNCHANGED <<quote, jobs, files>>

RenderFailed(p) ==
  /\ job[p].stage = "failing"
  /\ jobs' = IF HoldsLease(p) THEN Ended(job[p].version, "FAILED") ELSE jobs
  /\ Goto(p, Idle)
  /\ UNCHANGED <<quote, files>>

-----------------------------------------------------------------------------
(* Recovery.                                                               *)

\* findMany() of a recovery pass: a job as the scan saw it.
Scan(p, stage, status) ==
  /\ job[p] = Idle
  /\ \E v \in Versions :
       /\ jobs[v].status = status
       /\ Goto(p, [Idle EXCEPT !.stage = stage, !.version = v, !.leaseId = jobs[v].leaseId,
                               !.exhausted = (jobs[v].attempt >= MaxAttempts)])
  /\ UNCHANGED <<quote, jobs, files>>

Outcome(p) == IF job[p].exhausted THEN "DEAD_LETTER" ELSE "QUEUED"

ScanStaleLeases(p) == Scan(p, "recovering", "PROCESSING")

\* Mutant: any lease of the job is taken to be the stale one.
RecoverAnyLease(p) ==
  /\ job[p].stage = "recovering"
  /\ jobs' = IF jobs[job[p].version].status = "PROCESSING"
               THEN Ended(job[p].version, Outcome(p)) ELSE jobs
  /\ Goto(p, Idle)
  /\ UNCHANGED <<quote, files>>

\* recoverStaleRenderLeases(): behind the leaseId of the scan.
RecoverStaleRenderLeases(p) ==
  /\ job[p].stage = "recovering"
  /\ jobs' = IF /\ jobs[job[p].version].status = "PROCESSING"
                /\ HoldsLease(p)
               THEN Ended(job[p].version, Outcome(p)) ELSE jobs
  /\ Goto(p, Idle)
  /\ UNCHANGED <<quote, files>>

ScanFailedJobs(p) == Scan(p, "retrying", "FAILED")

\* retryFailedRenderJobs(): behind the status only.
RetryFailedRenderJobs(p) ==
  /\ job[p].stage = "retrying"
  /\ jobs' = IF jobs[job[p].version].status = "FAILED"
               THEN Ended(job[p].version, Outcome(p)) ELSE jobs
  /\ Goto(p, Idle)
  /\ UNCHANGED <<quote, files>>

\* The handler throws, or the server dies under it.
Crash(p) ==
  /\ job[p] # Idle
  /\ Goto(p, Idle)
  /\ UNCHANGED <<quote, jobs, files>>

-----------------------------------------------------------------------------
Work(p) ==
  \/ FindJob(p) \/ NextQuoteVersion(p) \/ CreateJob(p)
  \/ Claim(p) \/ Render(p) \/ WritePdf(p) \/ Complete(p) \/ CompleteThrows(p)
  \/ RenderFailed(p) \/ RecoverStaleRenderLeases(p) \/ RetryFailedRenderJobs(p)

Next ==
  \/ EditQuote
  \/ \E p \in Procs : Ask(p) \/ ScanStaleLeases(p) \/ ScanFailedJobs(p) \/ Work(p) \/ Crash(p)

Spec == Init /\ [][Next]_vars

-----------------------------------------------------------------------------
(* Properties.                                                             *)

\* A leaseId names one renderer: a job is leased exactly while it is PROCESSING,
\* and no two handlers render under its current lease.
OneRenderer ==
  \A v \in Versions :
    /\ (jobs[v].status = "PROCESSING") <=> (jobs[v].leaseId # None)
    /\ Cardinality({p \in Procs : /\ job[p].stage \in {"rendering", "writing", "completing", "failing"}
                                  /\ job[p].version = v
                                  /\ job[p].leaseId = jobs[v].leaseId}) <= 1

\* A completed job stays completed and has a file: neither a renderer whose
\* lease ran out nor a recovery pass that saw an older state takes it back.
CompletedStays ==
  [][\A v \in Versions : jobs[v].status = "COMPLETED" =>
       jobs'[v] = jobs[v] /\ files'[v] # None]_vars

\* Only the holder of a lease, or a recovery that saw this very lease run out,
\* ends it: the renderer of a later claim is never cut off by an earlier one.
LeaseEndsOnce ==
  [][\A v \in Versions :
       jobs[v].status = "PROCESSING" /\ jobs'[v] # jobs[v] =>
         \E p \in Procs : /\ job[p].version = v
                          /\ job[p].leaseId = jobs[v].leaseId
                          /\ job[p].stage \in {"completing", "failing", "recovering"}]_vars

AtWork(p) == job[p].stage \in {"rendering", "writing", "completing", "failing"}

PhaseOf(v) == CASE jobs[v].status = "PROCESSING" -> "held"
                [] jobs[v].status = "COMPLETED"  -> "done"
                [] jobs[v].status \notin {"PROCESSING", "COMPLETED"} -> "open"

PlaceOf(p) == IF AtWork(p) THEN job[p].version ELSE None

HoldersOf(v) == {p \in Procs : AtWork(p) /\ job[p].version = v /\ HoldsLease(p)}

Phases == [v \in Versions |-> PhaseOf(v)]
Places == [p \in Procs |-> PlaceOf(p)]
Holders == [v \in Versions |-> HoldersOf(v)]

Lease == INSTANCE LeaseContract WITH
  Items <- Versions, Agents <- Procs, Nothing <- None,
  phase <- Phases, at <- Places, holders <- Holders

\* The leaseId is a lease as LeaseContract describes it: whoever renders, only
\* the handler whose lease is the job's of now completes or fails the job, and
\* it is done for good.
ImplementsLease == Lease!Spec

\* "renderQuote: check the snapshot of the quote, then render": the PDF of a
\* completed job shows the content that its quoteHash names.
SnapshotIsRendered ==
  \A v \in Versions : jobs[v].status = "COMPLETED" => files[v] = jobs[v].quoteHash

=============================================================================
