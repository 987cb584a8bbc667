-------------------------- MODULE RenderJobsProofs --------------------------
(***************************************************************************)
(* Proofs about the render jobs: for any number of handlers, versions and  *)
(* claims a lease names one renderer, only its holder or a recovery that   *)
(* saw it ends it, and a completed job stays completed.                    *)
(*                                                                         *)
(* The argument is that of fencing tokens.  A claim numbers its lease with *)
(* the attempt it counts, every handler holds a number no larger than the  *)
(* attempt of its job, and so a new claim holds a number nobody holds.     *)
(***************************************************************************)
EXTENDS RenderJobs, FiniteSetTheorems, TLAPS

Rendering == {"rendering", "writing", "completing", "failing"}

\* A job is leased while it is PROCESSING, under a number it has counted.
LeaseOK(v) ==
  /\ jobs[v].status = "ABSENT" => jobs[v].attempt = 0
  /\ (jobs[v].status = "PROCESSING") <=> (jobs[v].leaseId # None)
  /\ jobs[v].leaseId # None => jobs[v].leaseId <= jobs[v].attempt
  /\ jobs[v].status = "COMPLETED" => files[v] # None

\* What a handler in state j knows of the job it works on.
HandlerOK(j) ==
  /\ j.stage \in Rendering \cup {"claiming", "recovering", "retrying"} => j.version \in Versions
  /\ j.stage \in Rendering \cup {"recovering"} =>
       /\ j.leaseId \in Nat
       /\ j.leaseId <= jobs[j.version].attempt
  /\ j.stage = "writing" => j.content # None
  /\ j.stage = "completing" => files[j.version] # None

\* No two renderers of a job hold one number.
LeasesDiffer ==
  \A p, q \in Procs :
    /\ p # q
    /\ job[p].stage \in Rendering
    /\ job[q].stage \in Rendering
    /\ job[p].version = job[q].version
    => job[p].leaseId # job[q].leaseId

RInv ==
  /\ TypeOK
  /\ \A v \in Versions : LeaseOK(v)
  /\ \A p \in Procs : HandlerOK(job[p])
  /\ LeasesDiffer

-----------------------------------------------------------------------------
(* The kinds of steps.                                                     *)

\* The first state.
LEMMA InitHolds == Init => RInv
  BY RenderJobsAssumption
  DEF Init, RInv, TypeOK, LeaseOK, HandlerOK, LeasesDiffer, RenderJob, NoRenderJob, Statuses,
      Job, Idle, Stages, Rendering

\* Versions are numbers.
LEMMA VersionIsNat == \A v \in Versions : v \in Nat
  BY RenderJobsAssumption DEF Versions

LEMMA PresentIsFinite == Cardinality(Present) \in Nat
<1>1. IsFiniteSet(1 .. MaxJobs)
  BY FS_Interval, RenderJobsAssumption
<1>2. Present \subseteq 1 .. MaxJobs
  BY DEF Present, Versions
<1>3. IsFiniteSet(Present)
  BY <1>1, <1>2, FS_Subset
<1> QED BY <1>3, FS_CardinalityType

\* A handler moves on and changes no row: it may keep the lease it has.
LEMMA MoveHolds ==
  ASSUME RInv, NEW p \in Procs, NEW j \in Job, Goto(p, j),
         quote' \in Hashes, UNCHANGED <<jobs, files>>,
         HandlerOK(j),
         j.stage \in Rendering =>
           /\ job[p].stage \in Rendering
           /\ j.version = job[p].version
           /\ j.leaseId = job[p].leaseId
  PROVE  RInv'
<1>1. TypeOK'
  BY DEF RInv, TypeOK, Goto
<1>2. \A v \in Versions : LeaseOK(v)'
  BY DEF RInv, LeaseOK
<1>3. \A q \in Procs : HandlerOK(job[q])'
  BY DEF RInv, TypeOK, HandlerOK, Goto
<1>4. LeasesDiffer'
  BY DEF RInv, TypeOK, LeasesDiffer, Goto
<1> QED BY <1>1, <1>2, <1>3, <1>4 DEF RInv, Versions

\* A lease is ended, and the handler that ends it is done.
LEMMA EndHolds ==
  ASSUME RInv, NEW p \in Procs, NEW v \in Versions,
         NEW s \in {"COMPLETED", "FAILED", "QUEUED", "DEAD_LETTER"},
         jobs' = Ended(v, s), Goto(p, Idle), UNCHANGED <<quote, files>>,
         s = "COMPLETED" => files[v] # None
  PROVE  RInv'
<1>1. /\ jobs' \in [Versions -> RenderJob]
      /\ jobs'[v].status = s /\ jobs'[v].leaseId = None
      /\ \A u \in Versions : /\ u # v => jobs'[u] = jobs[u]
                             /\ jobs'[u].attempt = jobs[u].attempt
  BY DEF RInv, TypeOK, Ended, RenderJob, Statuses
<1>2. /\ job' \in [Procs -> Job]
      /\ job'[p] = Idle
      /\ \A q \in Procs : q # p => job'[q] = job[q]
  BY DEF RInv, TypeOK, Goto, Job, Idle, Stages
<1>3. TypeOK'
  BY <1>1, <1>2 DEF RInv, TypeOK
<1>4. \A u \in Versions : LeaseOK(u)'
  BY <1>1 DEF RInv, LeaseOK
<1>5. \A q \in Procs : HandlerOK(job[q])'
  BY <1>1, <1>2 DEF RInv, HandlerOK, Idle, Rendering
<1>6. LeasesDiffer'
  BY <1>2 DEF RInv, LeasesDiffer, Idle, Rendering
<1> QED BY <1>3, <1>4, <1>5, <1>6 DEF RInv, Versions

\* The handler is done.
LEMMA IdleHolds ==
  ASSUME RInv, NEW p \in Procs, Goto(p, Idle), UNCHANGED <<quote, jobs, files>>
  PROVE  RInv'
<1>1. Idle \in Job
  BY DEF Idle, Job, Stages
<1>2. HandlerOK(Idle) /\ Idle.stage \notin Rendering
  BY DEF HandlerOK, Idle, Rendering
<1> QED BY <1>1, <1>2, MoveHolds DEF RInv, TypeOK

-----------------------------------------------------------------------------
(* The actions.                                                            *)

\* Edits of the quote.
LEMMA EditHolds == ASSUME RInv, EditQuote PROVE RInv'
<1>1. TypeOK'
  BY DEF RInv, TypeOK, EditQuote
<1> QED BY <1>1 DEF RInv, EditQuote, LeaseOK, HandlerOK, LeasesDiffer, Versions

\* Hashing, searching and numbering write nothing.
LEMMA AskHolds == ASSUME RInv, NEW p \in Procs, Ask(p) PROVE RInv'
<1> DEFINE j == [Idle EXCEPT !.stage = "hashed", !.content = quote]
<1>1. j \in Job /\ j.stage = "hashed"
  BY DEF RInv, TypeOK, Idle, Job, Stages
<1>2. Goto(p, j) /\ UNCHANGED <<quote, jobs, files>>
  BY DEF Ask
<1>3. HandlerOK(j) /\ j.stage \notin Rendering
  BY <1>1 DEF HandlerOK, Rendering
<1> HIDE DEF j
<1> QED BY <1>1, <1>2, <1>3, MoveHolds DEF RInv, TypeOK

LEMMA FindHolds == ASSUME RInv, NEW p \in Procs, FindJob(p) PROVE RInv'
<1>1. CASE Goto(p, Idle)
  BY <1>1, IdleHolds DEF FindJob
<1>2. ASSUME NEW v \in Versions, Goto(p, [Idle EXCEPT !.stage = "claiming", !.version = v])
      PROVE  RInv'
  <2> DEFINE j == [Idle EXCEPT !.stage = "claiming", !.version = v]
  <2>1. j \in Job /\ j.stage = "claiming" /\ j.version = v
    BY VersionIsNat DEF Idle, Job, Stages
  <2>2. HandlerOK(j) /\ j.stage \notin Rendering
    BY <2>1 DEF HandlerOK, Rendering
  <2>3. Goto(p, j) /\ UNCHANGED <<quote, jobs, files>>
    BY <1>2 DEF FindJob
  <2> HIDE DEF j
  <2> QED BY <2>1, <2>2, <2>3, MoveHolds DEF RInv, TypeOK
<1>3. CASE Goto(p, [job[p] EXCEPT !.stage = "numbering"])
  <2> DEFINE j == [job[p] EXCEPT !.stage = "numbering"]
  <2>1. j \in Job /\ j.stage = "numbering"
    BY DEF RInv, TypeOK, Job, Stages
  <2>2. HandlerOK(j) /\ j.stage \notin Rendering
    BY <2>1 DEF HandlerOK, Rendering
  <2>3. Goto(p, j) /\ UNCHANGED <<quote, jobs, files>>
    BY <1>3 DEF FindJob
  <2> HIDE DEF j
  <2> QED BY <2>1, <2>2, <2>3, MoveHolds DEF RInv, TypeOK
<1> QED BY <1>1, <1>2, <1>3 DEF FindJob, LatestOf, Matching, Present

LEMMA NumberHolds == ASSUME RInv, NEW p \in Procs, NextQuoteVersion(p) PROVE RInv'
<1> DEFINE j == [job[p] EXCEPT !.stage = "creating", !.version = Cardinality(Present) + 1]
<1>1. j \in Job /\ j.stage = "creating"
  <2>1. PICK n \in Nat : n = Cardinality(Present) + 1
    BY PresentIsFinite
  <2>2. j = [job[p] EXCEPT !.stage = "creating", !.version = n]
    BY <2>1
  <2>3. job[p] \in Job
    BY DEF RInv, TypeOK
  <2> HIDE DEF j
  <2> QED BY <2>2, <2>3 DEF Job, Stages
<1>2. Goto(p, j) /\ UNCHANGED <<quote, jobs, files>>
  BY DEF NextQuoteVersion
<1>3. HandlerOK(j) /\ j.stage \notin Rendering
  BY <1>1 DEF HandlerOK, Rendering
<1> HIDE DEF j
<1> QED BY <1>1, <1>2, <1>3, MoveHolds DEF RInv, TypeOK

\* The insert makes an unleased job.
LEMMA CreateHolds == ASSUME RInv, NEW p \in Procs, CreateJob(p) PROVE RInv'
<1>1. PICK v \in Versions : v = job[p].version
  BY DEF CreateJob
<1>2. CASE jobs[v].status # "ABSENT"
  BY <1>1, <1>2, IdleHolds DEF CreateJob
<1>3. CASE jobs[v].status = "ABSENT"
  <2> DEFINE r == [NoRenderJob EXCEPT !.status = "QUEUED", !.quoteHash = job[p].content]
             j == [Idle EXCEPT !.stage = "claiming", !.version = v]
  <2>1. /\ r \in RenderJob
        /\ r.status = "QUEUED" /\ r.leaseId = None /\ r.attempt = 0
    BY DEF RInv, TypeOK, NoRenderJob, RenderJob, Statuses, Job
  <2>2. j \in Job /\ j.stage = "claiming" /\ j.version = v
    BY VersionIsNat DEF Idle, Job, Stages
  <2>3. /\ jobs' = [jobs EXCEPT ![v] = r]
        /\ job' = [job EXCEPT ![p] = j]
        /\ UNCHANGED <<quote, files>>
    BY <1>1, <1>3 DEF CreateJob, Goto
  <2> HIDE DEF r, j
  <2>4. /\ jobs' \in [Versions -> RenderJob]
        /\ jobs'[v] = r
        /\ \A u \in Versions : u # v => jobs'[u] = jobs[u]
    BY <2>1, <2>3 DEF RInv, TypeOK
  <2>5. /\ job' \in [Procs -> Job]
        /\ job'[p] = j
        /\ \A q \in Procs : q # p => job'[q] = job[q]
    BY <2>2, <2>3 DEF RInv, TypeOK
  <2>6. TypeOK'
    BY <2>3, <2>4, <2>5 DEF RInv, TypeOK
  <2>7. \A u \in Versions : LeaseOK(u)'
    BY <2>1, <2>3, <2>4 DEF RInv, LeaseOK
  <2>8. \A q \in Procs : HandlerOK(job[q])'
    <3>1. HandlerOK(job[p])'
      BY <2>2, <2>5 DEF HandlerOK, Rendering
    <3>2. ASSUME NEW q \in Procs, q # p PROVE HandlerOK(job[q])'
      <4>1. \A u \in Versions : jobs'[u].attempt = jobs[u].attempt
        BY <1>3, <2>1, <2>4 DEF RInv, LeaseOK
      <4> QED BY <4>1, <3>2, <2>3, <2>5 DEF RInv, HandlerOK
    <3> QED BY <3>1, <3>2
  <2>9. LeasesDiffer'
    BY <2>2, <2>5 DEF RInv, LeasesDiffer, Rendering
  <2> QED BY <2>6, <2>7, <2>8, <2>9 DEF RInv, Versions
<1> QED BY <1>2, <1>3

\* A claim takes a number nobody holds.
LEMMA ClaimHolds == ASSUME RInv, NEW p \in Procs, Claim(p) PROVE RInv'
<1>1. PICK v \in Versions : v = job[p].version
  BY DEF Claim, RInv, HandlerOK
<1>2. PICK n \in Nat : n = jobs[v].attempt + 1
  BY DEF RInv, TypeOK, RenderJob
<1>3. CASE jobs[v].status \notin Claimable
  BY <1>1, <1>3, IdleHolds DEF Claim
<1>4. CASE jobs[v].status \in Claimable
  <2> DEFINE r == [jobs[v] EXCEPT !.status = "PROCESSING", !.attempt = n, !.leaseId = n]
             j == [job[p] EXCEPT !.stage = "rendering", !.leaseId = n]
  <2>1. /\ r \in RenderJob
        /\ r.status = "PROCESSING" /\ r.leaseId = n /\ r.attempt = n
    BY DEF RInv, TypeOK, RenderJob, Statuses
  <2>2. /\ j \in Job
        /\ j.stage = "rendering" /\ j.version = v /\ j.leaseId = n
    BY <1>1 DEF RInv, TypeOK, Job, Stages
  <2>3. /\ jobs' = [jobs EXCEPT ![v] = r]
        /\ job' = [job EXCEPT ![p] = j]
        /\ UNCHANGED <<quote, files>>
    BY <1>1, <1>2, <1>4 DEF Claim, Goto, RInv, TypeOK
  <2> HIDE DEF r, j
  <2>4. /\ jobs' \in [Versions -> RenderJob]
        /\ jobs'[v] = r
        /\ \A u \in Versions : u # v => jobs'[u] = jobs[u]
    BY <2>1, <2>3 DEF RInv, TypeOK
  <2>5. /\ job' \in [Procs -> Job]
        /\ job'[p] = j
        /\ \A q \in Procs : q # p => job'[q] = job[q]
    BY <2>2, <2>3 DEF RInv, TypeOK
  <2>6. TypeOK'
    BY <2>3, <2>4, <2>5 DEF RInv, TypeOK
  <2>7. \A u \in Versions : LeaseOK(u)'
    <3>1. LeaseOK(v)'
      BY <2>1, <2>4, RenderJobsAssumption DEF LeaseOK
    <3>2. ASSUME NEW u \in Versions, u # v PROVE LeaseOK(u)'
      BY <3>2, <2>3, <2>4 DEF RInv, LeaseOK
    <3> QED BY <3>1, <3>2
  <2>8. \A q \in Procs : HandlerOK(job[q])'
    <3>1. HandlerOK(job[p])'
      BY <2>1, <2>2, <2>4, <2>5 DEF HandlerOK, Rendering
    <3>2. ASSUME NEW q \in Procs, q # p PROVE HandlerOK(job[q])'
      <4>1. ASSUME NEW u \in Versions, NEW l \in Nat, l <= jobs[u].attempt
            PROVE  l <= jobs'[u].attempt
        BY <4>1, <1>2, <2>1, <2>4 DEF RInv, TypeOK, RenderJob
      <4> QED BY <4>1, <3>2, <2>3, <2>5 DEF RInv, HandlerOK
    <3> QED BY <3>1, <3>2
  <2>9. LeasesDiffer'
    <3>1. ASSUME NEW q \in Procs, q # p, job[q].stage \in Rendering, job[q].version = v
          PROVE  job[q].leaseId # n
      BY <3>1, <1>2 DEF RInv, HandlerOK, TypeOK, RenderJob
    <3> QED BY <3>1, <2>2, <2>5 DEF RInv, LeasesDiffer
  <2> QED BY <2>6, <2>7, <2>8, <2>9 DEF RInv, Versions
<1> QED BY <1>3, <1>4

\* Rendering, and an error after it, keep the lease.
LEMMA RenderHolds == ASSUME RInv, NEW p \in Procs, Render(p) \/ CompleteThrows(p) PROVE RInv'
<1>1. job[p] \in Job /\ job[p].stage \in {"rendering", "completing"} /\ quote \in Hashes
  BY DEF Render, CompleteThrows, RInv, TypeOK
<1>2. CASE Goto(p, [job[p] EXCEPT !.stage = "writing", !.content = quote])
  <2> DEFINE j == [job[p] EXCEPT !.stage = "writing", !.content = quote]
  <2>1. /\ j \in Job
        /\ j.stage = "writing" /\ j.content = quote
        /\ j.version = job[p].version /\ j.leaseId = job[p].leaseId
    BY <1>1 DEF Job, Stages
  <2>2. Goto(p, j) /\ UNCHANGED <<quote, jobs, files>>
    BY <1>2 DEF Render, CompleteThrows
  <2> HIDE DEF j
  <2>3. HandlerOK(j)
    BY <1>1, <2>1, RenderJobsAssumption DEF RInv, HandlerOK, Rendering
  <2> QED BY <1>1, <2>1, <2>2, <2>3, MoveHolds DEF RInv, TypeOK, Rendering
<1>3. CASE Goto(p, [job[p] EXCEPT !.stage = "failing"])
  <2> DEFINE j == [job[p] EXCEPT !.stage = "failing"]
  <2>1. /\ j \in Job
        /\ j.stage = "failing"
        /\ j.version = job[p].version /\ j.leaseId = job[p].leaseId
    BY <1>1 DEF Job, Stages
  <2>2. Goto(p, j) /\ UNCHANGED <<quote, jobs, files>>
    BY <1>3 DEF Render, CompleteThrows
  <2> HIDE DEF j
  <2>3. HandlerOK(j)
    BY <1>1, <2>1 DEF RInv, HandlerOK, Rendering
  <2> QED BY <1>1, <2>1, <2>2, <2>3, MoveHolds DEF RInv, TypeOK, Rendering
<1> QED BY <1>2, <1>3 DEF Render, CompleteThrows

\* The file of a job is never taken away.
LEMMA WriteHolds == ASSUME RInv, NEW p \in Procs, WritePdf(p) PROVE RInv'
<1> DEFINE j == [job[p] EXCEPT !.stage = "completing", !.content = None]
<1>1. PICK v \in Versions : v = job[p].version
  BY DEF WritePdf, RInv, HandlerOK, Rendering
<1>2. PICK h \in Hashes : h = job[p].content
  BY DEF WritePdf, RInv, TypeOK, Job, HandlerOK
<1>3. /\ j \in Job
      /\ j.stage = "completing" /\ j.version = v /\ j.leaseId = job[p].leaseId
  BY <1>1 DEF RInv, TypeOK, Job, Stages
<1>4. /\ job' = [job EXCEPT ![p] = j]
      /\ files' = [files EXCEPT ![v] = h]
      /\ UNCHANGED <<quote, jobs>>
  BY <1>1, <1>2 DEF WritePdf, Goto
<1> HIDE DEF j
<1>5. /\ files' \in [Versions -> Hashes \cup {None}]
      /\ files'[v] # None
      /\ \A u \in Versions : files[u] # None => files'[u] # None
  BY <1>4, RenderJobsAssumption DEF RInv, TypeOK
<1>6. /\ job' \in [Procs -> Job]
      /\ job'[p] = j
      /\ \A q \in Procs : q # p => job'[q] = job[q]
  BY <1>3, <1>4 DEF RInv, TypeOK
<1>7. TypeOK'
  BY <1>4, <1>5, <1>6 DEF RInv, TypeOK
<1>8. \A u \in Versions : LeaseOK(u)'
  BY <1>4, <1>5 DEF RInv, LeaseOK
<1>9. \A q \in Procs : HandlerOK(job[q])'
  <2>1. HandlerOK(job[p])'
    BY <1>1, <1>3, <1>4, <1>5, <1>6 DEF RInv, HandlerOK, Rendering, WritePdf
  <2>2. ASSUME NEW q \in Procs, q # p PROVE HandlerOK(job[q])'
    BY <2>2, <1>4, <1>5, <1>6 DEF RInv, HandlerOK, Rendering
  <2> QED BY <2>1, <2>2
<1>10. LeasesDiffer'
  BY <1>1, <1>3, <1>6 DEF RInv, LeasesDiffer, WritePdf, Rendering
<1> QED BY <1>7, <1>8, <1>9, <1>10 DEF RInv, Versions

\* The outcomes of the renderer and of recovery end a lease or change nothing.
LEMMA CompleteHolds == ASSUME RInv, NEW p \in Procs, Complete(p) PROVE RInv'
<1>1. PICK v \in Versions : v = job[p].version
  BY DEF Complete, RInv, HandlerOK, Rendering
<1>2. files[v] # None
  BY <1>1 DEF Complete, RInv, HandlerOK
<1>3. CASE jobs' = Ended(v, "COMPLETED")
  BY <1>2, <1>3, EndHolds DEF Complete
<1>4. CASE jobs' = jobs
  BY <1>4, IdleHolds DEF Complete
<1> QED BY <1>1, <1>3, <1>4 DEF Complete

LEMMA RenderFailedHolds == ASSUME RInv, NEW p \in Procs, RenderFailed(p) PROVE RInv'
<1>1. PICK v \in Versions : v = job[p].version
  BY DEF RenderFailed, RInv, HandlerOK, Rendering
<1>2. CASE jobs' = Ended(v, "FAILED")
  BY <1>2, EndHolds DEF RenderFailed
<1>3. CASE jobs' = jobs
  BY <1>3, IdleHolds DEF RenderFailed
<1> QED BY <1>1, <1>2, <1>3 DEF RenderFailed

LEMMA RecoverHolds ==
  ASSUME RInv, NEW p \in Procs, RecoverStaleRenderLeases(p) \/ RetryFailedRenderJobs(p)
  PROVE  RInv'
<1>1. PICK v \in Versions : v = job[p].version
  BY DEF RecoverStaleRenderLeases, RetryFailedRenderJobs, RInv, HandlerOK
<1>2. PICK s \in {"QUEUED", "DEAD_LETTER"} : s = Outcome(p)
  BY DEF Outcome
<1>3. Goto(p, Idle) /\ UNCHANGED <<quote, files>>
  BY DEF RecoverStaleRenderLeases, RetryFailedRenderJobs
<1>4. CASE jobs' = Ended(v, s)
  BY <1>3, <1>4, EndHolds
<1>5. CASE jobs' = jobs
  BY <1>3, <1>5, IdleHolds
<1> QED BY <1>1, <1>2, <1>4, <1>5 DEF RecoverStaleRenderLeases, RetryFailedRenderJobs

\* The scans of recovery remember a lease that exists.
LEMMA ScanHolds ==
  ASSUME RInv, NEW p \in Procs, ScanStaleLeases(p) \/ ScanFailedJobs(p)
  PROVE  RInv'
<1>1. PICK v \in Versions :
        \/ /\ jobs[v].status = "PROCESSING"
           /\ Goto(p, [Idle EXCEPT !.stage = "recovering", !.version = v, !.leaseId = jobs[v].leaseId,
                                   !.exhausted = (jobs[v].attempt >= MaxAttempts)])
        \/ /\ jobs[v].status = "FAILED"
           /\ Goto(p, [Idle EXCEPT !.stage = "retrying", !.version = v, !.leaseId = jobs[v].leaseId,
                                   !.exhausted = (jobs[v].attempt >= MaxAttempts)])
  BY DEF ScanStaleLeases, ScanFailedJobs, Scan
<1>2. PICK j \in Job :
        /\ Goto(p, j)
        /\ j.stage \in {"recovering", "retrying"}
        /\ j.version = v
        /\ j.leaseId = jobs[v].leaseId
        /\ j.stage = "recovering" => jobs[v].status = "PROCESSING"
  <2>1. /\ jobs[v].leaseId \in Nat \cup {None}
        /\ (jobs[v].attempt >= MaxAttempts) \in BOOLEAN
    BY DEF RInv, TypeOK, RenderJob
  <2>2. ASSUME NEW st \in {"recovering", "retrying"},
               st = "recovering" => jobs[v].status = "PROCESSING",
               Goto(p, [Idle EXCEPT !.stage = st, !.version = v, !.leaseId = jobs[v].leaseId,
                                    !.exhausted = (jobs[v].attempt >= MaxAttempts)])
        PROVE  \E j \in Job :
                 /\ Goto(p, j)
                 /\ j.stage \in {"recovering", "retrying"}
                 /\ j.version = v
                 /\ j.leaseId = jobs[v].leaseId
                 /\ j.stage = "recovering" => jobs[v].status = "PROCESSING"
    <3> DEFINE j == [Idle EXCEPT !.stage = st, !.version = v, !.leaseId = jobs[v].leaseId,
                                 !.exhausted = (jobs[v].attempt >= MaxAttempts)]
    <3>1. j \in Job /\ j.stage = st /\ j.version = v /\ j.leaseId = jobs[v].leaseId
      BY <2>1, VersionIsNat DEF Idle, Job, Stages
    <3>2. Goto(p, j)
      BY <2>2
    <3> HIDE DEF j
    <3> QED BY <2>2, <3>1, <3>2
  <2> QED BY <1>1, <2>2
<1>3. HandlerOK(j)
  BY <1>2 DEF RInv, TypeOK, RenderJob, LeaseOK, HandlerOK, Rendering
<1>4. quote' \in Hashes /\ UNCHANGED <<jobs, files>> /\ j.stage \notin Rendering
  BY <1>2 DEF ScanStaleLeases, ScanFailedJobs, Scan, RInv, TypeOK, Rendering
<1> QED BY <1>2, <1>3, <1>4, MoveHolds

-----------------------------------------------------------------------------
(* The theorems.                                                           *)

\* Every step keeps the invariant.
LEMMA StepHolds == ASSUME RInv, [Next]_vars PROVE RInv'
<1>1. CASE UNCHANGED vars
  BY <1>1 DEF RInv, TypeOK, LeaseOK, HandlerOK, LeasesDiffer, vars, Versions
<1>2. CASE EditQuote
  BY <1>2, EditHolds
<1>3. ASSUME NEW p \in Procs, Ask(p) \/ ScanStaleLeases(p) \/ ScanFailedJobs(p) \/ Crash(p)
      PROVE  RInv'
  BY <1>3, AskHolds, ScanHolds, IdleHolds DEF Crash
<1>4. ASSUME NEW p \in Procs, Work(p) PROVE RInv'
  BY <1>4, FindHolds, NumberHolds, CreateHolds, ClaimHolds, RenderHolds, WriteHolds,
     CompleteHolds, RenderFailedHolds, RecoverHolds DEF Work
<1> QED BY <1>1, <1>2, <1>3, <1>4 DEF Next

\* The inductive invariant: every handler holds a number its job has counted, and
\* no two renderers of a job the same.
THEOREM LeasesNumbered == Spec => []RInv
  BY InitHolds, StepHolds, PTL DEF Spec

\* Jobs, files and handlers keep their types.
THEOREM RenderTypeCorrect == Spec => []TypeOK
<1>1. RInv => TypeOK
  BY DEF RInv
<1> QED BY <1>1, LeasesNumbered, PTL

\* A leaseId names one renderer, however often leases run out and jobs are
\* claimed again: the guard on leaseId in executeRenderJob() tells renderers apart.
THEOREM OneRendererHolds == Spec => []OneRenderer
<1>1. ASSUME RInv PROVE OneRenderer
  <2>1. ASSUME NEW v \in Versions
        PROVE  Cardinality({p \in Procs : /\ job[p].stage \in {"rendering", "writing", "completing", "failing"}
                                          /\ job[p].version = v
                                          /\ job[p].leaseId = jobs[v].leaseId}) <= 1
    <3> DEFINE S == {p \in Procs : /\ job[p].stage \in {"rendering", "writing", "completing", "failing"}
                                   /\ job[p].version = v
                                   /\ job[p].leaseId = jobs[v].leaseId}
    <3>1. \A p, q \in S : p = q
      BY <1>1 DEF RInv, LeasesDiffer, Rendering
    <3>2. S = {} \/ \E p \in S : S = {p}
      <4> HIDE DEF S
      <4> QED BY <3>1
    <3> HIDE DEF S
    <3>3. Cardinality(S) <= 1
      <4>1. CASE S = {}
        BY <4>1, FS_EmptySet
      <4>2. ASSUME NEW p \in S, S = {p} PROVE Cardinality(S) <= 1
        <5>1. Cardinality({p}) = 1
          BY FS_Singleton
        <5> QED BY <4>2, <5>1
      <4> QED BY <3>2, <4>1, <4>2
    <3> QED BY <3>3 DEF S
  <2> QED BY <1>1, <2>1 DEF OneRenderer, RInv, LeaseOK
<1> QED BY <1>1, LeasesNumbered, PTL

\* What a step does to the row of a job.
LEMMA StepOfJob ==
  ASSUME RInv, Next, NEW v \in Versions, jobs'[v] # jobs[v], jobs[v].status # "ABSENT"
  PROVE  \/ jobs[v].status \in Claimable
         \/ /\ jobs[v].status = "PROCESSING"
            /\ \E p \in Procs : /\ job[p].version = v
                                 /\ job[p].leaseId = jobs[v].leaseId
                                 /\ job[p].stage \in {"completing", "failing", "recovering"}
<1>1. PICK p \in Procs :
        \/ CreateJob(p) \/ Claim(p) \/ Complete(p) \/ RenderFailed(p)
        \/ RecoverStaleRenderLeases(p) \/ RetryFailedRenderJobs(p)
  BY DEF Next, EditQuote, Ask, ScanStaleLeases, ScanFailedJobs, Scan, Work, Crash,
         FindJob, NextQuoteVersion, Render, WritePdf, CompleteThrows
<1>2. CASE CreateJob(p)
  BY <1>2 DEF CreateJob, RInv, TypeOK
<1>3. CASE Claim(p)
  BY <1>3 DEF Claim, RInv, TypeOK
<1>4. CASE Complete(p) \/ RenderFailed(p)
  <2>1. HoldsLease(p) /\ job[p].version = v
    BY <1>4 DEF Complete, RenderFailed, Ended, RInv, TypeOK
  <2>2. job[p].stage \in {"completing", "failing"} /\ job[p].leaseId \in Nat
    BY <1>4 DEF Complete, RenderFailed, RInv, HandlerOK, Rendering
  <2>3. jobs[v].status = "PROCESSING"
    BY <2>1, <2>2, RenderJobsAssumption DEF HoldsLease, RInv, LeaseOK
  <2> QED BY <2>1, <2>2, <2>3 DEF HoldsLease
<1>5. CASE RecoverStaleRenderLeases(p)
  <2>1. job[p].version = v /\ jobs[v].status = "PROCESSING" /\ HoldsLease(p)
    BY <1>5 DEF RecoverStaleRenderLeases, Ended, RInv, TypeOK
  <2> QED BY <1>5, <2>1 DEF RecoverStaleRenderLeases, HoldsLease
<1>6. CASE RetryFailedRenderJobs(p)
  BY <1>6 DEF RetryFailedRenderJobs, Ended, RInv, TypeOK, Claimable
<1> QED BY <1>1, <1>2, <1>3, <1>4, <1>5, <1>6

\* A completed job stays completed and keeps a file, against renderers whose lease
\* ran out and recovery passes that saw an older state.
THEOREM CompletedKept == Spec => CompletedStays
<1>1. ASSUME RInv, [Next]_vars, NEW v \in Versions, jobs[v].status = "COMPLETED"
      PROVE  jobs'[v] = jobs[v] /\ files'[v] # None
  <2>1. jobs'[v] = jobs[v]
    BY <1>1, StepOfJob DEF Claimable, vars
  <2>2. RInv'
    BY <1>1, StepHolds
  <2> QED BY <1>1, <2>1, <2>2 DEF RInv, LeaseOK
<1>2. RInv /\ [Next]_vars => [\A v \in Versions : jobs[v].status = "COMPLETED" =>
                                 jobs'[v] = jobs[v] /\ files'[v] # None]_vars
  BY <1>1
<1> QED BY <1>2, LeasesNumbered, PTL DEF Spec, CompletedStays

\* The renderer of a later claim is never cut off by an earlier one, nor by a
\* recovery that saw an earlier lease.
THEOREM LeaseEndsByItsHolder == Spec => LeaseEndsOnce
<1>1. RInv /\ [Next]_vars =>
        [\A v \in Versions :
           jobs[v].status = "PROCESSING" /\ jobs'[v] # jobs[v] =>
             \E p \in Procs : /\ job[p].version = v
                              /\ job[p].leaseId = jobs[v].leaseId
                              /\ job[p].stage \in {"completing", "failing", "recovering"}]_vars
  BY StepOfJob DEF Claimable, vars
<1> QED BY <1>1, LeasesNumbered, PTL DEF Spec, LeaseEndsOnce
-----------------------------------------------------------------------------
(* The jobs implement LeaseContract.                                       *)

\* The first state has no holders.
LEMMA LeaseInit == Init => Lease!Init
  BY RenderJobsAssumption
  DEF Init, Lease!Init, Phases, Places, Holders, PhaseOf, PlaceOf, HoldersOf, AtWork, HoldsLease,
      NoRenderJob, Idle, Statuses

\* A job without a lease has no holder.
LEMMA NoLeaseNoHolder ==
  RInv => \A v \in Versions : jobs[v].leaseId = None => HoldersOf(v) = {}
  BY RenderJobsAssumption DEF RInv, HandlerOK, HoldersOf, AtWork, HoldsLease, Rendering

\* The work of a handler on v touches no other job and no other handler.
LEMMA LeaseFrame ==
  ASSUME NEW p \in Procs, NEW v \in Versions,
         \A q \in Procs \ {p} : job'[q] = job[q],
         \A u \in Versions \ {v} : jobs'[u] = jobs[u],
         AtWork(p) => job[p].version = v,
         AtWork(p)' => job'[p].version = v
  PROVE  /\ Phases' = [Phases EXCEPT ![v] = PhaseOf(v)']
         /\ Holders' = [Holders EXCEPT ![v] = HoldersOf(v)']
         /\ Places' = [Places EXCEPT ![p] = PlaceOf(p)']
<1>1. \A u \in Versions \ {v} : PhaseOf(u)' = PhaseOf(u)
  BY DEF PhaseOf
<1>2. ASSUME NEW u \in Versions \ {v} PROVE HoldersOf(u)' = HoldersOf(u)
  <2>1. ASSUME NEW q \in Procs
        PROVE  (AtWork(q) /\ job[q].version = u /\ HoldsLease(q))' <=>
               (AtWork(q) /\ job[q].version = u /\ HoldsLease(q))
    <3>1. CASE q = p
      BY <3>1
    <3>2. CASE q # p
      BY <1>2, <3>2 DEF AtWork, HoldsLease
    <3> QED BY <3>1, <3>2
  <2> QED BY <2>1 DEF HoldersOf
<1>3. \A q \in Procs \ {p} : PlaceOf(q)' = PlaceOf(q)
  BY DEF PlaceOf, AtWork
<1>4. Versions' = Versions
  BY DEF Versions
<1>5. Phases' = [Phases EXCEPT ![v] = PhaseOf(v)']
  BY <1>1, <1>4 DEF Phases
<1>6. Holders' = [Holders EXCEPT ![v] = HoldersOf(v)']
  BY <1>2, <1>4 DEF Holders
<1>7. Places' = [Places EXCEPT ![p] = PlaceOf(p)']
  BY <1>3 DEF Places
<1> QED BY <1>5, <1>6, <1>7

\* A handler that keeps its place and its lease changes nothing the contract sees.
LEMMA LeaseStutter ==
  ASSUME NEW p \in Procs, UNCHANGED jobs,
         \A q \in Procs \ {p} : job'[q] = job[q],
         AtWork(p)' <=> AtWork(p),
         AtWork(p) => job'[p].version = job[p].version /\ job'[p].leaseId = job[p].leaseId
  PROVE  UNCHANGED Lease!leaseVars
<1>1. \A q \in Procs : /\ PlaceOf(q)' = PlaceOf(q)
                       /\ AtWork(q)' <=> AtWork(q)
                       /\ AtWork(q) => job'[q].version = job[q].version /\ job'[q].leaseId = job[q].leaseId
  BY DEF PlaceOf, AtWork
<1>2. \A v \in Versions : HoldersOf(v)' = HoldersOf(v)
  BY <1>1 DEF HoldersOf, HoldsLease
<1>3. Versions' = Versions /\ \A v \in Versions : PhaseOf(v)' = PhaseOf(v)
  BY DEF Versions, PhaseOf
<1> QED BY <1>1, <1>2, <1>3 DEF Lease!leaseVars, Phases, Places, Holders

\* A handler goes, and the jobs stay.
LEMMA LeaseLeft ==
  ASSUME RInv, NEW p \in Procs, Goto(p, Idle), UNCHANGED jobs
  PROVE  [Lease!Next]_(Lease!leaseVars)
<1>1. /\ job'[p] = Idle
      /\ \A q \in Procs \ {p} : job'[q] = job[q]
  BY DEF Goto, RInv, TypeOK
<1>2. ~AtWork(p)'
  BY <1>1 DEF AtWork, Idle
<1>3. CASE ~AtWork(p)
  BY <1>1, <1>2, <1>3, LeaseStutter
<1>4. CASE AtWork(p)
  <2>1. PICK v \in Versions : v = job[p].version
    BY <1>4 DEF RInv, HandlerOK, AtWork, Rendering
  <2>2. /\ Phases' = [Phases EXCEPT ![v] = PhaseOf(v)']
        /\ Holders' = [Holders EXCEPT ![v] = HoldersOf(v)']
        /\ Places' = [Places EXCEPT ![p] = PlaceOf(p)']
    BY <1>1, <1>2, <2>1, LeaseFrame
  <2>3. PhaseOf(v)' = PhaseOf(v) /\ PlaceOf(p)' = None
    BY <1>2 DEF PhaseOf, PlaceOf
  <2>4. HoldersOf(v)' = HoldersOf(v) \ {p}
    BY <1>1, <1>2 DEF HoldersOf, AtWork, HoldsLease
  <2>5. Places[p] = v /\ Holders[v] = HoldersOf(v) /\ Phases[v] = PhaseOf(v)
    BY <1>4, <2>1 DEF Places, PlaceOf, Holders, Phases
  <2>6. UNCHANGED Phases
    BY <2>2, <2>3, <2>5 DEF Phases
  <2>7. Lease!Leave(p, v)
    BY <2>2, <2>3, <2>4, <2>5, <2>6 DEF Lease!Leave
  <2> QED BY <2>7 DEF Lease!Next
<1> QED BY <1>3, <1>4

\* A job that nobody holds, before or after, moves on.
LEMMA LeaseUnheld ==
  ASSUME RInv, RInv', NEW p \in Procs, NEW v \in Versions,
         ~AtWork(p), ~AtWork(p)',
         \A q \in Procs \ {p} : job'[q] = job[q],
         \A u \in Versions \ {v} : jobs'[u] = jobs[u],
         jobs[v].leaseId = None, jobs'[v].leaseId = None,
         PhaseOf(v)' = PhaseOf(v)
  PROVE  UNCHANGED Lease!leaseVars
<1>1. /\ Phases' = [Phases EXCEPT ![v] = PhaseOf(v)']
      /\ Holders' = [Holders EXCEPT ![v] = HoldersOf(v)']
      /\ Places' = [Places EXCEPT ![p] = PlaceOf(p)']
  BY LeaseFrame
<1>2. HoldersOf(v) = {} /\ HoldersOf(v)' = {}
  BY NoLeaseNoHolder, RenderJobsAssumption
     DEF RInv, HandlerOK, HoldersOf, AtWork, HoldsLease, Rendering
<1>3. PlaceOf(p) = None /\ PlaceOf(p)' = None
  BY DEF PlaceOf
<1> QED BY <1>1, <1>2, <1>3 DEF Lease!leaseVars, Phases, Places, Holders

\* A lease ends: its holder finishes or fails, or recovery takes it back.
LEMMA LeaseEnded ==
  ASSUME RInv, RInv', NEW p \in Procs, NEW v \in Versions,
         NEW s \in {"COMPLETED", "FAILED", "QUEUED", "DEAD_LETTER"},
         jobs' = Ended(v, s), Goto(p, Idle),
         jobs[v].status = "PROCESSING",
         IF AtWork(p) THEN job[p].version = v /\ HoldsLease(p) ELSE s # "COMPLETED"
  PROVE  Lease!Next
<1>1. /\ jobs'[v].status = s /\ jobs'[v].leaseId = None
      /\ \A u \in Versions \ {v} : jobs'[u] = jobs[u]
  BY DEF Ended, RInv, TypeOK, RenderJob
<1>2. /\ job'[p] = Idle
      /\ \A q \in Procs \ {p} : job'[q] = job[q]
  BY DEF Goto, RInv, TypeOK
<1>3. ~AtWork(p)' /\ PlaceOf(p)' = None
  BY <1>2 DEF AtWork, PlaceOf, Idle
<1>4. /\ Phases' = [Phases EXCEPT ![v] = PhaseOf(v)']
      /\ Holders' = [Holders EXCEPT ![v] = HoldersOf(v)']
      /\ Places' = [Places EXCEPT ![p] = PlaceOf(p)']
  BY <1>1, <1>2, <1>3, LeaseFrame
<1>5. HoldersOf(v)' = {}
  BY <1>1, RenderJobsAssumption DEF RInv, HandlerOK, HoldersOf, AtWork, HoldsLease, Rendering
<1>6. PhaseOf(v)' = IF s = "COMPLETED" THEN "done" ELSE "open"
  BY <1>1 DEF PhaseOf
<1>7. /\ Phases[v] = "held"
      /\ Holders[v] = HoldersOf(v)
      /\ Places[p] = PlaceOf(p)
  BY DEF Phases, PhaseOf, Holders, Places
<1>8. CASE AtWork(p)
  <2>1. Places[p] = v /\ p \in Holders[v]
    BY <1>7, <1>8 DEF PlaceOf, HoldersOf
  <2>2. Lease!Finish(p, v) \/ Lease!GiveBack(p, v)
    BY <1>3, <1>4, <1>5, <1>6, <2>1 DEF Lease!Finish, Lease!GiveBack, Lease!Becomes
  <2> QED BY <2>2 DEF Lease!Next
<1>9. CASE ~AtWork(p)
  <2>1. Lease!Becomes(v, "open", {})
    BY <1>4, <1>5, <1>6, <1>9 DEF Lease!Becomes
  <2>2. UNCHANGED Places
    BY <1>3, <1>4, <1>9 DEF Places, PlaceOf
  <2>3. Lease!Revoke(v)
    BY <1>7, <2>1, <2>2 DEF Lease!Revoke
  <2> QED BY <2>3 DEF Lease!Next
<1> QED BY <1>8, <1>9

\* A claim grants the lease, and what was held before is held no more.
LEMMA LeaseClaimed ==
  ASSUME RInv, NEW p \in Procs, Claim(p)
  PROVE  [Lease!Next]_(Lease!leaseVars)
<1>1. PICK v \in Versions : v = job[p].version
  BY DEF Claim, RInv, HandlerOK
<1>2. PICK n \in Nat : n = jobs[v].attempt + 1
  BY DEF RInv, TypeOK, RenderJob
<1>3. ~AtWork(p)
  BY DEF Claim, AtWork
<1>4. CASE jobs[v].status \notin Claimable
  BY <1>1, <1>4, LeaseLeft DEF Claim
<1>5. CASE jobs[v].status \in Claimable
  <2>1. /\ jobs' = [jobs EXCEPT ![v] = [@ EXCEPT !.status = "PROCESSING", !.attempt = n, !.leaseId = n]]
        /\ job' = [job EXCEPT ![p] = [job[p] EXCEPT !.stage = "rendering", !.leaseId = n]]
    BY <1>1, <1>2, <1>5 DEF Claim, Goto
  <2>2. /\ jobs'[v].status = "PROCESSING" /\ jobs'[v].leaseId = n
        /\ \A u \in Versions \ {v} : jobs'[u] = jobs[u]
    BY <2>1 DEF RInv, TypeOK, RenderJob
  <2>3. /\ job'[p].stage = "rendering" /\ job'[p].version = v /\ job'[p].leaseId = n
        /\ \A q \in Procs \ {p} : job'[q] = job[q]
    BY <1>1, <2>1 DEF RInv, TypeOK, Job
  <2>4. AtWork(p)' /\ PlaceOf(p)' = v
    BY <2>3 DEF AtWork, PlaceOf
  <2>5. /\ Phases' = [Phases EXCEPT ![v] = PhaseOf(v)']
        /\ Holders' = [Holders EXCEPT ![v] = HoldersOf(v)']
        /\ Places' = [Places EXCEPT ![p] = PlaceOf(p)']
    BY <1>3, <2>2, <2>3, LeaseFrame
  <2>6. PhaseOf(v)' = "held"
    BY <2>2 DEF PhaseOf
  <2>7. HoldersOf(v)' = {p}
    <3>1. ASSUME NEW q \in Procs, q # p
          PROVE  ~(AtWork(q) /\ job[q].version = v /\ HoldsLease(q))'
      <4>1. CASE AtWork(q) /\ job[q].version = v
        <5>1. job[q].leaseId \in Nat /\ job[q].leaseId <= jobs[v].attempt
          BY <4>1 DEF RInv, HandlerOK, AtWork, Rendering
        <5>2. jobs[v].attempt \in Nat
          BY DEF RInv, TypeOK, RenderJob
        <5>3. job[q].leaseId # n
          BY <1>2, <5>1, <5>2
        <5> QED BY <3>1, <4>1, <5>3, <2>2, <2>3 DEF HoldsLease
      <4>2. CASE ~(AtWork(q) /\ job[q].version = v)
        BY <3>1, <4>2, <2>3 DEF AtWork
      <4> QED BY <4>1, <4>2
    <3>2. (AtWork(p) /\ job[p].version = v /\ HoldsLease(p))'
      BY <2>2, <2>3, <2>4 DEF HoldsLease
    <3> QED BY <3>1, <3>2 DEF HoldersOf
  <2>8. Places[p] = None /\ Phases[v] = "open"
    BY <1>3, <1>5 DEF Places, PlaceOf, Phases, PhaseOf, Claimable
  <2>9. Lease!Grant(p, v)
    BY <2>4, <2>5, <2>6, <2>7, <2>8 DEF Lease!Grant, Lease!Becomes
  <2> QED BY <2>9 DEF Lease!Next
<1> QED BY <1>4, <1>5

\* The insert makes a job that is open and unheld.
LEMMA LeaseCreated ==
  ASSUME RInv, RInv', NEW p \in Procs, CreateJob(p)
  PROVE  [Lease!Next]_(Lease!leaseVars)
<1>1. PICK v \in Versions : v = job[p].version
  BY DEF CreateJob
<1>2. CASE jobs[v].status # "ABSENT"
  BY <1>1, <1>2, LeaseLeft DEF CreateJob
<1>3. CASE jobs[v].status = "ABSENT"
  <2>1. /\ jobs' = [jobs EXCEPT ![v] = [NoRenderJob EXCEPT !.status = "QUEUED",
                                                           !.quoteHash = job[p].content]]
        /\ job' = [job EXCEPT ![p] = [Idle EXCEPT !.stage = "claiming", !.version = v]]
    BY <1>1, <1>3 DEF CreateJob, Goto
  <2>2. /\ jobs'[v].status = "QUEUED" /\ jobs'[v].leaseId = None
        /\ \A u \in Versions \ {v} : jobs'[u] = jobs[u]
    BY <2>1 DEF RInv, TypeOK, NoRenderJob
  <2>3. /\ job'[p].stage = "claiming"
        /\ \A q \in Procs \ {p} : job'[q] = job[q]
    BY <2>1 DEF RInv, TypeOK, Idle
  <2>4. jobs[v].leaseId = None
    BY <1>3 DEF RInv, LeaseOK
  <2>5. PhaseOf(v)' = PhaseOf(v)
    BY <1>3, <2>2 DEF PhaseOf
  <2>6. ~AtWork(p) /\ ~AtWork(p)'
    BY <2>3 DEF CreateJob, AtWork
  <2> QED BY <2>2, <2>3, <2>4, <2>5, <2>6, LeaseUnheld
<1> QED BY <1>2, <1>3

\* The ends of the renderer and of recovery.
LEMMA LeaseOutcome ==
  ASSUME RInv, RInv', NEW p \in Procs,
         \/ Complete(p) \/ RenderFailed(p)
         \/ RecoverStaleRenderLeases(p) \/ RetryFailedRenderJobs(p)
  PROVE  [Lease!Next]_(Lease!leaseVars)
<1>1. PICK v \in Versions : v = job[p].version
  BY DEF Complete, RenderFailed, RecoverStaleRenderLeases, RetryFailedRenderJobs,
         RInv, HandlerOK, Rendering
<1>2. Goto(p, Idle)
  BY DEF Complete, RenderFailed, RecoverStaleRenderLeases, RetryFailedRenderJobs
<1>3. CASE jobs' = jobs
  BY <1>2, <1>3, LeaseLeft
<1>4. CASE jobs' # jobs /\ (Complete(p) \/ RenderFailed(p))
  <2>1. PICK s \in {"COMPLETED", "FAILED"} : jobs' = Ended(v, s)
    BY <1>1, <1>4 DEF Complete, RenderFailed
  <2>2. AtWork(p) /\ HoldsLease(p)
    BY <1>4 DEF Complete, RenderFailed, AtWork
  <2>3. jobs[v].status = "PROCESSING"
    BY <1>1, <2>2, RenderJobsAssumption
       DEF RInv, LeaseOK, HandlerOK, HoldsLease, AtWork, Rendering
  <2> QED BY <1>1, <1>2, <2>1, <2>2, <2>3, LeaseEnded
<1>5. CASE jobs' # jobs /\ RecoverStaleRenderLeases(p)
  <2>1. ~AtWork(p) /\ jobs[v].status = "PROCESSING"
    BY <1>1, <1>5 DEF RecoverStaleRenderLeases, AtWork
  <2>2. PICK s \in {"QUEUED", "DEAD_LETTER"} : jobs' = Ended(v, s)
    BY <1>1, <1>5 DEF RecoverStaleRenderLeases, Outcome
  <2> QED BY <1>1, <1>2, <2>1, <2>2, LeaseEnded
<1>6. CASE jobs' # jobs /\ RetryFailedRenderJobs(p)
  <2>1. ~AtWork(p) /\ jobs[v].status = "FAILED"
    BY <1>1, <1>6 DEF RetryFailedRenderJobs, AtWork
  <2>2. PICK s \in {"QUEUED", "DEAD_LETTER"} : jobs' = Ended(v, s)
    BY <1>1, <1>6 DEF RetryFailedRenderJobs, Outcome
  <2>3. /\ jobs'[v].status = s /\ jobs'[v].leaseId = None
        /\ \A u \in Versions \ {v} : jobs'[u] = jobs[u]
    BY <2>2 DEF Ended, RInv, TypeOK, RenderJob
  <2>4. /\ job'[p] = Idle
        /\ \A q \in Procs \ {p} : job'[q] = job[q]
    BY <1>2 DEF Goto, RInv, TypeOK
  <2>5. jobs[v].leaseId = None
    BY <2>1 DEF RInv, LeaseOK
  <2>6. PhaseOf(v)' = PhaseOf(v)
    BY <2>1, <2>3 DEF PhaseOf
  <2>7. ~AtWork(p)'
    BY <2>4 DEF AtWork, Idle
  <2> QED BY <2>1, <2>3, <2>4, <2>5, <2>6, <2>7, LeaseUnheld
<1> QED BY <1>3, <1>4, <1>5, <1>6

\* Searching, numbering, scanning, rendering and writing grant and end nothing.
LEMMA LeaseQuiet ==
  ASSUME RInv, NEW p \in Procs,
         \/ Ask(p) \/ ScanStaleLeases(p) \/ ScanFailedJobs(p)
         \/ FindJob(p) \/ NextQuoteVersion(p) \/ Render(p) \/ WritePdf(p)
         \/ CompleteThrows(p)
  PROVE  UNCHANGED Lease!leaseVars
<1>1. UNCHANGED jobs
  BY DEF Ask, ScanStaleLeases, ScanFailedJobs, Scan, FindJob, NextQuoteVersion, Render, WritePdf,
         CompleteThrows
<1>2. \A q \in Procs \ {p} : job'[q] = job[q]
  BY DEF Ask, ScanStaleLeases, ScanFailedJobs, Scan, FindJob, NextQuoteVersion, Render, WritePdf,
         CompleteThrows, Goto, RInv, TypeOK
<1>3. CASE Render(p) \/ WritePdf(p) \/ CompleteThrows(p)
  <2>1. AtWork(p)
    BY <1>3 DEF Render, WritePdf, CompleteThrows, AtWork
  <2>2. /\ job'[p].stage \in {"writing", "failing", "completing"}
        /\ job'[p].version = job[p].version
        /\ job'[p].leaseId = job[p].leaseId
    <3>1. job[p] \in Job
      BY DEF RInv, TypeOK
    <3>2. PICK st \in {"writing", "failing", "completing"}, c \in {quote, None, job[p].content} :
            job' = [job EXCEPT ![p] = [job[p] EXCEPT !.stage = st, !.content = c]]
      <4>1. CASE Goto(p, [job[p] EXCEPT !.stage = "writing", !.content = quote])
        BY <4>1 DEF Goto
      <4>2. CASE Goto(p, [job[p] EXCEPT !.stage = "failing"])
        BY <3>1, <4>2 DEF Goto, Job
      <4>3. CASE WritePdf(p)
        BY <4>3 DEF WritePdf, Goto
      <4> QED BY <1>3, <4>1, <4>2, <4>3 DEF Render, CompleteThrows
    <3> QED BY <3>1, <3>2 DEF RInv, TypeOK, Job
  <2>3. AtWork(p)'
    BY <2>2 DEF AtWork
  <2> QED BY <1>1, <1>2, <2>1, <2>2, <2>3, LeaseStutter
<1>4. CASE ~(Render(p) \/ WritePdf(p) \/ CompleteThrows(p))
  <2>1. ~AtWork(p)
    <3>1. Idle.stage = "idle"
      BY DEF Idle
    <3>2. job[p] = Idle \/ job[p].stage \in {"hashed", "numbering"}
      BY <1>4 DEF Ask, ScanStaleLeases, ScanFailedJobs, Scan, FindJob, NextQuoteVersion
    <3> QED BY <3>1, <3>2 DEF AtWork
  <2>2. job'[p].stage \in {"idle", "hashed", "recovering", "retrying", "claiming", "numbering", "creating"}
    <3>1. /\ job \in [Procs -> Job]
          /\ Idle \in Job /\ Idle.stage = "idle"
      BY DEF RInv, TypeOK, Idle, Job, Stages
    <3> HIDE DEF Idle
    <3>2. CASE Ask(p)
      BY <3>1, <3>2 DEF Ask, Goto, Job
    <3>3. CASE FindJob(p)
      BY <3>1, <3>3 DEF FindJob, Goto, Job
    <3>4. CASE NextQuoteVersion(p)
      BY <3>1, <3>4 DEF NextQuoteVersion, Goto, Job
    <3>5. CASE ScanStaleLeases(p) \/ ScanFailedJobs(p)
      <4>1. ASSUME NEW st \in {"recovering", "retrying"}, NEW status, Scan(p, st, status)
            PROVE  job'[p].stage \in {"recovering", "retrying"}
        <5>1. PICK v \in Versions :
                job' = [job EXCEPT ![p] =
                  [Idle EXCEPT !.stage = st, !.version = v, !.leaseId = jobs[v].leaseId,
                               !.exhausted = (jobs[v].attempt >= MaxAttempts)]]
          BY <4>1 DEF Scan, Goto
        <5> QED BY <3>1, <5>1 DEF Job
      <4> QED BY <3>5, <4>1 DEF ScanStaleLeases, ScanFailedJobs
    <3> QED BY <1>4, <3>2, <3>3, <3>4, <3>5
  <2>3. ~AtWork(p)'
    BY <2>2 DEF AtWork
  <2> QED BY <1>1, <1>2, <2>1, <2>3, LeaseStutter
<1> QED BY <1>3, <1>4

\* Every step is a step of the contract or one it does not see.
LEMMA LeaseStep ==
  ASSUME RInv, RInv', [Next]_vars
  PROVE  [Lease!Next]_(Lease!leaseVars)
<1>1. CASE EditQuote \/ UNCHANGED vars
  BY <1>1 DEF EditQuote, vars, Lease!leaseVars, Phases, Places, Holders, PhaseOf, PlaceOf,
              HoldersOf, AtWork, HoldsLease, Versions
<1>2. ASSUME NEW p \in Procs, Ask(p) \/ ScanStaleLeases(p) \/ ScanFailedJobs(p)
      PROVE  [Lease!Next]_(Lease!leaseVars)
  BY <1>2, LeaseQuiet
<1>3. ASSUME NEW p \in Procs, Crash(p) PROVE [Lease!Next]_(Lease!leaseVars)
  BY <1>3, LeaseLeft DEF Crash
<1>4. ASSUME NEW p \in Procs, Work(p) PROVE [Lease!Next]_(Lease!leaseVars)
  BY <1>4, LeaseQuiet, LeaseCreated, LeaseClaimed, LeaseOutcome DEF Work
<1> QED BY <1>1, <1>2, <1>3, <1>4 DEF Next

\* The leaseId of a job is a lease: a renderer that was overtaken leaves without a
\* trace in the row, whatever it rendered, and a completed job is done for good.
THEOREM RenderImplementsLease == Spec => ImplementsLease
  BY LeasesNumbered, LeaseInit, LeaseStep, PTL DEF Spec, ImplementsLease, Lease!Spec
=============================================================================
