------------------------ MODULE AssistantToolsProofs ------------------------
(* Proofs about AssistantTools for every set of executions and requests.   *)
EXTENDS AssistantTools, FiniteSetTheorems, TLAPS

\* What an execution's row says: only a confirmed one of a writing tool has
\* run, a running one has a lease, and a success has its record.
ExecInv(e) ==
  LET row == execs[e] IN
  /\ row # NoExecution =>
       /\ row.confirmed => row.state \in {"RUNNING", "FAILED", "SUCCEEDED"}
       /\ row.tool \notin Reading /\ ~row.confirmed =>
            row.state \in {"AWAITING_CONFIRMATION", "CANCELLED"}
       /\ row.state = "RUNNING" => row.startedAt # None
       /\ row.state = "SUCCEEDED" /\ row.tool \notin Reading => effects[e] > 0
  /\ effects[e] > 0 => row # NoExecution /\ row.confirmed
  /\ effects[e] > 1 => row.tool = "task_follow_up_create"

\* What a request knows of the execution it works on.
JobInv(p) ==
  LET e == job[p].exec
      row == execs[e]
  IN  job[p] # Idle =>
        /\ row # NoExecution
        /\ job[p].seen.tool = row.tool
        /\ job[p].stage = "confirming" => row.tool \notin Reading
        /\ job[p].stage # "confirming" /\ row.tool \notin Reading => row.confirmed
        /\ job[p].stage = "planned" => row.tool \in Reading
        /\ job[p].stage = "missing" => row.tool \notin Reading
        /\ job[p].stage = "created" /\ row.tool \notin Reading => effects[e] > 0

\* The requests about to create a record.
Missing(e) == {p \in Procs : job[p].stage = "missing" /\ job[p].exec = e}

Closed(e) == execs[e].state \in {"FAILED", "SUCCEEDED"}

\* An open execution has one holder, and one more for each takeover of a live
\* one; an execution that ended can only have the overtaken ones.  The records
\* and the requests about to create one are no more than that either.
HolderInv(e) ==
  /\ IsFiniteSet(Holders(e))
  /\ Cardinality(Holders(e)) <= IF Closed(e) THEN takeovers[e] ELSE 1 + takeovers[e]
  /\ effects[e] + Cardinality(Missing(e)) <= 1 + takeovers[e]

IInv ==
  /\ TypeOK
  /\ \A e \in Execs : ExecInv(e) /\ HolderInv(e)
  /\ \A p \in Procs : JobInv(p)

-----------------------------------------------------------------------------
LEMMA InvInit == Init => IInv
  <1> SUFFICES ASSUME Init PROVE IInv
    OBVIOUS
  <1>1. \A e \in Execs : Holders(e) = {} /\ Missing(e) = {}
    BY DEF Init, Holders, Missing, Holds, Dispatching, Idle
  <1>2. \A e \in Execs : HolderInv(e)
    BY <1>1, FS_EmptySet DEF Init, HolderInv, Closed, NoExecution
  <1> QED
    BY <1>2, ToolAssumption DEF Init, IInv, TypeOK, ExecInv, JobInv, Idle, NoExecution, Times

\* A request that is not idle holds typed data.
LEMMA JobTyped ==
  ASSUME IInv, NEW p \in Procs, job[p] # Idle
  PROVE  /\ job[p] \in Job
         /\ job[p].exec \in Execs
         /\ job[p].seen \in Execution
         /\ execs[job[p].exec] \in Execution
  BY DEF IInv, TypeOK, Job, JobInv

LEMMA NotIdle ==
  ASSUME NEW p, job[p].stage # "idle"
  PROVE  job[p] # Idle
  BY DEF Idle

\* How the holders change when one request moves to j.
LEMMA Moves ==
  ASSUME NEW p \in Procs, NEW j, \A q \in Procs : job'[q] = IF q = p THEN j ELSE job[q], NEW x
  PROVE  /\ Holders(x)' = IF /\ j.stage \in {"dispatch", "missing", "created", "failing",
                                             "execute", "planned"}
                             /\ j.exec = x
                          THEN Holders(x) \cup {p} ELSE Holders(x) \ {p}
         /\ Missing(x)' = IF j.stage = "missing" /\ j.exec = x
                          THEN Missing(x) \cup {p} ELSE Missing(x) \ {p}
  <1>1. \A q \in Procs : Holds(q, x)' <=>
          IF q = p THEN /\ j.stage \in {"dispatch", "missing", "created", "failing",
                                        "execute", "planned"}
                        /\ j.exec = x
          ELSE Holds(q, x)
    BY DEF Holds, Dispatching
  <1>2. Holders(x)' = {q \in Procs : Holds(q, x)'}
    BY DEF Holders
  <1>3. Missing(x)' = {q \in Procs : job'[q].stage = "missing" /\ job'[q].exec = x}
    BY DEF Missing
  <1> QED
    BY <1>1, <1>2, <1>3 DEF Holders, Missing

\* What is counted are numbers, and who is about to create a record is a holder.
LEMMA Counts ==
  ASSUME IInv, NEW x \in Execs
  PROVE  /\ HolderInv(x) /\ effects[x] \in Nat /\ takeovers[x] \in Nat
         /\ IsFiniteSet(Holders(x)) /\ Cardinality(Holders(x)) \in Nat
         /\ IsFiniteSet(Missing(x)) /\ Cardinality(Missing(x)) \in Nat
         /\ Missing(x) \subseteq Holders(x)
         /\ Cardinality(Holders(x)) <= 1 + takeovers[x]
  <1>1. HolderInv(x) /\ effects[x] \in Nat /\ takeovers[x] \in Nat
    BY DEF IInv, TypeOK
  <1>2. Missing(x) \subseteq Holders(x)
    BY DEF Missing, Holders, Holds, Dispatching
  <1>3. IsFiniteSet(Holders(x))
    BY <1>1 DEF HolderInv
  <1>4. IsFiniteSet(Missing(x))
    BY <1>2, <1>3, FS_Subset
  <1>5. Cardinality(Holders(x)) \in Nat /\ Cardinality(Missing(x)) \in Nat
    BY <1>3, <1>4, FS_CardinalityType
  <1> QED
    BY <1>1, <1>2, <1>3, <1>4, <1>5 DEF HolderInv

\* An execution that keeps its holders, or loses some, stays within its bound.
LEMMA HoldersKept ==
  ASSUME IInv, NEW x \in Execs,
         Holders(x)' \subseteq Holders(x), Missing(x)' \subseteq Missing(x),
         effects'[x] = effects[x], takeovers'[x] \in Nat, takeovers[x] <= takeovers'[x],
         Closed(x)' => Closed(x)
  PROVE  HolderInv(x)'
  <1>1. /\ IsFiniteSet(Holders(x)') /\ Cardinality(Holders(x)') <= Cardinality(Holders(x))
        /\ IsFiniteSet(Missing(x)') /\ Cardinality(Missing(x)') <= Cardinality(Missing(x))
    BY Counts, FS_Subset
  <1>2. Cardinality(Holders(x)') \in Nat /\ Cardinality(Missing(x)') \in Nat
    BY <1>1, FS_CardinalityType
  <1>3. Cardinality(Holders(x)') <= IF Closed(x)' THEN takeovers'[x] ELSE 1 + takeovers'[x]
    BY <1>1, <1>2, Counts DEF HolderInv
  <1>4. effects'[x] + Cardinality(Missing(x)') <= 1 + takeovers'[x]
    BY <1>1, <1>2, Counts DEF HolderInv
  <1>5. Cardinality(Holders(x))' = Cardinality(Holders(x)')
    OBVIOUS
  <1> QED
    BY <1>1, <1>3, <1>4 DEF HolderInv

LEMMA PlanStep ==
  ASSUME IInv, NEW p \in Procs, NEW e \in Execs, NEW tool \in Tools, Plan(p, e, tool)
  PROVE  IInv'
  <1> DEFINE row == [state |-> IF ConfirmationRequired(tool) THEN "AWAITING_CONFIRMATION" ELSE "PLANNING",
                     tool |-> tool, startedAt |-> None, confirmed |-> FALSE]
             j == [stage |-> "execute", exec |-> e, seen |-> row, at |-> now]
  <1>1. row \in Execution /\ row # NoExecution
    BY DEF Execution, NoExecution, States, ConfirmationRequired
  <1>2. /\ execs' = [execs EXCEPT ![e] = row] /\ execs[e] = NoExecution /\ job[p] = Idle
        /\ UNCHANGED <<effects, now, takeovers>>
    BY DEF Plan
  <1>3. execs'[e] = row /\ \A x \in Execs \ {e} : execs'[x] = execs[x]
    BY <1>2 DEF IInv, TypeOK
  <1>4. IF tool \in Reading THEN job' = [job EXCEPT ![p] = j] ELSE job' = job
    BY <1>3 DEF Plan, Begin, ConfirmationRequired
  <1>5. j \in Job
    BY <1>1 DEF Job, IInv, TypeOK
  <1>6. TypeOK'
    BY <1>1, <1>2, <1>4, <1>5 DEF IInv, TypeOK
  <1>7. \A q \in Procs : job[q] # Idle => job[q].exec # e
    BY <1>2 DEF IInv, JobInv
  <1>8. \A q \in Procs : job'[q] = IF q = p /\ tool \in Reading THEN j ELSE job[q]
    BY <1>4 DEF IInv, TypeOK
  <1>9. ASSUME NEW x \in Execs PROVE ExecInv(x)'
    <2>1. CASE x = e
      <3>1. effects[e] \in Nat /\ ~(effects[e] > 0)
        BY <1>2 DEF IInv, ExecInv, TypeOK
      <3>2. ~(effects'[x] > 0) /\ ~(effects'[x] > 1) /\ execs'[x] = row
        BY <1>2, <1>3, <2>1, <3>1
      <3> QED
        BY <3>2 DEF ExecInv, ConfirmationRequired
    <2>2. CASE x # e
      BY <1>2, <1>3, <2>2 DEF IInv, ExecInv
    <2> QED
      BY <2>1, <2>2
  <1>10. ASSUME NEW x \in Execs PROVE HolderInv(x)'
    <2>1. takeovers'[x] \in Nat /\ takeovers[x] <= takeovers'[x] /\ effects'[x] = effects[x]
      BY <1>2, Counts
    <2>2. CASE x = e /\ tool \in Reading
      <3>1. Holders(x) = {} /\ Missing(x) = {}
        BY <1>7, <2>2, NotIdle DEF Holders, Missing, Holds, Dispatching
      <3>2. Holders(x)' = {p} /\ Missing(x)' = {}
        <4>1. \A q \in Procs : job'[q] = IF q = p THEN j ELSE job[q]
          BY <1>8, <2>2
        <4> HIDE DEF j
        <4>2. j.stage = "execute" /\ j.exec = x
          BY <2>2 DEF j
        <4> QED
          BY <3>1, <4>1, <4>2, Moves
      <3>3. effects[x] = 0
        BY <1>2, <2>2, Counts DEF IInv, ExecInv
      <3>4. ~Closed(x)'
        BY <1>3, <2>2 DEF Closed, ConfirmationRequired
      <3> QED
        BY <2>1, <3>2, <3>3, <3>4, Counts, FS_EmptySet, FS_Singleton DEF HolderInv
    <2>3. CASE ~(x = e /\ tool \in Reading)
      <3>1. Holders(x)' \subseteq Holders(x) /\ Missing(x)' \subseteq Missing(x)
        BY <1>8, <2>3 DEF Holders, Missing, Holds, Dispatching
      <3>2. Closed(x)' => Closed(x)
        BY <1>3 DEF Closed, ConfirmationRequired
      <3> QED
        BY <2>1, <3>1, <3>2, HoldersKept
    <2> QED
      BY <2>2, <2>3
  <1>11. ASSUME NEW q \in Procs PROVE JobInv(q)'
    BY <1>1, <1>2, <1>3, <1>7, <1>8, JobTyped DEF IInv, JobInv
  <1> QED
    BY <1>6, <1>9, <1>10, <1>11 DEF IInv

\* Steps of one request that write neither a row nor a record: enough to look
\* at the request itself.
LEMMA StageStep ==
  ASSUME IInv, NEW p \in Procs, NEW j \in Job \cup {Idle},
         job' = [job EXCEPT ![p] = j], UNCHANGED <<execs, effects, now, takeovers>>,
         JobInv(p)',
         \A e \in Execs : Holds(p, e)' =>
           /\ Holds(p, e)
           /\ j.stage = "missing" => effects[e] = 0
  PROVE  IInv'
  <1>1. \A q \in Procs : job'[q] = IF q = p THEN j ELSE job[q]
    BY DEF IInv, TypeOK
  <1>2. TypeOK'
    BY DEF IInv, TypeOK
  <1>3. ASSUME NEW x \in Execs PROVE ExecInv(x)'
    BY DEF IInv, ExecInv
  <1>4. ASSUME NEW x \in Execs PROVE HolderInv(x)'
    <2>1. Holders(x)' \subseteq Holders(x)
      BY <1>1 DEF Holders, Holds, Dispatching
    <2>2. CASE Missing(x)' \subseteq Missing(x)
      BY <2>1, <2>2, Counts, HoldersKept DEF Closed
    <2>3. CASE ~(Missing(x)' \subseteq Missing(x))
      <3>1. Holds(p, x)' /\ j.stage = "missing"
        BY <1>1, <2>3 DEF Missing, Holds, Dispatching
      <3>2. effects[x] = 0
        BY <3>1
      <3>3. Missing(x)' \subseteq Holders(x)
        BY <2>1 DEF Missing, Holders, Holds, Dispatching
      <3>4. /\ IsFiniteSet(Holders(x)') /\ Cardinality(Holders(x)') <= Cardinality(Holders(x))
            /\ IsFiniteSet(Missing(x)') /\ Cardinality(Missing(x)') <= Cardinality(Holders(x))
        BY <2>1, <3>3, Counts, FS_Subset
      <3>5. Cardinality(Holders(x)') \in Nat /\ Cardinality(Missing(x)') \in Nat
        BY <3>4, FS_CardinalityType
      <3>6. Cardinality(Holders(x)') <= IF Closed(x) THEN takeovers[x] ELSE 1 + takeovers[x]
        BY <3>4, <3>5, Counts DEF HolderInv
      <3>7. effects[x] + Cardinality(Missing(x)') <= 1 + takeovers[x]
        BY <3>2, <3>4, <3>5, Counts
      <3>8. Closed(x)' <=> Closed(x)
        BY DEF Closed
      <3> QED
        BY <3>4, <3>6, <3>7, <3>8 DEF HolderInv
    <2> QED
      BY <2>2, <2>3
  <1>5. ASSUME NEW q \in Procs PROVE JobInv(q)'
    BY <1>1 DEF IInv, JobInv
  <1> QED
    BY <1>2, <1>3, <1>4, <1>5 DEF IInv

LEMMA ConfirmStep ==
  ASSUME IInv, NEW p \in Procs, NEW e \in Execs, Confirm(p, e)
  PROVE  IInv'
  <1> DEFINE j == [stage |-> "confirming", exec |-> e, seen |-> execs[e], at |-> now]
  <1>1. job' = [job EXCEPT ![p] = j] /\ UNCHANGED <<execs, effects, now, takeovers>>
    BY DEF Confirm, Begin
  <1>2. execs[e] # NoExecution /\ execs[e].tool \notin Reading /\ execs[e] \in Execution
    BY DEF Confirm, NoExecution, ConfirmationRequired, IInv, TypeOK
  <1>3. j \in Job
    BY <1>2 DEF Job, IInv, TypeOK
  <1>4. job'[p] = j
    BY <1>1 DEF IInv, TypeOK
  <1>5. JobInv(p)'
    BY <1>1, <1>2, <1>4 DEF JobInv
  <1>6. \A x \in Execs : ~Holds(p, x)'
    BY <1>4 DEF Holds, Dispatching
  <1> HIDE DEF j
  <1> QED
    BY <1>1, <1>3, <1>5, <1>6, StageStep

LEMMA ExecuteStep ==
  ASSUME IInv, NEW p \in Procs, Execute(p)
  PROVE  IInv'
  <1> DEFINE e == job[p].exec
             row == execs[e]
  <1>1. job[p] # Idle /\ job[p].stage = "execute"
    BY NotIdle DEF Execute
  <1>2. e \in Execs /\ row \in Execution /\ job[p] \in Job
    BY <1>1, JobTyped
  <1>3. UNCHANGED <<execs, effects, now, takeovers>>
    BY DEF Execute
  <1>4. JobInv(p) /\ ExecInv(e) /\ row # NoExecution
    BY <1>1, <1>2 DEF IInv, JobInv
  <1>5. CASE row.state \in {"SUCCEEDED", "CANCELLED"}
    <2>1. job' = [job EXCEPT ![p] = Idle]
      BY <1>5 DEF Execute
    <2>2. job'[p] = Idle
      BY <2>1 DEF IInv, TypeOK
    <2>3. JobInv(p)' /\ \A x \in Execs : ~Holds(p, x)'
      BY <2>2 DEF JobInv, Holds, Dispatching, Idle
    <2> QED
      BY <1>3, <2>1, <2>3, StageStep
  <1>6. ASSUME NEW stage \in {"planned", "dispatch"},
               job' = [job EXCEPT ![p] = [job[p] EXCEPT !.stage = stage, !.seen = row]],
               stage = "planned" => row.tool \in Reading
        PROVE  IInv'
    <2> DEFINE j == [job[p] EXCEPT !.stage = stage, !.seen = row]
    <2>1. j \in Job /\ j.stage = stage /\ j.exec = e /\ j.seen = row
      BY <1>2 DEF Job
    <2>2. job'[p] = j
      BY <1>6 DEF IInv, TypeOK
    <2>3. JobInv(p)'
      BY <1>1, <1>3, <1>4, <1>6, <2>1, <2>2 DEF JobInv
    <2> HIDE DEF j
    <2>4. \A x \in Execs : Holds(p, x)' => Holds(p, x)
      BY <1>1, <2>1, <2>2 DEF Holds, Dispatching
    <2> QED
      BY <1>3, <1>6, <2>1, <2>3, <2>4, StageStep DEF j
  <1>7. CASE row.state = "PLANNING"
    <2>1. job' = [job EXCEPT ![p] = [job[p] EXCEPT !.stage = "planned", !.seen = row]]
      BY <1>7 DEF Execute
    <2>2. row.tool \in Reading
      BY <1>1, <1>4, <1>7 DEF ExecInv, JobInv
    <2> QED
      BY <1>6, <2>1, <2>2
  <1>8. CASE row.state \in {"AWAITING_CONFIRMATION", "RUNNING", "FAILED"}
    <2>1. job' = [job EXCEPT ![p] = [job[p] EXCEPT !.stage = "dispatch", !.seen = row]]
      BY <1>8 DEF Execute
    <2> QED
      BY <1>6, <2>1
  <1> QED
    BY <1>2, <1>5, <1>7, <1>8 DEF Execution, States

LEMMA LookStep ==
  ASSUME IInv, NEW p \in Procs, LookUp(p) \/ Throw(p)
  PROVE  IInv'
  <1> DEFINE e == job[p].exec
  <1>1. job[p] # Idle /\ job[p].stage = "dispatch"
    BY NotIdle DEF LookUp, Throw
  <1>2. e \in Execs /\ job[p] \in Job
    BY <1>1, JobTyped
  <1>3. JobInv(p) /\ effects[e] \in Nat
    BY <1>2 DEF IInv, TypeOK
  <1>4. PICK stage \in {"created", "missing", "failing"} :
          /\ job' = [job EXCEPT ![p] = [job[p] EXCEPT !.stage = stage]]
          /\ stage = "created" => job[p].seen.tool \in Reading \/ effects[e] > 0
          /\ stage = "missing" => job[p].seen.tool \notin Reading /\ ~(effects[e] > 0)
    BY DEF LookUp, Throw, Goes, IInv, TypeOK
  <1> DEFINE j == [job[p] EXCEPT !.stage = stage]
  <1>5. j \in Job /\ j.stage = stage /\ j.exec = e /\ j.seen = job[p].seen
    BY <1>2 DEF Job
  <1>6. job'[p] = j /\ UNCHANGED <<execs, effects, now, takeovers>>
    BY <1>4 DEF LookUp, Throw, IInv, TypeOK
  <1> HIDE DEF j
  <1>7. JobInv(p)'
    BY <1>1, <1>3, <1>4, <1>5, <1>6 DEF JobInv
  <1>8. \A x \in Execs : Holds(p, x)' => Holds(p, x) /\ x = e
    BY <1>1, <1>5, <1>6 DEF Holds, Dispatching
  <1>9. \A x \in Execs : Holds(p, x)' =>
          /\ Holds(p, x)
          /\ j.stage = "missing" => effects[x] = 0
    BY <1>3, <1>4, <1>5, <1>8
  <1>10. job' = [job EXCEPT ![p] = j]
    BY <1>4 DEF j
  <1> QED
    BY <1>5, <1>6, <1>7, <1>9, <1>10, StageStep

LEMMA AbandonStep ==
  ASSUME IInv, NEW p \in Procs, Abandon(p)
  PROVE  IInv'
  <1>1. job' = [job EXCEPT ![p] = Idle] /\ UNCHANGED <<execs, effects, now, takeovers>>
    BY DEF Abandon, Return
  <1>2. job'[p] = Idle
    BY <1>1 DEF IInv, TypeOK
  <1>3. JobInv(p)' /\ \A x \in Execs : ~Holds(p, x)'
    BY <1>2 DEF JobInv, Holds, Dispatching, Idle
  <1> QED
    BY <1>1, <1>3, StageStep

\* Taking an execution over, by its state or by its lease: it is running, and
\* the request that took it is a holder.
LEMMA TakeStep ==
  ASSUME IInv, NEW p \in Procs, job[p].stage = "confirming",
         NEW r \in Execution,
         r.tool = execs[job[p].exec].tool, r.state = "RUNNING", r.confirmed,
         r.startedAt # None,
         execs' = [execs EXCEPT ![job[p].exec] = r],
         Goes(p, "execute"), UNCHANGED <<effects, now>>,
         takeovers' \in [Execs -> Nat],
         \A x \in Execs : takeovers[x] <= takeovers'[x],
         Cardinality(Holders(job[p].exec)) <= takeovers'[job[p].exec]
  PROVE  IInv'
  <1> DEFINE e == job[p].exec
             j == [job[p] EXCEPT !.stage = "execute"]
  <1>1. job[p] # Idle
    BY NotIdle
  <1>2. e \in Execs /\ job[p] \in Job
    BY <1>1, JobTyped
  <1>3. j \in Job /\ j.stage = "execute" /\ j.exec = e /\ j.seen = job[p].seen
    BY <1>2 DEF Job
  <1>4. job' = [job EXCEPT ![p] = j]
    BY DEF Goes, IInv, TypeOK
  <1>5. \A q \in Procs : job'[q] = IF q = p THEN j ELSE job[q]
    BY <1>4 DEF IInv, TypeOK
  <1>6. \A x \in Execs : execs'[x] = IF x = e THEN r ELSE execs[x]
    BY <1>2 DEF IInv, TypeOK
  <1>7. r # NoExecution /\ j # Idle
    BY <1>3 DEF Execution, NoExecution, Idle
  <1> HIDE DEF j
  <1>8. TypeOK'
    BY <1>2, <1>3, <1>4 DEF IInv, TypeOK
  <1>9. execs[e].tool \notin Reading /\ execs[e] # NoExecution /\ job[p].seen.tool = execs[e].tool
    BY <1>1 DEF IInv, JobInv
  <1>10. ASSUME NEW x \in Execs PROVE ExecInv(x)'
    <2>1. ExecInv(x)
      BY DEF IInv
    <2>2. CASE x = e
      BY <1>6, <1>7, <1>9, <2>1, <2>2 DEF ExecInv
    <2>3. CASE x # e
      BY <1>6, <2>1, <2>3 DEF ExecInv
    <2> QED
      BY <2>2, <2>3
  <1>11. ASSUME NEW x \in Execs PROVE HolderInv(x)'
    <2>1. takeovers'[x] \in Nat /\ takeovers[x] <= takeovers'[x] /\ effects'[x] = effects[x]
      OBVIOUS
    <2>2. Missing(x)' \subseteq Missing(x)
      BY <1>3, <1>5 DEF Missing
    <2>3. CASE x = e
      <3>1. Holders(x)' = Holders(x) \cup {p}
        BY <1>3, <1>5, <2>3, Moves
      <3>2. IsFiniteSet(Holders(x)') /\ Cardinality(Holders(x)') <= Cardinality(Holders(x)) + 1
        <4>1. /\ IsFiniteSet(Holders(x) \cup {p})
              /\ Cardinality(Holders(x) \cup {p}) =
                   IF p \in Holders(x) THEN Cardinality(Holders(x)) ELSE Cardinality(Holders(x)) + 1
          BY Counts, FS_AddElement
        <4>2. Cardinality(Holders(x)) \in Nat
          BY Counts
        <4> QED
          BY <3>1, <4>1, <4>2
      <3>3. IsFiniteSet(Missing(x)') /\ Cardinality(Missing(x)') <= Cardinality(Missing(x))
        BY <2>2, Counts, FS_Subset
      <3>4. Cardinality(Holders(x)') \in Nat /\ Cardinality(Missing(x)') \in Nat
        BY <3>2, <3>3, FS_CardinalityType
      <3>5. ~Closed(x)'
        BY <1>6, <2>3 DEF Closed
      <3>6. Cardinality(Holders(x)') <= 1 + takeovers'[x]
        BY <2>1, <2>3, <3>2, <3>4, Counts
      <3>7. effects'[x] + Cardinality(Missing(x)') <= 1 + takeovers'[x]
        BY <2>1, <3>3, <3>4, Counts DEF HolderInv
      <3> QED
        BY <3>2, <3>5, <3>6, <3>7 DEF HolderInv
    <2>4. CASE x # e
      <3>1. Holders(x)' \subseteq Holders(x)
        BY <1>3, <1>5, <2>4 DEF Holders, Holds, Dispatching
      <3>2. Closed(x)' => Closed(x)
        BY <1>6, <2>4 DEF Closed
      <3> QED
        BY <2>1, <2>2, <3>1, <3>2, HoldersKept
    <2> QED
      BY <2>3, <2>4
  <1>12. ASSUME NEW q \in Procs PROVE JobInv(q)'
    <2>1. CASE q = p
      BY <1>3, <1>5, <1>6, <1>2, <1>7, <1>9, <2>1 DEF JobInv
    <2>2. CASE q # p
      <3>1. JobInv(q) /\ (job[q] # Idle => job[q].exec \in Execs)
        BY JobTyped DEF IInv
      <3> QED
        BY <1>5, <1>6, <1>7, <2>2, <3>1 DEF JobInv
    <2> QED
      BY <2>1, <2>2
  <1> QED
    BY <1>8, <1>10, <1>11, <1>12 DEF IInv

LEMMA ClaimStep ==
  ASSUME IInv, NEW p \in Procs, Claim(p)
  PROVE  IInv'
  <1> DEFINE e == job[p].exec
  <1>1. job[p] # Idle /\ job[p].stage = "confirming"
    BY NotIdle DEF Claim
  <1>2. e \in Execs /\ job[p] \in Job /\ execs[e] \in Execution
    BY <1>1, JobTyped
  <1>3. PICK t \in job[p].at .. now : execs' = [execs EXCEPT ![e] = Running(execs[e], t)]
    BY DEF Claim
  <1>4. t \in Times /\ t # None
    BY <1>2, <1>3, ToolAssumption DEF Job, Times, IInv, TypeOK
  <1> DEFINE r == Running(execs[e], t)
  <1>5. /\ r \in Execution /\ r.tool = execs[e].tool /\ r.state = "RUNNING" /\ r.confirmed
        /\ r.startedAt # None
    BY <1>2, <1>4 DEF Running, Execution, States
  <1>6. execs[e].state \in {"AWAITING_CONFIRMATION", "FAILED"}
    BY DEF Claim
  <1>7. Cardinality(Holders(e)) <= takeovers[e]
    <2>1. CASE execs[e].state = "FAILED"
      BY <1>2, <2>1, Counts DEF HolderInv, Closed
    <2>2. CASE execs[e].state = "AWAITING_CONFIRMATION"
      <3>1. execs[e].tool \notin Reading /\ execs[e] # NoExecution /\ ~execs[e].confirmed
        BY <1>1, <1>2, <2>2 DEF IInv, JobInv, ExecInv
      <3>2. \A q \in Procs : ~Holds(q, e)
        BY <3>1, NotIdle DEF IInv, JobInv, Holds, Dispatching
      <3>3. Holders(e) = {}
        BY <3>2 DEF Holders
      <3> QED
        BY <1>2, <3>3, FS_EmptySet, Counts
    <2> QED
      BY <1>6, <2>1, <2>2
  <1>8. Goes(p, "execute") /\ UNCHANGED <<effects, now, takeovers>>
    BY DEF Claim
  <1>9. /\ takeovers' = takeovers /\ takeovers' \in [Execs -> Nat]
        /\ \A x \in Execs : takeovers[x] <= takeovers'[x]
    BY <1>8, Counts DEF IInv, TypeOK
  <1> HIDE DEF r
  <1>10. execs' = [execs EXCEPT ![e] = r]
    BY <1>3 DEF r
  <1> QED
    BY <1>1, <1>5, <1>7, <1>8, <1>9, <1>10, TakeStep

LEMMA RecoverStep ==
  ASSUME IInv, NEW p \in Procs, Recover(p)
  PROVE  IInv'
  <1> DEFINE e == job[p].exec
  <1>1. job[p] # Idle /\ job[p].stage = "confirming"
    BY NotIdle DEF Recover
  <1>2. e \in Execs /\ job[p] \in Job /\ execs[e] \in Execution /\ job[p].seen \in Execution
    BY <1>1, JobTyped
  <1>3. PICK t \in job[p].at .. now :
          LeaseExpired(job[p].seen, t) /\ execs' = [execs EXCEPT ![e].startedAt = t]
    BY DEF Recover
  <1>4. t \in Times /\ t # None /\ t <= now /\ now \in Nat
    BY <1>2, <1>3, ToolAssumption DEF Job, Times, IInv, TypeOK
  <1> DEFINE r == [execs[e] EXCEPT !.startedAt = t]
  <1>5. execs[e].state = "RUNNING" /\ execs[e].startedAt = job[p].seen.startedAt
    BY DEF Recover, SameLease
  <1>6. ExecInv(e) /\ JobInv(p)
    BY <1>2 DEF IInv
  <1>7. execs[e].confirmed
    BY <1>1, <1>5, <1>6 DEF ExecInv, JobInv
  <1>8. /\ r \in Execution /\ r.tool = execs[e].tool /\ r.state = "RUNNING" /\ r.confirmed
        /\ r.startedAt # None
    BY <1>2, <1>4, <1>5, <1>7 DEF Execution
  <1>9. execs' = [execs EXCEPT ![e] = r]
    BY <1>3
  <1>10. takeovers' = IF Outlived(e) THEN [takeovers EXCEPT ![e] = takeovers[e] + 1] ELSE takeovers
    BY DEF Recover
  <1>11. Cardinality(Holders(e)) <= takeovers'[e]
    <2>1. execs[e].startedAt \in Nat
      BY <1>2, <1>1, <1>5, <1>6 DEF ExecInv, JobInv, Execution, Times
    <2>2. now >= execs[e].startedAt + Lease
      BY <1>3, <1>4, <1>5, <2>1, ToolAssumption DEF LeaseExpired, Times
    <2>3. CASE Outlived(e)
      <3>1. takeovers'[e] = takeovers[e] + 1
        BY <1>2, <1>10, <2>3 DEF IInv, TypeOK
      <3> QED
        BY <1>2, <3>1, Counts
    <2>4. CASE ~Outlived(e)
      <3>1. Holders(e) = {}
        BY <2>2, <2>4 DEF Outlived, Holders
      <3> QED
        BY <1>2, <1>10, <2>4, <3>1, FS_EmptySet, Counts
    <2> QED
      BY <2>3, <2>4
  <1>12. Goes(p, "execute") /\ UNCHANGED <<effects, now>>
    BY DEF Recover
  <1>13. takeovers' \in [Execs -> Nat] /\ \A x \in Execs : takeovers[x] <= takeovers'[x]
    <2>1. takeovers \in [Execs -> Nat]
      BY DEF IInv, TypeOK
    <2> QED
      BY <1>2, <1>10, <2>1
  <1> HIDE DEF r
  <1> QED
    BY <1>1, <1>8, <1>9, <1>11, <1>12, <1>13, TakeStep

\* Ending an execution with an outcome: the request that ends it is no holder
\* any more.
LEMMA EndStep ==
  ASSUME IInv, NEW p \in Procs, job[p].stage \in {"created", "failing"},
         NEW r \in Execution,
         r.tool = execs[job[p].exec].tool, r.state \in {"SUCCEEDED", "FAILED"},
         r.confirmed = execs[job[p].exec].confirmed,
         r.state = "SUCCEEDED" => job[p].stage = "created",
         execs' = [execs EXCEPT ![job[p].exec] = r],
         Return(p), UNCHANGED <<effects, now, takeovers>>
  PROVE  IInv'
  <1>1. job[p] # Idle
    BY NotIdle
  <1>2. PICK e \in Execs : e = job[p].exec
    BY <1>1, JobTyped
  <1>3. job[p] \in Job /\ execs[e] \in Execution /\ JobInv(p) /\ Holds(p, e)
    BY <1>1, <1>2, JobTyped DEF IInv, Holds, Dispatching
  <1>4. \A q \in Procs : job'[q] = IF q = p THEN Idle ELSE job[q]
    BY DEF Return, IInv, TypeOK
  <1>5. \A x \in Execs : execs'[x] = IF x = e THEN r ELSE execs[x]
    BY <1>2 DEF IInv, TypeOK
  <1>6. r # NoExecution
    BY DEF Execution, NoExecution
  <1>7. TypeOK'
    BY <1>2 DEF Return, IInv, TypeOK
  <1>8. ASSUME NEW x \in Execs PROVE ExecInv(x)'
    <2>1. ExecInv(x)
      BY DEF IInv
    <2>2. CASE x = e
      BY <1>1, <1>2, <1>3, <1>5, <1>6, <2>1, <2>2 DEF ExecInv, JobInv
    <2>3. CASE x # e
      BY <1>5, <2>1, <2>3 DEF ExecInv
    <2> QED
      BY <2>2, <2>3
  <1>9. ASSUME NEW x \in Execs PROVE HolderInv(x)'
    <2>1. takeovers'[x] = takeovers[x] /\ effects'[x] = effects[x]
      OBVIOUS
    <2>2. Holders(x)' \subseteq Holders(x) /\ Missing(x)' \subseteq Missing(x)
      BY <1>4 DEF Holders, Missing, Holds, Dispatching, Idle
    <2>3. CASE x = e
      <3>1. Holders(x)' = Holders(x) \ {p}
        BY <1>4, Moves DEF Idle
      <3>2. p \in Holders(x)
        BY <1>3, <2>3 DEF Holders
      <3>3. IsFiniteSet(Holders(x)') /\ Cardinality(Holders(x)') = Cardinality(Holders(x)) - 1
        BY <3>1, <3>2, Counts, FS_RemoveElement
      <3>4. IsFiniteSet(Missing(x)') /\ Cardinality(Missing(x)') <= Cardinality(Missing(x))
        BY <2>2, Counts, FS_Subset
      <3>5. Cardinality(Missing(x)') \in Nat
        BY <3>4, FS_CardinalityType
      <3>6. Cardinality(Holders(x)') <= takeovers'[x]
        BY <2>1, <3>3, Counts
      <3>7. effects'[x] + Cardinality(Missing(x)') <= 1 + takeovers'[x]
        BY <2>1, <3>4, <3>5, Counts DEF HolderInv
      <3>8. Cardinality(Holders(x)') <= IF Closed(x)' THEN takeovers'[x] ELSE 1 + takeovers'[x]
        BY <2>1, <3>3, <3>6, Counts
      <3> QED
        BY <3>3, <3>7, <3>8 DEF HolderInv
    <2>4. CASE x # e
      <3>1. Closed(x)' => Closed(x)
        BY <1>5, <2>4 DEF Closed
      <3> QED
        BY <2>1, <2>2, <3>1, Counts, HoldersKept
    <2> QED
      BY <2>3, <2>4
  <1>10. ASSUME NEW q \in Procs PROVE JobInv(q)'
    <2>1. CASE q = p
      BY <1>4, <2>1 DEF JobInv
    <2>2. CASE q # p
      <3>1. JobInv(q) /\ (job[q] # Idle => job[q].exec \in Execs)
        BY JobTyped DEF IInv
      <3> QED
        BY <1>2, <1>4, <1>5, <1>6, <2>2, <3>1 DEF JobInv
    <2> QED
      BY <2>1, <2>2
  <1> QED
    BY <1>7, <1>8, <1>9, <1>10 DEF IInv

LEMMA OutcomeStep ==
  ASSUME IInv, NEW p \in Procs, Fail(p) \/ Succeed(p)
  PROVE  IInv'
  <1> DEFINE e == job[p].exec
             started == IF job[p].seen.startedAt = None THEN now ELSE job[p].seen.startedAt
             failed == [execs[e] EXCEPT !.state = "FAILED"]
             succeeded == [execs[e] EXCEPT !.state = "SUCCEEDED", !.startedAt = started]
  <1>1. job[p] # Idle
    BY NotIdle DEF Fail, Succeed
  <1>2. e \in Execs /\ execs[e] \in Execution /\ job[p].seen \in Execution /\ now \in Times
    BY <1>1, JobTyped DEF IInv, TypeOK
  <1>3. CASE Fail(p)
    <2>1. /\ failed \in Execution /\ failed.tool = execs[e].tool /\ failed.state = "FAILED"
          /\ failed.confirmed = execs[e].confirmed
      BY <1>2 DEF Execution, States
    <2>2. execs' = [execs EXCEPT ![e] = failed]
      BY <1>3 DEF Fail
    <2> HIDE DEF failed
    <2> QED
      BY <1>3, <2>1, <2>2, EndStep DEF Fail
  <1>4. CASE Succeed(p)
    <2>1. started \in Times \cup {None}
      BY <1>2 DEF Execution
    <2>2. /\ succeeded \in Execution /\ succeeded.tool = execs[e].tool
          /\ succeeded.state = "SUCCEEDED" /\ succeeded.confirmed = execs[e].confirmed
      <3> HIDE DEF started
      <3> QED
        BY <1>2, <2>1 DEF Execution, States
    <2>3. execs' = [execs EXCEPT ![e] = succeeded]
      BY <1>4 DEF Succeed
    <2> HIDE DEF succeeded
    <2> QED
      BY <1>4, <2>2, <2>3, EndStep DEF Succeed
  <1> QED
    BY <1>3, <1>4

\* A planned read starts whatever its row says; cancel() ends what has not run.
LEMMA StartStep ==
  ASSUME IInv, NEW p \in Procs, StartPlanned(p)
  PROVE  IInv'
  <1>1. job[p] # Idle /\ job[p].stage = "planned"
    BY NotIdle DEF StartPlanned
  <1>2. PICK e \in Execs : e = job[p].exec
    BY <1>1, JobTyped
  <1> DEFINE j == [job[p] EXCEPT !.stage = "dispatch"]
             r == IF execs[e].state # "PLANNING" THEN execs[e]
                  ELSE [execs[e] EXCEPT !.state = "RUNNING", !.startedAt = now]
  <1>3. job[p] \in Job /\ execs[e] \in Execution /\ JobInv(p) /\ Holds(p, e) /\ ExecInv(e)
    BY <1>1, <1>2, JobTyped DEF IInv, Holds
  <1>4. j \in Job /\ j.stage = "dispatch" /\ j.exec = e /\ j.seen = job[p].seen
    BY <1>2, <1>3 DEF Job
  <1>5. now \in Times /\ now # None
    BY ToolAssumption DEF IInv, TypeOK, Times
  <1>6. /\ r \in Execution /\ r.tool = execs[e].tool /\ r.confirmed = execs[e].confirmed
        /\ \/ r.state = execs[e].state /\ r.startedAt = execs[e].startedAt
           \/ execs[e].state = "PLANNING" /\ r.state = "RUNNING" /\ r.startedAt = now
    BY <1>3, <1>5 DEF Execution, States
  <1>7. execs' = [execs EXCEPT ![e] = r] /\ job' = [job EXCEPT ![p] = j]
    BY <1>2 DEF StartPlanned, Goes, IInv, TypeOK
  <1>8. UNCHANGED <<effects, now, takeovers>>
    BY DEF StartPlanned
  <1>9. r # NoExecution /\ j # Idle
    BY <1>4, <1>6 DEF Execution, NoExecution, Idle
  <1>10. execs[e].tool \in Reading
    BY <1>1, <1>2, <1>3 DEF JobInv
  <1> HIDE DEF r, j
  <1>11. \A q \in Procs : job'[q] = IF q = p THEN j ELSE job[q]
    BY <1>7 DEF IInv, TypeOK
  <1>12. \A x \in Execs : execs'[x] = IF x = e THEN r ELSE execs[x]
    BY <1>7 DEF IInv, TypeOK
  <1>13. TypeOK'
    BY <1>4, <1>6, <1>7, <1>8 DEF IInv, TypeOK
  <1>14. ASSUME NEW x \in Execs PROVE ExecInv(x)'
    <2>1. CASE x = e
      BY <1>1, <1>2, <1>3, <1>5, <1>6, <1>8, <1>9, <1>10, <1>12, <2>1 DEF ExecInv, JobInv
    <2>2. CASE x # e
      BY <1>8, <1>12, <2>2 DEF IInv, ExecInv
    <2> QED
      BY <2>1, <2>2
  <1>15. ASSUME NEW x \in Execs PROVE HolderInv(x)'
    <2>1. Holders(x)' \subseteq Holders(x) /\ Missing(x)' \subseteq Missing(x)
      BY <1>1, <1>2, <1>4, <1>11 DEF Holders, Missing, Holds, Dispatching
    <2>2. Closed(x)' => Closed(x)
      BY <1>6, <1>12 DEF Closed
    <2> QED
      BY <1>8, <2>1, <2>2, Counts, HoldersKept
  <1>16. ASSUME NEW q \in Procs PROVE JobInv(q)'
    <2>1. CASE q = p
      BY <1>1, <1>2, <1>3, <1>4, <1>6, <1>9, <1>10, <1>11, <1>12, <2>1 DEF JobInv
    <2>2. CASE q # p
      <3>1. JobInv(q) /\ (job[q] # Idle => job[q].exec \in Execs)
        BY JobTyped DEF IInv
      <3> QED
        BY <1>6, <1>8, <1>9, <1>11, <1>12, <2>2, <3>1 DEF JobInv
    <2> QED
      BY <2>1, <2>2
  <1> QED
    BY <1>13, <1>14, <1>15, <1>16 DEF IInv

LEMMA CreateStep ==
  ASSUME IInv, NEW p \in Procs, Create(p)
  PROVE  IInv'
  <1>1. job[p] # Idle /\ job[p].stage = "missing"
    BY NotIdle DEF Create
  <1>2. PICK e \in Execs : e = job[p].exec
    BY <1>1, JobTyped
  <1>3. /\ job[p] \in Job /\ execs[e] \in Execution /\ JobInv(p) /\ ExecInv(e) /\ Holds(p, e)
        /\ effects[e] \in Nat
    BY <1>1, <1>2, JobTyped DEF IInv, TypeOK, Holds, Dispatching
  <1>4. PICK n \in Nat, stage \in {"created", "failing"} :
          /\ effects' = [effects EXCEPT ![e] = n]
          /\ n >= effects[e]
          /\ stage = "created" => n > 0
          /\ n <= effects[e] + 1
          /\ n > 1 => execs[e].tool = "task_follow_up_create"
          /\ Goes(p, stage)
    <2>1. CASE effects' = effects /\ Goes(p, "failing")
      <3>1. effects' = [effects EXCEPT ![e] = effects[e]]
        BY <2>1 DEF IInv, TypeOK
      <3>2. effects[e] > 1 => execs[e].tool = "task_follow_up_create"
        BY <1>3 DEF ExecInv
      <3> DEFINE n == effects[e]
      <3>3. n \in Nat /\ n >= effects[e] /\ n <= effects[e] + 1
        BY <1>3
      <3> HIDE DEF n
      <3> QED
        BY <2>1, <3>1, <3>2, <3>3 DEF n
    <2>2. ASSUME NEW stage \in {"created", "failing"}, Goes(p, stage),
                 job[p].seen.tool = "quote_draft_create" => effects[e] = 0,
                 effects' = [effects EXCEPT ![e] = IF job[p].seen.tool = "message_draft_prepare"
                                                   THEN 1 ELSE effects[e] + 1]
          PROVE  \E n \in Nat, st \in {"created", "failing"} :
                   /\ effects' = [effects EXCEPT ![e] = n]
                   /\ n >= effects[e]
                   /\ st = "created" => n > 0
                   /\ n <= effects[e] + 1
                   /\ n > 1 => execs[e].tool = "task_follow_up_create"
                   /\ Goes(p, st)
      <3> DEFINE n == IF job[p].seen.tool = "message_draft_prepare" THEN 1 ELSE effects[e] + 1
      <3>1. job[p].seen.tool = execs[e].tool /\ execs[e].tool \notin Reading
        BY <1>1, <1>2, <1>3 DEF JobInv
      <3>2. execs[e].tool \in {"task_follow_up_create", "quote_draft_create", "message_draft_prepare"}
        BY <1>3, <3>1 DEF Execution, Tools, Reading
      <3>3. effects[e] > 1 => execs[e].tool = "task_follow_up_create"
        BY <1>3 DEF ExecInv
      <3>4. n \in Nat /\ n >= effects[e] /\ n <= effects[e] + 1 /\ n > 0
        BY <1>3, <3>1, <3>3
      <3>5. n > 1 => execs[e].tool = "task_follow_up_create"
        BY <1>3, <2>2, <3>1, <3>2
      <3> HIDE DEF n
      <3>6. effects' = [effects EXCEPT ![e] = n]
        BY <2>2 DEF n
      <3> QED
        BY <2>2, <3>4, <3>5, <3>6
    <2> QED
      BY <1>2, <2>1, <2>2 DEF Create
  <1> DEFINE j == [job[p] EXCEPT !.stage = stage]
  <1>5. j \in Job /\ j.stage = stage /\ j.exec = e /\ j.seen = job[p].seen
    BY <1>2, <1>3 DEF Job
  <1>6. job' = [job EXCEPT ![p] = j]
    BY <1>4 DEF Goes, IInv, TypeOK
  <1>7. UNCHANGED <<execs, now, takeovers>>
    BY DEF Create
  <1> HIDE DEF j
  <1>8. \A q \in Procs : job'[q] = IF q = p THEN j ELSE job[q]
    BY <1>6 DEF IInv, TypeOK
  <1>9. \A x \in Execs : effects'[x] = IF x = e THEN n ELSE effects[x]
    BY <1>4 DEF IInv, TypeOK
  <1>10. TypeOK'
    BY <1>4, <1>5, <1>6, <1>7 DEF IInv, TypeOK
  <1>11. execs[e].tool \notin Reading /\ execs[e].confirmed /\ execs[e] # NoExecution
    BY <1>1, <1>2, <1>3 DEF JobInv
  <1>13. ASSUME NEW x \in Execs PROVE ExecInv(x)'
    <2>1. CASE x = e
      <3>1. effects'[x] = n /\ execs'[x] = execs[e]
        BY <1>7, <1>9, <2>1
      <3>2. n > 1 => execs[e].tool = "task_follow_up_create"
        BY <1>4
      <3>3. effects[e] > 0 => n > 0
        BY <1>3, <1>4
      <3> QED
        BY <1>3, <1>11, <2>1, <3>1, <3>2, <3>3 DEF ExecInv
    <2>2. CASE x # e
      BY <1>7, <1>9, <2>2 DEF IInv, ExecInv
    <2> QED
      BY <2>1, <2>2
  <1>14. ASSUME NEW x \in Execs PROVE HolderInv(x)'
    <2>1. Holders(x)' \subseteq Holders(x) /\ Missing(x)' \subseteq Missing(x)
      BY <1>1, <1>2, <1>4, <1>5, <1>8 DEF Holders, Missing, Holds, Dispatching
    <2>2. Closed(x)' <=> Closed(x)
      BY <1>7 DEF Closed
    <2>3. takeovers'[x] = takeovers[x]
      BY <1>7
    <2>4. CASE x = e
      <3>1. Missing(x)' = Missing(x) \ {p} /\ p \in Missing(x)
        <4>1. Missing(x)' = Missing(x) \ {p}
          BY <1>4, <1>5, <1>8, Moves
        <4> QED
          BY <1>1, <1>2, <2>4, <4>1 DEF Missing
      <3>2. Cardinality(Missing(x)') = Cardinality(Missing(x)) - 1
        BY <3>1, Counts, FS_RemoveElement
      <3>3. /\ IsFiniteSet(Holders(x)') /\ Cardinality(Holders(x)') <= Cardinality(Holders(x))
            /\ Cardinality(Holders(x)') \in Nat
        BY <2>1, Counts, FS_Subset, FS_CardinalityType
      <3>4. effects'[x] \in Nat /\ effects'[x] <= effects[x] + 1
        BY <1>4, <1>9, <2>4
      <3>5. effects'[x] + Cardinality(Missing(x)') <= 1 + takeovers'[x]
        BY <2>3, <3>2, <3>4, Counts DEF HolderInv
      <3>6. Cardinality(Holders(x)') <= IF Closed(x)' THEN takeovers'[x] ELSE 1 + takeovers'[x]
        BY <2>2, <2>3, <3>3, Counts DEF HolderInv
      <3> QED
        BY <3>3, <3>5, <3>6 DEF HolderInv
    <2>5. CASE x # e
      BY <1>9, <2>1, <2>2, <2>3, <2>5, Counts, HoldersKept
    <2> QED
      BY <2>4, <2>5
  <1>15. ASSUME NEW q \in Procs PROVE JobInv(q)'
    <2>1. CASE q = p
      BY <1>1, <1>2, <1>3, <1>4, <1>5, <1>7, <1>8, <1>9, <2>1 DEF JobInv
    <2>2. CASE q # p
      <3>1. JobInv(q) /\ (job[q] # Idle => job[q].exec \in Execs)
        BY JobTyped DEF IInv
      <3>2. effects[e] > 0 => n > 0
        BY <1>3, <1>4
      <3> QED
        BY <1>7, <1>8, <1>9, <2>2, <3>1, <3>2 DEF JobInv
    <2> QED
      BY <2>1, <2>2
  <1> QED
    BY <1>10, <1>13, <1>14, <1>15 DEF IInv

LEMMA CancelStep ==
  ASSUME IInv, NEW e \in Execs, Cancel(e)
  PROVE  IInv'
  <1> DEFINE r == [execs[e] EXCEPT !.state = "CANCELLED"]
  <1>1. execs[e].state \in {"AWAITING_CONFIRMATION", "PLANNING"} /\ execs[e] \in Execution
    BY DEF Cancel, IInv, TypeOK, NoExecution
  <1>2. r \in Execution /\ r.tool = execs[e].tool /\ r.confirmed = execs[e].confirmed
        /\ r.state = "CANCELLED" /\ r # NoExecution
    BY <1>1 DEF Execution, States, NoExecution
  <1>3. execs' = [execs EXCEPT ![e] = r] /\ UNCHANGED <<effects, job, now, takeovers>>
    BY DEF Cancel
  <1> HIDE DEF r
  <1>4. \A x \in Execs : execs'[x] = IF x = e THEN r ELSE execs[x]
    BY <1>3 DEF IInv, TypeOK
  <1>5. TypeOK'
    BY <1>2, <1>3 DEF IInv, TypeOK
  <1>6. ASSUME NEW x \in Execs PROVE ExecInv(x)'
    <2>1. CASE x = e
      <3>1. ExecInv(e) /\ execs[e] # NoExecution
        BY <1>1 DEF IInv, NoExecution
      <3>2. ~execs[e].confirmed
        BY <1>1, <3>1 DEF ExecInv
      <3>3. execs'[x] = r /\ effects'[x] = effects[e]
        BY <1>3, <1>4, <2>1
      <3>4. ~(effects[e] > 0) /\ effects[e] \in Nat
        BY <3>1, <3>2 DEF ExecInv, IInv, TypeOK
      <3> QED
        BY <1>2, <3>2, <3>3, <3>4 DEF ExecInv
    <2>2. CASE x # e
      BY <1>3, <1>4, <2>2 DEF IInv, ExecInv
    <2> QED
      BY <2>1, <2>2
  <1>7. ASSUME NEW x \in Execs PROVE HolderInv(x)'
    <2>1. Holders(x)' = Holders(x) /\ Missing(x)' = Missing(x)
      BY <1>3 DEF Holders, Missing, Holds, Dispatching
    <2>2. Closed(x)' => Closed(x)
      BY <1>2, <1>4 DEF Closed
    <2> QED
      BY <1>3, <2>1, <2>2, Counts, HoldersKept
  <1>8. ASSUME NEW q \in Procs PROVE JobInv(q)'
    <2>1. JobInv(q) /\ (job[q] # Idle => job[q].exec \in Execs)
      BY JobTyped DEF IInv
    <2> QED
      BY <1>2, <1>3, <1>4, <2>1 DEF JobInv
  <1> QED
    BY <1>5, <1>6, <1>7, <1>8 DEF IInv

LEMMA QuietStep ==
  ASSUME IInv, Tick \/ UNCHANGED vars
  PROVE  IInv'
  <1>1. UNCHANGED <<execs, effects, job, takeovers>> /\ now' \in Times
    BY ToolAssumption DEF Tick, vars, IInv, TypeOK, Times
  <1>2. \A x \in Execs : Holders(x)' = Holders(x) /\ Missing(x)' = Missing(x)
    BY <1>1 DEF Holders, Missing, Holds, Dispatching
  <1>3. ASSUME NEW x \in Execs PROVE HolderInv(x)'
    BY <1>1, <1>2, Counts, HoldersKept DEF Closed
  <1> QED
    BY <1>1, <1>3 DEF IInv, TypeOK, ExecInv, JobInv

LEMMA InvNext == IInv /\ [Next]_vars => IInv'
  <1> SUFFICES ASSUME IInv, [Next]_vars PROVE IInv'
    OBVIOUS
  <1>1. ASSUME NEW p \in Procs, Request(p)
        PROVE  IInv'
    BY <1>1, PlanStep, ConfirmStep, ClaimStep, RecoverStep, ExecuteStep, StartStep, LookStep,
       CreateStep, OutcomeStep, AbandonStep DEF Request
  <1> QED
    BY <1>1, CancelStep, QuietStep DEF Next

-----------------------------------------------------------------------------
(* Theorems.                                                               *)

\* The inductive invariant: rows, requests and records agree.
THEOREM ToolInvariant == Spec => []IInv
  BY InvInit, InvNext, PTL DEF Spec

\* Executions, requests and counters keep their types.
THEOREM ToolTypeCorrect == Spec => []TypeOK
  <1>1. IInv => TypeOK
    BY DEF IInv
  <1> QED
    BY <1>1, ToolInvariant, PTL

\* No tool writes for an execution that the user did not confirm, or cancelled.
THEOREM ConfirmedWrites == Spec => []OnlyConfirmedWrites
  <1>1. IInv => OnlyConfirmedWrites
    <2> SUFFICES ASSUME IInv, NEW e \in Execs
                 PROVE  /\ effects[e] > 0 => execs[e].confirmed /\ execs[e].state # "CANCELLED"
                        /\ \A p \in Procs :
                             Dispatching(p) /\ job[p].exec = e /\ job[p].seen.tool \notin Reading =>
                               execs[e].confirmed /\ execs[e].state # "CANCELLED"
      BY DEF OnlyConfirmedWrites
    <2>1. ExecInv(e)
      BY DEF IInv
    <2>2. ASSUME NEW p \in Procs, Dispatching(p), job[p].exec = e, job[p].seen.tool \notin Reading
          PROVE  execs[e].confirmed /\ execs[e] # NoExecution
      BY <2>2, NotIdle DEF IInv, JobInv, Dispatching
    <2> QED
      BY <2>1, <2>2 DEF ExecInv
  <1> QED
    BY <1>1, ToolInvariant, PTL

\* A success that is reported rests on a record in the CRM.
THEOREM SuccessRecorded == Spec => []SuccessHasRecord
  <1>1. IInv => SuccessHasRecord
    BY DEF IInv, ExecInv, SuccessHasRecord, NoExecution
  <1> QED
    BY <1>1, ToolInvariant, PTL

\* However often an execution is repeated, it leaves one quote or draft, and
\* one reminder besides those of the takeovers of a live holder.
THEOREM OneRecordEach == Spec => []OneRecord
  <1>1. IInv => OneRecord
    <2> SUFFICES ASSUME IInv, NEW e \in Execs, effects[e] > 1
                 PROVE  /\ execs[e].tool = "task_follow_up_create"
                        /\ effects[e] <= 1 + takeovers[e]
      BY DEF OneRecord
    <2>1. ExecInv(e)
      BY DEF IInv
    <2> QED
      BY <2>1, Counts DEF ExecInv, HolderInv
  <1> QED
    BY <1>1, ToolInvariant, PTL

\* One request carries out an execution, and one more for each takeover of a
\* live holder.
THEOREM DispatchedByOne == Spec => []DispatchedOnce
  <1>1. IInv => DispatchedOnce
    BY Counts DEF DispatchedOnce
  <1> QED
    BY <1>1, ToolInvariant, PTL

\* A reported success is only written over by the outcome of a holder, after
\* the execution was taken over from a live one.
THEOREM SuccessKept == Spec => SuccessStays
  <1>1. ASSUME IInv, Next, NEW e \in Execs, execs[e].state = "SUCCEEDED"
        PROVE  \/ execs'[e] = execs[e]
               \/ /\ takeovers[e] > 0
                  /\ execs'[e].state \in {"SUCCEEDED", "FAILED"}
                  /\ \E p \in Procs : Holds(p, e) /\ ~Holds(p, e)'
    <2>1. execs \in [Execs -> Execution \cup {NoExecution}] /\ job \in [Procs -> Job \cup {Idle}]
      BY <1>1 DEF IInv, TypeOK
    <2>2. \A p \in Procs : Holds(p, e) => takeovers[e] > 0
      <3> SUFFICES ASSUME NEW p \in Procs, Holds(p, e), ~(takeovers[e] > 0) PROVE FALSE
        OBVIOUS
      <3>1. Cardinality(Holders(e)) = 0
        BY <1>1, Counts DEF HolderInv, Closed
      <3>2. Holders(e) = {}
        BY <1>1, <3>1, Counts, FS_EmptySet
      <3> QED
        BY <3>2 DEF Holders
    <2>3. ASSUME NEW p \in Procs, NEW x \in Execs, NEW tool \in Tools, Plan(p, x, tool)
          PROVE  execs'[e] = execs[e]
      BY <1>1, <2>1, <2>3 DEF Plan, NoExecution
    <2>4. ASSUME NEW p \in Procs, Claim(p) \/ Recover(p)
          PROVE  execs'[e] = execs[e]
      BY <1>1, <2>1, <2>4 DEF Claim, Recover, SameLease
    <2>5. ASSUME NEW p \in Procs, StartPlanned(p)
          PROVE  execs'[e] = execs[e]
      BY <1>1, <2>1, <2>5 DEF StartPlanned
    <2>6. ASSUME NEW p \in Procs, Fail(p) \/ Succeed(p), job[p].exec = e
          PROVE  /\ takeovers[e] > 0
                 /\ execs'[e].state \in {"SUCCEEDED", "FAILED"}
                 /\ Holds(p, e) /\ ~Holds(p, e)'
      <3>1. Holds(p, e)
        BY <2>6 DEF Fail, Succeed, Holds, Dispatching
      <3>2. job'[p] = Idle
        BY <2>1, <2>6 DEF Fail, Succeed, Return
      <3>3. execs[e] \in Execution
        BY <1>1, <2>1 DEF NoExecution
      <3>4. execs'[e].state \in {"SUCCEEDED", "FAILED"}
        <4>1. CASE Fail(p)
          <5>1. execs'[e] = [execs[e] EXCEPT !.state = "FAILED"]
            BY <2>1, <2>6, <4>1 DEF Fail
          <5> QED
            BY <3>3, <5>1 DEF Execution
        <4>2. CASE Succeed(p)
          <5>1. PICK t : execs'[e] = [execs[e] EXCEPT !.state = "SUCCEEDED", !.startedAt = t]
            BY <2>1, <2>6, <4>2 DEF Succeed
          <5> QED
            BY <3>3, <5>1 DEF Execution
        <4> QED
          BY <2>6, <4>1, <4>2
      <3> QED
        BY <2>2, <3>1, <3>2, <3>4 DEF Holds, Dispatching, Idle
    <2>7. ASSUME NEW p \in Procs, Fail(p) \/ Succeed(p), job[p].exec # e
          PROVE  execs'[e] = execs[e]
      BY <2>1, <2>7 DEF Fail, Succeed
    <2>8. ASSUME NEW x \in Execs, Cancel(x)
          PROVE  execs'[e] = execs[e]
      BY <1>1, <2>1, <2>8 DEF Cancel
    <2> QED
      BY <1>1, <2>3, <2>4, <2>5, <2>6, <2>7, <2>8
      DEF Next, Request, Confirm, Execute, LookUp, Create, Throw, Abandon, Tick
  <1>2. IInv /\ [Next]_vars =>
          [\A e \in Execs : execs[e].state = "SUCCEEDED" =>
             \/ execs'[e] = execs[e]
             \/ /\ takeovers[e] > 0
                /\ execs'[e].state \in {"SUCCEEDED", "FAILED"}
                /\ \E p \in Procs : Holds(p, e) /\ ~Holds(p, e)']_vars
    BY <1>1
  <1> QED
    BY <1>2, ToolInvariant, PTL DEF Spec, SuccessStays
=============================================================================
