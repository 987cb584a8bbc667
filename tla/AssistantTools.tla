--------------------------- MODULE AssistantTools ---------------------------
(***************************************************************************)
(* Tool executions of the assistant: assistant-tool.service.ts.            *)
(*                                                                         *)
(* A tool that writes waits for the user's confirmation; confirm() takes   *)
(* the execution by its state, or from a holder whose lease ran out by its *)
(* startedAt, and execute() then writes the outcome by id alone.  What     *)
(* keeps a repeated execution harmless is the ledger: the reminder, quote  *)
(* or draft that names the execution is looked for before it is created,   *)
(* and for quotes and drafts the name is unique in the database.           *)
(*                                                                         *)
(* A request of the user is a process; an execution is named by its        *)
(* idempotency key.  The four tools that only read are one.                *)
(***************************************************************************)
EXTENDS Naturals, FiniteSets

CONSTANTS
  Execs,   \* idempotency keys
  Procs,   \* requests being handled
  None,    \* SQL NULL
  Lease,   \* AI_TOOL_RUNNING_LEASE_MS
  MaxNow   \* bound on the clock

ASSUME ToolAssumption ==
  /\ Lease \in Nat \ {0}
  /\ MaxNow \in Nat
  /\ None \notin Nat

VARIABLES
  execs,     \* AssistantToolExecution by idempotency key
  effects,   \* how many CRM records name the execution
  job,       \* what each request holds
  now,       \* the clock
  takeovers  \* history: how often an execution was recovered while a holder was alive

vars == <<execs, effects, job, now, takeovers>>

States == {"PLANNING", "AWAITING_CONFIRMATION", "RUNNING", "SUCCEEDED", "FAILED", "CANCELLED"}

Reading == {"read"}
Tools == {"read", "task_follow_up_create", "quote_draft_create", "message_draft_prepare"}
ConfirmationRequired(tool) == tool \notin Reading

Times == 0 .. MaxNow

Execution == [state : States, tool : Tools, startedAt : Times \cup {None}, confirmed : BOOLEAN]

NoExecution == [state |-> "ABSENT"]

\* seen is the row read by confirm() or execute(), at the time of the first.
Job == [stage : {"confirming", "execute", "planned", "dispatch", "missing", "created", "failing"},
        exec : Execs, seen : Execution, at : Times]

Idle == [stage |-> "idle"]

Dispatching(p) == job[p].stage \in {"dispatch", "missing", "created", "failing"}

Holds(p, e) == (Dispatching(p) \/ job[p].stage \in {"execute", "planned"}) /\ job[p].exec = e

TypeOK ==
  /\ execs \in [Execs -> Execution \cup {NoExecution}]
  /\ effects \in [Execs -> Nat]
  /\ job \in [Procs -> Job \cup {Idle}]
  /\ now \in Times
  /\ takeovers \in [Execs -> Nat]

Init ==
  /\ execs = [e \in Execs |-> NoExecution]
  /\ effects = [e \in Execs |-> 0]
  /\ job = [p \in Procs |-> Idle]
  /\ now = 0
  /\ takeovers = [e \in Execs |-> 0]

Goes(p, stage) == job' = [job EXCEPT ![p].stage = stage]

Return(p) == job' = [job EXCEPT ![p] = Idle]

Begin(p, stage, e) ==
  job' = [job EXCEPT ![p] = [stage |-> stage, exec |-> e, seen |-> execs'[e], at |-> now]]

-----------------------------------------------------------------------------
(* plan() and cancel().                                                    *)

\* A replay of the key, and the loser of the unique index, get the row as it is.
Plan(p, e, tool) ==
  /\ job[p] = Idle
  /\ execs[e] = NoExecution
  /\ execs' = [execs EXCEPT ![e] =
       [state |-> IF ConfirmationRequired(tool) THEN "AWAITING_CONFIRMATION" ELSE "PLANNING",
        tool |-> tool, startedAt |-> None, confirmed |-> FALSE]]
  /\ IF ConfirmationRequired(tool) THEN job' = job ELSE Begin(p, "execute", e)
  /\ UNCHANGED <<effects, now, takeovers>>

\* Mutant: a running execution can be cancelled too.
CancelAlsoRunning(e) ==
  /\ execs[e].state \in {"AWAITING_CONFIRMATION", "PLANNING", "RUNNING"}
  /\ execs' = [execs EXCEPT ![e].state = "CANCELLED"]
  /\ UNCHANGED <<effects, job, now, takeovers>>

Cancel(e) ==
  /\ execs[e].state \in {"AWAITING_CONFIRMATION", "PLANNING"}
  /\ execs' = [execs EXCEPT ![e].state = "CANCELLED"]
  /\ UNCHANGED <<effects, job, now, takeovers>>

-----------------------------------------------------------------------------
(* confirm(): the read, and the claim by state or by lease.                *)

Confirm(p, e) ==
  /\ job[p] = Idle
  /\ execs[e].state \in {"AWAITING_CONFIRMATION", "FAILED", "RUNNING"}
  /\ ConfirmationRequired(execs[e].tool)
  /\ execs' = execs
  /\ Begin(p, "confirming", e)
  /\ UNCHANGED <<effects, now, takeovers>>

Running(row, t) == [row EXCEPT !.state = "RUNNING", !.startedAt = t, !.confirmed = TRUE]

\* The time t is taken between the read and the claim.
Claim(p) ==
  LET e == job[p].exec IN
  /\ job[p].stage = "confirming"
  /\ job[p].seen.state \in {"AWAITING_CONFIRMATION", "FAILED"}
  /\ execs[e].state = job[p].seen.state
  /\ \E t \in job[p].at .. now : execs' = [execs EXCEPT ![e] = Running(@, t)]
  /\ Goes(p, "execute")
  /\ UNCHANGED <<effects, now, takeovers>>

\* Mutant: the recovery does not look whether the lease ran out.
LeaseIgnored(row, t) == TRUE

LeaseExpired(row, t) == row.startedAt = None \/ t >= row.startedAt + Lease

\* Mutant: the recovery compares the state and not the old lease.
SameState(row, seen) == row.state = "RUNNING"

\* The compare-and-set on the old lease.
SameLease(row, seen) == row.state = "RUNNING" /\ row.startedAt = seen.startedAt

\* For the history: somebody still works on the execution under a lapsed lease.
Outlived(e) ==
  /\ \E p \in Procs : Holds(p, e)
  /\ now >= execs[e].startedAt + Lease

Recover(p) ==
  LET e == job[p].exec IN
  /\ job[p].stage = "confirming"
  /\ job[p].seen.state = "RUNNING"
  /\ SameLease(execs[e], job[p].seen)
  /\ \E t \in job[p].at .. now :
       LeaseExpired(job[p].seen, t) /\ execs' = [execs EXCEPT ![e].startedAt = t]
  /\ takeovers' = IF Outlived(e) THEN [takeovers EXCEPT ![e] = @ + 1] ELSE takeovers
  /\ Goes(p, "execute")
  /\ UNCHANGED <<effects, now>>

-----------------------------------------------------------------------------
(* execute(): the second read, the tool, and the outcome.                  *)

Execute(p) ==
  LET row == execs[job[p].exec] IN
  /\ job[p].stage = "execute"
  /\ job' = [job EXCEPT ![p] =
       CASE row.state \in {"SUCCEEDED", "CANCELLED"} -> Idle
         [] row.state = "PLANNING" -> [@ EXCEPT !.stage = "planned", !.seen = row]
         [] row.state \in {"AWAITING_CONFIRMATION", "RUNNING", "FAILED"} ->
              [@ EXCEPT !.stage = "dispatch", !.seen = row]]
  /\ UNCHANGED <<execs, effects, now, takeovers>>

\* Whether the row was still PLANNING is not looked at.
StartPlanned(p) ==
  LET e == job[p].exec IN
  /\ job[p].stage = "planned"
  /\ execs' = IF execs[e].state # "PLANNING" THEN execs
              ELSE [execs EXCEPT ![e].state = "RUNNING", ![e].startedAt = now]
  /\ Goes(p, "dispatch")
  /\ UNCHANGED <<effects, now, takeovers>>

\* Mutant: the record is created without looking at the ledger.
LookUpNothing(p) ==
  /\ job[p].stage = "dispatch"
  /\ Goes(p, IF job[p].seen.tool \in Reading THEN "created" ELSE "missing")
  /\ UNCHANGED <<execs, effects, now, takeovers>>

\* The ledger is looked up; a tool that only reads is done.
LookUp(p) ==
  /\ job[p].stage = "dispatch"
  /\ Goes(p, IF job[p].seen.tool \in Reading \/ effects[job[p].exec] > 0 THEN "created" ELSE "missing")
  /\ UNCHANGED <<execs, effects, now, takeovers>>

\* Mutant: the error of an insert is swallowed.
CreateUnchecked(p) ==
  LET e == job[p].exec IN
  /\ job[p].stage = "missing"
  /\ \/ effects' = [effects EXCEPT ![e] = 1]
     \/ effects' = effects
  /\ Goes(p, "created")
  /\ UNCHANGED <<execs, now, takeovers>>

\* A reminder is inserted, a draft upserted, a quote inserted under its
\* unique number; the answer may be lost, and the database may refuse.
Create(p) ==
  LET e == job[p].exec
      tool == job[p].seen.tool
  IN  /\ job[p].stage = "missing"
      /\ \/ /\ tool = "quote_draft_create" => effects[e] = 0
            /\ effects' = [effects EXCEPT ![e] = IF tool = "message_draft_prepare" THEN 1 ELSE @ + 1]
            /\ \E stage \in {"created", "failing"} : Goes(p, stage)
         \/ effects' = effects /\ Goes(p, "failing")
      /\ UNCHANGED <<execs, now, takeovers>>

\* The customer is gone, the role does not allow it, or a read throws.
Throw(p) ==
  /\ job[p].stage = "dispatch"
  /\ Goes(p, "failing")
  /\ UNCHANGED <<execs, effects, now, takeovers>>

Fail(p) ==
  /\ job[p].stage = "failing"
  /\ execs' = [execs EXCEPT ![job[p].exec].state = "FAILED"]
  /\ Return(p)
  /\ UNCHANGED <<effects, now, takeovers>>

Succeed(p) ==
  /\ job[p].stage = "created"
  /\ execs' = [execs EXCEPT ![job[p].exec] =
       [@ EXCEPT !.state = "SUCCEEDED",
                 !.startedAt = IF job[p].seen.startedAt = None THEN now ELSE job[p].seen.startedAt]]
  /\ Return(p)
  /\ UNCHANGED <<effects, now, takeovers>>

\* confirm() lost its claim or returns what it found, the outcome cannot be
\* written, or the process dies.
Abandon(p) ==
  /\ job[p] # Idle
  /\ Return(p)
  /\ UNCHANGED <<execs, effects, now, takeovers>>

Tick ==
  /\ now < MaxNow
  /\ now' = now + 1
  /\ UNCHANGED <<execs, effects, job, takeovers>>

Request(p) ==
  \/ \E e \in Execs, tool \in Tools : Plan(p, e, tool)
  \/ \E e \in Execs : Confirm(p, e)
  \/ Claim(p) \/ Recover(p) \/ Execute(p) \/ StartPlanned(p) \/ LookUp(p)
  \/ Create(p) \/ Throw(p) \/ Fail(p) \/ Succeed(p) \/ Abandon(p)

Next ==
  \/ \E p \in Procs : Request(p)
  \/ \E e \in Execs : Cancel(e)
  \/ Tick

Spec == Init /\ [][Next]_vars
-----------------------------------------------------------------------------
(* Properties.                                                             *)

\* "writes stop for confirmation" (assistant-tool.controller.ts:26): no tool
\* leaves a record, or is about to, before the user confirmed the execution,
\* and none ever after the user cancelled it.
OnlyConfirmedWrites ==
  \A e \in Execs :
    /\ effects[e] > 0 => execs[e].confirmed /\ execs[e].state # "CANCELLED"
    /\ \A p \in Procs :
         Dispatching(p) /\ job[p].exec = e /\ job[p].seen.tool \notin Reading =>
           execs[e].confirmed /\ execs[e].state # "CANCELLED"

\* A success that is reported rests on a record in the CRM, also when another
\* holder of the execution failed, died or was overtaken meanwhile.
SuccessHasRecord ==
  \A e \in Execs :
    execs[e].state = "SUCCEEDED" /\ execs[e].tool \notin Reading => effects[e] > 0

\* A record is never doubled by a crash, a lost answer, a failure or a
\* confirmation repeated at any time: a quote and a draft are written once,
\* and a reminder, which has no unique index (assistant-tool.service.ts:182),
\* at most once more for every holder that outlived its lease.
OneRecord ==
  \A e \in Execs :
    effects[e] > 1 => /\ execs[e].tool = "task_follow_up_create"
                      /\ effects[e] <= 1 + takeovers[e]

Holders(e) == {p \in Procs : Holds(p, e)}

\* "A healthy RUNNING execution is never dispatched a second time"
\* (assistant-tool.service.ts:117): an execution has one holder, and one more
\* for every holder that outlived its lease.
DispatchedOnce ==
  \A e \in Execs : Cardinality(Holders(e)) <= 1 + takeovers[e]

\* A reported success stays, and a repeated request is answered by it.  Only a
\* request that already held the execution when it was taken over, or took it,
\* can write over it, by its outcome: the outcome is written by id alone.
SuccessStays ==
  [][\A e \in Execs : execs[e].state = "SUCCEEDED" =>
       \/ execs'[e] = execs[e]
       \/ /\ takeovers[e] > 0
          /\ execs'[e].state \in {"SUCCEEDED", "FAILED"}
          /\ \E p \in Procs : Holds(p, e) /\ ~Holds(p, e)']_vars
=============================================================================
