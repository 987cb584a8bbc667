------------------------ MODULE SalesDeliveryProofs ------------------------
(* Proofs about SalesDelivery for every set of handlers, approvals, receipts *)
(* and every bound on the sends.                                             *)
EXTENDS SalesDelivery, FiniteSetTheorems, TLAPS

\* What a handler may leave behind.
Own(p) == Current(p) /\ KnowsRequest(p) /\ KnowsAnswer(p)

\* How any handler changes the rows that the others rely on.
Grows ==
  /\ outbound' = outbound \/ outbound'.revision > outbound.revision
  /\ \A a \in Approvals : approvals[a] = "REJECTED" => approvals'[a] = "REJECTED"
  /\ \A k \in Keys : receipts[k].outcome \in Outcomes =>
       receipts'[k].outcome = receipts[k].outcome /\ receipts'[k].linked = receipts[k].linked

\* The shape of one step of one handler.
Step(p) ==
  /\ TypeOK'
  /\ Grows
  /\ \/ outbound' = outbound
     \/ outbound'.status # "ABSENT" /\ FailedIsNeverDue'
  /\ \A q \in Procs \ {p} : job'[q] = job[q]
  /\ Own(p)'
  /\ outbound'.status = "SUCCEEDED" =>
       outbound.status = "SUCCEEDED" \/ \E k \in Keys : receipts'[k].linked /\ receipts'[k].outcome = "good"

LEMMA Fields ==
  ASSUME TypeOK, NEW p \in Procs
  PROVE  /\ outbound.status \in Statuses /\ outbound.revision \in Nat
         /\ outbound.attemptCount \in Nat /\ outbound.nextRetryAt \in BOOLEAN
         /\ outbound.providerMessageId \in Nat \cup {None}
         /\ job[p] \in Job /\ job[p].stage \in Stages /\ job[p].seen \in Request
         /\ job[p].seen.revision \in Nat
         /\ job[p].receipt \in Receipt /\ job[p].key \in Keys \cup {None}
  <1>1. outbound \in Request /\ job[p] \in Job
    BY DEF TypeOK
  <1>2. job[p].seen \in Request
    BY <1>1 DEF Job
  <1> QED
    BY <1>1, <1>2 DEF Job, Request

LEMMA IdleTyped ==
  /\ NoRequest \in Request /\ NoReceipt \in Receipt /\ Idle \in Job
  /\ \A s \in Stages : At(s) \in Job /\ At(s).stage = s /\ At(s).key = None
  <1>1. NoRequest \in Request /\ NoReceipt \in Receipt
    BY DEF NoRequest, Request, Statuses, NoReceipt, Receipt
  <1>2. Idle \in Job
    BY <1>1 DEF Idle, Job, Stages, Statuses
  <1>3. \A s \in Stages : At(s) \in Job /\ At(s).stage = s /\ At(s).key = None
    BY <1>2 DEF At, Job, Idle
  <1> QED
    BY <1>1, <1>2, <1>3

\* The other handlers keep what they know through any step.
LEMMA OthersKeep ==
  ASSUME TypeOK, TypeOK', Grows, NEW q \in Procs, Own(q), job'[q] = job[q]
  PROVE  Own(q)'
  <1>1. /\ job[q].seen.revision \in Nat /\ outbound.revision \in Nat /\ outbound'.revision \in Nat
    BY Fields DEF TypeOK, Request
  <1>2. Current(q)'
    BY <1>1 DEF Own, Current, Grows
  <1>3. KnowsRequest(q)'
    BY DEF Own, KnowsRequest, Grows
  <1>4. KnowsAnswer(q)'
    BY DEF Own, KnowsAnswer, Grows, Outcomes
  <1> QED
    BY <1>2, <1>3, <1>4 DEF Own

LEMMA StepKeepsInvariant ==
  ASSUME IInv, NEW p \in Procs, Step(p)
  PROVE  IInv'
  <1>1. \A q \in Procs : Own(q)
    BY DEF IInv, FenceIsSound, Own
  <1>2. \A q \in Procs : Own(q)'
    <2> SUFFICES ASSUME NEW q \in Procs PROVE Own(q)'
      OBVIOUS
    <2>1. CASE q = p
      BY <2>1 DEF Step
    <2>2. CASE q # p
      BY <1>1, <2>2, OthersKeep DEF Step, IInv
    <2> QED
      BY <2>1, <2>2
  <1>3. SuccessIsAttested'
    <2> SUFFICES ASSUME outbound'.status = "SUCCEEDED"
                 PROVE  \E k \in Keys : receipts'[k].linked /\ receipts'[k].outcome = "good"
      BY DEF SuccessIsAttested
    <2>1. CASE outbound.status = "SUCCEEDED"
      <3>1. PICK k \in Keys : receipts[k].linked /\ receipts[k].outcome = "good"
        BY <2>1 DEF IInv, SuccessIsAttested
      <3> QED
        BY <3>1 DEF Step, Grows, Outcomes
    <2> QED
      BY <2>1 DEF Step
  <1>6. FailedIsNeverDue'
    BY DEF Step, IInv, FailedIsNeverDue
  <1>4. FenceIsSound'
    BY <1>2 DEF FenceIsSound, Own
  <1>5. \A q \in Procs : (KnowsRequest(q) /\ KnowsAnswer(q))'
    BY <1>2 DEF Own
  <1> QED
    BY <1>3, <1>4, <1>5, <1>6 DEF IInv, Step

-----------------------------------------------------------------------------
(* The shapes of a step.                                                   *)

LEMMA GotoTyped ==
  ASSUME TypeOK, NEW p \in Procs, NEW j \in Job, Goto(p, j)
  PROVE  /\ job' \in [Procs -> Job]
         /\ job'[p] = j
         /\ \A q \in Procs \ {p} : job'[q] = job[q]
  BY DEF Goto, TypeOK

\* A handler that holds neither a request nor a receipt knows nothing to keep.
LEMMA OwnQuiet ==
  ASSUME NEW p \in Procs,
         job'[p].stage \in {"idle", "requesting", "manual", "dispatching", "withdrawing", "due"}
  PROVE  Own(p)'
  BY DEF Own, Current, KnowsRequest, KnowsAnswer, Holding

\* A step that writes nothing.
LEMMA LocalStep ==
  ASSUME IInv, NEW p \in Procs, NEW j \in Job, Goto(p, j), Own(p)',
         UNCHANGED <<outbound, approvals, receipts, sends>>
  PROVE  Step(p)
  <1>1. TypeOK'
    BY GotoTyped DEF IInv, TypeOK
  <1>2. Grows
    BY DEF Grows
  <1> QED
    BY <1>1, <1>2, GotoTyped DEF Step, IInv

LEMMA QuietStep ==
  ASSUME IInv, NEW p \in Procs, NEW s \in {"requesting", "manual", "dispatching", "withdrawing"},
         Goto(p, Idle) \/ Goto(p, At(s)),
         UNCHANGED <<outbound, approvals, receipts, sends>>
  PROVE  Step(p)
  <1>1. TypeOK
    BY DEF IInv
  <1>2. CASE Goto(p, Idle)
    <2>1. job'[p] = Idle
      BY <1>1, <1>2, IdleTyped, GotoTyped
    <2>2. Own(p)'
      BY <2>1, OwnQuiet DEF Idle
    <2> QED
      BY <1>2, <2>2, IdleTyped, LocalStep
  <1>3. CASE Goto(p, At(s))
    <2>0. At(s) \in Job /\ At(s).stage = s
      BY IdleTyped DEF Stages
    <2>1. job'[p] = At(s)
      BY <1>1, <1>3, <2>0, GotoTyped
    <2>2. Own(p)'
      BY <2>0, <2>1, OwnQuiet
    <2> QED
      BY <1>3, <2>0, <2>2, LocalStep
  <1> QED
    BY <1>2, <1>3

\* A step that swaps the request for a new one.
LEMMA WriteStep ==
  ASSUME IInv, NEW p \in Procs, NEW j \in Job, Goto(p, j), Own(p)',
         NEW new \in Request, new.revision > outbound.revision, new.status # "ABSENT",
         new.status = "FAILED" => ~new.nextRetryAt,
         outbound' = Swapped(p, new),
         new.status = "SUCCEEDED" => \E k \in Keys : receipts[k].linked /\ receipts[k].outcome = "good",
         UNCHANGED <<approvals, receipts, sends>>
  PROVE  Step(p)
  <1>1. outbound' = outbound \/ outbound' = new
    BY DEF Swapped
  <1>2. TypeOK'
    BY <1>1, GotoTyped DEF IInv, TypeOK
  <1>3. Grows
    BY <1>1 DEF Grows
  <1> QED
    BY <1>1, <1>2, <1>3, GotoTyped DEF Step, IInv, FailedIsNeverDue

LEMMA MovedTyped ==
  ASSUME NEW r \in Request, NEW s \in Statuses
  PROVE  /\ Moved(r, s) \in Request
         /\ Moved(r, s).revision = r.revision + 1
         /\ Moved(r, s).revision > r.revision
         /\ Moved(r, s).status = s
         /\ Moved(r, s).attemptCount = r.attemptCount
         /\ ~Moved(r, s).nextRetryAt
  <1>1. r.revision \in Nat /\ r.revision + 1 \in Nat /\ r.revision + 1 > r.revision
    BY DEF Request
  <1>2. Moved(r, s) \in Request
    BY <1>1 DEF Moved, Request
  <1>3. /\ Moved(r, s).revision = r.revision + 1
        /\ Moved(r, s).status = s
        /\ Moved(r, s).attemptCount = r.attemptCount
        /\ ~Moved(r, s).nextRetryAt
    BY DEF Moved, Request
  <1> QED
    BY <1>1, <1>2, <1>3

-----------------------------------------------------------------------------
(* One lemma per group of actions.                                         *)

\* A request that is swapped away leaves the handler free.
LEMMA SwapAndLeave ==
  ASSUME IInv, NEW p \in Procs, NEW s \in Statuses \ {"ABSENT"}, Goto(p, Idle),
         NEW new \in Request, new.revision = outbound.revision + 1, new.status = s,
         s = "FAILED" => ~new.nextRetryAt,
         outbound' = Swapped(p, new),
         s = "SUCCEEDED" => \E k \in Keys : receipts[k].linked /\ receipts[k].outcome = "good",
         UNCHANGED <<approvals, receipts, sends>>
  PROVE  Step(p)
  <1>1. new.revision > outbound.revision
    BY Fields DEF IInv
  <1>2. job'[p] = Idle
    BY IdleTyped, GotoTyped DEF IInv
  <1>3. Own(p)'
    BY <1>2, OwnQuiet DEF Idle
  <1> QED
    BY <1>1, <1>3, IdleTyped, WriteStep

LEMMA DispatchOutboundStep ==
  ASSUME IInv, NEW p \in Procs, DispatchOutbound(p)
  PROVE  Step(p)
  <1> DEFINE new == Moved(NoRequest, "DISPATCHING")
  <1>1. outbound = NoRequest
    BY DEF DispatchOutbound, IInv
  <1>2. new \in Request /\ new.revision > outbound.revision /\ new.status = "DISPATCHING"
    BY <1>1, IdleTyped, MovedTyped DEF Statuses
  <1>3. At("requesting") \in Job /\ At("requesting").stage = "requesting"
    BY IdleTyped DEF Stages
  <1>4. job'[p] = At("requesting")
    BY <1>3, GotoTyped DEF DispatchOutbound, IInv
  <1>5. Own(p)'
    BY <1>3, <1>4, OwnQuiet
  <1>6. TypeOK'
    BY <1>2, <1>3, GotoTyped DEF DispatchOutbound, IInv, TypeOK
  <1>7. Grows
    BY <1>2 DEF Grows, DispatchOutbound
  <1> QED
    BY <1>2, <1>3, <1>5, <1>6, <1>7, GotoTyped DEF Step, DispatchOutbound, IInv, FailedIsNeverDue

LEMMA CreateApprovalStep ==
  ASSUME IInv, NEW p \in Procs, NEW a \in Approvals, CreateApproval(p, a)
  PROVE  Step(p)
  <1>1. job'[p] = Idle /\ job' \in [Procs -> Job] /\ \A q \in Procs \ {p} : job'[q] = job[q]
    BY IdleTyped, GotoTyped DEF CreateApproval, IInv
  <1>2. Own(p)'
    BY <1>1, OwnQuiet DEF Idle
  <1>3. TypeOK'
    BY <1>1 DEF CreateApproval, IInv, TypeOK, ApprovalStatuses
  <1>4. Grows
    BY DEF Grows, CreateApproval, IInv, TypeOK
  <1> QED
    BY <1>1, <1>2, <1>3, <1>4 DEF Step, CreateApproval, IInv

LEMMA DecideStep ==
  ASSUME IInv, NEW p \in Procs, NEW a \in Approvals, Decide(p, a)
  PROVE  Step(p)
  <1>1. PICK s \in {"dispatching", "rejected"} :
          /\ Goto(p, At(s))
          /\ approvals' = [approvals EXCEPT ![a] = IF s = "rejected" THEN "REJECTED" ELSE "APPROVED"]
    BY DEF Decide
  <1>2. At(s) \in Job /\ At(s).stage = s
    BY IdleTyped DEF Stages
  <1>3. job'[p] = At(s) /\ job' \in [Procs -> Job] /\ \A q \in Procs \ {p} : job'[q] = job[q]
    BY <1>1, <1>2, GotoTyped DEF IInv
  <1>4. approvals' \in [Approvals -> ApprovalStatuses]
    BY <1>1 DEF IInv, TypeOK, ApprovalStatuses
  <1>5. Own(p)'
    <2>1. CASE s = "dispatching"
      BY <1>2, <1>3, <2>1, OwnQuiet
    <2>2. CASE s = "rejected"
      <3>1. approvals'[a] = "REJECTED"
        BY <1>1, <2>2 DEF IInv, TypeOK
      <3>2. job'[p].stage = "rejected"
        BY <1>2, <1>3, <2>2
      <3> QED
        BY <3>1, <3>2 DEF Own, Current, Holding, KnowsRequest, KnowsAnswer
    <2> QED
      BY <2>1, <2>2
  <1>6. TypeOK'
    BY <1>3, <1>4 DEF Decide, IInv, TypeOK
  <1>7. Grows
    BY <1>1 DEF Grows, Decide, IInv, TypeOK
  <1> QED
    BY <1>3, <1>5, <1>6, <1>7 DEF Step, Decide, IInv

LEMMA WithdrawApprovalsStep ==
  ASSUME IInv, NEW p \in Procs, WithdrawApprovals(p)
  PROVE  Step(p)
  <1>1. job'[p] = Idle /\ job' \in [Procs -> Job] /\ \A q \in Procs \ {p} : job'[q] = job[q]
    BY IdleTyped, GotoTyped DEF WithdrawApprovals, IInv
  <1>2. Own(p)'
    BY <1>1, OwnQuiet DEF Idle
  <1>3. TypeOK'
    BY <1>1 DEF WithdrawApprovals, IInv, TypeOK, ApprovalStatuses
  <1>4. Grows
    BY DEF Grows, WithdrawApprovals, Pending
  <1> QED
    BY <1>1, <1>2, <1>3, <1>4 DEF Step, WithdrawApprovals, IInv

\* Keeping the request just read is to hold its current content.
LEMMA HoldStep ==
  ASSUME IInv, NEW p \in Procs, NEW s \in Holding, NEW v \in Statuses, Hold(p, s, v),
         UNCHANGED <<outbound, approvals, receipts, sends>>,
         s \in {"sending", "cancelling", "rejecting", "settling"},
         s = "sending" => outbound.status \notin {"SUCCEEDED", "CANCELLED"},
         s = "cancelling" => outbound.status \notin Terminal,
         s = "rejecting" => /\ outbound.status # "CANCELLED"
                            /\ \E a \in Approvals : approvals[a] = "REJECTED",
         s = "settling" => /\ outbound.status = "UNKNOWN"
                           /\ \/ v = "FAILED"
                              \/ /\ v = "SUCCEEDED"
                                 /\ \E k \in Keys : receipts[k].linked /\ receipts[k].outcome = "good"
  PROVE  Step(p)
  <1> DEFINE j == [At(s) EXCEPT !.seen = outbound, !.value = v]
  <1>1. j \in Job /\ j.stage = s /\ j.seen = outbound /\ j.value = v
    BY IdleTyped DEF Stages, Job, IInv, TypeOK
  <1>2. job'[p] = j
    BY <1>1, GotoTyped DEF Hold, IInv
  <1>3. Current(p)'
    BY <1>1, <1>2, Fields DEF Current, IInv
  <1>4. KnowsRequest(p)'
    BY <1>1, <1>2 DEF KnowsRequest
  <1>5. KnowsAnswer(p)'
    BY <1>1, <1>2 DEF KnowsAnswer
  <1>6. Own(p)'
    BY <1>3, <1>4, <1>5 DEF Own
  <1> HIDE DEF j
  <1> QED
    BY <1>1, <1>6, LocalStep DEF Hold, j

\* The steps that only move a handler on.
LEMMA QuietSteps ==
  ASSUME IInv, NEW p \in Procs,
         AskApproval(p) \/ ManualRead(p) \/ ManualCheck(p) \/ Crash(p)
  PROVE  Step(p)
  <1>1. UNCHANGED <<outbound, approvals, receipts, sends>>
    BY DEF AskApproval, ManualRead, ManualCheck, Crash
  <1>2. \E s \in {"requesting", "manual", "dispatching", "withdrawing"} :
          Goto(p, Idle) \/ Goto(p, At(s))
    BY DEF AskApproval, ManualRead, ManualCheck, Crash
  <1> QED
    BY <1>1, <1>2, QuietStep

LEMMA RejectSteps ==
  ASSUME IInv, NEW p \in Procs, RejectRead(p) \/ RejectWrite(p)
  PROVE  Step(p)
  <1>1. CASE RejectRead(p)
    <2>1. \E a \in Approvals : approvals[a] = "REJECTED"
      BY <1>1 DEF RejectRead, IInv, KnowsRequest
    <2>2. CASE Goto(p, Idle)
      BY <1>1, <2>2, QuietStep DEF RejectRead
    <2>3. CASE outbound.status # "CANCELLED" /\ Hold(p, "rejecting", "ABSENT")
      BY <1>1, <2>1, <2>3, HoldStep DEF RejectRead, Holding, Statuses
    <2> QED
      BY <1>1, <2>2, <2>3 DEF RejectRead
  <1>2. CASE RejectWrite(p)
    BY <1>2, MovedTyped, SwapAndLeave DEF RejectWrite, IInv, TypeOK, Statuses, Terminal
  <1> QED
    BY <1>1, <1>2

LEMMA CancelSteps ==
  ASSUME IInv, NEW p \in Procs, CancelRead(p) \/ CancelWrite(p)
  PROVE  Step(p)
  <1>1. CASE CancelRead(p)
    BY <1>1, HoldStep DEF CancelRead, Holding, Statuses
  <1>2. CASE CancelWrite(p)
    <2> DEFINE new == Moved(outbound, "CANCELLED")
               j == IF outbound' = outbound THEN Idle ELSE At("withdrawing")
    <2>1. /\ new \in Request /\ new.revision > outbound.revision
          /\ new.status = "CANCELLED"
      BY MovedTyped DEF IInv, TypeOK, Statuses, Terminal
    <2>2. j \in Job /\ j.stage \in {"idle", "withdrawing"}
      BY IdleTyped DEF Stages, Idle
    <2>3. job'[p] = j
      BY <1>2, <2>2, GotoTyped DEF CancelWrite, IInv
    <2>4. Own(p)'
      BY <2>2, <2>3, OwnQuiet
    <2>5. Goto(p, j) /\ outbound' = Swapped(p, new) /\ UNCHANGED <<approvals, receipts, sends>>
      BY <1>2 DEF CancelWrite
    <2> HIDE DEF new, j
    <2> QED
      BY <2>1, <2>2, <2>4, <2>5, WriteStep
  <1> QED
    BY <1>1, <1>2

LEMMA DispatchReadStep ==
  ASSUME IInv, NEW p \in Procs, DispatchRead(p)
  PROVE  Step(p)
  <1>1. CASE Goto(p, Idle)
    BY <1>1, QuietStep DEF DispatchRead
  <1>2. CASE ~Unsendable(outbound) /\ Hold(p, "sending", "ABSENT")
    BY <1>2, HoldStep DEF DispatchRead, Unsendable, Holding, Statuses
  <1> QED
    BY <1>1, <1>2 DEF DispatchRead

LEMMA SendStep ==
  ASSUME IInv, NEW p \in Procs, Send(p)
  PROVE  Step(p)
  <1>1. PICK answer \in {"SENT", "UNKNOWN"} :
          Goto(p, [job[p] EXCEPT !.stage = "answered", !.value = answer,
                                 !.receipt.message = sends'])
    BY DEF Send
  <1> DEFINE j == [job[p] EXCEPT !.stage = "answered", !.value = answer,
                                 !.receipt.message = sends']
  <1>2. sends' \in Nat
    BY DEF Send, IInv, TypeOK
  <1>3. job[p] \in Job /\ job[p].receipt \in Receipt
    BY Fields DEF IInv
  <1>4. [job[p].receipt EXCEPT !.message = sends'] \in Receipt
    BY <1>2, <1>3 DEF Receipt
  <1>5. j \in Job /\ j.stage = "answered" /\ j.seen = job[p].seen /\ j.value = answer
    BY <1>3, <1>4 DEF Job, Stages, Holding, Statuses
  <1>6. job'[p] = j /\ job' \in [Procs -> Job] /\ \A q \in Procs \ {p} : job'[q] = job[q]
    BY <1>1, <1>5, GotoTyped DEF IInv
  <1>7. Current(p) /\ KnowsRequest(p)
    BY DEF IInv, FenceIsSound
  <1>8. Current(p)'
    <2>1. job[p].stage \in Holding /\ job'[p].seen = job[p].seen /\ outbound' = outbound
      BY <1>5, <1>6 DEF Send, Holding
    <2> QED
      BY <1>7, <2>1 DEF Current
  <1>9. KnowsRequest(p)' /\ KnowsAnswer(p)'
    BY <1>5, <1>6, <1>7 DEF KnowsRequest, KnowsAnswer, Send
  <1>10. TypeOK'
    BY <1>2, <1>6 DEF Send, IInv, TypeOK
  <1>11. Grows
    BY DEF Grows, Send
  <1> QED
    BY <1>6, <1>8, <1>9, <1>10, <1>11 DEF Step, Own, Send, IInv

LEMMA AnsweredTyped ==
  ASSUME NEW r \in Request, NEW s \in {"SENT", "UNKNOWN"}, NEW m \in Nat
  PROVE  /\ Answered(r, s, m) \in Request
         /\ Answered(r, s, m).revision = r.revision + 1
         /\ Answered(r, s, m).status = s
         /\ Answered(r, s, m).attemptCount = r.attemptCount + 1
  <1>1. Moved(r, s) \in Request /\ Moved(r, s).revision = r.revision + 1 /\ Moved(r, s).status = s
    BY MovedTyped DEF Statuses
  <1>2. r.attemptCount + 1 \in Nat
    BY DEF Request
  <1> QED
    BY <1>1, <1>2 DEF Answered, Request

LEMMA RecordSendStep ==
  ASSUME IInv, NEW p \in Procs, RecordSend(p)
  PROVE  Step(p)
  <1>1. job[p].value \in {"SENT", "UNKNOWN"}
    BY DEF RecordSend, IInv, KnowsAnswer
  <1>2. job[p].receipt.message \in Nat
    BY Fields DEF IInv, Receipt
  <1>3. outbound \in Request
    BY DEF IInv, TypeOK
  <1> QED
    BY <1>1, <1>2, <1>3, AnsweredTyped, SwapAndLeave DEF RecordSend, Statuses

LEMMA ReconcileSteps ==
  ASSUME IInv, NEW p \in Procs, ReconcileRead(p) \/ ReconcileWrite(p)
  PROVE  Step(p)
  <1>1. CASE ReconcileRead(p)
    <2>1. PICK target \in IF Latest = {} THEN {"FAILED"}
                          ELSE UNION {Targets(receipts[k].outcome) : k \in Latest} :
            Hold(p, "settling", target)
      BY <1>1 DEF ReconcileRead
    <2>2. \/ target = "FAILED"
          \/ target = "SUCCEEDED" /\ \E k \in Keys : receipts[k].linked /\ receipts[k].outcome = "good"
      <3>1. CASE Latest = {}
        BY <2>1, <3>1
      <3>2. CASE Latest # {}
        <4>1. PICK k \in Latest : target \in Targets(receipts[k].outcome)
          BY <2>1, <3>2
        <4>2. k \in Keys /\ receipts[k].linked
          BY <4>1 DEF Latest, Stored
        <4> QED
          BY <4>1, <4>2 DEF Targets
      <3> QED
        BY <3>1, <3>2
    <2>3. target \in Statuses
      BY <2>2 DEF Statuses, Terminal
    <2> QED
      BY <1>1, <2>1, <2>2, <2>3, HoldStep DEF ReconcileRead, Holding
  <1>2. CASE ReconcileWrite(p)
    <2>1. \/ job[p].value = "FAILED"
          \/ job[p].value = "SUCCEEDED" /\ \E k \in Keys : receipts[k].linked /\ receipts[k].outcome = "good"
      BY <1>2 DEF ReconcileWrite, IInv, KnowsAnswer
    <2> QED
      BY <1>2, <2>1, MovedTyped, SwapAndLeave DEF ReconcileWrite, IInv, TypeOK, Statuses, Terminal
  <1> QED
    BY <1>1, <1>2

LEMMA RetryStep ==
  ASSUME IInv, NEW p \in Procs, RetryFailedOutbounds(p)
  PROVE  Step(p)
  <1>1. CASE outbound' = outbound
    <2>1. PICK j \in {Idle, At("due")} : Goto(p, j)
      BY DEF RetryFailedOutbounds
    <2>2. j \in Job /\ j.stage \in {"idle", "due"}
      BY <2>1, IdleTyped DEF Stages, Idle
    <2>3. job'[p] = j
      BY <2>1, <2>2, GotoTyped DEF IInv
    <2>4. Own(p)'
      BY <2>2, <2>3, OwnQuiet
    <2> QED
      BY <1>1, <2>1, <2>2, <2>4, LocalStep DEF RetryFailedOutbounds
  <1>2. CASE outbound' = Moved(outbound, "DISPATCHING") /\ Goto(p, Idle)
    <2> DEFINE new == Moved(outbound, "DISPATCHING")
    <2>1. /\ new \in Request /\ new.revision > outbound.revision
          /\ new.status = "DISPATCHING"
      BY MovedTyped DEF IInv, TypeOK, Statuses
    <2>2. Idle \in Job /\ Idle.stage = "idle"
      BY IdleTyped DEF Idle
    <2>3. Own(p)'
      BY <1>2, <2>2, GotoTyped, OwnQuiet DEF IInv
    <2>4. TypeOK' /\ Grows
      BY <1>2, <2>1, <2>2, GotoTyped DEF RetryFailedOutbounds, IInv, TypeOK, Grows
    <2> QED
      BY <1>2, <2>1, <2>2, <2>3, <2>4, GotoTyped DEF Step, RetryFailedOutbounds, IInv, FailedIsNeverDue
  <1> QED
    BY <1>1, <1>2 DEF RetryFailedOutbounds

LEMMA ResolveReceiptStep ==
  ASSUME IInv, NEW p \in Procs, NEW k \in Keys, ResolveReceipt(p, k)
  PROVE  Step(p)
  <1>1. PICK m \in 1 .. sends, o \in Outcomes, explicit \in BOOLEAN :
          Goto(p, [At("resolved") EXCEPT
                     !.key = k,
                     !.receipt = [NoReceipt EXCEPT
                                    !.outcome = o, !.message = m,
                                    !.linked = explicit \/ outbound.providerMessageId = m]])
    BY DEF ResolveReceipt
  <1> DEFINE b == explicit \/ outbound.providerMessageId = m
             r == [NoReceipt EXCEPT !.outcome = o, !.message = m, !.linked = b]
             j == [At("resolved") EXCEPT !.key = k, !.receipt = r]
  <1>2. b \in BOOLEAN /\ m \in Nat
    BY DEF IInv, TypeOK
  <1>3. r \in Receipt /\ r.outcome = o
    BY <1>2 DEF NoReceipt, Receipt
  <1> HIDE DEF r
  <1>4. j \in Job /\ j.stage = "resolved" /\ j.key = k /\ j.receipt = r
    BY <1>3, IdleTyped DEF Job, Stages
  <1>5. job'[p] = j
    BY <1>1, <1>4, GotoTyped DEF IInv, r
  <1>6. Own(p)'
    BY <1>3, <1>4, <1>5 DEF Own, Current, Holding, KnowsRequest, KnowsAnswer
  <1>7. Goto(p, j)
    BY <1>1 DEF r
  <1> HIDE DEF j
  <1> QED
    BY <1>4, <1>6, <1>7, LocalStep DEF ResolveReceipt

\* A handler that carries the key of a stored, linked receipt.
CarriesLinked(p) ==
  /\ job[p].key \in Keys
  /\ receipts[job[p].key].linked
  /\ receipts[job[p].key].outcome \in Outcomes

LEMMA KeyTyped ==
  ASSUME NEW k \in Keys, NEW s \in Stages
  PROVE  LET j == [At(s) EXCEPT !.key = k]
         IN  j \in Job /\ j.stage = s /\ j.key = k
  BY IdleTyped DEF Job

LEMMA StoreReceiptStep ==
  ASSUME IInv, NEW p \in Procs, StoreReceipt(p)
  PROVE  Step(p)
  <1> DEFINE k == job[p].key
             r == [job[p].receipt EXCEPT !.at = Cardinality(Stored) + 1]
  <1>1. k \in Keys /\ job[p].receipt.outcome \in Outcomes /\ job[p].receipt \in Receipt
    BY Fields DEF StoreReceipt, IInv, KnowsAnswer
  <1>2. Cardinality(Stored) \in Nat
    BY SalesDeliveryAssumption, FS_Subset, FS_CardinalityType DEF Stored
  <1>3. r \in Receipt /\ r.outcome \in Outcomes /\ r.linked \in BOOLEAN
    BY <1>1, <1>2 DEF Receipt
  <1>4. CASE k \in Stored
    <2>1. Goto(p, Idle) /\ UNCHANGED <<outbound, approvals, receipts, sends>>
      BY <1>4 DEF StoreReceipt
    <2> QED
      BY <2>1, QuietStep
  <1>5. CASE k \notin Stored
    <2> DEFINE j == IF r.linked THEN [At("stored") EXCEPT !.key = k] ELSE Idle
    <2>1. receipts[k] = NoReceipt
      BY <1>1, <1>5 DEF Stored
    <2>2. receipts' = [receipts EXCEPT ![k] = r] /\ Goto(p, j) /\ UNCHANGED <<outbound, approvals, sends>>
      BY <1>5 DEF StoreReceipt
    <2> HIDE DEF r
    <2>3. receipts' \in [Keys -> Receipt] /\ receipts'[k] = r
      BY <1>1, <1>3, <2>2 DEF IInv, TypeOK
    <2>4. j \in Job /\ (r.linked => j.stage = "stored" /\ j.key = k) /\ (~r.linked => j = Idle)
      BY <1>1, KeyTyped, IdleTyped DEF Stages
    <2>5. job'[p] = j /\ job' \in [Procs -> Job] /\ \A q \in Procs \ {p} : job'[q] = job[q]
      BY <2>2, <2>4, GotoTyped DEF IInv
    <2>6. Own(p)'
      <3>1. CASE r.linked
        <4>1. job'[p].stage = "stored" /\ job'[p].key = k
          BY <2>4, <2>5, <3>1
        <4> QED
          BY <1>1, <1>3, <2>3, <3>1, <4>1 DEF Own, Current, Holding, KnowsRequest, KnowsAnswer
      <3>2. CASE ~r.linked
        BY <2>4, <2>5, <3>2, OwnQuiet DEF Idle
      <3> QED
        BY <3>1, <3>2
    <2>7. TypeOK'
      BY <2>2, <2>3, <2>5 DEF IInv, TypeOK
    <2>8. Grows
      <3>1. receipts[k].outcome \notin Outcomes
        BY <2>1, SalesDeliveryAssumption DEF NoReceipt, Outcomes
      <3> QED
        BY <1>1, <2>2, <3>1 DEF Grows, IInv, TypeOK
    <2> QED
      BY <2>2, <2>5, <2>6, <2>7, <2>8 DEF Step, IInv
  <1> QED
    BY <1>4, <1>5

LEMMA AppliedTyped ==
  ASSUME NEW r \in Request, NEW o \in Outcomes
  PROVE  /\ Applied(r, o) \in Request
         /\ Applied(r, o).revision = r.revision + 1
         /\ Applied(r, o).revision > r.revision
         /\ Applied(r, o).status \in {"SUCCEEDED", "FAILED", "UNKNOWN"}
         /\ Applied(r, o).status = "SUCCEEDED" => o = "good"
         /\ Applied(r, o).status = "FAILED" => ~Applied(r, o).nextRetryAt
  <1>1. r.revision + 1 \in Nat /\ r.revision + 1 > r.revision
    BY DEF Request
  <1>2. CASE o = "good"
    BY <1>1, <1>2, MovedTyped DEF Applied, Statuses, Terminal
  <1>3. CASE o = "bad"
    BY <1>1, <1>3, MovedTyped DEF Applied, Statuses, Terminal
  <1>4. CASE o \notin {"good", "bad"}
    <2> DEFINE b == o = "soft" \/ r.nextRetryAt
    <2>1. b \in BOOLEAN
      BY DEF Request
    <2>2. Applied(r, o) = [r EXCEPT !.status = "UNKNOWN", !.revision = r.revision + 1,
                                    !.nextRetryAt = b]
      BY <1>4 DEF Applied
    <2> HIDE DEF b
    <2> QED
      BY <1>1, <2>1, <2>2 DEF Request, Statuses
  <1> QED
    BY <1>2, <1>3, <1>4

LEMMA ApplySteps ==
  ASSUME IInv, NEW p \in Procs, ApplyRead(p) \/ ApplyWrite(p) \/ MarkProcessed(p)
  PROVE  Step(p)
  <1> DEFINE k == job[p].key
  <1>1. k \in Keys /\ receipts[k].linked /\ receipts[k].outcome \in Outcomes
    BY DEF ApplyRead, ApplyWrite, MarkProcessed, IInv, KnowsAnswer
  <1> DEFINE done == [At("processed") EXCEPT !.key = k]
  <1>2. done \in Job /\ done.stage = "processed" /\ done.key = k
    BY <1>1, KeyTyped DEF Stages
  <1> HIDE DEF done
  <1>3. ASSUME job'[p] = done, receipts' = receipts
        PROVE  Own(p)'
    BY <1>1, <1>2, <1>3 DEF Own, Current, Holding, KnowsRequest, KnowsAnswer
  <1>4. CASE ApplyRead(p) /\ outbound.status \in Terminal
    <2>1. Goto(p, done) /\ UNCHANGED <<outbound, approvals, receipts, sends>>
      BY <1>4 DEF ApplyRead, done
    <2>2. Own(p)'
      BY <1>2, <1>3, <2>1, GotoTyped DEF IInv
    <2> QED
      BY <1>2, <2>1, <2>2, LocalStep
  <1>5. CASE ApplyRead(p) /\ outbound.status \notin Terminal
    <2> DEFINE j == [At("applying") EXCEPT !.key = k, !.seen = outbound]
    <2>1. j \in Job /\ j.stage = "applying" /\ j.key = k /\ j.seen = outbound
      BY <1>1, IdleTyped DEF Job, Stages, Holding, IInv, TypeOK
    <2>2. Goto(p, j) /\ UNCHANGED <<outbound, approvals, receipts, sends>>
      BY <1>5 DEF ApplyRead
    <2>3. job'[p] = j
      BY <2>1, <2>2, GotoTyped DEF IInv
    <2> HIDE DEF j
    <2>4. Current(p)'
      BY <2>1, <2>2, <2>3, Fields DEF Current, IInv
    <2>5. KnowsRequest(p)' /\ KnowsAnswer(p)'
      BY <1>1, <1>5, <2>1, <2>2, <2>3 DEF KnowsRequest, KnowsAnswer
    <2> QED
      BY <2>1, <2>2, <2>4, <2>5, LocalStep DEF Own
  <1>6. CASE ApplyWrite(p)
    <2> DEFINE new == Applied(outbound, receipts[k].outcome)
    <2>1. /\ new \in Request /\ new.revision > outbound.revision
          /\ new.status # "ABSENT"
          /\ new.status = "FAILED" => ~new.nextRetryAt
          /\ new.status = "SUCCEEDED" => receipts[k].outcome = "good"
      BY <1>1, AppliedTyped DEF IInv, TypeOK
    <2>2. Goto(p, done) /\ outbound' = Swapped(p, new) /\ UNCHANGED <<approvals, receipts, sends>>
      BY <1>6 DEF ApplyWrite, done
    <2>3. Own(p)'
      BY <1>2, <1>3, <2>2, GotoTyped DEF IInv
    <2> HIDE DEF new
    <2> QED
      BY <1>1, <1>2, <2>1, <2>2, <2>3, WriteStep
  <1>7. CASE MarkProcessed(p)
    <2>1. job'[p] = Idle /\ job' \in [Procs -> Job] /\ \A q \in Procs \ {p} : job'[q] = job[q]
      BY <1>7, IdleTyped, GotoTyped DEF MarkProcessed, IInv
    <2>2. Own(p)'
      BY <2>1, OwnQuiet DEF Idle
    <2>3. /\ receipts' \in [Keys -> Receipt]
          /\ \A i \in Keys : receipts'[i].outcome = receipts[i].outcome
                            /\ receipts'[i].linked = receipts[i].linked
      BY <1>1, <1>7 DEF MarkProcessed, IInv, TypeOK, Receipt
    <2>4. TypeOK' /\ Grows
      BY <1>7, <2>1, <2>3 DEF MarkProcessed, IInv, TypeOK, Grows
    <2> QED
      BY <1>7, <2>1, <2>2, <2>4 DEF Step, MarkProcessed, IInv
  <1> QED
    BY <1>4, <1>5, <1>6, <1>7

-----------------------------------------------------------------------------
(* The invariant and the theorems.                                         *)

LEMMA HandlerStep ==
  ASSUME IInv, NEW p \in Procs, Handler(p)
  PROVE  Step(p)
  <1>1. CASE DispatchOutbound(p)
    BY <1>1, DispatchOutboundStep
  <1>2. CASE \E a \in Approvals : CreateApproval(p, a) \/ Decide(p, a)
    BY <1>2, CreateApprovalStep, DecideStep
  <1>3. CASE AskApproval(p) \/ ManualRead(p) \/ ManualCheck(p) \/ Crash(p)
    BY <1>3, QuietSteps
  <1>4. CASE RejectRead(p) \/ RejectWrite(p)
    BY <1>4, RejectSteps
  <1>5. CASE CancelRead(p) \/ CancelWrite(p)
    BY <1>5, CancelSteps
  <1>6. CASE WithdrawApprovals(p)
    BY <1>6, WithdrawApprovalsStep
  <1>7. CASE DispatchRead(p) \/ Send(p) \/ RecordSend(p)
    BY <1>7, DispatchReadStep, SendStep, RecordSendStep
  <1>8. CASE (\E k \in Keys : ResolveReceipt(p, k)) \/ StoreReceipt(p)
    BY <1>8, ResolveReceiptStep, StoreReceiptStep
  <1>9. CASE ApplyRead(p) \/ ApplyWrite(p) \/ MarkProcessed(p)
    BY <1>9, ApplySteps
  <1>10. CASE ReconcileRead(p) \/ ReconcileWrite(p)
    BY <1>10, ReconcileSteps
  <1>11. CASE RetryFailedOutbounds(p)
    BY <1>11, RetryStep
  <1> QED
    BY <1>1, <1>2, <1>3, <1>4, <1>5, <1>6, <1>7, <1>8, <1>9, <1>10, <1>11 DEF Handler

LEMMA InvInit == Init => IInv
  <1> SUFFICES ASSUME Init PROVE IInv
    OBVIOUS
  <1>1. TypeOK
    BY IdleTyped DEF Init, TypeOK, ApprovalStatuses
  <1>2. \A p \in Procs : job[p].stage = "idle"
    BY DEF Init, Idle
  <1>3. FenceIsSound /\ \A p \in Procs : KnowsRequest(p) /\ KnowsAnswer(p)
    BY <1>2 DEF FenceIsSound, Current, Holding, KnowsRequest, KnowsAnswer
  <1>4. SuccessIsAttested /\ outbound = NoRequest /\ FailedIsNeverDue
    BY DEF Init, SuccessIsAttested, NoRequest, FailedIsNeverDue
  <1> QED
    BY <1>1, <1>3, <1>4 DEF IInv

LEMMA InvNext == IInv /\ [Next]_vars => IInv'
  <1> SUFFICES ASSUME IInv, [Next]_vars PROVE IInv'
    OBVIOUS
  <1>1. CASE Next
    BY <1>1, HandlerStep, StepKeepsInvariant DEF Next
  <1>2. CASE UNCHANGED vars
    BY <1>2 DEF vars, IInv, TypeOK, FenceIsSound, Current, KnowsRequest, KnowsAnswer,
                SuccessIsAttested, FailedIsNeverDue
  <1> QED
    BY <1>1, <1>2

\* The inductive invariant: what every handler of sales-delivery.service.ts knows
\* of the rows it is about to write stays true under the others.
THEOREM HandlersKnow == Spec => []IInv
  BY InvInit, InvNext, PTL DEF Spec

\* The request, approvals, receipts and handlers keep their types.
THEOREM TypeCorrect == Spec => []TypeOK
  <1>1. IInv => TypeOK
    BY DEF IInv
  <1> QED
    BY <1>1, HandlersKnow, PTL

\* A current revision means an unchanged request, for any number of handlers.
THEOREM FenceHolds == Spec => []FenceIsSound
  <1>1. IInv => FenceIsSound
    BY DEF IInv
  <1> QED
    BY <1>1, HandlersKnow, PTL

\* SUCCEEDED always rests on a stored receipt that reports success.
THEOREM SuccessHasReceipt == Spec => []SuccessIsAttested
  <1>1. IInv => SuccessIsAttested
    BY DEF IInv
  <1> QED
    BY <1>1, HandlersKnow, PTL

\* A swap that takes effect starts from the request its handler read.
LEMMA SwapFromSeen ==
  ASSUME IInv, NEW p \in Procs, job[p].stage \in Holding, NEW new,
         outbound' = Swapped(p, new), outbound' # outbound
  PROVE  job[p].seen = outbound /\ outbound' = new
  BY DEF IInv, FenceIsSound, Current, Swapped

\* Every way the request of an existing row can change.
LEMMA RequestChanges ==
  ASSUME IInv, NEW p \in Procs, Handler(p), outbound' # outbound, outbound.status \in Terminal
  PROVE  \/ /\ outbound.status # "CANCELLED" /\ outbound'.status = "CANCELLED"
            /\ \E a \in Approvals : approvals[a] = "REJECTED"
         \/ outbound.status = "FAILED" /\ outbound'.attemptCount = outbound.attemptCount + 1
         \/ outbound.status = "FAILED" /\ outbound'.status = "DISPATCHING"
  <1>0. outbound \in Request /\ outbound.status # "ABSENT"
    BY DEF IInv, TypeOK, Terminal
  <1>1. CASE RejectWrite(p)
    <2>1. job[p].seen = outbound /\ outbound' = Moved(outbound, "CANCELLED")
      BY <1>1, SwapFromSeen DEF RejectWrite, Holding
    <2> QED
      BY <1>0, <1>1, <2>1, MovedTyped DEF RejectWrite, IInv, KnowsRequest, Statuses, Terminal
  <1>2. CASE CancelWrite(p)
    <2>1. job[p].seen = outbound
      BY <1>2, SwapFromSeen DEF CancelWrite, Holding
    <2> QED
      BY <1>2, <2>1 DEF CancelWrite, IInv, KnowsRequest
  <1>3. CASE RecordSend(p)
    <2>1. /\ job[p].seen = outbound
          /\ outbound' = Answered(outbound, job[p].value, job[p].receipt.message)
      BY <1>3, SwapFromSeen DEF RecordSend, Holding
    <2>2. outbound.status = "FAILED"
      BY <1>3, <2>1 DEF RecordSend, IInv, KnowsRequest, Terminal
    <2>3. job[p].value \in {"SENT", "UNKNOWN"} /\ job[p].receipt.message \in Nat
      BY <1>3, Fields DEF RecordSend, IInv, KnowsAnswer, Receipt
    <2> QED
      BY <1>0, <2>1, <2>2, <2>3, AnsweredTyped
  <1>4. CASE ApplyWrite(p)
    <2>1. job[p].seen = outbound
      BY <1>4, SwapFromSeen DEF ApplyWrite, Holding
    <2> QED
      BY <1>4, <2>1 DEF ApplyWrite, IInv, KnowsRequest
  <1>5. CASE ReconcileWrite(p)
    <2>1. job[p].seen = outbound
      BY <1>5, SwapFromSeen DEF ReconcileWrite, Holding
    <2> QED
      BY <1>5, <2>1 DEF ReconcileWrite, IInv, KnowsRequest, Terminal
  <1>6. CASE RetryFailedOutbounds(p)
    BY <1>0, <1>6, MovedTyped DEF RetryFailedOutbounds, Statuses
  <1>7. CASE DispatchOutbound(p)
    BY <1>0, <1>7 DEF DispatchOutbound
  <1>8. CASE \/ AskApproval(p) \/ ManualRead(p) \/ ManualCheck(p) \/ Crash(p)
            \/ \E a \in Approvals : CreateApproval(p, a) \/ Decide(p, a)
    BY <1>8 DEF AskApproval, ManualRead, ManualCheck, Crash, CreateApproval, Decide
  <1>9. CASE \/ RejectRead(p) \/ CancelRead(p) \/ WithdrawApprovals(p)
            \/ DispatchRead(p) \/ Send(p) \/ ReconcileRead(p)
    BY <1>9 DEF RejectRead, CancelRead, WithdrawApprovals, DispatchRead, Send, ReconcileRead
  <1>10. CASE \/ (\E k \in Keys : ResolveReceipt(p, k)) \/ StoreReceipt(p)
             \/ ApplyRead(p) \/ MarkProcessed(p)
    BY <1>10 DEF ResolveReceipt, StoreReceipt, ApplyRead, MarkProcessed
  <1> QED
    BY <1>1, <1>2, <1>3, <1>4, <1>5, <1>6, <1>7, <1>8, <1>9, <1>10 DEF Handler

\* No late answer, receipt or reconciliation touches a cancelled or succeeded
\* request.
THEOREM SettledForever == Spec => SettledStays
  <1> DEFINE Stays == /\ outbound.status = "CANCELLED" => outbound' = outbound
                      /\ outbound.status = "SUCCEEDED" =>
                           \/ outbound' = outbound
                           \/ /\ outbound'.status = "CANCELLED"
                              /\ \E a \in Approvals : approvals[a] = "REJECTED"
  <1>1. IInv /\ [Next]_vars => [Stays]_vars
    BY RequestChanges DEF Next, vars, Terminal
  <1>2. Spec => [][Stays]_vars
    BY <1>1, HandlersKnow, PTL DEF Spec
  <1> QED
    BY <1>2, PTL DEF SettledStays

\* A failed request is taken up again only by a new recorded call or by the
\* documented retry, for any number of late receipts and reconciliations.
THEOREM FailureHeld == Spec => FailureStands
  <1> DEFINE Reopens ==
        outbound.status = "FAILED" /\ outbound'.status # "FAILED" =>
          \/ outbound'.attemptCount = outbound.attemptCount + 1
          \/ outbound'.status = "DISPATCHING"
          \/ outbound'.status = "CANCELLED" /\ \E a \in Approvals : approvals[a] = "REJECTED"
  <1>1. IInv /\ [Next]_vars => [Reopens]_vars
    BY RequestChanges DEF Next, vars, Terminal
  <1>2. Spec => [][Reopens]_vars
    BY <1>1, HandlersKnow, PTL DEF Spec
  <1> QED
    BY <1>2, PTL DEF FailureStands

\* Recovery never finds a failed request that is due.
THEOREM NothingDue == Spec => []FailedIsNeverDue
  <1>1. IInv => FailedIsNeverDue
    BY DEF IInv
  <1> QED
    BY <1>1, HandlersKnow, PTL
=============================================================================
