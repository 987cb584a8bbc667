---------------------------- MODULE SalesDelivery ----------------------------
(***************************************************************************)
(* The delivery of one quote to a customer: sales-delivery.service.ts and  *)
(* the outbound part of sales-delivery-recovery.service.ts.                *)
(*                                                                         *)
(* dispatchOutbound() creates an OutboundRequest and then an approval      *)
(* request.  A human decides, the channel adapter sends, provider receipts *)
(* arrive by webhook, and reconcile() settles what stayed UNKNOWN.  There  *)
(* is no lock and no transaction: every handler reads the request, awaits, *)
(* and writes behind a compare-and-swap on its revision.  A process of     *)
(* Procs is one HTTP request in flight; each step below is one await.      *)
(*                                                                         *)
(* Abstractions.  One request of one company.  The clock is gone: a set    *)
(* nextRetryAt may be due, an UNKNOWN request may be past the hard TTL.    *)
(* An outcome stands for its class: good is SENT, DELIVERED or READ, bad   *)
(* is FAILED or REJECTED, soft is DEFERRED, vague is UNKNOWN.  A decision  *)
(* by the requester is refused and changes nothing.                        *)
(***************************************************************************)
EXTENDS Naturals, FiniteSets

CONSTANTS
  Procs,        \* HTTP requests in flight
  Approvals,    \* ids of approval requests
  Keys,         \* receiptKey values of the provider
  None,         \* SQL NULL
  MaxAttempts,  \* maxAttempts of the request
  MaxSends      \* bound on the calls of the adapter

ASSUME SalesDeliveryAssumption ==
  /\ MaxAttempts \in Nat
  /\ MaxSends \in Nat
  /\ None \notin Nat
  /\ None \notin Keys
  /\ None \notin {"good", "bad", "soft", "vague"}
  /\ IsFiniteSet(Keys)

VARIABLES
  outbound,   \* the OutboundRequest
  approvals,  \* status of each OutboundApprovalRequest
  receipts,   \* OutboundProviderReceipt by receiptKey
  job,        \* what each handler holds in memory
  sends       \* calls of adapter.send() that reached the provider

vars == <<outbound, approvals, receipts, job, sends>>

\* Mutant: a failed request still takes receipts.
TerminalButFailed == {"SUCCEEDED", "CANCELLED"}

Terminal == {"SUCCEEDED", "FAILED", "CANCELLED"}

\* SalesDeliveryOutboundStatus, and ABSENT before dispatchOutbound().
Statuses == {"ABSENT", "DISPATCHING", "SENT", "UNKNOWN"} \cup Terminal

Request == [status : Statuses, revision : Nat, attemptCount : Nat,
            nextRetryAt : BOOLEAN, providerMessageId : Nat \cup {None}]

NoRequest == [status |-> "ABSENT", revision |-> 0, attemptCount |-> 0,
              nextRetryAt |-> FALSE, providerMessageId |-> None]

ApprovalStatuses == {"ABSENT", "PENDING", "APPROVED", "REJECTED", "CANCELLED"}

Outcomes == {"good", "bad", "soft", "vague"}

\* message is the call the receipt is about, linked whether the receipt found
\* the request, at the order of createdAt.
Receipt == [outcome : Outcomes \cup {None}, message : Nat, linked : BOOLEAN,
            processed : BOOLEAN, at : Nat]

NoReceipt == [outcome |-> None, message |-> 0, linked |-> FALSE,
              processed |-> FALSE, at |-> 0]

\* The stages at which a handler acts on a request it read before an await.
Holding == {"sending", "answered", "cancelling", "rejecting", "applying", "settling"}

Stages == Holding \cup {"idle", "requesting", "manual", "dispatching", "rejected",
                        "withdrawing", "resolved", "stored", "processed", "due"}

Job == [stage : Stages, seen : Request, value : Statuses,
        key : Keys \cup {None}, receipt : Receipt]

Idle == [stage |-> "idle", seen |-> NoRequest, value |-> "ABSENT",
         key |-> None, receipt |-> NoReceipt]

TypeOK ==
  /\ outbound \in Request
  /\ approvals \in [Approvals -> ApprovalStatuses]
  /\ receipts \in [Keys -> Receipt]
  /\ job \in [Procs -> Job]
  /\ sends \in Nat

Init ==
  /\ outbound = NoRequest
  /\ approvals = [a \in Approvals |-> "ABSENT"]
  /\ receipts = [k \in Keys |-> NoReceipt]
  /\ job = [p \in Procs |-> Idle]
  /\ sends = 0

-----------------------------------------------------------------------------
(* The shapes of a handler's step.                                         *)

Goto(p, j) == job' = [job EXCEPT ![p] = j]

At(stage) == [Idle EXCEPT !.stage = stage]

\* Read the request and keep it over the next await.
Hold(p, stage, value) ==
  Goto(p, [At(stage) EXCEPT !.seen = outbound, !.value = value])

\* updateMany ... where revision = seen.revision, with revision + 1.
Swapped(p, new) ==
  IF outbound.revision = job[p].seen.revision THEN new ELSE outbound

\* A status write; every one of them clears nextRetryAt unless it says otherwise.
Moved(r, status) ==
  [r EXCEPT !.status = status, !.revision = r.revision + 1, !.nextRetryAt = FALSE]

Pending == {a \in Approvals : approvals[a] = "PENDING"}

-----------------------------------------------------------------------------
(* Requesting and approving.                                               *)

\* dispatchOutbound() creates the request, and its approval only afterwards.
DispatchOutbound(p) ==
  /\ job[p] = Idle
  /\ outbound.status = "ABSENT"
  /\ outbound' = Moved(NoRequest, "DISPATCHING")
  /\ Goto(p, At("requesting"))
  /\ UNCHANGED <<approvals, receipts, sends>>

\* createOutboundApprovalRequest() in any status; a pending one is returned.
AskApproval(p) ==
  /\ job[p] = Idle
  /\ outbound.status # "ABSENT"
  /\ Pending = {}
  /\ Goto(p, At("requesting"))
  /\ UNCHANGED <<outbound, approvals, receipts, sends>>

CreateApproval(p, a) ==
  /\ job[p].stage = "requesting"
  /\ approvals[a] = "ABSENT"
  /\ approvals' = [approvals EXCEPT ![a] = "PENDING"]
  /\ Goto(p, Idle)
  /\ UNCHANGED <<outbound, receipts, sends>>

\* decideApprovalInternal(): the swap on PENDING, then the send or the cancel.
Decide(p, a) ==
  /\ job[p] = Idle
  /\ approvals[a] = "PENDING"
  /\ \/ /\ approvals' = [approvals EXCEPT ![a] = "APPROVED"]
        /\ Goto(p, At("dispatching"))
     \/ /\ approvals' = [approvals EXCEPT ![a] = "REJECTED"]
        /\ Goto(p, At("rejected"))
  /\ UNCHANGED <<outbound, receipts, sends>>

\* cancelOutboundRecord(): SUCCEEDED and FAILED are no obstacle to it.
RejectRead(p) ==
  /\ job[p].stage = "rejected"
  /\ IF outbound.status = "CANCELLED" THEN Goto(p, Idle) ELSE Hold(p, "rejecting", "ABSENT")
  /\ UNCHANGED <<outbound, approvals, receipts, sends>>

\* A lost swap goes unnoticed: the request of a rejected approval stays open.
RejectWrite(p) ==
  /\ job[p].stage = "rejecting"
  /\ outbound' = Swapped(p, Moved(outbound, "CANCELLED"))
  /\ Goto(p, Idle)
  /\ UNCHANGED <<approvals, receipts, sends>>

CancelRead(p) ==
  /\ job[p] = Idle
  /\ outbound.status \notin Terminal \cup {"ABSENT"}
  /\ Hold(p, "cancelling", "ABSENT")
  /\ UNCHANGED <<outbound, approvals, receipts, sends>>

CancelWrite(p) ==
  /\ job[p].stage = "cancelling"
  /\ outbound' = Swapped(p, Moved(outbound, "CANCELLED"))
  /\ Goto(p, IF outbound' = outbound THEN Idle ELSE At("withdrawing"))
  /\ UNCHANGED <<approvals, receipts, sends>>

\* The second write of cancel(): the pending approvals go too.
WithdrawApprovals(p) ==
  /\ job[p].stage = "withdrawing"
  /\ approvals' = [a \in Approvals |->
                     IF a \in Pending THEN "CANCELLED" ELSE approvals[a]]
  /\ Goto(p, Idle)
  /\ UNCHANGED <<outbound, receipts, sends>>

-----------------------------------------------------------------------------
(* Sending.                                                                *)

\* dispatchOutboundById() reads the status first and the approvals after it.
ManualRead(p) ==
  /\ job[p] = Idle
  /\ outbound.status \in {"DISPATCHING", "FAILED"}
  /\ Goto(p, At("manual"))
  /\ UNCHANGED <<outbound, approvals, receipts, sends>>

ManualCheck(p) ==
  /\ job[p].stage = "manual"
  /\ Goto(p, IF Pending = {} THEN At("dispatching") ELSE Idle)
  /\ UNCHANGED <<outbound, approvals, receipts, sends>>

\* The requests that dispatchOutboundRequest() returns unsent.
Unsendable(r) ==
  \/ r.status \in {"SUCCEEDED", "CANCELLED", "SENT"}
  \/ r.status = "FAILED" /\ r.attemptCount >= MaxAttempts

DispatchRead(p) ==
  /\ job[p].stage = "dispatching"
  /\ IF Unsendable(outbound) THEN Goto(p, Idle) ELSE Hold(p, "sending", "ABSENT")
  /\ UNCHANGED <<outbound, approvals, receipts, sends>>

\* adapter.send(): an SMTP error is DEFERRED, delivered or not.  The provider
\* call precedes the swap.
Send(p) ==
  /\ job[p].stage = "sending"
  /\ sends < MaxSends
  /\ sends' = sends + 1
  /\ \E answer \in {"SENT", "UNKNOWN"} :
       Goto(p, [job[p] EXCEPT !.stage = "answered", !.value = answer,
                              !.receipt.message = sends'])
  /\ UNCHANGED <<outbound, approvals, receipts>>

\* The request after an answered call.
Answered(r, answer, message) ==
  [Moved(r, answer) EXCEPT !.attemptCount = r.attemptCount + 1,
                           !.providerMessageId = message,
                           !.nextRetryAt = (answer = "UNKNOWN")]

\* Mutant: the outcome is written whatever happened since the read.
RecordSendUnfenced(p) ==
  /\ job[p].stage = "answered"
  /\ outbound' = Answered(outbound, job[p].value, job[p].receipt.message)
  /\ Goto(p, Idle)
  /\ UNCHANGED <<approvals, receipts, sends>>

RecordSend(p) ==
  /\ job[p].stage = "answered"
  /\ outbound' = Swapped(p, Answered(outbound, job[p].value, job[p].receipt.message))
  /\ Goto(p, Idle)
  /\ UNCHANGED <<approvals, receipts, sends>>

-----------------------------------------------------------------------------
(* Provider receipts.                                                      *)

\* recordProviderReceipt() up to the insert: a new key, and the request found
\* by the outboundRequestId of the payload or else by providerMessageId.
ResolveReceipt(p, k) ==
  /\ job[p] = Idle
  /\ receipts[k] = NoReceipt
  /\ \E m \in 1 .. sends, o \in Outcomes, explicit \in BOOLEAN :
       Goto(p, [At("resolved") EXCEPT
                  !.key = k,
                  !.receipt = [NoReceipt EXCEPT
                                 !.outcome = o, !.message = m,
                                 !.linked = explicit \/ outbound.providerMessageId = m]])
  /\ UNCHANGED <<outbound, approvals, receipts, sends>>

Stored == {k \in Keys : receipts[k] # NoReceipt}

\* The insert; the unique index on (provider, receiptKey) refuses a second one.
StoreReceipt(p) ==
  LET k == job[p].key
      r == [job[p].receipt EXCEPT !.at = Cardinality(Stored) + 1]
  IN  /\ job[p].stage = "resolved"
      /\ IF k \in Stored
           THEN Goto(p, Idle) /\ UNCHANGED receipts
           ELSE /\ receipts' = [receipts EXCEPT ![k] = r]
                /\ Goto(p, IF r.linked THEN [At("stored") EXCEPT !.key = k] ELSE Idle)
      /\ UNCHANGED <<outbound, approvals, sends>>

\* applyReceiptToOutbound() reads the request; a terminal one stays as it is.
ApplyRead(p) ==
  /\ job[p].stage = "stored"
  /\ Goto(p, IF outbound.status \in Terminal
               THEN [At("processed") EXCEPT !.key = job[p].key]
               ELSE [At("applying") EXCEPT !.key = job[p].key, !.seen = outbound])
  /\ UNCHANGED <<outbound, approvals, receipts, sends>>

\* Mutant: a receipt without a verdict does not count as a change.
AppliedQuietly(r, outcome) ==
  CASE outcome = "good" -> Moved(r, "SUCCEEDED")
    [] outcome = "bad"  -> Moved(r, "FAILED")
    [] OTHER -> [r EXCEPT !.status = "UNKNOWN"]

\* The request after a receipt; a vague one leaves nextRetryAt as it was.
Applied(r, outcome) ==
  CASE outcome = "good" -> Moved(r, "SUCCEEDED")
    [] outcome = "bad"  -> Moved(r, "FAILED")
    [] OTHER -> [r EXCEPT !.status = "UNKNOWN", !.revision = r.revision + 1,
                          !.nextRetryAt = (outcome = "soft" \/ r.nextRetryAt)]

ApplyWrite(p) ==
  /\ job[p].stage = "applying"
  /\ outbound' = Swapped(p, Applied(outbound, receipts[job[p].key].outcome))
  /\ Goto(p, [At("processed") EXCEPT !.key = job[p].key])
  /\ UNCHANGED <<approvals, receipts, sends>>

\* The receipt is marked processed whether or not the swap was lost.
MarkProcessed(p) ==
  /\ job[p].stage = "processed"
  /\ receipts' = [receipts EXCEPT ![job[p].key].processed = TRUE]
  /\ Goto(p, Idle)
  /\ UNCHANGED <<outbound, approvals, sends>>

-----------------------------------------------------------------------------
(* Reconciliation and recovery.                                            *)

\* Mutant: an outcome that settles nothing counts as success.
TargetsOptimistic(outcome) == IF outcome = "bad" THEN {"FAILED"} ELSE {"SUCCEEDED"}

\* terminateStatusForOutcome(): the status an outcome ends a request with.
Targets(outcome) ==
  CASE outcome = "good" -> {"SUCCEEDED"}
    [] outcome = "bad"  -> {"FAILED"}
    [] OTHER -> {}

Latest == {k \in Stored : /\ receipts[k].linked
                          /\ \A j \in Stored : receipts[j].linked => receipts[j].at <= receipts[k].at}

\* reconcileOutbound(): an UNKNOWN request follows its latest receipt, and
\* without any it fails after the hard TTL.
ReconcileRead(p) ==
  /\ job[p] = Idle
  /\ outbound.status = "UNKNOWN"
  /\ \E target \in IF Latest = {} THEN {"FAILED"}
                   ELSE UNION {Targets(receipts[k].outcome) : k \in Latest} :
       Hold(p, "settling", target)
  /\ UNCHANGED <<outbound, approvals, receipts, sends>>

ReconcileWrite(p) ==
  /\ job[p].stage = "settling"
  /\ outbound' = Swapped(p, Moved(outbound, job[p].value))
  /\ Goto(p, Idle)
  /\ UNCHANGED <<approvals, receipts, sends>>

\* retryFailedOutbounds(): the scan, and the write for a request it found due,
\* whose dispatch run() adds as a ManualRead.  A request out of attempts keeps
\* its status and revision: only the wording of lastError grows.
RetryFailedOutbounds(p) ==
  /\ job[p].stage \in {"idle", "due"}
  /\ IF job[p].stage = "idle"
       THEN /\ Goto(p, IF /\ outbound.status = "FAILED" /\ outbound.nextRetryAt
                          /\ outbound.attemptCount < MaxAttempts
                       THEN At("due") ELSE Idle)
            /\ UNCHANGED outbound
       ELSE /\ outbound' = IF outbound.status = "FAILED"
                             THEN Moved(outbound, "DISPATCHING") ELSE outbound
            /\ Goto(p, Idle)
  /\ UNCHANGED <<approvals, receipts, sends>>

\* A handler throws, or the server dies under it.
Crash(p) ==
  /\ job[p] # Idle
  /\ Goto(p, Idle)
  /\ UNCHANGED <<outbound, approvals, receipts, sends>>

-----------------------------------------------------------------------------
Handler(p) ==
  \/ DispatchOutbound(p) \/ AskApproval(p)
  \/ \E a \in Approvals : CreateApproval(p, a) \/ Decide(p, a)
  \/ RejectRead(p) \/ RejectWrite(p)
  \/ CancelRead(p) \/ CancelWrite(p) \/ WithdrawApprovals(p)
  \/ ManualRead(p) \/ ManualCheck(p)
  \/ DispatchRead(p) \/ Send(p) \/ RecordSend(p)
  \/ \E k \in Keys : ResolveReceipt(p, k)
  \/ StoreReceipt(p) \/ ApplyRead(p) \/ ApplyWrite(p) \/ MarkProcessed(p)
  \/ ReconcileRead(p) \/ ReconcileWrite(p)
  \/ RetryFailedOutbounds(p)
  \/ Crash(p)

Next == \E p \in Procs : Handler(p)

Spec == Init /\ [][Next]_vars

-----------------------------------------------------------------------------
(* Properties.                                                             *)

\* (FenceIsSound) A revision names one content of the request: a handler whose revision is
\* still current acts on exactly the request it read.  This is what makes the
\* swaps of dispatchOutboundRequest(), cancel(), applyReceiptToOutbound() and
\* reconcileOutbound() safe, and every writer has to keep it.
Current(p) ==
  job[p].stage \in Holding =>
    /\ job[p].seen.revision <= outbound.revision
    /\ job[p].seen.revision = outbound.revision => job[p].seen = outbound

FenceIsSound == \A p \in Procs : Current(p)

\* SUCCEEDED rests on a stored receipt of this request that reports success:
\* neither a send, nor a reconciliation, nor the hard TTL brings it about.
SuccessIsAttested ==
  outbound.status = "SUCCEEDED" =>
    \E k \in Keys : receipts[k].linked /\ receipts[k].outcome = "good"

\* No late answer, receipt or reconciliation touches a cancelled request, and
\* a succeeded one is neither resent nor failed: only a rejected approval that
\* was still being decided cancels it.
SettledStays ==
  [][/\ outbound.status = "CANCELLED" => outbound' = outbound
     /\ outbound.status = "SUCCEEDED" =>
          \/ outbound' = outbound
          \/ outbound'.status = "CANCELLED" /\ \E a \in Approvals : approvals[a] = "REJECTED"]_vars

\* A late answer, receipt or reconciliation never takes a failure back
\* ("terminal states do not go back", sales-delivery.service.ts:729): a failed
\* request goes on by a new recorded call, by the retry that the recovery
\* service documents (FAILED and due to DISPATCHING), or by a rejected approval.
FailureStands ==
  [][outbound.status = "FAILED" /\ outbound'.status # "FAILED" =>
       \/ outbound'.attemptCount = outbound.attemptCount + 1
       \/ outbound'.status = "DISPATCHING"
       \/ outbound'.status = "CANCELLED" /\ \E a \in Approvals : approvals[a] = "REJECTED"]_vars

\* No write leaves a failed request with a nextRetryAt, the column by which
\* retryFailedOutbounds() looks for work.
FailedIsNeverDue == outbound.status = "FAILED" => ~outbound.nextRetryAt

\* What a handler knows of the request it holds, stage by stage.
KnowsRequest(p) ==
  LET j == job[p]
  IN  /\ j.stage \in {"sending", "answered"} => j.seen.status \notin {"SUCCEEDED", "CANCELLED"}
      /\ j.stage \in {"cancelling", "applying"} => j.seen.status \notin Terminal
      /\ j.stage = "settling" => j.seen.status = "UNKNOWN"
      /\ j.stage = "rejecting" => j.seen.status # "CANCELLED"
      /\ j.stage \in {"rejected", "rejecting"} => \E a \in Approvals : approvals[a] = "REJECTED"

\* What it knows of the answer or the receipt it brings.
KnowsAnswer(p) ==
  LET j == job[p]
  IN  /\ j.stage = "answered" => j.value \in {"SENT", "UNKNOWN"}
      /\ j.stage = "settling" => \/ j.value = "FAILED"
                                \/ /\ j.value = "SUCCEEDED"
                                   /\ \E k \in Keys : receipts[k].linked /\ receipts[k].outcome = "good"
      /\ j.stage = "resolved" => j.key \in Keys /\ j.receipt.outcome \in Outcomes
      /\ j.stage \in {"stored", "applying", "processed"} =>
           j.key \in Keys /\ receipts[j.key].linked /\ receipts[j.key].outcome \in Outcomes

\* The inductive invariant: the fence, and what every handler in flight knows of
\* the rows of sales-delivery.service.ts it is about to write.
IInv ==
  /\ TypeOK
  /\ outbound.status = "ABSENT" => outbound = NoRequest
  /\ FailedIsNeverDue
  /\ FenceIsSound
  /\ \A p \in Procs : KnowsRequest(p) /\ KnowsAnswer(p)
  /\ SuccessIsAttested

\* sales-delivery.controller.ts dispatches "an approved outbound request":
\* what reached the provider was approved by somebody.
SentOnlyIfApproved ==
  sends > 0 => \E a \in Approvals : approvals[a] = "APPROVED"

=============================================================================
