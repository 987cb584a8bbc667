# Vaysen AI CRM: a TLA+ verification project

This directory models the parts of the Vaysen AI CRM whose correctness depends on
the order in which concurrent steps happen, checks the models with TLC and proves
the central results with TLAPS. File names of the CRM are relative to the
repository; `M/` abbreviates `src/backend/src/modules/`.

## 1. The system

The CRM is a NestJS back end (`src/backend`, PostgreSQL through Prisma, BullMQ queues on
Redis), a Next.js front end, an Electron client and an OpenClaw plug-in through which an
assistant acts for a user. The core of the program is what leaves the company:
e-mails, WhatsApp messages and quotes, sent by people, by workers and by an AI
assistant, and never to be sent twice or without authority. The README of the
repository puts it as "是否发送成功必须以渠道返回的真实消息编号为准" (whether a
send succeeded is decided by the channel's own message id), and
`docs/ARCHITECTURE.md` as "External sends must return a provider message
identifier or an explicit failure".

### 1.1 Inventory

| Component | State it keeps | Operations | Interacts with |
|---|---|---|---|
| Outbound compliance outbox (`M/outbound`) | `ExternalActionOutbox` rows: status, attempts, lease, receipt | `execute`, `reserve`, `cancel`, `recoverStaleExecuting`, `reconcileUnknown` | called by the e-mail worker, business mail, WhatsApp; asks permissions; projects onto messages |
| Sales delivery (`M/sales-delivery`) | `OutboundRequest`, approvals, provider receipts, render jobs | dispatch, decide, cancel, receipt, reconcile, recovery sweep | provider adapters, webhooks, quotes |
| E-mail pipeline (`M/emails`) | `EmailMessage` status, BullMQ jobs, account quotas | compose, validate, queue, send worker | outbox, IMAP, templates |
| Owner notifications (`M/owner-notifications`) | `OwnerNotificationOutbox` rows | enqueue, `dispatchDue`, recovery, expiry | OpenClaw gateway |
| Assistant permissions (`M/agent`) | profiles, temporary grants, grant consumptions | `createTemporaryGrant`, `revokeGrant`, `evaluate` | outbox, tool broker |
| Assistant tools (`M/assistant-tools`) | tool executions with leases | `plan`, `confirm`, `cancel`, `execute` | permissions, CRM services |
| OpenClaw (`M/openclaw`) | selection tokens, tool receipts, CRM sessions, operator bindings | selection issue and consume, tool broker, execution lease, pairing | `chat()` of the agent service, gateway, WeChat |
| Deep research (`M/deep-research`) | `AgentRun`, BullMQ jobs, reports | enqueue, process, reconcile, cancel | queues, agent service, AI |
| WhatsApp (`M/whatsapp`) | sessions, messages, broadcasts | send, webhooks, pairing | outbox, gateway |
| Leads, search, imports, duplicates, merges | customer records | import, search, merge, score | most others |
| Quotes, orders, opportunities, products | commercial records | create, revise, convert | sales delivery, customer facts |
| Sales sequences, customer facts, reminders | enrolments, facts, reminders | enrol, stop, assert and supersede facts | e-mail, assistant |
| Auth, users, companies, security | users, refresh tokens, memberships | login, refresh, roles | all controllers |
| Front end, Electron client, plug-ins, deployment | user interface and packaging | | HTTP API |

Components not listed above (communications, inbound mail, templates, tracking,
reminders, timeline, analytics, AI and voice services, audience segments, shared
infrastructure) are in `PROJECT.json` with the reason for leaving them out.

### 1.2 What is hard

The back end runs as several processes: API servers and BullMQ workers, with timers
in some of them. They share one PostgreSQL database and no lock of their own.

* **Interleaving.** A handler reads a row, awaits, and writes later. What protects the
  write is the `where` clause of an `updateMany`: a status, a revision, an attempt
  version, a lease token. Each component has its own idea of that fence.
* **Ambiguous sends.** A provider may have accepted a message whose answer is lost or
  late. Nothing the CRM can read tells whether it was sent.
* **Crashes** between two writes of one handler, or between a send and its recording.
* **Leases and clocks.** A lease runs out while its holder is alive; a cycle of the
  dispatcher goes on with the time of its start.
* **Receipts** arrive in any order, more than once, and before the send they are about
  is recorded.
* **A language model calls back.** It repeats a tool call, with the same key or another,
  after its session was drained, or long after the answer was stored.
* **Queues.** BullMQ retries a job that threw, takes back a job whose worker died or only
  lost its lock, forgets jobs that ended, and ignores a job whose id it knows.
* **Bounds**: attempts, rate limits, expiry.

`PROJECT.json` lists each hazard at the line where it bites.

### 1.3 What makes each component correct

| Component | Properties |
|---|---|
| Outbox | one accepted send per action; the recorded status is true; a retry follows only rejections; rate limits hold; duplicates are held back |
| E-mail worker | a message shown Sent was sent, once; no message waits without a job; the worker moves outbox rows only as the outbox does |
| Outbound requests | the revision is a sound fence; a settled request stays settled; success rests on a receipt; a failure is reopened only by a new call; nothing unapproved is sent |
| Render jobs | one renderer per lease; a lease is ended by who holds it; the leaseId is a lease, so a completed job stays completed; the PDF shows the hashed content |
| Owner notifications | attempts are exclusive; the outcome has a cause and is final; every notification is settled |
| Assistant tools | a tool writes only after a confirmation; one record per execution; success has its record and stays |
| OpenClaw broker | one invocation per request key; a selection is spent once; receipt and run tell one story |
| OpenClaw CRM session | an execution settles quietly and for good; only its holder ends a live lease |
| Owner's WeChat | a replaced phone starts nothing; repeated actions are apart; the window of receipts holds |
| Deep research | one worker researches; a completed run has its whole report, a cancelled one none; the claim is a lease; an ended run stays; every run ends |

## 2. The plan

| Step | Modules | State |
|---|---|---|
| 1 | `Outbox`, its contract `ActionContract`, `OutboxProofs` | checked and proved |
| 2 | `SalesDelivery`, `RenderJobs` with its contract `LeaseContract`, and their `...Proofs` | checked and proved |
| 3 | `OwnerNotify`, `OwnerNotifyProofs` | checked and proved |
| 4 | `EmailSend` over `Outbox`, `EmailSendProofs` | checked and proved |
| 5 | `AssistantTools`, `AssistantToolsProofs`; `ToolBroker` composed by `CrmAssistant` and `OwnerChat`, `ToolBrokerProofs` about all three | checked and proved |
| 6 | `DeepResearchRuns` with a BullMQ queue, which implements `LeaseContract` too, `DeepResearchProofs` | checked and proved, except its liveness (checked) |
| 7 | temporary grants of assistants, customer facts, sequences | not done, see section 7 |

## 3. The modules

Conventions. `Procs`, `Workers`, `Cycles`, `Turns` and `Calls` are running executions. A
statement that the database makes atomic (one `updateMany`, one insert behind a unique
index, one Serializable transaction, or a transaction under an advisory lock) is one action;
everything between two awaits of one handler can be interleaved with all others. What a
handler carries over an await is in a variable `job`, `work` or `calls`, a record with its
stage and the row as it `seen` it. `None` is SQL NULL. `Crash`, `Abandon` and `Drop` end an
execution anywhere. A definition commented *Mutant* is a wrong version of a definition after
it; it takes no part in the specification, and shows which mistake a property would catch.

```
ActionContract  <-- implemented by --  Outbox  <-- extended and implemented by --  EmailSend
ToolBroker      <-- composed by   --  CrmAssistant (CRM session)
                <-- composed by   --  OwnerChat (WeChat)
LeaseContract   <-- implemented by --  RenderJobs
                <-- implemented by --  DeepResearchRuns
SalesDelivery, OwnerNotify, AssistantTools: each on its own
```

### 3.1 `Outbox` and `ActionContract`

`M/outbound/outbound-compliance.service.ts`. `rows` is the table `ExternalActionOutbox`
by idempotency key, `calls` what the provider did with each attempt of each row, which the
code cannot read, and `now` the clock.

| Action | Code |
|---|---|
| `ReserveNew`, `ReserveReplay`, `ReserveLostRace`, `ReserveLapsed`, `ReserveExpired` | the branches of `reserve()` |
| `Claim`, `LoseClaim`, `Exhaust` | the claim transaction of `execute()` and its early returns |
| `Complete`, `Reject`, `Ambiguous` | the answer of the provider, the explicit rejection, and every other error with the 45 s timeout, each behind lease token and version |
| `Cancel`, `RecoverStaleExecuting`, `Reconcile*` | the administrators' operations |
| `ProviderDecides` | the provider, at any time after the call, also when nobody waits |

`Claim` takes any clock value between the reservation and now, for the code computes `now`
before it opens the transaction. `ActionContract` is what the callers may rely on: an action is
delivered at most once, reported sent only if it is, reported unsent only if it is not
and will not be, and otherwise "unsure" until an operator settles it. The refinement
mapping is `OutcomeOf(row)` and `Accepted(key)`.

A request that fails validation, the check of its operator or the agent's permission rolls back
and changes nothing; it is a stutter, or `Abandon` when the caller held a reservation.

### 3.2 `EmailSend`

`M/emails/email-send.processor.ts`, `email-validate.processor.ts`, `resend()` of
`emails.service.ts`, `projectReconciledAction()` of the outbox and the tracking pixel. It
EXTENDS `Outbox`: a key is a message, a digest a version of its body. `msg` is the table
`EmailMessage`, `queue` the jobs of the validate and send queues, `work` what a worker holds.
A job goes through `Take`, `Look` (the message and its outbox row), one of `Settle`, `Wait`,
`RecoverLease`, `Resume`, `Refuse` by what it saw, the checks (`Reconsider`, `Delay`,
`Requeue`, `RefuseSend`), `MarkSending`, `Reserve`, `Dispatch`, `Deliver`, and the write of the outcome
(`WriteSent`, `Record`, `WriteUnknown`, `WriteFailure`). `Reserve`, `Dispatch` and `Deliver` are steps of
`Outbox`; `RecoverLease` is the worker's own update of a lapsed row, which
`ImplementsOutbox` shows to be one that the outbox could have made. All status
writes of the message go by its id alone, as in the code.

### 3.3 `SalesDelivery`

`M/sales-delivery/sales-delivery.service.ts` and the outbound part of
`sales-delivery-recovery.service.ts`: one request, its approvals and receipts. Every
handler is split at its awaits: `DispatchRead`, `Send`, `RecordSend` for
`dispatchOutboundRequest()`; `CancelRead`, `CancelWrite`, `WithdrawApprovals` for
`cancel()`; `ResolveReceipt`, `StoreReceipt`, `ApplyRead`, `ApplyWrite`,
`MarkProcessed` for a webhook; `ReconcileRead`, `ReconcileWrite`; `Decide` with
`RejectRead`, `RejectWrite`; `RetryFailedOutbounds`. `Swapped` is the compare-and-swap
on `revision`. There is no clock: a date that is set may be past, so `nextRetryAt` is a
Boolean and the hard TTL of `reconcileOutbound()` may have passed. Receipt outcomes
are classes (good, bad, soft, vague) as `terminateStatusForOutcome()` and
`applyReceiptToOutbound()` tell them apart.

### 3.4 `RenderJobs` and `LeaseContract`

`renderQuote()` and `executeRenderJob()` of the same service and the render part of the
recovery. `quote` is the content of the quote, `files` the content of the PDF of each
job. `Ask`, `FindJob`, `NextQuoteVersion` and `CreateJob` are the statements of
`renderQuote()`; `Claim`, `Render`, `WritePdf`, `Complete` and `RenderFailed` those of
`executeRenderJob()`; a recovery pass is a scan and a fenced write.

`LeaseContract` is what a lease promises without tokens, clocks, queues and rows: work is held by
one agent at a time (`Grant`), only an agent that is at it and holds it finishes it or gives it back,
one that was overtaken leaves and changes nothing, anyone may revoke or drop it, and work that is
over stays over. In `RenderJobs` the items are the jobs, and a handler from `Claim` to its outcome is an
agent whose lease is the job's or is gone; in `DeepResearchRuns` the item is the run and the lease its
claim. The two codes fence differently (a fresh leaseId per claim; the worker's claim on a run that
is RUNNING) and keep the same promise. The other leases of the repository do not implement it, and
the models say so by their properties: `OwnerNotify` completes and fails a row behind its status
SENDING alone, and `AssistantTools` writes its outcome by id.

### 3.5 `OwnerNotify`

`M/owner-notifications/owner-notification.dispatcher.ts` and `enqueueInbound()`. A cycle
goes through `Begin` (it takes its time), `RecoverStaleClaims`, `FailExpired`, `Scan`,
`Claim` or `Exhaust`, `Send`, and `Complete` or `Fail`, all with the time of
`Begin`. Other candidates of a cycle show as time that passes between its steps.
`Send` may reach the owner and lose its receipt.

### 3.6 `AssistantTools`

`M/assistant-tools/assistant-tool.service.ts`. `execs` is the table of executions, `effects`
the number of reminders, quotes or drafts that name an execution, `overtaken` a history of the
executions whose lease was taken from a holder that was still at work. `Plan`, `Confirm`, `Claim`
(the compare-and-swap on the state), `Recover` (on the old `startedAt`), `Execute` (the second
read), `StartPlanned`, `LookUp` (the ledger), `Create`, `Throw`, and `Fail` or `Succeed`, which
write by id alone. A request that ends early, also by a crash, is `Abandon`.

### 3.7 `ToolBroker`, `CrmAssistant`, `OwnerChat`

`ToolBroker` holds the operations of `M/openclaw/openclaw-tool-broker.service.ts` and
`openclaw-selection.service.ts` that its two channels share: `Resolve`, `Consume` (of a
selection), the branches of `reserve()` (`FindReceipt`, `FailStale`, `Refuse`, `Start`),
`Invoke`, the terminal transaction `Record`, `Drop` and the purge. It has no specification of its
own. `CrmAssistant` composes it with the execution lease of
`openclaw-crm-session.service.ts` and the turn that `chat()` makes of it: `Register`,
`LoadReceipts`, `Claim`, `Answer`, `Persist`, `EndLease`; the callbacks are admitted by the lease
token, and `DRAINING` waits for the last of them. `OwnerChat` composes it with the operator
binding that pairing writes (its definitions begin with `Chat`, so that one module can reason about both): the callbacks carry a sender, a phone may be replaced at any
time, the model may repeat an action under a new key, and the broker counts by windows of time.

### 3.8 `DeepResearchRuns`

`M/deep-research/deep-research-run.service.ts`, `deep-research.processor.ts`, `cancel()` of the
agent service. One run of one request key. `CreateOrGetRun`, `AddQueueJob`, `AddFails`,
`FailUnqueued` are `enqueueForLead()`; `Scan`, `LookAtJob`, `Remove`, `AddAgain` a pass of
`reconcilePendingRuns()`; `ReadRun` to `FailRun` the processor. The queue is modelled from how the
code uses it: `Fetch`, `Return`, `Throw`, `TakeBack` of a dead worker's job, `LoseLock` of a live
one, `Forget`. `ImplementsLease` maps a run that is ABSENT, PENDING or failed and
to be tried again to open work, and one that is cancelled or failed for good to dropped work. `disrupted` is a history: a worker outlived its lease or its job. There is no
clock; a lease may run out at any time, which is more than the heartbeat of the code allows.

## 4. The runs

| Run | Instance | States | Shows |
|---|---|---|---|
| `outbox` | 2 keys of one payload, 2 workers, 2 attempts, tight quotas | 306 000 | at most one acceptance, truthful statuses, retries only after rejections, quotas, the contract |
| `email_send` | 1 message of 2 bodies, 2 queue jobs, 1 worker | 1 280 000 | Sent is attested, nothing stranded, the outbox's steps and with them at most one acceptance |
| `sales_delivery` | 2 handlers, 2 approvals, 1 receipt key, 2 sends | 840 000 | the fence, settled requests, reopened failures, attested success |
| `sales_delivery_approval` | 2 handlers, 1 approval, 1 send | violation | a send nobody approved |
| `render_jobs` | 4 handlers, 2 contents, 1 job, 3 claims | 413 000 | one renderer, who ends a lease, `LeaseContract` |
| `render_jobs_snapshot` | 2 handlers, 2 contents, 1 job | violation | a PDF of another content |
| `owner_notify` | 2 cycles, 2 attempts, 4 ticks | 86 000 | exclusive attempts, causes, finality, settlement |
| `assistant_tools` | 1 execution, 3 requests, 2 ticks | 435 000 | confirmation, one record, one dispatcher, success with its record |
| `crm_assistant` | 2 turns, 2 callbacks, 1 search, 2 actions, 2 leases | 978 000 | one invocation, one spender, settled quietly and for good, lease holders |
| `crm_assistant_processing` | 1 turn repeated, 1 callback, 2 leases | violation | a receipt that stays PROCESSING |
| `owner_chat` | 2 callbacks, 2 searches, 2 equal actions, 2 phones | 777 000 | replaced phones, duplicates, the window |
| `deep_research` | 2 requests, 2 workers, 1 timer, 1 fault | 938 000 | one executor, whole reports, clean cancellations, ended runs, `LeaseContract`, liveness |

Each property has a mutant in `PROJECT.json`: a plausible mistake in one definition with which
TLC finds the property violated.

### 4.1 The bounds, and why they are enough

* Two handlers show every race of two writes. The properties about leases need a third
  and a fourth (a holder that lost its lease, the recovery that took it, the next holder), so
  `assistant_tools` has three and `render_jobs` four. In `owner_notify` the recovery is part of a
  cycle, and the cycle that lost its lease and one that recovers and reclaims it are two. The
  theorems of section 6 cover any number.
* `email_send` has one worker: `docker-compose.prod.yml` runs one back end, and its `accountChains`
  make the jobs of one account follow each other. A dead worker and its successor are still two
  executions, and the refinement is proved for any number of workers. `NotStranded` needs the one
  process (section 5).
* Attempts: two, so that a retry and the exhaustion happen. `Tries` and `MaxRetries` are 2 in
  `email_send`, so that the last failure and the last job attempt fall together and apart.
* `MaxNow` with `Lease`, `RetryDelay`, `Ttl`, `Stale` and the windows of 0 to 3 ticks: a lease runs out
  before, at and after the retry time and the expiry. In `OwnerNotify` a notification is
  enqueued only while it can still expire before the clock stops, and the backoff is linear.
* `MaxSends`, `MaxJobs`, `MaxClaims` bound what people may repeat, `MaxFaults` what breaks. With
  `MaxFaults` 2, one request and no liveness, `DeepResearchRuns` was checked outside the runs.
  `Limit` is 2 receipts, so the third is refused.
* Symmetry is declared only over sets of model values that no property and no `CHOOSE`
  distinguishes, and in no run with a liveness property.
* Runs whose clock, tokens or requests come to an end (`outbox`, `email_send`, `assistant_tools`,
  `crm_assistant`, `deep_research`) switch the deadlock check off: there the system really
  stops. The others check it.

### 4.2 Fairness

* `Outbox` and what extends it state no liveness: nothing in the code resolves an EXECUTING row
  whose worker died unless somebody calls an administrator's endpoint or replays the key.
* `OwnerNotify!FairSpec`: the timer of `onModuleInit()` starts cycles for ever, sends end, time
  passes, and crashes do not strike every cycle in its first two statements (strong fairness
  of `RecoverStaleClaims` and `FailExpired`; a crash loop that never gets that far
  settles nothing).
* `DeepResearchRuns!FairSpec`: workers fetch and go on, the timer makes its passes, BullMQ looks for
  stalled jobs, leases run out (weak fairness), and faults are finitely many (`MaxFaults`).
* `CrmAssistant!FairSpec` gives the callers more than the code does: turns and callbacks go on and are
  tried again for ever, under strong fairness. `NoKeyStaysProcessing` is violated nevertheless.

## 5. What disagrees with the repository's words

Each of the three is a run that must end in a violation, with the quoted line in `PROJECT.json`.

1. `sales_delivery_approval`: a request is dispatched by hand when its approval does not
   exist yet; the code asks for the absence of a pending approval, not for an approved one.
2. `render_jobs_snapshot`: the rendering reads the quote again and may show an edited one.
3. `crm_assistant_processing`: the stale recovery of the CRM channel sits behind a live lease that
   lasts a minute, a receipt is stale after five, and a request with a receipt never gets
   another lease: a callback that died leaves its receipt PROCESSING for good.

Behaviours that the models contain, which a reader of the code should know of:

* Outbox: a rejected row that waits for its retry does not hold back a second key of the same
  payload, and both may be sent (`OverlapOnlyOnRetry` allows exactly this). A row whose worker died
  stays EXECUTING until somebody asks.
* Sales delivery: two concurrent dispatches of one request both call the channel; a receipt that loses its
  swap is marked processed and ends nothing until a reconciliation; nothing that failed has a
  `nextRetryAt`, so `retryFailedOutbounds()` selects nothing, ever (theorem `NothingDue`).
* Render jobs: a QUEUED job is returned as it is and rendered by nobody; a failed one may be requeued
  beyond its attempts by a recovery that scanned it earlier.
* Owner notifications: one may be delivered twice; one that is SENDING when it expires stays so
  (`EventuallySettled` excepts it).
* E-mail: with two processes of the send worker, whose `accountChains` know nothing of each other, two
  jobs of one message may run at once; each writes a `retryCount` it computed from an older read,
  and a message can end QueuedToSend without a job, also with the code's own three attempts and three
  retries. TLC finds this in 36 steps when `MCEmailSend` gets two workers and `Tries` and `MaxRetries`
  of 3. The deployment runs one process; nothing in the code asks for that.
* E-mail: an administrator's "sent" is projected on the message and then overwritten with Blocked by the
  worker that was still answering UNKNOWN; an error in the bookkeeping after a send overwrites Sent;
  a resend of a message whose first row exists is refused for its new payload.
* Assistant tools: an execution that only reads can be cancelled and still end SUCCEEDED; a holder
  that outlived its lease writes its outcome over that of its successor, and may add a second reminder.
* OpenClaw: while the session drains, the last callback of a lease may be of another turn than the one that
  ended it.
* Deep research: `deleteRunReport()` checks and deletes in two statements; a request that joined a run is
  told it is queued while its creator fails it; after a job was put back, the first throw of its
  new life counts as a retry of the same job. Under faults a cancelled run may keep a report that
  no job is left to delete; it is not shown, for its run is not completed.

## 6. The proofs

All theorems hold for every value of the constants that satisfies the `ASSUME` of the
module: natural numbers for bounds, and `None` distinct from what it is compared with.

**`OutboxProofs`.** `TypeCorrect`, `RowsMatchCalls` (`IInv`), `AtMostOnce`, `Truthful`.
At most one acceptance is not inductive: a worker claims with a row it read long ago.
`IInv` adds what makes it so: `attemptCount` and `attemptVersion` never drift apart,
every call before the last was rejected and none was made after it (`Sequenced`), and each
status says what it knows of the last call (`StatusMatches`). The claim compares the version, so
it opens call `version + 1` of a row that `StatusMatches` knows to be unsent. `ClosedForever`,
`RetrySafe` and `OutboxImplementsContract` follow: every action is mapped to the step of
`ActionContract` it takes or to a stutter; the lemma `ContractOneRow` reduces that to the
outcome of the one row it writes. `OverlapIsRetry` and `LimitsHold` rest on one lemma about steps,
`RowsStep`: either every row goes on as what it was, neither counted nor unresolved anew (`RowsGoOn`), or
one row joins while the quotas and the search for an equivalent one allow it (`Joins`). A row of
which an attempt was made and that is unresolved again is a retry by `StatusMatches`. That the rows a
quota counts are finitely many is part of the invariant `CountInv`, not assumed of `Keys`; a window
that slides only loses rows.

**`EmailSendProofs`.** `EmailInvariant` (`EmailInv`: types, and no two workers hold one queue job),
`EmailImplementsOutbox`: every step is a step of `Outbox` or leaves its variables, so the theorems of
`OutboxProofs` hold for campaign messages (`EmailAtMostOnce`, `EmailWithinLimits`,
`EmailOverlapsOnRetry`). `SentAttested` needs a further invariant, `SentInv`: what each worker, between
its call and its write, knows of the row that others may reconcile meanwhile.

`NoneStranded` says that no message waits without a job, for any number of messages, jobs, workers,
resends and crashes, under two conditions that its statement names:

* `MaxRetries <= Tries`: a message is allowed no more retries than its job has attempts. The code has 3
  and 3 (`schema.prisma:1776`, and the options of the queue), so the last throw of a job finds
  the message's retries spent and writes Failed.
* `[]OneAtATime`: no two workers hold jobs of one message. `accountChains` provides this within a process,
  and `NoneStrandedByOne` is the same without the condition for one worker. With more processes the
  property is false (section 5).

The invariant is `CountsCover` and `StandInv`: every count of failures that may still be written on a
message, its own, the one a worker read and the one a resend restores, covers the attempts each of its
send jobs has spent or is the maximum; and a worker that has recorded Sent leaves a message that waits
again only if it has another job. Both were checked by TLC before they were proved.

**`SalesDeliveryProofs`.** `HandlersKnow` (`IInv`), `TypeCorrect`, `FenceHolds`,
`SuccessHasReceipt`, `SettledForever`, `FailureReopens`, `NothingDue`. The fence is
proved from two shapes of step: a local step changes no request, a writing step changes it only
with a higher revision. `IInv` says in addition what a handler at each stage knows of the
request and the answer it holds; a successful swap then writes exactly what it read.

**`RenderJobsProofs`.** `LeasesNumbered` (`RInv`), `RenderTypeCorrect`, `OneRendererHolds`,
`CompletedKept`, `LeaseEndsByItsHolder`, `RenderImplementsLease`. The argument of fencing tokens: a claim numbers its lease by
the attempt it counts, every handler holds a number no larger than that, so a new claim holds one
that nobody has. The refinement reads off it: `Claim` is `Grant`, for whoever still renders under an older
number holds nothing; the outcome of a holder is `Finish` or `GiveBack`, that of anyone else `Leave`; a
recovery that saw this lease is `Revoke`, and a requeued failure, which nobody held, a stutter.

**`OwnerNotifyProofs`.** `CyclesKnow` (`NInv`), `NotifyTypeCorrect`, `ExclusiveAttempts`,
`CauseOfSettling`, `SettledForGood`. The outcome of an attempt is fenced by the status alone; what
makes a late one harmless is that every cycle in flight has an attempt no larger than the counted
one and an expiry that never moves.

**`AssistantToolsProofs`.** `ToolInvariant` (`IInv`), `ToolTypeCorrect`, `ConfirmedWrites`,
`OneRecordEach`, `DispatchedByOne`, `SuccessKept`, `SuccessRecorded`. The invariant says what a row
tells (`ExecInv`), what a request knows of its execution (`JobInv`), and that an execution nobody
overtook has one holder (`LoneHolder`).

**`ToolBrokerProofs`.** `AssistantInvariant` (`AInv`), `AssistantTypeCorrect`, `InvokedOnce`,
`SpentOnce`, `StoriesAgree`, `SettledQuiet`, `SettledForGood`, `HolderEnds`, `TerminalWins`. A receipt is
made once, and the callback that makes it is the only one that ever runs its tool (`OneRunner`); so
a search is run once, issues one selection, and that selection has one spender. `BrokerInv` says this of
the broker alone and every step of it keeps it, so both channels have it: for the owner's WeChat,
`ChatInvariant` (`CInv`), `ChatTypeCorrect` and `ChatKeepsPromises`. `CInv` adds that a callback and a
receipt bear the phone they were resolved for and that receipts are finitely many. `ApartInTime`
and `WindowLimited` then compare a new receipt with those there: it is made now, within the count
that `reserve()` took in the same transaction, and no window that ended earlier
contains it. `ReplacedIsSilent` is the action property: a callback resolved for a phone that was replaced meanwhile
makes no receipt.

**`DeepResearchProofs`.** `ResearchInvariant` (`DInv`), `ResearchTypeCorrect`, `ExecutedByOne`,
`CompletedWhole`, `CancelledIsClean`, `EndedForGood`, `ResearchImplementsLease`. The claim is no fence by itself: a retry of
the same job may take over a run whose lease still lives. `QueueOK` supplies what makes it
sound: a job that was never taken back has one worker, so a retry that has its lock finds all
others idle. `ExecOK` says what a worker at each stage knows of the run and its report. `ResearchImplementsLease` needs none of this, only the types: it holds also
where workers outlive their leases and jobs, because a worker that has started the research completes or fails the run only under its claim.

Only model-checked are `EventuallySettled` and `EveryRunEnds`: liveness under fairness is outside the
prover. The three properties that runs violate are false. Every invariant and every action property
of a passing run has its theorem, `NotStranded` under the conditions above.

No module uses `RECURSIVE`. Types are proved and are not among the properties of the
runs, which spend their time on what could be wrong.

## 7. What is not modelled

* *Temporary grants of assistants.* A grant is counted and consumed inside the Serializable
  reservation of the outbox, so a grant that is exhausted or revoked is a request that changes
  nothing; the rules of `assistant-permission.service.ts` themselves are a pure decision table.
* *Customer facts, identity and merging, sequences.* Single transactions on few rows, and contracts
  without a state of their own; their interest is in the rules, not in an order of steps.
* *Business mail, WhatsApp, inbound mail.* They send through the same `execute()` as the e-mail
  worker; what remains is the protocol of the provider.
* *Execution inputs.* `execute()` of an assistant tool runs with the inputs that
  `safeSummary()` (`assistant-tool.service.ts:233`) stored, each cut to 240 characters; inputs are
  no part of the model.
* *Coverage.* The modelled code is a small share of the repository: most of its 134 000 lines are
  controllers, queries, prompts, crawlers, scoring and user interface, which read or write single
  rows and have no order of steps to get wrong that a model of this size could show.
* Also left out: the text of messages and its redaction, addresses and provider scopes (part of a
  digest), roles and tenant checks (requests that change nothing), JSON details of receipts beyond
  their class (that `mapReceiptOutcome()` takes "undelivered" for a delivery is not visible here),
  file paths, AI drafts that go back to the compose queue, callbacks of WeChat with a `messageId`.

Every component is in `PROJECT.json` with its status and the reason.
