----------------------------- MODULE ToolBroker -----------------------------
(***************************************************************************)
(* What the OpenClaw tool broker does for either of its channels:          *)
(* openclaw-tool-broker.service.ts and openclaw-selection.service.ts.      *)
(*                                                                         *)
(* A language model calls back with a tool and an input.  The broker finds *)
(* out who may act, lets an action tool spend the one-use selection that a *)
(* customer search issued, reserves a receipt under the request key, runs  *)
(* the tool outside of any transaction, and closes the receipt and its     *)
(* wrapper run with a compare-and-swap.  CrmAssistant and OwnerChat        *)
(* compose these actions with the channel that admits the callbacks.       *)
(*                                                                         *)
(* Abstractions.  A request key stands for tool and input (or for the      *)
(* toolCallId, where the channel uses it).  All searches find the same     *)
(* customer and issue one action tool's token.  reserve() and the terminal *)
(* transactions run under advisory locks and are one step each.            *)
(***************************************************************************)
EXTENDS Naturals, FiniteSets

CONSTANTS
  Calls,         \* callbacks in flight
  Searches,      \* request keys of customer-search calls
  Actions,       \* request keys of action tool calls
  Admissions,    \* what admits a callback: a lease token or a sender
  None,          \* SQL NULL
  Limit,         \* SESSION_RECEIPT_LIMIT
  Stale,         \* PROCESSING_RECEIPT_STALE_MS
  SelectionTtl,  \* SELECTION_TTL_MS
  MaxNow         \* bound on the clock

ASSUME ToolBrokerAssumption ==
  /\ Searches \cap Actions = {}
  /\ None \notin Searches /\ None \notin Actions /\ None \notin Admissions
  /\ Limit \in Nat /\ Stale \in Nat /\ SelectionTtl \in Nat /\ MaxNow \in Nat

VARIABLES
  receipts,    \* OpenClawToolReceipt by request key, with its AgentRun
  selections,  \* OpenClawSelectionToken by the search that issued it
  calls,       \* what each running execute() holds in memory
  invoked,     \* how often the tool of each request key was run
  now          \* the wall clock

brokerVars == <<receipts, selections, calls, invoked, now>>

Keys == Searches \cup Actions

\* OpenClawReceiptStatus, and ABSENT for a key without a receipt.
Statuses == {"ABSENT", "PROCESSING", "COMPLETED", "FAILED"}

\* run: the AgentRun and its only task; by: what admitted the call that
\* created the receipt; spent: the selection that this call consumed.
Receipt == [status : Statuses, run : {"ABSENT", "RUNNING", "COMPLETED", "FAILED"},
            by : Admissions \cup {None}, spent : Searches \cup {None}, at : Nat]

NoReceipt == [status |-> "ABSENT", run |-> "ABSENT", by |-> None, spent |-> None, at |-> 0]

Selection == [state : {"ABSENT", "ISSUED", "CONSUMED"}, expiresAt : Nat]

NoSelection == [state |-> "ABSENT", expiresAt |-> 0]

Stages == {"resolved", "selected", "reserved", "succeeded", "threw"}

Call == [stage : Stages, key : Keys, by : Admissions, spent : Searches \cup {None}]

Idle == [stage |-> "idle"]

BrokerTypeOK ==
  /\ receipts \in [Keys -> Receipt]
  /\ selections \in [Searches -> Selection]
  /\ calls \in [Calls -> Call \cup {Idle}]
  /\ invoked \in [Keys -> Nat]
  /\ now \in Nat

BrokerInit ==
  /\ receipts = [k \in Keys |-> NoReceipt]
  /\ selections = [s \in Searches |-> NoSelection]
  /\ calls = [c \in Calls |-> Idle]
  /\ invoked = [k \in Keys |-> 0]
  /\ now = 0

-----------------------------------------------------------------------------
(* execute(), up to the reservation.                                       *)

At(c, stage) == calls[c].stage = stage

Goto(c, stage) == calls' = [calls EXCEPT ![c].stage = stage]

Return(c) == calls' = [calls EXCEPT ![c] = Idle]

\* resolveTrustedActor() admitted the callback by b.
Resolve(c, k, b) ==
  /\ At(c, "idle")
  /\ calls' = [calls EXCEPT ![c] = [stage |-> "resolved", key |-> k, by |-> b, spent |-> None]]
  /\ UNCHANGED <<receipts, selections, invoked, now>>

\* Mutant: the update that spends a selection does not require consumedAt to be null.
ConsumeAgain(c, s) ==
  /\ At(c, "resolved")
  /\ calls[c].key \in Actions
  /\ selections[s].state # "ABSENT"
  /\ selections[s].expiresAt > now
  /\ receipts[s].status = "COMPLETED"
  /\ selections' = [selections EXCEPT ![s].state = "CONSUMED"]
  /\ calls' = [calls EXCEPT ![c].stage = "selected", ![c].spent = s]
  /\ UNCHANGED <<receipts, invoked, now>>

\* consume(): an action tool spends the selection of s, or finds it spent and
\* goes on as a replay, which holds no selection.
Consume(c, s) ==
  /\ At(c, "resolved")
  /\ calls[c].key \in Actions
  /\ selections[s].state # "ABSENT"
  /\ selections[s].expiresAt > now
  /\ \/ /\ selections[s].state = "CONSUMED"
        /\ Goto(c, "selected")
        /\ UNCHANGED selections
     \/ /\ selections[s].state = "ISSUED"
        /\ receipts[s].status = "COMPLETED"
        /\ selections' = [selections EXCEPT ![s].state = "CONSUMED"]
        /\ calls' = [calls EXCEPT ![c].stage = "selected", ![c].spent = s]
  /\ UNCHANGED <<receipts, invoked, now>>

Reserving(c) ==
  \/ At(c, "selected")
  \/ At(c, "resolved") /\ calls[c].key \in Searches

Replays(c) == calls[c].key \in Actions /\ calls[c].spent = None

-----------------------------------------------------------------------------
(* reserve().                                                              *)

\* Mutant: the wrapper run is left running.
CloseReceiptOnly(r, st) == [r EXCEPT !.status = st]

\* A terminal status of the receipt, its run and its task.
Close(r, st) ==
  [r EXCEPT !.status = st, !.run = IF r.run = "RUNNING" THEN st ELSE r.run]

Exists(k) == receipts[k].status # "ABSENT"

IsStale(k) == receipts[k].status = "PROCESSING" /\ receipts[k].at + Stale <= now

Processing == {k \in Keys : receipts[k].status = "PROCESSING"}

\* The request key has a receipt: it is the answer.
FindReceipt(c) ==
  /\ Reserving(c)
  /\ Exists(calls[c].key) /\ ~IsStale(calls[c].key)
  /\ Return(c)
  /\ UNCHANGED <<receipts, selections, invoked, now>>

\* Mutant: the stale receipt is taken over and its tool run once more.
FailStaleReinvokes(c) ==
  /\ Reserving(c)
  /\ IsStale(calls[c].key)
  /\ receipts' = [receipts EXCEPT ![calls[c].key].at = now]
  /\ Goto(c, "reserved")
  /\ UNCHANGED <<selections, invoked, now>>

\* The receipt of a call that was never heard of again is failed, not rerun.
FailStale(c) ==
  /\ Reserving(c)
  /\ IsStale(calls[c].key)
  /\ receipts' = [receipts EXCEPT ![calls[c].key] = Close(@, "FAILED")]
  /\ Return(c)
  /\ UNCHANGED <<selections, invoked, now>>

\* An equivalent receipt answers, or the request is a replay or one too many.
\* similar and counted are the channel's sets of receipts.
Refuse(c, similar, counted) ==
  /\ Reserving(c)
  /\ ~Exists(calls[c].key)
  /\ \/ similar # {}
     \/ Replays(c)
     \/ Cardinality(counted) >= Limit
  /\ Return(c)
  /\ UNCHANGED <<receipts, selections, invoked, now>>

Start(c, similar, counted) ==
  /\ Reserving(c)
  /\ ~Exists(calls[c].key)
  /\ similar = {}
  /\ ~Replays(c)
  /\ Cardinality(counted) < Limit
  /\ receipts' = [receipts EXCEPT ![calls[c].key] =
                    [status |-> "PROCESSING", run |-> "RUNNING", by |-> calls[c].by,
                     spent |-> calls[c].spent, at |-> now]]
  /\ Goto(c, "reserved")
  /\ UNCHANGED <<selections, invoked, now>>

-----------------------------------------------------------------------------
(* The tool, and the terminal transaction.                                 *)

\* issueForUniqueSearch(): a search that found exactly one customer.
Issue(k) ==
  /\ k \in Searches
  /\ selections' = [selections EXCEPT ![k] =
                      [state |-> "ISSUED", expiresAt |-> now + SelectionTtl]]

\* invokeAllowlistedTool(): whatever it answers, it may have had its effect.
Invoke(c) ==
  LET k == calls[c].key IN
  /\ At(c, "reserved")
  /\ invoked' = [invoked EXCEPT ![k] = @ + 1]
  /\ \/ Goto(c, "succeeded")
     \/ Goto(c, "threw")
  /\ Issue(k) \/ UNCHANGED selections
  /\ UNCHANGED <<receipts, now>>

\* The status that the outcome of the tool asks for.
Outcome(c) == IF At(c, "succeeded") THEN "COMPLETED" ELSE "FAILED"

Finished(c) == At(c, "succeeded") \/ At(c, "threw")

\* PROCESSING -> COMPLETED or FAILED; a receipt that is already terminal wins.
Record(c) ==
  LET k == calls[c].key IN
  /\ Finished(c)
  /\ receipts' = [receipts EXCEPT ![k] = IF @.status = "PROCESSING" THEN Close(@, Outcome(c)) ELSE @]
  /\ Return(c)
  /\ UNCHANGED <<selections, invoked, now>>

\* The callback is denied, its client gives up, or its process dies.
Drop(c) ==
  /\ ~At(c, "idle")
  /\ Return(c)
  /\ UNCHANGED <<receipts, selections, invoked, now>>

\* The hourly maintenance deletes selections long past their expiry.
PurgeSelection(s) ==
  /\ selections[s].state # "ABSENT"
  /\ selections[s].expiresAt < now
  /\ selections' = [selections EXCEPT ![s] = NoSelection]
  /\ UNCHANGED <<receipts, calls, invoked, now>>

Tick ==
  /\ now < MaxNow
  /\ now' = now + 1
  /\ UNCHANGED <<receipts, selections, calls, invoked>>

-----------------------------------------------------------------------------
(* Properties of either channel.                                           *)

\* The tool of a request key runs at most once, however often the model
\* retries the call, whichever callback crashes and whatever the recovery of
\* stale receipts does meanwhile: the comments of reserve() and execute().
AtMostOneInvocation == \A k \in Keys : invoked[k] <= 1

\* A selection authorises one action: no two receipts of actions were created
\* by calls that consumed the same selection, and none without one.
SelectionIsSpentOnce ==
  \A j, k \in Actions :
    Exists(j) /\ Exists(k) => /\ receipts[j].spent # None
                              /\ j # k => receipts[j].spent # receipts[k].spent

\* The receipt, its run and its task tell the same story, and nothing was run
\* without one.
ReceiptsAndRunsAgree ==
  \A k \in Keys :
    /\ receipts[k].run = (IF receipts[k].status = "PROCESSING" THEN "RUNNING"
                          ELSE receipts[k].status)
    /\ invoked[k] > 0 => Exists(k)

\* "The existing terminal receipt wins": a completed or failed receipt and its
\* run never change again, whoever comes late.
TerminalIsFinal ==
  [][\A k \in Keys : receipts[k].status \in {"COMPLETED", "FAILED"}
                       => receipts'[k] = receipts[k]]_receipts

=============================================================================
