------------------------------- MODULE Outbox -------------------------------
(***************************************************************************)
(* The outbound compliance outbox: outbound-compliance.service.ts.         *)
(*                                                                         *)
(* Every external send of the CRM goes through execute(request, call).     *)
(* The request is reserved as a row of ExternalActionOutbox, the row is    *)
(* claimed under a lease, the provider is called outside of any            *)
(* transaction, and the outcome is written back behind a fence on status,  *)
(* lease token and attempt version.  Serializable transactions and single  *)
(* UPDATE statements are atomic steps; everything between two awaits of    *)
(* different callers interleaves.                                          *)
(*                                                                         *)
(* Abstractions.  A digest stands for payloadDigest together with channel, *)
(* action type, target and provider scope, so it determines whom a request *)
(* is for (Target) and which account or session it is sent from, whose     *)
(* limits (Limits) are taken to stay as they are.  A request that fails a  *)
(* validation, the operator's replay identity or the agent's permission    *)
(* changes nothing (its transaction rolls back), so it is a stutter here,  *)
(* or Abandon once the caller holds a reservation.                         *)
(***************************************************************************)
EXTENDS Naturals, FiniteSets

CONSTANTS
  Keys,         \* idempotency keys of one company
  Digests,      \* payload identities
  Workers,      \* concurrent executions of execute()
  None,         \* SQL NULL
  MaxAttempts,  \* maxAttempts of a row, clamped to 1..5 by the code
  Target,       \* where a payload goes: [channel, contact, domain]
  Limits,       \* how much the account it is sent from may send
  Hour, Day,    \* the windows of the limits
  Lease,        \* EXECUTION_LEASE_MS
  RetryDelay,   \* the 5 s between a rejection and the next attempt
  Ttl,          \* the 24 h after which an unsent row expires
  MaxNow        \* bound on the clock

LimitNames == {"hourly", "daily", "contactDaily", "domainDaily"}

ASSUME OutboxAssumption ==
  /\ MaxAttempts \in Nat \ {0}
  /\ Lease \in Nat /\ RetryDelay \in Nat /\ Ttl \in Nat /\ MaxNow \in Nat
  /\ Limits \in [Digests -> [LimitNames -> Nat \cup {None}]]
  /\ Hour \in Nat /\ Day \in Nat
  /\ None \notin Nat
  /\ None \notin Workers \X Nat
  /\ None \notin Keys \X Nat
  /\ None \notin Digests

VARIABLES
  rows,   \* ExternalActionOutbox by idempotency key
  job,    \* what each running execute() holds in memory
  calls,  \* the provider's side: what became of each attempt of each row
  now     \* the wall clock

vars == <<rows, job, calls, now>>

Attempts == 1 .. MaxAttempts

\* ExternalActionStatus, and ABSENT for a key with no row.
Statuses == {"ABSENT", "PENDING", "EXECUTING", "SUCCEEDED", "FAILED",
             "UNKNOWN", "CANCELLED", "EXPIRED"}

ActiveStates == {"PENDING", "EXECUTING", "SUCCEEDED", "UNKNOWN"}

Unresolved == {"PENDING", "EXECUTING", "UNKNOWN"}

\* The randomUUID() of a claim: no two claims share one.
Tokens == Workers \X Nat

\* A provider receipt id; the provider issues <<k, v>> for attempt v of row k.
Receipts == Keys \X Nat

Row == [status : Statuses,
        digest : Digests \cup {None},
        attemptCount : Nat,
        attemptVersion : Nat,
        nextAttemptAt : Nat \cup {None},
        createdAt : Nat,
        expiresAt : Nat,
        leaseExpiresAt : Nat \cup {None},
        leaseToken : Tokens \cup {None},
        receipt : Receipts \cup {None},
        reconciled : BOOLEAN]

NoRow == [status |-> "ABSENT", digest |-> None, attemptCount |-> 0,
          attemptVersion |-> 0, nextAttemptAt |-> None, createdAt |-> 0,
          expiresAt |-> 0, leaseExpiresAt |-> None, leaseToken |-> None,
          receipt |-> None, reconciled |-> FALSE]

\* A running execute(): the row as reserve() returned it, and when.
Job == [stage : {"reserved", "dispatching"}, key : Keys, seen : Row, since : Nat]

Idle == [stage |-> "idle"]

CallStates == {"none", "open", "accepted", "rejected"}

TypeOK ==
  /\ rows \in [Keys -> Row]
  /\ job \in [Workers -> Job \cup {Idle}]
  /\ calls \in [Keys -> [Attempts -> CallStates]]
  /\ now \in Nat

Init ==
  /\ rows = [k \in Keys |-> NoRow]
  /\ job = [w \in Workers |-> Idle]
  /\ calls = [k \in Keys |-> [v \in Attempts |-> "none"]]
  /\ now = 0

-----------------------------------------------------------------------------
(* Predicates over a row.                                                  *)

Expired(r) == r.expiresAt <= now

Lapsed(r) == r.leaseExpiresAt = None \/ r.leaseExpiresAt <= now

DueAt(r, t) == r.nextAttemptAt # None /\ r.nextAttemptAt <= t

\* Which payloads count towards a limit of payload d: those of its channel,
\* whatever account they are sent from, of its contact, or of its domain.
Alike(q, d, e) ==
  CASE q \in {"hourly", "daily"} -> Target[e].channel = Target[d].channel
    [] q = "contactDaily" -> Target[e].contact = Target[d].contact
    [] q = "domainDaily" -> Target[d].domain # None /\ Target[e].domain = Target[d].domain

Window(q) == IF q = "hourly" THEN Hour ELSE Day

\* The rows that enforceRateLimits counts for a limit and a request.
Counted(q, d) ==
  {k \in Keys : /\ rows[k].status \in ActiveStates
                /\ Alike(q, d, rows[k].digest)
                /\ rows[k].createdAt + Window(q) >= now}

\* Mutant: the limit is reached one row too late.
WithinQuotasOffByOne(k, d) ==
  \A q \in LimitNames :
    Limits[d][q] # None => Cardinality(Counted(q, d) \ {k}) <= Limits[d][q]

\* The limits are those of the request that asks.
WithinQuotas(k, d) ==
  \A q \in LimitNames :
    Limits[d][q] # None => Cardinality(Counted(q, d) \ {k}) < Limits[d][q]

-----------------------------------------------------------------------------
(* reserve(): one Serializable transaction.                                *)

Hold(w, k, r) ==
  job' = [job EXCEPT ![w] = [stage |-> "reserved", key |-> k, seen |-> r, since |-> now]]

\* Mutant: an unknown outcome no longer holds back its duplicates.
NoEquivalentPending(k, d) ==
  \A j \in Keys \ {k} : ~(rows[j].status \in {"PENDING", "EXECUTING"} /\ rows[j].digest = d)

\* No unresolved row of another key carries the same payload.
NoEquivalent(k, d) ==
  \A j \in Keys \ {k} : ~(rows[j].status \in Unresolved /\ rows[j].digest = d)

ReserveNew(w, k, d) ==
  LET r == [NoRow EXCEPT !.status = "PENDING", !.digest = d,
                         !.createdAt = now, !.expiresAt = now + Ttl]
  IN  /\ job[w] = Idle
      /\ rows[k].status = "ABSENT"
      /\ NoEquivalent(k, d)
      /\ WithinQuotas(k, d)
      /\ rows' = [rows EXCEPT ![k] = r]
      /\ Hold(w, k, r)
      /\ UNCHANGED <<calls, now>>

\* A row that execute() goes on with; the settled ones only make it return.
ReserveReplay(w, k) ==
  LET r == rows[k]
  IN  /\ job[w] = Idle
      /\ \/ r.status = "EXECUTING" /\ ~Lapsed(r)
         \/ /\ r.status \in {"PENDING", "FAILED"}
            /\ ~Expired(r)
            /\ WithinQuotas(k, r.digest)
      /\ Hold(w, k, r)
      /\ UNCHANGED <<rows, calls, now>>

\* The row of this key appeared between the request's lookup and its insert:
\* the unique index refuses the insert and the row is returned unchecked.  The
\* race lasts no longer than a transaction, that is less than a tick.
ReserveLostRace(w, k) ==
  /\ job[w] = Idle
  /\ rows[k].status \in {"PENDING", "FAILED", "EXECUTING"}
  /\ rows[k].createdAt = now
  /\ Hold(w, k, rows[k])
  /\ UNCHANGED <<rows, calls, now>>

\* Mutants: a lapsed lease requeues the row, fails it, or lets it be retried.
MarkRequeued(r) ==
  [r EXCEPT !.status = "PENDING", !.leaseExpiresAt = None, !.leaseToken = None]

MarkFailed(r) ==
  [r EXCEPT !.status = "FAILED", !.leaseExpiresAt = None, !.leaseToken = None]

MarkRetryable(r) ==
  [r EXCEPT !.status = "FAILED", !.nextAttemptAt = now,
            !.leaseExpiresAt = None, !.leaseToken = None]

MarkUnknown(r) ==
  [r EXCEPT !.status = "UNKNOWN", !.leaseExpiresAt = None, !.leaseToken = None]

\* Replaying a key whose execution lease ran out; execute() then throws.
ReserveLapsed(k) ==
  /\ rows[k].status = "EXECUTING"
  /\ Lapsed(rows[k])
  /\ rows' = [rows EXCEPT ![k] = MarkUnknown(@)]
  /\ UNCHANGED <<job, calls, now>>

\* Replaying a key that was never sent in time; execute() then throws.
ReserveExpired(k) ==
  /\ rows[k].status \in {"PENDING", "FAILED"}
  /\ Expired(rows[k])
  /\ rows' = [rows EXCEPT ![k].status = "EXPIRED"]
  /\ UNCHANGED <<job, calls, now>>

-----------------------------------------------------------------------------
(* execute(): the checks on the reserved row, the claim transaction, the   *)
(* provider call and the fenced write of its outcome.                      *)

\* The early returns of execute() on the row it reserved, at clock value t.
MayClaim(w, t) ==
  /\ job[w].stage = "reserved"
  /\ t \in job[w].since .. now
  /\ job[w].seen.attemptCount < MaxAttempts
  /\ job[w].seen.status = "FAILED" => DueAt(job[w].seen, t)

\* The WHERE clause of the claim, with the clock value t read before it.
Claimable(w, t) ==
  LET r == rows[job[w].key]
  IN  /\ r.status = "PENDING" \/ (r.status = "FAILED" /\ DueAt(r, t))
      /\ r.attemptCount < MaxAttempts
      /\ r.attemptVersion = job[w].seen.attemptVersion
      /\ r.expiresAt > t

Version(w) == job[w].seen.attemptVersion + 1

Claimed(r, w, t) ==
  [r EXCEPT !.status = "EXECUTING",
            !.attemptCount = r.attemptCount + 1,
            !.leaseExpiresAt = t + Lease,
            !.leaseToken = <<w, Version(w)>>,
            !.attemptVersion = Version(w)]

Claim(w) ==
  /\ job[w] # Idle
  /\ LET k == job[w].key IN
     \E t \in 0 .. now :
       /\ MayClaim(w, t)
       /\ WithinQuotas(k, rows[k].digest)
       /\ Claimable(w, t)
       /\ rows' = [rows EXCEPT ![k] = Claimed(rows[k], w, t)]
       /\ job' = [job EXCEPT ![w].stage = "dispatching"]
       /\ calls' = [calls EXCEPT ![k][Version(w)] = "open"]
       /\ UNCHANGED now

\* The claim matched no row because the row had expired.
LoseClaim(w) ==
  /\ job[w] # Idle
  /\ LET k == job[w].key IN
       /\ MayClaim(w, now)
       /\ WithinQuotas(k, rows[k].digest)
       /\ rows[k].status \in {"PENDING", "FAILED"}
       /\ Expired(rows[k])
       /\ rows' = [rows EXCEPT ![k].status = "EXPIRED"]
       /\ job' = [job EXCEPT ![w] = Idle]
       /\ UNCHANGED <<calls, now>>

\* The reserved row had used up its attempts.
Exhaust(w) ==
  /\ job[w] # Idle
  /\ job[w].stage = "reserved"
  /\ job[w].seen.attemptCount >= MaxAttempts
  /\ LET k == job[w].key
         hit == rows[k].status = "FAILED" /\ rows[k].attemptCount >= MaxAttempts
     IN  rows' = IF hit THEN [rows EXCEPT ![k].nextAttemptAt = None] ELSE rows
  /\ job' = [job EXCEPT ![w] = Idle]
  /\ UNCHANGED <<calls, now>>

\* The WHERE clause that fences the write of an attempt's outcome.
Owns(w) ==
  LET r == rows[job[w].key]
  IN  /\ r.status = "EXECUTING"
      /\ r.leaseToken = <<w, Version(w)>>
      /\ r.attemptVersion = Version(w)

\* The unique index on (channel, providerScope, provider, providerReceiptId).
ReceiptTaken(k, receipt) == \E j \in Keys \ {k} : rows[j].receipt = receipt

Release(r) == [r EXCEPT !.leaseExpiresAt = None, !.leaseToken = None]

\* The provider's receipt arrives.  A receipt bound to another row makes the
\* write fail, and the catch block then records an ambiguous outcome.
Complete(w) ==
  /\ job[w] # Idle
  /\ job[w].stage = "dispatching"
  /\ LET k == job[w].key
         receipt == <<k, Version(w)>>
     IN  /\ calls[k][Version(w)] = "accepted"
         /\ rows' =
              IF ~Owns(w) THEN rows
              ELSE IF ReceiptTaken(k, receipt)
              THEN [rows EXCEPT ![k] = [Release(@) EXCEPT !.status = "UNKNOWN",
                                                          !.nextAttemptAt = None]]
              ELSE [rows EXCEPT ![k] = [Release(@) EXCEPT !.status = "SUCCEEDED",
                                                          !.receipt = receipt]]
  /\ job' = [job EXCEPT ![w] = Idle]
  /\ UNCHANGED <<calls, now>>

\* The adapter reports an explicit rejection: the only retryable failure.
Reject(w) ==
  /\ job[w] # Idle
  /\ job[w].stage = "dispatching"
  /\ LET k == job[w].key
         next == IF Version(w) >= MaxAttempts THEN None ELSE now + RetryDelay
     IN  /\ calls[k][Version(w)] = "rejected"
         /\ rows' =
              IF ~Owns(w) THEN rows
              ELSE [rows EXCEPT ![k] = [Release(@) EXCEPT !.status = "FAILED",
                                                          !.nextAttemptAt = next]]
  /\ job' = [job EXCEPT ![w] = Idle]
  /\ UNCHANGED <<calls, now>>

\* The 45 s race, a lost answer, a missing receipt or any other error.
Ambiguous(w) ==
  /\ job[w] # Idle
  /\ job[w].stage = "dispatching"
  /\ rows' =
       IF ~Owns(w) THEN rows
       ELSE [rows EXCEPT ![job[w].key] = [Release(@) EXCEPT !.status = "UNKNOWN",
                                                            !.nextAttemptAt = None]]
  /\ job' = [job EXCEPT ![w] = Idle]
  /\ UNCHANGED <<calls, now>>

\* The process dies, or a check between reservation and dispatch throws.
Abandon(w) ==
  /\ job[w] # Idle
  /\ job' = [job EXCEPT ![w] = Idle]
  /\ UNCHANGED <<rows, calls, now>>

-----------------------------------------------------------------------------
(* Administrators' operations.                                             *)

Cancel(k) ==
  /\ rows[k].status \in {"PENDING", "FAILED"}
  /\ rows' = [rows EXCEPT ![k].status = "CANCELLED"]
  /\ UNCHANGED <<job, calls, now>>

Stale(r) == r.status = "EXECUTING" /\ r.leaseExpiresAt # None /\ r.leaseExpiresAt < now

RecoverStaleExecuting ==
  /\ \E k \in Keys : Stale(rows[k])
  /\ rows' = [k \in Keys |-> IF Stale(rows[k]) THEN MarkUnknown(rows[k]) ELSE rows[k]]
  /\ UNCHANGED <<job, calls, now>>

ReconcileSucceeded(k, receipt) ==
  /\ rows[k].status = "UNKNOWN"
  /\ ~ReceiptTaken(k, receipt)
  /\ rows' = [rows EXCEPT ![k] = [@ EXCEPT !.status = "SUCCEEDED", !.receipt = receipt,
                                           !.reconciled = TRUE]]
  /\ UNCHANGED <<job, calls, now>>

\* Mutant: a reconciled failure becomes retryable again.
ReconcileRetryable(k) ==
  /\ rows[k].status = "UNKNOWN"
  /\ rows' = [rows EXCEPT ![k] = [@ EXCEPT !.status = "FAILED", !.nextAttemptAt = now,
                                           !.reconciled = TRUE]]
  /\ UNCHANGED <<job, calls, now>>

ReconcileFailed(k) ==
  /\ rows[k].status = "UNKNOWN"
  /\ rows' = [rows EXCEPT ![k] = [@ EXCEPT !.status = "FAILED", !.nextAttemptAt = None,
                                           !.reconciled = TRUE]]
  /\ UNCHANGED <<job, calls, now>>

ReconcileCancelled(k) ==
  /\ rows[k].status = "UNKNOWN"
  /\ rows' = [rows EXCEPT ![k] = [@ EXCEPT !.status = "CANCELLED", !.reconciled = TRUE]]
  /\ UNCHANGED <<job, calls, now>>

-----------------------------------------------------------------------------
(* The provider and the clock.  A dispatched call may be decided late,     *)
(* after the caller gave up on it, or never.                               *)

ProviderDecides(k, v) ==
  /\ calls[k][v] = "open"
  /\ \E verdict \in {"accepted", "rejected"} : calls' = [calls EXCEPT ![k][v] = verdict]
  /\ UNCHANGED <<rows, job, now>>

Tick ==
  /\ now < MaxNow
  /\ now' = now + 1
  /\ UNCHANGED <<rows, job, calls>>

WorkerStep(w) ==
  \/ \E k \in Keys, d \in Digests : ReserveNew(w, k, d)
  \/ \E k \in Keys : ReserveReplay(w, k) \/ ReserveLostRace(w, k)
  \/ Claim(w) \/ LoseClaim(w) \/ Exhaust(w)
  \/ Complete(w) \/ Reject(w) \/ Ambiguous(w) \/ Abandon(w)

KeyStep(k) ==
  \/ ReserveLapsed(k) \/ ReserveExpired(k) \/ Cancel(k)
  \/ \E j \in Keys, v \in Attempts : ReconcileSucceeded(k, <<j, v>>)
  \/ ReconcileFailed(k) \/ ReconcileCancelled(k)
  \/ \E v \in Attempts : ProviderDecides(k, v)

Next ==
  \/ \E w \in Workers : WorkerStep(w)
  \/ \E k \in Keys : KeyStep(k)
  \/ RecoverStaleExecuting
  \/ Tick

Spec == Init /\ [][Next]_vars
-----------------------------------------------------------------------------
(* What the outbox promises.                                               *)

\* The attempts of row k that the provider accepted: messages really sent.
Accepted(k) == {v \in Attempts : calls[k][v] = "accepted"}

Closed == {"SUCCEEDED", "CANCELLED", "EXPIRED"}

\* One external action is never accepted by the provider twice, whatever
\* crashes, timeouts, late answers, retries and reconciliations happened
\* (execute: a retry follows only an explicit rejection).
AtMostOneAcceptance ==
  \A k \in Keys : \A u, v \in Accepted(k) : u = v

\* Until an administrator overrules an unknown outcome, the recorded status
\* tells the truth about the provider: SUCCEEDED carries the receipt of the
\* accepted attempt, and FAILED, CANCELLED and EXPIRED mean that nothing was
\* sent and that nothing can still be on its way.
StatusIsTruthful ==
  \A k \in Keys :
    LET r == rows[k] IN
    ~r.reconciled =>
      /\ r.status = "SUCCEEDED" => /\ r.receipt = <<k, r.attemptVersion>>
                                   /\ Accepted(k) = {r.attemptVersion}
      /\ r.status \in {"PENDING", "FAILED", "CANCELLED", "EXPIRED"} =>
           \A v \in Attempts : calls[k][v] \in {"none", "rejected"}

\* A new provider call for a row starts only when every earlier call of that
\* row is known to have been rejected (the claim after a retryable FAILED).
RetryOnlyAfterRejection ==
  [][\A k \in Keys, v \in Attempts :
       calls[k][v] = "none" /\ calls'[k][v] # "none" =>
         \A u \in Attempts \ {v} : calls[k][u] = (IF u < v THEN "rejected" ELSE "none")]_vars

\* SUCCEEDED, CANCELLED and EXPIRED rows never change again: a late receipt,
\* a stale worker or a recovery sweep does not touch them.
ClosedIsFinal ==
  [][\A k \in Keys : rows[k].status \in Closed => rows'[k] = rows[k]]_vars

\* Two unresolved rows with the same payload can coexist only when one of
\* them is being attempted again after a rejection (reserve() compares new
\* reservations with unresolved rows).
OverlapOnlyOnRetry ==
  \A j, k \in Keys :
    /\ j # k
    /\ rows[j].digest = rows[k].digest
    /\ rows[j].status \in Unresolved
    /\ rows[k].status \in Unresolved
    => \/ rows[j].attemptCount > 1
       \/ rows[k].attemptCount > 1

\* A limit is that of the account of the request, over rows of all accounts, and
\* is looked at on reservation, replay and every claim (enforceRateLimits).  What
\* this gives: of the rows that count together, those whose own limit is no
\* larger than some row's number at most that row's limit.  So no account exceeds
\* its limit by its own rows, no contact or domain exceeds theirs, and a channel
\* stays within the largest limit of its accounts, though other accounts may
\* carry it over a smaller one.
QuotasHold ==
  \A q \in LimitNames, d \in Digests : \A k \in Counted(q, d) :
    LET most == Limits[rows[k].digest][q]
        asStrict == {j \in Counted(q, d) : LET own == Limits[rows[j].digest][q]
                                          IN  own # None /\ own <= most}
    IN  most # None => Cardinality(asStrict) <= most

-----------------------------------------------------------------------------
(* Why it holds: an inductive invariant relating a row to its calls.       *)

\* Calls were made in the order of their versions, one per version, and each
\* but the last was rejected.
Sequenced(r, c) ==
  /\ r.attemptCount = r.attemptVersion
  /\ r.attemptVersion <= MaxAttempts
  /\ \A u \in Attempts : /\ u < r.attemptVersion => c[u] = "rejected"
                         /\ u = r.attemptVersion => c[u] # "none"
                         /\ u > r.attemptVersion => c[u] = "none"

NothingSent(c) == \A u \in Attempts : c[u] \in {"none", "rejected"}

\* What the status of a row says of the last call.
StatusMatches(k, r, c) ==
  /\ r.status \in {"ABSENT", "PENDING"} => r.attemptVersion = 0
  /\ r.status \in {"EXECUTING", "UNKNOWN", "FAILED"} => r.attemptVersion > 0
  /\ r.status \in {"FAILED", "CANCELLED", "EXPIRED"} /\ ~r.reconciled => NothingSent(c)
  /\ r.status = "SUCCEEDED" /\ ~r.reconciled =>
       /\ r.attemptVersion > 0
       /\ c[r.attemptVersion] = "accepted"
       /\ r.receipt = <<k, r.attemptVersion>>
  /\ r.reconciled => /\ r.status \in {"SUCCEEDED", "FAILED", "CANCELLED", "EXPIRED"}
                     /\ r.nextAttemptAt = None \/ r.status # "FAILED"

RowInv(k) == Sequenced(rows[k], calls[k]) /\ StatusMatches(k, rows[k], calls[k])

\* Every row agrees with what happened at the provider.  attemptCount is
\* incremented and attemptVersion assigned, by the claim of a worker that may
\* hold a stale row; the two never drift apart, so comparing either one with
\* maxAttempts bounds the provider calls of a row.
IInv == \A k \in Keys : RowInv(k)

-----------------------------------------------------------------------------
(* The outbox implements ActionContract.  A retryable row is still open.   *)

OutcomeOf(r) ==
  CASE r.status = "ABSENT" -> "none"
    [] r.status = "UNKNOWN" -> "unsure"
    [] r.status \notin {"ABSENT", "UNKNOWN"} /\ r.reconciled -> "settled"
    [] r.status = "SUCCEEDED" /\ ~r.reconciled -> "sent"
    [] r.status \in {"CANCELLED", "EXPIRED"} /\ ~r.reconciled -> "unsent"
    [] r.status = "FAILED" /\ r.nextAttemptAt = None /\ ~r.reconciled -> "unsent"
    [] r.status = "FAILED" /\ r.nextAttemptAt # None /\ ~r.reconciled -> "open"
    [] r.status \in {"PENDING", "EXECUTING"} /\ ~r.reconciled -> "open"

Contract == INSTANCE ActionContract
              WITH outcome <- [k \in Keys |-> OutcomeOf(rows[k])],
                   delivered <- [k \in Keys |-> Accepted(k)]

\* Every behaviour of the outbox is one the contract allows, for the sends
\* that the email worker, the mail workbench and the WhatsApp channels make
\* through execute().
ImplementsContract == Contract!Spec
=============================================================================
