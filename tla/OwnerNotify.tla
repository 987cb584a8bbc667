---------------------------- MODULE OwnerNotify ----------------------------
(***************************************************************************)
(* The delivery of one owner notification: owner-notification.service.ts   *)
(* and owner-notification.dispatcher.ts.                                   *)
(*                                                                         *)
(* A timer starts dispatchDue() every 15 s without waiting for the cycle   *)
(* before it, so cycles of one server and of several servers overlap.  A   *)
(* cycle takes the time once, at its start, and uses that time for all it  *)
(* does: stale claims, expiry, the scan, the claim and the retry time.     *)
(* The claim is fenced by status, attempts and due time; its outcome only  *)
(* by the status SENDING.                                                  *)
(*                                                                         *)
(* Abstractions.  One notification.  Earlier candidates of a cycle show as *)
(* time between its steps.  The backoff is linear instead of exponential.  *)
(***************************************************************************)
EXTENDS Naturals, FiniteSets

CONSTANTS
  Cycles,       \* running dispatchDue() cycles
  None,         \* SQL NULL
  MaxAttempts,  \* maxAttempts of the notification
  Lease,        \* OWNER_NOTIFICATION_CLAIM_LEASE_MS
  RetryBase,    \* OWNER_NOTIFICATION_RETRY_BASE_MS
  Ttl,          \* time from the enqueueing to expiresAt
  MaxNow        \* bound on the clock

ASSUME OwnerNotifyAssumption ==
  /\ MaxAttempts \in Nat \ {0}
  /\ Lease \in Nat /\ RetryBase \in Nat \ {0} /\ Ttl \in Nat \ {0} /\ MaxNow \in Nat
  /\ None \notin Nat

VARIABLES
  note,       \* the row of OwnerNotificationOutbox
  job,        \* what each cycle holds in memory
  delivered,  \* the attempts that reached the owner
  now         \* the wall clock

vars == <<note, job, delivered, now>>

\* OwnerNotificationStatus, and ABSENT before enqueueInbound().
Statuses == {"ABSENT", "PENDING", "SENDING", "SENT", "FAILED"}

Note == [status : Statuses, attempts : Nat, nextAttemptAt : Nat \cup {None},
         expiresAt : Nat, claimedAt : Nat \cup {None}, receipt : Nat \cup {None}]

NoNote == [status |-> "ABSENT", attempts |-> 0, nextAttemptAt |-> None,
           expiresAt |-> 0, claimedAt |-> None, receipt |-> None]

Stages == {"idle", "recovering", "expiring", "scanning", "claiming", "sending", "sent", "refused"}

\* at is the time of the cycle, seen the candidate as the scan read it.
Job == [stage : Stages, at : Nat, seen : Note]

Idle == [stage |-> "idle", at |-> 0, seen |-> NoNote]

TypeOK ==
  /\ note \in Note
  /\ job \in [Cycles -> Job]
  /\ delivered \subseteq Nat
  /\ now \in Nat

Init ==
  /\ note = NoNote
  /\ job = [c \in Cycles |-> Idle]
  /\ delivered = {}
  /\ now = 0

Goto(c, stage) == job' = [job EXCEPT ![c].stage = stage]

Finish(c) == job' = [job EXCEPT ![c] = Idle]

Due(r, t) == r.nextAttemptAt # None /\ r.nextAttemptAt <= t /\ r.expiresAt > t

\* A notification that dispatchDue() never touches again.
Settled(r) ==
  \/ r.status = "SENT"
  \/ r.status = "FAILED" /\ r.nextAttemptAt = None

-----------------------------------------------------------------------------
\* enqueueInbound(); a replayed event finds the row of its eventKey.  MaxNow
\* bounds the time of the event so that its notification can expire.
Enqueue ==
  /\ note.status = "ABSENT"
  /\ now + Ttl <= MaxNow
  /\ note' = [NoNote EXCEPT !.status = "PENDING", !.nextAttemptAt = now, !.expiresAt = now + Ttl]
  /\ UNCHANGED <<job, delivered, now>>

\* The where clause of recoverStaleClaims().
Stale(r, t) ==
  r.status = "SENDING" /\ r.claimedAt + Lease < t /\ r.expiresAt > t

\* dispatchDue() takes its time.
Begin(c) ==
  /\ job[c] = Idle
  /\ job' = [job EXCEPT ![c] = [Idle EXCEPT !.stage = "recovering", !.at = now]]
  /\ UNCHANGED <<note, delivered, now>>

RecoverStaleClaims(c) ==
  /\ job[c].stage = "recovering"
  /\ note' = IF Stale(note, job[c].at)
               THEN [note EXCEPT !.status = "FAILED", !.nextAttemptAt = job[c].at] ELSE note
  /\ Goto(c, "expiring")
  /\ UNCHANGED <<delivered, now>>

\* Mutant: failed notifications do not expire.
ExpiredPending(r, t) == r.status = "PENDING" /\ r.expiresAt <= t

Expired(r, t) == r.status \in {"PENDING", "FAILED"} /\ r.expiresAt <= t

GivenUp(r) == [r EXCEPT !.status = "FAILED", !.nextAttemptAt = None]

FailExpired(c) ==
  /\ job[c].stage = "expiring"
  /\ note' = IF Expired(note, job[c].at) THEN GivenUp(note) ELSE note
  /\ Goto(c, "scanning")
  /\ UNCHANGED <<delivered, now>>

Scan(c) ==
  /\ job[c].stage = "scanning"
  /\ IF note.status \in {"PENDING", "FAILED"} /\ Due(note, job[c].at)
       THEN job' = [job EXCEPT ![c].stage = "claiming", ![c].seen = note]
       ELSE Finish(c)
  /\ UNCHANGED <<note, delivered, now>>

\* A candidate without attempts left is given up behind its status alone.
Exhaust(c) ==
  /\ job[c].stage = "claiming"
  /\ job[c].seen.attempts >= MaxAttempts
  /\ note' = IF note.status = job[c].seen.status THEN GivenUp(note) ELSE note
  /\ Finish(c)
  /\ UNCHANGED <<delivered, now>>

\* Mutant: the claim does not compare the attempts, nor whether it is still due.
ClaimedByStatus(c) == note.status = job[c].seen.status

\* The where clause of the claim.
Claimed(c) ==
  /\ note.status = job[c].seen.status
  /\ note.attempts = job[c].seen.attempts
  /\ Due(note, job[c].at)

Claim(c) ==
  /\ job[c].stage = "claiming"
  /\ job[c].seen.attempts < MaxAttempts
  /\ IF Claimed(c)
       THEN /\ note' = [note EXCEPT !.status = "SENDING", !.attempts = @ + 1,
                                    !.claimedAt = job[c].at]
            /\ Goto(c, "sending")
       ELSE Finish(c) /\ UNCHANGED note
  /\ UNCHANGED <<delivered, now>>

Attempt(c) == job[c].seen.attempts + 1

\* sender.send(): the owner gets the message or not, and the receipt may be lost.
Send(c) ==
  /\ job[c].stage = "sending"
  /\ \/ delivered' = delivered \cup {Attempt(c)} /\ Goto(c, "sent")
     \/ delivered' = delivered \cup {Attempt(c)} /\ Goto(c, "refused")
     \/ delivered' = delivered /\ Goto(c, "refused")
  /\ UNCHANGED <<note, now>>

\* Mutant: the receipt does not look at the status.
CompleteAnyhow(c) ==
  /\ job[c].stage = "sent"
  /\ note' = [note EXCEPT !.status = "SENT", !.receipt = Attempt(c), !.nextAttemptAt = None]
  /\ Finish(c)
  /\ UNCHANGED <<delivered, now>>

\* The receipt is written whichever attempt is SENDING by then.
Complete(c) ==
  /\ job[c].stage = "sent"
  /\ note' = IF note.status = "SENDING"
               THEN [note EXCEPT !.status = "SENT", !.receipt = Attempt(c), !.nextAttemptAt = None]
               ELSE note
  /\ Finish(c)
  /\ UNCHANGED <<delivered, now>>

\* Mutant: one attempt too few.
RetryOneLess(c) ==
  IF job[c].seen.expiresAt <= job[c].at \/ Attempt(c) + 1 >= MaxAttempts
    THEN None ELSE job[c].at + RetryBase * Attempt(c)

RetryAt(c) ==
  IF job[c].seen.expiresAt <= job[c].at \/ Attempt(c) >= MaxAttempts
    THEN None ELSE job[c].at + RetryBase * Attempt(c)

Fail(c) ==
  /\ job[c].stage = "refused"
  /\ note' = IF note.status = "SENDING"
               THEN [note EXCEPT !.status = "FAILED", !.nextAttemptAt = RetryAt(c)]
               ELSE note
  /\ Finish(c)
  /\ UNCHANGED <<delivered, now>>

\* The server of a cycle dies.
Crash(c) ==
  /\ job[c] # Idle
  /\ Finish(c)
  /\ UNCHANGED <<note, delivered, now>>

Tick ==
  /\ now < MaxNow
  /\ now' = now + 1
  /\ UNCHANGED <<note, job, delivered>>

-----------------------------------------------------------------------------
Cycle(c) ==
  \/ Begin(c) \/ RecoverStaleClaims(c) \/ FailExpired(c) \/ Scan(c)
  \/ Exhaust(c) \/ Claim(c) \/ Send(c) \/ Complete(c) \/ Fail(c)

Next == Enqueue \/ Tick \/ \E c \in Cycles : Cycle(c) \/ Crash(c)

Spec == Init /\ [][Next]_vars

\* Time passes, the timer fires for ever, a send ends (the sender has a
\* timeout), and crashes do not strike every cycle in its first two statements.
FairSpec ==
  /\ Spec
  /\ WF_vars(Tick)
  /\ \A c \in Cycles :
       WF_vars(Cycle(c)) /\ SF_vars(RecoverStaleClaims(c)) /\ SF_vars(FailExpired(c))

-----------------------------------------------------------------------------
(* Properties.                                                             *)

InFlight == {c \in Cycles : job[c].stage \in {"sending", "sent", "refused"}}

\* dispatchDue(): overlapping cycles, whatever the order of their scans and
\* claims, never share an attempt, and none claims one beyond maxAttempts.
AttemptsAreExclusive ==
  /\ note.attempts <= MaxAttempts
  /\ \A c \in InFlight : Attempt(c) <= note.attempts
  /\ \A c, d \in InFlight : Attempt(c) = Attempt(d) => c = d

\* A notification is SENT with the receipt of an attempt that reached the owner,
\* and given up only after its last attempt or its expiry, whichever cycle wrote
\* the outcome of whichever attempt.
SettledForCause ==
  /\ note.status = "SENT" => note.receipt \in delivered
  /\ note.status = "FAILED" /\ note.nextAttemptAt = None =>
       note.attempts = MaxAttempts \/ note.expiresAt <= now

\* A sent or given up notification is never taken up again by a cycle that
\* scanned it, or sent it, before.
SettledStays == [][Settled(note) => note' = note]_vars

\* A notification that is neither sent nor given up is settled some day, unless
\* it was SENDING when it expired: neither recoverStaleClaims() nor failExpired()
\* looks at such a row.
EventuallySettled ==
  note.status \in {"PENDING", "FAILED"} ~>
    \/ Settled(note)
    \/ note.status = "SENDING" /\ note.expiresAt <= now
=============================================================================
