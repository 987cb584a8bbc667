------------------------------ MODULE EmailSend ------------------------------
(***************************************************************************)
(* The e-mail send worker over the outbox: email-send.processor.ts,        *)
(* email-validate.processor.ts and resend() of emails.service.ts.          *)
(*                                                                         *)
(* A campaign message goes from DraftReady through a validation job to     *)
(* QueuedToSend and a send job, whose worker calls execute() of the outbox *)
(* under the key "email-message:<id>".  The worker, the administrators'    *)
(* reconciliation and the tracking pixel all write the status of the       *)
(* message by its id alone, whatever it has become since they read it.     *)
(*                                                                         *)
(* A key of Outbox is a message here and a digest is a version of its      *)
(* body, 1, 2, ...: every resend() draws a new tracking id.  A worker of   *)
(* Outbox is a process of the send queue; inside one, accountChains runs   *)
(* the jobs of an account one after the other.  BullMQ gives a job Tries   *)
(* attempts, one of which every throw spends, and takes it back from a     *)
(* dead process once.  The database or the queue may throw before or after *)
(* it did what it was asked.  Messages written by the AI, whose drafts go  *)
(* back to the compose queue, are left out; "Opened" stands for opened and *)
(* clicked, and the status Bounced is written by no code.                  *)
(***************************************************************************)
EXTENDS Outbox

CONSTANTS
  Jobs,        \* bound on the queue jobs alive at once
  Tries,       \* attempts BullMQ gives a send job
  MaxRetries   \* maxRetries of a message

ASSUME EmailAssumption ==
  /\ Tries \in Nat \ {0}
  /\ MaxRetries \in Nat \ {0}
  /\ Digests \subseteq Nat
  /\ 1 \in Digests

VARIABLES
  msg,      \* EmailMessage by id
  queue,    \* the jobs of the validate and the send queue
  work,     \* what each send worker holds of its job
  resends,  \* the resend() calls of a message, by the version each makes
  givenUp   \* messages that a job left waiting when BullMQ gave the job up

evars == <<vars, msg, queue, work, resends, givenUp>>

MessageStatuses == {"DraftReady", "QueuedToSend", "Sending", "Sent", "Opened",
                    "Blocked", "Failed", "Skipped"}

Message == [status : MessageStatuses, version : Digests,
            retryCount : 0 .. MaxRetries, opened : BOOLEAN]

NewMessage == [status |-> "DraftReady", version |-> 1, retryCount |-> 0, opened |-> FALSE]

\* The body is the one that an active validation job has read.
QueueJob ==
  {j \in [kind : {"validate", "send"}, state : {"waiting", "active", "written"}, key : Keys,
          body : Digests \cup {None}, tries : 1 .. Tries, stalled : BOOLEAN] :
     j.kind = "validate" /\ j.state = "active" => j.body # None}

NoJob == [kind |-> "none"]

NewJob(kind, k) ==
  [kind |-> kind, state |-> "waiting", key |-> k, body |-> None, tries |-> Tries, stalled |-> FALSE]

Again(j) == [j EXCEPT !.state = "waiting", !.body = None]

\* What a throw and a dead process leave of a job.
Spent(j) == IF j.tries = 1 THEN NoJob ELSE [Again(j) EXCEPT !.tries = j.tries - 1]

TakenBack(j) == IF j.stalled THEN NoJob ELSE [Again(j) EXCEPT !.stalled = TRUE]

Faults(j) == {Spent(j), TakenBack(j)}

Work == [stage : {"taken", "looked", "cleared", "requeue", "sending", "executing",
                  "sent", "recorded", "unknown", "failed"},
         id : Jobs, key : Keys, seen : Message, row : Row]

Free == [stage |-> "free"]

\* A resend() and the failed message that it read.
Resending == [stage : {"read", "reserved"}, seen : {m \in Message : m.status = "Failed"}]

Over == [stage |-> "over"]

EmailTypeOK ==
  /\ TypeOK
  /\ msg \in [Keys -> Message]
  /\ queue \in [Jobs -> QueueJob \cup {NoJob}]
  /\ work \in [Workers -> Work \cup {Free}]
  /\ resends \in [Keys -> [Digests -> Resending \cup {None, Over}]]
  /\ givenUp \subseteq Keys

\* Each message is created with its validation job.
EmailInit ==
  /\ Init
  /\ msg = [k \in Keys |-> NewMessage]
  /\ \E ids \in [Keys -> Jobs] :
       /\ \A j, k \in Keys : ids[j] = ids[k] => j = k
       /\ queue = [i \in Jobs |-> IF \E k \in Keys : ids[k] = i
                                  THEN NewJob("validate", CHOOSE k \in Keys : ids[k] = i)
                                  ELSE NoJob]
  /\ work = [w \in Workers |-> Free]
  /\ resends = [k \in Keys |-> [d \in Digests |-> None]]
  /\ givenUp = {}

SetStatus(k, status) == msg' = [msg EXCEPT ![k].status = status]

AwaitsJob == {"QueuedToSend", "Sending"}

\* Place i of the queue becomes what a fault makes of its job.
Fault(i, j) ==
  LET k == queue[i].key
      left == j = NoJob /\ msg'[k].status \in AwaitsJob
  IN  /\ queue' = [queue EXCEPT ![i] = j]
      /\ givenUp' = IF left THEN givenUp \cup {k} ELSE givenUp

\* queue.add() takes a new job; the one at place i is complete, or else its
\* process did not hear of it or died.
AddAndLeave(i, k) ==
  /\ \/ queue' = [queue EXCEPT ![i] = NewJob("send", k)]
     \/ \E new \in Jobs, j \in Faults(queue[i]) :
          /\ queue[new] = NoJob
          /\ queue' = [queue EXCEPT ![i] = j, ![new] = NewJob("send", k)]
  /\ UNCHANGED givenUp

\* The status is written for good; the job is complete, or the process did not
\* hear of the write or died.
WriteAndLeave(i, k, status) ==
  /\ SetStatus(k, status)
  /\ \E j \in {NoJob} \cup Faults(queue[i]) : queue' = [queue EXCEPT ![i] = j]
  /\ UNCHANGED givenUp

-----------------------------------------------------------------------------
(* The validation job.                                                     *)

\* A sent message needs no validation.
ValidateRead(i) ==
  LET m == msg[queue[i].key] IN
  /\ queue[i].kind = "validate"
  /\ queue[i].state = "waiting"
  /\ queue' = IF m.status = "Sent" THEN [queue EXCEPT ![i] = NoJob]
              ELSE [queue EXCEPT ![i].state = "active", ![i].body = m.version]
  /\ UNCHANGED <<vars, msg, work, resends, givenUp>>

\* The body that was read is written back with the status.
ValidateWrite(i) ==
  LET k == queue[i].key IN
  /\ queue[i].kind = "validate"
  /\ queue[i].state = "active"
  /\ \/ /\ msg' = [msg EXCEPT ![k].status = "QueuedToSend", ![k].version = queue[i].body]
        /\ queue' = [queue EXCEPT ![i].state = "written"]
        /\ UNCHANGED givenUp
     \/ WriteAndLeave(i, k, "Failed")
  /\ UNCHANGED <<vars, work, resends>>

\* The send job is added and the validation job ends, in its place.
ValidateAdd(i) ==
  /\ queue[i].kind = "validate"
  /\ queue[i].state = "written"
  /\ AddAndLeave(i, queue[i].key)
  /\ UNCHANGED <<vars, msg, work, resends>>

\* The read, the write or queue.add() throws, or the process dies.
ValidateFault(i) ==
  /\ queue[i].kind = "validate"
  /\ queue[i].state # "waiting"
  /\ UNCHANGED <<vars, msg, work, resends>>
  /\ \E j \in Faults(queue[i]) : Fault(i, j)

-----------------------------------------------------------------------------
(* processLocked(): reading the message and its outbox row.                *)

Goes(w, stage) == work' = [work EXCEPT ![w].stage = stage]

\* The worker returns and its job is complete.
Finish(w) ==
  /\ work' = [work EXCEPT ![w] = Free]
  /\ queue' = [queue EXCEPT ![work[w].id] = NoJob]

Take(w, i) ==
  LET k == queue[i].key IN
  /\ work[w] = Free
  /\ queue[i].kind = "send"
  /\ queue[i].state = "waiting"
  /\ IF msg[k].status = "Sent"
     THEN work' = work /\ queue' = [queue EXCEPT ![i] = NoJob]
     ELSE /\ work' = [work EXCEPT ![w] = [stage |-> "taken", id |-> i, key |-> k,
                                          seen |-> [msg[k] EXCEPT !.opened = FALSE],
                                          row |-> NoRow]]
          /\ queue' = [queue EXCEPT ![i].state = "active"]
  /\ UNCHANGED <<vars, msg, resends, givenUp>>

Look(w) ==
  /\ work[w].stage = "taken"
  /\ work' = [work EXCEPT ![w].stage = "looked", ![w].row = rows[work[w].key]]
  /\ UNCHANGED <<vars, msg, queue, resends, givenUp>>

Answer(w, status) ==
  /\ WriteAndLeave(work[w].id, work[w].key, status)
  /\ work' = [work EXCEPT ![w] = Free]
  /\ UNCHANGED <<vars, resends>>

Exhausted(r) == r.status = "FAILED" /\ r.attemptCount >= MaxAttempts

\* The row says how the sending ended.
Settle(w) ==
  LET r == work[w].row IN
  /\ work[w].stage = "looked"
  /\ \/ r.status = "SUCCEEDED" /\ Answer(w, "Sent")
     \/ Exhausted(r) /\ Answer(w, "Failed")
     \/ /\ \/ r.status \in {"UNKNOWN", "CANCELLED", "EXPIRED"}
           \/ r.status = "FAILED" /\ ~Exhausted(r) /\ r.nextAttemptAt = None
           \/ r.status = "PENDING" /\ Expired(r)
        /\ Answer(w, "Blocked")

\* Another execution holds a live lease, or the retry is not due.
Wait(w) ==
  LET r == work[w].row IN
  /\ work[w].stage = "looked"
  /\ \/ r.status = "EXECUTING" /\ ~Lapsed(r)
     \/ r.status = "FAILED" /\ ~Exhausted(r) /\ r.nextAttemptAt # None /\ ~DueAt(r, now)
  /\ SetStatus(work[w].key, "QueuedToSend")
  /\ Goes(w, "requeue")
  /\ UNCHANGED <<vars, queue, resends, givenUp>>

\* Mutant: the lapsed row is overwritten by its id alone.
LapsedRowById(k, r) == MarkUnknown(rows[k])

\* The updateMany on a row that was EXECUTING under a lapsed lease when read.
LapsedRow(k, r) ==
  IF /\ rows[k].status = "EXECUTING"
     /\ IF r.leaseExpiresAt = None THEN rows[k].leaseExpiresAt = None
        ELSE rows[k].leaseExpiresAt # None /\ rows[k].leaseExpiresAt <= now
  THEN MarkUnknown(rows[k]) ELSE rows[k]

RecoverLease(w) ==
  LET k == work[w].key IN
  /\ work[w].stage = "looked"
  /\ work[w].row.status = "EXECUTING"
  /\ Lapsed(work[w].row)
  /\ rows' = [rows EXCEPT ![k] = LapsedRow(k, work[w].row)]
  /\ Goes(w, "unknown")
  /\ UNCHANGED <<job, calls, now, msg, queue, resends, givenUp>>

\* A row that may be attempted makes the message QueuedToSend again, whatever
\* it was; without a row it has to be QueuedToSend already.
Resume(w) ==
  LET r == work[w].row
      again == \/ r.status = "PENDING" /\ ~Expired(r)
               \/ r.status = "FAILED" /\ ~Exhausted(r) /\ DueAt(r, now)
  IN  /\ work[w].stage = "looked"
      /\ \/ again
         \/ r.status = "ABSENT" /\ work[w].seen.status = "QueuedToSend"
      /\ IF work[w].seen.status = "QueuedToSend" THEN msg' = msg
         ELSE SetStatus(work[w].key, "QueuedToSend")
      /\ work' = [work EXCEPT ![w] = [@ EXCEPT !.stage = "cleared", !.row = NoRow,
                                               !.seen.status = "QueuedToSend"]]
      /\ UNCHANGED <<vars, queue, resends, givenUp>>

Refuse(w) ==
  /\ work[w].stage = "looked"
  /\ work[w].row.status = "ABSENT"
  /\ work[w].seen.status # "QueuedToSend"
  /\ Answer(w, "Failed")

\* Content, recipient, account or the safety switch forbid the send.
Reconsider(w) ==
  /\ work[w].stage = "cleared"
  /\ \E status \in {"Failed", "Skipped", "Blocked"} : Answer(w, status)

\* The account's window or limit asks for a later time.
Delay(w) ==
  /\ work[w].stage = "cleared"
  /\ SetStatus(work[w].key, "QueuedToSend")
  /\ Goes(w, "requeue")
  /\ UNCHANGED <<vars, queue, resends, givenUp>>

\* Mutant: the worker returns without adding the delayed job.
ReturnOnly(w) ==
  /\ work[w].stage = "requeue"
  /\ Finish(w)
  /\ UNCHANGED <<vars, msg, resends, givenUp>>

\* The delayed job is added and the worker returns.
Requeue(w) ==
  /\ work[w].stage = "requeue"
  /\ AddAndLeave(work[w].id, work[w].key)
  /\ work' = [work EXCEPT ![w] = Free]
  /\ UNCHANGED <<vars, msg, resends>>

MarkSending(w) ==
  /\ work[w].stage = "cleared"
  /\ SetStatus(work[w].key, "Sending")
  /\ Goes(w, "sending")
  /\ UNCHANGED <<vars, queue, resends, givenUp>>

-----------------------------------------------------------------------------
(* outbound.execute(), with the body that the worker read.                 *)

Unsent == UNCHANGED <<msg, queue, resends, givenUp>>

\* The sender left the company, or the reservation's checks or limits throw.
RefuseSend(w) ==
  /\ work[w].stage = "sending"
  /\ Goes(w, "failed")
  /\ UNCHANGED vars /\ Unsent

\* reserve() compares the payload first, then looks at the row.
Reserve(w) ==
  LET k == work[w].key
      r == rows[k]
      d == work[w].seen.version
  IN  /\ work[w].stage = "sending"
      /\ \/ ReserveNew(w, k, d) /\ Goes(w, "executing")
         \/ r.status # "ABSENT" /\ r.digest # d /\ Goes(w, "failed") /\ UNCHANGED vars
         \/ /\ r.digest = d
            /\ \/ ReserveReplay(w, k) /\ Goes(w, "executing")
               \/ ReserveLostRace(w, k) /\ Goes(w, "executing")
               \/ ReserveLapsed(k) /\ Goes(w, "unknown")
               \/ ReserveExpired(k) /\ Goes(w, "failed")
               \/ r.status = "SUCCEEDED" /\ Goes(w, "sent") /\ UNCHANGED vars
               \/ r.status = "UNKNOWN" /\ Goes(w, "unknown") /\ UNCHANGED vars
               \/ r.status \in {"CANCELLED", "EXPIRED"} /\ Goes(w, "failed") /\ UNCHANGED vars
      /\ Unsent

Dispatch(w) ==
  /\ work[w].stage = "executing"
  /\ Claim(w)
  /\ UNCHANGED work
  /\ Unsent

\* The row is not due or out of attempts, the claim's checks throw, or the
\* claim finds the row taken; a row that succeeded meanwhile is an answer.
GiveUp(w) ==
  /\ work[w].stage = "executing"
  /\ job[w].stage = "reserved"
  /\ \/ LoseClaim(w) /\ Goes(w, "failed")
     \/ Exhaust(w) /\ Goes(w, "failed")
     \/ /\ job[w].seen.attemptCount < MaxAttempts
        /\ Abandon(w)
        /\ \/ Goes(w, "failed")
           \/ /\ rows[job[w].key].status = "SUCCEEDED"
              /\ \E t \in 0 .. now : MayClaim(w, t)
              /\ Goes(w, "sent")
  /\ Unsent

\* Mutant: an accepted call counts as sent though its claim was lost.
OutcomeAnyhow(w) == "sent"

\* What execute() answers to an accepted call.
Outcome(w) ==
  IF Owns(w) /\ ~ReceiptTaken(job[w].key, <<job[w].key, Version(w)>>) THEN "sent" ELSE "unknown"

Deliver(w) ==
  /\ work[w].stage = "executing"
  /\ \/ Complete(w) /\ Goes(w, Outcome(w))
     \/ Reject(w) /\ Goes(w, "failed")
     \/ Ambiguous(w) /\ Goes(w, "unknown")
  /\ Unsent

-----------------------------------------------------------------------------
(* Writing the outcome on the message.                                     *)

\* The body that was read is written back with the status.  An error of the
\* update is caught as if the send had failed.
WriteSent(w) ==
  /\ work[w].stage = "sent"
  /\ \/ /\ msg' = [msg EXCEPT ![work[w].key].status = "Sent",
                              ![work[w].key].version = work[w].seen.version]
        /\ Goes(w, "recorded")
     \/ Goes(w, "failed") /\ msg' = msg
  /\ UNCHANGED <<vars, queue, resends, givenUp>>

\* The account's counter and the timeline follow; so are their errors.
Record(w) ==
  /\ work[w].stage = "recorded"
  /\ \/ Finish(w)
     \/ Goes(w, "failed") /\ queue' = queue
  /\ UNCHANGED <<vars, msg, resends, givenUp>>

WriteUnknown(w) ==
  /\ work[w].stage = "unknown"
  /\ Answer(w, "Blocked")

Final(n) == n >= MaxRetries

\* Counts beyond MaxRetries are all alike: they are only compared with it.
Failures(n) == IF n > MaxRetries THEN MaxRetries ELSE n

\* The count is the one the worker read; the error makes BullMQ run the job
\* again while it has attempts left.
WriteFailure(w) ==
  LET k == work[w].key
      n == work[w].seen.retryCount + 1
  IN  /\ work[w].stage = "failed"
      /\ msg' = [msg EXCEPT ![k].retryCount = Failures(n),
                            ![k].status = IF Final(n) THEN "Failed" ELSE "QueuedToSend"]
      /\ \E j \in Faults(queue[work[w].id]) : Fault(work[w].id, j)
      /\ work' = [work EXCEPT ![w] = Free]
      /\ UNCHANGED <<vars, resends>>

\* The database or the queue throws before the try block, or in its catch.
Throw(w) ==
  /\ work[w].stage \in {"taken", "looked", "cleared", "requeue", "sending", "unknown", "failed"}
  /\ work' = [work EXCEPT ![w] = Free]
  /\ UNCHANGED <<vars, msg, resends>>
  /\ Fault(work[w].id, Spent(queue[work[w].id]))

\* The process dies; BullMQ takes the job back, once.
Crash(w) ==
  /\ work[w] # Free
  /\ work' = [work EXCEPT ![w] = Free]
  /\ job' = [job EXCEPT ![w] = Idle]
  /\ UNCHANGED <<rows, calls, now, msg, resends>>
  /\ Fault(work[w].id, TakenBack(queue[work[w].id]))

-----------------------------------------------------------------------------
(* resend(): the read, the reservation by status, the new validation job,  *)
(* or its undoing.  Versions are numbered in the order of the reads.       *)

ResendRead(k, d) ==
  /\ d > 1 /\ resends[k][d] = None
  /\ \A e \in Digests : 1 < e /\ e < d => resends[k][e] # None
  /\ msg[k].status = "Failed"
  /\ resends' = [resends EXCEPT ![k][d] = [stage |-> "read",
                                           seen |-> [msg[k] EXCEPT !.opened = FALSE]]]
  /\ UNCHANGED <<vars, msg, queue, work, givenUp>>

ResendReserve(k, d) ==
  /\ resends[k][d] \in Resending
  /\ resends[k][d].stage = "read"
  /\ msg[k].status = "Failed"
  /\ resends' = [resends EXCEPT ![k][d].stage = "reserved"]
  /\ msg' = [msg EXCEPT ![k].status = "DraftReady",
                        ![k].version = d,
                        ![k].retryCount = Failures(msg[k].retryCount + 1)]
  /\ UNCHANGED <<vars, queue, work, givenUp>>

Reserved(k, d) == resends[k][d] \in Resending /\ resends[k][d].stage = "reserved"

ResendQueued(k, d) ==
  /\ Reserved(k, d)
  /\ \E i \in Jobs : queue[i] = NoJob /\ queue' = [queue EXCEPT ![i] = NewJob("validate", k)]
  /\ resends' = [resends EXCEPT ![k][d] = Over]
  /\ UNCHANGED <<vars, msg, work, givenUp>>

\* The job was not accepted: the message becomes what was read, if it is still
\* the draft of this reservation.
ResendUndone(k, d) ==
  /\ Reserved(k, d)
  /\ msg' = IF msg[k].status = "DraftReady" /\ msg[k].version = d
            THEN [msg EXCEPT ![k] = [resends[k][d].seen EXCEPT !.opened = msg[k].opened]]
            ELSE msg
  /\ resends' = [resends EXCEPT ![k][d] = Over]
  /\ UNCHANGED <<vars, queue, work, givenUp>>

\* The message was no longer Failed, the server died, it cannot tell whether
\* the queue took the job, or the queue knew the job's id already.
ResendLost(k, d) ==
  /\ resends[k][d] \in Resending
  /\ resends' = [resends EXCEPT ![k][d] = Over]
  /\ UNCHANGED <<vars, msg, queue, work, givenUp>>

ResendStep(k, d) ==
  \/ ResendRead(k, d) \/ ResendReserve(k, d)
  \/ ResendQueued(k, d) \/ ResendUndone(k, d) \/ ResendLost(k, d)

-----------------------------------------------------------------------------
(* Administrators, the recipient and the clock.                            *)

\* projectReconciledAction() writes the message in the same transaction.
Reconcile(k) ==
  /\ \/ (\E v \in Attempts : ReconcileSucceeded(k, <<k, v>>)) /\ SetStatus(k, "Sent")
     \/ (ReconcileFailed(k) \/ ReconcileCancelled(k)) /\ SetStatus(k, "Blocked")
  /\ UNCHANGED <<queue, work, resends, givenUp>>

Oversee ==
  /\ \/ \E k \in Keys : Cancel(k)
     \/ \E k \in Keys, v \in Attempts : ProviderDecides(k, v)
     \/ RecoverStaleExecuting \/ Tick
  /\ UNCHANGED work
  /\ Unsent

\* The tracking pixel of a delivered message is loaded for the first time.
TrackOpen(k) ==
  /\ Accepted(k) # {}
  /\ ~msg[k].opened
  /\ msg' = [msg EXCEPT ![k].opened = TRUE, ![k].status = "Opened"]
  /\ UNCHANGED <<vars, queue, work, resends, givenUp>>

EmailWorker(w) ==
  \/ \E i \in Jobs : Take(w, i)
  \/ Look(w) \/ Settle(w) \/ Wait(w) \/ RecoverLease(w) \/ Resume(w) \/ Refuse(w)
  \/ Reconsider(w) \/ Delay(w) \/ Requeue(w) \/ MarkSending(w)
  \/ RefuseSend(w) \/ Reserve(w) \/ Dispatch(w) \/ GiveUp(w) \/ Deliver(w)
  \/ WriteSent(w) \/ Record(w) \/ WriteUnknown(w) \/ WriteFailure(w)
  \/ Throw(w) \/ Crash(w)

EmailNext ==
  \/ \E i \in Jobs : ValidateRead(i) \/ ValidateWrite(i) \/ ValidateAdd(i) \/ ValidateFault(i)
  \/ \E w \in Workers : EmailWorker(w)
  \/ \E k \in Keys, d \in Digests : ResendStep(k, d)
  \/ \E k \in Keys : Reconcile(k) \/ TrackOpen(k)
  \/ Oversee

EmailSpec == EmailInit /\ [][EmailNext]_evars
-----------------------------------------------------------------------------
(* Properties.                                                             *)

\* The worker moves outbox rows only as the outbox does, its own update of a
\* lapsed row included: what Outbox promises holds for campaign messages.
ImplementsOutbox == Spec

\* A message shown as Sent was sent: its action SUCCEEDED, by the provider's
\* receipt or an administrator's word, although the status is written by id
\* after any number of crashes, lost claims and resends.
SentIsAttested ==
  \A k \in Keys : msg[k].status = "Sent" => rows[k].status = "SUCCEEDED"

\* A message that waits to be sent or is being sent has a job that will go on
\* with it, unless BullMQ gave up a job that left it so: no worker forgets it by
\* returning, whatever other jobs, resends and the validation have written by
\* its id since it read the message.
HasJob(k) ==
  \E i \in Jobs : queue[i] # NoJob /\ queue[i].key = k

NotStranded ==
  \A k \in Keys \ givenUp : msg[k].status \in AwaitsJob => HasJob(k)
=============================================================================
