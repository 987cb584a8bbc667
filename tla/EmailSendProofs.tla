--------------------------- MODULE EmailSendProofs ---------------------------
(* Proofs about EmailSend for every set of messages, bodies, jobs and       *)
(* workers: its steps are steps of Outbox, whose theorems it inherits.      *)
EXTENDS EmailSend, OutboxProofs

\* A worker that holds a job holds typed data.
LEMMA WorkTyped ==
  ASSUME EmailTypeOK, NEW w \in Workers, work[w] # Free
  PROVE  /\ work[w] \in Work
         /\ work[w].id \in Jobs
         /\ work[w].key \in Keys
         /\ work[w].seen \in Message
         /\ work[w].seen.version \in Digests
         /\ work[w].row \in Row
  <1>1. work[w] \in Work
    BY DEF EmailTypeOK
  <1> QED
    BY <1>1 DEF Work, Message

LEMMA NotFree ==
  ASSUME NEW w, work[w].stage # "free"
  PROVE  work[w] # Free
  BY DEF Free

\* Crash: the outbox sees a process that abandons its call, or nothing.
LEMMA CrashAbandons ==
  ASSUME EmailTypeOK, NEW w \in Workers, Crash(w)
  PROVE  [Next]_vars
  <1>1. job \in [Workers -> Job \cup {Idle}]
    BY DEF EmailTypeOK, TypeOK
  <1>2. job' = [job EXCEPT ![w] = Idle] /\ UNCHANGED <<rows, calls, now>>
    BY DEF Crash
  <1>3. CASE job[w] = Idle
    BY <1>1, <1>2, <1>3 DEF vars
  <1>4. CASE job[w] # Idle
    <2>1. Abandon(w)
      BY <1>2, <1>4 DEF Abandon
    <2> QED
      BY <2>1 DEF Next, WorkerStep
  <1> QED
    BY <1>3, <1>4

\* The worker's own update of a lapsed row is the outbox's, or changes nothing.
LEMMA RecoverLapses ==
  ASSUME EmailTypeOK, NEW w \in Workers, RecoverLease(w)
  PROVE  [Next]_vars
  <1> DEFINE k == work[w].key
             r == work[w].row
  <1>1. work[w] # Free
    BY NotFree DEF RecoverLease
  <1>2. k \in Keys
    BY <1>1, WorkTyped
  <1>3. rows \in [Keys -> Row]
    BY DEF EmailTypeOK, TypeOK
  <1>4. rows' = [rows EXCEPT ![k] = LapsedRow(k, r)] /\ UNCHANGED <<job, calls, now>>
    BY DEF RecoverLease
  <1>5. CASE LapsedRow(k, r) = rows[k]
    BY <1>2, <1>3, <1>4, <1>5 DEF vars
  <1>6. CASE LapsedRow(k, r) # rows[k]
    <2>1. rows[k].status = "EXECUTING" /\ LapsedRow(k, r) = MarkUnknown(rows[k])
      BY <1>6 DEF LapsedRow
    <2>2. Lapsed(rows[k])
      BY <1>6 DEF LapsedRow, Lapsed
    <2>3. ReserveLapsed(k)
      BY <1>4, <2>1, <2>2 DEF ReserveLapsed
    <2> QED
      BY <1>2, <2>3 DEF Next, KeyStep
  <1> QED
    BY <1>5, <1>6

\* Every step of the e-mail components is one of the outbox, or none.
LEMMA StepIsOutboxStep ==
  ASSUME EmailTypeOK, [EmailNext]_evars
  PROVE  [Next]_vars
  <1>1. CASE UNCHANGED evars
    BY <1>1 DEF evars, vars
  <1>2. ASSUME NEW i \in Jobs,
               ValidateRead(i) \/ ValidateWrite(i) \/ ValidateAdd(i) \/ ValidateFault(i)
        PROVE  [Next]_vars
    BY <1>2 DEF ValidateRead, ValidateWrite, ValidateAdd, ValidateFault
  <1>3. ASSUME NEW w \in Workers, EmailWorker(w)
        PROVE  [Next]_vars
    <2>1. ASSUME NEW i \in Jobs, Take(w, i)
          PROVE  [Next]_vars
      BY <2>1 DEF Take
    <2>2. CASE Look(w) \/ Settle(w) \/ Wait(w) \/ Resume(w) \/ Refuse(w)
      BY <2>2 DEF Look, Settle, Wait, Resume, Refuse, Answer
    <2>3. CASE RecoverLease(w)
      BY <2>3, RecoverLapses
    <2>4. CASE Reconsider(w) \/ Delay(w) \/ Requeue(w) \/ MarkSending(w) \/ RefuseSend(w)
      BY <2>4 DEF Reconsider, Delay, Requeue, MarkSending, RefuseSend, Answer
    <2>5. CASE Reserve(w)
      <3>1. work[w] # Free
        BY <2>5, NotFree DEF Reserve
      <3>2. work[w].key \in Keys /\ work[w].seen.version \in Digests
        BY <3>1, WorkTyped
      <3>3. \/ ReserveNew(w, work[w].key, work[w].seen.version)
            \/ ReserveReplay(w, work[w].key)
            \/ ReserveLostRace(w, work[w].key)
            \/ ReserveLapsed(work[w].key)
            \/ ReserveExpired(work[w].key)
            \/ UNCHANGED vars
        BY <2>5 DEF Reserve
      <3> QED
        BY <3>2, <3>3 DEF Next, WorkerStep, KeyStep
    <2>6. CASE Dispatch(w)
      BY <2>6 DEF Dispatch, Next, WorkerStep
    <2>7. CASE GiveUp(w)
      BY <2>7 DEF GiveUp, Next, WorkerStep
    <2>8. CASE Deliver(w)
      BY <2>8 DEF Deliver, Next, WorkerStep
    <2>9. CASE WriteSent(w) \/ Record(w) \/ WriteUnknown(w) \/ WriteFailure(w) \/ Throw(w)
      BY <2>9 DEF WriteSent, Record, WriteUnknown, WriteFailure, Throw, Answer
    <2>10. CASE Crash(w)
      BY <2>10, CrashAbandons
    <2> QED
      BY <1>3, <2>1, <2>2, <2>3, <2>4, <2>5, <2>6, <2>7, <2>8, <2>9, <2>10 DEF EmailWorker
  <1>4. ASSUME NEW k \in Keys, TrackOpen(k) \/ \E d \in Digests : ResendStep(k, d)
        PROVE  [Next]_vars
    BY <1>4 DEF ResendStep, ResendRead, ResendReserve, ResendQueued, ResendUndone, ResendLost,
         TrackOpen
  <1>5. ASSUME NEW k \in Keys, Reconcile(k)
        PROVE  [Next]_vars
    <2>1. KeyStep(k)
      BY <1>5 DEF Reconcile, KeyStep
    <2> QED
      BY <2>1 DEF Next
  <1>6. CASE Oversee
    BY <1>6 DEF Oversee, Next, KeyStep
  <1> QED
    BY <1>1, <1>2, <1>3, <1>4, <1>5, <1>6 DEF EmailNext
-----------------------------------------------------------------------------
(* Types.  A worker works on the job it took, which is its alone.          *)

Holding(w) ==
  /\ queue[work[w].id].kind = "send"
  /\ queue[work[w].id].state = "active"
  /\ queue[work[w].id].key = work[w].key

JobsHeld ==
  /\ \A w \in Workers : work[w] # Free => Holding(w)
  /\ \A v, w \in Workers :
       work[v] # Free /\ work[w] # Free /\ work[v].id = work[w].id => v = w

EmailInv == EmailTypeOK /\ JobsHeld

LEMMA NewJobTyped ==
  ASSUME NEW kind \in {"validate", "send"}, NEW k \in Keys
  PROVE  /\ NewJob(kind, k) \in QueueJob
         /\ NewJob(kind, k) # NoJob
  BY EmailAssumption DEF NewJob, QueueJob, NoJob

\* What a fault leaves is nothing, or a job of the same message.
LEMMA FaultTyped ==
  ASSUME NEW i \in Jobs, queue[i] \in QueueJob
  PROVE  /\ Faults(queue[i]) \subseteq QueueJob \cup {NoJob}
         /\ Spent(queue[i]) \in Faults(queue[i])
         /\ TakenBack(queue[i]) \in Faults(queue[i])
         /\ \A j \in Faults(queue[i]) : j # NoJob => j.key = queue[i].key
  <1> DEFINE q == queue[i]
             a == Again(q)
  <1>1. a \in QueueJob /\ a.key = q.key
    BY DEF Again, QueueJob
  <1>2. Spent(q) = NoJob \/ (Spent(q) \in QueueJob /\ Spent(q).key = q.key)
    <2>1. CASE q.tries = 1
      BY <2>1 DEF Spent
    <2>2. CASE q.tries # 1
      <3>1. q.tries - 1 \in 1 .. Tries
        BY <2>2, EmailAssumption DEF QueueJob
      <3>2. Spent(q) = [a EXCEPT !.tries = q.tries - 1]
        BY <2>2 DEF Spent
      <3> HIDE DEF a
      <3> QED
        BY <1>1, <3>1, <3>2 DEF QueueJob
    <2> QED
      BY <2>1, <2>2
  <1>3. TakenBack(q) = NoJob \/ (TakenBack(q) \in QueueJob /\ TakenBack(q).key = q.key)
    <2>1. TakenBack(q) = NoJob \/ TakenBack(q) = [a EXCEPT !.stalled = TRUE]
      BY DEF TakenBack
    <2> HIDE DEF a
    <2> QED
      BY <1>1, <2>1 DEF QueueJob
  <1> QED
    BY <1>2, <1>3 DEF Faults

LEMMA EmailInvInit == EmailInit => EmailInv
  <1> SUFFICES ASSUME EmailInit PROVE EmailInv
    OBVIOUS
  <1>1. TypeOK
    BY TypeInit DEF EmailInit
  <1>2. msg \in [Keys -> Message]
    BY EmailAssumption DEF EmailInit, NewMessage, Message, MessageStatuses
  <1>3. queue \in [Jobs -> QueueJob \cup {NoJob}]
    <2>1. PICK ids \in [Keys -> Jobs] :
            queue = [i \in Jobs |-> IF \E k \in Keys : ids[k] = i
                                    THEN NewJob("validate", CHOOSE k \in Keys : ids[k] = i)
                                    ELSE NoJob]
      BY DEF EmailInit
    <2>2. ASSUME NEW i \in Jobs PROVE queue[i] \in QueueJob \cup {NoJob}
      <3>1. CASE \E k \in Keys : ids[k] = i
        <4>1. (CHOOSE k \in Keys : ids[k] = i) \in Keys
          BY <3>1
        <4> QED
          BY <2>1, <3>1, <4>1, NewJobTyped
      <3>2. CASE ~ \E k \in Keys : ids[k] = i
        BY <2>1, <3>2
      <3> QED
        BY <3>1, <3>2
    <2> QED
      BY <2>1, <2>2
  <1>4. /\ work = [w \in Workers |-> Free]
        /\ resends = [k \in Keys |-> [d \in Digests |-> None]]
        /\ givenUp = {}
    BY DEF EmailInit
  <1>5. work \in [Workers -> Work \cup {Free}] /\ \A w \in Workers : work[w] = Free
    BY <1>4
  <1>6. EmailTypeOK
    BY <1>1, <1>2, <1>3, <1>4, <1>5 DEF EmailTypeOK
  <1> QED
    BY <1>5, <1>6 DEF EmailInv, JobsHeld

\* The outbox part of the types.
LEMMA OutboxTyped ==
  ASSUME EmailTypeOK, [EmailNext]_evars
  PROVE  TypeOK'
  BY StepIsOutboxStep, TypeNext DEF EmailTypeOK

\* A change of a worker's stage, and of its row, leaves it with its job.
LEMMA StageChanged ==
  ASSUME EmailInv, NEW w \in Workers, work[w] # Free, UNCHANGED queue,
         NEW q \in Work, q.id = work[w].id, q.key = work[w].key,
         work' = [work EXCEPT ![w] = q]
  PROVE  /\ work' \in [Workers -> Work \cup {Free}]
         /\ queue' \in [Jobs -> QueueJob \cup {NoJob}]
         /\ JobsHeld'
  <1> USE DEF EmailInv, EmailTypeOK
  <1>1. \A v \in Workers : work'[v] = IF v = w THEN q ELSE work[v]
    OBVIOUS
  <1>2. q # Free
    BY DEF Work, Free
  <1> QED
    BY <1>1, <1>2 DEF JobsHeld, Holding

\* A worker that ends leaves its place in the queue to whatever follows.
LEMMA WorkEnded ==
  ASSUME EmailInv, NEW w \in Workers, work[w] # Free,
         NEW j \in QueueJob \cup {NoJob},
         work' = [work EXCEPT ![w] = Free],
         queue' = [queue EXCEPT ![work[w].id] = j]
  PROVE  /\ work' \in [Workers -> Work \cup {Free}]
         /\ queue' \in [Jobs -> QueueJob \cup {NoJob}]
         /\ JobsHeld'
  <1> USE DEF EmailInv, EmailTypeOK
  <1>1. \A v \in Workers : work'[v] = IF v = w THEN Free ELSE work[v]
    OBVIOUS
  <1>2. work[w].id \in Jobs
    BY WorkTyped
  <1>3. ASSUME NEW v \in Workers, work'[v] # Free
        PROVE  work'[v] = work[v] /\ v # w /\ queue'[work[v].id] = queue[work[v].id]
    <2>1. work'[v] = work[v] /\ v # w
      BY <1>1, <1>3
    <2>2. work[v].id \in Jobs /\ work[v].id # work[w].id
      BY <1>3, <2>1, WorkTyped DEF JobsHeld
    <2> QED
      BY <2>1, <2>2
  <1>4. queue' \in [Jobs -> QueueJob \cup {NoJob}]
    BY <1>2
  <1> QED
    BY <1>1, <1>3, <1>4 DEF JobsHeld, Holding

\* Writing a place of the queue that no worker holds disturbs no worker.
LEMMA PlaceWritten ==
  ASSUME EmailInv, NEW i \in Jobs, NEW j \in QueueJob \cup {NoJob}, UNCHANGED work,
         queue[i].state # "active" \/ queue[i].kind # "send",
         queue' = [queue EXCEPT ![i] = j]
  PROVE  /\ queue' \in [Jobs -> QueueJob \cup {NoJob}]
         /\ JobsHeld'
  <1> USE DEF EmailInv, EmailTypeOK
  <1>1. ASSUME NEW v \in Workers, work[v] # Free
        PROVE  queue'[work[v].id] = queue[work[v].id]
    <2>1. work[v].id \in Jobs /\ work[v].id # i
      BY <1>1, WorkTyped DEF JobsHeld, Holding
    <2> QED
      BY <2>1
  <1> QED
    BY <1>1 DEF JobsHeld, Holding

\* The record of a message with some fields replaced.
LEMMA MessageTyped ==
  ASSUME NEW m \in Message, NEW status \in MessageStatuses, NEW v \in Digests,
         NEW n \in 0 .. MaxRetries, NEW o \in BOOLEAN
  PROVE  /\ [m EXCEPT !.status = status] \in Message
         /\ [m EXCEPT !.opened = o] \in Message
         /\ [m EXCEPT !.opened = o, !.status = status] \in Message
         /\ [m EXCEPT !.status = status, !.version = v] \in Message
         /\ [m EXCEPT !.retryCount = n, !.status = status] \in Message
         /\ [m EXCEPT !.status = status, !.version = v, !.retryCount = n] \in Message
  BY DEF Message

LEMMA FailuresTyped ==
  ASSUME NEW n \in Nat
  PROVE  Failures(n) \in 0 .. MaxRetries
  BY EmailAssumption DEF Failures

LEMMA StatusSet ==
  ASSUME EmailTypeOK, NEW k \in Keys, NEW status \in MessageStatuses, SetStatus(k, status)
  PROVE  msg' \in [Keys -> Message]
  <1>1. [msg[k] EXCEPT !.status = status] \in Message
    BY DEF EmailTypeOK, Message
  <1> QED
    BY <1>1 DEF EmailTypeOK, SetStatus

\* A fault of a worker's job, or of a validation job, keeps the types.
LEMMA GivenUpTyped ==
  ASSUME EmailTypeOK, NEW i \in Jobs, queue[i] \in QueueJob, NEW j, Fault(i, j)
  PROVE  givenUp' \subseteq Keys
  BY DEF Fault, EmailTypeOK, QueueJob

\* A worker that answers returns its job, or throws, or dies.
LEMMA InvAnswer ==
  ASSUME EmailInv, NEW w \in Workers, work[w] # Free, NEW status \in MessageStatuses,
         Answer(w, status), TypeOK'
  PROVE  EmailInv'
  <1>1. EmailTypeOK /\ work[w].key \in Keys /\ work[w].id \in Jobs
    BY WorkTyped DEF EmailInv
  <1>2. msg' \in [Keys -> Message]
    BY <1>1, StatusSet DEF Answer, WriteAndLeave
  <1>3. queue[work[w].id] \in QueueJob
    BY <1>1 DEF EmailInv, EmailTypeOK, JobsHeld, Holding, NoJob
  <1>4. PICK j \in QueueJob \cup {NoJob} : queue' = [queue EXCEPT ![work[w].id] = j]
    BY <1>1, <1>3, FaultTyped DEF Answer, WriteAndLeave
  <1>5. /\ work' \in [Workers -> Work \cup {Free}]
        /\ queue' \in [Jobs -> QueueJob \cup {NoJob}]
        /\ JobsHeld'
    BY <1>4, WorkEnded DEF Answer
  <1> QED
    BY <1>1, <1>2, <1>5 DEF Answer, WriteAndLeave, EmailInv, EmailTypeOK

\* A worker that goes on to another stage keeps everything else.
LEMMA InvGoes ==
  ASSUME EmailInv, NEW w \in Workers, work[w] # Free, Goes(w, "looked") \/ Goes(w, "cleared")
           \/ Goes(w, "requeue") \/ Goes(w, "sending") \/ Goes(w, "executing") \/ Goes(w, "sent")
           \/ Goes(w, "recorded") \/ Goes(w, "unknown") \/ Goes(w, "failed"),
         UNCHANGED <<queue, resends, givenUp>>, msg' \in [Keys -> Message], TypeOK'
  PROVE  EmailInv'
  <1>1. work[w] \in Work
    BY WorkTyped DEF EmailInv
  <1>2. PICK stage \in {"looked", "cleared", "requeue", "sending", "executing", "sent",
                        "recorded", "unknown", "failed"} : Goes(w, stage)
    OBVIOUS
  <1> DEFINE q == [work[w] EXCEPT !.stage = stage]
  <1>3. q \in Work /\ q.id = work[w].id /\ q.key = work[w].key
    BY <1>1 DEF Work
  <1>4. work' = [work EXCEPT ![w] = q]
    BY <1>2 DEF Goes, EmailInv, EmailTypeOK
  <1>5. /\ work' \in [Workers -> Work \cup {Free}]
        /\ queue' \in [Jobs -> QueueJob \cup {NoJob}]
        /\ JobsHeld'
    BY <1>3, <1>4, StageChanged
  <1> QED
    BY <1>5 DEF EmailInv, EmailTypeOK

\* queue.add() writes the place of the job that asked for it and perhaps an
\* empty place.
LEMMA AddedTyped ==
  ASSUME EmailInv, NEW i \in Jobs, queue[i] \in QueueJob, NEW k \in Keys, AddAndLeave(i, k),
         \A v \in Workers : work'[v] # Free => work'[v] = work[v] /\ work[v].id # i,
         work' \in [Workers -> Work \cup {Free}]
  PROVE  queue' \in [Jobs -> QueueJob \cup {NoJob}] /\ JobsHeld'
  <1> USE DEF EmailInv, EmailTypeOK
  <1>1. NewJob("send", k) \in QueueJob /\ Faults(queue[i]) \subseteq QueueJob \cup {NoJob}
    BY NewJobTyped, FaultTyped
  <1>2. queue' \in [Jobs -> QueueJob \cup {NoJob}]
    BY <1>1 DEF AddAndLeave
  <1>3. ASSUME NEW v \in Workers, work'[v] # Free
        PROVE  /\ work'[v] = work[v]
               /\ queue'[work[v].id] = queue[work[v].id]
    <2>1. work'[v] = work[v] /\ work[v].id \in Jobs \ {i}
      BY <1>3, WorkTyped
    <2>2. queue[work[v].id] # NoJob
      BY <1>3, <2>1 DEF JobsHeld, Holding, NoJob
    <2> QED
      BY <2>1, <2>2 DEF AddAndLeave
  <1> QED
    BY <1>2, <1>3 DEF JobsHeld, Holding

LEMMA InvValidate ==
  ASSUME EmailInv, NEW i \in Jobs, TypeOK',
         ValidateRead(i) \/ ValidateWrite(i) \/ ValidateAdd(i) \/ ValidateFault(i)
  PROVE  EmailInv'
  <1>1. /\ queue[i] \in QueueJob /\ queue[i].kind = "validate" /\ queue[i].key \in Keys
        /\ msg \in [Keys -> Message] /\ UNCHANGED <<work, resends>>
    BY DEF ValidateRead, ValidateWrite, ValidateAdd, ValidateFault, EmailInv, EmailTypeOK,
       NoJob, QueueJob
  <1> DEFINE k == queue[i].key
  <1>2. Faults(queue[i]) \subseteq QueueJob \cup {NoJob}
    BY <1>1, FaultTyped
  <1>3. ASSUME NEW j \in QueueJob \cup {NoJob}, queue' = [queue EXCEPT ![i] = j],
               msg' \in [Keys -> Message], givenUp' \subseteq Keys
        PROVE  EmailInv'
    <2>1. queue' \in [Jobs -> QueueJob \cup {NoJob}] /\ JobsHeld'
      BY <1>1, <1>3, PlaceWritten
    <2> QED
      BY <1>1, <1>3, <2>1 DEF EmailInv, EmailTypeOK
  <1>4. CASE ValidateRead(i)
    <2>1. msg[k].version \in Digests \ {None}
      BY <1>1, OutboxAssumption DEF Message
    <2> DEFINE q == [queue[i] EXCEPT !.state = "active", !.body = msg[k].version]
    <2>2. q \in QueueJob
      BY <1>1, <2>1 DEF QueueJob
    <2>3. queue' = [queue EXCEPT ![i] = q] \/ queue' = [queue EXCEPT ![i] = NoJob]
      BY <1>4 DEF ValidateRead, EmailInv, EmailTypeOK
    <2>4. msg' \in [Keys -> Message] /\ givenUp' \subseteq Keys
      BY <1>1, <1>4 DEF ValidateRead, EmailInv, EmailTypeOK
    <2> QED
      BY <1>3, <2>2, <2>3, <2>4
  <1>5. CASE ValidateWrite(i)
    <2>1. givenUp' \subseteq Keys
      BY <1>5 DEF ValidateWrite, WriteAndLeave, EmailInv, EmailTypeOK
    <2>2. CASE WriteAndLeave(i, k, "Failed")
      <3>1. msg' \in [Keys -> Message]
        BY <1>1, <2>2, StatusSet DEF WriteAndLeave, EmailInv, MessageStatuses
      <3>2. \E j \in QueueJob \cup {NoJob} : queue' = [queue EXCEPT ![i] = j]
        BY <1>2, <2>2 DEF WriteAndLeave
      <3> QED
        BY <1>3, <2>1, <3>1, <3>2
    <2>3. CASE /\ msg' = [msg EXCEPT ![k].status = "QueuedToSend", ![k].version = queue[i].body]
               /\ queue' = [queue EXCEPT ![i].state = "written"]
      <3> DEFINE m == [msg[k] EXCEPT !.status = "QueuedToSend", !.version = queue[i].body]
                 q == [queue[i] EXCEPT !.state = "written"]
      <3>1. m \in Message
        BY <1>1, <1>5 DEF Message, MessageStatuses, ValidateWrite, QueueJob
      <3>2. q \in QueueJob
        BY <1>1 DEF QueueJob
      <3>3. msg' = [msg EXCEPT ![k] = m] /\ queue' = [queue EXCEPT ![i] = q]
        BY <1>1, <2>3
      <3> QED
        BY <1>1, <1>3, <2>1, <3>1, <3>2, <3>3
    <2> QED
      BY <1>5, <2>2, <2>3 DEF ValidateWrite
  <1>6. CASE ValidateAdd(i)
    <2>1. AddAndLeave(i, k) /\ UNCHANGED <<msg, givenUp>>
      BY <1>6 DEF ValidateAdd, AddAndLeave
    <2>2. \A v \in Workers : work'[v] # Free => work'[v] = work[v] /\ work[v].id # i
      BY <1>1 DEF EmailInv, JobsHeld, Holding
    <2>3. work' \in [Workers -> Work \cup {Free}]
      BY <1>1 DEF EmailInv, EmailTypeOK
    <2>4. queue' \in [Jobs -> QueueJob \cup {NoJob}] /\ JobsHeld'
      BY <1>1, <2>1, <2>2, <2>3, AddedTyped
    <2> QED
      BY <1>1, <2>1, <2>4 DEF EmailInv, EmailTypeOK
  <1>7. CASE ValidateFault(i)
    <2>1. PICK j \in Faults(queue[i]) : Fault(i, j)
      BY <1>7 DEF ValidateFault
    <2>2. givenUp' \subseteq Keys
      BY <1>1, <2>1, GivenUpTyped DEF EmailInv
    <2>3. queue' = [queue EXCEPT ![i] = j] /\ msg' = msg
      BY <1>7, <2>1 DEF ValidateFault, Fault
    <2> QED
      BY <1>1, <1>2, <1>3, <2>2, <2>3
  <1> QED
    BY <1>4, <1>5, <1>6, <1>7

LEMMA InvTake ==
  ASSUME EmailInv, NEW w \in Workers, NEW i \in Jobs, Take(w, i), TypeOK'
  PROVE  EmailInv'
  <1> DEFINE k == queue[i].key
             q == [stage |-> "taken", id |-> i, key |-> k,
                   seen |-> [msg[k] EXCEPT !.opened = FALSE], row |-> NoRow]
  <1> USE DEF EmailInv, EmailTypeOK
  <1>1. queue[i] \in QueueJob /\ queue[i].kind = "send" /\ queue[i].state = "waiting" /\ k \in Keys
    BY DEF Take, NoJob, QueueJob
  <1>2. UNCHANGED <<msg, resends, givenUp>>
    BY DEF Take
  <1>3. CASE msg[k].status = "Sent"
    <2>1. work' = work /\ queue' = [queue EXCEPT ![i] = NoJob]
      BY <1>3 DEF Take
    <2>2. queue' \in [Jobs -> QueueJob \cup {NoJob}] /\ JobsHeld'
      BY <1>1, <2>1, PlaceWritten
    <2> QED
      BY <1>2, <2>1, <2>2
  <1>4. CASE msg[k].status # "Sent"
    <2>1. /\ work' = [work EXCEPT ![w] = q]
          /\ queue' = [queue EXCEPT ![i].state = "active"]
          /\ work[w] = Free
      BY <1>4 DEF Take
    <2>2. q \in Work
      <3>1. [msg[k] EXCEPT !.opened = FALSE] \in Message
        BY <1>1 DEF Message
      <3>2. NoRow \in Row
        BY DEF NoRow, Row, Statuses
      <3> QED
        BY <1>1, <3>1, <3>2 DEF Work
    <2>3. /\ queue'[i] = [queue[i] EXCEPT !.state = "active"]
          /\ \A j \in Jobs \ {i} : queue'[j] = queue[j]
      BY <2>1
    <2>4. queue'[i] \in QueueJob /\ queue'[i].kind = "send" /\ queue'[i].state = "active" /\ queue'[i].key = k
      BY <1>1, <2>3 DEF QueueJob
    <2>5. queue' \in [Jobs -> QueueJob \cup {NoJob}]
      BY <2>1, <2>3, <2>4
    <2>6. ASSUME NEW v \in Workers, v # w, work[v] # Free
          PROVE  work'[v] = work[v] /\ work[v].id # i /\ queue'[work[v].id] = queue[work[v].id]
      <3>1. work'[v] = work[v] /\ work[v].id \in Jobs
        BY <2>1, <2>6, WorkTyped
      <3>2. work[v].id # i
        BY <1>1, <2>6 DEF JobsHeld, Holding
      <3> QED
        BY <2>3, <3>1, <3>2
    <2>7. work'[w] = q /\ \A v \in Workers \ {w} : work'[v] = work[v]
      BY <2>1
    <2>8. JobsHeld'
      <3>1. \A v \in Workers : work'[v] # Free => Holding(v)'
        BY <2>4, <2>6, <2>7 DEF JobsHeld, Holding
      <3>2. \A u, v \in Workers : work'[u] # Free /\ work'[v] # Free /\ work'[u].id = work'[v].id => u = v
        BY <2>6, <2>7 DEF JobsHeld
      <3> QED
        BY <3>1, <3>2 DEF JobsHeld
    <2> QED
      BY <1>2, <2>1, <2>2, <2>5, <2>8
  <1> QED
    BY <1>3, <1>4

LEMMA InvLook ==
  ASSUME EmailInv, NEW w \in Workers, Look(w), TypeOK'
  PROVE  EmailInv'
  <1> USE DEF EmailInv, EmailTypeOK
  <1> DEFINE q == [work[w] EXCEPT !.stage = "looked", !.row = rows[work[w].key]]
  <1>1. work[w] # Free
    BY NotFree DEF Look
  <1>2. work[w] \in Work /\ rows[work[w].key] \in Row
    BY <1>1, WorkTyped DEF TypeOK
  <1>3. q \in Work /\ q.id = work[w].id /\ q.key = work[w].key
    BY <1>2 DEF Work
  <1>4. work' = [work EXCEPT ![w] = q] /\ UNCHANGED <<msg, queue, resends, givenUp>>
    BY DEF Look
  <1>5. /\ work' \in [Workers -> Work \cup {Free}]
        /\ queue' \in [Jobs -> QueueJob \cup {NoJob}]
        /\ JobsHeld'
    BY <1>1, <1>3, <1>4, StageChanged
  <1> QED
    BY <1>4, <1>5

LEMMA InvResume ==
  ASSUME EmailInv, NEW w \in Workers, Resume(w), TypeOK'
  PROVE  EmailInv'
  <1> USE DEF EmailInv, EmailTypeOK
  <1> DEFINE m == [work[w].seen EXCEPT !.status = "QueuedToSend"]
             q == [work[w] EXCEPT !.stage = "cleared", !.row = NoRow, !.seen = m]
  <1>1. work[w] # Free
    BY NotFree DEF Resume
  <1>2. work[w] \in Work /\ work[w].seen \in Message /\ work[w].key \in Keys
    BY <1>1, WorkTyped
  <1>3. m \in Message
    BY <1>2 DEF Message, MessageStatuses
  <1>4. NoRow \in Row
    BY DEF NoRow, Row, Statuses
  <1>5. q \in Work /\ q.id = work[w].id /\ q.key = work[w].key
    BY <1>2, <1>3, <1>4 DEF Work
  <1>6. work' = [work EXCEPT ![w] = q] /\ UNCHANGED <<queue, resends, givenUp>>
    BY <1>2 DEF Resume, Work
  <1>7. /\ work' \in [Workers -> Work \cup {Free}]
        /\ queue' \in [Jobs -> QueueJob \cup {NoJob}]
        /\ JobsHeld'
    BY <1>1, <1>5, <1>6, StageChanged
  <1>8. msg' \in [Keys -> Message]
    BY <1>2, StatusSet DEF Resume, MessageStatuses
  <1> QED
    BY <1>6, <1>7, <1>8

LEMMA InvRequeue ==
  ASSUME EmailInv, NEW w \in Workers, Requeue(w), TypeOK'
  PROVE  EmailInv'
  <1> USE DEF EmailInv, EmailTypeOK
  <1>1. work[w] # Free
    BY NotFree DEF Requeue
  <1>2. work[w].id \in Jobs /\ work[w].key \in Keys
    BY <1>1, WorkTyped
  <1>3. queue[work[w].id] \in QueueJob
    BY <1>1, <1>2 DEF JobsHeld, Holding, NoJob
  <1>4. work' = [work EXCEPT ![w] = Free] /\ UNCHANGED <<msg, resends, givenUp>>
    BY DEF Requeue, AddAndLeave
  <1>5. \A v \in Workers : work'[v] # Free => work'[v] = work[v] /\ work[v].id # work[w].id
    BY <1>1, <1>4 DEF JobsHeld
  <1>6. queue' \in [Jobs -> QueueJob \cup {NoJob}] /\ JobsHeld'
    BY <1>2, <1>3, <1>4, <1>5, AddedTyped DEF Requeue
  <1> QED
    BY <1>4, <1>6

\* A worker whose job meets with a fault, after what it wrote on its message.
LEMMA InvFault ==
  ASSUME EmailInv, NEW w \in Workers, work[w] # Free, work' = [work EXCEPT ![w] = Free],
         NEW j \in Faults(queue[work[w].id]), Fault(work[w].id, j),
         msg' \in [Keys -> Message], UNCHANGED resends, TypeOK'
  PROVE  EmailInv'
  <1> USE DEF EmailInv, EmailTypeOK
  <1>1. work[w].id \in Jobs
    BY WorkTyped
  <1>2. queue[work[w].id] \in QueueJob
    BY <1>1 DEF JobsHeld, Holding, NoJob
  <1>3. j \in QueueJob \cup {NoJob}
    BY <1>1, <1>2, FaultTyped
  <1>4. givenUp' \subseteq Keys
    BY <1>1, <1>2, GivenUpTyped
  <1>5. /\ work' \in [Workers -> Work \cup {Free}]
        /\ queue' \in [Jobs -> QueueJob \cup {NoJob}]
        /\ JobsHeld'
    BY <1>3, WorkEnded DEF Fault
  <1> QED
    BY <1>4, <1>5

LEMMA InvWriteFailure ==
  ASSUME EmailInv, NEW w \in Workers, WriteFailure(w), TypeOK'
  PROVE  EmailInv'
  <1> DEFINE k == work[w].key
             n == work[w].seen.retryCount + 1
             status == IF Final(n) THEN "Failed" ELSE "QueuedToSend"
             m == [msg[k] EXCEPT !.retryCount = Failures(n), !.status = status]
  <1>1. work[w] # Free /\ EmailTypeOK
    BY NotFree DEF WriteFailure, EmailInv
  <1>2. k \in Keys /\ work[w].seen \in Message /\ msg[k] \in Message
    BY <1>1, WorkTyped DEF EmailTypeOK
  <1>3. n \in Nat
    BY <1>2, EmailAssumption DEF Message
  <1>4. m \in Message
    <2>1. status \in MessageStatuses /\ Failures(n) \in 0 .. MaxRetries
      BY <1>3, FailuresTyped DEF MessageStatuses
    <2> HIDE DEF status, n
    <2> QED
      BY <1>2, <2>1 DEF Message
  <1>5. msg' = [msg EXCEPT ![k] = m]
    BY <1>1, <1>2 DEF WriteFailure, EmailTypeOK
  <1>6. msg' \in [Keys -> Message]
    BY <1>1, <1>4, <1>5 DEF EmailTypeOK
  <1> QED
    BY <1>1, <1>6, InvFault DEF WriteFailure

LEMMA InvThrow ==
  ASSUME EmailInv, NEW w \in Workers, Throw(w) \/ Crash(w), TypeOK'
  PROVE  EmailInv'
  <1>1. work[w] # Free /\ EmailTypeOK /\ work[w].id \in Jobs
    BY NotFree, WorkTyped DEF Throw, Crash, EmailInv, Free
  <1>2. queue[work[w].id] \in QueueJob
    BY <1>1 DEF EmailInv, EmailTypeOK, JobsHeld, Holding, NoJob
  <1>3. /\ work' = [work EXCEPT ![w] = Free] /\ UNCHANGED <<msg, resends>>
        /\ \E j \in Faults(queue[work[w].id]) : Fault(work[w].id, j)
    BY <1>1, <1>2, FaultTyped DEF Throw, Crash
  <1> QED
    BY <1>1, <1>3, InvFault DEF EmailTypeOK

LEMMA InvWorker ==
  ASSUME EmailInv, NEW w \in Workers, EmailWorker(w), TypeOK'
  PROVE  EmailInv'
  <1> USE DEF MessageStatuses
  <1>0. msg \in [Keys -> Message] /\ EmailTypeOK
    BY DEF EmailInv, EmailTypeOK
  <1>1. ASSUME NEW i \in Jobs, Take(w, i)
        PROVE  EmailInv'
    BY <1>1, InvTake
  <1>2. CASE Look(w)
    BY <1>2, InvLook
  <1>3. CASE Settle(w)
    BY <1>3, NotFree, InvAnswer DEF Settle
  <1>4. CASE Wait(w) \/ Delay(w) \/ MarkSending(w)
    <2>1. work[w] # Free /\ work[w].key \in Keys
      BY <1>0, <1>4, NotFree, WorkTyped DEF Wait, Delay, MarkSending
    <2>2. msg' \in [Keys -> Message]
      BY <1>0, <1>4, <2>1, StatusSet DEF Wait, Delay, MarkSending
    <2> QED
      BY <1>4, <2>1, <2>2, InvGoes DEF Wait, Delay, MarkSending
  <1>5. CASE RecoverLease(w)
    BY <1>0, <1>5, NotFree, InvGoes DEF RecoverLease
  <1>6. CASE Resume(w)
    BY <1>6, InvResume
  <1>7. CASE Refuse(w) \/ Reconsider(w) \/ WriteUnknown(w)
    BY <1>7, NotFree, InvAnswer DEF Refuse, Reconsider, WriteUnknown
  <1>8. CASE Requeue(w)
    BY <1>8, InvRequeue
  <1>9. CASE RefuseSend(w)
    BY <1>0, <1>9, NotFree, InvGoes DEF RefuseSend, Unsent
  <1>10. CASE Reserve(w)
    <2>1. work[w] # Free /\ Unsent
      BY <1>10, NotFree DEF Reserve
    <2>2. Goes(w, "executing") \/ Goes(w, "failed") \/ Goes(w, "unknown") \/ Goes(w, "sent")
      BY <1>10 DEF Reserve
    <2> QED
      BY <1>0, <2>1, <2>2, InvGoes DEF Unsent
  <1>11. CASE Dispatch(w)
    BY <1>11 DEF Dispatch, Unsent, EmailInv, EmailTypeOK, JobsHeld, Holding
  <1>12. CASE GiveUp(w) \/ Deliver(w)
    <2>1. work[w] # Free /\ Unsent
      BY <1>12, NotFree DEF GiveUp, Deliver
    <2>2. Goes(w, "failed") \/ Goes(w, "unknown") \/ Goes(w, "sent")
      BY <1>12 DEF GiveUp, Deliver, Outcome
    <2> QED
      BY <1>0, <2>1, <2>2, InvGoes DEF Unsent
  <1>13. CASE WriteSent(w)
    <2>1. work[w] # Free /\ work[w].key \in Keys /\ work[w].seen.version \in Digests
      BY <1>0, <1>13, NotFree, WorkTyped DEF WriteSent
    <2> DEFINE m == [msg[work[w].key] EXCEPT !.status = "Sent", !.version = work[w].seen.version]
    <2>2. m \in Message
      BY <1>0, <2>1 DEF Message
    <2>3. msg' = msg \/ msg' = [msg EXCEPT ![work[w].key] = m]
      BY <1>0, <1>13, <2>1 DEF WriteSent
    <2>4. msg' \in [Keys -> Message]
      BY <1>0, <2>2, <2>3
    <2> QED
      BY <1>13, <2>1, <2>4, InvGoes DEF WriteSent
  <1>14. CASE Record(w)
    <2>1. work[w] # Free
      BY <1>14, NotFree DEF Record
    <2>2. CASE Finish(w)
      <3>1. /\ work' \in [Workers -> Work \cup {Free}]
            /\ queue' \in [Jobs -> QueueJob \cup {NoJob}]
            /\ JobsHeld'
        BY <2>1, <2>2, WorkEnded DEF Finish
      <3> QED
        BY <1>14, <3>1 DEF Record, EmailInv, EmailTypeOK
    <2>3. CASE Goes(w, "failed") /\ queue' = queue
      BY <1>0, <1>14, <2>1, <2>3, InvGoes DEF Record
    <2> QED
      BY <1>14, <2>2, <2>3 DEF Record
  <1>15. CASE WriteFailure(w)
    BY <1>15, InvWriteFailure
  <1>16. CASE Throw(w) \/ Crash(w)
    BY <1>16, InvThrow
  <1> QED
    BY <1>1, <1>2, <1>3, <1>4, <1>5, <1>6, <1>7, <1>8, <1>9, <1>10, <1>11, <1>12, <1>13,
       <1>14, <1>15, <1>16 DEF EmailWorker

LEMMA InvResend ==
  ASSUME EmailInv, TypeOK', NEW k \in Keys, NEW d \in Digests, ResendStep(k, d)
  PROVE  EmailInv'
  <1> USE DEF EmailInv, EmailTypeOK
  <1> DEFINE r == resends[k][d]
  <1>1. \A q \in Resending \cup {None, Over} :
          [resends EXCEPT ![k][d] = q] \in [Keys -> [Digests -> Resending \cup {None, Over}]]
    OBVIOUS
  <1>2. UNCHANGED <<queue, work>> => JobsHeld'
    BY DEF JobsHeld, Holding
  <1>3. CASE ResendRead(k, d)
    <2> DEFINE m == [msg[k] EXCEPT !.opened = FALSE]
               q == [stage |-> "read", seen |-> m]
    <2>1. m \in Message /\ m.status = "Failed"
      BY <1>3 DEF ResendRead, Message
    <2>2. q \in Resending
      BY <2>1 DEF Resending
    <2> QED
      BY <1>1, <1>2, <1>3, <2>2 DEF ResendRead
  <1>4. CASE ResendReserve(k, d)
    <2> DEFINE n == Failures(msg[k].retryCount + 1)
               m == [msg[k] EXCEPT !.status = "DraftReady", !.version = d, !.retryCount = n]
               q == [r EXCEPT !.stage = "reserved"]
    <2>1. msg[k] \in Message /\ msg[k].retryCount + 1 \in Nat
      BY EmailAssumption DEF Message
    <2>2. n \in 0 .. MaxRetries
      BY <2>1, FailuresTyped
    <2>3. m \in Message
      BY <2>1, <2>2 DEF Message, MessageStatuses
    <2>4. q \in Resending
      BY <1>4 DEF ResendReserve, Resending
    <2>5. msg' = [msg EXCEPT ![k] = m] /\ resends' = [resends EXCEPT ![k][d] = q]
      BY <1>4 DEF ResendReserve
    <2> QED
      BY <1>1, <1>2, <1>4, <2>3, <2>4, <2>5 DEF ResendReserve
  <1>5. CASE ResendQueued(k, d)
    <2>1. PICK i \in Jobs : queue[i] = NoJob /\ queue' = [queue EXCEPT ![i] = NewJob("validate", k)]
      BY <1>5 DEF ResendQueued
    <2>2. queue[i].kind # "send" /\ work' = work
      BY <1>5, <2>1 DEF NoJob, ResendQueued
    <2>3. queue' \in [Jobs -> QueueJob \cup {NoJob}] /\ JobsHeld'
      BY <2>1, <2>2, NewJobTyped, PlaceWritten
    <2> QED
      BY <1>1, <1>5, <2>3 DEF ResendQueued
  <1>6. CASE ResendUndone(k, d)
    <2>1. r.seen \in Message /\ msg[k].opened \in BOOLEAN
      BY <1>6 DEF ResendUndone, Reserved, Resending, Message
    <2>2. [r.seen EXCEPT !.opened = msg[k].opened] \in Message
      BY <2>1 DEF Message
    <2>3. msg' \in [Keys -> Message]
      BY <1>6, <2>2 DEF ResendUndone
    <2> QED
      BY <1>1, <1>2, <1>6, <2>3 DEF ResendUndone
  <1>7. CASE ResendLost(k, d)
    BY <1>1, <1>2, <1>7 DEF ResendLost
  <1> QED
    BY <1>3, <1>4, <1>5, <1>6, <1>7 DEF ResendStep

LEMMA EmailInvNext == EmailInv /\ [EmailNext]_evars => EmailInv'
  <1> SUFFICES ASSUME EmailInv, [EmailNext]_evars PROVE EmailInv'
    OBVIOUS
  <1>0. TypeOK'
    BY OutboxTyped DEF EmailInv
  <1>1. CASE UNCHANGED evars
    BY <1>0, <1>1 DEF evars, EmailInv, EmailTypeOK, JobsHeld, Holding
  <1>2. ASSUME NEW i \in Jobs,
               ValidateRead(i) \/ ValidateWrite(i) \/ ValidateAdd(i) \/ ValidateFault(i)
        PROVE  EmailInv'
    BY <1>0, <1>2, InvValidate
  <1>3. ASSUME NEW w \in Workers, EmailWorker(w)
        PROVE  EmailInv'
    BY <1>0, <1>3, InvWorker
  <1>4. ASSUME NEW k \in Keys, NEW d \in Digests, ResendStep(k, d)
        PROVE  EmailInv'
    BY <1>0, <1>4, InvResend
  <1>5. ASSUME NEW k \in Keys, Reconcile(k)
        PROVE  EmailInv'
    <2>1. msg' \in [Keys -> Message]
      BY <1>5, StatusSet DEF Reconcile, EmailInv, MessageStatuses
    <2> QED
      BY <1>0, <1>5, <2>1 DEF Reconcile, EmailInv, EmailTypeOK, JobsHeld, Holding
  <1>6. ASSUME NEW k \in Keys, TrackOpen(k)
        PROVE  EmailInv'
    <2> DEFINE m == [msg[k] EXCEPT !.opened = TRUE, !.status = "Opened"]
    <2>1. msg[k] \in Message /\ msg' = [msg EXCEPT ![k] = m]
      BY <1>6 DEF TrackOpen, EmailInv, EmailTypeOK
    <2>2. m \in Message
      BY <2>1 DEF Message, MessageStatuses
    <2> QED
      BY <1>0, <1>6, <2>1, <2>2 DEF TrackOpen, EmailInv, EmailTypeOK, JobsHeld, Holding
  <1>7. CASE Oversee
    BY <1>0, <1>7 DEF Oversee, Unsent, EmailInv, EmailTypeOK, JobsHeld, Holding
  <1> QED
    BY <1>1, <1>2, <1>3, <1>4, <1>5, <1>6, <1>7 DEF EmailNext

\* Every write of the three processors and of resend() keeps the types, and a
\* worker works on a job of the queue that no other worker has.
THEOREM EmailInvariant == EmailSpec => []EmailInv
  BY EmailInvInit, EmailInvNext, PTL DEF EmailSpec

\* Messages, queue jobs, workers and running resends keep their types.
THEOREM EmailTypeCorrect == EmailSpec => []EmailTypeOK
  <1>1. EmailInv => EmailTypeOK
    BY DEF EmailInv
  <1> QED
    BY <1>1, EmailInvariant, PTL

-----------------------------------------------------------------------------
(* The refinement, and what it brings.                                     *)

\* The e-mail worker, resend() and the reconciliation use the outbox only as
\* Outbox describes it: the detailed system implements the outbox alone.
THEOREM EmailImplementsOutbox == EmailSpec => ImplementsOutbox
  <1>1. EmailInit => Init
    BY DEF EmailInit
  <1>2. EmailTypeOK /\ [EmailNext]_evars => [Next]_vars
    BY StepIsOutboxStep
  <1> QED
    BY <1>1, <1>2, EmailTypeCorrect, PTL DEF EmailSpec, ImplementsOutbox, Spec

\* No campaign message is accepted by the mail provider twice, whatever
\* crashes, resends, second jobs and reconciliations it went through.
THEOREM EmailAtMostOnce == EmailSpec => []AtMostOneAcceptance
  BY EmailImplementsOutbox, AtMostOnce, PTL DEF ImplementsOutbox

-----------------------------------------------------------------------------
(* Sent is attested.  A worker that writes Sent, or is about to, has seen   *)
(* the row SUCCEEDED, and no row leaves SUCCEEDED.                         *)

Done(k) == rows[k].status = "SUCCEEDED"

WorkerKnows(w) ==
  /\ work[w].stage = "sent" => Done(work[w].key)
  /\ work[w].stage = "looked" /\ work[w].row.status = "SUCCEEDED" => Done(work[w].key)
  /\ job[w] # Idle => work[w].stage = "executing" /\ job[w].key = work[w].key

SentInv ==
  /\ SentIsAttested
  /\ \A w \in Workers : WorkerKnows(w)

LEMMA SentInvInit == EmailInit => SentInv
  BY DEF EmailInit, Init, SentInv, SentIsAttested, WorkerKnows, NewMessage, Free, Idle

\* A succeeded row stays so in every step.
LEMMA DoneStays ==
  ASSUME EmailTypeOK, [EmailNext]_evars, NEW k \in Keys, Done(k)
  PROVE  Done(k)'
  <1>1. TypeOK /\ rows[k].status \in Closed
    BY DEF EmailTypeOK, Done, Closed
  <1>2. CASE Next
    BY <1>1, <1>2, ClosedStep DEF Done
  <1>3. CASE UNCHANGED vars
    BY <1>3 DEF vars, Done
  <1> QED
    BY <1>2, <1>3, StepIsOutboxStep

\* What the others know stays true when one worker moves.
LEMMA OthersKnow ==
  ASSUME EmailTypeOK, SentInv, [EmailNext]_evars, NEW v \in Workers,
         work'[v] = work[v], job'[v] = job[v]
  PROVE  WorkerKnows(v)'
  <1>1. WorkerKnows(v)
    BY DEF SentInv
  <1>2. work[v] # Free => work[v].key \in Keys
    BY WorkTyped
  <1>3. work[v] # Free /\ Done(work[v].key) => Done(work[v].key)'
    BY <1>2, DoneStays
  <1>4. work[v] = Free => work[v].stage = "free"
    BY DEF Free
  <1>5. work[v].stage \in {"sent", "looked"} => work[v] # Free
    BY <1>4
  <1>6. Done(work[v].key)' <=> rows'[work'[v].key].status = "SUCCEEDED"
    BY DEF Done
  <1> QED
    BY <1>1, <1>3, <1>5, <1>6 DEF WorkerKnows, Done

\* A message that is Sent stays attested while its status is left alone, or
\* set to something else.
LEMMA SentKept ==
  ASSUME EmailTypeOK, SentInv, [EmailNext]_evars, NEW k \in Keys,
         msg'[k].status = msg[k].status \/ msg'[k].status # "Sent"
  PROVE  msg'[k].status = "Sent" => rows'[k].status = "SUCCEEDED"
  BY DoneStays DEF SentInv, SentIsAttested, Done

\* A worker writes its own place in memory and in the outbox.
LEMMA MovesAlone ==
  ASSUME EmailTypeOK, NEW w \in Workers, EmailWorker(w), NEW v \in Workers, v # w
  PROVE  work'[v] = work[v] /\ job'[v] = job[v]
  <1>1. work \in [Workers -> Work \cup {Free}] /\ job \in [Workers -> Job \cup {Idle}]
    BY DEF EmailTypeOK, TypeOK
  <1>2. ASSUME NEW i \in Jobs, Take(w, i)
        PROVE  work'[v] = work[v] /\ job'[v] = job[v]
    BY <1>1, <1>2 DEF Take, vars
  <1>3. CASE Look(w) \/ Settle(w) \/ Wait(w) \/ RecoverLease(w) \/ Resume(w) \/ Refuse(w)
    BY <1>1, <1>3 DEF Look, Settle, Wait, RecoverLease, Resume, Refuse, Answer, Goes, vars
  <1>4. CASE Reconsider(w) \/ Delay(w) \/ Requeue(w) \/ MarkSending(w) \/ RefuseSend(w)
    BY <1>1, <1>4 DEF Reconsider, Delay, Requeue, MarkSending, RefuseSend, Answer, Goes, vars
  <1>5. CASE Reserve(w)
    <2>1. \/ \E k, d : ReserveNew(w, k, d)
          \/ \E k : ReserveReplay(w, k) \/ ReserveLostRace(w, k) \/ ReserveLapsed(k) \/ ReserveExpired(k)
          \/ UNCHANGED vars
      BY <1>5, NotFree, WorkTyped DEF Reserve
    <2>2. job'[v] = job[v]
      BY <1>1, <2>1
      DEF ReserveNew, ReserveReplay, ReserveLostRace, ReserveLapsed, ReserveExpired, Hold, vars
    <2> QED
      BY <1>1, <1>5, <2>2 DEF Reserve, Goes
  <1>6. CASE Dispatch(w)
    BY <1>1, <1>6 DEF Dispatch, Claim
  <1>7. CASE GiveUp(w)
    BY <1>1, <1>7 DEF GiveUp, LoseClaim, Exhaust, Abandon, Goes
  <1>8. CASE Deliver(w)
    BY <1>1, <1>8 DEF Deliver, Complete, Reject, Ambiguous, Goes
  <1>9. CASE WriteSent(w) \/ Record(w) \/ WriteUnknown(w) \/ WriteFailure(w) \/ Throw(w)
    BY <1>1, <1>9 DEF WriteSent, Record, WriteUnknown, WriteFailure, Throw, Answer, Finish, Goes, vars
  <1>10. CASE Crash(w)
    BY <1>1, <1>10 DEF Crash
  <1> QED
    BY <1>2, <1>3, <1>4, <1>5, <1>6, <1>7, <1>8, <1>9, <1>10 DEF EmailWorker

\* A worker whose new stage is neither sent, looked nor executing has nothing
\* to know, if its execution of the outbox is over.
LEMMA NothingToKnow ==
  ASSUME NEW w \in Workers, job'[w] = Idle, work'[w].stage \notin {"sent", "looked"}
  PROVE  WorkerKnows(w)'
  BY DEF WorkerKnows

\* Where Goes leads.
LEMMA GoesTo ==
  ASSUME EmailTypeOK, NEW w \in Workers, NEW stage, work[w] # Free, Goes(w, stage)
  PROVE  /\ work'[w].stage = stage
         /\ work'[w].key = work[w].key
         /\ work'[w].row = work[w].row
  <1>1. work[w] \in Work
    BY WorkTyped
  <1>2. work'[w] = [work[w] EXCEPT !.stage = stage]
    BY DEF EmailTypeOK, Goes
  <1> QED
    BY <1>1, <1>2 DEF Work

LEMMA MoverReserves ==
  ASSUME EmailTypeOK, SentInv, NEW w \in Workers, Reserve(w)
  PROVE  WorkerKnows(w)'
  <1> DEFINE k == work[w].key
  <1>1. /\ job \in [Workers -> Job \cup {Idle}]
        /\ rows \in [Keys -> Row]
    BY DEF EmailTypeOK, TypeOK
  <1>2. work[w] # Free /\ k \in Keys
    BY NotFree, WorkTyped DEF Reserve
  <1>3. job[w] = Idle
    BY DEF SentInv, WorkerKnows, Reserve
  <1>4. \/ /\ Goes(w, "executing")
           /\ \/ ReserveNew(w, k, work[w].seen.version)
              \/ ReserveReplay(w, k)
              \/ ReserveLostRace(w, k)
        \/ /\ Goes(w, "failed") \/ Goes(w, "unknown")
           /\ UNCHANGED job
        \/ Goes(w, "sent") /\ UNCHANGED vars /\ Done(k)
    BY DEF Reserve, ReserveLapsed, ReserveExpired, vars, Done
  <1>5. CASE /\ Goes(w, "executing")
             /\ \/ ReserveNew(w, k, work[w].seen.version)
                \/ ReserveReplay(w, k)
                \/ ReserveLostRace(w, k)
    <2>1. PICK r : Hold(w, k, r)
      BY <1>5 DEF ReserveNew, ReserveReplay, ReserveLostRace
    <2>2. job'[w].key = k
      BY <1>1, <2>1 DEF Hold
    <2>3. work'[w].stage = "executing" /\ work'[w].key = k
      BY <1>2, <1>5, GoesTo
    <2> QED
      BY <2>2, <2>3 DEF WorkerKnows
  <1>6. CASE (Goes(w, "failed") \/ Goes(w, "unknown")) /\ UNCHANGED job
    <2>1. work'[w].stage \in {"failed", "unknown"}
      BY <1>2, <1>6, GoesTo
    <2> QED
      BY <1>3, <1>6, <2>1, NothingToKnow
  <1>7. CASE Goes(w, "sent") /\ UNCHANGED vars /\ Done(k)
    <2>1. work'[w].stage = "sent" /\ work'[w].key = k
      BY <1>2, <1>7, GoesTo
    <2> QED
      BY <1>3, <1>7, <2>1 DEF WorkerKnows, Done, vars
  <1> QED
    BY <1>4, <1>5, <1>6, <1>7

\* The answer "sent" of execute() follows its own fenced write, or a claim
\* that found the row succeeded.
LEMMA MoverDelivers ==
  ASSUME EmailTypeOK, SentInv, NEW w \in Workers, GiveUp(w) \/ Deliver(w)
  PROVE  WorkerKnows(w)'
  <1> DEFINE k == work[w].key
  <1>1. /\ job \in [Workers -> Job \cup {Idle}]
        /\ rows \in [Keys -> Row]
    BY DEF EmailTypeOK, TypeOK
  <1>2. work[w] # Free /\ k \in Keys
    BY NotFree, WorkTyped DEF GiveUp, Deliver
  <1>3. job[w] # Idle
    BY DEF GiveUp, Deliver, LoseClaim, Exhaust, Abandon, Complete, Reject, Ambiguous
  <1>4. job[w].key = k
    BY <1>3 DEF SentInv, WorkerKnows
  <1>5. job'[w] = Idle
    BY <1>1 DEF GiveUp, Deliver, LoseClaim, Exhaust, Abandon, Complete, Reject, Ambiguous
  <1>6. CASE Goes(w, "failed") \/ Goes(w, "unknown")
    <2>1. work'[w].stage \in {"failed", "unknown"}
      BY <1>2, <1>6, GoesTo
    <2> QED
      BY <1>5, <2>1, NothingToKnow
  <1>7. CASE Goes(w, "sent")
    <2>1. work'[w].stage = "sent" /\ work'[w].key = k
      BY <1>2, <1>7, GoesTo
    <2>2. rows'[k].status = "SUCCEEDED"
      <3>1. CASE GiveUp(w)
        <4>1. work'[w].stage = "sent" => ~Goes(w, "failed")
          BY <1>2, GoesTo
        <4>2. rows[k].status = "SUCCEEDED" /\ rows' = rows
          BY <1>4, <2>1, <3>1, <4>1 DEF GiveUp, Abandon
        <4> QED
          BY <4>2
      <3>2. CASE Deliver(w)
        <4>1. ~Goes(w, "failed") /\ ~Goes(w, "unknown")
          BY <1>2, <2>1, GoesTo
        <4>2. Complete(w) /\ Goes(w, Outcome(w))
          BY <3>2, <4>1 DEF Deliver
        <4>3. Owns(w) /\ ~ReceiptTaken(k, <<k, Version(w)>>)
          BY <1>4, <4>1, <4>2 DEF Outcome
        <4>4. rows' = [rows EXCEPT ![k] = [Release(rows[k]) EXCEPT !.status = "SUCCEEDED",
                                                                   !.receipt = <<k, Version(w)>>]]
          BY <1>4, <4>2, <4>3 DEF Complete
        <4>5. rows[k] \in Row
          BY <1>1, <1>2
        <4>6. Release(rows[k]) \in Row
          BY <4>5 DEF Release, Row
        <4>7. rows'[k] = [Release(rows[k]) EXCEPT !.status = "SUCCEEDED",
                                                  !.receipt = <<k, Version(w)>>]
          BY <1>1, <1>2, <4>4
        <4> QED
          BY <4>6, <4>7 DEF Row
      <3> QED
        BY <3>1, <3>2
    <2> QED
      BY <1>5, <2>1, <2>2 DEF WorkerKnows, Done
  <1> QED
    BY <1>6, <1>7 DEF GiveUp, Deliver, Outcome

\* The worker that moves knows what it has to know.
LEMMA MoverKnows ==
  ASSUME EmailTypeOK, SentInv, NEW w \in Workers, EmailWorker(w), [EmailNext]_evars
  PROVE  WorkerKnows(w)'
  <1>1. /\ work \in [Workers -> Work \cup {Free}] /\ job \in [Workers -> Job \cup {Idle}]
        /\ rows \in [Keys -> Row]
    BY DEF EmailTypeOK, TypeOK
  <1>2. work[w].stage # "executing" => job[w] = Idle
    BY DEF SentInv, WorkerKnows
  <1>3. ASSUME work'[w] = Free, job'[w] = Idle
        PROVE  WorkerKnows(w)'
    BY <1>3, NothingToKnow DEF Free
  <1>4. ASSUME NEW i \in Jobs, Take(w, i)
        PROVE  WorkerKnows(w)'
    <2>1. job'[w] = Idle
      BY <1>2, <1>4 DEF Take, Free, vars
    <2>2. work'[w].stage \in {"free", "taken"}
      BY <1>1, <1>4 DEF Take, Free
    <2> QED
      BY <2>1, <2>2, NothingToKnow
  <1>5. CASE Look(w)
    <2>1. work[w] # Free /\ work[w] \in Work
      BY <1>5, NotFree, WorkTyped DEF Look
    <2>2. work'[w] = [work[w] EXCEPT !.stage = "looked", !.row = rows[work[w].key]]
      BY <1>1, <1>5 DEF Look
    <2>3. work'[w].stage = "looked" /\ work'[w].key = work[w].key /\ work'[w].row = rows[work[w].key]
      BY <2>1, <2>2 DEF Work
    <2>4. job'[w] = Idle /\ rows' = rows
      BY <1>2, <1>5 DEF Look, vars
    <2> QED
      BY <2>3, <2>4 DEF WorkerKnows, Done
  <1>6. CASE \/ Settle(w) \/ Refuse(w) \/ Reconsider(w) \/ WriteUnknown(w) \/ Requeue(w)
             \/ WriteFailure(w) \/ Throw(w)
    <2>1. work'[w] = Free
      BY <1>1, <1>6 DEF Settle, Refuse, Reconsider, WriteUnknown, Requeue, WriteFailure, Throw, Answer
    <2>2. job'[w] = Idle
      BY <1>2, <1>6
      DEF Settle, Refuse, Reconsider, WriteUnknown, Requeue, WriteFailure, Throw, Answer, vars
    <2> QED
      BY <1>3, <2>1, <2>2
  <1>7. CASE Wait(w) \/ Delay(w) \/ MarkSending(w) \/ RecoverLease(w) \/ RefuseSend(w) \/ WriteSent(w)
    <2>1. work[w] # Free
      BY <1>7, NotFree DEF Wait, Delay, MarkSending, RecoverLease, RefuseSend, WriteSent
    <2>2. work'[w].stage \in {"requeue", "sending", "unknown", "failed", "recorded"}
      BY <1>7, <2>1, GoesTo DEF Wait, Delay, MarkSending, RecoverLease, RefuseSend, WriteSent
    <2>3. job'[w] = Idle
      BY <1>2, <1>7 DEF Wait, Delay, MarkSending, RecoverLease, RefuseSend, WriteSent, vars
    <2> QED
      BY <2>2, <2>3, NothingToKnow
  <1>8. CASE Resume(w)
    <2>1. work[w] # Free /\ work[w] \in Work
      BY <1>8, NotFree, WorkTyped DEF Resume
    <2>2. work'[w].stage = "cleared"
      BY <1>1, <1>8, <2>1 DEF Resume, Work
    <2>3. job'[w] = Idle
      BY <1>2, <1>8 DEF Resume, vars
    <2> QED
      BY <2>2, <2>3, NothingToKnow
  <1>9. CASE Reserve(w)
    BY <1>9, MoverReserves
  <1>10. CASE Dispatch(w)
    <2>1. job[w] # Idle /\ job[w] \in Job
      BY <1>10, JobTyped DEF Dispatch, Claim, EmailTypeOK
    <2>2. job'[w].key = job[w].key /\ work' = work
      BY <1>1, <1>10, <2>1 DEF Dispatch, Claim, Job
    <2> QED
      BY <1>10, <2>1, <2>2 DEF Dispatch, WorkerKnows, SentInv
  <1>11. CASE GiveUp(w) \/ Deliver(w)
    BY <1>11, MoverDelivers
  <1>12. CASE Record(w)
    <2>1. work[w] # Free
      BY <1>12, NotFree DEF Record
    <2>2. job'[w] = Idle
      BY <1>2, <1>12 DEF Record, vars
    <2>3. work'[w].stage \in {"free", "failed"}
      BY <1>1, <1>12, <2>1, GoesTo DEF Record, Finish, Free
    <2> QED
      BY <2>2, <2>3, NothingToKnow
  <1>13. CASE Crash(w)
    BY <1>1, <1>3, <1>13 DEF Crash
  <1> QED
    BY <1>4, <1>5, <1>6, <1>7, <1>8, <1>9, <1>10, <1>11, <1>12, <1>13 DEF EmailWorker

\* A message whose status a step sets to another value than Sent.
LEMMA OtherStatus ==
  ASSUME EmailTypeOK, SentInv, [EmailNext]_evars, NEW k \in Keys, NEW m \in Message,
         m.status # "Sent" \/ m.status = msg[k].status, msg' = [msg EXCEPT ![k] = m]
  PROVE  SentIsAttested'
  <1> SUFFICES ASSUME NEW j \in Keys
               PROVE  msg'[j].status = "Sent" => rows'[j].status = "SUCCEEDED"
    BY DEF SentIsAttested
  <1>1. msg'[j].status = msg[j].status \/ msg'[j].status # "Sent"
    BY DEF EmailTypeOK
  <1> QED
    BY <1>1, SentKept

LEMMA SameMessages ==
  ASSUME EmailTypeOK, SentInv, [EmailNext]_evars, UNCHANGED msg
  PROVE  SentIsAttested'
  BY SentKept DEF SentIsAttested

LEMMA StatusOther ==
  ASSUME EmailTypeOK, SentInv, [EmailNext]_evars, NEW k \in Keys,
         NEW status \in MessageStatuses \ {"Sent"}, SetStatus(k, status)
  PROVE  SentIsAttested'
  <1> DEFINE m == [msg[k] EXCEPT !.status = status]
  <1>1. msg[k] \in Message /\ msg' = [msg EXCEPT ![k] = m]
    BY DEF EmailTypeOK, SetStatus
  <1>2. m \in Message /\ m.status # "Sent"
    BY <1>1 DEF Message
  <1> QED
    BY <1>1, <1>2, OtherStatus

\* Writing Sent is safe when the row is SUCCEEDED.
LEMMA SentWritten ==
  ASSUME EmailTypeOK, SentInv, [EmailNext]_evars, NEW k \in Keys, NEW m,
         Done(k)', msg' = [msg EXCEPT ![k] = m]
  PROVE  SentIsAttested'
  <1> SUFFICES ASSUME NEW j \in Keys
               PROVE  msg'[j].status = "Sent" => rows'[j].status = "SUCCEEDED"
    BY DEF SentIsAttested
  <1>1. CASE j = k
    BY <1>1 DEF Done
  <1>2. CASE j # k
    BY <1>2, SentKept DEF EmailTypeOK
  <1> QED
    BY <1>1, <1>2

LEMMA AttestedWorker ==
  ASSUME EmailTypeOK, SentInv, [EmailNext]_evars, NEW w \in Workers, EmailWorker(w)
  PROVE  SentIsAttested'
  <1> USE DEF MessageStatuses
  <1>1. ASSUME NEW i \in Jobs, Take(w, i)
        PROVE  SentIsAttested'
    BY <1>1, SameMessages DEF Take
  <1>2. CASE Look(w) \/ RecoverLease(w) \/ Requeue(w) \/ RefuseSend(w) \/ Reserve(w) \/ Dispatch(w)
    BY <1>2, SameMessages DEF Look, RecoverLease, Requeue, RefuseSend, Reserve, Dispatch, Unsent
  <1>3. CASE GiveUp(w) \/ Deliver(w) \/ Record(w) \/ Throw(w) \/ Crash(w)
    BY <1>3, SameMessages DEF GiveUp, Deliver, Record, Throw, Crash, Unsent
  <1>4. CASE Settle(w)
    <2>1. work[w].key \in Keys
      BY <1>4, NotFree, WorkTyped DEF Settle
    <2>2. CASE work[w].row.status = "SUCCEEDED" /\ Answer(w, "Sent")
      <3>1. PICK k \in Keys : k = work[w].key
        BY <2>1
      <3>2. Done(k)
        BY <1>4, <2>2, <3>1 DEF Settle, SentInv, WorkerKnows
      <3>3. Done(k)'
        BY <3>2, DoneStays
      <3> QED
        BY <2>2, <3>1, <3>3, SentWritten DEF Answer, WriteAndLeave, SetStatus
    <2>3. CASE Answer(w, "Failed") \/ Answer(w, "Blocked")
      BY <2>1, <2>3, StatusOther DEF Answer, WriteAndLeave
    <2> QED
      BY <1>4, <2>2, <2>3 DEF Settle
  <1>5. CASE Wait(w) \/ Delay(w) \/ MarkSending(w)
    <2>1. work[w].key \in Keys
      BY <1>5, NotFree, WorkTyped DEF Wait, Delay, MarkSending
    <2> QED
      BY <1>5, <2>1, StatusOther DEF Wait, Delay, MarkSending
  <1>6. CASE Resume(w)
    <2>1. work[w].key \in Keys
      BY <1>6, NotFree, WorkTyped DEF Resume
    <2> QED
      BY <1>6, <2>1, SameMessages, StatusOther DEF Resume
  <1>7. CASE Refuse(w) \/ Reconsider(w) \/ WriteUnknown(w)
    <2>1. work[w].key \in Keys
      BY <1>7, NotFree, WorkTyped DEF Refuse, Reconsider, WriteUnknown
    <2> QED
      BY <1>7, <2>1, StatusOther DEF Refuse, Reconsider, WriteUnknown, Answer, WriteAndLeave
  <1>8. CASE WriteSent(w)
    <2>1. work[w].key \in Keys
      BY <1>8, NotFree, WorkTyped DEF WriteSent
    <2>2. PICK k \in Keys : k = work[w].key
      BY <2>1
    <2>3. Done(k)
      BY <1>8, <2>2 DEF WriteSent, SentInv, WorkerKnows
    <2>4. Done(k)'
      BY <2>3, DoneStays
    <2> DEFINE m == [msg[k] EXCEPT !.status = "Sent", !.version = work[w].seen.version]
    <2>5. msg' = msg \/ msg' = [msg EXCEPT ![k] = m]
      BY <1>8, <2>2 DEF WriteSent, EmailTypeOK
    <2> QED
      BY <2>4, <2>5, SentWritten, SameMessages
  <1>9. CASE WriteFailure(w)
    <2> DEFINE k == work[w].key
               n == work[w].seen.retryCount + 1
    <2>1. k \in Keys
      BY <1>9, NotFree, WorkTyped DEF WriteFailure
    <2>2. msg[k] \in Message
      BY <2>1 DEF EmailTypeOK
    <2>3. /\ msg'[k].status \in {"Failed", "QueuedToSend"}
          /\ \A j \in Keys \ {k} : msg'[j] = msg[j]
      BY <1>9, <2>1, <2>2 DEF WriteFailure, EmailTypeOK, Message
    <2> QED
      BY <2>3, SentKept DEF SentIsAttested
  <1> QED
    BY <1>1, <1>2, <1>3, <1>4, <1>5, <1>6, <1>7, <1>8, <1>9 DEF EmailWorker

LEMMA SentInvNext == EmailTypeOK /\ SentInv /\ [EmailNext]_evars => SentInv'
  <1> SUFFICES ASSUME EmailTypeOK, SentInv, [EmailNext]_evars PROVE SentInv'
    OBVIOUS
  <1>0. ASSUME UNCHANGED <<work, job>>
        PROVE  \A w \in Workers : WorkerKnows(w)'
    BY <1>0, OthersKnow
  <1>1. SentIsAttested'
    <2>1. CASE UNCHANGED evars
      BY <2>1, SameMessages DEF evars
    <2>2. ASSUME NEW i \in Jobs,
                 ValidateRead(i) \/ ValidateWrite(i) \/ ValidateAdd(i) \/ ValidateFault(i)
          PROVE  SentIsAttested'
      <3>1. CASE ValidateWrite(i)
        <4>1. queue[i].key \in Keys
          BY <3>1 DEF ValidateWrite, EmailTypeOK, NoJob, QueueJob
        <4>2. /\ msg'[queue[i].key].status \in {"QueuedToSend", "Failed"}
              /\ \A j \in Keys \ {queue[i].key} : msg'[j] = msg[j]
          BY <3>1, <4>1 DEF ValidateWrite, WriteAndLeave, SetStatus, EmailTypeOK, Message
        <4> QED
          BY <4>2, SentKept DEF SentIsAttested
      <3>2. CASE ValidateRead(i) \/ ValidateAdd(i) \/ ValidateFault(i)
        BY <3>2, SameMessages DEF ValidateRead, ValidateAdd, ValidateFault
      <3> QED
        BY <2>2, <3>1, <3>2
    <2>3. ASSUME NEW w \in Workers, EmailWorker(w)
          PROVE  SentIsAttested'
      BY <2>3, AttestedWorker
    <2>4. ASSUME NEW k \in Keys, NEW d \in Digests, ResendStep(k, d)
          PROVE  SentIsAttested'
      <3>1. CASE ResendRead(k, d) \/ ResendQueued(k, d) \/ ResendLost(k, d)
        BY <3>1, SameMessages DEF ResendRead, ResendQueued, ResendLost
      <3>2. CASE ResendReserve(k, d)
        <4>1. /\ msg'[k].status = "DraftReady"
              /\ \A j \in Keys \ {k} : msg'[j] = msg[j]
          BY <3>2 DEF ResendReserve, EmailTypeOK, Message
        <4> QED
          BY <4>1, SentKept DEF SentIsAttested
      <3>3. CASE ResendUndone(k, d)
        <4>1. resends[k][d].seen.status = "Failed" /\ resends[k][d].seen \in Message
          BY <3>3 DEF ResendUndone, Reserved, Resending
        <4>2. msg' = msg \/ /\ msg'[k].status = "Failed"
                            /\ \A j \in Keys \ {k} : msg'[j] = msg[j]
          BY <3>3, <4>1 DEF ResendUndone, EmailTypeOK, Message
        <4> QED
          BY <4>2, SameMessages, SentKept DEF SentIsAttested
      <3> QED
        BY <2>4, <3>1, <3>2, <3>3 DEF ResendStep
    <2>5. ASSUME NEW k \in Keys, Reconcile(k)
          PROVE  SentIsAttested'
      <3>1. CASE SetStatus(k, "Blocked")
        BY <3>1, StatusOther DEF MessageStatuses
      <3>2. ASSUME NEW v \in Attempts, ReconcileSucceeded(k, <<k, v>>), SetStatus(k, "Sent")
            PROVE  SentIsAttested'
        <4>1. Done(k)'
          BY <3>2 DEF ReconcileSucceeded, Done, EmailTypeOK, TypeOK, Row
        <4> QED
          BY <3>2, <4>1, SentWritten DEF SetStatus
      <3> QED
        BY <2>5, <3>1, <3>2 DEF Reconcile
    <2>6. ASSUME NEW k \in Keys, TrackOpen(k)
          PROVE  SentIsAttested'
      <3>1. /\ msg'[k].status = "Opened"
            /\ \A j \in Keys \ {k} : msg'[j] = msg[j]
        BY <2>6 DEF TrackOpen, EmailTypeOK, Message
      <3> QED
        BY <3>1, SentKept DEF SentIsAttested
    <2>7. CASE Oversee
      BY <2>7, SameMessages DEF Oversee, Unsent
    <2> QED
      BY <2>1, <2>2, <2>3, <2>4, <2>5, <2>6, <2>7 DEF EmailNext
  <1>2. \A w \in Workers : WorkerKnows(w)'
    <2>1. CASE UNCHANGED evars
      BY <1>0, <2>1 DEF evars, vars
    <2>2. ASSUME NEW i \in Jobs,
                 ValidateRead(i) \/ ValidateWrite(i) \/ ValidateAdd(i) \/ ValidateFault(i)
          PROVE  UNCHANGED <<work, job>>
      BY <2>2 DEF ValidateRead, ValidateWrite, ValidateAdd, ValidateFault, vars
    <2>3. ASSUME NEW w \in Workers, EmailWorker(w), NEW v \in Workers
          PROVE  WorkerKnows(v)'
      BY <2>3, MoverKnows, MovesAlone, OthersKnow
    <2>4. ASSUME NEW k \in Keys, TrackOpen(k) \/ \E d \in Digests : ResendStep(k, d)
          PROVE  UNCHANGED <<work, job>>
      BY <2>4 DEF ResendStep, ResendRead, ResendReserve, ResendQueued, ResendUndone, ResendLost,
           TrackOpen, vars
    <2>5. ASSUME NEW k \in Keys, Reconcile(k)
          PROVE  UNCHANGED <<work, job>>
      BY <2>5 DEF Reconcile, ReconcileSucceeded, ReconcileFailed, ReconcileCancelled
    <2>6. CASE Oversee
      BY <1>0, <2>6 DEF Oversee, Cancel, ProviderDecides, RecoverStaleExecuting, Tick
    <2> QED
      BY <1>0, <2>1, <2>2, <2>3, <2>4, <2>5, <2>6 DEF EmailNext
  <1> QED
    BY <1>1, <1>2 DEF SentInv

\* A message shown as Sent has been sent, although the worker, resend(), the
\* validation, the reconciliation and the pixel all write its status by id.
THEOREM SentAttested == EmailSpec => []SentIsAttested
  <1>1. SentInv => SentIsAttested
    BY DEF SentInv
  <1> QED
    BY <1>1, SentInvInit, SentInvNext, EmailTypeCorrect, PTL DEF EmailSpec

-----------------------------------------------------------------------------
(* No message is stranded by a worker that returns.  Only a worker that has *)
(* recorded Sent returns without looking at the message again, so another   *)
(* job has to go on with a message that came to wait meanwhile.             *)

IsJob(i, k) == queue[i] # NoJob /\ queue[i].key = k

Waiting(k) == msg[k].status \in AwaitsJob

\* The job of a worker that has recorded Sent.
Recorded(i) == \E w \in Workers : work[w].stage = "recorded" /\ work[w].id = i

Carries(i, k) == IsJob(i, k) /\ ~Recorded(i)

StandInv == \A k \in Keys \ givenUp : Waiting(k) => \E i \in Jobs : Carries(i, k)

NInv == EmailInv /\ StandInv

LEMMA StandInvInit == EmailInit => StandInv
  BY DEF EmailInit, StandInv, Waiting, AwaitsJob, NewMessage

\* The job of a busy worker is in the queue and is its message's; a validation
\* job is no worker's.
LEMMA OwnJob ==
  ASSUME EmailInv, NEW w \in Workers, work[w] # Free
  PROVE  /\ work[w].id \in Jobs /\ work[w].key \in Keys
         /\ queue[work[w].id] \in QueueJob
         /\ IsJob(work[w].id, work[w].key)
         /\ work[w].stage # "recorded" => ~Recorded(work[w].id)
  <1>1. work[w].id \in Jobs /\ work[w].key \in Keys
    BY WorkTyped DEF EmailInv
  <1>2. queue[work[w].id] \in QueueJob /\ IsJob(work[w].id, work[w].key)
    BY <1>1 DEF EmailInv, EmailTypeOK, JobsHeld, Holding, IsJob, NoJob
  <1>3. ASSUME work[w].stage # "recorded" PROVE ~Recorded(work[w].id)
    BY <1>3 DEF EmailInv, JobsHeld, Recorded, Free
  <1> QED
    BY <1>1, <1>2, <1>3

LEMMA HeldBySome ==
  ASSUME EmailInv, NEW i \in Jobs, Recorded(i)
  PROVE  queue[i].kind = "send" /\ queue[i].state = "active"
  BY DEF EmailInv, JobsHeld, Holding, Recorded, Free

\* A step about one message and one job: it leaves the other messages and their
\* jobs alone, and its own message is left with a job that goes on.
LEMMA Stands ==
  ASSUME StandInv, NEW k \in Keys, NEW i \in Jobs, queue[i] = NoJob \/ queue[i].key = k,
         \A m \in Keys \ {k} : msg'[m].status = msg[m].status,
         \A h \in Jobs \ {i} : queue'[h] = queue[h] \/ queue[h] = NoJob,
         \A h \in Jobs \ {i} : Recorded(h)' => Recorded(h),
         givenUp \subseteq givenUp',
         Waiting(k)' /\ k \notin givenUp' => \E h \in Jobs : Carries(h, k)'
  PROVE  StandInv'
  <1> SUFFICES ASSUME NEW m \in Keys \ givenUp', m # k, Waiting(m)'
               PROVE  \E h \in Jobs : Carries(h, m)'
    BY DEF StandInv
  <1>1. PICK h \in Jobs : IsJob(h, m) /\ ~Recorded(h)
    BY DEF StandInv, Carries, Waiting
  <1>2. h # i
    BY <1>1 DEF IsJob
  <1>3. queue'[h] = queue[h] /\ ~Recorded(h)'
    BY <1>1, <1>2 DEF IsJob
  <1> QED
    BY <1>1, <1>3 DEF Carries, IsJob

\* A worker that goes on keeps its job, which goes on with its message unless
\* the worker records Sent.
LEMMA MoverStands ==
  ASSUME NInv, NEW w \in Workers, work[w] # Free,
         NEW q, work' = [work EXCEPT ![w] = q], q.id = work[w].id, q.key = work[w].key,
         UNCHANGED <<queue, givenUp>>,
         \A m \in Keys \ {work[w].key} : msg'[m].status = msg[m].status,
         q.stage # "recorded" \/ ~Waiting(work[w].key)'
  PROVE  StandInv'
  <1>1. PICK k \in Keys, i \in Jobs : k = work[w].key /\ i = work[w].id /\ IsJob(i, k)
    BY OwnJob DEF NInv
  <1>2. \A v \in Workers : work'[v] = IF v = w THEN q ELSE work[v]
    BY DEF NInv, EmailInv, EmailTypeOK
  <1>3. \A h \in Jobs \ {i} : Recorded(h)' => Recorded(h)
    BY <1>1, <1>2 DEF Recorded
  <1>4. ASSUME Waiting(k)' PROVE Carries(i, k)'
    <2>1. q.stage # "recorded"
      BY <1>1, <1>2, <1>4 DEF Waiting
    <2>2. \A v \in Workers : v # w /\ work[v] # Free => work[v].id # i
      BY <1>1 DEF NInv, EmailInv, JobsHeld
    <2>3. ~Recorded(i)'
      BY <1>2, <2>1, <2>2 DEF Recorded, Free
    <2> QED
      BY <1>1, <2>3 DEF Carries, IsJob
  <1> QED
    BY <1>1, <1>3, <1>4, Stands DEF NInv, IsJob

LEMMA StageStands ==
  ASSUME NInv, NEW w \in Workers, work[w] # Free, NEW stage, Goes(w, stage),
         UNCHANGED <<queue, givenUp>>,
         \A m \in Keys \ {work[w].key} : msg'[m].status = msg[m].status,
         stage # "recorded" \/ ~Waiting(work[w].key)'
  PROVE  StandInv'
  <1> DEFINE q == [work[w] EXCEPT !.stage = stage]
  <1>1. work[w] \in Work /\ EmailTypeOK
    BY WorkTyped DEF NInv, EmailInv
  <1>2. /\ work' = [work EXCEPT ![w] = q]
        /\ q.stage = stage /\ q.id = work[w].id /\ q.key = work[w].key
    BY <1>1 DEF Goes, Work, EmailTypeOK
  <1> HIDE DEF q
  <1> QED
    BY <1>2, MoverStands

\* A worker ends: its message waits no more, or has a job that goes on.
LEMMA EndStands ==
  ASSUME NInv, NEW w \in Workers, work[w] # Free, work' = [work EXCEPT ![w] = Free],
         NEW k \in Keys, k = work[w].key, NEW i \in Jobs, i = work[w].id,
         \A m \in Keys \ {k} : msg'[m].status = msg[m].status,
         \A h \in Jobs \ {i} : queue'[h] = queue[h] \/ queue[h] = NoJob,
         givenUp \subseteq givenUp',
         Waiting(k)' /\ k \notin givenUp' =>
           \E h \in Jobs : IsJob(h, k)' /\ (h = i \/ ~Recorded(h))
  PROVE  StandInv'
  <1>1. IsJob(i, k)
    BY OwnJob DEF NInv
  <1>2. \A v \in Workers : work'[v] = IF v = w THEN Free ELSE work[v]
    BY DEF NInv, EmailInv, EmailTypeOK
  <1>3. \A h \in Jobs : Recorded(h)' => Recorded(h)
    BY <1>2 DEF Recorded, Free
  <1>4. \A v \in Workers : v # w /\ work[v] # Free => work[v].id # i
    BY DEF NInv, EmailInv, JobsHeld
  <1>5. ~Recorded(i)'
    BY <1>2, <1>4 DEF Recorded, Free
  <1> QED
    BY <1>1, <1>3, <1>5, Stands DEF NInv, IsJob, Carries

\* What a step that sets the status of a message leaves of the others.
LEMMA OthersWait ==
  ASSUME EmailTypeOK, NEW k \in Keys, NEW status, SetStatus(k, status)
  PROVE  /\ \A m \in Keys \ {k} : msg'[m].status = msg[m].status
         /\ msg'[k].status = status
  BY DEF SetStatus, EmailTypeOK, Message

LEMMA AnswerStands ==
  ASSUME NInv, NEW w \in Workers, work[w] # Free,
         NEW status \in {"Sent", "Failed", "Blocked", "Skipped"}, Answer(w, status)
  PROVE  StandInv'
  <1>1. PICK k \in Keys, i \in Jobs : k = work[w].key /\ i = work[w].id
    BY OwnJob DEF NInv
  <1>2. /\ \A m \in Keys \ {k} : msg'[m].status = msg[m].status
        /\ ~Waiting(k)'
    BY <1>1, OthersWait DEF Answer, WriteAndLeave, Waiting, AwaitsJob, NInv, EmailInv
  <1>3. \A h \in Jobs \ {i} : queue'[h] = queue[h]
    BY <1>1 DEF Answer, WriteAndLeave, NInv, EmailInv, EmailTypeOK
  <1> QED
    BY <1>1, <1>2, <1>3, EndStands DEF Answer, WriteAndLeave

\* A fault: the job comes back, or the message is one that BullMQ gave up.
LEMMA FaultStands ==
  ASSUME NInv, NEW w \in Workers, work[w] # Free, work' = [work EXCEPT ![w] = Free],
         NEW j \in Faults(queue[work[w].id]), Fault(work[w].id, j),
         \A m \in Keys \ {work[w].key} : msg'[m].status = msg[m].status
  PROVE  StandInv'
  <1>1. PICK k \in Keys, i \in Jobs : k = work[w].key /\ i = work[w].id /\ IsJob(i, k)
    BY OwnJob DEF NInv
  <1>2. queue[i] \in QueueJob /\ queue[i].key = k
    BY <1>1, OwnJob DEF NInv, IsJob
  <1>3. \A h \in Jobs : queue'[h] = IF h = i THEN j ELSE queue[h]
    BY <1>1 DEF Fault, NInv, EmailInv, EmailTypeOK
  <1>4. givenUp \subseteq givenUp'
    BY DEF Fault
  <1>5. ASSUME Waiting(k)', k \notin givenUp' PROVE IsJob(i, k)'
    <2>1. j # NoJob
      BY <1>1, <1>2, <1>5 DEF Fault, Waiting
    <2> QED
      BY <1>1, <1>2, <1>3, <2>1, FaultTyped DEF IsJob
  <1> QED
    BY <1>1, <1>3, <1>4, <1>5, EndStands

\* queue.add(): the place of the job that asked, or another, has a new job.
LEMMA AddedJob ==
  ASSUME EmailInv, NEW i \in Jobs, NEW k \in Keys, AddAndLeave(i, k)
  PROVE  /\ \A h \in Jobs \ {i} : queue'[h] = queue[h] \/ queue[h] = NoJob
         /\ \E h \in Jobs : IsJob(h, k)' /\ (h = i \/ ~Recorded(h))
  <1>1. NewJob("send", k) # NoJob /\ NewJob("send", k).key = k
    BY NewJobTyped DEF NewJob
  <1>2. \A h \in Jobs : queue[h] = NoJob => ~Recorded(h)
    BY HeldBySome DEF NoJob
  <1>3. CASE queue' = [queue EXCEPT ![i] = NewJob("send", k)]
    <2>1. queue'[i] = NewJob("send", k) /\ \A h \in Jobs \ {i} : queue'[h] = queue[h]
      BY <1>3 DEF EmailInv, EmailTypeOK
    <2> QED
      BY <1>1, <2>1 DEF IsJob
  <1>4. ASSUME NEW new \in Jobs, NEW j, queue[new] = NoJob,
               queue' = [queue EXCEPT ![i] = j, ![new] = NewJob("send", k)]
        PROVE  /\ \A h \in Jobs \ {i} : queue'[h] = queue[h] \/ queue[h] = NoJob
               /\ \E h \in Jobs : IsJob(h, k)' /\ (h = i \/ ~Recorded(h))
    <2>1. /\ queue'[new] = NewJob("send", k)
          /\ \A h \in Jobs \ {i} : queue'[h] = queue[h] \/ queue[h] = NoJob
      BY <1>4 DEF EmailInv, EmailTypeOK
    <2> QED
      BY <1>1, <1>2, <1>4, <2>1 DEF IsJob
  <1> QED
    BY <1>3, <1>4 DEF AddAndLeave

\* The worker returns its job: if the message waits, another job goes on.
LEMMA RecordStands ==
  ASSUME NInv, NEW w \in Workers, Record(w)
  PROVE  StandInv'
  <1>1. work[w] # Free /\ work[w].stage = "recorded"
    BY NotFree DEF Record
  <1>2. UNCHANGED <<msg, givenUp>>
    BY DEF Record
  <1>3. CASE Goes(w, "failed") /\ queue' = queue
    BY <1>1, <1>2, <1>3, StageStands
  <1>4. CASE Finish(w)
    <2>1. PICK k \in Keys, i \in Jobs : k = work[w].key /\ i = work[w].id
      BY <1>1, OwnJob DEF NInv
    <2>2. \A h \in Jobs \ {i} : queue'[h] = queue[h]
      BY <1>4, <2>1 DEF Finish, NInv, EmailInv, EmailTypeOK
    <2>3. ASSUME Waiting(k)', k \notin givenUp'
          PROVE  \E h \in Jobs : IsJob(h, k)' /\ ~Recorded(h)
      <3>1. PICK h \in Jobs : IsJob(h, k) /\ ~Recorded(h)
        BY <1>2, <2>3 DEF NInv, StandInv, Carries, Waiting
      <3>2. h # i
        BY <1>1, <2>1, <3>1 DEF Recorded
      <3> QED
        BY <2>2, <3>1, <3>2 DEF IsJob
    <2> QED
      BY <1>1, <1>2, <1>4, <2>1, <2>2, <2>3, EndStands DEF Finish
  <1> QED
    BY <1>3, <1>4 DEF Record

LEMMA TakeStands ==
  ASSUME NInv, NEW w \in Workers, NEW i \in Jobs, Take(w, i)
  PROVE  StandInv'
  <1>1. /\ EmailTypeOK /\ work[w] = Free /\ queue[i] \in QueueJob
        /\ queue[i].kind = "send" /\ queue[i].state = "waiting"
        /\ UNCHANGED <<msg, givenUp>>
    BY DEF Take, NInv, EmailInv, EmailTypeOK, NoJob
  <1>2. PICK k \in Keys : k = queue[i].key
    BY <1>1 DEF QueueJob
  <1>3. CASE msg[k].status = "Sent"
    <2>1. work' = work /\ queue' = [queue EXCEPT ![i] = NoJob]
      BY <1>2, <1>3 DEF Take
    <2>2. ~Waiting(k)'
      BY <1>1, <1>3 DEF Waiting, AwaitsJob
    <2>3. \A h \in Jobs \ {i} : queue'[h] = queue[h] /\ (Recorded(h)' => Recorded(h))
      BY <1>1, <2>1 DEF EmailTypeOK, Recorded
    <2> QED
      BY <1>1, <1>2, <2>2, <2>3, Stands DEF NInv
  <1>4. CASE msg[k].status # "Sent"
    <2> DEFINE q == [stage |-> "taken", id |-> i, key |-> k,
                     seen |-> [msg[k] EXCEPT !.opened = FALSE], row |-> NoRow]
    <2>1. work' = [work EXCEPT ![w] = q] /\ queue' = [queue EXCEPT ![i].state = "active"]
      BY <1>2, <1>4 DEF Take
    <2>2. q.stage = "taken"
      OBVIOUS
    <2> HIDE DEF q
    <2>3. \A v \in Workers : work'[v] = IF v = w THEN q ELSE work[v]
      BY <1>1, <2>1 DEF EmailTypeOK
    <2>4. \A h \in Jobs : Recorded(h)' => Recorded(h)
      BY <2>2, <2>3 DEF Recorded
    <2>5. ~Recorded(i)
      BY <1>1, HeldBySome DEF NInv
    <2>6. /\ \A h \in Jobs \ {i} : queue'[h] = queue[h]
          /\ IsJob(i, k)'
      BY <1>1, <1>2, <2>1 DEF IsJob, EmailTypeOK, QueueJob, NoJob
    <2> QED
      BY <1>1, <1>2, <2>4, <2>5, <2>6, Stands DEF NInv, Carries
  <1> QED
    BY <1>3, <1>4

LEMMA WorkerStands ==
  ASSUME NInv, NEW w \in Workers, EmailWorker(w)
  PROVE  StandInv'
  <1>0. EmailTypeOK /\ (work[w] # Free => work[w] \in Work /\ work[w].key \in Keys)
    BY WorkTyped DEF NInv, EmailInv
  <1>1. ASSUME NEW i \in Jobs, Take(w, i) PROVE StandInv'
    BY <1>1, TakeStands
  <1>2. CASE Look(w)
    <2> DEFINE q == [work[w] EXCEPT !.stage = "looked", !.row = rows[work[w].key]]
    <2>1. work[w] # Free
      BY <1>2, NotFree DEF Look
    <2>2. /\ work' = [work EXCEPT ![w] = q]
          /\ q.stage = "looked" /\ q.id = work[w].id /\ q.key = work[w].key
      BY <1>0, <1>2, <2>1 DEF Look, Work, EmailTypeOK
    <2> HIDE DEF q
    <2> QED
      BY <1>2, <2>1, <2>2, MoverStands DEF Look
  <1>3. CASE Settle(w) \/ Refuse(w) \/ Reconsider(w) \/ WriteUnknown(w)
    <2>1. work[w] # Free
      BY <1>3, NotFree DEF Settle, Refuse, Reconsider, WriteUnknown
    <2>2. \E status \in {"Sent", "Failed", "Blocked", "Skipped"} : Answer(w, status)
      BY <1>3 DEF Settle, Refuse, Reconsider, WriteUnknown
    <2> QED
      BY <2>1, <2>2, AnswerStands
  <1>4. CASE Wait(w) \/ Delay(w) \/ MarkSending(w)
    <2>1. work[w] # Free
      BY <1>4, NotFree DEF Wait, Delay, MarkSending
    <2>2. \A m \in Keys \ {work[w].key} : msg'[m].status = msg[m].status
      BY <1>0, <1>4, <2>1, OthersWait DEF Wait, Delay, MarkSending
    <2> QED
      BY <1>4, <2>1, <2>2, StageStands DEF Wait, Delay, MarkSending
  <1>5. CASE RecoverLease(w)
    BY <1>5, NotFree, StageStands DEF RecoverLease
  <1>6. CASE Resume(w)
    <2> DEFINE q == [work[w] EXCEPT !.stage = "cleared", !.row = NoRow,
                                    !.seen.status = "QueuedToSend"]
    <2>1. work[w] # Free
      BY <1>6, NotFree DEF Resume
    <2>2. q.stage = "cleared" /\ q.id = work[w].id /\ q.key = work[w].key
      BY <1>0, <2>1 DEF Work
    <2>3. work' = [work EXCEPT ![w] = q]
      BY <1>0, <1>6 DEF Resume, EmailTypeOK
    <2>4. /\ UNCHANGED <<queue, givenUp>>
          /\ \A m \in Keys \ {work[w].key} : msg'[m].status = msg[m].status
      BY <1>0, <1>6, <2>1, OthersWait DEF Resume
    <2> HIDE DEF q
    <2> QED
      BY <2>1, <2>2, <2>3, <2>4, MoverStands
  <1>7. CASE Requeue(w)
    <2>1. work[w] # Free
      BY <1>7, NotFree DEF Requeue
    <2>2. PICK k \in Keys, i \in Jobs : k = work[w].key /\ i = work[w].id
      BY <2>1, OwnJob DEF NInv
    <2>3. /\ \A h \in Jobs \ {i} : queue'[h] = queue[h] \/ queue[h] = NoJob
          /\ \E h \in Jobs : IsJob(h, k)' /\ (h = i \/ ~Recorded(h))
      BY <1>7, <2>2, AddedJob DEF Requeue, NInv
    <2> QED
      BY <1>7, <2>1, <2>2, <2>3, EndStands DEF Requeue, AddAndLeave
  <1>8. CASE RefuseSend(w) \/ Reserve(w) \/ GiveUp(w) \/ Deliver(w)
    <2>1. work[w] # Free /\ Unsent
      BY <1>8, NotFree DEF RefuseSend, Reserve, GiveUp, Deliver
    <2>2. \E stage \in {"executing", "sent", "unknown", "failed"} : Goes(w, stage)
      BY <1>8 DEF RefuseSend, Reserve, GiveUp, Deliver, Outcome
    <2> QED
      BY <2>1, <2>2, StageStands DEF Unsent
  <1>9. CASE Dispatch(w)
    <2>1. work[w] # Free /\ work[w].stage = "executing" /\ UNCHANGED work /\ Unsent
      BY <1>9, NotFree DEF Dispatch
    <2>2. work' = [work EXCEPT ![w] = work[w]]
      BY <1>0, <2>1 DEF EmailTypeOK
    <2> QED
      BY <2>1, <2>2, MoverStands DEF Unsent
  <1>10. CASE WriteSent(w)
    <2>1. work[w] # Free /\ UNCHANGED <<queue, givenUp>>
      BY <1>10, NotFree DEF WriteSent
    <2>2. CASE Goes(w, "failed") /\ msg' = msg
      BY <2>1, <2>2, StageStands
    <2>3. CASE /\ msg' = [msg EXCEPT ![work[w].key].status = "Sent",
                                     ![work[w].key].version = work[w].seen.version]
               /\ Goes(w, "recorded")
      <3>1. /\ \A m \in Keys \ {work[w].key} : msg'[m].status = msg[m].status
            /\ msg'[work[w].key].status = "Sent"
        BY <1>0, <2>1, <2>3 DEF EmailTypeOK, Message
      <3>2. PICK k \in Keys : k = work[w].key
        BY <1>0, <2>1
      <3>3. ~Waiting(work[w].key)'
        BY <3>1, <3>2, <2>3, GoesTo, <1>0, <2>1 DEF Waiting, AwaitsJob
      <3> QED
        BY <2>1, <2>3, <3>1, <3>3, StageStands
    <2> QED
      BY <1>10, <2>2, <2>3 DEF WriteSent
  <1>11. CASE Record(w)
    BY <1>11, RecordStands
  <1>12. CASE WriteFailure(w)
    <2>1. work[w] # Free
      BY <1>12, NotFree DEF WriteFailure
    <2>2. \A m \in Keys \ {work[w].key} : msg'[m].status = msg[m].status
      BY <1>0, <1>12, <2>1 DEF WriteFailure, EmailTypeOK
    <2> QED
      BY <1>12, <2>1, <2>2, FaultStands DEF WriteFailure
  <1>13. CASE Throw(w) \/ Crash(w)
    <2>1. work[w] # Free
      BY <1>13, NotFree DEF Throw, Crash
    <2>2. \E j \in Faults(queue[work[w].id]) : Fault(work[w].id, j)
      BY <1>13, <2>1, OwnJob, FaultTyped DEF Throw, Crash, NInv
    <2> QED
      BY <1>13, <2>1, <2>2, FaultStands DEF Throw, Crash
  <1> QED
    BY <1>1, <1>2, <1>3, <1>4, <1>5, <1>6, <1>7, <1>8, <1>9, <1>10, <1>11, <1>12, <1>13
    DEF EmailWorker

\* The validation makes a message wait beside its own job, which it then
\* replaces by the send job.
LEMMA ValidateStands ==
  ASSUME NInv, NEW i \in Jobs,
         ValidateRead(i) \/ ValidateWrite(i) \/ ValidateAdd(i) \/ ValidateFault(i)
  PROVE  StandInv'
  <1>1. /\ EmailTypeOK /\ queue[i] \in QueueJob /\ queue[i].kind = "validate"
        /\ UNCHANGED work
    BY DEF ValidateRead, ValidateWrite, ValidateAdd, ValidateFault, NInv, EmailInv, EmailTypeOK,
       NoJob
  <1>2. PICK k \in Keys : k = queue[i].key
    BY <1>1 DEF QueueJob
  <1>3. /\ \A h \in Jobs : Recorded(h)' <=> Recorded(h)
        /\ ~Recorded(i)
    BY <1>1, HeldBySome DEF Recorded, NInv
  <1>4. givenUp \subseteq givenUp'
    BY DEF ValidateRead, ValidateWrite, ValidateAdd, ValidateFault, AddAndLeave, WriteAndLeave, Fault
  <1>5. ASSUME \A m \in Keys \ {k} : msg'[m].status = msg[m].status,
               \A h \in Jobs \ {i} : queue'[h] = queue[h] \/ queue[h] = NoJob,
               Waiting(k)' /\ k \notin givenUp' =>
                 \E h \in Jobs : IsJob(h, k)' /\ (h = i \/ ~Recorded(h))
        PROVE  StandInv'
    BY <1>2, <1>3, <1>4, <1>5, Stands DEF NInv, Carries
  <1>6. CASE ValidateRead(i)
    <2>1. msg' = msg /\ \A h \in Jobs \ {i} : queue'[h] = queue[h]
      BY <1>1, <1>6 DEF ValidateRead, EmailTypeOK
    <2>2. msg[k].status = "Sent" \/ IsJob(i, k)'
      BY <1>1, <1>2, <1>6 DEF ValidateRead, IsJob, EmailTypeOK, QueueJob, NoJob
    <2> QED
      BY <1>5, <2>1, <2>2 DEF Waiting, AwaitsJob
  <1>7. CASE ValidateWrite(i)
    <2>1. CASE WriteAndLeave(i, k, "Failed")
      <3>1. /\ \A m \in Keys \ {k} : msg'[m].status = msg[m].status
            /\ ~Waiting(k)'
        BY <1>1, <2>1, OthersWait DEF WriteAndLeave, Waiting, AwaitsJob
      <3>2. \A h \in Jobs \ {i} : queue'[h] = queue[h]
        BY <1>1, <2>1 DEF WriteAndLeave, EmailTypeOK
      <3> QED
        BY <1>5, <3>1, <3>2
    <2>2. CASE /\ msg' = [msg EXCEPT ![k].status = "QueuedToSend", ![k].version = queue[i].body]
               /\ queue' = [queue EXCEPT ![i].state = "written"]
      <3>1. \A m \in Keys \ {k} : msg'[m].status = msg[m].status
        BY <1>1, <2>2 DEF EmailTypeOK
      <3>2. \A h \in Jobs \ {i} : queue'[h] = queue[h]
        BY <1>1, <2>2 DEF EmailTypeOK
      <3>3. IsJob(i, k)'
        BY <1>1, <1>2, <2>2 DEF IsJob, EmailTypeOK, QueueJob, NoJob
      <3> QED
        BY <1>5, <3>1, <3>2, <3>3
    <2> QED
      BY <1>2, <1>7, <2>1, <2>2 DEF ValidateWrite
  <1>8. CASE ValidateAdd(i)
    <2>1. AddAndLeave(i, k) /\ msg' = msg
      BY <1>2, <1>8 DEF ValidateAdd
    <2> QED
      BY <1>5, <2>1, AddedJob DEF NInv
  <1>9. CASE ValidateFault(i)
    <2>1. PICK j \in Faults(queue[i]) : Fault(i, j)
      BY <1>9 DEF ValidateFault
    <2>2. msg' = msg
      BY <1>9 DEF ValidateFault
    <2>3. \A h \in Jobs : queue'[h] = IF h = i THEN j ELSE queue[h]
      BY <1>1, <2>1 DEF Fault, EmailTypeOK
    <2>4. ASSUME Waiting(k)', k \notin givenUp' PROVE IsJob(i, k)'
      <3>1. j # NoJob
        BY <1>2, <2>1, <2>4 DEF Fault, Waiting
      <3> QED
        BY <1>1, <1>2, <2>1, <2>3, <3>1, FaultTyped DEF IsJob
    <2> QED
      BY <1>5, <2>2, <2>3, <2>4
  <1> QED
    BY <1>6, <1>7, <1>8, <1>9

\* The others take no job away and make no message wait.
LEMMA QuietStands ==
  ASSUME StandInv, UNCHANGED <<work, givenUp>>,
         \A i \in Jobs : queue'[i] = queue[i] \/ queue[i] = NoJob,
         \A m \in Keys : Waiting(m)' => Waiting(m)
  PROVE  StandInv'
  <1> SUFFICES ASSUME NEW k \in Keys \ givenUp', Waiting(k)'
               PROVE  \E i \in Jobs : Carries(i, k)'
    BY DEF StandInv
  <1>1. PICK i \in Jobs : Carries(i, k)
    BY DEF StandInv
  <1> QED
    BY <1>1 DEF Carries, IsJob, Recorded

LEMMA ResendStands ==
  ASSUME NInv, NEW k \in Keys, NEW d \in Digests, ResendStep(k, d)
  PROVE  StandInv'
  <1>1. EmailTypeOK /\ msg[k] \in Message /\ UNCHANGED <<work, givenUp>>
    BY DEF ResendStep, ResendRead, ResendReserve, ResendQueued, ResendUndone, ResendLost,
       NInv, EmailInv, EmailTypeOK
  <1>2. \A i \in Jobs : queue'[i] = queue[i] \/ queue[i] = NoJob
    BY <1>1 DEF ResendStep, ResendRead, ResendReserve, ResendQueued, ResendUndone, ResendLost,
       EmailTypeOK
  <1>3. CASE msg' = msg
    BY <1>1, <1>2, <1>3, QuietStands DEF NInv, Waiting
  <1>4. CASE ResendReserve(k, d)
    <2>1. /\ msg'[k].status = "DraftReady"
          /\ \A j \in Keys \ {k} : msg'[j] = msg[j]
      BY <1>1, <1>4 DEF ResendReserve, EmailTypeOK, Message
    <2> QED
      BY <1>1, <1>2, <2>1, QuietStands DEF NInv, Waiting, AwaitsJob
  <1>5. CASE ResendUndone(k, d)
    <2>1. resends[k][d].seen.status = "Failed" /\ resends[k][d].seen \in Message
      BY <1>5 DEF ResendUndone, Reserved, Resending
    <2>2. msg' = msg \/ /\ msg'[k].status = "Failed"
                        /\ \A j \in Keys \ {k} : msg'[j] = msg[j]
      BY <1>1, <1>5, <2>1 DEF ResendUndone, EmailTypeOK, Message
    <2> QED
      BY <1>1, <1>2, <1>3, <2>2, QuietStands DEF NInv, Waiting, AwaitsJob
  <1> QED
    BY <1>3, <1>4, <1>5 DEF ResendStep, ResendRead, ResendQueued, ResendLost

\* Administrators, the recipient and the outbox leave the queue alone.
LEMMA OthersStand ==
  ASSUME NInv, UNCHANGED <<queue, work, givenUp>>,
         \/ msg' = msg
         \/ \E k \in Keys, status \in {"Sent", "Blocked"} : SetStatus(k, status)
         \/ \E k \in Keys : TrackOpen(k)
  PROVE  StandInv'
  <1>1. EmailTypeOK
    BY DEF NInv, EmailInv
  <1>2. \A m \in Keys : msg'[m].status = msg[m].status
                          \/ msg'[m].status \in {"Sent", "Blocked", "Opened"}
    <2>1. CASE msg' = msg
      BY <2>1
    <2>2. ASSUME NEW k \in Keys, NEW status \in {"Sent", "Blocked"}, SetStatus(k, status)
          PROVE  \A m \in Keys : msg'[m].status = msg[m].status \/ msg'[m].status = status
      BY <1>1, <2>2, OthersWait
    <2>3. ASSUME NEW k \in Keys, TrackOpen(k)
          PROVE  \A m \in Keys : msg'[m].status = msg[m].status \/ msg'[m].status = "Opened"
      <3>1. msg[k] \in Message
        BY <1>1 DEF EmailTypeOK
      <3> DEFINE d == [msg[k] EXCEPT !.opened = TRUE, !.status = "Opened"]
      <3>2. d.status = "Opened"
        BY <3>1 DEF Message
      <3>3. \A m \in Keys : msg'[m] = IF m = k THEN d ELSE msg[m]
        BY <1>1, <2>3 DEF TrackOpen, EmailTypeOK
      <3> HIDE DEF d
      <3> QED
        BY <3>2, <3>3
    <2> QED
      BY <2>1, <2>2, <2>3
  <1> QED
    BY <1>2, QuietStands DEF NInv, Waiting, AwaitsJob

LEMMA StandInvNext == NInv /\ [EmailNext]_evars => NInv'
  <1> SUFFICES ASSUME NInv, [EmailNext]_evars PROVE StandInv'
    BY EmailInvNext DEF NInv
  <1>1. CASE UNCHANGED evars
    BY <1>1, OthersStand DEF evars
  <1>2. ASSUME NEW i \in Jobs,
               ValidateRead(i) \/ ValidateWrite(i) \/ ValidateAdd(i) \/ ValidateFault(i)
        PROVE  StandInv'
    BY <1>2, ValidateStands
  <1>3. ASSUME NEW w \in Workers, EmailWorker(w) PROVE StandInv'
    BY <1>3, WorkerStands
  <1>4. ASSUME NEW k \in Keys, NEW d \in Digests, ResendStep(k, d) PROVE StandInv'
    BY <1>4, ResendStands
  <1>5. ASSUME NEW k \in Keys, Reconcile(k) \/ TrackOpen(k)
        PROVE  StandInv'
    BY <1>5, OthersStand DEF Reconcile, TrackOpen
  <1>6. CASE Oversee
    BY <1>6, OthersStand DEF Oversee, Unsent
  <1> QED
    BY <1>1, <1>2, <1>3, <1>4, <1>5, <1>6 DEF EmailNext

\* For any number of workers, no message is left waiting without a job, whatever
\* throws, crashes, resends, delays and reconciliations it went through, unless
\* BullMQ gave up a job that left it so.
THEOREM NoneStranded == EmailSpec => []NotStranded
  <1>1. EmailInit => NInv
    BY EmailInvInit, StandInvInit DEF NInv
  <1>2. NInv /\ [EmailNext]_evars => NInv'
    BY StandInvNext
  <1>3. NInv => NotStranded
    BY DEF NInv, StandInv, Carries, IsJob, Waiting, NotStranded, HasJob
  <1> QED
    BY <1>1, <1>2, <1>3, PTL DEF EmailSpec

-----------------------------------------------------------------------------
(* What else the campaign messages inherit from the outbox.                *)

\* Campaign messages keep to the limits of the outbox as QuotasHold states them,
\* however many jobs and resends ask for a send.
THEOREM EmailWithinLimits == EmailSpec => []QuotasHold
  BY EmailImplementsOutbox, LimitsHold, PTL DEF ImplementsOutbox

\* Of two campaign messages that carry the same body to the same recipient and
\* are both unresolved, one is being attempted again after a rejection.
THEOREM EmailOverlapsOnRetry == EmailSpec => []OverlapOnlyOnRetry
  BY EmailImplementsOutbox, OverlapIsRetry, PTL DEF ImplementsOutbox
=============================================================================
