------------------------- MODULE OwnerNotifyProofs -------------------------
(***************************************************************************)
(* Proofs about the delivery of an owner notification: for any number of   *)
(* overlapping cycles, attempts and crashes, no two cycles share an        *)
(* attempt, and a notification is settled for a cause and then stays.      *)
(*                                                                         *)
(* The outcome of an attempt is fenced only by the status SENDING, so an   *)
(* attempt may write the outcome of a later one.  What makes that harmless *)
(* is that every cycle in flight has an attempt no larger than the one     *)
(* counted, and an expiry that never moves.                                *)
(***************************************************************************)
EXTENDS OwnerNotify, TLAPS

Flying == {"sending", "sent", "refused"}

\* What a cycle knows of the row.
CycleOK(c) ==
  /\ job[c].at <= now
  /\ job[c].stage \in {"claiming"} \cup Flying =>
       /\ note.status # "ABSENT"
       /\ job[c].seen.status \in {"PENDING", "FAILED"}
       /\ job[c].seen.attempts <= note.attempts
       /\ job[c].seen.expiresAt = note.expiresAt
  /\ job[c].stage \in Flying => job[c].seen.attempts < note.attempts
  /\ job[c].stage = "sent" => job[c].seen.attempts + 1 \in delivered

\* No two cycles in flight have one attempt.
AttemptsDiffer ==
  \A c, d \in Cycles :
    c # d /\ job[c].stage \in Flying /\ job[d].stage \in Flying =>
      job[c].seen.attempts # job[d].seen.attempts

NInv ==
  /\ TypeOK
  /\ note.attempts <= MaxAttempts
  /\ \A c \in Cycles : CycleOK(c)
  /\ AttemptsDiffer
  /\ SettledForCause

-----------------------------------------------------------------------------
(* The kinds of steps.                                                     *)

\* The first state.
LEMMA InitHolds == Init => NInv
<1> SUFFICES ASSUME Init PROVE NInv
  OBVIOUS
<1>1. TypeOK
  BY DEF Init, TypeOK, Note, NoNote, Statuses, Job, Idle, Stages
<1>2. \A c \in Cycles : CycleOK(c)
  BY DEF Init, CycleOK, Idle, Flying
<1>3. AttemptsDiffer
  BY DEF Init, AttemptsDiffer, Idle, Flying
<1> QED BY <1>1, <1>2, <1>3, OwnerNotifyAssumption DEF NInv, Init, NoNote, SettledForCause

\* A step of one cycle that counts no attempt and takes up none: the row keeps its
\* attempts and expiry, and is settled only for a cause.
LEMMA CycleHolds ==
  ASSUME NInv, NEW c \in Cycles, NEW j \in Job,
         note' \in Note, job' = [job EXCEPT ![c] = j], now' = now,
         delivered \subseteq delivered', delivered' \subseteq Nat,
         note'.attempts = note.attempts, note'.expiresAt = note.expiresAt,
         note.status # "ABSENT" => note'.status # "ABSENT",
         note'.status = "SENT" => note'.receipt \in delivered',
         note'.status = "FAILED" /\ note'.nextAttemptAt = None =>
           note'.attempts = MaxAttempts \/ note'.expiresAt <= now,
         j.at <= now,
         j.stage \in {"claiming"} \cup Flying =>
           /\ note'.status # "ABSENT"
           /\ j.seen.status \in {"PENDING", "FAILED"}
           /\ j.seen.attempts <= note.attempts
           /\ j.seen.expiresAt = note.expiresAt,
         j.stage \in Flying => job[c].stage \in Flying /\ j.seen = job[c].seen,
         j.stage = "sent" => j.seen.attempts + 1 \in delivered'
  PROVE  NInv'
<1>1. /\ job' \in [Cycles -> Job]
      /\ job'[c] = j
      /\ \A d \in Cycles : d # c => job'[d] = job[d]
  BY DEF NInv, TypeOK
<1>2. TypeOK'
  BY <1>1 DEF NInv, TypeOK
<1>3. \A d \in Cycles : CycleOK(d)'
  <2>1. CycleOK(c)'
    BY <1>1 DEF NInv, CycleOK
  <2>2. ASSUME NEW d \in Cycles, d # c PROVE CycleOK(d)'
    BY <2>2, <1>1 DEF NInv, CycleOK
  <2> QED BY <2>1, <2>2
<1>4. AttemptsDiffer'
  BY <1>1 DEF NInv, AttemptsDiffer
<1>5. SettledForCause'
  BY DEF SettledForCause
<1> QED BY <1>2, <1>3, <1>4, <1>5 DEF NInv

\* A cycle ends and leaves the row alone.
LEMMA DoneHolds ==
  ASSUME NInv, NEW c \in Cycles, Finish(c), UNCHANGED <<note, delivered, now>>
  PROVE  NInv'
<1>1. Idle \in Job /\ Idle.at <= now /\ Idle.stage \notin {"claiming", "sent"} \cup Flying
  BY DEF NInv, TypeOK, Idle, Job, Stages, Note, NoNote, Statuses, Flying
<1> QED BY <1>1, CycleHolds DEF Finish, NInv, TypeOK, SettledForCause, Flying

\* A cycle moves on.
LEMMA GotoIs ==
  ASSUME TypeOK, NEW c \in Cycles, NEW s \in Stages, Goto(c, s)
  PROVE  \E j \in Job : /\ job' = [job EXCEPT ![c] = j]
                        /\ j.stage = s /\ j.at = job[c].at /\ j.seen = job[c].seen
<1> DEFINE j == [job[c] EXCEPT !.stage = s]
<1>1. j \in Job /\ j.stage = s /\ j.at = job[c].at /\ j.seen = job[c].seen
  BY DEF TypeOK, Job
<1>2. job' = [job EXCEPT ![c] = j]
  BY DEF Goto
<1> HIDE DEF j
<1> QED BY <1>1, <1>2

\* Giving a notification up.
LEMMA GivenUpIs ==
  ASSUME NEW r \in Note
  PROVE  /\ GivenUp(r) \in Note
         /\ GivenUp(r).status = "FAILED" /\ GivenUp(r).nextAttemptAt = None
         /\ GivenUp(r).attempts = r.attempts /\ GivenUp(r).expiresAt = r.expiresAt
         /\ r.status = "FAILED" /\ r.nextAttemptAt = None => GivenUp(r) = r
  BY DEF GivenUp, Note, Statuses

-----------------------------------------------------------------------------
(* The actions.                                                            *)

LEMMA EnqueueHolds == ASSUME NInv, Enqueue PROVE NInv'
<1>0. PICK n \in Nat, t \in Nat : n = now /\ t = now + Ttl
  BY OwnerNotifyAssumption DEF NInv, TypeOK
<1> DEFINE r == [NoNote EXCEPT !.status = "PENDING", !.nextAttemptAt = n, !.expiresAt = t]
<1>1. r \in Note /\ r.status = "PENDING" /\ r.attempts = 0
  BY DEF NoNote, Note, Statuses
<1>2. note' = r /\ UNCHANGED <<job, delivered, now>>
  BY <1>0 DEF Enqueue
<1> HIDE DEF r
<1>3. TypeOK'
  BY <1>1, <1>2 DEF NInv, TypeOK
<1>4. \A c \in Cycles : CycleOK(c)'
  BY <1>1, <1>2 DEF NInv, CycleOK, Enqueue, Flying
<1>5. AttemptsDiffer'
  BY <1>2 DEF NInv, AttemptsDiffer
<1>6. SettledForCause'
  BY <1>1, <1>2 DEF SettledForCause
<1>7. (note.attempts <= MaxAttempts)'
  BY <1>1, <1>2, OwnerNotifyAssumption
<1> QED BY <1>3, <1>4, <1>5, <1>6, <1>7 DEF NInv

LEMMA BeginHolds == ASSUME NInv, NEW c \in Cycles, Begin(c) PROVE NInv'
<1> DEFINE j == [Idle EXCEPT !.stage = "recovering", !.at = now]
<1>1. j \in Job /\ j.stage = "recovering" /\ j.at <= now
  <2>1. Idle \in Job
    BY DEF Idle, Job, Stages, Note, NoNote, Statuses
  <2>2. PICK n \in Nat : n = now /\ n <= now
    BY DEF NInv, TypeOK
  <2> QED BY <2>1, <2>2 DEF Job, Stages
<1>2. job' = [job EXCEPT ![c] = j] /\ UNCHANGED <<note, delivered, now>>
  BY DEF Begin
<1> HIDE DEF j
<1> QED BY <1>1, <1>2, CycleHolds DEF NInv, TypeOK, SettledForCause, Flying

LEMMA RecoverHolds == ASSUME NInv, NEW c \in Cycles, RecoverStaleClaims(c) PROVE NInv'
<1>1. PICK j \in Job : /\ job' = [job EXCEPT ![c] = j]
                       /\ j.stage = "expiring" /\ j.at = job[c].at
  BY GotoIs DEF RecoverStaleClaims, NInv, Stages
<1>2. job[c].at \in Nat /\ job[c].at <= now /\ note \in Note
  BY DEF NInv, TypeOK, Job, CycleOK
<1>3. CASE note' = note
  BY <1>1, <1>2, <1>3, CycleHolds DEF RecoverStaleClaims, NInv, TypeOK, SettledForCause, Flying
<1>4. CASE note' = [note EXCEPT !.status = "FAILED", !.nextAttemptAt = job[c].at]
  <2>1. note' \in Note /\ note'.status = "FAILED" /\ note'.nextAttemptAt # None
                          /\ note'.attempts = note.attempts /\ note'.expiresAt = note.expiresAt
    BY <1>2, <1>4, OwnerNotifyAssumption DEF Note, Statuses
  <2> QED BY <1>1, <1>2, <2>1, CycleHolds DEF RecoverStaleClaims, NInv, TypeOK, Flying
<1> QED BY <1>3, <1>4 DEF RecoverStaleClaims

LEMMA ExpireHolds == ASSUME NInv, NEW c \in Cycles, FailExpired(c) PROVE NInv'
<1>1. PICK j \in Job : /\ job' = [job EXCEPT ![c] = j]
                       /\ j.stage = "scanning" /\ j.at = job[c].at
  BY GotoIs DEF FailExpired, NInv, Stages
<1>2. job[c].at \in Nat /\ job[c].at <= now /\ now \in Nat /\ note \in Note /\ note.expiresAt \in Nat
  BY DEF NInv, TypeOK, Job, CycleOK, Note
<1>3. CASE note' = note
  BY <1>1, <1>2, <1>3, CycleHolds DEF FailExpired, NInv, TypeOK, SettledForCause, Flying
<1>4. CASE note' = GivenUp(note) /\ Expired(note, job[c].at)
  <2>1. note.expiresAt <= now
    BY <1>2, <1>4 DEF Expired
  <2>2. note' \in Note /\ note'.status = "FAILED"
                          /\ note'.attempts = note.attempts /\ note'.expiresAt = note.expiresAt
    BY <1>2, <1>4, GivenUpIs
  <2> QED BY <1>1, <1>2, <2>1, <2>2, CycleHolds DEF FailExpired, NInv, TypeOK, Flying
<1> QED BY <1>3, <1>4 DEF FailExpired

LEMMA ScanHolds == ASSUME NInv, NEW c \in Cycles, Scan(c) PROVE NInv'
<1>1. CASE Finish(c)
  BY <1>1, DoneHolds DEF Scan
<1>2. CASE /\ note.status \in {"PENDING", "FAILED"}
           /\ job' = [job EXCEPT ![c].stage = "claiming", ![c].seen = note]
  <2> DEFINE j == [job[c] EXCEPT !.stage = "claiming", !.seen = note]
  <2>1. j \in Job /\ j.stage = "claiming" /\ j.at = job[c].at /\ j.seen = note
    BY DEF NInv, TypeOK, Job, Stages
  <2>2. job' = [job EXCEPT ![c] = j]
    BY <1>2
  <2> HIDE DEF j
  <2>3. /\ note \in Note /\ note.attempts <= note.attempts /\ note.status # "ABSENT"
        /\ job[c].at <= now
    BY <1>2 DEF NInv, TypeOK, Note, CycleOK
  <2>4. j.at <= now /\ j.seen.status \in {"PENDING", "FAILED"}
    BY <1>2, <2>1, <2>3
  <2> QED BY <2>1, <2>2, <2>3, <2>4, CycleHolds
          DEF Scan, NInv, TypeOK, CycleOK, SettledForCause, Flying
<1> QED BY <1>1, <1>2 DEF Scan

\* A cycle that gives the notification up, or writes the outcome of its attempt,
\* ends; the row has reached the attempt the cycle saw.
LEMMA OutcomeHolds ==
  ASSUME NInv, NEW c \in Cycles,
         note' \in Note, Finish(c), UNCHANGED <<delivered, now>>,
         note'.attempts = note.attempts, note'.expiresAt = note.expiresAt, note'.status # "ABSENT",
         note'.status = "SENT" => note'.receipt \in delivered,
         note'.status = "FAILED" /\ note'.nextAttemptAt = None =>
           note'.attempts = MaxAttempts \/ note'.expiresAt <= now
  PROVE  NInv'
<1>1. Idle \in Job /\ Idle.at <= now /\ Idle.stage \notin {"claiming", "sent"} \cup Flying
  BY DEF NInv, TypeOK, Idle, Job, Stages, Note, NoNote, Statuses, Flying
<1> QED BY <1>1, CycleHolds DEF Finish, NInv, TypeOK, Flying

LEMMA ExhaustHolds == ASSUME NInv, NEW c \in Cycles, Exhaust(c) PROVE NInv'
<1>1. CASE note' = note
  BY <1>1, DoneHolds DEF Exhaust
<1>2. CASE note' = GivenUp(note)
  <2>1. note.attempts = MaxAttempts
    BY OwnerNotifyAssumption DEF Exhaust, NInv, TypeOK, Job, Note, CycleOK
  <2>2. note' \in Note /\ note'.status = "FAILED"
                          /\ note'.attempts = note.attempts /\ note'.expiresAt = note.expiresAt
    BY <1>2, GivenUpIs DEF NInv, TypeOK
  <2> QED BY <2>1, <2>2, OutcomeHolds DEF Exhaust
<1> QED BY <1>1, <1>2 DEF Exhaust

\* The claim counts the attempt it takes, which nobody has.
LEMMA ClaimHolds == ASSUME NInv, NEW c \in Cycles, Claim(c) PROVE NInv'
<1>1. CASE note' = note /\ Finish(c)
  BY <1>1, DoneHolds DEF Claim
<1>2. CASE /\ Claimed(c)
           /\ note' = [note EXCEPT !.status = "SENDING", !.attempts = @ + 1, !.claimedAt = job[c].at]
           /\ Goto(c, "sending")
  <2>1. PICK j \in Job : /\ job' = [job EXCEPT ![c] = j]
                         /\ j.stage = "sending" /\ j.at = job[c].at /\ j.seen = job[c].seen
    BY <1>2, GotoIs DEF NInv, Stages
  <2>2. /\ note \in Note /\ note.attempts \in Nat /\ job[c].at \in Nat
        /\ job[c].seen.attempts = note.attempts /\ note.attempts < MaxAttempts
    BY <1>2 DEF Claim, Claimed, NInv, TypeOK, Job, Note
  <2>3. /\ note' \in Note
        /\ note'.status = "SENDING" /\ note'.attempts = note.attempts + 1
        /\ note'.expiresAt = note.expiresAt
    <3>1. PICK n \in Nat, t \in Nat : n = note.attempts + 1 /\ t = job[c].at
      BY <2>2
    <3>2. note' = [note EXCEPT !.status = "SENDING", !.attempts = n, !.claimedAt = t]
      BY <1>2, <2>2, <3>1 DEF Note
    <3> QED BY <2>2, <3>1, <3>2 DEF Note, Statuses
  <2>4. UNCHANGED <<delivered, now>>
    BY DEF Claim
  <2>5. /\ job' \in [Cycles -> Job]
        /\ job'[c] = j
        /\ \A d \in Cycles : d # c => job'[d] = job[d]
    BY <2>1 DEF NInv, TypeOK
  <2>6. TypeOK'
    BY <2>3, <2>4, <2>5 DEF NInv, TypeOK
  <2>7. (note.attempts <= MaxAttempts)'
    BY <2>2, <2>3, OwnerNotifyAssumption
  <2>8. \A d \in Cycles : CycleOK(d)'
    <3>1. CycleOK(c)'
      BY <2>1, <2>2, <2>3, <2>4, <2>5 DEF NInv, CycleOK, Flying, Claim
    <3>2. ASSUME NEW d \in Cycles, d # c PROVE CycleOK(d)'
      <4>1. CycleOK(d) /\ job[d].seen.attempts \in Nat
        BY DEF NInv, TypeOK, Job, Note
      <4> QED BY <3>2, <4>1, <2>2, <2>3, <2>4, <2>5 DEF CycleOK
    <3> QED BY <3>1, <3>2
  <2>9. AttemptsDiffer'
    <3>1. ASSUME NEW d \in Cycles, d # c, job[d].stage \in Flying
          PROVE  job[d].seen.attempts # j.seen.attempts
      BY <3>1, <2>1, <2>2 DEF NInv, CycleOK, TypeOK, Job, Note
    <3> QED BY <3>1, <2>5 DEF NInv, AttemptsDiffer
  <2>10. SettledForCause'
    BY <2>3 DEF SettledForCause
  <2> QED BY <2>6, <2>7, <2>8, <2>9, <2>10 DEF NInv
<1> QED BY <1>1, <1>2 DEF Claim

LEMMA SendHolds == ASSUME NInv, NEW c \in Cycles, Send(c) PROVE NInv'
<1>1. PICK s \in {"sent", "refused"} :
        Goto(c, s) /\ (s = "sent" => delivered' = delivered \cup {Attempt(c)})
  BY DEF Send
<1>2. PICK j \in Job : /\ job' = [job EXCEPT ![c] = j]
                       /\ j.stage = s /\ j.at = job[c].at /\ j.seen = job[c].seen
  BY <1>1, GotoIs DEF NInv, Stages
<1>3. job[c] \in Job /\ job[c].seen.attempts \in Nat /\ note \in Note
  BY DEF NInv, TypeOK, Job, Note
<1>4. delivered \subseteq delivered' /\ delivered' \subseteq Nat
  <2>1. Attempt(c) \in Nat /\ delivered \subseteq Nat
    BY <1>3 DEF NInv, TypeOK, Attempt
  <2>2. delivered' = delivered \/ delivered' = delivered \cup {Attempt(c)}
    BY DEF Send
  <2> QED BY <2>1, <2>2
<1>5. s = "sent" => job[c].seen.attempts + 1 \in delivered'
  BY <1>1 DEF Attempt
<1>6. CycleOK(c) /\ SettledForCause /\ note' = note /\ now' = now /\ job[c].stage = "sending"
  BY DEF Send, NInv
<1> QED BY <1>2, <1>3, <1>4, <1>5, <1>6, CycleHolds DEF CycleOK, SettledForCause, Flying

LEMMA CompleteHolds == ASSUME NInv, NEW c \in Cycles, Complete(c) PROVE NInv'
<1>1. CASE note' = note
  BY <1>1, DoneHolds DEF Complete
<1>2. CASE note' = [note EXCEPT !.status = "SENT", !.receipt = Attempt(c), !.nextAttemptAt = None]
  <2>1. Attempt(c) \in Nat /\ Attempt(c) \in delivered
    BY DEF Complete, NInv, TypeOK, Job, Note, CycleOK, Attempt
  <2>2. note' \in Note /\ note'.status = "SENT" /\ note'.receipt = Attempt(c)
                          /\ note'.attempts = note.attempts /\ note'.expiresAt = note.expiresAt
    BY <1>2, <2>1 DEF NInv, TypeOK, Note, Statuses
  <2> QED BY <2>1, <2>2, OutcomeHolds DEF Complete
<1> QED BY <1>1, <1>2 DEF Complete

LEMMA FailHolds == ASSUME NInv, NEW c \in Cycles, Fail(c) PROVE NInv'
<1>1. CASE note' = note
  BY <1>1, DoneHolds DEF Fail
<1>2. CASE note' = [note EXCEPT !.status = "FAILED", !.nextAttemptAt = RetryAt(c)]
  <2>1. /\ job[c].at \in Nat /\ job[c].at <= now /\ now \in Nat
        /\ job[c].seen.attempts \in Nat /\ job[c].seen.attempts < note.attempts
        /\ job[c].seen.expiresAt = note.expiresAt /\ note.expiresAt \in Nat
        /\ note.attempts \in Nat /\ note.attempts <= MaxAttempts
    BY DEF Fail, NInv, TypeOK, Job, Note, CycleOK, Flying
  <2>2. job[c].at + RetryBase * Attempt(c) \in Nat
    <3>1. \A a, b, n \in Nat : a + b * n \in Nat
      OBVIOUS
    <3> QED BY <3>1, <2>1, OwnerNotifyAssumption DEF Attempt
  <2>3. /\ RetryAt(c) \in Nat \cup {None}
        /\ RetryAt(c) = None => note.expiresAt <= now \/ note.attempts = MaxAttempts
    BY <2>1, <2>2, OwnerNotifyAssumption DEF RetryAt, Attempt
  <2>4. note' \in Note /\ note'.status = "FAILED" /\ note'.nextAttemptAt = RetryAt(c)
                          /\ note'.attempts = note.attempts /\ note'.expiresAt = note.expiresAt
    BY <1>2, <2>3 DEF NInv, TypeOK, Note, Statuses
  <2> QED BY <2>3, <2>4, OutcomeHolds DEF Fail
<1> QED BY <1>1, <1>2 DEF Fail

LEMMA TickHolds == ASSUME NInv, Tick PROVE NInv'
<1>1. now \in Nat /\ now' = now + 1 /\ UNCHANGED <<note, job, delivered>>
  BY DEF NInv, TypeOK, Tick
<1>2. TypeOK'
  BY <1>1 DEF NInv, TypeOK
<1>3. \A c \in Cycles : CycleOK(c)'
  BY <1>1 DEF NInv, TypeOK, Job, CycleOK
<1>4. AttemptsDiffer' /\ (note.attempts <= MaxAttempts)'
  BY <1>1 DEF NInv, AttemptsDiffer
<1>5. SettledForCause'
  BY <1>1 DEF NInv, TypeOK, Note, SettledForCause
<1> QED BY <1>2, <1>3, <1>4, <1>5 DEF NInv

-----------------------------------------------------------------------------
(* The theorems.                                                           *)

\* Every step keeps the invariant.
LEMMA StepHolds == ASSUME NInv, [Next]_vars PROVE NInv'
<1>1. CASE UNCHANGED vars
  BY <1>1 DEF NInv, TypeOK, CycleOK, AttemptsDiffer, SettledForCause, vars
<1>2. CASE Enqueue \/ Tick
  BY <1>2, EnqueueHolds, TickHolds
<1>3. ASSUME NEW c \in Cycles, Cycle(c) PROVE NInv'
  BY <1>3, BeginHolds, RecoverHolds, ExpireHolds, ScanHolds, ExhaustHolds, ClaimHolds,
     SendHolds, CompleteHolds, FailHolds DEF Cycle
<1>4. ASSUME NEW c \in Cycles, Crash(c) PROVE NInv'
  BY <1>4, DoneHolds DEF Crash
<1> QED BY <1>1, <1>2, <1>3, <1>4 DEF Next

\* The inductive invariant: the attempt and the expiry every cycle in flight knows.
THEOREM CyclesKnow == Spec => []NInv
  BY InitHolds, StepHolds, PTL DEF Spec

\* The notification, the cycles and the clock keep their types.
THEOREM NotifyTypeCorrect == Spec => []TypeOK
<1>1. NInv => TypeOK
  BY DEF NInv
<1> QED BY <1>1, CyclesKnow, PTL

\* Overlapping cycles of dispatchDue() never share an attempt, nor claim one
\* beyond maxAttempts.
THEOREM ExclusiveAttempts == Spec => []AttemptsAreExclusive
<1>1. ASSUME NInv PROVE AttemptsAreExclusive
  <2>1. \A c \in InFlight : c \in Cycles /\ job[c].stage \in Flying /\ job[c].seen.attempts \in Nat
    BY <1>1 DEF InFlight, Flying, NInv, TypeOK, Job, Note
  <2>2. note.attempts \in Nat
    BY <1>1 DEF NInv, TypeOK, Note
  <2>3. ASSUME NEW c \in InFlight PROVE Attempt(c) <= note.attempts
    BY <1>1, <2>1, <2>2 DEF Attempt, NInv, CycleOK
  <2>4. ASSUME NEW c \in InFlight, NEW d \in InFlight, Attempt(c) = Attempt(d) PROVE c = d
    <3>1. job[c].seen.attempts = job[d].seen.attempts
      BY <2>1, <2>4 DEF Attempt
    <3> QED BY <1>1, <2>1, <3>1 DEF NInv, AttemptsDiffer
  <2> QED BY <1>1, <2>3, <2>4 DEF AttemptsAreExclusive, NInv
<1> QED BY <1>1, CyclesKnow, PTL

\* SENT rests on the receipt of an attempt that reached the owner, and a
\* notification is given up after its last attempt or its expiry.
THEOREM CauseOfSettling == Spec => []SettledForCause
<1>1. NInv => SettledForCause
  BY DEF NInv
<1> QED BY <1>1, CyclesKnow, PTL

\* A settled notification is never taken up again, whatever a cycle saw or sent
\* before.
THEOREM SettledForGood == Spec => SettledStays
<1>1. ASSUME NInv, [Next]_vars, Settled(note) PROVE note' = note
  <2>1. CASE UNCHANGED vars
    BY <2>1 DEF vars
  <2>2. CASE Enqueue \/ Tick
    BY <1>1, <2>2 DEF Enqueue, Tick, Settled
  <2>3. ASSUME NEW c \in Cycles, Cycle(c) \/ Crash(c) PROVE note' = note
    <3>1. CASE Begin(c) \/ Scan(c) \/ Send(c) \/ Crash(c)
      BY <3>1 DEF Begin, Scan, Send, Crash
    <3>2. CASE RecoverStaleClaims(c) \/ Complete(c) \/ Fail(c)
      BY <1>1, <3>2 DEF RecoverStaleClaims, Stale, Complete, Fail, Settled
    <3>3. CASE FailExpired(c)
      <4>1. GivenUp(note) = note \/ note.status = "SENT"
        BY <1>1, GivenUpIs DEF Settled, NInv, TypeOK
      <4> QED BY <3>3, <4>1 DEF FailExpired, Expired
    <3>4. CASE Exhaust(c)
      <4>1. job[c].seen.status \in {"PENDING", "FAILED"}
        BY <1>1, <3>4 DEF Exhaust, NInv, CycleOK
      <4>2. GivenUp(note) = note \/ note.status = "SENT"
        BY <1>1, GivenUpIs DEF Settled, NInv, TypeOK
      <4> QED BY <3>4, <4>1, <4>2 DEF Exhaust
    <3>5. CASE Claim(c)
      <4>1. job[c].seen.status \in {"PENDING", "FAILED"}
        BY <1>1, <3>5 DEF Claim, NInv, CycleOK
      <4> QED BY <1>1, <3>5, <4>1 DEF Claim, Claimed, Due, Settled
    <3> QED BY <2>3, <3>1, <3>2, <3>3, <3>4, <3>5 DEF Cycle
  <2> QED BY <1>1, <2>1, <2>2, <2>3 DEF Next
<1>2. NInv /\ [Next]_vars => [Settled(note) => note' = note]_vars
  BY <1>1
<1> QED BY <1>2, CyclesKnow, PTL DEF Spec, SettledStays
=============================================================================
