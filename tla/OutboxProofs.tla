---------------------------- MODULE OutboxProofs ----------------------------
(* Proofs about Outbox for every set of keys, workers, digests and quotas: *)
(* what its rows say, what its steps may never do, and its contract.       *)
EXTENDS Outbox, FiniteSetTheorems, TLAPS

LEMMA RowTyped ==
  ASSUME TypeOK, NEW k \in Keys
  PROVE  rows[k] \in Row
  BY DEF TypeOK

\* A running job holds a row of a key.
LEMMA JobTyped ==
  ASSUME TypeOK, NEW w \in Workers, job[w] # Idle
  PROVE  /\ job[w] \in Job
         /\ job[w].key \in Keys
         /\ job[w].seen \in Row
         /\ Version(w) \in Nat
         /\ Version(w) > 0
  <1>1. job[w] \in Job
    BY DEF TypeOK
  <1>2. job[w].seen \in Row /\ job[w].key \in Keys
    BY <1>1 DEF Job
  <1>3. job[w].seen.attemptVersion \in Nat
    BY <1>2 DEF Row
  <1> QED
    BY <1>1, <1>2, <1>3 DEF Version

LEMMA TypeInit == Init => TypeOK
  <1> SUFFICES ASSUME Init PROVE TypeOK
    OBVIOUS
  <1>1. NoRow \in Row
    BY DEF NoRow, Row, Statuses
  <1> QED
    BY <1>1 DEF Init, TypeOK, CallStates

\* Writing a typed row, releasing a job and leaving the rest alone keeps the types.
LEMMA TypeRow ==
  ASSUME TypeOK, NEW k \in Keys, NEW r \in Row, rows' = [rows EXCEPT ![k] = r]
  PROVE  rows' \in [Keys -> Row]
  BY DEF TypeOK

LEMMA TypeRelease ==
  ASSUME TypeOK, NEW w \in Workers, job' = [job EXCEPT ![w] = Idle]
  PROVE  job' \in [Workers -> Job \cup {Idle}]
  BY DEF TypeOK

LEMMA TypeHold ==
  ASSUME TypeOK, NEW w \in Workers, NEW k \in Keys, NEW r \in Row, Hold(w, k, r)
  PROVE  job' \in [Workers -> Job \cup {Idle}]
  <1>1. [stage |-> "reserved", key |-> k, seen |-> r, since |-> now] \in Job
    BY DEF TypeOK, Job
  <1> QED
    BY <1>1 DEF Hold, TypeOK

LEMMA TypeNext == TypeOK /\ [Next]_vars => TypeOK'
  <1> SUFFICES ASSUME TypeOK, [Next]_vars PROVE TypeOK'
    OBVIOUS
  <1> USE OutboxAssumption
  <1>0. ASSUME NEW k \in Keys
        PROVE  /\ [rows[k] EXCEPT !.status = "EXPIRED"] \in Row
               /\ [rows[k] EXCEPT !.status = "CANCELLED"] \in Row
               /\ [rows[k] EXCEPT !.nextAttemptAt = None] \in Row
               /\ MarkUnknown(rows[k]) \in Row
               /\ Release(rows[k]) \in Row
               /\ [rows[k] EXCEPT !.status = "CANCELLED", !.reconciled = TRUE] \in Row
               /\ [rows[k] EXCEPT !.status = "FAILED", !.nextAttemptAt = None,
                                  !.reconciled = TRUE] \in Row
               /\ \A receipt \in Receipts :
                    [rows[k] EXCEPT !.status = "SUCCEEDED", !.receipt = receipt,
                                    !.reconciled = TRUE] \in Row
    <2>1. rows[k] \in Row
      BY <1>0, RowTyped
    <2> QED
      BY <2>1 DEF Row, Statuses, MarkUnknown, Release
  <1>1. ASSUME NEW w \in Workers, NEW k \in Keys, NEW d \in Digests, ReserveNew(w, k, d)
        PROVE  TypeOK'
    <2> DEFINE r == [NoRow EXCEPT !.status = "PENDING", !.digest = d,
                                  !.createdAt = now, !.expiresAt = now + Ttl]
    <2>1. r \in Row
      <3>1. now + Ttl \in Nat /\ now \in Nat
        BY DEF TypeOK
      <3>2. NoRow \in Row
        BY DEF NoRow, Row, Statuses
      <3> QED
        BY <3>1, <3>2 DEF Row, Statuses
    <2>2. rows' = [rows EXCEPT ![k] = r] /\ Hold(w, k, r) /\ UNCHANGED <<calls, now>>
      BY <1>1 DEF ReserveNew
    <2> HIDE DEF r
    <2> QED
      BY <2>1, <2>2, TypeRow, TypeHold DEF TypeOK
  <1>2. ASSUME NEW w \in Workers, NEW k \in Keys,
               ReserveReplay(w, k) \/ ReserveLostRace(w, k)
        PROVE  TypeOK'
    <2>1. Hold(w, k, rows[k]) /\ UNCHANGED <<rows, calls, now>>
      BY <1>2 DEF ReserveReplay, ReserveLostRace
    <2> QED
      BY <2>1, RowTyped, TypeHold DEF TypeOK
  <1>3. ASSUME NEW w \in Workers, Claim(w)
        PROVE  TypeOK'
    <2> DEFINE k == job[w].key
    <2>1. job[w] \in Job /\ k \in Keys /\ Version(w) \in Nat /\ job[w].seen \in Row
      BY <1>3, JobTyped DEF Claim
    <2>2. PICK t \in 0 .. now : rows' = [rows EXCEPT ![k] = Claimed(rows[k], w, t)]
      BY <1>3 DEF Claim
    <2>3. rows[k] \in Row
      BY <2>1, RowTyped
    <2>4. t \in Nat
      BY DEF TypeOK
    <2>5. rows' \in [Keys -> Row]
      <3>1. <<w, Version(w)>> \in Tokens /\ t + Lease \in Nat
        BY <2>1, <2>4 DEF Tokens
      <3>2. rows[k].attemptCount + 1 \in Nat
        BY <2>3 DEF Row
      <3>3. Claimed(rows[k], w, t) \in Row
        BY <2>1, <2>3, <3>1, <3>2 DEF Claimed, Row, Statuses
      <3> QED
        BY <2>1, <2>2, <3>3, TypeRow
    <2>6. job' = [job EXCEPT ![w].stage = "dispatching"]
      BY <1>3 DEF Claim
    <2>7. job' \in [Workers -> Job \cup {Idle}]
      BY <2>1, <2>6 DEF TypeOK, Job
    <2>8. calls' = [calls EXCEPT ![k][Version(w)] = "open"] /\ now' = now
      BY <1>3 DEF Claim
    <2>9. calls' \in [Keys -> [Attempts -> CallStates]]
      BY <2>1, <2>8 DEF TypeOK, CallStates
    <2> QED
      BY <2>5, <2>7, <2>8, <2>9 DEF TypeOK
  <1>4. ASSUME NEW w \in Workers, LoseClaim(w) \/ Exhaust(w)
        PROVE  TypeOK'
    <2> DEFINE k == job[w].key
    <2>1. k \in Keys
      BY <1>4, JobTyped DEF LoseClaim, Exhaust
    <2>2. rows[k] \in Row
      BY <2>1, RowTyped
    <2>3. rows' \in [Keys -> Row]
      BY <1>4, <1>0, <2>1, <2>2 DEF LoseClaim, Exhaust, TypeOK
    <2>4. job' \in [Workers -> Job \cup {Idle}]
      BY <1>4, TypeRelease DEF LoseClaim, Exhaust
    <2> QED
      BY <1>4, <2>3, <2>4 DEF LoseClaim, Exhaust, TypeOK
  <1>5. ASSUME NEW w \in Workers, Complete(w) \/ Reject(w) \/ Ambiguous(w)
        PROVE  TypeOK'
    <2> DEFINE k == job[w].key
    <2>1. k \in Keys /\ Version(w) \in Nat /\ Version(w) > 0
      BY <1>5, JobTyped DEF Complete, Reject, Ambiguous
    <2>2. Release(rows[k]) \in Row
      BY <1>0, <2>1
    <2>3. ASSUME NEW n \in Nat \cup {None}
          PROVE  /\ [Release(rows[k]) EXCEPT !.status = "FAILED", !.nextAttemptAt = n] \in Row
                 /\ [Release(rows[k]) EXCEPT !.status = "UNKNOWN", !.nextAttemptAt = n] \in Row
      BY <2>2 DEF Row, Statuses
    <2>4. rows' \in [Keys -> Row]
      <3>1. CASE Complete(w)
        <4>1. <<k, Version(w)>> \in Receipts
          BY <2>1 DEF Receipts
        <4>2. [Release(rows[k]) EXCEPT !.status = "SUCCEEDED",
                                       !.receipt = <<k, Version(w)>>] \in Row
          BY <4>1, <2>2 DEF Row, Statuses
        <4> QED
          BY <3>1, <4>2, <2>1, <2>3 DEF Complete, TypeOK
      <3>2. CASE Reject(w)
        <4>1. now + RetryDelay \in Nat
          BY DEF TypeOK
        <4> QED
          BY <3>2, <4>1, <2>1, <2>3 DEF Reject, TypeOK
      <3>3. CASE Ambiguous(w)
        BY <3>3, <2>1, <2>3 DEF Ambiguous, TypeOK
      <3> QED
        BY <1>5, <3>1, <3>2, <3>3
    <2>5. job' \in [Workers -> Job \cup {Idle}]
      BY <1>5, TypeRelease DEF Complete, Reject, Ambiguous
    <2> QED
      BY <1>5, <2>4, <2>5 DEF Complete, Reject, Ambiguous, TypeOK
  <1>6. ASSUME NEW w \in Workers, Abandon(w)
        PROVE  TypeOK'
    BY <1>6, TypeRelease DEF Abandon, TypeOK
  <1>7. ASSUME NEW k \in Keys, ReserveLapsed(k) \/ ReserveExpired(k) \/ Cancel(k)
        PROVE  TypeOK'
    <2>1. CASE ReserveLapsed(k)
      BY <2>1, <1>0 DEF ReserveLapsed, TypeOK
    <2>2. CASE ReserveExpired(k)
      BY <2>2, <1>0 DEF ReserveExpired, TypeOK
    <2>3. CASE Cancel(k)
      BY <2>3, <1>0 DEF Cancel, TypeOK
    <2> QED
      BY <1>7, <2>1, <2>2, <2>3
  <1>8. ASSUME NEW k \in Keys, NEW j \in Keys, NEW v \in Attempts,
               ReconcileSucceeded(k, <<j, v>>)
        PROVE  TypeOK'
    <2>1. <<j, v>> \in Receipts
      BY DEF Receipts, Attempts
    <2> QED
      BY <1>8, <1>0, <2>1 DEF ReconcileSucceeded, TypeOK
  <1>9. ASSUME NEW k \in Keys, ReconcileFailed(k) \/ ReconcileCancelled(k)
        PROVE  TypeOK'
    BY <1>9, <1>0 DEF ReconcileFailed, ReconcileCancelled, TypeOK
  <1>10. ASSUME NEW k \in Keys, NEW v \in Attempts, ProviderDecides(k, v)
         PROVE  TypeOK'
    BY <1>10 DEF ProviderDecides, TypeOK, CallStates
  <1>11. CASE RecoverStaleExecuting
    BY <1>11, <1>0, RowTyped DEF RecoverStaleExecuting, TypeOK
  <1>12. CASE Tick
    BY <1>12 DEF Tick, TypeOK
  <1>13. CASE UNCHANGED vars
    BY <1>13 DEF vars, TypeOK
  <1> QED
    BY <1>1, <1>2, <1>3, <1>4, <1>5, <1>6, <1>7, <1>8, <1>9, <1>10, <1>11, <1>12, <1>13
    DEF Next, WorkerStep, KeyStep

\* The rows, the jobs, the provider's answers and the clock keep their types.
THEOREM TypeCorrect == Spec => []TypeOK
  BY TypeInit, TypeNext, PTL DEF Spec

-----------------------------------------------------------------------------
(* The safety invariant.                                                   *)

LEMMA InvInit == Init => IInv
  BY OutboxAssumption
  DEF Init, IInv, RowInv, Sequenced, StatusMatches, NothingSent, NoRow, Attempts

\* A step that writes one row and no call keeps the other rows' invariants.
LEMMA InvOneRow ==
  ASSUME TypeOK, IInv, NEW k \in Keys, NEW r,
         rows' = [rows EXCEPT ![k] = r], UNCHANGED calls,
         Sequenced(r, calls[k]), StatusMatches(k, r, calls[k])
  PROVE  IInv'
  <1> SUFFICES ASSUME NEW j \in Keys PROVE RowInv(j)'
    BY DEF IInv
  <1>1. CASE j = k
    <2>1. rows'[j] = r /\ calls'[j] = calls[k]
      BY <1>1 DEF TypeOK
    <2> QED
      BY <1>1, <2>1 DEF RowInv, Sequenced, StatusMatches, NothingSent
  <1>2. CASE j # k
    <2>1. rows'[j] = rows[j] /\ calls'[j] = calls[j] /\ RowInv(j)
      BY <1>2 DEF TypeOK, IInv
    <2> QED
      BY <2>1 DEF RowInv, Sequenced, StatusMatches, NothingSent
  <1> QED
    BY <1>1, <1>2

\* A step that changes no row and no call keeps the invariant.
LEMMA InvFrame ==
  ASSUME IInv, UNCHANGED <<rows, calls>>
  PROVE  IInv'
  BY DEF IInv, RowInv, Sequenced, StatusMatches, NothingSent

\* Writing one row, or none, keeps the invariant when the new row fits the calls.
LEMMA InvMaybeRow ==
  ASSUME TypeOK, IInv, NEW k \in Keys, NEW r, UNCHANGED calls,
         rows' = rows \/ (rows' = [rows EXCEPT ![k] = r] /\ Sequenced(r, calls[k])
                          /\ StatusMatches(k, r, calls[k]))
  PROVE  IInv'
  BY InvFrame, InvOneRow

\* Relabelling a row leaves its attempts in sequence.
LEMMA SequencedSame ==
  ASSUME NEW r, NEW q, NEW c, Sequenced(r, c),
         q.attemptCount = r.attemptCount, q.attemptVersion = r.attemptVersion
  PROVE  Sequenced(q, c)
  BY DEF Sequenced

\* A row whose status is FAILED or PENDING and not reconciled has sent nothing.
LEMMA UnsentRow ==
  ASSUME TypeOK, IInv, NEW k \in Keys, rows[k].status \in {"PENDING", "FAILED"},
         ~rows[k].reconciled
  PROVE  NothingSent(calls[k])
  <1>1. RowInv(k) /\ rows[k] \in Row /\ calls[k] \in [Attempts -> CallStates]
    BY DEF IInv, TypeOK
  <1>2. CASE rows[k].status = "FAILED"
    BY <1>1, <1>2 DEF RowInv, StatusMatches
  <1>3. CASE rows[k].status = "PENDING"
    <2>1. \A u \in Attempts : u > rows[k].attemptVersion
      BY <1>1, <1>3, OutboxAssumption DEF RowInv, StatusMatches, Attempts
    <2> QED
      BY <1>1, <2>1 DEF RowInv, Sequenced, NothingSent
  <1> QED
    BY <1>2, <1>3

LEMMA InvClaim ==
  ASSUME TypeOK, IInv, NEW w \in Workers, Claim(w)
  PROVE  IInv'
  <1> DEFINE k == job[w].key
             n == Version(w)
  <1>1. k \in Keys /\ n \in Nat
    BY JobTyped DEF Claim
  <1>2. PICK t \in 0 .. now : /\ MayClaim(w, t)
                              /\ Claimable(w, t)
                              /\ rows' = [rows EXCEPT ![k] = Claimed(rows[k], w, t)]
    BY DEF Claim
  <1>3. calls' = [calls EXCEPT ![k][n] = "open"]
    BY DEF Claim
  <1>4. /\ rows[k] \in Row
        /\ RowInv(k)
        /\ calls[k] \in [Attempts -> CallStates]
    BY <1>1 DEF TypeOK, IInv
  <1>5. ~rows[k].reconciled
    BY <1>2, <1>4 DEF Claimable, DueAt, RowInv, StatusMatches
  <1>6. n = rows[k].attemptVersion + 1 /\ n \in Attempts
    <2>1. rows[k].attemptVersion = job[w].seen.attemptVersion /\ rows[k].attemptCount < MaxAttempts
      BY <1>2 DEF Claimable
    <2>2. rows[k].attemptVersion \in Nat /\ rows[k].attemptCount = rows[k].attemptVersion
      BY <1>4 DEF RowInv, Sequenced, Row
    <2> QED
      BY <2>1, <2>2, OutboxAssumption DEF Version, Attempts
  <1>7. NothingSent(calls[k])
    BY <1>1, <1>2, <1>5, UnsentRow DEF Claimable
  <1> DEFINE r == Claimed(rows[k], w, t)
             c == [calls[k] EXCEPT ![n] = "open"]
  <1>8. /\ r.status = "EXECUTING"
        /\ r.attemptVersion = n
        /\ r.attemptCount = n
        /\ r.reconciled = FALSE
    BY <1>4, <1>5, <1>6 DEF Claimed, Row, RowInv, Sequenced
  <1>9. Sequenced(r, c)
    <2>1. n <= MaxAttempts /\ n \in Nat /\ rows[k].attemptVersion \in Nat
      BY <1>4, <1>6, OutboxAssumption DEF Attempts, Row
    <2>2. ASSUME NEW u \in Attempts
          PROVE  /\ u < n => c[u] = "rejected"
                 /\ u = n => c[u] # "none"
                 /\ u > n => c[u] = "none"
      <3>1. u \in Nat
        BY OutboxAssumption DEF Attempts
      <3>2. u # n => c[u] = calls[k][u]
        BY <1>4
      <3>3. u = n => c[u] = "open"
        BY <1>4
      <3>4. u = rows[k].attemptVersion => calls[k][u] = "rejected"
        BY <1>4, <1>7 DEF RowInv, Sequenced, NothingSent
      <3>5. /\ u < rows[k].attemptVersion => calls[k][u] = "rejected"
            /\ u > rows[k].attemptVersion => calls[k][u] = "none"
        BY <1>4 DEF RowInv, Sequenced
      <3> HIDE DEF c
      <3> QED
        BY <1>6, <2>1, <3>1, <3>2, <3>3, <3>4, <3>5
    <2> HIDE DEF r, c
    <2> QED
      BY <1>8, <2>1, <2>2 DEF Sequenced
  <1>10. StatusMatches(k, r, c)
    <2>1. n > 0
      BY <1>6, OutboxAssumption DEF Attempts
    <2> HIDE DEF r, c, n
    <2> QED
      BY <1>8, <2>1 DEF StatusMatches
  <1> SUFFICES ASSUME NEW j \in Keys PROVE RowInv(j)'
    BY DEF IInv
  <1>11. CASE j = k
    <2>1. rows'[j] = r /\ calls'[j] = c
      BY <1>1, <1>2, <1>3, <1>4, <1>6, <1>11 DEF TypeOK
    <2> HIDE DEF r, c
    <2> QED
      BY <1>9, <1>10, <1>11, <2>1 DEF RowInv, Sequenced, StatusMatches, NothingSent
  <1>12. CASE j # k
    <2>1. rows'[j] = rows[j] /\ calls'[j] = calls[j] /\ RowInv(j)
      BY <1>1, <1>2, <1>3, <1>12 DEF TypeOK, IInv
    <2> QED
      BY <2>1 DEF RowInv, Sequenced, StatusMatches, NothingSent
  <1> QED
    BY <1>11, <1>12

LEMMA InvProvider ==
  ASSUME TypeOK, IInv, NEW k \in Keys, NEW v \in Attempts, ProviderDecides(k, v)
  PROVE  IInv'
  <1>1. PICK a \in {"accepted", "rejected"} : calls' = [calls EXCEPT ![k][v] = a]
    BY DEF ProviderDecides
  <1>2. calls[k][v] = "open" /\ rows' = rows
    BY DEF ProviderDecides
  <1> SUFFICES ASSUME NEW j \in Keys PROVE RowInv(j)'
    BY DEF IInv
  <1>3. CASE j # k
    <2>1. rows'[j] = rows[j] /\ calls'[j] = calls[j] /\ RowInv(j)
      BY <1>1, <1>2, <1>3 DEF TypeOK, IInv
    <2> QED
      BY <2>1 DEF RowInv, Sequenced, StatusMatches, NothingSent
  <1>4. CASE j = k
    <2>1. calls[k] \in [Attempts -> CallStates] /\ rows[k] \in Row /\ RowInv(k)
      BY DEF TypeOK, IInv
    <2>2. calls'[k][v] = a /\ \A u \in Attempts : u # v => calls'[k][u] = calls[k][u]
      BY <1>1, <2>1 DEF TypeOK
    <2>3. v = rows[k].attemptVersion
      BY <1>2, <2>1, OutboxAssumption DEF RowInv, Sequenced, Row, Attempts
    <2>4. Sequenced(rows[k], calls'[k])
      BY <2>1, <2>2, <2>3 DEF RowInv, Sequenced
    <2>5. ~NothingSent(calls[k])
      BY <1>2 DEF NothingSent
    <2>6. StatusMatches(k, rows[k], calls'[k])
      BY <1>2, <2>1, <2>3, <2>5 DEF RowInv, StatusMatches
    <2> QED
      BY <1>2, <1>4, <2>4, <2>6 DEF RowInv, Sequenced, StatusMatches, NothingSent
  <1> QED
    BY <1>3, <1>4

LEMMA InvOutcome ==
  ASSUME TypeOK, IInv, NEW w \in Workers, Complete(w) \/ Reject(w) \/ Ambiguous(w)
  PROVE  IInv'
  <1> DEFINE k == job[w].key
             n == Version(w)
  <1>1. k \in Keys /\ n \in Nat /\ n > 0 /\ calls' = calls
    BY JobTyped DEF Complete, Reject, Ambiguous
  <1>2. rows[k] \in Row /\ RowInv(k) /\ calls[k] \in [Attempts -> CallStates]
    BY <1>1 DEF TypeOK, IInv
  <1>3. CASE ~Owns(w)
    BY <1>1, <1>3, InvFrame DEF Complete, Reject, Ambiguous
  <1>4. CASE Owns(w)
    <2>1. rows[k].status = "EXECUTING" /\ rows[k].attemptVersion = n /\ ~rows[k].reconciled
      BY <1>2, <1>4 DEF Owns, RowInv, StatusMatches
    <2>2. n \in Attempts
      BY <1>1, <1>2, <2>1, OutboxAssumption DEF RowInv, Sequenced, Attempts
    <2>3. CASE Reject(w)
      <3> DEFINE m == IF n >= MaxAttempts THEN None ELSE now + RetryDelay
                 r == [Release(rows[k]) EXCEPT !.status = "FAILED", !.nextAttemptAt = m]
      <3>1. rows' = [rows EXCEPT ![k] = r]
        BY <1>4, <2>3 DEF Reject
      <3>2. /\ r.status = "FAILED" /\ r.attemptVersion = n /\ ~r.reconciled
            /\ r.attemptCount = rows[k].attemptCount
        BY <1>2, <2>1 DEF Release, Row
      <3>3. calls[k][n] = "rejected"
        BY <2>3 DEF Reject
      <3>4. NothingSent(calls[k])
        BY <1>1, <1>2, <2>1, <3>3, OutboxAssumption
        DEF RowInv, Sequenced, NothingSent, Attempts
      <3> HIDE DEF r
      <3>5. Sequenced(r, calls[k])
        BY <1>2, <2>1, <3>2, SequencedSame DEF RowInv
      <3>6. StatusMatches(k, r, calls[k])
        BY <1>1, <3>2, <3>4 DEF StatusMatches
      <3> QED
        BY <1>1, <3>1, <3>5, <3>6, InvOneRow
    <2>4. ASSUME rows' = [rows EXCEPT ![k] = [Release(rows[k]) EXCEPT !.status = "UNKNOWN",
                                                                      !.nextAttemptAt = None]]
          PROVE  IInv'
      <3> DEFINE r == [Release(rows[k]) EXCEPT !.status = "UNKNOWN", !.nextAttemptAt = None]
      <3>1. /\ r.status = "UNKNOWN" /\ r.attemptVersion = n /\ ~r.reconciled
            /\ r.attemptCount = rows[k].attemptCount
        BY <1>2, <2>1 DEF Release, Row
      <3> HIDE DEF r
      <3>2. Sequenced(r, calls[k])
        BY <1>2, <2>1, <3>1, SequencedSame DEF RowInv
      <3>3. StatusMatches(k, r, calls[k])
        BY <1>1, <3>1 DEF StatusMatches
      <3> QED
        BY <1>1, <2>4, <3>2, <3>3, InvOneRow DEF r
    <2>5. CASE Ambiguous(w)
      BY <1>4, <2>4, <2>5 DEF Ambiguous
    <2>6. CASE Complete(w) /\ ReceiptTaken(k, <<k, n>>)
      BY <1>4, <2>4, <2>6 DEF Complete
    <2>7. CASE Complete(w) /\ ~ReceiptTaken(k, <<k, n>>)
      <3> DEFINE r == [Release(rows[k]) EXCEPT !.status = "SUCCEEDED", !.receipt = <<k, n>>]
      <3>1. rows' = [rows EXCEPT ![k] = r]
        BY <1>4, <2>7 DEF Complete
      <3>2. /\ r.status = "SUCCEEDED" /\ r.attemptVersion = n /\ ~r.reconciled
            /\ r.attemptCount = rows[k].attemptCount /\ r.receipt = <<k, n>>
        BY <1>2, <2>1 DEF Release, Row
      <3>3. calls[k][n] = "accepted"
        BY <2>7 DEF Complete
      <3> HIDE DEF r
      <3>4. Sequenced(r, calls[k])
        BY <1>2, <2>1, <3>2, SequencedSame DEF RowInv
      <3>5. StatusMatches(k, r, calls[k])
        BY <1>1, <3>2, <3>3 DEF StatusMatches
      <3> QED
        BY <1>1, <3>1, <3>4, <3>5, InvOneRow
    <2> QED
      BY <2>3, <2>5, <2>6, <2>7
  <1> QED
    BY <1>3, <1>4

LEMMA InvNext == TypeOK /\ IInv /\ [Next]_vars => IInv'
  <1> SUFFICES ASSUME TypeOK, IInv, [Next]_vars PROVE IInv'
    OBVIOUS
  <1>0. ASSUME NEW k \in Keys
        PROVE  rows[k] \in Row /\ RowInv(k)
    BY DEF TypeOK, IInv
  <1>1. ASSUME NEW w \in Workers, NEW k \in Keys, NEW d \in Digests, ReserveNew(w, k, d)
        PROVE  IInv'
    <2> DEFINE r == [NoRow EXCEPT !.status = "PENDING", !.digest = d,
                                  !.createdAt = now, !.expiresAt = now + Ttl]
    <2>1. rows' = [rows EXCEPT ![k] = r] /\ UNCHANGED calls /\ rows[k].status = "ABSENT"
      BY <1>1 DEF ReserveNew
    <2>2. /\ r.status = "PENDING" /\ ~r.reconciled
          /\ r.attemptCount = 0 /\ r.attemptVersion = 0
      BY DEF NoRow
    <2>3. rows[k].attemptVersion = 0 /\ rows[k].attemptCount = 0
      BY <1>0, <2>1 DEF RowInv, Sequenced, StatusMatches
    <2> HIDE DEF r
    <2>4. Sequenced(r, calls[k])
      BY <1>0, <2>2, <2>3, SequencedSame DEF RowInv
    <2>5. StatusMatches(k, r, calls[k])
      BY <2>2 DEF StatusMatches
    <2> QED
      BY <2>1, <2>4, <2>5, InvOneRow
  <1>2. ASSUME NEW w \in Workers, NEW k \in Keys,
               ReserveReplay(w, k) \/ ReserveLostRace(w, k)
        PROVE  IInv'
    BY <1>2, InvFrame DEF ReserveReplay, ReserveLostRace
  <1>3. ASSUME NEW k \in Keys, NEW s \in {"EXPIRED", "CANCELLED"}, UNCHANGED calls,
               rows[k].status \in {"PENDING", "FAILED"},
               rows' = [rows EXCEPT ![k].status = s]
        PROVE  IInv'
    <2> DEFINE r == [rows[k] EXCEPT !.status = s]
    <2>1. rows' = [rows EXCEPT ![k] = r]
      BY <1>3
    <2>2. /\ r.status = s /\ r.reconciled = rows[k].reconciled
          /\ r.attemptCount = rows[k].attemptCount
          /\ r.attemptVersion = rows[k].attemptVersion
      BY <1>0, <1>3 DEF Row
    <2>3. ~r.reconciled => NothingSent(calls[k])
      BY <1>3, <2>2, UnsentRow
    <2> HIDE DEF r
    <2>4. Sequenced(r, calls[k])
      BY <1>0, <1>3, <2>2, SequencedSame DEF RowInv
    <2>5. StatusMatches(k, r, calls[k])
      BY <1>3, <2>2, <2>3 DEF StatusMatches
    <2> QED
      BY <1>3, <2>1, <2>4, <2>5, InvOneRow
  <1>4. ASSUME NEW w \in Workers, LoseClaim(w)
        PROVE  IInv'
    <2>1. job[w].key \in Keys
      BY <1>4, JobTyped DEF LoseClaim
    <2> QED
      BY <1>3, <1>4, <2>1 DEF LoseClaim
  <1>5. ASSUME NEW w \in Workers, Exhaust(w)
        PROVE  IInv'
    <2> DEFINE k == job[w].key
               r == [rows[k] EXCEPT !.nextAttemptAt = None]
    <2>1. k \in Keys
      BY <1>5, JobTyped DEF Exhaust
    <2>2. rows' = rows \/ rows' = [rows EXCEPT ![k] = r]
      BY <1>5 DEF Exhaust
    <2>3. /\ r.status = rows[k].status /\ r.reconciled = rows[k].reconciled
          /\ r.attemptCount = rows[k].attemptCount /\ r.receipt = rows[k].receipt
          /\ r.attemptVersion = rows[k].attemptVersion /\ r.nextAttemptAt = None
      BY <1>0, <2>1 DEF Row
    <2> HIDE DEF r
    <2>4. Sequenced(r, calls[k])
      BY <1>0, <2>1, <2>3, SequencedSame DEF RowInv
    <2>5. StatusMatches(k, r, calls[k])
      BY <1>0, <2>1, <2>3 DEF RowInv, StatusMatches
    <2>6. UNCHANGED calls
      BY <1>5 DEF Exhaust
    <2> QED
      BY <2>1, <2>2, <2>4, <2>5, <2>6, InvMaybeRow
  <1>6. ASSUME NEW w \in Workers, Abandon(w)
        PROVE  IInv'
    BY <1>6, InvFrame DEF Abandon
  <1>7. ASSUME NEW k \in Keys, ReserveExpired(k) \/ Cancel(k)
        PROVE  IInv'
    BY <1>3, <1>7 DEF ReserveExpired, Cancel
  <1>8. ASSUME NEW k \in Keys, rows[k].status = "EXECUTING"
        PROVE  /\ Sequenced(MarkUnknown(rows[k]), calls[k])
               /\ StatusMatches(k, MarkUnknown(rows[k]), calls[k])
    <2> DEFINE r == MarkUnknown(rows[k])
    <2>1. /\ r.status = "UNKNOWN" /\ r.reconciled = rows[k].reconciled
          /\ r.attemptCount = rows[k].attemptCount
          /\ r.attemptVersion = rows[k].attemptVersion
      BY <1>0, <1>8 DEF Row, MarkUnknown
    <2>2. ~rows[k].reconciled
      BY <1>0, <1>8 DEF RowInv, StatusMatches
    <2> HIDE DEF r
    <2>3. Sequenced(r, calls[k])
      BY <1>0, <1>8, <2>1, SequencedSame DEF RowInv
    <2>4. StatusMatches(k, r, calls[k])
      BY <1>0, <1>8, <2>1, <2>2 DEF RowInv, StatusMatches
    <2> QED
      BY <2>3, <2>4 DEF r
  <1>9. ASSUME NEW k \in Keys, ReserveLapsed(k)
        PROVE  IInv'
    BY <1>8, <1>9, InvOneRow DEF ReserveLapsed
  <1>10. CASE RecoverStaleExecuting
    <2>1. UNCHANGED calls
          /\ rows' = [k \in Keys |-> IF Stale(rows[k]) THEN MarkUnknown(rows[k]) ELSE rows[k]]
      BY <1>10 DEF RecoverStaleExecuting
    <2> SUFFICES ASSUME NEW k \in Keys PROVE RowInv(k)'
      BY DEF IInv
    <2>2. CASE Stale(rows[k])
      <3>1. rows'[k] = MarkUnknown(rows[k]) /\ calls'[k] = calls[k]
        BY <2>1, <2>2
      <3> QED
        BY <1>8, <2>2, <3>1 DEF Stale, RowInv, Sequenced, StatusMatches, NothingSent
    <2>3. CASE ~Stale(rows[k])
      <3>1. rows'[k] = rows[k] /\ calls'[k] = calls[k]
        BY <2>1, <2>3
      <3> QED
        BY <1>0, <3>1 DEF RowInv, Sequenced, StatusMatches, NothingSent
    <2> QED
      BY <2>2, <2>3
  <1>11. ASSUME NEW k \in Keys, NEW r, rows' = [rows EXCEPT ![k] = r], UNCHANGED calls,
                rows[k].status = "UNKNOWN",
                r.status \in {"SUCCEEDED", "FAILED", "CANCELLED"}, r.reconciled = TRUE,
                r.status = "FAILED" => r.nextAttemptAt = None,
                r.attemptCount = rows[k].attemptCount,
                r.attemptVersion = rows[k].attemptVersion
         PROVE  IInv'
    <2>1. Sequenced(r, calls[k])
      BY <1>0, <1>11, SequencedSame DEF RowInv
    <2>2. StatusMatches(k, r, calls[k])
      BY <1>0, <1>11 DEF RowInv, StatusMatches
    <2> QED
      BY <1>11, <2>1, <2>2, InvOneRow
  <1>12. ASSUME NEW k \in Keys, NEW j \in Keys, NEW v \in Attempts,
                ReconcileSucceeded(k, <<j, v>>)
         PROVE  IInv'
    <2> DEFINE r == [rows[k] EXCEPT !.status = "SUCCEEDED", !.receipt = <<j, v>>,
                                    !.reconciled = TRUE]
    <2>1. rows' = [rows EXCEPT ![k] = r] /\ UNCHANGED calls /\ rows[k].status = "UNKNOWN"
      BY <1>12 DEF ReconcileSucceeded
    <2>2. /\ r.status = "SUCCEEDED" /\ r.reconciled = TRUE
          /\ r.attemptCount = rows[k].attemptCount
          /\ r.attemptVersion = rows[k].attemptVersion
      BY <1>0 DEF Row
    <2> HIDE DEF r
    <2> QED
      BY <1>11, <2>1, <2>2
  <1>13. ASSUME NEW k \in Keys, ReconcileFailed(k)
         PROVE  IInv'
    <2> DEFINE r == [rows[k] EXCEPT !.status = "FAILED", !.nextAttemptAt = None,
                                    !.reconciled = TRUE]
    <2>1. rows' = [rows EXCEPT ![k] = r] /\ UNCHANGED calls /\ rows[k].status = "UNKNOWN"
      BY <1>13 DEF ReconcileFailed
    <2>2. /\ r.status = "FAILED" /\ r.nextAttemptAt = None /\ r.reconciled = TRUE
          /\ r.attemptCount = rows[k].attemptCount
          /\ r.attemptVersion = rows[k].attemptVersion
      BY <1>0 DEF Row
    <2> HIDE DEF r
    <2> QED
      BY <1>11, <2>1, <2>2
  <1>14. ASSUME NEW k \in Keys, ReconcileCancelled(k)
         PROVE  IInv'
    <2> DEFINE r == [rows[k] EXCEPT !.status = "CANCELLED", !.reconciled = TRUE]
    <2>1. rows' = [rows EXCEPT ![k] = r] /\ UNCHANGED calls /\ rows[k].status = "UNKNOWN"
      BY <1>14 DEF ReconcileCancelled
    <2>2. /\ r.status = "CANCELLED" /\ r.reconciled = TRUE
          /\ r.attemptCount = rows[k].attemptCount
          /\ r.attemptVersion = rows[k].attemptVersion
      BY <1>0 DEF Row
    <2> HIDE DEF r
    <2> QED
      BY <1>11, <2>1, <2>2
  <1>15. CASE Tick \/ UNCHANGED vars
    BY <1>15, InvFrame DEF Tick, vars
  <1> QED
    BY <1>1, <1>2, <1>4, <1>5, <1>6, <1>7, <1>9, <1>10, <1>12, <1>13, <1>14, <1>15,
       InvClaim, InvOutcome, InvProvider
    DEF Next, WorkerStep, KeyStep

\* Every row always agrees with what happened at the provider.
THEOREM RowsMatchCalls == Spec => []IInv
  BY TypeInit, TypeNext, InvInit, InvNext, PTL DEF Spec

LEMMA InvImpliesAtMostOne == TypeOK /\ IInv => AtMostOneAcceptance
  <1> SUFFICES ASSUME TypeOK, IInv, NEW k \in Keys, NEW u \in Accepted(k), NEW v \in Accepted(k)
               PROVE  u = v
    BY DEF AtMostOneAcceptance
  <1>1. RowInv(k) /\ rows[k].attemptVersion \in Nat
    BY DEF IInv, TypeOK, Row
  <1>2. /\ u \in Attempts /\ calls[k][u] = "accepted"
        /\ v \in Attempts /\ calls[k][v] = "accepted"
    BY DEF Accepted
  <1>3. u = rows[k].attemptVersion /\ v = rows[k].attemptVersion
    BY <1>1, <1>2, OutboxAssumption DEF RowInv, Sequenced, Attempts
  <1> QED
    BY <1>3

LEMMA InvImpliesTruthful == TypeOK /\ IInv => StatusIsTruthful
  <1> SUFFICES ASSUME TypeOK, IInv, NEW k \in Keys, ~rows[k].reconciled
               PROVE  /\ rows[k].status = "SUCCEEDED" =>
                           /\ rows[k].receipt = <<k, rows[k].attemptVersion>>
                           /\ Accepted(k) = {rows[k].attemptVersion}
                      /\ rows[k].status \in {"PENDING", "FAILED", "CANCELLED", "EXPIRED"} =>
                           NothingSent(calls[k])
    BY DEF StatusIsTruthful, NothingSent
  <1>1. RowInv(k) /\ rows[k].attemptVersion \in Nat
    BY DEF IInv, TypeOK, Row
  <1>2. CASE rows[k].status = "SUCCEEDED"
    <2> DEFINE v == rows[k].attemptVersion
    <2>1. v \in Attempts /\ calls[k][v] = "accepted" /\ rows[k].receipt = <<k, v>>
      BY <1>1, <1>2, OutboxAssumption DEF RowInv, Sequenced, StatusMatches, Attempts
    <2>2. \A u \in Accepted(k) : u = v
      BY <2>1, InvImpliesAtMostOne DEF AtMostOneAcceptance, Accepted
    <2>3. v \in Accepted(k)
      BY <2>1 DEF Accepted
    <2> QED
      BY <1>2, <2>1, <2>2, <2>3
  <1>3. CASE rows[k].status \in {"PENDING", "FAILED"}
    BY <1>3, UnsentRow
  <1>4. CASE rows[k].status \in {"CANCELLED", "EXPIRED"}
    BY <1>1, <1>4 DEF RowInv, StatusMatches
  <1> QED
    BY <1>2, <1>3, <1>4

\* One external action is never accepted by the provider twice.
THEOREM AtMostOnce == Spec => []AtMostOneAcceptance
  BY TypeCorrect, RowsMatchCalls, InvImpliesAtMostOne, PTL

\* Until an administrator overrules it, the status of a row tells the truth
\* about the provider.
THEOREM Truthful == Spec => []StatusIsTruthful
  BY TypeCorrect, RowsMatchCalls, InvImpliesTruthful, PTL

-----------------------------------------------------------------------------
(* What a step may never do.                                               *)

LEMMA ClosedStep ==
  ASSUME TypeOK, Next, NEW k \in Keys, rows[k].status \in Closed
  PROVE  rows'[k] = rows[k]
  <1> USE DEF Closed
  <1>1. ASSUME NEW w \in Workers, NEW j \in Keys, NEW d \in Digests, ReserveNew(w, j, d)
        PROVE  rows'[k] = rows[k]
    BY <1>1 DEF ReserveNew, TypeOK
  <1>2. ASSUME NEW w \in Workers, NEW j \in Keys,
               ReserveReplay(w, j) \/ ReserveLostRace(w, j)
        PROVE  rows'[k] = rows[k]
    BY <1>2 DEF ReserveReplay, ReserveLostRace
  <1>3. ASSUME NEW w \in Workers, Claim(w)
        PROVE  rows'[k] = rows[k]
    <2>1. job[w].key # k
      BY <1>3 DEF Claim, Claimable
    <2> QED
      BY <1>3, <2>1 DEF Claim, TypeOK
  <1>4. ASSUME NEW w \in Workers, LoseClaim(w) \/ Exhaust(w)
        PROVE  rows'[k] = rows[k]
    BY <1>4 DEF LoseClaim, Exhaust, TypeOK
  <1>5. ASSUME NEW w \in Workers, Complete(w) \/ Reject(w) \/ Ambiguous(w) \/ Abandon(w)
        PROVE  rows'[k] = rows[k]
    <2>1. CASE job[w].key = k
      BY <1>5, <2>1 DEF Complete, Reject, Ambiguous, Abandon, Owns
    <2>2. CASE job[w].key # k
      BY <1>5, <2>2 DEF Complete, Reject, Ambiguous, Abandon, TypeOK
    <2> QED
      BY <2>1, <2>2
  <1>6. ASSUME NEW j \in Keys, KeyStep(j)
        PROVE  rows'[k] = rows[k]
    BY <1>6 DEF KeyStep, ReserveLapsed, ReserveExpired, Cancel, ReconcileSucceeded,
                ReconcileFailed, ReconcileCancelled, ProviderDecides, TypeOK
  <1>7. CASE RecoverStaleExecuting
    BY <1>7 DEF RecoverStaleExecuting, Stale
  <1>8. CASE Tick
    BY <1>8 DEF Tick
  <1> QED
    BY <1>1, <1>2, <1>3, <1>4, <1>5, <1>6, <1>7, <1>8 DEF Next, WorkerStep

\* SUCCEEDED, CANCELLED and EXPIRED rows never change again.
THEOREM ClosedForever == Spec => ClosedIsFinal
  <1>1. TypeOK /\ [Next]_vars => [\A k \in Keys : rows[k].status \in Closed => rows'[k] = rows[k]]_vars
    BY ClosedStep DEF vars
  <1> QED
    BY <1>1, TypeCorrect, PTL DEF Spec, ClosedIsFinal

\* Only a claim opens a provider call.
LEMMA CallsStep ==
  ASSUME TypeOK, Next
  PROVE  \/ \E w \in Workers : Claim(w)
         \/ \E k \in Keys, v \in Attempts : ProviderDecides(k, v)
         \/ UNCHANGED calls
  BY DEF Next, WorkerStep, KeyStep, ReserveNew, ReserveReplay, ReserveLostRace, LoseClaim,
         Exhaust, Complete, Reject, Ambiguous, Abandon, ReserveLapsed, ReserveExpired,
         Cancel, RecoverStaleExecuting, ReconcileSucceeded, ReconcileFailed,
         ReconcileCancelled, Tick

\* What a claim finds: a row with no open call and the version after its last.
LEMMA ClaimFinds ==
  ASSUME TypeOK, IInv, NEW w \in Workers, Claim(w)
  PROVE  /\ job[w].key \in Keys
         /\ Version(w) \in Attempts
         /\ Version(w) = rows[job[w].key].attemptVersion + 1
         /\ NothingSent(calls[job[w].key])
         /\ RowInv(job[w].key)
         /\ rows[job[w].key] \in Row
         /\ ~rows[job[w].key].reconciled
         /\ OutcomeOf(rows[job[w].key]) = "open"
  <1> DEFINE k == job[w].key
  <1>1. k \in Keys
    BY JobTyped DEF Claim
  <1>2. PICK t \in 0 .. now : Claimable(w, t)
    BY DEF Claim
  <1>3. rows[k] \in Row /\ RowInv(k)
    BY <1>1 DEF TypeOK, IInv
  <1>4. ~rows[k].reconciled
    BY <1>2, <1>3 DEF Claimable, DueAt, RowInv, StatusMatches
  <1>5. Version(w) \in Attempts /\ Version(w) = rows[k].attemptVersion + 1
    BY <1>2, <1>3, OutboxAssumption
    DEF Claimable, RowInv, Sequenced, Row, Version, Attempts
  <1>6. NothingSent(calls[k])
    BY <1>1, <1>2, <1>4, UnsentRow DEF Claimable
  <1>7. OutcomeOf(rows[k]) = "open"
    BY <1>2, <1>4 DEF Claimable, DueAt, OutcomeOf
  <1> QED
    BY <1>1, <1>3, <1>4, <1>5, <1>6, <1>7

LEMMA RetryStep ==
  ASSUME TypeOK, IInv, Next, NEW k \in Keys, NEW v \in Attempts,
         calls[k][v] = "none", calls'[k][v] # "none"
  PROVE  \A u \in Attempts \ {v} : calls[k][u] = (IF u < v THEN "rejected" ELSE "none")
  <1>1. calls \in [Keys -> [Attempts -> CallStates]]
    BY DEF TypeOK
  <1>2. ASSUME NEW w \in Workers, Claim(w)
        PROVE  \A u \in Attempts \ {v} : calls[k][u] = (IF u < v THEN "rejected" ELSE "none")
    <2>1. calls' = [calls EXCEPT ![job[w].key][Version(w)] = "open"]
      BY <1>2 DEF Claim
    <2>2. job[w].key = k /\ Version(w) = v
      BY <1>1, <2>1
    <2>3. /\ v = rows[k].attemptVersion + 1 /\ NothingSent(calls[k])
          /\ RowInv(k) /\ rows[k] \in Row
      BY <1>2, <2>2, ClaimFinds
    <2>4. ASSUME NEW u \in Attempts, u # v
          PROVE  calls[k][u] = (IF u < v THEN "rejected" ELSE "none")
      <3>1. u \in Nat /\ rows[k].attemptVersion \in Nat
        BY <2>3, OutboxAssumption DEF Attempts, Row
      <3>2. CASE u > v
        BY <2>3, <3>1, <3>2 DEF RowInv, Sequenced
      <3>3. CASE u < v
        <4>1. u = rows[k].attemptVersion \/ u < rows[k].attemptVersion
          BY <2>3, <3>1, <3>3
        <4>2. calls[k][u] = "rejected"
          BY <2>3, <4>1 DEF RowInv, Sequenced, NothingSent
        <4> QED
          BY <3>3, <4>2
      <3> QED
        BY <2>3, <2>4, <3>1, <3>2, <3>3
    <2> QED
      BY <2>4
  <1>3. ASSUME NEW j \in Keys, NEW u \in Attempts, ProviderDecides(j, u)
        PROVE  FALSE
    BY <1>1, <1>3 DEF ProviderDecides
  <1> QED
    BY <1>2, <1>3, CallsStep

\* A retry follows only explicit rejections of every earlier call of its row.
THEOREM RetrySafe == Spec => RetryOnlyAfterRejection
  <1>1. TypeOK /\ IInv /\ [Next]_vars =>
          [\A k \in Keys, v \in Attempts :
             calls[k][v] = "none" /\ calls'[k][v] # "none" =>
               \A u \in Attempts \ {v} :
                 calls[k][u] = (IF u < v THEN "rejected" ELSE "none")]_vars
    BY RetryStep DEF vars
  <1> QED
    BY <1>1, TypeCorrect, RowsMatchCalls, PTL DEF Spec, RetryOnlyAfterRejection

-----------------------------------------------------------------------------
(* How a row joins the unresolved and the counted ones.                    *)

\* A row goes on as what it was, neither counted nor unresolved anew.
GoesOn(r, s) ==
  /\ s.digest = r.digest
  /\ s.createdAt = r.createdAt
  /\ s.attemptCount >= r.attemptCount
  /\ s.status \notin ActiveStates => s.attemptCount = r.attemptCount
  /\ s.status \in ActiveStates => r.status \in ActiveStates
  /\ s.status \in Unresolved => r.status \in Unresolved

\* Row k becomes the new or retried row r, within the quotas of this moment.
Joins(k, r) ==
  /\ rows' = [rows EXCEPT ![k] = r]
  /\ UNCHANGED now
  /\ WithinQuotas(k, r.digest)
  /\ r.digest \in Digests \/ (r.digest = rows[k].digest /\ rows[k].attemptCount > 0)
  /\ r.attemptCount > 1 \/ NoEquivalent(k, r.digest)

RowsGoOn == (\A k \in Keys : GoesOn(rows[k], rows'[k])) /\ now' \in Nat /\ now' >= now

\* Writing one row that goes on makes all rows go on.
LEMMA OneGoesOn ==
  ASSUME TypeOK, NEW k \in Keys, NEW r, GoesOn(rows[k], r),
         rows' = [rows EXCEPT ![k] = r], UNCHANGED now
  PROVE  RowsGoOn
  <1>1. ASSUME NEW j \in Keys PROVE GoesOn(rows[j], rows'[j])
    <2>1. rows'[j] = IF j = k THEN r ELSE rows[j]
      BY DEF TypeOK
    <2>2. rows[j].attemptCount \in Nat
      BY RowTyped DEF Row
    <2> QED
      BY <2>1, <2>2 DEF GoesOn
  <1> QED
    BY <1>1 DEF RowsGoOn, TypeOK

LEMMA SameRowsGoOn ==
  ASSUME TypeOK, rows' = rows, now' = now \/ now' = now + 1
  PROVE  RowsGoOn
  <1>1. \A k \in Keys : rows[k].attemptCount \in Nat
    BY RowTyped DEF Row
  <1> QED
    BY <1>1 DEF RowsGoOn, GoesOn, TypeOK

\* A claim retries a rejected row, or goes on with a new one.
LEMMA ClaimJoins ==
  ASSUME TypeOK, IInv, NEW w \in Workers, Claim(w)
  PROVE  RowsGoOn \/ \E k \in Keys, r \in Row : Joins(k, r)
  <1> DEFINE k == job[w].key
  <1>1. /\ k \in Keys /\ rows[k] \in Row /\ Version(w) = rows[k].attemptVersion + 1
        /\ RowInv(k)
    BY ClaimFinds
  <1>2. PICK t \in 0 .. now : /\ Claimable(w, t)
                              /\ rows' = [rows EXCEPT ![k] = Claimed(rows[k], w, t)]
    BY DEF Claim
  <1> DEFINE r == Claimed(rows[k], w, t)
  <1>3. /\ r.digest = rows[k].digest /\ r.createdAt = rows[k].createdAt
        /\ r.attemptCount = rows[k].attemptCount + 1 /\ rows[k].attemptCount \in Nat
        /\ r.status = "EXECUTING"
    BY <1>1 DEF Claimed, Row
  <1>4. r \in Row
    BY <1>1, <1>2, TypeNext DEF TypeOK, Next, WorkerStep
  <1>5. WithinQuotas(k, r.digest) /\ UNCHANGED now
    BY <1>3 DEF Claim
  <1>6. CASE rows[k].status = "PENDING"
    <2>1. GoesOn(rows[k], r)
      BY <1>3, <1>6 DEF GoesOn, ActiveStates, Unresolved
    <2> HIDE DEF r
    <2> QED
      BY <1>1, <1>2, <1>5, <2>1, OneGoesOn DEF r
  <1>7. CASE rows[k].status = "FAILED"
    <2>1. rows[k].attemptCount > 0
      BY <1>1, <1>7 DEF RowInv, StatusMatches, Sequenced
    <2>2. r.attemptCount > 1
      BY <1>3, <2>1
    <2> QED
      BY <1>1, <1>2, <1>3, <1>4, <1>5, <2>1, <2>2 DEF Joins
  <1> QED
    BY <1>2, <1>6, <1>7 DEF Claimable

\* Every other step lets the rows go on, but for the reservation of a new one.
LEMMA RowsStep ==
  ASSUME TypeOK, IInv, [Next]_vars
  PROVE  RowsGoOn \/ \E k \in Keys, r \in Row : Joins(k, r)
  <1> USE DEF ActiveStates, Unresolved
  <1>0. ASSUME NEW k \in Keys PROVE rows[k] \in Row /\ rows[k].attemptCount \in Nat
    BY RowTyped DEF Row
  <1>1. ASSUME NEW w \in Workers, NEW k \in Keys, NEW d \in Digests, ReserveNew(w, k, d)
        PROVE  \E r \in Row : Joins(k, r)
    <2> DEFINE r == [NoRow EXCEPT !.status = "PENDING", !.digest = d,
                                  !.createdAt = now, !.expiresAt = now + Ttl]
    <2>1. r \in Row
      <3>1. now + Ttl \in Nat /\ now \in Nat
        BY OutboxAssumption DEF TypeOK
      <3>2. NoRow \in Row
        BY OutboxAssumption DEF NoRow, Row, Statuses
      <3> QED
        BY <3>1, <3>2 DEF Row, Statuses
    <2>2. r.digest = d
      BY DEF NoRow
    <2>3. rows' = [rows EXCEPT ![k] = r] /\ UNCHANGED now /\ WithinQuotas(k, d) /\ NoEquivalent(k, d)
      BY <1>1 DEF ReserveNew
    <2> HIDE DEF r
    <2> QED
      BY <2>1, <2>2, <2>3 DEF Joins
  <1>2. ASSUME NEW w \in Workers, NEW k \in Keys,
               ReserveReplay(w, k) \/ ReserveLostRace(w, k)
        PROVE  RowsGoOn
    BY <1>2, SameRowsGoOn DEF ReserveReplay, ReserveLostRace
  <1>3. ASSUME NEW w \in Workers, LoseClaim(w) \/ Exhaust(w)
        PROVE  RowsGoOn
    <2> DEFINE k == job[w].key
    <2>1. k \in Keys /\ UNCHANGED now
      BY <1>3, JobTyped DEF LoseClaim, Exhaust
    <2>2. /\ GoesOn(rows[k], [rows[k] EXCEPT !.status = "EXPIRED"])
          /\ GoesOn(rows[k], [rows[k] EXCEPT !.nextAttemptAt = None])
      BY <1>0, <2>1 DEF GoesOn, Row
    <2>3. \/ rows' = rows
          \/ rows' = [rows EXCEPT ![k] = [rows[k] EXCEPT !.status = "EXPIRED"]]
          \/ rows' = [rows EXCEPT ![k] = [rows[k] EXCEPT !.nextAttemptAt = None]]
      BY <1>3 DEF LoseClaim, Exhaust
    <2> QED
      BY <2>1, <2>2, <2>3, OneGoesOn, SameRowsGoOn
  <1>4. ASSUME NEW w \in Workers, Complete(w) \/ Reject(w) \/ Ambiguous(w)
        PROVE  RowsGoOn
    <2> DEFINE k == job[w].key
    <2>1. k \in Keys /\ UNCHANGED now
      BY <1>4, JobTyped DEF Complete, Reject, Ambiguous
    <2>2. ASSUME Owns(w), NEW n
          PROVE  /\ GoesOn(rows[k], [Release(rows[k]) EXCEPT !.status = "UNKNOWN",
                                                             !.nextAttemptAt = n])
                 /\ GoesOn(rows[k], [Release(rows[k]) EXCEPT !.status = "FAILED",
                                                             !.nextAttemptAt = n])
                 /\ GoesOn(rows[k], [Release(rows[k]) EXCEPT !.status = "SUCCEEDED",
                                                             !.receipt = n])
      BY <1>0, <2>1, <2>2 DEF GoesOn, Release, Owns, Row
    <2>3. CASE Complete(w)
      <3>1. \/ rows' = rows
            \/ /\ Owns(w)
               /\ \/ rows' = [rows EXCEPT ![k] = [Release(rows[k]) EXCEPT !.status = "UNKNOWN",
                                                                         !.nextAttemptAt = None]]
                  \/ rows' = [rows EXCEPT ![k] = [Release(rows[k]) EXCEPT !.status = "SUCCEEDED",
                                                                         !.receipt = <<k, Version(w)>>]]
        BY <2>3 DEF Complete
      <3> QED
        BY <2>1, <2>2, <3>1, OneGoesOn, SameRowsGoOn
    <2>4. CASE Reject(w)
      <3> DEFINE n == IF Version(w) >= MaxAttempts THEN None ELSE now + RetryDelay
      <3>1. \/ rows' = rows
            \/ /\ Owns(w)
               /\ rows' = [rows EXCEPT ![k] = [Release(rows[k]) EXCEPT !.status = "FAILED",
                                                                      !.nextAttemptAt = n]]
        BY <2>4 DEF Reject
      <3> HIDE DEF n
      <3> QED
        BY <2>1, <2>2, <3>1, OneGoesOn, SameRowsGoOn
    <2>5. CASE Ambiguous(w)
      <3>1. \/ rows' = rows
            \/ /\ Owns(w)
               /\ rows' = [rows EXCEPT ![k] = [Release(rows[k]) EXCEPT !.status = "UNKNOWN",
                                                                      !.nextAttemptAt = None]]
        BY <2>5 DEF Ambiguous
      <3> QED
        BY <2>1, <2>2, <3>1, OneGoesOn, SameRowsGoOn
    <2> QED
      BY <1>4, <2>3, <2>4, <2>5
  <1>5. ASSUME NEW k \in Keys, KeyStep(k)
        PROVE  RowsGoOn
    <2>1. CASE ReserveLapsed(k)
      <3>1. GoesOn(rows[k], MarkUnknown(rows[k]))
        BY <1>0, <2>1 DEF GoesOn, MarkUnknown, ReserveLapsed, Row
      <3> QED
        BY <2>1, <3>1, OneGoesOn DEF ReserveLapsed
    <2>2. CASE ReserveExpired(k) \/ Cancel(k)
      <3>1. /\ GoesOn(rows[k], [rows[k] EXCEPT !.status = "EXPIRED"])
            /\ GoesOn(rows[k], [rows[k] EXCEPT !.status = "CANCELLED"])
        BY <1>0 DEF GoesOn, Row
      <3> QED
        BY <2>2, <3>1, OneGoesOn DEF ReserveExpired, Cancel
    <2>3. ASSUME NEW j \in Keys, NEW v \in Attempts, ReconcileSucceeded(k, <<j, v>>)
          PROVE  RowsGoOn
      <3> DEFINE r == [rows[k] EXCEPT !.status = "SUCCEEDED", !.receipt = <<j, v>>,
                                      !.reconciled = TRUE]
      <3>1. GoesOn(rows[k], r)
        BY <1>0, <2>3 DEF GoesOn, ReconcileSucceeded, Row
      <3>2. rows' = [rows EXCEPT ![k] = r] /\ UNCHANGED now
        BY <2>3 DEF ReconcileSucceeded
      <3> HIDE DEF r
      <3> QED
        BY <3>1, <3>2, OneGoesOn
    <2>4. CASE ReconcileFailed(k)
      <3> DEFINE r == [rows[k] EXCEPT !.status = "FAILED", !.nextAttemptAt = None,
                                      !.reconciled = TRUE]
      <3>1. GoesOn(rows[k], r)
        BY <1>0 DEF GoesOn, Row
      <3>2. rows' = [rows EXCEPT ![k] = r] /\ UNCHANGED now
        BY <2>4 DEF ReconcileFailed
      <3> HIDE DEF r
      <3> QED
        BY <3>1, <3>2, OneGoesOn
    <2>5. CASE ReconcileCancelled(k)
      <3> DEFINE r == [rows[k] EXCEPT !.status = "CANCELLED", !.reconciled = TRUE]
      <3>1. GoesOn(rows[k], r)
        BY <1>0 DEF GoesOn, Row
      <3>2. rows' = [rows EXCEPT ![k] = r] /\ UNCHANGED now
        BY <2>5 DEF ReconcileCancelled
      <3> HIDE DEF r
      <3> QED
        BY <3>1, <3>2, OneGoesOn
    <2>6. ASSUME NEW v \in Attempts, ProviderDecides(k, v)
          PROVE  RowsGoOn
      BY <2>6, SameRowsGoOn DEF ProviderDecides
    <2> QED
      BY <1>5, <2>1, <2>2, <2>3, <2>4, <2>5, <2>6 DEF KeyStep
  <1>6. CASE RecoverStaleExecuting
    <2>1. ASSUME NEW k \in Keys PROVE GoesOn(rows[k], rows'[k])
      <3>1. rows'[k] = IF Stale(rows[k]) THEN MarkUnknown(rows[k]) ELSE rows[k]
        BY <1>6 DEF RecoverStaleExecuting
      <3> QED
        BY <1>0, <3>1 DEF GoesOn, MarkUnknown, Stale, Row
    <2> QED
      BY <1>6, <2>1 DEF RecoverStaleExecuting, RowsGoOn, TypeOK
  <1>7. ASSUME NEW w \in Workers, Abandon(w)
        PROVE  RowsGoOn
    BY <1>7, SameRowsGoOn DEF Abandon
  <1>8. CASE Tick \/ UNCHANGED vars
    BY <1>8, SameRowsGoOn DEF Tick, vars
  <1> QED
    BY <1>1, <1>2, <1>3, <1>4, <1>5, <1>6, <1>7, <1>8, ClaimJoins DEF Next, WorkerStep

LEMMA OverlapInit == Init => OverlapOnlyOnRetry
  BY DEF Init, OverlapOnlyOnRetry, NoRow, Unresolved

LEMMA OverlapNext ==
  TypeOK /\ IInv /\ OverlapOnlyOnRetry /\ [Next]_vars => OverlapOnlyOnRetry'
  <1> SUFFICES ASSUME TypeOK, IInv, OverlapOnlyOnRetry, [Next]_vars,
                      NEW j \in Keys, NEW k \in Keys, j # k,
                      rows'[j].digest = rows'[k].digest,
                      rows'[j].status \in Unresolved, rows'[k].status \in Unresolved
               PROVE  rows'[j].attemptCount > 1 \/ rows'[k].attemptCount > 1
    BY DEF OverlapOnlyOnRetry
  <1>1. CASE RowsGoOn
    <2>1. TypeOK'
      BY TypeNext
    <2>2. \A i \in Keys : rows[i].attemptCount \in Nat /\ rows'[i].attemptCount \in Nat
      BY <2>1 DEF TypeOK, Row
    <2> QED
      BY <1>1, <2>2 DEF RowsGoOn, GoesOn, OverlapOnlyOnRetry
  <1>2. ASSUME NEW i \in Keys, NEW r \in Row, Joins(i, r)
        PROVE  rows'[j].attemptCount > 1 \/ rows'[k].attemptCount > 1
    <2>1. \A h \in Keys : rows'[h] = IF h = i THEN r ELSE rows[h]
      BY <1>2 DEF Joins, TypeOK
    <2>2. CASE i # j /\ i # k
      BY <2>1, <2>2 DEF OverlapOnlyOnRetry
    <2>3. CASE r.attemptCount > 1 /\ (i = j \/ i = k)
      BY <2>1, <2>3
    <2>4. CASE NoEquivalent(i, r.digest) /\ (i = j \/ i = k)
      BY <2>1, <2>4 DEF NoEquivalent
    <2> QED
      BY <1>2, <2>2, <2>3, <2>4 DEF Joins
  <1> QED
    BY <1>1, <1>2, RowsStep

\* Two unresolved rows of one payload coexist only when one is being retried.
THEOREM OverlapIsRetry == Spec => []OverlapOnlyOnRetry
  BY OverlapInit, OverlapNext, TypeCorrect, RowsMatchCalls, PTL DEF Spec

\* The rows that limits may count.
ActiveRows == {k \in Keys : rows[k].status \in ActiveStates}

\* Of the rows a limit counts, those whose own limit is at most a number.
AsStrict(q, d, most) ==
  {k \in Counted(q, d) : LET own == Limits[rows[k].digest][q]
                         IN  own # None /\ own <= most}

\* A row that is active or was attempted carries a payload.
Named ==
  \A k \in Keys :
    rows[k].status \in ActiveStates \/ rows[k].attemptCount > 0 => rows[k].digest \in Digests

\* QuotasHold, said of numbers.
StrictHold ==
  \A q \in LimitNames, d \in Digests, most \in Nat : \A k \in Counted(q, d) :
    Limits[rows[k].digest][q] = most => Cardinality(AsStrict(q, d, most)) <= most

\* There are finitely many active rows, and no limit is exceeded.
CountInv == IsFiniteSet(ActiveRows) /\ Named /\ StrictHold

LEMMA CountedIsActive ==
  ASSUME TypeOK, NEW q, NEW d
  PROVE  Counted(q, d) \subseteq ActiveRows
  BY DEF Counted, ActiveRows

LEMMA StrictFinite ==
  ASSUME TypeOK, IsFiniteSet(ActiveRows), NEW q, NEW d, NEW most
  PROVE  IsFiniteSet(AsStrict(q, d, most))
  <1>1. AsStrict(q, d, most) \subseteq ActiveRows
    BY CountedIsActive DEF AsStrict
  <1> QED
    BY <1>1, FS_Subset

LEMMA CountInit == Init => CountInv
  <1> SUFFICES ASSUME Init PROVE CountInv
    OBVIOUS
  <1>1. ActiveRows = {} /\ \A q, d : Counted(q, d) = {}
    BY DEF Init, NoRow, ActiveRows, Counted, ActiveStates
  <1>2. Named
    BY DEF Init, NoRow, Named, ActiveStates
  <1>3. IsFiniteSet({})
    BY FS_EmptySet
  <1> QED
    BY <1>1, <1>2, <1>3 DEF CountInv, StrictHold

\* A limit of an active row is a number or none.
LEMMA LimitTyped ==
  ASSUME Named, NEW q \in LimitNames, NEW k \in ActiveRows
  PROVE  Limits[rows[k].digest][q] \in Nat \cup {None}
  <1>1. rows[k].digest \in Digests
    BY DEF Named, ActiveRows
  <1> QED
    BY <1>1, OutboxAssumption

LEMMA NamedNext ==
  ASSUME TypeOK, IInv, Named, [Next]_vars
  PROVE  Named'
  <1>1. CASE RowsGoOn
    BY <1>1 DEF RowsGoOn, GoesOn, Named
  <1>2. ASSUME NEW k \in Keys, NEW r \in Row, Joins(k, r)
        PROVE  Named'
    <2>1. \A j \in Keys : rows'[j] = IF j = k THEN r ELSE rows[j]
      BY <1>2 DEF Joins, TypeOK
    <2>2. r.digest \in Digests
      BY <1>2 DEF Joins, Named
    <2> QED
      BY <2>1, <2>2 DEF Named
  <1> QED
    BY <1>1, <1>2, RowsStep

LEMMA CountNext == TypeOK /\ IInv /\ CountInv /\ [Next]_vars => CountInv'
  <1> SUFFICES ASSUME TypeOK, IInv, CountInv, [Next]_vars PROVE CountInv'
    OBVIOUS
  <1>0. Named /\ Named'
    BY NamedNext DEF CountInv
  <1>a. Hour \in Nat /\ Day \in Nat /\ \A q \in LimitNames : Window(q) \in Nat
    BY OutboxAssumption DEF Window
  <1>1. CASE RowsGoOn
    <2>1. ActiveRows' \subseteq ActiveRows
      BY <1>1 DEF RowsGoOn, GoesOn, ActiveRows
    <2>2. IsFiniteSet(ActiveRows')
      BY <2>1, FS_Subset DEF CountInv
    <2>3. ASSUME NEW q \in LimitNames, NEW d \in Digests, NEW most \in Nat,
                 NEW k \in Counted(q, d)', Limits[rows'[k].digest][q] = most
          PROVE  Cardinality(AsStrict(q, d, most)') <= most
      <3>1. \A j \in Keys : rows[j].createdAt \in Nat
        BY RowTyped DEF Row
      <3>2. Counted(q, d)' \subseteq Counted(q, d)
        <4>1. ASSUME NEW j \in Counted(q, d)' PROVE j \in Counted(q, d)
          <5>1. /\ j \in Keys /\ GoesOn(rows[j], rows'[j])
                /\ rows'[j].status \in ActiveStates /\ Alike(q, d, rows'[j].digest)
                /\ rows'[j].createdAt + Window(q) >= now'
            BY <1>1, <4>1 DEF RowsGoOn, Counted, Window, Alike
          <5>2. rows[j].createdAt + Window(q) >= now
            BY <1>a, <1>1, <3>1, <5>1 DEF RowsGoOn, GoesOn, TypeOK
          <5> QED
            BY <5>1, <5>2 DEF GoesOn, Counted
        <4> QED
          BY <4>1
      <3>3. k \in Counted(q, d) /\ Limits[rows[k].digest][q] = most
        BY <1>1, <2>3, <3>2 DEF RowsGoOn, GoesOn, Counted
      <3>5. AsStrict(q, d, most)' \subseteq AsStrict(q, d, most)
        <4>1. \A j \in Counted(q, d)' : rows'[j].digest = rows[j].digest
          BY <1>1 DEF RowsGoOn, GoesOn, Counted
        <4> QED
          BY <3>2, <4>1 DEF AsStrict
      <3>6. IsFiniteSet(AsStrict(q, d, most))
        BY StrictFinite DEF CountInv
      <3>7. /\ Cardinality(AsStrict(q, d, most)') <= Cardinality(AsStrict(q, d, most))
            /\ IsFiniteSet(AsStrict(q, d, most)')
        BY <3>5, <3>6, FS_Subset
      <3>8. /\ Cardinality(AsStrict(q, d, most)) \in Nat
            /\ Cardinality(AsStrict(q, d, most)') \in Nat
        BY <3>6, <3>7, FS_CardinalityType
      <3>9. Cardinality(AsStrict(q, d, most)) <= most
        BY <3>3 DEF CountInv, StrictHold
      <3> QED
        BY <3>7, <3>8, <3>9
    <2> QED
      BY <1>0, <2>2, <2>3 DEF CountInv, StrictHold
  <1>2. ASSUME NEW x \in Keys, NEW r \in Row, Joins(x, r)
        PROVE  CountInv'
    <2>1. \A j \in Keys : rows'[j] = IF j = x THEN r ELSE rows[j]
      BY <1>2 DEF Joins, TypeOK
    <2>2. IsFiniteSet(ActiveRows')
      <3>1. ActiveRows' \subseteq ActiveRows \cup {x}
        BY <2>1 DEF ActiveRows
      <3>2. IsFiniteSet(ActiveRows \cup {x})
        BY FS_AddElement DEF CountInv
      <3> QED
        BY <3>1, <3>2, FS_Subset
    <2>3. ASSUME NEW q \in LimitNames, NEW d \in Digests, NEW most \in Nat,
                 NEW k \in Counted(q, d)', Limits[rows'[k].digest][q] = most
          PROVE  Cardinality(AsStrict(q, d, most)') <= most
      <3> DEFINE A == AsStrict(q, d, most)
                 E == Counted(q, r.digest) \ {x}
      <3>2. AsStrict(q, d, most)' = {j \in Counted(q, d)' :
                                       LET own == Limits[rows'[j].digest][q]
                                       IN  own # None /\ own <= most}
        BY DEF AsStrict
      <3>3. Counted(q, d)' \ {x} = Counted(q, d) \ {x}
        BY <1>2, <2>1 DEF Counted, Joins
      <3>4. IsFiniteSet(A) /\ IsFiniteSet(E)
        BY StrictFinite, CountedIsActive, FS_Subset DEF CountInv
      <3>5. CASE x \notin A'
        <4>1. k # x
          BY <2>3, OutboxAssumption, <3>2, <3>5
        <4>2. k \in Counted(q, d) /\ rows'[k].digest = rows[k].digest
          BY <2>1, <3>3, <4>1 DEF Counted
        <4>3. A' \subseteq A
          BY <2>1, <3>2, <3>3, <3>5, <4>2 DEF AsStrict, Counted
        <4>4. Cardinality(A') <= Cardinality(A) /\ IsFiniteSet(A')
          BY <3>4, <4>3, FS_Subset
        <4>5. Cardinality(A) \in Nat /\ Cardinality(A') \in Nat
          BY <3>4, <4>4, FS_CardinalityType
        <4>6. Cardinality(A) <= most
          BY <2>3, <4>2 DEF CountInv, StrictHold
        <4> QED
          BY <4>4, <4>5, <4>6
      <3>6. CASE x \in A'
        <4> DEFINE own == Limits[r.digest][q]
        <4>1. x \in Counted(q, d)' /\ own # None /\ own <= most
          BY <2>1, <3>2, <3>6
        <4>2. own \in Nat
          <5>1. r.digest \in Digests
            BY <1>0, <2>1, <4>1 DEF Named, Counted
          <5> QED
            BY <4>1, <5>1, OutboxAssumption
        <4>3. A' \ {x} \subseteq E
          <5>1. Alike(q, d, r.digest)
            BY <2>1, <4>1 DEF Counted, Alike
          <5>2. ASSUME NEW j \in Counted(q, d) PROVE j \in Counted(q, r.digest)
            BY <5>1 DEF Counted, Alike, LimitNames
          <5> QED
            BY <3>2, <3>3, <5>2
        <4>4. Cardinality(E) < own
          BY <1>2, <4>1 DEF Joins, WithinQuotas
        <4>5. Cardinality(A' \ {x}) <= Cardinality(E) /\ IsFiniteSet(A' \ {x})
          BY <3>4, <4>3, FS_Subset
        <4>6. A' = (A' \ {x}) \cup {x} /\ x \notin A' \ {x}
          BY <3>6
        <4>7. Cardinality(A') = Cardinality(A' \ {x}) + 1
          BY <4>5, <4>6, FS_AddElement
        <4>8. Cardinality(E) \in Nat /\ Cardinality(A' \ {x}) \in Nat
          BY <3>4, <4>5, FS_CardinalityType
        <4> HIDE DEF own, A, E
        <4>9. Cardinality(A') <= most
          BY <4>1, <4>2, <4>4, <4>5, <4>7, <4>8
        <4> QED
          BY <4>9 DEF A
      <3> QED
        BY <3>5, <3>6
    <2> QED
      BY <1>0, <2>2, <2>3 DEF CountInv, StrictHold
  <1> QED
    BY <1>1, <1>2, RowsStep

\* No rate limit is exceeded by the rows that it counts, for any limits.
THEOREM LimitsHold == Spec => []QuotasHold
<1>1. CountInv => QuotasHold
  <2> SUFFICES ASSUME CountInv, NEW q \in LimitNames, NEW d \in Digests,
                      NEW k \in Counted(q, d), Limits[rows[k].digest][q] # None
               PROVE  Cardinality(AsStrict(q, d, Limits[rows[k].digest][q]))
                        <= Limits[rows[k].digest][q]
    BY DEF QuotasHold, AsStrict
  <2>1. k \in ActiveRows
    BY DEF Counted, ActiveRows
  <2>2. Limits[rows[k].digest][q] \in Nat
    BY <2>1, LimitTyped DEF CountInv
  <2> QED
    BY <2>2 DEF CountInv, StrictHold
<1> QED
  BY <1>1, CountInit, CountNext, TypeCorrect, RowsMatchCalls, PTL DEF Spec

-----------------------------------------------------------------------------
(* The outbox implements ActionContract.                                   *)

Outcomes == [k \in Keys |-> OutcomeOf(rows[k])]
Deliveries == [k \in Keys |-> Accepted(k)]

LEMMA ContractInit == Init => Contract!Init
  <1> SUFFICES ASSUME Init PROVE Contract!Init
    OBVIOUS
  <1>1. \A k \in Keys : OutcomeOf(rows[k]) = "none" /\ Accepted(k) = {}
    BY DEF Init, NoRow, OutcomeOf, Accepted
  <1> QED
    BY <1>1 DEF Contract!Init

\* A step that writes one row changes the outcome of that row only.
LEMMA OutcomeOneRow ==
  ASSUME TypeOK, NEW k \in Keys, NEW r, rows' = [rows EXCEPT ![k] = r], UNCHANGED calls
  PROVE  /\ Outcomes' = [Outcomes EXCEPT ![k] = OutcomeOf(r)]
         /\ Deliveries' = Deliveries
  <1>1. \A j \in Keys : rows'[j] = IF j = k THEN r ELSE rows[j]
    BY DEF TypeOK
  <1>2. \A j \in Keys : OutcomeOf(rows[j])' = IF j = k THEN OutcomeOf(r) ELSE OutcomeOf(rows[j])
    <2> SUFFICES ASSUME NEW j \in Keys
                 PROVE  OutcomeOf(rows[j])' = IF j = k THEN OutcomeOf(r) ELSE OutcomeOf(rows[j])
      OBVIOUS
    <2>1. CASE j = k
      <3>1. OutcomeOf(rows[j])' = OutcomeOf(r)
        BY <1>1, <2>1 DEF OutcomeOf
      <3> QED
        BY <2>1, <3>1
    <2>2. CASE j # k
      <3>1. OutcomeOf(rows[j])' = OutcomeOf(rows[j])
        BY <1>1, <2>2 DEF OutcomeOf
      <3> QED
        BY <2>2, <3>1
    <2> QED
      BY <2>1, <2>2
  <1> QED
    BY <1>2 DEF Outcomes, Deliveries, Accepted

\* Such a step is a contract step whenever the two outcomes are.
LEMMA ContractOneRow ==
  ASSUME TypeOK, NEW k \in Keys, NEW r, rows' = [rows EXCEPT ![k] = r], UNCHANGED calls,
         LET o == OutcomeOf(rows[k])
             n == OutcomeOf(r)
         IN  \/ n = o
             \/ o = "none" /\ n = "open"
             \/ o = "open" /\ n = "sent" /\ Accepted(k) # {}
             \/ o = "open" /\ n = "unsent" /\ Accepted(k) = {}
             \/ o = "open" /\ n = "unsure"
             \/ o = "unsure" /\ n = "settled"
  PROVE  [Contract!Next]_(Contract!contractVars)
  <1> DEFINE n == OutcomeOf(r)
  <1>1. Outcomes' = [Outcomes EXCEPT ![k] = n] /\ Deliveries' = Deliveries
    BY OutcomeOneRow
  <1>2. Outcomes[k] = OutcomeOf(rows[k]) /\ Deliveries[k] = Accepted(k)
    BY DEF Outcomes, Deliveries
  <1>3. CASE n = OutcomeOf(rows[k])
    <2>1. Outcomes' = Outcomes
      BY <1>1, <1>2, <1>3 DEF Outcomes
    <2> QED
      BY <1>1, <2>1 DEF Contract!contractVars, Outcomes, Deliveries
  <1>4. CASE n # OutcomeOf(rows[k])
    <2>1. \/ Contract!Register(k) \/ Contract!ReportSent(k) \/ Contract!ReportUnsent(k)
          \/ Contract!LoseTrack(k) \/ Contract!Settle(k)
      BY <1>1, <1>2, <1>4
      DEF Contract!Register, Contract!ReportSent, Contract!ReportUnsent, Contract!LoseTrack,
          Contract!Settle, Contract!Become, Outcomes, Deliveries
    <2> QED
      BY <2>1 DEF Contract!Next
  <1> QED
    BY <1>3, <1>4

LEMMA ContractStutter ==
  ASSUME UNCHANGED <<rows, calls>>
  PROVE  UNCHANGED Contract!contractVars
  BY DEF Contract!contractVars, OutcomeOf, Accepted

LEMMA ContractClaim ==
  ASSUME TypeOK, IInv, NEW w \in Workers, Claim(w)
  PROVE  UNCHANGED Contract!contractVars
  <1> DEFINE k == job[w].key
             n == Version(w)
  <1>1. /\ k \in Keys /\ n \in Attempts /\ rows[k] \in Row
        /\ ~rows[k].reconciled /\ OutcomeOf(rows[k]) = "open"
        /\ calls[k][n] = "none" \/ calls[k][n] = "rejected"
    BY ClaimFinds DEF NothingSent
  <1>2. PICK t \in 0 .. now : rows' = [rows EXCEPT ![k] = Claimed(rows[k], w, t)]
    BY DEF Claim
  <1>3. calls' = [calls EXCEPT ![k][n] = "open"]
    BY DEF Claim
  <1>4. OutcomeOf(Claimed(rows[k], w, t)) = "open"
    <2>1. /\ Claimed(rows[k], w, t).status = "EXECUTING"
          /\ Claimed(rows[k], w, t).reconciled = FALSE
      BY <1>1 DEF Claimed, Row
    <2> QED
      BY <2>1 DEF OutcomeOf
  <1>5. ASSUME NEW j \in Keys
        PROVE  OutcomeOf(rows[j])' = OutcomeOf(rows[j])
    <2>1. CASE j = k
      <3>1. rows'[j] = Claimed(rows[k], w, t)
        BY <1>2, <2>1 DEF TypeOK
      <3> QED
        BY <1>1, <1>4, <2>1, <3>1 DEF OutcomeOf
    <2>2. CASE j # k
      <3>1. rows'[j] = rows[j]
        BY <1>2, <2>2 DEF TypeOK
      <3> QED
        BY <3>1 DEF OutcomeOf
    <2> QED
      BY <2>1, <2>2
  <1>6. ASSUME NEW j \in Keys
        PROVE  Accepted(j)' = Accepted(j)
    <2>1. \A v \in Attempts : calls'[j][v] = "accepted" <=> calls[j][v] = "accepted"
      BY <1>1, <1>3 DEF TypeOK
    <2> QED
      BY <2>1 DEF Accepted
  <1> QED
    BY <1>5, <1>6 DEF Contract!contractVars

LEMMA ContractProvider ==
  ASSUME TypeOK, IInv, NEW k \in Keys, NEW v \in Attempts, ProviderDecides(k, v)
  PROVE  [Contract!Next]_(Contract!contractVars)
  <1>1. rows' = rows /\ calls[k][v] = "open"
    BY DEF ProviderDecides
  <1>2. PICK a \in {"accepted", "rejected"} : calls' = [calls EXCEPT ![k][v] = a]
    BY DEF ProviderDecides
  <1>3. /\ calls \in [Keys -> [Attempts -> CallStates]]
        /\ rows[k] \in Row
        /\ RowInv(k)
    BY DEF TypeOK, IInv
  <1>4. /\ calls'[k][v] = a
        /\ \A j \in Keys, u \in Attempts : j # k \/ u # v => calls'[j][u] = calls[j][u]
    BY <1>2, <1>3
  <1>5. v = rows[k].attemptVersion
    BY <1>1, <1>3, OutboxAssumption DEF RowInv, Sequenced, Row, Attempts
  <1>6. OutcomeOf(rows[k]) \in {"open", "unsure", "settled"}
    <2>1. ~NothingSent(calls[k]) /\ v > 0
      BY <1>1, OutboxAssumption DEF NothingSent, Attempts
    <2>2. /\ rows[k].status \notin {"ABSENT", "PENDING"}
          /\ ~rows[k].reconciled => rows[k].status \in {"EXECUTING", "UNKNOWN"}
          /\ rows[k].status = "UNKNOWN" => ~rows[k].reconciled
      BY <1>1, <1>3, <1>5, <2>1 DEF RowInv, StatusMatches, Row, Statuses
    <2> QED
      BY <1>3, <2>2 DEF OutcomeOf, Row
  <1>7. Accepted(k) = {}
    BY <1>1, <1>3, <1>5, OutboxAssumption DEF RowInv, Sequenced, Accepted, Attempts, Row
  <1>8. \A j \in Keys : OutcomeOf(rows[j])' = OutcomeOf(rows[j])
    BY <1>1 DEF OutcomeOf
  <1>9. \A j \in Keys \ {k} : Accepted(j)' = Accepted(j)
    BY <1>4 DEF Accepted
  <1>10. CASE a = "rejected"
    <2>1. Accepted(k)' = Accepted(k)
      BY <1>1, <1>4, <1>10 DEF Accepted
    <2> QED
      BY <1>8, <1>9, <2>1 DEF Contract!contractVars
  <1>11. CASE a = "accepted"
    <2>1. Accepted(k)' = {v}
      BY <1>4, <1>7, <1>11 DEF Accepted
    <2>2. Deliveries' = [Deliveries EXCEPT ![k] = {v}]
      BY <1>9, <2>1 DEF Deliveries
    <2>3. Outcomes' = Outcomes
      BY <1>8 DEF Outcomes
    <2>4. Outcomes[k] \in {"open", "unsure", "settled"} /\ Deliveries[k] = {}
      BY <1>6, <1>7 DEF Outcomes, Deliveries
    <2>5. Contract!Deliver(k)
      BY <2>2, <2>3, <2>4 DEF Contract!Deliver, Outcomes, Deliveries
    <2> QED
      BY <2>5 DEF Contract!Next
  <1> QED
    BY <1>10, <1>11

LEMMA ContractOutcome ==
  ASSUME TypeOK, IInv, NEW w \in Workers, Complete(w) \/ Reject(w) \/ Ambiguous(w)
  PROVE  [Contract!Next]_(Contract!contractVars)
  <1> DEFINE k == job[w].key
             n == Version(w)
  <1>1. k \in Keys /\ n \in Nat /\ n > 0 /\ calls' = calls
    BY JobTyped DEF Complete, Reject, Ambiguous
  <1>2. rows[k] \in Row /\ RowInv(k)
    BY <1>1 DEF TypeOK, IInv
  <1>3. CASE ~Owns(w)
    BY <1>1, <1>3, ContractStutter DEF Complete, Reject, Ambiguous
  <1>4. CASE Owns(w)
    <2>1. rows[k].status = "EXECUTING" /\ rows[k].attemptVersion = n /\ ~rows[k].reconciled
      BY <1>2, <1>4 DEF Owns, RowInv, StatusMatches
    <2>2. OutcomeOf(rows[k]) = "open" /\ n \in Attempts
      BY <1>1, <1>2, <2>1, OutboxAssumption DEF OutcomeOf, RowInv, Sequenced, Attempts
    <2>3. CASE Reject(w)
      <3> DEFINE m == IF n >= MaxAttempts THEN None ELSE now + RetryDelay
                 r == [Release(rows[k]) EXCEPT !.status = "FAILED", !.nextAttemptAt = m]
      <3>1. rows' = [rows EXCEPT ![k] = r]
        BY <1>4, <2>3 DEF Reject
      <3>2. r.status = "FAILED" /\ ~r.reconciled
        BY <1>2, <2>1 DEF Release, Row
      <3>3. Accepted(k) = {}
        BY <1>1, <1>2, <2>1, <2>3, OutboxAssumption
        DEF Reject, RowInv, Sequenced, Accepted, Attempts
      <3>4. OutcomeOf(r) \in {"open", "unsent"}
        BY <3>2 DEF OutcomeOf
      <3> HIDE DEF r
      <3> QED
        BY <1>1, <2>2, <3>1, <3>3, <3>4, ContractOneRow
    <2>4. ASSUME rows' = [rows EXCEPT ![k] = [Release(rows[k]) EXCEPT !.status = "UNKNOWN",
                                                                      !.nextAttemptAt = None]]
          PROVE  [Contract!Next]_(Contract!contractVars)
      <3> DEFINE r == [Release(rows[k]) EXCEPT !.status = "UNKNOWN", !.nextAttemptAt = None]
      <3>1. OutcomeOf(r) = "unsure"
        BY <1>2 DEF Release, Row, OutcomeOf
      <3> HIDE DEF r
      <3> QED
        BY <1>1, <2>2, <2>4, <3>1, ContractOneRow DEF r
    <2>5. CASE Ambiguous(w)
      BY <1>4, <2>4, <2>5 DEF Ambiguous
    <2>6. CASE Complete(w) /\ ReceiptTaken(k, <<k, n>>)
      BY <1>4, <2>4, <2>6 DEF Complete
    <2>7. CASE Complete(w) /\ ~ReceiptTaken(k, <<k, n>>)
      <3> DEFINE r == [Release(rows[k]) EXCEPT !.status = "SUCCEEDED", !.receipt = <<k, n>>]
      <3>1. rows' = [rows EXCEPT ![k] = r]
        BY <1>4, <2>7 DEF Complete
      <3>2. OutcomeOf(r) = "sent"
        BY <1>2, <2>1 DEF Release, Row, OutcomeOf
      <3>3. Accepted(k) # {}
        BY <2>2, <2>7 DEF Complete, Accepted
      <3> HIDE DEF r
      <3> QED
        BY <1>1, <2>2, <3>1, <3>2, <3>3, ContractOneRow
    <2> QED
      BY <2>3, <2>5, <2>6, <2>7
  <1> QED
    BY <1>3, <1>4

LEMMA ContractStep ==
  ASSUME TypeOK, IInv, [Next]_vars
  PROVE  [Contract!Next]_(Contract!contractVars)
  <1>0. ASSUME NEW k \in Keys
        PROVE  rows[k] \in Row /\ RowInv(k)
    BY DEF TypeOK, IInv
  <1>1. ASSUME NEW w \in Workers, NEW k \in Keys, NEW d \in Digests, ReserveNew(w, k, d)
        PROVE  [Contract!Next]_(Contract!contractVars)
    <2> DEFINE r == [NoRow EXCEPT !.status = "PENDING", !.digest = d,
                                  !.createdAt = now, !.expiresAt = now + Ttl]
    <2>1. rows' = [rows EXCEPT ![k] = r] /\ UNCHANGED calls /\ rows[k].status = "ABSENT"
      BY <1>1 DEF ReserveNew
    <2>2. OutcomeOf(r) = "open"
      BY DEF NoRow, OutcomeOf
    <2>3. OutcomeOf(rows[k]) = "none"
      BY <2>1 DEF OutcomeOf
    <2> HIDE DEF r
    <2> QED
      BY <2>1, <2>2, <2>3, ContractOneRow
  <1>2. ASSUME NEW k \in Keys, NEW s \in {"EXPIRED", "CANCELLED"}, UNCHANGED calls,
               rows[k].status \in {"PENDING", "FAILED"},
               rows' = [rows EXCEPT ![k].status = s]
        PROVE  [Contract!Next]_(Contract!contractVars)
    <2> DEFINE r == [rows[k] EXCEPT !.status = s]
    <2>1. rows' = [rows EXCEPT ![k] = r]
      BY <1>2
    <2>2. r.status = s /\ r.reconciled = rows[k].reconciled
      BY <1>0 DEF Row
    <2>3. CASE rows[k].reconciled
      <3>1. OutcomeOf(rows[k]) = "settled"
        BY <1>2, <2>3 DEF OutcomeOf
      <3>2. OutcomeOf(r) = "settled"
        BY <2>2, <2>3 DEF OutcomeOf
      <3> HIDE DEF r
      <3> QED
        BY <1>2, <2>1, <3>1, <3>2, ContractOneRow
    <2>4. CASE ~rows[k].reconciled
      <3>1. OutcomeOf(rows[k]) \in {"open", "unsent"}
        BY <1>2, <2>4 DEF OutcomeOf
      <3>2. OutcomeOf(r) = "unsent"
        BY <2>2, <2>4 DEF OutcomeOf
      <3>3. Accepted(k) = {}
        BY <1>2, <2>4, UnsentRow DEF NothingSent, Accepted
      <3> HIDE DEF r
      <3> QED
        BY <1>2, <2>1, <3>1, <3>2, <3>3, ContractOneRow
    <2> QED
      BY <2>3, <2>4
  <1>3. ASSUME NEW w \in Workers, LoseClaim(w)
        PROVE  [Contract!Next]_(Contract!contractVars)
    <2>1. job[w].key \in Keys
      BY <1>3, JobTyped DEF LoseClaim
    <2> QED
      BY <1>2, <1>3, <2>1 DEF LoseClaim
  <1>4. ASSUME NEW w \in Workers, Exhaust(w)
        PROVE  [Contract!Next]_(Contract!contractVars)
    <2> DEFINE k == job[w].key
               r == [rows[k] EXCEPT !.nextAttemptAt = None]
    <2>1. k \in Keys /\ UNCHANGED calls
      BY <1>4, JobTyped DEF Exhaust
    <2>2. CASE rows' = rows
      BY <2>1, <2>2, ContractStutter
    <2>3. CASE rows' # rows
      <3>1. rows' = [rows EXCEPT ![k] = r] /\ rows[k].status = "FAILED"
        BY <1>4, <2>3 DEF Exhaust
      <3>2. /\ r.status = rows[k].status /\ r.reconciled = rows[k].reconciled
            /\ r.nextAttemptAt = None
        BY <1>0, <2>1 DEF Row
      <3>3. CASE rows[k].reconciled
        <4>1. OutcomeOf(rows[k]) = "settled" /\ OutcomeOf(r) = "settled"
          BY <3>1, <3>2, <3>3 DEF OutcomeOf
        <4> HIDE DEF r
        <4> QED
          BY <2>1, <3>1, <4>1, ContractOneRow
      <3>4. CASE ~rows[k].reconciled
        <4>1. OutcomeOf(rows[k]) \in {"open", "unsent"} /\ OutcomeOf(r) = "unsent"
          BY <3>1, <3>2, <3>4 DEF OutcomeOf
        <4>2. Accepted(k) = {}
          BY <2>1, <3>1, <3>4, UnsentRow DEF NothingSent, Accepted
        <4> HIDE DEF r
        <4> QED
          BY <2>1, <3>1, <4>1, <4>2, ContractOneRow
      <3> QED
        BY <3>3, <3>4
    <2> QED
      BY <2>2, <2>3
  <1>5. ASSUME NEW k \in Keys, ReserveExpired(k) \/ Cancel(k)
        PROVE  [Contract!Next]_(Contract!contractVars)
    BY <1>2, <1>5 DEF ReserveExpired, Cancel
  <1>6. ASSUME NEW k \in Keys, rows[k].status = "EXECUTING"
        PROVE  OutcomeOf(rows[k]) = "open" /\ OutcomeOf(MarkUnknown(rows[k])) = "unsure"
    <2>1. ~rows[k].reconciled /\ MarkUnknown(rows[k]).status = "UNKNOWN"
      BY <1>0, <1>6 DEF RowInv, StatusMatches, Row, MarkUnknown
    <2> QED
      BY <1>6, <2>1 DEF OutcomeOf
  <1>7. ASSUME NEW k \in Keys, ReserveLapsed(k)
        PROVE  [Contract!Next]_(Contract!contractVars)
    BY <1>6, <1>7, ContractOneRow DEF ReserveLapsed
  <1>8. CASE RecoverStaleExecuting
    <2> DEFINE K == {k \in Keys : Stale(rows[k])}
    <2>1. UNCHANGED calls
          /\ rows' = [k \in Keys |-> IF Stale(rows[k]) THEN MarkUnknown(rows[k]) ELSE rows[k]]
      BY <1>8 DEF RecoverStaleExecuting
    <2>2. \A k \in Keys : OutcomeOf(rows[k])' = IF k \in K THEN "unsure" ELSE OutcomeOf(rows[k])
      <3> SUFFICES ASSUME NEW k \in Keys
                   PROVE  OutcomeOf(rows[k])' = IF k \in K THEN "unsure" ELSE OutcomeOf(rows[k])
        OBVIOUS
      <3>1. CASE k \in K
        <4>1. rows'[k] = MarkUnknown(rows[k])
          BY <2>1, <3>1
        <4>2. OutcomeOf(MarkUnknown(rows[k])) = "unsure"
          BY <1>6, <3>1 DEF Stale
        <4>3. OutcomeOf(rows[k])' = "unsure"
          BY <4>1, <4>2 DEF OutcomeOf
        <4> QED
          BY <3>1, <4>3
      <3>2. CASE k \notin K
        <4>1. rows'[k] = rows[k]
          BY <2>1, <3>2
        <4>2. OutcomeOf(rows[k])' = OutcomeOf(rows[k])
          BY <4>1 DEF OutcomeOf
        <4> QED
          BY <3>2, <4>2
      <3> QED
        BY <3>1, <3>2
    <2>3. \A k \in K : Outcomes[k] = "open"
      BY <1>6 DEF Stale, Outcomes
    <2>4. Outcomes' = [k \in Keys |-> IF k \in K THEN "unsure" ELSE Outcomes[k]]
      BY <2>2 DEF Outcomes
    <2>5. Deliveries' = Deliveries
      BY <2>1 DEF Deliveries, Accepted
    <2>6. Contract!LoseTrackOf(K)
      BY <2>3, <2>4, <2>5 DEF Contract!LoseTrackOf, Outcomes, Deliveries
    <2>7. K \in SUBSET Keys
      OBVIOUS
    <2> QED
      BY <2>6, <2>7 DEF Contract!Next
  <1>9. ASSUME NEW k \in Keys, NEW r, rows' = [rows EXCEPT ![k] = r], UNCHANGED calls,
               rows[k].status = "UNKNOWN",
               r.status \in {"SUCCEEDED", "FAILED", "CANCELLED"}, r.reconciled = TRUE
        PROVE  [Contract!Next]_(Contract!contractVars)
    <2>1. OutcomeOf(rows[k]) = "unsure" /\ OutcomeOf(r) = "settled"
      BY <1>9 DEF OutcomeOf
    <2> QED
      BY <1>9, <2>1, ContractOneRow
  <1>10. ASSUME NEW k \in Keys,
                \/ \E j \in Keys, v \in Attempts : ReconcileSucceeded(k, <<j, v>>)
                \/ ReconcileFailed(k)
                \/ ReconcileCancelled(k)
         PROVE  [Contract!Next]_(Contract!contractVars)
    <2> DEFINE s(q) == [rows[k] EXCEPT !.status = "SUCCEEDED", !.receipt = q,
                                       !.reconciled = TRUE]
               f == [rows[k] EXCEPT !.status = "FAILED", !.nextAttemptAt = None,
                                    !.reconciled = TRUE]
               c == [rows[k] EXCEPT !.status = "CANCELLED", !.reconciled = TRUE]
    <2>1. /\ UNCHANGED calls /\ rows[k].status = "UNKNOWN"
          /\ \/ \E q : rows' = [rows EXCEPT ![k] = s(q)]
             \/ rows' = [rows EXCEPT ![k] = f]
             \/ rows' = [rows EXCEPT ![k] = c]
      BY <1>10 DEF ReconcileSucceeded, ReconcileFailed, ReconcileCancelled
    <2>2. /\ \A q : s(q).status = "SUCCEEDED" /\ s(q).reconciled = TRUE
          /\ f.status = "FAILED" /\ f.reconciled = TRUE
          /\ c.status = "CANCELLED" /\ c.reconciled = TRUE
      BY <1>0 DEF Row
    <2> HIDE DEF s, f, c
    <2> QED
      BY <1>9, <2>1, <2>2
  <1>11. ASSUME NEW w \in Workers, NEW k \in Keys,
                ReserveReplay(w, k) \/ ReserveLostRace(w, k)
         PROVE  [Contract!Next]_(Contract!contractVars)
    BY <1>11, ContractStutter DEF ReserveReplay, ReserveLostRace
  <1>12. ASSUME NEW w \in Workers, Abandon(w)
         PROVE  [Contract!Next]_(Contract!contractVars)
    BY <1>12, ContractStutter DEF Abandon
  <1>13. CASE Tick \/ UNCHANGED vars
    BY <1>13, ContractStutter DEF Tick, vars
  <1> QED
    BY <1>1, <1>3, <1>4, <1>5, <1>7, <1>8, <1>10, <1>11, <1>12, <1>13,
       ContractClaim, ContractOutcome, ContractProvider
    DEF Next, WorkerStep, KeyStep

\* The detailed outbox implements the at-most-once contract.
THEOREM OutboxImplementsContract == Spec => ImplementsContract
  BY TypeCorrect, RowsMatchCalls, ContractInit, ContractStep, PTL
  DEF Spec, ImplementsContract, Contract!Spec
=============================================================================
