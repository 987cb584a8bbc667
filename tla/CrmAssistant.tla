---------------------------- MODULE CrmAssistant ----------------------------
(***************************************************************************)
(* One request of the assistant in the CRM: chat() of agent.service.ts,    *)
(* the execution lease of openclaw-crm-session.service.ts, and the tool    *)
(* callbacks of ToolBroker that the lease admits.                          *)
(*                                                                         *)
(* A turn registers the session of its requestId, looks for receipts that  *)
(* an earlier turn of the request left, claims the lease if there are      *)
(* none, lets the Gateway chat (which calls the tools back), stores the    *)
(* answer and settles or releases the lease.  The renderer may send the    *)
(* request again at any time, so turns of one session overlap.             *)
(*                                                                         *)
(* Abstractions.  The deterministic routes that never reach OpenClaw and   *)
(* the permission checks are left out.  The second chat() after a prose    *)
(* answer leaves the state as it is, and is a stutter.  A lease token is   *)
(* one of a finite set, each handed out once.                              *)
(***************************************************************************)
EXTENDS ToolBroker

CONSTANTS
  Turns,       \* chat() calls of one requestId in flight
  Lease,       \* CRM_EXECUTION_LEASE_MS
  SessionTtl   \* the 24 h of a registration

ASSUME CrmAssistantAssumption == Lease \in Nat /\ SessionTtl \in Nat

VARIABLES
  session,   \* OpenClawCrmSession of the requestId
  tokens,    \* the lease tokens handed out so far
  turns,     \* what each running chat() holds in memory
  artifact   \* whether the answer is stored as AiArtifact

sessionVars == <<session, tokens, turns, artifact>>

vars == <<brokerVars, sessionVars>>

\* OpenClawCrmExecutionStatus, and ABSENT without a row.
Session == [status : {"ABSENT", "READY", "RUNNING", "DRAINING", "SETTLED"},
            token : Admissions \cup {None}, leaseEnds : Nat, expiresAt : Nat]

NoSession == [status |-> "ABSENT", token |-> None, leaseEnds |-> 0, expiresAt |-> 0]

Turn == [stage : {"idle", "registered", "claiming", "reloading", "chatting",
                  "persisting", "settling", "releasing"},
         token : Admissions \cup {None}]

IdleTurn == [stage |-> "idle", token |-> None]

TypeOK ==
  /\ BrokerTypeOK
  /\ session \in Session
  /\ tokens \subseteq Admissions
  /\ turns \in [Turns -> Turn]
  /\ artifact \in BOOLEAN

Init ==
  /\ BrokerInit
  /\ session = NoSession
  /\ tokens = {}
  /\ turns = [t \in Turns |-> IdleTurn]
  /\ artifact = FALSE

-----------------------------------------------------------------------------
(* The execution lease.                                                    *)

LeaseIsLive ==
  /\ session.status = "RUNNING"
  /\ session.leaseEnds > now
  /\ session.expiresAt > now

\* Mutant: a settled execution is claimed anew by the next turn.
ClaimableAnew ==
  /\ session.expiresAt > now
  /\ \/ session.status \in {"READY", "SETTLED"}
     \/ session.status = "RUNNING" /\ session.leaseEnds <= now

Claimable ==
  /\ session.expiresAt > now
  /\ \/ session.status = "READY"
     \/ session.status = "RUNNING" /\ session.leaseEnds <= now

\* Mutant: settling does not look at the receipts in progress.
EndedBlindly(token, target) ==
  IF session.status # "RUNNING" \/ session.token # token THEN session
  ELSE [session EXCEPT !.status = target, !.token = None, !.leaseEnds = 0]

\* Mutant: the end of a turn does not compare the lease token.
EndedByAnyone(token, target) ==
  IF session.status # "RUNNING" THEN session
  ELSE IF Processing # {} THEN [session EXCEPT !.status = "DRAINING"]
  ELSE [session EXCEPT !.status = target, !.token = None, !.leaseEnds = 0]

\* finishExecution(): work in progress turns the end of the lease into
\* DRAINING; a turn that lost the lease changes nothing.
Ended(token, target) ==
  IF session.status # "RUNNING" \/ session.token # token THEN session
  ELSE IF Processing # {} THEN [session EXCEPT !.status = "DRAINING"]
  ELSE [session EXCEPT !.status = target, !.token = None, !.leaseEnds = 0]

-----------------------------------------------------------------------------
(* chat().                                                                 *)

Step(t, stage) == turns' = [turns EXCEPT ![t].stage = stage]

EndTurn(t) == turns' = [turns EXCEPT ![t] = IdleTurn]

\* A request that has its answer returns it; another registers its session.
Register(t) ==
  /\ turns[t].stage = "idle"
  /\ ~artifact
  /\ session' = IF session.status = "ABSENT"
                THEN [NoSession EXCEPT !.status = "READY", !.expiresAt = now + SessionTtl]
                ELSE [session EXCEPT !.expiresAt = now + SessionTtl]
  /\ Step(t, "registered")
  /\ UNCHANGED <<brokerVars, tokens, artifact>>

HasReceipts == \E k \in Keys : Exists(k)

\* loadOpenClawToolReceipts(): a receipt is the answer, whatever its status.
LoadReceipts(t) ==
  /\ turns[t].stage = "registered"
  /\ Step(t, IF HasReceipts THEN "persisting" ELSE "claiming")
  /\ UNCHANGED <<brokerVars, session, tokens, artifact>>

\* claimExecution(), by whoever finds the session ready or its lease lapsed.
Claim(t) ==
  /\ turns[t].stage = "claiming"
  /\ Claimable
  /\ \E token \in Admissions \ tokens :
       /\ tokens' = tokens \cup {token}
       /\ session' = [session EXCEPT !.status = "RUNNING", !.token = token,
                                     !.leaseEnds = now + Lease]
       /\ turns' = [turns EXCEPT ![t] = [stage |-> "chatting", token |-> token]]
  /\ UNCHANGED <<brokerVars, artifact>>

LoseClaim(t) ==
  /\ turns[t].stage = "claiming"
  /\ ~Claimable
  /\ IF session.status = "ABSENT" \/ session.expiresAt <= now
       THEN EndTurn(t)
       ELSE Step(t, "reloading")
  /\ UNCHANGED <<brokerVars, session, tokens, artifact>>

\* The receipts once more; without any the request is still in progress.
Reload(t) ==
  /\ turns[t].stage = "reloading"
  /\ IF HasReceipts THEN Step(t, "persisting") ELSE EndTurn(t)
  /\ UNCHANGED <<brokerVars, session, tokens, artifact>>

\* The Gateway has answered, failed or timed out, and the receipts are loaded.
\* Only a turn without any may find itself without an answer.
Answer(t) ==
  /\ turns[t].stage = "chatting"
  /\ \/ Step(t, "persisting")
     \/ ~HasReceipts /\ Step(t, "releasing")
  /\ UNCHANGED <<brokerVars, session, tokens, artifact>>

\* The upsert of the artifact, or its failure.
Persist(t) ==
  /\ turns[t].stage = "persisting"
  /\ \/ /\ artifact' = TRUE
        /\ IF turns[t].token = None THEN EndTurn(t) ELSE Step(t, "settling")
     \/ /\ UNCHANGED artifact
        /\ IF turns[t].token = None THEN EndTurn(t) ELSE Step(t, "releasing")
  /\ UNCHANGED <<brokerVars, session, tokens>>

\* settleExecution() and releaseExecution().
EndLease(t) ==
  /\ \/ /\ turns[t].stage = "settling"
        /\ session' = Ended(turns[t].token, "SETTLED")
     \/ /\ turns[t].stage = "releasing"
        /\ session' = Ended(turns[t].token, "READY")
  /\ EndTurn(t)
  /\ UNCHANGED <<brokerVars, tokens, artifact>>

\* The process that runs chat() dies, or the database fails it.
CrashTurn(t) ==
  /\ turns[t].stage # "idle"
  /\ EndTurn(t)
  /\ UNCHANGED <<brokerVars, session, tokens, artifact>>

TurnStep(t) ==
  \/ Register(t) \/ LoadReceipts(t) \/ Claim(t) \/ LoseClaim(t) \/ Reload(t)
  \/ Answer(t) \/ Persist(t) \/ EndLease(t)

-----------------------------------------------------------------------------
(* The callbacks of this channel.                                          *)

\* resolve(): the lease that is live now admits the callback.
ResolveCrm(c, k) ==
  /\ LeaseIsLive
  /\ Resolve(c, k, session.token)
  /\ UNCHANGED sessionVars

ConsumeCrm(c) ==
  /\ \E s \in Searches : Consume(c, s)
  /\ UNCHANGED sessionVars

HoldsLease(c) == LeaseIsLive /\ session.token = calls[c].by

\* reserve(): a callback whose lease has gone is forbidden (Drop).
ReserveCrm(c) ==
  /\ Reserving(c)
  /\ HoldsLease(c)
  /\ \/ FindReceipt(c)
     \/ FailStale(c)
     \/ Refuse(c, {}, {k \in Keys : Exists(k)})
     \/ Start(c, {}, {k \in Keys : Exists(k)})
  /\ UNCHANGED sessionVars

InvokeCrm(c) ==
  /\ Invoke(c)
  /\ UNCHANGED sessionVars

Reconcilable(c) ==
  /\ session.token = calls[c].by
  /\ session.status \in {"RUNNING", "DRAINING"}

\* reconcileLockedToolExecutionAfterReceipt(): the last callback of a draining
\* lease closes it.
Reconciled(c) ==
  IF session.status = "DRAINING" /\ Processing = {calls[c].key}
    THEN [session EXCEPT !.status = "SETTLED", !.token = None, !.leaseEnds = 0]
    ELSE session

\* runToolTerminalTransaction(), by a callback whose lease is still there.
RecordCrm(c) ==
  /\ Finished(c)
  /\ Record(c)
  /\ IF receipts[calls[c].key].status = "PROCESSING"
       THEN Reconcilable(c) /\ session' = Reconciled(c)
       ELSE UNCHANGED session
  /\ UNCHANGED <<tokens, turns, artifact>>

\* Without it the transaction rolls back; what ran is then recorded as a
\* failure, and when that rolls back too the receipt is left as it is.
RollBack(c) ==
  /\ Finished(c)
  /\ receipts[calls[c].key].status = "PROCESSING"
  /\ ~Reconcilable(c)
  /\ IF At(c, "succeeded") THEN Goto(c, "threw") ELSE Return(c)
  /\ UNCHANGED <<receipts, selections, invoked, now, sessionVars>>

DropCrm(c) == Drop(c) /\ UNCHANGED sessionVars

CallStep(c) ==
  \/ \E k \in Keys : ResolveCrm(c, k)
  \/ ConsumeCrm(c) \/ ReserveCrm(c) \/ InvokeCrm(c) \/ RecordCrm(c) \/ RollBack(c)

-----------------------------------------------------------------------------
(* Maintenance and time.                                                   *)

\* cleanupExpiredNonces() deletes sessions whose registration has run out.
PurgeSession ==
  /\ session.status # "ABSENT"
  /\ session.expiresAt < now
  /\ session' = NoSession
  /\ UNCHANGED <<brokerVars, tokens, turns, artifact>>

PurgeSelectionCrm == \E s \in Searches : PurgeSelection(s) /\ UNCHANGED sessionVars

TickCrm == Tick /\ UNCHANGED sessionVars

Next ==
  \/ \E t \in Turns : TurnStep(t) \/ CrashTurn(t)
  \/ \E c \in Calls : CallStep(c) \/ DropCrm(c)
  \/ PurgeSession \/ PurgeSelectionCrm \/ TickCrm

Spec == Init /\ [][Next]_vars

\* The most that callers could do for a receipt: every turn and callback goes
\* on, the request and its tool calls are tried again and again, and a call
\* that found its way in once more is not dropped for ever.
Fairness ==
  /\ \A t \in Turns : WF_vars(TurnStep(t)) /\ SF_vars(Claim(t))
  /\ \A c \in Calls : /\ \A k \in Keys : SF_vars(ResolveCrm(c, k))
                       /\ SF_vars(ConsumeCrm(c)) /\ SF_vars(ReserveCrm(c))
                       /\ SF_vars(InvokeCrm(c)) /\ SF_vars(RecordCrm(c))
                       /\ WF_vars(RollBack(c))
  /\ WF_vars(TickCrm)

FairSpec == Spec /\ Fairness

-----------------------------------------------------------------------------
(* Properties.                                                             *)

\* A settled execution has no tool in progress: neither settling while a
\* callback runs nor the last callback of a draining lease leaves one behind.
SettledIsQuiet == session.status = "SETTLED" => Processing = {}

\* An execution that was settled is not opened again by a late turn, callback
\* or release, until its registration has run out.
SettledStays ==
  [][session.status = "SETTLED" => session'.status \in {"SETTLED", "ABSENT"}]_session

\* A live lease is ended by the turn that holds it and by nobody else: no late
\* turn, callback or stale recovery touches the lease of a newer turn.
OnlyTheHolderEnds ==
  [][LeaseIsLive /\ session'.token # session.token =>
       \E t \in Turns : /\ turns[t].token = session.token
                        /\ turns[t].stage \in {"settling", "releasing"}]_session

\* What openclaw-tool-broker.service.ts:599 says of the stale recovery: no
\* crash leaves an idempotency key PROCESSING for ever.
NoKeyStaysProcessing ==
  \A k \in Keys : (receipts[k].status = "PROCESSING") ~> (receipts[k].status # "PROCESSING")

=============================================================================
