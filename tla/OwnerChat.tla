----------------------------- MODULE OwnerChat ------------------------------
(***************************************************************************)
(* The owner's WeChat as a channel of ToolBroker: the callbacks of a       *)
(* stable peer session without messageId, admitted by the operator binding *)
(* that pairing in openclaw-runtime.service.ts writes.                     *)
(*                                                                         *)
(* The request key of this channel contains the sender and the toolCallId, *)
(* so the model may repeat an action under a new key; the broker then goes *)
(* by the input digest and a window of time.                               *)
(*                                                                         *)
(* Abstractions.  Owner, company and account are fixed.  Callbacks with a  *)
(* messageId, whose capacity is counted per message, are left out, and so  *)
(* are the acceptance markers of work briefs, which only name a key.       *)
(***************************************************************************)
EXTENDS ToolBroker

CONSTANTS
  Sender(_),   \* the sender that a request key belongs to
  Input(_),    \* the business input of an action's request key
  Configured,  \* OPENCLAW_WECHAT_OWNER_PEER_SHA256, or None
  Window,      \* WECHAT_RECEIPT_WINDOW_MS
  Dedupe       \* MUTATING_INPUT_DEDUPE_WINDOW_MS

ASSUME OwnerChatAssumption ==
  /\ \A k \in Searches \cup Actions : Sender(k) \in Admissions
  /\ Window \in Nat /\ Dedupe \in Nat

VARIABLE bindings  \* OpenClawOperatorBinding of the owner, by sender

chatVars == <<brokerVars, bindings>>

ChatTypeOK ==
  /\ BrokerTypeOK
  /\ bindings \in [Admissions -> {"ABSENT", "ACTIVE", "REVOKED"}]

ChatInit ==
  /\ BrokerInit
  /\ bindings = [b \in Admissions |-> "ABSENT"]

-----------------------------------------------------------------------------
(* The binding.                                                            *)

Active == {b \in Admissions : bindings[b] = "ACTIVE"}

\* b becomes the owner's sender, and every other one is revoked.
Activated(b) ==
  [d \in Admissions |-> IF d = b THEN "ACTIVE"
                        ELSE IF bindings[d] = "ACTIVE" THEN "REVOKED" ELSE bindings[d]]

\* persistWechatOwnerBinding(), after a QR code was scanned with b's phone.
Pair(b) ==
  /\ bindings' = Activated(b)
  /\ UNCHANGED brokerVars

\* assertOwnerSender(): the active binding decides, without one the
\* configured digest.
Trusted(b) == IF Active # {} THEN b \in Active ELSE b = Configured

\* The upsert of a callback creates its binding but never revives one.
Seen(b) == IF bindings[b] = "ABSENT" THEN Activated(b) ELSE bindings

\* Mutant: the binding is not looked at again when the call is reserved.
AcceptedAsResolved(b) == b \in Admissions

\* reserve(): the binding is still the sender's, or its first use creates it.
Accepted(b) ==
  \/ bindings[b] = "ACTIVE" /\ Active = {b}
  \/ bindings[b] = "ABSENT" /\ Active = {}

-----------------------------------------------------------------------------
(* The callbacks.                                                          *)

ResolveOwner(c, k) ==
  /\ Trusted(Sender(k))
  /\ Resolve(c, k, Sender(k))
  /\ UNCHANGED bindings

\* The selection belongs to the sender's own search.
ConsumeOwner(c) ==
  /\ At(c, "resolved")
  /\ \E s \in Searches : Sender(s) = calls[c].by /\ Consume(c, s)
  /\ UNCHANGED bindings

\* Mutant: the window of duplicates is open at its end.
SimilarTooShort(c) ==
  LET k == calls[c].key IN
  {j \in Actions : /\ k \in Actions /\ Exists(j)
                   /\ receipts[j].by = calls[c].by
                   /\ Input(j) = Input(k)
                   /\ receipts[j].at + Dedupe > now}

\* The receipts of the same business input in the window of duplicates.
Similar(c) ==
  LET k == calls[c].key IN
  {j \in Actions : /\ k \in Actions /\ Exists(j)
                   /\ receipts[j].by = calls[c].by
                   /\ Input(j) = Input(k)
                   /\ receipts[j].at + Dedupe >= now}

\* Mutant: only completed receipts count.
RecentCompleted(c) ==
  {j \in Keys : /\ receipts[j].status = "COMPLETED"
                /\ receipts[j].by = calls[c].by
                /\ receipts[j].at + Window >= now}

\* The receipts of the peer session in the rolling window.
Recent(c) ==
  {j \in Keys : /\ Exists(j)
                /\ receipts[j].by = calls[c].by
                /\ receipts[j].at + Window >= now}

\* A refusal rolls the binding's creation back; a sender with receipts has one.
ReserveOwner(c) ==
  /\ Reserving(c)
  /\ Accepted(calls[c].by)
  /\ \/ FindReceipt(c) /\ UNCHANGED bindings
     \/ Refuse(c, Similar(c), Recent(c)) /\ UNCHANGED bindings
     \/ FailStale(c) /\ UNCHANGED bindings
     \/ Start(c, Similar(c), Recent(c)) /\ bindings' = Seen(calls[c].by)

ChatCall(c) ==
  \/ \E k \in Keys : ResolveOwner(c, k)
  \/ ConsumeOwner(c)
  \/ ReserveOwner(c)
  \/ (Invoke(c) \/ Record(c) \/ Drop(c)) /\ UNCHANGED bindings

ChatNext ==
  \/ \E c \in Calls : ChatCall(c)
  \/ \E b \in Admissions : Pair(b)
  \/ (\E s \in Searches : PurgeSelection(s)) /\ UNCHANGED bindings
  \/ Tick /\ UNCHANGED bindings

ChatSpec == ChatInit /\ [][ChatNext]_chatVars

-----------------------------------------------------------------------------
(* Properties.                                                             *)

\* A command of a phone that was replaced after its call was resolved starts
\* nothing any more.
ReplacedStartsNothing ==
  [][\A k \in Keys : ~Exists(k) /\ Exists(k)' => bindings'[receipts'[k].by] = "ACTIVE"]_chatVars

\* The same action, repeated under another toolCallId or a second selection,
\* is not run again before the window of duplicates has passed.
DuplicatesAreApart ==
  \A j, k \in Actions :
    /\ j # k /\ Exists(j) /\ Exists(k)
    /\ Input(j) = Input(k) /\ Sender(j) = Sender(k)
    /\ receipts[j].at <= receipts[k].at
    => receipts[j].at + Dedupe < receipts[k].at

\* No rolling window of the peer session holds more receipts than the limit.
WindowHolds ==
  \A k \in Keys :
    Exists(k) => Cardinality({j \in Keys : /\ Exists(j)
                                           /\ Sender(j) = Sender(k)
                                           /\ receipts[j].at <= receipts[k].at
                                           /\ receipts[j].at + Window >= receipts[k].at}) <= Limit

=============================================================================
