-------------------------- MODULE ToolBrokerProofs --------------------------
(***************************************************************************)
(* Proofs about the tool broker and its two channels: for any number of    *)
(* turns, callbacks, searches and actions a tool runs at most once for its *)
(* request key, a selection is spent once, receipts and runs agree, an     *)
(* execution of the CRM is settled quietly and for good, and the owner's   *)
(* WeChat keeps its windows.                                               *)
(*                                                                         *)
(* The argument has two parts.  A receipt is made once, and the callback   *)
(* that makes it is the only one that ever runs its tool; a search is      *)
(* therefore run once and issues one selection, which has one spender.     *)
(* BrokerInv says so, and every step that either channel composes keeps    *)
(* it.                                                                     *)
(***************************************************************************)
EXTENDS CrmAssistant, OwnerChat, FiniteSetTheorems, TLAPS

Live(c) == calls[c].stage # "idle"

Running(c) == calls[c].stage \in {"reserved", "succeeded", "threw"}

\* The callback c spent the selection of s.
Spends(c, s) == Live(c) /\ calls[c].spent = s

\* A receipt, its run and its tool.
ReceiptOK(k) ==
  /\ receipts[k].run = (IF receipts[k].status = "PROCESSING" THEN "RUNNING"
                        ELSE receipts[k].status)
  /\ invoked[k] <= 1
  /\ invoked[k] > 0 => Exists(k)
  /\ k \in Actions /\ Exists(k) => receipts[k].spent # None

\* What a callback knows of the receipt it works for.
CallOK(c) ==
  /\ calls[c].stage = "resolved" => calls[c].spent = None
  /\ calls[c].stage = "selected" => calls[c].key \in Actions
  /\ Running(c) => Exists(calls[c].key) /\ receipts[calls[c].key].spent = calls[c].spent
  /\ calls[c].stage = "reserved" => invoked[calls[c].key] = 0

\* One callback works for a receipt.
OneRunner ==
  \A c, d \in Calls : Running(c) /\ Running(d) /\ calls[c].key = calls[d].key => c = d

\* A selection was issued by a search that ran, and is spent by one callback for
\* one receipt.
SpendingOK(s) ==
  /\ selections[s].state # "ABSENT" => invoked[s] > 0
  /\ \A c \in Calls : Spends(c, s) => selections[s].state # "ISSUED" /\ invoked[s] > 0
  /\ \A k \in Keys : receipts[k].spent = s => selections[s].state # "ISSUED" /\ invoked[s] > 0
  /\ \A c, d \in Calls : Spends(c, s) /\ Spends(d, s) => c = d
  /\ \A c \in Calls, k \in Keys :
       Spends(c, s) /\ receipts[k].spent = s => Running(c) /\ calls[c].key = k
  /\ \A j, k \in Keys : receipts[j].spent = s /\ receipts[k].spent = s => j = k

BrokerInv ==
  /\ BrokerTypeOK
  /\ \A k \in Keys : ReceiptOK(k)
  /\ \A c \in Calls : CallOK(c)
  /\ OneRunner
  /\ \A s \in Searches : SpendingOK(s)

\* A running execution has a lease.
LeaseOK == session.status = "RUNNING" => session.token # None

AInv == BrokerInv /\ TypeOK /\ LeaseOK /\ SettledIsQuiet

-----------------------------------------------------------------------------
(* The first state.                                                        *)

LEMMA BrokerInitHolds == ASSUME BrokerInit PROVE BrokerInv
<1>1. BrokerTypeOK
  BY DEF BrokerInit, BrokerTypeOK, Receipt, NoReceipt, Statuses, Selection, NoSelection
<1>2. \A k \in Keys : ReceiptOK(k)
  BY DEF BrokerInit, ReceiptOK, NoReceipt, Exists
<1>3. \A c \in Calls : CallOK(c) /\ ~Running(c) /\ ~Live(c)
  BY DEF BrokerInit, CallOK, Running, Live, Idle
<1>4. OneRunner
  BY <1>3 DEF OneRunner
<1>5. \A s \in Searches : SpendingOK(s)
  <2>1. ASSUME NEW s \in Searches PROVE SpendingOK(s)
    <3>1. \A k \in Keys : receipts[k].spent # s
      BY ToolBrokerAssumption DEF BrokerInit, NoReceipt
    <3>2. selections[s].state = "ABSENT"
      BY DEF BrokerInit, NoSelection
    <3> QED BY <1>3, <3>1, <3>2 DEF SpendingOK, Spends
  <2> QED BY <2>1
<1> QED BY <1>1, <1>2, <1>3, <1>4, <1>5 DEF BrokerInv

LEMMA InitHolds == Init => AInv
<1> SUFFICES ASSUME Init PROVE AInv
  OBVIOUS
<1>1. BrokerInv
  BY BrokerInitHolds DEF Init
<1>2. TypeOK
  BY <1>1 DEF Init, TypeOK, BrokerInv, Session, NoSession, Turn, IdleTurn
<1>3. LeaseOK /\ SettledIsQuiet
  BY DEF Init, LeaseOK, SettledIsQuiet, NoSession
<1> QED BY <1>1, <1>2, <1>3 DEF AInv

-----------------------------------------------------------------------------
(* The steps of the broker.                                                *)

\* A callback that is under way is a Call, and moves on as one.
LEMMA GotoIs ==
  ASSUME BrokerTypeOK, NEW c \in Calls, calls[c].stage # "idle",
         NEW st \in Stages, Goto(c, st)
  PROVE  \E j \in Call : /\ calls' = [calls EXCEPT ![c] = j]
                         /\ j.stage = st /\ j.key = calls[c].key
                         /\ j.by = calls[c].by /\ j.spent = calls[c].spent
<1> DEFINE j == [calls[c] EXCEPT !.stage = st]
<1>1. calls[c] \in Call
  BY DEF BrokerTypeOK, Idle
<1>2. j \in Call /\ j.stage = st /\ j.key = calls[c].key /\ j.by = calls[c].by /\ j.spent = calls[c].spent
  BY <1>1 DEF Call
<1>3. calls' = [calls EXCEPT ![c] = j]
  BY DEF Goto
<1> HIDE DEF j
<1> QED BY <1>2, <1>3

\* What an assignment to one callback does.
LEMMA CallsAre ==
  ASSUME BrokerTypeOK, NEW c \in Calls, NEW j \in Call \cup {Idle},
         calls' = [calls EXCEPT ![c] = j]
  PROVE  /\ calls' \in [Calls -> Call \cup {Idle}]
         /\ calls'[c] = j
         /\ \A d \in Calls : d # c => calls'[d] = calls[d]
  BY DEF BrokerTypeOK

\* A callback moves without a receipt: it keeps what it spent, or ends.
LEMMA MoveHolds ==
  ASSUME BrokerInv, NEW c \in Calls, NEW j \in Call \cup {Idle},
         calls' = [calls EXCEPT ![c] = j],
         UNCHANGED <<receipts, invoked>>, now' \in Nat, UNCHANGED selections,
         j.stage # "idle" =>
           \/ j.spent = None
           \/ /\ Live(c) /\ j.spent = calls[c].spent /\ j.key = calls[c].key,
         j.stage = "resolved" => j.spent = None,
         j.stage = "selected" => j.key \in Actions,
         j.stage # "reserved",
         j.stage \in {"succeeded", "threw"} =>
           Running(c) /\ j.key = calls[c].key /\ j.spent = calls[c].spent,
         Running(c) => j.stage = "idle" \/ j.stage \in {"succeeded", "threw"}
  PROVE  BrokerInv'
<1>1. /\ calls' \in [Calls -> Call \cup {Idle}]
      /\ calls'[c] = j
      /\ \A d \in Calls : d # c => calls'[d] = calls[d]
  BY CallsAre DEF BrokerInv
<1>2. BrokerTypeOK'
  BY <1>1 DEF BrokerInv, BrokerTypeOK, Keys
<1>3. \A k \in Keys : ReceiptOK(k)'
  BY DEF BrokerInv, ReceiptOK, Exists
<1>4. \A d \in Calls : CallOK(d)'
  <2>1. CallOK(c)'
    BY <1>1 DEF BrokerInv, CallOK, Running, Exists
  <2>2. ASSUME NEW d \in Calls, d # c PROVE CallOK(d)'
    BY <2>2, <1>1 DEF BrokerInv, CallOK, Running, Exists
  <2> QED BY <2>1, <2>2
<1>5. OneRunner'
  BY <1>1 DEF BrokerInv, OneRunner, Running
<1>6. ASSUME NEW s \in Searches PROVE SpendingOK(s)'
  <2>1. SpendingOK(s) /\ s # None
    BY ToolBrokerAssumption DEF BrokerInv
  <2>2. \A d \in Calls : Spends(d, s)' => Spends(d, s)
    BY <1>1, <2>1 DEF Spends, Live
  <2>3. \A d \in Calls : Spends(d, s)' /\ Running(d) =>
          Running(d)' /\ calls'[d].key = calls[d].key
    BY <1>1, <2>1 DEF Spends, Live, Running
  <2> QED BY <2>1, <2>2, <2>3 DEF SpendingOK
<1> QED BY <1>2, <1>3, <1>4, <1>5, <1>6 DEF BrokerInv, Keys

LEMMA ReturnHolds ==
  ASSUME BrokerInv, NEW c \in Calls, Return(c),
         UNCHANGED <<receipts, selections, invoked>>, now' \in Nat
  PROVE  BrokerInv'
<1>1. Idle.stage = "idle" /\ Idle \in Call \cup {Idle}
  BY DEF Idle
<1> QED BY <1>1, MoveHolds DEF Return

LEMMA ResolveHolds ==
  ASSUME BrokerInv, NEW c \in Calls, NEW k \in Keys, NEW b \in Admissions, Resolve(c, k, b)
  PROVE  BrokerInv'
<1> DEFINE j == [stage |-> "resolved", key |-> k, by |-> b, spent |-> None]
<1>1. j \in Call /\ j.stage = "resolved" /\ j.spent = None
  BY DEF Call, Stages
<1>2. /\ calls' = [calls EXCEPT ![c] = j]
      /\ UNCHANGED <<receipts, selections, invoked, now>>
      /\ calls[c].stage = "idle"
  BY DEF Resolve, At
<1> HIDE DEF j
<1> QED BY <1>1, <1>2, MoveHolds DEF BrokerInv, BrokerTypeOK, Running

\* Consuming makes the callback the one spender.
LEMMA ConsumeHolds ==
  ASSUME BrokerInv, NEW c \in Calls, NEW s \in Searches, Consume(c, s)
  PROVE  BrokerInv'
<1>1. /\ calls[c].stage = "resolved" /\ calls[c].key \in Actions /\ calls[c].spent = None
      /\ UNCHANGED <<receipts, invoked, now>>
  BY DEF Consume, At, BrokerInv, CallOK
<1>2. CASE Goto(c, "selected") /\ UNCHANGED selections
  <2>1. PICK j \in Call : /\ calls' = [calls EXCEPT ![c] = j]
                          /\ j.stage = "selected" /\ j.key = calls[c].key
                          /\ j.spent = calls[c].spent
    BY <1>1, <1>2, GotoIs DEF BrokerInv, Stages
  <2> QED BY <1>1, <1>2, <2>1, MoveHolds DEF BrokerInv, BrokerTypeOK, Running
<1>3. CASE /\ selections[s].state = "ISSUED"
           /\ selections' = [selections EXCEPT ![s].state = "CONSUMED"]
           /\ calls' = [calls EXCEPT ![c].stage = "selected", ![c].spent = s]
  <2> DEFINE j == [calls[c] EXCEPT !.stage = "selected", !.spent = s]
  <2>1. calls[c] \in Call
    BY <1>1 DEF BrokerInv, BrokerTypeOK, Idle
  <2>2. j \in Call /\ j.stage = "selected" /\ j.spent = s /\ j.key = calls[c].key
    BY <2>1 DEF Call, Stages
  <2>3. calls' = [calls EXCEPT ![c] = j]
    BY <1>3
  <2> HIDE DEF j
  <2>4. /\ calls' \in [Calls -> Call \cup {Idle}]
        /\ calls'[c] = j
        /\ \A d \in Calls : d # c => calls'[d] = calls[d]
    BY <2>2, <2>3, CallsAre DEF BrokerInv
  <2>5. /\ selections' \in [Searches -> Selection]
        /\ selections'[s].state = "CONSUMED"
        /\ \A u \in Searches : u # s => selections'[u] = selections[u]
    BY <1>3 DEF BrokerInv, BrokerTypeOK, Selection
  <2>6. BrokerTypeOK'
    BY <1>1, <2>4, <2>5 DEF BrokerInv, BrokerTypeOK, Keys
  <2>7. \A k \in Keys : ReceiptOK(k)'
    BY <1>1 DEF BrokerInv, ReceiptOK, Exists
  <2>8. \A d \in Calls : CallOK(d)'
    <3>1. CallOK(c)'
      BY <1>1, <2>2, <2>4 DEF CallOK, Running
    <3>2. ASSUME NEW d \in Calls, d # c PROVE CallOK(d)'
      BY <3>2, <1>1, <2>4 DEF BrokerInv, CallOK, Running, Exists
    <3> QED BY <3>1, <3>2
  <2>9. OneRunner'
    BY <2>2, <2>4 DEF BrokerInv, OneRunner, Running
  <2>10. SpendingOK(s)'
    <3>1. SpendingOK(s) /\ invoked[s] > 0
      BY <1>3 DEF BrokerInv, SpendingOK
    <3>2. \A d \in Calls : ~Spends(d, s)
      BY <1>3, <3>1 DEF SpendingOK
    <3>3. \A k \in Keys : receipts[k].spent # s
      BY <1>3, <3>1 DEF SpendingOK
    <3>4. \A d \in Calls : Spends(d, s)' => d = c
      BY <3>2, <2>4 DEF Spends, Live
    <3> QED BY <1>1, <2>5, <3>1, <3>3, <3>4 DEF SpendingOK
  <2>11. ASSUME NEW u \in Searches, u # s PROVE SpendingOK(u)'
    <3>1. SpendingOK(u) /\ u # None
      BY ToolBrokerAssumption DEF BrokerInv
    <3>2. \A d \in Calls : Spends(d, u)' => Spends(d, u) /\ d # c
      BY <2>2, <2>4, <2>11 DEF Spends, Live
    <3>3. \A d \in Calls : d # c => (Running(d)' <=> Running(d)) /\ calls'[d] = calls[d]
      BY <2>4 DEF Running
    <3> QED BY <1>1, <2>5, <2>11, <3>1, <3>2, <3>3 DEF SpendingOK
  <2> QED BY <2>6, <2>7, <2>8, <2>9, <2>10, <2>11 DEF BrokerInv, Keys
<1> QED BY <1>2, <1>3 DEF Consume

\* Closing a receipt in progress keeps the selection that it spent.
LEMMA CloseIs ==
  ASSUME NEW r \in Receipt, r.status = "PROCESSING", r.run = "RUNNING",
         NEW st \in {"COMPLETED", "FAILED"}
  PROVE  /\ Close(r, st) \in Receipt
         /\ Close(r, st).status = st /\ Close(r, st).run = st
         /\ Close(r, st).spent = r.spent
  BY DEF Close, Receipt, Statuses

\* A receipt is closed and the callback that does it is done.
LEMMA CloseHolds ==
  ASSUME BrokerInv, NEW c \in Calls, NEW k \in Keys, NEW st \in {"COMPLETED", "FAILED"},
         receipts[k].status = "PROCESSING",
         receipts' = [receipts EXCEPT ![k] = Close(receipts[k], st)],
         Return(c), UNCHANGED <<selections, invoked, now>>
  PROVE  BrokerInv'
<1>1. receipts[k] \in Receipt /\ receipts[k].run = "RUNNING"
  BY DEF BrokerInv, BrokerTypeOK, ReceiptOK
<1>2. /\ receipts' \in [Keys -> Receipt]
      /\ receipts'[k].status = st /\ receipts'[k].run = st
      /\ receipts'[k].spent = receipts[k].spent
      /\ \A i \in Keys : i # k => receipts'[i] = receipts[i]
  BY <1>1, CloseIs DEF BrokerInv, BrokerTypeOK
<1>3. \A i \in Keys : receipts'[i].spent = receipts[i].spent
  BY <1>2
<1>4. \A i \in Keys : Exists(i)' <=> Exists(i)
  BY <1>2 DEF Exists
<1>5. /\ calls' \in [Calls -> Call \cup {Idle}]
      /\ calls'[c] = Idle /\ Idle.stage = "idle"
      /\ \A d \in Calls : d # c => calls'[d] = calls[d]
  BY CallsAre DEF BrokerInv, Return, Idle
<1>6. BrokerTypeOK'
  BY <1>2, <1>5 DEF BrokerInv, BrokerTypeOK, Keys
<1>7. \A i \in Keys : ReceiptOK(i)'
  BY <1>2, <1>3, <1>4 DEF BrokerInv, ReceiptOK
<1>8. \A d \in Calls : CallOK(d)'
  <2>1. CallOK(c)'
    BY <1>5 DEF CallOK, Running
  <2>2. ASSUME NEW d \in Calls, d # c PROVE CallOK(d)'
    <3>1. Running(d) => calls[d].key \in Keys
      BY DEF BrokerInv, BrokerTypeOK, Running, Call, Idle
    <3> QED BY <2>2, <1>3, <1>4, <1>5, <3>1 DEF BrokerInv, CallOK, Running
  <2> QED BY <2>1, <2>2
<1>9. OneRunner'
  BY <1>5 DEF BrokerInv, OneRunner, Running
<1>10. ASSUME NEW s \in Searches PROVE SpendingOK(s)'
  <2>1. \A d \in Calls : Spends(d, s)' => d # c /\ Spends(d, s)
    BY <1>5 DEF Spends, Live
  <2>2. \A d \in Calls : d # c => (Running(d)' <=> Running(d)) /\ calls'[d] = calls[d]
    BY <1>5 DEF Running
  <2> QED BY <1>3, <2>1, <2>2 DEF BrokerInv, SpendingOK
<1> QED BY <1>6, <1>7, <1>8, <1>9, <1>10 DEF BrokerInv, Keys

\* The reservation makes the receipt, and its callback the one that runs the tool.
LEMMA StartHolds ==
  ASSUME BrokerInv, NEW c \in Calls, NEW similar, NEW counted, Start(c, similar, counted)
  PROVE  BrokerInv'
<1>1. /\ calls[c].stage \in {"resolved", "selected"}
      /\ calls[c] \in Call
  BY DEF Start, Reserving, At, BrokerInv, BrokerTypeOK, Idle
<1>2. PICK k \in Keys : k = calls[c].key
  BY <1>1 DEF Call
<1>3. ~Exists(k) /\ UNCHANGED <<selections, invoked, now>>
  BY <1>2 DEF Start
<1>4. k \in Actions => calls[c].spent # None
  BY <1>2 DEF Start, Replays
<1> DEFINE r == [status |-> "PROCESSING", run |-> "RUNNING", by |-> calls[c].by,
                 spent |-> calls[c].spent, at |-> now]
<1>5. /\ r \in Receipt
      /\ r.status = "PROCESSING" /\ r.run = "RUNNING" /\ r.spent = calls[c].spent
  BY <1>1 DEF BrokerInv, BrokerTypeOK, Receipt, Statuses, Call
<1>6. receipts' = [receipts EXCEPT ![k] = r]
  BY <1>2 DEF Start
<1> HIDE DEF r
<1>7. /\ receipts' \in [Keys -> Receipt]
      /\ receipts'[k] = r
      /\ \A i \in Keys : i # k => receipts'[i] = receipts[i]
  BY <1>5, <1>6 DEF BrokerInv, BrokerTypeOK
<1>8. PICK j \in Call : /\ calls' = [calls EXCEPT ![c] = j]
                        /\ j.stage = "reserved" /\ j.key = k
                        /\ j.spent = calls[c].spent
  BY <1>1, <1>2, GotoIs DEF Start, BrokerInv, Stages
<1>9. /\ calls' \in [Calls -> Call \cup {Idle}]
      /\ calls'[c] = j
      /\ \A d \in Calls : d # c => calls'[d] = calls[d]
  BY <1>8, CallsAre DEF BrokerInv
<1>10. \A d \in Calls : ~(Running(d) /\ calls[d].key = k)
  BY <1>3 DEF BrokerInv, CallOK
<1>11. invoked[k] = 0
  BY <1>3 DEF BrokerInv, BrokerTypeOK, ReceiptOK
<1>12. BrokerTypeOK'
  BY <1>3, <1>7, <1>9 DEF BrokerInv, BrokerTypeOK, Keys
<1>13. \A i \in Keys : ReceiptOK(i)'
  <2>1. ReceiptOK(k)'
    BY <1>3, <1>4, <1>5, <1>7, <1>11 DEF ReceiptOK, Exists
  <2>2. ASSUME NEW i \in Keys, i # k PROVE ReceiptOK(i)'
    BY <2>2, <1>3, <1>7 DEF BrokerInv, ReceiptOK, Exists
  <2> QED BY <2>1, <2>2
<1>14. \A d \in Calls : CallOK(d)'
  <2>1. CallOK(c)'
    BY <1>3, <1>5, <1>7, <1>8, <1>9, <1>11 DEF CallOK, Running, Exists
  <2>2. ASSUME NEW d \in Calls, d # c PROVE CallOK(d)'
    <3>1. Running(d) => calls[d].key \in Keys /\ calls[d].key # k
      BY <1>10 DEF BrokerInv, BrokerTypeOK, Running, Call, Idle
    <3> QED BY <2>2, <3>1, <1>3, <1>7, <1>9 DEF BrokerInv, CallOK, Running, Exists
  <2> QED BY <2>1, <2>2
<1>15. OneRunner'
  BY <1>8, <1>9, <1>10 DEF BrokerInv, OneRunner, Running
<1>16. ASSUME NEW s \in Searches PROVE SpendingOK(s)'
  <2>1. SpendingOK(s)
    BY DEF BrokerInv
  <2>2. \A d \in Calls : Spends(d, s)' <=> Spends(d, s)
    BY <1>1, <1>8, <1>9 DEF Spends, Live
  <2>3. ~Running(c) /\ Live(c)
    BY <1>1 DEF Running, Live
  <2>4. receipts'[k].spent = s <=> Spends(c, s)
    BY <1>5, <1>7, <2>3 DEF Spends
  <2>5. Spends(c, s) => \A i \in Keys : receipts[i].spent # s
    BY <2>1, <2>3 DEF SpendingOK
  <2>6. Running(c)' /\ calls'[c].key = k
    BY <1>8, <1>9 DEF Running
  <2>7. \A d \in Calls : d # c => (Running(d)' <=> Running(d)) /\ calls'[d] = calls[d]
    BY <1>9 DEF Running
  <2>8. \A i \in Keys : receipts'[i].spent = s => (i = k /\ Spends(c, s)) \/ (i # k /\ receipts[i].spent = s)
    BY <1>7, <2>4
  <2>9. \A d \in Calls : Spends(d, s)' => selections'[s].state # "ISSUED" /\ invoked'[s] > 0
    BY <1>3, <2>1, <2>2 DEF SpendingOK
  <2>10. \A i \in Keys : receipts'[i].spent = s => selections'[s].state # "ISSUED" /\ invoked'[s] > 0
    BY <1>3, <2>1, <2>8 DEF SpendingOK
  <2>11. \A d, e \in Calls : Spends(d, s)' /\ Spends(e, s)' => d = e
    BY <2>1, <2>2 DEF SpendingOK
  <2>12. \A d \in Calls, i \in Keys :
           Spends(d, s)' /\ receipts'[i].spent = s => Running(d)' /\ calls'[d].key = i
    <3>1. ASSUME NEW d \in Calls, NEW i \in Keys, Spends(d, s)', receipts'[i].spent = s
          PROVE  Running(d)' /\ calls'[d].key = i
      <4>1. CASE d = c
        <5>1. i = k
          BY <4>1, <3>1, <2>2, <2>5, <2>8
        <5> QED BY <4>1, <5>1, <2>6
      <4>2. CASE d # c
        <5>1. ~Spends(c, s)
          BY <4>2, <3>1, <2>1, <2>2 DEF SpendingOK
        <5>2. receipts[i].spent = s
          BY <3>1, <5>1, <2>8
        <5> QED BY <4>2, <5>2, <3>1, <2>1, <2>2, <2>7 DEF SpendingOK
      <4> QED BY <4>1, <4>2
    <3> QED BY <3>1
  <2>13. \A i, h \in Keys : receipts'[i].spent = s /\ receipts'[h].spent = s => i = h
    BY <2>1, <2>5, <2>8 DEF SpendingOK
  <2>14. selections'[s].state # "ABSENT" => invoked'[s] > 0
    BY <1>3, <2>1 DEF SpendingOK
  <2> QED BY <2>9, <2>10, <2>11, <2>12, <2>13, <2>14 DEF SpendingOK
<1> QED BY <1>12, <1>13, <1>14, <1>15, <1>16 DEF BrokerInv, Keys

\* The tool runs, once, and a search issues its selection.
LEMMA InvokeHolds == ASSUME BrokerInv, NEW c \in Calls, Invoke(c) PROVE BrokerInv'
<1>1. calls[c] \in Call /\ calls[c].stage = "reserved"
  BY DEF Invoke, At, BrokerInv, BrokerTypeOK, Idle
<1>2. PICK k \in Keys : k = calls[c].key
  BY <1>1 DEF Call
<1>3. /\ invoked' = [invoked EXCEPT ![k] = @ + 1]
      /\ UNCHANGED <<receipts, now>>
      /\ invoked[k] = 0 /\ Exists(k) /\ invoked \in [Keys -> Nat]
  BY <1>1, <1>2 DEF Invoke, BrokerInv, BrokerTypeOK, CallOK, Running
<1>4. /\ invoked' \in [Keys -> Nat]
      /\ invoked'[k] = 1
      /\ \A i \in Keys : i # k => invoked'[i] = invoked[i]
  BY <1>3
<1>5. PICK st \in {"succeeded", "threw"} : Goto(c, st)
  BY DEF Invoke
<1>6. PICK j \in Call : /\ calls' = [calls EXCEPT ![c] = j]
                        /\ j.stage = st /\ j.key = k /\ j.spent = calls[c].spent
  BY <1>1, <1>2, <1>5, GotoIs DEF BrokerInv, Stages
<1>7. /\ calls' \in [Calls -> Call \cup {Idle}]
      /\ calls'[c] = j
      /\ \A d \in Calls : d # c => calls'[d] = calls[d]
  BY <1>6, CallsAre DEF BrokerInv
<1>8. /\ selections' \in [Searches -> Selection]
      /\ \A s \in Searches : s # k => selections'[s] = selections[s]
      /\ k \in Searches => \/ selections'[k] = selections[k]
                           \/ selections'[k].state = "ISSUED"
  <2>1. now + SelectionTtl \in Nat /\ selections \in [Searches -> Selection]
    BY ToolBrokerAssumption DEF BrokerInv, BrokerTypeOK
  <2>2. CASE Issue(k)
    BY <2>1, <2>2 DEF Issue, Selection
  <2>3. CASE UNCHANGED selections
    BY <2>1, <2>3
  <2> QED BY <1>2, <2>2, <2>3 DEF Invoke
<1>9. BrokerTypeOK'
  BY <1>3, <1>4, <1>7, <1>8 DEF BrokerInv, BrokerTypeOK, Keys
<1>10. \A i \in Keys : ReceiptOK(i)'
  <2>1. ReceiptOK(k)'
    BY <1>3, <1>4 DEF BrokerInv, ReceiptOK, Exists
  <2>2. ASSUME NEW i \in Keys, i # k PROVE ReceiptOK(i)'
    BY <2>2, <1>3, <1>4 DEF BrokerInv, ReceiptOK, Exists
  <2> QED BY <2>1, <2>2
<1>11. \A d \in Calls : d # c /\ Running(d) => calls[d].key \in Keys /\ calls[d].key # k
  BY <1>1, <1>2 DEF BrokerInv, BrokerTypeOK, OneRunner, Running, Call, Idle
<1>12. \A d \in Calls : CallOK(d)'
  <2>1. CallOK(c)'
    BY <1>1, <1>2, <1>3, <1>6, <1>7 DEF BrokerInv, CallOK, Running, Exists
  <2>2. ASSUME NEW d \in Calls, d # c PROVE CallOK(d)'
    BY <2>2, <1>3, <1>4, <1>7, <1>11 DEF BrokerInv, CallOK, Running, Exists
  <2> QED BY <2>1, <2>2
<1>13. OneRunner'
  BY <1>1, <1>2, <1>6, <1>7 DEF BrokerInv, OneRunner, Running
<1>14. ASSUME NEW s \in Searches PROVE SpendingOK(s)'
  <2>1. SpendingOK(s) /\ invoked[s] \in Nat
    BY <1>3 DEF BrokerInv, Keys
  <2>2. \A d \in Calls : Spends(d, s)' <=> Spends(d, s)
    BY <1>1, <1>6, <1>7 DEF Spends, Live
  <2>3. \A d \in Calls : (Running(d)' <=> Running(d)) /\ (Running(d) => calls'[d].key = calls[d].key)
    BY <1>1, <1>2, <1>6, <1>7 DEF Running
  <2>4. CASE s = k
    <3>1. ~(invoked[s] > 0)
      BY <2>4, <1>3
    <3>2. /\ \A d \in Calls : ~Spends(d, s)'
          /\ \A i \in Keys : receipts'[i].spent # s
      BY <2>1, <2>2, <3>1, <1>3 DEF SpendingOK
    <3>3. invoked'[s] > 0
      BY <2>4, <1>4
    <3> QED BY <3>2, <3>3 DEF SpendingOK
  <2>5. CASE s # k
    <3>1. selections'[s] = selections[s] /\ invoked'[s] = invoked[s]
      BY <2>5, <1>4, <1>8 DEF Keys
    <3> QED BY <3>1, <2>1, <2>2, <2>3, <1>3 DEF SpendingOK
  <2> QED BY <2>4, <2>5
<1> QED BY <1>9, <1>10, <1>12, <1>13, <1>14 DEF BrokerInv, Keys

LEMMA FailStaleHolds == ASSUME BrokerInv, NEW c \in Calls, FailStale(c) PROVE BrokerInv'
<1>1. calls[c].key \in Keys
  BY DEF FailStale, Reserving, At, BrokerInv, BrokerTypeOK, Call, Idle
<1>2. /\ receipts[calls[c].key].status = "PROCESSING"
      /\ receipts' = [receipts EXCEPT ![calls[c].key] = Close(receipts[calls[c].key], "FAILED")]
      /\ Return(c) /\ UNCHANGED <<selections, invoked, now>>
  BY <1>1 DEF FailStale, IsStale, BrokerInv, BrokerTypeOK
<1> QED BY <1>1, <1>2, CloseHolds

LEMMA RecordHolds == ASSUME BrokerInv, NEW c \in Calls, Record(c) PROVE BrokerInv'
<1>1. calls[c].key \in Keys
  BY DEF Record, Finished, At, BrokerInv, BrokerTypeOK, Call, Idle
<1>2. CASE receipts[calls[c].key].status = "PROCESSING"
  <2>1. /\ receipts' = [receipts EXCEPT ![calls[c].key] = Close(receipts[calls[c].key], Outcome(c))]
        /\ Return(c) /\ UNCHANGED <<selections, invoked, now>>
    BY <1>1, <1>2 DEF Record, BrokerInv, BrokerTypeOK
  <2>2. Outcome(c) \in {"COMPLETED", "FAILED"}
    BY DEF Outcome
  <2> QED BY <1>1, <1>2, <2>1, <2>2, CloseHolds
<1>3. CASE receipts[calls[c].key].status # "PROCESSING"
  <2>1. receipts' = receipts
    BY <1>1, <1>3 DEF Record, BrokerInv, BrokerTypeOK
  <2> QED BY <2>1, ReturnHolds DEF Record, BrokerInv, BrokerTypeOK
<1> QED BY <1>2, <1>3

\* Deleting a selection, and the passing of time.
LEMMA PurgeHolds ==
  ASSUME BrokerInv, \/ \E s \in Searches : PurgeSelection(s)
                    \/ Tick
  PROVE  BrokerInv'
<1>1. UNCHANGED <<receipts, calls, invoked>>
  BY DEF PurgeSelection, Tick
<1>2. /\ selections' \in [Searches -> Selection]
      /\ \A s \in Searches : selections'[s] = selections[s] \/ selections'[s].state = "ABSENT"
  BY DEF PurgeSelection, Tick, BrokerInv, BrokerTypeOK, Selection, NoSelection
<1>3. BrokerTypeOK'
  BY <1>1, <1>2 DEF BrokerInv, BrokerTypeOK, PurgeSelection, Tick, Keys
<1>4. /\ \A k \in Keys : ReceiptOK(k)'
      /\ \A c \in Calls : CallOK(c)'
      /\ OneRunner'
  BY <1>1 DEF BrokerInv, ReceiptOK, CallOK, OneRunner, Running, Exists
<1>5. ASSUME NEW s \in Searches PROVE SpendingOK(s)'
  <2>1. SpendingOK(s) /\ (selections'[s] = selections[s] \/ selections'[s].state = "ABSENT")
    BY <1>2 DEF BrokerInv
  <2> QED BY <1>1, <2>1 DEF SpendingOK, Spends, Live, Running
<1> QED BY <1>3, <1>4, <1>5 DEF BrokerInv, Keys

\* A callback whose record is rolled back.
LEMMA RollBackHolds == ASSUME BrokerInv, NEW c \in Calls, RollBack(c) PROVE BrokerInv'
<1>1. UNCHANGED <<receipts, selections, invoked, now>> /\ now' \in Nat /\ Running(c)
  BY DEF RollBack, BrokerInv, BrokerTypeOK, Finished, At, Running
<1>2. CASE Return(c)
  BY <1>1, <1>2, ReturnHolds
<1>3. CASE Goto(c, "threw")
  <2>1. PICK j \in Call : /\ calls' = [calls EXCEPT ![c] = j]
                          /\ j.stage = "threw" /\ j.key = calls[c].key
                          /\ j.spent = calls[c].spent
    BY <1>1, <1>3, GotoIs DEF BrokerInv, Stages, Running
  <2> QED BY <1>1, <2>1, MoveHolds DEF Running, Live
<1> QED BY <1>2, <1>3 DEF RollBack

\* What the invariant of the broker says of its promises.
LEMMA BrokerPromises ==
  ASSUME BrokerInv
  PROVE  AtMostOneInvocation /\ SelectionIsSpentOnce /\ ReceiptsAndRunsAgree
<1>1. AtMostOneInvocation /\ ReceiptsAndRunsAgree
  BY DEF BrokerInv, ReceiptOK, AtMostOneInvocation, ReceiptsAndRunsAgree
<1>2. ASSUME NEW j \in Actions, NEW k \in Actions, Exists(j), Exists(k)
      PROVE  /\ receipts[j].spent # None
             /\ j # k => receipts[j].spent # receipts[k].spent
  <2>1. /\ j \in Keys /\ k \in Keys
        /\ receipts[j].spent \in Searches \cup {None}
        /\ receipts[j].spent # None
    BY <1>2 DEF BrokerInv, BrokerTypeOK, Receipt, ReceiptOK, Keys
  <2>2. PICK s \in Searches : s = receipts[j].spent
    BY <2>1
  <2> QED BY <2>1, <2>2 DEF BrokerInv, SpendingOK
<1> QED BY <1>1, <1>2 DEF SelectionIsSpentOnce

-----------------------------------------------------------------------------
(* The steps of the CRM's channel, for the broker.                         *)

\* The steps of the turns and of the session's maintenance.
SessionStep ==
  \/ \E t \in Turns : TurnStep(t) \/ CrashTurn(t)
  \/ PurgeSession

LEMMA SessionKeepsBroker == ASSUME SessionStep PROVE UNCHANGED brokerVars
  BY DEF SessionStep, TurnStep, CrashTurn, PurgeSession, Register, LoadReceipts, Claim,
         LoseClaim, Reload, Answer, Persist, EndLease

\* A step of a callback is one of the broker's.
LEMMA CallKeepsBroker ==
  ASSUME AInv, NEW c \in Calls, CallStep(c) \/ DropCrm(c)
  PROVE  BrokerInv'
<1>1. ASSUME NEW k \in Keys, ResolveCrm(c, k) PROVE BrokerInv'
  <2>1. PICK b \in Admissions : b = session.token
    BY <1>1 DEF ResolveCrm, LeaseIsLive, AInv, LeaseOK, TypeOK, Session
  <2> QED BY <1>1, <2>1, ResolveHolds DEF ResolveCrm, AInv
<1>2. CASE ConsumeCrm(c)
  BY <1>2, ConsumeHolds DEF ConsumeCrm, AInv
<1>3. CASE ReserveCrm(c)
  <2>1. CASE FindReceipt(c) \/ Refuse(c, {}, {k \in Keys : Exists(k)})
    BY <2>1, ReturnHolds DEF FindReceipt, Refuse, AInv, BrokerInv, BrokerTypeOK
  <2>2. CASE FailStale(c)
    BY <2>2, FailStaleHolds DEF AInv
  <2>3. CASE Start(c, {}, {k \in Keys : Exists(k)})
    BY <2>3, StartHolds DEF AInv
  <2> QED BY <1>3, <2>1, <2>2, <2>3 DEF ReserveCrm
<1>4. CASE InvokeCrm(c)
  BY <1>4, InvokeHolds DEF InvokeCrm, AInv
<1>5. CASE RecordCrm(c)
  BY <1>5, RecordHolds DEF RecordCrm, AInv
<1>6. CASE RollBack(c)
  BY <1>6, RollBackHolds DEF AInv
<1>7. CASE DropCrm(c)
  BY <1>7, ReturnHolds DEF DropCrm, Drop, AInv, BrokerInv, BrokerTypeOK
<1> QED BY <1>1, <1>2, <1>3, <1>4, <1>5, <1>6, <1>7 DEF CallStep

-----------------------------------------------------------------------------
(* The steps of the CRM's channel, for the session.                        *)

\* A lease that ends leaves a session, draining or without its token.
LEMMA EndedIsSession ==
  ASSUME NEW r \in Session, NEW st \in {"DRAINING", "SETTLED", "READY"}
  PROVE  /\ [r EXCEPT !.status = st] \in Session
         /\ [r EXCEPT !.status = st, !.token = None, !.leaseEnds = 0] \in Session
         /\ [r EXCEPT !.status = st].status = st
         /\ [r EXCEPT !.status = st, !.token = None, !.leaseEnds = 0].status = st
  BY DEF Session

\* What a step of the session does to its row: it is registered, claimed, ended by
\* a turn that holds it, purged, or left alone.
LEMMA SessionStepIs ==
  ASSUME TypeOK, SessionStep
  PROVE  /\ session' \in Session
         /\ tokens' \subseteq Admissions
         /\ turns' \in [Turns -> Turn]
         /\ artifact' \in BOOLEAN
<1>1. now \in Nat /\ session \in Session /\ turns \in [Turns -> Turn] /\ tokens \subseteq Admissions
      /\ artifact \in BOOLEAN
  BY DEF TypeOK, BrokerTypeOK
<1>2. NoSession \in Session /\ IdleTurn \in Turn
  BY DEF NoSession, Session, IdleTurn, Turn
<1>3. PICK e \in Nat, l \in Nat : e = now + SessionTtl /\ l = now + Lease
  BY <1>1, CrmAssistantAssumption
<1>4. ASSUME NEW t \in Turns, NEW st, Step(t, st),
             st \in {"registered", "claiming", "reloading", "persisting", "settling", "releasing"}
      PROVE  turns' \in [Turns -> Turn]
  BY <1>1, <1>4 DEF Step, Turn
<1>5. ASSUME NEW t \in Turns, EndTurn(t) PROVE turns' \in [Turns -> Turn]
  BY <1>1, <1>2, <1>5 DEF EndTurn
<1>6. ASSUME NEW t \in Turns, Register(t) PROVE session' \in Session
  BY <1>1, <1>2, <1>3, <1>6 DEF Register, Session, NoSession
<1>7. ASSUME NEW t \in Turns, Claim(t)
      PROVE  session' \in Session /\ tokens' \subseteq Admissions /\ turns' \in [Turns -> Turn]
  <2>1. PICK token \in Admissions :
          /\ tokens' = tokens \cup {token}
          /\ session' = [session EXCEPT !.status = "RUNNING", !.token = token, !.leaseEnds = l]
          /\ turns' = [turns EXCEPT ![t] = [stage |-> "chatting", token |-> token]]
    BY <1>3, <1>7 DEF Claim
  <2> QED BY <1>1, <2>1 DEF Session, Turn
<1>8. ASSUME NEW t \in Turns, EndLease(t) PROVE session' \in Session
  <2>1. PICK target \in {"SETTLED", "READY"} : session' = Ended(turns[t].token, target)
    BY <1>8 DEF EndLease
  <2>2. \/ session' = session
        \/ session' = [session EXCEPT !.status = "DRAINING"]
        \/ session' = [session EXCEPT !.status = target, !.token = None, !.leaseEnds = 0]
    BY <2>1 DEF Ended
  <2>3. /\ [session EXCEPT !.status = "DRAINING"] \in Session
        /\ [session EXCEPT !.status = target, !.token = None, !.leaseEnds = 0] \in Session
    BY <1>1, EndedIsSession
  <2> QED BY <1>1, <2>2, <2>3
<1>9. CASE PurgeSession
  BY <1>1, <1>2, <1>9 DEF PurgeSession
<1>10. ASSUME NEW t \in Turns, TurnStep(t) \/ CrashTurn(t)
       PROVE  /\ session' \in Session
              /\ tokens' \subseteq Admissions
              /\ turns' \in [Turns -> Turn]
              /\ artifact' \in BOOLEAN
  <2>1. CASE Register(t)
    BY <1>1, <1>4, <1>6, <2>1 DEF Register
  <2>2. CASE LoadReceipts(t)
    BY <1>1, <1>4, <2>2 DEF LoadReceipts
  <2>3. CASE Claim(t)
    BY <1>1, <1>7, <2>3 DEF Claim
  <2>4. CASE LoseClaim(t) \/ Reload(t)
    BY <1>1, <1>4, <1>5, <2>4 DEF LoseClaim, Reload
  <2>5. CASE Answer(t) \/ Persist(t)
    BY <1>1, <1>4, <1>5, <2>5 DEF Answer, Persist
  <2>6. CASE EndLease(t)
    BY <1>1, <1>5, <1>8, <2>6 DEF EndLease
  <2>7. CASE CrashTurn(t)
    BY <1>1, <1>5, <2>7 DEF CrashTurn
  <2> QED BY <1>10, <2>1, <2>2, <2>3, <2>4, <2>5, <2>6, <2>7 DEF TurnStep
<1> QED BY <1>9, <1>10 DEF SessionStep

\* Only the last callback of a draining lease settles the session, and only a
\* running lease lets a receipt be made.
LEMMA CallStepIs ==
  ASSUME AInv, NEW c \in Calls, CallStep(c) \/ DropCrm(c)
  PROVE  /\ UNCHANGED <<tokens, turns, artifact>>
         /\ \/ /\ session' = session
               /\ session.status = "SETTLED" => Processing' \subseteq Processing
            \/ /\ session.status = "DRAINING"
               /\ session' = [session EXCEPT !.status = "SETTLED", !.token = None, !.leaseEnds = 0]
               /\ Processing' = {}
<1>1. ASSUME receipts' = receipts PROVE Processing' = Processing
  BY <1>1 DEF Processing, Keys
<1>2. ASSUME NEW k \in Keys, ResolveCrm(c, k)
      PROVE  UNCHANGED <<tokens, turns, artifact, session, receipts>>
  BY <1>2 DEF ResolveCrm, Resolve, sessionVars
<1>3. CASE ConsumeCrm(c) \/ InvokeCrm(c) \/ DropCrm(c) \/ RollBack(c)
  BY <1>1, <1>3 DEF ConsumeCrm, Consume, InvokeCrm, Invoke, DropCrm, Drop, RollBack, sessionVars
<1>4. CASE ReserveCrm(c)
  BY <1>4 DEF ReserveCrm, HoldsLease, LeaseIsLive, sessionVars
<1>5. CASE RecordCrm(c)
  <2>1. /\ UNCHANGED <<tokens, turns, artifact>>
        /\ calls[c].key \in Keys
        /\ receipts \in [Keys -> Receipt]
    BY <1>5 DEF RecordCrm, Finished, At, AInv, BrokerInv, BrokerTypeOK, Call, Idle
  <2>2. CASE receipts[calls[c].key].status # "PROCESSING"
    <3>1. receipts' = receipts /\ session' = session
      BY <1>5, <2>1, <2>2 DEF RecordCrm, Record
    <3> QED BY <1>1, <2>1, <3>1
  <2>3. CASE receipts[calls[c].key].status = "PROCESSING"
    <3>1. receipts' = [receipts EXCEPT ![calls[c].key] = Close(receipts[calls[c].key], Outcome(c))]
      BY <1>5, <2>1, <2>3 DEF RecordCrm, Record
    <3>2. /\ receipts'[calls[c].key].status # "PROCESSING"
          /\ \A k \in Keys : k # calls[c].key => receipts'[k] = receipts[k]
      <4>1. PICK st \in {"COMPLETED", "FAILED"} : st = Outcome(c)
        BY DEF Outcome
      <4>2. Close(receipts[calls[c].key], st).status = st
        BY <2>1 DEF Close, Receipt
      <4> QED BY <2>1, <3>1, <4>1, <4>2
    <3>3. Processing' = Processing \ {calls[c].key}
      BY <2>1, <3>2 DEF Processing, Keys
    <3>4. session' = Reconciled(c)
      BY <1>5, <2>3 DEF RecordCrm
    <3> QED BY <2>1, <3>3, <3>4 DEF Reconciled
  <2> QED BY <2>2, <2>3
<1> QED BY <1>1, <1>2, <1>3, <1>4, <1>5 DEF CallStep

-----------------------------------------------------------------------------
(* The theorems about a request of the CRM.                                *)

\* A step of the session leaves a settled one settled until it is purged, settles
\* only when nothing is in progress, and leases it only to a turn with a token.
LEMMA SessionStepEnds ==
  ASSUME TypeOK, SessionStep
  PROVE  /\ session.status = "SETTLED" => session'.status \in {"SETTLED", "ABSENT"}
         /\ session'.status = "SETTLED" => session.status = "SETTLED" \/ Processing = {}
         /\ session'.status = "RUNNING" =>
              \/ session.status = "RUNNING" /\ session'.token = session.token
              \/ session'.token \in Admissions
         /\ LeaseIsLive /\ session'.token # session.token =>
              \E t \in Turns : /\ turns[t].token = session.token
                               /\ turns[t].stage \in {"settling", "releasing"}
<1>1. session \in Session /\ now \in Nat /\ session.leaseEnds \in Nat /\ session.expiresAt \in Nat
  BY DEF TypeOK, BrokerTypeOK, Session
<1>2. CASE PurgeSession
  BY <1>1, <1>2 DEF PurgeSession, NoSession, LeaseIsLive
<1>3. ASSUME NEW t \in Turns, TurnStep(t) \/ CrashTurn(t), session' # session
      PROVE  Register(t) \/ Claim(t) \/ EndLease(t)
  BY <1>3 DEF TurnStep, CrashTurn, LoadReceipts, LoseClaim, Reload, Answer, Persist
<1>4. ASSUME NEW t \in Turns, Register(t)
      PROVE  /\ session.status # "ABSENT" => /\ session'.status = session.status
                                             /\ session'.token = session.token
             /\ session.status = "ABSENT" => session'.status = "READY"
  BY <1>1, <1>4 DEF Register, Session, NoSession
<1>5. ASSUME NEW t \in Turns, Claim(t)
      PROVE  /\ session.status # "SETTLED" /\ session'.status = "RUNNING"
             /\ session'.token \in Admissions /\ ~LeaseIsLive
  BY <1>1, <1>5 DEF Claim, Claimable, LeaseIsLive, Session
<1>6. ASSUME NEW t \in Turns, EndLease(t), session' # session
      PROVE  /\ session.status = "RUNNING" /\ turns[t].token = session.token
             /\ turns[t].stage \in {"settling", "releasing"}
             /\ session'.status \in {"DRAINING", "SETTLED", "READY"}
             /\ session'.status = "SETTLED" => Processing = {}
  BY <1>1, <1>6 DEF EndLease, Ended, Session
<1>7. CASE session' = session
  BY <1>7
<1>8. ASSUME NEW t \in Turns, TurnStep(t) \/ CrashTurn(t), session' # session
      PROVE  /\ session.status = "SETTLED" => session'.status \in {"SETTLED", "ABSENT"}
             /\ session'.status = "SETTLED" => session.status = "SETTLED" \/ Processing = {}
             /\ session'.status = "RUNNING" =>
                  \/ session.status = "RUNNING" /\ session'.token = session.token
                  \/ session'.token \in Admissions
             /\ LeaseIsLive /\ session'.token # session.token =>
                  \E u \in Turns : /\ turns[u].token = session.token
                                   /\ turns[u].stage \in {"settling", "releasing"}
  <2>1. CASE Register(t)
    BY <2>1, <1>4 DEF LeaseIsLive
  <2>2. CASE Claim(t)
    BY <2>2, <1>5
  <2>3. CASE EndLease(t)
    BY <2>3, <1>6, <1>8
  <2> QED BY <1>3, <1>8, <2>1, <2>2, <2>3
<1> QED BY <1>2, <1>7, <1>8 DEF SessionStep

\* Every step keeps the invariant.
LEMMA StepHolds == ASSUME AInv, [Next]_vars PROVE AInv'
<1>1. CASE UNCHANGED vars
  BY <1>1 DEF AInv, BrokerInv, BrokerTypeOK, ReceiptOK, CallOK, OneRunner, SpendingOK, Spends,
     Live, Running, Exists, TypeOK, LeaseOK, SettledIsQuiet, Processing, vars, brokerVars,
     sessionVars, Keys
<1>2. CASE SessionStep
  <2>1. UNCHANGED brokerVars
    BY <1>2, SessionKeepsBroker
  <2>2. BrokerInv'
    BY <2>1 DEF AInv, BrokerInv, BrokerTypeOK, ReceiptOK, CallOK, OneRunner, SpendingOK, Spends,
       Live, Running, Exists, brokerVars, Keys
  <2>3. TypeOK'
    BY <1>2, <2>2, SessionStepIs DEF AInv, TypeOK, BrokerInv
  <2>4. LeaseOK'
    BY <1>2, SessionStepEnds, ToolBrokerAssumption DEF AInv, LeaseOK
  <2>5. Processing' = Processing
    BY <2>1 DEF Processing, brokerVars, Keys
  <2>6. SettledIsQuiet'
    BY <1>2, <2>5, SessionStepEnds DEF AInv, SettledIsQuiet
  <2> QED BY <2>2, <2>3, <2>4, <2>6 DEF AInv
<1>3. ASSUME NEW c \in Calls, CallStep(c) \/ DropCrm(c) PROVE AInv'
  <2>1. BrokerInv'
    BY <1>3, CallKeepsBroker
  <2>2. session' \in Session /\ LeaseOK'
    <3>1. session \in Session
      BY DEF AInv, TypeOK
    <3>2. CASE session' = session
      BY <3>1, <3>2 DEF AInv, LeaseOK
    <3>3. CASE session' = [session EXCEPT !.status = "SETTLED", !.token = None, !.leaseEnds = 0]
      BY <3>1, <3>3, EndedIsSession DEF LeaseOK
    <3> QED BY <1>3, <3>2, <3>3, CallStepIs
  <2>3. TypeOK'
    BY <1>3, <2>1, <2>2, CallStepIs DEF AInv, TypeOK, BrokerInv
  <2>4. SettledIsQuiet'
    BY <1>3, CallStepIs DEF AInv, SettledIsQuiet
  <2> QED BY <2>1, <2>2, <2>3, <2>4 DEF AInv
<1>4. CASE PurgeSelectionCrm \/ TickCrm
  <2>1. UNCHANGED sessionVars /\ UNCHANGED receipts
    BY <1>4 DEF PurgeSelectionCrm, PurgeSelection, TickCrm, Tick
  <2>2. BrokerInv'
    BY <1>4, PurgeHolds DEF AInv, PurgeSelectionCrm, TickCrm
  <2> QED BY <2>1, <2>2 DEF AInv, BrokerInv, TypeOK, LeaseOK, SettledIsQuiet, Processing, sessionVars, Keys
<1> QED BY <1>1, <1>2, <1>3, <1>4 DEF Next, SessionStep

\* The inductive invariant: one callback works for a receipt, one spends a selection.
THEOREM AssistantInvariant == Spec => []AInv
  BY InitHolds, StepHolds, PTL DEF Spec

\* Broker, session and turns keep their types.
THEOREM AssistantTypeCorrect == Spec => []TypeOK
<1>1. AInv => TypeOK
  BY DEF AInv
<1> QED BY <1>1, AssistantInvariant, PTL

\* The tool of a request key runs at most once, for any number of callbacks,
\* crashes and stale recoveries.
THEOREM InvokedOnce == Spec => []AtMostOneInvocation
<1>1. AInv => AtMostOneInvocation
  BY BrokerPromises DEF AInv
<1> QED BY <1>1, AssistantInvariant, PTL

\* A selection authorises one action, and no action starts without one.
THEOREM SpentOnce == Spec => []SelectionIsSpentOnce
<1>1. AInv => SelectionIsSpentOnce
  BY BrokerPromises DEF AInv
<1> QED BY <1>1, AssistantInvariant, PTL

\* The receipt and its run agree, and nothing was run without a receipt.
THEOREM StoriesAgree == Spec => []ReceiptsAndRunsAgree
<1>1. AInv => ReceiptsAndRunsAgree
  BY BrokerPromises DEF AInv
<1> QED BY <1>1, AssistantInvariant, PTL

\* A settled execution has no tool in progress.
THEOREM SettledQuiet == Spec => []SettledIsQuiet
<1>1. AInv => SettledIsQuiet
  BY DEF AInv
<1> QED BY <1>1, AssistantInvariant, PTL

\* A settled execution is not opened again by a late turn, callback or release.
THEOREM SettledForGood == Spec => SettledStays
<1>1. ASSUME AInv, [Next]_vars, session.status = "SETTLED"
      PROVE  session'.status \in {"SETTLED", "ABSENT"}
  <2>1. CASE SessionStep
    BY <1>1, <2>1, SessionStepEnds DEF AInv
  <2>2. ASSUME NEW c \in Calls, CallStep(c) \/ DropCrm(c) PROVE session' = session
    BY <1>1, <2>2, CallStepIs
  <2>3. CASE PurgeSelectionCrm \/ TickCrm \/ UNCHANGED vars
    BY <1>1, <2>3 DEF PurgeSelectionCrm, TickCrm, vars, sessionVars
  <2> QED BY <1>1, <2>1, <2>2, <2>3 DEF Next, SessionStep
<1>2. AInv /\ [Next]_vars =>
        [session.status = "SETTLED" => session'.status \in {"SETTLED", "ABSENT"}]_session
  BY <1>1
<1> QED BY <1>2, AssistantInvariant, PTL DEF Spec, SettledStays

\* A live lease is ended by the turn that holds it and by nobody else.
THEOREM HolderEnds == Spec => OnlyTheHolderEnds
<1>1. ASSUME AInv, [Next]_vars, LeaseIsLive, session'.token # session.token
      PROVE  \E t \in Turns : /\ turns[t].token = session.token
                              /\ turns[t].stage \in {"settling", "releasing"}
  <2>1. CASE SessionStep
    BY <1>1, <2>1, SessionStepEnds DEF AInv
  <2>2. ASSUME NEW c \in Calls, CallStep(c) \/ DropCrm(c) PROVE FALSE
    BY <1>1, <2>2, CallStepIs DEF LeaseIsLive
  <2>3. CASE PurgeSelectionCrm \/ TickCrm \/ UNCHANGED vars
    BY <1>1, <2>3 DEF PurgeSelectionCrm, TickCrm, vars, sessionVars
  <2> QED BY <1>1, <2>1, <2>2, <2>3 DEF Next, SessionStep
<1>2. AInv /\ [Next]_vars =>
        [LeaseIsLive /\ session'.token # session.token =>
           \E t \in Turns : /\ turns[t].token = session.token
                            /\ turns[t].stage \in {"settling", "releasing"}]_session
  BY <1>1
<1> QED BY <1>2, AssistantInvariant, PTL DEF Spec, OnlyTheHolderEnds

\* The terminal receipt wins: whoever comes late changes neither it nor its run.
THEOREM TerminalWins == Spec => TerminalIsFinal
<1>1. ASSUME AInv, [Next]_vars, NEW k \in Keys, receipts[k].status \in {"COMPLETED", "FAILED"}
      PROVE  receipts'[k] = receipts[k]
  <2>1. CASE SessionStep
    BY <2>1, SessionKeepsBroker DEF brokerVars
  <2>2. ASSUME NEW c \in Calls, CallStep(c) \/ DropCrm(c) PROVE receipts'[k] = receipts[k]
    <3>1. receipts \in [Keys -> Receipt]
      BY <1>1 DEF AInv, BrokerInv, BrokerTypeOK
    <3>2. CASE FailStale(c)
      BY <1>1, <3>1, <3>2 DEF FailStale, IsStale
    <3>3. CASE Start(c, {}, {i \in Keys : Exists(i)})
      BY <1>1, <3>1, <3>3 DEF Start, Exists
    <3>4. CASE Record(c)
      BY <1>1, <3>1, <3>4 DEF Record
    <3>5. CASE receipts' = receipts
      BY <3>5
    <3> QED BY <2>2, <3>2, <3>3, <3>4, <3>5
            DEF CallStep, DropCrm, Drop, ResolveCrm, Resolve, ConsumeCrm, Consume, ReserveCrm,
                FindReceipt, Refuse, InvokeCrm, Invoke, RecordCrm, RollBack
  <2>3. CASE PurgeSelectionCrm \/ TickCrm \/ UNCHANGED vars
    BY <2>3 DEF PurgeSelectionCrm, PurgeSelection, TickCrm, Tick, vars, brokerVars
  <2> QED BY <1>1, <2>1, <2>2, <2>3 DEF Next, SessionStep
<1>2. AInv /\ [Next]_vars =>
        [\A k \in Keys : receipts[k].status \in {"COMPLETED", "FAILED"}
                            => receipts'[k] = receipts[k]]_receipts
  BY <1>1
<1> QED BY <1>2, AssistantInvariant, PTL DEF Spec, TerminalIsFinal

-----------------------------------------------------------------------------
(* The owner's WeChat.                                                     *)

\* A receipt was created by its sender, and not after now.
ReceiptIsSenders(k) ==
  Exists(k) => receipts[k].by = Sender(k) /\ receipts[k].at <= now

\* A callback acts for the sender of its key.
CallIsSenders(c) == Live(c) => calls[c].by = Sender(calls[c].key)

Receipts == {k \in Keys : Exists(k)}

CInv ==
  /\ BrokerInv
  /\ ChatTypeOK
  /\ \A c \in Calls : CallIsSenders(c)
  /\ \A k \in Keys : ReceiptIsSenders(k)
  /\ IsFiniteSet(Receipts)
  /\ DuplicatesAreApart
  /\ WindowHolds

LEMMA ChatInitHolds == ChatInit => CInv
<1> SUFFICES ASSUME ChatInit PROVE CInv
  OBVIOUS
<1>1. BrokerInv
  BY BrokerInitHolds DEF ChatInit
<1>2. /\ \A k \in Keys : ~Exists(k)
      /\ \A c \in Calls : ~Live(c)
  BY DEF ChatInit, BrokerInit, NoReceipt, Exists, Live, Idle
<1>3. IsFiniteSet(Receipts)
  <2>1. Receipts = {}
    BY <1>2 DEF Receipts
  <2> QED BY <2>1, FS_EmptySet
<1>4. DuplicatesAreApart /\ WindowHolds
  BY <1>2 DEF DuplicatesAreApart, WindowHolds, Keys
<1>5. ChatTypeOK
  BY <1>1 DEF ChatInit, ChatTypeOK, BrokerInv
<1> QED BY <1>1, <1>2, <1>3, <1>4, <1>5 DEF CInv, ReceiptIsSenders, CallIsSenders

\* A reservation that starts an action makes its receipt the only new one.
Starts(c) == Start(c, Similar(c), Recent(c)) /\ Accepted(calls[c].by) /\ bindings' = Seen(calls[c].by)

\* A callback stays the sender's: it is resolved as the sender's, or keeps what it is.
LEMMA SendersCalls ==
  ASSUME CInv, NEW c \in Calls, NEW j, calls' = [calls EXCEPT ![c] = j],
         j.stage # "idle" => j.by = Sender(j.key)
  PROVE  \A d \in Calls : CallIsSenders(d)'
<1>1. \A d \in Calls : calls'[d] = IF d = c THEN j ELSE calls[d]
  BY DEF CInv, BrokerInv, BrokerTypeOK
<1> QED BY <1>1 DEF CInv, CallIsSenders, Live

LEMMA SendersGoto ==
  ASSUME CInv, NEW c \in Calls, NEW st \in Stages, Goto(c, st), calls[c].stage # "idle"
  PROVE  \A d \in Calls : CallIsSenders(d)'
<1>1. PICK j \in Call : /\ calls' = [calls EXCEPT ![c] = j]
                        /\ j.key = calls[c].key /\ j.by = calls[c].by
  BY GotoIs DEF CInv, BrokerInv
<1>2. j.by = Sender(j.key)
  BY <1>1 DEF CInv, CallIsSenders, Live
<1> QED BY <1>1, <1>2, SendersCalls

LEMMA SendersReturn ==
  ASSUME CInv, NEW c \in Calls, Return(c)
  PROVE  \A d \in Calls : CallIsSenders(d)'
<1>1. Idle.stage = "idle"
  BY DEF Idle
<1> QED BY <1>1, SendersCalls DEF Return

\* A step of a callback of this channel is one of the broker's, and keeps the
\* senders apart.
LEMMA ChatCallHolds ==
  ASSUME CInv, NEW c \in Calls, ChatCall(c)
  PROVE  /\ BrokerInv' /\ \A d \in Calls : CallIsSenders(d)'
         /\ UNCHANGED now
         /\ UNCHANGED bindings \/ Starts(c)
<1>1. ASSUME NEW k \in Keys, ResolveOwner(c, k)
      PROVE  BrokerInv' /\ \A d \in Calls : CallIsSenders(d)'
  <2> DEFINE j == [stage |-> "resolved", key |-> k, by |-> Sender(k), spent |-> None]
  <2>1. Sender(k) \in Admissions
    BY OwnerChatAssumption DEF Keys
  <2>2. calls' = [calls EXCEPT ![c] = j] /\ j.by = Sender(j.key)
    BY <1>1 DEF ResolveOwner, Resolve
  <2>3. \A d \in Calls : CallIsSenders(d)'
    BY <2>2, SendersCalls
  <2> QED BY <1>1, <2>1, <2>3, ResolveHolds DEF ResolveOwner, CInv
<1>2. ASSUME ConsumeOwner(c)
      PROVE  BrokerInv' /\ \A d \in Calls : CallIsSenders(d)'
  <2>1. PICK s \in Searches : Consume(c, s)
    BY <1>2 DEF ConsumeOwner
  <2>2. BrokerInv'
    BY <2>1, ConsumeHolds DEF CInv
  <2>3. calls[c].stage = "resolved" /\ calls[c] \in Call
    BY <2>1 DEF Consume, At, CInv, BrokerInv, BrokerTypeOK, Idle
  <2>4. CASE Goto(c, "selected")
    BY <2>2, <2>3, <2>4, SendersGoto DEF Stages
  <2>5. CASE calls' = [calls EXCEPT ![c].stage = "selected", ![c].spent = s]
    <3> DEFINE j == [calls[c] EXCEPT !.stage = "selected", !.spent = s]
    <3>1. calls' = [calls EXCEPT ![c] = j]
      BY <2>5
    <3>2. j.by = calls[c].by /\ j.key = calls[c].key
      BY <2>3 DEF Call
    <3>3. j.by = Sender(j.key)
      BY <2>3, <3>2 DEF CInv, CallIsSenders, Live
    <3> HIDE DEF j
    <3> QED BY <2>2, <3>1, <3>3, SendersCalls
  <2> QED BY <2>1, <2>4, <2>5 DEF Consume
<1>3. ASSUME ReserveOwner(c)
      PROVE  BrokerInv' /\ \A d \in Calls : CallIsSenders(d)'
  <2>1. CASE FindReceipt(c) \/ Refuse(c, Similar(c), Recent(c))
    <3>1. Return(c) /\ UNCHANGED <<receipts, selections, invoked, now>> /\ now' \in Nat
      BY <2>1 DEF FindReceipt, Refuse, CInv, BrokerInv, BrokerTypeOK
    <3> QED BY <3>1, ReturnHolds, SendersReturn DEF CInv
  <2>2. CASE FailStale(c)
    BY <2>2, FailStaleHolds, SendersReturn DEF CInv, FailStale
  <2>3. CASE Start(c, Similar(c), Recent(c))
    <3>1. Goto(c, "reserved") /\ calls[c].stage # "idle"
      BY <2>3 DEF Start, Reserving, At
    <3> QED BY <2>3, <3>1, StartHolds, SendersGoto DEF CInv, Stages
  <2> QED BY <1>3, <2>1, <2>2, <2>3 DEF ReserveOwner
<1>4. ASSUME Invoke(c)
      PROVE  BrokerInv' /\ \A d \in Calls : CallIsSenders(d)'
  <2>1. /\ Goto(c, "succeeded") \/ Goto(c, "threw")
        /\ calls[c].stage # "idle"
    BY <1>4 DEF Invoke, At
  <2> QED BY <1>4, <2>1, InvokeHolds, SendersGoto DEF CInv, Stages
<1>5. ASSUME Record(c)
      PROVE  BrokerInv' /\ \A d \in Calls : CallIsSenders(d)'
  BY <1>5, RecordHolds, SendersReturn DEF CInv, Record
<1>6. ASSUME Drop(c)
      PROVE  BrokerInv' /\ \A d \in Calls : CallIsSenders(d)'
  BY <1>6, ReturnHolds, SendersReturn DEF CInv, BrokerInv, BrokerTypeOK, Drop
<1>7. UNCHANGED now /\ (UNCHANGED bindings \/ Starts(c))
  BY DEF ChatCall, ResolveOwner, Resolve, ConsumeOwner, Consume, ReserveOwner, FindReceipt,
     Refuse, FailStale, Start, Starts, Invoke, Record, Drop
<1> QED BY <1>1, <1>2, <1>3, <1>4, <1>5, <1>6, <1>7 DEF ChatCall

\* Closing a receipt moves it neither in time nor to another sender.
ReceiptsStay ==
  \A k \in Keys : /\ Exists(k)' <=> Exists(k)
                  /\ receipts'[k].by = receipts[k].by
                  /\ receipts'[k].at = receipts[k].at

LEMMA CloseStays ==
  ASSUME CInv, NEW k \in Keys, NEW st \in {"COMPLETED", "FAILED"},
         receipts[k].status = "PROCESSING",
         receipts' = [receipts EXCEPT ![k] = Close(receipts[k], st)]
  PROVE  ReceiptsStay
<1>1. receipts \in [Keys -> Receipt]
  BY DEF CInv, BrokerInv, BrokerTypeOK
<1>2. /\ Close(receipts[k], st).status = st
      /\ Close(receipts[k], st).by = receipts[k].by
      /\ Close(receipts[k], st).at = receipts[k].at
  BY <1>1 DEF Close, Receipt
<1>3. \A i \in Keys : receipts'[i] = IF i = k THEN Close(receipts[k], st) ELSE receipts[i]
  BY <1>1
<1> QED BY <1>2, <1>3 DEF ReceiptsStay, Exists

LEMMA ReceiptsStep ==
  ASSUME CInv, NEW c \in Calls, ChatCall(c), ~Starts(c)
  PROVE  ReceiptsStay
<1>1. CASE receipts' = receipts
  BY <1>1 DEF ReceiptsStay, Exists
<1>2. CASE FailStale(c) \/ Record(c)
  <2>1. calls[c].key \in Keys /\ receipts \in [Keys -> Receipt]
    BY <1>2 DEF FailStale, Reserving, Record, Finished, At, CInv, BrokerInv, BrokerTypeOK, Call, Idle
  <2>2. CASE FailStale(c)
    BY <2>1, <2>2, CloseStays DEF FailStale, IsStale
  <2>3. CASE Record(c) /\ receipts[calls[c].key].status = "PROCESSING"
    <3>1. Outcome(c) \in {"COMPLETED", "FAILED"}
      BY DEF Outcome
    <3>2. receipts' = [receipts EXCEPT ![calls[c].key] = Close(receipts[calls[c].key], Outcome(c))]
      BY <2>1, <2>3 DEF Record
    <3> QED BY <2>1, <2>3, <3>1, <3>2, CloseStays
  <2>4. CASE Record(c) /\ receipts[calls[c].key].status # "PROCESSING"
    <3>1. receipts' = receipts
      BY <2>1, <2>4 DEF Record
    <3> QED BY <3>1, <1>1
  <2> QED BY <1>2, <2>2, <2>3, <2>4
<1> QED BY <1>1, <1>2 DEF ChatCall, ResolveOwner, Resolve, ConsumeOwner, Consume, ReserveOwner,
     FindReceipt, Refuse, Starts, Invoke, Drop

\* As long as no receipt is made, what was said of them remains so.
LEMMA StayHolds ==
  ASSUME CInv, ReceiptsStay, now' \in Nat, now' >= now
  PROVE  /\ \A k \in Keys : ReceiptIsSenders(k)'
         /\ IsFiniteSet(Receipts')
         /\ DuplicatesAreApart'
         /\ WindowHolds'
<1>1. /\ receipts \in [Keys -> Receipt] /\ now \in Nat
      /\ \A k \in Keys : receipts[k].at \in Nat
  BY DEF CInv, BrokerInv, BrokerTypeOK, Receipt
<1>2. \A k \in Keys : ReceiptIsSenders(k)'
  BY <1>1 DEF CInv, ReceiptIsSenders, ReceiptsStay
<1>3. Receipts' = Receipts
  BY DEF Receipts, ReceiptsStay, Keys
<1>4. DuplicatesAreApart'
  BY DEF CInv, DuplicatesAreApart, ReceiptsStay, Keys
<1>5. WindowHolds'
  <2> DEFINE Before(k) == {j \in Keys : /\ Exists(j)
                                        /\ Sender(j) = Sender(k)
                                        /\ receipts[j].at <= receipts[k].at
                                        /\ receipts[j].at + Window >= receipts[k].at}
  <2>1. ASSUME NEW k \in Keys, Exists(k)' PROVE Cardinality(Before(k)') <= Limit
    <3>1. Before(k)' = Before(k)
      BY <2>1 DEF ReceiptsStay, Keys
    <3>2. Exists(k)
      BY <2>1 DEF ReceiptsStay
    <3> QED BY <3>1, <3>2 DEF CInv, WindowHolds
  <2> QED BY <2>1 DEF WindowHolds, Keys
<1> QED BY <1>2, <1>3, <1>4, <1>5 DEF CInv

\* A new receipt has no like in the window of duplicates and a place in the
\* rolling window.
LEMMA StartsHolds ==
  ASSUME CInv, NEW c \in Calls, Starts(c)
  PROVE  /\ \A k \in Keys : ReceiptIsSenders(k)'
         /\ IsFiniteSet(Receipts')
         /\ DuplicatesAreApart'
         /\ WindowHolds'
<1>1. /\ receipts \in [Keys -> Receipt] /\ now \in Nat
      /\ \A k \in Keys : receipts[k].at \in Nat
  BY DEF CInv, BrokerInv, BrokerTypeOK, Receipt
<1>2. calls[c] \in Call /\ Live(c)
  BY DEF Starts, Start, Reserving, At, Live, CInv, BrokerInv, BrokerTypeOK, Idle
<1>3. PICK k \in Keys : k = calls[c].key
  BY <1>2 DEF Call
<1>4. /\ ~Exists(k) /\ calls[c].by = Sender(k) /\ now' = now
      /\ Similar(c) = {} /\ Cardinality(Recent(c)) < Limit
  BY <1>2, <1>3 DEF Starts, Start, CInv, CallIsSenders
<1> DEFINE r == [status |-> "PROCESSING", run |-> "RUNNING", by |-> calls[c].by,
                 spent |-> calls[c].spent, at |-> now]
<1>5. receipts' = [receipts EXCEPT ![k] = r] /\ r.status # "ABSENT" /\ r.by = Sender(k) /\ r.at = now
  BY <1>3, <1>4 DEF Starts, Start
<1> HIDE DEF r
<1>6. /\ Exists(k)' /\ receipts'[k].by = Sender(k) /\ receipts'[k].at = now
      /\ \A i \in Keys : i # k => (Exists(i)' <=> Exists(i)) /\ receipts'[i] = receipts[i]
  BY <1>1, <1>5 DEF Exists
<1>7. \A i \in Keys : Exists(i) => receipts[i].by = Sender(i) /\ receipts[i].at <= now
  BY DEF CInv, ReceiptIsSenders
<1>8. \A i \in Keys : ReceiptIsSenders(i)'
  BY <1>1, <1>4, <1>6, <1>7 DEF ReceiptIsSenders
<1>9. IsFiniteSet(Receipts')
  <2>1. Receipts' \subseteq Receipts \cup {k}
    BY <1>6 DEF Receipts, Keys
  <2>2. IsFiniteSet(Receipts \cup {k})
    BY FS_AddElement DEF CInv
  <2> QED BY <2>1, <2>2, FS_Subset
<1>10. ASSUME NEW i \in Actions, k \in Actions, Exists(i), Input(i) = Input(k), Sender(i) = Sender(k)
       PROVE  receipts[i].at + Dedupe < now
  <2>1. i \in Keys /\ receipts[i].at \in Nat
    BY <1>1 DEF Keys
  <2>2. ~(receipts[i].at + Dedupe >= now)
    BY <1>3, <1>4, <1>7, <1>10, <2>1 DEF Similar
  <2> QED BY <1>1, <2>1, <2>2, OwnerChatAssumption
<1>11. DuplicatesAreApart'
  <2>1. ASSUME NEW i \in Actions, NEW j \in Actions, i # j, Exists(i)', Exists(j)',
               Input(i) = Input(j), Sender(i) = Sender(j), receipts'[i].at <= receipts'[j].at
        PROVE  receipts'[i].at + Dedupe < receipts'[j].at
    <3>1. i \in Keys /\ j \in Keys /\ Dedupe \in Nat
      BY OwnerChatAssumption DEF Keys
    <3>2. CASE i # k /\ j # k
      BY <1>6, <2>1, <3>1, <3>2 DEF CInv, DuplicatesAreApart
    <3>3. CASE j = k
      BY <1>6, <1>10, <2>1, <3>1, <3>3
    <3>4. CASE i = k
      <4>1. receipts[j].at + Dedupe < now /\ receipts[j].at >= now
        BY <1>6, <1>10, <2>1, <3>1, <3>4
      <4> QED BY <1>1, <3>1, <4>1
    <3> QED BY <3>2, <3>3, <3>4
  <2> QED BY <2>1 DEF DuplicatesAreApart
<1>12. WindowHolds'
  <2> DEFINE Before(i) == {j \in Keys : /\ Exists(j)
                                        /\ Sender(j) = Sender(i)
                                        /\ receipts[j].at <= receipts[i].at
                                        /\ receipts[j].at + Window >= receipts[i].at}
  <2>1. IsFiniteSet(Recent(c)) /\ Cardinality(Recent(c)) \in Nat
    <3>1. Recent(c) \subseteq Receipts
      BY DEF Recent, Receipts
    <3> QED BY <3>1, FS_Subset, FS_CardinalityType DEF CInv
  <2>2. Cardinality(Recent(c) \cup {k}) <= Limit /\ IsFiniteSet(Recent(c) \cup {k})
    <3>1. k \notin Recent(c)
      BY <1>4 DEF Recent
    <3>2. Cardinality(Recent(c) \cup {k}) = Cardinality(Recent(c)) + 1
      BY <2>1, <3>1, FS_AddElement
    <3> QED BY <1>4, <2>1, <3>2, FS_AddElement, ToolBrokerAssumption
  <2>3. ASSUME NEW i \in Keys, Exists(i)' PROVE Cardinality(Before(i)') <= Limit
    <3>1. CASE receipts'[i].at = now /\ Sender(i) = Sender(k)
      <4>1. Before(i)' \subseteq Recent(c) \cup {k}
        <5>1. ASSUME NEW j \in Keys, j # k, j \in Before(i)' PROVE j \in Recent(c)
          <6>1. /\ Exists(j) /\ Sender(j) = Sender(k)
                /\ receipts[j].at + Window >= now
            BY <1>6, <3>1, <5>1
          <6>2. receipts[j].by = calls[c].by
            BY <1>4, <1>7, <6>1
          <6> QED BY <6>1, <6>2 DEF Recent
        <5> QED BY <5>1 DEF Keys
      <4>2. Cardinality(Before(i)') <= Cardinality(Recent(c) \cup {k}) /\ IsFiniteSet(Before(i)')
        BY <2>2, <4>1, FS_Subset
      <4>3. Cardinality(Before(i)') \in Nat /\ Cardinality(Recent(c) \cup {k}) \in Nat
        BY <2>2, <4>2, FS_CardinalityType
      <4> QED BY <2>2, <4>2, <4>3, ToolBrokerAssumption
    <3>2. CASE ~(receipts'[i].at = now /\ Sender(i) = Sender(k))
      <4>1. i # k /\ Exists(i) /\ receipts'[i] = receipts[i]
        BY <1>6, <2>3, <3>2
      <4>2. receipts[i].at <= now /\ receipts[i].at \in Nat
        BY <1>1, <1>7, <4>1
      <4>3. k \notin Before(i)'
        BY <1>1, <1>6, <3>2, <4>1, <4>2
      <4>4. Before(i)' = Before(i)
        <5>1. ASSUME NEW j \in Keys PROVE j \in Before(i)' <=> j \in Before(i)
          BY <1>4, <1>6, <4>1, <4>3
        <5> QED BY <5>1 DEF Keys
      <4> QED BY <4>1, <4>4 DEF CInv, WindowHolds
    <3> QED BY <3>1, <3>2
  <2> QED BY <2>3 DEF WindowHolds, Keys
<1> QED BY <1>8, <1>9, <1>11, <1>12

\* The bindings keep their type.
LEMMA BindingsTyped ==
  ASSUME CInv, NEW b \in Admissions
  PROVE  Activated(b) \in [Admissions -> {"ABSENT", "ACTIVE", "REVOKED"}]
  BY DEF CInv, ChatTypeOK, Activated

LEMMA ChatStepHolds == ASSUME CInv, [ChatNext]_chatVars PROVE CInv'
<1>1. ASSUME NEW c \in Calls, ChatCall(c) PROVE CInv'
  <2>1. /\ BrokerInv' /\ \A d \in Calls : CallIsSenders(d)'
        /\ UNCHANGED now /\ (UNCHANGED bindings \/ Starts(c))
    BY <1>1, ChatCallHolds
  <2>2. now' \in Nat /\ now' >= now
    BY <2>1 DEF CInv, BrokerInv, BrokerTypeOK
  <2>3. /\ \A k \in Keys : ReceiptIsSenders(k)'
        /\ IsFiniteSet(Receipts') /\ DuplicatesAreApart' /\ WindowHolds'
    BY <1>1, <2>2, StartsHolds, ReceiptsStep, StayHolds
  <2>4. bindings' \in [Admissions -> {"ABSENT", "ACTIVE", "REVOKED"}]
    <3>1. CASE UNCHANGED bindings
      BY <3>1 DEF CInv, ChatTypeOK
    <3>2. CASE Starts(c)
      <4>1. calls[c].by \in Admissions
        BY <3>2 DEF Starts, Start, Reserving, At, CInv, BrokerInv, BrokerTypeOK, Call, Idle
      <4> QED BY <3>2, <4>1, BindingsTyped DEF Starts, Seen, CInv, ChatTypeOK
    <3> QED BY <2>1, <3>1, <3>2
  <2> QED BY <2>1, <2>3, <2>4 DEF CInv, ChatTypeOK, BrokerInv, Keys
<1>2. ASSUME UNCHANGED <<receipts, calls>>, BrokerInv', now' \in Nat, now' >= now,
             bindings' \in [Admissions -> {"ABSENT", "ACTIVE", "REVOKED"}]
      PROVE  CInv'
  <2>1. ReceiptsStay
    BY <1>2 DEF ReceiptsStay, Exists
  <2>2. \A c \in Calls : CallIsSenders(c)'
    BY <1>2 DEF CInv, CallIsSenders, Live
  <2> QED BY <1>2, <2>1, <2>2, StayHolds DEF CInv, ChatTypeOK, BrokerInv, Keys
<1>3. now \in Nat /\ bindings \in [Admissions -> {"ABSENT", "ACTIVE", "REVOKED"}]
  BY DEF CInv, BrokerInv, BrokerTypeOK, ChatTypeOK
<1>4. ASSUME UNCHANGED brokerVars PROVE BrokerInv'
  BY <1>4 DEF CInv, BrokerInv, BrokerTypeOK, ReceiptOK, CallOK, OneRunner, SpendingOK, Spends,
     Live, Running, Exists, brokerVars, Keys
<1>5. ASSUME NEW b \in Admissions, Pair(b) PROVE CInv'
  BY <1>2, <1>3, <1>4, <1>5, BindingsTyped DEF Pair, brokerVars
<1>6. ASSUME NEW s \in Searches, PurgeSelection(s), UNCHANGED bindings PROVE CInv'
  <2>1. BrokerInv'
    BY <1>6, PurgeHolds DEF CInv
  <2> QED BY <1>2, <1>3, <1>6, <2>1 DEF PurgeSelection
<1>7. CASE Tick /\ UNCHANGED bindings
  <2>1. BrokerInv'
    BY <1>7, PurgeHolds DEF CInv
  <2> QED BY <1>2, <1>3, <1>7, <2>1 DEF Tick
<1>8. CASE UNCHANGED chatVars
  BY <1>2, <1>3, <1>4, <1>8 DEF chatVars, brokerVars
<1> QED BY <1>1, <1>5, <1>6, <1>7, <1>8 DEF ChatNext

\* The inductive invariant: every receipt is its sender's, has no like within the
\* window of duplicates, and fits into the rolling window of its peer session.
THEOREM ChatInvariant == ChatSpec => []CInv
  BY ChatInitHolds, ChatStepHolds, PTL DEF ChatSpec

\* Broker and bindings keep their types.
THEOREM ChatTypeCorrect == ChatSpec => []ChatTypeOK
<1>1. CInv => ChatTypeOK
  BY DEF CInv
<1> QED BY <1>1, ChatInvariant, PTL

\* The same action is not run again within the window of duplicates.
THEOREM ApartInTime == ChatSpec => []DuplicatesAreApart
<1>1. CInv => DuplicatesAreApart
  BY DEF CInv
<1> QED BY <1>1, ChatInvariant, PTL

\* No rolling window of a peer session holds more receipts than the limit.
THEOREM WindowLimited == ChatSpec => []WindowHolds
<1>1. CInv => WindowHolds
  BY DEF CInv
<1> QED BY <1>1, ChatInvariant, PTL

\* The broker's promises hold for this channel too: a tool runs once, a selection
\* is spent once, and receipts agree with their runs.
THEOREM ChatKeepsPromises ==
  ChatSpec => [](AtMostOneInvocation /\ SelectionIsSpentOnce /\ ReceiptsAndRunsAgree)
<1>1. CInv => AtMostOneInvocation /\ SelectionIsSpentOnce /\ ReceiptsAndRunsAgree
  BY BrokerPromises DEF CInv
<1> QED BY <1>1, ChatInvariant, PTL

\* A phone that was replaced after its call was resolved starts nothing.
THEOREM ReplacedIsSilent == ChatSpec => ReplacedStartsNothing
<1>1. ASSUME CInv, [ChatNext]_chatVars, NEW k \in Keys, ~Exists(k), Exists(k)'
      PROVE  bindings'[receipts'[k].by] = "ACTIVE"
  <2>1. PICK c \in Calls : ChatCall(c)
    <3>1. receipts' # receipts
      BY <1>1 DEF Exists
    <3> QED BY <1>1, <3>1 DEF ChatNext, Pair, PurgeSelection, Tick, chatVars, brokerVars
  <2>2. Starts(c)
    BY <1>1, <2>1, ReceiptsStep DEF ReceiptsStay
  <2>3. calls[c].by \in Admissions /\ calls[c].key \in Keys /\ receipts \in [Keys -> Receipt]
    BY <1>1, <2>2 DEF Starts, Start, Reserving, At, CInv, BrokerInv, BrokerTypeOK, Call, Idle
  <2>4. receipts'[k].by = calls[c].by
    BY <1>1, <2>2, <2>3 DEF Starts, Start, Exists
  <2>5. bindings'[calls[c].by] = "ACTIVE"
    <3>1. bindings' = Seen(calls[c].by) /\ Accepted(calls[c].by)
      BY <2>2 DEF Starts
    <3> QED BY <2>3, <3>1 DEF Seen, Accepted, Activated
  <2> QED BY <2>4, <2>5
<1>2. CInv /\ [ChatNext]_chatVars =>
        [\A k \in Keys : ~Exists(k) /\ Exists(k)' => bindings'[receipts'[k].by] = "ACTIVE"]_chatVars
  BY <1>1
<1> QED BY <1>2, ChatInvariant, PTL DEF ChatSpec, ReplacedStartsNothing
=============================================================================
