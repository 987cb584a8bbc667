--------------------------- MODULE ActionContract ---------------------------
(***************************************************************************)
(* What the outbox promises its callers, without leases, tokens, clocks or *)
(* workers: an external action is delivered at most once; "sent" is said   *)
(* only of a delivered action and "unsent" only of one that is not and     *)
(* never will be; when the truth is lost the action is "unsure" and only   *)
(* an operator settles it.                                                 *)
(***************************************************************************)
CONSTANTS Keys, Attempts

VARIABLES
  outcome,    \* what the callers are told
  delivered   \* the attempts that reached the recipient

contractVars == <<outcome, delivered>>

Init ==
  /\ outcome = [k \in Keys |-> "none"]
  /\ delivered = [k \in Keys |-> {}]

Become(k, o) ==
  /\ outcome' = [outcome EXCEPT ![k] = o]
  /\ UNCHANGED delivered

Register(k) == outcome[k] = "none" /\ Become(k, "open")

Deliver(k) ==
  /\ outcome[k] \in {"open", "unsure", "settled"}
  /\ delivered[k] = {}
  /\ \E a \in Attempts : delivered' = [delivered EXCEPT ![k] = {a}]
  /\ UNCHANGED outcome

ReportSent(k) == outcome[k] = "open" /\ delivered[k] # {} /\ Become(k, "sent")

ReportUnsent(k) == outcome[k] = "open" /\ delivered[k] = {} /\ Become(k, "unsent")

LoseTrack(k) == outcome[k] = "open" /\ Become(k, "unsure")

Settle(k) == outcome[k] = "unsure" /\ Become(k, "settled")

\* One sweep of an administrator may lose track of several actions at once.
LoseTrackOf(K) ==
  /\ \A k \in K : outcome[k] = "open"
  /\ outcome' = [k \in Keys |-> IF k \in K THEN "unsure" ELSE outcome[k]]
  /\ UNCHANGED delivered

\* Steps that the callers do not see: claims, retries, the clock.
Unseen == UNCHANGED contractVars

Next ==
  \/ Unseen
  \/ \E k \in Keys : \/ Register(k) \/ Deliver(k)
                     \/ ReportSent(k) \/ ReportUnsent(k) \/ LoseTrack(k) \/ Settle(k)
  \/ \E K \in SUBSET Keys : LoseTrackOf(K)

Spec == Init /\ [][Next]_contractVars
=============================================================================
