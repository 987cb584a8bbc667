---------------------------- MODULE LeaseContract ----------------------------
(***************************************************************************)
(* What a lease promises the work it is on, without tokens, clocks, queues *)
(* or rows: the work is held by one agent at a time, who got it while it   *)
(* was not over; it is done only by the agent that holds it, who is at it  *)
(* when it is; an agent that was overtaken leaves and changes nothing; and *)
(* work that is over stays over.  Anyone may take a lease back or drop the *)
(* work.                                                                   *)
(***************************************************************************)
CONSTANTS Items, Agents, Nothing

VARIABLES
  phase,    \* where the work on each item is
  at,       \* the item each agent works on, with or without its lease
  holders   \* the agents that work on an item under its lease of now

leaseVars == <<phase, at, holders>>

Init ==
  /\ phase = [i \in Items |-> "open"]
  /\ at = [a \in Agents |-> Nothing]
  /\ holders = [i \in Items |-> {}]

Becomes(i, p, H) ==
  /\ phase' = [phase EXCEPT ![i] = p]
  /\ holders' = [holders EXCEPT ![i] = H]

\* Also in place of a holder that is still at it, who loses the lease.
Grant(a, i) ==
  /\ at[a] = Nothing
  /\ phase[i] \in {"open", "held"}
  /\ Becomes(i, "held", {a})
  /\ at' = [at EXCEPT ![a] = i]

Finish(a, i) ==
  /\ at[a] = i
  /\ a \in holders[i]
  /\ Becomes(i, "done", {})
  /\ at' = [at EXCEPT ![a] = Nothing]

\* The holder fails; it may have something left to clean up.
GiveBack(a, i) ==
  /\ at[a] = i
  /\ a \in holders[i]
  /\ Becomes(i, "open", {})
  /\ at' = at \/ at' = [at EXCEPT ![a] = Nothing]

\* An agent dies, or finds that its lease is gone.
Leave(a, i) ==
  /\ at[a] = i
  /\ at' = [at EXCEPT ![a] = Nothing]
  /\ holders' = [holders EXCEPT ![i] = holders[i] \ {a}]
  /\ UNCHANGED phase

Revoke(i) ==
  /\ phase[i] = "held"
  /\ Becomes(i, "open", {})
  /\ UNCHANGED at

Drop(i) ==
  /\ phase[i] \in {"open", "held"}
  /\ Becomes(i, "dropped", {})
  /\ UNCHANGED at

Next ==
  \E i \in Items :
    \/ Revoke(i) \/ Drop(i)
    \/ \E a \in Agents : Grant(a, i) \/ Finish(a, i) \/ GiveBack(a, i) \/ Leave(a, i)

Spec == Init /\ [][Next]_leaseVars
=============================================================================
