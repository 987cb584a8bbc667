---------------------------- MODULE MCEmailSend ----------------------------
(* Instances of EmailSend for TLC. *)
EXTENDS EmailSend, TLC

\* One message, whose limits never refuse it.
OneTarget == [d \in Digests |-> [channel |-> "EMAIL", contact |-> "1", domain |-> None]]

NoLimits == [d \in Digests |-> [q \in LimitNames |-> None]]

\* Bound: of the jobs alive, one has met with one fault, or else the row was
\* reconciled by hand; and none has been given up with its message waiting.
OneFault ==
  /\ givenUp = {}
  /\ Cardinality({i \in Jobs : queue[i] # NoJob /\ queue[i].stalled}) +
     Cardinality({i \in Jobs : queue[i] # NoJob /\ queue[i].tries < Tries}) +
     Cardinality({k \in Keys : rows[k].reconciled}) <= 1

Symmetry == Permutations(Workers) \cup Permutations(Jobs)
=============================================================================
