------------------------------ MODULE MCOutbox ------------------------------
(* An instance of Outbox for TLC. *)
EXTENDS Outbox, TLC

CONSTANTS a, b  \* payloads for two contacts, each from an account of its own

Payloads == {a, b}

MailTo(contact) == [channel |-> "EMAIL", contact |-> contact, domain |-> "buyers"]

Targets == a :> MailTo("1") @@ b :> MailTo("2")

AccountLimits(hourly) ==
  [hourly |-> hourly, daily |-> 2, contactDaily |-> 1, domainDaily |-> 2]

\* Account b may send one message an hour, account a two.
TightLimits == a :> AccountLimits(2) @@ b :> AccountLimits(1)

\* Bound: one row at most is attempted again or reconciled by hand.
OneTroubled ==
  Cardinality({k \in Keys : rows[k].attemptCount > 1 \/ rows[k].reconciled}) <= 1

FullSymmetry == Permutations(Workers) \cup Permutations(Keys)
=============================================================================
