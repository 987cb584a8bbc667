\* Two callbacks, two searches and two equal actions, two receipts in a window.
SPECIFICATION ChatSpec
CONSTANTS
  Calls = {c1, c2}
  Searches = {s1, s2}
  Actions = {a1, a2}
  p1 = p1
  p2 = p2
  Admissions = {p1, p2}
  None = None
  Limit = 2
  Stale = 3
  SelectionTtl = 2
  MaxNow = 3
  Sender <- TheSender
  Input <- TheInput
  Configured = p1
  Window = 1
  Dedupe = 1
SYMMETRY Symmetry
INVARIANTS DuplicatesAreApart WindowHolds
PROPERTIES ReplacedStartsNothing
CHECK_DEADLOCK FALSE
