SPECIFICATION Spec
CONSTANTS
  Callers = {c1, c2, c3}
  Requests <- MCRequests
  Attempts = 2
SYMMETRY MCSymmetry
INVARIANTS
  AcceptedIsKept
PROPERTIES
  MailboxAdvances
CHECK_DEADLOCK FALSE
