CONSTANTS
  None = None
  d1 = d1
  d2 = d2
  n1 = n1
  n2 = n2
  Nodes <- Both
  Addresses <- Either
  MaxJoins = 2
SPECIFICATION FairSpec
INVARIANTS
  TypeOK
  AddressCurrent
PROPERTIES
  InterviewUndisturbed
  LeaverIsRight
  JoinedIsKnown
CHECK_DEADLOCK FALSE
