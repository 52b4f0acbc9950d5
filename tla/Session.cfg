CONSTANTS
  None = None
  w1 = w1
  s1 = s1
  Attempts <- Sessions
  Medium <- MCMedium
  MaxFrames = 2
SPECIFICATION FairSpec
INVARIANTS
  TypeOK
  Released
PROPERTIES
  LinkKept
  OnlyOwnSessionSpeaks
  ResetEndsWithSession
  LossHeard
CHECK_DEADLOCK FALSE
