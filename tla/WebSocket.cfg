SPECIFICATION FairSpec
CONSTANTS
  MaxTexts = 2
INVARIANTS
  WorkersKeepSocket
  ClosedOnce
PROPERTIES
  LostDestroyed
  CloseAnswered
\* A destroyed websocket does nothing.
CHECK_DEADLOCK FALSE
