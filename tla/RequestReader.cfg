SPECIFICATION HttpSpec
CONSTANTS
  Count = 4
  end <- Four
  InFile <- Multipart
  Windows = {1, 2}
INVARIANTS
  AnsweredWhole
  NothingTwice
PROPERTIES
  Answered
\* A closed connection stays closed.
CHECK_DEADLOCK FALSE
