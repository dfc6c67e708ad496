SPECIFICATION FairSpec
CONSTANTS
  Replies <- SomeReplies
  MaxRequests = 3
INVARIANTS
  OwnReply
PROPERTIES
  RepliesInOrder
  RequestEnds
