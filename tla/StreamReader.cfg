CONSTANTS
  Streams <- Bodies
  Readers = {"lines", "responses", "session"}
  EmptyMessagesLimit = 2
  MaxCalls = 5
SPECIFICATION Spec
INVARIANTS ChunksInOrder FollowsFrames FirstErrorIsReported EndIsFinal
CHECK_DEADLOCK FALSE
