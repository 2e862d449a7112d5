SPECIFICATION OutboxSpec
CONSTANTS
  Wrap = 6
  MaxBytes = 2
  Sizes = {1, 3}
  MaxSilent = 1
  MaxRequests = 7
INVARIANT ReplyFindsItsRequest
PROPERTIES AnswersArrive BothThreadsEnd
CHECK_DEADLOCK FALSE
