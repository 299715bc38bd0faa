SPECIFICATION Spec
CONSTANTS
  Greetings <- GreetingSet
  Requests <- RequestSet
  Usernames <- UsernameSet
  Counts = {1, 2, 8, 9}
  Limits = {0, 4, 255}
  EarlyData <- Data
INVARIANTS
  DialsWhatWasAsked
  RequestFramed
  RefusedForCause
  AnswerAgrees
CHECK_DEADLOCK FALSE
