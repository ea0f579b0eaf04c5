SPECIFICATION FairSpec
CONSTANTS
  Source = {deadline, answer, cancelled, again}
  Deadline = deadline
  Nobody = Nobody
INVARIANTS TypeOK CompletionRunsOnce
PROPERTIES Implements HandlerRuns
