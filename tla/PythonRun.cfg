SPECIFICATION FairSpec
CONSTANTS
  Runs = {r1, r2}
  Threads = {t1, t2}
  MaxRuns = 1
  None = None
INVARIANTS SlotsMatchRuns NothingOutlivesRun AnswersMatch SuccessIsComplete
PROPERTIES EndedScriptEndsRun AbortEndsRun
