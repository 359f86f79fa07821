SPECIFICATION FairSpec
CHECK_DEADLOCK FALSE
CONSTANTS
  None = None
  Rack = {r1}
  Asker = {a1, a2}
  MaxConns = 3
  MaxQuestions = 2
  MaxFaults = 1
INVARIANTS TypeOK GuardedWhileProbed ToldAtOnce SurvivesOldCleanUp
PROPERTIES Implements Recovers
