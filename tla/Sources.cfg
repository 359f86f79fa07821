\* One source and one screen: moved, removed and added again while
\* their threads run, and the rack stopped.
SPECIFICATION FairSpec
CHECK_DEADLOCK FALSE
CONSTANTS
  None = None
  Name = {n1}
  Screen = {s1}
  StaleAfter = 2
  MaxSources = 3
  MaxEdits = 2
  MaxVersion = 2
  MaxRefusals = 1
INVARIANTS TypeOK NothingUnseen
PROPERTIES StaysForgotten Settles RetiredLeave
