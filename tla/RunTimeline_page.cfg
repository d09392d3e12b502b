SPECIFICATION FairSpec
CONSTANTS
  Runs = {ra, rb}
  NoRun = none
  MaxLog = 2
  MaxFetch = 3
  MaxNav = 1
INVARIANTS
  TypeOK
  LoadingAttended
  TrackedIsRouted
  ReadyHasBeenRead
PROPERTIES
  NewestAnswerShown
  CacheKeepsContent
  LoadingSettles
CHECK_DEADLOCK FALSE
