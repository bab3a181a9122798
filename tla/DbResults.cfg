\* Four statements with up to three replies each, with either driver.
SPECIFICATION FairSpec
CONSTANTS
  Quota = 4
  MaxReplies = 3
CHECK_DEADLOCK FALSE
INVARIANTS
  TypeOK
  LibraryIsUsedRight
  NothingLeftBehind
  OutputIsOfThisQuery
  StatusMatchesResult
PROPERTIES
  ThreadLeaves
