SPECIFICATION Spec
CONSTANTS
  Listings <- MCListings
  Constraints <- MCConstraints
  Retries = {0, 3}
  Files = {"a", "b", "c"}
  Archives <- MCArchives
  MaxFile = 2
  MaxTotal = 4
INVARIANTS
  BestIsHighestInRange
  AnswerIsExplained
  FetchedIsTheArchive
