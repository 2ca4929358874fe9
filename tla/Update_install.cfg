SPECIFICATION Spec
CONSTANTS
  Releases <- MCReleases
  Unusable = {3}
  MaxQuestions = 2
  MaxFaults = 3
INVARIANT ExecutableIsWhole
PROPERTIES ExecutableMovesForward NewReleaseIsOffered AcceptedUpdateArrives
CHECK_DEADLOCK FALSE
