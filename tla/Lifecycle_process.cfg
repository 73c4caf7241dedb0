SPECIFICATION FairSpec
INVARIANTS SavedIfAccepted NothingLeftBehind SuccessMeansInterrupted LastErrorReported
PROPERTIES ProcessEnds SaveNotStuck
CHECK_DEADLOCK FALSE
