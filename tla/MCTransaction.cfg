SPECIFICATION FairSpec
CONSTANT MaxStmt = 3
INVARIANTS TypeOK PendingCoversWork StrayCommits
PROPERTIES NoSilentLoss CallReturns AutoCommit FatalEnds
CHECK_DEADLOCK FALSE
