SPECIFICATION FairSpec
CHECK_DEADLOCK FALSE
CONSTANTS
    Participant = {p1, p2}
    Client = {c1}
INVARIANTS TypeOK UnanimousCommit SingleDecision CommitFindsPrepared
PROPERTIES CommitsEnd
