SPECIFICATION Spec
CHECK_DEADLOCK FALSE
CONSTANTS
    Resource = {r1}
    RequestTypes = {"SHARED", "EXCLUSIVE"}
    MaxTxn = 3
INVARIANTS TypeOK LockExclusion WaitTargetsHold LocksHaveOwners SnapshotCoversCommitted
