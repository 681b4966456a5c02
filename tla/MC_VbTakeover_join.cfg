\* Rebalance-in: node 2 joins a cluster of node 1.
CONSTANTS
    Nodes <- MC_Nodes
    InitMembers <- MC_OneMember
    NumWorkers = 2
    NumVbuckets = 3
    Routines = 1
    MaxSeq = 0
    MaxMembershipChanges = 1
    TransientFailures = FALSE
    TransferFailures = FALSE
    None = None

SPECIFICATION FairSpec

INVARIANT StreamOwnerRecorded
PROPERTY GiveUpPollsAfterRelease
PROPERTY OwnershipRefinement
PROPERTY RebalanceConverges

\* After the rebalance the system waits for the next membership change.
CHECK_DEADLOCK FALSE
