\* Two membership changes: node 2 joins a cluster of node 1 and is then
\* failed over, possibly while a rebalance pass is still running.
CONSTANTS
    Nodes <- MC_Nodes
    InitMembers <- MC_OneMember
    NumWorkers = 2
    NumVbuckets = 2
    Routines = 1
    MaxSeq = 0
    MaxMembershipChanges = 2
    TransientFailures = FALSE
    TransferFailures = FALSE
    None = None
SPECIFICATION FairSpec
PROPERTY RebalanceConverges
CHECK_DEADLOCK FALSE
