\* Rebalance-in: can the joining node open a vbucket's stream while the
\* old owner's closed stream has not yet ended?
CONSTANTS
    Nodes <- MC_Nodes
    InitMembers <- MC_OneMember
    NumWorkers = 2
    NumVbuckets = 3
    Routines = 1
    MaxSeq = 0
    MaxMembershipChanges = 1
    TransientFailures = FALSE
    TransferFailures = FALSE
    None = None
SPECIFICATION Spec
INVARIANT AtMostOneLiveStream
CHECK_DEADLOCK FALSE
