\* Rebalance-in with mutations: can the give-up checkpoint write a lower
\* last processed sequence number than the checkpointer wrote?
CONSTANTS
    Nodes <- MC_Nodes
    InitMembers <- MC_OneMember
    NumWorkers = 2
    NumVbuckets = 3
    Routines = 1
    MaxSeq = 1
    MaxMembershipChanges = 1
    TransientFailures = FALSE
    TransferFailures = FALSE
    None = None
SPECIFICATION Spec
PROPERTY LastSeqMonotonic
CHECK_DEADLOCK FALSE
