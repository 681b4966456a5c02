\* Two membership changes in a row (node 2 joins, node 1 is failed over):
\* does every change of the recorded owner stay within the ownership protocol
\* when the plan changes under a running pass?
CONSTANTS
    Nodes <- MC_Nodes
    InitMembers <- MC_OneMember
    NumWorkers = 2
    NumVbuckets = 3
    Routines = 1
    MaxSeq = 0
    MaxMembershipChanges = 2
    TransientFailures = FALSE
    TransferFailures = FALSE
    None = None
SPECIFICATION Spec
PROPERTY OwnershipRefinement
CHECK_DEADLOCK FALSE
