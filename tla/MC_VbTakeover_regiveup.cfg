\* Three membership changes on one vbucket and one worker per node: node 3
\* runs alone, node 2 joins (vbucket 0 moves to it), node 2 is failed over
\* (vbucket 0 comes back to node 3) and node 1 joins (vbucket 0 moves to
\* node 1), so node 3 gives vbucket 0 up a second time.
CONSTANTS
    Nodes <- MC_ThreeNodes
    InitMembers <- MC_NodeThree
    NumWorkers = 1
    NumVbuckets = 1
    Routines = 1
    MaxSeq = 0
    MaxMembershipChanges = 3
    TransientFailures = FALSE
    TransferFailures = FALSE
    None = None
SPECIFICATION Spec
PROPERTY GiveUpPollsAfterRelease
\* After the rebalance the system waits for the next membership change.
CHECK_DEADLOCK FALSE
