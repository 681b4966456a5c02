\* Two eventing nodes own the vbuckets; one of them may crash and be
\* failed over.  DCP stream requests may fail (and are retried) and
\* mutations arrive, so every retry and checkpoint path is taken.  The
\* survivor takes the dead node's vbucket over from its running blob and
\* moves one of its own between its workers.  Two vbuckets keep the
\* liveness check of the whole graph within a few seconds per mutant.
CONSTANTS
    Nodes <- MC_Nodes
    InitMembers <- MC_BothMembers
    NumWorkers = 2
    NumVbuckets = 2
    Routines = 1
    MaxSeq = 1
    MaxMembershipChanges = 1
    TransientFailures = TRUE
    TransferFailures = FALSE
    None = None

SPECIFICATION FairSpec

INVARIANT TypeOK
INVARIANT StreamOwnerRecorded
PROPERTY GiveUpPollsAfterRelease
PROPERTY OwnershipRefinement
PROPERTY RebalanceConverges

\* After a failover the surviving node may have nothing left to do.
CHECK_DEADLOCK FALSE
