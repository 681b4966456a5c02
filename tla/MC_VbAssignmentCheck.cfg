\* Up to three eventing nodes in every order, up to eight vbuckets, and a
\* worker_count setting that is absent (default 3), wrongly typed, zero
\* or one to three: every quotient/remainder combination of the
\* small cases, including fewer vbuckets than nodes or workers.
CONSTANTS
    NodeAddrs = {1, 2, 3}
    MaxVbuckets = 8
    WorkerCountValues = {0, 1, 2, 3}
    Absent = Absent
    WrongType = WrongType
SPECIFICATION Spec
INVARIANT NodeAssignMatchesReference
INVARIANT WorkerMapPartitionsNode
