\* The socket reader routes sourceMap strings, latency and failure stats
\* (valid or invalid JSON), app log messages and frames of an unknown
\* msgType while two admin handlers read the stats under the shared lock.
CONSTANTS
    Readers <- MC_Readers
    ReadFields <- MC_LockedRead
    NumWords = 2
    Vals = {1, 2}
    InMsgTypes <- MC_MsgTypes
    InOpcodes <- MC_LockedOps
    MaxResponses = 3
    Invalid = Invalid
SPECIFICATION FairSpec
INVARIANT StatsSnapshotsConsistent
PROPERTY ResponsesRouted
