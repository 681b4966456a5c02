\* The socket reader routes compileInfo and queueSize JSON messages,
\* which routeResponse decodes without statsRWMutex, while two admin
\* handlers read those fields under the shared lock.
CONSTANTS
    Readers <- MC_Readers
    ReadFields <- MC_UnlockedRead
    NumWords = 2
    Vals = {1, 2}
    InMsgTypes <- MC_MsgTypes
    InOpcodes <- MC_UnlockedOps
    MaxResponses = 3
    Invalid = Invalid
SPECIFICATION Spec
INVARIANT StatsSnapshotsConsistent
