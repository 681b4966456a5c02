------------------------------ MODULE MC_IpcStats ------------------------------
(* Model-checking instances of IpcStats: two admin readers, two-word      *)
(* fields and two message values.                                         *)
EXTENDS IpcStats

MC_Readers     == {"r1", "r2"}
MC_MsgTypes    == {0, 1}
\* sourceMap (assigned), appLogMessage (ignored), latencyStats and
\* failureStats (decoded under the lock)
MC_LockedOps   == {1, 3, 5, 6}
MC_LockedRead  == {"latencyStats", "failureStats"}
\* compileInfo and queueSize (decoded without the lock)
MC_UnlockedOps  == {8, 9}
MC_UnlockedRead == {"compileInfo", "cppWorkerAggQueueSize"}

=============================================================================
