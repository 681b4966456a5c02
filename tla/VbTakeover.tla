----------------------------- MODULE VbTakeover -----------------------------
(***************************************************************************)
(* The vbucket ownership rebalance of the eventing Consumers              *)
(* (consumer/vbucket_takeover.go): every worker (Consumer) of every       *)
(* eventing node runs vbsStateUpdate when its Producer's plan changes; a  *)
(* give-up routine closes the DCP streams of vbuckets the worker no       *)
(* longer should own and writes a "stopped" checkpoint, and take-over     *)
(* routines read each wanted vbucket's checkpoint blob from the metadata  *)
(* bucket and request its DCP stream.  The blob is the only state the     *)
(* nodes share.                                                           *)
(*                                                                         *)
(* A consumer is <<node, worker ordinal>>.  The eventing node address and *)
(* node UUID are both the node; the worker name worker_<app>_<i> is the   *)
(* ordinal i (the same names exist on every node).                        *)
(***************************************************************************)
EXTENDS Naturals, Sequences, FiniteSets, Functions, VbAssignment

CONSTANTS
    Nodes,                 \* eventing node addresses, integers in sorted order
    NumWorkers,            \* worker_count
    NumVbuckets,           \* NumVbuckets
    Routines,              \* vb_ownership_{giveup,takeover}_routine_count
    InitMembers,           \* eventing nodes of the cluster at start
    MaxSeq,                \* bound on each vbucket's KV sequence number
    MaxMembershipChanges,  \* bound on node additions and failovers
    TransientFailures,     \* whether a DCP stream request may fail
    TransferFailures,      \* whether a timer directory transfer may fail
    None                   \* an empty owner field ("")

ASSUME /\ InitMembers \subseteq Nodes /\ InitMembers # {}
       /\ NumWorkers >= 1 /\ NumVbuckets >= 1 /\ Routines >= 1

Workers   == 0..NumWorkers-1
VBs       == 0..NumVbuckets-1
Consumers == Nodes \X Workers
Shards    == 1..Routines

dcpStreamRunning       == "running"
dcpStreamStopped       == "stopped"
dcpStreamUninitialised == "uninitialised"
StreamStatus == {dcpStreamRunning, dcpStreamStopped, dcpStreamUninitialised}

\* A checkpoint blob (vbucketKVBlob) and a vbProcessingStats row share the
\* fields the protocol reads: stream status, owner node UUID, assigned
\* worker and last processed sequence number.  The blob also names the
\* consumer that last gave the vbucket up (PreviousNodeUUID and
\* PreviousAssignedWorker), from which a new owner fetches the timers; the
\* stats rows never set these.
VbRecord == [status : StreamStatus, node : Nodes \cup {None},
             worker : Workers \cup {None}, seq : 0..MaxSeq,
             prevNode : Nodes \cup {None}, prevWorker : Workers \cup {None}]
NoRecord == [status |-> dcpStreamStopped, node |-> None, worker |-> None, seq |-> 0,
             prevNode |-> None, prevWorker |-> None]

OwnedBy(r, c) == r.node = c[1] /\ r.worker = c[2]

VARIABLES
    members,             \* eventing nodes per the cluster manager
    dead,                \* nodes that crashed (were failed over)
    changes,             \* membership changes so far
    eventingNodeAddrs,   \* per node: the members its Producer planned with
    vbEventingNodeAssignMap, \* per node: its Producer's vbucket -> node plan
    workerVbucketMap,    \* per node: vbucket -> its worker handling it, or None
    vbBlob,              \* metadata bucket: vbucket -> checkpoint blob
    kvSeq,               \* KV: vbucket -> high sequence number
    dcpStream,           \* consumer -> vbucket -> none|requested|open|closing
    vbProcessingStats,   \* consumer -> vbucket -> in-memory mirror of the blob
    vbStreamRequested,   \* consumer -> vbuckets with a stream request made
    vbsStreamClosed,     \* consumer -> vbuckets whose stream it closed
    isRebalanceOngoing,  \* consumer -> flag
    pc,                  \* consumer -> idle | takeover | giveupWait
    vbsts,               \* consumer -> stats snapshot taken by vbsStateUpdate
    giveQ, gpc, gBlob,   \* give-up routine i: vbuckets left, step, vbBlob local
    takeQ, tpc, tBlob,   \* take-over routine i: vbuckets left, step, vbBlob local
    timerTransferred     \* consumer -> vbuckets whose stream request was followed
                         \* by a completed timer directory transfer

clusterVars  == <<members, dead, changes, eventingNodeAddrs, vbEventingNodeAssignMap,
                  workerVbucketMap>>
storeVars    == <<vbBlob, kvSeq>>
consumerVars == <<dcpStream, vbProcessingStats, vbStreamRequested, vbsStreamClosed,
                  isRebalanceOngoing, pc, vbsts, giveQ, gpc, gBlob, takeQ, tpc, tBlob,
                  timerTransferred>>
vars == <<clusterVars, storeVars, consumerVars>>

StreamState == {"none", "requested", "open", "closing"}

-----------------------------------------------------------------------------
(* The Producer's plan, as each node last computed it.                      *)

VbEventingNodeAssignMapOf(ms) ==
    VbEventingNodeAssignMap(AscendingSeq(ms), NumVbuckets)

\* The Producer field workerVbucketMap of node n after planning over
\* members ms (vbucket -> worker ordinal of n).
WorkerMapFor(ms, n) ==
    LET wmap == WorkerVbMap(VbEventingNodeAssignMapOf(ms), n, NumWorkers)
    IN  [vb \in VBs |-> IF \E w \in Workers : vb \in Range(wmap[w])
                       THEN CHOOSE w \in Workers : vb \in Range(wmap[w]) ELSE None]
NoPlan == [vb \in VBs |-> None]

checkIfCurrentNodeShouldOwnVb(c, vb) == vbEventingNodeAssignMap[c[1]][vb] = c[1]

checkIfCurrentConsumerShouldOwnVb(c, vb) == workerVbucketMap[c[1]][vb] = c[2]

\* checkIfConsumerShouldOwnVb: vb is in the plan's list for worker w of
\* c's node.
checkIfConsumerShouldOwnVb(c, vb, w) == workerVbucketMap[c[1]][vb] = w

\* getVbsOwned: the vbuckets the plan of c's Producer gives to c, sorted.
getVbsOwned(c) ==
    AscendingSeq({vb \in VBs : /\ vbEventingNodeAssignMap[c[1]][vb] = c[1]
                               /\ checkIfCurrentNodeShouldOwnVb(c, vb)
                               /\ checkIfConsumerShouldOwnVb(c, vb, c[2])})

\* getVbRemainingToOwn / getVbRemainingToGiveUp, sorted.
getVbRemainingToOwn(c) ==
    AscendingSeq({vb \in VBs : ~OwnedBy(vbProcessingStats[c][vb], c)
                                /\ checkIfCurrentConsumerShouldOwnVb(c, vb)})

getVbRemainingToGiveUp(c) ==
    AscendingSeq({vb \in VBs : vbProcessingStats[c][vb].worker = c[2]
                                /\ ~checkIfCurrentConsumerShouldOwnVb(c, vb)})

\* util.VbucketDistribution: round-robin split over the routines.
VbucketDistribution(s) ==
    [i \in Shards |-> [j \in 1..Cardinality({k \in 1..Len(s) : (k-1) % Routines = i-1})
                        |-> s[(j-1) * Routines + i]]]

NoShards == [i \in Shards |-> <<>>]

\* IsEventingNodeAlive, as answered by the cluster manager.
IsEventingNodeAlive(n) == n \in members

Alive(c) == c[1] \notin dead

-----------------------------------------------------------------------------
InitOwner(vb) ==
    LET n == VbEventingNodeAssignMapOf(InitMembers)[vb]
    IN  <<n, WorkerMapFor(InitMembers, n)[vb]>>

Init ==
    /\ members = InitMembers
    /\ dead = {}
    /\ changes = 0
    /\ eventingNodeAddrs = [n \in Nodes |-> IF n \in InitMembers THEN InitMembers ELSE {}]
    /\ vbEventingNodeAssignMap = [n \in Nodes |->
                                    IF n \in InitMembers THEN VbEventingNodeAssignMapOf(InitMembers)
                                                         ELSE NoPlan]
    /\ workerVbucketMap = [n \in Nodes |->
                             IF n \in InitMembers THEN WorkerMapFor(InitMembers, n)
                                                  ELSE NoPlan]
    /\ vbBlob = [vb \in VBs |-> [NoRecord EXCEPT !.status = dcpStreamRunning,
                                 !.node = InitOwner(vb)[1], !.worker = InitOwner(vb)[2]]]
    /\ kvSeq = [vb \in VBs |-> 0]
    /\ dcpStream = [c \in Consumers |-> [vb \in VBs |->
                        IF InitOwner(vb) = c THEN "open" ELSE "none"]]
    /\ vbProcessingStats = [c \in Consumers |-> [vb \in VBs |->
                        IF InitOwner(vb) = c THEN vbBlob[vb] ELSE NoRecord]]
    /\ vbStreamRequested = [c \in Consumers |-> {vb \in VBs : InitOwner(vb) = c}]
    /\ vbsStreamClosed = [c \in Consumers |-> {}]
    /\ isRebalanceOngoing = [c \in Consumers |-> FALSE]
    /\ pc = [c \in Consumers |-> "idle"]
    /\ vbsts = [c \in Consumers |-> [vb \in VBs |-> NoRecord]]
    /\ giveQ = [c \in Consumers |-> NoShards]
    /\ gpc = [c \in Consumers |-> [i \in Shards |-> "read"]]
    /\ gBlob = [c \in Consumers |-> [i \in Shards |-> NoRecord]]
    /\ takeQ = [c \in Consumers |-> NoShards]
    /\ tpc = [c \in Consumers |-> [i \in Shards |-> "read"]]
    /\ tBlob = [c \in Consumers |-> [i \in Shards |-> NoRecord]]
    /\ timerTransferred = vbStreamRequested

-----------------------------------------------------------------------------
(* Cluster and KV environment.                                             *)

\* A node joins the eventing cluster (rebalance in).
AddNode(n) ==
    /\ n \notin members \cup dead
    /\ changes < MaxMembershipChanges
    /\ members' = members \cup {n}
    /\ changes' = changes + 1
    /\ UNCHANGED <<dead, eventingNodeAddrs, vbEventingNodeAssignMap, workerVbucketMap,
                   storeVars, consumerVars>>

\* A node crashes and is failed over: its DCP connections die with it.
Failover(n) ==
    /\ n \in members
    /\ Cardinality(members) > 1
    /\ changes < MaxMembershipChanges
    /\ members' = members \ {n}
    /\ dead' = dead \cup {n}
    /\ changes' = changes + 1
    /\ dcpStream' = [c \in Consumers |-> IF c[1] = n THEN [vb \in VBs |-> "none"]
                                                      ELSE dcpStream[c]]
    /\ UNCHANGED <<timerTransferred, eventingNodeAddrs, vbEventingNodeAssignMap, workerVbucketMap,
                   storeVars, vbProcessingStats, vbStreamRequested,
                   vbsStreamClosed, isRebalanceOngoing, pc, vbsts, giveQ, gpc, gBlob,
                   takeQ, tpc, tBlob>>

\* The Producer of node n sees the new membership: vbEventingNodeAssign and
\* initWorkerVbMap recompute its plan and its consumers are told that a
\* rebalance is ongoing.
ProducerRebalance(n) ==
    /\ n \in members
    /\ eventingNodeAddrs[n] # members
    /\ eventingNodeAddrs' = [eventingNodeAddrs EXCEPT ![n] = members]
    /\ vbEventingNodeAssignMap' = [vbEventingNodeAssignMap EXCEPT ![n] = VbEventingNodeAssignMapOf(members)]
    /\ workerVbucketMap' = [workerVbucketMap EXCEPT ![n] = WorkerMapFor(members, n)]
    /\ isRebalanceOngoing' = [c \in Consumers |-> IF c[1] = n THEN TRUE
                                                  ELSE isRebalanceOngoing[c]]
    /\ UNCHANGED <<timerTransferred, members, dead, changes, storeVars, dcpStream, vbProcessingStats,
                   vbStreamRequested, vbsStreamClosed, pc, vbsts, giveQ, gpc, gBlob,
                   takeQ, tpc, tBlob>>

\* A document of vbucket vb is mutated.
KVMutation(vb) ==
    /\ kvSeq[vb] < MaxSeq
    /\ kvSeq' = [kvSeq EXCEPT ![vb] = @ + 1]
    /\ UNCHANGED <<clusterVars, vbBlob, consumerVars>>

-----------------------------------------------------------------------------
(* DCP events of a consumer and its checkpointer.                          *)

\* DCP_STREAMREQ succeeded: the stream is open and the consumer records
\* itself as the running owner, in the blob (CAS) and in its stats.
StreamReqResponse(c, vb) ==
    /\ Alive(c)
    /\ dcpStream[c][vb] = "requested"
    /\ dcpStream' = [dcpStream EXCEPT ![c][vb] = "open"]
    /\ vbBlob' = [vbBlob EXCEPT ![vb].status = dcpStreamRunning, ![vb].node = c[1],
                                ![vb].worker = c[2]]
    /\ vbProcessingStats' = [vbProcessingStats EXCEPT ![c][vb].status = dcpStreamRunning,
                                 ![c][vb].node = c[1], ![c][vb].worker = c[2]]
    /\ UNCHANGED <<timerTransferred, clusterVars, kvSeq, vbStreamRequested, vbsStreamClosed,
                   isRebalanceOngoing, pc, vbsts, giveQ, gpc, gBlob, takeQ, tpc, tBlob>>

\* A mutation delivered on a stream that has not ended is processed.
ProcessMutation(c, vb) ==
    /\ Alive(c)
    /\ dcpStream[c][vb] \in {"open", "closing"}
    /\ vbProcessingStats[c][vb].seq < kvSeq[vb]
    /\ vbProcessingStats' = [vbProcessingStats EXCEPT ![c][vb].seq = @ + 1]
    /\ UNCHANGED <<timerTransferred, clusterVars, storeVars, dcpStream, vbStreamRequested, vbsStreamClosed,
                   isRebalanceOngoing, pc, vbsts, giveQ, gpc, gBlob, takeQ, tpc, tBlob>>

\* Mutant: the checkpoint records the next sequence number to process
\* instead of the last one processed.
Checkpoint_nextSeq(c, vb) ==
    /\ Alive(c)
    /\ OwnedBy(vbProcessingStats[c][vb], c)
    /\ vbProcessingStats[c][vb].status = dcpStreamRunning
    /\ vbBlob[vb].seq # vbProcessingStats[c][vb].seq + 1
    /\ vbBlob' = [vbBlob EXCEPT ![vb].seq = vbProcessingStats[c][vb].seq + 1]
    /\ UNCHANGED <<clusterVars, kvSeq, consumerVars>>

\* The periodic checkpoint of an owned vbucket writes its last processed
\* sequence number into the blob (CAS).
Checkpoint(c, vb) ==
    /\ Alive(c)
    /\ OwnedBy(vbProcessingStats[c][vb], c)
    /\ vbProcessingStats[c][vb].status = dcpStreamRunning
    /\ vbBlob[vb].seq # vbProcessingStats[c][vb].seq
    /\ vbBlob' = [vbBlob EXCEPT ![vb].seq = vbProcessingStats[c][vb].seq]
    /\ UNCHANGED <<clusterVars, kvSeq, consumerVars>>

\* DCP_STREAMEND after a close: the stream is gone and may be requested again.
StreamEnd(c, vb) ==
    /\ Alive(c)
    /\ dcpStream[c][vb] = "closing"
    /\ dcpStream' = [dcpStream EXCEPT ![c][vb] = "none"]
    /\ vbStreamRequested' = [vbStreamRequested EXCEPT ![c] = @ \ {vb}]
    /\ timerTransferred' = [timerTransferred EXCEPT ![c] = @ \ {vb}]
    /\ UNCHANGED <<clusterVars, storeVars, vbProcessingStats, vbsStreamClosed,
                   isRebalanceOngoing, pc, vbsts, giveQ, gpc, gBlob, takeQ, tpc, tBlob>>

\* DcpCloseStream: only a stream that is open can be closed (else an error
\* is logged and nothing changes).
CloseStream(c, vb) ==
    IF dcpStream[c][vb] = "open" THEN [dcpStream EXCEPT ![c][vb] = "closing"]
                                 ELSE dcpStream

-----------------------------------------------------------------------------
(* vbsStateUpdate: one rebalance pass of a consumer.                       *)

\* Entry: the lists are computed; with nothing to do the flag is reset and
\* the pass ends, else the stats are snapshot for the give-up routine, which
\* starts (it returns at once when it has nothing to give up), and the
\* take-over routines start.
VbsStateUpdate(c) ==
    /\ Alive(c)
    /\ pc[c] = "idle"
    /\ isRebalanceOngoing[c]
    /\ LET toGiveUp == getVbRemainingToGiveUp(c)
           toOwn    == getVbRemainingToOwn(c)
       IN  IF toGiveUp = <<>> /\ toOwn = <<>>
           THEN /\ isRebalanceOngoing' = [isRebalanceOngoing EXCEPT ![c] = FALSE]
                /\ UNCHANGED <<pc, vbsts, giveQ, takeQ>>
           ELSE /\ vbsts' = [vbsts EXCEPT ![c] = vbProcessingStats[c]]
                /\ giveQ' = [giveQ EXCEPT ![c] = IF toGiveUp = <<>> THEN NoShards
                                                 ELSE VbucketDistribution(toGiveUp)]
                /\ takeQ' = [takeQ EXCEPT ![c] = VbucketDistribution(toOwn)]
                /\ pc' = [pc EXCEPT ![c] = "takeover"]
                /\ UNCHANGED isRebalanceOngoing
    /\ UNCHANGED <<timerTransferred, clusterVars, storeVars, dcpStream, vbProcessingStats, vbStreamRequested,
                   vbsStreamClosed, gpc, gBlob, tpc, tBlob>>

\* All take-over routines are done: while a rebalance is ongoing the
\* vbuckets still to own are recomputed and, if any, retried
\* (retryStreamUpdate); the vbuckets left to give up are only logged.
\* Otherwise the pass waits for the give-up routine.
TakeoverPassDone(c) ==
    /\ Alive(c)
    /\ pc[c] = "takeover"
    /\ takeQ[c] = NoShards
    /\ IF isRebalanceOngoing[c] /\ getVbRemainingToOwn(c) # <<>>
       THEN /\ takeQ' = [takeQ EXCEPT ![c] = VbucketDistribution(getVbRemainingToOwn(c))]
            /\ UNCHANGED pc
       ELSE /\ pc' = [pc EXCEPT ![c] = "giveupWait"]
            /\ UNCHANGED takeQ
    /\ UNCHANGED <<timerTransferred, clusterVars, storeVars, dcpStream, vbProcessingStats, vbStreamRequested,
                   vbsStreamClosed, isRebalanceOngoing, vbsts, giveQ, gpc, gBlob, tpc, tBlob>>

\* giveupWg.Wait() returned: the flag is reset and the pass ends.
VbsStateUpdateDone(c) ==
    /\ Alive(c)
    /\ pc[c] = "giveupWait"
    /\ giveQ[c] = NoShards
    /\ isRebalanceOngoing' = [isRebalanceOngoing EXCEPT ![c] = FALSE]
    /\ pc' = [pc EXCEPT ![c] = "idle"]
    /\ vbsts' = [vbsts EXCEPT ![c] = [vb \in VBs |-> NoRecord]]
    /\ UNCHANGED <<timerTransferred, clusterVars, storeVars, dcpStream, vbProcessingStats, vbStreamRequested,
                   vbsStreamClosed, giveQ, gpc, gBlob, takeQ, tpc, tBlob>>

-----------------------------------------------------------------------------
(* Take-over routine i of consumer c: util.Retry(vbTakeoverCallback) on    *)
(* the head vbucket until doVbTakeover returns nil, then the next one.     *)

\* doVbTakeover returned: nil moves on to the next vbucket, an error retries.
TakeoverReturn(c, i, ok) ==
    /\ takeQ' = [takeQ EXCEPT ![c][i] = IF ok THEN Tail(@) ELSE @]
    /\ tpc' = [tpc EXCEPT ![c][i] = "read"]
    /\ tBlob' = [tBlob EXCEPT ![c][i] = NoRecord]

\* doVbTakeover, first step: the vbucket's blob is read (getOpCallback).
TakeoverRead(c, i) ==
    /\ Alive(c)
    /\ pc[c] = "takeover"
    /\ takeQ[c][i] # <<>>
    /\ tpc[c][i] = "read"
    /\ tBlob' = [tBlob EXCEPT ![c][i] = vbBlob[Head(takeQ[c][i])]]
    /\ tpc' = [tpc EXCEPT ![c][i] = "act"]
    /\ UNCHANGED <<timerTransferred, clusterVars, storeVars, dcpStream, vbProcessingStats, vbStreamRequested,
                   vbsStreamClosed, isRebalanceOngoing, pc, vbsts, giveQ, gpc, gBlob, takeQ>>

\* updateVbOwnerAndStartDCPStream: a vbucket already in vbStreamRequested
\* returns nil; otherwise it is added, the stats take the blob's sequence
\* number and the stream is requested from it.  A failed request removes
\* it again and returns the error; after a request, the timer directory
\* transfer from the previous owner (dial, download, copy) may still fail.
updateVbOwnerAndStartDCPStream(c, i, vb, b, requestOk, transferOk) ==
    \/ /\ vb \in vbStreamRequested[c]
       /\ TakeoverReturn(c, i, TRUE)
       /\ UNCHANGED <<timerTransferred, dcpStream, vbProcessingStats, vbStreamRequested>>
    \/ /\ vb \notin vbStreamRequested[c]
       /\ vbProcessingStats' = [vbProcessingStats EXCEPT ![c][vb].seq = b.seq]
       /\ IF requestOk
          THEN /\ vbStreamRequested' = [vbStreamRequested EXCEPT ![c] = @ \cup {vb}]
               /\ dcpStream' = [dcpStream EXCEPT ![c][vb] = "requested"]
               /\ timerTransferred' = [timerTransferred EXCEPT ![c] =
                                         IF transferOk THEN @ \cup {vb} ELSE @ \ {vb}]
               /\ TakeoverReturn(c, i, transferOk)
          ELSE /\ TakeoverReturn(c, i, FALSE)
               /\ UNCHANGED <<timerTransferred, dcpStream, vbStreamRequested>>

\* Mutant: only the plan is consulted, not the liveness of the owner.
DeadOwnerTakeover_planOnly(c, vb, b) == checkIfCurrentNodeShouldOwnVb(c, vb)

\* Mutant: the take-over never replaces a running owner, dead or not.
DeadOwnerTakeover_never(c, vb, b) == FALSE

\* The running owner's node is gone and this node's plan has the vbucket.
DeadOwnerTakeover(c, vb, b) ==
    /\ c[1] # b.node
    /\ ~IsEventingNodeAlive(b.node)
    /\ checkIfCurrentNodeShouldOwnVb(c, vb)

\* doVbTakeover, second step: dispatch on the stream status read.
doVbTakeover(c, i, requestOk, transferOk) ==
    LET vb == Head(takeQ[c][i])
        b  == tBlob[c][i]
    IN
    \/ /\ b.status = dcpStreamRunning
       /\ OwnedBy(b, c)
       /\ TakeoverReturn(c, i, TRUE)
       /\ UNCHANGED <<timerTransferred, dcpStream, vbProcessingStats, vbStreamRequested>>
    \/ /\ b.status = dcpStreamRunning
       /\ ~OwnedBy(b, c)
       /\ DeadOwnerTakeover(c, vb, b)
       /\ updateVbOwnerAndStartDCPStream(c, i, vb, b, requestOk, transferOk)
    \/ /\ b.status = dcpStreamRunning
       /\ ~OwnedBy(b, c)
       /\ ~DeadOwnerTakeover(c, vb, b)
       \* errVbOwnedByAnotherWorker / errVbOwnedByAnotherNode
       /\ TakeoverReturn(c, i, FALSE)
       /\ UNCHANGED <<timerTransferred, dcpStream, vbProcessingStats, vbStreamRequested>>
    \/ /\ b.status \in {dcpStreamStopped, dcpStreamUninitialised}
       /\ updateVbOwnerAndStartDCPStream(c, i, vb, b, requestOk, transferOk)

TakeoverAct(c, i, requestOk, transferOk) ==
    /\ Alive(c)
    /\ pc[c] = "takeover"
    /\ tpc[c][i] = "act"
    /\ doVbTakeover(c, i, requestOk, transferOk)
    /\ UNCHANGED <<clusterVars, storeVars, vbsStreamClosed, isRebalanceOngoing, pc,
                   vbsts, giveQ, gpc, gBlob>>

-----------------------------------------------------------------------------
(* Give-up routine i of consumer c, over the vbuckets it was given.        *)

GiveUpHead(c, i) == Head(giveQ[c][i])

\* Mutant: cUpdated is read after vb is marked closed, so the give-up
\* checkpoint is never written.
GiveUpNextStep_markFirst(c, vb) ==
    IF vb \in vbsStreamClosed[c] \cup {vb} THEN "poll" ELSE "reread"

\* cUpdated: the give-up checkpoint is written on the first close of vb only.
GiveUpNextStep(c, vb) == IF vb \in vbsStreamClosed[c] THEN "poll" ELSE "reread"

\* The blob of the head vbucket is read and the branch taken:
\*  - another node runs it: close the local stream, clear the stats, next;
\*  - the snapshot says this consumer owns it: mark it closed, close the
\*    stream, and write the give-up checkpoint unless it was already
\*    marked, then wait for a new owner;
\*  - otherwise: next.
GiveUpRead(c, i) ==
    /\ Alive(c)
    /\ giveQ[c][i] # <<>>
    /\ gpc[c][i] = "read"
    /\ LET vb == GiveUpHead(c, i)
           b  == vbBlob[vb]
       IN
       \/ /\ b.node # c[1] /\ b.status = dcpStreamRunning
          /\ dcpStream' = CloseStream(c, vb)
          /\ vbProcessingStats' = [vbProcessingStats EXCEPT ![c][vb] =
                                      [@ EXCEPT !.status = dcpStreamStopped,
                                                !.node = None, !.worker = None]]
          /\ giveQ' = [giveQ EXCEPT ![c][i] = Tail(@)]
          /\ UNCHANGED <<vbsStreamClosed, gpc>>
       \/ /\ ~(b.node # c[1] /\ b.status = dcpStreamRunning)
          /\ OwnedBy(vbsts[c][vb], c)
          /\ vbsStreamClosed' = [vbsStreamClosed EXCEPT ![c] = @ \cup {vb}]
          /\ dcpStream' = CloseStream(c, vb)
          /\ gpc' = [gpc EXCEPT ![c][i] = GiveUpNextStep(c, vb)]
          /\ UNCHANGED <<vbProcessingStats, giveQ>>
       \/ /\ ~(b.node # c[1] /\ b.status = dcpStreamRunning)
          /\ ~OwnedBy(vbsts[c][vb], c)
          /\ giveQ' = [giveQ EXCEPT ![c][i] = Tail(@)]
          /\ UNCHANGED <<dcpStream, vbProcessingStats, vbsStreamClosed, gpc>>
    /\ UNCHANGED <<timerTransferred, clusterVars, storeVars, vbStreamRequested, isRebalanceOngoing, pc,
                   vbsts, gBlob, takeQ, tpc, tBlob>>

\* The blob is read again before the give-up checkpoint.
GiveUpReread(c, i) ==
    /\ Alive(c)
    /\ gpc[c][i] = "reread"
    /\ gBlob' = [gBlob EXCEPT ![c][i] = vbBlob[GiveUpHead(c, i)]]
    /\ gpc' = [gpc EXCEPT ![c][i] = "write"]
    /\ UNCHANGED <<timerTransferred, clusterVars, storeVars, dcpStream, vbProcessingStats, vbStreamRequested,
                   vbsStreamClosed, isRebalanceOngoing, pc, vbsts, giveQ, takeQ, tpc, tBlob>>

\* Mutant: the Previous* fields are not set, so the blob keeps naming
\* an earlier owner as the one to fetch the timers from.
updateCheckpoint_keepsPrev(c, i) ==
    /\ Alive(c)
    /\ gpc[c][i] = "write"
    /\ vbBlob' = [vbBlob EXCEPT ![GiveUpHead(c, i)] =
                     [gBlob[c][i] EXCEPT !.status = dcpStreamStopped,
                                         !.node = None, !.worker = None]]
    /\ gpc' = [gpc EXCEPT ![c][i] = "stats"]
    /\ UNCHANGED <<timerTransferred, clusterVars, kvSeq, dcpStream, vbProcessingStats, vbStreamRequested,
                   vbsStreamClosed, isRebalanceOngoing, pc, vbsts, giveQ, gBlob, takeQ,
                   tpc, tBlob>>

\* updateCheckpoint, store write: the blob read above, with the stream
\* stopped, the owner fields cleared and the writing consumer recorded as
\* the previous owner, replaces the stored one (the callback is given no
\* CAS value).
updateCheckpoint(c, i) ==
    /\ Alive(c)
    /\ gpc[c][i] = "write"
    /\ vbBlob' = [vbBlob EXCEPT ![GiveUpHead(c, i)] =
                     [gBlob[c][i] EXCEPT !.status = dcpStreamStopped,
                                         !.node = None, !.worker = None,
                                         !.prevNode = c[1], !.prevWorker = c[2]]]
    /\ gpc' = [gpc EXCEPT ![c][i] = "stats"]
    /\ UNCHANGED <<timerTransferred, clusterVars, kvSeq, dcpStream, vbProcessingStats, vbStreamRequested,
                   vbsStreamClosed, isRebalanceOngoing, pc, vbsts, giveQ, gBlob, takeQ,
                   tpc, tBlob>>

\* updateCheckpoint, after the write: the stats mirror the cleared owner.
updateCheckpointStats(c, i) ==
    /\ Alive(c)
    /\ gpc[c][i] = "stats"
    /\ vbProcessingStats' = [vbProcessingStats EXCEPT ![c][GiveUpHead(c, i)] =
                                [@ EXCEPT !.status = dcpStreamStopped,
                                          !.node = None, !.worker = None]]
    /\ gBlob' = [gBlob EXCEPT ![c][i] = NoRecord]
    /\ gpc' = [gpc EXCEPT ![c][i] = "poll"]
    /\ UNCHANGED <<timerTransferred, clusterVars, storeVars, dcpStream, vbStreamRequested, vbsStreamClosed,
                   isRebalanceOngoing, pc, vbsts, giveQ, takeQ, tpc, tBlob>>

\* retryVbMetaStateCheck: the routine polls the blob until the stream runs
\* under an owner other than this consumer, then moves on (a poll that
\* finds neither changes nothing).
GiveUpPoll(c, i) ==
    /\ Alive(c)
    /\ gpc[c][i] = "poll"
    /\ vbBlob[GiveUpHead(c, i)].status = dcpStreamRunning
    /\ ~OwnedBy(vbBlob[GiveUpHead(c, i)], c)
    /\ giveQ' = [giveQ EXCEPT ![c][i] = Tail(@)]
    /\ gpc' = [gpc EXCEPT ![c][i] = "read"]
    /\ UNCHANGED <<timerTransferred, clusterVars, storeVars, dcpStream, vbProcessingStats, vbStreamRequested,
                   vbsStreamClosed, isRebalanceOngoing, pc, vbsts, gBlob, takeQ, tpc, tBlob>>

-----------------------------------------------------------------------------
\* Outcomes of a DCP stream request and of a timer directory transfer.
CallOutcomes     == IF TransientFailures THEN BOOLEAN ELSE {TRUE}
TransferOutcomes == IF TransferFailures THEN BOOLEAN ELSE {TRUE}

Next ==
    \/ \E n \in Nodes : AddNode(n) \/ Failover(n) \/ ProducerRebalance(n)
    \/ \E vb \in VBs : KVMutation(vb)
    \/ \E c \in Consumers :
          \/ VbsStateUpdate(c) \/ TakeoverPassDone(c) \/ VbsStateUpdateDone(c)
          \/ \E vb \in VBs : \/ StreamReqResponse(c, vb) \/ ProcessMutation(c, vb)
                            \/ Checkpoint(c, vb) \/ StreamEnd(c, vb)
          \/ \E i \in Shards :
                \/ TakeoverRead(c, i)
                \/ \E requestOk \in CallOutcomes, transferOk \in TransferOutcomes :
                      TakeoverAct(c, i, requestOk, transferOk)
                \/ GiveUpRead(c, i) \/ GiveUpReread(c, i) \/ updateCheckpoint(c, i)
                \/ updateCheckpointStats(c, i) \/ GiveUpPoll(c, i)

\* Every goroutine of a live consumer (the pass itself, each take-over and
\* give-up routine, the DCP event loop) and every Producer eventually takes
\* a step while it can.  A DCP stream request that util.Retry keeps
\* repeating (TransientFailures) succeeds after finitely many failures:
\* the successful attempt, possible again and again, is eventually taken
\* (strong fairness).  Timer transfer failures get no such assumption, so
\* liveness is checked with TransferFailures FALSE.  Mutations, node
\* additions and failovers need not happen.
Fairness ==
    /\ \A n \in Nodes : WF_vars(ProducerRebalance(n))
    /\ \A c \in Consumers :
          /\ WF_vars(VbsStateUpdate(c) \/ TakeoverPassDone(c) \/ VbsStateUpdateDone(c))
          /\ WF_vars(\E vb \in VBs : StreamReqResponse(c, vb) \/ StreamEnd(c, vb))
          /\ \A i \in Shards :
                /\ WF_vars(TakeoverRead(c, i) \/ TakeoverAct(c, i, TRUE, TRUE))
                /\ SF_vars(TakeoverAct(c, i, TRUE, TRUE))
                /\ WF_vars(GiveUpRead(c, i) \/ GiveUpReread(c, i) \/ updateCheckpoint(c, i)
                            \/ updateCheckpointStats(c, i) \/ GiveUpPoll(c, i))

Spec == Init /\ [][Next]_vars
FairSpec == Spec /\ Fairness

-----------------------------------------------------------------------------
(* Properties.                                                             *)

TypeOK ==
    /\ members \subseteq Nodes /\ dead \subseteq Nodes /\ changes \in 0..MaxMembershipChanges
    /\ eventingNodeAddrs \in [Nodes -> SUBSET Nodes]
    /\ vbEventingNodeAssignMap \in [Nodes -> [VBs -> Nodes \cup {None}]]
    /\ workerVbucketMap \in [Nodes -> [VBs -> Workers \cup {None}]]
    /\ vbBlob \in [VBs -> VbRecord]
    /\ kvSeq \in [VBs -> 0..MaxSeq]
    /\ dcpStream \in [Consumers -> [VBs -> StreamState]]
    /\ vbProcessingStats \in [Consumers -> [VBs -> VbRecord]]
    /\ vbStreamRequested \in [Consumers -> SUBSET VBs]
    /\ vbsStreamClosed \in [Consumers -> SUBSET VBs]
    /\ isRebalanceOngoing \in [Consumers -> BOOLEAN]
    /\ pc \in [Consumers -> {"idle", "takeover", "giveupWait"}]
    /\ vbsts \in [Consumers -> [VBs -> VbRecord]]
    /\ giveQ \in [Consumers -> [Shards -> Seq(VBs)]]
    /\ takeQ \in [Consumers -> [Shards -> Seq(VBs)]]
    /\ gpc \in [Consumers -> [Shards -> {"read", "reread", "write", "stats", "poll"}]]
    /\ tpc \in [Consumers -> [Shards -> {"read", "act"}]]
    /\ gBlob \in [Consumers -> [Shards -> VbRecord]]
    /\ tBlob \in [Consumers -> [Shards -> VbRecord]]
    /\ timerTransferred \in [Consumers -> SUBSET VBs]

\* Exclusive ownership: a live consumer whose DCP stream for a vbucket is
\* open (not closing) is the running owner the checkpoint blob names.  So
\* no take-over (doVbTakeover, the STREAMREQ handler) ever opens a second
\* stream while an owner alive per the cluster still streams, and no
\* give-up checkpoint (updateCheckpoint) clears an owner that streams.
StreamOwnerRecorded ==
    \A c \in Consumers, vb \in VBs :
        Alive(c) /\ dcpStream[c][vb] = "open"
            => vbBlob[vb].status = dcpStreamRunning /\ OwnedBy(vbBlob[vb], c)

\* At most one live DCP stream per vbucket: the spec's "at-most-one active
\* CDC stream per partition", counting a stream that was closed by the
\* give-up routine (DcpCloseStream) but has not yet ended (DCP_STREAMEND).
AtMostOneLiveStream ==
    \A vb \in VBs :
        Cardinality({c \in Consumers : Alive(c) /\ dcpStream[c][vb] \in {"open", "closing"}}) <= 1

\* The blob's last processed sequence number never decreases, whichever of
\* the checkpointer, the STREAMREQ handler and the give-up checkpoint
\* (updateCheckpoint) writes it.
LastSeqMonotonic ==
    [][\A vb \in VBs : vbBlob'[vb].seq >= vbBlob[vb].seq]_vbBlob

\* A give-up routine starts waiting for a new owner (retryVbMetaStateCheck)
\* only once it has released the vbucket: when it enters the poll the blob
\* no longer names this consumer as the running owner.  Otherwise no
\* take-over elsewhere can start and the poll never ends.  It depends on
\* cUpdated (vbsStreamClosed) being false whenever the give-up checkpoint
\* is still due.
GiveUpPollsAfterRelease ==
    [][\A c \in Consumers, i \in Shards :
         /\ gpc[c][i] # "poll" /\ gpc'[c][i] = "poll"
         => ~(vbBlob'[GiveUpHead(c, i)].status = dcpStreamRunning
              /\ OwnedBy(vbBlob'[GiveUpHead(c, i)], c))]_vars

BlobOwner == [vb \in VBs |-> IF vbBlob[vb].status = dcpStreamRunning
                              THEN <<vbBlob[vb].node, vbBlob[vb].worker>> ELSE None]

\* The consumer the blob names as the last one to give the vbucket up.
BlobPrevious == [vb \in VBs |-> IF vbBlob[vb].prevNode = None THEN None
                                ELSE <<vbBlob[vb].prevNode, vbBlob[vb].prevWorker>>]

Ownership == INSTANCE VbOwnership
                 WITH owner <- BlobOwner, released <- BlobPrevious, down <- dead

\* Every change of the recorded owner and previous owner is one the
\* ownership protocol allows: the give-up checkpoint (updateCheckpoint)
\* clears only the running owner, and only when that owner is the consumer
\* writing it, which the blob then names as previous owner for the next
\* owner's timer transfer; a STREAMREQ response records a consumer only over
\* a stopped blob or one whose owner's node was failed over, and keeps the
\* previous owner; nothing else touches either.
OwnershipRefinement == Ownership!Spec

\* The rebalance has converged: every live Producer planned with the
\* current members, every live consumer finished its vbsStateUpdate pass
\* and has open exactly the streams of the vbuckets getVbsOwned gives it
\* (none left over from the old plan), and the blob of each of those
\* names it as the running owner.
Converged ==
    /\ \A n \in members : eventingNodeAddrs[n] = members
    /\ \A c \in Consumers : Alive(c) => pc[c] = "idle" /\ ~isRebalanceOngoing[c]
    /\ \A c \in Consumers :
          c[1] \in members =>
             /\ {vb \in VBs : dcpStream[c][vb] = "open"} = Range(getVbsOwned(c))
             /\ \A vb \in Range(getVbsOwned(c)) :
                   vbBlob[vb].status = dcpStreamRunning /\ OwnedBy(vbBlob[vb], c)

\* After the last membership change every rebalance pass terminates and
\* ownership settles on the plan: give-up and take-over never wait on each
\* other forever.
RebalanceConverges == <>[]Converged

=============================================================================
