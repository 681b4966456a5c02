---------------------------- MODULE VbAssignment ----------------------------
(***************************************************************************)
(* The assignment planner of the Producer (producer/                       *)
(* vbucket_node_assignment.go): vbuckets are split across the eventing    *)
(* nodes, and the vbuckets of one node across its workers, by the same    *)
(* "quotient, plus one for the first remainder" rule.  Pure operators,    *)
(* no state; VbTakeover uses them as the producer's plan.                 *)
(***************************************************************************)
EXTENDS Naturals, FiniteSets, Sequences, Functions

\* sort.Ints / sort.Sort(Uint16Slice) of a set of integers: the element of
\* rank i - 1 at position i.
AscendingSeq(S) ==
    [i \in 1..Cardinality(S) |-> CHOOSE x \in S : Cardinality({y \in S : y < x}) = i - 1]

\* Mutant: the remainder goes to the last slots instead of the first.
VbCountPerSlot_remainderLast(total, parts) ==
    LET per       == total \div parts
        remaining == total - per * parts
    IN  [i \in 0..parts-1 |-> per + (IF i >= parts - remaining THEN 1 ELSE 0)]

\* vbCountPerNode / vbCountPerWorker: every slot gets total \div parts,
\* and the first (total - parts * (total \div parts)) slots get one more.
VbCountPerSlot(total, parts) ==
    LET per       == total \div parts
        remaining == total - per * parts
    IN  [i \in 0..parts-1 |-> per + (IF i < remaining THEN 1 ELSE 0)]

\* startVb / startVbIndex when the loop reaches slot i: the vbuckets given
\* to the slots before it.
StartOfSlot(counts, i) == SumFunctionOnSet(counts, 0..i-1)

\* The slot the sequential filling loop gives position k (0-based) to.
SlotOf(counts, k) ==
    CHOOSE i \in DOMAIN counts :
        StartOfSlot(counts, i) <= k /\ k < StartOfSlot(counts, i) + counts[i]

\* Mutant: the node split gives the remainder to the last nodes.
VbEventingNodeAssignMap_remainderLast(eventingNodeAddrs, numVbuckets) ==
    LET counts == VbCountPerSlot_remainderLast(numVbuckets, Len(eventingNodeAddrs))
    IN  [vb \in 0..numVbuckets-1 |-> eventingNodeAddrs[SlotOf(counts, vb) + 1]]

\* vbEventingNodeAssign: vbucket -> eventing node address, over the node
\* addresses in the order the cluster reports them.
VbEventingNodeAssignMap(eventingNodeAddrs, numVbuckets) ==
    LET counts == VbCountPerSlot(numVbuckets, Len(eventingNodeAddrs))
    IN  [vb \in 0..numVbuckets-1 |-> eventingNodeAddrs[SlotOf(counts, vb) + 1]]

\* Mutant: every worker gets the quotient; the remainder is dropped.
WorkerVbMap_noRemainder(assignMap, eventingNodeAddr, workerCount) ==
    LET vbucketsToHandle == AscendingSeq({vb \in DOMAIN assignMap :
                                             assignMap[vb] = eventingNodeAddr})
        per              == Len(vbucketsToHandle) \div workerCount
    IN  [w \in 0..workerCount-1 |-> SubSeq(vbucketsToHandle, w * per + 1, w * per + per)]

\* initWorkerVbMap: worker ordinal -> the sorted run of this node's
\* vbuckets it handles (workerVbucketMap["worker_<app>_<i>"]).
WorkerVbMap(assignMap, eventingNodeAddr, workerCount) ==
    LET vbucketsToHandle == AscendingSeq({vb \in DOMAIN assignMap :
                                             assignMap[vb] = eventingNodeAddr})
        counts           == VbCountPerSlot(Len(vbucketsToHandle), workerCount)
    IN  [w \in 0..workerCount-1 |->
            SubSeq(vbucketsToHandle, StartOfSlot(counts, w) + 1,
                                     StartOfSlot(counts, w) + counts[w])]

=============================================================================
