-------------------------- MODULE VbAssignmentCheck --------------------------
(***************************************************************************)
(* The assignment planner checked over every small input: the node list in *)
(* each order the cluster could report it, each vbucket count, and the    *)
(* worker count the Producer loads with parseDepcfg from a settings        *)
(* document that gives worker_count each value of WorkerCountValues, a     *)
(* wrongly typed value or nothing.  Init picks one input; the state never  *)
(* changes, so every reachable state is one load and one planner call.    *)
(***************************************************************************)
EXTENDS Integers, FiniteSets, Sequences, SequencesExt, VbAssignment, DepCfg

CONSTANTS NodeAddrs, MaxVbuckets, WorkerCountValues

VARIABLES eventingNodeAddrs, numVbuckets, settings
vars == <<eventingNodeAddrs, numVbuckets, settings>>

\* Node lists as getEventingNodeAddrs returns them: distinct addresses, in
\* any order, at least one.
NodeLists == UNION {SetToSeqs(S) : S \in (SUBSET NodeAddrs) \ {{}}}

\* Settings documents with the credentials and log_level set, and every
\* other key but worker_count left to its default.
WorkerCountDocuments ==
    LET base == [k \in ToSet(SettingKeys) |->
                    CASE k \in RequiredSettings -> "s"
                      [] k = "log_level"         -> "INFO"
                      [] OTHER                   -> Absent]
    IN  {[base EXCEPT !["worker_count"] = v] : v \in WorkerCountValues \cup {Absent, WrongType}}

Init ==
    /\ eventingNodeAddrs \in NodeLists
    /\ numVbuckets \in 1..MaxVbuckets
    /\ settings \in WorkerCountDocuments

Next == UNCHANGED vars

Spec == Init /\ [][Next]_vars

AssignMap == VbEventingNodeAssignMap(eventingNodeAddrs, numVbuckets)

\* parseDepcfg with every metakv and cluster call succeeding; a load that
\* fails is fatal to the application, which then never plans.
Load        == parseDepcfg(settings, "none")
workerCount == Load.cfg["worker_count"]

\* Reference: with q = total \div parts and r = total % parts, the first r
\* slots hold q + 1 consecutive positions and the others q.
RefSlot(total, parts, k) ==
    LET q == total \div parts
        r == total % parts
    IN  IF k < r * (q + 1) THEN k \div (q + 1) ELSE r + (k - r * (q + 1)) \div q

\* vbEventingNodeAssign gives every vbucket 0..NumVbuckets-1 exactly the
\* node the balanced contiguous split names: the map is total, node counts
\* differ by at most one, and the earlier nodes of the list get the larger
\* shares.
NodeAssignMatchesReference ==
    AssignMap = [vb \in 0..numVbuckets-1 |->
                    eventingNodeAddrs[RefSlot(numVbuckets, Len(eventingNodeAddrs), vb) + 1]]

\* With the worker count of every configuration parseDepcfg loads,
\* initWorkerVbMap, on every node of the list, splits exactly the node's
\* vbuckets among its workers: read in worker order, the runs are the
\* node's vbuckets in ascending order, and the run lengths never grow from
\* one worker to the next and differ by at most one.  A worker count the
\* load let through as 0 or less would divide by zero or drop vbuckets.
WorkerMapPartitionsNode ==
    Load.outcome = "ok" =>
    \A j \in 1..Len(eventingNodeAddrs) :
        LET n    == eventingNodeAddrs[j]
            runs == WorkerVbMap(AssignMap, n, workerCount)
        IN  /\ FlattenSeq([k \in 1..workerCount |-> runs[k-1]])
                  = AscendingSeq({vb \in DOMAIN AssignMap : AssignMap[vb] = n})
            /\ \A w1, w2 \in 0..workerCount-1 :
                  w1 < w2 => Len(runs[w2]) <= Len(runs[w1]) /\ Len(runs[w1]) <= Len(runs[w2]) + 1

=============================================================================
