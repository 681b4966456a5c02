----------------------------- MODULE VbOwnership -----------------------------
(***************************************************************************)
(* What the rebalance protocol promises about the running owner recorded  *)
(* for each vbucket: a vbucket is free or owned by one consumer; only its *)
(* owner gives it up, and is then recorded as the vbucket's last         *)
(* releaser; a live consumer takes it only when it is free or its owner's *)
(* node is down.  Nodes go down and never come back.                      *)
(***************************************************************************)
CONSTANTS Nodes, Consumers, VBs, None

VARIABLES owner, released, down

Init ==
    /\ owner \in [VBs -> Consumers \cup {None}]
    /\ released = [vb \in VBs |-> None]
    /\ down = {}

\* The owner stops its stream and records the vbucket as free, and itself
\* as the one that released it.
Release(c, vb) ==
    /\ owner[vb] = c
    /\ owner' = [owner EXCEPT ![vb] = None]
    /\ released' = [released EXCEPT ![vb] = c]
    /\ UNCHANGED down

\* A consumer of a live node takes a free vbucket, or one whose owner's
\* node is down.
Acquire(c, vb) ==
    /\ c[1] \notin down
    /\ owner[vb] = None \/ owner[vb][1] \in down
    /\ owner' = [owner EXCEPT ![vb] = c]
    /\ UNCHANGED <<released, down>>

Crash(n) ==
    /\ down' = down \cup {n}
    /\ UNCHANGED <<owner, released>>

Next ==
    \/ \E c \in Consumers, vb \in VBs : Release(c, vb) \/ Acquire(c, vb)
    \/ \E n \in Nodes : Crash(n)

Spec == Init /\ [][Next]_<<owner, released, down>>

=============================================================================
