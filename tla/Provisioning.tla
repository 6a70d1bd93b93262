---------------------------- MODULE Provisioning ----------------------------
(***************************************************************************)
(* What `swmgr cluster create` and `swmgr cluster add` promise of a node,  *)
(* without any of the calls they make: a node is prepared, then joined to  *)
(* a cluster, then placed in its server group, never back, and success is  *)
(* reported for it only when all of that is done.                          *)
(***************************************************************************)
CONSTANT Nodes

VARIABLES
    stage,    \* how far each node has come
    reported  \* the nodes whose last run reported success

vars == <<stage, reported>>

Stages == {"fresh", "prepared", "joined", "placed"}

TypeOK == stage \in [Nodes -> Stages] /\ reported \subseteq Nodes

Init == stage = [n \in Nodes |-> "fresh"] /\ reported = {}

\* A step may also end the run, with success if the node is placed by then.
MayReport(n) ==
    reported' = reported \/ (stage'[n] = "placed" /\ reported' = reported \cup {n})

Advance(n, before, after) ==
    /\ stage[n] = before
    /\ stage' = [stage EXCEPT ![n] = after]
    /\ MayReport(n)

Prepare(n) == Advance(n, "fresh", "prepared")
Join(n)    == Advance(n, "prepared", "joined")
\* Community Edition, or the cluster's default group is the right one.
JoinInPlace(n) == Advance(n, "prepared", "placed")
Place(n)   == Advance(n, "joined", "placed")
Report(n)  == UNCHANGED stage /\ MayReport(n)
Begin(n)   == UNCHANGED stage /\ reported' = reported \ {n}

Next == \E n \in Nodes :
    \/ Prepare(n) \/ Join(n) \/ JoinInPlace(n) \/ Place(n)
    \/ Report(n) \/ Begin(n)

Spec == Init /\ [][Next]_vars
=============================================================================
