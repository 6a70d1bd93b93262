------------------------ MODULE ClusterSetupRefines ------------------------
(* swmgr cluster, call by call, implements Provisioning when create runs on *)
(* its own rally node.                                                      *)
EXTENDS ClusterSetup

\* What the service knows of a node is how far it has come, and the result
\* of its last run is what has been reported.
StageOf(n) ==
    IF clusterOf[n] # None THEN IF Placed(n) THEN "placed" ELSE "joined"
    ELSE IF Prepared(n) THEN "prepared" ELSE "fresh"

P == INSTANCE Provisioning WITH
        stage    <- [n \in Nodes |-> StageOf(n)],
        reported <- {n \in Nodes : result[n] = "success"}

\* create and add take every node through the stages in order, skip none
\* and never go back, over failed calls, lost replies, breaks and reruns.
ImplementsProvisioning == P!Spec
=============================================================================
