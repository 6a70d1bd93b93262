------------------------- MODULE ClusterCertProofs -------------------------
(***************************************************************************)
(* Theorems about the certificates and the editions of ClusterSetup: what  *)
(* success says of a node's certificate, and what a run leaves alone on    *)
(* Community Edition.  They hold whatever node create is run on.           *)
(***************************************************************************)
EXTENDS ClusterSetupProofs

-----------------------------------------------------------------------------
(* Success and the certificate of a node.                                  *)

\* What success of the last run on m says of its certificate.
CertifiedInv(m) ==
    result[m] = "success" /\ ~Community =>
        /\ cmd[m] = "create" /\ HasCaMaterials(m) => nodeCert[m] = CaKey[m]
        /\ cmd[m] = "add" /\ CaKey[m] # None => nodeCert[m] = CaKey[m]

\* Success is reported where node_change_group returns or once the
\* certificate has been reloaded.
LEMMA SuccessFrom ==
    ASSUME TypeOK, NEW n \in Nodes, Step(n), result'[n] = "success"
    PROVE  /\ cmd'[n] = cmd[n]
           /\ result[n] = "success" \/ AfterGroup(n) \/ nodeCert'[n] = CaKey[n]
<1> DEFINE Q == /\ cmd'[n] = cmd[n]
                /\ result[n] = "success" \/ AfterGroup(n) \/ nodeCert'[n] = CaKey[n]
<1>1. RunTypeOK
  BY DEF TypeOK
<1>2. \A l : Goto(n, l) => Q
  BY Lands, <1>1 DEF At
<1>3. \A o : Exit(n, o) /\ o # "success" => Q
  BY Lands, <1>1 DEF At
<1>4. \A o, k : Retry(n, k, o) /\ o # "success" => Q
  BY Lands, <1>1 DEF At
<1>5. AfterNodeInit(n) => Q
  BY <1>2 DEF AfterNodeInit
<1>6. AfterGroup(n) => Q
  BY Lands, <1>1 DEF AfterGroup, At
<1>7. AfterJoin(n) => Q
  BY <1>2, <1>6 DEF AfterJoin
<1>8. Dispatch(n) => Q
  BY <1>2, <1>3 DEF Dispatch
<1> HIDE DEF Q
<1>9. SUFFICES Q
  BY DEF Q
<1>c1. CASE Connect(n)
  BY <1>c1, <1>3, <1>8 DEF Connect
<1>c2. CASE IsCluster(n) \/ IsNode(n) \/ InitCheck(n)
  BY <1>c2, <1>2, <1>3, <1>5 DEF IsCluster, IsNode, InitCheck
<1>c3. CASE ClusterWait(n)
  BY <1>c3, <1>2, <1>3, <1>4 DEF ClusterWait
<1>c4. CASE NodeInit(n) \/ ExternalIp(n)
  BY <1>c4, <1>2, <1>3, <1>5 DEF NodeInit, ExternalIp
<1>c5. CASE ClusterUpdate(n) \/ IsGroup(n) \/ CreateGroup(n)
  BY <1>c5, <1>2, <1>3 DEF ClusterUpdate, IsGroup, CreateGroup
<1>c6. CASE ClusterInit(n) \/ ServerAdd(n)
  BY <1>c6, <1>3, <1>7 DEF ClusterInit, ServerAdd
<1>c7. CASE GetNodeGroup(n)
  <2>1. ASSUME UNCHANGED <<cmd, result>> PROVE Q
    BY <2>1 DEF Q
  <2> QED BY <1>c7, <2>1, <1>3, <1>6 DEF GetNodeGroup
<1>c8. CASE MoveGroup(n)
  BY <1>c8, <1>3, <1>4, <1>6 DEF MoveGroup
<1>c9. CASE CaLoad(n)
  BY <1>c9, <1>2, <1>3 DEF CaLoad
<1>c10. CASE CertWait(n)
  BY <1>c10, <1>2, <1>3, <1>4 DEF CertWait
<1>c11. CASE NodeCertUpdate(n)
  BY <1>c11, <1>2, <1>3 DEF NodeCertUpdate
<1>c12. CASE ReloadNodeCert(n)
  <2>1. PICK o \in Outcomes(TRUE) :
          /\ IF Applied(o) THEN ReloadCertificateEffect(n, CaKey[n])
             ELSE UNCHANGED service
          /\ Exit(n, IF o # "ok" THEN "error"
                     ELSE IF cmd[n] = "node_cert" THEN "done" ELSE "success")
    BY <1>c12 DEF ReloadNodeCert
  <2>2. CASE o # "ok"
    BY <2>1, <2>2, <1>3
  <2>3. CASE o = "ok"
    <3>1. nodeCert' = [nodeCert EXCEPT ![n] = CaKey[n]]
      BY <2>1, <2>3 DEF Applied, ReloadCertificateEffect
    <3>2. nodeCert'[n] = CaKey[n]
      BY <3>1 DEF TypeOK, ServiceTypeOK
    <3>3. cmd'[n] = cmd[n]
      BY <2>1 DEF Exit
    <3> QED BY <3>2, <3>3 DEF Q
  <2> QED BY <2>2, <2>3
<1>c13. CASE Rebalance(n)
  BY <1>c13, <1>3, <1>4 DEF Rebalance
<1>c14. CASE CertAuth(n)
  BY <1>c14, <1>3 DEF CertAuth
<1> QED
  BY <1>c1, <1>c2, <1>c3, <1>c4, <1>c5, <1>c6, <1>c7, <1>c8, <1>c9, <1>c10,
     <1>c11, <1>c12, <1>c13, <1>c14 DEF Step

LEMMA NextCertified ==
    ASSUME TypeOK, [Next]_vars, NEW m \in Nodes, CertifiedInv(m)
    PROVE  CertifiedInv(m)'
<1>1. ASSUME NEW n \in Nodes, Step(n) PROVE CertifiedInv(m)'
  <2>1. nodeCert'[m] = nodeCert[m] \/ nodeCert'[m] = CaKey[m]
    BY <1>1, CertKept
  <2>2. CASE m # n
    <3>1. cmd'[m] = cmd[m] /\ result'[m] = result[m]
      BY <1>1, <2>2, StepRun DEF RunOnlyAt
    <3> QED BY <2>1, <3>1 DEF CertifiedInv, HasCaMaterials
  <2>3. CASE m = n /\ result'[n] = "success"
    <3>1. /\ cmd'[n] = cmd[n]
          /\ result[n] = "success" \/ AfterGroup(n) \/ nodeCert'[n] = CaKey[n]
      BY <1>1, <2>3, SuccessFrom
    <3>2. CASE AfterGroup(n)
      <4>1. \/ ~At(n, "ca_load", result[n]) /\ ~At(n, "node_cert", result[n])
            \/ result[n] = "success"
        BY <2>3 DEF At
      <4>2. CASE result[n] = "success"
        BY <2>1, <2>3, <3>1, <4>2 DEF CertifiedInv, HasCaMaterials
      <4>3. CASE result[n] # "success"
        <5>1. ~Goto(n, "ca_load") /\ ~Goto(n, "node_cert")
          BY <4>1, <4>3, Lands DEF TypeOK
        <5> QED BY <2>3, <3>1, <3>2, <5>1
                DEF AfterGroup, CertifiedInv, HasCaMaterials
      <4> QED BY <4>2, <4>3
    <3>3. CASE result[n] = "success" \/ nodeCert'[n] = CaKey[n]
      BY <2>1, <2>3, <3>1, <3>3 DEF CertifiedInv, HasCaMaterials
    <3> QED BY <3>1, <3>2, <3>3
  <2>4. CASE m = n /\ result'[n] # "success"
    BY <2>4 DEF CertifiedInv
  <2> QED BY <2>2, <2>3, <2>4
<1>2. ASSUME NEW n \in Nodes, Invoke(n) \/ Break(n) PROVE CertifiedInv(m)'
  <2>1. /\ nodeCert' = nodeCert
        /\ result'[m] = "success" => cmd'[m] = cmd[m] /\ result[m] = "success"
    BY <1>2 DEF Invoke, Break, Exit, service, certs, TypeOK, RunTypeOK
  <2> QED BY <2>1 DEF CertifiedInv, HasCaMaterials
<1>3. CASE UNCHANGED vars
  BY <1>3 DEF vars, service, certs, run, CertifiedInv, HasCaMaterials
<1> QED BY <1>1, <1>2, <1>3 DEF Next

\* create_cluster and add_node report success on a node with CA materials of
\* its own only once the node serves a certificate signed with its key.
THEOREM SuccessIsCertified == Spec => []SuccessCertified
<1> DEFINE I == TypeOK /\ \A m \in Nodes : CertifiedInv(m)
<1>1. Init => I
  BY InitTypes DEF Init, CertifiedInv
<1>2. I /\ [Next]_vars => I'
  BY NextTypes, NextCertified
<1>3. I => SuccessCertified
  BY DEF CertifiedInv, SuccessCertified
<1> QED BY <1>1, <1>2, <1>3, PTL DEF Spec

-----------------------------------------------------------------------------
(* Community Edition.                                                      *)

\* The labels only an Enterprise run reaches.
EnterprisePath == GroupPath \cup
    {"ca_load", "cert_wait", "node_cert", "reload_cert", "rebalance", "cert_auth"}

\* The Enterprise features as the service was installed with them.
Pristine ==
    /\ groups = [m \in Nodes |-> {DefaultGroup}]
    /\ caId = [m \in Nodes |-> [ca \in CAs |-> 0]]
    /\ nodeCert = [m \in Nodes |-> None]
    /\ clientAuth = {}

CommunityInv ==
    Community => Pristine /\ \A m \in Nodes : pc[m] \notin EnterprisePath

\* No command of swmgr enters the Enterprise part of a run.
LEMMA CommunityStep ==
    ASSUME TypeOK, Community, NEW n \in Nodes, Step(n),
           pc[n] \notin EnterprisePath
    PROVE  /\ UNCHANGED <<groups, caId, nodeCert, clientAuth>>
           /\ pc'[n] \notin EnterprisePath
<1> USE DEF EnterprisePath, GroupPath
<1> DEFINE Q == pc'[n] \notin EnterprisePath
           S == UNCHANGED <<groups, caId, nodeCert, clientAuth>>
<1>1. RunTypeOK
  BY DEF TypeOK
<1>2. \A l : Goto(n, l) /\ l \notin EnterprisePath => Q
  BY <1>1, Lands DEF At
<1>3. \A o : Exit(n, o) => Q
  BY <1>1, Lands DEF At
<1>4. \A o, k : Retry(n, k, o) => Q
  BY <1>1, Lands DEF At
<1>5. AfterNodeInit(n) => Q
  BY <1>2 DEF AfterNodeInit
<1>6. AfterGroup(n) => Q
  BY <1>3 DEF AfterGroup
<1>7. AfterJoin(n) => Q
  BY <1>6 DEF AfterJoin
<1>8. Dispatch(n) => Q
  BY <1>2, <1>3 DEF Dispatch, Skipped
<1>9. /\ UNCHANGED service => S
      /\ NodeInitEffect(n) => S
      /\ AlternateAddressEffect(n) => S
      /\ ClusterInitEffect(rally[n]) => S
      /\ ServerAddEffect(n, rally[n]) => S
  BY DEF service, membership, nodeState, certs, NodeInitEffect,
         AlternateAddressEffect, ClusterInitEffect, ServerAddEffect
<1>10. /\ "init_check" \notin EnterprisePath /\ "node_init" \notin EnterprisePath
       /\ "external_ip" \notin EnterprisePath
       /\ "cluster_wait" \notin EnterprisePath
       /\ "server_add" \notin EnterprisePath
  OBVIOUS
<1>11. \/ Connect(n) \/ IsCluster(n) \/ IsNode(n) \/ ClusterWait(n)
       \/ InitCheck(n) \/ NodeInit(n) \/ ExternalIp(n)
       \/ ClusterUpdate(n) \/ ClusterInit(n) \/ ServerAdd(n)
  BY DEF Step, GetNodeGroup, IsGroup, CreateGroup, MoveGroup, CaLoad, CertWait,
         NodeCertUpdate, ReloadNodeCert, Rebalance, CertAuth
<1> HIDE DEF Q, S, EnterprisePath, GroupPath
<1>c1. CASE Connect(n)
  BY <1>c1, <1>3, <1>8, <1>9 DEF Connect, Q, S
<1>c2. CASE IsCluster(n) \/ IsNode(n) \/ InitCheck(n)
  BY <1>c2, <1>2, <1>3, <1>5, <1>9, <1>10
     DEF IsCluster, IsNode, InitCheck, Q, S
<1>c3. CASE ClusterWait(n)
  BY <1>c3, <1>2, <1>3, <1>4, <1>9, <1>10 DEF ClusterWait, Q, S
<1>c4. CASE NodeInit(n) \/ ExternalIp(n)
  BY <1>c4, <1>2, <1>3, <1>5, <1>9, <1>10 DEF NodeInit, ExternalIp, Q, S
<1>c5. CASE ClusterUpdate(n)
  BY <1>c5, <1>2, <1>3, <1>9, <1>10 DEF ClusterUpdate, Q, S
<1>c6. CASE ClusterInit(n) \/ ServerAdd(n)
  BY <1>c6, <1>3, <1>7, <1>9 DEF ClusterInit, ServerAdd, Q, S
<1> QED BY <1>11, <1>c1, <1>c2, <1>c3, <1>c4, <1>c5, <1>c6

LEMMA NextCommunity == TypeOK /\ CommunityInv /\ [Next]_vars => CommunityInv'
<1> SUFFICES ASSUME TypeOK, CommunityInv, [Next]_vars, Community
             PROVE  Pristine' /\ \A m \in Nodes : pc'[m] \notin EnterprisePath
  BY DEF CommunityInv
<1>1. Pristine /\ \A m \in Nodes : pc[m] \notin EnterprisePath
  BY DEF CommunityInv
<1>2. UNCHANGED <<groups, caId, nodeCert, clientAuth>> => Pristine'
  BY <1>1 DEF Pristine
<1>3. ASSUME NEW n \in Nodes, Step(n)
      PROVE  Pristine' /\ \A m \in Nodes : pc'[m] \notin EnterprisePath
  BY <1>1, <1>2, <1>3, CommunityStep, StepRun DEF RunOnlyAt
<1>4. ASSUME NEW n \in Nodes, Invoke(n) \/ Break(n)
      PROVE  Pristine' /\ \A m \in Nodes : pc'[m] \notin EnterprisePath
  <2>1. UNCHANGED service
    BY <1>4 DEF Invoke, Break
  <2>2. \A m \in Nodes : pc'[m] \in {pc[m], "connect", "idle"}
    BY <1>4 DEF Invoke, Break, Exit, TypeOK, RunTypeOK
  <2> QED BY <1>1, <1>2, <2>1, <2>2
          DEF service, membership, certs, EnterprisePath, GroupPath
<1>5. CASE UNCHANGED vars
  BY <1>1, <1>2, <1>5 DEF vars, service, membership, certs, run
<1> QED BY <1>3, <1>4, <1>5 DEF Next

\* On Community Edition no run of any command touches server groups, trusted
\* authorities, node certificates or client authentication.
THEOREM CommunityIsUntouched == Spec => []CommunityUntouched
<1>1. Init => CommunityInv
  BY DEF Init, ServiceInit, CommunityInv, Pristine, EnterprisePath, GroupPath
<1>2. TypeOK /\ CommunityInv => CommunityUntouched
  BY DEF CommunityInv, Pristine, CommunityUntouched, Trusted, Store, TypeOK,
         ServiceTypeOK
<1> QED BY <1>1, <1>2, NextCommunity, TypeCorrect, PTL DEF Spec
=============================================================================
