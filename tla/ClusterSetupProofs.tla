------------------------- MODULE ClusterSetupProofs -------------------------
(***************************************************************************)
(* Theorems about ClusterSetup for any number of nodes, any configuration  *)
(* of them and any number of faults.                                       *)
(***************************************************************************)
EXTENDS ClusterSetupRefines, TLAPS

-----------------------------------------------------------------------------
(* The inductive invariant, node by node.                                  *)

\* The label a run is at tells which command it executes.
CommandInv(m) ==
    /\ cmd[m] = "create" => rally[m] = m
    /\ pc[m] \in {"is_cluster", "cluster_init"} => cmd[m] = "create"
    /\ pc[m] \in {"is_node", "cluster_update", "server_add"} => cmd[m] = "add"
    /\ pc[m] \in {"init_check", "node_init"} \cup GroupPath
         => cmd[m] \in {"create", "add"}
    /\ pc[m] = "external_ip" => cmd[m] \in {"create", "add", "update"}
    /\ pc[m] = "cluster_wait" => cmd[m] \in {"add", "wait"}
    /\ pc[m] \in {"ca_load", "cert_wait"} => cmd[m] \in {"create", "ca_cert"}
    /\ pc[m] \in {"node_cert", "reload_cert"}
         => cmd[m] \in {"create", "add", "node_cert"}
    /\ pc[m] \in GroupPath => ~Community
    /\ pc[m] # "idle" => result[m] = "none"

\* Nothing joins before it is prepared.
PreparedInv(m) ==
    /\ pc[m] = "external_ip" /\ cmd[m] # "update" => m \in nodeInit
    /\ pc[m] \in {"cluster_init", "cluster_update", "server_add"} => Prepared(m)
    /\ clusterOf[m] # None => Prepared(m)

\* What a run has behind it once its node has joined.
JoinedInv(m) ==
    /\ pc[m] \in GroupPath => Member(m, rally[m])
    /\ pc[m] \in {"ca_load", "cert_wait", "node_cert", "reload_cert"}
         /\ cmd[m] \in {"create", "add"} => Member(m, rally[m]) /\ Placed(m)
    /\ result[m] = "success" => Member(m, rally[m]) /\ Placed(m)

\* The group node_change_group read is the node's group up to the move.
GroupInv(m) ==
    /\ pc[m] \in {"is_group", "create_group"} => from[m] = groupOf[m]
    /\ pc[m] = "move" => /\ GroupExists(m)
                         /\ groupOf[m] \in {from[m], ServerGroup[m]}

NodeInv(m) == CommandInv(m) /\ PreparedInv(m) /\ JoinedInv(m) /\ GroupInv(m)

IInv == TypeOK /\ \A m \in Nodes : NodeInv(m)

-----------------------------------------------------------------------------
(* Types.                                                                  *)

\* Every command of the service keeps its state well typed.
LEMMA EffectTypes ==
    ASSUME ServiceTypeOK, NEW n \in Nodes, NEW r \in Nodes
    PROVE  /\ UNCHANGED service => ServiceTypeOK'
           /\ NodeInitEffect(n) => ServiceTypeOK'
           /\ AlternateAddressEffect(n) => ServiceTypeOK'
           /\ ClusterInitEffect(r) => ServiceTypeOK'
           /\ ServerAddEffect(n, r) => ServiceTypeOK'
           /\ \A g \in Groups : GroupCreateEffect(r, g) => ServiceTypeOK'
           /\ \A g \in Groups : MoveEffect(n, g) => ServiceTypeOK'
           /\ RebalanceEffect(r) => ServiceTypeOK'
           /\ \A ca : LoadTrustedEffect(n, ca) => ServiceTypeOK'
           /\ \A ca \in CAs \cup {None} :
                ReloadCertificateEffect(n, ca) => ServiceTypeOK'
           /\ Initialized(r) /\ ClientAuthEffect(r) => ServiceTypeOK'
<1> USE DEF ServiceTypeOK, service, membership, nodeState, certs
<1>1. UNCHANGED service => ServiceTypeOK'
  OBVIOUS
<1>2. NodeInitEffect(n) => ServiceTypeOK'
  BY DEF NodeInitEffect
<1>3. AlternateAddressEffect(n) => ServiceTypeOK'
  BY DEF AlternateAddressEffect
<1>4. ClusterInitEffect(r) => ServiceTypeOK'
  BY DefaultGroupAssumption DEF ClusterInitEffect
<1>5. ServerAddEffect(n, r) => ServiceTypeOK'
  BY DefaultGroupAssumption DEF ServerAddEffect
<1>6. \A g \in Groups : GroupCreateEffect(r, g) => ServiceTypeOK'
  <2> SUFFICES ASSUME NEW g \in Groups, GroupCreateEffect(r, g)
               PROVE  ServiceTypeOK'
    OBVIOUS
  <2>1. groups' \in [Nodes -> SUBSET Groups]
    <3>1. CASE clusterOf[r] \in Nodes
      BY <3>1 DEF GroupCreateEffect
    <3>2. CASE clusterOf[r] \notin Nodes
      BY <3>2 DEF GroupCreateEffect
    <3> QED BY <3>1, <3>2
  <2> QED BY <2>1 DEF GroupCreateEffect
<1>7. \A g \in Groups : MoveEffect(n, g) => ServiceTypeOK'
  BY DEF MoveEffect
<1>8. RebalanceEffect(r) => ServiceTypeOK'
  BY DEF RebalanceEffect
<1>9. \A ca : LoadTrustedEffect(n, ca) => ServiceTypeOK'
  <2> SUFFICES ASSUME NEW ca, LoadTrustedEffect(n, ca)
               PROVE  ServiceTypeOK'
    OBVIOUS
  <2>1. ca \in CAs => LoadedId(n, ca) \in 0..2
    BY DEF LoadedId, Store
  <2>2. caId' \in [Nodes -> [CAs -> 0..2]]
    <3>1. CASE ca \in CAs
      BY <2>1, <3>1 DEF LoadTrustedEffect, Store
    <3>2. CASE ca \notin CAs
      BY <3>2 DEF LoadTrustedEffect, Store
    <3> QED BY <3>1, <3>2
  <2> QED BY <2>2 DEF LoadTrustedEffect
<1>10. \A ca \in CAs \cup {None} : ReloadCertificateEffect(n, ca) => ServiceTypeOK'
  BY DEF ReloadCertificateEffect
<1>11. Initialized(r) /\ ClientAuthEffect(r) => ServiceTypeOK'
  BY DEF ClientAuthEffect, Initialized
<1> QED BY <1>1, <1>2, <1>3, <1>4, <1>5, <1>6, <1>7, <1>8, <1>9, <1>10, <1>11

\* Wherever a step sends the run, the run stays well typed.
LEMMA ControlTypes ==
    ASSUME RunTypeOK, NEW n \in Nodes
    PROVE  /\ \A l \in Labels : Goto(n, l) => RunTypeOK'
           /\ \A o \in Results : Exit(n, o) => RunTypeOK'
           /\ \A o \in Results, k \in Nat : Retry(n, k, o) => RunTypeOK'
           /\ AfterNodeInit(n) => RunTypeOK'
           /\ AfterGroup(n) => RunTypeOK'
           /\ AfterJoin(n) => RunTypeOK'
           /\ Dispatch(n) => RunTypeOK'
<1> USE DEF Labels, CreatePath, AddPath, NodePath, GroupPath, Results
<1>1. \A l \in Labels : Goto(n, l) => RunTypeOK'
  BY DEF RunTypeOK, Goto
<1>2. \A o \in Results : Exit(n, o) => RunTypeOK'
  BY DEF RunTypeOK, Exit
<1>3. \A o \in Results, k \in Nat : Retry(n, k, o) => RunTypeOK'
  BY <1>2 DEF RunTypeOK, Retry
<1>4. AfterNodeInit(n) => RunTypeOK'
  BY <1>1 DEF AfterNodeInit
<1>5. AfterGroup(n) => RunTypeOK'
  BY <1>1, <1>2 DEF AfterGroup
<1>6. AfterJoin(n) => RunTypeOK'
  BY <1>1, <1>5 DEF AfterJoin
<1>7. Dispatch(n) => RunTypeOK'
  BY <1>1, <1>2 DEF Dispatch
<1> QED BY <1>1, <1>2, <1>3, <1>4, <1>5, <1>6, <1>7

\* Any step of a run keeps the state well typed.
LEMMA StepTypes ==
    ASSUME TypeOK, NEW n \in Nodes, Step(n)
    PROVE  TypeOK'
<1> DEFINE r == rally[n]
<1>1. /\ ServiceTypeOK /\ RunTypeOK /\ faults \in Nat
      /\ r \in Nodes
      /\ ServerGroup[n] \in Groups
  BY NodeConfigAssumption DEF TypeOK, RunTypeOK
<1>2. \A o : Charge(o) => faults' \in Nat
  BY <1>1 DEF Charge
<1>3. /\ GroupRetries \in Nat /\ RebalanceRetries \in Nat
      /\ WaitRetries \in Nat /\ CertRetries - 1 \in Nat
  BY BoundsAssumption
<1>4. /\ UNCHANGED service => ServiceTypeOK'
      /\ NodeInitEffect(n) => ServiceTypeOK'
      /\ AlternateAddressEffect(n) => ServiceTypeOK'
      /\ ClusterInitEffect(r) => ServiceTypeOK'
      /\ ServerAddEffect(n, r) => ServiceTypeOK'
      /\ GroupCreateEffect(r, ServerGroup[n]) => ServiceTypeOK'
      /\ MoveEffect(n, ServerGroup[n]) => ServiceTypeOK'
      /\ RebalanceEffect(r) => ServiceTypeOK'
      /\ \A ca : LoadTrustedEffect(n, ca) => ServiceTypeOK'
      /\ \A ca \in CAs \cup {None} :
                ReloadCertificateEffect(n, ca) => ServiceTypeOK'
      /\ Initialized(r) /\ ClientAuthEffect(r) => ServiceTypeOK'
  BY <1>1, EffectTypes
<1>5. /\ \A l \in Labels : Goto(n, l) => RunTypeOK'
      /\ \A o \in Results : Exit(n, o) => RunTypeOK'
      /\ \A o \in Results, k \in Nat : Retry(n, k, o) => RunTypeOK'
      /\ AfterNodeInit(n) => RunTypeOK'
      /\ AfterGroup(n) => RunTypeOK'
      /\ AfterJoin(n) => RunTypeOK'
      /\ Dispatch(n) => RunTypeOK'
  BY <1>1, ControlTypes
<1>6. /\ {"idle", "init_check", "node_init", "external_ip", "cluster_wait",
          "server_add", "create_group", "move", "cert_wait", "node_cert",
          "reload_cert"}
            \subseteq Labels
      /\ {"success", "already", "done", "error", "wait_error", "group_error"}
            \subseteq Results
  BY DEF Labels, CreatePath, AddPath, NodePath, GroupPath, Results
<1>7. SUFFICES ServiceTypeOK' /\ RunTypeOK' /\ faults' \in Nat
  BY DEF TypeOK
<1>c1. CASE Connect(n)
  BY <1>c1, <1>2, <1>4, <1>5, <1>6 DEF Connect
<1>c2. CASE IsCluster(n)
  BY <1>c2, <1>2, <1>4, <1>5, <1>6 DEF IsCluster
<1>c3. CASE IsNode(n)
  BY <1>c3, <1>2, <1>4, <1>5, <1>6 DEF IsNode
<1>c4. CASE ClusterWait(n)
  BY <1>c4, <1>2, <1>3, <1>4, <1>5, <1>6 DEF ClusterWait
<1>c5. CASE InitCheck(n)
  BY <1>c5, <1>2, <1>4, <1>5, <1>6 DEF InitCheck
<1>c6. CASE NodeInit(n)
  BY <1>c6, <1>2, <1>4, <1>5, <1>6 DEF NodeInit
<1>c7. CASE ExternalIp(n)
  BY <1>c7, <1>2, <1>4, <1>5, <1>6 DEF ExternalIp
<1>c8. CASE ClusterUpdate(n)
  BY <1>c8, <1>2, <1>4, <1>5, <1>6 DEF ClusterUpdate
<1>c9. CASE ClusterInit(n)
  BY <1>c9, <1>2, <1>4, <1>5, <1>6 DEF ClusterInit
<1>c10. CASE ServerAdd(n)
  BY <1>c10, <1>2, <1>4, <1>5, <1>6 DEF ServerAdd
<1>c11. CASE GetNodeGroup(n)
  <2>1. NodeGroupSeen(n) \in Groups \cup {None}
    BY <1>1 DEF NodeGroupSeen, ServiceTypeOK
  <2>2. ASSUME pc' = [pc EXCEPT ![n] = "is_group"],
               from' = [from EXCEPT ![n] = NodeGroupSeen(n)],
               UNCHANGED <<cmd, rally, tries, result, runs>>
        PROVE  RunTypeOK'
    BY <1>1, <2>1, <2>2 DEF RunTypeOK, Labels, GroupPath
  <2> QED BY <1>c11, <2>2, <1>2, <1>4, <1>5, <1>6 DEF GetNodeGroup
<1>c12. CASE IsGroup(n)
  BY <1>c12, <1>2, <1>4, <1>5, <1>6 DEF IsGroup
<1>c13. CASE CreateGroup(n)
  BY <1>c13, <1>2, <1>4, <1>5, <1>6 DEF CreateGroup
<1>c14. CASE MoveGroup(n)
  BY <1>c14, <1>1, <1>2, <1>3, <1>4, <1>5, <1>6 DEF MoveGroup
<1>c15. CASE CaLoad(n)
  <2>1. CASE CaKey[n] # CaCert[n]
    BY <1>c15, <2>1, <1>4, <1>5, <1>6, <1>1 DEF CaLoad
  <2>2. CASE CaKey[n] = CaCert[n]
    <3>1. PICK o \in Outcomes(TRUE) :
            /\ Charge(o)
            /\ IF Applied(o) THEN LoadTrustedEffect(n, CaCert[n])
               ELSE UNCHANGED service
            /\ IF o = "ok" /\ LoadedId(n, CaCert[n]) = 1
               THEN Goto(n, "cert_wait") ELSE Exit(n, "error")
      BY <1>c15, <2>2 DEF CaLoad
    <3> QED BY <3>1, <1>2, <1>4, <1>5, <1>6
  <2> QED BY <2>1, <2>2
<1>c16. CASE CertWait(n)
  BY <1>c16, <1>2, <1>3, <1>4, <1>5, <1>6 DEF CertWait
<1>c17. CASE NodeCertUpdate(n)
  BY <1>c17, <1>2, <1>4, <1>5, <1>6 DEF NodeCertUpdate
<1>c20. CASE ReloadNodeCert(n)
  BY <1>c20, <1>2, <1>4, <1>5, <1>6, NodeConfigAssumption DEF ReloadNodeCert
<1>c18. CASE Rebalance(n)
  BY <1>c18, <1>2, <1>3, <1>4, <1>5, <1>6 DEF Rebalance
<1>c19. CASE CertAuth(n)
  <2>1. \A o \in Outcomes(Initialized(r)) : Applied(o) => Initialized(r)
    BY DEF Outcomes, Applied
  <2> QED BY <1>c19, <2>1, <1>2, <1>4, <1>5, <1>6 DEF CertAuth
<1> QED BY <1>c1, <1>c2, <1>c3, <1>c4, <1>c5, <1>c6, <1>c7, <1>c8, <1>c9,
           <1>c10, <1>c11, <1>c12, <1>c13, <1>c14, <1>c15, <1>c16, <1>c17,
           <1>c18, <1>c19, <1>c20 DEF Step

\* swmgr and the service never leave the declared domains.
LEMMA NextTypes == TypeOK /\ [Next]_vars => TypeOK'
<1> SUFFICES ASSUME TypeOK, [Next]_vars PROVE TypeOK'
  OBVIOUS
<1>1. CASE UNCHANGED vars
  BY <1>1 DEF TypeOK, ServiceTypeOK, RunTypeOK, vars, service, membership,
              nodeState, certs, run
<1>2. CASE \E n \in Nodes : Step(n)
  BY <1>2, StepTypes
<1>3. CASE \E n \in Nodes : Invoke(n)
  <2> PICK n \in Nodes : Invoke(n)
    BY <1>3
  <2>1. ServiceTypeOK'
    BY EffectTypes DEF Invoke, TypeOK
  <2>2. RunTypeOK'
    BY CallsAssumption DEF Invoke, TypeOK, RunTypeOK, Labels, Results
  <2> QED BY <2>1, <2>2 DEF Invoke, TypeOK
<1>4. CASE \E n \in Nodes : Break(n)
  <2> PICK n \in Nodes : Break(n)
    BY <1>4
  <2>1. ServiceTypeOK'
    BY EffectTypes DEF Break, TypeOK
  <2>2. RunTypeOK'
    BY ControlTypes DEF Break, TypeOK, Results
  <2> QED BY <2>1, <2>2 DEF Break, TypeOK
<1> QED BY <1>1, <1>2, <1>3, <1>4 DEF Next

\* Freshly installed nodes without a run are well typed.
LEMMA InitTypes == Init => TypeOK
BY DefaultGroupAssumption
   DEF Init, ServiceInit, TypeOK, ServiceTypeOK, RunTypeOK, Labels, Commands,
       Results

\* Type correctness: every state swmgr can bring the nodes into is one the
\* model declares, for every configuration.
THEOREM TypeCorrect == Spec => []TypeOK
BY InitTypes, NextTypes, PTL DEF Spec

-----------------------------------------------------------------------------
(* What a step of one node leaves to the others.                           *)

\* Membership, preparation and groups only grow.
Grows ==
    /\ \A m \in Nodes : clusterOf[m] # None => clusterOf'[m] = clusterOf[m]
    /\ nodeInit \subseteq nodeInit'
    /\ altAddr \subseteq altAddr'
    /\ \A c \in Nodes : groups[c] \subseteq groups'[c]

\* The run, the preparation, the membership and the group of the other nodes
\* stay.
ServiceOnlyAt(n) ==
    \A m \in Nodes \ {n} :
        /\ clusterOf'[m] = clusterOf[m] /\ groupOf'[m] = groupOf[m]
        /\ m \in nodeInit' <=> m \in nodeInit
        /\ m \in altAddr' <=> m \in altAddr
RunOnlyAt(n) ==
    \A m \in Nodes \ {n} :
        /\ pc'[m] = pc[m] /\ cmd'[m] = cmd[m] /\ rally'[m] = rally[m]
        /\ from'[m] = from[m] /\ result'[m] = result[m]

LEMMA EffectsGrow ==
    ASSUME ServiceTypeOK, NEW n \in Nodes, NEW r \in Nodes
    PROVE  /\ UNCHANGED service => Grows /\ ServiceOnlyAt(n)
           /\ NodeInitEffect(n) => Grows /\ ServiceOnlyAt(n)
           /\ AlternateAddressEffect(n) => Grows /\ ServiceOnlyAt(n)
           /\ ClusterInitAccepted(r) /\ ClusterInitEffect(r) /\ r = n
                => Grows /\ ServiceOnlyAt(n)
           /\ ServerAddAccepted(n, r) /\ ServerAddEffect(n, r)
                => Grows /\ ServiceOnlyAt(n)
           /\ \A g \in Groups : GroupCreateEffect(r, g)
                => Grows /\ ServiceOnlyAt(n)
           /\ \A g \in Groups : MoveEffect(n, g) => Grows /\ ServiceOnlyAt(n)
           /\ RebalanceEffect(r) => Grows /\ ServiceOnlyAt(n)
           /\ \A ca : LoadTrustedEffect(n, ca) => Grows /\ ServiceOnlyAt(n)
           /\ \A ca : ReloadCertificateEffect(n, ca) => Grows /\ ServiceOnlyAt(n)
           /\ ClientAuthEffect(r) => Grows /\ ServiceOnlyAt(n)
<1> USE DEF ServiceTypeOK, service, membership, nodeState, certs, Grows,
            ServiceOnlyAt
<1>1. UNCHANGED service => Grows /\ ServiceOnlyAt(n)
  OBVIOUS
<1>2. NodeInitEffect(n) => Grows /\ ServiceOnlyAt(n)
  BY DEF NodeInitEffect
<1>3. AlternateAddressEffect(n) => Grows /\ ServiceOnlyAt(n)
  BY DEF AlternateAddressEffect
<1>4. ClusterInitAccepted(r) /\ ClusterInitEffect(r) /\ r = n
        => Grows /\ ServiceOnlyAt(n)
  BY DEF ClusterInitEffect, ClusterInitAccepted
<1>5. ServerAddAccepted(n, r) /\ ServerAddEffect(n, r)
        => Grows /\ ServiceOnlyAt(n)
  BY DEF ServerAddEffect, ServerAddAccepted
<1>6. \A g \in Groups : GroupCreateEffect(r, g) => Grows /\ ServiceOnlyAt(n)
  BY DEF GroupCreateEffect
<1>7. \A g \in Groups : MoveEffect(n, g) => Grows /\ ServiceOnlyAt(n)
  BY DEF MoveEffect
<1>8. RebalanceEffect(r) => Grows /\ ServiceOnlyAt(n)
  BY DEF RebalanceEffect
<1>9. \A ca : LoadTrustedEffect(n, ca) => Grows /\ ServiceOnlyAt(n)
  BY DEF LoadTrustedEffect
<1>10. \A ca : ReloadCertificateEffect(n, ca) => Grows /\ ServiceOnlyAt(n)
  BY DEF ReloadCertificateEffect
<1>11. ClientAuthEffect(r) => Grows /\ ServiceOnlyAt(n)
  BY DEF ClientAuthEffect
<1> QED BY <1>1, <1>2, <1>3, <1>4, <1>5, <1>6, <1>7, <1>8, <1>9, <1>10, <1>11

LEMMA ControlOnlyAt ==
    ASSUME RunTypeOK, NEW n \in Nodes
    PROVE  /\ \A l : Goto(n, l) => RunOnlyAt(n)
           /\ \A o : Exit(n, o) => RunOnlyAt(n)
           /\ \A o, k : Retry(n, k, o) => RunOnlyAt(n)
           /\ AfterNodeInit(n) => RunOnlyAt(n)
           /\ AfterGroup(n) => RunOnlyAt(n)
           /\ AfterJoin(n) => RunOnlyAt(n)
           /\ Dispatch(n) => RunOnlyAt(n)
<1>1. \A l : Goto(n, l) => RunOnlyAt(n)
  BY DEF RunTypeOK, Goto, RunOnlyAt
<1>2. \A o : Exit(n, o) => RunOnlyAt(n)
  BY DEF RunTypeOK, Exit, RunOnlyAt
<1>3. \A o, k : Retry(n, k, o) => RunOnlyAt(n)
  BY <1>2 DEF RunTypeOK, Retry, RunOnlyAt
<1>4. AfterNodeInit(n) => RunOnlyAt(n)
  BY <1>1 DEF AfterNodeInit
<1>5. AfterGroup(n) => RunOnlyAt(n)
  BY <1>1, <1>2 DEF AfterGroup
<1>6. AfterJoin(n) => RunOnlyAt(n)
  BY <1>1, <1>5 DEF AfterJoin
<1>7. Dispatch(n) => RunOnlyAt(n)
  BY <1>1, <1>2 DEF Dispatch
<1> QED BY <1>1, <1>2, <1>3, <1>4, <1>5, <1>6, <1>7

\* A step of one node keeps the invariant of another.
LEMMA OthersKeep ==
    ASSUME TypeOK, TypeOK', NEW n \in Nodes, NEW m \in Nodes, m # n,
           NodeInv(m), Grows, ServiceOnlyAt(n), RunOnlyAt(n)
    PROVE  NodeInv(m)'
<1>1. /\ pc'[m] = pc[m] /\ cmd'[m] = cmd[m] /\ rally'[m] = rally[m]
      /\ from'[m] = from[m] /\ result'[m] = result[m]
      /\ clusterOf'[m] = clusterOf[m] /\ groupOf'[m] = groupOf[m]
      /\ rally[m] \in Nodes
  BY DEF RunOnlyAt, ServiceOnlyAt, TypeOK, RunTypeOK
<1>2. CommandInv(m)'
  BY <1>1 DEF NodeInv, CommandInv
<1>3. Prepared(m) => Prepared(m)'
  BY DEF Grows, Prepared
<1>4. PreparedInv(m)'
  BY <1>1, <1>3 DEF NodeInv, PreparedInv, Grows
<1>5. Member(m, rally[m]) => Member(m, rally[m])'
  BY <1>1 DEF Member, Initialized, Grows
<1>6. Placed(m) => Placed(m)'
  BY <1>1 DEF Placed
<1>7. JoinedInv(m)'
  BY <1>1, <1>5, <1>6 DEF NodeInv, JoinedInv
<1>8. GroupExists(m) => GroupExists(m)'
  BY <1>1 DEF GroupExists, Initialized, Grows, TypeOK, ServiceTypeOK
<1>9. GroupInv(m)'
  BY <1>1, <1>8 DEF NodeInv, GroupInv
<1> QED BY <1>2, <1>4, <1>7, <1>9 DEF NodeInv

\* Every step makes at most one command of the service take effect, and one
\* the service accepts.
LEMMA StepEffects ==
    ASSUME NEW n \in Nodes, Step(n)
    PROVE  \/ UNCHANGED service
           \/ NodeInitEffect(n)
           \/ AlternateAddressEffect(n)
           \/ /\ pc[n] = "cluster_init" /\ ClusterInitAccepted(rally[n])
              /\ ClusterInitEffect(rally[n])
           \/ /\ pc[n] = "server_add" /\ ServerAddAccepted(n, rally[n])
              /\ ServerAddEffect(n, rally[n])
           \/ GroupCreateEffect(rally[n], ServerGroup[n])
           \/ Member(n, rally[n]) /\ MoveEffect(n, ServerGroup[n])
           \/ RebalanceEffect(rally[n])
           \/ LoadTrustedEffect(n, CaCert[n])
           \/ pc[n] = "reload_cert" /\ ReloadCertificateEffect(n, CaKey[n])
           \/ ClientAuthEffect(rally[n])
<1>1. \A accepted \in BOOLEAN : \A o \in Outcomes(accepted) :
        Applied(o) => accepted
  BY DEF Outcomes, Applied
<1>2. CASE \/ Connect(n) \/ IsCluster(n) \/ IsNode(n) \/ ClusterWait(n)
           \/ InitCheck(n) \/ ClusterUpdate(n) \/ GetNodeGroup(n)
           \/ IsGroup(n) \/ CertWait(n) \/ NodeCertUpdate(n)
  BY <1>2 DEF Connect, IsCluster, IsNode, ClusterWait, InitCheck,
              ClusterUpdate, GetNodeGroup, IsGroup, CertWait, NodeCertUpdate
<1>3. CASE NodeInit(n) \/ ExternalIp(n) \/ CreateGroup(n) \/ Rebalance(n)
           \/ CertAuth(n)
  BY <1>3 DEF NodeInit, ExternalIp, CreateGroup, Rebalance, CertAuth
<1>4. CASE ClusterInit(n)
  BY <1>1, <1>4 DEF ClusterInit, ClusterInitAccepted
<1>5. CASE ServerAdd(n)
  BY <1>1, <1>5 DEF ServerAdd, ServerAddAccepted
<1>6. CASE MoveGroup(n)
  BY <1>1, <1>6 DEF MoveGroup, MoveAccepted
<1>7. CASE CaLoad(n)
  <2>1. CASE CaKey[n] # CaCert[n]
    BY <1>7, <2>1 DEF CaLoad
  <2>2. CASE CaKey[n] = CaCert[n]
    BY <1>7, <2>2 DEF CaLoad
  <2> QED BY <2>1, <2>2
<1>8. CASE ReloadNodeCert(n)
  BY <1>8 DEF ReloadNodeCert
<1> QED BY <1>2, <1>3, <1>4, <1>5, <1>6, <1>7, <1>8 DEF Step

\* A step changes the run of its node alone, and only NodeCertUpdate leads
\* to ReloadNodeCert.
LEMMA StepRun ==
    ASSUME TypeOK, NEW n \in Nodes, Step(n)
    PROVE  RunOnlyAt(n) /\ (pc'[n] = "reload_cert" => NodeCertUpdate(n))
<1> DEFINE Q == RunOnlyAt(n) /\ pc'[n] # "reload_cert"
<1>1. RunTypeOK
  BY DEF TypeOK
<1>2. \A l : Goto(n, l) => RunOnlyAt(n) /\ pc'[n] = l
  BY <1>1, ControlOnlyAt DEF Goto, RunTypeOK
<1>3. \A o : Exit(n, o) => Q
  BY <1>1, ControlOnlyAt DEF Exit, RunTypeOK
<1>4. \A o, k : Retry(n, k, o) /\ pc[n] # "reload_cert" => Q
  BY <1>1, <1>3, ControlOnlyAt DEF Retry
<1>5. AfterNodeInit(n) => Q
  BY <1>2 DEF AfterNodeInit
<1>6. AfterGroup(n) => Q
  BY <1>2, <1>3 DEF AfterGroup
<1>7. AfterJoin(n) => Q
  BY <1>2, <1>6 DEF AfterJoin
<1>8. Dispatch(n) => Q
  BY <1>2, <1>3 DEF Dispatch
<1> HIDE DEF Q
<1>9. Q => RunOnlyAt(n) /\ (pc'[n] = "reload_cert" => NodeCertUpdate(n))
  BY DEF Q
<1>10. \A l : Goto(n, l) /\ l # "reload_cert" => Q
  BY <1>2 DEF Q
<1>c1. CASE Connect(n)
  BY <1>c1, <1>3, <1>8, <1>9 DEF Connect
<1>c2. CASE IsCluster(n) \/ IsNode(n) \/ InitCheck(n)
  BY <1>c2, <1>3, <1>5, <1>9, <1>10 DEF IsCluster, IsNode, InitCheck
<1>c3. CASE ClusterWait(n)
  BY <1>c3, <1>3, <1>4, <1>9, <1>10 DEF ClusterWait
<1>c4. CASE NodeInit(n) \/ ExternalIp(n)
  BY <1>c4, <1>3, <1>5, <1>9, <1>10 DEF NodeInit, ExternalIp
<1>c5. CASE ClusterUpdate(n) \/ IsGroup(n) \/ CreateGroup(n)
  BY <1>c5, <1>3, <1>9, <1>10 DEF ClusterUpdate, IsGroup, CreateGroup
<1>c6. CASE ClusterInit(n) \/ ServerAdd(n)
  BY <1>c6, <1>3, <1>7, <1>9 DEF ClusterInit, ServerAdd
<1>c7. CASE GetNodeGroup(n)
  <2>1. ASSUME pc' = [pc EXCEPT ![n] = "is_group"],
               from' = [from EXCEPT ![n] = NodeGroupSeen(n)],
               UNCHANGED <<cmd, rally, tries, result, runs>>
        PROVE  Q
    BY <1>1, <2>1 DEF RunTypeOK, RunOnlyAt, Q
  <2> QED BY <1>c7, <2>1, <1>3, <1>6, <1>9 DEF GetNodeGroup
<1>c8. CASE MoveGroup(n)
  BY <1>c8, <1>3, <1>4, <1>6, <1>9 DEF MoveGroup
<1>c9. CASE CaLoad(n)
  BY <1>c9, <1>3, <1>9, <1>10 DEF CaLoad
<1>c10. CASE CertWait(n)
  BY <1>c10, <1>3, <1>4, <1>9, <1>10 DEF CertWait
<1>c11. CASE NodeCertUpdate(n)
  BY <1>c11, <1>2, <1>3, <1>9 DEF NodeCertUpdate
<1>c12. CASE ReloadNodeCert(n) \/ CertAuth(n)
  BY <1>c12, <1>3, <1>9 DEF ReloadNodeCert, CertAuth
<1>c13. CASE Rebalance(n)
  BY <1>c13, <1>3, <1>4, <1>9 DEF Rebalance
<1> QED BY <1>c1, <1>c2, <1>c3, <1>c4, <1>c5, <1>c6, <1>c7, <1>c8, <1>c9,
           <1>c10, <1>c11, <1>c12, <1>c13 DEF Step

\* A step of a run touches the membership and the group of its node alone.
LEMMA StepFrame ==
    ASSUME TypeOK, NEW n \in Nodes, CommandInv(n), Step(n)
    PROVE  Grows /\ ServiceOnlyAt(n) /\ RunOnlyAt(n)
<1>1. /\ ServiceTypeOK /\ rally[n] \in Nodes /\ ServerGroup[n] \in Groups
  BY NodeConfigAssumption DEF TypeOK, RunTypeOK
<1>2. pc[n] = "cluster_init" => rally[n] = n
  BY DEF CommandInv
<1>3. Grows /\ ServiceOnlyAt(n)
  BY <1>1, <1>2, StepEffects, EffectsGrow
<1> QED BY <1>3, StepRun

-----------------------------------------------------------------------------
(* What a step does to the invariant of its own node.                      *)

\* The run of n is at l with result o, and is the same run.
At(n, l, o) ==
    /\ pc'[n] = l /\ result'[n] = o
    /\ cmd'[n] = cmd[n] /\ rally'[n] = rally[n] /\ from'[n] = from[n]

LEMMA Lands ==
    ASSUME RunTypeOK, NEW n \in Nodes
    PROVE  /\ \A l : Goto(n, l) => At(n, l, result[n])
           /\ \A o : Exit(n, o) => At(n, "idle", o)
           /\ \A o, k : Retry(n, k, o)
                => At(n, pc[n], result[n]) \/ At(n, "idle", o)
<1>1. \A l : Goto(n, l) => At(n, l, result[n])
  BY DEF RunTypeOK, Goto, At
<1>2. \A o : Exit(n, o) => At(n, "idle", o)
  BY DEF RunTypeOK, Exit, At
<1>3. \A o, k : Retry(n, k, o) => At(n, pc[n], result[n]) \/ At(n, "idle", o)
  BY <1>2 DEF RunTypeOK, Retry, At
<1> QED BY <1>1, <1>2, <1>3

\* A run that ends without success owes nothing but the preparation of its
\* node.
LEMMA EndKeeps ==
    ASSUME NEW n \in Nodes, NEW o, At(n, "idle", o), o # "success",
           NodeInv(n), (clusterOf[n] # None => Prepared(n))'
    PROVE  NodeInv(n)'
BY DEF At, NodeInv, CommandInv, PreparedInv, JoinedInv, GroupInv, GroupPath

\* A run that goes round its retry loop keeps what it had.
LEMMA StayKeeps ==
    ASSUME NEW n \in Nodes, At(n, pc[n], result[n]), UNCHANGED service,
           NodeInv(n)
    PROVE  NodeInv(n)'
<1> USE DEF service, membership, nodeState
<1>1. CommandInv(n)'
  BY DEF At, NodeInv, CommandInv
<1>2. PreparedInv(n)'
  BY DEF At, NodeInv, PreparedInv, Prepared
<1>3. JoinedInv(n)'
  BY DEF At, NodeInv, JoinedInv, Member, Initialized, Placed
<1>4. GroupInv(n)'
  BY DEF At, NodeInv, GroupInv, GroupExists, Initialized
<1> QED BY <1>1, <1>2, <1>3, <1>4 DEF NodeInv

\* AfterGroup goes on with certificates, or reports success.
LEMMA AfterGroupKeeps ==
    ASSUME RunTypeOK, NEW n \in Nodes, NodeInv(n), AfterGroup(n),
           cmd[n] \in {"create", "add"}, result[n] = "none",
           Member(n, rally[n])', Placed(n)', Prepared(n)'
    PROVE  NodeInv(n)'
<1>1. \/ At(n, "idle", "success")
      \/ At(n, "ca_load", "none") /\ cmd[n] = "create"
      \/ At(n, "node_cert", "none") /\ cmd[n] = "add"
  BY Lands DEF AfterGroup
<1>2. CommandInv(n)'
  BY <1>1 DEF At, NodeInv, CommandInv, GroupPath
<1>3. PreparedInv(n)'
  BY <1>1 DEF At, PreparedInv
<1>4. JoinedInv(n)'
  BY <1>1 DEF At, JoinedInv, GroupPath
<1>5. GroupInv(n)'
  BY <1>1 DEF At, GroupInv
<1> QED BY <1>2, <1>3, <1>4, <1>5 DEF NodeInv

\* AfterNodeInit goes on to the join of a prepared node.
LEMMA AfterNodeInitKeeps ==
    ASSUME RunTypeOK, NEW n \in Nodes, NodeInv(n), AfterNodeInit(n),
           cmd[n] \in {"create", "add"}, result[n] = "none", Prepared(n)'
    PROVE  NodeInv(n)'
<1>1. \/ At(n, "cluster_init", "none") /\ cmd[n] = "create"
      \/ At(n, "cluster_update", "none") /\ cmd[n] = "add"
      \/ At(n, "server_add", "none") /\ cmd[n] = "add"
  BY Lands DEF AfterNodeInit
<1>2. CommandInv(n)'
  BY <1>1 DEF At, NodeInv, CommandInv, GroupPath
<1>3. PreparedInv(n)'
  BY <1>1 DEF At, PreparedInv
<1>4. JoinedInv(n)'
  BY <1>1 DEF At, JoinedInv, GroupPath
<1>5. GroupInv(n)'
  BY <1>1 DEF At, GroupInv
<1> QED BY <1>2, <1>3, <1>4, <1>5 DEF NodeInv

\* AfterJoin: placed at once on Community Edition, else to the groups.
LEMMA AfterJoinKeeps ==
    ASSUME RunTypeOK, NEW n \in Nodes, NodeInv(n), AfterJoin(n),
           cmd[n] \in {"create", "add"}, result[n] = "none",
           Member(n, rally[n])', Prepared(n)'
    PROVE  NodeInv(n)'
<1>1. CASE Community
  BY <1>1, AfterGroupKeeps DEF AfterJoin, Placed
<1>2. CASE ~Community
  <2>1. At(n, "get_group", "none")
    BY <1>2, Lands DEF AfterJoin
  <2>2. CommandInv(n)'
    BY <1>2, <2>1 DEF At, NodeInv, CommandInv, GroupPath
  <2>3. PreparedInv(n)'
    BY <2>1 DEF At, PreparedInv
  <2>4. JoinedInv(n)'
    BY <2>1 DEF At, JoinedInv, GroupPath
  <2>5. GroupInv(n)'
    BY <2>1 DEF At, GroupInv
  <2> QED BY <2>2, <2>3, <2>4, <2>5 DEF NodeInv
<1> QED BY <1>1, <1>2

\* The invariant of the node a step belongs to.
LEMMA OwnKeeps ==
    ASSUME TypeOK, TypeOK', NEW n \in Nodes, NodeInv(n), Step(n), Grows
    PROVE  NodeInv(n)'
<1> DEFINE r == rally[n]
<1>1. /\ ServiceTypeOK /\ RunTypeOK /\ r \in Nodes
      /\ ServerGroup[n] \in Groups /\ ServerGroup[n] # None
  BY NodeConfigAssumption, NoneAssumption DEF TypeOK, RunTypeOK
<1>2. /\ CommandInv(n) /\ PreparedInv(n) /\ JoinedInv(n) /\ GroupInv(n)
      /\ clusterOf[n] # None => Prepared(n)
  BY DEF NodeInv, PreparedInv
<1>3. pc[n] # "idle" => result[n] = "none"
  BY <1>2 DEF CommandInv
<1>4. Prepared(n) => Prepared(n)'
  BY DEF Grows, Prepared
<1>5. \A accepted \in BOOLEAN : \A o \in Outcomes(accepted) :
        Applied(o) => accepted
  BY DEF Outcomes, Applied
<1>6. \A o : Exit(n, o) => At(n, "idle", o)
  BY <1>1, Lands
<1>7. \A l : Goto(n, l) => At(n, l, result[n])
  BY <1>1, Lands
<1>8. ASSUME UNCHANGED service, rally'[n] = rally[n]
      PROVE  /\ Prepared(n)' <=> Prepared(n)
             /\ Member(n, r)' <=> Member(n, r)
             /\ Placed(n)' <=> Placed(n)
             /\ GroupExists(n)' <=> GroupExists(n)
             /\ groupOf'[n] = groupOf[n] /\ clusterOf'[n] = clusterOf[n]
  BY <1>8 DEF service, membership, nodeState, Prepared, Member, Initialized,
              Placed, GroupExists
<1>9. ASSUME NEW o, Exit(n, o), o # "success",
             clusterOf'[n] # None => clusterOf[n] # None \/ Prepared(n)
      PROVE  NodeInv(n)'
  <2>1. (clusterOf[n] # None => Prepared(n))'
    BY <1>2, <1>4, <1>9
  <2> QED BY <1>6, <1>9, <2>1, EndKeeps
<1>10. ASSUME NEW o, NEW k, Retry(n, k, o), o # "success", UNCHANGED service
       PROVE  NodeInv(n)'
  <2>1. CASE At(n, pc[n], result[n])
    BY <1>10, <2>1, StayKeeps
  <2>2. CASE At(n, "idle", o)
    <3>1. (clusterOf[n] # None => Prepared(n))'
      BY <1>10, <1>2, <1>4 DEF service, membership
    <3> QED BY <1>10, <2>2, <3>1, EndKeeps
  <2> QED BY <1>1, <1>10, <2>1, <2>2, Lands
<1> USE DEF NodeInv
<1>c1. CASE Connect(n)
  <2> USE DEF Connect
  <2>1. UNCHANGED service /\ (Exit(n, "error") \/ Dispatch(n))
    BY <1>c1
  <2>2. CASE Exit(n, "error")
    BY <1>9, <2>1, <2>2 DEF service, membership
  <2>3. CASE Dispatch(n)
    <3>1. \/ Exit(n, "done") \/ Exit(n, "error")
          \/ \E l \in {"is_cluster", "is_node", "external_ip", "cluster_wait",
                       "rebalance", "ca_load", "node_cert", "cert_auth"} :
               /\ Goto(n, l)
               /\ l = "is_cluster" => cmd[n] = "create"
               /\ l = "is_node" => cmd[n] = "add"
               /\ l = "external_ip" => cmd[n] = "update"
               /\ l = "cluster_wait" => cmd[n] = "wait"
               /\ l = "ca_load" => cmd[n] = "ca_cert"
               /\ l = "node_cert" => cmd[n] = "node_cert"
      BY <2>3 DEF Dispatch
    <3>2. CASE Exit(n, "done") \/ Exit(n, "error")
      BY <3>2, <1>9, <2>1 DEF service, membership
    <3>3. ASSUME NEW l \in {"is_cluster", "is_node", "external_ip",
                            "cluster_wait", "rebalance", "ca_load",
                            "node_cert", "cert_auth"},
                 Goto(n, l),
                 l = "is_cluster" => cmd[n] = "create",
                 l = "is_node" => cmd[n] = "add",
                 l = "external_ip" => cmd[n] = "update",
                 l = "cluster_wait" => cmd[n] = "wait",
                 l = "ca_load" => cmd[n] = "ca_cert",
                 l = "node_cert" => cmd[n] = "node_cert"
          PROVE  NodeInv(n)'
      <4>1. At(n, l, "none")
        BY <1>c1, <1>3, <1>7, <3>3
      <4>2. CommandInv(n)'
        BY <4>1, <3>3, <1>2 DEF At, CommandInv, GroupPath
      <4>3. PreparedInv(n)'
        BY <4>1, <3>3, <2>1, <1>2, <1>8 DEF At, PreparedInv
      <4>4. JoinedInv(n)'
        BY <4>1, <3>3 DEF At, JoinedInv, GroupPath
      <4>5. GroupInv(n)'
        BY <4>1, <3>3 DEF At, GroupInv
      <4> QED BY <4>2, <4>3, <4>4, <4>5
    <3> QED BY <3>1, <3>2, <3>3
  <2> QED BY <2>1, <2>2, <2>3
<1>c2. CASE IsCluster(n) \/ IsNode(n) \/ ClusterWait(n)
  <2>1. /\ UNCHANGED service
        /\ pc[n] # "idle"
        /\ \/ Exit(n, "already") \/ Exit(n, "done")
           \/ \E o \in {"done", "wait_error"} : Retry(n, WaitRetries, o)
           \/ Goto(n, "cluster_wait") /\ cmd[n] = "add"
           \/ Goto(n, "init_check") /\ cmd[n] \in {"create", "add"}
    BY <1>c2, <1>2 DEF IsCluster, IsNode, ClusterWait, CommandInv
  <2>2. CASE Exit(n, "already") \/ Exit(n, "done")
    BY <1>9, <2>1, <2>2 DEF service, membership
  <2>3. CASE \E o \in {"done", "wait_error"} : Retry(n, WaitRetries, o)
    BY <1>10, <2>1, <2>3
  <2>4. ASSUME NEW l \in {"cluster_wait", "init_check"}, Goto(n, l),
               l = "cluster_wait" => cmd[n] = "add",
               l = "init_check" => cmd[n] \in {"create", "add"}
        PROVE  NodeInv(n)'
    <3>1. At(n, l, "none")
      BY <2>1, <2>4, <1>3, <1>7
    <3>2. CommandInv(n)'
      BY <3>1, <2>4, <1>2 DEF At, CommandInv, GroupPath
    <3>3. PreparedInv(n)'
      BY <3>1, <2>4, <2>1, <1>2, <1>8 DEF At, PreparedInv
    <3>4. JoinedInv(n)' /\ GroupInv(n)'
      BY <3>1, <2>4 DEF At, JoinedInv, GroupInv, GroupPath
    <3> QED BY <3>2, <3>3, <3>4
  <2> QED BY <2>1, <2>2, <2>3, <2>4
<1>c3. CASE InitCheck(n)
  <2>1. /\ UNCHANGED service /\ pc[n] = "init_check"
        /\ \/ Member(n, r) /\ AfterNodeInit(n)
           \/ Goto(n, "node_init")
    BY <1>c3, <1>5 DEF InitCheck, NodeSeen, Answers, Outcomes, Member, Initialized
  <2>2. cmd[n] \in {"create", "add"} /\ result[n] = "none"
    BY <2>1, <1>2 DEF CommandInv
  <2>3. CASE Member(n, r) /\ AfterNodeInit(n)
    <3>1. Prepared(n)'
      BY <2>3, <1>2, <1>4 DEF Member, Initialized
    <3> QED BY <1>1, <2>2, <2>3, <3>1, AfterNodeInitKeeps
  <2>4. CASE Goto(n, "node_init")
    <3>1. At(n, "node_init", "none")
      BY <2>2, <2>4, <1>7
    <3>2. CommandInv(n)'
      BY <3>1, <2>2, <1>2 DEF At, CommandInv, GroupPath
    <3>3. PreparedInv(n)'
      BY <3>1, <2>1, <1>2, <1>8 DEF At, PreparedInv
    <3>4. JoinedInv(n)' /\ GroupInv(n)'
      BY <3>1 DEF At, JoinedInv, GroupInv, GroupPath
    <3> QED BY <3>2, <3>3, <3>4
  <2> QED BY <2>1, <2>3, <2>4
<1>c4. CASE NodeInit(n)
  <2>1. PICK o \in Outcomes(NodeInitAccepted(n)) :
          /\ IF Applied(o) THEN NodeInitEffect(n) ELSE UNCHANGED service
          /\ IF o # "ok" THEN Exit(n, "error")
             ELSE IF n \in External THEN Goto(n, "external_ip")
             ELSE AfterNodeInit(n)
    BY <1>c4 DEF NodeInit
  <2>2. cmd[n] \in {"create", "add"} /\ result[n] = "none"
    BY <1>c4, <1>2 DEF NodeInit, CommandInv
  <2>3. /\ clusterOf' = clusterOf
        /\ o = "ok" => n \in nodeInit'
    BY <2>1 DEF NodeInitEffect, Applied, service, membership
  <2>4. CASE o # "ok"
    BY <2>1, <2>3, <2>4, <1>9
  <2>5. CASE o = "ok" /\ n \in External
    <3>1. At(n, "external_ip", "none")
      BY <2>1, <2>2, <2>5, <1>7
    <3>2. CommandInv(n)'
      BY <3>1, <2>2, <1>2 DEF At, CommandInv, GroupPath
    <3>3. PreparedInv(n)'
      BY <3>1, <2>3, <2>5, <1>2, <1>4 DEF At, PreparedInv
    <3>4. JoinedInv(n)' /\ GroupInv(n)'
      BY <3>1 DEF At, JoinedInv, GroupInv, GroupPath
    <3> QED BY <3>2, <3>3, <3>4
  <2>6. CASE o = "ok" /\ n \notin External
    <3>1. Prepared(n)'
      BY <2>3, <2>6 DEF Prepared
    <3> QED BY <1>1, <2>1, <2>2, <2>6, <3>1, AfterNodeInitKeeps
  <2> QED BY <2>4, <2>5, <2>6
<1>c5. CASE ExternalIp(n)
  <2>1. PICK o \in Outcomes(TRUE) :
          /\ IF Applied(o) THEN AlternateAddressEffect(n)
             ELSE UNCHANGED service
          /\ IF o # "ok" THEN Exit(n, "error")
             ELSE IF cmd[n] = "update" THEN Exit(n, "done")
             ELSE AfterNodeInit(n)
    BY <1>c5 DEF ExternalIp
  <2>2. /\ clusterOf' = clusterOf
        /\ nodeInit' = nodeInit
        /\ o = "ok" => n \in altAddr'
    BY <2>1 DEF AlternateAddressEffect, Applied, service, membership, nodeState
  <2>3. CASE Exit(n, "error") \/ Exit(n, "done")
    BY <2>2, <2>3, <1>9
  <2>4. CASE o = "ok" /\ cmd[n] # "update"
    <3>1. cmd[n] \in {"create", "add"} /\ result[n] = "none"
      BY <1>c5, <1>2, <2>4 DEF ExternalIp, CommandInv
    <3>2. Prepared(n)'
      BY <1>c5, <1>2, <2>2, <2>4 DEF ExternalIp, PreparedInv, Prepared
    <3> QED BY <1>1, <2>1, <2>4, <3>1, <3>2, AfterNodeInitKeeps
  <2> QED BY <2>1, <2>3, <2>4
<1>c6. CASE ClusterUpdate(n)
  <2>1. /\ UNCHANGED service /\ pc[n] = "cluster_update"
        /\ Goto(n, "server_add") \/ Exit(n, "error")
    BY <1>c6 DEF ClusterUpdate
  <2>2. CASE Exit(n, "error")
    BY <2>1, <2>2, <1>9 DEF service, membership
  <2>3. CASE Goto(n, "server_add")
    <3>1. At(n, "server_add", "none") /\ cmd[n] = "add"
      BY <2>1, <2>3, <1>2, <1>3, <1>7 DEF CommandInv
    <3>2. CommandInv(n)'
      BY <3>1, <1>2 DEF At, CommandInv, GroupPath
    <3>3. PreparedInv(n)'
      BY <3>1, <2>1, <1>2, <1>4 DEF At, PreparedInv
    <3>4. JoinedInv(n)' /\ GroupInv(n)'
      BY <3>1 DEF At, JoinedInv, GroupInv, GroupPath
    <3> QED BY <3>2, <3>3, <3>4
  <2> QED BY <2>1, <2>2, <2>3
<1>c7. CASE ClusterInit(n)
  <2>1. PICK o \in Outcomes(ClusterInitAccepted(r)) :
          /\ IF Applied(o) THEN ClusterInitEffect(r) ELSE UNCHANGED service
          /\ IF o = "ok" THEN AfterJoin(n) ELSE Exit(n, "error")
    BY <1>c7 DEF ClusterInit
  <2>2. /\ cmd[n] = "create" /\ result[n] = "none" /\ r = n
        /\ Prepared(n) /\ Prepared(n)'
    BY <1>c7, <1>2, <1>4 DEF ClusterInit, CommandInv, PreparedInv
  <2>3. CASE o # "ok"
    BY <2>1, <2>2, <2>3, <1>9
  <2>4. CASE o = "ok"
    <3>1. clusterOf'[n] = n /\ AfterJoin(n)
      BY <2>1, <2>2, <2>4, <1>1 DEF Applied, ClusterInitEffect, ServiceTypeOK
    <3>2. rally'[n] = rally[n]
      BY <3>1, <1>1 DEF AfterJoin, AfterGroup, Goto, Exit
    <3>3. Member(n, rally[n])'
      BY <3>1, <3>2, <2>2, NoneAssumption DEF Member, Initialized
    <3> QED BY <1>1, <2>2, <3>1, <3>3, AfterJoinKeeps
  <2> QED BY <2>3, <2>4
<1>c8. CASE ServerAdd(n)
  <2>1. PICK o \in Outcomes(ServerAddAccepted(n, r)) :
          /\ IF Applied(o) THEN ServerAddEffect(n, r) ELSE UNCHANGED service
          /\ IF o = "ok" THEN AfterJoin(n) ELSE Exit(n, "error")
    BY <1>c8 DEF ServerAdd
  <2>2. /\ cmd[n] = "add" /\ result[n] = "none"
        /\ Prepared(n) /\ Prepared(n)'
    BY <1>c8, <1>2, <1>4 DEF ServerAdd, CommandInv, PreparedInv
  <2>3. CASE o # "ok"
    BY <2>1, <2>2, <2>3, <1>9
  <2>4. CASE o = "ok"
    <3>1. ServerAddAccepted(n, r) /\ ServerAddEffect(n, r) /\ AfterJoin(n)
      BY <2>1, <2>4, <1>5 DEF Applied, ServerAddAccepted
    <3>2. rally'[n] = rally[n]
      BY <3>1, <1>1 DEF AfterJoin, AfterGroup, Goto, Exit
    <3>3. /\ clusterOf[r] # None /\ r # n
          /\ clusterOf'[n] = clusterOf[r] /\ clusterOf'[r] = clusterOf[r]
      BY <3>1, <1>1 DEF ServerAddAccepted, ServerAddEffect, Initialized,
                        ServiceTypeOK
    <3>4. Member(n, rally[n])'
      BY <3>2, <3>3 DEF Member, Initialized
    <3> QED BY <1>1, <2>2, <3>1, <3>4, AfterJoinKeeps
  <2> QED BY <2>3, <2>4
<1>c9. CASE GetNodeGroup(n)
  <2>1. UNCHANGED service /\ pc[n] = "get_group"
    BY <1>c9 DEF GetNodeGroup
  <2>2. /\ cmd[n] \in {"create", "add"} /\ result[n] = "none" /\ ~Community
        /\ Member(n, r) /\ NodeGroupSeen(n) = groupOf[n]
    BY <2>1, <1>2 DEF CommandInv, JoinedInv, GroupPath, NodeGroupSeen
  <2>3. CASE Exit(n, "error")
    BY <2>1, <2>3, <1>9 DEF service, membership
  <2>4. CASE groupOf[n] = ServerGroup[n] /\ AfterGroup(n)
    <3>1. rally'[n] = rally[n]
      BY <2>4, <1>1 DEF AfterGroup, Goto, Exit
    <3>2. Member(n, rally[n])' /\ Placed(n)' /\ Prepared(n)'
      BY <3>1, <2>1, <2>2, <2>4, <1>2, <1>8 DEF Placed, Member, Initialized
    <3> QED BY <1>1, <2>2, <2>4, <3>2, AfterGroupKeeps
  <2>5. ASSUME pc' = [pc EXCEPT ![n] = "is_group"],
               from' = [from EXCEPT ![n] = NodeGroupSeen(n)],
               UNCHANGED <<cmd, rally, tries, result, runs>>
        PROVE  NodeInv(n)'
    <3>1. /\ pc'[n] = "is_group" /\ from'[n] = groupOf[n]
          /\ cmd'[n] = cmd[n] /\ rally'[n] = rally[n] /\ result'[n] = "none"
      BY <2>2, <2>5, <1>1 DEF RunTypeOK
    <3>2. CommandInv(n)'
      BY <3>1, <2>2, <1>2 DEF CommandInv, GroupPath
    <3>3. PreparedInv(n)'
      BY <3>1, <2>1, <1>2, <1>8 DEF PreparedInv
    <3>4. JoinedInv(n)'
      BY <3>1, <2>1, <2>2, <1>8 DEF JoinedInv
    <3>5. GroupInv(n)'
      BY <3>1, <2>1, <1>8 DEF GroupInv
    <3> QED BY <3>2, <3>3, <3>4, <3>5
  <2> QED BY <1>c9, <2>2, <2>3, <2>4, <2>5 DEF GetNodeGroup
<1>c10. CASE IsGroup(n) \/ CreateGroup(n)
  <2>1. /\ pc[n] \in {"is_group", "create_group"}
        /\ UNCHANGED service \/ GroupCreateEffect(r, ServerGroup[n])
        /\ \/ Exit(n, "error")
           \/ Goto(n, "create_group") /\ UNCHANGED service
           \/ Goto(n, "move") /\ GroupExists(n) /\ UNCHANGED service
           \/ /\ Goto(n, "move") /\ Initialized(r)
              /\ GroupCreateEffect(r, ServerGroup[n])
    BY <1>c10 DEF IsGroup, CreateGroup, Answers, Outcomes, Applied,
                  GroupCreateAccepted, GroupExists, Initialized
  <2>2. /\ cmd[n] \in {"create", "add"} /\ result[n] = "none" /\ ~Community
        /\ Member(n, r) /\ from[n] = groupOf[n]
    BY <2>1, <1>2 DEF CommandInv, JoinedInv, GroupInv, GroupPath
  <2>3. clusterOf' = clusterOf /\ groupOf' = groupOf
    BY <2>1 DEF GroupCreateEffect, service, membership
  <2>4. CASE Exit(n, "error")
    BY <2>3, <2>4, <1>9
  <2>5. ASSUME NEW l \in {"create_group", "move"}, Goto(n, l),
               l = "move" => GroupExists(n)'
        PROVE  NodeInv(n)'
    <3>1. At(n, l, "none")
      BY <2>2, <2>5, <1>7
    <3>2. CommandInv(n)'
      BY <3>1, <2>2, <2>5, <1>2 DEF At, CommandInv, GroupPath
    <3>3. PreparedInv(n)'
      BY <3>1, <2>3, <2>5, <1>2, <1>4 DEF At, PreparedInv
    <3>4. JoinedInv(n)'
      BY <3>1, <2>2, <2>3, <2>5 DEF At, JoinedInv, Member, Initialized
    <3>5. GroupInv(n)'
      BY <3>1, <2>2, <2>3, <2>5 DEF At, GroupInv
    <3> QED BY <3>2, <3>3, <3>4, <3>5
  <2>6. CASE Goto(n, "create_group")
    BY <2>5, <2>6
  <2>7. CASE Goto(n, "move") /\ GroupExists(n) /\ UNCHANGED service
    <3>1. GroupExists(n)'
      BY <2>7, <1>7, <1>8 DEF At
    <3> QED BY <2>5, <2>7, <3>1
  <2>8. CASE /\ Goto(n, "move") /\ Initialized(r)
             /\ GroupCreateEffect(r, ServerGroup[n])
    <3>1. rally'[n] = rally[n] /\ clusterOf[r] \in Nodes
      BY <2>8, <1>1, <1>7 DEF At, Initialized, ServiceTypeOK
    <3>2. GroupExists(n)'
      BY <2>8, <3>1, <1>1 DEF GroupCreateEffect, GroupExists, Initialized,
                              ServiceTypeOK
    <3> QED BY <2>5, <2>8, <3>2
  <2> QED BY <2>1, <2>4, <2>6, <2>7, <2>8
<1>c11. CASE MoveGroup(n)
  <2>1. /\ pc[n] = "move" /\ cmd[n] \in {"create", "add"}
        /\ result[n] = "none" /\ ~Community /\ Member(n, r) /\ GroupExists(n)
        /\ groupOf[n] \in {from[n], ServerGroup[n]}
    BY <1>c11, <1>2 DEF MoveGroup, CommandInv, JoinedInv, GroupInv, GroupPath
  <2>2. CASE from[n] = None
    BY <1>c11, <2>2, <1>9 DEF MoveGroup, service, membership
  <2>3. CASE from[n] # None
    <3>1. PICK o \in Outcomes(MoveAccepted(n, r, from[n], ServerGroup[n])) :
            /\ IF Applied(o) THEN MoveEffect(n, ServerGroup[n])
               ELSE UNCHANGED service
            /\ IF o = "ok" THEN AfterGroup(n)
               ELSE Retry(n, GroupRetries, "group_error")
      BY <1>c11, <2>3 DEF MoveGroup
    <3>2. CASE ~Applied(o)
      BY <3>1, <3>2, <1>10 DEF Applied
    <3>3. CASE Applied(o)
      <4>1. /\ clusterOf' = clusterOf /\ groups' = groups
            /\ groupOf'[n] = ServerGroup[n]
        BY <3>1, <3>3, <1>1 DEF MoveEffect, ServiceTypeOK
      <4>2. CASE o = "ok"
        <5>1. rally'[n] = rally[n] /\ AfterGroup(n)
          BY <3>1, <4>2, <1>1 DEF AfterGroup, Goto, Exit
        <5>2. Member(n, rally[n])' /\ Placed(n)' /\ Prepared(n)'
          BY <5>1, <4>1, <2>1, <1>2, <1>4 DEF Placed, Member, Initialized
        <5> QED BY <1>1, <2>1, <5>1, <5>2, AfterGroupKeeps
      <4>3. CASE At(n, pc[n], result[n])
        <5>1. CommandInv(n)'
          BY <4>3, <1>2 DEF At, CommandInv
        <5>2. PreparedInv(n)'
          BY <4>1, <4>3, <2>1, <1>2, <1>4 DEF At, PreparedInv
        <5>3. JoinedInv(n)'
          BY <4>1, <4>3, <2>1 DEF At, JoinedInv, Member, Initialized
        <5>4. GroupInv(n)'
          BY <4>1, <4>3, <2>1 DEF At, GroupInv, GroupExists, Initialized
        <5> QED BY <5>1, <5>2, <5>3, <5>4
      <4>4. CASE At(n, "idle", "group_error")
        <5>1. (clusterOf[n] # None => Prepared(n))'
          BY <4>1, <1>2, <1>4
        <5> QED BY <4>4, <5>1, EndKeeps
      <4> QED BY <3>1, <4>2, <4>3, <4>4, <1>1, Lands
    <3> QED BY <3>2, <3>3
  <2> QED BY <2>2, <2>3
<1>c12. CASE CaLoad(n)
  <2>1. /\ pc[n] = "ca_load"
        /\ \/ Exit(n, "error") \/ Goto(n, "cert_wait")
        /\ UNCHANGED service \/ LoadTrustedEffect(n, CaCert[n])
    <3>1. CASE CaKey[n] # CaCert[n]
      BY <1>c12, <3>1 DEF CaLoad
    <3>2. CASE CaKey[n] = CaCert[n]
      <4>1. PICK o \in Outcomes(TRUE) :
              /\ IF Applied(o) THEN LoadTrustedEffect(n, CaCert[n])
                 ELSE UNCHANGED service
              /\ IF o = "ok" /\ LoadedId(n, CaCert[n]) = 1
                 THEN Goto(n, "cert_wait") ELSE Exit(n, "error")
        BY <1>c12, <3>2 DEF CaLoad
      <4> QED BY <1>c12, <4>1 DEF CaLoad
    <3> QED BY <3>1, <3>2
  <2>2. clusterOf' = clusterOf /\ groupOf' = groupOf
    BY <2>1 DEF LoadTrustedEffect, service, membership
  <2>3. CASE Exit(n, "error")
    BY <2>2, <2>3, <1>9
  <2>4. CASE Goto(n, "cert_wait")
    <3>1. At(n, "cert_wait", "none")
      BY <2>1, <2>4, <1>3, <1>7
    <3>2. CommandInv(n)'
      BY <3>1, <2>1, <1>2 DEF At, CommandInv, GroupPath
    <3>3. PreparedInv(n)'
      BY <3>1, <2>2, <1>2, <1>4 DEF At, PreparedInv
    <3>4. JoinedInv(n)'
      BY <3>1, <2>1, <2>2, <1>2
         DEF At, JoinedInv, Member, Initialized, Placed, GroupPath
    <3>5. GroupInv(n)'
      BY <3>1 DEF At, GroupInv
    <3> QED BY <3>2, <3>3, <3>4, <3>5
  <2> QED BY <2>1, <2>3, <2>4
<1>c13. CASE CertWait(n)
  <2>1. /\ UNCHANGED service /\ pc[n] = "cert_wait"
        /\ \/ Exit(n, "error") \/ Exit(n, "done")
           \/ Retry(n, CertRetries - 1, "error")
           \/ Goto(n, "node_cert") /\ cmd[n] = "create"
    BY <1>c13 DEF CertWait
  <2>2. CASE Exit(n, "error") \/ Exit(n, "done")
    BY <2>1, <2>2, <1>9 DEF service, membership
  <2>3. CASE Retry(n, CertRetries - 1, "error")
    BY <2>1, <2>3, <1>10
  <2>4. CASE Goto(n, "node_cert") /\ cmd[n] = "create"
    <3>1. At(n, "node_cert", "none")
      BY <2>1, <2>4, <1>3, <1>7
    <3>2. CommandInv(n)'
      BY <3>1, <2>4, <1>2 DEF At, CommandInv, GroupPath
    <3>3. PreparedInv(n)'
      BY <3>1, <2>1, <1>2, <1>8 DEF At, PreparedInv
    <3>4. JoinedInv(n)'
      BY <3>1, <2>1, <2>4, <1>2, <1>8 DEF At, JoinedInv, GroupPath
    <3>5. GroupInv(n)'
      BY <3>1 DEF At, GroupInv
    <3> QED BY <3>2, <3>3, <3>4, <3>5
  <2> QED BY <2>1, <2>2, <2>3, <2>4
<1>c14. CASE NodeCertUpdate(n)
  <2>1. /\ UNCHANGED service /\ pc[n] = "node_cert"
        /\ Exit(n, "error") \/ Goto(n, "reload_cert")
    BY <1>c14 DEF NodeCertUpdate
  <2>2. CASE Exit(n, "error")
    BY <2>1, <2>2, <1>9 DEF service, membership
  <2>3. CASE Goto(n, "reload_cert")
    <3>1. At(n, "reload_cert", "none")
      BY <2>1, <2>3, <1>3, <1>7
    <3>2. CommandInv(n)'
      BY <3>1, <2>1, <1>2 DEF At, CommandInv, GroupPath
    <3>3. PreparedInv(n)'
      BY <3>1, <2>1, <1>2, <1>8 DEF At, PreparedInv
    <3>4. JoinedInv(n)'
      BY <3>1, <2>1, <1>2, <1>8 DEF At, JoinedInv, GroupPath
    <3>5. GroupInv(n)'
      BY <3>1 DEF At, GroupInv
    <3> QED BY <3>2, <3>3, <3>4, <3>5
  <2> QED BY <2>1, <2>2, <2>3
<1>c17. CASE ReloadNodeCert(n)
  <2>1. /\ pc[n] = "reload_cert"
        /\ UNCHANGED service \/ ReloadCertificateEffect(n, CaKey[n])
        /\ \/ Exit(n, "error") \/ Exit(n, "done")
           \/ Exit(n, "success") /\ cmd[n] # "node_cert"
    BY <1>c17 DEF ReloadNodeCert
  <2>2. clusterOf' = clusterOf /\ groupOf' = groupOf
    BY <2>1 DEF ReloadCertificateEffect, service, membership
  <2>3. CASE Exit(n, "error") \/ Exit(n, "done")
    BY <2>2, <2>3, <1>9
  <2>4. CASE Exit(n, "success") /\ cmd[n] # "node_cert"
    <3>1. At(n, "idle", "success")
      BY <2>4, <1>6
    <3>2. Member(n, r) /\ Placed(n)
      BY <2>1, <2>4, <1>2 DEF CommandInv, JoinedInv
    <3>3. CommandInv(n)' /\ GroupInv(n)'
      BY <3>1, <1>2 DEF At, CommandInv, GroupInv, GroupPath
    <3>4. PreparedInv(n)'
      BY <3>1, <2>2, <1>2, <1>4 DEF At, PreparedInv
    <3>5. JoinedInv(n)'
      BY <3>1, <3>2, <2>2 DEF At, JoinedInv, Member, Initialized, Placed,
                              GroupPath
    <3> QED BY <3>3, <3>4, <3>5
  <2> QED BY <2>1, <2>3, <2>4
<1>c15. CASE Rebalance(n)
  <2>1. /\ pc[n] = "rebalance"
        /\ \/ Exit(n, "done")
           \/ Retry(n, RebalanceRetries, "error")
    BY <1>c15 DEF Rebalance
  <2>2. clusterOf' = clusterOf /\ groupOf' = groupOf
    BY <1>c15 DEF Rebalance, RebalanceEffect, service, membership
  <2>3. CASE At(n, "idle", "done") \/ At(n, "idle", "error")
    <3>1. (clusterOf[n] # None => Prepared(n))'
      BY <2>2, <1>2, <1>4
    <3> QED BY <2>3, <3>1, EndKeeps
  <2>4. CASE At(n, pc[n], result[n])
    <3>1. CommandInv(n)'
      BY <2>4, <1>2 DEF At, CommandInv
    <3>2. PreparedInv(n)'
      BY <2>1, <2>2, <2>4, <1>2, <1>4 DEF At, PreparedInv
    <3>3. JoinedInv(n)' /\ GroupInv(n)'
      BY <2>1, <2>4, <1>3 DEF At, JoinedInv, GroupInv, GroupPath
    <3> QED BY <3>1, <3>2, <3>3
  <2> QED BY <2>1, <2>3, <2>4, <1>1, Lands
<1>c16. CASE CertAuth(n)
  <2>1. Exit(n, "done") \/ Exit(n, "error")
    BY <1>c16 DEF CertAuth
  <2>2. clusterOf' = clusterOf
    BY <1>c16 DEF CertAuth, ClientAuthEffect, service, membership
  <2> QED BY <2>1, <2>2, <1>9
<1> QED BY <1>c1, <1>c2, <1>c3, <1>c4, <1>c5, <1>c6, <1>c7, <1>c8, <1>c9,
           <1>c10, <1>c11, <1>c12, <1>c13, <1>c14, <1>c15, <1>c16, <1>c17 DEF Step

-----------------------------------------------------------------------------
(* The invariant of the whole.                                             *)

LEMMA InitInv == Init => IInv
<1> SUFFICES ASSUME Init PROVE IInv
  OBVIOUS
<1>1. TypeOK
  BY InitTypes
<1>2. ASSUME NEW m \in Nodes PROVE NodeInv(m)
  <2>1. /\ pc[m] = "idle" /\ cmd[m] = "wait" /\ result[m] = "none"
        /\ clusterOf[m] = None
    BY DEF Init, ServiceInit
  <2> QED BY <2>1 DEF NodeInv, CommandInv, PreparedInv, JoinedInv, GroupInv,
                      GroupPath
<1> QED BY <1>1, <1>2 DEF IInv

LEMMA NextInv ==
    ASSUME LocalCreate
    PROVE  IInv /\ [Next]_vars => IInv'
<1> SUFFICES ASSUME IInv, [Next]_vars PROVE IInv'
  OBVIOUS
<1>1. TypeOK /\ TypeOK' /\ \A m \in Nodes : NodeInv(m)
  BY NextTypes DEF IInv
<1>2. ASSUME NEW n \in Nodes, Grows, ServiceOnlyAt(n), RunOnlyAt(n), NodeInv(n)'
      PROVE  IInv'
  BY <1>1, <1>2, OthersKeep DEF IInv
<1>3. CASE UNCHANGED vars
  BY <1>1, <1>3 DEF IInv, vars, service, membership, nodeState, run, NodeInv,
     CommandInv, PreparedInv, JoinedInv, GroupInv, Prepared, Placed, Member,
     Initialized, GroupExists
<1>4. ASSUME NEW n \in Nodes, Step(n) PROVE IInv'
  <2>1. Grows /\ ServiceOnlyAt(n) /\ RunOnlyAt(n)
    BY <1>1, <1>4, StepFrame DEF NodeInv
  <2>2. NodeInv(n)'
    BY <1>1, <1>4, <2>1, OwnKeeps
  <2> QED BY <1>2, <2>1, <2>2
<1>5. ASSUME NEW n \in Nodes, Invoke(n) PROVE IInv'
  <2>1. Grows /\ ServiceOnlyAt(n)
    BY <1>1, <1>5, EffectsGrow DEF Invoke, TypeOK
  <2>2. RunOnlyAt(n)
    BY <1>1, <1>5 DEF Invoke, RunOnlyAt, TypeOK, RunTypeOK
  <2>3. /\ pc'[n] = "connect" /\ result'[n] = "none"
        /\ cmd'[n] = "create" => rally'[n] = n
    BY <1>1, <1>5, CallsAssumption DEF Invoke, LocalCreate, TypeOK, RunTypeOK
  <2>4. (clusterOf[n] # None => Prepared(n))'
    BY <1>1, <1>5 DEF Invoke, NodeInv, PreparedInv, Prepared, service,
                      membership, nodeState
  <2>5. NodeInv(n)'
    BY <2>3, <2>4 DEF NodeInv, CommandInv, PreparedInv, JoinedInv, GroupInv,
                      GroupPath
  <2> QED BY <1>2, <2>1, <2>2, <2>5
<1>6. ASSUME NEW n \in Nodes, Break(n) PROVE IInv'
  <2>1. UNCHANGED service /\ Exit(n, "broken")
    BY <1>6 DEF Break
  <2>2. Grows /\ ServiceOnlyAt(n) /\ RunOnlyAt(n)
    BY <1>1, <2>1, EffectsGrow, ControlOnlyAt DEF TypeOK
  <2>3. (clusterOf[n] # None => Prepared(n))'
    BY <1>1, <2>1 DEF NodeInv, PreparedInv, Prepared, service, membership,
                      nodeState
  <2>4. NodeInv(n)'
    BY <1>1, <2>1, <2>3, Lands, EndKeeps DEF TypeOK
  <2> QED BY <1>2, <2>2, <2>4
<1> QED BY <1>3, <1>4, <1>5, <1>6 DEF Next

LEMMA Invariance ==
    ASSUME LocalCreate
    PROVE  Spec => []IInv
BY InitInv, NextInv, PTL DEF Spec

\* When create runs on its own rally node, no node is ever a member of a
\* cluster without node-init and its external address in place.
THEOREM MembersArePrepared ==
    ASSUME LocalCreate
    PROVE  Spec => []MembersPrepared
<1>1. IInv => MembersPrepared
  BY DEF IInv, NodeInv, PreparedInv, MembersPrepared
<1> QED BY <1>1, Invariance, PTL

\* "Success" from create or add is true: the node is a member, prepared and
\* in its server group.
THEOREM SuccessIsConfigured ==
    ASSUME LocalCreate
    PROVE  Spec => []SuccessConfigured
<1>1. IInv => SuccessConfigured
  BY DEF IInv, NodeInv, PreparedInv, JoinedInv, SuccessConfigured, Configured,
         Member, Initialized
<1> QED BY <1>1, Invariance, PTL

\* node_change_group moves a node out of the group it is in, or has moved it.
THEOREM MoveIsFresh ==
    ASSUME LocalCreate
    PROVE  Spec => []MoveFresh
<1>1. IInv => MoveFresh
  BY DEF IInv, NodeInv, GroupInv, MoveFresh
<1> QED BY <1>1, Invariance, PTL

-----------------------------------------------------------------------------
(* Certificates and groups, whatever create is run on.                     *)

\* The authority a run is about to sign with was trusted when it was read.
CertRead == \A m \in Nodes : pc[m] = "reload_cert" => CaKey[m] \in Trusted(m)

CertInv == NodeCertTrusted /\ CertRead

\* The store of a node loses nothing: it only grows, except when the node
\* itself joins a cluster and takes the cluster's store.
LEMMA TrustKept ==
    ASSUME TypeOK, NEW n \in Nodes, Step(n), NEW m \in Nodes
    PROVE  \/ Trusted(m) \subseteq Trusted(m)'
           \/ /\ m = n /\ pc[n] = "server_add"
              /\ nodeCert' = nodeCert
              /\ nodeCert[n] \in Trusted(n)' \cup {None}
<1> DEFINE r == rally[n]
<1>1. r \in Nodes /\ ServiceTypeOK /\ Store(m) \in Nodes
  BY DEF TypeOK, RunTypeOK, ServiceTypeOK, Store
<1>2. CASE UNCHANGED <<clusterOf, caId>>
  BY <1>2 DEF Trusted, Store
<1>3. CASE \/ UNCHANGED service \/ NodeInitEffect(n)
           \/ AlternateAddressEffect(n)
           \/ GroupCreateEffect(r, ServerGroup[n])
           \/ MoveEffect(n, ServerGroup[n]) \/ RebalanceEffect(r)
           \/ ReloadCertificateEffect(n, CaKey[n]) \/ ClientAuthEffect(r)
  BY <1>2, <1>3 DEF NodeInitEffect, AlternateAddressEffect,
     GroupCreateEffect, MoveEffect, RebalanceEffect, ClientAuthEffect,
     ReloadCertificateEffect, service, membership, nodeState, certs
<1>4. CASE ClusterInitAccepted(r) /\ ClusterInitEffect(r)
  <2>1. Store(m)' = Store(m)
    BY <1>1, <1>4, NoneAssumption
       DEF Store, ClusterInitAccepted, ClusterInitEffect, ServiceTypeOK
  <2> QED BY <1>4, <2>1 DEF Trusted, ClusterInitEffect, certs
<1>5. CASE /\ pc[n] = "server_add" /\ ServerAddAccepted(n, r)
           /\ ServerAddEffect(n, r)
  <2>1. CASE m = n
    <3>1. Store(n)' = Store(r)
      BY <1>1, <1>5 DEF Store, ServerAddAccepted, ServerAddEffect,
                        Initialized, ServiceTypeOK
    <3>2. Trusted(n)' = Trusted(r)
      BY <1>5, <3>1 DEF Trusted, ServerAddEffect, certs
    <3> QED BY <1>5, <2>1, <3>2 DEF ServerAddAccepted, ServerAddEffect, certs
  <2>2. CASE m # n
    <3>1. Store(m)' = Store(m)
      BY <1>1, <1>5, <2>2 DEF Store, ServerAddEffect, ServiceTypeOK
    <3> QED BY <1>5, <3>1 DEF Trusted, ServerAddEffect, certs
  <2> QED BY <2>1, <2>2
<1>6. CASE LoadTrustedEffect(n, CaCert[n])
  <2>1. /\ clusterOf' = clusterOf
        /\ caId' = [caId EXCEPT ![Store(n)][CaCert[n]]
                                  = LoadedId(n, CaCert[n])]
    BY <1>6 DEF LoadTrustedEffect, membership
  <2>2. LoadedId(n, CaCert[n]) > 0
    <3>1. CASE caId[Store(n)][CaCert[n]] > 0
      BY <3>1 DEF LoadedId
    <3>2. CASE ~(caId[Store(n)][CaCert[n]] > 0)
      BY <3>2 DEF LoadedId
    <3> QED BY <3>1, <3>2
  <2> QED BY <1>1, <2>1, <2>2 DEF Trusted, Store, ServiceTypeOK
<1> QED BY <1>3, <1>4, <1>5, <1>6, StepEffects

\* A node's certificate changes in ReloadNodeCert only.
LEMMA CertKept ==
    ASSUME TypeOK, NEW n \in Nodes, Step(n), NEW m \in Nodes
    PROVE  \/ nodeCert'[m] = nodeCert[m]
           \/ /\ m = n /\ pc[n] = "reload_cert"
              /\ nodeCert'[n] = CaKey[n] /\ Trusted(n)' = Trusted(n)
<1>1. CASE ReloadCertificateEffect(n, CaKey[n]) /\ pc[n] = "reload_cert"
  BY <1>1 DEF ReloadCertificateEffect, Trusted, Store, membership, TypeOK,
              ServiceTypeOK
<1>2. CASE nodeCert' = nodeCert
  BY <1>2
<1> QED BY <1>1, <1>2, StepEffects DEF NodeInitEffect, AlternateAddressEffect,
   ClusterInitEffect, ServerAddEffect, GroupCreateEffect, MoveEffect,
   RebalanceEffect, LoadTrustedEffect, ClientAuthEffect, service, certs

\* A run reaches ReloadNodeCert from NodeCertUpdate, which found the
\* authority in the store.
LEMMA ReadKept ==
    ASSUME TypeOK, NEW n \in Nodes, Step(n), pc'[n] = "reload_cert"
    PROVE  CaKey[n] \in Trusted(n)'
<1>1. NodeCertUpdate(n)
  BY StepRun
<1>2. UNCHANGED service
  BY <1>1 DEF NodeCertUpdate
<1>3. \A o : ~Exit(n, o)
  BY Lands DEF At, TypeOK
<1>4. TrustedRootCa(n) # {}
  BY <1>1, <1>3 DEF NodeCertUpdate
<1> QED BY <1>2, <1>4
        DEF TrustedRootCa, Trusted, Store, service, membership, certs

LEMMA NextCert == TypeOK /\ CertInv /\ [Next]_vars => CertInv'
<1> SUFFICES ASSUME TypeOK, CertInv, [Next]_vars, NEW m \in Nodes
             PROVE  /\ nodeCert'[m] \in Trusted(m)' \cup {None}
                    /\ pc'[m] = "reload_cert" => CaKey[m] \in Trusted(m)'
  BY DEF CertInv, NodeCertTrusted, CertRead
<1>1. /\ nodeCert[m] \in Trusted(m) \cup {None}
      /\ pc[m] = "reload_cert" => CaKey[m] \in Trusted(m)
  BY DEF CertInv, NodeCertTrusted, CertRead
<1>2. CASE \E n \in Nodes : Step(n)
  <2> PICK n \in Nodes : Step(n)
    BY <1>2
  <2>1. nodeCert'[m] \in Trusted(m)' \cup {None}
    BY <1>1, TrustKept, CertKept
  <2>2. CASE m = n
    BY <2>1, <2>2, ReadKept
  <2>3. CASE m # n
    <3>1. pc'[m] = pc[m]
      BY <2>3, StepRun DEF RunOnlyAt
    <3> QED BY <1>1, <2>1, <2>3, <3>1, TrustKept
  <2> QED BY <2>2, <2>3
<1>3. CASE (\E n \in Nodes : Invoke(n) \/ Break(n)) \/ UNCHANGED vars
  <2>1. UNCHANGED service
    BY <1>3 DEF Invoke, Break, vars
  <2>2. pc'[m] = "reload_cert" => pc[m] = "reload_cert"
    BY <1>3 DEF Invoke, Break, Exit, vars, run, TypeOK, RunTypeOK
  <2> QED BY <1>1, <2>1, <2>2 DEF service, membership, certs, Trusted, Store
<1> QED BY <1>2, <1>3 DEF Next

\* No node ever serves a certificate its cluster does not trust.
THEOREM CertificatesAreTrusted == Spec => []NodeCertTrusted
<1>1. Init => CertInv
  <2>1. Init => nodeCert = [n \in Nodes |-> None] /\ pc = [n \in Nodes |-> "idle"]
    BY DEF Init, ServiceInit
  <2> QED BY <2>1 DEF CertInv, NodeCertTrusted, CertRead
<1>2. CertInv => NodeCertTrusted
  BY DEF CertInv
<1> QED BY <1>1, <1>2, NextCert, TypeCorrect, PTL DEF Spec

\* Only members have a group.
GroupsOfMembers == \A m \in Nodes : clusterOf[m] = None => groupOf[m] = None

\* A node in its server group stays in it: joins give a group to nodes that
\* have none, and node_change_group moves its own node to its own group.
LEMMA NextGroup ==
    TypeOK /\ GroupsOfMembers /\ [Next]_vars
      => /\ GroupsOfMembers'
         /\ \A m \in Nodes : groupOf[m] = ServerGroup[m]
                               => groupOf'[m] = ServerGroup[m]
<1> SUFFICES ASSUME TypeOK, GroupsOfMembers, [Next]_vars, NEW m \in Nodes
             PROVE  /\ clusterOf'[m] = None => groupOf'[m] = None
                    /\ groupOf[m] = ServerGroup[m] => groupOf'[m] = ServerGroup[m]
  BY DEF GroupsOfMembers
<1>1. /\ clusterOf[m] = None => groupOf[m] = None
      /\ ServerGroup[m] # None
  BY NodeConfigAssumption, NoneAssumption DEF GroupsOfMembers
<1>2. CASE clusterOf' = clusterOf /\ groupOf' = groupOf
  BY <1>1, <1>2
<1>3. CASE \E n \in Nodes : Step(n)
  <2> PICK n \in Nodes : Step(n)
    BY <1>3
  <2> DEFINE r == rally[n]
  <2>1. r \in Nodes /\ ServiceTypeOK
    BY DEF TypeOK, RunTypeOK
  <2>2. CASE \/ UNCHANGED service \/ NodeInitEffect(n)
             \/ AlternateAddressEffect(n)
             \/ GroupCreateEffect(r, ServerGroup[n])
             \/ RebalanceEffect(r)
             \/ LoadTrustedEffect(n, CaCert[n])
             \/ ReloadCertificateEffect(n, CaKey[n]) \/ ClientAuthEffect(r)
    BY <1>2, <2>2 DEF NodeInitEffect, AlternateAddressEffect,
       GroupCreateEffect, RebalanceEffect, LoadTrustedEffect,
       ReloadCertificateEffect, ClientAuthEffect, service, membership
  <2>3. CASE ClusterInitAccepted(r) /\ ClusterInitEffect(r)
    BY <1>1, <2>1, <2>3, NoneAssumption
       DEF ClusterInitAccepted, ClusterInitEffect, ServiceTypeOK
  <2>4. CASE ServerAddAccepted(n, r) /\ ServerAddEffect(n, r)
    BY <1>1, <2>1, <2>4
       DEF ServerAddAccepted, ServerAddEffect, Initialized, ServiceTypeOK
  <2>5. CASE Member(n, r) /\ MoveEffect(n, ServerGroup[n])
    BY <1>1, <2>1, <2>5 DEF MoveEffect, Member, Initialized, ServiceTypeOK
  <2> QED BY <2>2, <2>3, <2>4, <2>5, StepEffects
<1>4. CASE (\E n \in Nodes : Invoke(n) \/ Break(n)) \/ UNCHANGED vars
  BY <1>2, <1>4 DEF Invoke, Break, vars, service, membership
<1> QED BY <1>3, <1>4 DEF Next

\* No run, rerun or lost reply takes a node out of its server group.
THEOREM GroupsAreKept == Spec => GroupKept
<1>1. Init => GroupsOfMembers
  <2>1. Init => groupOf = [n \in Nodes |-> None]
    BY DEF Init, ServiceInit
  <2> QED BY <2>1 DEF GroupsOfMembers
<1>2. Spec => []GroupsOfMembers
  BY <1>1, NextGroup, TypeCorrect, PTL DEF Spec
<1>3. TypeOK /\ GroupsOfMembers /\ [Next]_vars
        => [\A n \in Nodes : groupOf[n] = ServerGroup[n]
                               => groupOf'[n] = ServerGroup[n]]_vars
  BY NextGroup
<1> QED BY <1>2, <1>3, TypeCorrect, PTL DEF Spec, GroupKept

-----------------------------------------------------------------------------
(* Refinement.                                                             *)

\* The stage of a node changes with its own steps only, one stage at a time.
LEMMA StageSteps ==
    ASSUME IInv, IInv', NEW n \in Nodes, Step(n),
           groupOf[n] = ServerGroup[n] => groupOf'[n] = ServerGroup[n]
    PROVE  /\ \A m \in Nodes \ {n} : StageOf(m)' = StageOf(m)
           /\ \/ StageOf(n)' = StageOf(n)
              \/ StageOf(n) = "fresh" /\ StageOf(n)' = "prepared"
              \/ StageOf(n) = "prepared" /\ StageOf(n)' \in {"joined", "placed"}
              \/ StageOf(n) = "joined" /\ StageOf(n)' = "placed"
<1>1. Grows /\ ServiceOnlyAt(n)
  BY StepFrame DEF IInv, NodeInv
<1>2. ASSUME NEW m \in Nodes \ {n} PROVE StageOf(m)' = StageOf(m)
  BY <1>1, <1>2 DEF ServiceOnlyAt, StageOf, Prepared, Placed
<1>3. Prepared(n) => Prepared(n)'
  BY <1>1 DEF Grows, Prepared
<1>4. clusterOf[n] # None => clusterOf'[n] # None
  BY <1>1 DEF Grows
<1>5. clusterOf[n] = None /\ clusterOf'[n] # None => Prepared(n)
  <2>1. clusterOf[n] = None /\ clusterOf'[n] # None
          => pc[n] \in {"cluster_init", "server_add"}
    BY StepEffects DEF NodeInitEffect, AlternateAddressEffect,
       GroupCreateEffect, MoveEffect, RebalanceEffect, LoadTrustedEffect,
       ReloadCertificateEffect, ClientAuthEffect, service, membership
  <2> QED BY <2>1 DEF IInv, NodeInv, PreparedInv
<1>6. Placed(n) => Placed(n)'
  BY DEF Placed
<1>7. \/ StageOf(n)' = StageOf(n)
      \/ StageOf(n) = "fresh" /\ StageOf(n)' = "prepared"
      \/ StageOf(n) = "prepared" /\ StageOf(n)' \in {"joined", "placed"}
      \/ StageOf(n) = "joined" /\ StageOf(n)' = "placed"
  BY <1>3, <1>4, <1>5, <1>6 DEF StageOf
<1> QED BY <1>2, <1>7

\* What a step reports follows the stage it leaves its node in.
LEMMA ReportSteps ==
    ASSUME IInv, IInv', NEW n \in Nodes, RunOnlyAt(n), pc[n] # "idle"
    PROVE  LET reported == {m \in Nodes : result[m] = "success"}
           IN  \/ reported' = reported
               \/ /\ StageOf(n)' = "placed"
                  /\ reported' = reported \cup {n}
<1> DEFINE reported == {m \in Nodes : result[m] = "success"}
<1>1. /\ reported' = {m \in Nodes : result'[m] = "success"}
      /\ result[n] = "none"
      /\ \A m \in Nodes \ {n} : result'[m] = result[m]
  BY DEF RunOnlyAt, IInv, NodeInv, CommandInv
<1>2. CASE result'[n] = "success"
  <2>1. StageOf(n)' = "placed"
    BY <1>2 DEF IInv, NodeInv, JoinedInv, Member, Initialized, StageOf
  <2> QED BY <1>1, <1>2, <2>1
<1>3. CASE result'[n] # "success"
  BY <1>1, <1>3
<1> QED BY <1>2, <1>3

LEMMA NextRefines ==
    ASSUME IInv, IInv', [Next]_vars,
           \A m \in Nodes : groupOf[m] = ServerGroup[m]
                              => groupOf'[m] = ServerGroup[m]
    PROVE  [P!Next]_(P!vars)
<1> DEFINE stage == [m \in Nodes |-> StageOf(m)]
           reported == {m \in Nodes : result[m] = "success"}
<1>1. stage' = [m \in Nodes |-> StageOf(m)']
  OBVIOUS
<1>2. ASSUME NEW n \in Nodes, Step(n) PROVE P!Next
  <2>1. /\ \A m \in Nodes \ {n} : StageOf(m)' = StageOf(m)
        /\ \/ StageOf(n)' = StageOf(n)
           \/ StageOf(n) = "fresh" /\ StageOf(n)' = "prepared"
           \/ StageOf(n) = "prepared" /\ StageOf(n)' \in {"joined", "placed"}
           \/ StageOf(n) = "joined" /\ StageOf(n)' = "placed"
    BY <1>2, StageSteps
  <2>2. pc[n] # "idle" /\ RunOnlyAt(n)
    <3>1. RunOnlyAt(n)
      BY <1>2, StepFrame DEF IInv, NodeInv
    <3>2. pc[n] # "idle"
      BY <1>2 DEF Step, Connect, IsCluster, IsNode, ClusterWait, InitCheck,
         NodeInit, ExternalIp, ClusterUpdate, ClusterInit, ServerAdd,
         GetNodeGroup, IsGroup, CreateGroup, MoveGroup, CaLoad, CertWait,
         NodeCertUpdate, ReloadNodeCert, Rebalance, CertAuth
    <3> QED BY <3>1, <3>2
  <2>3. \/ reported' = reported
        \/ StageOf(n)' = "placed" /\ reported' = reported \cup {n}
    BY <2>2, ReportSteps
  <2>4. stage' = [stage EXCEPT ![n] = StageOf(n)']
    BY <1>1, <2>1
  <2>5. stage[n] = StageOf(n) /\ stage'[n] = StageOf(n)'
    BY <1>1
  <2>6. P!MayReport(n)
    BY <2>3, <2>5 DEF P!MayReport
  <2>7. CASE StageOf(n)' = StageOf(n)
    <3>1. stage' = stage
      BY <2>4, <2>5, <2>7
    <3> QED BY <2>6, <3>1 DEF P!Next, P!Report
  <2>8. CASE StageOf(n) = "fresh" /\ StageOf(n)' = "prepared"
    BY <2>4, <2>5, <2>6, <2>8 DEF P!Next, P!Prepare, P!Advance
  <2>9. CASE StageOf(n) = "prepared" /\ StageOf(n)' = "joined"
    BY <2>4, <2>5, <2>6, <2>9 DEF P!Next, P!Join, P!Advance
  <2>10. CASE StageOf(n) = "prepared" /\ StageOf(n)' = "placed"
    BY <2>4, <2>5, <2>6, <2>10 DEF P!Next, P!JoinInPlace, P!Advance
  <2>11. CASE StageOf(n) = "joined" /\ StageOf(n)' = "placed"
    BY <2>4, <2>5, <2>6, <2>11 DEF P!Next, P!Place, P!Advance
  <2> QED BY <2>1, <2>7, <2>8, <2>9, <2>10, <2>11
<1>3. ASSUME UNCHANGED service PROVE stage' = stage
  BY <1>3 DEF service, membership, nodeState, StageOf, Prepared, Placed
<1>4. ASSUME NEW n \in Nodes, Invoke(n) PROVE P!Next
  <2>1. result' = [result EXCEPT ![n] = "none"]
    BY <1>4 DEF Invoke
  <2>2. reported' = reported \ {n}
    BY <2>1 DEF IInv, TypeOK, RunTypeOK
  <2>3. stage' = stage
    BY <1>3, <1>4 DEF Invoke
  <2> QED BY <2>2, <2>3 DEF P!Next, P!Begin
<1>5. ASSUME NEW n \in Nodes, Break(n) PROVE P!Next
  <2>1. RunOnlyAt(n) /\ pc[n] # "idle" /\ UNCHANGED service
    BY <1>5, ControlOnlyAt DEF Break, IInv, TypeOK
  <2>2. stage' = stage
    BY <1>3, <2>1
  <2>3. \/ reported' = reported
        \/ stage'[n] = "placed" /\ reported' = reported \cup {n}
    BY <1>1, <2>1, ReportSteps
  <2> QED BY <2>2, <2>3 DEF P!Next, P!Report, P!MayReport
<1>6. CASE UNCHANGED vars
  <2>1. stage' = stage
    BY <1>3, <1>6 DEF vars
  <2>2. reported' = reported
    BY <1>6 DEF vars, run
  <2> QED BY <2>1, <2>2 DEF P!vars
<1> QED BY <1>2, <1>4, <1>5, <1>6 DEF Next

\* swmgr cluster implements Provisioning, for any nodes and configuration
\* as long as create runs on its own rally node.
THEOREM Refinement ==
    ASSUME LocalCreate
    PROVE  Spec => ImplementsProvisioning
<1>1. Init => P!Init
  <2> SUFFICES ASSUME Init PROVE P!Init
    OBVIOUS
  <2>1. /\ clusterOf = [n \in Nodes |-> None] /\ nodeInit = {}
        /\ result = [n \in Nodes |-> "none"]
    BY DEF Init, ServiceInit
  <2>2. \A n \in Nodes : StageOf(n) = "fresh"
    BY <2>1 DEF StageOf, Prepared
  <2> QED BY <2>1, <2>2 DEF P!Init
<1>2. IInv /\ IInv' /\ [Next]_vars
        /\ [\A n \in Nodes : groupOf[n] = ServerGroup[n]
                               => groupOf'[n] = ServerGroup[n]]_vars
        => [P!Next]_(P!vars)
  <2> SUFFICES ASSUME IInv, IInv', [Next]_vars,
                      [\A n \in Nodes : groupOf[n] = ServerGroup[n]
                         => groupOf'[n] = ServerGroup[n]]_vars
               PROVE  [P!Next]_(P!vars)
    OBVIOUS
  <2>1. \A n \in Nodes : groupOf[n] = ServerGroup[n]
                           => groupOf'[n] = ServerGroup[n]
    BY DEF vars, service, membership
  <2> QED BY <2>1, NextRefines
<1> QED BY <1>1, <1>2, Invariance, GroupsAreKept, PTL
        DEF Spec, GroupKept, ImplementsProvisioning, P!Spec
=============================================================================
