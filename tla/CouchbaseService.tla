-------------------------- MODULE CouchbaseService --------------------------
(***************************************************************************)
(* The Couchbase service that pyhostprep drives with couchbase-cli and the *)
(* REST API, as pyhostprep/server.py uses it.  None of it is code of this  *)
(* repository: each command is an effect on the service's state and the    *)
(* condition under which the service accepts it, as the callers rely on.   *)
(* A cluster is named by the node on which cluster-init was run.           *)
(***************************************************************************)
EXTENDS Naturals

CONSTANTS
    Nodes,        \* the hosts that run Couchbase Server
    Groups,       \* server group names
    DefaultGroup, \* the group a node is put in when it joins ("Group 1")
    CAs,          \* certificate authorities; an authority stands for its
                  \* certificate and for the private key that matches it
    None          \* no cluster, no group, no authority

ASSUME NoneAssumption == None \notin Nodes \cup Groups \cup CAs
ASSUME DefaultGroupAssumption == DefaultGroup \in Groups

VARIABLES
    clusterOf,  \* the cluster a node is a member of, or None
    groups,     \* the server groups that exist in a cluster
    groupOf,    \* the server group of a member, or None
    active,     \* members that a rebalance has activated
    nodeInit,   \* nodes whose data paths and host name node-init has set
    altAddr,    \* nodes that publish an external address
    caId,       \* the id of an authority in a trust store, 0: not trusted,
                \* 1: the first one loaded, 2: a later one
    nodeCert,   \* the authority that signed a node's certificate, or None
                \* for the certificate the service generated
    clientAuth  \* clusters that ask clients for a certificate

membership == <<clusterOf, groups, groupOf, active>>
nodeState  == <<nodeInit, altAddr>>
certs      == <<caId, nodeCert, clientAuth>>
service    == <<membership, nodeState, certs>>

ServiceTypeOK ==
    /\ clusterOf \in [Nodes -> Nodes \cup {None}]
    /\ groups \in [Nodes -> SUBSET Groups]
    /\ groupOf \in [Nodes -> Groups \cup {None}]
    /\ active \subseteq Nodes
    /\ nodeInit \subseteq Nodes
    /\ altAddr \subseteq Nodes
    /\ caId \in [Nodes -> [CAs -> 0..2]]
    /\ nodeCert \in [Nodes -> CAs \cup {None}]
    /\ clientAuth \subseteq Nodes

\* Freshly installed nodes: no cluster, generated certificates.
ServiceInit ==
    /\ clusterOf = [n \in Nodes |-> None]
    /\ groups = [n \in Nodes |-> {DefaultGroup}]
    /\ groupOf = [n \in Nodes |-> None]
    /\ active = {}
    /\ nodeInit = {}
    /\ altAddr = {}
    /\ caId = [n \in Nodes |-> [ca \in CAs |-> 0]]
    /\ nodeCert = [n \in Nodes |-> None]
    /\ clientAuth = {}

-----------------------------------------------------------------------------
(* What the service answers.                                               *)

Initialized(r) == clusterOf[r] # None
Member(n, r)   == Initialized(r) /\ clusterOf[n] = clusterOf[r]

\* A node outside every cluster has a trust store of its own, and the
\* cluster that cluster-init makes of it keeps that store.
Store(n)   == IF clusterOf[n] = None THEN n ELSE clusterOf[n]
Trusted(n) == {ca \in CAs : caId[Store(n)][ca] > 0}

-----------------------------------------------------------------------------
(* The commands: when each is accepted, and what it does.                  *)

\* node-init changes paths, which a provisioned node refuses.
NodeInitAccepted(n) == clusterOf[n] = None
NodeInitEffect(n) ==
    /\ nodeInit' = nodeInit \cup {n}
    /\ UNCHANGED <<membership, altAddr, certs>>

AlternateAddressEffect(n) ==
    /\ altAddr' = altAddr \cup {n}
    /\ UNCHANGED <<membership, nodeInit, certs>>

ClusterInitAccepted(r) == clusterOf[r] = None
ClusterInitEffect(r) ==
    /\ clusterOf' = [clusterOf EXCEPT ![r] = r]
    /\ groupOf' = [groupOf EXCEPT ![r] = DefaultGroup]
    /\ active' = active \cup {r}
    /\ UNCHANGED <<groups, nodeState, certs>>

\* A node is added when it is in no cluster yet and the cluster trusts the
\* authority of its certificate; it stays inactive until a rebalance.
ServerAddAccepted(n, r) ==
    /\ Initialized(r)
    /\ clusterOf[n] = None
    /\ nodeCert[n] \in Trusted(r) \cup {None}
ServerAddEffect(n, r) ==
    /\ clusterOf' = [clusterOf EXCEPT ![n] = clusterOf[r]]
    /\ groupOf' = [groupOf EXCEPT ![n] = DefaultGroup]
    /\ UNCHANGED <<groups, active, nodeState, certs>>

GroupCreateAccepted(r, g) == Initialized(r) /\ g \notin groups[clusterOf[r]]
GroupCreateEffect(r, g) ==
    /\ groups' = [groups EXCEPT ![clusterOf[r]] = @ \cup {g}]
    /\ UNCHANGED <<clusterOf, groupOf, active, nodeState, certs>>

MoveAccepted(n, r, from, to) ==
    /\ Member(n, r)
    /\ groupOf[n] = from
    /\ to \in groups[clusterOf[r]]
MoveEffect(n, to) ==
    /\ groupOf' = [groupOf EXCEPT ![n] = to]
    /\ UNCHANGED <<clusterOf, groups, active, nodeState, certs>>

RebalanceEffect(r) ==
    /\ active' = active \cup {n \in Nodes : Member(n, r)}
    /\ UNCHANGED <<clusterOf, groups, groupOf, nodeState, certs>>

\* loadTrustedCAs adds the authority in the node's inbox to its trust store;
\* one that is there already keeps its id.
LoadedId(n, ca) ==
    IF caId[Store(n)][ca] > 0 THEN caId[Store(n)][ca]
    ELSE IF Trusted(n) = {} THEN 1 ELSE 2
LoadTrustedEffect(n, ca) ==
    /\ caId' = [caId EXCEPT ![Store(n)][ca] = LoadedId(n, ca)]
    /\ UNCHANGED <<membership, nodeState, nodeCert, clientAuth>>

ReloadCertificateEffect(n, ca) ==
    /\ nodeCert' = [nodeCert EXCEPT ![n] = ca]
    /\ UNCHANGED <<membership, nodeState, caId, clientAuth>>

ClientAuthEffect(r) ==
    /\ clientAuth' = clientAuth \cup {clusterOf[r]}
    /\ UNCHANGED <<membership, nodeState, caId, nodeCert>>
=============================================================================
