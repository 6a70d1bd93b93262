---------------------------- MODULE ClusterSetup ----------------------------
(***************************************************************************)
(* `swmgr cluster <command>` of pyhostprep/swmgr.py, run on every node     *)
(* of a cluster at its own pace, down to each call it makes on the service *)
(* (pyhostprep/server.py).  One process per node; a step is one call on    *)
(* the service with the code up to the next call.                          *)
(*                                                                         *)
(* Any call can fail, and its reply can be lost after it took effect (a    *)
(* time-out of couchbase-cli, a reset connection); a run can be broken off *)
(* by Ctrl-C at any point.  FatalError.__init__ calls sys.exit(1), so      *)
(* every raise of ClusterSetupError ends the run.                          *)
(***************************************************************************)
EXTENDS CouchbaseService

CONSTANTS
    Calls,            \* the command lines an operator types
    Community,        \* --community, the same on every node
    ServerGroup,      \* --server-group of each node
    External,         \* nodes run with --external-ip-address
    NoData,           \* nodes whose --services leave out "data"
    CaCert, CaKey,    \* the CA certificate and CA key found on each node
    GroupRetries,     \* retry_count of node_change_group: 10 in the code
    RebalanceRetries, \* retry_count of rebalance: 10
    WaitRetries,      \* retry_count of cluster_wait: 30
    CertRetries,      \* op_retry of cert_wait: 15
    MaxRuns,          \* bound: runs of swmgr, over all nodes
    MaxFaults         \* bound: failed calls, lost replies and breaks

Commands == {"create", "add", "update", "rebalance",
             "ca_cert", "node_cert", "cert_auth", "wait"}

ASSUME CallsAssumption ==
    Calls \subseteq [node : Nodes, cmd : Commands, rally : Nodes]
ASSUME NodeConfigAssumption ==
    /\ Community \in BOOLEAN
    /\ ServerGroup \in [Nodes -> Groups]
    /\ External \subseteq Nodes
    /\ NoData \subseteq Nodes
    /\ CaCert \in [Nodes -> CAs \cup {None}]
    /\ CaKey \in [Nodes -> CAs \cup {None}]
ASSUME BoundsAssumption ==
    /\ GroupRetries \in Nat /\ RebalanceRetries \in Nat
    /\ WaitRetries \in Nat /\ CertRetries \in Nat \ {0}
    /\ MaxRuns \in Nat /\ MaxFaults \in Nat

VARIABLES
    pc,      \* the next call of the run on a node, "idle" between runs
    cmd,     \* the command of the current or last run
    rally,   \* its --rally-ip-address
    from,    \* current_group of node_change_group
    tries,   \* attempts of the retry loop the run is in
    result,  \* what the last run printed or raised, "none" while it runs
    runs,    \* runs started
    faults   \* faults so far

run  == <<pc, cmd, rally, from, tries, result>>
vars == <<service, run, runs, faults>>

CreatePath == {"is_cluster", "cluster_init", "ca_load", "cert_wait"}
AddPath    == {"is_node", "cluster_wait", "cluster_update", "server_add"}
NodePath   == {"init_check", "node_init", "external_ip"}
GroupPath  == {"get_group", "is_group", "create_group", "move"}
Labels     == CreatePath \cup AddPath \cup NodePath \cup GroupPath
                \cup {"idle", "connect", "rebalance", "node_cert", "reload_cert",
                     "cert_auth"}
Results    == {"none", "success", "already", "done", "error", "wait_error",
               "group_error", "broken"}

RunTypeOK ==
    /\ pc \in [Nodes -> Labels]
    /\ cmd \in [Nodes -> Commands]
    /\ rally \in [Nodes -> Nodes]
    /\ from \in [Nodes -> Groups \cup {None}]
    /\ tries \in [Nodes -> Nat]
    /\ result \in [Nodes -> Results]
    /\ runs \in Nat

TypeOK == ServiceTypeOK /\ RunTypeOK /\ faults \in Nat

Init ==
    /\ ServiceInit
    /\ pc = [n \in Nodes |-> "idle"]
    /\ cmd = [n \in Nodes |-> "wait"]
    /\ rally = [n \in Nodes |-> n]
    /\ from = [n \in Nodes |-> None]
    /\ tries = [n \in Nodes |-> 0]
    /\ result = [n \in Nodes |-> "none"]
    /\ runs = 0
    /\ faults = 0

-----------------------------------------------------------------------------
(* Calls on the service.                                                   *)

\* ok: done, exit code 0; rejected: refused; failed: not done; lost: done,
\* and the caller sees an error.
Outcomes(accepted) ==
    IF accepted
    THEN {"ok"} \cup (IF faults < MaxFaults THEN {"failed", "lost"} ELSE {})
    ELSE {"rejected"}

Applied(o) == o \in {"ok", "lost"}

Charge(o) == faults' = IF o \in {"failed", "lost"} THEN faults + 1 ELSE faults

\* A call that only reads: there is no effect to lose the reply of.
Answers(truth) == Outcomes(truth) \ {"lost"}

-----------------------------------------------------------------------------
(* Control.                                                                *)

Goto(n, label) ==
    /\ pc' = [pc EXCEPT ![n] = label]
    /\ tries' = [tries EXCEPT ![n] = 0]
    /\ UNCHANGED <<cmd, rally, from, result, runs>>

Exit(n, outcome) ==
    /\ pc' = [pc EXCEPT ![n] = "idle"]
    /\ tries' = [tries EXCEPT ![n] = 0]
    /\ result' = [result EXCEPT ![n] = outcome]
    /\ UNCHANGED <<cmd, rally, from, runs>>

\* Faulty variants of Retry: the counter runs down, or is not advanced.
Retry_CountsDown(n, retries, outcome) ==
    IF retries + tries[n] > 0
    THEN /\ tries' = [tries EXCEPT ![n] = @ - 1]
         /\ UNCHANGED <<pc, cmd, rally, from, result, runs>>
    ELSE Exit(n, outcome)
Retry_Forever(n, retries, outcome) == UNCHANGED run /\ UNCHANGED runs

\* The next round of a retry loop, or giving up after the last one.
Retry(n, retries, outcome) ==
    IF tries[n] < retries
    THEN /\ tries' = [tries EXCEPT ![n] = @ + 1]
         /\ UNCHANGED <<pc, cmd, rally, from, result, runs>>
    ELSE Exit(n, outcome)

\* After node_init returns.
AfterNodeInit(n) ==
    IF cmd[n] = "create" THEN Goto(n, "cluster_init")
    ELSE IF n \in NoData THEN Goto(n, "cluster_update")
    ELSE Goto(n, "server_add")

\* After node_change_group returns: the custom certificates, if any.
HasCaMaterials(n) == CaCert[n] # None /\ CaKey[n] # None
\* Faulty variant: the edition is not asked.
AfterGroup_AnyEdition(n) ==
    IF cmd[n] = "create" /\ HasCaMaterials(n) THEN Goto(n, "ca_load")
    ELSE Exit(n, "success")

AfterGroup(n) ==
    IF Community THEN Exit(n, "success")
    ELSE IF cmd[n] = "create" /\ HasCaMaterials(n) THEN Goto(n, "ca_load")
    ELSE IF cmd[n] = "add" /\ CaKey[n] # None THEN Goto(n, "node_cert")
    ELSE Exit(n, "success")

\* After cluster-init or server-add: node_change_group returns at once on
\* Community Edition.
\* Faulty variant: no node_change_group.
AfterJoin_NoGroup(n) == AfterGroup(n)
AfterJoin(n) == IF Community THEN AfterGroup(n) ELSE Goto(n, "get_group")

-----------------------------------------------------------------------------
(* Starting and breaking off a run.                                        *)

\* swmgr refuses `update` without an external address before it starts.
Invoke(n) ==
    /\ pc[n] = "idle"
    /\ runs < MaxRuns
    /\ \E c \in Calls :
         /\ c.node = n
         /\ c.cmd = "update" => n \in External
         /\ cmd' = [cmd EXCEPT ![n] = c.cmd]
         /\ rally' = [rally EXCEPT ![n] = c.rally]
    /\ pc' = [pc EXCEPT ![n] = "connect"]
    /\ from' = [from EXCEPT ![n] = None]
    /\ result' = [result EXCEPT ![n] = "none"]
    /\ runs' = runs + 1
    /\ UNCHANGED <<service, tries, faults>>

Break(n) ==
    /\ pc[n] # "idle"
    /\ faults < MaxFaults
    /\ faults' = faults + 1
    /\ Exit(n, "broken")
    /\ UNCHANGED service

\* ca_cert and cert_auth act on the rally node of an Enterprise cluster only.
Skipped(n) == n # rally[n] \/ Community

\* The command of swmgr.py: what each runs first, or why it is skipped.
Dispatch(n) ==
    \/ cmd[n] = "create" /\ Goto(n, "is_cluster")
    \/ cmd[n] = "add" /\ Goto(n, "is_node")
    \/ cmd[n] = "update" /\ Goto(n, "external_ip")
    \/ cmd[n] = "wait" /\ Goto(n, "cluster_wait")
    \/ /\ cmd[n] = "rebalance"
       /\ IF Community THEN Exit(n, "done") ELSE Goto(n, "rebalance")
    \/ /\ cmd[n] = "ca_cert"
       /\ IF Skipped(n) THEN Exit(n, "done")
          ELSE IF HasCaMaterials(n) THEN Goto(n, "ca_load")
          ELSE Exit(n, "error")
    \/ /\ cmd[n] = "node_cert"
       /\ IF Community THEN Exit(n, "done") ELSE Goto(n, "node_cert")
    \/ /\ cmd[n] = "cert_auth"
       /\ IF Skipped(n) THEN Exit(n, "done")
          ELSE Goto(n, "cert_auth")

\* CouchbaseServer.__init__: wait_port on the node and on the rally node.
Connect(n) ==
    /\ pc[n] = "connect"
    /\ \E o \in Answers(TRUE) :
         /\ Charge(o)
         /\ IF o # "ok" THEN Exit(n, "error") ELSE Dispatch(n)
    /\ UNCHANGED service

-----------------------------------------------------------------------------
(* create and add up to the join.                                          *)

\* is_cluster: setting-cluster fails on a node that is in no cluster.
ClusterSeen(n) == Initialized(rally[n])

\* is_node: host-list names the members of the rally node's cluster.
NodeSeen(n) == Member(n, rally[n])

\* create_cluster.
IsCluster(n) ==
    /\ pc[n] = "is_cluster"
    /\ \E o \in Answers(ClusterSeen(n)) :
         /\ Charge(o)
         /\ IF o = "ok" THEN Exit(n, "already") ELSE Goto(n, "init_check")
    /\ UNCHANGED service

\* add_node.
IsNode(n) ==
    /\ pc[n] = "is_node"
    /\ \E o \in Answers(NodeSeen(n)) :
         /\ Charge(o)
         /\ IF o = "ok" THEN Exit(n, "already") ELSE Goto(n, "cluster_wait")
    /\ UNCHANGED service

\* server-list succeeds once the rally node has a cluster.  `wait` drops
\* what cluster_wait returns; add_node raises on it.
ClusterWait(n) ==
    /\ pc[n] = "cluster_wait"
    /\ \E o \in Answers(Initialized(rally[n])) :
         /\ Charge(o)
         /\ IF o # "ok"
            THEN Retry(n, WaitRetries,
                       IF cmd[n] = "wait" THEN "done" ELSE "wait_error")
            ELSE IF cmd[n] = "wait" THEN Exit(n, "done")
            ELSE Goto(n, "init_check")
    /\ UNCHANGED service

\* Faulty variant: asks is_cluster instead of is_node.
InitCheck_IsCluster(n) ==
    /\ pc[n] = "init_check"
    /\ \E o \in Answers(ClusterSeen(n)) :
         /\ Charge(o)
         /\ IF o = "ok" THEN AfterNodeInit(n) ELSE Goto(n, "node_init")
    /\ UNCHANGED service

\* node_init asks is_node again and does nothing on a member.
InitCheck(n) ==
    /\ pc[n] = "init_check"
    /\ \E o \in Answers(NodeSeen(n)) :
         /\ Charge(o)
         /\ IF o = "ok" THEN AfterNodeInit(n) ELSE Goto(n, "node_init")
    /\ UNCHANGED service

\* Faulty variant: the external address is left to `update`.
NodeInit_NoAddress(n) ==
    /\ pc[n] = "node_init"
    /\ \E o \in Outcomes(NodeInitAccepted(n)) :
         /\ Charge(o)
         /\ IF Applied(o) THEN NodeInitEffect(n) ELSE UNCHANGED service
         /\ IF o # "ok" THEN Exit(n, "error") ELSE AfterNodeInit(n)

NodeInit(n) ==
    /\ pc[n] = "node_init"
    /\ \E o \in Outcomes(NodeInitAccepted(n)) :
         /\ Charge(o)
         /\ IF Applied(o) THEN NodeInitEffect(n) ELSE UNCHANGED service
         /\ IF o # "ok" THEN Exit(n, "error")
            ELSE IF n \in External THEN Goto(n, "external_ip")
            ELSE AfterNodeInit(n)

\* node_external_ip, within node_init and for `update`.
ExternalIp(n) ==
    /\ pc[n] = "external_ip"
    /\ \E o \in Outcomes(TRUE) :
         /\ Charge(o)
         /\ IF Applied(o) THEN AlternateAddressEffect(n)
            ELSE UNCHANGED service
         /\ IF o # "ok" THEN Exit(n, "error")
            ELSE IF cmd[n] = "update" THEN Exit(n, "done")
            ELSE AfterNodeInit(n)

\* cluster_update sets the quotas of the cluster, which are not part of the
\* state here.
ClusterUpdate(n) ==
    /\ pc[n] = "cluster_update"
    /\ \E o \in Outcomes(Initialized(rally[n])) :
         /\ Charge(o)
         /\ IF o = "ok" THEN Goto(n, "server_add") ELSE Exit(n, "error")
    /\ UNCHANGED service

\* cluster-init runs on the rally node, whichever node create runs on.
ClusterInit(n) ==
    /\ pc[n] = "cluster_init"
    /\ \E o \in Outcomes(ClusterInitAccepted(rally[n])) :
         /\ Charge(o)
         /\ IF Applied(o) THEN ClusterInitEffect(rally[n])
            ELSE UNCHANGED service
         /\ IF o = "ok" THEN AfterJoin(n) ELSE Exit(n, "error")

\* Faulty variant: an error of server-add is not raised.
ServerAdd_NoRaise(n) ==
    /\ pc[n] = "server_add"
    /\ \E o \in Outcomes(ServerAddAccepted(n, rally[n])) :
         /\ Charge(o)
         /\ IF Applied(o) THEN ServerAddEffect(n, rally[n])
            ELSE UNCHANGED service
         /\ AfterJoin(n)

ServerAdd(n) ==
    /\ pc[n] = "server_add"
    /\ \E o \in Outcomes(ServerAddAccepted(n, rally[n])) :
         /\ Charge(o)
         /\ IF Applied(o) THEN ServerAddEffect(n, rally[n])
            ELSE UNCHANGED service
         /\ IF o = "ok" THEN AfterJoin(n) ELSE Exit(n, "error")

-----------------------------------------------------------------------------
(* node_change_group.                                                      *)

\* get_node_group: None when the rally node's groups do not list the node.
NodeGroupSeen(n) ==
    IF Member(n, rally[n]) THEN groupOf[n] ELSE None

\* Faulty variant: a node that no group lists needs no move.
GetNodeGroup_NoneIsFine(n) ==
    /\ pc[n] = "get_group"
    /\ \E o \in Answers(TRUE) :
         /\ Charge(o)
         /\ IF o # "ok" THEN Exit(n, "error")
            ELSE IF NodeGroupSeen(n) \in {ServerGroup[n], None}
            THEN AfterGroup(n)
            ELSE /\ pc' = [pc EXCEPT ![n] = "is_group"]
                 /\ from' = [from EXCEPT ![n] = NodeGroupSeen(n)]
                 /\ UNCHANGED <<cmd, rally, tries, result, runs>>
    /\ UNCHANGED service

GetNodeGroup(n) ==
    /\ pc[n] = "get_group"
    /\ \E o \in Answers(TRUE) :
         /\ Charge(o)
         /\ IF o # "ok" THEN Exit(n, "error")
            ELSE IF NodeGroupSeen(n) = ServerGroup[n] THEN AfterGroup(n)
            ELSE /\ pc' = [pc EXCEPT ![n] = "is_group"]
                 /\ from' = [from EXCEPT ![n] = NodeGroupSeen(n)]
                 /\ UNCHANGED <<cmd, rally, tries, result, runs>>
    /\ UNCHANGED service

GroupExists(n) ==
    /\ Initialized(rally[n])
    /\ ServerGroup[n] \in groups[clusterOf[rally[n]]]

\* Faulty variant: groups are listed without --group-name.
IsGroup_AnyGroup(n) ==
    /\ pc[n] = "is_group"
    /\ \E o \in Answers(Initialized(rally[n])) :
         /\ Charge(o)
         /\ IF o = "ok" THEN Goto(n, "move") ELSE Goto(n, "create_group")
    /\ UNCHANGED service

IsGroup(n) ==
    /\ pc[n] = "is_group"
    /\ \E o \in Answers(GroupExists(n)) :
         /\ Charge(o)
         /\ IF o = "ok" THEN Goto(n, "move") ELSE Goto(n, "create_group")
    /\ UNCHANGED service

\* Faulty variant: an error of group-manage --create is not raised.
CreateGroup_NoRaise(n) ==
    /\ pc[n] = "create_group"
    /\ \E o \in Outcomes(GroupCreateAccepted(rally[n], ServerGroup[n])) :
         /\ Charge(o)
         /\ IF Applied(o) THEN GroupCreateEffect(rally[n], ServerGroup[n])
            ELSE UNCHANGED service
         /\ Goto(n, "move")

CreateGroup(n) ==
    /\ pc[n] = "create_group"
    /\ \E o \in Outcomes(GroupCreateAccepted(rally[n], ServerGroup[n])) :
         /\ Charge(o)
         /\ IF Applied(o) THEN GroupCreateEffect(rally[n], ServerGroup[n])
            ELSE UNCHANGED service
         /\ IF o = "ok" THEN Goto(n, "move") ELSE Exit(n, "error")

\* Faulty variants: the last failure falls through, as in `return False`; or
\* --move-servers names the rally node.
MoveGroup_NoRaise(n) ==
    /\ pc[n] = "move"
    /\ \E o \in Outcomes(MoveAccepted(n, rally[n], from[n], ServerGroup[n])) :
         /\ Charge(o)
         /\ IF Applied(o) THEN MoveEffect(n, ServerGroup[n])
            ELSE UNCHANGED service
         /\ IF o = "ok" \/ tries[n] = GroupRetries THEN AfterGroup(n)
            ELSE Retry(n, GroupRetries, "group_error")
MoveGroup_RallyNode(n) ==
    /\ pc[n] = "move"
    /\ \E o \in Outcomes(MoveAccepted(rally[n], rally[n], from[n],
                                      ServerGroup[n])) :
         /\ Charge(o)
         /\ IF Applied(o) THEN MoveEffect(rally[n], ServerGroup[n])
            ELSE UNCHANGED service
         /\ IF o = "ok" THEN AfterGroup(n)
            ELSE Retry(n, GroupRetries, "group_error")

\* The command line is built once, before the loop, from the group read in
\* GetNodeGroup.  Without one, joining its words raises TypeError, which
\* nothing catches.
MoveGroup(n) ==
    /\ pc[n] = "move"
    /\ IF from[n] = None
       THEN Exit(n, "error") /\ UNCHANGED <<service, faults>>
       ELSE \E o \in Outcomes(MoveAccepted(n, rally[n], from[n], ServerGroup[n])) :
              /\ Charge(o)
              /\ IF Applied(o) THEN MoveEffect(n, ServerGroup[n])
                 ELSE UNCHANGED service
              /\ IF o = "ok" THEN AfterGroup(n)
                 ELSE Retry(n, GroupRetries, "group_error")

-----------------------------------------------------------------------------
(* Certificates, client authentication, rebalance.                         *)

\* cluster_ca_load: the key must match the certificate; the answer of
\* loadTrustedCAs must carry id 1.
CaLoad(n) ==
    /\ pc[n] = "ca_load"
    /\ IF CaKey[n] # CaCert[n]
       THEN Exit(n, "error") /\ UNCHANGED <<service, faults>>
       ELSE \E o \in Outcomes(TRUE) :
              /\ Charge(o)
              /\ IF Applied(o) THEN LoadTrustedEffect(n, CaCert[n])
                 ELSE UNCHANGED service
              /\ IF o = "ok" /\ LoadedId(n, CaCert[n]) = 1
                 THEN Goto(n, "cert_wait") ELSE Exit(n, "error")

\* cert_wait retries an error of the REST call.  Too few certificates raise
\* ClusterSetupError, which ends the run.
CertWait(n) ==
    /\ pc[n] = "cert_wait"
    /\ \E o \in Answers(TRUE) :
         /\ Charge(o)
         /\ IF o # "ok" THEN Retry(n, CertRetries - 1, "error")
            ELSE IF Trusted(n) = {} THEN Exit(n, "error")
            ELSE IF cmd[n] = "create" THEN Goto(n, "node_cert")
            ELSE Exit(n, "done")
    /\ UNCHANGED service

\* Faulty variant: any trusted authority will do, as without a local key.
TrustedRootCa_Any(n) == Trusted(n)

\* node_cert_update reads the trust store for the authority the local key
\* matches.  (The external address it also asks for goes into the
\* certificate only.)
TrustedRootCa(n) == {ca \in Trusted(n) : ca = CaKey[n]}
\* Faulty variant: a node without a matching authority is reported as done.
NodeCertUpdate_NoRaise(n) ==
    /\ pc[n] = "node_cert"
    /\ \E o \in Answers(TRUE) :
         /\ Charge(o)
         /\ IF o = "ok" /\ TrustedRootCa(n) # {}
            THEN Goto(n, "reload_cert") ELSE Exit(n, "success")
    /\ UNCHANGED service

NodeCertUpdate(n) ==
    /\ pc[n] = "node_cert"
    /\ \E o \in Answers(TRUE) :
         /\ Charge(o)
         /\ IF o = "ok" /\ TrustedRootCa(n) # {}
            THEN Goto(n, "reload_cert") ELSE Exit(n, "error")
    /\ UNCHANGED service

\* The certificate is signed with that authority.  What the service checks
\* itself when it reloads a certificate is not relied on.
ReloadNodeCert(n) ==
    /\ pc[n] = "reload_cert"
    /\ \E o \in Outcomes(TRUE) :
         /\ Charge(o)
         /\ IF Applied(o) THEN ReloadCertificateEffect(n, CaKey[n])
            ELSE UNCHANGED service
         /\ Exit(n, IF o # "ok" THEN "error"
                    ELSE IF cmd[n] = "node_cert" THEN "done" ELSE "success")

Rebalance(n) ==
    /\ pc[n] = "rebalance"
    /\ \E o \in Outcomes(Initialized(rally[n])) :
         /\ Charge(o)
         /\ IF Applied(o) THEN RebalanceEffect(rally[n]) ELSE UNCHANGED service
         /\ IF o = "ok" THEN Exit(n, "done")
            ELSE Retry(n, RebalanceRetries, "error")

CertAuth(n) ==
    /\ pc[n] = "cert_auth"
    /\ \E o \in Outcomes(Initialized(rally[n])) :
         /\ Charge(o)
         /\ IF Applied(o) THEN ClientAuthEffect(rally[n])
            ELSE UNCHANGED service
         /\ Exit(n, IF o = "ok" THEN "done" ELSE "error")

-----------------------------------------------------------------------------
Step(n) ==
    \/ Connect(n)
    \/ IsCluster(n) \/ IsNode(n) \/ ClusterWait(n)
    \/ InitCheck(n) \/ NodeInit(n) \/ ExternalIp(n)
    \/ ClusterUpdate(n) \/ ClusterInit(n) \/ ServerAdd(n)
    \/ GetNodeGroup(n) \/ IsGroup(n) \/ CreateGroup(n) \/ MoveGroup(n)
    \/ CaLoad(n) \/ CertWait(n) \/ NodeCertUpdate(n) \/ ReloadNodeCert(n)
    \/ Rebalance(n) \/ CertAuth(n)

Next == \E n \in Nodes : Invoke(n) \/ Step(n) \/ Break(n)

Spec == Init /\ [][Next]_vars

\* A run that was started keeps executing.  Nobody has to start one, and
\* nothing has to fail or to break.
FairSpec == Spec /\ \A n \in Nodes : WF_vars(Step(n))

-----------------------------------------------------------------------------
(* What a correct provisioning means.                                      *)

\* node-init and the external address of a node are done.
Prepared(n) == n \in nodeInit /\ (n \in External => n \in altAddr)

\* The node is in its server group; Community Edition has no groups.
Placed(n) == Community \/ groupOf[n] = ServerGroup[n]

\* What `create` or `add` promises about the node it ran on.
Configured(n) == Member(n, rally[n]) /\ Prepared(n) /\ Placed(n)

LocalCreate == \A c \in Calls : c.cmd = "create" => c.rally = c.node

-----------------------------------------------------------------------------
(* Safety.                                                                 *)

\* "Success" is printed by create_cluster and add_node only for a node that
\* is in the rally node's cluster, initialised, published under its external
\* address and in its server group, whatever failed or was lost in this run
\* or in earlier ones and whatever the other nodes have done since.
SuccessConfigured ==
    \A n \in Nodes : result[n] = "success" => Configured(n)

\* No node becomes a member before node-init and setting-alternate-address
\* have taken effect on it, although node_init skips both when is_node says
\* so.  (create must run on its own rally node: with another one, node-init
\* goes to this node and cluster-init to that.)
MembersPrepared ==
    \A n \in Nodes : clusterOf[n] # None => Prepared(n)

\* A run whose node_change_group has not moved the node yet still holds the
\* node's current group: the stale value only outlives the move itself.  And
\* the group it moves to exists, whoever created it.
MoveFresh ==
    \A n \in Nodes : pc[n] = "move" /\ from[n] # None =>
        /\ GroupExists(n)
        /\ groupOf[n] \in {from[n], ServerGroup[n]}

\* Every certificate a node serves is signed by an authority its cluster
\* trusts, across loads on other nodes and the change of trust store when
\* the node joins a cluster.
NodeCertTrusted ==
    \A n \in Nodes : nodeCert[n] \in Trusted(n) \cup {None}

\* Success on a node with a CA key of its own means its certificate is
\* signed with that key, the one matching certificate among those trusted.
SuccessCertified ==
    \A n \in Nodes : result[n] = "success" /\ ~Community =>
        /\ cmd[n] = "create" /\ HasCaMaterials(n) => nodeCert[n] = CaKey[n]
        /\ cmd[n] = "add" /\ CaKey[n] # None => nodeCert[n] = CaKey[n]

\* Community Edition: a run of any command leaves the Enterprise features
\* alone, server groups, trusted authorities and client authentication.
CommunityUntouched ==
    Community => /\ \A n \in Nodes : groups[n] = {DefaultGroup}
                 /\ \A n \in Nodes : Trusted(n) = {} /\ nodeCert[n] = None
                 /\ clientAuth = {}

-----------------------------------------------------------------------------
(* Action properties and liveness.                                         *)

\* A rerun never takes a node out of the server group it has been moved to.
GroupKept ==
    [][\A n \in Nodes : groupOf[n] = ServerGroup[n]
                          => groupOf'[n] = ServerGroup[n]]_vars

\* Every run ends: all retry loops are bounded, so no command waits for
\* another node for ever.
Terminates == \A n \in Nodes : pc[n] # "idle" ~> pc[n] = "idle"

-----------------------------------------------------------------------------
(* What the messages and the README say and the code does not keep: each   *)
(* is violated by a run of its own.                                        *)

\* "Cluster is already configured", "Node is already configured": the node
\* has all that create or add promises.
AlreadyConfigured ==
    \A n \in Nodes : result[n] = "already" => Configured(n)

\* README, "Create a three-node cluster (run on each node ...)": runs on
\* different nodes at the same time do not fail because of each other.
FaultFreeProvisioning ==
    faults = 0 => \A n \in Nodes : result[n] # "error"
=============================================================================
