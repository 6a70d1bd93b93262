------------------------------- MODULE Quotas -------------------------------
(***************************************************************************)
(* The memory quotas of a cluster (pyhostprep/server.py).  A quota belongs *)
(* to a service of the whole cluster and is reserved on every node that    *)
(* runs the service, but each run of swmgr computes it from the memory and *)
(* the services of its own host (get_mem_config).  `create` sets them all  *)
(* on the rally node, `add` some of them before its node joins, and nodes  *)
(* are added by processes that run at the same time and can fail half way. *)
(*                                                                         *)
(* Only the calls that touch quotas or membership are here: the others are *)
(* in ClusterSetup.                                                        *)
(***************************************************************************)
EXTENDS Integers

CONSTANTS
    Nodes,     \* the hosts
    Rally,     \* the node that creates the cluster, rally node of the others
    Fleets,    \* the memory, in MB, and the services of each host: one
               \* member is what a behaviour is about
    Preset,    \* the quotas of the service before any is set
    Community, \* Community Edition
    MaxRuns,   \* bound: runs of swmgr
    MaxFaults  \* bound: refused and failed calls, lost replies and breaks

Sized    == {"data", "index", "fts", "eventing", "analytics"}
Services == Sized \cup {"query"}
HostType == [memory : Nat, services : SUBSET Services \ {{}}]

ASSUME RallyAssumption == Rally \in Nodes
ASSUME FleetsAssumption == Fleets \subseteq [Nodes -> HostType]
ASSUME PresetAssumption == Preset \in [Sized -> Nat \ {0}]
ASSUME CommunityAssumption == Community \in BOOLEAN
ASSUME BoundsAssumption == MaxRuns \in Nat /\ MaxFaults \in Nat

VARIABLES
    fleet,   \* the member of Fleets
    quota,   \* the memory the cluster gives each service on a node
    members, \* the nodes of the cluster
    pc,      \* the call a node's run is about to make
    runs, faults

vars == <<fleet, quota, members, pc, runs, faults>>

\* Couchbase takes no quota that is not positive.
TypeOK ==
    /\ fleet \in Fleets
    /\ quota \in [Sized -> Nat \ {0}]
    /\ members \subseteq Nodes
    /\ pc \in [Nodes -> {"idle", "init", "update", "add"}]
    /\ runs \in 0..MaxRuns
    /\ faults \in 0..MaxFaults

Init ==
    /\ fleet \in Fleets
    /\ quota = Preset
    /\ members = {}
    /\ pc = [n \in Nodes |-> "idle"]
    /\ runs = 0
    /\ faults = 0

-----------------------------------------------------------------------------
(* get_mem_config.                                                         *)

\* Faulty variant: never less than the 4 GB it should never exceed.
Reservation_Swapped(memory) ==
    LET osPool == (3 * memory) \div 10
    IN  IF osPool < 4096 THEN 4096 ELSE osPool

\* 30 percent for the operating system, between 2 and 4 GB.
Reservation(memory) ==
    LET osPool == (3 * memory) \div 10
    IN  IF osPool < 2048 THEN 2048 ELSE IF osPool > 4096 THEN 4096 ELSE osPool

\* Negative on a host with less than 2 GB.
MemoryPool(host) == host.memory - Reservation(host.memory)

One(s, host) == IF s \in host.services THEN 1 ELSE 0
SizedCount(host) == One("data", host) + One("index", host) + One("fts", host)
                      + One("eventing", host) + One("analytics", host)

\* The query service has no quota; it counts only where it is alone.
ServiceCount(host) == IF SizedCount(host) = 0 THEN 1 ELSE SizedCount(host)

\* int() drops the fraction of the quotient, towards zero.
Truncate(a, b) == IF a < 0 THEN -((-a) \div b) ELSE a \div b

Share(host) == Truncate(MemoryPool(host), ServiceCount(host))

\* What a service gets that does not run on the host.
Least(s) == IF s = "analytics" THEN 1024 ELSE 256

\* Faulty variant: the whole pool for each service.
QuotaOf_Pool(host, s) == IF s \in host.services THEN MemoryPool(host)
                         ELSE Least(s)

QuotaOf(host, s) == IF s \in host.services THEN Share(host) ELSE Least(s)

-----------------------------------------------------------------------------
Goto(n, label) == pc' = [pc EXCEPT ![n] = label]

\* A call ends as it should, or is refused or not done, or is done with its
\* reply lost; the last two end the run.
Call(n, next) ==
    \/ Goto(n, next) /\ UNCHANGED faults
    \/ Goto(n, "idle") /\ faults < MaxFaults /\ faults' = faults + 1

Refused(n) ==
    /\ Goto(n, "idle")
    /\ faults < MaxFaults
    /\ faults' = faults + 1
    /\ UNCHANGED <<quota, members>>

\* create_cluster and add_node: nothing to do where there is a cluster, or
\* where the node is a member.  add waits for the cluster and gives up, which
\* changes nothing, when there is none.
Invoke(n) ==
    /\ pc[n] = "idle"
    /\ runs < MaxRuns
    /\ runs' = runs + 1
    /\ IF n = Rally THEN members = {} /\ Goto(n, "init")
       ELSE members # {} /\ n \notin members /\ Goto(n, "update")
    /\ UNCHANGED <<fleet, quota, members, faults>>

\* The quotas cluster-init is given; Community Edition has no others.
InitSets == IF Community THEN {"data", "index", "fts"} ELSE Sized

ClusterInit(n) ==
    /\ pc[n] = "init"
    /\ \/ /\ members = {}
          /\ quota' = [s \in Sized |-> IF s \in InitSets
                                       THEN QuotaOf(fleet[n], s) ELSE quota[s]]
          /\ members' = {n}
          /\ Call(n, "idle")
       \/ Refused(n)
    /\ UNCHANGED <<fleet, runs>>

\* Faulty variant: a node with the data service sets its quota as well.
Updates_Data(host) == host.services \cap Sized

\* What cluster_update sets: nothing at all for a node with the data service.
Updates(host) == IF "data" \in host.services THEN {}
                 ELSE host.services \cap {"fts", "index", "eventing", "analytics"}

\* Faulty variant: the node joins with the quotas it finds.
ClusterUpdate_Later(n) ==
    /\ pc[n] = "update"
    /\ Goto(n, "add")
    /\ UNCHANGED <<fleet, quota, members, runs, faults>>

\* A data node makes no call here; a node with query alone makes one that
\* sets nothing.
ClusterUpdate(n) ==
    /\ pc[n] = "update"
    /\ \/ /\ quota' = [s \in Sized |-> IF s \in Updates(fleet[n])
                                       THEN QuotaOf(fleet[n], s) ELSE quota[s]]
          /\ Call(n, "add")
          /\ UNCHANGED members
       \/ Refused(n)
    /\ UNCHANGED <<fleet, runs>>

ServerAdd(n) ==
    /\ pc[n] = "add"
    /\ \/ members' = members \cup {n} /\ Call(n, "idle") /\ UNCHANGED quota
       \/ Refused(n)
    /\ UNCHANGED <<fleet, runs>>

\* Ctrl-C.
Break(n) ==
    /\ pc[n] # "idle"
    /\ Refused(n)
    /\ UNCHANGED <<fleet, runs>>

Next == \E n \in Nodes : Invoke(n) \/ ClusterInit(n) \/ ClusterUpdate(n)
                           \/ ServerAdd(n) \/ Break(n)

Spec == Init /\ [][Next]_vars

-----------------------------------------------------------------------------
(* Properties.                                                             *)

\* A fleet in which nodes that share a service with a quota are alike.  The
\* quotas are right only for such fleets: any other node that runs one of a
\* node's services replaces its quota with one of its own size.
Alike(f) == \A m, n \in Nodes :
               f[m].services \cap f[n].services \cap Sized # {} => f[m] = f[n]

\* At least 4 GB, and services that the edition offers.
Roomy(f) == \A n \in Nodes : f[n].memory >= 4096
                               /\ f[n].services \cap Sized \subseteq InitSets

Joined(n) == {s \in fleet[n].services \cap Sized : n \in members}

\* The quotas of a member's services are what get_mem_config computed on that
\* node, whatever other nodes joined since, at the same time, or broke off
\* after they had set theirs.  Members with the data service that found a
\* cluster without it are the exception: they set nothing.
MembersSized ==
    \A n \in members : n = Rally \/ "data" \notin fleet[n].services
       => \A s \in Joined(n) : quota[s] = QuotaOf(fleet[n], s)

Reserved(n, s) == IF s \in Joined(n) THEN quota[s] ELSE 0

\* What the cluster reserves on a member for all services it runs fits into
\* its memory and leaves the operating system its part, for every member,
\* the ones that set no quota included.
MembersFit ==
    \A n \in members :
       Reserved(n, "data") + Reserved(n, "index") + Reserved(n, "fts")
         + Reserved(n, "eventing") + Reserved(n, "analytics")
         <= MemoryPool(fleet[n])

\* Once there is a cluster no node that joins changes the quota of the data
\* service, which is reserved on the nodes that hold the data.
DataQuotaKept == [][members # {} => quota'["data"] = quota["data"]]_vars
=============================================================================
