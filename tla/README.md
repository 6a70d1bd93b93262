# host-prep-lib in TLA+

Models of `pyhostprep`, the library and command line tools (`bundlemgr`,
`swmgr`) that prepare a host, install Couchbase on it and join it to a cluster;
what TLC checks of them; and what TLAPS proves for every number of nodes and
every configuration. Paths below are relative to the repository.

## 1. The system

| Component | Code | State it keeps or changes | Operations | What is hard |
|---|---|---|---|---|
| Cluster setup | `pyhostprep/server.py` | none of its own: cluster membership, server groups, addresses and certificates live in Couchbase Server | `create`, `add`, `update`, `rebalance`, `ca_cert`, `node_cert`, `cert_auth`, `wait` | one process per node, all at once; each command is a chain of remote calls with no transaction; failed calls, lost replies, Ctrl-C, reruns; retry loops |
| Certificate files | `server.py`, `certificates.py` | `ca.key`, `ca.pem`, `ca.crt`, `pkey.key`, `chain.pem` in three directories; the trust store of the service | `cert ca`, `cert cluster-ca`, `cert node-cert` | pairs of files written one after the other, looked up one by one in a search order |
| Bundle manager | `bundlemgr.py`, `bundles.py`, `data/config/packages.json` | the host, through playbooks | add bundles, expand requirements, run playbooks | order and completeness rest on data; stops half way at a failure |
| Playbooks | `data/playbooks/*.yaml` | packages, services, disks, swap, kernel settings | 29 Ansible playbooks | idempotence, disks picked by index |
| Memory quotas | `server.py:103` | the quotas of the services of a cluster | `get_mem_config`, `cluster_init`, `cluster_update` | a quota of the whole cluster computed on one host; the last node wins; small hosts |
| Retries | `retry.py`, loops of `server.py`, `gateway.py`, urllib3 below the sessions | a counter | | attempts against retries, loops in loops, what is sent twice |
| Storage | `storage.py`, `storagemgr.py`, `ebsnvme.py` | none | pick a disk or a partition by index | two naming schemes, one index |
| Software manager | `software.py` | none | latest version, download URL | a list that changes while its pages are read, versions compared as strings, no build found |
| HTTP | `httpsessionmgr.py`, `rest.py` | the last response | GET, POST, PUT, DELETE, PATCH, paging | lists that change between pages, replies that are lost |
| Sync Gateway | `gateway.py` | `privkey.pem`, `cert.pem`, `sync_gateway.json`, the directory of the logs | `configure`, `wait` | files written one after the other, a run over what a broken one left, a gateway that comes and goes |
| Files | `util.py` | files and owners | make, copy, write, append | check then create |
| Host information | `hostinfo.py`, `osinfo.py`, `osfamily.py`, `network.py` | none | | |
| Installer | `bin/setup.sh`, `bin/bootstrap.ps1` | a virtual environment | | partial failure |
| Windows scripts, tests | `powershell/`, `tests/` | | | |

How they interact. `bundlemgr` asks `bundles.py` for the list of bundles,
`software.py` for download URLs and Ansible for the rest. `swmgr cluster` builds
one `CouchbaseServer` per run and calls one method of it. That method runs
`couchbase-cli` through `command.py` and REST calls through
`httpsessionmgr.py`, on this node and on the *rally* node. Runs on different
nodes share nothing but the service. `FatalError.__init__` calls `sys.exit(1)`,
so raising `ClusterSetupError` ends the process wherever it is raised, inside
`try` blocks too (`sys.exit` is not an `Exception`).

What makes each correct:

- *Cluster setup*: "Success" is only printed for a node that has everything
  `create` or `add` promises, whatever failed before and whatever other nodes
  do; no node joins unprepared; a rerun never undoes; every run ends; the
  certificate a node serves is trusted by its cluster.
- *Certificate files*: a pair that does not match, of different runs or with an
  emptied file in it, is never handed to the service; an authority is never
  trusted before its key is saved.
- *Bundle manager*: requirements first, once, and all of them when the run says
  it was successful; what was successful can be repeated.
- *Storage and its playbooks*: a data disk is mounted when a run says so, comes
  back after a restart and is never overwritten.
- *Memory quotas*: positive, what `get_mem_config` computed on the member they
  are for, and together within its memory.
- *HTTP and retries*: a list that was read misses nothing that was there all
  along and has nothing that was not; a request that must not be repeated is
  not; every call ends.
- *Sync Gateway*: after a configure that succeeded its files belong together,
  whatever broke before it; every wait ends.

`PROJECT.json` lists under `hazards` each place where such a property could
break, with its line and the properties that cover it.

## 2. The modules

    CouchbaseService            what the service does with each command (external)
        ^ EXTENDS
    ClusterSetup                swmgr cluster, one process per node, call by call
        ^ EXTENDS
    ClusterSetupRefines -- P == INSTANCE Provisioning WITH stage, reported
        ^ EXTENDS                 |
        |-- MCClusterSetup        Provisioning: what create and add promise
        `-- ClusterSetupProofs <- ClusterCertProofs

    CaMaterials <- CaMaterialsRefines -- N == INSTANCE NodeCertificates
                        ^-- MCCaMaterials, CaMaterialsProofs
    Packages, Storage <- BundleMgr <- BundleMgrRefines -- H == INSTANCE HostPreparation
                        ^-- MCBundleMgr, BundleMgrProofs -> SequenceFacts
    Quotas       <- MCQuotas, QuotaProofs               memory quotas of a cluster
    PagedService <- HttpClients <- MCHttpClients        lists, pages and requests
                                <- HttpProofs
    Gateway      <- MCGateway, GatewayProofs            swmgr gateway

**CouchbaseService** is not code of this repository. For each command it gives
the condition under which the service takes it (`...Accepted`) and its effect
(`...Effect`), as `server.py` relies on them: `server-add` refuses a member of
a cluster, `group-manage --create` refuses a group that exists, a move names the
group the node is in, `setting-cluster` and `server-list` fail without a
cluster, a node outside every cluster has a trust store of its own.

**ClusterSetup** has a program counter per node. A step is one call on the
service with the code up to the next call, so that calls of different nodes
interleave as they do between processes; the label of `pc` is the call a run is
about to make, and each action is named after the method that makes it.

| Action | Code |
|---|---|
| `Invoke`, `Connect`, `Dispatch` | the typer commands, `CouchbaseServer.__init__` (waits for both ports), the command |
| `IsCluster`, `IsNode` | the guards of `create_cluster` and `add_node` |
| `ClusterWait` | `cluster_wait`, for `add` and for `wait` |
| `InitCheck`, `NodeInit`, `ExternalIp` | `node_init` and `node_external_ip` |
| `ClusterUpdate`, `ClusterInit`, `ServerAdd` | the methods of these names, `node_add` |
| `GetNodeGroup`, `IsGroup`, `CreateGroup`, `MoveGroup` | `node_change_group` |
| `CaLoad`, `CertWait`, `NodeCertUpdate`, `ReloadNodeCert` | `cluster_ca_load`, `cert_wait`, `node_cert_update` (reads the trust store), `_write_and_reload_node_cert` |
| `Rebalance`, `CertAuth` | `rebalance`, `cluster_cert_auth_setup` |
| `Break` | the signal handler, at any point |

A call ends in one of four ways (`Outcomes`): `ok`; `rejected` by the service;
`failed`, not done; `lost`, done although the caller sees an error. `cmd_output`
turns the last three into one exception, and every caller is modelled by what it
does with it: exit, retry, or, in `is_cluster`, `is_node` and `is_group`,
`False`. `Retry` is the loop shared by `node_change_group`, `rebalance` and
`cluster_wait`. `result` is how the last run ended: `success` and `already` are
the messages of `create_cluster` and `add_node`, `done` the end of any other
command, the rest are errors.

**Provisioning** is the abstract specification: a node goes from fresh to
prepared, joined and placed in its server group, never back, and success is
reported only for a node that is placed. **ClusterSetupRefines** maps the state
of the service to these stages and the results of runs to the reports.

**CaMaterials** is one node's directories. Every write is a step, so a run can
break off between `ca.key` and `ca.crt` or between `pkey.key` and `chain.pem`,
and inside a write (`Truncate`), when `open` has emptied the file and nothing is
in it yet. A search finds an empty file, and hides others behind it; what is read
from it counts as missing (`Missing`). What is written is shorter than the buffer
of the file, so there is no state between empty and whole. The searches (`KeyOnDisk`, `CertOnDisk`) follow the order of
`_ca_candidate_dirs`. Authorities are abstract; a node key and its certificate
carry the number of the run that made them.

**NodeCertificates** is the abstract specification without files and calls: an
authority becomes trusted only while it is the one whose key is kept (another
key, or an emptied file, can take its place later); "loaded"
is reported only when new certificates can be signed; the certificate in use is
replaced only by a younger one that a trusted authority signed, and "renewed" is
reported only with that. **CaMaterialsRefines** maps `ca.key` of the inbox to
`kept` (an empty one to none), and the pair that is served to `signer` and `number`. What it adds to
the invariants is the order of the certificates in time.

**Packages** is `packages.json` with the systems that are always named together
merged into one (`rocky|ol|fedora`, `ubuntu|debian`, ...), and whether the
playbooks it names exist (`HasPlaybook`): `Base` of Arch names
`base_sw_pacman.yaml`, which is not among `data/playbooks`, so that every run on
Arch fails at its first playbook.
**Storage** is the
second disk: `get_device` (`IndexOf`, `HasDevice`) and the playbooks
`configure_swap` (`Swap`), `configure_cbdata` and `configure_data_mnt`
(`DataDisk`) as the sequence of states their tasks lead through; `Play` lets a
fault stop a play after any of its tasks. What `mkswap`, `parted`, `mkfs` and
`mount` do is external: they fail on a disk that is in use; `mkswap` takes any
other, a file system on it notwithstanding; the `filesystem` and `parted`
modules leave alone what is there. **BundleMgr** is `install_list`, the loop of
`BundleMgrCLI.run`, the answers of the software manager (`Download`), the plays
(`Plays`), and restarts of the host between runs (`Reboot`). A play fails when
its playbook is not there, when it installs from a URL that leads nowhere, when
the second disk is not there or in use, and when `EnableSGW` or `StartSGW`
(`StartGateway`) restarts a unit that no `InstallSGW` has installed; in a
container the last of these looks no further. The remaining playbooks (packages
of the system, services, kernel settings) succeed but for faults.

**HostPreparation** is the abstract specification without playbooks: a run wants
a set of bundles closed under what they need, finishes them one at a time, each
once, after what it needs and with the disk mounted where it wants it; success
is reported when none is left; no step, restarts included, takes back a mount
or makes a mounted disk swap. **BundleMgrRefines** maps the list of playbooks
played to the bundles that are finished: the playbook that completes its bundle
is `Finish`, any other one `Work`. `GenAppNode`, which has no playbook of its
own, is not among the abstract bundles.

**Quotas** follows the quotas of a cluster through `create` and concurrent runs
of `add`. `Reservation`, `MemoryPool`, `ServiceCount`, `Share` and `QuotaOf` are
`get_mem_config` for the memory and services of a host; `ClusterInit` sets every
quota the edition has, `ClusterUpdate` sets those of the services of a node
before it joins, and nothing where one of them is data, `ServerAdd` joins.
`fleet` says which hosts a behaviour is about. The calls in between, which touch
neither quotas nor membership, are those of `ClusterSetup`.

**PagedService** is not code of this repository: a list of which pages are cut as
they are asked for, with other clients that insert, remove or renew an entry.
**HttpClients** reads it as `api_get`, `capella_get` and `get_cbs_tags` do, a
page per step (`ReadPage`), with pages that fail (`ReadFails`) and the decorator
of `retry.py` above `get_cbs_tags` (`Limit`, `NextAttempt`, `Again`); and sends
single requests through the two session classes, whose adapter repeats some of
them (`Send`, `SentAgain`). `Latest` is the choice `cbs_latest` makes, with
versions in the order of strings (`Key`, `Later`).

**Gateway** writes the files of `gateway.py` a step each (`MakeDir`, `ChownDir`,
`PrivateKey`, `CertificateBasic`, `CopyConfig`, `SetPerms`); any step can be the
last of its run and leave its file torn. A private key, and the certificate made
from it, carry the number of the run that made the key. `Poll` is one connection
of `gateway_wait`: the loop over `polls` (`NextPoll`) with the adapter's loop over
`tries` (`Reconnect`) inside. The delay doubles with each of the polls, and
`time.sleep` refuses the one of 0.1 * 2^37 seconds with an `OverflowError` outside
the `try`, so the loop of 300 never gets further than its 37th request
(`Sleepable`, 36). The gateway starts (`Restart`) with what is on disk, if that is usable,
and goes down (`Crash`) at any time.

**SequenceFacts** models nothing: its lemmas say what `FlattenSeq` and a loop
over a list return, for the proofs about `BundleMgr`.

The operators marked *Faulty variant* are forms of the next definition with a
plausible mistake. No specification uses them; they show that each property can
fail.

## 3. What is checked

| Run | Instance | States | Shows |
|---|---|---|---|
| `provisioning` | 3 nodes, one without the data service, one with an external address, one CA on two of them and another on the third, 4 runs, 2 faults | 730 861 | `TypeOK`, `SuccessConfigured`, `MembersPrepared`, `MoveFresh`, `SuccessCertified`, `NodeCertTrusted`, `GroupKept`, and the refinement `ImplementsProvisioning` |
| `any_calls` | 2 nodes, every command line, 2 runs, 2 faults, fair | 26 479 | `SuccessConfigured`, `MoveFresh`, `Terminates` |
| `community` | 2 nodes, Community Edition, every command line with a local `create`, 4 runs, 2 faults | about 200 000 | `CommunityUntouched`, and `ImplementsProvisioning`, success included |
| `ca_files` | 2 CAs, 3 directories, every option, 4 runs, 2 faults | 189 046 | `TypeOK`, `NodeCertReady`, `ReloadMatches`, `KeyBeforeTrust`, and the refinement `ImplementsCertificates` |
| `bundles` | 8 bundles, 6 families of systems, 5 kinds of host, 2 names per command line, 2 runs, 1 fault, restarts | 258 410 | `TypeOK`, `RequirementsFirst`, `SuccessfulIsComplete`, `PlayedOnce`, `OfferedInstallable`, `SuccessIsMounted`, `RerunSucceeds`, `DataKept`, and the refinement `ImplementsPreparation` |
| `quotas` | 4 hosts, every fleet out of 7 kinds that is alike where services are shared, 5 runs, 1 fault | 112 196 | `TypeOK`, `MembersSized`, `MembersFit`, `DataQuotaKept` |
| `http` | 4 entries, pages of 1 or 2, 2 calls, 2 changes of the list during each, 1 retry of the decorator, 1 and 2 of the adapters, fair | 281 857 | `TypeOK`, `NothingMissed`, `NothingStale`, `LatestIsNewest`, `AtMostOnce`, `CallEnds` |
| `gateway` | 2 servers, with and without TLS and `-f`, 4 runs, any number of stops and restarts, 2 retries in either loop and a delay that overflows before the last, fair | 161 377 | `TypeOK`, `ConfiguredOnDisk`, `RunEnds` |

Four more runs end in a counterexample: the code does not do what a message or
the README says. Each is a finding of `PROJECT.json`.

| Run | Statement | What the code does |
|---|---|---|
| `already_configured` | "Node is already configured" | membership alone decides: a run that stopped before the group move is never completed |
| `concurrent_groups` | "run on each node" | two nodes that need one new group: one fails, nothing being wrong |
| `ca_rotation` | "Generate a CA for use with the cluster" | the `ca.pem` of an older authority in the same directory wins over the new `ca.crt`: new key, old certificate |
| `data_disk` | "Set Mount Permissions", the last task of the data disk | a rerun ends at the mount that is there and reports success |

**Bounds.** `MaxRuns` and `MaxFaults` bound runs and faults in the guards of
`Invoke`, `Outcomes` and `Break`. Two faults let one undo the preparation and
the second hit its rerun; four runs on three nodes are a create, two adds and a
rerun of any of them. The retry loops run once more instead of 10, 15 or 30
times: a loop keeps no state but its counter, so one retry already separates a
first attempt, a retry and giving up. In `bundles` two runs give a broken run and
its rerun, or a bundle after another one, with a restart in between; two names
give every order of two bundles and of what they require, and so a gateway that
is started before, after and without the run that installs it. The kinds of host are
disk letters, EBS volumes (with swap of their own), two NVMe controllers (no
second disk by its index), no build to download, and a container. Two nodes are
enough where the commands of one meet those of another; the three-node run adds a joiner that competes with
a joiner. In `quotas` the kinds of host lie at both ends of the reservation and
between them, at the least memory the properties speak of, with one service,
several and all, and query beside others or alone; four hosts and five runs are
a create, three adds and a rerun of a broken one. In `http` four entries make
up to four pages, two changes move an entry over the border of a page that was
read and back, and the second call meets what the first left; three majors make
one that is not current. In `gateway` the delay overflows before the number of
retries is reached, as in the code (36 of 300), and four runs are two configures, a run with
`-f` between them, and a wait or a run that breaks. The runs may stop (nobody has to start the next run), hence
`CHECK_DEADLOCK FALSE`. Symmetry is not used: the nodes differ in role.

**Fairness.** `any_calls` uses weak fairness of `Step(n)` for each node, `http`
of `Step`, `gateway` of `Run`: a process that has been started keeps being
scheduled and each of its calls returns. `couchbase-cli` and `requests` have
time-outs, and `subprocess` waits for the end of the command. Nobody has to
start a run or a call (`Invoke`, `Start`, `Configure` and `GatewayWait` are not
fair), nothing has to succeed or fail, nobody has to break a run, and the
gateway need never start. What `RunEnds` leaves out is time: the delays of
`gateway_wait` double with each retry, so that the loop ends after decades, by
the delay that overflows (`hazards`, `gateway.py:147`).

**What the properties of `Quotas` assume.** A quota belongs to a service of the
whole cluster and is set from the size of one host. It can only be right for
every member when members that share a service are alike (`Alike`), and the
arithmetic needs hosts of 4 GB and services of the edition (`Roomy`).
`MembersSized`, `MembersFit` and the positive quotas of `TypeOK` are about such
fleets; for any other the code leaves the quota of whoever came last.
`MembersSized` makes an exception for members with the data service, which set
nothing, unless they created the cluster. `DataQuotaKept` needs no assumption.
`LatestIsNewest` is stated for numbers of one digit: as strings, 10 sorts before
7.

**What the others leave to the code.** `RerunSucceeds` is about command lines
that have been successful. What fails however often it is run is what the code
does: anything on Arch, `EnableSGW` or `StartSGW` without the
package, `GenDBNode` where swap and data want the one disk, and the first
`CBDataDisk` before there is a user to own it. `ConfiguredOnDisk` says nothing of
the files of Sync Gateway from a stop to the next success. In `ClusterSetup` the
service lists an authority as soon as it is loaded, so no property shows
`cert_wait` ending a run too early; and on Community Edition a `create` with
another rally node, which reports success of a node in no cluster, is left out
by the command lines of `community`, as by `LocalCreate` below.

## 4. What is proved

Every invariant and every action property that a run checks is proved. Each
proof is for every value of the constants that the named assumptions of the
modules allow; the third column has what a theorem assumes beyond them.

`ClusterSetupProofs` and `ClusterCertProofs` hold for any set of nodes, any command lines, any edition,
groups, addresses and authorities, any retry counts and any bounds, from the
named assumptions of the modules (types of the constants, `None` distinct from
everything, the default group is a group). `CaMaterialsProofs` holds for any
authorities, options and numbers of runs and breaks; `BundleMgrProofs` for any
hosts, any bundles asked for, command lines of any length and any bounds, over
the data of `packages.json` as it is; `QuotaProofs` for any number of
hosts of any memory and services, any quotas set before and either edition;
`HttpProofs` for any finite list, any sizes of pages and any numbers of retries,
changes and calls; `GatewayProofs` for any servers, retries and runs.

| Theorem | Property | Assumes |
|---|---|---|
| `TypeCorrect` | `TypeOK` | |
| `CertificatesAreTrusted` | `NodeCertTrusted` | |
| `GroupsAreKept` | `GroupKept` | |
| `MembersArePrepared` | `MembersPrepared` | `LocalCreate` |
| `SuccessIsConfigured` | `SuccessConfigured` | `LocalCreate` |
| `MoveIsFresh` | `MoveFresh` | `LocalCreate` |
| `Refinement` | `ImplementsProvisioning` | `LocalCreate` |
| `SuccessIsCertified` (`ClusterCertProofs`) | `SuccessCertified` | |
| `CommunityIsUntouched` | `CommunityUntouched` | |
| `TypeCorrect` (`CaMaterialsProofs`) | `TypeOK` | |
| `ReadyForNodes` | `NodeCertReady` | |
| `PairFits` | `ReloadMatches` | |
| `KeyIsKept` | `KeyBeforeTrust` | |
| `Refinement` (`CaMaterialsProofs`) | `ImplementsCertificates` | |
| `TypeCorrect` (`BundleMgrProofs`) | `TypeOK` | |
| `RequirementsGoFirst` | `RequirementsFirst` | |
| `SuccessIsComplete` | `SuccessfulIsComplete` | |
| `EachOnce` | `PlayedOnce` | |
| `OnlyNamedIsRefused` | `OfferedInstallable` | |
| `MountedOnSuccess` | `SuccessIsMounted` | |
| `RerunIsGood` | `RerunSucceeds` | |
| `DataIsKept` | `DataKept` | |
| `Refinement` (`BundleMgrProofs`) | `ImplementsPreparation` | |
| `QuotasPositive` (`QuotaProofs`) | `TypeOK` | `Planned` |
| `MembersAreSized` | `MembersSized` | `Planned` |
| `MembersAreFit` | `MembersFit` | `Planned` |
| `DataQuotaIsKept` | `DataQuotaKept` | |
| `TypeCorrect` (`HttpProofs`) | `TypeOK` | |
| `NothingIsMissed` | `NothingMissed` | |
| `NothingIsStale` | `NothingStale` | |
| `NewestIsLatest` | `LatestIsNewest` | |
| `SentAtMostOnce` | `AtMostOnce` | |
| `TypeCorrect` (`GatewayProofs`) | `TypeOK` | |
| `ConfiguredIsOnDisk` | `ConfiguredOnDisk` | |

`Planned` says that every fleet is `Alike` and `Roomy`. `LocalCreate` says that `create` is run with its own node as the rally node. It
is needed: with another rally node, `create` sends node-init to its own node and
cluster-init to the other, which becomes a member unprepared.

*The argument.* Type correctness is inductive by itself: `EffectTypes` for the
service, `ControlTypes` for the jumps, `StepTypes` for each action. The safety
properties are not inductive: nothing in "success means configured" says why a
run that is about to print success has a configured node. `IInv` adds, node by
node, what the label of a run tells: `CommandInv` (which command is executing),
`PreparedInv` (what is done before the join; every member is prepared),
`JoinedInv` (from the join on, the node is a member of the *rally node's*
cluster, and placed from the move on), `GroupInv` (the group read is still the
node's group until the move, and the target group exists). A step of one node is
shown to preserve these for the node itself (one step per action) and, through
`Grows` (membership, preparation and groups only grow, and only a node moves
itself), for all others. The refinement then needs `IInv` for the source of each
step: `server-add` maps to `Join` because the node is prepared, `success` to
`Report` because it is placed.

`CertificatesAreTrusted` rests on an invariant of its own, `CertInv`: a
certificate served, and the authority of one about to be loaded, is in the trust
store of the node's cluster. Trust stores only grow (`TrustKept`), and a
join only happens when the service finds the certificate of the node trusted in
the new cluster.

`SuccessIsCertified` looks back one step: a run prints success where
`node_change_group` returns, which it does only for a node without authority
materials, or where the certificate has been reloaded (`SuccessFrom`); no other
node changes the certificate. `CommunityIsUntouched` shows that no command of
`swmgr` enters the Enterprise part of a run (`EnterprisePath`), and that the
rest of a run leaves groups, trust stores and certificates as installed.

`CaMaterialsProofs` says what each label of a run knows of the files it has
written: the key is in the inbox before its authority is loaded (`LoadInv`), the
signer of a node certificate is trusted and the pair is of this run as far as it
is written (`SignInv`), and a run that reported "CA updated" left its key where
the search begins (`UpdatedInv`). Nothing is said of the other directories: the
inbox is searched first, so what broken runs left there cannot be found.
Its `Refinement` adds that the number of a run is above that of the certificate
served (`ServedInv`), so that what `Reload` loads is younger; a break maps to
`Keep`, because it may empty the key of the inbox, `load_post` to
`Trust` because the key of `ca` is in the inbox by then, "CA updated" to `Loaded`
because it still is and the authority is trusted.

`DataIsKept` needs what keeps the data disk safe between runs, `HostInv`: what is
mounted is in fstab and nothing else is, data means mounted, swap in use means
not mounted, and swap in fstab is in use. One lemma per kind of play
(`SwapKeeps`, `DataDiskKeeps`, `InstallKeeps`) shows it of every state a task
leaves behind, so a play may break off anywhere; `RebootKeeps` shows it of a
restart. The order of bundles plays no part in this one.

The other theorems of `BundleMgrProofs` begin with the lists. `FlattenFacts` and
`OnlyFirstFacts` say that what stands before an item in a list stays before it
when lists are joined and repetitions dropped. `RequiresFacts` is the only place
that looks at `packages.json`: requirements start with `Base`, which requires
nothing and is all that any other of them requires. So every bundle of an install list has all it
requires in front of it, for any command line (`InstallListFacts`), and so has
every playbook of the plan (`PlanFacts`). The state machine adds one invariant,
`Progress`: what has been played is the beginning of the plan and `todo` is the
rest. `RequirementsFirst`, `PlayedOnce` and `SuccessfulIsComplete` follow
without another look at the steps. `SuccessIsMounted` needs that no play of a
run takes back a mount of an earlier one (`MountsMade`, from the lemmas about
`HostInv`). `RerunSucceeds` needs what each playbook that was played has left
behind and still finds when it is played again (`Settled`): its file, its
package, a disk that no other use has taken. It holds of a play that ends well
(`PlaySettles`), and no later play, failure or restart takes it away
(`AllSettledKept`), because within a run swap in use keeps the disk from being
mounted, and after it only a restart frees it (`AllSettled`).

`Refinement` of `BundleMgrProofs` uses all of these. A playbook that completes
its bundle finishes exactly that one, because the plan has no playbook twice
(`FinishedSteps`); what the bundle needs is finished by then, because its
playbooks stand before it in the plan and `played` is the beginning of it
(`NeedsFinished`); the disk is where the bundle wants it by `MountsMade`
(`CompleteMounts`), and what a play, whole or broken, or a restart does to the
disk is what the abstract disk may do by `HostInv` (`DiskSteps`).

Those lemmas are inductions over the length of a list. The induction theorems
of the library are stated for a predicate, which no installed prover can
instantiate; `SetInduction` states the principle for a set, as a consequence of
`<` being well-founded on `Nat`, and a proof puts the numbers for which its
claim holds in place of the set.

The proofs about `Quotas` have an arithmetic half and a protocol half. A pool of
at least 2 GB divided by one to five services is positive, and the shares times
their number do not exceed the pool, however `int()` rounds. Then the invariants:
while a node that has set its quotas is about to join, and once it is a member,
they are what its host computes, because whoever sets one of them later shares a
service with the node and is like it (`OwnInv`); and whatever is set comes from
the rally node or from a host that runs the service and is without data
(`SourceInv`), which is what members that set nothing rely on.

`NothingIsMissed` rests on `ReadInv`: the entries of `kept` that are not yet read
lie behind the pages that were read. A change that moves an entry forward takes
it out of `kept`, and the first page of a query only shifts entries towards the
end when the query is dropped. `SentAtMostOnce` needs that a POST or PATCH that
was carried out and is still running does not exist: what carries it out also
ends the call. `NewestIsLatest` adds to `NothingMissed` that the release with the
largest numbers is among those of the current majors (`CurrentAbove`) and that
`Latest` leaves out nothing newer than what it takes (`NoneNewer`); the order of
strings is that of the numbers as long as each has one digit (`KeyOrder`).

`ConfiguredIsOnDisk` rests on `RunInv`, what the place of a run in `configure` says
of the files it has written, and `KeptInv`, that what was configured stays but for
the one file a run is about to replace. The bounds of `TypeOK` are those of both loops
of `wait` and of the delays that can be slept. A stop makes the second void until the
next success, which is why nothing needs to be known about torn files.

*Model-checked only*: `Terminates`, `CallEnds` and `RunEnds`. They are liveness
properties under fairness, which the provers do not reason about. The four
statements the code does not keep (section 3) are refuted by TLC and have no
theorem.

## 5. What is not modelled

Playbooks other than those of the disks, CBS and Sync Gateway, beyond success
and failure; NVMe
devices that change their names at a restart; alternative names in certificates,
so `update` does not make one stale; how long a retry waits; replies of status
200 that are not what the endpoint answers; HTTP authentication and kinds of
errors, which no caller tells apart; which of several download URLs is taken;
two runs of `swmgr` or `bundlemgr` on one host at the same time; parsing of
options and output; logging; the installer and the Windows scripts. `components`
in `PROJECT.json` has the reason for each.

## 6. Plan

1. *Done*: `CouchbaseService`, `ClusterSetup`, `Provisioning`,
   `ClusterSetupRefines`; `CaMaterials`; `Packages`, `Storage`, `BundleMgr`;
   `Quotas`; `PagedService`, `HttpClients`; `Gateway`; and for each of them a
   theorem for every safety property it states.
2. *Done*: the abstract specifications `HostPreparation` and `NodeCertificates`,
   with the refinements proved.
3. *Next abstract specification*: a list that is read in one step, implemented by
   `HttpClients` for a list that does not change while it is read.
4. *Next models*: renumbered devices and the volume behind an entry of fstab in
   `Storage`; alternative names in `ClusterSetup`'s certificates with `update`;
   the installer.
