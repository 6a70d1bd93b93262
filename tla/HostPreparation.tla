-------------------------- MODULE HostPreparation --------------------------
(***************************************************************************)
(* What bundlemgr promises of a host, without playbooks and their order:   *)
(* a run finishes the bundles it wants one at a time, each once and after  *)
(* what it needs, and reports success when none is left; a bundle that is  *)
(* finished has the second disk where it wants it; and the disk is either  *)
(* mounted, for good, or swap space, whatever runs and restarts follow.    *)
(***************************************************************************)
CONSTANTS
    Bundle,  \* the bundles that do something
    Needs,   \* the bundles each of them needs first
    Mounts,  \* where each of them has the second disk mounted
    Path     \* where it can be mounted

VARIABLES
    disks,     \* the host has disks of its own: it is no container
    wanted,    \* the bundles of the current run
    finished,  \* those of them that are done
    mounted,   \* where the disk is mounted
    swap,      \* it is swap space in use
    report     \* how the last run ended

disk == <<mounted, swap>>
vars == <<disks, disk, report, wanted, finished>>

Init ==
    /\ disks \in BOOLEAN
    /\ mounted = {} /\ swap = FALSE
    /\ report = "none"
    /\ wanted = {} /\ finished = {}

\* A run is turned down or starts from the beginning.
Begin ==
    /\ report # "running"
    /\ report' \in {"running", "stopped"}
    /\ UNCHANGED <<disks, disk>>
    /\ finished' = {}
    /\ wanted' \in {W \in SUBSET Bundle : \A b \in W : Needs[b] \subseteq W}

MakeSwap == mounted = {} /\ swap' = TRUE /\ UNCHANGED mounted

Mount ==
    /\ ~swap
    /\ mounted' \in SUBSET Path
    /\ mounted \subseteq mounted'
    /\ UNCHANGED swap

DiskUsed == UNCHANGED disk \/ MakeSwap \/ Mount

Finish ==
    /\ report = "running"
    /\ UNCHANGED <<disks, report>>
    /\ DiskUsed
    /\ \E b \in wanted \ finished :
         /\ Needs[b] \subseteq finished
         /\ disks => Mounts[b] \subseteq mounted'
         /\ finished' = finished \cup {b}
    /\ UNCHANGED wanted

\* Part of a bundle, or a failure in the middle of it.
Work ==
    /\ report = "running"
    /\ DiskUsed
    /\ report' \in {"running", "stopped"}
    /\ UNCHANGED <<disks, wanted, finished>>

Succeed ==
    /\ report = "running"
    /\ report' = "success"
    /\ finished = wanted
    /\ UNCHANGED <<disks, disk, wanted, finished>>

\* Only swap that was not yet to stay is gone after a restart.
Restart ==
    /\ report # "running"
    /\ swap' \in {swap, FALSE}
    /\ UNCHANGED <<disks, mounted, report, wanted, finished>>

Next == Begin \/ Finish \/ Work \/ Succeed \/ Restart

Spec == Init /\ [][Next]_vars
=============================================================================
