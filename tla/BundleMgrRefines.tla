-------------------------- MODULE BundleMgrRefines --------------------------
(* bundlemgr, playbook by playbook, implements HostPreparation.            *)
EXTENDS BundleMgr

\* GenAppNode has only its requirements: there is nothing to finish.
Active == {b \in Bundles : Playbooks(b) # <<>>}

NeedsOf == [b \in Active |-> ToSet(Requires(b))]

MountsOf == [b \in Active |-> UNION {MountOf(<<b, Playbooks(b)[j]>>) :
                                       j \in DOMAIN Playbooks(b)}]

\* A bundle with what it requires.
WithNeeds == [b \in Bundles |-> Active \cap ({b} \cup ToSet(Requires(b)))]

Wanted == UNION {WithNeeds[asked[i]] : i \in DOMAIN asked}

Finished == {b \in {played[i][1] : i \in DOMAIN played} : Complete(b, played)}

Report ==
    IF status \in {"none", "running"} THEN status
    ELSE IF status = "successful" THEN "success" ELSE "stopped"

H == INSTANCE HostPreparation WITH
        Bundle   <- Active,
        Needs    <- NeedsOf,
        Mounts   <- MountsOf,
        Path     <- MountPoints,
        wanted   <- Wanted,
        finished <- Finished,
        disks    <- ~machine.container,
        mounted  <- host.mounts,
        swap     <- host.swapOn,
        report   <- Report

\* Bundles are finished one by one after their requirements, with the disk
\* where they want it, over failures, breaks, reruns and restarts, and what
\* one of them made of the disk no other one takes back.
ImplementsPreparation == H!Spec
=============================================================================
