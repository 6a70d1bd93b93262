----------------------------- MODULE BundleMgr -----------------------------
(***************************************************************************)
(* `bundlemgr -b <bundle> ...` (pyhostprep/bundlemgr.py, bundles.py): the  *)
(* list of bundles to install, made from the bundles asked for and what    *)
(* they require, and the loop that runs their playbooks one after another  *)
(* until one fails.  Reruns start from the top: no record is kept of what  *)
(* has been installed.  The playbooks change the host: those of the second *)
(* disk as Storage says, those of CBS and InstallSGW install packages,     *)
(* enable_sgw.yaml starts what must be installed, and the rest (packages   *)
(* of the system, services, kernel settings) succeed but for faults.       *)
(***************************************************************************)
EXTENDS Naturals, SequencesExt, Packages, Storage

CONSTANTS
    Machines,  \* the hosts bundlemgr is run on
    Askable,   \* the bundles an operator names
    MaxNamed,  \* bound: bundles on one command line
    MaxRuns,   \* bound: runs of bundlemgr
    MaxFaults  \* bound: failed playbooks, failed downloads and breaks

ASSUME MachinesAssumption == Machines \subseteq Machine
ASSUME AskableAssumption == Askable \subseteq Bundles
ASSUME BoundsAssumption ==
    MaxNamed \in Nat \ {0} /\ MaxRuns \in Nat /\ MaxFaults \in Nat

VARIABLES
    os,      \* the operating system of the host
    machine, \* what else is fixed about it
    host,    \* what playbooks have made of it
    asked,   \* the bundles named on the command line of the current run
    todo,    \* playbooks still to run, as <<bundle, "run" or "post">>
    url,     \* the download for the next playbook: "none" looked up yet,
             \* "found", or "missing", the None of a failed search
    played,  \* the playbooks that succeeded in this run, in order
    status,  \* how the last run ended, "running" during a run
    runs, faults

vars == <<os, machine, host, asked, todo, url, played, status, runs, faults>>

Work == Bundles \X {"run", "post"}

TypeOK ==
    /\ os \in Oses
    /\ machine \in Machines
    /\ host \in HostState
    /\ asked \in Seq(Askable)
    /\ todo \in Seq(Work)
    /\ url \in {"none", "found", "missing"}
    /\ played \in Seq(Work)
    /\ status \in {"none", "running", "successful", "failed", "not_found",
                   "error", "broken"}
    /\ runs \in 0..MaxRuns
    /\ faults \in 0..MaxFaults

Init ==
    /\ os \in Oses
    /\ machine \in Machines
    /\ host = BareHost
    /\ asked = <<>> /\ todo = <<>> /\ played = <<>>
    /\ url = "none"
    /\ status = "none"
    /\ runs = 0 /\ faults = 0

-----------------------------------------------------------------------------
(* SoftwareBundle.install_list.                                            *)

\* What each bundle requires goes before it.
ToInstall(named) == FlattenSeq([i \in DOMAIN named |->
                                  Append(Requires(named[i]), named[i])])

\* Faulty variants: the last mention counts; every mention counts.
OnlyFirst_Last(s) ==
    Reverse(FoldLeft(LAMBDA kept, b : IF Contains(kept, b) THEN kept
                                      ELSE Append(kept, b), <<>>, Reverse(s)))
OnlyFirst_All(s) == s

\* A bundle mentioned again is left out.
OnlyFirst(s) ==
    LET kept[n \in 0..Len(s)] ==
          IF n = 0 THEN <<>>
          ELSE LET before == kept[n - 1]
               IN  IF Contains(before, s[n]) THEN before
                   ELSE Append(before, s[n])
    IN  kept[Len(s)]

InstallList(named) == OnlyFirst(ToInstall(named))

\* Faulty variant: a null playbook is not skipped.
PlaybooksOf_Null(bundles) ==
    FlattenSeq([i \in DOMAIN bundles |->
       <<<<bundles[i], "pre">>, <<bundles[i], "run">>, <<bundles[i], "post">>>>])

\* The playbooks of each bundle that are not null, in order.
PlaybooksOf(bundles) ==
    FlattenSeq([i \in DOMAIN bundles |->
       [j \in DOMAIN Playbooks(bundles[i]) |->
          <<bundles[i], Playbooks(bundles[i])[j]>>]])

-----------------------------------------------------------------------------
(* A run.                                                                  *)

\* add looks up the bundles named and install_list all the others, before
\* the first playbook; one that is not offered raises.
Invoke ==
    /\ status # "running"
    /\ runs < MaxRuns
    /\ \E named \in BoundedSeq(Askable, MaxNamed) \ {<<>>} :
         /\ asked' = named
         /\ IF ToSet(InstallList(named)) \subseteq Offered(os)
            THEN /\ status' = "running"
                 /\ todo' = PlaybooksOf(InstallList(named))
            ELSE status' = "not_found" /\ todo' = <<>>
    /\ played' = <<>>
    /\ url' = "none"
    /\ runs' = runs + 1
    /\ UNCHANGED <<os, machine, host, faults>>

Stop(how) == status' = how /\ todo' = <<>> /\ url' = "none"

Running == status = "running" /\ todo # <<>>
Fault == faults < MaxFaults /\ faults' = faults + 1

\* What the software manager answers: sync gateway URLs are composed without
\* looking, the others are None where there is no build or no repository.
Download(b) == IF b = "InstallSGW" \/ machine.builds THEN "found" ELSE "missing"

\* It is asked again before each playbook of the bundle; a request that
\* still fails after its retries, or an empty list of versions, raises.
GetUrl ==
    /\ Running
    /\ todo[1][1] \in NeedsUrl /\ url = "none"
    /\ \/ url' = Download(todo[1][1]) /\ UNCHANGED <<todo, status, faults>>
       \/ Fault /\ Stop("error")
    /\ UNCHANGED <<os, machine, host, asked, played, runs>>

\* Process limits are set after the package is installed.  A composed URL may
\* lead nowhere; without a URL the package module fails or does nothing.
Install(b, from) ==
    LET installed == [host EXCEPT !.couchbase = @ \/ b = "CBS",
                                  !.gateway = @ \/ b = "InstallSGW"]
    IN  IF from = "missing" THEN Play(<<host>>, "ok") \cup Play(<<host>>, "failed")
        ELSE IF machine.builds THEN Play(<<host, installed, installed>>, "ok")
        ELSE Play(<<host>>, "failed")

\* enable_sgw.yaml: systemd restarts the unit, which must be there; in a
\* container a shell leaves the program to the background and looks no further.
StartGateway ==
    Play(<<host>>, IF machine.container \/ host.gateway THEN "ok" ELSE "failed")

\* What a playbook may do to the host, given the download found for it.
Plays(work, from) ==
    IF ~HasPlaybook(os, work) THEN Play(<<host>>, "failed")
    ELSE IF work[1] = "Swap" THEN Swap(machine, host)
    ELSE IF MountOf(work) # {}
    THEN UNION {DataDisk(machine, host, path) : path \in MountOf(work)}
    ELSE IF work[1] \in NeedsUrl THEN Install(work[1], from)
    ELSE IF work[1] \in StartsGateway THEN StartGateway
    ELSE Play(<<host>>, "ok")

\* Faulty variant: the return code of the playbook is not looked at.
RunPlaybook_AnyCode ==
    /\ Running
    /\ todo[1][1] \in NeedsUrl => url # "none"
    /\ \E play \in Plays(todo[1], url) :
         /\ host' = play.host
         /\ played' = IF play.end = "ok" THEN Append(played, todo[1])
                      ELSE played
         /\ IF play.end = "fault" THEN Fault ELSE UNCHANGED faults
    /\ todo' = Tail(todo) /\ url' = "none" /\ UNCHANGED status
    /\ UNCHANGED <<os, machine, asked, runs>>

\* A fault is a task that fails for reasons of its own, or Ctrl-C inside.
RunPlaybook ==
    /\ Running
    /\ todo[1][1] \in NeedsUrl => url # "none"
    /\ \E play \in Plays(todo[1], url) :
         /\ host' = play.host
         /\ \/ /\ play.end = "ok"
               /\ played' = Append(played, todo[1])
               /\ todo' = Tail(todo)
               /\ url' = "none"
               /\ UNCHANGED <<status, faults>>
            \/ /\ play.end # "ok"
               /\ Stop("failed")
               /\ IF play.end = "fault" THEN Fault ELSE UNCHANGED faults
               /\ UNCHANGED played
    /\ UNCHANGED <<os, machine, asked, runs>>

Finish ==
    /\ status = "running" /\ todo = <<>>
    /\ Stop("successful")
    /\ UNCHANGED <<os, machine, host, asked, played, runs, faults>>

\* Ctrl-C.
Break ==
    /\ status = "running"
    /\ Fault
    /\ Stop("broken")
    /\ UNCHANGED <<os, machine, host, asked, played, runs>>

\* The host restarts between two runs: fstab is what it comes back with.
Reboot ==
    /\ status # "running"
    /\ host' = Rebooted(host)
    /\ UNCHANGED <<os, machine, asked, todo, url, played, status, runs, faults>>

Next == Invoke \/ GetUrl \/ RunPlaybook \/ Finish \/ Break \/ Reboot

Spec == Init /\ [][Next]_vars

-----------------------------------------------------------------------------
(* Properties.                                                             *)

Complete(b, done) == \A j \in DOMAIN Playbooks(b) :
                        Contains(done, <<b, Playbooks(b)[j]>>)

\* A playbook runs only after every playbook of every bundle that its bundle
\* requires has succeeded in the same run, directly or through another one,
\* in whatever order bundles are named.  install_list goes one level deep:
\* this rests on packages.json naming the requirements of requirements, and
\* naming them first.
RequirementsFirst ==
    \A i \in DOMAIN played : \A b \in ToSet(Requires(played[i][1])) :
        Complete(b, SubSeq(played, 1, i - 1))

\* "Run successful": every bundle named is complete, with all it requires.
SuccessfulIsComplete ==
    status = "successful" => \A b \in ToSet(InstallList(asked)) :
                                Complete(b, played)

\* A bundle that several others require is installed once in a run.
PlayedOnce ==
    \A i, j \in DOMAIN played : played[i] = played[j] => i = j

\* A system that offers a bundle offers all it requires, so a run is turned
\* down only for a bundle that was named.
OfferedInstallable ==
    status = "not_found" => ~(ToSet(asked) \subseteq Offered(os))

\* Where the bundles named, with all they require, mount the second disk.
Promised == UNION {MountOf(work) : work \in ToSet(PlaybooksOf(InstallList(asked)))}

\* "Run successful": the second disk is mounted wherever the bundles want
\* it, after reruns of runs that broke off, and after a restart as well.
SuccessIsMounted ==
    status = "successful" /\ ~machine.container => Promised \subseteq host.mounts

\* A data disk that was in use is never made into swap, by any sequence of
\* bundles, broken runs and restarts.  mkswap takes any disk that is not in
\* use, so this rests on fstab bringing the mount back.
DataKept == [][host.data => host'.data]_vars

\* After "Run successful" the same command line can be given again at any time,
\* after restarts as well: no playbook of it fails, but those without a
\* download, and none changes anything, but Swap where a restart took the swap
\* away.  Every playbook starts with its own look at the host, which must
\* recognise what an earlier run, whole or broken, has left.
RerunSucceeds ==
    status = "successful" =>
      \A work \in ToSet(PlaybooksOf(InstallList(asked))) :
        \A play \in Plays(work, Download(work[1])) :
          /\ play.end = "failed" => work[1] \in NeedsUrl /\ ~machine.builds
          /\ play.host # host => work[1] = "Swap" /\ ~host.swapOn

-----------------------------------------------------------------------------
(* A claim of a playbook that the code does not keep.                      *)

\* configure_cbdata.yaml ends with "Set Mount Permissions", and bundlemgr
\* with "successful": /cbdata then belongs to couchbase.
DataDiskIsOwned ==
    status = "successful" /\ ~machine.container /\ "/cbdata" \in Promised
      => host.owned
=============================================================================
