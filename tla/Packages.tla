------------------------------ MODULE Packages ------------------------------
(***************************************************************************)
(* The bundles of pyhostprep/data/config/packages.json: the operating      *)
(* systems that offer each, the bundles it requires, its playbooks, which  *)
(* of them exist, and whether they take a download URL.  The names of      *)
(* playbooks that do exist are left out, and systems that offer the same   *)
(* bundles and have the same playbooks are one.                            *)
(***************************************************************************)

EXTENDS Sequences

\* rhel stands for centos too, rocky for ol and fedora, ubuntu for debian,
\* sles for opensuse-leap.
Oses == {"rhel", "rocky", "amzn", "ubuntu", "sles", "arch"}

Everywhere == {"Base", "Chrony", "Firewall", "THP", "Swappiness"}
NotOnArch  == {"Swap", "CBDataDisk", "GenDataDisk", "GenDBNode", "GenAppNode",
               "CBS", "AWSCLI"}
SyncGateway == {"InstallSGW", "EnableSGW", "StartSGW"}
CloudCli   == {"AzureCLI", "GCPCLI"}
Bundles == Everywhere \cup NotOnArch \cup SyncGateway \cup CloudCli
             \cup {"LibCouchbase"}

\* Faulty variant: the swap bundle is for Red Hat systems only.
Offered_SwapOnRhel(os) ==
    (Everywhere \cup NotOnArch \cup SyncGateway)
      \ (IF os \in {"rhel", "rocky", "amzn"} THEN {} ELSE {"Swap"})

Offered(os) ==
    Everywhere
      \cup (IF os = "arch" THEN {} ELSE NotOnArch)
      \cup (IF os \in {"arch", "sles"} THEN {} ELSE SyncGateway)
      \cup (IF os \in {"rhel", "ubuntu"} THEN CloudCli ELSE {})
      \cup (IF os \in {"rhel", "ubuntu", "amzn"} THEN {"LibCouchbase"} ELSE {})

\* The order of the requirements is that of the file.
Host == <<"Base", "Chrony", "Firewall", "THP">>
Requires(b) ==
    IF b \in {"Base", "StartSGW"} THEN <<>>
    ELSE IF b = "CBS" THEN Host
    ELSE IF b \in {"GenDBNode", "GenAppNode", "InstallSGW"}
    THEN Host \o <<"Swappiness", "Swap">>
    ELSE <<"Base">>

\* No bundle has a "pre"; GenAppNode has its requirements only.
Playbooks(b) ==
    IF b = "GenAppNode" THEN <<>>
    ELSE IF b = "CBS" THEN <<"run", "post">> ELSE <<"run">>

\* Base of Arch names base_sw_pacman.yaml, which is not in data/playbooks; all
\* the others are there.
HasPlaybook(os, work) == ~(os = "arch" /\ work = <<"Base", "run">>)

\* The playbooks that mount the second disk, and where.
MountOf(work) ==
    IF work \in {<<"CBS", "post">>, <<"CBDataDisk", "run">>} THEN {"/cbdata"}
    ELSE IF work \in {<<"GenDataDisk", "run">>, <<"GenDBNode", "run">>}
    THEN {"/u01"}
    ELSE {}

\* Bundles with extra_vars.
NeedsUrl == {"CBS", "InstallSGW", "LibCouchbase"}

\* Both run enable_sgw.yaml.
StartsGateway == {"EnableSGW", "StartSGW"}
=============================================================================
