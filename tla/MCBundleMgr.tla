---------------------------- MODULE MCBundleMgr ----------------------------
(* Values of the constants for the runs of BundleMgr.                      *)
EXTENDS BundleMgrRefines

\* One bundle of each kind: with two playbooks and a download, with six
\* requirements, without playbooks, on the second disk with and without
\* requirements of their own, offered on some systems only, and starting what
\* another one installs with and without a requirement.
NamedBundles == {"CBS", "GenDBNode", "GenAppNode", "InstallSGW", "EnableSGW",
                 "StartSGW", "CBDataDisk", "Swap"}

Letters == <<[ebs |-> FALSE, mapped |-> 0, name |-> 1],
             [ebs |-> FALSE, mapped |-> 0, name |-> 2]>>
EbsVolumes == <<[ebs |-> TRUE, mapped |-> 1, name |-> 1],
                [ebs |-> TRUE, mapped |-> 2, name |-> 1]>>
\* Two NVMe controllers that are not EBS: both names end in namespace 1.
TwoControllers == <<[ebs |-> FALSE, mapped |-> 0, name |-> 1],
                    [ebs |-> FALSE, mapped |-> 0, name |-> 1]>>

Bare == [container |-> FALSE, ownSwap |-> FALSE, devices |-> Letters,
         builds |-> TRUE]
Hosts == {Bare,
          [Bare EXCEPT !.devices = EbsVolumes, !.ownSwap = TRUE],
          [Bare EXCEPT !.devices = TwoControllers],
          [Bare EXCEPT !.builds = FALSE],
          [Bare EXCEPT !.container = TRUE]}
=============================================================================
