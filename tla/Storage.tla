------------------------------- MODULE Storage -------------------------------
(***************************************************************************)
(* The second disk of a host: how storage.py finds it and what the         *)
(* playbooks configure_swap.yaml, configure_cbdata.yaml and                *)
(* configure_data_mnt.yaml do with it, task by task.  All three ask        *)
(* storagemgr for disk 2.  Ansible modules, mkswap, parted, mkfs and the   *)
(* kernel are external: they refuse a disk that is in use, and mkswap      *)
(* takes one that is not, whatever it holds.                               *)
(***************************************************************************)
EXTENDS Naturals, Sequences

MountPoints == {"/cbdata", "/u01"}

\* A block device as lsblk lists it: the disk index its name ends in (the
\* letter, or the namespace of an NVMe device) and, for an EBS volume, the
\* index of the name it is mapped to, 0 for "none".
Device == [ebs : BOOLEAN, mapped : 0..2, name : 1..2]

\* What a host is: it never changes.
Machine == [container : BOOLEAN,  \* /.dockerenv is there
            ownSwap   : BOOLEAN,  \* swap on something else than disk 2
            devices   : Seq(Device),
            builds    : BOOLEAN]  \* the software asked for has a download

\* What playbooks change.
HostState ==
        [partition  : BOOLEAN,  \* disk 2 has one
         filesystem : BOOLEAN,  \* and a file system on it
         data       : BOOLEAN,  \* the file system was in use: it has data
         owned      : BOOLEAN,  \* its root belongs to user couchbase
         swapOn     : BOOLEAN,  \* disk 2 is swap space in use
         mounts     : SUBSET MountPoints,  \* where disk 2 is mounted
         fstab      : SUBSET (MountPoints \cup {"swap"}),
         couchbase  : BOOLEAN,  \* the package, with its user, is installed
         gateway    : BOOLEAN]  \* Sync Gateway, with its unit, is installed

BareHost == [partition |-> FALSE, filesystem |-> FALSE, data |-> FALSE,
             owned |-> FALSE, swapOn |-> FALSE, mounts |-> {}, fstab |-> {},
             couchbase |-> FALSE, gateway |-> FALSE]

\* get_device prefers the name an EBS volume is mapped to.
IndexOf(dev) == IF dev.ebs THEN dev.mapped ELSE dev.name

\* The first device with the index; none, and the playbooks fail.
HasDevice(m, n) == \E i \in DOMAIN m.devices : IndexOf(m.devices[i]) = n

-----------------------------------------------------------------------------
(* Plays: [host, end] with end "ok", "failed" (the code or the system      *)
(* refuses) or "fault" (a task breaks off).                                *)

\* after[i + 1] is the host after i tasks, the last one that of the end.
Play(after, end) ==
    {[host |-> after[Len(after)], end |-> end]}
      \cup {[host |-> after[i], end |-> "fault"] :
              i \in {1} \cup 1..Len(after) - 1}

\* Faulty variant: nobody looks whether there is swap already.
Swap_Unchecked(m, h) ==
    IF m.container THEN Play(<<h>>, "ok")
    ELSE IF ~HasDevice(m, 2) \/ h.mounts # {} \/ h.swapOn
    THEN Play(<<h>>, "failed")
    ELSE Play(<<h, [h EXCEPT !.swapOn = TRUE, !.data = FALSE,
                             !.fstab = @ \cup {"swap"}]>>, "ok")

\* configure_swap: the entry of fstab is written after swapon.
Swap(m, h) ==
    IF m.container \/ m.ownSwap \/ h.swapOn THEN Play(<<h>>, "ok")
    ELSE IF ~HasDevice(m, 2) \/ h.mounts # {} THEN Play(<<h>>, "failed")
    ELSE LET made == [h EXCEPT !.data = FALSE]
             on   == [made EXCEPT !.swapOn = TRUE]
         IN  Play(<<h, made, on, [on EXCEPT !.fstab = @ \cup {"swap"}]>>, "ok")

\* Faulty variant: mounted, but not put into fstab.
Mounted_Ephemeral(h, path) ==
    [h EXCEPT !.mounts = @ \cup {path}, !.data = TRUE]

\* Task Mount Filesystem: into fstab as well.
Mounted(h, path) ==
    [h EXCEPT !.mounts = @ \cup {path}, !.fstab = @ \cup {path}, !.data = TRUE]

\* Tasks Create Partition to Set Mount Permissions.  A partition and a file
\* system that are there are left as they are; chown needs the user.
MakeDataDisk(h, path) ==
    LET cut   == [h EXCEPT !.partition = TRUE]
        made  == [cut EXCEPT !.filesystem = TRUE]
        tasks == <<h, cut, made, Mounted(made, path)>>
    IN  IF path # "/cbdata" THEN Play(tasks, "ok")
        ELSE IF ~h.couchbase THEN Play(tasks, "failed")
        ELSE Play(Append(tasks, [tasks[4] EXCEPT !.owned = TRUE]), "ok")

\* Faulty variant: any mount of the disk will do.
DataDisk_AnyMount(m, h, path) ==
    IF m.container \/ h.mounts # {} THEN Play(<<h>>, "ok")
    ELSE IF ~HasDevice(m, 2) \/ h.swapOn THEN Play(<<h>>, "failed")
    ELSE MakeDataDisk(h, path)

\* configure_cbdata and configure_data_mnt.
DataDisk(m, h, path) ==
    IF m.container \/ path \in h.mounts THEN Play(<<h>>, "ok")
    ELSE IF ~HasDevice(m, 2) \/ h.swapOn THEN Play(<<h>>, "failed")
    ELSE MakeDataDisk(h, path)

\* What fstab brings back.
Rebooted(h) == [h EXCEPT !.mounts = MountPoints \cap h.fstab,
                         !.swapOn = "swap" \in h.fstab]
=============================================================================
