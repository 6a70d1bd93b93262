---------------------------- MODULE QuotaProofs ----------------------------
(* Theorems about Quotas, for any hosts, any memory from 4 GB, any order   *)
(* and number of runs and faults.                                          *)
EXTENDS Quotas, TLAPS

(***************************************************************************)
(* Which fleets the theorems speak of: nodes that share a service are      *)
(* alike, and every host has its 4 GB.                                     *)
(***************************************************************************)
Planned == \A f \in Fleets : Alike(f) /\ Roomy(f)

\* A run of the rally node creates, the others join what there is.
ControlInv ==
    \A n \in Nodes :
       /\ pc[n] = "init" => n = Rally
       /\ pc[n] \in {"update", "add"} => members # {} /\ n # Rally

\* The nodes that set their own quotas before they are members.
Setter(n) == n = Rally \/ "data" \notin fleet[n].services

\* From its setting-cluster on, the quotas of a node's services are its own.
OwnInv ==
    \A n \in Nodes : Setter(n) /\ (n \in members \/ pc[n] = "add")
       => \A s \in fleet[n].services \cap Sized : quota[s] = QuotaOf(fleet[n], s)

\* Every quota is the rally node's, or that of a node that runs the service
\* and does not hold data.
SourceInv ==
    members # {} =>
       \A s \in InitSets :
          \/ quota[s] = QuotaOf(fleet[Rally], s)
          \/ \E m \in Nodes : s \in Updates(fleet[m])
                                /\ quota[s] = QuotaOf(fleet[m], s)

IInv == TypeOK /\ ControlInv /\ OwnInv /\ SourceInv

-----------------------------------------------------------------------------
(* Arithmetic.                                                             *)

LEMMA PoolOfRoomy ==
    ASSUME NEW h \in HostType, h.memory >= 4096
    PROVE  MemoryPool(h) \in Nat /\ MemoryPool(h) >= 2048
BY SMT DEF MemoryPool, Reservation, HostType

LEMMA Count ==
    ASSUME NEW h \in HostType
    PROVE  /\ SizedCount(h) \in 0..5
           /\ ServiceCount(h) \in 1..5
           /\ \A s \in Sized : s \in h.services => SizedCount(h) >= 1
           /\ SizedCount(h) >= 1 => ServiceCount(h) = SizedCount(h)
<1>1. \A s \in Sized : One(s, h) \in {0, 1} /\ (s \in h.services => One(s, h) = 1)
  BY DEF One
<1>2. SizedCount(h) \in 0..5
  BY <1>1, SMT DEF SizedCount, Sized
<1>3. \A s \in Sized : s \in h.services => SizedCount(h) >= 1
  BY <1>1, SMT DEF SizedCount, Sized
<1> QED
  BY <1>2, <1>3, SMT DEF ServiceCount

LEMMA ShareBounds ==
    ASSUME NEW h \in HostType, h.memory >= 4096
    PROVE  /\ Share(h) \in Nat \ {0}
           /\ ServiceCount(h) * Share(h) <= MemoryPool(h)
<1> DEFINE pool == MemoryPool(h)
<1> DEFINE k == ServiceCount(h)
<1>1. pool \in Nat /\ pool >= 2048
  BY PoolOfRoomy
<1>2. k \in 1..5
  BY Count
<1>3. Share(h) = pool \div k
  BY <1>1, <1>2, SMT DEF Share, Truncate
<1> HIDE DEF pool, k
<1>4. \A p \in Nat : \A j \in 1..5 : p >= 2048 =>
        (p \div j) \in Nat \ {0} /\ j * (p \div j) <= p
  <2> SUFFICES ASSUME NEW p \in Nat, NEW j \in 1..5, p >= 2048
               PROVE  (p \div j) \in Nat \ {0} /\ j * (p \div j) <= p
    OBVIOUS
  <2>1. CASE j = 1  BY <2>1, SMT
  <2>2. CASE j = 2  BY <2>2, SMT
  <2>3. CASE j = 3  BY <2>3, SMT
  <2>4. CASE j = 4  BY <2>4, SMT
  <2>5. CASE j = 5  BY <2>5, SMT
  <2> QED
    BY <2>1, <2>2, <2>3, <2>4, <2>5, SMT
<1> QED
  BY <1>1, <1>2, <1>3, <1>4 DEF pool, k

LEMMA QuotaPositive ==
    ASSUME NEW h \in HostType, h.memory >= 4096, NEW s \in Sized
    PROVE  QuotaOf(h, s) \in Nat \ {0}
BY ShareBounds, SMT DEF QuotaOf, Least

-----------------------------------------------------------------------------
(* The invariant.                                                          *)

LEMMA HostTypes ==
    ASSUME TypeOK, Planned, NEW n \in Nodes
    PROVE  fleet[n] \in HostType /\ fleet[n].memory >= 4096
BY FleetsAssumption DEF TypeOK, Planned, Roomy

\* Nodes that share a service are alike in every service.
LEMMA Sharing ==
    ASSUME TypeOK, Planned, NEW m \in Nodes, NEW n \in Nodes, NEW s \in Sized,
           s \in fleet[m].services, s \in fleet[n].services
    PROVE  fleet[m] = fleet[n]
BY Zenon DEF TypeOK, Planned, Alike

LEMMA InitInv == ASSUME Planned, Init PROVE IInv
<1>1. TypeOK
  BY PresetAssumption, BoundsAssumption DEF Init, TypeOK
<1> QED
  BY <1>1 DEF IInv, Init, ControlInv, OwnInv, SourceInv

LEMMA CallTypes ==
    ASSUME TypeOK, NEW n \in Nodes, NEW next \in {"idle", "add"}, Call(n, next)
    PROVE  /\ pc' \in [Nodes -> {"idle", "init", "update", "add"}]
           /\ faults' \in 0..MaxFaults
           /\ pc'[n] \in {"idle", next}
           /\ \A m \in Nodes : m # n => pc'[m] = pc[m]
BY BoundsAssumption, SMT DEF TypeOK, Call, Goto

LEMMA InvokeKeeps ==
    ASSUME Planned, IInv, NEW n \in Nodes, Invoke(n)
    PROVE  IInv'
<1> USE DEF IInv
<1>1. TypeOK'
  BY RallyAssumption, BoundsAssumption, SMT DEF Invoke, Goto, TypeOK
<1>2. \A m \in Nodes : pc'[m] = pc[m] \/ (m = n /\ pc'[m] \in {"init", "update"})
  BY SMT DEF Invoke, Goto, TypeOK
<1>3. ControlInv'
  BY SMT DEF Invoke, Goto, TypeOK, ControlInv
<1>4. OwnInv'
  BY <1>2 DEF Invoke, OwnInv, Setter
<1>5. SourceInv'
  BY DEF Invoke, SourceInv
<1> QED
  BY <1>1, <1>3, <1>4, <1>5

LEMMA RefusedKeeps ==
    ASSUME Planned, IInv, NEW n \in Nodes, Refused(n), fleet' = fleet, runs' = runs
    PROVE  IInv'
<1> USE DEF IInv
<1>1. TypeOK'
  BY BoundsAssumption, SMT DEF Refused, Goto, TypeOK
<1>2. \A m \in Nodes : pc'[m] = pc[m] \/ pc'[m] = "idle"
  BY DEF Refused, Goto, TypeOK
<1>3. ControlInv'
  BY <1>2, Zenon DEF Refused, ControlInv
<1>4. OwnInv'
  BY <1>2, Zenon DEF Refused, OwnInv, Setter
<1>5. SourceInv'
  BY Zenon DEF Refused, SourceInv
<1> QED
  BY <1>1, <1>3, <1>4, <1>5

LEMMA ClusterInitKeeps ==
    ASSUME Planned, IInv, NEW n \in Nodes, ClusterInit(n)
    PROVE  IInv'
<1> USE DEF IInv
<1>1. CASE Refused(n)
  BY <1>1, RefusedKeeps DEF ClusterInit
<1>2. CASE ~Refused(n)
  <2>1. /\ pc[n] = "init" /\ n = Rally /\ members = {} /\ members' = {n}
        /\ Call(n, "idle")
        /\ quota' = [s \in Sized |-> IF s \in InitSets
                                     THEN QuotaOf(fleet[n], s) ELSE quota[s]]
        /\ UNCHANGED <<fleet, runs>>
    BY <1>2 DEF ClusterInit, ControlInv
  <2>2. \A s \in InitSets : s \in Sized
    BY DEF InitSets, Sized
  <2>3. \A s \in Sized : QuotaOf(fleet[n], s) \in Nat \ {0}
    BY HostTypes, QuotaPositive
  <2>4. TypeOK'
    BY <2>1, <2>3, CallTypes, RallyAssumption DEF TypeOK
  <2>5. /\ pc'[n] = "idle"
        /\ \A m \in Nodes : m # n => pc'[m] = pc[m]
    BY <2>1, CallTypes
  <2>6. \A m \in Nodes : m # n => pc'[m] \notin {"init", "update", "add"}
    BY <2>1, <2>5 DEF ControlInv
  <2>7. ControlInv'
    BY <2>5, <2>6 DEF ControlInv
  <2>8. \A s \in fleet[n].services \cap Sized : s \in InitSets
    BY <2>1 DEF TypeOK, Planned, Roomy
  <2>9. OwnInv'
    BY <2>1, <2>5, <2>6, <2>8 DEF OwnInv
  <2>10. SourceInv'
    BY <2>1, <2>2 DEF SourceInv
  <2> QED
    BY <2>4, <2>7, <2>9, <2>10
<1> QED
  BY <1>1, <1>2

LEMMA ClusterUpdateKeeps ==
    ASSUME Planned, IInv, NEW n \in Nodes, ClusterUpdate(n)
    PROVE  IInv'
<1> USE DEF IInv
<1>1. CASE Refused(n)
  BY <1>1, RefusedKeeps DEF ClusterUpdate
<1>2. CASE ~Refused(n)
  <2>1. /\ pc[n] = "update" /\ n # Rally /\ members # {} /\ members' = members
        /\ Call(n, "add")
        /\ quota' = [s \in Sized |-> IF s \in Updates(fleet[n])
                                     THEN QuotaOf(fleet[n], s) ELSE quota[s]]
        /\ UNCHANGED <<fleet, runs>>
    BY <1>2 DEF ClusterUpdate, ControlInv
  <2>2. Updates(fleet[n]) \subseteq fleet[n].services \cap Sized
    BY DEF Updates, Sized
  <2>3. \A s \in Sized : QuotaOf(fleet[n], s) \in Nat \ {0}
    BY HostTypes, QuotaPositive
  <2>4. TypeOK'
    BY <2>1, <2>3, CallTypes DEF TypeOK
  <2>5. /\ pc'[n] \in {"idle", "add"}
        /\ \A m \in Nodes : m # n => pc'[m] = pc[m]
    BY <2>1, CallTypes
  <2>6. ControlInv'
    BY <2>1, <2>5 DEF ControlInv
  <2>7. ASSUME NEW m \in Nodes, Setter(m), m # n,
               m \in members \/ pc[m] = "add",
               NEW s \in fleet[m].services \cap Sized
        PROVE  quota'[s] = QuotaOf(fleet[m], s)
    <3>1. CASE s \in Updates(fleet[n])
      <4>1. fleet[m] = fleet[n]
        BY <2>2, <2>7, <3>1, Sharing
      <4> QED
        BY <2>1, <2>7, <3>1, <4>1
    <3>2. CASE s \notin Updates(fleet[n])
      BY <2>1, <2>7, <3>2 DEF OwnInv
    <3> QED
      BY <3>1, <3>2
  <2>8. ASSUME Setter(n), NEW s \in fleet[n].services \cap Sized
        PROVE  quota'[s] = QuotaOf(fleet[n], s)
    <3>1. s \in Updates(fleet[n])
      BY <2>1, <2>8 DEF Updates, Setter, Sized
    <3> QED
      BY <2>1, <3>1
  <2>9. OwnInv'
    <3> SUFFICES ASSUME NEW m \in Nodes, Setter(m)',
                        m \in members' \/ pc'[m] = "add",
                        NEW s \in fleet'[m].services \cap Sized
                 PROVE  quota'[s] = QuotaOf(fleet'[m], s)
      BY DEF OwnInv
    <3>1. Setter(m)
      BY <2>1 DEF Setter
    <3>2. CASE m = n
      BY <2>1, <2>8, <3>1, <3>2
    <3>3. CASE m # n
      BY <2>1, <2>5, <2>7, <3>1, <3>3
    <3> QED
      BY <3>2, <3>3
  <2>10. SourceInv'
    <3> SUFFICES ASSUME NEW s \in InitSets
                 PROVE  \/ quota'[s] = QuotaOf(fleet[Rally], s)
                        \/ \E m \in Nodes : s \in Updates(fleet[m])
                                             /\ quota'[s] = QuotaOf(fleet[m], s)
      BY <2>1 DEF SourceInv
    <3>1. s \in Sized
      BY DEF InitSets, Sized
    <3>2. CASE s \in Updates(fleet[n])
      BY <2>1, <3>1, <3>2
    <3>3. CASE s \notin Updates(fleet[n])
      <4>1. quota'[s] = quota[s]
        BY <2>1, <3>1, <3>3
      <4> QED
        BY <2>1, <4>1 DEF SourceInv
    <3> QED
      BY <3>2, <3>3
  <2> QED
    BY <2>4, <2>6, <2>9, <2>10
<1> QED
  BY <1>1, <1>2

LEMMA ServerAddKeeps ==
    ASSUME Planned, IInv, NEW n \in Nodes, ServerAdd(n)
    PROVE  IInv'
<1> USE DEF IInv
<1>1. CASE Refused(n)
  BY <1>1, RefusedKeeps DEF ServerAdd
<1>2. CASE ~Refused(n)
  <2>1. /\ pc[n] = "add" /\ members' = members \cup {n} /\ Call(n, "idle")
        /\ UNCHANGED <<fleet, quota, runs>>
    BY <1>2 DEF ServerAdd
  <2>2. TypeOK'
    BY <2>1, CallTypes DEF TypeOK
  <2>3. \A m \in Nodes : pc'[m] = pc[m] \/ pc'[m] = "idle"
    BY <2>1, CallTypes
  <2>4. ControlInv'
    BY <2>1, <2>3 DEF ControlInv
  <2>5. OwnInv'
    BY <2>1, <2>3 DEF OwnInv, Setter
  <2>6. SourceInv'
    BY <2>1 DEF SourceInv, ControlInv
  <2> QED
    BY <2>2, <2>4, <2>5, <2>6
<1> QED
  BY <1>1, <1>2

LEMMA StepKeeps == ASSUME Planned, IInv, [Next]_vars PROVE IInv'
<1>1. ASSUME NEW n \in Nodes, Invoke(n)         PROVE IInv'
  BY <1>1, InvokeKeeps
<1>2. ASSUME NEW n \in Nodes, ClusterInit(n)    PROVE IInv'
  BY <1>2, ClusterInitKeeps
<1>3. ASSUME NEW n \in Nodes, ClusterUpdate(n)  PROVE IInv'
  BY <1>3, ClusterUpdateKeeps
<1>4. ASSUME NEW n \in Nodes, ServerAdd(n)      PROVE IInv'
  BY <1>4, ServerAddKeeps
<1>5. ASSUME NEW n \in Nodes, Break(n)          PROVE IInv'
  BY <1>5, RefusedKeeps DEF Break
<1>6. CASE UNCHANGED vars
  BY <1>6, SMT DEF vars, IInv, TypeOK, ControlInv, OwnInv, Setter, SourceInv
<1> QED
  BY <1>1, <1>2, <1>3, <1>4, <1>5, <1>6 DEF Next

LEMMA Invariance == ASSUME Planned PROVE Spec => []IInv
<1>1. Init => IInv
  BY InitInv
<1>2. IInv /\ [Next]_vars => IInv'
  BY StepKeeps
<1> QED
  BY <1>1, <1>2, PTL DEF Spec

-----------------------------------------------------------------------------
(* The theorems.                                                           *)

\* TypeOK, and with it that no quota a run sets is zero or negative.
THEOREM QuotasPositive == ASSUME Planned PROVE Spec => []TypeOK
<1>1. IInv => TypeOK
  BY DEF IInv
<1>2. Spec => []IInv
  BY Invariance
<1> QED
  BY <1>1, <1>2, PTL

\* MembersSized: the quotas of a member's services are those get_mem_config
\* computed on it, whoever joins, fails or breaks off at the same time.
THEOREM MembersAreSized == ASSUME Planned PROVE Spec => []MembersSized
<1>1. IInv => MembersSized
  <2> SUFFICES ASSUME IInv, NEW n \in members,
                      n = Rally \/ "data" \notin fleet[n].services,
                      NEW s \in Joined(n)
               PROVE  quota[s] = QuotaOf(fleet[n], s)
    BY DEF MembersSized
  <2>1. n \in Nodes /\ s \in fleet[n].services \cap Sized
    BY DEF IInv, TypeOK, Joined
  <2> QED
    BY <2>1 DEF IInv, OwnInv, Setter
<1>2. Spec => []IInv
  BY Invariance
<1> QED
  BY <1>1, <1>2, PTL

\* What a host reserves when every service gets its share.
LEMMA SharesFit ==
    ASSUME NEW h \in HostType, h.memory >= 4096, NEW q \in [Sized -> Nat],
           \A s \in h.services \cap Sized : q[s] = Share(h)
    PROVE  (IF "data" \in h.services THEN q["data"] ELSE 0)
             + (IF "index" \in h.services THEN q["index"] ELSE 0)
             + (IF "fts" \in h.services THEN q["fts"] ELSE 0)
             + (IF "eventing" \in h.services THEN q["eventing"] ELSE 0)
             + (IF "analytics" \in h.services THEN q["analytics"] ELSE 0)
             <= MemoryPool(h)
<1> DEFINE share == Share(h)
           part(s) == IF s \in h.services THEN q[s] ELSE 0
           sum == part("data") + part("index") + part("fts")
                    + part("eventing") + part("analytics")
<1>1. share \in Nat /\ ServiceCount(h) * share <= MemoryPool(h)
  BY ShareBounds
<1>2. MemoryPool(h) \in Nat
  BY PoolOfRoomy
<1>3. \A s \in Sized : \/ part(s) = share /\ One(s, h) = 1
                       \/ part(s) = 0 /\ One(s, h) = 0
  BY DEF One
<1>4. SizedCount(h) \in 0..5
  BY Count
<1>5. sum = SizedCount(h) * share
  <2> HIDE DEF share, part
  <2> QED
    BY <1>1, <1>3, SMT DEF SizedCount, Sized
<1>6. SizedCount(h) * share <= MemoryPool(h)
  <2>1. CASE SizedCount(h) = 0
    BY <1>1, <1>2, <2>1
  <2>2. CASE SizedCount(h) >= 1
    BY <1>1, <2>2, Count
  <2> QED
    BY <1>4, <2>1, <2>2
<1> QED
  BY <1>5, <1>6

\* What a host reserves when every service gets the least there is.
LEMMA LeastFit ==
    ASSUME NEW h \in HostType, h.memory >= 4096, NEW q \in [Sized -> Nat],
           \A s \in h.services \cap Sized : q[s] = Least(s)
    PROVE  (IF "data" \in h.services THEN q["data"] ELSE 0)
             + (IF "index" \in h.services THEN q["index"] ELSE 0)
             + (IF "fts" \in h.services THEN q["fts"] ELSE 0)
             + (IF "eventing" \in h.services THEN q["eventing"] ELSE 0)
             + (IF "analytics" \in h.services THEN q["analytics"] ELSE 0)
             <= MemoryPool(h)
<1>1. MemoryPool(h) \in Nat /\ MemoryPool(h) >= 2048
  BY PoolOfRoomy
<1> QED
  BY <1>1, SMT DEF Least, Sized

\* MembersFit: the quotas of the services a member runs fit into its memory
\* beside what is left to the operating system.  A node with the data service
\* set none of them: it finds either those of the rally node, which is its
\* like, or the least quotas, whose sum is the smallest pool there is.
THEOREM MembersAreFit == ASSUME Planned PROVE Spec => []MembersFit
<1>1. IInv => MembersFit
  <2> SUFFICES ASSUME IInv, NEW n \in members
               PROVE  Reserved(n, "data") + Reserved(n, "index")
                        + Reserved(n, "fts") + Reserved(n, "eventing")
                        + Reserved(n, "analytics") <= MemoryPool(fleet[n])
    BY DEF MembersFit
  <2> DEFINE h == fleet[n]
  <2>1. n \in Nodes /\ quota \in [Sized -> Nat]
    BY DEF IInv, TypeOK
  <2>2. h \in HostType /\ h.memory >= 4096
    BY <2>1, HostTypes DEF IInv
  <2>3. \A s \in Sized : Reserved(n, s) = IF s \in h.services THEN quota[s] ELSE 0
    BY DEF Reserved, Joined
  <2>4. \/ \A s \in h.services \cap Sized : quota[s] = Share(h)
        \/ \A s \in h.services \cap Sized : quota[s] = Least(s)
    <3>1. CASE Setter(n)
      BY <2>1, <3>1 DEF IInv, OwnInv, QuotaOf
    <3>2. CASE ~Setter(n)
      <4>1. ASSUME NEW s \in h.services \cap Sized
            PROVE  quota[s] = QuotaOf(fleet[Rally], s)
        <5>1. s \in InitSets
          BY <2>1 DEF IInv, TypeOK, Planned, Roomy
        <5>2. ASSUME NEW m \in Nodes, s \in Updates(fleet[m])
              PROVE  FALSE
          <6>1. "data" \notin fleet[m].services /\ s \in fleet[m].services
            BY <5>2 DEF Updates
          <6>2. fleet[m] = h
            BY <2>1, <4>1, <6>1, Sharing DEF IInv
          <6> QED
            BY <3>2, <6>1, <6>2 DEF Setter
        <5> QED
          BY <5>1, <5>2 DEF IInv, SourceInv
      <4>2. CASE \E s \in h.services \cap Sized : s \in fleet[Rally].services
        <5>1. fleet[Rally] = h
          BY <2>1, <4>2, Sharing, RallyAssumption DEF IInv
        <5> QED
          BY <4>1, <5>1 DEF QuotaOf
      <4>3. CASE \A s \in h.services \cap Sized : s \notin fleet[Rally].services
        BY <4>1, <4>3 DEF QuotaOf
      <4> QED
        BY <4>2, <4>3
    <3> QED
      BY <3>1, <3>2
  <2> HIDE DEF h
  <2>5. {"data", "index", "fts", "eventing", "analytics"} \subseteq Sized
    BY DEF Sized
  <2>6. CASE \A s \in h.services \cap Sized : quota[s] = Share(h)
    BY <2>1, <2>2, <2>3, <2>5, <2>6, SharesFit DEF h
  <2>7. CASE \A s \in h.services \cap Sized : quota[s] = Least(s)
    BY <2>1, <2>2, <2>3, <2>5, <2>7, LeastFit DEF h
  <2> QED
    BY <2>4, <2>6, <2>7
<1>2. Spec => []IInv
  BY Invariance
<1> QED
  BY <1>1, <1>2, PTL

\* DataQuotaKept, for any hosts: nodes that join leave the data quota alone.
THEOREM DataQuotaIsKept == Spec => DataQuotaKept
<1>1. ASSUME [Next]_vars, members # {}
      PROVE  quota'["data"] = quota["data"]
  <2>1. ASSUME NEW n \in Nodes, ClusterUpdate(n)
        PROVE  quota'["data"] = quota["data"]
    <3>1. "data" \notin Updates(fleet[n]) /\ "data" \in Sized
      BY DEF Updates, Sized
    <3> QED
      BY <2>1, <3>1 DEF ClusterUpdate, Refused
  <2>2. ASSUME NEW n \in Nodes, ~ClusterUpdate(n),
               Invoke(n) \/ ClusterInit(n) \/ ServerAdd(n) \/ Break(n)
        PROVE  quota' = quota
    BY <1>1, <2>2 DEF Invoke, ClusterInit, ServerAdd, Break, Refused
  <2> QED
    BY <1>1, <2>1, <2>2 DEF Next, vars
<1> QED
  BY <1>1, PTL DEF Spec, DataQuotaKept
=============================================================================
