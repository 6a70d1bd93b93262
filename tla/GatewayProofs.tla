--------------------------- MODULE GatewayProofs ---------------------------
(* Theorems about Gateway, for any options, any number of runs and stops.  *)
EXTENDS Gateway, TLAPS

\* Where a run of configure is tells what it has written.
RunInv ==
    /\ pc # "idle" => runs # 0 /\ options # None
    /\ pc = "cert" => key \in Ids
    /\ pc \in {"config", "perms"} /\ options.tls => PairOnDisk
    /\ pc = "perms" /\ ~options.elsewhere => config = options

\* What was configured stays, but for the file a run is about to replace.
KeptInv ==
    wanted # None /\ ~stopped =>
       /\ perms
       /\ pc # "cert" /\ wanted.tls => PairOnDisk
       /\ ~(pc = "perms" /\ ~options.elsewhere) => config = wanted

IInv == TypeOK /\ RunInv /\ KeptInv

LEMMA InitInv == ASSUME Init PROVE IInv
<1>1. TypeOK
  <2>1. /\ polls \in 0..PollRetries /\ polls <= Sleepable
        /\ tries \in 0..Total /\ runs \in 0..MaxRuns
    BY BoundsAssumption DEF Init
  <2>2. perms \in BOOLEAN /\ stopped \in BOOLEAN
    BY DEF Init
  <2> QED
    BY <2>1, <2>2 DEF Init, TypeOK
<1>2. RunInv
  BY DEF Init, RunInv
<1>3. KeptInv
  BY DEF Init, KeptInv
<1> QED
  BY <1>1, <1>2, <1>3 DEF IInv

LEMMA BeginKeeps ==
    ASSUME IInv, NEW o \in Options,
           NEW label \in {"mkdir", "key", "config", "poll"}, Begin(o, label),
           label = "config" => ~o.tls
    PROVE  IInv'
<1>1. TypeOK'
  BY BoundsAssumption DEF IInv, TypeOK, Begin, files, Ids
<1>2. /\ pc = "idle" /\ pc' = label /\ options' = o /\ runs' = runs + 1
      /\ UNCHANGED <<key, cert, config, perms, wanted, stopped>>
  BY DEF Begin, files
<1>3. RunInv'
  <2>1. runs' # 0
    BY <1>2, BoundsAssumption DEF IInv, TypeOK
  <2>2. o # None
    BY NoneAssumption
  <2> QED
    BY <1>2, <2>1, <2>2 DEF RunInv
<1>4. KeptInv'
  BY <1>2 DEF IInv, KeptInv, PairOnDisk
<1> QED
  BY <1>1, <1>3, <1>4 DEF IInv

LEMMA ConfigureKeeps ==
    ASSUME IInv, NEW o \in Options, Configure(o)
    PROVE  IInv'
<1>1. o.tls \in BOOLEAN
  BY DEF Options
<1>2. CASE o.elsewhere \/ logs # None
  BY <1>1, <1>2, BeginKeeps DEF Configure, FirstFile
<1>3. CASE ~(o.elsewhere \/ logs # None)
  BY <1>1, <1>3, BeginKeeps DEF Configure
<1> QED
  BY <1>2, <1>3

LEMMA StopKeeps ==
    ASSUME IInv, Stop, TypeOK'
    PROVE  IInv'
BY DEF IInv, RunInv, KeptInv, Stop

LEMMA DirectoryKeeps ==
    ASSUME IInv, MakeDir \/ ChownDir
    PROVE  IInv'
<1>1. TypeOK'
  BY DEF IInv, TypeOK, MakeDir, ChownDir, Goto, Stop, FirstFile
<1>2. CASE Stop
  BY <1>1, <1>2, StopKeeps
<1>3. CASE ~Stop
  BY <1>1, <1>3 DEF IInv, TypeOK, RunInv, KeptInv, MakeDir, ChownDir, Goto,
                    FirstFile, PairOnDisk, Options
<1> QED
  BY <1>2, <1>3

LEMMA PrivateKeyKeeps == ASSUME IInv, PrivateKey PROVE IInv'
<1>1. runs \in Ids
  BY BoundsAssumption DEF IInv, TypeOK, RunInv, PrivateKey, Ids
<1>2. TypeOK'
  BY <1>1 DEF IInv, TypeOK, PrivateKey, Goto, Stop
<1>3. CASE Stop
  BY <1>2, <1>3, StopKeeps
<1>4. CASE ~Stop
  BY <1>1, <1>2, <1>4 DEF IInv, RunInv, KeptInv, PrivateKey, Goto
<1> QED
  BY <1>3, <1>4

LEMMA CertificateKeeps == ASSUME IInv, CertificateBasic PROVE IInv'
<1>1. key \in Ids
  BY DEF IInv, RunInv, CertificateBasic
<1>2. TypeOK'
  BY <1>1 DEF IInv, TypeOK, CertificateBasic, Goto, Stop
<1>3. CASE Stop
  BY <1>2, <1>3, StopKeeps
<1>4. CASE ~Stop
  BY <1>1, <1>2, <1>4 DEF IInv, RunInv, KeptInv, CertificateBasic, Goto, PairOnDisk
<1> QED
  BY <1>3, <1>4

LEMMA CopyConfigKeeps == ASSUME IInv, CopyConfig PROVE IInv'
<1>1. TypeOK'
  BY DEF IInv, TypeOK, RunInv, CopyConfig, Goto, Stop
<1>2. CASE Stop
  BY <1>1, <1>2, StopKeeps
<1>3. CASE ~Stop
  BY <1>1, <1>3 DEF IInv, RunInv, KeptInv, CopyConfig, Goto, PairOnDisk
<1> QED
  BY <1>2, <1>3

LEMMA SetPermsKeeps == ASSUME IInv, SetPerms PROVE IInv'
<1>1. TypeOK'
  BY DEF IInv, TypeOK, RunInv, SetPerms, Finished, Stop
<1>2. CASE Stop
  BY <1>1, <1>2, StopKeeps
<1>3. CASE ~Stop
  <2>1. /\ pc = "perms" /\ pc' = "idle" /\ Finished
        /\ perms' = (perms \/ ~options.elsewhere)
        /\ UNCHANGED <<logs, key, cert, config, options, runs>>
    BY <1>3 DEF SetPerms
  <2>2. RunInv'
    BY <2>1 DEF RunInv
  <2>3. PairOnDisk' = PairOnDisk
    BY <2>1 DEF PairOnDisk
  <2>4. CASE options.elsewhere
    <3>1. UNCHANGED <<wanted, stopped>>
      BY <2>1, <2>4 DEF Finished
    <3>2. perms => perms'
      BY <2>1
    <3>3. KeptInv'
      BY <2>1, <2>3, <2>4, <3>1, <3>2 DEF IInv, KeptInv
    <3> QED
      BY <1>1, <2>2, <3>3 DEF IInv
  <2>5. CASE ~options.elsewhere
    <3>1. perms'
      BY <2>1, <2>5
    <3>2. config' = wanted' /\ (wanted'.tls => PairOnDisk')
      BY <2>1, <2>3, <2>5 DEF IInv, RunInv, Finished
    <3>3. KeptInv'
      BY <3>1, <3>2 DEF KeptInv
    <3> QED
      BY <1>1, <2>2, <3>3 DEF IInv
  <2> QED
    BY <2>4, <2>5
<1> QED
  BY <1>2, <1>3

LEMMA WaitKeeps ==
    ASSUME IInv, Poll \/ BreakWait
    PROVE  IInv'
<1>1. /\ polls' \in 0..PollRetries /\ polls' <= Sleepable /\ tries' \in 0..Total
      /\ pc' \in {"idle", "poll"}
      /\ outcome' \in {outcome, "answered", "gave_up", "overflow", "stopped"}
      /\ pc = "poll"
      /\ UNCHANGED <<files, serving, options, wanted, stopped, runs>>
  BY BoundsAssumption DEF IInv, TypeOK, Poll, BreakWait, Reconnect, NextPoll, EndWait
<1>2. TypeOK'
  BY <1>1 DEF IInv, TypeOK, files
<1> QED
  BY <1>1, <1>2 DEF IInv, RunInv, KeptInv, files, PairOnDisk

LEMMA GatewayKeeps ==
    ASSUME IInv, Restart \/ Crash
    PROVE  IInv'
<1>1. TypeOK'
  BY DEF IInv, TypeOK, Restart, Crash, Startable, files
<1> QED
  BY <1>1 DEF IInv, RunInv, KeptInv, Restart, Crash, files, PairOnDisk

LEMMA StepKeeps == ASSUME IInv, [Next]_vars PROVE IInv'
<1>1. ASSUME NEW o \in Options, Configure(o)    PROVE IInv'
  BY <1>1, ConfigureKeeps
<1>2. ASSUME NEW o \in Options, GatewayWait(o)  PROVE IInv'
  BY <1>2, BeginKeeps DEF GatewayWait
<1>3. CASE UNCHANGED vars
  BY <1>3 DEF vars, IInv, TypeOK, RunInv, KeptInv, PairOnDisk
<1> QED
  BY <1>1, <1>2, <1>3, DirectoryKeeps, PrivateKeyKeeps, CertificateKeeps,
     CopyConfigKeeps, SetPermsKeeps, WaitKeeps, GatewayKeeps DEF Next, Run

LEMMA Invariance == Spec => []IInv
<1>1. Init => IInv
  BY InitInv
<1>2. IInv /\ [Next]_vars => IInv'
  BY StepKeeps
<1> QED
  BY <1>1, <1>2, PTL DEF Spec

\* TypeOK, in which both loops of wait keep to their numbers, and the outer one
\* to the delays that can be slept.
THEOREM TypeCorrect == Spec => []TypeOK
<1>1. IInv => TypeOK
  BY DEF IInv
<1> QED
  BY <1>1, Invariance, PTL

\* ConfiguredOnDisk: a configure that succeeds makes good whatever stopped
\* before it, and what it wrote lasts until a run stops half way.
THEOREM ConfiguredIsOnDisk == Spec => []ConfiguredOnDisk
<1>1. IInv => ConfiguredOnDisk
  BY DEF IInv, KeptInv, ConfiguredOnDisk
<1> QED
  BY <1>1, Invariance, PTL
=============================================================================
