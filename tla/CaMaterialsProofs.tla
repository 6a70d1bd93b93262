------------------------- MODULE CaMaterialsProofs -------------------------
(***************************************************************************)
(* Theorems about CaMaterials: the files of a node keep the key of every   *)
(* authority the service trusts, the pair it reloads fits together, and    *)
(* every step is one that NodeCertificates allows, for any authorities,    *)
(* options, number of runs and number of breaks.                           *)
(***************************************************************************)
EXTENDS CaMaterialsRefines, TLAPS

Loading  == {"load_key", "load_cert", "load_post", "cert_wait"}
KeySaved == {"load_cert", "load_post", "cert_wait"}
Signing  == {"pkey", "chain", "reload"}

\* A run that is under way has not reported yet and has a number.
RunInv == pc # "idle" => result = "none" /\ runs >= 1

\* cluster-ca: the materials are a matching pair; each write has put the
\* value the next step relies on, and a finished load made it trusted.
LoadInv ==
    /\ pc \in Loading => ca # None /\ key = ca
    /\ pc \in KeySaved => keyFile["inbox"] = ca
    /\ pc = "load_post" => pemFile["CA"] = ca
    /\ pc = "cert_wait" => IsTrusted(ca)

\* node-cert: the signer is trusted, and the pair is that of this run as far
\* as it is written.
SignInv ==
    /\ pc \in Signing => key # None /\ IsTrusted(key)
    /\ pc = "chain" => pairFile.key = runs
    /\ pc = "reload" =>
         pairFile = [key |-> runs, cert |-> runs, signer |-> key]

\* A run that reported "CA updated" left its key in the inbox.
UpdatedInv ==
    result = "ca_updated" =>
        keyFile["inbox"] \in CAs /\ IsTrusted(keyFile["inbox"])

IInv == TypeOK /\ RunInv /\ LoadInv /\ SignInv /\ UpdatedInv

-----------------------------------------------------------------------------
(* The search for the materials.                                           *)

\* A non-empty set of positions has a smallest one.
LEMMA MinOfPositions ==
    ASSUME NEW S \in SUBSET (1..6), S # {}
    PROVE  Min(S) \in S /\ \A y \in S : Min(S) <= y
<1>1. \A y \in S : y \in 1..6
  OBVIOUS
<1>2. PICK a \in 1..6 : a \in S /\ \A b \in 1..6 : b < a => b \notin S
  <2>1. CASE 1 \in S BY <2>1
  <2>2. CASE 1 \notin S /\ 2 \in S BY <2>2
  <2>3. CASE 1 \notin S /\ 2 \notin S /\ 3 \in S BY <2>3
  <2>4. CASE (\A b \in 1..3 : b \notin S) /\ 4 \in S BY <2>4
  <2>5. CASE (\A b \in 1..4 : b \notin S) /\ 5 \in S BY <2>5
  <2>6. CASE (\A b \in 1..5 : b \notin S) /\ 6 \in S BY <2>6
  <2>7. CASE \A b \in 1..6 : b \notin S BY <2>7
  <2>8. QED BY <2>1, <2>2, <2>3, <2>4, <2>5, <2>6, <2>7
<1>3. \A y \in S : a <= y
  BY <1>1, <1>2
<1>4. QED BY <1>2, <1>3 DEF Min

\* FirstOf answers one of the files, or None when there is none.
LEMMA FirstOfType ==
    ASSUME NEW n \in 1..6, NEW found \in [1..n -> Content]
    PROVE  FirstOf(found) \in Content
<1> DEFINE there == {i \in DOMAIN found : found[i] # None}
<1>1. there \in SUBSET (1..6) /\ there \subseteq 1..n
  OBVIOUS
<1>2. CASE there = {}
  BY <1>2 DEF FirstOf, Content
<1>3. CASE there # {}
  <2>1. Min(there) \in there
    BY <1>1, <1>3, MinOfPositions
  <2>2. QED BY <2>1, <1>1, <1>3 DEF FirstOf
<1>4. QED BY <1>2, <1>3

\* A file in the first place hides all others.
LEMMA FirstOfFirst ==
    ASSUME NEW n \in 1..6, NEW found \in [1..n -> Content],
           found[1] # None
    PROVE  FirstOf(found) = found[1]
<1> DEFINE there == {i \in DOMAIN found : found[i] # None}
<1>1. there \in SUBSET (1..6) /\ 1 \in there
  OBVIOUS
<1>2. Min(there) \in there /\ Min(there) <= 1
  BY <1>1, MinOfPositions
<1>3. Min(there) = 1
  BY <1>1, <1>2
<1>4. QED BY <1>1, <1>3 DEF FirstOf

\* The materials a run resolves are authorities, None or the text of an empty file.
LEMMA ResolvedType ==
    ASSUME TypeOK, NEW o \in Options
    PROVE  /\ ResolveKey(o) \in Content
           /\ ResolveCert(o) \in Content
<1>1. o.cert \in Content /\ o.key \in Content
  BY OptionsAssumption DEF Content
<1>2. KeyOnDisk \in Content
  <2> DEFINE found == [i \in 1..3 |-> keyFile[Dirs[i]]]
  <2>1. found \in [1..3 -> Content]
    BY DEF TypeOK, Searched, Dirs
  <2>2. QED BY <2>1, FirstOfType DEF KeyOnDisk
<1>3. CertOnDisk \in Content
  <2> DEFINE found == [i \in 1..6 |-> IF i % 2 = 1
                                      THEN pemFile[Dirs[(i + 1) \div 2]]
                                      ELSE crtFile[Dirs[i \div 2]]]
  <2>1. \A i \in 1..6 : found[i] \in Content
    <3>1. /\ pemFile[Dirs[1]] \in Content
          /\ pemFile[Dirs[2]] \in Content
          /\ pemFile[Dirs[3]] \in Content
          /\ crtFile[Dirs[1]] \in Content
          /\ crtFile[Dirs[2]] \in Content
          /\ crtFile[Dirs[3]] \in Content
      BY DEF TypeOK, Searched, Dirs
    <3>2. QED BY <3>1
  <2>2. found \in [1..6 -> Content]
    BY <2>1
  <2>3. QED BY <2>2, FirstOfType DEF CertOnDisk
<1>4. QED BY <1>1, <1>2, <1>3 DEF ResolveKey, ResolveCert

\* Without options a run takes the key of the inbox when there is one.
LEMMA InboxFirst ==
    ASSUME TypeOK, keyFile["inbox"] # None
    PROVE  ResolveKey(NoOption) = keyFile["inbox"]
<1> DEFINE found == [i \in 1..3 |-> keyFile[Dirs[i]]]
<1>1. found \in [1..3 -> Content] /\ found[1] = keyFile["inbox"]
  BY DEF TypeOK, Searched, Dirs
<1>2. FirstOf(found) = found[1]
  BY <1>1, FirstOfFirst
<1>3. QED BY <1>1, <1>2 DEF ResolveKey, NoOption, KeyOnDisk

-----------------------------------------------------------------------------
(* The trust store.                                                        *)

\* An appended authority is trusted and none is forgotten.
LEMMA TrustAppended ==
    ASSUME trusted \in Seq(CAs), NEW c \in CAs, trusted' = Append(trusted, c)
    PROVE  /\ trusted' \in Seq(CAs)
           /\ IsTrusted(c)'
           /\ \A a : IsTrusted(a) => IsTrusted(a)'
           /\ \A a : IsTrusted(a)' => IsTrusted(a) \/ a = c
<1>1. trusted' \in Seq(CAs)
  OBVIOUS
<1>2. /\ DOMAIN trusted = 1..Len(trusted)
      /\ DOMAIN trusted' = 1..(Len(trusted) + 1)
      /\ Len(trusted) \in Nat
      /\ \A i \in 1..Len(trusted) : trusted'[i] = trusted[i]
      /\ trusted'[Len(trusted) + 1] = c
  OBVIOUS
<1>3. IsTrusted(c)'
  BY <1>2 DEF IsTrusted
<1>4. ASSUME NEW a, IsTrusted(a) PROVE IsTrusted(a)'
  BY <1>2, <1>4 DEF IsTrusted
<1>5. ASSUME NEW a, IsTrusted(a)' PROVE IsTrusted(a) \/ a = c
  BY <1>2, <1>5 DEF IsTrusted
<1>6. QED BY <1>1, <1>3, <1>4, <1>5

-----------------------------------------------------------------------------
(* Each action keeps the inductive invariant.                              *)

\* The state a node starts from.
LEMMA InitIInv == Init => IInv
<1> SUFFICES ASSUME Init PROVE IInv OBVIOUS
<1>1. TypeOK
  BY BoundsAssumption DEF Init, TypeOK, Searched, Content, Labels, Results
<1>2. RunInv /\ LoadInv /\ SignInv /\ UpdatedInv
  BY DEF Init, RunInv, LoadInv, SignInv, UpdatedInv, Loading, KeySaved, Signing
<1>3. QED BY <1>1, <1>2 DEF IInv

\* A run that is refused changes its report and the count of runs only.
LEMMA RefuseKeeps ==
    ASSUME IInv, NEW how \in Results \ {"ca_updated"}, Refuse(how)
    PROVE  IInv'
<1> USE DEF IInv, Refuse, files, service, run
<1>1. TypeOK'
  BY BoundsAssumption DEF TypeOK, Labels
<1>2. RunInv' /\ LoadInv' /\ SignInv' /\ UpdatedInv'
  BY DEF RunInv, LoadInv, SignInv, UpdatedInv, Loading, KeySaved, Signing
<1>3. QED BY <1>1, <1>2

\* A run that starts works with materials of its own.
LEMMA StartKeeps ==
    ASSUME IInv, NEW label \in {"write_key", "load_key", "pkey"}, Start(label),
           ca' \in CAs \cup {None}, key' \in CAs \cup {None}, dir' \in OutDirs,
           label = "load_key" => ca' # None /\ key' = ca',
           label = "pkey" => key' # None /\ IsTrusted(key')
    PROVE  IInv'
<1> USE DEF IInv, Start, files, service
<1>1. TypeOK'
  BY BoundsAssumption DEF TypeOK, Labels, Results
<1>2. RunInv' /\ UpdatedInv'
  BY DEF RunInv, UpdatedInv, TypeOK
<1>3. LoadInv'
  BY DEF LoadInv, Loading, KeySaved
<1>4. SignInv'
  <2>1. IsTrusted(key') => IsTrusted(key)'
    BY DEF IsTrusted
  <2>2. QED BY <2>1 DEF SignInv, Signing
<1>5. QED BY <1>1, <1>2, <1>3, <1>4

\* A run that ends with another report than "CA updated" changes neither
\* what is trusted nor the inbox.
LEMMA ExitKeeps ==
    ASSUME IInv, TypeOK', NEW how \in Results \ {"ca_updated"}, Exit(how)
    PROVE  IInv'
<1>1. RunInv' /\ LoadInv' /\ SignInv' /\ UpdatedInv'
  BY DEF Exit, RunInv, LoadInv, SignInv, UpdatedInv, Loading, KeySaved, Signing
<1>2. QED BY <1>1 DEF IInv

LEMMA CertCaKeeps == IInv /\ CertCa => IInv'
<1> SUFFICES ASSUME IInv, CertCa PROVE IInv' OBVIOUS
<1>1. Start("write_key")
  BY DEF CertCa
<1>2. ca' \in CAs /\ key' \in CAs /\ dir' \in OutDirs
  BY DEF CertCa
<1>3. QED BY <1>1, <1>2, StartKeeps

LEMMA WriteKeyKeeps == IInv /\ WriteKey => IInv'
<1> SUFFICES ASSUME IInv, WriteKey PROVE IInv' OBVIOUS
<1> USE DEF IInv, WriteKey, Goto, service, run
<1>1. TypeOK'
  BY OutDirsAssumption DEF TypeOK, Labels, Searched, Content
<1>2. RunInv' /\ LoadInv' /\ SignInv' /\ UpdatedInv'
  BY DEF RunInv, LoadInv, SignInv, UpdatedInv, Loading, KeySaved, Signing
<1>3. QED BY <1>1, <1>2

LEMMA WriteCrtKeeps == IInv /\ WriteCrt => IInv'
<1> SUFFICES ASSUME IInv, WriteCrt PROVE IInv' OBVIOUS
<1>1. TypeOK'
  BY OutDirsAssumption
     DEF WriteCrt, Exit, service, run, IInv, TypeOK, Labels, Searched, Content,
         Results
<1>2. Exit("generated")
  BY DEF WriteCrt
<1>3. QED BY <1>1, <1>2, ExitKeeps DEF Results

LEMMA ClusterCaKeeps == IInv /\ ClusterCa => IInv'
<1> SUFFICES ASSUME IInv, NEW o \in Options,
                    \/ Refuse("missing")
                    \/ Refuse("mismatch")
                    \/ /\ ~Missing(ResolveCert(o))
                       /\ KeyMatchesCert(ResolveKey(o), ResolveCert(o))
                       /\ Start("load_key")
                       /\ ca' = ResolveCert(o)
                       /\ key' = ResolveKey(o)
                       /\ UNCHANGED dir
             PROVE  IInv'
  BY DEF ClusterCa
<1>1. CASE Refuse("missing") \/ Refuse("mismatch")
  BY <1>1, RefuseKeeps DEF Results
<1>2. CASE /\ ~Missing(ResolveCert(o))
           /\ KeyMatchesCert(ResolveKey(o), ResolveCert(o))
           /\ Start("load_key")
           /\ ca' = ResolveCert(o)
           /\ key' = ResolveKey(o)
           /\ UNCHANGED dir
  <2>1. ca' \in CAs \cup {None} /\ ca' # None /\ key' = ca'
    BY <1>2, ResolvedType DEF IInv, KeyMatchesCert, Missing, Content
  <2>2. dir' \in OutDirs
    BY <1>2 DEF IInv, TypeOK
  <2>3. QED BY <1>2, <2>1, <2>2, StartKeeps
<1>3. QED BY <1>1, <1>2

LEMMA LoadKeyKeeps == IInv /\ LoadKey => IInv'
<1> SUFFICES ASSUME IInv, LoadKey PROVE IInv' OBVIOUS
<1> USE DEF IInv, LoadKey, Goto, service, run
<1>1. TypeOK'
  BY DEF TypeOK, Labels, Searched, Content
<1>2. LoadInv'
  BY DEF LoadInv, Loading, KeySaved, TypeOK, Searched
<1>3. RunInv' /\ SignInv' /\ UpdatedInv'
  BY DEF RunInv, SignInv, UpdatedInv, Signing
<1>4. QED BY <1>1, <1>2, <1>3

LEMMA LoadCertKeeps == IInv /\ LoadCert => IInv'
<1> SUFFICES ASSUME IInv, LoadCert PROVE IInv' OBVIOUS
<1> USE DEF IInv, LoadCert, Goto, service, run
<1>1. TypeOK'
  BY DEF TypeOK, Labels, Searched, Content
<1>2. LoadInv'
  BY DEF LoadInv, Loading, KeySaved, TypeOK, Searched
<1>3. RunInv' /\ SignInv' /\ UpdatedInv'
  BY DEF RunInv, SignInv, UpdatedInv, Signing
<1>4. QED BY <1>1, <1>2, <1>3

\* The call that loads the authority: it is trusted after an answer, and
\* after one that was lost.
LEMMA LoadPostKeeps == IInv /\ LoadPost => IInv'
<1> SUFFICES ASSUME IInv, NEW o \in Outcomes, pc = "load_post", Charge(o),
                    trusted' = IF o = "failed" \/ IsTrusted(pemFile["CA"])
                               THEN trusted ELSE Append(trusted, pemFile["CA"]),
                    IF o # "ok" THEN Exit("error")
                    ELSE IF trusted'[1] = pemFile["CA"] THEN Goto("cert_wait")
                    ELSE Exit("load_failed"),
                    UNCHANGED <<files, served>>
             PROVE  IInv'
  BY DEF LoadPost
<1>1. pemFile["CA"] \in CAs /\ pemFile["CA"] = ca /\ ca = key
  BY DEF IInv, LoadInv, Loading, TypeOK
<1>2. trusted' \in Seq(CAs) /\ (o # "failed" => IsTrusted(pemFile["CA"])')
  <2>1. CASE o = "failed" \/ IsTrusted(pemFile["CA"])
    BY <2>1 DEF IInv, TypeOK, IsTrusted, files
  <2>2. CASE ~(o = "failed" \/ IsTrusted(pemFile["CA"]))
    BY <2>2, <1>1, TrustAppended DEF IInv, TypeOK, files
  <2>3. QED BY <2>1, <2>2
<1>3. faults' \in 0..MaxFaults
  BY BoundsAssumption DEF IInv, TypeOK, Charge, Outcomes
<1>4. CASE Goto("cert_wait") /\ o = "ok"
  <2> USE <1>4 DEF IInv, Goto, files, run
  <2>1. TypeOK'
    BY <1>2, <1>3 DEF TypeOK, Labels
  <2>2. IsTrusted(ca)'
    BY <1>1, <1>2
  <2>3. LoadInv'
    BY <2>2 DEF LoadInv, Loading, KeySaved
  <2>4. RunInv' /\ SignInv' /\ UpdatedInv'
    BY DEF RunInv, SignInv, UpdatedInv, Signing
  <2>5. QED BY <2>1, <2>3, <2>4
<1>5. CASE Exit("error") \/ Exit("load_failed")
  <2>1. TypeOK'
    BY <1>2, <1>3, <1>5 DEF IInv, Exit, files, run, TypeOK, Labels, Results
  <2>2. QED BY <1>5, <2>1, ExitKeeps DEF Results
<1>6. QED BY <1>4, <1>5

LEMMA CertWaitKeeps == IInv /\ CertWait => IInv'
<1> SUFFICES ASSUME IInv, CertWait PROVE IInv' OBVIOUS
<1>1. TypeOK'
  BY DEF CertWait, Exit, IInv, files, service, run, TypeOK, Labels, Results
<1>2. CASE trusted = <<>>
  BY <1>1, <1>2, ExitKeeps DEF CertWait, Results
<1>3. CASE trusted # <<>>
  <2> USE <1>3 DEF IInv, CertWait, Exit, files, service, run
  <2>1. RunInv' /\ LoadInv' /\ SignInv'
    BY DEF RunInv, LoadInv, SignInv, Loading, KeySaved, Signing
  <2>2. keyFile["inbox"] = ca /\ ca \in CAs /\ IsTrusted(ca)
    BY DEF LoadInv, Loading, KeySaved, TypeOK
  <2>3. UpdatedInv'
    BY <2>2 DEF UpdatedInv, IsTrusted
  <2>4. QED BY <1>1, <2>1, <2>3
<1>4. QED BY <1>2, <1>3

LEMMA NodeCertKeeps == IInv /\ NodeCert => IInv'
<1> SUFFICES ASSUME IInv, NEW o \in Options,
                    \/ Refuse("missing")
                    \/ Refuse("untrusted")
                    \/ /\ ~Missing(ResolveKey(o))
                       /\ IsTrusted(ResolveKey(o))
                       /\ Start("pkey")
                       /\ ca' = ResolveKey(o)
                       /\ key' = ResolveKey(o)
                       /\ UNCHANGED dir
             PROVE  IInv'
  BY DEF NodeCert
<1>1. CASE Refuse("missing") \/ Refuse("untrusted")
  BY <1>1, RefuseKeeps DEF Results
<1>2. CASE /\ ~Missing(ResolveKey(o))
           /\ IsTrusted(ResolveKey(o))
           /\ Start("pkey")
           /\ ca' = ResolveKey(o)
           /\ key' = ResolveKey(o)
           /\ UNCHANGED dir
  <2>1. ca' \in CAs \cup {None} /\ key' = ca' /\ key' # None
    BY <1>2, ResolvedType DEF IInv, Missing, Content
  <2>2. IsTrusted(key')
    BY <1>2
  <2>3. dir' \in OutDirs
    BY <1>2 DEF IInv, TypeOK
  <2>4. QED BY <1>2, <2>1, <2>2, <2>3, StartKeeps
<1>3. QED BY <1>1, <1>2

LEMMA WritePkeyKeeps == IInv /\ WritePkey => IInv'
<1> SUFFICES ASSUME IInv, WritePkey PROVE IInv' OBVIOUS
<1> USE DEF IInv, WritePkey, NewPair, Goto, service, run
<1>1. TypeOK'
  BY BoundsAssumption DEF TypeOK, Labels
<1>2. SignInv'
  BY DEF SignInv, Signing, TypeOK, IsTrusted
<1>3. RunInv' /\ LoadInv' /\ UpdatedInv'
  BY DEF RunInv, LoadInv, UpdatedInv, Loading, KeySaved
<1>4. QED BY <1>1, <1>2, <1>3

LEMMA WriteChainKeeps == IInv /\ WriteChain => IInv'
<1> SUFFICES ASSUME IInv, WriteChain PROVE IInv' OBVIOUS
<1> USE DEF IInv, WriteChain, NewPair, Goto, service, run
<1>1. TypeOK'
  BY BoundsAssumption DEF TypeOK, Labels
<1>2. SignInv'
  BY DEF SignInv, Signing, TypeOK, IsTrusted
<1>3. RunInv' /\ LoadInv' /\ UpdatedInv'
  BY DEF RunInv, LoadInv, UpdatedInv, Loading, KeySaved
<1>4. QED BY <1>1, <1>2, <1>3

LEMMA ReloadKeeps == IInv /\ Reload => IInv'
<1> SUFFICES ASSUME IInv, Reload PROVE IInv' OBVIOUS
<1>1. pairFile = [key |-> runs, cert |-> runs, signer |-> key]
      /\ runs \in 1..MaxRuns /\ key \in CAs
  BY BoundsAssumption DEF Reload, IInv, RunInv, SignInv, Signing, TypeOK
<1>2. PICK o \in Outcomes :
        /\ Charge(o)
        /\ \/ served' = served
           \/ served' = [ca |-> pairFile.signer, pair |-> pairFile.cert]
        /\ Exit("cert_updated") \/ Exit("error")
  BY DEF Reload
<1>3. faults' \in 0..MaxFaults
  BY <1>2, BoundsAssumption DEF IInv, TypeOK, Charge, Outcomes
<1>4. served' \in [ca : CAs, pair : 1..MaxRuns] \cup {None}
  BY <1>1, <1>2 DEF IInv, TypeOK
<1>5. TypeOK'
  BY <1>2, <1>3, <1>4
     DEF Reload, Exit, IInv, files, run, TypeOK, Labels, Results
<1>6. QED BY <1>2, <1>5, ExitKeeps DEF Results

\* An emptied file is one of the contents a file can have.
LEMMA TruncateTypes ==
    ASSUME IInv, Truncate
    PROVE  /\ keyFile' \in [Searched -> Content]
           /\ pemFile' \in [Searched \cup {"CA"} -> Content]
           /\ crtFile' \in [Searched -> Content]
           /\ pairFile' \in [key : 0..MaxRuns, cert : 0..MaxRuns,
                             signer : CAs \cup {None}]
<1> USE DEF IInv, TypeOK
<1>1. Empty \in Content
  BY DEF Content
<1>2. CASE UNCHANGED <<pemFile, crtFile, pairFile>>
           /\ \E d \in Searched : keyFile' = [keyFile EXCEPT ![d] = Empty]
  BY <1>1, <1>2
<1>3. CASE UNCHANGED <<keyFile, crtFile, pairFile>>
           /\ pemFile' = [pemFile EXCEPT !["CA"] = Empty]
  BY <1>1, <1>3
<1>4. CASE UNCHANGED <<keyFile, pemFile, pairFile>>
           /\ \E d \in Searched : crtFile' = [crtFile EXCEPT ![d] = Empty]
  BY <1>1, <1>4
<1>5. CASE UNCHANGED <<keyFile, pemFile, crtFile>>
           /\ \/ pairFile' = [pairFile EXCEPT !.key = 0]
              \/ pairFile' = [pairFile EXCEPT !.cert = 0, !.signer = None]
  <2>1. 0 \in 0..MaxRuns /\ None \in CAs \cup {None}
    BY BoundsAssumption
  <2>2. pairFile' \in [key : 0..MaxRuns, cert : 0..MaxRuns,
                      signer : CAs \cup {None}]
    BY <1>5, <2>1
  <2>3. QED BY <1>5, <2>2
<1>6. dir \in Searched /\ "inbox" \in Searched
  BY OutDirsAssumption DEF Searched
<1>7. QED BY <1>2, <1>3, <1>4, <1>5, <1>6 DEF Truncate

LEMMA BreakKeeps == IInv /\ Break => IInv'
<1> SUFFICES ASSUME IInv, Break PROVE IInv' OBVIOUS
<1>1. /\ keyFile' \in [Searched -> Content]
      /\ pemFile' \in [Searched \cup {"CA"} -> Content]
      /\ crtFile' \in [Searched -> Content]
      /\ pairFile' \in [key : 0..MaxRuns, cert : 0..MaxRuns,
                        signer : CAs \cup {None}]
  BY TruncateTypes DEF Break, files, IInv, TypeOK
<1>2. TypeOK'
  BY <1>1, BoundsAssumption
     DEF Break, Exit, IInv, service, run, TypeOK, Labels, Results
<1>3. QED BY <1>2, ExitKeeps DEF Break, Results

LEMMA StepKeeps == IInv /\ [Next]_vars => IInv'
<1>1. IInv /\ UNCHANGED vars => IInv'
  <2> SUFFICES ASSUME IInv, UNCHANGED vars PROVE IInv' OBVIOUS
  <2> USE DEF IInv, vars, files, service, run
  <2>1. TypeOK' BY DEF TypeOK
  <2>2. RunInv' /\ LoadInv' /\ SignInv' /\ UpdatedInv'
    BY DEF RunInv, LoadInv, SignInv, UpdatedInv, IsTrusted
  <2>3. QED BY <2>1, <2>2
<1>2. QED
  BY <1>1, CertCaKeeps, WriteKeyKeeps, WriteCrtKeeps, ClusterCaKeeps,
     LoadKeyKeeps, LoadCertKeeps, LoadPostKeeps, CertWaitKeeps, NodeCertKeeps,
     WritePkeyKeeps, WriteChainKeeps, ReloadKeeps, BreakKeeps DEF Next

-----------------------------------------------------------------------------
(* The theorems.                                                           *)

\* The inductive invariant holds in every reachable state: every variable of
\* the files, the trust store and the run keeps its type, and the files hold
\* what the step a run has reached relies on.
THEOREM Invariance == Spec => []IInv
<1>1. Init => IInv
  BY InitIInv
<1>2. IInv /\ [Next]_vars => IInv'
  BY StepKeeps
<1>3. QED BY <1>1, <1>2, PTL DEF Spec

\* Every variable keeps its type; in particular a certificate that is served
\* was made by a run and signed by an authority (Reload never takes the empty
\* pair).
THEOREM TypeCorrect == Spec => []TypeOK
<1>1. IInv => TypeOK
  BY DEF IInv
<1>2. QED BY <1>1, Invariance, PTL

\* After cluster_ca_update reported success, a node-cert run without options
\* finds the key of a trusted authority, whatever other runs left behind.
THEOREM ReadyForNodes == Spec => []NodeCertReady
<1>1. IInv => NodeCertReady
  BY InboxFirst, NoneAssumption DEF IInv, UpdatedInv, NodeCertReady
<1>2. QED BY <1>1, Invariance, PTL

\* _write_and_reload_node_cert hands the service a certificate and a key that
\* belong together, signed by a trusted authority.
THEOREM PairFits == Spec => []ReloadMatches
<1>1. IInv => ReloadMatches
  BY DEF IInv, SignInv, Signing, ReloadMatches
<1>2. QED BY <1>1, Invariance, PTL

\* cluster_ca_load keeps the key of an authority before it asks the service
\* to trust the authority.
THEOREM KeyIsKept == Spec => KeyBeforeTrust
<1>1. IInv /\ [Next]_vars =>
        [\A c \in CAs : ~IsTrusted(c) /\ IsTrusted(c)' => keyFile["inbox"] = c]_vars
  <2> SUFFICES ASSUME IInv, [Next]_vars, NEW c \in CAs,
                      ~IsTrusted(c), IsTrusted(c)'
               PROVE  keyFile["inbox"] = c
    OBVIOUS
  <2>1. trusted' # trusted
    BY DEF IsTrusted
  <2>2. LoadPost
    BY <2>1 DEF Next, vars, files, service, Start, Refuse, CertCa, WriteKey,
                WriteCrt, ClusterCa, LoadKey, LoadCert, CertWait, NodeCert,
                WritePkey, WriteChain, Reload, Break
  <2>3. /\ pemFile["CA"] = ca
        /\ keyFile["inbox"] = ca
        /\ ca \in CAs
    BY <2>2 DEF LoadPost, IInv, LoadInv, Loading, KeySaved, TypeOK
  <2>4. trusted' = Append(trusted, pemFile["CA"])
    BY <2>1, <2>2 DEF LoadPost
  <2>5. IsTrusted(c) \/ c = pemFile["CA"]
    BY <2>3, <2>4, TrustAppended DEF IInv, TypeOK
  <2>6. QED BY <2>3, <2>5
<1>2. QED BY <1>1, Invariance, PTL DEF Spec, KeyBeforeTrust

-----------------------------------------------------------------------------
(* Refinement.                                                             *)

\* No certificate is younger than the current run, and one about to be made
\* is younger than the one that is served.
ServedInv ==
    /\ served # None => served.pair <= runs
    /\ pc \in Signing /\ served # None => served.pair < runs

\* Only Reload changes what is served, and only a new run its number.
LEMMA StepServes == IInv /\ ServedInv /\ [Next]_vars => ServedInv'
<1> SUFFICES ASSUME IInv, ServedInv, [Next]_vars PROVE ServedInv' OBVIOUS
<1> USE DEF ServedInv
<1>1. runs \in Nat /\ (served # None => served.pair \in Nat)
  BY BoundsAssumption DEF IInv, TypeOK
<1>2. ASSUME NEW label, Start(label) PROVE ServedInv'
  BY <1>1, <1>2 DEF Start, service
<1>3. ASSUME NEW how, Refuse(how) PROVE ServedInv'
  BY <1>1, <1>3 DEF Refuse, service, Signing
<1>4. CASE CertCa \/ ClusterCa \/ NodeCert
  BY <1>2, <1>3, <1>4 DEF CertCa, ClusterCa, NodeCert
<1>5. CASE WriteKey \/ WriteCrt \/ LoadKey \/ LoadCert \/ WritePkey \/ WriteChain
  BY <1>5 DEF WriteKey, WriteCrt, LoadKey, LoadCert, WritePkey, WriteChain,
              Goto, Exit, service, Signing
<1>6. CASE LoadPost \/ CertWait \/ Break
  BY <1>6 DEF LoadPost, CertWait, Break, Goto, Exit, service, Signing
<1>7. CASE Reload
  <2>1. pairFile.cert = runs
    BY <1>7 DEF Reload, IInv, SignInv
  <2>2. /\ \/ served' = served
           \/ served' = [ca |-> pairFile.signer, pair |-> pairFile.cert]
        /\ runs' = runs
        /\ pc' = "idle"
    BY <1>7 DEF Reload, Exit
  <2>3. QED BY <1>1, <2>1, <2>2 DEF Signing
<1>8. CASE UNCHANGED vars
  BY <1>8 DEF vars, service
<1>9. QED BY <1>4, <1>5, <1>6, <1>7, <1>8 DEF Next

\* The states a node starts from are those of the abstract specification.
LEMMA InitRefines == Init => N!Init
<1> SUFFICES ASSUME Init PROVE N!Init OBVIOUS
<1>1. keyFile["inbox"] = None
  BY DEF Init, Searched
<1>2. Kept = None
  BY <1>1, NoneAssumption DEF Kept
<1>3. Trusted = {} /\ Signer = None /\ Number = 0 /\ Report = "none"
  BY DEF Init, Trusted, Signer, Number, Report
<1>4. QED BY <1>2, <1>3 DEF N!Init

\* A step that leaves the inbox, the trust store and what is served, and
\* ends without a report or not at all, is silent.
LEMMA SilentStep ==
    ASSUME keyFile'["inbox"] = keyFile["inbox"], UNCHANGED service,
           result' \notin {"ca_updated", "cert_updated"}
    PROVE  N!Silent
BY DEF N!Silent, service, Kept, Trusted, Signer, Number, Report

\* The three commands start a run or are refused.
LEMMA StartsSilent ==
    ASSUME CertCa \/ ClusterCa \/ NodeCert
    PROVE  N!Silent
<1>1. ASSUME NEW label, Start(label) PROVE N!Silent
  BY <1>1, SilentStep DEF Start, files
<1>2. ASSUME NEW how \in {"mismatch", "missing", "untrusted"}, Refuse(how)
      PROVE  N!Silent
  BY <1>2, SilentStep DEF Refuse, files
<1>3. QED BY <1>1, <1>2 DEF CertCa, ClusterCa, NodeCert

\* Writing a file other than the key of the inbox.
LEMMA WritesSilent ==
    ASSUME IInv, WriteKey \/ WriteCrt \/ LoadCert \/ WritePkey \/ WriteChain
    PROVE  N!Silent
<1>1. keyFile'["inbox"] = keyFile["inbox"]
  <2>1. CASE WriteKey
    BY <2>1, OutDirsAssumption DEF WriteKey, IInv, TypeOK, Searched
  <2>2. CASE WriteCrt \/ LoadCert \/ WritePkey \/ WriteChain
    BY <2>2 DEF WriteCrt, LoadCert, WritePkey, WriteChain
  <2>3. QED BY <2>1, <2>2
<1>2. UNCHANGED service
  BY DEF WriteKey, WriteCrt, LoadCert, WritePkey, WriteChain
<1>3. result' \in {"none", "generated"}
  BY DEF WriteKey, WriteCrt, LoadCert, WritePkey, WriteChain, Goto, Exit,
         IInv, RunInv
<1>4. QED BY <1>1, <1>2, <1>3, SilentStep

\* A key in the inbox, or an emptied file there, is kept or not.
LEMMA KeptChanges ==
    ASSUME IInv', UNCHANGED service, result' \in {"none", "broken"}
    PROVE  N!Keep
<1>1. Kept' \in CAs \cup {None}
  BY DEF Kept
<1>2. Report' = "none" /\ UNCHANGED <<Trusted, Signer, Number>>
  BY DEF service, Trusted, Signer, Number, Report
<1>3. QED BY <1>1, <1>2 DEF N!Keep

\* Only a break while the inbox's ca.key is written empties it.
LEMMA BreakRefines == IInv /\ Break => N!Keep
<1> SUFFICES ASSUME IInv, Break PROVE N!Keep OBVIOUS
<1>1. IInv'
  BY BreakKeeps
<1>2. UNCHANGED service /\ result' = "broken"
  BY DEF Break, Exit
<1>3. QED BY <1>1, <1>2, KeptChanges

\* The key of the inbox is that of the authority about to be loaded.
LEMMA LoadKeyRefines == IInv /\ LoadKey => N!Keep
<1> SUFFICES ASSUME IInv, LoadKey PROVE N!Keep OBVIOUS
<1>1. IInv'
  BY LoadKeyKeeps
<1>2. UNCHANGED service /\ result' = "none"
  BY DEF LoadKey, Goto, IInv, RunInv
<1>3. QED BY <1>1, <1>2, KeptChanges

\* What becomes trusted is the authority whose key was kept.
LEMMA LoadPostRefines == IInv /\ LoadPost => N!Trust \/ N!Silent
<1> SUFFICES ASSUME IInv, LoadPost PROVE N!Trust \/ N!Silent OBVIOUS
<1>1. pemFile["CA"] \in CAs /\ keyFile["inbox"] = pemFile["CA"]
  BY DEF LoadPost, IInv, LoadInv, Loading, KeySaved, TypeOK
<1>2. /\ UNCHANGED <<files, served>>
      /\ result' \in {"none", "error", "load_failed"}
      /\ trusted' = trusted \/ trusted' = Append(trusted, pemFile["CA"])
  BY DEF LoadPost, Goto, Exit, IInv, RunInv
<1>3. keyFile' = keyFile /\ served' = served
  BY <1>2 DEF files
<1>4. CASE trusted' = trusted
  BY <1>2, <1>3, <1>4, SilentStep DEF service
<1>5. CASE trusted' = Append(trusted, pemFile["CA"])
  <2>1. \A a : IsTrusted(a)' <=> IsTrusted(a) \/ a = pemFile["CA"]
    BY <1>1, <1>5, TrustAppended DEF IInv, TypeOK
  <2>2. Kept = pemFile["CA"] /\ Kept' = Kept
    BY <1>1, <1>3 DEF Kept
  <2>3. Trusted' = Trusted \cup {Kept}
    BY <2>1, <2>2 DEF Trusted, IsTrusted
  <2>4. QED BY <1>1, <1>2, <1>3, <2>2, <2>3 DEF N!Trust, Signer, Number, Report
<1>6. QED BY <1>2, <1>4, <1>5

\* "CA updated" is reported of a trusted authority whose key is kept.
LEMMA CertWaitRefines == IInv /\ CertWait => N!Loaded \/ N!Silent
<1> SUFFICES ASSUME IInv, CertWait PROVE N!Loaded \/ N!Silent OBVIOUS
<1>1. Kept = ca /\ IsTrusted(ca)
  BY DEF CertWait, IInv, LoadInv, Loading, KeySaved, TypeOK, Kept
<1>2. keyFile' = keyFile /\ UNCHANGED service
  BY DEF CertWait, files
<1>3. CASE result' = "ca_updated"
  BY <1>1, <1>2, <1>3
     DEF N!Loaded, service, Kept, Trusted, IsTrusted, Signer, Number, Report
<1>4. CASE result' = "error"
  BY <1>2, <1>4, SilentStep
<1>5. QED BY <1>3, <1>4 DEF CertWait, Exit

\* The certificate that is loaded is of this run, hence younger, and of a
\* trusted authority; one that is refused is not reported.
LEMMA ReloadRefines == IInv /\ ServedInv /\ Reload => N!Renew \/ N!Silent
<1> SUFFICES ASSUME IInv, ServedInv, Reload PROVE N!Renew \/ N!Silent OBVIOUS
<1>1. /\ pairFile = [key |-> runs, cert |-> runs, signer |-> key]
      /\ key \in CAs
      /\ IsTrusted(key)
      /\ runs \in Nat \ {0}
      /\ pc \in Signing
  BY BoundsAssumption DEF Reload, IInv, RunInv, SignInv, Signing, TypeOK
<1>2. keyFile' = keyFile /\ trusted' = trusted
  BY DEF Reload, files
<1>3. CASE served' = [ca |-> key, pair |-> runs]
  <2>1. served' # None
    BY <1>1, <1>3, NoneAssumption
  <2>2. Signer' = key /\ Number' = runs
    BY <1>3, <2>1 DEF Signer, Number
  <2>3. Number < runs
    BY <1>1 DEF ServedInv, Number
  <2>4. Report' \in {"renewed", "none"}
    BY DEF Reload, Exit, Report
  <2>5. key \in Trusted
    BY <1>1 DEF Trusted, IsTrusted
  <2>6. QED BY <1>1, <1>2, <2>2, <2>3, <2>4, <2>5 DEF N!Renew, Kept, Trusted
<1>4. CASE served' = served /\ result' = "error"
  BY <1>2, <1>4, SilentStep DEF service
<1>5. PICK o \in Outcomes :
        /\ served' = IF o # "failed" THEN [ca |-> key, pair |-> runs] ELSE served
        /\ Exit(IF o = "ok" THEN "cert_updated" ELSE "error")
  BY <1>1 DEF Reload
<1>6. QED BY <1>3, <1>4, <1>5 DEF Exit

\* Every step of a run is a step of the abstract specification, or none.
LEMMA NextRefines == IInv /\ ServedInv /\ [Next]_vars => [N!Next]_N!vars
<1> SUFFICES ASSUME IInv, ServedInv, [Next]_vars PROVE [N!Next]_N!vars
  OBVIOUS
<1>1. CASE Next
  BY <1>1, StartsSilent, WritesSilent, BreakRefines, LoadKeyRefines,
     LoadPostRefines, CertWaitRefines, ReloadRefines DEF Next, N!Next
<1>2. CASE UNCHANGED vars
  BY <1>2 DEF vars, files, service, N!vars, Kept, Trusted, Signer, Number,
              Report
<1>3. QED BY <1>1, <1>2

\* swmgr cert implements NodeCertificates, for any authorities and options
\* and any number of runs, failed calls, lost replies and breaks.
THEOREM Refinement == Spec => ImplementsCertificates
<1>1. Init => IInv /\ ServedInv
  BY InitIInv DEF Init, ServedInv
<1>2. IInv /\ ServedInv /\ [Next]_vars => (IInv /\ ServedInv)'
  BY StepKeeps, StepServes
<1>3. QED
  BY <1>1, <1>2, InitRefines, NextRefines, PTL
     DEF Spec, ImplementsCertificates, N!Spec

=============================================================================
