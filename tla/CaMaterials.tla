---------------------------- MODULE CaMaterials ----------------------------
(***************************************************************************)
(* The files that hold certificate authorities and node certificates on    *)
(* one node, and `swmgr cert ca`, `cert cluster-ca` and `cert node-cert`,  *)
(* which write them one at a time, search them and hand them to the        *)
(* service (server.py, certificates.py).  A run can break off between any  *)
(* two writes and inside one, when open() has emptied the file and nothing *)
(* is written yet; a call on the service can fail or lose its reply.       *)
(*                                                                         *)
(* A certificate authority stands for its certificate and its key; a file  *)
(* holds the authority whose certificate or key was written to it, or, for *)
(* the node's own key and certificate, the number of the pair.             *)
(***************************************************************************)
EXTENDS Naturals, Sequences, FiniteSetsExt

CONSTANTS
    CAs,       \* authorities an operator can bring or generate
    None,      \* no file, or an option that is not given
    Empty,     \* a file that was opened for writing, and no more
    Options,   \* [cert, key] given with --ca-cert and --ca-cert-key
    OutDirs,   \* directories `cert ca -D` is run with
    MaxRuns,   \* bound: runs of swmgr
    MaxFaults  \* bound: breaks, failed calls and lost replies

ASSUME NoneAssumption == /\ None \notin CAs \cup Nat
                         /\ None \notin [ca : CAs, pair : Nat]
ASSUME EmptyAssumption == Empty \notin CAs \cup {None}
ASSUME OptionsAssumption ==
    Options \subseteq [cert : CAs \cup {None}, key : CAs \cup {None}]
ASSUME OutDirsAssumption == OutDirs \subseteq {"home", "data"}
ASSUME BoundsAssumption == MaxRuns \in Nat /\ MaxFaults \in Nat

\* _ca_candidate_dirs, in order; get_user_home and Path.home coincide.
Dirs == <<"inbox", "home", "data">>

VARIABLES
    keyFile,   \* ca.key in each directory
    pemFile,   \* ca.pem in each directory; "CA" is inbox/CA, not searched
    crtFile,   \* ca.crt in each directory
    pairFile,  \* number of the pair in inbox/pkey.key and inbox/chain.pem;
               \* 0: no such file, or an empty one
    trusted,   \* authorities of the trust store beyond the generated one,
               \* in the order of their ids 1, 2, ...
    served,    \* [ca, pair] of the certificate the node serves, or None
    pc, dir, ca, key,   \* the run: label, -D, the materials it works with
    result,    \* how the last run ended
    runs, faults

files   == <<keyFile, pemFile, crtFile, pairFile>>
service == <<trusted, served>>
run     == <<dir, ca, key>>
vars    == <<files, service, pc, run, result, runs, faults>>

Searched == {"inbox", "home", "data"}
Content == CAs \cup {None, Empty}
Labels == {"idle", "write_key", "write_crt", "load_key", "load_cert",
           "load_post", "cert_wait", "pkey", "chain", "reload"}
Results == {"none", "generated", "ca_updated", "cert_updated", "mismatch",
            "missing", "untrusted", "load_failed", "error", "broken"}

TypeOK ==
    /\ keyFile \in [Searched -> Content]
    /\ pemFile \in [Searched \cup {"CA"} -> Content]
    /\ crtFile \in [Searched -> Content]
    /\ pairFile \in [key : 0..MaxRuns, cert : 0..MaxRuns,
                     signer : CAs \cup {None}]
    /\ trusted \in Seq(CAs)
    /\ served \in [ca : CAs, pair : 1..MaxRuns] \cup {None}
    /\ pc \in Labels
    /\ dir \in OutDirs
    /\ {ca, key} \subseteq CAs \cup {None}
    /\ result \in Results
    /\ runs \in 0..MaxRuns
    /\ faults \in 0..MaxFaults

\* A node with the default certificates; the operator may have put a CA in
\* its home directory.
Init ==
    /\ \E c \in CAs \cup {None} :
         /\ keyFile = [d \in Searched |-> IF d = "home" THEN c ELSE None]
         /\ pemFile = [d \in Searched \cup {"CA"} |->
                         IF d = "home" THEN c ELSE None]
    /\ crtFile = [d \in Searched |-> None]
    /\ pairFile = [key |-> 0, cert |-> 0, signer |-> None]
    /\ trusted = <<>>
    /\ served = None
    /\ pc = "idle"
    /\ dir \in OutDirs
    /\ ca = None
    /\ key = None
    /\ result = "none"
    /\ runs = 0
    /\ faults = 0

-----------------------------------------------------------------------------
(* Looking for the materials.                                              *)

\* The first of a sequence of files that exists, empty or not.
FirstOf(found) ==
    LET there == {i \in DOMAIN found : found[i] # None}
    IN  IF there = {} THEN None ELSE found[Min(there)]

\* Faulty variant: the home directory before the inbox.
KeyOnDisk_HomeFirst == FirstOf(<<keyFile["home"], keyFile["inbox"],
                                 keyFile["data"]>>)

\* _ca_key_path and _ca_cert_path: ca.pem before ca.crt in each directory.
KeyOnDisk  == FirstOf([i \in 1..3 |-> keyFile[Dirs[i]]])
CertOnDisk == FirstOf([i \in 1..6 |-> IF i % 2 = 1
                                      THEN pemFile[Dirs[(i + 1) \div 2]]
                                      ELSE crtFile[Dirs[i \div 2]]])

\* _resolve_ca_cert_pem and _resolve_ca_key_pem: an option goes first.
ResolveCert(o) == IF o.cert # None THEN o.cert ELSE CertOnDisk
ResolveKey(o)  == IF o.key # None THEN o.key ELSE KeyOnDisk

\* _require_cluster_ca_materials, _require_node_cert_key: `not` is true of an
\* empty text as well.
Missing(content) == content \in {None, Empty}

\* key_matches_cert: an authority's certificate carries its public key.
KeyMatchesCert(k, c) == k = c

IsTrusted(c) == \E i \in DOMAIN trusted : trusted[i] = c

-----------------------------------------------------------------------------
Goto(label) == pc' = label /\ UNCHANGED <<run, result, runs>>
Exit(how) == pc' = "idle" /\ result' = how /\ UNCHANGED <<run, runs>>

\* How a call on the service ends: done, not done, or done with the reply
\* lost.
Outcomes == {"ok"} \cup (IF faults < MaxFaults THEN {"failed", "lost"} ELSE {})
Charge(o) == faults' = IF o = "ok" THEN faults ELSE faults + 1

\* A run starts; its options and its -D directory are the operator's.
Start(label) ==
    /\ pc = "idle"
    /\ runs < MaxRuns
    /\ runs' = runs + 1
    /\ pc' = label
    /\ result' = "none"
    /\ UNCHANGED <<files, service, faults>>

\* A run that ends before it has changed anything.
Refuse(how) ==
    /\ pc = "idle"
    /\ runs < MaxRuns
    /\ runs' = runs + 1
    /\ pc' = "idle"
    /\ result' = how
    /\ UNCHANGED <<files, service, run, faults>>

-----------------------------------------------------------------------------
(* cert ca: a new authority, its key written before its certificate.       *)

CertCa ==
    /\ Start("write_key")
    /\ \E c \in CAs, d \in OutDirs : ca' = c /\ key' = c /\ dir' = d

WriteKey ==
    /\ pc = "write_key"
    /\ keyFile' = [keyFile EXCEPT ![dir] = key]
    /\ Goto("write_crt")
    /\ UNCHANGED <<pemFile, crtFile, pairFile, service, faults>>

WriteCrt ==
    /\ pc = "write_crt"
    /\ crtFile' = [crtFile EXCEPT ![dir] = ca]
    /\ Exit("generated")
    /\ UNCHANGED <<keyFile, pemFile, pairFile, service, faults>>

-----------------------------------------------------------------------------
(* cert cluster-ca: cluster_ca_update and cluster_ca_load.                 *)

\* Faulty variant: missing materials are not refused.
ClusterCa_NoRequire ==
    \E o \in Options :
      LET c == ResolveCert(o)
          k == ResolveKey(o)
      IN  \/ ~KeyMatchesCert(k, c) /\ Refuse("mismatch")
          \/ /\ KeyMatchesCert(k, c)
             /\ Start("load_key")
             /\ ca' = c /\ key' = k
             /\ UNCHANGED dir

ClusterCa ==
    \E o \in Options :
      LET c == ResolveCert(o)
          k == ResolveKey(o)
      IN  \/ (Missing(c) \/ Missing(k)) /\ Refuse("missing")
          \/ ~Missing(c) /\ ~Missing(k) /\ ~KeyMatchesCert(k, c) /\ Refuse("mismatch")
          \/ /\ ~Missing(c) /\ ~Missing(k) /\ KeyMatchesCert(k, c)
             /\ Start("load_key")
             /\ ca' = c /\ key' = k
             /\ UNCHANGED dir

\* Faulty variant: the key is kept in the home directory.
LoadKey_Home ==
    /\ pc = "load_key"
    /\ keyFile' = [keyFile EXCEPT !["home"] = key]
    /\ Goto("load_cert")
    /\ UNCHANGED <<pemFile, crtFile, pairFile, service, faults>>

LoadKey ==
    /\ pc = "load_key"
    /\ keyFile' = [keyFile EXCEPT !["inbox"] = key]
    /\ Goto("load_cert")
    /\ UNCHANGED <<pemFile, crtFile, pairFile, service, faults>>

LoadCert ==
    /\ pc = "load_cert"
    /\ pemFile' = [pemFile EXCEPT !["CA"] = ca]
    /\ Goto("load_post")
    /\ UNCHANGED <<keyFile, crtFile, pairFile, service, faults>>

\* loadTrustedCAs takes inbox/CA; the answer must carry id 1.
LoadPost ==
    /\ pc = "load_post"
    /\ \E o \in Outcomes :
         /\ Charge(o)
         /\ trusted' = IF o = "failed" \/ IsTrusted(pemFile["CA"])
                       THEN trusted ELSE Append(trusted, pemFile["CA"])
         /\ IF o # "ok" THEN Exit("error")
            ELSE IF trusted'[1] = pemFile["CA"] THEN Goto("cert_wait")
            ELSE Exit("load_failed")
    /\ UNCHANGED <<files, served>>

\* cert_wait asks for two trusted authorities.  The materials are still
\* where they were, so it does not return early; a failing GET is retried
\* and is left out here (ClusterSetup has the loop).
CertWait ==
    /\ pc = "cert_wait"
    /\ Exit(IF trusted = <<>> THEN "error" ELSE "ca_updated")
    /\ UNCHANGED <<files, service, faults>>

-----------------------------------------------------------------------------
(* cert node-cert: node_cert_update and _write_and_reload_node_cert.       *)

NodeCert ==
    \E o \in Options :
      LET k == ResolveKey(o)
      IN  \/ Missing(k) /\ Refuse("missing")
          \/ ~Missing(k) /\ ~IsTrusted(k) /\ Refuse("untrusted")
          \/ /\ ~Missing(k) /\ IsTrusted(k)
             /\ Start("pkey")
             /\ ca' = k /\ key' = k
             /\ UNCHANGED dir

\* Faulty variant: a pair that is there is used again.
NewPair_Again == IF pairFile.key = pairFile.cert /\ pairFile.key > 0
                 THEN pairFile
                 ELSE [key |-> runs, cert |-> runs, signer |-> key]

\* certificate_standard: each run makes a pair of its own, numbered by the
\* run, and signs it with the authority's key.
NewPair == [key |-> runs, cert |-> runs, signer |-> key]

WritePkey ==
    /\ pc = "pkey"
    /\ pairFile' = [pairFile EXCEPT !.key = NewPair.key]
    /\ Goto("chain")
    /\ UNCHANGED <<keyFile, pemFile, crtFile, service, faults>>

\* Faulty variant: a chain.pem that is there is kept.
WriteChain_Once ==
    /\ pc = "chain"
    /\ pairFile' = IF pairFile.cert = 0
                   THEN [pairFile EXCEPT !.cert = runs, !.signer = ca]
                   ELSE pairFile
    /\ Goto("reload")
    /\ UNCHANGED <<keyFile, pemFile, crtFile, service, faults>>

WriteChain ==
    /\ pc = "chain"
    /\ pairFile' = [NewPair EXCEPT !.key = pairFile.key]
    /\ Goto("reload")
    /\ UNCHANGED <<keyFile, pemFile, crtFile, service, faults>>

\* reloadCertificate takes a pair that matches and that the trust store
\* accepts, and keeps the old one otherwise.
Reload ==
    /\ pc = "reload"
    /\ LET accepted == pairFile.key = pairFile.cert /\ IsTrusted(pairFile.signer)
       IN  \E o \in Outcomes :
             /\ Charge(o)
             /\ served' = IF accepted /\ o # "failed"
                          THEN [ca |-> pairFile.signer, pair |-> pairFile.cert]
                          ELSE served
             /\ Exit(IF accepted /\ o = "ok" THEN "cert_updated" ELSE "error")
    /\ UNCHANGED <<files, trusted>>

-----------------------------------------------------------------------------
\* open(..., 'w') empties the file that is about to be written.  What is
\* written fits into its buffer, so a file is never there in part.
Truncate ==
    \/ /\ \/ pc = "write_key" /\ keyFile' = [keyFile EXCEPT ![dir] = Empty]
          \/ pc = "load_key" /\ keyFile' = [keyFile EXCEPT !["inbox"] = Empty]
       /\ UNCHANGED <<pemFile, crtFile, pairFile>>
    \/ /\ pc = "load_cert" /\ pemFile' = [pemFile EXCEPT !["CA"] = Empty]
       /\ UNCHANGED <<keyFile, crtFile, pairFile>>
    \/ /\ pc = "write_crt" /\ crtFile' = [crtFile EXCEPT ![dir] = Empty]
       /\ UNCHANGED <<keyFile, pemFile, pairFile>>
    \/ /\ \/ pc = "pkey" /\ pairFile' = [pairFile EXCEPT !.key = 0]
          \/ /\ pc = "chain"
             /\ pairFile' = [pairFile EXCEPT !.cert = 0, !.signer = None]
       /\ UNCHANGED <<keyFile, pemFile, crtFile>>

\* Ctrl-C between two steps, or inside a write.
Break ==
    /\ pc # "idle"
    /\ faults < MaxFaults
    /\ faults' = faults + 1
    /\ UNCHANGED files \/ Truncate
    /\ Exit("broken")
    /\ UNCHANGED service

Next ==
    \/ CertCa \/ WriteKey \/ WriteCrt
    \/ ClusterCa \/ LoadKey \/ LoadCert \/ LoadPost \/ CertWait
    \/ NodeCert \/ WritePkey \/ WriteChain \/ Reload
    \/ Break

Spec == Init /\ [][Next]_vars

-----------------------------------------------------------------------------
(* Properties.                                                             *)

\* No option: what a run finds on the disk.
NoOption == [cert |-> None, key |-> None]

\* After "Cluster CA updated", node-cert without options finds a key of a
\* trusted authority: the key is saved in the directory that is searched
\* first, over whatever ca.key other runs left elsewhere, broke off or emptied.
NodeCertReady ==
    result = "ca_updated" => IsTrusted(ResolveKey(NoOption))

\* The certificate handed to the service is the one that belongs to the key
\* beside it and is signed by a trusted authority, after any number of runs
\* that broke off between the two files.
ReloadMatches ==
    pc = "reload" => pairFile.key = pairFile.cert /\ IsTrusted(pairFile.signer)

\* When an authority becomes trusted its key is already in the inbox, written
\* to its end, so the lost reply of this very call, or a break after it, leaves
\* the key behind.  (Loading another authority later replaces it there, and a
\* break inside that write empties the file.)
KeyBeforeTrust ==
    [][\A c \in CAs : ~IsTrusted(c) /\ IsTrusted(c)' => keyFile["inbox"] = c]_vars

-----------------------------------------------------------------------------
(* A claim of the README that the code does not keep.                      *)

\* README: "Generate a CA for use with the cluster" (cert ca), then "Load a
\* custom cluster CA" (cluster-ca).  Files that cert ca generated in one
\* directory are a matching pair for cluster-ca.  But cert ca writes ca.key and
\* ca.crt, and ca.pem goes before ca.crt: the ca.pem of an older authority in
\* the directory is found in place of the new certificate.
GeneratedCaUsable ==
    faults = 0 /\ result = "generated"
      => ResolveCert(NoOption) = ResolveKey(NoOption)
=============================================================================
