-------------------------- MODULE NodeCertificates --------------------------
(***************************************************************************)
(* What the commands of `swmgr cert` promise of a node, without the files  *)
(* and calls in between: an authority becomes trusted only while its key   *)
(* is kept, and loading one is reported only when new certificates can be  *)
(* signed; the certificate in use is signed by a trusted authority and     *)
(* replaced only by a younger one, which a report of it presupposes.       *)
(***************************************************************************)
EXTENDS Naturals

CONSTANTS CA, NoCA

VARIABLES
    kept,      \* the authority whose key signs new certificates
    trusted,   \* the authorities the node trusts
    signer,    \* the authority that signed the certificate in use
    number,    \* certificates are numbered as they are made; 0: as installed
    report     \* what the last run said: "loaded", "renewed" or nothing

vars == <<kept, trusted, signer, number, report>>

Init ==
    /\ kept = NoCA /\ trusted = {}
    /\ signer = NoCA /\ number = 0
    /\ report = "none"

\* A run that starts, goes on, is turned down or breaks.
Silent == report' = "none" /\ UNCHANGED <<kept, trusted, signer, number>>

\* The key of another authority, or none, takes the place of the one kept.
Keep ==
    /\ kept' \in CA \cup {NoCA}
    /\ report' = "none"
    /\ UNCHANGED <<trusted, signer, number>>

Trust ==
    /\ kept \in CA
    /\ trusted' = trusted \cup {kept}
    /\ report' = "none"
    /\ UNCHANGED <<kept, signer, number>>

Loaded ==
    /\ kept \in trusted
    /\ report' = "loaded"
    /\ UNCHANGED <<kept, trusted, signer, number>>

\* The report can be lost, the certificate is in use all the same.
Renew ==
    /\ signer' \in trusted
    /\ number' \in Nat /\ number' > number
    /\ report' \in {"renewed", "none"}
    /\ UNCHANGED <<kept, trusted>>

Next == Silent \/ Keep \/ Trust \/ Loaded \/ Renew

Spec == Init /\ [][Next]_vars
=============================================================================
