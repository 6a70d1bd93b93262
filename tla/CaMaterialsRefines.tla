------------------------- MODULE CaMaterialsRefines -------------------------
(* swmgr cert, file by file, implements NodeCertificates.                  *)
EXTENDS CaMaterials

Trusted == {trusted[i] : i \in DOMAIN trusted}
Signer == IF served = None THEN None ELSE served.ca
Number == IF served = None THEN 0 ELSE served.pair

Kept == IF keyFile["inbox"] \in CAs THEN keyFile["inbox"] ELSE None

Report ==
    IF result = "ca_updated" THEN "loaded"
    ELSE IF result = "cert_updated" THEN "renewed" ELSE "none"

N == INSTANCE NodeCertificates WITH
        CA <- CAs, NoCA <- None,
        kept <- Kept, trusted <- Trusted,
        signer <- Signer, number <- Number, report <- Report

\* An authority becomes trusted only with its key in the inbox, the certificate of
\* the node is only replaced by a younger one of a trusted authority, and the
\* reports are true, over failed calls, lost replies, breaks and reruns.
ImplementsCertificates == N!Spec
=============================================================================
