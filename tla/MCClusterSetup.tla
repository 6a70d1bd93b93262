--------------------------- MODULE MCClusterSetup ---------------------------
(* Values of the constants for the runs of ClusterSetup.                   *)
EXTENDS ClusterSetupRefines

CONSTANTS n1, n2, n3, dg, g1, g2, ca1, ca2

Call(n, c, r) == [node |-> n, cmd |-> c, rally |-> r]

\* The three-node cluster of the README: create on n1, add on the others,
\* rebalance from the rally node, a later `update` on n2.
ReadmeCalls == {Call(n1, "create", n1), Call(n2, "add", n1),
                Call(n3, "add", n1), Call(n1, "rebalance", n1),
                Call(n2, "update", n1)}

\* Two nodes.
TwoNodeCalls == {Call(n1, "create", n1), Call(n2, "add", n1)}

\* With the certificate commands.  n3 brings an authority of its own and
\* loads it into a store of its own before it joins.
CertCalls == {Call(n1, "create", n1), Call(n2, "add", n1), Call(n3, "add", n1),
              Call(n1, "ca_cert", n1), Call(n2, "ca_cert", n2),
              Call(n3, "ca_cert", n3), Call(n3, "ca_cert", n1),
              Call(n2, "node_cert", n1), Call(n3, "node_cert", n1),
              Call(n1, "cert_auth", n1)}

AllCalls == ReadmeCalls \cup CertCalls

\* Every command on either node, as long as create runs on its rally node.
CommunityCalls == {c \in [node : Nodes, cmd : Commands, rally : Nodes] :
                     c.cmd = "create" => c.rally = c.node}

EveryCall == [node : Nodes, cmd : Commands, rally : Nodes]

\* n1 belongs in the group it joins, the others share another one.
SpreadGroups == [n \in Nodes |-> IF n = n1 THEN dg ELSE g1]
OneGroup == [n \in Nodes |-> g1]
TwoGroups == [n \in Nodes |-> IF n = n2 THEN g2 ELSE g1]
NoCa == [n \in Nodes |-> None]
SameCa == [n \in Nodes |-> ca1]
OtherCa == [n \in Nodes |-> IF n = n3 THEN ca2 ELSE ca1]
=============================================================================
