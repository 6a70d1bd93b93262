------------------------------ MODULE MCQuotas ------------------------------
(* Values of the constants for the run of Quotas.                          *)
EXTENDS Quotas

CONSTANTS n1, n2, n3, n4

Host(memory, services) == [memory |-> memory, services |-> services]

\* Hosts at either end of the reservation and between, and the least that is
\* Roomy, with one service, several, and query beside them or alone.
Hosts == {Host(4096, {"analytics", "eventing"}), Host(4096, {"query"}),
          Host(10000, {"index", "fts", "query"}), Host(10000, {"data"}),
          Host(20001, {"data", "index", "query"}),
          Host(4096, Services), Host(64000, {"index"})}

AlikeFleets == {f \in [Nodes -> Hosts] : Alike(f) /\ Roomy(f)}

SomeQuotas == [s \in Sized |-> 512]
=============================================================================
