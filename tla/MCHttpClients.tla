--------------------------- MODULE MCHttpClients ---------------------------
(* Values of the constants for the run of HttpClients.                     *)
EXTENDS HttpClients

\* Three majors, so that one is not current, and a tag that is no release.
TagVersions == [e \in Entries |->
    CASE e = "8.0.0" -> <<8, 0, 0>>
      [] e = "7.6.1" -> <<7, 6, 1>>
      [] e = "6.6.5" -> <<6, 6, 5>>
      [] OTHER -> <<>>]

Totals == [mgr |-> 1, rest |-> 2]
=============================================================================
