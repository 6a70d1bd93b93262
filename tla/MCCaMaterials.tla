--------------------------- MODULE MCCaMaterials ---------------------------
(* Values of the constants for the runs of CaMaterials.                    *)
EXTENDS CaMaterialsRefines

CONSTANTS ca1, ca2

\* Options for both files, for one of them, and none.
AllOptions == [cert : {None, ca1, ca2}, key : {None, ca1, ca2}]
FilesOnly == {NoOption}
=============================================================================
