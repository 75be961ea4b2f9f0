--------------------------- MODULE MCVersionOrder ---------------------------
(* VersionOrder on the version installed and the one on the server. *)
EXTENDS VersionOrder

McTwoVersions == {[comps |-> <<1, 0, 0>>, special |-> 0],
                  [comps |-> <<1, 0, 1>>, special |-> 0]}
=============================================================================
