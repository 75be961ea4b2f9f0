--------------------------- MODULE MCNetworkPool ---------------------------
(* An instance of NetworkPool alone: a daemon's pool, and one connection. *)
EXTENDS NetworkPool

McPools == {[min |-> 1, max |-> 0]}

McInit == NetInit /\ closed = {} /\ sent = [c \in Conns |-> 0]

McSpec == McInit /\ [][NetNext]_netVars /\ NetFairness
=============================================================================
