--------------------------- MODULE MCGameThreads ---------------------------
(***************************************************************************)
(* What runs in threads beside a main thread: AsyncTransfer, NetworkPool   *)
(* and AsyncOperation.  They share nothing, so a behaviour is one of one   *)
(* of them, with the others at rest in their initial states.               *)
(***************************************************************************)
EXTENDS AsyncTransfer, NetworkPool, AsyncOperation

CONSTANTS c1, c2

VARIABLE part

allVars == <<part, vars, netVars, opVars>>

\* The abort button where threads start in time; any closing of the dialog,
\* with threads as late as can be.
McSafe == {[acts |-> {"abort"}, prompt |-> TRUE],
           [acts |-> {"close"}, prompt |-> FALSE]}

McPool(min, max) == [min |-> min, max |-> max]
McPools == {McPool(1, 1), McPool(1, 0), McPool(0, 0)}

\* The game's pool of one thread, with a message left for each of two
\* connections; a daemon's pool, with all messages left for one.
McPoolInit ==
    \/ /\ pool = McPool(1, 1)
       /\ closed = {}
       /\ sent = [c \in Conns |-> IF c = c1 THEN 1 ELSE 2]
    \/ /\ pool = McPool(1, 0)
       /\ closed = {c2}
       /\ sent = [c \in Conns |-> 0]

McPoolRests ==
    /\ pool = McPool(0, 0)
    /\ closed = Conns
    /\ sent = [c \in Conns |-> 0]

McInit ==
    /\ part \in {"transfer", "pool", "connect"}
    /\ Init /\ NetInit /\ OpInit
    /\ part # "transfer" => setting = [acts |-> {"abort"}, prompt |-> TRUE]
    /\ IF part = "pool" THEN McPoolInit ELSE McPoolRests

McNext ==
    \/ part = "transfer" /\ Next /\ UNCHANGED <<part, netVars, opVars>>
    \/ part = "pool" /\ NetNext /\ UNCHANGED <<part, vars, opVars>>
    \/ part = "connect" /\ OpNext /\ UNCHANGED <<part, vars, netVars>>

\* What rests has nothing to do, and its fairness asks for nothing.
McSpec ==
    /\ McInit /\ [][McNext]_allVars
    /\ Fairness /\ NetFairness /\ OpFairness
=============================================================================
