------------------------------- MODULE Lists -------------------------------
(***************************************************************************)
(* Lists that entries are erased from.                                     *)
(***************************************************************************)
EXTENDS Naturals, Sequences

\* The entries of q that are in S, in the order of q.  (SelectSeq, as a function
\* that can be proved about.)
Those(q, S) ==
    LET upTo[i \in 0..Len(q)] ==
          IF i = 0 THEN <<>>
          ELSE IF q[i] \in S THEN Append(upTo[i - 1], q[i]) ELSE upTo[i - 1]
    IN  upTo[Len(q)]
=============================================================================
