---------------------------- MODULE MCGameServer ----------------------------
(* GameServer with three users, one of whom may come back, and two sides. *)
EXTENDS GameServer, TLC

CONSTANTS alice, bob, carol, a1, b1, b2, cc1, g1, g2

McNameOf == [c \in Conns |-> CASE c = a1 -> alice [] c \in {b1, b2} -> bob [] OTHER -> carol]

McSide(controller, who) == [controller |-> controller, who |-> who]
McHost == McSide("human", None)
McFor(who) == McSide("network", who)

\* The host plays the first side, or watches two others; or nobody may watch.
McMods == {carol}

McScenarios ==
    {[sides |-> <<McHost, y>>, observer |-> TRUE] :
        y \in {McFor(None), McFor(bob), McSide("reserved", bob), McSide("null", None)}}
    \cup {[sides |-> <<McFor(bob), McFor(n)>>, observer |-> TRUE] : n \in {carol, None}}
    \cup {[sides |-> <<McHost, McFor(n)>>, observer |-> FALSE] : n \in {None, alice}}

\* Of the games one at most has its scenario.
McOneGoesOn ==
    \A h, k \in Games :
        h # k /\ None \notin {games[h], games[k]} => ~ (LevelInit(games[h]) /\ LevelInit(games[k]))

McSymmetry == Permutations(Games)
=============================================================================
