--------------------------- MODULE MCAddonServer ---------------------------
(* Instances of AddonServer for TLC: who there is, what is published. *)
EXTENDS AddonServer, TLC

CONSTANTS ta, tb, alice, bob, carol, root

\* carol is named as an author and has no account.
McNames == Logins \cup {carol}

\* Author keys: the owner, the owner after another user, somebody else.
McAuthorLists == {<<alice>>, <<bob, alice>>, <<carol>>}
McOneAuthor == {<<alice>>}

\* Titles that are their own file names, and two that make the same one.
McFormName == [t \in Titles |-> t]
McSameFile == [t \in Titles |-> tb]

\* No title reads as a key.
McNoNumerals == [t \in Titles |-> None]

\* Versions are interchangeable.
McSymmetry == Permutations(Versions)
=============================================================================
