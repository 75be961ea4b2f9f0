------------------------------- MODULE Lobby -------------------------------
(***************************************************************************)
(* What the multiplayer server promises about where its users are: in the  *)
(* lobby or in one game, moving between the two; a game exists while       *)
(* somebody is in it, and when it ends all of its users are in the lobby.  *)
(***************************************************************************)
CONSTANTS Conns, Games, Away, InLobby

VARIABLE place      \* where each connection is

LobbyInit == place = [c \in Conns |-> Away]

Users(g) == {c \in Conns : place[c] = g}

Arrive(c) == place[c] = Away /\ place' = [place EXCEPT ![c] = InLobby]

\* c opens game g, or joins those who are there.
Enter(c, g) == place[c] = InLobby /\ place' = [place EXCEPT ![c] = g]

\* c leaves a game that goes on, for the lobby or the world.
Quit(c, g, to) ==
    /\ place[c] = g
    /\ Users(g) # {c}
    /\ place' = [place EXCEPT ![c] = to]

\* c is lost while in the lobby.
Depart(c) == place[c] = InLobby /\ place' = [place EXCEPT ![c] = Away]

\* A game ends for all that are in it; at most one of them is lost with it.
End(g, lost) ==
    /\ Users(g) # {}
    /\ lost \subseteq Users(g)
    /\ \A c, d \in lost : c = d
    /\ place' = [c \in Conns |-> IF c \in lost THEN Away
                                 ELSE IF place[c] = g THEN InLobby ELSE place[c]]

LobbyNext ==
    \/ \E c \in Conns : Arrive(c) \/ Depart(c)
    \/ \E c \in Conns, g \in Games : Enter(c, g) \/ \E to \in {InLobby, Away} : Quit(c, g, to)
    \/ \E g \in Games, lost \in SUBSET Conns : End(g, lost)

LobbySpec == LobbyInit /\ [][LobbyNext]_place
=============================================================================
