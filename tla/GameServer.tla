----------------------------- MODULE GameServer -----------------------------
(***************************************************************************)
(* The multiplayer server (game/src/server): who is in the lobby, who is   *)
(* in which game, who owns which side and whose turn it is.  A message is  *)
(* handled to its end before the next one is read, so each handler is one  *)
(* action.  What arrives is what the game's own dialogs send, from what    *)
(* they knew when they sent it: the sides that a host sends may name users *)
(* that have left, and leave out some that have come.                      *)
(***************************************************************************)
EXTENDS Naturals, Sequences, SequencesExt, Functions, Lists

CONSTANTS
    Conns,      \* connections; handles are never used again
    NameOf,     \* the user that logs in on each, and the address it is from
    Mods,       \* users that are moderators
    Games,      \* places for games: bounds those that exist at once
    Scenarios,  \* what a host may send: its sides, and if others may watch
    None        \* no connection, no name, no game

VARIABLES
    players,    \* players_ of the server: connections that are logged in
    lobby,      \* members of the lobby
    games       \* games_

gsVars == <<players, lobby, games>>

Names == Range(NameOf)
SideNos == 1..9     \* gamemap::MAX_PLAYERS

\* A side of a scenario: who controls it, and by name, who should.
Side == [controller : {"network", "reserved", "human", "null"}, who : Names \cup {None}]
Level == [sides : Seq(Side), observer : BOOLEAN]

\* level is the scenario data, once the host has sent it; human sides are those
\* of the host's computer, whoever plays them.  lost is history: the last player
\* went with his sides, and the game went on.
Game == [owner : Conns, players : Seq(Conns), observers : Seq(Conns),
         sides : [SideNos -> Conns \cup {None}], nulls : SUBSET SideNos, level : Level,
         started : BOOLEAN, turn : SideNos \cup {0}, bans : SUBSET Names, lost : BOOLEAN]

ASSUME GsAssumption ==
    /\ NameOf \in [Conns -> Names]
    /\ Mods \subseteq Names
    /\ None \notin Conns \cup Names
    /\ Scenarios \subseteq Level
    /\ \A sc \in Scenarios : Len(sc.sides) \in SideNos
    /\ None \notin Game
    /\ Games \cap {"away", "lobby"} = {}

Members(g) == Range(g.players) \cup Range(g.observers)
LevelInit(g) == g.level.sides # <<>>
NoSides == [s \in SideNos |-> None]

\* game_is_member: the game whose messages c's are.
Mine(c, h) == games[h] # None /\ c \in Members(games[h]) \cup {games[h].owner}

GsTypeOK ==
    /\ players \subseteq Conns
    /\ lobby \subseteq Conns
    /\ games \in [Games -> Game \cup {None}]
    /\ \A h \in Games : games[h] # None => games[h].turn <= Len(games[h].level.sides)

GsInit ==
    /\ players = {}
    /\ lobby = {}
    /\ games = [h \in Games |-> None]

-----------------------------------------------------------------------------
(* class game *)

Without(q, c) == Those(q, Conns \ {c})

\* The constructor.
NewGame(c) ==
    [owner |-> c, players |-> <<c>>, observers |-> <<>>, sides |-> NoSides, nulls |-> {},
     level |-> [sides |-> <<>>, observer |-> TRUE],
     started |-> FALSE, turn |-> 0, bans |-> {}, lost |-> FALSE]

\* Whether the scenario gives side s to c.
SideOf(g, c, s) ==
    LET side == g.level.sides[s]
    IN  \/ side.controller = "network" /\ side.who = NameOf[c]
        \/ side.controller = "human" /\ c = g.owner

\* update_side_data: everyone who is in the game is a player or an observer by
\* the sides the scenario gives him.
UpdateSideData(g) ==
    LET users == g.players \o g.observers
        given(s) == {c \in Members(g) : s \in DOMAIN g.level.sides /\ SideOf(g, c, s)}
        owners == [s \in SideNos |-> IF given(s) = {} THEN None ELSE CHOOSE c \in given(s) : TRUE]
    IN  [g EXCEPT !.sides = owners,
                  !.nulls = {s \in DOMAIN g.level.sides : g.level.sides[s].controller = "null"},
                  !.players = Those(users, Range(owners)),
                  !.observers = Those(users, Conns \ Range(owners)),
                  !.lost = FALSE]

\* Mutant of EndTurn: turns do not go round.
EndTurnPast(g, k) == k + 1

\* end_turn: the side after k's, empty ones skipped, once round at most.
EndTurn(g, k) ==
    LET n == Len(g.level.sides)
        side(i) == ((k + i - 1) % n) + 1
        rounds == {i \in 1..(n + 1) : i = n + 1 \/ side(i) \notin g.nulls}
    IN  side(CHOOSE i \in rounds : \A j \in rounds : i <= j)

\* A side is there for somebody: the host's dialog starts no other game.
Playable(level) == \E s \in DOMAIN level.sides : level.sides[s].controller # "null"

\* start_game, at the side a saved game names.
StartGame(g, from) ==
    LET u == UpdateSideData(g)
        human(side) == IF side.controller = "null" THEN side
                       ELSE [controller |-> "human", who |-> None]
    IN  [u EXCEPT !.started = TRUE,
                  !.turn = EndTurn(u, from - 1),
                  !.level.sides = [s \in DOMAIN @ |-> human(@[s])]]

\* take_side: the host is told of a side for c, and will send the scenario with
\* his name in it.
TakeSide(g, c) ==
    /\ ~ g.started
    /\ \E s \in DOMAIN g.level.sides :
          /\ g.sides[s] = None
          /\ LET side == g.level.sides[s]
             IN  \/ side.controller = "network"
                 \/ side.controller = "reserved" /\ side.who = NameOf[c]

\* add_player; fails when c could only watch, and may not.
MayAdd(g, c, observer) ==
    (~ observer /\ TakeSide(g, c)) \/ g.level.observer \/ NameOf[c] \in Mods

AddPlayer(g, c, observer) ==
    IF ~ observer /\ TakeSide(g, c) THEN [g EXCEPT !.players = Append(@, c)]
                                    ELSE [g EXCEPT !.observers = Append(@, c)]

\* Whether remove_player says that the game ends.
Ended(g, c) == Without(g.players, c) = <<>> \/ (c = g.owner /\ ~ g.started)

\* Mutant of RemovePlayer: observers stay on the list.
RemovePlayerOnly(g, c) == [g EXCEPT !.players = Without(@, c)]

\* remove_player.  A game that ends is left as it is; otherwise the first player
\* takes the host's place, and the host takes the sides of who has left, which
\* makes a player of him.
RemovePlayer(g, c) ==
    LET r == [g EXCEPT !.players = Without(@, c), !.observers = Without(@, c)]
        owner == IF c = g.owner THEN Head(r.players) ELSE g.owner
        left == {s \in SideNos : g.sides[s] = c}
        joins == left # {} /\ owner \notin Range(r.players)
    IN  IF Ended(g, c) THEN [r EXCEPT !.lost = @ \/ left # {}]
        ELSE [r EXCEPT !.owner = owner,
                       !.sides = [s \in SideNos |-> IF s \in left THEN owner ELSE @[s]],
                       !.players = IF joins THEN Append(@, owner) ELSE @,
                       !.observers = IF joins THEN Without(@, owner) ELSE @]

\* Mutant of TransferSide: who gave his last side away stays a player.
TransferSideKept(g, s, d) ==
    LET toOld == [g EXCEPT !.sides[s] = d, !.nulls = @ \ {s}]
    IN  IF d \notin Range(toOld.observers) THEN toOld
        ELSE [toOld EXCEPT !.players = Append(@, d), !.observers = Without(@, d)]

\* transfer_side_control, once it is allowed: who gives his last side away
\* watches, and who gets one plays.
TransferSide(g, s, d) ==
    LET old == g.sides[s]
        watches == /\ old \in Range(g.players)
                   /\ \A r \in SideNos \ {s} : g.sides[r] # old
        given == [g EXCEPT !.sides[s] = d, !.nulls = @ \ {s},
                           !.players = IF watches THEN Without(@, old) ELSE @,
                           !.observers = IF watches THEN Append(@, old) ELSE @]
    IN  IF d \notin Range(given.observers) THEN given
        ELSE [given EXCEPT !.players = Append(@, d), !.observers = Without(@, d)]

-----------------------------------------------------------------------------
(* The lobby *)

Login(c) ==
    /\ c \notin players
    /\ \A d \in players : NameOf[d] # NameOf[c]
    /\ players' = players \cup {c}
    /\ lobby' = lobby \cup {c}
    /\ UNCHANGED games

CreateGame(c, h) ==
    /\ c \in lobby
    /\ games[h] = None
    /\ games' = [games EXCEPT ![h] = NewGame(c)]
    /\ lobby' = lobby \ {c}
    /\ UNCHANGED players

\* c is not banned, or a moderator.  Who is in another game too is removed from
\* that one first.
Join(c, h, observer) ==
    /\ c \in lobby
    /\ games[h] # None /\ LevelInit(games[h])
    /\ NameOf[c] \in Mods \/ NameOf[c] \notin games[h].bans
    /\ LET others == [k \in Games |-> IF Mine(c, k) THEN RemovePlayer(games[k], c) ELSE games[k]]
       IN  IF MayAdd(others[h], c, observer)
              THEN /\ games' = [others EXCEPT ![h] = AddPlayer(@, c, observer)]
                   /\ lobby' = lobby \ {c}
              ELSE games' = others /\ UNCHANGED lobby
    /\ UNCHANGED players

-----------------------------------------------------------------------------
(* A game *)

\* A message of c, who is not in the lobby, is for the game he is in.
InGame(c, h) == c \in players \ lobby /\ Mine(c, h)

\* Most messages are dropped before the scenario came.
InReady(c, h) == InGame(c, h) /\ LevelInit(games[h])

\* delete_game: its users are in the lobby.
DeleteGame(h) ==
    /\ games' = [games EXCEPT ![h] = None]
    /\ lobby' = lobby \cup Members(games[h])

\* The host sends the scenario.
ScenarioData(c, h, sc) ==
    /\ InGame(c, h) /\ c = games[h].owner /\ ~ LevelInit(games[h])
    /\ games' = [games EXCEPT ![h] = UpdateSideData([@ EXCEPT !.level = sc])]
    /\ UNCHANGED <<players, lobby>>

\* He sends one without settings, or with more sides than the server allows, now
\* or for the next scenario.
BadScenario(c, h) ==
    /\ InGame(c, h) /\ c = games[h].owner
    /\ games[h].started <=> LevelInit(games[h])
    /\ DeleteGame(h)
    /\ UNCHANGED players

\* He changes its sides: dialogs do so until the game starts.
ScenarioDiff(c, h, sc) ==
    /\ InReady(c, h) /\ c = games[h].owner
    /\ ~ games[h].started
    /\ sc.observer = games[h].level.observer
    /\ games' = [games EXCEPT ![h] = UpdateSideData([@ EXCEPT !.level = sc])]
    /\ UNCHANGED <<players, lobby>>

Start(c, h, from) ==
    /\ InReady(c, h) /\ c = games[h].owner
    /\ ~ games[h].started
    /\ Playable(games[h].level) /\ from \in DOMAIN games[h].level.sides
    /\ games' = [games EXCEPT ![h] = StartGame(@, from)]
    /\ UNCHANGED <<players, lobby>>

\* store_next_scenario: the game goes on with another scenario.
NextScenario(c, h, sc) ==
    /\ InReady(c, h) /\ c = games[h].owner
    /\ games[h].started /\ Playable(sc)
    /\ games' = [games EXCEPT ![h] = StartGame([@ EXCEPT !.level = sc], 1)]
    /\ UNCHANGED <<players, lobby>>

\* c gives a side of his, or as the host any side, to d.
ChangeController(c, h, s, d) ==
    LET g == games[h]
    IN  /\ InReady(c, h) /\ g.started
        /\ s \in DOMAIN g.level.sides
        /\ c \in {g.sides[s], g.owner} /\ c \in Range(g.players) \cup {g.owner}
        /\ d \in Members(g) \ {g.sides[s]}
        /\ games' = [games EXCEPT ![h] = TransferSide(@, s, d)]
        /\ UNCHANGED <<players, lobby>>

Turn(c, h) ==
    /\ InReady(c, h) /\ games[h].started
    /\ c = games[h].sides[games[h].turn]
    /\ games' = [games EXCEPT ![h].turn = EndTurn(games[h], @)]
    /\ UNCHANGED <<players, lobby>>

\* c is removed from game h, which goes on, and is in the lobby.
BackToLobby(c, h) ==
    /\ games' = [games EXCEPT ![h] = RemovePlayer(@, c)]
    /\ lobby' = lobby \cup {c}

\* Mutant of LeaveGame: remove_player is left to figure it out.
LeaveGameAlone(c, h) ==
    /\ InReady(c, h)
    /\ BackToLobby(c, h)
    /\ UNCHANGED players

LeaveGame(c, h) ==
    LET g == games[h]
        alone == c \in Range(g.players) /\ Len(g.players) = 1
    IN  /\ InReady(c, h)
        /\ IF alone \/ (c = g.owner /\ (~ g.started \/ g.players = <<>>))
              THEN DeleteGame(h)
              ELSE BackToLobby(c, h)
        /\ UNCHANGED players

\* The host puts d out.  What remove_player says is not looked at.
Kick(c, h, d) ==
    /\ InReady(c, h) /\ c = games[h].owner
    /\ d \in Members(games[h]) \ {c}
    /\ NameOf[d] \notin Mods
    /\ BackToLobby(d, h)
    /\ UNCHANGED players

\* He bans a user, who need not be in the game.
Ban(c, h, d) ==
    LET banned == [games EXCEPT ![h].bans = @ \cup {NameOf[d]}]
    IN  /\ InReady(c, h) /\ c = games[h].owner
        /\ d \in players \ {c}
        /\ NameOf[d] \notin games[h].bans \cup Mods
        /\ IF d \in Members(games[h])
              THEN /\ games' = [banned EXCEPT ![h] = RemovePlayer(@, d)]
                   /\ lobby' = lobby \cup {d}
              ELSE games' = banned /\ UNCHANGED lobby
        /\ UNCHANGED players

Unban(c, h, d) ==
    /\ InReady(c, h) /\ c = games[h].owner
    /\ d \in players /\ NameOf[d] \in games[h].bans
    /\ games' = [games EXCEPT ![h].bans = @ \ {NameOf[d]}]
    /\ UNCHANGED <<players, lobby>>

\* A connection is lost.  The game it was in ends if remove_player says so.
Disconnect(c) ==
    /\ c \in players
    /\ players' = players \ {c}
    /\ IF c \in lobby THEN lobby' = lobby \ {c} /\ UNCHANGED games
       ELSE \E h \in {k \in Games : games[k] # None /\ c \in Members(games[k])} :
                IF Ended(games[h], c)
                   THEN /\ games' = [games EXCEPT ![h] = None]
                        /\ lobby' = lobby \cup (Members(games[h]) \ {c})
                   ELSE /\ games' = [games EXCEPT ![h] = RemovePlayer(@, c)]
                        /\ UNCHANGED lobby

-----------------------------------------------------------------------------
Host(c, h) ==
    \/ \E sc \in Scenarios : ScenarioData(c, h, sc) \/ ScenarioDiff(c, h, sc)
                             \/ NextScenario(c, h, sc)
    \/ BadScenario(c, h)
    \/ \E from \in SideNos : Start(c, h, from)
    \/ \E d \in Conns : Kick(c, h, d) \/ Ban(c, h, d) \/ Unban(c, h, d)

GsNext ==
    \/ \E c \in Conns : Login(c) \/ Disconnect(c)
    \/ \E c \in Conns, h \in Games :
          \/ CreateGame(c, h) \/ \E observer \in BOOLEAN : Join(c, h, observer)
          \/ Host(c, h)
          \/ \E s \in SideNos, d \in Conns : ChangeController(c, h, s, d)
          \/ Turn(c, h) \/ LeaveGame(c, h)

GsSpec == GsInit /\ [][GsNext]_gsVars

-----------------------------------------------------------------------------
\* Whoever is logged in is in the lobby or in one game, as one player or one
\* observer, and nobody else is anywhere: "problems of players not getting
\* properly removed from a game" (server.cpp:1892) are not this code's.
InOnePlace ==
    LET in(c) == {h \in Games : games[h] # None /\ c \in Members(games[h])}
    IN  /\ \A c \in Conns :
              IF c \notin players THEN c \notin lobby /\ in(c) = {}
              ELSE IF c \in lobby THEN in(c) = {}
              ELSE \E h \in Games : in(c) = {h}
        /\ \A h \in Games : games[h] # None =>
              LET q == games[h].players \o games[h].observers
              IN  \A i, j \in DOMAIN q : q[i] = q[j] => i = j

\* The host is in his game, no side belongs to somebody who is not, and once it
\* has started, "players" are the "members owning a side" (game.hpp:287-291),
\* unless a host who only watches has put out the last player.  It is never the
\* turn of an empty side.
SidesArePlayed ==
    \A h \in Games : games[h] # None =>
        LET g == games[h]
            owners == Range(g.sides) \ {None}
        IN  /\ g.owner \in Members(g)
            /\ ~ g.lost => owners \subseteq Members(g)
            /\ g.started /\ ~ g.lost => owners = Range(g.players)
            /\ g.started => g.turn \notin g.nulls

\* Where each connection is, for Lobby.
Where(c) ==
    IF c \notin players THEN "away"
    ELSE IF c \in lobby THEN "lobby"
    ELSE CHOOSE h \in Games : Mine(c, h)

Promised == INSTANCE Lobby WITH Away <- "away", InLobby <- "lobby",
                                place <- [c \in Conns |-> Where(c)]

\* Users move as the lobby promises: one at a time, or all of a game as it ends.
LobbySpec == Promised!LobbySpec
=============================================================================
