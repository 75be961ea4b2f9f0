-------------------------- MODULE GameServerProofs --------------------------
(***************************************************************************)
(* That whoever is logged in is in the lobby or in one game, and moves     *)
(* between them as Lobby has it, for any users, games and scenarios and in *)
(* whatever order messages and losses of connections come.                 *)
(***************************************************************************)
EXTENDS GameServer, ListsProofs

USE GsAssumption DEF SideNos

\* Each user of a game is in it once, its host is one of them, and it has as many
\* sides as the server allows.
Listed(g) ==
    /\ Distinct(g.players) /\ Distinct(g.observers)
    /\ Range(g.players) \cap Range(g.observers) = {}
    /\ g.owner \in Members(g)
Shaped(g) == g \in Game /\ Listed(g) /\ Len(g.level.sides) \in 0..9

\* A turn is that of a side.
Timed(g) == g.turn <= Len(g.level.sides) /\ (~ g.started => g.turn = 0)

\* Who owns a side is there, once the game goes on its players are these, and it is
\* the turn of a side that is not empty.
OwnersOf(g) == Range(g.sides) \ {None}
Played(g) ==
    /\ ~ g.lost => OwnersOf(g) \subseteq Members(g)
    /\ g.started /\ ~ g.lost => OwnersOf(g) = Range(g.players)
    /\ g.started => /\ g.turn \notin g.nulls
                    /\ \E s \in DOMAIN g.level.sides : s \notin g.nulls

SoundGame(g) == Shaped(g) /\ Timed(g) /\ Played(g)

-----------------------------------------------------------------------------
(* class game *)

LEMMA MembersType == ASSUME NEW g \in Game
                     PROVE  /\ Range(g.players) \subseteq Conns
                            /\ Range(g.observers) \subseteq Conns
                            /\ Members(g) \subseteq Conns
<1>1. g.players \in Seq(Conns) /\ g.observers \in Seq(Conns)
  BY DEF Game
<1> QED
  BY <1>1, RangeType DEF Members

\* Without takes one user out.
LEMMA WithoutKept ==
    ASSUME NEW q \in Seq(Conns), NEW c, Distinct(q)
    PROVE  /\ Without(q, c) \in Seq(Conns)
           /\ Range(Without(q, c)) = Range(q) \ {c}
           /\ Distinct(Without(q, c))
<1>1. Range(q) \subseteq Conns
  BY RangeType
<1>2. /\ Without(q, c) \in Seq(Conns)
      /\ Range(Without(q, c)) = Range(q) \cap (Conns \ {c})
      /\ Distinct(Without(q, c))
  BY ThoseKept DEF Without
<1> QED
  BY <1>1, <1>2

LEMMA NewGameSound == ASSUME NEW c \in Conns
                      PROVE  SoundGame(NewGame(c)) /\ Members(NewGame(c)) = {c}
<1> DEFINE g == NewGame(c)
<1>1. <<c>> \in Seq(Conns) /\ <<>> \in Seq(Conns) /\ <<>> \in Seq(Side)
  OBVIOUS
<1>2. g \in Game /\ Len(g.level.sides) = 0 /\ g.turn = 0
  BY <1>1 DEF NewGame, Game, Level, NoSides
<1>3. Range(<<c>>) = {c} /\ Range(<<>>) = {} /\ Distinct(<<c>>) /\ Distinct(<<>>)
  BY DEF Range, Distinct
<1>4. /\ g.players = <<c>> /\ g.observers = <<>> /\ g.owner = c
      /\ ~ g.started /\ g.sides = NoSides
  BY DEF NewGame
<1> HIDE DEF g
<1>5. Members(g) = {c} /\ Listed(g)
  BY <1>3, <1>4 DEF Members, Listed
<1>6. Played(g)
  BY <1>4 DEF Played, OwnersOf, NoSides, Range
<1> QED
  BY <1>2, <1>5, <1>6 DEF SoundGame, Shaped, Timed, g

\* Another scenario changes no list.
LEMMA LevelChanges ==
    ASSUME NEW g, Shaped(g), NEW sc \in Scenarios
    PROVE  LET n == [g EXCEPT !.level = sc]
           IN  /\ Shaped(n) /\ Members(n) = Members(g)
               /\ n.level = sc /\ n.turn = g.turn /\ n.started = g.started
<1> DEFINE n == [g EXCEPT !.level = sc]
<1>1. n \in Game /\ n.level = sc /\ n.turn = g.turn /\ n.started = g.started
  BY DEF Shaped, Game
<1>2. n.players = g.players /\ n.observers = g.observers /\ n.owner = g.owner
  BY DEF Shaped, Game
<1> HIDE DEF n
<1>3. Members(n) = Members(g)
  BY <1>2 DEF Members
<1>4. Listed(n)
  BY <1>2, <1>3 DEF Shaped, Listed
<1> QED
  BY <1>1, <1>3, <1>4 DEF Shaped, n

\* update_side_data moves users between the two lists.
LEMMA UpdatedSound ==
    ASSUME NEW g, Shaped(g)
    PROVE  LET u == UpdateSideData(g)
           IN  /\ Shaped(u) /\ Members(u) = Members(g)
               /\ u.level = g.level /\ u.turn = g.turn /\ u.started = g.started
               /\ OwnersOf(u) \subseteq Members(u) /\ OwnersOf(u) = Range(u.players)
               /\ u.nulls = {s \in DOMAIN g.level.sides : g.level.sides[s].controller = "null"}
<1> DEFINE users == g.players \o g.observers
           given(s) == {c \in Members(g) : s \in DOMAIN g.level.sides /\ SideOf(g, c, s)}
           owners == [s \in SideNos |-> IF given(s) = {} THEN None ELSE CHOOSE c \in given(s) : TRUE]
           nulls == {s \in DOMAIN g.level.sides : g.level.sides[s].controller = "null"}
           ps == Those(users, Range(owners))
           os == Those(users, Conns \ Range(owners))
           u == UpdateSideData(g)
<1>1. /\ g \in Game /\ g.players \in Seq(Conns) /\ g.observers \in Seq(Conns)
      /\ g.level.sides \in Seq(Side) /\ Members(g) \subseteq Conns
  BY MembersType DEF Shaped, Game, Level
<1>2. users \in Seq(Conns) /\ Distinct(users) /\ Range(users) = Members(g)
  BY <1>1, BothKept DEF Shaped, Listed, Members
<1>3. owners \in [SideNos -> Conns \cup {None}] /\ Range(owners) \subseteq Members(g) \cup {None}
  <2>1. \A s \in SideNos : given(s) \subseteq Members(g)
    OBVIOUS
  <2> HIDE DEF given
  <2>2. \A s \in SideNos : owners[s] \in Members(g) \cup {None}
    BY <2>1
  <2>3. DOMAIN owners = SideNos /\ owners = [s \in SideNos |-> owners[s]]
    OBVIOUS
  <2> HIDE DEF owners
  <2> QED
    BY <1>1, <2>2, <2>3 DEF Range
<1>4. nulls \subseteq SideNos
  BY <1>1 DEF Shaped
<1> HIDE DEF users, owners, nulls
<1>5. /\ ps \in Seq(Conns) /\ Range(ps) = Members(g) \cap Range(owners) /\ Distinct(ps)
      /\ os \in Seq(Conns) /\ Distinct(os)
      /\ Range(os) = Members(g) \cap (Conns \ Range(owners))
  BY <1>2, ThoseKept
<1>6. u = [g EXCEPT !.sides = owners, !.nulls = nulls, !.players = ps, !.observers = os,
                    !.lost = FALSE]
  BY DEF UpdateSideData, owners, nulls, users
<1> HIDE DEF ps, os, u
<1>7. /\ u \in Game /\ u.level = g.level /\ u.turn = g.turn /\ u.started = g.started
      /\ u.players = ps /\ u.observers = os /\ u.owner = g.owner
      /\ u.sides = owners /\ u.nulls = nulls
  BY <1>1, <1>3, <1>4, <1>5, <1>6 DEF Game
<1>8. Members(u) = Members(g) /\ Range(ps) \cap Range(os) = {}
  BY <1>1, <1>5, <1>7 DEF Members
<1>9. Listed(u)
  BY <1>5, <1>7, <1>8 DEF Listed, Shaped
<1>10. OwnersOf(u) \subseteq Members(u) /\ OwnersOf(u) = Range(u.players)
  BY <1>1, <1>3, <1>5, <1>7, <1>8 DEF OwnersOf
<1> QED
  BY <1>7, <1>8, <1>9, <1>10 DEF Shaped, u, nulls

\* Whose turn is next is found within one round.
LEMMA EndTurnType ==
    ASSUME NEW g, Len(g.level.sides) \in 1..9, NEW k \in Nat
    PROVE  EndTurn(g, k) \in 1..Len(g.level.sides)
<1> DEFINE n == Len(g.level.sides)
           side(i) == ((k + i - 1) % n) + 1
           rounds == {i \in 1..(n + 1) : i = n + 1 \/ side(i) \notin g.nulls}
           first == CHOOSE i \in rounds : \A j \in rounds : i <= j
<1>1. EndTurn(g, k) = side(first)
  BY DEF EndTurn
<1>2. n \in 1..9
  OBVIOUS
<1> HIDE DEF n
<1>3. rounds \subseteq Nat /\ n + 1 \in rounds
  BY <1>2
<1>4. first \in rounds
  <2> HIDE DEF rounds
  <2>1. \E i \in rounds : \A j \in rounds : i <= j
    BY <1>3, LeastOf, Zenon
  <2> QED
    BY <2>1
<1> HIDE DEF first
<1>5. first \in Nat /\ first >= 1
  BY <1>2, <1>4
<1>6. \A m \in Nat : (m % n) \in 0..(n - 1)
  BY <1>2
<1>7. side(first) \in 1..n
  <2>1. k + first - 1 \in Nat
    BY <1>5
  <2>2. ((k + first - 1) % n) \in 0..(n - 1)
    BY <1>6, <2>1
  <2> QED
    BY <1>2, <2>2
<1> QED
  BY <1>1, <1>7 DEF n

\* ... and it is not an empty one, unless all are.
LEMMA EndTurnPlays ==
    ASSUME NEW g, Len(g.level.sides) \in 1..9, NEW k \in 0..Len(g.level.sides),
           NEW s \in 1..Len(g.level.sides), s \notin g.nulls
    PROVE  EndTurn(g, k) \notin g.nulls
<1> DEFINE n == Len(g.level.sides)
           side(i) == ((k + i - 1) % n) + 1
           rounds == {i \in 1..(n + 1) : i = n + 1 \/ side(i) \notin g.nulls}
           first == CHOOSE i \in rounds : \A j \in rounds : i <= j
           r == IF s > k THEN s - k ELSE s - k + n
<1>1. EndTurn(g, k) = side(first)
  BY DEF EndTurn
<1>2. n \in 1..9 /\ k \in 0..n /\ s \in 1..n
  OBVIOUS
<1> HIDE DEF n
<1>3. r \in 1..n /\ k + r - 1 = IF s > k THEN s - 1 ELSE (s - 1) + n
  BY <1>2
<1>4. side(r) = s
  <2>1. \A x \in 0..(n - 1) : x % n = x /\ (x + n) % n = x
    BY <1>2
  <2>2. s - 1 \in 0..(n - 1)
    BY <1>2
  <2>3. (k + r - 1) % n = s - 1
    BY <1>3, <2>1, <2>2
  <2> HIDE DEF r
  <2> QED
    BY <1>2, <2>3
<1> HIDE DEF r
<1>5. r \in rounds
  <2> HIDE DEF side
  <2> QED
    BY <1>2, <1>3, <1>4
<1>6. rounds \subseteq Nat /\ rounds \subseteq 1..(n + 1)
  BY <1>2
<1>7. first \in rounds /\ \A j \in rounds : first <= j
  <2> HIDE DEF rounds
  <2>1. \E i \in rounds : \A j \in rounds : i <= j
    BY <1>5, <1>6, LeastOf, Zenon
  <2> QED
    BY <2>1
<1> HIDE DEF first, side
<1>8. first # n + 1
  <2>1. first <= r
    BY <1>5, <1>7
  <2> QED
    BY <1>2, <1>3, <2>1
<1>9. side(first) \notin g.nulls
  BY <1>7, <1>8
<1> QED
  BY <1>1, <1>9

LEMMA StartedSound ==
    ASSUME NEW g, Shaped(g), Playable(g.level), NEW from \in DOMAIN g.level.sides
    PROVE  SoundGame(StartGame(g, from)) /\ Members(StartGame(g, from)) = Members(g)
<1> DEFINE u == UpdateSideData(g)
           human(side) == IF side.controller = "null" THEN side
                          ELSE [controller |-> "human", who |-> None]
           sides == [s \in DOMAIN u.level.sides |-> human(u.level.sides[s])]
           v == StartGame(g, from)
<1>1. /\ Shaped(u) /\ Members(u) = Members(g) /\ u.level = g.level
      /\ OwnersOf(u) \subseteq Members(u) /\ OwnersOf(u) = Range(u.players)
      /\ u.nulls = {s \in DOMAIN g.level.sides : g.level.sides[s].controller = "null"}
  BY UpdatedSound
<1> HIDE DEF u
<1>2. u \in Game /\ u.level \in Level /\ u.level.sides \in Seq(Side)
  BY <1>1 DEF Shaped, Game, Level
<1>3. Len(u.level.sides) \in 1..9 /\ from - 1 \in Nat
  BY <1>1, <1>2 DEF Shaped
<1>4. EndTurn(u, from - 1) \in 1..Len(u.level.sides)
  BY <1>3, EndTurnType
<1>5. sides \in Seq(Side) /\ Len(sides) = Len(u.level.sides)
  <2>1. \A s \in 1..Len(u.level.sides) : u.level.sides[s] \in Side
    BY <1>2
  <2>2. \A s \in 1..Len(u.level.sides) : human(u.level.sides[s]) \in Side
    BY <2>1 DEF Side
  <2> HIDE DEF human
  <2>3. sides \in [1..Len(u.level.sides) -> Side]
    BY <1>2, <2>2
  <2> HIDE DEF sides
  <2> QED
    BY <1>3, <2>3
<1> DEFINE level == [u.level EXCEPT !.sides = sides]
           turn == EndTurn(u, from - 1)
<1>6. v = [u EXCEPT !.started = TRUE, !.turn = turn, !.level = level]
  BY <1>2 DEF StartGame, u, Game, Level
<1> HIDE DEF sides, v
<1>7. level \in Level /\ level.sides = sides /\ turn \in SideNos
  <2>1. level \in Level /\ level.sides = sides
    BY <1>2, <1>5 DEF Level
  <2>2. turn \in 1..Len(u.level.sides)
    BY <1>4
  <2> HIDE DEF turn, level
  <2>3. \A n \in 1..9 : \A i \in 1..n : i \in SideNos
    OBVIOUS
  <2>4. turn \in SideNos
    BY <1>3, <2>2, <2>3, Zenon
  <2> QED
    BY <2>1, <2>4
<1> HIDE DEF level, turn
<1>8. /\ v \in Game /\ v.started /\ v.turn = turn /\ v.level = level
      /\ v.players = u.players /\ v.observers = u.observers /\ v.owner = u.owner
      /\ v.sides = u.sides /\ v.nulls = u.nulls
  BY <1>2, <1>6, <1>7 DEF Game
<1>9. Members(v) = Members(u)
  BY <1>8 DEF Members
<1>10. Listed(v)
  BY <1>1, <1>8, <1>9 DEF Listed, Shaped
<1>11. Shaped(v) /\ Timed(v)
  BY <1>3, <1>4, <1>5, <1>7, <1>8, <1>10 DEF Shaped, Timed, turn
<1>12. PICK s \in 1..Len(u.level.sides) : s \notin u.nulls
  BY <1>1, <1>2 DEF Playable
<1>13. from - 1 \in 0..Len(u.level.sides)
  BY <1>1, <1>2
<1>14. turn \notin u.nulls
  BY <1>3, <1>12, <1>13, EndTurnPlays DEF turn
<1>15. Played(v)
  <2>1. DOMAIN v.level.sides = 1..Len(u.level.sides)
    BY <1>5, <1>7, <1>8
  <2>2. OwnersOf(v) = OwnersOf(u)
    BY <1>8 DEF OwnersOf
  <2> QED
    BY <1>1, <1>8, <1>9, <1>12, <1>14, <2>1, <2>2 DEF Played
<1> QED
  BY <1>1, <1>9, <1>11, <1>15 DEF SoundGame, v

LEMMA AddedSound ==
    ASSUME NEW g, SoundGame(g), NEW c \in Conns \ Members(g), NEW observer \in BOOLEAN
    PROVE  LET a == AddPlayer(g, c, observer)
           IN  SoundGame(a) /\ Members(a) = Members(g) \cup {c}
<1> DEFINE a == AddPlayer(g, c, observer)
<1>1. g \in Game /\ g.players \in Seq(Conns) /\ g.observers \in Seq(Conns)
  BY DEF SoundGame, Shaped, Game
<1>2. c \notin Range(g.players) /\ c \notin Range(g.observers)
  BY DEF Members
<1>3. /\ Append(g.players, c) \in Seq(Conns) /\ Distinct(Append(g.players, c))
      /\ Range(Append(g.players, c)) = Range(g.players) \cup {c}
      /\ Append(g.observers, c) \in Seq(Conns) /\ Distinct(Append(g.observers, c))
      /\ Range(Append(g.observers, c)) = Range(g.observers) \cup {c}
  BY <1>1, <1>2, AppendKept DEF SoundGame, Shaped, Listed
<1>4. \/ a = [g EXCEPT !.players = Append(g.players, c)] /\ ~ g.started
      \/ a = [g EXCEPT !.observers = Append(g.observers, c)]
  BY <1>1 DEF AddPlayer, TakeSide, Game
<1> HIDE DEF a
<1> DEFINE played == Append(g.players, c)
           watched == Append(g.observers, c)
<1>5. /\ a \in Game /\ a.level = g.level /\ a.turn = g.turn /\ a.started = g.started
      /\ a.owner = g.owner /\ a.sides = g.sides /\ a.nulls = g.nulls /\ a.lost = g.lost
      /\ \/ a.players = Append(g.players, c) /\ a.observers = g.observers /\ ~ g.started
         \/ a.players = g.players /\ a.observers = Append(g.observers, c)
  <2>1. played \in Seq(Conns) /\ watched \in Seq(Conns)
    BY <1>3
  <2>2. \/ a = [g EXCEPT !.players = played] /\ ~ g.started
        \/ a = [g EXCEPT !.observers = watched]
    BY <1>4
  <2> HIDE DEF played, watched
  <2>3. CASE a = [g EXCEPT !.players = played] /\ ~ g.started
    BY <1>1, <2>1, <2>3 DEF Game, played
  <2>4. CASE a = [g EXCEPT !.observers = watched]
    BY <1>1, <2>1, <2>4 DEF Game, watched
  <2> QED
    BY <2>2, <2>3, <2>4
<1>6. Members(a) = Members(g) \cup {c}
  BY <1>3, <1>5 DEF Members
<1>7. Listed(a)
  BY <1>2, <1>3, <1>5, <1>6 DEF Listed, SoundGame, Shaped
<1>8. Played(a)
  <2>1. OwnersOf(a) = OwnersOf(g)
    BY <1>5 DEF OwnersOf
  <2> QED
    BY <1>5, <1>6, <2>1 DEF SoundGame, Played
<1> QED
  BY <1>5, <1>6, <1>7, <1>8 DEF SoundGame, Shaped, Timed, a

\* remove_player, of somebody after whom the game goes on, or who is not its host.
LEMMA RemovedSound ==
    ASSUME NEW g, SoundGame(g), NEW c \in Members(g), c # g.owner \/ ~ Ended(g, c)
    PROVE  LET r == RemovePlayer(g, c)
           IN  SoundGame(r) /\ Members(r) = Members(g) \ {c}
<1> DEFINE ps == Without(g.players, c)
           os == Without(g.observers, c)
           r == [g EXCEPT !.players = ps, !.observers = os]
           owner == IF c = g.owner THEN Head(ps) ELSE g.owner
           left == {s \in SideNos : g.sides[s] = c}
           joins == left # {} /\ owner \notin Range(ps)
           v == RemovePlayer(g, c)
<1>1. /\ g \in Game /\ g.players \in Seq(Conns) /\ g.observers \in Seq(Conns)
      /\ g.owner \in Members(g) /\ Members(g) = Range(g.players) \cup Range(g.observers)
      /\ Members(g) \subseteq Conns
  BY MembersType DEF SoundGame, Shaped, Game, Listed, Members
<1>2. /\ ps \in Seq(Conns) /\ Range(ps) = Range(g.players) \ {c} /\ Distinct(ps)
      /\ os \in Seq(Conns) /\ Range(os) = Range(g.observers) \ {c} /\ Distinct(os)
      /\ Range(ps) \cap Range(os) = {}
  BY <1>1, WithoutKept DEF SoundGame, Shaped, Listed
<1>3. Ended(g, c) <=> ps = <<>> \/ (c = g.owner /\ ~ g.started)
  BY DEF Ended
<1> HIDE DEF ps, os
<1>4. /\ r \in Game /\ r.players = ps /\ r.observers = os /\ r.owner = g.owner
      /\ r.level = g.level /\ r.turn = g.turn /\ r.started = g.started
      /\ r.sides = g.sides /\ r.nulls = g.nulls /\ r.lost = g.lost
  BY <1>1, <1>2 DEF Game
<1>5. CASE Ended(g, c)
  <2>1. v = [r EXCEPT !.lost = r.lost \/ left # {}]
    BY <1>4, <1>5 DEF RemovePlayer, r, left, ps, os, Game
  <2> DEFINE lost == r.lost \/ left # {}
  <2> HIDE DEF r, v, left
  <2>2. /\ v \in Game /\ v.players = ps /\ v.observers = os /\ v.owner = g.owner
        /\ v.level = g.level /\ v.turn = g.turn /\ v.started = g.started
        /\ v.sides = g.sides /\ v.nulls = g.nulls /\ v.lost = lost
    BY <1>4, <2>1 DEF Game
  <2>3. Members(v) = Members(g) \ {c}
    BY <1>1, <1>2, <2>2 DEF Members
  <2>4. Listed(v)
    BY <1>1, <1>2, <1>5, <2>2, <2>3 DEF Listed
  <2>5. Played(v)
    <3>1. OwnersOf(v) = OwnersOf(g)
      BY <2>2 DEF OwnersOf
    <3>2. ~ v.lost => c \notin OwnersOf(g) /\ ~ g.lost
      BY <1>1, <1>4, <2>2 DEF OwnersOf, Range, left, lost, Game
    <3>3. ~ v.lost => OwnersOf(v) \subseteq Members(v)
      BY <2>3, <3>1, <3>2 DEF SoundGame, Played
    <3>4. v.started /\ ~ v.lost => OwnersOf(v) = Range(v.players)
      <4>1. ~ v.lost /\ v.started => OwnersOf(g) = Range(g.players)
        BY <2>2, <3>2 DEF SoundGame, Played
      <4>2. Range(v.players) = Range(g.players) \ {c}
        BY <1>2, <2>2
      <4> QED
        BY <3>1, <3>2, <4>1, <4>2
    <3> QED
      BY <2>2, <3>3, <3>4 DEF SoundGame, Played
  <2> QED
    BY <2>2, <2>3, <2>4, <2>5 DEF SoundGame, Shaped, Timed, v
<1>6. CASE ~ Ended(g, c)
  <2>1. owner \in (Range(ps) \cup Range(os)) /\ owner \in Conns
    <3>1. ps # <<>>
      BY <1>3, <1>6
    <3>2. Head(ps) \in Range(ps)
      BY <1>2, <3>1 DEF Range
    <3> QED
      BY <1>1, <1>2, <3>2
  <2> DEFINE ps2 == IF joins THEN Append(ps, owner) ELSE ps
             os2 == IF joins THEN Without(os, owner) ELSE os
             sides == [s \in SideNos |-> IF s \in left THEN owner ELSE g.sides[s]]
  <2>2. v = [r EXCEPT !.owner = owner, !.sides = sides, !.players = ps2, !.observers = os2]
    BY <1>4, <1>6 DEF RemovePlayer, r, left, joins, owner, sides, ps, os, Game
  <2>3. sides \in [SideNos -> Conns \cup {None}]
    BY <1>1, <2>1 DEF Game
  <2>4. /\ ps2 \in Seq(Conns) /\ Distinct(ps2) /\ os2 \in Seq(Conns) /\ Distinct(os2)
        /\ Range(ps2) \cap Range(os2) = {}
        /\ Range(ps2) \cup Range(os2) = Range(ps) \cup Range(os)
        /\ Range(ps2) = IF left = {} THEN Range(ps) ELSE Range(ps) \cup {owner}
    <3> HIDE DEF owner, left
    <3>1. CASE joins
      <4>1. /\ Append(ps, owner) \in Seq(Conns) /\ Distinct(Append(ps, owner))
            /\ Range(Append(ps, owner)) = Range(ps) \cup {owner}
        BY <1>2, <2>1, <3>1, AppendKept
      <4>2. /\ Without(os, owner) \in Seq(Conns) /\ Distinct(Without(os, owner))
            /\ Range(Without(os, owner)) = Range(os) \ {owner}
        BY <1>2, WithoutKept
      <4> QED
        BY <1>2, <2>1, <3>1, <4>1, <4>2
    <3>2. CASE ~ joins
      <4>1. left = {} \/ owner \in Range(ps)
        BY <3>2
      <4>2. ps2 = ps /\ os2 = os
        BY <3>2
      <4> HIDE DEF ps2, os2
      <4> QED
        BY <1>2, <4>1, <4>2
    <3> QED
      BY <3>1, <3>2
  <2> HIDE DEF r, v, owner, sides, ps2, os2
  <2>5. /\ v \in Game /\ v.players = ps2 /\ v.observers = os2 /\ v.owner = owner
        /\ v.level = g.level /\ v.turn = g.turn /\ v.started = g.started
        /\ v.sides = sides /\ v.nulls = g.nulls /\ v.lost = g.lost
    BY <1>4, <2>1, <2>2, <2>3, <2>4 DEF Game
  <2>6. Members(v) = Members(g) \ {c}
    BY <1>1, <1>2, <2>4, <2>5 DEF Members
  <2>7. Listed(v)
    BY <1>1, <1>2, <2>1, <2>4, <2>5, <2>6 DEF Listed
  <2>8. OwnersOf(v) = (OwnersOf(g) \ {c}) \cup (IF left = {} THEN {} ELSE {owner})
    <3>1. g.sides \in [SideNos -> Conns \cup {None}]
      BY <1>1 DEF Game
    <3>2. /\ \A s \in SideNos : sides[s] = IF s \in left THEN owner ELSE g.sides[s]
          /\ DOMAIN sides = SideNos
      BY DEF sides
    <3>3. left = {s \in SideNos : g.sides[s] = c}
      BY DEF left
    <3> HIDE DEF left
    <3> QED
      BY <2>1, <2>5, <3>1, <3>2, <3>3 DEF OwnersOf, Range
  <2>9. Played(v)
    <3>1. left = {} => c \notin OwnersOf(g)
      BY <1>1 DEF OwnersOf, Range, left, Game
    <3>2. v.started /\ ~ v.lost => OwnersOf(v) = Range(v.players)
      BY <1>2, <2>4, <2>5, <2>8, <3>1 DEF SoundGame, Played
    <3>3. ~ v.lost => OwnersOf(v) \subseteq Members(v)
      BY <1>1, <1>2, <2>1, <2>5, <2>6, <2>8 DEF SoundGame, Played
    <3> QED
      BY <2>5, <3>2, <3>3 DEF SoundGame, Played
  <2> QED
    BY <2>5, <2>6, <2>7, <2>9 DEF SoundGame, Shaped, Timed, v
<1> QED
  BY <1>5, <1>6

\* transfer_side_control moves users between the lists.
LEMMA TransferredSound ==
    ASSUME NEW g, SoundGame(g), g.started, NEW s \in SideNos, NEW d \in Members(g),
           d # g.sides[s]
    PROVE  LET t == TransferSide(g, s, d)
           IN  SoundGame(t) /\ Members(t) = Members(g)
<1> DEFINE old == g.sides[s]
           watches == /\ old \in Range(g.players)
                      /\ \A r \in SideNos \ {s} : g.sides[r] # old
           ps == IF watches THEN Without(g.players, old) ELSE g.players
           os == IF watches THEN Append(g.observers, old) ELSE g.observers
           given == [g EXCEPT !.sides[s] = d, !.nulls = @ \ {s},
                              !.players = IF watches THEN Without(@, old) ELSE @,
                              !.observers = IF watches THEN Append(@, old) ELSE @]
           t == TransferSide(g, s, d)
<1>1. /\ g \in Game /\ g.players \in Seq(Conns) /\ g.observers \in Seq(Conns)
      /\ g.owner \in Members(g) /\ Members(g) = Range(g.players) \cup Range(g.observers)
      /\ Members(g) \subseteq Conns
      /\ Distinct(g.players) /\ Distinct(g.observers)
      /\ Range(g.players) \cap Range(g.observers) = {}
  BY MembersType DEF SoundGame, Shaped, Game, Listed, Members
<1>2. /\ ps \in Seq(Conns) /\ Distinct(ps) /\ os \in Seq(Conns) /\ Distinct(os)
      /\ Range(ps) \cap Range(os) = {} /\ Range(ps) \cup Range(os) = Members(g)
      /\ Range(ps) = IF watches THEN Range(g.players) \ {old} ELSE Range(g.players)
  <2>1. CASE watches
    <3> HIDE DEF old
    <3>1. old \in Range(g.players) /\ old \in Conns /\ old \notin Range(g.observers)
      BY <1>1, <2>1
    <3>2. /\ Append(g.observers, old) \in Seq(Conns) /\ Distinct(Append(g.observers, old))
          /\ Range(Append(g.observers, old)) = Range(g.observers) \cup {old}
      BY <1>1, <3>1, AppendKept
    <3>3. /\ Without(g.players, old) \in Seq(Conns) /\ Distinct(Without(g.players, old))
          /\ Range(Without(g.players, old)) = Range(g.players) \ {old}
      BY <1>1, WithoutKept
    <3> QED
      BY <1>1, <2>1, <3>1, <3>2, <3>3
  <2>2. CASE ~ watches
    BY <1>1, <2>2
  <2> QED
    BY <2>1, <2>2
<1>3. given = [g EXCEPT !.sides = [g.sides EXCEPT ![s] = d], !.nulls = g.nulls \ {s},
                        !.players = ps, !.observers = os]
  BY <1>1 DEF Game
<1>4. t = IF d \notin Range(given.observers) THEN given
          ELSE [given EXCEPT !.players = Append(given.players, d),
                             !.observers = Without(given.observers, d)]
  BY <1>1 DEF TransferSide, Game
<1>5. [g.sides EXCEPT ![s] = d] \in [SideNos -> Conns \cup {None}] /\ g.nulls \ {s} \subseteq SideNos
  BY <1>1 DEF Game
<1>9. LET owners == Range([g.sides EXCEPT ![s] = d]) \ {None}
      IN  /\ owners \subseteq OwnersOf(g) \cup {d}
          /\ ~ g.lost => owners = Range(ps) \cup {d}
  <2> DEFINE sides == [g.sides EXCEPT ![s] = d]
             owners == Range(sides) \ {None}
  <2>1. /\ g.sides \in [SideNos -> Conns \cup {None}] /\ d \in Conns
        /\ DOMAIN sides = SideNos
        /\ \A r \in SideNos : sides[r] = IF r = s THEN d ELSE g.sides[r]
    BY <1>1 DEF Game
  <2>2. owners = {d} \cup {x \in OwnersOf(g) : \E r \in SideNos \ {s} : g.sides[r] = x}
    <3> HIDE DEF sides
    <3> QED
      BY <2>1 DEF OwnersOf, Range
  <2>3. \A x \in OwnersOf(g) : (\A r \in SideNos \ {s} : g.sides[r] # x) => x = old
    BY <2>1 DEF OwnersOf, Range
  <2> HIDE DEF sides, owners, old, ps
  <2>4. ASSUME ~ g.lost PROVE owners = Range(ps) \cup {d}
    <3>1. OwnersOf(g) = Range(g.players)
      BY <2>4 DEF SoundGame, Played
    <3>2. CASE watches
      BY <1>2, <2>2, <2>3, <3>1, <3>2
    <3>3. CASE ~ watches
      BY <1>2, <2>2, <2>3, <3>1, <3>3
    <3> QED
      BY <3>2, <3>3
  <2> QED
    BY <2>2, <2>4 DEF owners, sides
<1> HIDE DEF given, ps, os, t
<1>6. /\ given \in Game /\ given.players = ps /\ given.observers = os /\ given.owner = g.owner
      /\ given.level = g.level /\ given.turn = g.turn /\ given.started = g.started
      /\ given.sides = [g.sides EXCEPT ![s] = d] /\ given.nulls = g.nulls \ {s}
      /\ given.lost = g.lost
  BY <1>1, <1>2, <1>3, <1>5 DEF Game
<1>10. ASSUME NEW v, Members(v) = Members(g), Range(v.players) = Range(ps) \cup {d},
              v.sides = given.sides, v.nulls = given.nulls, v.lost = g.lost,
              v.level = g.level, v.turn = g.turn, v.started = g.started
       PROVE  Played(v)
  <2>1. /\ OwnersOf(v) \subseteq OwnersOf(g) \cup {d}
        /\ ~ g.lost => OwnersOf(v) = Range(ps) \cup {d}
    BY <1>6, <1>9, <1>10 DEF OwnersOf
  <2>2. v.nulls \subseteq g.nulls
    BY <1>6, <1>10
  <2> QED
    BY <1>10, <2>1, <2>2 DEF SoundGame, Played
<1>7. CASE d \notin Range(os)
  <2>1. t = given
    BY <1>4, <1>6, <1>7
  <2>2. Members(t) = Members(g)
    BY <1>2, <1>6, <2>1 DEF Members
  <2>3. Listed(t)
    BY <1>1, <1>2, <1>6, <2>1, <2>2 DEF Listed
  <2>4. Range(t.players) = Range(ps) \cup {d}
    BY <1>2, <1>6, <1>7, <2>1
  <2>5. Played(t)
    BY <1>6, <1>10, <2>1, <2>2, <2>4
  <2> QED
    BY <1>6, <2>1, <2>2, <2>3, <2>5 DEF SoundGame, Shaped, Timed, t
<1>8. CASE d \in Range(os)
  <2>1. t = [given EXCEPT !.players = Append(ps, d), !.observers = Without(os, d)]
    BY <1>4, <1>6, <1>8
  <2>2. /\ Append(ps, d) \in Seq(Conns) /\ Distinct(Append(ps, d))
        /\ Range(Append(ps, d)) = Range(ps) \cup {d}
    BY <1>1, <1>2, <1>8, AppendKept
  <2>3. /\ Without(os, d) \in Seq(Conns) /\ Distinct(Without(os, d))
        /\ Range(Without(os, d)) = Range(os) \ {d}
    BY <1>2, WithoutKept
  <2>4. /\ t \in Game /\ t.players = Append(ps, d) /\ t.observers = Without(os, d)
        /\ t.owner = g.owner
        /\ t.level = g.level /\ t.turn = g.turn /\ t.started = g.started
        /\ t.sides = given.sides /\ t.nulls = given.nulls /\ t.lost = g.lost
    BY <1>6, <2>1, <2>2, <2>3 DEF Game
  <2>5. Members(t) = Members(g)
    BY <1>2, <1>8, <2>2, <2>3, <2>4 DEF Members
  <2>6. Listed(t)
    BY <1>1, <1>2, <2>2, <2>3, <2>4, <2>5 DEF Listed
  <2>7. Played(t)
    BY <1>10, <2>2, <2>4, <2>5
  <2> QED
    BY <2>4, <2>5, <2>6, <2>7 DEF SoundGame, Shaped, Timed, t
<1> QED
  BY <1>7, <1>8

-----------------------------------------------------------------------------
(* Who is where *)

In(c, h) == games[h] # None /\ c \in Members(games[h])

GsTypes == /\ players \subseteq Conns /\ lobby \subseteq players
           /\ games \in [Games -> Game \cup {None}]
AllSound == \A h \in Games : games[h] # None => SoundGame(games[h])

Placed ==
    /\ \A c \in Conns, h \in Games : In(c, h) => c \in players \ lobby
    /\ \A c \in Conns, h, k \in Games : In(c, h) /\ In(c, k) => h = k
    /\ \A c \in players \ lobby : \E h \in Games : In(c, h)

GsIInv == GsTypes /\ AllSound /\ Placed

Places == [c \in Conns |-> Where(c)]

\* Where says so.
Positions ==
    \A c \in Conns :
        /\ c \notin players => Where(c) = "away"
        /\ c \in lobby => Where(c) = "lobby"
        /\ c \in players \ lobby => \E h \in Games : Where(c) = h /\ In(c, h)

LEMMA GameOf == ASSUME GsIInv, NEW h \in Games, games[h] # None
                PROVE  /\ SoundGame(games[h]) /\ games[h] \in Game
                       /\ games[h].owner \in Members(games[h])
                       /\ Members(games[h]) \subseteq Conns
<1>1. SoundGame(games[h])
  BY DEF GsIInv, AllSound
<1> QED
  BY <1>1, MembersType DEF SoundGame, Shaped, Listed

\* A game's messages are of its members: the host is one.
LEMMA MineIn == ASSUME GsIInv, NEW c, NEW h \in Games
                PROVE  Mine(c, h) <=> In(c, h)
BY GameOf DEF Mine, In

LEMMA WhereIs == GsIInv => Positions
<1> SUFFICES ASSUME GsIInv, NEW c \in Conns, c \in players \ lobby
             PROVE  \E h \in Games : Where(c) = h /\ In(c, h)
  BY DEF Positions, Where, GsIInv, GsTypes
<1>1. PICK h \in Games : Mine(c, h)
  BY MineIn DEF GsIInv, Placed
<1>2. Where(c) = CHOOSE k \in Games : Mine(c, k)
  BY DEF Where
<1>3. Where(c) \in Games /\ Mine(c, Where(c))
  BY <1>1, <1>2
<1> QED
  BY <1>3, MineIn

LEMMA WhereIsNext == GsIInv' => Positions'
BY WhereIs, PTL

\* Who is where he was.
LEMMA Stays ==
    ASSUME GsIInv, GsIInv', NEW c \in Conns, c \in players' <=> c \in players,
           c \in lobby' <=> c \in lobby, \A h \in Games : In(c, h) => In(c, h)'
    PROVE  Where(c)' = Where(c)
<1>1. Positions /\ Positions'
  BY WhereIs, WhereIsNext
<1>2. CASE c \notin players
  BY <1>1, <1>2 DEF Positions
<1>3. CASE c \in lobby
  BY <1>1, <1>3 DEF Positions
<1>4. CASE c \in players \ lobby
  <2>1. PICK h \in Games : Where(c) = h /\ In(c, h)
    BY <1>1, <1>4 DEF Positions
  <2>2. PICK k \in Games : Where(c)' = k /\ In(c, k)'
    BY <1>1, <1>4 DEF Positions
  <2>3. h = k
    BY <2>1, <2>2 DEF GsIInv, Placed
  <2> QED
    BY <2>1, <2>2, <2>3
<1> QED
  BY <1>2, <1>3, <1>4

-----------------------------------------------------------------------------
(* How users move *)

Moves == GsIInv' /\ [Promised!LobbyNext]_Places

\* One game changes.
LEMMA OneGame ==
    ASSUME GsIInv, NEW h \in Games, NEW g, g = None \/ SoundGame(g),
           games' = [games EXCEPT ![h] = g]
    PROVE  /\ games' \in [Games -> Game \cup {None}] /\ AllSound'
           /\ \A c \in Conns, k \in Games \ {h} : In(c, k)' <=> In(c, k)
           /\ \A c \in Conns : In(c, h)' <=> g # None /\ c \in Members(g)
<1>1. /\ games'[h] = g /\ \A k \in Games \ {h} : games'[k] = games[k]
      /\ games' \in [Games -> Game \cup {None}]
  BY DEF GsIInv, GsTypes, SoundGame, Shaped
<1>2. AllSound'
  BY <1>1 DEF GsIInv, AllSound
<1>3. \A c \in Conns, k \in Games : In(c, k)' <=> games'[k] # None /\ c \in Members(games'[k])
  BY DEF In, Members
<1> QED
  BY <1>1, <1>2, <1>3 DEF In

\* Nobody moves.
LEMMA NobodyMoves ==
    ASSUME GsIInv, NEW h \in Games, games[h] # None, NEW g, SoundGame(g),
           Members(g) = Members(games[h]),
           games' = [games EXCEPT ![h] = g], UNCHANGED <<players, lobby>>
    PROVE  Moves
<1>1. /\ games' \in [Games -> Game \cup {None}] /\ AllSound'
      /\ \A c \in Conns, k \in Games : In(c, k)' <=> In(c, k)
  <2>1. g # None
    BY DEF SoundGame, Shaped
  <2> QED
    BY <2>1, OneGame DEF In
<1>2. Placed'
  BY <1>1 DEF GsIInv, GsTypes, Placed
<1>3. GsIInv'
  BY <1>1, <1>2 DEF GsIInv, GsTypes
<1>4. Places' = Places
  BY <1>1, <1>3, Stays DEF Places
<1> QED
  BY <1>3, <1>4 DEF Moves

\* One user is where he was not: what that means for Places.
LEMMA OneMoved ==
    ASSUME GsIInv, GsIInv', NEW d \in Conns,
           \A c \in Conns \ {d} :
              /\ (c \in players' <=> c \in players) /\ (c \in lobby' <=> c \in lobby)
              /\ \A h \in Games : In(c, h) => In(c, h)'
    PROVE  Places' = [Places EXCEPT ![d] = Where(d)']
<1>1. \A c \in Conns \ {d} : Where(c)' = Where(c)
  BY Stays
<1> QED
  BY <1>1 DEF Places

LEMMA Comes == ASSUME GsIInv, NEW c \in Conns, Login(c) PROVE Moves
<1>1. \A d \in Conns, k \in Games : In(d, k)' <=> In(d, k)
  BY DEF Login, In
<1>2. Placed' /\ AllSound'
  BY <1>1 DEF GsIInv, GsTypes, Placed, AllSound, Login
<1>3. GsIInv'
  BY <1>2 DEF GsIInv, GsTypes, Login
<1>4. Places' = [Places EXCEPT ![c] = Where(c)']
  BY <1>1, <1>3, OneMoved DEF Login
<1>5. Where(c) = "away" /\ Where(c)' = "lobby"
  BY <1>3, WhereIs, WhereIsNext DEF Positions, Login
<1>6. Promised!Arrive(c)
  BY <1>4, <1>5 DEF Promised!Arrive, Places
<1> QED
  BY <1>3, <1>6 DEF Moves, Promised!LobbyNext

\* A user goes from the lobby to a game, which may be new.
LEMMA Enters ==
    ASSUME GsIInv, NEW d \in Conns, d \in lobby, NEW h \in Games, NEW g, SoundGame(g),
           Members(g) = {d} \cup (IF games[h] = None THEN {} ELSE Members(games[h])),
           games' = [games EXCEPT ![h] = g], players' = players, lobby' = lobby \ {d}
    PROVE  Moves
<1>0. g # None
  BY DEF SoundGame, Shaped
<1>1. /\ games' \in [Games -> Game \cup {None}] /\ AllSound'
      /\ \A c \in Conns, k \in Games \ {h} : In(c, k)' <=> In(c, k)
      /\ \A c \in Conns : In(c, h)' <=> In(c, h) \/ c = d
  BY <1>0, OneGame DEF In
<1>2. \A k \in Games : ~ In(d, k)
  BY DEF GsIInv, Placed
<1>3. Placed'
  BY <1>1, <1>2 DEF GsIInv, GsTypes, Placed
<1>4. GsIInv'
  BY <1>1, <1>3 DEF GsIInv, GsTypes
<1>5. Places' = [Places EXCEPT ![d] = Where(d)']
  BY <1>1, <1>4, OneMoved
<1>6. Where(d) = "lobby"
  BY WhereIs DEF Positions
<1>7. Where(d)' = h
  <2>1. d \in players' \ lobby'
    BY DEF GsIInv, GsTypes
  <2>2. PICK k \in Games : Where(d)' = k /\ In(d, k)'
    BY <1>4, <2>1, WhereIsNext DEF Positions
  <2> QED
    BY <1>1, <1>2, <2>2
<1>8. Promised!Enter(d, h)
  BY <1>5, <1>6, <1>7 DEF Promised!Enter, Places
<1> QED
  BY <1>4, <1>8 DEF Moves, Promised!LobbyNext

\* A user leaves a game that goes on, for the lobby or the world.
LEMMA Leaves ==
    ASSUME GsIInv, NEW h \in Games, games[h] # None, NEW d \in Members(games[h]),
           NEW g, SoundGame(g), Members(g) = Members(games[h]) \ {d},
           games' = [games EXCEPT ![h] = g],
           \/ players' = players /\ lobby' = lobby \cup {d}
           \/ players' = players \ {d} /\ lobby' = lobby
    PROVE  Moves
<1>0. g # None /\ d \in Conns /\ In(d, h)
  BY GameOf DEF SoundGame, Shaped, In
<1>1. /\ games' \in [Games -> Game \cup {None}] /\ AllSound'
      /\ \A c \in Conns, k \in Games \ {h} : In(c, k)' <=> In(c, k)
      /\ \A c \in Conns : In(c, h)' <=> In(c, h) /\ c # d
  BY <1>0, OneGame DEF In
<1>2. d \in players \ lobby /\ \A k \in Games : In(d, k) => k = h
  BY <1>0 DEF GsIInv, Placed
<1>3. Placed'
  BY <1>1, <1>2 DEF GsIInv, GsTypes, Placed
<1>4. GsIInv'
  BY <1>1, <1>2, <1>3 DEF GsIInv, GsTypes
<1>5. Places' = [Places EXCEPT ![d] = Where(d)']
  <2>1. \A c \in Conns \ {d} :
           /\ (c \in players' <=> c \in players) /\ (c \in lobby' <=> c \in lobby)
           /\ \A k \in Games : In(c, k) => In(c, k)'
    BY <1>1
  <2> QED
    BY <1>0, <1>4, <2>1, OneMoved
<1>6. Where(d) = h
  BY <1>0, <1>2, WhereIs DEF Positions
<1>7. Where(d)' \in {"lobby", "away"}
  BY <1>0, <1>2, <1>4, WhereIsNext DEF Positions
<1>8. Promised!Users(h) # {d}
  <2>1. g.owner \in Members(games[h]) \ {d}
    BY DEF SoundGame, Shaped, Listed
  <2>2. g.owner \in Conns /\ In(g.owner, h)
    BY <2>1, GameOf DEF In
  <2>3. g.owner \in players \ lobby /\ \A k \in Games : In(g.owner, k) => k = h
    BY <2>2 DEF GsIInv, Placed
  <2>4. Where(g.owner) = h
    BY <2>2, <2>3, WhereIs DEF Positions
  <2> QED
    BY <2>1, <2>2, <2>4 DEF Promised!Users
<1>9. Promised!Quit(d, h, Where(d)')
  BY <1>0, <1>5, <1>6, <1>8 DEF Promised!Quit, Places
<1>10. \E to \in {"lobby", "away"} : Promised!Quit(d, h, to)
  BY <1>7, <1>9
<1> QED
  BY <1>0, <1>4, <1>10 DEF Moves, Promised!LobbyNext

\* A game ends, and all its users are in the lobby but one who may be lost.
LEMMA Ends ==
    ASSUME GsIInv, NEW h \in Games, games[h] # None,
           NEW lost \in SUBSET Members(games[h]), \A c, d \in lost : c = d,
           games' = [games EXCEPT ![h] = None], players' = players \ lost,
           lobby' = lobby \cup (Members(games[h]) \ lost)
    PROVE  Moves
<1>0. lost \subseteq Conns /\ \A c \in Conns : In(c, h) <=> c \in Members(games[h])
  BY GameOf DEF In
<1>1. /\ games' \in [Games -> Game \cup {None}] /\ AllSound'
      /\ \A c \in Conns, k \in Games \ {h} : In(c, k)' <=> In(c, k)
      /\ \A c \in Conns : ~ In(c, h)'
  BY OneGame DEF In
<1>2. \A c \in Conns : In(c, h) => c \in players \ lobby /\ \A k \in Games : In(c, k) => k = h
  BY DEF GsIInv, Placed
<1>3. Placed'
  BY <1>0, <1>1, <1>2 DEF GsIInv, GsTypes, Placed
<1>4. GsIInv'
  <2>1. Members(games[h]) \subseteq players
    BY <1>0, <1>2, GameOf
  <2> QED
    BY <1>0, <1>1, <1>2, <1>3, <2>1 DEF GsIInv, GsTypes
<1>5. \A c \in Conns : Where(c) = h <=> In(c, h)
  <2> SUFFICES ASSUME NEW c \in Conns PROVE Where(c) = h <=> In(c, h)
    OBVIOUS
  <2>1. CASE In(c, h)
    BY <1>2, <2>1, WhereIs DEF Positions
  <2>2. CASE ~ In(c, h)
    <3>1. Where(c) \in {"away", "lobby"} \/ \E k \in Games : Where(c) = k /\ In(c, k)
      BY WhereIs DEF Positions
    <3> QED
      BY <2>2, <3>1
  <2> QED
    BY <2>1, <2>2
<1>6. \A c \in Conns : Where(c)' = IF c \in lost THEN "away"
                                   ELSE IF Where(c) = h THEN "lobby" ELSE Where(c)
  <2> SUFFICES ASSUME NEW c \in Conns
               PROVE  Where(c)' = IF c \in lost THEN "away"
                                  ELSE IF Where(c) = h THEN "lobby" ELSE Where(c)
    OBVIOUS
  <2>1. CASE c \in lost
    BY <1>4, <2>1, WhereIsNext DEF Positions
  <2>2. CASE c \notin lost /\ In(c, h)
    BY <1>0, <1>4, <1>5, <2>2, WhereIsNext DEF Positions
  <2>3. CASE c \notin lost /\ ~ In(c, h)
    <3>1. (c \in players' <=> c \in players) /\ (c \in lobby' <=> c \in lobby)
      BY <1>0, <2>3
    <3>2. \A k \in Games : In(c, k) => In(c, k)'
      BY <1>1, <2>3
    <3>3. Where(c)' = Where(c)
      BY <1>4, <3>1, <3>2, Stays
    <3> QED
      BY <1>5, <2>3, <3>3
  <2> QED
    BY <2>1, <2>2, <2>3
<1>7. Promised!End(h, lost)
  <2>1. Promised!Users(h) # {} /\ lost \subseteq Promised!Users(h)
    <3>1. games[h].owner \in Conns /\ In(games[h].owner, h)
      BY GameOf DEF In
    <3> QED
      BY <1>0, <1>5, <3>1 DEF Promised!Users
  <2> QED
    BY <1>6, <2>1 DEF Promised!End, Places
<1> QED
  BY <1>0, <1>4, <1>7 DEF Moves, Promised!LobbyNext

\* A user is lost in the lobby.
LEMMA Departs ==
    ASSUME GsIInv, NEW c \in Conns, c \in lobby, players' = players \ {c},
           lobby' = lobby \ {c}, games' = games
    PROVE  Moves
<1>1. \A d \in Conns, k \in Games : In(d, k)' <=> In(d, k)
  BY DEF In
<1>2. Placed' /\ AllSound'
  BY <1>1 DEF GsIInv, GsTypes, Placed, AllSound
<1>3. GsIInv'
  BY <1>2 DEF GsIInv, GsTypes
<1>4. Places' = [Places EXCEPT ![c] = Where(c)']
  BY <1>1, <1>3, OneMoved
<1>5. Where(c) = "lobby" /\ Where(c)' = "away"
  BY <1>3, WhereIs, WhereIsNext DEF Positions
<1>6. Promised!Depart(c)
  BY <1>4, <1>5 DEF Promised!Depart, Places
<1> QED
  BY <1>3, <1>6 DEF Moves, Promised!LobbyNext

-----------------------------------------------------------------------------
(* Messages *)

LEMMA CreateGameMoves ==
    ASSUME GsIInv, NEW c \in Conns, NEW h \in Games, CreateGame(c, h) PROVE Moves
<1>1. SoundGame(NewGame(c)) /\ Members(NewGame(c)) = {c}
  BY NewGameSound
<1> QED
  BY <1>1, Enters DEF CreateGame

\* Who joins is in no other game, from which he would have to be removed.
LEMMA JoinMoves ==
    ASSUME GsIInv, NEW c \in Conns, NEW h \in Games, NEW observer \in BOOLEAN,
           Join(c, h, observer)
    PROVE  Moves
<1> DEFINE others == [k \in Games |-> IF Mine(c, k) THEN RemovePlayer(games[k], c) ELSE games[k]]
<1>1. c \in lobby /\ games[h] # None
  BY DEF Join
<1>2. \A k \in Games : ~ Mine(c, k)
  BY <1>1, MineIn DEF GsIInv, Placed
<1>3. others = games
  BY <1>2 DEF GsIInv, GsTypes
<1>4. \/ /\ games' = [others EXCEPT ![h] = AddPlayer(others[h], c, observer)]
         /\ lobby' = lobby \ {c} /\ players' = players
      \/ games' = others /\ lobby' = lobby /\ players' = players
  <2>1. others[h] = IF Mine(c, h) THEN RemovePlayer(games[h], c) ELSE games[h]
    OBVIOUS
  <2> QED
    BY DEF Join, GsIInv, GsTypes
<1> HIDE DEF others
<1>5. CASE games' = games /\ lobby' = lobby /\ players' = players
  <2>1. games' = [games EXCEPT ![h] = games[h]] /\ SoundGame(games[h])
    BY <1>1, <1>5, GameOf DEF GsIInv, GsTypes
  <2> QED
    BY <1>1, <1>5, <2>1, NobodyMoves
<1>6. CASE /\ games' = [games EXCEPT ![h] = AddPlayer(games[h], c, observer)]
           /\ lobby' = lobby \ {c} /\ players' = players
  <2>1. c \notin Members(games[h]) /\ SoundGame(games[h])
    BY <1>1, <1>2, GameOf DEF Mine
  <2>2. /\ SoundGame(AddPlayer(games[h], c, observer))
        /\ Members(AddPlayer(games[h], c, observer)) = Members(games[h]) \cup {c}
    BY <2>1, AddedSound
  <2> QED
    BY <1>1, <1>6, <2>2, Enters
<1> QED
  BY <1>3, <1>4, <1>5, <1>6

\* A message is for the game of its sender.
LEMMA SenderIn == ASSUME GsIInv, NEW c, NEW h \in Games, InGame(c, h)
                  PROVE  /\ games[h] # None /\ c \in Members(games[h]) /\ c \in Conns
                         /\ SoundGame(games[h]) /\ games[h] \in Game
<1>1. In(c, h)
  BY MineIn DEF InGame
<1> QED
  BY <1>1, GameOf DEF In

LEMMA ReadySides == ASSUME NEW g \in Game, Len(g.level.sides) \in 0..9, LevelInit(g)
                    PROVE  Len(g.level.sides) \in 1..9 /\ 1 \in DOMAIN g.level.sides
<1>1. g.level.sides \in Seq(Side)
  BY DEF Game, Level
<1>2. Len(g.level.sides) # 0
  BY <1>1 DEF LevelInit
<1> QED
  BY <1>1, <1>2

\* The host sends the scenario, changes it, starts it and goes on to the next.
LEMMA ScenarioMoves ==
    ASSUME GsIInv, NEW c \in Conns, NEW h \in Games, NEW sc \in Scenarios,
           ScenarioData(c, h, sc) \/ ScenarioDiff(c, h, sc) \/ NextScenario(c, h, sc)
    PROVE  Moves
<1> DEFINE n == [games[h] EXCEPT !.level = sc]
<1>1. InGame(c, h) /\ UNCHANGED <<players, lobby>>
  BY DEF ScenarioData, ScenarioDiff, NextScenario, InReady
<1>2. games[h] # None /\ SoundGame(games[h])
  BY <1>1, SenderIn
<1>3. /\ Shaped(n) /\ Members(n) = Members(games[h])
      /\ n.level = sc /\ n.turn = games[h].turn /\ n.started = games[h].started
  BY <1>2, LevelChanges DEF SoundGame
<1>4. \/ /\ games' = [games EXCEPT ![h] = UpdateSideData(n)]
         /\ games[h].turn = 0 /\ ~ games[h].started
      \/ games' = [games EXCEPT ![h] = StartGame(n, 1)] /\ Playable(sc)
  <2>1. CASE ScenarioData(c, h, sc)
    <3>1. games[h].turn = 0
      <4>1. Len(games[h].level.sides) = 0
        BY <2>1 DEF ScenarioData, LevelInit
      <4>2. games[h].turn \in Nat
        BY <1>2 DEF SoundGame, Shaped, Game
      <4> QED
        BY <1>2, <4>1, <4>2 DEF SoundGame, Timed
    <3>2. ~ games[h].started
      <4>1. games[h].level.sides = <<>>
        BY <2>1 DEF ScenarioData, LevelInit
      <4>2. DOMAIN games[h].level.sides = {}
        BY <4>1
      <4> QED
        BY <1>2, <4>2 DEF SoundGame, Played
    <3> QED
      BY <2>1, <3>1, <3>2 DEF ScenarioData, GsIInv, GsTypes
  <2>2. CASE ScenarioDiff(c, h, sc)
    BY <1>2, <2>2 DEF ScenarioDiff, SoundGame, Timed, GsIInv, GsTypes
  <2>3. CASE NextScenario(c, h, sc)
    BY <2>3 DEF NextScenario, GsIInv, GsTypes
  <2> QED
    BY <2>1, <2>2, <2>3
<1> HIDE DEF n
<1>5. CASE /\ games' = [games EXCEPT ![h] = UpdateSideData(n)]
           /\ games[h].turn = 0 /\ ~ games[h].started
  <2> DEFINE u == UpdateSideData(n)
  <2>1. /\ Shaped(u) /\ Members(u) = Members(games[h]) /\ u.turn = 0 /\ ~ u.started
        /\ OwnersOf(u) \subseteq Members(u)
    BY <1>3, <1>5, UpdatedSound
  <2> HIDE DEF u
  <2>2. SoundGame(u)
    BY <2>1 DEF SoundGame, Timed, Shaped, Played
  <2> USE DEF u
  <2> QED
    BY <1>1, <1>2, <1>5, <2>1, <2>2, NobodyMoves
<1>6. CASE games' = [games EXCEPT ![h] = StartGame(n, 1)] /\ Playable(sc)
  <2>1. 1 \in DOMAIN n.level.sides /\ Playable(n.level)
    BY <1>3, <1>6 DEF Level
  <2>2. SoundGame(StartGame(n, 1)) /\ Members(StartGame(n, 1)) = Members(games[h])
    BY <1>3, <2>1, StartedSound
  <2> QED
    BY <1>1, <1>2, <1>6, <2>2, NobodyMoves
<1> QED
  BY <1>4, <1>5, <1>6

LEMMA StartMoves ==
    ASSUME GsIInv, NEW c \in Conns, NEW h \in Games, NEW from \in SideNos, Start(c, h, from)
    PROVE  Moves
<1>1. games[h] # None /\ SoundGame(games[h])
  BY SenderIn DEF Start, InReady
<1>2. /\ SoundGame(StartGame(games[h], from))
      /\ Members(StartGame(games[h], from)) = Members(games[h])
  BY <1>1, StartedSound DEF Start, SoundGame
<1> QED
  BY <1>1, <1>2, NobodyMoves DEF Start

\* A game whose host sends what is no scenario ends.
LEMMA BadScenarioMoves ==
    ASSUME GsIInv, NEW c \in Conns, NEW h \in Games, BadScenario(c, h) PROVE Moves
<1>1. games[h] # None
  BY SenderIn DEF BadScenario
<1> QED
  BY <1>1, Ends DEF BadScenario, DeleteGame

\* d, who is not the host, is removed from a game in which somebody was banned.
LEMMA PutOutMoves ==
    ASSUME GsIInv, NEW h \in Games, games[h] # None, NEW bans \in SUBSET Names,
           NEW d \in Members(games[h]), d # games[h].owner,
           games' = [games EXCEPT ![h] = RemovePlayer([games[h] EXCEPT !.bans = bans], d)],
           lobby' = lobby \cup {d}, players' = players
    PROVE  Moves
<1> DEFINE g == [games[h] EXCEPT !.bans = bans]
<1>1. SoundGame(games[h]) /\ games[h] \in Game
  BY GameOf
<1>2. /\ g \in Game /\ g.level = games[h].level /\ g.turn = games[h].turn
      /\ g.started = games[h].started /\ g.owner = games[h].owner
      /\ g.players = games[h].players /\ g.observers = games[h].observers
      /\ g.sides = games[h].sides /\ g.nulls = games[h].nulls /\ g.lost = games[h].lost
  BY <1>1 DEF Game
<1> HIDE DEF g
<1>3. Members(g) = Members(games[h])
  BY <1>2 DEF Members
<1>4. SoundGame(g)
  <2>1. Shaped(g) /\ Timed(g)
    BY <1>1, <1>2, <1>3 DEF SoundGame, Shaped, Timed, Listed
  <2>2. OwnersOf(g) = OwnersOf(games[h])
    BY <1>2 DEF OwnersOf
  <2>3. Played(g)
    BY <1>1, <1>2, <1>3, <2>2 DEF SoundGame, Played
  <2> QED
    BY <2>1, <2>3 DEF SoundGame
<1>5. SoundGame(RemovePlayer(g, d)) /\ Members(RemovePlayer(g, d)) = Members(games[h]) \ {d}
  BY <1>2, <1>3, <1>4, RemovedSound
<1> QED
  BY <1>5, Leaves DEF g

LEMMA KickMoves ==
    ASSUME GsIInv, NEW c \in Conns, NEW h \in Games, NEW d \in Conns, Kick(c, h, d)
    PROVE  Moves
<1>1. games[h] # None /\ games[h] \in Game
  BY SenderIn DEF Kick, InReady
<1>2. [games[h] EXCEPT !.bans = games[h].bans] = games[h] /\ games[h].bans \in SUBSET Names
  BY <1>1 DEF Game
<1>3. games' = [games EXCEPT ![h] = RemovePlayer(games[h], d)]
  BY DEF Kick, BackToLobby, GsIInv, GsTypes
<1> QED
  BY <1>1, <1>2, <1>3, PutOutMoves DEF Kick, BackToLobby

\* A change of the list of the banned moves nobody by itself.
LEMMA BansMove ==
    ASSUME GsIInv, NEW h \in Games, games[h] # None, NEW bans \in SUBSET Names,
           games' = [games EXCEPT ![h] = [games[h] EXCEPT !.bans = bans]],
           UNCHANGED <<players, lobby>>
    PROVE  Moves
<1> DEFINE g == [games[h] EXCEPT !.bans = bans]
<1>1. SoundGame(games[h]) /\ games[h] \in Game
  BY GameOf
<1>2. /\ g \in Game /\ g.level = games[h].level /\ g.turn = games[h].turn
      /\ g.started = games[h].started /\ g.owner = games[h].owner
      /\ g.players = games[h].players /\ g.observers = games[h].observers
      /\ g.sides = games[h].sides /\ g.nulls = games[h].nulls /\ g.lost = games[h].lost
  BY <1>1 DEF Game
<1> HIDE DEF g
<1>3. Members(g) = Members(games[h])
  BY <1>2 DEF Members
<1>4. SoundGame(g)
  <2>1. Shaped(g) /\ Timed(g)
    BY <1>1, <1>2, <1>3 DEF SoundGame, Shaped, Timed, Listed
  <2>2. OwnersOf(g) = OwnersOf(games[h])
    BY <1>2 DEF OwnersOf
  <2>3. Played(g)
    BY <1>1, <1>2, <1>3, <2>2 DEF SoundGame, Played
  <2> QED
    BY <2>1, <2>3 DEF SoundGame
<1> QED
  BY <1>3, <1>4, NobodyMoves DEF g

LEMMA BanMoves ==
    ASSUME GsIInv, NEW c \in Conns, NEW h \in Games, NEW d \in Conns,
           Ban(c, h, d) \/ Unban(c, h, d)
    PROVE  Moves
<1>1. games[h] # None /\ games[h] \in Game /\ NameOf[d] \in Names
  BY SenderIn DEF Ban, Unban, InReady
<1>2. games[h].bans \cup {NameOf[d]} \in SUBSET Names /\ games[h].bans \ {NameOf[d]} \in SUBSET Names
  BY <1>1 DEF Game
<1>3. CASE Ban(c, h, d)
  <2> DEFINE g == [games[h] EXCEPT !.bans = games[h].bans \cup {NameOf[d]}]
             banned == [games EXCEPT ![h].bans = @ \cup {NameOf[d]}]
  <2>1. banned = [games EXCEPT ![h] = g] /\ banned[h] = g
    BY DEF GsIInv, GsTypes
  <2>2. \/ /\ d \in Members(games[h]) /\ lobby' = lobby \cup {d}
           /\ games' = [banned EXCEPT ![h] = RemovePlayer(banned[h], d)]
        \/ games' = banned /\ lobby' = lobby
    BY <1>3, <2>1 DEF Ban
  <2>3. d # games[h].owner /\ players' = players
    BY <1>3 DEF Ban
  <2> HIDE DEF g, banned
  <2>4. \/ /\ d \in Members(games[h]) /\ lobby' = lobby \cup {d}
           /\ games' = [games EXCEPT ![h] = RemovePlayer(g, d)]
        \/ games' = [games EXCEPT ![h] = g] /\ lobby' = lobby
    BY <2>1, <2>2 DEF GsIInv, GsTypes
  <2> QED
    BY <1>1, <1>2, <2>3, <2>4, PutOutMoves, BansMove DEF g
<1>4. CASE Unban(c, h, d)
  <2>1. games' = [games EXCEPT ![h] = [games[h] EXCEPT !.bans = games[h].bans \ {NameOf[d]}]]
    BY <1>4 DEF Unban, GsIInv, GsTypes
  <2> QED
    BY <1>1, <1>2, <1>4, <2>1, BansMove DEF Unban
<1> QED
  BY <1>3, <1>4

LEMMA ChangeControllerMoves ==
    ASSUME GsIInv, NEW c \in Conns, NEW h \in Games, NEW s \in SideNos, NEW d \in Conns,
           ChangeController(c, h, s, d)
    PROVE  Moves
<1>1. games[h] # None /\ SoundGame(games[h])
  BY SenderIn DEF ChangeController, InReady
<1>2. d \in Members(games[h]) /\ d # games[h].sides[s] /\ games[h].started
  BY DEF ChangeController
<1>3. /\ SoundGame(TransferSide(games[h], s, d))
      /\ Members(TransferSide(games[h], s, d)) = Members(games[h])
  BY <1>1, <1>2, TransferredSound
<1>4. games' = [games EXCEPT ![h] = TransferSide(games[h], s, d)]
  BY DEF ChangeController, GsIInv, GsTypes
<1> QED
  BY <1>1, <1>3, <1>4, NobodyMoves DEF ChangeController

LEMMA TurnMoves ==
    ASSUME GsIInv, NEW c \in Conns, NEW h \in Games, Turn(c, h) PROVE Moves
<1> DEFINE k == EndTurn(games[h], games[h].turn)
           g == [games[h] EXCEPT !.turn = k]
<1>1. /\ games[h] # None /\ SoundGame(games[h]) /\ games[h] \in Game
      /\ LevelInit(games[h]) /\ games[h].started
  BY SenderIn DEF Turn, InReady
<1>2. Len(games[h].level.sides) \in 1..9 /\ games[h].turn \in Nat
  <2>1. games[h].turn \in Nat
    BY <1>1 DEF Game
  <2>2. Shaped(games[h])
    BY <1>1 DEF SoundGame
  <2> QED
    BY <1>1, <2>1, <2>2, ReadySides DEF Shaped
<1>3. k \in 1..Len(games[h].level.sides)
  BY <1>2, EndTurnType
<1>4. games' = [games EXCEPT ![h] = g]
  BY <1>1 DEF Turn, GsIInv, GsTypes
<1> HIDE DEF k
<1>5. k \in SideNos
  <2>1. \A n \in 1..9 : \A i \in 1..n : i \in SideNos
    OBVIOUS
  <2> QED
    BY <1>2, <1>3, <2>1, Zenon
<1>6. /\ g \in Game /\ g.level = games[h].level /\ g.turn = k
      /\ g.started /\ g.owner = games[h].owner
      /\ g.players = games[h].players /\ g.observers = games[h].observers
      /\ g.sides = games[h].sides /\ g.nulls = games[h].nulls /\ g.lost = games[h].lost
  BY <1>1, <1>5 DEF Game
<1> HIDE DEF g
<1>7. Members(g) = Members(games[h])
  BY <1>6 DEF Members
<1>8. SoundGame(g)
  <2>1. Shaped(g) /\ Timed(g)
    BY <1>1, <1>2, <1>3, <1>6, <1>7 DEF SoundGame, Shaped, Timed, Listed
  <2>2. OwnersOf(g) = OwnersOf(games[h])
    BY <1>6 DEF OwnersOf
  <2>3. k \notin g.nulls
    <3>1. PICK s \in DOMAIN games[h].level.sides : s \notin games[h].nulls
      BY <1>1 DEF SoundGame, Played
    <3>2. s \in 1..Len(games[h].level.sides)
      BY <1>1, <3>1 DEF Game, Level
    <3>3. games[h].turn \in 0..Len(games[h].level.sides)
      BY <1>1, <1>2 DEF SoundGame, Timed
    <3>4. EndTurn(games[h], games[h].turn) \notin games[h].nulls
      BY <1>2, <3>1, <3>2, <3>3, EndTurnPlays
    <3> QED
      BY <1>6, <3>4 DEF k
  <2>4. Played(g)
    BY <1>1, <1>6, <1>7, <2>2, <2>3 DEF SoundGame, Played
  <2> QED
    BY <2>1, <2>4 DEF SoundGame
<1> QED
  BY <1>1, <1>4, <1>7, <1>8, NobodyMoves DEF Turn

\* Who leaves alone, or as a host nobody can replace, ends the game.
LEMMA LeaveGameMoves ==
    ASSUME GsIInv, NEW c \in Conns, NEW h \in Games, LeaveGame(c, h) PROVE Moves
<1> DEFINE g == games[h]
           alone == c \in Range(g.players) /\ Len(g.players) = 1
<1>1. g # None /\ SoundGame(g) /\ g \in Game /\ c \in Members(g)
  BY SenderIn DEF LeaveGame, InReady
<1>2. CASE DeleteGame(h)
  BY <1>1, <1>2, Ends DEF LeaveGame, DeleteGame
<1>3. CASE /\ BackToLobby(c, h) /\ ~ alone
           /\ ~ (c = g.owner /\ (~ g.started \/ g.players = <<>>))
  <2>1. c # g.owner \/ ~ Ended(g, c)
    <3> SUFFICES ASSUME c = g.owner PROVE ~ Ended(g, c)
      OBVIOUS
    <3>1. g.started /\ g.players # <<>> /\ g.players \in Seq(Conns) /\ Distinct(g.players)
      BY <1>1, <1>3 DEF Game, SoundGame, Shaped, Listed
    <3>2. Range(Without(g.players, c)) = Range(g.players) \ {c}
      BY <3>1, WithoutKept
    <3>3. Range(g.players) \ {c} # {}
      <4> SUFFICES ASSUME Range(g.players) \subseteq {c} PROVE FALSE
        OBVIOUS
      <4>1. \A i \in DOMAIN g.players : g.players[i] = c
        BY DEF Range
      <4>2. Len(g.players) # 0 /\ DOMAIN g.players = 1..Len(g.players) /\ Len(g.players) \in Nat
        BY <3>1
      <4>3. 1 \in DOMAIN g.players /\ \A i \in DOMAIN g.players : i = 1
        BY <3>1, <4>1, <4>2 DEF Distinct
      <4>4. Len(g.players) = 1
        <5>1. \A n \in Nat \ {0} : n \in 1..n
          OBVIOUS
        <5>2. Len(g.players) \in DOMAIN g.players
          BY <4>2, <5>1
        <5> QED
          BY <4>3, <5>2
      <4>5. c \in Range(g.players)
        BY <4>1, <4>3 DEF Range
      <4> QED
        BY <1>3, <4>4, <4>5
    <3>4. Range(<<>>) = {}
      BY DEF Range
    <3> QED
      BY <3>1, <3>2, <3>3, <3>4 DEF Ended
  <2>2. SoundGame(RemovePlayer(g, c)) /\ Members(RemovePlayer(g, c)) = Members(g) \ {c}
    BY <1>1, <2>1, RemovedSound
  <2>3. games' = [games EXCEPT ![h] = RemovePlayer(games[h], c)] /\ lobby' = lobby \cup {c}
    BY <1>3 DEF BackToLobby, GsIInv, GsTypes
  <2> QED
    BY <1>1, <2>2, <2>3, Leaves DEF LeaveGame
<1> QED
  BY <1>2, <1>3 DEF LeaveGame

LEMMA DisconnectMoves == ASSUME GsIInv, NEW c \in Conns, Disconnect(c) PROVE Moves
<1>1. CASE c \in lobby
  BY <1>1, Departs DEF Disconnect
<1>2. CASE c \notin lobby
  <2>1. PICK h \in Games :
           /\ games[h] # None /\ c \in Members(games[h])
           /\ IF Ended(games[h], c)
                 THEN /\ games' = [games EXCEPT ![h] = None]
                      /\ lobby' = lobby \cup (Members(games[h]) \ {c})
                 ELSE /\ games' = [games EXCEPT ![h] = RemovePlayer(games[h], c)]
                      /\ lobby' = lobby
    BY <1>2 DEF Disconnect, GsIInv, GsTypes
  <2>2. players' = players \ {c} /\ SoundGame(games[h])
    BY <2>1, GameOf DEF Disconnect
  <2>3. CASE Ended(games[h], c)
    <3> DEFINE lost == {c}
    <3>1. lost \in SUBSET Members(games[h]) /\ \A x, y \in lost : x = y
      BY <2>1
    <3>2. /\ games' = [games EXCEPT ![h] = None] /\ players' = players \ lost
          /\ lobby' = lobby \cup (Members(games[h]) \ lost)
      BY <2>1, <2>2, <2>3
    <3> HIDE DEF lost
    <3> QED
      BY <2>1, <3>1, <3>2, Ends
  <2>4. CASE ~ Ended(games[h], c)
    <3>1. /\ SoundGame(RemovePlayer(games[h], c))
          /\ Members(RemovePlayer(games[h], c)) = Members(games[h]) \ {c}
      BY <2>1, <2>2, <2>4, RemovedSound
    <3> QED
      BY <2>1, <2>2, <2>4, <3>1, Leaves
  <2> QED
    BY <2>3, <2>4
<1> QED
  BY <1>1, <1>2

-----------------------------------------------------------------------------
LEMMA InitMoves == GsInit => GsIInv /\ Promised!LobbyInit
<1> SUFFICES ASSUME GsInit PROVE GsIInv /\ Promised!LobbyInit
  OBVIOUS
<1>1. GsIInv
  BY DEF GsInit, GsIInv, GsTypes, AllSound, Placed, In
<1>2. \A c \in Conns : Where(c) = "away"
  BY DEF GsInit, Where
<1> QED
  BY <1>1, <1>2 DEF Promised!LobbyInit

LEMMA NextMoves == GsIInv /\ [GsNext]_gsVars => Moves
<1> SUFFICES ASSUME GsIInv, [GsNext]_gsVars PROVE Moves
  OBVIOUS
<1>1. CASE \E c \in Conns : Login(c) \/ Disconnect(c)
  BY <1>1, Comes, DisconnectMoves
<1>2. CASE \E c \in Conns, h \in Games :
              CreateGame(c, h) \/ \E observer \in BOOLEAN : Join(c, h, observer)
  BY <1>2, CreateGameMoves, JoinMoves
<1>3. CASE \E c \in Conns, h \in Games : Host(c, h)
  BY <1>3, ScenarioMoves, BadScenarioMoves, StartMoves, KickMoves, BanMoves DEF Host
<1>4. CASE \E c \in Conns, h \in Games, s \in SideNos, d \in Conns :
              ChangeController(c, h, s, d)
  BY <1>4, ChangeControllerMoves
<1>5. CASE \E c \in Conns, h \in Games : Turn(c, h) \/ LeaveGame(c, h)
  BY <1>5, TurnMoves, LeaveGameMoves
<1>6. CASE UNCHANGED gsVars
  <2>1. GsIInv'
    BY <1>6 DEF gsVars, GsIInv, GsTypes, AllSound, Placed, In
  <2>2. \A c \in Conns : Where(c)' = Where(c)
    BY <1>6 DEF gsVars, Where, Mine
  <2> QED
    BY <2>1, <2>2 DEF Moves, Places
<1> QED
  BY <1>1, <1>2, <1>3, <1>4, <1>5, <1>6 DEF GsNext

LEMMA AlwaysPlaced == GsSpec => []GsIInv
<1>1. GsInit => GsIInv
  BY InitMoves
<1>2. GsIInv /\ [GsNext]_gsVars => GsIInv'
  BY NextMoves DEF Moves
<1> QED
  BY <1>1, <1>2, PTL DEF GsSpec

\* The variables keep their types, and turns are those of sides (game.cpp:1129).
THEOREM GsTypeCorrect == GsSpec => []GsTypeOK
<1>1. GsIInv => GsTypeOK
  <2> SUFFICES ASSUME GsIInv PROVE GsTypeOK
    OBVIOUS
  <2>1. \A h \in Games : games[h] # None => games[h].turn <= Len(games[h].level.sides)
    BY DEF GsIInv, AllSound, SoundGame, Timed
  <2> QED
    BY <2>1 DEF GsIInv, GsTypes, GsTypeOK
<1> QED
  BY <1>1, AlwaysPlaced, PTL

\* Whoever is logged in is in the lobby or in one game, once (server.cpp:1892).
THEOREM InOnePlaceAlways == GsSpec => []InOnePlace
<1>1. GsIInv => InOnePlace
  <2> SUFFICES ASSUME GsIInv PROVE InOnePlace
    OBVIOUS
  <2> DEFINE in(c) == {h \in Games : games[h] # None /\ c \in Members(games[h])}
  <2>1. ASSUME NEW c \in Conns
        PROVE  IF c \notin players THEN c \notin lobby /\ in(c) = {}
               ELSE IF c \in lobby THEN in(c) = {}
               ELSE \E h \in Games : in(c) = {h}
    <3>1. in(c) = {h \in Games : In(c, h)}
      BY DEF In
    <3> HIDE DEF in
    <3> QED
      BY <3>1 DEF GsIInv, GsTypes, Placed
  <2>2. ASSUME NEW h \in Games, games[h] # None
        PROVE  LET q == games[h].players \o games[h].observers
               IN  \A i, j \in DOMAIN q : q[i] = q[j] => i = j
    <3>1. games[h].players \in Seq(Conns) /\ games[h].observers \in Seq(Conns)
      BY <2>2, GameOf DEF Game
    <3>2. Distinct(games[h].players \o games[h].observers)
      BY <2>2, <3>1, GameOf, BothKept DEF SoundGame, Shaped, Listed
    <3> QED
      BY <3>2 DEF Distinct
  <2> QED
    BY <2>1, <2>2 DEF InOnePlace
<1> QED
  BY <1>1, AlwaysPlaced, PTL

\* The host is in his game, sides belong to those who are, the players of a game
\* that goes on are those who own a side, and the turn is never that of an empty
\* one, for any scenarios, users and rounds of changes (game.hpp:287-291,
\* game.cpp:882).
THEOREM SidesArePlayedAlways == GsSpec => []SidesArePlayed
<1>1. GsIInv => SidesArePlayed
  BY DEF GsIInv, AllSound, SoundGame, Shaped, Listed, Played, OwnersOf, SidesArePlayed
<1> QED
  BY <1>1, AlwaysPlaced, PTL

\* Users move as Lobby has it: one at a time, or all of a game as it ends
\* (server.cpp:1892-1965).
THEOREM ImplementsLobby == GsSpec => LobbySpec
<1>1. GsInit => GsIInv /\ Promised!LobbyInit
  BY InitMoves
<1>2. GsIInv /\ [GsNext]_gsVars => GsIInv' /\ [Promised!LobbyNext]_[c \in Conns |-> Where(c)]
  BY NextMoves DEF Moves, Places
<1> QED
  BY <1>1, <1>2, PTL DEF GsSpec, LobbySpec, Promised!LobbySpec

=============================================================================
