-------------------------------- MODULE Link --------------------------------
(***************************************************************************)
(* What the pool promises of each connection: while it is open, what was   *)
(* sent over it leaves message after message, none left out and none       *)
(* twice, and one message that came in waits at most until the program     *)
(* takes it.  With the connection, what is left in either direction goes.  *)
(***************************************************************************)
EXTENDS Naturals

CONSTANT Conns

VARIABLES
    place,      \* "new", "open" or "gone"
    sent,       \* messages that the program has sent
    written,    \* how many of them have left
    inbox       \* messages that came in and were not taken

linkVars == <<place, sent, written, inbox>>

LinkInit ==
    /\ place \in [Conns -> {"new", "gone"}]
    /\ sent \in [Conns -> Nat]
    /\ written = sent
    /\ inbox = [c \in Conns |-> 0]

Connect(c) ==
    /\ place[c] = "new"
    /\ place' = [place EXCEPT ![c] = "open"]
    /\ UNCHANGED <<sent, written, inbox>>

Send(c) ==
    /\ place[c] = "open"
    /\ sent' = [sent EXCEPT ![c] = @ + 1]
    /\ UNCHANGED <<place, written, inbox>>

\* The next message leaves.
Leave(c) ==
    /\ place[c] = "open" /\ written[c] < sent[c]
    /\ written' = [written EXCEPT ![c] = @ + 1]
    /\ UNCHANGED <<place, sent, inbox>>

ComeIn(c) ==
    /\ place[c] = "open" /\ inbox[c] = 0
    /\ inbox' = [inbox EXCEPT ![c] = 1]
    /\ UNCHANGED <<place, sent, written>>

Take(c) ==
    /\ inbox[c] = 1
    /\ inbox' = [inbox EXCEPT ![c] = 0]
    /\ UNCHANGED <<place, sent, written>>

Close(c) ==
    /\ place[c] = "open"
    /\ place' = [place EXCEPT ![c] = "gone"]
    /\ inbox' = [inbox EXCEPT ![c] = 0]
    /\ UNCHANGED <<sent, written>>

LinkNext ==
    \E c \in Conns : Connect(c) \/ Send(c) \/ Leave(c) \/ ComeIn(c) \/ Take(c) \/ Close(c)

LinkSpec == LinkInit /\ [][LinkNext]_linkVars
=============================================================================
