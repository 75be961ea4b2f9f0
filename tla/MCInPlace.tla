----------------------------- MODULE MCInPlace -----------------------------
(***************************************************************************)
(* Files and lists that are changed in place, with what can interrupt the  *)
(* change: CampaignServer and GameAddons.  They share nothing here, so a   *)
(* behaviour is one of one of them, with the other in an initial state.    *)
(***************************************************************************)
EXTENDS CampaignServer, GameAddons, TLC

CONSTANTS foo, Foo, bar, pass1, pass2, v1, v2, v3, scr1, scr2, addon1, addon2

VARIABLE part

allVars == <<part, csVars, gaVars>>

\* Two spellings of a name, and another name.
McFold == [n \in Names |-> IF n = Foo THEN foo ELSE n]
McMaxDownloads == [n \in Names |-> 1]
McScript == [v \in Contents |-> CASE v = v1 -> scr1 [] v = v2 -> scr2 [] OTHER -> Nothing]

McSame == [d \in Dirs |-> d]

McSymmetry == Permutations(Passes) \cup Permutations(Titles)

McCsRests == saved.list = NoAddons /\ saved.encoded
McGaRests == \A x \in Titles : ~ Served(x)

\* Two names are in use at a time: the spellings, or one and the other name.
McUnused == IF part = "twins" THEN bar ELSE Foo

\* And two contents: with and without a script, or with different scripts.
McUnsent == IF part = "twins" THEN v2 ELSE v3

McUses(list, data) ==
    /\ list[McUnused] = Nothing
    /\ \A n \in Names : list[n] # Nothing => list[n].ver # McUnsent
    /\ data \in Data => data.body # McUnsent

McInit ==
    /\ part \in {"twins", "others", "game"}
    /\ CsInit /\ GaInit
    /\ IF part = "game" THEN McCsRests ELSE McGaRests /\ McUses(saved.list, Nothing)

McNext ==
    \/ /\ part \in {"twins", "others"}
       /\ CsNext
       /\ McUses(cfg'.list, job'.data)
       /\ UNCHANGED <<part, gaVars>>
    \/ part = "game" /\ GaNext /\ UNCHANGED <<part, csVars>>

McSpec == McInit /\ [][McNext]_allVars
=============================================================================
