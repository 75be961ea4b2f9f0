-------------------------- MODULE MCScriptManager --------------------------
(***************************************************************************)
(* Instances of ScriptManager (what is on the server, who changes it),     *)
(* with the pure algorithms of the clients on bounded inputs: AddonCodec   *)
(* on every short text, VersionOrder on every pair of some versions, in    *)
(* any sequence.  A behaviour is one of one of them.                       *)
(***************************************************************************)
EXTENDS ScriptManager, VersionOrder, AddonCodec, TLC

CONSTANTS ta, tb, v1, v2

VARIABLE part

allVars == <<part, vars, level, last, text>>

\* Every add-on is published with its title as its directory.
McDirOf == [t \in Titles |-> t]

McEmpty == [i \in Ids |-> None]

\* One add-on that was published nine times.
McNinth == [i \in Ids |-> IF i = 1 THEN [title |-> ta, rev |-> 9, ver |-> v1]
                                   ELSE None]

McDownloads == {"download", "update"}
McAll == {"download", "update", "remove"}
McNothing == {}

\* The special bytes, what they are escaped to, and their neighbours.
Bytes == {0, 1, 2, 13, 14, 97, 254, 255}

V(comps, special) == [comps |-> comps, special |-> special]

McVersions == {V(<<1, 2>>, 0), V(<<1, 2, 0>>, 0), V(<<1, 2, 0, 1>>, 0),
               V(<<1, 10>>, 0), V(<<1, 2>>, 1), V(<<>>, 2)}

\* Every file of up to four of them.
McFiles == BoundedSeq(Bytes, 4)

McSymmetry == Permutations(Versions)

McInit ==
    /\ part \in {"script", "versions", "text"}
    /\ Init /\ VersionInit
    /\ IF part = "text" THEN CodecInit ELSE text = <<>>

McNext ==
    \/ part = "script" /\ Next /\ UNCHANGED <<part, level, last, text>>
    \/ part = "versions" /\ VersionNext /\ UNCHANGED <<part, vars, text>>
    \/ part = "text" /\ UNCHANGED allVars

McSpec == McInit /\ [][McNext]_allVars
=============================================================================
