---------------------------- MODULE AddonCatalog ----------------------------
(***************************************************************************)
(* What the add-on server promises its clients, as one atomic catalogue.   *)
(* An entry is what the WML list (templates/addons/addonList.wml) and the   *)
(* download behind it tell of an add-on: its title, its upload counter     *)
(* "uploads" (the revision the clients compare) and the version served.    *)
(* An entry whose version is None has a row in the database but nothing to *)
(* download, and the list leaves it out.  Requests are indivisible here;   *)
(* AddonServer shows how far the code keeps that.                          *)
(***************************************************************************)
EXTENDS Naturals

CONSTANTS
    Titles,     \* add-on names, unique in the catalogue
    Versions,   \* published contents, identified by their version
    Ids,        \* primary keys
    MaxRev,     \* bound on the upload counter
    None        \* no entry, nothing to download

VARIABLE catalog

Entry == [title : Titles, rev : 1..MaxRev, ver : Versions \cup {None}]

TypeOK == catalog \in [Ids -> Entry \cup {None}]

Init == catalog = [i \in Ids |-> None]

Taken(t) == \E i \in Ids : catalog[i] # None /\ catalog[i].title = t

\* A title that is not in the catalogue is published for the first time.
Create(i, t, v) ==
    /\ catalog[i] = None
    /\ ~Taken(t)
    /\ catalog' = [catalog EXCEPT ![i] = [title |-> t, rev |-> 1, ver |-> v]]

\* A new version replaces the old one, under the next revision.
Republish(i, v) ==
    /\ catalog[i] # None
    /\ catalog' = [catalog EXCEPT ![i].rev = @ + 1, ![i].ver = v]

\* A request that fails half-way may use up a revision and may take the
\* download away; it never serves other content than before.
Degrade(i) ==
    /\ catalog[i] # None
    /\ \E n \in {0, 1}, v \in {None, catalog[i].ver} :
          catalog' = [catalog EXCEPT ![i].rev = @ + n, ![i].ver = v]

Delete(i) ==
    /\ catalog[i] # None
    /\ catalog' = [catalog EXCEPT ![i] = None]

Next ==
    \E i \in Ids :
        \/ \E t \in Titles, v \in Versions : Create(i, t, v)
        \/ \E v \in Versions : Republish(i, v)
        \/ Degrade(i)
        \/ Delete(i)

Spec == Init /\ [][Next]_catalog
=============================================================================
