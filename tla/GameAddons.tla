----------------------------- MODULE GameAddons -----------------------------
(***************************************************************************)
(* The add-ons installed in the game (addon_management.cpp): downloading,  *)
(* updating and uninstalling them, over a server whose add-ons change      *)
(* meanwhile.  What is downloaded is laid out the way its publisher laid   *)
(* it out, the versions of what is installed come from a cache, and files  *)
(* that cannot be removed or written end an installation anywhere.         *)
(***************************************************************************)
EXTENDS Naturals

CONSTANTS
    Titles,     \* names in the server's list
    Dirs,       \* directories of add-ons, titles among them
    DirOf,      \* the directory an add-on was published from
    Under,      \* a directory's name with its spaces made underscores
    Layouts,    \* how add-ons are published: "campaignd", "script" or "game"
    Own,        \* directories with publishing information: the user's own work
    MaxVer,     \* bound on versions
    MaxFaults,  \* bound on files that cannot be removed or written
    Absent

ASSUME GaAssumption ==
    /\ Titles \subseteq Dirs
    /\ DirOf \in [Titles -> Dirs]
    /\ \A t, u \in Titles : DirOf[t] = DirOf[u] => t = u
    /\ Under \in [Dirs -> Dirs]
    /\ Layouts \subseteq {"campaignd", "script", "game"}
    /\ Own \subseteq Dirs
    /\ {MaxVer, MaxFaults} \subseteq Nat
    /\ Absent \notin Dirs \cup Layouts \cup [ver : 1..MaxVer, layout : Layouts]

VARIABLES
    srv,        \* the add-ons on the server
    place,      \* the files in each place below the add-ons directory
    cache,      \* version_info_cache
    dlg,        \* manage_addons, while it runs: its local variables
    damaged,    \* history: directories that could not be removed and have not
                \* been unpacked completely since
    faults      \* files that could not be removed or written, so far

gaVars == <<srv, place, cache, dlg, damaged, faults>>

\* Files are numbered by the version they are of, 0 when there are none: _main.cfg,
\* all the others, and the version _info.cfg names.
Vers == 0..MaxVer
Place == [main : Vers, rest : Vers, info : Vers]
Empty == [main |-> 0, rest |-> 0, info |-> 0]
\* The files fs as in p, the others as in q.
Mixed(fs, p, q) == [main |-> IF "main" \in fs THEN p.main ELSE q.main,
                    rest |-> IF "rest" \in fs THEN p.rest ELSE q.rest,
                    info |-> IF "info" \in fs THEN p.info ELSE q.info]
Paths == {<<d>> : d \in Dirs} \cup {<<d, e>> : d \in Dirs, e \in Dirs}

Published == [ver : 1..MaxVer, layout : Layouts]
\* An add-on that was removed from the server, or never there, has no layout.
Servers == [Titles -> [ver : Vers, layout : Layouts \cup {Absent}]]
Served(t) == srv[t].layout # Absent
Dialogs == [at : {"rest", "list", "choose", "get", "remove", "unpack", "done", "end"},
            mode : {"download", "update", "uninstall", Absent},
            list : [Titles -> Vers], todo : SUBSET Titles,
            item : Titles \cup {Absent}, got : Published \cup {Absent},
            chosen : SUBSET Titles, failed : BOOLEAN, refresh : BOOLEAN]
AtRest == [at |-> "rest", mode |-> Absent, list |-> [t \in Titles |-> 0], todo |-> {},
           item |-> Absent, got |-> Absent, chosen |-> {}, failed |-> FALSE,
           refresh |-> FALSE]
Ending(refresh) == [AtRest EXCEPT !.at = "end", !.refresh = refresh]

GaTypeOK ==
    /\ srv \in Servers
    /\ place \in [Paths -> Place]
    /\ cache \in [Dirs -> Vers]
    /\ dlg \in Dialogs
    /\ dlg.at \in {"remove", "unpack"} <=> dlg.got # Absent
    /\ damaged \subseteq Dirs
    /\ faults \in 0..MaxFaults

\* Nothing is installed yet, and anything is on the server.
GaInit ==
    /\ srv \in Servers
    /\ \A t \in Titles : srv[t].ver = IF Served(t) THEN 1 ELSE 0
    /\ place = [p \in Paths |-> Empty]
    /\ cache = [d \in Dirs |-> 0]
    /\ dlg = AtRest
    /\ damaged = {}
    /\ faults = 0

\* installed_addons.
Installed == {d \in Dirs : place[<<d>>].main # 0}

\* refresh_addon_version_info_cache.
Probed == [d \in Dirs |-> IF d \in Installed THEN place[<<d>>].info ELSE 0]

----------------------------------------------------------------------------
(* The server. *)

\* Versions number the uploads: one that follows a removal is later too.
Publish(t, l) ==
    /\ srv[t].ver < MaxVer
    /\ srv' = [srv EXCEPT ![t] = [layout |-> l, ver |-> @.ver + 1]]
    /\ UNCHANGED <<place, cache, dlg, damaged, faults>>

Unpublish(t) ==
    /\ Served(t)
    /\ srv' = [srv EXCEPT ![t].layout = Absent]
    /\ UNCHANGED <<place, cache, dlg, damaged, faults>>

----------------------------------------------------------------------------
(* The game. *)

Open(mode) ==
    /\ dlg.at = "rest"
    /\ mode # "download" => Installed # {}
    /\ dlg' = [AtRest EXCEPT !.at = IF mode = "uninstall" THEN "choose" ELSE "list",
                             !.mode = mode]
    /\ UNCHANGED <<srv, place, cache, damaged, faults>>

\* What an update offers of a list: add-ons whose cached version is known and
\* older, and that are not the user's own.
Outdated(list) == {t \in Titles \ Own :
                      t \in Installed /\ cache[t] # 0 /\ list[t] > cache[t]}

FetchList ==
    /\ dlg.at = "list"
    /\ LET list == [t \in Titles |-> IF Served(t) THEN srv[t].ver ELSE 0]
       IN  dlg' = [dlg EXCEPT !.at = "choose", !.list = list,
                              !.todo = IF dlg.mode = "update" THEN Outdated(list)
                                       ELSE {t \in Titles : list[t] # 0}]
    /\ UNCHANGED <<srv, place, cache, damaged, faults>>

\* One add-on, or all that are outdated.
Choose(ts) ==
    /\ dlg.at = "choose" /\ dlg.mode # "uninstall"
    /\ \/ \E t \in dlg.todo : ts = {t}
       \/ dlg.mode = "update" /\ ts = dlg.todo /\ ts # {}
    /\ dlg' = [dlg EXCEPT !.at = "get", !.todo = ts, !.chosen = ts]
    /\ UNCHANGED <<srv, place, cache, damaged, faults>>

\* The list was not fetched, there is nothing to choose, or the user leaves.
Leave ==
    /\ dlg.at \in {"list", "choose"}
    /\ dlg' = Ending(dlg.refresh)
    /\ UNCHANGED <<srv, place, cache, damaged, faults>>

\* Mutant of Returned: a failed add-on does not count.
ReturnedWell(d, ok) ==
    LET left == d.todo \ {d.item}
    IN  [d EXCEPT !.at = IF left = {} THEN "done" ELSE "get",
                  !.todo = left, !.item = Absent, !.got = Absent,
                  !.refresh = @ \/ ok]

\* install_addon has returned, and shows or collects the result.
Returned(d, ok) ==
    LET left == d.todo \ {d.item}
    IN  [d EXCEPT !.at = IF left = {} THEN "done" ELSE "get",
                  !.todo = left, !.item = Absent, !.got = Absent,
                  !.failed = @ \/ ~ ok, !.refresh = @ \/ ok]

\* The download; it fails when the user aborts it, when the add-on has gone, and
\* when its names are not legal.
Get(t) ==
    /\ dlg.at = "get" /\ t \in dlg.todo
    /\ dlg' = [dlg EXCEPT !.at = "remove", !.item = t, !.got = srv[t]]
    /\ Served(t)
    /\ UNCHANGED <<srv, place, cache, damaged, faults>>

GetFails(t) ==
    /\ dlg.at = "get" /\ t \in dlg.todo
    /\ dlg' = Returned([dlg EXCEPT !.item = t], FALSE)
    /\ UNCHANGED <<srv, place, cache, damaged, faults>>

Fault == faults < MaxFaults /\ faults' = faults + 1

In(d) == {p \in Paths : p[1] = d}

\* remove_local_addon.  What cannot be deleted stays.
Removed(d) ==
    /\ place' = [p \in Paths |-> IF p \in In(d) THEN Empty ELSE place[p]]
    /\ damaged' = damaged \ {d}
    /\ UNCHANGED faults
RemovedInPart(d) ==
    /\ Fault
    /\ \E kept \in SUBSET {"main", "rest", "info"} :
          place' = [p \in Paths |-> IF p \in In(d) THEN Mixed(kept, place[p], Empty)
                                                   ELSE place[p]]
    /\ damaged' = damaged \cup {d}

\* Whether or not the old version could be removed, installing goes on.
RemoveOld ==
    /\ dlg.at = "remove"
    /\ Removed(dlg.item) \/ RemovedInPart(dlg.item)
    /\ dlg' = [dlg EXCEPT !.at = "unpack"]
    /\ UNCHANGED <<srv, cache>>

\* Where unarchive_addon puts the add-on and its _info.cfg: the game publishes a
\* name with the files, which is taken for one more directory; the script puts the
\* files below a data node, and _info.cfg is added beside it.
Target(t, l) == IF l = "game" THEN <<DirOf[t], DirOf[t]>> ELSE <<DirOf[t]>>
InfoTarget(t, l) == CASE l = "campaignd" -> <<t>>
                      [] l = "game" -> <<DirOf[t], t>>
                      [] OTHER -> Absent

\* The files are written in the order of the archive, _info.cfg last.
Unpacked(done) ==
    LET t == dlg.item
        l == dlg.got.layout
        new == [main |-> dlg.got.ver, rest |-> dlg.got.ver, info |-> dlg.list[t]]
        files == [place EXCEPT ![Target(t, l)] = Mixed(done \ {"info"}, new, @)]
    IN  place' = IF "info" \in done /\ l # "script"
                    THEN [files EXCEPT ![InfoTarget(t, l)] = Mixed({"info"}, new, @)]
                    ELSE files

Unpack ==
    /\ dlg.at = "unpack"
    /\ Unpacked({"main", "rest", "info"})
    /\ damaged' = damaged \ {dlg.item}
    /\ dlg' = Returned(dlg, TRUE)
    /\ UNCHANGED <<srv, cache, faults>>

\* Mutant of UnpackFails: _info.cfg may be written before the files.
UnpackFailsAfterInfo ==
    /\ dlg.at = "unpack"
    /\ Fault
    /\ \E done \in SUBSET {"main", "rest", "info"} : Unpacked(done)
    /\ dlg' = Ending(dlg.refresh)
    /\ UNCHANGED <<srv, cache, damaged>>

\* A file that cannot be created ends the dialog.
UnpackFails ==
    /\ dlg.at = "unpack"
    /\ Fault
    /\ \E done \in SUBSET {"main", "rest"} : Unpacked(done)
    /\ dlg' = Ending(dlg.refresh)
    /\ UNCHANGED <<srv, cache, damaged>>

\* The user has read the result.  In download mode the list is fetched again.
Read ==
    /\ dlg.at = "done"
    /\ dlg' = IF dlg.mode = "update" THEN Ending(dlg.refresh)
              ELSE [AtRest EXCEPT !.at = "list", !.mode = "download",
                                  !.refresh = dlg.refresh]
    /\ UNCHANGED <<srv, place, cache, damaged, faults>>

\* The list shows spaces for underscores, and they are put back in what was chosen.
Uninstall(d) ==
    /\ dlg.at = "choose" /\ dlg.mode = "uninstall" /\ d \in Installed
    /\ \/ /\ Removed(Under[d])
          /\ dlg' = Ending(TRUE)
       \/ /\ RemovedInPart(Under[d])
          /\ dlg' = Ending(dlg.refresh)
    /\ UNCHANGED <<srv, cache>>

\* Mutant of Finish: the cache is filled only when the game starts.
FinishUnrefreshed ==
    /\ dlg.at = "end"
    /\ dlg' = AtRest
    /\ UNCHANGED <<srv, place, cache, damaged, faults>>

\* manage_addons throws config_changed_exception when something was installed.
Finish ==
    /\ dlg.at = "end"
    /\ cache' = IF dlg.refresh THEN Probed ELSE cache
    /\ dlg' = AtRest
    /\ UNCHANGED <<srv, place, damaged, faults>>

\* The game is started, whatever it was doing.
Restart ==
    /\ cache' = Probed
    /\ dlg' = AtRest
    /\ UNCHANGED <<srv, place, damaged, faults>>

GaNext ==
    \/ \E t \in Titles : \/ \E l \in Layouts : Publish(t, l)
                         \/ Unpublish(t)
                         \/ Get(t) \/ GetFails(t)
    \/ \E mode \in {"download", "update", "uninstall"} : Open(mode)
    \/ FetchList \/ Leave
    \/ \E ts \in SUBSET Titles : Choose(ts)
    \/ RemoveOld \/ Unpack \/ UnpackFails \/ Read
    \/ \E d \in Dirs : Uninstall(d)
    \/ Finish \/ Restart

GaSpec == GaInit /\ [][GaNext]_gaVars

----------------------------------------------------------------------------
(* Properties. *)

\* What _info.cfg says of an add-on is never newer than any of its files, unless
\* it was not possible to remove what was there: else the files would never be
\* updated.
InfoIsReal ==
    \A t \in Titles \ damaged :
        LET here == place[<<t>>]
        IN  t \in Installed => here.info <= here.main /\ here.info <= here.rest

\* An update offers whatever it can: the cache it works from agrees with the
\* installed add-ons, after any failures but of removals (addon_management.cpp:787).
OffersOutdated ==
    dlg.at = "choose" /\ dlg.mode = "update" =>
        \A t \in (Titles \cap Installed) \ (Own \cup damaged) :
            LET here == place[<<t>>]
            IN  here.info # 0 /\ dlg.list[t] > here.info => t \in dlg.todo

\* When the user is told that an add-on was installed, or that all were updated, it
\* is among the installed ones, and each of its files is of the version that was
\* listed or a later one, whatever failed before (addon_management.cpp:721, 936).
SuccessInstalls ==
    dlg.at = "done" /\ ~ dlg.failed =>
        \A t \in dlg.chosen :
            /\ t \in Installed
            /\ place[<<t>>].main >= dlg.list[t]
            /\ place[<<t>>].rest >= dlg.list[t]
=============================================================================
