--------------------------- MODULE ScriptManager ---------------------------
(***************************************************************************)
(* The command-line client, script/wesnoth_addon_manager.py on the shared  *)
(* library wesnoth/campaignserver_client.py, over the catalogue that the   *)
(* add-on server promises (AddonCatalog): the commands --download,         *)
(* --update and --remove, one process at a time.  A command fetches the    *)
(* list once and then works through the add-ons it selected by the id each *)
(* had in that list; a download is two requests, the second for a file     *)
(* named after the title.  A directory gets its _info.cfg last.            *)
(***************************************************************************)
EXTENDS Integers, FiniteSets

CONSTANTS
    Titles, Versions, Ids, MaxRev,  \* as in AddonCatalog
    Dirs,           \* names of add-on directories, titles among them
    DirOf,          \* the "name" key each add-on was published with
    Start,          \* the catalogue when the script is first used
    ServerActs,     \* "remove": add-ons go while a command runs,
                    \* "again": a title that went is published again
    Commands,       \* the commands the user gives
    None

VARIABLES
    catalog,    \* the server, as AddonCatalog has it
    gone,       \* history: titles removed from the server
    disk,       \* the add-on directories under --campaigns-dir
    cmd         \* the running command, its local variables

vars == <<catalog, gone, disk, cmd>>

Server == INSTANCE AddonCatalog

\* What search_addons and --update keep of a list entry.
Item == [id : Ids, title : Titles, rev : 1..MaxRev, ver : Versions]
Content == [title : Titles, ver : Versions, rev : 1..MaxRev]
Info == [rev : 1..MaxRev, ver : Versions]
\* holds is None while files are missing; info is None without a readable
\* _info.cfg.
Directory == [holds : Content \cup {None}, info : Info \cup {None}]

ASSUME ScriptAssumption ==
    /\ Titles \subseteq Dirs
    /\ DirOf \in [Titles -> Dirs]
    /\ MaxRev \in 1..99
    /\ Ids \subseteq Nat
    /\ Start \in [Ids -> Server!Entry \cup {None}]
    /\ ServerActs \subseteq {"remove", "again"}
    /\ Commands \subseteq {"download", "update", "remove"}
    /\ None \notin Server!Entry \cup Content \cup Directory

Steps == {"idle", "list", "pick", "delete", "redirect", "fetch", "clear",
          "mkdir", "unpack", "info", "hung", "end"}

Command == [pc : Steps, kind : Commands \cup {None}, sel : SUBSET Dirs,
            todo : SUBSET Item, item : Item \cup {None}, file : Titles \cup {None},
            got : Content \cup {None}, calm : BOOLEAN]

\* calm: nothing changed on the server since the command started.
Idle == [pc |-> "idle", kind |-> None, sel |-> {}, todo |-> {}, item |-> None,
         file |-> None, got |-> None, calm |-> FALSE]

Init ==
    /\ catalog = Start
    /\ gone = {}
    /\ disk = [d \in Dirs |-> None]
    /\ cmd = Idle

At(pc) == cmd.pc = pc
Goto(pc) == cmd' = [cmd EXCEPT !.pc = pc]

-----------------------------------------------------------------------------
(* The list *)

\* --update takes every directory; a pattern selects any titles.
Begin(kind, sel) ==
    /\ At("idle")
    /\ kind \in Commands
    /\ IF kind = "update" THEN sel = {d \in Dirs : disk[d] # None}
                          ELSE sel \subseteq Titles
    /\ sel # {}
    /\ cmd' = [Idle EXCEPT !.pc = "list", !.kind = kind, !.sel = sel, !.calm = TRUE]
    /\ UNCHANGED <<catalog, gone, disk>>

\* An entry is listed when its file can be downloaded.
Listed == {i \in Ids : catalog[i] # None /\ catalog[i].ver # None}
\* Mutants of Listing: add-ons without a file too, and places for ids.
ListingAll == {[id |-> i, title |-> catalog[i].title, rev |-> catalog[i].rev,
                ver |-> catalog[i].ver] : i \in {k \in Ids : catalog[k] # None}}
ListingByPlace ==
    {[id |-> CHOOSE n \in Ids : n - 1 = Cardinality({k \in Listed : k < i}),
      title |-> catalog[i].title, rev |-> catalog[i].rev,
      ver |-> catalog[i].ver] : i \in Listed}

Listing == {[id |-> i, title |-> catalog[i].title, rev |-> catalog[i].rev,
             ver |-> catalog[i].ver] : i \in Listed}

FetchList ==
    /\ At("list")
    /\ cmd' = [cmd EXCEPT !.pc = "pick",
                          !.todo = {e \in Listing : e.title \in cmd.sel}]
    /\ UNCHANGED <<catalog, gone, disk>>

-----------------------------------------------------------------------------
(* The decision *)

\* Revisions are compared as text: "9" > "10".
Leading(n) == IF n < 10 THEN n ELSE n \div 10
TextGreater(m, n) == \/ Leading(m) > Leading(n)
                     \/ Leading(m) = Leading(n) /\ m > n

\* Mutant of Wanted: only a new version is downloaded.
WantedForVersion(e) ==
    LET local == IF disk[e.title] = None THEN None ELSE disk[e.title].info
    IN  local = None \/ local.ver # e.ver

\* The same for --download and --update: an add-on without _info.cfg, or one
\* of another revision that is of another version too, or an older revision.
Wanted(e) ==
    LET local == IF disk[e.title] = None THEN None ELSE disk[e.title].info
    IN  local = None \/ /\ local.rev # e.rev
                        /\ local.ver # e.ver \/ TextGreater(e.rev, local.rev)

Pick(e) ==
    /\ At("pick")
    /\ e \in cmd.todo
    /\ cmd' = [cmd EXCEPT
                 !.todo = @ \ {e}, !.item = e,
                 !.pc = IF cmd.kind = "remove" THEN "delete"
                        ELSE IF Wanted(e) THEN "redirect" ELSE "pick"]
    /\ UNCHANGED <<catalog, gone, disk>>

Finish ==
    /\ At("pick")
    /\ cmd.todo = {}
    /\ Goto("end")
    /\ UNCHANGED <<catalog, gone, disk>>

Exit ==
    /\ At("end")
    /\ cmd' = Idle
    /\ UNCHANGED <<catalog, gone, disk>>

-----------------------------------------------------------------------------
(* --remove *)

Removed(i) == gone' = gone \cup {catalog[i].title}

\* The server removes whatever has the id now, if the login may remove it.
DeleteCampaign ==
    /\ At("delete")
    /\ \/ Server!Delete(cmd.item.id) /\ Removed(cmd.item.id)
       \/ UNCHANGED <<catalog, gone>>
    /\ Goto("pick")
    /\ UNCHANGED disk

-----------------------------------------------------------------------------
(* get *)

\* download/<id> answers with the file of the add-on that has the id now.
\* Any error ends the background thread without setting its event, and get
\* goes on waiting for it.
GetCampaign ==
    LET i == cmd.item.id
    IN  /\ At("redirect")
        /\ IF i \in Listed
           THEN cmd' = [cmd EXCEPT !.pc = "fetch", !.file = catalog[i].title]
           ELSE Goto("hung")
        /\ UNCHANGED <<catalog, gone, disk>>

\* The file of that title, as it is now.
Served(t) == {[title |-> t, ver |-> catalog[i].ver, rev |-> catalog[i].rev] :
                i \in {j \in Listed : catalog[j].title = t}}

FetchFile ==
    /\ At("fetch")
    /\ IF Served(cmd.file) # {}
       THEN \E c \in Served(cmd.file) :
                cmd' = [cmd EXCEPT !.pc = "clear", !.got = c]
       ELSE Goto("hung")
    /\ UNCHANGED <<catalog, gone, disk>>

\* The directory is the one the content itself names.
Target == DirOf[cmd.got.title]

RemoveOld ==
    /\ At("clear")
    /\ disk' = [disk EXCEPT ![Target] = None]
    /\ Goto("mkdir")
    /\ UNCHANGED <<catalog, gone>>

MakeDir ==
    /\ At("mkdir")
    /\ disk' = [disk EXCEPT ![Target] = [holds |-> None, info |-> None]]
    /\ Goto("unpack")
    /\ UNCHANGED <<catalog, gone>>

UnpackDir ==
    /\ At("unpack")
    /\ disk' = [disk EXCEPT ![Target].holds = cmd.got]
    /\ Goto("info")
    /\ UNCHANGED <<catalog, gone>>

\* Mutant of WriteInfo: the revision is asked for again.
WriteInfoNow ==
    /\ At("info")
    /\ \E e \in {x \in Listing : x.title = cmd.got.title} :
          disk' = [disk EXCEPT ![Target].info = [rev |-> e.rev, ver |-> e.ver]]
    /\ cmd' = [cmd EXCEPT !.pc = "pick", !.file = None, !.got = None]
    /\ UNCHANGED <<catalog, gone>>

\* Version and revision are those of the list.
WriteInfo ==
    /\ At("info")
    /\ disk' = [disk EXCEPT ![Target].info =
                    [rev |-> cmd.item.rev, ver |-> cmd.item.ver]]
    /\ cmd' = [cmd EXCEPT !.pc = "pick", !.file = None, !.got = None]
    /\ UNCHANGED <<catalog, gone>>

\* The user stops the command; what it did stays.
Interrupt ==
    /\ ~At("idle")
    /\ cmd' = Idle
    /\ UNCHANGED <<catalog, gone, disk>>

-----------------------------------------------------------------------------
(* The server *)

\* SQLite's next key: a key that went from the end of the table comes again.
NextId(i) == /\ \A k \in Ids : catalog[k] # None => k < i
             /\ i - 1 \in Ids => catalog[i - 1] # None

Changes ==
    \/ \E i \in Ids, t \in Titles, v \in Versions :
          /\ NextId(i)
          /\ t \notin gone \/ "again" \in ServerActs
          /\ Server!Create(i, t, v)
          /\ UNCHANGED gone
    \/ \E i \in Ids :
          /\ catalog[i] # None /\ catalog[i].rev < MaxRev
          /\ Server!Degrade(i) \/ \E v \in Versions : Server!Republish(i, v)
          /\ UNCHANGED gone
    \/ \E i \in Ids :
          /\ At("idle") \/ "remove" \in ServerActs
          /\ Server!Delete(i)
          /\ Removed(i)

ServerChanges ==
    /\ Changes
    /\ cmd' = [cmd EXCEPT !.calm = FALSE]
    /\ UNCHANGED disk

-----------------------------------------------------------------------------
Script == \/ FetchList \/ Finish \/ Exit \/ DeleteCampaign
          \/ GetCampaign \/ FetchFile \/ RemoveOld \/ MakeDir \/ UnpackDir
          \/ WriteInfo \/ \E e \in Item : Pick(e)

User == Interrupt \/ \E kind \in Commands, sel \in SUBSET Dirs : Begin(kind, sel)

Next == Script \/ User \/ ServerChanges

Spec == Init /\ [][Next]_vars

-----------------------------------------------------------------------------
(* Correctness *)

TypeOK ==
    /\ Server!TypeOK
    /\ gone \subseteq Titles
    /\ disk \in [Dirs -> Directory \cup {None}]
    /\ cmd \in Command

\* "Update all installed add-ons in the given directory" (--update): if the
\* server stayed as it was, the add-ons that were installed and are listed are
\* the server's when the command ends, after any number of interrupted ones.
UpdateConverges ==
    At("end") /\ cmd.kind = "update" /\ cmd.calm =>
        \A e \in Listing :
            e.title \in cmd.sel
                => disk[e.title].holds = [title |-> e.title, ver |-> e.ver, rev |-> e.rev]

\* _info.cfg never claims more than the files beside it, or an update would
\* take them for up to date; the list is always older than the download.
InfoNotAhead ==
    \A d \in Dirs : disk[d] # None /\ disk[d].info # None =>
        /\ disk[d].holds # None
        /\ disk[d].info.rev <= disk[d].holds.rev

\* "download the named add-on", "remove the add-on from the server" (--download,
\* --remove): a command changes no other add-on than the one it took from its
\* list, on disk or on the server.
ActsOnNamed ==
    [][/\ \A d \in Dirs : disk'[d] # disk[d] => d = DirOf[cmd.item.title]
       /\ At("delete") /\ DeleteCampaign =>
            \A i \in Ids : catalog'[i] # catalog[i]
                => catalog[i].title = cmd.item.title]_vars

=============================================================================
