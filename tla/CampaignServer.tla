--------------------------- MODULE CampaignServer ---------------------------
(***************************************************************************)
(* campaignd, the daemon the new server replaces: it keeps the list of     *)
(* add-ons in memory, saves it to one file and each add-on to a file of    *)
(* its own, and handles one request after the other.  A signal ends it at  *)
(* once, whatever it is writing.                                           *)
(***************************************************************************)
EXTENDS Naturals, FiniteSets

CONSTANTS
    Names,      \* names add-ons are uploaded under
    Fold,       \* their lower case
    Passes,     \* passphrases of authors
    Master,     \* the master passphrase
    Contents,   \* what is uploaded: a version, with its files
    Script,     \* the Python script in each, or Nothing
    Nothing,
    Torn,       \* a file that was opened for writing and not finished
    MaxDownloads,   \* bound on the counter of each add-on
    MaxKills        \* bound on the signals

ASSUME CsAssumption ==
    /\ Fold \in [Names -> Names]
    /\ \A n \in Names : Fold[Fold[n]] = Fold[n]
    /\ Nothing \notin Names \cup Passes \cup Contents
    /\ Torn # Nothing
    /\ Master \notin Passes
    /\ MaxDownloads \in [Names -> Nat] /\ MaxKills \in Nat

VARIABLES
    up,         \* the daemon runs
    cfg,        \* cfg_: the list, and whether the files are in the new encoding
    saved,      \* server.cfg
    files,      \* data/<name>
    job,        \* the request in hand
    kills,      \* signals so far
    answered,   \* history: the passphrase and content of what was last answered
    hurt,       \* history: add-ons that were in hand when something failed
    validated   \* history: scripts the administrator let in

csVars == <<up, cfg, saved, files, job, kills, answered, hurt, validated>>

Entries == [pass : Passes, ver : Contents, downloads : Nat]
Lists == [Names -> Entries \cup {Nothing}]
Configs == [list : Lists, encoded : BOOLEAN]
\* The version written into the file, the upload its files are from, and whether
\* the script among them has been let in (its name does not end in .unchecked).
Data == [ver : Contents, body : Contents, py : BOOLEAN]
Files == Data \cup {Nothing, Torn}

ASSUME CsFileAssumption == Nothing \notin Data \cup Entries /\ Torn \notin Data \cup Configs

\* at: what comes next; name: the add-on; from: the name it had; data: what is
\* written to its file; todo: what is left to convert; last: the daemon ends.
Jobs == [at : {"idle", "data", "writing", "unlink", "convert", "rename", "save", "saving"},
         name : Names \cup {Nothing}, from : Names \cup {Nothing},
         data : Files, todo : SUBSET Names, last : BOOLEAN]
Job(at) == [at |-> at, name |-> Nothing, from |-> Nothing, data |-> Nothing,
            todo |-> {}, last |-> FALSE]
JobOf(at, n, m, d) == [Job(at) EXCEPT !.name = n, !.from = m, !.data = d]

\* What the author was last told: the passphrase and version in the list, and
\* the upload that is served.
Promises == [pass : Passes \cup {Nothing}, ver : Contents \cup {Nothing},
             body : Contents \cup {Nothing}]
Promise(e, b) == IF e = Nothing THEN [pass |-> Nothing, ver |-> Nothing, body |-> Nothing]
                 ELSE [pass |-> e.pass, ver |-> e.ver, body |-> b]

\* What a save or a request in hand may hold at each point
\* (campaign_server.cpp:403).
CsTypeOK ==
    /\ up \in BOOLEAN
    /\ cfg \in Configs
    /\ saved \in Configs \cup {Torn}
    /\ files \in [Names -> Files]
    /\ job \in Jobs
    /\ job.data = Torn => job.at = "rename"
    /\ job.todo # {} => job.at \in {"convert", "rename"}
    /\ \A n \in job.todo : cfg.list[n] # Nothing
    /\ kills \in 0..MaxKills
    /\ answered \in [Names -> Promises]
    /\ hurt \subseteq Names
    /\ validated \subseteq {Script[v] : v \in Contents}

Listed(n) == cfg.list[n] # Nothing
Whole(n) == files[n] \notin {Nothing, Torn}

NoAddons == [n \in Names |-> Nothing]
NoConfig == [list |-> NoAddons, encoded |-> TRUE]

\* The first start of a daemon, with no add-ons or with one of its predecessor's.
CsInit ==
    /\ up = FALSE
    /\ \E n \in Names, p \in Passes, v \in Contents, old \in BOOLEAN :
          LET e == [pass |-> p, ver |-> v, downloads |-> 0]
          IN  /\ saved = [list |-> IF old THEN [NoAddons EXCEPT ![n] = e] ELSE NoAddons,
                          encoded |-> ~ old]
              /\ files = [m \in Names |-> IF old /\ m = n
                                             THEN [ver |-> v, body |-> v, py |-> FALSE]
                                             ELSE Nothing]
              /\ answered = [m \in Names |-> Promise(saved.list[m], v)]
    /\ cfg = NoConfig
    /\ job = Job("idle")
    /\ kills = 0
    /\ hurt = {}
    /\ validated = {}

SetEntry(n, e) == cfg' = [cfg EXCEPT !.list[n] = e]
SetFile(n, f) == files' = [files EXCEPT ![n] = f]

----------------------------------------------------------------------------
(* Start and end. *)

\* Mutant of Start: whatever could be there is converted.
StartConvertsAll ==
    /\ ~ up
    /\ up' = TRUE
    /\ cfg' = IF saved = Torn THEN NoConfig ELSE saved
    /\ job' = IF cfg'.encoded THEN Job("save") ELSE [Job("convert") EXCEPT !.todo = Names]
    /\ UNCHANGED <<saved, files, kills, answered, hurt, validated>>

\* load_config.  A list that was not saved whole cannot be parsed, and then the
\* daemon does not start; or nothing of it was written, and it starts afresh.
\* Then the files are converted, once, and the list is saved.
Start ==
    /\ ~ up
    /\ up' = TRUE
    /\ cfg' = IF saved = Torn THEN NoConfig ELSE saved
    /\ job' = IF cfg'.encoded THEN Job("save")
              ELSE [Job("convert") EXCEPT !.todo = {n \in Names : cfg'.list[n] # Nothing}]
    /\ UNCHANGED <<saved, files, kills, answered, hurt, validated>>

\* convert_binary_to_gzip: the converted copy is written, the file removed ...
Convert(n) ==
    /\ up /\ job.at = "convert" /\ n \in job.todo
    /\ SetFile(n, Nothing)
    /\ job' = [job EXCEPT !.at = "rename", !.name = n,
                          !.data = IF Whole(n) THEN files[n] ELSE Torn]
    /\ UNCHANGED <<up, cfg, saved, kills, answered, hurt, validated>>

\* ... and the copy renamed.  The next start would write the copy again.
Rename ==
    /\ up /\ job.at = "rename"
    /\ SetFile(job.name, job.data)
    /\ job' = [Job("convert") EXCEPT !.todo = job.todo \ {job.name}]
    /\ UNCHANGED <<up, cfg, saved, kills, answered, hurt, validated>>

Converted ==
    /\ up /\ job.at = "convert" /\ job.todo = {}
    /\ cfg' = [cfg EXCEPT !.encoded = TRUE]
    /\ job' = Job("save")
    /\ UNCHANGED <<up, saved, files, kills, answered, hurt, validated>>

\* SIGINT, SIGTERM and SIGHUP exit at once.
Kill ==
    /\ up /\ kills < MaxKills
    /\ up' = FALSE
    /\ kills' = kills + 1
    /\ job' = Job("idle")
    /\ hurt' = IF saved = Torn THEN Names
               ELSE hurt \cup ({job.name, job.from} \ {Nothing})
    /\ cfg' = NoConfig
    /\ UNCHANGED <<saved, files, answered, validated>>

\* The control socket's shut_down, and fatal errors: the destructor saves.
ShutDown ==
    /\ up /\ job.at = "idle"
    /\ job' = [Job("save") EXCEPT !.last = TRUE]
    /\ UNCHANGED <<up, cfg, saved, files, kills, answered, hurt, validated>>

\* Every ten minutes.
SavePeriodically ==
    /\ up /\ job.at = "idle"
    /\ saved # cfg
    /\ job' = Job("save")
    /\ UNCHANGED <<up, cfg, saved, files, kills, answered, hurt, validated>>

\* ostream_file truncates the list before write fills it.
OpenConfig ==
    /\ up /\ job.at = "save"
    /\ saved' = Torn
    /\ job' = [job EXCEPT !.at = "saving"]
    /\ UNCHANGED <<up, cfg, files, kills, answered, hurt, validated>>

\* The list is written and, when a request is in hand, the client answered.  An
\* upload has then made up for whatever had happened to the add-on.
WriteConfig ==
    /\ up /\ job.at = "saving"
    /\ saved' = cfg
    /\ answered' = [n \in Names |->
          IF n \notin {job.name, job.from} THEN answered[n]
          ELSE Promise(cfg.list[n], IF job.data = Nothing THEN answered[n].body
                                                         ELSE job.data.body)]
    /\ hurt' = IF job.data # Nothing THEN hurt \ {job.name, job.from} ELSE hurt
    /\ job' = Job("idle")
    /\ up' = ~ job.last
    /\ cfg' = IF job.last THEN NoConfig ELSE cfg
    /\ UNCHANGED <<files, kills, validated>>

----------------------------------------------------------------------------
(* Requests. *)

\* Mutant of Same: names are compared as they are.
SameSpelling(n) == {m \in Names : Listed(m) /\ m = n}

\* The add-ons an upload of n replaces: names are compared in lower case.
Same(n) == {m \in Names : Listed(m) /\ Fold[m] = Fold[n]}

\* Mutant of CheckScripts: only the name of the script is compared.
CheckScriptNames(n, m, v) ==
    /\ job' = JobOf("data", n, m, [ver |-> v, body |-> v,
                                   py |-> Whole(n) /\ files[n].py /\ Script[v] # Nothing])
    /\ UNCHANGED hurt

\* check_python_scripts: a script stays let in when the file it replaces has the
\* same one.  A file that is cut is read as empty, or the reader throws: then the
\* list has been changed and nothing else happens.
CheckScripts(n, m, v) ==
    LET kept == Whole(n) /\ files[n].py /\ Script[files[n].body] = Script[v]
        Written(py) == job' = JobOf("data", n, m, [ver |-> v, body |-> v, py |-> py])
    IN  \/ /\ Script[v] = Nothing
           /\ Written(FALSE)
           /\ UNCHANGED hurt
        \/ /\ Script[v] # Nothing
           /\ Written(kept)
           /\ UNCHANGED hurt
        \/ /\ Script[v] # Nothing /\ files[n] = Torn
           /\ hurt' = hurt \cup {n, m}
           /\ UNCHANGED job

\* The author's upload of v.  The list is changed first, and a new spelling of
\* the name is a new file.
OwnerUpload(n, p, v) ==
    \E m \in Names :
        /\ up /\ job.at = "idle"
        /\ IF Same(n) = {} THEN m = n ELSE m \in Same(n) /\ cfg.list[m].pass = p
        /\ LET e == IF Listed(m) THEN cfg.list[m]
                    ELSE [pass |-> p, ver |-> v, downloads |-> 0]
           IN  cfg' = [cfg EXCEPT !.list = [@ EXCEPT ![m] = Nothing,
                                                     ![n] = [e EXCEPT !.ver = v]]]
        /\ CheckScripts(n, m, v)
        /\ UNCHANGED <<up, saved, files, kills, answered, validated>>

\* The administrator's upload keeps what the list says of the add-on, its file
\* included, and its scripts are not looked at.
MasterUpload(n, v) ==
    \E m \in Same(n) :
        /\ up /\ job.at = "idle"
        /\ job' = JobOf("data", m, m, [ver |-> cfg.list[m].ver, body |-> v,
                                       py |-> Script[v] # Nothing])
        /\ validated' = validated \cup ({Script[v]} \ {Nothing})
        /\ UNCHANGED <<up, cfg, saved, files, kills, answered, hurt>>

\* validate_scripts renames the unchecked scripts in the file.  The list is not
\* saved; a cut file has none, or cannot be read.
Validate(n) ==
    /\ up /\ job.at = "idle" /\ Listed(n)
    /\ Whole(n) /\ ~ files[n].py /\ Script[files[n].body] # Nothing
    /\ job' = JobOf("data", n, Nothing, [files[n] EXCEPT !.py = TRUE])
    /\ validated' = validated \cup {Script[files[n].body]}
    /\ UNCHANGED <<up, cfg, saved, files, kills, answered, hurt>>

\* The file is opened, which empties it, and written.
OpenData ==
    /\ up /\ job.at = "data"
    /\ SetFile(job.name, Torn)
    /\ job' = [job EXCEPT !.at = "writing"]
    /\ UNCHANGED <<up, cfg, saved, kills, answered, hurt, validated>>

WriteData ==
    /\ up /\ job.at = "writing"
    /\ SetFile(job.name, job.data)
    /\ job' = IF job.from = Nothing THEN Job("idle") ELSE [job EXCEPT !.at = "save"]
    /\ UNCHANGED <<up, cfg, saved, kills, answered, hurt, validated>>

\* The file is emptied and unlinked, and the add-on leaves the list.
Delete(n, p) ==
    /\ up /\ job.at = "idle" /\ Listed(n)
    /\ p \in {cfg.list[n].pass, Master}
    /\ SetFile(n, Torn)
    /\ job' = JobOf("unlink", n, n, Nothing)
    /\ UNCHANGED <<up, cfg, saved, kills, answered, hurt, validated>>

Unlink ==
    /\ up /\ job.at = "unlink"
    /\ SetFile(job.name, Nothing)
    /\ SetEntry(job.name, Nothing)
    /\ job' = [job EXCEPT !.at = "save"]
    /\ UNCHANGED <<up, saved, kills, answered, hurt, validated>>

\* Mutant of ChangePassphrase: the list is not saved before the answer.
ChangePassphraseUnsaved(n, p, q) ==
    /\ up /\ job.at = "idle" /\ Listed(n)
    /\ cfg.list[n].pass = p
    /\ SetEntry(n, [cfg.list[n] EXCEPT !.pass = q])
    /\ answered' = [answered EXCEPT ![n].pass = q]
    /\ UNCHANGED <<up, saved, files, job, kills, hurt, validated>>

ChangePassphrase(n, p, q) ==
    /\ up /\ job.at = "idle" /\ Listed(n)
    /\ cfg.list[n].pass = p
    /\ SetEntry(n, [cfg.list[n] EXCEPT !.pass = q])
    /\ job' = JobOf("save", n, n, Nothing)
    /\ UNCHANGED <<up, saved, files, kills, answered, hurt, validated>>

\* The counter is kept in memory only, until the list is saved for another reason.
Download(n) ==
    /\ up /\ job.at = "idle" /\ Listed(n)
    /\ cfg.list[n].downloads < MaxDownloads[n]
    /\ SetEntry(n, [cfg.list[n] EXCEPT !.downloads = @ + 1])
    /\ UNCHANGED <<up, saved, files, job, kills, answered, hurt, validated>>

Request(n) ==
    \/ \E p \in Passes, v \in Contents : OwnerUpload(n, p, v)
    \/ \E v \in Contents : MasterUpload(n, v)
    \/ Validate(n)
    \/ \E p \in Passes \cup {Master} : Delete(n, p)
    \/ \E p, q \in Passes : ChangePassphrase(n, p, q)
    \/ Download(n)

CsNext ==
    \/ Start \/ Kill \/ ShutDown \/ SavePeriodically
    \/ Rename \/ Converted \/ OpenConfig \/ WriteConfig
    \/ OpenData \/ WriteData \/ Unlink
    \/ \E n \in Names : Convert(n) \/ Request(n)

CsSpec == CsInit /\ [][CsNext]_csVars

----------------------------------------------------------------------------
(* Properties. *)

\* Two spellings of a name are never both in the list, in memory or on disk,
\* whatever is interrupted (campaign_server.cpp:496): else an author could no
\* longer reach the second one with an upload.
NoTwins ==
    \A list \in {cfg.list} \cup {c.list : c \in {saved} \ {Torn}} :
        \A n, m \in Names :
            list[n] # Nothing /\ list[m] # Nothing /\ Fold[n] = Fold[m] => n = m

\* Whatever fails, and after any number of restarts, an add-on that was not in
\* hand at the time is still listed as its author was last told, and its file is
\* the upload he was told of, with the version the list names.
DamageConfined ==
    \A n \in Names \ (hurt \cup {job.name, job.from}) :
        /\ up => Promise(cfg.list[n], answered[n].body) = answered[n]
        /\ saved # Torn => Promise(saved.list[n], answered[n].body) = answered[n]
        /\ up /\ Listed(n) =>
              Whole(n) /\ files[n].ver = cfg.list[n].ver /\ files[n].body = answered[n].body

\* A script that players would run was let in by the administrator, on this
\* add-on or another: renaming, replacing, deleting or restarting does not let it
\* in (campaign_server.cpp:211).
ScriptsWereValidated ==
    \A n \in Names : Whole(n) /\ files[n].py => Script[files[n].body] \in validated
=============================================================================
