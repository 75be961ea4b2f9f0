------------------------ MODULE CampaignServerProofs ------------------------
(***************************************************************************)
(* For any names, passphrases and contents, and any number of kills: the   *)
(* types, that two spellings of a name are never both listed, and that     *)
(* only scripts the administrator let in lose their suffix.                *)
(***************************************************************************)
EXTENDS CampaignServer, TLAPS

USE CsAssumption, CsFileAssumption

At == {"idle", "data", "writing", "unlink", "convert", "rename", "save", "saving"}

LEMMA JobType ==
    ASSUME NEW at \in At
    PROVE  /\ Job(at) \in Jobs
           /\ Job(at).at = at /\ Job(at).data = Nothing /\ Job(at).todo = {}
           /\ Job(at).name = Nothing /\ Job(at).from = Nothing
BY DEF Job, Jobs, At, Files

LEMMA JobOfType ==
    ASSUME NEW at \in At, NEW n \in Names \cup {Nothing}, NEW m \in Names \cup {Nothing},
           NEW d \in Files
    PROVE  /\ JobOf(at, n, m, d) \in Jobs
           /\ JobOf(at, n, m, d).at = at /\ JobOf(at, n, m, d).data = d
           /\ JobOf(at, n, m, d).todo = {}
           /\ JobOf(at, n, m, d).name = n /\ JobOf(at, n, m, d).from = m
BY DEF JobOf, Job, Jobs, At

\* The step moves on with what it has.
LEMMA JobGoesOn ==
    ASSUME CsTypeOK, NEW at \in At, job' = [job EXCEPT !.at = at]
    PROVE  /\ job' \in Jobs
           /\ job'.at = at /\ job'.data = job.data /\ job'.todo = job.todo
           /\ job'.name = job.name /\ job'.from = job.from
BY DEF CsTypeOK, Jobs, At

LEMMA NoListType == NoAddons \in Lists /\ NoConfig \in Configs
BY DEF NoAddons, NoConfig, Lists, Configs

LEMMA EntryType ==
    ASSUME CsTypeOK, NEW n \in Names, Listed(n)
    PROVE  cfg.list[n] \in Entries
BY DEF CsTypeOK, Listed, Configs, Lists

LEMMA FileType ==
    ASSUME CsTypeOK, NEW n \in Names, Whole(n)
    PROVE  files[n] \in Data
BY DEF CsTypeOK, Whole, Files

LEMMA SetEntryType ==
    ASSUME CsTypeOK, NEW n \in Names, NEW e \in Entries \cup {Nothing}, SetEntry(n, e)
    PROVE  /\ cfg' \in Configs
           /\ cfg'.list = [cfg.list EXCEPT ![n] = e]
BY DEF CsTypeOK, SetEntry, Configs, Lists

LEMMA PromiseType ==
    ASSUME NEW e \in Entries \cup {Nothing}, NEW b \in Contents \cup {Nothing}
    PROVE  Promise(e, b) \in Promises
BY DEF Promise, Promises, Entries

LEMMA InitType == CsInit => CsTypeOK
<1> SUFFICES ASSUME CsInit PROVE CsTypeOK
  OBVIOUS
<1>1. PICK n \in Names, p \in Passes, v \in Contents, old \in BOOLEAN :
        LET e == [pass |-> p, ver |-> v, downloads |-> 0]
        IN  /\ saved = [list |-> IF old THEN [NoAddons EXCEPT ![n] = e] ELSE NoAddons,
                        encoded |-> ~ old]
            /\ files = [m \in Names |-> IF old /\ m = n
                                           THEN [ver |-> v, body |-> v, py |-> FALSE]
                                           ELSE Nothing]
            /\ answered = [m \in Names |-> Promise(saved.list[m], v)]
  BY DEF CsInit
<1>2. saved \in Configs
  <2>1. [pass |-> p, ver |-> v, downloads |-> 0] \in Entries
    BY DEF Entries
  <2>2. saved.list \in Lists
    BY <1>1, <2>1, NoListType DEF Lists
  <2>3. QED
    BY <1>1, <2>2 DEF Configs
<1>3. files \in [Names -> Files]
  BY <1>1 DEF Files, Data
<1>4. answered \in [Names -> Promises]
  BY <1>1, <1>2, PromiseType DEF Configs, Lists
<1>5. /\ job \in Jobs /\ job.todo = {}
      /\ job.data = Torn => job.at = "rename"
  BY JobType DEF CsInit, At
<1>6. /\ up = FALSE /\ cfg = NoConfig
      /\ kills = 0 /\ hurt = {} /\ validated = {}
  BY DEF CsInit
<1>7. kills \in 0..MaxKills
  BY <1>6
<1>8. QED
  BY <1>2, <1>3, <1>4, <1>5, <1>6, <1>7, NoListType DEF CsTypeOK

----------------------------------------------------------------------------
(* Types: one lemma per action. *)

LEMMA StartType == CsTypeOK /\ Start => CsTypeOK'
<1> SUFFICES ASSUME CsTypeOK, Start PROVE CsTypeOK'
  OBVIOUS
<1>1. cfg' \in Configs
  BY NoListType DEF CsTypeOK, Start
<1>2. /\ job' \in Jobs /\ job'.data = Nothing
      /\ job'.todo # {} => job'.at = "convert"
      /\ \A n \in job'.todo : cfg'.list[n] # Nothing
  <2>1. CASE cfg'.encoded
    BY <2>1, JobType DEF Start, At
  <2>2. CASE ~ cfg'.encoded
    <3> DEFINE td == {n \in Names : cfg'.list[n] # Nothing}
    <3>1. job' = [Job("convert") EXCEPT !.todo = td]
      BY <2>2 DEF Start
    <3>2. job' \in Jobs /\ job'.data = Nothing /\ job'.at = "convert" /\ job'.todo = td
      BY <3>1 DEF Job, Jobs, Files
    <3>3. QED
      BY <3>2
  <2>3. QED
    BY <2>1, <2>2
<1>3. QED
  BY <1>1, <1>2 DEF CsTypeOK, Start

LEMMA ConvertType == ASSUME CsTypeOK, NEW n \in Names, Convert(n) PROVE CsTypeOK'
<1> DEFINE d == IF Whole(n) THEN files[n] ELSE Torn
<1>1. d \in Files
  BY FileType DEF Files
<1>2. job' = [job EXCEPT !.at = "rename", !.name = n, !.data = d]
  BY DEF Convert
<1>3. job' \in Jobs /\ job'.at = "rename" /\ job'.todo = job.todo
  <2> HIDE DEF d
  <2> QED BY <1>1, <1>2 DEF CsTypeOK, Jobs
<1>4. files' \in [Names -> Files]
  BY DEF CsTypeOK, Convert, SetFile, Files
<1>5. QED
  BY <1>3, <1>4 DEF CsTypeOK, Convert

LEMMA RenameType == CsTypeOK /\ Rename => CsTypeOK'
<1> SUFFICES ASSUME CsTypeOK, Rename PROVE CsTypeOK'
  OBVIOUS
<1>1. job' = [Job("convert") EXCEPT !.todo = job.todo \ {job.name}]
  BY DEF Rename
<1>2. /\ job' \in Jobs /\ job'.data = Nothing /\ job'.at = "convert"
      /\ job'.todo \subseteq job.todo
  BY <1>1 DEF CsTypeOK, Job, Jobs, Files
<1>3. files' \in [Names -> Files]
  BY DEF CsTypeOK, Rename, SetFile, Jobs
<1>4. QED
  BY <1>2, <1>3 DEF CsTypeOK, Rename

LEMMA ConvertedType == CsTypeOK /\ Converted => CsTypeOK'
<1> SUFFICES ASSUME CsTypeOK, Converted PROVE CsTypeOK'
  OBVIOUS
<1>1. cfg' \in Configs
  BY DEF CsTypeOK, Converted, Configs
<1>2. QED
  BY <1>1, JobType DEF CsTypeOK, Converted, At

LEMMA KillType == CsTypeOK /\ Kill => CsTypeOK'
<1> SUFFICES ASSUME CsTypeOK, Kill PROVE CsTypeOK'
  OBVIOUS
<1>1. kills' \in 0..MaxKills
  BY DEF CsTypeOK, Kill
<1>2. hurt' \subseteq Names
  BY DEF CsTypeOK, Kill, Jobs
<1>3. QED
  BY <1>1, <1>2, JobType, NoListType DEF CsTypeOK, Kill, At

LEMMA ShutDownType == CsTypeOK /\ ShutDown => CsTypeOK'
<1> SUFFICES ASSUME CsTypeOK, ShutDown PROVE CsTypeOK'
  OBVIOUS
<1>1. job' = [Job("save") EXCEPT !.last = TRUE]
  BY DEF ShutDown
<1>2. job' \in Jobs /\ job'.data = Nothing /\ job'.todo = {}
  BY <1>1 DEF Job, Jobs, Files
<1>3. QED
  BY <1>2 DEF CsTypeOK, ShutDown

LEMMA SavePeriodicallyType == CsTypeOK /\ SavePeriodically => CsTypeOK'
BY JobType DEF CsTypeOK, SavePeriodically, At

LEMMA OpenConfigType == CsTypeOK /\ OpenConfig => CsTypeOK'
BY JobGoesOn DEF CsTypeOK, OpenConfig, At

LEMMA WriteConfigType == CsTypeOK /\ WriteConfig => CsTypeOK'
<1> SUFFICES ASSUME CsTypeOK, WriteConfig PROVE CsTypeOK'
  OBVIOUS
<1>1. cfg' \in Configs /\ saved' \in Configs
  BY NoListType DEF CsTypeOK, WriteConfig
<1>2. ASSUME NEW n \in Names
      PROVE  Promise(cfg.list[n], IF job.data = Nothing THEN answered[n].body
                                                        ELSE job.data.body) \in Promises
  <2> DEFINE b == IF job.data = Nothing THEN answered[n].body ELSE job.data.body
  <2>1. job.data # Torn
    BY DEF CsTypeOK, WriteConfig
  <2>2. answered[n] \in Promises /\ job.data \in Data \cup {Nothing}
    BY <2>1 DEF CsTypeOK, Jobs, Files
  <2>3. b \in Contents \cup {Nothing}
    BY <2>2 DEF Promises, Data
  <2>4. cfg.list[n] \in Entries \cup {Nothing}
    BY DEF CsTypeOK, Configs, Lists
  <2> HIDE DEF b
  <2>5. Promise(cfg.list[n], b) \in Promises
    BY <2>3, <2>4, PromiseType
  <2>6. QED
    BY <2>5 DEF b
<1>3. answered' \in [Names -> Promises]
  BY <1>2 DEF CsTypeOK, WriteConfig
<1>4. up' \in BOOLEAN /\ hurt' \subseteq Names
  BY DEF CsTypeOK, WriteConfig, Jobs
<1>5. job' \in Jobs /\ job'.data = Nothing /\ job'.todo = {}
  BY JobType DEF WriteConfig, At
<1>6. QED
  BY <1>1, <1>3, <1>4, <1>5 DEF CsTypeOK, WriteConfig

\* Between requests nothing is left over from the last one.
LEMMA IdleJob == ASSUME CsTypeOK, job.at = "idle" PROVE job.todo = {} /\ job.data # Torn
BY DEF CsTypeOK

LEMMA CheckScriptsType ==
    ASSUME CsTypeOK, job.at = "idle",
           NEW n \in Names, NEW m \in Names, NEW v \in Contents, CheckScripts(n, m, v)
    PROVE  /\ job' \in Jobs /\ job'.todo = {}
           /\ job'.data = Torn => job'.at = "rename"
           /\ hurt' \subseteq Names
<1>1. ASSUME NEW py \in BOOLEAN,
             job' = JobOf("data", n, m, [ver |-> v, body |-> v, py |-> py])
      PROVE  job' \in Jobs /\ job'.todo = {} /\ (job'.data = Torn => job'.at = "rename")
  <2> DEFINE d == [ver |-> v, body |-> v, py |-> py]
  <2>1. d \in Data
    BY DEF Data
  <2>2. d # Torn
    BY <2>1
  <2> HIDE DEF d
  <2>3. job' = JobOf("data", n, m, d)
    BY <1>1 DEF d
  <2>4. QED
    BY <2>1, <2>2, <2>3, JobOfType DEF At, Files
<1>2. CASE job' = job
  <2>1. hurt' \subseteq Names
    BY DEF CheckScripts, CsTypeOK
  <2>2. QED
    BY <1>2, <2>1, IdleJob DEF CsTypeOK
<1>3. CASE job' # job
  <2>1. hurt' = hurt
    BY <1>3 DEF CheckScripts
  <2>2. \E py \in BOOLEAN : job' = JobOf("data", n, m, [ver |-> v, body |-> v, py |-> py])
    <3>1. CASE Script[v] = Nothing
      BY <1>3, <3>1 DEF CheckScripts
    <3>2. CASE Script[v] # Nothing
      <4> DEFINE kept == Whole(n) /\ files[n].py /\ Script[files[n].body] = Script[v]
      <4>1. kept \in BOOLEAN
        OBVIOUS
      <4>2. job' = JobOf("data", n, m, [ver |-> v, body |-> v, py |-> kept])
        BY <1>3, <3>2 DEF CheckScripts
      <4>3. QED
        BY <4>1, <4>2
    <3>3. QED
      BY <3>1, <3>2
  <2>3. QED
    BY <1>1, <2>1, <2>2 DEF CsTypeOK
<1>4. QED
  BY <1>2, <1>3

LEMMA OwnerUploadType ==
    ASSUME CsTypeOK, NEW n \in Names, NEW p \in Passes, NEW v \in Contents,
           OwnerUpload(n, p, v)
    PROVE  CsTypeOK'
<1>1. PICK m \in Names :
        /\ up /\ job.at = "idle"
        /\ LET e == IF Listed(m) THEN cfg.list[m]
                    ELSE [pass |-> p, ver |-> v, downloads |-> 0]
           IN  cfg' = [cfg EXCEPT !.list = [@ EXCEPT ![m] = Nothing,
                                                     ![n] = [e EXCEPT !.ver = v]]]
        /\ CheckScripts(n, m, v)
        /\ UNCHANGED <<up, saved, files, kills, answered, validated>>
  BY DEF OwnerUpload
<1> DEFINE e == IF Listed(m) THEN cfg.list[m] ELSE [pass |-> p, ver |-> v, downloads |-> 0]
<1>2. e \in Entries
  BY EntryType DEF Entries
<1>3. [e EXCEPT !.ver = v] \in Entries
  <2> HIDE DEF e
  <2> QED BY <1>2 DEF Entries
<1>4. cfg' \in Configs
  <2> DEFINE f == [e EXCEPT !.ver = v]
  <2>1. cfg' = [cfg EXCEPT !.list = [cfg.list EXCEPT ![m] = Nothing, ![n] = f]]
    BY <1>1
  <2> HIDE DEF f
  <2>2. f \in Entries
    BY <1>3 DEF f
  <2>3. QED
    BY <2>1, <2>2 DEF CsTypeOK, Configs, Lists
<1> HIDE DEF e
<1>5. QED
  BY <1>1, <1>4, CheckScriptsType DEF CsTypeOK

LEMMA MasterUploadType ==
    ASSUME CsTypeOK, NEW n \in Names, NEW v \in Contents, MasterUpload(n, v)
    PROVE  CsTypeOK'
<1>1. PICK m \in Same(n) :
        /\ up /\ job.at = "idle"
        /\ job' = JobOf("data", m, m, [ver |-> cfg.list[m].ver, body |-> v,
                                       py |-> Script[v] # Nothing])
        /\ validated' = validated \cup ({Script[v]} \ {Nothing})
        /\ UNCHANGED <<up, cfg, saved, files, kills, answered, hurt>>
  BY DEF MasterUpload
<1> DEFINE d == [ver |-> cfg.list[m].ver, body |-> v, py |-> Script[v] # Nothing]
<1>2. m \in Names /\ Listed(m)
  BY DEF Same
<1>3. d \in Data /\ d # Torn
  <2>1. cfg.list[m] \in Entries
    BY <1>2, EntryType
  <2>2. cfg.list[m].ver \in Contents
    BY <2>1 DEF Entries
  <2>3. d \in Data
    BY <2>2 DEF Data
  <2>4. QED
    BY <2>3
<1>4. job' \in Jobs /\ job'.todo = {} /\ job'.data # Torn
  <2> HIDE DEF d
  <2>1. job' = JobOf("data", m, m, d)
    BY <1>1 DEF d
  <2>2. QED
    BY <1>2, <1>3, <2>1, JobOfType DEF At, Files
<1>5. QED
  BY <1>1, <1>4 DEF CsTypeOK

LEMMA ValidateType == ASSUME CsTypeOK, NEW n \in Names, Validate(n) PROVE CsTypeOK'
<1> DEFINE d == [files[n] EXCEPT !.py = TRUE]
<1>1. files[n] \in Data
  BY FileType DEF Validate
<1>2. d \in Data /\ d # Torn
  BY <1>1 DEF Data
<1>3. job' \in Jobs /\ job'.todo = {} /\ job'.data # Torn
  <2>1. job' = JobOf("data", n, Nothing, d)
    BY DEF Validate
  <2> HIDE DEF d
  <2>2. QED
    BY <1>2, <2>1, JobOfType DEF At, Files
<1>4. validated' \subseteq {Script[v] : v \in Contents}
  BY <1>1 DEF CsTypeOK, Validate, Data
<1>5. QED
  BY <1>3, <1>4 DEF CsTypeOK, Validate

LEMMA OpenDataType == CsTypeOK /\ OpenData => CsTypeOK'
<1> SUFFICES ASSUME CsTypeOK, OpenData PROVE CsTypeOK'
  OBVIOUS
<1>1. files' \in [Names -> Files]
  BY DEF CsTypeOK, OpenData, SetFile, Files
<1>2. QED
  BY <1>1, JobGoesOn DEF CsTypeOK, OpenData, At

LEMMA WriteDataType == CsTypeOK /\ WriteData => CsTypeOK'
<1> SUFFICES ASSUME CsTypeOK, WriteData PROVE CsTypeOK'
  OBVIOUS
<1>1. files' \in [Names -> Files]
  BY DEF CsTypeOK, WriteData, SetFile, Jobs
<1>2. job' \in Jobs /\ job'.todo = {} /\ job'.data # Torn
  <2>1. job.todo = {} /\ job.data # Torn
    BY DEF CsTypeOK, WriteData
  <2>2. QED
    BY <2>1, JobType, JobGoesOn DEF WriteData, At
<1>3. QED
  BY <1>1, <1>2 DEF CsTypeOK, WriteData

LEMMA DeleteType ==
    ASSUME CsTypeOK, NEW n \in Names, NEW p \in Passes \cup {Master}, Delete(n, p)
    PROVE  CsTypeOK'
<1>1. files' \in [Names -> Files]
  BY DEF CsTypeOK, Delete, SetFile, Files
<1>2. job' \in Jobs /\ job'.todo = {} /\ job'.data = Nothing
  BY JobOfType DEF Delete, At, Files
<1>3. QED
  BY <1>1, <1>2 DEF CsTypeOK, Delete

LEMMA UnlinkType == CsTypeOK /\ Unlink => CsTypeOK'
<1> SUFFICES ASSUME CsTypeOK, Unlink PROVE CsTypeOK'
  OBVIOUS
<1>1. files' \in [Names -> Files]
  BY DEF CsTypeOK, Unlink, SetFile, Files
<1>2. cfg' \in Configs
  BY DEF CsTypeOK, Unlink, SetEntry, Configs, Lists
<1>3. job.todo = {}
  BY DEF CsTypeOK, Unlink
<1>4. QED
  BY <1>1, <1>2, <1>3, JobGoesOn DEF CsTypeOK, Unlink, At

LEMMA ChangePassphraseType ==
    ASSUME CsTypeOK, NEW n \in Names, NEW p \in Passes, NEW q \in Passes,
           ChangePassphrase(n, p, q)
    PROVE  CsTypeOK'
<1>1. [cfg.list[n] EXCEPT !.pass = q] \in Entries
  BY EntryType DEF ChangePassphrase, Entries
<1>2. cfg' \in Configs
  BY <1>1, SetEntryType DEF ChangePassphrase
<1>3. job' \in Jobs /\ job'.todo = {} /\ job'.data = Nothing
  BY JobOfType DEF ChangePassphrase, At, Files
<1>4. QED
  BY <1>2, <1>3 DEF CsTypeOK, ChangePassphrase

LEMMA DownloadType == ASSUME CsTypeOK, NEW n \in Names, Download(n) PROVE CsTypeOK'
<1>1. [cfg.list[n] EXCEPT !.downloads = @ + 1] \in Entries
  BY EntryType DEF Download, Entries
<1>2. cfg' \in Configs
  BY <1>1, SetEntryType DEF Download
<1>3. QED
  BY <1>2, IdleJob DEF CsTypeOK, Download

LEMMA NextType == CsTypeOK /\ [CsNext]_csVars => CsTypeOK'
<1> SUFFICES ASSUME CsTypeOK, [CsNext]_csVars PROVE CsTypeOK'
  OBVIOUS
<1>1. CASE UNCHANGED csVars
  BY <1>1 DEF CsTypeOK, csVars
<1>2. ASSUME NEW n \in Names, Request(n) PROVE CsTypeOK'
  BY <1>2, OwnerUploadType, MasterUploadType, ValidateType, DeleteType,
     ChangePassphraseType, DownloadType DEF Request
<1>3. QED
  BY <1>1, <1>2, StartType, ConvertType, RenameType, ConvertedType, KillType, ShutDownType,
     SavePeriodicallyType, OpenConfigType, WriteConfigType, OpenDataType, WriteDataType,
     UnlinkType DEF CsNext

\* Types, and what is left over between requests.
THEOREM CsTypeCorrect == CsSpec => []CsTypeOK
<1>1. QED
  BY InitType, NextType, PTL DEF CsSpec

----------------------------------------------------------------------------
(* Spellings. *)

OneSpelling(list) ==
    \A n, m \in Names : list[n] # Nothing /\ list[m] # Nothing /\ Fold[n] = Fold[m] => n = m

LEMMA NoTwinsParts ==
    NoTwins <=> OneSpelling(cfg.list) /\ (saved # Torn => OneSpelling(saved.list))
BY DEF NoTwins, OneSpelling

LEMMA NoneIsOneSpelling == OneSpelling(NoConfig.list)
BY DEF OneSpelling, NoConfig, NoAddons

\* A list that gains no name keeps its spellings apart.
LEMMA NoNewName ==
    ASSUME OneSpelling(cfg.list),
           \A n \in Names : cfg'.list[n] # Nothing => cfg.list[n] # Nothing
    PROVE  OneSpelling(cfg'.list)
BY DEF OneSpelling

LEMMA InitSpelling == CsInit => NoTwins
<1> SUFFICES ASSUME CsInit PROVE NoTwins
  OBVIOUS
<1>1. PICK n \in Names, e \in Entries, old \in BOOLEAN :
        saved.list = IF old THEN [NoAddons EXCEPT ![n] = e] ELSE NoAddons
  <2>1. PICK n \in Names, p \in Passes, v \in Contents, old \in BOOLEAN :
          LET e == [pass |-> p, ver |-> v, downloads |-> 0]
          IN  saved = [list |-> IF old THEN [NoAddons EXCEPT ![n] = e] ELSE NoAddons,
                       encoded |-> ~ old]
    BY DEF CsInit
  <2>2. [pass |-> p, ver |-> v, downloads |-> 0] \in Entries
    BY DEF Entries
  <2>3. QED
    BY <2>1, <2>2
<1>2. OneSpelling(saved.list)
  BY <1>1 DEF OneSpelling, NoAddons
<1>3. cfg = NoConfig
  BY DEF CsInit
<1>4. QED
  BY <1>2, <1>3, NoneIsOneSpelling, NoTwinsParts

\* The new spelling takes the place of the only one there was.
LEMMA OwnerUploadSpelling ==
    ASSUME CsTypeOK, OneSpelling(cfg.list),
           NEW n \in Names, NEW p \in Passes, NEW v \in Contents, OwnerUpload(n, p, v)
    PROVE  OneSpelling(cfg'.list)
<1>1. PICK m \in Names, f \in {[e EXCEPT !.ver = v] : e \in Entries} :
        /\ IF Same(n) = {} THEN m = n ELSE m \in Same(n)
        /\ cfg' = [cfg EXCEPT !.list = [cfg.list EXCEPT ![m] = Nothing, ![n] = f]]
  <2>1. PICK m \in Names :
          /\ IF Same(n) = {} THEN m = n ELSE m \in Same(n)
          /\ LET e == IF Listed(m) THEN cfg.list[m]
                      ELSE [pass |-> p, ver |-> v, downloads |-> 0]
             IN  cfg' = [cfg EXCEPT !.list = [cfg.list EXCEPT ![m] = Nothing,
                                                       ![n] = [e EXCEPT !.ver = v]]]
    BY DEF OwnerUpload
  <2> DEFINE e == IF Listed(m) THEN cfg.list[m]
                  ELSE [pass |-> p, ver |-> v, downloads |-> 0]
  <2>2. e \in Entries
    BY EntryType DEF Entries
  <2>3. cfg' = [cfg EXCEPT !.list = [cfg.list EXCEPT ![m] = Nothing,
                                                     ![n] = [e EXCEPT !.ver = v]]]
    BY <2>1
  <2> HIDE DEF e
  <2>4. QED
    BY <2>1, <2>2, <2>3
<1>2. cfg'.list = [cfg.list EXCEPT ![m] = Nothing, ![n] = f]
  BY <1>1 DEF CsTypeOK, Configs
<1>3. ASSUME NEW x \in Names, cfg'.list[x] # Nothing, x # n
      PROVE  cfg.list[x] # Nothing /\ Fold[x] # Fold[n]
  <2>1. cfg.list[x] # Nothing /\ x # m
    BY <1>2, <1>3 DEF CsTypeOK, Configs, Lists
  <2>2. ASSUME Fold[x] = Fold[n] PROVE FALSE
    <3>1. x \in Same(n)
      BY <2>1, <2>2 DEF Same, Listed
    <3>2. m \in Same(n)
      BY <1>1, <3>1
    <3>3. x = m
      BY <3>1, <3>2 DEF Same, Listed, OneSpelling
    <3>4. QED
      BY <2>1, <3>3
  <2>3. QED
    BY <2>1, <2>2
<1>4. QED
  BY <1>3 DEF OneSpelling

LEMMA NextSpelling == CsTypeOK /\ NoTwins /\ [CsNext]_csVars => NoTwins'
<1> SUFFICES ASSUME CsTypeOK, NoTwins, [CsNext]_csVars PROVE NoTwins'
  OBVIOUS
<1> USE NoTwinsParts
<1>1. ASSUME UNCHANGED saved, OneSpelling(cfg'.list) PROVE NoTwins'
  BY <1>1 DEF NoTwins, OneSpelling
<1>2. ASSUME UNCHANGED <<cfg, saved>> PROVE NoTwins'
  BY <1>2 DEF NoTwins
<1>3. CASE Start
  BY <1>1, <1>3, NoneIsOneSpelling DEF Start
<1>4. CASE Converted
  BY <1>1, <1>4, NoNewName DEF Converted, CsTypeOK, Configs
<1>5. CASE Kill
  BY <1>1, <1>5, NoneIsOneSpelling DEF Kill
<1>6. CASE OpenConfig
  BY <1>6 DEF OpenConfig, NoTwins
<1>7. CASE WriteConfig
  <2>1. saved' = cfg /\ cfg' \in {cfg, NoConfig}
    BY <1>7 DEF WriteConfig
  <2>2. OneSpelling(cfg'.list) /\ OneSpelling(saved'.list)
    BY <2>1, NoneIsOneSpelling
  <2>3. QED
    BY <2>2 DEF NoTwins, OneSpelling
<1>8. CASE Unlink
  <2>1. cfg'.list = [cfg.list EXCEPT ![job.name] = Nothing]
    BY <1>8 DEF Unlink, SetEntry, CsTypeOK, Configs
  <2>2. \A n \in Names : cfg'.list[n] # Nothing => cfg.list[n] # Nothing
    BY <2>1 DEF CsTypeOK, Configs, Lists
  <2>3. QED
    BY <1>1, <1>8, <2>2, NoNewName DEF Unlink
<1>9. ASSUME NEW n \in Names, Request(n) PROVE NoTwins'
  <2>1. ASSUME NEW e \in Entries, SetEntry(n, e), Listed(n), UNCHANGED saved PROVE NoTwins'
    <3>1. cfg'.list = [cfg.list EXCEPT ![n] = e]
      BY <2>1, SetEntryType
    <3>2. \A x \in Names : cfg'.list[x] # Nothing => cfg.list[x] # Nothing
      BY <2>1, <3>1 DEF CsTypeOK, Configs, Lists, Listed
    <3>3. QED
      BY <1>1, <2>1, <3>2, NoNewName
  <2>2. ASSUME NEW p \in Passes, NEW v \in Contents, OwnerUpload(n, p, v) PROVE NoTwins'
    BY <1>1, <2>2, OwnerUploadSpelling DEF OwnerUpload
  <2>3. ASSUME NEW v \in Contents, MasterUpload(n, v) PROVE NoTwins'
    BY <1>2, <2>3 DEF MasterUpload
  <2>4. CASE Validate(n)
    BY <1>2, <2>4 DEF Validate
  <2>5. ASSUME NEW p \in Passes \cup {Master}, Delete(n, p) PROVE NoTwins'
    BY <1>2, <2>5 DEF Delete
  <2>6. ASSUME NEW p \in Passes, NEW q \in Passes, ChangePassphrase(n, p, q) PROVE NoTwins'
    <3>1. [cfg.list[n] EXCEPT !.pass = q] \in Entries
      BY <2>6, EntryType DEF ChangePassphrase, Entries
    <3>2. QED
      BY <2>1, <2>6, <3>1 DEF ChangePassphrase
  <2>7. CASE Download(n)
    <3>1. [cfg.list[n] EXCEPT !.downloads = @ + 1] \in Entries
      BY <2>7, EntryType DEF Download, Entries
    <3>2. QED
      BY <2>1, <2>7, <3>1 DEF Download
  <2>8. QED
    BY <1>9, <2>2, <2>3, <2>4, <2>5, <2>6, <2>7 DEF Request
<1>10. QED
  BY <1>2, <1>3, <1>4, <1>5, <1>6, <1>7, <1>8, <1>9
     DEF CsNext, csVars, ShutDown, SavePeriodically, Rename, Convert, OpenData, WriteData

\* Two spellings of one name are never both in the list, in memory or on disk, for
\* any names and any function that folds them, wherever the daemon is killed.
THEOREM NoTwinsAlways == CsSpec => []NoTwins
<1>1. QED
  BY InitType, NextType, InitSpelling, NextSpelling, PTL DEF CsSpec

----------------------------------------------------------------------------
(* Scripts. *)

\* A file, or what is about to be one, has no script that was not let in.
LetIn(d) == d \notin {Nothing, Torn} /\ d.py => Script[d.body] \in validated

\* What is in hand counts too: it becomes a file.
ScriptInv == (\A n \in Names : LetIn(files[n])) /\ LetIn(job.data)

\* A step that writes only what was let in, or was in hand.
LEMMA WritesLetIn ==
    ASSUME ScriptInv, CsTypeOK, validated \subseteq validated',
           \A n \in Names : files'[n] \in {files[n], job.data, Nothing, Torn},
           job'.data \in {job.data, Nothing, Torn} \cup {files[n] : n \in Names}
    PROVE  ScriptInv'
BY DEF ScriptInv, LetIn

LEMMA NextScripts == CsTypeOK /\ ScriptInv /\ [CsNext]_csVars => ScriptInv'
<1> SUFFICES ASSUME CsTypeOK, ScriptInv, [CsNext]_csVars PROVE ScriptInv'
  OBVIOUS
<1>1. ASSUME UNCHANGED <<files, validated>>, job'.data \in {job.data, Nothing} PROVE ScriptInv'
  BY <1>1, WritesLetIn
<1>2. ASSUME NEW f \in Names \cup {Nothing}, NEW d \in {job.data, Nothing, Torn},
             files' = [files EXCEPT ![f] = d], UNCHANGED validated,
             job'.data \in {job.data, Nothing, Torn} \cup {files[n] : n \in Names}
      PROVE  ScriptInv'
  <2>1. \A n \in Names : files'[n] \in {files[n], d}
    BY <1>2 DEF CsTypeOK
  <2>2. QED
    BY <1>2, <2>1, WritesLetIn
<1>3. ASSUME NEW n \in Names, NEW m \in Names \cup {Nothing}, NEW d \in Data,
             d.py => Script[d.body] \in validated', UNCHANGED files, validated \subseteq validated', job' = JobOf("data", n, m, d)
      PROVE  ScriptInv'
  <2>1. job'.data = d
    BY <1>3, JobOfType DEF At, Files
  <2>2. QED
    BY <1>3, <2>1 DEF ScriptInv, LetIn
<1>4. /\ job.name \in Names \cup {Nothing}
      /\ [job EXCEPT !.at = "save"].data = job.data
      /\ [job EXCEPT !.at = "saving"].data = job.data
      /\ [job EXCEPT !.at = "writing"].data = job.data
  BY DEF CsTypeOK, Jobs
<1>5. /\ \A at \in At : Job(at).data = Nothing
      /\ [Job("save") EXCEPT !.last = TRUE].data = Nothing
      /\ \A td : [Job("convert") EXCEPT !.todo = td].data = Nothing
  BY DEF Job
<1>6. CASE Start \/ Converted \/ Kill \/ ShutDown \/ SavePeriodically \/ OpenConfig \/ WriteConfig
  BY <1>1, <1>4, <1>5, <1>6
     DEF Start, Converted, Kill, ShutDown, SavePeriodically, OpenConfig, WriteConfig, At
<1>7. ASSUME NEW n \in Names, Convert(n) PROVE ScriptInv'
  <2>1. job'.data = IF Whole(n) THEN files[n] ELSE Torn
    BY <1>7 DEF Convert, CsTypeOK, Jobs
  <2>2. files' = [files EXCEPT ![n] = Nothing] /\ UNCHANGED validated
    BY <1>7 DEF Convert, SetFile
  <2>3. job'.data \in {job.data, Nothing, Torn} \cup {files[m] : m \in Names}
    BY <2>1
  <2> QED
    BY <1>2, <2>2, <2>3
<1>8. CASE Rename
  BY <1>2, <1>4, <1>5, <1>8 DEF Rename, SetFile
<1>9. CASE OpenData
  BY <1>2, <1>4, <1>9 DEF OpenData, SetFile
<1>10. CASE WriteData
  BY <1>2, <1>4, <1>5, <1>10 DEF WriteData, SetFile, At
<1>11. CASE Unlink
  BY <1>2, <1>4, <1>11 DEF Unlink, SetFile
<1>12. ASSUME NEW n \in Names, NEW p \in Passes, NEW v \in Contents, OwnerUpload(n, p, v)
       PROVE  ScriptInv'
  <2>1. PICK m \in Names : CheckScripts(n, m, v)
    BY <1>12 DEF OwnerUpload
  <2>2. UNCHANGED <<files, validated>>
    BY <1>12 DEF OwnerUpload
  <2>3. CASE job' = job
    BY <1>1, <2>2, <2>3
  <2>4. CASE job' # job
    <3> DEFINE kept == Whole(n) /\ files[n].py /\ Script[files[n].body] = Script[v]
               d(py) == [ver |-> v, body |-> v, py |-> py]
    <3>1. PICK py \in BOOLEAN : job' = JobOf("data", n, m, d(py)) /\ (py => kept)
      <4>1. kept \in BOOLEAN
        OBVIOUS
      <4>2. CASE Script[v] = Nothing
        BY <2>1, <2>4, <4>2 DEF CheckScripts
      <4>3. CASE Script[v] # Nothing
        BY <2>1, <2>4, <4>1, <4>3 DEF CheckScripts
      <4>4. QED
        BY <4>2, <4>3
    <3>2. d(py) \in Data /\ d(py).py = py /\ d(py).body = v
      BY DEF Data
    <3>3. kept => Script[v] \in validated
      BY DEF ScriptInv, LetIn, Whole
    <3> HIDE DEF kept, d
    <3>4. d(py).py => Script[d(py).body] \in validated'
      BY <2>2, <3>1, <3>2, <3>3
    <3>5. QED
      BY <1>3, <2>2, <3>1, <3>2, <3>4
  <2>5. QED
    BY <2>3, <2>4
<1>13. ASSUME NEW n \in Names, NEW v \in Contents, MasterUpload(n, v) PROVE ScriptInv'
  <2>1. PICK m \in Same(n) :
          /\ job' = JobOf("data", m, m, [ver |-> cfg.list[m].ver, body |-> v,
                                         py |-> Script[v] # Nothing])
          /\ validated' = validated \cup ({Script[v]} \ {Nothing})
          /\ UNCHANGED files
    BY <1>13 DEF MasterUpload
  <2> DEFINE d == [ver |-> cfg.list[m].ver, body |-> v, py |-> Script[v] # Nothing]
  <2>2. m \in Names /\ cfg.list[m] \in Entries
    BY EntryType DEF Same
  <2>3. cfg.list[m].ver \in Contents
    BY <2>2 DEF Entries
  <2>4. d \in Data /\ d.body = v /\ d.py = (Script[v] # Nothing)
    BY <2>3 DEF Data
  <2> HIDE DEF d
  <2>5. d.py => Script[d.body] \in validated'
    BY <2>1, <2>4
  <2>6. job' = JobOf("data", m, m, d)
    BY <2>1 DEF d
  <2>7. QED
    BY <1>3, <2>1, <2>2, <2>4, <2>5, <2>6
<1>14. ASSUME NEW n \in Names, Validate(n) PROVE ScriptInv'
  <2> DEFINE d == [files[n] EXCEPT !.py = TRUE]
  <2>1. files[n] \in Data
    BY <1>14, FileType DEF Validate
  <2>2. d \in Data /\ d.body = files[n].body
    BY <2>1 DEF Data
  <2>3. job' = JobOf("data", n, Nothing, d) /\ UNCHANGED files
    BY <1>14 DEF Validate
  <2> HIDE DEF d
  <2>4. Script[d.body] \in validated' /\ validated \subseteq validated'
    BY <1>14, <2>2 DEF Validate
  <2>5. QED
    BY <1>3, <2>2, <2>3, <2>4
<1>15. ASSUME NEW n \in Names, NEW p \in Passes \cup {Master}, Delete(n, p) PROVE ScriptInv'
  <2>1. job'.data = Nothing
    BY <1>15, JobOfType DEF Delete, At, Files
  <2>2. QED
    BY <1>2, <1>15, <2>1 DEF Delete, SetFile
<1>16. ASSUME NEW n \in Names, NEW p \in Passes, NEW q \in Passes, ChangePassphrase(n, p, q)
       PROVE  ScriptInv'
  <2>1. job'.data = Nothing
    BY <1>16, JobOfType DEF ChangePassphrase, At, Files
  <2>2. QED
    BY <1>1, <1>16, <2>1 DEF ChangePassphrase
<1>17. ASSUME NEW n \in Names, Download(n) PROVE ScriptInv'
  BY <1>1, <1>17 DEF Download
<1>18. CASE UNCHANGED csVars
  BY <1>1, <1>18 DEF csVars
<1>19. QED
  BY <1>6, <1>7, <1>8, <1>9, <1>10, <1>11, <1>12, <1>13, <1>14, <1>15, <1>16, <1>17, <1>18
     DEF CsNext, Request

LEMMA InitScripts == CsInit => ScriptInv
<1> SUFFICES ASSUME CsInit PROVE ScriptInv
  OBVIOUS
<1>1. \A n \in Names : files[n] = Nothing \/ files[n].py = FALSE
  BY DEF CsInit
<1>2. job.data = Nothing
  BY JobType DEF CsInit, At
<1>3. QED
  BY <1>1, <1>2 DEF ScriptInv, LetIn

\* Only the administrator lets a script in, for any names, contents and scripts,
\* any renaming, replacing and deleting, and wherever the daemon is killed.
THEOREM ScriptsWereValidatedAlways == CsSpec => []ScriptsWereValidated
<1>1. CsTypeOK /\ ScriptInv => ScriptsWereValidated
  BY DEF ScriptInv, LetIn, ScriptsWereValidated, Whole
<1>2. QED
  BY <1>1, InitType, NextType, InitScripts, NextScripts, PTL DEF CsSpec

----------------------------------------------------------------------------
(* Damage. *)

\* A file is rewritten (validation, conversion), an upload changes the list and
\* the file, or an entry changes and the file at most goes (the rest).
Rewrites == job.from = Nothing /\ job.name # Nothing
Uploads == job.from # Nothing /\ job.data # Nothing
Edits == job.from # Nothing /\ job.data = Nothing

\* What each point of a request tells of what is in hand.
JobShape ==
    /\ up \/ job.at = "idle"
    /\ job.at \in {"idle", "convert"} =>
          job.name = Nothing /\ job.from = Nothing /\ job.data = Nothing
    /\ job.at \in {"data", "writing"} => job.data # Nothing
    /\ job.at = "rename" => Rewrites
    /\ job.data # Nothing => job.name # Nothing
    /\ Rewrites => job.at \in {"data", "writing", "rename"}
    /\ Uploads => job.at \in {"data", "writing", "save", "saving"}
    /\ Edits => job.at \in {"unlink", "save", "saving"} /\ job.name = job.from

LEMMA NothingInHand ==
    ASSUME job'.name = Nothing, job'.from = Nothing, job'.data = Nothing,
           job'.at \in {"idle", "convert", "save"}, up' \/ job'.at = "idle"
    PROVE  JobShape'
BY DEF JobShape, Rewrites, Uploads, Edits

LEMMA StartsNone == Start => /\ job'.name = Nothing /\ job'.from = Nothing /\ job'.data = Nothing
                             /\ job'.at \in {"convert", "save"}
BY DEF Start, Job

LEMMA RenamesNone == Rename => /\ job'.name = Nothing /\ job'.from = Nothing
                               /\ job'.data = Nothing /\ job'.at = "convert"
BY DEF Rename, Job

LEMMA ShutDownNone == ShutDown => /\ job'.name = Nothing /\ job'.from = Nothing
                                  /\ job'.data = Nothing /\ job'.at = "save"
BY DEF ShutDown, Job

LEMMA ConvertsOne ==
    ASSUME CsTypeOK, NEW n \in Names, Convert(n)
    PROVE  /\ job'.at = "rename" /\ job'.name = n /\ job'.from = job.from
           /\ job'.data = IF Whole(n) THEN files[n] ELSE Torn
BY DEF Convert, CsTypeOK, Jobs

\* The scripts are checked: the upload is written next, or the request ends.
LEMMA CheckScriptsJob ==
    ASSUME CsTypeOK, job.at = "idle", NEW n \in Names, NEW m \in Names, NEW v \in Contents,
           CheckScripts(n, m, v)
    PROVE  \/ job' = job /\ hurt' = hurt \cup {n, m}
           \/ /\ job'.at = "data" /\ job'.name = n /\ job'.from = m /\ hurt' = hurt
              /\ job'.data \in Data /\ job'.data.ver = v /\ job'.data.body = v
<1>1. ASSUME NEW py \in BOOLEAN,
             job' = JobOf("data", n, m, [ver |-> v, body |-> v, py |-> py])
      PROVE  /\ job'.at = "data" /\ job'.name = n /\ job'.from = m
             /\ job'.data \in Data /\ job'.data.ver = v /\ job'.data.body = v
  <2> DEFINE d == [ver |-> v, body |-> v, py |-> py]
  <2>1. d \in Data /\ d.ver = v /\ d.body = v
    BY DEF Data
  <2> HIDE DEF d
  <2>2. job' = JobOf("data", n, m, d)
    BY <1>1 DEF d
  <2> QED
    BY <2>1, <2>2, JobOfType DEF At, Files
<1> DEFINE kept == Whole(n) /\ files[n].py /\ Script[files[n].body] = Script[v]
<1>2. kept \in BOOLEAN
  OBVIOUS
<1>3. \/ job' = job /\ hurt' = hurt \cup {n, m}
      \/ /\ hurt' = hurt
         /\ \E py \in BOOLEAN : job' = JobOf("data", n, m, [ver |-> v, body |-> v, py |-> py])
  BY <1>2 DEF CheckScripts
<1> QED
  BY <1>1, <1>3

LEMMA MasterUploadJob ==
    ASSUME CsTypeOK, NEW n \in Names, NEW v \in Contents, MasterUpload(n, v)
    PROVE  \E m \in Names :
              /\ job.at = "idle" /\ Listed(m)
              /\ job'.at = "data" /\ job'.name = m /\ job'.from = m
              /\ job'.data \in Data /\ job'.data.ver = cfg.list[m].ver
<1>1. PICK m \in Same(n) :
        /\ job.at = "idle"
        /\ job' = JobOf("data", m, m, [ver |-> cfg.list[m].ver, body |-> v,
                                       py |-> Script[v] # Nothing])
  BY DEF MasterUpload
<1> DEFINE d == [ver |-> cfg.list[m].ver, body |-> v, py |-> Script[v] # Nothing]
<1>2. m \in Names /\ Listed(m) /\ cfg.list[m] \in Entries
  BY EntryType DEF Same
<1>3. d \in Data /\ d.ver = cfg.list[m].ver
  <2>1. cfg.list[m].ver \in Contents
    BY <1>2 DEF Entries
  <2> QED
    BY <2>1 DEF Data
<1> HIDE DEF d
<1>4. job' = JobOf("data", m, m, d)
  BY <1>1 DEF d
<1>5. "data" \in At /\ d \in Files /\ m \in Names \cup {Nothing}
  BY <1>2, <1>3 DEF At, Files
<1>6. job'.at = "data" /\ job'.name = m /\ job'.from = m /\ job'.data = d
  BY <1>4, <1>5, JobOfType
<1> QED
  BY <1>1, <1>2, <1>3, <1>6

LEMMA ValidateJob ==
    ASSUME CsTypeOK, NEW n \in Names, Validate(n)
    PROVE  /\ job'.at = "data" /\ job'.name = n /\ job'.from = Nothing
           /\ job'.data \in Data
           /\ job'.data.ver = files[n].ver /\ job'.data.body = files[n].body
<1> DEFINE d == [files[n] EXCEPT !.py = TRUE]
<1>1. files[n] \in Data
  BY FileType DEF Validate
<1>2. d \in Data /\ d.ver = files[n].ver /\ d.body = files[n].body
  BY <1>1 DEF Data
<1>3. job' = JobOf("data", n, Nothing, d)
  BY DEF Validate
<1> HIDE DEF d
<1> QED
  BY <1>2, <1>3, JobOfType DEF At, Files

LEMMA NextShape == CsTypeOK /\ JobShape /\ [CsNext]_csVars => JobShape'
<1> SUFFICES ASSUME CsTypeOK, JobShape, [CsNext]_csVars PROVE JobShape'
  OBVIOUS
<1>1. ASSUME UNCHANGED <<up, job>> PROVE JobShape'
  BY <1>1 DEF JobShape, Rewrites, Uploads, Edits
<1>2. CASE Start \/ Rename \/ ShutDown
  BY <1>2, StartsNone, RenamesNone, ShutDownNone, NothingInHand DEF Start, Rename, ShutDown
<1>3. CASE Converted \/ Kill \/ SavePeriodically \/ WriteConfig
  BY <1>3, JobType, NothingInHand DEF Converted, Kill, SavePeriodically, WriteConfig, At
<1>4. CASE OpenConfig
  BY <1>4, JobGoesOn DEF OpenConfig, At, JobShape, Rewrites, Uploads, Edits
<1>5. CASE OpenData
  BY <1>5, JobGoesOn DEF OpenData, At, JobShape, Rewrites, Uploads, Edits
<1>6. CASE WriteData
  <2>1. CASE job.from = Nothing
    BY <1>6, <2>1, JobType, NothingInHand DEF WriteData, At
  <2>2. CASE job.from # Nothing
    <3>1. job' = [job EXCEPT !.at = "save"] /\ job.at = "writing" /\ up'
      BY <1>6, <2>2 DEF WriteData
    <3> QED
      BY <2>2, <3>1, JobGoesOn DEF At, JobShape, Rewrites, Uploads, Edits
  <2> QED
    BY <2>1, <2>2
<1>7. CASE Unlink
  BY <1>7, JobGoesOn DEF Unlink, At, JobShape, Rewrites, Uploads, Edits
<1>8. ASSUME NEW n \in Names, Convert(n) PROVE JobShape'
  BY <1>8, ConvertsOne DEF Convert, JobShape, Rewrites, Uploads, Edits
<1>9. ASSUME NEW n \in Names, NEW p \in Passes, NEW v \in Contents, OwnerUpload(n, p, v)
      PROVE  JobShape'
  <2>1. PICK m \in Names : CheckScripts(n, m, v) /\ job.at = "idle" /\ up /\ up'
    BY <1>9 DEF OwnerUpload
  <2> QED
    BY <1>1, <2>1, CheckScriptsJob DEF JobShape, Rewrites, Uploads, Edits
<1>10. ASSUME NEW n \in Names, NEW v \in Contents, MasterUpload(n, v) PROVE JobShape'
  <2>1. up'
    BY <1>10 DEF MasterUpload
  <2> QED
    BY <1>10, <2>1, MasterUploadJob DEF JobShape, Rewrites, Uploads, Edits
<1>11. ASSUME NEW n \in Names, Validate(n) PROVE JobShape'
  <2>1. up'
    BY <1>11 DEF Validate
  <2> QED
    BY <1>11, <2>1, ValidateJob DEF JobShape, Rewrites, Uploads, Edits
<1>12. ASSUME NEW n \in Names, NEW p \in Passes \cup {Master}, Delete(n, p) PROVE JobShape'
  BY <1>12, JobOfType DEF Delete, At, Files, JobShape, Rewrites, Uploads, Edits
<1>13. ASSUME NEW n \in Names, NEW p \in Passes, NEW q \in Passes, ChangePassphrase(n, p, q)
       PROVE  JobShape'
  BY <1>13, JobOfType DEF ChangePassphrase, At, Files, JobShape, Rewrites, Uploads, Edits
<1>14. CASE UNCHANGED csVars \/ \E n \in Names : Download(n)
  BY <1>1, <1>14 DEF csVars, Download
<1> QED
  BY <1>2, <1>3, <1>4, <1>5, <1>6, <1>7, <1>8, <1>9, <1>10, <1>11, <1>12, <1>13, <1>14
     DEF CsNext, Request

LEMMA InitShape == CsInit => JobShape
BY JobType DEF CsInit, At, JobShape, Rewrites, Uploads, Edits

\* A list, and a file, that are as the author was last told.
Told(list, n) == Promise(list[n], answered[n].body) = answered[n]
Holds(d, n) == answered[n].ver # Nothing =>
                  d \notin {Nothing, Torn} /\ d.ver = answered[n].ver /\ d.body = answered[n].body

ListsTell(n) == (up => Told(cfg.list, n)) /\ (saved # Torn => Told(saved.list, n))
Intact(n) == ListsTell(n) /\ Holds(files[n], n)

\* What the end of the request in hand will make of its add-on.
InHand ==
    /\ Rewrites /\ job.name \notin hurt => ListsTell(job.name) /\ Holds(job.data, job.name)
    /\ Uploads => /\ Listed(job.name) /\ cfg.list[job.name].ver = job.data.ver
                  /\ job.from # job.name => ~ Listed(job.from)
                  /\ job.at \in {"save", "saving"} => files[job.name] = job.data
    /\ Edits /\ job.at # "unlink" /\ Listed(job.name) /\ job.name \notin hurt =>
          /\ Whole(job.name) /\ files[job.name].ver = cfg.list[job.name].ver
          /\ files[job.name].body = answered[job.name].body

\* The strengthening of DamageConfined: the list's file is cut only while it is
\* written, or all add-ons were hurt by a kill at that moment.
Confined ==
    /\ saved = Torn => hurt = Names \/ (up /\ job.at = "saving")
    /\ \A n \in Names \ (hurt \cup {job.name, job.from}) : Intact(n)
    /\ InHand

LEMMA PromiseIs ==
    ASSUME NEW e \in Entries \cup {Nothing}, NEW b
    PROVE  /\ e = Nothing => Promise(e, b).ver = Nothing
           /\ e # Nothing => /\ Promise(e, b).ver = e.ver /\ e.ver # Nothing
                             /\ Promise(e, b).body = b
           /\ Promise(e, Promise(e, b).body) = Promise(e, b)
<1>1. e # Nothing => e.ver # Nothing
  BY DEF Entries
<1> QED
  BY <1>1 DEF Promise

\* What is listed as told has the version that was told.
LEMMA ToldIs ==
    ASSUME NEW list \in Lists, NEW n \in Names, Told(list, n)
    PROVE  /\ list[n] = Nothing => answered[n].ver = Nothing
           /\ list[n] # Nothing => answered[n].ver = list[n].ver /\ answered[n].ver # Nothing
<1>1. list[n] \in Entries \cup {Nothing}
  BY DEF Lists
<1> QED
  BY <1>1, PromiseIs DEF Told

LEMMA ListTypes ==
    ASSUME CsTypeOK
    PROVE  cfg.list \in Lists /\ (saved # Torn => saved.list \in Lists)
BY DEF CsTypeOK, Configs

\* An add-on that no step touches.
LEMMA StaysIntact ==
    ASSUME Confined, NEW n \in Names, n \notin hurt \cup {job.name, job.from},
           answered'[n] = answered[n], files'[n] = files[n],
           up' => up /\ Promise(cfg'.list[n], answered[n].body) = Promise(cfg.list[n], answered[n].body),
           saved' \in {saved, Torn}
    PROVE  Intact(n)'
<1>1. Intact(n)
  BY DEF Confined
<1>2. Told(cfg.list, n)' <=> Promise(cfg'.list[n], answered'[n].body) = answered'[n]
  BY DEF Told
<1>3. Told(saved.list, n)' <=> Promise(saved'.list[n], answered'[n].body) = answered'[n]
  BY DEF Told
<1>4. ListsTell(n)'
  BY <1>1, <1>2, <1>3 DEF Intact, ListsTell, Told
<1>5. Holds(files[n], n)'
  BY <1>1 DEF Intact, Holds
<1> QED
  BY <1>4, <1>5 DEF Intact

\* Between requests, and between conversions, whatever was not hurt is intact.
LEMMA IdleIntact ==
    ASSUME Confined, JobShape, job.at \in {"idle", "convert"}, NEW n \in Names, n \notin hurt
    PROVE  n \notin hurt \cup {job.name, job.from} /\ Intact(n)
BY DEF Confined, JobShape

\* Nothing is in hand after the step.
LEMMA NoneInHand == ASSUME job'.name = Nothing, job'.from = Nothing
                    PROVE  InHand'
BY DEF InHand, Rewrites, Uploads, Edits

LEMMA InitConfined == CsInit => Confined
<1> SUFFICES ASSUME CsInit PROVE Confined
  OBVIOUS
<1>0. CsTypeOK /\ InHand /\ ~ up /\ hurt = {}
  BY InitType, JobType DEF CsInit, At, InHand, Rewrites, Uploads, Edits
<1>1. PICK n \in Names, p \in Passes, v \in Contents, old \in BOOLEAN :
        LET e == [pass |-> p, ver |-> v, downloads |-> 0]
        IN  /\ saved = [list |-> IF old THEN [NoAddons EXCEPT ![n] = e] ELSE NoAddons,
                        encoded |-> ~ old]
            /\ files = [m \in Names |-> IF old /\ m = n
                                           THEN [ver |-> v, body |-> v, py |-> FALSE]
                                           ELSE Nothing]
            /\ answered = [m \in Names |-> Promise(saved.list[m], v)]
  BY DEF CsInit
<1>2. saved \in Configs
  <2>1. [pass |-> p, ver |-> v, downloads |-> 0] \in Entries
    BY DEF Entries
  <2>2. saved.list \in Lists
    BY <1>1, <2>1, NoListType DEF Lists
  <2> QED
    BY <1>1, <2>2 DEF Configs
<1>3. saved # Torn
  BY <1>2
<1>4. ASSUME NEW m \in Names PROVE Intact(m)
  <2>1. saved.list[m] \in Entries \cup {Nothing} /\ answered[m] = Promise(saved.list[m], v)
    BY <1>1, <1>2 DEF Configs, Lists
  <2>2. Told(saved.list, m)
    BY <2>1, PromiseIs DEF Told
  <2>3. Holds(files[m], m)
    <3>1. CASE old /\ m = n
      <4> DEFINE d == [ver |-> v, body |-> v, py |-> FALSE]
                 e == [pass |-> p, ver |-> v, downloads |-> 0]
      <4>1. d \in Data
        BY DEF Data
      <4>2. files[m] = d /\ d \notin {Nothing, Torn}
        BY <1>1, <3>1, <4>1
      <4>3. e \in Entries /\ saved.list[m] = e
        BY <1>1, <3>1 DEF Entries, NoAddons
      <4>4. answered[m].ver = v /\ answered[m].body = v
        <5>1. e.ver = v /\ e # Nothing
          BY <4>3
        <5> QED
          BY <2>1, <4>3, <5>1, PromiseIs
      <4> QED
        BY <4>2, <4>4 DEF Holds
    <3>2. CASE ~ (old /\ m = n)
      <4>1. saved.list[m] = Nothing
        BY <1>1, <3>2 DEF NoAddons
      <4> QED
        BY <2>1, <4>1, PromiseIs DEF Holds
    <3> QED
      BY <3>1, <3>2
  <2> QED
    BY <1>0, <2>2, <2>3 DEF Intact, ListsTell
<1> QED
  BY <1>0, <1>3, <1>4 DEF Confined

\* A start reads the list as it was saved.
LEMMA StartConfined == ASSUME JobShape, Confined, Start PROVE Confined'
<1>1. ~ up /\ UNCHANGED <<saved, files, answered, hurt>> /\ cfg' = IF saved = Torn THEN NoConfig ELSE saved
  BY DEF Start
<1>2. job'.name = Nothing /\ job'.from = Nothing /\ InHand'
  BY StartsNone, NoneInHand
<1>3. saved = Torn => hurt = Names
  BY <1>1 DEF Confined
<1>4. ASSUME NEW n \in Names, n \notin hurt PROVE Intact(n)'
  <2>1. saved # Torn /\ cfg' = saved
    BY <1>1, <1>3, <1>4
  <2>2. Told(saved.list, n) /\ Holds(files[n], n)
    <3>1. job.at \in {"idle", "convert"}
      BY <1>1 DEF JobShape
    <3> QED
      BY <1>4, <2>1, <3>1, IdleIntact DEF Intact, ListsTell
  <2> QED
    BY <1>1, <2>1, <2>2 DEF Intact, ListsTell, Told, Holds
<1> QED
  BY <1>1, <1>2, <1>3, <1>4 DEF Confined

\* A file is converted: it goes, and the copy takes its place.
LEMMA ConvertConfined ==
    ASSUME CsTypeOK, JobShape, Confined, NEW n \in Names, Convert(n)
    PROVE  Confined'
<1>1. /\ job.at = "convert" /\ up /\ files' = [files EXCEPT ![n] = Nothing]
      /\ UNCHANGED <<up, cfg, saved, answered, hurt>>
  BY DEF Convert, SetFile
<1>2. /\ job'.at = "rename" /\ job'.name = n /\ job'.from = Nothing
      /\ job'.data = IF Whole(n) THEN files[n] ELSE Torn
  BY <1>1, ConvertsOne DEF JobShape
<1>3. \A m \in Names \ {n} : files'[m] = files[m]
  BY <1>1 DEF CsTypeOK
<1>4. ASSUME NEW m \in Names, m \notin hurt \cup {n} PROVE Intact(m)'
  BY <1>1, <1>3, <1>4, IdleIntact, StaysIntact
<1>5. ASSUME n \notin hurt PROVE ListsTell(n)' /\ Holds(job.data, n)'
  <2>1. Intact(n)
    BY <1>1, <1>5, IdleIntact
  <2> QED
    BY <1>1, <1>2, <2>1 DEF Intact, ListsTell, Told, Holds, Whole
<1>6. InHand'
  BY <1>1, <1>2, <1>5 DEF InHand, Rewrites, Uploads, Edits
<1>7. saved' = Torn => hurt' = Names
  BY <1>1 DEF Confined
<1> QED
  BY <1>1, <1>2, <1>4, <1>6, <1>7 DEF Confined

\* A rewritten file holds what it held, as far as the author knows.
LEMMA RewritesConfined ==
    ASSUME CsTypeOK, JobShape, Confined, Rename \/ (WriteData /\ job.from = Nothing)
    PROVE  Confined'
<1> DEFINE n == job.name
<1>1. /\ Rewrites /\ n \in Names /\ job.at # "saving"
      /\ files' = [files EXCEPT ![n] = job.data]
      /\ UNCHANGED <<up, cfg, saved, answered, hurt>>
  BY DEF Rename, WriteData, SetFile, JobShape, Rewrites, CsTypeOK, Jobs
<1>2. job'.name = Nothing /\ job'.from = Nothing
  BY RenamesNone, JobType DEF WriteData, At
<1>3. files'[n] = job.data /\ \A m \in Names \ {n} : files'[m] = files[m]
  BY <1>1 DEF CsTypeOK
<1>4. ASSUME NEW m \in Names, m \notin hurt PROVE Intact(m)'
  <2>1. CASE m = n
    <3>1. ListsTell(m) /\ Holds(job.data, m)
      BY <1>1, <1>4, <2>1 DEF Confined, InHand
    <3> QED
      BY <1>1, <1>3, <2>1, <3>1 DEF Intact, ListsTell, Told, Holds
  <2>2. CASE m # n
    <3>1. m \notin hurt \cup {job.name, job.from}
      BY <1>1, <1>4, <2>2 DEF Rewrites
    <3> QED
      BY <1>1, <1>3, <2>2, <3>1, StaysIntact
  <2> QED
    BY <2>1, <2>2
<1>5. saved' = Torn => hurt' = Names
  BY <1>1 DEF Confined
<1> QED
  BY <1>1, <1>2, <1>4, <1>5, NoneInHand DEF Confined

\* A signal: what was in hand is hurt, and all of it while the list is written.
LEMMA KillConfined == ASSUME CsTypeOK, Confined, Kill PROVE Confined'
<1>1. /\ ~ up' /\ UNCHANGED <<saved, files, answered>>
      /\ hurt' = IF saved = Torn THEN Names ELSE hurt \cup ({job.name, job.from} \ {Nothing})
  BY DEF Kill
<1>2. job'.name = Nothing /\ job'.from = Nothing
  BY JobType DEF Kill, At
<1>3. ASSUME NEW n \in Names, n \notin hurt' PROVE Intact(n)'
  <2>1. n \notin hurt \cup {job.name, job.from}
    BY <1>1, <1>3
  <2> QED
    BY <1>1, <2>1, StaysIntact
<1> QED
  BY <1>1, <1>2, <1>3, NoneInHand DEF Confined

\* Steps between which nothing is in hand.
LEMMA RestConfined ==
    ASSUME CsTypeOK, JobShape, Confined, Converted \/ ShutDown \/ SavePeriodically
    PROVE  Confined'
<1>1. /\ job.at \in {"idle", "convert"} /\ up /\ cfg'.list = cfg.list
      /\ UNCHANGED <<up, saved, files, answered, hurt>>
  BY DEF Converted, ShutDown, SavePeriodically, CsTypeOK, Configs
<1>2. job'.name = Nothing /\ job'.from = Nothing
  BY ShutDownNone, JobType DEF Converted, SavePeriodically, At
<1>3. \A n \in Names \ hurt : Intact(n)'
  BY <1>1, IdleIntact, StaysIntact
<1>4. saved' = Torn => hurt' = Names
  BY <1>1 DEF Confined
<1> QED
  BY <1>1, <1>2, <1>3, <1>4, NoneInHand DEF Confined

\* The list's file is opened, or an add-on's: what is in hand stays in hand.
LEMMA OpenConfigConfined == ASSUME CsTypeOK, JobShape, Confined, OpenConfig PROVE Confined'
<1>1. /\ job.at = "save" /\ up /\ saved' = Torn
      /\ UNCHANGED <<up, cfg, files, answered, hurt>>
  BY DEF OpenConfig
<1>2. /\ job'.at = "saving" /\ job'.name = job.name /\ job'.from = job.from
      /\ job'.data = job.data
  BY JobGoesOn DEF OpenConfig, At
<1>3. ASSUME NEW n \in Names, n \notin hurt \cup {job.name, job.from} PROVE Intact(n)'
  BY <1>1, <1>3, StaysIntact
<1>4. InHand'
  <2>1. ~ Rewrites
    BY <1>1 DEF JobShape
  <2> QED
    BY <1>1, <1>2, <2>1 DEF Confined, InHand, Rewrites, Uploads, Edits, Listed, Whole
<1> QED
  BY <1>1, <1>2, <1>3, <1>4 DEF Confined

\* The list is saved: what was in hand is answered as it is in the list.
LEMMA WriteConfigConfined == ASSUME CsTypeOK, JobShape, Confined, WriteConfig PROVE Confined'
<1>1. /\ job.at = "saving" /\ up /\ saved' = cfg /\ files' = files /\ (up' => cfg' = cfg)
      /\ hurt' = IF job.data # Nothing THEN hurt \ {job.name, job.from} ELSE hurt
  BY DEF WriteConfig
<1>2. job'.name = Nothing /\ job'.from = Nothing
  BY JobType DEF WriteConfig, At
<1>3. saved' # Torn
  BY <1>1 DEF CsTypeOK
<1>4. ~ Rewrites /\ job.data # Torn /\ job.data \in Data \cup {Nothing}
  BY <1>1 DEF JobShape, CsTypeOK, Jobs, Files
<1>5. ASSUME NEW n \in Names, n \notin {job.name, job.from}, n \notin hurt'
      PROVE  Intact(n)'
  <2>1. Intact(n) /\ answered'[n] = answered[n]
    BY <1>1, <1>5 DEF Confined, WriteConfig
  <2> QED
    BY <1>1, <2>1 DEF Intact, ListsTell, Told, Holds
<1>6. ASSUME NEW n \in Names, n \in {job.name, job.from}, n \notin hurt'
      PROVE  Intact(n)'
  <2> DEFINE b == IF job.data = Nothing THEN answered[n].body ELSE job.data.body
  <2>1. answered'[n] = Promise(cfg.list[n], b)
    BY <1>6 DEF WriteConfig
  <2>2. cfg.list[n] \in Entries \cup {Nothing}
    BY DEF CsTypeOK, Configs, Lists
  <2>3. job.from # Nothing
    BY <1>4, <1>6 DEF Rewrites
  <2>4. cfg.list[n] # Nothing =>
           files[n] \notin {Nothing, Torn} /\ files[n].ver = cfg.list[n].ver /\ files[n].body = b
    <3>1. CASE Uploads
      <4>1. /\ files[job.name] = job.data /\ cfg.list[job.name].ver = job.data.ver
            /\ job.from # job.name => cfg.list[job.from] = Nothing
        BY <1>1, <3>1 DEF Confined, InHand, Listed
      <4>2. job.data \in Data /\ b = job.data.body
        BY <1>4, <3>1 DEF Uploads
      <4> QED
        BY <1>6, <4>1, <4>2
    <3>2. CASE Edits
      <4>1. n = job.name /\ n \notin hurt /\ b = answered[n].body
        BY <1>1, <1>6, <3>2 DEF JobShape, Edits
      <4> QED
        BY <1>1, <3>2, <4>1 DEF Confined, InHand, Listed, Whole
    <3> QED
      BY <2>3, <3>1, <3>2 DEF Uploads, Edits
  <2> HIDE DEF b
  <2>5. Promise(cfg.list[n], answered'[n].body) = answered'[n]
    BY <2>1, <2>2, PromiseIs
  <2>6. /\ cfg.list[n] = Nothing => answered'[n].ver = Nothing
        /\ cfg.list[n] # Nothing => answered'[n].ver = cfg.list[n].ver /\ answered'[n].body = b
    BY <2>1, <2>2, PromiseIs
  <2>7. ListsTell(n)'
    BY <1>1, <2>5 DEF ListsTell, Told
  <2>8. Holds(files[n], n)'
    BY <1>1, <2>4, <2>6 DEF Holds
  <2> QED
    BY <2>7, <2>8 DEF Intact
<1> QED
  BY <1>2, <1>3, <1>5, <1>6, NoneInHand DEF Confined

\* The file of what is in hand is emptied, and an upload's is written.
LEMMA WriteFileConfined ==
    ASSUME CsTypeOK, JobShape, Confined, OpenData \/ (WriteData /\ job.from # Nothing)
    PROVE  Confined'
<1>1. /\ job.at \in {"data", "writing"} /\ job.data # Nothing /\ job.name \in Names
      /\ UNCHANGED <<up, cfg, saved, answered, hurt>>
  BY DEF OpenData, WriteData, JobShape, CsTypeOK, Jobs
<1>2. /\ job'.name = job.name /\ job'.from = job.from /\ job'.data = job.data
      /\ job'.at \in {"writing", "save"}
      /\ job'.at = "save" => job.from # Nothing /\ files'[job.name] = job.data
      /\ \A m \in Names : m # job.name => files'[m] = files[m]
  <2>1. CASE OpenData
    BY <2>1, JobGoesOn DEF OpenData, SetFile, At, CsTypeOK
  <2>2. CASE WriteData /\ job.from # Nothing
    <3>1. job' = [job EXCEPT !.at = "save"] /\ files' = [files EXCEPT ![job.name] = job.data]
      BY <2>2 DEF WriteData, SetFile
    <3> QED
      BY <1>1, <2>2, <3>1, JobGoesOn DEF At, CsTypeOK
  <2> QED
    BY <2>1, <2>2
<1>3. ASSUME NEW n \in Names, n \notin hurt \cup {job.name, job.from} PROVE Intact(n)'
  BY <1>1, <1>2, <1>3, StaysIntact
<1>4. InHand'
  BY <1>1, <1>2 DEF Confined, InHand, Rewrites, Uploads, Edits, ListsTell, Told, Holds, Listed
<1>5. saved' = Torn => hurt' = Names
  BY <1>1 DEF Confined
<1> QED
  BY <1>1, <1>2, <1>3, <1>4, <1>5 DEF Confined

\* Requests that change an entry, or take it out of the list.
LEMMA DeleteConfined ==
    ASSUME CsTypeOK, JobShape, Confined, NEW n \in Names, NEW p \in Passes \cup {Master},
           Delete(n, p)
    PROVE  Confined'
<1>1. /\ job.at = "idle" /\ up /\ files' = [files EXCEPT ![n] = Torn]
      /\ UNCHANGED <<up, cfg, saved, answered, hurt>>
  BY DEF Delete, SetFile
<1>2. job'.at = "unlink" /\ job'.name = n /\ job'.from = n /\ job'.data = Nothing
  BY JobOfType DEF Delete, At, Files
<1>3. \A m \in Names \ {n} : files'[m] = files[m]
  BY <1>1 DEF CsTypeOK
<1>4. ASSUME NEW m \in Names, m \notin hurt \cup {n} PROVE Intact(m)'
  BY <1>1, <1>3, <1>4, IdleIntact, StaysIntact
<1>5. InHand'
  BY <1>2 DEF InHand, Rewrites, Uploads, Edits
<1>6. saved' = Torn => hurt' = Names
  BY <1>1 DEF Confined
<1> QED
  BY <1>1, <1>2, <1>4, <1>5, <1>6 DEF Confined

LEMMA UnlinkConfined == ASSUME CsTypeOK, JobShape, Confined, Unlink PROVE Confined'
<1> DEFINE n == job.name
<1>1. /\ job.at = "unlink" /\ job.data = Nothing /\ ~ Rewrites
      /\ UNCHANGED <<up, saved, answered, hurt>>
  BY DEF Unlink, JobShape, Uploads, Rewrites
<1>2. job'.at = "save" /\ job'.name = n /\ job'.from = job.from /\ job'.data = Nothing
  BY <1>1, JobGoesOn DEF Unlink, At
<1>3. /\ cfg'.list = [cfg.list EXCEPT ![n] = Nothing]
      /\ files' = [files EXCEPT ![n] = Nothing]
  BY DEF Unlink, SetEntry, SetFile, CsTypeOK, Configs
<1>4. \A m \in Names \ {n} : files'[m] = files[m] /\ cfg'.list[m] = cfg.list[m]
  BY <1>3 DEF CsTypeOK, Configs, Lists
<1>5. ASSUME NEW m \in Names, m \notin hurt \cup {n, job.from} PROVE Intact(m)'
  BY <1>1, <1>4, <1>5, StaysIntact
<1>6. InHand'
  <2>1. n \in Names \cup {Nothing}
    BY DEF CsTypeOK, Jobs
  <2>2. n \in Names => cfg'.list[n] = Nothing
    BY <1>3 DEF CsTypeOK, Configs, Lists
  <2>3. Edits' => n \in Names
    BY <1>1, <1>2, <2>1 DEF Edits, JobShape
  <2> QED
    BY <1>1, <1>2, <2>2, <2>3 DEF InHand, Rewrites, Uploads, Edits, Listed
<1>7. saved' = Torn => hurt' = Names
  BY <1>1 DEF Confined
<1> QED
  BY <1>1, <1>2, <1>5, <1>6, <1>7 DEF Confined

LEMMA ChangePassphraseConfined ==
    ASSUME CsTypeOK, JobShape, Confined, NEW n \in Names, NEW p \in Passes, NEW q \in Passes,
           ChangePassphrase(n, p, q)
    PROVE  Confined'
<1>1. /\ job.at = "idle" /\ up /\ Listed(n) /\ SetEntry(n, [cfg.list[n] EXCEPT !.pass = q])
      /\ UNCHANGED <<up, saved, files, answered, hurt>>
  BY DEF ChangePassphrase
<1>2. job'.at = "save" /\ job'.name = n /\ job'.from = n /\ job'.data = Nothing
  BY JobOfType DEF ChangePassphrase, At, Files
<1>3. cfg.list[n] \in Entries
  BY <1>1, EntryType
<1> DEFINE e == [cfg.list[n] EXCEPT !.pass = q]
<1>4. e \in Entries /\ e.ver = cfg.list[n].ver
  BY <1>3 DEF Entries
<1> HIDE DEF e
<1>5. cfg'.list = [cfg.list EXCEPT ![n] = e]
  BY <1>1, <1>4, SetEntryType DEF e
<1>6. cfg'.list[n] = e /\ \A m \in Names \ {n} : cfg'.list[m] = cfg.list[m]
  BY <1>5 DEF CsTypeOK, Configs, Lists
<1>7. ASSUME NEW m \in Names, m \notin hurt \cup {n} PROVE Intact(m)'
  BY <1>1, <1>6, <1>7, IdleIntact, StaysIntact
<1>8. ASSUME n \notin hurt
      PROVE  Whole(n) /\ files[n].ver = cfg.list[n].ver /\ files[n].body = answered[n].body
  <2>1. Intact(n) /\ Told(cfg.list, n)
    BY <1>1, <1>8, IdleIntact DEF Intact, ListsTell
  <2>2. answered[n].ver = cfg.list[n].ver /\ answered[n].ver # Nothing
    BY <1>1, <2>1, ListTypes, ToldIs DEF Listed
  <2> QED
    BY <2>1, <2>2 DEF Intact, Holds, Whole
<1>9. InHand'
  BY <1>1, <1>2, <1>4, <1>6, <1>8 DEF InHand, Rewrites, Uploads, Edits, Whole
<1>10. saved' = Torn => hurt' = Names
  BY <1>1 DEF Confined
<1> QED
  BY <1>1, <1>2, <1>7, <1>9, <1>10 DEF Confined

\* Uploads, validation and downloads.
LEMMA OwnerUploadConfined ==
    ASSUME CsTypeOK, JobShape, Confined, NEW n \in Names, NEW p \in Passes, NEW v \in Contents,
           OwnerUpload(n, p, v)
    PROVE  Confined'
<1>1. PICK m \in Names, f \in {[e EXCEPT !.ver = v] : e \in Entries} :
        /\ cfg' = [cfg EXCEPT !.list = [cfg.list EXCEPT ![m] = Nothing, ![n] = f]]
        /\ CheckScripts(n, m, v)
  <2>1. PICK m \in Names :
          /\ LET e == IF Listed(m) THEN cfg.list[m]
                      ELSE [pass |-> p, ver |-> v, downloads |-> 0]
             IN  cfg' = [cfg EXCEPT !.list = [cfg.list EXCEPT ![m] = Nothing,
                                                              ![n] = [e EXCEPT !.ver = v]]]
          /\ CheckScripts(n, m, v)
    BY DEF OwnerUpload
  <2> DEFINE e == IF Listed(m) THEN cfg.list[m] ELSE [pass |-> p, ver |-> v, downloads |-> 0]
                f == [e EXCEPT !.ver = v]
  <2>2. e \in Entries
    BY EntryType DEF Entries
  <2>3. f \in {[x EXCEPT !.ver = v] : x \in Entries}
    BY <2>2
  <2>4. cfg' = [cfg EXCEPT !.list = [cfg.list EXCEPT ![m] = Nothing, ![n] = f]]
    BY <2>1
  <2> HIDE DEF f
  <2> QED
    BY <2>1, <2>3, <2>4, Zenon
<1>2. job.at = "idle" /\ up /\ UNCHANGED <<up, saved, files, answered>>
  BY DEF OwnerUpload
<1>3. f \in Entries /\ f.ver = v
  BY DEF Entries
<1>4. /\ cfg'.list[n] = f /\ (m # n => cfg'.list[m] = Nothing)
      /\ \A k \in Names \ {n, m} : cfg'.list[k] = cfg.list[k]
  <2>1. cfg'.list = [cfg.list EXCEPT ![m] = Nothing, ![n] = f]
    BY <1>1 DEF CsTypeOK, Configs
  <2> QED
    BY <2>1 DEF CsTypeOK, Configs, Lists
<1>5. \/ job' = job /\ hurt' = hurt \cup {n, m}
      \/ /\ job'.at = "data" /\ job'.name = n /\ job'.from = m /\ hurt' = hurt
         /\ job'.data \in Data /\ job'.data.ver = v
  BY <1>1, <1>2, CheckScriptsJob
<1>6. ASSUME NEW k \in Names, k \notin hurt \cup {n, m} PROVE Intact(k)'
  BY <1>2, <1>4, <1>6, IdleIntact, StaysIntact
<1>7. job.name = Nothing /\ job.from = Nothing /\ hurt \subseteq hurt'
  BY <1>2, <1>5 DEF JobShape
<1>8. InHand'
  <2>1. CASE job' = job
    BY <1>7, <2>1, NoneInHand
  <2>2. CASE job'.at = "data" /\ job'.name = n /\ job'.from = m /\ job'.data \in Data /\ job'.data.ver = v
    BY <1>3, <1>4, <2>2 DEF InHand, Rewrites, Uploads, Edits, Listed
  <2> QED
    BY <1>5, <2>1, <2>2
<1>9. saved' = Torn => hurt' = Names
  <2>1. hurt' \subseteq Names
    BY <1>5 DEF CsTypeOK
  <2> QED
    BY <1>2, <1>7, <2>1 DEF Confined
<1>10. \A k \in Names \ (hurt' \cup {job'.name, job'.from}) : k \notin hurt \cup {n, m}
  BY <1>5, <1>7
<1> QED
  BY <1>6, <1>8, <1>9, <1>10 DEF Confined

LEMMA MasterUploadConfined ==
    ASSUME CsTypeOK, JobShape, Confined, NEW n \in Names, NEW v \in Contents, MasterUpload(n, v)
    PROVE  Confined'
<1>1. PICK m \in Names :
         /\ job.at = "idle" /\ Listed(m) /\ job'.at = "data" /\ job'.name = m /\ job'.from = m
         /\ job'.data \in Data /\ job'.data.ver = cfg.list[m].ver
  BY MasterUploadJob
<1>2. UNCHANGED <<up, cfg, saved, files, answered, hurt>>
  BY DEF MasterUpload
<1>3. ASSUME NEW k \in Names, k \notin hurt \cup {m} PROVE Intact(k)'
  BY <1>1, <1>2, <1>3, IdleIntact, StaysIntact
<1>4. InHand'
  BY <1>1, <1>2 DEF InHand, Rewrites, Uploads, Edits, Listed
<1>5. saved' = Torn => hurt' = Names
  BY <1>1, <1>2 DEF Confined
<1> QED
  BY <1>1, <1>2, <1>3, <1>4, <1>5 DEF Confined

LEMMA ValidateConfined ==
    ASSUME CsTypeOK, JobShape, Confined, NEW n \in Names, Validate(n)
    PROVE  Confined'
<1>1. /\ job.at = "idle" /\ UNCHANGED <<up, cfg, saved, files, answered, hurt>>
  BY DEF Validate
<1>2. /\ job'.at = "data" /\ job'.name = n /\ job'.from = Nothing /\ job'.data \in Data
      /\ job'.data.ver = files[n].ver /\ job'.data.body = files[n].body
  BY ValidateJob
<1>3. ASSUME NEW k \in Names, k \notin hurt PROVE Intact(k)' /\ Intact(k)
  BY <1>1, <1>3, IdleIntact, StaysIntact
<1>4. n \notin hurt => ListsTell(n)' /\ Holds(job.data, n)'
  BY <1>1, <1>2, <1>3 DEF Intact, Holds
<1>5. InHand'
  BY <1>1, <1>2, <1>4 DEF InHand, Rewrites, Uploads, Edits
<1>6. saved' = Torn => hurt' = Names
  BY <1>1 DEF Confined
<1> QED
  BY <1>1, <1>3, <1>5, <1>6 DEF Confined

LEMMA DownloadConfined ==
    ASSUME CsTypeOK, JobShape, Confined, NEW n \in Names, Download(n)
    PROVE  Confined'
<1> DEFINE e == [cfg.list[n] EXCEPT !.downloads = @ + 1]
<1>1. /\ job.at = "idle" /\ Listed(n) /\ SetEntry(n, e) /\ up
      /\ UNCHANGED <<up, saved, files, job, answered, hurt>>
  BY DEF Download
<1>2. cfg.list[n] \in Entries
  BY <1>1, EntryType
<1>3. e \in Entries /\ e.ver = cfg.list[n].ver /\ e.pass = cfg.list[n].pass
  BY <1>2 DEF Entries
<1> HIDE DEF e
<1>4. cfg'.list = [cfg.list EXCEPT ![n] = e]
  BY <1>1, <1>3, SetEntryType
<1>5. cfg'.list[n] = e /\ \A m \in Names \ {n} : cfg'.list[m] = cfg.list[m]
  BY <1>4 DEF CsTypeOK, Configs, Lists
<1>6. \A m \in Names : Promise(cfg'.list[m], answered[m].body) = Promise(cfg.list[m], answered[m].body)
  BY <1>1, <1>3, <1>5 DEF Promise, Listed
<1>7. ASSUME NEW m \in Names, m \notin hurt PROVE Intact(m)'
  BY <1>1, <1>6, <1>7, IdleIntact, StaysIntact
<1>8. job'.name = Nothing /\ job'.from = Nothing
  BY <1>1 DEF JobShape
<1>9. saved' = Torn => hurt' = Names
  BY <1>1 DEF Confined
<1> QED
  BY <1>1, <1>7, <1>8, <1>9, NoneInHand DEF Confined

LEMMA NextConfined == CsTypeOK /\ JobShape /\ Confined /\ [CsNext]_csVars => Confined'
<1> SUFFICES ASSUME CsTypeOK, JobShape, Confined, [CsNext]_csVars PROVE Confined'
  OBVIOUS
<1>1. CASE UNCHANGED csVars
  BY <1>1 DEF csVars, Confined, InHand, Rewrites, Uploads, Edits, Intact, ListsTell, Told,
     Holds, Listed, Whole
<1>2. ASSUME NEW n \in Names, Request(n) PROVE Confined'
  BY <1>2, OwnerUploadConfined, MasterUploadConfined, ValidateConfined, DeleteConfined,
     ChangePassphraseConfined, DownloadConfined DEF Request
<1>3. CASE WriteData
  BY <1>3, RewritesConfined, WriteFileConfined
<1> QED
  BY <1>1, <1>2, <1>3, StartConfined, ConvertConfined, RewritesConfined, KillConfined,
     RestConfined, OpenConfigConfined, WriteConfigConfined, WriteFileConfined, UnlinkConfined
     DEF CsNext

\* Whatever is interrupted, and after any number of restarts, an add-on that was
\* not in hand is listed, in memory and on disk, as its author was last told, and
\* its file is the upload he was told of (campaign_server.cpp:391, 628).
THEOREM DamageConfinedAlways == CsSpec => []DamageConfined
<1>1. CsTypeOK /\ Confined => DamageConfined
  <2> SUFFICES ASSUME CsTypeOK, Confined,
                      NEW n \in Names \ (hurt \cup {job.name, job.from})
               PROVE  /\ up => Told(cfg.list, n)
                      /\ saved # Torn => Told(saved.list, n)
                      /\ up /\ Listed(n) =>
                            /\ Whole(n) /\ files[n].ver = cfg.list[n].ver
                            /\ files[n].body = answered[n].body
    BY DEF DamageConfined, Told
  <2>1. Intact(n)
    BY DEF Confined
  <2>2. ASSUME up, Listed(n)
        PROVE  answered[n].ver = cfg.list[n].ver /\ answered[n].ver # Nothing
    BY <2>1, <2>2, ListTypes, ToldIs DEF Intact, ListsTell, Listed
  <2> QED
    BY <2>1, <2>2 DEF Intact, ListsTell, Holds, Whole
<1> QED
  BY <1>1, InitType, NextType, InitShape, NextShape, InitConfined, NextConfined, PTL DEF CsSpec
============================================================================
