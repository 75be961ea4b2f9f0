---------------------------- MODULE AddonServer ----------------------------
(***************************************************************************)
(* The Django add-on server: the handlers of server/addons/views.py over   *)
(* the database of server/addons/models.py and the files under MEDIA_ROOT. *)
(* Every effect that survives a crash is a step of its own: Django 1.1     *)
(* commits each save(), add() and clear() at once, and files are not part  *)
(* of any transaction.  server/run starts one single-threaded process      *)
(* (Workers has one member); more workers stand for another deployment.    *)
(***************************************************************************)
EXTENDS Integers, Sequences

CONSTANTS
    Workers,        \* requests the server can have in progress
    Titles,         \* add-on names
    Versions,       \* published contents, identified by their version
    Names,          \* author names
    Logins,         \* author names that can log in
    Supers,         \* superusers
    AuthorLists,    \* the lists an add-on's "author" key can split into
    Routes,         \* "post": wml as a POST field, "form": as an uploaded file
    FormName,       \* the file name storage makes of a title ("A B" -> "A_B")
    AsId,           \* the id a title reads as, or None
    Faults,         \* what can go wrong: "raise", "tar", "kill", "admin"
    MaxId, MaxUploads, MaxDownloads, MaxRatings, MaxSuffix,  \* bounds
    None

Ids == 1..MaxId
Path == [base : Titles, n : 0..MaxSuffix]
Content == [title : Titles, ver : Versions]

\* A row of addons_addon: the Addon object and what save() writes.
Row == [name : Titles, ver : Versions \cup {None}, wml : Path \cup {None},
        tbz : Titles \cup {None}, uploads : 0..MaxUploads,
        downloads : 0..MaxDownloads]

PublishSteps == {"dropTbz", "saveTbz", "dropWml", "saveWml", "write", "tar",
                 "store", "save", "clear", "find", "create", "link", "final"}
Steps == PublishSteps \cup {"idle", "unlink", "rate", "count"}

Job == [pc : Steps, login : Logins \cup {None}, ver : Versions \cup {None},
        route : Routes \cup {None}, todo : Seq(Names),
        id : Ids \cup {None}, obj : Row \cup {None}]

ASSUME BoundsAssumption ==
    /\ MaxId \in Nat \ {0} /\ MaxUploads \in Nat \ {0}
    /\ MaxDownloads \in Nat /\ MaxRatings \in Nat /\ MaxSuffix \in Nat

ASSUME DataAssumption ==
    /\ Logins \subseteq Names /\ Supers \subseteq Logins
    /\ AuthorLists \subseteq Seq(Names)
    /\ Routes \subseteq {"post", "form"}
    /\ Faults \subseteq {"raise", "tar", "kill", "admin"}
    /\ FormName \in [Titles -> Titles]
    /\ AsId \in [Titles -> Ids \cup {None}]

ASSUME NoneAssumption ==
    /\ None \notin Titles \cup Versions \cup Names \cup Routes
    /\ None \notin Ids /\ None \notin Path /\ None \notin Row
    /\ None \notin Content
    /\ None \notin [title : Titles, rev : Nat, ver : Versions \cup {None}]

VARIABLES
    rows,       \* addons_addon, by primary key
    authors,    \* the many-to-many table: names linked to each key
    people,     \* addons_author: how many rows carry each name
    ratings,    \* addons_rating: of each key, how many were given to each title
    wmls,       \* MEDIA_ROOT/addons/*.wml
    tars,       \* MEDIA_ROOT/addons/*.tar.bz2: the version packed in it
    job,        \* the request each worker is serving, its local variables
    view        \* history: the catalogue when no request was in progress

db == <<rows, authors, people, ratings>>
files == <<wmls, tars>>
vars == <<rows, authors, people, ratings, wmls, tars, job, view>>

Idle == [pc |-> "idle", login |-> None, ver |-> None, route |-> None,
         todo |-> <<>>, id |-> None, obj |-> None]

\* A request that has read the row of key i.
Holding(i, pc, login) ==
    [pc |-> pc, login |-> login, ver |-> None, route |-> None,
     todo |-> <<>>, id |-> i, obj |-> rows[i]]

Quiet == \A w \in Workers : job[w].pc = "idle"

-----------------------------------------------------------------------------
(* The database and the file store *)

Named(i, t) == rows[i] # None /\ rows[i].name = t

\* Addon.objects.get(name=t): i is the key it finds, None for DoesNotExist.
Finds(t, i) == IF i = None THEN \A k \in Ids : ~Named(k, t)
                           ELSE Named(i, t)

\* Addon.get_addon: a key that reads as an existing id is that id, whatever
\* add-on carries it as its name.
GetAddon(key, i) ==
    LET read == IF key \in Ids THEN key ELSE AsId[key]
    IN  IF read # None /\ rows[read] # None
        THEN i = read
        ELSE key \in Titles /\ Named(i, key)

\* SQLite gives a new row the key after the largest one in use; without
\* AUTOINCREMENT the key of a removed last row is used again.
NextId(i) == /\ \A k \in Ids : rows[k] # None => k < i
             /\ i # 1 => rows[i - 1] # None

\* The unique constraint on addons_addon.name.
Storable(i, t) == \A k \in Ids \ {i} : ~Named(k, t)

\* Model.save: the whole row is written, inserted again if it was deleted.
Save(i, row) == rows' = [rows EXCEPT ![i] = row]

\* A worker that deletes rows holds SQLite's write lock until it commits.
CanWrite(w) == \A u \in Workers \ {w} : job[u].pc # "unlink"

\* Mutant of RawPath: one file for every upload.
SharedPath(t) == [base |-> CHOOSE x \in Titles : TRUE, n |-> 0]

\* The file a POSTed wml is written to: the add-on's name as it is.
RawPath(t) == [base |-> t, n |-> 0]

\* FileSystemStorage.get_available_name: underscores until the name is free.
AvailablePath(p, t) ==
    /\ p.base = FormName[t]
    /\ wmls[p] = None
    /\ \A k \in 0..(p.n - 1) : wmls[[p EXCEPT !.n = k]] # None

\* The row appears in the list: file_wml.size does not raise.
Listed(i) == /\ rows[i] # None
             /\ rows[i].wml # None
             /\ wmls[rows[i].wml] # None

Catalog ==
    [i \in Ids |->
        IF rows[i] = None THEN None
        ELSE [title |-> rows[i].name,
              rev |-> rows[i].uploads,
              ver |-> IF Listed(i) THEN wmls[rows[i].wml].ver ELSE None]]

-----------------------------------------------------------------------------
Init ==
    /\ rows = [i \in Ids |-> None]
    /\ authors = [i \in Ids |-> {}]
    /\ people = [n \in Names |-> 0]
    /\ ratings = [i \in Ids |-> [t \in Titles |-> 0]]
    /\ wmls = [p \in Path |-> None]
    /\ tars = [t \in Titles |-> None]
    /\ job = [w \in Workers |-> Idle]
    /\ view = [i \in Ids |-> None]

At(w, pc) == job[w].pc = pc
Goto(w, pc) == job' = [job EXCEPT ![w].pc = pc]
Finish(w) == job' = [job EXCEPT ![w] = Idle]

-----------------------------------------------------------------------------
(* publish *)

\* Mutants of FileStep: a file is deleted although the field is empty, and
\* the old wml stays until the new one is saved.
FileStepUnchecked(obj) == IF obj.tbz # None THEN "dropTbz" ELSE "dropWml"
FileStepKeepsWml(obj) == IF obj.tbz # None THEN "dropTbz" ELSE "write"

\* The first of the two file fields that is still set is deleted next.
FileStep(obj) == IF obj.tbz # None THEN "dropTbz"
                 ELSE IF obj.wml # None THEN "dropWml" ELSE "write"

\* Mutants of Uploaded: a new version keeps the revision, and a new version
\* starts the download counter again.
UploadedSameRevision(t, i) ==
    IF i = None
    THEN [name |-> t, ver |-> None, wml |-> None, tbz |-> None,
          uploads |-> 1, downloads |-> 0]
    ELSE rows[i]
UploadedAnew(t, i) ==
    IF i = None
    THEN [name |-> t, ver |-> None, wml |-> None, tbz |-> None,
          uploads |-> 1, downloads |-> 0]
    ELSE [rows[i] EXCEPT !.uploads = @ + 1, !.downloads = 0]

\* The Addon that publish works on: a new one, or the row with its uploads
\* counter increased.
Uploaded(t, i) ==
    IF i = None
    THEN [name |-> t, ver |-> None, wml |-> None, tbz |-> None,
          uploads |-> 1, downloads |-> 0]
    ELSE [rows[i] EXCEPT !.uploads = @ + 1]

\* Mutant of AuthorsOf: the sender is not added.
AuthorsAsGiven(list, login) == list

\* The author key's names, and the sender's if it is not one of them.
AuthorsOf(list, login) ==
    IF \E k \in DOMAIN list : list[k] = login THEN list ELSE Append(list, login)

\* Mutant of MayPublish: any account may replace any add-on.
MayPublishAny(i, login) == TRUE

MayPublish(i, login) == login \in authors[i]

\* From the authentication to the in-memory Addon.  A request that fails one
\* of these checks gets an error reply and changes nothing.
PublishBegin(w, login, t, v, route, list) ==
    /\ At(w, "idle")
    /\ \E i \in Ids \cup {None} :
          /\ Finds(t, i)
          /\ IF i = None THEN \E k \in Ids : NextId(k)
             ELSE MayPublish(i, login) /\ rows[i].uploads < MaxUploads
          /\ LET obj == Uploaded(t, i)
             IN  job' = [job EXCEPT ![w] =
                    [pc |-> FileStep(obj), login |-> login, ver |-> v,
                     route |-> route, todo |-> AuthorsOf(list, login),
                     id |-> i, obj |-> obj]]
    /\ UNCHANGED <<db, files>>

\* FieldFile.delete removes the file, then clears the field and saves the row.
PublishDropTbz(w) ==
    /\ At(w, "dropTbz")
    /\ tars' = [tars EXCEPT ![job[w].obj.tbz] = None]
    /\ Goto(w, "saveTbz")
    /\ UNCHANGED <<db, wmls>>

PublishSaveTbz(w) ==
    /\ At(w, "saveTbz")
    /\ CanWrite(w)
    /\ LET obj == [job[w].obj EXCEPT !.tbz = None]
       IN  /\ Storable(job[w].id, obj.name)
           /\ Save(job[w].id, obj)
           /\ job' = [job EXCEPT ![w].pc = FileStep(obj), ![w].obj = obj]
    /\ UNCHANGED <<authors, people, ratings, files>>

PublishDropWml(w) ==
    /\ At(w, "dropWml")
    /\ wmls' = [wmls EXCEPT ![job[w].obj.wml] = None]
    /\ Goto(w, "saveWml")
    /\ UNCHANGED <<db, tars>>

PublishSaveWml(w) ==
    /\ At(w, "saveWml")
    /\ CanWrite(w)
    /\ LET obj == [job[w].obj EXCEPT !.wml = None]
       IN  /\ Storable(job[w].id, obj.name)
           /\ Save(job[w].id, obj)
           /\ job' = [job EXCEPT ![w].pc = "write", ![w].obj = obj]
    /\ UNCHANGED <<authors, people, ratings, files>>

\* A POSTed wml is written under the add-on's name; an uploaded one is only
\* renamed here and stored with the row.
PublishWrite(w) ==
    /\ At(w, "write")
    /\ IF job[w].route = "post"
       THEN /\ wmls' = [wmls EXCEPT ![RawPath(job[w].obj.name)] =
                          [title |-> job[w].obj.name, ver |-> job[w].ver]]
            /\ job' = [job EXCEPT ![w].pc = "tar",
                                  ![w].obj.wml = RawPath(job[w].obj.name)]
       ELSE UNCHANGED wmls /\ Goto(w, "tar")
    /\ UNCHANGED <<db, tars>>

\* Mutant of AfterTar: an uploaded file is never stored.
AfterTarSaves(route) == "save"

\* Only an uploaded file is left to store.
AfterTar(route) == IF route = "post" THEN "save" ELSE "store"

\* unpackdir and tar.  The exit status of tar is not looked at.
PublishTar(w) ==
    /\ At(w, "tar")
    /\ \E packed \in {job[w].ver} \cup (IF "tar" \in Faults THEN {None} ELSE {}) :
          tars' = [tars EXCEPT ![job[w].obj.name] = packed]
    /\ job' = [job EXCEPT
                 ![w].pc = AfterTar(job[w].route),
                 ![w].obj = [@ EXCEPT !.tbz = job[w].obj.name,
                                      !.ver = job[w].ver]]
    /\ UNCHANGED <<db, wmls>>

\* FileField.pre_save puts an uploaded file into the storage.
PublishStore(w) ==
    /\ At(w, "store")
    /\ \E p \in Path :
          /\ AvailablePath(p, job[w].obj.name)
          /\ wmls' = [wmls EXCEPT ![p] =
                        [title |-> job[w].obj.name, ver |-> job[w].ver]]
          /\ job' = [job EXCEPT ![w].pc = "save", ![w].obj.wml = p]
    /\ UNCHANGED <<db, tars>>

PublishSave(w) ==
    /\ At(w, "save")
    /\ CanWrite(w)
    /\ \E i \in Ids :
          /\ IF job[w].id = None THEN NextId(i) ELSE i = job[w].id
          /\ Storable(i, job[w].obj.name)
          /\ Save(i, job[w].obj)
          /\ job' = [job EXCEPT ![w].pc = "clear", ![w].id = i]
    /\ UNCHANGED <<authors, people, ratings, files>>

PublishClearAuthors(w) ==
    /\ At(w, "clear")
    /\ CanWrite(w)
    /\ authors' = [authors EXCEPT ![job[w].id] = {}]
    /\ Goto(w, "find")
    /\ UNCHANGED <<rows, people, ratings, files>>

\* Author.objects.get: no row makes one, more than one is not caught (Fail).
PublishFindAuthor(w) ==
    /\ At(w, "find")
    /\ LET n == people[Head(job[w].todo)]
       IN  /\ n \in {0, 1}
           /\ Goto(w, IF n = 0 THEN "create" ELSE "link")
    /\ UNCHANGED <<db, files>>

PublishCreateAuthor(w) ==
    /\ At(w, "create")
    /\ CanWrite(w)
    /\ people' = [people EXCEPT ![Head(job[w].todo)] = @ + 1]
    /\ Goto(w, "link")
    /\ UNCHANGED <<rows, authors, ratings, files>>

PublishLinkAuthor(w) ==
    /\ At(w, "link")
    /\ CanWrite(w)
    /\ LET rest == Tail(job[w].todo)
       IN  /\ authors' = [authors EXCEPT ![job[w].id] = @ \cup {Head(job[w].todo)}]
           /\ job' = [job EXCEPT ![w].pc = IF rest = <<>> THEN "final" ELSE "find",
                                 ![w].todo = rest]
    /\ UNCHANGED <<rows, people, ratings, files>>

PublishFinish(w) ==
    /\ At(w, "final")
    /\ CanWrite(w)
    /\ Storable(job[w].id, job[w].obj.name)
    /\ Save(job[w].id, job[w].obj)
    /\ Finish(w)
    /\ UNCHANGED <<authors, people, ratings, files>>

-----------------------------------------------------------------------------
(* remove *)

\* Lookup, authentication and the check for a superuser or an author; a
\* request that fails them gets an error reply and changes nothing.
RemoveBegin(w, login, key) ==
    /\ At(w, "idle")
    /\ CanWrite(w)
    /\ \E i \in Ids :
          /\ GetAddon(key, i)
          /\ login \in Supers \cup authors[i]
          /\ job' = [job EXCEPT ![w] = Holding(i, "unlink", login)]
    /\ UNCHANGED <<db, files>>

\* Model.delete runs in a transaction; post_delete removes each file no other
\* row uses, in the order the fields' signals were connected, before the commit.
TbzUnused(i, t) == \A k \in Ids \ {i} : rows[k] # None => rows[k].tbz # t
WmlUnused(i, p) == \A k \in Ids \ {i} : rows[k] # None => rows[k].wml # p

RemoveUnlinkTbz(w) ==
    /\ At(w, "unlink")
    /\ job[w].obj.tbz # None
    /\ tars' = IF TbzUnused(job[w].id, job[w].obj.tbz)
               THEN [tars EXCEPT ![job[w].obj.tbz] = None] ELSE tars
    /\ job' = [job EXCEPT ![w].obj.tbz = None]
    /\ UNCHANGED <<db, wmls>>

RemoveUnlinkWml(w) ==
    /\ At(w, "unlink")
    /\ job[w].obj.wml # None
    /\ wmls' = IF WmlUnused(job[w].id, job[w].obj.wml)
               THEN [wmls EXCEPT ![job[w].obj.wml] = None] ELSE wmls
    /\ job' = [job EXCEPT ![w].obj.wml = None]
    /\ UNCHANGED <<db, tars>>

\* Mutant of RemoveCommit: the ratings stay.
RemoveCommitKeepsRatings(w) ==
    /\ At(w, "unlink")
    /\ job[w].obj.tbz = None /\ job[w].obj.wml = None
    /\ rows' = [rows EXCEPT ![job[w].id] = None]
    /\ authors' = [authors EXCEPT ![job[w].id] = {}]
    /\ Finish(w)
    /\ UNCHANGED <<people, ratings, files>>

\* The commit: the row goes with its ratings and its author links.
RemoveCommit(w) ==
    /\ At(w, "unlink")
    /\ job[w].obj.tbz = None /\ job[w].obj.wml = None
    /\ rows' = [rows EXCEPT ![job[w].id] = None]
    /\ authors' = [authors EXCEPT ![job[w].id] = {}]
    /\ ratings' = [ratings EXCEPT ![job[w].id] = [t \in Titles |-> 0]]
    /\ Finish(w)
    /\ UNCHANGED <<people, files>>

-----------------------------------------------------------------------------
(* getFile and rate *)

\* Both keep the Addon they read until they save.
LookUp(w, key, pc) ==
    /\ At(w, "idle")
    /\ \E i \in Ids :
          /\ GetAddon(key, i)
          /\ job' = [job EXCEPT ![w] = Holding(i, pc, None)]
    /\ UNCHANGED <<db, files>>

DownloadBegin(w, key) ==
    /\ LookUp(w, key, "count")
    /\ job'[w].obj.downloads < MaxDownloads

\* The counter is saved before the file's url is asked for, which raises for
\* an add-on without a file: the download counts all the same.
DownloadCount(w) ==
    /\ At(w, "count")
    /\ CanWrite(w)
    /\ Storable(job[w].id, job[w].obj.name)
    /\ Save(job[w].id, [job[w].obj EXCEPT !.downloads = @ + 1])
    /\ Finish(w)
    /\ UNCHANGED <<authors, people, ratings, files>>

RateBegin(w, key) ==
    /\ LookUp(w, key, "rate")
    /\ ratings[job'[w].id][job'[w].obj.name] < MaxRatings

\* A rating is a row of its own, held only by the key it was looked up under.
RateSave(w) ==
    /\ At(w, "rate")
    /\ CanWrite(w)
    /\ ratings[job[w].id][job[w].obj.name] < MaxRatings
    /\ ratings' = [ratings EXCEPT ![job[w].id][job[w].obj.name] = @ + 1]
    /\ Finish(w)
    /\ UNCHANGED <<rows, authors, people, files>>

-----------------------------------------------------------------------------
(* Failures *)

\* An exception ends a request with a 500 and leaves what it did so far.
Raises(w) ==
    \/ /\ "raise" \in Faults     \* open(), unpackdir(), copyfile() of the icon
       /\ job[w].pc \in {"write", "tar", AfterTar(job[w].route)}
    \/ /\ job[w].pc \in {"saveTbz", "saveWml", "save", "final", "count"}
       /\ ~Storable(job[w].id, job[w].obj.name)            \* IntegrityError
    \/ /\ job[w].pc = "find"                 \* MultipleObjectsReturned
       /\ people[Head(job[w].todo)] > 1

Fail(w) ==
    /\ Raises(w)
    /\ Finish(w)
    /\ UNCHANGED <<db, files>>

\* The process is killed and started again; an open transaction rolls back.
Kill ==
    /\ "kill" \in Faults
    /\ ~Quiet
    /\ job' = [w \in Workers |-> Idle]
    /\ UNCHANGED <<db, files>>

\* The admin site adds an Author; nothing keeps the names apart.
AdminAddAuthor(n) ==
    /\ "admin" \in Faults
    /\ people[n] < 2
    /\ people' = [people EXCEPT ![n] = @ + 1]
    /\ UNCHANGED <<rows, authors, ratings, files, job>>

-----------------------------------------------------------------------------
Publish(w) ==
    \/ \E login \in Logins, t \in Titles, v \in Versions, r \in Routes,
          list \in AuthorLists : PublishBegin(w, login, t, v, r, list)
    \/ PublishDropTbz(w) \/ PublishSaveTbz(w)
    \/ PublishDropWml(w) \/ PublishSaveWml(w)
    \/ PublishWrite(w) \/ PublishTar(w) \/ PublishStore(w) \/ PublishSave(w)
    \/ PublishClearAuthors(w)
    \/ PublishFindAuthor(w) \/ PublishCreateAuthor(w) \/ PublishLinkAuthor(w)
    \/ PublishFinish(w)

Remove(w) ==
    \/ \E login \in Logins, key \in Ids \cup Titles : RemoveBegin(w, login, key)
    \/ RemoveUnlinkTbz(w) \/ RemoveUnlinkWml(w) \/ RemoveCommit(w)

Download(w) ==
    \/ \E key \in Ids \cup Titles : DownloadBegin(w, key)
    \/ DownloadCount(w)

Rate(w) ==
    \/ \E key \in Ids \cup Titles : RateBegin(w, key)
    \/ RateSave(w)

Handle(w) == Publish(w) \/ Remove(w) \/ Download(w) \/ Rate(w) \/ Fail(w)

Next ==
    /\ \/ \E w \in Workers : Handle(w)
       \/ Kill
       \/ \E n \in Names : AdminAddAuthor(n)
    /\ view' = IF Quiet' THEN Catalog' ELSE view

Spec == Init /\ [][Next]_vars

-----------------------------------------------------------------------------
(* Correctness *)

\* What the local variables of a request hold at each point of its handler.
LocalsOK(j) ==
    /\ j.pc # "idle" => j.obj \in Row
    /\ j.pc \in PublishSteps =>
          j.login \in Logins /\ j.ver \in Versions /\ j.route \in Routes
    /\ j.pc \in {"dropTbz", "saveTbz"} => j.obj.tbz # None
    /\ j.pc \in {"dropWml", "saveWml"} => j.obj.wml # None
    /\ j.pc \notin {"idle", "write", "tar", "store", "save"} => j.id \in Ids
    /\ j.pc \in PublishSteps \ {"final"} => j.todo # <<>>
    /\ j.pc = "store" => j.route = "form"
    /\ j.pc = "count" => j.obj.downloads < MaxDownloads

TypeOK ==
    /\ rows \in [Ids -> Row \cup {None}]
    /\ authors \in [Ids -> SUBSET Names]
    /\ people \in [Names -> Nat]
    /\ ratings \in [Ids -> [Titles -> 0..MaxRatings]]
    /\ wmls \in [Path -> Content \cup {None}]
    /\ tars \in [Titles -> Versions \cup {None}]
    /\ job \in [Workers -> Job]
    /\ \A w \in Workers : LocalsOK(job[w])

\* What a download of an add-on's wml returns is that add-on: the files are
\* named after titles, written by one request and deleted by another, and a
\* row refers to them only by name (getFile).  The game publishes by "post".
ServesItsOwn ==
    \A i \in Ids : Listed(i) => wmls[rows[i].wml].title = rows[i].name

\* No uploaded file gets a name that another title's file can have.
FilesNamedApart == "form" \in Routes => \A t \in Titles : FormName[t] = t

\* The inductive form of ServesItsOwn: a file's name tells whose it is, in the
\* store, in the table and in the row a request is about to save.
OwnFiles ==
    /\ \A p \in Path : wmls[p] # None => wmls[p].title = p.base
    /\ \A i \in Ids : rows[i] # None /\ rows[i].wml # None
                        => rows[i].wml.base = rows[i].name
    /\ \A w \in Workers : job[w].pc # "idle" /\ job[w].obj.wml # None
                        => job[w].obj.wml.base = job[w].obj.name

\* The list never announces a version other than the one a download returns,
\* whatever failed or died between the two file deletions, the new file and
\* the last save of publish.
ListedVersionIsServed ==
    \A i \in Ids : Listed(i) => wmls[rows[i].wml].ver = rows[i].ver

\* Between requests a listed add-on has the archive of the same version, after
\* any publish that ended with an exception (getFile without ?wml).
ArchiveAgrees ==
    Quiet => \A i \in Ids : Listed(i) => /\ rows[i].tbz # None
                                         /\ tars[rows[i].tbz] = rows[i].ver

\* Between requests somebody may publish or remove every add-on in the table:
\* publish clears the authors and adds them one by one.
Maintainable ==
    Quiet => \A i \in Ids : rows[i] # None => authors[i] \cap Logins # {}

\* When publish is about to reply 'Addon published successfully', the version
\* it was sent is listed and served, and its sender is an author.
PublishedIsServed ==
    \A w \in Workers : At(w, "final") =>
        LET i == job[w].id
        IN  /\ Listed(i)
            /\ wmls[rows[i].wml] = [title |-> job[w].obj.name, ver |-> job[w].ver]
            /\ job[w].login \in authors[i]

\* A rating counts for the add-on it was given to: keys are used again, and a
\* removed add-on takes its ratings with it.
RatingsOfThisAddon ==
    \A i \in Ids, t \in Titles : ratings[i][t] > 0 => Named(i, t)

\* Whoever is replacing an existing add-on is still one of its authors, until
\* publish itself clears them.
UpdaterIsAuthor ==
    \A w \in Workers :
        (job[w].pc \in PublishSteps \ {"clear", "find", "create", "link", "final"}
         /\ job[w].id # None)
            => Named(job[w].id, job[w].obj.name) /\ job[w].login \in authors[job[w].id]

\* While an add-on is in the table its name stays, and its counters never go
\* back: every save() writes the whole row, from a copy read earlier.
CountersKept ==
    [][\A i \in Ids : rows[i] # None /\ rows'[i] # None =>
          /\ rows'[i].name = rows[i].name
          /\ rows'[i].uploads >= rows[i].uploads
          /\ rows'[i].downloads >= rows[i].downloads]_vars

\* Seen between requests, the server is the atomic catalogue: new content
\* comes under a new revision, and a failed request serves nothing new.
AC == INSTANCE AddonCatalog WITH catalog <- view, MaxRev <- MaxUploads
CatalogSpec == AC!Spec

=============================================================================
