------------------------- MODULE AddonServerProofs -------------------------
(***************************************************************************)
(* Theorems about AddonServer for every set of workers, titles, versions,  *)
(* authors and faults, and for every value of the bounds.                  *)
(***************************************************************************)
EXTENDS AddonServer, TLAPS

\* What every proof below uses of the constants.
USE BoundsAssumption, DataAssumption, NoneAssumption DEF Ids

LEMMA InitTypeOK == Init => TypeOK
BY DEF Init, TypeOK, LocalsOK, Job, Idle, Steps, PublishSteps

\* A step that gives one worker well-typed locals keeps the others'.
LEMMA OneJob ==
    ASSUME TypeOK, NEW w \in Workers, NEW j \in Job, LocalsOK(j),
           job' = [job EXCEPT ![w] = j]
    PROVE  job' \in [Workers -> Job] /\ \A u \in Workers : LocalsOK(job'[u])
BY DEF TypeOK

LEMMA IdleOK == Idle \in Job /\ LocalsOK(Idle)
BY DEF Idle, Job, LocalsOK, Steps, PublishSteps

\* Moving on without touching another local.
LEMMA GotoOK ==
    ASSUME TypeOK, NEW w \in Workers, NEW pc \in Steps, Goto(w, pc),
           LocalsOK([job[w] EXCEPT !.pc = pc])
    PROVE  job' \in [Workers -> Job] /\ \A u \in Workers : LocalsOK(job'[u])
<1> DEFINE j == [job[w] EXCEPT !.pc = pc]
<1>1. job[w] \in Job
  BY DEF TypeOK
<1>2. j \in Job
  BY <1>1 DEF Job
<1>3. job' = [job EXCEPT ![w] = j]
  BY DEF Goto
<1>4. QED
  <2> HIDE DEF j
  <2> QED BY <1>2, <1>3, OneJob DEF j

LEMMA BeginTypeOK ==
    ASSUME TypeOK, NEW w \in Workers, NEW login \in Logins, NEW t \in Titles,
           NEW v \in Versions, NEW r \in Routes, NEW list \in AuthorLists,
           PublishBegin(w, login, t, v, r, list)
    PROVE  TypeOK'
<1>1. PICK i \in Ids \cup {None} :
        /\ Finds(t, i)
        /\ i # None => rows[i].uploads < MaxUploads
        /\ job' = [job EXCEPT ![w] =
              [pc |-> FileStep(Uploaded(t, i)), login |-> login, ver |-> v,
               route |-> r, todo |-> AuthorsOf(list, login),
               id |-> i, obj |-> Uploaded(t, i)]]
  BY DEF PublishBegin
<1> DEFINE obj == Uploaded(t, i)
           j == job'[w]
<1>2. obj \in Row
  <2>1. CASE i = None
    BY <2>1 DEF Uploaded, Row
  <2>2. CASE i # None
    <3>1. rows[i] \in Row /\ rows[i].uploads + 1 \in 0..MaxUploads
      BY <1>1, <2>2 DEF Finds, Named, TypeOK, Row
    <3>2. QED BY <3>1, <2>2 DEF Uploaded, Row
  <2>3. QED BY <2>1, <2>2
<1>3. AuthorsOf(list, login) \in Seq(Names) /\ AuthorsOf(list, login) # <<>>
  <2>1. list \in Seq(Names) /\ login \in Names
    OBVIOUS
  <2>2. QED BY <2>1 DEF AuthorsOf
<1>4. FileStep(obj) \in {"dropTbz", "dropWml", "write"}
  BY DEF FileStep
<1>5. i = None => obj.tbz = None /\ obj.wml = None
  BY DEF Uploaded
<1>6. j \in Job
  BY <1>1, <1>2, <1>3, <1>4 DEF TypeOK, Job, Steps, PublishSteps
<1>7. LocalsOK(j)
  BY <1>1, <1>2, <1>3, <1>4, <1>5 DEF TypeOK, LocalsOK, FileStep, PublishSteps
<1>8. job' = [job EXCEPT ![w] = j]
  BY <1>1 DEF TypeOK
<1>9. QED
  BY <1>6, <1>7, <1>8, OneJob DEF PublishBegin, TypeOK, db, files

\* The other steps of a worker: what the step leaves in its locals, and then
\* the variables it writes.
LEMMA DropTbzTypeOK ==
    ASSUME TypeOK, NEW w \in Workers, PublishDropTbz(w)
    PROVE  TypeOK'
<1>1. job[w] \in Job /\ LocalsOK(job[w]) /\ job[w].pc = "dropTbz"
  BY DEF PublishDropTbz, At, TypeOK
<1>2. LocalsOK([job[w] EXCEPT !.pc = "saveTbz"])
  BY <1>1 DEF LocalsOK, Job, PublishSteps
<1>3. job' \in [Workers -> Job] /\ \A u \in Workers : LocalsOK(job'[u])
  BY <1>2, GotoOK DEF PublishDropTbz, Steps, PublishSteps
<1>4. tars' \in [Titles -> Versions \cup {None}]
  BY DEF PublishDropTbz, TypeOK
<1>5. QED BY <1>3, <1>4 DEF PublishDropTbz, TypeOK, db

LEMMA SaveTbzTypeOK ==
    ASSUME TypeOK, NEW w \in Workers, PublishSaveTbz(w)
    PROVE  TypeOK'
<1> DEFINE obj == [job[w].obj EXCEPT !.tbz = None]
           j == [job[w] EXCEPT !.pc = FileStep(obj), !.obj = obj]
<1>1. /\ job[w] \in Job /\ LocalsOK(job[w]) /\ job[w].pc = "saveTbz"
      /\ job[w].obj \in Row /\ job[w].id \in Ids
  BY DEF PublishSaveTbz, At, TypeOK, LocalsOK
<1>2. obj \in Row /\ obj.tbz = None
  BY <1>1 DEF Row
<1>3. \/ FileStep(obj) = "dropWml" /\ obj.wml # None
      \/ FileStep(obj) = "write"
  BY <1>2 DEF FileStep
<1>4. job' = [job EXCEPT ![w] = j]
  BY <1>1 DEF PublishSaveTbz
<1>5. j \in Job /\ LocalsOK(j)
  <2> HIDE DEF obj
  <2> QED BY <1>1, <1>2, <1>3 DEF Job, LocalsOK, Steps, PublishSteps
<1>6. rows' \in [Ids -> Row \cup {None}]
  BY <1>1, <1>2 DEF PublishSaveTbz, Save, TypeOK
<1>7. QED BY <1>4, <1>5, <1>6, OneJob DEF PublishSaveTbz, TypeOK, files

LEMMA DropWmlTypeOK ==
    ASSUME TypeOK, NEW w \in Workers, PublishDropWml(w)
    PROVE  TypeOK'
<1>1. job[w] \in Job /\ LocalsOK(job[w]) /\ job[w].pc = "dropWml"
  BY DEF PublishDropWml, At, TypeOK
<1>2. LocalsOK([job[w] EXCEPT !.pc = "saveWml"])
  BY <1>1 DEF LocalsOK, Job, PublishSteps
<1>3. job' \in [Workers -> Job] /\ \A u \in Workers : LocalsOK(job'[u])
  BY <1>2, GotoOK DEF PublishDropWml, Steps, PublishSteps
<1>4. wmls' \in [Path -> Content \cup {None}]
  BY DEF PublishDropWml, TypeOK
<1>5. QED BY <1>3, <1>4 DEF PublishDropWml, TypeOK, db

LEMMA SaveWmlTypeOK ==
    ASSUME TypeOK, NEW w \in Workers, PublishSaveWml(w)
    PROVE  TypeOK'
<1> DEFINE obj == [job[w].obj EXCEPT !.wml = None]
           j == [job[w] EXCEPT !.pc = "write", !.obj = obj]
<1>1. /\ job[w] \in Job /\ LocalsOK(job[w]) /\ job[w].pc = "saveWml"
      /\ job[w].obj \in Row /\ job[w].id \in Ids
  BY DEF PublishSaveWml, At, TypeOK, LocalsOK
<1>2. obj \in Row
  BY <1>1 DEF Row
<1>3. job' = [job EXCEPT ![w] = j]
  BY <1>1 DEF PublishSaveWml
<1>4. j \in Job /\ LocalsOK(j)
  <2> HIDE DEF obj
  <2> QED BY <1>1, <1>2 DEF Job, LocalsOK, Steps, PublishSteps
<1>5. rows' \in [Ids -> Row \cup {None}]
  BY <1>1, <1>2 DEF PublishSaveWml, Save, TypeOK
<1>6. QED BY <1>3, <1>4, <1>5, OneJob DEF PublishSaveWml, TypeOK, files

LEMMA WriteTypeOK ==
    ASSUME TypeOK, NEW w \in Workers, PublishWrite(w)
    PROVE  TypeOK'
<1> DEFINE c == [title |-> job[w].obj.name, ver |-> job[w].ver]
<1>1. /\ job[w] \in Job /\ LocalsOK(job[w]) /\ job[w].pc = "write"
      /\ job[w].obj \in Row /\ job[w].ver \in Versions /\ job[w].route \in Routes
  BY DEF PublishWrite, At, TypeOK, LocalsOK, PublishSteps
<1>2. c \in Content /\ RawPath(job[w].obj.name) \in Path
  BY <1>1 DEF Row, Content, Path, RawPath
<1>3. job' \in [Workers -> Job] /\ \A u \in Workers : LocalsOK(job'[u])
  <2>1. CASE job[w].route = "post"
    <3> DEFINE j == [job[w] EXCEPT !.pc = "tar",
                        !.obj = [@ EXCEPT !.wml = RawPath(job[w].obj.name)]]
    <3>1. [job[w].obj EXCEPT !.wml = RawPath(job[w].obj.name)] \in Row
      BY <1>1, <1>2 DEF Row
    <3>2. j \in Job /\ LocalsOK(j)
      BY <1>1, <3>1 DEF Job, LocalsOK, Steps, PublishSteps
    <3>3. job' = [job EXCEPT ![w] = j]
      BY <1>1, <2>1 DEF PublishWrite, TypeOK, Job
    <3>4. QED BY <3>2, <3>3, OneJob
  <2>2. CASE job[w].route # "post"
    <3>1. LocalsOK([job[w] EXCEPT !.pc = "tar"])
      BY <1>1 DEF LocalsOK, Job, PublishSteps
    <3>2. QED
      BY <2>2, <3>1, GotoOK DEF PublishWrite, Steps, PublishSteps
  <2>3. QED BY <2>1, <2>2
<1>4. wmls' \in [Path -> Content \cup {None}]
  BY <1>2 DEF PublishWrite, TypeOK
<1>5. QED BY <1>3, <1>4 DEF PublishWrite, TypeOK, db

LEMMA TarTypeOK ==
    ASSUME TypeOK, NEW w \in Workers, PublishTar(w)
    PROVE  TypeOK'
<1> DEFINE obj == [job[w].obj EXCEPT !.tbz = job[w].obj.name, !.ver = job[w].ver]
           j == [job[w] EXCEPT !.pc = AfterTar(job[w].route), !.obj = obj]
<1>1. /\ job[w] \in Job /\ LocalsOK(job[w]) /\ job[w].pc = "tar"
      /\ job[w].obj \in Row /\ job[w].ver \in Versions
  BY DEF PublishTar, At, TypeOK, LocalsOK, PublishSteps
<1>2. obj \in Row
  BY <1>1 DEF Row
<1>3. job' = [job EXCEPT ![w] = j]
  BY <1>1 DEF PublishTar, TypeOK, Job, Row
<1>4. j \in Job /\ LocalsOK(j)
  BY <1>1, <1>2 DEF AfterTar, Job, LocalsOK, Steps, PublishSteps
<1>5. tars' \in [Titles -> Versions \cup {None}]
  BY <1>1 DEF PublishTar, TypeOK, Row
<1>6. QED BY <1>3, <1>4, <1>5, OneJob DEF PublishTar, TypeOK, db

LEMMA StoreTypeOK ==
    ASSUME TypeOK, NEW w \in Workers, PublishStore(w)
    PROVE  TypeOK'
<1> DEFINE c == [title |-> job[w].obj.name, ver |-> job[w].ver]
<1>1. /\ job[w] \in Job /\ LocalsOK(job[w]) /\ job[w].pc = "store"
      /\ job[w].obj \in Row /\ job[w].ver \in Versions
  BY DEF PublishStore, At, TypeOK, LocalsOK, PublishSteps
<1>2. PICK p \in Path : /\ wmls' = [wmls EXCEPT ![p] = c]
                        /\ job' = [job EXCEPT ![w].pc = "save", ![w].obj.wml = p]
  BY DEF PublishStore
<1>3. c \in Content /\ [job[w].obj EXCEPT !.wml = p] \in Row
  BY <1>1, <1>2 DEF Row, Content
<1>4. job'[w] \in Job /\ LocalsOK(job'[w]) /\ job' = [job EXCEPT ![w] = job'[w]]
  <2>1. job'[w] = [job[w] EXCEPT !.pc = "save", !.obj = [job[w].obj EXCEPT !.wml = p]]
    BY <1>1, <1>2 DEF TypeOK, Job
  <2>2. job'[w] \in Job
    BY <1>1, <1>3, <2>1 DEF Job, Steps, PublishSteps
  <2>3. LocalsOK(job'[w])
    BY <1>1, <1>3, <2>1 DEF Job, LocalsOK, PublishSteps, Row
  <2>4. job' = [job EXCEPT ![w] = job'[w]]
    BY <1>1, <1>2, <1>3 DEF TypeOK, Job
  <2> QED
    BY <2>2, <2>3, <2>4
<1>5. wmls' \in [Path -> Content \cup {None}]
  BY <1>2, <1>3 DEF TypeOK
<1>6. QED BY <1>4, <1>5, OneJob DEF PublishStore, TypeOK, db

LEMMA SaveTypeOK ==
    ASSUME TypeOK, NEW w \in Workers, PublishSave(w)
    PROVE  TypeOK'
<1>1. /\ job[w] \in Job /\ LocalsOK(job[w]) /\ job[w].pc = "save" /\ job[w].obj \in Row
  BY DEF PublishSave, At, TypeOK, LocalsOK
<1>2. PICK i \in Ids : /\ rows' = [rows EXCEPT ![i] = job[w].obj]
                       /\ job' = [job EXCEPT ![w].pc = "clear", ![w].id = i]
  BY DEF PublishSave, Save
<1>3. job'[w] \in Job /\ LocalsOK(job'[w]) /\ job' = [job EXCEPT ![w] = job'[w]]
  <2>1. job'[w] = [job[w] EXCEPT !.pc = "clear", !.id = i]
    BY <1>2 DEF TypeOK
  <2>2. job'[w] \in Job
    BY <1>1, <2>1 DEF Job, Steps, PublishSteps
  <2>3. LocalsOK(job'[w])
    BY <1>1, <2>1 DEF Job, LocalsOK, PublishSteps
  <2>4. job' = [job EXCEPT ![w] = job'[w]]
    BY <1>2 DEF TypeOK
  <2> QED
    BY <2>2, <2>3, <2>4
<1>4. rows' \in [Ids -> Row \cup {None}]
  BY <1>1, <1>2 DEF TypeOK
<1>5. QED BY <1>3, <1>4, OneJob DEF PublishSave, TypeOK, files

LEMMA AuthorStepsTypeOK ==
    ASSUME TypeOK, NEW w \in Workers,
           \/ PublishClearAuthors(w) \/ PublishFindAuthor(w) \/ PublishCreateAuthor(w)
    PROVE  TypeOK'
<1>1. job[w] \in Job /\ LocalsOK(job[w])
  BY DEF TypeOK
<1>2. CASE PublishClearAuthors(w)
  <2>1. Goto(w, "find") /\ LocalsOK([job[w] EXCEPT !.pc = "find"])
    BY <1>1, <1>2 DEF PublishClearAuthors, At, LocalsOK, Job, PublishSteps
  <2>2. QED
    BY <2>1, <1>2, GotoOK DEF PublishClearAuthors, TypeOK, files, Steps, PublishSteps
<1>3. CASE PublishFindAuthor(w)
  <2>1. \E x \in {"create", "link"} : Goto(w, x) /\ LocalsOK([job[w] EXCEPT !.pc = x])
    BY <1>1, <1>3 DEF PublishFindAuthor, At, LocalsOK, Job, PublishSteps
  <2>2. QED
    BY <2>1, <1>3, GotoOK DEF PublishFindAuthor, TypeOK, db, files, Steps, PublishSteps
<1>4. CASE PublishCreateAuthor(w)
  <2>1. Goto(w, "link") /\ LocalsOK([job[w] EXCEPT !.pc = "link"])
    BY <1>1, <1>4 DEF PublishCreateAuthor, At, LocalsOK, Job, PublishSteps
  <2>2. people' \in [Names -> Nat]
    <3>1. Head(job[w].todo) \in Names
      BY <1>1, <1>4 DEF PublishCreateAuthor, At, LocalsOK, Job, PublishSteps
    <3>2. people \in [Names -> Nat]
      BY DEF TypeOK
    <3>3. people' = [people EXCEPT ![Head(job[w].todo)] = @ + 1]
      BY <1>4 DEF PublishCreateAuthor
    <3>4. QED BY <3>1, <3>2, <3>3
  <2>3. QED
    BY <2>1, <2>2, <1>4, GotoOK
    DEF PublishCreateAuthor, TypeOK, files, Steps, PublishSteps
<1>5. QED BY <1>2, <1>3, <1>4

LEMMA LinkTypeOK ==
    ASSUME TypeOK, NEW w \in Workers, PublishLinkAuthor(w)
    PROVE  TypeOK'
<1> DEFINE rest == Tail(job[w].todo)
           pc == IF rest = <<>> THEN "final" ELSE "find"
           j == [job[w] EXCEPT !.pc = pc, !.todo = rest]
<1>1. /\ job[w] \in Job /\ LocalsOK(job[w]) /\ job[w].pc = "link"
      /\ job[w].todo \in Seq(Names) /\ job[w].todo # <<>>
  BY DEF PublishLinkAuthor, At, TypeOK, LocalsOK, Job, PublishSteps
<1>2. Head(job[w].todo) \in Names /\ rest \in Seq(Names)
  BY <1>1
<1>3. job' = [job EXCEPT ![w] = j]
  BY <1>1 DEF PublishLinkAuthor
<1>4. j \in Job /\ LocalsOK(j)
  BY <1>1, <1>2 DEF Job, LocalsOK, Steps, PublishSteps
<1>5. authors' \in [Ids -> SUBSET Names]
  BY <1>2 DEF PublishLinkAuthor, TypeOK
<1>6. QED
  BY <1>3, <1>4, <1>5, OneJob DEF PublishLinkAuthor, TypeOK, files

\* The last save of publish, and the save that counts a download.
LEMMA LastSavesTypeOK ==
    ASSUME TypeOK, NEW w \in Workers, PublishFinish(w) \/ DownloadCount(w)
    PROVE  TypeOK'
<1>1. job[w] \in Job /\ job[w].obj \in Row /\ job[w].id \in Ids
  BY DEF PublishFinish, DownloadCount, At, TypeOK, LocalsOK
<1>2. PICK row \in Row : Save(job[w].id, row)
  <2>1. CASE PublishFinish(w)
    BY <1>1, <2>1 DEF PublishFinish
  <2>2. CASE DownloadCount(w)
    <3>1. job[w].obj.downloads + 1 \in 0..MaxDownloads
      BY <1>1, <2>2 DEF DownloadCount, At, TypeOK, LocalsOK, Row
    <3>2. [job[w].obj EXCEPT !.downloads = @ + 1] \in Row
      BY <1>1, <3>1 DEF Row
    <3>3. QED BY <2>2, <3>2 DEF DownloadCount
  <2>3. QED BY <2>1, <2>2
<1>3. rows' \in [Ids -> Row \cup {None}]
  BY <1>1, <1>2 DEF Save, TypeOK
<1>4. QED
  BY <1>3, IdleOK, OneJob DEF PublishFinish, DownloadCount, Finish, TypeOK, files

LEMMA LookUpTypeOK ==
    ASSUME TypeOK, NEW w \in Workers, NEW key, NEW pc \in {"count", "rate"},
           LookUp(w, key, pc),
           pc = "count" => job'[w].obj.downloads < MaxDownloads
    PROVE  TypeOK'
<1>1. PICK i \in Ids : /\ GetAddon(key, i)
                       /\ job' = [job EXCEPT ![w] = Holding(i, pc, None)]
  BY DEF LookUp
<1>2. rows[i] \in Row
  BY <1>1 DEF GetAddon, Named, TypeOK
<1>3. job'[w] = Holding(i, pc, None)
  BY <1>1 DEF TypeOK
<1>4. Holding(i, pc, None) \in Job
  BY <1>2 DEF Holding, Job, Steps
<1>5. LocalsOK(Holding(i, pc, None))
  BY <1>2, <1>3 DEF Holding, LocalsOK, PublishSteps
<1>6. QED BY <1>1, <1>4, <1>5, OneJob DEF LookUp, TypeOK, db, files

LEMMA RateSaveTypeOK ==
    ASSUME TypeOK, NEW w \in Workers, RateSave(w)
    PROVE  TypeOK'
<1>1. job[w].obj \in Row /\ job[w].id \in Ids
  BY DEF RateSave, At, TypeOK, LocalsOK
<1> DEFINE i == job[w].id
           t == job[w].obj.name
<1>2. ratings' \in [Ids -> [Titles -> 0..MaxRatings]]
  <2>1. t \in Titles /\ ratings[i] \in [Titles -> 0..MaxRatings]
    BY <1>1 DEF TypeOK, Row
  <2>2. ratings[i][t] + 1 \in 0..MaxRatings
    <3>1. ratings[i][t] \in 0..MaxRatings
      BY <2>1
    <3>2. ratings[i][t] < MaxRatings
      BY DEF RateSave
    <3>3. \A n \in 0..MaxRatings : n < MaxRatings => n + 1 \in 0..MaxRatings
      OBVIOUS
    <3>4. QED BY <3>1, <3>2, <3>3
  <2>3. [ratings[i] EXCEPT ![t] = @ + 1] \in [Titles -> 0..MaxRatings]
    BY <2>1, <2>2
  <2>4. ratings' = [ratings EXCEPT ![i] = [ratings[i] EXCEPT ![t] = @ + 1]]
    BY <1>1 DEF RateSave, TypeOK
  <2>5. QED BY <1>1, <2>3, <2>4 DEF TypeOK
<1>3. QED
  BY <1>2, IdleOK, OneJob DEF RateSave, Finish, TypeOK, files

LEMMA RemoveBeginTypeOK ==
    ASSUME TypeOK, NEW w \in Workers, NEW login \in Logins, NEW key,
           RemoveBegin(w, login, key)
    PROVE  TypeOK'
<1>1. PICK i \in Ids : /\ GetAddon(key, i)
                       /\ job' = [job EXCEPT ![w] = Holding(i, "unlink", login)]
  BY DEF RemoveBegin
<1>2. rows[i] \in Row
  BY <1>1 DEF GetAddon, Named, TypeOK
<1>3. Holding(i, "unlink", login) \in Job /\ LocalsOK(Holding(i, "unlink", login))
  BY <1>2 DEF Holding, Job, Steps, LocalsOK, PublishSteps
<1>4. QED BY <1>1, <1>3, OneJob DEF RemoveBegin, TypeOK, db, files

LEMMA UnlinkTypeOK ==
    ASSUME TypeOK, NEW w \in Workers, RemoveUnlinkTbz(w) \/ RemoveUnlinkWml(w)
    PROVE  TypeOK'
<1>1. /\ job[w] \in Job /\ LocalsOK(job[w]) /\ job[w].pc = "unlink"
      /\ job[w].obj \in Row /\ job[w].id \in Ids
  BY DEF RemoveUnlinkTbz, RemoveUnlinkWml, At, TypeOK, LocalsOK
<1>2. PICK obj \in Row : job' = [job EXCEPT ![w] = [job[w] EXCEPT !.obj = obj]]
  <2>1. /\ [job[w].obj EXCEPT !.tbz = None] \in Row
        /\ [job[w].obj EXCEPT !.wml = None] \in Row
    BY <1>1 DEF Row
  <2>2. QED BY <1>1, <2>1 DEF RemoveUnlinkTbz, RemoveUnlinkWml, TypeOK, Job
<1> DEFINE j == [job[w] EXCEPT !.obj = obj]
<1>3. j \in Job /\ LocalsOK(j)
  BY <1>1, <1>2 DEF Job, LocalsOK, PublishSteps
<1>4. tars' \in [Titles -> Versions \cup {None}]
  BY DEF RemoveUnlinkTbz, RemoveUnlinkWml, TypeOK
<1>5. wmls' \in [Path -> Content \cup {None}]
  BY DEF RemoveUnlinkTbz, RemoveUnlinkWml, TypeOK
<1>6. QED
  <2> HIDE DEF j
  <2> QED BY <1>2, <1>3, <1>4, <1>5, OneJob
          DEF j, RemoveUnlinkTbz, RemoveUnlinkWml, TypeOK, db

LEMMA CommitTypeOK ==
    ASSUME TypeOK, NEW w \in Workers, RemoveCommit(w)
    PROVE  TypeOK'
<1>1. rows' \in [Ids -> Row \cup {None}] /\ authors' \in [Ids -> SUBSET Names]
  BY DEF RemoveCommit, TypeOK
<1>2. ratings' \in [Ids -> [Titles -> 0..MaxRatings]]
  <2>1. [t \in Titles |-> 0] \in [Titles -> 0..MaxRatings]
    OBVIOUS
  <2>2. ratings \in [Ids -> [Titles -> 0..MaxRatings]]
    BY DEF TypeOK
  <2>3. ratings' = [ratings EXCEPT ![job[w].id] = [t \in Titles |-> 0]]
    BY DEF RemoveCommit
  <2>4. QED BY <2>1, <2>2, <2>3
<1>3. QED
  BY <1>1, <1>2, IdleOK, OneJob DEF RemoveCommit, Finish, TypeOK, files

LEMMA FaultsTypeOK ==
    ASSUME TypeOK,
           \/ \E w \in Workers : Fail(w)
           \/ Kill
           \/ \E n \in Names : AdminAddAuthor(n)
    PROVE  TypeOK'
<1>1. ASSUME NEW w \in Workers, Fail(w) PROVE TypeOK'
  BY <1>1, IdleOK, OneJob DEF Fail, Finish, TypeOK, db, files
<1>2. CASE Kill
  BY <1>2, IdleOK DEF Kill, TypeOK, db, files
<1>3. ASSUME NEW n \in Names, AdminAddAuthor(n) PROVE TypeOK'
  <2>1. people' \in [Names -> Nat]
    BY <1>3 DEF AdminAddAuthor, TypeOK
  <2>2. QED BY <1>3, <2>1 DEF AdminAddAuthor, TypeOK, files
<1>4. QED BY <1>1, <1>2, <1>3

LEMMA NextTypeOK == TypeOK /\ [Next]_vars => TypeOK'
<1> SUFFICES ASSUME TypeOK, [Next]_vars PROVE TypeOK'
  OBVIOUS
<1>1. CASE UNCHANGED vars
  BY <1>1 DEF vars, TypeOK
<1>2. ASSUME NEW w \in Workers, Handle(w) PROVE TypeOK'
  <2>1. CASE Publish(w)
    BY <2>1, BeginTypeOK, DropTbzTypeOK, SaveTbzTypeOK, DropWmlTypeOK,
       SaveWmlTypeOK, WriteTypeOK, TarTypeOK, StoreTypeOK, SaveTypeOK,
       AuthorStepsTypeOK, LinkTypeOK, LastSavesTypeOK DEF Publish
  <2>2. CASE Remove(w)
    BY <2>2, RemoveBeginTypeOK, UnlinkTypeOK, CommitTypeOK DEF Remove
  <2>3. CASE Download(w)
    BY <2>3, LookUpTypeOK, LastSavesTypeOK DEF Download, DownloadBegin
  <2>4. CASE Rate(w)
    BY <2>4, LookUpTypeOK, RateSaveTypeOK DEF Rate, RateBegin
  <2>5. CASE Fail(w)
    BY <2>5, FaultsTypeOK
  <2>6. QED BY <1>2, <2>1, <2>2, <2>3, <2>4, <2>5 DEF Handle
<1>3. QED BY <1>1, <1>2, FaultsTypeOK DEF Next

\* Every variable, and every local of a request at every point of its handler,
\* holds what the code means it to hold.
THEOREM TypeCorrect == Spec => []TypeOK
BY InitTypeOK, NextTypeOK, PTL DEF Spec

-----------------------------------------------------------------------------
(* Whose file a download returns *)

LEMMA InitOwnFiles == Init => OwnFiles
BY DEF Init, OwnFiles, Idle

\* The steps that change neither rows nor wmls, or only remove from them, and
\* keep the worker's row or drop a file from it.
LEMMA ReadsOwnFiles ==
    ASSUME TypeOK, OwnFiles, NEW w \in Workers,
           \/ \E key \in Ids \cup Titles : DownloadBegin(w, key) \/ RateBegin(w, key)
           \/ \E login \in Logins, key \in Ids \cup Titles : RemoveBegin(w, login, key)
           \/ PublishDropTbz(w) \/ PublishDropWml(w) \/ PublishTar(w)
           \/ PublishClearAuthors(w) \/ PublishFindAuthor(w)
           \/ PublishCreateAuthor(w) \/ PublishLinkAuthor(w)
           \/ RemoveUnlinkTbz(w) \/ RemoveUnlinkWml(w) \/ RemoveCommit(w)
           \/ RateSave(w) \/ Fail(w)
    PROVE  OwnFiles'
<1>1. CASE \/ \E key \in Ids \cup Titles : DownloadBegin(w, key) \/ RateBegin(w, key)
           \/ \E login \in Logins, key \in Ids \cup Titles : RemoveBegin(w, login, key)
  <2>1. PICK i \in Ids, key \in Ids \cup Titles, pc \in Steps, login \in Logins \cup {None} :
           GetAddon(key, i) /\ job' = [job EXCEPT ![w] = Holding(i, pc, login)]
    BY <1>1 DEF DownloadBegin, RateBegin, LookUp, RemoveBegin, Steps
  <2>2. rows[i] # None
    BY <2>1 DEF GetAddon, Named
  <2>3. UNCHANGED <<rows, wmls>>
    BY <1>1 DEF DownloadBegin, RateBegin, LookUp, RemoveBegin, db, files
  <2>4. QED BY <2>1, <2>2, <2>3 DEF OwnFiles, Holding, TypeOK
<1>2. CASE PublishDropTbz(w) \/ PublishDropWml(w)
  <2>1. /\ job'[w].obj = job[w].obj /\ job[w].pc # "idle"
        /\ \A u \in Workers \ {w} : job'[u] = job[u]
    BY <1>2 DEF PublishDropTbz, PublishDropWml, At, Goto, TypeOK, Job
  <2>2. rows' = rows /\ \A p \in Path : wmls'[p] \in {None, wmls[p]}
    BY <1>2 DEF PublishDropTbz, PublishDropWml, TypeOK, db
  <2>3. QED BY <2>1, <2>2 DEF OwnFiles
<1>3. CASE PublishTar(w)
  <2>1. job[w].obj \in Row /\ job[w] \in Job
    BY <1>3 DEF PublishTar, At, TypeOK, LocalsOK
  <2>2. /\ job'[w].obj.wml = job[w].obj.wml /\ job'[w].obj.name = job[w].obj.name
        /\ \A u \in Workers \ {w} : job'[u] = job[u]
    BY <1>3, <2>1 DEF PublishTar, TypeOK, Job, Row
  <2>3. UNCHANGED <<rows, wmls>> /\ job[w].pc # "idle"
    BY <1>3 DEF PublishTar, At, db
  <2>4. QED BY <2>2, <2>3 DEF OwnFiles
<1>4. CASE \/ PublishClearAuthors(w) \/ PublishFindAuthor(w)
           \/ PublishCreateAuthor(w) \/ PublishLinkAuthor(w)
  <2>1. /\ job'[w].obj = job[w].obj /\ job[w].pc # "idle"
        /\ \A u \in Workers \ {w} : job'[u] = job[u]
    <3>1. CASE PublishClearAuthors(w)
      BY <3>1 DEF PublishClearAuthors, At, Goto, TypeOK, Job
    <3>2. CASE PublishFindAuthor(w)
      BY <3>2 DEF PublishFindAuthor, At, Goto, TypeOK, Job
    <3>3. CASE PublishCreateAuthor(w)
      BY <3>3 DEF PublishCreateAuthor, At, Goto, TypeOK, Job
    <3>4. CASE PublishLinkAuthor(w)
      BY <3>4 DEF PublishLinkAuthor, At, Goto, TypeOK, Job
    <3> QED
      BY <1>4, <3>1, <3>2, <3>3, <3>4
  <2>2. UNCHANGED <<rows, wmls>>
    BY <1>4 DEF PublishClearAuthors, PublishFindAuthor, PublishCreateAuthor,
                PublishLinkAuthor, db, files
  <2>3. QED BY <2>1, <2>2 DEF OwnFiles
<1>5. CASE RemoveUnlinkTbz(w) \/ RemoveUnlinkWml(w)
  <2>1. job[w].obj \in Row /\ job[w] \in Job /\ job[w].pc = "unlink"
    BY <1>5 DEF RemoveUnlinkTbz, RemoveUnlinkWml, At, TypeOK, LocalsOK
  <2>2. /\ job'[w].obj.wml \in {None, job[w].obj.wml}
        /\ job'[w].obj.name = job[w].obj.name
        /\ \A u \in Workers \ {w} : job'[u] = job[u]
    BY <1>5, <2>1 DEF RemoveUnlinkTbz, RemoveUnlinkWml, TypeOK, Job, Row
  <2>3. rows' = rows /\ \A p \in Path : wmls'[p] \in {None, wmls[p]}
    BY <1>5 DEF RemoveUnlinkTbz, RemoveUnlinkWml, TypeOK, db
  <2>4. QED BY <2>1, <2>2, <2>3 DEF OwnFiles
<1>6. CASE RemoveCommit(w) \/ RateSave(w) \/ Fail(w)
  <2>1. job'[w].pc = "idle" /\ \A u \in Workers \ {w} : job'[u] = job[u]
    BY <1>6 DEF RemoveCommit, RateSave, Fail, Finish, Idle, TypeOK
  <2>2. wmls' = wmls /\ \A i \in Ids : rows'[i] \in {None, rows[i]}
    BY <1>6 DEF RemoveCommit, RateSave, Fail, TypeOK, db, files
  <2>3. QED BY <2>1, <2>2 DEF OwnFiles
<1>7. QED BY <1>1, <1>2, <1>3, <1>4, <1>5, <1>6

\* The saves: a row of the table becomes the row the worker holds.
LEMMA SavesOwnFiles ==
    ASSUME TypeOK, OwnFiles, NEW w \in Workers,
           \/ PublishSaveTbz(w) \/ PublishSaveWml(w) \/ PublishSave(w)
           \/ PublishFinish(w) \/ DownloadCount(w)
    PROVE  OwnFiles'
<1>1. job[w] \in Job /\ job[w].obj \in Row /\ job[w].pc # "idle"
  BY DEF PublishSaveTbz, PublishSaveWml, PublishSave, PublishFinish,
         DownloadCount, At, TypeOK, LocalsOK
<1>2. PICK i \in Ids, row \in Row :
         /\ rows' = [rows EXCEPT ![i] = row]
         /\ row.name = job[w].obj.name /\ row.wml \in {None, job[w].obj.wml}
  <2>1. CASE PublishSaveTbz(w)
    <3> DEFINE row == [job[w].obj EXCEPT !.tbz = None]
    <3>1. /\ row \in Row /\ row.name = job[w].obj.name
          /\ row.wml \in {None, job[w].obj.wml}
      BY <1>1 DEF Row
    <3>2. job[w].id \in Ids /\ rows' = [rows EXCEPT ![job[w].id] = row]
      BY <2>1 DEF PublishSaveTbz, Save, At, TypeOK, LocalsOK
    <3>3. QED BY <3>1, <3>2
  <2>2. CASE PublishSaveWml(w)
    <3> DEFINE row == [job[w].obj EXCEPT !.wml = None]
    <3>1. /\ row \in Row /\ row.name = job[w].obj.name
          /\ row.wml \in {None, job[w].obj.wml}
      BY <1>1 DEF Row
    <3>2. job[w].id \in Ids /\ rows' = [rows EXCEPT ![job[w].id] = row]
      BY <2>2 DEF PublishSaveWml, Save, At, TypeOK, LocalsOK
    <3>3. QED BY <3>1, <3>2
  <2>3. CASE PublishSave(w)
    BY <1>1, <2>3 DEF PublishSave, Save
  <2>4. CASE PublishFinish(w)
    BY <1>1, <2>4 DEF PublishFinish, Save, At, TypeOK, LocalsOK
  <2>5. CASE DownloadCount(w)
    <3>0. /\ job[w].id \in Ids /\ job[w].obj.downloads < MaxDownloads
          /\ job[w].obj.downloads \in 0..MaxDownloads
      BY <1>1, <2>5 DEF DownloadCount, At, TypeOK, LocalsOK, Row
    <3>1. job[w].obj.downloads + 1 \in 0..MaxDownloads /\ job[w].id \in Ids
      BY <3>0
    <3> DEFINE row == [job[w].obj EXCEPT !.downloads = @ + 1]
    <3>2. row \in Row /\ row.name = job[w].obj.name /\ row.wml = job[w].obj.wml
      BY <1>1, <3>1 DEF Row
    <3>3. rows' = [rows EXCEPT ![job[w].id] = row]
      BY <2>5 DEF DownloadCount, Save
    <3>4. QED BY <3>1, <3>2, <3>3
  <2>6. QED BY <2>1, <2>2, <2>3, <2>4, <2>5
<1>3. wmls' = wmls
  BY DEF PublishSaveTbz, PublishSaveWml, PublishSave, PublishFinish,
         DownloadCount, files
<1>4. /\ \A u \in Workers \ {w} : job'[u] = job[u]
      /\ \/ job'[w].pc = "idle"
         \/ /\ job'[w].obj.name = job[w].obj.name
            /\ job'[w].obj.wml \in {None, job[w].obj.wml}
  <2>1. CASE PublishFinish(w) \/ DownloadCount(w)
    BY <2>1 DEF PublishFinish, DownloadCount, Finish, Idle, TypeOK
  <2>2. CASE PublishSave(w)
    <3>1. PICK k \in Ids : job' = [job EXCEPT ![w].pc = "clear", ![w].id = k]
      BY <2>2 DEF PublishSave
    <3>2. QED BY <1>1, <3>1 DEF TypeOK, Job
  <2>3. CASE PublishSaveTbz(w)
    BY <1>1, <2>3 DEF PublishSaveTbz, TypeOK, Job, Row
  <2>4. CASE PublishSaveWml(w)
    BY <1>1, <2>4 DEF PublishSaveWml, TypeOK, Job, Row
  <2>5. QED BY <2>1, <2>2, <2>3, <2>4
<1>5. \A k \in Ids : rows'[k] \in {rows[k], row}
  BY <1>2 DEF TypeOK
<1>6. QED BY <1>1, <1>2, <1>3, <1>4, <1>5 DEF OwnFiles

\* The steps that write a file, and the one that reads a row to publish anew.
LEMMA WritesOwnFiles ==
    ASSUME TypeOK, OwnFiles, FilesNamedApart, NEW w \in Workers,
           \/ \E login \in Logins, t \in Titles, v \in Versions, r \in Routes,
                 list \in AuthorLists : PublishBegin(w, login, t, v, r, list)
           \/ PublishWrite(w) \/ PublishStore(w)
    PROVE  OwnFiles'
<1>1. ASSUME NEW login \in Logins, NEW t \in Titles, NEW v \in Versions,
             NEW r \in Routes, NEW list \in AuthorLists,
             PublishBegin(w, login, t, v, r, list)
      PROVE  OwnFiles'
  <2>0. PICK i \in Ids \cup {None} :
           /\ Finds(t, i)
           /\ job' = [job EXCEPT ![w] =
                 [pc |-> FileStep(Uploaded(t, i)), login |-> login, ver |-> v,
                  route |-> r, todo |-> AuthorsOf(list, login), id |-> i,
                  obj |-> Uploaded(t, i)]]
    BY <1>1 DEF PublishBegin
  <2>1. /\ Finds(t, i)
        /\ job'[w].obj = Uploaded(t, i)
        /\ \A u \in Workers \ {w} : job'[u] = job[u]
    BY <2>0 DEF TypeOK
  <2>2. CASE i = None
    BY <1>1, <2>1, <2>2 DEF Uploaded, OwnFiles, PublishBegin, db, files
  <2>3. CASE i # None
    <3>1. i \in Ids /\ rows[i] # None /\ rows[i] \in Row
      BY <2>1, <2>3 DEF Finds, Named, TypeOK
    <3>2. /\ Uploaded(t, i).wml = rows[i].wml
          /\ Uploaded(t, i).name = rows[i].name
      BY <2>3, <3>1 DEF Uploaded, Row
    <3>3. QED BY <1>1, <2>1, <3>1, <3>2 DEF OwnFiles, PublishBegin, db, files
  <2>4. QED BY <2>2, <2>3
<1>2. ASSUME PublishWrite(w) \/ PublishStore(w)
      PROVE  OwnFiles'
  <2>1. /\ job[w] \in Job /\ job[w].obj \in Row /\ job[w].pc # "idle"
        /\ job[w].route \in Routes
    BY <1>2 DEF PublishWrite, PublishStore, At, TypeOK, LocalsOK, PublishSteps
  <2> DEFINE c == [title |-> job[w].obj.name, ver |-> job[w].ver]
  <2>2. CASE UNCHANGED wmls /\ Goto(w, "tar") /\ PublishWrite(w)
    BY <2>1, <2>2 DEF PublishWrite, Goto, OwnFiles, TypeOK, Job, db
  <2>3. ASSUME NEW p \in Path, p.base = job[w].obj.name,
               wmls' = [wmls EXCEPT ![p] = c], job'[w].obj.wml = p,
               job'[w].obj.name = job[w].obj.name,
               \A u \in Workers \ {w} : job'[u] = job[u], rows' = rows
        PROVE  OwnFiles'
    BY <2>1, <2>3 DEF OwnFiles, TypeOK
  <2>4. CASE PublishWrite(w) /\ job[w].route = "post"
    <3> DEFINE p == RawPath(job[w].obj.name)
    <3>1. p \in Path /\ p.base = job[w].obj.name
      BY <2>1 DEF RawPath, Path, Row
    <3>2. /\ job'[w].obj.wml = p /\ job'[w].obj.name = job[w].obj.name
          /\ \A u \in Workers \ {w} : job'[u] = job[u]
      BY <2>1, <2>4 DEF PublishWrite, TypeOK, Job, Row
    <3>3. wmls' = [wmls EXCEPT ![p] = c] /\ rows' = rows
      BY <2>4 DEF PublishWrite, db
    <3>4. QED BY <3>1, <3>2, <3>3, <2>3
  <2>5. CASE PublishStore(w)
    <3>0. job[w].route = "form"
      BY <2>5 DEF PublishStore, At, TypeOK, LocalsOK
    <3>1. PICK p \in Path : /\ p.base = FormName[job[w].obj.name]
                            /\ wmls' = [wmls EXCEPT ![p] = c]
                            /\ job' = [job EXCEPT ![w].pc = "save", ![w].obj.wml = p]
      BY <2>5 DEF PublishStore, AvailablePath
    <3>2. p.base = job[w].obj.name
      BY <2>1, <3>0, <3>1 DEF FilesNamedApart, Row
    <3>3. /\ job'[w].obj.wml = p /\ job'[w].obj.name = job[w].obj.name
          /\ \A u \in Workers \ {w} : job'[u] = job[u]
      BY <2>1, <3>1 DEF TypeOK, Job, Row
    <3>4. QED BY <2>5, <3>1, <3>2, <3>3, <2>3 DEF PublishStore, db
  <2>6. QED BY <1>2, <2>2, <2>4, <2>5 DEF PublishWrite
<1>3. QED BY <1>1, <1>2

LEMMA NextOwnFiles ==
    ASSUME FilesNamedApart
    PROVE  TypeOK /\ OwnFiles /\ [Next]_vars => OwnFiles'
<1> SUFFICES ASSUME TypeOK, OwnFiles, [Next]_vars PROVE OwnFiles'
  OBVIOUS
<1>1. CASE UNCHANGED vars
  BY <1>1 DEF vars, OwnFiles
<1>2. ASSUME NEW w \in Workers, Handle(w) PROVE OwnFiles'
  BY <1>2, ReadsOwnFiles, SavesOwnFiles, WritesOwnFiles
  DEF Handle, Publish, Remove, Download, Rate
<1>3. CASE Kill
  BY <1>3 DEF Kill, Idle, OwnFiles, db, files
<1>4. CASE \E n \in Names : AdminAddAuthor(n)
  BY <1>4 DEF AdminAddAuthor, OwnFiles, files
<1>5. QED BY <1>1, <1>2, <1>3, <1>4 DEF Next

LEMMA OwnFilesServe == TypeOK /\ OwnFiles => ServesItsOwn
BY DEF TypeOK, OwnFiles, ServesItsOwn, Listed, Row

\* Unless two titles share a file name, a download of a listed add-on returns
\* that add-on: for any number of workers, and whatever fails or is killed.
THEOREM ServesItsOwnAlways ==
    ASSUME FilesNamedApart
    PROVE  Spec => []ServesItsOwn
<1>1. Spec => [](TypeOK /\ OwnFiles)
  BY InitTypeOK, NextTypeOK, InitOwnFiles, NextOwnFiles, PTL DEF Spec
<1>2. QED BY <1>1, OwnFilesServe, PTL

-----------------------------------------------------------------------------
(* One process: what it knows of the row it works on *)

\* server/run: a single thread.
OneAtATime == \A u, w \in Workers : u = w

\* The row is saved with the new version, authors are still to be linked.
Saved == {"clear", "find", "create", "link", "final"}

Unique == \A i, k \in Ids :
             rows[i] # None /\ rows[k] # None /\ rows[i].name = rows[k].name => i = k

\* The row that was read is still the one under that key; nobody published a
\* title that was new.
Current(j) ==
    j.pc # "idle" =>
       /\ j.id # None => /\ Named(j.id, j.obj.name)
                         /\ rows[j.id].uploads <= j.obj.uploads
                         /\ rows[j.id].downloads <= j.obj.downloads
       /\ j.id = None => \A k \in Ids : ~ Named(k, j.obj.name)
       /\ j.pc \in Saved \cup {"count"} => rows[j.id] = j.obj

\* The sender may publish, and is an author or about to be made one.
Granted(j) ==
    j.pc \in PublishSteps =>
       /\ j.pc \notin Saved /\ j.id # None => j.login \in authors[j.id]
       /\ \/ \E k \in DOMAIN j.todo : j.todo[k] = j.login
          \/ j.pc \in Saved \ {"clear"} /\ j.login \in authors[j.id]
       /\ j.pc = "final" => j.todo = <<>>

\* The row has no wml between the deletion of the old one and the save; from
\* the writing on, the new one is what was sent.
Filed(j) ==
    /\ j.pc \in {"dropTbz", "saveTbz", "dropWml", "saveWml"} =>
          rows[j.id].wml = j.obj.wml /\ rows[j.id].ver = j.obj.ver
    /\ j.pc \in {"write", "tar", "store", "save"} /\ j.id # None =>
          rows[j.id].wml = None
    /\ j.pc \in Saved \cup {"save"} \/ (j.pc = "tar" /\ j.route = "post") =>
          /\ j.obj.wml # None
          /\ wmls[j.obj.wml] = [title |-> j.obj.name, ver |-> j.ver]
    /\ j.pc \in Saved \cup {"store", "save"} => j.obj.ver = j.ver

Knows(j) == Current(j) /\ Granted(j) /\ Filed(j)
Alone == Unique /\ RatingsOfThisAddon /\ \A w \in Workers : Knows(job[w])

LEMMA IdleKnows == Knows(Idle)
BY DEF Knows, Current, Granted, Filed, Idle, PublishSteps, Saved

LEMMA InitAlone == Init => Alone
<1> SUFFICES ASSUME Init PROVE Alone
  OBVIOUS
<1>1. \A w \in Workers : Knows(job[w])
  BY IdleKnows DEF Init
<1>2. Unique /\ RatingsOfThisAddon
  BY DEF Init, Unique, RatingsOfThisAddon
<1> QED
  BY <1>1, <1>2 DEF Alone

\* What is known of one job is known.
LEMMA OneKnows ==
    ASSUME OneAtATime, NEW w \in Workers, Unique', RatingsOfThisAddon', Knows(job[w])'
    PROVE  Alone'
BY DEF OneAtATime, Alone

\* A request ends.
LEMMA EndAlone ==
    ASSUME OneAtATime, TypeOK, Alone, NEW w \in Workers, Finish(w),
           Unique', RatingsOfThisAddon'
    PROVE  Alone'
<1>1. job'[w] = Idle
  BY DEF Finish, TypeOK
<1>2. Knows(job[w])'
  BY <1>1 DEF Knows, Current, Granted, Filed, Idle, PublishSteps, Saved
<1> QED
  BY <1>2, OneKnows

\* A request that reads a row.
LEMMA HoldingAlone ==
    ASSUME OneAtATime, TypeOK, Alone, NEW w \in Workers, NEW i \in Ids,
           NEW pc \in {"unlink", "rate", "count"}, NEW login \in Logins \cup {None},
           rows[i] # None,
           job' = [job EXCEPT ![w] = Holding(i, pc, login)], UNCHANGED <<db, files>>
    PROVE  Alone'
<1>1. /\ job'[w].pc = pc /\ job'[w].id = i /\ job'[w].obj = rows[i]
      /\ UNCHANGED <<rows, ratings>> /\ rows[i] \in Row
  BY DEF Holding, TypeOK, db
<1>2. Current(job[w])'
  BY <1>1 DEF Current, Named, Row, Saved
<1>3. Granted(job[w])' /\ Filed(job[w])'
  BY <1>1 DEF Granted, Filed, PublishSteps, Saved
<1>4. Unique' /\ RatingsOfThisAddon'
  BY <1>1 DEF Alone, Unique, RatingsOfThisAddon, Named
<1> QED
  BY <1>2, <1>3, <1>4, OneKnows DEF Knows

LEMMA LookAlone ==
    ASSUME OneAtATime, TypeOK, Alone, NEW w \in Workers,
           \/ \E key \in Ids \cup Titles : DownloadBegin(w, key) \/ RateBegin(w, key)
           \/ \E login \in Logins, key \in Ids \cup Titles : RemoveBegin(w, login, key)
    PROVE  Alone'
<1>1. PICK i \in Ids, key \in Ids \cup Titles, pc \in {"unlink", "rate", "count"},
           login \in Logins \cup {None} :
         GetAddon(key, i) /\ job' = [job EXCEPT ![w] = Holding(i, pc, login)]
  BY DEF DownloadBegin, RateBegin, LookUp, RemoveBegin
<1>2. rows[i] # None
  BY <1>1 DEF GetAddon, Named
<1>3. UNCHANGED <<db, files>>
  BY DEF DownloadBegin, RateBegin, LookUp, RemoveBegin
<1> QED
  BY <1>1, <1>2, <1>3, HoldingAlone

LEMMA BeginAlone ==
    ASSUME OneAtATime, TypeOK, Alone, NEW w \in Workers, NEW login \in Logins,
           NEW t \in Titles, NEW v \in Versions, NEW r \in Routes,
           NEW list \in AuthorLists, PublishBegin(w, login, t, v, r, list)
    PROVE  Alone'
<1>1. PICK i \in Ids \cup {None} :
         /\ Finds(t, i)
         /\ i # None => login \in authors[i]
         /\ job' = [job EXCEPT ![w] =
               [pc |-> FileStep(Uploaded(t, i)), login |-> login, ver |-> v,
                route |-> r, todo |-> AuthorsOf(list, login), id |-> i,
                obj |-> Uploaded(t, i)]]
  BY DEF PublishBegin, MayPublish
<1> DEFINE obj == Uploaded(t, i)
<1>2. /\ job'[w].pc = FileStep(obj) /\ job'[w].login = login /\ job'[w].id = i
      /\ job'[w].obj = obj /\ job'[w].todo = AuthorsOf(list, login)
      /\ UNCHANGED <<rows, authors, ratings>>
  BY <1>1 DEF PublishBegin, TypeOK, db
<1>3. FileStep(obj) \in {"dropTbz", "dropWml", "write"}
      /\ (FileStep(obj) = "write" => obj.wml = None)
  BY DEF FileStep
<1>4. /\ i # None => /\ rows[i] # None /\ rows[i].name = t
                     /\ obj.name = t /\ obj.wml = rows[i].wml /\ obj.ver = rows[i].ver
                     /\ rows[i].uploads <= obj.uploads /\ rows[i].downloads <= obj.downloads
      /\ i = None => obj.name = t /\ FileStep(obj) = "write"
  <2>1. CASE i # None
    <3>1. i \in Ids /\ Named(i, t)
      BY <1>1, <2>1 DEF Finds
    <3>2. rows[i] # None /\ rows[i].name = t /\ rows[i] \in Row
      BY <3>1 DEF Named, TypeOK
    <3> QED
      BY <3>2, <2>1 DEF Uploaded, Row
  <2>2. CASE i = None
    BY <2>2 DEF Uploaded, FileStep
  <2> QED
    BY <2>1, <2>2
<1>5. \E k \in DOMAIN AuthorsOf(list, login) : AuthorsOf(list, login)[k] = login
  <2>1. list \in Seq(Names) /\ login \in Names
    OBVIOUS
  <2>2. Append(list, login)[Len(list) + 1] = login
        /\ Len(list) + 1 \in DOMAIN Append(list, login)
    BY <2>1
  <2> QED
    BY <2>1, <2>2 DEF AuthorsOf
<1>0. /\ i # None => i \in Ids /\ login \in authors[i]
      /\ i = None => \A k \in Ids : ~ Named(k, t)
  BY <1>1 DEF Finds
<1> HIDE DEF obj
<1>6. Current(job[w])'
  BY <1>0, <1>2, <1>3, <1>4 DEF Current, Named, Saved
<1>7. Granted(job[w])'
  BY <1>0, <1>2, <1>3, <1>5 DEF Granted, PublishSteps, Saved
<1>8. Filed(job[w])'
  BY <1>2, <1>3, <1>4 DEF Filed, Saved
<1>9. Unique' /\ RatingsOfThisAddon'
  BY <1>2 DEF Alone, Unique, RatingsOfThisAddon, Named
<1> QED
  BY <1>6, <1>7, <1>8, <1>9, OneKnows DEF Knows

LEMMA JobOf == ASSUME TypeOK, NEW w \in Workers
               PROVE  job[w] \in Job /\ LocalsOK(job[w])
BY DEF TypeOK

\* A row is saved: under the same name as before, that no other row has.
LEMMA RowSaved ==
    ASSUME TypeOK, Alone, NEW i \in Ids, NEW row \in Row, Save(i, row),
           Storable(i, row.name), rows[i] # None => rows[i].name = row.name,
           ratings' = ratings
    PROVE  /\ Unique' /\ RatingsOfThisAddon'
           /\ rows'[i] = row /\ \A k \in Ids \ {i} : rows'[k] = rows[k]
<1>1. rows'[i] = row /\ \A k \in Ids \ {i} : rows'[k] = rows[k]
  BY DEF Save, TypeOK
<1>2. Unique'
  BY <1>1 DEF Alone, Unique, Storable, Named
<1>3. RatingsOfThisAddon'
  BY <1>1 DEF Alone, RatingsOfThisAddon, Named
<1> QED
  BY <1>1, <1>2, <1>3

\* Files are deleted.
LEMMA DropAlone ==
    ASSUME OneAtATime, TypeOK, Alone, NEW w \in Workers,
           PublishDropTbz(w) \/ PublishDropWml(w)
    PROVE  Alone'
<1>1. /\ job[w] \in Job /\ LocalsOK(job[w]) /\ Knows(job[w])
      /\ job[w].pc \in {"dropTbz", "dropWml"}
  BY JobOf DEF PublishDropTbz, PublishDropWml, At, Alone
<1>2. /\ Goto(w, "saveTbz") \/ Goto(w, "saveWml")
      /\ UNCHANGED <<rows, authors, ratings>>
  BY DEF PublishDropTbz, PublishDropWml, db
<1>3. /\ job'[w].id = job[w].id /\ job'[w].obj = job[w].obj /\ job'[w].login = job[w].login
      /\ job'[w].todo = job[w].todo /\ job'[w].pc \in {"saveTbz", "saveWml"}
  BY <1>1, <1>2 DEF Goto, TypeOK, Job
<1>4. Current(job[w])'
  BY <1>1, <1>2, <1>3 DEF Knows, Current, Named, Saved
<1>5. Granted(job[w])'
  BY <1>1, <1>2, <1>3 DEF Knows, Granted, PublishSteps, Saved
<1>6. Filed(job[w])'
  BY <1>1, <1>2, <1>3 DEF Knows, Filed, Saved
<1>7. Unique' /\ RatingsOfThisAddon'
  BY <1>2 DEF Alone, Unique, RatingsOfThisAddon, Named
<1> QED
  BY <1>4, <1>5, <1>6, <1>7, OneKnows DEF Knows

\* The row is saved without its archive, or without its wml.
LEMMA SaveDroppedAlone ==
    ASSUME OneAtATime, TypeOK, Alone, NEW w \in Workers,
           PublishSaveTbz(w) \/ PublishSaveWml(w)
    PROVE  Alone'
<1> DEFINE j == job[w]
<1>1. /\ j \in Job /\ LocalsOK(j) /\ Knows(j)
      /\ j.pc \in {"saveTbz", "saveWml"} /\ j.id \in Ids /\ j.obj \in Row
  BY JobOf DEF PublishSaveTbz, PublishSaveWml, At, Alone, LocalsOK
<1>2. PICK row \in Row :
         /\ Storable(j.id, j.obj.name) /\ Save(j.id, row)
         /\ row = [j.obj EXCEPT !.tbz = row.tbz, !.wml = row.wml]
         /\ \E pc \in Steps : job' = [job EXCEPT ![w].pc = pc, ![w].obj = row]
         /\ \/ j.pc = "saveTbz" /\ row.wml = j.obj.wml /\ job'[w].pc = FileStep(row)
            \/ row.wml = None /\ job'[w].pc = "write"
  <2>1. CASE PublishSaveTbz(w)
    <3> DEFINE row == [j.obj EXCEPT !.tbz = None]
    <3>1. row \in Row /\ row = [j.obj EXCEPT !.tbz = row.tbz, !.wml = row.wml]
          /\ row.wml = j.obj.wml
      BY <1>1 DEF Row
    <3>2. job' = [job EXCEPT ![w] = [j EXCEPT !.pc = FileStep(row), !.obj = row]]
      BY <1>1, <2>1 DEF PublishSaveTbz, TypeOK, Job
    <3>3. job'[w].pc = FileStep(row)
      BY <1>1, <3>2 DEF TypeOK, Job
    <3>4. FileStep(row) \in Steps
      BY DEF FileStep, Steps, PublishSteps
    <3>5. /\ job' = [job EXCEPT ![w].pc = FileStep(row), ![w].obj = row]
          /\ Storable(j.id, j.obj.name) /\ Save(j.id, row) /\ j.pc = "saveTbz"
      BY <1>1, <2>1, <3>1 DEF PublishSaveTbz, At, Row
    <3> HIDE DEF row
    <3> QED
      BY <3>1, <3>3, <3>4, <3>5
  <2>2. CASE PublishSaveWml(w)
    <3> DEFINE row == [j.obj EXCEPT !.wml = None]
    <3>1. row \in Row /\ row = [j.obj EXCEPT !.tbz = row.tbz, !.wml = row.wml]
          /\ row.wml = None
      BY <1>1 DEF Row
    <3>2. job'[w].pc = "write"
      BY <1>1, <2>2 DEF PublishSaveWml, TypeOK, Job
    <3>3. "write" \in Steps
      BY DEF Steps, PublishSteps
    <3>4. /\ job' = [job EXCEPT ![w].pc = "write", ![w].obj = row]
          /\ Storable(j.id, j.obj.name) /\ Save(j.id, row)
      BY <1>1, <2>2, <3>1 DEF PublishSaveWml, Row
    <3> HIDE DEF row
    <3> QED
      BY <3>1, <3>2, <3>3, <3>4
  <2> QED
    BY <2>1, <2>2
<1>3. /\ row.name = j.obj.name /\ row.uploads = j.obj.uploads
      /\ row.downloads = j.obj.downloads /\ row.ver = j.obj.ver
  BY <1>1, <1>2 DEF Row
<1>4. /\ job'[w].id = j.id /\ job'[w].obj = row /\ job'[w].login = j.login
      /\ job'[w].todo = j.todo /\ job'[w].route = j.route /\ job'[w].ver = j.ver
  BY <1>1, <1>2 DEF TypeOK, Job
<1>5. /\ job'[w].pc \in {"dropTbz", "dropWml", "write"}
      /\ job'[w].pc = "write" => row.wml = None
  BY <1>2 DEF FileStep
<1>6. UNCHANGED <<authors, ratings>>
  BY DEF PublishSaveTbz, PublishSaveWml
<1>7. /\ Unique' /\ RatingsOfThisAddon' /\ rows'[j.id] = row
  BY <1>1, <1>2, <1>3, <1>6, RowSaved DEF Knows, Current, Named
<1> HIDE DEF j
<1>8. Current(job[w])'
  BY <1>1, <1>3, <1>4, <1>5, <1>7 DEF Current, Named, Saved, Row
<1>9. Granted(job[w])'
  BY <1>1, <1>4, <1>5, <1>6 DEF Knows, Granted, PublishSteps, Saved
<1>10. Filed(job[w])'
  BY <1>4, <1>5, <1>7 DEF Filed, Saved
<1> QED
  BY <1>7, <1>8, <1>9, <1>10, OneKnows DEF Knows

\* Files are written: the steps that leave the table alone.
LEMMA WriteAlone ==
    ASSUME OneAtATime, TypeOK, Alone, NEW w \in Workers,
           PublishWrite(w) \/ PublishTar(w) \/ PublishStore(w)
    PROVE  Alone'
<1> DEFINE j == job[w]
           content == [title |-> j.obj.name, ver |-> j.ver]
<1>1. /\ j \in Job /\ LocalsOK(j) /\ Knows(j) /\ j.obj \in Row
      /\ j.pc \in {"write", "tar", "store"} /\ j.route \in {"post", "form"}
  BY JobOf DEF PublishWrite, PublishTar, PublishStore, At, Alone, LocalsOK, PublishSteps
<1>2. UNCHANGED <<rows, authors, ratings>>
  BY DEF PublishWrite, PublishTar, PublishStore, db
<1>3. /\ job'[w].id = j.id /\ job'[w].login = j.login
      /\ job'[w].todo = j.todo /\ job'[w].route = j.route /\ job'[w].ver = j.ver
      /\ job'[w].obj.name = j.obj.name /\ job'[w].obj.uploads = j.obj.uploads
      /\ job'[w].obj.downloads = j.obj.downloads
      /\ job'[w].pc \in {"tar", "store", "save"}
  <2>1. CASE PublishWrite(w)
    <3>1. \/ job' = [job EXCEPT ![w].pc = "tar", ![w].obj.wml = RawPath(j.obj.name)]
          \/ job' = [job EXCEPT ![w].pc = "tar"]
      BY <2>1 DEF PublishWrite, Goto
    <3>2. CASE job' = [job EXCEPT ![w].pc = "tar"]
      BY <1>1, <3>2 DEF TypeOK, Job
    <3>3. CASE job' = [job EXCEPT ![w].pc = "tar", ![w].obj.wml = RawPath(j.obj.name)]
      BY <1>1, <3>3 DEF TypeOK, Job, Row
    <3> QED
      BY <3>1, <3>2, <3>3
  <2>2. CASE PublishTar(w)
    BY <1>1, <2>2 DEF PublishTar, AfterTar, TypeOK, Job, Row
  <2>3. CASE PublishStore(w)
    <3>1. PICK p \in Path : job' = [job EXCEPT ![w].pc = "save", ![w].obj.wml = p]
      BY <2>3 DEF PublishStore
    <3> QED
      BY <1>1, <3>1 DEF TypeOK, Job, Row
  <2> QED
    BY <2>1, <2>2, <2>3
<1>4. Current(job[w])'
  BY <1>1, <1>2, <1>3 DEF Knows, Current, Named, Saved
<1>5. Granted(job[w])'
  BY <1>1, <1>2, <1>3 DEF Knows, Granted, PublishSteps, Saved
<1>6. Filed(job[w])'
  <2>1. job'[w].id # None => rows'[job'[w].id].wml = None
    BY <1>1, <1>2, <1>3 DEF Knows, Filed
  <2>2. CASE PublishWrite(w)
    <3>1. job'[w].pc = "tar"
      BY <1>1, <2>2 DEF PublishWrite, Goto, TypeOK, Job
    <3>2. ASSUME j.route = "post"
          PROVE  /\ job'[w].obj.wml = RawPath(j.obj.name)
                 /\ wmls'[RawPath(j.obj.name)] = content /\ RawPath(j.obj.name) # None
      <4>1. RawPath(j.obj.name) \in Path
        BY <1>1 DEF RawPath, Path, Row
      <4> QED
        BY <1>1, <2>2, <3>2, <4>1 DEF PublishWrite, TypeOK, Job, Row
    <3> QED
      BY <2>1, <3>1, <3>2, <1>3 DEF Filed, Saved
  <2>3. CASE PublishTar(w)
    <3>1. /\ job'[w].pc = AfterTar(j.route) /\ job'[w].obj.ver = j.ver
          /\ job'[w].obj.wml = j.obj.wml /\ wmls' = wmls /\ j.pc = "tar"
      BY <1>1, <2>3 DEF PublishTar, At, TypeOK, Job, Row
    <3> QED
      BY <1>1, <1>3, <2>1, <3>1 DEF Knows, Filed, AfterTar, Saved
  <2>4. CASE PublishStore(w)
    <3>1. PICK p \in Path : /\ wmls' = [wmls EXCEPT ![p] = content]
                            /\ job' = [job EXCEPT ![w].pc = "save", ![w].obj.wml = p]
      BY <2>4 DEF PublishStore
    <3>0. j.pc = "store"
      BY <2>4 DEF PublishStore, At
    <3>2. /\ job'[w].pc = "save" /\ job'[w].obj.wml = p /\ job'[w].obj.ver = j.obj.ver
      BY <1>1, <3>1 DEF TypeOK, Job, Row
    <3>3. wmls'[p] = content /\ p # None
      BY <3>1 DEF TypeOK
    <3> QED
      BY <1>1, <1>3, <2>1, <3>0, <3>2, <3>3 DEF Knows, Filed, Saved
  <2> QED
    BY <2>2, <2>3, <2>4
<1>7. Unique' /\ RatingsOfThisAddon'
  BY <1>2 DEF Alone, Unique, RatingsOfThisAddon, Named
<1> QED
  BY <1>4, <1>5, <1>6, <1>7, OneKnows DEF Knows

\* The row is saved with what was sent; a new title gets a key that none has.
LEMMA SaveAlone ==
    ASSUME OneAtATime, TypeOK, Alone, NEW w \in Workers, PublishSave(w)
    PROVE  Alone'
<1> DEFINE j == job[w]
<1>1. /\ j \in Job /\ LocalsOK(j) /\ Knows(j) /\ j.obj \in Row /\ j.pc = "save"
  BY JobOf DEF PublishSave, At, Alone, LocalsOK
<1>2. PICK i \in Ids :
         /\ IF j.id = None THEN NextId(i) ELSE i = j.id
         /\ Storable(i, j.obj.name) /\ Save(i, j.obj)
         /\ job' = [job EXCEPT ![w].pc = "clear", ![w].id = i]
  BY DEF PublishSave
<1>3. /\ job'[w].pc = "clear" /\ job'[w].id = i /\ job'[w].obj = j.obj
      /\ job'[w].login = j.login /\ job'[w].todo = j.todo /\ job'[w].ver = j.ver
      /\ job'[w].route = j.route
  BY <1>1, <1>2 DEF TypeOK, Job
<1>4. UNCHANGED <<authors, ratings, wmls>>
  BY DEF PublishSave, files
<1>5. rows[i] # None => rows[i].name = j.obj.name
  BY <1>1, <1>2 DEF NextId, Knows, Current, Named
<1>6. Unique' /\ RatingsOfThisAddon' /\ rows'[i] = j.obj
  BY <1>1, <1>2, <1>4, <1>5, RowSaved
<1> HIDE DEF j
<1>7. Current(job[w])'
  BY <1>1, <1>3, <1>6 DEF Current, Named, Saved, Row
<1>8. Granted(job[w])'
  BY <1>1, <1>3, <1>4 DEF Knows, Granted, PublishSteps, Saved
<1>9. Filed(job[w])'
  BY <1>1, <1>3, <1>4 DEF Knows, Filed, Saved
<1> QED
  BY <1>6, <1>7, <1>8, <1>9, OneKnows DEF Knows

\* The authors are cleared, looked for, made and linked.
LEMMA AuthorsAlone ==
    ASSUME OneAtATime, TypeOK, Alone, NEW w \in Workers,
           \/ PublishClearAuthors(w) \/ PublishFindAuthor(w)
           \/ PublishCreateAuthor(w) \/ PublishLinkAuthor(w)
    PROVE  Alone'
<1> DEFINE j == job[w]
<1>1. /\ j \in Job /\ LocalsOK(j) /\ Knows(j) /\ j.obj \in Row /\ j.id \in Ids
      /\ j.pc \in {"clear", "find", "create", "link"}
      /\ j.todo \in Seq(Names) /\ j.todo # <<>>
  BY JobOf DEF PublishClearAuthors, PublishFindAuthor, PublishCreateAuthor,
               PublishLinkAuthor, At, Alone, LocalsOK, PublishSteps, Job
<1>2. UNCHANGED <<rows, ratings, wmls>>
  BY DEF PublishClearAuthors, PublishFindAuthor, PublishCreateAuthor,
         PublishLinkAuthor, db, files
<1>3. /\ job'[w].id = j.id /\ job'[w].obj = j.obj /\ job'[w].login = j.login
      /\ job'[w].ver = j.ver /\ job'[w].route = j.route
      /\ job'[w].pc \in {"find", "create", "link", "final"}
  <2>1. CASE PublishLinkAuthor(w)
    <3> DEFINE rest == Tail(j.todo)
               pc == IF rest = <<>> THEN "final" ELSE "find"
    <3>1. job' = [job EXCEPT ![w].pc = pc, ![w].todo = rest]
      BY <2>1 DEF PublishLinkAuthor
    <3>2. pc \in {"find", "final"}
      OBVIOUS
    <3> HIDE DEF pc, rest
    <3> QED
      BY <1>1, <3>1, <3>2 DEF TypeOK, Job
  <2>2. CASE ~ PublishLinkAuthor(w)
    <3>1. PICK pc \in {"find", "create", "link"} : Goto(w, pc)
      BY <2>2 DEF PublishClearAuthors, PublishFindAuthor, PublishCreateAuthor
    <3> QED
      BY <1>1, <3>1 DEF Goto, TypeOK, Job
  <2> QED
    BY <2>1, <2>2
<1>4. Current(job[w])'
  BY <1>1, <1>2, <1>3 DEF Knows, Current, Named, Saved
<1>5. Granted(job[w])'
  <2>1. CASE PublishLinkAuthor(w)
    <3> DEFINE rest == Tail(j.todo)
    <3>1. job' = [job EXCEPT ![w].pc = IF rest = <<>> THEN "final" ELSE "find",
                             ![w].todo = rest]
      BY <2>1 DEF PublishLinkAuthor
    <3>2. /\ job'[w].todo = rest
          /\ job'[w].pc = IF rest = <<>> THEN "final" ELSE "find"
      BY <1>1, <3>1 DEF TypeOK, Job
    <3>3. authors'[j.id] = authors[j.id] \cup {Head(j.todo)}
      BY <1>1, <2>1 DEF PublishLinkAuthor, TypeOK
    <3>4. ASSUME NEW k \in DOMAIN j.todo
          PROVE  j.todo[k] = Head(j.todo) \/ \E l \in DOMAIN rest : rest[l] = j.todo[k]
      <4>1. CASE k = 1
        BY <1>1, <4>1
      <4>2. CASE k # 1
        <5>1. k - 1 \in DOMAIN rest /\ rest[k - 1] = j.todo[k]
          BY <1>1, <4>2
        <5> QED
          BY <5>1
      <4> QED
        BY <4>1, <4>2
    <3>5. j.pc = "link"
      BY <2>1 DEF PublishLinkAuthor, At
    <3> HIDE DEF rest
    <3> QED
      BY <1>1, <1>3, <3>2, <3>3, <3>4, <3>5 DEF Knows, Granted, PublishSteps, Saved
  <2>2. CASE PublishClearAuthors(w)
    <3>1. job'[w].pc = "find" /\ job'[w].todo = j.todo /\ j.pc = "clear"
      BY <1>1, <2>2 DEF PublishClearAuthors, At, Goto, TypeOK, Job
    <3> QED
      BY <1>1, <1>3, <3>1 DEF Knows, Granted, PublishSteps, Saved
  <2>3. CASE PublishFindAuthor(w) \/ PublishCreateAuthor(w)
    <3>1. PICK pc \in {"create", "link"} : Goto(w, pc)
      BY <2>3 DEF PublishFindAuthor, PublishCreateAuthor
    <3>2. job'[w].pc = pc /\ job'[w].todo = j.todo /\ j.pc \in {"find", "create"}
      BY <1>1, <2>3, <3>1 DEF PublishFindAuthor, PublishCreateAuthor, At, Goto, TypeOK, Job
    <3>3. authors' = authors
      BY <2>3 DEF PublishFindAuthor, PublishCreateAuthor, db
    <3> QED
      BY <1>1, <1>3, <3>2, <3>3 DEF Knows, Granted, PublishSteps, Saved
  <2> QED
    BY <2>1, <2>2, <2>3
<1>6. Filed(job[w])'
  BY <1>1, <1>2, <1>3 DEF Knows, Filed, Saved
<1>7. Unique' /\ RatingsOfThisAddon'
  BY <1>2 DEF Alone, Unique, RatingsOfThisAddon, Named
<1> QED
  BY <1>4, <1>5, <1>6, <1>7, OneKnows DEF Knows

\* The last save of publish, and that of a download.
LEMMA LastSaves ==
    ASSUME TypeOK, NEW w \in Workers, PublishFinish(w) \/ DownloadCount(w)
    PROVE  /\ job[w].id \in Ids /\ job[w].obj \in Row
           /\ job[w].pc \in {"final", "count"} /\ Finish(w)
           /\ Storable(job[w].id, job[w].obj.name)
           /\ UNCHANGED <<authors, ratings, files>>
           /\ \E n \in 0..MaxDownloads :
                 /\ n >= job[w].obj.downloads
                 /\ [job[w].obj EXCEPT !.downloads = n] \in Row
                 /\ Save(job[w].id, [job[w].obj EXCEPT !.downloads = n])
<1>1. /\ job[w] \in Job /\ LocalsOK(job[w]) /\ job[w].obj \in Row /\ job[w].id \in Ids
      /\ job[w].pc \in {"final", "count"}
  BY JobOf DEF PublishFinish, DownloadCount, At, LocalsOK
<1>2. CASE PublishFinish(w)
  <2> DEFINE n == job[w].obj.downloads
  <2>1. n \in 0..MaxDownloads /\ [job[w].obj EXCEPT !.downloads = n] = job[w].obj
    BY <1>1 DEF Row
  <2> QED
    BY <1>1, <1>2, <2>1 DEF PublishFinish
<1>3. CASE DownloadCount(w)
  <2> DEFINE n == job[w].obj.downloads + 1
  <2>1. job[w].obj.downloads \in 0..MaxDownloads /\ job[w].obj.downloads < MaxDownloads
    BY <1>1, <1>3 DEF DownloadCount, At, LocalsOK, Row
  <2>2. n \in 0..MaxDownloads /\ n >= job[w].obj.downloads
    BY <2>1
  <2>3. [job[w].obj EXCEPT !.downloads = n] \in Row
    BY <1>1, <2>2 DEF Row
  <2>4. Save(job[w].id, [job[w].obj EXCEPT !.downloads = n])
    BY <1>3 DEF DownloadCount
  <2> HIDE DEF n
  <2> QED
    BY <1>1, <1>3, <2>2, <2>3, <2>4 DEF DownloadCount
<1> QED
  BY <1>2, <1>3

LEMMA LastSavesAlone ==
    ASSUME OneAtATime, TypeOK, Alone, NEW w \in Workers, PublishFinish(w) \/ DownloadCount(w)
    PROVE  Alone'
<1>1. PICK n \in 0..MaxDownloads :
         /\ [job[w].obj EXCEPT !.downloads = n] \in Row
         /\ Save(job[w].id, [job[w].obj EXCEPT !.downloads = n])
  BY LastSaves
<1> DEFINE row == [job[w].obj EXCEPT !.downloads = n]
<1>2. /\ job[w].id \in Ids /\ job[w].obj \in Row /\ Finish(w) /\ ratings' = ratings
      /\ Storable(job[w].id, job[w].obj.name) /\ job[w].pc \in {"final", "count"}
  BY LastSaves
<1>3. row.name = job[w].obj.name
  BY <1>2 DEF Row
<1>4. Named(job[w].id, job[w].obj.name)
  BY <1>2 DEF Alone, Knows, Current
<1> HIDE DEF row
<1>5. Unique' /\ RatingsOfThisAddon'
  BY <1>1, <1>2, <1>3, <1>4, RowSaved DEF Named, row
<1> QED
  BY <1>2, <1>5, EndAlone

LEMMA RemoveAlone ==
    ASSUME OneAtATime, TypeOK, Alone, NEW w \in Workers,
           RemoveUnlinkTbz(w) \/ RemoveUnlinkWml(w) \/ RemoveCommit(w)
    PROVE  Alone'
<1> DEFINE j == job[w]
<1>1. /\ j \in Job /\ LocalsOK(j) /\ Knows(j) /\ j.obj \in Row /\ j.id \in Ids
      /\ j.pc = "unlink"
  BY JobOf DEF RemoveUnlinkTbz, RemoveUnlinkWml, RemoveCommit, At, Alone, LocalsOK
<1>2. CASE RemoveUnlinkTbz(w) \/ RemoveUnlinkWml(w)
  <2>1. \/ job' = [job EXCEPT ![w].obj.tbz = None]
        \/ job' = [job EXCEPT ![w].obj.wml = None]
    BY <1>2 DEF RemoveUnlinkTbz, RemoveUnlinkWml
  <2>2. /\ job'[w].id = j.id /\ job'[w].pc = "unlink"
        /\ job'[w].obj.name = j.obj.name /\ job'[w].obj.uploads = j.obj.uploads
        /\ job'[w].obj.downloads = j.obj.downloads
    <3>1. CASE job' = [job EXCEPT ![w].obj.tbz = None]
      BY <1>1, <3>1 DEF TypeOK, Job, Row
    <3>2. CASE job' = [job EXCEPT ![w].obj.wml = None]
      BY <1>1, <3>2 DEF TypeOK, Job, Row
    <3> QED
      BY <2>1, <3>1, <3>2
  <2>3. UNCHANGED <<rows, authors, ratings>>
    BY <1>2 DEF RemoveUnlinkTbz, RemoveUnlinkWml, db
  <2>4. Current(job[w])'
    BY <1>1, <2>2, <2>3 DEF Knows, Current, Named, Saved
  <2>5. Granted(job[w])' /\ Filed(job[w])'
    BY <2>2 DEF Granted, Filed, PublishSteps, Saved
  <2>6. Unique' /\ RatingsOfThisAddon'
    BY <2>3 DEF Alone, Unique, RatingsOfThisAddon, Named
  <2> QED
    BY <2>4, <2>5, <2>6, OneKnows DEF Knows
<1>3. CASE RemoveCommit(w)
  <2>1. /\ rows'[j.id] = None /\ \A k \in Ids \ {j.id} : rows'[k] = rows[k]
        /\ ratings'[j.id] = [t \in Titles |-> 0]
        /\ \A k \in Ids \ {j.id} : ratings'[k] = ratings[k]
    BY <1>1, <1>3 DEF RemoveCommit, TypeOK
  <2>2. Unique'
    BY <2>1 DEF Alone, Unique
  <2>3. RatingsOfThisAddon'
    BY <2>1 DEF Alone, RatingsOfThisAddon, Named
  <2> QED
    BY <1>3, <2>2, <2>3, EndAlone DEF RemoveCommit
<1> QED
  BY <1>2, <1>3

\* A rating is given to the add-on that was looked up.
LEMMA RateAlone ==
    ASSUME OneAtATime, TypeOK, Alone, NEW w \in Workers, RateSave(w)
    PROVE  Alone'
<1> DEFINE i == job[w].id
           t == job[w].obj.name
<1>1. /\ i \in Ids /\ job[w].obj \in Row /\ Named(i, t)
  BY JobOf DEF RateSave, At, Alone, LocalsOK, Knows, Current
<1>2. t \in Titles
  BY <1>1 DEF Row
<1>3. /\ rows' = rows /\ ratings' = [ratings EXCEPT ![i][t] = @ + 1]
  BY DEF RateSave
<1>4. \A k \in Ids, x \in Titles : <<k, x>> # <<i, t>> => ratings'[k][x] = ratings[k][x]
  BY <1>1, <1>2, <1>3 DEF TypeOK
<1> HIDE DEF i, t
<1>5. Unique' /\ RatingsOfThisAddon'
  BY <1>1, <1>3, <1>4 DEF Alone, Unique, RatingsOfThisAddon, Named
<1> QED
  BY <1>5, EndAlone DEF RateSave

LEMMA NextAlone ==
    ASSUME OneAtATime
    PROVE  TypeOK /\ Alone /\ [Next]_vars => Alone'
<1> SUFFICES ASSUME TypeOK, Alone, [Next]_vars PROVE Alone'
  OBVIOUS
<1>1. CASE UNCHANGED vars
  BY <1>1 DEF vars, Alone, Unique, RatingsOfThisAddon, Named, Knows, Current, Granted, Filed
<1>2. ASSUME NEW w \in Workers, Handle(w) PROVE Alone'
  <2>1. CASE Publish(w)
    BY <2>1, BeginAlone, DropAlone, SaveDroppedAlone, WriteAlone, SaveAlone,
       AuthorsAlone, LastSavesAlone DEF Publish
  <2>2. CASE Remove(w) \/ Download(w) \/ Rate(w)
    BY <2>2, LookAlone, RemoveAlone, LastSavesAlone, RateAlone DEF Remove, Download, Rate
  <2>3. CASE Fail(w)
    <3>1. Unique' /\ RatingsOfThisAddon'
      BY <2>3 DEF Fail, db, Alone, Unique, RatingsOfThisAddon, Named
    <3> QED
      BY <2>3, <3>1, EndAlone DEF Fail
  <2> QED
    BY <1>2, <2>1, <2>2, <2>3 DEF Handle
<1>3. CASE Kill
  <2>1. \A w \in Workers : job'[w] = Idle
    BY <1>3 DEF Kill
  <2>2. \A w \in Workers : Knows(job[w])'
    BY <2>1 DEF Knows, Current, Granted, Filed, Idle, PublishSteps, Saved
  <2>3. Unique' /\ RatingsOfThisAddon'
    BY <1>3 DEF Kill, db, Alone, Unique, RatingsOfThisAddon, Named
  <2> QED
    BY <2>2, <2>3 DEF Alone
<1>4. CASE \E n \in Names : AdminAddAuthor(n)
  BY <1>4 DEF AdminAddAuthor, files, Alone, Unique, RatingsOfThisAddon, Named, Knows,
              Current, Granted, Filed
<1> QED
  BY <1>1, <1>2, <1>3, <1>4 DEF Next

LEMMA AloneAlways == ASSUME OneAtATime PROVE Spec => [](TypeOK /\ Alone)
BY InitTypeOK, NextTypeOK, InitAlone, NextAlone, PTL DEF Spec

\* Whoever is replacing an add-on stays one of its authors until publish clears
\* them (views.py:226, 276): in the one process that server/run starts,
\* whatever fails or is killed.
THEOREM UpdaterIsAuthorAlways ==
    ASSUME OneAtATime
    PROVE  Spec => []UpdaterIsAuthor
<1>1. TypeOK /\ Alone => UpdaterIsAuthor
  BY DEF TypeOK, Alone, Knows, Current, Granted, UpdaterIsAuthor, PublishSteps, Saved
<1> QED
  BY <1>1, AloneAlways, PTL

\* Ratings are those of the add-on that has the key, though keys are used again
\* (views.py:111-119).
THEOREM RatingsOfThisAddonAlways ==
    ASSUME OneAtATime
    PROVE  Spec => []RatingsOfThisAddon
<1>1. Alone => RatingsOfThisAddon
  BY DEF Alone
<1> QED
  BY <1>1, AloneAlways, PTL

\* What publish reports as published is listed and served, and its sender is an
\* author (views.py:287-292).
THEOREM PublishedIsServedAlways ==
    ASSUME OneAtATime
    PROVE  Spec => []PublishedIsServed
<1>1. TypeOK /\ Alone => PublishedIsServed
  <2> SUFFICES ASSUME TypeOK, Alone, NEW w \in Workers, job[w].pc = "final"
               PROVE  /\ Listed(job[w].id)
                      /\ wmls[rows[job[w].id].wml] = [title |-> job[w].obj.name, ver |-> job[w].ver]
                      /\ job[w].login \in authors[job[w].id]
    BY DEF PublishedIsServed, At
  <2>1. Knows(job[w]) /\ LocalsOK(job[w]) /\ job[w].id \in Ids /\ job[w] \in Job
    BY JobOf DEF Alone, LocalsOK
  <2>2. /\ rows[job[w].id] = job[w].obj /\ job[w].obj.wml # None /\ job[w].todo = <<>>
        /\ wmls[job[w].obj.wml] = [title |-> job[w].obj.name, ver |-> job[w].ver]
        /\ rows[job[w].id] # None
    BY <2>1 DEF Knows, Current, Granted, Filed, Named, Saved, PublishSteps
  <2>3. job[w].login \in authors[job[w].id]
    BY <2>1, <2>2 DEF Knows, Granted, Saved, PublishSteps
  <2>4. [title |-> job[w].obj.name, ver |-> job[w].ver] \in Content
    BY <2>1 DEF LocalsOK, Row, Content, PublishSteps
  <2> QED
    BY <2>2, <2>3, <2>4 DEF Listed
<1> QED
  BY <1>1, AloneAlways, PTL

\* A save never takes a counter back or gives a row another name: the copy that
\* is saved was read by the request that is still the only one.
LEMMA NextKeeps ==
    ASSUME OneAtATime, TypeOK, Alone, [Next]_vars, NEW i \in Ids,
           rows[i] # None, rows'[i] # None
    PROVE  /\ rows'[i].name = rows[i].name
           /\ rows'[i].uploads >= rows[i].uploads
           /\ rows'[i].downloads >= rows[i].downloads
<1> DEFINE Kept == /\ rows'[i].name = rows[i].name
                   /\ rows'[i].uploads >= rows[i].uploads
                   /\ rows'[i].downloads >= rows[i].downloads
<1>1. rows[i] \in Row /\ rows[i].uploads \in Int /\ rows[i].downloads \in Int
  BY DEF TypeOK, Row
<1>2. rows' = rows => Kept
  BY <1>1
<1>3. ASSUME NEW w \in Workers,
             \/ PublishSaveTbz(w) \/ PublishSaveWml(w) \/ PublishSave(w)
             \/ PublishFinish(w) \/ DownloadCount(w)
      PROVE  Kept
  <2> DEFINE j == job[w]
  <2>1. /\ j \in Job /\ LocalsOK(j) /\ Current(j) /\ j.obj \in Row /\ j.pc # "idle"
    BY <1>3, JobOf DEF PublishSaveTbz, PublishSaveWml, PublishSave, PublishFinish,
                       DownloadCount, At, Alone, Knows, LocalsOK
  <2>2. PICK k \in Ids, row \in Row :
           /\ k = j.id \/ rows[k] = None
           /\ rows' = [rows EXCEPT ![k] = row]
           /\ row.name = j.obj.name /\ row.uploads = j.obj.uploads
           /\ row.downloads >= j.obj.downloads
    <3>1. CASE PublishSaveTbz(w) \/ PublishSaveWml(w)
      <4>1. /\ [j.obj EXCEPT !.tbz = None] \in Row /\ [j.obj EXCEPT !.wml = None] \in Row
            /\ j.obj.downloads \in Int
        BY <2>1 DEF Row
      <4>2. j.id \in Ids
        BY <2>1, <3>1 DEF PublishSaveTbz, PublishSaveWml, At, LocalsOK
      <4>3. PICK row \in {[j.obj EXCEPT !.tbz = None], [j.obj EXCEPT !.wml = None]} :
               rows' = [rows EXCEPT ![j.id] = row]
        BY <3>1 DEF PublishSaveTbz, PublishSaveWml, Save
      <4>4. /\ row \in Row /\ row.name = j.obj.name /\ row.uploads = j.obj.uploads
            /\ row.downloads = j.obj.downloads
        BY <2>1, <4>1 DEF Row
      <4>5. row.downloads >= j.obj.downloads
        BY <4>1, <4>4
      <4> HIDE DEF j
      <4> QED
        BY <4>2, <4>3, <4>4, <4>5, Zenon
    <3>2. CASE PublishSave(w)
      <4>1. PICK k \in Ids : /\ IF j.id = None THEN NextId(k) ELSE k = j.id
                             /\ rows' = [rows EXCEPT ![k] = j.obj]
        BY <3>2 DEF PublishSave, Save
      <4>2. k = j.id \/ rows[k] = None
        BY <4>1 DEF NextId
      <4>3. j.obj.downloads >= j.obj.downloads
        BY <2>1 DEF Row
      <4> QED
        BY <2>1, <4>1, <4>2, <4>3
    <3>3. CASE PublishFinish(w) \/ DownloadCount(w)
      <4>1. PICK n \in 0..MaxDownloads :
               /\ n >= j.obj.downloads /\ [j.obj EXCEPT !.downloads = n] \in Row
               /\ Save(j.id, [j.obj EXCEPT !.downloads = n])
        BY <3>3, LastSaves
      <4>2. j.id \in Ids
        BY <3>3, LastSaves
      <4>3. LET row == [j.obj EXCEPT !.downloads = n]
            IN  row.name = j.obj.name /\ row.uploads = j.obj.uploads /\ row.downloads = n
        BY <2>1 DEF Row
      <4> QED
        BY <4>1, <4>2, <4>3 DEF Save
    <3> QED
      BY <1>3, <3>1, <3>2, <3>3
  <2>3. CASE k # i
    <3>1. rows'[i] = rows[i]
      BY <2>2, <2>3
    <3> QED
      BY <1>1, <3>1
  <2>4. CASE k = i
    <3>1. rows'[i] = row /\ i = j.id
      BY <2>2, <2>4 DEF TypeOK
    <3>2. rows[i].name = j.obj.name /\ rows[i].uploads <= j.obj.uploads
          /\ rows[i].downloads <= j.obj.downloads
      BY <2>1, <3>1 DEF Current, Named
    <3>3. j.obj.downloads \in Int /\ j.obj.uploads \in Int /\ row.downloads \in Int
      BY <2>1, <2>2 DEF Row
    <3> QED
      BY <1>1, <2>2, <3>1, <3>2, <3>3
  <2> QED
    BY <2>3, <2>4
<1>4. ASSUME NEW w \in Workers, Handle(w) PROVE Kept
  <2>1. CASE \/ PublishSaveTbz(w) \/ PublishSaveWml(w) \/ PublishSave(w)
             \/ PublishFinish(w) \/ DownloadCount(w)
    BY <1>3, <2>1
  <2>2. CASE RemoveCommit(w)
    <3>1. rows'[i] = rows[i]
      BY <2>2 DEF RemoveCommit, TypeOK
    <3> QED
      BY <1>1, <3>1
  <2>3. CASE ~ (\/ PublishSaveTbz(w) \/ PublishSaveWml(w) \/ PublishSave(w)
                \/ PublishFinish(w) \/ DownloadCount(w) \/ RemoveCommit(w))
    <3>1. rows' = rows
      BY <1>4, <2>3 DEF Handle, Publish, Remove, Download, Rate, Fail, PublishBegin,
         PublishDropTbz, PublishDropWml, PublishWrite, PublishTar, PublishStore,
         PublishClearAuthors, PublishFindAuthor, PublishCreateAuthor, PublishLinkAuthor,
         RemoveBegin, RemoveUnlinkTbz, RemoveUnlinkWml, DownloadBegin, RateBegin, LookUp,
         RateSave, db
    <3> QED
      BY <1>2, <3>1
  <2> QED
    BY <2>1, <2>2, <2>3
<1>5. CASE Kill \/ \E n \in Names : AdminAddAuthor(n)
  BY <1>2, <1>5 DEF Kill, AdminAddAuthor, db
<1>6. CASE UNCHANGED vars
  BY <1>2, <1>6 DEF vars
<1> QED
  BY <1>4, <1>5, <1>6 DEF Next

\* Counters never go back, and names stay (views.py:90, 228).
THEOREM CountersKeptAlways ==
    ASSUME OneAtATime
    PROVE  Spec => CountersKept
<1>1. TypeOK /\ Alone /\ [Next]_vars =>
        [\A i \in Ids : rows[i] # None /\ rows'[i] # None =>
           /\ rows'[i].name = rows[i].name
           /\ rows'[i].uploads >= rows[i].uploads
           /\ rows'[i].downloads >= rows[i].downloads]_vars
  BY NextKeeps
<1> QED
  BY <1>1, AloneAlways, PTL DEF Spec, CountersKept

-----------------------------------------------------------------------------
(* One process: what the list tells *)

\* The version a download of the add-on returns.
Offered(i) == IF Listed(i) THEN wmls[rows[i].wml].ver ELSE None

LEMMA CatalogIs ==
    ASSUME NEW i \in Ids
    PROVE  /\ rows[i] = None => Catalog[i] = None
           /\ rows[i] # None =>
                Catalog[i] = [title |-> rows[i].name, rev |-> rows[i].uploads, ver |-> Offered(i)]
BY DEF Catalog, Offered

LEMMA CatalogIsNext ==
    ASSUME NEW i \in Ids
    PROVE  /\ rows'[i] = None => Catalog'[i] = None
           /\ rows'[i] # None =>
                Catalog'[i] = [title |-> rows'[i].name, rev |-> rows'[i].uploads,
                               ver |-> Offered(i)']
BY DEF Catalog, Offered

\* A request changes only its own add-on's row, and files of its own title.
Touches(w) ==
    /\ \A i \in Ids : i \notin {job[w].id, job'[w].id} => rows'[i] = rows[i]
    /\ \A p \in Path : wmls'[p] = wmls[p] \/ (job[w].pc # "idle" /\ p.base = job[w].obj.name)

LEMMA HandleTouches ==
    ASSUME TypeOK, OwnFiles, FilesNamedApart, NEW w \in Workers, Handle(w)
    PROVE  Touches(w)
<1> DEFINE j == job[w]
<1>1. j \in Job /\ LocalsOK(j)
  BY JobOf
<1>2. UNCHANGED <<rows, wmls>> => Touches(w)
  BY DEF Touches
<1>3. CASE \/ PublishSaveTbz(w) \/ PublishSaveWml(w) \/ PublishFinish(w)
           \/ DownloadCount(w) \/ RemoveCommit(w)
  <2>1. /\ \A i \in Ids : i # j.id => rows'[i] = rows[i]
        /\ wmls' = wmls
    BY <1>3 DEF PublishSaveTbz, PublishSaveWml, PublishFinish, DownloadCount,
                RemoveCommit, Save, TypeOK, files
  <2> QED
    BY <2>1 DEF Touches
<1>4. CASE PublishSave(w)
  <2>1. PICK i \in Ids : /\ rows' = [rows EXCEPT ![i] = j.obj]
                         /\ job' = [job EXCEPT ![w].pc = "clear", ![w].id = i]
    BY <1>4 DEF PublishSave, Save
  <2>2. job'[w].id = i /\ \A k \in Ids : k # i => rows'[k] = rows[k]
    BY <1>1, <2>1 DEF TypeOK, Job
  <2> QED
    BY <1>4, <2>2 DEF PublishSave, Touches, files
<1>5. ASSUME j.pc # "idle", rows' = rows, NEW p \in Path, p.base = j.obj.name,
             \A x \in Path : x # p => wmls'[x] = wmls[x]
      PROVE  Touches(w)
  BY <1>5 DEF Touches
<1>6. CASE PublishDropWml(w) \/ RemoveUnlinkWml(w)
  <2>1. j.obj.wml \in Path /\ j.pc # "idle" /\ j.obj.wml.base = j.obj.name
    BY <1>1, <1>6 DEF PublishDropWml, RemoveUnlinkWml, At, LocalsOK, Row, OwnFiles
  <2>2. rows' = rows /\ \A x \in Path : x # j.obj.wml => wmls'[x] = wmls[x]
    BY <1>6 DEF PublishDropWml, RemoveUnlinkWml, db, TypeOK
  <2> QED
    BY <1>5, <2>1, <2>2
<1>7. CASE PublishWrite(w)
  <2>1. j.obj.name \in Titles /\ j.pc # "idle"
    BY <1>1, <1>7 DEF PublishWrite, At, LocalsOK, Row
  <2>2. RawPath(j.obj.name) \in Path /\ RawPath(j.obj.name).base = j.obj.name
    BY <2>1 DEF RawPath, Path
  <2>3. rows' = rows /\ \A x \in Path : x # RawPath(j.obj.name) => wmls'[x] = wmls[x]
    BY <1>7 DEF PublishWrite, db, TypeOK
  <2> QED
    BY <1>5, <2>1, <2>2, <2>3
<1>8. CASE PublishStore(w)
  <2>1. j.obj.name \in Titles /\ j.pc # "idle" /\ j.route = "form" /\ j.route \in Routes
    BY <1>1, <1>8 DEF PublishStore, At, LocalsOK, Row, PublishSteps
  <2>2. PICK p \in Path : /\ AvailablePath(p, j.obj.name)
                          /\ \A x \in Path : x # p => wmls'[x] = wmls[x]
    BY <1>8 DEF PublishStore, TypeOK
  <2>3. p.base = j.obj.name
    BY <2>1, <2>2 DEF AvailablePath, FilesNamedApart
  <2> QED
    BY <1>5, <1>8, <2>1, <2>2, <2>3 DEF PublishStore, db
<1>9. CASE ~ (\/ PublishSaveTbz(w) \/ PublishSaveWml(w) \/ PublishFinish(w)
              \/ DownloadCount(w) \/ RemoveCommit(w) \/ PublishSave(w)
              \/ PublishDropWml(w) \/ RemoveUnlinkWml(w) \/ PublishWrite(w) \/ PublishStore(w))
  <2>1. UNCHANGED <<rows, wmls>>
    BY <1>9 DEF Handle, Publish, Remove, Download, Rate, Fail, PublishBegin,
       PublishDropTbz, PublishTar, PublishClearAuthors, PublishFindAuthor,
       PublishCreateAuthor, PublishLinkAuthor, RemoveBegin, RemoveUnlinkTbz,
       DownloadBegin, RateBegin, LookUp, RateSave, db, files
  <2> QED
    BY <1>2, <2>1
<1> QED
  BY <1>3, <1>4, <1>6, <1>7, <1>8, <1>9

\* Every other add-on is shown and served as before.
LEMMA OthersKept ==
    ASSUME TypeOK, OwnFiles, Alone, NEW w \in Workers, Touches(w),
           NEW i \in Ids, i \notin {job[w].id, job'[w].id}
    PROVE  rows'[i] = rows[i] /\ Offered(i)' = Offered(i) /\ Catalog'[i] = Catalog[i]
<1>1. rows'[i] = rows[i]
  BY DEF Touches
<1>2. ASSUME rows[i] # None, rows[i].wml # None
      PROVE  wmls'[rows[i].wml] = wmls[rows[i].wml]
  <2>1. rows[i].wml \in Path /\ rows[i].wml.base = rows[i].name
    BY <1>2 DEF TypeOK, Row, OwnFiles
  <2>2. SUFFICES ASSUME job[w].pc # "idle", rows[i].name = job[w].obj.name
                 PROVE  FALSE
    BY <2>1 DEF Touches
  <2>3. Current(job[w]) /\ Unique
    BY DEF Alone, Knows
  <2>4. job[w].id \in Ids \cup {None}
    BY JobOf DEF Job
  <2> QED
    BY <1>2, <2>2, <2>3, <2>4 DEF Current, Unique, Named
<1>3. Offered(i)' = Offered(i)
  BY <1>1, <1>2 DEF Offered, Listed
<1> QED
  BY <1>1, <1>3, CatalogIs, CatalogIsNext

\* A request that begins only reads.
LEMMA IdleReads ==
    ASSUME NEW w \in Workers, Handle(w), job[w].pc = "idle"
    PROVE  /\ UNCHANGED <<rows, wmls>>
           /\ \/ \E login \in Logins, t \in Titles, v \in Versions, r \in Routes,
                    list \in AuthorLists : PublishBegin(w, login, t, v, r, list)
              \/ \E login \in Logins, key \in Ids \cup Titles : RemoveBegin(w, login, key)
              \/ \E key \in Ids \cup Titles : DownloadBegin(w, key) \/ RateBegin(w, key)
<1>1. \/ \E login \in Logins, t \in Titles, v \in Versions, r \in Routes,
            list \in AuthorLists : PublishBegin(w, login, t, v, r, list)
      \/ \E login \in Logins, key \in Ids \cup Titles : RemoveBegin(w, login, key)
      \/ \E key \in Ids \cup Titles : DownloadBegin(w, key) \/ RateBegin(w, key)
  BY DEF Handle, Publish, Remove, Download, Rate, Fail, Raises, At, AfterTar,
     PublishDropTbz, PublishSaveTbz, PublishDropWml, PublishSaveWml, PublishWrite,
     PublishTar, PublishStore, PublishSave, PublishClearAuthors, PublishFindAuthor,
     PublishCreateAuthor, PublishLinkAuthor, PublishFinish, RemoveUnlinkTbz,
     RemoveUnlinkWml, RemoveCommit, DownloadCount, RateSave
<1> QED
  BY <1>1 DEF PublishBegin, RemoveBegin, DownloadBegin, RateBegin, LookUp, db, files

\* A request in progress keeps its key, unless it ends or gets one.
LEMMA StaysOrEnds ==
    ASSUME TypeOK, NEW w \in Workers, Handle(w), job[w].pc # "idle", ~ PublishSave(w)
    PROVE  \/ job'[w] = Idle
           \/ /\ job'[w].pc # "idle" /\ job'[w].id = job[w].id
              /\ job'[w].obj.name = job[w].obj.name
              /\ job'[w].obj.uploads = job[w].obj.uploads
              /\ job[w].pc \in Saved <=> job'[w].pc \in Saved
              /\ job[w].pc \in PublishSteps <=> job'[w].pc \in PublishSteps
<1> DEFINE j == job[w]
<1>1. j \in Job /\ LocalsOK(j) /\ j.obj \in Row
  BY JobOf DEF LocalsOK
<1>2. CASE Finish(w)
  BY <1>2 DEF Finish, TypeOK
<1>4. CASE \/ PublishDropTbz(w) \/ PublishDropWml(w) \/ PublishClearAuthors(w)
           \/ PublishFindAuthor(w) \/ PublishCreateAuthor(w)
  <2>1. PICK pc \in {"saveTbz", "saveWml", "find", "create", "link"} :
           Goto(w, pc) /\ j.pc \in PublishSteps /\ (pc \in Saved <=> j.pc \in Saved)
    BY <1>4 DEF PublishDropTbz, PublishDropWml, PublishClearAuthors, PublishFindAuthor,
                PublishCreateAuthor, At, PublishSteps, Saved
  <2> QED
    BY <1>1, <2>1 DEF Goto, TypeOK, Job, PublishSteps
<1>5. CASE PublishSaveTbz(w) \/ PublishSaveWml(w)
  <2>1. PICK row \in {[j.obj EXCEPT !.tbz = None], [j.obj EXCEPT !.wml = None]},
             pc \in {"dropTbz", "dropWml", "write"} :
           job' = [job EXCEPT ![w].pc = pc, ![w].obj = row]
    BY <1>5 DEF PublishSaveTbz, PublishSaveWml, FileStep
  <2>2. row \in Row /\ row.name = j.obj.name /\ row.uploads = j.obj.uploads
    BY <1>1, <2>1 DEF Row
  <2>3. j.pc \in PublishSteps /\ j.pc \notin Saved
    BY <1>5 DEF PublishSaveTbz, PublishSaveWml, At, PublishSteps, Saved
  <2>4. job'[w].pc = pc /\ job'[w].id = j.id /\ job'[w].obj = row
    BY <1>1, <2>1 DEF TypeOK, Job
  <2> QED
    BY <2>1, <2>2, <2>3, <2>4 DEF PublishSteps, Saved
<1>6. CASE PublishWrite(w) \/ PublishTar(w) \/ PublishStore(w)
  <2>1. j.pc \in PublishSteps /\ j.pc \notin Saved
    BY <1>6 DEF PublishWrite, PublishTar, PublishStore, At, PublishSteps, Saved
  <2>2. \/ \E p : job' = [job EXCEPT ![w].pc = "tar", ![w].obj.wml = p]
        \/ job' = [job EXCEPT ![w].pc = "tar"]
        \/ \E pc \in {"store", "save"} :
              job' = [job EXCEPT ![w].pc = pc,
                                 ![w].obj = [@ EXCEPT !.tbz = j.obj.name, !.ver = j.ver]]
        \/ \E p : job' = [job EXCEPT ![w].pc = "save", ![w].obj.wml = p]
    BY <1>6 DEF PublishWrite, PublishTar, PublishStore, Goto, AfterTar
  <2>3. /\ job'[w].pc \in {"tar", "store", "save"} /\ job'[w].id = j.id
        /\ job'[w].obj.name = j.obj.name /\ job'[w].obj.uploads = j.obj.uploads
    <3>1. ASSUME NEW p, NEW pc \in {"tar", "save"},
                 job' = [job EXCEPT ![w].pc = pc, ![w].obj.wml = p]
          PROVE  <2>3
      BY <1>1, <3>1 DEF TypeOK, Job, Row
    <3>2. ASSUME NEW pc \in {"store", "save"},
                 job' = [job EXCEPT ![w].pc = pc,
                             ![w].obj = [@ EXCEPT !.tbz = j.obj.name, !.ver = j.ver]]
          PROVE  <2>3
      BY <1>1, <3>2 DEF TypeOK, Job, Row
    <3>3. CASE job' = [job EXCEPT ![w].pc = "tar"]
      BY <1>1, <3>3 DEF TypeOK, Job
    <3> QED
      BY <2>2, <3>1, <3>2, <3>3
  <2> QED
    BY <2>1, <2>3 DEF PublishSteps, Saved
<1>7. CASE PublishLinkAuthor(w)
  <2> DEFINE rest == Tail(j.todo)
             pc == IF rest = <<>> THEN "final" ELSE "find"
  <2>1. job' = [job EXCEPT ![w].pc = pc, ![w].todo = rest] /\ j.pc = "link"
    BY <1>7 DEF PublishLinkAuthor, At
  <2>2. pc \in {"find", "final"}
    OBVIOUS
  <2> HIDE DEF rest, pc
  <2>3. job'[w].pc = pc /\ job'[w].id = j.id /\ job'[w].obj = j.obj
    BY <1>1, <2>1 DEF TypeOK, Job
  <2> QED
    BY <2>1, <2>2, <2>3 DEF PublishSteps, Saved
<1>8. CASE RemoveUnlinkTbz(w) \/ RemoveUnlinkWml(w)
  <2>1. /\ j.pc = "unlink"
        /\ \/ job' = [job EXCEPT ![w].obj.tbz = None]
           \/ job' = [job EXCEPT ![w].obj.wml = None]
    BY <1>8 DEF RemoveUnlinkTbz, RemoveUnlinkWml, At
  <2>2. /\ job'[w].pc = j.pc /\ job'[w].id = j.id
        /\ job'[w].obj.name = j.obj.name /\ job'[w].obj.uploads = j.obj.uploads
    <3>1. CASE job' = [job EXCEPT ![w].obj.tbz = None]
      BY <1>1, <3>1 DEF TypeOK, Job, Row
    <3>2. CASE job' = [job EXCEPT ![w].obj.wml = None]
      BY <1>1, <3>2 DEF TypeOK, Job, Row
    <3> QED
      BY <2>1, <3>1, <3>2
  <2> QED
    BY <2>1, <2>2
<1>9. Finish(w) \/ ~ (PublishFinish(w) \/ RemoveCommit(w) \/ DownloadCount(w) \/ RateSave(w) \/ Fail(w))
  BY DEF PublishFinish, RemoveCommit, DownloadCount, RateSave, Fail
<1>10. ~ (\/ \E login \in Logins, t \in Titles, v \in Versions, r \in Routes,
                list \in AuthorLists : PublishBegin(w, login, t, v, r, list)
          \/ \E login \in Logins, key \in Ids \cup Titles : RemoveBegin(w, login, key)
          \/ \E key \in Ids \cup Titles : DownloadBegin(w, key) \/ RateBegin(w, key))
  BY DEF PublishBegin, RemoveBegin, DownloadBegin, RateBegin, LookUp, At
<1> QED
  BY <1>2, <1>4, <1>5, <1>6, <1>7, <1>8, <1>9, <1>10
  DEF Handle, Publish, Remove, Download, Rate

\* The add-on that a request works on, until it is saved anew or removed.
LEMMA OwnKept ==
    ASSUME TypeOK, OwnFiles, Alone, NEW w \in Workers, Handle(w), job[w].pc # "idle",
           NEW i \in Ids, i = job[w].id, ~ PublishSave(w), ~ RemoveCommit(w)
    PROVE  /\ rows[i] # None /\ rows'[i] # None
           /\ rows'[i].name = rows[i].name /\ rows'[i].ver = rows[i].ver
           /\ \/ rows'[i].uploads = rows[i].uploads
              \/ job[w].pc \in PublishSteps /\ rows'[i].uploads = job[w].obj.uploads
           /\ Offered(i)' \in {Offered(i), None}
<1> DEFINE j == job[w]
<1>1. /\ j \in Job /\ LocalsOK(j) /\ j.obj \in Row /\ Knows(j)
      /\ rows[i] # None /\ rows[i] \in Row /\ rows[i].name = j.obj.name
  BY JobOf DEF LocalsOK, Alone, Knows, Current, Named, TypeOK
<1>2. CASE UNCHANGED <<rows, wmls>>
  BY <1>1, <1>2 DEF Offered, Listed
<1>3. CASE PublishSaveTbz(w) \/ PublishSaveWml(w)
  <2>1. j.pc \in {"saveTbz", "saveWml"} /\ wmls' = wmls
    BY <1>3 DEF PublishSaveTbz, PublishSaveWml, At, files
  <2>2. PICK row \in {[j.obj EXCEPT !.tbz = None], [j.obj EXCEPT !.wml = None]} :
           rows' = [rows EXCEPT ![i] = row]
    BY <1>3 DEF PublishSaveTbz, PublishSaveWml, Save
  <2>3. /\ row \in Row /\ row.name = j.obj.name /\ row.ver = j.obj.ver
        /\ row.uploads = j.obj.uploads /\ row.wml \in {j.obj.wml, None}
    <3>1. CASE row = [j.obj EXCEPT !.tbz = None]
      BY <1>1, <3>1 DEF Row
    <3>2. CASE row = [j.obj EXCEPT !.wml = None]
      BY <1>1, <3>2 DEF Row
    <3> QED
      BY <2>2, <3>1, <3>2
  <2>4. rows'[i] = row
    BY <2>2 DEF TypeOK
  <2>5. row.wml \in {rows[i].wml, None} /\ row.ver = rows[i].ver
    BY <1>1, <2>1, <2>3 DEF Knows, Filed
  <2>6. row # None /\ j.pc \in PublishSteps
    BY <2>1, <2>3 DEF PublishSteps
  <2>7. Offered(i)' \in {Offered(i), None}
    BY <1>1, <2>1, <2>4, <2>5, <2>6 DEF Offered, Listed
  <2> QED
    BY <1>1, <2>3, <2>4, <2>5, <2>6, <2>7
<1>4. CASE rows' = rows /\ \A p \in Path : wmls'[p] \in {wmls[p], None}
  <2>1. Offered(i)' \in {Offered(i), None}
    BY <1>1, <1>4 DEF Offered, Listed, Row
  <2> QED
    BY <1>1, <1>4, <2>1
<1>5. CASE PublishWrite(w) \/ PublishStore(w)
  <2>1. rows[i].wml = None /\ rows' = rows
    BY <1>1, <1>5 DEF PublishWrite, PublishStore, At, db, Knows, Filed
  <2> QED
    BY <1>1, <2>1 DEF Offered, Listed
<1>6. CASE PublishFinish(w) \/ DownloadCount(w)
  <2>1. PICK n \in 0..MaxDownloads : rows' = [rows EXCEPT ![i] = [j.obj EXCEPT !.downloads = n]]
    BY <1>6, LastSaves DEF Save
  <2>2. rows[i] = j.obj /\ wmls' = wmls
    BY <1>1, <1>6, LastSaves DEF Knows, Current, Saved, files
  <2>3. rows'[i] = [j.obj EXCEPT !.downloads = n]
    BY <2>1 DEF TypeOK
  <2>4. /\ rows'[i].name = rows[i].name /\ rows'[i].ver = rows[i].ver
        /\ rows'[i].uploads = rows[i].uploads /\ rows'[i].wml = rows[i].wml
        /\ rows'[i] \in Row
    BY <1>1, <2>2, <2>3 DEF Row
  <2> QED
    BY <1>1, <2>2, <2>4 DEF Offered, Listed
<1>7. CASE PublishDropWml(w) \/ RemoveUnlinkWml(w)
  <2>1. rows' = rows /\ \A p \in Path : wmls'[p] \in {wmls[p], None}
    BY <1>7 DEF PublishDropWml, RemoveUnlinkWml, db, TypeOK
  <2> QED
    BY <1>4, <2>1
<1>8. CASE ~ (\/ PublishSaveTbz(w) \/ PublishSaveWml(w) \/ PublishFinish(w)
              \/ DownloadCount(w) \/ PublishDropWml(w) \/ RemoveUnlinkWml(w)
              \/ PublishWrite(w) \/ PublishStore(w))
  <2>1. UNCHANGED <<rows, wmls>>
    BY <1>8 DEF Handle, Publish, Remove, Download, Rate, Fail, PublishBegin,
       PublishDropTbz, PublishTar, PublishClearAuthors, PublishFindAuthor,
       PublishCreateAuthor, PublishLinkAuthor, RemoveBegin, RemoveUnlinkTbz,
       DownloadBegin, RateBegin, LookUp, RateSave, db, files
  <2> QED
    BY <1>2, <2>1
<1> QED
  BY <1>3, <1>5, <1>6, <1>7, <1>8

\* What is downloaded is a version.
LEMMA OfferedType ==
    ASSUME TypeOK, NEW i \in Ids
    PROVE  /\ Offered(i) \in Versions \cup {None}
           /\ Listed(i) <=> Offered(i) # None
<1>1. CASE Listed(i)
  <2>1. wmls[rows[i].wml] \in Content
    BY <1>1 DEF Listed, TypeOK, Row
  <2> QED
    BY <1>1, <2>1 DEF Offered, Content
<1>2. CASE ~ Listed(i)
  BY <1>2 DEF Offered
<1> QED
  BY <1>1, <1>2

\* A request in progress keeps the version apart until it saves it: then it is
\* the version of the file.
OffersSaved(j) ==
    /\ j.id \in Ids /\ rows[j.id] = j.obj /\ j.obj \in Row
    /\ Offered(j.id) = j.ver /\ j.obj.ver = j.ver /\ j.ver \in Versions

LEMMA SavedOffers ==
    ASSUME TypeOK, Alone, NEW w \in Workers, job[w].pc \in Saved
    PROVE  OffersSaved(job[w])
<1> DEFINE j == job[w]
<1>1. j \in Job /\ LocalsOK(j) /\ Knows(j)
  BY JobOf DEF Alone
<1>2. /\ j.id \in Ids /\ j.obj \in Row /\ j.ver \in Versions
  BY <1>1 DEF LocalsOK, Saved, PublishSteps
<1>3. /\ rows[j.id] = j.obj /\ j.obj.wml # None /\ j.obj.ver = j.ver
      /\ wmls[j.obj.wml] = [title |-> j.obj.name, ver |-> j.ver]
  BY <1>1, <1>2 DEF Knows, Current, Filed, Saved
<1>4. [title |-> j.obj.name, ver |-> j.ver] \in Content
  BY <1>2 DEF Content, Row
<1> QED
  BY <1>2, <1>3, <1>4 DEF Offered, Listed, OffersSaved

AllOffer == \A w \in Workers : job[w].pc \in Saved => OffersSaved(job[w])

LEMMA SavedOffersNext == TypeOK' /\ Alone' => AllOffer'
<1>1. TypeOK /\ Alone => AllOffer
  BY SavedOffers DEF AllOffer
<1> QED
  BY <1>1, PTL

VersionsOffered == \A i \in Ids : /\ Offered(i) \in Versions \cup {None}
                                  /\ Listed(i) <=> Offered(i) # None

LEMMA OfferedTypeNext == TypeOK' => VersionsOffered'
<1>1. TypeOK => VersionsOffered
  BY OfferedType DEF VersionsOffered
<1> QED
  BY <1>1, PTL

LEMMA NextServesListed ==
    ASSUME OneAtATime, FilesNamedApart
    PROVE  TypeOK /\ OwnFiles /\ Alone /\ ListedVersionIsServed /\ [Next]_vars
              /\ TypeOK' /\ Alone' => ListedVersionIsServed'
<1> SUFFICES ASSUME TypeOK, OwnFiles, Alone, ListedVersionIsServed, [Next]_vars,
                    TypeOK', Alone'
             PROVE  ListedVersionIsServed'
  OBVIOUS
<1>1. CASE UNCHANGED <<rows, wmls>>
  BY <1>1 DEF ListedVersionIsServed, Listed
<1>2. ASSUME NEW w \in Workers, Handle(w), job[w].pc # "idle"
      PROVE  ListedVersionIsServed'
  <2> SUFFICES ASSUME NEW i \in Ids, Listed(i)'
               PROVE  Offered(i)' = rows'[i].ver
    BY DEF ListedVersionIsServed, Offered
  <2>1. Listed(i) => Offered(i) = rows[i].ver
    BY DEF ListedVersionIsServed, Offered
  <2>2. Offered(i)' # None /\ rows'[i] # None
    BY OfferedTypeNext DEF VersionsOffered, Listed
  <2>3. CASE i \notin {job[w].id, job'[w].id}
    <3>1. rows'[i] = rows[i] /\ Offered(i)' = Offered(i)
      BY <1>2, <2>3, HandleTouches, OthersKept
    <3> QED
      BY <2>1, <2>2, <3>1, OfferedType
  <2>4. CASE PublishSave(w) /\ i \in {job[w].id, job'[w].id}
    <3>1. PICK k \in Ids : /\ job' = [job EXCEPT ![w].pc = "clear", ![w].id = k]
                           /\ job[w].id = None \/ k = job[w].id
      BY <2>4 DEF PublishSave
    <3>2. job'[w].pc = "clear" /\ job'[w].id = k
      BY <3>1, JobOf DEF TypeOK, Job
    <3>3. /\ rows'[job'[w].id] = job'[w].obj /\ job'[w].obj.ver = job'[w].ver
          /\ Offered(job[w].id)' = job'[w].ver
      <4>1. job'[w].pc \in Saved
        BY <3>2 DEF Saved
      <4> QED
        BY <4>1, SavedOffersNext DEF AllOffer, OffersSaved
    <3>4. i = k
      BY <2>4, <3>1, <3>2
    <3> QED
      BY <3>2, <3>3, <3>4
  <2>5. CASE RemoveCommit(w) /\ i \in {job[w].id, job'[w].id}
    <3>1. job'[w].id = None
      BY <2>5 DEF RemoveCommit, Finish, Idle, TypeOK
    <3>2. rows'[i] = None
      BY <2>5, <3>1 DEF RemoveCommit, TypeOK
    <3> QED
      BY <2>2, <3>2
  <2>6. CASE ~ PublishSave(w) /\ ~ RemoveCommit(w) /\ i \in {job[w].id, job'[w].id}
    <3>1. i = job[w].id
      BY <2>6, <1>2, StaysOrEnds DEF Idle
    <3>2. rows'[i].ver = rows[i].ver /\ Offered(i)' \in {Offered(i), None}
      BY <1>2, <2>6, <3>1, OwnKept
    <3> QED
      BY <2>1, <2>2, <3>2, OfferedType
  <2> QED
    BY <2>3, <2>4, <2>5, <2>6
<1>3. ASSUME NEW w \in Workers, Handle(w), job[w].pc = "idle"
      PROVE  UNCHANGED <<rows, wmls>>
  BY <1>3, IdleReads
<1>4. CASE Kill \/ \E n \in Names : AdminAddAuthor(n)
  BY <1>1, <1>4 DEF Kill, AdminAddAuthor, db, files
<1> QED
  BY <1>1, <1>2, <1>3, <1>4 DEF Next, vars

\* The list announces the version that a download returns (views.py:276-287),
\* in one process, unless two titles share a file name.
THEOREM ListedVersionIsServedAlways ==
    ASSUME OneAtATime, FilesNamedApart
    PROVE  Spec => []ListedVersionIsServed
<1>1. Init => ListedVersionIsServed
  BY DEF Init, ListedVersionIsServed, Listed
<1>2. Spec => [](TypeOK /\ OwnFiles)
  BY InitTypeOK, NextTypeOK, InitOwnFiles, NextOwnFiles, PTL DEF Spec
<1> QED
  BY <1>1, <1>2, NextServesListed, AloneAlways, PTL DEF Spec

-----------------------------------------------------------------------------
(* One process implements the catalogue *)

Shown == [title : Titles, rev : Nat, ver : Versions \cup {None}]

\* While a request is in progress, view is the catalogue as it was: the other
\* add-ons are still shown so, and its own may only be shown with the next
\* revision or without a download, until it is saved anew.
Seen(j) ==
    j.pc # "idle" =>
       /\ \A i \in Ids \ {j.id} : view[i] = Catalog[i]
       /\ j.pc \in PublishSteps =>
             j.obj.uploads = IF j.id = None \/ view[j.id] = None THEN 1 ELSE view[j.id].rev + 1
       /\ j.id # None /\ j.pc \notin Saved => view[j.id] # None
       /\ j.id # None /\ view[j.id] # None =>
             /\ view[j.id].title = j.obj.name
             /\ j.pc \notin Saved =>
                   /\ rows[j.id].uploads \in {view[j.id].rev, view[j.id].rev + 1}
                   /\ Offered(j.id) \in {None, view[j.id].ver}

AllSeen == /\ view \in [Ids -> Shown \cup {None}]
           /\ Quiet => view = Catalog
           /\ \A w \in Workers : Seen(job[w])

LEMMA InitAllSeen == Init => AllSeen
<1> SUFFICES ASSUME Init PROVE AllSeen
  OBVIOUS
<1>1. Catalog = [i \in Ids |-> None]
  BY DEF Init, Catalog
<1>2. \A w \in Workers : job[w].pc = "idle"
  BY DEF Init, Idle
<1> QED
  BY <1>1, <1>2 DEF Init, AllSeen, Seen

LEMMA CatalogType == TypeOK => Catalog \in [Ids -> Shown \cup {None}]
<1> SUFFICES ASSUME TypeOK, NEW i \in Ids PROVE Catalog[i] \in Shown \cup {None}
  BY DEF Catalog
<1>1. CASE rows[i] = None
  BY <1>1, CatalogIs
<1>2. CASE rows[i] # None
  <2>0. rows[i] \in Row
    BY <1>2 DEF TypeOK
  <2>1. rows[i].name \in Titles /\ rows[i].uploads \in Nat
    BY <2>0 DEF Row
  <2>2. Offered(i) \in Versions \cup {None}
    BY OfferedType
  <2>3. Catalog[i] = [title |-> rows[i].name, rev |-> rows[i].uploads, ver |-> Offered(i)]
    BY <1>2, CatalogIs
  <2> QED
    BY <2>1, <2>2, <2>3 DEF Shown
<1> QED
  BY <1>1, <1>2

LEMMA CatalogTypeNext == TypeOK' => (Catalog \in [Ids -> Shown \cup {None}])'
BY CatalogType, PTL

\* The view changes at one key, as the catalogue may.
LEMMA OneEntry ==
    ASSUME view \in [Ids -> Shown \cup {None}], view' \in [Ids -> Shown \cup {None}],
           NEW i \in Ids, \A k \in Ids \ {i} : view'[k] = view[k],
           \/ view'[i] = view[i]
           \/ view'[i] = None /\ view[i] # None
           \/ \E t \in Titles, v \in Versions :
                 /\ view[i] = None /\ view'[i] = [title |-> t, rev |-> 1, ver |-> v]
                 /\ \A k \in Ids : view[k] # None => view[k].title # t
           \/ \E v \in Versions :
                 /\ view[i] # None
                 /\ view'[i] = [title |-> view[i].title, rev |-> view[i].rev + 1, ver |-> v]
           \/ \E n \in {0, 1}, v \in {None, view[i].ver} :
                 /\ view[i] # None
                 /\ view'[i] = [title |-> view[i].title, rev |-> view[i].rev + n, ver |-> v]
    PROVE  [AC!Next]_view
<1>1. ASSUME NEW e, view'[i] = e PROVE view' = [view EXCEPT ![i] = e]
  BY <1>1
<1>2. view[i] # None => view[i] \in Shown
  OBVIOUS
<1>3. CASE view'[i] = view[i]
  BY <1>1, <1>3
<1>4. CASE view'[i] = None /\ view[i] # None
  BY <1>1, <1>4 DEF AC!Next, AC!Delete
<1>5. ASSUME NEW t \in Titles, NEW v \in Versions, view[i] = None,
             view'[i] = [title |-> t, rev |-> 1, ver |-> v],
             \A k \in Ids : view[k] # None => view[k].title # t
      PROVE  AC!Next
  <2>1. AC!Create(i, t, v)
    BY <1>1, <1>5 DEF AC!Create, AC!Taken
  <2> QED
    BY <2>1 DEF AC!Next
<1>6. ASSUME NEW n \in Nat, NEW v \in Versions \cup {None}, view[i] # None,
             view'[i] = [title |-> view[i].title, rev |-> view[i].rev + n, ver |-> v]
      PROVE  view' = [view EXCEPT ![i].rev = @ + n, ![i].ver = v]
  <2> DEFINE e == view[i]
             f == view'[i]
             m == e.rev + n
             g == [e EXCEPT !.rev = m, !.ver = v]
  <2>1. e \in Shown /\ m \in Nat /\ f = [title |-> e.title, rev |-> m, ver |-> v]
    BY <1>2, <1>6 DEF Shown
  <2> HIDE DEF e, f, m
  <2>2. g \in Shown /\ g.title = e.title /\ g.rev = m /\ g.ver = v
    BY <1>6, <2>1 DEF Shown
  <2> HIDE DEF g
  <2>3. \A h \in Shown : h = [title |-> h.title, rev |-> h.rev, ver |-> h.ver]
    BY DEF Shown
  <2>4. f = g
    BY <2>1, <2>2, <2>3
  <2>5. view' = [view EXCEPT ![i] = g]
    BY <1>1, <2>4 DEF f
  <2> QED
    BY <2>5 DEF e, g, m
<1>7. ASSUME NEW v \in Versions, view[i] # None,
             view'[i] = [title |-> view[i].title, rev |-> view[i].rev + 1, ver |-> v]
      PROVE  AC!Next
  BY <1>6, <1>7 DEF AC!Next, AC!Republish
<1>8. ASSUME NEW n \in {0, 1}, NEW v \in {None, view[i].ver}, view[i] # None,
             view'[i] = [title |-> view[i].title, rev |-> view[i].rev + n, ver |-> v]
      PROVE  AC!Next
  <2>1. n \in Nat /\ v \in Versions \cup {None}
    BY <1>2, <1>8 DEF Shown
  <2>2. view' = [view EXCEPT ![i].rev = @ + n, ![i].ver = v]
    BY <1>6, <1>8, <2>1
  <2>3. AC!Degrade(i)
    BY <1>8, <2>2 DEF AC!Degrade
  <2> QED
    BY <2>3 DEF AC!Next
<1> QED
  BY <1>3, <1>4, <1>5, <1>7, <1>8

LEMMA OneQuiet ==
    ASSUME OneAtATime, NEW w \in Workers
    PROVE  /\ Quiet <=> job[w].pc = "idle"
           /\ Quiet' <=> job'[w].pc = "idle"
BY DEF OneAtATime, Quiet

LEMMA BeginSeen ==
    ASSUME OneAtATime, TypeOK, AllSeen, NEW w \in Workers, Handle(w),
           job[w].pc = "idle", view' = IF Quiet' THEN Catalog' ELSE view
    PROVE  AllSeen' /\ view' = view
<1>1. /\ UNCHANGED <<rows, wmls>> /\ view = Catalog
      /\ \A i \in Ids : Offered(i)' = Offered(i) /\ Catalog'[i] = Catalog[i]
  BY IdleReads, OneQuiet DEF AllSeen, Offered, Listed, Catalog
<1> DEFINE
      Begun(i) ==
         /\ job'[w].pc \in Steps \ ({"idle"} \cup Saved)
         /\ job'[w].id = i
         /\ i # None => rows[i] # None /\ rows[i] \in Row /\ job'[w].obj.name = rows[i].name
         /\ job'[w].pc \in PublishSteps =>
               job'[w].obj.uploads = IF i = None THEN 1 ELSE rows[i].uploads + 1
<1>2. PICK i \in Ids \cup {None} : Begun(i)
  <2>1. CASE \/ \E login \in Logins, key \in Ids \cup Titles : RemoveBegin(w, login, key)
             \/ \E key \in Ids \cup Titles : DownloadBegin(w, key) \/ RateBegin(w, key)
    <3>1. PICK i \in Ids, key \in Ids \cup Titles, pc \in {"unlink", "rate", "count"},
               login \in Logins \cup {None} :
             GetAddon(key, i) /\ job' = [job EXCEPT ![w] = Holding(i, pc, login)]
      BY <2>1 DEF DownloadBegin, RateBegin, LookUp, RemoveBegin
    <3>2. rows[i] # None /\ rows[i] \in Row
      BY <3>1 DEF GetAddon, Named, TypeOK
    <3>3. job'[w].pc = pc /\ job'[w].id = i /\ job'[w].obj = rows[i]
      BY <3>1 DEF Holding, TypeOK
    <3>4. pc \in Steps \ ({"idle"} \cup Saved) /\ pc \notin PublishSteps
      BY DEF Steps, Saved, PublishSteps
    <3> QED
      BY <3>2, <3>3, <3>4
  <2>2. ASSUME NEW login \in Logins, NEW t \in Titles, NEW v \in Versions, NEW r \in Routes,
               NEW list \in AuthorLists, PublishBegin(w, login, t, v, r, list)
        PROVE  \E i \in Ids \cup {None} : Begun(i)
    <3>1. PICK i \in Ids \cup {None} :
             /\ Finds(t, i)
             /\ job' = [job EXCEPT ![w] =
                   [pc |-> FileStep(Uploaded(t, i)), login |-> login, ver |-> v,
                    route |-> r, todo |-> AuthorsOf(list, login), id |-> i,
                    obj |-> Uploaded(t, i)]]
      BY <2>2 DEF PublishBegin
    <3> DEFINE obj == Uploaded(t, i)
    <3>2. job'[w].pc = FileStep(obj) /\ job'[w].id = i /\ job'[w].obj = obj
      BY <3>1 DEF TypeOK
    <3>3. FileStep(obj) \in Steps \ ({"idle"} \cup Saved)
      BY DEF FileStep, Steps, Saved, PublishSteps
    <3>4. CASE i = None
      BY <3>2, <3>3, <3>4 DEF Uploaded
    <3>5. CASE i # None
      <4>1. rows[i] # None /\ rows[i] \in Row
        BY <3>1, <3>5 DEF Finds, Named, TypeOK
      <4>2. obj.name = rows[i].name /\ obj.uploads = rows[i].uploads + 1
        BY <3>5, <4>1 DEF Uploaded, Row
      <4> HIDE DEF obj
      <4> QED
        BY <3>2, <3>3, <3>5, <4>1, <4>2
    <3> QED
      BY <3>4, <3>5
  <2> QED
    BY <2>1, <2>2, IdleReads
<1>3. view' = view /\ ~ Quiet'
  BY <1>2, OneQuiet
<1>4. i # None => /\ view[i] # None /\ view[i].title = rows[i].name
                  /\ view[i].rev = rows[i].uploads /\ view[i].ver = Offered(i)
  <2> SUFFICES ASSUME i # None
               PROVE  /\ view[i] # None /\ view[i].title = rows[i].name
                      /\ view[i].rev = rows[i].uploads /\ view[i].ver = Offered(i)
    OBVIOUS
  <2>1. i \in Ids /\ rows[i] # None /\ rows[i] \in Row
    BY <1>2
  <2>2. view[i] = [title |-> rows[i].name, rev |-> rows[i].uploads, ver |-> Offered(i)]
    BY <1>1, <2>1, CatalogIs
  <2>3. view[i] \in Shown
    <3>1. rows[i].name \in Titles /\ rows[i].uploads \in Nat
      BY <2>1 DEF Row
    <3> QED
      BY <2>1, <2>2, <3>1, OfferedType DEF Shown
  <2>4. view[i] # None
    BY <2>3 DEF Shown
  <2> QED
    BY <2>2, <2>4
<1>5. Seen(job[w])'
  <2>1. \A k \in Ids : view'[k] = Catalog'[k]
    BY <1>1, <1>3
  <2>2. i # None => rows'[i] = rows[i] /\ Offered(i)' = Offered(i)
    BY <1>1, <1>2
  <2> QED
    BY <1>2, <1>3, <1>4, <2>1, <2>2 DEF Seen
<1> QED
  BY <1>3, <1>5 DEF OneAtATime, AllSeen

\* The row is saved anew, under its key or a new one.
LEMMA SaveSeen ==
    ASSUME OneAtATime, TypeOK, OwnFiles, FilesNamedApart, Alone, AllSeen, NEW w \in Workers,
           PublishSave(w), view' = IF Quiet' THEN Catalog' ELSE view
    PROVE  AllSeen' /\ view' = view
<1> DEFINE j == job[w]
<1>1. j \in Job /\ LocalsOK(j) /\ Current(j) /\ Seen(j) /\ j.pc = "save"
  BY JobOf DEF PublishSave, At, Alone, Knows, AllSeen
<1>2. PICK i \in Ids :
         /\ IF j.id = None THEN NextId(i) ELSE i = j.id
         /\ job' = [job EXCEPT ![w].pc = "clear", ![w].id = i]
  BY DEF PublishSave
<1>3. job'[w].pc = "clear" /\ job'[w].id = i /\ job'[w].obj = j.obj
  BY <1>1, <1>2 DEF TypeOK, Job
<1>4. view' = view /\ ~ Quiet'
  BY <1>3, OneQuiet
<1>5. ASSUME NEW k \in Ids \ {i} PROVE view[k] = Catalog'[k]
  <2>1. k \notin {j.id, job'[w].id}
    BY <1>2, <1>3, <1>5
  <2>2. Touches(w)
    BY HandleTouches DEF Handle, Publish
  <2>3. Catalog'[k] = Catalog[k]
    BY <2>1, <2>2, OthersKept
  <2> QED
    BY <1>1, <2>1, <2>3 DEF Seen
<1>6. /\ j.obj.uploads = IF view[i] = None THEN 1 ELSE view[i].rev + 1
      /\ view[i] # None => view[i].title = j.obj.name
  <2>1. CASE j.id = None
    <3>1. rows[i] = None
      BY <1>2, <2>1 DEF NextId
    <3>2. i # j.id /\ Catalog[i] = None
      BY <2>1, <3>1, CatalogIs
    <3>3. view[i] = None
      BY <1>1, <3>2 DEF Seen
    <3> QED
      BY <1>1, <2>1, <3>3 DEF Seen, PublishSteps
  <2>2. CASE j.id # None
    BY <1>1, <1>2, <2>2 DEF Seen, PublishSteps, Saved
  <2> QED
    BY <2>1, <2>2
<1> HIDE DEF j
<1>7. Seen(job[w])'
  BY <1>3, <1>4, <1>5, <1>6 DEF Seen, Saved
<1> QED
  BY <1>4, <1>7 DEF OneAtATime, AllSeen

LEMMA StaysSeen ==
    ASSUME OneAtATime, TypeOK, OwnFiles, FilesNamedApart, Alone, AllSeen, NEW w \in Workers,
           Handle(w), job[w].pc # "idle", job'[w].pc # "idle", ~ PublishSave(w),
           view' = IF Quiet' THEN Catalog' ELSE view
    PROVE  AllSeen' /\ view' = view
<1> DEFINE j == job[w]
<1>1. j \in Job /\ LocalsOK(j) /\ Seen(j)
  BY JobOf DEF AllSeen
<1>2. /\ job'[w].id = j.id /\ job'[w].obj.name = j.obj.name
      /\ job'[w].obj.uploads = j.obj.uploads
      /\ j.pc \in Saved <=> job'[w].pc \in Saved
      /\ j.pc \in PublishSteps <=> job'[w].pc \in PublishSteps
  BY StaysOrEnds DEF Idle
<1>3. view' = view /\ ~ Quiet'
  BY OneQuiet
<1>4. ASSUME NEW k \in Ids \ {j.id} PROVE view[k] = Catalog'[k]
  BY <1>1, <1>2, <1>4, HandleTouches, OthersKept DEF Seen
<1>5. ASSUME NEW i \in Ids, i = j.id, view[i] # None, j.pc \notin Saved
      PROVE  /\ rows'[i].uploads \in {view[i].rev, view[i].rev + 1}
             /\ Offered(i)' \in {None, view[i].ver}
  <2>1. ~ RemoveCommit(w)
    BY DEF RemoveCommit, Finish, Idle, TypeOK
  <2>2. /\ \/ rows'[i].uploads = rows[i].uploads
           \/ j.pc \in PublishSteps /\ rows'[i].uploads = j.obj.uploads
        /\ Offered(i)' \in {Offered(i), None}
    BY <1>5, <2>1, OwnKept
  <2>3. /\ rows[i].uploads \in {view[i].rev, view[i].rev + 1}
        /\ Offered(i) \in {None, view[i].ver}
        /\ j.pc \in PublishSteps => j.obj.uploads = view[i].rev + 1
    BY <1>1, <1>5 DEF Seen
  <2> QED
    BY <2>2, <2>3
<1>6. j.id \in Ids \cup {None}
  BY <1>1 DEF Job
<1> HIDE DEF j
<1>7. /\ j.pc \in PublishSteps =>
            j.obj.uploads = IF j.id = None \/ view[j.id] = None THEN 1 ELSE view[j.id].rev + 1
      /\ j.id # None /\ j.pc \notin Saved => view[j.id] # None
      /\ j.id # None /\ view[j.id] # None => view[j.id].title = j.obj.name
  BY <1>1 DEF Seen, j
<1>8. Seen(job[w])'
  BY <1>2, <1>3, <1>4, <1>5, <1>6, <1>7 DEF Seen
<1> QED
  BY <1>3, <1>8 DEF OneAtATime, AllSeen

\* A request ends, by itself, with an exception or killed, and what it did is
\* seen: one step of the catalogue.
LEMMA EndSeen ==
    ASSUME OneAtATime, TypeOK, TypeOK', Alone, AllSeen, NEW w \in Workers,
           job[w].pc # "idle", job'[w].pc = "idle", view' = IF Quiet' THEN Catalog' ELSE view,
           \A k \in Ids \ {job[w].id} : Catalog'[k] = Catalog[k],
           \A i \in Ids : i = job[w].id =>
              \/ rows'[i] = None /\ job[w].pc = "unlink"
              \/ /\ rows'[i] # None /\ rows'[i].name = job[w].obj.name
                 /\ \/ rows'[i].uploads = rows[i].uploads
                    \/ job[w].pc \in PublishSteps /\ rows'[i].uploads = job[w].obj.uploads
                 /\ Offered(i)' \in {Offered(i), None}
                 /\ job[w].pc \in Saved => Offered(i)' = Offered(i)
    PROVE  AllSeen' /\ [AC!Next]_view
<1> DEFINE j == job[w]
<1>1. j \in Job /\ LocalsOK(j) /\ Seen(j) /\ Current(j) /\ j.obj \in Row
  BY JobOf DEF AllSeen, Alone, Knows, LocalsOK
<1>2. Quiet' /\ view' = Catalog' /\ view' \in [Ids -> Shown \cup {None}]
  BY OneQuiet, CatalogTypeNext
<1>3. AllSeen'
  BY <1>2 DEF OneAtATime, AllSeen, Seen
<1>4. view \in [Ids -> Shown \cup {None}] /\ \A k \in Ids \ {j.id} : view'[k] = view[k]
  BY <1>1, <1>2 DEF AllSeen, Seen
<1>5. CASE j.id = None
  <2>1. view' = view
    BY <1>2, <1>4, <1>5
  <2> QED
    BY <1>3, <2>1
<1>6. ASSUME NEW i \in Ids, i = j.id PROVE [AC!Next]_view
  <2> HIDE DEF j
  <2>1. i # None
    OBVIOUS
  <2>2. CASE rows'[i] = None /\ j.pc = "unlink"
    <3>1. view'[i] = None /\ view[i] # None
      BY <1>1, <1>2, <1>6, <2>1, <2>2, CatalogIsNext DEF Seen, Saved
    <3> QED
      BY <1>2, <1>4, <1>6, <3>1, OneEntry
  <2>3. CASE ~ (rows'[i] = None /\ j.pc = "unlink")
    <3>1. /\ rows'[i] # None /\ rows'[i].name = j.obj.name
          /\ \/ rows'[i].uploads = rows[i].uploads
             \/ j.pc \in PublishSteps /\ rows'[i].uploads = j.obj.uploads
          /\ Offered(i)' \in {Offered(i), None}
          /\ j.pc \in Saved => Offered(i)' = Offered(i)
      BY <1>6, <2>3 DEF j
    <3>2. view'[i] = [title |-> j.obj.name, rev |-> rows'[i].uploads, ver |-> Offered(i)']
      BY <1>2, <3>1, CatalogIsNext
    <3>3. CASE j.pc \in Saved
      <4>1. /\ rows[i] = j.obj /\ Offered(i) = j.ver /\ j.ver \in Versions
            /\ j.pc \in PublishSteps
        BY <1>6, <3>3, SavedOffers DEF OffersSaved, j, Saved, PublishSteps
      <4>2. view'[i] = [title |-> j.obj.name, rev |-> j.obj.uploads, ver |-> j.ver]
        BY <3>1, <3>2, <3>3, <4>1
      <4>3. CASE view[i] = None
        <5>1. j.obj.uploads = 1 /\ j.obj.name \in Titles
          <6>1. j.obj.uploads = IF j.id = None \/ view[j.id] = None THEN 1 ELSE view[j.id].rev + 1
            BY <1>1, <4>1 DEF Seen, j
          <6>2. j.obj.name \in Titles
            BY <1>1 DEF Row
          <6> QED
            BY <1>6, <4>3, <6>1, <6>2
        <5>2. \A k \in Ids : view[k] # None => view[k].title # j.obj.name
          <6> SUFFICES ASSUME NEW k \in Ids, view[k] # None, view[k].title = j.obj.name
                       PROVE  FALSE
            OBVIOUS
          <6>1. k # i /\ view[k] = Catalog[k]
            BY <1>1, <1>6, <4>3 DEF Seen, j
          <6>2. rows[k] # None
            BY <6>1, CatalogIs
          <6>4. view[k] = [title |-> rows[k].name, rev |-> rows[k].uploads, ver |-> Offered(k)]
            BY <6>1, <6>2, CatalogIs
          <6>5. view[k].title = rows[k].name
            BY <6>4
          <6>3. rows[i] # None /\ rows[i].name = j.obj.name
            BY <1>1, <4>1
          <6> QED
            BY <6>1, <6>2, <6>3, <6>5 DEF Alone, Unique
        <5>3. view'[i] = [title |-> j.obj.name, rev |-> 1, ver |-> j.ver]
          BY <4>2, <5>1
        <5>4. \E t \in Titles, v \in Versions :
                 /\ view[i] = None /\ view'[i] = [title |-> t, rev |-> 1, ver |-> v]
                 /\ \A k \in Ids : view[k] # None => view[k].title # t
          BY <4>1, <4>3, <5>1, <5>2, <5>3
        <5>5. \A k \in Ids \ {i} : view'[k] = view[k]
          BY <1>4, <1>6
        <5> QED
          BY <1>2, <1>4, <5>4, <5>5, OneEntry, Zenon
      <4>4. CASE view[i] # None
        <5>1. view[i].title = j.obj.name /\ j.obj.uploads = view[i].rev + 1
          <6>1. j.obj.uploads = IF j.id = None \/ view[j.id] = None THEN 1 ELSE view[j.id].rev + 1
            BY <1>1, <4>1 DEF Seen, j
          <6>2. view[i].title = j.obj.name
            BY <1>1, <1>6, <2>1, <4>1, <4>4 DEF Seen, j
          <6> QED
            BY <1>6, <2>1, <4>4, <6>1, <6>2
        <5> QED
          BY <1>2, <1>4, <1>6, <4>1, <4>2, <4>4, <5>1, OneEntry
      <4> QED
        BY <4>3, <4>4
    <3>4. CASE j.pc \notin Saved
      <4>1. /\ view[i] # None /\ view[i].title = j.obj.name
            /\ rows[i].uploads \in {view[i].rev, view[i].rev + 1}
            /\ Offered(i) \in {None, view[i].ver}
            /\ j.pc \in PublishSteps => j.obj.uploads = view[i].rev + 1
        BY <1>1, <1>6, <2>1, <3>4 DEF Seen, j
      <4>2. view[i].rev \in Nat
        BY <1>4, <4>1 DEF Shown
      <4>3. PICK n \in {0, 1} : rows'[i].uploads = view[i].rev + n
        BY <3>1, <4>1, <4>2
      <4>4. Offered(i)' \in {None, view[i].ver}
        BY <3>1, <4>1
      <4>5. view'[i] = [title |-> view[i].title, rev |-> view[i].rev + n, ver |-> Offered(i)']
        BY <3>2, <4>1, <4>3
      <4> QED
        BY <1>2, <1>4, <1>6, <4>1, <4>4, <4>5, OneEntry
    <3> QED
      BY <3>3, <3>4
  <2> QED
    BY <2>2, <2>3
<1>7. j.id \in Ids \cup {None}
  BY <1>1 DEF Job
<1> QED
  BY <1>3, <1>5, <1>6, <1>7

\* A request that ends, step by step of its handler.
LEMMA HandleEndSeen ==
    ASSUME OneAtATime, TypeOK, TypeOK', OwnFiles, FilesNamedApart, Alone, AllSeen,
           NEW w \in Workers, Handle(w), job[w].pc # "idle", job'[w].pc = "idle",
           view' = IF Quiet' THEN Catalog' ELSE view
    PROVE  AllSeen' /\ [AC!Next]_view
<1> DEFINE j == job[w]
<1>1. j \in Job /\ LocalsOK(j) /\ Knows(j)
  BY JobOf DEF Alone
<1>2. ~ PublishSave(w)
  BY <1>1 DEF PublishSave, TypeOK, Job
<1>3. job'[w].id = None
  BY <1>2, StaysOrEnds DEF Idle
<1>4. ASSUME NEW k \in Ids \ {j.id} PROVE Catalog'[k] = Catalog[k]
  BY <1>3, HandleTouches, OthersKept
<1>5. ASSUME NEW i \in Ids, i = j.id, RemoveCommit(w)
      PROVE  rows'[i] = None /\ j.pc = "unlink"
  BY <1>5 DEF RemoveCommit, At, TypeOK
<1>6. ASSUME NEW i \in Ids, i = j.id, j.pc \in Saved PROVE Offered(i)' = Offered(i)
  <2>1. CASE PublishFinish(w)
    <3>1. rows'[i] = rows[i] /\ wmls' = wmls
      BY <1>1, <1>6, <2>1 DEF PublishFinish, Save, Knows, Current, TypeOK, Saved, files
    <3> QED
      BY <3>1 DEF Offered, Listed
  <2>2. CASE ~ PublishFinish(w)
    <3>1. UNCHANGED <<rows, wmls>>
      BY <1>2, <1>6, <2>2 DEF Saved, At, Handle, Publish, Remove, Download, Rate, Fail,
         PublishBegin, PublishDropTbz, PublishSaveTbz, PublishDropWml, PublishSaveWml,
         PublishWrite, PublishTar, PublishStore, PublishClearAuthors, PublishFindAuthor,
         PublishCreateAuthor, PublishLinkAuthor, RemoveBegin, RemoveUnlinkTbz,
         RemoveUnlinkWml, RemoveCommit, DownloadBegin, DownloadCount, RateBegin, LookUp,
         RateSave, db, files
    <3> QED
      BY <3>1 DEF Offered, Listed
  <2> QED
    BY <2>1, <2>2
<1>7. ASSUME NEW i \in Ids, i = j.id, ~ RemoveCommit(w)
      PROVE  /\ rows'[i] # None /\ rows'[i].name = j.obj.name
             /\ \/ rows'[i].uploads = rows[i].uploads
                \/ j.pc \in PublishSteps /\ rows'[i].uploads = j.obj.uploads
             /\ Offered(i)' \in {Offered(i), None}
             /\ j.pc \in Saved => Offered(i)' = Offered(i)
  <2>1. rows[i].name = j.obj.name
    BY <1>1, <1>7 DEF Knows, Current, Named
  <2> QED
    BY <1>2, <1>6, <1>7, <2>1, OwnKept
<1> QED
  BY <1>4, <1>5, <1>7, EndSeen

LEMMA NextSeen ==
    ASSUME OneAtATime, FilesNamedApart
    PROVE  TypeOK /\ OwnFiles /\ Alone /\ AllSeen /\ [Next]_vars /\ TypeOK'
              => AllSeen' /\ [AC!Next]_view
<1> SUFFICES ASSUME TypeOK, OwnFiles, Alone, AllSeen, [Next]_vars, TypeOK'
             PROVE  AllSeen' /\ [AC!Next]_view
  OBVIOUS
<1>1. UNCHANGED <<rows, wmls>> =>
         Catalog' = Catalog /\ \A i \in Ids : Offered(i)' = Offered(i)
  BY DEF Catalog, Offered, Listed
<1>2. ASSUME UNCHANGED <<rows, wmls, job, view>> PROVE AllSeen' /\ [AC!Next]_view
  <2>1. ASSUME NEW w \in Workers PROVE Seen(job[w])'
    <3>1. Seen(job[w]) /\ job'[w] = job[w] /\ job[w].id \in Ids \cup {None}
      BY <1>2, JobOf DEF AllSeen, Job
    <3> QED
      BY <1>1, <1>2, <3>1 DEF Seen
  <2> QED
    BY <1>1, <1>2, <2>1 DEF AllSeen, Quiet
<1>3. CASE UNCHANGED vars
  BY <1>2, <1>3 DEF vars
<1>4. ASSUME NEW w \in Workers, Handle(w), view' = IF Quiet' THEN Catalog' ELSE view
      PROVE  AllSeen' /\ [AC!Next]_view
  <2>1. CASE job[w].pc = "idle"
    BY <1>4, <2>1, BeginSeen
  <2>2. CASE PublishSave(w)
    BY <1>4, <2>2, SaveSeen
  <2>3. CASE job[w].pc # "idle" /\ ~ PublishSave(w) /\ job'[w].pc # "idle"
    BY <1>4, <2>3, StaysSeen
  <2>4. CASE job[w].pc # "idle" /\ job'[w].pc = "idle"
    BY <1>4, <2>4, HandleEndSeen
  <2> QED
    BY <2>1, <2>2, <2>3, <2>4
<1>5. CASE Kill /\ view' = IF Quiet' THEN Catalog' ELSE view
  <2>1. PICK w \in Workers : job[w].pc # "idle"
    BY <1>5 DEF Kill, Quiet
  <2>2. job'[w].pc = "idle" /\ UNCHANGED <<rows, wmls>>
    BY <1>5 DEF Kill, Idle, db, files
  <2>3. ASSUME NEW i \in Ids, i = job[w].id
        PROVE  rows'[i] # None /\ rows'[i].name = job[w].obj.name
    BY <2>1, <2>2, <2>3 DEF Alone, Knows, Current, Named
  <2> QED
    BY <1>1, <1>5, <2>1, <2>2, <2>3, EndSeen
<1>6. CASE (\E n \in Names : AdminAddAuthor(n)) /\ view' = IF Quiet' THEN Catalog' ELSE view
  <2>1. UNCHANGED <<rows, wmls, job>>
    BY <1>6 DEF AdminAddAuthor, files
  <2>2. view' = view
    BY <1>1, <1>6, <2>1 DEF AllSeen, Quiet
  <2> QED
    BY <1>2, <2>1, <2>2
<1> QED
  BY <1>3, <1>4, <1>5, <1>6 DEF Next

\* Seen between requests, the server that serves one request at a time is the
\* atomic catalogue (views.py, models.py): an exception or a kill anywhere in
\* publish, and the reuse of the key of a removed add-on, never serve new
\* content under an old revision.
THEOREM ImplementsCatalog ==
    ASSUME OneAtATime, FilesNamedApart PROVE Spec => CatalogSpec
<1>1. Init => AC!Init
  BY DEF Init, AC!Init
<1>2. Spec => [](TypeOK /\ OwnFiles)
  BY TypeCorrect, InitOwnFiles, NextOwnFiles, PTL DEF Spec
<1>3. Spec => []AllSeen
  BY <1>2, InitAllSeen, NextSeen, AloneAlways, PTL DEF Spec
<1>4. Spec => [][AC!Next]_view
  BY <1>2, <1>3, NextSeen, AloneAlways, PTL DEF Spec
<1> QED
  BY <1>1, <1>4, PTL DEF Spec, CatalogSpec, AC!Spec
-----------------------------------------------------------------------------
(* One process, not killed: somebody may publish or remove every add-on *)

\* No author is in the table twice: publish adds a name that it has not found.
NamesOnce ==
    /\ \A n \in Names : people[n] <= 1
    /\ \A w \in Workers : job[w].pc = "create" => people[Head(job[w].todo)] = 0

LEMMA NextNamesOnce ==
    ASSUME OneAtATime, "admin" \notin Faults
    PROVE  TypeOK /\ NamesOnce /\ [Next]_vars => NamesOnce'
<1> SUFFICES ASSUME TypeOK, NamesOnce, [Next]_vars PROVE NamesOnce'
  OBVIOUS
<1>1. ASSUME NEW w \in Workers, people' = people, job'[w].pc # "create"
      PROVE  NamesOnce'
  BY <1>1 DEF OneAtATime, NamesOnce
<1>2. ASSUME NEW w \in Workers, PublishFindAuthor(w) PROVE NamesOnce'
  <2>1. job' = [job EXCEPT ![w].pc = IF people[Head(job[w].todo)] = 0 THEN "create" ELSE "link"]
        /\ people' = people
    BY <1>2 DEF PublishFindAuthor, Goto, db
  <2>2. job'[w].todo = job[w].todo
        /\ (job'[w].pc = "create" => people[Head(job[w].todo)] = 0)
    BY <2>1, JobOf DEF TypeOK, Job
  <2> QED
    BY <2>1, <2>2 DEF OneAtATime, NamesOnce
<1>3. ASSUME NEW w \in Workers, PublishCreateAuthor(w) PROVE NamesOnce'
  <2>1. /\ job[w].pc = "create"
        /\ people' = [people EXCEPT ![Head(job[w].todo)] = @ + 1]
        /\ job' = [job EXCEPT ![w].pc = "link"]
    BY <1>3 DEF PublishCreateAuthor, At, Goto
  <2>2. people[Head(job[w].todo)] = 0
    BY <2>1 DEF NamesOnce
  <2>3. \A n \in Names : people'[n] <= 1
    BY <2>1, <2>2 DEF NamesOnce, TypeOK
  <2>4. job'[w].pc = "link"
    BY <2>1 DEF TypeOK, Job
  <2> QED
    BY <2>3, <2>4 DEF OneAtATime, NamesOnce
<1>4. ASSUME NEW w \in Workers, Handle(w), ~ PublishFindAuthor(w), ~ PublishCreateAuthor(w)
      PROVE  people' = people /\ job'[w].pc # "create"
  <2>1. people' = people
    BY <1>4 DEF Handle, Publish, Remove, Download, Rate, Fail, PublishBegin, PublishDropTbz,
       PublishSaveTbz, PublishDropWml, PublishSaveWml, PublishWrite, PublishTar, PublishStore,
       PublishSave, PublishClearAuthors, PublishLinkAuthor, PublishFinish, RemoveBegin,
       RemoveUnlinkTbz, RemoveUnlinkWml, RemoveCommit, DownloadBegin, RateBegin, LookUp,
       DownloadCount, RateSave, db
  <2>2. CASE Finish(w)
    BY <2>1, <2>2 DEF Finish, Idle, TypeOK
  <2>3. CASE \/ \E login \in Logins, t \in Titles, v \in Versions, r \in Routes,
                   list \in AuthorLists : PublishBegin(w, login, t, v, r, list)
             \/ \E login \in Logins, key \in Ids \cup Titles : RemoveBegin(w, login, key)
             \/ \E key \in Ids \cup Titles : DownloadBegin(w, key) \/ RateBegin(w, key)
    BY <2>1, <2>3 DEF PublishBegin, RemoveBegin, DownloadBegin, RateBegin, LookUp, Holding,
       FileStep, TypeOK
  <2>5. CASE \/ PublishDropTbz(w) \/ PublishSaveTbz(w) \/ PublishDropWml(w)
             \/ PublishSaveWml(w) \/ PublishWrite(w) \/ PublishTar(w) \/ PublishStore(w)
             \/ PublishSave(w) \/ PublishClearAuthors(w) \/ PublishLinkAuthor(w)
             \/ RemoveUnlinkTbz(w) \/ RemoveUnlinkWml(w)
    <3>1. CASE job[w].pc \notin Saved /\ ~ PublishSave(w)
      <4>1. job'[w] = Idle \/ job'[w].pc \notin Saved
        BY <1>4, <2>5, <3>1, StaysOrEnds DEF PublishDropTbz, PublishSaveTbz, PublishDropWml,
           PublishSaveWml, PublishWrite, PublishTar, PublishStore, PublishClearAuthors,
           PublishLinkAuthor, RemoveUnlinkTbz, RemoveUnlinkWml, At
      <4> QED
        BY <2>1, <4>1 DEF Idle, Saved
    <3>2. CASE PublishSave(w)
      BY <2>1, <3>2 DEF PublishSave, TypeOK, Job
    <3>3. CASE PublishClearAuthors(w)
      BY <2>1, <3>3 DEF PublishClearAuthors, Goto, TypeOK, Job
    <3>4. CASE PublishLinkAuthor(w)
      BY <2>1, <3>4 DEF PublishLinkAuthor, TypeOK, Job
    <3> QED
      BY <2>5, <3>1, <3>2, <3>3, <3>4 DEF PublishDropTbz, PublishSaveTbz, PublishDropWml,
         PublishSaveWml, PublishWrite, PublishTar, PublishStore, RemoveUnlinkTbz,
         RemoveUnlinkWml, At, Saved
  <2>6. Finish(w) \/ ~ (PublishFinish(w) \/ RemoveCommit(w) \/ DownloadCount(w) \/ RateSave(w) \/ Fail(w))
    BY DEF PublishFinish, RemoveCommit, DownloadCount, RateSave, Fail
  <2> QED
    BY <1>4, <2>1, <2>2, <2>3, <2>5, <2>6 DEF Handle, Publish, Remove, Download, Rate
<1>5. CASE Kill
  BY <1>5 DEF Kill, db, NamesOnce, Idle
<1>6. CASE UNCHANGED vars
  BY <1>6 DEF vars, NamesOnce
<1> QED
  BY <1>1, <1>2, <1>3, <1>4, <1>5, <1>6 DEF Next, AdminAddAuthor

\* Every add-on has an author who can log in, except the one whose authors
\* publish is adding.
Manned ==
    \A i \in Ids : rows[i] # None =>
        \/ authors[i] \cap Logins # {}
        \/ \E w \in Workers : job[w].pc \in Saved \ {"final"} /\ job[w].id = i

\* Authors stay, and no add-on is new.
LEMMA StaysManned ==
    ASSUME OneAtATime, Manned, NEW w \in Workers, authors' = authors,
           \A i \in Ids : rows'[i] # None => rows[i] # None,
           job[w].pc \in Saved \ {"final"} =>
              job'[w].pc \in Saved \ {"final"} /\ job'[w].id = job[w].id
    PROVE  Manned'
BY DEF OneAtATime, Manned

LEMMA NextManned ==
    ASSUME OneAtATime, Faults \cap {"kill", "admin"} = {}
    PROVE  TypeOK /\ Alone /\ NamesOnce /\ Manned /\ [Next]_vars /\ Alone' => Manned'
<1> SUFFICES ASSUME TypeOK, Alone, NamesOnce, Manned, [Next]_vars, Alone' PROVE Manned'
  OBVIOUS
<1>1. ASSUME NEW w \in Workers, PublishSave(w) PROVE Manned'
  <2>1. PICK i \in Ids : /\ rows' = [rows EXCEPT ![i] = job[w].obj]
                         /\ job' = [job EXCEPT ![w].pc = "clear", ![w].id = i]
    BY <1>1 DEF PublishSave, Save
  <2>2. job'[w].pc = "clear" /\ job'[w].id = i
    BY <2>1, JobOf DEF TypeOK, Job
  <2>3. authors' = authors /\ \A k \in Ids \ {i} : rows'[k] = rows[k]
    BY <1>1, <2>1 DEF PublishSave, TypeOK
  <2>4. job[w].pc = "save"
    BY <1>1 DEF PublishSave, At
  <2> QED
    BY <2>2, <2>3, <2>4 DEF OneAtATime, Manned, Saved
<1>2. ASSUME NEW w \in Workers, PublishClearAuthors(w) PROVE Manned'
  <2>1. /\ job[w] \in Job /\ job[w].pc = "clear" /\ rows' = rows
        /\ authors' = [authors EXCEPT ![job[w].id] = {}]
        /\ job' = [job EXCEPT ![w].pc = "find"]
    BY <1>2, JobOf DEF PublishClearAuthors, At, Goto
  <2>2. job'[w].pc = "find" /\ job'[w].id = job[w].id
    BY <2>1 DEF TypeOK, Job
  <2>3. \A i \in Ids : i # job[w].id => authors'[i] = authors[i]
    BY <2>1 DEF TypeOK
  <2> QED
    BY <2>1, <2>2, <2>3 DEF OneAtATime, Manned, Saved
<1>3. ASSUME NEW w \in Workers, PublishFindAuthor(w) \/ PublishCreateAuthor(w) PROVE Manned'
  <2>1. job[w] \in Job /\ rows' = rows /\ authors' = authors
    BY <1>3, JobOf DEF PublishFindAuthor, PublishCreateAuthor, db
  <2>2. job'[w].pc \in {"create", "link"} /\ job'[w].id = job[w].id
    BY <1>3, <2>1 DEF PublishFindAuthor, PublishCreateAuthor, Goto, TypeOK, Job
  <2> QED
    BY <2>1, <2>2, StaysManned DEF Saved
<1>4. ASSUME NEW w \in Workers, PublishLinkAuthor(w) PROVE Manned'
  <2> DEFINE a == authors[job[w].id] \cup {Head(job[w].todo)}
             pc == IF Tail(job[w].todo) = <<>> THEN "final" ELSE "find"
  <2>1. /\ job[w] \in Job /\ LocalsOK(job[w]) /\ job[w].pc = "link" /\ rows' = rows
        /\ authors' = [authors EXCEPT ![job[w].id] = a]
        /\ job' = [job EXCEPT ![w].pc = pc, ![w].todo = Tail(job[w].todo)]
    BY <1>4, JobOf DEF PublishLinkAuthor, At
  <2>2. job[w].id \in Ids /\ job[w].login \in Logins
    BY <2>1 DEF LocalsOK, PublishSteps
  <2>3. /\ job'[w].pc = pc /\ job'[w].id = job[w].id /\ job'[w].login = job[w].login
        /\ job'[w].todo = Tail(job[w].todo)
    BY <2>1 DEF TypeOK, Job
  <2>4. \A i \in Ids : authors[i] \subseteq authors'[i]
    BY <2>1 DEF TypeOK
  <2> HIDE DEF a, pc
  <2>0. pc \in {"find", "final"}
    BY DEF pc
  <2>5. CASE pc = "find"
    <3>1. ASSUME NEW i \in Ids, rows[i] # None, i # job[w].id
          PROVE  authors[i] \cap Logins # {}
      BY <3>1 DEF OneAtATime, Manned
    <3> QED
      <4>1. job'[w].pc \in Saved \ {"final"}
        BY <2>3, <2>5 DEF Saved
      <4>2. \A i \in Ids : rows'[i] # None /\ i # job[w].id => authors'[i] \cap Logins # {}
        BY <2>1, <2>4, <3>1
      <4> QED
        BY <2>3, <4>1, <4>2 DEF Manned
  <2>6. CASE pc = "final"
    <3>1. Granted(job[w])'
      BY DEF Alone, Knows
    <3>2. job'[w].login \in authors'[job'[w].id]
      BY <2>2, <2>3, <2>6, <3>1 DEF Granted, PublishSteps, Saved
    <3> QED
      <4>1. ASSUME NEW i \in Ids, rows[i] # None, i # job[w].id
            PROVE  authors[i] \cap Logins # {}
        BY <4>1 DEF OneAtATime, Manned
      <4> QED
        BY <2>1, <2>2, <2>3, <2>4, <3>2, <4>1 DEF Manned
  <2> QED
    BY <2>0, <2>5, <2>6
<1>5. ASSUME NEW w \in Workers, RemoveCommit(w) PROVE Manned'
  <2>1. /\ job[w].pc = "unlink" /\ rows'[job[w].id] = None
        /\ \A i \in Ids : i # job[w].id => rows'[i] = rows[i] /\ authors'[i] = authors[i]
    <3>1. job[w].pc = "unlink" /\ job[w].id \in Ids
      BY <1>5, JobOf DEF RemoveCommit, At, LocalsOK
    <3> QED
      BY <1>5, <3>1 DEF RemoveCommit, TypeOK
  <2> QED
    BY <2>1 DEF OneAtATime, Manned, Saved
<1>6. ASSUME NEW w \in Workers, PublishFinish(w) \/ DownloadCount(w) PROVE Manned'
  <2>1. /\ job[w].pc \in {"final", "count"} /\ authors' = authors /\ job[w].id \in Ids
        /\ \A i \in Ids : i # job[w].id => rows'[i] = rows[i]
    <3>1. PICK n \in 0..MaxDownloads :
             Save(job[w].id, [job[w].obj EXCEPT !.downloads = n])
      BY <1>6, LastSaves
    <3>2. /\ job[w].pc \in {"final", "count"} /\ authors' = authors /\ job[w].id \in Ids
      BY <1>6, LastSaves
    <3>3. \A i \in Ids : i # job[w].id => rows'[i] = rows[i]
      BY <3>1, <3>2 DEF Save, TypeOK
    <3> QED
      BY <3>2, <3>3
  <2>2. rows[job[w].id] # None
    BY <2>1 DEF Alone, Knows, Current, Named
  <2> QED
    BY <2>1, <2>2, StaysManned DEF Saved
<1>7. ASSUME NEW w \in Workers, Fail(w) PROVE Manned'
  <2>1. job[w].pc \notin Saved \ {"final"}
    <3>1. ASSUME job[w].pc = "find" PROVE FALSE
      <4>1. job[w].todo \in Seq(Names) /\ job[w].todo # <<>>
        BY <3>1, JobOf DEF Job, LocalsOK, PublishSteps
      <4>2. Head(job[w].todo) \in Names
        BY <4>1
      <4>3. people[Head(job[w].todo)] <= 1 /\ people[Head(job[w].todo)] \in Nat
        BY <4>2 DEF NamesOnce, TypeOK
      <4> QED
        BY <1>7, <3>1, <4>3 DEF Fail, Raises, AfterTar
    <3> QED
      BY <1>7, <3>1 DEF Fail, Raises, AfterTar, Saved
  <2> QED
    BY <1>7, <2>1, StaysManned DEF Fail, db
<1>8. ASSUME NEW w \in Workers, Handle(w), job[w].pc \notin Saved, ~ PublishSave(w),
             ~ RemoveCommit(w), ~ DownloadCount(w)
      PROVE  Manned'
  <2>1. authors' = authors /\ \A i \in Ids : rows'[i] # None => rows[i] # None
    <3>1. CASE PublishSaveTbz(w) \/ PublishSaveWml(w)
      <4>1. /\ authors' = authors /\ \A i \in Ids : i # job[w].id => rows'[i] = rows[i]
            /\ job[w].pc \in {"saveTbz", "saveWml"} /\ job[w].id \in Ids
        BY <3>1, JobOf DEF PublishSaveTbz, PublishSaveWml, Save, At, LocalsOK, TypeOK
      <4>2. rows[job[w].id] # None
        BY <4>1 DEF Alone, Knows, Current, Named
      <4> QED
        BY <4>1, <4>2
    <3>2. CASE ~ (PublishSaveTbz(w) \/ PublishSaveWml(w))
      <4>1. UNCHANGED <<rows, authors>>
        BY <1>8, <3>2 DEF Handle, Publish, Remove, Download, Rate, Fail, PublishBegin,
           PublishDropTbz, PublishDropWml, PublishWrite, PublishTar, PublishStore,
           PublishClearAuthors, PublishFindAuthor, PublishCreateAuthor, PublishLinkAuthor,
           PublishFinish, RemoveBegin, RemoveUnlinkTbz, RemoveUnlinkWml, DownloadBegin,
           RateBegin, LookUp, RateSave, db, At, Saved
      <4> QED
        BY <4>1
    <3> QED
      BY <3>1, <3>2
  <2> QED
    BY <1>8, <2>1, StaysManned
<1>9. CASE UNCHANGED vars
  BY <1>9 DEF vars, Manned
<1>10. ASSUME NEW w \in Workers, Handle(w), job[w].pc \in Saved, ~ PublishClearAuthors(w),
              ~ PublishFindAuthor(w), ~ PublishCreateAuthor(w), ~ PublishLinkAuthor(w),
              ~ PublishFinish(w)
       PROVE  Fail(w)
  BY <1>10 DEF Handle, Publish, Remove, Download, Rate, PublishBegin, PublishDropTbz,
     PublishSaveTbz, PublishDropWml, PublishSaveWml, PublishWrite, PublishTar, PublishStore,
     PublishSave, RemoveBegin, RemoveUnlinkTbz, RemoveUnlinkWml, RemoveCommit, DownloadBegin,
     RateBegin, LookUp, DownloadCount, RateSave, At, Saved
<1> QED
  <2>1. ASSUME NEW w \in Workers, Handle(w) PROVE Manned'
    BY <2>1, <1>1, <1>2, <1>3, <1>4, <1>5, <1>6, <1>7, <1>8, <1>10
  <2> QED
    BY <2>1, <1>9 DEF Next, Kill, AdminAddAuthor

\* Between requests every add-on has an author who can log in, for any failure
\* of publish (views.py:276-287) in the one process, unless it is killed or the
\* admin site gives a name to a second author.
THEOREM MaintainableAlways ==
    ASSUME OneAtATime, Faults \cap {"kill", "admin"} = {}
    PROVE  Spec => []Maintainable
<1>1. Init => NamesOnce /\ Manned
  BY DEF Init, NamesOnce, Manned, Idle
<1>2. NamesOnce /\ Manned => Maintainable
  BY DEF Manned, Maintainable, Quiet, Saved
<1>3. TypeOK /\ NamesOnce /\ [Next]_vars => NamesOnce'
  BY NextNamesOnce
<1> QED
  BY <1>1, <1>2, <1>3, NextManned, AloneAlways, PTL DEF Spec

-----------------------------------------------------------------------------
(* One process, not killed: the archive of what is listed *)

\* An archive is named after its add-on.
OwnArchive(row) == row.tbz \in {None, row.name}

\* A row with a file has the archive of its version.
Packed(i) == rows[i].wml # None => /\ rows[i].tbz = rows[i].name
                                   /\ tars[rows[i].name] = rows[i].ver

\* Where a request has deleted the archive of a row that still has its file.
Between == {"saveTbz", "dropWml", "saveWml", "unlink"}

\* What is about to be saved is packed.
Ready(j) == j.pc \in Saved \cup {"store", "save"} =>
               j.obj.tbz = j.obj.name /\ tars[j.obj.name] = j.obj.ver

Archived ==
    /\ \A w \in Workers : Ready(job[w]) /\ (job[w].pc # "idle" => OwnArchive(job[w].obj))
    /\ \A i \in Ids : rows[i] # None =>
          /\ OwnArchive(rows[i])
          /\ Packed(i) \/ \E w \in Workers : job[w].pc \in Between /\ job[w].id = i

LEMMA OneArchived ==
    ASSUME OneAtATime, NEW w \in Workers, Ready(job[w])',
           (job[w].pc # "idle" => OwnArchive(job[w].obj))',
           \A i \in Ids : rows'[i] # None =>
              /\ OwnArchive(rows[i])'
              /\ Packed(i)' \/ (job'[w].pc \in Between /\ job'[w].id = i)
    PROVE  Archived'
BY DEF OneAtATime, Archived

\* A request that ends, or keeps its row, while rows and archives stay.
LEMMA StaysArchived ==
    ASSUME OneAtATime, Archived, NEW w \in Workers, UNCHANGED <<rows, tars>>,
           job[w].pc \in Between => job'[w].pc \in Between /\ job'[w].id = job[w].id,
           Ready(job[w])', (job[w].pc # "idle" => OwnArchive(job[w].obj))'
    PROVE  Archived'
<1>1. \A i \in Ids : rows'[i] # None =>
         OwnArchive(rows[i])' /\ (Packed(i)' \/ (job'[w].pc \in Between /\ job'[w].id = i))
  BY DEF OneAtATime, Archived, Packed, OwnArchive
<1> QED
  BY <1>1, OneArchived

\* The other rows, when a request changes its own row or archive.
LEMMA OthersArchived ==
    ASSUME OneAtATime, TypeOK, Alone, Archived, NEW w \in Workers, job[w].pc # "idle",
           NEW i \in Ids, i # job[w].id, rows'[i] = rows[i], rows[i] # None,
           \A t \in Titles : t # job[w].obj.name => tars'[t] = tars[t]
    PROVE  OwnArchive(rows[i])' /\ Packed(i)'
<1>1. OwnArchive(rows[i]) /\ Packed(i)
  BY DEF OneAtATime, Archived
<1>2. rows[i].name \in Titles
  BY DEF TypeOK, Row
<1>3. rows[i].name # job[w].obj.name
  <2>1. Current(job[w]) /\ Unique /\ job[w].id \in Ids \cup {None}
    BY JobOf DEF Alone, Knows, Job
  <2> QED
    BY <2>1 DEF Current, Unique, Named
<1> QED
  BY <1>1, <1>2, <1>3 DEF OwnArchive, Packed

\* Requests that begin.
LEMMA BeginArchived ==
    ASSUME OneAtATime, TypeOK, Archived, NEW w \in Workers,
           \/ \E login \in Logins, t \in Titles, v \in Versions, r \in Routes,
                 list \in AuthorLists : PublishBegin(w, login, t, v, r, list)
           \/ \E login \in Logins, key \in Ids \cup Titles : RemoveBegin(w, login, key)
           \/ \E key \in Ids \cup Titles : DownloadBegin(w, key) \/ RateBegin(w, key)
    PROVE  Archived'
<1>1. job[w].pc = "idle" /\ UNCHANGED <<rows, tars>>
  BY DEF PublishBegin, RemoveBegin, DownloadBegin, RateBegin, LookUp, At, db, files
<1>2. job'[w].pc \notin Saved \cup {"store", "save"} /\ OwnArchive(job'[w].obj)
  <2>1. ASSUME NEW login \in Logins, NEW t \in Titles, NEW v \in Versions, NEW r \in Routes,
               NEW list \in AuthorLists, PublishBegin(w, login, t, v, r, list)
        PROVE  <1>2
    <3>1. PICK i \in Ids \cup {None} :
             /\ Finds(t, i)
             /\ job'[w].obj = Uploaded(t, i) /\ job'[w].pc = FileStep(Uploaded(t, i))
      BY <2>1 DEF PublishBegin, TypeOK
    <3>2. OwnArchive(Uploaded(t, i))
      <4>1. CASE i = None
        BY <4>1 DEF Uploaded, OwnArchive
      <4>2. CASE i # None
        <5>1. i \in Ids /\ rows[i] # None /\ rows[i] \in Row
          BY <3>1, <4>2 DEF Finds, Named, TypeOK
        <5>2. OwnArchive(rows[i])
          BY <5>1 DEF Archived
        <5> QED
          BY <4>2, <5>1, <5>2 DEF Uploaded, OwnArchive, Row
      <4> QED
        BY <4>1, <4>2
    <3> QED
      BY <3>1, <3>2 DEF FileStep, Saved
  <2>2. CASE \/ \E login \in Logins, key \in Ids \cup Titles : RemoveBegin(w, login, key)
             \/ \E key \in Ids \cup Titles : DownloadBegin(w, key) \/ RateBegin(w, key)
    <3>1. PICK i \in Ids, pc \in {"unlink", "rate", "count"}, x \in Logins \cup {None} :
             \E key \in Ids \cup Titles :
                GetAddon(key, i) /\ job' = [job EXCEPT ![w] = Holding(i, pc, x)]
      BY <2>2 DEF DownloadBegin, RateBegin, LookUp, RemoveBegin
    <3>2. rows[i] # None /\ OwnArchive(rows[i])
      BY <3>1 DEF GetAddon, Named, Archived
    <3> QED
      BY <3>1, <3>2 DEF Holding, Saved, TypeOK
  <2> QED
    BY <2>1, <2>2
<1> QED
  BY <1>1, <1>2, StaysArchived DEF Between, Ready

\* An archive is deleted.
LEMMA DropArchived ==
    ASSUME OneAtATime, TypeOK, Alone, Archived, NEW w \in Workers,
           PublishDropTbz(w) \/ RemoveUnlinkTbz(w)
    PROVE  Archived'
<1> DEFINE j == job[w]
<1>1. /\ j \in Job /\ j.obj \in Row /\ j.id \in Ids /\ j.pc \in {"dropTbz", "unlink"}
      /\ j.obj.tbz # None
  BY JobOf DEF PublishDropTbz, RemoveUnlinkTbz, At, LocalsOK
<1>2. OwnArchive(j.obj) /\ j.obj.tbz = j.obj.name
  BY <1>1 DEF Archived, OwnArchive
<1>3. /\ rows' = rows
      /\ \A t \in Titles : t # j.obj.name => tars'[t] = tars[t]
  BY <1>2 DEF PublishDropTbz, RemoveUnlinkTbz, TypeOK, db
<1>4. /\ job'[w].pc \in {"saveTbz", "unlink"} /\ job'[w].id = j.id
      /\ OwnArchive(job'[w].obj)
  <2>1. CASE PublishDropTbz(w)
    BY <1>1, <1>2, <2>1 DEF PublishDropTbz, Goto, TypeOK, Job
  <2>2. CASE RemoveUnlinkTbz(w)
    <3>1. job' = [job EXCEPT ![w].obj.tbz = None] /\ j.pc = "unlink"
      BY <2>2 DEF RemoveUnlinkTbz, At
    <3>2. job'[w].pc = j.pc /\ job'[w].id = j.id /\ job'[w].obj = [j.obj EXCEPT !.tbz = None]
      BY <1>1, <3>1 DEF TypeOK, Job
    <3> QED
      BY <1>1, <3>1, <3>2 DEF OwnArchive, Row
  <2> QED
    BY <2>1, <2>2
<1>5. ASSUME NEW i \in Ids, rows[i] # None
      PROVE  OwnArchive(rows[i])' /\ (Packed(i)' \/ i = j.id)
  <2>1. CASE i = j.id
    BY <1>3, <1>5, <2>1 DEF Archived, OwnArchive
  <2>2. CASE i # j.id
    BY <1>1, <1>3, <1>5, <2>2, OthersArchived
  <2> QED
    BY <2>1, <2>2
<1> QED
  BY <1>3, <1>4, <1>5, OneArchived DEF Ready, Between, Saved

\* A row is saved without its archive, and without its file.
LEMMA SaveDroppedArchived ==
    ASSUME OneAtATime, TypeOK, Alone, Archived, NEW w \in Workers,
           PublishSaveTbz(w) \/ PublishSaveWml(w)
    PROVE  Archived'
<1> DEFINE j == job[w]
<1>1. /\ j \in Job /\ LocalsOK(j) /\ j.obj \in Row /\ j.id \in Ids
      /\ j.pc \in {"saveTbz", "saveWml"} /\ OwnArchive(j.obj)
  BY JobOf DEF PublishSaveTbz, PublishSaveWml, At, LocalsOK, Archived
<1>2. PICK row \in {[j.obj EXCEPT !.tbz = None], [j.obj EXCEPT !.wml = None]},
           pc \in {"dropWml", "write"} :
         /\ rows' = [rows EXCEPT ![j.id] = row]
         /\ job' = [job EXCEPT ![w].pc = pc, ![w].obj = row]
         /\ pc = "write" => row.wml = None
  <2>1. CASE PublishSaveTbz(w)
    <3> DEFINE row == [j.obj EXCEPT !.tbz = None]
    <3>1. row.tbz = None
      BY <1>1 DEF Row
    <3>2. FileStep(row) \in {"dropWml", "write"} /\ (FileStep(row) = "write" => row.wml = None)
      BY <3>1 DEF FileStep
    <3>3. rows' = [rows EXCEPT ![j.id] = row]
          /\ job' = [job EXCEPT ![w].pc = FileStep(row), ![w].obj = row]
      BY <2>1 DEF PublishSaveTbz, Save
    <3> QED
      BY <3>2, <3>3
  <2>2. CASE PublishSaveWml(w)
    <3> DEFINE row == [j.obj EXCEPT !.wml = None]
    <3>1. row.wml = None
      BY <1>1 DEF Row
    <3>2. rows' = [rows EXCEPT ![j.id] = row]
          /\ job' = [job EXCEPT ![w].pc = "write", ![w].obj = row]
      BY <2>2 DEF PublishSaveWml, Save
    <3> QED
      BY <3>1, <3>2
  <2> QED
    BY <2>1, <2>2
<1>3. row \in Row /\ OwnArchive(row)
  <2>1. CASE row = [j.obj EXCEPT !.tbz = None]
    BY <1>1, <2>1 DEF Row, OwnArchive
  <2>2. CASE row = [j.obj EXCEPT !.wml = None]
    BY <1>1, <2>2 DEF Row, OwnArchive
  <2> QED
    BY <1>2, <2>1, <2>2
<1>4. /\ job'[w].pc = pc /\ job'[w].id = j.id /\ job'[w].obj = row
      /\ rows'[j.id] = row /\ \A i \in Ids : i # j.id => rows'[i] = rows[i]
  BY <1>1, <1>2 DEF TypeOK, Job
<1>5. tars' = tars
  BY DEF PublishSaveTbz, PublishSaveWml, files
<1>6. ASSUME NEW i \in Ids, rows'[i] # None
      PROVE  OwnArchive(rows[i])' /\ (Packed(i)' \/ (pc = "dropWml" /\ i = j.id))
  <2>1. CASE i = j.id
    BY <1>2, <1>3, <1>4, <2>1 DEF OwnArchive, Packed
  <2>2. CASE i # j.id
    BY <1>1, <1>4, <1>5, <1>6, <2>2, OthersArchived
  <2> QED
    BY <2>1, <2>2
<1>7. Ready(job[w])' /\ OwnArchive(job[w].obj)'
  BY <1>2, <1>3, <1>4 DEF Ready, Saved, OwnArchive
<1> QED
  BY <1>2, <1>4, <1>6, <1>7, OneArchived DEF Between

\* Steps that neither save a row nor touch an archive.
LEMMA FilesArchived ==
    ASSUME OneAtATime, TypeOK, Alone, Archived, NEW w \in Workers,
           \/ PublishDropWml(w) \/ PublishWrite(w) \/ PublishStore(w)
           \/ PublishClearAuthors(w) \/ PublishFindAuthor(w) \/ PublishCreateAuthor(w)
           \/ PublishLinkAuthor(w) \/ RemoveUnlinkWml(w) \/ RateSave(w)
    PROVE  Archived'
<1> DEFINE j == job[w]
<1>1. /\ j \in Job /\ LocalsOK(j) /\ j.obj \in Row /\ OwnArchive(j.obj) /\ Ready(j)
      /\ UNCHANGED <<rows, tars>>
  <2>1. /\ job[w].pc # "idle"
        /\ UNCHANGED <<rows, tars>>
    BY DEF PublishDropWml, PublishWrite, PublishStore, PublishClearAuthors, PublishFindAuthor,
       PublishCreateAuthor, PublishLinkAuthor, RemoveUnlinkWml, RateSave, At, db, files
  <2> QED
    BY <2>1, JobOf DEF LocalsOK, Archived
<1>2. ASSUME NEW pc, job'[w].pc = pc, job'[w].id = j.id,
             job'[w].obj.tbz = j.obj.tbz, job'[w].obj.name = j.obj.name,
             job'[w].obj.ver = j.obj.ver,
             pc \in Saved \cup {"store", "save"} => j.pc \in Saved \cup {"store", "save"},
             j.pc \in Between => pc \in Between
      PROVE  Archived'
  <2>1. Ready(job[w])' /\ OwnArchive(job[w].obj)'
    BY <1>1, <1>2 DEF Ready, OwnArchive
  <2> QED
    BY <1>1, <1>2, <2>1, StaysArchived
<1>3. CASE PublishDropWml(w)
  <2>1. j.pc = "dropWml" /\ job'[w] = [j EXCEPT !.pc = "saveWml"]
    BY <1>3 DEF PublishDropWml, At, Goto, TypeOK
  <2> QED
    BY <1>1, <1>2, <2>1 DEF Job, Saved, Between
<1>4. CASE PublishWrite(w)
  <2>1. j.pc = "write"
        /\ \/ job'[w] = [j EXCEPT !.pc = "tar"]
           \/ \E p : job' = [job EXCEPT ![w].pc = "tar", ![w].obj.wml = p]
    BY <1>4 DEF PublishWrite, At, Goto, TypeOK
  <2>2. CASE job'[w] = [j EXCEPT !.pc = "tar"]
    BY <1>1, <1>2, <2>1, <2>2 DEF Job, Saved, Between
  <2>3. ASSUME NEW p, job' = [job EXCEPT ![w].pc = "tar", ![w].obj.wml = p]
        PROVE  Archived'
    <3>1. job'[w].pc = "tar" /\ job'[w].id = j.id /\ job'[w].obj = [j.obj EXCEPT !.wml = p]
      BY <1>1, <2>3 DEF TypeOK, Job
    <3> QED
      BY <1>1, <1>2, <2>1, <3>1 DEF Row, Saved, Between
  <2> QED
    BY <2>1, <2>2, <2>3
<1>5. CASE PublishStore(w)
  <2>1. PICK p \in Path : job' = [job EXCEPT ![w].pc = "save", ![w].obj.wml = p]
    BY <1>5 DEF PublishStore
  <2>2. job'[w].pc = "save" /\ job'[w].id = j.id /\ job'[w].obj = [j.obj EXCEPT !.wml = p]
    BY <1>1, <2>1 DEF TypeOK, Job
  <2>3. j.pc = "store"
    BY <1>5 DEF PublishStore, At
  <2> QED
    BY <1>1, <1>2, <2>2, <2>3 DEF Row, Saved, Between
<1>6. CASE \/ PublishClearAuthors(w) \/ PublishFindAuthor(w) \/ PublishCreateAuthor(w)
  <2>1. j.pc \in Saved /\ \E pc \in Saved : job'[w] = [j EXCEPT !.pc = pc]
    BY <1>6 DEF PublishClearAuthors, PublishFindAuthor, PublishCreateAuthor, At, Goto, Saved,
       TypeOK
  <2> QED
    BY <1>1, <1>2, <2>1 DEF Job, Saved, Between
<1>7. CASE PublishLinkAuthor(w)
  <2>1. PICK pc \in {"find", "final"} : \E rest :
           job' = [job EXCEPT ![w].pc = pc, ![w].todo = rest]
    BY <1>7 DEF PublishLinkAuthor
  <2>2. job'[w].pc = pc /\ job'[w].id = j.id /\ job'[w].obj = j.obj
    BY <1>1, <2>1 DEF TypeOK, Job
  <2>3. j.pc = "link"
    BY <1>7 DEF PublishLinkAuthor, At
  <2> QED
    BY <1>2, <2>2, <2>3 DEF Saved, Between
<1>8. CASE RemoveUnlinkWml(w)
  <2>1. job' = [job EXCEPT ![w].obj.wml = None] /\ j.pc = "unlink"
    BY <1>8 DEF RemoveUnlinkWml, At
  <2>2. job'[w].pc = j.pc /\ job'[w].id = j.id /\ job'[w].obj = [j.obj EXCEPT !.wml = None]
    BY <1>1, <2>1 DEF TypeOK, Job
  <2> QED
    BY <1>1, <1>2, <2>1, <2>2 DEF Row, Saved, Between
<1>9. CASE RateSave(w)
  <2>1. j.pc = "rate" /\ job'[w] = Idle
    BY <1>9 DEF RateSave, At, Finish, TypeOK
  <2> QED
    BY <1>1, <2>1, StaysArchived DEF Idle, Between, Ready, Saved
<1> QED
  BY <1>3, <1>4, <1>5, <1>6, <1>7, <1>8, <1>9

\* The new archive: no other row has its name, and the row it is for has no file.
LEMMA TarArchived ==
    ASSUME OneAtATime, TypeOK, Alone, Archived, NEW w \in Workers, PublishTar(w),
           "tar" \notin Faults
    PROVE  Archived'
<1> DEFINE j == job[w]
           obj == [j.obj EXCEPT !.tbz = j.obj.name, !.ver = j.ver]
<1>1. /\ j \in Job /\ LocalsOK(j) /\ j.obj \in Row /\ j.pc = "tar" /\ j.obj.name \in Titles
      /\ j.ver \in Versions /\ Knows(j)
  BY JobOf DEF PublishTar, At, LocalsOK, PublishSteps, Row, Alone
<1>2. /\ rows' = rows /\ tars' = [tars EXCEPT ![j.obj.name] = j.ver]
      /\ job' = [job EXCEPT ![w].pc = AfterTar(j.route), ![w].obj = obj]
  BY DEF PublishTar, db
<1>3. /\ tars'[j.obj.name] = j.ver
      /\ \A t \in Titles : t # j.obj.name => tars'[t] = tars[t]
  BY <1>1, <1>2 DEF TypeOK
<1>4. obj.name = j.obj.name /\ obj.tbz = obj.name /\ obj.ver = j.ver
  BY <1>1 DEF Row
<1>5. job'[w].obj = obj /\ job'[w].pc \in {"save", "store"}
  BY <1>1, <1>2 DEF TypeOK, Job, AfterTar
<1>6. ASSUME NEW i \in Ids, rows'[i] # None
      PROVE  OwnArchive(rows[i])' /\ Packed(i)'
  <2>1. CASE i = j.id
    <3>1. rows[i].wml = None /\ OwnArchive(rows[i])
      BY <1>1, <1>2, <1>6, <2>1 DEF Knows, Filed, Archived
    <3> QED
      BY <1>2, <3>1 DEF OwnArchive, Packed
  <2>2. CASE i # j.id
    BY <1>1, <1>2, <1>3, <1>6, <2>2, OthersArchived
  <2> QED
    BY <2>1, <2>2
<1> HIDE DEF obj
<1> QED
  BY <1>3, <1>4, <1>5, <1>6, OneArchived DEF Ready, OwnArchive

\* A row is saved with its archive.
LEMMA SaveArchived ==
    ASSUME OneAtATime, TypeOK, Alone, Archived, NEW w \in Workers,
           PublishSave(w) \/ PublishFinish(w) \/ DownloadCount(w)
    PROVE  Archived'
<1> DEFINE j == job[w]
<1>1. /\ j \in Job /\ j.obj \in Row /\ j.pc \in {"save", "final", "count"}
      /\ Ready(j) /\ OwnArchive(j.obj) /\ Knows(j) /\ tars' = tars
  BY JobOf DEF PublishSave, PublishFinish, DownloadCount, At, LocalsOK, Archived, Alone, files
<1>2. ASSUME NEW i \in Ids, NEW row \in Row, rows' = [rows EXCEPT ![i] = row],
             j.id # None => i = j.id, OwnArchive(row),
             row.wml # None => row.tbz = row.name /\ tars[row.name] = row.ver,
             Ready(job[w])', (job[w].pc # "idle" => OwnArchive(job[w].obj))'
      PROVE  Archived'
  <2>1. rows'[i] = row /\ \A k \in Ids : k # i => rows'[k] = rows[k]
    BY <1>2 DEF TypeOK
  <2>2. ASSUME NEW k \in Ids, rows'[k] # None
        PROVE  OwnArchive(rows[k])' /\ Packed(k)'
    <3>1. CASE k = i
      BY <1>1, <1>2, <2>1, <3>1 DEF OwnArchive, Packed
    <3>2. CASE k # i
      <4>1. rows'[k] = rows[k] /\ rows[k] # None
        BY <2>1, <2>2, <3>2
      <4>2. OwnArchive(rows[k]) /\ Packed(k)
        BY <1>1, <4>1 DEF Archived, OneAtATime, Between
      <4> QED
        BY <1>1, <4>1, <4>2 DEF OwnArchive, Packed
    <3> QED
      BY <3>1, <3>2
  <2> QED
    BY <1>2, <2>2, OneArchived
<1>3. CASE PublishSave(w)
  <2>1. PICK i \in Ids : /\ rows' = [rows EXCEPT ![i] = j.obj]
                         /\ j.id # None => i = j.id
                         /\ job' = [job EXCEPT ![w].pc = "clear", ![w].id = i]
    BY <1>3 DEF PublishSave, Save
  <2>2. job'[w].obj = j.obj /\ j.pc = "save"
    BY <1>1, <1>3, <2>1 DEF TypeOK, Job, PublishSave, At
  <2>3. j.obj.tbz = j.obj.name /\ tars[j.obj.name] = j.obj.ver
    BY <1>1, <2>2 DEF Ready
  <2>4. Ready(job[w])' /\ OwnArchive(job[w].obj)'
    BY <1>1, <2>2, <2>3 DEF Ready, OwnArchive
  <2> QED
    BY <1>1, <1>2, <2>1, <2>3, <2>4
<1>4. CASE PublishFinish(w) \/ DownloadCount(w)
  <2>1. PICK n \in 0..MaxDownloads :
           /\ [j.obj EXCEPT !.downloads = n] \in Row
           /\ Save(j.id, [j.obj EXCEPT !.downloads = n])
    BY <1>4, LastSaves
  <2> DEFINE row == [j.obj EXCEPT !.downloads = n]
  <2>2. /\ row \in Row /\ rows' = [rows EXCEPT ![j.id] = row] /\ j.id \in Ids
        /\ job'[w] = Idle
    BY <1>4, <2>1, LastSaves DEF Save, Finish, TypeOK
  <2>3. row.wml = j.obj.wml /\ row.tbz = j.obj.tbz /\ row.name = j.obj.name /\ row.ver = j.obj.ver
    BY <1>1 DEF Row
  <2> HIDE DEF row
  <2>4. j.pc \in {"final", "count"} /\ rows[j.id] = j.obj /\ rows[j.id] # None
    <3>1. j.pc \in {"final", "count"}
      BY <1>4 DEF PublishFinish, DownloadCount, At
    <3> QED
      BY <1>1, <2>2, <3>1 DEF Knows, Current, Saved, Named
  <2>5. Packed(j.id)
    BY <2>2, <2>4 DEF Archived, OneAtATime, Between
  <2>6. /\ OwnArchive(row)
        /\ row.wml # None => row.tbz = row.name /\ tars[row.name] = row.ver
    BY <1>1, <2>3, <2>4, <2>5 DEF Packed, OwnArchive
  <2>7. Ready(job[w])' /\ job'[w].pc = "idle"
    BY <2>2 DEF Idle, Ready, Saved
  <2> QED
    BY <1>2, <2>2, <2>6, <2>7
<1> QED
  BY <1>3, <1>4

\* A row is removed; no save fails, as the row is the only one of its name.
LEMMA EndArchived ==
    ASSUME OneAtATime, TypeOK, Alone, Archived, NEW w \in Workers, RemoveCommit(w) \/ Fail(w)
    PROVE  Archived'
<1>1. job'[w] = Idle /\ tars' = tars
  BY DEF RemoveCommit, Fail, Finish, TypeOK, files
<1>2. Ready(job[w])' /\ job'[w].pc = "idle"
  BY <1>1 DEF Idle, Ready, Saved
<1>3. CASE RemoveCommit(w)
  <2>1. job[w].id \in Ids /\ job[w].pc # "idle"
    BY <1>3, JobOf DEF RemoveCommit, At, LocalsOK
  <2>2. rows'[job[w].id] = None /\ \A i \in Ids : i # job[w].id => rows'[i] = rows[i]
    BY <1>3, <2>1 DEF RemoveCommit, TypeOK
  <2>3. \A i \in Ids : rows'[i] # None => OwnArchive(rows[i])' /\ Packed(i)'
    BY <1>1, <2>1, <2>2, OthersArchived
  <2> QED
    BY <1>2, <2>3, OneArchived
<1>4. CASE Fail(w)
  <2>1. job[w].pc \notin Between
    <3>1. SUFFICES ASSUME job[w].pc \in {"saveTbz", "saveWml"}
                   PROVE  Storable(job[w].id, job[w].obj.name)
      BY <1>4 DEF Fail, Raises, AfterTar, Between
    <3>2. Named(job[w].id, job[w].obj.name) /\ job[w].id \in Ids
      <4>1. job[w].id \in Ids /\ Current(job[w])
        BY <3>1, JobOf DEF LocalsOK, Alone, Knows
      <4> QED
        BY <3>1, <4>1 DEF Current
    <3> QED
      BY <3>2 DEF Alone, Unique, Named, Storable
  <2>2. UNCHANGED <<rows, tars>>
    BY <1>4 DEF Fail, db, files
  <2> QED
    BY <1>2, <2>1, <2>2, StaysArchived
<1> QED
  BY <1>3, <1>4

LEMMA NextArchived ==
    ASSUME OneAtATime, Faults \cap {"kill", "tar"} = {}
    PROVE  TypeOK /\ Alone /\ Archived /\ [Next]_vars => Archived'
<1> SUFFICES ASSUME TypeOK, Alone, Archived, [Next]_vars PROVE Archived'
  OBVIOUS
<1>1. ASSUME NEW w \in Workers, Handle(w) PROVE Archived'
  BY <1>1, BeginArchived, DropArchived, SaveDroppedArchived, FilesArchived, TarArchived,
     SaveArchived, EndArchived DEF Handle, Publish, Remove, Download, Rate
<1>2. CASE UNCHANGED <<rows, tars, job>>
  BY <1>2 DEF Archived, Ready, Packed, OwnArchive
<1> QED
  BY <1>1, <1>2 DEF Next, Kill, AdminAddAuthor, files, vars

\* Between requests what is listed has the archive of its version, after any
\* publish that ended with an exception (views.py:234-275), in the one process,
\* unless it is killed or tar fails unnoticed; two titles may share a file name.
THEOREM ArchiveAgreesAlways ==
    ASSUME OneAtATime, Faults \cap {"kill", "tar"} = {}
    PROVE  Spec => []ArchiveAgrees
<1>1. Init => Archived
  BY DEF Init, Archived, Ready, Idle, Saved
<1>2. TypeOK /\ Archived => ArchiveAgrees
  <2> SUFFICES ASSUME TypeOK, Archived, Quiet, NEW i \in Ids, Listed(i)
               PROVE  rows[i].tbz # None /\ tars[rows[i].tbz] = rows[i].ver
    BY DEF ArchiveAgrees
  <2>1. rows[i] # None /\ rows[i].wml # None /\ rows[i].name \in Titles
    BY DEF Listed, TypeOK, Row
  <2>2. Packed(i)
    BY <2>1 DEF Archived, Quiet, Between
  <2> QED
    BY <2>1, <2>2 DEF Packed
<1> QED
  BY <1>1, <1>2, NextArchived, AloneAlways, PTL DEF Spec

=============================================================================
