--------------------------- MODULE DocumentsProofs ---------------------------
(***************************************************************************)
(* Proofs about Documents, for any number of documents, files and workers. *)
(***************************************************************************)
EXTENDS Documents, TLAPS

\* What handlers write of a row: each leaves a row, and no row is removed.
RowsStay == \A d \in Docs : doc[d] # None => doc'[d] # None

-----------------------------------------------------------------------------
(* Types                                                                   *)

\* A handler that starts is typed, and works on a document that is there.
LEMMA StartTyped ==
  ASSUME TypeOK, NEW w \in Workers, NEW j \in Job, job' = [job EXCEPT ![w] = j],
         j.op # "create" => doc[j.doc] # None, doc' = doc,
         disk' \subseteq Files, used' \subseteq Files, leaked' \subseteq Files,
         contested' \subseteq Docs, UNCHANGED <<slipped, reviewed, served>>
  PROVE  TypeOK'
  <1>1. job' \in [Workers -> Job \cup {None}]
    BY DEF TypeOK
  <1>2. ASSUME NEW v \in Workers, job'[v] # None, job'[v].op # "create"
        PROVE  doc'[job'[v].doc] # None
    BY <1>2 DEF TypeOK
  <1> QED
    BY <1>1, <1>2 DEF TypeOK

\* So is what is left when one ends.
LEMMA EndTyped ==
  ASSUME TypeOK, NEW w \in Workers, End(w), RowsStay, doc' \in [Docs -> Row \cup {None}],
         disk' \subseteq Files, leaked' \subseteq Files, slipped' \subseteq Docs,
         reviewed' \in [Docs -> SUBSET (Files \cup {None})], served' \subseteq Docs \X Files,
         UNCHANGED <<used, contested>>
  PROVE  TypeOK'
  <1>1. job' \in [Workers -> Job \cup {None}]
    BY DEF TypeOK, End
  <1>2. ASSUME NEW v \in Workers, job'[v] # None, job'[v].op # "create"
        PROVE  doc'[job'[v].doc] # None
    <2>1. job[v] = job'[v] /\ job[v] \in Job
      BY <1>2 DEF TypeOK, End
    <2>2. job[v].doc \in Docs
      BY <1>2, <2>1 DEF Job
    <2> QED
      BY <1>2, <2>1, <2>2 DEF TypeOK, RowsStay
  <1> QED
    BY <1>1, <1>2 DEF TypeOK

\* An upload, whatever becomes of it, keeps the types.
LEMMA UploadsTyped ==
  ASSUME TypeOK, NEW w \in Workers, Uploads(w)
  PROVE  TypeOK'
  <1> USE DocumentsAssumption
  <1>1. ASSUME NEW file \in Files \cup {None}, CreateStart(w, file) PROVE TypeOK'
    <2>1. [op |-> "create", upload |-> file] \in Job
      BY DEF Job
    <2>2. disk' \subseteq Files /\ used' \subseteq Files
      BY <1>1 DEF CreateStart, Upload, TypeOK
    <2> QED
      BY <1>1, <2>1, <2>2, StartTyped DEF CreateStart, rows, TypeOK
  <1>2. ASSUME NEW file \in Files \cup {None}, NEW d \in Docs, EditStart(w, d, file) PROVE TypeOK'
    <2>1. [op |-> "edit", doc |-> d, upload |-> file] \in Job
      BY DEF Job
    <2>2. disk' \subseteq Files /\ used' \subseteq Files /\ contested' \subseteq Docs
      BY <1>2 DEF EditStart, Upload, Contest, TypeOK
    <2> QED
      BY <1>2, <2>1, <2>2, StartTyped DEF EditStart, TypeOK
  <1>3. CASE CreateInsert(w)
    <2>1. job[w].upload \in Files \cup {None}
      BY <1>3 DEF CreateInsert, TypeOK, Job
    <2>2. doc' \in [Docs -> Row \cup {None}] /\ RowsStay
      BY <1>3, <2>1 DEF CreateInsert, RowsStay, TypeOK, Row, STATUS
    <2> QED
      BY <1>3, <2>2, EndTyped DEF CreateInsert, TypeOK
  <1>4. CASE EditWrite(w)
    <2>1. /\ job[w].doc \in Docs /\ job[w].upload \in Files \cup {None}
          /\ doc[job[w].doc] \in Row
      BY <1>4 DEF EditWrite, TypeOK, Job
    <2>2. CASE job[w].upload = None
      BY <1>4, <2>2, EndTyped DEF EditWrite, RowsStay, TypeOK
    <2>3. CASE job[w].upload # None
      <3> DEFINE row == [doc[job[w].doc] EXCEPT !.file = job[w].upload]
      <3>1. doc' = [doc EXCEPT ![job[w].doc] = row]
        BY <1>4, <2>3 DEF EditWrite
      <3>2. row \in Row
        BY <2>1 DEF Row
      <3> HIDE DEF row
      <3>3. doc' \in [Docs -> Row \cup {None}] /\ RowsStay
        BY <2>1, <3>1, <3>2 DEF RowsStay, TypeOK
      <3>4. leaked' \subseteq Files /\ slipped' \subseteq Docs
        BY <1>4, <2>1, <2>3 DEF EditWrite, TypeOK, Row
      <3> QED
        BY <1>4, <3>3, <3>4, EndTyped DEF EditWrite, TypeOK
    <2> QED
      BY <2>2, <2>3
  <1>5. CASE UploadThrows(w)
    BY <1>5, EndTyped DEF UploadThrows, Discarded, rows, RowsStay, TypeOK
  <1> QED
    BY <1>1, <1>2, <1>3, <1>4, <1>5 DEF Uploads

\* A transition writes a status and its columns.
LEMMA AdvancesTyped ==
  ASSUME TypeOK, NEW w \in Workers, Advances(w)
  PROVE  TypeOK'
  <1> USE DocumentsAssumption
  <1>1. ASSUME NEW d \in Docs, NEW next \in STATUS, AdvanceStart(w, d, next) PROVE TypeOK'
    <2>1. [op |-> "advance", doc |-> d, next |-> next, seen |-> doc[d].file] \in Job
      BY <1>1 DEF AdvanceStart, TypeOK, Row, Job
    <2>2. contested' \subseteq Docs
      BY <1>1 DEF AdvanceStart, Contest, TypeOK
    <2> QED
      BY <1>1, <2>1, <2>2, StartTyped DEF AdvanceStart, TypeOK
  <1>2. CASE AdvanceWrite(w)
    <2>1. /\ job[w].doc \in Docs /\ job[w].next \in STATUS /\ job[w].seen \in Files \cup {None}
          /\ doc[job[w].doc] \in Row
      BY <1>2 DEF AdvanceWrite, TypeOK, Job
    <2> DEFINE row == [doc[job[w].doc] EXCEPT !.status = job[w].next,
                                              !.stamps = Stamped(@, job[w].next)]
    <2>2. doc' = [doc EXCEPT ![job[w].doc] = row]
      BY <1>2, <2>1 DEF AdvanceWrite, TypeOK
    <2>3. row \in Row
      BY <2>1 DEF Row, Stamped
    <2> HIDE DEF row
    <2>4. doc' \in [Docs -> Row \cup {None}] /\ RowsStay
      BY <2>1, <2>2, <2>3 DEF RowsStay, TypeOK
    <2>5. reviewed' \in [Docs -> SUBSET (Files \cup {None})]
      BY <1>2, <2>1 DEF AdvanceWrite, TypeOK
    <2> QED
      BY <1>2, <2>4, <2>5, EndTyped DEF AdvanceWrite, TypeOK
  <1> QED
    BY <1>1, <1>2 DEF Advances

\* A download sends the file of a row.
LEMMA DownloadsTyped ==
  ASSUME TypeOK, NEW w \in Workers, Downloads(w)
  PROVE  TypeOK'
  <1> USE DocumentsAssumption
  <1>1. ASSUME NEW d \in Docs, DownloadStart(w, d) PROVE TypeOK'
    <2>1. [op |-> "download", doc |-> d, file |-> doc[d].file] \in Job
      BY <1>1 DEF DownloadStart, TypeOK, Job
    <2> QED
      BY <1>1, <2>1, StartTyped DEF DownloadStart, rows, TypeOK
  <1>2. CASE DownloadSend(w)
    <2>1. <<job[w].doc, job[w].file>> \in Docs \X Files
      BY <1>2 DEF DownloadSend, TypeOK, Job
    <2> QED
      BY <1>2, <2>1, EndTyped DEF DownloadSend, rows, RowsStay, TypeOK
  <1> QED
    BY <1>1, <1>2 DEF Downloads

\* The types are an invariant by themselves.
LEMMA StepTyped ==
  ASSUME TypeOK, [Next]_vars
  PROVE  TypeOK'
  <1> USE DocumentsAssumption
  <1>1. ASSUME NEW w \in Workers, Throws(w) PROVE TypeOK'
    BY <1>1, EndTyped DEF Throws, rows, RowsStay, TypeOK
  <1>2. ASSUME NEW file \in Files, UploadRefused(file) PROVE TypeOK'
    BY <1>2 DEF UploadRefused, Upload, rows, TypeOK
  <1>3. CASE Restart
    <2>1. {job[w].upload : w \in Uploading} \ {None} \subseteq Files
      BY DEF Uploading, TypeOK, Job
    <2> QED
      BY <1>3, <2>1 DEF Restart, rows, TypeOK
  <1>4. CASE UNCHANGED vars
    BY <1>4 DEF vars, TypeOK
  <1> QED
    BY <1>1, <1>2, <1>3, <1>4, UploadsTyped, AdvancesTyped, DownloadsTyped DEF Next

-----------------------------------------------------------------------------
(* Files                                                                   *)

\* The files of rows, and those of uploads under way.
RowFiles == {doc[d].file : d \in Stored} \ {None}
JobFiles == {job[w].upload : w \in Uploading} \ {None}

\* A file under way is nobody else's: names are given once.
FilesInv ==
  /\ FilesAccounted
  /\ disk \subseteq used
  /\ \A w \in Uploading : job[w].upload \notin leaked \cup RowFiles
  /\ \A v, w \in Uploading : v # w => job[v].upload # job[w].upload \/ job[v].upload = None

\* The uploads under way are what they were.
SameUploads ==
  /\ Uploading' = Uploading
  /\ \A w \in Uploading : job'[w].upload = job[w].upload

\* A step that leaves the files, their rows and their uploads alone keeps them in step.
LEMMA FilesStill ==
  ASSUME FilesInv, SameUploads, RowFiles' = RowFiles, UNCHANGED <<disk, used, leaked>>
  PROVE  FilesInv'
  <1>1. JobFiles' = JobFiles
    BY DEF SameUploads, JobFiles
  <1> QED
    BY <1>1 DEF SameUploads, FilesInv, FilesAccounted, RowFiles, JobFiles

\* A new upload has a name nobody has.
LEMMA FilesUploaded ==
  ASSUME TypeOK, FilesInv, NEW w \in Workers, NEW file \in Files \cup {None}, Upload(file),
         job[w] = None, disk' = disk \cup ({file} \ {None}), UNCHANGED <<doc, leaked>>,
         NEW j \in Job, job' = [job EXCEPT ![w] = j],
         j.op \in {"create", "edit"}, j.upload = file
  PROVE  FilesInv'
  <1> USE DocumentsAssumption
  <1>1. /\ Uploading' = Uploading \cup {w} /\ w \notin Uploading
        /\ job'[w].upload = file /\ \A v \in Uploading : job'[v].upload = job[v].upload
    BY DEF Uploading, TypeOK
  <1>2. RowFiles' = RowFiles
    BY DEF RowFiles, Stored
  <1>3. disk = leaked \cup RowFiles \cup JobFiles
    BY DEF FilesInv, FilesAccounted, RowFiles, JobFiles
  <1>4. JobFiles' = JobFiles \cup ({file} \ {None})
    BY <1>1 DEF JobFiles
  <1>5. FilesAccounted'
    BY <1>2, <1>3, <1>4 DEF FilesAccounted, RowFiles, JobFiles
  <1>6. disk' \subseteq used' /\ file \notin disk
    BY DEF Upload, FilesInv
  <1>7. None \notin leaked \cup RowFiles
    BY DEF TypeOK, RowFiles
  <1>8. \A v \in Uploading' : job'[v].upload \notin leaked' \cup RowFiles'
    BY <1>1, <1>2, <1>3, <1>6, <1>7 DEF FilesInv
  <1>9. \A v \in Uploading : job[v].upload = None \/ job[v].upload # file
    BY <1>3, <1>6 DEF JobFiles
  <1>10. \A v, u \in Uploading' : v # u => job'[v].upload # job'[u].upload \/ job'[v].upload = None
    BY <1>1, <1>9 DEF FilesInv
  <1> QED
    BY <1>5, <1>6, <1>8, <1>10 DEF FilesInv

\* When an upload ends, no other one has its file.
LEMMA FilesEnded ==
  ASSUME TypeOK, FilesInv, NEW w \in Uploading, End(w)
  PROVE  /\ Uploading' = Uploading \ {w}
         /\ \A v \in Uploading' : job'[v].upload = job[v].upload
         /\ JobFiles' = JobFiles \ {job[w].upload}
  <1>1. /\ Uploading' = Uploading \ {w}
        /\ \A v \in Uploading' : job'[v].upload = job[v].upload
    BY DEF Uploading, End, TypeOK
  <1>2. \A v \in Uploading \ {w} : job[v].upload = None \/ job[v].upload # job[w].upload
    BY DEF FilesInv
  <1> QED
    BY <1>1, <1>2 DEF JobFiles

\* The ends of an upload hand its file over to the row, or to nobody.
LEMMA FilesOfUploads ==
  ASSUME TypeOK, FilesInv, NEW w \in Workers, CreateInsert(w) \/ EditWrite(w) \/ UploadThrows(w)
  PROVE  FilesInv'
  <1> DEFINE file == job[w].upload
  <1> USE DocumentsAssumption
  <1>1. w \in Uploading /\ End(w) /\ file \in Files \cup {None} /\ file \notin leaked \cup RowFiles
    BY DEF CreateInsert, EditWrite, UploadThrows, Uploading, FilesInv, TypeOK, Job
  <1>2. /\ Uploading' = Uploading \ {w}
        /\ \A v \in Uploading' : job'[v].upload = job[v].upload
        /\ JobFiles' = JobFiles \ {file}
    BY <1>1, FilesEnded
  <1>3. disk = leaked \cup RowFiles \cup JobFiles /\ file \in JobFiles \cup {None}
    BY <1>1 DEF FilesInv, FilesAccounted, RowFiles, JobFiles
  <1>4. \A v \in Uploading' : job[v].upload \notin leaked \cup RowFiles
                              /\ (job[v].upload = None \/ job[v].upload # file)
    BY <1>1, <1>2 DEF FilesInv
  <1>5. None \notin leaked \cup RowFiles \cup JobFiles
    BY DEF TypeOK, RowFiles, JobFiles
  <1>6. ASSUME leaked' \cup RowFiles' = leaked \cup RowFiles \cup ({file} \ {None}),
               UNCHANGED <<disk, used>>
        PROVE  FilesInv'
    <2>1. disk' = leaked' \cup RowFiles' \cup JobFiles'
      BY <1>2, <1>3, <1>5, <1>6
    <2>2. FilesAccounted'
      BY <2>1 DEF FilesAccounted, RowFiles, JobFiles
    <2>3. \A v \in Uploading' : job'[v].upload \notin leaked' \cup RowFiles'
      BY <1>2, <1>4, <1>6
    <2> QED
      BY <1>2, <1>6, <2>2, <2>3 DEF FilesInv
  <1>7. CASE CreateInsert(w)
    <2>1. PICK d \in Docs :
            /\ doc[d] = None
            /\ doc' = [doc EXCEPT ![d] = [status |-> "DRAFT", file |-> file, stamps |-> {}]]
      BY <1>7 DEF CreateInsert
    <2>2. [status |-> "DRAFT", file |-> file, stamps |-> {}] \in Row
      BY <1>1 DEF Row, STATUS
    <2>3. /\ Stored' = Stored \cup {d} /\ d \notin Stored /\ doc'[d].file = file
          /\ \A c \in Stored : doc'[c].file = doc[c].file
      BY <2>1, <2>2 DEF Stored, TypeOK
    <2>4. RowFiles' = RowFiles \cup ({file} \ {None})
      BY <2>3 DEF RowFiles
    <2> QED
      BY <1>6, <1>7, <2>4 DEF CreateInsert
  <1>8. CASE EditWrite(w)
    <2>1. CASE file = None
      BY <1>6, <1>8, <2>1 DEF EditWrite, RowFiles, Stored
    <2>2. CASE file # None
      <3> DEFINE d == job[w].doc
      <3>1. d \in Stored /\ doc[d] \in Row
        BY <1>8 DEF EditWrite, Stored, TypeOK, Job
      <3>2. /\ doc' = [doc EXCEPT ![d] = [doc[d] EXCEPT !.file = file]]
            /\ leaked' = leaked \cup ({doc[d].file} \ {None})
        BY <1>8, <2>2 DEF EditWrite
      <3>3. [doc[d] EXCEPT !.file = file] \in Row
        BY <1>1, <3>1 DEF Row
      <3>4. /\ Stored' = Stored /\ doc'[d].file = file
            /\ \A c \in Stored \ {d} : doc'[c].file = doc[c].file
        BY <3>1, <3>2, <3>3 DEF Stored, TypeOK, Row
      <3>5. RowFiles' \cup ({doc[d].file} \ {None}) = RowFiles \cup ({file} \ {None})
        BY <3>1, <3>4 DEF RowFiles
      <3> QED
        BY <1>6, <1>8, <3>2, <3>5 DEF EditWrite
    <2> QED
      BY <2>1, <2>2
  <1>9. CASE UploadThrows(w)
    <2>1. RowFiles' = RowFiles /\ leaked' = leaked /\ disk' = disk \ {file} /\ used' = used
      BY <1>9 DEF UploadThrows, Discarded, rows, RowFiles, Stored
    <2>2. disk' = leaked' \cup RowFiles' \cup JobFiles'
      BY <1>1, <1>2, <1>3, <2>1
    <2>3. FilesAccounted'
      BY <2>2 DEF FilesAccounted, RowFiles, JobFiles
    <2> QED
      BY <1>2, <1>4, <2>1, <2>3 DEF FilesInv
  <1> QED
    BY <1>7, <1>8, <1>9

\* No step puts the files and the rows out of step.
LEMMA FilesStep ==
  ASSUME TypeOK, FilesInv, [Next]_vars
  PROVE  FilesInv'
  <1> USE DocumentsAssumption
  <1>1. ASSUME NEW w \in Workers, NEW file \in Files \cup {None},
               \/ CreateStart(w, file)
               \/ \E d \in Docs : EditStart(w, d, file)
        PROVE  FilesInv'
    <2>1. CASE CreateStart(w, file)
      <3>1. [op |-> "create", upload |-> file] \in Job
        BY DEF Job
      <3> QED
        BY <2>1, <3>1, FilesUploaded DEF CreateStart, rows
    <2>2. ASSUME NEW d \in Docs, EditStart(w, d, file) PROVE FilesInv'
      <3>1. [op |-> "edit", doc |-> d, upload |-> file] \in Job
        BY DEF Job
      <3> QED
        BY <2>2, <3>1, FilesUploaded DEF EditStart
    <2> QED
      BY <1>1, <2>1, <2>2
  <1>2. ASSUME NEW w \in Workers, Advances(w) \/ Downloads(w) \/ Throws(w) PROVE FilesInv'
    <2>1. UNCHANGED <<disk, used, leaked>>
      BY <1>2 DEF Advances, AdvanceStart, AdvanceWrite, Downloads, DownloadStart, DownloadSend, Throws
    <2>2. SameUploads
      BY <1>2 DEF Advances, AdvanceStart, AdvanceWrite, Downloads, DownloadStart, DownloadSend,
                  Throws, End, SameUploads, Uploading, TypeOK
    <2>3. RowFiles' = RowFiles
      <3>1. CASE UNCHANGED doc
        BY <3>1 DEF RowFiles, Stored
      <3>2. CASE AdvanceWrite(w)
        <4> DEFINE d == job[w].doc
                   row == [doc[d] EXCEPT !.status = job[w].next, !.stamps = Stamped(@, job[w].next)]
        <4>1. d \in Docs /\ doc[d] \in Row /\ doc[d] # None /\ job[w].next \in STATUS
          BY <3>2 DEF AdvanceWrite, TypeOK, Job
        <4>2. doc' = [doc EXCEPT ![d] = row]
          BY <3>2, <4>1 DEF AdvanceWrite, TypeOK
        <4>3. row \in Row /\ row.file = doc[d].file
          BY <4>1 DEF Row, Stamped
        <4> HIDE DEF row
        <4>4. Stored' = Stored /\ \A c \in Stored : doc'[c].file = doc[c].file
          BY <4>1, <4>2, <4>3 DEF Stored, TypeOK
        <4> QED
          BY <4>4 DEF RowFiles
      <3> QED
        BY <1>2, <3>1, <3>2 DEF Advances, AdvanceStart, Downloads, DownloadStart, DownloadSend,
                                Throws, rows
    <2> QED
      BY <2>1, <2>2, <2>3, FilesStill
  <1>3. ASSUME NEW file \in Files, UploadRefused(file) PROVE FilesInv'
    <2>1. /\ disk' = disk \cup {file} /\ leaked' = leaked \cup {file} /\ used' = used \cup {file}
          /\ file \notin disk /\ UNCHANGED <<doc, job>>
      BY <1>3 DEF UploadRefused, Upload, rows, FilesInv
    <2>2. Uploading' = Uploading /\ JobFiles' = JobFiles /\ RowFiles' = RowFiles
      BY <2>1 DEF Uploading, JobFiles, RowFiles, Stored
    <2>3. disk = leaked \cup RowFiles \cup JobFiles
      BY DEF FilesInv, FilesAccounted, RowFiles, JobFiles
    <2>4. FilesAccounted'
      BY <2>1, <2>2, <2>3 DEF FilesAccounted, RowFiles, JobFiles
    <2>5. \A v \in Uploading : job[v].upload # file
      BY <2>1, <2>3 DEF JobFiles
    <2> QED
      BY <2>1, <2>2, <2>4, <2>5 DEF FilesInv
  <1>4. CASE Restart
    <2>1. Uploading' = {} /\ RowFiles' = RowFiles
      BY <1>4 DEF Restart, rows, Uploading, RowFiles, Stored
    <2>2. disk' = disk /\ used' = used /\ leaked' = leaked \cup JobFiles
      BY <1>4 DEF Restart, JobFiles
    <2>3. disk = leaked \cup RowFiles \cup JobFiles
      BY DEF FilesInv, FilesAccounted, RowFiles, JobFiles
    <2>4. JobFiles' = {}
      BY <2>1 DEF JobFiles
    <2>5. FilesAccounted'
      BY <2>1, <2>2, <2>3, <2>4 DEF FilesAccounted, RowFiles, JobFiles
    <2> QED
      BY <2>1, <2>2, <2>5 DEF FilesInv
  <1>5. CASE UNCHANGED vars
    <2>1. SameUploads /\ RowFiles' = RowFiles /\ UNCHANGED <<disk, used, leaked>>
      BY <1>5 DEF vars, SameUploads, Uploading, RowFiles, Stored
    <2> QED
      BY <2>1, FilesStill
  <1> QED
    BY <1>1, <1>2, <1>3, <1>4, <1>5, FilesOfUploads DEF Next, Uploads

-----------------------------------------------------------------------------
(* Reviews                                                                 *)

Advancing(w) == job[w] # None /\ job[w].op = "advance"
Downloading(w) == job[w] # None /\ job[w].op = "download"

\* Two handlers that have one document in hand make it contested.
Alone ==
  \A v, w \in Workers, d \in Docs : v # w /\ InHand(v, d) /\ InHand(w, d) => d \in contested

\* What a transition read of a document that is not contested is what it still is.
Current ==
  \A w \in Workers : Advancing(w) /\ job[w].doc \notin contested =>
    /\ job[w].next \in WORKFLOW(doc[job[w].doc].status)
    /\ job[w].seen = doc[job[w].doc].file

Excused(d) == d \in contested \cup slipped

\* A file that a download is about to send was reviewed.
SendsReviewed ==
  \A w \in Workers : Downloading(w) => Excused(job[w].doc) \/ job[w].file \in reviewed[job[w].doc]

ReviewInv ==
  /\ Alone /\ Current /\ SendsReviewed
  /\ StampsReflectStatus /\ PublishedAsReviewed /\ ServedAsReviewed

\* The steps after which a handler is where it was, or gone, and the rows are the same.
LEMMA ReviewStill ==
  ASSUME TypeOK, ReviewInv, UNCHANGED <<doc, contested, slipped, reviewed, served>>,
         \A v \in Workers : job'[v] # None => job'[v] = job[v]
  PROVE  ReviewInv'
  <1>1. Alone'
    BY DEF ReviewInv, Alone, InHand
  <1>2. Current'
    BY DEF ReviewInv, Current, Advancing
  <1>3. SendsReviewed'
    BY DEF ReviewInv, SendsReviewed, Downloading, Excused
  <1>4. StampsReflectStatus' /\ PublishedAsReviewed' /\ ServedAsReviewed'
    BY DEF ReviewInv, StampsReflectStatus, PublishedAsReviewed, ServedAsReviewed, Stored
  <1> QED
    BY <1>1, <1>2, <1>3, <1>4 DEF ReviewInv

\* The steps in which a handler starts: what it knows is true, and whom it meets is contested.
LEMMA ReviewStarted ==
  ASSUME TypeOK, ReviewInv, NEW w \in Workers, NEW j \in Job, job[w] = None,
         job' = [job EXCEPT ![w] = j], UNCHANGED <<doc, slipped, reviewed, served>>,
         j.op \in {"edit", "advance"} => Contest(w, j.doc),
         j.op \notin {"edit", "advance"} => contested' = contested,
         j.op = "advance" => /\ j.next \in WORKFLOW(doc[j.doc].status)
                             /\ j.seen = doc[j.doc].file,
         j.op = "download" => Excused(j.doc) \/ j.file \in reviewed[j.doc]
  PROVE  ReviewInv'
  <1> USE DocumentsAssumption
  <1>1. /\ job'[w] = j /\ j # None
        /\ \A v \in Workers \ {w} : job'[v] = job[v]
    BY DEF TypeOK
  <1>2. contested \subseteq contested'
    BY DEF Contest
  <1>3. ASSUME NEW v \in Workers, NEW u \in Workers, NEW d \in Docs, v # u,
               InHand(v, d)', InHand(u, d)'
        PROVE  d \in contested'
    <2>1. CASE v # w /\ u # w
      BY <1>1, <1>2, <1>3, <2>1 DEF ReviewInv, Alone, InHand
    <2>2. ASSUME NEW x \in Workers, x # w, InHand(x, d)', InHand(w, d)'
          PROVE  d \in contested'
      <3>1. InHand(x, d) /\ j.op \in {"edit", "advance"} /\ j.doc = d
        BY <1>1, <2>2 DEF InHand
      <3> QED
        BY <2>2, <3>1 DEF Contest
    <2> QED
      BY <1>3, <2>1, <2>2
  <1>4. Alone'
    BY <1>3 DEF Alone
  <1>5. Current'
    BY <1>1, <1>2 DEF ReviewInv, Current, Advancing
  <1>6. SendsReviewed'
    BY <1>1, <1>2 DEF ReviewInv, SendsReviewed, Downloading, Excused
  <1>7. StampsReflectStatus' /\ PublishedAsReviewed' /\ ServedAsReviewed'
    BY <1>2 DEF ReviewInv, StampsReflectStatus, PublishedAsReviewed, ServedAsReviewed, Stored
  <1> QED
    BY <1>4, <1>5, <1>6, <1>7 DEF ReviewInv

\* No other transition has this document in hand, unless it is contested; nor does a review
\* forget a file.
AloneWith(w, d) ==
  \A v \in Workers \ {w} : Advancing(v) /\ job[v].doc = d => d \in contested

ReviewsStay == \A c \in Docs : reviewed[c] \subseteq reviewed'[c]

\* The steps in which a handler writes the row of its document and ends.
LEMMA ReviewWritten ==
  ASSUME TypeOK, ReviewInv, NEW w \in Workers, End(w), NEW d \in Docs, NEW row \in Row,
         doc' = [doc EXCEPT ![d] = row],
         AloneWith(w, d), ReviewsStay,
         contested' = contested, slipped \subseteq slipped', served' = served,
         ~({"APPROVED", "REJECTED"} \subseteq row.stamps),
         d \notin contested => row.stamps \in StampsOf(row.status),
         d \notin contested \cup slipped' /\ row.status \in {"APPROVED", "PUBLISHED"}
           => row.file \in reviewed'[d]
  PROVE  ReviewInv'
  <1> USE DocumentsAssumption
  <1>1. \A v \in Workers : job'[v] # None => v # w /\ job'[v] = job[v]
    BY DEF End, TypeOK
  <1>2. /\ doc'[d] = row /\ \A c \in Docs \ {d} : doc'[c] = doc[c]
        /\ Stored' = Stored \cup {d}
    BY DEF Stored, TypeOK
  <1>3. Alone'
    BY <1>1 DEF ReviewInv, Alone, InHand
  <1>4. Current'
    <2> SUFFICES ASSUME NEW v \in Workers, Advancing(v)', job'[v].doc \notin contested'
                 PROVE  /\ job'[v].next \in WORKFLOW(doc'[job'[v].doc].status)
                        /\ job'[v].seen = doc'[job'[v].doc].file
      BY DEF Current
    <2>1. v # w /\ job'[v] = job[v] /\ Advancing(v)
      BY <1>1 DEF Advancing
    <2>2. job[v].doc \in Docs
      BY <2>1 DEF Advancing, TypeOK, Job
    <2>3. job[v].doc # d /\ job[v].doc \notin contested
      BY <2>1 DEF AloneWith
    <2>4. /\ job[v].next \in WORKFLOW(doc[job[v].doc].status)
          /\ job[v].seen = doc[job[v].doc].file
      BY <2>1, <2>3 DEF ReviewInv, Current
    <2> QED
      BY <1>2, <2>1, <2>2, <2>3, <2>4
  <1>5. SendsReviewed'
    <2> SUFFICES ASSUME NEW v \in Workers, Downloading(v)'
                 PROVE  \/ job'[v].doc \in contested' \cup slipped'
                        \/ job'[v].file \in reviewed'[job'[v].doc]
      BY DEF SendsReviewed, Excused
    <2>1. job'[v] = job[v] /\ Downloading(v)
      BY <1>1 DEF Downloading
    <2>2. job[v].doc \in Docs
      BY <2>1 DEF Downloading, TypeOK, Job
    <2> QED
      BY <2>1, <2>2 DEF ReviewInv, SendsReviewed, Excused, ReviewsStay
  <1>6. StampsReflectStatus'
    BY <1>2 DEF ReviewInv, StampsReflectStatus, Stored
  <1>7. PublishedAsReviewed'
    BY <1>2 DEF ReviewInv, PublishedAsReviewed, Stored, ReviewsStay
  <1>8. ServedAsReviewed'
    <2>1. \A x \in served : x[1] \in Docs
      BY DEF TypeOK
    <2> QED
      BY <2>1 DEF ReviewInv, ServedAsReviewed, ReviewsStay
  <1> QED
    BY <1>3, <1>4, <1>5, <1>6, <1>7, <1>8 DEF ReviewInv

\* An outcome never leaves an approval beside a rejection.
LEMMA StampedOnce ==
  ASSUME NEW stamps \in SUBSET AUDIT_FIELDS, NEW status \in STATUS,
         ~({"APPROVED", "REJECTED"} \subseteq stamps)
  PROVE  ~({"APPROVED", "REJECTED"} \subseteq Stamped(stamps, status))
  BY DEF Stamped, Opposite, STATUS, AUDIT_FIELDS

\* Along an edge, the stamps a document had in its old status become those of its new one.
LEMMA StampedAlong ==
  ASSUME NEW from \in STATUS, NEW to \in WORKFLOW(from), NEW stamps \in StampsOf(from)
  PROVE  Stamped(stamps, to) \in StampsOf(to)
  <1>1. CASE from = "DRAFT"
    BY <1>1 DEF WORKFLOW, StampsOf, Stamped, Opposite, AUDIT_FIELDS
  <1>2. CASE from = "PENDING_REVIEW"
    BY <1>2 DEF WORKFLOW, StampsOf, Stamped, Opposite, AUDIT_FIELDS
  <1>3. CASE from = "APPROVED"
    BY <1>3 DEF WORKFLOW, StampsOf, Stamped, Opposite, AUDIT_FIELDS
  <1>4. CASE from = "REJECTED"
    BY <1>4 DEF WORKFLOW, StampsOf, Stamped, Opposite, AUDIT_FIELDS
  <1>5. CASE from = "PUBLISHED"
    BY <1>5 DEF WORKFLOW, StampsOf, Stamped, Opposite, AUDIT_FIELDS
  <1>6. CASE from = "ARCHIVED"
    BY <1>6 DEF WORKFLOW
  <1> QED
    BY <1>1, <1>2, <1>3, <1>4, <1>5, <1>6 DEF STATUS

\* A transition follows the workflow from a status that is still the row's, or the document
\* is contested.
LEMMA ReviewAdvanced ==
  ASSUME TypeOK, ReviewInv, NEW w \in Workers, AdvanceWrite(w)
  PROVE  ReviewInv'
  <1> DEFINE d == job[w].doc
             next == job[w].next
             row == [doc[d] EXCEPT !.status = next, !.stamps = Stamped(@, next)]
  <1> USE DocumentsAssumption
  <1>1. /\ Advancing(w) /\ d \in Docs /\ next \in STATUS /\ doc[d] \in Row /\ d \in Stored
        /\ doc[d].status \in STATUS /\ doc[d].stamps \in SUBSET AUDIT_FIELDS
    BY DEF AdvanceWrite, Advancing, TypeOK, Job, Row, Stored
  <1>2. doc' = [doc EXCEPT ![d] = row]
    BY <1>1 DEF AdvanceWrite, TypeOK
  <1>3. /\ row \in Row /\ row.status = next /\ row.file = doc[d].file
        /\ row.stamps = Stamped(doc[d].stamps, next)
    BY <1>1 DEF Row, Stamped
  <1> HIDE DEF row
  <1>4. AloneWith(w, d)
    BY <1>1 DEF ReviewInv, Alone, InHand, Advancing, AloneWith
  <1>5. ~({"APPROVED", "REJECTED"} \subseteq row.stamps)
    BY <1>1, <1>3, StampedOnce DEF ReviewInv, StampsReflectStatus
  <1>6. d \notin contested => next \in WORKFLOW(doc[d].status) /\ job[w].seen = doc[d].file
    BY <1>1 DEF ReviewInv, Current
  <1>7. d \notin contested => row.stamps \in StampsOf(row.status)
    BY <1>1, <1>3, <1>6, StampedAlong DEF ReviewInv, StampsReflectStatus
  <1>8. /\ reviewed \in [Docs -> SUBSET (Files \cup {None})]
        /\ reviewed' = IF next = "APPROVED" THEN [reviewed EXCEPT ![d] = @ \cup {job[w].seen}]
                                            ELSE reviewed
        /\ UNCHANGED <<contested, slipped, served>> /\ End(w)
    BY DEF AdvanceWrite, TypeOK
  <1>9. ReviewsStay
    BY <1>1, <1>8 DEF ReviewsStay
  <1>10. ASSUME d \notin contested \cup slipped', row.status \in {"APPROVED", "PUBLISHED"}
         PROVE  row.file \in reviewed'[d]
    <2>1. CASE next = "APPROVED"
      BY <1>1, <1>3, <1>6, <1>8, <1>10, <2>1
    <2>2. CASE next = "PUBLISHED"
      <3>1. doc[d].status = "APPROVED"
        BY <1>1, <1>6, <1>10, <2>2 DEF WORKFLOW, STATUS
      <3>2. doc[d].file \in reviewed[d]
        BY <1>1, <1>8, <1>10, <3>1 DEF ReviewInv, PublishedAsReviewed
      <3> QED
        BY <1>1, <1>3, <1>9, <3>2 DEF ReviewsStay
    <2> QED
      BY <1>3, <1>10, <2>1, <2>2
  <1> QED
    BY <1>1, <1>2, <1>3, <1>4, <1>5, <1>7, <1>8, <1>9, <1>10, ReviewWritten

\* An edit changes the file of a document that is not approved, or the document has slipped.
LEMMA ReviewEdited ==
  ASSUME TypeOK, ReviewInv, NEW w \in Workers, EditWrite(w)
  PROVE  ReviewInv'
  <1> DEFINE d == job[w].doc
             row == [doc[d] EXCEPT !.file = job[w].upload]
  <1> USE DocumentsAssumption
  <1>1. /\ InHand(w, d) /\ d \in Docs /\ job[w].upload \in Files \cup {None}
        /\ doc[d] \in Row /\ d \in Stored /\ End(w)
    BY DEF EditWrite, InHand, TypeOK, Job, Stored
  <1>2. CASE job[w].upload = None
    <2>1. \A v \in Workers : job'[v] # None => job'[v] = job[v]
      BY <1>1 DEF End, TypeOK
    <2> QED
      BY <1>2, <2>1, ReviewStill DEF EditWrite
  <1>3. CASE job[w].upload # None
    <2>1. doc' = [doc EXCEPT ![d] = row]
      BY <1>3 DEF EditWrite
    <2>2. row \in Row /\ row.status = doc[d].status /\ row.stamps = doc[d].stamps
      BY <1>1 DEF Row
    <2> HIDE DEF row
    <2>3. AloneWith(w, d)
      BY <1>1 DEF ReviewInv, Alone, InHand, Advancing, AloneWith
    <2>4. /\ slipped \subseteq slipped'
          /\ doc[d].status \in {"APPROVED", "PUBLISHED"} => d \in slipped'
          /\ UNCHANGED <<contested, reviewed, served>>
      BY <1>3 DEF EditWrite
    <2>5. /\ ~({"APPROVED", "REJECTED"} \subseteq row.stamps)
          /\ d \notin contested => row.stamps \in StampsOf(row.status)
      BY <1>1, <2>2 DEF ReviewInv, StampsReflectStatus
    <2>6. ReviewsStay
      BY <2>4 DEF ReviewsStay
    <2> QED
      BY <1>1, <2>1, <2>2, <2>3, <2>4, <2>5, <2>6, ReviewWritten
  <1> QED
    BY <1>2, <1>3

\* A new document starts as a draft without stamps, which no handler has in hand.
LEMMA ReviewCreated ==
  ASSUME TypeOK, ReviewInv, NEW w \in Workers, CreateInsert(w)
  PROVE  ReviewInv'
  <1> DEFINE row == [status |-> "DRAFT", file |-> job[w].upload, stamps |-> {}]
  <1>1. PICK d \in Docs : doc[d] = None /\ doc' = [doc EXCEPT ![d] = row]
    BY DEF CreateInsert
  <1>2. row \in Row /\ row.status = "DRAFT" /\ row.stamps = {}
    BY DEF CreateInsert, TypeOK, Job, Row, STATUS
  <1> HIDE DEF row
  <1>3. AloneWith(w, d)
    BY <1>1 DEF TypeOK, Advancing, AloneWith
  <1>4. /\ ~({"APPROVED", "REJECTED"} \subseteq row.stamps) /\ row.stamps \in StampsOf(row.status)
    BY <1>2 DEF StampsOf
  <1>5. UNCHANGED <<contested, slipped, reviewed, served>> /\ End(w)
    BY DEF CreateInsert
  <1>6. ReviewsStay
    BY <1>5 DEF ReviewsStay
  <1> QED
    BY <1>1, <1>2, <1>3, <1>4, <1>5, <1>6, ReviewWritten

\* No step breaks what is known of the reviews.
LEMMA ReviewStep ==
  ASSUME TypeOK, ReviewInv, [Next]_vars
  PROVE  ReviewInv'
  <1> USE DocumentsAssumption
  <1>1. ASSUME NEW w \in Workers, NEW file \in Files \cup {None}, CreateStart(w, file)
        PROVE  ReviewInv'
    <2> DEFINE j == [op |-> "create", upload |-> file]
    <2>1. j \in Job /\ j.op = "create"
      BY DEF Job
    <2> HIDE DEF j
    <2>2. job' = [job EXCEPT ![w] = j]
      BY <1>1 DEF CreateStart, j
    <2> QED
      BY <1>1, <2>1, <2>2, ReviewStarted DEF CreateStart, rows
  <1>2. ASSUME NEW w \in Workers, NEW file \in Files \cup {None}, NEW d \in Docs,
               EditStart(w, d, file)
        PROVE  ReviewInv'
    <2> DEFINE j == [op |-> "edit", doc |-> d, upload |-> file]
    <2>1. j \in Job /\ j.op = "edit" /\ j.doc = d
      BY DEF Job
    <2> HIDE DEF j
    <2>2. job' = [job EXCEPT ![w] = j]
      BY <1>2 DEF EditStart, j
    <2> QED
      BY <1>2, <2>1, <2>2, ReviewStarted DEF EditStart
  <1>3. ASSUME NEW w \in Workers, NEW d \in Docs, NEW next \in STATUS, AdvanceStart(w, d, next)
        PROVE  ReviewInv'
    <2> DEFINE j == [op |-> "advance", doc |-> d, next |-> next, seen |-> doc[d].file]
    <2>1. j \in Job /\ j.op = "advance" /\ j.doc = d /\ j.next = next /\ j.seen = doc[d].file
      BY <1>3 DEF AdvanceStart, TypeOK, Row, Job
    <2> HIDE DEF j
    <2>2. job' = [job EXCEPT ![w] = j]
      BY <1>3 DEF AdvanceStart, j
    <2> QED
      BY <1>3, <2>1, <2>2, ReviewStarted DEF AdvanceStart, canTransition
  <1>4. ASSUME NEW w \in Workers, NEW d \in Docs, DownloadStart(w, d) PROVE ReviewInv'
    <2> DEFINE j == [op |-> "download", doc |-> d, file |-> doc[d].file]
    <2>1. j \in Job /\ j.op = "download" /\ j.doc = d /\ j.file = doc[d].file
      BY <1>4 DEF DownloadStart, TypeOK, Job
    <2> HIDE DEF j
    <2>2. job' = [job EXCEPT ![w] = j]
      BY <1>4 DEF DownloadStart, j
    <2>3. Excused(d) \/ doc[d].file \in reviewed[d]
      BY <1>4 DEF DownloadStart, Visible, ReviewInv, PublishedAsReviewed, Stored, Excused
    <2> QED
      BY <1>4, <2>1, <2>2, <2>3, ReviewStarted DEF DownloadStart, rows
  <1>5. ASSUME NEW w \in Workers, DownloadSend(w) PROVE ReviewInv'
    <2>1. \A v \in Workers : job'[v] # None => job'[v] = job[v]
      BY <1>5 DEF DownloadSend, End, TypeOK
    <2>2. UNCHANGED <<doc, contested, slipped, reviewed>>
      BY <1>5 DEF DownloadSend, rows
    <2>3. Alone' /\ Current' /\ SendsReviewed'
      BY <2>1, <2>2 DEF ReviewInv, Alone, InHand, Current, Advancing, SendsReviewed, Downloading,
                        Excused
    <2>4. StampsReflectStatus' /\ PublishedAsReviewed'
      BY <2>2 DEF ReviewInv, StampsReflectStatus, PublishedAsReviewed, Stored
    <2>5. Excused(job[w].doc) \/ job[w].file \in reviewed[job[w].doc]
      BY <1>5 DEF DownloadSend, Downloading, ReviewInv, SendsReviewed
    <2>6. ServedAsReviewed'
      BY <1>5, <2>2, <2>5 DEF DownloadSend, ReviewInv, ServedAsReviewed, Excused
    <2> QED
      BY <2>3, <2>4, <2>6 DEF ReviewInv
  <1>6. ASSUME NEW w \in Workers, UploadThrows(w) \/ Throws(w) PROVE ReviewInv'
    <2>1. \A v \in Workers : job'[v] # None => job'[v] = job[v]
      BY <1>6 DEF UploadThrows, Throws, End, TypeOK
    <2> QED
      BY <1>6, <2>1, ReviewStill DEF UploadThrows, Throws, rows
  <1>7. ASSUME NEW file \in Files, UploadRefused(file) PROVE ReviewInv'
    BY <1>7, ReviewStill DEF UploadRefused, rows
  <1>8. CASE Restart
    BY <1>8, ReviewStill DEF Restart, rows
  <1>9. CASE UNCHANGED vars
    BY <1>9, ReviewStill DEF vars
  <1> QED
    BY <1>1, <1>2, <1>3, <1>4, <1>5, <1>6, <1>7, <1>8, <1>9,
       ReviewCreated, ReviewEdited, ReviewAdvanced
    DEF Next, Uploads, Advances, Downloads

\* At the start there is nothing.
LEMMA Start == Init => TypeOK /\ FilesInv /\ ReviewInv
  <1> SUFFICES ASSUME Init PROVE TypeOK /\ FilesInv /\ ReviewInv
    OBVIOUS
  <1>1. TypeOK
    BY DEF Init, TypeOK
  <1>2. Stored = {} /\ Uploading = {}
    BY DEF Init, Stored, Uploading
  <1>3. FilesInv
    BY <1>2 DEF Init, FilesInv, FilesAccounted, RowFiles
  <1>4. ReviewInv
    BY <1>2 DEF Init, ReviewInv, Alone, InHand, Current, Advancing, SendsReviewed, Downloading,
                StampsReflectStatus, PublishedAsReviewed, ServedAsReviewed
  <1> QED
    BY <1>1, <1>3, <1>4

-----------------------------------------------------------------------------
(* Theorems                                                                *)

\* Rows, files and handlers always have their types.
THEOREM DocTypeCorrect == Spec => []TypeOK
  BY Start, StepTyped, PTL DEF Spec

\* Whatever statements throw and whenever the process dies, a row has its file, and a file on
\* disk has a row, an upload under way, or one of the reasons to be there that leaked names.
THEOREM FilesCorrect == Spec => []FilesAccounted
  <1>1. FilesInv => FilesAccounted
    BY DEF FilesInv
  <1> QED
    BY <1>1, Start, FilesStep, DocTypeCorrect, PTL DEF Spec

\* The invariant of the workflow always holds.
LEMMA ReviewCorrect == Spec => []ReviewInv
  BY Start, ReviewStep, DocTypeCorrect, PTL DEF Spec

\* However transitions race, setStatus never leaves an approval beside a rejection, and the
\* stamps of a document whose handlers took turns are those of the way it went.
THEOREM StampsCorrect == Spec => []StampsReflectStatus
  <1>1. ReviewInv => StampsReflectStatus
    BY DEF ReviewInv
  <1> QED
    BY <1>1, ReviewCorrect, PTL

\* A document whose handlers took turns is published with the file its approval looked at.
THEOREM ReviewedCorrect == Spec => []PublishedAsReviewed
  <1>1. ReviewInv => PublishedAsReviewed
    BY DEF ReviewInv
  <1> QED
    BY <1>1, ReviewCorrect, PTL

\* And that is the file the public portal sends.
THEOREM ServedCorrect == Spec => []ServedAsReviewed
  <1>1. ReviewInv => ServedAsReviewed
    BY DEF ReviewInv
  <1> QED
    BY <1>1, ReviewCorrect, PTL

==============================================================================
