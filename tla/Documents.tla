------------------------------ MODULE Documents ------------------------------
(***************************************************************************)
(* Documents and their files: backend/src/services/documentService.js,     *)
(* documentRepository.js and the workflow of shared/workflow.js.           *)
(*                                                                         *)
(* Every handler is a read of the row and, after an await, an update with  *)
(* no condition on what was read.  An uploaded file is stored before the   *)
(* handler runs.  A row is never removed, so that its being there is       *)
(* looked at once.                                                         *)
(*                                                                         *)
(* Who makes a transition is left out: for each of them some role may.     *)
(***************************************************************************)
EXTENDS Integers, FiniteSets

CONSTANTS
  Docs,       \* ids a document can be given (bounds the rows)
  Files,      \* names an uploaded file can be given (bounds the uploads)
  Workers,    \* handlers that can be in flight at the same time
  None

VARIABLES
  doc,        \* Document rows: status, the file of url, the outcomes stamped
  disk,       \* the files in uploads/documents
  job,        \* what the handler run by each worker is in the middle of
  used,       \* the file names given so far
  leaked,     \* history: files whose row let go of them, or never had them
  contested,  \* history: documents two handlers ever had in hand at once
  slipped,    \* history: documents whose file was replaced after its approval
  reviewed,   \* history: the files that approvals of each document looked at
  served      \* history: what the public portal handed out, as <<document, file>>

rows == <<doc, contested, slipped, reviewed>>
vars == <<doc, disk, job, used, leaked, contested, slipped, reviewed, served>>

STATUS == {"DRAFT", "PENDING_REVIEW", "APPROVED", "REJECTED", "PUBLISHED", "ARCHIVED"}

WORKFLOW(status) ==
  CASE status = "DRAFT"          -> {"PENDING_REVIEW", "ARCHIVED"}
    [] status = "PENDING_REVIEW" -> {"APPROVED", "REJECTED"}
    [] status = "APPROVED"       -> {"PUBLISHED", "REJECTED"}
    [] status = "REJECTED"       -> {"PENDING_REVIEW", "ARCHIVED"}
    [] status = "PUBLISHED"      -> {"ARCHIVED"}
    [] OTHER                     -> {}

\* The statuses whose user and time are kept in columns of the row.
AUDIT_FIELDS == {"APPROVED", "REJECTED", "PUBLISHED", "ARCHIVED"}

Row == [status: STATUS, file: Files \cup {None}, stamps: SUBSET AUDIT_FIELDS]

\* What a handler keeps between its statements.
Job ==
  [op: {"create"}, upload: Files \cup {None}]
  \cup [op: {"edit"}, doc: Docs, upload: Files \cup {None}]
  \cup [op: {"advance"}, doc: Docs, next: STATUS, seen: Files \cup {None}]
  \cup [op: {"download"}, doc: Docs, file: Files]

ASSUME DocumentsAssumption == None \notin Files \cup Row \cup Job

canTransitionRevised(current, next) ==
  next \in WORKFLOW(current) \/ (current = "REJECTED" /\ next = "PUBLISHED")
canTransition(current, next) == next \in WORKFLOW(current)

\* The columns an outcome clears: the opposite one, or both when the document is archived.
Opposite(status) ==
  CASE status = "APPROVED" -> {"REJECTED"}
    [] status = "REJECTED" -> {"APPROVED"}
    [] status = "ARCHIVED" -> {"APPROVED", "REJECTED"}
    [] OTHER               -> {}

StampedAlways(stamps, status) == (stamps \ Opposite(status)) \cup {status}
StampedOver(stamps, status) == stamps \cup ({status} \cap AUDIT_FIELDS)
Stamped(stamps, status) == (stamps \ Opposite(status)) \cup ({status} \cap AUDIT_FIELDS)

InHand(w, d) == job[w] # None /\ job[w].op \in {"edit", "advance"} /\ job[w].doc = d

Contest(w, d) ==
  contested' = IF \E v \in Workers \ {w} : InHand(v, d) THEN contested \cup {d} ELSE contested

-----------------------------------------------------------------------------
(* Uploads                                                                 *)

\* multer stores the file, if there is one, under a name of its own.
Upload(file) ==
  /\ file \notin used
  /\ used' = used \cup ({file} \ {None})

\* The files are checked before the fields: fields that are refused leave the file behind.
UploadRefused(file) ==
  /\ Upload(file)
  /\ disk' = disk \cup ({file} \ {None})
  /\ leaked' = leaked \cup ({file} \ {None})
  /\ UNCHANGED <<rows, job, served>>

DiscardedNever(w) == disk
Discarded(w) == disk \ {job[w].upload}

End(w) == job' = [job EXCEPT ![w] = None]

\* POST /documents
CreateStart(w, file) ==
  /\ job[w] = None
  /\ Upload(file)
  /\ disk' = disk \cup ({file} \ {None})
  /\ job' = [job EXCEPT ![w] = [op |-> "create", upload |-> file]]
  /\ UNCHANGED <<rows, leaked, served>>

CreateInsert(w) ==
  /\ job[w] # None /\ job[w].op = "create"
  /\ \E d \in Docs :
       /\ doc[d] = None
       /\ doc' = [doc EXCEPT ![d] = [status |-> "DRAFT", file |-> job[w].upload, stamps |-> {}]]
  /\ End(w)
  /\ UNCHANGED <<disk, used, leaked, contested, slipped, reviewed, served>>

\* PATCH /documents/:id, up to the read of the row
EditStart(w, d, file) ==
  /\ job[w] = None /\ doc[d] # None
  /\ Upload(file)
  /\ disk' = disk \cup ({file} \ {None})
  /\ job' = [job EXCEPT ![w] = [op |-> "edit", doc |-> d, upload |-> file]]
  /\ Contest(w, d)
  /\ UNCHANGED <<doc, leaked, slipped, reviewed, served>>

\* The file the row had stays on disk.
EditWrite(w) ==
  LET d == job[w].doc
      file == job[w].upload
  IN
  /\ job[w] # None /\ job[w].op = "edit"
  /\ \/ /\ file = None
        /\ UNCHANGED <<doc, leaked, slipped>>
     \/ /\ file # None
        /\ doc' = [doc EXCEPT ![d].file = file]
        /\ leaked' = leaked \cup ({doc[d].file} \ {None})
        /\ slipped' = IF doc[d].status \in {"APPROVED", "PUBLISHED"} THEN slipped \cup {d} ELSE slipped
  /\ End(w)
  /\ UNCHANGED <<disk, used, contested, reviewed, served>>

\* A statement of an upload throws: the file is unlinked again.
UploadThrows(w) ==
  /\ job[w] # None /\ job[w].op \in {"create", "edit"}
  /\ disk' = Discarded(w)
  /\ End(w)
  /\ UNCHANGED <<rows, used, leaked, served>>

-----------------------------------------------------------------------------
(* The workflow                                                            *)

\* PATCH /documents/:id/status/:status, and DELETE, which is a transition to ARCHIVED
AdvanceStart(w, d, next) ==
  /\ job[w] = None /\ doc[d] # None
  /\ canTransition(doc[d].status, next)
  /\ job' = [job EXCEPT ![w] = [op |-> "advance", doc |-> d, next |-> next, seen |-> doc[d].file]]
  /\ Contest(w, d)
  /\ UNCHANGED <<doc, disk, used, leaked, slipped, reviewed, served>>

AdvanceWrite(w) ==
  LET d == job[w].doc
      next == job[w].next
  IN
  /\ job[w] # None /\ job[w].op = "advance"
  /\ doc' = [doc EXCEPT ![d].status = next, ![d].stamps = Stamped(@, next)]
  /\ reviewed' = IF next = "APPROVED" THEN [reviewed EXCEPT ![d] = @ \cup {job[w].seen}] ELSE reviewed
  /\ End(w)
  /\ UNCHANGED <<disk, used, leaked, contested, slipped, served>>

-----------------------------------------------------------------------------
(* The public portal                                                       *)

VisibleUnlessArchived(d) == doc[d].status # "ARCHIVED"
Visible(d) == doc[d].status = "PUBLISHED"

\* GET /doc-download/:id/download: the row is read and its file found, then the access is
\* logged, then the file is sent.
DownloadStart(w, d) ==
  /\ job[w] = None /\ doc[d] # None
  /\ doc[d].file \in disk /\ Visible(d)
  /\ job' = [job EXCEPT ![w] = [op |-> "download", doc |-> d, file |-> doc[d].file]]
  /\ UNCHANGED <<rows, disk, used, leaked, served>>

DownloadSend(w) ==
  /\ job[w] # None /\ job[w].op = "download"
  /\ served' = served \cup {<<job[w].doc, job[w].file>>}
  /\ End(w)
  /\ UNCHANGED <<rows, disk, used, leaked>>

-----------------------------------------------------------------------------

\* A statement that is not part of an upload throws.
Throws(w) ==
  /\ job[w] # None /\ job[w].op \in {"advance", "download"}
  /\ End(w)
  /\ UNCHANGED <<rows, disk, used, leaked, served>>

Uploading == {w \in Workers : job[w] # None /\ job[w].op \in {"create", "edit"}}

\* The process dies: rows and files stay as they are.
Restart ==
  /\ \E w \in Workers : job[w] # None
  /\ job' = [w \in Workers |-> None]
  /\ leaked' = leaked \cup ({job[w].upload : w \in Uploading} \ {None})
  /\ UNCHANGED <<rows, disk, used, served>>

Init ==
  /\ doc = [d \in Docs |-> None]
  /\ disk = {}
  /\ job = [w \in Workers |-> None]
  /\ used = {}
  /\ leaked = {}
  /\ contested = {}
  /\ slipped = {}
  /\ reviewed = [d \in Docs |-> {}]
  /\ served = {}

Uploads(w) ==
  \/ \E file \in Files \cup {None} :
       \/ CreateStart(w, file)
       \/ \E d \in Docs : EditStart(w, d, file)
  \/ CreateInsert(w)
  \/ EditWrite(w)
  \/ UploadThrows(w)

Advances(w) ==
  \/ \E d \in Docs, next \in STATUS : AdvanceStart(w, d, next)
  \/ AdvanceWrite(w)

Downloads(w) ==
  \/ \E d \in Docs : DownloadStart(w, d)
  \/ DownloadSend(w)

Next ==
  \/ \E w \in Workers : Uploads(w) \/ Advances(w) \/ Downloads(w) \/ Throws(w)
  \/ \E file \in Files : UploadRefused(file)
  \/ Restart

Spec == Init /\ [][Next]_vars

-----------------------------------------------------------------------------
(* Properties                                                              *)

\* Rows, files and handlers have the shapes the schema and the code give them, and a handler
\* works on a document that is there.
TypeOK ==
  /\ doc \in [Docs -> Row \cup {None}]
  /\ disk \subseteq Files /\ used \subseteq Files /\ leaked \subseteq Files
  /\ job \in [Workers -> Job \cup {None}]
  /\ contested \subseteq Docs /\ slipped \subseteq Docs
  /\ reviewed \in [Docs -> SUBSET (Files \cup {None})]
  /\ served \subseteq Docs \X Files
  /\ \A w \in Workers : job[w] # None /\ job[w].op # "create" => doc[job[w].doc] # None

Stored == {d \in Docs : doc[d] # None}

\* What the columns of a document may say of it in each status.
StampsOf(status) ==
  CASE status = "DRAFT"          -> {{}}
    [] status = "PENDING_REVIEW" -> {{}, {"REJECTED"}}
    [] status = "APPROVED"       -> {{"APPROVED"}}
    [] status = "REJECTED"       -> {{"REJECTED"}}
    [] status = "PUBLISHED"      -> {{"APPROVED", "PUBLISHED"}}
    [] OTHER                     -> {{"ARCHIVED"}, {"PUBLISHED", "ARCHIVED"}}

\* The stamps on a document tell how it got where it is, through rejections and new reviews:
\* "the record reflects only the current state", as the code that clears them says.  For one
\* that racing transitions had in hand this much is left: no approval beside a rejection.
StampsReflectStatus ==
  \A d \in Stored :
    /\ ~({"APPROVED", "REJECTED"} \subseteq doc[d].stamps)
    /\ d \notin contested => doc[d].stamps \in StampsOf(doc[d].status)

\* What is approved or published is the file that the approval looked at, unless two handlers
\* had the document in hand at once, or it was edited after its approval, which is allowed.
PublishedAsReviewed ==
  \A d \in Stored \ (contested \cup slipped) :
    doc[d].status \in {"APPROVED", "PUBLISHED"} => doc[d].file \in reviewed[d]

\* So is what the public portal hands out, although its file is sent some statements after
\* the row was looked at.
ServedAsReviewed ==
  \A x \in served : x[1] \in contested \cup slipped \/ x[2] \in reviewed[x[1]]

\* No row is without its file, and no file without a row, but for those an edit replaced, a
\* refused form or a restart left behind, and those still being uploaded: whatever statement
\* throws on the way, the row and the file stay in step.
FilesAccounted ==
  disk = leaked \cup ({doc[d].file : d \in Stored} \ {None})
                \cup ({job[w].upload : w \in Uploading} \ {None})

\* DOCUMENTS.md: "`ARCHIVED` is terminal".
ArchivedIsTerminal == \A d \in Stored : "ARCHIVED" \in doc[d].stamps => doc[d].status = "ARCHIVED"

=============================================================================
