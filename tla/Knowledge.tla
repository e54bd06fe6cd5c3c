------------------------------ MODULE Knowledge ------------------------------
(***************************************************************************)
(* The class's documents (internal/agentjob/worker.go,                      *)
(* api/knowledge_handlers.go): an upload creates a document and a blob, a    *)
(* worker hashes the stored bytes, attaches the document to a blob that      *)
(* already has them or converts them into searchable text, and a            *)
(* maintenance run removes the bytes of blobs that no document shows.       *)
(*                                                                          *)
(* A worker holds an advisory lock of the DOCUMENT; blobs are shared.  All   *)
(* files of the model have the same bytes: that is the case that matters.   *)
(* File f is created with blob f.                                           *)
(***************************************************************************)
EXTENDS Naturals, FiniteSets

CONSTANTS
  Files,          \* documents, and the blobs created with them
  DocWorkers,
  MaxReprocess    \* bound on reprocessing requests

\* Ids are numbers: a query takes the first by id.
ASSUME KnowledgeAssumption == Files \subseteq Nat /\ MaxReprocess \in Nat

VARIABLES
  file,           \* knowledge_document
  blob,           \* knowledge_blob, its object and its knowledge_entry rows
  docEvents,      \* events of the document not acknowledged
  docRun,         \* processDocument
  reprocessed,
  listed,         \* blobs that the maintenance run has listed
  sweptBlobs      \* history: blobs whose object the maintenance run removed

knowVars == <<file, blob, docEvents, docRun, reprocessed, listed, sweptBlobs>>

FileStatus == {"none", "uploading", "queued", "processing", "ready", "unsupported", "failed",
               "superseded", "deleted"}
NoDocRun == [at |-> "idle", on |-> {}, blob |-> {}, found |-> {}, saw |-> "none"]

KnowTypeOK ==
  /\ file \in [Files -> [st : FileStatus, blob : Files, deleted : BOOLEAN]]
  /\ blob \in [Files -> [st : FileStatus, hashed : BOOLEAN, deleted : BOOLEAN, raw : BOOLEAN,
                         text : BOOLEAN, long : BOOLEAN]]
  /\ docEvents \in [Files -> 0 .. 1 + MaxReprocess]
  /\ docRun \in [DocWorkers -> [at : {"idle", "loaded", "started", "attaching", "converting"},
                                on : SUBSET Files, blob : SUBSET Files, found : SUBSET Files,
                                saw : FileStatus]]
  /\ reprocessed \in 0 .. MaxReprocess
  /\ listed \in SUBSET Files /\ sweptBlobs \in SUBSET Files

KnowInit ==
  /\ file = [f \in Files |-> [st |-> "none", blob |-> f, deleted |-> FALSE]]
  /\ blob = [f \in Files |-> [st |-> "none", hashed |-> FALSE, deleted |-> FALSE,
                              raw |-> FALSE, text |-> FALSE, long |-> FALSE]]
  /\ docEvents = [f \in Files |-> 0]
  /\ docRun = [w \in DocWorkers |-> NoDocRun]
  /\ reprocessed = 0
  /\ listed = {} /\ sweptBlobs = {}

Visible(f) == file[f].st # "none" /\ ~file[f].deleted

\* updated_at of a blob is now.
Touched(b, x) == [blob EXCEPT ![b] = [x EXCEPT !.long = FALSE]]

\* UPDATE knowledge_document SET status ... WHERE blob_id ... AND deleted_at IS NULL
Shown(b, st) ==
  [f \in Files |-> IF Visible(f) /\ file[f].blob = b THEN [file[f] EXCEPT !.st = st] ELSE file[f]]

-----------------------------------------------------------------------------
(* The administrator *)

\* presignKnowledgeDocument, and the upload
Upload(f) ==
  /\ file[f].st = "none"
  /\ file' = [file EXCEPT ![f].st = "uploading"]
  /\ blob' = Touched(f, [blob[f] EXCEPT !.st = "uploading", !.raw = TRUE])
  /\ UNCHANGED <<docEvents, docRun, reprocessed, listed, sweptBlobs>>

\* A slip: an original that is not converted counts as ready.
PlannedReady(processing) == IF processing THEN "queued" ELSE "ready"

\* planKnowledgeCompletion
Plan(processing) == IF processing THEN "queued" ELSE "unsupported"

\* completeKnowledgeDocument
CompleteUpload(f, processing) ==
  /\ Visible(f) /\ file[f].st = "uploading"
  /\ file' = [file EXCEPT ![f].st = Plan(processing)]
  /\ blob' = Touched(f, [blob[f] EXCEPT !.st = Plan(processing)])
  /\ docEvents' = IF processing THEN [docEvents EXCEPT ![f] = @ + 1] ELSE docEvents
  /\ UNCHANGED <<docRun, reprocessed, listed, sweptBlobs>>

\* reprocessKnowledgeDocument: every document of the blob is queued, with one event.
Reprocess(f) ==
  /\ Visible(f) /\ file[f].st # "uploading"
  /\ reprocessed < MaxReprocess
  /\ LET b == file[f].blob IN
       /\ blob' = Touched(b, [blob[b] EXCEPT !.st = "queued"])
       /\ file' = Shown(b, "queued")
  /\ docEvents' = [docEvents EXCEPT ![f] = @ + 1]
  /\ reprocessed' = reprocessed + 1
  /\ UNCHANGED <<docRun, listed, sweptBlobs>>

\* deleteKnowledgeDocument; the blob is not touched.
DeleteFile(f) ==
  /\ Visible(f)
  /\ file' = [file EXCEPT ![f].st = "deleted", ![f].deleted = TRUE]
  /\ UNCHANGED <<blob, docEvents, docRun, reprocessed, listed, sweptBlobs>>

-----------------------------------------------------------------------------
(* The worker *)

DocAt(w, at, f) == docRun[w].at = at /\ f \in docRun[w].on
DocTo(w, at) == docRun' = [docRun EXCEPT ![w].at = at]
Acknowledged(f) == docEvents' = [docEvents EXCEPT ![f] = @ - 1]

\* Handle, withLock, loadDocument
LoadDocument(w, f) ==
  /\ docRun[w].at = "idle" /\ docEvents[f] > 0
  /\ \A v \in DocWorkers : f \notin docRun[v].on
  /\ IF Visible(f) /\ file[f].st \notin {"ready", "unsupported", "deleted", "superseded"}
       THEN /\ docRun' = [docRun EXCEPT ![w] = [NoDocRun EXCEPT !.at = "loaded", !.on = {f},
                                                               !.blob = {file[f].blob}]]
            /\ UNCHANGED docEvents
       ELSE Acknowledged(f) /\ UNCHANGED docRun
  /\ UNCHANGED <<file, blob, reprocessed, listed, sweptBlobs>>

\* setDocumentStatus
SetStatus(b, st) ==
  /\ blob' = Touched(b, [blob[b] EXCEPT !.st = st])
  /\ file' = Shown(b, st)

StartDocument(w, f) ==
  /\ DocAt(w, "loaded", f)
  /\ \E b \in docRun[w].blob : SetStatus(b, "processing")
  /\ DocTo(w, "started")
  /\ UNCHANGED <<docEvents, reprocessed, listed, sweptBlobs>>

\* failDocument; what can be retried is delivered again.
FailDocument(w, f, retry) ==
  /\ docRun[w].at \in {"started", "converting"} /\ f \in docRun[w].on
  /\ \E b \in docRun[w].blob : SetStatus(b, "failed")
  /\ docRun' = [docRun EXCEPT ![w] = NoDocRun]
  /\ IF retry THEN UNCHANGED docEvents ELSE Acknowledged(f)
  /\ UNCHANGED <<reprocessed, listed, sweptBlobs>>

\* A slip: superseded and deleted blobs are reused.
AnyHashed(b) == blob[b].hashed

\* A slip: only a blob that is converted is reused.
ReusableReady(b) == blob[b].hashed /\ ~blob[b].deleted /\ blob[b].st = "ready"

\* Blobs with the same bytes.
Reusable(b) == blob[b].hashed /\ ~blob[b].deleted /\ blob[b].st # "superseded"

\* download, hashFile, and attachDuplicate up to its queries, under a lock of the hash.
FindDuplicate(w, f) ==
  /\ DocAt(w, "started", f)
  /\ \A v \in DocWorkers : docRun[v].at # "attaching"
  /\ \E b \in docRun[w].blob :
       /\ blob[b].raw
       /\ LET same == {x \in Files \ {b} : Reusable(x)}
              found == {x \in same : \A y \in same : x <= y}
              docs == {g \in Files : Visible(g) /\ file[g].blob \in found}
          IN docRun' = [docRun EXCEPT ![w].at = "attaching", ![w].found = found,
                          ![w].saw = CASE found = {} -> "none"
                                       [] docs # {}  -> file[CHOOSE g \in docs : \A h \in docs : g <= h].st
                                       [] OTHER      -> blob[CHOOSE x \in found : TRUE].st]
  /\ UNCHANGED <<file, blob, docEvents, reprocessed, listed, sweptBlobs>>

\* attachDuplicate's writes: the blob gets the hash, or it is superseded, and then its
\* object is removed (if that fails the maintenance run removes it).
AttachDuplicate(w, f) ==
  /\ DocAt(w, "attaching", f)
  /\ \E b \in docRun[w].blob :
       IF docRun[w].found = {}
         THEN /\ blob' = Touched(b, [blob[b] EXCEPT !.hashed = TRUE, !.st = "processing"])
              /\ DocTo(w, "converting")
              /\ UNCHANGED <<file, docEvents>>
         ELSE /\ file' = [file EXCEPT ![f].blob = CHOOSE x \in docRun[w].found : TRUE,
                                      ![f].st = docRun[w].saw]
              /\ blob' = Touched(b, [blob[b] EXCEPT !.hashed = TRUE, !.st = "superseded",
                                                    !.deleted = TRUE, !.raw = FALSE])
              /\ docRun' = [docRun EXCEPT ![w] = NoDocRun]
              /\ Acknowledged(f)
  /\ UNCHANGED <<reprocessed, listed, sweptBlobs>>

\* persistConversion: the text and its rows; "ready" stands for "partial" too, and the
\* outcome may be "unsupported".
PersistConversion(w, f, st) ==
  /\ DocAt(w, "converting", f) /\ st \in {"ready", "unsupported"}
  /\ \E b \in docRun[w].blob :
       /\ blob' = Touched(b, [blob[b] EXCEPT !.st = st, !.text = (st = "ready")])
       /\ file' = Shown(b, st)
  /\ docRun' = [docRun EXCEPT ![w] = NoDocRun]
  /\ Acknowledged(f)
  /\ UNCHANGED <<reprocessed, listed, sweptBlobs>>

\* The process dies; the event will be delivered again.
DocCrash(w) ==
  /\ docRun[w].at # "idle"
  /\ docRun' = [docRun EXCEPT ![w] = NoDocRun]
  /\ UNCHANGED <<file, blob, docEvents, reprocessed, listed, sweptBlobs>>

-----------------------------------------------------------------------------
(* Maintenance *)

\* KnowledgeDeleteGraceHours pass.
GracePasses ==
  /\ blob' = [b \in Files |-> [blob[b] EXCEPT !.long = (blob[b].st # "none")]]
  /\ UNCHANGED <<file, docEvents, docRun, reprocessed, listed, sweptBlobs>>

\* expireKnowledgeBlobs lists blobs not updated for the grace period and not shown ...
ListBlobs ==
  /\ listed = {}
  /\ listed' = {b \in Files : /\ blob[b].st \notin {"none", "deleted"} /\ blob[b].long
                              /\ \A f \in Files : Visible(f) => file[f].blob # b}
  /\ UNCHANGED <<file, blob, docEvents, docRun, reprocessed, sweptBlobs>>

\* ... removes their objects, and then their rows.
SweepBlob(b) ==
  /\ b \in listed
  /\ \/ /\ b \notin sweptBlobs
        /\ blob' = [blob EXCEPT ![b].raw = FALSE]
        /\ sweptBlobs' = sweptBlobs \cup {b}
        /\ UNCHANGED listed
     \/ /\ b \in sweptBlobs
        /\ blob' = Touched(b, [blob[b] EXCEPT !.st = "deleted", !.deleted = TRUE, !.text = FALSE])
        /\ listed' = listed \ {b}
        /\ UNCHANGED sweptBlobs
  /\ UNCHANGED <<file, docEvents, docRun, reprocessed>>

KnowNext ==
  \/ \E f \in Files :
       \/ Upload(f) \/ Reprocess(f) \/ DeleteFile(f) \/ SweepBlob(f)
       \/ \E p \in BOOLEAN : CompleteUpload(f, p)
       \/ \E w \in DocWorkers :
            \/ LoadDocument(w, f) \/ StartDocument(w, f) \/ FindDuplicate(w, f)
            \/ AttachDuplicate(w, f)
            \/ \E r \in BOOLEAN : FailDocument(w, f, r)
            \/ \E st \in {"ready", "unsupported"} : PersistConversion(w, f, st)
  \/ \E w \in DocWorkers : DocCrash(w)
  \/ GracePasses \/ ListBlobs

KnowSpec == KnowInit /\ [][KnowNext]_knowVars

-----------------------------------------------------------------------------
(* Properties *)

\* The same bytes are kept once: of the blobs with a hash at most one is in use, whoever
\* uploads, reprocesses or deletes meanwhile (attachDuplicate, and the unique index
\* knowledge_blob_class_sha256, which it never runs into).
OneBlobPerContent == Cardinality({b \in Files : blob[b].hashed /\ ~blob[b].deleted}) <= 1

\* Deduplication never takes away bytes that a visible document needs: only the
\* maintenance run may have removed them (attachDuplicate, expireKnowledgeBlobs).
DedupKeepsBytes ==
  \A f \in Files : Visible(f) => \/ blob[file[f].blob].raw
                                 \/ file[f].blob \in sweptBlobs

\* A document shown as ready, whose blob is ready too, has its text (persistConversion,
\* attachDuplicate).  A document alone may say ready of a blob that is not: what a duplicate
\* copies was read under the lock of the hash, and a conversion does not take that lock.
ReadyHasText ==
  \A f \in Files : Visible(f) /\ file[f].st = "ready" /\ blob[file[f].blob].st = "ready"
                     => blob[file[f].blob].text

\* Uploads, deduplication, reprocessing and expiry (agentjob/worker.go, knowledge_handlers.go): bytes
\* are kept once and as long as they are needed, and what is ready can be read.
KnowledgeInv == KnowTypeOK /\ OneBlobPerContent /\ DedupKeepsBytes /\ ReadyHasText
=============================================================================
