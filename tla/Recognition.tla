---------------------------- MODULE Recognition ----------------------------
(***************************************************************************)
(* A batch of materials that a model reads and groups into candidate claims *)
(* (api/ai_handlers.go, aijob/worker.go).  The student uploads, starts,     *)
(* stops, repeats, applies or deletes the batch; a worker takes the event   *)
(* of each start, under an advisory lock on the batch, and writes each      *)
(* material and each group of materials as a checkpoint of its own.         *)
(*                                                                          *)
(* Every material is a picture about an activity of its own, so that each   *)
(* makes one group; a candidate is named by its material.                   *)
(***************************************************************************)
EXTENDS Integers, FiniteSets, Sequences

CONSTANTS
  Pictures,        \* ai_asset rows, numbered in the order of their ids
  MaxEvents        \* bound on starts and repeats

\* Ids of rows are numbers, and a batch has finitely many pictures.
ASSUME RecognitionAssumption ==
  Pictures \subseteq Nat /\ IsFiniteSet(Pictures) /\ MaxEvents \in Nat

VARIABLES
  batch,           \* ai_batch: status, compose_stop_requested, result
  asset,           \* ai_asset.status
  item,            \* ai_item.status of each picture
  chunk,           \* ai_compose_chunk, in order of seq
  drafts,          \* submissions the batch was turned into, once for each picture cited
  events,          \* ai.batch.created events not acknowledged
  sent,            \* how many were ever sent
  job,             \* the worker that holds the batch's lock
  expired,         \* expires_at has passed
  viewer           \* status that a running GET has read

recogVars == <<batch, asset, item, chunk, drafts, events, sent, job, expired, viewer>>

BatchStatuses == {"uploading", "queued", "processing", "review", "failed",
                  "complete", "canceled", "expired"}
BatchEnded == {"complete", "canceled", "expired"}
AssetStatuses == {"pending", "ready", "complete", "failed", "applied", "rejected"}
Steps == {"todo", "busy", "read", "unread", "done"}
NoJob == [at |-> "none", step |-> [a \in Pictures |-> "done"], plan |-> <<>>,
          n |-> 1, busy |-> FALSE, got |-> {}]

RecogTypeOK ==
  /\ batch \in [st : BatchStatuses, stop : BOOLEAN, result : SUBSET Pictures]
  /\ asset \in [Pictures -> AssetStatuses]
  /\ item \in [Pictures -> {"none", "processing", "complete", "failed"}]
  /\ \A i \in DOMAIN chunk :
       chunk[i] \in [of : Pictures, st : {"queued", "processing", "complete", "failed"}]
  /\ drafts \in [Pictures -> Nat]
  /\ events \in 0 .. MaxEvents /\ sent \in 0 .. MaxEvents
  /\ job.at \in {"none", "read", "compose", "finish"}
  /\ job.step \in [Pictures -> Steps]
  /\ expired \in BOOLEAN /\ viewer \in BatchStatuses \cup {"none"}

RecogInit ==
  /\ batch = [st |-> "uploading", stop |-> FALSE, result |-> {}]
  /\ asset = [a \in Pictures |-> "pending"] /\ item = [a \in Pictures |-> "none"]
  /\ chunk = <<>> /\ drafts = [a \in Pictures |-> 0]
  /\ events = 0 /\ sent = 0 /\ job = NoJob
  /\ expired = FALSE /\ viewer = "none"

-----------------------------------------------------------------------------
(* Requests of the student; each locks the batch's row *)

\* completeAIAsset: the object is there with the declared size and type, or is discarded
CompleteAsset(a, good) ==
  /\ batch.st = "uploading" /\ asset[a] = "pending"
  /\ asset' = [asset EXCEPT ![a] = IF good THEN "ready" ELSE "rejected"]
  /\ UNCHANGED <<batch, item, chunk, drafts, events, sent, job, expired, viewer>>

Used == {a \in Pictures : asset[a] # "rejected"}

Enqueue == sent < MaxEvents /\ sent' = sent + 1 /\ events' = events + 1

\* startAIBatch, the first time or after a failure
StartBatch ==
  /\ ~expired /\ Used # {}
  /\ \/ batch.st = "uploading" /\ \A a \in Used : asset[a] = "ready"
     \/ batch.st = "failed"
  /\ batch' = [batch EXCEPT !.st = "queued", !.stop = FALSE] /\ Enqueue
  /\ UNCHANGED <<asset, item, chunk, drafts, job, expired, viewer>>

\* recomposeAIBatch: something was not read or not grouped
Recompose ==
  /\ batch.st = "review" /\ ~expired
  /\ (\E a \in Pictures : item[a] = "failed") \/ \E i \in DOMAIN chunk : chunk[i].st # "complete"
  /\ batch' = [batch EXCEPT !.st = "queued", !.stop = FALSE] /\ Enqueue
  /\ UNCHANGED <<asset, item, chunk, drafts, job, expired, viewer>>

StopCompose ==
  /\ batch.st \in {"queued", "processing"} /\ ~batch.stop
  /\ batch' = [batch EXCEPT !.stop = TRUE]
  /\ UNCHANGED <<asset, item, chunk, drafts, events, sent, job, expired, viewer>>

\* A slip: only a batch that was deleted is refused.
UnlessDeleted == batch.st \in {"review", "complete"} /\ ~expired

Applicable == batch.st = "review" /\ ~expired

\* applyAIBatch, for the candidates the student keeps
ApplyBatch(kept) ==
  /\ Applicable /\ kept # {} /\ kept \subseteq batch.result
  /\ \A a \in kept : asset[a] \in {"complete", "applied"}
  /\ drafts' = [a \in Pictures |-> drafts[a] + IF a \in kept THEN 1 ELSE 0]
  /\ asset' = [a \in Pictures |-> IF a \in kept THEN "applied" ELSE asset[a]]
  /\ batch' = [batch EXCEPT !.st = "complete", !.result = kept]
  /\ UNCHANGED <<item, chunk, events, sent, job, expired, viewer>>

\* deleteAIBatch
DeleteBatch ==
  /\ batch.st \notin {"complete", "canceled"}
  /\ batch' = [batch EXCEPT !.st = "canceled"]
  /\ asset' = [a \in Pictures |-> IF asset[a] = "applied" THEN "applied" ELSE "rejected"]
  /\ item' = [a \in Pictures |-> IF item[a] = "processing" THEN "failed" ELSE item[a]]
  /\ UNCHANGED <<chunk, drafts, events, sent, job, expired, viewer>>

\* aiBatch reads the batch without a lock and, past its term, marks it by its id alone.
ViewRead ==
  /\ viewer = "none" /\ batch.st \in {"uploading", "review", "failed"}
  /\ viewer' = batch.st
  /\ UNCHANGED <<batch, asset, item, chunk, drafts, events, sent, job, expired>>

ViewWrite ==
  /\ viewer # "none" /\ viewer' = "none"
  /\ batch' = IF expired THEN [batch EXCEPT !.st = "expired"] ELSE batch
  /\ UNCHANGED <<asset, item, chunk, drafts, events, sent, job, expired>>

\* maintenance.go, and the passing of the term
TermPasses ==
  /\ ~expired /\ expired' = TRUE
  /\ UNCHANGED <<batch, asset, item, chunk, drafts, events, sent, job, viewer>>

Sweep ==
  /\ expired /\ batch.st \in {"uploading", "review", "failed", "canceled"}
  /\ batch' = [batch EXCEPT !.st = "expired"]
  /\ UNCHANGED <<asset, item, chunk, drafts, events, sent, job, expired, viewer>>

\* expireAIAssets: what was never adopted is removed
SweepAsset(a) ==
  /\ expired /\ batch.st = "expired" /\ asset[a] \notin {"applied", "rejected"}
  /\ asset' = [asset EXCEPT ![a] = "rejected"]
  /\ UNCHANGED <<batch, item, chunk, drafts, events, sent, job, expired, viewer>>

-----------------------------------------------------------------------------
(* The worker; a second delivery waits for the lock *)

Idle == job.at = "none"
Over == batch.st \in BatchEnded

\* The event is acknowledged, or left to be delivered again.
Acknowledge == job' = NoJob /\ events' = events - 1
GiveUp == job' = NoJob /\ UNCHANGED events

\* process: batches that wait, run or failed are taken
TakeBatch ==
  /\ Idle /\ events > 0
  /\ IF batch.st \in {"queued", "processing", "failed"}
       THEN /\ batch' = [batch EXCEPT !.st = "processing"]
            /\ job' = [NoJob EXCEPT !.at = "read",
                         !.step = [a \in Pictures |->
                           IF asset[a] \in {"ready", "complete", "failed"} THEN "todo" ELSE "done"]]
            /\ UNCHANGED events
       ELSE Acknowledge /\ UNCHANGED batch
  /\ UNCHANGED <<asset, item, chunk, drafts, sent, expired, viewer>>

Running == batch.st = "processing"

\* processItem: a material already read is used as it is; else its row is taken, unless
\* the batch was ended.
ReadItem(a) ==
  /\ job.at = "read" /\ job.step[a] = "todo"
  /\ \/ (Over \/ (~Running /\ item[a] # "complete")) /\ Acknowledge /\ UNCHANGED item
     \/ /\ ~Over /\ item[a] = "complete"
        /\ job' = [job EXCEPT !.step[a] = "read"] /\ UNCHANGED <<item, events>>
     \/ /\ Running /\ item[a] # "complete"
        /\ job' = [job EXCEPT !.step[a] = "busy"] /\ UNCHANGED events
        /\ item' = [item EXCEPT ![a] = "processing"]
  /\ UNCHANGED <<batch, asset, chunk, drafts, sent, expired, viewer>>

\* The picture cannot be fetched: markItemFailed writes over whatever the row held.
ReadObjectFails(a) ==
  /\ job.at = "read" /\ job.step[a] = "todo"
  /\ item' = [item EXCEPT ![a] = "failed"]
  /\ job' = [job EXCEPT !.step[a] = "unread"]
  /\ UNCHANGED <<batch, asset, chunk, drafts, events, sent, expired, viewer>>

\* The model answers, after the retries of retryCall.
FinishItem(a) ==
  /\ job.at = "read" /\ job.step[a] = "busy"
  /\ \/ /\ Running /\ item' = [item EXCEPT ![a] = "complete"]
        /\ job' = [job EXCEPT !.step[a] = "read"] /\ UNCHANGED events
     \/ ~Running /\ Acknowledge /\ UNCHANGED item
     \/ /\ item' = [item EXCEPT ![a] = "failed"]
        /\ job' = [job EXCEPT !.step[a] = "unread"] /\ UNCHANGED events
  /\ UNCHANGED <<batch, asset, chunk, drafts, sent, expired, viewer>>

\* processSource: the material's own status
AssetOutcome(step) == IF step = "read" THEN "complete" ELSE "failed"

SettleAsset(a) ==
  /\ job.at = "read" /\ job.step[a] \in {"read", "unread"}
  /\ asset' = IF Running /\ asset[a] \notin {"applied", "rejected"}
                THEN [asset EXCEPT ![a] = AssetOutcome(job.step[a])]
                ELSE asset
  /\ job' = [job EXCEPT !.step[a] = "done"]
  /\ UNCHANGED <<batch, item, chunk, drafts, events, sent, expired, viewer>>

\* sameRefs
SameInput(old, i, a) == i \in DOMAIN old /\ old[i].of = a

\* A slip: groups past the end of the plan are left.
KeepTail(old, seen) ==
  [i \in 1 .. (IF Len(old) > Len(seen) THEN Len(old) ELSE Len(seen)) |->
     IF i > Len(seen) \/ SameInput(old, i, seen[i]) THEN old[i]
     ELSE [of |-> seen[i], st |-> "queued"]]

\* planComposeChunks: groups with the same materials keep what they have.
Planned(old, seen) ==
  [i \in 1 .. Len(seen) |->
     IF SameInput(old, i, seen[i]) THEN old[i] ELSE [of |-> seen[i], st |-> "queued"]]

\* A slip: a failure is written whatever became of the batch.
FailAnyway == [batch EXCEPT !.st = "failed"]

\* failBatch
FailBatch == IF Over THEN batch ELSE [batch EXCEPT !.st = "failed"]

\* The members of S in the order of their ids
InOrder(S) == {s \in [1 .. Cardinality(S) -> S] : \A i, j \in DOMAIN s : i < j => s[i] < s[j]}

\* loadObservations and PlanChunks, once all materials are settled
PlanCompose ==
  /\ job.at = "read" /\ \A a \in Pictures : job.step[a] = "done"
  /\ \E seen \in InOrder({a \in Pictures : item[a] = "complete"}) :
        \/ Over /\ Acknowledge /\ UNCHANGED <<batch, chunk>>
        \/ /\ ~Over /\ seen = <<>>
           /\ batch' = FailBatch /\ (Acknowledge \/ GiveUp) /\ UNCHANGED chunk
        \/ /\ ~Over /\ seen # <<>>
           /\ chunk' = Planned(chunk, seen)
           /\ job' = [job EXCEPT !.at = "compose", !.plan = seen] /\ UNCHANGED <<batch, events>>
  /\ UNCHANGED <<asset, item, drafts, sent, expired, viewer>>

\* composeInChunks, one group: taken as stored, or begun unless stopped or ended
ComposeChunk ==
  /\ job.at = "compose" /\ job.n <= Len(job.plan) /\ ~job.busy
  /\ \/ /\ chunk[job.n].st = "complete"
        /\ job' = [job EXCEPT !.n = @ + 1, !.got = @ \cup {chunk[job.n].of}]
        /\ UNCHANGED <<chunk, events>>
     \/ chunk[job.n].st # "complete" /\ Over /\ Acknowledge /\ UNCHANGED chunk
     \/ /\ chunk[job.n].st # "complete" /\ ~Over
        /\ IF batch.stop THEN job' = [job EXCEPT !.at = "finish"] /\ UNCHANGED chunk
           ELSE /\ chunk' = [chunk EXCEPT ![job.n].st = "processing"]
                /\ job' = [job EXCEPT !.busy = TRUE]
        /\ UNCHANGED events
  /\ UNCHANGED <<batch, asset, item, drafts, sent, expired, viewer>>

\* finishComposeChunk: written at once, whatever became of the batch
FinishChunk(ok) ==
  /\ job.at = "compose" /\ job.busy
  /\ chunk' = [chunk EXCEPT ![job.n].st = IF ok THEN "complete" ELSE "failed"]
  /\ job' = [job EXCEPT !.n = @ + 1, !.busy = FALSE,
                         !.got = IF ok THEN @ \cup {chunk[job.n].of} ELSE @]
  /\ UNCHANGED <<batch, asset, item, drafts, events, sent, expired, viewer>>

\* The end of process: the result is written if the batch still runs.
FinishBatch ==
  /\ \/ job.at = "finish"
     \/ job.at = "compose" /\ job.n > Len(job.plan)
  /\ IF job.got = {} THEN batch' = FailBatch /\ (Acknowledge \/ GiveUp)
     ELSE /\ batch' = IF Running THEN [batch EXCEPT !.st = "review", !.result = job.got] ELSE batch
          /\ Acknowledge
  /\ UNCHANGED <<asset, item, chunk, drafts, sent, expired, viewer>>

\* The process dies or loses its database; the event is delivered again.
WorkerCrash ==
  /\ ~Idle /\ GiveUp
  /\ UNCHANGED <<batch, asset, item, chunk, drafts, sent, expired, viewer>>

RecogNext ==
  \/ \E a \in Pictures :
       \/ CompleteAsset(a, TRUE) \/ CompleteAsset(a, FALSE)
       \/ ReadItem(a) \/ ReadObjectFails(a) \/ FinishItem(a) \/ SettleAsset(a) \/ SweepAsset(a)
  \/ StartBatch \/ Recompose \/ StopCompose \/ DeleteBatch
  \/ \E kept \in SUBSET Pictures : ApplyBatch(kept)
  \/ ViewRead \/ ViewWrite \/ TermPasses \/ Sweep
  \/ TakeBatch \/ PlanCompose \/ ComposeChunk \/ FinishChunk(TRUE) \/ FinishChunk(FALSE)
  \/ FinishBatch \/ WorkerCrash

RecogSpec == RecogInit /\ [][RecogNext]_recogVars

-----------------------------------------------------------------------------
(* Properties *)

\* The candidates that the first n groups hold
Grouped(n) == {chunk[i].of : i \in {j \in 1 .. n : chunk[j].st = "complete"}}

\* applyAIBatch: however often a batch is repeated, delivered again or looked at past its
\* term, no material becomes a draft twice, and none before all of them were shown.
DraftedOnce ==
  /\ \A a \in Pictures : drafts[a] <= 1
  /\ (\E a \in Pictures : drafts[a] > 0) => Over

\* planComposeChunks, finishComposeChunk: what the student is shown is what the stored
\* groups hold, up to the group that a stop prevented, if there was a stop; and every
\* candidate rests on a material that has been read.
ShownIsStored ==
  batch.st = "review" =>
    /\ \E n \in 0 .. Len(chunk) :
         /\ batch.result = Grouped(n)
         /\ ~batch.stop => n = Len(chunk)
    /\ \A a \in batch.result : item[a] = "complete"

\* The comment in composeInChunks: a stop concerns only groups that have not run yet, those
\* that are grouped are handed to the student all the same.
StoppedKeepsGrouped == batch.st = "review" => batch.result = Grouped(Len(chunk))

\* batchCanceled and the guards of the worker's writes: a batch that was applied, deleted
\* or has expired never runs, fails or is shown again, whatever its worker still does.
EndedBatchStays == [][batch.st \in BatchEnded => batch'.st \in BatchEnded]_recogVars

\* Repeats, deliveries, expiry and application of a batch (ai_handlers.go, aijob/worker.go): every
\* picture becomes a draft at most once, and what is shown is what is stored.
RecognitionInv == RecogTypeOK /\ DraftedOnce /\ ShownIsStored
=============================================================================
