------------------------------ MODULE JobProofs ------------------------------
(***************************************************************************)
(* What workers do for a class: batches of pictures that a model reads      *)
(* (Recognition), questions to the assistant and what it proposes           *)
(* (Assistant), files of an export (Exports) and the documents of the       *)
(* knowledge base (Knowledge), for any number of each and of workers.       *)
(***************************************************************************)
EXTENDS Recognition, Assistant, Exports, Knowledge, FiniteSetTheorems, WellFoundedInduction, TLAPS

-----------------------------------------------------------------------------
(* Recognition: what the stored groups and the batch's lock guarantee       *)

BatchRow == [st : BatchStatuses, stop : BOOLEAN, result : SUBSET Pictures]
ChunkRow == [of : Pictures, st : {"queued", "processing", "complete", "failed"}]
JobRow == [at : {"none", "read", "compose", "finish"}, step : [Pictures -> Steps],
           plan : Seq(Pictures), n : Nat, busy : BOOLEAN, got : SUBSET Pictures]

RecogTyped ==
  /\ batch \in BatchRow
  /\ asset \in [Pictures -> AssetStatuses]
  /\ item \in [Pictures -> {"none", "processing", "complete", "failed"}]
  /\ chunk \in Seq(ChunkRow)
  /\ drafts \in [Pictures -> Nat]
  /\ events \in Nat /\ sent \in Nat /\ events <= sent /\ sent <= MaxEvents
  /\ job \in JobRow
  /\ expired \in BOOLEAN /\ viewer \in BatchStatuses \cup {"none"}

\* A running job has its event, and nobody but its worker decides what becomes of the batch,
\* unless it ends.
JobAlone == job.at # "none" => events >= 1 /\ batch.st \in {"processing", "canceled", "expired"}

\* What a job has to show, while it composes, is what the groups behind it hold.
JobFollows ==
  /\ job.at = "read" => job.n = 1 /\ job.got = {}
  /\ job.at \in {"compose", "finish"} =>
       /\ Len(chunk) = Len(job.plan)
       /\ \A i \in 1 .. Len(chunk) : item[chunk[i].of] = "complete"
       /\ job.n \in 1 .. Len(chunk) + 1
       /\ job.got = Grouped(job.n - 1)
  /\ job.busy => job.at = "compose" /\ job.n <= Len(chunk)
  /\ job.at = "finish" => batch.stop

RecogSound == RecogTyped /\ JobAlone /\ JobFollows /\ DraftedOnce /\ ShownIsStored

LEMMA RecogTypes == ASSUME RecogTyped PROVE RecogTypeOK
<1>1. \A i \in DOMAIN chunk : chunk[i] \in ChunkRow
  BY DEF RecogTyped
<1>2. events \in 0 .. MaxEvents /\ sent \in 0 .. MaxEvents
  BY RecognitionAssumption DEF RecogTyped
<1> QED
  BY <1>1, <1>2 DEF RecogTyped, RecogTypeOK, BatchRow, ChunkRow, JobRow

LEMMA RecogStarts == RecogInit => RecogSound
<1> SUFFICES ASSUME RecogInit PROVE RecogSound
  OBVIOUS
<1>1. job \in JobRow /\ job.at = "none" /\ job.busy = FALSE
  <2>1. <<>> \in Seq(Pictures) /\ {} \in SUBSET Pictures /\ 1 \in Nat /\ FALSE \in BOOLEAN
    OBVIOUS
  <2>2. [a \in Pictures |-> "done"] \in [Pictures -> Steps]
    BY DEF Steps
  <2> QED
    BY <2>1, <2>2 DEF RecogInit, NoJob, JobRow
<1>2. chunk \in Seq(ChunkRow) /\ batch \in BatchRow /\ batch.st = "uploading"
  BY DEF RecogInit, BatchRow, BatchStatuses
<1>a. /\ asset \in [Pictures -> AssetStatuses] /\ drafts \in [Pictures -> Nat]
      /\ item \in [Pictures -> {"none", "processing", "complete", "failed"}]
  BY DEF RecogInit, AssetStatuses
<1>b. events \in Nat /\ sent \in Nat /\ events <= sent /\ sent <= MaxEvents
  BY RecognitionAssumption DEF RecogInit
<1>3. RecogTyped
  BY <1>1, <1>2, <1>a, <1>b DEF RecogInit, RecogTyped
<1>4. JobAlone /\ JobFollows
  BY <1>1 DEF JobAlone, JobFollows
<1>5. DraftedOnce /\ ShownIsStored
  BY <1>2 DEF RecogInit, DraftedOnce, ShownIsStored
<1> QED
  BY <1>3, <1>4, <1>5 DEF RecogSound

\* Nothing but the batch's row is written, and it keeps what it has to show.
LEMMA BatchMoves ==
  ASSUME RecogSound, batch' \in BatchRow,
         UNCHANGED <<item, chunk, drafts, job>>,
         asset' \in [Pictures -> AssetStatuses],
         events' \in Nat, sent' \in Nat, events <= events', events' <= sent', sent' <= MaxEvents,
         expired' \in BOOLEAN, viewer' \in BatchStatuses \cup {"none"},
         batch'.st # "review" \/ UNCHANGED batch,
         job.at # "none" => batch'.st \in {"processing", "canceled", "expired"},
         batch.stop => batch'.stop \/ job.at = "none",
         batch.st \in BatchEnded => batch'.st \in BatchEnded
  PROVE  RecogSound'
<1>1. RecogTyped'
  BY DEF RecogSound, RecogTyped
<1>2. JobAlone'
  BY DEF RecogSound, RecogTyped, JobAlone
<1>3. JobFollows'
  BY DEF RecogSound, JobFollows, Grouped
<1>4. DraftedOnce'
  BY DEF RecogSound, DraftedOnce, Over
<1>5. ShownIsStored'
  BY DEF RecogSound, ShownIsStored, Grouped
<1> QED
  BY <1>1, <1>2, <1>3, <1>4, <1>5 DEF RecogSound

\* Requests of the student, the passing of the term, and the sweeps
LEMMA RequestKeeps ==
  ASSUME RecogSound,
         \/ \E a \in Pictures : CompleteAsset(a, TRUE) \/ CompleteAsset(a, FALSE) \/ SweepAsset(a)
         \/ StartBatch \/ Recompose \/ StopCompose
         \/ ViewRead \/ ViewWrite \/ TermPasses \/ Sweep
  PROVE  RecogSound'
<1>t. /\ batch \in BatchRow /\ asset \in [Pictures -> AssetStatuses]
      /\ events \in Nat /\ sent \in Nat /\ events <= sent /\ sent <= MaxEvents /\ MaxEvents \in Nat
      /\ expired \in BOOLEAN /\ viewer \in BatchStatuses \cup {"none"}
      /\ job.at # "none" => batch.st \in {"processing", "canceled", "expired"}
  BY RecognitionAssumption DEF RecogSound, RecogTyped, JobAlone
<1>s. /\ batch.st \in BatchStatuses /\ batch.stop \in BOOLEAN /\ batch.result \in SUBSET Pictures
      /\ \A s \in BatchStatuses, b \in BOOLEAN :
           LET q == [batch EXCEPT !.st = s, !.stop = b]
           IN q \in BatchRow /\ q.st = s /\ q.stop = b
      /\ \A s \in BatchStatuses :
           LET q == [batch EXCEPT !.st = s]
           IN q \in BatchRow /\ q.st = s /\ q.stop = batch.stop
      /\ \A b \in BOOLEAN :
           LET q == [batch EXCEPT !.stop = b]
           IN q \in BatchRow /\ q.st = batch.st /\ q.stop = b
  BY <1>t DEF BatchRow
<1>1. ASSUME NEW a \in Pictures, CompleteAsset(a, TRUE) \/ CompleteAsset(a, FALSE) \/ SweepAsset(a)
      PROVE  RecogSound'
  <2>1. asset' \in [Pictures -> AssetStatuses]
    BY <1>1, <1>t DEF CompleteAsset, SweepAsset, AssetStatuses
  <2>2. UNCHANGED <<batch, item, chunk, drafts, events, sent, job, expired, viewer>>
    BY <1>1 DEF CompleteAsset, SweepAsset
  <2> QED
    BY <1>t, <2>1, <2>2, BatchMoves
<1>2. ASSUME StartBatch \/ Recompose PROVE RecogSound'
  <2>1. /\ batch' = [batch EXCEPT !.st = "queued", !.stop = FALSE] /\ job.at = "none"
        /\ batch.st \notin BatchEnded
    BY <1>2, <1>t DEF StartBatch, Recompose, BatchEnded
  <2>2. batch' \in BatchRow /\ batch'.st = "queued"
    BY <2>1, <1>s DEF BatchStatuses
  <2>3. events' = events + 1 /\ sent' = sent + 1 /\ sent < MaxEvents
    BY <1>2 DEF StartBatch, Recompose, Enqueue
  <2>4. UNCHANGED <<asset, item, chunk, drafts, job, expired, viewer>>
    BY <1>2 DEF StartBatch, Recompose
  <2>5. events' \in Nat /\ sent' \in Nat /\ events <= events' /\ events' <= sent' /\ sent' <= MaxEvents
    BY <2>3, <1>t
  <2> QED
    BY <1>t, <2>1, <2>2, <2>4, <2>5, BatchMoves
<1>3. ASSUME StopCompose PROVE RecogSound'
  <2>1. batch' = [batch EXCEPT !.stop = TRUE] /\ batch.st \in {"queued", "processing"}
    BY <1>3 DEF StopCompose
  <2>2. batch' \in BatchRow /\ batch'.st = batch.st /\ batch'.stop = TRUE
    BY <2>1, <1>s
  <2>3. UNCHANGED <<asset, item, chunk, drafts, events, sent, job, expired, viewer>>
    BY <1>3 DEF StopCompose
  <2> QED
    BY <1>t, <2>1, <2>2, <2>3, BatchMoves
<1>4. ASSUME ViewWrite \/ Sweep PROVE RecogSound'
  <2>1. \/ batch' = batch
        \/ batch' = [batch EXCEPT !.st = "expired"]
    BY <1>4 DEF ViewWrite, Sweep
  <2>2. \/ batch' = batch
        \/ batch' \in BatchRow /\ batch'.st = "expired" /\ batch'.stop = batch.stop
    BY <2>1, <1>s DEF BatchStatuses
  <2>3. UNCHANGED <<asset, item, chunk, drafts, events, sent, job, expired>>
    BY <1>4 DEF ViewWrite, Sweep
  <2>4. viewer' \in BatchStatuses \cup {"none"}
    BY <1>4, <1>t DEF ViewWrite, Sweep
  <2> QED
    BY <1>t, <2>2, <2>3, <2>4, BatchMoves DEF BatchEnded
<1>5. ASSUME ViewRead \/ TermPasses PROVE RecogSound'
  <2>1. UNCHANGED <<batch, asset, item, chunk, drafts, events, sent, job>>
    BY <1>5 DEF ViewRead, TermPasses
  <2>2. viewer' \in BatchStatuses \cup {"none"} /\ expired' \in BOOLEAN
    BY <1>5, <1>t, <1>s DEF ViewRead, TermPasses
  <2> QED
    BY <1>t, <2>1, <2>2, BatchMoves
<1> QED
  BY <1>1, <1>2, <1>3, <1>4, <1>5

LEMMA ApplyKeeps ==
  ASSUME RecogSound, NEW kept \in SUBSET Pictures, ApplyBatch(kept)
  PROVE  RecogSound'
<1>t. batch \in BatchRow /\ asset \in [Pictures -> AssetStatuses] /\ drafts \in [Pictures -> Nat]
  BY DEF RecogSound, RecogTyped
<1>1. /\ batch.st = "review" /\ batch' = [batch EXCEPT !.st = "complete", !.result = kept]
      /\ UNCHANGED <<item, chunk, events, sent, job, expired, viewer>>
  BY DEF ApplyBatch, Applicable
<1>2. batch' \in BatchRow /\ batch'.st = "complete"
  BY <1>1, <1>t DEF BatchRow, BatchStatuses
<1>3. asset' \in [Pictures -> AssetStatuses]
  BY <1>t DEF ApplyBatch, AssetStatuses
<1>4. \A a \in Pictures : drafts[a] = 0
  BY <1>1, <1>t DEF RecogSound, DraftedOnce, Over, BatchEnded
<1>5. drafts' \in [Pictures -> Nat] /\ \A a \in Pictures : drafts'[a] <= 1
  <2>1. drafts' = [a \in Pictures |-> drafts[a] + IF a \in kept THEN 1 ELSE 0]
    BY DEF ApplyBatch
  <2> QED
    BY <2>1, <1>4
<1>6. job.at = "none"
  BY <1>1 DEF RecogSound, JobAlone
<1>7. RecogTyped'
  BY <1>1, <1>2, <1>3, <1>5 DEF RecogSound, RecogTyped
<1>8. JobAlone' /\ JobFollows'
  BY <1>1, <1>6 DEF RecogSound, JobAlone, JobFollows
<1>9. DraftedOnce' /\ ShownIsStored'
  BY <1>2, <1>5 DEF DraftedOnce, ShownIsStored, Over, BatchEnded
<1> QED
  BY <1>7, <1>8, <1>9 DEF RecogSound

LEMMA DeleteKeeps == ASSUME RecogSound, DeleteBatch PROVE RecogSound'
<1>t. /\ batch \in BatchRow /\ asset \in [Pictures -> AssetStatuses]
      /\ item \in [Pictures -> {"none", "processing", "complete", "failed"}]
      /\ chunk \in Seq(ChunkRow)
  BY DEF RecogSound, RecogTyped
<1>1. /\ batch.st \notin {"complete", "canceled"} /\ batch' = [batch EXCEPT !.st = "canceled"]
      /\ UNCHANGED <<chunk, drafts, events, sent, job, expired, viewer>>
  BY DEF DeleteBatch
<1>2. batch' \in BatchRow /\ batch'.st = "canceled" /\ batch'.stop = batch.stop
  BY <1>1, <1>t DEF BatchRow, BatchStatuses
<1>3. asset' \in [Pictures -> AssetStatuses]
  BY <1>t DEF DeleteBatch, AssetStatuses
<1>4. /\ item' \in [Pictures -> {"none", "processing", "complete", "failed"}]
      /\ \A a \in Pictures : item[a] = "complete" => item'[a] = "complete"
  BY <1>t DEF DeleteBatch
<1>5. RecogTyped'
  BY <1>1, <1>2, <1>3, <1>4 DEF RecogSound, RecogTyped
<1>6. JobAlone'
  BY <1>1, <1>2 DEF RecogSound, JobAlone
<1>7. JobFollows'
  <2>0. \A i \in 1 .. Len(chunk) : chunk[i] \in ChunkRow
    BY <1>t
  <2>1. \A i \in 1 .. Len(chunk) : chunk[i].of \in Pictures
    BY <2>0 DEF ChunkRow
  <2> QED
    BY <1>1, <1>2, <1>4, <2>1 DEF RecogSound, JobFollows, Grouped
<1>8. DraftedOnce' /\ ShownIsStored'
  BY <1>1, <1>2 DEF RecogSound, DraftedOnce, ShownIsStored, Over, BatchEnded
<1> QED
  BY <1>5, <1>6, <1>7, <1>8 DEF RecogSound

\* Whoever lets the job go, the batch is left as the job leaves it.
LEMMA JobEnds ==
  ASSUME RecogSound, job.at # "none", Acknowledge \/ GiveUp,
         batch' \in BatchRow, batch.st \in BatchEnded => batch'.st \in BatchEnded,
         UNCHANGED <<asset, item, chunk, drafts, sent, expired, viewer>>,
         ShownIsStored'
  PROVE  RecogSound'
<1>1. job' \in JobRow /\ job'.at = "none" /\ job'.busy = FALSE
  <2>1. <<>> \in Seq(Pictures) /\ {} \in SUBSET Pictures /\ 1 \in Nat /\ FALSE \in BOOLEAN
    OBVIOUS
  <2>2. [a \in Pictures |-> "done"] \in [Pictures -> Steps]
    BY DEF Steps
  <2>3. job' = NoJob
    BY DEF Acknowledge, GiveUp
  <2> QED
    BY <2>1, <2>2, <2>3 DEF NoJob, JobRow
<1>2. events' \in Nat /\ events' <= sent
  BY DEF RecogSound, RecogTyped, JobAlone, Acknowledge, GiveUp
<1>3. RecogTyped'
  BY <1>1, <1>2 DEF RecogSound, RecogTyped
<1>4. JobAlone' /\ JobFollows'
  BY <1>1 DEF JobAlone, JobFollows
<1>5. DraftedOnce'
  BY DEF RecogSound, DraftedOnce, Over
<1> QED
  BY <1>3, <1>4, <1>5 DEF RecogSound

\* While the materials are read, nothing has been composed.
LEMMA JobReads ==
  ASSUME RecogSound, job' \in JobRow,
         job'.at = "read", job'.busy = FALSE, job'.n = 1, job'.got = {},
         job.at # "none" \/ (batch'.st = "processing" /\ events > 0),
         batch' = batch \/ (job.at = "none" /\ batch.st \notin BatchEnded),
         batch' \in BatchRow,
         asset' \in [Pictures -> AssetStatuses],
         item' \in [Pictures -> {"none", "processing", "complete", "failed"}],
         UNCHANGED <<chunk, drafts, events, sent, expired, viewer>>
  PROVE  RecogSound'
<1>1. RecogTyped'
  BY DEF RecogSound, RecogTyped
<1>2. JobAlone'
  BY DEF RecogSound, RecogTyped, JobAlone
<1>3. JobFollows'
  BY DEF JobFollows
<1>4. DraftedOnce'
  BY DEF RecogSound, DraftedOnce, Over
<1>5. ShownIsStored'
  BY <1>2 DEF ShownIsStored, JobAlone
<1> QED
  BY <1>1, <1>2, <1>3, <1>4, <1>5 DEF RecogSound

LEMMA ReadingKeeps ==
  ASSUME RecogSound,
         \/ \E a \in Pictures : ReadItem(a) \/ ReadObjectFails(a) \/ FinishItem(a) \/ SettleAsset(a)
         \/ TakeBatch \/ WorkerCrash
  PROVE  RecogSound'
<1>t. /\ batch \in BatchRow /\ asset \in [Pictures -> AssetStatuses] /\ job \in JobRow
      /\ item \in [Pictures -> {"none", "processing", "complete", "failed"}]
      /\ events \in Nat
  BY DEF RecogSound, RecogTyped
<1>b. job.busy => job.at = "compose"
  BY DEF RecogSound, JobFollows
<1>f. job.at = "read" => job.n = 1 /\ job.got = {}
  BY DEF RecogSound, JobFollows
<1>n. job.at # "none" /\ UNCHANGED batch => ShownIsStored'
  BY DEF RecogSound, JobAlone, ShownIsStored
<1>s. ASSUME job.at = "read", NEW a \in Pictures, NEW s \in Steps
      PROVE  LET j == [job EXCEPT !.step[a] = s]
             IN j \in JobRow /\ j.at = "read" /\ j.busy = FALSE /\ j.n = 1 /\ j.got = {}
  <2> DEFINE steps == [job.step EXCEPT ![a] = s]
  <2>1. steps \in [Pictures -> Steps]
    BY <1>s, <1>t DEF JobRow
  <2>2. [job EXCEPT !.step[a] = s] = [job EXCEPT !.step = steps]
    OBVIOUS
  <2>3. job.busy = FALSE
    <3>1. job.busy \in BOOLEAN
      BY <1>t DEF JobRow
    <3>2. ~job.busy
      BY <1>s, <1>b
    <3> QED
      BY <3>1, <3>2
  <2> HIDE DEF steps
  <2>4. LET j == [job EXCEPT !.step = steps]
        IN j \in JobRow /\ j.at = "read" /\ j.busy = FALSE /\ j.n = 1 /\ j.got = {}
    BY <1>s, <1>t, <1>f, <2>1, <2>3 DEF JobRow
  <2> QED
    BY <2>2, <2>4
<1>1. ASSUME NEW a \in Pictures, ReadItem(a) PROVE RecogSound'
  <2>1. /\ job.at = "read"
        /\ \/ Acknowledge /\ UNCHANGED item
           \/ job' = [job EXCEPT !.step[a] = "read"] /\ UNCHANGED <<item, events>>
           \/ /\ job' = [job EXCEPT !.step[a] = "busy"] /\ UNCHANGED events
              /\ item' = [item EXCEPT ![a] = "processing"]
        /\ UNCHANGED <<batch, asset, chunk, drafts, sent, expired, viewer>>
    BY <1>1 DEF ReadItem
  <2>2. CASE Acknowledge /\ UNCHANGED item
    BY <2>1, <2>2, <1>t, <1>n, JobEnds
  <2>3. CASE ~(Acknowledge /\ UNCHANGED item)
    <3>1. /\ job' \in JobRow /\ job'.at = "read" /\ job'.busy = FALSE /\ UNCHANGED events
          /\ job'.n = 1 /\ job'.got = {}
      BY <2>1, <2>3, <1>s DEF Steps
    <3>2. item' \in [Pictures -> {"none", "processing", "complete", "failed"}]
      BY <2>1, <2>3, <1>t
    <3> QED
      BY <2>1, <3>1, <3>2, <1>t, JobReads
  <2> QED
    BY <2>2, <2>3
<1>2. ASSUME NEW a \in Pictures, ReadObjectFails(a) PROVE RecogSound'
  <2>1. /\ job.at = "read" /\ job' = [job EXCEPT !.step[a] = "unread"]
        /\ item' = [item EXCEPT ![a] = "failed"]
        /\ UNCHANGED <<batch, asset, chunk, drafts, events, sent, expired, viewer>>
    BY <1>2 DEF ReadObjectFails
  <2>2. job' \in JobRow /\ job'.at = "read" /\ job'.busy = FALSE /\ job'.n = 1 /\ job'.got = {}
    BY <2>1, <1>s DEF Steps
  <2>3. item' \in [Pictures -> {"none", "processing", "complete", "failed"}]
    BY <2>1, <1>t
  <2> QED
    BY <2>1, <2>2, <2>3, <1>t, JobReads
<1>3. ASSUME NEW a \in Pictures, FinishItem(a) PROVE RecogSound'
  <2>1. /\ job.at = "read"
        /\ \/ Acknowledge /\ UNCHANGED item
           \/ /\ \/ job' = [job EXCEPT !.step[a] = "read"] /\ item' = [item EXCEPT ![a] = "complete"]
                 \/ job' = [job EXCEPT !.step[a] = "unread"] /\ item' = [item EXCEPT ![a] = "failed"]
              /\ UNCHANGED events
        /\ UNCHANGED <<batch, asset, chunk, drafts, sent, expired, viewer>>
    BY <1>3 DEF FinishItem
  <2>2. CASE Acknowledge /\ UNCHANGED item
    BY <2>1, <2>2, <1>t, <1>n, JobEnds
  <2>3. CASE ~(Acknowledge /\ UNCHANGED item)
    <3>1. /\ job' \in JobRow /\ job'.at = "read" /\ job'.busy = FALSE /\ UNCHANGED events
          /\ job'.n = 1 /\ job'.got = {}
      BY <2>1, <2>3, <1>s DEF Steps
    <3>2. item' \in [Pictures -> {"none", "processing", "complete", "failed"}]
      BY <2>1, <2>3, <1>t
    <3> QED
      BY <2>1, <3>1, <3>2, <1>t, JobReads
  <2> QED
    BY <2>2, <2>3
<1>4. ASSUME NEW a \in Pictures, SettleAsset(a) PROVE RecogSound'
  <2>1. /\ job.at = "read" /\ job' = [job EXCEPT !.step[a] = "done"]
        /\ UNCHANGED <<batch, item, chunk, drafts, events, sent, expired, viewer>>
    BY <1>4 DEF SettleAsset
  <2>2. job' \in JobRow /\ job'.at = "read" /\ job'.busy = FALSE /\ job'.n = 1 /\ job'.got = {}
    BY <2>1, <1>s DEF Steps
  <2>3. asset' \in [Pictures -> AssetStatuses]
    BY <1>4, <1>t DEF SettleAsset, AssetOutcome, AssetStatuses
  <2> QED
    BY <2>1, <2>2, <2>3, <1>t, JobReads
<1>5. ASSUME TakeBatch PROVE RecogSound'
  <2>1. job.at = "none" /\ events > 0 /\ UNCHANGED <<asset, item, chunk, drafts, sent, expired, viewer>>
    BY <1>5 DEF TakeBatch, Idle
  <2>2. CASE batch.st \in {"queued", "processing", "failed"}
    <3> DEFINE steps == [a \in Pictures |->
                           IF asset[a] \in {"ready", "complete", "failed"} THEN "todo" ELSE "done"]
    <3>1. /\ batch' = [batch EXCEPT !.st = "processing"] /\ UNCHANGED events
          /\ job' = [NoJob EXCEPT !.at = "read", !.step = steps]
      BY <1>5, <2>2 DEF TakeBatch
    <3>2. batch' \in BatchRow /\ batch'.st = "processing" /\ batch.st \notin BatchEnded
      BY <3>1, <2>2, <1>t DEF BatchRow, BatchStatuses, BatchEnded
    <3>3. steps \in [Pictures -> Steps]
      BY DEF Steps
    <3>4. <<>> \in Seq(Pictures) /\ {} \in SUBSET Pictures /\ 1 \in Nat /\ FALSE \in BOOLEAN
      OBVIOUS
    <3> HIDE DEF steps
    <3>5. job' \in JobRow /\ job'.at = "read" /\ job'.busy = FALSE /\ job'.n = 1 /\ job'.got = {}
      BY <3>1, <3>3, <3>4 DEF NoJob, JobRow
    <3> QED
      BY <2>1, <3>1, <3>2, <3>5, <1>t, JobReads
  <2>3. CASE batch.st \notin {"queued", "processing", "failed"}
    <3>1. events' = events - 1 /\ UNCHANGED batch /\ job' = NoJob
      BY <1>5, <2>3 DEF TakeBatch, Acknowledge
    <3>2. job' \in JobRow /\ job'.at = "none" /\ job'.busy = FALSE
      <4>1. <<>> \in Seq(Pictures) /\ {} \in SUBSET Pictures /\ 1 \in Nat /\ FALSE \in BOOLEAN
        OBVIOUS
      <4>2. [a \in Pictures |-> "done"] \in [Pictures -> Steps]
        BY DEF Steps
      <4> QED
        BY <4>1, <4>2, <3>1 DEF NoJob, JobRow
    <3>3. RecogTyped'
      BY <2>1, <3>1, <3>2 DEF RecogSound, RecogTyped
    <3>4. JobAlone' /\ JobFollows'
      BY <3>2 DEF JobAlone, JobFollows
    <3>5. DraftedOnce' /\ ShownIsStored'
      BY <2>1, <3>1 DEF RecogSound, DraftedOnce, ShownIsStored, Over, Grouped
    <3> QED
      BY <3>3, <3>4, <3>5 DEF RecogSound
  <2> QED
    BY <2>2, <2>3
<1>6. ASSUME WorkerCrash PROVE RecogSound'
  <2>1. /\ job.at # "none" /\ GiveUp
        /\ UNCHANGED <<batch, asset, item, chunk, drafts, sent, expired, viewer>>
    BY <1>6 DEF WorkerCrash, Idle
  <2> QED
    BY <2>1, <1>t, <1>n, JobEnds
<1> QED
  BY <1>1, <1>2, <1>3, <1>4, <1>5, <1>6

LEMMA Ordered ==
  ASSUME NEW S \in SUBSET Pictures, NEW seen \in InOrder(S)
  PROVE  seen \in Seq(Pictures) /\ \A i \in 1 .. Len(seen) : seen[i] \in S
<1>1. Cardinality(S) \in Nat
  BY RecognitionAssumption, FS_Subset, FS_CardinalityType
<1>2. seen \in [1 .. Cardinality(S) -> S]
  BY DEF InOrder
<1>3. seen \in [1 .. Cardinality(S) -> Pictures]
  BY <1>2
<1>4. seen \in Seq(Pictures) /\ Len(seen) = Cardinality(S)
  BY <1>1, <1>3
<1> QED
  BY <1>2, <1>4

\* The plan keeps of the stored groups those that rest on the same material.
LEMMA PlanKeeps == ASSUME RecogSound, PlanCompose PROVE RecogSound'
<1> DEFINE S == {a \in Pictures : item[a] = "complete"}
<1>t. /\ batch \in BatchRow /\ job \in JobRow /\ chunk \in Seq(ChunkRow)
      /\ job.at # "none" => batch.st \in {"processing", "canceled", "expired"}
      /\ job.busy => job.at = "compose"
  BY DEF RecogSound, RecogTyped, JobFollows, JobAlone
<1>1. /\ job.at = "read"
      /\ UNCHANGED <<asset, item, drafts, sent, expired, viewer>>
  BY DEF PlanCompose
<1>2. PICK seen \in InOrder(S) :
        \/ Over /\ Acknowledge /\ UNCHANGED <<batch, chunk>>
        \/ ~Over /\ batch' = FailBatch /\ (Acknowledge \/ GiveUp) /\ UNCHANGED chunk
        \/ /\ ~Over /\ chunk' = Planned(chunk, seen)
           /\ job' = [job EXCEPT !.at = "compose", !.plan = seen] /\ UNCHANGED <<batch, events>>
  BY DEF PlanCompose
<1>3. CASE Over /\ Acknowledge /\ UNCHANGED <<batch, chunk>>
  <2>1. ShownIsStored'
    BY <1>1, <1>3, <1>t DEF ShownIsStored
  <2> QED
    BY <1>1, <1>3, <1>t, <2>1, JobEnds
<1>4. CASE ~Over /\ batch' = FailBatch /\ (Acknowledge \/ GiveUp) /\ UNCHANGED chunk
  <2>1. batch' \in BatchRow /\ batch'.st = "failed" /\ batch.st \notin BatchEnded
    BY <1>4, <1>t DEF FailBatch, Over, BatchRow, BatchStatuses
  <2>2. ShownIsStored'
    BY <2>1 DEF ShownIsStored
  <2> QED
    BY <1>1, <1>4, <2>1, <2>2, JobEnds
<1>5. CASE /\ ~Over /\ chunk' = Planned(chunk, seen)
           /\ job' = [job EXCEPT !.at = "compose", !.plan = seen] /\ UNCHANGED <<batch, events>>
  <2>1. /\ seen \in Seq(Pictures) /\ Len(seen) \in Nat
        /\ \A i \in 1 .. Len(seen) : seen[i] \in Pictures /\ item[seen[i]] = "complete"
    BY Ordered
  <2>2. /\ job' \in JobRow /\ job'.at = "compose" /\ job'.plan = seen
        /\ job'.n = job.n /\ job'.busy = job.busy /\ job'.got = job.got
    BY <1>5, <1>t, <2>1 DEF JobRow
  <2>3. \A i \in 1 .. Len(seen) :
          Planned(chunk, seen)[i] \in ChunkRow /\ Planned(chunk, seen)[i].of = seen[i]
    <3>1. SUFFICES ASSUME NEW i \in 1 .. Len(seen)
                   PROVE  /\ Planned(chunk, seen)[i] \in ChunkRow
                          /\ Planned(chunk, seen)[i].of = seen[i]
      OBVIOUS
    <3>2. Planned(chunk, seen)[i] = IF SameInput(chunk, i, seen[i]) THEN chunk[i]
                                    ELSE [of |-> seen[i], st |-> "queued"]
      BY DEF Planned
    <3>3. CASE SameInput(chunk, i, seen[i])
      BY <3>2, <3>3, <1>t DEF SameInput
    <3>4. CASE ~SameInput(chunk, i, seen[i])
      BY <3>2, <3>4, <2>1 DEF ChunkRow
    <3> QED
      BY <3>3, <3>4
  <2>4. chunk' \in Seq(ChunkRow) /\ Len(chunk') = Len(seen)
        /\ \A i \in 1 .. Len(seen) : chunk'[i].of = seen[i]
    <3>1. Planned(chunk, seen) \in [1 .. Len(seen) -> ChunkRow]
      BY <2>3 DEF Planned
    <3> QED
      BY <1>5, <2>1, <2>3, <3>1
  <2>5. job.n = 1 /\ job.got = {} /\ job'.busy = FALSE
    <3>1. job.n = 1 /\ job.got = {} /\ (job.busy => job.at = "compose")
      BY <1>1 DEF RecogSound, JobFollows
    <3>2. job.busy \in BOOLEAN
      BY <1>t DEF JobRow
    <3>3. ~job.busy
      BY <1>1, <3>1
    <3> QED
      BY <2>2, <3>1, <3>2, <3>3
  <2>6. RecogTyped'
    BY <1>1, <1>5, <2>2, <2>4 DEF RecogSound, RecogTyped
  <2>7. JobAlone'
    BY <1>1, <1>5 DEF RecogSound, JobAlone
  <2>8. JobFollows'
    <3>2. \A i \in 1 .. Len(chunk') : item'[chunk'[i].of] = "complete"
      BY <1>1, <2>1, <2>4
    <3>3. job'.n = 1 /\ (job.got = Grouped(job.n - 1))'
      BY <2>2, <2>5 DEF Grouped
    <3> QED
      BY <2>1, <2>2, <2>4, <2>5, <3>2, <3>3 DEF JobFollows
  <2>9. DraftedOnce' /\ ShownIsStored'
    BY <1>1, <1>5, <1>t DEF RecogSound, DraftedOnce, ShownIsStored, Over
  <2> QED
    BY <2>6, <2>7, <2>8, <2>9 DEF RecogSound
<1> QED
  BY <1>2, <1>3, <1>4, <1>5

LEMMA StoredRows ==
  ASSUME RecogTyped
  PROVE  /\ Len(chunk) \in Nat
         /\ \A i \in 1 .. Len(chunk) :
              /\ chunk[i] \in ChunkRow
              /\ chunk[i].of \in Pictures
              /\ chunk[i].st \in {"queued", "processing", "complete", "failed"}
<1>1. chunk \in Seq(ChunkRow)
  BY DEF RecogTyped
<1>2. Len(chunk) \in Nat /\ \A i \in 1 .. Len(chunk) : chunk[i] \in ChunkRow
  BY <1>1
<1> QED
  BY <1>2 DEF ChunkRow

\* One more group behind the job adds its candidate if it is complete.
LEMMA GroupedNext ==
  ASSUME RecogTyped, NEW n \in 1 .. Len(chunk)
  PROVE  /\ chunk[n].st = "complete" => Grouped(n) = Grouped(n - 1) \cup {chunk[n].of}
         /\ chunk[n].st # "complete" => Grouped(n) = Grouped(n - 1)
<1>1. Len(chunk) \in Nat
  BY StoredRows
<1>2. 1 .. n = (1 .. (n - 1)) \cup {n}
  BY <1>1
<1> QED
  BY <1>2 DEF Grouped

\* The groups are written by one job at a time, each when the model has answered for it.
LEMMA ComposeKeeps ==
  ASSUME RecogSound, ComposeChunk
  PROVE  RecogSound'
<1>t. /\ batch \in BatchRow /\ job \in JobRow /\ chunk \in Seq(ChunkRow) /\ RecogTyped
  BY DEF RecogSound, RecogTyped
<1>1. /\ job.at = "compose" /\ job.n <= Len(job.plan) /\ ~job.busy
      /\ UNCHANGED <<batch, asset, item, drafts, sent, expired, viewer>>
  BY DEF ComposeChunk
<1>2. /\ Len(chunk) = Len(job.plan) /\ job.n \in 1 .. Len(chunk) /\ job.got = Grouped(job.n - 1)
      /\ \A i \in 1 .. Len(chunk) : item[chunk[i].of] = "complete"
  BY <1>1, StoredRows, <1>t DEF RecogSound, JobFollows
<1>3. /\ chunk[job.n] \in ChunkRow /\ chunk[job.n].of \in Pictures
      /\ chunk[job.n].st \in {"queued", "processing", "complete", "failed"}
  BY <1>2, <1>t, StoredRows
<1>4. batch.st \in {"processing", "canceled", "expired"} /\ events >= 1
  BY <1>1 DEF RecogSound, JobAlone
<1>5. DraftedOnce' /\ ShownIsStored'
  BY <1>1, <1>4 DEF RecogSound, DraftedOnce, ShownIsStored, Over
<1>b. job.busy = FALSE
  <2>1. job.busy \in BOOLEAN
    BY <1>t DEF JobRow
  <2> QED
    BY <2>1, <1>1
<1>6. CASE chunk[job.n].st = "complete"
  <2>1. /\ job' = [job EXCEPT !.n = @ + 1, !.got = @ \cup {chunk[job.n].of}]
        /\ UNCHANGED <<chunk, events>>
    BY <1>6 DEF ComposeChunk
  <2>2. /\ job' \in JobRow /\ job'.at = "compose" /\ job'.plan = job.plan /\ job'.busy = FALSE
        /\ job'.n = job.n + 1 /\ job'.got = job.got \cup {chunk[job.n].of}
    <3>0. job.n \in Nat /\ job.got \in SUBSET Pictures
      BY <1>t DEF JobRow
    <3>a. PICK m \in Nat : m = job.n + 1
      BY <3>0
    <3>b. PICK g \in SUBSET Pictures : g = job.got \cup {chunk[job.n].of}
      BY <3>0, <1>3
    <3>1. m = job.n + 1 /\ g = job.got \cup {chunk[job.n].of}
      BY <3>a, <3>b
    <3>2. job' = [job EXCEPT !.n = m, !.got = g]
      BY <2>1, <3>1
    <3>3. /\ job' \in JobRow /\ job'.at = "compose" /\ job'.plan = job.plan
          /\ job'.busy = job.busy /\ job'.n = m /\ job'.got = g
      BY <3>2, <1>t, <1>1 DEF JobRow
    <3> QED
      BY <3>1, <3>3, <1>b
  <2>3. (job.got = Grouped(job.n - 1))'
    <3>1. job'.got = Grouped(job.n)
      BY <2>2, <1>2, <1>6, <1>t, GroupedNext
    <3>2. job'.n - 1 = job.n
      BY <2>2, <1>2
    <3> QED
      BY <3>1, <3>2, <2>1 DEF Grouped
  <2>4. RecogTyped'
    BY <1>1, <2>1, <2>2 DEF RecogSound, RecogTyped
  <2>5. JobFollows' /\ JobAlone'
    BY <1>1, <1>2, <1>4, <2>1, <2>2, <2>3 DEF JobFollows, JobAlone
  <2> QED
    BY <1>5, <2>4, <2>5 DEF RecogSound
<1>7. CASE chunk[job.n].st # "complete" /\ Over /\ Acknowledge /\ UNCHANGED chunk
  BY <1>1, <1>t, <1>5, <1>7, JobEnds
<1>8. CASE /\ chunk[job.n].st # "complete" /\ ~Over /\ batch.stop
           /\ job' = [job EXCEPT !.at = "finish"] /\ UNCHANGED <<chunk, events>>
  <2>2. /\ job' \in JobRow /\ job'.at = "finish" /\ job'.plan = job.plan /\ job'.busy = FALSE
        /\ job'.n = job.n /\ job'.got = job.got
    BY <1>8, <1>t, <1>b DEF JobRow
  <2>3. (job.got = Grouped(job.n - 1))'
    BY <1>2, <1>8, <2>2 DEF Grouped
  <2>4. RecogTyped'
    BY <1>1, <1>8, <2>2 DEF RecogSound, RecogTyped
  <2>5. JobFollows' /\ JobAlone'
    BY <1>1, <1>2, <1>4, <1>8, <2>2, <2>3 DEF JobFollows, JobAlone
  <2> QED
    BY <1>5, <2>4, <2>5 DEF RecogSound
<1>9. CASE /\ chunk[job.n].st # "complete" /\ ~Over
           /\ chunk' = [chunk EXCEPT ![job.n].st = "processing"]
           /\ job' = [job EXCEPT !.busy = TRUE] /\ UNCHANGED events
  <2>1. PICK c \in ChunkRow : c.of = chunk[job.n].of /\ c.st = "processing"
                              /\ chunk' = [chunk EXCEPT ![job.n] = c]
    BY <1>9, <1>3 DEF ChunkRow
  <2>2. /\ job' \in JobRow /\ job'.at = "compose" /\ job'.plan = job.plan /\ job'.busy = TRUE
        /\ job'.n = job.n /\ job'.got = job.got
    BY <1>9, <1>1, <1>t DEF JobRow
  <2>3. /\ chunk' \in Seq(ChunkRow) /\ Len(chunk') = Len(chunk)
        /\ \A i \in 1 .. Len(chunk) : i # job.n => chunk'[i] = chunk[i]
        /\ chunk'[job.n].of = chunk[job.n].of
    BY <2>1, <1>2, <1>t
  <2>4. (job.got = Grouped(job.n - 1))'
    <3>1. \A i \in 1 .. (job.n - 1) : chunk'[i] = chunk[i]
      BY <2>3, <1>2
    <3> QED
      BY <3>1, <1>2, <2>2 DEF Grouped
  <2>5. RecogTyped'
    BY <1>1, <1>9, <2>2, <2>3 DEF RecogSound, RecogTyped
  <2>6. \A i \in 1 .. Len(chunk) : item[chunk'[i].of] = "complete"
    BY <1>2, <2>3
  <2>7. JobFollows' /\ JobAlone'
    BY <1>1, <1>2, <1>4, <1>9, <2>2, <2>3, <2>4, <2>6 DEF JobFollows, JobAlone
  <2> QED
    BY <1>5, <2>5, <2>7 DEF RecogSound
<1> QED
  BY <1>6, <1>7, <1>8, <1>9 DEF ComposeChunk

LEMMA FinishChunkKeeps ==
  ASSUME RecogSound, NEW ok \in BOOLEAN, FinishChunk(ok)
  PROVE  RecogSound'
<1>t. /\ batch \in BatchRow /\ job \in JobRow /\ chunk \in Seq(ChunkRow) /\ RecogTyped
  BY DEF RecogSound, RecogTyped
<1>1. /\ job.at = "compose" /\ job.busy
      /\ UNCHANGED <<batch, asset, item, drafts, events, sent, expired, viewer>>
  BY DEF FinishChunk
<1>2. /\ Len(chunk) = Len(job.plan) /\ job.n \in 1 .. Len(chunk) /\ job.got = Grouped(job.n - 1)
      /\ \A i \in 1 .. Len(chunk) : item[chunk[i].of] = "complete"
  BY <1>1, StoredRows, <1>t DEF RecogSound, JobFollows
<1>3. /\ chunk[job.n] \in ChunkRow /\ chunk[job.n].of \in Pictures
      /\ chunk[job.n].st \in {"queued", "processing", "complete", "failed"}
  BY <1>2, <1>t, StoredRows
<1>4. batch.st \in {"processing", "canceled", "expired"} /\ events >= 1
  BY <1>1 DEF RecogSound, JobAlone
<1>5. DraftedOnce' /\ ShownIsStored'
  BY <1>1, <1>4 DEF RecogSound, DraftedOnce, ShownIsStored, Over
<1> DEFINE more == IF ok THEN job.got \cup {chunk[job.n].of} ELSE job.got
<1>6. PICK c \in ChunkRow : c.of = chunk[job.n].of /\ c.st = (IF ok THEN "complete" ELSE "failed")
                            /\ chunk' = [chunk EXCEPT ![job.n] = c]
  BY <1>3 DEF ChunkRow, FinishChunk
<1>7. more \in SUBSET Pictures
  BY <1>t, <1>3 DEF JobRow
<1>8. job' = [job EXCEPT !.n = job.n + 1, !.busy = FALSE, !.got = more]
  BY DEF FinishChunk
<1> HIDE DEF more
<1>9. /\ job' \in JobRow /\ job'.at = "compose" /\ job'.plan = job.plan /\ job'.busy = FALSE
      /\ job'.n = job.n + 1 /\ job'.got = more
  <2>1. PICK m \in Nat : m = job.n + 1
    BY <1>t DEF JobRow
  <2>2. job' = [job EXCEPT !.n = m, !.busy = FALSE, !.got = more]
    BY <1>8, <2>1
  <2>3. /\ job' \in JobRow /\ job'.at = "compose" /\ job'.plan = job.plan
        /\ job'.busy = FALSE /\ job'.n = m /\ job'.got = more
    BY <2>2, <1>7, <1>1, <1>t DEF JobRow
  <2> QED
    BY <2>1, <2>3
<1>10. /\ chunk' \in Seq(ChunkRow) /\ Len(chunk') = Len(chunk) /\ chunk'[job.n] = c
       /\ \A i \in 1 .. Len(chunk) : i # job.n => chunk'[i] = chunk[i]
  BY <1>6, <1>2, <1>t
<1>11. RecogTyped'
  BY <1>1, <1>9, <1>10 DEF RecogSound, RecogTyped
<1>12. Grouped(job.n - 1) = {chunk'[i].of : i \in {j \in 1 .. (job.n - 1) : chunk'[j].st = "complete"}}
  <2>1. \A i \in 1 .. (job.n - 1) : chunk'[i] = chunk[i]
    BY <1>10, <1>2
  <2> QED
    BY <2>1 DEF Grouped
<1>13. (job.got = Grouped(job.n - 1))'
  <2>1. 1 .. job.n = (1 .. (job.n - 1)) \cup {job.n} /\ job'.n - 1 = job.n
    BY <1>2, <1>9
  <2>2. {chunk'[i].of : i \in {j \in 1 .. job.n : chunk'[j].st = "complete"}} = more
    <3>1. CASE ok
      BY <3>1, <2>1, <1>2, <1>6, <1>10, <1>12 DEF more
    <3>2. CASE ~ok
      BY <3>2, <2>1, <1>2, <1>6, <1>10, <1>12 DEF more
    <3> QED
      BY <3>1, <3>2
  <2> QED
    BY <2>1, <2>2, <1>9 DEF Grouped
<1>14. \A i \in 1 .. Len(chunk) : item[chunk'[i].of] = "complete"
  BY <1>2, <1>6, <1>10
<1>15. JobFollows' /\ JobAlone'
  BY <1>1, <1>2, <1>4, <1>9, <1>10, <1>13, <1>14 DEF JobFollows, JobAlone
<1> QED
  BY <1>5, <1>11, <1>15 DEF RecogSound

LEMMA FinishKeeps == ASSUME RecogSound, FinishBatch PROVE RecogSound'
<1>t. /\ batch \in BatchRow /\ job \in JobRow /\ RecogTyped /\ Len(chunk) \in Nat
      /\ job.at # "none" /\ batch.st \in {"processing", "canceled", "expired"}
  BY StoredRows DEF RecogSound, RecogTyped, JobAlone, FinishBatch
<1>1. /\ job.at = "finish" \/ (job.at = "compose" /\ job.n > Len(job.plan))
      /\ Acknowledge \/ GiveUp
      /\ UNCHANGED <<asset, item, chunk, drafts, sent, expired, viewer>>
  BY DEF FinishBatch
<1>2. CASE batch' = FailBatch
  <2>1. batch' \in BatchRow /\ (batch.st \in BatchEnded => batch'.st \in BatchEnded)
        /\ batch'.st # "review"
    BY <1>2, <1>t DEF FailBatch, Over, BatchEnded, BatchRow, BatchStatuses
  <2>2. ShownIsStored'
    BY <2>1 DEF ShownIsStored
  <2> QED
    BY <1>1, <1>t, <2>1, <2>2, JobEnds
<1>3. CASE batch' = batch
  <2>1. ShownIsStored'
    BY <1>3, <1>t DEF ShownIsStored
  <2> QED
    BY <1>1, <1>3, <1>t, <2>1, JobEnds
<1>4. CASE Running /\ batch' = [batch EXCEPT !.st = "review", !.result = job.got]
  <2>1. job.got \in SUBSET Pictures
    BY <1>t DEF JobRow
  <2>2. /\ batch' \in BatchRow /\ batch'.st = "review" /\ batch'.stop = batch.stop
        /\ batch'.result = job.got /\ batch.st \notin BatchEnded
    BY <1>4, <1>t, <2>1 DEF Running, BatchRow, BatchStatuses, BatchEnded
  <2>3. /\ Len(chunk) = Len(job.plan) /\ job.n \in 1 .. Len(chunk) + 1
        /\ job.got = Grouped(job.n - 1) /\ (job.at = "finish" => batch.stop)
        /\ \A i \in 1 .. Len(chunk) : item[chunk[i].of] = "complete"
    BY <1>1, <1>t DEF RecogSound, JobFollows
  <2>4. job.n - 1 \in 0 .. Len(chunk) /\ (~batch.stop => job.n - 1 = Len(chunk))
    BY <1>1, <1>t, <2>3
  <2>5. \A a \in job.got : item[a] = "complete"
    <3>1. \A i \in 1 .. (job.n - 1) : item[chunk[i].of] = "complete"
      BY <2>3, <2>4, <1>t
    <3> QED
      BY <2>3, <3>1 DEF Grouped
  <2>6. ShownIsStored'
    <3>1. \E n \in 0 .. Len(chunk) : batch'.result = Grouped(n) /\ (~batch'.stop => n = Len(chunk))
      BY <2>2, <2>3, <2>4
    <3>2. \A a \in batch'.result : item'[a] = "complete"
      BY <2>2, <2>5, <1>1
    <3>3. UNCHANGED chunk
      BY <1>1
    <3> QED
      BY <3>1, <3>2, <3>3 DEF ShownIsStored, Grouped
  <2> QED
    BY <1>1, <1>t, <2>2, <2>6, JobEnds
<1> QED
  BY <1>2, <1>3, <1>4 DEF FinishBatch

LEMMA RecogStep == RecogSound /\ [RecogNext]_recogVars => RecogSound'
<1> SUFFICES ASSUME RecogSound, [RecogNext]_recogVars PROVE RecogSound'
  OBVIOUS
<1>1. CASE UNCHANGED recogVars
  <2>1. /\ UNCHANGED <<batch, asset, item, chunk, drafts>>
        /\ UNCHANGED <<events, sent, job, expired, viewer>>
    BY <1>1 DEF recogVars
  <2>2. RecogTyped' /\ JobAlone'
    BY <2>1 DEF RecogSound, RecogTyped, JobAlone
  <2>3. JobFollows'
    BY <2>1 DEF RecogSound, JobFollows, Grouped
  <2>4. DraftedOnce' /\ ShownIsStored'
    BY <2>1 DEF RecogSound, DraftedOnce, ShownIsStored, Grouped, Over
  <2> QED
    BY <2>2, <2>3, <2>4 DEF RecogSound
<1>2. CASE RecogNext
  BY <1>2, RequestKeeps, ApplyKeeps, DeleteKeeps, ReadingKeeps, PlanKeeps, ComposeKeeps,
     FinishChunkKeeps, FinishKeeps DEF RecogNext
<1> QED
  BY <1>1, <1>2

LEMMA RecogAlways == RecogSpec => []RecogSound
BY RecogStarts, RecogStep, PTL DEF RecogSpec

\* However often a batch is started, repeated, stopped, delivered again or looked at past its
\* term (ai_handlers.go, aijob/worker.go), a picture becomes a draft once at most, and what is
\* shown is what the stored groups hold, for any number of pictures.
THEOREM ShownAndDraftedOnce == RecogSpec => []RecognitionInv
<1>1. RecogSound => RecognitionInv
  BY RecogTypes DEF RecogSound, RecognitionInv
<1> QED
  BY <1>1, RecogAlways, PTL

\* The worker's writes are guarded (batchCanceled, failBatch): a batch that was applied, deleted
\* or has expired stays so.
THEOREM EndedForGood == RecogSpec => EndedBatchStays
<1>1. RecogSound /\ [RecogNext]_recogVars =>
        [batch.st \in BatchEnded => batch'.st \in BatchEnded]_recogVars
  <2> SUFFICES ASSUME RecogSound, RecogNext, batch.st \in BatchEnded
               PROVE  batch'.st \in BatchEnded
    OBVIOUS
  <2>0. batch \in BatchRow
    BY DEF RecogSound, RecogTyped
  <2>1. ASSUME batch' # batch PROVE batch' = [batch EXCEPT !.st = "canceled"]
                                     \/ batch' = [batch EXCEPT !.st = "expired"]
    BY <2>1 DEF RecogNext, CompleteAsset, ReadItem, ReadObjectFails, FinishItem, SettleAsset,
       SweepAsset, StartBatch, Recompose, StopCompose, DeleteBatch, ApplyBatch, Applicable, ViewRead,
       ViewWrite, TermPasses, Sweep, TakeBatch, PlanCompose, ComposeChunk, FinishChunk,
       FinishBatch, WorkerCrash, FailBatch, Over, Running, BatchEnded
  <2> QED
    BY <2>0, <2>1 DEF BatchRow, BatchEnded
<1> QED
  BY <1>1, RecogAlways, PTL DEF RecogSpec, EndedBatchStays

-----------------------------------------------------------------------------
(* Assistant: a message is settled once, a draft is held by one request     *)

MsgRow == [st : {"none", "asked", "queued", "running", "failed"} \cup Settled,
           text : {"none", "part", "whole"}, deliveries : 0 .. MaxDeliveries]
PictureRow == [st : {"none", "uploading", "ready", "sent"}, stored : BOOLEAN]
RunRow == [at : {"idle", "loaded", "step", "model", "answer"}, on : SUBSET Questions,
           approved : BOOLEAN]
ActionRow == [st : {"none", "proposed", "prepared", "applied", "rejected"},
              token : 0 .. MaxPrepares, live : BOOLEAN, shown : 0 .. MaxWorld, past : BOOLEAN]
DraftRow == [at : {"idle", "applying"}, on : SUBSET Questions,
             token : 0 .. MaxPrepares, saw : 0 .. MaxWorld]

\* A draft comes with an answer, and the row lock keeps the requests that apply drafts apart.
Proposed == \A m \in Questions : action[m].st # "none" => msg[m].st = "complete"
DraftsApart == \A x, y \in DraftTxs : x # y => draftTx[x].on \cap draftTx[y].on = {}

AssistSound == AssistTypeOK /\ AnsweredOnce /\ ExecutedAsConfirmed /\ Proposed /\ DraftsApart

\* What a step may do to a message, other than complete it
Rewritten(old, new) ==
  /\ old.st \in Settled => new.st = old.st /\ new.text = old.text
  /\ new.st = "complete" => old.st = "complete"
  /\ new.text = "whole" => old.text = "whole"
  /\ new.st = "failed" => new.text = "none" \/ (old.st = "failed" /\ new.text = old.text)

LEMMA RowWritten ==
  ASSUME NEW x \in MsgRow
  PROVE  /\ FailedMessage(x) \in MsgRow /\ Rewritten(x, FailedMessage(x))
         /\ Started(x) \in MsgRow /\ Rewritten(x, Started(x))
         /\ Deferred(x) \in MsgRow /\ Rewritten(x, Deferred(x))
         /\ \A t \in {"none", "part"} : Written(x, t) \in MsgRow /\ Rewritten(x, Written(x, t))
<1>1. FailedMessage(x) \in MsgRow /\ Rewritten(x, FailedMessage(x))
  BY DEF FailedMessage, MsgRow, Rewritten, Settled
<1>2. Started(x) \in MsgRow /\ Rewritten(x, Started(x))
  BY DEF Started, MsgRow, Rewritten, Settled
<1>3. Deferred(x) \in MsgRow /\ Rewritten(x, Deferred(x))
  BY DEF Deferred, MsgRow, Rewritten, Settled
<1>4. \A t \in {"none", "part"} : Written(x, t) \in MsgRow /\ Rewritten(x, Written(x, t))
  BY DEF Written, MsgRow, Rewritten, Settled
<1> QED
  BY <1>1, <1>2, <1>3, <1>4

\* The kinds of steps, by what they leave alone
PictureStep(m) == AttachPicture(m) \/ DetachPicture(m) \/ SweepList(m) \/ SweepPicture(m)
AskStep(m) == AskBegin(m) \/ AskCommit(m) \/ CancelMessage(m)
RunStep(w, m) ==
  \/ TakeMessage(w, m) \/ FailMessage(w, m) \/ StartMessage(w, m)
  \/ StreamPartial(w, m) \/ ToolTurn(w, m) \/ DeferMessage(w, m)
SilentStep ==
  \/ \E m \in Questions : LockLost(m) \/ \E w \in AgentWorkers : NextStep(w, m) \/ FinalTurn(w, m)
  \/ \E w \in AgentWorkers : AgentCrash(w)
DraftStep ==
  \/ \E m \in Questions :
       \/ PrepareAction(m) \/ ConfirmationExpires(m) \/ RejectAction(m)
       \/ \E x \in DraftTxs, k \in 1 .. MaxPrepares : ApplyBegin(x, m, k)
  \/ \E x \in DraftTxs, b \in BOOLEAN : ApplyEnd(x, b)
  \/ WorldChange

LEMMA StepKinds ==
  ASSUME [AssistNext]_assistVars
  PROVE  \/ UNCHANGED assistVars
         \/ \E m \in Questions : PictureStep(m) \/ AskStep(m)
         \/ \E m \in Questions, w \in AgentWorkers :
              RunStep(w, m) \/ \E b \in BOOLEAN : CompleteMessage(w, m, b)
         \/ SilentStep \/ DraftStep \/ DeleteConversation \/ SwitchGate
BY DEF AssistNext, PictureStep, AskStep, RunStep, SilentStep, DraftStep

LEMMA PictureFrame ==
  ASSUME NEW m, PictureStep(m)
  PROVE  UNCHANGED <<conversation, gate, msg, run, msgLock, action, world, draftTx, answers, executed>>
BY DEF PictureStep, AttachPicture, DetachPicture, SweepList, SweepPicture, messageVars, actionVars

LEMMA AskFrame ==
  ASSUME NEW m, AskStep(m)
  PROVE  UNCHANGED <<conversation, gate, swept, run, msgLock, action, world, draftTx, answers, executed>>
BY DEF AskStep, AskBegin, AskCommit, CancelMessage, messageVars, actionVars

LEMMA RunFrame ==
  ASSUME NEW w, NEW m, RunStep(w, m)
  PROVE  UNCHANGED <<conversation, gate, picture, swept, action, world, draftTx, answers, executed>>
BY DEF RunStep, TakeMessage, FailMessage, StartMessage, StreamPartial, ToolTurn, DeferMessage,
       messageVars, actionVars

LEMMA SilentFrame ==
  ASSUME SilentStep
  PROVE  UNCHANGED <<conversation, gate, msg, picture, swept, action, world, draftTx, answers, executed>>
BY DEF SilentStep, LockLost, NextStep, FinalTurn, AgentCrash, messageVars, actionVars

LEMMA DraftFrame ==
  ASSUME DraftStep
  PROVE  UNCHANGED <<conversation, gate, msg, picture, swept, run, msgLock, answers>>
BY DEF DraftStep, PrepareAction, ConfirmationExpires, RejectAction, ApplyBegin, ApplyEnd,
       WorldChange, messageVars, actionVars

LEMMA OtherFrame ==
  /\ \A w, m, b : CompleteMessage(w, m, b) =>
       UNCHANGED <<conversation, gate, picture, swept, world, draftTx, executed>>
  /\ DeleteConversation =>
       UNCHANGED <<gate, picture, swept, run, msgLock, action, world, draftTx, answers, executed>>
  /\ SwitchGate => UNCHANGED <<conversation, msg, picture, swept, run, msgLock,
                               action, world, draftTx, answers, executed>>
BY DEF CompleteMessage, DeleteConversation, SwitchGate, messageVars, actionVars

LEMMA MessageWritten ==
  ASSUME AssistTypeOK, NEW m \in Questions, AskStep(m) \/ \E w \in AgentWorkers : RunStep(w, m)
  PROVE  /\ msg' \in [Questions -> MsgRow]
         /\ \A q \in Questions : Rewritten(msg[q], msg'[q])
<1>t. msg \in [Questions -> MsgRow] /\ msg[m] \in MsgRow
  BY DEF AssistTypeOK, MsgRow
<1>1. ASSUME NEW x \in MsgRow, msg' = [msg EXCEPT ![m] = x], Rewritten(msg[m], x)
      PROVE  /\ msg' \in [Questions -> MsgRow]
             /\ \A q \in Questions : Rewritten(msg[q], msg'[q])
  BY <1>1, <1>t DEF Rewritten
<1>2. ASSUME NEW s \in {"asked", "queued", "canceled"}, msg' = [msg EXCEPT ![m].st = s],
             msg[m].st \in {"none", "asked", "queued", "running"}
      PROVE  \E x \in MsgRow : msg' = [msg EXCEPT ![m] = x] /\ Rewritten(msg[m], x)
  <2>1. PICK x \in MsgRow : x = [msg[m] EXCEPT !.st = s]
    BY <1>t DEF MsgRow, Settled
  <2>2. msg' = [msg EXCEPT ![m] = x]
    BY <2>1, <1>2
  <2>3. Rewritten(msg[m], x)
    BY <2>1, <1>2, <1>t DEF MsgRow, Rewritten, Settled
  <2> QED
    BY <2>2, <2>3
<1>3. CASE AskBegin(m) \/ AskCommit(m) \/ CancelMessage(m)
  <2>1. \E s \in {"asked", "queued", "canceled"} : msg' = [msg EXCEPT ![m].st = s]
    BY <1>3 DEF AskBegin, AskCommit, CancelMessage
  <2>2. msg[m].st \in {"none", "asked", "queued", "running"}
    BY <1>3 DEF AskBegin, AskCommit, CancelMessage
  <2> QED
    BY <2>1, <2>2, <1>1, <1>2
<1>4. ASSUME NEW w \in AgentWorkers, TakeMessage(w, m)
      PROVE  \E x \in MsgRow : msg' = [msg EXCEPT ![m] = x] /\ Rewritten(msg[m], x)
  <2>1. msg[m].deliveries \in 0 .. MaxDeliveries /\ msg[m].deliveries < MaxDeliveries
    BY <1>4, <1>t DEF TakeMessage, MsgRow
  <2>2. PICK d \in 0 .. MaxDeliveries : d = msg[m].deliveries + 1
    BY <2>1, AssistantAssumption
  <2>3. PICK x \in MsgRow : x = [msg[m] EXCEPT !.deliveries = d]
    BY <1>t DEF MsgRow
  <2>4. msg' = [msg EXCEPT ![m] = x]
    BY <2>2, <2>3, <1>4 DEF TakeMessage
  <2>5. Rewritten(msg[m], x)
    BY <2>3, <1>t DEF MsgRow, Rewritten
  <2> QED
    BY <2>4, <2>5
<1>5. ASSUME NEW w \in AgentWorkers,
             \/ FailMessage(w, m) \/ StartMessage(w, m) \/ StreamPartial(w, m)
             \/ ToolTurn(w, m) \/ DeferMessage(w, m)
      PROVE  \E x \in MsgRow : msg' = [msg EXCEPT ![m] = x] /\ Rewritten(msg[m], x)
  <2>1. \E x \in {FailedMessage(msg[m]), Started(msg[m]), Deferred(msg[m]),
                  Written(msg[m], "part"), Written(msg[m], "none")} :
           msg' = [msg EXCEPT ![m] = x]
    BY <1>5 DEF FailMessage, StartMessage, StreamPartial, ToolTurn, DeferMessage
  <2> QED
    BY <2>1, <1>t, RowWritten
<1> QED
  BY <1>1, <1>3, <1>4, <1>5 DEF AskStep, RunStep

\* Everything but messages and drafts keeps its type, whoever acts.
LEMMA SideTypes ==
  ASSUME AssistTypeOK, [AssistNext]_assistVars
  PROVE  /\ conversation' \in {"open", "deleted"} /\ gate' \in [flags : BOOLEAN, consent : BOOLEAN]
         /\ picture' \in [Questions -> PictureRow] /\ swept' \in SUBSET Questions
         /\ run' \in [AgentWorkers -> RunRow] /\ msgLock' \in [Questions -> SUBSET AgentWorkers]
         /\ world' \in 0 .. MaxWorld
<1>t. /\ conversation \in {"open", "deleted"} /\ gate \in [flags : BOOLEAN, consent : BOOLEAN]
      /\ picture \in [Questions -> PictureRow] /\ swept \in SUBSET Questions
      /\ run \in [AgentWorkers -> RunRow] /\ msgLock \in [Questions -> SUBSET AgentWorkers]
      /\ world \in 0 .. MaxWorld
  BY DEF AssistTypeOK, PictureRow, RunRow
<1>f. UNCHANGED assistVars =>
        UNCHANGED <<conversation, gate, picture, swept, run, msgLock, world>>
  BY DEF assistVars
<1>1. conversation' \in {"open", "deleted"}
  <2>1. UNCHANGED conversation \/ DeleteConversation
    BY StepKinds, <1>f, PictureFrame, AskFrame, RunFrame, SilentFrame, DraftFrame, OtherFrame
  <2> QED
    BY <1>t, <2>1 DEF DeleteConversation
<1>2. gate' \in [flags : BOOLEAN, consent : BOOLEAN]
  <2>1. UNCHANGED gate \/ SwitchGate
    BY StepKinds, <1>f, PictureFrame, AskFrame, RunFrame, SilentFrame, DraftFrame, OtherFrame
  <2> QED
    BY <1>t, <2>1 DEF SwitchGate
<1>3. picture' \in [Questions -> PictureRow] /\ swept' \in SUBSET Questions
  <2>1. \/ UNCHANGED <<picture, swept>>
        \/ \E m \in Questions : AttachPicture(m) \/ DetachPicture(m) \/ SweepList(m)
                                \/ SweepPicture(m) \/ AskCommit(m)
    BY StepKinds, <1>f, RunFrame, SilentFrame, DraftFrame, OtherFrame DEF PictureStep, AskStep, AskBegin, CancelMessage
  <2>2. ASSUME NEW m \in Questions, AttachPicture(m) PROVE picture' \in [Questions -> PictureRow]
    <3>1. PICK p \in PictureRow : p = [st |-> "uploading", stored |-> TRUE]
      BY DEF PictureRow
    <3>2. PICK q \in PictureRow : q = [picture[m] EXCEPT !.st = "ready"]
      BY <1>t DEF PictureRow
    <3>3. picture' = [picture EXCEPT ![m] = p] \/ picture' = [picture EXCEPT ![m] = q]
      BY <2>2, <3>1, <3>2 DEF AttachPicture
    <3> QED
      BY <3>3, <1>t
  <2>3. ASSUME NEW m \in Questions, DetachPicture(m) PROVE picture' \in [Questions -> PictureRow]
    BY <2>3, <1>t DEF DetachPicture, PictureRow
  <2>4. ASSUME NEW m \in Questions, SweepPicture(m) PROVE picture' \in [Questions -> PictureRow]
    <3>1. PICK p \in PictureRow : p = [picture[m] EXCEPT !.stored = FALSE]
      BY <1>t DEF PictureRow
    <3>2. PICK q \in PictureRow : q = [picture[m] EXCEPT !.st = IF @ = "sent" THEN @ ELSE "none"]
      BY <1>t DEF PictureRow
    <3>3. picture' = [picture EXCEPT ![m] = p] \/ picture' = [picture EXCEPT ![m] = q]
      BY <2>4, <3>1, <3>2 DEF SweepPicture
    <3> QED
      BY <3>3, <1>t
  <2>5. ASSUME NEW m \in Questions, AskCommit(m) PROVE picture' \in [Questions -> PictureRow]
    BY <2>5, <1>t DEF AskCommit, PictureRow
  <2>6. ASSUME NEW m \in Questions, SweepList(m) PROVE UNCHANGED picture
    BY <2>6 DEF SweepList
  <2>7. swept' \in SUBSET Questions
    BY <2>1, <1>t DEF AttachPicture, DetachPicture, SweepList, SweepPicture, AskCommit
  <2> QED
    BY <2>1, <2>2, <2>3, <2>4, <2>5, <2>6, <2>7, <1>t
<1>4. run' \in [AgentWorkers -> RunRow] /\ msgLock' \in [Questions -> SUBSET AgentWorkers]
  <2>1. ASSUME NEW w \in AgentWorkers, RunEnd(w)
        PROVE  run' \in [AgentWorkers -> RunRow] /\ msgLock' \in [Questions -> SUBSET AgentWorkers]
    <3>1. NoRun \in RunRow
      BY DEF NoRun, RunRow
    <3> QED
      BY <3>1, <2>1, <1>t DEF RunEnd, Unlock
  <2>2. ASSUME NEW w \in AgentWorkers, NEW at \in {"step", "model", "answer"}, RunTo(w, at)
        PROVE  run' \in [AgentWorkers -> RunRow]
    <3>1. [run[w] EXCEPT !.at = at] \in RunRow
      BY <1>t DEF RunRow
    <3>2. run' = [run EXCEPT ![w] = [run[w] EXCEPT !.at = at]]
      BY <2>2 DEF RunTo
    <3> QED
      BY <3>1, <3>2, <1>t
  <2>3. ASSUME NEW w \in AgentWorkers, NEW m \in Questions, TakeMessage(w, m)
        PROVE  run' \in [AgentWorkers -> RunRow] /\ msgLock' \in [Questions -> SUBSET AgentWorkers]
    <3>1. PICK r : r = [at |-> "loaded", on |-> {m}, approved |-> gate.consent]
      OBVIOUS
    <3>2. r \in RunRow
      BY <3>1, <1>t DEF RunRow
    <3>3. \/ run' = [run EXCEPT ![w] = r] /\ msgLock' = [msgLock EXCEPT ![m] = {w}]
          \/ UNCHANGED <<run, msgLock>>
      BY <2>3, <3>1 DEF TakeMessage
    <3> QED
      BY <3>2, <3>3, <1>t
  <2>4. \/ UNCHANGED <<run, msgLock>>
        \/ \E m \in Questions : UNCHANGED run /\ msgLock' = [msgLock EXCEPT ![m] = {}]
        \/ \E w \in AgentWorkers :
             \/ RunEnd(w)
             \/ \E m \in Questions : TakeMessage(w, m)
             \/ \E at \in {"step", "model", "answer"} : RunTo(w, at) /\ UNCHANGED msgLock
    <3>1. \A w \in AgentWorkers, m \in Questions, b \in BOOLEAN :
            CompleteMessage(w, m, b) => RunEnd(w)
      BY DEF CompleteMessage
    <3>2. \A w \in AgentWorkers, m \in Questions : RunStep(w, m) =>
            RunEnd(w) \/ TakeMessage(w, m) \/ UNCHANGED <<run, msgLock>>
              \/ \E at \in {"step", "model", "answer"} : RunTo(w, at) /\ UNCHANGED msgLock
      BY DEF RunStep, FailMessage, StartMessage, StreamPartial, ToolTurn, DeferMessage
    <3>3. SilentStep => \/ \E m \in Questions : UNCHANGED run /\ msgLock' = [msgLock EXCEPT ![m] = {}]
                        \/ \E w \in AgentWorkers : \/ RunEnd(w)
                             \/ \E at \in {"step", "model", "answer"} : RunTo(w, at) /\ UNCHANGED msgLock
      BY DEF SilentStep, LockLost, NextStep, FinalTurn, AgentCrash
    <3> QED
      BY <3>1, <3>2, <3>3, StepKinds, <1>f, PictureFrame, AskFrame, DraftFrame, OtherFrame
  <2> QED
    BY <2>1, <2>2, <2>3, <2>4, <1>t
<1>5. world' \in 0 .. MaxWorld
  <2>0. DraftStep => UNCHANGED world \/ WorldChange
    BY DEF DraftStep, PrepareAction, ConfirmationExpires, RejectAction, ApplyBegin, ApplyEnd
  <2>1. UNCHANGED world \/ WorldChange
    BY StepKinds, <1>f, PictureFrame, AskFrame, RunFrame, SilentFrame, OtherFrame, <2>0
  <2> QED
    BY <1>t, <2>1 DEF WorldChange
<1> QED
  BY <1>1, <1>2, <1>3, <1>4, <1>5

\* A settled message and its text are not written again; only completeMessage completes one.
LEMMA MessagesKept ==
  ASSUME AssistTypeOK, [AssistNext]_assistVars,
         \A w \in AgentWorkers, m \in Questions, b \in BOOLEAN :
           ~(CompleteMessage(w, m, b) /\ StillRunning(m))
  PROVE  /\ msg' \in [Questions -> MsgRow]
         /\ \A q \in Questions : Rewritten(msg[q], msg'[q])
         /\ UNCHANGED answers
         /\ UNCHANGED action \/ DraftStep
<1>t. msg \in [Questions -> MsgRow]
  BY DEF AssistTypeOK, MsgRow
<1>r. \A x \in MsgRow : Rewritten(x, x)
  BY DEF Rewritten, MsgRow
<1>u. UNCHANGED msg => msg' \in [Questions -> MsgRow] /\ \A q \in Questions : Rewritten(msg[q], msg'[q])
  BY <1>t, <1>r
<1>1. ASSUME UNCHANGED assistVars PROVE UNCHANGED <<msg, answers, action>>
  BY <1>1 DEF assistVars
<1>2. ASSUME NEW m \in Questions, NEW w \in AgentWorkers, NEW b \in BOOLEAN, CompleteMessage(w, m, b)
      PROVE  UNCHANGED <<msg, answers, action>>
  BY <1>2 DEF CompleteMessage
<1>3. ASSUME DeleteConversation
      PROVE  msg' \in [Questions -> MsgRow] /\ \A q \in Questions : Rewritten(msg[q], msg'[q])
  <2>1. ASSUME NEW q \in Questions
        PROVE  LET x == IF msg[q].st \in {"queued", "running"} THEN [msg[q] EXCEPT !.st = "canceled"]
                        ELSE msg[q]
               IN x \in MsgRow /\ Rewritten(msg[q], x)
    BY <1>t, <1>r DEF MsgRow, Rewritten, Settled
  <2> QED
    BY <2>1, <1>3, <1>t DEF DeleteConversation
<1> QED
  BY <1>1, <1>2, <1>3, <1>u, StepKinds, MessageWritten, PictureFrame, AskFrame, RunFrame, SilentFrame,
     DraftFrame, OtherFrame

\* The answer comes with its drafts, which nobody has touched before.
LEMMA Completes ==
  ASSUME AssistSound, NEW w \in AgentWorkers, NEW m \in Questions, NEW b \in BOOLEAN,
         CompleteMessage(w, m, b), StillRunning(m)
  PROVE  /\ msg' \in [Questions -> MsgRow] /\ answers' \in [Questions -> Nat]
         /\ action' \in [Questions -> ActionRow]
         /\ AnsweredOnce' /\ ExecutedAsConfirmed' /\ Proposed' /\ DraftsApart'
<1>t. /\ msg \in [Questions -> MsgRow] /\ action \in [Questions -> ActionRow]
      /\ answers \in [Questions -> Nat]
  BY DEF AssistSound, AssistTypeOK, MsgRow, ActionRow
<1>1. /\ msg' = [msg EXCEPT ![m].st = "complete", ![m].text = "whole"]
      /\ answers' = [answers EXCEPT ![m] = @ + 1]
      /\ action' = IF b THEN [action EXCEPT ![m].st = "proposed"] ELSE action
      /\ UNCHANGED <<draftTx, executed>> /\ msg[m].st = "running"
  BY OtherFrame DEF CompleteMessage, StillRunning
<1>2. PICK x \in MsgRow : x = [msg[m] EXCEPT !.st = "complete", !.text = "whole"]
  BY <1>t DEF MsgRow, Settled
<1>3. msg' = [msg EXCEPT ![m] = x] /\ x.st = "complete" /\ x.text = "whole"
  BY <1>1, <1>2, <1>t DEF MsgRow
<1>4. /\ msg' \in [Questions -> MsgRow] /\ msg'[m] = x
      /\ \A q \in Questions : q # m => msg'[q] = msg[q]
  BY <1>3, <1>t
<1>5. answers[m] = 0 /\ action[m].st = "none"
  BY <1>1, <1>t DEF AssistSound, AnsweredOnce, Proposed, ActionRow
<1>6. /\ answers' \in [Questions -> Nat] /\ answers'[m] = 1
      /\ \A q \in Questions : q # m => answers'[q] = answers[q]
  BY <1>1, <1>5, <1>t
<1>7. PICK y \in ActionRow : y = [action[m] EXCEPT !.st = "proposed"]
  BY <1>t DEF ActionRow
<1>8. y.st = "proposed"
  BY <1>7, <1>t DEF ActionRow
<1>9. action' = [action EXCEPT ![m] = y] \/ action' = action
  BY <1>1, <1>7
<1>10. /\ action' \in [Questions -> ActionRow] /\ (action'[m] = y \/ action'[m] = action[m])
       /\ \A q \in Questions : q # m => action'[q] = action[q]
  BY <1>9, <1>t
<1>11. AnsweredOnce'
  BY <1>3, <1>4, <1>6 DEF AssistSound, AnsweredOnce
<1>12. ExecutedAsConfirmed'
  <2>1. \A z \in DraftTxs : m \notin draftTx[z].on
    BY <1>5 DEF AssistSound, ExecutedAsConfirmed
  <2>2. executed[m] = 0
    BY <1>5 DEF AssistSound, ExecutedAsConfirmed
  <2>3. \A q \in Questions : executed'[q] = IF action'[q].st = "applied" THEN 1 ELSE 0
    BY <2>2, <1>1, <1>5, <1>8, <1>10 DEF AssistSound, ExecutedAsConfirmed
  <2>4. \A z \in DraftTxs : draftTx[z].on \subseteq Questions
    BY DEF AssistSound, AssistTypeOK
  <2>5. \A z \in DraftTxs : \A q \in draftTx[z].on : action'[q] = action[q]
    BY <2>1, <2>4, <1>10
  <2>6. \A z \in DraftTxs : \A q \in draftTx'[z].on :
          /\ action'[q].st = "prepared" /\ action'[q].token = draftTx'[z].token
          /\ action'[q].shown = draftTx'[z].saw
    <3>1. UNCHANGED draftTx
      BY <1>1
    <3> QED
      BY <2>5, <3>1 DEF AssistSound, ExecutedAsConfirmed
  <2> QED
    BY <2>3, <2>6 DEF ExecutedAsConfirmed
<1>13. Proposed' /\ DraftsApart'
  BY <1>1, <1>3, <1>4, <1>10 DEF AssistSound, Proposed, DraftsApart
<1> QED
  BY <1>4, <1>6, <1>10, <1>11, <1>12, <1>13

\* A draft is written by the request that holds it, and executed once.
LEMMA DraftsKept ==
  ASSUME AssistSound, DraftStep
  PROVE  /\ action' \in [Questions -> ActionRow] /\ draftTx' \in [DraftTxs -> DraftRow]
         /\ executed' \in [Questions -> Nat]
         /\ ExecutedAsConfirmed' /\ Proposed' /\ DraftsApart'
<1>t. /\ action \in [Questions -> ActionRow] /\ draftTx \in [DraftTxs -> DraftRow]
      /\ executed \in [Questions -> Nat] /\ world \in 0 .. MaxWorld
      /\ \A z \in DraftTxs : draftTx[z].on \in SUBSET Questions
  BY DEF AssistSound, AssistTypeOK, ActionRow, DraftRow
<1>m. UNCHANGED msg
  BY DraftFrame
<1>1. ASSUME NEW m \in Questions, NEW y \in ActionRow, action' = [action EXCEPT ![m] = y],
             UNCHANGED <<draftTx, executed>>,
             y.st # "none" => action[m].st # "none",
             y.st = "applied" <=> action[m].st = "applied",
             \/ ActionFree(m)
             \/ y.st = action[m].st /\ y.token = action[m].token /\ y.shown = action[m].shown
      PROVE  /\ action' \in [Questions -> ActionRow] /\ draftTx' \in [DraftTxs -> DraftRow]
             /\ executed' \in [Questions -> Nat]
             /\ ExecutedAsConfirmed' /\ Proposed' /\ DraftsApart'
  <2>1. /\ action' \in [Questions -> ActionRow] /\ action'[m] = y
        /\ \A q \in Questions : q # m => action'[q] = action[q]
    BY <1>1, <1>t
  <2>2. \A q \in Questions : executed'[q] = IF action'[q].st = "applied" THEN 1 ELSE 0
    BY <2>1, <1>1 DEF AssistSound, ExecutedAsConfirmed
  <2>3. \A z \in DraftTxs : \A q \in draftTx[z].on :
          /\ action'[q].st = action[q].st /\ action'[q].token = action[q].token
          /\ action'[q].shown = action[q].shown
    BY <2>1, <1>1, <1>t DEF ActionFree
  <2>4. ExecutedAsConfirmed'
    BY <2>2, <2>3, <1>1 DEF AssistSound, ExecutedAsConfirmed
  <2>5. Proposed' /\ DraftsApart'
    BY <2>1, <1>1, <1>m DEF AssistSound, Proposed, DraftsApart
  <2> QED
    BY <2>1, <2>4, <2>5, <1>1, <1>t
<1>2. ASSUME NEW m \in Questions, PrepareAction(m)
      PROVE  /\ action' \in [Questions -> ActionRow] /\ draftTx' \in [DraftTxs -> DraftRow]
             /\ executed' \in [Questions -> Nat]
             /\ ExecutedAsConfirmed' /\ Proposed' /\ DraftsApart'
  <2>1. /\ action[m].token \in 0 .. MaxPrepares /\ action[m].token < MaxPrepares
        /\ action[m].st \in {"proposed", "prepared"} /\ ActionFree(m)
        /\ UNCHANGED <<draftTx, executed>>
    BY <1>2, <1>t DEF PrepareAction, ActionRow
  <2>2. PICK k \in 0 .. MaxPrepares : k = action[m].token + 1
    BY <2>1, AssistantAssumption
  <2>3. PICK y \in ActionRow :
          y = [action[m] EXCEPT !.st = "prepared", !.token = k, !.live = TRUE, !.shown = world]
    BY <1>t DEF ActionRow
  <2>4. action' = [action EXCEPT ![m] = y] /\ y.st = "prepared"
    BY <1>2, <2>2, <2>3, <1>t DEF PrepareAction, ActionRow
  <2> QED
    BY <2>1, <2>4, <1>1
<1>3. ASSUME NEW m \in Questions, ConfirmationExpires(m)
      PROVE  /\ action' \in [Questions -> ActionRow] /\ draftTx' \in [DraftTxs -> DraftRow]
             /\ executed' \in [Questions -> Nat]
             /\ ExecutedAsConfirmed' /\ Proposed' /\ DraftsApart'
  <2>1. PICK y \in ActionRow : y = [action[m] EXCEPT !.live = FALSE]
    BY <1>t DEF ActionRow
  <2>2. PICK z \in ActionRow : z = [action[m] EXCEPT !.past = TRUE]
    BY <1>t DEF ActionRow
  <2>3. /\ action' = [action EXCEPT ![m] = y] \/ action' = [action EXCEPT ![m] = z]
        /\ UNCHANGED <<draftTx, executed>>
    BY <1>3, <2>1, <2>2 DEF ConfirmationExpires
  <2>4. /\ y.st = action[m].st /\ y.token = action[m].token /\ y.shown = action[m].shown
        /\ z.st = action[m].st /\ z.token = action[m].token /\ z.shown = action[m].shown
    BY <2>1, <2>2, <1>t DEF ActionRow
  <2> QED
    BY <2>3, <2>4, <1>1
<1>4. ASSUME NEW m \in Questions, RejectAction(m)
      PROVE  /\ action' \in [Questions -> ActionRow] /\ draftTx' \in [DraftTxs -> DraftRow]
             /\ executed' \in [Questions -> Nat]
             /\ ExecutedAsConfirmed' /\ Proposed' /\ DraftsApart'
  <2>1. PICK y \in ActionRow : y = [action[m] EXCEPT !.st = "rejected", !.live = FALSE]
    BY <1>t DEF ActionRow
  <2>2. /\ action' = [action EXCEPT ![m] = y] /\ y.st = "rejected"
        /\ action[m].st \in {"proposed", "prepared"} /\ ActionFree(m)
        /\ UNCHANGED <<draftTx, executed>>
    BY <1>4, <2>1, <1>t DEF RejectAction, ActionRow
  <2> QED
    BY <2>2, <1>1
<1>5. ASSUME NEW m \in Questions, NEW x \in DraftTxs, NEW k \in 1 .. MaxPrepares, ApplyBegin(x, m, k)
      PROVE  /\ action' \in [Questions -> ActionRow] /\ draftTx' \in [DraftTxs -> DraftRow]
             /\ executed' \in [Questions -> Nat]
             /\ ExecutedAsConfirmed' /\ Proposed' /\ DraftsApart'
  <2>1. /\ ActionFree(m) /\ action[m].st = "prepared" /\ k = action[m].token
        /\ action[m].shown = world /\ UNCHANGED <<action, executed>>
    BY <1>5 DEF ApplyBegin, SamePreparedState
  <2>2. PICK d \in DraftRow : d = [at |-> "applying", on |-> {m}, token |-> k, saw |-> world]
    <3>1. k \in 0 .. MaxPrepares /\ {m} \in SUBSET Questions /\ world \in 0 .. MaxWorld
      BY <1>t
    <3> QED
      BY <3>1 DEF DraftRow
  <2>3. /\ draftTx' = [draftTx EXCEPT ![x] = d] /\ d.on = {m} /\ d.token = k /\ d.saw = world
    BY <1>5, <2>2 DEF ApplyBegin
  <2>4. /\ draftTx' \in [DraftTxs -> DraftRow] /\ draftTx'[x] = d
        /\ \A z \in DraftTxs : z # x => draftTx'[z] = draftTx[z]
    BY <2>3, <1>t
  <2>5. ExecutedAsConfirmed'
    BY <2>1, <2>3, <2>4 DEF AssistSound, ExecutedAsConfirmed
  <2>6. DraftsApart'
    BY <2>1, <2>3, <2>4 DEF AssistSound, DraftsApart, ActionFree
  <2> QED
    BY <2>1, <2>4, <2>5, <2>6, <1>t, <1>m DEF AssistSound, Proposed
<1>6. ASSUME NEW x \in DraftTxs, NEW b \in BOOLEAN, ApplyEnd(x, b)
      PROVE  /\ action' \in [Questions -> ActionRow] /\ draftTx' \in [DraftTxs -> DraftRow]
             /\ executed' \in [Questions -> Nat]
             /\ ExecutedAsConfirmed' /\ Proposed' /\ DraftsApart'
  <2>1. NoDraftTx \in DraftRow /\ NoDraftTx.on = {}
    BY AssistantAssumption DEF NoDraftTx, DraftRow
  <2>2. /\ draftTx' \in [DraftTxs -> DraftRow] /\ draftTx'[x].on = {}
        /\ \A z \in DraftTxs : z # x => draftTx'[z] = draftTx[z]
    BY <1>6, <2>1, <1>t DEF ApplyEnd
  <2>3. DraftsApart'
    BY <2>2 DEF AssistSound, DraftsApart
  <2>4. CASE UNCHANGED <<executed, action>>
    <3>1. ExecutedAsConfirmed'
      BY <2>2, <2>4 DEF AssistSound, ExecutedAsConfirmed
    <3> QED
      BY <2>2, <2>3, <2>4, <3>1, <1>t, <1>m DEF AssistSound, Proposed
  <2>5. CASE b
    <3> DEFINE Y(m) == [action[m] EXCEPT !.st = "applied", !.live = FALSE]
    <3>1. /\ executed' = [m \in Questions |-> IF m \in draftTx[x].on THEN executed[m] + 1
                                                                     ELSE executed[m]]
          /\ action' = [m \in Questions |-> IF m \in draftTx[x].on THEN Y(m) ELSE action[m]]
      BY <1>6, <2>5 DEF ApplyEnd
    <3>2. \A m \in Questions : Y(m) \in ActionRow /\ Y(m).st = "applied"
      BY <1>t DEF ActionRow
    <3>3. \A m \in draftTx[x].on : action[m].st = "prepared" /\ executed[m] = 0
      BY <1>t DEF AssistSound, ExecutedAsConfirmed
    <3> HIDE DEF Y
    <3>4. /\ action' \in [Questions -> ActionRow] /\ executed' \in [Questions -> Nat]
          /\ \A m \in Questions : m \notin draftTx[x].on => action'[m] = action[m]
                                                           /\ executed'[m] = executed[m]
          /\ \A m \in draftTx[x].on : action'[m].st = "applied" /\ executed'[m] = 1
      BY <3>1, <3>2, <3>3, <1>t
    <3>5. \A q \in Questions : executed'[q] = IF action'[q].st = "applied" THEN 1 ELSE 0
      BY <3>4 DEF AssistSound, ExecutedAsConfirmed
    <3>6. \A z \in DraftTxs : \A q \in draftTx'[z].on :
            z # x /\ draftTx'[z] = draftTx[z] /\ action'[q] = action[q]
      BY <2>2, <3>4, <1>t DEF AssistSound, DraftsApart
    <3>7. ExecutedAsConfirmed'
      BY <3>5, <3>6 DEF AssistSound, ExecutedAsConfirmed
    <3>8. Proposed'
      BY <3>3, <3>4, <1>m DEF AssistSound, Proposed
    <3> QED
      BY <2>2, <2>3, <3>4, <3>7, <3>8
  <2> QED
    BY <1>6, <2>4, <2>5 DEF ApplyEnd
<1>7. ASSUME WorldChange
      PROVE  /\ action' \in [Questions -> ActionRow] /\ draftTx' \in [DraftTxs -> DraftRow]
             /\ executed' \in [Questions -> Nat]
             /\ ExecutedAsConfirmed' /\ Proposed' /\ DraftsApart'
  BY <1>7, <1>t, <1>m DEF WorldChange, AssistSound, ExecutedAsConfirmed, Proposed, DraftsApart
<1> QED
  BY <1>2, <1>3, <1>4, <1>5, <1>6, <1>7 DEF DraftStep

LEMMA AssistStarts == AssistInit => AssistSound
<1> SUFFICES ASSUME AssistInit PROVE AssistSound
  OBVIOUS
<1>1. /\ [st |-> "none", text |-> "none", deliveries |-> 0] \in MsgRow
      /\ [st |-> "none", stored |-> FALSE] \in PictureRow
      /\ NoRun \in RunRow /\ NoAction \in ActionRow /\ NoDraftTx \in DraftRow
  BY AssistantAssumption DEF MsgRow, PictureRow, RunRow, ActionRow, DraftRow, NoRun, NoAction, NoDraftTx
<1>2. /\ msg \in [Questions -> MsgRow] /\ picture \in [Questions -> PictureRow]
      /\ run \in [AgentWorkers -> RunRow] /\ action \in [Questions -> ActionRow]
      /\ draftTx \in [DraftTxs -> DraftRow]
  BY <1>1 DEF AssistInit
<1>3. /\ msgLock \in [Questions -> SUBSET AgentWorkers] /\ world \in 0 .. MaxWorld
      /\ answers \in [Questions -> Nat] /\ executed \in [Questions -> Nat]
      /\ conversation \in {"open", "deleted"} /\ gate \in [flags : BOOLEAN, consent : BOOLEAN]
      /\ swept \in SUBSET Questions
  BY AssistantAssumption DEF AssistInit
<1>4. AssistTypeOK
  BY <1>2, <1>3 DEF AssistTypeOK, MsgRow, PictureRow, RunRow, ActionRow, DraftRow
<1>5. AnsweredOnce
  BY DEF AssistInit, AnsweredOnce
<1>6. ExecutedAsConfirmed /\ Proposed /\ DraftsApart
  BY DEF AssistInit, ExecutedAsConfirmed, Proposed, DraftsApart, NoAction, NoDraftTx
<1> QED
  BY <1>4, <1>5, <1>6 DEF AssistSound

LEMMA AssistStep == AssistSound /\ [AssistNext]_assistVars => AssistSound'
<1> SUFFICES ASSUME AssistSound, [AssistNext]_assistVars PROVE AssistSound'
  OBVIOUS
<1>t. AssistTypeOK
  BY DEF AssistSound
<1>a. /\ action \in [Questions -> ActionRow] /\ draftTx \in [DraftTxs -> DraftRow]
      /\ executed \in [Questions -> Nat] /\ answers \in [Questions -> Nat]
      /\ msg \in [Questions -> MsgRow]
  BY DEF AssistSound, AssistTypeOK, ActionRow, DraftRow, MsgRow
<1>1. ASSUME /\ msg' \in [Questions -> MsgRow] /\ action' \in [Questions -> ActionRow]
             /\ draftTx' \in [DraftTxs -> DraftRow] /\ answers' \in [Questions -> Nat]
             /\ executed' \in [Questions -> Nat]
      PROVE  AssistTypeOK'
  BY <1>1, <1>t, SideTypes DEF AssistTypeOK, MsgRow, ActionRow, DraftRow, PictureRow, RunRow
<1>2. CASE \E w \in AgentWorkers, m \in Questions, b \in BOOLEAN :
             CompleteMessage(w, m, b) /\ StillRunning(m)
  <2>1. PICK w \in AgentWorkers, m \in Questions, b \in BOOLEAN :
          CompleteMessage(w, m, b) /\ StillRunning(m)
    BY <1>2
  <2>2. UNCHANGED <<draftTx, executed>>
    BY <2>1, OtherFrame
  <2> QED
    BY <2>1, <2>2, <1>1, <1>a, Completes DEF AssistSound
<1>3. CASE ~\E w \in AgentWorkers, m \in Questions, b \in BOOLEAN :
              CompleteMessage(w, m, b) /\ StillRunning(m)
  <2>1. /\ msg' \in [Questions -> MsgRow] /\ \A q \in Questions : Rewritten(msg[q], msg'[q])
        /\ UNCHANGED answers /\ (UNCHANGED action \/ DraftStep)
    BY <1>3, <1>t, MessagesKept
  <2>2. \A q \in Questions : msg'[q].st = "complete" <=> msg[q].st = "complete"
    BY <2>1 DEF Rewritten, Settled
  <2>3. AnsweredOnce'
    BY <2>1, <2>2 DEF AssistSound, AnsweredOnce, Rewritten, Settled
  <2>4. CASE DraftStep
    BY <2>1, <2>3, <2>4, <1>1, <1>a, DraftsKept DEF AssistSound
  <2>5. CASE ~DraftStep
    <3>1. UNCHANGED <<action, draftTx, executed>>
      <4>1. UNCHANGED assistVars => UNCHANGED <<action, draftTx, executed>>
        BY DEF assistVars
      <4> QED
        BY <4>1, <2>1, <2>5, StepKinds, PictureFrame, AskFrame, RunFrame, SilentFrame, OtherFrame
    <3>2. ExecutedAsConfirmed' /\ DraftsApart'
      BY <3>1 DEF AssistSound, ExecutedAsConfirmed, DraftsApart
    <3>3. Proposed'
      BY <3>1, <2>2 DEF AssistSound, Proposed
    <3> QED
      BY <2>1, <2>3, <3>1, <3>2, <3>3, <1>1, <1>a DEF AssistSound
  <2> QED
    BY <2>4, <2>5
<1> QED
  BY <1>2, <1>3

LEMMA AssistAlways == AssistSpec => []AssistSound
BY AssistStarts, AssistStep, PTL DEF AssistSpec

\* Deliveries repeat, runs lose their lock, confirmations expire and race (agentjob/message.go,
\* agent_action_handlers.go): a question is answered once and whole, and a draft is executed
\* once and as confirmed, for any number of questions, workers and requests.
THEOREM AnsweredAndExecutedOnce == AssistSpec => []AssistantInv
<1>1. AssistSound => AssistantInv
  BY DEF AssistSound, AssistantInv
<1> QED
  BY <1>1, AssistAlways, PTL

\* What was answered or canceled stays so, whatever a late run still writes (writePartial,
\* failMessage, startMessage, completeMessage).
THEOREM SettledForGood == AssistSpec => SettledMessageStays
<1>1. AssistSound /\ [AssistNext]_assistVars =>
        [\A m \in Questions : msg[m].st \in Settled =>
           msg'[m].st = msg[m].st /\ msg'[m].text = msg[m].text]_assistVars
  <2> SUFFICES ASSUME AssistSound, AssistNext, NEW m \in Questions, msg[m].st \in Settled
               PROVE  msg'[m].st = msg[m].st /\ msg'[m].text = msg[m].text
    OBVIOUS
  <2>t. AssistTypeOK /\ msg \in [Questions -> MsgRow]
    BY DEF AssistSound, AssistTypeOK, MsgRow
  <2>1. ASSUME NEW w \in AgentWorkers, NEW q \in Questions, NEW b \in BOOLEAN,
               CompleteMessage(w, q, b), StillRunning(q)
        PROVE  msg'[m] = msg[m]
    <3>1. q # m
      BY <2>1 DEF StillRunning, Settled
    <3>2. msg' = [msg EXCEPT ![q] = [msg[q] EXCEPT !.st = "complete", !.text = "whole"]]
      BY <2>1, <2>t DEF CompleteMessage
    <3> QED
      BY <3>1, <3>2, <2>t
  <2>2. CASE ~\E w \in AgentWorkers, q \in Questions, b \in BOOLEAN :
                CompleteMessage(w, q, b) /\ StillRunning(q)
    BY <2>2, <2>t, MessagesKept DEF Rewritten
  <2> QED
    BY <2>1, <2>2
<1> QED
  BY <1>1, AssistAlways, PTL DEF AssistSpec, SettledMessageStays

-----------------------------------------------------------------------------
(* Exports: a worker's hold on the file, and the link's on the job          *)

ExportRow == [st : {"none", "queued", "running", "complete", "failed", "expired"},
              run : 0 .. MaxRuns, byLink : BOOLEAN, key : BOOLEAN, old : BOOLEAN]
WorkRow == [at : {"idle", "loaded", "uploaded", "publishing", "undoing"}, on : SUBSET ExportIds]

\* A job whose term has passed is nobody's any more, and expires in this order: it is marked,
\* then its object is removed.
ExportJobSound(j) ==
  /\ ejob[j].old => /\ ejob[j].st \in {"complete", "expired"} /\ j \notin exportEvents
                    /\ \A w \in ExportWorkers : j \notin worker[w].on
  /\ ejob[j].st = "expired" => ejob[j].old
  /\ j \in exportEvents => ejob[j].st # "none"
  /\ expiry[j] = "listed" => ejob[j].old
  /\ expiry[j] \in {"claimed", "removed"} => ejob[j].st = "expired"
  /\ ejob[j].st = "complete" => j \in stored \/ j \in cleaned

\* A worker that has uploaded has its file, or another one has removed it; one that
\* publishes for a link holds the link.
ExportWorkSound(w) ==
  /\ \A i, j \in worker[w].on : i = j
  /\ \A j \in worker[w].on :
       /\ ejob[j].st # "none"
       /\ worker[w].at \in {"uploaded", "publishing", "undoing"} => j \in stored \/ j \in cleaned
       /\ worker[w].at = "publishing" => Allowed(j)

ExportSound ==
  /\ ExportTypeOK
  /\ \A j \in ExportIds : ExportJobSound(j)
  /\ \A w \in ExportWorkers : ExportWorkSound(w)

LEMMA ExportRows ==
  ASSUME ExportTypeOK
  PROVE  /\ ejob \in [ExportIds -> ExportRow] /\ worker \in [ExportWorkers -> WorkRow]
         /\ \A w \in ExportWorkers : worker[w].on \in SUBSET ExportIds
BY DEF ExportTypeOK, ExportRow, WorkRow

\* A step that writes the row of one job and touches no worker
LEMMA ExportRowWritten ==
  ASSUME ExportSound, NEW j \in ExportIds, NEW x \in ExportRow,
         ejob' = [ejob EXCEPT ![j] = x], UNCHANGED <<worker, linkValid, stored, cleaned, runNow>>,
         linkAsks' \in 0 .. MaxRuns,
         exportEvents' \in SUBSET ExportIds,
         \A i \in ExportIds : i # j => (i \in exportEvents' <=> i \in exportEvents) /\ expiry'[i] = expiry[i],
         expiry' \in [ExportIds -> {"no", "listed", "claimed", "removed"}],
         x.st # "none", x.byLink = ejob[j].byLink \/ ejob[j].st = "none",
         ExportJobSound(j)'
  PROVE  ExportSound'
<1>t. /\ ejob \in [ExportIds -> ExportRow]
      /\ \A w \in ExportWorkers : worker[w].on \in SUBSET ExportIds
      /\ ExportTypeOK
  BY ExportRows DEF ExportSound
<1>1. /\ ejob' \in [ExportIds -> ExportRow] /\ ejob'[j] = x
      /\ \A i \in ExportIds : i # j => ejob'[i] = ejob[i]
  BY <1>t
<1>2. ExportTypeOK'
  BY <1>t, <1>1 DEF ExportTypeOK, ExportRow
<1>3. \A i \in ExportIds : ExportJobSound(i)'
  <2>1. SUFFICES ASSUME NEW i \in ExportIds, i # j PROVE ExportJobSound(i)'
    OBVIOUS
  <2>2. ejob'[i] = ejob[i] /\ expiry'[i] = expiry[i] /\ (i \in exportEvents' <=> i \in exportEvents)
    BY <2>1, <1>1
  <2> QED
    BY <2>1, <2>2 DEF ExportSound, ExportJobSound
<1>4. \A w \in ExportWorkers : ExportWorkSound(w)'
  <2>1. SUFFICES ASSUME NEW w \in ExportWorkers PROVE ExportWorkSound(w)'
    OBVIOUS
  <2>2. ExportWorkSound(w)
    BY DEF ExportSound
  <2>3. ASSUME NEW i \in worker[w].on PROVE ejob'[i].st # "none" /\ (Allowed(i) => Allowed(i)')
    <3>1. ejob[i].st # "none" /\ i \in ExportIds
      BY <2>2, <2>3, <1>t DEF ExportWorkSound
    <3> QED
      BY <3>1, <1>1 DEF Allowed
  <2> QED
    BY <2>2, <2>3 DEF ExportWorkSound
<1> QED
  BY <1>2, <1>3, <1>4 DEF ExportSound

\* A step of a worker on one job
LEMMA ExportWorkerMoves ==
  ASSUME ExportSound, NEW w \in ExportWorkers, NEW j \in ExportIds,
         NEW x \in ExportRow, NEW y \in WorkRow,
         ejob' = [ejob EXCEPT ![j] = x], worker' = [worker EXCEPT ![w] = y],
         UNCHANGED <<linkValid, linkAsks, runNow, expiry>>,
         exportEvents' \in SUBSET ExportIds, stored' \in SUBSET ExportIds,
         cleaned' \in SUBSET ExportIds,
         \A i \in ExportIds : i # j => (i \in exportEvents' <=> i \in exportEvents),
         \A i \in ExportIds : i \in stored \/ i \in cleaned => i \in stored' \/ i \in cleaned',
         x.st # "none", x.byLink = ejob[j].byLink, y.on \subseteq {j},
         ExportJobSound(j)', ExportWorkSound(w)'
  PROVE  ExportSound'
<1>t. /\ ejob \in [ExportIds -> ExportRow] /\ worker \in [ExportWorkers -> WorkRow]
      /\ \A v \in ExportWorkers : worker[v].on \in SUBSET ExportIds
      /\ ExportTypeOK
  BY ExportRows DEF ExportSound
<1>1. /\ ejob' \in [ExportIds -> ExportRow] /\ ejob'[j] = x
      /\ \A i \in ExportIds : i # j => ejob'[i] = ejob[i]
  BY <1>t
<1>w. /\ worker' \in [ExportWorkers -> WorkRow] /\ worker'[w] = y
      /\ \A v \in ExportWorkers : v # w => worker'[v] = worker[v]
  BY <1>t
<1>2. ExportTypeOK'
  BY <1>t, <1>1, <1>w DEF ExportTypeOK, ExportRow, WorkRow
<1>3. \A i \in ExportIds : ExportJobSound(i)'
  <2>1. SUFFICES ASSUME NEW i \in ExportIds, i # j PROVE ExportJobSound(i)'
    OBVIOUS
  <2>2. ejob'[i] = ejob[i] /\ expiry'[i] = expiry[i] /\ (i \in exportEvents' <=> i \in exportEvents)
    BY <2>1, <1>1
  <2>3. \A v \in ExportWorkers : i \in worker'[v].on => i \in worker[v].on
    BY <2>1, <1>w
  <2>4. ExportJobSound(i)
    BY DEF ExportSound
  <2> QED
    BY <2>2, <2>3, <2>4 DEF ExportJobSound
<1>4. \A v \in ExportWorkers : ExportWorkSound(v)'
  <2>1. SUFFICES ASSUME NEW v \in ExportWorkers, v # w PROVE ExportWorkSound(v)'
    OBVIOUS
  <2>2. ExportWorkSound(v) /\ worker'[v] = worker[v]
    BY <2>1, <1>w DEF ExportSound
  <2>3. ASSUME NEW i \in worker[v].on
        PROVE  i \in ExportIds /\ ejob'[i].st # "none" /\ (Allowed(i) => Allowed(i)')
    <3>1. ejob[i].st # "none" /\ i \in ExportIds
      BY <2>2, <2>3, <1>t DEF ExportWorkSound
    <3>2. ejob'[i].byLink = ejob[i].byLink
      BY <3>1, <1>1
    <3> QED
      BY <3>1, <3>2, <1>1 DEF Allowed
  <2> QED
    BY <2>2, <2>3 DEF ExportWorkSound
<1> QED
  BY <1>2, <1>3, <1>4 DEF ExportSound

LEMMA ExportStarts == ASSUME ExportInit PROVE ExportSound
<1>1. MaxRuns \in Nat /\ 1 \in 0 .. MaxRuns /\ 0 \in 0 .. MaxRuns
  BY ExportsAssumption
<1>2. /\ \A j \in ExportIds : ejob[j] = NoExport /\ expiry[j] = "no"
      /\ \A w \in ExportWorkers : worker[w] = NoWork
  BY DEF ExportInit
<1>3. ExportTypeOK
  BY <1>1 DEF ExportInit, ExportTypeOK, NoExport, NoWork
<1>4. \A j \in ExportIds : ExportJobSound(j)
  BY <1>2 DEF ExportInit, ExportJobSound, NoExport, NoWork
<1>5. \A w \in ExportWorkers : ExportWorkSound(w)
  BY <1>2 DEF ExportWorkSound, NoWork
<1> QED
  BY <1>3, <1>4, <1>5 DEF ExportSound

\* What is known of a job that no worker has seen yet
LEMMA ExportUnasked ==
  ASSUME ExportSound, NEW j \in ExportIds, ejob[j].st = "none"
  PROVE  /\ j \notin exportEvents /\ expiry[j] = "no"
         /\ \A w \in ExportWorkers : j \notin worker[w].on
<1>1. ExportJobSound(j) /\ expiry[j] \in {"no", "listed", "claimed", "removed"}
  BY DEF ExportSound, ExportTypeOK
<1>2. \A w \in ExportWorkers : ExportWorkSound(w)
  BY DEF ExportSound
<1> QED
  BY <1>1, <1>2 DEF ExportJobSound, ExportWorkSound

LEMMA ExportRequested ==
  ASSUME ExportSound, NEW j \in ExportIds, RequestExport(j) \/ LinkRequest(j)
  PROVE  ExportSound'
<1>0. /\ runNow \in 0 .. MaxRuns /\ linkAsks \in 0 .. MaxRuns /\ 0 \in 0 .. MaxRuns
      /\ exportEvents \in SUBSET ExportIds
      /\ expiry \in [ExportIds -> {"no", "listed", "claimed", "removed"}]
  BY ExportsAssumption DEF ExportSound, ExportTypeOK
<1>1. PICK x \in ExportRow :
        ejob' = [ejob EXCEPT ![j] = x] /\ x.st = "queued" /\ ~x.old
  <2>1. CASE RequestExport(j)
    <3>1. [NoExport EXCEPT !.st = "queued", !.run = runNow] \in ExportRow
      BY <1>0 DEF NoExport, ExportRow
    <3> QED
      BY <2>1, <3>1 DEF RequestExport, NoExport
  <2>2. CASE LinkRequest(j)
    <3>1. [NoExport EXCEPT !.st = "queued", !.run = linkAsks, !.byLink = TRUE] \in ExportRow
      BY <1>0 DEF NoExport, ExportRow
    <3> QED
      BY <2>2, <3>1 DEF LinkRequest, NoExport
  <2> QED
    BY <2>1, <2>2
<1>2. /\ ejob[j].st = "none" /\ exportEvents' = exportEvents \cup {j}
      /\ UNCHANGED <<worker, linkValid, stored, cleaned, runNow, expiry>>
      /\ linkAsks' \in 0 .. MaxRuns
  BY <1>0 DEF RequestExport, LinkRequest
<1>3. expiry[j] = "no"
  BY <1>2, ExportUnasked
<1>4. ejob'[j] = x
  BY <1>1, ExportRows DEF ExportSound
<1>5. ExportJobSound(j)'
  BY <1>1, <1>2, <1>3, <1>4 DEF ExportJobSound
<1> QED
  BY <1>0, <1>1, <1>2, <1>5, ExportRowWritten
\* The row that a worker leaves behind: the status alone, or a publication
LEMMA ExportStatusRow ==
  ASSUME ExportSound, NEW j \in ExportIds
  PROVE  /\ ejob[j] \in ExportRow /\ ejob = [ejob EXCEPT ![j] = ejob[j]]
         /\ \E x \in ExportRow : /\ [ejob EXCEPT ![j].st = "running"] = [ejob EXCEPT ![j] = x]
                                 /\ x = [ejob[j] EXCEPT !.st = "running"]
         /\ \E x \in ExportRow : /\ Failed(j) = [ejob EXCEPT ![j] = x]
                                 /\ x.st = IF ejob[j].st = "complete" THEN "complete" ELSE "failed"
                                 /\ x.byLink = ejob[j].byLink /\ x.old = ejob[j].old
<1>1. ejob \in [ExportIds -> ExportRow]
  BY ExportRows DEF ExportSound
<1>2. ejob[j] \in ExportRow /\ ejob = [ejob EXCEPT ![j] = ejob[j]]
  BY <1>1
<1>3. /\ [ejob[j] EXCEPT !.st = "running"] \in ExportRow
      /\ [ejob EXCEPT ![j].st = "running"] = [ejob EXCEPT ![j] = [ejob[j] EXCEPT !.st = "running"]]
  BY <1>2 DEF ExportRow
<1>4. /\ [ejob[j] EXCEPT !.st = "failed"] \in ExportRow
      /\ [ejob EXCEPT ![j].st = "failed"] = [ejob EXCEPT ![j] = [ejob[j] EXCEPT !.st = "failed"]]
  BY <1>2 DEF ExportRow
<1>5. /\ [ejob[j] EXCEPT !.st = "failed"].st = "failed"
      /\ [ejob[j] EXCEPT !.st = "failed"].byLink = ejob[j].byLink
      /\ [ejob[j] EXCEPT !.st = "failed"].old = ejob[j].old
  BY <1>2 DEF ExportRow
<1>6. CASE ejob[j].st = "complete"
  BY <1>2, <1>3, <1>6 DEF Failed
<1>7. CASE ejob[j].st # "complete"
  BY <1>2, <1>3, <1>4, <1>5, <1>7 DEF Failed
<1> QED
  BY <1>6, <1>7

\* What is known of a job that a worker has, or whose event is due
LEMMA ExportHeld ==
  ASSUME ExportSound, NEW j \in ExportIds, NEW w \in ExportWorkers,
         j \in exportEvents \/ j \in worker[w].on
  PROVE  ejob[j].st \notin {"none", "expired"} /\ ~ejob[j].old /\ expiry[j] = "no"
<1>1. ExportJobSound(j) /\ ExportWorkSound(w) /\ expiry[j] \in {"no", "listed", "claimed", "removed"}
  BY DEF ExportSound, ExportTypeOK
<1> QED
  BY <1>1 DEF ExportJobSound, ExportWorkSound

LEMMA ExportLoaded ==
  ASSUME ExportSound, NEW j \in ExportIds, NEW w \in ExportWorkers, LoadJob(w, j)
  PROVE  ExportSound'
<1>0. /\ exportEvents \in SUBSET ExportIds /\ stored \in SUBSET ExportIds /\ cleaned \in SUBSET ExportIds
      /\ linkAsks \in 0 .. MaxRuns
      /\ expiry \in [ExportIds -> {"no", "listed", "claimed", "removed"}]
      /\ ejob \in [ExportIds -> ExportRow] /\ worker \in [ExportWorkers -> WorkRow]
  BY ExportRows DEF ExportSound, ExportTypeOK
<1>h. /\ ejob[j].st \notin {"none", "expired"} /\ ~ejob[j].old /\ expiry[j] = "no"
      /\ ExportJobSound(j) /\ j \in exportEvents
      /\ UNCHANGED <<stored, linkValid, runNow, linkAsks, expiry, cleaned>>
  BY ExportHeld DEF LoadJob, ExportSound
<1>1. CASE /\ ejob[j].st = "complete" /\ exportEvents' = exportEvents \ {j}
           /\ UNCHANGED <<ejob, worker>>
  <2>1. ExportJobSound(j)'
    BY <1>1, <1>h DEF ExportJobSound
  <2> QED
    BY <1>0, <1>h, <1>1, <2>1, ExportStatusRow, ExportRowWritten
<1>2. CASE /\ ejob[j].st # "complete" /\ ejob' = Failed(j) /\ exportEvents' = exportEvents \ {j}
           /\ UNCHANGED worker
  <2>1. PICK x \in ExportRow : /\ ejob' = [ejob EXCEPT ![j] = x] /\ x.st = "failed"
                               /\ x.byLink = ejob[j].byLink /\ x.old = ejob[j].old
    BY <1>2, ExportStatusRow
  <2>2. ejob'[j] = x
    BY <2>1, <1>0
  <2>3. ExportJobSound(j)'
    BY <1>2, <1>h, <2>1, <2>2 DEF ExportJobSound
  <2> QED
    BY <1>0, <1>h, <1>2, <2>1, <2>3, ExportRowWritten
<1>3. CASE /\ ejob[j].st # "complete" /\ ejob' = [ejob EXCEPT ![j].st = "running"]
           /\ worker' = [worker EXCEPT ![w] = [at |-> "loaded", on |-> {j}]]
           /\ UNCHANGED exportEvents
  <2>1. PICK x \in ExportRow : /\ ejob' = [ejob EXCEPT ![j] = x]
                               /\ x = [ejob[j] EXCEPT !.st = "running"]
    BY <1>3, ExportStatusRow
  <2>2. x.st = "running" /\ x.byLink = ejob[j].byLink /\ x.old = ejob[j].old /\ ejob'[j] = x
    BY <2>1, <1>0 DEF ExportRow
  <2>3. ExportJobSound(j)'
    BY <1>h, <1>3, <2>2 DEF ExportJobSound
  <2>4. PICK y \in WorkRow : y = [at |-> "loaded", on |-> {j}]
    BY DEF WorkRow
  <2>5. worker' = [worker EXCEPT ![w] = y] /\ worker'[w] = y /\ y.on = {j} /\ y.at = "loaded"
    BY <2>4, <1>3, <1>0
  <2>6. ExportWorkSound(w)'
    BY <2>2, <2>5 DEF ExportWorkSound
  <2> QED
    BY <1>0, <1>h, <1>3, <2>1, <2>2, <2>3, <2>5, <2>6, ExportWorkerMoves
<1> QED
  BY <1>1, <1>2, <1>3 DEF LoadJob

LEMMA ExportRendered ==
  ASSUME ExportSound, NEW j \in ExportIds, NEW w \in ExportWorkers, NEW ok \in BOOLEAN,
         Render(w, j, ok)
  PROVE  ExportSound'
<1>0. /\ exportEvents \in SUBSET ExportIds /\ stored \in SUBSET ExportIds /\ cleaned \in SUBSET ExportIds
      /\ ejob \in [ExportIds -> ExportRow] /\ worker \in [ExportWorkers -> WorkRow]
  BY ExportRows DEF ExportSound, ExportTypeOK
<1>h. /\ ejob[j].st \notin {"none", "expired"} /\ ~ejob[j].old /\ expiry[j] = "no"
      /\ ExportJobSound(j) /\ ExportWorkSound(w) /\ j \in worker[w].on
      /\ UNCHANGED <<exportEvents, linkValid, runNow, linkAsks, expiry, cleaned>>
  BY ExportHeld DEF Render, ExportSound
<1>1. CASE stored' = stored \cup {j} /\ WorkTo(w, "uploaded") /\ UNCHANGED ejob
  <2>1. PICK y \in WorkRow : y = [worker[w] EXCEPT !.at = "uploaded"]
    BY <1>0 DEF WorkRow
  <2>2. /\ worker' = [worker EXCEPT ![w] = y] /\ worker'[w] = y /\ y.on = worker[w].on
        /\ y.at = "uploaded"
    BY <2>1, <1>0, <1>1 DEF WorkTo, WorkRow
  <2>3. y.on \subseteq {j}
    BY <1>h, <2>2 DEF ExportWorkSound
  <2>4. ExportJobSound(j)'
    BY <1>h, <1>1, <1>0 DEF ExportJobSound
  <2>5. ExportWorkSound(w)'
    BY <1>h, <1>1, <2>2, <2>3 DEF ExportWorkSound
  <2> QED
    BY <1>0, <1>h, <1>1, <2>2, <2>3, <2>4, <2>5, ExportStatusRow, ExportWorkerMoves
<1>2. CASE ejob' = Failed(j) /\ worker' = [worker EXCEPT ![w] = NoWork] /\ UNCHANGED stored
  <2>1. PICK x \in ExportRow : /\ ejob' = [ejob EXCEPT ![j] = x]
                               /\ x.st = IF ejob[j].st = "complete" THEN "complete" ELSE "failed"
                               /\ x.byLink = ejob[j].byLink /\ x.old = ejob[j].old
    BY <1>2, ExportStatusRow
  <2>2. ejob'[j] = x /\ NoWork \in WorkRow /\ NoWork.on = {} /\ worker'[w] = NoWork
    BY <2>1, <1>0, <1>2 DEF NoWork, WorkRow
  <2>3. ExportJobSound(j)'
    BY <1>h, <1>2, <2>1, <2>2 DEF ExportJobSound
  <2>4. ExportWorkSound(w)'
    BY <2>2 DEF ExportWorkSound
  <2> QED
    BY <1>0, <1>h, <1>2, <2>1, <2>2, <2>3, <2>4, ExportWorkerMoves
<1> QED
  BY <1>1, <1>2 DEF Render
\* Only a link that stands lets its job be published
LEMMA ExportPublishBegun ==
  ASSUME ExportSound, NEW j \in ExportIds, NEW w \in ExportWorkers, PublishBegin(w, j)
  PROVE  ExportSound'
<1>0. /\ exportEvents \in SUBSET ExportIds /\ stored \in SUBSET ExportIds /\ cleaned \in SUBSET ExportIds
      /\ ejob \in [ExportIds -> ExportRow] /\ worker \in [ExportWorkers -> WorkRow]
  BY ExportRows DEF ExportSound, ExportTypeOK
<1>h. /\ ejob[j].st \notin {"none", "expired"} /\ ~ejob[j].old /\ expiry[j] = "no"
      /\ ExportJobSound(j) /\ ExportWorkSound(w) /\ j \in worker[w].on /\ worker[w].at = "uploaded"
      /\ UNCHANGED <<ejob, stored, exportEvents, linkValid, runNow, linkAsks, expiry, cleaned>>
  BY ExportHeld DEF PublishBegin, ExportSound
<1>1. PICK at \in {"publishing", "undoing"} : WorkTo(w, at) /\ (at = "publishing" => Allowed(j))
  BY DEF PublishBegin
<1>2. PICK y \in WorkRow : y = [worker[w] EXCEPT !.at = at]
  BY <1>0 DEF WorkRow
<1>3. worker' = [worker EXCEPT ![w] = y] /\ worker'[w] = y /\ y.on = worker[w].on /\ y.at = at
  BY <1>0, <1>1, <1>2 DEF WorkTo, WorkRow
<1>4. y.on \subseteq {j}
  BY <1>h, <1>3 DEF ExportWorkSound
<1>5. ExportJobSound(j)'
  <2>1. \A v \in ExportWorkers : j \in worker'[v].on => j \in worker[v].on
    BY <1>0, <1>3
  <2> QED
    BY <1>h, <2>1 DEF ExportJobSound
<1>6. ExportWorkSound(w)'
  BY <1>h, <1>1, <1>3, <1>4 DEF ExportWorkSound, Allowed
<1> QED
  BY <1>0, <1>h, <1>3, <1>4, <1>5, <1>6, ExportStatusRow, ExportWorkerMoves

LEMMA ExportPublishEnded ==
  ASSUME ExportSound, NEW j \in ExportIds, NEW w \in ExportWorkers,
         NEW commits \in BOOLEAN, NEW heard \in BOOLEAN, PublishEnd(w, j, commits, heard)
  PROVE  ExportSound'
<1>0. /\ exportEvents \in SUBSET ExportIds /\ stored \in SUBSET ExportIds /\ cleaned \in SUBSET ExportIds
      /\ ejob \in [ExportIds -> ExportRow] /\ worker \in [ExportWorkers -> WorkRow]
  BY ExportRows DEF ExportSound, ExportTypeOK
<1>h. /\ ejob[j].st \notin {"none", "expired"} /\ ~ejob[j].old /\ expiry[j] = "no"
      /\ ExportJobSound(j) /\ ExportWorkSound(w) /\ j \in worker[w].on /\ worker[w].at = "publishing"
      /\ UNCHANGED <<stored, linkValid, runNow, linkAsks, expiry, cleaned>>
  BY ExportHeld DEF PublishEnd, ExportSound
<1>f. j \in stored \/ j \in cleaned
  BY <1>h DEF ExportWorkSound
<1>1. PICK x \in ExportRow : /\ ejob' = [ejob EXCEPT ![j] = x] /\ x.byLink = ejob[j].byLink
                             /\ ~x.old /\ x.st \notin {"none", "expired"}
  <2>1. [ejob[j] EXCEPT !.st = "complete", !.key = TRUE, !.old = FALSE] \in ExportRow
    BY <1>0 DEF ExportRow
  <2>2. CASE commits /\ ejob[j].st # "complete"
    <3>1. ejob' = [ejob EXCEPT ![j] = [ejob[j] EXCEPT !.st = "complete", !.key = TRUE, !.old = FALSE]]
      BY <2>2, <1>0 DEF PublishEnd, ExportRow
    <3>2. PICK x \in ExportRow : x = [ejob[j] EXCEPT !.st = "complete", !.key = TRUE, !.old = FALSE]
      BY <2>1
    <3>3. x.st = "complete" /\ ~x.old /\ x.byLink = ejob[j].byLink
      BY <3>2, <1>0 DEF ExportRow
    <3> QED
      BY <3>1, <3>2, <3>3
  <2>3. CASE ~(commits /\ ejob[j].st # "complete")
    BY <2>3, <1>h, ExportStatusRow DEF PublishEnd
  <2> QED
    BY <2>2, <2>3
<1>2. PICK y \in WorkRow : /\ worker' = [worker EXCEPT ![w] = y] /\ y.on \subseteq {j}
                           /\ y.at \in {"idle", "undoing"}
  <2>1. CASE heard
    <3>1. NoWork \in WorkRow /\ NoWork.on = {} /\ NoWork.at = "idle"
      BY DEF NoWork, WorkRow
    <3> QED
      BY <2>1, <3>1 DEF PublishEnd
  <2>2. CASE ~heard
    <3>1. PICK y \in WorkRow : y = [worker[w] EXCEPT !.at = "undoing"]
      BY <1>0 DEF WorkRow
    <3>2. worker' = [worker EXCEPT ![w] = y] /\ y.on = worker[w].on /\ y.at = "undoing"
      BY <2>2, <3>1, <1>0 DEF PublishEnd, WorkTo, WorkRow
    <3> QED
      BY <3>2, <1>h DEF ExportWorkSound
  <2> QED
    BY <2>1, <2>2
<1>3. exportEvents' \in {exportEvents, exportEvents \ {j}}
  BY DEF PublishEnd
<1>4. ejob'[j] = x /\ worker'[w] = y
  BY <1>0, <1>1, <1>2
<1>5. ExportJobSound(j)'
  BY <1>h, <1>f, <1>1, <1>3, <1>4 DEF ExportJobSound
<1>6. ExportWorkSound(w)'
  BY <1>h, <1>f, <1>1, <1>2, <1>4 DEF ExportWorkSound
<1> QED
  BY <1>0, <1>h, <1>1, <1>2, <1>3, <1>5, <1>6, ExportWorkerMoves

LEMMA ExportUndone ==
  ASSUME ExportSound, NEW j \in ExportIds, NEW w \in ExportWorkers, Undo(w, j)
  PROVE  ExportSound'
<1>0. /\ exportEvents \in SUBSET ExportIds /\ stored \in SUBSET ExportIds /\ cleaned \in SUBSET ExportIds
      /\ ejob \in [ExportIds -> ExportRow] /\ worker \in [ExportWorkers -> WorkRow]
  BY ExportRows DEF ExportSound, ExportTypeOK
<1>h. /\ ejob[j].st \notin {"none", "expired"} /\ ~ejob[j].old /\ expiry[j] = "no"
      /\ ExportJobSound(j) /\ ejob' = Failed(j) /\ worker' = [worker EXCEPT ![w] = NoWork]
      /\ stored' = stored \ {j} /\ cleaned' = cleaned \cup {j}
      /\ UNCHANGED <<exportEvents, linkValid, runNow, linkAsks, expiry>>
  BY ExportHeld DEF Undo, ExportSound
<1>1. PICK x \in ExportRow : /\ ejob' = [ejob EXCEPT ![j] = x]
                             /\ x.st = IF ejob[j].st = "complete" THEN "complete" ELSE "failed"
                             /\ x.byLink = ejob[j].byLink /\ x.old = ejob[j].old
  BY <1>h, ExportStatusRow
<1>2. ejob'[j] = x /\ NoWork \in WorkRow /\ NoWork.on = {} /\ worker'[w] = NoWork
  BY <1>0, <1>h, <1>1 DEF NoWork, WorkRow
<1>3. ExportJobSound(j)'
  BY <1>h, <1>1, <1>2 DEF ExportJobSound
<1>4. ExportWorkSound(w)'
  BY <1>2 DEF ExportWorkSound
<1> QED
  BY <1>0, <1>h, <1>1, <1>2, <1>3, <1>4, ExportWorkerMoves

\* Steps that take a worker off its job, or leave jobs and workers alone
LEMMA ExportQuiet ==
  ASSUME ExportSound,
         \/ \E w \in ExportWorkers : ExportCrash(w)
         \/ LinkSnapshot \/ RunChanges \/ LinkEnds \/ UNCHANGED exportVars
  PROVE  ExportSound'
<1>0. /\ ExportTypeOK /\ worker \in [ExportWorkers -> WorkRow]
      /\ \A w \in ExportWorkers : ExportWorkSound(w)
      /\ \A j \in ExportIds : ExportJobSound(j)
  BY ExportRows DEF ExportSound
<1>1. UNCHANGED <<ejob, stored, exportEvents, expiry, cleaned>>
  BY DEF ExportCrash, LinkSnapshot, RunChanges, LinkEnds, exportVars
<1>2. /\ worker' \in [ExportWorkers -> WorkRow]
      /\ \A w \in ExportWorkers : worker'[w] = worker[w] \/ worker'[w] = NoWork
  <2>1. NoWork \in WorkRow
    BY DEF NoWork, WorkRow
  <2>2. ASSUME NEW w \in ExportWorkers, ExportCrash(w)
        PROVE  /\ worker' \in [ExportWorkers -> WorkRow]
               /\ \A v \in ExportWorkers : worker'[v] = worker[v] \/ worker'[v] = NoWork
    BY <1>0, <2>1, <2>2 DEF ExportCrash
  <2>3. CASE LinkSnapshot \/ RunChanges \/ LinkEnds \/ UNCHANGED exportVars
    BY <1>0, <2>3 DEF LinkSnapshot, RunChanges, LinkEnds, exportVars
  <2> QED
    BY <2>2, <2>3
<1>3. linkValid' \in BOOLEAN /\ linkAsks' \in 0 .. MaxRuns /\ runNow' \in 0 .. MaxRuns
  <2>1. linkValid \in BOOLEAN /\ linkAsks \in 0 .. MaxRuns /\ runNow \in 0 .. MaxRuns /\ MaxRuns \in Nat
    BY <1>0, ExportsAssumption DEF ExportTypeOK
  <2>2. runNow' = runNow \/ runNow' = 0 \/ runNow' \in 1 .. MaxRuns
    BY DEF ExportCrash, LinkSnapshot, RunChanges, LinkEnds, exportVars
  <2>3. linkAsks' = linkAsks \/ linkAsks' = runNow
    BY DEF ExportCrash, LinkSnapshot, RunChanges, LinkEnds, exportVars
  <2>4. linkValid' = linkValid \/ linkValid' = FALSE
    BY DEF ExportCrash, LinkSnapshot, RunChanges, LinkEnds, exportVars
  <2>5. linkValid' \in BOOLEAN
    BY <2>1, <2>4
  <2> QED
    BY <2>1, <2>2, <2>3, <2>5
<1>4. ExportTypeOK'
  BY <1>0, <1>1, <1>2, <1>3 DEF ExportTypeOK, WorkRow
<1>5. \A j \in ExportIds : ExportJobSound(j)'
  <2>1. ASSUME NEW j \in ExportIds PROVE ExportJobSound(j)'
    <3>1. \A w \in ExportWorkers : j \in worker'[w].on => j \in worker[w].on
      BY <1>2 DEF NoWork
    <3> QED
      BY <3>1, <1>0, <1>1 DEF ExportJobSound
  <2> QED
    BY <2>1
\* A link that a worker holds is not revoked
<1>6. \A w \in ExportWorkers : ExportWorkSound(w)'
  <2>1. ASSUME NEW w \in ExportWorkers PROVE ExportWorkSound(w)'
    <3>1. CASE worker'[w] = NoWork
      BY <3>1 DEF ExportWorkSound, NoWork
    <3>2. CASE worker'[w] = worker[w]
      <4>1. worker[w].at = "publishing" => \A j \in worker[w].on : Allowed(j) => Allowed(j)'
        <5>1. linkValid' = linkValid \/ LinkUnused
          BY DEF ExportCrash, LinkSnapshot, RunChanges, LinkEnds, exportVars
        <5> QED
          BY <5>1, <1>1 DEF Allowed, LinkUnused
      <4>2. ExportWorkSound(w)
        BY <1>0
      <4> QED
        BY <3>2, <4>1, <4>2, <1>1 DEF ExportWorkSound
    <3> QED
      BY <3>1, <3>2, <1>2
  <2> QED
    BY <2>1
<1> QED
  BY <1>4, <1>5, <1>6 DEF ExportSound
\* The expiry of one job, but for the removal of its object
LEMMA ExportAged ==
  ASSUME ExportSound, NEW j \in ExportIds,
         \/ RetentionPasses(j) \/ ListExpired(j)
         \/ ExpireStep(j) /\ ~(expiry[j] = "claimed" /\ expiry'[j] = "removed")
  PROVE  ExportSound'
<1>0. /\ exportEvents \in SUBSET ExportIds /\ linkAsks \in 0 .. MaxRuns
      /\ expiry \in [ExportIds -> {"no", "listed", "claimed", "removed"}]
      /\ ejob \in [ExportIds -> ExportRow] /\ ejob[j] \in ExportRow
      /\ ExportJobSound(j)
  BY ExportRows DEF ExportSound, ExportTypeOK
<1>1. UNCHANGED <<worker, linkValid, cleaned, runNow, linkAsks, exportEvents>>
  BY DEF RetentionPasses, ListExpired, ExpireStep
<1>2. CASE RetentionPasses(j)
  <2>1. PICK x \in ExportRow : x = [ejob[j] EXCEPT !.old = TRUE]
    BY <1>0 DEF ExportRow
  <2>2. ejob' = [ejob EXCEPT ![j] = x] /\ UNCHANGED <<stored, expiry>>
    BY <1>0, <1>2, <2>1 DEF RetentionPasses
  <2>3. ejob'[j] = x /\ x.st = "complete" /\ x.byLink = ejob[j].byLink /\ x.old
    BY <1>0, <1>2, <2>1, <2>2 DEF ExportRow, RetentionPasses
  <2>4. j \notin exportEvents /\ \A w \in ExportWorkers : j \notin worker[w].on
    BY <1>2 DEF RetentionPasses
  <2>5. ejob[j].st = "complete"
    BY <1>2 DEF RetentionPasses
  <2>6. ExportJobSound(j)'
    BY <1>0, <1>1, <2>2, <2>3, <2>4, <2>5 DEF ExportJobSound
  <2> QED
    BY <1>0, <1>1, <2>2, <2>3, <2>6, ExportRowWritten
<1>3. CASE ListExpired(j)
  <2>1. PICK e \in {"listed", "claimed"} :
          /\ expiry' = [expiry EXCEPT ![j] = e]
          /\ e = "claimed" => ejob[j].st = "expired"
          /\ e = "listed" => ejob[j].old
    BY <1>3 DEF ListExpired
  <2>2. expiry'[j] = e /\ UNCHANGED <<ejob, stored>> /\ ejob[j].st # "none"
    BY <1>0, <1>3, <2>1 DEF ListExpired
  <2>3. ExportJobSound(j)'
    BY <1>0, <1>1, <2>1, <2>2 DEF ExportJobSound
  <2> QED
    BY <1>0, <1>1, <2>1, <2>2, <2>3, ExportStatusRow, ExportRowWritten
<1>4. CASE ExpireStep(j) /\ ~(expiry[j] = "claimed" /\ expiry'[j] = "removed")
  <2>1. /\ ejob[j].st # "none"
    <3>1. expiry[j] # "no"
      BY <1>4 DEF ExpireStep
    <3> QED
      BY <3>1, <1>0 DEF ExportJobSound
  <2>2. CASE /\ expiry[j] = "listed" /\ ejob' = Expired(j)
             /\ expiry' = [expiry EXCEPT ![j] = IF ejob[j].st = "complete" THEN "claimed" ELSE "no"]
             /\ UNCHANGED stored
    <3>1. ejob[j].old /\ ejob[j].st \in {"complete", "expired"}
      BY <1>0, <2>2 DEF ExportJobSound
    <3>2. PICK e \in {"claimed", "no"} : expiry' = [expiry EXCEPT ![j] = e]
      BY <2>2
    <3>3. PICK x \in ExportRow : ejob' = [ejob EXCEPT ![j] = x] /\ x.st = "expired" /\ x.old = ejob[j].old
                                  /\ x.byLink = ejob[j].byLink
      <4>1. [ejob[j] EXCEPT !.st = "expired"] \in ExportRow
        BY <1>0 DEF ExportRow
      <4>2. CASE ejob[j].st = "complete"
        <5>1. ejob' = [ejob EXCEPT ![j] = [ejob[j] EXCEPT !.st = "expired"]]
          BY <4>2, <2>2, <3>1 DEF Expired
        <5>2. PICK x \in ExportRow : x = [ejob[j] EXCEPT !.st = "expired"]
          BY <4>1
        <5>3. x.st = "expired" /\ x.old = ejob[j].old /\ x.byLink = ejob[j].byLink
          BY <5>2, <1>0 DEF ExportRow
        <5> QED
          BY <5>1, <5>2, <5>3
      <4>3. CASE ejob[j].st # "complete"
        BY <4>3, <2>2, <3>1, ExportStatusRow DEF Expired
      <4> QED
        BY <4>2, <4>3
    <3>4. ejob'[j] = x /\ expiry'[j] = e
      BY <1>0, <3>2, <3>3
    <3>5. ExportJobSound(j)'
      BY <1>0, <1>1, <2>2, <3>1, <3>2, <3>3, <3>4 DEF ExportJobSound
    <3> QED
      BY <1>0, <1>1, <2>2, <3>2, <3>3, <3>5, ExportRowWritten
  <2>3. CASE /\ expiry[j] = "removed"
             /\ ejob' = [ejob EXCEPT ![j].key = IF ejob[j].st = "expired" THEN FALSE ELSE @]
             /\ expiry' = [expiry EXCEPT ![j] = "no"] /\ UNCHANGED stored
    <3>1. ejob[j].st = "expired"
      BY <1>0, <2>3 DEF ExportJobSound
    <3>2. PICK x \in ExportRow : x = [ejob[j] EXCEPT !.key = FALSE]
      BY <1>0 DEF ExportRow
    <3>3. ejob' = [ejob EXCEPT ![j] = x]
      BY <1>0, <2>3, <3>1, <3>2 DEF ExportRow
    <3>4. /\ ejob'[j] = x /\ expiry'[j] = "no" /\ x.st = ejob[j].st /\ x.old = ejob[j].old
          /\ x.byLink = ejob[j].byLink
      BY <1>0, <2>3, <3>2, <3>3 DEF ExportRow
    <3>5. ExportJobSound(j)'
      BY <1>0, <1>1, <2>3, <3>4 DEF ExportJobSound
    <3> QED
      BY <1>0, <1>1, <2>1, <2>3, <3>3, <3>4, <3>5, ExportRowWritten
  <2>4. CASE expiry' = [expiry EXCEPT ![j] = "no"] /\ UNCHANGED <<ejob, stored>>
    <3>1. expiry'[j] = "no"
      BY <1>0, <2>4
    <3>2. ExportJobSound(j)'
      BY <1>0, <1>1, <2>4, <3>1 DEF ExportJobSound
    <3> QED
      BY <1>0, <1>1, <2>1, <2>4, <3>2, ExportStatusRow, ExportRowWritten
  <2>5. ~(expiry[j] = "claimed" /\ expiry' = [expiry EXCEPT ![j] = "removed"])
    BY <1>0, <1>4
  <2> QED
    BY <1>4, <2>2, <2>3, <2>4, <2>5 DEF ExpireStep
<1> QED
  BY <1>2, <1>3, <1>4

\* The object goes only after the job is marked, when no worker has it
LEMMA ExportObjectExpires ==
  ASSUME ExportSound, NEW j \in ExportIds, ExpireStep(j), expiry[j] = "claimed", expiry'[j] = "removed"
  PROVE  ExportSound'
<1>0. /\ ExportTypeOK /\ expiry \in [ExportIds -> {"no", "listed", "claimed", "removed"}]
      /\ stored \in SUBSET ExportIds
      /\ \A i \in ExportIds : ExportJobSound(i)
      /\ \A w \in ExportWorkers : ExportWorkSound(w)
  BY DEF ExportSound, ExportTypeOK
<1>1. /\ stored' = stored \ {j} /\ expiry' = [expiry EXCEPT ![j] = "removed"]
      /\ UNCHANGED <<ejob, exportEvents, worker, linkValid, runNow, cleaned, linkAsks>>
  BY <1>0 DEF ExpireStep
<1>2. ejob[j].st = "expired" /\ \A w \in ExportWorkers : j \notin worker[w].on
  BY <1>0 DEF ExportJobSound
<1>3. ExportTypeOK'
  BY <1>0, <1>1 DEF ExportTypeOK
<1>4. \A i \in ExportIds : i # j => expiry'[i] = expiry[i] /\ (i \in stored' <=> i \in stored)
  BY <1>0, <1>1
<1>5. \A i \in ExportIds : ExportJobSound(i)'
  <2>1. expiry'[j] = "removed"
    BY <1>0, <1>1
  <2>2. ExportJobSound(j)'
    BY <1>0, <1>1, <1>2, <2>1 DEF ExportJobSound
  <2>3. ASSUME NEW i \in ExportIds, i # j PROVE ExportJobSound(i)'
    BY <1>0, <1>1, <1>4, <2>3 DEF ExportJobSound
  <2> QED
    BY <2>2, <2>3
<1>6. \A w \in ExportWorkers : ExportWorkSound(w)'
  <2>1. ASSUME NEW w \in ExportWorkers PROVE ExportWorkSound(w)'
    <3>1. \A i \in worker[w].on : i \in stored => i \in stored'
      BY <1>1, <1>2
    <3> QED
      BY <1>0, <1>1, <3>1 DEF ExportWorkSound, Allowed
  <2> QED
    BY <2>1
<1> QED
  BY <1>3, <1>5, <1>6 DEF ExportSound

LEMMA ExportStep == ExportSound /\ [ExportNext]_exportVars => ExportSound'
<1>1. SUFFICES ASSUME ExportSound, [ExportNext]_exportVars PROVE ExportSound'
  OBVIOUS
<1>2. ASSUME NEW j \in ExportIds, RequestExport(j) \/ LinkRequest(j) PROVE ExportSound'
  BY <1>1, <1>2, ExportRequested
<1>3. ASSUME NEW j \in ExportIds, RetentionPasses(j) \/ ListExpired(j) \/ ExpireStep(j)
      PROVE  ExportSound'
  BY <1>1, <1>3, ExportAged, ExportObjectExpires
<1>4. ASSUME NEW j \in ExportIds, NEW w \in ExportWorkers,
             LoadJob(w, j) \/ PublishBegin(w, j) \/ Undo(w, j)
      PROVE  ExportSound'
  BY <1>1, <1>4, ExportLoaded, ExportPublishBegun, ExportUndone
<1>5. ASSUME NEW j \in ExportIds, NEW w \in ExportWorkers, NEW ok \in BOOLEAN, Render(w, j, ok)
      PROVE  ExportSound'
  BY <1>1, <1>5, ExportRendered
<1>6. ASSUME NEW j \in ExportIds, NEW w \in ExportWorkers, NEW commits \in BOOLEAN,
             NEW heard \in BOOLEAN, PublishEnd(w, j, commits, heard)
      PROVE  ExportSound'
  BY <1>1, <1>6, ExportPublishEnded
<1>7. CASE \/ \E w \in ExportWorkers : ExportCrash(w)
           \/ LinkSnapshot \/ RunChanges \/ LinkEnds \/ UNCHANGED exportVars
  BY <1>1, <1>7, ExportQuiet
<1> QED
  BY <1>1, <1>2, <1>3, <1>4, <1>5, <1>6, <1>7 DEF ExportNext

\* A job becomes complete in one place
LEMMA ExportCompletes ==
  ASSUME ExportSound, [ExportNext]_exportVars, NEW j \in ExportIds,
         ejob'[j].st = "complete", ejob[j].st # "complete"
  PROVE  \E w \in ExportWorkers : \E commits, heard \in BOOLEAN : PublishEnd(w, j, commits, heard)
<1>0. ejob \in [ExportIds -> ExportRow]
  BY ExportRows DEF ExportSound
<1>d. ejob[j] \in ExportRow
  BY <1>0
<1>1. ASSUME NEW i \in ExportIds, NEW x \in ExportRow, ejob' = [ejob EXCEPT ![i] = x],
             x.st = "complete" => ejob[i].st = "complete"
      PROVE  FALSE
  <2>1. CASE i = j
    BY <1>0, <1>1, <2>1
  <2>2. CASE i # j
    BY <1>0, <1>1, <2>2
  <2> QED
    BY <2>1, <2>2
<1>f. ASSUME NEW i \in ExportIds, ejob' = Failed(i) PROVE FALSE
  BY <1>f, <1>1, ExportStatusRow
<1>2. ASSUME NEW i \in ExportIds, RequestExport(i) \/ LinkRequest(i) PROVE FALSE
  <2>1. ASSUME NEW r, ejob' = [ejob EXCEPT ![i] = r], r.st = "queued" PROVE FALSE
    <3>1. ejob'[i] = r /\ \A k \in ExportIds : k # i => ejob'[k] = ejob[k]
      BY <1>0, <2>1
    <3> QED
      BY <2>1, <3>1
  <2>2. /\ [NoExport EXCEPT !.st = "queued", !.run = runNow].st = "queued"
        /\ [NoExport EXCEPT !.st = "queued", !.run = linkAsks, !.byLink = TRUE].st = "queued"
    BY DEF NoExport
  <2> QED
    BY <1>2, <2>1, <2>2 DEF RequestExport, LinkRequest
<1>3. ASSUME NEW i \in ExportIds, RetentionPasses(i) \/ ListExpired(i) PROVE FALSE
  <2>1. ejob[i] \in ExportRow
    BY <1>0
  <2>2. PICK x \in ExportRow : x = [ejob[i] EXCEPT !.old = TRUE]
    BY <2>1 DEF ExportRow
  <2>3. x.st = ejob[i].st
    BY <2>1, <2>2 DEF ExportRow
  <2>4. ejob' = ejob \/ ejob' = [ejob EXCEPT ![i] = x]
    BY <1>3, <2>1, <2>2 DEF RetentionPasses, ListExpired, ExportRow
  <2> QED
    BY <2>3, <2>4, <1>1
<1>4. ASSUME NEW i \in ExportIds, ExpireStep(i) PROVE FALSE
  <2>1. ejob[i] \in ExportRow
    BY <1>0
  <2>2. PICK x \in ExportRow : x = [ejob[i] EXCEPT !.st = "expired"]
    BY <2>1 DEF ExportRow
  <2>3. x.st = "expired" /\ [ejob EXCEPT ![i].st = "expired"] = [ejob EXCEPT ![i] = x]
    BY <2>1, <2>2 DEF ExportRow
  <2>4. ejob' # Expired(i)
    BY <2>3, <1>1 DEF Expired
  <2>5. PICK key \in BOOLEAN : key = (IF ejob[i].st = "expired" THEN FALSE ELSE ejob[i].key)
    BY <2>1 DEF ExportRow
  <2>6. PICK y \in ExportRow : y = [ejob[i] EXCEPT !.key = key]
    BY <2>1, <2>5 DEF ExportRow
  <2>7. y.st = ejob[i].st
    BY <2>1, <2>6 DEF ExportRow
  <2>8. ejob' # [ejob EXCEPT ![i] = y]
    BY <2>7, <1>1
  <2>9. [ejob EXCEPT ![i].key = IF ejob[i].st = "expired" THEN FALSE ELSE @] = [ejob EXCEPT ![i] = y]
    BY <2>5, <2>6
  <2> QED
    BY <1>4, <2>4, <2>8, <2>9 DEF ExpireStep
<1>5. ASSUME NEW i \in ExportIds, NEW w \in ExportWorkers,
             LoadJob(w, i) \/ PublishBegin(w, i) \/ Undo(w, i)
      PROVE  FALSE
  <2>1. PICK x \in ExportRow : /\ [ejob EXCEPT ![i].st = "running"] = [ejob EXCEPT ![i] = x]
                               /\ x = [ejob[i] EXCEPT !.st = "running"]
    BY ExportStatusRow
  <2>2. x.st = "running"
    BY <1>0, <2>1 DEF ExportRow
  <2>3. ejob' # [ejob EXCEPT ![i].st = "running"]
    BY <2>1, <2>2, <1>1
  <2> QED
    BY <1>5, <1>f, <2>3 DEF LoadJob, PublishBegin, Undo
<1>6. ASSUME NEW i \in ExportIds, NEW w \in ExportWorkers, NEW ok \in BOOLEAN, Render(w, i, ok)
      PROVE  FALSE
  BY <1>6, <1>f DEF Render
<1>7. ASSUME NEW i \in ExportIds, NEW w \in ExportWorkers, NEW commits \in BOOLEAN,
             NEW heard \in BOOLEAN, PublishEnd(w, i, commits, heard)
      PROVE  i = j
  BY <1>0, <1>7 DEF PublishEnd
<1>8. ~(\/ \E w \in ExportWorkers : ExportCrash(w)
        \/ LinkSnapshot \/ RunChanges \/ LinkEnds \/ UNCHANGED exportVars)
  BY DEF ExportCrash, LinkSnapshot, RunChanges, LinkEnds, exportVars
<1> QED
  BY <1>2, <1>3, <1>4, <1>5, <1>6, <1>7, <1>8 DEF ExportNext

LEMMA ExportAlways == ExportSpec => []ExportSound
<1>1. ExportInit => ExportSound
  BY ExportStarts
<1> QED
  BY <1>1, ExportStep, PTL DEF ExportSpec

\* The file of an available job is there, or a worker that met an error has removed it: the
\* expiry never takes the file of a job it has not marked (Handle, expireExports).
THEOREM FilesAccounted == ExportSpec => []ExportInv
<1>1. ExportSound => ExportInv
  BY DEF ExportSound, ExportInv, FileAccounted, ExportJobSound
<1> QED
  BY <1>1, ExportAlways, PTL

\* A job that a tool link asked for is published only while the link stands
\* (validateJobAgentConnection): whoever publishes holds the link since it looked.
THEOREM PublishedUnderLink == ExportSpec => PublishedWhileAllowed
<1>1. ASSUME ExportSound, [ExportNext]_exportVars, NEW j \in ExportIds,
             ejob'[j].st = "complete", ejob[j].st # "complete", ejob[j].byLink
      PROVE  linkValid
  <2>1. PICK w \in ExportWorkers, commits, heard \in BOOLEAN : PublishEnd(w, j, commits, heard)
    BY <1>1, ExportCompletes
  <2>2. ExportWorkSound(w)
    BY <1>1 DEF ExportSound
  <2> QED
    BY <1>1, <2>1, <2>2 DEF PublishEnd, ExportWorkSound, Allowed
<1>2. ExportSound /\ [ExportNext]_exportVars =>
        [\A j \in ExportIds : ejob'[j].st = "complete" /\ ejob[j].st # "complete" /\ ejob[j].byLink =>
           linkValid]_exportVars
  BY <1>1
<1> QED
  BY <1>2, ExportAlways, PTL DEF ExportSpec, PublishedWhileAllowed
-----------------------------------------------------------------------------
(* Knowledge: one blob for the same bytes                                   *)

FileRow == [st : FileStatus, blob : Files, deleted : BOOLEAN]
BlobRow == [st : FileStatus, hashed : BOOLEAN, deleted : BOOLEAN, raw : BOOLEAN,
            text : BOOLEAN, long : BOOLEAN]
DocRunRow == [at : {"idle", "loaded", "started", "attaching", "converting"},
           on : SUBSET Files, blob : SUBSET Files, found : SUBSET Files, saw : FileStatus]

\* Bytes that are gone are gone by the maintenance run.
Kept(b) == blob[b].raw \/ b \in sweptBlobs

\* A blob with a hash was uploaded, and keeps its bytes while it is in use.
BlobSound(b) ==
  /\ file[b].st = "none" <=> blob[b].st = "none"
  /\ blob[b].st = "none" => ~blob[b].hashed /\ ~blob[b].deleted
  /\ blob[b].st = "uploading" => ~blob[b].hashed
  /\ blob[b].st = "superseded" => blob[b].deleted
  /\ blob[b].st = "ready" => blob[b].text
  /\ blob[b].hashed /\ ~blob[b].deleted => Kept(b)
  /\ blob[b].deleted /\ blob[b].raw => b \in sweptBlobs
  /\ b \in listed => blob[b].st # "none"

\* A document has its own blob until it is attached to one with a hash.
FileSound(f) ==
  /\ file[f].blob # f => blob[file[f].blob].hashed
  /\ file[f].st \in {"none", "uploading"} => file[f].blob = f /\ ~blob[f].hashed /\ docEvents[f] = 0
  /\ docEvents[f] <= 1 + reprocessed
  /\ Visible(f) => Kept(file[f].blob)

\* A worker has one document; what it found under the lock of the hash stays so.
DocRunSound(w) ==
  /\ docRun[w].on = {} => docRun[w].at = "idle"
  /\ \A f \in docRun[w].on : /\ file[f].st \notin {"none", "uploading"} /\ docEvents[f] > 0
                             /\ docRun[w].blob = {file[f].blob}
  /\ \A f, g \in docRun[w].on : f = g
  /\ docRun[w].at = "attaching" =>
       /\ \A b \in docRun[w].blob :
            /\ Kept(b)
            /\ docRun[w].found # {} => ~blob[b].hashed \/ b \in sweptBlobs
            /\ docRun[w].found = {} => \A x \in Files \ {b} : blob[x].hashed => blob[x].deleted
       /\ \A x \in docRun[w].found : x \notin docRun[w].blob /\ blob[x].hashed /\ Kept(x)
       /\ docRun[w].found # {} => docRun[w].saw \notin {"none", "uploading"}

KnowSound ==
  /\ KnowTypeOK
  /\ \A b \in Files : BlobSound(b)
  /\ \A f \in Files : FileSound(f)
  /\ \A w \in DocWorkers : DocRunSound(w)
  /\ \A v, w \in DocWorkers : \/ v = w
                              \/ /\ docRun[v].on \cap docRun[w].on = {}
                                 /\ ~(docRun[v].at = "attaching" /\ docRun[w].at = "attaching")
  /\ \A x, y \in Files : blob[x].hashed /\ ~blob[x].deleted /\ blob[y].hashed /\ ~blob[y].deleted
                           => x = y

LEMMA KnowRows ==
  ASSUME KnowTypeOK
  PROVE  /\ file \in [Files -> FileRow] /\ blob \in [Files -> BlobRow]
         /\ docRun \in [DocWorkers -> DocRunRow]
         /\ docEvents \in [Files -> 0 .. 1 + MaxReprocess]
         /\ reprocessed \in 0 .. MaxReprocess /\ MaxReprocess \in Nat
BY KnowledgeAssumption DEF KnowTypeOK, FileRow, BlobRow, DocRunRow

\* ORDER BY id LIMIT 1
LEMMA FirstId ==
  ASSUME NEW S, S \subseteq Nat, S # {}
  PROVE  \E x \in S : \A y \in S : x <= y
<1>1. PICK x \in S : \A y \in S : ~(<<y, x>> \in OpToRel(<, Nat))
  BY NatLessThanWellFounded, WFMin
<1>2. ASSUME NEW y \in S PROVE x <= y
  <2>1. x \in Nat /\ y \in Nat
    OBVIOUS
  <2>2. ~(y < x)
    BY <1>1, <2>1 DEF OpToRel
  <2> QED
    BY <2>1, <2>2
<1> QED
  BY <1>2

LEMMA TouchedRow ==
  ASSUME blob \in [Files -> BlobRow], NEW b \in Files, NEW x \in BlobRow
  PROVE  /\ Touched(b, x) \in [Files -> BlobRow]
         /\ Touched(b, x)[b].st = x.st /\ Touched(b, x)[b].hashed = x.hashed
         /\ Touched(b, x)[b].deleted = x.deleted /\ Touched(b, x)[b].raw = x.raw
         /\ Touched(b, x)[b].text = x.text
         /\ \A c \in Files : c # b => Touched(b, x)[c] = blob[c]
<1>1. PICK y \in BlobRow : y = [x EXCEPT !.long = FALSE]
  BY DEF BlobRow
<1>2. /\ y.st = x.st /\ y.hashed = x.hashed /\ y.deleted = x.deleted /\ y.raw = x.raw
      /\ y.text = x.text
  BY <1>1 DEF BlobRow
<1>3. Touched(b, x) = [blob EXCEPT ![b] = y]
  BY <1>1 DEF Touched
<1> QED
  BY <1>2, <1>3

LEMMA ShownRows ==
  ASSUME file \in [Files -> FileRow], NEW b, NEW st \in FileStatus
  PROVE  /\ Shown(b, st) \in [Files -> FileRow]
         /\ \A f \in Files : /\ Shown(b, st)[f].blob = file[f].blob
                             /\ Shown(b, st)[f].deleted = file[f].deleted
                             /\ \/ Shown(b, st)[f].st = file[f].st
                                \/ /\ Shown(b, st)[f].st = st /\ Visible(f) /\ file[f].blob = b
<1>1. ASSUME NEW f \in Files
      PROVE  /\ Shown(b, st)[f] \in FileRow
             /\ Shown(b, st)[f].blob = file[f].blob
             /\ Shown(b, st)[f].deleted = file[f].deleted
             /\ \/ Shown(b, st)[f].st = file[f].st
                \/ /\ Shown(b, st)[f].st = st /\ Visible(f) /\ file[f].blob = b
  <2>1. file[f] \in FileRow
    OBVIOUS
  <2>2. PICK x \in FileRow : x = [file[f] EXCEPT !.st = st]
    BY <2>1 DEF FileRow
  <2>3. x.st = st /\ x.blob = file[f].blob /\ x.deleted = file[f].deleted
    BY <2>1, <2>2 DEF FileRow
  <2>4. Shown(b, st)[f] = IF Visible(f) /\ file[f].blob = b THEN x ELSE file[f]
    BY <2>2 DEF Shown
  <2> QED
    BY <2>1, <2>3, <2>4
<1>2. Shown(b, st) = [f \in Files |-> Shown(b, st)[f]]
  BY DEF Shown
<1> QED
  BY <1>1, <1>2

\* A step that changes what documents and blobs say, and not the bytes
Restated ==
  /\ KnowTypeOK' /\ UNCHANGED <<listed, sweptBlobs>>
  /\ \A b \in Files : /\ blob'[b].hashed = blob[b].hashed /\ blob'[b].deleted = blob[b].deleted
                      /\ blob'[b].raw = blob[b].raw
                      /\ \/ blob'[b].st = blob[b].st /\ blob'[b].text = blob[b].text
                         \/ /\ file[b].st # "none" /\ blob[b].st # "none"
                            /\ blob'[b].st \notin {"none", "uploading", "superseded"}
                            /\ blob'[b].st = "ready" => blob'[b].text
  /\ \A f \in Files : /\ file'[f].blob = file[f].blob
                      /\ \/ file'[f].st = file[f].st
                         \/ file[f].st # "none" /\ file'[f].st \notin {"none", "uploading"}
                      /\ file[f].deleted => file'[f].deleted
                      /\ docEvents'[f] <= 1 + reprocessed'
                      /\ file'[f].st \in {"none", "uploading"} => docEvents'[f] = docEvents[f]

LEMMA RestatedKeeps ==
  ASSUME KnowSound, Restated
  PROVE  /\ \A b \in Files : BlobSound(b)'
         /\ \A f \in Files : FileSound(f)'
<1>1. ASSUME NEW b \in Files PROVE BlobSound(b)'
  <2>1. BlobSound(b)
    BY DEF KnowSound
  <2> QED
    BY <2>1 DEF Restated, BlobSound, Kept
<1>2. ASSUME NEW f \in Files PROVE FileSound(f)'
  <2>1. FileSound(f) /\ file[f].blob \in Files
    BY KnowRows DEF KnowSound, FileRow
  <2>2. Visible(f)' => Visible(f)
    BY DEF Restated, Visible
  <2> QED
    BY <2>1, <2>2 DEF Restated, FileSound, Kept
<1> QED
  BY <1>1, <1>2

\* A worker that does not move
LEMMA DocRunKept ==
  ASSUME KnowSound, Restated, NEW w \in DocWorkers, docRun'[w] = docRun[w],
         \A f \in docRun[w].on : docEvents'[f] > 0
  PROVE  DocRunSound(w)'
<1>1. DocRunSound(w) /\ docRun[w] \in DocRunRow
  BY KnowRows DEF KnowSound
<1>2. ASSUME NEW f \in docRun[w].on
      PROVE  file'[f].st \notin {"none", "uploading"} /\ file'[f].blob = file[f].blob
  BY <1>1 DEF Restated, DocRunSound, DocRunRow
<1>3. \A b \in Files : blob'[b].hashed = blob[b].hashed /\ (Kept(b) => Kept(b)')
                       /\ blob'[b].deleted = blob[b].deleted /\ (b \in sweptBlobs' <=> b \in sweptBlobs)
  BY DEF Restated, Kept
<1> QED
  BY <1>1, <1>2, <1>3 DEF DocRunSound, DocRunRow

\* A step in which at most one worker moves, and it finds nothing
LEMMA RestatedStep ==
  ASSUME KnowSound, Restated, NEW W \in SUBSET DocWorkers, \A v, w \in W : v = w,
         \A w \in DocWorkers \ W : /\ docRun'[w] = docRun[w]
                                   /\ \A f \in docRun[w].on : docEvents'[f] > 0
                                   /\ \A v \in W : docRun'[v].on \cap docRun[w].on = {},
         \A w \in W : /\ docRun'[w].at # "attaching"
                      /\ docRun'[w].on = {} => docRun'[w].at = "idle"
                      /\ \A f, g \in docRun'[w].on : f = g
                      /\ \A f \in docRun'[w].on : /\ file[f].st \notin {"none", "uploading"}
                                                  /\ docEvents'[f] > 0
                                                  /\ docRun'[w].blob = {file[f].blob}
  PROVE  KnowSound'
<1>1. \A w \in DocWorkers : DocRunSound(w)'
  <2>1. ASSUME NEW w \in W PROVE DocRunSound(w)'
    <3>1. docRun'[w] \in DocRunRow
      BY DEF Restated, KnowTypeOK, DocRunRow
    <3>2. ASSUME NEW f \in docRun'[w].on
          PROVE  file'[f].st \notin {"none", "uploading"} /\ file'[f].blob = file[f].blob
      BY <3>1 DEF Restated, DocRunRow
    <3> QED
      BY <3>2 DEF DocRunSound
  <2>2. ASSUME NEW w \in DocWorkers \ W PROVE DocRunSound(w)'
    BY <2>2, DocRunKept
  <2> QED
    BY <2>1, <2>2
<1>2. ASSUME NEW v \in DocWorkers, NEW w \in DocWorkers, v # w
      PROVE  /\ docRun'[v].on \cap docRun'[w].on = {}
             /\ ~(docRun'[v].at = "attaching" /\ docRun'[w].at = "attaching")
  <2>1. /\ docRun[v].on \cap docRun[w].on = {}
        /\ ~(docRun[v].at = "attaching" /\ docRun[w].at = "attaching")
    BY <1>2 DEF KnowSound
  <2> QED
    BY <1>2, <2>1
<1>3. ASSUME NEW x \in Files, NEW y \in Files, blob'[x].hashed, ~blob'[x].deleted,
             blob'[y].hashed, ~blob'[y].deleted
      PROVE  x = y
  BY <1>3 DEF Restated, KnowSound
<1>4. KnowTypeOK'
  BY DEF Restated
<1> QED
  BY <1>1, <1>2, <1>3, <1>4, RestatedKeeps DEF KnowSound

LEMMA HasBlob ==
  ASSUME KnowSound, NEW f \in Files, file[f].st # "none"
  PROVE  /\ file[f].blob \in Files /\ file[file[f].blob].st # "none"
         /\ blob[file[f].blob].st # "none"
<1>1. file[f].blob \in Files /\ FileSound(f)
  BY KnowRows DEF KnowSound, FileRow
<1>2. BlobSound(file[f].blob)
  BY <1>1 DEF KnowSound
<1> QED
  BY <1>1, <1>2 DEF FileSound, BlobSound

\* The status of a blob and of the documents that show it
LEMMA StatusRestated ==
  ASSUME KnowSound, NEW b \in Files, file[b].st # "none",
         NEW st \in FileStatus \ {"none", "uploading", "superseded"}, NEW x \in BlobRow,
         x.st = st, x.hashed = blob[b].hashed, x.deleted = blob[b].deleted, x.raw = blob[b].raw,
         st = "ready" => x.text,
         blob' = Touched(b, x), file' = Shown(b, st), UNCHANGED <<listed, sweptBlobs>>,
         docRun' \in [DocWorkers -> DocRunRow], reprocessed' \in 0 .. MaxReprocess,
         reprocessed' \in {reprocessed, reprocessed + 1},
         docEvents' \in [Files -> 0 .. 1 + MaxReprocess],
         \A f \in Files : \/ docEvents'[f] = docEvents[f]
                          \/ /\ file[f].st \notin {"none", "uploading"}
                             /\ \/ docEvents'[f] = docEvents[f] - 1
                                \/ docEvents'[f] = docEvents[f] + 1 /\ reprocessed' = reprocessed + 1
  PROVE  Restated
<1>0. /\ KnowTypeOK /\ file \in [Files -> FileRow] /\ blob \in [Files -> BlobRow]
      /\ docEvents \in [Files -> 0 .. 1 + MaxReprocess] /\ reprocessed \in Nat /\ MaxReprocess \in Nat
  BY KnowRows DEF KnowSound
<1>1. BlobSound(b) /\ st \in FileStatus
  BY DEF KnowSound
<1>2. /\ blob' \in [Files -> BlobRow] /\ blob'[b].st = st /\ blob'[b].text = x.text
      /\ blob'[b].hashed = blob[b].hashed /\ blob'[b].deleted = blob[b].deleted
      /\ blob'[b].raw = blob[b].raw /\ \A c \in Files : c # b => blob'[c] = blob[c]
  BY <1>0, TouchedRow
<1>3. /\ file' \in [Files -> FileRow]
      /\ \A f \in Files : /\ file'[f].blob = file[f].blob /\ file'[f].deleted = file[f].deleted
                          /\ file'[f].st = file[f].st \/ (file'[f].st = st /\ Visible(f))
  BY <1>0, <1>1, ShownRows
<1>4. KnowTypeOK'
  BY <1>0, <1>2, <1>3 DEF KnowTypeOK, FileRow, BlobRow, DocRunRow
<1>5. ASSUME NEW f \in Files
      PROVE  /\ file'[f].st = file[f].st \/ (file[f].st # "none" /\ file'[f].st \notin {"none", "uploading"})
             /\ file'[f].st \in {"none", "uploading"} => docEvents'[f] = docEvents[f]
  BY <1>3 DEF Visible
<1>6. ASSUME NEW f \in Files PROVE docEvents'[f] <= 1 + reprocessed'
  <2>1. docEvents[f] <= 1 + reprocessed /\ docEvents[f] \in Nat
    BY <1>0 DEF KnowSound, FileSound
  <2>2. \/ docEvents'[f] = docEvents[f] \/ docEvents'[f] = docEvents[f] - 1
        \/ docEvents'[f] = docEvents[f] + 1 /\ reprocessed' = reprocessed + 1
    OBVIOUS
  <2> QED
    BY <2>1, <2>2, <1>0
<1>7. ASSUME NEW c \in Files
      PROVE  /\ blob'[c].hashed = blob[c].hashed /\ blob'[c].deleted = blob[c].deleted
             /\ blob'[c].raw = blob[c].raw
             /\ \/ blob'[c].st = blob[c].st /\ blob'[c].text = blob[c].text
                \/ /\ file[c].st # "none" /\ blob[c].st # "none"
                   /\ blob'[c].st \notin {"none", "uploading", "superseded"}
                   /\ blob'[c].st = "ready" => blob'[c].text
  <2>1. CASE c = b
    BY <2>1, <1>1, <1>2 DEF BlobSound
  <2>2. CASE c # b
    BY <2>2, <1>2
  <2> QED
    BY <2>1, <2>2
<1> QED
  BY <1>3, <1>4, <1>5, <1>6, <1>7 DEF Restated

LEMMA KnowStarts == ASSUME KnowInit PROVE KnowSound
<1>1. /\ \A w \in DocWorkers : docRun[w] = NoDocRun
      /\ reprocessed = 0 /\ listed = {} /\ sweptBlobs = {} /\ MaxReprocess \in Nat
  BY KnowledgeAssumption DEF KnowInit
<1>2. KnowTypeOK
  <2>1. file \in [Files -> [st : FileStatus, blob : Files, deleted : BOOLEAN]]
    BY DEF KnowInit, FileStatus
  <2>2. blob \in [Files -> [st : FileStatus, hashed : BOOLEAN, deleted : BOOLEAN, raw : BOOLEAN,
                           text : BOOLEAN, long : BOOLEAN]]
    BY DEF KnowInit, FileStatus
  <2>3. docEvents \in [Files -> 0 .. 1 + MaxReprocess] /\ reprocessed \in 0 .. MaxReprocess
    BY <1>1 DEF KnowInit
  <2> QED
    BY <1>1, <2>1, <2>2, <2>3 DEF KnowInit, KnowTypeOK, FileStatus, NoDocRun
<1>a. ASSUME NEW b \in Files
      PROVE  /\ file[b].st = "none" /\ file[b].blob = b
             /\ blob[b].st = "none" /\ ~blob[b].hashed /\ ~blob[b].deleted
  <2>1. blob[b].hashed = FALSE /\ blob[b].deleted = FALSE /\ blob[b].st = "none"
    BY DEF KnowInit
  <2>2. file[b].st = "none" /\ file[b].blob = b
    BY DEF KnowInit
  <2> QED
    BY <2>1, <2>2
<1>b. ASSUME NEW b \in Files PROVE BlobSound(b)
  BY <1>a, <1>1 DEF BlobSound
<1>3. ASSUME NEW f \in Files PROVE FileSound(f)
  <2>1. docEvents[f] = 0 /\ docEvents[f] <= 1 + reprocessed
    BY <1>1 DEF KnowInit
  <2> QED
    BY <1>a, <2>1 DEF FileSound, Visible
<1>4. \A w \in DocWorkers : DocRunSound(w)
  BY <1>1 DEF DocRunSound, NoDocRun
<1>5. \A v, w \in DocWorkers : /\ docRun[v].on \cap docRun[w].on = {}
                               /\ ~(docRun[v].at = "attaching" /\ docRun[w].at = "attaching")
  BY <1>1 DEF NoDocRun
<1> QED
  BY <1>2, <1>3, <1>4, <1>5, <1>a, <1>b DEF KnowSound

\* Requests of the administrator, but for an upload
LEMMA KnowAsked ==
  ASSUME KnowSound, NEW f \in Files, Reprocess(f)
  PROVE  KnowSound'
<1>0. /\ file \in [Files -> FileRow] /\ blob \in [Files -> BlobRow]
      /\ docRun \in [DocWorkers -> DocRunRow]
      /\ docEvents \in [Files -> 0 .. 1 + MaxReprocess]
      /\ reprocessed \in 0 .. MaxReprocess /\ MaxReprocess \in Nat
  BY KnowRows DEF KnowSound
<1>1. file[f].st \notin {"none", "uploading"} /\ FileSound(f)
  BY DEF Reprocess, Visible, KnowSound
<1>2. PICK b \in Files : b = file[f].blob /\ file[b].st # "none"
  BY <1>1, HasBlob
<1>3. PICK x \in BlobRow : x = [blob[b] EXCEPT !.st = "queued"]
  BY <1>0 DEF BlobRow, FileStatus
<1>4. /\ x.st = "queued" /\ x.hashed = blob[b].hashed /\ x.deleted = blob[b].deleted
      /\ x.raw = blob[b].raw
  BY <1>0, <1>3 DEF BlobRow
<1>5. /\ blob' = Touched(b, x) /\ file' = Shown(b, "queued")
      /\ docEvents' = [docEvents EXCEPT ![f] = @ + 1] /\ reprocessed' = reprocessed + 1
      /\ reprocessed < MaxReprocess
      /\ UNCHANGED <<docRun, listed, sweptBlobs>>
  BY <1>2, <1>3 DEF Reprocess
<1>6. /\ docEvents'[f] = docEvents[f] + 1 /\ \A g \in Files : g # f => docEvents'[g] = docEvents[g]
      /\ docEvents' \in [Files -> 0 .. 1 + MaxReprocess] /\ reprocessed' \in 0 .. MaxReprocess
  <2>1. docEvents[f] <= 1 + reprocessed /\ docEvents[f] \in Nat
    BY <1>0, <1>1 DEF FileSound
  <2>2. docEvents[f] + 1 \in 0 .. 1 + MaxReprocess
    BY <2>1, <1>0, <1>5
  <2> QED
    BY <2>2, <1>0, <1>5
<1>7. Restated
  <2>1. "queued" \in FileStatus \ {"none", "uploading", "superseded"}
    BY DEF FileStatus
  <2> QED
    BY <1>0, <1>1, <1>2, <1>4, <1>5, <1>6, <2>1, StatusRestated
<1>8. ASSUME NEW w \in DocWorkers, NEW g \in docRun[w].on PROVE docEvents'[g] > 0
  <2>1. docEvents[g] > 0 /\ g \in Files
    BY <1>0 DEF KnowSound, DocRunSound, DocRunRow
  <2> QED
    BY <2>1, <1>0, <1>6
<1> QED
  <2>1. {} \in SUBSET DocWorkers
    OBVIOUS
  <2> QED
    BY <1>5, <1>7, <1>8, <2>1, RestatedStep

LEMMA KnowCompleted ==
  ASSUME KnowSound, NEW f \in Files, NEW p \in BOOLEAN, CompleteUpload(f, p) \/ DeleteFile(f)
  PROVE  KnowSound'
<1>0. /\ file \in [Files -> FileRow] /\ blob \in [Files -> BlobRow] /\ KnowTypeOK
      /\ docRun \in [DocWorkers -> DocRunRow]
      /\ docEvents \in [Files -> 0 .. 1 + MaxReprocess]
      /\ reprocessed \in 0 .. MaxReprocess /\ MaxReprocess \in Nat
  BY KnowRows DEF KnowSound
<1>1. file[f].st # "none" /\ FileSound(f) /\ BlobSound(f)
  BY DEF CompleteUpload, DeleteFile, Visible, KnowSound
<1>2. UNCHANGED <<docRun, reprocessed, listed, sweptBlobs>>
  BY DEF CompleteUpload, DeleteFile
<1>3. PICK y \in FileRow : /\ file' = [file EXCEPT ![f] = y] /\ y.blob = file[f].blob
                           /\ y.st \notin {"none", "uploading"}
                           /\ file[f].deleted => y.deleted
  <2>0. file[f] \in FileRow
    BY <1>0
  <2>1. CASE CompleteUpload(f, p)
    <3>1. Plan(p) \in FileStatus \ {"none", "uploading"}
      BY DEF Plan, FileStatus
    <3>2. PICK y \in FileRow : y = [file[f] EXCEPT !.st = Plan(p)]
      BY <2>0, <3>1 DEF FileRow
    <3>3. y.blob = file[f].blob /\ y.st = Plan(p) /\ y.deleted = file[f].deleted
      BY <2>0, <3>2 DEF FileRow
    <3>4. file' = [file EXCEPT ![f] = y]
      BY <2>1, <3>2 DEF CompleteUpload
    <3> QED
      BY <3>1, <3>3, <3>4
  <2>2. CASE DeleteFile(f)
    <3>1. PICK y \in FileRow : y = [file[f] EXCEPT !.st = "deleted", !.deleted = TRUE]
      BY <2>0 DEF FileRow, FileStatus
    <3>2. y.blob = file[f].blob /\ y.st = "deleted" /\ y.deleted
      BY <2>0, <3>1 DEF FileRow
    <3>3. file' = [file EXCEPT ![f] = y]
      BY <2>2, <3>1, <2>0 DEF DeleteFile, FileRow
    <3> QED
      BY <3>2, <3>3
  <2> QED
    BY <2>1, <2>2
<1>4. /\ file' \in [Files -> FileRow] /\ file'[f] = y
      /\ \A g \in Files : g # f => file'[g] = file[g]
  BY <1>0, <1>3
<1>5. /\ blob' \in [Files -> BlobRow]
      /\ \A b \in Files : /\ blob'[b].hashed = blob[b].hashed /\ blob'[b].deleted = blob[b].deleted
                          /\ blob'[b].raw = blob[b].raw
                          /\ \/ blob'[b].st = blob[b].st /\ blob'[b].text = blob[b].text
                             \/ /\ file[b].st # "none" /\ blob[b].st # "none"
                                /\ blob'[b].st \in {"queued", "unsupported"}
  <2>1. CASE CompleteUpload(f, p)
    <3>1. Plan(p) \in FileStatus /\ Plan(p) \in {"queued", "unsupported"}
      BY DEF Plan, FileStatus
    <3>2. PICK x \in BlobRow : x = [blob[f] EXCEPT !.st = Plan(p)]
      BY <1>0, <3>1 DEF BlobRow
    <3>3. x.st = Plan(p) /\ x.hashed = blob[f].hashed /\ x.deleted = blob[f].deleted
          /\ x.raw = blob[f].raw
      BY <1>0, <3>2 DEF BlobRow
    <3>4. blob' = Touched(f, x)
      BY <2>1, <3>2 DEF CompleteUpload
    <3>5. /\ blob' \in [Files -> BlobRow] /\ blob'[f].st = Plan(p) /\ blob'[f].hashed = blob[f].hashed
          /\ blob'[f].deleted = blob[f].deleted /\ blob'[f].raw = blob[f].raw
          /\ \A c \in Files : c # f => blob'[c] = blob[c]
      BY <1>0, <3>3, <3>4, TouchedRow
    <3> QED
      BY <1>1, <3>1, <3>5 DEF BlobSound
  <2>2. CASE DeleteFile(f)
    BY <2>2, <1>0 DEF DeleteFile
  <2> QED
    BY <2>1, <2>2
<1>6. /\ docEvents' \in [Files -> 0 .. 1 + MaxReprocess]
      /\ \A g \in Files : /\ docEvents'[g] <= 1 + reprocessed /\ docEvents[g] <= docEvents'[g]
                          /\ g # f => docEvents'[g] = docEvents[g]
  <2>0. \A g \in Files : docEvents[g] <= 1 + reprocessed /\ docEvents[g] \in Nat
    BY <1>0 DEF KnowSound, FileSound
  <2>1. CASE docEvents' = docEvents
    BY <1>0, <2>0, <2>1
  <2>2. CASE docEvents' = [docEvents EXCEPT ![f] = @ + 1] /\ docEvents[f] = 0
    <3>1. docEvents[f] + 1 = 1 /\ 1 \in 0 .. 1 + MaxReprocess
      BY <1>0, <2>2
    <3>2. docEvents' = [docEvents EXCEPT ![f] = 1]
      BY <2>2, <3>1
    <3>3. docEvents'[f] = 1 /\ \A g \in Files : g # f => docEvents'[g] = docEvents[g]
      BY <3>2, <1>0
    <3>4. docEvents' \in [Files -> 0 .. 1 + MaxReprocess]
      BY <3>1, <3>2, <1>0
    <3>5. 1 <= 1 + reprocessed
      BY <1>0
    <3> QED
      BY <3>3, <3>4, <3>5, <2>0, <2>2
  <2>3. CompleteUpload(f, p) => docEvents[f] = 0
    BY <1>1 DEF CompleteUpload, FileSound
  <2> QED
    BY <2>1, <2>2, <2>3 DEF CompleteUpload, DeleteFile
<1>7. KnowTypeOK'
  BY <1>0, <1>2, <1>4, <1>5, <1>6 DEF KnowTypeOK, FileRow, BlobRow
<1>8. Restated
  <2>1. ASSUME NEW g \in Files
        PROVE  /\ file'[g].blob = file[g].blob
               /\ \/ file'[g].st = file[g].st
                  \/ file[g].st # "none" /\ file'[g].st \notin {"none", "uploading"}
               /\ file[g].deleted => file'[g].deleted
               /\ file'[g].st \in {"none", "uploading"} => docEvents'[g] = docEvents[g]
    BY <1>1, <1>3, <1>4, <1>6
  <2> QED
    BY <1>2, <1>5, <1>6, <1>7, <2>1 DEF Restated
<1>9. ASSUME NEW w \in DocWorkers, NEW g \in docRun[w].on PROVE docEvents'[g] > 0
  <2>1. docEvents[g] > 0 /\ g \in Files
    BY <1>0 DEF KnowSound, DocRunSound, DocRunRow
  <2>2. docEvents[g] <= docEvents'[g] /\ docEvents[g] \in Nat /\ docEvents'[g] \in Nat
    BY <2>1, <1>0, <1>6
  <2> QED
    BY <2>1, <2>2
<1> QED
  <2>1. {} \in SUBSET DocWorkers
    OBVIOUS
  <2> QED
    BY <1>2, <1>8, <1>9, <2>1, RestatedStep

\* Acknowledging an event takes it from no other document
LEMMA EventTaken ==
  ASSUME KnowSound, NEW f \in Files, Acknowledged(f), docEvents[f] > 0
  PROVE  /\ docEvents' \in [Files -> 0 .. 1 + MaxReprocess]
         /\ docEvents'[f] = docEvents[f] - 1
         /\ \A g \in Files : g # f => docEvents'[g] = docEvents[g]
<1>0. docEvents \in [Files -> 0 .. 1 + MaxReprocess] /\ MaxReprocess \in Nat
  BY KnowRows DEF KnowSound
<1>1. docEvents[f] - 1 \in 0 .. 1 + MaxReprocess
  BY <1>0
<1> QED
  BY <1>0, <1>1 DEF Acknowledged

\* Only the events and one worker move
LEMMA RestatedEvents ==
  ASSUME KnowSound, UNCHANGED <<file, blob, reprocessed, listed, sweptBlobs>>,
         docRun' \in [DocWorkers -> DocRunRow],
         docEvents' \in [Files -> 0 .. 1 + MaxReprocess],
         \A f \in Files : \/ docEvents'[f] = docEvents[f]
                          \/ /\ file[f].st \notin {"none", "uploading"}
                             /\ docEvents'[f] = docEvents[f] - 1
  PROVE  Restated
<1>0. KnowTypeOK /\ docEvents \in [Files -> 0 .. 1 + MaxReprocess] /\ reprocessed \in Nat
  BY KnowRows DEF KnowSound
<1>1. KnowTypeOK'
  BY <1>0 DEF KnowTypeOK, DocRunRow
<1>2. ASSUME NEW f \in Files PROVE docEvents'[f] <= 1 + reprocessed'
  <2>1. docEvents[f] <= 1 + reprocessed /\ docEvents[f] \in Nat
    BY <1>0 DEF KnowSound, FileSound
  <2>2. docEvents'[f] = docEvents[f] \/ docEvents'[f] = docEvents[f] - 1
    OBVIOUS
  <2> QED
    BY <2>1, <2>2, <1>0
<1> QED
  BY <1>1, <1>2 DEF Restated

\* Whoever works on a document is alone with it
LEMMA DocHeld ==
  ASSUME KnowSound, NEW w \in DocWorkers, NEW f \in docRun[w].on
  PROVE  /\ f \in Files /\ file[f].st \notin {"none", "uploading"} /\ docEvents[f] > 0
         /\ docRun[w].blob = {file[f].blob} /\ docRun[w].on = {f}
         /\ file[f].blob \in Files /\ file[file[f].blob].st # "none"
         /\ blob[file[f].blob].st # "none"
         /\ \A v \in DocWorkers : v # w => f \notin docRun[v].on
<1>1. DocRunSound(w) /\ docRun[w] \in DocRunRow
  BY KnowRows DEF KnowSound
<1>2. /\ f \in Files /\ file[f].st \notin {"none", "uploading"} /\ docEvents[f] > 0
      /\ docRun[w].blob = {file[f].blob} /\ docRun[w].on = {f}
  BY <1>1 DEF DocRunSound, DocRunRow
<1>3. \A v \in DocWorkers : v # w => f \notin docRun[v].on
  BY DEF KnowSound
<1> QED
  BY <1>2, <1>3, HasBlob

\* A worker's step that finds nothing: it goes on with its document, or is done with it
LEMMA DocStep ==
  ASSUME KnowSound, Restated, NEW w \in DocWorkers, NEW y \in DocRunRow,
         docRun' = [docRun EXCEPT ![w] = y],
         \/ y.at = "idle" /\ y.on = {}
         \/ /\ y.at # "attaching"
            /\ \E f \in Files : /\ y.on = {f} /\ y.blob = {file[f].blob} /\ docEvents'[f] > 0
                                /\ file[f].st \notin {"none", "uploading"}
                                /\ \A v \in DocWorkers : v # w => f \notin docRun[v].on,
         \A v \in DocWorkers : v # w => \A g \in docRun[v].on : docEvents'[g] > 0
  PROVE  KnowSound'
<1>0. docRun \in [DocWorkers -> DocRunRow]
  BY KnowRows DEF KnowSound
<1>1. docRun'[w] = y /\ \A v \in DocWorkers : v # w => docRun'[v] = docRun[v]
  BY <1>0
<1>2. /\ docRun'[w].at # "attaching"
      /\ docRun'[w].on = {} => docRun'[w].at = "idle"
      /\ \A f, g \in docRun'[w].on : f = g
      /\ \A f \in docRun'[w].on : /\ file[f].st \notin {"none", "uploading"} /\ docEvents'[f] > 0
                                  /\ docRun'[w].blob = {file[f].blob}
                                  /\ \A v \in DocWorkers : v # w => f \notin docRun[v].on
  BY <1>1
<1>3. PICK W \in SUBSET DocWorkers : W = {w}
  OBVIOUS
<1>4. /\ \A u, v \in W : u = v
      /\ \A v \in DocWorkers \ W : v # w /\ v \in DocWorkers
      /\ \A v \in W : v = w
  BY <1>3
<1>5. ASSUME NEW v \in DocWorkers \ W
      PROVE  /\ docRun'[v] = docRun[v]
             /\ \A f \in docRun[v].on : docEvents'[f] > 0
             /\ \A u \in W : docRun'[u].on \cap docRun[v].on = {}
  BY <1>1, <1>2, <1>4
<1>6. ASSUME NEW v \in W
      PROVE  /\ docRun'[v].at # "attaching"
             /\ docRun'[v].on = {} => docRun'[v].at = "idle"
             /\ \A f, g \in docRun'[v].on : f = g
             /\ \A f \in docRun'[v].on : /\ file[f].st \notin {"none", "uploading"}
                                         /\ docEvents'[f] > 0
                                         /\ docRun'[v].blob = {file[f].blob}
  BY <1>2, <1>4
<1> QED
  BY <1>4, <1>5, <1>6, RestatedStep

LEMMA NoDocRunRow == NoDocRun \in DocRunRow /\ NoDocRun.at = "idle" /\ NoDocRun.on = {}
BY DEF NoDocRun, DocRunRow, FileStatus

\* The event that a worker acknowledges is of its own document
LEMMA OwnEvent ==
  ASSUME KnowSound, NEW w \in DocWorkers, NEW f \in docRun[w].on,
         Acknowledged(f) \/ UNCHANGED docEvents
  PROVE  /\ docEvents' \in [Files -> 0 .. 1 + MaxReprocess]
         /\ \A g \in Files : docEvents'[g] = docEvents[g] \/ (g = f /\ docEvents'[g] = docEvents[g] - 1)
         /\ \A v \in DocWorkers : v # w => \A g \in docRun[v].on : docEvents'[g] > 0
<1>0. docEvents \in [Files -> 0 .. 1 + MaxReprocess] /\ f \in Files /\ docEvents[f] > 0
  BY KnowRows, DocHeld DEF KnowSound
<1>1. /\ docEvents' \in [Files -> 0 .. 1 + MaxReprocess]
      /\ \A g \in Files : docEvents'[g] = docEvents[g] \/ (g = f /\ docEvents'[g] = docEvents[g] - 1)
  BY <1>0, EventTaken
<1>2. ASSUME NEW v \in DocWorkers, v # w, NEW g \in docRun[v].on PROVE docEvents'[g] > 0
  <2>1. g # f /\ g \in Files /\ docEvents[g] > 0
    BY <1>2, DocHeld
  <2> QED
    BY <2>1, <1>1
<1> QED
  BY <1>1, <1>2

LEMMA KnowLoaded ==
  ASSUME KnowSound, NEW w \in DocWorkers, NEW f \in Files, LoadDocument(w, f)
  PROVE  KnowSound'
<1>0. /\ docRun \in [DocWorkers -> DocRunRow] /\ docEvents \in [Files -> 0 .. 1 + MaxReprocess]
      /\ FileSound(f) /\ file \in [Files -> FileRow] /\ file[f].blob \in Files
  BY KnowRows DEF KnowSound, FileRow
<1>1. /\ docEvents[f] > 0 /\ \A v \in DocWorkers : f \notin docRun[v].on
      /\ UNCHANGED <<file, blob, reprocessed, listed, sweptBlobs>>
  BY DEF LoadDocument
<1>2. file[f].st \notin {"none", "uploading"}
  BY <1>0, <1>1 DEF FileSound
<1>3. CASE /\ UNCHANGED docEvents
           /\ docRun' = [docRun EXCEPT ![w] = [NoDocRun EXCEPT !.at = "loaded", !.on = {f},
                                                               !.blob = {file[f].blob}]]
  <2>1. PICK y \in DocRunRow : y = [NoDocRun EXCEPT !.at = "loaded", !.on = {f}, !.blob = {file[f].blob}]
    BY <1>0 DEF NoDocRun, DocRunRow, FileStatus
  <2>2. y.at = "loaded" /\ y.on = {f} /\ y.blob = {file[f].blob}
    BY <2>1 DEF NoDocRun
  <2>3. docRun' = [docRun EXCEPT ![w] = y] /\ docRun' \in [DocWorkers -> DocRunRow]
    BY <2>1, <1>0, <1>3
  <2>4. Restated
    BY <1>0, <1>1, <1>3, <2>3, RestatedEvents
  <2>5. \A v \in DocWorkers : \A g \in docRun[v].on : docEvents'[g] > 0
    BY <1>3, DocHeld
  <2> QED
    BY <1>1, <1>2, <1>3, <2>2, <2>3, <2>4, <2>5, DocStep
<1>4. CASE Acknowledged(f) /\ UNCHANGED docRun
  <2>1. /\ docEvents' \in [Files -> 0 .. 1 + MaxReprocess]
        /\ docEvents'[f] = docEvents[f] - 1
        /\ \A g \in Files : g # f => docEvents'[g] = docEvents[g]
    BY <1>1, <1>4, EventTaken
  <2>2. Restated
    BY <1>0, <1>1, <1>2, <1>4, <2>1, RestatedEvents
  <2>3. ASSUME NEW v \in DocWorkers, NEW g \in docRun[v].on PROVE docEvents'[g] > 0
    <3>1. g # f /\ g \in Files /\ docEvents[g] > 0
      BY <1>1, DocHeld
    <3> QED
      BY <3>1, <2>1
  <2>4. {} \in SUBSET DocWorkers
    OBVIOUS
  <2> QED
    BY <1>4, <2>2, <2>3, <2>4, RestatedStep
<1> QED
  BY <1>3, <1>4 DEF LoadDocument

LEMMA KnowWorked ==
  ASSUME KnowSound, NEW w \in DocWorkers, NEW f \in Files,
         \/ StartDocument(w, f) \/ \E r \in BOOLEAN : FailDocument(w, f, r)
         \/ \E st \in {"ready", "unsupported"} : PersistConversion(w, f, st)
  PROVE  KnowSound'
<1>0. /\ docRun \in [DocWorkers -> DocRunRow] /\ docRun[w] \in DocRunRow
      /\ docEvents \in [Files -> 0 .. 1 + MaxReprocess]
      /\ reprocessed \in 0 .. MaxReprocess /\ blob \in [Files -> BlobRow]
  BY KnowRows DEF KnowSound
<1>1. f \in docRun[w].on /\ UNCHANGED <<reprocessed, listed, sweptBlobs>>
  BY DEF StartDocument, FailDocument, PersistConversion, DocAt
<1>2. PICK b \in Files : /\ docRun[w].blob = {b} /\ b = file[f].blob /\ file[b].st # "none"
  BY <1>1, DocHeld
<1>3. /\ docEvents' \in [Files -> 0 .. 1 + MaxReprocess]
      /\ \A g \in Files : docEvents'[g] = docEvents[g] \/ (g = f /\ docEvents'[g] = docEvents[g] - 1)
      /\ \A v \in DocWorkers : v # w => \A g \in docRun[v].on : docEvents'[g] > 0
  <2>1. Acknowledged(f) \/ UNCHANGED docEvents
    BY DEF StartDocument, FailDocument, PersistConversion
  <2> QED
    BY <1>1, <2>1, OwnEvent
<1>4. PICK st \in {"processing", "failed", "ready", "unsupported"}, x \in BlobRow :
        /\ blob' = Touched(b, x) /\ file' = Shown(b, st) /\ x.st = st
        /\ x.hashed = blob[b].hashed /\ x.deleted = blob[b].deleted /\ x.raw = blob[b].raw
        /\ st = "ready" => x.text
  <2>0. blob[b] \in BlobRow
    BY <1>0
  <2>1. ASSUME NEW st \in {"processing", "failed"}, SetStatus(b, st)
        PROVE  \E x \in BlobRow :
                 /\ blob' = Touched(b, x) /\ file' = Shown(b, st) /\ x.st = st
                 /\ x.hashed = blob[b].hashed /\ x.deleted = blob[b].deleted /\ x.raw = blob[b].raw
    <3>1. PICK x \in BlobRow : x = [blob[b] EXCEPT !.st = st]
      BY <2>0 DEF BlobRow, FileStatus
    <3>2. x.st = st /\ x.hashed = blob[b].hashed /\ x.deleted = blob[b].deleted /\ x.raw = blob[b].raw
      BY <2>0, <3>1 DEF BlobRow
    <3> QED
      BY <2>1, <3>1, <3>2 DEF SetStatus
  <2>2. ASSUME NEW st \in {"ready", "unsupported"}, PersistConversion(w, f, st)
        PROVE  \E x \in BlobRow :
                 /\ blob' = Touched(b, x) /\ file' = Shown(b, st) /\ x.st = st
                 /\ x.hashed = blob[b].hashed /\ x.deleted = blob[b].deleted /\ x.raw = blob[b].raw
                 /\ st = "ready" => x.text
    <3>1. PICK x \in BlobRow : x = [blob[b] EXCEPT !.st = st, !.text = (st = "ready")]
      BY <2>0 DEF BlobRow, FileStatus
    <3>2. /\ x.st = st /\ x.hashed = blob[b].hashed /\ x.deleted = blob[b].deleted
          /\ x.raw = blob[b].raw /\ x.text = (st = "ready")
      BY <2>0, <3>1 DEF BlobRow
    <3>3. blob' = Touched(b, x) /\ file' = Shown(b, st)
      BY <1>2, <2>2, <3>1 DEF PersistConversion
    <3> QED
      BY <3>2, <3>3
  <2>3. CASE StartDocument(w, f)
    BY <1>2, <2>1, <2>3 DEF StartDocument
  <2>4. CASE \E r \in BOOLEAN : FailDocument(w, f, r)
    BY <1>2, <2>1, <2>4 DEF FailDocument
  <2>5. CASE \E st \in {"ready", "unsupported"} : PersistConversion(w, f, st)
    BY <2>2, <2>5
  <2> QED
    BY <2>3, <2>4, <2>5
<1>5. PICK y \in DocRunRow :
        /\ docRun' = [docRun EXCEPT ![w] = y]
        /\ \/ y.at = "idle" /\ y.on = {}
           \/ y.at = "started" /\ y.on = {f} /\ y.blob = {b} /\ docEvents' = docEvents
  <2>1. CASE StartDocument(w, f)
    <3>1. PICK y \in DocRunRow : y = [docRun[w] EXCEPT !.at = "started"]
      BY <1>0 DEF DocRunRow
    <3>2. y.at = "started" /\ y.on = docRun[w].on /\ y.blob = docRun[w].blob
      BY <1>0, <3>1 DEF DocRunRow
    <3>3. docRun' = [docRun EXCEPT ![w] = y] /\ docEvents' = docEvents
      BY <2>1, <3>1 DEF StartDocument, DocTo
    <3> QED
      BY <1>1, <1>2, <3>2, <3>3, DocHeld
  <2>2. CASE docRun' = [docRun EXCEPT ![w] = NoDocRun]
    BY <2>2, NoDocRunRow
  <2> QED
    BY <2>1, <2>2 DEF FailDocument, PersistConversion
<1>6. Restated
  <2>1. st \in FileStatus \ {"none", "uploading", "superseded"}
    BY DEF FileStatus
  <2>2. docRun' \in [DocWorkers -> DocRunRow]
    BY <1>0, <1>5
  <2>3. file[f].st \notin {"none", "uploading"}
    BY <1>1, DocHeld
  <2> QED
    BY <1>0, <1>1, <1>2, <1>3, <1>4, <2>1, <2>2, <2>3, StatusRestated
<1>7. /\ docEvents[f] > 0 /\ file[f].st \notin {"none", "uploading"}
      /\ \A v \in DocWorkers : v # w => f \notin docRun[v].on
  BY <1>1, DocHeld
<1> QED
  BY <1>2, <1>3, <1>5, <1>6, <1>7, DocStep

\* What the maintenance run may do to the blobs
KnowGoesOn ==
  /\ blob' \in [Files -> BlobRow] /\ listed' \in SUBSET Files /\ sweptBlobs' \in SUBSET Files
  /\ \A c \in Files : /\ blob'[c].hashed = blob[c].hashed
                      /\ blob[c].deleted => blob'[c].deleted
                      /\ Kept(c) => Kept(c)'
                      /\ c \in sweptBlobs => c \in sweptBlobs'
                      /\ BlobSound(c)'

\* Time and the maintenance run: documents and workers stay as they are
LEMMA KnowMaintained ==
  ASSUME KnowSound, GracePasses \/ ListBlobs \/ \E b \in Files : SweepBlob(b)
  PROVE  KnowSound'
<1>0. /\ KnowTypeOK /\ blob \in [Files -> BlobRow] /\ listed \in SUBSET Files /\ sweptBlobs \in SUBSET Files
      /\ \A b \in Files : BlobSound(b) /\ FileSound(b)
  BY KnowRows DEF KnowSound, KnowTypeOK
<1>1. UNCHANGED <<file, docEvents, docRun, reprocessed>>
  BY DEF GracePasses, ListBlobs, SweepBlob
<1>2. KnowGoesOn
  <2>1. CASE GracePasses
    <3>1. ASSUME NEW c \in Files
          PROVE  /\ blob'[c] \in BlobRow /\ blob'[c].st = blob[c].st /\ blob'[c].hashed = blob[c].hashed
                 /\ blob'[c].deleted = blob[c].deleted /\ blob'[c].raw = blob[c].raw
                 /\ blob'[c].text = blob[c].text
      <4>1. blob[c] \in BlobRow
        BY <1>0
      <4>2. PICK x \in BlobRow : x = [blob[c] EXCEPT !.long = (blob[c].st # "none")]
        BY <4>1 DEF BlobRow
      <4>3. blob'[c] = x
        BY <2>1, <4>2 DEF GracePasses
      <4> QED
        BY <4>1, <4>2, <4>3 DEF BlobRow
    <3>2. blob' = [c \in Files |-> blob'[c]]
      BY <2>1 DEF GracePasses
    <3>3. blob' \in [Files -> BlobRow] /\ UNCHANGED <<listed, sweptBlobs>>
      BY <2>1, <3>1, <3>2 DEF GracePasses
    <3> QED
      BY <1>0, <1>1, <3>1, <3>3 DEF BlobSound, Kept, KnowGoesOn
  <2>2. CASE ListBlobs
    <3>1. /\ UNCHANGED <<blob, sweptBlobs>> /\ listed' \in SUBSET Files
          /\ \A b \in listed' : blob[b].st # "none"
      BY <2>2 DEF ListBlobs
    <3> QED
      BY <1>0, <1>1, <3>1 DEF BlobSound, Kept, KnowGoesOn
  <2>3. ASSUME NEW b \in Files, b \in listed, b \notin sweptBlobs,
               blob' = [blob EXCEPT ![b].raw = FALSE], sweptBlobs' = sweptBlobs \cup {b},
               UNCHANGED listed
        PROVE  KnowGoesOn
    <3>0. blob[b] \in BlobRow
      BY <1>0
    <3>1. PICK x \in BlobRow : x = [blob[b] EXCEPT !.raw = FALSE]
      BY <3>0 DEF BlobRow
    <3>2. /\ x.st = blob[b].st /\ x.hashed = blob[b].hashed /\ x.deleted = blob[b].deleted
          /\ x.text = blob[b].text
      BY <3>0, <3>1 DEF BlobRow
    <3>3. blob' = [blob EXCEPT ![b] = x]
      BY <2>3, <3>1
    <3>4. /\ blob' \in [Files -> BlobRow] /\ blob'[b] = x
          /\ \A c \in Files : c # b => blob'[c] = blob[c]
      BY <1>0, <3>3
    <3>5. ASSUME NEW c \in Files
          PROVE  /\ blob'[c].hashed = blob[c].hashed /\ blob'[c].deleted = blob[c].deleted
                 /\ blob'[c].st = blob[c].st /\ blob'[c].text = blob[c].text
                 /\ c = b \/ blob'[c].raw = blob[c].raw
      BY <3>2, <3>4
    <3> QED
      BY <1>0, <1>1, <2>3, <3>4, <3>5 DEF BlobSound, Kept, KnowGoesOn
  <2>4. ASSUME NEW b \in Files, b \in listed, b \in sweptBlobs,
               blob' = Touched(b, [blob[b] EXCEPT !.st = "deleted", !.deleted = TRUE, !.text = FALSE]),
               listed' = listed \ {b}, UNCHANGED sweptBlobs
        PROVE  KnowGoesOn
    <3>0. blob[b] \in BlobRow
      BY <1>0
    <3>1. PICK x \in BlobRow : x = [blob[b] EXCEPT !.st = "deleted", !.deleted = TRUE, !.text = FALSE]
      BY <3>0 DEF BlobRow, FileStatus
    <3>2. x.st = "deleted" /\ x.hashed = blob[b].hashed /\ x.deleted /\ x.raw = blob[b].raw
      BY <3>0, <3>1 DEF BlobRow
    <3>3. /\ blob' \in [Files -> BlobRow] /\ blob'[b].st = "deleted" /\ blob'[b].hashed = blob[b].hashed
          /\ blob'[b].deleted /\ blob'[b].raw = blob[b].raw
          /\ \A c \in Files : c # b => blob'[c] = blob[c]
      <4>1. blob' = Touched(b, x)
        BY <2>4, <3>1
      <4>2. /\ blob' \in [Files -> BlobRow] /\ blob'[b].st = x.st /\ blob'[b].hashed = x.hashed
            /\ blob'[b].deleted = x.deleted /\ blob'[b].raw = x.raw
            /\ \A c \in Files : c # b => blob'[c] = blob[c]
        BY <1>0, <4>1, TouchedRow
      <4> QED
        BY <3>2, <4>2
    <3>4. BlobSound(b)'
      BY <1>0, <1>1, <2>4, <3>3 DEF BlobSound, Kept
    <3>5. ASSUME NEW c \in Files, c # b PROVE BlobSound(c)'
      BY <1>0, <1>1, <2>4, <3>3, <3>5 DEF BlobSound, Kept
    <3> QED
      BY <1>0, <2>4, <3>3, <3>4, <3>5 DEF Kept, KnowGoesOn
  <2> QED
    BY <2>1, <2>2, <2>3, <2>4 DEF SweepBlob
<1>3. KnowTypeOK'
  BY <1>0, <1>1, <1>2 DEF KnowTypeOK, BlobRow, KnowGoesOn
<1>4. ASSUME NEW f \in Files PROVE FileSound(f)'
  <2>1. FileSound(f) /\ file[f].blob \in Files
    BY <1>0, KnowRows DEF FileRow
  <2> QED
    BY <2>1, <1>1, <1>2 DEF FileSound, Visible, KnowGoesOn
<1>5. ASSUME NEW w \in DocWorkers PROVE DocRunSound(w)'
  <2>1. DocRunSound(w) /\ docRun[w] \in DocRunRow
    BY KnowRows DEF KnowSound
  <2> QED
    BY <2>1, <1>1, <1>2 DEF DocRunSound, DocRunRow, KnowGoesOn
<1>6. /\ \A v, w \in DocWorkers : \/ v = w
                              \/ /\ docRun'[v].on \cap docRun'[w].on = {}
                                 /\ ~(docRun'[v].at = "attaching" /\ docRun'[w].at = "attaching")
      /\ \A x, y \in Files : blob'[x].hashed /\ ~blob'[x].deleted /\ blob'[y].hashed /\ ~blob'[y].deleted
                               => x = y
  BY <1>1, <1>2 DEF KnowSound, KnowGoesOn
<1> QED
  BY <1>2, <1>3, <1>4, <1>5, <1>6 DEF KnowSound, KnowGoesOn

LEMMA KnowUploaded ==
  ASSUME KnowSound, NEW f \in Files, Upload(f)
  PROVE  KnowSound'
<1>0. /\ KnowTypeOK /\ blob \in [Files -> BlobRow] /\ file \in [Files -> FileRow]
      /\ blob[f] \in BlobRow /\ file[f] \in FileRow /\ BlobSound(f) /\ FileSound(f)
  BY KnowRows DEF KnowSound
<1>1. file[f].st = "none" /\ UNCHANGED <<docEvents, docRun, reprocessed, listed, sweptBlobs>>
  BY DEF Upload
<1>2. /\ file' \in [Files -> FileRow] /\ file'[f].st = "uploading" /\ file'[f].blob = file[f].blob
      /\ \A g \in Files : g # f => file'[g] = file[g]
  <2>1. PICK y \in FileRow : y = [file[f] EXCEPT !.st = "uploading"]
    BY <1>0 DEF FileRow, FileStatus
  <2>2. y.st = "uploading" /\ y.blob = file[f].blob
    BY <1>0, <2>1 DEF FileRow
  <2>3. file' = [file EXCEPT ![f] = y]
    BY <2>1 DEF Upload
  <2> QED
    BY <1>0, <2>2, <2>3
<1>3. /\ blob' \in [Files -> BlobRow] /\ blob'[f].st = "uploading" /\ blob'[f].raw
      /\ blob'[f].hashed = blob[f].hashed /\ blob'[f].deleted = blob[f].deleted
      /\ \A g \in Files : g # f => blob'[g] = blob[g]
  <2>1. PICK x \in BlobRow : x = [blob[f] EXCEPT !.st = "uploading", !.raw = TRUE]
    BY <1>0 DEF BlobRow, FileStatus
  <2>2. x.st = "uploading" /\ x.raw /\ x.hashed = blob[f].hashed /\ x.deleted = blob[f].deleted
    BY <1>0, <2>1 DEF BlobRow
  <2>3. blob' = Touched(f, x)
    BY <2>1 DEF Upload
  <2> QED
    BY <1>0, <2>2, <2>3, TouchedRow
<1>4. KnowTypeOK'
  BY <1>0, <1>1, <1>2, <1>3 DEF KnowTypeOK, FileRow, BlobRow
<1>5. ~blob[f].hashed /\ ~blob[f].deleted /\ file[f].blob = f /\ docEvents[f] = 0
  BY <1>0, <1>1 DEF BlobSound, FileSound
<1>6. ASSUME NEW b \in Files PROVE BlobSound(b)'
  <2>1. BlobSound(b)
    BY DEF KnowSound
  <2> QED
    BY <2>1, <1>1, <1>2, <1>3, <1>5 DEF BlobSound, Kept
<1>7. ASSUME NEW g \in Files PROVE FileSound(g)'
  <2>1. FileSound(g) /\ file[g].blob \in Files
    BY <1>0 DEF KnowSound, FileRow
  <2>2. CASE g = f
    BY <2>1, <2>2, <1>1, <1>2, <1>3, <1>5 DEF FileSound, Kept
  <2>3. CASE g # f
    <3>1. file[g].blob # f
      BY <2>1, <2>3, <1>5 DEF FileSound
    <3> QED
      BY <2>1, <2>3, <3>1, <1>1, <1>2, <1>3 DEF FileSound, Kept, Visible
  <2> QED
    BY <2>2, <2>3
<1>8. ASSUME NEW w \in DocWorkers PROVE DocRunSound(w)'
  <2>1. DocRunSound(w) /\ docRun[w] \in DocRunRow
    BY KnowRows DEF KnowSound
  <2>2. ASSUME NEW g \in docRun[w].on
        PROVE  g \in Files /\ g # f /\ file[g].blob # f /\ file[g].blob \in Files
    BY <1>1, DocHeld
  <2>3. \A g \in docRun[w].on : file'[g] = file[g]
    BY <2>2, <1>2
  <2>6. \A b \in Files : blob'[b].hashed = blob[b].hashed /\ blob'[b].deleted = blob[b].deleted
    BY <1>3
  <2>7. \A b \in Files : Kept(b) => Kept(b)'
    BY <1>1, <1>3 DEF Kept
  <2> QED
    BY <2>1, <2>3, <2>6, <2>7, <1>1 DEF DocRunSound, DocRunRow
<1>9. /\ \A v, w \in DocWorkers : \/ v = w
                              \/ /\ docRun'[v].on \cap docRun'[w].on = {}
                                 /\ ~(docRun'[v].at = "attaching" /\ docRun'[w].at = "attaching")
      /\ \A x, y \in Files : blob'[x].hashed /\ ~blob'[x].deleted /\ blob'[y].hashed /\ ~blob'[y].deleted
                               => x = y
  <2>1. \A b \in Files : blob'[b].hashed = blob[b].hashed /\ blob'[b].deleted = blob[b].deleted
    BY <1>3
  <2> QED
    BY <2>1, <1>1 DEF KnowSound
<1> QED
  BY <1>4, <1>6, <1>7, <1>8, <1>9 DEF KnowSound

\* What a worker finds under the lock of the hash
LEMMA KnowFound ==
  ASSUME KnowSound, NEW w \in DocWorkers, NEW f \in Files, FindDuplicate(w, f)
  PROVE  KnowSound'
<1>0. /\ KnowTypeOK /\ blob \in [Files -> BlobRow] /\ file \in [Files -> FileRow]
      /\ docRun \in [DocWorkers -> DocRunRow] /\ docRun[w] \in DocRunRow /\ Files \subseteq Nat
  BY KnowRows, KnowledgeAssumption DEF KnowSound
<1>1. /\ f \in docRun[w].on /\ \A v \in DocWorkers : docRun[v].at # "attaching"
      /\ UNCHANGED <<file, blob, docEvents, reprocessed, listed, sweptBlobs>>
  BY DEF FindDuplicate, DocAt
<1>l. PICK b \in docRun[w].blob :
        /\ blob[b].raw
        /\ LET same == {x \in Files \ {b} : Reusable(x)}
               found == {x \in same : \A y \in same : x <= y}
               docs == {g \in Files : Visible(g) /\ file[g].blob \in found}
           IN docRun' = [docRun EXCEPT ![w].at = "attaching", ![w].found = found,
                ![w].saw = CASE found = {} -> "none"
                             [] docs # {}  -> file[CHOOSE g \in docs : \A h \in docs : g <= h].st
                             [] OTHER      -> blob[CHOOSE x \in found : TRUE].st]
  BY DEF FindDuplicate
<1>2. b \in Files /\ docRun[w].blob = {b} /\ b = file[f].blob
  <2>1. docRun[w].blob = {file[f].blob} /\ file[f].blob \in Files
    BY <1>1, DocHeld
  <2>2. b = file[f].blob
    BY <2>1
  <2> QED
    BY <2>1, <2>2
<1>3. PICK found \in SUBSET Files, saw \in FileStatus :
        /\ docRun' = [docRun EXCEPT ![w].at = "attaching", ![w].found = found, ![w].saw = saw]
        /\ found \subseteq {x \in Files \ {b} : blob[x].hashed /\ ~blob[x].deleted}
        /\ found = {} => \A x \in Files \ {b} : blob[x].hashed => blob[x].deleted
        /\ found # {} => saw \notin {"none", "uploading"}
        /\ blob[b].raw
  <2> DEFINE same == {x \in Files \ {b} : Reusable(x)}
             found == {x \in same : \A y \in same : x <= y}
             docs == {g \in Files : Visible(g) /\ file[g].blob \in found}
             first == CHOOSE g \in docs : \A h \in docs : g <= h
             only == CHOOSE x \in found : TRUE
             saw == CASE found = {} -> "none" [] docs # {} -> file[first].st [] OTHER -> blob[only].st
  <2>1. /\ docRun' = [docRun EXCEPT ![w].at = "attaching", ![w].found = found, ![w].saw = saw]
        /\ blob[b].raw
    BY <1>l
  <2>2. found \subseteq {x \in Files \ {b} : blob[x].hashed /\ ~blob[x].deleted}
    BY DEF Reusable
  <2>3. ASSUME found = {} PROVE \A x \in Files \ {b} : blob[x].hashed => blob[x].deleted
    <3>1. SUFFICES ASSUME NEW x \in Files \ {b}, blob[x].hashed, ~blob[x].deleted PROVE FALSE
      OBVIOUS
    <3>2. \A y \in same : y = x
      BY <3>1 DEF Reusable, KnowSound
    <3>3. x \in same
      BY <3>1 DEF Reusable, KnowSound, BlobSound
    <3>4. x <= x
      BY <1>0
    <3> QED
      BY <2>3, <3>2, <3>3, <3>4
  <2>4. ASSUME found # {} PROVE saw \in FileStatus \ {"none", "uploading"}
    <3>1. CASE docs # {}
      <4>1. \E g \in docs : \A h \in docs : g <= h
        <5>1. docs \subseteq Nat
          BY <1>0
        <5> HIDE DEF docs
        <5> QED
          BY <3>1, <5>1, FirstId
      <4>2. first \in docs
        BY <4>1
      <4>3. Visible(first) /\ first \in Files /\ file[first].blob \in found
        BY <4>2
      <4>4. blob[file[first].blob].hashed /\ FileSound(first)
        BY <4>3, <2>2 DEF KnowSound
      <4>5. file[first].st \notin {"none", "uploading"}
        BY <4>4 DEF FileSound
      <4>6. saw = file[first].st
        BY <3>1, <2>4
      <4>7. file[first].st \in FileStatus
        BY <4>3, <1>0 DEF FileRow
      <4> QED
        BY <4>5, <4>6, <4>7
    <3>2. CASE docs = {}
      <4>1. only \in found
        BY <2>4
      <4>2. only \in Files /\ blob[only].hashed /\ BlobSound(only)
        BY <4>1, <2>2 DEF KnowSound
      <4>3. saw = blob[only].st
        BY <3>2, <2>4
      <4>4. blob[only].st \in FileStatus
        BY <4>2, <1>0 DEF BlobRow
      <4> QED
        BY <4>2, <4>3, <4>4 DEF BlobSound
    <3> QED
      BY <3>1, <3>2
  <2>5. saw \in FileStatus
    <3>1. CASE found = {}
      BY <3>1 DEF FileStatus
    <3> QED
      BY <2>4, <3>1
  <2> HIDE DEF found, saw
  <2>6. found \in SUBSET Files
    BY <2>2
  <2> QED
    BY <2>1, <2>2, <2>3, <2>4, <2>5, <2>6
<1>4. PICK y \in DocRunRow : y = [docRun[w] EXCEPT !.at = "attaching", !.found = found, !.saw = saw]
  BY <1>0 DEF DocRunRow
<1>5. /\ y.at = "attaching" /\ y.found = found /\ y.saw = saw /\ y.on = docRun[w].on
      /\ y.blob = docRun[w].blob
  BY <1>0, <1>4 DEF DocRunRow
<1>6. docRun' = [docRun EXCEPT ![w] = y]
  BY <1>0, <1>3, <1>4 DEF DocRunRow
<1>7. /\ docRun' \in [DocWorkers -> DocRunRow] /\ docRun'[w] = y
      /\ \A v \in DocWorkers : v # w => docRun'[v] = docRun[v]
  BY <1>0, <1>6
<1>8. KnowTypeOK'
  BY <1>0, <1>1, <1>7 DEF KnowTypeOK, DocRunRow
<1>9. ASSUME NEW c \in Files PROVE BlobSound(c)' /\ FileSound(c)'
  <2>1. BlobSound(c) /\ FileSound(c)
    BY DEF KnowSound
  <2> QED
    BY <2>1, <1>1 DEF BlobSound, FileSound, Kept, Visible
<1>10. DocRunSound(w)'
  <2>1. DocRunSound(w)
    BY DEF KnowSound
  <2>2. Kept(b) /\ \A x \in found : blob[x].hashed /\ Kept(x)
    <3>1. \A x \in Files : BlobSound(x)
      BY DEF KnowSound
    <3> QED
      BY <3>1, <1>3 DEF BlobSound, Kept
  <2>3. ASSUME found # {} PROVE ~blob[b].hashed \/ b \in sweptBlobs
    <3>1. PICK x \in found : x \in Files /\ x # b /\ blob[x].hashed /\ ~blob[x].deleted
      BY <2>3, <1>3
    <3>2. blob[b].hashed => blob[b].deleted
      BY <1>2, <3>1 DEF KnowSound
    <3> QED
      BY <1>2, <3>2, <1>3 DEF KnowSound, BlobSound
  <2> QED
    BY <2>1, <2>2, <2>3, <1>1, <1>2, <1>3, <1>5, <1>7 DEF DocRunSound, Kept
<1>11. ASSUME NEW v \in DocWorkers, v # w PROVE DocRunSound(v)'
  <2>1. DocRunSound(v) /\ docRun'[v] = docRun[v]
    BY <1>7, <1>11 DEF KnowSound
  <2> QED
    BY <2>1, <1>1 DEF DocRunSound, Kept
<1>12. /\ \A u, v \in DocWorkers : \/ u = v
                              \/ /\ docRun'[u].on \cap docRun'[v].on = {}
                                 /\ ~(docRun'[u].at = "attaching" /\ docRun'[v].at = "attaching")
       /\ \A x, z \in Files : blob'[x].hashed /\ ~blob'[x].deleted /\ blob'[z].hashed /\ ~blob'[z].deleted
                               => x = z
  <2>1. ASSUME NEW u \in DocWorkers, NEW v \in DocWorkers, u # v
        PROVE  /\ docRun'[u].on \cap docRun'[v].on = {}
               /\ ~(docRun'[u].at = "attaching" /\ docRun'[v].at = "attaching")
    <3>1. docRun[u].on \cap docRun[v].on = {}
      BY <2>1 DEF KnowSound
    <3>2. docRun'[u].on = docRun[u].on /\ docRun'[v].on = docRun[v].on
      BY <1>5, <1>7
    <3>3. u # w \/ v # w
      BY <2>1
    <3>4. \A k \in DocWorkers : k # w => docRun'[k].at # "attaching"
      BY <1>1, <1>7
    <3> QED
      BY <3>1, <3>2, <3>3, <3>4
  <2> QED
    BY <2>1, <1>1 DEF KnowSound
<1> QED
  BY <1>8, <1>9, <1>10, <1>11, <1>12 DEF KnowSound

\* While one worker attaches, no other does; the blob it attaches is not waiting for an upload.
LEMMA AttachHeld ==
  ASSUME KnowSound, NEW w \in DocWorkers, NEW f \in docRun[w].on, docRun[w].at = "attaching"
  PROVE  /\ f \in Files /\ file[f].blob \in Files /\ docRun[w].blob = {file[f].blob}
         /\ file[f].st \notin {"none", "uploading"}
         /\ file[file[f].blob].st \notin {"none", "uploading"}
         /\ blob[file[f].blob].st # "none" /\ Kept(file[f].blob)
         /\ \A v \in DocWorkers : v # w => docRun[v].at # "attaching" /\ f \notin docRun[v].on
<1>1. /\ f \in Files /\ file[f].blob \in Files /\ docRun[w].blob = {file[f].blob}
      /\ file[f].st \notin {"none", "uploading"} /\ blob[file[f].blob].st # "none"
      /\ file[file[f].blob].st # "none"
      /\ \A v \in DocWorkers : v # w => f \notin docRun[v].on
  BY DocHeld
<1>2. PICK b \in Files : b = file[f].blob
  BY <1>1
<1>3. FileSound(b) /\ FileSound(f)
  BY <1>1, <1>2 DEF KnowSound
<1>4. file[b].st # "uploading"
  BY <1>1, <1>2, <1>3 DEF FileSound
<1>5. Kept(b)
  BY <1>1, <1>2 DEF KnowSound, DocRunSound
<1>6. \A v \in DocWorkers : v # w => docRun[v].at # "attaching"
  BY DEF KnowSound
<1> QED
  BY <1>1, <1>2, <1>4, <1>5, <1>6

LEMMA KnowHashed ==
  ASSUME KnowSound, NEW w \in DocWorkers, NEW f \in Files, AttachDuplicate(w, f),
         docRun[w].found = {}
  PROVE  KnowSound'
<1>0. /\ KnowTypeOK /\ blob \in [Files -> BlobRow] /\ docRun \in [DocWorkers -> DocRunRow]
      /\ docRun[w] \in DocRunRow
  BY KnowRows DEF KnowSound
<1>1. /\ f \in docRun[w].on /\ docRun[w].at = "attaching"
      /\ UNCHANGED <<file, docEvents, reprocessed, listed, sweptBlobs>>
  BY DEF AttachDuplicate, DocAt
<1>2. PICK b \in Files : /\ b = file[f].blob /\ docRun[w].blob = {b} /\ file[b].st \notin {"none", "uploading"}
                         /\ Kept(b)
  BY <1>1, AttachHeld
<1>3. /\ blob' = Touched(b, [blob[b] EXCEPT !.hashed = TRUE, !.st = "processing"])
      /\ DocTo(w, "converting")
  BY <1>2 DEF AttachDuplicate
<1>4. /\ blob' \in [Files -> BlobRow] /\ blob'[b].st = "processing" /\ blob'[b].hashed
      /\ blob'[b].deleted = blob[b].deleted /\ blob'[b].raw = blob[b].raw
      /\ \A c \in Files : c # b => blob'[c] = blob[c]
  <2>0. blob[b] \in BlobRow
    BY <1>0
  <2>1. PICK x \in BlobRow : x = [blob[b] EXCEPT !.hashed = TRUE, !.st = "processing"]
    BY <2>0 DEF BlobRow, FileStatus
  <2>2. x.st = "processing" /\ x.hashed /\ x.deleted = blob[b].deleted /\ x.raw = blob[b].raw
    BY <2>0, <2>1 DEF BlobRow
  <2>3. blob' = Touched(b, x)
    BY <1>3, <2>1
  <2>4. /\ blob' \in [Files -> BlobRow] /\ blob'[b].st = x.st /\ blob'[b].hashed = x.hashed
        /\ blob'[b].deleted = x.deleted /\ blob'[b].raw = x.raw
        /\ \A c \in Files : c # b => blob'[c] = blob[c]
    BY <1>0, <2>3, TouchedRow
  <2> QED
    BY <2>2, <2>4
<1>5. /\ docRun' \in [DocWorkers -> DocRunRow] /\ docRun'[w].at = "converting"
      /\ docRun'[w].on = docRun[w].on /\ docRun'[w].blob = docRun[w].blob
      /\ \A v \in DocWorkers : v # w => docRun'[v] = docRun[v] /\ docRun[v].at # "attaching"
  <2>1. PICK y \in DocRunRow : y = [docRun[w] EXCEPT !.at = "converting"]
    BY <1>0 DEF DocRunRow
  <2>2. y.at = "converting" /\ y.on = docRun[w].on /\ y.blob = docRun[w].blob
    BY <1>0, <2>1 DEF DocRunRow
  <2>3. docRun' = [docRun EXCEPT ![w] = y]
    BY <1>3, <2>1 DEF DocTo
  <2> QED
    BY <1>0, <1>1, <2>2, <2>3, AttachHeld
<1>6. KnowTypeOK'
  BY <1>0, <1>1, <1>4, <1>5 DEF KnowTypeOK, BlobRow, DocRunRow
<1>7. ASSUME NEW c \in Files PROVE BlobSound(c)'
  <2>1. BlobSound(c)
    BY DEF KnowSound
  <2>2. CASE c = b
    BY <2>1, <2>2, <1>1, <1>2, <1>4 DEF BlobSound, Kept
  <2>3. CASE c # b
    BY <2>1, <2>3, <1>1, <1>4 DEF BlobSound, Kept
  <2> QED
    BY <2>2, <2>3
<1>8. ASSUME NEW g \in Files PROVE FileSound(g)'
  <2>1. FileSound(g) /\ file[g].blob \in Files
    BY <1>0, KnowRows DEF KnowSound, FileRow
  <2>2. \A c \in Files : (Kept(c) => Kept(c)') /\ (blob[c].hashed => blob'[c].hashed)
    BY <1>1, <1>4 DEF Kept
  <2>3. file[g].st \in {"none", "uploading"} => blob'[g] = blob[g]
    BY <1>2, <1>4
  <2> QED
    BY <2>1, <2>2, <2>3, <1>1 DEF FileSound, Visible
<1>9. ASSUME NEW v \in DocWorkers PROVE DocRunSound(v)'
  <2>1. DocRunSound(v)
    BY DEF KnowSound
  <2>2. /\ docRun'[v].on = docRun[v].on /\ docRun'[v].blob = docRun[v].blob
        /\ docRun'[v].at # "attaching"
        /\ docRun'[v].at = docRun[v].at \/ v = w
    BY <1>5
  <2> QED
    BY <2>1, <2>2, <1>1 DEF DocRunSound
<1>10. /\ \A u, v \in DocWorkers : \/ u = v
                              \/ /\ docRun'[u].on \cap docRun'[v].on = {}
                                 /\ ~(docRun'[u].at = "attaching" /\ docRun'[v].at = "attaching")
  <2>1. \A v \in DocWorkers : docRun'[v].on = docRun[v].on /\ docRun'[v].at # "attaching"
    BY <1>5
  <2> QED
    BY <2>1 DEF KnowSound
<1>11. ASSUME NEW x \in Files, NEW y \in Files, blob'[x].hashed, ~blob'[x].deleted,
              blob'[y].hashed, ~blob'[y].deleted
       PROVE  x = y
  <2>1. \A c \in Files \ {b} : blob[c].hashed => blob[c].deleted
    BY <1>1, <1>2 DEF KnowSound, DocRunSound
  <2> QED
    BY <1>11, <2>1, <1>4
<1> QED
  BY <1>6, <1>7, <1>8, <1>9, <1>10, <1>11 DEF KnowSound

LEMMA KnowAttached ==
  ASSUME KnowSound, NEW w \in DocWorkers, NEW f \in Files, AttachDuplicate(w, f),
         docRun[w].found # {}
  PROVE  KnowSound'
<1>0. /\ KnowTypeOK /\ blob \in [Files -> BlobRow] /\ docRun \in [DocWorkers -> DocRunRow]
      /\ file \in [Files -> FileRow] /\ docRun[w] \in DocRunRow /\ file[f] \in FileRow
  BY KnowRows DEF KnowSound
<1>1. /\ f \in docRun[w].on /\ docRun[w].at = "attaching"
      /\ UNCHANGED <<reprocessed, listed, sweptBlobs>>
  BY DEF AttachDuplicate, DocAt
<1>2. PICK b \in Files : /\ b = file[f].blob /\ docRun[w].blob = {b}
                         /\ file[b].st \notin {"none", "uploading"} /\ blob[b].st # "none"
  BY <1>1, AttachHeld
<1>3. PICK x \in Files, saw \in FileStatus \ {"none", "uploading"} :
        /\ x # b /\ blob[x].hashed /\ Kept(x)
        /\ file' = [file EXCEPT ![f].blob = x, ![f].st = saw]
        /\ blob' = Touched(b, [blob[b] EXCEPT !.hashed = TRUE, !.st = "superseded",
                                              !.deleted = TRUE, !.raw = FALSE])
        /\ docRun' = [docRun EXCEPT ![w] = NoDocRun] /\ Acknowledged(f)
  <2>1. /\ file' = [file EXCEPT ![f].blob = CHOOSE x \in docRun[w].found : TRUE,
                                ![f].st = docRun[w].saw]
        /\ blob' = Touched(b, [blob[b] EXCEPT !.hashed = TRUE, !.st = "superseded",
                                              !.deleted = TRUE, !.raw = FALSE])
        /\ docRun' = [docRun EXCEPT ![w] = NoDocRun] /\ Acknowledged(f)
    BY <1>2 DEF AttachDuplicate
  <2>2. PICK x : x = CHOOSE z \in docRun[w].found : TRUE
    OBVIOUS
  <2>3. x \in docRun[w].found
    BY <2>2
  <2>4. DocRunSound(w)
    BY DEF KnowSound
  <2>5. x \in Files /\ x # b /\ blob[x].hashed /\ Kept(x) /\ docRun[w].saw \notin {"none", "uploading"}
    BY <2>3, <2>4, <1>0, <1>1, <1>2 DEF DocRunSound, DocRunRow
  <2>6. docRun[w].saw \in FileStatus
    BY <1>0 DEF DocRunRow
  <2>7. file' = [file EXCEPT ![f].blob = x, ![f].st = docRun[w].saw]
    BY <2>1, <2>2
  <2> QED
    BY <2>1, <2>5, <2>6, <2>7
<1>b. blob[b].hashed => b \in sweptBlobs
  BY <1>1, <1>2 DEF KnowSound, DocRunSound
<1>4. /\ file' \in [Files -> FileRow] /\ file'[f].blob = x /\ file'[f].st = saw
      /\ file'[f].deleted = file[f].deleted
      /\ \A g \in Files : g # f => file'[g] = file[g]
  <2>1. PICK y \in FileRow : y = [file[f] EXCEPT !.blob = x, !.st = saw]
    BY <1>0 DEF FileRow
  <2>2. y.blob = x /\ y.st = saw /\ y.deleted = file[f].deleted
    BY <1>0, <2>1 DEF FileRow
  <2>3. file' = [file EXCEPT ![f] = y]
    BY <1>0, <1>3, <2>1 DEF FileRow
  <2> QED
    BY <1>0, <2>2, <2>3
<1>5. /\ blob' \in [Files -> BlobRow] /\ blob'[b].st = "superseded" /\ blob'[b].hashed
      /\ blob'[b].deleted /\ ~blob'[b].raw
      /\ \A c \in Files : c # b => blob'[c] = blob[c]
  <2>0. blob[b] \in BlobRow
    BY <1>0
  <2>1. PICK y \in BlobRow : y = [blob[b] EXCEPT !.hashed = TRUE, !.st = "superseded",
                                                 !.deleted = TRUE, !.raw = FALSE]
    BY <2>0 DEF BlobRow, FileStatus
  <2>2. y.st = "superseded" /\ y.hashed /\ y.deleted /\ y.raw = FALSE
    BY <2>0, <2>1 DEF BlobRow
  <2>3. blob' = Touched(b, y)
    BY <1>3, <2>1
  <2>4. /\ blob' \in [Files -> BlobRow] /\ blob'[b].st = y.st /\ blob'[b].hashed = y.hashed
        /\ blob'[b].deleted = y.deleted /\ blob'[b].raw = y.raw
        /\ \A c \in Files : c # b => blob'[c] = blob[c]
    BY <1>0, <2>3, TouchedRow
  <2> QED
    BY <2>2, <2>4
<1>6. /\ docRun' \in [DocWorkers -> DocRunRow] /\ docRun'[w].at = "idle" /\ docRun'[w].on = {}
      /\ \A v \in DocWorkers : v # w => docRun'[v] = docRun[v] /\ docRun[v].at # "attaching"
  BY <1>0, <1>1, <1>3, NoDocRunRow, AttachHeld
<1>7. /\ docEvents' \in [Files -> 0 .. 1 + MaxReprocess]
      /\ docEvents'[f] = docEvents[f] - 1
      /\ \A g \in Files : g # f => docEvents'[g] = docEvents[g]
  <2>1. docEvents[f] > 0
    BY <1>1, DocHeld
  <2> QED
    BY <1>3, <2>1, EventTaken
<1>8. KnowTypeOK'
  BY <1>0, <1>1, <1>4, <1>5, <1>6, <1>7 DEF KnowTypeOK, FileRow, BlobRow, DocRunRow
<1>s. \A g \in Files : /\ file[g].st = "none" <=> file'[g].st = "none"
                       /\ file'[g].st = "uploading" => file[g].st = "uploading" /\ g # f /\ g # b
                       /\ file'[g].st = "none" => g # f /\ g # b
  <2>1. file[f].st \notin {"none", "uploading"}
    BY <1>1, AttachHeld
  <2> QED
    BY <2>1, <1>2, <1>4
<1>9. ASSUME NEW c \in Files PROVE BlobSound(c)'
  <2>1. BlobSound(c)
    BY DEF KnowSound
  <2>2. CASE c = b
    BY <2>2, <1>2, <1>5, <1>s DEF BlobSound, Kept
  <2>3. CASE c # b
    BY <2>1, <2>3, <1>1, <1>5, <1>s DEF BlobSound, Kept
  <2> QED
    BY <2>2, <2>3
<1>k. \A c \in Files : Kept(c) /\ c # b => Kept(c)'
  BY <1>1, <1>5 DEF Kept
<1>10. ASSUME NEW g \in Files PROVE FileSound(g)'
  <2>1. FileSound(g) /\ FileSound(f) /\ file[g].blob \in Files
    BY <1>0 DEF KnowSound, FileRow
  <2>2. CASE g = f
    <3>1. docEvents'[f] <= 1 + reprocessed'
      <4>1. docEvents[f] \in Nat /\ reprocessed \in Nat /\ docEvents[f] <= 1 + reprocessed
        BY <2>1, KnowRows DEF KnowSound, FileSound
      <4> QED
        BY <4>1, <1>1, <1>7
    <3>2. blob'[x] = blob[x] /\ Kept(x)'
      BY <1>3, <1>5, <1>k
    <3> QED
      BY <2>2, <3>1, <3>2, <1>3, <1>4 DEF FileSound
  <2>3. CASE g # f
    <3>1. file[g].blob = b => b \in sweptBlobs
      BY <2>1, <2>3, <1>2, <1>b DEF FileSound
    <3>2. PICK c \in Files : c = file[g].blob
      BY <2>1
    <3>3. Kept(c) => Kept(c)'
      BY <3>1, <3>2, <1>1, <1>k DEF Kept
    <3>4. blob[c].hashed => blob'[c].hashed
      BY <1>5
    <3>5. file'[g] = file[g] /\ docEvents'[g] = docEvents[g]
      BY <2>3, <1>4, <1>7
    <3>6. file[g].st \in {"none", "uploading"} => blob'[g] = blob[g]
      BY <3>5, <1>s, <1>5
    <3> QED
      BY <2>1, <3>2, <3>3, <3>4, <3>5, <3>6, <1>1 DEF FileSound, Visible, Kept
  <2> QED
    BY <2>2, <2>3
<1>11. ASSUME NEW v \in DocWorkers PROVE DocRunSound(v)'
  <2>1. CASE v = w
    BY <2>1, <1>6 DEF DocRunSound
  <2>2. CASE v # w
    <3>1. DocRunSound(v) /\ docRun'[v] = docRun[v] /\ docRun[v].at # "attaching"
      BY <2>2, <1>6 DEF KnowSound
    <3>2. ASSUME NEW g \in docRun[v].on PROVE file'[g] = file[g] /\ docEvents'[g] = docEvents[g]
      <4>1. g \in Files /\ g # f
        BY <2>2, <1>1, DocHeld
      <4> QED
        BY <4>1, <1>4, <1>7
    <3> QED
      BY <3>1, <3>2 DEF DocRunSound
  <2> QED
    BY <2>1, <2>2
<1>12. ASSUME NEW u \in DocWorkers, NEW v \in DocWorkers, u # v
       PROVE  /\ docRun'[u].on \cap docRun'[v].on = {}
              /\ ~(docRun'[u].at = "attaching" /\ docRun'[v].at = "attaching")
  <2>1. docRun[u].on \cap docRun[v].on = {}
    BY <1>12 DEF KnowSound
  <2>2. \A k \in DocWorkers : docRun'[k].at # "attaching" /\ docRun'[k].on \subseteq docRun[k].on
    BY <1>6
  <2> QED
    BY <2>1, <2>2
<1>13. ASSUME NEW c \in Files, NEW d \in Files, blob'[c].hashed, ~blob'[c].deleted,
              blob'[d].hashed, ~blob'[d].deleted
       PROVE  c = d
  <2>1. c # b /\ d # b
    BY <1>13, <1>5
  <2> QED
    BY <1>13, <2>1, <1>5 DEF KnowSound
<1> QED
  BY <1>8, <1>9, <1>10, <1>11, <1>12, <1>13 DEF KnowSound

LEMMA KnowCrashed ==
  ASSUME KnowSound, NEW w \in DocWorkers, DocCrash(w)
  PROVE  KnowSound'
<1>0. /\ docRun \in [DocWorkers -> DocRunRow] /\ docEvents \in [Files -> 0 .. 1 + MaxReprocess]
  BY KnowRows DEF KnowSound
<1>1. /\ docRun' = [docRun EXCEPT ![w] = NoDocRun] /\ docRun' \in [DocWorkers -> DocRunRow]
      /\ UNCHANGED <<file, blob, docEvents, reprocessed, listed, sweptBlobs>>
  BY <1>0, NoDocRunRow DEF DocCrash
<1>2. Restated
  BY <1>0, <1>1, RestatedEvents
<1>3. \A v \in DocWorkers : \A g \in docRun[v].on : docEvents'[g] > 0
  BY <1>1, DocHeld
<1> QED
  BY <1>1, <1>2, <1>3, NoDocRunRow, DocStep

LEMMA KnowStill == ASSUME KnowSound, UNCHANGED knowVars PROVE KnowSound'
<1>0. docRun \in [DocWorkers -> DocRunRow] /\ docEvents \in [Files -> 0 .. 1 + MaxReprocess]
  BY KnowRows DEF KnowSound
<1>1. UNCHANGED <<file, blob, docEvents, docRun, reprocessed, listed, sweptBlobs>>
  BY DEF knowVars
<1>2. Restated
  BY <1>0, <1>1, RestatedEvents
<1>3. \A v \in DocWorkers : \A g \in docRun[v].on : docEvents'[g] > 0
  BY <1>1, DocHeld
<1>4. {} \in SUBSET DocWorkers
  OBVIOUS
<1> QED
  BY <1>1, <1>2, <1>3, <1>4, RestatedStep

LEMMA KnowStep == KnowSound /\ [KnowNext]_knowVars => KnowSound'
<1>1. SUFFICES ASSUME KnowSound, [KnowNext]_knowVars PROVE KnowSound'
  OBVIOUS
<1>2. ASSUME NEW f \in Files, Upload(f) \/ Reprocess(f) \/ DeleteFile(f) \/ SweepBlob(f)
      PROVE  KnowSound'
  <2>1. CASE Upload(f)
    BY <1>1, <2>1, KnowUploaded
  <2>2. CASE Reprocess(f)
    BY <1>1, <2>2, KnowAsked
  <2>3. CASE DeleteFile(f)
    <3>1. TRUE \in BOOLEAN
      OBVIOUS
    <3> QED
      BY <1>1, <2>3, <3>1, KnowCompleted
  <2>4. CASE SweepBlob(f)
    BY <1>1, <2>4, KnowMaintained
  <2> QED
    BY <1>2, <2>1, <2>2, <2>3, <2>4
<1>3. ASSUME NEW f \in Files, NEW p \in BOOLEAN, CompleteUpload(f, p) PROVE KnowSound'
  BY <1>1, <1>3, KnowCompleted
<1>4. ASSUME NEW f \in Files, NEW w \in DocWorkers,
             LoadDocument(w, f) \/ StartDocument(w, f) \/ FindDuplicate(w, f) \/ AttachDuplicate(w, f)
      PROVE  KnowSound'
  <2>1. CASE LoadDocument(w, f)
    BY <1>1, <2>1, KnowLoaded
  <2>2. CASE StartDocument(w, f)
    BY <1>1, <2>2, KnowWorked
  <2>3. CASE FindDuplicate(w, f)
    BY <1>1, <2>3, KnowFound
  <2>4. CASE AttachDuplicate(w, f)
    BY <1>1, <2>4, KnowHashed, KnowAttached
  <2> QED
    BY <1>4, <2>1, <2>2, <2>3, <2>4
<1>5. ASSUME NEW f \in Files, NEW w \in DocWorkers,
             \/ \E r \in BOOLEAN : FailDocument(w, f, r)
             \/ \E st \in {"ready", "unsupported"} : PersistConversion(w, f, st)
      PROVE  KnowSound'
  BY <1>1, <1>5, KnowWorked
<1>6. ASSUME NEW w \in DocWorkers, DocCrash(w) PROVE KnowSound'
  BY <1>1, <1>6, KnowCrashed
<1>7. CASE GracePasses \/ ListBlobs
  BY <1>1, <1>7, KnowMaintained
<1>8. CASE UNCHANGED knowVars
  BY <1>1, <1>8, KnowStill
<1> QED
  BY <1>1, <1>2, <1>3, <1>4, <1>5, <1>6, <1>7, <1>8 DEF KnowNext

\* At most one element
LEMMA AtMostOne ==
  ASSUME NEW S, \A x, y \in S : x = y
  PROVE  Cardinality(S) <= 1
<1>1. CASE S = {}
  BY <1>1, FS_EmptySet
<1>2. CASE S # {}
  <2>1. PICK x \in S : S = {x}
    BY <1>2
  <2> QED
    BY <2>1, FS_Singleton
<1> QED
  BY <1>1, <1>2

\* Of the blobs with the same bytes at most one is in use, and no document loses the bytes it
\* shows but to the maintenance run: whoever uploads, reprocesses, deletes or attaches meanwhile,
\* with any number of documents and workers (attachDuplicate, expireKnowledgeBlobs).
THEOREM BytesKeptOnce == KnowSpec => []KnowledgeInv
<1>1. ASSUME KnowSound PROVE KnowledgeInv
  <2>1. OneBlobPerContent
    <3> DEFINE S == {b \in Files : blob[b].hashed /\ ~blob[b].deleted}
    <3>1. \A x, y \in S : x = y
      BY <1>1 DEF KnowSound
    <3> HIDE DEF S
    <3>2. Cardinality(S) <= 1
      BY <3>1, AtMostOne
    <3> QED
      BY <3>2 DEF OneBlobPerContent, S
  <2>2. DedupKeepsBytes
    BY <1>1 DEF KnowSound, FileSound, DedupKeepsBytes, Kept
  <2>3. ReadyHasText
    <3>1. \A f \in Files : file[f].blob \in Files
      BY <1>1, KnowRows DEF KnowSound, FileRow
    <3> QED
      BY <1>1, <3>1 DEF KnowSound, BlobSound, ReadyHasText
  <2> QED
    BY <1>1, <2>1, <2>2, <2>3 DEF KnowSound, KnowledgeInv
<1>2. KnowInit => KnowSound
  BY KnowStarts
<1> QED
  BY <1>1, <1>2, KnowStep, PTL DEF KnowSpec
=============================================================================
