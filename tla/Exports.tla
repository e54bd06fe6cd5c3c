------------------------------- MODULE Exports -------------------------------
(***************************************************************************)
(* Export jobs: requested by an administrator or through a tool link        *)
(* (api/export_handlers.go), rendered by a worker, stored and published     *)
(* (exportjob/export.go), expired by the maintenance run.  One class, one   *)
(* product (kind).                                                          *)
(*                                                                          *)
(* The event of a job may be delivered to two workers at a time, and a       *)
(* commit may take effect and still be answered with an error.              *)
(***************************************************************************)
EXTENDS Naturals, FiniteSets

CONSTANTS
  ExportIds,       \* export_job.id
  ExportWorkers,
  MaxRuns          \* bound on settlement runs

\* Runs are numbered from 1.
ASSUME ExportsAssumption == MaxRuns \in Nat \ {0}

VARIABLES
  ejob,            \* export_job
  stored,          \* jobs whose object is in the store
  exportEvents,    \* export.requested events not acknowledged
  worker,          \* Handle
  linkValid,       \* the tool link (agent_connection)
  linkAsks,        \* run that a request through the link has seen, 0: no request
  runNow,          \* newest complete settlement run that is not invalidated, 0: none
  expiry,          \* expireExports, per job it has listed
  cleaned          \* history: jobs whose object a failed Handle has removed

exportVars == <<ejob, stored, exportEvents, worker, linkValid, linkAsks, runNow, expiry,
                cleaned>>

NoExport == [st |-> "none", run |-> 0, byLink |-> FALSE, key |-> FALSE, old |-> FALSE]
NoWork == [at |-> "idle", on |-> {}]

ExportTypeOK ==
  /\ ejob \in [ExportIds -> [st : {"none", "queued", "running", "complete", "failed", "expired"},
                            run : 0 .. MaxRuns, byLink : BOOLEAN, key : BOOLEAN, old : BOOLEAN]]
  /\ stored \in SUBSET ExportIds /\ exportEvents \in SUBSET ExportIds
  /\ worker \in [ExportWorkers -> [at : {"idle", "loaded", "uploaded", "publishing", "undoing"},
                                   on : SUBSET ExportIds]]
  /\ linkValid \in BOOLEAN /\ linkAsks \in 0 .. MaxRuns /\ runNow \in 0 .. MaxRuns
  /\ expiry \in [ExportIds -> {"no", "listed", "claimed", "removed"}]
  /\ cleaned \in SUBSET ExportIds

ExportInit ==
  /\ ejob = [j \in ExportIds |-> NoExport]
  /\ stored = {} /\ exportEvents = {}
  /\ worker = [w \in ExportWorkers |-> NoWork]
  /\ linkValid = TRUE /\ linkAsks = 0 /\ runNow = 1
  /\ expiry = [j \in ExportIds |-> "no"]
  /\ cleaned = {}

-----------------------------------------------------------------------------
(* Requests *)

\* A job that the request may reuse: of the same run, waiting, or complete and not expired;
\* a tool link never sees the jobs of another link (there is one link here).
Reused(byLink) ==
  {j \in ExportIds : /\ ejob[j].run = runNow /\ (ejob[j].byLink => byLink)
                     /\ \/ ejob[j].st \in {"queued", "running"}
                        \/ ejob[j].st = "complete" /\ ~ejob[j].old}

\* requestExport of the class; the gate is open, and requests of a class are serialised.
RequestExport(j) ==
  /\ runNow # 0 /\ ejob[j].st = "none" /\ Reused(FALSE) = {}
  /\ ejob' = [ejob EXCEPT ![j] = [NoExport EXCEPT !.st = "queued", !.run = runNow]]
  /\ exportEvents' = exportEvents \cup {j}
  /\ UNCHANGED <<stored, worker, linkValid, linkAsks, runNow, expiry, cleaned>>

\* requestExport through the link runs on a snapshot that is older than the lock it waits
\* for ...
LinkSnapshot ==
  /\ runNow # 0 /\ linkValid /\ linkAsks = 0 /\ Reused(TRUE) = {}
  /\ linkAsks' = runNow
  /\ UNCHANGED <<ejob, stored, exportEvents, worker, linkValid, runNow, expiry, cleaned>>

\* ... so that a job of its run may have been queued since.
LinkRequest(j) ==
  /\ linkAsks # 0 /\ ejob[j].st = "none"
  /\ ejob' = [ejob EXCEPT ![j] = [NoExport EXCEPT !.st = "queued", !.run = linkAsks,
                                                  !.byLink = TRUE]]
  /\ exportEvents' = exportEvents \cup {j}
  /\ linkAsks' = 0
  /\ UNCHANGED <<stored, worker, linkValid, runNow, expiry, cleaned>>

\* A settlement run is invalidated, or a new one is complete.
RunChanges ==
  /\ \/ runNow > 0 /\ runNow' = 0
     \/ runNow = 0 /\ \E r \in 1 .. MaxRuns :
          /\ \A j \in ExportIds : ejob[j].run < r
          /\ runNow' = r
  /\ UNCHANGED <<ejob, stored, exportEvents, worker, linkValid, linkAsks, expiry, cleaned>>

\* A slip: the link is not locked while its job is published.
RevokeAnyTime == TRUE

\* validateJobAgentConnection holds the link FOR SHARE until the worker's transaction ends.
LinkUnused == \A w \in ExportWorkers : worker[w].at = "publishing" =>
              \A j \in worker[w].on : ~ejob[j].byLink

\* The link is revoked or its owner loses the right to export.
LinkEnds ==
  /\ linkValid /\ LinkUnused
  /\ linkValid' = FALSE
  /\ UNCHANGED <<ejob, stored, exportEvents, worker, runNow, linkAsks, expiry, cleaned>>

-----------------------------------------------------------------------------
(* The worker *)

\* validateJobAgentConnection
Allowed(j) == ejob[j].byLink => linkValid

\* markFailed
Failed(j) == IF ejob[j].st = "complete" THEN ejob ELSE [ejob EXCEPT ![j].st = "failed"]

WorkTo(w, at) == worker' = [worker EXCEPT ![w].at = at]

\* Handle and loadJob: a complete job is acknowledged, one whose link is gone fails.
LoadJob(w, j) ==
  /\ worker[w].at = "idle" /\ j \in exportEvents
  /\ \/ /\ ejob[j].st = "complete"
        /\ exportEvents' = exportEvents \ {j}
        /\ UNCHANGED <<ejob, worker>>
     \/ /\ ejob[j].st # "complete" /\ ~Allowed(j)
        /\ ejob' = Failed(j)
        /\ exportEvents' = exportEvents \ {j}
        /\ UNCHANGED worker
     \/ /\ ejob[j].st # "complete" /\ Allowed(j)
        /\ ejob' = [ejob EXCEPT ![j].st = "running"]
        /\ worker' = [worker EXCEPT ![w] = [at |-> "loaded", on |-> {j}]]
        /\ UNCHANGED exportEvents
  /\ UNCHANGED <<stored, linkValid, runNow, linkAsks, expiry, cleaned>>

\* renderAndUpload; an error marks the job and the event is delivered again.
Render(w, j, ok) ==
  /\ worker[w].at = "loaded" /\ j \in worker[w].on
  /\ IF ok THEN stored' = stored \cup {j} /\ WorkTo(w, "uploaded") /\ UNCHANGED ejob
           ELSE ejob' = Failed(j) /\ worker' = [worker EXCEPT ![w] = NoWork] /\ UNCHANGED stored
  /\ UNCHANGED <<exportEvents, linkValid, runNow, linkAsks, expiry, cleaned>>

\* The last transaction starts with the link ...
PublishBegin(w, j) ==
  /\ worker[w].at = "uploaded" /\ j \in worker[w].on
  /\ WorkTo(w, IF Allowed(j) THEN "publishing" ELSE "undoing")
  /\ UNCHANGED <<ejob, stored, exportEvents, linkValid, runNow, linkAsks, expiry, cleaned>>

\* ... and makes the job complete, unless it already is.  The commit takes effect or not,
\* and the worker hears of it or not.
PublishEnd(w, j, commits, heard) ==
  /\ worker[w].at = "publishing" /\ j \in worker[w].on
  /\ heard => commits
  /\ ejob' = IF commits /\ ejob[j].st # "complete"
              THEN [ejob EXCEPT ![j].st = "complete", ![j].key = TRUE, ![j].old = FALSE]
              ELSE ejob
  /\ IF heard THEN /\ worker' = [worker EXCEPT ![w] = NoWork]
                   /\ exportEvents' = exportEvents \ {j}
              ELSE WorkTo(w, "undoing") /\ UNCHANGED exportEvents
  /\ UNCHANGED <<stored, linkValid, runNow, linkAsks, expiry, cleaned>>

\* After an error Handle removes the object and marks the job.
Undo(w, j) ==
  /\ worker[w].at = "undoing" /\ j \in worker[w].on
  /\ stored' = stored \ {j} /\ cleaned' = cleaned \cup {j}
  /\ ejob' = Failed(j)
  /\ worker' = [worker EXCEPT ![w] = NoWork]
  /\ UNCHANGED <<exportEvents, linkValid, runNow, linkAsks, expiry>>

ExportCrash(w) ==
  /\ worker[w].at # "idle"
  /\ worker' = [worker EXCEPT ![w] = NoWork]
  /\ UNCHANGED <<ejob, stored, exportEvents, linkValid, runNow, linkAsks, expiry, cleaned>>

-----------------------------------------------------------------------------
(* Expiry *)

\* expires_at passes; the retention is days, the event is long settled.
RetentionPasses(j) ==
  /\ ejob[j].st = "complete" /\ ~ejob[j].old /\ j \notin exportEvents
  /\ \A w \in ExportWorkers : j \notin worker[w].on
  /\ ejob' = [ejob EXCEPT ![j].old = TRUE]
  /\ UNCHANGED <<stored, exportEvents, worker, linkValid, runNow, linkAsks, expiry, cleaned>>

ListExpired(j) ==
  /\ expiry[j] = "no" /\ ejob[j].key
  /\ ejob[j].st = "expired" \/ (ejob[j].st = "complete" /\ ejob[j].old)
  /\ expiry' = [expiry EXCEPT ![j] = IF ejob[j].st = "expired" THEN "claimed" ELSE "listed"]
  /\ UNCHANGED <<ejob, stored, exportEvents, worker, linkValid, runNow, cleaned, linkAsks>>

\* A slip: the object goes before the job is marked.
ExpireLate(j) == ejob

\* UPDATE export_job SET status='expired' ... WHERE status='complete' AND expires_at<=now
Expired(j) == IF ejob[j].st = "complete" /\ ejob[j].old
                THEN [ejob EXCEPT ![j].st = "expired"] ELSE ejob

\* expireExports: claim, remove the object, forget the key; the run may end in between.
ExpireStep(j) ==
  /\ \/ /\ expiry[j] = "listed"
        /\ ejob' = Expired(j)
        /\ expiry' = [expiry EXCEPT ![j] = IF ejob[j].st = "complete" THEN "claimed" ELSE "no"]
        /\ UNCHANGED stored
     \/ /\ expiry[j] = "claimed"
        /\ stored' = stored \ {j}
        /\ expiry' = [expiry EXCEPT ![j] = "removed"]
        /\ UNCHANGED ejob
     \/ /\ expiry[j] = "removed"
        /\ ejob' = [ejob EXCEPT ![j].key = IF ejob[j].st = "expired" THEN FALSE ELSE @]
        /\ expiry' = [expiry EXCEPT ![j] = "no"]
        /\ UNCHANGED stored
     \/ expiry[j] # "no" /\ expiry' = [expiry EXCEPT ![j] = "no"] /\ UNCHANGED <<ejob, stored>>
  /\ UNCHANGED <<exportEvents, worker, linkValid, runNow, cleaned, linkAsks>>

ExportNext ==
  \/ \E j \in ExportIds :
       \/ RequestExport(j) \/ LinkRequest(j)
       \/ RetentionPasses(j) \/ ListExpired(j) \/ ExpireStep(j)
       \/ \E w \in ExportWorkers :
            \/ LoadJob(w, j) \/ PublishBegin(w, j) \/ Undo(w, j)
            \/ \E ok \in BOOLEAN : Render(w, j, ok)
            \/ \E commits, heard \in BOOLEAN : PublishEnd(w, j, commits, heard)
  \/ \E w \in ExportWorkers : ExportCrash(w)
  \/ LinkSnapshot \/ RunChanges \/ LinkEnds

ExportSpec == ExportInit /\ [][ExportNext]_exportVars

-----------------------------------------------------------------------------
(* Properties *)

\* A job that a tool link asked for is published only while the link stands: the lock
\* orders the publication and the revocation (validateJobAgentConnection).
PublishedWhileAllowed ==
  [][\A j \in ExportIds : ejob'[j].st = "complete" /\ ejob[j].st # "complete" /\ ejob[j].byLink =>
       linkValid]_exportVars

\* The file of an available job is there; the one way to lose it is a worker that met an
\* error after its upload and removed it, never the expiry (Handle, expireExports).
FileAccounted ==
  \A j \in ExportIds : ejob[j].st = "complete" => j \in stored \/ j \in cleaned

\* Workers, commits with a lost answer, expiry (exportjob/export.go): the file of an available job
\* is there, or it is known who removed it.
ExportInv == ExportTypeOK /\ FileAccounted
=============================================================================
