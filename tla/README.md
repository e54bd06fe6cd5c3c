# Easy GPA: a TLA+ verification of the scoring workflow

Easy GPA scores the achievements of the students of a class. A student submits
items with evidence, two reviewers conclude on each, disagreements and appeals
go to an arbitration desk, and at the end a settlement run freezes all scores
and ranks. The backend (`src/backend`, Go) is a set of HTTP handlers over
PostgreSQL, and workers that are fed by events over Redis streams. A request of the
web is one `READ COMMITTED` transaction (`api/middleware.go`), a call of a tool link one
`REPEATABLE READ` or `SERIALIZABLE` transaction; rows are locked with `SELECT ... FOR UPDATE`,
and the writing requests of a class wait for each other. What is hard is not a single
handler but what happens between them: who read what before whose lock, what runs beside
the requests of a class, and what a long sequence of legal requests adds up to.

## 1. Inventory

| Component | State | Operations | Correct means |
|---|---|---|---|
| Review rules (`internal/review`) | none | `CanTransition`, `Reconcile` | two agreeing conclusions give a score, anything else a conflict |
| Submissions (`api/submission_handlers.go`) | `submission` | create, update, submit, withdraw, delete | material is frozen once somebody concluded |
| Dispatch (`internal/dispatch`, `api/dispatch_handlers.go`, `api/recusal.go`) | `submission_reviewer`, duty of the reviewers | event worker, manual run, rebalance, hand-over, reassignment, take-over | two seats, two people, never the owner |
| Review desk (`api/review_handlers.go`) | `review` | open, conclude, revise | a score is one that two reviewers agreed on; a decision stands |
| Classification (`api/classification_handlers.go`) | `classification_suggestion`, `classification_resolution` | suggest, resolve | what counts has a score |
| Appeals, arbitration (`api/appeal_handlers.go`) | `appeal`, `appeal_reviewer` | draft, file, withdraw, delete, panel decision, final ruling, arbitration | two rounds, one at a time; resolved only by the whole panel |
| Objections (`api/review_objection_handlers.go`) | `objection` | draft, submit, withdraw, decide | a correction ends them |
| Corrections (`api/force_rejection_handlers.go`, migrations 50, 56) | `force_rejection`, `forced_score` | force reject, force score, self reject | end all work on the item, and stand |
| Seals, gate (`api/seal_handlers.go`, `settle/gate.go`) | `seal`, `gate_override` | seal, unseal, force gate | a run rests on seals that are still there |
| Settlement (`api/settlement_handlers.go`, `api/scheme_handlers.go`, `api/export_handlers.go`) | `settlement_run`, `settlement_invalidation`, the current scheme | run, reuse, invalidate, publish a scheme, hand out | one valid run of a scheme at most; that of the current scheme shows the present scores |
| Score arithmetic (`scheme/score.go`, `settle/settle.go`, `api/gpa_handlers.go`) | snapshots of items, marks of the class | category total, ranks, honours, tiers, import of marks | independent of map order; who is better is not behind |
| Bonus grants (`api/bonus_grant_*.go`) | `submission`, `bonus_grant_upload`, copies | grant | as corrections; a copy for everybody or nothing |
| Evidence (`api/evidence_handlers.go`, `api/note_evidence_handlers.go`, `api/quota.go`) | `evidence`, objects in the store | presign, upload, complete, delete | a ready row has its object; the day's bytes are bounded |
| Event delivery (`internal/events`) | `outbox_event`, stream, pending lists, leases, counters, dead letters | enqueue, relay, read, claim, finish, retry, defer, bury, redeliver | nothing lost, no two handlers at once, everything settled |
| Mail (`internal/notify`) | `mail_notification`, `mail_batch`, ledger of attempts, preferences, suppression list | enqueue, prepare, send, finish, reconcile, switch, flush, feedback | nothing is mailed twice, whatever a provider's answer |
| Sessions (`internal/auth`) | refresh keys, families, user index, registration tickets, account version | register, log in, rotate, replay, log out, revoke, change role, reset | what was ended stays ended |
| Addresses (`api/me_handlers.go`) | `user_email`, codes | request, verify, choose, delete | one primary address |
| Members (`api/roster_handlers.go`, `api/deputy_*.go`) | `whitelist`, `app_user` | import, register, role, status, deputy, rulings | a deputy is an active member of the group; a ruling keeps its authority |
| Tool links (`api/mcp_*.go`) | `agent_connection`, `agent_operation` | open, revoke, call, prepare, decide, commit | once, with approval, and only while the link stands |
| Collective governance (`api/governance_*.go`, `internal/governance`) | `governance_proposal`, voters, cases, opinions, ballots | activate, propose, vote, execute; draw, decide, expand, ballot, appeal | what is carried out is what was voted on, by enough votes, by independent panels |
| Reports (`api/report_*.go`) | `student_report` | file, judge, settle, rule | never better, each counted once |
| Recognition (`internal/aijob`, `api/ai_handlers.go`) | `ai_batch`, items, chunks | create, start, cancel, retry, apply, delete, expire | a picture becomes one draft; what is shown is stored |
| Assistant (`internal/agentjob/message.go`, `api/agent_*.go`) | messages, drafts | ask, run, stream, cancel, prepare, apply, reject | answered once; what was confirmed is what is executed |
| Knowledge (`internal/agentjob/worker.go`, `api/knowledge_handlers.go`) | documents, blobs | upload, hash, deduplicate, convert, reprocess, delete, expire | one blob per content, kept while needed |
| Exports (`internal/exportjob`, `api/export_handlers.go`) | `export_job`, objects | request, render, publish, expire | published only while allowed; no file lost or forgotten |
| Backups (`internal/backupjob`) | `backup_job`, `backup`, directories, remote copies | daily, claim, dump, finish, drill, push, prune, clean up | a complete backup is whole |
| Live score card, blind audit, web client | | | not modelled; `PROJECT.json` gives the reason for each |

How they interact: handlers of submissions, dispatch, desk, adjudication and
corrections share the row of the item and its dependent rows; the row lock is
what orders them, as far as they take it. Before that, `governanceGuard` (`governance_guard.go:12-19`,
`governance_handlers.go:36-42`) takes an advisory lock of the class for every request that is not a `GET`, before it
reads the mode of the class, in every mode, and holds it to the commit. The web's routes of a class
(`router.go:93-94`), the calls of tool links (`mcp_transport.go:192`, 231) and the governance
scheduler (`governance_scheduler.go:46`) pass through it, so that of these one at a time reads and writes. What it does not order:

- what takes no such lock: the owner's own account (`/me/*`), registration and sessions, the routes of the
  operators, and the workers, which dispatch, mail, recognise, render and answer beside the requests of the class.
  Dispatch takes a class lock of its own, except the take-over;
- what a request has read before it waited. A tool link's transaction takes its snapshot with its first
  statement, which sets the tenant (`store/db.go:91-103`), so that it may act on what was no longer so; it fails if
  it updates or locks a row that has changed since, not if it has only read it. And the time of a transaction, which
  dates settlement runs, is its beginning;
- the order of requests, and what happens between two of them.

A handler that commits may leave an
event in the outbox, which a relay moves to the stream and the workers consume: dispatch,
mail, recognition, assistant, knowledge and exports are such consumers, so that each
of their models lets an event be delivered again at any time. Backups are fed by a table
of jobs and one runner. Role and status changes end sessions and tool links.

The hard behaviours, each at its line, are the "hazards" of `PROJECT.json`.

## 2. Modules

| Module | Models | Extends |
|---|---|---|
| `ReviewRules` | statuses, decisions, transition table, `Reconcile` | |
| `ReviewDesk` | from draft to first score: student, dispatch, desk, forced rejection, classification resolution | `ReviewRules` |
| `Adjudication` | what follows: appeals, objections, suggestions, arbitration, corrections | `ReviewRules` |
| `Settlement` | gate, schemes, runs, invalidation, seals, rulings and corrections as seen by a run, the run an export hands out | |
| `Scoring` | the total of a category as the loop the code runs; totals, ranks, honours and tiers of the class | `Sums` |
| `Evidence` | rows and objects of files, quota, bonus grants | |
| `EventDelivery` | outbox, relay, consumer groups, leases, dead letters | |
| `Delivery` | what event delivery promises: owed, served, given up after so many failures | |
| `MailQueue` | reminders, batches, the audited send, four providers | |
| `Sessions`, `Emails`, `ToolLinks` | what belongs to an account | |
| `Members`, `Reports` | people of a class; reports against scores | `Reports`: `Sums` |
| `Sums` | what is added up and put in order: the sum of a function over a set, the members of a set in a strict order | |
| `Proposals`, `Panels` | collective governance: the class decides; a panel decides | |
| `Recognition`, `Assistant`, `Knowledge`, `Exports`, `Backups` | work of the workers and of the backup runner | |
| `ReviewDeskProofs`, `EventDeliveryProofs` | the theorems; that `EventDelivery` implements `Delivery` is in `EventDeliveryProofs` | their module, `TLAPS` |
| `SettlementProofs` | what valid runs show; the arithmetic of a settlement | `Settlement`, `Scoring`, `SumProofs`, `TLAPS` |
| `AccountProofs` | what belongs to an account, and the mail that is sent to it | `Emails`, `ToolLinks`, `Sessions`, `MailQueue`, `TLAPS` |
| `RulingProofs` | rulings, votes and panels | `Adjudication`, `Proposals`, `Panels`, `TLAPS` |
| `RecordProofs` | files, people, backups and reports | `Evidence`, `Members`, `Backups`, `Reports`, `SumProofs`, `TLAPS` |
| `JobProofs` | pictures, questions, exports and documents | `Recognition`, `Assistant`, `Exports`, `Knowledge`, `TLAPS` |
| `SumProofs` | lemmas about sums and listings, for every finite set | `Sums`, `TLAPS` |
| `MCReviewDesk` | instances of the desk for TLC | `ReviewDesk` |
| `MCGrants` | what counts in the end, side by side: settlement, files, arithmetic | `Settlement`, `Evidence`, `Scoring` |
| `MCWorkers` | worker processes, side by side | `EventDelivery`, `Knowledge`, `Backups` |
| `MCAccounts` | what a person of a class has, side by side | `Members`, `Sessions`, `Emails`, `ToolLinks`, `MailQueue`, `Assistant`, `Exports` |
| `MCRulings` | what is ruled, and what a model reads in pictures, side by side | `Adjudication`, `Proposals`, `Panels`, `Reports`, `Recognition` |

Names carry a prefix of their component where several are instantiated together
(`SessInit`, `mailVars`), so that one instance can hold them side by side.

### Grain

A request that holds the lock of its class, or of the row of its item, before it reads anything it decides on
is one action. A request that reads first and writes later is two: a Begin, which
records in a transaction variable what was read, and a Commit, which applies the
write to the state of that moment, with the `WHERE` clauses, unique indexes,
foreign keys, CHECKs and triggers that the database evaluates then. Every such
transaction has an Abort (index violated, deadlock, crash, lost connection). These
are:

- `dtx`, `utx` in `ReviewDesk`: dispatch under the class lock, and take-overs,
  which run beside it. `SeatLocked` is the `FOR UPDATE OF sr` of a single
  reassignment.
- `rtx` in `ReviewDesk`: a reviewer's open workbench (`saw`, the version of the
  material) and, once the conclusion is posted, the seat and expected number that
  `loadReviewerTask` evaluated with the snapshot it started with.
- `otx` in `Adjudication`: objections between `validateObjection` and the write. The class lock lets
  nothing of the class in between but what a link saw before it waited, so that the model allows more than the code does:
  what it shows, it shows of the code too.
- `settling` in `Settlement`: a `class.settle` call of a tool link, from its snapshot to its commit.
  Other calls of links differ from requests of the web in the run they find to invalidate
  (`InvalidateLatestSettlement`); `late` remembers which writes have acted on what was no longer so.
- `reportTx` in `Reports`: a verdict given through a tool link, from its snapshot to its commit.
- `work` in `EventDelivery`: a consumer between two Lua scripts. A script is one
  action, since Redis runs it atomically; so is one in `Sessions`, where a request is a
  sequence of Redis scripts and database statements.
- `mtx` in `MailQueue`: a worker between its reservation, the call of the provider, the
  record of the outcome and the commit. The ledger commits on its own connection, so that
  a crash keeps it and rolls back the queue.
- `ftx` in `Evidence`: a request between its locks and its commit; hooks that remove
  objects run after the commit, or never.
- `ttx` in `ToolLinks`: a call from its authentication to its answer. Calls run at
  REPEATABLE READ or SERIALIZABLE: one that updates or locks a row which changed after its snapshot fails.
- the requests of `Emails`: statement by statement, for the owner's routes take no lock that orders them. `mreq` in
  `Members`: a request that holds rows, beside appointments by operators and registrations, which take
  no class lock; `MemberTxs` says how many requests hold rows at once.
- the workers of `Recognition`, `Assistant`, `Knowledge` and `Exports`: one action per
  checkpoint they commit, with a loss of the worker or of its advisory lock in between.
- `Scoring`: one action per item and per entry of the map, whose order is open.
- `Proposals` and `Panels` have no transaction variables: their requests hold the class's
  lock before they read anything.

### Abstractions

- Material is a version number; a claim, its rule and its evidence do not matter to
  the workflow. Points are the members of a small set and are only compared, except
  in self rejection, which refuses negative ones.
- Windows, capabilities, lockdown, roles and rate limits can only refuse a request,
  and a refused request changes nothing.
- `ReviewDesk` seats any two eligible reviewers where the code takes the ones with
  the least load, so what is shown holds for every balancing rule.
- In `Adjudication` the desk is its result (`DeskDecides`) and a settlement run is
  the lock it puts on scored items; in `Settlement` a ruling is the score it writes and the run it invalidates.
- A settlement run that was invalidated is left out of `Settlement`: nothing that decides reads one.
- Ids of seats (`SeatIds`) are reused once nothing refers to them: a bound that keeps
  the state space finite. `FreshIds` gives a new row an id that no row, conclusion
  or transaction refers to.
- What a model, a mail provider, an object store, `pg_dump` or a remote store answers is any of
  the outcomes the code tells apart, unclear ones included: a mail may have been
  accepted although its answer got lost, a removal may fail, a directory may be left in part.
- Members under collective governance are alike, so that `Proposals` counts them; `Panels`
  needs their numbers and takes the order of the drawing from them.
- All files of `Evidence` have one size, all documents of `Knowledge` have the same bytes: the
  cases in which quota and deduplication matter.
- `Scoring` computes in thousandths, as the code does; percentages round half away from zero. The binary product that
  the code rounds may fall on the other side of a half; the proofs use only that rounding keeps order and sign.
- Leases, deferrals and idle times have no clock: a pending message may be claimed at
  any time, a deferral ends at some time, and a lease ends when its holder is gone
  or, as a fault, under a holder that is too slow.

### Names marked "A slip"

Definitions with that comment are plausible mistakes (a dropped guard, a forgotten
lock). No specification uses them; `PROJECT.json` ("mutants") names, for every property,
the definition that is replaced by one of them to see the property fail.

## 3. Properties and runs

| Run | Instance | Distinct states | Checks |
|---|---|---|---|
| `desk_staff` | 1 item, 4 reviewers incl. its owner, one may leave, 3 seat ids, one verdict, 2 versions of the material | 1.29 million | `SeatsPaired`, `NoSelfReview`, `StatusCountsReviews`, `ReviewFreezesMaterial` |
| `desk_review` | 1 item, 3 reviewers, 4 seat ids, 3 verdicts, 2 open workbenches | 0.78 million | `ScoreIsAgreed`, `DecisionIsStable`, `DeskFollowsMachine` |
| `settlement_runs` | settlement: 1 item, 2 students, 2 scores, 2 schemes, 2 valid runs at a time; evidence: 2 files, 2 requests, 2 grantees, 3 files a day, 2 days; scoring: 4 kinds of items, 2 marks, 3 items, 1 revision; 3 students, 3 categories, 2 tiers | @GR@ | `OneRunPerScheme`, `CurrentRunShowsScores`, `CurrentRunSealed`; `EvidenceInv`, `ConcludedKeepsFiles`; `CardIsCategoryTotal`, `RankingInv` |
| `workers` | delivery: 1 event, 2 groups (2 consumers and 1), 1 fault, 1 deferral, 1 redelivery; knowledge: 2 documents, 2 workers, 1 reprocessing; backups: 2, 1 crash, 2 days, 2 attempts a day | @WO@ | `NothingLost`, `SingleRunner`, `LeaseGuardsAttempts`; `KnowledgeInv`; `BackupInv` |
| `delivery_live` | 1 event, 1 group, 2 consumers, 2 faults, 1 deferral, 1 redelivery | 0.24 million | `EventuallySettled`, `DeliveryPromise` |
| `accounts` | members: 3, 1 request that holds rows; sessions: 3 tokens, 2 families, 2 requests, 1 account change, or 2 tokens and 2 changes (`SessionBound`); addresses: 3, one code, 2 requests; a link with one key, 2 requests, 2 owner's changes; mail: 2 events, 2 batches, 2 workers, 4 providers, 1 change; assistant: 1 question, 2 workers, 2 confirmations, 2 deliveries; exports: 2, with 2 workers | @AC@ | `MemberInv`; `SessionInv`; `EmailInv`; `ToolLinkInv`; `MailedOnce`, `MailQueueInv`; `AssistantInv`, `SettledMessageStays`; `ExportInv`, `PublishedWhileAllowed` |
| `rulings` | appeals: 1 item, scores -1, 0, 2, 3 rulings; proposals: a class of 8, 1 proposal, 1 disabled member; panels: 8 members, 3 verdicts, 2 versions of the facts; reports: 2, of a deduction or a submission, 2 reviewers, one tool link, 1 other move of the score; recognition: 2 pictures, 2 events | @RU@ | `AdjudicationInv`, `CorrectionStands`; `ProposalInv`, `DecidedAsVoted`; `PanelInv`, `AppliedToJudged`; `ReportInv`; `RecognitionInv`, `EndedBatchStays` |

`settlement_runs`, `workers`, `accounts` and `rulings` each hold several components
that share no state. The instance has a variable `part`: a behaviour is one of the component it
names, and the others rest in an initial state. The states of such a run are the
sum, not the product, of those of its components, and nothing is shown of one component
beside another. In `workers` and `accounts` the two consumers, requests, workers or mailers of a component may be exchanged, in `rulings`
the verdicts of a panel: nothing but their identity is used. A behaviour of the settlement ends with the first write
of a link that has acted on an old snapshot (after it only `OneRunPerScheme` says anything, and
runs are only taken away); the theorems do not have this bound.

`OneRunPerScheme`, `CurrentRunShowsScores` and `CurrentRunSealed` say of which behaviours they are: `late` must not
have a `settle` (a link has published a run that the state at its commit does not give), or must be empty. The
first holds although runs are dated by the beginning of their transactions. The other two do not hold after a late write:
they rest on the order of the runs (section 4), and an invalidation takes the newest one only.

The properties whose names end in `Inv` are conjunctions, each part stated and commented in its module:

| Property | Its parts, beside the type invariant |
|---|---|
| `EvidenceInv` | `ReadyHasObject`: a ready row has its object; `WithinDailyBytes`: the day's quota |
| `RankingInv` | `BetterIsNotBehind`, `RankCountsBetter`: ranks follow scores, ties share one; `TierPlaces`: every tier has the places of its own rounded quota |
| `SessionInv` | `EndedStaysEnded`: no token of an ended family works; `IndexCovers`: a revocation reaches every live token; `SessionKeepsIdentity`: rotations keep the version and the role the session was opened with |
| `EmailInv` | `OnePrimaryAddress` |
| `ToolLinkInv` | `AppliedOnce`: a confirmed operation takes effect once; `CallHasLink`: while a call runs its link stands; `LinkFollowsOwner`: a link that works is as old as the last change of its owner at most |
| `MailQueueInv` | `OnePendingBatch`, `SentWithinLimit`, `LedgerTells`: nothing accepted is called unsent |
| `AdjudicationInv` | `ScoredHasScore`, `SecondRoundAfterFirst`, `ResolvedByWholePanel`, `CorrectedIsQuiet`: a corrected item has no open work |
| `ProposalInv`, `DecidedAsVoted` | `AppliedByMajority`; `AppliedAsVoted`, `CollectiveByVote`: only what was voted on, on the facts that were voted on |
| `PanelInv` | `PanelIndependent`: a panel has none of those before it nor a party; `OneVersion`: its members judge the same facts; `VerdictByMajority` |
| `RecognitionInv` | `DraftedOnce`: a picture becomes one draft; `ShownIsStored`: a batch shows what all its chunks say, or what a prefix of them says if it was stopped |
| `AssistantInv` | `AnsweredOnce`; `ExecutedAsConfirmed` |
| `KnowledgeInv` | `OneBlobPerContent`, `DedupKeepsBytes`: deduplication takes no bytes that a visible document needs; `ReadyHasText`: a document that is ready, and whose blob is, has its text |
| `ExportInv` | `FileAccounted`: a published job has its file, or a worker that met an error after the upload removed it |
| `MemberInv` | `DeputyEligible`, `RulingKeepsScope` |
| `ReportInv` | `SettledByBoth`, `DeductionsAddUp`: each report is counted once |
| `BackupInv` | `DailyBudget`, `CompleteIsWhole`, `RemoteComplete`: what is offered for restoring is complete |

For each part, `PROJECT.json` has a mutant of its own under the name of the conjunction, and "hazards" names the
conjunction too. The type invariants of `ReviewDesk`, `Settlement` and `EventDelivery` are proved, not run.

Why the bounds are enough. Items share nothing but reviewers' duty and the class
lock, so that one item sees every interleaving of its own requests; three reviewers
are what a hand-over needs (two seats and a substitute), the fourth is the owner; four
seat ids are two active ones and two that a conclusion or a transaction still refers
to, which lets one transaction replace both seats (`desk_staff`, where a reviewer also
leaves, has three, so that its hand-overs replace one seat at a time). One event is enough for
delivery, because keys and leases are per event, and
duplicates of it come from faults and redeliveries; two deliveries before burial
(`MaxDeliveries`, 5 in the code) already separate the first failure, the last one and
the reset. Two schemes and two valid runs distinguish the newest run from an older one, and the current scheme from the one
before; an invalidated run makes room for the next.
Two families and three tokens let a rotation be under way in one family while another is
revoked. Two events of one entity are a reminder and the one that supersedes it; a third mail would
only repeat the two batches. Eight members are a minimum of seven who may vote, and one more who leaves; a
panel, its expansion and the panel of the appeal fit into them only just, which is where
independence is in danger. Two workers and a repeated event are what an advisory lock separates, and its loss
joins. One request of `Members` that holds rows is what the class lock leaves beside an operator's appointment and a
registration, which are single actions; the theorem allows any number. Two reports on one item show what the second does to the first. With two
backups, a retention of one day and two days, one expires while the other is
made. Three items fill an exclusive group twice beside a shared one; three students have every
pattern of ties. The theorems below hold for every value of the bounds.

`CHECK_DEADLOCK FALSE` is set for the desk, the delivery and the side-by-side runs with bounded
ids: when the only item is deleted and ids are used up, or the only event is
settled, nothing is left to do. `settlement_runs` is checked for deadlock.

### Disagreements between the code and its comments

Five runs check what a comment, a migration or the client says, and find it violated:

- `desk_material` (`ReviewedWhatWasSeen`): withdrawing does not take the item from a
  reviewer who has it open; if the student edits and submits again, a conclusion on
  the old material is accepted for the new one.
- `settlement_export` (`ExportShowsScores`): publishing a scheme invalidates no run, the settlement reuses a run of the
  current scheme only (`settlement_handlers.go:559`), and an invalidation takes the newest valid run of any scheme
  (`review_handlers.go:809`). After a new scheme and a forced settlement two runs are valid; a correction takes the newer one
  away, and an export (`export_handlers.go:47`) hands out the older one with the old score. The client says of a run that
  is not invalidated that no score has changed since it was made (`types.ts:1415`, 1420). The run of the current scheme
  itself never shows an old score (`CurrentRunShowsScores`). The gate has to be forced, because the GPA of the new
  scheme must be imported, and the import invalidates the newest run: without `ForceGate` there is no second valid run.
- `report_raises` (`ReportNeverRaises`): a report is compared with the score at the time it was
  filed. If a report of another person has lowered the score since, the first one's outcome replaces it
  by a higher one.
- `report_waiting` (`NoneLeftWaiting`): a verdict given through a tool link that waits for the class while the other reviewer
  decides does not count that verdict, and does not fail, because a first verdict writes its own row only. Both verdicts
  are in, the report stays in review, and no request can end it but a correction of its submission.
- `recognition_stopped` (`StoppedKeepsGrouped`): a batch that is stopped while pictures are grouped does
  not always show what was grouped so far, as the comment in `aijob/worker.go` says: it shows the grouping
  of some prefix. `ShownIsStored` says this much; three pictures are needed to tell the two apart.

And one that no run shows, because nothing happens: `reconcileCatalog` is to turn a complete backup whose directory is gone
into a visible failure (`backupjob/runner.go:580-582`), but passes it over. `allowedBackupPath` (679-682) resolves the path
first, which fails where there is none, so that the loop goes on at 597 and does not reach the update. `Reconcile` therefore
changes no row, and a complete backup may have no directory: `CompleteIsWhole` says that a directory that is there
is whole.

### Observations

Met while modelling, readable in the code at the place named, and not claimed by a run:

- Hand-over and rebalance deactivate a seat whose reviewer concludes between their read and
  their update (`dispatch_handlers.go:830`, against the comment at 57). `StatusCountsReviews` shows
  that no third conclusion comes of it.
- `resolveClassification` writes `scored` after any
  status (`classification_handlers.go:297`), which `review/state.go` does not declare; the desk's own
  steps do follow it (`MachineFollowed`).
- `class.settle` through a tool link may publish a run from a snapshot that is older than a correction it waited for: it reads the
  scores of items that were locked by an earlier run and does not update them. The comment at `force_rejection_handlers.go:107-109`
  wants no obsolete score published. The run needs an approved operation whose state is unchanged; `late` has
  `"settle"` then, and the next settlement of the web hands that run back.
- A settlement that waits for the class while others publish a scheme and settle is dated before their run, since `created_at`
  is the beginning of its transaction; the next invalidation takes their run and leaves its own (`late` has `"start"`).
- Two events of one entity enqueued at once are both kept, since the check for newer ones takes no lock
  (`notify/queue.go:116`).
- `applyReportOutcome` sets `scored` while an appeal is open.
- `ComputeCategoryScore` takes the cap of a shared group from the last of its items
  (`score.go`, `groupCaps`). If snapshots of different versions of a scheme disagree, the last item depends on
  Go's map order, and so does the total. `CardIsCategoryTotal` says that the total is one of those
  the snapshots allow. Also, a better item of an exclusive group may lower the total,
  because the choice is made before the shared cap.
- Settlement and live score card treat base score rows of claimable items differently.
- The comment of `quota.go:24` does not hold for calls of a tool link, whose count is as old as their
  snapshot; `WithinDailyBytes` is stated for the rows of a day as they are counted. Nothing sweeps the
  objects that a lost hook leaves behind.
- A blob of knowledge may expire right after its document was deleted, since the sweep goes by
  `updated_at` of the blob; a duplicate attached to a blob may be left in `processing`, since
  `attachDuplicate` writes the status it read; for the same reason, with three documents and three workers, it may be
  left `ready` although the blob's last conversion gave no text. `ReadyHasText` asks for the blob to be ready too.
- A worker that meets an error after the upload of an export removes the file although the job may be
  complete (`FileAccounted` names this way to lose it); a retry beside a new request renders twice.
- A mark `stale` on an assistant's draft is rolled back with the error answer that reports it.
- A batch of recognition that could not fetch a picture on a repeat overwrites a completed item, and
  reading an expired batch may overwrite `complete` or `canceled`; consent withdrawn during a run is not noticed.
- A crash in the middle of `os.RemoveAll` leaves a part of an expired backup listed as complete
  (`CompleteIsWhole` is limited to the retention); a drill that crashes leaves its temporary database.

### Fairness

Only `EventDelivery` assumes any: nobody has to submit, review, settle, vote or confirm, and the
properties of the other modules are safety. `EventDelivery!Fairness` assumes weak fairness of the relay, of every step of a
consumer that has a message, and of the expiry of keys in Redis; and strong fairness,
per group, of reading new messages and, per message, of claiming it. The worker
restarts a process that stops and loops for ever (`worker.go`, `RunConsumer`); each round
claims with a cursor that passes over all pending messages before it reads new ones, so
that a message that is claimable again and again is claimed. A handler may fail or
defer; it is assumed to return, because its context ends with the lease. Faults,
deferrals and redeliveries are finite in number.

### The abstract specification

`Delivery` knows neither streams nor leases: for every group, an event is unsent, owed, served or
buried, and has a number of failures. `EventDelivery!DeliveryPromise` is
`INSTANCE Delivery` under the mapping `Standings`: unsent while the business write has not
committed; served if the handler of the group has committed; buried if a dead letter is left and
the event is not served; owed otherwise; the failures are the retry counters. `delivery_live`
checks it as a property, `EventDeliveryProofs` proves it (`DeliveryRefines`).

## 4. Proofs

All theorems are checked by `tlapm` for every value of the constants that satisfies the
assumption its module names (`DeskAssumption`, `SettlementAssumption`, `DeliveryAssumption`,
`MailAssumption`, `EmailsAssumption`, `ToolLinksAssumption`, `SessionsAssumption`,
`AdjudicationAssumption`, `ProposalsAssumption`, `PanelsAssumption`, `EvidenceAssumption`,
`MembersAssumption`, `BackupsAssumption`, `ReportsAssumption`, `ScoringAssumption`, `RecognitionAssumption`, `AssistantAssumption`, `ExportsAssumption`,
`KnowledgeAssumption`). `ScoringAssumption` says what `Compute` and `validate.go` check, that weights and quotas are
percentages and the weights add up to one, and that class and categories are finite. The others only say that sentinels are not members of the sets they
extend, that the sets which are counted (seat ids, reviewers, members of a panel's class, grantees of a copy, reviewers of reports)
are finite, that the mail channels and the roles are among those the code has, and that ids and bounds are
numbers. Ids of rows need not be finite in number where the rows themselves are: that only finitely many
files and jobs have been made is part of the inductive invariant (`EvidenceHeld`, `Made`).

**`ReviewDeskProofs`.** `Typing`, `PairedThroughout`, `NeverSelfReviewed`, `StatusCounts`,
`ScoresAgreed`, `FrozenOnceReviewed`, `DecisionsStand`, `MachineFollowed`. The properties are not inductive: that
a commit leaves paired seats depends on what its transaction planned when it began. The
invariant `DeskInv` therefore says of every running transaction what it knows: a batch
has two different candidates for each of its items, neither the owner; a move names a
row, its position and a taker; the ids a transaction holds are of rows that had that
position; and a posted conclusion counts two expected seats. Together with the unique
indexes, evaluated at commit time, each commit keeps the pair or fails. `ItemStep` then says what
one step can do to one item, from which the three action properties follow.

**`SettlementProofs`.** `SettlementTyping`, `OneValidRunOfAScheme`, `CurrentRunIsUpToDate`, `CurrentRunKeepsSeals`.
That a run of the current scheme is up to date is not inductive: an invalidation takes the newest run of any scheme
away, and a suggestion across categories (`SuggestCross`) changes what counts and takes none. `RunsInOrder` says why neither
leaves the current run behind, as long as no write was late. The runs stand in the order of their schemes and none is of a
scheme to come, so that a run of the current scheme is the newest (`CurrentIsNewest`) and is what every invalidation takes; and
while there is such a run every item that counts is locked, so that a suggestion finds none to reopen. A settlement keeps
the order, because what it adds is of the current scheme and dated last (`Published`); an invalidation, because it only leaves out
(`Invalidated`). `OneValidRunOfAScheme` needs none of this, and holds when runs are dated out of order too.

Of the arithmetic, `Scoring`: `CardAlwaysCategoryTotal`, `RankingAlways`. The loop of
`ComputeCategoryScore` is followed by what it has seen so far (`ItemsSound`): the items of no group stand in
`plain`, each once, and the item chosen of a group beats every item of the group before it. `Beats` is a strict order, so
that when all items are taken the chosen ones and those in `plain` are together the items that count (`TakenSound`), and a
step of the range over the map only moves one of them. `PlacesAddUp` carries the sums over places to sums over
items; `TotalExplained` says which cap the last shared item stands for. For the class, `SheetSound` says
that the order is the listing of the class, and `Tiered` which places every tier has: those behind what the better tiers
asked for, up to what it asks for itself. From the listing follows that a competition rank counts those above
(`CompetitionCounts`: the counts solve the equation of the loop, and nothing else does), for totals and for every category; that more
points in every category are no smaller total, since rounding is monotone (`RoundedMonotone`,
`TotalMonotone`); and that ranks, honours and tiers do not fall behind.

**`EventDeliveryProofs`.** `DeliveryTyping`, `EventsAreNotLost`, `OneRunnerPerLease`,
`AttemptsAreTheHolders`. The invariant adds: an event that a relay has added is owed to every
group before the relay commits (`RelayedOwed`), so that the commit loses nothing; a
consumer acknowledges only what its handler has committed (`OkHandled`); and a consumer
past the acquisition holds the lease unless it outlived it (`HoldsOrStalled`). `OwedKept`
goes through the steps that acknowledge: a skipped message was meant for others, a finished one
is handled, a buried one is a dead letter, a redelivered dead letter is a new message.

Its last part is `DeliveryRefines`: every step of `EventDelivery` is, under the mapping, a step of
`Delivery` or a stutter. To `DeliveryInv` it adds that only committed events are in the stream
or handled (`Committed`), and that a consumer about to bury what it holds has counted all its
failures (`AllCounted`). `CounterStep` says who may touch a counter; `StandingsKept` that a step which
changes neither dead letters nor handled events leaves the standings alone. Six actions are left: the write,
success, its acknowledgement, a counted failure, the burial and the redelivery, each one action of
`Delivery`.

**`AccountProofs`.** `PrimaryAddressIsOne`, `LinksFollowTheAccount`, `SessionsEndForGood`. `EmailSound`
adds that a request which is about to change the primary address holds the row of an address that stays verified
meanwhile, and that a verified address implies a primary one. `ToolSound` says that a call has its link
for itself, that the operation it checked is still in the state it found, that an approved operation
was decided by the owner, and that every change of the account has ended every link. `SessionSound` says that
the current token of a family is its own, listed in the index and not ended; that no family is
opened twice, so that an ended one cannot come back; and that tokens, rotations under way and access tokens of a family
carry one identity.

And of `MailQueue`: `MailedOnceAlways`, `QueueAndLedgerAgree`. What is mailed once is not inductive: that the
provider is not called again for an event depends on which batch the event is in, what
the ledger says of the batch, and what a worker still carries. `MailSound` says: who
reserves is alone and nothing is pending then (`PrepareAlone`), so that there is one pending batch at
most (`OnePending`) and one sender, whose events are in its batch and whose requeued ones
were never mailed (`SendersHold`); an event that was mailed stays in a batch that was accepted (`NotesSound`); an
accepted batch is sent or unresolved in the ledger, never failed (`LedgerSound`), whatever answer an
attempt holds (`AttemptKnown`); and a batch that may still count has room in the day (`RoomKept`). One lemma per action
shows that it is kept.

**`RulingProofs`.** `RulingsFollowEachOther`, `CorrectionsStand`; `CarriedByVote`, `CarriedAsVoted`;
`PanelsIndependent`, `AppliedAsJudged`. In `Adjudication` the parts of the property need each other, and the CHECKs of
the migrations on scores of corrected items (`ScoreChecks`). `ProposalSound` says that members, the disabled account
and outsiders make up the class, what a proposal requires in terms of the electorate of its making, and
that no more votes are cast than it has voters. `PanelSound` keeps the seats of a panel, past ones included,
apart from those it excludes, who include the subject and the panel before; only a seated member has an
opinion, on the version of the case; and a panel that deliberates or has decided is complete, from which the majority
of the whole panel follows by counting finite sets.

**`RecordProofs`.** `FilesAreKept`, `ConcludedFilesStay`; `RulingsKeepAuthority`; `BackupsAreWhole`; `ReportsCountOnce`.
`EvidenceSound` says what every request knows of its file (`Stands`), that row locks keep requests apart and the
advisory lock those that reserve; and, since the quota is only kept by what the web makes, it
counts the rows and uploads under way of the web and the copies of a grant, before and after they have their rows
(`WebKept`). `MemberSound` says that there is one deputy, who may be one, and that nobody is about to write a row that a ruling has locked.
For backups the property says nothing of a job under way; `BackupSound` adds that the runner's job is
running and is touched by no other step (`RunnerHolds`), that a directory in place is as young as the day it
is about to be recorded for, or past its retention (`WholeThrough`), that a copy about to be reported is
whole and that a copy that waits has failed too few times (`CopiesWhole`); and it counts, day by day, the jobs
made (`Budget`). `ReportSound` adds that a report has two reviewers and that what it claims and what they say of it fits its
kind. A link's call counts verdicts of its snapshot; none of them is ever withdrawn (`LinksSound`), so that a settled report has two verdicts
of the same score (`OutcomeSound`), also when a link has settled it. That the deductions of a
student add up goes step by step with the report that a step changes (`SumMoved`), the base score moving by the same points.

**`JobProofs`.** Every one of the four components has workers that are given the same event twice, that die, and
that go on after what they work on has changed; the invariants say what a worker may still rely on.

- `ShownAndDraftedOnce`, `EndedForGood` (`Recognition`): a running job has its event, and nobody but its worker
  decides what becomes of the batch unless it ends (`JobAlone`); while the job composes, every grouped picture has
  been read and what it is about to show is what the groups behind it hold (`JobFollows`). That is why the worker, which
  writes what it gathered in memory, shows what is stored.
- `AnsweredAndExecutedOnce`, `SettledForGood` (`Assistant`): no step but the final turn of an answer makes a message
  complete or its text whole, and none touches one that has settled (`Rewritten`), so that a run which has lost its lock
  comes too late; a draft has a state only under a complete message (`Proposed`), and
  confirmations under way are of different drafts (`DraftsApart`), so that none executes what another has.
- `FilesAccounted`, `PublishedUnderLink` (`Exports`): a job whose term has passed has no event and no worker, and is
  marked before its object goes (`ExportJobSound`); a worker past its upload has its file, or a worker removed it
  after an error, and the link of a job stands while a worker publishes for it (`ExportWorkSound`).
- `BytesKeptOnce` (`Knowledge`): a worker is alone with its document, and one worker at a time attaches; what it found
  under the lock of the hash is still true when it writes (`DocRunSound`). A document keeps its own blob until it is
  attached to one with a hash (`FileSound`), so that a blob without a hash has one document, and superseding it takes the
  bytes of no other; a blob with a hash in use has its bytes, or the maintenance run took them (`BlobSound`).

**`SumProofs`.** The induction that `Scoring` and `Reports` need. A principle for an arbitrary statement cannot be
cited here, but one for a set of numbers can: `EveryNumber` says that a set of natural numbers that has zero and with each
its successor has all, and `Grown` the same of a family of subsets of a finite set. With them, `SumOver` gets its recursion
(`SumEmpty`, `SumAdd`), its type, monotonicity, the change of one summand (`SumMoved`) and the change of
the index set (`SumMapped`); a strict total order on a finite set has a listing, with every member once (`Listed`). This is why
`Sums` takes functions and relations as arguments, where the operators of the community modules take operators, which no
lemma could name.

Only model-checked: `EventuallySettled`, since liveness under fairness is out of the prover's reach. `StoppedKeepsGrouped`, `ReviewedWhatWasSeen`,
`ExportShowsScores`, `ReportNeverRaises` and `NoneLeftWaiting` are those the runs refute.

## 5. Not modelled

`PROJECT.json` lists every component. Left out of the modelled ones: base items and
their appeals and objections, which follow the same handlers with another target; the other gate
conditions; `ScoreClaim`, the value of one claim under its rule; the balancing of `dispatch.Balance`;
the observation of long deferrals; the trimming of the stream to 100000 messages
and the seven days after which a retry counter expires; the expiry of tokens and codes; what a
model is asked and answers; the conversion of documents; settings that only move limits. There is one
backup runner at a time: the loss of its advisory lock is not modelled.

## 6. Plan

Done: all modules of the table and their proof modules. Next:

1. `DispatchBalance`: `dispatch.Balance` and `PickOne` as functions, checked against a
   definition of a balanced assignment over bounded pools.
2. `ScoreClaim` of `scheme/score.go`, checked against the rules of `scheme/validate.go`.
3. Base items in `Adjudication`, and the gate's other conditions in `Settlement`.
