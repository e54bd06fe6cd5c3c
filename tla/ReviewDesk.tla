------------------------------ MODULE ReviewDesk ------------------------------
(***************************************************************************)
(* From draft to first score: the student's submission handlers            *)
(* (api/submission_handlers.go), the assignment of two reviewers           *)
(* (dispatch/worker.go, api/dispatch_handlers.go, the take-over of an      *)
(* unavailable reviewer's seats), the reviewers' conclusions               *)
(* (api/review_handlers.go), and the two ways in which an administrator    *)
(* decides an item instead of the desk: a forced rejection                 *)
(* (api/force_rejection_handlers.go) and a classification resolution       *)
(* (api/classification_handlers.go).  What can follow the first score is   *)
(* module Adjudication.                                                    *)
(*                                                                         *)
(* Every request is one READ COMMITTED transaction.  Requests that lock    *)
(* the submission row before they read anything are single actions.  Two   *)
(* families read state that the row lock does not protect and act on it    *)
(* later, and are split into a Begin (the read) and a Commit (the write):  *)
(*                                                                         *)
(*   - dispatch transactions read seats and conclusions without locking    *)
(*     the submission.  dtx holds the one running under the advisory class *)
(*     lock; utx holds take-overs, which do not take that lock;            *)
(*   - a reviewer's request evaluates its seat and the number of active    *)
(*     seats in the statement that waits for the submission row, with the  *)
(*     snapshot that statement started with.  rtx holds the reviewer's     *)
(*     open workbench and, once the conclusion is posted, that snapshot.   *)
(*                                                                         *)
(* Capability windows, lockdown and the seal can only refuse a request and *)
(* a refused request changes nothing, so they are no part of this module.  *)
(* A suggestion within the category does not change the outcome of the     *)
(* desk either; only cross-category suggestions are kept.                  *)
(***************************************************************************)
EXTENDS ReviewRules

CONSTANTS
  Submissions,    \* ids of submission rows
  Reviewers,      \* users who can ever have role group or class_admin
  Leavers,        \* those of them that may be paused or removed (bound)
  Owner,          \* Owner[s]: the student of s, possibly one of Reviewers
  SeatIds,        \* ids of submission_reviewer rows (bound)
  NoSeat,         \* no row to deactivate
  NoOne,          \* PickOne found no candidate
  Scores,         \* the points a reviewer can award
  Verdicts,       \* <<decision, score, cross-category>> given (bound)
  MaxContent,     \* bound on the versions of a submission's material
  MaxOpen         \* bound on the workbenches open at the same time

ASSUME DeskAssumption ==
  /\ 0 \in Scores
  /\ NoScore \notin Scores
  /\ Leavers \subseteq Reviewers
  /\ Verdicts \subseteq {v \in Decision \X Scores \X BOOLEAN :
                    v[1] = "rejected" => v[2] = 0}
  /\ IsFiniteSet(SeatIds)
  /\ IsFiniteSet(Reviewers)
  /\ NoSeat \notin SeatIds
  /\ NoOne \notin Reviewers
  /\ MaxContent \in Nat
  /\ MaxOpen \in Nat

VARIABLES
  status,    \* submission.status, or "none" (not created) / "deleted"
  final,     \* submission.final_score
  forced,    \* submission.force_rejection IS NOT NULL
  ruled,     \* the submission has a classification_resolution
  content,   \* version of the material, 0 before creation
  seats,     \* active submission_reviewer rows
  reviews,   \* review rows with superseded_at IS NULL
  duty,      \* "on", "paused" (no new seats) or "off" (no reviewer any more)
  rtx,       \* open workbenches and posted conclusions, one per reviewer
  dtx,       \* the dispatch transaction holding the class lock
  utx        \* take-over transactions, one per unavailable reviewer

vars == <<status, final, forced, ruled, content, seats, reviews, duty, rtx, dtx, utx>>

Seat == [id : SeatIds, rev : Reviewers, pos : {1, 2}]

Review == [rev : Reviewers, seat : SeatIds, decision : Decision,
           score : Scores, cross : BOOLEAN, saw : Nat]

Move == [sub : Submissions, pos : {1, 2}, to : Reviewers,
         old : SeatIds \cup {NoSeat}]

Row == [sub : Submissions, id : SeatIds, pos : {1, 2}]

\* seat = NoSeat: the workbench is open, nothing is posted yet.
ReviewTx == [rev : Reviewers, sub : Submissions, saw : Nat,
             seat : SeatIds \cup {NoSeat}, expected : Nat]
DispatchTx == [kind : {"fill", "rebalance", "handover", "reassign"},
               plan : SUBSET Move]
TakeoverTx == [rev : Reviewers, duty : {"paused", "off"}, rows : SUBSET Row]

TypeOK ==
  /\ status \in [Submissions -> {"none", "deleted", "draft", "pending",
                                 "consensus", "scored", "arbitrating"}]
  /\ final \in [Submissions -> Scores \cup {NoScore}]
  /\ forced \in [Submissions -> BOOLEAN]
  /\ ruled \in [Submissions -> BOOLEAN]
  /\ content \in [Submissions -> Nat]
  /\ seats \in [Submissions -> SUBSET Seat]
  /\ reviews \in [Submissions -> SUBSET Review]
  /\ duty \in [Reviewers -> {"on", "paused", "off"}]
  /\ rtx \subseteq ReviewTx
  /\ dtx \subseteq DispatchTx
  /\ utx \subseteq TakeoverTx

Init ==
  /\ status = [s \in Submissions |-> "none"]
  /\ final = [s \in Submissions |-> NoScore]
  /\ forced = [s \in Submissions |-> FALSE]
  /\ ruled = [s \in Submissions |-> FALSE]
  /\ content = [s \in Submissions |-> 0]
  /\ seats = [s \in Submissions |-> {}]
  /\ reviews = [s \in Submissions |-> {}]
  /\ duty = [r \in Reviewers |-> "on"]
  /\ rtx = {}
  /\ dtx = {}
  /\ utx = {}

-----------------------------------------------------------------------------
(* The student's handlers.  Each locks the submission row first.           *)

submissionVars == <<status, final, forced, ruled, content>>
deskVars == <<seats, reviews>>
txVars == <<rtx, dtx, utx>>

CreateSubmission(s) ==
  /\ status[s] = "none"
  /\ status' = [status EXCEPT ![s] = "draft"]
  /\ content' = [content EXCEPT ![s] = 1]
  /\ UNCHANGED <<final, forced, ruled, deskVars, duty, txVars>>

\* A slip: material may still change in consensus.
UpdateInConsensus(s) ==
  /\ status[s] \in {"draft", "pending", "consensus"}
  /\ content[s] < MaxContent
  /\ content' = [content EXCEPT ![s] = @ + 1]
  /\ UNCHANGED <<status, final, forced, ruled, deskVars, duty, txVars>>

\* Material may change in draft and, while nobody has concluded, in pending.
UpdateSubmission(s) ==
  /\ status[s] \in {"draft", "pending"}
  /\ reviews[s] = {}
  /\ content[s] < MaxContent
  /\ content' = [content EXCEPT ![s] = @ + 1]
  /\ UNCHANGED <<status, final, forced, ruled, deskVars, duty, txVars>>

\* A submit of a pending or consensus item answers with its current status.
SubmitSubmission(s) ==
  /\ status[s] = "draft"
  /\ status' = [status EXCEPT ![s] = "pending"]
  /\ UNCHANGED <<final, forced, ruled, content, deskVars, duty, txVars>>

\* A slip: withdrawing is allowed until the item is decided.
WithdrawInConsensus(s) ==
  /\ status[s] \in {"pending", "consensus"}
  /\ status' = [status EXCEPT ![s] = "draft"]
  /\ UNCHANGED <<final, forced, ruled, content, deskVars, duty, txVars>>

\* Back to draft; the seats stay, the review queue filters on status.
WithdrawSubmission(s) ==
  /\ status[s] = "pending"
  /\ reviews[s] = {}
  /\ status' = [status EXCEPT ![s] = "draft"]
  /\ UNCHANGED <<final, forced, ruled, content, deskVars, duty, txVars>>

\* A single reassignment reads its seat FOR UPDATE, so until it ends nobody
\* else can change that row.
SeatLocked(s) == \E t \in dtx : t.kind = "reassign" /\ \E m \in t.plan : m.sub = s

\* The row goes, and its seats by ON DELETE CASCADE.
DeleteSubmission(s) ==
  /\ status[s] \in {"draft", "pending"}
  /\ reviews[s] = {}
  /\ ~SeatLocked(s)
  /\ status' = [status EXCEPT ![s] = "deleted"]
  /\ seats' = [seats EXCEPT ![s] = {}]
  /\ UNCHANGED <<final, forced, ruled, content, reviews, duty, txVars>>

-----------------------------------------------------------------------------
(* Candidates and targets of the dispatch transactions.                    *)

ReviewedBy(s) == {x.rev : x \in reviews[s]}
SeatedAt(s) == {x.rev : x \in seats[s]}
Pool == {r \in Reviewers : duty[r] = "on"}

\* clearSelfReviewAssignments: seats the owner holds and has not used.
KeptSeats(s) == {x \in seats[s] : x.rev = Owner[s] => x.rev \in ReviewedBy(s)}

\* A slip: the owner of the item is not left out.
BatchCandidatesWithOwner(kind, s) ==
  {r \in Pool : kind = "auto" \/ r \notin ReviewedBy(s)}

\* dispatchCandidates of a batch run; the event worker passes no reviewers.
BatchCandidates(kind, s) ==
  {r \in Pool : r # Owner[s] /\ (kind = "auto" \/ r \notin ReviewedBy(s))}

\* PickOne, and the target check of a named take-over.
Takers(s) ==
  {r \in Pool : r # Owner[s] /\ r \notin ReviewedBy(s) /\ r \notin SeatedAt(s)}

\* loadDispatchTargets: rebalancing replaces the seats of items without any
\* conclusion, the other runs serve items without any seat.
BatchTargets(kind) ==
  {s \in Submissions :
     /\ status[s] \in {"pending", "consensus"}
     /\ IF kind = "rebalance" THEN reviews[s] = {} ELSE KeptSeats(s) = {}}

\* Seats of r in which r has not concluded.
OpenSeats(r, statuses) ==
  {w \in Row : /\ status[w.sub] \in statuses
               /\ r \notin ReviewedBy(w.sub)
               /\ [id |-> w.id, rev |-> r, pos |-> w.pos] \in seats[w.sub]}

\* Submission_reviewer ids still referred to; a new row takes another one.
LiveIds ==
  {x.id : x \in UNION {seats[s] : s \in Submissions}}
  \cup {x.seat : x \in UNION {reviews[s] : s \in Submissions}}
  \cup {t.seat : t \in rtx}
  \cup {m.old : m \in UNION {t.plan : t \in dtx}}
  \cup {w.id : w \in UNION {t.rows : t \in utx}}

FreshIds(rows) == {f \in [rows -> SeatIds \ LiveIds] :
                     \A a, b \in rows : f[a] = f[b] => a = b}

NewIds(rows) == CHOOSE f \in FreshIds(rows) : TRUE

-----------------------------------------------------------------------------
(* Dispatch under the class lock: worker, manual run, rebalance, hand-over *)
(* and single reassignment.  Which candidates are picked depends on their  *)
(* load (dispatch.Balance); here any two eligible ones may be.             *)

BatchPlan(targets, pair) ==
  {[sub |-> s, pos |-> p, to |-> pair[s][p], old |-> NoSeat] :
     s \in targets, p \in {1, 2}}

BeginBatch(kind, targets) ==
  LET fit == {s \in targets : \E a, b \in BatchCandidates(kind, s) : a # b}
  IN /\ dtx = {}
     /\ fit # {}
     /\ \E pair \in [fit -> [{1, 2} -> Reviewers]] :
          /\ \A s \in fit : /\ pair[s][1] \in BatchCandidates(kind, s)
                            /\ pair[s][2] \in BatchCandidates(kind, s)
                            /\ pair[s][1] # pair[s][2]
          /\ dtx' = {[kind |-> IF kind = "rebalance" THEN kind ELSE "fill",
                       plan |-> BatchPlan(fit, pair)]}
     /\ UNCHANGED <<submissionVars, deskVars, duty, rtx, utx>>

\* The SubmissionCreated event is delivered at least once, so the worker may
\* look at a submitted item at any time and any number of times.
WorkerHandle(s) == s \in BatchTargets("auto") /\ BeginBatch("auto", {s})

RunDispatch(includeAssigned) ==
  LET kind == IF includeAssigned THEN "rebalance" ELSE "manual"
  IN BeginBatch(kind, BatchTargets(kind))

BeginMoves(kind, rows) ==
  /\ dtx = {}
  /\ rows # {}
  /\ \E to \in [rows -> Reviewers] :
       /\ \A w \in rows : to[w] \in Takers(w.sub)
       /\ dtx' = {[kind |-> kind,
                   plan |-> {[sub |-> w.sub, pos |-> w.pos, to |-> to[w], old |-> w.id]
                             : w \in rows}]}
  /\ UNCHANGED <<submissionVars, deskVars, duty, rtx, utx>>

\* All open seats of one reviewer move, or none.
HandoverDispatch(from) ==
  BeginMoves("handover", OpenSeats(from, {"pending", "consensus", "scored", "arbitrating"}))

ReassignSubmission(from, w) ==
  /\ w \in OpenSeats(from, {"pending", "consensus", "scored", "arbitrating"})
  /\ BeginMoves("reassign", {w})

\* Rows of s left active by the deactivating UPDATE of transaction t.
SeatsAfterClear(t, s) ==
  IF t.kind = "rebalance" /\ \E m \in t.plan : m.sub = s
    THEN {}
    ELSE {x \in IF t.kind \in {"handover", "reassign"} THEN seats[s] ELSE KeptSeats(s) :
            \A m \in t.plan : m.sub = s => m.old # x.id}

\* A slip: the index on (submission, reviewer) is missing.
InsertableTwice(kept, sub, pos, to) ==
  /\ status[sub] # "deleted"
  /\ \A x \in kept : x.pos # pos

\* The partial unique indexes (submission, position) and (submission,
\* reviewer) WHERE active, and the foreign key to submission.
Insertable(kept, sub, pos, to) ==
  /\ status[sub] # "deleted"
  /\ \A x \in kept : x.pos # pos /\ x.rev # to

DispatchCommit ==
  \E t \in dtx :
    /\ \A m \in t.plan : Insertable(SeatsAfterClear(t, m.sub), m.sub, m.pos, m.to)
    /\ FreshIds(t.plan) # {}
    /\ seats' = [s \in Submissions |->
                   SeatsAfterClear(t, s) \cup
                   {[id |-> NewIds(t.plan)[m], rev |-> m.to, pos |-> m.pos] :
                      m \in {n \in t.plan : n.sub = s}}]
    /\ dtx' = {}
    /\ UNCHANGED <<submissionVars, reviews, duty, rtx, utx>>

\* A violated index, a crash, a lost connection or a deadlock: rollback.
DispatchAbort ==
  /\ dtx # {}
  /\ dtx' = {}
  /\ UNCHANGED <<submissionVars, deskVars, duty, rtx, utx>>

-----------------------------------------------------------------------------
(* Take-over of the open seats of a reviewer who is paused, demoted or     *)
(* disabled (reassignUnavailableSubmissionReviewer).  No class lock.       *)

TakeoverBegin(r, d) ==
  /\ duty[r] # "off"
  /\ \A t \in utx : t.rev # r
  /\ utx' = utx \cup {[rev |-> r, duty |-> d,
                       rows |-> OpenSeats(r, {"pending", "consensus"})]}
  /\ UNCHANGED <<submissionVars, deskVars, duty, rtx, dtx>>

\* A seat nobody can take stays with r; the others are closed (if the row
\* read is still active) and opened again for the substitute.
TakeoverCommit(t) ==
  LET takers(s) == Takers(s) \ {t.rev}
  IN \E pick \in [t.rows -> Reviewers \cup {NoOne}] :
       LET moved == {w \in t.rows : pick[w] # NoOne}
           kept(s) == {x \in seats[s] : \A w \in moved : w.sub = s => w.id # x.id}
       IN /\ \A w \in t.rows : IF takers(w.sub) = {}
                                 THEN pick[w] = NoOne
                                 ELSE pick[w] \in takers(w.sub)
          /\ \A w \in moved : /\ ~SeatLocked(w.sub)
                               /\ Insertable(kept(w.sub), w.sub, w.pos, pick[w])
          /\ FreshIds(moved) # {}
          /\ seats' = [s \in Submissions |->
                         kept(s) \cup
                         {[id |-> NewIds(moved)[w], rev |-> pick[w], pos |-> w.pos] :
                            w \in {n \in moved : n.sub = s}}]
          /\ utx' = utx \ {t}
          /\ duty' = [duty EXCEPT ![t.rev] = t.duty]
          /\ UNCHANGED <<submissionVars, reviews, rtx, dtx>>

TakeoverAbort(t) ==
  /\ utx' = utx \ {t}
  /\ UNCHANGED <<submissionVars, deskVars, duty, rtx, dtx>>

\* Un-pausing, or giving a member the reviewer role (back).
Return(r) ==
  /\ duty[r] # "on"
  /\ duty' = [duty EXCEPT ![r] = "on"]
  /\ UNCHANGED <<submissionVars, deskVars, txVars>>

-----------------------------------------------------------------------------
(* The reviewer's workbench.                                               *)

\* GET /review/tasks/:id shows the material to a reviewer with a seat.
OpenTask(r, s) ==
  /\ duty[r] # "off"
  /\ r # Owner[s]
  /\ r \in SeatedAt(s)
  /\ \A t \in rtx : t.rev # r
  /\ Cardinality(rtx) < MaxOpen
  /\ rtx' = rtx \cup {[rev |-> r, sub |-> s, saw |-> content[s],
                       seat |-> NoSeat, expected |-> 0]}
  /\ UNCHANGED <<submissionVars, deskVars, duty, dtx, utx>>

\* loadReviewerTask FOR UPDATE: seat and expected count of the snapshot.
PostReview(t) ==
  /\ t.seat = NoSeat
  /\ duty[t.rev] # "off"
  /\ \E x \in seats[t.sub] :
       /\ x.rev = t.rev
       /\ rtx' = (rtx \ {t}) \cup
                 {[rev |-> t.rev, sub |-> t.sub, saw |-> t.saw,
                   seat |-> x.id, expected |-> Cardinality(seats[t.sub])]}
  /\ UNCHANGED <<submissionVars, deskVars, duty, dtx, utx>>

\* After validateDecision: a verdict, with or without a suggestion to move
\* the item to another category.
NewReview(t, v) ==
  [rev |-> t.rev, seat |-> t.seat, decision |-> v[1], score |-> v[2],
   cross |-> v[3], saw |-> t.saw]

\* reviewEditableSQL, evaluated after the row lock is held.
Editable(t, x) ==
  /\ final[t.sub] = NoScore
  /\ \E y \in seats[t.sub] : y.id = x.seat /\ y.rev = t.rev
  /\ ReviewedBy(t.sub) \subseteq {t.rev}

\* A cross-category suggestion turns the last conclusion into a case for
\* the arbitration desk, whatever the scores.
Outcome(expected, results) ==
  IF Cardinality(results) >= expected /\ \E x \in results : x.cross
    THEN [status |-> "arbitrating", score |-> NoScore]
    ELSE Reconcile(expected, results)

\* The common tail of a first conclusion and of a revision.
RecordReviews(t, results) ==
  LET outcome == Outcome(t.expected, results)
  IN /\ ReconcileAccepts(t.expected, results)
     /\ reviews' = [reviews EXCEPT ![t.sub] = results]
     /\ status' = [status EXCEPT ![t.sub] = outcome.status]
     /\ final' = [final EXCEPT ![t.sub] = outcome.score]
     /\ rtx' = rtx \ {t}
     /\ UNCHANGED <<forced, ruled, content, seats, duty, dtx, utx>>

DecideReviewTask(t, v) ==
  /\ t.seat # NoSeat
  /\ status[t.sub] \in {"pending", "consensus"}
  /\ t.rev \notin ReviewedBy(t.sub)
  /\ RecordReviews(t, reviews[t.sub] \cup {NewReview(t, v)})

\* A slip: a conclusion may be revised although the item is decided.
ReviseDecided(t, v) ==
  /\ t.seat # NoSeat
  /\ \E x \in reviews[t.sub] :
       /\ x.rev = t.rev
       /\ RecordReviews(t, (reviews[t.sub] \ {x}) \cup {NewReview(t, v)})

\* The superseded conclusion takes its pending suggestion with it.
ReviseReviewTask(t, v) ==
  /\ t.seat # NoSeat
  /\ status[t.sub] \in {"pending", "consensus"}
  /\ \E x \in reviews[t.sub] :
       /\ x.rev = t.rev
       /\ Editable(t, x)
       /\ RecordReviews(t, (reviews[t.sub] \ {x}) \cup {NewReview(t, v)})

ReviewAbort(t) ==
  /\ rtx' = rtx \ {t}
  /\ UNCHANGED <<submissionVars, deskVars, duty, dtx, utx>>

-----------------------------------------------------------------------------
\* Pending suggestions of an overridden item are withdrawn.
SuggestionClosed(x) ==
  [rev |-> x.rev, seat |-> x.seat, decision |-> x.decision, score |-> x.score,
   cross |-> FALSE, saw |-> x.saw]

\* The administrator overrides an item that was submitted: zero points, no
\* open suggestion, no active seat.
ForceReject(s) ==
  /\ status[s] \notin {"none", "deleted", "draft"}
  /\ ~forced[s]
  /\ ~SeatLocked(s)
  /\ status' = [status EXCEPT ![s] = "scored"]
  /\ final' = [final EXCEPT ![s] = 0]
  /\ forced' = [forced EXCEPT ![s] = TRUE]
  /\ seats' = [seats EXCEPT ![s] = {}]
  /\ reviews' = [reviews EXCEPT ![s] = {SuggestionClosed(x) : x \in reviews[s]}]
  /\ UNCHANGED <<ruled, content, duty, txVars>>

\* resolveClassification asks for no status: the administrator can score an
\* item the desk has not finished, or not begun.  The seats stay.  The CHECK
\* on a forced rejection lets zero points through only.
ResolveClassification(s, x) ==
  /\ status[s] \notin {"none", "deleted"}
  /\ forced[s] => x = 0
  /\ status' = [status EXCEPT ![s] = "scored"]
  /\ final' = [final EXCEPT ![s] = x]
  /\ ruled' = [ruled EXCEPT ![s] = TRUE]
  /\ reviews' = [reviews EXCEPT ![s] = {SuggestionClosed(y) : y \in reviews[s]}]
  /\ UNCHANGED <<forced, content, seats, duty, txVars>>

Next ==
  \/ \E s \in Submissions :
       \/ CreateSubmission(s)
       \/ UpdateSubmission(s)
       \/ SubmitSubmission(s)
       \/ WithdrawSubmission(s)
       \/ DeleteSubmission(s)
       \/ WorkerHandle(s)
       \/ ForceReject(s)
       \/ \E x \in Scores : ResolveClassification(s, x)
       \/ \E r \in Reviewers : OpenTask(r, s)
  \/ \E includeAssigned \in BOOLEAN : RunDispatch(includeAssigned)
  \/ \E r \in Reviewers :
       \/ HandoverDispatch(r)
       \/ \E w \in Row : ReassignSubmission(r, w)
       \/ Return(r)
  \/ \E r \in Leavers, d \in {"paused", "off"} : TakeoverBegin(r, d)
  \/ DispatchCommit
  \/ DispatchAbort
  \/ \E t \in utx : TakeoverCommit(t) \/ TakeoverAbort(t)
  \/ \E t \in rtx :
       \/ PostReview(t)
       \/ ReviewAbort(t)
       \/ \E v \in Verdicts :
            DecideReviewTask(t, v) \/ ReviseReviewTask(t, v)

Spec == Init /\ [][Next]_vars

-----------------------------------------------------------------------------
(* Properties.                                                             *)

UniqueSeats(S) ==
  \A x, y \in S : (x.id = y.id \/ x.rev = y.rev \/ x.pos = y.pos) => x = y

BothPositions(S) == (\E x \in S : x.pos = 1) /\ (\E x \in S : x.pos = 2)

\* An item has no active seat or exactly two, in positions 1 and 2 and held
\* by two people, whatever dispatch, hand-over and take-over transactions
\* interleave; only a forced rejection, which empties the seats, can leave
\* an unpaired one behind.  Two seats are what makes the expected number of
\* conclusions two.
SeatsPaired ==
  \A s \in Submissions :
    /\ UniqueSeats(seats[s])
    /\ ~forced[s] /\ seats[s] # {} => BothPositions(seats[s])

\* Nobody is ever seated on, or concludes on, an item of their own.
NoSelfReview ==
  \A s \in Submissions : Owner[s] \notin SeatedAt(s) /\ Owner[s] \notin ReviewedBy(s)

\* Overruled(s): an administrator decided the item in place of the desk.
Overruled(s) == forced[s] \/ ruled[s]

\* The status of an item that was not overruled tells how many conclusions
\* it has: none while the student can still change it, one in consensus, two
\* once decided.  In particular seats that move between reviewers never lead
\* to a third conclusion or to a decision on a single one.
StatusCountsReviews ==
  \A s \in Submissions :
    /\ status[s] \in {"none", "deleted", "draft", "pending"} => reviews[s] = {}
    /\ status[s] = "consensus" => \E x \in reviews[s] : reviews[s] = {x}
    /\ status[s] \in {"scored", "arbitrating"} /\ ~Overruled(s) =>
         \E x, y \in reviews[s] : x.rev # y.rev /\ reviews[s] = {x, y}

\* A score that nobody overruled is the score two different reviewers agreed on,
\* with the same decision and without an open cross-category suggestion.
ScoreIsAgreed ==
  \A s \in Submissions :
    final[s] # NoScore /\ ~Overruled(s) =>
      \E x, y \in reviews[s] :
        /\ x.rev # y.rev
        /\ x.decision = y.decision
        /\ x.score = final[s] /\ y.score = final[s]
        /\ ~x.cross /\ ~y.cross

FrozenStep(s) ==
  reviews[s] # {} => /\ content'[s] = content[s]
                     /\ status'[s] \notin {"none", "deleted", "draft", "pending"}
                     /\ ReviewedBy(s) \subseteq ReviewedBy(s)'

\* Once somebody has concluded, the material is frozen: its version, its
\* existence and its being submitted no longer change.
ReviewFreezesMaterial == [][\A s \in Submissions : FrozenStep(s)]_vars

StableStep(s) ==
  status[s] \in {"scored", "arbitrating"} /\ ~Overruled(s)' =>
    status'[s] = status[s] /\ final'[s] = final[s] /\ reviews'[s] = reviews[s]

\* A decision of the desk is stable: no late conclusion, revision or dispatch
\* changes the status or score of a decided item, only an administrator may.
DecisionIsStable == [][\A s \in Submissions : StableStep(s)]_vars

\* What api/submission_handlers.go says of withdrawing: a reviewer never
\* concludes on material other than the one on the workbench.
ReviewedWhatWasSeen ==
  \A s \in Submissions : \A x \in reviews[s] : x.saw = content[s]

MachineStep(s) ==
  /\ status'[s] # status[s] /\ ~Overruled(s)'
  /\ {status[s], status'[s]} \subseteq Status
  => <<status[s], status'[s]>> \in CanTransition

\* What internal/review/state.go says of itself, as far as it is true: students and
\* reviewers move an item only along the transitions declared there, although none of
\* their handlers asks CanTransition.  Administrators do not keep to them.
DeskFollowsMachine == [][\A s \in Submissions : MachineStep(s)]_vars
=============================================================================
