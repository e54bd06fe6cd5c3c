----------------------------- MODULE Adjudication -----------------------------
(***************************************************************************)
(* After the review desk: what can still happen to an item that has been   *)
(* reviewed.  Student appeals in two rounds (api/appeal_handlers.go),      *)
(* objections of the review group (api/review_objection_handlers.go),      *)
(* classification suggestions and their resolution                         *)
(* (api/classification_handlers.go), arbitration, and the administrator's  *)
(* corrections (api/force_rejection_handlers.go) with the constraints and  *)
(* triggers of migrations 000050 and 000056 that protect them.             *)
(*                                                                         *)
(* Every handler locks the submission row before it reads the state it     *)
(* decides on, so a handler is one action.  The exception is an objection: *)
(* validateObjection reads the item and its appeals without a lock, and    *)
(* the request writes later.  otx holds the requests between the two.      *)
(*                                                                         *)
(* A ruling also invalidates the published settlement run; runs, their     *)
(* invalidation and the settlement lock are the subject of module          *)
(* Settlement.  Here a published run only locks the scored items.          *)
(*                                                                         *)
(* Capability windows, roles and self-adjudication checks can only refuse  *)
(* a request.  The desk is summarised by its result: "pending" stands for  *)
(* an item it is still working on.                                         *)
(***************************************************************************)
EXTENDS ReviewRules, Integers

CONSTANTS
  Submissions,    \* ids of submitted items
  Points,         \* the points an item can be awarded
  Outcomes        \* what a ruling can say: <<points, category item>>

ASSUME AdjudicationAssumption ==
  /\ Points \subseteq Int
  /\ 0 \in Points
  /\ NoScore \notin Points
  /\ \A o \in Outcomes : o[1] \in Points

VARIABLES
  status,       \* submission.status
  final,        \* submission.final_score
  rejected,     \* submission.force_rejection IS NOT NULL
  forcedScore,  \* the score in submission.forced_score
  appeals,      \* appeals[s][k]: the student appeal of round k on s
  objection,    \* the objection on s that is not decided yet
  suggested,    \* scopes of the pending classification suggestions on s
  otx           \* objection requests that were validated, not yet written

vars == <<status, final, rejected, forcedScore, appeals, objection, suggested, otx>>

Rounds == {1, 2}
Positions == {1, 2}          \* appeal_reviewer.position

AppealStatus == {"none", "draft", "reviewing", "escalated", "resolved", "final"}
Active == {"reviewing", "escalated"}    \* 'filed' is no longer written

Verdict == [pos : Positions, outcome : Outcomes]
Appeal == [st : AppealStatus, panel : SUBSET Positions, given : SUBSET Verdict]
NoAppeal == [st |-> "none", panel |-> {}, given |-> {}]

Scope == {"within", "cross"}
ObjectionTx == [sub : Submissions, to : {"submitted", "decided"}, score : Points]

TypeOK ==
  /\ status \in [Submissions -> Status \ {"draft", "consensus"}]
  /\ final \in [Submissions -> Points \cup {NoScore}]
  /\ rejected \in [Submissions -> BOOLEAN]
  /\ forcedScore \in [Submissions -> Points \cup {NoScore}]
  /\ appeals \in [Submissions -> [Rounds -> Appeal]]
  /\ objection \in [Submissions -> {"none", "draft", "submitted"}]
  /\ suggested \in [Submissions -> SUBSET Scope]
  /\ otx \subseteq ObjectionTx

Init ==
  /\ status = [s \in Submissions |-> "pending"]
  /\ final = [s \in Submissions |-> NoScore]
  /\ rejected = [s \in Submissions |-> FALSE]
  /\ forcedScore = [s \in Submissions |-> NoScore]
  /\ appeals = [s \in Submissions |-> [k \in Rounds |-> NoAppeal]]
  /\ objection = [s \in Submissions |-> "none"]
  /\ suggested = [s \in Submissions |-> {}]
  /\ otx = {}

itemVars == <<status, final>>
correctionVars == <<rejected, forcedScore>>
objectionVars == <<objection, otx>>

-----------------------------------------------------------------------------
(* What the database enforces, whatever the handler checked.               *)

Corrected(s) == rejected[s] \/ forcedScore[s] # NoScore

\* A slip: the state before migration 000056.
RejectionCheckOnly(s) ==
  rejected[s] => status[s] \in {"scored", "locked"} /\ final[s] = 0

\* CHECK submission_force_rejection_score_check, submission_forced_score_check.
ScoreChecks(s) ==
  /\ rejected[s] => status[s] \in {"scored", "locked"} /\ final[s] = 0
  /\ forcedScore[s] # NoScore =>
       /\ status[s] \in {"scored", "locked"}
       /\ final[s] # NoScore
       /\ rejected[s] \/ final[s] = forcedScore[s]

\* Trigger prevent_force_rejected_workflow on a row that opens or reopens
\* work on the item.
MayOpenWork(s) == ~Corrected(s)

\* Objection requests hold the row lock of the objection until they end.
ObjectionLocked(s) == \E t \in otx : t.sub = s

-----------------------------------------------------------------------------
(* The desk hands the item over, and a published settlement run locks it.  *)

DeskDecides(s, score, scopes) ==
  /\ status[s] = "pending"
  /\ suggested' = [suggested EXCEPT ![s] = @ \cup scopes]
  /\ "cross" \in suggested'[s] => score = NoScore
  /\ status' = [status EXCEPT ![s] = IF score = NoScore THEN "arbitrating" ELSE "scored"]
  /\ final' = [final EXCEPT ![s] = score]
  /\ UNCHANGED <<correctionVars, appeals, objectionVars>>

\* runSettlementTx: UPDATE submission SET status='locked' WHERE status='scored'.
LockScored ==
  /\ \E s \in Submissions : status[s] = "scored"
  /\ status' = [s \in Submissions |-> IF status[s] = "scored" THEN "locked" ELSE status[s]]
  /\ UNCHANGED <<final, correctionVars, appeals, objectionVars, suggested>>

-----------------------------------------------------------------------------
(* Rulings.  All of them end with the same writes.                         *)

\* A ruling awards o, whatever the status was, and settles the suggestions.
Award(s, o) ==
  /\ status' = [status EXCEPT ![s] = "scored"]
  /\ final' = [final EXCEPT ![s] = o[1]]
  /\ suggested' = [suggested EXCEPT ![s] = {}]
  /\ UNCHANGED correctionVars
  /\ ScoreChecks(s)'

\* A slip: the score is taken back, the item is not sent to the desk.
SuggestKeepsStatus(s, scope) ==
  /\ status[s] \in {"scored", "arbitrating", "locked"}
  /\ MayOpenWork(s)
  /\ suggested' = [suggested EXCEPT ![s] = @ \cup {scope}]
  /\ final' = [final EXCEPT ![s] = IF scope = "cross" THEN NoScore ELSE @]
  /\ UNCHANGED <<status, correctionVars, appeals, objectionVars>>

\* A cross-category suggestion takes the score back.
AdminSuggestClassification(s, scope) ==
  /\ status[s] \in {"scored", "arbitrating", "locked"}
  /\ MayOpenWork(s)
  /\ suggested' = [suggested EXCEPT ![s] = @ \cup {scope}]
  /\ IF scope = "cross" /\ status[s] # "locked"
       THEN /\ status' = [status EXCEPT ![s] = "arbitrating"]
            /\ final' = [final EXCEPT ![s] = NoScore]
       ELSE UNCHANGED itemVars
  /\ UNCHANGED <<correctionVars, appeals, objectionVars>>

\* Within the category; any status will do.
ResolveClassification(s, o) ==
  /\ Award(s, o)
  /\ UNCHANGED <<appeals, objectionVars>>

Escalated(s) == {k \in Rounds : appeals[s][k].st = "escalated"}

\* The arbitration desk closes an escalated appeal on the item with it.
ArbitrateSubmission(s, o) ==
  /\ \/ status[s] \in {"arbitrating", "scored"}
     \/ status[s] = "locked" /\ "cross" \in suggested[s]
  /\ Award(s, o)
  /\ IF Escalated(s) = {}
       THEN UNCHANGED appeals
       ELSE \E k \in Escalated(s) : appeals' = [appeals EXCEPT ![s][k].st = "final"]
  /\ UNCHANGED objectionVars

-----------------------------------------------------------------------------
(* Student appeals.                                                        *)

HasActive(s) == \E k \in Rounds : appeals[s][k].st \in Active
HasDraft(s) == \E k \in Rounds : appeals[s][k].st = "draft"

Appealable(s) ==
  /\ status[s] \in {"scored", "locked"}
  /\ final[s] # NoScore
  /\ objection[s] # "submitted"

\* The latest round that is not a draft, 0 if there is none.
Previous(s) ==
  IF appeals[s][2].st \notin {"none", "draft"} THEN 2
  ELSE IF appeals[s][1].st \notin {"none", "draft"} THEN 1 ELSE 0

\* A slip: any closed first round may be followed by a second.
RoundAfterAnyClosed(s) ==
  IF Previous(s) = 0
    THEN {1}
    ELSE {k \in Rounds : Previous(s) = 1 /\ k = 2 /\ appeals[s][1].st \in {"resolved", "final"}}

\* nextStudentAppealRound: a second round only after the first was resolved
\* by the original reviewers.
NextRound(s) ==
  IF Previous(s) = 0
    THEN {1}
    ELSE {k \in Rounds : Previous(s) = 1 /\ k = 2 /\ appeals[s][1].st = "resolved"}

\* An existing draft is returned instead.
EnsureAppealDraft(s) ==
  /\ ~HasDraft(s)
  /\ Appealable(s)
  /\ ~HasActive(s)
  /\ MayOpenWork(s)
  /\ \E k \in NextRound(s) :
       /\ appeals[s][k].st = "none"
       /\ appeals' = [appeals EXCEPT ![s][k] = [NoAppeal EXCEPT !.st = "draft"]]
  /\ UNCHANGED <<itemVars, correctionVars, objectionVars, suggested>>

\* The first round goes to those of the original reviewers who still serve
\* (panel), the second, or a first one nobody is left for, to the desk.
FileAppealDraft(s, k, panel) ==
  /\ appeals[s][k].st = "draft"
  /\ Appealable(s)
  /\ \A j \in Rounds : j # k => appeals[s][j].st \notin Active
  /\ k = 2 => appeals[s][1].st = "resolved" /\ panel = {}
  /\ MayOpenWork(s)
  /\ LET st == IF panel = {} THEN "escalated" ELSE "reviewing"
     IN /\ appeals' = [appeals EXCEPT ![s][k] = [st |-> st, panel |-> panel, given |-> {}]]
        /\ status' = [status EXCEPT ![s] =
                        IF st = "escalated" THEN "arbitrating" ELSE "appealing"]
  /\ UNCHANGED <<final, correctionVars, objectionVars, suggested>>

DeleteAppealDraft(s, k) ==
  /\ appeals[s][k].st = "draft"
  /\ appeals' = [appeals EXCEPT ![s][k] = NoAppeal]
  /\ UNCHANGED <<itemVars, correctionVars, objectionVars, suggested>>

\* Until somebody has decided; the panel is dismissed.
WithdrawAppeal(s, k) ==
  /\ appeals[s][k].st = "reviewing"
  /\ appeals[s][k].given = {}
  /\ status[s] = "appealing"
  /\ MayOpenWork(s)
  /\ appeals' = [appeals EXCEPT ![s][k] = [NoAppeal EXCEPT !.st = "draft"]]
  /\ status' = [status EXCEPT ![s] = "scored"]
  /\ UNCHANGED <<final, correctionVars, objectionVars, suggested>>

\* A slip: the first opinion decides.
FirstOpinionDecides(panel, given) ==
  IF given = {} THEN "reviewing"
  ELSE IF \A v, w \in given : v.outcome = w.outcome THEN "resolved" ELSE "escalated"

\* reconcileAppealOutcomes
ReconcileAppeal(panel, given) ==
  IF \E p \in panel : \A v \in given : v.pos # p
    THEN "reviewing"
    ELSE IF \A v, w \in given : v.outcome = w.outcome THEN "resolved" ELSE "escalated"

\* A member of the panel decides.  The last one resolves or escalates the
\* appeal; a disagreement goes to the desk with the score kept.
DecideFirstAppeal(s, p, o) ==
  LET a == appeals[s][1]
      given == a.given \cup {[pos |-> p, outcome |-> o]}
      next == ReconcileAppeal(a.panel, given)
  IN /\ a.st = "reviewing"
     /\ p \in a.panel
     /\ \A v \in a.given : v.pos # p
     /\ appeals' = [appeals EXCEPT ![s][1] = [st |-> next, panel |-> a.panel, given |-> given]]
     /\ \/ next = "resolved" /\ Award(s, o)
        \/ /\ next = "escalated"
           /\ MayOpenWork(s)
           /\ status' = [status EXCEPT ![s] = "arbitrating"]
           /\ UNCHANGED <<final, correctionVars, suggested>>
        \/ next = "reviewing" /\ UNCHANGED <<itemVars, correctionVars, suggested>>
     /\ UNCHANGED objectionVars

FinalizeAppeal(s, k, o) ==
  /\ appeals[s][k].st \in Active
  /\ Award(s, o)
  /\ appeals' = [appeals EXCEPT ![s][k].st = "final"]
  /\ UNCHANGED objectionVars

-----------------------------------------------------------------------------
(* Objections of the review group.                                         *)

\* validateObjection, without a lock on anything.
Objectable(s) == status[s] \in {"scored", "locked"} /\ ~HasActive(s)

CreateObjection(s) ==
  /\ objection[s] = "none"
  /\ Objectable(s)
  /\ MayOpenWork(s)
  /\ objection' = [objection EXCEPT ![s] = "draft"]
  /\ UNCHANGED <<itemVars, correctionVars, appeals, suggested, otx>>

\* Deleting a draft, withdrawing or dismissing a submitted one.
CloseObjection(s) ==
  /\ objection[s] # "none"
  /\ ~ObjectionLocked(s)
  /\ objection' = [objection EXCEPT ![s] = "none"]
  /\ UNCHANGED <<itemVars, correctionVars, appeals, suggested, otx>>

\* submitObjections, decideObjection (apply, adjust) up to the validation.
ObjectionBegin(t) ==
  /\ objection[t.sub] = IF t.to = "submitted" THEN "draft" ELSE "submitted"
  /\ ~ObjectionLocked(t.sub)
  /\ Objectable(t.sub)
  /\ otx' = otx \cup {t}
  /\ UNCHANGED <<itemVars, correctionVars, appeals, objection, suggested>>

SubmitObjection(t) ==
  /\ t.to = "submitted"
  /\ MayOpenWork(t.sub)
  /\ objection' = [objection EXCEPT ![t.sub] = "submitted"]
  /\ otx' = otx \ {t}
  /\ UNCHANGED <<itemVars, correctionVars, appeals, suggested>>

\* The score is written; pending suggestions are left alone.
ApplyObjection(t) ==
  /\ t.to = "decided"
  /\ status' = [status EXCEPT ![t.sub] = "scored"]
  /\ final' = [final EXCEPT ![t.sub] = t.score]
  /\ objection' = [objection EXCEPT ![t.sub] = "none"]
  /\ otx' = otx \ {t}
  /\ UNCHANGED <<correctionVars, appeals, suggested>>
  /\ ScoreChecks(t.sub)'

ObjectionAbort(t) ==
  /\ otx' = otx \ {t}
  /\ UNCHANGED <<itemVars, correctionVars, appeals, objection, suggested>>

-----------------------------------------------------------------------------
(* Corrections.  All work on the item ends with them.                      *)

ScoredStatus == {"scored", "locked", "appealing", "arbitrating"}

\* A slip: drafts are forgotten.
CloseActiveWork(s) ==
  /\ ~ObjectionLocked(s)
  /\ appeals' = [appeals EXCEPT ![s] = [k \in Rounds |->
                   IF @[k].st \in Active THEN [@[k] EXCEPT !.st = "final"] ELSE @[k]]]
  /\ objection' = [objection EXCEPT ![s] = "none"]
  /\ suggested' = [suggested EXCEPT ![s] = {}]
  /\ UNCHANGED otx

CloseAllWork(s) ==
  /\ ~ObjectionLocked(s)
  /\ appeals' = [appeals EXCEPT ![s] = [k \in Rounds |->
                   IF @[k].st \in {"draft"} \cup Active
                     THEN [@[k] EXCEPT !.st = "final"] ELSE @[k]]]
  /\ objection' = [objection EXCEPT ![s] = "none"]
  /\ suggested' = [suggested EXCEPT ![s] = {}]
  /\ UNCHANGED otx

ForceRejectSubmission(s) ==
  /\ ~rejected[s]
  /\ rejected' = [rejected EXCEPT ![s] = TRUE]
  /\ status' = [status EXCEPT ![s] = "scored"]
  /\ final' = [final EXCEPT ![s] = 0]
  /\ UNCHANGED forcedScore
  /\ CloseAllWork(s)

\* The owner gives a score up; never a negative one.
SelfForceRejectSubmission(s) ==
  /\ status[s] \in ScoredStatus
  /\ final[s] # NoScore
  /\ final[s] >= 0
  /\ ForceRejectSubmission(s)

ForceScoreSubmission(s, x) ==
  /\ ~rejected[s]
  /\ status[s] \in ScoredStatus
  /\ final[s] # NoScore
  /\ x # final[s]
  /\ forcedScore' = [forcedScore EXCEPT ![s] = x]
  /\ status' = [status EXCEPT ![s] = "scored"]
  /\ final' = [final EXCEPT ![s] = x]
  /\ UNCHANGED rejected
  /\ CloseAllWork(s)

-----------------------------------------------------------------------------
Next ==
  \/ LockScored
  \/ \E s \in Submissions :
       \/ \E score \in Points \cup {NoScore}, scopes \in SUBSET Scope :
            DeskDecides(s, score, scopes)
       \/ \E scope \in Scope : AdminSuggestClassification(s, scope)
       \/ \E o \in Outcomes : ResolveClassification(s, o) \/ ArbitrateSubmission(s, o)
       \/ EnsureAppealDraft(s)
       \/ \E k \in Rounds :
            \/ \E panel \in SUBSET Positions : FileAppealDraft(s, k, panel)
            \/ DeleteAppealDraft(s, k)
            \/ WithdrawAppeal(s, k)
            \/ \E o \in Outcomes : FinalizeAppeal(s, k, o)
       \/ \E p \in Positions, o \in Outcomes : DecideFirstAppeal(s, p, o)
       \/ CreateObjection(s)
       \/ CloseObjection(s)
       \/ ForceRejectSubmission(s)
       \/ SelfForceRejectSubmission(s)
       \/ \E x \in Points : ForceScoreSubmission(s, x)
  \/ \E t \in ObjectionTx : ObjectionBegin(t)
  \/ \E t \in otx : SubmitObjection(t) \/ ApplyObjection(t) \/ ObjectionAbort(t)

Spec == Init /\ [][Next]_vars

-----------------------------------------------------------------------------
(* Properties.                                                             *)

\* An item that counts, or whose score is being appealed before its original
\* reviewers, has a score, whatever suggestions, rulings, objections and
\* corrections follow each other.
ScoredHasScore ==
  \A s \in Submissions :
    status[s] \in {"scored", "locked", "appealing"} => final[s] # NoScore

\* A student is heard twice at most and one at a time: a second round exists
\* only after the first was resolved by the original reviewers, so that a
\* final ruling, however it came about, ends the matter.
SecondRoundAfterFirst ==
  \A s \in Submissions : appeals[s][2].st # "none" => appeals[s][1].st = "resolved"

\* An appeal is resolved below the desk only by the whole panel saying the
\* same, points and classification.
ResolvedByWholePanel ==
  \A s \in Submissions :
    appeals[s][1].st = "resolved" =>
      /\ appeals[s][1].panel # {}
      /\ \A p \in appeals[s][1].panel : \E v \in appeals[s][1].given : v.pos = p
      /\ \A v, w \in appeals[s][1].given : v.outcome = w.outcome

\* A corrected item has no work left open on it and none appears later, not
\* even from a request that was validated before the correction.
CorrectedIsQuiet ==
  \A s \in Submissions :
    Corrected(s) =>
      /\ status[s] \in {"scored", "locked"}
      /\ ~HasDraft(s) /\ ~HasActive(s)
      /\ objection[s] = "none" /\ ~ObjectionLocked(s)
      /\ suggested[s] = {}

CorrectionStep(s) ==
  Corrected(s) /\ final'[s] # final[s] =>
    rejected'[s] # rejected[s] \/ forcedScore'[s] # forcedScore[s]

\* The score of a corrected item changes only by another correction: no older
\* appeal, objection, suggestion or arbitration brings the old score back.
CorrectionStands == [][\A s \in Submissions : CorrectionStep(s)]_vars

\* Appeals, objections, suggestions, settlement and corrections in any order (appeal_handlers.go and
\* its neighbours): what counts has a score, rounds follow each other and are resolved by whole
\* panels, and nothing is left to do on a corrected item.
AdjudicationInv == TypeOK /\ ScoredHasScore /\ SecondRoundAfterFirst /\ ResolvedByWholePanel /\ CorrectedIsQuiet
=============================================================================
