------------------------------ MODULE Reports ------------------------------
(***************************************************************************)
(* Reports of students about the scores of another (report_handlers.go and  *)
(* report_review_handlers.go).  A report claims a worse score for a base    *)
(* item, a further deduction, or a worse score for a scored submission.     *)
(* Two reviewers judge it without seeing each other's verdict; if they      *)
(* agree it is settled, else an administrator decides.                      *)
(*                                                                          *)
(* The module has one reported student, with one item of each kind.         *)
(* Reviewers may have other work, so that the order of their queues is open.*)
(*                                                                          *)
(* A request of the site takes the lock of its class before it reads        *)
(* (governanceGuard), so that it is one action.  A verdict that is given     *)
(* through a tool link reads in the snapshot of a transaction that is older  *)
(* than that lock (middleware.go:462), and is two: the read and the commit.  *)
(***************************************************************************)
EXTENDS Integers, FiniteSets, Sums

CONSTANTS
  ReportStaff,           \* active reviewers and administrators other than the student
  Reporters,       \* students and staff who report
  Reported,        \* kinds that are reported
  ReportLinks,     \* tool links of reviewers
  MaxReports,      \* bound on reports
  FullScore,       \* full score of the base item, and the submission's first score
  MaxScoreMoves    \* bound on changes of the score by other ways

VARIABLES
  itemScore,       \* base_score.score of two items and submission.final_score
  appealing,       \* an appeal about the submission is open
  reports,         \* report, report_reporter and report_reviewer
  reportTx,        \* the snapshot of each link's call
  scoreMoves

reportVars == <<itemScore, appealing, reports, reportTx, scoreMoves>>

ReportKinds == {"base", "penalty", "submission"}
ASSUME ReportsAssumption == /\ Reported \subseteq ReportKinds /\ IsFiniteSet(ReportStaff)
                            /\ FullScore \in Nat /\ MaxReports \in Nat /\ MaxScoreMoves \in Nat
ReportIds == 1 .. MaxReports
Unset == -99
Deductions == -2 .. -1
ReportScores == -2 .. FullScore

NoReport == [st |-> "none", kind |-> "none", by |-> "none", panel |-> {}, cur |-> Unset,
             prop |-> Unset, verdict |-> [s \in ReportStaff |-> Unset], final |-> Unset]
NoRequest == [at |-> "none"]

OpenReport(r) == reports[r].st \in {"reviewing", "escalated"}
ReportEnded == {"applied", "dismissed", "final"}

ReportTypeOK ==
  /\ itemScore \in [ReportKinds -> Int] /\ itemScore["penalty"] <= 0
  /\ itemScore["base"] \in 0 .. FullScore /\ itemScore["submission"] \in 0 .. FullScore
  /\ appealing \in BOOLEAN /\ scoreMoves \in 0 .. MaxScoreMoves
  /\ reports \in
       [ReportIds -> [st : {"none", "reviewing", "escalated"} \cup ReportEnded,
                      kind : ReportKinds \cup {"none"}, by : Reporters \cup {"none"},
                      panel : SUBSET ReportStaff, cur : Int,
                      prop : ReportScores \cup {Unset},
                      verdict : [ReportStaff -> ReportScores \cup {Unset}],
                      final : ReportScores \cup {Unset}]]

ReportInit ==
  /\ itemScore = [k \in ReportKinds |-> IF k = "penalty" THEN 0 ELSE FullScore]
  /\ appealing = FALSE /\ scoreMoves = 0
  /\ reports = [r \in ReportIds |-> NoReport]
  /\ reportTx = [t \in ReportLinks |-> NoRequest]

-----------------------------------------------------------------------------
(* Filing *)

\* validateReport, rejectIfNotWorse: only a claim that lowers the score.  A deduction is
\* a count times the price of the item.
ReportClaims(kind) == IF kind = "penalty" THEN Deductions ELSE 0 .. itemScore[kind] - 1

\* report_already_filed
AlreadyFiled(p, kind) == \E r \in ReportIds : OpenReport(r) /\ reports[r].by = p /\ reports[r].kind = kind

\* assignReportReviewers: two with the fewest reports in hand, never the reporter
ReportsInHand(s) == Cardinality({r \in ReportIds : s \in reports[r].panel /\ reports[r].verdict[s] = Unset})
Panelists(p) ==
  {q \in kSubset(2, ReportStaff \ {p}) : \A s \in q, o \in (ReportStaff \ {p}) \ q : ReportsInHand(s) <= ReportsInHand(o)}

\* createReport; with fewer than two reviewers the request is undone
FileReport(p, kind, prop) ==
  /\ kind = "submission" => ~appealing
  /\ prop \in ReportClaims(kind) /\ ~AlreadyFiled(p, kind)
  /\ \E q \in Panelists(p), r \in ReportIds :
       /\ reports[r] = NoReport /\ \A o \in 1 .. r - 1 : reports[o] # NoReport
       /\ reports' = [reports EXCEPT ![r] =
            [NoReport EXCEPT !.st = "reviewing", !.kind = kind, !.by = p,
                             !.panel = q, !.cur = itemScore[kind], !.prop = prop]]
  /\ UNCHANGED <<itemScore, appealing, reportTx, scoreMoves>>

-----------------------------------------------------------------------------
(* Verdicts *)

\* reportStatusQuo: nothing more deducted, or the score at the time of the report
StatusQuo(x) == IF x.kind = "penalty" THEN 0 ELSE x.cur

\* validateReportDecision: between the claim and the score then
ReportVerdicts(x) == x.prop .. StatusQuo(x)

\* A slip: a deduction replaces those before it.
Overwritten(s, kind, n) == [s EXCEPT ![kind] = n]

\* applyReportOutcome: deductions add up, the others are replaced
ReportApplied(s, kind, n) == [s EXCEPT ![kind] = IF kind = "penalty" THEN @ + n ELSE n]

\* decideReport counts the verdicts it sees.
Given(x) == {s \in x.panel : x.verdict[s] # Unset}

\* A slip: verdicts that differ are settled by the harsher one.
HarsherWins(x, counted) ==
  IF counted # x.panel THEN x
  ELSE [x EXCEPT !.st = "applied", !.final = Min({x.verdict[s] : s \in counted})]

\* reportOutcome: with both verdicts counted, equal scores settle the report
ReportOutcome(x, counted) ==
  LET given == {x.verdict[s] : s \in counted}
      n == CHOOSE v \in given : TRUE
  IN IF counted # x.panel THEN x
     ELSE IF Cardinality(given) > 1 THEN [x EXCEPT !.st = "escalated"]
     ELSE IF n = StatusQuo(x) THEN [x EXCEPT !.st = "dismissed", !.final = 0]
     ELSE [x EXCEPT !.st = "applied", !.final = n]

\* loadReportForReviewer and the checks of decideReport
MayDecide(s, r) ==
  s \in reports[r].panel /\ reports[r].st = "reviewing" /\ reports[r].verdict[s] = Unset

\* decideReport with settleReport: s gives n and counts it with those of "seen"
GiveVerdict(s, r, n, seen) ==
  LET new == ReportOutcome([reports[r] EXCEPT !.verdict[s] = n], seen \cup {s})
  IN /\ MayDecide(s, r) /\ n \in ReportVerdicts(reports[r])
     /\ reports' = [reports EXCEPT ![r] = new]
     /\ itemScore' = IF new.st = "applied"
                       THEN ReportApplied(itemScore, new.kind, new.final) ELSE itemScore
     /\ UNCHANGED <<appealing, scoreMoves>>

DecideReport(s, r, n) == GiveVerdict(s, r, n, Given(reports[r])) /\ UNCHANGED reportTx

\* reviews.report_decide (mcp_tools.go:119): the transaction of a link is REPEATABLE READ
\* and has its snapshot before it waits for the class.
LinkRead(t, s, r) ==
  /\ reportTx[t] = NoRequest /\ MayDecide(s, r)
  /\ reportTx' = [reportTx EXCEPT ![t] =
       [at |-> "read", by |-> s, report |-> r, seen |-> Given(reports[r]),
        score |-> itemScore[reports[r].kind]]]
  /\ UNCHANGED <<itemScore, appealing, reports, scoreMoves>>

\* A row that was written after the snapshot undoes the call: the report, its reviewer's
\* own row, the score that is changed.  The other reviewer's row is only read, and read as
\* it was.
LinkDecide(t, n) ==
  LET x == reportTx[t]
  IN /\ x # NoRequest
     /\ \/ /\ GiveVerdict(x.by, x.report, n, x.seen)
           /\ itemScore' # itemScore => x.score = itemScore[reports[x.report].kind]
        \/ UNCHANGED <<itemScore, appealing, reports, scoreMoves>>
     /\ reportTx' = [reportTx EXCEPT ![t] = NoRequest]

\* validateReportFinalScore
ReportRulings(x) == IF x.kind = "penalty" THEN Deductions \cup {0} ELSE 0 .. x.cur

\* finalizeReport, by an administrator or the deputy; the report's row is locked
FinalizeReport(r, n) ==
  /\ reports[r].st = "escalated" /\ n \in ReportRulings(reports[r])
  /\ itemScore' = IF n = StatusQuo(reports[r]) THEN itemScore
                  ELSE ReportApplied(itemScore, reports[r].kind, n)
  /\ reports' = [reports EXCEPT ![r].st = "final", ![r].final = n]
  /\ UNCHANGED <<appealing, reportTx, scoreMoves>>

-----------------------------------------------------------------------------
(* Other ways to change the same scores *)

FileAppeal ==
  /\ ~appealing /\ appealing' = TRUE
  /\ UNCHANGED <<itemScore, reports, reportTx, scoreMoves>>

DecideAppeal(n) ==
  /\ appealing /\ scoreMoves < MaxScoreMoves
  /\ appealing' = FALSE /\ scoreMoves' = scoreMoves + 1
  /\ itemScore' = [itemScore EXCEPT !["submission"] = n]
  /\ UNCHANGED <<reports, reportTx>>

\* forceReject and forceScore end every report about the submission.
ForceScore(n) ==
  /\ scoreMoves < MaxScoreMoves /\ scoreMoves' = scoreMoves + 1
  /\ itemScore' = [itemScore EXCEPT !["submission"] = n]
  /\ appealing' = FALSE
  /\ reports' = [r \in ReportIds |->
       IF OpenReport(r) /\ reports[r].kind = "submission"
         THEN [reports[r] EXCEPT !.st = "final", !.final = n] ELSE reports[r]]
  /\ UNCHANGED reportTx

ReportNext ==
  \/ \E p \in Reporters, k \in Reported, n \in ReportScores : FileReport(p, k, n)
  \/ \E s \in ReportStaff, r \in ReportIds, n \in ReportScores : DecideReport(s, r, n)
  \/ \E t \in ReportLinks :
       \/ \E s \in ReportStaff, r \in ReportIds : LinkRead(t, s, r)
       \/ \E n \in ReportScores : LinkDecide(t, n)
  \/ \E r \in ReportIds, n \in ReportScores : FinalizeReport(r, n)
  \/ FileAppeal
  \/ \E n \in 0 .. FullScore : DecideAppeal(n) \/ ForceScore(n)

ReportSpec == ReportInit /\ [][ReportNext]_reportVars

-----------------------------------------------------------------------------
(* Properties *)

\* settleReport: a report settled without an administrator has the same verdict of both
\* its reviewers, and none of them changes afterwards what was settled.
SettledByBoth ==
  \A r \in ReportIds :
    reports[r].st \in {"applied", "dismissed"} =>
      \A s \in reports[r].panel :
        reports[r].verdict[s] =
          IF reports[r].st = "applied" THEN reports[r].final ELSE StatusQuo(reports[r])

\* decideReport (report_review_handlers.go:213): with both verdicts in, a report is settled
\* or escalated; it never waits for a verdict that nobody is left to give.
NoneLeftWaiting ==
  \A r \in ReportIds : reports[r].st = "reviewing" => Given(reports[r]) # reports[r].panel

\* applyReportOutcome: the deductions of an item are those of all the reports that were
\* upheld, each counted once, in whatever order verdicts, rulings and repeats arrive.
Deducts(x) == IF x.kind = "penalty" /\ x.st \in {"applied", "final"} THEN x.final ELSE 0
DeductionsAddUp == itemScore["penalty"] = SumOver([r \in ReportIds |-> Deducts(reports[r])], ReportIds)

\* 000041_student_reports.up.sql:20: a report can make a score worse, never better.
ReportNeverRaises ==
  [][\A k \in ReportKinds : itemScore'[k] > itemScore[k] => scoreMoves' # scoreMoves]_reportVars

\* Verdicts, rulings and repeats (report_review_handlers.go): settled is what both reviewers said,
\* and every upheld report counts once.
ReportInv == ReportTypeOK /\ SettledByBoth /\ DeductionsAddUp
=============================================================================
