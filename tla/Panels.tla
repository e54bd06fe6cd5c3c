------------------------------- MODULE Panels -------------------------------
(***************************************************************************)
(* Cases of a class under collective government: a material is judged by a  *)
(* panel drawn from the members, and the appeal against it by another       *)
(* (governance_cases.go, governance_ballots.go, governance/policy.go, with  *)
(* the compact profile).  Every request that writes holds the class's       *)
(* advisory lock, so that each is one step.                                 *)
(*                                                                          *)
(* Draw orders members by load and by a hash of a random seed.  The members *)
(* of this module have no other load and are alike but for their numbers,   *)
(* so the order of the numbers stands for any.                              *)
(***************************************************************************)
EXTENDS Integers, FiniteSets

CONSTANTS
  Jurors,          \* members, numbered
  Subject,         \* the member whose material it is
  Verdicts,        \* decision, score and classification
  MaxFacts,        \* bound on changes of the case's facts
  MaxPoolMoves     \* bound on members who come or go

ASSUME PanelsAssumption ==
  /\ Jurors \subseteq Nat /\ IsFiniteSet(Jurors) /\ Subject \in Jurors
  /\ {"none", "abstain"} \cap Verdicts = {}
  /\ MaxFacts \in Nat /\ MaxPoolMoves \in Nat

VARIABLES
  pool,            \* eligible reviewers
  stage,           \* review, then appeal
  kase,            \* governance_proposal and governance_voter of that case
  earlier,         \* governance_voter of the review once the appeal is open
  facts,           \* what governanceCaseState fingerprints
  poolMoves

panelVars == <<pool, stage, kase, earlier, facts, poolMoves>>

Blank == [j \in Jurors |-> "none"]
NoCase == [st |-> "none", seats |-> 2, active |-> {}, gone |-> {}, excluded |-> {},
           opinion |-> Blank, on |-> [j \in Jurors |-> 0], pick |-> Blank, hash |-> 0,
           round |-> 1, late |-> FALSE, repl |-> 0, split |-> FALSE, verdict |-> "none"]

PanelTypeOK ==
  /\ pool \in SUBSET Jurors
  /\ stage \in {"review", "appeal"} /\ earlier \in SUBSET Jurors
  /\ kase \in
       [st : {"none", "voting", "deliberating", "blocked", "applied"}, seats : {2, 3},
        active : SUBSET Jurors, gone : SUBSET Jurors, excluded : SUBSET Jurors,
        opinion : [Jurors -> Verdicts \cup {"none"}], on : [Jurors -> 0 .. MaxFacts],
        pick : [Jurors -> Verdicts \cup {"none", "abstain"}], hash : 0 .. MaxFacts,
        round : 1 .. 2, late : BOOLEAN, repl : Nat, split : BOOLEAN,
        verdict : Verdicts \cup {"none"}]
  /\ facts \in 0 .. MaxFacts
  /\ poolMoves \in 0 .. MaxPoolMoves

PanelInit ==
  /\ pool = Jurors
  /\ stage = "review" /\ kase = NoCase /\ earlier = {}
  /\ facts = 0 /\ poolMoves = 0

-----------------------------------------------------------------------------
(* Panels *)

\* Draw
Draw(excl, n) == {j \in pool \ excl : Cardinality({k \in pool \ excl : k < j}) < n}
Available(excl) == Cardinality(pool \ excl)
Seen(c) == c.active \cup c.gone

\* ensureGovernanceCase: members for this round and for an independent appeal must be
\* left, else the case is visible and has no panel.
Opened(seats, excl, enough) ==
  [NoCase EXCEPT !.st = IF enough THEN "voting" ELSE "blocked", !.seats = seats,
                 !.active = IF enough THEN Draw(excl, seats) ELSE {}, !.excluded = excl,
                 !.hash = facts]

OpenReview ==
  /\ kase = NoCase
  /\ kase' = Opened(2, {Subject}, Available({Subject}) >= 6)
  /\ UNCHANGED <<pool, stage, earlier, facts, poolMoves>>

\* A slip: those who gave up their seat may judge the appeal.
SatToTheEnd == kase.active

SatBefore == Seen(kase)

OpenAppeal ==
  /\ stage = "review" /\ kase.st = "applied"
  /\ stage' = "appeal" /\ earlier' = Seen(kase)
  /\ LET excl == {Subject} \cup SatBefore
     IN kase' = Opened(3, excl, Available(excl) >= 3)
  /\ UNCHANGED <<pool, facts, poolMoves>>

\* expandGovernanceCase: seats left empty are drawn again, at most twice by itself.
Expanded(c, seats, automatic) ==
  LET expired == {j \in c.active : c.late /\ c.opinion[j] = "none"}
      kept == c.active \ expired
      excl == c.excluded \cup Seen(c)
      need == seats - Cardinality(kept)
      reserve == IF stage = "review" THEN 3 - Cardinality(kept) + 3 ELSE need
  IN IF automatic /\ expired # {} /\ c.repl >= 2 THEN [c EXCEPT !.st = "blocked"]
     ELSE IF need <= 0 THEN c
     ELSE IF Available(excl) < need \/ Available(excl) < reserve THEN [c EXCEPT !.st = "blocked"]
     ELSE [c EXCEPT !.st = "voting", !.seats = seats, !.late = FALSE,
                    !.active = kept \cup Draw(excl, need),
                    !.gone = @ \cup expired,
                    !.repl = IF expired = {} THEN @ ELSE @ + 1]

\* A slip: half of the panel is enough.
HalfPanel(c) == c.seats \div 2

Majority(c) == c.seats \div 2 + 1
Voiced(c) == {j \in c.active : c.opinion[j] # "none"}
Won(c, f) == {v \in Verdicts : Cardinality({j \in c.active : f[j] = v}) >= Majority(c)}

\* Reconcile; "decided" is left to the caller, who must compare the facts first.
Reconciled(c, automatic) ==
  IF Cardinality(Voiced(c)) < c.seats
    THEN IF c.late \/ c.st = "blocked" THEN Expanded(c, c.seats, automatic) ELSE c
    ELSE IF c.seats = 2 THEN Expanded(c, 3, automatic)
                        ELSE [c EXCEPT !.st = "deliberating", !.late = FALSE]

\* finishGovernanceBallot without a winner
Tallied(c) ==
  IF Cardinality({j \in c.active : c.pick[j] # "none"}) < c.seats /\ ~c.late THEN c
  ELSE [c EXCEPT !.st = "blocked", !.split = TRUE]

\* The verdicts that end the case as it stands.
Winners(c) ==
  IF c.st = "deliberating"
    THEN IF Cardinality({j \in c.active : c.pick[j] # "none"}) < c.seats /\ ~c.late
           THEN {} ELSE Won(c, c.pick)
    ELSE IF Cardinality(Voiced(c)) < c.seats THEN {} ELSE Won(c, c.opinion)

\* A slip: the winner is applied to whatever the material has become.
FactsUnseen(c) == TRUE

FactsStand(c) == facts = c.hash

\* finishGovernanceCase with c as the case: executed, or refused because the facts have
\* changed, in which case the whole request is undone.
Finish(c, automatic) ==
  IF c.st = "blocked" /\ c.split THEN kase' = c /\ UNCHANGED facts
  ELSE IF Winners(c) # {}
    THEN /\ FactsStand(c) /\ facts < MaxFacts
         /\ \E v \in Winners(c) :
              kase' = [c EXCEPT !.st = "applied", !.verdict = v]
         /\ facts' = facts + 1
    ELSE /\ kase' = IF c.st = "deliberating" THEN Tallied(c) ELSE Reconciled(c, automatic)
         /\ UNCHANGED facts

Live == kase.st \in {"voting", "deliberating", "blocked"}

\* A slip: the version a juror saw is not compared with that of the opinions before.
VersionUnchecked(c) == TRUE

\* decideGovernanceCase: the first opinion fixes the version, the others must be on it.
VersionAgrees(c) == facts = c.hash \/ \A j \in Jurors : c.opinion[j] = "none"

DecideCase(j, v) ==
  /\ kase.st = "voting" /\ ~kase.late
  /\ j \in kase.active /\ j # Subject /\ kase.opinion[j] = "none"
  /\ VersionAgrees(kase)
  /\ Finish([kase EXCEPT !.opinion[j] = v, !.on[j] = facts, !.hash = facts], FALSE)
  /\ UNCHANGED <<pool, stage, earlier, poolMoves>>

\* ballotGovernanceCase: one of the opinions, or none of them.
BallotCase(j, v) ==
  /\ kase.st = "deliberating" /\ ~kase.late
  /\ j \in kase.active /\ kase.opinion[j] # "none" /\ kase.pick[j] = "none"
  /\ v = "abstain" \/ \E k \in kase.active : kase.opinion[k] = v
  /\ Finish([kase EXCEPT !.pick[j] = v], FALSE)
  /\ UNCHANGED <<pool, stage, earlier, poolMoves>>

\* closeGovernanceProposal, asked for by a party or by the scheduler.
CloseCase(automatic) ==
  /\ Live
  /\ automatic => kase.late \/ (kase.st = "blocked" /\ ~kase.split)
  /\ Finish(kase, automatic)
  /\ UNCHANGED <<pool, stage, earlier, poolMoves>>

\* closes_at passes.
CaseDeadline ==
  /\ Live /\ ~kase.late
  /\ kase' = [kase EXCEPT !.late = TRUE]
  /\ UNCHANGED <<pool, stage, earlier, facts, poolMoves>>

\* restartGovernanceCase: the same panel looks at the new facts.
Restarted(c, h) == [c EXCEPT !.st = "voting", !.pick = Blank, !.hash = h, !.round = @ + 1,
                             !.split = FALSE, !.late = FALSE,
                             !.opinion = [j \in Jurors |-> IF j \in c.active THEN "none" ELSE @[j]]]

RestartCase ==
  /\ Live /\ kase.round < 2 /\ facts # kase.hash
  /\ kase' = Restarted(kase, facts)
  /\ UNCHANGED <<pool, stage, earlier, facts, poolMoves>>

\* commentGovernance with new evidence by the subject.
CommentEvidence ==
  /\ Live /\ kase.round < 2 /\ facts < MaxFacts
  /\ facts' = facts + 1
  /\ kase' = Restarted(kase, facts + 1)
  /\ UNCHANGED <<pool, stage, earlier, poolMoves>>

\* Another request changes the material, its files or the scheme.
FactsChange ==
  /\ facts < MaxFacts
  /\ facts' = facts + 1
  /\ UNCHANGED <<pool, stage, kase, earlier, poolMoves>>

\* joinGovernance, or an account that is disabled; a seat is kept.
PoolMove(j) ==
  /\ poolMoves < MaxPoolMoves /\ poolMoves' = poolMoves + 1
  /\ pool' = IF j \in pool THEN pool \ {j} ELSE pool \cup {j}
  /\ UNCHANGED <<stage, kase, earlier, facts>>

PanelNext ==
  \/ OpenReview \/ OpenAppeal \/ FactsChange
  \/ CaseDeadline \/ RestartCase \/ CommentEvidence
  \/ \E b \in BOOLEAN : CloseCase(b)
  \/ \E j \in Jurors : \/ PoolMove(j)
                       \/ \E v \in Verdicts : DecideCase(j, v)
                       \/ \E v \in Verdicts \cup {"abstain"} : BallotCase(j, v)

PanelSpec == PanelInit /\ [][PanelNext]_panelVars

-----------------------------------------------------------------------------
(* Properties *)

\* Nobody judges his own case, and nobody who ever had a seat in a review has one in the
\* appeal against it, whatever expansions and replacements came between
\* (ensureGovernanceCase, expandGovernanceCase).
PanelIndependent ==
  /\ Subject \notin Seen(kase)
  /\ Seen(kase) \cap earlier = {}
  /\ Cardinality(kase.active) <= kase.seats

\* All opinions of a round are about the same version of the case (decideGovernanceCase,
\* restartGovernanceCase).
OneVersion == \A j \in Voiced(kase) : kase.on[j] = kase.hash

\* A verdict has a majority of the full panel behind it, by independent opinions or by the
\* ballot after them; disagreement is never averaged (Reconcile, finishGovernanceBallot).
VerdictByMajority ==
  kase.st = "applied" =>
    /\ Cardinality(kase.active) = kase.seats /\ kase.active = Voiced(kase)
    /\ \E f \in {kase.opinion, kase.pick} :
         2 * Cardinality({j \in kase.active : f[j] = kase.verdict}) > kase.seats

\* A verdict changes the material only in the version that was judged
\* (finishGovernanceCase, finishGovernanceBallot).
AppliedToJudged ==
  [][kase.st # "applied" /\ kase'.st = "applied" => facts = kase'.hash]_panelVars

\* Draws, expansions, replacements, restarts and appeals (governance_cases.go,
\* governance_ballots.go): a panel is independent and judges one version by its majority.
PanelInv == PanelTypeOK /\ PanelIndependent /\ OneVersion /\ VerdictByMajority
=============================================================================
