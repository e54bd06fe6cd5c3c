---------------------------- MODULE RulingProofs ----------------------------
(***************************************************************************)
(* Rulings, for every number of items, members, proposals and jurors: what  *)
(* appeals, objections and corrections leave of an item, what a class that  *)
(* governs itself may carry out, and who judges a case.                     *)
(***************************************************************************)
EXTENDS Adjudication, Proposals, Panels, FiniteSetTheorems, TLAPS

-----------------------------------------------------------------------------
(* Appeals, objections and corrections                                     *)

AdjudicationSound == AdjudicationInv /\ \A s \in Submissions : ScoreChecks(s)

\* All of it that is about one item.
ItemSound(s) ==
  /\ status[s] \in {"scored", "locked", "appealing"} => final[s] # NoScore
  /\ appeals[s][2].st # "none" => appeals[s][1].st = "resolved"
  /\ appeals[s][1].st = "resolved" =>
       /\ appeals[s][1].panel # {}
       /\ \A p \in appeals[s][1].panel : \E v \in appeals[s][1].given : v.pos = p
       /\ \A v, w \in appeals[s][1].given : v.outcome = w.outcome
  /\ Corrected(s) =>
       /\ status[s] \in {"scored", "locked"}
       /\ \A k \in Rounds : appeals[s][k].st \notin {"draft"} \cup Active
       /\ objection[s] = "none" /\ ~ObjectionLocked(s)
       /\ suggested[s] = {}
  /\ ScoreChecks(s)

LEMMA ItemByItem == AdjudicationSound <=> TypeOK /\ \A s \in Submissions : ItemSound(s)
BY DEF AdjudicationSound, AdjudicationInv, ItemSound, ScoredHasScore, SecondRoundAfterFirst,
       ResolvedByWholePanel, CorrectedIsQuiet, HasDraft, HasActive

\* An item that a step leaves alone stays as it is.
Untouched(s) ==
  /\ status'[s] = status[s] /\ final'[s] = final[s]
  /\ rejected'[s] = rejected[s] /\ forcedScore'[s] = forcedScore[s]
  /\ appeals'[s] = appeals[s]
  /\ objection'[s] = objection[s] /\ suggested'[s] = suggested[s]
  /\ ObjectionLocked(s)' => ObjectionLocked(s)

LEMMA UntouchedKept ==
  ASSUME NEW s \in Submissions, ItemSound(s), Untouched(s)
  PROVE  ItemSound(s)'
BY DEF ItemSound, Untouched, ScoreChecks, Corrected

\* A step that is about one item.
LEMMA OneItem ==
  ASSUME AdjudicationSound, TypeOK', NEW s \in Submissions, ItemSound(s)',
         \A r \in Submissions : r # s => Untouched(r)
  PROVE  AdjudicationSound'
<1>1. ASSUME NEW r \in Submissions PROVE ItemSound(r)'
  <2>1. CASE r = s
    BY <2>1
  <2>2. CASE r # s
    BY <2>2, ItemByItem, UntouchedKept
  <2> QED
    BY <2>1, <2>2
<1> QED
  BY <1>1 DEF AdjudicationSound, AdjudicationInv, ItemSound, ScoredHasScore,
              SecondRoundAfterFirst, ResolvedByWholePanel, CorrectedIsQuiet, HasDraft, HasActive

\* What a change of one round leaves of the appeals.
LEMMA OneRound ==
  ASSUME NEW f \in [Submissions -> [Rounds -> Appeal]], NEW s \in Submissions, NEW k \in Rounds,
         NEW a \in Appeal
  PROVE  /\ [f EXCEPT ![s][k] = a] \in [Submissions -> [Rounds -> Appeal]]
         /\ [f EXCEPT ![s][k] = a][s][k] = a
         /\ \A j \in Rounds : j # k => [f EXCEPT ![s][k] = a][s][j] = f[s][j]
         /\ \A r \in Submissions : r # s => [f EXCEPT ![s][k] = a][r] = f[r]
OBVIOUS

LEMMA RoundStatus ==
  ASSUME NEW f \in [Submissions -> [Rounds -> Appeal]], NEW s \in Submissions, NEW k \in Rounds,
         NEW st \in AppealStatus
  PROVE  /\ [f EXCEPT ![s][k].st = st] = [f EXCEPT ![s][k] = [f[s][k] EXCEPT !.st = st]]
         /\ [f[s][k] EXCEPT !.st = st] \in Appeal
         /\ [f[s][k] EXCEPT !.st = st].st = st
<1>1. f[s] \in [Rounds -> Appeal] /\ f[s][k] \in Appeal
  OBVIOUS
<1> QED
  BY <1>1 DEF Appeal

LEMMA AdjudicationStarts == Init => AdjudicationSound
<1> SUFFICES ASSUME Init PROVE AdjudicationSound
  OBVIOUS
<1> USE DEF Init
<1>1. TypeOK
  BY DEF TypeOK, Appeal, NoAppeal, AppealStatus, Status
<1>2. ASSUME NEW s \in Submissions PROVE ItemSound(s)
  BY DEF ItemSound, Corrected, ScoreChecks, NoAppeal, Active, Rounds
<1> QED
  BY <1>1, <1>2, ItemByItem

LEMMA ItemsTyped ==
  ASSUME AdjudicationSound
  PROVE  /\ status \in [Submissions -> Status \ {"draft", "consensus"}]
         /\ final \in [Submissions -> Points \cup {NoScore}]
         /\ rejected \in [Submissions -> BOOLEAN]
         /\ forcedScore \in [Submissions -> Points \cup {NoScore}]
         /\ appeals \in [Submissions -> [Rounds -> Appeal]]
         /\ objection \in [Submissions -> {"none", "draft", "submitted"}]
         /\ suggested \in [Submissions -> SUBSET Scope]
         /\ otx \subseteq ObjectionTx
BY DEF AdjudicationSound, AdjudicationInv, TypeOK

LEMMA StatusNames ==
  /\ {"pending", "scored", "locked", "appealing", "arbitrating"} \subseteq Status \ {"draft", "consensus"}
BY DEF Status

\* What a ruling writes.
LEMMA AwardWrites ==
  ASSUME AdjudicationSound, NEW s \in Submissions, NEW o \in Outcomes, Award(s, o)
  PROVE  /\ status' \in [Submissions -> Status \ {"draft", "consensus"}]
         /\ final' \in [Submissions -> Points \cup {NoScore}]
         /\ suggested' \in [Submissions -> SUBSET Scope]
         /\ status'[s] = "scored" /\ final'[s] = o[1] /\ o[1] # NoScore /\ suggested'[s] = {}
         /\ \A r \in Submissions : r # s => /\ status'[r] = status[r] /\ final'[r] = final[r]
                                            /\ suggested'[r] = suggested[r]
BY ItemsTyped, StatusNames, AdjudicationAssumption DEF Award

LEMMA DeskKept ==
  ASSUME AdjudicationSound, NEW s \in Submissions, NEW score \in Points \cup {NoScore},
         NEW scopes \in SUBSET Scope, DeskDecides(s, score, scopes)
  PROVE  AdjudicationSound'
<1>1. /\ status' = [status EXCEPT ![s] = IF score = NoScore THEN "arbitrating" ELSE "scored"]
      /\ final' = [final EXCEPT ![s] = score]
      /\ suggested' = [suggested EXCEPT ![s] = suggested[s] \cup scopes]
      /\ status[s] = "pending"
      /\ UNCHANGED <<correctionVars, appeals, objectionVars>>
  BY DEF DeskDecides
<1>2. TypeOK'
  BY <1>1, ItemsTyped, StatusNames DEF TypeOK, correctionVars, objectionVars
<1>3. \A r \in Submissions : r # s => Untouched(r)
  BY <1>1, ItemsTyped DEF Untouched, correctionVars, objectionVars, ObjectionLocked
<1>4. ItemSound(s)
  BY ItemByItem
<1>5. /\ status'[s] = IF score = NoScore THEN "arbitrating" ELSE "scored"
      /\ final'[s] = score
  BY <1>1, ItemsTyped
<1>6. ~Corrected(s)
  BY <1>1, <1>4 DEF ItemSound
<1>7. ItemSound(s)'
  BY <1>1, <1>4, <1>5, <1>6
     DEF ItemSound, correctionVars, objectionVars, Corrected, ObjectionLocked, ScoreChecks
<1> QED
  BY <1>2, <1>3, <1>7, OneItem

LEMMA LockKept ==
  ASSUME AdjudicationSound, LockScored
  PROVE  AdjudicationSound'
<1>1. /\ status' = [s \in Submissions |-> IF status[s] = "scored" THEN "locked" ELSE status[s]]
      /\ UNCHANGED <<final, rejected, forcedScore, appeals, objection, otx, suggested>>
  BY DEF LockScored, correctionVars, objectionVars
<1>2. TypeOK'
  BY <1>1, ItemsTyped, StatusNames DEF TypeOK
<1>3. ASSUME NEW s \in Submissions PROVE ItemSound(s)'
  <2>1. ItemSound(s)
    BY ItemByItem
  <2>2. status'[s] = IF status[s] = "scored" THEN "locked" ELSE status[s]
    BY <1>1
  <2> QED
    BY <1>1, <2>1, <2>2 DEF ItemSound, Corrected, ObjectionLocked, ScoreChecks
<1> QED
  BY <1>2, <1>3 DEF AdjudicationSound, AdjudicationInv, ItemSound, ScoredHasScore,
              SecondRoundAfterFirst, ResolvedByWholePanel, CorrectedIsQuiet, HasDraft, HasActive

LEMMA SuggestKept ==
  ASSUME AdjudicationSound, NEW s \in Submissions, NEW scope \in Scope,
         AdminSuggestClassification(s, scope)
  PROVE  AdjudicationSound'
<1>1. /\ \/ /\ status' = [status EXCEPT ![s] = "arbitrating"]
            /\ final' = [final EXCEPT ![s] = NoScore]
         \/ UNCHANGED <<status, final>>
      /\ suggested' = [suggested EXCEPT ![s] = suggested[s] \cup {scope}]
      /\ ~Corrected(s)
      /\ UNCHANGED <<rejected, forcedScore, appeals, objection, otx>>
  BY DEF AdminSuggestClassification, itemVars, correctionVars, objectionVars, MayOpenWork
<1>2. TypeOK'
  BY <1>1, ItemsTyped, StatusNames DEF TypeOK
<1>3. \A r \in Submissions : r # s => Untouched(r)
  BY <1>1, ItemsTyped DEF Untouched, ObjectionLocked
<1>4. ItemSound(s)
  BY ItemByItem
<1>5. ItemSound(s)'
  BY <1>1, <1>4, ItemsTyped DEF ItemSound, Corrected, ObjectionLocked, ScoreChecks
<1> QED
  BY <1>2, <1>3, <1>5, OneItem

LEMMA ResolveKept ==
  ASSUME AdjudicationSound, NEW s \in Submissions, NEW o \in Outcomes, ResolveClassification(s, o)
  PROVE  AdjudicationSound'
<1>1. /\ Award(s, o) /\ ScoreChecks(s)'
      /\ UNCHANGED <<rejected, forcedScore, appeals, objection, otx>>
  BY DEF ResolveClassification, Award, correctionVars, objectionVars
<1>2. TypeOK'
  BY <1>1, ItemsTyped, AwardWrites DEF TypeOK
<1>3. \A r \in Submissions : r # s => Untouched(r)
  BY <1>1, AwardWrites DEF Untouched, ObjectionLocked
<1>4. ItemSound(s)
  BY ItemByItem
<1>5. ItemSound(s)'
  BY <1>1, <1>4, AwardWrites DEF ItemSound, Corrected, ObjectionLocked
<1> QED
  BY <1>2, <1>3, <1>5, OneItem

\* A ruling that ends an appeal under way.
LEMMA AppealEnds ==
  ASSUME AdjudicationSound, NEW s \in Submissions, NEW k \in Rounds, NEW o \in Outcomes,
         appeals[s][k].st \in Active, Award(s, o), UNCHANGED objectionVars,
         NEW a \in Appeal, a.st = "final", appeals' = [appeals EXCEPT ![s][k] = a]
  PROVE  AdjudicationSound'
<1>1. ScoreChecks(s)' /\ UNCHANGED <<rejected, forcedScore, objection, otx>>
  BY DEF Award, correctionVars, objectionVars
<1>2. appeals \in [Submissions -> [Rounds -> Appeal]]
  BY ItemsTyped
<1>3. /\ appeals' \in [Submissions -> [Rounds -> Appeal]] /\ appeals'[s][k] = a
      /\ \A j \in Rounds : j # k => appeals'[s][j] = appeals[s][j]
      /\ \A r \in Submissions : r # s => appeals'[r] = appeals[r]
  BY <1>2, OneRound
<1>4. TypeOK'
  BY <1>1, <1>3, ItemsTyped, AwardWrites DEF TypeOK
<1>5. \A r \in Submissions : r # s => Untouched(r)
  BY <1>1, <1>3, AwardWrites DEF Untouched, ObjectionLocked
<1>6. ItemSound(s)
  BY ItemByItem
<1>7. 1 \in Rounds /\ 2 \in Rounds /\ (k = 1 \/ k = 2)
  BY DEF Rounds
<1>8. ItemSound(s)'
  BY <1>1, <1>2, <1>3, <1>6, <1>7, AwardWrites DEF ItemSound, Corrected, ObjectionLocked, Active
<1> QED
  BY <1>4, <1>5, <1>8, OneItem

LEMMA FinalRow ==
  ASSUME AdjudicationSound, NEW s \in Submissions, NEW k \in Rounds,
         appeals' = [appeals EXCEPT ![s][k].st = "final"]
  PROVE  \E a \in Appeal : a.st = "final" /\ appeals' = [appeals EXCEPT ![s][k] = a]
<1>1. appeals \in [Submissions -> [Rounds -> Appeal]] /\ "final" \in AppealStatus
  BY ItemsTyped DEF AppealStatus
<1>2. PICK a : a = [appeals[s][k] EXCEPT !.st = "final"]
  OBVIOUS
<1>3. a \in Appeal /\ a.st = "final"
  BY <1>1, <1>2, RoundStatus
<1>4. appeals' = [appeals EXCEPT ![s][k] = a]
  BY <1>1, <1>2, RoundStatus
<1> QED
  BY <1>3, <1>4

LEMMA ArbitrateKept ==
  ASSUME AdjudicationSound, NEW s \in Submissions, NEW o \in Outcomes, ArbitrateSubmission(s, o)
  PROVE  AdjudicationSound'
<1>1. CASE UNCHANGED appeals
  BY <1>1, ResolveKept DEF ArbitrateSubmission, ResolveClassification
<1>2. ASSUME NEW k \in Escalated(s), appeals' = [appeals EXCEPT ![s][k].st = "final"]
      PROVE  AdjudicationSound'
  <2>1. k \in Rounds /\ appeals[s][k].st \in Active /\ Award(s, o) /\ UNCHANGED objectionVars
    BY DEF ArbitrateSubmission, Escalated, Active
  <2>2. PICK a \in Appeal : a.st = "final" /\ appeals' = [appeals EXCEPT ![s][k] = a]
    BY <1>2, <2>1, FinalRow
  <2> QED
    BY <2>1, <2>2, AppealEnds
<1> QED
  BY <1>1, <1>2 DEF ArbitrateSubmission

LEMMA FinalizeKept ==
  ASSUME AdjudicationSound, NEW s \in Submissions, NEW k \in Rounds, NEW o \in Outcomes,
         FinalizeAppeal(s, k, o)
  PROVE  AdjudicationSound'
<1>1. appeals[s][k].st \in Active /\ Award(s, o) /\ UNCHANGED objectionVars
  BY DEF FinalizeAppeal
<1>2. PICK a \in Appeal : a.st = "final" /\ appeals' = [appeals EXCEPT ![s][k] = a]
  BY FinalRow DEF FinalizeAppeal
<1> QED
  BY <1>1, <1>2, AppealEnds

\* A step of the student on one round of an item that is not corrected.
LEMMA RoundMoves ==
  ASSUME AdjudicationSound, NEW s \in Submissions, NEW k \in Rounds, NEW a \in Appeal,
         NEW st \in Status \ {"draft", "consensus"},
         appeals' = [appeals EXCEPT ![s][k] = a],
         status' = [status EXCEPT ![s] = st],
         UNCHANGED <<final, correctionVars, objectionVars, suggested>>,
         st \in {"scored", "locked", "appealing"} => final[s] # NoScore,
         ~Corrected(s) \/ (a.st = "none" /\ st = status[s]),
         a.st # "resolved" /\ appeals[s][k].st # "resolved",
         k = 1 => appeals[s][2].st = "none",
         k = 2 => a.st = "none" \/ appeals[s][1].st = "resolved"
  PROVE  AdjudicationSound'
<1>1. UNCHANGED <<final, rejected, forcedScore, objection, otx, suggested>>
  BY DEF correctionVars, objectionVars
<1>2. appeals \in [Submissions -> [Rounds -> Appeal]]
  BY ItemsTyped
<1>3. /\ appeals' \in [Submissions -> [Rounds -> Appeal]] /\ appeals'[s][k] = a
      /\ \A j \in Rounds : j # k => appeals'[s][j] = appeals[s][j]
      /\ \A r \in Submissions : r # s => appeals'[r] = appeals[r]
  BY <1>2, OneRound
<1>4. /\ status' \in [Submissions -> Status \ {"draft", "consensus"}] /\ status'[s] = st
      /\ \A r \in Submissions : r # s => status'[r] = status[r]
  BY ItemsTyped
<1>5. TypeOK'
  BY <1>1, <1>3, <1>4, ItemsTyped DEF TypeOK
<1>6. \A r \in Submissions : r # s => Untouched(r)
  BY <1>1, <1>3, <1>4 DEF Untouched, ObjectionLocked
<1>7. ItemSound(s)
  BY ItemByItem
<1>8. 1 \in Rounds /\ 2 \in Rounds /\ (k = 1 \/ k = 2)
  BY DEF Rounds
<1>9. ItemSound(s)'
  BY <1>1, <1>3, <1>4, <1>7, <1>8 DEF ItemSound, Corrected, ObjectionLocked, ScoreChecks, Active
<1> QED
  BY <1>5, <1>6, <1>9, OneItem

\* Work that goes on with the item as it is.
LEMMA SameStatus ==
  ASSUME AdjudicationSound, NEW s \in Submissions
  PROVE  /\ status[s] \in Status \ {"draft", "consensus"}
         /\ status = [status EXCEPT ![s] = status[s]]
         /\ status[s] \in {"scored", "locked", "appealing"} => final[s] # NoScore
         /\ objection = [objection EXCEPT ![s] = objection[s]]
BY ItemsTyped, ItemByItem DEF ItemSound

LEMMA AppealRows ==
  /\ NoAppeal \in Appeal /\ NoAppeal.st = "none"
  /\ [NoAppeal EXCEPT !.st = "draft"] \in Appeal
  /\ [NoAppeal EXCEPT !.st = "draft"].st = "draft"
BY DEF NoAppeal, Appeal, AppealStatus

LEMMA EnsureKept ==
  ASSUME AdjudicationSound, NEW s \in Submissions, EnsureAppealDraft(s)
  PROVE  AdjudicationSound'
<1>1. PICK k \in NextRound(s) :
        /\ appeals[s][k].st = "none"
        /\ appeals' = [appeals EXCEPT ![s][k] = [NoAppeal EXCEPT !.st = "draft"]]
  BY DEF EnsureAppealDraft
<1>2. k \in Rounds
  BY DEF NextRound, Rounds
<1>3. k = 1 => appeals[s][2].st = "none"
  BY DEF EnsureAppealDraft, NextRound, Previous, HasDraft, Rounds
<1>4. k = 2 => appeals[s][1].st = "resolved"
  BY DEF NextRound
<1>5. PICK a \in Appeal : a = [NoAppeal EXCEPT !.st = "draft"] /\ a.st = "draft"
  BY AppealRows
<1>6. PICK st : st = status[s]
  OBVIOUS
<1>7. /\ st \in Status \ {"draft", "consensus"} /\ status' = [status EXCEPT ![s] = st]
      /\ st \in {"scored", "locked", "appealing"} => final[s] # NoScore
  BY <1>6, SameStatus DEF EnsureAppealDraft, itemVars
<1>8. ~Corrected(s) /\ UNCHANGED <<final, correctionVars, objectionVars, suggested>>
  BY DEF EnsureAppealDraft, MayOpenWork, itemVars
<1>9. appeals' = [appeals EXCEPT ![s][k] = a]
  BY <1>1, <1>5
<1>10. a.st # "resolved" /\ appeals[s][k].st # "resolved"
  BY <1>1, <1>5
<1> HIDE <1>1, <1>5, <1>6
<1> QED
  BY <1>2, <1>3, <1>4, <1>7, <1>8, <1>9, <1>10, RoundMoves

LEMMA FileKept ==
  ASSUME AdjudicationSound, NEW s \in Submissions, NEW k \in Rounds, NEW panel \in SUBSET Positions,
         FileAppealDraft(s, k, panel)
  PROVE  AdjudicationSound'
<1>1. PICK b : b = IF panel = {} THEN "escalated" ELSE "reviewing"
  OBVIOUS
<1>2. PICK a : a = [st |-> b, panel |-> panel, given |-> {}]
  OBVIOUS
<1>3. PICK st : st = IF b = "escalated" THEN "arbitrating" ELSE "appealing"
  OBVIOUS
<1>4. a \in Appeal /\ a.st \notin {"none", "resolved"}
  BY <1>1, <1>2 DEF Appeal, AppealStatus
<1>5. /\ appeals' = [appeals EXCEPT ![s][k] = a]
      /\ status' = [status EXCEPT ![s] = st]
      /\ appeals[s][k].st = "draft" /\ final[s] # NoScore /\ ~Corrected(s)
      /\ k = 2 => appeals[s][1].st = "resolved"
      /\ UNCHANGED <<final, correctionVars, objectionVars, suggested>>
  BY <1>1, <1>2, <1>3 DEF FileAppealDraft, Appealable, MayOpenWork
<1>6. st \in Status \ {"draft", "consensus"}
  BY <1>3, StatusNames
<1>7. k = 1 => appeals[s][2].st = "none"
  BY <1>5, ItemByItem DEF ItemSound
<1> HIDE <1>1, <1>2, <1>3
<1> QED
  BY <1>4, <1>5, <1>6, <1>7, RoundMoves

LEMMA DeleteKept ==
  ASSUME AdjudicationSound, NEW s \in Submissions, NEW k \in Rounds, DeleteAppealDraft(s, k)
  PROVE  AdjudicationSound'
<1>1. /\ appeals[s][k].st = "draft"
      /\ appeals' = [appeals EXCEPT ![s][k] = NoAppeal]
      /\ UNCHANGED <<status, final, correctionVars, objectionVars, suggested>>
  BY DEF DeleteAppealDraft, itemVars
<1>2. PICK a \in Appeal : a = NoAppeal /\ a.st = "none"
  BY AppealRows
<1>3. PICK st : st = status[s]
  OBVIOUS
<1>4. /\ st \in Status \ {"draft", "consensus"} /\ status' = [status EXCEPT ![s] = st]
      /\ st \in {"scored", "locked", "appealing"} => final[s] # NoScore
  BY <1>1, <1>3, SameStatus
<1>5. k = 1 => appeals[s][2].st = "none"
  BY <1>1, ItemByItem DEF ItemSound
<1>6. appeals' = [appeals EXCEPT ![s][k] = a]
  BY <1>1, <1>2
<1>7. /\ a.st # "resolved" /\ appeals[s][k].st # "resolved"
      /\ a.st = "none" /\ st = status[s]
      /\ UNCHANGED <<final, correctionVars, objectionVars, suggested>>
  BY <1>1, <1>2, <1>3
<1> HIDE <1>1, <1>2, <1>3
<1> QED
  BY <1>4, <1>5, <1>6, <1>7, RoundMoves

LEMMA WithdrawKept ==
  ASSUME AdjudicationSound, NEW s \in Submissions, NEW k \in Rounds, WithdrawAppeal(s, k)
  PROVE  AdjudicationSound'
<1>1. /\ appeals[s][k].st = "reviewing"
      /\ appeals' = [appeals EXCEPT ![s][k] = [NoAppeal EXCEPT !.st = "draft"]]
      /\ status' = [status EXCEPT ![s] = "scored"]
      /\ status[s] = "appealing" /\ ~Corrected(s)
      /\ UNCHANGED <<final, correctionVars, objectionVars, suggested>>
  BY DEF WithdrawAppeal, MayOpenWork
<1>2. PICK a \in Appeal : a = [NoAppeal EXCEPT !.st = "draft"] /\ a.st = "draft"
  BY AppealRows
<1>3. final[s] # NoScore
  BY <1>1, SameStatus
<1>4. k = 1 => appeals[s][2].st = "none"
  BY <1>1, ItemByItem DEF ItemSound
<1>5. k = 2 => appeals[s][1].st = "resolved"
  BY <1>1, ItemByItem DEF ItemSound
<1>6. appeals' = [appeals EXCEPT ![s][k] = a]
  BY <1>1, <1>2
<1>7. a.st # "resolved" /\ appeals[s][k].st # "resolved"
  BY <1>1, <1>2
<1>8. "scored" \in Status \ {"draft", "consensus"}
  BY StatusNames
<1> QED
  BY <1>1, <1>3, <1>4, <1>5, <1>6, <1>7, <1>8, RoundMoves

\* The last member of the panel agrees with the others.
LEMMA PanelResolves ==
  ASSUME AdjudicationSound, NEW s \in Submissions, NEW o \in Outcomes, NEW a \in Appeal,
         appeals[s][1].st = "reviewing", appeals' = [appeals EXCEPT ![s][1] = a],
         a.st = "resolved", a.panel # {},
         \A p \in a.panel : \E v \in a.given : v.pos = p,
         \A v, w \in a.given : v.outcome = w.outcome,
         Award(s, o), UNCHANGED objectionVars
  PROVE  AdjudicationSound'
<1>1. ScoreChecks(s)' /\ UNCHANGED <<rejected, forcedScore, objection, otx>>
  BY DEF Award, correctionVars, objectionVars
<1>2. appeals \in [Submissions -> [Rounds -> Appeal]] /\ 1 \in Rounds /\ 2 \in Rounds
  BY ItemsTyped DEF Rounds
<1>3. /\ appeals' \in [Submissions -> [Rounds -> Appeal]] /\ appeals'[s][1] = a
      /\ \A r \in Submissions : r # s => appeals'[r] = appeals[r]
  BY <1>2, OneRound
<1>4. TypeOK'
  BY <1>1, <1>3, ItemsTyped, AwardWrites DEF TypeOK
<1>5. \A r \in Submissions : r # s => Untouched(r)
  BY <1>1, <1>3, AwardWrites DEF Untouched, ObjectionLocked
<1>6. ItemSound(s)
  BY ItemByItem
<1>7. ~Corrected(s)
  BY <1>2, <1>6 DEF ItemSound, Active
<1>8. ItemSound(s)'
  BY <1>1, <1>3, <1>7, AwardWrites DEF ItemSound, Corrected
<1> QED
  BY <1>4, <1>5, <1>8, OneItem

LEMMA DecideKept ==
  ASSUME AdjudicationSound, NEW s \in Submissions, NEW p \in Positions, NEW o \in Outcomes,
         DecideFirstAppeal(s, p, o)
  PROVE  AdjudicationSound'
<1>1. PICK given : given = appeals[s][1].given \cup {[pos |-> p, outcome |-> o]}
  OBVIOUS
<1>2. PICK next : next = ReconcileAppeal(appeals[s][1].panel, given)
  OBVIOUS
<1>3. PICK a : a = [st |-> next, panel |-> appeals[s][1].panel, given |-> given]
  OBVIOUS
<1>4. /\ appeals[s][1].st = "reviewing" /\ p \in appeals[s][1].panel
      /\ appeals' = [appeals EXCEPT ![s][1] = a]
      /\ \/ next = "resolved" /\ Award(s, o)
         \/ /\ next = "escalated"
            /\ ~Corrected(s)
            /\ status' = [status EXCEPT ![s] = "arbitrating"]
            /\ UNCHANGED <<final, correctionVars, suggested>>
         \/ next = "reviewing" /\ UNCHANGED <<status, final, correctionVars, suggested>>
      /\ UNCHANGED objectionVars
  BY <1>1, <1>2, <1>3 DEF DecideFirstAppeal, MayOpenWork, itemVars
<1>5. 1 \in Rounds /\ appeals[s][1] \in Appeal
  BY ItemsTyped DEF Rounds
<1>6. given \in SUBSET Verdict
  BY <1>1, <1>5 DEF Appeal, Verdict
<1>7. a \in Appeal /\ a.st = next
  BY <1>2, <1>3, <1>5, <1>6 DEF Appeal, AppealStatus, ReconcileAppeal
<1>8. CASE next = "resolved"
  <2>1. /\ a.panel # {}
        /\ \A q \in a.panel : \E v \in a.given : v.pos = q
        /\ \A v, w \in a.given : v.outcome = w.outcome
    BY <1>2, <1>3, <1>4, <1>8 DEF ReconcileAppeal
  <2> QED
    BY <1>4, <1>7, <1>8, <2>1, PanelResolves
<1>9. CASE next \in {"escalated", "reviewing"}
  <2>1. PICK st : st = IF next = "escalated" THEN "arbitrating" ELSE status[s]
    OBVIOUS
  <2>2. /\ st \in Status \ {"draft", "consensus"} /\ status' = [status EXCEPT ![s] = st]
        /\ st \in {"scored", "locked", "appealing"} => final[s] # NoScore
    BY <1>4, <1>9, <2>1, SameStatus, StatusNames
  <2>3. UNCHANGED <<final, correctionVars, objectionVars, suggested>>
    BY <1>4, <1>9
  <2>4. appeals[s][2].st = "none" /\ ~Corrected(s)
    BY <1>4, <1>5, ItemByItem DEF ItemSound, Active
  <2>5. a.st # "resolved" /\ appeals[s][1].st # "resolved"
    BY <1>4, <1>7, <1>9
  <2>6. appeals' = [appeals EXCEPT ![s][1] = a]
    BY <1>4
  <2>7. PICK k \in Rounds : k = 1
    BY <1>5
  <2>8. /\ appeals[s][k].st # "resolved" /\ appeals' = [appeals EXCEPT ![s][k] = a]
        /\ k # 2
    BY <2>5, <2>6, <2>7
  <2> HIDE <1>1, <1>2, <1>3, <1>4, <2>1, <2>6, <2>7
  <2> QED
    BY <1>7, <2>2, <2>3, <2>4, <2>5, <2>8, RoundMoves
<1> QED
  BY <1>4, <1>8, <1>9

\* A step of the review group on its objection; the item is left alone.
LEMMA ObjectionMoves ==
  ASSUME AdjudicationSound, NEW s \in Submissions, NEW b \in {"none", "draft", "submitted"},
         objection' = [objection EXCEPT ![s] = b],
         otx' \subseteq ObjectionTx,
         \A t \in otx' : t.sub # s => t \in otx,
         Corrected(s) => b = "none" /\ \A t \in otx' : t.sub # s,
         UNCHANGED <<itemVars, correctionVars, appeals, suggested>>
  PROVE  AdjudicationSound'
<1>1. UNCHANGED <<status, final, rejected, forcedScore, appeals, suggested>>
  BY DEF itemVars, correctionVars
<1>2. /\ objection' \in [Submissions -> {"none", "draft", "submitted"}] /\ objection'[s] = b
      /\ \A r \in Submissions : r # s => objection'[r] = objection[r]
  BY ItemsTyped
<1>3. TypeOK'
  BY <1>1, <1>2, ItemsTyped DEF TypeOK
<1>4. \A r \in Submissions : r # s => Untouched(r)
  BY <1>1, <1>2 DEF Untouched, ObjectionLocked
<1>5. ItemSound(s)
  BY ItemByItem
<1>6. ItemSound(s)'
  BY <1>1, <1>2, <1>5 DEF ItemSound, Corrected, ObjectionLocked, ScoreChecks
<1> QED
  BY <1>3, <1>4, <1>6, OneItem

LEMMA CreateKept ==
  ASSUME AdjudicationSound, NEW s \in Submissions, CreateObjection(s)
  PROVE  AdjudicationSound'
<1>1. objection' = [objection EXCEPT ![s] = "draft"] /\ ~Corrected(s) /\ otx' = otx
  BY DEF CreateObjection, MayOpenWork
<1>2. UNCHANGED <<itemVars, correctionVars, appeals, suggested>>
  BY DEF CreateObjection
<1> QED
  BY <1>1, <1>2, ItemsTyped, ObjectionMoves

LEMMA CloseKept ==
  ASSUME AdjudicationSound, NEW s \in Submissions, CloseObjection(s)
  PROVE  AdjudicationSound'
<1>1. objection' = [objection EXCEPT ![s] = "none"] /\ otx' = otx
  BY DEF CloseObjection
<1>2. UNCHANGED <<itemVars, correctionVars, appeals, suggested>>
  BY DEF CloseObjection
<1>3. \A t \in otx' : t.sub # s
  BY <1>1 DEF CloseObjection, ObjectionLocked
<1> QED
  BY <1>1, <1>2, <1>3, ItemsTyped, ObjectionMoves

LEMMA BeginKept ==
  ASSUME AdjudicationSound, NEW t \in ObjectionTx, ObjectionBegin(t)
  PROVE  AdjudicationSound'
<1>1. PICK s \in Submissions : s = t.sub
  BY DEF ObjectionTx
<1>2. PICK b : b = objection[s]
  OBVIOUS
<1>3. objection[s] # "none" /\ otx' = otx \cup {t} /\ objection' = objection
  BY <1>1 DEF ObjectionBegin
<1>4. UNCHANGED <<itemVars, correctionVars, appeals, suggested>>
  BY DEF ObjectionBegin
<1>5. ~Corrected(s)
  BY <1>3, ItemByItem DEF ItemSound
<1>6. b \in {"none", "draft", "submitted"} /\ objection' = [objection EXCEPT ![s] = b]
  BY <1>2, <1>3, SameStatus, ItemsTyped
<1>7. otx' \subseteq ObjectionTx /\ \A u \in otx' : u.sub # s => u \in otx
  BY <1>1, <1>3, ItemsTyped
<1> QED
  BY <1>4, <1>5, <1>6, <1>7, ObjectionMoves

\* Requests under way concern items that are not corrected.
LEMMA OpenRequest ==
  ASSUME AdjudicationSound, NEW t \in otx
  PROVE  t.sub \in Submissions /\ t.score \in Points /\ ~Corrected(t.sub)
<1>1. t.sub \in Submissions /\ t.score \in Points
  BY ItemsTyped DEF ObjectionTx
<1> QED
  BY <1>1, ItemByItem DEF ItemSound, ObjectionLocked

LEMMA SubmitKept ==
  ASSUME AdjudicationSound, NEW t \in otx, SubmitObjection(t)
  PROVE  AdjudicationSound'
<1>1. PICK s \in Submissions : s = t.sub
  BY OpenRequest
<1>2. objection' = [objection EXCEPT ![s] = "submitted"] /\ otx' = otx \ {t}
  BY <1>1 DEF SubmitObjection
<1>3. UNCHANGED <<itemVars, correctionVars, appeals, suggested>>
  BY DEF SubmitObjection
<1>4. ~Corrected(s)
  BY <1>1, OpenRequest
<1> QED
  BY <1>2, <1>3, <1>4, ItemsTyped, ObjectionMoves

LEMMA AbortKept ==
  ASSUME AdjudicationSound, NEW t \in otx, ObjectionAbort(t)
  PROVE  AdjudicationSound'
<1>1. PICK s \in Submissions : s = t.sub
  BY OpenRequest
<1>2. PICK b : b = objection[s]
  OBVIOUS
<1>3. otx' = otx \ {t} /\ objection' = objection
  BY DEF ObjectionAbort
<1>4. UNCHANGED <<itemVars, correctionVars, appeals, suggested>>
  BY DEF ObjectionAbort
<1>5. ~Corrected(s)
  BY <1>1, OpenRequest
<1>6. b \in {"none", "draft", "submitted"} /\ objection' = [objection EXCEPT ![s] = b]
  BY <1>2, <1>3, SameStatus, ItemsTyped
<1>7. otx' \subseteq ObjectionTx /\ \A u \in otx' : u.sub # s => u \in otx
  BY <1>3, ItemsTyped
<1> QED
  BY <1>4, <1>5, <1>6, <1>7, ObjectionMoves

LEMMA ApplyKept ==
  ASSUME AdjudicationSound, NEW t \in otx, ApplyObjection(t)
  PROVE  AdjudicationSound'
<1>1. PICK s \in Submissions : s = t.sub
  BY OpenRequest
<1>2. /\ status' = [status EXCEPT ![s] = "scored"] /\ final' = [final EXCEPT ![s] = t.score]
      /\ objection' = [objection EXCEPT ![s] = "none"] /\ otx' = otx \ {t}
      /\ UNCHANGED <<rejected, forcedScore, appeals, suggested>>
      /\ ScoreChecks(s)'
  BY <1>1 DEF ApplyObjection, correctionVars
<1>3. t.score \in Points /\ t.score # NoScore /\ ~Corrected(s)
  BY <1>1, OpenRequest, AdjudicationAssumption
<1>4. /\ status'[s] = "scored" /\ final'[s] = t.score
      /\ \A r \in Submissions : r # s =>
           status'[r] = status[r] /\ final'[r] = final[r] /\ objection'[r] = objection[r]
  BY <1>2, ItemsTyped
<1>5. TypeOK'
  BY <1>2, <1>3, ItemsTyped, StatusNames DEF TypeOK
<1>6. \A r \in Submissions : r # s => Untouched(r)
  BY <1>2, <1>4 DEF Untouched, ObjectionLocked
<1>7. ItemSound(s)
  BY ItemByItem
<1>8. ItemSound(s)'
  BY <1>2, <1>3, <1>4, <1>7 DEF ItemSound, Corrected
<1> QED
  BY <1>5, <1>6, <1>8, OneItem

\* What a correction leaves of the appeals: what was under way is final.
LEMMA WorkCloses ==
  ASSUME AdjudicationSound, NEW s \in Submissions, CloseAllWork(s)
  PROVE  /\ appeals' \in [Submissions -> [Rounds -> Appeal]]
         /\ \A k \in Rounds : \/ appeals'[s][k] = appeals[s][k]
                                 /\ appeals[s][k].st \notin {"draft"} \cup Active
                              \/ appeals'[s][k].st = "final"
                                 /\ appeals[s][k].st \in {"draft"} \cup Active
         /\ \A r \in Submissions : r # s => appeals'[r] = appeals[r]
<1>1. PICK f : f = [k \in Rounds |->
                     IF appeals[s][k].st \in {"draft"} \cup Active
                       THEN [appeals[s][k] EXCEPT !.st = "final"] ELSE appeals[s][k]]
  OBVIOUS
<1>2. appeals' = [appeals EXCEPT ![s] = f]
  BY <1>1 DEF CloseAllWork
<1>3. ASSUME NEW k \in Rounds
      PROVE  /\ f[k] \in Appeal
             /\ \/ f[k] = appeals[s][k] /\ appeals[s][k].st \notin {"draft"} \cup Active
                \/ f[k].st = "final" /\ appeals[s][k].st \in {"draft"} \cup Active
  <2>1. appeals[s][k] \in Appeal
    BY ItemsTyped
  <2>2. [appeals[s][k] EXCEPT !.st = "final"] \in Appeal
        /\ [appeals[s][k] EXCEPT !.st = "final"].st = "final"
    BY <2>1 DEF Appeal, AppealStatus
  <2> QED
    BY <1>1, <2>1, <2>2
<1>4. f \in [Rounds -> Appeal]
  BY <1>1, <1>3
<1> QED
  BY <1>2, <1>3, <1>4, ItemsTyped

\* Both corrections: a status, a score, and everything else closed.
LEMMA CorrectionKept ==
  ASSUME AdjudicationSound, NEW s \in Submissions, NEW x \in Points, CloseAllWork(s),
         status' = [status EXCEPT ![s] = "scored"], final' = [final EXCEPT ![s] = x],
         rejected' \in [Submissions -> BOOLEAN],
         forcedScore' \in [Submissions -> Points \cup {NoScore}],
         \A r \in Submissions : r # s => /\ rejected'[r] = rejected[r]
                                         /\ forcedScore'[r] = forcedScore[r],
         rejected'[s] => x = 0,
         forcedScore'[s] # NoScore => rejected'[s] \/ x = forcedScore'[s]
  PROVE  AdjudicationSound'
<1>1. x # NoScore
  BY AdjudicationAssumption
<1>2. /\ objection' = [objection EXCEPT ![s] = "none"] /\ suggested' = [suggested EXCEPT ![s] = {}]
      /\ otx' = otx /\ ~ObjectionLocked(s)
  BY DEF CloseAllWork
<1>3. /\ status'[s] = "scored" /\ final'[s] = x /\ objection'[s] = "none" /\ suggested'[s] = {}
      /\ \A r \in Submissions : r # s =>
           /\ status'[r] = status[r] /\ final'[r] = final[r]
           /\ objection'[r] = objection[r] /\ suggested'[r] = suggested[r]
  BY <1>2, ItemsTyped
<1>4. TypeOK'
  <2>1. status' \in [Submissions -> Status \ {"draft", "consensus"}]
    BY ItemsTyped, StatusNames
  <2>2. /\ final' \in [Submissions -> Points \cup {NoScore}]
        /\ objection' \in [Submissions -> {"none", "draft", "submitted"}]
        /\ suggested' \in [Submissions -> SUBSET Scope]
        /\ otx' \subseteq ObjectionTx
    BY <1>2, ItemsTyped
  <2> QED
    BY <2>1, <2>2, WorkCloses DEF TypeOK
<1>5. \A r \in Submissions : r # s => Untouched(r)
  BY <1>2, <1>3, WorkCloses DEF Untouched, ObjectionLocked
<1>6. ItemSound(s)
  BY ItemByItem
<1>7. 1 \in Rounds /\ 2 \in Rounds
  BY DEF Rounds
<1>8. \A k \in Rounds : appeals'[s][k].st \notin {"draft"} \cup Active
  BY WorkCloses DEF Active
<1>9. appeals'[s][2].st # "none" => appeals'[s][1].st = "resolved"
  BY <1>6, <1>7, WorkCloses DEF ItemSound, Active
<1>10. appeals'[s][1].st = "resolved" => appeals'[s][1] = appeals[s][1]
  BY <1>7, WorkCloses
<1>11. ~ObjectionLocked(s)'
  BY <1>2 DEF ObjectionLocked
<1>12. ScoreChecks(s)'
  BY <1>1, <1>3 DEF ScoreChecks
<1>13. ItemSound(s)'
  BY <1>1, <1>3, <1>6, <1>8, <1>9, <1>10, <1>11, <1>12 DEF ItemSound, Corrected
<1> QED
  BY <1>4, <1>5, <1>13, OneItem

LEMMA RejectKept ==
  ASSUME AdjudicationSound, NEW s \in Submissions, ForceRejectSubmission(s)
  PROVE  AdjudicationSound'
<1>1. /\ rejected' = [rejected EXCEPT ![s] = TRUE] /\ forcedScore' = forcedScore
      /\ status' = [status EXCEPT ![s] = "scored"] /\ final' = [final EXCEPT ![s] = 0]
      /\ CloseAllWork(s)
  BY DEF ForceRejectSubmission
<1>2. 0 \in Points
  BY AdjudicationAssumption
<1>3. /\ rejected' \in [Submissions -> BOOLEAN] /\ rejected'[s] = TRUE
      /\ forcedScore' \in [Submissions -> Points \cup {NoScore}]
      /\ \A r \in Submissions : r # s => rejected'[r] = rejected[r] /\ forcedScore'[r] = forcedScore[r]
  BY <1>1, ItemsTyped
<1> QED
  BY <1>1, <1>2, <1>3, CorrectionKept

LEMMA ForceKept ==
  ASSUME AdjudicationSound, NEW s \in Submissions, NEW x \in Points, ForceScoreSubmission(s, x)
  PROVE  AdjudicationSound'
<1>1. /\ forcedScore' = [forcedScore EXCEPT ![s] = x] /\ rejected' = rejected
      /\ status' = [status EXCEPT ![s] = "scored"] /\ final' = [final EXCEPT ![s] = x]
      /\ CloseAllWork(s) /\ ~rejected[s]
  BY DEF ForceScoreSubmission
<1>2. /\ rejected' \in [Submissions -> BOOLEAN] /\ ~rejected'[s]
      /\ forcedScore' \in [Submissions -> Points \cup {NoScore}] /\ forcedScore'[s] = x
      /\ \A r \in Submissions : r # s => rejected'[r] = rejected[r] /\ forcedScore'[r] = forcedScore[r]
  BY <1>1, ItemsTyped
<1> QED
  BY <1>1, <1>2, CorrectionKept

LEMMA AdjudicationStep ==
  ASSUME AdjudicationSound, [Next]_vars
  PROVE  AdjudicationSound'
<1>1. CASE UNCHANGED vars
  BY <1>1 DEF vars, AdjudicationSound, AdjudicationInv, TypeOK, ScoredHasScore,
              SecondRoundAfterFirst, ResolvedByWholePanel, CorrectedIsQuiet, ScoreChecks, Corrected,
              HasDraft, HasActive, ObjectionLocked
<1>2. CASE LockScored
  BY <1>2, LockKept
<1>3. ASSUME NEW s \in Submissions, NEW score \in Points \cup {NoScore}, NEW scopes \in SUBSET Scope,
             DeskDecides(s, score, scopes)
      PROVE  AdjudicationSound'
  BY <1>3, DeskKept
<1>4. ASSUME NEW s \in Submissions, NEW scope \in Scope, AdminSuggestClassification(s, scope)
      PROVE  AdjudicationSound'
  BY <1>4, SuggestKept
<1>5. ASSUME NEW s \in Submissions, NEW o \in Outcomes,
             ResolveClassification(s, o) \/ ArbitrateSubmission(s, o)
      PROVE  AdjudicationSound'
  BY <1>5, ResolveKept, ArbitrateKept
<1>6. ASSUME NEW s \in Submissions, EnsureAppealDraft(s)
      PROVE  AdjudicationSound'
  BY <1>6, EnsureKept
<1>7. ASSUME NEW s \in Submissions, NEW k \in Rounds, NEW panel \in SUBSET Positions,
             FileAppealDraft(s, k, panel)
      PROVE  AdjudicationSound'
  BY <1>7, FileKept
<1>8. ASSUME NEW s \in Submissions, NEW k \in Rounds,
             DeleteAppealDraft(s, k) \/ WithdrawAppeal(s, k)
      PROVE  AdjudicationSound'
  BY <1>8, DeleteKept, WithdrawKept
<1>9. ASSUME NEW s \in Submissions, NEW k \in Rounds, NEW o \in Outcomes, FinalizeAppeal(s, k, o)
      PROVE  AdjudicationSound'
  BY <1>9, FinalizeKept
<1>10. ASSUME NEW s \in Submissions, NEW p \in Positions, NEW o \in Outcomes,
              DecideFirstAppeal(s, p, o)
       PROVE  AdjudicationSound'
  BY <1>10, DecideKept
<1>11. ASSUME NEW s \in Submissions, CreateObjection(s) \/ CloseObjection(s)
       PROVE  AdjudicationSound'
  BY <1>11, CreateKept, CloseKept
<1>12. ASSUME NEW s \in Submissions, ForceRejectSubmission(s) \/ SelfForceRejectSubmission(s)
       PROVE  AdjudicationSound'
  BY <1>12, RejectKept DEF SelfForceRejectSubmission
<1>13. ASSUME NEW s \in Submissions, NEW x \in Points, ForceScoreSubmission(s, x)
       PROVE  AdjudicationSound'
  BY <1>13, ForceKept
<1>14. ASSUME NEW t \in ObjectionTx, ObjectionBegin(t)
       PROVE  AdjudicationSound'
  BY <1>14, BeginKept
<1>15. ASSUME NEW t \in otx, SubmitObjection(t) \/ ApplyObjection(t) \/ ObjectionAbort(t)
       PROVE  AdjudicationSound'
  BY <1>15, SubmitKept, ApplyKept, AbortKept
<1> QED
  BY <1>1, <1>2, <1>3, <1>4, <1>5, <1>6, <1>7, <1>8, <1>9, <1>10, <1>11, <1>12, <1>13, <1>14, <1>15
     DEF Next

LEMMA AdjudicationAlways == Spec => []AdjudicationSound
<1>1. AdjudicationSound /\ [Next]_vars => AdjudicationSound'
  BY AdjudicationStep
<1> QED
  BY AdjudicationStarts, <1>1, PTL DEF Spec

\* Appeals of a student (appeal_handlers.go), objections of the group (review_objection_handlers.go),
\* suggestions, arbitration, settlement and corrections in any order, for any number of items: what
\* counts has a score, a student is heard twice at most, the original reviewers resolve an appeal
\* together or not at all, and a correction leaves nothing open, not even for a request that was
\* validated before it.
THEOREM RulingsFollowEachOther == Spec => []AdjudicationInv
<1>1. AdjudicationSound => AdjudicationInv
  BY DEF AdjudicationSound
<1> QED
  BY AdjudicationAlways, <1>1, PTL

\* The CHECK constraints of migrations 000050 and 000056 with the handlers: the score of a corrected
\* item changes only by another correction.
THEOREM CorrectionsStand == Spec => CorrectionStands
<1>1. ASSUME AdjudicationSound, AdjudicationSound', [Next]_vars
      PROVE  [\A s \in Submissions : CorrectionStep(s)]_vars
  <2>1. ASSUME NEW s \in Submissions PROVE CorrectionStep(s)
    <3>1. ScoreChecks(s) /\ ScoreChecks(s)'
      BY <1>1 DEF AdjudicationSound
    <3> QED
      BY <3>1 DEF CorrectionStep, Corrected, ScoreChecks
  <2> QED
    BY <2>1
<1>2. AdjudicationSound /\ AdjudicationSound' /\ [Next]_vars
        => [\A s \in Submissions : CorrectionStep(s)]_vars
  BY <1>1
<1> QED
  BY AdjudicationAlways, <1>2, PTL DEF Spec, CorrectionStands

-----------------------------------------------------------------------------
(* Proposals                                                               *)

\* The members, the account that is disabled and the rest make up the class.
MembersCounted ==
  /\ absent = "member" => joined.in > 0
  /\ Outsiders >= 0

\* What a proposal needs follows from those who may vote on it, for its kind.
ThresholdKept ==
  prop.st # "none" =>
    /\ prop.required >= 3 /\ 2 * prop.required > prop.voters
    /\ MustCool => 3 * prop.required >= 2 * prop.voters
    /\ prop.kind = "protected" => prop.required >= 5 /\ 3 * prop.required >= prop.roster

\* Nobody votes twice, and what is carried out had the votes it needed.
BallotsCounted ==
  /\ Cast <= prop.voters
  /\ prop.st = "applied" => YesVotes >= prop.required

\* Every proposal changes the facts once at most.
BasisCounted == basis + (IF Pending THEN 1 ELSE 0) <= moves + proposals

CollectiveHasVersion == gov.mode = "collective" => gov.version > 0

ProposalSound ==
  /\ ProposalTypeOK
  /\ MembersCounted
  /\ ThresholdKept
  /\ BallotsCounted
  /\ BasisCounted
  /\ CollectiveHasVersion


Government == [mode : {"centralized", "enrolling", "collective"}, version : Nat,
               noticed : BOOLEAN, started : BOOLEAN]
Proposal == [st : {"none", "discussion", "voting", "passed", "rejected", "stale", "applied"},
             kind : Kinds, hash : 0 .. (MaxMoves + MaxProposals), present : BOOLEAN,
             roster : 0 .. Size, voters : 0 .. Size, required : Nat, version : Nat,
             phase : {"discussion", "open", "closed"}, cooled : BOOLEAN]

LEMMA ClassTyped ==
  ASSUME ProposalSound
  PROVE  /\ Size \in Nat /\ MaxProposals \in Nat /\ MaxMoves \in Nat /\ MinReviewers \in Nat
         /\ gov \in Government /\ prop \in Proposal
         /\ joined \in [new : 0 .. Size, in : 0 .. Size]
         /\ joined.new \in 0 .. Size /\ joined.in \in 0 .. Size
         /\ absent \in {"no", "member", "other"}
         /\ ballot \in [BallotKinds -> 0 .. Size]
         /\ basis \in 0 .. (MaxMoves + MaxProposals)
         /\ proposals \in 0 .. MaxProposals /\ moves \in 0 .. MaxMoves
BY ProposalsAssumption DEF ProposalSound, ProposalTypeOK, Government, Proposal

LEMMA BallotsTyped ==
  ASSUME ProposalSound
  PROVE  /\ ballot["yes"] \in Nat /\ ballot["other"] \in Nat
         /\ ballot["yes_locked"] \in Nat /\ ballot["other_locked"] \in Nat
         /\ Cast \in Nat /\ YesVotes \in Nat
<1>1. \A k \in BallotKinds : ballot[k] \in Nat
  BY ClassTyped
<1>2. /\ ballot["yes"] \in Nat /\ ballot["other"] \in Nat
      /\ ballot["yes_locked"] \in Nat /\ ballot["other_locked"] \in Nat
  BY <1>1 DEF BallotKinds
<1> HIDE <1>1
<1> QED
  BY <1>2 DEF Cast, YesVotes

LEMMA ProposalStarts == PropInit => ProposalSound
<1> SUFFICES ASSUME PropInit PROVE ProposalSound
  OBVIOUS
<1> USE ProposalsAssumption
<1>a. PICK m \in {"centralized", "enrolling", "collective"}, n \in 0 .. Size :
        /\ gov = [mode |-> m, noticed |-> FALSE, started |-> FALSE,
                  version |-> CASE m = "centralized" -> 0 [] m = "enrolling" -> 1 [] OTHER -> 2]
        /\ joined = [new |-> 0, in |-> n]
  BY DEF PropInit
<1>b. PICK v : v = CASE m = "centralized" -> 0 [] m = "enrolling" -> 1 [] OTHER -> 2
  OBVIOUS
<1>1. /\ gov = [mode |-> m, noticed |-> FALSE, started |-> FALSE, version |-> v]
      /\ joined = [new |-> 0, in |-> n]
  BY <1>a, <1>b
<1>2. v \in Nat /\ (m = "collective" => v > 0)
  <2>1. CASE m = "centralized"
    BY <1>b, <2>1
  <2>2. CASE m = "enrolling"
    BY <1>b, <2>2
  <2>3. CASE m = "collective"
    BY <1>b, <2>3
  <2> QED
    BY <2>1, <2>2, <2>3
<1>3. gov \in Government /\ (gov.mode = "collective" => gov.version > 0)
  BY <1>1, <1>2 DEF Government
<1>4. /\ joined \in [new : 0 .. Size, in : 0 .. Size] /\ joined.new = 0 /\ joined.in = n
      /\ absent = "no" /\ basis = 0 /\ proposals = 0 /\ moves = 0
      /\ prop = NoProposal
  BY <1>1 DEF PropInit
<1>5. /\ NoProposal \in Proposal /\ NoProposal.st = "none" /\ NoProposal.voters = 0
  BY DEF NoProposal, Proposal, Kinds
<1>6. /\ ballot["yes"] = 0 /\ ballot["other"] = 0
      /\ ballot["yes_locked"] = 0 /\ ballot["other_locked"] = 0
      /\ ballot \in [BallotKinds -> 0 .. Size]
  BY DEF PropInit, NoBallots, BallotKinds
<1>7. ProposalTypeOK
  BY <1>3, <1>4, <1>5, <1>6 DEF ProposalTypeOK, Government, Proposal
<1>8. MembersCounted /\ BasisCounted
  BY <1>4, <1>5 DEF MembersCounted, Outsiders, BasisCounted, Pending
<1>9. Cast = 0
  BY <1>6 DEF Cast
<1> QED
  BY <1>3, <1>4, <1>5, <1>7, <1>8, <1>9
     DEF ProposalSound, ThresholdKept, BallotsCounted, CollectiveHasVersion

\* What concerns the mode only.
LEMMA ModeMoves ==
  ASSUME ProposalSound, gov' \in Government, gov'.mode = "collective" => gov'.version > 0,
         UNCHANGED <<joined, absent, prop, ballot, basis, proposals, moves>>
  PROVE  ProposalSound'
BY DEF ProposalSound, ProposalTypeOK, Government, MembersCounted, Outsiders, ThresholdKept, MustCool,
       BallotsCounted, Cast, YesVotes, BasisCounted, Pending, CollectiveHasVersion

\* What concerns the members, and the facts, only.
LEMMA ClassMoves ==
  ASSUME ProposalSound, joined' \in [new : 0 .. Size, in : 0 .. Size],
         absent' \in {"no", "member", "other"}, MembersCounted',
         moves' \in 0 .. MaxMoves, basis' \in Nat,
         basis' - basis <= moves' - moves,
         UNCHANGED <<gov, prop, ballot, proposals>>
  PROVE  ProposalSound'
<1>1. BasisCounted'
  BY ClassTyped DEF ProposalSound, BasisCounted, Pending
<1>2. basis' \in 0 .. (MaxMoves + MaxProposals)
  BY <1>1, ClassTyped DEF BasisCounted, Pending
<1>3. ProposalTypeOK'
  BY <1>2, ClassTyped DEF ProposalTypeOK, Proposal, Government
<1> QED
  BY <1>1, <1>3 DEF ProposalSound, ThresholdKept, MustCool, BallotsCounted, Cast, YesVotes,
                    CollectiveHasVersion

\* A proposal that has been made goes on: what was asked of it stays.
LEMMA ProposalMoves ==
  ASSUME ProposalSound, prop' \in Proposal,
         prop.st # "none", prop'.kind = prop.kind, prop'.roster = prop.roster,
         prop'.voters = prop.voters, prop'.required = prop.required,
         prop'.st = "applied" => YesVotes >= prop.required,
         gov' \in Government, gov'.mode = "collective" => gov'.version > 0,
         basis' \in Nat,
         basis' + (IF Pending' THEN 1 ELSE 0) <= basis + (IF Pending THEN 1 ELSE 0),
         UNCHANGED <<joined, absent, ballot, proposals, moves>>
  PROVE  ProposalSound'
<1>1. BasisCounted'
  BY ClassTyped DEF ProposalSound, BasisCounted, Pending
<1>2. basis' \in 0 .. (MaxMoves + MaxProposals)
  BY <1>1, ClassTyped DEF BasisCounted, Pending
<1>3. ProposalTypeOK'
  BY <1>2, ClassTyped DEF ProposalTypeOK, Proposal, Government
<1>4. ThresholdKept'
  BY DEF ProposalSound, ThresholdKept, MustCool
<1>5. BallotsCounted'
  BY DEF ProposalSound, BallotsCounted, Cast, YesVotes
<1> QED
  BY <1>1, <1>3, <1>4, <1>5 DEF ProposalSound, MembersCounted, Outsiders, CollectiveHasVersion

LEMMA ConfigureKept ==
  ASSUME ProposalSound, NEW m \in {"centralized", "enrolling"}, ConfigureGovernance(m)
  PROVE  ProposalSound'
<1>1. gov.version \in Nat /\ gov.version + 1 \in Nat /\ gov \in Government
  BY ClassTyped DEF Government
<1>2. PICK v \in Nat : v = gov.version + 1
  BY <1>1
<1>3. gov' = [gov EXCEPT !.mode = m, !.version = v, !.noticed = FALSE]
  BY <1>2 DEF ConfigureGovernance
<1>4. gov' \in Government /\ gov'.mode = m
  BY <1>1, <1>3 DEF Government
<1> QED
  BY <1>4, ModeMoves DEF ConfigureGovernance

LEMMA ModeTimeKept ==
  ASSUME ProposalSound, EnrollmentCloses \/ AssessmentBegins
  PROVE  ProposalSound'
<1>1. /\ gov' = [gov EXCEPT !.noticed = TRUE] \/ gov' = [gov EXCEPT !.started = TRUE]
      /\ UNCHANGED <<joined, absent, prop, ballot, basis, proposals, moves>>
  BY DEF EnrollmentCloses, AssessmentBegins
<1>2. gov' \in Government /\ gov'.mode = gov.mode /\ gov'.version = gov.version
  BY <1>1, ClassTyped DEF Government
<1> QED
  BY <1>1, <1>2, ModeMoves DEF ProposalSound, CollectiveHasVersion

LEMMA MembersKept ==
  ASSUME ProposalSound, JoinGovernance \/ LeaveGovernance \/ MembershipCools
  PROVE  ProposalSound'
<1>1. PICK n, i : n = joined.new /\ i = joined.in
  OBVIOUS
<1>2. n \in Nat /\ i \in Nat /\ Size \in Nat /\ joined \in [new : 0 .. Size, in : 0 .. Size]
  BY <1>1, ClassTyped
<1>3. /\ absent = "member" => i > 0
      /\ Size - n - i - (IF absent = "other" THEN 1 ELSE 0) >= 0
  BY <1>1 DEF ProposalSound, MembersCounted, Outsiders
<1>4. PICK n2, i2 \in Nat :
        /\ joined' = [new |-> n2, in |-> i2]
        /\ absent = "member" => i2 > 0
        /\ Size - n2 - i2 - (IF absent = "other" THEN 1 ELSE 0) >= 0
  <2>1. CASE JoinGovernance
    <3>1. joined' = [new |-> n + 1, in |-> i]
      BY <1>1, <1>2, <2>1 DEF JoinGovernance
    <3>2. Size - n - i - (IF absent = "other" THEN 1 ELSE 0) > 0
      BY <1>1, <2>1 DEF JoinGovernance, Outsiders
    <3>3. /\ n + 1 \in Nat
          /\ Size - (n + 1) - i - (IF absent = "other" THEN 1 ELSE 0) >= 0
      BY <1>2, <3>2
    <3> QED
      BY <1>2, <1>3, <3>1, <3>3
  <2>2. CASE LeaveGovernance
    <3>1. joined' = [new |-> n, in |-> i - 1]
      BY <1>1, <1>2, <2>2 DEF LeaveGovernance
    <3>2. i > 0 /\ (absent = "member" => i - 1 > 0)
      BY <1>1, <1>2, <2>2 DEF LeaveGovernance, EligibleVoters
    <3>3. /\ i - 1 \in Nat
          /\ Size - n - (i - 1) - (IF absent = "other" THEN 1 ELSE 0) >= 0
      BY <1>2, <1>3, <3>2
    <3> QED
      BY <1>2, <3>1, <3>2, <3>3
  <2>3. CASE MembershipCools
    <3>1. joined' = [new |-> 0, in |-> i + n]
      BY <1>1, <2>3 DEF MembershipCools
    <3>2. /\ i + n \in Nat /\ 0 \in Nat
          /\ absent = "member" => i + n > 0
          /\ Size - 0 - (i + n) - (IF absent = "other" THEN 1 ELSE 0) >= 0
      BY <1>2, <1>3
    <3> QED
      BY <3>1, <3>2
  <2> QED
    BY <2>1, <2>2, <2>3
<1>5. /\ UNCHANGED <<gov, absent, prop, ballot, basis, proposals>>
      /\ moves' = moves \/ (moves < MaxMoves /\ moves' = moves + 1)
  BY DEF JoinGovernance, LeaveGovernance, MembershipCools, Move
<1>6. joined'.new = n2 /\ joined'.in = i2
  BY <1>4
<1>7. joined' \in [new : 0 .. Size, in : 0 .. Size]
  BY <1>2, <1>4
<1>8. MembersCounted'
  BY <1>4, <1>5, <1>6 DEF MembersCounted, Outsiders
<1>9. moves' \in 0 .. MaxMoves /\ basis' - basis <= moves' - moves /\ basis' \in Nat
      /\ absent' \in {"no", "member", "other"}
  BY <1>5, ClassTyped
<1> QED
  BY <1>5, <1>7, <1>8, <1>9, ClassMoves

LEMMA AbsenceKept ==
  ASSUME ProposalSound,
         EnableAccount \/ BasisChange \/ \E a \in {"member", "other"} : DisableAccount(a)
  PROVE  ProposalSound'
<1>1. /\ UNCHANGED <<gov, joined, prop, ballot, proposals>>
      /\ \/ moves' = moves /\ basis' = basis
         \/ moves < MaxMoves /\ moves' = moves + 1 /\ basis' \in {basis, basis + 1}
  BY DEF EnableAccount, BasisChange, DisableAccount, Move
<1>2. joined.new \in Nat /\ joined.in \in Nat /\ Size \in Nat
  BY ClassTyped
<1>3. absent' \in {"no", "member", "other"} /\ MembersCounted'
  BY <1>1, <1>2, ClassTyped
     DEF ProposalSound, MembersCounted, Outsiders, EnableAccount, BasisChange, DisableAccount
<1>4. moves' \in 0 .. MaxMoves /\ basis' - basis <= moves' - moves /\ basis' \in Nat
  BY <1>1, ClassTyped
<1>5. joined' \in [new : 0 .. Size, in : 0 .. Size]
  BY <1>1, ClassTyped
<1> QED
  BY <1>1, <1>3, <1>4, <1>5, ClassMoves


LEMMA StatusGoesOn ==
  ASSUME ProposalSound,
         NEW x \in {"voting", "passed", "rejected", "stale", "applied"},
         prop' = [prop EXCEPT !.st = x]
  PROVE  /\ prop' \in Proposal /\ prop'.st = x
         /\ prop'.kind = prop.kind /\ prop'.roster = prop.roster
         /\ prop'.voters = prop.voters /\ prop'.required = prop.required
BY ClassTyped DEF Proposal

LEMMA TimeKept ==
  ASSUME ProposalSound, VotingTime \/ DecisionCools
  PROVE  ProposalSound'
<1>1. PICK ph : ph = IF prop.phase = "discussion" THEN "open" ELSE "closed"
  OBVIOUS
<1>2. /\ prop' = [prop EXCEPT !.phase = ph] \/ prop' = [prop EXCEPT !.cooled = TRUE]
      /\ prop.st # "none"
      /\ UNCHANGED <<gov, joined, absent, ballot, basis, proposals, moves>>
  BY <1>1 DEF VotingTime, DecisionCools, Pending
<1>3. /\ prop' \in Proposal /\ prop'.st = prop.st
      /\ prop'.kind = prop.kind /\ prop'.roster = prop.roster
      /\ prop'.voters = prop.voters /\ prop'.required = prop.required
  BY <1>1, <1>2, ClassTyped DEF Proposal
<1>4. gov' \in Government /\ (gov'.mode = "collective" => gov'.version > 0) /\ basis' \in Nat
  BY <1>2, ClassTyped DEF ProposalSound, CollectiveHasVersion
<1>5. prop'.st = "applied" => YesVotes >= prop.required
  BY <1>3 DEF ProposalSound, BallotsCounted
<1>6. basis' + (IF Pending' THEN 1 ELSE 0) <= basis + (IF Pending THEN 1 ELSE 0)
  BY <1>2, <1>3, ClassTyped DEF Pending
<1> QED
  BY <1>2, <1>3, <1>4, <1>5, <1>6, ProposalMoves

\* A proposal is decided on, without or with effect on the facts.
LEMMA DecisionKept ==
  ASSUME ProposalSound,
         CloseProposal \/ PassProposal \/ ExecuteStale \/ ExecuteActivate \/ ExecuteProposal
  PROVE  ProposalSound'
<1>1. Pending /\ UNCHANGED <<joined, absent, ballot, proposals, moves>>
  BY DEF CloseProposal, PassProposal, ExecuteStale, ExecuteActivate, ExecuteProposal, Carried, Closable
<1>2. PICK x \in {"passed", "rejected", "stale", "applied"} :
        /\ prop' = [prop EXCEPT !.st = x]
        /\ x = "applied" => YesVotes >= prop.required
        /\ basis' = basis \/ (basis' = basis + 1 /\ x = "applied")
  BY DEF CloseProposal, ClosedStatus, PassProposal, ExecuteStale, ExecuteActivate, ExecuteProposal,
         Carried
<1>3. /\ prop' \in Proposal /\ prop'.st = x
      /\ prop'.kind = prop.kind /\ prop'.roster = prop.roster
      /\ prop'.voters = prop.voters /\ prop'.required = prop.required
  BY <1>2, StatusGoesOn
<1>4. gov' \in Government /\ (gov'.mode = "collective" => gov'.version > 0)
  <2>1. CASE gov' = gov
    BY <2>1, ClassTyped DEF ProposalSound, CollectiveHasVersion
  <2>2. CASE gov' # gov
    <3>1. gov \in Government /\ gov.version \in Nat /\ gov.version + 1 \in Nat
          /\ gov.version + 1 > 0
      BY ClassTyped DEF Government
    <3>2. PICK v \in Nat : v = gov.version + 1
      BY <3>1
    <3>3. gov' = [gov EXCEPT !.mode = "collective", !.version = v]
      BY <2>2, <3>2 DEF CloseProposal, PassProposal, ExecuteStale, ExecuteActivate, ExecuteProposal
    <3> QED
      BY <3>1, <3>2, <3>3 DEF Government
  <2> QED
    BY <2>1, <2>2
<1>5. basis' \in Nat
  BY <1>2, ClassTyped
<1>6. basis' + (IF Pending' THEN 1 ELSE 0) <= basis + (IF Pending THEN 1 ELSE 0)
  BY <1>1, <1>2, <1>3, ClassTyped DEF Pending
<1>7. prop.st # "none" /\ (prop'.st = "applied" => YesVotes >= prop.required)
  BY <1>1, <1>2, <1>3 DEF Pending
<1> HIDE <1>2
<1> QED
  BY <1>1, <1>3, <1>4, <1>5, <1>6, <1>7, ProposalMoves

\* One ballot more, or another in its place.
LEMMA OneMoreBallot ==
  ASSUME ProposalSound, NEW to \in BallotKinds, Cast < prop.voters,
         ballot' = [ballot EXCEPT ![to] = @ + 1]
  PROVE  ballot' \in [BallotKinds -> 0 .. Size] /\ Cast' = Cast + 1
<1>1. PICK v : v = prop.voters /\ v \in Nat /\ v <= Size /\ Size \in Nat
  BY ClassTyped DEF Proposal
<1>2. Cast + 1 <= v
  BY <1>1, BallotsTyped
<1>3. ballot[to] + 1 \in 0 .. Size
  BY <1>1, <1>2, BallotsTyped DEF BallotKinds, Cast
<1>4. ballot' \in [BallotKinds -> 0 .. Size]
  BY <1>3, ClassTyped
<1>5. ballot'[to] = ballot[to] + 1 /\ \A k \in BallotKinds : k # to => ballot'[k] = ballot[k]
  BY ClassTyped
<1>6. Cast' = Cast + 1
  BY <1>5, BallotsTyped DEF BallotKinds, Cast
<1> QED
  BY <1>4, <1>6

LEMMA OtherBallot ==
  ASSUME ProposalSound, NEW from \in BallotKinds, NEW to \in BallotKinds, from # to,
         ballot[from] > 0,
         ballot' = [ballot EXCEPT ![from] = @ - 1, ![to] = @ + 1]
  PROVE  ballot' \in [BallotKinds -> 0 .. Size] /\ Cast' = Cast
<1>1. PICK v : v = prop.voters /\ v \in Nat /\ v <= Size /\ Size \in Nat
  BY ClassTyped DEF Proposal
<1>2. Cast <= v
  BY <1>1 DEF ProposalSound, BallotsCounted
<1>3. ballot[to] + 1 \in 0 .. Size /\ ballot[from] - 1 \in 0 .. Size
  BY <1>1, <1>2, BallotsTyped DEF BallotKinds, Cast
<1>4. ballot' \in [BallotKinds -> 0 .. Size]
  BY <1>3, ClassTyped
<1>5. /\ ballot'[to] = ballot[to] + 1 /\ ballot'[from] = ballot[from] - 1
      /\ \A k \in BallotKinds : k \notin {from, to} => ballot'[k] = ballot[k]
  BY ClassTyped
<1>6. Cast' = Cast
  <2>1. PICK y, n, yl, nl \in Int :
          /\ y = ballot["yes"] /\ n = ballot["other"]
          /\ yl = ballot["yes_locked"] /\ nl = ballot["other_locked"]
    BY BallotsTyped
  <2>2. PICK y2, n2, yl2, nl2 \in Int :
          /\ y2 = ballot'["yes"] /\ n2 = ballot'["other"]
          /\ yl2 = ballot'["yes_locked"] /\ nl2 = ballot'["other_locked"]
    BY <1>4 DEF BallotKinds
  <2>3. y2 + n2 + yl2 + nl2 = y + n + yl + nl
    <3>1. CASE from = "yes"
      <4>1. /\ y2 = y - 1
            /\ \/ n2 = n + 1 /\ yl2 = yl /\ nl2 = nl
               \/ n2 = n /\ yl2 = yl + 1 /\ nl2 = nl
               \/ n2 = n /\ yl2 = yl /\ nl2 = nl + 1
        BY <1>5, <2>1, <2>2, <3>1 DEF BallotKinds
      <4> QED
        BY <4>1
    <3>2. CASE from = "other"
      <4>1. /\ n2 = n - 1
            /\ \/ y2 = y + 1 /\ yl2 = yl /\ nl2 = nl
               \/ y2 = y /\ yl2 = yl + 1 /\ nl2 = nl
               \/ y2 = y /\ yl2 = yl /\ nl2 = nl + 1
        BY <1>5, <2>1, <2>2, <3>2 DEF BallotKinds
      <4> QED
        BY <4>1
    <3>3. CASE from = "yes_locked"
      <4>1. /\ yl2 = yl - 1
            /\ \/ y2 = y + 1 /\ n2 = n /\ nl2 = nl
               \/ y2 = y /\ n2 = n + 1 /\ nl2 = nl
               \/ y2 = y /\ n2 = n /\ nl2 = nl + 1
        BY <1>5, <2>1, <2>2, <3>3 DEF BallotKinds
      <4> QED
        BY <4>1
    <3>4. CASE from = "other_locked"
      <4>1. /\ nl2 = nl - 1
            /\ \/ y2 = y + 1 /\ n2 = n /\ yl2 = yl
               \/ y2 = y /\ n2 = n + 1 /\ yl2 = yl
               \/ y2 = y /\ n2 = n /\ yl2 = yl + 1
        BY <1>5, <2>1, <2>2, <3>4 DEF BallotKinds
      <4> QED
        BY <4>1
    <3> QED
      BY <3>1, <3>2, <3>3, <3>4 DEF BallotKinds
  <2> QED
    BY <2>1, <2>2, <2>3 DEF Cast
<1> QED
  BY <1>4, <1>6

LEMMA VoteKept ==
  ASSUME ProposalSound, NEW from \in {"nobody", "yes", "other"}, NEW to \in BallotKinds,
         VoteGovernance(from, to)
  PROVE  ProposalSound'
<1>1. /\ prop.st \in {"discussion", "voting"} /\ prop' = [prop EXCEPT !.st = "voting"]
      /\ UNCHANGED <<gov, joined, absent, basis, proposals, moves>>
  BY DEF VoteGovernance
<1>2. /\ prop' \in Proposal /\ prop'.st = "voting"
      /\ prop'.kind = prop.kind /\ prop'.roster = prop.roster
      /\ prop'.voters = prop.voters /\ prop'.required = prop.required
  BY <1>1, StatusGoesOn
<1>3. ballot' \in [BallotKinds -> 0 .. Size] /\ Cast' <= prop.voters
  <2>1. CASE from = "nobody"
    <3>1. Cast < prop.voters /\ ballot' = [ballot EXCEPT ![to] = @ + 1]
      BY <2>1 DEF VoteGovernance
    <3>2. prop.voters \in Nat
      BY ClassTyped DEF Proposal
    <3>3. ballot' \in [BallotKinds -> 0 .. Size] /\ Cast' = Cast + 1
      BY <3>1, OneMoreBallot
    <3> QED
      BY <3>1, <3>2, <3>3, BallotsTyped
  <2>2. CASE from # "nobody"
    <3>1. /\ from \in BallotKinds /\ from # to /\ ballot[from] > 0
          /\ ballot' = [ballot EXCEPT ![from] = @ - 1, ![to] = @ + 1]
      BY <2>2 DEF VoteGovernance, BallotKinds
    <3>2. ballot' \in [BallotKinds -> 0 .. Size] /\ Cast' = Cast
      BY <3>1, OtherBallot
    <3> QED
      BY <3>2 DEF ProposalSound, BallotsCounted
  <2> QED
    BY <2>1, <2>2
<1>4. ProposalTypeOK'
  BY <1>1, <1>2, <1>3, ClassTyped DEF ProposalTypeOK, Proposal, Government
<1>5. BallotsCounted'
  BY <1>2, <1>3 DEF BallotsCounted
<1>6. ThresholdKept' /\ BasisCounted'
  BY <1>1, <1>2 DEF ProposalSound, ThresholdKept, MustCool, BasisCounted, Pending
<1>7. MembersCounted' /\ CollectiveHasVersion'
  BY <1>1 DEF ProposalSound, MembersCounted, Outsiders, CollectiveHasVersion
<1> QED
  BY <1>4, <1>5, <1>6, <1>7 DEF ProposalSound

LEMMA MaxOfTwo ==
  ASSUME NEW x \in Int, NEW y \in Int
  PROVE  Max({x, y}) \in {x, y} /\ Max({x, y}) >= x /\ Max({x, y}) >= y
<1>1. \E m \in {x, y} : \A z \in {x, y} : m >= z
  OBVIOUS
<1> QED
  BY <1>1 DEF Max

LEMMA MaxOfThree ==
  ASSUME NEW x \in Int, NEW y \in Int, NEW z \in Int
  PROVE  /\ Max({x, y, z}) \in {x, y, z}
         /\ Max({x, y, z}) >= x /\ Max({x, y, z}) >= y /\ Max({x, y, z}) >= z
<1>1. \E m \in {x, y, z} : \A u \in {x, y, z} : m >= u
  OBVIOUS
<1> QED
  BY <1>1 DEF Max

\* governance/policy.go Threshold: what a proposal needs, for its kind.
LEMMA ThresholdIsEnough ==
  ASSUME NEW kind \in Kinds, NEW e \in Nat, NEW r \in Nat
  PROVE  /\ Threshold(kind, e, r) \in Nat
         /\ Threshold(kind, e, r) >= 3 /\ 2 * Threshold(kind, e, r) > e
         /\ kind \in {"protected", "activate"} => 3 * Threshold(kind, e, r) >= 2 * e
         /\ kind = "protected" => Threshold(kind, e, r) >= 5 /\ 3 * Threshold(kind, e, r) >= r
<1>1. PICK h \in Int : h = e \div 2 + 1 /\ 2 * h > e
  OBVIOUS
<1>2. PICK t \in Int : t = (2 * e + 2) \div 3 /\ 3 * t >= 2 * e
  OBVIOUS
<1>3. PICK u \in Int : u = (r + 2) \div 3 /\ 3 * u >= r
  OBVIOUS
<1>4. CASE kind \in {"ordinary", "bonus"}
  <2>1. PICK m : m = Max({3, h})
    OBVIOUS
  <2>2. m \in {3, h} /\ m >= 3 /\ m >= h
    BY <2>1, MaxOfTwo
  <2>3. Threshold(kind, e, r) = m
    BY <1>1, <1>4, <2>1 DEF Threshold
  <2> QED
    BY <1>1, <1>4, <2>2, <2>3
<1>5. CASE kind = "activate"
  <2>1. PICK m : m = Max({3, t})
    OBVIOUS
  <2>2. m \in {3, t} /\ m >= 3 /\ m >= t
    BY <2>1, MaxOfTwo
  <2>3. Threshold(kind, e, r) = m
    BY <1>2, <1>5, <2>1 DEF Threshold
  <2>4. m \in Int /\ 2 * m > e
    BY <1>2, <2>2
  <2> QED
    BY <1>2, <1>5, <2>2, <2>3, <2>4
<1>6. CASE kind = "protected"
  <2>1. PICK m : m = Max({5, t, u})
    OBVIOUS
  <2>2. m \in {5, t, u} /\ m >= 5 /\ m >= t /\ m >= u
    BY <2>1, MaxOfThree
  <2>3. Threshold(kind, e, r) = m
    BY <1>2, <1>3, <1>6, <2>1 DEF Threshold
  <2>4. m \in Int /\ 2 * m > e
    BY <1>2, <1>3, <2>2
  <2> QED
    BY <1>2, <1>3, <1>6, <2>2, <2>3, <2>4
<1> QED
  BY <1>4, <1>5, <1>6 DEF Kinds

LEMMA ElectorateTyped ==
  ASSUME ProposalSound
  PROVE  EligibleVoters \in 0 .. Size /\ Roster \in 0 .. Size
<1>1. joined.in \in 0 .. Size /\ joined.new \in 0 .. Size /\ Size \in Nat
  BY ClassTyped
<1> QED
  BY <1>1, ClassTyped DEF ProposalSound, MembersCounted, Outsiders, EligibleVoters, Roster

LEMMA CreateProposalKept ==
  ASSUME ProposalSound, NEW kind \in Kinds, NEW gain \in 0 .. Size, CreateProposal(kind, gain)
  PROVE  ProposalSound'
<1>1. PICK e, r : /\ e = EligibleVoters - gain /\ r = Roster
                  /\ e \in 0 .. Size /\ r \in 0 .. Size /\ Size \in Nat
  BY ElectorateTyped, ClassTyped DEF CreateProposal
<1>a. PICK need : need = Threshold(kind, e, r)
  OBVIOUS
<1>b. e \in Nat /\ r \in Nat
  BY <1>1
<1>2. /\ need \in Nat
      /\ need >= 3 /\ 2 * need > e
      /\ kind \in {"protected", "activate"} => 3 * need >= 2 * e
      /\ kind = "protected" => need >= 5 /\ 3 * need >= r
  BY <1>a, <1>b, ThresholdIsEnough
<1>3. PICK v \in Nat, h \in 0 .. (MaxMoves + MaxProposals) : v = gov.version /\ h = basis
  BY ClassTyped DEF Government
<1>4. PICK p \in BOOLEAN : p = (absent = "no")
  OBVIOUS
<1>5. prop' = [NoProposal EXCEPT !.st = "discussion", !.kind = kind, !.hash = h,
                 !.present = p, !.roster = r, !.voters = e, !.required = need, !.version = v]
  BY <1>1, <1>a, <1>3, <1>4 DEF CreateProposal
<1>6. /\ prop' \in Proposal /\ prop'.st = "discussion" /\ prop'.kind = kind
      /\ prop'.roster = r /\ prop'.voters = e /\ prop'.required = need
  BY <1>1, <1>2, <1>5 DEF Proposal, NoProposal
<1>7. /\ ballot' = NoBallots /\ proposals' = proposals + 1 /\ proposals < MaxProposals
      /\ ~Pending /\ UNCHANGED <<gov, joined, absent, basis, moves>>
  BY DEF CreateProposal
<1>8. /\ ballot' \in [BallotKinds -> 0 .. Size]
      /\ ballot'["yes"] = 0 /\ ballot'["other"] = 0
      /\ ballot'["yes_locked"] = 0 /\ ballot'["other_locked"] = 0
  BY <1>1, <1>7 DEF NoBallots, BallotKinds
<1>9. ProposalTypeOK'
  BY <1>6, <1>7, <1>8, ClassTyped DEF ProposalTypeOK, Proposal, Government
<1>10. ThresholdKept'
  BY <1>2, <1>6 DEF ThresholdKept, MustCool
<1>11. Cast' = 0
  BY <1>8 DEF Cast
<1>12. BallotsCounted'
  BY <1>1, <1>6, <1>11 DEF BallotsCounted
<1>13. BasisCounted'
  BY <1>6, <1>7, ClassTyped DEF ProposalSound, BasisCounted, Pending
<1> HIDE <1>5, <1>6
<1> QED
  BY <1>7, <1>9, <1>10, <1>12, <1>13
     DEF ProposalSound, MembersCounted, Outsiders, CollectiveHasVersion

LEMMA ProposalStep ==
  ASSUME ProposalSound, [PropNext]_propVars
  PROVE  ProposalSound'
<1>1. CASE UNCHANGED propVars
  BY <1>1 DEF propVars, ProposalSound, ProposalTypeOK, MembersCounted, Outsiders, ThresholdKept,
     MustCool, BallotsCounted, Cast, YesVotes, BasisCounted, Pending, CollectiveHasVersion
<1>2. ASSUME NEW m \in {"centralized", "enrolling"}, ConfigureGovernance(m)
      PROVE  ProposalSound'
  BY <1>2, ConfigureKept
<1>3. CASE EnrollmentCloses \/ AssessmentBegins
  BY <1>3, ModeTimeKept
<1>4. CASE JoinGovernance \/ LeaveGovernance \/ MembershipCools
  BY <1>4, MembersKept
<1>5. CASE EnableAccount \/ BasisChange \/ \E a \in {"member", "other"} : DisableAccount(a)
  BY <1>5, AbsenceKept
<1>6. ASSUME NEW k \in Kinds, NEW gain \in 0 .. Size, CreateProposal(k, gain)
      PROVE  ProposalSound'
  BY <1>6, CreateProposalKept
<1>7. ASSUME NEW from \in {"nobody", "yes", "other"}, NEW to \in BallotKinds,
             VoteGovernance(from, to)
      PROVE  ProposalSound'
  BY <1>7, VoteKept
<1>8. CASE VotingTime \/ DecisionCools
  BY <1>8, TimeKept
<1>9. CASE CloseProposal \/ PassProposal \/ ExecuteStale \/ ExecuteActivate \/ ExecuteProposal
  BY <1>9, DecisionKept
<1> QED
  BY <1>1, <1>2, <1>3, <1>4, <1>5, <1>6, <1>7, <1>8, <1>9 DEF PropNext

LEMMA ProposalAlways == PropSpec => []ProposalSound
<1>1. ProposalSound /\ [PropNext]_propVars => ProposalSound'
  BY ProposalStep
<1> QED
  BY ProposalStarts, <1>1, PTL DEF PropSpec

\* Members come, leave and are disabled while a proposal is voted on (governance_handlers.go,
\* policy.go): for a class of any size, what is carried out had the votes that its kind asks for,
\* of those who could vote when it was made.
THEOREM CarriedByVote == PropSpec => []ProposalInv
<1>1. ASSUME ProposalSound PROVE ProposalInv
  <2>0. YesVotes \in Nat /\ Cast \in Nat
    BY <1>1, BallotsTyped
  <2>a. prop.voters \in Nat /\ prop.required \in Nat /\ prop.roster \in Nat
    BY <1>1, ClassTyped DEF Proposal
  <2>1. PICK y, c, v, n, r \in Nat :
          y = YesVotes /\ c = Cast /\ v = prop.voters /\ n = prop.required /\ r = prop.roster
    BY <2>0, <2>a
  <2>2. ASSUME prop.st = "applied"
        PROVE  /\ c <= v /\ y >= 3 /\ 2 * y > v
               /\ MustCool => 3 * y >= 2 * v
               /\ prop.kind = "protected" => y >= 5 /\ 3 * y >= r
    <3>1. /\ c <= v /\ y >= n /\ n >= 3 /\ 2 * n > v
          /\ MustCool => 3 * n >= 2 * v
          /\ prop.kind = "protected" => n >= 5 /\ 3 * n >= r
      BY <1>1, <2>1, <2>2 DEF ProposalSound, ThresholdKept, BallotsCounted
    <3> HIDE <2>1
    <3> QED
      BY <3>1
  <2> QED
    BY <1>1, <2>1, <2>2 DEF ProposalInv, AppliedByMajority, ProposalSound
<1>2. ProposalSound => ProposalInv
  BY <1>1
<1> QED
  BY ProposalAlways, <1>2, PTL

\* Execution and activation (governance_actions.go): a decision takes effect on the facts and the
\* roster that were voted on, and a class comes under collective government by its own vote only.
THEOREM CarriedAsVoted == PropSpec => DecidedAsVoted
<1>1. ASSUME ProposalSound, [PropNext]_propVars
      PROVE  /\ [prop.st # "applied" /\ prop'.st = "applied" => basis = prop.hash /\ SameRoster]_propVars
             /\ [gov'.mode # gov.mode /\ "collective" \in {gov.mode, gov'.mode} =>
                   /\ gov'.mode = "collective" /\ ~gov.started
                   /\ prop'.st = "applied" /\ prop.kind = "activate"
                   /\ EligibleVoters >= MinReviewers]_propVars
  <2>1. ASSUME prop.st # "applied", prop'.st = "applied"
        PROVE  basis = prop.hash /\ SameRoster
    <3>1. ExecuteActivate \/ ExecuteProposal
      <4>1. /\ ~(UNCHANGED propVars)
            /\ ~(\E m \in {"centralized", "enrolling"} : ConfigureGovernance(m))
            /\ ~EnrollmentCloses /\ ~AssessmentBegins
        BY <2>1 DEF propVars, ConfigureGovernance, EnrollmentCloses, AssessmentBegins
      <4>2. /\ ~JoinGovernance /\ ~LeaveGovernance /\ ~MembershipCools /\ ~EnableAccount
            /\ ~BasisChange /\ ~(\E a \in {"member", "other"} : DisableAccount(a))
        BY <2>1 DEF JoinGovernance, LeaveGovernance, MembershipCools, EnableAccount, BasisChange,
                    DisableAccount
      <4>3. ~(\E k \in Kinds, gain \in 0 .. Size : CreateProposal(k, gain))
        BY <2>1 DEF CreateProposal, NoProposal
      <4>4. ~(\E from \in {"nobody", "yes", "other"}, to \in BallotKinds : VoteGovernance(from, to))
        BY <1>1, <2>1, ClassTyped DEF VoteGovernance, Proposal
      <4>5. ~VotingTime /\ ~DecisionCools
        BY <1>1, <2>1, ClassTyped DEF VotingTime, DecisionCools, Proposal
      <4>6. ~CloseProposal /\ ~PassProposal /\ ~ExecuteStale
        BY <1>1, <2>1, ClassTyped DEF CloseProposal, ClosedStatus, PassProposal, ExecuteStale, Proposal
      <4> QED
        BY <1>1, <4>1, <4>2, <4>3, <4>4, <4>5, <4>6 DEF PropNext
    <3> QED
      BY <3>1 DEF ExecuteActivate, ExecuteProposal, Carried, ElectorateStands, SameBasis
  <2>2. ASSUME gov'.mode # gov.mode, "collective" \in {gov.mode, gov'.mode}
        PROVE  /\ gov'.mode = "collective" /\ ~gov.started
               /\ prop'.st = "applied" /\ prop.kind = "activate"
               /\ EligibleVoters >= MinReviewers
    <3>1. ~(\E m \in {"centralized", "enrolling"} : ConfigureGovernance(m))
      <4>1. ASSUME NEW m \in {"centralized", "enrolling"}, ConfigureGovernance(m) PROVE FALSE
        <5>1. gov'.mode = m
          BY <4>1, ClassTyped, <1>1 DEF ConfigureGovernance, Government
        <5>2. gov.mode = "collective"
          BY <2>2, <5>1
        <5> QED
          BY <1>1, <4>1, <5>2, ClassTyped
             DEF ConfigureGovernance, ProposalSound, CollectiveHasVersion, Government
      <4> QED
        BY <4>1
    <3>2. ~EnrollmentCloses /\ ~AssessmentBegins
      BY <1>1, <2>2, ClassTyped DEF EnrollmentCloses, AssessmentBegins, Government
    <3>3. gov' # gov
      BY <2>2
    <3>4. ExecuteActivate
      BY <1>1, <3>1, <3>2, <3>3
         DEF PropNext, propVars, JoinGovernance, LeaveGovernance, MembershipCools, DisableAccount,
             EnableAccount, BasisChange, CreateProposal, VoteGovernance, VotingTime, CloseProposal,
             PassProposal, DecisionCools, ExecuteStale, ExecuteProposal
    <3>5. PICK v : v = gov.version + 1
      OBVIOUS
    <3>6. gov' = [gov EXCEPT !.mode = "collective", !.version = v]
      BY <3>3, <3>4, <3>5 DEF ExecuteActivate
    <3>7. gov'.mode = "collective"
      BY <1>1, <3>6, ClassTyped DEF Government
    <3>8. prop'.st = "applied"
      BY <1>1, <3>4, ClassTyped DEF ExecuteActivate, Proposal
    <3> QED
      BY <3>4, <3>7, <3>8 DEF ExecuteActivate, Capacity
  <2> QED
    BY <2>1, <2>2
<1>2. ProposalSound /\ [PropNext]_propVars =>
             /\ [prop.st # "applied" /\ prop'.st = "applied" => basis = prop.hash /\ SameRoster]_propVars
             /\ [gov'.mode # gov.mode /\ "collective" \in {gov.mode, gov'.mode} =>
                   /\ gov'.mode = "collective" /\ ~gov.started
                   /\ prop'.st = "applied" /\ prop.kind = "activate"
                   /\ EligibleVoters >= MinReviewers]_propVars
  BY <1>1
<1> QED
  BY ProposalAlways, <1>2, PTL DEF PropSpec, DecidedAsVoted, AppliedAsVoted, CollectiveByVote
-----------------------------------------------------------------------------
(* Panels                                                                  *)

Case == [st : {"none", "voting", "deliberating", "blocked", "applied"}, seats : {2, 3},
         active : SUBSET Jurors, gone : SUBSET Jurors, excluded : SUBSET Jurors,
         opinion : [Jurors -> Verdicts \cup {"none"}], on : [Jurors -> 0 .. MaxFacts],
         pick : [Jurors -> Verdicts \cup {"none", "abstain"}], hash : 0 .. MaxFacts,
         round : 1 .. 2, late : BOOLEAN, repl : Nat, split : BOOLEAN,
         verdict : Verdicts \cup {"none"}]

\* Who has or had a seat was free of the case when it was filled, only who has a seat has
\* an opinion, and a panel that deliberates or has decided is complete.
PanelOf(c) ==
  /\ Seen(c) \cap c.excluded = {}
  /\ Cardinality(c.active) <= c.seats
  /\ \A j \in Jurors : c.opinion[j] # "none" => j \in c.active /\ c.on[j] = c.hash
  /\ c.st \in {"deliberating", "applied"} => Cardinality(Voiced(c)) >= c.seats

Excludes(c) == c.st # "none" => {Subject} \cup earlier \subseteq c.excluded

PanelSound ==
  /\ PanelTypeOK
  /\ PanelOf(kase)
  /\ Excludes(kase)
  /\ kase.st = "none" => Seen(kase) = {} /\ earlier = {}
  /\ VerdictByMajority

CaseSound(c) == c \in Case /\ PanelOf(c) /\ Excludes(c)

LEMMA PanelTyped ==
  ASSUME PanelSound
  PROVE  /\ pool \in SUBSET Jurors /\ stage \in {"review", "appeal"} /\ earlier \in SUBSET Jurors
         /\ kase \in Case /\ facts \in 0 .. MaxFacts /\ poolMoves \in 0 .. MaxPoolMoves
BY DEF PanelSound, PanelTypeOK, Case

LEMMA JurorsFinite ==
  ASSUME NEW S \in SUBSET Jurors
  PROVE  IsFiniteSet(S) /\ Cardinality(S) \in Nat
BY PanelsAssumption, FS_Subset, FS_CardinalityType

\* Draw (policy.go): members who are free of the case, as many as are asked for at most.
LEMMA DrawAtMost ==
  ASSUME pool \in SUBSET Jurors, NEW excl, NEW n \in Nat
  PROVE  /\ Draw(excl, n) \subseteq pool \ excl
         /\ Cardinality(Draw(excl, n)) <= n
<1>1. PICK S \in SUBSET Jurors : S = pool \ excl
  OBVIOUS
<1>2. PICK f : f = [j \in S |-> Cardinality({k \in S : k < j})]
  OBVIOUS
<1>3. PICK D : D = Draw(excl, n)
  OBVIOUS
<1>4. D = {j \in S : f[j] < n}
  BY <1>1, <1>2, <1>3 DEF Draw
<1>5. D \subseteq S /\ D \in SUBSET Jurors /\ S \subseteq Nat
  BY <1>1, <1>4, PanelsAssumption
<1>6. ASSUME NEW x \in S, NEW y \in S, x < y
      PROVE  f[x] < f[y]
  <2>1. PICK A, B : A = {k \in S : k < x} /\ B = {k \in S : k < y}
    OBVIOUS
  <2>2. x \in Nat /\ y \in Nat
    BY <1>5
  <2>3. A \subseteq B
    <3>1. ASSUME NEW k \in S, k < x PROVE k < y
      BY <1>5, <1>6, <2>2, <3>1
    <3> QED
      BY <2>1, <3>1
  <2>4. x \in B /\ x \notin A
    BY <1>6, <2>1, <2>2
  <2>5. A \in SUBSET Jurors /\ B \in SUBSET Jurors
    BY <1>1, <2>1
  <2>6. /\ Cardinality(A) <= Cardinality(B) /\ Cardinality(A) # Cardinality(B)
        /\ Cardinality(A) \in Nat /\ Cardinality(B) \in Nat
    BY <2>3, <2>4, <2>5, JurorsFinite, FS_Subset
  <2> QED
    BY <1>2, <2>1, <2>6
<1>7. Cardinality(D) <= n
  <2>1. SUFFICES ASSUME ~(Cardinality(D) <= n) PROVE FALSE
    OBVIOUS
  <2>2. IsFiniteSet(D) /\ Cardinality(D) \in Nat
    BY <1>5, JurorsFinite
  <2>3. PICK T : T = 0 .. n - 1
    OBVIOUS
  <2>4. IsFiniteSet(T) /\ Cardinality(T) = n
    BY <2>3, FS_Interval
  <2>5. ASSUME NEW j \in D PROVE f[j] \in T
    <3>1. j \in S /\ f[j] < n
      BY <1>4
    <3>2. f[j] \in Nat
      BY <1>1, <1>2, <3>1, JurorsFinite
    <3> QED
      BY <2>3, <3>1, <3>2
  <2>6. PICK g : g = [j \in D |-> f[j]]
    OBVIOUS
  <2>7. g \in [D -> T]
    BY <2>5, <2>6
  <2>8. Cardinality(T) < Cardinality(D)
    BY <2>1, <2>2, <2>4
  <2>9. PICK x, y \in D : x # y /\ g[x] = g[y]
    BY <2>2, <2>4, <2>7, <2>8, FS_PigeonHole
  <2>10. f[x] = f[y] /\ x \in Nat /\ y \in Nat /\ x \in S /\ y \in S
    BY <1>5, <2>6, <2>9
  <2>11. f[x] \in Nat
    BY <1>1, <1>2, <2>10, JurorsFinite
  <2>12. CASE x < y
    BY <1>6, <2>10, <2>11, <2>12
  <2>13. CASE y < x
    BY <1>6, <2>10, <2>11, <2>13
  <2> QED
    BY <2>9, <2>10, <2>12, <2>13
<1> QED
  BY <1>1, <1>3, <1>5, <1>7

LEMMA BlankCase ==
  /\ NoCase \in Case /\ NoCase.st = "none" /\ NoCase.active = {} /\ NoCase.gone = {}
  /\ NoCase.seats = 2 /\ NoCase.opinion = Blank
  /\ \A j \in Jurors : NoCase.opinion[j] = "none"
BY PanelsAssumption DEF Case, NoCase, Blank

LEMMA PanelStarts == PanelInit => PanelSound
<1> SUFFICES ASSUME PanelInit PROVE PanelSound
  OBVIOUS
<1>1. PanelOf(NoCase) /\ Seen(NoCase) = {}
  BY BlankCase, FS_EmptySet DEF PanelOf, Seen
<1>2. PanelTypeOK
  BY BlankCase, PanelsAssumption DEF PanelInit, PanelTypeOK, Case
<1> QED
  BY BlankCase, <1>1, <1>2 DEF PanelInit, PanelSound, Excludes, VerdictByMajority

\* What is common to the steps of a case that is open.
LEMMA CaseStands ==
  ASSUME PanelSound, NEW c, CaseSound(c), c.st \in {"voting", "deliberating", "blocked"},
         kase' = c, UNCHANGED <<pool, stage, earlier, poolMoves>>, facts' \in 0 .. MaxFacts
  PROVE  PanelSound'
<1>1. PanelTypeOK'
  BY PanelTyped DEF CaseSound, PanelTypeOK, Case
<1> QED
  BY <1>1 DEF CaseSound, PanelSound, PanelOf, Excludes, VerdictByMajority, Seen, Voiced

\* The whole panel has spoken when as many have as it has seats.
LEMMA WholePanel ==
  ASSUME NEW c \in Case, PanelOf(c), Cardinality(Voiced(c)) >= c.seats
  PROVE  Cardinality(c.active) = c.seats /\ c.active = Voiced(c)
<1>1. c.active \in SUBSET Jurors /\ c.seats \in Nat
  BY DEF Case
<1>2. Voiced(c) \in SUBSET c.active /\ Voiced(c) \in SUBSET Jurors
  BY <1>1 DEF Voiced
<1>3. /\ IsFiniteSet(c.active) /\ Cardinality(c.active) \in Nat
      /\ Cardinality(Voiced(c)) \in Nat
  BY <1>1, <1>2, JurorsFinite
<1>4. Cardinality(Voiced(c)) <= Cardinality(c.active)
  BY <1>2, <1>3, FS_Subset
<1>5. Cardinality(c.active) <= c.seats
  BY DEF PanelOf
<1>6. Cardinality(c.active) = c.seats /\ Cardinality(Voiced(c)) = Cardinality(c.active)
  BY <1>1, <1>3, <1>4, <1>5
<1> QED
  BY <1>2, <1>3, <1>6, FS_Subset

\* expandGovernanceCase: empty seats are drawn again from those who are free of the case.
LEMMA ExpandedSound ==
  ASSUME pool \in SUBSET Jurors, NEW c, CaseSound(c), c.st \in {"voting", "blocked"},
         NEW seats \in {2, 3}, c.seats <= seats, NEW automatic \in BOOLEAN
  PROVE  /\ CaseSound(Expanded(c, seats, automatic))
         /\ Expanded(c, seats, automatic).st \in {"voting", "blocked"}
<1>1. PICK expired : expired = {j \in c.active : c.late /\ c.opinion[j] = "none"}
  OBVIOUS
<1>2. PICK kept : kept = c.active \ expired
  OBVIOUS
<1>3. PICK excl : excl = c.excluded \cup Seen(c)
  OBVIOUS
<1>4. PICK need : need = seats - Cardinality(kept)
  OBVIOUS
<1>5. PICK repl : repl = IF expired = {} THEN c.repl ELSE c.repl + 1
  OBVIOUS
<1>6. PICK drawn : drawn = Draw(excl, need)
  OBVIOUS
<1>7. \/ Expanded(c, seats, automatic) = [c EXCEPT !.st = "blocked"]
      \/ Expanded(c, seats, automatic) = c
      \/ /\ need > 0
         /\ Expanded(c, seats, automatic) =
              [c EXCEPT !.st = "voting", !.seats = seats, !.late = FALSE,
                        !.active = kept \cup drawn, !.gone = c.gone \cup expired, !.repl = repl]
  <2>1. PICK reserve : reserve = IF stage = "review" THEN 3 - Cardinality(kept) + 3 ELSE need
    OBVIOUS
  <2>2. kept = c.active \ {j \in c.active : c.late /\ c.opinion[j] = "none"}
    BY <1>1, <1>2
  <2>3. Expanded(c, seats, automatic) =
          IF automatic /\ expired # {} /\ c.repl >= 2 THEN [c EXCEPT !.st = "blocked"]
          ELSE IF need <= 0 THEN c
          ELSE IF Available(excl) < need \/ Available(excl) < reserve
            THEN [c EXCEPT !.st = "blocked"]
            ELSE [c EXCEPT !.st = "voting", !.seats = seats, !.late = FALSE,
                           !.active = kept \cup drawn, !.gone = c.gone \cup expired,
                           !.repl = repl]
    BY <1>1, <1>2, <1>3, <1>4, <1>5, <1>6, <2>1 DEF Expanded
  <2>4. seats \in Int /\ Cardinality(kept) \in Int
    BY <1>2, JurorsFinite DEF CaseSound, Case
  <2>5. need <= 0 \/ need > 0
    BY <1>4, <2>4
  <2> HIDE <1>1, <1>2, <1>3, <1>4, <1>5, <1>6, <2>1
  <2> QED
    BY <2>3, <2>5
<1>8. c \in Case /\ PanelOf(c) /\ Excludes(c)
  BY DEF CaseSound
<1>9. CASE Expanded(c, seats, automatic) = c
  BY <1>9
<1>10. CASE Expanded(c, seats, automatic) = [c EXCEPT !.st = "blocked"]
  <2>1. PICK d : d = [c EXCEPT !.st = "blocked"]
    OBVIOUS
  <2>2. /\ d \in Case /\ d.st = "blocked" /\ d.seats = c.seats /\ d.active = c.active
        /\ d.gone = c.gone /\ d.excluded = c.excluded /\ d.opinion = c.opinion /\ d.on = c.on
        /\ d.hash = c.hash
    BY <1>8, <2>1 DEF Case
  <2>3. PanelOf(d) /\ Excludes(d)
    BY <1>8, <2>2 DEF PanelOf, Excludes, Seen
  <2> QED
    BY <1>10, <2>1, <2>2, <2>3 DEF CaseSound
<1>11. CASE /\ need > 0
            /\ Expanded(c, seats, automatic) =
                 [c EXCEPT !.st = "voting", !.seats = seats, !.late = FALSE,
                           !.active = kept \cup drawn, !.gone = c.gone \cup expired, !.repl = repl]
  <2>1. PICK d : d = [c EXCEPT !.st = "voting", !.seats = seats, !.late = FALSE,
                        !.active = kept \cup drawn, !.gone = c.gone \cup expired, !.repl = repl]
    OBVIOUS
  <2>2. /\ c.active \in SUBSET Jurors /\ c.gone \in SUBSET Jurors /\ c.repl \in Nat
        /\ expired \in SUBSET c.active /\ kept \in SUBSET c.active
        /\ kept \in SUBSET Jurors /\ expired \in SUBSET Jurors /\ repl \in Nat
    BY <1>1, <1>2, <1>5, <1>8 DEF Case
  <2>3. need \in Nat /\ Cardinality(kept) \in Nat
    BY <1>4, <1>11, <2>2, JurorsFinite
  <2>4. drawn \subseteq pool \ excl /\ Cardinality(drawn) <= need /\ drawn \in SUBSET Jurors
    BY <1>6, <2>3, DrawAtMost
  <2>5. kept \cup drawn \in SUBSET Jurors
    BY <2>2, <2>4
  <2>6. /\ d \in Case /\ d.st = "voting" /\ d.seats = seats /\ d.active = kept \cup drawn
        /\ d.gone = c.gone \cup expired /\ d.excluded = c.excluded /\ d.opinion = c.opinion
        /\ d.on = c.on /\ d.hash = c.hash
    BY <1>8, <2>1, <2>2, <2>5 DEF Case
  <2>7. Seen(d) \cap d.excluded = {}
    BY <1>3, <1>8, <2>2, <2>4, <2>6 DEF PanelOf, Seen
  <2>8. Cardinality(kept \cup drawn) <= seats
    <3>1. IsFiniteSet(kept) /\ IsFiniteSet(drawn) /\ Cardinality(drawn) \in Nat
      BY <2>2, <2>4, JurorsFinite
    <3>2. Cardinality(kept \cup drawn) <= Cardinality(kept) + Cardinality(drawn)
      <4>1. PICK both : both = kept \cap drawn
        OBVIOUS
      <4>2. Cardinality(both) \in Nat
        BY <2>2, <4>1, JurorsFinite
      <4>3. Cardinality(kept \cup drawn)
              = Cardinality(kept) + Cardinality(drawn) - Cardinality(both)
        BY <3>1, <4>1, FS_Union
      <4> QED
        BY <2>3, <3>1, <4>2, <4>3
    <3>3. Cardinality(kept \cup drawn) \in Nat
      BY <2>5, JurorsFinite
    <3> QED
      BY <1>4, <2>3, <2>4, <3>1, <3>2, <3>3
  <2>9. ASSUME NEW j \in Jurors, d.opinion[j] # "none"
        PROVE  j \in d.active /\ d.on[j] = d.hash
    <3>1. c.opinion[j] # "none" /\ j \in c.active /\ c.on[j] = c.hash
      BY <1>8, <2>6, <2>9 DEF PanelOf
    <3>2. j \in kept
      BY <1>1, <1>2, <3>1
    <3> QED
      BY <2>6, <3>1, <3>2
  <2>10. PanelOf(d)
    BY <2>6, <2>7, <2>8, <2>9 DEF PanelOf
  <2>11. Excludes(d)
    BY <1>8, <2>6 DEF Excludes
  <2> QED
    BY <1>11, <2>1, <2>6, <2>10, <2>11 DEF CaseSound
<1> QED
  BY <1>7, <1>9, <1>10, <1>11

\* What a step that only closes or reopens the voting leaves of a case.
LEMMA EditedSound ==
  ASSUME NEW c, CaseSound(c), NEW d \in Case,
         d.seats = c.seats, d.active = c.active, d.gone = c.gone, d.excluded = c.excluded,
         d.opinion = c.opinion, d.on = c.on, d.hash = c.hash, c.st # "none",
         d.st \in {"deliberating", "applied"} => Cardinality(Voiced(c)) >= c.seats
  PROVE  CaseSound(d)
BY DEF CaseSound, PanelOf, Excludes, Seen, Voiced

LEMMA ReconciledSound ==
  ASSUME pool \in SUBSET Jurors, NEW c, CaseSound(c), c.st \in {"voting", "blocked"},
         NEW automatic \in BOOLEAN
  PROVE  /\ CaseSound(Reconciled(c, automatic))
         /\ Reconciled(c, automatic).st \in {"voting", "deliberating", "blocked"}
<1>1. c.seats \in {2, 3} /\ c \in Case
  BY DEF CaseSound, Case
<1>2. /\ CaseSound(Expanded(c, c.seats, automatic))
      /\ Expanded(c, c.seats, automatic).st \in {"voting", "blocked"}
  BY <1>1, ExpandedSound
<1>3. CASE Cardinality(Voiced(c)) < c.seats
  <2>1. \/ Reconciled(c, automatic) = Expanded(c, c.seats, automatic)
        \/ Reconciled(c, automatic) = c
    BY <1>3 DEF Reconciled
  <2> QED
    BY <1>2, <2>1
<1>4. CASE ~(Cardinality(Voiced(c)) < c.seats) /\ c.seats = 2
  <2>1. c.seats <= 3 /\ 3 \in {2, 3}
    BY <1>4
  <2>2. CaseSound(Expanded(c, 3, automatic)) /\ Expanded(c, 3, automatic).st \in {"voting", "blocked"}
    BY <2>1, ExpandedSound
  <2>3. Reconciled(c, automatic) = Expanded(c, 3, automatic)
    BY <1>4 DEF Reconciled
  <2> QED
    BY <2>2, <2>3
<1>5. CASE ~(Cardinality(Voiced(c)) < c.seats) /\ c.seats # 2
  <2>1. PICK d : d = [c EXCEPT !.st = "deliberating", !.late = FALSE]
    OBVIOUS
  <2>2. /\ d \in Case /\ d.st = "deliberating" /\ d.seats = c.seats /\ d.active = c.active
        /\ d.gone = c.gone /\ d.excluded = c.excluded /\ d.opinion = c.opinion /\ d.on = c.on
        /\ d.hash = c.hash
    BY <1>1, <2>1 DEF Case
  <2>3. Voiced(c) \in SUBSET Jurors
    BY <1>1 DEF Voiced, Case
  <2>4. Cardinality(Voiced(c)) >= c.seats
    BY <1>1, <1>5, <2>3, JurorsFinite
  <2>5. CaseSound(d)
    BY <2>2, <2>4, EditedSound
  <2>6. Reconciled(c, automatic) = d
    BY <1>5, <2>1 DEF Reconciled
  <2> QED
    BY <2>2, <2>5, <2>6
<1> QED
  BY <1>3, <1>4, <1>5

LEMMA TalliedSound ==
  ASSUME NEW c, CaseSound(c), c.st = "deliberating"
  PROVE  CaseSound(Tallied(c)) /\ Tallied(c).st \in {"deliberating", "blocked"}
<1>1. CASE Tallied(c) = c
  BY <1>1
<1>2. CASE Tallied(c) # c
  <2>1. PICK d : d = [c EXCEPT !.st = "blocked", !.split = TRUE]
    OBVIOUS
  <2>2. /\ d \in Case /\ d.st = "blocked" /\ d.seats = c.seats /\ d.active = c.active
        /\ d.gone = c.gone /\ d.excluded = c.excluded /\ d.opinion = c.opinion /\ d.on = c.on
        /\ d.hash = c.hash
    BY <2>1 DEF Case, CaseSound
  <2>3. CaseSound(d)
    BY <2>2, EditedSound
  <2>4. Tallied(c) = d
    BY <1>2, <2>1 DEF Tallied
  <2> QED
    BY <2>2, <2>3, <2>4
<1> QED
  BY <1>1, <1>2

\* finishGovernanceCase with a winner: the verdict has the majority of a whole panel.
LEMMA VerdictSound ==
  ASSUME PanelSound, NEW c, CaseSound(c), c.st \in {"voting", "deliberating", "blocked"},
         NEW v \in Winners(c), kase' = [c EXCEPT !.st = "applied", !.verdict = v],
         facts' \in 0 .. MaxFacts, UNCHANGED <<pool, stage, earlier, poolMoves>>
  PROVE  PanelSound' /\ kase'.hash = c.hash
<1>1. c \in Case /\ PanelOf(c) /\ c.seats \in {2, 3} /\ c.active \in SUBSET Jurors
  BY DEF CaseSound, Case
<1>2. PICK f \in {c.opinion, c.pick} : v \in Won(c, f)
  BY DEF Winners
<1>3. v \in Verdicts
  BY <1>2 DEF Won
<1>4. /\ kase' \in Case /\ kase'.st = "applied" /\ kase'.seats = c.seats /\ kase'.active = c.active
      /\ kase'.gone = c.gone /\ kase'.excluded = c.excluded /\ kase'.opinion = c.opinion
      /\ kase'.on = c.on /\ kase'.hash = c.hash /\ kase'.pick = c.pick /\ kase'.verdict = v
  BY <1>1, <1>3 DEF Case
<1>5. Cardinality(Voiced(c)) >= c.seats
  <2>1. CASE c.st = "deliberating"
    BY <1>1, <2>1 DEF PanelOf
  <2>2. CASE c.st # "deliberating"
    <3>1. ~(Cardinality(Voiced(c)) < c.seats)
      BY <2>2 DEF Winners
    <3>2. Voiced(c) \in SUBSET Jurors
      BY <1>1 DEF Voiced
    <3> QED
      BY <1>1, <3>1, <3>2, JurorsFinite
  <2> QED
    BY <2>1, <2>2
<1>6. PICK d : d = kase'
  OBVIOUS
<1>7. /\ d \in Case /\ d.seats = c.seats /\ d.active = c.active
      /\ d.gone = c.gone /\ d.excluded = c.excluded /\ d.opinion = c.opinion
      /\ d.on = c.on /\ d.hash = c.hash
  BY <1>4, <1>6
<1>8. CaseSound(d)
  BY <1>5, <1>7, EditedSound
<1>9. Cardinality(c.active) = c.seats /\ c.active = Voiced(c)
  BY <1>1, <1>5, WholePanel
<1>10. VerdictByMajority'
  <2>1. PICK m : m = Cardinality({j \in c.active : f[j] = v})
    OBVIOUS
  <2>2. m \in Nat
    <3>1. {j \in c.active : f[j] = v} \in SUBSET Jurors
      BY <1>1
    <3> QED
      BY <2>1, <3>1, JurorsFinite
  <2>3. m >= c.seats \div 2 + 1
    BY <1>2, <2>1 DEF Won, Majority
  <2>4. 2 * m > c.seats
    BY <1>1, <2>2, <2>3
  <2>5. Voiced(d) = Voiced(c) /\ d = kase'
    BY <1>6, <1>7 DEF Voiced
  <2>6. Voiced(kase)' = Voiced(c)
    BY <1>4 DEF Voiced
  <2>7. \E g \in {kase'.opinion, kase'.pick} :
           2 * Cardinality({j \in kase'.active : g[j] = kase'.verdict}) > kase'.seats
    <3>1. f \in {kase'.opinion, kase'.pick} /\ kase'.active = c.active /\ kase'.verdict = v
          /\ kase'.seats = c.seats
      BY <1>2, <1>4
    <3>2. 2 * Cardinality({j \in kase'.active : f[j] = kase'.verdict}) > kase'.seats
      BY <2>1, <2>4, <3>1
    <3> QED
      BY <3>1, <3>2
  <2>8. Cardinality(kase'.active) = kase'.seats /\ kase'.active = Voiced(kase)'
    BY <1>4, <1>9, <2>6
  <2> QED
    BY <2>7, <2>8 DEF VerdictByMajority
<1>11. PanelTypeOK'
  BY <1>4, PanelTyped DEF PanelTypeOK, Case
<1>12. PanelOf(kase)' /\ Excludes(kase)'
  BY <1>6, <1>8 DEF CaseSound, PanelOf, Excludes, Seen, Voiced
<1> QED
  BY <1>4, <1>10, <1>11, <1>12 DEF PanelSound

\* finishGovernanceCase, whatever it comes to.
LEMMA FinishSound ==
  ASSUME PanelSound, NEW c, CaseSound(c), c.st \in {"voting", "deliberating", "blocked"},
         NEW automatic \in BOOLEAN, Finish(c, automatic),
         UNCHANGED <<pool, stage, earlier, poolMoves>>
  PROVE  PanelSound' /\ (kase'.st = "applied" => facts = kase'.hash)
<1>1. facts \in 0 .. MaxFacts /\ MaxFacts \in Nat /\ pool \in SUBSET Jurors
  BY PanelTyped, PanelsAssumption
<1>2. CASE kase' = c /\ UNCHANGED facts
  BY <1>1, <1>2, CaseStands
<1>3. CASE /\ FactsStand(c) /\ facts < MaxFacts /\ facts' = facts + 1
           /\ \E v \in Winners(c) : kase' = [c EXCEPT !.st = "applied", !.verdict = v]
  <2>1. facts' \in 0 .. MaxFacts
    BY <1>1, <1>3
  <2>2. PanelSound' /\ kase'.hash = c.hash
    BY <1>3, <2>1, VerdictSound
  <2> QED
    BY <1>3, <2>2 DEF FactsStand
<1>4. CASE /\ kase' = IF c.st = "deliberating" THEN Tallied(c) ELSE Reconciled(c, automatic)
           /\ UNCHANGED facts
  <2>1. PICK d : d = IF c.st = "deliberating" THEN Tallied(c) ELSE Reconciled(c, automatic)
    OBVIOUS
  <2>2. CaseSound(d) /\ d.st \in {"voting", "deliberating", "blocked"}
    <3>1. CASE c.st = "deliberating"
      BY <2>1, <3>1, TalliedSound
    <3>2. CASE c.st # "deliberating"
      BY <1>1, <2>1, <3>2, ReconciledSound
    <3> QED
      BY <3>1, <3>2
  <2>3. kase' = d /\ facts' \in 0 .. MaxFacts
    BY <1>1, <1>4, <2>1
  <2> HIDE <1>4, <2>1
  <2>4. PanelSound'
    BY <2>2, <2>3, CaseStands
  <2> QED
    BY <2>2, <2>3, <2>4
<1> QED
  BY <1>2, <1>3, <1>4 DEF Finish

LEMMA KaseSound ==
  ASSUME PanelSound
  PROVE  CaseSound(kase)
BY PanelTyped DEF PanelSound, CaseSound

LEMMA DecideCaseKept ==
  ASSUME PanelSound, NEW j \in Jurors, NEW v \in Verdicts, DecideCase(j, v)
  PROVE  PanelSound' /\ (kase'.st = "applied" => facts = kase'.hash)
<1>1. PICK c : c = [kase EXCEPT !.opinion[j] = v, !.on[j] = facts, !.hash = facts]
  OBVIOUS
<1>2. PICK op, on : /\ op = [kase.opinion EXCEPT ![j] = v]
                    /\ on = [kase.on EXCEPT ![j] = facts]
  OBVIOUS
<1>3. c = [kase EXCEPT !.opinion = op, !.on = on, !.hash = facts]
  BY <1>1, <1>2
<1>4. kase \in Case /\ facts \in 0 .. MaxFacts /\ PanelOf(kase) /\ Excludes(kase)
  BY PanelTyped DEF PanelSound
<1>5. /\ kase.opinion \in [Jurors -> Verdicts \cup {"none"}]
      /\ kase.on \in [Jurors -> 0 .. MaxFacts]
  BY <1>4 DEF Case
<1>6. /\ op \in [Jurors -> Verdicts \cup {"none"}] /\ on \in [Jurors -> 0 .. MaxFacts]
      /\ on[j] = facts
      /\ \A k \in Jurors : k # j => op[k] = kase.opinion[k] /\ on[k] = kase.on[k]
  BY <1>2, <1>4, <1>5
<1>7. /\ c \in Case /\ c.st = "voting" /\ c.seats = kase.seats /\ c.active = kase.active
      /\ c.gone = kase.gone /\ c.excluded = kase.excluded /\ c.opinion = op /\ c.on = on
      /\ c.hash = facts
  <2>1. kase.st = "voting"
    BY DEF DecideCase
  <2> QED
    BY <1>3, <1>4, <1>6, <2>1 DEF Case
<1>8. ASSUME NEW k \in Jurors, c.opinion[k] # "none"
      PROVE  k \in c.active /\ c.on[k] = c.hash
  <2>1. CASE k = j
    BY <1>6, <1>7, <2>1 DEF DecideCase
  <2>2. CASE k # j
    <3>1. kase.opinion[k] # "none" /\ k \in kase.active /\ kase.on[k] = kase.hash
      BY <1>4, <1>6, <1>7, <1>8, <2>2 DEF PanelOf
    <3>2. facts = kase.hash
      BY <3>1 DEF DecideCase, VersionAgrees
    <3> QED
      BY <1>6, <1>7, <2>2, <3>1, <3>2
  <2> QED
    BY <2>1, <2>2
<1>9. CaseSound(c)
  BY <1>4, <1>7, <1>8 DEF CaseSound, PanelOf, Excludes, Seen, DecideCase
<1>10. Finish(c, FALSE) /\ UNCHANGED <<pool, stage, earlier, poolMoves>>
  BY <1>1 DEF DecideCase
<1> QED
  BY <1>7, <1>9, <1>10, FinishSound

LEMMA BallotCaseKept ==
  ASSUME PanelSound, NEW j \in Jurors, NEW v \in Verdicts \cup {"abstain"}, BallotCase(j, v)
  PROVE  PanelSound' /\ (kase'.st = "applied" => facts = kase'.hash)
<1>1. PICK c : c = [kase EXCEPT !.pick[j] = v]
  OBVIOUS
<1>2. PICK pk : pk = [kase.pick EXCEPT ![j] = v]
  OBVIOUS
<1>3. c = [kase EXCEPT !.pick = pk]
  BY <1>1, <1>2
<1>4. kase \in Case /\ CaseSound(kase) /\ kase.st = "deliberating"
  BY PanelTyped, KaseSound DEF BallotCase
<1>5. pk \in [Jurors -> Verdicts \cup {"none", "abstain"}]
  <2>1. kase.pick \in [Jurors -> Verdicts \cup {"none", "abstain"}]
    BY <1>4 DEF Case
  <2> QED
    BY <1>2, <2>1
<1>6. /\ c \in Case /\ c.st = "deliberating" /\ c.seats = kase.seats /\ c.active = kase.active
      /\ c.gone = kase.gone /\ c.excluded = kase.excluded /\ c.opinion = kase.opinion
      /\ c.on = kase.on /\ c.hash = kase.hash
  BY <1>3, <1>4, <1>5 DEF Case
<1>7. Cardinality(Voiced(kase)) >= kase.seats
  BY <1>4 DEF CaseSound, PanelOf
<1>8. CaseSound(c)
  BY <1>4, <1>6, <1>7, EditedSound
<1>9. Finish(c, FALSE) /\ UNCHANGED <<pool, stage, earlier, poolMoves>>
  BY <1>1 DEF BallotCase
<1> QED
  BY <1>6, <1>8, <1>9, FinishSound

LEMMA CloseCaseKept ==
  ASSUME PanelSound, NEW automatic \in BOOLEAN, CloseCase(automatic)
  PROVE  PanelSound' /\ (kase'.st = "applied" => facts = kase'.hash)
BY KaseSound, FinishSound DEF CloseCase, Live

\* A case that is opened.
LEMMA OpenedSound ==
  ASSUME PanelSound, NEW seats \in {2, 3}, NEW excl \in SUBSET Jurors, NEW enough,
         kase' = Opened(seats, excl, enough), {Subject} \cup earlier' \subseteq excl,
         stage' \in {"review", "appeal"}, earlier' \in SUBSET Jurors,
         UNCHANGED <<pool, facts, poolMoves>>
  PROVE  PanelSound' /\ kase'.st # "applied"
<1>a. PICK none : /\ none = NoCase /\ none \in Case /\ none.gone = {} /\ none.opinion = Blank
  BY BlankCase
<1>1. PICK st, active : /\ st = IF enough THEN "voting" ELSE "blocked"
                        /\ active = IF enough THEN Draw(excl, seats) ELSE {}
  OBVIOUS
<1>2. kase' = [none EXCEPT !.st = st, !.seats = seats, !.active = active, !.excluded = excl,
                           !.hash = facts]
  BY <1>a, <1>1 DEF Opened
<1>3. pool \in SUBSET Jurors /\ facts \in 0 .. MaxFacts
  BY PanelTyped
<1>4. /\ Draw(excl, seats) \subseteq pool \ excl
      /\ Cardinality(Draw(excl, seats)) <= seats
  BY <1>3, DrawAtMost
<1>5. active \in SUBSET Jurors /\ active \cap excl = {} /\ Cardinality(active) <= seats
  <2>1. CASE enough
    BY <1>1, <1>3, <1>4, <2>1
  <2>2. CASE ~enough
    BY <1>1, <2>2, FS_EmptySet
  <2> QED
    BY <2>1, <2>2
<1>6. /\ kase' \in Case /\ kase'.st = st /\ kase'.seats = seats /\ kase'.active = active
      /\ kase'.gone = {} /\ kase'.excluded = excl /\ kase'.opinion = Blank
  <2>1. st \in {"voting", "blocked"}
    BY <1>1
  <2> HIDE <1>1
  <2> QED
    BY <1>a, <1>2, <1>3, <1>5, <2>1, ZenonT(60) DEF Case
<1>7. PanelTypeOK'
  BY <1>6, PanelTyped DEF PanelTypeOK, Case
<1>8. PanelOf(kase)'
  BY <1>1, <1>5, <1>6 DEF PanelOf, Seen, Blank
<1>9. Excludes(kase)'
  BY <1>6 DEF Excludes
<1> QED
  BY <1>1, <1>6, <1>7, <1>8, <1>9 DEF PanelSound, VerdictByMajority

LEMMA OpenKept ==
  ASSUME PanelSound, OpenReview \/ OpenAppeal
  PROVE  PanelSound' /\ kase'.st # "applied"
<1>1. Subject \in Jurors
  BY PanelsAssumption
<1>2. CASE OpenReview
  <2>1. earlier = {}
    BY <1>2 DEF OpenReview, PanelSound, NoCase
  <2>2. PICK excl : excl = {Subject}
    OBVIOUS
  <2>4. /\ kase' = Opened(2, excl, Available({Subject}) >= 6)
        /\ UNCHANGED <<pool, stage, earlier, facts, poolMoves>>
    BY <1>2, <2>2 DEF OpenReview
  <2>5. excl \in SUBSET Jurors /\ {Subject} \cup earlier' \subseteq excl
    BY <1>1, <2>1, <2>2, <2>4
  <2>6. stage' \in {"review", "appeal"} /\ earlier' \in SUBSET Jurors
    BY <2>4, PanelTyped
  <2> HIDE <2>2
  <2> QED
    BY <2>4, <2>5, <2>6, OpenedSound
<1>3. CASE OpenAppeal
  <2>1. PICK excl : excl = {Subject} \cup Seen(kase)
    OBVIOUS
  <2>3. /\ kase' = Opened(3, excl, Available(excl) >= 3) /\ UNCHANGED <<pool, facts, poolMoves>>
        /\ stage' = "appeal" /\ earlier' = Seen(kase)
    BY <1>3, <2>1 DEF OpenAppeal, SatBefore
  <2>4. Seen(kase) \in SUBSET Jurors
    BY PanelTyped DEF Seen, Case
  <2>5. /\ excl \in SUBSET Jurors /\ {Subject} \cup earlier' \subseteq excl
        /\ stage' \in {"review", "appeal"} /\ earlier' \in SUBSET Jurors
    BY <1>1, <2>1, <2>3, <2>4
  <2> HIDE <2>1
  <2> QED
    BY <2>3, <2>5, OpenedSound
<1> QED
  BY <1>2, <1>3

LEMMA DeadlineKept ==
  ASSUME PanelSound, CaseDeadline
  PROVE  PanelSound' /\ kase'.st # "applied"
<1>1. /\ kase' = [kase EXCEPT !.late = TRUE] /\ Live
      /\ UNCHANGED <<pool, stage, earlier, facts, poolMoves>>
  BY DEF CaseDeadline
<1>2. PICK d : d = kase'
  OBVIOUS
<1>3. /\ d \in Case /\ d.st = kase.st /\ d.seats = kase.seats /\ d.active = kase.active
      /\ d.gone = kase.gone /\ d.excluded = kase.excluded /\ d.opinion = kase.opinion
      /\ d.on = kase.on /\ d.hash = kase.hash
  BY <1>1, <1>2, PanelTyped DEF Case
<1>4. kase.st \in {"voting", "deliberating", "blocked"}
  BY <1>1 DEF Live
<1>5. kase.st \in {"deliberating", "applied"} => Cardinality(Voiced(kase)) >= kase.seats
  BY DEF PanelSound, PanelOf
<1>6. CaseSound(d)
  BY <1>3, <1>4, <1>5, KaseSound, EditedSound
<1>7. kase' = d /\ facts' \in 0 .. MaxFacts
  BY <1>1, <1>2, PanelTyped
<1> QED
  BY <1>1, <1>3, <1>4, <1>6, <1>7, CaseStands

\* restartGovernanceCase: the same panel, no opinions, the facts as they are now.
LEMMA RestartKept ==
  ASSUME PanelSound, RestartCase \/ CommentEvidence
  PROVE  PanelSound' /\ kase'.st # "applied"
<1>1. PICK h \in 0 .. MaxFacts :
        /\ kase' = Restarted(kase, h) /\ facts' \in 0 .. MaxFacts /\ kase.round < 2 /\ Live
        /\ UNCHANGED <<pool, stage, earlier, poolMoves>>
  BY PanelTyped, PanelsAssumption DEF RestartCase, CommentEvidence
<1>2. kase \in Case /\ PanelOf(kase) /\ Excludes(kase)
  BY PanelTyped DEF PanelSound
<1>3. PICK op : op = [j \in Jurors |-> IF j \in kase.active THEN "none" ELSE kase.opinion[j]]
  OBVIOUS
<1>4. \A j \in Jurors : op[j] = "none"
  BY <1>2, <1>3 DEF PanelOf
<1>5. op \in [Jurors -> Verdicts \cup {"none"}]
  BY <1>3, <1>4
<1>6. PICK r \in 1 .. 2 : r = kase.round + 1
  <2>1. kase.round \in 1 .. 2
    BY <1>2 DEF Case
  <2> QED
    BY <1>1, <2>1
<1>7. PICK d : d = [kase EXCEPT !.st = "voting", !.pick = Blank, !.hash = h, !.round = r,
                                !.split = FALSE, !.late = FALSE, !.opinion = op]
  OBVIOUS
<1>8. kase' = d
  BY <1>1, <1>3, <1>6, <1>7 DEF Restarted
<1>9. /\ d \in Case /\ d.st = "voting" /\ d.seats = kase.seats /\ d.active = kase.active
      /\ d.gone = kase.gone /\ d.excluded = kase.excluded /\ d.opinion = op
  BY <1>2, <1>5, <1>7 DEF Case, Blank
<1>10. CaseSound(d)
  BY <1>1, <1>2, <1>4, <1>9 DEF CaseSound, PanelOf, Excludes, Seen, Live
<1> QED
  BY <1>1, <1>8, <1>9, <1>10, CaseStands

LEMMA AroundKept ==
  ASSUME PanelSound, FactsChange \/ (\E j \in Jurors : PoolMove(j)) \/ UNCHANGED panelVars
  PROVE  PanelSound' /\ UNCHANGED kase
<1>1. UNCHANGED <<stage, kase, earlier>>
  BY DEF FactsChange, PoolMove, panelVars
<1>2. pool' \in SUBSET Jurors /\ facts' \in 0 .. MaxFacts /\ poolMoves' \in 0 .. MaxPoolMoves
  BY PanelTyped, PanelsAssumption DEF FactsChange, PoolMove, panelVars
<1> QED
  BY <1>1, <1>2
     DEF PanelSound, PanelTypeOK, PanelOf, Excludes, VerdictByMajority, Seen, Voiced

LEMMA PanelStep ==
  ASSUME PanelSound, [PanelNext]_panelVars
  PROVE  /\ PanelSound'
         /\ kase.st # "applied" /\ kase'.st = "applied" => facts = kase'.hash
<1>1. CASE FactsChange \/ (\E j \in Jurors : PoolMove(j)) \/ UNCHANGED panelVars
  BY <1>1, AroundKept
<1>2. CASE OpenReview \/ OpenAppeal
  BY <1>2, OpenKept
<1>3. CASE CaseDeadline
  BY <1>3, DeadlineKept
<1>4. CASE RestartCase \/ CommentEvidence
  BY <1>4, RestartKept
<1>5. ASSUME NEW b \in BOOLEAN, CloseCase(b)
      PROVE  PanelSound' /\ (kase'.st = "applied" => facts = kase'.hash)
  BY <1>5, CloseCaseKept
<1>6. ASSUME NEW j \in Jurors, NEW v \in Verdicts, DecideCase(j, v)
      PROVE  PanelSound' /\ (kase'.st = "applied" => facts = kase'.hash)
  BY <1>6, DecideCaseKept
<1>7. ASSUME NEW j \in Jurors, NEW v \in Verdicts \cup {"abstain"}, BallotCase(j, v)
      PROVE  PanelSound' /\ (kase'.st = "applied" => facts = kase'.hash)
  BY <1>7, BallotCaseKept
<1> QED
  BY <1>1, <1>2, <1>3, <1>4, <1>5, <1>6, <1>7 DEF PanelNext

LEMMA PanelAlways == PanelSpec => []PanelSound
<1>1. PanelSound /\ [PanelNext]_panelVars => PanelSound'
  BY PanelStep
<1> QED
  BY PanelStarts, <1>1, PTL DEF PanelSpec

\* Draws, expansions, replacements, restarts and appeals (governance_cases.go,
\* governance_ballots.go), for any number of members and verdicts: nobody judges his own case or one
\* he judged before, the opinions of a panel are on one version, and its verdict has the majority of
\* the whole panel.
THEOREM PanelsIndependent == PanelSpec => []PanelInv
<1>1. ASSUME PanelSound PROVE PanelInv
  <2>1. PanelIndependent
    BY <1>1 DEF PanelSound, PanelIndependent, PanelOf, Excludes
  <2>2. OneVersion
    BY <1>1, PanelTyped DEF PanelSound, OneVersion, PanelOf, Voiced, Case
  <2> QED
    BY <1>1, <2>1, <2>2 DEF PanelSound, PanelInv
<1>2. PanelSound => PanelInv
  BY <1>1
<1> QED
  BY PanelAlways, <1>2, PTL

\* finishGovernanceCase, finishGovernanceBallot: a verdict is carried out only on the version that
\* was judged, whoever closes the case and whenever.
THEOREM AppliedAsJudged == PanelSpec => AppliedToJudged
<1>1. PanelSound /\ [PanelNext]_panelVars
        => [kase.st # "applied" /\ kase'.st = "applied" => facts = kase'.hash]_panelVars
  BY PanelStep
<1> QED
  BY PanelAlways, <1>1, PTL DEF PanelSpec, AppliedToJudged
=============================================================================
