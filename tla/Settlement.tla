------------------------------ MODULE Settlement ------------------------------
(***************************************************************************)
(* The settlement of a class (api/settlement_handlers.go, settle/gate.go): *)
(* the gate, the run that freezes every score, the schemes it is made by,  *)
(* the writes that invalidate it, and the run that an export hands out.    *)
(*                                                                         *)
(* governanceGuard makes every write request of a class wait for the       *)
(* class's advisory lock, which is held to the commit.  A web request is   *)
(* READ COMMITTED and reads after it has the lock: it is one action.  Its  *)
(* transaction began before it waited, and created_at of a run is that     *)
(* beginning: a request that waited publishes behind a run made meanwhile. *)
(*                                                                         *)
(* A call through a tool link is REPEATABLE READ or SERIALIZABLE, and its  *)
(* first statement, which sets the tenant, takes its snapshot: before it   *)
(* waits for the class lock.  It fails when a row it updates has changed   *)
(* since, but runs and rows that it only reads may have.  class.settle is  *)
(* two actions, on the snapshot and at the commit; of another call what is *)
(* stale is the run that it invalidates.                                   *)
(*                                                                         *)
(* An item is "open" in every status that does not count (pending,         *)
(* consensus, appealing, arbitrating); penalties and base scores count as  *)
(* items that are ruled on.  The remaining conditions of the gate (nothing *)
(* pending) can only refuse a run.  A run with a settlement_invalidation   *)
(* is left out: no request that decides anything reads one.                *)
(***************************************************************************)
EXTENDS Integers, Sequences

CONSTANTS
  Submissions,   \* ids of submission rows
  Students,      \* active members of the class
  Points,        \* the points an item can be awarded
  NoScore,       \* SQL NULL in submission.final_score
  MaxSchemes,    \* bound on the schemes that the class publishes
  MaxRuns        \* bound on the valid runs at a time

ASSUME SettlementAssumption ==
  /\ NoScore \notin Points
  /\ MaxSchemes \in Nat \ {0}
  /\ MaxRuns \in Nat

VARIABLES
  status,      \* submission.status
  final,       \* submission.final_score
  corrected,   \* force_rejection or forced_score is set
  sealed,      \* students with a seal that was not lifted
  closed,      \* the submission window is over
  scheme,      \* the current scheme: the published one of the highest version
  override,    \* the current scheme has a gate_override row
  gpa,         \* everybody's GPA is imported for the current scheme
  runs,        \* complete, valid settlement runs by created_at, oldest first
  settling,    \* a class.settle call of a tool link, on its snapshot
  late         \* history: what has been written by requests out of order

itemVars == <<status, final, corrected>>
gateVars == <<sealed, closed, scheme, override, gpa>>
vars == <<itemVars, gateVars, runs, settling, late>>

Score == Points \cup {NoScore}
Snapshot == [Submissions -> Score]
Run == [scheme : 1..MaxSchemes, scores : Snapshot, confirmed : BOOLEAN]
Build == [run : Run, rows : SUBSET Submissions]

TypeOK ==
  /\ status \in [Submissions -> {"absent", "open", "scored", "locked"}]
  /\ final \in Snapshot
  /\ corrected \in [Submissions -> BOOLEAN]
  /\ sealed \subseteq Students
  /\ closed \in BOOLEAN
  /\ scheme \in 1..MaxSchemes
  /\ override \in BOOLEAN
  /\ gpa \in BOOLEAN
  /\ runs \in Seq(Run) /\ Len(runs) <= MaxRuns
  /\ settling \subseteq Build
  /\ late \subseteq {"start", "settle", "link"}

Init ==
  /\ status = [s \in Submissions |-> "absent"]
  /\ final = [s \in Submissions |-> NoScore]
  /\ corrected = [s \in Submissions |-> FALSE]
  /\ sealed = {} /\ closed = FALSE
  /\ scheme = 1 /\ override = FALSE /\ gpa = FALSE
  /\ runs = <<>> /\ settling = {} /\ late = {}

\* The runs with r at place p, and the runs without the one at place p.
Inserted(r, p) ==
  [i \in 1..Len(runs) + 1 |-> IF i < p THEN runs[i] ELSE IF i = p THEN r ELSE runs[i - 1]]
Without(p) ==
  [i \in 1..Len(runs) - 1 |-> IF i < p THEN runs[i] ELSE runs[i + 1]]

\* The newest valid run, of whatever scheme it is.  A call of a tool link takes
\* the newest of its snapshot instead: another of the valid runs, or (0) one
\* that has been invalidated meanwhile, or none.
InvalidateLatestSettlement ==
  \/ /\ runs' = IF runs = <<>> THEN runs ELSE Without(Len(runs))
     /\ UNCHANGED late
  \/ \E p \in 0..Len(runs) - 1 :
       /\ runs' = IF p = 0 THEN runs ELSE Without(p)
       /\ late' = late \cup {"link"}

-----------------------------------------------------------------------------
(* Students, schemes and the gate.                                         *)

\* A new submission; it does not count before it is scored.
Submit(s) ==
  /\ status[s] = "absent"
  /\ status' = [status EXCEPT ![s] = "open"]
  /\ UNCHANGED <<final, corrected, gateVars, runs, settling, late>>

SealMySubmissions(u) ==
  /\ u \notin sealed
  /\ sealed' = sealed \cup {u}
  /\ UNCHANGED <<itemVars, closed, scheme, override, gpa, runs, settling, late>>

\* A slip: the run that rests on the seal stays.
UnsealQuietly(u) ==
  /\ u \in sealed
  /\ sealed' = sealed \ {u}
  /\ UNCHANGED <<itemVars, closed, scheme, override, gpa, runs, settling, late>>

UnsealStudent(u) ==
  /\ u \in sealed
  /\ sealed' = sealed \ {u}
  /\ InvalidateLatestSettlement
  /\ UNCHANGED <<itemVars, closed, scheme, override, gpa, settling>>

\* Time, or a timeline that moves the end of the window.
WindowMoves ==
  /\ closed' = ~closed
  /\ UNCHANGED <<itemVars, sealed, scheme, override, gpa, runs, settling, late>>

\* The override and the GPA rows belong to the scheme before; no run does.
PublishScheme ==
  /\ scheme < MaxSchemes
  /\ scheme' = scheme + 1
  /\ override' = FALSE
  /\ gpa' = FALSE
  /\ UNCHANGED <<itemVars, sealed, closed, runs, settling, late>>

\* importGPA, of a file or of pasted rows, which replace those of the scheme; it may
\* leave students out.
ImportGPAFile ==
  /\ gpa' \in BOOLEAN
  /\ InvalidateLatestSettlement
  /\ UNCHANGED <<itemVars, sealed, closed, scheme, override, settling>>

ForceGate ==
  /\ ~override
  /\ override' = TRUE
  /\ UNCHANGED <<itemVars, sealed, closed, scheme, gpa, runs, settling, late>>

\* evaluateGate and settle.EvaluateGate.
AllSealed == Students \subseteq sealed
GateOpen ==
  \/ override
  \/ /\ closed \/ AllSealed
     /\ gpa
     /\ \A s \in Submissions : status[s] # "open"

-----------------------------------------------------------------------------
(* The settlement.                                                         *)

\* What buildSettlement selects.
Counted == [s \in Submissions |->
              IF status[s] \in {"scored", "locked"} THEN final[s] ELSE NoScore]

\* A valid run of the current scheme is handed back as it is.
SettleReuse == \E i \in 1..Len(runs) : runs[i].scheme = scheme

\* The run that runSettlementTx builds, and the rows that it will lock.
SettleBuild ==
  [run |-> [scheme |-> scheme, scores |-> Counted, confirmed |-> AllSealed],
   rows |-> {s \in Submissions : status[s] = "scored"}]

\* The run takes its place by the beginning of its transaction.
SettlePublish(b, how) ==
  /\ Len(runs) < MaxRuns
  /\ \E p \in 1..Len(runs) + 1 :
       /\ runs' = Inserted(b.run, p)
       /\ late' = late \cup how \cup (IF p <= Len(runs) THEN {"start"} ELSE {})
  /\ status' = [s \in Submissions |-> IF s \in b.rows THEN "locked" ELSE status[s]]
  /\ UNCHANGED <<final, corrected, gateVars>>

\* A slip: every request builds a run of its own.
BuildAnyway ==
  /\ GateOpen
  /\ SettlePublish(SettleBuild, {})
  /\ UNCHANGED settling

Settle ==
  /\ GateOpen
  /\ ~SettleReuse
  /\ SettlePublish(SettleBuild, {})
  /\ UNCHANGED settling

-----------------------------------------------------------------------------
(* Rulings, corrections and grants.                                        *)

Ruled(s, to, x) ==
  /\ status' = [status EXCEPT ![s] = to]
  /\ final' = [final EXCEPT ![s] = x]
  /\ UNCHANGED <<gateVars, settling>>

\* A slip: the new score leaves the published run as it is.
AwardQuietly(s, x) ==
  /\ status[s] # "absent"
  /\ corrected[s] => x = final[s]
  /\ Ruled(s, "scored", x)
  /\ UNCHANGED <<corrected, runs, late>>

\* saveReviewTask, arbitrateSubmission, resolveClassification,
\* applyAppealOutcome, decideObjection, withdrawAppeal.  The CHECKs on a
\* corrected item let only its own score through.
AwardScore(s, x) ==
  /\ status[s] # "absent"
  /\ corrected[s] => x = final[s]
  /\ Ruled(s, "scored", x)
  /\ InvalidateLatestSettlement
  /\ UNCHANGED corrected

\* fileAppealDraft: the score stays, the item no longer counts.
FileAppeal(s) ==
  /\ status[s] \in {"scored", "locked"}
  /\ ~corrected[s]
  /\ Ruled(s, "open", final[s])
  /\ InvalidateLatestSettlement
  /\ UNCHANGED corrected

\* adminSuggestClassification across categories invalidates nothing.
SuggestCross(s) ==
  /\ status[s] = "scored"
  /\ ~corrected[s]
  /\ Ruled(s, "open", NoScore)
  /\ UNCHANGED <<corrected, runs, late>>

CorrectSubmission(s, x) ==
  /\ status[s] # "absent"
  /\ Ruled(s, "scored", x)
  /\ corrected' = [corrected EXCEPT ![s] = TRUE]
  /\ InvalidateLatestSettlement

\* createBonusGrant inserts a scored item.
BonusGrant(s, x) ==
  /\ status[s] = "absent"
  /\ Ruled(s, "scored", x)
  /\ InvalidateLatestSettlement
  /\ UNCHANGED corrected

-----------------------------------------------------------------------------
(* A class.settle call of a tool link.                                     *)

LinkSettleBegin ==
  /\ settling = {}
  /\ GateOpen
  /\ ~SettleReuse
  /\ settling' = {SettleBuild}
  /\ UNCHANGED <<itemVars, gateVars, runs, late>>

\* The update of the scored rows fails when one of them has changed.
LinkSettle(b) ==
  /\ \A s \in b.rows : status[s] = "scored" /\ final[s] = b.run.scores[s]
  /\ SettlePublish(b, IF GateOpen /\ ~SettleReuse /\ b = SettleBuild THEN {} ELSE {"settle"})
  /\ settling' = {}

LinkAbort ==
  /\ settling # {}
  /\ settling' = {}
  /\ UNCHANGED <<itemVars, gateVars, runs, late>>

\* The run that requestExport renders: the newest valid one.
RequestExport == IF GateOpen /\ runs # <<>> THEN {runs[Len(runs)]} ELSE {}

-----------------------------------------------------------------------------
Next ==
  \/ WindowMoves \/ PublishScheme \/ ImportGPAFile \/ ForceGate
  \/ Settle
  \/ \E u \in Students : SealMySubmissions(u) \/ UnsealStudent(u)
  \/ \E s \in Submissions :
       \/ Submit(s)
       \/ FileAppeal(s)
       \/ SuggestCross(s)
       \/ \E x \in Points :
            AwardScore(s, x) \/ CorrectSubmission(s, x) \/ BonusGrant(s, x)
  \/ LinkSettleBegin \/ LinkAbort
  \/ \E b \in settling : LinkSettle(b)

Spec == Init /\ [][Next]_vars

-----------------------------------------------------------------------------
(* Properties.  "late" names the ways in which a write has acted on what   *)
(* was no longer so: "start", a run was published behind one that began    *)
(* after it; "settle", class.settle published a run that the state at its  *)
(* commit does not give; "link", another call of a tool link missed the    *)
(* newest run.                                                             *)

\* runSettlementTx leaves one valid run of a scheme at most, whatever is
\* published, corrected and unsealed between the requests.
OneRunPerScheme ==
  "settle" \notin late =>
    \A i, j \in 1..Len(runs) : runs[i].scheme = runs[j].scheme => i = j

\* A valid run of the current scheme shows the present score of every item,
\* although an invalidation stops at the newest run of any scheme.
CurrentRunShowsScores ==
  late = {} =>
    \A i \in 1..Len(runs) : runs[i].scheme = scheme => runs[i].scores = Counted

\* A run of the current scheme that was published on the strength of
\* everybody's seal is no longer valid when somebody's seal has been lifted.
CurrentRunSealed ==
  late = {} =>
    \A i \in 1..Len(runs) : runs[i].scheme = scheme /\ runs[i].confirmed => AllSealed

\* What the client says of a run that is not invalidated, that no score has
\* changed since: an export shows the present scores.
ExportShowsScores ==
  late = {} => \A r \in RequestExport : r.scores = Counted
=============================================================================
