--------------------------- MODULE ReviewDeskProofs ---------------------------
(***************************************************************************)
(* Proofs about ReviewDesk for any number of submissions, reviewers, seats *)
(* and versions.                                                           *)
(***************************************************************************)
EXTENDS ReviewDesk, FiniteSetTheorems, TLAPS

\* A fresh seat id is one no row, conclusion or running transaction uses.
LEMMA NewIdsFresh ==
  ASSUME NEW rows, FreshIds(rows) # {}
  PROVE  /\ NewIds(rows) \in [rows -> SeatIds \ LiveIds]
         /\ \A a, b \in rows : NewIds(rows)[a] = NewIds(rows)[b] => a = b
BY DEF NewIds, FreshIds

\* There are finitely many possible seats, so their number is a number.
LEMMA SeatsFinite ==
  ASSUME NEW S \in SUBSET Seat
  PROVE  IsFiniteSet(S)
<1> DEFINE P == (SeatIds \X Reviewers) \X {1, 2}
           mk(p) == [id |-> p[1][1], rev |-> p[1][2], pos |-> p[2]]
<1>1. IsFiniteSet(P)
  <2>1. IsFiniteSet(1 .. 2)
    <3>1. 1 \in Int /\ 2 \in Int
      OBVIOUS
    <3> QED
      BY <3>1, FS_Interval, Zenon
  <2>2. {1, 2} = 1 .. 2
    OBVIOUS
  <2> QED
    BY <2>1, <2>2, DeskAssumption, FS_Product
<1> DEFINE f == [p \in P |-> mk(p)]
<1>2. f \in Surjection(P, Seat)
  <2>1. f \in [P -> Seat]
    BY DEF Seat
  <2>2. ASSUME NEW x \in Seat
        PROVE  \E p \in P : f[p] = x
    <3>1. <<<<x.id, x.rev>>, x.pos>> \in P /\ x = mk(<<<<x.id, x.rev>>, x.pos>>)
      BY DEF Seat
    <3> QED
      BY <3>1
  <2> QED
    BY <2>1, <2>2 DEF Surjection
<1> QED
  BY <1>1, <1>2, FS_Surjection, FS_Subset

\* What Reconcile and the cross-category rule can answer.
LEMMA OutcomeType ==
  ASSUME NEW expected, NEW results \in SUBSET Review, ReconcileAccepts(expected, results)
  PROVE  /\ Outcome(expected, results).status \in {"consensus", "scored", "arbitrating"}
         /\ Outcome(expected, results).score \in Scores \cup {NoScore}
<1>1. CASE results = {}
  <2>1. Cardinality(results) = 0
    BY <1>1, FS_EmptySet
  <2> QED
    BY <1>1, <2>1 DEF ReconcileAccepts, Outcome, Reconcile
<1>2. CASE results # {}
  <2>1. (CHOOSE x \in results : TRUE) \in Review
    BY <1>2
  <2>2. (CHOOSE x \in results : TRUE).score \in Scores
    BY <2>1 DEF Review
  <2> QED
    BY <2>2 DEF Outcome, Reconcile
<1> QED
  BY <1>1, <1>2

-----------------------------------------------------------------------------
\* Every step of every handler keeps the state well typed.
LEMMA TypeStep == TypeOK /\ [Next]_vars => TypeOK'
<1> SUFFICES ASSUME TypeOK, [Next]_vars
             PROVE  TypeOK'
  OBVIOUS
<1> USE DeskAssumption DEF TypeOK
<1>1. ASSUME NEW s \in Submissions, CreateSubmission(s)
      PROVE  TypeOK'
  BY <1>1 DEF CreateSubmission, deskVars, txVars
<1>2. ASSUME NEW s \in Submissions, UpdateSubmission(s)
      PROVE  TypeOK'
  BY <1>2 DEF UpdateSubmission, deskVars, txVars
<1>3. ASSUME NEW s \in Submissions, SubmitSubmission(s)
      PROVE  TypeOK'
  BY <1>3 DEF SubmitSubmission, deskVars, txVars
<1>4. ASSUME NEW s \in Submissions, WithdrawSubmission(s)
      PROVE  TypeOK'
  BY <1>4 DEF WithdrawSubmission, deskVars, txVars
<1>5. ASSUME NEW s \in Submissions, DeleteSubmission(s)
      PROVE  TypeOK'
  BY <1>5 DEF DeleteSubmission, deskVars, txVars
<1>6. ASSUME NEW kind \in {"auto", "manual", "rebalance"}, NEW targets \in SUBSET Submissions,
             BeginBatch(kind, targets)
      PROVE  TypeOK'
  <2> DEFINE fit == {s \in targets : \E a, b \in BatchCandidates(kind, s) : a # b}
  <2>1. PICK pair \in [fit -> [{1, 2} -> Reviewers]] :
               dtx' = {[kind |-> IF kind = "rebalance" THEN kind ELSE "fill",
                        plan |-> BatchPlan(fit, pair)]}
    BY <1>6 DEF BeginBatch
  <2>2. BatchPlan(fit, pair) \subseteq Move
    BY DEF BatchPlan, Move
  <2> HIDE DEF fit
  <2>3. dtx' = {[kind |-> "rebalance", plan |-> BatchPlan(fit, pair)]}
        \/ dtx' = {[kind |-> "fill", plan |-> BatchPlan(fit, pair)]}
    BY <2>1
  <2>4. dtx' \subseteq DispatchTx
    BY <2>2, <2>3 DEF DispatchTx
  <2> QED
    BY <1>6, <2>4 DEF BeginBatch, submissionVars, deskVars
<1>7. ASSUME NEW kind \in {"handover", "reassign"}, NEW rows \in SUBSET Row,
             BeginMoves(kind, rows)
      PROVE  TypeOK'
  <2>1. PICK to \in [rows -> Reviewers] :
               dtx' = {[kind |-> kind,
                        plan |-> {[sub |-> w.sub, pos |-> w.pos, to |-> to[w], old |-> w.id]
                                  : w \in rows}]}
    BY <1>7 DEF BeginMoves
  <2>2. {[sub |-> w.sub, pos |-> w.pos, to |-> to[w], old |-> w.id] : w \in rows}
          \subseteq Move
    BY DEF Move, Row
  <2>3. dtx' \subseteq DispatchTx
    BY <2>1, <2>2 DEF DispatchTx
  <2> QED
    BY <1>7, <2>3 DEF BeginMoves, submissionVars, deskVars
<1>8. CASE DispatchCommit
  <2>1. PICK t \in dtx :
          /\ FreshIds(t.plan) # {}
          /\ seats' = [s \in Submissions |->
                   SeatsAfterClear(t, s) \cup
                   {[id |-> NewIds(t.plan)[m], rev |-> m.to, pos |-> m.pos] :
                      m \in {n \in t.plan : n.sub = s}}]
    BY <1>8 DEF DispatchCommit
  <2>2. t.plan \subseteq Move
    BY DEF DispatchTx
  <2>3. NewIds(t.plan) \in [t.plan -> SeatIds]
    BY <2>1, NewIdsFresh
  <2>4. ASSUME NEW s \in Submissions
        PROVE  SeatsAfterClear(t, s) \subseteq Seat
    BY DEF SeatsAfterClear, KeptSeats
  <2>5. ASSUME NEW s \in Submissions
        PROVE  {[id |-> NewIds(t.plan)[m], rev |-> m.to, pos |-> m.pos] :
                      m \in {n \in t.plan : n.sub = s}} \subseteq Seat
    BY <2>2, <2>3 DEF Seat, Move
  <2>6. seats' \in [Submissions -> SUBSET Seat]
    BY <2>1, <2>4, <2>5
  <2> QED
    BY <1>8, <2>6 DEF DispatchCommit, submissionVars
<1>9. CASE DispatchAbort
  BY <1>9 DEF DispatchAbort, submissionVars, deskVars
<1>10. ASSUME NEW r \in Leavers, NEW d \in {"paused", "off"}, TakeoverBegin(r, d)
       PROVE  TypeOK'
  <2>1. OpenSeats(r, {"pending", "consensus"}) \subseteq Row
    BY DEF OpenSeats
  <2>2. utx' \subseteq TakeoverTx
    BY <1>10, <2>1 DEF TakeoverBegin, TakeoverTx
  <2> QED
    BY <1>10, <2>2 DEF TakeoverBegin, submissionVars, deskVars
<1>11. ASSUME NEW t \in utx, TakeoverCommit(t)
       PROVE  TypeOK'
  <2> DEFINE moved(pick) == {w \in t.rows : pick[w] # NoOne}
             kept(pick, s) == {x \in seats[s] :
                                 \A w \in moved(pick) : w.sub = s => w.id # x.id}
  <2>1. PICK pick \in [t.rows -> Reviewers \cup {NoOne}] :
          /\ FreshIds(moved(pick)) # {}
          /\ seats' = [s \in Submissions |->
                         kept(pick, s) \cup
                         {[id |-> NewIds(moved(pick))[w], rev |-> pick[w], pos |-> w.pos] :
                            w \in {n \in moved(pick) : n.sub = s}}]
    BY <1>11 DEF TakeoverCommit
  <2>2. t.rows \subseteq Row /\ t.rev \in Reviewers /\ t.duty \in {"paused", "off"}
    BY DEF TakeoverTx
  <2>3. NewIds(moved(pick)) \in [moved(pick) -> SeatIds]
    <3> DEFINE M == moved(pick)
    <3>1. FreshIds(M) # {}
      BY <2>1
    <3> HIDE DEF M
    <3>2. NewIds(M) \in [M -> SeatIds]
      BY <3>1, NewIdsFresh
    <3> QED
      BY <3>2 DEF M
  <2>4. ASSUME NEW s \in Submissions
        PROVE  {[id |-> NewIds(moved(pick))[w], rev |-> pick[w], pos |-> w.pos] :
                            w \in {n \in moved(pick) : n.sub = s}} \subseteq Seat
    BY <2>2, <2>3 DEF Seat, Row
  <2>5. seats' \in [Submissions -> SUBSET Seat]
    BY <2>1, <2>4
  <2>6. duty' \in [Reviewers -> {"on", "paused", "off"}]
    BY <1>11, <2>2 DEF TakeoverCommit
  <2>7. utx' \subseteq TakeoverTx
    BY <1>11 DEF TakeoverCommit
  <2> QED
    BY <1>11, <2>5, <2>6, <2>7 DEF TakeoverCommit, submissionVars
<1>12. ASSUME NEW t \in utx, TakeoverAbort(t)
       PROVE  TypeOK'
  BY <1>12 DEF TakeoverAbort, submissionVars, deskVars
<1>13. ASSUME NEW r \in Reviewers, Return(r)
       PROVE  TypeOK'
  BY <1>13 DEF Return, submissionVars, deskVars, txVars
<1>14. ASSUME NEW r \in Reviewers, NEW s \in Submissions, OpenTask(r, s)
       PROVE  TypeOK'
  <2>1. rtx' \subseteq ReviewTx
    BY <1>14 DEF OpenTask, ReviewTx
  <2> QED
    BY <1>14, <2>1 DEF OpenTask, submissionVars, deskVars
<1>15. ASSUME NEW t \in rtx, PostReview(t)
       PROVE  TypeOK'
  <2>1. PICK x \in seats[t.sub] :
          rtx' = (rtx \ {t}) \cup
                 {[rev |-> t.rev, sub |-> t.sub, saw |-> t.saw,
                   seat |-> x.id, expected |-> Cardinality(seats[t.sub])]}
    BY <1>15 DEF PostReview
  <2>2. t \in ReviewTx /\ x \in Seat
    BY DEF ReviewTx
  <2>3. Cardinality(seats[t.sub]) \in Nat
    BY <2>2, SeatsFinite, FS_CardinalityType DEF ReviewTx
  <2>4. [rev |-> t.rev, sub |-> t.sub, saw |-> t.saw,
         seat |-> x.id, expected |-> Cardinality(seats[t.sub])] \in ReviewTx
    BY <2>2, <2>3 DEF ReviewTx, Seat
  <2> QED
    BY <1>15, <2>1, <2>4 DEF PostReview, submissionVars, deskVars
<1>16. ASSUME NEW t \in rtx, NEW results \in SUBSET Review, RecordReviews(t, results)
       PROVE  TypeOK'
  <2>1. t.sub \in Submissions
    BY DEF ReviewTx
  <2>2. /\ Outcome(t.expected, results).status \in {"consensus", "scored", "arbitrating"}
        /\ Outcome(t.expected, results).score \in Scores \cup {NoScore}
    BY <1>16, OutcomeType DEF RecordReviews
  <2> QED
    BY <1>16, <2>1, <2>2 DEF RecordReviews
<1>17. ASSUME NEW t \in rtx, NEW v \in Verdicts, t.seat # NoSeat
       PROVE  NewReview(t, v) \in Review
  BY <1>17 DEF NewReview, Review, ReviewTx
<1>18. ASSUME NEW t \in rtx, NEW v \in Verdicts, DecideReviewTask(t, v)
       PROVE  TypeOK'
  <2>1. reviews[t.sub] \in SUBSET Review
    BY DEF ReviewTx
  <2>2. reviews[t.sub] \cup {NewReview(t, v)} \in SUBSET Review
    BY <1>17, <1>18, <2>1 DEF DecideReviewTask
  <2> QED
    BY <1>16, <1>18, <2>2 DEF DecideReviewTask
<1>19. ASSUME NEW t \in rtx, NEW v \in Verdicts, ReviseReviewTask(t, v)
       PROVE  TypeOK'
  <2>1. PICK x \in reviews[t.sub] :
          RecordReviews(t, (reviews[t.sub] \ {x}) \cup {NewReview(t, v)})
    BY <1>19 DEF ReviseReviewTask
  <2>2. reviews[t.sub] \in SUBSET Review
    BY DEF ReviewTx
  <2>3. (reviews[t.sub] \ {x}) \cup {NewReview(t, v)} \in SUBSET Review
    BY <1>17, <1>19, <2>2 DEF ReviseReviewTask
  <2> QED
    BY <1>16, <2>1, <2>3
<1>20. ASSUME NEW t \in rtx, ReviewAbort(t)
       PROVE  TypeOK'
  BY <1>20 DEF ReviewAbort, submissionVars, deskVars
<1>21. ASSUME NEW s \in Submissions, ForceReject(s)
       PROVE  TypeOK'
  <2>1. ASSUME NEW x \in reviews[s]
        PROVE  SuggestionClosed(x) \in Review
    <3>1. x \in Review
      OBVIOUS
    <3> QED
      BY <3>1 DEF Review, SuggestionClosed
  <2> QED
    BY <1>21, <2>1 DEF ForceReject, txVars
<1>27. ASSUME NEW s \in Submissions, NEW x \in Scores, ResolveClassification(s, x)
       PROVE  TypeOK'
  <2>1. ASSUME NEW y \in reviews[s]
        PROVE  SuggestionClosed(y) \in Review
    <3>1. y \in Review
      OBVIOUS
    <3> QED
      BY <3>1 DEF Review, SuggestionClosed
  <2> QED
    BY <1>27, <2>1 DEF ResolveClassification, txVars
<1>22. CASE UNCHANGED vars
  BY <1>22 DEF vars
<1>23. ASSUME NEW s \in Submissions, WorkerHandle(s)
       PROVE  TypeOK'
  BY <1>23, <1>6 DEF WorkerHandle
<1>24. ASSUME NEW includeAssigned \in BOOLEAN, RunDispatch(includeAssigned)
       PROVE  TypeOK'
  BY <1>24, <1>6 DEF RunDispatch, BatchTargets
<1>25. ASSUME NEW r \in Reviewers, HandoverDispatch(r)
       PROVE  TypeOK'
  BY <1>25, <1>7 DEF HandoverDispatch, OpenSeats
<1>26. ASSUME NEW r \in Reviewers, NEW w \in Row, ReassignSubmission(r, w)
       PROVE  TypeOK'
  BY <1>26, <1>7 DEF ReassignSubmission
<1> QED
  BY <1>1, <1>2, <1>3, <1>4, <1>5, <1>8, <1>9, <1>10, <1>11, <1>12, <1>13, <1>14,
     <1>15, <1>18, <1>19, <1>20, <1>21, <1>22, <1>23, <1>24, <1>25, <1>26, <1>27 DEF Next

\* The state of the review desk is well typed in every reachable state.
THEOREM Typing == Spec => []TypeOK
<1>1. Init => TypeOK
  BY DeskAssumption DEF Init, TypeOK
<1> QED
  BY <1>1, TypeStep, PTL DEF Spec

-----------------------------------------------------------------------------
(***************************************************************************)
(* The inductive invariant.  The seat side says what a running dispatch or *)
(* take-over may rely on although it holds no lock on the rows it read:    *)
(* the row it is going to close either is gone or still has the position   *)
(* it read, and the item still has a pair of seats unless it was deleted   *)
(* or overridden.                                                          *)
(***************************************************************************)

SeatOf(sub, id, pos) ==
  /\ \A x \in seats[sub] : x.id = id => x.pos = pos
  /\ status[sub] = "deleted" \/ forced[sub] \/ seats[sub] # {}

\* A batch brings both positions of an item, for two people.
BatchSound(t) ==
  /\ \A m \in t.plan :
       /\ m.old = NoSeat
       /\ \E n \in t.plan : n.sub = m.sub /\ n.pos = 1
       /\ \E n \in t.plan : n.sub = m.sub /\ n.pos = 2
  /\ \A m, n \in t.plan : m.sub = n.sub => (m.pos = n.pos <=> m.to = n.to)

\* The other transactions replace one seat of an item.
MovesSound(t) ==
  /\ \A m \in t.plan : SeatOf(m.sub, m.old, m.pos)
  /\ \A m, n \in t.plan : m.sub = n.sub => m = n

PlansSound ==
  /\ \A t, u \in dtx : t = u
  /\ \A t \in dtx :
       /\ \A m \in t.plan : m.to # Owner[m.sub]
       /\ t.kind \in {"fill", "rebalance"} => BatchSound(t)
       /\ t.kind \in {"handover", "reassign"} => MovesSound(t)

RowsSound ==
  \A t \in utx :
    /\ \A w \in t.rows : SeatOf(w.sub, w.id, w.pos)
    /\ \A w, v \in t.rows : w.sub = v.sub => w = v

SeatInv == SeatsPaired /\ PlansSound /\ RowsSound

\* An overridden item and an item with a score are decided.
Decided ==
  \A s \in Submissions : forced[s] \/ final[s] # NoScore => status[s] = "scored"

\* A posted conclusion expects two conclusions on its item.
Posted ==
  \A t \in rtx :
    /\ t.rev # Owner[t.sub]
    /\ t.seat # NoSeat /\ ~forced[t.sub] => t.expected = 2

ReviewInv == Decided /\ Posted /\ StatusCountsReviews /\ ScoreIsAgreed

DeskInv == TypeOK /\ NoSelfReview /\ SeatInv /\ ReviewInv

-----------------------------------------------------------------------------
\* Ids that rows and running transactions hold are not handed out again.
LEMMA HeldIdsLive ==
  /\ \A s \in Submissions : \A x \in seats[s] : x.id \in LiveIds
  /\ \A t \in dtx : \A m \in t.plan : m.old \in LiveIds
  /\ \A t \in utx : \A w \in t.rows : w.id \in LiveIds
BY Zenon DEF LiveIds

\* Seats that are kept and seats that are inserted under fresh ids, past the
\* unique indexes, do not collide.
LEMMA UniqueUnion ==
  ASSUME NEW K, UniqueSeats(K), NEW N, UniqueSeats(N),
         \A x \in K, y \in N : x.id # y.id /\ x.rev # y.rev /\ x.pos # y.pos
  PROVE  UniqueSeats(K \cup N)
BY DEF UniqueSeats

\* A step that leaves seats and plans alone and neither restores a deleted
\* nor an overridden item keeps the seat invariant.
LEMMA SeatFrame ==
  ASSUME SeatInv, UNCHANGED <<seats, dtx, utx>>,
         TypeOK,
         \A s \in Submissions : /\ status[s] = "deleted" => status'[s] = "deleted"
                                /\ forced[s] => forced'[s]
  PROVE  SeatInv'
<1>1. SeatsPaired'
  BY DEF SeatInv, SeatsPaired
<1>2. ASSUME NEW sub \in Submissions, NEW id, NEW pos, SeatOf(sub, id, pos)
      PROVE  SeatOf(sub, id, pos)'
  BY <1>2 DEF SeatOf
<1>3. PlansSound'
  <2>1. ASSUME NEW t \in dtx, MovesSound(t)
        PROVE  MovesSound(t)'
    BY <1>2, <2>1 DEF MovesSound, TypeOK, DispatchTx, Move
  <2>2. ASSUME NEW t \in dtx, BatchSound(t)
        PROVE  BatchSound(t)'
    BY <2>2 DEF BatchSound
  <2> QED
    BY <2>1, <2>2 DEF SeatInv, PlansSound
<1>4. RowsSound'
  BY <1>2 DEF SeatInv, RowsSound, TypeOK, TakeoverTx, Row
<1> QED
  BY <1>1, <1>3, <1>4 DEF SeatInv

\* Starting a batch: two different candidates for each item, none its owner.
LEMMA BeginBatchSeats ==
  ASSUME TypeOK, SeatInv, NEW kind \in {"auto", "manual", "rebalance"},
         NEW targets \in SUBSET Submissions, BeginBatch(kind, targets)
  PROVE  SeatInv'
<1> DEFINE fit == {s \in targets : \E a, b \in BatchCandidates(kind, s) : a # b}
<1>1. PICK pair \in [fit -> [{1, 2} -> Reviewers]] :
        /\ \A s \in fit : /\ pair[s][1] \in BatchCandidates(kind, s)
                          /\ pair[s][2] \in BatchCandidates(kind, s)
                          /\ pair[s][1] # pair[s][2]
        /\ dtx' = {[kind |-> IF kind = "rebalance" THEN kind ELSE "fill",
                    plan |-> BatchPlan(fit, pair)]}
  BY DEF BeginBatch
<1> HIDE DEF fit
<1>2. PICK t \in dtx' :
        dtx' = {t} /\ t.plan = BatchPlan(fit, pair) /\ t.kind \in {"fill", "rebalance"}
  BY <1>1
<1>3. ASSUME NEW m \in t.plan
      PROVE  m.to # Owner[m.sub] /\ m.old = NoSeat
  BY <1>1, <1>2, <1>3 DEF BatchPlan, BatchCandidates
<1>4. BatchSound(t)
  <2>1. ASSUME NEW m \in t.plan, NEW p \in {1, 2}
        PROVE  \E n \in t.plan : n.sub = m.sub /\ n.pos = p
    <3>1. m.sub \in fit
      BY <1>2, <2>1 DEF BatchPlan
    <3>2. [sub |-> m.sub, pos |-> p, to |-> pair[m.sub][p], old |-> NoSeat] \in t.plan
      BY <1>2, <3>1 DEF BatchPlan
    <3> QED
      BY <3>2
  <2>2. ASSUME NEW m \in t.plan, NEW n \in t.plan, m.sub = n.sub
        PROVE  m.pos = n.pos <=> m.to = n.to
    BY <1>1, <1>2, <2>2 DEF BatchPlan
  <2> QED
    BY <1>3, <2>1, <2>2 DEF BatchSound
<1>5. PlansSound'
  <2>1. BatchSound(t)'
    BY <1>4 DEF BatchSound
  <2>2. t.kind \notin {"handover", "reassign"}
    BY <1>2
  <2> QED
    BY <1>2, <1>3, <2>1, <2>2 DEF PlansSound
<1>6. UNCHANGED <<status, forced, seats, utx>>
  BY DEF BeginBatch, submissionVars, deskVars
<1> QED
  BY <1>5, <1>6 DEF SeatInv, SeatsPaired, RowsSound, SeatOf

\* Open seats are one per item, and each is a seat of its item.
LEMMA OpenSeatsSound ==
  ASSUME TypeOK, SeatInv, NEW r \in Reviewers, NEW statuses, "deleted" \notin statuses
  PROVE  /\ \A w \in OpenSeats(r, statuses) : SeatOf(w.sub, w.id, w.pos)
         /\ \A w, v \in OpenSeats(r, statuses) : w.sub = v.sub => w = v
<1>1. ASSUME NEW w \in OpenSeats(r, statuses)
      PROVE  /\ w \in Row
             /\ [id |-> w.id, rev |-> r, pos |-> w.pos] \in seats[w.sub]
  BY DEF OpenSeats
<1>2. ASSUME NEW w \in OpenSeats(r, statuses)
      PROVE  SeatOf(w.sub, w.id, w.pos)
  <2> DEFINE y == [id |-> w.id, rev |-> r, pos |-> w.pos]
  <2>1. w.sub \in Submissions /\ y \in seats[w.sub]
    BY <1>1 DEF Row
  <2>2. ASSUME NEW x \in seats[w.sub], x.id = w.id
        PROVE  x.pos = w.pos
    <3>1. x = y
      BY <2>1, <2>2 DEF SeatInv, SeatsPaired, UniqueSeats
    <3> QED
      BY <3>1
  <2> QED
    BY <2>1, <2>2 DEF SeatOf
<1>3. ASSUME NEW w \in OpenSeats(r, statuses), NEW v \in OpenSeats(r, statuses), w.sub = v.sub
      PROVE  w = v
  <2>1. /\ w \in Row /\ v \in Row
        /\ [id |-> w.id, rev |-> r, pos |-> w.pos] \in seats[w.sub]
        /\ [id |-> v.id, rev |-> r, pos |-> v.pos] \in seats[w.sub]
    BY <1>1, <1>3
  <2>2. [id |-> w.id, rev |-> r, pos |-> w.pos] = [id |-> v.id, rev |-> r, pos |-> v.pos]
    BY <2>1 DEF SeatInv, SeatsPaired, UniqueSeats, Row
  <2>3. w.id = v.id /\ w.pos = v.pos
    BY <2>2
  <2> QED
    BY <1>3, <2>1, <2>3 DEF Row
<1> QED
  BY <1>2, <1>3

\* Starting a hand-over or a reassignment.
LEMMA BeginMovesSeats ==
  ASSUME TypeOK, SeatInv, NEW kind \in {"handover", "reassign"}, NEW r \in Reviewers,
         NEW statuses, "deleted" \notin statuses,
         NEW rows \in SUBSET OpenSeats(r, statuses), BeginMoves(kind, rows)
  PROVE  SeatInv'
<1>1. PICK to \in [rows -> Reviewers] :
        /\ \A w \in rows : to[w] \in Takers(w.sub)
        /\ dtx' = {[kind |-> kind,
                    plan |-> {[sub |-> w.sub, pos |-> w.pos, to |-> to[w], old |-> w.id]
                              : w \in rows}]}
  BY DEF BeginMoves
<1> DEFINE t == [kind |-> kind,
                 plan |-> {[sub |-> w.sub, pos |-> w.pos, to |-> to[w], old |-> w.id]
                           : w \in rows}]
<1>2. /\ dtx' = {t} /\ t.kind = kind
      /\ t.plan = {[sub |-> w.sub, pos |-> w.pos, to |-> to[w], old |-> w.id]
                   : w \in rows}
  BY <1>1
<1> HIDE DEF t
<1>3. ASSUME NEW m \in t.plan
      PROVE  \E w \in rows : m = [sub |-> w.sub, pos |-> w.pos, to |-> to[w], old |-> w.id]
  BY <1>2
<1>4. \A m \in t.plan : m.to # Owner[m.sub]
  BY <1>1, <1>3 DEF Takers
<1>5. MovesSound(t)
  BY <1>3, OpenSeatsSound DEF MovesSound
<1>6. UNCHANGED <<status, forced, seats, utx>>
  BY DEF BeginMoves, submissionVars, deskVars
<1>7. PlansSound'
  BY <1>2, <1>4, <1>5, <1>6 DEF PlansSound, MovesSound, SeatOf
<1> QED
  BY <1>6, <1>7 DEF SeatInv, SeatsPaired, RowsSound, SeatOf

\* What a commit that closes some seats of each item and inserts others under
\* fresh ids has to show: K(s) stays, N(s) is new.
LEMMA SeatChange ==
  ASSUME TypeOK, SeatInv, UNCHANGED <<status, forced>>,
         NEW K, NEW N,
         seats' = [s \in Submissions |-> K[s] \cup N[s]],
         \A s \in Submissions :
           /\ K[s] \subseteq seats[s]
           /\ UniqueSeats(N[s])
           /\ \A y \in N[s] : y.id \notin LiveIds
           /\ \A x \in K[s], y \in N[s] : x.rev # y.rev /\ x.pos # y.pos
           /\ ~forced[s] /\ (seats[s] # {} \/ K[s] \cup N[s] # {}) =>
                BothPositions(K[s] \cup N[s])
  PROVE  /\ SeatsPaired'
         /\ \A sub \in Submissions, id \in LiveIds, pos \in {1, 2} :
              SeatOf(sub, id, pos) => SeatOf(sub, id, pos)'
<1>1. ASSUME NEW s \in Submissions
      PROVE  UniqueSeats(seats'[s])
  <2>1. UniqueSeats(K[s])
    BY DEF SeatInv, SeatsPaired, UniqueSeats
  <2>2. \A x \in K[s], y \in N[s] : x.id # y.id
    BY HeldIdsLive
  <2>3. UniqueSeats(K[s] \cup N[s])
    BY <2>1, <2>2, UniqueUnion
  <2> QED
    BY <2>3
<1>2. ASSUME NEW s \in Submissions, ~forced[s], seats'[s] # {}
      PROVE  BothPositions(seats'[s])
  <2>1. seats'[s] = K[s] \cup N[s]
    OBVIOUS
  <2> QED
    BY <1>2, <2>1
<1>3. SeatsPaired'
  BY <1>1, <1>2 DEF SeatsPaired
<1>4. ASSUME NEW sub \in Submissions, NEW id \in LiveIds, NEW pos \in {1, 2},
             SeatOf(sub, id, pos)
      PROVE  SeatOf(sub, id, pos)'
  <2>1. \A x \in seats'[sub] : x.id = id => x.pos = pos
    BY <1>4 DEF SeatOf
  <2>2. status[sub] = "deleted" \/ forced[sub] \/ seats'[sub] # {}
    BY <1>4 DEF SeatOf, BothPositions
  <2> QED
    BY <2>1, <2>2 DEF SeatOf
<1> QED
  BY <1>3, <1>4

\* The commit of a dispatch under the class lock.
LEMMA DispatchCommitSeats ==
  ASSUME TypeOK, NoSelfReview, SeatInv, DispatchCommit
  PROVE  SeatInv'
<1>1. PICK t \in dtx :
        /\ \A m \in t.plan : Insertable(SeatsAfterClear(t, m.sub), m.sub, m.pos, m.to)
        /\ FreshIds(t.plan) # {}
        /\ seats' = [s \in Submissions |->
                   SeatsAfterClear(t, s) \cup
                   {[id |-> NewIds(t.plan)[m], rev |-> m.to, pos |-> m.pos] :
                      m \in {n \in t.plan : n.sub = s}}]
  BY DEF DispatchCommit
<1> DEFINE K == [s \in Submissions |-> SeatsAfterClear(t, s)]
           N == [s \in Submissions |->
                   {[id |-> NewIds(t.plan)[m], rev |-> m.to, pos |-> m.pos] :
                      m \in {n \in t.plan : n.sub = s}}]
<1>2. t \in DispatchTx /\ t.plan \subseteq Move
  BY DEF TypeOK, DispatchTx
<1>3. /\ NewIds(t.plan) \in [t.plan -> SeatIds \ LiveIds]
      /\ \A a, b \in t.plan : NewIds(t.plan)[a] = NewIds(t.plan)[b] => a = b
  BY <1>1, NewIdsFresh
<1>4. /\ t.kind \in {"fill", "rebalance"} => BatchSound(t)
      /\ t.kind \in {"handover", "reassign"} => MovesSound(t)
  BY DEF SeatInv, PlansSound
<1>5. ASSUME NEW s \in Submissions
      PROVE  KeptSeats(s) = seats[s]
  BY DEF KeptSeats, NoSelfReview, SeatedAt
<1>6. ASSUME NEW s \in Submissions
      PROVE  K[s] \subseteq seats[s]
  BY <1>5 DEF SeatsAfterClear
<1>7. ASSUME NEW s \in Submissions, NEW y \in N[s]
      PROVE  \E m \in t.plan : /\ m.sub = s
                               /\ y = [id |-> NewIds(t.plan)[m], rev |-> m.to, pos |-> m.pos]
  BY <1>7
<1>8. ASSUME NEW s \in Submissions, NEW m \in t.plan, m.sub = s
      PROVE  [id |-> NewIds(t.plan)[m], rev |-> m.to, pos |-> m.pos] \in N[s]
  BY <1>8
<1>9. ASSUME NEW s \in Submissions, NEW m \in t.plan, m.sub = s
      PROVE  /\ status[s] # "deleted"
             /\ \A x \in K[s] : x.pos # m.pos /\ x.rev # m.to
  BY <1>1, <1>9 DEF Insertable
<1>10. seats' = [s \in Submissions |-> K[s] \cup N[s]]
  BY <1>1
<1> HIDE DEF N
<1>11. ASSUME NEW s \in Submissions
       PROVE  UniqueSeats(N[s])
  <2> SUFFICES ASSUME NEW x \in N[s], NEW y \in N[s],
                      x.id = y.id \/ x.rev = y.rev \/ x.pos = y.pos
               PROVE  x = y
    BY DEF UniqueSeats
  <2>1. PICK m \in t.plan : m.sub = s /\ x = [id |-> NewIds(t.plan)[m], rev |-> m.to, pos |-> m.pos]
    BY <1>7
  <2>2. PICK n \in t.plan : n.sub = s /\ y = [id |-> NewIds(t.plan)[n], rev |-> n.to, pos |-> n.pos]
    BY <1>7
  <2>3. x.id = NewIds(t.plan)[m] /\ x.rev = m.to /\ x.pos = m.pos
    BY <2>1
  <2>4. y.id = NewIds(t.plan)[n] /\ y.rev = n.to /\ y.pos = n.pos
    BY <2>2
  <2>5. CASE t.kind \in {"fill", "rebalance"}
    <3>1. /\ m.sub = n.sub /\ m.old = n.old
          /\ m.pos = n.pos <=> m.to = n.to
      <4>1. BatchSound(t)
        BY <1>4, <2>5
      <4>2. m.sub = n.sub
        BY <2>1, <2>2
      <4>3. m.old = NoSeat /\ n.old = NoSeat
        BY <4>1, Zenon DEF BatchSound
      <4>4. m.pos = n.pos <=> m.to = n.to
        BY <4>1, <4>2 DEF BatchSound
      <4> QED
        BY <4>2, <4>3, <4>4
    <3>2. CASE NewIds(t.plan)[m] = NewIds(t.plan)[n]
      BY <1>3, <2>1, <2>2, <3>2
    <3>3. CASE m.pos = n.pos /\ m.to = n.to /\ m.old = n.old
      <4>1. m \in Move /\ n \in Move
        BY <1>2
      <4>2. m = n
        BY <3>1, <3>3, <4>1 DEF Move
      <4> QED
        BY <2>1, <2>2, <4>2
    <3> QED
      BY <2>3, <2>4, <3>1, <3>2, <3>3
  <2>6. CASE t.kind \in {"handover", "reassign"}
    <3>1. m = n
      BY <1>4, <2>1, <2>2, <2>6 DEF MovesSound
    <3> QED
      BY <2>1, <2>2, <3>1
  <2> QED
    BY <1>2, <2>5, <2>6 DEF DispatchTx
<1>12. ASSUME NEW s \in Submissions, NEW y \in N[s]
       PROVE  y.id \notin LiveIds
  BY <1>3, <1>7
<1>13. ASSUME NEW s \in Submissions, NEW x \in K[s], NEW y \in N[s]
       PROVE  x.rev # y.rev /\ x.pos # y.pos
  BY <1>7, <1>9
<1>14. ASSUME NEW s \in Submissions, \A m \in t.plan : m.sub # s
       PROVE  K[s] = seats[s] /\ N[s] = {}
  BY <1>5, <1>7, <1>14 DEF SeatsAfterClear
<1>15. ASSUME NEW s \in Submissions, NEW m \in t.plan, m.sub = s,
              ~forced[s], seats[s] # {} \/ t.kind \in {"fill", "rebalance"}
       PROVE  BothPositions(K[s] \cup N[s])
  <2>1. CASE t.kind \in {"fill", "rebalance"}
    <3>1. PICK m1 \in t.plan : m1.sub = s /\ m1.pos = 1
      BY <1>4, <1>15, <2>1 DEF BatchSound
    <3>2. PICK m2 \in t.plan : m2.sub = s /\ m2.pos = 2
      BY <1>4, <1>15, <2>1 DEF BatchSound
    <3>3. \E y \in N[s] : y.pos = 1
      BY <1>8, <3>1
    <3>4. \E y \in N[s] : y.pos = 2
      BY <1>8, <3>2
    <3> QED
      BY <3>3, <3>4 DEF BothPositions
  <2>2. CASE t.kind \in {"handover", "reassign"}
    <3>1. SeatOf(m.sub, m.old, m.pos) /\ \A n \in t.plan : n.sub = s => n = m
      BY <1>4, <1>15, <2>2 DEF MovesSound
    <3>2. UniqueSeats(seats[s]) /\ BothPositions(seats[s])
      BY <1>15, <2>2 DEF SeatInv, SeatsPaired
    <3>3. \A y \in seats[s] : y.id # m.old => y \in K[s]
      BY <1>15, <2>2, <3>1 DEF SeatsAfterClear
    <3>4. \A y \in seats[s] : y.id = m.old => y.pos = m.pos
      BY <1>15, <3>1 DEF SeatOf
    <3>6. \E n \in N[s] : n.pos = m.pos
      BY <1>8, <1>15
    <3>7. m.pos \in {1, 2}
      BY <1>2 DEF Move
    <3> QED
      BY <3>2, <3>3, <3>4, <3>6, <3>7 DEF BothPositions
  <2> QED
    BY <1>2, <2>1, <2>2 DEF DispatchTx
<1>16. ASSUME NEW s \in Submissions, NEW m \in t.plan, m.sub = s, ~forced[s],
              t.kind \in {"handover", "reassign"}
       PROVE  seats[s] # {}
  BY <1>4, <1>9, <1>16 DEF MovesSound, SeatOf
<1>17. ASSUME NEW s \in Submissions, ~forced[s], K[s] \cup N[s] # {} \/ seats[s] # {}
       PROVE  BothPositions(K[s] \cup N[s])
  <2>1. CASE \E m \in t.plan : m.sub = s
    BY <1>2, <1>15, <1>16, <1>17, <2>1 DEF DispatchTx
  <2>2. CASE \A m \in t.plan : m.sub # s
    <3>1. K[s] \cup N[s] = seats[s]
      BY <1>14, <2>2
    <3> QED
      BY <1>17, <3>1 DEF SeatInv, SeatsPaired
  <2> QED
    BY <2>1, <2>2
<1> HIDE DEF K
<1>18. UNCHANGED <<status, forced, utx>> /\ dtx' = {}
  BY DEF DispatchCommit, submissionVars
<1>19. /\ SeatsPaired'
       /\ \A sub \in Submissions, id \in LiveIds, pos \in {1, 2} :
            SeatOf(sub, id, pos) => SeatOf(sub, id, pos)'
  BY <1>6, <1>10, <1>11, <1>12, <1>13, <1>17, <1>18, SeatChange
<1>20. RowsSound'
  BY <1>18, <1>19, HeldIdsLive DEF SeatInv, RowsSound, TypeOK, TakeoverTx, Row
<1> QED
  BY <1>18, <1>19, <1>20 DEF SeatInv, PlansSound

\* The commit of a take-over, which runs beside the class lock.
LEMMA TakeoverCommitSeats ==
  ASSUME TypeOK, SeatInv, NEW t \in utx, TakeoverCommit(t)
  PROVE  SeatInv'
<1>1. PICK pick \in [t.rows -> Reviewers \cup {NoOne}] :
        LET moved == {w \in t.rows : pick[w] # NoOne}
            kept(s) == {x \in seats[s] : \A w \in moved : w.sub = s => w.id # x.id}
        IN /\ \A w \in moved : Insertable(kept(w.sub), w.sub, w.pos, pick[w])
           /\ FreshIds(moved) # {}
           /\ seats' = [s \in Submissions |->
                          kept(s) \cup
                          {[id |-> NewIds(moved)[w], rev |-> pick[w], pos |-> w.pos] :
                             w \in {n \in moved : n.sub = s}}]
  BY DEF TakeoverCommit
<1> DEFINE moved == {w \in t.rows : pick[w] # NoOne}
           K == [s \in Submissions |->
                   {x \in seats[s] : \A w \in moved : w.sub = s => w.id # x.id}]
           N == [s \in Submissions |->
                   {[id |-> NewIds(moved)[w], rev |-> pick[w], pos |-> w.pos] :
                      w \in {n \in moved : n.sub = s}}]
<1>2. moved \subseteq t.rows /\ t.rows \subseteq Row
  BY DEF TypeOK, TakeoverTx
<1>3. FreshIds(moved) # {}
  BY <1>1
<1>4. \A w \in moved : Insertable(K[w.sub], w.sub, w.pos, pick[w])
  BY <1>1, <1>2 DEF Row
<1>5. seats' = [s \in Submissions |-> K[s] \cup N[s]]
  BY <1>1
<1> HIDE DEF moved
<1>6. /\ NewIds(moved) \in [moved -> SeatIds \ LiveIds]
      /\ \A a, b \in moved : NewIds(moved)[a] = NewIds(moved)[b] => a = b
  BY <1>3, NewIdsFresh
<1>7. /\ \A w \in moved : SeatOf(w.sub, w.id, w.pos)
      /\ \A w, v \in moved : w.sub = v.sub => w = v
  BY <1>2 DEF SeatInv, RowsSound
<1>8. ASSUME NEW s \in Submissions
      PROVE  K[s] \subseteq seats[s]
  OBVIOUS
<1>9. ASSUME NEW s \in Submissions, NEW y \in N[s]
      PROVE  \E w \in moved : /\ w.sub = s
                              /\ y = [id |-> NewIds(moved)[w], rev |-> pick[w], pos |-> w.pos]
  BY <1>9
<1>10. ASSUME NEW s \in Submissions, NEW w \in moved, w.sub = s
       PROVE  [id |-> NewIds(moved)[w], rev |-> pick[w], pos |-> w.pos] \in N[s]
  BY <1>10
<1>11. ASSUME NEW s \in Submissions, NEW w \in moved, w.sub = s
       PROVE  /\ status[s] # "deleted"
              /\ \A x \in K[s] : x.pos # w.pos /\ x.rev # pick[w]
  BY <1>4, <1>11 DEF Insertable
<1>12. ASSUME NEW s \in Submissions, NEW w \in moved, w.sub = s,
              NEW y \in seats[s], y.id # w.id
       PROVE  y \in K[s]
  BY <1>7, <1>12
<1>13. ASSUME NEW s \in Submissions, \A w \in moved : w.sub # s
       PROVE  K[s] = seats[s] /\ N[s] = {}
  BY <1>13
<1> HIDE DEF K, N
<1>14. ASSUME NEW s \in Submissions
       PROVE  UniqueSeats(N[s])
  <2>1. ASSUME NEW x \in N[s], NEW y \in N[s]
        PROVE  x = y
    BY <1>7, <1>9
  <2> QED
    BY <2>1 DEF UniqueSeats
<1>15. ASSUME NEW s \in Submissions, NEW y \in N[s]
       PROVE  y.id \notin LiveIds
  BY <1>6, <1>9
<1>16. ASSUME NEW s \in Submissions, NEW x \in K[s], NEW y \in N[s]
       PROVE  x.rev # y.rev /\ x.pos # y.pos
  BY <1>9, <1>11
<1>17. ASSUME NEW s \in Submissions, ~forced[s], seats[s] # {} \/ K[s] \cup N[s] # {}
       PROVE  BothPositions(K[s] \cup N[s])
  <2>1. ASSUME NEW w \in moved, w.sub = s
        PROVE  BothPositions(K[s] \cup N[s])
    <3>1. seats[s] # {}
      BY <1>7, <1>11, <1>17, <2>1 DEF SeatOf
    <3>7. \A y \in seats[s] : y.id = w.id => y.pos = w.pos
      BY <1>7, <2>1 DEF SeatOf
    <3>2. UniqueSeats(seats[s]) /\ BothPositions(seats[s])
      BY <1>17, <3>1 DEF SeatInv, SeatsPaired
    <3>3. \A y \in seats[s] : y.id # w.id => y \in K[s]
      BY <1>12, <2>1
    <3>5. \E n \in N[s] : n.pos = w.pos
      BY <1>10, <2>1
    <3>6. w.pos \in {1, 2}
      BY <1>2 DEF Row
    <3> QED
      BY <3>2, <3>3, <3>5, <3>6, <3>7 DEF BothPositions
  <2>2. CASE \A w \in moved : w.sub # s
    <3>1. K[s] \cup N[s] = seats[s]
      BY <1>13, <2>2
    <3> QED
      BY <1>17, <3>1 DEF SeatInv, SeatsPaired
  <2> QED
    BY <2>1, <2>2
<1>18. UNCHANGED <<status, forced, dtx>> /\ utx' = utx \ {t}
  BY DEF TakeoverCommit, submissionVars
<1>19. /\ SeatsPaired'
       /\ \A sub \in Submissions, id \in LiveIds, pos \in {1, 2} :
            SeatOf(sub, id, pos) => SeatOf(sub, id, pos)'
  BY <1>5, <1>8, <1>14, <1>15, <1>16, <1>17, <1>18, SeatChange
<1>20. RowsSound'
  BY <1>18, <1>19, HeldIdsLive DEF SeatInv, RowsSound, TypeOK, TakeoverTx, Row
<1>21. PlansSound'
  <2>1. ASSUME NEW d \in dtx, MovesSound(d)
        PROVE  MovesSound(d)'
    BY <1>19, <2>1, HeldIdsLive DEF MovesSound, TypeOK, DispatchTx, Move
  <2>2. ASSUME NEW d \in dtx, BatchSound(d)
        PROVE  BatchSound(d)'
    BY <2>2 DEF BatchSound
  <2> QED
    BY <1>18, <2>1, <2>2 DEF SeatInv, PlansSound
<1> QED
  BY <1>19, <1>20, <1>21 DEF SeatInv

\* Emptying the seats of an item that is deleted or overridden.
LEMMA SeatsEmptied ==
  ASSUME TypeOK, SeatInv, NEW s \in Submissions,
         UNCHANGED <<dtx, utx>>, seats' = [seats EXCEPT ![s] = {}],
         \/ status' = [status EXCEPT ![s] = "deleted"] /\ forced' = forced
         \/ status[s] # "deleted" /\ status' = [status EXCEPT ![s] = "scored"]
            /\ forced' = [forced EXCEPT ![s] = TRUE]
  PROVE  SeatInv'
<1>1. SeatsPaired'
  BY DEF SeatInv, SeatsPaired, UniqueSeats, TypeOK
<1>2. ASSUME NEW sub \in Submissions, NEW id, NEW pos, SeatOf(sub, id, pos)
      PROVE  SeatOf(sub, id, pos)'
  BY <1>2 DEF SeatOf, TypeOK
<1>3. PlansSound'
  <2>1. ASSUME NEW t \in dtx, MovesSound(t)
        PROVE  MovesSound(t)'
    BY <1>2, <2>1 DEF MovesSound, TypeOK, DispatchTx, Move
  <2>2. ASSUME NEW t \in dtx, BatchSound(t)
        PROVE  BatchSound(t)'
    BY <2>2 DEF BatchSound
  <2> QED
    BY <2>1, <2>2 DEF SeatInv, PlansSound
<1>4. RowsSound'
  BY <1>2 DEF SeatInv, RowsSound, TypeOK, TakeoverTx, Row
<1> QED
  BY <1>1, <1>3, <1>4 DEF SeatInv

\* The seat side of the inductive step.
LEMMA SeatStep == TypeOK /\ NoSelfReview /\ SeatInv /\ [Next]_vars => SeatInv'
<1> SUFFICES ASSUME TypeOK, NoSelfReview, SeatInv, [Next]_vars
             PROVE  SeatInv'
  OBVIOUS
<1>1. ASSUME NEW s \in Submissions,
             \/ CreateSubmission(s) \/ UpdateSubmission(s)
             \/ SubmitSubmission(s) \/ WithdrawSubmission(s)
      PROVE  SeatInv'
  <2>1. UNCHANGED <<seats, dtx, utx, forced>>
    BY <1>1 DEF CreateSubmission, UpdateSubmission, SubmitSubmission, WithdrawSubmission,
                deskVars, txVars
  <2>2. \A x \in Submissions : status[x] = "deleted" => status'[x] = "deleted"
    BY <1>1 DEF TypeOK, CreateSubmission, UpdateSubmission, SubmitSubmission, WithdrawSubmission
  <2> QED
    BY <2>1, <2>2, SeatFrame
<1>2. ASSUME NEW s \in Submissions, DeleteSubmission(s) \/ ForceReject(s)
      PROVE  SeatInv'
  <2>1. CASE DeleteSubmission(s)
    <3>1. /\ UNCHANGED <<dtx, utx, forced>>
          /\ seats' = [seats EXCEPT ![s] = {}]
          /\ status' = [status EXCEPT ![s] = "deleted"]
      BY <2>1 DEF DeleteSubmission, txVars
    <3> QED
      BY <3>1, SeatsEmptied
  <2>2. CASE ForceReject(s)
    <3>1. /\ UNCHANGED <<dtx, utx>>
          /\ seats' = [seats EXCEPT ![s] = {}]
          /\ status[s] # "deleted"
          /\ status' = [status EXCEPT ![s] = "scored"]
          /\ forced' = [forced EXCEPT ![s] = TRUE]
      BY <2>2 DEF ForceReject, txVars
    <3> QED
      BY <3>1, SeatsEmptied
  <2> QED
    BY <1>2, <2>1, <2>2
<1>3. ASSUME NEW s \in Submissions, WorkerHandle(s)
      PROVE  SeatInv'
  BY <1>3, BeginBatchSeats DEF WorkerHandle
<1>4. ASSUME NEW includeAssigned \in BOOLEAN, RunDispatch(includeAssigned)
      PROVE  SeatInv'
  <2>1. \A kind : BatchTargets(kind) \in SUBSET Submissions
    BY DEF BatchTargets
  <2> QED
    BY <1>4, <2>1, BeginBatchSeats DEF RunDispatch
<1> DEFINE active == {"pending", "consensus", "scored", "arbitrating"}
<1>5. ASSUME NEW r \in Reviewers, HandoverDispatch(r)
      PROVE  SeatInv'
  <2>1. BeginMoves("handover", OpenSeats(r, active))
    BY <1>5 DEF HandoverDispatch
  <2> QED
    BY <2>1, BeginMovesSeats
<1>6. ASSUME NEW r \in Reviewers, NEW w \in Row, ReassignSubmission(r, w)
      PROVE  SeatInv'
  <2>1. {w} \in SUBSET OpenSeats(r, active) /\ BeginMoves("reassign", {w})
    BY <1>6 DEF ReassignSubmission
  <2> QED
    BY <2>1, BeginMovesSeats
<1>7. CASE DispatchCommit
  BY <1>7, DispatchCommitSeats
<1>8. CASE DispatchAbort
  BY <1>8 DEF DispatchAbort, submissionVars, deskVars, SeatInv, SeatsPaired, PlansSound,
              RowsSound, SeatOf
<1>9. ASSUME NEW r \in Leavers, NEW d \in {"paused", "off"}, TakeoverBegin(r, d)
      PROVE  SeatInv'
  <2>1. UNCHANGED <<status, forced, seats, dtx>>
    BY <1>9 DEF TakeoverBegin, submissionVars, deskVars
  <2>2. r \in Reviewers
    BY DeskAssumption
  <2> DEFINE rows == OpenSeats(r, {"pending", "consensus"})
  <2>3. utx' = utx \cup {[rev |-> r, duty |-> d, rows |-> rows]}
    BY <1>9 DEF TakeoverBegin
  <2>4. /\ \A w \in rows : SeatOf(w.sub, w.id, w.pos)
        /\ \A w, v \in rows : w.sub = v.sub => w = v
    BY <2>2, OpenSeatsSound
  <2> HIDE DEF rows
  <2>5. RowsSound'
    BY <2>1, <2>3, <2>4 DEF SeatInv, RowsSound, SeatOf
  <2> QED
    BY <2>1, <2>5 DEF SeatInv, SeatsPaired, PlansSound, BatchSound, MovesSound, SeatOf
<1>10. ASSUME NEW t \in utx, TakeoverCommit(t)
       PROVE  SeatInv'
  BY <1>10, TakeoverCommitSeats
<1>11. ASSUME NEW t \in utx, TakeoverAbort(t)
       PROVE  SeatInv'
  BY <1>11 DEF TakeoverAbort, submissionVars, deskVars, SeatInv, SeatsPaired, PlansSound,
               BatchSound, MovesSound, RowsSound, SeatOf
<1>12. ASSUME UNCHANGED <<status, forced, seats, dtx, utx>>
       PROVE  SeatInv'
  BY <1>12, SeatFrame
<1>13. ASSUME NEW r \in Reviewers, NEW s \in Submissions, OpenTask(r, s)
       PROVE  SeatInv'
  BY <1>12, <1>13 DEF OpenTask, submissionVars, deskVars, txVars
<1>14. ASSUME NEW t \in rtx, PostReview(t) \/ ReviewAbort(t)
       PROVE  SeatInv'
  BY <1>12, <1>14 DEF PostReview, ReviewAbort, submissionVars, deskVars
<1>15. ASSUME NEW t \in rtx, NEW v \in Verdicts, DecideReviewTask(t, v) \/ ReviseReviewTask(t, v)
       PROVE  SeatInv'
  <2>1. PICK results : RecordReviews(t, results) /\ status[t.sub] \in {"pending", "consensus"}
    BY <1>15 DEF DecideReviewTask, ReviseReviewTask
  <2>2. UNCHANGED <<seats, dtx, utx, forced>>
    BY <2>1 DEF RecordReviews
  <2>3. \A x \in Submissions : status[x] = "deleted" => status'[x] = "deleted"
    BY <2>1 DEF TypeOK, RecordReviews
  <2> QED
    BY <2>2, <2>3, SeatFrame
<1>16. ASSUME NEW r \in Reviewers, Return(r)
       PROVE  SeatInv'
  BY <1>12, <1>16 DEF Return, submissionVars, deskVars, txVars
<1>17. CASE UNCHANGED vars
  BY <1>12, <1>17 DEF vars
<1>18. ASSUME NEW s \in Submissions, NEW x \in Scores, ResolveClassification(s, x)
       PROVE  SeatInv'
  <2>1. UNCHANGED <<seats, dtx, utx, forced>>
    BY <1>18 DEF ResolveClassification, txVars
  <2>2. \A y \in Submissions : status[y] = "deleted" => status'[y] = "deleted"
    BY <1>18 DEF TypeOK, ResolveClassification
  <2> QED
    BY <2>1, <2>2, SeatFrame
<1> QED
  BY <1>1, <1>2, <1>3, <1>4, <1>5, <1>6, <1>7, <1>8, <1>9, <1>10, <1>11, <1>13, <1>14,
     <1>15, <1>16, <1>17, <1>18 DEF Next

-----------------------------------------------------------------------------
\* Two different conclusions are two conclusions.
LEMMA PairCardinality ==
  ASSUME NEW x, NEW y, x # y
  PROVE  Cardinality({x}) = 1 /\ Cardinality({x, y}) = 2
<1>1. IsFiniteSet({x}) /\ Cardinality({x}) = 1
  BY FS_Singleton
<1>2. Cardinality({x} \cup {y}) = 2
  BY <1>1, FS_AddElement
<1>3. {x} \cup {y} = {x, y}
  OBVIOUS
<1> QED
  BY <1>1, <1>2, <1>3

\* A pair of seats means two expected conclusions.
LEMMA PairedSeats ==
  ASSUME NEW S \in SUBSET Seat, UniqueSeats(S), BothPositions(S)
  PROVE  Cardinality(S) = 2
<1>1. PICK x \in S, y \in S : x.pos = 1 /\ y.pos = 2
  BY DEF BothPositions
<1>2. \A z \in S : z.pos \in {1, 2}
  BY DEF Seat
<1>3. S = {x, y} /\ x # y
  BY <1>1, <1>2 DEF UniqueSeats
<1> QED
  BY <1>3, PairCardinality

\* Nobody gets a seat on, or concludes on, an item of their own.
LEMMA SelfStep ==
  TypeOK /\ NoSelfReview /\ SeatInv /\ Posted /\ [Next]_vars => NoSelfReview'
<1> SUFFICES ASSUME TypeOK, NoSelfReview, SeatInv, Posted, [Next]_vars
             PROVE  NoSelfReview'
  OBVIOUS
<1>1. ASSUME UNCHANGED <<seats, reviews>>
      PROVE  NoSelfReview'
  BY <1>1 DEF NoSelfReview, SeatedAt, ReviewedBy
<1>2. ASSUME UNCHANGED reviews, \A s \in Submissions : \A x \in seats'[s] : x.rev # Owner[s]
      PROVE  NoSelfReview'
  BY <1>2 DEF NoSelfReview, SeatedAt, ReviewedBy
<1>3. \A s \in Submissions : \A x \in seats[s] : x.rev # Owner[s]
  BY DEF NoSelfReview, SeatedAt
<1>4. ASSUME NEW s \in Submissions, DeleteSubmission(s)
      PROVE  NoSelfReview'
  BY <1>2, <1>3, <1>4 DEF DeleteSubmission, TypeOK
<1>5. ASSUME NEW s \in Submissions, ForceReject(s)
      PROVE  NoSelfReview'
  <2>1. \A x \in Submissions : Owner[x] \notin SeatedAt(x)'
    BY <1>3, <1>5 DEF ForceReject, SeatedAt, TypeOK
  <2>2. \A x \in Submissions : Owner[x] \notin ReviewedBy(x)'
    BY <1>5 DEF ForceReject, SuggestionClosed, ReviewedBy, NoSelfReview, TypeOK
  <2> QED
    BY <2>1, <2>2 DEF NoSelfReview
<1>6. CASE DispatchCommit
  <2>1. PICK t \in dtx :
          seats' = [s \in Submissions |->
                   SeatsAfterClear(t, s) \cup
                   {[id |-> NewIds(t.plan)[m], rev |-> m.to, pos |-> m.pos] :
                      m \in {n \in t.plan : n.sub = s}}]
    BY <1>6 DEF DispatchCommit
  <2>2. \A m \in t.plan : m.to # Owner[m.sub]
    BY DEF SeatInv, PlansSound
  <2>3. \A s \in Submissions : SeatsAfterClear(t, s) \subseteq seats[s]
    BY DEF SeatsAfterClear, KeptSeats
  <2>4. \A s \in Submissions : \A x \in seats'[s] : x.rev # Owner[s]
    BY <1>3, <2>1, <2>2, <2>3
  <2> QED
    BY <1>2, <1>6, <2>4 DEF DispatchCommit
<1>7. ASSUME NEW t \in utx, TakeoverCommit(t)
      PROVE  NoSelfReview'
  <2>1. PICK pick \in [t.rows -> Reviewers \cup {NoOne}] :
          LET moved == {w \in t.rows : pick[w] # NoOne}
              kept(s) == {x \in seats[s] : \A w \in moved : w.sub = s => w.id # x.id}
          IN /\ \A w \in t.rows : IF Takers(w.sub) \ {t.rev} = {}
                                    THEN pick[w] = NoOne
                                    ELSE pick[w] \in Takers(w.sub) \ {t.rev}
             /\ seats' = [s \in Submissions |->
                          kept(s) \cup
                          {[id |-> NewIds(moved)[w], rev |-> pick[w], pos |-> w.pos] :
                             w \in {n \in moved : n.sub = s}}]
    BY <1>7 DEF TakeoverCommit
  <2>2. \A w \in t.rows : pick[w] # NoOne => pick[w] # Owner[w.sub]
    BY <2>1 DEF Takers
  <2>3. ASSUME NEW s \in Submissions, NEW x \in seats'[s]
        PROVE  x.rev # Owner[s]
    <3> DEFINE moved == {w \in t.rows : pick[w] # NoOne}
               ids == NewIds(moved)
    <3>1. seats'[s] =
            {y \in seats[s] : \A w \in moved : w.sub = s => w.id # y.id} \cup
            {[id |-> ids[w], rev |-> pick[w], pos |-> w.pos] : w \in {n \in moved : n.sub = s}}
      BY <2>1
    <3> HIDE DEF ids
    <3>2. CASE x \in seats[s]
      BY <1>3, <3>2
    <3>3. CASE x \notin seats[s]
      <4>1. PICK w \in t.rows : /\ pick[w] # NoOne /\ w.sub = s
                                /\ x = [id |-> ids[w], rev |-> pick[w], pos |-> w.pos]
        BY <2>3, <3>1, <3>3
      <4> QED
        BY <2>2, <4>1
    <3> QED
      BY <3>2, <3>3
  <2> QED
    BY <1>2, <1>7, <2>3 DEF TakeoverCommit
<1>8. ASSUME NEW t \in rtx, NEW v \in Verdicts, DecideReviewTask(t, v) \/ ReviseReviewTask(t, v)
      PROVE  NoSelfReview'
  <2>1. PICK results : /\ RecordReviews(t, results)
                       /\ \A x \in results : x \in reviews[t.sub] \/ x = NewReview(t, v)
    <3>1. CASE DecideReviewTask(t, v)
      BY <3>1 DEF DecideReviewTask
    <3>2. CASE ReviseReviewTask(t, v)
      BY <3>2 DEF ReviseReviewTask
    <3> QED
      BY <1>8, <3>1, <3>2
  <2>2. t.rev # Owner[t.sub] /\ t.sub \in Submissions
    BY DEF Posted, TypeOK, ReviewTx
  <2>3. \A x \in results : x.rev # Owner[t.sub]
    BY <2>1, <2>2 DEF NoSelfReview, ReviewedBy, NewReview
  <2>4. UNCHANGED seats /\ reviews' = [reviews EXCEPT ![t.sub] = results]
    BY <2>1 DEF RecordReviews
  <2> QED
    BY <1>3, <2>2, <2>3, <2>4 DEF NoSelfReview, SeatedAt, ReviewedBy, TypeOK
<1>9. ASSUME NEW s \in Submissions,
             \/ CreateSubmission(s) \/ UpdateSubmission(s) \/ SubmitSubmission(s)
             \/ WithdrawSubmission(s) \/ WorkerHandle(s) \/ \E r \in Reviewers : OpenTask(r, s)
      PROVE  NoSelfReview'
  BY <1>1, <1>9 DEF CreateSubmission, UpdateSubmission, SubmitSubmission, WithdrawSubmission,
                    WorkerHandle, BeginBatch, OpenTask, deskVars
<1>10. ASSUME \/ \E includeAssigned \in BOOLEAN : RunDispatch(includeAssigned)
              \/ \E r \in Reviewers : \/ HandoverDispatch(r) \/ Return(r)
                                      \/ \E w \in Row : ReassignSubmission(r, w)
              \/ \E r \in Leavers, d \in {"paused", "off"} : TakeoverBegin(r, d)
              \/ DispatchAbort
              \/ \E t \in utx : TakeoverAbort(t)
              \/ \E t \in rtx : PostReview(t) \/ ReviewAbort(t)
       PROVE  NoSelfReview'
  BY <1>1, <1>10 DEF RunDispatch, BeginBatch, HandoverDispatch, ReassignSubmission, BeginMoves,
                     Return, TakeoverBegin, DispatchAbort, TakeoverAbort, PostReview,
                     ReviewAbort, deskVars
<1>11. CASE UNCHANGED vars
  BY <1>1, <1>11 DEF vars
<1>12. ASSUME NEW s \in Submissions, NEW x \in Scores, ResolveClassification(s, x)
       PROVE  NoSelfReview'
  <2>1. \A y \in Submissions : Owner[y] \notin SeatedAt(y)'
    BY <1>3, <1>12 DEF ResolveClassification, SeatedAt
  <2>2. \A y \in Submissions : Owner[y] \notin ReviewedBy(y)'
    BY <1>12 DEF ResolveClassification, SuggestionClosed, ReviewedBy, NoSelfReview, TypeOK
  <2> QED
    BY <2>1, <2>2 DEF NoSelfReview
<1> QED
  BY <1>4, <1>5, <1>6, <1>7, <1>8, <1>9, <1>10, <1>11, <1>12 DEF Next

\* The review side of the inductive step: a decision needs two conclusions.
LEMMA ReviewStep ==
  TypeOK /\ SeatInv /\ ReviewInv /\ NoSelfReview /\ [Next]_vars => ReviewInv'
<1> SUFFICES ASSUME TypeOK, SeatInv, ReviewInv, NoSelfReview, [Next]_vars
             PROVE  ReviewInv'
  OBVIOUS
<1> USE DEF ReviewInv, Overruled
<1>1. ASSUME UNCHANGED <<status, final, forced, ruled, reviews, rtx>>
      PROVE  ReviewInv'
  BY <1>1 DEF Decided, Posted, StatusCountsReviews, ScoreIsAgreed
<1>2. ASSUME NEW s \in Submissions,
             \/ CreateSubmission(s) \/ UpdateSubmission(s) \/ SubmitSubmission(s)
             \/ WithdrawSubmission(s) \/ DeleteSubmission(s)
      PROVE  ReviewInv'
  <2>1. UNCHANGED <<final, forced, ruled, reviews, rtx>>
    BY <1>2 DEF CreateSubmission, UpdateSubmission, SubmitSubmission, WithdrawSubmission,
                DeleteSubmission, deskVars, txVars
  <2>2. \/ UNCHANGED status
        \/ /\ status[s] \in {"none", "draft", "pending"}
           /\ \E new \in {"draft", "pending", "deleted"} : status' = [status EXCEPT ![s] = new]
    BY <1>2 DEF CreateSubmission, UpdateSubmission, SubmitSubmission, WithdrawSubmission,
                DeleteSubmission
  <2>3. Decided'
    BY <2>1, <2>2 DEF Decided, TypeOK
  <2>4. StatusCountsReviews'
    BY <2>1, <2>2 DEF StatusCountsReviews, TypeOK
  <2> QED
    BY <2>1, <2>3, <2>4 DEF Posted, ScoreIsAgreed
<1>3. ASSUME NEW s \in Submissions, ForceReject(s)
      PROVE  ReviewInv'
  <2>1. /\ status' = [status EXCEPT ![s] = "scored"]
        /\ final' = [final EXCEPT ![s] = 0]
        /\ forced' = [forced EXCEPT ![s] = TRUE]
        /\ \A x \in Submissions : x # s => reviews'[x] = reviews[x]
        /\ UNCHANGED <<ruled, rtx>>
    BY <1>3 DEF ForceReject, txVars, TypeOK
  <2>2. forced'[s] /\ status'[s] = "scored"
    BY <2>1 DEF TypeOK
  <2>3. \A x \in Submissions : x # s =>
          status'[x] = status[x] /\ final'[x] = final[x] /\ forced'[x] = forced[x]
    BY <2>1 DEF TypeOK
  <2>4. Decided'
    BY <2>2, <2>3 DEF Decided
  <2>5. Posted'
    BY <2>1, <2>2, <2>3 DEF Posted, TypeOK, ReviewTx
  <2>6. StatusCountsReviews'
    BY <2>1, <2>2, <2>3 DEF StatusCountsReviews
  <2>7. ScoreIsAgreed'
    BY <2>1, <2>2, <2>3 DEF ScoreIsAgreed
  <2> QED
    BY <2>4, <2>5, <2>6, <2>7
<1>4. ASSUME NEW r \in Reviewers, NEW s \in Submissions, OpenTask(r, s)
      PROVE  ReviewInv'
  <2>1. UNCHANGED <<status, final, forced, ruled, reviews>>
    BY <1>4 DEF OpenTask, submissionVars, deskVars
  <2>2. Posted'
    BY <1>4, <2>1 DEF OpenTask, Posted
  <2> QED
    BY <2>1, <2>2 DEF Decided, StatusCountsReviews, ScoreIsAgreed
<1>5. ASSUME NEW t \in rtx, PostReview(t)
      PROVE  ReviewInv'
  <2>1. UNCHANGED <<status, final, forced, ruled, reviews>>
    BY <1>5 DEF PostReview, submissionVars, deskVars
  <2>2. t.sub \in Submissions /\ seats[t.sub] \in SUBSET Seat
    BY DEF TypeOK, ReviewTx
  <2>3. PICK x \in seats[t.sub] :
          rtx' = (rtx \ {t}) \cup
                 {[rev |-> t.rev, sub |-> t.sub, saw |-> t.saw,
                   seat |-> x.id, expected |-> Cardinality(seats[t.sub])]}
    BY <1>5 DEF PostReview
  <2>4. ~forced[t.sub] => Cardinality(seats[t.sub]) = 2
    BY <2>2, <2>3, PairedSeats DEF SeatInv, SeatsPaired
  <2>5. Posted'
    BY <2>1, <2>3, <2>4 DEF Posted
  <2> QED
    BY <2>1, <2>5 DEF Decided, StatusCountsReviews, ScoreIsAgreed
<1>6. ASSUME NEW t \in rtx, ReviewAbort(t)
      PROVE  ReviewInv'
  <2>1. UNCHANGED <<status, final, forced, ruled, reviews>> /\ rtx' = rtx \ {t}
    BY <1>6 DEF ReviewAbort, submissionVars, deskVars
  <2> QED
    BY <2>1 DEF Decided, Posted, StatusCountsReviews, ScoreIsAgreed
<1>7. ASSUME NEW t \in rtx, NEW results, RecordReviews(t, results), t.seat # NoSeat,
             status[t.sub] \in {"pending", "consensus"},
             \E n : \/ results = {n}
                    \/ \E x : x.rev # n.rev /\ results = {x, n}
      PROVE  ReviewInv'
  <2> DEFINE s == t.sub
             o == Outcome(t.expected, results)
  <2>1. s \in Submissions
    BY DEF TypeOK, ReviewTx
  <2>2. ~forced[s] /\ t.expected = 2
    BY <1>7, <2>1 DEF Decided, Posted
  <2>3. \/ /\ \E n : results = {n}
           /\ o.status = "consensus" /\ o.score = NoScore
        \/ /\ \E x, y \in results : x.rev # y.rev /\ results = {x, y}
           /\ \/ o.status = "arbitrating" /\ o.score = NoScore
              \/ /\ o.status = "scored"
                 /\ Agree(results) /\ \A x \in results : ~x.cross
                 /\ \A x \in results : x.score = o.score
    <3>1. PICK n : results = {n} \/ \E x : x.rev # n.rev /\ results = {x, n}
      BY <1>7
    <3>2. CASE results = {n}
      <4>1. Cardinality(results) = 1
        BY <3>2, FS_Singleton
      <4> QED
        BY <2>2, <3>2, <4>1 DEF Outcome, Reconcile
    <3>3. ASSUME NEW x, x.rev # n.rev, results = {x, n}
          PROVE  <2>3!2
      <4>1. Cardinality(results) = 2
        BY <3>3, PairCardinality
      <4>2. CASE \E z \in results : z.cross
        BY <2>2, <3>3, <4>1, <4>2 DEF Outcome
      <4>3. CASE (\A z \in results : ~z.cross) /\ ~Agree(results)
        BY <2>2, <3>3, <4>1, <4>3 DEF Outcome, Reconcile
      <4>4. CASE (\A z \in results : ~z.cross) /\ Agree(results)
        <5>1. o = [status |-> "scored", score |-> (CHOOSE z \in results : TRUE).score]
          BY <2>2, <4>1, <4>4 DEF Outcome, Reconcile
        <5>2. (CHOOSE z \in results : TRUE) \in results
          BY <3>3
        <5>3. \A z \in results : z.score = (CHOOSE y \in results : TRUE).score
          BY <4>4, <5>2 DEF Agree
        <5> QED
          BY <3>3, <4>4, <5>1, <5>3
      <4> QED
        BY <4>2, <4>3, <4>4
    <3> QED
      BY <3>1, <3>2, <3>3
  <2>4. /\ reviews' = [reviews EXCEPT ![s] = results]
        /\ status' = [status EXCEPT ![s] = o.status]
        /\ final' = [final EXCEPT ![s] = o.score]
        /\ rtx' = rtx \ {t}
        /\ UNCHANGED <<forced, ruled>>
    BY <1>7 DEF RecordReviews
  <2> HIDE DEF s, o
  <2>5. reviews'[s] = results /\ status'[s] = o.status /\ final'[s] = o.score
    BY <2>1, <2>4 DEF TypeOK
  <2>6. \A x \in Submissions : x # s =>
          reviews'[x] = reviews[x] /\ status'[x] = status[x] /\ final'[x] = final[x]
    BY <2>4 DEF TypeOK
  <2>7. Decided'
    BY <2>2, <2>3, <2>4, <2>5, <2>6 DEF Decided
  <2>8. Posted'
    BY <2>4 DEF Posted
  <2>9. StatusCountsReviews'
    BY <2>3, <2>4, <2>5, <2>6 DEF StatusCountsReviews
  <2>10. ScoreIsAgreed'
    BY <2>3, <2>4, <2>5, <2>6 DEF ScoreIsAgreed, Agree
  <2> QED
    BY <2>7, <2>8, <2>9, <2>10
<1>8. ASSUME NEW t \in rtx, NEW v \in Verdicts, DecideReviewTask(t, v)
      PROVE  ReviewInv'
  <2>1. t.sub \in Submissions
    BY DEF TypeOK, ReviewTx
  <2>2. reviews[t.sub] = {} \/ \E x \in reviews[t.sub] : reviews[t.sub] = {x}
    BY <1>8, <2>1 DEF DecideReviewTask, StatusCountsReviews
  <2>3. NewReview(t, v).rev = t.rev /\ \A x \in reviews[t.sub] : x.rev # t.rev
    BY <1>8 DEF DecideReviewTask, ReviewedBy, NewReview
  <2> DEFINE n == NewReview(t, v)
  <2> HIDE DEF n
  <2>4. \/ reviews[t.sub] \cup {n} = {n}
        \/ \E x : x.rev # n.rev /\ reviews[t.sub] \cup {n} = {x, n}
    BY <2>2, <2>3 DEF n
  <2> QED
    BY <1>7, <1>8, <2>4 DEF DecideReviewTask, n
<1>9. ASSUME NEW t \in rtx, NEW v \in Verdicts, ReviseReviewTask(t, v)
      PROVE  ReviewInv'
  <2>1. t.sub \in Submissions
    BY DEF TypeOK, ReviewTx
  <2>2. PICK x \in reviews[t.sub] :
          RecordReviews(t, (reviews[t.sub] \ {x}) \cup {NewReview(t, v)})
    BY <1>9 DEF ReviseReviewTask
  <2>3. reviews[t.sub] = {x}
    BY <1>9, <2>1, <2>2 DEF ReviseReviewTask, StatusCountsReviews
  <2>4. (reviews[t.sub] \ {x}) \cup {NewReview(t, v)} = {NewReview(t, v)}
    BY <2>3
  <2> QED
    BY <1>7, <1>9, <2>2, <2>4 DEF ReviseReviewTask
<1>10. ASSUME \/ \E s \in Submissions : WorkerHandle(s)
              \/ \E includeAssigned \in BOOLEAN : RunDispatch(includeAssigned)
              \/ \E r \in Reviewers : \/ HandoverDispatch(r) \/ Return(r)
                                      \/ \E w \in Row : ReassignSubmission(r, w)
              \/ \E r \in Leavers, d \in {"paused", "off"} : TakeoverBegin(r, d)
              \/ DispatchAbort
              \/ \E t \in utx : TakeoverAbort(t)
       PROVE  ReviewInv'
  BY <1>1, <1>10 DEF WorkerHandle, RunDispatch, BeginBatch, HandoverDispatch, ReassignSubmission,
                     BeginMoves, Return, TakeoverBegin, DispatchAbort, TakeoverAbort,
                     submissionVars, deskVars, txVars
<1>11. ASSUME DispatchCommit \/ \E t \in utx : TakeoverCommit(t)
       PROVE  ReviewInv'
  <2>1. CASE DispatchCommit
    BY <1>1, <2>1 DEF DispatchCommit, submissionVars
  <2>2. ASSUME NEW t \in utx, TakeoverCommit(t)
        PROVE  ReviewInv'
    BY <1>1, <2>2 DEF TakeoverCommit, submissionVars
  <2> QED
    BY <1>11, <2>1, <2>2
<1>12. CASE UNCHANGED vars
  BY <1>1, <1>12 DEF vars
<1>13. ASSUME NEW s \in Submissions, NEW x \in Scores, ResolveClassification(s, x)
       PROVE  ReviewInv'
  <2>1. /\ ruled'[s] /\ status'[s] = "scored"
        /\ UNCHANGED <<forced, rtx>>
    BY <1>13 DEF ResolveClassification, txVars, TypeOK
  <2>2. \A y \in Submissions : y # s =>
          /\ status'[y] = status[y] /\ final'[y] = final[y]
          /\ ruled'[y] = ruled[y] /\ reviews'[y] = reviews[y]
    BY <1>13 DEF ResolveClassification, TypeOK
  <2>3. Decided' /\ Posted'
    BY <2>1, <2>2 DEF Decided, Posted
  <2>4. StatusCountsReviews'
    BY <2>1, <2>2 DEF StatusCountsReviews
  <2>5. ScoreIsAgreed'
    BY <2>1, <2>2 DEF ScoreIsAgreed
  <2> QED
    BY <2>3, <2>4, <2>5
<1> QED
  BY <1>2, <1>3, <1>4, <1>5, <1>6, <1>8, <1>9, <1>10, <1>11, <1>12, <1>13 DEF Next

\* The inductive invariant holds from the start and after every step.
LEMMA Inductive == Spec => []DeskInv
<1>1. Init => DeskInv
  <2> SUFFICES ASSUME Init PROVE DeskInv
    OBVIOUS
  <2>1. TypeOK
    BY DeskAssumption DEF Init, TypeOK
  <2>2. NoSelfReview
    BY DEF Init, NoSelfReview, SeatedAt, ReviewedBy
  <2>3. SeatInv
    BY DEF Init, SeatInv, SeatsPaired, UniqueSeats, PlansSound, RowsSound
  <2>4. ReviewInv
    BY DEF Init, ReviewInv, Decided, Posted, StatusCountsReviews, ScoreIsAgreed
  <2> QED
    BY <2>1, <2>2, <2>3, <2>4 DEF DeskInv
<1>2. DeskInv /\ [Next]_vars => DeskInv'
  BY TypeStep, SeatStep, SelfStep, ReviewStep DEF DeskInv, ReviewInv
<1> QED
  BY <1>1, <1>2, PTL DEF Spec

\* Whatever dispatch, hand-over, take-over, withdrawal and override
\* transactions interleave, an item keeps no seat or a pair of seats.
THEOREM PairedThroughout == Spec => []SeatsPaired
BY Inductive, PTL DEF DeskInv, SeatInv

\* No interleaving seats the owner of an item on it.
THEOREM NeverSelfReviewed == Spec => []NoSelfReview
BY Inductive, PTL DEF DeskInv

\* The status of an item that was not overruled counts its conclusions.
THEOREM StatusCounts == Spec => []StatusCountsReviews
BY Inductive, PTL DEF DeskInv, ReviewInv

\* A score that nobody overruled has two agreeing reviewers behind it.
THEOREM ScoresAgreed == Spec => []ScoreIsAgreed
BY Inductive, PTL DEF DeskInv, ReviewInv

-----------------------------------------------------------------------------
(* What a step may never do.                                               *)

Untouched(s) ==
  /\ status'[s] = status[s] /\ final'[s] = final[s]
  /\ content'[s] = content[s] /\ reviews'[s] = reviews[s]

Unreviewed(s) ==
  /\ status[s] \in {"none", "draft", "pending"} /\ reviews[s] = {}
  /\ \/ status'[s] \in {status[s], "deleted"}
     \/ <<status[s], status'[s]>> \in {<<"none", "draft">>, <<"draft", "pending">>, <<"pending", "draft">>}

Concluded(s) ==
  /\ status[s] \in {"pending", "consensus"}
  /\ status'[s] \in {"consensus", "scored", "arbitrating"}
  /\ content'[s] = content[s]
  /\ ReviewedBy(s) \subseteq ReviewedBy(s)'

Ruling(s) ==
  /\ Overruled(s)'
  /\ status'[s] = "scored"
  /\ content'[s] = content[s]
  /\ ReviewedBy(s) \subseteq ReviewedBy(s)'

\* A step leaves an item alone, is the student's while nobody has concluded,
\* records a conclusion, or overrules the desk.
LEMMA ItemStep ==
  ASSUME DeskInv, [Next]_vars, NEW s \in Submissions
  PROVE  Untouched(s) \/ Unreviewed(s) \/ Concluded(s) \/ Ruling(s)
<1>t. TypeOK /\ StatusCountsReviews
  BY DEF DeskInv, ReviewInv
<1>1. ASSUME UNCHANGED <<status, final, content, reviews>>
      PROVE  Untouched(s)
  BY <1>1 DEF Untouched
<1>2. ASSUME NEW u \in Submissions,
             \/ CreateSubmission(u) \/ UpdateSubmission(u) \/ SubmitSubmission(u)
             \/ WithdrawSubmission(u) \/ DeleteSubmission(u)
      PROVE  Untouched(s) \/ Unreviewed(s)
  <2>1. CASE s = u
    <3>1. status[s] \in {"none", "draft", "pending"} /\ reviews[s] = {}
      BY <1>2, <1>t, <2>1 DEF CreateSubmission, UpdateSubmission, SubmitSubmission,
           WithdrawSubmission, DeleteSubmission, StatusCountsReviews
    <3>2. \/ UNCHANGED status
          \/ status[s] = "none" /\ status' = [status EXCEPT ![s] = "draft"]
          \/ status[s] = "draft" /\ status' = [status EXCEPT ![s] = "pending"]
          \/ status[s] = "pending" /\ status' = [status EXCEPT ![s] = "draft"]
          \/ status' = [status EXCEPT ![s] = "deleted"]
      BY <1>2, <2>1 DEF CreateSubmission, UpdateSubmission, SubmitSubmission,
           WithdrawSubmission, DeleteSubmission
    <3> QED
      BY <3>1, <3>2, <1>t DEF Unreviewed, TypeOK
  <2>2. CASE s # u
    BY <1>2, <1>t, <2>2 DEF CreateSubmission, UpdateSubmission, SubmitSubmission,
         WithdrawSubmission, DeleteSubmission, deskVars, TypeOK, Untouched
  <2> QED
    BY <2>1, <2>2
<1>3. ASSUME NEW u \in Submissions, ForceReject(u) \/ \E x \in Scores : ResolveClassification(u, x)
      PROVE  Untouched(s) \/ Ruling(s)
  <2>1. CASE s = u
    <3>0. \/ forced' = [forced EXCEPT ![s] = TRUE]
          \/ ruled' = [ruled EXCEPT ![s] = TRUE]
      BY <1>3, <2>1 DEF ForceReject, ResolveClassification
    <3>a. Overruled(s)'
      BY <3>0, <1>t DEF Overruled, TypeOK
    <3>1. Overruled(s)' /\ status'[s] = "scored" /\ content'[s] = content[s]
      BY <1>3, <1>t, <2>1, <3>a DEF ForceReject, ResolveClassification, TypeOK
    <3>2. reviews'[s] = {SuggestionClosed(x) : x \in reviews[s]}
      BY <1>3, <1>t, <2>1 DEF ForceReject, ResolveClassification, TypeOK
    <3>b. ASSUME NEW x \in reviews[s] PROVE \E y \in reviews'[s] : y.rev = x.rev
      <4>1. SuggestionClosed(x) \in reviews'[s]
        BY <3>2
      <4>2. SuggestionClosed(x).rev = x.rev
        BY DEF SuggestionClosed
      <4> QED
        BY <4>1, <4>2
    <3>3. ReviewedBy(s) \subseteq ReviewedBy(s)'
      BY <3>b DEF ReviewedBy
    <3> QED
      BY <3>1, <3>3 DEF Ruling
  <2>2. CASE s # u
    BY <1>3, <1>t, <2>2 DEF ForceReject, ResolveClassification, TypeOK, Untouched
  <2> QED
    BY <2>1, <2>2
<1>4. ASSUME NEW t \in rtx, NEW v \in Verdicts, DecideReviewTask(t, v) \/ ReviseReviewTask(t, v)
      PROVE  Untouched(s) \/ Concluded(s)
  <2>1. PICK results :
          /\ RecordReviews(t, results)
          /\ results \subseteq reviews[t.sub] \cup {NewReview(t, v)}
          /\ NewReview(t, v) \in results
          /\ \A x \in reviews[t.sub] : x \in results \/ x.rev = t.rev
    <3>1. CASE DecideReviewTask(t, v)
      BY <3>1 DEF DecideReviewTask
    <3>2. CASE ReviseReviewTask(t, v)
      BY <3>2 DEF ReviseReviewTask
    <3> QED
      BY <1>4, <3>1, <3>2
  <2>2. /\ t \in ReviewTx /\ t.sub \in Submissions /\ status[t.sub] \in {"pending", "consensus"}
        /\ t.seat \in SeatIds
    BY <1>4, <1>t DEF TypeOK, ReviewTx, DecideReviewTask, ReviseReviewTask
  <2>3. results \in SUBSET Review
    <3>1. NewReview(t, v) \in Review
      BY <2>2, DeskAssumption DEF NewReview, Review, ReviewTx, Decision
    <3>2. reviews[t.sub] \subseteq Review
      BY <2>2, <1>t DEF TypeOK
    <3> QED
      BY <2>1, <3>1, <3>2
  <2>4. Outcome(t.expected, results).status \in {"consensus", "scored", "arbitrating"}
    BY <2>1, <2>3, OutcomeType DEF RecordReviews
  <2>5. CASE s = t.sub
    <3>1. /\ reviews'[s] = results /\ content'[s] = content[s]
          /\ status'[s] = Outcome(t.expected, results).status
      BY <2>1, <2>2, <2>5, <1>t DEF RecordReviews, TypeOK
    <3>2. \A x \in reviews[s] : \E y \in results : y.rev = x.rev
      BY <2>1, <2>5 DEF NewReview
    <3>3. ReviewedBy(s) \subseteq ReviewedBy(s)'
      BY <3>1, <3>2 DEF ReviewedBy
    <3> QED
      BY <2>2, <2>4, <2>5, <3>1, <3>3 DEF Concluded
  <2>6. CASE s # t.sub
    BY <2>1, <2>2, <2>6, <1>t DEF RecordReviews, TypeOK, Untouched
  <2> QED
    BY <2>5, <2>6
<1>5. ASSUME \/ \E u \in Submissions : WorkerHandle(u) \/ \E r \in Reviewers : OpenTask(r, u)
             \/ \E includeAssigned \in BOOLEAN : RunDispatch(includeAssigned)
             \/ \E r \in Reviewers : \/ HandoverDispatch(r) \/ Return(r)
                                     \/ \E w \in Row : ReassignSubmission(r, w)
             \/ \E r \in Leavers, d \in {"paused", "off"} : TakeoverBegin(r, d)
             \/ DispatchAbort
             \/ \E t \in utx : TakeoverAbort(t)
             \/ \E t \in rtx : PostReview(t) \/ ReviewAbort(t)
      PROVE  Untouched(s)
  BY <1>1, <1>5 DEF WorkerHandle, RunDispatch, BeginBatch, HandoverDispatch, ReassignSubmission,
                    BeginMoves, Return, TakeoverBegin, DispatchAbort, TakeoverAbort, OpenTask,
                    PostReview, ReviewAbort, submissionVars, deskVars
<1>6. ASSUME DispatchCommit \/ \E t \in utx : TakeoverCommit(t)
      PROVE  Untouched(s)
  <2>1. CASE DispatchCommit
    BY <1>1, <2>1 DEF DispatchCommit, submissionVars
  <2>2. ASSUME NEW t \in utx, TakeoverCommit(t)
        PROVE  Untouched(s)
    BY <1>1, <2>2 DEF TakeoverCommit, submissionVars
  <2> QED
    BY <1>6, <2>1, <2>2
<1>7. CASE UNCHANGED vars
  BY <1>1, <1>7 DEF vars
<1> QED
  BY <1>2, <1>3, <1>4, <1>5, <1>6, <1>7 DEF Next

\* From the first conclusion on, the student cannot change, withdraw or delete
\* the material, and no conclusion disappears.
THEOREM FrozenOnceReviewed == Spec => ReviewFreezesMaterial
<1>1. ASSUME DeskInv, [Next]_vars PROVE [\A s \in Submissions : FrozenStep(s)]_vars
  <2>1. ASSUME NEW s \in Submissions PROVE FrozenStep(s)
    <3>1. reviews[s] # {} => status[s] \in {"consensus", "scored", "arbitrating"}
      BY <1>1 DEF DeskInv, ReviewInv, StatusCountsReviews, TypeOK
    <3>2. Untouched(s) \/ Unreviewed(s) \/ Concluded(s) \/ Ruling(s)
      BY <1>1, ItemStep
    <3> QED
      BY <3>1, <3>2 DEF FrozenStep, Untouched, Unreviewed, Concluded, Ruling, ReviewedBy
  <2> QED
    BY <2>1
<1> QED
  BY <1>1, Inductive, PTL DEF Spec, ReviewFreezesMaterial

\* A late conclusion, revision or dispatch never changes a decided item.
THEOREM DecisionsStand == Spec => DecisionIsStable
<1>1. ASSUME DeskInv, [Next]_vars PROVE [\A s \in Submissions : StableStep(s)]_vars
  <2>1. ASSUME NEW s \in Submissions PROVE StableStep(s)
    <3>1. Untouched(s) \/ Unreviewed(s) \/ Concluded(s) \/ Ruling(s)
      BY <1>1, ItemStep
    <3> QED
      BY <3>1 DEF StableStep, Untouched, Unreviewed, Concluded, Ruling
  <2> QED
    BY <2>1
<1> QED
  BY <1>1, Inductive, PTL DEF Spec, DecisionIsStable

\* Students and reviewers move an item only along the declared transitions: none of their
\* handlers asks CanTransition, and each keeps to it.
THEOREM MachineFollowed == Spec => DeskFollowsMachine
<1>1. ASSUME DeskInv, [Next]_vars PROVE [\A s \in Submissions : MachineStep(s)]_vars
  <2>1. ASSUME NEW s \in Submissions PROVE MachineStep(s)
    <3> SUFFICES ASSUME status'[s] # status[s], ~Overruled(s)',
                        {status[s], status'[s]} \subseteq Status
                 PROVE  <<status[s], status'[s]>> \in CanTransition
      BY DEF MachineStep
    <3>1. Unreviewed(s) \/ Concluded(s)
      BY <1>1, ItemStep DEF Untouched, Ruling
    <3>2. CASE Unreviewed(s)
      BY <3>2 DEF Unreviewed, Status, CanTransition
    <3>3. CASE Concluded(s)
      BY <3>3 DEF Concluded, CanTransition
    <3> QED
      BY <3>1, <3>2, <3>3
  <2> QED
    BY <2>1
<1> QED
  BY <1>1, Inductive, PTL DEF Spec, DeskFollowsMachine
=============================================================================
