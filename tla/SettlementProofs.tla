--------------------------- MODULE SettlementProofs ---------------------------
(***************************************************************************)
(* What an invalidation of the newest run alone is enough for, for every   *)
(* number of items, students, schemes and runs; and what the arithmetic of *)
(* a settlement (Scoring) computes, for every scheme, class and mark: the  *)
(* total of a category and the ranking.                                    *)
(***************************************************************************)
EXTENDS Settlement, Scoring, SumProofs, SequenceTheorems, TLAPS

\* The inductive invariant.  While no write was late, the valid runs stand in
\* the order of their schemes, so that a run of the current scheme is the
\* newest run, the one that every invalidation takes away.  It locks every
\* item it counts, so that a suggestion, which invalidates nothing, finds none.
RunsInOrder ==
  late = {} =>
    /\ \A i, j \in 1..Len(runs) : i <= j => runs[i].scheme <= runs[j].scheme
    /\ \A i \in 1..Len(runs) : runs[i].scheme <= scheme
    /\ \A i \in 1..Len(runs) :
         runs[i].scheme = scheme => \A s \in Submissions : status[s] # "scored"

SettlementInv ==
  /\ TypeOK
  /\ OneRunPerScheme
  /\ RunsInOrder
  /\ CurrentRunShowsScores
  /\ CurrentRunSealed

\* What is said of the runs.
RunsSound == OneRunPerScheme /\ RunsInOrder /\ CurrentRunShowsScores /\ CurrentRunSealed

-----------------------------------------------------------------------------
(* Runs.                                                                   *)

LEMMA RunsOfLength ==
  ASSUME NEW m \in Nat, NEW f \in [1..m -> Run]
  PROVE  f \in Seq(Run) /\ Len(f) = m
<1>1. f \in Seq(Run)
  BY SeqDef
<1> QED
  BY <1>1

LEMMA RunTyped ==
  ASSUME TypeOK
  PROVE  /\ Len(runs) \in Nat /\ runs \in [1..Len(runs) -> Run]
         /\ scheme \in Int
         /\ \A i \in 1..Len(runs) : runs[i] \in Run /\ runs[i].scheme \in Int
<1>1. Len(runs) \in Nat /\ runs \in [1..Len(runs) -> Run]
  BY DEF TypeOK
<1>2. scheme \in Int
  BY SettlementAssumption DEF TypeOK
<1>3. \A i \in 1..Len(runs) : runs[i] \in Run
  BY <1>1
<1>4. \A i \in 1..Len(runs) : runs[i].scheme \in Int
  BY <1>3, SettlementAssumption DEF Run
<1> QED
  BY <1>1, <1>2, <1>3, <1>4

\* A run of the current scheme is the newest run.
LEMMA CurrentIsNewest ==
  ASSUME SettlementInv, late = {}, NEW i \in 1..Len(runs), runs[i].scheme = scheme
  PROVE  i = Len(runs)
<1>1. TypeOK /\ OneRunPerScheme /\ RunsInOrder
  BY DEF SettlementInv
<1>2. PICK n \in Nat : n = Len(runs)
  BY <1>1, RunTyped
<1>3. n \in 1..Len(runs) /\ i <= n /\ i \in Int
  BY <1>2
<1>4. runs[i].scheme <= runs[n].scheme /\ runs[n].scheme <= scheme
  BY <1>1, <1>3 DEF RunsInOrder
<1>5. runs[n].scheme = scheme
  BY <1>1, <1>3, <1>4, RunTyped
<1>6. i = n
  BY <1>1, <1>3, <1>5 DEF OneRunPerScheme
<1> QED
  BY <1>2, <1>6

\* The runs without one of them.
LEMMA WithoutOne ==
  ASSUME TypeOK, NEW p \in 1..Len(runs)
  PROVE  /\ Without(p) \in Seq(Run) /\ Len(Without(p)) = Len(runs) - 1
         /\ \A i \in 1..Len(runs) - 1 : Without(p)[i] = runs[IF i < p THEN i ELSE i + 1]
<1>1. Len(runs) \in Nat /\ p \in Int /\ 1 <= p /\ p <= Len(runs) /\ Len(runs) - 1 \in Nat
  BY RunTyped
<1>2. PICK m \in Nat : m = Len(runs) - 1
  BY <1>1
<1>3. \A i \in 1..m : (IF i < p THEN i ELSE i + 1) \in 1..Len(runs)
  BY <1>1, <1>2
<1>4. Without(p) = [i \in 1..m |-> runs[IF i < p THEN i ELSE i + 1]]
  BY <1>2, Zenon DEF Without
<1>5. Without(p) \in [1..m -> Run]
  BY <1>3, <1>4, RunTyped
<1>6. Without(p) \in Seq(Run) /\ Len(Without(p)) = m
  BY <1>5, RunsOfLength
<1> QED
  BY <1>2, <1>4, <1>6

\* The runs with one more.
LEMMA WithOneMore ==
  ASSUME TypeOK, NEW r \in Run, NEW p \in 1..Len(runs) + 1
  PROVE  /\ Inserted(r, p) \in Seq(Run) /\ Len(Inserted(r, p)) = Len(runs) + 1
         /\ Inserted(r, p)[p] = r
         /\ \A i \in 1..Len(runs) + 1 : i # p =>
              Inserted(r, p)[i] = runs[IF i < p THEN i ELSE i - 1]
<1>1. Len(runs) \in Nat /\ p \in Int /\ 1 <= p /\ p <= Len(runs) + 1 /\ Len(runs) + 1 \in Nat
  BY RunTyped
<1>2. PICK m \in Nat : m = Len(runs) + 1
  BY <1>1
<1>3. \A i \in 1..m : i # p => (IF i < p THEN i ELSE i - 1) \in 1..Len(runs)
  BY <1>1, <1>2
<1>4. Inserted(r, p) = [i \in 1..m |-> IF i < p THEN runs[i] ELSE IF i = p THEN r ELSE runs[i - 1]]
  BY <1>2, Zenon DEF Inserted
<1>5. \A i \in 1..m : (IF i < p THEN runs[i] ELSE IF i = p THEN r ELSE runs[i - 1]) =
                      (IF i = p THEN r ELSE runs[IF i < p THEN i ELSE i - 1])
  BY <1>1, <1>2
<1>6. \A i \in 1..m : Inserted(r, p)[i] = IF i = p THEN r ELSE runs[IF i < p THEN i ELSE i - 1]
  BY <1>4, <1>5
<1>7. \A i \in 1..m : Inserted(r, p)[i] \in Run
  BY <1>3, <1>6, RunTyped
<1>8. Inserted(r, p) \in [1..m -> Run]
  BY <1>4, <1>7
<1>9. Inserted(r, p) \in Seq(Run) /\ Len(Inserted(r, p)) = m
  BY <1>8, RunsOfLength
<1> QED
  BY <1>1, <1>2, <1>6, <1>9

\* Taking a run away keeps at most one of each scheme.
LEMMA WithoutKeepsOne ==
  ASSUME TypeOK, OneRunPerScheme, NEW p \in 1..Len(runs), runs' = Without(p),
         "settle" \in late => "settle" \in late'
  PROVE  OneRunPerScheme'
<1> SUFFICES ASSUME "settle" \notin late, NEW i \in 1..Len(runs'), NEW j \in 1..Len(runs'),
                    runs'[i].scheme = runs'[j].scheme
             PROVE  i = j
  BY DEF OneRunPerScheme
<1> DEFINE at(k) == IF k < p THEN k ELSE k + 1
<1>1. /\ Len(runs) \in Nat /\ p \in Int /\ 1 <= p /\ p <= Len(runs)
      /\ i \in 1..Len(runs) - 1 /\ j \in 1..Len(runs) - 1
  <2>1. Len(runs') = Len(runs) - 1
    BY WithoutOne
  <2> QED
    BY RunTyped, <2>1
<1>2. at(i) \in 1..Len(runs) /\ at(j) \in 1..Len(runs)
  BY <1>1
<1>3. runs'[i] = runs[at(i)] /\ runs'[j] = runs[at(j)]
  BY <1>1, WithoutOne
<1> HIDE DEF at
<1>4. at(i) = at(j)
  BY <1>2, <1>3 DEF OneRunPerScheme
<1> QED
  BY <1>1, <1>4 DEF at

\* An invalidation leaves no run of the current scheme, unless it was late.
LEMMA Invalidated ==
  ASSUME SettlementInv, InvalidateLatestSettlement, UNCHANGED scheme
  PROVE  /\ runs' \in Seq(Run) /\ Len(runs') <= MaxRuns
         /\ late' \subseteq {"start", "settle", "link"}
         /\ RunsSound'
<1>t. TypeOK /\ OneRunPerScheme /\ RunsInOrder
  BY DEF SettlementInv
<1>n. Len(runs) \in Nat /\ MaxRuns \in Nat /\ Len(runs) <= MaxRuns
  BY <1>t, RunTyped, SettlementAssumption DEF TypeOK
<1>r. runs \in Seq(Run) /\ late \subseteq {"start", "settle", "link"}
  BY <1>t DEF TypeOK
<1>1. ASSUME runs = <<>>, UNCHANGED <<runs, late>>
      PROVE  /\ runs' \in Seq(Run) /\ Len(runs') <= MaxRuns
             /\ late' \subseteq {"start", "settle", "link"} /\ RunsSound'
  <2>1. 1..Len(runs') = {}
    BY <1>1
  <2> QED
    BY <1>1, <1>n, <1>r, <2>1 DEF RunsSound, OneRunPerScheme, RunsInOrder, CurrentRunShowsScores, CurrentRunSealed
<1>2. ASSUME runs # <<>>, runs' = Without(Len(runs)), UNCHANGED late
      PROVE  /\ runs' \in Seq(Run) /\ Len(runs') <= MaxRuns
             /\ late' \subseteq {"start", "settle", "link"} /\ RunsSound'
  <2>1. PICK n \in Nat : n = Len(runs)
    BY <1>n
  <2>2. n \in 1..Len(runs)
    BY <1>2, <1>r, <2>1
  <2>3. runs' \in Seq(Run) /\ Len(runs') = n - 1 /\ \A i \in 1..n - 1 : runs'[i] = runs[i]
    <3>1. /\ Without(n) \in Seq(Run) /\ Len(Without(n)) = n - 1
          /\ \A i \in 1..n - 1 : Without(n)[i] = runs[IF i < n THEN i ELSE i + 1]
      BY <1>t, <2>1, <2>2, WithoutOne
    <3> QED
      BY <1>2, <2>1, <3>1
  <2>4. OneRunPerScheme'
    BY <1>2, <1>t, <2>1, <2>2, WithoutKeepsOne
  <2>5. ASSUME late = {}, NEW i \in 1..Len(runs') PROVE runs'[i].scheme # scheme
    <3>1. i \in 1..Len(runs) /\ i # Len(runs) /\ runs'[i] = runs[i]
      BY <2>1, <2>3
    <3> QED
      BY <2>5, <3>1, CurrentIsNewest
  <2>6. RunsInOrder'
    <3>1. \A i \in 1..Len(runs') : i \in 1..Len(runs) /\ runs'[i] = runs[i]
      BY <2>1, <2>3
    <3> QED
      BY <1>2, <1>t, <2>5, <3>1 DEF RunsInOrder
  <2>7. CurrentRunShowsScores' /\ CurrentRunSealed'
    BY <1>2, <2>5 DEF CurrentRunShowsScores, CurrentRunSealed
  <2> QED
    BY <1>2, <1>n, <1>r, <2>1, <2>3, <2>4, <2>6, <2>7 DEF RunsSound
<1>3. ASSUME NEW p \in 0..Len(runs) - 1, runs' = IF p = 0 THEN runs ELSE Without(p),
             late' = late \cup {"link"}
      PROVE  /\ runs' \in Seq(Run) /\ Len(runs') <= MaxRuns
             /\ late' \subseteq {"start", "settle", "link"} /\ RunsSound'
  <2>1. late' # {} /\ late' \subseteq {"start", "settle", "link"}
    BY <1>3, <1>r
  <2>2. RunsInOrder' /\ CurrentRunShowsScores' /\ CurrentRunSealed'
    BY <2>1 DEF RunsInOrder, CurrentRunShowsScores, CurrentRunSealed
  <2>3. CASE p = 0
    BY <1>3, <1>t, <1>n, <1>r, <2>1, <2>2, <2>3 DEF RunsSound, OneRunPerScheme
  <2>4. CASE p # 0
    <3>1. p \in 1..Len(runs) /\ runs' = Without(p)
      BY <1>3, <1>n, <2>4
    <3>2. runs' \in Seq(Run) /\ Len(runs') <= MaxRuns
      BY <1>t, <1>n, <3>1, WithoutOne
    <3>3. OneRunPerScheme'
      BY <1>3, <1>t, <3>1, WithoutKeepsOne
    <3> QED
      BY <2>1, <2>2, <3>2, <3>3 DEF RunsSound
  <2> QED
    BY <2>3, <2>4
<1> QED
  BY <1>1, <1>2, <1>3 DEF InvalidateLatestSettlement

\* A run that is published when there is none of the current scheme.
LEMMA Published ==
  ASSUME SettlementInv, NEW b \in Build, NEW how \in SUBSET {"settle"}, SettlePublish(b, how),
         how = {} => b = SettleBuild /\ ~SettleReuse
  PROVE  /\ runs' \in Seq(Run) /\ Len(runs') <= MaxRuns
         /\ late' \subseteq {"start", "settle", "link"}
         /\ RunsSound'
<1>t. TypeOK /\ OneRunPerScheme /\ RunsInOrder
  BY DEF SettlementInv
<1>1. PICK p \in 1..Len(runs) + 1 :
        /\ runs' = Inserted(b.run, p)
        /\ late' = late \cup how \cup (IF p <= Len(runs) THEN {"start"} ELSE {})
  BY DEF SettlePublish
<1>2. b.run \in Run
  BY DEF Build
<1>3. PICK n \in Nat : n = Len(runs)
  BY <1>t, RunTyped
<1>4. /\ runs' \in Seq(Run) /\ Len(runs') = n + 1 /\ runs'[p] = b.run
      /\ \A i \in 1..n + 1 : i # p => runs'[i] = runs[IF i < p THEN i ELSE i - 1]
  <2>1. /\ Inserted(b.run, p) \in Seq(Run) /\ Len(Inserted(b.run, p)) = Len(runs) + 1
        /\ Inserted(b.run, p)[p] = b.run
        /\ \A i \in 1..Len(runs) + 1 : i # p =>
             Inserted(b.run, p)[i] = runs[IF i < p THEN i ELSE i - 1]
    BY <1>t, <1>2, WithOneMore
  <2> QED
    BY <1>1, <1>3, <2>1
<1>5. Len(runs') <= MaxRuns
  <2>1. n < MaxRuns /\ MaxRuns \in Nat
    BY <1>3, SettlementAssumption DEF SettlePublish
  <2> QED
    BY <1>4, <2>1
<1>6. late' \subseteq {"start", "settle", "link"}
  BY <1>1, <1>t DEF TypeOK
<1>7. OneRunPerScheme'
  <2> SUFFICES ASSUME "settle" \notin late',
                      \E i, j \in 1..Len(runs') : i # j /\ runs'[i].scheme = runs'[j].scheme
               PROVE  FALSE
    BY DEF OneRunPerScheme
  <2>1. how = {} /\ "settle" \notin late
    BY <1>1
  <2>2. b.run.scheme = scheme /\ ~SettleReuse
    <3>1. b = SettleBuild /\ ~SettleReuse
      BY <2>1
    <3>2. b.run.scheme = scheme
      BY <3>1, Zenon DEF SettleBuild
    <3> QED
      BY <3>1, <3>2
  <2>3. \A i \in 1..Len(runs) : runs[i].scheme # scheme
    BY <2>2 DEF SettleReuse
  <2>4. PICK i, j \in 1..Len(runs') : i # j /\ runs'[i].scheme = runs'[j].scheme
    OBVIOUS
  <2> DEFINE at(k) == IF k < p THEN k ELSE k - 1
  <2>5. p \in Int /\ 1 <= p /\ p <= n + 1 /\ i \in 1..n + 1 /\ j \in 1..n + 1
    BY <1>3, <1>4
  <2>6. /\ i # p => at(i) \in 1..Len(runs) /\ runs'[i] = runs[at(i)]
        /\ j # p => at(j) \in 1..Len(runs) /\ runs'[j] = runs[at(j)]
    BY <1>3, <1>4, <2>5
  <2>7. i # p /\ j # p /\ i # j => at(i) # at(j)
    BY <2>5
  <2> HIDE DEF at
  <2>8. i # p /\ j # p
    BY <1>4, <2>2, <2>3, <2>4, <2>6
  <2> QED
    BY <1>t, <2>1, <2>4, <2>6, <2>7, <2>8 DEF OneRunPerScheme
<1>8. RunsInOrder' /\ CurrentRunShowsScores' /\ CurrentRunSealed'
  <2> SUFFICES ASSUME late' = {} PROVE RunsInOrder' /\ CurrentRunShowsScores' /\ CurrentRunSealed'
    BY DEF RunsInOrder, CurrentRunShowsScores, CurrentRunSealed
  <2>1. how = {} /\ late = {} /\ ~(p <= n)
    BY <1>1, <1>3
  <2>2. b = SettleBuild /\ ~SettleReuse
    BY <2>1
  <2>3. p = n + 1 /\ p \in Int
    BY <1>3, <2>1
  <2>4. \A i \in 1..n : runs'[i] = runs[i]
    BY <1>4, <2>3
  <2>5. /\ b.run.scheme = scheme /\ b.run.scores = Counted /\ (b.run.confirmed => AllSealed)
        /\ b.rows = {s \in Submissions : status[s] = "scored"}
    BY <2>2, Zenon DEF SettleBuild
  <2>6. \A i \in 1..n : runs[i].scheme < scheme /\ runs[i].scheme \in Int
    <3>1. \A i \in 1..n : runs[i].scheme # scheme
      BY <1>3, <2>2 DEF SettleReuse
    <3>2. \A i \in 1..n : runs[i].scheme <= scheme
      BY <1>t, <1>3, <2>1 DEF RunsInOrder
    <3> QED
      BY <1>t, <1>3, <3>1, <3>2, RunTyped
  <2>7. scheme \in Int /\ UNCHANGED <<scheme, final, sealed>>
    BY <1>t, RunTyped DEF SettlePublish, gateVars
  <2>8. /\ \A s \in Submissions : status'[s] # "scored"
        /\ Counted' = Counted
    <3>1. \A s \in Submissions :
            status'[s] = IF status[s] = "scored" THEN "locked" ELSE status[s]
      BY <2>5 DEF SettlePublish
    <3> QED
      BY <3>1, <2>7 DEF Counted
  <2>9. \A i \in 1..Len(runs') : i = p \/ i \in 1..n
    BY <1>4, <2>3
  <2>10. RunsInOrder'
    <3>1. \A i \in 1..Len(runs') : runs'[i].scheme <= scheme
      <4>1. ASSUME NEW i \in 1..n PROVE runs'[i].scheme <= scheme
        BY <2>4, <2>6, <2>7
      <4>2. runs'[p].scheme <= scheme
        BY <1>4, <2>5, <2>7
      <4> QED
        BY <2>9, <4>1, <4>2
    <3>2. ASSUME NEW i \in 1..Len(runs'), NEW j \in 1..Len(runs'), i <= j
          PROVE  runs'[i].scheme <= runs'[j].scheme
      <4>1. CASE j = p
        BY <1>4, <2>5, <3>1, <4>1
      <4>2. CASE j \in 1..n
        <5>1. i \in 1..n
          BY <1>4, <3>2, <4>2
        <5>2. runs[i].scheme <= runs[j].scheme
          BY <1>t, <1>3, <2>1, <3>2, <4>2, <5>1 DEF RunsInOrder
        <5> QED
          BY <2>4, <4>2, <5>1, <5>2
      <4> QED
        BY <2>9, <4>1, <4>2
    <3> QED
      BY <2>7, <2>8, <3>1, <3>2 DEF RunsInOrder
  <2>11. \A i \in 1..Len(runs') : runs'[i].scheme = scheme => runs'[i] = b.run
    <3>1. ASSUME NEW i \in 1..n PROVE runs'[i].scheme # scheme
      BY <2>4, <2>6, <2>7
    <3>2. runs'[p] = b.run
      BY <1>4
    <3> QED
      BY <2>9, <3>1, <3>2
  <2> QED
    BY <2>5, <2>7, <2>8, <2>10, <2>11 DEF CurrentRunShowsScores, CurrentRunSealed, AllSealed
<1> QED
  BY <1>4, <1>5, <1>6, <1>7, <1>8 DEF RunsSound

-----------------------------------------------------------------------------
(* The inductive invariant.                                                *)

\* Before anything is submitted there is no run.
LEMMA SettlementInit == Init => SettlementInv
<1> SUFFICES ASSUME Init PROVE SettlementInv
  OBVIOUS
<1>1. TypeOK
  <2>1. <<>> \in Seq(Run) /\ Len(<<>>) = 0 /\ 0 <= MaxRuns /\ 1 \in 1..MaxSchemes
    BY SettlementAssumption
  <2> QED
    BY <2>1 DEF Init, TypeOK, Snapshot, Score
<1>2. 1..Len(runs) = {}
  BY DEF Init
<1> QED
  BY <1>1, <1>2 DEF SettlementInv, OneRunPerScheme, RunsInOrder, CurrentRunShowsScores, CurrentRunSealed

\* Steps that touch neither the runs, what counts, the seals nor the scheme.
LEMMA QuietStep ==
  ASSUME SettlementInv, TypeOK', UNCHANGED <<runs, late, scheme>>, sealed \subseteq sealed',
         late = {} /\ (\E i \in 1..Len(runs) : runs[i].scheme = scheme) =>
           Counted' = Counted /\ \A s \in Submissions : status'[s] = "scored" => status[s] = "scored"
  PROVE  SettlementInv'
<1>1. OneRunPerScheme'
  BY DEF SettlementInv, OneRunPerScheme
<1>2. RunsInOrder'
  BY DEF SettlementInv, RunsInOrder
<1>3. CurrentRunShowsScores'
  BY DEF SettlementInv, CurrentRunShowsScores
<1>4. CurrentRunSealed'
  BY DEF SettlementInv, CurrentRunSealed, AllSealed
<1> QED
  BY <1>1, <1>2, <1>3, <1>4 DEF SettlementInv

\* What a ruling writes is of its type.
LEMMA RuledTyped ==
  ASSUME TypeOK, NEW s \in Submissions, NEW to \in {"open", "scored"}, NEW x \in Score,
         Ruled(s, to, x)
  PROVE  /\ status' \in [Submissions -> {"absent", "open", "scored", "locked"}]
         /\ final' \in Snapshot
         /\ UNCHANGED <<sealed, closed, scheme, override, gpa, settling>>
BY DEF TypeOK, Ruled, Snapshot, gateVars

\* A ruling that invalidates the newest run.
LEMMA RulingStep ==
  ASSUME SettlementInv, NEW s \in Submissions, NEW to \in {"open", "scored"}, NEW x \in Score,
         Ruled(s, to, x), InvalidateLatestSettlement, corrected' \in [Submissions -> BOOLEAN]
  PROVE  SettlementInv'
<1>1. TypeOK
  BY DEF SettlementInv
<1>2. /\ status' \in [Submissions -> {"absent", "open", "scored", "locked"}]
      /\ final' \in Snapshot
      /\ UNCHANGED <<sealed, closed, scheme, override, gpa, settling>>
  BY <1>1, RuledTyped
<1>3. /\ runs' \in Seq(Run) /\ Len(runs') <= MaxRuns
      /\ late' \subseteq {"start", "settle", "link"}
      /\ RunsSound'
  BY <1>2, Invalidated
<1>4. TypeOK'
  BY <1>1, <1>2, <1>3 DEF TypeOK
<1> QED
  BY <1>3, <1>4 DEF SettlementInv, RunsSound

\* Every step of the students, the schemes, the settlement, the rulings and
\* the corrections keeps the inductive invariant.
LEMMA SettlementStep == SettlementInv /\ [Next]_vars => SettlementInv'
<1> SUFFICES ASSUME SettlementInv, [Next]_vars PROVE SettlementInv'
  OBVIOUS
<1> USE DEF itemVars, gateVars
<1>t. TypeOK /\ OneRunPerScheme /\ RunsInOrder /\ CurrentRunShowsScores /\ CurrentRunSealed
  BY DEF SettlementInv
<1>p. Points \subseteq Score /\ NoScore \in Score
  BY DEF Score
<1>1. ASSUME NEW s \in Submissions, Submit(s) PROVE SettlementInv'
  <2>1. TypeOK'
    BY <1>1, <1>t DEF Submit, TypeOK
  <2>2. UNCHANGED <<runs, late, scheme, final, sealed>> /\ status[s] = "absent"
        /\ \A o \in Submissions : status'[o] = IF o = s THEN "open" ELSE status[o]
    BY <1>1, <1>t DEF Submit, TypeOK
  <2>3. Counted' = Counted /\ \A o \in Submissions : status'[o] = "scored" => status[o] = "scored"
    BY <2>2 DEF Counted
  <2> QED
    BY <2>1, <2>2, <2>3, QuietStep
<1>2. ASSUME NEW u \in Students, SealMySubmissions(u) PROVE SettlementInv'
  <2>1. TypeOK'
    BY <1>2, <1>t DEF SealMySubmissions, TypeOK
  <2>2. UNCHANGED <<runs, late, scheme, status, final>> /\ sealed \subseteq sealed'
    BY <1>2 DEF SealMySubmissions
  <2> QED
    BY <2>1, <2>2, QuietStep DEF Counted
<1>3. ASSUME NEW u \in Students, UnsealStudent(u) PROVE SettlementInv'
  <2>1. /\ runs' \in Seq(Run) /\ Len(runs') <= MaxRuns
        /\ late' \subseteq {"start", "settle", "link"}
        /\ RunsSound'
    BY <1>3, Invalidated DEF UnsealStudent
  <2>2. TypeOK'
    BY <1>3, <1>t, <2>1 DEF UnsealStudent, TypeOK
  <2> QED
    BY <2>1, <2>2 DEF SettlementInv, RunsSound
<1>4. ASSUME WindowMoves \/ ForceGate PROVE SettlementInv'
  <2>1. TypeOK'
    BY <1>4, <1>t DEF WindowMoves, ForceGate, TypeOK
  <2>2. UNCHANGED <<runs, late, scheme, status, final, sealed>>
    BY <1>4 DEF WindowMoves, ForceGate
  <2> QED
    BY <2>1, <2>2, QuietStep DEF Counted
<1>5. CASE PublishScheme
  <2>1. TypeOK' /\ scheme' = scheme + 1 /\ scheme \in Int
    <3>1. scheme' = scheme + 1 /\ scheme' \in 1..MaxSchemes /\ scheme \in Int
      BY <1>5, <1>t, SettlementAssumption DEF PublishScheme, TypeOK
    <3> QED
      BY <1>5, <1>t, <3>1 DEF PublishScheme, TypeOK
  <2>2. UNCHANGED <<runs, late, status, final, sealed>>
    BY <1>5 DEF PublishScheme
  <2>3. late = {} => \A i \in 1..Len(runs) : runs[i].scheme <= scheme' /\ runs[i].scheme # scheme'
    <3>1. late = {} => \A i \in 1..Len(runs) : runs[i].scheme <= scheme
      BY <1>t DEF RunsInOrder
    <3> QED
      BY <1>t, <2>1, <3>1, RunTyped
  <2>4. RunsInOrder'
    BY <1>t, <2>2, <2>3 DEF RunsInOrder
  <2>5. OneRunPerScheme' /\ CurrentRunShowsScores' /\ CurrentRunSealed'
    BY <1>t, <2>2, <2>3 DEF OneRunPerScheme, CurrentRunShowsScores, CurrentRunSealed
  <2> QED
    BY <2>1, <2>4, <2>5 DEF SettlementInv
<1>6. CASE ImportGPAFile
  <2>1. /\ runs' \in Seq(Run) /\ Len(runs') <= MaxRuns
        /\ late' \subseteq {"start", "settle", "link"}
        /\ RunsSound'
    BY <1>6, Invalidated DEF ImportGPAFile
  <2>2. TypeOK'
    BY <1>6, <1>t, <2>1 DEF ImportGPAFile, TypeOK
  <2> QED
    BY <2>1, <2>2 DEF SettlementInv, RunsSound
<1>b. SettleBuild \in Build
  <2>1. Counted \in Snapshot
    BY <1>t DEF TypeOK, Counted, Snapshot, Score
  <2>2. scheme \in 1..MaxSchemes
    BY <1>t DEF TypeOK
  <2>3. AllSealed \in BOOLEAN
    BY Zenon DEF AllSealed
  <2>4. PICK sealedAll \in BOOLEAN : sealedAll = AllSealed
    BY <2>3, Zenon
  <2>5. [scheme |-> scheme, scores |-> Counted, confirmed |-> sealedAll] \in Run
    BY <2>1, <2>2 DEF Run
  <2>6. {s \in Submissions : status[s] = "scored"} \in SUBSET Submissions
    OBVIOUS
  <2>7. SettleBuild = [run |-> [scheme |-> scheme, scores |-> Counted, confirmed |-> sealedAll],
                       rows |-> {s \in Submissions : status[s] = "scored"}]
    BY <2>4, Zenon DEF SettleBuild
  <2> HIDE DEF SettleBuild
  <2> QED
    BY <2>5, <2>6, <2>7 DEF Build
<1>7. ASSUME NEW b \in Build, NEW how \in SUBSET {"settle"}, SettlePublish(b, how),
             how = {} => b = SettleBuild /\ ~SettleReuse, settling' \subseteq Build
      PROVE  SettlementInv'
  <2>1. /\ runs' \in Seq(Run) /\ Len(runs') <= MaxRuns
        /\ late' \subseteq {"start", "settle", "link"}
        /\ RunsSound'
    BY <1>7, Published
  <2>2. status' \in [Submissions -> {"absent", "open", "scored", "locked"}]
        /\ UNCHANGED <<final, corrected, sealed, closed, scheme, override, gpa>>
    BY <1>7, <1>t DEF SettlePublish, TypeOK
  <2>3. TypeOK'
    BY <1>7, <1>t, <2>1, <2>2 DEF TypeOK
  <2> QED
    BY <2>1, <2>3 DEF SettlementInv, RunsSound
<1>8. CASE Settle
  <2>1. SettlePublish(SettleBuild, {}) /\ ~SettleReuse /\ settling' = settling
    BY <1>8 DEF Settle
  <2>2. settling' \subseteq Build
    BY <1>t, <2>1 DEF TypeOK
  <2> QED
    BY <1>7, <1>b, <2>1, <2>2
<1>9. ASSUME NEW s \in Submissions, NEW x \in Points, AwardScore(s, x) PROVE SettlementInv'
  BY <1>9, <1>t, <1>p, RulingStep DEF AwardScore, TypeOK
<1>10. ASSUME NEW s \in Submissions, FileAppeal(s) PROVE SettlementInv'
  <2>1. final[s] \in Score
    BY <1>t DEF TypeOK, Snapshot
  <2> QED
    BY <1>10, <1>t, <2>1, RulingStep DEF FileAppeal, TypeOK
<1>11. ASSUME NEW s \in Submissions, SuggestCross(s) PROVE SettlementInv'
  <2>1. /\ status' \in [Submissions -> {"absent", "open", "scored", "locked"}]
        /\ final' \in Snapshot
        /\ UNCHANGED <<sealed, closed, scheme, override, gpa, settling>>
    BY <1>11, <1>t, <1>p, RuledTyped DEF SuggestCross
  <2>2. UNCHANGED <<corrected, runs, late>> /\ status[s] = "scored"
    BY <1>11 DEF SuggestCross
  <2>3. TypeOK'
    BY <1>t, <2>1, <2>2 DEF TypeOK
  <2>4. ~(late = {} /\ \E i \in 1..Len(runs) : runs[i].scheme = scheme)
    BY <1>t, <2>2 DEF RunsInOrder
  <2> QED
    BY <2>1, <2>2, <2>3, <2>4, QuietStep
<1>12. ASSUME NEW s \in Submissions, NEW x \in Points, CorrectSubmission(s, x)
       PROVE  SettlementInv'
  <2>1. corrected' \in [Submissions -> BOOLEAN]
    BY <1>12, <1>t DEF CorrectSubmission, TypeOK
  <2> QED
    BY <1>12, <1>p, <2>1, RulingStep DEF CorrectSubmission
<1>13. ASSUME NEW s \in Submissions, NEW x \in Points, BonusGrant(s, x) PROVE SettlementInv'
  BY <1>13, <1>t, <1>p, RulingStep DEF BonusGrant, TypeOK
<1>14. CASE LinkSettleBegin
  <2>1. UNCHANGED <<itemVars, gateVars, runs, late>> /\ settling' = {SettleBuild}
    BY <1>14 DEF LinkSettleBegin
  <2>2. TypeOK'
    BY <1>t, <1>b, <2>1 DEF TypeOK
  <2> QED
    BY <2>1, <2>2, QuietStep DEF Counted
<1>15. CASE LinkAbort
  <2>1. TypeOK'
    BY <1>15, <1>t DEF LinkAbort, TypeOK
  <2> QED
    BY <1>15, <2>1, QuietStep DEF LinkAbort, Counted
<1>16. ASSUME NEW b \in settling, LinkSettle(b) PROVE SettlementInv'
  <2>1. b \in Build /\ settling' \subseteq Build
    BY <1>16, <1>t DEF TypeOK, LinkSettle
  <2>2. PICK how \in SUBSET {"settle"} :
          how = IF GateOpen /\ ~SettleReuse /\ b = SettleBuild THEN {} ELSE {"settle"}
    BY Zenon
  <2>3. SettlePublish(b, how)
    BY <1>16, <2>2, Zenon DEF LinkSettle
  <2>4. how = {} => b = SettleBuild /\ ~SettleReuse
    BY <2>2
  <2> QED
    BY <1>7, <2>1, <2>3, <2>4
<1>17. CASE UNCHANGED vars
  <2>1. TypeOK'
    BY <1>17, <1>t DEF vars, TypeOK
  <2> QED
    BY <1>17, <2>1, QuietStep DEF vars, Counted
<1> QED
  BY <1>1, <1>2, <1>3, <1>4, <1>5, <1>6, <1>8, <1>9, <1>10, <1>11, <1>12, <1>13, <1>14,
     <1>15, <1>16, <1>17
  DEF Next

\* The inductive invariant holds in every reachable state.
LEMMA SettlementInductive == Spec => []SettlementInv
<1>1. Init => SettlementInv
  BY SettlementInit
<1>2. SettlementInv /\ [Next]_vars => SettlementInv'
  BY SettlementStep
<1> QED
  BY <1>1, <1>2, PTL DEF Spec

-----------------------------------------------------------------------------
(* The theorems.                                                           *)

\* Every variable keeps its type.
THEOREM SettlementTyping == Spec => []TypeOK
<1>1. SettlementInv => TypeOK
  BY DEF SettlementInv
<1> QED
  BY <1>1, SettlementInductive, PTL

\* runSettlementTx publishes no second valid run of a scheme, unless a tool
\* link settles on an old snapshot: schemes may follow each other and leave
\* runs behind, requests may publish behind runs that began later.
THEOREM OneValidRunOfAScheme == Spec => []OneRunPerScheme
<1>1. SettlementInv => OneRunPerScheme
  BY DEF SettlementInv
<1> QED
  BY <1>1, SettlementInductive, PTL

\* A run of the current scheme is the newest one, so that every invalidation
\* takes it away: what it shows are the present scores of all items, also
\* when runs of earlier schemes are still valid.
THEOREM CurrentRunIsUpToDate == Spec => []CurrentRunShowsScores
<1>1. SettlementInv => CurrentRunShowsScores
  BY DEF SettlementInv
<1> QED
  BY <1>1, SettlementInductive, PTL

\* unsealStudent leaves no run of the current scheme that rests on the seal
\* it lifts.
THEOREM CurrentRunKeepsSeals == Spec => []CurrentRunSealed
<1>1. SettlementInv => CurrentRunSealed
  BY DEF SettlementInv
<1> QED
  BY <1>1, SettlementInductive, PTL

-----------------------------------------------------------------------------
(* The arithmetic of a settlement: rounding, quotas and places              *)

\* math.Round keeps the order of what it rounds.
LEMMA RoundedMonotone ==
  ASSUME NEW n \in Int, NEW m \in Int, n <= m
  PROVE  Rounded(n, 100) \in Int /\ Rounded(m, 100) \in Int /\ Rounded(n, 100) <= Rounded(m, 100)
  BY DEF Rounded

LEMMA RoundedNat == ASSUME NEW n \in Nat PROVE Rounded(n, 100) \in Nat
  BY DEF Rounded

LEMMA ClassSize == ASSUME ScoringAssumption PROVE Cardinality(Ranked) \in Nat /\ IsFiniteSet(Ranked)
  BY FS_CardinalityType DEF ScoringAssumption

LEMMA TimesNat == ASSUME NEW a \in Nat, NEW b \in Nat PROVE a * b \in Nat
  OBVIOUS

LEMMA TimesMonotone == ASSUME NEW a \in Int, NEW b \in Int, a <= b, NEW w \in Nat PROVE a * w <= b * w /\ a * w \in Int /\ b * w \in Int
  OBVIOUS

LEMMA PercentNat == \A p \in 0 .. 100 : p \in Nat
  OBVIOUS

LEMMA QuotaNat == ASSUME ScoringAssumption, NEW p \in 0 .. 100 PROVE Quota(p) \in Nat
<1>1. Cardinality(Ranked) * p \in Nat
  BY ClassSize, TimesNat
<1> QED
  BY <1>1, RoundedNat DEF Quota

\* The places that the tiers up to a ask for
PlacesAsked == [k \in DOMAIN Awards |-> TierQuota(k)]
AskedTo(a) == SumOver(PlacesAsked, 1 .. a)

\* A tier asks for a number of places: quota(size, award.TopPercent).
LEMMA PlacesNat ==
  ASSUME ScoringAssumption
  PROVE  /\ Len(Awards) \in Nat /\ DOMAIN Awards = 1 .. Len(Awards)
         /\ \A k \in 1 .. Len(Awards) : TierQuota(k) \in Nat /\ PlacesAsked[k] = TierQuota(k)
<1>1. /\ Len(Awards) \in Nat /\ DOMAIN Awards = 1 .. Len(Awards)
      /\ \A k \in 1 .. Len(Awards) : Awards[k] \in 0 .. 100
  <2>1. Awards \in Seq(0 .. 100)
    BY DEF ScoringAssumption
  <2>2. Len(Awards) \in Nat /\ DOMAIN Awards = 1 .. Len(Awards)
    BY <2>1
  <2>3. \A k \in 1 .. Len(Awards) : Awards[k] \in 0 .. 100
    BY <2>1, ElementOfSeq
  <2> QED
    BY <2>2, <2>3
<1>2. ASSUME NEW k \in 1 .. Len(Awards) PROVE TierQuota(k) \in Nat /\ PlacesAsked[k] = TierQuota(k)
  <2>1. PICK p : p = Awards[k]
    OBVIOUS
  <2>2. p \in 0 .. 100
    BY <1>1, <2>1
  <2>3. Quota(p) \in Nat
    BY <2>2, QuotaNat
  <2>4. k \in DOMAIN Awards
    BY <1>1
  <2> QED
    BY <2>1, <2>3, <2>4 DEF TierQuota, PlacesAsked
<1> QED
  BY <1>1, <1>2

LEMMA UpToNext == \A a \in Nat : 1 .. a + 1 = (1 .. a) \cup {a + 1} /\ a + 1 \notin 1 .. a
<1> SUFFICES ASSUME NEW a \in Nat PROVE 1 .. a + 1 = (1 .. a) \cup {a + 1} /\ a + 1 \notin 1 .. a
  OBVIOUS
<1>1. \A x : x \in 1 .. a + 1 <=> x \in (1 .. a) \cup {a + 1}
  OBVIOUS
<1> QED
  BY <1>1

LEMMA UpToFinite == ASSUME NEW a \in Nat PROVE IsFiniteSet(1 .. a)
  BY FS_Interval

\* What the tiers up to the next one ask for
LEMMA AskedNext ==
  ASSUME ScoringAssumption, NEW a \in Nat, a < Len(Awards)
  PROVE  AskedTo(a + 1) = AskedTo(a) + TierQuota(a + 1) /\ AskedTo(a) \in Int
<1>1. IsFiniteSet(1 .. a)
  BY UpToFinite
<1>2. 1 .. a + 1 = (1 .. a) \cup {a + 1} /\ a + 1 \notin 1 .. a
  BY UpToNext
<1>3. \A k \in 1 .. a : PlacesAsked[k] \in Int
  BY PlacesNat
<1>4. PlacesAsked[a + 1] = TierQuota(a + 1) /\ TierQuota(a + 1) \in Int
  BY PlacesNat
<1>5. SumOver(PlacesAsked, (1 .. a) \cup {a + 1}) = PlacesAsked[a + 1] + SumOver(PlacesAsked, 1 .. a)
  <2>1. PICK x : x = a + 1
    OBVIOUS
  <2>2. PICK S : S = 1 .. a
    OBVIOUS
  <2>3. IsFiniteSet(S) /\ (\A y \in S : PlacesAsked[y] \in Int) /\ x \notin S /\ PlacesAsked[x] \in Int
    BY <1>1, <1>2, <1>3, <1>4, <2>1, <2>2
  <2>4. SumOver(PlacesAsked, S \cup {x}) = PlacesAsked[x] + SumOver(PlacesAsked, S)
    BY <2>3, SumAdd
  <2> QED
    BY <2>1, <2>2, <2>4
<1>6. SumOver(PlacesAsked, 1 .. a) \in Int
  <2>1. PICK S : S = 1 .. a
    OBVIOUS
  <2>2. IsFiniteSet(S) /\ \A y \in S : PlacesAsked[y] \in Int
    BY <1>1, <1>3, <2>1
  <2>3. SumOver(PlacesAsked, S) \in Int
    BY <2>2, SumType
  <2> QED
    BY <2>1, <2>3
<1>7. AskedTo(a) \in Int /\ AskedTo(a + 1) = TierQuota(a + 1) + AskedTo(a)
  BY <1>2, <1>4, <1>5, <1>6 DEF AskedTo
<1> QED
  BY <1>4, <1>7

LEMMA AskedNone == AskedTo(0) = 0
<1>1. 1 .. 0 = {}
  OBVIOUS
<1> QED
  BY <1>1, SumEmpty DEF AskedTo

\* They grow with the tiers.
LEMMA AskedGrows ==
  ASSUME ScoringAssumption
  PROVE  \A b \in 0 .. Len(Awards) : AskedTo(b) \in Nat /\ \A a \in 0 .. b : AskedTo(a) <= AskedTo(b)
<1> DEFINE T == {b \in Nat : b <= Len(Awards) => AskedTo(b) \in Nat /\ \A a \in 0 .. b : AskedTo(a) <= AskedTo(b)}
<1>1. 0 \in T
  BY AskedNone
<1>2. ASSUME NEW n \in Nat, n \in T PROVE n + 1 \in T
  <2>1. CASE n < Len(Awards)
    <3>1. AskedTo(n + 1) = AskedTo(n) + TierQuota(n + 1) /\ TierQuota(n + 1) \in Nat
      BY <2>1, AskedNext, PlacesNat
    <3>2. AskedTo(n) \in Nat /\ \A a \in 0 .. n : AskedTo(a) <= AskedTo(n)
      BY <1>2, <2>1, PlacesNat
    <3>3. AskedTo(n + 1) \in Nat /\ AskedTo(n) <= AskedTo(n + 1)
      BY <3>1, <3>2
    <3>4. \A a \in 0 .. n : AskedTo(a) \in Int
      <4>1. ASSUME NEW a \in 0 .. n PROVE AskedTo(a) \in Int
        BY <2>1, AskedNext, PlacesNat
      <4> QED
        BY <4>1
    <3>5. ASSUME NEW a \in 0 .. n + 1 PROVE AskedTo(a) <= AskedTo(n + 1)
      <4>1. CASE a = n + 1
        BY <3>3, <4>1
      <4>2. CASE a \in 0 .. n
        BY <3>2, <3>3, <3>4, <4>2
      <4> QED
        BY <4>1, <4>2
    <3> QED
      BY <3>3, <3>5
  <2>2. CASE ~(n < Len(Awards))
    BY <2>2, PlacesNat
  <2> QED
    BY <2>1, <2>2
<1> HIDE DEF T
<1>3. Nat \subseteq T
  BY <1>1, <1>2, EveryNumber
<1> QED
  BY <1>3, PlacesNat DEF T

-----------------------------------------------------------------------------
(* Ranks: one more than the number of better marks                          *)

Better(marks, n, i) == {j \in 1 .. n : marks[j] > marks[i]}
RankStep(marks, n, r) ==
  [i \in 1 .. n |-> IF i = 1 THEN 1 ELSE IF marks[i] # marks[i - 1] THEN i ELSE r[i - 1]]

LEMMA BetterCounted ==
  ASSUME NEW n \in Nat, NEW marks \in [1 .. n -> Int], NEW i \in 1 .. n
  PROVE  Cardinality(Better(marks, n, i)) \in Nat /\ IsFiniteSet(Better(marks, n, i))
<1>1. IsFiniteSet(1 .. n)
  BY FS_Interval
<1>2. Better(marks, n, i) \in SUBSET (1 .. n)
  BY DEF Better
<1>3. IsFiniteSet(Better(marks, n, i))
  BY <1>1, <1>2, FS_Subset
<1> QED
  BY <1>3, FS_CardinalityType

\* The loop computes it, marks that do not rise given ...
LEMMA RankFixed ==
  ASSUME NEW n \in Nat, NEW marks \in [1 .. n -> Int],
         \A i, j \in 1 .. n : i < j => marks[i] >= marks[j],
         NEW w, w = [i \in 1 .. n |-> 1 + Cardinality(Better(marks, n, i))]
  PROVE  w = RankStep(marks, n, w)
<1>1. ASSUME NEW i \in 1 .. n
      PROVE  w[i] = IF i = 1 THEN 1 ELSE IF marks[i] # marks[i - 1] THEN i ELSE w[i - 1]
  <2>1. CASE i = 1
    <3>1. ASSUME NEW j \in 1 .. n PROVE ~(marks[j] > marks[i])
      <4>1. marks[j] \in Int /\ marks[i] \in Int /\ (j = i \/ marks[i] >= marks[j])
        BY <2>1
      <4> QED
        BY <4>1
    <3>2. Better(marks, n, i) = {}
      BY <3>1 DEF Better
    <3>3. Cardinality(Better(marks, n, i)) = 0
      BY <3>2, FS_EmptySet
    <3>4. w[i] = 1
      BY <3>3
    <3> QED
      BY <2>1, <3>4
  <2>2. CASE i # 1 /\ marks[i] # marks[i - 1]
    <3>1. i - 1 \in 1 .. n /\ marks[i - 1] > marks[i]
      <4>1. i - 1 \in 1 .. n /\ i - 1 < i
        BY <2>2
      <4>2. marks[i - 1] \in Int /\ marks[i] \in Int /\ marks[i - 1] >= marks[i]
        BY <4>1
      <4> QED
        BY <2>2, <4>1, <4>2
    <3>2. ASSUME NEW j \in 1 .. n PROVE marks[j] > marks[i] <=> j <= i - 1
      <4>1. marks[j] \in Int /\ marks[i] \in Int /\ marks[i - 1] \in Int
        BY <3>1
      <4>2. (j < i - 1 => marks[j] >= marks[i - 1]) /\ (i < j => marks[i] >= marks[j])
        BY <3>1
      <4>3. j < i - 1 \/ j = i - 1 \/ j = i \/ i < j
        OBVIOUS
      <4> QED
        BY <3>1, <4>1, <4>2, <4>3
    <3>3. Better(marks, n, i) = 1 .. i - 1
      BY <3>1, <3>2 DEF Better
    <3>4. Cardinality(1 .. i - 1) = i - 1
      BY <3>1, FS_Interval
    <3> QED
      BY <2>2, <3>3, <3>4
  <2>3. CASE i # 1 /\ marks[i] = marks[i - 1]
    <3>1. i - 1 \in 1 .. n
      BY <2>3
    <3>2. Better(marks, n, i) = Better(marks, n, i - 1)
      BY <2>3 DEF Better
    <3> QED
      BY <2>3, <3>1, <3>2
  <2> QED
    BY <2>1, <2>2, <2>3
<1> QED
  BY <1>1 DEF RankStep

\* ... and nothing else solves its equation.
LEMMA RankOnce ==
  ASSUME NEW n \in Nat, NEW marks, NEW v, v = RankStep(marks, n, v), NEW w, w = RankStep(marks, n, w)
  PROVE  v = w
<1> DEFINE T == {k \in Nat : \A i \in 1 .. n : i <= k => v[i] = w[i]}
<1>1. 0 \in T
  OBVIOUS
<1>2. ASSUME NEW k \in Nat, k \in T PROVE k + 1 \in T
  <2>1. ASSUME NEW i \in 1 .. n, i <= k + 1 PROVE v[i] = w[i]
    <3>1. /\ v[i] = IF i = 1 THEN 1 ELSE IF marks[i] # marks[i - 1] THEN i ELSE v[i - 1]
          /\ w[i] = IF i = 1 THEN 1 ELSE IF marks[i] # marks[i - 1] THEN i ELSE w[i - 1]
      BY DEF RankStep
    <3>2. i # 1 => i - 1 \in 1 .. n /\ i - 1 <= k
      BY <2>1
    <3>3. i # 1 => v[i - 1] = w[i - 1]
      BY <1>2, <3>2
    <3> QED
      BY <3>1, <3>3
  <2> QED
    BY <2>1
<1> HIDE DEF T
<1>3. Nat \subseteq T
  BY <1>1, <1>2, EveryNumber
<1>4. \A i \in 1 .. n : v[i] = w[i]
  BY <1>3 DEF T
<1>5. v = [i \in 1 .. n |-> v[i]] /\ w = [i \in 1 .. n |-> w[i]]
  BY DEF RankStep
<1> QED
  BY <1>4, <1>5

\* competitionRank, along marks that do not rise: one more than the number of higher ones.
LEMMA CompetitionCounts ==
  ASSUME NEW n \in Nat, NEW marks \in [1 .. n -> Int],
         \A i, j \in 1 .. n : i < j => marks[i] >= marks[j]
  PROVE  \A i \in 1 .. n : CompetitionRank(marks)[i] = 1 + Cardinality(Better(marks, n, i))
<1>1. PICK w : w = [i \in 1 .. n |-> 1 + Cardinality(Better(marks, n, i))]
  OBVIOUS
<1>2. w = RankStep(marks, n, w)
  BY <1>1, RankFixed
<1>3. PICK r : r = CompetitionRank(marks)
  OBVIOUS
<1>4. r = CHOOSE v : v = RankStep(marks, n, v)
  BY <1>3 DEF CompetitionRank, RankStep
<1>5. r = RankStep(marks, n, r)
  BY <1>2, <1>4
<1>6. r = w
  BY <1>2, <1>5, RankOnce
<1> QED
  BY <1>1, <1>3, <1>6

\* Marks in the order of a list; those with a better one
MarksOf(marks, q, m) == marks = [i \in DOMAIN q |-> m[q[i]]]
AreAbove(B, S, m, s) == B = {t \in S : m[t] > m[s]}

\* A list in an order, along which marks do not rise
InOrder(q, n, S, R) ==
  /\ n \in Nat /\ q \in [1 .. n -> S]
  /\ \A i, j \in 1 .. n : i < j => <<q[i], q[j]>> \in R
  /\ \A i, j \in 1 .. n : q[i] = q[j] => i = j
  /\ \A t \in S : \E i \in 1 .. n : q[i] = t
Falling(m, S, R) == \A s, t \in S : <<s, t>> \in R => m[s] >= m[t]

RankIs(marks, q, s, B) == CompetitionRank(marks)[PlaceOf(s, q)] = 1 + Cardinality(B)

LEMMA ListingInOrder ==
  ASSUME NEW S, IsFiniteSet(S), NEW R, StrictOrder(S, R)
  PROVE  InOrder(Listing(S, R), Cardinality(S), S, R)
  BY Listed DEF InOrder

\* The same of somebody in a listing whose marks do not rise.
LEMMA RankInList ==
  ASSUME NEW S, NEW R, NEW n, NEW q, InOrder(q, n, S, R), NEW m \in [S -> Int], Falling(m, S, R), NEW s \in S,
         NEW marks, MarksOf(marks, q, m), NEW B, AreAbove(B, S, m, s)
  PROVE  RankIs(marks, q, s, B)
<1>3. /\ n \in Nat /\ q \in [1 .. n -> S]
      /\ \A i, j \in 1 .. n : i < j => <<q[i], q[j]>> \in R
      /\ \A i, j \in 1 .. n : q[i] = q[j] => i = j
      /\ \A t \in S : \E i \in 1 .. n : q[i] = t
  BY DEF InOrder
<1>4. marks = [i \in 1 .. n |-> m[q[i]]]
  BY <1>3 DEF MarksOf
<1>5. marks \in [1 .. n -> Int] /\ \A i, j \in 1 .. n : i < j => marks[i] >= marks[j]
  <2>1. marks \in [1 .. n -> Int]
    BY <1>3, <1>4
  <2>2. \A i, j \in 1 .. n : i < j => m[q[i]] >= m[q[j]]
    BY <1>3 DEF Falling
  <2> QED
    BY <1>4, <2>1, <2>2
<1>6. PICK p : p = PlaceOf(s, q)
  OBVIOUS
<1>7. p \in 1 .. n /\ q[p] = s
  <2>1. n \in Nat /\ q \in [1 .. n -> S] /\ \E i \in 1 .. n : q[i] = s
    BY <1>3
  <2>2. PlaceOf(s, q) \in 1 .. n /\ q[PlaceOf(s, q)] = s
    BY <2>1 DEF PlaceOf
  <2> QED
    BY <1>6, <2>2
<1>8. CompetitionRank(marks)[p] = 1 + Cardinality(Better(marks, n, p))
  BY <1>3, <1>5, <1>7, CompetitionCounts
<1>9. Cardinality(B) = Cardinality(Better(marks, n, p))
  <2>1. PICK K : K = Better(marks, n, p)
    OBVIOUS
  <2>2. IsFiniteSet(K)
    BY <1>3, <1>5, <1>7, <2>1, BetterCounted
  <2>3. K \subseteq 1 .. n /\ \A k, l \in K : q[k] = q[l] => k = l
    BY <1>3, <2>1 DEF Better
  <2>4. Cardinality({q[k] : k \in K}) = Cardinality(K)
    BY <2>2, <2>3, CountMapped
  <2>5. \A k \in 1 .. n : k \in K <=> m[q[k]] > m[s]
    BY <1>4, <1>7, <2>1 DEF Better
  <2>6. {q[k] : k \in K} = {t \in S : m[t] > m[s]}
    <3>1. ASSUME NEW k \in K PROVE q[k] \in {t \in S : m[t] > m[s]}
      BY <1>3, <2>3, <2>5
    <3>2. ASSUME NEW t \in S, m[t] > m[s] PROVE \E k \in K : q[k] = t
      <4>1. PICK k \in 1 .. n : q[k] = t
        BY <1>3
      <4> QED
        BY <2>5, <3>2, <4>1
    <3> QED
      BY <3>1, <3>2
  <2> QED
    BY <2>1, <2>4, <2>6 DEF AreAbove
<1> QED
  BY <1>6, <1>8, <1>9 DEF RankIs

-----------------------------------------------------------------------------
(* The state of a settlement                                                *)

GradeRows == [DOMAIN Weights -> Grades \cup {0}]
SheetRow ==
  [at : {"none", "award", "done"}, order : {<<>>} \cup [1 .. Cardinality(Ranked) -> Ranked],
   tier : Seq(1 .. Len(Awards)), award : 1 .. Len(Awards) + 1, left : Nat]
DecidedRow == [rule : ItemRules, score : Marks, shared : SharedCaps]
ScoringRow ==
  [at : {"idle", "items", "chosen"}, i : Nat, chosen : [Exclusives -> Nat], plain : Seq(Nat \ {0}), base : Int]

\* Totals

LEMMA GradeInt ==
  ASSUME ScoringAssumption, grade \in [Ranked -> GradeRows], NEW s \in Ranked, NEW c \in DOMAIN Weights
  PROVE  grade[s][c] \in Int /\ Weights[c] \in Nat
<1>1. PICK w : w = Weights[c]
  OBVIOUS
<1>2. w \in 0 .. 100
  BY <1>1 DEF ScoringAssumption
<1>3. PICK n : n = grade[s][c]
  OBVIOUS
<1>4. n \in Grades \cup {0}
  <2>1. grade[s] \in [DOMAIN Weights -> Grades \cup {0}]
    BY DEF GradeRows
  <2> QED
    BY <1>3, <2>1
<1>5. n \in Int
  <2>1. Grades \subseteq Int
    BY DEF ScoringAssumption
  <2> QED
    BY <1>4, <2>1
<1>6. w \in Nat
  BY <1>2, PercentNat
<1> QED
  BY <1>1, <1>3, <1>5, <1>6

\* More points in a category weigh no less.
LEMMA WeighedMonotone ==
  ASSUME ScoringAssumption, grade \in [Ranked -> GradeRows], NEW s \in Ranked, NEW t \in Ranked,
         NEW c \in DOMAIN Weights, grade[s][c] <= grade[t][c]
  PROVE  Weighed(s)[c] \in Int /\ Weighed(t)[c] \in Int /\ Weighed(s)[c] <= Weighed(t)[c]
<1>1. PICK a, b : a = grade[s][c] /\ b = grade[t][c]
  OBVIOUS
<1>2. PICK w : w = Weights[c]
  OBVIOUS
<1>3. a \in Int /\ b \in Int /\ w \in Nat /\ a <= b
  BY <1>1, <1>2, GradeInt
<1>4. a * w <= b * w /\ a * w \in Int /\ b * w \in Int
  BY <1>3, TimesMonotone
<1>5. PICK x, y : x = a * w /\ y = b * w
  OBVIOUS
<1>6. /\ Rounded(x, 100) \in Int /\ Rounded(y, 100) \in Int /\ Rounded(x, 100) <= Rounded(y, 100)
  BY <1>4, <1>5, RoundedMonotone
<1>7. Weighed(s)[c] = Rounded(x, 100) /\ Weighed(t)[c] = Rounded(y, 100)
  BY <1>1, <1>2, <1>5 DEF Weighed
<1> QED
  BY <1>6, <1>7

LEMMA CategoriesFinite == ScoringAssumption => IsFiniteSet(DOMAIN Weights) /\ "major" \in DOMAIN Weights
  BY DEF ScoringAssumption

LEMMA TotalInt ==
  ASSUME ScoringAssumption, grade \in [Ranked -> GradeRows], NEW s \in Ranked
  PROVE  Total(s) \in Int
<1>1. \A c \in DOMAIN Weights : Weighed(s)[c] \in Int
  <2>1. ASSUME NEW c \in DOMAIN Weights PROVE Weighed(s)[c] \in Int
    <3>1. grade[s][c] <= grade[s][c]
      BY GradeInt
    <3> QED
      BY <3>1, WeighedMonotone
  <2> QED
    BY <2>1
<1> QED
  BY <1>1, CategoriesFinite, SumType DEF Total

\* Who is at least as good everywhere has at least the total.
LEMMA TotalMonotone ==
  ASSUME ScoringAssumption, grade \in [Ranked -> GradeRows], NEW s \in Ranked, NEW t \in Ranked,
         \A c \in DOMAIN Weights : grade[s][c] <= grade[t][c]
  PROVE  Total(s) <= Total(t)
<1>1. \A c \in DOMAIN Weights :
        Weighed(s)[c] \in Int /\ Weighed(t)[c] \in Int /\ Weighed(s)[c] <= Weighed(t)[c]
  BY WeighedMonotone
<1> QED
  BY <1>1, CategoriesFinite, SumMonotone DEF Total

\* Total, major and student number order the class strictly: no two students tie.
LEMMA ClassOrderStrict ==
  ASSUME ScoringAssumption, grade \in [Ranked -> GradeRows]
  PROVE  StrictOrder(Ranked, ClassOrder)
<1>1. PICK m : m = [s \in Ranked |-> Total(s)]
  OBVIOUS
<1>2. PICK g : g = [s \in Ranked |-> grade[s]["major"]]
  OBVIOUS
<1>3. \A s \in Ranked : m[s] \in Int /\ g[s] \in Int /\ s \in Nat
  <2>1. Ranked \subseteq Nat
    BY DEF ScoringAssumption
  <2> QED
    BY <1>1, <1>2, <2>1, TotalInt, GradeInt, CategoriesFinite
<1>4. ClassOrder = {p \in Ranked \X Ranked :
        \/ m[p[1]] > m[p[2]]
        \/ m[p[1]] = m[p[2]] /\ (g[p[1]] > g[p[2]] \/ (g[p[1]] = g[p[2]] /\ p[1] < p[2]))}
  BY <1>1, <1>2 DEF ClassOrder, Ahead
<1>5. \A s, t \in Ranked : <<s, t>> \in ClassOrder <=>
        \/ m[s] > m[t]
        \/ m[s] = m[t] /\ (g[s] > g[t] \/ (g[s] = g[t] /\ s < t))
  BY <1>4
<1>6. \A s \in Ranked : <<s, s>> \notin ClassOrder
  BY <1>3, <1>5
<1>7. ASSUME NEW s \in Ranked, NEW t \in Ranked, NEW u \in Ranked,
             <<s, t>> \in ClassOrder, <<t, u>> \in ClassOrder
      PROVE  <<s, u>> \in ClassOrder
  <2>1. /\ m[s] > m[t] \/ (m[s] = m[t] /\ (g[s] > g[t] \/ (g[s] = g[t] /\ s < t)))
        /\ m[t] > m[u] \/ (m[t] = m[u] /\ (g[t] > g[u] \/ (g[t] = g[u] /\ t < u)))
    BY <1>5, <1>7
  <2>2. /\ m[s] \in Int /\ m[t] \in Int /\ m[u] \in Int /\ g[s] \in Int /\ g[t] \in Int /\ g[u] \in Int
        /\ s \in Int /\ t \in Int /\ u \in Int
    BY <1>3
  <2>3. m[s] > m[u] \/ (m[s] = m[u] /\ (g[s] > g[u] \/ (g[s] = g[u] /\ s < u)))
    BY <2>1, <2>2
  <2> QED
    BY <1>5, <2>3
<1>8. ASSUME NEW s \in Ranked, NEW t \in Ranked, s # t
      PROVE  <<s, t>> \in ClassOrder \/ <<t, s>> \in ClassOrder
  <2>1. /\ m[s] \in Int /\ m[t] \in Int /\ g[s] \in Int /\ g[t] \in Int /\ s \in Int /\ t \in Int
    BY <1>3
  <2>2. \/ m[s] > m[t] \/ (m[s] = m[t] /\ (g[s] > g[t] \/ (g[s] = g[t] /\ s < t)))
        \/ m[t] > m[s] \/ (m[t] = m[s] /\ (g[t] > g[s] \/ (g[t] = g[s] /\ t < s)))
    BY <1>8, <2>1
  <2> QED
    BY <1>5, <2>2
<1> QED
  BY <1>6, <1>7, <1>8 DEF StrictOrder

\* So do the points of one category and the number.
LEMMA CategoryOrderStrict ==
  ASSUME ScoringAssumption, grade \in [Ranked -> GradeRows], NEW c \in DOMAIN Weights
  PROVE  StrictOrder(Ranked, CategoryOrder(c))
<1>1. PICK g : g = [s \in Ranked |-> grade[s][c]]
  OBVIOUS
<1>2. \A s \in Ranked : g[s] \in Int /\ s \in Nat
  <2>1. Ranked \subseteq Nat
    BY DEF ScoringAssumption
  <2> QED
    BY <1>1, <2>1, GradeInt
<1>3. \A s, t \in Ranked : <<s, t>> \in CategoryOrder(c) <=> g[s] > g[t] \/ (g[s] = g[t] /\ s < t)
  BY <1>1 DEF CategoryOrder
<1>4. \A s \in Ranked : <<s, s>> \notin CategoryOrder(c)
  BY <1>2, <1>3
<1>5. ASSUME NEW s \in Ranked, NEW t \in Ranked, NEW u \in Ranked,
             <<s, t>> \in CategoryOrder(c), <<t, u>> \in CategoryOrder(c)
      PROVE  <<s, u>> \in CategoryOrder(c)
  <2>1. /\ g[s] > g[t] \/ (g[s] = g[t] /\ s < t)
        /\ g[t] > g[u] \/ (g[t] = g[u] /\ t < u)
    BY <1>3, <1>5
  <2>2. g[s] \in Int /\ g[t] \in Int /\ g[u] \in Int /\ s \in Nat /\ t \in Nat /\ u \in Nat
    BY <1>2
  <2>3. g[s] > g[u] \/ (g[s] = g[u] /\ s < u)
    BY <2>1, <2>2
  <2> QED
    BY <1>3, <2>3
<1>6. ASSUME NEW s \in Ranked, NEW t \in Ranked, s # t
      PROVE  <<s, t>> \in CategoryOrder(c) \/ <<t, s>> \in CategoryOrder(c)
  <2>1. g[s] \in Int /\ g[t] \in Int /\ s \in Int /\ t \in Int
    BY <1>2
  <2>2. g[s] > g[t] \/ (g[s] = g[t] /\ s < t) \/ g[t] > g[s] \/ (g[t] = g[s] /\ t < s)
    BY <1>6, <2>1
  <2> QED
    BY <1>3, <2>2
<1> QED
  BY <1>4, <1>5, <1>6 DEF StrictOrder

\* The places handed out so far are those that the tiers before ask for, and those given
\* of the tier at hand.
Tiered(x) ==
  /\ Len(x.tier) <= Cardinality(Ranked)
  /\ x.award <= Len(Awards) => Len(x.tier) + x.left = AskedTo(x.award) /\ x.left <= TierQuota(x.award)
  /\ x.award = Len(Awards) + 1 => x.left = 0 /\ Len(x.tier) = AskedTo(Len(Awards))
  /\ \A i \in 1 .. Len(x.tier) : AskedTo(x.tier[i] - 1) < i /\ i <= AskedTo(x.tier[i])
  /\ x.at = "done" => x.award = Len(Awards) + 1 \/ Len(x.tier) = Cardinality(Ranked)

SheetSound ==
  /\ grade \in [Ranked -> GradeRows]
  /\ sheet \in SheetRow
  /\ sheet.at # "none" => sheet.order = Listing(Ranked, ClassOrder) /\ Tiered(sheet)

LEMMA OrderLength ==
  ASSUME ScoringAssumption, NEW q \in [1 .. Cardinality(Ranked) -> Ranked]
  PROVE  Len(q) = Cardinality(Ranked) /\ DOMAIN q = 1 .. Cardinality(Ranked)
<1>1. PICK n \in Nat : n = Cardinality(Ranked)
  BY ClassSize
<1>2. q \in [1 .. n -> Ranked]
  BY <1>1
<1>3. q \in Seq(Ranked)
  BY <1>2, SeqDef
<1>4. DOMAIN q = 1 .. Len(q) /\ Len(q) \in Nat
  BY <1>3, LenProperties
<1>5. 1 .. n = 1 .. Len(q)
  BY <1>2, <1>4
<1>6. n = Len(q)
  BY <1>4, <1>5
<1> QED
  BY <1>1, <1>2, <1>6

LEMMA ClassListed ==
  ASSUME ScoringAssumption, grade \in [Ranked -> GradeRows]
  PROVE  Listing(Ranked, ClassOrder) \in [1 .. Cardinality(Ranked) -> Ranked]
  BY ClassSize, ClassOrderStrict, Listed

LEMMA TierParts ==
  ASSUME NEW x \in SheetRow
  PROVE  /\ x.tier \in Seq(1 .. Len(Awards)) /\ Len(x.tier) \in Nat
         /\ \A i \in 1 .. Len(x.tier) : x.tier[i] \in 1 .. Len(Awards)
         /\ x.award \in 1 .. Len(Awards) + 1 /\ x.left \in Nat
<1>1. /\ x.tier \in Seq(1 .. Len(Awards)) /\ x.award \in 1 .. Len(Awards) + 1 /\ x.left \in Nat
  BY DEF SheetRow
<1>2. Len(x.tier) \in Nat
  BY <1>1, LenProperties
<1>3. \A i \in 1 .. Len(x.tier) : x.tier[i] \in 1 .. Len(Awards)
  BY <1>1, ElementOfSeq
<1> QED
  BY <1>1, <1>2, <1>3

\* A place of the tier at hand
LEMMA TierGiven ==
  ASSUME ScoringAssumption, NEW x \in SheetRow, Tiered(x), x.left > 0, Len(x.tier) # Cardinality(Ranked),
         x.award <= Len(Awards), x.at = "award",
         NEW y, y = [x EXCEPT !.tier = Append(x.tier, x.award), !.left = x.left - 1]
  PROVE  y \in SheetRow /\ Tiered(y)
<1>0. PICK l, q : l = x.left /\ q = Append(x.tier, x.award)
  OBVIOUS
<1>1. PICK n, a : n = Len(x.tier) /\ a = x.award
  OBVIOUS
<1>2. n \in Nat /\ l \in Nat /\ a \in 1 .. Len(Awards) /\ Len(Awards) \in Nat /\ Cardinality(Ranked) \in Nat
  BY <1>0, <1>1, TierParts, PlacesNat, ClassSize
<1>3. /\ q \in Seq(1 .. Len(Awards)) /\ Len(q) = n + 1
      /\ \A i \in 1 .. n : q[i] = x.tier[i]
      /\ q[n + 1] = a
  BY <1>0, <1>1, <1>2, TierParts, AppendProperties
<1>4. /\ y.tier = q /\ y.left = l - 1 /\ y.award = a /\ y.at = x.at /\ y.order = x.order
      /\ y = [at |-> x.at, order |-> x.order, tier |-> q, award |-> a, left |-> l - 1]
  BY <1>0, <1>1 DEF SheetRow
<1>5. y \in SheetRow
  <2>1. l - 1 \in Nat /\ a \in 1 .. Len(Awards) + 1
    BY <1>0, <1>1, <1>2
  <2> QED
    BY <1>3, <1>4, <2>1 DEF SheetRow
<1>6. n + l = AskedTo(a) /\ l <= TierQuota(a) /\ TierQuota(a) \in Nat /\ n <= Cardinality(Ranked)
  BY <1>0, <1>1, <1>2, PlacesNat DEF Tiered
<1>7. AskedTo(a - 1) < n + 1 /\ n + 1 <= AskedTo(a)
  <2>1. a - 1 \in Nat /\ a - 1 < Len(Awards) /\ a - 1 + 1 = a
    BY <1>2
  <2>2. PICK b \in Nat : b = a - 1 /\ b < Len(Awards) /\ b + 1 = a
    BY <2>1
  <2>3. AskedTo(b + 1) = AskedTo(b) + TierQuota(b + 1) /\ AskedTo(b) \in Int
    BY <2>2, AskedNext
  <2>4. AskedTo(a) = AskedTo(b) + TierQuota(a)
    BY <2>2, <2>3
  <2>5. PICK p, r, k : p = AskedTo(b) /\ r = AskedTo(a) /\ k = TierQuota(a)
    OBVIOUS
  <2>6. p \in Int /\ k \in Nat /\ r = p + k /\ n + l = r /\ l <= k /\ l > 0
    BY <1>0, <1>6, <2>3, <2>4, <2>5
  <2>7. p < n + 1 /\ n + 1 <= r
    BY <1>2, <2>6
  <2> QED
    BY <2>2, <2>5, <2>7
<1>8. ASSUME NEW i \in 1 .. n + 1 PROVE AskedTo(q[i] - 1) < i /\ i <= AskedTo(q[i])
  <2>1. CASE i = n + 1
    BY <1>3, <1>7, <2>1
  <2>2. CASE i \in 1 .. n
    BY <1>0, <1>1, <1>3, <2>2 DEF Tiered
  <2> QED
    BY <1>2, <2>1, <2>2
<1>9. n + 1 <= Cardinality(Ranked)
  BY <1>0, <1>1, <1>2, <1>6
<1>10. (n + 1) + (l - 1) = AskedTo(a) /\ l - 1 <= TierQuota(a)
  <2>1. (n + 1) + (l - 1) = n + l
    BY <1>2
  <2>2. \A k \in Nat : l <= k => l - 1 <= k
    BY <1>2
  <2> QED
    BY <1>6, <2>1, <2>2
<1>11. a # Len(Awards) + 1
  BY <1>2
<1> QED
  BY <1>3, <1>4, <1>5, <1>8, <1>9, <1>10, <1>11 DEF Tiered

\* On to the next tier
LEMMA TierFilled ==
  ASSUME ScoringAssumption, NEW x \in SheetRow, Tiered(x), x.left = 0, x.award <= Len(Awards), x.at = "award",
         NEW y, y = [x EXCEPT !.award = x.award + 1,
                              !.left = IF x.award < Len(Awards) THEN TierQuota(x.award + 1) ELSE 0]
  PROVE  y \in SheetRow /\ Tiered(y)
<1>0. PICK l : l = IF x.award < Len(Awards) THEN TierQuota(x.award + 1) ELSE 0
  OBVIOUS
<1>1. PICK n, a : n = Len(x.tier) /\ a = x.award
  OBVIOUS
<1>2. n \in Nat /\ a \in 1 .. Len(Awards) /\ Len(Awards) \in Nat /\ Cardinality(Ranked) \in Nat
  BY <1>0, <1>1, TierParts, PlacesNat, ClassSize
<1>3. /\ y = [at |-> x.at, order |-> x.order, tier |-> x.tier, award |-> a + 1, left |-> l]
      /\ y.tier = x.tier /\ y.award = a + 1 /\ y.left = l /\ y.at = x.at
  BY <1>0, <1>1 DEF SheetRow
<1>4. n = AskedTo(a)
  BY <1>0, <1>1, <1>2 DEF Tiered
<1>5. a + 1 \in 1 .. Len(Awards) + 1
  BY <1>2
<1>6. CASE a < Len(Awards)
  <2>1. l = TierQuota(a + 1) /\ l \in Nat
    <3>1. l = TierQuota(a + 1)
      BY <1>0, <1>1, <1>6
    <3>2. a + 1 \in 1 .. Len(Awards)
      BY <1>2, <1>6
    <3> QED
      BY <3>1, <3>2, PlacesNat
  <2>2. AskedTo(a + 1) = n + l
    BY <1>2, <1>4, <1>6, <2>1, AskedNext
  <2>3. y \in SheetRow
    BY <1>3, <1>5, <2>1 DEF SheetRow
  <2>4. l <= TierQuota(a + 1) /\ a + 1 # Len(Awards) + 1
    BY <1>2, <1>6, <2>1
  <2>5. Len(y.tier) <= Cardinality(Ranked) /\ Len(y.tier) + y.left = AskedTo(y.award)
    BY <1>1, <1>3, <2>2 DEF Tiered
  <2>6. \A i \in 1 .. Len(y.tier) : AskedTo(y.tier[i] - 1) < i /\ i <= AskedTo(y.tier[i])
    BY <1>3 DEF Tiered
  <2>7. y.at # "done" /\ y.left <= TierQuota(y.award) /\ y.award # Len(Awards) + 1
    BY <1>3, <2>4
  <2> QED
    BY <2>3, <2>5, <2>6, <2>7 DEF Tiered
<1>7. CASE a = Len(Awards)
  <2>1. l = 0 /\ ~(a + 1 <= Len(Awards))
    BY <1>0, <1>1, <1>2, <1>7
  <2>2. y \in SheetRow
    BY <1>3, <1>5, <2>1 DEF SheetRow
  <2>3. Len(y.tier) <= Cardinality(Ranked) /\ Len(y.tier) = AskedTo(Len(Awards))
    <3>1. Len(x.tier) <= Cardinality(Ranked)
      BY DEF Tiered
    <3>2. y.tier = x.tier /\ Len(x.tier) = AskedTo(Len(Awards))
      BY <1>1, <1>3, <1>4, <1>7
    <3> QED
      BY <3>1, <3>2
  <2>4. \A i \in 1 .. Len(y.tier) : AskedTo(y.tier[i] - 1) < i /\ i <= AskedTo(y.tier[i])
    BY <1>3 DEF Tiered
  <2>5. y.at # "done" /\ y.left = 0 /\ ~(y.award <= Len(Awards))
    BY <1>3, <2>1
  <2> QED
    BY <2>2, <2>3, <2>4, <2>5 DEF Tiered
<1> QED
  BY <1>2, <1>6, <1>7

\* awardTiers: one place given, or on to the next tier.
LEMMA HandOutSound ==
  ASSUME ScoringAssumption, SheetSound, HandOut
  PROVE  SheetSound'
<1>1. PICK x \in SheetRow : x = sheet
  BY DEF SheetSound
<1>2. x.at = "award" /\ x.order = Listing(Ranked, ClassOrder) /\ Tiered(x) /\ grade' = grade
  BY <1>1 DEF HandOut, SheetSound
<1>3. ClassOrder' = ClassOrder /\ grade' \in [Ranked -> GradeRows]
  BY <1>2 DEF SheetSound, ClassOrder, Ahead, Total, Weighed
<1>4. Len(x.order) = Cardinality(Ranked)
  BY <1>2, ClassListed, OrderLength DEF SheetSound
<1>5. x.award \in 1 .. Len(Awards) + 1 /\ x.left \in Nat /\ Len(Awards) \in Nat
  BY TierParts, PlacesNat
<1>6. CASE x.award > Len(Awards) \/ Len(x.tier) = Len(x.order)
  <2>1. PICK y : y = [x EXCEPT !.at = "done"]
    OBVIOUS
  <2>2. /\ y \in SheetRow /\ y.tier = x.tier /\ y.award = x.award /\ y.left = x.left
        /\ y.order = x.order /\ y.at = "done"
    BY <2>1 DEF SheetRow
  <2>3. sheet' = y
    BY <1>1, <1>6, <2>1 DEF HandOut
  <2>4. y.award = Len(Awards) + 1 \/ Len(y.tier) = Cardinality(Ranked)
    BY <1>4, <1>5, <1>6, <2>2
  <2>5. Tiered(y)
    BY <1>2, <2>2, <2>4 DEF Tiered
  <2> QED
    BY <1>2, <1>3, <2>2, <2>3, <2>5 DEF SheetSound, Tiered, AskedTo, PlacesAsked, TierQuota, Quota
<1>7. CASE ~(x.award > Len(Awards) \/ Len(x.tier) = Len(x.order)) /\ x.left > 0
  <2>1. PICK y : y = [x EXCEPT !.tier = Append(x.tier, x.award), !.left = x.left - 1]
    OBVIOUS
  <2>2. y.order = x.order
    BY <2>1 DEF SheetRow
  <2>3. sheet' = y
    BY <1>1, <1>7, <2>1 DEF HandOut
  <2>4. x.left > 0 /\ Len(x.tier) # Cardinality(Ranked) /\ x.award <= Len(Awards)
    BY <1>4, <1>5, <1>7
  <2>5. y \in SheetRow /\ Tiered(y)
    BY <1>2, <2>1, <2>4, TierGiven
  <2> QED
    BY <1>2, <1>3, <2>2, <2>3, <2>5 DEF SheetSound, Tiered, AskedTo, PlacesAsked, TierQuota, Quota
<1>8. CASE ~(x.award > Len(Awards) \/ Len(x.tier) = Len(x.order)) /\ ~(x.left > 0)
  <2>1. PICK y : y = [x EXCEPT !.award = x.award + 1,
                               !.left = IF x.award < Len(Awards) THEN TierQuota(x.award + 1) ELSE 0]
    OBVIOUS
  <2>2. y.order = x.order
    BY <2>1 DEF SheetRow
  <2>3. sheet' = y
    BY <1>1, <1>8, <2>1 DEF HandOut
  <2>4. x.left = 0 /\ x.award <= Len(Awards)
    BY <1>5, <1>8
  <2>5. y \in SheetRow /\ Tiered(y)
    BY <1>2, <2>1, <2>4, TierFilled
  <2> QED
    BY <1>2, <1>3, <2>2, <2>3, <2>5 DEF SheetSound, Tiered, AskedTo, PlacesAsked, TierQuota, Quota
<1> QED
  BY <1>6, <1>7, <1>8

-----------------------------------------------------------------------------
(* One category                                                             *)

LEMMA DecidedParts ==
  ASSUME ScoringAssumption, decided \in Seq(DecidedRow), NEW i \in 1 .. Len(decided)
  PROVE  /\ decided[i].rule \in ItemRules /\ decided[i].score \in Marks /\ decided[i].shared \in SharedCaps
         /\ CappedMark(i) \in Int /\ ItemScore(i) = CappedMark(i)
         /\ decided[i].shared \in Nat
         /\ decided[i].rule.excl # NoGroup => decided[i].rule.excl \in Exclusives
<1>1. PICK d \in DecidedRow : d = decided[i]
  BY ElementOfSeq
<1>2. d.rule \in ItemRules /\ d.score \in Marks /\ d.shared \in SharedCaps
  BY DEF DecidedRow
<1>3. d.score \in Int /\ d.shared \in Nat
  BY <1>2 DEF ScoringAssumption
<1>4. Min({d.score} \cup d.rule.cap) \in Int
  <2>1. \A n \in d.rule.cap : n \in Int /\ d.rule.cap = {n}
    BY <1>2 DEF ScoringAssumption
  <2>2. CASE d.rule.cap = {}
    <3>1. {d.score} \cup d.rule.cap = {d.score}
      BY <2>2
    <3> QED
      BY <1>3, <3>1, OfOne
  <2>3. CASE d.rule.cap # {}
    <3>1. PICK n \in d.rule.cap : TRUE
      BY <2>3
    <3>2. n \in Int /\ {d.score} \cup d.rule.cap = {d.score, n}
      BY <2>1, <3>1
    <3> QED
      BY <1>3, <3>2, LesserOfTwo
  <2> QED
    BY <2>2, <2>3
<1>5. d.rule.excl # NoGroup => d.rule.excl \in Exclusives
  BY <1>2 DEF Exclusives
<1> QED
  BY <1>1, <1>2, <1>3, <1>4, <1>5 DEF CappedMark, ItemScore

\* Of two items one is better.
LEMMA BeatsOrder ==
  ASSUME ScoringAssumption, decided \in Seq(DecidedRow), NEW i \in 1 .. Len(decided), NEW j \in 1 .. Len(decided)
  PROVE  /\ i # j => Beats(i, j) \/ Beats(j, i)
         /\ \A k \in 1 .. Len(decided) : Beats(i, j) /\ Beats(j, k) => Beats(i, k)
         /\ ~Beats(i, i) /\ ~(Beats(i, j) /\ Beats(j, i))
<1>1. ItemScore(i) \in Int /\ ItemScore(j) \in Int /\ \A k \in 1 .. Len(decided) : ItemScore(k) \in Int
  BY DecidedParts
<1>2. i # j => Beats(i, j) \/ Beats(j, i)
  BY <1>1 DEF Beats
<1>3. ASSUME NEW k \in 1 .. Len(decided), Beats(i, j), Beats(j, k) PROVE Beats(i, k)
  <2>1. ItemScore(k) \in Int
    BY <1>1
  <2> QED
    BY <1>1, <1>3, <2>1 DEF Beats
<1>4. ~Beats(i, i) /\ ~(Beats(i, j) /\ Beats(j, i))
  BY <1>1 DEF Beats
<1> QED
  BY <1>2, <1>3, <1>4

\* An item counts if it beats every other item of its group.
LEMMA CountsBeats ==
  ASSUME ScoringAssumption, decided \in Seq(DecidedRow), NEW i \in 1 .. Len(decided)
  PROVE  Counts(i) <=> \/ decided[i].rule.excl = NoGroup
                       \/ \A j \in 1 .. Len(decided) :
                            decided[j].rule.excl = decided[i].rule.excl => j = i \/ Beats(i, j)
<1>1. DOMAIN decided = 1 .. Len(decided)
  BY LenProperties
<1>2. \A j \in 1 .. Len(decided) : CappedMark(j) \in Int /\ ItemScore(j) = CappedMark(j)
  BY DecidedParts
<1>3. ASSUME NEW j \in 1 .. Len(decided)
      PROVE  (CappedMark(i) > CappedMark(j) \/ (CappedMark(i) = CappedMark(j) /\ i <= j)) <=> (j = i \/ Beats(i, j))
  <2>1. /\ CappedMark(i) \in Int /\ CappedMark(j) \in Int
        /\ ItemScore(i) = CappedMark(i) /\ ItemScore(j) = CappedMark(j)
    BY <1>2
  <2> QED
    BY <2>1 DEF Beats
<1> QED
  BY <1>1, <1>3 DEF Counts

\* While the items are taken: those of no group, and the best so far of every group.
ItemsSound(i, plain, chosen) ==
  /\ i <= Len(decided)
  /\ \A k \in 1 .. Len(plain) : plain[k] \in 1 .. i /\ decided[plain[k]].rule.excl = NoGroup
  /\ \A k, l \in 1 .. Len(plain) : plain[k] = plain[l] => k = l
  /\ \A j \in 1 .. i : decided[j].rule.excl = NoGroup => \E k \in 1 .. Len(plain) : plain[k] = j
  /\ \A g \in Exclusives : chosen[g] = 0 => \A j \in 1 .. i : decided[j].rule.excl # g
  /\ \A g \in Exclusives : chosen[g] # 0 =>
       /\ chosen[g] \in 1 .. i /\ decided[chosen[g]].rule.excl = g
       /\ \A j \in 1 .. i : decided[j].rule.excl = g => j = chosen[g] \/ Beats(chosen[g], j)

\* Then, whatever the order of the groups: the items that count are those taken and those
\* still chosen, each once.
TakenSound(i, plain, chosen) ==
  /\ i = Len(decided)
  /\ \A k \in 1 .. Len(plain) : plain[k] \in 1 .. Len(decided) /\ Counts(plain[k])
  /\ \A k, l \in 1 .. Len(plain) : plain[k] = plain[l] => k = l
  /\ \A g \in Exclusives : chosen[g] # 0 =>
       /\ chosen[g] \in 1 .. Len(decided) /\ Counts(chosen[g]) /\ decided[chosen[g]].rule.excl = g
       /\ \A k \in 1 .. Len(plain) : plain[k] # chosen[g]
  /\ \A j \in 1 .. Len(decided) : Counts(j) =>
       \/ \E k \in 1 .. Len(plain) : plain[k] = j
       \/ \E g \in Exclusives : chosen[g] = j

LEMMA ScoringParts ==
  ASSUME NEW x \in ScoringRow
  PROVE  /\ x.plain \in Seq(Nat \ {0}) /\ Len(x.plain) \in Nat /\ DOMAIN x.plain = 1 .. Len(x.plain)
         /\ x.i \in Nat /\ x.chosen \in [Exclusives -> Nat] /\ x.base \in Int
<1>1. x.plain \in Seq(Nat \ {0})
  BY DEF ScoringRow
<1>2. Len(x.plain) \in Nat /\ DOMAIN x.plain = 1 .. Len(x.plain)
  BY <1>1, LenProperties
<1>3. x.i \in Nat /\ x.chosen \in [Exclusives -> Nat] /\ x.base \in Int
  BY DEF ScoringRow
<1> QED
  BY <1>1, <1>2, <1>3

\* All items taken, the best of a group is the best of all.
LEMMA ItemsTaken ==
  ASSUME ScoringAssumption, decided \in Seq(DecidedRow), NEW x \in ScoringRow, ItemsSound(x.i, x.plain, x.chosen), x.i = Len(decided)
  PROVE  TakenSound(x.i, x.plain, x.chosen)
<1>1. \A k \in 1 .. Len(x.plain) : x.plain[k] \in 1 .. Len(decided) /\ Counts(x.plain[k])
  <2>1. ASSUME NEW k \in 1 .. Len(x.plain) PROVE x.plain[k] \in 1 .. Len(decided) /\ Counts(x.plain[k])
    <3>1. PICK j : j = x.plain[k]
      OBVIOUS
    <3>2. j \in 1 .. Len(decided) /\ decided[j].rule.excl = NoGroup
      BY <3>1 DEF ItemsSound
    <3> QED
      BY <3>1, <3>2, CountsBeats
  <2> QED
    BY <2>1
<1>2. ASSUME NEW g \in Exclusives, x.chosen[g] # 0
      PROVE  /\ x.chosen[g] \in 1 .. Len(decided) /\ Counts(x.chosen[g]) /\ decided[x.chosen[g]].rule.excl = g
             /\ \A k \in 1 .. Len(x.plain) : x.plain[k] # x.chosen[g]
  <2>1. PICK c : c = x.chosen[g]
    OBVIOUS
  <2>2. /\ c \in 1 .. Len(decided) /\ decided[c].rule.excl = g
        /\ \A j \in 1 .. Len(decided) : decided[j].rule.excl = g => j = c \/ Beats(c, j)
    BY <1>2, <2>1 DEF ItemsSound
  <2>3. Counts(c)
    BY <2>2, CountsBeats
  <2>4. g # NoGroup
    BY DEF Exclusives
  <2>5. ASSUME NEW k \in 1 .. Len(x.plain) PROVE x.plain[k] # c
    <3>1. decided[x.plain[k]].rule.excl = NoGroup
      BY DEF ItemsSound
    <3> QED
      BY <2>2, <2>4, <3>1
  <2> QED
    BY <2>1, <2>2, <2>3, <2>5
<1>3. ASSUME NEW j \in 1 .. Len(decided), Counts(j)
      PROVE  (\E k \in 1 .. Len(x.plain) : x.plain[k] = j) \/ (\E g \in Exclusives : x.chosen[g] = j)
  <2>1. CASE decided[j].rule.excl = NoGroup
    BY <2>1 DEF ItemsSound
  <2>2. CASE decided[j].rule.excl # NoGroup
    <3>1. PICK g \in Exclusives : g = decided[j].rule.excl
      BY <2>2, DecidedParts
    <3>2. PICK c : c = x.chosen[g]
      OBVIOUS
    <3>3. c # 0
      BY <3>1, <3>2 DEF ItemsSound
    <3>4. c \in 1 .. Len(decided) /\ decided[c].rule.excl = g /\ (j = c \/ Beats(c, j))
      BY <3>1, <3>2, <3>3 DEF ItemsSound
    <3>5. c = j \/ Beats(j, c)
      BY <1>3, <2>2, <3>1, <3>4, CountsBeats
    <3>6. c = j
      BY <3>4, <3>5, BeatsOrder
    <3> QED
      BY <3>2, <3>6
  <2> QED
    BY <2>1, <2>2
<1> QED
  BY <1>1, <1>2, <1>3 DEF ItemsSound, TakenSound

\* One place more; another choice for a group
Longer(q, p, i) == q = Append(p, i)
TakesOver(c, prior, i) == c = IF prior = 0 \/ Beats(i, prior) THEN i ELSE prior
Chose(m, old, g, c) == m = [old EXCEPT ![g] = c]

\* The next item, of no group, better than the best of its group, or not
LEMMA PlainTaken ==
  ASSUME ScoringAssumption, decided \in Seq(DecidedRow), NEW x \in ScoringRow, ItemsSound(x.i, x.plain, x.chosen),
         NEW i, i = x.i + 1, i <= Len(decided), decided[i].rule.excl = NoGroup,
         NEW q, Longer(q, x.plain, i)
  PROVE  q \in Seq(Nat \ {0}) /\ ItemsSound(i, q, x.chosen)
<1>1. PICK n : n = Len(x.plain)
  OBVIOUS
<1>2. n \in Nat /\ x.i \in Nat /\ i \in Nat \ {0} /\ Len(decided) \in Nat
  BY <1>1, ScoringParts, LenProperties
<1>3. q \in Seq(Nat \ {0}) /\ Len(q) = n + 1 /\ (\A k \in 1 .. n : q[k] = x.plain[k]) /\ q[n + 1] = i
  BY <1>1, <1>2, ScoringParts, AppendProperties DEF Longer
<1>6. \A k \in 1 .. n : q[k] \in 1 .. x.i /\ decided[q[k]].rule.excl = NoGroup
  <2>1. \A k \in 1 .. n : x.plain[k] \in 1 .. x.i /\ decided[x.plain[k]].rule.excl = NoGroup
    BY <1>1 DEF ItemsSound
  <2> QED
    BY <1>3, <2>1
<1>7. \A k \in 1 .. n + 1 : q[k] \in 1 .. i /\ decided[q[k]].rule.excl = NoGroup
  <2>1. ASSUME NEW k \in 1 .. n + 1 PROVE q[k] \in 1 .. i /\ decided[q[k]].rule.excl = NoGroup
    <3>1. CASE k = n + 1
      BY <1>2, <1>3, <3>1
    <3>2. CASE k \in 1 .. n
      BY <1>2, <1>6, <3>2
    <3> QED
      BY <1>2, <3>1, <3>2
  <2> QED
    BY <2>1
<1>8. ASSUME NEW k \in 1 .. n + 1, NEW l \in 1 .. n + 1, q[k] = q[l] PROVE k = l
  <2>1. CASE k \in 1 .. n /\ l \in 1 .. n
    BY <1>1, <1>3, <1>8, <2>1 DEF ItemsSound
  <2>2. CASE k \in 1 .. n /\ l = n + 1
    BY <1>2, <1>3, <1>6, <1>8, <2>2
  <2>3. CASE k = n + 1 /\ l \in 1 .. n
    BY <1>2, <1>3, <1>6, <1>8, <2>3
  <2> QED
    BY <1>2, <2>1, <2>2, <2>3
<1>9. ASSUME NEW j \in 1 .. i, decided[j].rule.excl = NoGroup PROVE \E k \in 1 .. n + 1 : q[k] = j
  <2>1. CASE j = i
    BY <1>2, <1>3, <2>1
  <2>2. CASE j \in 1 .. x.i
    <3>1. PICK k \in 1 .. n : x.plain[k] = j
      BY <1>1, <1>9, <2>2 DEF ItemsSound
    <3> QED
      BY <1>2, <1>3, <3>1
  <2> QED
    BY <1>2, <2>1, <2>2
<1>10. ASSUME NEW g \in Exclusives, x.chosen[g] = 0, NEW j \in 1 .. i PROVE decided[j].rule.excl # g
  <2>1. g # NoGroup
    BY DEF Exclusives
  <2>2. CASE j = i
    BY <2>1, <2>2
  <2>3. CASE j \in 1 .. x.i
    BY <1>10, <2>3 DEF ItemsSound
  <2> QED
    BY <1>2, <2>2, <2>3
<1>11. ASSUME NEW g \in Exclusives, x.chosen[g] # 0
       PROVE  /\ x.chosen[g] \in 1 .. i /\ decided[x.chosen[g]].rule.excl = g
              /\ \A j \in 1 .. i : decided[j].rule.excl = g => j = x.chosen[g] \/ Beats(x.chosen[g], j)
  <2>1. g # NoGroup
    BY DEF Exclusives
  <2>2. PICK c : c = x.chosen[g]
    OBVIOUS
  <2>3. /\ c \in 1 .. x.i /\ decided[c].rule.excl = g
        /\ \A j \in 1 .. x.i : decided[j].rule.excl = g => j = c \/ Beats(c, j)
    BY <1>11, <2>2 DEF ItemsSound
  <2>4. ASSUME NEW j \in 1 .. i, decided[j].rule.excl = g PROVE j = c \/ Beats(c, j)
    <3>1. j # i
      BY <2>1, <2>4
    <3>2. j \in 1 .. x.i
      BY <1>2, <3>1
    <3> QED
      BY <2>3, <2>4, <3>2
  <2>5. c \in 1 .. i
    BY <1>2, <2>3
  <2> QED
    BY <2>2, <2>3, <2>4, <2>5
<1>12. i <= Len(decided)
  OBVIOUS
<1>13. ItemsSound(i, q, x.chosen)
  BY <1>3, <1>7, <1>8, <1>9, <1>10, <1>11, <1>12 DEF ItemsSound
<1> QED
  BY <1>3, <1>13

\* The new item of a group, or the one chosen before, is the best of them.
LEMMA GroupTaken ==
  ASSUME ScoringAssumption, decided \in Seq(DecidedRow), NEW x \in ScoringRow, ItemsSound(x.i, x.plain, x.chosen),
         NEW i, i = x.i + 1, i <= Len(decided), NEW g \in Exclusives, decided[i].rule.excl = g,
         NEW c, TakesOver(c, x.chosen[g], i),
         NEW m, Chose(m, x.chosen, g, c)
  PROVE  m \in [Exclusives -> Nat] /\ ItemsSound(i, x.plain, m)
<1>1. x.i \in Nat /\ i \in Nat \ {0} /\ Len(decided) \in Nat /\ x.chosen \in [Exclusives -> Nat]
  BY ScoringParts, LenProperties
<1>2. i \in 1 .. Len(decided) /\ \A j \in 1 .. i : j \in 1 .. Len(decided) /\ (j = i \/ j \in 1 .. x.i)
  BY <1>1
<1>4. /\ c \in 1 .. i /\ decided[c].rule.excl = g
      /\ \A j \in 1 .. i : decided[j].rule.excl = g => j = c \/ Beats(c, j)
  <2>1. CASE x.chosen[g] = 0
    <3>1. \A j \in 1 .. x.i : decided[j].rule.excl # g
      BY <2>1 DEF ItemsSound
    <3>2. c = i
      BY <2>1 DEF TakesOver
    <3> QED
      BY <1>1, <1>2, <3>1, <3>2
  <2>2. CASE x.chosen[g] # 0
    <3>1. PICK p : p = x.chosen[g]
      OBVIOUS
    <3>2. /\ p \in 1 .. x.i /\ decided[p].rule.excl = g
          /\ \A j \in 1 .. x.i : decided[j].rule.excl = g => j = p \/ Beats(p, j)
      BY <2>2, <3>1 DEF ItemsSound
    <3>3. p \in 1 .. Len(decided) /\ p # i /\ p \in 1 .. i
      BY <1>1, <3>2
    <3>4. CASE Beats(i, p)
      <4>1. c = i
        BY <3>1, <3>4 DEF TakesOver
      <4>2. ASSUME NEW j \in 1 .. i, decided[j].rule.excl = g PROVE j = i \/ Beats(i, j)
        <5>1. j = i \/ j = p \/ Beats(p, j)
          BY <1>2, <3>2, <4>2
        <5> QED
          BY <1>2, <3>3, <3>4, <5>1, BeatsOrder
      <4> QED
        BY <1>1, <4>1, <4>2
    <3>5. CASE ~Beats(i, p)
      <4>1. c = p
        BY <2>2, <3>1, <3>5 DEF TakesOver
      <4>2. Beats(p, i)
        BY <1>2, <3>3, <3>5, BeatsOrder
      <4> QED
        BY <1>2, <3>2, <3>3, <4>1, <4>2
    <3> QED
      BY <3>4, <3>5
  <2> QED
    BY <2>1, <2>2
<1>6. m \in [Exclusives -> Nat] /\ m[g] = c /\ \A h \in Exclusives : h # g => m[h] = x.chosen[h]
  BY <1>1, <1>4 DEF Chose
<1>8. /\ \A k \in 1 .. Len(x.plain) : x.plain[k] \in 1 .. i /\ decided[x.plain[k]].rule.excl = NoGroup
      /\ \A k, l \in 1 .. Len(x.plain) : x.plain[k] = x.plain[l] => k = l
  <2>1. \A k \in 1 .. x.i : k \in 1 .. i
    BY <1>1
  <2> QED
    BY <2>1 DEF ItemsSound
<1>9. ASSUME NEW j \in 1 .. i, decided[j].rule.excl = NoGroup PROVE \E k \in 1 .. Len(x.plain) : x.plain[k] = j
  <2>1. j # i
    BY <1>9 DEF Exclusives
  <2> QED
    BY <1>2, <1>9, <2>1 DEF ItemsSound
<1>10. ASSUME NEW h \in Exclusives, m[h] = 0, NEW j \in 1 .. i PROVE decided[j].rule.excl # h
  <2>1. h # g /\ x.chosen[h] = 0
    BY <1>1, <1>4, <1>6, <1>10
  <2> QED
    BY <1>2, <2>1 DEF ItemsSound
<1>11. ASSUME NEW h \in Exclusives, m[h] # 0
       PROVE  /\ m[h] \in 1 .. i /\ decided[m[h]].rule.excl = h
              /\ \A j \in 1 .. i : decided[j].rule.excl = h => j = m[h] \/ Beats(m[h], j)
  <2>1. CASE h = g
    BY <1>4, <1>6, <2>1
  <2>2. CASE h # g
    <3>1. PICK p : p = x.chosen[h]
      OBVIOUS
    <3>2. p = m[h] /\ p # 0 /\ x.chosen[h] # 0
      BY <1>6, <1>11, <2>2, <3>1
    <3>3. /\ p \in 1 .. x.i /\ decided[p].rule.excl = h
          /\ \A j \in 1 .. x.i : decided[j].rule.excl = h => j = p \/ Beats(p, j)
      <4>1. x.chosen[h] \in 1 .. x.i /\ decided[x.chosen[h]].rule.excl = h
        BY <3>2 DEF ItemsSound
      <4>2. \A j \in 1 .. x.i : decided[j].rule.excl = h => j = x.chosen[h] \/ Beats(x.chosen[h], j)
        BY <3>2 DEF ItemsSound
      <4> QED
        BY <3>1, <4>1, <4>2
    <3>4. ASSUME NEW j \in 1 .. i, decided[j].rule.excl = h PROVE j = p \/ Beats(p, j)
      BY <1>2, <2>2, <3>3, <3>4
    <3>5. p \in 1 .. i
      BY <1>1, <3>3
    <3> QED
      BY <3>2, <3>3, <3>4, <3>5
  <2> QED
    BY <2>1, <2>2
<1>12. i <= Len(decided)
  OBVIOUS
<1>13. ItemsSound(i, x.plain, m)
  BY <1>8, <1>9, <1>10, <1>11, <1>12 DEF ItemsSound
<1> QED
  BY <1>6, <1>13

\* One of the chosen after the others
LEMMA ChosenTaken ==
  ASSUME ScoringAssumption, decided \in Seq(DecidedRow), NEW x \in ScoringRow, TakenSound(x.i, x.plain, x.chosen),
         NEW g \in Exclusives, x.chosen[g] # 0,
         NEW q, Longer(q, x.plain, x.chosen[g]), NEW m, Chose(m, x.chosen, g, 0)
  PROVE  q \in Seq(Nat \ {0}) /\ m \in [Exclusives -> Nat] /\ TakenSound(x.i, q, m)
<1>1. PICK n, c : n = Len(x.plain) /\ c = x.chosen[g]
  OBVIOUS
<1>2. /\ n \in Nat /\ x.i \in Nat /\ x.chosen \in [Exclusives -> Nat] /\ c \in Nat \ {0}
      /\ Len(decided) \in Nat
  BY <1>1, ScoringParts, LenProperties
<1>3. q \in Seq(Nat \ {0}) /\ Len(q) = n + 1 /\ (\A k \in 1 .. n : q[k] = x.plain[k]) /\ q[n + 1] = c
  BY <1>1, <1>2, ScoringParts, AppendProperties DEF Longer
<1>5. m \in [Exclusives -> Nat] /\ m[g] = 0 /\ \A h \in Exclusives : h # g => m[h] = x.chosen[h]
  BY <1>1, <1>2 DEF Chose
<1>7. /\ c \in 1 .. Len(decided) /\ Counts(c) /\ decided[c].rule.excl = g
      /\ \A k \in 1 .. n : q[k] # c
  <2>1. /\ c \in 1 .. Len(decided) /\ Counts(c) /\ decided[c].rule.excl = g
        /\ \A k \in 1 .. n : x.plain[k] # c
    BY <1>1 DEF TakenSound
  <2> QED
    BY <1>3, <2>1
<1>8. \A k \in 1 .. n + 1 : q[k] \in 1 .. Len(decided) /\ Counts(q[k])
  <2>1. ASSUME NEW k \in 1 .. n + 1 PROVE q[k] \in 1 .. Len(decided) /\ Counts(q[k])
    <3>1. CASE k = n + 1
      BY <1>3, <1>7, <3>1
    <3>2. CASE k \in 1 .. n
      BY <1>1, <1>3, <3>2 DEF TakenSound
    <3> QED
      BY <1>2, <3>1, <3>2
  <2> QED
    BY <2>1
<1>9. ASSUME NEW k \in 1 .. n + 1, NEW l \in 1 .. n + 1, q[k] = q[l] PROVE k = l
  <2>1. CASE k \in 1 .. n /\ l \in 1 .. n
    <3>1. x.plain[k] = x.plain[l]
      BY <1>3, <1>9, <2>1
    <3>2. \A u, v \in 1 .. Len(x.plain) : x.plain[u] = x.plain[v] => u = v
      BY DEF TakenSound
    <3> QED
      BY <1>1, <2>1, <3>1, <3>2
  <2>2. CASE k \in 1 .. n /\ l = n + 1
    BY <1>3, <1>7, <1>9, <2>2
  <2>3. CASE k = n + 1 /\ l \in 1 .. n
    BY <1>3, <1>7, <1>9, <2>3
  <2> QED
    BY <1>2, <2>1, <2>2, <2>3
<1>10. ASSUME NEW h \in Exclusives, m[h] # 0
       PROVE  /\ m[h] \in 1 .. Len(decided) /\ Counts(m[h]) /\ decided[m[h]].rule.excl = h
              /\ \A k \in 1 .. n + 1 : q[k] # m[h]
  <2>1. PICK p : p = m[h]
    OBVIOUS
  <2>2. h # g /\ p = x.chosen[h]
    BY <1>5, <1>10, <2>1
  <2>3. /\ p \in 1 .. Len(decided) /\ Counts(p) /\ decided[p].rule.excl = h
        /\ \A k \in 1 .. n : q[k] # p
    BY <1>1, <1>3, <1>10, <2>1, <2>2 DEF TakenSound
  <2>4. c # p
    BY <1>7, <2>2, <2>3
  <2>5. ASSUME NEW k \in 1 .. n + 1 PROVE q[k] # p
    <3>1. k = n + 1 \/ k \in 1 .. n
      <4>1. n \in Nat
        BY <1>2
      <4> QED
        BY <4>1
    <3> QED
      BY <1>3, <2>3, <2>4, <3>1
  <2> QED
    BY <2>1, <2>3, <2>5
<1>11. ASSUME NEW j \in 1 .. Len(decided), Counts(j)
       PROVE  (\E k \in 1 .. n + 1 : q[k] = j) \/ (\E h \in Exclusives : m[h] = j)
  <2>1. CASE j = c
    BY <1>2, <1>3, <2>1
  <2>2. CASE j # c
    <3>1. (\E k \in 1 .. n : x.plain[k] = j) \/ (\E h \in Exclusives : x.chosen[h] = j)
      BY <1>1, <1>11 DEF TakenSound
    <3>2. ASSUME NEW k \in 1 .. n, x.plain[k] = j PROVE \E l \in 1 .. n + 1 : q[l] = j
      BY <1>2, <1>3, <3>2
    <3>3. ASSUME NEW h \in Exclusives, x.chosen[h] = j PROVE m[h] = j
      BY <1>1, <1>5, <2>2, <3>3
    <3> QED
      BY <3>1, <3>2, <3>3
  <2> QED
    BY <2>1, <2>2
<1>12. x.i = Len(decided)
  BY DEF TakenSound
<1>13. TakenSound(x.i, q, m)
  <2>1. Len(q) = n + 1
    BY <1>3
  <2>2. \A k \in 1 .. Len(q) : q[k] \in 1 .. Len(decided) /\ Counts(q[k])
    BY <1>8, <2>1
  <2>3. \A k, l \in 1 .. Len(q) : q[k] = q[l] => k = l
    BY <1>9, <2>1
  <2>4. \A h \in Exclusives : m[h] # 0 =>
          /\ m[h] \in 1 .. Len(decided) /\ Counts(m[h]) /\ decided[m[h]].rule.excl = h
          /\ \A k \in 1 .. Len(q) : q[k] # m[h]
    BY <1>10, <2>1
  <2>5. \A j \in 1 .. Len(decided) : Counts(j) =>
          (\E k \in 1 .. Len(q) : q[k] = j) \/ (\E h \in Exclusives : m[h] = j)
    BY <1>11, <2>1
  <2> QED
    BY <1>12, <2>2, <2>3, <2>4, <2>5 DEF TakenSound
<1> QED
  BY <1>3, <1>5, <1>13

\* The items that count, and their marks
MarkOf == [i \in DOMAIN decided |-> CappedMark(i)]
CountedItems == {i \in DOMAIN decided : Counts(i)}
SharedItems == {i \in CountedItems : decided[i].rule.shared}

LEMMA SumsOfItems ==
  ASSUME ScoringAssumption, decided \in Seq(DecidedRow), NEW S, S \subseteq 1 .. Len(decided)
  PROVE  SumOver(MarkOf, S) \in Int
<1>1. DOMAIN decided = 1 .. Len(decided) /\ Len(decided) \in Nat
  BY LenProperties
<1>2. IsFiniteSet(1 .. Len(decided))
  BY <1>1, FS_Interval
<1>3. IsFiniteSet(S)
  BY <1>2, FS_Subset
<1>4. \A i \in S : MarkOf[i] \in Int
  BY <1>1, DecidedParts DEF MarkOf
<1> QED
  BY <1>3, <1>4, SumType

\* The items taken, one by one, are those that count: their scores add up to the same.
LEMMA PlacesAddUp ==
  ASSUME ScoringAssumption, decided \in Seq(DecidedRow), NEW x \in ScoringRow,
         TakenSound(x.i, x.plain, x.chosen), \A g \in Exclusives : x.chosen[g] = 0
  PROVE  /\ SharedPlaces(x.plain) \subseteq 1 .. Len(x.plain)
         /\ SumOver(Scores(x.plain), SharedPlaces(x.plain)) = SumOver(MarkOf, SharedItems)
         /\ SumOver(Scores(x.plain), DOMAIN x.plain \ SharedPlaces(x.plain))
              = SumOver(MarkOf, CountedItems \ SharedItems)
         /\ \A k \in SharedPlaces(x.plain) : x.plain[k] \in SharedItems
         /\ SharedPlaces(x.plain) = {} => SharedItems = {}
<1>1. PICK p, n, P : p = x.plain /\ n = Len(x.plain) /\ P = SharedPlaces(x.plain)
  OBVIOUS
<1>2. n \in Nat /\ DOMAIN p = 1 .. n /\ DOMAIN decided = 1 .. Len(decided) /\ Len(decided) \in Nat
  BY <1>1, ScoringParts, LenProperties
<1>3. P = {k \in 1 .. n : decided[p[k]].rule.shared}
  BY <1>1, <1>2 DEF SharedPlaces
<1>4. /\ \A k \in 1 .. n : p[k] \in 1 .. Len(decided) /\ Counts(p[k])
      /\ \A k, l \in 1 .. n : p[k] = p[l] => k = l
      /\ \A j \in 1 .. Len(decided) : Counts(j) => \E k \in 1 .. n : p[k] = j
  <2>1. /\ \A k \in 1 .. n : p[k] \in 1 .. Len(decided) /\ Counts(p[k])
        /\ \A k, l \in 1 .. n : p[k] = p[l] => k = l
    BY <1>1 DEF TakenSound
  <2>2. ASSUME NEW j \in 1 .. Len(decided), Counts(j) PROVE \E k \in 1 .. n : p[k] = j
    <3>1. (\E k \in 1 .. n : p[k] = j) \/ \E g \in Exclusives : x.chosen[g] = j
      BY <1>1, <2>2 DEF TakenSound
    <3>2. j # 0
      BY <1>2
    <3> QED
      BY <3>1, <3>2
  <2> QED
    BY <2>1, <2>2
<1>5. SharedItems = {p[k] : k \in P}
  BY <1>2, <1>3, <1>4 DEF SharedItems, CountedItems
<1>6. CountedItems \ SharedItems = {p[k] : k \in (1 .. n) \ P}
  BY <1>2, <1>3, <1>4 DEF SharedItems, CountedItems
<1>7. PICK h : h = Scores(p)
  OBVIOUS
<1>8. \A k \in 1 .. n : MarkOf[p[k]] \in Int /\ h[k] = MarkOf[p[k]]
  <2>1. ASSUME NEW k \in 1 .. n PROVE MarkOf[p[k]] \in Int /\ h[k] = MarkOf[p[k]]
    <3>1. PICK i \in 1 .. Len(decided) : i = p[k]
      BY <1>4
    <3>2. CappedMark(i) \in Int /\ ItemScore(i) = CappedMark(i)
      BY DecidedParts
    <3>3. MarkOf[i] = CappedMark(i) /\ h[k] = ItemScore(i)
      BY <1>2, <1>7, <3>1 DEF MarkOf, Scores
    <3> QED
      BY <3>1, <3>2, <3>3
  <2> QED
    BY <2>1
<1>9. ASSUME NEW K, K \subseteq 1 .. n PROVE SumOver(h, K) = SumOver(MarkOf, {p[k] : k \in K})
  <2>1. IsFiniteSet(1 .. n)
    BY <1>2, FS_Interval
  <2>2. IsFiniteSet(K)
    BY <1>9, <2>1, FS_Subset
  <2>3. PICK f : f = MarkOf
    OBVIOUS
  <2>4. PICK q : q = [k \in K |-> p[k]]
    OBVIOUS
  <2>5. /\ \A k \in K : f[q[k]] \in Int /\ h[k] = f[q[k]]
        /\ \A k, l \in K : q[k] = q[l] => k = l
    BY <1>4, <1>8, <1>9, <2>3, <2>4
  <2>6. PICK T : T = {p[k] : k \in K}
    OBVIOUS
  <2>7. q \in [K -> T] /\ \A y \in T : \E k \in K : q[k] = y
    BY <2>4, <2>6
  <2>8. SumOver(h, K) = SumOver(f, T)
    BY <2>2, <2>5, <2>7, SumMapped
  <2> QED
    BY <2>3, <2>6, <2>8
<1>10. P \subseteq 1 .. n /\ (1 .. n) \ P \subseteq 1 .. n
  BY <1>3
<1>11. SumOver(h, P) = SumOver(MarkOf, SharedItems)
  BY <1>5, <1>9, <1>10
<1>12. SumOver(h, (1 .. n) \ P) = SumOver(MarkOf, CountedItems \ SharedItems)
  BY <1>6, <1>9, <1>10
<1>13. (\A k \in P : p[k] \in SharedItems) /\ (P = {} => SharedItems = {})
  BY <1>5
<1> QED
  BY <1>1, <1>2, <1>7, <1>10, <1>11, <1>12, <1>13

\* Caps of snapshots are numbers, and that of a shared item is among them.
LEMMA CapsNat ==
  ASSUME ScoringAssumption, decided \in Seq(DecidedRow)
  PROVE  /\ \A c \in SnapshotCaps : c \in Nat
         /\ \A i \in SharedItems : decided[i].shared \in SnapshotCaps
<1>1. DOMAIN decided = 1 .. Len(decided)
  BY LenProperties
<1>2. \A i \in 1 .. Len(decided) : decided[i].shared \in Nat
  BY DecidedParts
<1> QED
  BY <1>1, <1>2 DEF SnapshotCaps, SharedItems, CountedItems

\* The total that the maps give is one of the document.
LEMMA TotalExplained ==
  ASSUME ScoringAssumption, decided \in Seq(DecidedRow), sharedCap \in SharedCaps, NEW x \in ScoringRow,
         TakenSound(x.i, x.plain, x.chosen), \A g \in Exclusives : x.chosen[g] = 0
  PROVE  /\ Min({ItemTotal(x.plain) + x.base, CategoryMax}) \in Int
         /\ \E c \in SnapshotCaps \cup {sharedCap} :
              /\ SnapshotCaps # {} => c \in SnapshotCaps
              /\ Min({ItemTotal(x.plain) + x.base, CategoryMax}) = CategoryTotal(c, x.base)
<1>1. PICK P, A, G : P = SharedPlaces(x.plain) /\ A = SumOver(MarkOf, CountedItems \ SharedItems)
                     /\ G = SumOver(MarkOf, SharedItems)
  OBVIOUS
<1>2. A \in Int /\ G \in Int
  <2>1. CountedItems \ SharedItems \subseteq 1 .. Len(decided) /\ SharedItems \subseteq 1 .. Len(decided)
    BY LenProperties DEF CountedItems, SharedItems
  <2> QED
    BY <1>1, <2>1, SumsOfItems
<1>3. PICK c \in SnapshotCaps \cup {sharedCap} :
        (SnapshotCaps # {} => c \in SnapshotCaps) /\ c \in Nat /\ GroupTotal(x.plain) = Min({G, c})
  <2>1. CASE P = {}
    <3>1. G = 0
      BY <1>1, <2>1, PlacesAddUp, SumEmpty
    <3>2. sharedCap \in Nat
      BY DEF ScoringAssumption
    <3>3. PICK c \in SnapshotCaps \cup {sharedCap} : (SnapshotCaps # {} => c \in SnapshotCaps) /\ c \in Nat
      <4>1. CASE SnapshotCaps = {}
        BY <3>2, <4>1
      <4>2. CASE SnapshotCaps # {}
        BY <4>2, CapsNat
      <4> QED
        BY <4>1, <4>2
    <3>4. Min({0, c}) = 0
      BY <3>3, LesserOfTwo
    <3> QED
      BY <1>1, <2>1, <3>1, <3>3, <3>4 DEF GroupTotal
  <2>2. CASE P # {}
    <3>1. P \subseteq 1 .. Len(x.plain) /\ Len(x.plain) \in Nat
      BY <1>1, PlacesAddUp, ScoringParts
    <3>2. PICK m \in P : m = Max(P)
      BY <2>2, <3>1, Greatest
    <3>3. PICK c : c = decided[x.plain[m]].shared
      OBVIOUS
    <3>4. c \in SnapshotCaps /\ c \in Nat
      <4>1. x.plain[m] \in SharedItems
        BY <1>1, <3>2, PlacesAddUp
      <4>2. c \in SnapshotCaps
        BY <3>3, <4>1, CapsNat
      <4> QED
        BY <4>2, CapsNat
    <3>5. GroupTotal(x.plain) = Min({G, c})
      BY <1>1, <2>2, <3>2, <3>3, PlacesAddUp DEF GroupTotal
    <3> QED
      BY <3>4, <3>5
  <2> QED
    BY <2>1, <2>2
<1>4. PICK m \in Int : m = Min({G, c})
  <2>1. G \in Int /\ c \in Int
    BY <1>2, <1>3
  <2>2. Min({G, c}) \in Int
    BY <2>1, LesserOfTwo
  <2> QED
    BY <2>2
<1>5. ItemTotal(x.plain) = A + m
  BY <1>1, <1>3, <1>4, PlacesAddUp DEF ItemTotal
<1>6. CategoryTotal(c, x.base) = Min({A + m + x.base, CategoryMax})
  BY <1>1, <1>4 DEF CategoryTotal, CountedItems, SharedItems, MarkOf
<1>7. A + m + x.base \in Int /\ CategoryMax \in Int
  BY <1>2, ScoringParts DEF ScoringAssumption
<1>8. Min({A + m + x.base, CategoryMax}) \in Int
  BY <1>7, LesserOfTwo, ZenonT(60)
<1> QED
  BY <1>3, <1>5, <1>6, <1>8

CategorySound ==
  /\ sharedCap \in SharedCaps /\ revisions \in 0 .. MaxRevisions
  /\ decided \in Seq(DecidedRow) /\ Len(decided) <= MaxDecided
  /\ scoring \in ScoringRow
  /\ scoring.at = "idle" => scoring.i = 0 /\ scoring.plain = <<>> /\ \A g \in Exclusives : scoring.chosen[g] = 0
  /\ scoring.at = "items" => ItemsSound(scoring.i, scoring.plain, scoring.chosen)
  /\ scoring.at = "chosen" => TakenSound(scoring.i, scoring.plain, scoring.chosen)
  /\ card = {} \/ \E n \in Int : card = {n}

ScoringSound == CategorySound /\ SheetSound

LEMMA SheetStays ==
  ASSUME SheetSound, UNCHANGED <<grade, sheet>>
  PROVE  SheetSound'
  BY DEF SheetSound, Tiered, ClassOrder, Ahead, Total, Weighed, AskedTo, PlacesAsked, TierQuota, Quota

\* What is said of a computation depends on the items alone.
LEMMA RowKept ==
  ASSUME NEW x, UNCHANGED decided
  PROVE  /\ ItemsSound(x.i, x.plain, x.chosen)' = ItemsSound(x.i, x.plain, x.chosen)
         /\ TakenSound(x.i, x.plain, x.chosen)' = TakenSound(x.i, x.plain, x.chosen)
<1>1. PICK i, p, m : i = x.i /\ p = x.plain /\ m = x.chosen
  OBVIOUS
<1>2. ItemsSound(i, p, m)' = ItemsSound(i, p, m)
  BY DEF ItemsSound, Beats, ItemScore
<1>3. TakenSound(i, p, m)' = TakenSound(i, p, m)
  BY DEF TakenSound, Counts, CappedMark
<1> QED
  BY <1>1, <1>2, <1>3

LEMMA CategoryStays ==
  ASSUME CategorySound, UNCHANGED <<decided, scoring, card>>,
         sharedCap' \in SharedCaps, revisions' \in 0 .. MaxRevisions
  PROVE  CategorySound'
<1>1. PICK x : x = scoring
  OBVIOUS
<1>2. scoring' = x
  BY <1>1
<1>3. /\ ItemsSound(x.i, x.plain, x.chosen)' = ItemsSound(x.i, x.plain, x.chosen)
      /\ TakenSound(x.i, x.plain, x.chosen)' = TakenSound(x.i, x.plain, x.chosen)
  BY RowKept
<1>4. /\ x.at = "items" => ItemsSound(x.i, x.plain, x.chosen)'
      /\ x.at = "chosen" => TakenSound(x.i, x.plain, x.chosen)'
  BY <1>1, <1>3 DEF CategorySound
<1> QED
  BY <1>1, <1>2, <1>4 DEF CategorySound

LEMMA IdleParts ==
  ASSUME ScoringAssumption, NEW b \in Int, NEW at \in {"idle", "items"},
         NEW y, y = [at |-> at, i |-> 0, chosen |-> [g \in Exclusives |-> 0], plain |-> <<>>, base |-> b]
  PROVE  /\ y \in ScoringRow /\ y.at = at /\ y.i = 0 /\ y.plain = <<>>
         /\ \A g \in Exclusives : y.chosen[g] = 0
         /\ ItemsSound(y.i, y.plain, y.chosen) \/ Len(decided) \notin Nat
<1>1. PICK m : m = [g \in Exclusives |-> 0]
  OBVIOUS
<1>2. m \in [Exclusives -> Nat] /\ \A g \in Exclusives : m[g] = 0
  BY <1>1
<1>3. <<>> \in Seq(Nat \ {0}) /\ Len(<<>>) = 0
  BY EmptySeq
<1>4. /\ y = [at |-> at, i |-> 0, chosen |-> m, plain |-> <<>>, base |-> b]
      /\ y.at = at /\ y.i = 0 /\ y.plain = <<>> /\ y.chosen = m
  BY <1>1
<1>5. y \in ScoringRow
  BY <1>2, <1>3, <1>4 DEF ScoringRow
<1>6. ASSUME Len(decided) \in Nat PROVE ItemsSound(0, <<>>, m)
  BY <1>2, <1>3, <1>6 DEF ItemsSound
<1> QED
  BY <1>2, <1>4, <1>5, <1>6

LEMMA DecideItemSound ==
  ASSUME ScoringAssumption, CategorySound, NEW r \in ItemRules, NEW n \in Marks, DecideItem(r, n)
  PROVE  CategorySound'
<1>1. PICK d : d = [rule |-> r, score |-> n, shared |-> sharedCap]
  OBVIOUS
<1>2. d \in DecidedRow
  BY <1>1 DEF DecidedRow, CategorySound
<1>3. decided' = Append(decided, d) /\ Len(decided) < MaxDecided /\ Len(decided) \in Nat /\ MaxDecided \in Nat
  BY <1>1, LenProperties DEF DecideItem, CategorySound, ScoringAssumption
<1>4. decided' \in Seq(DecidedRow) /\ Len(decided') = Len(decided) + 1
  BY <1>2, <1>3, AppendProperties DEF CategorySound
<1>5. Len(decided') <= MaxDecided
  BY <1>3, <1>4
<1>6. scoring.at = "idle" /\ UNCHANGED <<sharedCap, revisions, scoring, card>>
  BY DEF DecideItem
<1> QED
  BY <1>4, <1>5, <1>6 DEF CategorySound

LEMMA ReviseSchemeSound ==
  ASSUME ScoringAssumption, CategorySound, NEW c \in SharedCaps, ReviseScheme(c)
  PROVE  CategorySound'
<1>1. sharedCap' = c /\ revisions' \in 0 .. MaxRevisions /\ UNCHANGED <<decided, scoring, card>>
  <2>1. revisions \in 0 .. MaxRevisions /\ MaxRevisions \in Nat /\ revisions < MaxRevisions /\ revisions' = revisions + 1
    BY DEF ReviseScheme, CategorySound, ScoringAssumption
  <2>2. revisions' \in 0 .. MaxRevisions
    BY <2>1
  <2> QED
    BY <2>2 DEF ReviseScheme
<1> QED
  BY <1>1, CategoryStays

\* What a step does to the row of a computation, the items as they are
LEMMA RowMoved ==
  ASSUME CategorySound, UNCHANGED <<sharedCap, revisions, decided, card>>, NEW y \in ScoringRow, scoring' = y,
         y.at # "idle", y.at = "items" => ItemsSound(y.i, y.plain, y.chosen),
         y.at = "chosen" => TakenSound(y.i, y.plain, y.chosen)
  PROVE  CategorySound'
<1>1. /\ ItemsSound(y.i, y.plain, y.chosen)' = ItemsSound(y.i, y.plain, y.chosen)
      /\ TakenSound(y.i, y.plain, y.chosen)' = TakenSound(y.i, y.plain, y.chosen)
  BY RowKept
<1>4. /\ y.at = "items" => ItemsSound(y.i, y.plain, y.chosen)'
      /\ y.at = "chosen" => TakenSound(y.i, y.plain, y.chosen)'
  BY <1>1
<1> QED
  BY <1>4 DEF CategorySound

LEMMA StartScoringSound ==
  ASSUME ScoringAssumption, CategorySound, NEW b \in BaseSums, StartScoring(b)
  PROVE  CategorySound'
<1>1. b \in Int
  BY DEF ScoringAssumption
<1>2. PICK y : y = [at |-> "items", i |-> 0, chosen |-> [g \in Exclusives |-> 0], plain |-> <<>>, base |-> b]
  OBVIOUS
<1>3. scoring' = y
  <2>1. PICK m : m = [g \in Exclusives |-> 0]
    OBVIOUS
  <2>2. IdleScoring = [at |-> "idle", i |-> 0, chosen |-> m, plain |-> <<>>, base |-> 0]
    BY <2>1 DEF IdleScoring
  <2>3. scoring' = [at |-> "items", i |-> 0, chosen |-> m, plain |-> <<>>, base |-> b]
    BY <2>2 DEF StartScoring
  <2> QED
    BY <1>2, <2>1, <2>3
<1>4. Len(decided) \in Nat
  BY LenProperties DEF CategorySound
<1>5. y \in ScoringRow /\ y.at = "items" /\ ItemsSound(y.i, y.plain, y.chosen)
  BY <1>1, <1>2, <1>4, IdleParts
<1>6. UNCHANGED <<sharedCap, revisions, decided, card>>
  BY DEF StartScoring
<1> QED
  BY <1>3, <1>5, <1>6, RowMoved

\* The first loop of ComputeCategoryScore
LEMMA TakeItemSound ==
  ASSUME ScoringAssumption, CategorySound, TakeItem
  PROVE  CategorySound'
<1>1. PICK x \in ScoringRow : x = scoring
  BY DEF CategorySound
<1>2. /\ x.at = "items" /\ ItemsSound(x.i, x.plain, x.chosen) /\ x.i < Len(decided)
      /\ decided \in Seq(DecidedRow)
  BY <1>1 DEF TakeItem, CategorySound
<1>3. PICK i : i = x.i + 1
  OBVIOUS
<1>4. i <= Len(decided) /\ i \in 1 .. Len(decided)
  <2>1. x.i \in Nat /\ Len(decided) \in Nat
    BY <1>2, ScoringParts, LenProperties
  <2> QED
    BY <1>2, <1>3, <2>1
<1>5. PICK g : g = decided[i].rule.excl
  OBVIOUS
<1>6. UNCHANGED <<sharedCap, revisions, decided, card>>
  BY DEF TakeItem
<1>7. CASE g = NoGroup
  <2>1. PICK q : Longer(q, x.plain, i)
    BY DEF Longer
  <2>2. decided[i].rule.excl = NoGroup
    BY <1>5, <1>7
  <2>3. q \in Seq(Nat \ {0}) /\ ItemsSound(i, q, x.chosen)
    BY <1>2, <1>3, <1>4, <2>1, <2>2, PlainTaken
  <2>4. PICK y : y = [at |-> "items", i |-> i, chosen |-> x.chosen, plain |-> q, base |-> x.base]
    OBVIOUS
  <2>5. scoring' = y
    <3>1. scoring' = [x EXCEPT !.i = i, !.plain = Append(x.plain, i)]
      BY <1>1, <1>3, <1>5, <1>7 DEF TakeItem
    <3>2. PICK z : z = [x EXCEPT !.i = i, !.plain = Append(x.plain, i)]
      OBVIOUS
    <3>3. z = [at |-> x.at, i |-> i, chosen |-> x.chosen, plain |-> Append(x.plain, i), base |-> x.base]
      BY <3>2 DEF ScoringRow
    <3> QED
      BY <1>2, <2>1, <2>4, <3>1, <3>2, <3>3 DEF Longer
  <2>6. y \in ScoringRow /\ y.at = "items" /\ ItemsSound(y.i, y.plain, y.chosen)
    BY <1>4, <2>3, <2>4, ScoringParts DEF ScoringRow
  <2> QED
    BY <1>6, <2>5, <2>6, RowMoved
<1>8. CASE g # NoGroup
  <2>1. g \in Exclusives
    BY <1>2, <1>4, <1>5, <1>8, DecidedParts
  <2>2. PICK c : TakesOver(c, x.chosen[g], i)
    BY DEF TakesOver
  <2>3. PICK m : Chose(m, x.chosen, g, c)
    BY DEF Chose
  <2>4. m \in [Exclusives -> Nat] /\ ItemsSound(i, x.plain, m)
    BY <1>2, <1>3, <1>4, <1>5, <2>1, <2>2, <2>3, GroupTaken, ZenonT(60)
  <2>5. PICK y : y = [at |-> "items", i |-> i, chosen |-> m, plain |-> x.plain, base |-> x.base]
    OBVIOUS
  <2>6. scoring' = y
    <3>1. CASE x.chosen[g] = 0 \/ Beats(i, x.chosen[g])
      <4>1. scoring' = [x EXCEPT !.i = i, !.chosen[g] = i]
        BY <1>1, <1>3, <1>5, <1>8, <3>1 DEF TakeItem
      <4>2. PICK z : z = [x EXCEPT !.i = i, !.chosen[g] = i]
        OBVIOUS
      <4>4. z = [at |-> x.at, i |-> i, chosen |-> [x.chosen EXCEPT ![g] = i],
                 plain |-> x.plain, base |-> x.base]
        BY <4>2 DEF ScoringRow
      <4>3. [x.chosen EXCEPT ![g] = i] = m
        BY <2>2, <2>3, <3>1 DEF TakesOver, Chose
      <4> QED
        BY <1>2, <2>5, <4>1, <4>2, <4>3, <4>4
    <3>2. CASE ~(x.chosen[g] = 0 \/ Beats(i, x.chosen[g]))
      <4>1. scoring' = [x EXCEPT !.i = i]
        BY <1>1, <1>3, <1>5, <1>8, <3>2 DEF TakeItem
      <4>2. x.chosen \in [Exclusives -> Nat] /\ c = x.chosen[g]
        BY <2>2, <3>2, ScoringParts DEF TakesOver
      <4>3. m = x.chosen
        BY <2>3, <4>2 DEF Chose
      <4>4. PICK z : z = [x EXCEPT !.i = i]
        OBVIOUS
      <4>5. z = [at |-> x.at, i |-> i, chosen |-> x.chosen, plain |-> x.plain, base |-> x.base]
        BY <4>4 DEF ScoringRow
      <4> QED
        BY <1>2, <2>5, <4>1, <4>3, <4>4, <4>5
    <3> QED
      BY <3>1, <3>2
  <2>7. y \in ScoringRow /\ y.at = "items" /\ ItemsSound(y.i, y.plain, y.chosen)
    BY <1>4, <2>4, <2>5, ScoringParts DEF ScoringRow
  <2> QED
    BY <1>6, <2>6, <2>7, RowMoved
<1> QED
  BY <1>7, <1>8

\* All the items taken or all but the chosen
LEMMA AllTaken ==
  ASSUME ScoringAssumption, CategorySound, scoring.at \in {"items", "chosen"}, scoring.i = Len(decided)
  PROVE  TakenSound(scoring.i, scoring.plain, scoring.chosen)
  BY ItemsTaken DEF CategorySound

\* An entry of chosenExclusive, in any order
LEMMA AppendChosenSound ==
  ASSUME ScoringAssumption, CategorySound, NEW g \in Exclusives, AppendChosen(g)
  PROVE  CategorySound'
<1>1. PICK x \in ScoringRow : x = scoring
  BY DEF CategorySound
<1>2. decided \in Seq(DecidedRow) /\ x.chosen[g] # 0
  BY <1>1 DEF CategorySound, AppendChosen
<1>3. TakenSound(x.i, x.plain, x.chosen)
  BY <1>1, AllTaken DEF AppendChosen
<1>4. PICK q, m : Longer(q, x.plain, x.chosen[g]) /\ Chose(m, x.chosen, g, 0)
  BY DEF Longer, Chose
<1>5. q \in Seq(Nat \ {0}) /\ m \in [Exclusives -> Nat] /\ TakenSound(x.i, q, m)
  BY <1>2, <1>3, <1>4, ChosenTaken, ZenonT(60)
<1>8. PICK y : y = [at |-> "chosen", i |-> x.i, chosen |-> m, plain |-> q, base |-> x.base]
  OBVIOUS
<1>6. scoring' = y
  <2>1. scoring' = [x EXCEPT !.at = "chosen", !.chosen[g] = 0, !.plain = Append(x.plain, x.chosen[g])]
    BY <1>1 DEF AppendChosen
  <2>2. [x.chosen EXCEPT ![g] = 0] = m /\ Append(x.plain, x.chosen[g]) = q
    BY <1>4 DEF Longer, Chose
  <2>3. PICK z : z = [x EXCEPT !.at = "chosen", !.chosen[g] = 0, !.plain = Append(x.plain, x.chosen[g])]
    OBVIOUS
  <2>4. z = [at |-> "chosen", i |-> x.i, chosen |-> [x.chosen EXCEPT ![g] = 0],
             plain |-> Append(x.plain, x.chosen[g]), base |-> x.base]
    BY <2>3 DEF ScoringRow
  <2> QED
    BY <1>8, <2>1, <2>2, <2>3, <2>4
<1>9. y \in ScoringRow /\ y.at = "chosen" /\ TakenSound(y.i, y.plain, y.chosen)
  BY <1>5, <1>8, ScoringParts DEF ScoringRow
<1>7. UNCHANGED <<sharedCap, revisions, decided, card>>
  BY DEF AppendChosen
<1> QED
  BY <1>6, <1>7, <1>9, RowMoved

\* What ComputeCategoryScore returns, and the state it leaves
LEMMA ComputeSound ==
  ASSUME ScoringAssumption, CategorySound, ComputeCategoryScore
  PROVE  /\ CategorySound'
         /\ \E c \in SnapshotCaps \cup {sharedCap} :
              (SnapshotCaps # {} => c \in SnapshotCaps) /\ card' = {CategoryTotal(c, scoring.base)}
<1>1. PICK x \in ScoringRow : x = scoring
  BY DEF CategorySound
<1>2. decided \in Seq(DecidedRow) /\ sharedCap \in SharedCaps /\ \A g \in Exclusives : x.chosen[g] = 0
  BY <1>1 DEF CategorySound, ComputeCategoryScore
<1>3. TakenSound(x.i, x.plain, x.chosen)
  BY <1>1, AllTaken DEF ComputeCategoryScore
<1>4. PICK n : n = Min({ItemTotal(x.plain) + x.base, CategoryMax})
  OBVIOUS
<1>5. n \in Int /\ \E c \in SnapshotCaps \cup {sharedCap} :
        (SnapshotCaps # {} => c \in SnapshotCaps) /\ n = CategoryTotal(c, x.base)
  BY <1>2, <1>3, <1>4, TotalExplained
<1>6. card' = {n}
  BY <1>1, <1>4 DEF ComputeCategoryScore
<1>7. PICK y : y = [at |-> "idle", i |-> 0, chosen |-> [g \in Exclusives |-> 0], plain |-> <<>>, base |-> x.base]
  OBVIOUS
<1>8. scoring' = y
  BY <1>1, <1>7 DEF ComputeCategoryScore, IdleScoring
<1>9. y \in ScoringRow /\ y.at = "idle" /\ y.i = 0 /\ y.plain = <<>> /\ \A g \in Exclusives : y.chosen[g] = 0
  BY <1>7, ScoringParts, IdleParts
<1>10. CategorySound'
  <2>1. UNCHANGED <<sharedCap, revisions, decided>>
    BY DEF ComputeCategoryScore
  <2> QED
    BY <1>5, <1>6, <1>8, <1>9, <2>1 DEF CategorySound
<1> QED
  BY <1>1, <1>5, <1>6, <1>10

-----------------------------------------------------------------------------
(* The class                                                                *)

\* importGPA: new marks, no sheet
LEMMA ImportGPASound ==
  ASSUME ScoringAssumption, SheetSound, NEW m \in [Ranked -> {n \in Grades : n >= 0}], ImportGPA(m)
  PROVE  SheetSound'
<1>1. grade' \in [Ranked -> GradeRows]
  <2>1. \A s \in Ranked : grade[s] \in GradeRows /\ m[s] \in Grades \cup {0}
    BY DEF SheetSound
  <2>2. \A s \in Ranked : [grade[s] EXCEPT !["major"] = m[s]] \in GradeRows
    BY <2>1 DEF GradeRows
  <2> QED
    BY <2>2 DEF ImportGPA
<1>2. PICK y : y = NoSheet
  OBVIOUS
<1>3. sheet' = y /\ y.at = "none" /\ y \in SheetRow
  <2>1. <<>> \in Seq(1 .. Len(Awards)) /\ 1 \in 1 .. Len(Awards) + 1
    BY EmptySeq, PlacesNat
  <2> QED
    BY <1>2, <2>1 DEF ImportGPA, NoSheet, SheetRow
<1> QED
  BY <1>1, <1>3 DEF SheetSound

\* Compute up to the tiers: a listing, and no place given yet
LEMMA RankClassSound ==
  ASSUME ScoringAssumption, SheetSound, RankClass
  PROVE  SheetSound'
<1>1. PICK o, l : o = Listing(Ranked, ClassOrder) /\ l = IF Awards = <<>> THEN 0 ELSE TierQuota(1)
  OBVIOUS
<1>2. PICK y : y = [at |-> "award", order |-> o, tier |-> <<>>, award |-> 1, left |-> l]
  OBVIOUS
<1>3. sheet' = y /\ grade' = grade
  BY <1>1, <1>2 DEF RankClass
<1>4. /\ o \in [1 .. Cardinality(Ranked) -> Ranked]
      /\ <<>> \in Seq(1 .. Len(Awards)) /\ Len(<<>>) = 0 /\ 1 \in 1 .. Len(Awards) + 1
      /\ Len(Awards) \in Nat /\ Cardinality(Ranked) \in Nat
  BY <1>1, ClassListed, EmptySeq, PlacesNat, ClassSize DEF SheetSound
<1>5. Awards \in Seq(0 .. 100) /\ (Awards = <<>> <=> Len(Awards) = 0)
  BY EmptySeq DEF ScoringAssumption
<1>6. /\ l \in Nat
      /\ 1 <= Len(Awards) => l = AskedTo(1) /\ l <= TierQuota(1)
      /\ 1 = Len(Awards) + 1 => l = 0 /\ 0 = AskedTo(Len(Awards))
  <2>1. CASE Len(Awards) = 0
    BY <1>1, <1>5, <2>1, AskedNone
  <2>2. CASE Len(Awards) # 0
    <3>1. 0 < Len(Awards) /\ 1 \in 1 .. Len(Awards)
      BY <1>4, <2>2
    <3>2. AskedTo(0 + 1) = AskedTo(0) + TierQuota(0 + 1) /\ TierQuota(1) \in Nat
      BY <3>1, AskedNext, PlacesNat
    <3>3. AskedTo(1) = TierQuota(1)
      BY <3>2, AskedNone
    <3>4. l = TierQuota(1) /\ 1 # Len(Awards) + 1
      BY <1>1, <1>4, <1>5, <2>2
    <3> QED
      BY <3>2, <3>3, <3>4
  <2> QED
    BY <2>1, <2>2
<1>7. y \in SheetRow
  BY <1>2, <1>4, <1>6 DEF SheetRow
<1>8. Tiered(y)
  <2>1. y.tier = <<>> /\ y.award = 1 /\ y.left = l /\ y.at = "award"
    BY <1>2
  <2> QED
    BY <1>4, <1>6, <2>1 DEF Tiered
<1>9. ClassOrder' = ClassOrder
  BY <1>3 DEF ClassOrder, Ahead, Total, Weighed
<1>10. Tiered(y)' /\ y.order = o
  BY <1>2, <1>8 DEF Tiered, AskedTo, PlacesAsked, TierQuota, Quota
<1> QED
  BY <1>1, <1>3, <1>7, <1>9, <1>10 DEF SheetSound

LEMMA ScoringStart == ASSUME ScoringAssumption, ScoringInit PROVE ScoringSound
<1>1. PICK g \in [Ranked -> [DOMAIN Weights \ {"major"} -> Grades]] :
        grade = [s \in Ranked |-> [c \in DOMAIN Weights |-> IF c = "major" THEN 0 ELSE g[s][c]]]
  BY DEF ScoringInit
<1>2. grade \in [Ranked -> GradeRows]
  <2>1. ASSUME NEW s \in Ranked PROVE grade[s] \in GradeRows
    <3>0. g[s] \in [DOMAIN Weights \ {"major"} -> Grades]
      OBVIOUS
    <3>1. PICK h \in [DOMAIN Weights \ {"major"} -> Grades] : h = g[s]
      BY <3>0
    <3>2. grade[s] = [c \in DOMAIN Weights |-> IF c = "major" THEN 0 ELSE h[c]]
      BY <1>1, <3>1
    <3> QED
      BY <3>2 DEF GradeRows
  <2> QED
    BY <1>1, <2>1
<1>3. PICK y : y = NoSheet
  OBVIOUS
<1>4. sheet = y /\ y.at = "none" /\ y \in SheetRow
  <2>1. <<>> \in Seq(1 .. Len(Awards)) /\ 1 \in 1 .. Len(Awards) + 1
    BY EmptySeq, PlacesNat
  <2> QED
    BY <1>3, <2>1 DEF ScoringInit, NoSheet, SheetRow
<1>5. SheetSound
  BY <1>2, <1>4 DEF SheetSound
<1>6. PICK z : z = [at |-> "idle", i |-> 0, chosen |-> [e \in Exclusives |-> 0], plain |-> <<>>, base |-> 0]
  OBVIOUS
<1>7. scoring = z
  BY <1>6 DEF ScoringInit, IdleScoring
<1>8. z \in ScoringRow /\ z.at = "idle" /\ z.i = 0 /\ z.plain = <<>> /\ \A e \in Exclusives : z.chosen[e] = 0
  BY <1>6, IdleParts
<1>9. /\ sharedCap \in SharedCaps /\ revisions \in 0 .. MaxRevisions /\ card = {}
      /\ decided \in Seq(DecidedRow) /\ Len(decided) <= MaxDecided
  <2>1. <<>> \in Seq(DecidedRow) /\ Len(<<>>) = 0 /\ MaxDecided \in Nat /\ MaxRevisions \in Nat
    BY EmptySeq DEF ScoringAssumption
  <2> QED
    BY <2>1 DEF ScoringInit
<1>10. CategorySound
  BY <1>7, <1>8, <1>9 DEF CategorySound
<1> QED
  BY <1>5, <1>10 DEF ScoringSound

\* The inductive invariant, one case per action
LEMMA ScoringStep ==
  ASSUME ScoringAssumption, ScoringSound, [ScoringNext]_scoringVars
  PROVE  ScoringSound'
<1> USE DEF ScoringSound
<1>1. ASSUME NEW r \in ItemRules, NEW n \in Marks, DecideItem(r, n) PROVE ScoringSound'
  <2>1. UNCHANGED <<grade, sheet>>
    BY <1>1 DEF DecideItem
  <2> QED
    BY <1>1, <2>1, DecideItemSound, SheetStays
<1>2. ASSUME NEW c \in SharedCaps, ReviseScheme(c) PROVE ScoringSound'
  <2>1. UNCHANGED <<grade, sheet>>
    BY <1>2 DEF ReviseScheme
  <2> QED
    BY <1>2, <2>1, ReviseSchemeSound, SheetStays
<1>3. ASSUME NEW b \in BaseSums, StartScoring(b) PROVE ScoringSound'
  <2>1. UNCHANGED <<grade, sheet>>
    BY <1>3 DEF StartScoring
  <2> QED
    BY <1>3, <2>1, StartScoringSound, SheetStays
<1>4. CASE TakeItem
  <2>1. UNCHANGED <<grade, sheet>>
    BY <1>4 DEF TakeItem
  <2> QED
    BY <1>4, <2>1, TakeItemSound, SheetStays
<1>5. ASSUME NEW g \in Exclusives, AppendChosen(g) PROVE ScoringSound'
  <2>1. UNCHANGED <<grade, sheet>>
    BY <1>5 DEF AppendChosen
  <2> QED
    BY <1>5, <2>1, AppendChosenSound, SheetStays
<1>6. CASE ComputeCategoryScore
  <2>1. UNCHANGED <<grade, sheet>>
    BY <1>6 DEF ComputeCategoryScore
  <2> QED
    BY <1>6, <2>1, ComputeSound, SheetStays
<1>7. ASSUME UNCHANGED <<sharedCap, revisions, decided, scoring, card>> PROVE CategorySound'
  <2>1. sharedCap' \in SharedCaps /\ revisions' \in 0 .. MaxRevisions
    BY <1>7 DEF CategorySound
  <2> QED
    BY <1>7, <2>1, CategoryStays
<1>8. ASSUME NEW m \in [Ranked -> {n \in Grades : n >= 0}], ImportGPA(m) PROVE ScoringSound'
  <2>1. UNCHANGED <<sharedCap, revisions, decided, scoring, card>>
    BY <1>8 DEF ImportGPA
  <2> QED
    BY <1>7, <1>8, <2>1, ImportGPASound
<1>9. CASE RankClass
  <2>1. UNCHANGED <<sharedCap, revisions, decided, scoring, card>>
    BY <1>9 DEF RankClass
  <2> QED
    BY <1>7, <1>9, <2>1, RankClassSound
<1>10. CASE HandOut
  <2>1. UNCHANGED <<sharedCap, revisions, decided, scoring, card>>
    BY <1>10 DEF HandOut
  <2> QED
    BY <1>7, <1>10, <2>1, HandOutSound
<1>11. CASE UNCHANGED scoringVars
  BY <1>7, <1>11, SheetStays DEF scoringVars
<1> HIDE DEF ScoringSound
<1> QED
  BY <1>1, <1>2, <1>3, <1>4, <1>5, <1>6, <1>8, <1>9, <1>10, <1>11 DEF ScoringNext, CategoryNext, ClassNext

\* It holds in every reachable state.
LEMMA ScoringAlways == ASSUME ScoringAssumption PROVE ScoringSpec => []ScoringSound
<1>1. ScoringInit => ScoringSound
  BY ScoringStart
<1>2. ScoringSound /\ [ScoringNext]_scoringVars => ScoringSound'
  BY ScoringStep
<1> QED
  BY <1>1, <1>2, PTL DEF ScoringSpec

\* ComputeCategoryScore (scheme/score.go): whatever the order in which Go reads its maps, the
\* total is that of the design document, for any number of items, groups and caps; where
\* snapshots of different versions disagree on the shared cap, one of them explains it.
THEOREM CardAlwaysCategoryTotal == ScoringSpec => CardIsCategoryTotal
<1> DEFINE A == scoring.at # "idle" /\ scoring'.at = "idle" =>
                  \E c \in SnapshotCaps \cup {sharedCap} :
                    /\ SnapshotCaps # {} => c \in SnapshotCaps
                    /\ card' = {CategoryTotal(c, scoring.base)}
<1>1. ScoringSound /\ [ScoringNext]_scoringVars => [A]_scoringVars
  <2> SUFFICES ASSUME ScoringSound, ScoringNext, scoring.at # "idle", scoring'.at = "idle" PROVE A
    OBVIOUS
  <2>1. CASE ComputeCategoryScore
    BY <2>1, ComputeSound, ScoringAssumption DEF ScoringSound
  <2>2. ASSUME NEW r \in ItemRules, NEW n \in Marks, DecideItem(r, n) PROVE FALSE
    BY <2>2 DEF DecideItem
  <2>3. ASSUME NEW b \in BaseSums, StartScoring(b) PROVE FALSE
    BY <2>3 DEF StartScoring
  <2>4. ASSUME UNCHANGED scoring PROVE FALSE
    BY <2>4
  <2>5. ASSUME TakeItem PROVE FALSE
    <3>1. scoring'.at = scoring.at
      BY <2>5 DEF TakeItem, ScoringSound, CategorySound, ScoringRow
    <3> QED
      BY <3>1
  <2>6. ASSUME NEW g \in Exclusives, AppendChosen(g) PROVE FALSE
    <3>1. scoring'.at = "chosen"
      BY <2>6 DEF AppendChosen, ScoringSound, CategorySound, ScoringRow
    <3> QED
      BY <3>1
  <2>7. ASSUME NEW c \in SharedCaps, ReviseScheme(c) PROVE FALSE
    BY <2>4, <2>7 DEF ReviseScheme
  <2>8. ASSUME ClassNext PROVE FALSE
    BY <2>4, <2>8 DEF ClassNext, ImportGPA, RankClass, HandOut
  <2> HIDE DEF A
  <2> QED
    BY <2>1, <2>2, <2>3, <2>5, <2>6, <2>7, <2>8 DEF ScoringNext, CategoryNext
<1>2. ScoringSpec => []ScoringSound
  BY ScoringAlways, ScoringAssumption
<1> QED
  BY <1>1, <1>2, PTL DEF ScoringSpec, CardIsCategoryTotal

-----------------------------------------------------------------------------
(* What the invariant says of a sheet                                       *)

\* A sequence without repetition is no longer than the numbers it takes.
LEMMA NoMorePlaces ==
  ASSUME NEW p \in Seq(Nat \ {0}), NEW m \in Nat, \A k \in 1 .. Len(p) : p[k] \in 1 .. m,
         \A k, l \in 1 .. Len(p) : p[k] = p[l] => k = l
  PROVE  Len(p) <= m
<1>1. PICK K, q : K = 1 .. Len(p) /\ q = [k \in 1 .. Len(p) |-> p[k]]
  OBVIOUS
<1>2. IsFiniteSet(K) /\ Cardinality(K) = Len(p) /\ IsFiniteSet(1 .. m) /\ Cardinality(1 .. m) = m
  <2>1. PICK n \in Nat : n = Len(p)
    BY LenProperties
  <2>2. \A k \in Nat : IsFiniteSet(1 .. k) /\ Cardinality(1 .. k) = k
    BY FS_Interval
  <2> QED
    BY <1>1, <2>1, <2>2
<1>3. q \in Injection(K, 1 .. m)
  BY <1>1 DEF Injection, IsInjective
<1>4. Cardinality(K) <= Cardinality(1 .. m)
  BY <1>2, <1>3, FS_Injection
<1> QED
  BY <1>2, <1>4

LEMMA ScoringTyped == ASSUME ScoringAssumption, ScoringSound PROVE ScoringTypeOK
<1>1. sharedCap \in SharedCaps /\ revisions \in 0 .. MaxRevisions /\ Len(decided) <= MaxDecided
  BY DEF ScoringSound, CategorySound
<1>2. \A i \in DOMAIN decided : /\ decided[i].rule \in ItemRules /\ decided[i].score \in Marks
                               /\ decided[i].shared \in SharedCaps
  BY LenProperties, DecidedParts DEF ScoringSound, CategorySound
<1>3. PICK x \in ScoringRow : x = scoring
  BY DEF ScoringSound, CategorySound
<1>4. Len(decided) \in Nat
  BY LenProperties DEF ScoringSound, CategorySound
<1>5. x.at \in {"idle", "items", "chosen"}
  BY DEF ScoringRow
<1>6. x.i \in 0 .. Len(decided) /\ Len(x.plain) <= Len(decided) /\ x.chosen \in [Exclusives -> 0 .. Len(decided)]
  <2>1. CASE x.at = "idle"
    <3>1. x.i = 0 /\ x.plain = <<>> /\ \A g \in Exclusives : x.chosen[g] = 0
      BY <1>3, <2>1 DEF ScoringSound, CategorySound
    <3>2. x.chosen \in [Exclusives -> Nat] /\ Len(<<>>) = 0
      BY ScoringParts, EmptySeq
    <3> QED
      BY <1>4, <3>1, <3>2
  <2>2. CASE x.at = "items"
    <3>1. ItemsSound(x.i, x.plain, x.chosen)
      BY <1>3, <2>2 DEF ScoringSound, CategorySound
    <3>2. x.i \in Nat /\ Len(x.plain) \in Nat /\ x.chosen \in [Exclusives -> Nat]
      BY ScoringParts
    <3>3. x.i <= Len(decided)
      BY <3>1 DEF ItemsSound
    <3>4. /\ \A k \in 1 .. Len(x.plain) : x.plain[k] \in 1 .. x.i
          /\ \A k, l \in 1 .. Len(x.plain) : x.plain[k] = x.plain[l] => k = l
      BY <3>1 DEF ItemsSound
    <3>5. PICK p \in Seq(Nat \ {0}) : p = x.plain
      BY ScoringParts
    <3>6. Len(p) <= x.i
      BY <3>2, <3>4, <3>5, NoMorePlaces
    <3>7. \A g \in Exclusives : x.chosen[g] \in 0 .. Len(decided)
      <4>1. ASSUME NEW g \in Exclusives PROVE x.chosen[g] \in 0 .. Len(decided)
        <5>1. x.chosen[g] = 0 \/ x.chosen[g] \in 1 .. x.i
          BY <3>1 DEF ItemsSound
        <5> QED
          BY <1>4, <3>2, <3>3, <5>1
      <4> QED
        BY <4>1
    <3> QED
      BY <1>4, <3>2, <3>3, <3>5, <3>6, <3>7
  <2>3. CASE x.at = "chosen"
    <3>1. TakenSound(x.i, x.plain, x.chosen)
      BY <1>3, <2>3 DEF ScoringSound, CategorySound
    <3>2. x.i \in Nat /\ Len(x.plain) \in Nat /\ x.chosen \in [Exclusives -> Nat]
      BY ScoringParts
    <3>3. x.i = Len(decided)
      BY <3>1 DEF TakenSound
    <3>4. /\ \A k \in 1 .. Len(x.plain) : x.plain[k] \in 1 .. Len(decided)
          /\ \A k, l \in 1 .. Len(x.plain) : x.plain[k] = x.plain[l] => k = l
      BY <3>1 DEF TakenSound
    <3>5. PICK p \in Seq(Nat \ {0}) : p = x.plain
      BY ScoringParts
    <3>6. Len(p) <= Len(decided)
      BY <1>4, <3>2, <3>4, <3>5, NoMorePlaces
    <3>7. \A g \in Exclusives : x.chosen[g] \in 0 .. Len(decided)
      <4>1. ASSUME NEW g \in Exclusives PROVE x.chosen[g] \in 0 .. Len(decided)
        <5>1. x.chosen[g] = 0 \/ x.chosen[g] \in 1 .. Len(decided)
          BY <3>1 DEF TakenSound
        <5> QED
          BY <1>4, <5>1
      <4> QED
        BY <4>1
    <3> QED
      BY <1>4, <3>2, <3>3, <3>5, <3>6, <3>7
  <2> QED
    BY <1>5, <2>1, <2>2, <2>3
<1>7. card \subseteq Int /\ Cardinality(card) <= 1
  <2>1. CASE card = {}
    BY <2>1, FS_EmptySet
  <2>2. CASE card # {}
    <3>1. PICK n \in Int : card = {n}
      BY <2>2 DEF ScoringSound, CategorySound
    <3>2. Cardinality({n}) = 1
      BY FS_Singleton
    <3> QED
      BY <3>1, <3>2
  <2> QED
    BY <2>1, <2>2
<1>8. grade \in [Ranked -> [DOMAIN Weights -> Grades \cup {0}]]
  BY DEF ScoringSound, SheetSound, GradeRows
<1>9. sheet.at \in {"none", "award", "done"} /\ sheet.left \in Nat
  BY DEF ScoringSound, SheetSound, SheetRow
<1> QED
  BY <1>1, <1>2, <1>3, <1>5, <1>6, <1>7, <1>8, <1>9 DEF ScoringTypeOK

\* ClassRank, of a given order
RankByTotal(q, s) == CompetitionRank([i \in DOMAIN q |-> Total(q[i])])[PlaceOf(s, q)]

LEMMA RankedByTotal ==
  ASSUME ScoringAssumption, SheetSound, NEW s \in Ranked
  PROVE  RankByTotal(Listing(Ranked, ClassOrder), s) = 1 + Cardinality({t \in Ranked : Total(t) > Total(s)})
<1>1. PICK m : m = [t \in Ranked |-> Total(t)]
  OBVIOUS
<1>2. \A t \in Ranked : m[t] = Total(t) /\ m[t] \in Int
  BY <1>1, TotalInt DEF SheetSound
<1>3. m \in [Ranked -> Int]
  BY <1>1, <1>2
<1>4. StrictOrder(Ranked, ClassOrder) /\ IsFiniteSet(Ranked)
  BY ClassOrderStrict, ClassSize DEF SheetSound
<1>5. \A t, u \in Ranked : <<t, u>> \in ClassOrder => m[t] >= m[u]
  <2>1. ASSUME NEW t \in Ranked, NEW u \in Ranked, <<t, u>> \in ClassOrder PROVE m[t] >= m[u]
    <3>1. Total(t) > Total(u) \/ Total(t) = Total(u)
      BY <2>1 DEF ClassOrder, Ahead
    <3> QED
      BY <1>2, <3>1
  <2> QED
    BY <2>1
<1>6. PICK q, R : q = Listing(Ranked, R) /\ R = ClassOrder
  OBVIOUS
<1>7. PICK marks, B : MarksOf(marks, q, m) /\ AreAbove(B, Ranked, m, s)
  BY DEF MarksOf, AreAbove
<1>11. RankIs(marks, q, s, B)
  <2>1. Falling(m, Ranked, R)
    BY <1>5, <1>6 DEF Falling
  <2>2. PICK n : InOrder(q, n, Ranked, R)
    BY <1>4, <1>6, ListingInOrder
  <2>3. MarksOf(marks, q, m)
    BY <1>7
  <2>4. AreAbove(B, Ranked, m, s)
    BY <1>7
  <2> QED
    BY <1>3, <2>1, <2>2, <2>3, <2>4, RankInList
<1>8. marks = [i \in DOMAIN q |-> Total(q[i])]
  <2>1. q \in [1 .. Cardinality(Ranked) -> Ranked]
    BY <1>6, ClassListed DEF SheetSound
  <2> QED
    BY <1>2, <1>7, <2>1 DEF MarksOf
<1>9. B = {t \in Ranked : Total(t) > Total(s)}
  BY <1>2, <1>7 DEF AreAbove
<1> QED
  BY <1>6, <1>8, <1>9, <1>11 DEF RankByTotal, RankIs

\* Rank by total, of the class ranked
LEMMA ClassRanked ==
  ASSUME ScoringAssumption, SheetSound, sheet.at # "none", NEW s \in Ranked
  PROVE  ClassRank(s) = 1 + Cardinality({t \in Ranked : Total(t) > Total(s)})
<1>1. sheet.order = Listing(Ranked, ClassOrder)
  BY DEF SheetSound
<1>2. ClassRank(s) = RankByTotal(Listing(Ranked, ClassOrder), s)
  BY <1>1 DEF ClassRank, RankByTotal
<1> QED
  BY <1>2, RankedByTotal

\* Rank in a category: CategoryRanks
LEMMA CategoryRanked ==
  ASSUME ScoringAssumption, SheetSound, NEW c \in DOMAIN Weights, NEW s \in Ranked
  PROVE  CategoryRank(s, c) = 1 + Cardinality({t \in Ranked : grade[t][c] > grade[s][c]})
<1>1. PICK m : m = [t \in Ranked |-> grade[t][c]]
  OBVIOUS
<1>2. \A t \in Ranked : m[t] = grade[t][c] /\ m[t] \in Int
  BY <1>1, GradeInt DEF SheetSound
<1>3. m \in [Ranked -> Int]
  BY <1>1, <1>2
<1>4. StrictOrder(Ranked, CategoryOrder(c)) /\ IsFiniteSet(Ranked)
  BY CategoryOrderStrict, ClassSize DEF SheetSound
<1>5. \A t, u \in Ranked : <<t, u>> \in CategoryOrder(c) => m[t] >= m[u]
  <2>1. ASSUME NEW t \in Ranked, NEW u \in Ranked, <<t, u>> \in CategoryOrder(c) PROVE m[t] >= m[u]
    <3>1. grade[t][c] > grade[u][c] \/ grade[t][c] = grade[u][c]
      BY <2>1 DEF CategoryOrder
    <3> QED
      BY <1>2, <3>1
  <2> QED
    BY <2>1
<1>6. PICK q, R : q = Listing(Ranked, R) /\ R = CategoryOrder(c)
  OBVIOUS
<1>7. PICK marks, B : MarksOf(marks, q, m) /\ AreAbove(B, Ranked, m, s)
  BY DEF MarksOf, AreAbove
<1>11. RankIs(marks, q, s, B)
  <2>1. Falling(m, Ranked, R)
    BY <1>5, <1>6 DEF Falling
  <2>2. PICK n : InOrder(q, n, Ranked, R)
    BY <1>4, <1>6, ListingInOrder
  <2>3. MarksOf(marks, q, m)
    BY <1>7
  <2>4. AreAbove(B, Ranked, m, s)
    BY <1>7
  <2> QED
    BY <1>3, <2>1, <2>2, <2>3, <2>4, RankInList
<1>8. marks = [i \in DOMAIN q |-> grade[q[i]][c]]
  <2>1. q \in [1 .. Cardinality(Ranked) -> Ranked]
    BY <1>4, <1>6, Listed
  <2> QED
    BY <1>2, <1>7, <2>1 DEF MarksOf
<1>9. B = {t \in Ranked : grade[t][c] > grade[s][c]}
  BY <1>2, <1>7 DEF AreAbove
<1> QED
  BY <1>6, <1>8, <1>9, <1>11 DEF CategoryRank, RankIs

\* Every rank counts those who are better.
LEMMA RanksCount == ASSUME ScoringAssumption, SheetSound PROVE RankCountsBetter
  BY ClassRanked, CategoryRanked DEF RankCountsBetter

\* Of two numbers of the class, of those above, the lower is of the better.
LEMMA FewerAbove ==
  ASSUME ScoringAssumption, NEW A, NEW B, A \subseteq B, B \subseteq Ranked
  PROVE  1 + Cardinality(A) <= 1 + Cardinality(B) /\ 1 + Cardinality(A) \in Int /\ 1 + Cardinality(B) \in Int
<1>1. IsFiniteSet(B)
  BY ClassSize, FS_Subset
<1>2. IsFiniteSet(A) /\ Cardinality(A) <= Cardinality(B)
  BY <1>1, FS_Subset
<1>3. Cardinality(A) \in Nat /\ Cardinality(B) \in Nat
  BY <1>1, <1>2, FS_CardinalityType
<1> QED
  BY <1>2, <1>3

\* A smaller total, no better rank
LEMMA ClassRankFalls ==
  ASSUME ScoringAssumption, SheetSound, sheet.at # "none", NEW s \in Ranked, NEW t \in Ranked, Total(t) <= Total(s)
  PROVE  ClassRank(s) <= ClassRank(t)
<1>1. PICK A, B : A = {u \in Ranked : Total(u) > Total(s)} /\ B = {u \in Ranked : Total(u) > Total(t)}
  OBVIOUS
<1>2. A \subseteq B /\ B \subseteq Ranked
  <2>1. \A u \in Ranked : Total(u) \in Int
    BY TotalInt DEF SheetSound
  <2>2. ASSUME NEW u \in A PROVE u \in B
    <3>1. u \in Ranked /\ Total(u) > Total(s)
      BY <1>1
    <3>2. PICK x, y, z : x = Total(u) /\ y = Total(s) /\ z = Total(t)
      OBVIOUS
    <3>3. x \in Int /\ y \in Int /\ z \in Int /\ x > y /\ z <= y
      BY <2>1, <3>1, <3>2
    <3>4. x > z
      BY <3>3
    <3> QED
      BY <1>1, <3>1, <3>2, <3>4
  <2>3. B \subseteq Ranked
    BY <1>1
  <2> QED
    BY <2>2, <2>3
<1>3. ClassRank(s) = 1 + Cardinality(A) /\ ClassRank(t) = 1 + Cardinality(B)
  BY <1>1, ClassRanked
<1>4. 1 + Cardinality(A) <= 1 + Cardinality(B) /\ 1 + Cardinality(A) \in Int /\ 1 + Cardinality(B) \in Int
  BY <1>2, FewerAbove
<1> QED
  BY <1>3, <1>4

\* Fewer points in a category, no better rank in it
LEMMA CategoryRankFalls ==
  ASSUME ScoringAssumption, SheetSound, NEW s \in Ranked, NEW t \in Ranked, NEW c \in DOMAIN Weights,
         grade[t][c] <= grade[s][c]
  PROVE  /\ CategoryRank(s, c) <= CategoryRank(t, c)
         /\ CategoryRank(s, c) \in Int /\ CategoryRank(t, c) \in Int
<1>1. PICK A, B : A = {u \in Ranked : grade[u][c] > grade[s][c]} /\ B = {u \in Ranked : grade[u][c] > grade[t][c]}
  OBVIOUS
<1>2. A \subseteq B /\ B \subseteq Ranked
  <2>1. PICK m : m = [u \in Ranked |-> grade[u][c]]
    OBVIOUS
  <2>2. \A u \in Ranked : m[u] = grade[u][c] /\ m[u] \in Int
    BY <2>1, GradeInt DEF SheetSound
  <2>3. ASSUME NEW u \in A PROVE u \in B
    <3>1. u \in Ranked /\ grade[u][c] > grade[s][c]
      BY <1>1
    <3>2. PICK x, y, z : x = grade[u][c] /\ y = grade[s][c] /\ z = grade[t][c]
      OBVIOUS
    <3>3. x \in Int /\ y \in Int /\ z \in Int /\ x > y /\ z <= y
      BY <2>2, <3>1, <3>2
    <3>4. x > z
      BY <3>3
    <3> QED
      BY <1>1, <3>1, <3>2, <3>4
  <2>4. B \subseteq Ranked
    BY <1>1
  <2> QED
    BY <2>3, <2>4
<1>3. CategoryRank(s, c) = 1 + Cardinality(A) /\ CategoryRank(t, c) = 1 + Cardinality(B)
  BY <1>1, CategoryRanked
<1>4. 1 + Cardinality(A) <= 1 + Cardinality(B) /\ 1 + Cardinality(A) \in Int /\ 1 + Cardinality(B) \in Int
  BY <1>2, FewerAbove
<1> QED
  BY <1>3, <1>4

\* honored: whoever has as many points in every category is honoured too.
LEMMA HonorKept ==
  ASSUME ScoringAssumption, SheetSound, NEW s \in Ranked, NEW t \in Ranked,
         \A c \in DOMAIN Weights : grade[t][c] <= grade[s][c], Honored(t)
  PROVE  Honored(s)
<1>1. PICK h : h = Quota(HonorPercent)
  OBVIOUS
<1>2. h \in Nat
  BY <1>1, QuotaNat DEF ScoringAssumption
<1>3. h > 0 /\ \A c \in DOMAIN Weights : Weights[c] > 0 => CategoryRank(t, c) <= h
  BY <1>1 DEF Honored
<1>4. ASSUME NEW c \in DOMAIN Weights, Weights[c] > 0 PROVE CategoryRank(s, c) <= h
  <2>1. PICK a, b : a = CategoryRank(s, c) /\ b = CategoryRank(t, c)
    OBVIOUS
  <2>2. a <= b /\ a \in Int /\ b \in Int
    BY <2>1, CategoryRankFalls
  <2>3. b <= h
    BY <1>3, <1>4, <2>1
  <2>4. a <= h
    BY <1>2, <2>2, <2>3
  <2> QED
    BY <2>1, <2>4
<1> QED
  BY <1>1, <1>3, <1>4 DEF Honored

\* The tiers do not fall along the order.
LEMMA TiersRise ==
  ASSUME ScoringAssumption, NEW x \in SheetRow, Tiered(x), NEW i \in 1 .. Len(x.tier), NEW j \in 1 .. Len(x.tier), i < j
  PROVE  x.tier[i] <= x.tier[j]
<1>1. PICK a, b : a = x.tier[i] /\ b = x.tier[j]
  OBVIOUS
<1>2. a \in 1 .. Len(Awards) /\ b \in 1 .. Len(Awards) /\ Len(Awards) \in Nat /\ i \in Int /\ j \in Int
  BY <1>1, TierParts, PlacesNat
<1>3. AskedTo(a - 1) < i /\ j <= AskedTo(b)
  BY <1>1 DEF Tiered
<1>4. CASE b < a
  <2>1. PICK d \in 0 .. Len(Awards) : d = a - 1
    BY <1>2
  <2>2. b \in 0 .. d
    BY <1>2, <1>4, <2>1
  <2>3. b \in 0 .. Len(Awards)
    BY <1>2
  <2>4. AskedTo(b) <= AskedTo(d) /\ AskedTo(b) \in Nat /\ AskedTo(d) \in Nat
    BY <2>1, <2>2, <2>3, AskedGrows
  <2>5. AskedTo(d) < i /\ j <= AskedTo(b)
    BY <1>3, <2>1
  <2>6. FALSE
    BY <1>2, <2>4, <2>5
  <2> QED
    BY <2>6
<1>5. CASE ~(b < a)
  BY <1>1, <1>2, <1>5
<1> QED
  BY <1>4, <1>5

\* Compute: whoever is better is not behind in any of the columns.
LEMMA NotBehind == ASSUME ScoringAssumption, SheetSound PROVE BetterIsNotBehind
<1> SUFFICES ASSUME sheet.at = "done" PROVE BetterIsNotBehind
  BY DEF BetterIsNotBehind
<1>1. PICK x \in SheetRow : x = sheet
  BY DEF SheetSound
<1>2. PICK q : q = Listing(Ranked, ClassOrder)
  OBVIOUS
<1>3. PICK N : N = Cardinality(Ranked)
  OBVIOUS
<1>4. /\ N \in Nat /\ q \in [1 .. N -> Ranked] /\ DOMAIN q = 1 .. N
      /\ \A i, j \in 1 .. N : i < j => <<q[i], q[j]>> \in ClassOrder
  BY <1>2, <1>3, ClassSize, ClassOrderStrict, Listed DEF SheetSound
<1>5. sheet.order = q /\ Tiered(x) /\ grade \in [Ranked -> GradeRows]
  BY <1>1, <1>2 DEF SheetSound
<1>6. ASSUME NEW i \in 1 .. N, NEW j \in 1 .. N, NEW s \in Ranked, NEW t \in Ranked, s = q[i], t = q[j],
             \A c \in DOMAIN Weights : grade[s][c] >= grade[t][c], grade[s]["major"] > grade[t]["major"]
      PROVE  /\ i < j /\ ClassRank(s) <= ClassRank(t) /\ (Honored(t) => Honored(s))
             /\ (IF i \in DOMAIN x.tier THEN x.tier[i] ELSE Len(Awards) + 1)
                  <= (IF j \in DOMAIN x.tier THEN x.tier[j] ELSE Len(Awards) + 1)
  <2>1. \A c \in DOMAIN Weights : grade[t][c] <= grade[s][c]
    <3>1. ASSUME NEW c \in DOMAIN Weights PROVE grade[t][c] <= grade[s][c]
      <4>1. PICK a, b : a = grade[s][c] /\ b = grade[t][c]
        OBVIOUS
      <4>2. a \in Int /\ b \in Int /\ a >= b
        BY <1>5, <1>6, <4>1, GradeInt
      <4>3. b <= a
        BY <4>2
      <4> QED
        BY <4>1, <4>3
    <3> QED
      BY <3>1
  <2>2. Total(t) <= Total(s) /\ Total(s) \in Int /\ Total(t) \in Int
    BY <1>5, <2>1, TotalMonotone, TotalInt
  <2>3. PICK a, b : a = grade[s]["major"] /\ b = grade[t]["major"]
    OBVIOUS
  <2>4. a \in Int /\ b \in Int /\ a > b
    BY <1>5, <1>6, <2>3, GradeInt, CategoriesFinite
  <2>5. ~Ahead(t, s) /\ s # t
    <3>1. ~(b > a) /\ b # a
      BY <2>4
    <3>2. ~(Total(t) > Total(s))
      BY <2>2
    <3> QED
      BY <2>3, <3>1, <3>2 DEF Ahead
  <2>6. i < j
    <3>1. i # j
      BY <1>6, <2>5
    <3>2. j < i => Ahead(t, s)
      <4>1. j < i => <<t, s>> \in ClassOrder
        BY <1>4, <1>6
      <4> QED
        BY <4>1 DEF ClassOrder
    <3> QED
      BY <2>5, <3>1, <3>2
  <2>7. ClassRank(s) <= ClassRank(t)
    BY <2>2, ClassRankFalls
  <2>8. Honored(t) => Honored(s)
    BY <2>1, HonorKept
  <2>9. (IF i \in DOMAIN x.tier THEN x.tier[i] ELSE Len(Awards) + 1)
          <= (IF j \in DOMAIN x.tier THEN x.tier[j] ELSE Len(Awards) + 1)
    <3>1. PICK n \in Nat : n = Len(x.tier) /\ DOMAIN x.tier = 1 .. n
      BY TierParts, LenProperties
    <3>2. Len(Awards) \in Nat
      BY PlacesNat
    <3>3. CASE j \in 1 .. n
      <4>1. i \in 1 .. n
        BY <2>6, <3>1, <3>3
      <4>2. x.tier[i] <= x.tier[j]
        BY <1>5, <2>6, <3>1, <3>3, <4>1, TiersRise
      <4> QED
        BY <3>1, <3>3, <4>1, <4>2
    <3>4. CASE j \notin 1 .. n
      <4>1. i \in 1 .. n => x.tier[i] \in 1 .. Len(Awards)
        BY <3>1, TierParts
      <4>2. \A k \in 1 .. Len(Awards) : k <= Len(Awards) + 1
        BY <3>2
      <4>3. Len(Awards) + 1 <= Len(Awards) + 1
        BY <3>2
      <4> QED
        BY <3>1, <3>4, <4>1, <4>2, <4>3
    <3> QED
      BY <3>3, <3>4
  <2> QED
    BY <2>6, <2>7, <2>8, <2>9
<1>7. ASSUME NEW i \in 1 .. N, NEW j \in 1 .. N,
             \A c \in DOMAIN Weights : grade[q[i]][c] >= grade[q[j]][c], grade[q[i]]["major"] > grade[q[j]]["major"]
      PROVE  /\ i < j /\ ClassRank(q[i]) <= ClassRank(q[j]) /\ (Honored(q[j]) => Honored(q[i]))
             /\ (IF i \in DOMAIN x.tier THEN x.tier[i] ELSE Len(Awards) + 1)
                  <= (IF j \in DOMAIN x.tier THEN x.tier[j] ELSE Len(Awards) + 1)
  <2>1. q[i] \in Ranked /\ q[j] \in Ranked
    BY <1>4
  <2>2. PICK s \in Ranked, t \in Ranked : s = q[i] /\ t = q[j]
    BY <2>1
  <2> QED
    BY <1>6, <1>7, <2>2
<1>8. sheet.tier = x.tier
  BY <1>1
<1> QED
  BY <1>4, <1>5, <1>7, <1>8 DEF BetterIsNotBehind


\* When the awards are out, the places given are those asked for, or the whole class.
LEMMA PlacesGiven ==
  ASSUME ScoringAssumption, NEW x \in SheetRow, Tiered(x), x.at = "done"
  PROVE  /\ Len(x.tier) <= AskedTo(Len(Awards)) /\ Len(x.tier) <= Cardinality(Ranked)
         /\ Len(x.tier) = AskedTo(Len(Awards)) \/ Len(x.tier) = Cardinality(Ranked)
<1>1. PICK n, l, a, k, N : n = Len(x.tier) /\ l = x.left /\ a = x.award /\ k = Len(Awards) /\ N = Cardinality(Ranked)
  OBVIOUS
<1>2. n \in Nat /\ l \in Nat /\ a \in 1 .. k + 1 /\ k \in Nat /\ N \in Nat
  BY <1>1, TierParts, PlacesNat, ClassSize
<1>3. /\ n <= N /\ (a <= k => n + l = AskedTo(a)) /\ (a = k + 1 => n = AskedTo(k))
      /\ a = k + 1 \/ n = N
  BY <1>1 DEF Tiered
<1>4. CASE a = k + 1
  <2>1. n = AskedTo(k)
    BY <1>3, <1>4
  <2> QED
    BY <1>1, <1>2, <1>3, <2>1
<1>5. CASE a <= k
  <2>1. PICK p, q : p = AskedTo(a) /\ q = AskedTo(k)
    OBVIOUS
  <2>2. k \in 0 .. Len(Awards) /\ a \in 0 .. k
    BY <1>1, <1>2, <1>5
  <2>3. q \in Nat /\ p <= q
    BY <2>1, <2>2, AskedGrows
  <2>4. a \in 0 .. Len(Awards)
    BY <1>1, <2>2
  <2>5. p \in Nat
    BY <2>1, <2>4, AskedGrows
  <2>6. n = N /\ n + l = p
    BY <1>2, <1>3, <1>5, <2>1
  <2>7. n <= q
    BY <1>2, <2>3, <2>5, <2>6
  <2> QED
    BY <1>1, <2>1, <2>6, <2>7, <1>3
<1> QED
  BY <1>2, <1>4, <1>5

\* The places of a tier are those between what the tiers before it ask for and what it asks for.
LEMMA PlacesOfTier ==
  ASSUME ScoringAssumption, NEW x \in SheetRow, Tiered(x), NEW a \in 1 .. Len(Awards), NEW i \in 1 .. Len(x.tier)
  PROVE  x.tier[i] = a <=> AskedTo(a - 1) < i /\ i <= AskedTo(a)
<1>1. PICK d : d = x.tier[i]
  OBVIOUS
<1>2. d \in 1 .. Len(Awards) /\ Len(Awards) \in Nat /\ i \in Int /\ a \in Int
  BY <1>1, TierParts, PlacesNat
<1>3. AskedTo(d - 1) < i /\ i <= AskedTo(d)
  BY <1>1 DEF Tiered
<1>4. ASSUME NEW b \in 1 .. Len(Awards), NEW c \in 1 .. Len(Awards), b < c
      PROVE  \E p, q \in Nat : p = AskedTo(b) /\ q = AskedTo(c - 1) /\ p <= q
  <2>1. PICK e \in 0 .. Len(Awards) : e = c - 1
    BY <1>2
  <2>2. b \in 0 .. e /\ b \in 0 .. Len(Awards)
    BY <1>2, <1>4, <2>1
  <2>3. AskedTo(b) <= AskedTo(e) /\ AskedTo(b) \in Nat /\ AskedTo(e) \in Nat
    BY <2>1, <2>2, AskedGrows
  <2> QED
    BY <2>1, <2>3
<1>5. CASE d = a
  BY <1>1, <1>3, <1>5
<1>6. CASE d < a
  <2>1. PICK p, q \in Nat : p = AskedTo(d) /\ q = AskedTo(a - 1) /\ p <= q
    BY <1>2, <1>4, <1>6
  <2>2. i <= p
    BY <1>3, <2>1
  <2>3. ~(q < i)
    BY <1>2, <2>1, <2>2
  <2>4. d # a
    BY <1>2, <1>6
  <2> QED
    BY <1>1, <2>1, <2>3, <2>4
<1>7. CASE a < d
  <2>1. PICK p, q \in Nat : p = AskedTo(a) /\ q = AskedTo(d - 1) /\ p <= q
    BY <1>2, <1>4, <1>7
  <2>2. q < i
    BY <1>3, <2>1
  <2>3. ~(i <= p)
    BY <1>2, <2>1, <2>2
  <2>4. d # a
    BY <1>2, <1>7
  <2> QED
    BY <1>1, <2>1, <2>3, <2>4
<1> QED
  BY <1>2, <1>5, <1>6, <1>7

\* The number of places of a tier, as an interval of the order
LEMMA TierCount ==
  ASSUME ScoringAssumption, NEW x \in SheetRow, Tiered(x), x.at = "done", NEW a \in 1 .. Len(Awards)
  PROVE  Cardinality({i \in DOMAIN x.tier : x.tier[i] = a})
           = Min({AskedTo(a), Cardinality(Ranked)}) - Min({AskedTo(a - 1), Cardinality(Ranked)})
<1>1. PICK n, N, hi, lo, all : n = Len(x.tier) /\ N = Cardinality(Ranked) /\ hi = AskedTo(a) /\ lo = AskedTo(a - 1)
                               /\ all = AskedTo(Len(Awards))
  OBVIOUS
<1>2. n \in Nat /\ N \in Nat /\ Len(Awards) \in Nat /\ DOMAIN x.tier = 1 .. n
  BY <1>1, TierParts, ClassSize, PlacesNat, LenProperties
<1>3. hi \in Nat /\ lo \in Nat /\ all \in Nat /\ lo <= hi /\ hi <= all
  <2>1. PICK b \in 0 .. Len(Awards) : b = a - 1
    BY <1>2
  <2>2. a \in 0 .. Len(Awards) /\ Len(Awards) \in 0 .. Len(Awards) /\ b \in 0 .. a
    BY <1>2, <2>1
  <2>3. AskedTo(a) \in Nat /\ AskedTo(b) \in Nat /\ AskedTo(b) <= AskedTo(a)
    BY <2>1, <2>2, AskedGrows
  <2>4. AskedTo(Len(Awards)) \in Nat /\ AskedTo(a) <= AskedTo(Len(Awards))
    BY <2>2, AskedGrows
  <2> QED
    BY <1>1, <2>1, <2>3, <2>4
<1>4. n <= all /\ n <= N /\ (n = all \/ n = N)
  BY <1>1, PlacesGiven
<1>5. PICK h, l \in Nat : h = Min({hi, N}) /\ l = Min({lo, N}) /\ h = (IF hi <= N THEN hi ELSE N)
                          /\ l = (IF lo <= N THEN lo ELSE N)
  BY <1>2, <1>3, LesserOfTwo
<1>6. {i \in DOMAIN x.tier : x.tier[i] = a} = l + 1 .. h
  <2>1. \A i \in 1 .. n : x.tier[i] = a <=> lo < i /\ i <= hi
    BY <1>1, PlacesOfTier
  <2>2. \A i \in Int : i \in 1 .. n /\ lo < i /\ i <= hi <=> i \in l + 1 .. h
    BY <1>2, <1>3, <1>4, <1>5
  <2> QED
    BY <1>2, <2>1, <2>2
<1>7. Cardinality(l + 1 .. h) = h - l
  <2>1. l + 1 \in Int /\ h \in Int /\ l <= h
    BY <1>2, <1>3, <1>5
  <2>2. Cardinality(l + 1 .. h) = IF l + 1 > h THEN 0 ELSE h - (l + 1) + 1
    BY <2>1, FS_Interval
  <2> QED
    BY <1>5, <2>1, <2>2
<1> QED
  BY <1>1, <1>5, <1>6, <1>7

\* awardTiers gives every tier the places of its own quota, as far as there are students.
LEMMA PlacesKept == ASSUME ScoringAssumption, SheetSound PROVE TierPlaces
<1> SUFFICES ASSUME sheet.at = "done" PROVE TierPlaces
  BY DEF TierPlaces
<1>1. PICK x \in SheetRow : x = sheet
  BY DEF SheetSound
<1>2. Tiered(x) /\ x.at = "done"
  BY <1>1 DEF SheetSound
<1>3. \A a \in 1 .. Len(Awards) :
        Cardinality({i \in DOMAIN x.tier : x.tier[i] = a})
          = Min({AskedTo(a), Cardinality(Ranked)}) - Min({AskedTo(a - 1), Cardinality(Ranked)})
  BY <1>2, TierCount
<1>4. PlacesAsked = [k \in DOMAIN Awards |-> Rounded(Cardinality(Ranked) * Awards[k], 100)]
  BY DEF PlacesAsked, TierQuota, Quota
<1> QED
  BY <1>1, <1>3, <1>4, PlacesNat DEF TierPlaces, AskedTo

\* Compute (settle/settle.go), for a class of any size, any weights, percentages and marks:
\* under every pattern of ties and every rounding, ranks count those who are better, whoever is
\* better is not behind in rank, tier or honour, and each tier has the places of its own quota.
THEOREM RankingAlways == ScoringSpec => []RankingInv
<1>1. ScoringSound => RankingInv
  BY ScoringAssumption, ScoringTyped, NotBehind, RanksCount, PlacesKept DEF RankingInv, ScoringSound
<1>2. ScoringSpec => []ScoringSound
  BY ScoringAssumption, ScoringAlways
<1> QED
  BY <1>1, <1>2, PTL
=============================================================================
