------------------------------- MODULE Scoring -------------------------------
(***************************************************************************)
(* The arithmetic of a settlement (internal/scheme/score.go, internal/      *)
(* settle/settle.go).  First the score of one student in one category: the  *)
(* items decided so far, each with the rule it was filed under, go through  *)
(* ComputeCategoryScore, whose maps are iterated in any order.  Then the    *)
(* class: Compute ranks it and hands out awards.  Points are thousandths,   *)
(* weights and quotas percentages.                                          *)
(***************************************************************************)
EXTENDS Integers, Sequences, FiniteSets, Sums

CONSTANTS
  ItemRules,        \* items of the scheme, records of excl, cap (a set of at most one) and shared
  Marks,            \* final scores of items
  SharedCaps,       \* values that a revision gives to the cap of the shared group
  BaseSums,         \* base scores and deductions of the student, added up
  CategoryMax,      \* category.MaxTotal
  MaxDecided,       \* bound on decided items
  MaxRevisions,     \* bound on revisions of the scheme
  Ranked,           \* the class: student numbers
  Weights,          \* by category, "major" among them
  Grades,           \* category scores
  Awards,           \* percentages of the tiers, the best first
  HonorPercent

ASSUME ScoringAssumption ==
  /\ \A r \in ItemRules : r.shared \in BOOLEAN /\ \A n \in r.cap : n \in Int /\ r.cap = {n}
  /\ Marks \subseteq Int /\ SharedCaps \subseteq Nat /\ BaseSums \subseteq Int
  /\ CategoryMax \in Int /\ MaxDecided \in Nat /\ MaxRevisions \in Nat
  /\ Ranked \subseteq Nat /\ IsFiniteSet(Ranked) /\ Grades \subseteq Int
  /\ IsFiniteSet(DOMAIN Weights) /\ "major" \in DOMAIN Weights
  /\ \A c \in DOMAIN Weights : Weights[c] \in 0 .. 100
  /\ SumOver(Weights, DOMAIN Weights) = 100
  /\ Awards \in Seq(0 .. 100) /\ HonorPercent \in 0 .. 100

VARIABLES
  sharedCap,        \* cap of the shared group in the published scheme
  revisions,
  decided,          \* items of the student in order of their ids, with their snapshots
  scoring,          \* ComputeCategoryScore on its way
  card,             \* the category total it last returned, in a set, at first empty
  grade,            \* category scores of the class
  sheet             \* Compute on its way: order, ranks and tiers

scoringVars == <<sharedCap, revisions, decided, scoring, card, grade, sheet>>

NoGroup == "none"
Exclusives == {r.excl : r \in ItemRules} \ {NoGroup}
IdleScoring == [at |-> "idle", i |-> 0, chosen |-> [g \in Exclusives |-> 0], plain |-> <<>>, base |-> 0]
NoSheet == [at |-> "none", order |-> <<>>, tier |-> <<>>, award |-> 1, left |-> 0]

ScoringTypeOK ==
  /\ sharedCap \in SharedCaps /\ revisions \in 0 .. MaxRevisions
  /\ Len(decided) <= MaxDecided
  /\ \A i \in DOMAIN decided : /\ decided[i].rule \in ItemRules /\ decided[i].score \in Marks
                              /\ decided[i].shared \in SharedCaps
  /\ scoring.at \in {"idle", "items", "chosen"}
  /\ scoring.i \in 0 .. Len(decided) /\ Len(scoring.plain) <= Len(decided)
  /\ scoring.chosen \in [Exclusives -> 0 .. Len(decided)]
  /\ card \subseteq Int /\ Cardinality(card) <= 1
  /\ grade \in [Ranked -> [DOMAIN Weights -> Grades \cup {0}]]
  /\ sheet.at \in {"none", "award", "done"} /\ sheet.left \in Nat

ScoringInit ==
  /\ sharedCap \in SharedCaps /\ revisions = 0
  /\ decided = <<>> /\ scoring = IdleScoring /\ card = {}
  /\ \E g \in [Ranked -> [DOMAIN Weights \ {"major"} -> Grades]] :
       grade = [s \in Ranked |-> [c \in DOMAIN Weights |-> IF c = "major" THEN 0 ELSE g[s][c]]]
  /\ sheet = NoSheet

-----------------------------------------------------------------------------
(* One category of one student *)

\* A submission gets its score; the rule is the one of its snapshot.
DecideItem(r, n) ==
  /\ scoring.at = "idle" /\ Len(decided) < MaxDecided
  /\ decided' = Append(decided, [rule |-> r, score |-> n, shared |-> sharedCap])
  /\ UNCHANGED <<sharedCap, revisions, scoring, card, grade, sheet>>

\* A new version of the scheme: in it the items of a group have one cap, as validate.go asks.
ReviseScheme(c) ==
  /\ revisions < MaxRevisions /\ c # sharedCap
  /\ sharedCap' = c /\ revisions' = revisions + 1
  /\ UNCHANGED <<decided, scoring, card, grade, sheet>>

StartScoring(b) ==
  /\ scoring.at = "idle" /\ decided # <<>>
  /\ scoring' = [IdleScoring EXCEPT !.at = "items", !.base = b]
  /\ UNCHANGED <<sharedCap, revisions, decided, card, grade, sheet>>

\* minPoints(item.Score, *item.ItemCap)
ItemScore(i) == Min({decided[i].score} \cup decided[i].rule.cap)

\* A slip: the latest item of an exclusive group counts.
Later(i, prior) == TRUE

\* "item.Score > prior.Score || (item.Score == prior.Score && item.ID < prior.ID)"
Beats(i, prior) ==
  ItemScore(i) > ItemScore(prior) \/ (ItemScore(i) = ItemScore(prior) /\ i < prior)

TakeItem ==
  /\ scoring.at = "items" /\ scoring.i < Len(decided)
  /\ LET i == scoring.i + 1
         g == decided[i].rule.excl
         prior == scoring.chosen[g]
     IN scoring' =
          IF g = NoGroup THEN [scoring EXCEPT !.i = i, !.plain = Append(@, i)]
          ELSE IF prior = 0 \/ Beats(i, prior) THEN [scoring EXCEPT !.i = i, !.chosen[g] = i]
          ELSE [scoring EXCEPT !.i = i]
  /\ UNCHANGED <<sharedCap, revisions, decided, card, grade, sheet>>

\* range chosenExclusive: a map, whose order Go leaves open
AppendChosen(g) ==
  /\ scoring.i = Len(decided) /\ scoring.at \in {"items", "chosen"} /\ scoring.chosen[g] # 0
  /\ scoring' = [scoring EXCEPT !.at = "chosen", !.chosen[g] = 0,
                                !.plain = Append(@, scoring.chosen[g])]
  /\ UNCHANGED <<sharedCap, revisions, decided, card, grade, sheet>>

\* item.Score by place in plain, and the places of the shared group
Scores(plain) == [k \in DOMAIN plain |-> ItemScore(plain[k])]
SharedPlaces(plain) == {k \in DOMAIN plain : decided[plain[k]].rule.shared}

\* groupCaps[key] = item.CapGroupCap: the last item of the group says what its cap is.
GroupTotal(plain) ==
  IF SharedPlaces(plain) = {} THEN 0
  ELSE Min({SumOver(Scores(plain), SharedPlaces(plain)), decided[plain[Max(SharedPlaces(plain))]].shared})

ItemTotal(plain) == SumOver(Scores(plain), DOMAIN plain \ SharedPlaces(plain)) + GroupTotal(plain)

\* base and penalty records, then the category's cap
ComputeCategoryScore ==
  /\ scoring.at \in {"items", "chosen"} /\ scoring.i = Len(decided)
  /\ \A g \in Exclusives : scoring.chosen[g] = 0
  /\ card' = {Min({ItemTotal(scoring.plain) + scoring.base, CategoryMax})}
  /\ scoring' = [IdleScoring EXCEPT !.base = scoring.base]
  /\ UNCHANGED <<sharedCap, revisions, decided, grade, sheet>>

-----------------------------------------------------------------------------
(* The class *)

\* math.Round(n / d): halves go away from zero.  The code rounds a binary product, which
\* may fall on the other side of a half; nothing below depends on that side.
Rounded(n, d) == IF n >= 0 THEN (2 * n + d) \div (2 * d) ELSE -((d - 2 * n) \div (2 * d))

Weighed(s) == [c \in DOMAIN Weights |-> Rounded(grade[s][c] * Weights[c], 100)]
Total(s) == SumOver(Weighed(s), DOMAIN Weights)

\* A slip: equal totals are told apart by the student number alone.
AheadBySid(s, t) == Total(s) > Total(t) \/ (Total(s) = Total(t) /\ s < t)

\* Total, then the major, then the student number
Ahead(s, t) ==
  \/ Total(s) > Total(t)
  \/ /\ Total(s) = Total(t)
     /\ \/ grade[s]["major"] > grade[t]["major"]
        \/ grade[s]["major"] = grade[t]["major"] /\ s < t
ClassOrder == {p \in Ranked \X Ranked : Ahead(p[1], p[2])}

\* A slip: ranks are positions.
PositionRank(marks) == [i \in DOMAIN marks |-> i]

\* competitionRank, and the loop of CategoryRanks: equal scores share the rank of the first.
CompetitionRank(marks) ==
  LET rank[i \in DOMAIN marks] ==
        IF i = 1 THEN 1 ELSE IF marks[i] # marks[i - 1] THEN i ELSE rank[i - 1]
  IN rank

PlaceOf(s, order) == CHOOSE i \in DOMAIN order : order[i] = s

ClassRank(s) ==
  CompetitionRank([i \in DOMAIN sheet.order |-> Total(sheet.order[i])])[PlaceOf(s, sheet.order)]

\* CategoryRanks
CategoryOrder(c) ==
  {p \in Ranked \X Ranked : \/ grade[p[1]][c] > grade[p[2]][c]
                            \/ grade[p[1]][c] = grade[p[2]][c] /\ p[1] < p[2]}
CategoryRank(s, c) ==
  LET order == Listing(Ranked, CategoryOrder(c))
  IN CompetitionRank([i \in DOMAIN order |-> grade[order[i]][c]])[PlaceOf(s, order)]

Quota(percent) == Rounded(Cardinality(Ranked) * percent, 100)

\* honored: within the line in every weighted category
Honored(s) ==
  /\ Quota(HonorPercent) > 0
  /\ \A c \in DOMAIN Weights : Weights[c] > 0 => CategoryRank(s, c) <= Quota(HonorPercent)

\* A slip: the quota of a tier is taken of the percentages so far.
QuotaSoFar(a) ==
  Quota(SumOver(Awards, 1 .. a)) - Quota(SumOver(Awards, 1 .. a - 1))

TierQuota(a) == Quota(Awards[a])

\* importGPA replaces the marks of everybody, the missing ones count as 0, and invalidates
\* the settlement.
ImportGPA(m) ==
  /\ sheet.at # "award"
  /\ grade' = [s \in Ranked |-> [grade[s] EXCEPT !["major"] = m[s]]]
  /\ sheet' = NoSheet
  /\ UNCHANGED <<sharedCap, revisions, decided, scoring, card>>

\* Compute up to the tiers
RankClass ==
  /\ sheet.at = "none" /\ Ranked # {}
  /\ sheet' = [at |-> "award", order |-> Listing(Ranked, ClassOrder), tier |-> <<>>,
               award |-> 1, left |-> IF Awards = <<>> THEN 0 ELSE TierQuota(1)]
  /\ UNCHANGED <<sharedCap, revisions, decided, scoring, card, grade>>

\* awardTiers: the loops over tiers and over the places of a tier
HandOut ==
  /\ sheet.at = "award"
  /\ sheet' =
       IF sheet.award > Len(Awards) \/ Len(sheet.tier) = Len(sheet.order)
         THEN [sheet EXCEPT !.at = "done"]
       ELSE IF sheet.left > 0
         THEN [sheet EXCEPT !.tier = Append(@, sheet.award), !.left = @ - 1]
       ELSE [sheet EXCEPT !.award = @ + 1,
                          !.left = IF sheet.award < Len(Awards) THEN TierQuota(sheet.award + 1) ELSE 0]
  /\ UNCHANGED <<sharedCap, revisions, decided, scoring, card, grade>>

CategoryNext ==
  \/ \E r \in ItemRules, n \in Marks : DecideItem(r, n)
  \/ \E c \in SharedCaps : ReviseScheme(c)
  \/ \E b \in BaseSums : StartScoring(b)
  \/ TakeItem
  \/ \E g \in Exclusives : AppendChosen(g)
  \/ ComputeCategoryScore

ClassNext ==
  \/ \E m \in [Ranked -> {n \in Grades : n >= 0}] : ImportGPA(m)
  \/ RankClass
  \/ HandOut

ScoringNext == CategoryNext \/ ClassNext

ScoringSpec == ScoringInit /\ [][ScoringNext]_scoringVars

-----------------------------------------------------------------------------
(* Properties *)

\* What the design's order of caps says, without loops: an item counts if nothing else of
\* its exclusive group is better; the shared group counts up to a cap.
CappedMark(i) == Min({decided[i].score} \cup decided[i].rule.cap)
Counts(i) ==
  \A j \in DOMAIN decided : decided[i].rule.excl # NoGroup /\ decided[j].rule.excl = decided[i].rule.excl =>
    CappedMark(i) > CappedMark(j) \/ (CappedMark(i) = CappedMark(j) /\ i <= j)
CategoryTotal(cap, base) ==
  LET counted == {i \in DOMAIN decided : Counts(i)}
      sum(S) == SumOver([i \in DOMAIN decided |-> CappedMark(i)], S)
      shared == {i \in counted : decided[i].rule.shared}
  IN Min({sum(counted \ shared) + Min({sum(shared), cap}) + base, CategoryMax})
SnapshotCaps == {decided[i].shared : i \in {j \in DOMAIN decided : decided[j].rule.shared}}

\* ComputeCategoryScore returns the total of the design document whatever the order in
\* which its maps are read; where snapshots of different versions disagree on the shared
\* cap, a total that one of them explains.
CardIsCategoryTotal ==
  [][scoring.at # "idle" /\ scoring'.at = "idle" =>
       \E c \in SnapshotCaps \cup {sharedCap} :
         /\ SnapshotCaps # {} => c \in SnapshotCaps
         /\ card' = {CategoryTotal(c, scoring.base)}]_scoringVars

\* Compute: who is at least as good in every category, and better in one of them or in the
\* order, is not behind in rank, tier or honor, whatever rounding and quotas do.
BetterIsNotBehind ==
  sheet.at = "done" =>
    \A i, j \in DOMAIN sheet.order :
      LET s == sheet.order[i]
          t == sheet.order[j]
          tierOf(k) == IF k \in DOMAIN sheet.tier THEN sheet.tier[k] ELSE Len(Awards) + 1
      IN /\ \A c \in DOMAIN Weights : grade[s][c] >= grade[t][c]
         /\ grade[s]["major"] > grade[t]["major"]
         => i < j /\ ClassRank(s) <= ClassRank(t) /\ tierOf(i) <= tierOf(j)
            /\ (Honored(t) => Honored(s))

\* competitionRank and CategoryRanks, "three implementations" made one: a rank is one more
\* than the number of those with a higher total, or with more points in the category.
RankCountsBetter ==
  sheet.at # "none" =>
    \A s \in Ranked :
      /\ ClassRank(s) = 1 + Cardinality({t \in Ranked : Total(t) > Total(s)})
      /\ \A c \in DOMAIN Weights :
           CategoryRank(s, c) = 1 + Cardinality({t \in Ranked : grade[t][c] > grade[s][c]})

\* awardTiers: every tier has the places of its own rounded quota, as far as there are
\* students ("not the class times the sum of the percentages").
TierPlaces ==
  sheet.at = "done" =>
    LET size == Cardinality(Ranked)
        asked(a) == SumOver([k \in DOMAIN Awards |-> Rounded(size * Awards[k], 100)], 1 .. a)
    IN \A a \in DOMAIN Awards :
         Cardinality({i \in DOMAIN sheet.tier : sheet.tier[i] = a})
           = Min({asked(a), size}) - Min({asked(a - 1), size})

\* Compute (settle/settle.go): ranks, honours and tiers follow the marks under every pattern of
\* ties and every rounding, and each tier has the places that it should.
RankingInv == ScoringTypeOK /\ BetterIsNotBehind /\ RankCountsBetter /\ TierPlaces
=============================================================================
