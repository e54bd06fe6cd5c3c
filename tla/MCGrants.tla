------------------------------ MODULE MCGrants ------------------------------
(* What counts in the end, the files it rests on, and the arithmetic.  A       *)
(* behaviour is one of the component that "part" names.  That of a settlement *)
(* ends with a call of a tool link that has acted on an old snapshot; after   *)
(* it only OneRunPerScheme says anything, and runs are only taken away.       *)
EXTENDS Settlement, Evidence, Scoring

VARIABLE part          \* the component that this behaviour is one of

MCRules ==
  {[excl |-> "none", cap |-> {}, shared |-> FALSE], [excl |-> "g", cap |-> {2}, shared |-> FALSE],
   [excl |-> "g", cap |-> {}, shared |-> TRUE], [excl |-> "h", cap |-> {}, shared |-> TRUE]}
MCBases == {-2}
MCWeights == [major |-> 60, moral |-> 40, health |-> 0]
MCGrades == {-1, 1, 2}
MCAwards == <<50, 17>>

allVars == <<part, vars, evVars, scoringVars>>

MCInit ==
  /\ part \in {"settlement", "evidence", "category", "class"}
  /\ Init /\ EvidenceInit /\ ScoringInit
  /\ part # "category" => sharedCap = 3
  /\ part # "class" => \A s \in Ranked, c \in DOMAIN Weights : grade[s][c] = IF c = "major" THEN 0 ELSE 1

MCNext ==
  \/ part = "settlement" /\ late \subseteq {"start"} /\ Next /\ UNCHANGED <<part, evVars, scoringVars>>
  \/ part = "settlement" /\ ~(late \subseteq {"start"}) /\ UNCHANGED allVars
  \/ part = "evidence" /\ EvidenceNext /\ UNCHANGED <<part, vars, scoringVars>>
  \/ part = "category" /\ CategoryNext /\ UNCHANGED <<part, vars, evVars>>
  \/ part = "class" /\ ClassNext /\ UNCHANGED <<part, vars, evVars>>

MCSpec == MCInit /\ [][MCNext]_allVars
=============================================================================
