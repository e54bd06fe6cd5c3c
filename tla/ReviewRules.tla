----------------------------- MODULE ReviewRules -----------------------------
(***************************************************************************)
(* The pure rules of the submission workflow (internal/review/state.go):   *)
(* the declared status machine and the function that turns the conclusions *)
(* of the reviewers of one item into its next status.                      *)
(*                                                                         *)
(* Points are compared after rounding in the code, so a score is an        *)
(* abstract value here; only equality and "is it zero" matter.             *)
(***************************************************************************)
EXTENDS Naturals, FiniteSets

CONSTANT NoScore      \* SQL NULL in submission.final_score

Status == {"draft", "pending", "consensus", "scored",
           "appealing", "arbitrating", "locked"}

Decision == {"accepted", "adjusted", "rejected"}

\* The declared state machine: pairs <<from, to>> that Transition accepts.
CanTransition ==
  {<<"draft", "pending">>,
   <<"pending", "draft">>, <<"pending", "consensus">>,
   <<"pending", "scored">>, <<"pending", "arbitrating">>,
   <<"consensus", "scored">>, <<"consensus", "arbitrating">>,
   <<"scored", "appealing">>, <<"scored", "arbitrating">>,
   <<"scored", "locked">>,
   <<"appealing", "scored">>, <<"appealing", "arbitrating">>,
   <<"appealing", "locked">>,
   <<"arbitrating", "scored">>, <<"arbitrating", "appealing">>,
   <<"arbitrating", "locked">>}

\* The inputs Reconcile accepts; on any other it returns an error and the
\* request is rolled back.  The results of one item are one record per
\* reviewer, with fields rev, decision and score.
ReconcileAccepts(expected, results) ==
  /\ expected \in {1, 2}
  /\ \A x, y \in results : x.rev = y.rev => x = y
  /\ \A x \in results : /\ x.decision \in Decision
                        /\ x.decision = "rejected" => x.score = 0
  /\ Cardinality(results) <= expected

\* A slip: only the points are compared.
AgreeOnScore(results) == \A x, y \in results : x.score = y.score

Agree(results) ==
  \A x, y \in results : x.decision = y.decision /\ x.score = y.score

\* A slip: the last conclusion is not waited for.
ReconcileEarly(expected, results) ==
  IF Cardinality(results) + 1 < expected
    THEN [status |-> "consensus", score |-> NoScore]
    ELSE [status |-> "scored", score |-> (CHOOSE x \in results : TRUE).score]

\* The back-to-back rule: nothing is decided until the expected number of
\* conclusions is in; then they must agree on decision and score.
Reconcile(expected, results) ==
  IF Cardinality(results) < expected
    THEN [status |-> "consensus", score |-> NoScore]
    ELSE IF Agree(results)
      THEN [status |-> "scored", score |-> (CHOOSE x \in results : TRUE).score]
      ELSE [status |-> "arbitrating", score |-> NoScore]
=============================================================================
