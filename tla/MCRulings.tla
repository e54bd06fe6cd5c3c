----------------------------- MODULE MCRulings ------------------------------
(* What is ruled in a class, and what the model reads in its pictures.          *)
(* A behaviour is one of the component that "part" names, the others rest.      *)
(* Rulings: of administrators on appeals and objections, of a class that        *)
(* governs itself, and of two reviewers on reports; for Adjudication one item,  *)
(* a negative, a zero and a positive score, and rulings that differ in points   *)
(* or in classification only.                                                   *)
EXTENDS Adjudication, Proposals, Panels, Reports, Recognition, TLC

CONSTANTS v1, v2, v3

VARIABLE part          \* the component that this behaviour is one of

MCSubmissions == {"s1"}
MCPoints == {-1, 0, 2}
MCOutcomes == {<<0, "sport">>, <<2, "sport">>, <<2, "art">>}
MCVerdicts == {v1, v2, v3}
MCSymmetry == Permutations(MCVerdicts)

rulingVars == <<vars, propVars, panelVars>>
allVars == <<part, rulingVars, reportVars, recogVars>>

MCInit ==
  /\ part \in {"appeals", "proposals", "panels", "reports", "recognition"}
  /\ Init /\ PropInit /\ PanelInit /\ ReportInit /\ RecogInit
  /\ part # "proposals" => gov.mode = "centralized"

MCNext ==
  \/ part = "appeals" /\ Next /\ UNCHANGED <<part, propVars, panelVars, reportVars, recogVars>>
  \/ part = "proposals" /\ PropNext /\ UNCHANGED <<part, vars, panelVars, reportVars, recogVars>>
  \/ part = "panels" /\ PanelNext /\ UNCHANGED <<part, vars, propVars, reportVars, recogVars>>
  \/ part = "reports" /\ ReportNext /\ UNCHANGED <<part, rulingVars, recogVars>>
  \/ part = "recognition" /\ RecogNext /\ UNCHANGED <<part, rulingVars, reportVars>>

MCSpec == MCInit /\ [][MCNext]_allVars
=============================================================================
