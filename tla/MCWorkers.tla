----------------------------- MODULE MCWorkers ------------------------------
(* Worker processes: the delivery of events to them, the documents that one of *)
(* them reads, and the backups.  A behaviour is one of the component that      *)
(* "part" names, the others rest.                                              *)
(* Delivery: two consumers of one group, alone or beside another group's       *)
(* single consumer.                                                            *)
EXTENDS EventDelivery, Knowledge, Backups, TLC

CONSTANTS e1, desk, mail, w1, w2, w3

VARIABLE part          \* the component that this behaviour is one of

MCEvents == {e1}
MCOneGroup == {desk}
MCTwoGroups == {desk, mail}
MCPair == {w1, w2}
MCAllWorkers == {w1, w2, w3}
MCSameGroup == (w1 :> desk) @@ (w2 :> desk)
MCTwoAndOne == (w1 :> desk) @@ (w2 :> desk) @@ (w3 :> mail)
MCSymmetry == Permutations(MCPair)

allVars == <<part, vars, knowVars, backupVars>>

MCInit == part \in {"delivery", "knowledge", "backups"} /\ Init /\ KnowInit /\ BackupInit

MCNext ==
  \/ part = "delivery" /\ Next /\ UNCHANGED <<part, knowVars, backupVars>>
  \/ part = "knowledge" /\ KnowNext /\ UNCHANGED <<part, vars, backupVars>>
  \/ part = "backups" /\ BackupNext /\ UNCHANGED <<part, vars, knowVars>>

MCSpec == MCInit /\ [][MCNext]_allVars

\* The delivery alone, for liveness
MCFairInit == part = "delivery" /\ Init /\ KnowInit /\ BackupInit
MCFairSpec == MCFairInit /\ [][MCNext]_allVars /\ Fairness
=============================================================================
