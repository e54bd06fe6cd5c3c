SPECIFICATION Spec
CONSTANTS
  s1 = s1
  ann = ann
  bob = bob
  cyd = cyd
  dan = dan
  Submissions <- MCSubmissions
  Reviewers <- MCTrio
  Owner <- MCOwner
  SeatIds = {1, 2, 3, 4}
  Leavers = {}
  Verdicts <- MCVerdicts
  NoSeat = 0
  NoOne = NoOne
  NoScore = NoScore
  Scores = {0, 1}
  MaxContent = 1
  MaxOpen = 2
SYMMETRY MCTrioSymmetry
CHECK_DEADLOCK FALSE
INVARIANTS
  ScoreIsAgreed
PROPERTIES
  DecisionIsStable
  DeskFollowsMachine
