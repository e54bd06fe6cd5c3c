SPECIFICATION Spec
CONSTANTS
  s1 = s1
  ann = ann
  bob = bob
  cyd = cyd
  dan = dan
  Submissions <- MCSubmissions
  Reviewers <- MCReviewers
  Owner <- MCOwner
  SeatIds = {1, 2, 3}
  Leavers <- MCLeavers
  Verdicts <- MCZeroVerdict
  NoSeat = 0
  NoOne = NoOne
  NoScore = NoScore
  Scores = {0}
  MaxContent = 2
  MaxOpen = 1
SYMMETRY MCStayers
CHECK_DEADLOCK FALSE
INVARIANTS
  SeatsPaired
  NoSelfReview
  StatusCountsReviews
PROPERTIES
  ReviewFreezesMaterial
