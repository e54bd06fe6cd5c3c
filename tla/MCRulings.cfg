SPECIFICATION MCSpec
CONSTANTS
  v1 = v1
  v2 = v2
  v3 = v3
  NoScore = NoScore
  Submissions <- MCSubmissions
  Points <- MCPoints
  Outcomes <- MCOutcomes
  Size = 8
  MinReviewers = 7
  MaxProposals = 1
  MaxMoves = 1
  Jurors = {1, 2, 3, 4, 5, 6, 7, 8}
  Subject = 1
  Verdicts <- MCVerdicts
  MaxFacts = 2
  MaxPoolMoves = 1
  Pictures = {1, 2}
  MaxEvents = 2
  ReportStaff = {"r1", "r2"}
  Reporters = {"p1", "r1"}
  Reported = {"penalty", "submission"}
  ReportLinks = {"link"}
  MaxReports = 2
  FullScore = 1
  MaxScoreMoves = 1
SYMMETRY MCSymmetry
CHECK_DEADLOCK FALSE
INVARIANTS
  AdjudicationInv
  ProposalInv
  PanelInv
  ReportInv
  RecognitionInv
PROPERTIES
  CorrectionStands
  DecidedAsVoted
  AppliedToJudged
  EndedBatchStays
