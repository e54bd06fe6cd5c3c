SPECIFICATION Spec
CONSTANTS
  NoScore = NoScore
  Submissions = {"s1"}
  Students = {"ann"}
  Points = {"low", "high"}
  MaxSchemes = 2
  MaxRuns = 2
INVARIANTS
  ExportShowsScores
