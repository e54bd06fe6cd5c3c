SPECIFICATION MCSpec
CONSTANTS
  NoScore = NoScore
  Submissions = {"s1"}
  Students = {"ann", "bob"}
  Points = {"low", "high"}
  MaxSchemes = 2
  MaxRuns = 2
  Uploads = {"f1", "f2"}
  Grantees = {"p1", "p2"}
  FileTxs = {"x1", "x2"}
  DailyFiles = 3
  MaxFileDays = 2
  ItemRules <- MCRules
  Marks = {1, 3}
  SharedCaps = {2, 3}
  BaseSums <- MCBases
  CategoryMax = 5
  MaxDecided = 3
  MaxRevisions = 1
  Ranked = {1, 2, 3}
  Weights <- MCWeights
  Grades <- MCGrades
  Awards <- MCAwards
  HonorPercent = 30
INVARIANTS
  OneRunPerScheme
  CurrentRunShowsScores
  CurrentRunSealed
  EvidenceInv
  RankingInv
PROPERTIES
  ConcludedKeepsFiles
  CardIsCategoryTotal
