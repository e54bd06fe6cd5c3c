SPECIFICATION ReportSpec
CONSTANTS
  ReportStaff = {"r1", "r2"}
  Reporters = {"p1"}
  Reported = {"penalty"}
  ReportLinks = {"link"}
  MaxReports = 1
  FullScore = 1
  MaxScoreMoves = 0
CHECK_DEADLOCK FALSE
INVARIANTS
  NoneLeftWaiting
