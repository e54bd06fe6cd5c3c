SPECIFICATION ReportSpec
CONSTANTS
  ReportStaff = {"r1", "r2"}
  Reporters = {"p1", "p2"}
  Reported = {"submission"}
  ReportLinks = {}
  MaxReports = 2
  FullScore = 2
  MaxScoreMoves = 0
CHECK_DEADLOCK FALSE
PROPERTIES
  ReportNeverRaises
