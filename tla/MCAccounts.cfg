SPECIFICATION MCSpec
CONSTANTS
  c1 = c1
  c2 = c2
  u1 = u1
  u2 = u2
  u3 = u3
  Users <- MCPeople
  MemberTxs = {"m1"}
  ImportRoles = {"student"}
  Tokens = {1, 2, 3}
  Families = {1, 2}
  Calls <- MCTxs
  Tickets = {"k1"}
  Roles = {"student", "class_admin"}
  MaxAccountChanges = 2
  Addresses = {"a1", "a2", "a3"}
  Codes = {"k1"}
  EmailTxs = {"x1", "x2"}
  MaxTries = 2
  Links = {"l1"}
  Keys = {"k1"}
  ToolTxs <- MCTxs
  Requests = {"a", "b"}
  MaxOwnerEdits = 2
  MaxData = 2
  Events = {1, 2}
  Type <- MCType
  Item <- MCItem
  Role = "reviewer"
  Channels = {"ses", "smtp", "resend", "aliyun"}
  BatchIds = {1, 2}
  Mailers <- MCTxs
  Modes = {"immediate", "frequent"}
  DailyLimit = 1
  MaxAttempts = 2
  MaxChanges = 1
  Questions = {1}
  AgentWorkers <- MCTxs
  DraftTxs <- MCTxs
  MaxDeliveries = 2
  MaxPrepares = 2
  MaxWorld = 1
  ExportIds = {1, 2}
  ExportWorkers <- MCTxs
  MaxRuns = 1
SYMMETRY MCSymmetry
CHECK_DEADLOCK FALSE
INVARIANTS
  MemberInv
  SessionInv
  EmailInv
  ToolLinkInv
  MailedOnce
  MailQueueInv
  AssistantInv
  ExportInv
PROPERTIES
  SettledMessageStays
  PublishedWhileAllowed
