SPECIFICATION Spec
CHECK_DEADLOCK FALSE
CONSTANTS
  Runs = {1, 2}
  Targets = {"a", "b"}
  Plans <- MCPlans
  Day = 3
  Cooldown = 2
  MaxPerDay = 2
  MaxDays = 4
  WebRequests = {1, 2}
  Accounts = {"leela"}
  Addresses = {"home"}
  LockTime = 2
  MaxFailures = 2
  MaxLog = 4
  SignInTime = 4
  WebWorkers = {1}
  CacheAge = 1
  ElevatedFor = 1
  ElevatedCap = 2
  MaxTime = 3
  MaxRevokes = 1
  MaxSignIns = 1
  MaxReports = 4
  Tickets = {1, 2, 3}
  ChatSlots = 2
  DailyLimit = 2
  MaxDay = 2
  ChatCalls = 2
  MoreFaults = 2
  Operators = {"amy", "fry"}
  Switch = TRUE
  MaxEdits = 1
  MaxTries = 2
  OtherEdits = 3
  MaxFaults = 1
  Processes = {"p", "q"}
  Connections = {1, 2, 3}
  Workers = 1
  MaxStarts = 2
  Choices = {1}
  Chats = {1, 2}
  MaxFaces = 2
  MaxRuns = 2
  MaxActs = 3
  MaxAttempts = 1
  MaxActions = 2
  MaxOthers = 2
  Members = {"a", "b"}
  Paused = {"b"}
  MaxScans = 3
  MaxChanges = 2
  MaxVersions = 2
  MaxIds = 3
  TTL = 1
  Budget = 1
  MaxIncludes = 1
  MaxCalls = 3
  Containers = {"a", "b"}
  PollEvery = 1
  StableFor = 2
  TimeLimit = 4
  MaxCrashes = 1
  MaxTurns = 1
  StackSize <- MCStackSize
  Forbidden = {"old"}
  MaxOps = 2
  Eligible <- MCEligible
  Week = 12
  BusyRetry = 1
  MaxWait = 2
  Clear = 2
  Shift = 2
  MaxWindows = 2
  MaxPatches = 1
INVARIANTS
  AuthorityHolds
  SignInsAreCurrent
  FailuresAreTold
  SettingsAreReal
  ServicesAnswer
  OutcomesAreHonest
  ViewsAreCurrent
PROPERTIES
  PrivilegeIsEarned
  EditsAreRespected
  ViewsMoveOn
