SPECIFICATION ServicesSpec
CONSTANTS
  \* a run of the evaluation and its retry
  EvalJobs = {j1, j2}
  NoJob = NoJob
  MaxEvalFaults = 1
  \* more documents than the cap, one of them blocked, the others of one url
  FreshDocs = {1, 2, 3}
  Urls = {"open", "walled"}
  UrlOf <- MCUrlOf
  WafUrls = {"walled"}
  FreshSlots = {1, 2}
  MaxEnqueue = 2
  StaleDays = 2
  MaxPage = 2
  MaxFreshEvents = 1
  \* a page and another client, served by two containers
  SseJobs = {k1}
  Streams = {s1, s2}
  PageStream = s1
  Containers = {c1, c2}
  MaxUpdates = 1
  MaxSseFaults = 1
  \* two promotions and two edits at a time
  Promoters = {p1, p2}
  Editors = {e1, e2}
  NoRow = NoRow
  \* two asks at a time, room for one entry
  Asks <- MCAsks
  Threads = {t1, t2}
  CacheTtl = 2
  MaxEntries = 1
  MaxTurn = 1
  \* up to three chunks
  Kinds <- MCKinds
  MaxCorpus = 3
  TopKs = {1, 2}
  MinScore = 1
  LocaleBoost = 1
  \* four pages
  Pages = {1, 2, 3, 4}
  Seed = 1
  Sites <- MCSites
  Scopes <- MCScopes
  Plans <- MCPlans
  Given <- MCGiven
  \* up to eleven tokens
  TextLengths = {0, 1, 2, 3, 4, 5, 6, 7, 8, 9, 10, 11}
  MinSize = 2
  MaxSize = 5
  \* three accounts, two operators at a time
  Users = {"u1", "u2", "u3"}
  Teams <- MCTeams
  AdminCalls = {r1, r2}
  MaxCalls = 2
INVARIANTS ServicesTypeOK RecordsAgree CachePromise RetrievalPromise IngestPromise EveryTokenInAWindow
PROPERTIES ResultNotUndone PendingEnds  StaleIsChecked PageCatchesUp PromotionIsAtomic EditsOwnColumn EveryWindowIsNew LastAdminKept
CHECK_DEADLOCK FALSE
