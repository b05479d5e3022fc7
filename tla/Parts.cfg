SPECIFICATION FairSpec
CONSTANTS
  PipeRoom = 2
  MaxOutput = 3
  Statuses <- Endings
  WsSessions <- Sessions
  WsCodes = {0, 1}
  WsPipeRoom = 1
  WsMaxBytes <- BytesOf
  WsMaxFrames <- FramesOf
  NPorts = 2
  PfRoom = 1
  PfMaxBytes = 1
  PfMaxFrames = 3
  Conns = {k1, k2}
  Namings <- SomeNamings
  PortOf <- OnePort
  SpRoom = 1
  SpMaxBytes = 1
  SpMaxFrames = 5
  Sent <- PairsOfFrames
  HeaderLists <- SomeHeaders
  Payloads <- SomePayloads
  LastDay = 48000
  Sandboxes = {s1}
  Containers = {c1, c2}
  None = None
  Codes = {0, 1}
  Clients = {q1}
  LabelsOf <- SomeLabels
  Filters <- SomeFilters
  PodFilters <- SomePodFilters
  VrCodes = {0, 3, 42, 137, 143}
  Suites <- SomeSuites
  BadRefs = {"invalid ref"}
  Refs <- SomeRefs
  IdOf <- SomeIds
  SizeOf <- SomeSizes
INVARIANT ResultIsWhole
INVARIANT StatusIsLast
INVARIANT OwnTarget
INVARIANT RefusalIsTold
INVARIANT FramesReassembled
INVARIANT RoundTrips
INVARIANT DateIsCalendar
INVARIANT VerdictsAreRight
PROPERTY AnswersAreTrue
PROPERTY PartsProgress
CHECK_DEADLOCK FALSE
