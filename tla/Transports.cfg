CONSTANTS
  doc = doc
  peer = peer
  none = none
  net = net
  disk = disk
  WsLast = 4
  WsAttempts = 3
  SseLast = 3
  SseStarts = 2
  SseFailures = 1
  SseReconnects = 2
  SsePosts = 2
  RtcLast = 2
  RtcAttaches = 2
  RtcStops = 1
  RtcOwn = TRUE
  PollLast = 2
  PollData = 2
  PollPosts = 2
  PollCuts = 1
  CompatLast = 4
  CompatAttempts = 2
  CompatLosses = 3
  EvWaits = {1}
  EvSteps = 6
  Joined = {a1, a2, a3}
  JoinedStarts = 3
  Repos = {r1, r2}
  Servers = {s1, s2}
  Storages = {db}
  LifeIds = {net, disk}
  IdOf <- SharedIds
  LifeChannels = 2
  LifeCalls = 3
SPECIFICATION Spec
INVARIANTS
  EndsAgree
  ChannelsAreLive
  OnlyOnce
  GivesUpForCause
PROPERTIES
  Recovers
  WaitsEnd
  NothingStale
CHECK_DEADLOCK FALSE
