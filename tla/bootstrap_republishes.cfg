SPECIFICATION PollSpec
CONSTANTS
  f1 = f1
  f2 = f2
  i1 = i1
  i2 = i2
  NoOwner = NoOwner
  Gone = Gone
  Items = {i1, i2}
  Workers = {}
  Analyzers = {}
  Dispatchers = {}
  MayCrash = {"rss-reader"}
  MaxFaults = 1
  MaxCrashes = 1
  MaxRemovals = 1
  Feeds = {f1, f2}
  UrlRank <- Ranks
  Configured <- OnlyFirst
  Document <- Published
  Entry <- Different
  NoGuid = NoGuid
  MaxItemsPerPoll = 1
  ColdStartItems = 1
  ForcedLimit = 1
  MaxEdits = 2
  MaxRequests = 2
  MaxEvents = 0
PROPERTIES
  MarkedIsNotPublished
\* rss-reader ends when it finds no feed to poll at its start.
CHECK_DEADLOCK FALSE
