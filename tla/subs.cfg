CONSTANTS
  MaxSubs = 1
  MaxId = 1
  NEvents = 1
  any = any
  motion = motion
  c1 = c1
  c2 = c2
  Filters = {any}
  AnyTopic = any
  Selects <- MCSelects
  Clients = {c1, c2}
  Ttls = {}
  Dates = {0, 9}
  Timeouts = {1}
  Limits = {1}
  Margin = 1
  MinGap = 0
  Inotify = {TRUE, FALSE}
  FilesAtStart = {}
  Start = 10
  MaxTime = 10
  MaxQueue = 1
  Methods = {"CreatePullPoint", "Subscribe", "PullMessages", "Renew", "Unsubscribe", "SetSynchronizationPoint"}
  MaxRequests = 3
SPECIFICATION FairSpec
PROPERTIES PullReturns ExpiredAreFreed
