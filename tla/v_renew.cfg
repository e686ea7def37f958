CONSTANTS
  MaxSubs = 1
  MaxId = 1
  NEvents = 1
  any = any
  motion = motion
  c1 = c1
  c2 = c2
  Filters = {any, motion}
  AnyTopic = any
  Selects <- MCSelects
  Clients = {c1, c2}
  Ttls = {1, 3}
  Dates = {}
  Timeouts = {0}
  Limits = {1}
  Margin = 5
  MinGap = 0
  Inotify = {TRUE}
  FilesAtStart = {}
  Start = 10
  MaxTime = 14
  MaxQueue = 0
  Methods = {"CreatePullPoint", "PullMessages", "Renew"}
  MaxRequests = 3
SPECIFICATION LSpec
PROPERTIES PromiseKept
