CONSTANTS
  MaxSubs = 1
  MaxId = 1
  NEvents = 1
  any = any
  motion = motion
  c1 = c1
  c2 = c2
  Filters = {any}
  AnyTopic = any
  Selects <- MCSelects
  Clients = {c1, c2}
  Ttls = {1, 3}
  Dates = {9}
  Timeouts = {1}
  Limits = {1}
  Margin = 5
  MinGap = 0
  Inotify = {TRUE}
  FilesAtStart = {}
  Start = 10
  MaxTime = 14
  MaxQueue = 0
  Methods = {"CreatePullPoint", "PullMessages", "Renew", "Unsubscribe"}
  MaxRequests = 4
SPECIFICATION LSpec
ACTION_CONSTRAINT UndisturbedPulls
SYMMETRY MCSymmetry
PROPERTIES PromiseKept NoReapDuringPull
