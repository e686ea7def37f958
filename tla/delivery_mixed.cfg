CONSTANTS
  MaxSubs = 2
  MaxId = 2
  NEvents = 1
  any = any
  motion = motion
  c1 = c1
  c2 = c2
  Filters = {any}
  AnyTopic = any
  Selects <- MCSelects
  Clients = {c1, c2}
  Ttls = {0}
  Dates = {}
  Timeouts = {0}
  Limits = {1}
  Margin = 1
  MinGap = 1
  Inotify = {TRUE}
  FilesAtStart = {}
  Start = 10
  MaxTime = 11
  MaxQueue = 1
  Methods = {"CreatePullPoint", "Subscribe", "PullMessages", "Unsubscribe", "SetSynchronizationPoint"}
  MaxRequests = 3
SPECIFICATION DSpec
PROPERTY KeepsSubscriptionsApart
SYMMETRY MCSymmetry
INVARIANTS TypeOK UnusedHasNoId UniqueIds NoOtherLoss StateIsCurrent
