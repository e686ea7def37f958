CONSTANTS
  MaxSubs = 1
  MaxId = 1
  NEvents = 2
  any = any
  motion = motion
  c1 = c1
  c2 = c2
  Filters = {any, motion}
  AnyTopic = any
  Selects <- MCSelects
  Clients = {c1, c2}
  Ttls = {1}
  Dates = {}
  Timeouts = {0}
  Limits = {1}
  Margin = 1
  MinGap = 0
  Inotify = {FALSE}
  FilesAtStart = {}
  Start = 10
  MaxTime = 10
  MaxQueue = 1
  Methods = {"CreatePullPoint", "PullMessages", "Renew", "Unsubscribe"}
  MaxRequests = 4
SPECIFICATION DSpec
INVARIANTS FilterBreaksByInheritance
SYMMETRY MCSymmetry
