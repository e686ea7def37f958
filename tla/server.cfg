SPECIFICATION Spec
CONSTANTS
  ShortNames = {"short"}
  LongNames = {"long-profile"}
  OtherToken = "other-output"
  RelayNames = {"door", "gate", "RelayOutputToken_1"}
  MaxRelays = 3
  MaxEvents = 3
  Null = Null
  Files <- MCFiles
  Junk <- MCJunk
CHECK_DEADLOCK FALSE
INVARIANTS TypeOK ShowsWhatThereIs TokensWork Answered  ServicesAgree
PROPERTIES RelayFollows
