SPECIFICATION FairSpec
CONSTANTS
  d1 = d1
  d2 = d2
  NoText = NoText
  NoConf = NoConf
  Doc = {d1}
  Text = {t1, t2}
  Needs <- Alone
  Conf = {bad}
  Partial = {}
  Broken = {bad}
  NConfig = 1
  Requests = {"query", "diagnostics", "invalid", "shutdown"}
  Notices = {"panic", "exit"}
  CanPanic = {"query", "diagnostics", "open", "change", "close", "publish"}
  WatchErrors = TRUE
  ReindexAfter = 1
  MaxMessage = 3
  MaxDisk = 1
INVARIANTS TypeOK AnsweredInOrder ShutdownIsFinal
PROPERTIES RequestsAnswered
CHECK_DEADLOCK FALSE
