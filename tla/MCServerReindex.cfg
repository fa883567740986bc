SPECIFICATION FairSpec
CONSTANTS
  d1 = d1
  d2 = d2
  NoText = NoText
  NoConf = NoConf
  Doc = {d1, d2}
  Text = {t1, t2}
  Needs <- FirstImportsSecond
  Conf = {}
  Partial = {}
  Broken = {}
  NConfig = 1
  Requests = {"diagnostics"}
  Notices = {}
  CanPanic = {}
  WatchErrors = FALSE
  ReindexAfter = 1
  MaxMessage = 5
  MaxDisk = 1
INVARIANTS DocumentsKept DiagnosticsCurrent
PROPERTIES DiagnosticsSettle
CHECK_DEADLOCK FALSE
