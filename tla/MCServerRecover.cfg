SPECIFICATION Spec
CONSTANTS
  d1 = d1
  d2 = d2
  NoText = NoText
  NoConf = NoConf
  Doc = {d1, d2}
  Text = {t1, t2}
  Needs <- FirstImportsSecond
  Conf = {part, ini}
  Partial = {part}
  Broken = {}
  NConfig = 2
  Requests = {}
  Notices = {"panic"}
  CanPanic = {}
  WatchErrors = FALSE
  ReindexAfter = 9
  MaxMessage = 3
  MaxDisk = 2
INVARIANTS DocumentsKept DiagnosticsCurrent
PROPERTIES FollowsEditor
CHECK_DEADLOCK FALSE
