\* One session of the HTTP server or the REPL; the process dies.
SPECIFICATION Spec
CONSTANTS
  Sessions = {s1}
  NoSession = NoSession
  ReplSession = s1
  BaseLog = BaseLog
  Steps = 2
  MaxTx = 2
INVARIANT
  LoggedIsRecovered
