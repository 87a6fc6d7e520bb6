SPECIFICATION SCSpec
CONSTANTS
  Servers = {"reverse", "forward", "metrics"}
  Connections = {conn1, conn2}
  Nil = Nil
  Strings <- MCStrings
  Host <- MCHost
  Matches <- MCMatches
  Files <- MCFiles
CHECK_DEADLOCK FALSE
INVARIANTS SCTypeOK RequestsDrained AcceptedConfigBuilds LoggedCopyRedacted
PROPERTIES ImplementsLifecycle SignalEndsProcess FailureEndsProcess StartupSettles
