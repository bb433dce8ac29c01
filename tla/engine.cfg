CONSTANTS
  Pids = {1, 2}
  Programs <- MCPrograms
  Null = Null
  Gone = Gone
  NoPath = NoPath
  Users = {"root", "1000"}
  Requests <- MCRequests
  CountMax = 1
  MaxChanges = 2
  NetNull = NetNull
  Ports = {22}
  NetRequests <- MCNetRequests
  InitialSockets <- MCInitialSockets
  MaxNetChanges = 2
  MaxSessions = 2
SPECIFICATION Spec
CHECK_DEADLOCK FALSE
INVARIANTS SnapshotIsEvidence SnapshotIsComplete RunningMeansRan NotRunningMeansAbsent DirsAreOfPrograms NotListeningMeansAbsent FirstSessionIsSound
PROPERTIES OneSnapshotPerSession LoadsEnd
