SPECIFICATION Spec
CONSTANTS
  Requests = {r1, r2}
  MaxPoints = 2
  MaxLogins = 2
  MaxFaults = 2
  MaxRuns = 3
  MaxQueued = 2
  MaxBatch = 2
  MaxExtras = 1
  MaxPublished = 5
  MaxSnapshots = 2
  Capacity = 3
  MaxPushed = 6
INVARIANTS KeysAreTheirOwn EventsAreKept EndsAreToldRight CoefficientsArrive SnapshotsAreWhole
PROPERTIES KeysAreAnswered ComesBack QueuesEmpty RingIsSequence
CHECK_DEADLOCK FALSE
