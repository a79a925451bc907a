\* The key is wiped, a session expires under a running instance, an answer of
\* Consul is lost and an instance stops, at any point.
SPECIFICATION Spec
CONSTANTS
  Instances = {v1, v2}
  MaxSessions = 2
  MaxCrashes = 0
  MaxStops = 1
  MaxLosses = 1
  MaxWipes = 1
  MaxExpiries = 1
  NoKey = NoKey
SYMMETRY Renamings
INVARIANTS FlagMatchesLeader
CHECK_DEADLOCK FALSE
