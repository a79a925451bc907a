\* One instance crashes and restarts, one stops.  No session is left for a
\* third start, so that the system may come to rest.
SPECIFICATION FairSpec
CONSTANTS
  Instances = {v1, v2}
  MaxSessions = 3
  MaxCrashes = 1
  MaxStops = 1
  MaxLosses = 0
  MaxWipes = 0
  MaxExpiries = 0
  NoKey = NoKey
INVARIANTS SingleLeader
PROPERTIES Joined Elected
CHECK_DEADLOCK FALSE
