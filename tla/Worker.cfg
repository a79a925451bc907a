\* Two work ids, another member's keys next to ours, four edits: enough for
\* a change, its reversal within the soak, and more.
SPECIFICATION FairSpec
CONSTANTS
  Work = {w1, w2}
  Members = {m1, m2}
  Me = m1
  IdPrefixed = {m1}
  None = None
  MaxChanges = 4
INVARIANTS OneSoakTimer
PROPERTIES StopMidSoakIsFinal Converges
