SPECIFICATION FairSpec
CONSTANTS
  m1 = m1  m2 = m2  m3 = m3  w1 = w1  w2 = w2  r1 = r1  r2 = r2
  Members = {m1, m2}
  Work = {w1, w2}
  Placeholders = {w1}
  Ring <- MCRing
  Runs = {r1, r2}
  MaxEdits = 2
CHECK_DEADLOCK FALSE
INVARIANT NotReentered
