\* Two members and two work ids on one ring, so that a member that joins
\* takes over some work and one that leaves gives all of it back.  The timer
\* may fire while an activation is in progress and start a second one.
SPECIFICATION FairSpec
CONSTANTS
  m1 = m1  m2 = m2  m3 = m3  w1 = w1  w2 = w2  r1 = r1  r2 = r2
  Members = {m1, m2}
  Work = {w1, w2}
  Placeholders = {w1}
  Ring <- MCRing
  Runs = {r1, r2}
  MaxEdits = 1
PROPERTIES SingleOwner AssignsWhatIsWanted HaltedComesToRest
CHECK_DEADLOCK FALSE
