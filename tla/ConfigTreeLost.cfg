CONSTANTS
  k1 = k1
  k2 = k2
  k3 = k3
  j1 = j1
  Keys = {k1, k2, k3}
  SubKeys = {j1}
  Cfg = {0, 1}
  Tx = {t1}
  Main = Main
  None = None
  Initial <- TwoKids
  InitCfg = 0
  MaxOps = 2
SPECIFICATION Spec
CHECK_DEADLOCK FALSE
PROPERTY
  NoLostUpdate
