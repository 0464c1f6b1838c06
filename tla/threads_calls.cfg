SPECIFICATION MCSpec
CONSTANTS
  Main = Main
  Spawned = {t1, t2}
  t1 = t1
  t2 = t2
  Nobody = Nobody
  MaxDepth = 2
  Coros = {c1, c2, c3}
  c1 = c1
  c2 = c2
  c3 = c3
  Host = Host
  Null = Null
INVARIANTS
  OneList HeldIsOwned NoLostWakeup AbortIsDeadlock ChainToHost
PROPERTIES
  MonitorSpec ReadyRuns
