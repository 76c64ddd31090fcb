SPECIFICATION Spec
CONSTANTS
  top = top
  left = left
  right = right
  leaf = leaf
  t1 = t1
  t2 = t2
  l1 = l1
  r1 = r1
  f1 = f1
  f2 = f2
  b1 = b1
  b2 = b2
  NoStep = NoStep
  NoBuild = NoBuild
  Drvs = {top, leaf}
  Steps <- ChainSteps
  DrvOf <- ChainDrvOf
  InputDrvs <- ChainInputs
  Builds = {b1, b2}
  TopDrv <- TopAndLeaf
  AtStart = {b1}
  MayCancel = {b1}
  Substitutable = {}
  FailedPaths = {leaf}
  Unreadable = {leaf}
  BuildsMayFail = TRUE
  DbMayFail = TRUE
  Preempted = TRUE
  StopEarly = TRUE
INVARIANT TypeOK
INVARIANT RunnableIsReady
INVARIANT DepsKnown
INVARIANT NoLostWakeup
CHECK_DEADLOCK FALSE
