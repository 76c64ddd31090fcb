SPECIFICATION FairSpec
CONSTANTS
  top = top
  left = left
  right = right
  leaf = leaf
  t1 = t1
  t2 = t2
  l1 = l1
  r1 = r1
  f1 = f1
  f2 = f2
  b1 = b1
  b2 = b2
  NoStep = NoStep
  NoBuild = NoBuild
  Drvs = {top, left, right, leaf}
  Steps <- DiamondSteps
  DrvOf <- DiamondDrvOf
  InputDrvs <- DiamondInputs
  Builds = {b1}
  TopDrv <- TopOnly
  AtStart = {b1}
  MayCancel = {}
  Substitutable = {leaf, right}
  FailedPaths = {}
  Unreadable = {}
  BuildsMayFail = TRUE
  DbMayFail = FALSE
  Preempted = FALSE
  StopEarly = FALSE
INVARIANT InputsBuilt
 
PROPERTY RepairLeavesNoDeps
 
CHECK_DEADLOCK FALSE
