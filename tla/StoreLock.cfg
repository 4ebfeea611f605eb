CONSTANTS
  t1 = t1
  t2 = t2
  t3 = t3
  pa = pa
  pb = pb
  Thread = {t1, t2, t3}
  Process = {pa, pb}
  ProcOf <- MCProcOf
  NoThread = NoThread
SPECIFICATION Spec
INVARIANT WritersExclude
INVARIANT NoOrphanLock
PROPERTY CallsReturn
