SPECIFICATION Spec
CONSTANTS
  Addr = {1, 2, 3, 4, 5, 6}
  RegionCount = 3
  ThreadCount = 2
  SyncCount = 2
  FdMax = 1
  TlsValues = {10}
  MaxTid = 2
  MaxSyncId = 2
  Word = 32
  MaxImage = 16
  MaxSections = 3
  HeadersMin = 2
  MaxImports = 2
  Files <- MCFiles
  Demo <- MCDemo
  Dlls <- MCDlls
  Funcs <- MCFuncs
  ModuleCount = 2
  ExportCount = 1
  ProcCount = 1
  ProcThreads = 1
  AtexitCount = 1
  SleepGuard = 2
  MaxExecs = 2
INVARIANTS BuffersAccounted TlsIsOwn SectionsIntact
PROPERTIES ExecReturns
CONSTRAINT Groups
CHECK_DEADLOCK FALSE
