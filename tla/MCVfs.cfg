SPECIFICATION Spec
CONSTANTS
  Name = {"a", "b"}
  Paths <- SomePaths
  Lens = {1, 2}
  Flags = {{"RDONLY"}, {"TRUNC"}}
  Seeks <- SomeSeeks
  Uids = {0, 7}
  Gids = {0}
  \* Group and others have the same bits in mode 0755: the gid decides nothing.
  FdCount = 2
  RamdiskMax = 1
  FsMax = 1
  Assumed = 2
  OffMod = 16
  MaxInodes = 3
  BufCount = 2
  MaxOffset = 2
INVARIANTS RefCountsMatch BuffersOwned CreatedIsFound
CONSTRAINT NoFaultYet
CHECK_DEADLOCK FALSE
