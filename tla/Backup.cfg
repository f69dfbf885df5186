CONSTANTS
  Keep = 1
  Size = 2
  Room = 7
  MaxCommits = 2
  MaxFiles = 6
  MaxMishaps = 3
SPECIFICATION BackupSpec
INVARIANTS
  RestorePoint
  NoForeignWal
PROPERTY BackupsKeepUp
