CONSTANTS
  EndSize = 4
  CdhSize = 4
  LdhSize = 3
  Loc64Size = 3
  End64Size = 5
  End64Rest = 3
  ScanBuf = 16
  SigSize = 3
  U16 = 40
  U32 = 63
  U64 = 255
  Layouts <- MCLayouts
  MaxEntries = 3
  MaxEntryBytes = 4
  MaxTotalBytes = 8
  MaxRatio = 3
  IntMax = 31
  Piece = 2
SPECIFICATION Spec
CHECK_DEADLOCK FALSE
INVARIANTS SoundArchiveOpens DirectorySound LimitsHold StaysInside StagedIsTheArchive
PROPERTY EndsClean
