SPECIFICATION MCSpec
CONSTANTS
  LastTrack = 4
  Sectors <- MCSectors
  DirTrack = 2
  Reserved = {4}
  Payload = 2
  Entries = 2
  MaxFiles = 7
  Lengths = {0, 4, 5}
  Line <- MCLine
  MaxLines = 3
  Page = 8
  Size = 128
  Bank = 16
  RomAt = 64
  HighRom = 112
  BootLen = 5
  Pointers = 3
  BasicAt = 9
  BasicEnd = 16
  DefaultEntry = 14
  File <- MCFile
  Archive <- MCArchive
  RomData <- MCRom
INVARIANTS
  TypeOK
  MapExact
  FilesReadable
  OneSectorListed
  InPlace
  OperandsReach
  ShortModesHold
  ReadsBack
  Boots
