SPECIFICATION Spec
CONSTANTS
  LastTrack = 4
  Sectors <- MCSectors
  DirTrack = 2
  Reserved = {4}
  Payload = 2
  Entries = 2
  MaxFiles = 7
  Lengths = {0, 4, 5}
INVARIANT
  AllListed
