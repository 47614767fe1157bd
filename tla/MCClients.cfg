SPECIFICATION MCSpec
CONSTANTS
  Name = {"f", "g", "h"}
  Pattern = {"f", "g"}
  Jobs <- MCJobs
  NoFile = ""
  Caller = {c1, c2}
  Request <- MCRequest
  Password = TRUE
  Short = 4
  Wide = 8
  MaxCalls = 3
  Proc = {p1, p2}
  Collection <- MCCollection
  Options <- MCOptions
  Cuts = {2, 12}
  Workers = 2
  Spare = 1
  Category <- MCCategory
  Switch = {"s2"}
  WithUnit = {"s1"}
  DriveID = {"a", "b"}
  DriveA = "a"
  Top = 16
  MaxCommands = 2
  Keys <- MCKeys
  Command <- MCCommand
  Setup <- MCSetup
  Drawing <- MCDrawing
  TextPage = {1024, 50176}
  PokedPage = {52224}
  Text <- MCText
  BitmapPage = {16384, 40960}
  SpriteBlock = {13, 14}
  BASICProgram <- MCProgram
  Ink <- MCInk
  Ram <- MCRam
  CharCell = {0, 3, 39, 40, 999}
  Pixel <- MCPixel
  Dot <- MCDot
  Glyph = {1}
  MaxTurns = 1
  Strips = 3
  MaxPictures = 4
INVARIANTS
  InStep
  ReportsTrue
  Obeyed
  AnswersOwn
  SearchExact
  BuildsConverge
  RunTypes
  NilIsDone
  PictureTrue
  FramesFresh
PROPERTY
  CommandEnds
