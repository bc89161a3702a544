SPECIFICATION FairSpec
CONSTANTS
  Conn = {c1, c2}
  MaxBody = 5
  FirstCapacity = 2
  MaxSize = 6
  MaxPiece = 3
  NoBody = noBody
INVARIANTS
  UploadTypeOK
  WholeBody
  OneAnswer
  BufferFits
PROPERTIES
  OnlyTooLarge
  EveryRequestCompletes
