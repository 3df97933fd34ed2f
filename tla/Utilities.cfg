\* The parts that share no state, one at a time.  On streams, bytes are of five
\* values: packets of two and three bytes have short headers, four and five long
\* ones.  A part may stop: a file when all is read, a stream when nobody sends.
CONSTANTS
  Entities = {e1, e2, e3, e4}
  FirstEID = 2
  MAX_EID = 5
  Contents <- MCContents
  BufferSize = 3
  MaxPos = 7
  Names = {"f"}
  FileBytes = {97}
  FirstFiles <- MCFirstFiles
  MaxFile = 4
  MaxLine = 8
  Lines <- MCLines
  MaxLines = 3
  ByteRadix = 4
  PacketHeader = 2
  Numbers = {0, 7, 250}
  Texts <- MCTexts
  MaxFields = 2
  Radix = 5
  KeyLen = 3
  Start = 1
  Routes = {"direct", "relayed", "reply", "hub", "isc"}
  Lengths = {2, 3, 4, 5}
  MaxPackets = 3
  Columns <- MCColumns
  Ids <- MCIds
  Strings <- MCStrings
  MaxRows = 2
SPECIFICATION Spec
INVARIANT EidsUnique
INVARIANT RefusedOnlyIfAllAllocated
INVARIANT ReadsTheFile
 
 
 
INVARIANT LookupsFind
 
PROPERTY AllDelivered
CHECK_DEADLOCK FALSE
