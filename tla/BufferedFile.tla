--------------------------- MODULE BufferedFile ---------------------------
(***************************************************************************)
(* CTitanBufferedFile (TitanBase/CTitanBufferedFile.hpp): a file is read    *)
(* through a buffer that is filled anew, from the place where one reads,    *)
(* whenever the next bytes are not all in it.                               *)
(***************************************************************************)
EXTENDS Integers, Sequences

CONSTANTS
  Contents,   \* the files there are: sequences of bytes
  BufferSize, \* TITAN_BUFFER_SIZE, 8192
  MaxPos      \* bound: how far a caller seeks and skips

ASSUME BufferThere == BufferSize \in Nat \ {0} /\ MaxPos \in Nat
ASSUME ContentsAreFiles == \A c \in Contents : c \in Seq(Nat)

VARIABLES
  content,           \* the file of pFh
  bOpen,
  dataBuffer,        \* place in the buffer -> byte
  currentBufferPos,  \* the place in the file of the buffer's first byte
  currentReadPos,
  gotFrom,           \* history: where the last call read,
  got                \* and what it returned

bufVars == <<content, bOpen, dataBuffer, currentBufferPos, currentReadPos, gotFrom, got>>

Places == 0..(BufferSize - 1)
Unread == [i \in Places |-> 0]

\* fseek() and fread(): what lies behind the end stays as it was.
Filled(file, from, old) ==
  [i \in Places |-> IF from + i < Len(file) THEN file[from + i + 1] ELSE old[i]]

BufInit == /\ content \in Contents
           /\ bOpen = FALSE
           /\ dataBuffer = Unread
           /\ currentBufferPos = 0 /\ currentReadPos = 0
           /\ gotFrom = 0 /\ got = <<>>
-----------------------------------------------------------------------------
\* Open, with the CheckBuffer(-1) that fills the buffer; a path that leads
\* nowhere leaves all as it is.
BufOpen(file) ==
  /\ ~bOpen
  /\ bOpen' = TRUE
  /\ content' = file
  /\ currentBufferPos' = 0 /\ currentReadPos' = 0
  /\ dataBuffer' = Filled(file, 0, dataBuffer)
  /\ got' = <<>> /\ UNCHANGED gotFrom

BufClose ==
  /\ bOpen' = FALSE
  /\ currentBufferPos' = 0 /\ currentReadPos' = 0
  /\ UNCHANGED <<content, dataBuffer, gotFrom, got>>

\* CheckBuffer: the next n bytes are not all in the buffer.
Short(n) == currentBufferPos + BufferSize < currentReadPos + n

BufferPos(n) == IF Short(n) THEN currentReadPos ELSE currentBufferPos
BufferFor(n) == IF Short(n) THEN Filled(content, currentReadPos, dataBuffer) ELSE dataBuffer

\* Get, GetString, ReadBytes, GetBuffer, which refuse TITAN_BUFFER_SIZE and more.
BufGet(n) ==
  /\ bOpen /\ n \in 1..(BufferSize - 1)
  /\ currentBufferPos' = BufferPos(n) /\ dataBuffer' = BufferFor(n)
  /\ gotFrom' = currentReadPos
  /\ got' = [i \in 1..n |-> BufferFor(n)[currentReadPos - BufferPos(n) + i - 1]]
  /\ currentReadPos' = currentReadPos + n
  /\ UNCHANGED <<content, bOpen>>

\* Skip.
BufSkip(n) ==
  /\ currentReadPos + n <= MaxPos
  /\ IF bOpen THEN currentBufferPos' = BufferPos(n) /\ dataBuffer' = BufferFor(n)
              ELSE UNCHANGED <<currentBufferPos, dataBuffer>>
  /\ currentReadPos' = currentReadPos + n
  /\ UNCHANGED <<content, bOpen, gotFrom, got>>

\* Mutant: the buffer is not told where it is now.
BufSeek_BufferPosKept(newPos) ==
  /\ bOpen
  /\ currentReadPos' = newPos
  /\ dataBuffer' = Filled(content, newPos, dataBuffer)
  /\ UNCHANGED <<currentBufferPos, content, bOpen, gotFrom, got>>

\* Seek, anywhere at or after the start of the file.
BufSeek(newPos) ==
  /\ bOpen
  /\ currentReadPos' = newPos /\ currentBufferPos' = newPos
  /\ dataBuffer' = Filled(content, newPos, dataBuffer)
  /\ UNCHANGED <<content, bOpen, gotFrom, got>>

BufNext == \/ \E file \in Contents : BufOpen(file)
           \/ BufClose
           \/ \E n \in 0..MaxPos : \/ currentReadPos < MaxPos /\ BufGet(n)
                                   \/ BufSkip(n) \/ BufSeek(n)

BufSpec == BufInit /\ [][BufNext]_bufVars
-----------------------------------------------------------------------------
BufTypeOK ==
  /\ content \in Contents /\ bOpen \in BOOLEAN
  /\ dataBuffer \in [Places -> Nat]
  /\ currentBufferPos \in Nat /\ currentReadPos \in Nat
  /\ gotFrom \in Nat /\ got \in Seq(Nat)

\* Wherever one reads, one gets the bytes that the file has there, however one
\* came there (CTitanBufferedFile.hpp:79); behind its end anything may come.
ReadsTheFile ==
  \A i \in DOMAIN got : gotFrom + i <= Len(content) => got[i] = content[gotFrom + i]

\* Why: the buffer is a window of the file that begins before the place where
\* one reads.
Window ==
  bOpen => /\ currentBufferPos <= currentReadPos
           /\ \A i \in Places : currentBufferPos + i < Len(content)
                                  => dataBuffer[i] = content[currentBufferPos + i + 1]

BufInv == BufTypeOK /\ Window /\ ReadsTheFile
=============================================================================
