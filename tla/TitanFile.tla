----------------------------- MODULE TitanFile -----------------------------
(***************************************************************************)
(* CTitanFile (TitanBase/CTitanFile.hpp): a file of the C library, with a   *)
(* mode, a type that Open finds out, and calls that check both.             *)
(*                                                                         *)
(* Of the C library we model what the class relies on: a place in the file, *)
(* an end-of-file mark that a short read sets and a seek clears, and modes  *)
(* that create or empty a file.  Bytes are numbers; a wide character is two *)
(* bytes; text mode's CR LF is one LF.                                      *)
(***************************************************************************)
EXTENDS Integers, Sequences, SequencesExt, FiniteSetsExt

CONSTANTS
  Names,       \* of files
  FileBytes,   \* bytes that are written
  FirstFiles,  \* what may be on the disk: functions from Names to sequences of bytes or Absent
  MaxFile,     \* bound: bytes of a file
  MaxLine      \* CFILE_MAXLINELENGHT, 255

ASSUME NamesThere == Names # {}
ASSUME RoomForChars == MaxLine \in Nat \ {0, 1}

VARIABLES
  disk,     \* name -> bytes, or Absent
  fh,       \* the C library's file, or Closed
  fmode,    \* a set of flags
  ftype,    \* FILETYPE
  flasterr, \* FILEERROR
  opened,   \* history: what the last Open could know of the file
  fileCrashed  \* an address was used that is none

fileVars == <<disk, fh, fmode, ftype, flasterr, opened, fileCrashed>>

Absent == <<-1>>
Closed == [name |-> "", pos |-> 0, eof |-> FALSE]
LF == 10
CR == 13
UnicodeHeader == <<255, 254>>
Modes == {{"read"}, {"write"}, {"read", "write"}, {"read", "write", "create"}}
Binary == {"binary"}

FileInit == /\ fh = Closed /\ fmode = {} /\ ftype = "none" /\ flasterr = "success"
            /\ opened = [unicode |-> FALSE, binary |-> FALSE, garbage |-> FALSE, stale |-> FALSE]
            /\ fileCrashed = FALSE

IsOpen == fh # Closed
Bytes == disk[fh.name]
IsRead == "read" \in fmode
IsWrite == "write" \in fmode
-----------------------------------------------------------------------------
(* Open, Close                                                              *)

\* ConvertBitFieldFileModeToASCIIFileMode, for a mode that reads or writes.
FopenMode(mode) ==
  CASE {"read", "write", "create"} \subseteq mode -> "w+"
    [] {"read", "write"} \subseteq mode -> "r+"
    [] "read" \in mode -> "r" [] "write" \in mode -> "w"

\* fopen: the disk afterwards, if the file can be opened.
CanOpen(name, mode) == FopenMode(mode) \in {"r", "r+"} => disk[name] # Absent
DiskOpened(name, mode) == IF FopenMode(mode) \in {"w", "w+"} THEN [disk EXCEPT ![name] = <<>>] ELSE disk
HasHeader(bytes) == IsPrefix(UnicodeHeader, bytes)
At(name, pos) == [name |-> name, pos |-> pos, eof |-> FALSE]

\* Mutant: an earlier header is taken for this file's.
OpenText_KeepsType(name, mode, garbage) ==
  /\ CanOpen(name, mode) /\ ftype # "binary" /\ "binary" \notin mode
  /\ disk' = DiskOpened(name, mode)
  /\ LET header == IF "read" \in mode /\ Len(disk'[name]) > 1
                   THEN HasHeader(disk'[name]) ELSE garbage IN
       /\ fh' = At(name, IF header THEN 2 ELSE 0)
       /\ fmode' = IF header THEN mode \cup {"unicode"} ELSE mode
       /\ ftype' = IF header \/ ftype = "unicode" THEN "unicode" ELSE "ascii"
  /\ flasterr' = IF "read" \in mode THEN flasterr ELSE "norights"
  /\ opened' = [unicode |-> HasHeader(disk'[name]), binary |-> FALSE, stale |-> FALSE,
                garbage |-> ~("read" \in mode /\ Len(disk'[name]) > 1)]

\* Open of a text file: two bytes are read to look for the header.  What is
\* looked at is whatever was on the stack when nothing could be read.
OpenText(name, mode, garbage) ==
  /\ CanOpen(name, mode) /\ ftype # "binary" /\ "binary" \notin mode
  /\ disk' = DiskOpened(name, mode)
  /\ LET header == IF "read" \in mode /\ Len(disk'[name]) > 1
                   THEN HasHeader(disk'[name]) ELSE garbage IN
       /\ fh' = At(name, IF header THEN 2 ELSE 0)
       /\ fmode' = IF header THEN mode \cup {"unicode"} ELSE mode
       /\ ftype' = IF header THEN "unicode" ELSE "ascii"
  /\ flasterr' = IF "read" \in mode THEN flasterr ELSE "norights"
  /\ opened' = [unicode |-> HasHeader(disk'[name]), binary |-> FALSE, stale |-> FALSE,
                garbage |-> ~("read" \in mode /\ Len(disk'[name]) > 1)]

\* Open of a binary file, or of any other once one has been open: the type is
\* never taken back.
OpenBinary(name, mode) ==
  /\ CanOpen(name, mode) /\ (ftype = "binary" \/ "binary" \in mode)
  /\ disk' = DiskOpened(name, mode)
  /\ fh' = At(name, 0) /\ fmode' = mode /\ ftype' = "binary"
  /\ opened' = [unicode |-> FALSE, binary |-> "binary" \in mode, garbage |-> FALSE,
                stale |-> "binary" \notin mode]
  /\ UNCHANGED flasterr

OpenFails(name, mode) ==
  /\ ~CanOpen(name, mode)
  /\ fh' = Closed /\ fmode' = mode
  /\ ftype' = IF "binary" \in mode THEN "binary" ELSE ftype
  /\ flasterr' = "unabletoopen"
  /\ UNCHANGED <<disk, opened>>

\* A file that is still open is closed first.
OpenFile(name, mode) ==
  \/ \E garbage \in BOOLEAN : OpenText(name, mode, garbage)
  \/ OpenBinary(name, mode) \/ OpenFails(name, mode)

CloseFile == /\ IsOpen
             /\ fh' = Closed /\ flasterr' = "success"
             /\ UNCHANGED <<disk, fmode, ftype, opened>>
-----------------------------------------------------------------------------
(* Reading                                                                  *)

Size == Len(Bytes)
MinOf(m, n) == IF m < n THEN m ELSE n

\* fseek; fread of n bytes; fgets of a line of at most n - 1 characters of width w.
Moved(to) == [fh EXCEPT !.pos = to, !.eof = FALSE]
AfterRead(file, n) == [file EXCEPT !.pos = MinOf(file.pos + n, IF Size > file.pos THEN Size ELSE file.pos),
                                   !.eof = @ \/ file.pos + n > Size]

Kept == UNCHANGED <<disk, fmode, ftype, opened>>
Fails(err) == flasterr' = err /\ Kept /\ UNCHANGED fh
Fine == Kept /\ UNCHANGED flasterr

\* Every call that reads, and every call that writes, first asks for the right to.
Reading == IsOpen /\ IsRead
Writing == IsOpen /\ IsWrite
Denied == IF ~IsOpen THEN Fails("nofileopened") ELSE Fails("norights")

\* Seek, SetAbsPos: before the start nothing moves.
Seek(to) == IsOpen /\ fh' = (IF to < 0 THEN fh ELSE Moved(to)) /\ Fine

\* GoToStart: behind the header of a unicode file.
GoToStart == /\ IsOpen
             /\ fh' = Moved(IF ftype = "unicode" THEN 2 ELSE 0)
             /\ Fine

\* FileSize goes to the end and back.
FileSize == /\ IsOpen
            /\ fh' = Moved(fh.pos)
            /\ Fine

\* Read, Get.
Read(n) == Reading /\ fh' = AfterRead(fh, n) /\ Fine

\* ReadFrom, ReadFromTo.
ReadFromTo(from, to) ==
  Reading /\ from <= to /\ fh' = AfterRead(Moved(from), to - from) /\ Fine

\* ReadFileToMemory: to the start, through the file, and back.
ReadFileToMemory == Reading /\ fh' = Moved(fh.pos) /\ Fine

\* GetC: of a unicode file, a buffer of one byte is too small for the C library.
GetC == /\ Reading
        /\ ftype # "unicode"
        /\ fh' = AfterRead(fh, 1) /\ Fine

\* The line that fgets or fgetws finds: up to a newline, or MaxLine - 1 characters.
Width == IF ftype = "unicode" THEN 2 ELSE 1
Newlines == {i \in fh.pos + 1..Size : Bytes[i] = LF /\ (i - fh.pos) % Width = 1 % Width}
LineEnd == LET limit == MinOf(fh.pos + Width * (MaxLine - 1), Size)
               short == {i + Width - 1 : i \in Newlines} IN
           Min(short \cup {limit})
LineBytes == SubSeq(Bytes, fh.pos + 1, LineEnd)
LineChars == [i \in 1..(Len(LineBytes) \div Width) |-> LineBytes[Width * (i - 1) + 1]]

\* GetS: nothing is read of a file that is taken for a binary one.
AfterLine == [fh EXCEPT !.pos = LineEnd,
                        !.eof = @ \/ (LineEnd = Size /\ (LineChars = <<>> \/ Last(LineChars) # LF)
                                        /\ Len(LineChars) < MaxLine - 1)]

\* ReadLn: up to the first newline.  A line that ends in one less than three
\* bytes before the end of the file is dropped; the size is unsigned.
Dropped == /\ \E i \in DOMAIN LineChars : LineChars[i] \in {LF, CR}
           /\ Size >= 2 /\ LineEnd >= Size - 2
TheLine == LET ends == {i \in DOMAIN LineChars : LineChars[i] \in {LF, CR}} IN
           IF ends = {} THEN LineChars ELSE SubSeq(LineChars, 1, Min(ends) - 1)
ReadLn ==
  /\ Reading
  /\ IF fh.eof THEN Fails("internalerror")
     ELSE IF ftype \in {"ascii", "unicode"} THEN fh' = AfterLine /\ Fine
     ELSE Fails("internalerror")
-----------------------------------------------------------------------------
(* Writing                                                                  *)

\* fwrite at a place in the file, at most at its end.
Written(bytes, at) ==
  SubSeq(Bytes, 1, at) \o bytes \o SubSeq(Bytes, at + Len(bytes) + 1, Size)

Puts(file, bytes) ==
  /\ file.pos <= Size /\ file.pos + Len(bytes) <= MaxFile
  /\ disk' = [disk EXCEPT ![fh.name] = Written(bytes, file.pos)]
  /\ fh' = [file EXCEPT !.pos = @ + Len(bytes)]
  /\ UNCHANGED <<fmode, ftype, flasterr, opened>>

\* Write, Put.
Write(bytes) == Writing /\ Puts(fh, bytes)

\* WriteFrom, WriteFromTo.
WriteFrom(bytes, from) == Writing /\ Puts(Moved(from), bytes)

\* PutC: of a unicode file the character is taken for an address.
PutC(byte) == IF ftype = "unicode"
              THEN Writing /\ fileCrashed' = TRUE /\ Kept /\ UNCHANGED <<fh, flasterr>>
              ELSE Writing /\ Puts(fh, <<byte>>) /\ UNCHANGED fileCrashed

\* PutS: whatever is not ascii is written in wide characters.
PutS(chars) ==
  Writing /\ Puts(fh, IF ftype = "ascii" THEN chars
                      ELSE [i \in 1..(2 * Len(chars)) |-> IF i % 2 = 1 THEN chars[(i + 1) \div 2] ELSE 0])
-----------------------------------------------------------------------------
Calls ==
  \/ \E name \in Names, mode \in Modes, kind \in {{}, Binary} : OpenFile(name, mode \cup kind)
  \/ CloseFile \/ GoToStart \/ FileSize \/ ReadFileToMemory \/ GetC \/ ReadLn
  \/ \E n \in 0..MaxFile : \/ Seek(n) \/ Read(n) \/ ReadFromTo(n, n + 1)
                           \/ \E b \in FileBytes : WriteFrom(<<b>>, n)
  \/ \E b \in FileBytes : Write(<<b>>) \/ PutS(<<b>>)
  \/ (~IsOpen \/ ~IsRead \/ ~IsWrite) /\ Denied

FileNext == /\ ~fileCrashed
            /\ \/ Calls /\ UNCHANGED fileCrashed
               \/ \E b \in FileBytes : PutC(b)

-----------------------------------------------------------------------------
FileTypeOK ==
  /\ \A n \in Names : disk[n] = Absent \/ \A i \in DOMAIN disk[n] : disk[n][i] \in 0..255
  /\ IsOpen => fh.name \in Names /\ Bytes # Absent
  /\ ftype \in {"none", "binary", "ascii", "unicode"}

\* A file that is open is taken for what it is: binary when it was opened so, else
\* unicode or ascii by the header it had (CTitanFile.hpp:234).  Excepted: what is
\* opened after a binary file, and files too short to tell.
TypeFits ==
  IsOpen /\ ~opened.stale /\ ~opened.garbage =>
    ftype = IF opened.binary THEN "binary"
            ELSE IF opened.unicode THEN "unicode" ELSE "ascii"
=============================================================================
