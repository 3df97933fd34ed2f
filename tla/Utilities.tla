----------------------------- MODULE Utilities -----------------------------
(***************************************************************************)
(* The parts of the servers that keep to themselves, checked side by side:  *)
(* a behaviour is one of a map's entity ids, of a buffered file, of a file, *)
(* of the configuration reader on top of it, of a packet's fields, of the   *)
(* packets on a stream, or of a table.  Each part has a module of its own;  *)
(* they share no state but the file that the configuration reader reads.    *)
(***************************************************************************)
EXTENDS EntityIds, BufferedFile, IniReader, PacketFields,
        PacketFraming, Shn

VARIABLE part

vars == <<eidVars, bufVars, fileVars, iniVars, packetVars, framingVars, shnVars, part>>

Parts == {"eids", "buffered", "file", "ini", "packet", "framing", "shn"}

\* Where a part is not looked at, one of its states is as good as another.
Init == /\ part \in Parts
        /\ IF part = "ini" THEN IniInit
           ELSE /\ disk \in IF part = "file" THEN FirstFiles ELSE {[n \in Names |-> Absent]}
                /\ written = <<>> /\ ended = FALSE /\ reading = "not yet"
                /\ currentSection = NoSection /\ entries = <<>>
        /\ EidInit /\ BufInit /\ FileInit /\ PacketInit /\ FramingInit /\ ShnInit
        /\ part # "buffered" => content = CHOOSE c \in Contents : TRUE
        /\ part # "framing" => route = CHOOSE r \in Routes : TRUE
        /\ part # "shn" => columns = CHOOSE c \in Columns : TRUE

\* A step of one part leaves the others alone.
Eids == part = "eids" /\ EidNext
        /\ UNCHANGED <<bufVars, fileVars, iniVars, packetVars, framingVars, shnVars, part>>
Buffered == part = "buffered" /\ BufNext
            /\ UNCHANGED <<eidVars, fileVars, iniVars, packetVars, framingVars, shnVars, part>>
File == part = "file" /\ FileNext
        /\ UNCHANGED <<eidVars, bufVars, iniVars, packetVars, framingVars, shnVars, part>>
Ini == part = "ini" /\ IniNext
       /\ UNCHANGED <<eidVars, bufVars, packetVars, framingVars, shnVars, part>>
Packet == part = "packet" /\ PacketNext
          /\ UNCHANGED <<eidVars, bufVars, fileVars, iniVars, framingVars, shnVars, part>>
Others == <<eidVars, bufVars, fileVars, iniVars, packetVars, shnVars, part>>
Stream == part = "framing" /\ FramingNext /\ UNCHANGED Others
Table == part = "shn" /\ ShnNext
         /\ UNCHANGED <<eidVars, bufVars, fileVars, iniVars, packetVars, framingVars, part>>

Next == Eids \/ Buffered \/ File \/ Ini \/ Packet \/ Stream \/ Table

\* Whoever listens to a stream reads what arrives on it.
Fairness == WF_vars(part = "framing" /\ Receive /\ UNCHANGED Others)

Spec == Init /\ [][Next]_vars /\ Fairness
-----------------------------------------------------------------------------
\* Each part's variables have their types; a file that is open is there
\* (CTitanFile.hpp:268), and no loop reads past its packet.
TypeOK == EidTypeOK /\ BufTypeOK /\ FileTypeOK /\ FramingTypeOK
          /\ curPos \in Nat /\ isOpen \in BOOLEAN
=============================================================================
