----------------------------- MODULE IniReader -----------------------------
(***************************************************************************)
(* CTitanIniReader (TitanBase/CTitanIniReader.hpp): how the servers read    *)
(* their configuration.  ReadINI takes a file line by line and each line    *)
(* apart character by character; the lookups search what it kept.           *)
(*                                                                         *)
(* A file is made of lines that are known here as records, so that what the *)
(* reader finds can be compared with what the file says.                    *)
(***************************************************************************)
EXTENDS TitanFile

CONSTANTS
  Lines,     \* the lines of which files are made
  MaxLines   \* bound: lines of a file

VARIABLES
  written,        \* the lines of the file
  ended,          \* the last of them ends with a newline
  currentSection,
  entries,        \* of section, key and value
  reading         \* ReadINI: "not yet", "yes" or "done"

iniVars == <<written, ended, currentSection, entries, reading>>

Space == 32
Equals == 61
Quote == 34
Hash == 35
Open == 91
Shut == 93
NoSection == <<>>

\* A line: a comment, a section, or a value for a key, with spaces before it,
\* around the sign, and behind the value, which is in quotes or not.
Spaces(n) == [i \in 1..n |-> Space]
Line(kind, lead, name, gap, value, quoted, trail) ==
  [kind |-> kind, lead |-> lead, name |-> name, gap |-> gap, value |-> value,
   quoted |-> quoted, trail |-> trail]

Chars(l) ==
  LET q == IF l.quoted THEN <<Quote>> ELSE <<>> IN
  Spaces(l.lead) \o
  CASE l.kind = "section" -> <<Open>> \o l.name \o <<Shut>>
    [] l.kind = "comment" -> <<Hash>> \o l.name
    [] l.kind = "blank" -> <<>>
    [] l.kind = "entry" -> l.name \o Spaces(l.gap) \o <<Equals>> \o Spaces(l.gap) \o q \o l.value \o q \o Spaces(l.trail)

\* A line can be taken apart in one way only: no sign that ends a part stands in
\* it, and a value that begins with a space, or begins or ends with a quote, is in quotes.
Text == (1..127) \ {LF, CR}
LineIs(l) ==
  /\ l.kind \in {"section", "comment", "blank", "entry"} /\ l.quoted \in BOOLEAN
  /\ {l.lead, l.gap, l.trail} \subseteq Nat /\ l.name \in Seq(Text) /\ l.value \in Seq(Text)
  /\ l.kind = "section" => \A i \in DOMAIN l.name : l.name[i] # Shut
  /\ l.kind = "entry" =>
       /\ l.name # <<>> /\ l.name[1] \notin {Hash, Open}
       /\ \A i \in DOMAIN l.name : l.name[i] \notin {Space, Equals}
       /\ l.quoted \/ l.value = <<>> \/ (l.value[1] \notin {Space, Quote} /\ Last(l.value) # Quote)
  /\ Len(Chars(l)) < MaxLine
ASSUME LinesAre == MaxLines \in Nat /\ \A l \in Lines : LineIs(l)

FileOf(lines, newline) ==
  FlattenSeq([i \in DOMAIN lines |-> Chars(lines[i]) \o
                                     (IF i < Len(lines) \/ newline THEN <<LF>> ELSE <<>>)])

IniFile == CHOOSE n \in Names : TRUE

\* A file is written by hand, and then a server started.
IniInit == /\ written \in UNION {[1..n -> Lines] : n \in 0..MaxLines} /\ ended \in BOOLEAN
           /\ disk = [n \in Names |-> FileOf(written, ended)]
           /\ currentSection = NoSection /\ entries = <<>> /\ reading = "not yet"
-----------------------------------------------------------------------------
(* ReadINI                                                                  *)

\* The first place where a character is, or is not, that one; 0 if there is none.
PlacesOf(chars, Test(_)) == {i \in DOMAIN chars : Test(chars[i])}
FirstOr(places, other) == IF places = {} THEN other ELSE Min(places)
From(chars, i) == SubSeq(chars, i, Len(chars))
Before(chars, i) == SubSeq(chars, 1, i - 1)

Lead(chars) == FirstOr(PlacesOf(chars, LAMBDA c : c # Space), Len(chars) + 1) - 1
Unled(chars) == From(chars, Lead(chars) + 1)

\* i == strlen(buffer) is asked of the line that has lost its leading spaces.
Skipped(chars) == \/ Unled(chars) = <<>> \/ Lead(chars) = Len(Unled(chars))
                  \/ Head(Unled(chars)) = Hash

SectionOf(chars) ==
  Before(Tail(chars), FirstOr(PlacesOf(Tail(chars), LAMBDA c : c = Shut), Len(chars)))

KeyOf(chars) ==
  LET key == Before(chars, FirstOr(PlacesOf(chars, LAMBDA c : c = Equals), Len(chars) + 1)) IN
  Before(key, FirstOr(PlacesOf(key, LAMBDA c : c = Space), Len(key) + 1))

Behind(chars) == From(chars, FirstOr(PlacesOf(chars, LAMBDA c : c = Equals), Len(chars)) + 1)

\* Mutant: the quotes stay.
ValueOf_Quoted(chars) ==
  IF Unled(Behind(chars)) = <<>> THEN Behind(chars) ELSE Unled(Behind(chars))

\* Spaces before the value go, unless there is nothing else; those behind it stay:
\* the loop that should drop them begins at the terminating zero, and ends there.
ValueOf(chars) ==
  LET value == IF Unled(Behind(chars)) = <<>> THEN Behind(chars) ELSE Unled(Behind(chars))
      unquoted == IF value # <<>> /\ Head(value) = Quote THEN Tail(value) ELSE value IN
  IF unquoted # <<>> /\ Last(unquoted) = Quote THEN Front(unquoted) ELSE unquoted

\* ReadINI, of a file that is there; one that is not has no lines.
ReadINI ==
  /\ reading = "not yet" /\ reading' = "yes"
  /\ \E garbage \in BOOLEAN : OpenText(IniFile, {"read"}, garbage)
  /\ currentSection' = NoSection /\ entries' = <<>>
  /\ UNCHANGED <<written, ended, fileCrashed>>

\* The line is freed from where its leading spaces end, not from where it begins.
MayCrash(chars) == IF Lead(chars) > 0 /\ ~Skipped(chars) THEN BOOLEAN ELSE {FALSE}

\* ReadLn, and what the line says.
ReadLine ==
  /\ reading = "yes" /\ ~fileCrashed /\ ~fh.eof /\ ~Dropped
  /\ fh' = AfterLine /\ fileCrashed' \in MayCrash(TheLine)
  /\ LET chars == TheLine IN
     IF Skipped(chars) THEN UNCHANGED <<currentSection, entries>>
     ELSE IF Head(Unled(chars)) = Open THEN
       currentSection' = SectionOf(Unled(chars)) /\ UNCHANGED entries
     ELSE /\ entries' = Append(entries, [section |-> currentSection, key |-> KeyOf(Unled(chars)),
                                         value |-> ValueOf(Unled(chars))])
          /\ UNCHANGED currentSection
  /\ UNCHANGED <<written, ended, reading, disk, fmode, ftype, flasterr, opened>>

\* ReadLn returns NULL; the file is closed.
ReadEnds ==
  /\ reading = "yes" /\ ~fileCrashed /\ (fh.eof \/ Dropped)
  /\ reading' = "done" /\ fh' = Closed /\ flasterr' = "success"
  /\ UNCHANGED <<written, ended, currentSection, entries, disk, fmode, ftype, opened, fileCrashed>>
-----------------------------------------------------------------------------
(* Lookups: the first entry that fits                                       *)

NotFound == <<-1>>
Fitting(section, key) ==
  {i \in DOMAIN entries : entries[i].key = key /\ entries[i].section = section}

GetString(section, key) ==
  LET found == Fitting(section, key) IN
  IF found = {} THEN NotFound ELSE entries[Min(found)].value

\* GetInt and GetHexInt pass over what stands before the first section.
GetInt(section, key) == IF section = NoSection THEN NotFound ELSE GetString(section, key)
-----------------------------------------------------------------------------
IniNext == ReadINI \/ ReadLine \/ ReadEnds

\* What the file says: the lines of a section, up to the next one.
SectionAt(i) ==
  LET before == {j \in 1..i : written[j].kind = "section"} IN
  IF before = {} THEN NoSection ELSE written[Max(before)].name
Said(section, key) ==
  LET at == {i \in DOMAIN written : written[i].kind = "entry" /\ written[i].name = key
                                    /\ SectionAt(i) = section} IN
  IF at = {} THEN NotFound ELSE written[Min(at)].value

\* A value that is read as it was meant, and a line that is not passed over: one
\* with as many spaces in front as it has characters is.
ValuePlain(l) == l.trail = 0 /\ (l.value = <<>> => l.quoted \/ l.gap = 0)
LinePlain(l) == ValuePlain(l) /\ (l.lead = 0 \/ 2 * l.lead # Len(Chars(l)))

\* A file as the servers have them: more than two characters behind the last newline.
WellFormed == /\ written # <<>> /\ ~ended /\ Len(Chars(Last(written))) > 2
              /\ \A i \in DOMAIN written : LinePlain(written[i])

\* Whoever asks gets what the file says, in whichever section and however the
\* value is quoted and spaced (CTitanIniReader.hpp:44).
FindsWhatIsSaid ==
  reading = "done" /\ WellFormed =>
    \A i, j \in DOMAIN written : LET section == SectionAt(j)  key == written[i].name IN
      /\ GetString(section, key) = Said(section, key)
      /\ section # NoSection => GetInt(section, key) = Said(section, key)

=============================================================================
