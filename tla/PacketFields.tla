---------------------------- MODULE PacketFields ----------------------------
(***************************************************************************)
(* CTitanPacket (TitanBase/CTitanPacket.hpp): a packet is written field by  *)
(* field behind its header, and read field by field by somebody who knows   *)
(* what to expect; a number that is not all there is read as 0.             *)
(*                                                                         *)
(* Bytes are 0..ByteRadix-1, numbers are little-endian, and strings end   *)
(* with a zero, as all programs here have it.                               *)
(***************************************************************************)
EXTENDS Integers, Sequences, SequencesExt, FiniteSetsExt

CONSTANTS
  ByteRadix,      \* 256
  PacketHeader,   \* PACKET_HEADER_SIZE
  Numbers,        \* that are written
  Texts,          \* strings that are written: bytes other than 0
  MaxFields       \* bound: fields of a packet

ASSUME ByteIs == ByteRadix \in Nat \ {0, 1} /\ PacketHeader \in Nat
ASSUME WrittenIs == Numbers \subseteq Nat /\ Texts \subseteq Seq(1..(ByteRadix - 1))

VARIABLES
  buffer,   \* _Buffer up to _Size
  added,    \* the fields that were written
  curPos,   \* _CurPos
  answers,  \* what was read
  cut       \* the packet ends before its last field

packetVars == <<buffer, added, curPos, answers, cut>>

PacketInit == /\ buffer = [i \in 1..PacketHeader |-> 0]
              /\ added = <<>> /\ curPos = PacketHeader /\ answers = <<>>
              /\ cut = FALSE
-----------------------------------------------------------------------------
(* Writing                                                                  *)

\* The powers of ByteRadix that a number has bytes for.
Power[k \in 0..4] == IF k = 0 THEN 1 ELSE ByteRadix * Power[k - 1]

NumberBytes(n, w) == [i \in 1..w |-> (n \div Power[i - 1]) % ByteRadix]
Value(bytes) == FoldRight(LAMBDA b, n : b + ByteRadix * n, bytes, 0)

\* AddFixLenStr: cut off, or filled up with zeros.
FixLen(text, len) ==
  IF Len(text) > len THEN SubSeq(text, 1, len) ELSE text \o [i \in 1..(len - Len(text)) |-> 0]

\* Add<string>, AddStringNull.
TextBytes(text) == Append(text, 0)

\* A field: its numbers, and its texts.
Field(kind, len, numbers, texts) == [kind |-> kind, len |-> len, numbers |-> numbers, texts |-> texts]
Widths == {1, 2, 4}
NumberFields == {Field("number", w, <<n>>, <<>>) : w \in Widths, n \in Numbers}
TextFields == {Field("text", 0, <<>>, <<t>>) : t \in Texts}
FixedFields == {Field("fixed", 2, <<>>, <<t>>) : t \in Texts}
ServerFields == {Field("server", 0, <<n, n, n>>, <<t, t>>) : n \in Numbers, t \in Texts}
Fields == NumberFields \cup TextFields \cup FixedFields \cup ServerFields

\* Add<byte>, Add<word>, Add<dword> truncate; Add<CServerData*> is a row of
\* fields: type, number, name, address and users stand for them here.
FieldBytes(f) ==
  CASE f.kind = "number" -> NumberBytes(f.numbers[1], f.len)
    [] f.kind = "text" -> TextBytes(f.texts[1])
    [] f.kind = "fixed" -> FixLen(f.texts[1], f.len)
    [] f.kind = "server" -> NumberBytes(f.numbers[1], 1) \o NumberBytes(f.numbers[2], 2)
                              \o TextBytes(f.texts[1]) \o TextBytes(f.texts[2])
                              \o NumberBytes(f.numbers[3], 4)

\* Add, AddBytes and the rest write at _Size, and move it.
Add(f) ==
  /\ Len(added) < MaxFields /\ answers = <<>> /\ curPos = PacketHeader /\ ~cut
  /\ buffer' = buffer \o FieldBytes(f)
  /\ added' = Append(added, f)
  /\ UNCHANGED <<curPos, answers, cut>>

\* A counter is written when the number is known: Set, at a place noted before.
SetNumber(n) ==
  /\ added # <<>> /\ answers = <<>> /\ Head(added).kind = "number"
  /\ added' = [added EXCEPT ![1].numbers = <<n>>]
  /\ LET bytes == NumberBytes(n, Head(added).len) IN
     buffer' = [i \in DOMAIN buffer |->
                  IF i - PacketHeader \in DOMAIN bytes THEN bytes[i - PacketHeader] ELSE buffer[i]]
  /\ ~cut /\ UNCHANGED <<curPos, answers, cut>>

\* The packet that arrives says that it is shorter: Size().
Cut(n) ==
  /\ added # <<>> /\ answers = <<>> /\ ~cut /\ PacketHeader + n < Len(buffer)
  /\ buffer' = SubSeq(buffer, 1, PacketHeader + n)
  /\ cut' = TRUE
  /\ UNCHANGED <<added, curPos, answers>>
-----------------------------------------------------------------------------
(* Reading                                                                  *)

\* Mutant: what is there of a number is taken for all of it.
ReadNumber_Partly(pos, w) ==
  [value |-> Value(SubSeq(buffer, pos + 1, Min({pos + w, Len(buffer)}))), pos |-> pos + w]

\* Read<T>.
ReadNumber(pos, w) ==
  IF pos + w > Len(buffer) THEN [value |-> 0, pos |-> pos]
  ELSE [value |-> Value(SubSeq(buffer, pos + 1, pos + w)), pos |-> pos + w]

\* Read<string>: up to a zero.  Up to the end where there is none, and then nothing
\* ends the string that is returned: Garbage stands for what lies behind it.
Garbage == -1
ReadText(pos) ==
  LET zeros == {i \in (pos + 1)..Len(buffer) : buffer[i] = 0} IN
  IF zeros = {} THEN [value |-> Append(SubSeq(buffer, pos + 1, Len(buffer)), Garbage), pos |-> Len(buffer)]
  ELSE [value |-> SubSeq(buffer, pos + 1, Min(zeros) - 1), pos |-> Min(zeros)]

\* ReadBytes: byte by byte.
ReadBytes(pos, n) ==
  [value |-> [i \in 1..n |-> ReadNumber(Min({pos + i - 1, Len(buffer)}), 1).value],
   pos |-> Min({pos + n, Len(buffer)})]

Answer(numbers, texts, pos) == [numbers |-> numbers, texts |-> texts, pos |-> pos]

\* Read<CServerData*>.
ReadServer(pos) ==
  LET type == ReadNumber(pos, 1)  id == ReadNumber(type.pos, 2)
      name == ReadText(id.pos)  ip == ReadText(name.pos)
      users == ReadNumber(ip.pos, 4) IN
  Answer(<<type.value, id.value, users.value>>, <<name.value, ip.value>>, users.pos)

ReadField(f) ==
  CASE f.kind = "number" -> LET n == ReadNumber(curPos, f.len) IN Answer(<<n.value>>, <<>>, n.pos)
    [] f.kind = "text" -> LET t == ReadText(curPos) IN Answer(<<>>, <<t.value>>, t.pos)
    [] f.kind = "fixed" -> LET t == ReadBytes(curPos, f.len) IN Answer(<<>>, <<t.value>>, t.pos)
    [] f.kind = "server" -> ReadServer(curPos)

ReadNext ==
  /\ Len(answers) < Len(added)
  /\ LET answer == ReadField(added[Len(answers) + 1]) IN
       answers' = Append(answers, answer) /\ curPos' = answer.pos
  /\ UNCHANGED <<buffer, added, cut>>
-----------------------------------------------------------------------------
PacketNext == \/ \E f \in Fields : Add(f)
              \/ \E n \in Numbers : SetNumber(n)
              \/ \E n \in 0..(Len(buffer) - 1) : Cut(n)
              \/ ReadNext

\* A number that was too big has lost its upper bytes, and only those.
AsMeant(answer, f) ==
  /\ answer.numbers = CASE f.kind = "number" -> <<f.numbers[1] % Power[f.len]>>
                       [] f.kind = "server" -> <<f.numbers[1] % Power[1], f.numbers[2] % Power[2],
                                                 f.numbers[3] % Power[4]>>
                       [] OTHER -> <<>>
  /\ answer.texts = IF f.kind = "fixed" THEN <<FixLen(f.texts[1], f.len)>> ELSE f.texts

\* Nobody reads behind the end of a packet, however short it is and whatever was
\* expected: what is whole is read as it was written, and the first number that
\* is not is 0, never a part of it (CTitanPacket.hpp:122).  What is asked for after
\* that may come from the bytes that were left.
FieldEnd(i) == PacketHeader + Len(FlattenSeq([j \in 1..i |-> FieldBytes(added[j])]))
InsideThePacket ==
  /\ curPos <= Len(buffer)
  /\ \A i \in DOMAIN answers :
       /\ FieldEnd(i) <= Len(buffer) => AsMeant(answers[i], added[i])
       /\ (FieldEnd(i - 1) <= Len(buffer) /\ FieldEnd(i) > Len(buffer)
             /\ added[i].kind = "number") => answers[i].numbers = <<0>>
=============================================================================
