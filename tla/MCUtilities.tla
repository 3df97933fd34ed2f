---------------------------- MODULE MCUtilities ----------------------------
(* The values of Utilities' constants for model checking.                   *)
EXTENDS Utilities

MCContents == {<<1, 2, 3, 4, 5, 6>>, <<7, 8>>}

\* With a unicode header, of plain lines, of a line that is too long, too short to
\* tell, and not there at all.
MCFirstFiles ==
  {[n \in Names |-> bytes] : bytes \in {<<>>, <<255, 254, 97, 0>>, <<97, 10, 98>>, [i \in 1..9 |-> 97], <<255>>, Absent}}

MCSection(lead, name) == Line("section", lead, name, 0, <<>>, FALSE, 0)
MCEntry(lead, key, gap, value, quoted, trail) == Line("entry", lead, key, gap, value, quoted, trail)
MCLines ==
  LET a == <<97>>  b == <<98>>  k == <<107>>  m == <<109>> IN
  {MCSection(0, a), MCSection(1, b),
   MCEntry(0, k, 0, a, FALSE, 0), MCEntry(0, k, 1, b, TRUE, 0), MCEntry(0, k, 0, <<>>, FALSE, 0),
   MCEntry(0, m, 0, a, FALSE, 1), MCEntry(3, m, 0, a, FALSE, 0),
   Line("comment", 0, k, 0, <<>>, FALSE, 0), Line("blank", 2, <<>>, 0, <<>>, FALSE, 0)}

MCTexts == {<<>>, <<1>>, <<1, 2, 3>>}

MCColumn(type, size) == [type |-> type, size |-> size]
MCColumns == {<<MCColumn(2, 2), MCColumn(9, 2)>>, <<MCColumn(9, 3), MCColumn(3, 4)>>,
              <<MCColumn(1, 1), MCColumn(20, 2), MCColumn(9, 2)>>, <<MCColumn(2, 2), MCColumn(26, 0)>>}
MCIds == {<<1, 0, 0, 0>>, <<1, 0, 1, 0>>, <<2, 1, 0, 0>>}
MCStrings == {<<>>, <<97>>, <<97, 98>>}
=============================================================================
