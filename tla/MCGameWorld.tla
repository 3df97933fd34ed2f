--------------------------- MODULE MCGameWorld ---------------------------
\* Three players on two maps: two share a worker, the third has its own.
EXTENDS GameWorld

CONSTANTS p1, p2, p3, w1, w2

MCThreadOf == [p \in {p1, p2, p3} |-> IF p = p3 THEN w2 ELSE w1]
=============================================================================
