---------------------------- MODULE MCSharepoint ----------------------------
EXTENDS Sharepoint

CONSTANTS p1, p2, c1, g1, m1, f1

\* both pushes are of one file, the others are about it too
MCNameOf == [x \in Push \cup Get \cup Mover |-> f1]

\* one push is sent chunk by chunk, the other in one request
MCSizeOf == [x \in Push \cup {Old} |-> IF x = p1 THEN 3 ELSE 1]
=============================================================================
