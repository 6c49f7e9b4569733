------------------------------ MODULE MCRunbot ------------------------------
EXTENDS Runbot, TLC

CONSTANTS p1, p2, p3, ra, rk

Call(kind, name, auto, jira, ssl, type) ==
  [kind |-> kind, name |-> name, lower |-> TRUE, auto |-> auto, jira |-> jira, ssl |-> ssl, type |-> type]

MCJob ==
  {[Call("restart", ra, TRUE, "branches", TRUE, "devtests") EXCEPT !.lower = FALSE]} \cup
  {Call("init", ra, TRUE, "field", TRUE, "mkdb"),
   Call("init", ra, FALSE, "no", TRUE, "none"),
   Call("restart", ra, TRUE, "branches", TRUE, "devtests"),
   Call("restart", ra, TRUE, "no", TRUE, "testfield"),
   Call("delete", ra, TRUE, "no", FALSE, "none"),
   Call("restart", rk, TRUE, "no", FALSE, "mkdb")}

MCSymmetry == Permutations(Proc)
=============================================================================
