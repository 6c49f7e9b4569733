--------------------------- MODULE MCLightServer ----------------------------
(* Instances of LightServer for TLC: restorers are interchangeable.         *)
EXTENDS LightServer, TLC

Symmetry == Permutations(Restorer)
=============================================================================
