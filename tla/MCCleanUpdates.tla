--------------------------- MODULE MCCleanUpdates ---------------------------
(* Instances of CleanUpdates for TLC: a record of each kind.                *)
EXTENDS CleanUpdates

CONSTANTS access, product, oldRule
=============================================================================
