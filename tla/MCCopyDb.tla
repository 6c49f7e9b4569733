------------------------------ MODULE MCCopyDb ------------------------------
(* Instances of CopyDb for TLC: the names and command lines of              *)
(* MCRestoreDump, and one run of copy_db.py.                                *)
EXTENDS CopyDb, MCRestoreDump
=============================================================================
