---------------------------- MODULE BackupFolder ----------------------------
(***************************************************************************)
(* What a folder of backups promises to those who read it, however it is   *)
(* written to: a file there was stored by one writer, holds an unbroken    *)
(* end of what that writer had (nothing at all while it is being sent),    *)
(* and appears, changes or goes away in one step.  It does not promise     *)
(* that a file is whole: a retry of sharepoint.py may store only its end.  *)
(***************************************************************************)
EXTENDS Integers

CONSTANTS File, Writers, SizeOf

VARIABLE folder

Content ==
  UNION {[by : {w}, body : {n..SizeOf[w] : n \in 1..(SizeOf[w] + 1)}] : w \in Writers}

Init == \E there \in SUBSET File, writer \in Writers :
  folder = [f \in there |-> [by |-> writer, body |-> 1..SizeOf[writer]]]

Store(f, content) ==
  folder' = [x \in DOMAIN folder \cup {f} |-> IF x = f THEN content ELSE folder[x]]

Remove(f) ==
  /\ f \in DOMAIN folder
  /\ folder' = [x \in DOMAIN folder \ {f} |-> folder[x]]

Next == \E f \in File : Remove(f) \/ \E content \in Content : Store(f, content)

Spec == Init /\ [][Next]_folder
=============================================================================
