----------------------------- MODULE Transports -----------------------------
(***************************************************************************)
(* The sources of dumps of restore_dump.py3: which dumps a transport       *)
(* offers, in which order, and the database name a dump is restored under. *)
(*                                                                         *)
(* A database name is a sequence: its stem, then the numeric suffixes that *)
(* restore_dump() appends ("HQ_1" is <<HQ, 1>>).  The three regular        *)
(* expressions that turn a file name into a database name are the function *)
(* NewDbName; it need not be injective ("HQ" and "HQ.dump" give one name). *)
(***************************************************************************)
EXTENDS Integers, Sequences, TLC

CONSTANTS
  Stem,        \* database names without a numeric suffix
  SyncStem,    \* the stems that contain 'SYNC'
  File,        \* dumps a transport can list
  NewDbName,   \* [File -> Name] the name a dump is restored under
  Alpha,       \* [File -> Nat] rank of the dump's path in sorted() order
  LightFile,   \* the daily light sync server dump (ApacheIndexes)
  DefaultServer, \* the stem 'SYNC_SERVER', server_db when nothing is known
  NoDb         \* no database: Python's False

Name == Seq(Stem \cup Nat) \ {<<>>}

ASSUME StemsAssumption ==
  /\ SyncStem \subseteq Stem
  /\ DefaultServer \in SyncStem

ASSUME NamesAssumption ==
  /\ NewDbName \in [File -> Name]
  /\ NoDb \notin Name

ASSUME FilesAssumption ==
  /\ Alpha \in [File -> Nat]
  /\ LightFile \in File
  /\ NewDbName[LightFile][1] \in SyncStem

\* '%s_%s' % (orig_db_name, i)
Suffixed(name, i) == Append(name, i)

\* 'SYNC' in new_db_name
IsServerDb(name) == name[1] \in SyncStem

\* 'SYNC' in the dump's own name: prefixes are added or removed, never SYNC
IsSyncDump(file) == IsServerDb(NewDbName[file])

-----------------------------------------------------------------------------
(* get_dbs() of each transport, from the dumps in the order it lists them. *)

\* mutant of SyncFirst: every dump is appended
SyncFirst_Appended(found) == found

\* Web and RB: dbs.insert(0, db) for a SYNC dump, dbs.append(db) otherwise
SyncFirst(found) ==
  LET NotSync(file) == ~IsSyncDump(file)
      syncs == SelectSeq(found, IsSyncDump)
  IN  [i \in 1..Len(syncs) |-> syncs[Len(syncs) + 1 - i]]
        \o SelectSeq(found, NotSync)

\* Directory: the list built SYNC first is sorted again when it is returned
SortedByPath(found) ==
  SortSeq(found, LAMBDA a, b : Alpha[a] < Alpha[b])

GetDbs(transport, found) ==
  CASE transport = "web"       -> SyncFirst(found)
    [] transport = "rb"        -> SyncFirst(found)
    [] transport = "directory" -> SortedByPath(SyncFirst(found))
    [] transport = "postgres"  -> found
=============================================================================
