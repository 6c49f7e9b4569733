------------------------------ MODULE WalDump -------------------------------
(***************************************************************************)
(* SyncServerWalDump/dump_server.py and dump_db.bash: fetch the WAL files  *)
(* of the production sync server, let a standby replay them, export four   *)
(* files from it and copy them to the host of the light databases.         *)
(*                                                                         *)
(* WAL files are numbered from 1; a position is the number of files        *)
(* replayed.  The script is one process, "idle" between its runs.          *)
(***************************************************************************)
EXTENDS Integers, Sequences

CONSTANTS
  MaxWal,      \* bound: number of WAL files production ever archives
  MayFail,     \* may a command of dump_server.py fail?
  CutPart,     \* the exports that may be cut short
  MayLose      \* may a copy fail?

ASSUME WalAssumption ==
  /\ MaxWal \in Nat /\ {MayFail, MayLose} \subseteq BOOLEAN
  /\ CutPart \subseteq {"data", "schema", "message", "update"}

VARIABLES
  produced,  \* WAL files archived by production
  moved,     \* ... and brought over by rsync --remove-source-files
  listed,    \* ... and in the file list of the running rsync
  standby,   \* the standby server: "stopped" or "running"
  replayed,  \* the position of the standby
  previous,  \* previous_wall: position read by the last poll, NoPosition
  stage,     \* where the script stands
  part,      \* index of the export or copy in progress
  dump,      \* /opt/SYNC/DUMP
  remote     \* /home/sync-prod/DUMP on the other host

walVars == <<produced, moved, listed, standby, replayed>>
scriptVars == <<previous, stage, part>>
vars == <<walVars, scriptVars, dump, remote>>

\* sync.data, sync.schema, sync_server_message, sync_server_update: the order
\* of dump_db.bash, and of *lzma
Parts == <<"data", "schema", "message", "update">>
Part == {"data", "schema", "message", "update"}

\* A file: nothing, cut short, or the whole export of the database at lsn.
Content == [is : {"absent", "part", "whole"}, lsn : 0..MaxWal]
Absent == [is |-> "absent", lsn |-> 0]
CutShort == [is |-> "part", lsn |-> 0]
Whole(lsn) == [is |-> "whole", lsn |-> lsn]

NoPosition == -1

Stage == {"idle", "rsync", "start", "poll", "delete", "export",
          "copy", "copying", "launch", "stop"}

TypeOK ==
  /\ {produced, moved, listed, replayed} \subseteq 0..MaxWal
  /\ replayed <= moved /\ moved <= produced /\ listed <= produced
  /\ standby \in {"stopped", "running"}
  /\ previous \in {NoPosition} \cup 0..MaxWal
  /\ stage \in Stage
  /\ part \in 1..4
  /\ dump \in [Part -> Content]
  /\ remote \in [Part -> Content]

Init ==
  /\ produced = 0 /\ moved = 0 /\ listed = 0 /\ replayed = 0
  /\ standby = "stopped"
  /\ previous = NoPosition /\ stage = "idle" /\ part = 1
  /\ dump = [p \in Part |-> Absent]
  /\ remote = [p \in Part |-> Absent]

-----------------------------------------------------------------------------
(* The two servers.                                                        *)

Archive ==
  /\ produced < MaxWal
  /\ produced' = produced + 1
  /\ UNCHANGED <<moved, listed, standby, replayed, scriptVars, dump, remote>>

\* restore_command = 'cp /opt/WAL/%f %p'
Replay ==
  /\ standby = "running"
  /\ replayed < moved
  /\ replayed' = replayed + 1
  /\ UNCHANGED <<produced, moved, listed, standby, scriptVars, dump, remote>>

-----------------------------------------------------------------------------
(* dump_server.py.                                                         *)

RsyncStart ==
  /\ stage = "idle"
  /\ stage' = "rsync"
  /\ listed' = produced
  /\ UNCHANGED <<produced, moved, standby, replayed, previous, part, dump, remote>>

\* a file is transferred, then removed from production's /opt/WAL
RsyncMoves ==
  /\ stage = "rsync"
  /\ moved < listed
  /\ moved' = moved + 1
  /\ UNCHANGED <<produced, listed, standby, replayed, scriptVars, dump, remote>>

RsyncDone ==
  /\ stage = "rsync"
  /\ moved = listed
  /\ stage' = "start"
  /\ UNCHANGED <<walVars, previous, part, dump, remote>>

\* check_output raises before the try: the script ends there
RsyncFails ==
  /\ stage = "rsync"
  /\ MayFail
  /\ stage' = "idle"
  /\ UNCHANGED <<walVars, previous, part, dump, remote>>

StandbyStarts ==
  /\ stage = "start"
  /\ standby = "stopped"
  /\ standby' = "running"
  /\ previous' = NoPosition
  /\ stage' = "poll"
  /\ UNCHANGED <<produced, moved, listed, replayed, part, dump, remote>>

\* mutant of StartFails: pg_ctl start is outside the try
StartFails_OutsideTry ==
  /\ stage = "start"
  /\ MayFail \/ standby = "running"
  /\ standby' \in {standby, "running"}
  /\ stage' = "idle"
  /\ UNCHANGED <<produced, moved, listed, replayed, previous, part, dump, remote>>

\* pg_ctl start exits with an error: already running, failing, or too slow
\* (-t 1200), in which case the server comes up all the same
StartFails ==
  /\ stage = "start"
  /\ MayFail \/ standby = "running"
  /\ standby' \in {standby, "running"}
  /\ stage' = "stop"
  /\ UNCHANGED <<produced, moved, listed, replayed, previous, part, dump, remote>>

PollAgain ==
  /\ stage = "poll"
  /\ replayed # previous
  /\ previous' = replayed
  /\ UNCHANGED <<walVars, stage, part, dump, remote>>

\* "WAL Replayed": the same position twice, because there is nothing left to
\* replay or because the replay made no progress for six seconds
PollEnds ==
  /\ stage = "poll"
  /\ replayed = previous
  /\ stage' = "delete"
  /\ UNCHANGED <<walVars, previous, part, dump, remote>>

\* sync_server_update.lzma is not in the list of files removed
DeleteOld ==
  /\ stage = "delete"
  /\ dump' = [p \in Part |-> IF p = "update" THEN dump[p] ELSE Absent]
  /\ part' = 1
  /\ stage' = "export"
  /\ UNCHANGED <<walVars, previous, remote>>

\* connect, execute or remove raises, dump_db.bash cannot be run
Raises ==
  /\ stage \in {"poll", "delete"}
  /\ MayFail
  /\ stage' = "stop"
  /\ UNCHANGED <<walVars, previous, part, dump, remote>>

\* finally
StandbyStops ==
  /\ stage = "stop"
  /\ standby' = "stopped"
  /\ stage' = "idle"
  /\ UNCHANGED <<produced, moved, listed, replayed, previous, part, dump, remote>>

\* ... the status of pg_ctl stop is not checked
StopFails ==
  /\ stage = "stop"
  /\ MayFail
  /\ stage' = "idle"
  /\ UNCHANGED <<walVars, previous, part, dump, remote>>

-----------------------------------------------------------------------------
(* dump_db.bash: no status is checked, each line follows the other.        *)

\* after the last part the next stage starts again with the first
NextPart(again, after) ==
  IF part < 4 THEN part' = part + 1 /\ stage' = again
              ELSE part' = 1 /\ stage' = after

\* mutant of Export: a file is only replaced by a complete export
Export_KeepsOld ==
  /\ stage = "export"
  /\ \/ dump' = [dump EXCEPT ![Parts[part]] = Whole(replayed)]
     \/ Parts[part] \in CutPart /\ UNCHANGED dump
  /\ NextPart("export", "copy")
  /\ UNCHANGED <<walVars, previous, remote>>

\* pg_dump or COPY of what the standby shows, piped to lzma
Export ==
  /\ stage = "export"
  /\ \E file \in {Whole(replayed), CutShort} :
       /\ file = CutShort => Parts[part] \in CutPart
       /\ dump' = [dump EXCEPT ![Parts[part]] = file]
  /\ NextPart("export", "copy")
  /\ UNCHANGED <<walVars, previous, remote>>

\* scp truncates the remote file, then fills it
CopyBegins ==
  /\ stage = "copy"
  /\ remote' = [remote EXCEPT ![Parts[part]] = CutShort]
  /\ stage' = "copying"
  /\ UNCHANGED <<walVars, previous, part, dump>>

CopyEnds ==
  /\ stage = "copying"
  /\ remote' = [remote EXCEPT ![Parts[part]] = dump[Parts[part]]]
  /\ NextPart("copy", "launch")
  /\ UNCHANGED <<walVars, previous, dump>>

\* a file that cannot be written is skipped, a lost connection ends scp:
\* either way the ssh of the next line is executed
CopyFails ==
  /\ stage \in {"copy", "copying"}
  /\ MayLose
  /\ \/ NextPart("copy", "launch")
     \/ part' = 1 /\ stage' = "launch"
  /\ UNCHANGED <<walVars, previous, dump, remote>>

\* ssh ... "nohup restore_last_sync2.sh &": started, or not
Launch ==
  /\ stage = "launch"
  /\ stage' = "stop"
  /\ UNCHANGED <<walVars, previous, part, dump, remote>>

-----------------------------------------------------------------------------

Script ==
  \/ RsyncMoves \/ RsyncDone \/ RsyncFails
  \/ StandbyStarts \/ StartFails \/ PollAgain \/ PollEnds \/ DeleteOld \/ Raises
  \/ Export \/ CopyBegins \/ CopyEnds \/ CopyFails \/ Launch
  \/ StandbyStops \/ StopFails

Next == Archive \/ Replay \/ RsyncStart \/ Script

Spec == Init /\ [][Next]_vars

\* The script and the standby are scheduled; when a run starts is up to cron.
FairSpec == Spec /\ WF_vars(Script) /\ WF_vars(Replay)

\* cron starts a run again and again, and nothing fails for ever.
CronSpec ==
  /\ FairSpec
  /\ WF_vars(RsyncStart) /\ SF_vars(Replay)
  /\ SF_vars(RsyncMoves) /\ SF_vars(RsyncDone)
  /\ SF_vars(StandbyStarts) /\ SF_vars(StandbyStops)
  /\ SF_vars(PollAgain) /\ SF_vars(PollEnds) /\ SF_vars(DeleteOld)

-----------------------------------------------------------------------------
(* Properties.                                                             *)

\* "WAL Replayed" (dump_server.py:44): from then until the standby is stopped,
\* it shows every WAL file the run brought over.
WalReplayed ==
  stage \in {"delete", "export", "copy", "copying", "launch"} => replayed = moved

\* The exports are four statements in four transactions, of a standby that may
\* go on replaying, and the directory holds what earlier runs have left.  What
\* is copied was exported by this run all the same, at or after the position
\* it printed last, each part no older than the one before: the four are of
\* one state unless the standby has gone past that position meanwhile.
ExportsInOrder ==
  stage \in {"copy", "copying", "launch"} =>
    \A i, j \in 1..4 :
      i <= j /\ dump[Parts[i]].is = "whole" /\ dump[Parts[j]].is = "whole" =>
        /\ previous <= dump[Parts[i]].lsn
        /\ dump[Parts[i]].lsn <= dump[Parts[j]].lsn
        /\ dump[Parts[j]].lsn <= replayed

\* Whatever a run leaves behind when it fails (a standby still running, half
\* of the WAL files, cut exports), later runs get to a new dump.
DumpsKeepComing == []<>(stage = "launch")
=============================================================================
