---------------------------- MODULE LightServer -----------------------------
(***************************************************************************)
(* SyncServerWalDump/Tools/restore_last_sync2.sh, composed with the script *)
(* that starts it in the background: the light sync server is loaded from  *)
(* the files dump_db.bash has copied, then exported, reduced, exported ... *)
(* The four exports are what restore_dump.py3 --sync downloads.            *)
(***************************************************************************)
EXTENDS WalDump

CONSTANTS
  Restorer,   \* bound: the restore_last_sync2.sh processes there may be at a time
  MaxDumps    \* bound: how often dump_server.py is started

ASSUME DumpsAssumption == MaxDumps \in Nat

VARIABLES
  at,       \* where each restorer stands
  kind,     \* the export it is at
  db,       \* the light database
  exports,  \* ~/exports
  server,   \* sync-prod-server
  source,   \* history: the four files a restorer has dropped the database for,
            \* NoFiles when they were not complete or anything has gone wrong
            \* since: a command failed, others worked on the database, a new
            \* file has come
  dumps     \* how often dump_server.py was started

lightVars == <<at, kind, db, exports, server, source>>
allVars == <<vars, lightVars, dumps>>

\* The exports in their order: WITH_MASTER, NO_MASTER, 7DAYS, NO_UPDATE
Kinds == 1..4

\* How far the updates are reduced: not, to 2 months, to 7 days, to the one
\* fake update.
Level(k) == k - 1

Database == [exists : BOOLEAN, part : [Part -> Content], level : 0..3]
NoFiles == [p \in Part |-> Absent]
NoDatabase == [exists |-> FALSE, part |-> NoFiles, level |-> 0]

\* What is offered under a name: nothing, the complete export of a restorer
\* that nothing had disturbed until then, or something else (being written,
\* cut, of two pg_dump at the same time, of a database others worked on).
ExportFile ==
  [is : {"absent", "other", "whole"}, of : Database, from : [Part -> Content]]
NoExport  == [is |-> "absent", of |-> NoDatabase, from |-> NoFiles]
OtherFile == [is |-> "other", of |-> NoDatabase, from |-> NoFiles]

\* the line after one that has failed
After == [create |-> "data", data |-> "schema", schema |-> "message",
          message |-> "update", update |-> "export", exporting |-> "reduce"]

Places == {"idle", "drop", "create", "export", "exporting", "reduce"} \cup Part

LightTypeOK ==
  /\ TypeOK
  /\ at \in [Restorer -> Places]
  /\ kind \in [Restorer -> Kinds]
  /\ db \in Database
  /\ exports \in [Kinds -> ExportFile]
  /\ server \in {"running", "stopped"}
  /\ source \in [Restorer -> [Part -> Content]]
  /\ dumps \in 0..MaxDumps

LightInit ==
  /\ Init
  /\ at = [r \in Restorer |-> "idle"]
  /\ kind = [r \in Restorer |-> 1]
  /\ db = NoDatabase
  /\ exports = [k \in Kinds |-> NoExport]
  /\ server = "running"
  /\ source = [r \in Restorer |-> NoFiles]
  /\ dumps = 0

Quiet == \A r \in Restorer : at[r] = "idle"

Goto(r, place) == at' = [at EXCEPT ![r] = place]

AllWhole(files) == \A p \in Part : files[p].is = "whole"

Undisturbed(r) == AllWhole(source[r])

\* a step of r disturbs all others; something has disturbed everybody
DisturbsOthers(r) ==
  source' = [q \in Restorer |-> IF q = r THEN source[r] ELSE NoFiles]
DisturbsAll == source' = [q \in Restorer |-> NoFiles]

\* r begins anew, while the server does not work on the database
TakesFiles(r) ==
  source' = [q \in Restorer |->
    IF q = r /\ server = "stopped" /\ AllWhole(remote) THEN remote ELSE NoFiles]

-----------------------------------------------------------------------------

\* /etc/init.d/sync-prod-server stop, whose status is not checked
Begin(r) ==
  /\ at[r] = "idle"
  /\ Goto(r, "drop")
  /\ server' = "stopped" \/ (MayFail /\ UNCHANGED server)
  /\ DisturbsAll
  /\ UNCHANGED <<kind, db, exports>>

\* psql_kill_active_connection.sh and dropdb: the pg_dump of another restorer
\* is killed, its script goes on to the line after it
Drop(r) ==
  /\ at[r] = "drop"
  /\ db' = NoDatabase
  /\ at' = [q \in Restorer |-> IF q = r THEN "create"
                               ELSE IF at[q] = "exporting" THEN "reduce" ELSE at[q]]
  /\ TakesFiles(r)
  /\ UNCHANGED <<kind, exports, server>>

\* somebody has connected again in between
DropFails(r) ==
  /\ at[r] = "drop"
  /\ MayFail \/ server = "running" \/ \E q \in Restorer \ {r} : at[q] # "idle"
  /\ Goto(r, "create")
  /\ DisturbsAll
  /\ UNCHANGED <<kind, db, exports, server>>

\* createdb, which fails when the database is still there
Create(r) ==
  /\ at[r] = "create"
  /\ db' = [db EXCEPT !.exists = TRUE]
  /\ Goto(r, "data")
  /\ DisturbsOthers(r)
  /\ UNCHANGED <<kind, exports, server>>

\* sync.data and sync.schema create tables: in a database that has them each
\* statement fails and psql goes on.
LoadTables(r, p, next) ==
  /\ at[r] = p
  /\ db' = IF db.exists /\ db.part[p].is = "absent"
           THEN [db EXCEPT !.part[p] = remote[p]] ELSE db
  /\ Goto(r, next)
  /\ DisturbsOthers(r)
  /\ UNCHANGED <<kind, exports, server>>

\* "TRUNCATE ...; COPY ...": one transaction, that needs the tables
LoadRows(r, p, next) ==
  /\ at[r] = p
  /\ \/ /\ db.exists /\ db.part["schema"].is # "absent"
        /\ db' = [db EXCEPT !.part[p] = remote[p],
                            !.level = IF p = "update" THEN 0 ELSE @]
     \/ /\ ~db.exists \/ db.part["schema"].is # "whole"
        /\ UNCHANGED db
  /\ Goto(r, next)
  /\ DisturbsOthers(r)
  /\ UNCHANGED <<kind, exports, server>>

\* mutant of LoadData: the rows are loaded before sync.schema
LoadData_NoSchema(r) == LoadTables(r, "data", "message")

\* mutant of LoadSchema: the messages are left out
LoadSchema_NoMessage(r) == LoadTables(r, "schema", "update")

LoadData(r)    == LoadTables(r, "data", "schema")
LoadSchema(r)  == LoadTables(r, "schema", "message")
LoadMessage(r) == LoadRows(r, "message", "update")
LoadUpdate(r)  == LoadRows(r, "update", "export")

\* pg_dump -Fc ... > file: the shell empties the file first
ExportBegins(r) ==
  /\ at[r] = "export"
  /\ exports' = [exports EXCEPT ![kind[r]] = OtherFile]
  /\ Goto(r, "exporting")
  /\ DisturbsOthers(r)
  /\ UNCHANGED <<kind, db, server>>

\* pg_dump reads one snapshot, which is still what the database holds when
\* nobody has disturbed r; without a database it writes nothing
ExportEnds(r) ==
  /\ at[r] = "exporting"
  /\ exports' = [exports EXCEPT ![kind[r]] =
       IF Undisturbed(r) /\ db.exists
       THEN [is |-> "whole", of |-> db, from |-> source[r]] ELSE OtherFile]
  /\ Goto(r, "reduce")
  /\ DisturbsOthers(r)
  /\ UNCHANGED <<kind, db, server>>

\* DELETE leaves what an earlier, stricter one has left; TRUNCATE and INSERT
\* leave the fake update
Reduced(k) == IF db.level > Level(k) THEN db.level ELSE Level(k)

Reduce(r) ==
  /\ at[r] = "reduce"
  /\ kind[r] < 4
  /\ kind' = [kind EXCEPT ![r] = @ + 1]
  /\ db' = IF db.exists /\ db.part["update"].is # "absent"
           THEN [db EXCEPT !.level = Reduced(kind[r] + 1)] ELSE db
  /\ Goto(r, "export")
  /\ DisturbsOthers(r)
  /\ UNCHANGED <<exports, server>>

\* createdb, a psql or a pg_dump fails: no status is checked, the next line
\* is executed.
CommandFails(r) ==
  /\ MayFail
  /\ \/ /\ at[r] \in DOMAIN After
        /\ Goto(r, After[at[r]])
        /\ UNCHANGED kind
     \/ /\ at[r] = "reduce" /\ kind[r] < 4
        /\ Goto(r, "export")
        /\ kind' = [kind EXCEPT ![r] = @ + 1]
  /\ DisturbsAll
  /\ UNCHANGED <<db, exports, server>>

\* /etc/init.d/sync-prod-server start, whose status is not checked either
Finish(r) ==
  /\ at[r] = "reduce"
  /\ kind[r] = 4
  /\ kind' = [kind EXCEPT ![r] = 1]
  /\ server' = "running" \/ (MayFail /\ UNCHANGED server)
  /\ Goto(r, "idle")
  /\ DisturbsAll
  /\ UNCHANGED <<db, exports>>

RestoreStep(r) ==
  \/ Drop(r) \/ DropFails(r) \/ Create(r)
  \/ LoadData(r) \/ LoadSchema(r) \/ LoadMessage(r) \/ LoadUpdate(r)
  \/ ExportBegins(r) \/ ExportEnds(r) \/ Reduce(r) \/ CommandFails(r) \/ Finish(r)

-----------------------------------------------------------------------------
(* Both hosts.                                                             *)

StartDump ==
  /\ dumps < MaxDumps
  /\ RsyncStart
  /\ dumps' = dumps + 1
  /\ UNCHANGED lightVars

\* a file that is copied may be one that a restorer is reading
DumpStep ==
  /\ Archive \/ Replay \/ (Script /\ ~Launch)
  /\ source' = IF remote' = remote THEN source ELSE [r \in Restorer |-> NoFiles]
  /\ UNCHANGED <<at, kind, db, exports, server, dumps>>

LaunchRestore ==
  /\ Launch
  /\ \E r \in Restorer : Begin(r)
  /\ UNCHANGED dumps

\* ssh cannot log in
LaunchFails ==
  /\ MayFail
  /\ Launch
  /\ UNCHANGED <<lightVars, dumps>>

Restore == \E r \in Restorer : RestoreStep(r) /\ UNCHANGED <<vars, dumps>>

LightNext == StartDump \/ DumpStep \/ LaunchRestore \/ LaunchFails \/ Restore

LightSpec == LightInit /\ [][LightNext]_allVars

-----------------------------------------------------------------------------
(* Properties.                                                             *)

\* "no_master: only the last 2 months upd/msg, with_master: last 2 months
\* upd/msg + master updates, no_update: empty sync server without any upd/msg":
\* a complete export made by a restorer that nobody disturbed holds what its
\* name says of a completely loaded server, whatever failed restores, others
\* that are still at work or killed, and servers that did not stop have left
\* in the database.
ExportsAsLabelled ==
  \A k \in Kinds :
    exports[k].is = "whole" =>
      exports[k].of.level = Level(k) /\ AllWhole(exports[k].of.part)

\* When no restorer is at work and nothing disturbed the last one to write the
\* last export, the four exports offered together are complete and of one dump:
\* of the four files on the host when it began, however many restorers have
\* overlapped and whatever they have left.
ExportsMatch ==
  Quiet /\ exports[4].is = "whole" =>
    \A k \in Kinds : exports[k].is = "whole" /\ exports[k].of.part = exports[4].from
=============================================================================
