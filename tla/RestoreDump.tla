---------------------------- MODULE RestoreDump -----------------------------
(***************************************************************************)
(* restore_dump.py3: each run fetches dumps, restores them one after the   *)
(* other on a shared cluster, prepares the restored databases and connects *)
(* the instances to the synchronisation server.                            *)
(*                                                                         *)
(* The functions restore_dump(), do_upgrade(), connect_and_sync() and the  *)
(* main program are one control flow per run; pc says where it stands.     *)
(* A run that dies of an uncaught exception is "aborted".                  *)
(***************************************************************************)
EXTENDS Cluster

CONSTANTS
  Job,            \* the command lines and sources a run may be started with
  MaxWait,        \* number of 10 second sleeps in do_upgrade's hour
  MaxInterrupts   \* bound: how often somebody presses Ctrl-C

ASSUME JobAssumption ==
  \A j \in Job :
    /\ {j.drop, j.sql, j.upgrade, j.light, j.syncOnly, j.port, j.syncRun,
        j.outDir} \subseteq BOOLEAN
    /\ j.syncDb \in Name \cup {NoDb}
    /\ j.transport \in {"web", "rb", "directory", "postgres"}
    /\ j.found \in Seq(File)

\* get_dbs() reorders the dumps found: it neither invents nor loses one
ASSUME OrderAssumption ==
  \A j \in Job :
    /\ GetDbs(j.transport, j.found) \in Seq(File)
    /\ Len(GetDbs(j.transport, j.found)) = Len(j.found)

ASSUME BoundsAssumption ==
  MaxWait \in Nat /\ MaxInterrupts \in Nat

VARIABLES
  job,        \* o: the parsed command line and the dumps the source lists
  pc,         \* where the run stands
  k,          \* index of the for loop the run is in
  cand,       \* new_db_name
  suffix,     \* i
  cantDrop,   \* cant_drop
  serverDb,   \* sql_data['server_db']
  syncDb,     \* sync_db
  restored,   \* names of the databases restored by this restore_dump() call
  files,      \* dump files on disk: <<position, "empty" | "part" | "full">>
  reported,   \* databases createdb, pg_restore or a query printed an error for
  waits,      \* sleeps so far in do_upgrade
  interrupts  \* Ctrl-C so far

loopVars == <<cand, suffix, cantDrop>>
sqlVars  == <<serverDb, syncDb>>
doneVars == <<restored, files, reported>>
vars == <<clusterVars, job, pc, k, loopVars, sqlVars, doneVars, waits, interrupts>>

-----------------------------------------------------------------------------

HasLight(r) == job[r].light \/ job[r].syncOnly

\* The light sync server is restored first, by a restore_dump() of its own.
Queue(r) ==
  (IF HasLight(r) THEN <<LightFile>> ELSE <<>>)
    \o (IF job[r].syncOnly THEN <<>> ELSE GetDbs(job[r].transport, job[r].found))

\* orig_db_name of the dump being restored
Target(r) == NewDbName[Queue(r)[k[r]]]

InLight(r) == HasLight(r) /\ k[r] = 1

\* mutant of HasQueries: the sql is executed for an upgrade only
HasQueries_UpgradeOnly(r) == job[r].sql /\ job[r].upgrade

\* --upgrade brings queries of its own, also when --sql is emptied
HasQueries(r) == job[r].sql \/ job[r].upgrade

Ended(r) == pc[r] \in {"refused", "aborted", "done"}

PcType == {"start", "fetch", "probe", "taken", "dropdb", "createdb",
           "pg_restore", "open", "queries", "sequences", "upgrade", "close",
           "light_done", "sync", "refused", "aborted", "done"}

RunTypeOK ==
  /\ job \in [Run -> Job]
  /\ pc \in [Run -> PcType]
  /\ k \in [Run -> Nat \ {0}]
  /\ cand \in [Run -> Name]
  /\ suffix \in [Run -> Nat \ {0}]
  /\ cantDrop \in [Run -> BOOLEAN]
  /\ serverDb \in [Run -> Name]
  /\ syncDb \in [Run -> Name \cup {NoDb}]
  /\ restored \in [Run -> Seq(Name)]
  /\ files \in [Run -> SUBSET (Nat \X {"empty", "part", "full"})]
  /\ reported \in [Run -> SUBSET Name]
  /\ waits \in [Run -> 0..MaxWait]
  /\ interrupts \in 0..MaxInterrupts

TypeOK == ClusterTypeOK /\ RunTypeOK

Init ==
  /\ ClusterInit
  /\ job \in [Run -> Job]
  /\ pc = [r \in Run |-> "start"]
  /\ k = [r \in Run |-> 1]
  /\ cand = [r \in Run |-> <<DefaultServer>>]
  /\ suffix = [r \in Run |-> 1]
  /\ cantDrop = [r \in Run |-> FALSE]
  /\ serverDb = [r \in Run |-> <<DefaultServer>>]
  /\ syncDb = [r \in Run |-> NoDb]
  /\ restored = [r \in Run |-> <<>>]
  /\ files = [r \in Run |-> {}]
  /\ reported = [r \in Run |-> {}]
  /\ waits = [r \in Run |-> 0]
  /\ interrupts = 0

Goto(r, label) == pc' = [pc EXCEPT ![r] = label]

\* the process ends and the server closes its connections
EndSessions(r) == sessions' = sessions \ SessionsOf(r)

-----------------------------------------------------------------------------
(* The main program, up to the first restore_dump().                       *)

NoDumpFound(r) == ~job[r].syncOnly /\ job[r].found = <<>>

NoServerToSync(r) ==
  /\ job[r].syncRun
  /\ \/ ~job[r].port
     \/ /\ job[r].syncDb = NoDb
        /\ \A n \in 1..Len(Queue(r)) : ~IsSyncDump(Queue(r)[n])

\* "Dump not found", "Unable to start a sync ...", or n at the confirmation
Decline(r) ==
  /\ pc[r] = "start"
  /\ Goto(r, "refused")
  /\ UNCHANGED <<clusterVars, job, k, loopVars, sqlVars, doneVars, waits, interrupts>>

\* The light server's restore_dump() is called without sync_db.
Start(r) ==
  LET server == IF HasLight(r) THEN NoDb ELSE job[r].syncDb
  IN  /\ pc[r] = "start"
      /\ ~NoDumpFound(r) /\ ~NoServerToSync(r)
      /\ Goto(r, "fetch")
      /\ syncDb' = [syncDb EXCEPT ![r] = server]
      /\ serverDb' = [serverDb EXCEPT ![r] =
                        IF server = NoDb THEN <<DefaultServer>> ELSE server]
      /\ UNCHANGED <<clusterVars, job, k, loopVars, doneVars, waits, interrupts>>

-----------------------------------------------------------------------------
(* restore_dump(): one iteration per dump.                                 *)

\* What follows the iteration for dump k[r]: the next dump, or the code
\* after the loop.  connect_and_sync is called only with a --sync-port.
NextDump(r) ==
  IF InLight(r)
  THEN Goto(r, "light_done") /\ UNCHANGED k
  ELSE IF k[r] < Len(Queue(r))
  THEN Goto(r, "fetch") /\ k' = [k EXCEPT ![r] = @ + 1]
  ELSE Goto(r, IF job[r].port THEN "sync" ELSE "done") /\ k' = [k EXCEPT ![r] = 1]

\* write_dump() returns a non-empty file; orig_db_name is computed
FetchDump(r) ==
  /\ pc[r] = "fetch"
  /\ Goto(r, "probe")
  /\ files' = [files EXCEPT ![r] = @ \cup {<<k[r], "full">>}]
  /\ cand' = [cand EXCEPT ![r] = Target(r)]
  /\ suffix' = [suffix EXCEPT ![r] = 1]
  /\ cantDrop' = [cantDrop EXCEPT ![r] = FALSE]
  /\ UNCHANGED <<clusterVars, job, k, sqlVars, restored, reported, waits, interrupts>>

\* "dump is empty": the dump is skipped, its file stays
FetchEmpty(r) ==
  /\ pc[r] = "fetch"
  /\ NextDump(r)
  /\ files' = [files EXCEPT ![r] = @ \cup {<<k[r], "empty">>}]
  /\ UNCHANGED <<clusterVars, job, loopVars, sqlVars, restored, reported, waits, interrupts>>

\* write_dump() raises: nothing catches it
FetchRaises(r) ==
  /\ pc[r] = "fetch"
  /\ Goto(r, "aborted")
  /\ files' = [files EXCEPT ![r] = @ \cup {<<k[r], "part">>}]
  /\ UNCHANGED <<clusterVars, job, k, loopVars, sqlVars, restored, reported, waits, interrupts>>

\* while not ok: psycopg2.connect(new_db_name) succeeds
ProbeConnects(r) ==
  /\ pc[r] = "probe"
  /\ Connectable(r, cand[r])
  /\ Goto(r, "taken")
  /\ sessions' = sessions \cup {<<r, cand[r]>>}
  /\ UNCHANGED <<cluster, refused, job, k, loopVars, sqlVars, doneVars, waits, interrupts>>

\* ... or raises, whatever the reason: ok = True
ProbeFails(r) ==
  /\ pc[r] = "probe"
  /\ ~Connectable(r, cand[r])
  /\ Goto(r, "createdb")
  /\ UNCHANGED <<clusterVars, job, k, loopVars, sqlVars, doneVars, waits, interrupts>>

\* The bare except also catches the KeyboardInterrupt of a Ctrl-C.
Interrupted(r) ==
  /\ pc[r] \in {"probe", "taken", "dropdb"}
  /\ interrupts < MaxInterrupts
  /\ interrupts' = interrupts + 1
  /\ Goto(r, "createdb")
  /\ UNCHANGED <<clusterVars, job, k, loopVars, sqlVars, doneVars, waits>>

\* the name is in use and --drop asks for the existing database to go
CloseForDrop(r) ==
  /\ pc[r] = "taken"
  /\ job[r].drop /\ ~cantDrop[r]
  /\ Goto(r, "dropdb")
  /\ EndSessions(r)
  /\ UNCHANGED <<cluster, refused, job, k, loopVars, sqlVars, doneVars, waits, interrupts>>

DropSucceeds(r) ==
  /\ pc[r] = "dropdb"
  /\ DropDb(cand[r])
  /\ Goto(r, "createdb")
  /\ UNCHANGED <<sessions, job, k, loopVars, sqlVars, doneVars, waits, interrupts>>

\* mutants of NextName: the new name is not probed; i stays where it is
NextName_NotProbed(r) ==
  /\ cand' = [cand EXCEPT ![r] = Suffixed(Target(r), suffix[r])]
  /\ suffix' = [suffix EXCEPT ![r] = @ + 1]
  /\ Goto(r, "createdb")

NextName_SameSuffix(r) ==
  /\ cand' = [cand EXCEPT ![r] = Suffixed(Target(r), suffix[r])]
  /\ UNCHANGED suffix
  /\ Goto(r, "probe")

NextName(r) ==
  /\ cand' = [cand EXCEPT ![r] = Suffixed(Target(r), suffix[r])]
  /\ suffix' = [suffix EXCEPT ![r] = @ + 1]
  /\ Goto(r, "probe")

\* mutants of DropFails: dropdb is tried again on the next name; its exit
\* status is ignored
DropFails_TriedAgain(r) ==
  /\ pc[r] = "dropdb"
  /\ NextName(r)
  /\ UNCHANGED <<clusterVars, cantDrop, job, k, sqlVars, doneVars, waits, interrupts>>

DropFails_Ignored(r) ==
  /\ pc[r] = "dropdb"
  /\ Goto(r, "createdb")
  /\ UNCHANGED <<clusterVars, job, k, loopVars, sqlVars, doneVars, waits, interrupts>>

\* dropdb exits with an error: in use, not the owner, no longer there
DropFails(r) ==
  /\ pc[r] = "dropdb"
  /\ cantDrop' = [cantDrop EXCEPT ![r] = TRUE]
  /\ NextName(r)
  /\ UNCHANGED <<clusterVars, job, k, sqlVars, doneVars, waits, interrupts>>

KeepExisting(r) ==
  /\ pc[r] = "taken"
  /\ ~job[r].drop \/ cantDrop[r]
  /\ NextName(r)
  /\ EndSessions(r)
  /\ UNCHANGED <<cluster, refused, cantDrop, job, k, sqlVars, doneVars, waits, interrupts>>

\* an error about the database is printed, and nothing else is done about it
Reports(r) == reported' = [reported EXCEPT ![r] = @ \cup {cand[r]}]

\* call(['createdb', ...]): its exit status is ignored
Create(r) ==
  /\ pc[r] = "createdb"
  /\ \/ CreateDb(r, cand[r]) /\ UNCHANGED reported
     \/ UNCHANGED cluster /\ Reports(r)
  /\ Goto(r, "pg_restore")
  /\ UNCHANGED <<sessions, refused, job, k, loopVars, sqlVars, restored, files, waits, interrupts>>

\* What pg_restore leaves in a database: a connection row that was there stays.
Loaded(db, r, row, extent) ==
  [db EXCEPT !.loads = @ \cup {<<r, k[r]>>}, !.extent = extent,
             !.server = IF @ = NoDb THEN row ELSE @]

\* the connection row of the dump: an instance's leads to production
DumpedRow(r) == IF IsServerDb(cand[r]) THEN NoDb ELSE Production

\* The dump is loaded into an empty database without an error, or pg_restore
\* stops or skips statements anywhere: it has then loaded a part, in which
\* the connection row may be missing, or nothing.
Load(r) ==
  LET db == cluster[cand[r]]
  IN  \/ /\ Connectable(r, cand[r]) /\ ~HasTables(db)
         /\ cluster' = [cluster EXCEPT ![cand[r]] = Loaded(db, r, DumpedRow(r), "whole")]
         /\ UNCHANGED reported
      \/ /\ Connectable(r, cand[r])
         /\ \E row \in {NoDb, DumpedRow(r)} :
              cluster' = [cluster EXCEPT ![cand[r]] = Loaded(db, r, row, "part")]
         /\ Reports(r)
      \/ UNCHANGED cluster /\ Reports(r)

\* call(['pg_restore', ...]), exit status ignored too, then restored.append
\* and, without --directory, the removal of the temporary file
PgRestore(r) ==
  /\ pc[r] = "pg_restore"
  /\ Load(r)
  /\ restored' = [restored EXCEPT ![r] = Append(@, cand[r])]
  /\ files' = [files EXCEPT ![r] =
                 IF job[r].outDir THEN @ ELSE @ \ {<<k[r], "full">>}]
  /\ Goto(r, "open")
  /\ UNCHANGED <<sessions, refused, job, k, loopVars, sqlVars, waits, interrupts>>

\* db_conn = psycopg2.connect(new_db_name), outside any try
Open(r) ==
  /\ pc[r] = "open"
  /\ Connectable(r, cand[r])
  /\ sessions' = sessions \cup {<<r, cand[r]>>}
  /\ Goto(r, IF HasQueries(r) THEN "queries" ELSE "close")
  /\ UNCHANGED <<cluster, refused, job, k, loopVars, sqlVars, doneVars, waits, interrupts>>

Connected(r) == <<r, cand[r]>> \in sessions

\* mutant of SetsConnection: the INSTANCE section is run on sync servers
SetsConnection_OnServers(r) ==
  job[r].sql /\ IsServerDb(cand[r])

\* The UPDATE of sync_client_sync_server_connection, in the INSTANCE section
SetsConnection(r) ==
  job[r].sql /\ ~IsServerDb(cand[r])

\* The sql queries.  A query that fails with a ProgrammingError is printed and
\* rolled back, and the next one is run: the UPDATE of the connection row may
\* be the one.
RunQueries(r) ==
  LET server == IF IsServerDb(cand[r]) /\ syncDb[r] = NoDb
                THEN cand[r] ELSE serverDb[r]
  IN  /\ pc[r] = "queries"
      /\ Connected(r)
      /\ serverDb' = [serverDb EXCEPT ![r] = server]
      /\ \/ /\ SetsConnection(r) /\ HasTables(cluster[cand[r]])
            /\ cluster' = [cluster EXCEPT ![cand[r]] = Redirected(@, server)]
            /\ UNCHANGED reported
         \/ /\ ~SetsConnection(r)
            /\ UNCHANGED <<cluster, reported>>
         \/ UNCHANGED cluster /\ Reports(r)
      /\ Goto(r, "sequences")
      /\ UNCHANGED <<sessions, refused, job, k, loopVars, syncDb, restored, files, waits, interrupts>>

\* Sequences and ir_sequence are moved on.  In a database pg_restore left
\* empty there is no ir_sequence: that error is not caught (see Abort).
MoveSequences(r) ==
  /\ pc[r] = "sequences"
  /\ Connected(r)
  /\ HasTables(cluster[cand[r]])
  /\ cluster' = [cluster EXCEPT ![cand[r]].bumped = TRUE]
  /\ Goto(r, IF job[r].upgrade THEN "upgrade" ELSE "close")
  /\ UNCHANGED <<sessions, refused, job, k, loopVars, sqlVars, doneVars, waits, interrupts>>

\* do_upgrade(): the server answers ServerUpdate, the hour is not over
UpgradeWaits(r) ==
  /\ pc[r] = "upgrade"
  /\ waits[r] < MaxWait
  /\ waits' = [waits EXCEPT ![r] = @ + 1]
  /\ UNCHANGED <<clusterVars, job, pc, k, loopVars, sqlVars, doneVars, interrupts>>

\* login succeeds, fails otherwise, or the hour is over: True in every case
UpgradeReturns(r) ==
  /\ pc[r] = "upgrade"
  /\ Goto(r, "close")
  /\ waits' = [waits EXCEPT ![r] = 0]
  /\ UNCHANGED <<clusterVars, job, k, loopVars, sqlVars, doneVars, interrupts>>

\* ANALYZE, db_conn.close(), and on to the next dump
Close(r) ==
  /\ pc[r] = "close"
  /\ Connected(r)
  /\ EndSessions(r)
  /\ NextDump(r)
  /\ UNCHANGED <<cluster, refused, job, loopVars, sqlVars, doneVars, waits, interrupts>>

\* An exception nothing catches: the connection after pg_restore is refused,
\* the server ended the session, a statement fails otherwise than with a
\* ProgrammingError, no server listens on the port of do_upgrade, Ctrl-C.
Abort(r) ==
  /\ pc[r] \in {"open", "queries", "sequences", "upgrade", "close"}
  /\ Goto(r, "aborted")
  /\ EndSessions(r)
  /\ UNCHANGED <<cluster, refused, job, k, loopVars, sqlVars, doneVars, waits, interrupts>>

\* Ctrl-C during createdb or pg_restore ends the run, its dump file stays
Killed(r) ==
  /\ pc[r] \in {"createdb", "pg_restore"}
  /\ interrupts < MaxInterrupts
  /\ interrupts' = interrupts + 1
  /\ Goto(r, "aborted")
  /\ EndSessions(r)
  /\ UNCHANGED <<cluster, refused, job, k, loopVars, sqlVars, doneVars, waits>>

-----------------------------------------------------------------------------
(* The main program, after the light server and after the last dump.       *)

\* sync_db = sync_db[0]
LightDone(r) ==
  /\ pc[r] = "light_done"
  /\ restored[r] # <<>>
  /\ syncDb' = [syncDb EXCEPT ![r] = restored[r][1]]
  /\ IF job[r].syncOnly
     THEN Goto(r, "done") /\ UNCHANGED <<k, serverDb, restored>>
     ELSE /\ Goto(r, "fetch")
          /\ k' = [k EXCEPT ![r] = 2]
          /\ serverDb' = [serverDb EXCEPT ![r] = restored[r][1]]
          /\ restored' = [restored EXCEPT ![r] = <<>>]
  /\ UNCHANGED <<clusterVars, job, loopVars, files, reported, waits, interrupts>>

\* ... which raises IndexError when the light dump was empty
LightMissing(r) ==
  /\ pc[r] = "light_done"
  /\ restored[r] = <<>>
  /\ Goto(r, "aborted")
  /\ UNCHANGED <<clusterVars, job, k, loopVars, sqlVars, doneVars, waits, interrupts>>

\* connect_and_sync(): for db in dbs_name
NextInstance(r) ==
  IF k[r] < Len(restored[r])
  THEN k' = [k EXCEPT ![r] = @ + 1] /\ UNCHANGED pc
  ELSE Goto(r, "done") /\ UNCHANGED k

\* a SYNC database: remembered if none is known; any database while none is
SyncSkips(r) ==
  /\ pc[r] = "sync"
  /\ IF restored[r] = <<>>
     THEN UNCHANGED syncDb
     ELSE LET db == restored[r][k[r]]
          IN  /\ IsServerDb(db) \/ syncDb[r] = NoDb
              /\ syncDb' = [syncDb EXCEPT ![r] =
                              IF IsServerDb(db) /\ @ = NoDb THEN db ELSE @]
  /\ NextInstance(r)
  /\ UNCHANGED <<clusterVars, job, loopVars, serverDb, doneVars, waits, interrupts>>

\* an instance: login, set the password, connect, start a sync; an exception
\* anywhere leaves it unconnected and goes on with the next one
SyncInstance(r) ==
  LET db == restored[r][k[r]]
  IN  /\ pc[r] = "sync"
      /\ restored[r] # <<>>
      /\ ~IsServerDb(db) /\ syncDb[r] # NoDb
      /\ \/ /\ Exists(db)
            /\ cluster' = [cluster EXCEPT ![db].linked = TRUE]
         \/ UNCHANGED cluster
      /\ NextInstance(r)
      /\ UNCHANGED <<sessions, refused, job, loopVars, sqlVars, doneVars, waits, interrupts>>

-----------------------------------------------------------------------------

RunStep(r) ==
  \/ Decline(r) \/ Start(r)
  \/ FetchDump(r) \/ FetchEmpty(r) \/ FetchRaises(r)
  \/ ProbeConnects(r) \/ ProbeFails(r) \/ Interrupted(r)
  \/ CloseForDrop(r) \/ DropSucceeds(r) \/ DropFails(r) \/ KeepExisting(r)
  \/ Create(r) \/ PgRestore(r) \/ Open(r) \/ RunQueries(r) \/ MoveSequences(r)
  \/ UpgradeWaits(r) \/ UpgradeReturns(r) \/ Close(r)
  \/ Abort(r) \/ Killed(r)
  \/ LightDone(r) \/ LightMissing(r)
  \/ SyncSkips(r) \/ SyncInstance(r)

Environment ==
  /\ \/ CopierClose
     \/ \E name \in DOMAIN cluster :
          \/ AppOpen(name) \/ AppClose(name)
          \/ Refuse(name) \/ Terminate(name) \/ Accept(name)
     \/ \E name \in CopiedName :
          \/ CopyDatabase(name) \/ CopierOpen(name) \/ Readdress(name)
  /\ UNCHANGED <<job, pc, k, loopVars, sqlVars, doneVars, waits, interrupts>>

Next == Environment \/ \E r \in Run : RunStep(r)

Spec == Init /\ [][Next]_vars

\* A run is a process the system schedules, and PostgreSQL and the UniField
\* server answer it: it is never stopped for ever between two steps.
FairSpec == Spec /\ \A r \in Run : WF_vars(RunStep(r))
-----------------------------------------------------------------------------
(* Properties.                                                             *)

\* A database only ever disappears because a run with --drop holds a complete
\* dump for exactly that name: neither a database without a replacement at
\* hand nor a neighbour "NAME_1" met while looking for a free name is dropped.
OnlyTargetDropped ==
  [][\A name \in DOMAIN cluster \ DOMAIN cluster' :
       \E r \in Run : /\ job[r].drop
                     /\ pc[r] = "dropdb"
                     /\ name = Target(r)
                     /\ <<k[r], "full">> \in files[r]]_vars

ExistingKept ==
  \A name \in DOMAIN cluster :
    cluster[name].owner = App => cluster[name] = InService

\* A database that was on the cluster before the runs is dropped or left as
\* it was, unless Ctrl-C was pressed: no dump is loaded into it, nothing in it
\* is reconfigured.
ExistingUntouched == interrupts = 0 => ExistingKept

\* No database mixes two dumps: the names the existence loop settles on are
\* free, also for dumps of one run that are restored under the same name.
OneDumpPerDatabase ==
  \A name \in DOMAIN cluster : Cardinality(cluster[name].loads) <= 1

\* The sync servers a run knows: those it restored and the one it was given.
KnownServers(r) ==
  {db \in {restored[r][n] : n \in 1..Len(restored[r])} : IsServerDb(db)}
    \cup {syncDb[r]}

\* A run ends with the databases it restored prepared, or has said otherwise.
\* The exit statuses of createdb and pg_restore and the errors of the queries
\* stop nothing; still no database of a finished run is absent, empty or has
\* its sequences where the dump left them, and one that no error was printed
\* for holds its whole dump and does not lead to the production server.
DoneMeansPrepared ==
  \A r \in Run :
    pc[r] \in {"sync", "done"} /\ (job[r].sql \/ job[r].upgrade) =>
      \A n \in 1..Len(restored[r]) :
        /\ Exists(restored[r][n])
        /\ LET db == cluster[restored[r][n]]
           IN  /\ db.owner = r /\ HasTables(db) /\ db.bumped
               /\ restored[r][n] \notin reported[r] =>
                    db.extent = "whole" /\ (job[r].sql => db.server # Production)

\* restored[r][n] was restored when no sync server was known yet
BeforeServer(r, n) ==
  ~HasLight(r) /\ job[r].syncDb = NoDb
    /\ \A m \in 1..n : ~IsServerDb(restored[r][m])

\* When a run ends and a sync server is part of it (restored, or given with
\* --sync-db), every instance that no error was printed for is set to
\* synchronise with it.  Only a directory or a PostgreSQL server may list an
\* instance before the server: it is then left with the name SYNC_SERVER.
InstancesShareServer ==
  \A r \in Run :
    pc[r] = "done" /\ job[r].sql /\ KnownServers(r) # {NoDb} =>
      \A n \in 1..Len(restored[r]) :
        ~IsServerDb(restored[r][n]) /\ restored[r][n] \notin reported[r] =>
          \/ cluster[restored[r][n]].server \in KnownServers(r)
          \/ /\ job[r].transport \in {"directory", "postgres"}
             /\ BeforeServer(r, n)
             /\ cluster[restored[r][n]].server = <<DefaultServer>>

\* 'connect' does reach the production server of a dump: nothing stops it when
\* the sql is switched off, or when the UPDATE of the connection was rolled
\* back.  These are the only ways, and the second is in the run's output
\* before it connects.
ProductionLinkAnnounced ==
  \A name \in DOMAIN cluster :
    cluster[name].linked /\ cluster[name].server = Production =>
      \E r \in Run :
        /\ \E n \in 1..Len(restored[r]) : restored[r][n] = name
        /\ ~job[r].sql \/ name \in reported[r]

\* Every run ends: the search for a free name, the wait for the upgrade and
\* the loops over dumps and instances all terminate.
EveryRunEnds == \A r \in Run : <>Ended(r)
=============================================================================
