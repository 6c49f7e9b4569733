# UniField toolbox: verification project

The repository is a toolbox around UniField, an ERP whose instances (HQ,
coordinations, projects) exchange updates through a synchronisation server.
The ERP itself is not here; the tools restore, copy, clean and provision its
PostgreSQL databases, and keep tickets, branches and patches in step. This
directory holds TLA+ modules of the tools' own logic, the TLC runs that check
them and the TLAPS proofs about them.

## 1. Inventory

| Part | State it keeps | Operations | What is hard |
|---|---|---|---|
| `restore_dump.py3` | databases of a cluster, dump files on disk, sql parameters carried from one dump to the next | list and fetch dumps, find a free name or drop, createdb, pg_restore, sql, sequences, upgrade, connect and sync | exit statuses and exceptions ignored, several runs and other tools on one cluster, order of the dumps |
| `restore_dump.py2` | the same | the same, with Jira and Owncloud sources | the same |
| `SyncServerWalDump` | a standby server fed by WAL files, export files, a light sync server on another host | rsync WALs, replay, stop, export, copy, restore in the background | crash between steps, overlapping restores, readers of a half written export |
| `Perf/clean_server_updates.py` | the table of updates of the sync server | three compaction loops, two bulk deletes, one transaction | updates pushed and pulled while it runs |
| `maintenance/db` | databases of a cluster, services of runbots | copy, duplicate, dump, restore, drop, update | services left stopped, half configured copies |
| `RB` | runbots: system user, ports, services, branches, databases | create, update, restart, test, archive, delete | an error in the middle of a shell script, port allocation |
| `JiraReport` | tickets and branches of Jira and Launchpad / git | set and clear branch fields, create merge proposals | two sources of truth read at different times |
| `PatchTools` | revisions, tags, patch archives | compute the files changed, build the archive, list tickets | order of revisions, renames and deletions |
| `Sharepoint` | remote folders, an HTTP session with a token | list, upload in chunks, delete by pattern | retries after a partial upload |
| `maintenance/df`, `finance`, `synchro` | rows of one database | allocate, clean, create | one transaction or several, partial failure |
| `ACL`, `ExportMenu`, `chart_of_account`, `Translations` | none | conversions and loads of files | - |
| `test_scripts`, `Old` | none of their own | scenarios against a running ERP; retired scripts | - |

How they meet: every database tool works on the same PostgreSQL clusters
(`restore_dump`, `copy_db`, `duplicate_rb`, the services of the runbots);
`dump_server.py` produces the light dumps that `restore_dump` restores with
`--sync`; `init_sync.sh` writes the `~/.restore_dumprc` it is run with on a
runbot, reads the branches that `set_jira_branches.py` sets on tickets, and
writes the URL of the runbot on them (`set_rb.py`).

What makes each correct:

- `restore_dump`: a database that exists is replaced by --drop or not touched;
  a restored database holds one dump and does not reach production unless that
  was asked for or an error was printed; instances find the sync server
  restored with them; the run ends.
- `SyncServerWalDump`: what is copied was exported in this run, in order; a
  failed night does not block the next; an export is what its name says.
- `clean_server_updates.py`: an instance, old or new, ends up with the same
  records from the compacted table as from the full one.
- `maintenance/db`: connections that were refused are allowed again; a copy is
  only handed over, and its server only started, once it is cut off from
  production.
- `RB`: a runbot announced as ready is whole; what was deleted is gone; one
  runbot's failure does not stop the others; a restart repairs.
- `JiraReport`, `PatchTools`: the branch of a ticket is the one that exists; a
  patch holds every file changed between two revisions and no other.
- `Sharepoint`: a file is uploaded whole or an error is reported.
- `df`, `finance`, `synchro`: totals are preserved; all or nothing.

## 2. What was chosen, and in which order

The order puts first what most of the other tools call and what a mistake in
costs most: the restore of dumps (`RestoreDump`), the compaction of the
synchronisation server (`CleanUpdates`), the light dumps (`WalDump`,
`LightServer`), the other tools on the same clusters (`CopyDb`, `DuplicateRb`,
`ServerTools`), the runbots (`Runbot`) and their tickets (`Tickets`), backups
(`Sharepoint`), then the scripts that work alone (`XmlDump`, `MakePatch`,
`DeliveryFix`, `CleanFinance`).

Two components have a specification of what they promise, which they are shown
to implement: `BackupFolder` for `Sharepoint`, and `RestoreDump`, whose
environment stands for every other tool, for `CopyDb` (`RestoreSpec`).

## 3. Modules

Modules that extend one another:

    Transports <- Cluster <- RestoreDump <- CopyDb <- CopyDbProofs
                                  ^---- RestoreDumpProofs ----^
    WalDump <- LightServer <- LightServerProofs
    DuplicateRb <- ServerTools <- ServerToolsProofs
    BackupFolder <- Sharepoint <- SharepointProofs
    CleanUpdates <- CleanUpdatesProofs        Runbot <- RunbotProofs
    Tickets, XmlDump, MakePatch, DeliveryFix, CleanFinance <- ScriptsProofs

(`Sharepoint` instantiates `BackupFolder`, the others extend.) `MCX`
instantiates `X` for TLC; `MCScripts` extends `Tickets`, `XmlDump`,
`MakePatch`, `DeliveryFix` and `CleanFinance`. An operator named
`Action_Something` in front of `Action` is a variant with a plausible bug: it is
no part of a specification and serves to see that a property notices the bug.

### Transports
The dumps a source lists and their order. A database name is a sequence (stem,
then the suffixes the program appends), so `HQ_1` the second restore of `HQ`
and `HQ_1` the name of a dump are the same value `<<HQ, 1>>`. The regular
expressions that strip the date and extension are the constant `NewDbName`,
not assumed injective. `SyncFirst` is the order of `Web` and `RBIndex`,
`SortedByPath` that of `Directory`, which sorts the list again; `Postgres`
lists the databases in whatever order the server returns them.

### Cluster
PostgreSQL as the tools use it: databases, sessions, refused connections. It is
external: nothing of it is in the repository. `Refuse`, `Terminate` and
`Accept` are the REVOKE, `pg_terminate_backend` and GRANT that
`maintenance/db/copy_db.py` sends, `CopyDatabase` and `Readdress` its CREATE
DATABASE ... TEMPLATE and the update of a copy's connection row. Another client
(`App`) connects to and leaves databases at any time.

### RestoreDump
One process per run of `restore_dump.py3`; `pc` is the place in the code:

| `pc` | code |
|---|---|
| `start` | the checks and confirmation of the main program (687-729) |
| `fetch` | write_dump and the emptiness check (404-423) |
| `probe`, `taken`, `dropdb` | the `while not ok` loop (437-451) |
| `createdb`, `pg_restore` | 453, 454-458 |
| `open`, `queries`, `sequences` | 460-468, 469-492, 494-524 |
| `upgrade`, `close` | do_upgrade (352-371), ANALYZE and close (533-534) |
| `light_done` | between the two calls of restore_dump (733-747) |
| `sync` | connect_and_sync (373-394), one database per step |

Failures are part of it. createdb may do nothing, pg_restore may load the dump,
a part of it or nothing, a query may fail and be rolled back: the code ignores
all of these but for a line of output, and `reported` keeps which databases such
a line was about. dropdb may fail and is handled. `Abort` is an exception
nothing catches; `Interrupted` and `Killed` are Ctrl-C, the former swallowed by
the bare `except`. Abstractions: how much of the ERP a database holds is
nothing, a part or the whole (`extent`); of the sql, what changes the
connection row counts, so that a file of one's own given with `--sql` is not
modelled; that the sequences were moved is known (`bumped`), their values are
not; the wait of do_upgrade is counted in sleeps of ten seconds up to `MaxWait`.

### CopyDb
One run of `copy_db.py` beside the runs of `RestoreDump`, on the same cluster.
`at` is its place: the list of names (55-66), the confirmation (`ask`, 69-75),
then for each database REVOKE, termination, CREATE ... TEMPLATE (79-92), the
GRANT of the `finally` clause (94), and the configuration of the copy (96-129):
the new owner, the connection row, the commit of both. `GrantFails` is the GRANT
that raises (the database was dropped, the connection is lost, a second Ctrl-C),
`KilledInTry` a kill. The copies are databases of the same `cluster`, called
`CopyName`, the form restore_dump.py3 gives to what it restores: a run may probe
a copy, drop it, or load into it, and a copy may take the name a run has found
free. While the transaction is open its locks keep runs from writing into the
copy (`LocksHold`). `RestoreSpec` says that to the runs all this is the
environment `RestoreDump` allows for: the composition refines `RestoreDump`.

### CleanUpdates
The statements of `clean_server_updates.py` one by one, read committed, with
updates pushed, pulled, aged, and instances registered and invalidated in
between. A record stands for a (source, sdref, model) of HQ; three classes of
records separate the models of the loops.

### WalDump
`dump_server.py` and `dump_db.bash`: one process, `stage` its place. A position
is the number of WAL files replayed. rsync has two steps because
`--remove-source-files` removes each file when it is over, and a run that fails
has moved the ones it had: later runs find them. The standby is a process of
its own (`Replay`) and as slow as it likes: two polls of
`pg_last_wal_replay_lsn` may return the same position before everything is
replayed, and the four exports may see four positions. The start, the polls,
the exports and the copies fail or are cut as the code allows. An export shows
the standby as it is when `pg_dump` or `psql` reads it.

### LightServer
`WalDump` composed with `restore_last_sync2.sh`, which `dump_db.bash` starts in
the background over ssh, so that several may run: stop the server, drop, create,
load the four files, then export, reduce, export ..., start the server.
`level` is how far the updates have been reduced. The database, `~/exports`,
the files copied and `sync-prod-server` are shared; no status is checked, so
each command may do nothing and the next is executed, the stop and the start of
the server included. A drop kills the `pg_dump` another restorer has running,
whose script goes on; an export is written in place and has two steps.

What such a script leaves may be anything, and nobody is told. The properties
are about what it leaves where nothing went wrong: `source` is a history
variable, the four files a restorer began from when it dropped the database
with the server stopped. It is forgotten when anything disturbs the restorer: a
command fails, another restorer takes a step on the database, a new file is
copied. No action reads it but to record in `exports` how an export was made.

### Runbot
The host of the runbots. `rb[n]` is what the host holds of one: account, home,
role, databases, units, virtual host and certificate. A process is one call of
`init_sync.sh` (automatic or interactive, with or without a ticket),
`deleteRB.sh`, or the restart of `start_jira_tests.sh` and
`start_branch_tests.sh`, which is a deletion followed by a build. `pc` follows
the functions of the scripts; `Stops` is errexit, on in automatic mode only.
`Try` has a command work, or do nothing or part of its work and fail: `Fault`
is a failure of the command itself, the guard one that the state of the host
causes. `Name` are names in lower case, as `init_sync.sh` writes them (230);
`deleteRB.sh` takes the ticket as it was typed, and where that has capitals
(`lower` is false) its commands find nothing to remove (`Removes`). `Clone` has
the clones of the server, the web client and the environment, whose failures
go unnoticed because only the status of the last command of the here document
counts. `killall` of the deletion ends what the user of the runbot executes,
not the scripts of root. `hit` and `met` record, for the properties only,
whether a fault struck a call and whether it overlapped with another it may not
overlap with. `ReadyMeansWhole` makes an exception of the web client: its clone
is the one that may be missing behind a runbot that is announced. The optional
virtualenv (`BUILD_PYTHON_ENV`) is not modelled.

### DuplicateRb
`duplicate_rb.py`, one process per operational centre (OC). `pc` follows the
script: stop the two services (63-64), list the databases of both servers
(66-87), drop those of the target that are not selected any more (90-91), copy
the missing ones from templates, then the synchronisation server anew (93-105),
configure each (109-132), start the services (134-135). A database is what it
holds: the version of production it was copied at, the server whose data it sends (`of`, its own once it is cut
off), the run that made it. Users of production change it while its service is
up; CREATE DATABASE ... TEMPLATE fails while somebody is connected. The stop and the start of a
service may each fail unnoticed; an error of the database ends the script, but
for a copy, whose error is printed.

### ServerTools
`dump_all.py`, `drop_all.py` and `restore_all.py` beside `DuplicateRb`. `tool`
and `todo` are the command under way and the databases it has listed and not
reached; `files` is the directory of dumps. Both ways to the server are there:
XML-RPC, whose errors are exceptions, and HTTP, whose answer is written to the
file whatever its status. With either, a dump may be empty, which is warned
about and kept (`good` is false).

### Tickets
Five scripts on the same Jira tickets: `set_jira_branches.py` (`lp`) and
`set_git_branches.py` (`git`), started again and again by cron,
`create_merge_proposal.py` (`merge`), and `get_branch.py` and `set_rb.py` as
two builds of `init_sync.sh` call them for one ticket. Reading a ticket, and
each REST call that changes it, is a step; `stale` are the processes whose
ticket was changed since they read it. The two branch scripts look at the
branches of the last five days: which these are is for each start to find out
(`Windows`), so that a branch may be seen once and never again. A write that
Jira refuses, once or at every start, or does not answer, ends the script, as no
`try` is around it. Developers edit tickets in between (`MaxEdits`).

### Sharepoint, BackupFolder
`sharepoint.py` on `webdav.py`: pushes, gets, a move and a deletion by pattern
on one folder. A push opens an upload session, sends chunk after chunk and
finishes; an exception makes it sleep, reconnect and retry with the same file
object (`pos` is not reset, `begun` is where the new session starts). The
library office365 and the server are external. `BackupFolder` is what a
reader may count on: each file holds an unbroken end of what one writer sent,
and changes in one step. Its `folder` is the variable `remote`; the state of
sessions has no counterpart there.

### XmlDump, MakePatch, DeliveryFix, CleanFinance
Algorithms of one process, from every state of a small instance.

- `XmlDump` (`Old/blk_xmlrpc-dump.py`): the stack of calls of `dump()`, which
  calls itself on what a record refers to and on its one2many fields, then the
  pass of `save_to_xml` with the search domains it shares. What a domain finds
  in the target is data: `finds` gives for each record what a search for its
  values finds, which is nothing when one is empty (written `'False'`) and more
  than the record when others have the same values. `empty` are the records
  with a required many2many field without a value, written with the domain of
  the field before.
- `MakePatch` (`PatchTools/make_patch.py`): the walk of the old tree, that of
  the new one, the list of deletions, the set of names seen and the archive. A
  path of the old tree may be a directory of the new one (`newDirs`):
  `os.path.exists` holds of it, `folders` are the entries written for those.
- `DeliveryFix` (`maintenance/df/check_po_in.py`): the three ways the moves
  of an order are given to its lines, first those that fit exactly, then what
  remains, and the spare ones; the SQL printed is taken as run, each statement
  with the `where` it has.
- `CleanFinance` (`maintenance/finance/clean_finance.py`): indexes made and
  dropped, deletion of each table in turn, the rules of foreign keys
  (cascade, set null, or none) over the rows that refer to one another.

## 4. Runs

| Run | Question it asks |
|---|---|
| `restore_quiet` | one run, the kinds of command lines and sources, whose commands and queries may fail: is what it finished prepared, linked to the right server, one dump per database, and does it finish |
| `restore_race` | two runs on the same names, one Ctrl-C: is an existing database touched, is only the target dropped |
| `restore_hostile` | a run that fails and is interrupted, and copy_db.py whose copies have the names of the run: does the latter give access back and hand over neutral copies, and is it an environment of the former |
| `clean_kept` | does the compaction keep the newest settled update, and does it compact |
| `clean_last` (violation) | does it keep the last update of a record, as its comment says |
| `wal_recovers` | does a failed dump block those that follow, and does a run copy what it has exported |
| `wal_replayed` (violation) | when "WAL Replayed" is logged and nothing fails, is everything replayed |
| `light_exports` | overlapping restores and failures everywhere: do the exports that look complete hold what their names say, and fit together |
| `runbot` | what calls that fail and overlap leave of runbots and of apache, and whether a restart gets over it |
| `server_tools` | two duplications and an administrator, two commands that fail: is a target that is started neutral, and its server as new as its instances |
| `sharepoint` | pushes, a get, a move and a deletion at the same time, with requests that fail: does the folder keep its promise |
| `scripts` | the four algorithms and the ticket scripts: what each leaves behind |

`scripts` is one run for modules that share no variable: the initial state
chooses which of them is at work (`script`) and the others stay as they are, so
that it explores the union of their state spaces, not the product.

What the properties say of the code:

- `OneDumpPerDatabase`, `DoneMeansPrepared`, `InstancesShareServer`,
  `ProductionLinkAnnounced`, `EveryRunEnds`: no database mixes two dumps; what
  a finished run restored exists, holds tables of its own and has its sequences
  moved, and is whole and off production unless an error was printed for it;
  instances lead to a server the run knows, or to the default name where a
  directory or a PostgreSQL server listed them first; nothing is connected to
  production unless the sql was switched off or an error was printed.
- `ExistingUntouched`, `OnlyTargetDropped`: what was there is written to by
  nobody and dropped only when it is the target of `--drop`.
- `AccessGivenBack`, `CopyHandedOverNeutral`, `RestoreSpec`: see `CopyDb`. Only
  a script that was killed, or whose GRANT failed, leaves a REVOKE behind.
- `SettledNewestKept`, `CompactedEnough`: what all instances have pulled keeps
  its newest state, and only the updates the comments name remain.
- `ExportsInOrder`, `DumpsKeepComing`: what a run copies it has exported itself,
  each part no older than the one before, from the position it polled on; later
  dumps happen whatever failed.
- `ExportsAsLabelled`, `ExportsMatch`: an export made undisturbed is reduced as
  much as its name says, from complete files, and when the last one is such and
  nobody is at work, the four are of one dump.
- `OneBuilder`, `SitesStayLoadable`, `ReadyMeansWhole`, `RestartSucceeds`,
  `DeletedIsGone`: see `Runbot`.
- `NoneAhead`, `StartedNeutral`: on a target that duplicate_rb.py stopped and
  starts, no instance is ahead of the synchronisation server, and no database
  writes to production. The instances themselves may be of several states:
  those kept from an earlier run are not copied again.
- `StoredFromBegun`, `ImplementsFolder`: a push that ended has stored all that
  follows the start of its last session, unbroken; no reader finds a mixture.
- `DefinedFirst`, `RecursionEnds`, `SearchesMissNone`: the file lists a record
  after those it refers to, the recursion ends, and a search finds at least
  what the values of its records would, though domains are shared.
- `PatchUpgrades`: old tree, minus deletions, plus archive is the new tree,
  plus the files that became directories.
- `LinesCovered`: after a pass the moves of each line are of its product and add
  up to its quantity, done moves decide whether it is done, and every spare
  move is cancelled.
- `CleanedOrUntouched`: the accounting is deleted whole or not at all.
- `OneProposal`, `SeenFieldsStand`: a branch is proposed once; a field a script
  saw filled stays.

Bounds, and why the interesting cases fit in them.

- `restore_*`: two dumps that are restored under one name (`HQ` twice) and a
  dump named like the fallback (`HQ_1`) are what the name search can trip over;
  three dumps per run and two preexisting databases reach each. `restore_race`
  has two runs because each hazard is a pair of steps, its jobs one or two
  dumps. `MaxWait = 1` has the wait continue and expire. `MaxInterrupts = 1`: a
  second Ctrl-C needs the first to have been swallowed and meets the same steps.
- `restore_hostile`: the production database PROD is there at first; copy_db.py
  copies it to HQ, the name the run restores, and HQ to HQ_2. The copy under way
  may be the target of the run, its template a database the run restored, and
  either may be gone.
- `clean_*`: `MaxSeq = 5` updates in `clean_kept`, three for a loop to act, two
  more pushed after min_seq; 6 in `clean_last`, where the update lost is pushed
  after min_seq, is not pulled, and min_seq itself stands one behind what is
  pulled. One entity, since only the minimum of the positions counts;
  one record of each class the loops tell apart, the records of a class being
  independent.
- `wal_recovers`, `wal_replayed`, `light_exports`: `MaxWal = 1`: dumps with and
  without a new WAL file, two positions for exports to differ in. In
  `light_exports` two dumps and two `Restorer`s are the fewest that overlap
  with different files. `CutPart` names the export that may be cut short: which
  of the four it is makes no difference to the script, and the one chosen is
  the one that is not removed before a run exports. `MayFail` and `MayLose`
  switch failures off where a question is about runs without any
  (`wal_replayed`); `light_exports` loses no copies, as a file that is cut in
  the copy is to the restorer one that was cut in the export.
- `runbot`: three calls, two at a time, one fault: enough for a call that fails,
  one that meets its remains or runs into it, and one that repairs. Two names,
  a plain and a protected one, since runbots share nothing but apache. The
  calls of `MCJob` are one for each combination the scripts treat differently,
  among them a restart whose ticket is written in capitals.
- `server_tools`: two OCs, since what they share is the production service; one
  of them has an instance of its own and one left from before, the other only
  the synchronisation server, as overlap is about that service. Two runs in all
  (`MaxRuns`), of one OC or of both: the second overlaps with the first, or
  meets what it left after commands that fail (`MaxFaults = 2`: a stop that
  fails and one more); one change of production (`MaxVersion`), two tools of the
  administrator on the target with databases (`MaxTools`), a dump and its
  restore.
- `sharepoint`: two pushes of one name, one in three chunks so that one is
  lost, one kept and one still to come, the other in a single request (the two
  paths of the code); one get, move and deletion, all of that file;
  `MaxRetries = 1` retries twice, as the code's test does with one more.
- `scripts`: three records with three references, the smallest graph with a
  circle beside a many2many field, whose searches find each record, or one not
  and one with another; six paths, one per rule of `dirmap()` and one pair that
  meets under one name, one of which may become a directory; two lines and
  three moves of quantities 1 and 2; four rows of three tables, with every set
  of foreign keys and references between them; three tickets, five branches of
  which one may no longer be recent, two scripts at a time or two builds and one
  script.

Deadlock is not checked: the programs end, and stay ended.

Symmetry: `light_exports` (`Restorer`) and `runbot` (`Proc`) permute processes
that no definition tells apart; neither has a liveness property.

Fairness. `FairSpec` of `RestoreDump`: each run is weakly fair, being a process
the system schedules and whose blocking calls (createdb, pg_restore, XML-RPC)
return. `CronSpec` of `WalDump` says the same of the script and the standby,
adds that cron starts the script again (`RsyncStart`) and, as strong
fairness of the success of each command, that no command fails for ever: without
it the answer to `DumpsKeepComing` is that a dead host makes no dump.
Nothing is assumed anywhere of exports, copies, developers or the other tools.

## 5. Findings

`PROJECT.json` has the steps of each. Two are runs of their own: in `clean_last`
the keep2 loop deletes an update pushed after min_seq that an instance has yet
to pull (`LastKept`); in `wal_replayed` two equal positions six seconds apart
are logged as "WAL Replayed" while the replay goes on (`WalReplayed`). Those that
follow are stated by a property; TLC refutes it with the change given to a
configuration:

| Property | Configuration | What it shows |
|---|---|---|
| `ExistingUntouched` | `restore_hostile` with `PreExisting <- HqExists`, `LocalServer <- OnDefault` | a refused connection is taken for an absent database, and the dump loaded into the existing one |
| `UnpulledDeleteKept` | `clean_kept` | the single loop deletes deletions that instances have not pulled |
| `FailureIsMailed` | `runbot` | the mail of a failed build is not sent before RB_info.txt exists, because the trap itself runs with errexit |

Others are conditions that a property makes, since the code breaks what it says
without them; the comment of the property names each:

- `InstancesShareServer` lets an instance that `Directory` or `Postgres` lists
  before the server keep the default name: `Directory.get_dbs` sorts the list
  again (134), and so undoes the SYNC-first order of its constructor.
- `ReadyMeansWhole` leaves out the web client of a build one of whose commands
  failed: its clone fails without notice (482-489).
- `StoredFromBegun` speaks of the end of a file: a retry never rewinds it, and
  what the failed session had taken is lost without an error. The retries are
  one more than `max_retries` says.
- `RestartSucceeds` leaves out testfield runs, which stop at a service of
  /etc/init.d that the builder no longer installs, and tickets in capitals, of
  which `deleteRB.sh` removes nothing.
- `DefinedFirst` leaves out circles of references; `SearchesMissNone` says that
  nothing is missed, not that nothing else is found: a shared domain also finds
  the records of the other field, an empty field finds nothing, and a required
  field without a value is given the domain of another.
- `PatchUpgrades` leaves out files moved between two directories of one
  installed name, and names the files that became directories as leftovers.

And some are of what no property can promise: one ticket that Jira refuses to
write ends set_jira_branches.py at every start (87), create_auto_install_env.py
deletes under a snapshot and leaves what was pushed since (113), doubling is no
distance for a young sequence (restore_dump.py3:498), an empty or erroneous dump
is a file like any other (dump_all.py:113).

The rest (a ticket list written back without what another build added, a loop
that ends on `dev.keys()`, an order of files that decides which dump is
restored, a deletion by name of what was shown by date, ...) were met while
modelling and are in `PROJECT.json` with their lines.

## 6. Proofs

`tlapm` checks every theorem for all values of the constants, under the named
assumptions of the modules, which TLC evaluates in the runs.

`RestoreDumpProofs`. The inductive invariant `IndInv` is `TypeOK`, `PositionOK`
and `LoopInv`. `PositionOK`: the index `k` is inside the queue or the list of
restored databases, without which `Target` and `restored[r][k[r]]` are not
defined and types cannot be kept. `LoopInv`: a run at `dropdb` is a --drop run
whose candidate is still its target and whose dump is complete.
`TypeCorrect` and `OnlyTargetIsDropped` follow. `ExistingIsUntouched` assumes
that copy_db.py copies nothing (`CopiedName = {}`; TLC refutes it otherwise) and adds `ExistingInv`: no connection is refused, and
the database a run is writing to (`Writing`, from createdb to close), if it
exists, is not one that was there before, and neither is any it has restored. Since the property is about the time before
any Ctrl-C, the invariant (`KeptInv`) is `interrupts = 0 => ExistingInv`, and
`InterruptsCounted` lets each step assume it of the state before.
`OneDumpForOneRun` is `OneDumpPerDatabase` for one run that is not interrupted,
beside no copy_db.py, whatever the dumps are called: `FreshInv` says that what
the loop found absent is absent until createdb, and empty until pg_restore.
With a second run, what the first found free need not stay so.
`DoneIsPrepared`, `ProductionLinkIsAnnounced` and `ServerIsShared` are about such
a run too (a second run breaks all three), whatever createdb, pg_restore and
queries fail to do. `QuietInv` follows the database under way and those
restored: `PrepInv`, how far each is prepared and what was reported for it
(`StageOf` for the one at work), which a `--drop` of a later dump must not undo;
`LinkInv`, that `server_db` is the server given or one that was restored
(`ServerDbOf`), so that every instance restored after a server, or when one was
given, leads to a server the run knows; what is linked and leads to production
was reported or had no sql. `ServerIsShared` has the dumps of servers before
those of instances for the Web and RB transports (`ServersFirst`), which is what
`SyncFirst` computes; for the other two, which do not, the property itself says
what is left. `OrderInv` carries that order over to what has been restored,
`GivenInv` the case of no server but the one that was given.

`CopyDbProofs`. `CopyImplementsRestore`: `CopySpec => Spec` of `RestoreDump`,
by showing that every step of copy_db.py is a step of `Environment` or leaves
its variables alone; `TypeOK`, which the argument needs, comes from
`RestoreDumpProofs` along the same induction. `OnlyTargetIsDroppedBesideCopy`
is a corollary. `CopyInd` (`IndInv`, the types of copy_db.py, and that the UPDATE
about to be committed is the one a known port calls for) carries
`CopyTypeCorrect`, `AccessIsGivenBack` and `CopiesAreNeutral`.

`LightServerProofs`, about `WalDump` and `LightServer`. The type invariants
hold for all constants. `ExportsAreInOrder` is `ExportsInOrder` with nothing
assumed of failures or of the replay: `DumpInv` says that the parts exported so
far, those cut short aside, are of positions that grow from the last poll to
where the standby is, whatever earlier runs have left in the directory.
`ExportsHoldTheirLabel` and `ExportsAreOfOneDump` are `ExportsAsLabelled` and
`ExportsMatch`, again for any number of restorers and any failures: `LightInv`
says what the database holds, and which exports are of its dump, at each place
of a restorer that nothing has disturbed (of a restorer that nothing has disturbed (`Progress`).

`CleanUpdatesProofs`. `NewestStays` and `Compacts` are `SettledNewestKept` and
`CompactedEnough` for any number of updates. The inductive invariant has four
parts: `LogInv` (positions, what was pushed and pulled), `GroupInv` (what a loop
has read of the group it is at), `NewestInv` (what each deletion leaves), and
`CompactInv` (what is left of the groups that are done). They rest on lemmas
that a set of numbers has a least and, if bounded, a greatest element, proved
from the well-foundedness of the naturals.

`ServerToolsProofs`, about `DuplicateRb` and `ServerTools`. `StartedNeutrally`
(`StartedNeutral`) and `ServerIsNewest` (`NoneAhead`), for any servers, databases,
numbers of runs and failures: the invariant `ToolsInv` says which copies a run
has configured at each place, that nothing anywhere is newer than production,
and that once the synchronisation server is copied no instance arrives that is
newer than it while the target is stopped.

`SharepointProofs`. The inductive invariant `IInv` says that positions are in
order (`begun <= pos <= SizeOf`), that an open session holds exactly the chunks
read since it began (`SessionHolds`: what is needed to see that what a session
stores is an unbroken end), that the folder holds contents of `BackupFolder`
(`FolderOK`) and a push only writes its own name (`OwnFile`). `StoredIsATail`
is `StoredFromBegun` for any number of programs, sizes, buffer and retries;
`FolderImplemented` is the refinement: every step of a push, get, move or
deletion is a step of `BackupFolder` or a stutter.

`RunbotProofs`. `UseraddIsALock` is `OneBuilder` for any number of calls and
failures. What has to be invariant is why the lock holds once taken: the
account of an automatic build past useradd stays (`AccountKept`), since whoever
runs userdel is a deletion or restart (`DeletesWhenAsked`) and has therefore
met every build under way (`OverlapsMet`). Most commands neither start a build
nor touch the account; `QuietKeeps` says once what follows from that.
`SitesLoadable`, `AnnouncedIsWhole`, `DeletionIsComplete` and `RestartsEnd` are
`SitesStayLoadable`, `ReadyMeansWhole`, `DeletedIsGone` and `RestartSucceeds`,
again for any calls, names and failures: each has an invariant that says what
a call that no other met has made, or removed, at each place of its script.

`ScriptsProofs`, about the modules of the scripts that work alone:

- `NeverTwice` is `OneProposal` for any tickets and branches: between the look
  at a branch and the proposal (`NoneYet`) only the script itself proposes,
  whoever edits tickets and however often the script dies. `WritesStand` is the
  action property `SeenFieldsStand`: `SeenInv` says that a process whose ticket
  nobody changed since holds what Jira has.
- `AllOrNothing` is `CleanedOrUntouched` for any tables, rows and foreign keys:
  `TurnsOver` says which tables are empty, `LostIsListed` that without a
  cascade that leads out of the list only listed rows are lost, `GoesBack` that
  a rollback restores all. That a cascade has one extent (`CascadeExists`)
  needs no assumption on rows: it is the intersection of all closed sets.
- `PatchesUpgrade` is `PatchUpgrades` for any trees, directories and any
  `dirmap()`: what has been seen, deleted and written after each part of the two
  walks.
- `CoversLines` is `LinesCovered` for any lines and moves: `FixInv` relates what
  remains of each line to the moves given to it, after each loop.
- `DefinesFirst` is `DefinedFirst` for any records and references. `StackInv`
  is about the stack of calls of `dump()`: a record waits in its frame until
  all it refers to is known, and what is known is written, waiting below, or
  above (`LooksLeft`, `LooksDone`, `AboveWaiting`). `RecursionBounded` is
  `RecursionEnds` for any finite number n of records and a recursion limit above
  n(n + 1). `SearchesFind` is `SearchesMissNone`: a domain only grows, from what
  the values of its record find, whatever fields share it.

Every invariant and action property of a passing run is stated by one of these
theorems. Model-checked only: liveness (`EveryRunEnds`, `DumpsKeepComing`),
which the prover does not handle. `LastKept` of `clean_last` and `WalReplayed`
of `wal_replayed` are violated.

## 7. Not modelled

`PROJECT.json` has the reason for each part. In short: `restore_dump.py2` is
superseded by the version that is modelled; the archive, stop and list scripts
of the runbots call services that are no longer installed, or print; conversions
without state and data files (`ACL`, `ExportMenu`, `chart_of_account`,
`Translations`), scenarios for a server that is not here (`test_scripts`) and a
linear installer (`create_dev_env.sh`) have no order of steps to get wrong.
Of the parts that are modelled partly, what is left out is one
independent call per database (`update_all.py`, `change_db_owner.py`,
`sync_all.py`, the finance scripts that call the ERP), reports that
change nothing, the older variant of the builder, and the methods of `webdav.py` that
nothing in the repository calls. `create_auto_install_env.py` is one transaction
after one reading of the server: what it leaves is what the where clause of its
delete says, and there is no step in between to get wrong.

These details are abstracted: the text of dumps,
queries and configuration files, the contents of tables except the rows the
tools write to steer synchronisation, downloads (a dump arrives, is empty or
raises), ports, certificates' dates and mail bodies, the bytes of a chunk, the
fields of a record beyond its references, the values of sequences, the queries
of a file given with `--sql`, the wording of tickets.
