------------------------- MODULE RestoreDumpProofs --------------------------
(***************************************************************************)
(* Proofs about RestoreDump.  For any set of runs, any jobs and any        *)
(* cluster shared with other users: its type invariant, OnlyTargetDropped  *)
(* and, while nobody refuses connections, ExistingUntouched.  For one run  *)
(* alone that nobody interrupts: one dump per database, what it has        *)
(* prepared when it ends, and the servers its instances lead to.           *)
(***************************************************************************)
EXTENDS RestoreDump, TLAPS, FiniteSetTheorems

InLoop(r) ==
  pc[r] \in {"fetch", "probe", "taken", "dropdb", "createdb", "pg_restore",
             "open", "queries", "sequences", "upgrade", "close"}

\* Where a run is in its for loops: k is the index of a dump while a dump is
\* being restored and of a restored database in connect_and_sync().
PositionOf(r) ==
  /\ pc[r] \notin {"start", "refused"} => ~NoDumpFound(r)
  /\ InLoop(r) => k[r] \in 1..Len(Queue(r))
  /\ pc[r] = "light_done" => HasLight(r) /\ k[r] = 1
  /\ pc[r] = "start" => k[r] = 1
  /\ pc[r] = "sync" => restored[r] = <<>> \/ k[r] \in 1..Len(restored[r])

PositionOK == \A r \in Run : PositionOf(r)

\* What a run in the existence loop knows: while --drop may still drop, the
\* candidate is the dump's own name, and the dump is on disk.
LoopOf(r) ==
  /\ pc[r] \in {"probe", "taken", "dropdb"} /\ job[r].drop /\ ~cantDrop[r]
       => cand[r] = Target(r)
  /\ pc[r] = "dropdb" => job[r].drop /\ ~cantDrop[r]
  /\ pc[r] \in {"probe", "taken", "dropdb"} => <<k[r], "full">> \in files[r]

LoopInv == \A r \in Run : LoopOf(r)

IndInv == TypeOK /\ PositionOK /\ LoopInv

-----------------------------------------------------------------------------
(* The queue of a run.                                                     *)

LEMMA ConcatFacts ==
  ASSUME NEW S, NEW s \in Seq(S), NEW t \in Seq(S)
  PROVE  s \o t \in Seq(S) /\ Len(s \o t) = Len(s) + Len(t)
  OBVIOUS

LEMMA QueueFacts ==
  ASSUME NEW r \in Run, job \in [Run -> Job]
  PROVE  /\ Queue(r) \in Seq(File)
         /\ HasLight(r) => Len(Queue(r)) >= 1
         /\ ~NoDumpFound(r) => Len(Queue(r)) >= 1
         /\ HasLight(r) /\ ~job[r].syncOnly /\ ~NoDumpFound(r)
              => Len(Queue(r)) >= 2
  <1> DEFINE j == job[r]
             light == IF HasLight(r) THEN <<LightFile>> ELSE <<>>
             main == IF j.syncOnly THEN <<>> ELSE GetDbs(j.transport, j.found)
  <1>1. j \in Job
    OBVIOUS
  <1>2. GetDbs(j.transport, j.found) \in Seq(File)
        /\ Len(GetDbs(j.transport, j.found)) = Len(j.found)
        /\ j.found \in Seq(File)
    BY <1>1, OrderAssumption, JobAssumption
  <1>3. main \in Seq(File) /\ (~j.syncOnly => Len(main) = Len(j.found))
    BY <1>2
  <1>4. light \in Seq(File) /\ Len(light) = IF HasLight(r) THEN 1 ELSE 0
    BY FilesAssumption
  <1>5. Queue(r) = light \o main
    BY DEF Queue
  <1>6. Queue(r) \in Seq(File) /\ Len(Queue(r)) = Len(light) + Len(main)
    <2> HIDE DEF light, main
    <2> QED  BY <1>3, <1>4, <1>5, ConcatFacts
  <1>7. ~j.syncOnly /\ ~NoDumpFound(r) => Len(main) >= 1
    BY <1>2, <1>3 DEF NoDumpFound
  <1>8. j.syncOnly => HasLight(r)
    BY DEF HasLight
  <1>9. Len(main) \in Nat /\ Len(light) \in Nat
    BY <1>3, <1>4
  <1> HIDE DEF light, main, j
  <1>10. j.syncOnly = job[r].syncOnly
    BY DEF j
  <1> QED
    BY <1>4, <1>6, <1>7, <1>8, <1>9, <1>10

LEMMA TargetType ==
  ASSUME NEW r \in Run, job \in [Run -> Job], k[r] \in 1..Len(Queue(r))
  PROVE  Target(r) \in Name
  <1>1. Queue(r) \in Seq(File)
    BY QueueFacts
  <1>2. Queue(r)[k[r]] \in File
    BY <1>1
  <1> QED
    BY <1>2, NamesAssumption DEF Target

LEMMA SuffixedType ==
  ASSUME NEW name \in Name, NEW i \in Nat
  PROVE  Suffixed(name, i) \in Name
  <1>1. Append(name, i) \in Seq(Stem \cup Nat)
    BY DEF Name
  <1>2. Append(name, i) # <<>>
    BY DEF Name
  <1> QED
    BY <1>1, <1>2 DEF Suffixed, Name

LEMMA DefaultName == <<DefaultServer>> \in Name
  <1>1. <<DefaultServer>> \in Seq(Stem \cup Nat) /\ <<DefaultServer>> # <<>>
    BY StemsAssumption
  <1> QED  BY <1>1 DEF Name

\* Nothing changes the command line of a run.
LEMMA JobConstant == [Next]_vars => job' = job
  BY DEF Next, vars, Environment, RunStep, Decline, Start, FetchDump, FetchEmpty,
     FetchRaises, ProbeConnects, ProbeFails, Interrupted, CloseForDrop,
     DropSucceeds, DropFails, KeepExisting, Create, PgRestore, Open, RunQueries,
     MoveSequences, UpgradeWaits, UpgradeReturns, Close, Abort, Killed,
     LightDone, LightMissing, SyncSkips, SyncInstance

-----------------------------------------------------------------------------
(* The type invariant, action by action: first the state of the runs, then *)
(* the cluster.                                                            *)

LEMMA RunTypeStep ==
  ASSUME RunTypeOK, PositionOK, NEW r \in Run, RunStep(r)
  PROVE  RunTypeOK'
  <1> USE BoundsAssumption DEF RunTypeOK, PcType, Goto, vars, clusterVars, loopVars, sqlVars, doneVars
  <1>l. 1 \in Nat \ {0} /\ 2 \in Nat \ {0}
    OBVIOUS
  <1>t. InLoop(r) => Target(r) \in Name
    BY TargetType DEF PositionOK, PositionOf
  <1>s. InLoop(r) => Suffixed(Target(r), suffix[r]) \in Name
    BY <1>t, SuffixedType
  <1>j. job[r].syncDb \in Name \cup {NoDb} /\ <<DefaultServer>> \in Name
    BY JobAssumption, DefaultName
  <1>n. NextDump(r) => pc' \in [Run -> PcType] /\ k' \in [Run -> Nat \ {0}]
    <2>1. k[r] + 1 \in Nat \ {0}
      OBVIOUS
    <2>2. CASE InLight(r)
      BY <2>2 DEF NextDump
    <2>3. CASE ~InLight(r) /\ k[r] < Len(Queue(r))
      BY <2>1, <2>3 DEF NextDump
    <2>4. CASE ~InLight(r) /\ ~(k[r] < Len(Queue(r)))
      <3>1. k' = [k EXCEPT ![r] = 1] \/ ~NextDump(r)
        BY <2>4 DEF NextDump
      <3>2. k' \in [Run -> Nat \ {0}] \/ ~NextDump(r)
        BY <3>1, <1>l
      <3>3. pc' \in [Run -> PcType] \/ ~NextDump(r)
        BY <2>4 DEF NextDump
      <3> QED
        BY <3>2, <3>3
    <2> QED
      BY <2>2, <2>3, <2>4
  <1>i. NextInstance(r) => pc' \in [Run -> PcType] /\ k' \in [Run -> Nat \ {0}]
    <2>1. k[r] + 1 \in Nat \ {0}
      OBVIOUS
    <2> QED
      BY <2>1 DEF NextInstance
  <1>d. restored[r] # <<>> => restored[r][1] \in Name
    OBVIOUS
  <1>e. pc[r] = "sync" /\ restored[r] # <<>> => restored[r][k[r]] \in Name
    BY DEF PositionOK, PositionOf
  <1>1. CASE Decline(r)
    BY <1>1 DEF Decline
  <1>2. CASE Start(r)
    BY <1>2, <1>j DEF Start
  <1>3. CASE FetchDump(r)
    BY <1>3, <1>t DEF FetchDump, InLoop
  <1>4. CASE FetchEmpty(r)
    <2>1. pc' \in [Run -> PcType] /\ k' \in [Run -> Nat \ {0}]
      BY <1>4, <1>n DEF FetchEmpty
    <2>2. <<k[r], "empty">> \in Nat \X {"empty", "part", "full"}
      OBVIOUS
    <2>3. files' \in [Run -> SUBSET (Nat \X {"empty", "part", "full"})]
      BY <1>4, <2>2 DEF FetchEmpty
    <2> HIDE DEF PcType
    <2> QED
      BY <1>4, <2>1, <2>3 DEF FetchEmpty
  <1>5. CASE FetchRaises(r)
    BY <1>5 DEF FetchRaises
  <1>6. CASE ProbeConnects(r)
    BY <1>6 DEF ProbeConnects
  <1>7. CASE ProbeFails(r)
    BY <1>7 DEF ProbeFails
  <1>8. CASE Interrupted(r)
    BY <1>8 DEF Interrupted
  <1>9. CASE CloseForDrop(r)
    BY <1>9 DEF CloseForDrop
  <1>10. CASE DropSucceeds(r)
    BY <1>10 DEF DropSucceeds
  <1>11. CASE DropFails(r)
    BY <1>11, <1>s DEF DropFails, NextName, InLoop
  <1>12. CASE KeepExisting(r)
    BY <1>12, <1>s DEF KeepExisting, NextName, InLoop
  <1>p. Reports(r) \/ UNCHANGED reported => reported' \in [Run -> SUBSET Name]
    <2>1. reported[r] \cup {cand[r]} \in SUBSET Name
      OBVIOUS
    <2> QED
      BY <2>1 DEF Reports
  <1>13. CASE Create(r)
    BY <1>13, <1>p DEF Create
  <1>14. CASE PgRestore(r)
    BY <1>14, <1>p DEF PgRestore, Load
  <1>15. CASE Open(r)
    BY <1>15 DEF Open
  <1>16. CASE RunQueries(r)
    BY <1>16, <1>p DEF RunQueries
  <1>17. CASE MoveSequences(r)
    BY <1>17 DEF MoveSequences
  <1>18. CASE UpgradeWaits(r)
    BY <1>18 DEF UpgradeWaits
  <1>19. CASE UpgradeReturns(r)
    BY <1>19 DEF UpgradeReturns
  <1>20. CASE Close(r)
    BY <1>20, <1>n DEF Close
  <1>21. CASE Abort(r)
    BY <1>21 DEF Abort
  <1>22. CASE Killed(r)
    BY <1>22 DEF Killed
  <1>23. CASE LightDone(r)
    <2>1. CASE job[r].syncOnly
      BY <1>23, <1>d, <2>1 DEF LightDone
    <2>2. CASE ~job[r].syncOnly
      <3>1. k' \in [Run -> Nat \ {0}]
        BY <1>23, <1>l, <2>2 DEF LightDone
      <3>2. syncDb' \in [Run -> Name \cup {NoDb}] /\ serverDb' \in [Run -> Name]
        BY <1>23, <1>d, <2>2 DEF LightDone
      <3>3. restored' \in [Run -> Seq(Name)]
        <4>1. <<>> \in Seq(Name)
          OBVIOUS
        <4>2. restored' = [restored EXCEPT ![r] = <<>>]
          BY <1>23, <2>2 DEF LightDone
        <4> QED
          BY <4>1, <4>2
      <3> QED
        BY <1>23, <2>2, <3>1, <3>2, <3>3 DEF LightDone
    <2> QED
      BY <2>1, <2>2
  <1>24. CASE LightMissing(r)
    BY <1>24 DEF LightMissing
  <1>25. CASE SyncSkips(r)
    BY <1>25, <1>e, <1>i DEF SyncSkips
  <1>26. CASE SyncInstance(r)
    BY <1>26, <1>i DEF SyncInstance
  <1> QED
    BY <1>1, <1>2, <1>3, <1>4, <1>5, <1>6, <1>7, <1>8, <1>9, <1>10, <1>11, <1>12, <1>13, <1>14, <1>15, <1>16, <1>17, <1>18, <1>19, <1>20, <1>21, <1>22, <1>23, <1>24, <1>25, <1>26 DEF RunStep

\* Rewriting one existing database keeps the cluster well typed.
LEMMA RewriteType ==
  ASSUME ClusterTypeOK, NEW name \in DOMAIN cluster, NEW db \in Database,
         cluster' = [cluster EXCEPT ![name] = db],
         UNCHANGED <<sessions, refused>>
  PROVE  ClusterTypeOK'
  BY DEF ClusterTypeOK

LEMMA EmptyType ==
  ASSUME NEW client \in Run \cup {App}
  PROVE  EmptyDb(client) \in Database
  BY DEF EmptyDb, Database

LEMMA InServiceType == InService \in Database
  BY DefaultName DEF InService, Database

\* pg_restore touches nothing but the database it is given.
LEMMA LoadCases ==
  ASSUME NEW r \in Run, Load(r)
  PROVE  \/ UNCHANGED cluster /\ Reports(r)
         \/ /\ Connectable(r, cand[r])
            /\ \E row \in {NoDb, Production}, extent \in {"part", "whole"} :
                 cluster' = [cluster EXCEPT ![cand[r]] =
                               Loaded(cluster[cand[r]], r, row, extent)]
  BY DEF Load, DumpedRow

LEMMA LoadedFacts ==
  ASSUME RunTypeOK, NEW r \in Run, NEW db \in Database,
         NEW row \in {NoDb, Production}, NEW extent \in {"part", "whole"}
  PROVE  /\ Loaded(db, r, row, extent) \in Database
         /\ Loaded(db, r, row, extent).owner = db.owner
         /\ Loaded(db, r, row, extent).loads = db.loads \cup {<<r, k[r]>>}
         /\ Loaded(db, r, row, extent).extent = extent
         /\ Loaded(db, r, row, extent).server = IF db.server = NoDb THEN row ELSE db.server
         /\ Loaded(db, r, row, extent).bumped = db.bumped
         /\ Loaded(db, r, row, extent).linked = db.linked
  <1>1. <<r, k[r]>> \in Run \X Nat
    BY DEF RunTypeOK
  <1> QED
    BY <1>1 DEF Loaded, Database

LEMMA RedirectedFacts ==
  ASSUME NEW db \in Database, NEW server \in Name
  PROVE  /\ Redirected(db, server) \in Database
         /\ Redirected(db, server).owner = db.owner
         /\ Redirected(db, server).loads = db.loads
         /\ Redirected(db, server).extent = db.extent
         /\ Redirected(db, server).server = IF db.server = NoDb THEN NoDb ELSE server
         /\ Redirected(db, server).bumped = db.bumped
         /\ Redirected(db, server).linked = db.linked
  BY DEF Redirected, Database

LEMMA ClusterTypeStep ==
  ASSUME TypeOK, PositionOK, NEW r \in Run, RunStep(r)
  PROVE  ClusterTypeOK'
  <1> USE DEF Goto, clusterVars
  <1>c. ClusterTypeOK /\ RunTypeOK
    BY DEF TypeOK
  <1>1. CASE Decline(r)
    BY <1>c, <1>1 DEF ClusterTypeOK, Decline
  <1>2. CASE Start(r)
    BY <1>c, <1>2 DEF ClusterTypeOK, Start
  <1>3. CASE FetchDump(r)
    BY <1>c, <1>3 DEF ClusterTypeOK, FetchDump
  <1>4. CASE FetchEmpty(r)
    BY <1>c, <1>4 DEF ClusterTypeOK, FetchEmpty
  <1>5. CASE FetchRaises(r)
    BY <1>c, <1>5 DEF ClusterTypeOK, FetchRaises
  <1>6. CASE ProbeConnects(r)
    BY <1>c, <1>6 DEF ClusterTypeOK, ProbeConnects, Connectable, Exists, Client
  <1>7. CASE ProbeFails(r)
    BY <1>c, <1>7 DEF ClusterTypeOK, ProbeFails
  <1>8. CASE Interrupted(r)
    BY <1>c, <1>8 DEF ClusterTypeOK, Interrupted
  <1>9. CASE CloseForDrop(r)
    BY <1>c, <1>9 DEF ClusterTypeOK, CloseForDrop, EndSessions, SessionsOf
  <1>10. CASE DropSucceeds(r)
    BY <1>c, <1>10 DEF ClusterTypeOK, DropSucceeds, DropDb, Exists, InUse
  <1>11. CASE DropFails(r)
    BY <1>c, <1>11 DEF ClusterTypeOK, DropFails
  <1>12. CASE KeepExisting(r)
    BY <1>c, <1>12 DEF ClusterTypeOK, KeepExisting, EndSessions, SessionsOf
  <1>13. CASE Create(r)
    <2>1. CASE UNCHANGED cluster
      BY <1>c, <1>13, <2>1 DEF Create, ClusterTypeOK
    <2>2. CASE CreateDb(r, cand[r])
      <3>1. EmptyDb(r) \in Database /\ cand[r] \in Name
        BY <1>c, EmptyType DEF RunTypeOK
      <3> QED
        BY <1>c, <1>13, <2>2, <3>1 DEF Create, CreateDb, Exists, ClusterTypeOK
    <2> QED
      BY <1>13, <2>1, <2>2 DEF Create
  <1>14. CASE PgRestore(r)
    <2>1. CASE UNCHANGED cluster
      BY <1>c, <1>14, <2>1 DEF PgRestore, ClusterTypeOK
    <2>2. ASSUME Connectable(r, cand[r]),
                 NEW row \in {NoDb, Production}, NEW extent \in {"part", "whole"},
                 cluster' = [cluster EXCEPT ![cand[r]] =
                               Loaded(cluster[cand[r]], r, row, extent)]
          PROVE  ClusterTypeOK'
      <3>1. cand[r] \in DOMAIN cluster /\ cluster[cand[r]] \in Database
        BY <1>c, <2>2 DEF Connectable, Exists, ClusterTypeOK
      <3>2. Loaded(cluster[cand[r]], r, row, extent) \in Database
        BY <1>c, <3>1, LoadedFacts
      <3> QED
        BY <1>c, <1>14, <2>2, <3>1, <3>2, RewriteType DEF PgRestore
    <2>3. Load(r)
      BY <1>14 DEF PgRestore
    <2> QED
      BY <2>1, <2>2, <2>3, LoadCases
  <1>15. CASE Open(r)
    BY <1>c, <1>15 DEF ClusterTypeOK, Open, Connectable, Exists, Client
  <1>16. CASE RunQueries(r)
    <2> DEFINE server == IF IsServerDb(cand[r]) /\ syncDb[r] = NoDb
                         THEN cand[r] ELSE serverDb[r]
               db == Redirected(cluster[cand[r]], server)
    <2>1. CASE UNCHANGED cluster
      BY <1>c, <1>16, <2>1 DEF RunQueries, ClusterTypeOK
    <2>2. CASE cluster' = [cluster EXCEPT ![cand[r]] = db]
      <3>1. server \in Name
        BY <1>c DEF RunTypeOK
      <3>2. cand[r] \in DOMAIN cluster /\ cluster[cand[r]] \in Database
        BY <1>c, <1>16 DEF RunQueries, Connected, ClusterTypeOK
      <3>3. db \in Database
        <4> HIDE DEF server
        <4> QED  BY <3>1, <3>2, RedirectedFacts
      <3> HIDE DEF db
      <3> QED
        BY <1>c, <1>16, <2>2, <3>2, <3>3, RewriteType DEF RunQueries
    <2> QED
      BY <1>16, <2>1, <2>2 DEF RunQueries
  <1>17. CASE MoveSequences(r)
    <2> DEFINE db == [cluster[cand[r]] EXCEPT !.bumped = TRUE]
    <2>1. cand[r] \in DOMAIN cluster /\ cluster[cand[r]] \in Database
      BY <1>c, <1>17 DEF MoveSequences, Connected, ClusterTypeOK
    <2>2. db \in Database
      BY <2>1 DEF Database
    <2>3. cluster' = [cluster EXCEPT ![cand[r]] = db]
      BY <1>17 DEF MoveSequences
    <2> HIDE DEF db
    <2> QED
      BY <1>c, <1>17, <2>1, <2>2, <2>3, RewriteType DEF MoveSequences
  <1>18. CASE UpgradeWaits(r)
    BY <1>c, <1>18 DEF ClusterTypeOK, UpgradeWaits
  <1>19. CASE UpgradeReturns(r)
    BY <1>c, <1>19 DEF ClusterTypeOK, UpgradeReturns
  <1>20. CASE Close(r)
    BY <1>c, <1>20 DEF ClusterTypeOK, Close, EndSessions, SessionsOf
  <1>21. CASE Abort(r)
    BY <1>c, <1>21 DEF ClusterTypeOK, Abort, EndSessions, SessionsOf
  <1>22. CASE Killed(r)
    BY <1>c, <1>22 DEF ClusterTypeOK, Killed, EndSessions, SessionsOf
  <1>23. CASE LightDone(r)
    BY <1>c, <1>23 DEF ClusterTypeOK, LightDone
  <1>24. CASE LightMissing(r)
    BY <1>c, <1>24 DEF ClusterTypeOK, LightMissing
  <1>25. CASE SyncSkips(r)
    BY <1>c, <1>25 DEF ClusterTypeOK, SyncSkips
  <1>26. CASE SyncInstance(r)
    <2> DEFINE name == restored[r][k[r]]
               db == [cluster[name] EXCEPT !.linked = TRUE]
    <2>1. CASE UNCHANGED cluster
      BY <1>c, <1>26, <2>1 DEF SyncInstance, ClusterTypeOK
    <2>2. CASE Exists(name) /\ cluster' = [cluster EXCEPT ![name] = db]
      <3>1. name \in DOMAIN cluster /\ cluster[name] \in Database
        BY <1>c, <2>2 DEF Exists, ClusterTypeOK
      <3>2. db \in Database
        BY <3>1 DEF Database
      <3> HIDE DEF db, name
      <3> QED
        BY <1>c, <1>26, <2>2, <3>1, <3>2, RewriteType DEF SyncInstance
    <2> QED
      BY <1>26, <2>1, <2>2 DEF SyncInstance
  <1> QED
    BY <1>1, <1>2, <1>3, <1>4, <1>5, <1>6, <1>7, <1>8, <1>9, <1>10, <1>11, <1>12, <1>13, <1>14, <1>15, <1>16, <1>17, <1>18, <1>19, <1>20, <1>21, <1>22, <1>23, <1>24, <1>25, <1>26 DEF RunStep

-----------------------------------------------------------------------------
(* Where the runs are.                                                     *)

\* What a run's step leaves of the other runs, and of its own queue.
LEMMA StepFrame ==
  ASSUME RunTypeOK, NEW r \in Run, RunStep(r)
  PROVE  /\ job' = job
         /\ \A q \in Run \ {r} :
              /\ pc'[q] = pc[q] /\ k'[q] = k[q] /\ cand'[q] = cand[q]
              /\ cantDrop'[q] = cantDrop[q] /\ files'[q] = files[q]
              /\ restored'[q] = restored[q]
  BY DEF RunTypeOK, RunStep, Decline, Start, FetchDump, FetchEmpty, FetchRaises,
     ProbeConnects, ProbeFails, Interrupted, CloseForDrop, DropSucceeds,
     DropFails, KeepExisting, Create, PgRestore, Open, RunQueries,
     MoveSequences, UpgradeWaits, UpgradeReturns, Close, Abort, Killed,
     LightDone, LightMissing, SyncSkips, SyncInstance, Goto, NextName,
     NextDump, NextInstance, loopVars, sqlVars, doneVars, vars, clusterVars

LEMMA QueueConstant ==
  ASSUME job' = job, NEW q \in Run
  PROVE  /\ Queue(q)' = Queue(q)
         /\ HasLight(q)' = HasLight(q)
         /\ NoDumpFound(q)' = NoDumpFound(q)
         /\ k'[q] = k[q] => Target(q)' = Target(q)
  BY DEF Queue, HasLight, NoDumpFound, Target

LEMMA PositionStep ==
  ASSUME RunTypeOK, PositionOK, NEW r \in Run, RunStep(r)
  PROVE  PositionOK'
  <1>f. job' = job /\ \A q \in Run \ {r} :
          pc'[q] = pc[q] /\ k'[q] = k[q] /\ restored'[q] = restored[q]
    BY StepFrame
  <1>o. ASSUME NEW q \in Run, q # r
        PROVE  PositionOf(q)'
    BY <1>f, <1>o, QueueConstant DEF PositionOK, PositionOf, InLoop
  <1>q. /\ Queue(r)' = Queue(r) /\ HasLight(r)' = HasLight(r)
        /\ NoDumpFound(r)' = NoDumpFound(r)
    BY <1>f, QueueConstant
  <1>l. /\ Len(Queue(r)) \in Nat
        /\ HasLight(r) => Len(Queue(r)) >= 1
        /\ ~NoDumpFound(r) => Len(Queue(r)) >= 1
        /\ HasLight(r) /\ ~job[r].syncOnly /\ ~NoDumpFound(r)
             => Len(Queue(r)) >= 2
    BY QueueFacts DEF RunTypeOK
  <1>p. PositionOf(r)
    BY DEF PositionOK
  <1>t. /\ pc \in [Run -> PcType] /\ k \in [Run -> Nat \ {0}]
        /\ restored \in [Run -> Seq(Name)]
    BY DEF RunTypeOK
  <1> USE <1>q, <1>l, <1>p, <1>t DEF PositionOf, InLoop, Goto, loopVars, sqlVars, doneVars, vars, clusterVars
  <1>a. PositionOf(r)'
    <2>1. CASE Decline(r)
      BY <2>1 DEF Decline
    <2>2. CASE Start(r)
      BY <2>2 DEF Start
    <2>3. CASE FetchDump(r)
      BY <2>3 DEF FetchDump
    <2>4. CASE FetchEmpty(r)
      BY <2>4 DEF FetchEmpty, NextDump, InLight
    <2>5. CASE FetchRaises(r)
      BY <2>5 DEF FetchRaises
    <2>6. CASE ProbeConnects(r)
      BY <2>6 DEF ProbeConnects
    <2>7. CASE ProbeFails(r)
      BY <2>7 DEF ProbeFails
    <2>8. CASE Interrupted(r)
      BY <2>8 DEF Interrupted
    <2>9. CASE CloseForDrop(r)
      BY <2>9 DEF CloseForDrop
    <2>10. CASE DropSucceeds(r)
      BY <2>10 DEF DropSucceeds
    <2>11. CASE DropFails(r)
      BY <2>11 DEF DropFails, NextName
    <2>12. CASE KeepExisting(r)
      BY <2>12 DEF KeepExisting, NextName
    <2>13. CASE Create(r)
      BY <2>13 DEF Create
    <2>14. CASE PgRestore(r)
      BY <2>14 DEF PgRestore
    <2>15. CASE Open(r)
      BY <2>15 DEF Open
    <2>16. CASE RunQueries(r)
      BY <2>16 DEF RunQueries
    <2>17. CASE MoveSequences(r)
      BY <2>17 DEF MoveSequences
    <2>18. CASE UpgradeWaits(r)
      BY <2>18 DEF UpgradeWaits
    <2>19. CASE UpgradeReturns(r)
      BY <2>19 DEF UpgradeReturns
    <2>20. CASE Close(r)
      BY <2>20 DEF Close, NextDump, InLight
    <2>21. CASE Abort(r)
      BY <2>21 DEF Abort
    <2>22. CASE Killed(r)
      BY <2>22 DEF Killed
    <2>23. CASE LightDone(r)
      BY <2>23 DEF LightDone
    <2>24. CASE LightMissing(r)
      BY <2>24 DEF LightMissing
    <2>25. CASE SyncSkips(r)
      BY <2>25 DEF SyncSkips, NextInstance
    <2>26. CASE SyncInstance(r)
      BY <2>26 DEF SyncInstance, NextInstance
    <2> QED
      BY <2>1, <2>2, <2>3, <2>4, <2>5, <2>6, <2>7, <2>8, <2>9, <2>10, <2>11, <2>12, <2>13, <2>14, <2>15, <2>16, <2>17, <2>18, <2>19, <2>20, <2>21, <2>22, <2>23, <2>24, <2>25, <2>26 DEF RunStep
  <1> QED
    BY <1>o, <1>a DEF PositionOK

LEMMA LoopStep ==
  ASSUME RunTypeOK, PositionOK, LoopInv, NEW r \in Run, RunStep(r)
  PROVE  LoopInv'
  <1>f. job' = job /\ \A q \in Run \ {r} :
          /\ pc'[q] = pc[q] /\ k'[q] = k[q] /\ cand'[q] = cand[q]
          /\ cantDrop'[q] = cantDrop[q] /\ files'[q] = files[q]
    BY StepFrame
  <1>o. ASSUME NEW q \in Run, q # r
        PROVE  LoopOf(q)'
    BY <1>f, <1>o, QueueConstant DEF LoopInv, LoopOf
  <1>q. k'[r] = k[r] => Target(r)' = Target(r)
    BY <1>f, QueueConstant
  <1>p. LoopOf(r)
    BY DEF LoopInv
  <1>t. /\ pc \in [Run -> PcType] /\ k \in [Run -> Nat \ {0}]
        /\ cand \in [Run -> Name] /\ cantDrop \in [Run -> BOOLEAN]
        /\ files \in [Run -> SUBSET (Nat \X {"empty", "part", "full"})]
    BY DEF RunTypeOK
  <1> USE <1>f, <1>q, <1>p, <1>t DEF LoopOf, Goto, loopVars, sqlVars, doneVars, vars, clusterVars
  <1>a. LoopOf(r)'
    <2>1. CASE Decline(r)
      BY <2>1 DEF Decline
    <2>2. CASE Start(r)
      BY <2>2 DEF Start
    <2>3. CASE FetchDump(r)
      BY <2>3 DEF FetchDump
    <2>4. CASE FetchEmpty(r)
      BY <2>4 DEF FetchEmpty, NextDump
    <2>5. CASE FetchRaises(r)
      BY <2>5 DEF FetchRaises
    <2>6. CASE ProbeConnects(r)
      BY <2>6 DEF ProbeConnects
    <2>7. CASE ProbeFails(r)
      BY <2>7 DEF ProbeFails
    <2>8. CASE Interrupted(r)
      BY <2>8 DEF Interrupted
    <2>9. CASE CloseForDrop(r)
      BY <2>9 DEF CloseForDrop
    <2>10. CASE DropSucceeds(r)
      BY <2>10 DEF DropSucceeds
    <2>11. CASE DropFails(r)
      BY <2>11 DEF DropFails, NextName
    <2>12. CASE KeepExisting(r)
      BY <2>12 DEF KeepExisting, NextName
    <2>13. CASE Create(r)
      BY <2>13 DEF Create
    <2>14. CASE PgRestore(r)
      BY <2>14 DEF PgRestore
    <2>15. CASE Open(r)
      BY <2>15 DEF Open
    <2>16. CASE RunQueries(r)
      BY <2>16 DEF RunQueries
    <2>17. CASE MoveSequences(r)
      BY <2>17 DEF MoveSequences
    <2>18. CASE UpgradeWaits(r)
      BY <2>18 DEF UpgradeWaits
    <2>19. CASE UpgradeReturns(r)
      BY <2>19 DEF UpgradeReturns
    <2>20. CASE Close(r)
      BY <2>20 DEF Close, NextDump
    <2>21. CASE Abort(r)
      BY <2>21 DEF Abort
    <2>22. CASE Killed(r)
      BY <2>22 DEF Killed
    <2>23. CASE LightDone(r)
      BY <2>23 DEF LightDone
    <2>24. CASE LightMissing(r)
      BY <2>24 DEF LightMissing
    <2>25. CASE SyncSkips(r)
      BY <2>25 DEF SyncSkips, NextInstance
    <2>26. CASE SyncInstance(r)
      BY <2>26 DEF SyncInstance, NextInstance
    <2> QED
      BY <2>1, <2>2, <2>3, <2>4, <2>5, <2>6, <2>7, <2>8, <2>9, <2>10, <2>11, <2>12, <2>13, <2>14, <2>15, <2>16, <2>17, <2>18, <2>19, <2>20, <2>21, <2>22, <2>23, <2>24, <2>25, <2>26 DEF RunStep
  <1> QED
    BY <1>o, <1>a DEF LoopInv

-----------------------------------------------------------------------------
(* The theorems.                                                           *)

\* copy_db.py rewrites or adds the copy of a database.
LEMMA CopierTypeStep ==
  ASSUME ClusterTypeOK, NEW name \in CopiedName,
         CopyDatabase(name) \/ CopierOpen(name) \/ Readdress(name)
  PROVE  ClusterTypeOK'
  <1>n. CopyName[name] \in Name
    BY ClusterAssumption
  <1>1. CASE CopyDatabase(name)
    <2> DEFINE db == [cluster[name] EXCEPT !.owner = App, !.linked = FALSE]
    <2>1. cluster[name] \in Database
      BY <1>1 DEF CopyDatabase, Exists, ClusterTypeOK
    <2>2. db \in Database
      BY <2>1 DEF Database
    <2>3. cluster' = [n \in DOMAIN cluster \cup {CopyName[name]} |->
                       IF n = CopyName[name] THEN db ELSE cluster[n]]
      BY <1>1 DEF CopyDatabase
    <2> HIDE DEF db
    <2> QED
      BY <1>1, <1>n, <2>2, <2>3 DEF CopyDatabase, ClusterTypeOK
  <1>2. CASE CopierOpen(name)
    BY <1>2, <1>n DEF CopierOpen, SessionsOf, Exists, ClusterTypeOK, Client
  <1>3. CASE Readdress(name)
    <2> DEFINE db == Redirected(cluster[CopyName[name]], LocalServer)
    <2>1. CopyName[name] \in DOMAIN cluster /\ cluster[CopyName[name]] \in Database
      BY <1>3 DEF Readdress, Exists, ClusterTypeOK
    <2>2. db \in Database
      BY <2>1, RedirectedFacts, ClusterAssumption
    <2>3. cluster' = [cluster EXCEPT ![CopyName[name]] = db]
      BY <1>3 DEF Readdress
    <2> HIDE DEF db
    <2> QED
      BY <1>3, <2>1, <2>2, <2>3, RewriteType DEF Readdress
  <1> QED
    BY <1>1, <1>2, <1>3

LEMMA EnvironmentStep ==
  ASSUME IndInv, Environment
  PROVE  IndInv'
  <1>1. UNCHANGED <<job, pc, k, cand, suffix, cantDrop, serverDb, syncDb,
                    restored, files, reported, waits, interrupts>>
    BY DEF Environment, loopVars, sqlVars, doneVars
  <1>2. RunTypeOK'
    BY <1>1 DEF IndInv, TypeOK, RunTypeOK
  <1>3. PositionOK' /\ LoopInv'
    <2>1. ASSUME NEW r \in Run PROVE PositionOf(r)' /\ LoopOf(r)'
      BY <1>1, QueueConstant DEF IndInv, PositionOK, PositionOf, LoopInv, LoopOf, InLoop
    <2> QED
      BY <2>1 DEF PositionOK, LoopInv
  <1>4. ClusterTypeOK'
    <2>c. ClusterTypeOK
      BY DEF IndInv, TypeOK
    <2>1. CASE CopierClose
      BY <2>c, <2>1 DEF CopierClose, SessionsOf, ClusterTypeOK
    <2>2. ASSUME NEW name \in DOMAIN cluster,
                 \/ AppOpen(name) \/ AppClose(name)
                 \/ Refuse(name) \/ Terminate(name) \/ Accept(name)
          PROVE  ClusterTypeOK'
      BY <2>c, <2>2 DEF ClusterTypeOK, AppOpen, AppClose, Refuse,
           Terminate, Accept, Connectable, Exists, Client
    <2>3. ASSUME NEW name \in CopiedName,
                 CopyDatabase(name) \/ CopierOpen(name) \/ Readdress(name)
          PROVE  ClusterTypeOK'
      BY <2>c, <2>3, CopierTypeStep
    <2> QED
      BY <2>1, <2>2, <2>3 DEF Environment
  <1> QED
    BY <1>2, <1>3, <1>4 DEF IndInv, TypeOK

LEMMA IndInvStep == IndInv /\ [Next]_vars => IndInv'
  <1> SUFFICES ASSUME IndInv, [Next]_vars
               PROVE  IndInv'
    OBVIOUS
  <1>1. CASE UNCHANGED vars
    <2>1. UNCHANGED <<cluster, sessions, refused, job, pc, k, cand, suffix,
             cantDrop, serverDb, syncDb, restored, files, reported, waits, interrupts>>
      BY <1>1 DEF vars, clusterVars, loopVars, sqlVars, doneVars
    <2>2. TypeOK'
      BY <2>1 DEF IndInv, TypeOK, RunTypeOK, ClusterTypeOK
    <2>3. ASSUME NEW r \in Run PROVE PositionOf(r)' /\ LoopOf(r)'
      BY <2>1, QueueConstant DEF IndInv, PositionOK, PositionOf, LoopInv, LoopOf, InLoop
    <2> QED
      BY <2>2, <2>3 DEF IndInv, PositionOK, LoopInv
  <1>2. CASE Environment
    BY <1>2, EnvironmentStep
  <1>3. ASSUME NEW r \in Run, RunStep(r)
        PROVE  IndInv'
    BY <1>3, RunTypeStep, ClusterTypeStep, PositionStep, LoopStep DEF IndInv, TypeOK
  <1> QED
    BY <1>1, <1>2, <1>3 DEF Next

LEMMA InitIndInv == Init => IndInv
  <1> SUFFICES ASSUME Init PROVE IndInv
    OBVIOUS
  <1>1. ClusterTypeOK
    <2>1. InService \in Database
      BY InServiceType
    <2> QED
      BY <2>1, ClusterAssumption DEF Init, ClusterInit, ClusterTypeOK
  <1>2. RunTypeOK
    <2>1. 1 \in Nat \ {0} /\ <<>> \in Seq(Name) /\ 0 \in 0..MaxWait
            /\ 0 \in 0..MaxInterrupts
      BY BoundsAssumption
    <2> QED
      BY <2>1, DefaultName DEF Init, RunTypeOK, PcType
  <1>3. PositionOK /\ LoopInv
    BY DEF Init, PositionOK, PositionOf, LoopInv, LoopOf, InLoop
  <1> QED
    BY <1>1, <1>2, <1>3 DEF IndInv, TypeOK

\* The type invariant of restore_dump.py3's runs and of the cluster holds for
\* every set of runs and jobs, however the cluster's other users behave.
THEOREM TypeCorrect == Spec => []TypeOK
  <1>1. IndInv => TypeOK
    BY DEF IndInv
  <1> QED
    BY InitIndInv, IndInvStep, <1>1, PTL DEF Spec

\* A database leaves the cluster only in dropdb's success.
LEMMA OnlyDropRemoves ==
  ASSUME IndInv, NEW r \in Run, RunStep(r), NEW name \in DOMAIN cluster,
         name \notin DOMAIN cluster'
  PROVE  DropSucceeds(r) /\ name = cand[r]
  <1>1. DropSucceeds(r)
    BY DEF RunStep, Decline, Start, FetchDump, FetchEmpty, FetchRaises,
       ProbeConnects, ProbeFails, Interrupted, CloseForDrop, DropFails,
       KeepExisting, Create, CreateDb, PgRestore, Load, Open, RunQueries,
       MoveSequences, UpgradeWaits, UpgradeReturns, Close, Abort, Killed,
       LightDone, LightMissing, SyncSkips, SyncInstance, clusterVars
  <1>2. name = cand[r]
    BY <1>1 DEF DropSucceeds, DropDb
  <1> QED
    BY <1>1, <1>2

\* Whatever else runs on the cluster, the only database a run can drop is the
\* one named after its current dump, with --drop given and the complete dump
\* on disk: the existence loop of restore_dump() cannot drop a neighbour.
THEOREM OnlyTargetIsDropped == Spec => OnlyTargetDropped
  <1> DEFINE Dropped ==
        \A name \in DOMAIN cluster \ DOMAIN cluster' :
          \E r \in Run : /\ job[r].drop
                        /\ pc[r] = "dropdb"
                        /\ name = Target(r)
                        /\ <<k[r], "full">> \in files[r]
  <1>1. IndInv /\ [Next]_vars => [Dropped]_vars
    <2> SUFFICES ASSUME IndInv, Next,
                        NEW name \in DOMAIN cluster, name \notin DOMAIN cluster'
                 PROVE  \E r \in Run : /\ job[r].drop
                                      /\ pc[r] = "dropdb"
                                      /\ name = Target(r)
                                      /\ <<k[r], "full">> \in files[r]
      OBVIOUS
    <2>1. ~Environment
      BY DEF Environment, AppOpen, AppClose, Refuse, Terminate, Accept,
             CopyDatabase, CopierOpen, CopierClose, Readdress
    <2>2. PICK r \in Run : RunStep(r)
      BY <2>1 DEF Next
    <2>3. DropSucceeds(r) /\ name = cand[r]
      BY <2>2, OnlyDropRemoves
    <2>4. pc[r] = "dropdb"
      BY <2>3 DEF DropSucceeds
    <2>5. LoopOf(r)
      BY DEF IndInv, LoopInv
    <2> QED
      BY <2>3, <2>4, <2>5 DEF LoopOf
  <1> QED
    BY InitIndInv, IndInvStep, <1>1, PTL DEF Spec, OnlyTargetDropped

-----------------------------------------------------------------------------
(* Databases that were there before the runs, when nothing refuses a       *)
(* connection (no copy_db.py), as long as nobody has pressed Ctrl-C.       *)

\* name is not one of the databases that were there before
Ours(name) == name \in DOMAIN cluster => cluster[name].owner # App

Writing(r) == pc[r] \in {"createdb", "pg_restore", "open", "queries",
                         "sequences", "upgrade", "close"}

ExistingInv ==
  /\ refused = {}
  /\ ExistingKept
  /\ \A r \in Run :
       /\ Writing(r) => Ours(cand[r])
       /\ \A n \in 1..Len(restored[r]) : Ours(restored[r][n])

\* A run rewrites only the database it is restoring or connecting, and never
\* changes who created it.
Rewrites(r) ==
  \E name \in DOMAIN cluster :
    /\ cluster' = [cluster EXCEPT ![name] = cluster'[name]]
    /\ cluster'[name].owner = cluster[name].owner
    /\ \/ Writing(r) /\ name = cand[r]
       \/ /\ pc[r] = "sync" /\ restored[r] # <<>>
          /\ name = restored[r][k[r]]

LEMMA ClusterChange ==
  ASSUME TypeOK, NEW r \in Run, RunStep(r)
  PROVE  \/ UNCHANGED cluster
         \/ DropDb(cand[r])
         \/ CreateDb(r, cand[r]) /\ Writing(r)
         \/ Rewrites(r)
  <1>1. CASE PgRestore(r)
    <2>1. ASSUME Connectable(r, cand[r]),
                 NEW row \in {NoDb, Production}, NEW extent \in {"part", "whole"},
                 cluster' = [cluster EXCEPT ![cand[r]] =
                               Loaded(cluster[cand[r]], r, row, extent)]
          PROVE  Rewrites(r)
      <3>1. cand[r] \in DOMAIN cluster /\ cluster[cand[r]] \in Database
        BY <2>1 DEF Connectable, Exists, TypeOK, ClusterTypeOK
      <3>2. Loaded(cluster[cand[r]], r, row, extent).owner = cluster[cand[r]].owner
        BY <3>1, LoadedFacts DEF TypeOK
      <3> QED
        BY <1>1, <2>1, <3>1, <3>2 DEF Rewrites, Writing, PgRestore
    <2>2. Load(r)
      BY <1>1 DEF PgRestore
    <2> QED
      BY <2>1, <2>2, LoadCases
  <1>2. CASE RunQueries(r)
    <2>1. cand[r] \in DOMAIN cluster /\ cluster[cand[r]] \in Database
      BY <1>2 DEF RunQueries, Connected, TypeOK, ClusterTypeOK
    <2>2. PICK server \in Name :
                        \/ cluster' = [cluster EXCEPT ![cand[r]] =
                                         Redirected(cluster[cand[r]], server)]
                        \/ UNCHANGED cluster
      BY <1>2 DEF RunQueries, TypeOK, RunTypeOK
    <2>3. Redirected(cluster[cand[r]], server).owner = cluster[cand[r]].owner
      BY <2>1, RedirectedFacts
    <2> QED
      BY <1>2, <2>1, <2>2, <2>3 DEF Rewrites, Writing, RunQueries
  <1>3. CASE MoveSequences(r)
    <2>1. cand[r] \in DOMAIN cluster /\ cluster[cand[r]] \in Database
      BY <1>3 DEF MoveSequences, Connected, TypeOK, ClusterTypeOK
    <2>2. [cluster[cand[r]] EXCEPT !.bumped = TRUE].owner = cluster[cand[r]].owner
      BY <2>1 DEF Database
    <2> QED
      BY <1>3, <2>1, <2>2 DEF Rewrites, Writing, MoveSequences
  <1>4. CASE SyncInstance(r)
    <2> DEFINE name == restored[r][k[r]]
    <2>1. CASE Exists(name) /\ cluster' = [cluster EXCEPT ![name].linked = TRUE]
      <3>1. name \in DOMAIN cluster /\ cluster[name] \in Database
        BY <2>1 DEF Exists, TypeOK, ClusterTypeOK
      <3>2. [cluster[name] EXCEPT !.linked = TRUE].owner = cluster[name].owner
        BY <3>1 DEF Database
      <3> QED
        BY <1>4, <2>1, <3>1, <3>2 DEF Rewrites, SyncInstance
    <2> QED
      BY <1>4, <2>1 DEF SyncInstance
  <1>5. CASE DropSucceeds(r) \/ Create(r)
    BY <1>5 DEF DropSucceeds, Create, Writing
  <1> QED
    BY <1>1, <1>2, <1>3, <1>4, <1>5
    DEF RunStep, Decline, Start, FetchDump, FetchEmpty, FetchRaises,
       ProbeConnects, ProbeFails, Interrupted, CloseForDrop, DropFails,
       KeepExisting, Open, UpgradeWaits, UpgradeReturns, Close, Abort, Killed,
       LightDone, LightMissing, SyncSkips, clusterVars

LEMMA OursStable ==
  ASSUME TypeOK, NEW r \in Run, RunStep(r), NEW name, Ours(name)
  PROVE  Ours(name)'
  <1>1. r # App
    BY ClusterAssumption
  <1>2. CASE UNCHANGED cluster
    BY <1>2 DEF Ours
  <1>3. CASE DropDb(cand[r])
    BY <1>3 DEF Ours, DropDb
  <1>4. CASE CreateDb(r, cand[r])
    BY <1>1, <1>4 DEF Ours, CreateDb, EmptyDb
  <1>5. CASE Rewrites(r)
    BY <1>5 DEF Ours, Rewrites
  <1> QED
    BY <1>2, <1>3, <1>4, <1>5, ClusterChange

LEMMA WritingStep ==
  ASSUME TypeOK, refused = {}, interrupts' = 0,
         NEW r \in Run, RunStep(r), Writing(r)'
  PROVE  /\ cand'[r] = cand[r]
         /\ Writing(r) \/ cand[r] \notin DOMAIN cluster'
  <1>1. interrupts \in Nat
    BY BoundsAssumption DEF TypeOK, RunTypeOK
  <1>2. /\ pc \in [Run -> PcType]
    BY DEF TypeOK, RunTypeOK
  <1>3. ~Interrupted(r) /\ ~Killed(r)
    BY <1>1 DEF Interrupted, Killed
  <1>4. CASE ProbeFails(r)
    BY <1>4 DEF ProbeFails, Connectable, Exists, clusterVars, loopVars
  <1>5. CASE DropSucceeds(r)
    BY <1>5 DEF DropSucceeds, DropDb, loopVars
  <1> QED
    BY <1>2, <1>3, <1>4, <1>5
    DEF RunStep, Writing, Decline, Start, FetchDump, FetchEmpty, FetchRaises,
       ProbeConnects, CloseForDrop, DropFails, KeepExisting, Create, PgRestore,
       Open, RunQueries, MoveSequences, UpgradeWaits, UpgradeReturns, Close,
       Abort, LightDone, LightMissing, SyncSkips, SyncInstance, Goto, NextName,
       NextDump, NextInstance, loopVars

LEMMA RestoredStep ==
  ASSUME TypeOK, NEW r \in Run, RunStep(r)
  PROVE  \/ restored'[r] = restored[r]
         \/ restored'[r] = <<>>
         \/ restored'[r] = Append(restored[r], cand[r]) /\ Writing(r)
  <1>1. restored \in [Run -> Seq(Name)]
    BY DEF TypeOK, RunTypeOK
  <1> QED
    BY <1>1
    DEF RunStep, Writing, Decline, Start, FetchDump, FetchEmpty, FetchRaises,
       ProbeConnects, ProbeFails, Interrupted, CloseForDrop, DropSucceeds,
       DropFails, KeepExisting, Create, PgRestore, Open, RunQueries,
       MoveSequences, UpgradeWaits, UpgradeReturns, Close, Abort, Killed,
       LightDone, LightMissing, SyncSkips, SyncInstance, doneVars

LEMMA ExistingStep ==
  ASSUME TypeOK, PositionOK, ExistingInv, interrupts' = 0,
         NEW r \in Run, RunStep(r)
  PROVE  ExistingInv'
  <1>1. refused' = {}
    BY DEF ExistingInv, RunStep, Decline, Start, FetchDump, FetchEmpty,
       FetchRaises, ProbeConnects, ProbeFails, Interrupted, CloseForDrop,
       DropSucceeds, DropDb, DropFails, KeepExisting, Create, PgRestore, Open,
       RunQueries, MoveSequences, UpgradeWaits, UpgradeReturns, Close, Abort,
       Killed, LightDone, LightMissing, SyncSkips, SyncInstance, clusterVars
  <1>2. ExistingKept'
    <2>1. r # App
      BY ClusterAssumption
    <2>2. CASE UNCHANGED cluster
      BY <2>2 DEF ExistingInv, ExistingKept
    <2>3. CASE DropDb(cand[r])
      BY <2>3 DEF ExistingInv, ExistingKept, DropDb
    <2>4. CASE CreateDb(r, cand[r])
      BY <2>1, <2>4 DEF ExistingInv, ExistingKept, CreateDb, EmptyDb
    <2>5. CASE Rewrites(r)
      <3>1. PICK name \in DOMAIN cluster :
              /\ cluster' = [cluster EXCEPT ![name] = cluster'[name]]
              /\ cluster'[name].owner = cluster[name].owner
              /\ \/ Writing(r) /\ name = cand[r]
                 \/ /\ pc[r] = "sync" /\ restored[r] # <<>>
                    /\ name = restored[r][k[r]]
        BY <2>5 DEF Rewrites
      <3>2. pc[r] = "sync" /\ restored[r] # <<>> => k[r] \in 1..Len(restored[r])
        BY DEF PositionOK, PositionOf
      <3>3. Ours(name)
        BY <3>1, <3>2 DEF ExistingInv
      <3>4. cluster'[name].owner # App
        BY <3>1, <3>3 DEF Ours
      <3> QED
        BY <3>1, <3>4 DEF ExistingInv, ExistingKept
    <2> QED
      BY <2>2, <2>3, <2>4, <2>5, ClusterChange
  <1>3. ASSUME NEW q \in Run, Writing(q)'
        PROVE  Ours(cand[q])'
    <2>1. CASE q # r
      <3>1. Writing(q) /\ cand'[q] = cand[q]
        BY <1>3, <2>1, StepFrame DEF Writing, TypeOK
      <3> QED
        BY <3>1, OursStable DEF ExistingInv, Ours
    <2>2. CASE q = r
      <3>1. cand'[r] = cand[r] /\ (Writing(r) \/ cand[r] \notin DOMAIN cluster')
        BY <1>3, <2>2, WritingStep DEF ExistingInv
      <3>2. CASE Writing(r)
        BY <2>2, <3>1, <3>2, OursStable DEF ExistingInv, Ours
      <3>3. CASE cand[r] \notin DOMAIN cluster'
        BY <2>2, <3>1, <3>3 DEF Ours
      <3> QED
        BY <3>1, <3>2, <3>3
    <2> QED
      BY <2>1, <2>2
  <1>4. ASSUME NEW q \in Run, NEW n \in 1..Len(restored'[q])
        PROVE  Ours(restored[q][n])'
    <2>1. CASE restored'[q] = restored[q]
      BY <1>4, <2>1, OursStable DEF ExistingInv, Ours
    <2>2. CASE restored'[q] = <<>>
      BY <1>4, <2>2
    <2>3. CASE q = r /\ restored'[r] = Append(restored[r], cand[r]) /\ Writing(r)
      <3>1. restored[r] \in Seq(Name)
        BY DEF TypeOK, RunTypeOK
      <3>2. \/ n \in 1..Len(restored[r]) /\ restored'[r][n] = restored[r][n]
            \/ restored'[r][n] = cand[r]
        BY <1>4, <2>3, <3>1
      <3>3. Ours(restored'[r][n])
        BY <2>3, <3>2 DEF ExistingInv
      <3> QED
        BY <2>3, <3>3, OursStable DEF Ours
    <2>4. q # r => restored'[q] = restored[q]
      BY StepFrame DEF TypeOK
    <2> QED
      BY <2>1, <2>2, <2>3, <2>4, RestoredStep
  <1> QED
    BY <1>1, <1>2, <1>3, <1>4 DEF ExistingInv

\* Ctrl-C is counted and never forgotten.
LEMMA InterruptsCounted ==
  ASSUME TypeOK, [Next]_vars, interrupts' = 0
  PROVE  interrupts = 0
  <1>1. interrupts \in Nat
    BY BoundsAssumption DEF TypeOK, RunTypeOK
  <1>2. interrupts' = interrupts \/ interrupts' = interrupts + 1
    BY DEF Next, Environment, RunStep, Decline, Start, FetchDump, FetchEmpty,
       FetchRaises, ProbeConnects, ProbeFails, Interrupted, CloseForDrop,
       DropSucceeds, DropFails, KeepExisting, Create, PgRestore, Open,
       RunQueries, MoveSequences, UpgradeWaits, UpgradeReturns, Close, Abort,
       Killed, LightDone, LightMissing, SyncSkips, SyncInstance, vars
  <1> QED
    BY <1>1, <1>2

KeptInv == interrupts = 0 => ExistingInv

\* While no connection is refused and nobody has pressed Ctrl-C, any number of
\* concurrent runs leave every database that was there before either dropped
\* (on demand, by OnlyTargetIsDropped) or exactly as it was.
THEOREM ExistingIsUntouched ==
  ASSUME CopiedName = {}
  PROVE  Spec => []ExistingUntouched
  <1>1. Init => KeptInv
    BY DEF Init, ClusterInit, KeptInv, ExistingInv, ExistingKept, Writing
  <1>2. IndInv /\ KeptInv /\ [Next]_vars => KeptInv'
    <2> SUFFICES ASSUME IndInv, KeptInv, [Next]_vars, interrupts' = 0
                 PROVE  ExistingInv'
      BY DEF KeptInv
    <2>0. ExistingInv
      BY InterruptsCounted DEF KeptInv, IndInv
    <2>1. CASE UNCHANGED vars
      BY <2>0, <2>1 DEF vars, clusterVars, loopVars, doneVars, ExistingInv,
                  ExistingKept, Writing, Ours
    <2>2. CASE Environment
      <3>1. UNCHANGED <<cluster, pc, cand, restored, refused>>
        BY <2>0, <2>2 DEF Environment, AppOpen, AppClose, Refuse, Terminate,
                    Accept, CopierClose, loopVars, doneVars, ExistingInv
      <3> QED
        BY <2>0, <3>1 DEF ExistingInv, ExistingKept, Writing, Ours
    <2>3. ASSUME NEW r \in Run, RunStep(r)
          PROVE  ExistingInv'
      BY <2>0, <2>3, ExistingStep DEF IndInv
    <2> QED
      BY <2>1, <2>2, <2>3 DEF Next
  <1>3. KeptInv => ExistingUntouched
    BY DEF KeptInv, ExistingInv, ExistingUntouched
  <1> QED
    BY InitIndInv, IndInvStep, <1>1, <1>2, <1>3, PTL DEF Spec

-----------------------------------------------------------------------------
(* One run alone, which nobody interrupts: no database holds two dumps,    *)
(* though dumps may share a name and another client uses the cluster.      *)

AtMostOneDump(db) == db.loads = {} \/ \E dump : db.loads = {dump}

FreshInv ==
  /\ refused = {}
  /\ \A name \in DOMAIN cluster : AtMostOneDump(cluster[name])
  /\ \A r \in Run : pc[r] = "createdb" => cand[r] \notin DOMAIN cluster
  /\ \A r \in Run : pc[r] = "pg_restore" /\ cand[r] \in DOMAIN cluster
                     => cluster[cand[r]].loads = {}

\* What a step does to the dumps that databases hold.
LEMMA LoadsChange ==
  ASSUME TypeOK, NEW r \in Run, RunStep(r)
  PROVE  \/ UNCHANGED cluster
         \/ DropDb(cand[r])
         \/ CreateDb(r, cand[r])
         \/ /\ pc[r] = "pg_restore" /\ cand[r] \in DOMAIN cluster
            /\ \E row \in {NoDb, Production}, extent \in {"part", "whole"} :
                 cluster' = [cluster EXCEPT ![cand[r]] =
                               Loaded(cluster[cand[r]], r, row, extent)]
         \/ /\ DOMAIN cluster' = DOMAIN cluster
            /\ \A name \in DOMAIN cluster : cluster'[name].loads = cluster[name].loads
  <1>1. \A name \in DOMAIN cluster : cluster[name] \in Database
    BY DEF TypeOK, ClusterTypeOK
  <1>2. CASE PgRestore(r)
    BY <1>2, LoadCases DEF PgRestore, Connectable, Exists
  <1>3. CASE RunQueries(r)
    <2>1. cand[r] \in DOMAIN cluster /\ cluster[cand[r]] \in Database
      BY <1>1, <1>3 DEF RunQueries, Connected, TypeOK, ClusterTypeOK
    <2>2. PICK server \in Name :
                        \/ cluster' = [cluster EXCEPT ![cand[r]] =
                                         Redirected(cluster[cand[r]], server)]
                        \/ UNCHANGED cluster
      BY <1>3 DEF RunQueries, TypeOK, RunTypeOK
    <2>3. Redirected(cluster[cand[r]], server).loads = cluster[cand[r]].loads
      BY <2>1, RedirectedFacts
    <2> QED
      BY <2>1, <2>2, <2>3
  <1>4. CASE MoveSequences(r)
    BY <1>1, <1>4 DEF MoveSequences, Database
  <1>5. CASE SyncInstance(r)
    BY <1>1, <1>5 DEF SyncInstance, Database
  <1>6. CASE DropSucceeds(r) \/ Create(r)
    BY <1>6 DEF DropSucceeds, Create
  <1> QED
    BY <1>2, <1>3, <1>4, <1>5, <1>6
    DEF RunStep, Decline, Start, FetchDump, FetchEmpty, FetchRaises,
       ProbeConnects, ProbeFails, Interrupted, CloseForDrop, DropFails,
       KeepExisting, Open, UpgradeWaits, UpgradeReturns, Close, Abort, Killed,
       LightDone, LightMissing, SyncSkips, clusterVars

\* Without Ctrl-C the loop is left when the name is free, and only pg_restore
\* follows createdb.
LEMMA LoopEnds ==
  ASSUME TypeOK, refused = {}, MaxInterrupts = 0, NEW r \in Run, RunStep(r)
  PROVE  /\ pc'[r] = "createdb" => cand'[r] \notin DOMAIN cluster'
         /\ pc'[r] = "pg_restore" => Create(r)
  <1>1. ~Interrupted(r) /\ ~Killed(r)
    BY BoundsAssumption DEF TypeOK, RunTypeOK, Interrupted, Killed
  <1>2. pc \in [Run -> PcType]
    BY DEF TypeOK, RunTypeOK
  <1>3. CASE ProbeFails(r)
    BY <1>2, <1>3 DEF ProbeFails, Connectable, Exists, clusterVars, loopVars, Goto
  <1>4. CASE DropSucceeds(r)
    BY <1>2, <1>4 DEF DropSucceeds, DropDb, loopVars, Goto
  <1>5. CASE UpgradeWaits(r)
    BY <1>2, <1>5 DEF UpgradeWaits
  <1>6. CASE SyncSkips(r) \/ SyncInstance(r)
    BY <1>2, <1>6 DEF SyncSkips, SyncInstance, NextInstance, Goto
  <1> QED
    BY <1>1, <1>2, <1>3, <1>4, <1>5, <1>6
    DEF RunStep, Decline, Start, FetchDump, FetchEmpty, FetchRaises,
       ProbeConnects, CloseForDrop, DropFails, KeepExisting, Create, PgRestore,
       Open, RunQueries, MoveSequences, UpgradeReturns, Close,
       Abort, LightDone, LightMissing, Goto, NextName, NextDump

LEMMA FreshStep ==
  ASSUME TypeOK, FreshInv, MaxInterrupts = 0,
         NEW r \in Run, Run = {r}, RunStep(r)
  PROVE  FreshInv'
  <1>1. refused' = {}
    BY DEF FreshInv, RunStep, Decline, Start, FetchDump, FetchEmpty,
       FetchRaises, ProbeConnects, ProbeFails, Interrupted, CloseForDrop,
       DropSucceeds, DropDb, DropFails, KeepExisting, Create, PgRestore, Open,
       RunQueries, MoveSequences, UpgradeWaits, UpgradeReturns, Close, Abort,
       Killed, LightDone, LightMissing, SyncSkips, SyncInstance, clusterVars
  <1>2. \A name \in DOMAIN cluster' : AtMostOneDump(cluster'[name])
    <2>1. CASE UNCHANGED cluster
      BY <2>1 DEF FreshInv
    <2>2. CASE DropDb(cand[r])
      BY <2>2 DEF FreshInv, DropDb
    <2>3. CASE CreateDb(r, cand[r])
      BY <2>3 DEF FreshInv, CreateDb, EmptyDb, AtMostOneDump
    <2>4. ASSUME pc[r] = "pg_restore", cand[r] \in DOMAIN cluster,
                 NEW row \in {NoDb, Production}, NEW extent \in {"part", "whole"},
                 cluster' = [cluster EXCEPT ![cand[r]] =
                               Loaded(cluster[cand[r]], r, row, extent)]
          PROVE  \A name \in DOMAIN cluster' : AtMostOneDump(cluster'[name])
      <3>1. cluster[cand[r]].loads = {} /\ cluster[cand[r]] \in Database
        BY <2>4 DEF FreshInv, TypeOK, ClusterTypeOK
      <3>2. Loaded(cluster[cand[r]], r, row, extent).loads = {<<r, k[r]>>}
        BY <3>1, LoadedFacts DEF TypeOK
      <3>3. AtMostOneDump(Loaded(cluster[cand[r]], r, row, extent))
        BY <3>2 DEF AtMostOneDump
      <3>4. cluster'[cand[r]] = Loaded(cluster[cand[r]], r, row, extent)
        BY <2>4
      <3>5. \A name \in DOMAIN cluster \ {cand[r]} : cluster'[name] = cluster[name]
        BY <2>4
      <3> QED
        BY <2>4, <3>3, <3>4, <3>5 DEF FreshInv
    <2>5. CASE /\ DOMAIN cluster' = DOMAIN cluster
               /\ \A name \in DOMAIN cluster : cluster'[name].loads = cluster[name].loads
      BY <2>5 DEF FreshInv, AtMostOneDump
    <2> QED
      BY <2>1, <2>2, <2>3, <2>4, <2>5, LoadsChange
  <1>3. pc'[r] = "createdb" => cand'[r] \notin DOMAIN cluster'
    BY LoopEnds DEF FreshInv
  <1>4. pc'[r] = "pg_restore" /\ cand'[r] \in DOMAIN cluster'
          => cluster'[cand'[r]].loads = {}
    <2> SUFFICES ASSUME pc'[r] = "pg_restore", cand'[r] \in DOMAIN cluster'
                 PROVE  cluster'[cand'[r]].loads = {}
      OBVIOUS
    <2>1. Create(r)
      BY LoopEnds DEF FreshInv
    <2>2. cand'[r] = cand[r] /\ cand[r] \notin DOMAIN cluster
      BY <2>1 DEF Create, loopVars, FreshInv
    <2>3. CreateDb(r, cand[r])
      BY <2>1, <2>2 DEF Create
    <2> QED
      BY <2>2, <2>3 DEF CreateDb, EmptyDb
  <1> QED
    BY <1>1, <1>2, <1>3, <1>4 DEF FreshInv

LEMMA FreshInvariant ==
  ASSUME CopiedName = {}, MaxInterrupts = 0, NEW r \in Run, Run = {r}
  PROVE  /\ Init => FreshInv
         /\ IndInv /\ FreshInv /\ [Next]_vars => FreshInv'
  <1>1. Init => FreshInv
    BY DEF Init, ClusterInit, FreshInv, AtMostOneDump, InService
  <1>2. IndInv /\ FreshInv /\ [Next]_vars => FreshInv'
    <2> SUFFICES ASSUME IndInv, FreshInv, [Next]_vars
                 PROVE  FreshInv'
      OBVIOUS
    <2>1. CASE UNCHANGED vars
      BY <2>1 DEF vars, clusterVars, loopVars, FreshInv
    <2>2. CASE Environment
      <3>1. UNCHANGED <<cluster, pc, cand, refused>>
        BY <2>2 DEF Environment, AppOpen, AppClose, Refuse, Terminate,
                    Accept, CopierClose, loopVars, FreshInv
      <3> QED
        BY <3>1 DEF FreshInv
    <2>3. CASE RunStep(r)
      BY <2>3, FreshStep DEF IndInv
    <2> QED
      BY <2>1, <2>2, <2>3 DEF Next
  <1> QED BY <1>1, <1>2

\* For any dumps, names and databases that are there, one run that nobody
\* interrupts, beside no copy_db.py, loads no dump into a database that holds
\* one (restore_dump.py3:437-458).  Two runs may: what they find free is not
\* theirs yet.
THEOREM OneDumpForOneRun ==
  ASSUME CopiedName = {}, MaxInterrupts = 0, NEW r \in Run, Run = {r}
  PROVE  Spec => []OneDumpPerDatabase
  <1>1. FreshInv => OneDumpPerDatabase
    <2> SUFFICES ASSUME FreshInv, NEW name \in DOMAIN cluster
                 PROVE  Cardinality(cluster[name].loads) <= 1
      BY DEF OneDumpPerDatabase
    <2>1. CASE cluster[name].loads = {}
      BY <2>1, FS_EmptySet
    <2>2. ASSUME NEW dump, cluster[name].loads = {dump}
          PROVE  Cardinality(cluster[name].loads) <= 1
      <3>1. Cardinality({dump}) = 1
        BY FS_Singleton
      <3> QED
        BY <2>2, <3>1
    <2> QED
      BY <2>1, <2>2 DEF FreshInv, AtMostOneDump
  <1> QED
    BY InitIndInv, IndInvStep, FreshInvariant, <1>1, PTL DEF Spec

-----------------------------------------------------------------------------
(* One run alone, which nobody interrupts: what it has prepared when it    *)
(* ends, and the servers its instances lead to.                            *)

\* Steps that neither change a database nor what the run has restored and knows.
Leaves(r) ==
  /\ UNCHANGED <<cluster, restored, reported, syncDb, serverDb>>
  /\ \/ pc'[r] \in {"sync", "done"} /\ ~InLight(r)
     \/ k'[r] = k[r]
     \/ pc'[r] = "fetch" /\ k'[r] = k[r] + 1 /\ ~InLight(r)
  /\ pc'[r] = "light_done" => InLight(r)
  /\ pc'[r] \in {"sync", "done"} => ~InLight(r)
  /\ \/ pc[r] = "start" /\ pc'[r] = "refused"
     \/ pc[r] \notin {"sync", "done"} /\ pc'[r] = "aborted"
     \/ /\ pc[r] \in {"fetch", "probe", "taken", "dropdb"}
        /\ pc'[r] \in {"probe", "taken", "dropdb"}
     \/ /\ cand'[r] = cand[r]
        /\ \/ pc[r] = "probe" /\ pc'[r] = "createdb"
           \/ pc[r] \in {"fetch", "close"} /\ pc'[r] \in {"light_done", "fetch", "sync", "done"}
           \/ pc[r] = "open" /\ pc'[r] = IF HasQueries(r) THEN "queries" ELSE "close"
           \/ pc[r] = "upgrade" /\ pc'[r] \in {"upgrade", "close"}

LEMMA RunSteps ==
  ASSUME TypeOK, MaxInterrupts = 0, NEW r \in Run, RunStep(r)
  PROVE  \/ Leaves(r) \/ Start(r) \/ DropSucceeds(r) \/ Create(r) \/ PgRestore(r)
         \/ RunQueries(r) \/ MoveSequences(r) \/ LightDone(r)
         \/ SyncSkips(r) \/ SyncInstance(r)
  <1>1. ~Interrupted(r) /\ ~Killed(r)
    BY BoundsAssumption DEF TypeOK, RunTypeOK, Interrupted, Killed
  <1>2. pc \in [Run -> PcType] /\ cand \in [Run -> Name] /\ k \in [Run -> Nat \ {0}]
    BY DEF TypeOK, RunTypeOK
  <1> USE DEF Leaves, Goto, clusterVars, loopVars, sqlVars, doneVars
  <1>3. CASE Decline(r) \/ FetchRaises(r) \/ Abort(r) \/ LightMissing(r)
    BY <1>2, <1>3 DEF Decline, FetchRaises, Abort, LightMissing
  <1>4. CASE FetchDump(r) \/ ProbeConnects(r) \/ CloseForDrop(r)
    BY <1>2, <1>4 DEF FetchDump, ProbeConnects, CloseForDrop
  <1>5. CASE DropFails(r) \/ KeepExisting(r)
    BY <1>2, <1>5 DEF DropFails, KeepExisting, NextName
  <1>6. CASE FetchEmpty(r) \/ Close(r)
    BY <1>2, <1>6 DEF FetchEmpty, Close, NextDump
  <1>7. CASE ProbeFails(r)
    BY <1>2, <1>7 DEF ProbeFails
  <1>8. CASE Open(r)
    BY <1>2, <1>8 DEF Open
  <1>9. CASE UpgradeWaits(r) \/ UpgradeReturns(r)
    BY <1>2, <1>9 DEF UpgradeWaits, UpgradeReturns
  <1> QED
    BY <1>1, <1>3, <1>4, <1>5, <1>6, <1>7, <1>8, <1>9 DEF RunStep

\* An error that was printed stays printed.
LEMMA ReportedGrows ==
  ASSUME TypeOK, MaxInterrupts = 0, NEW r \in Run, RunStep(r)
  PROVE  /\ reported[r] \subseteq reported'[r]
         /\ \A name : name # cand[r] /\ name \notin reported[r] => name \notin reported'[r]
  <1>1. reported \in [Run -> SUBSET Name]
    BY DEF TypeOK, RunTypeOK
  <1>2. CASE reported' = reported
    BY <1>2
  <1>3. CASE Reports(r)
    BY <1>1, <1>3 DEF Reports
  <1>4. reported' = reported \/ Reports(r)
    BY RunSteps
    DEF Leaves, Start, DropSucceeds, Create, PgRestore, Load, RunQueries,
        MoveSequences, LightDone, SyncSkips, SyncInstance, doneVars
  <1> QED
    BY <1>2, <1>3, <1>4

\* The database is the run's, holds tables, and its sequences have been moved;
\* without an error in the run's output it is whole and not on production.
Prepared(r, name) ==
  /\ name \in DOMAIN cluster
  /\ cluster[name].owner = r /\ HasTables(cluster[name]) /\ cluster[name].bumped
  /\ name \notin reported[r] =>
       cluster[name].extent = "whole" /\ (job[r].sql => cluster[name].server # Production)

Half == {"createdb", "pg_restore", "open", "queries", "sequences"}

\* How far the database that is being restored is prepared.
StageOf(r) ==
  LET db == cluster[cand[r]]
      silent == cand[r] \notin reported[r]
  IN  /\ pc[r] \in {"upgrade", "close"} => Prepared(r, cand[r])
      /\ pc[r] \in {"open", "queries", "sequences"} /\ silent => cand[r] \in DOMAIN cluster
      /\ cand[r] \in DOMAIN cluster =>
           /\ pc[r] = "pg_restore" => db = EmptyDb(r)
           /\ pc[r] \in {"open", "queries"} =>
                /\ db.owner = r /\ (IsServerDb(cand[r]) => db.server = NoDb)
                /\ silent => db.extent = "whole"
                /\ silent /\ ~IsServerDb(cand[r]) => db.server = Production
           /\ pc[r] = "sequences" =>
                /\ db.owner = r
                /\ silent => db.extent = "whole" /\ (job[r].sql => db.server # Production)

RestoredNames(r) == {restored[r][n] : n \in 1..Len(restored[r])}

PrepInv(r) ==
  HasQueries(r) /\ pc[r] # "aborted" =>
    /\ StageOf(r)
    /\ \A name \in RestoredNames(r) :
         (name = cand[r] /\ pc[r] \in Half) \/ Prepared(r, name)

LEMMA NamesStep ==
  ASSUME TypeOK, NEW r \in Run
  PROVE  /\ restored'[r] = restored[r] => RestoredNames(r)' = RestoredNames(r)
         /\ restored'[r] = <<>> => RestoredNames(r)' = {}
         /\ \A c : restored'[r] = Append(restored[r], c) =>
              RestoredNames(r)' = RestoredNames(r) \cup {c}
  <1>1. restored[r] \in Seq(Name)
    BY DEF TypeOK, RunTypeOK
  <1>2. ASSUME NEW c, restored'[r] = Append(restored[r], c)
        PROVE  RestoredNames(r)' = RestoredNames(r) \cup {c}
    <2>1. /\ Len(restored'[r]) = Len(restored[r]) + 1 /\ Len(restored[r]) \in Nat
          /\ restored'[r][Len(restored[r]) + 1] = c
          /\ \A n \in 1..Len(restored[r]) : restored'[r][n] = restored[r][n]
      BY <1>1, <1>2
    <2>2. ASSUME NEW x \in RestoredNames(r)' PROVE x \in RestoredNames(r) \cup {c}
      <3>1. PICK n \in 1..Len(restored'[r]) : x = restored'[r][n] BY <2>2 DEF RestoredNames
      <3> QED BY <2>1, <3>1 DEF RestoredNames
    <2>3. ASSUME NEW x \in RestoredNames(r) PROVE x \in RestoredNames(r)'
      <3>1. PICK n \in 1..Len(restored[r]) : x = restored[r][n] BY <2>3 DEF RestoredNames
      <3>2. n \in 1..Len(restored'[r]) /\ x = restored'[r][n] BY <2>1, <3>1
      <3> QED BY <3>2 DEF RestoredNames
    <2>4. c \in RestoredNames(r)'
      <3>1. Len(restored'[r]) \in 1..Len(restored'[r]) /\ restored'[r][Len(restored'[r])] = c
        BY <2>1
      <3> QED BY <3>1 DEF RestoredNames
    <2> QED BY <2>2, <2>3, <2>4
  <1>3. restored'[r] = <<>> => RestoredNames(r)' = {}
    BY DEF RestoredNames
  <1>4. restored'[r] = restored[r] => RestoredNames(r)' = RestoredNames(r)
    BY DEF RestoredNames
  <1> QED BY <1>2, <1>3, <1>4

LEMMA PreparedStays ==
  ASSUME NEW r \in Run, NEW name, Prepared(r, name), name \in DOMAIN cluster',
         job' = job, reported[r] \subseteq reported'[r],
         /\ cluster'[name].owner = cluster[name].owner
         /\ cluster'[name].extent = cluster[name].extent
         /\ cluster'[name].bumped = cluster[name].bumped
         /\ cluster'[name].server = cluster[name].server
  PROVE  Prepared(r, name)'
  BY DEF Prepared, HasTables

\* What a step writes into a database.
LEMMA CreateWrites ==
  ASSUME NEW r \in Run, Create(r), cand[r] \notin DOMAIN cluster
  PROVE  \/ cluster' = cluster /\ Reports(r)
         \/ /\ DOMAIN cluster' = DOMAIN cluster \cup {cand[r]}
            /\ cluster'[cand[r]] = EmptyDb(r)
            /\ \A name \in DOMAIN cluster : cluster'[name] = cluster[name]
  BY DEF Create, CreateDb, Exists

LEMMA DropWrites ==
  ASSUME NEW r \in Run, DropSucceeds(r)
  PROVE  /\ DOMAIN cluster' = DOMAIN cluster \ {cand[r]}
         /\ \A name \in DOMAIN cluster' : cluster'[name] = cluster[name]
  BY DEF DropSucceeds, DropDb

LEMMA RestoreWrites ==
  ASSUME TypeOK, NEW r \in Run, PgRestore(r)
  PROVE  /\ DOMAIN cluster' = DOMAIN cluster
         /\ \A name \in DOMAIN cluster \ {cand[r]} : cluster'[name] = cluster[name]
         /\ \/ cluster' = cluster /\ Reports(r)
            \/ /\ cand[r] \in DOMAIN cluster
               /\ cluster'[cand[r]].owner = cluster[cand[r]].owner
               /\ cluster'[cand[r]].linked = cluster[cand[r]].linked
               /\ IsServerDb(cand[r]) => cluster'[cand[r]].server = cluster[cand[r]].server
               /\ \/ Reports(r)
                  \/ /\ cluster'[cand[r]].extent = "whole"
                     /\ ~IsServerDb(cand[r]) /\ cluster[cand[r]].server = NoDb =>
                          cluster'[cand[r]].server = Production
  <1> DEFINE c == cand[r]
             db == cluster[c]
  <1>1. CASE cluster' = cluster /\ Reports(r)
    BY <1>1
  <1>2. ASSUME Connectable(r, c), NEW row \in {NoDb, DumpedRow(r)},
               NEW extent \in {"part", "whole"},
               cluster' = [cluster EXCEPT ![c] = Loaded(db, r, row, extent)],
               Reports(r) \/ (extent = "whole" /\ row = DumpedRow(r))
        PROVE  /\ DOMAIN cluster' = DOMAIN cluster
               /\ \A name \in DOMAIN cluster \ {c} : cluster'[name] = cluster[name]
               /\ c \in DOMAIN cluster
               /\ cluster'[c].owner = db.owner /\ cluster'[c].linked = db.linked
               /\ IsServerDb(c) => cluster'[c].server = db.server
               /\ \/ Reports(r)
                  \/ /\ cluster'[c].extent = "whole"
                     /\ ~IsServerDb(c) /\ db.server = NoDb => cluster'[c].server = Production
    <2>1. c \in DOMAIN cluster /\ db \in Database
      BY <1>2 DEF Connectable, Exists, TypeOK, ClusterTypeOK
    <2>2. row \in {NoDb, Production}
      BY <1>2 DEF DumpedRow
    <2> DEFINE new == Loaded(db, r, row, extent)
    <2>3. /\ new.owner = db.owner /\ new.linked = db.linked /\ new.extent = extent
          /\ new.server = IF db.server = NoDb THEN row ELSE db.server
      BY <2>1, <2>2, LoadedFacts DEF TypeOK
    <2>4. cluster' = [cluster EXCEPT ![c] = new]
      BY <1>2
    <2>5. DumpedRow(r) = IF IsServerDb(c) THEN NoDb ELSE Production
      BY DEF DumpedRow
    <2> HIDE DEF new, db, c
    <2>6. cluster'[c] = new /\ DOMAIN cluster' = DOMAIN cluster
          /\ \A name \in DOMAIN cluster \ {c} : cluster'[name] = cluster[name]
      BY <2>1, <2>4
    <2> QED
      BY <1>2, <2>1, <2>3, <2>5, <2>6
  <1>3. Load(r)
    BY DEF PgRestore
  <1> QED
    BY <1>1, <1>2, <1>3 DEF Load

LEMMA QueriesWrite ==
  ASSUME TypeOK, NEW r \in Run, RunQueries(r)
  PROVE  /\ DOMAIN cluster' = DOMAIN cluster
         /\ \A name \in DOMAIN cluster \ {cand[r]} : cluster'[name] = cluster[name]
         /\ cand[r] \in DOMAIN cluster
         /\ serverDb'[r] = IF IsServerDb(cand[r]) /\ syncDb[r] = NoDb
                           THEN cand[r] ELSE serverDb[r]
         /\ cluster'[cand[r]].owner = cluster[cand[r]].owner
         /\ cluster'[cand[r]].extent = cluster[cand[r]].extent
         /\ cluster'[cand[r]].linked = cluster[cand[r]].linked
         /\ \/ cluster' = cluster /\ (Reports(r) \/ ~SetsConnection(r))
            \/ /\ SetsConnection(r)
               /\ cluster'[cand[r]].server =
                    IF cluster[cand[r]].server = NoDb THEN NoDb ELSE serverDb'[r]
  <1> DEFINE server == IF IsServerDb(cand[r]) /\ syncDb[r] = NoDb
                       THEN cand[r] ELSE serverDb[r]
             new == Redirected(cluster[cand[r]], server)
  <1>1. serverDb'[r] = server /\ server \in Name
    BY DEF RunQueries, TypeOK, RunTypeOK
  <1>2. cand[r] \in DOMAIN cluster /\ cluster[cand[r]] \in Database
    BY DEF RunQueries, Connected, TypeOK, ClusterTypeOK
  <1>3. \/ SetsConnection(r) /\ cluster' = [cluster EXCEPT ![cand[r]] = new]
        \/ cluster' = cluster /\ (Reports(r) \/ ~SetsConnection(r))
    BY DEF RunQueries
  <1> HIDE DEF server
  <1>4. /\ new.owner = cluster[cand[r]].owner /\ new.extent = cluster[cand[r]].extent
        /\ new.linked = cluster[cand[r]].linked
        /\ new.server = IF cluster[cand[r]].server = NoDb THEN NoDb ELSE server
    BY <1>1, <1>2, RedirectedFacts
  <1> HIDE DEF new
  <1> QED
    BY <1>1, <1>2, <1>3, <1>4 DEF server

LEMMA SequencesWrite ==
  ASSUME TypeOK, NEW r \in Run, MoveSequences(r)
  PROVE  /\ DOMAIN cluster' = DOMAIN cluster
         /\ \A name \in DOMAIN cluster \ {cand[r]} : cluster'[name] = cluster[name]
         /\ cand[r] \in DOMAIN cluster /\ HasTables(cluster[cand[r]])
         /\ cluster'[cand[r]].owner = cluster[cand[r]].owner
         /\ cluster'[cand[r]].extent = cluster[cand[r]].extent
         /\ cluster'[cand[r]].linked = cluster[cand[r]].linked
         /\ cluster'[cand[r]].server = cluster[cand[r]].server
         /\ cluster'[cand[r]].bumped
  <1> DEFINE new == [cluster[cand[r]] EXCEPT !.bumped = TRUE]
  <1>1. cand[r] \in DOMAIN cluster /\ cluster[cand[r]] \in Database
    BY DEF MoveSequences, Connected, TypeOK, ClusterTypeOK
  <1>2. /\ new.owner = cluster[cand[r]].owner /\ new.extent = cluster[cand[r]].extent
        /\ new.linked = cluster[cand[r]].linked
        /\ new.server = cluster[cand[r]].server /\ new.bumped
    BY <1>1 DEF Database
  <1>3. cluster' = [cluster EXCEPT ![cand[r]] = new] /\ HasTables(cluster[cand[r]])
    BY DEF MoveSequences
  <1> HIDE DEF new
  <1> QED
    BY <1>1, <1>2, <1>3

LEMMA SyncWrites ==
  ASSUME TypeOK, NEW r \in Run, SyncInstance(r)
  PROVE  /\ DOMAIN cluster' = DOMAIN cluster
         /\ \A name \in DOMAIN cluster :
              /\ cluster'[name].owner = cluster[name].owner
              /\ cluster'[name].extent = cluster[name].extent
              /\ cluster'[name].bumped = cluster[name].bumped
              /\ cluster'[name].server = cluster[name].server
              /\ cluster'[name].linked =>
                   cluster[name].linked \/ name = restored[r][k[r]]
  <1> DEFINE db == restored[r][k[r]]
             new == [cluster[db] EXCEPT !.linked = TRUE]
  <1>1. CASE UNCHANGED cluster
    BY <1>1
  <1>2. CASE Exists(db) /\ cluster' = [cluster EXCEPT ![db] = new]
    <2>1. db \in DOMAIN cluster /\ cluster[db] \in Database
      BY <1>2 DEF Exists, TypeOK, ClusterTypeOK
    <2>2. /\ new.owner = cluster[db].owner /\ new.extent = cluster[db].extent
          /\ new.bumped = cluster[db].bumped /\ new.server = cluster[db].server
      BY <2>1 DEF Database
    <2> HIDE DEF new, db
    <2>3. /\ DOMAIN cluster' = DOMAIN cluster /\ cluster'[db] = new
          /\ \A name \in DOMAIN cluster \ {db} : cluster'[name] = cluster[name]
      BY <1>2, <2>1
    <2>4. ASSUME NEW name \in DOMAIN cluster
          PROVE  /\ cluster'[name].owner = cluster[name].owner
                 /\ cluster'[name].extent = cluster[name].extent
                 /\ cluster'[name].bumped = cluster[name].bumped
                 /\ cluster'[name].server = cluster[name].server
                 /\ cluster'[name].linked => cluster[name].linked \/ name = db
      BY <2>2, <2>3
    <2> QED
      BY <2>3, <2>4 DEF db
  <1> QED
    BY <1>1, <1>2 DEF SyncInstance

LEMMA PrepStep ==
  ASSUME TypeOK, FreshInv, FreshInv', MaxInterrupts = 0,
         NEW r \in Run, job' = job, PrepInv(r), RunStep(r)
  PROVE  PrepInv(r)'
  <1> SUFFICES ASSUME HasQueries(r), pc'[r] # "aborted"
               PROVE  /\ StageOf(r)'
                      /\ \A name \in RestoredNames(r)' :
                           \/ name = cand'[r] /\ pc'[r] \in Half
                           \/ Prepared(r, name)'
    BY DEF PrepInv, HasQueries
  <1>0. /\ pc \in [Run -> PcType] /\ restored \in [Run -> Seq(Name)] /\ cand \in [Run -> Name]
        /\ reported \in [Run -> SUBSET Name] /\ r # App
    BY ClusterAssumption DEF TypeOK, RunTypeOK
  <1> DEFINE c == cand[r]
             Rest(name) == (name = cand'[r] /\ pc'[r] \in Half) \/ Prepared(r, name)'
  <1>1. pc[r] # "aborted" => /\ StageOf(r)
                             /\ \A name \in RestoredNames(r) :
                                  (name = c /\ pc[r] \in Half) \/ Prepared(r, name)
    BY DEF PrepInv
  <1>g. reported[r] \subseteq reported'[r]
    BY ReportedGrows
  <1>2. ASSUME cluster' = cluster, NEW name, Prepared(r, name)
        PROVE  Prepared(r, name)'
    BY <1>2, <1>g, PreparedStays DEF Prepared
  \* the names other than the candidate, when a step writes only there
  <1>w. ASSUME \A name \in DOMAIN cluster \ {c} :
                 name \in DOMAIN cluster' /\ cluster'[name] = cluster[name],
               NEW name, name # c, Prepared(r, name)
        PROVE  Prepared(r, name)'
    BY <1>w, <1>g, PreparedStays DEF Prepared
  <1>3. CASE Leaves(r)
    <2>0. UNCHANGED <<cluster, restored, reported>> /\ pc[r] # "aborted"
      BY <1>0, <1>3 DEF Leaves
    <2>1. StageOf(r)'
      <3>1. CASE pc'[r] \in {"upgrade", "close"}
        <4>1. cand'[r] = cand[r] /\ pc[r] \in {"open", "upgrade"} /\ pc[r] = "upgrade"
          BY <1>0, <1>3, <3>1 DEF Leaves
        <4>2. Prepared(r, c) BY <1>1, <2>0, <4>1 DEF StageOf
        <4>3. \A name : Prepared(r, name) => Prepared(r, name)' BY <1>2, <2>0
        <4>4. Prepared(r, cand[r])' BY <4>1, <4>2, <4>3 DEF Prepared
        <4> QED BY <3>1, <4>4 DEF StageOf
      <3>2. CASE pc'[r] \notin {"upgrade", "close"}
        <4>1. /\ pc'[r] \notin {"pg_restore", "sequences", "open"}
              /\ pc'[r] = "queries" => pc[r] = "open" /\ cand'[r] = c
          BY <1>0, <1>3, <3>2 DEF Leaves
        <4> QED BY <1>1, <2>0, <3>2, <4>1 DEF StageOf
      <3> QED BY <3>1, <3>2
    <2>2. ASSUME NEW name \in RestoredNames(r)' PROVE Rest(name)
      <3>1. name \in RestoredNames(r) BY <2>0, <2>2, NamesStep
      <3>2. CASE Prepared(r, name) BY <1>2, <2>0, <3>2
      <3>3. CASE name = c /\ pc[r] \in Half
        BY <1>0, <1>3, <3>3 DEF Leaves, Half
      <3> QED BY <1>1, <2>0, <3>1, <3>2, <3>3
    <2> QED BY <2>1, <2>2
  <1>4. CASE Start(r) \/ SyncSkips(r)
    <2>1. /\ cluster' = cluster /\ restored' = restored
          /\ pc[r] \in {"start", "sync"} /\ pc'[r] \in {"fetch", "sync", "done"}
      BY <1>0, <1>4 DEF Start, SyncSkips, NextInstance, Goto, clusterVars, doneVars
    <2>2. StageOf(r)' BY <2>1 DEF StageOf
    <2>3. ASSUME NEW name \in RestoredNames(r)' PROVE Rest(name)
      BY NamesStep, <1>1, <1>2, <2>1, <2>3 DEF Half
    <2> QED BY <2>2, <2>3
  <1>5. CASE LightDone(r)
    <2>1. /\ cluster' = cluster /\ pc[r] = "light_done" /\ pc'[r] \in {"fetch", "done"}
          /\ restored'[r] = restored[r] \/ restored'[r] = <<>>
      BY <1>0, <1>5 DEF LightDone, Goto, clusterVars
    <2>2. StageOf(r)' BY <2>1 DEF StageOf
    <2>3. ASSUME NEW name \in RestoredNames(r)' PROVE Rest(name)
      BY NamesStep, <1>1, <1>2, <2>1, <2>3 DEF Half
    <2> QED BY <2>2, <2>3
  <1>6. CASE SyncInstance(r)
    <2>1. /\ restored' = restored /\ pc[r] = "sync" /\ pc'[r] \in {"sync", "done"}
      BY <1>0, <1>6 DEF SyncInstance, NextInstance, Goto, doneVars
    <2>2. StageOf(r)' BY <2>1 DEF StageOf
    <2>3. ASSUME NEW name, Prepared(r, name) PROVE Prepared(r, name)'
      <3>1. name \in DOMAIN cluster BY <2>3 DEF Prepared
      <3> QED BY <1>6, <1>g, <2>3, <3>1, SyncWrites, PreparedStays
    <2>4. ASSUME NEW name \in RestoredNames(r)' PROVE Rest(name)
      BY NamesStep, <1>1, <2>1, <2>3, <2>4 DEF Half
    <2> QED BY <2>2, <2>4
  <1>7. CASE DropSucceeds(r)
    <2>1. /\ restored' = restored /\ cand' = cand
          /\ pc[r] = "dropdb" /\ pc'[r] = "createdb"
      BY <1>0, <1>7 DEF DropSucceeds, Goto, doneVars, loopVars
    <2>2. StageOf(r)' BY <2>1 DEF StageOf
    <2>3. \A name \in DOMAIN cluster \ {c} :
            name \in DOMAIN cluster' /\ cluster'[name] = cluster[name]
      BY <1>7, DropWrites
    <2>4. ASSUME NEW name \in RestoredNames(r)' PROVE Rest(name)
      <3>1. Prepared(r, name) BY NamesStep, <1>1, <2>1, <2>4 DEF Half
      <3> QED BY <1>w, <2>1, <2>3, <3>1 DEF Half
    <2> QED BY <2>2, <2>4
  <1>8. CASE Create(r)
    <2>1. /\ restored' = restored /\ cand' = cand
          /\ pc[r] = "createdb" /\ pc'[r] = "pg_restore"
      BY <1>0, <1>8 DEF Create, Goto, doneVars, loopVars
    <2>2. c \notin DOMAIN cluster BY <2>1 DEF FreshInv
    <2>3. \/ cluster' = cluster
          \/ /\ DOMAIN cluster' = DOMAIN cluster \cup {c}
             /\ cluster'[c] = EmptyDb(r)
             /\ \A name \in DOMAIN cluster : cluster'[name] = cluster[name]
      BY <1>8, <2>2, CreateWrites
    <2>4. StageOf(r)' BY <2>1, <2>2, <2>3 DEF StageOf
    <2>5. ASSUME NEW name \in RestoredNames(r)' PROVE Rest(name)
      <3>1. name = c \/ Prepared(r, name) BY NamesStep, <1>1, <2>1, <2>5
      <3> QED BY <1>w, <2>1, <2>3, <3>1 DEF Half
    <2> QED BY <2>4, <2>5
  <1>9. CASE PgRestore(r)
    <2>1. /\ restored'[r] = Append(restored[r], c) /\ cand' = cand
          /\ pc[r] = "pg_restore" /\ pc'[r] = "open"
      BY <1>0, <1>9 DEF PgRestore, Goto, loopVars
    <2>2. /\ DOMAIN cluster' = DOMAIN cluster
          /\ \A name \in DOMAIN cluster \ {c} : cluster'[name] = cluster[name]
          /\ \/ cluster' = cluster /\ Reports(r)
             \/ /\ c \in DOMAIN cluster
                /\ cluster'[c].owner = cluster[c].owner
                /\ IsServerDb(c) => cluster'[c].server = cluster[c].server
                /\ \/ Reports(r)
                   \/ /\ cluster'[c].extent = "whole"
                      /\ ~IsServerDb(c) /\ cluster[c].server = NoDb =>
                           cluster'[c].server = Production
      BY <1>9, RestoreWrites
    <2>3. c \in DOMAIN cluster => cluster[c].owner = r /\ cluster[c].server = NoDb
      BY <1>1, <2>1 DEF StageOf, EmptyDb
    <2>r. Reports(r) => c \in reported'[r]
      BY <1>0 DEF Reports
    <2>4. StageOf(r)' BY <2>1, <2>2, <2>3, <2>r DEF StageOf
    <2>5. ASSUME NEW name \in RestoredNames(r)' PROVE Rest(name)
      <3>1. name = c \/ Prepared(r, name) BY NamesStep, <1>1, <2>1, <2>5
      <3> QED BY <1>w, <2>1, <2>2, <3>1 DEF Half
    <2> QED BY <2>4, <2>5
  <1>10. CASE RunQueries(r)
    <2>1. /\ restored' = restored /\ cand' = cand
          /\ pc[r] = "queries" /\ pc'[r] = "sequences"
      BY <1>0, <1>10 DEF RunQueries, Goto, loopVars, doneVars
    <2>2. /\ DOMAIN cluster' = DOMAIN cluster
          /\ \A name \in DOMAIN cluster \ {c} : cluster'[name] = cluster[name]
          /\ c \in DOMAIN cluster
          /\ cluster'[c].owner = cluster[c].owner
          /\ cluster'[c].extent = cluster[c].extent
          /\ \/ cluster' = cluster /\ (Reports(r) \/ ~SetsConnection(r))
             \/ cluster'[c].server = IF cluster[c].server = NoDb THEN NoDb ELSE serverDb'[r]
      BY <1>10, QueriesWrite
    <2>3. serverDb'[r] # Production /\ NoDb # Production
      <3>1. serverDb[r] \in Name /\ c \in Name BY <1>0 DEF TypeOK, RunTypeOK
      <3>2. serverDb'[r] \in {c, serverDb[r]}
        BY <1>10 DEF RunQueries, TypeOK, RunTypeOK
      <3> QED BY <3>1, <3>2, ClusterAssumption
    <2>4. /\ cluster[c].owner = r /\ (IsServerDb(c) => cluster[c].server = NoDb)
          /\ c \notin reported[r] => cluster[c].extent = "whole"
      BY <1>1, <2>1, <2>2 DEF StageOf
    <2>r. Reports(r) => c \in reported'[r]
      BY <1>0 DEF Reports
    <2>5. c \notin reported'[r] =>
            cluster'[c].extent = "whole" /\ (job[r].sql => cluster'[c].server # Production)
      <3> SUFFICES ASSUME c \notin reported'[r]
                   PROVE  cluster'[c].extent = "whole"
                          /\ (job[r].sql => cluster'[c].server # Production)
        OBVIOUS
      <3>1. c \notin reported[r] BY <1>g
      <3>2. CASE cluster' = cluster /\ ~SetsConnection(r)
        BY <2>3, <2>4, <3>1, <3>2 DEF SetsConnection
      <3>3. CASE cluster'[c].server = IF cluster[c].server = NoDb THEN NoDb ELSE serverDb'[r]
        BY <2>2, <2>3, <2>4, <3>1, <3>3
      <3> QED BY <2>2, <2>r, <3>2, <3>3
    <2>6. StageOf(r)'
      BY <2>1, <2>2, <2>4, <2>5 DEF StageOf
    <2>7. ASSUME NEW name \in RestoredNames(r)' PROVE Rest(name)
      <3>1. name = c \/ Prepared(r, name) BY NamesStep, <1>1, <2>1, <2>7
      <3> QED BY <1>w, <2>1, <2>2, <3>1 DEF Half
    <2> QED BY <2>6, <2>7
  <1>11. CASE MoveSequences(r)
    <2>1. /\ restored' = restored /\ cand' = cand /\ reported' = reported
          /\ pc[r] = "sequences" /\ pc'[r] \in {"upgrade", "close"}
      BY <1>0, <1>11 DEF MoveSequences, Goto, loopVars, doneVars
    <2>2. /\ DOMAIN cluster' = DOMAIN cluster
          /\ \A name \in DOMAIN cluster \ {c} : cluster'[name] = cluster[name]
          /\ c \in DOMAIN cluster /\ HasTables(cluster[c])
          /\ cluster'[c].owner = cluster[c].owner /\ cluster'[c].extent = cluster[c].extent
          /\ cluster'[c].server = cluster[c].server /\ cluster'[c].bumped
      BY <1>11, SequencesWrite
    <2>3. /\ cluster[c].owner = r
          /\ c \notin reported[r] =>
               cluster[c].extent = "whole" /\ (job[r].sql => cluster[c].server # Production)
      BY <1>1, <2>1, <2>2 DEF StageOf
    <2>4. Prepared(r, c)'
      BY <2>1, <2>2, <2>3 DEF Prepared, HasTables
    <2>5. StageOf(r)'
      <3>1. Prepared(r, cand[r])' BY <2>1, <2>4
      <3> QED BY <2>1, <3>1 DEF StageOf
    <2>6. ASSUME NEW name \in RestoredNames(r)' PROVE Rest(name)
      <3>1. name = c \/ Prepared(r, name) BY NamesStep, <1>1, <2>1, <2>6
      <3> QED BY <1>w, <2>1, <2>2, <2>4, <3>1
    <2> QED BY <2>5, <2>6
  <1> QED
    BY <1>3, <1>4, <1>5, <1>6, <1>7, <1>8, <1>9, <1>10, <1>11, RunSteps

\* A step of another client of the cluster, or none.
LEMMA NoRunStep ==
  ASSUME refused = {}, CopiedName = {}, Environment \/ UNCHANGED vars
  PROVE  UNCHANGED <<cluster, job, pc, k, cand, restored, reported, serverDb, syncDb>>
  BY DEF Environment, AppOpen, AppClose, Refuse, Terminate, Accept, CopierClose,
     loopVars, sqlVars, doneVars, clusterVars, vars

\* 'connect' is called by connect_and_sync() only, once every dump is restored.
LEMMA LinkedStep ==
  ASSUME TypeOK, PositionOK, FreshInv, MaxInterrupts = 0, NEW r \in Run, RunStep(r),
         NEW name \in DOMAIN cluster', cluster'[name].linked
  PROVE  \/ name \in DOMAIN cluster /\ cluster[name].linked
         \/ /\ pc[r] = "sync" /\ pc'[r] \in {"sync", "done"} /\ restored' = restored
            /\ name \in RestoredNames(r)
  <1>1. CASE PgRestore(r)
    BY <1>1, RestoreWrites
  <1>2. CASE RunQueries(r)
    BY <1>2, QueriesWrite
  <1>3. CASE MoveSequences(r)
    BY <1>3, SequencesWrite
  <1>4. CASE SyncInstance(r)
    <2>1. name \in DOMAIN cluster /\ (cluster[name].linked \/ name = restored[r][k[r]])
      BY <1>4, SyncWrites
    <2>2. /\ pc[r] = "sync" /\ pc'[r] \in {"sync", "done"} /\ restored' = restored
          /\ restored[r] # <<>>
      BY <1>4 DEF SyncInstance, NextInstance, Goto, doneVars, TypeOK, RunTypeOK
    <2>3. k[r] \in 1..Len(restored[r])
      BY <2>2 DEF PositionOK, PositionOf
    <2> QED BY <2>1, <2>2, <2>3 DEF RestoredNames
  <1>5. CASE DropSucceeds(r) BY <1>5, DropWrites
  <1>6. CASE Create(r)
    <2>1. cand[r] \notin DOMAIN cluster BY <1>6 DEF Create, FreshInv
    <2>2. ~EmptyDb(r).linked BY DEF EmptyDb
    <2> QED BY <1>6, <2>1, <2>2, CreateWrites
  <1>7. CASE cluster' = cluster BY <1>7
  <1> QED
    BY <1>1, <1>2, <1>3, <1>4, <1>5, <1>6, <1>7, RunSteps
    DEF Leaves, Start, LightDone, SyncSkips, clusterVars

LinkedInv(r) ==
  \A name \in DOMAIN cluster : cluster[name].linked =>
    pc[r] \in {"sync", "done"} /\ name \in RestoredNames(r)

LEMMA LinkedInvStep ==
  ASSUME TypeOK, PositionOK, FreshInv, MaxInterrupts = 0,
         NEW r \in Run, LinkedInv(r), RunStep(r)
  PROVE  LinkedInv(r)'
  <1> SUFFICES ASSUME NEW name \in DOMAIN cluster', cluster'[name].linked
               PROVE  pc'[r] \in {"sync", "done"} /\ name \in RestoredNames(r)'
    BY DEF LinkedInv
  <1>0. pc \in [Run -> PcType]
    BY DEF TypeOK, RunTypeOK
  <1>1. CASE name \in DOMAIN cluster /\ cluster[name].linked
    <2>1. pc[r] \in {"sync", "done"} /\ name \in RestoredNames(r)
      BY <1>1 DEF LinkedInv
    <2>2. SyncInstance(r) \/ SyncSkips(r)
      BY <1>0, <2>1, RunSteps
      DEF Leaves, Start, DropSucceeds, Create, PgRestore, RunQueries, MoveSequences, LightDone
    <2>3. restored' = restored /\ pc'[r] \in {"sync", "done"}
      BY <1>0, <2>1, <2>2 DEF SyncInstance, SyncSkips, NextInstance, Goto, doneVars
    <2> QED BY <2>1, <2>3, NamesStep
  <1> QED BY <1>1, LinkedStep, NamesStep

QuietInv(r) == PrepInv(r) /\ LinkedInv(r)

LEMMA QuietInvariant ==
  ASSUME CopiedName = {}, MaxInterrupts = 0, NEW r \in Run, Run = {r}
  PROVE  /\ Init => QuietInv(r)
         /\ IndInv /\ FreshInv /\ FreshInv' /\ QuietInv(r) /\ [Next]_vars => QuietInv(r)'
  <1>1. Init => QuietInv(r)
    <2> SUFFICES ASSUME Init PROVE QuietInv(r)
      OBVIOUS
    <2>1. /\ pc[r] = "start" /\ restored[r] = <<>>
          /\ \A name \in DOMAIN cluster : ~cluster[name].linked
      BY DEF Init, ClusterInit, InService
    <2>2. RestoredNames(r) = {}
      BY <2>1 DEF RestoredNames
    <2> QED
      BY <2>1, <2>2 DEF QuietInv, PrepInv, StageOf, LinkedInv
  <1>2. IndInv /\ FreshInv /\ FreshInv' /\ QuietInv(r) /\ [Next]_vars => QuietInv(r)'
    <2> SUFFICES ASSUME IndInv, FreshInv, FreshInv', QuietInv(r), [Next]_vars
                 PROVE  QuietInv(r)'
      OBVIOUS
    <2>1. CASE Environment \/ UNCHANGED vars
      <3>1. UNCHANGED <<cluster, job, pc, k, cand, restored, reported, serverDb, syncDb>>
        BY <2>1, NoRunStep DEF FreshInv
      <3>2. PrepInv(r) => PrepInv(r)'
        BY <3>1 DEF PrepInv, RestoredNames, StageOf, Prepared, HasQueries
      <3>3. LinkedInv(r) => LinkedInv(r)'
        BY <3>1 DEF LinkedInv, RestoredNames
      <3> QED BY <3>2, <3>3 DEF QuietInv
    <2>2. CASE RunStep(r)
      BY <2>2, JobConstant, PrepStep, LinkedInvStep DEF IndInv, QuietInv
    <2> QED BY <2>1, <2>2 DEF Next
  <1> QED BY <1>1, <1>2

\* One run that nobody interrupts has prepared all that it restored when it
\* ends, though a dump may drop the database of the one before it and createdb,
\* pg_restore and any query may fail: what went wrong is in its output.
THEOREM DoneIsPrepared ==
  ASSUME CopiedName = {}, MaxInterrupts = 0, NEW r \in Run, Run = {r}
  PROVE  Spec => []DoneMeansPrepared
  <1>1. QuietInv(r) => DoneMeansPrepared
    <2> SUFFICES ASSUME QuietInv(r), pc[r] \in {"sync", "done"}, HasQueries(r),
                        NEW n \in 1..Len(restored[r])
                 PROVE  Prepared(r, restored[r][n])
      BY DEF DoneMeansPrepared, Prepared, Exists, HasQueries
    <2>1. restored[r][n] \in RestoredNames(r) BY DEF RestoredNames
    <2> QED BY <2>1 DEF QuietInv, PrepInv, Half
  <1> QED
    BY InitIndInv, IndInvStep, FreshInvariant, QuietInvariant, <1>1, PTL DEF Spec

\* 'connect' reaches a production server only without sql or when the UPDATE of
\* the connection row was rolled back, or something before it went wrong, and
\* the run's output says so: for one run that nobody interrupts.
THEOREM ProductionLinkIsAnnounced ==
  ASSUME CopiedName = {}, MaxInterrupts = 0, NEW r \in Run, Run = {r}
  PROVE  Spec => []ProductionLinkAnnounced
  <1>1. QuietInv(r) => ProductionLinkAnnounced
    <2> SUFFICES ASSUME QuietInv(r), NEW name \in DOMAIN cluster,
                        cluster[name].linked, cluster[name].server = Production
                 PROVE  /\ \E n \in 1..Len(restored[r]) : restored[r][n] = name
                        /\ ~job[r].sql \/ name \in reported[r]
      BY DEF ProductionLinkAnnounced
    <2>1. pc[r] \in {"sync", "done"} /\ name \in RestoredNames(r)
      BY DEF QuietInv, LinkedInv
    <2>2. job[r].sql => Prepared(r, name)
      BY <2>1 DEF QuietInv, PrepInv, Half, HasQueries
    <2> QED BY <2>1, <2>2 DEF Prepared, RestoredNames
  <1> QED
    BY InitIndInv, IndInvStep, FreshInvariant, QuietInvariant, <1>1, PTL DEF Spec

-----------------------------------------------------------------------------
(* The sync servers that what the run restored leads to.                   *)

RestoredServers(r) == {name \in RestoredNames(r) : IsServerDb(name)}

Servers(r) == (RestoredServers(r) \cup {syncDb[r]}) \ {NoDb}

Instances(r) == {n \in 1..Len(restored[r]) : ~IsServerDb(restored[r][n])}

\* the run has not restored its light server yet
LightPhase(r) ==
  HasLight(r) /\ (pc[r] \in {"start", "light_done"} \/ (InLoop(r) /\ k[r] = 1))

\* restored[r][n] was restored when the run knew no server
Before(r, n) ==
  /\ IF HasLight(r) THEN syncDb[r] = NoDb ELSE job[r].syncDb = NoDb
  /\ \A m \in 1..n : ~IsServerDb(restored[r][m])

LeadsHome(r, n) ==
  \/ cluster[restored[r][n]].server \in Servers(r)
  \/ Before(r, n) /\ cluster[restored[r][n]].server = <<DefaultServer>>

\* server_db is the server given, or one that was restored: what the queries
\* write into an instance as soon as there is one, and SYNC_SERVER before.
ServerDbOf(r) ==
  /\ pc[r] = "start" => restored[r] = <<>>
  /\ HasLight(r) => (syncDb[r] = NoDb <=> LightPhase(r))
  /\ ~HasLight(r) /\ pc[r] # "start" =>
       \/ syncDb[r] = job[r].syncDb
       \/ job[r].syncDb = NoDb /\ syncDb[r] \in RestoredServers(r)
  /\ InLoop(r) =>
       /\ syncDb[r] # NoDb => serverDb[r] = syncDb[r]
       /\ syncDb[r] = NoDb =>
            \/ serverDb[r] \in RestoredServers(r)
            \/ serverDb[r] = <<DefaultServer>> /\ RestoredServers(r) = {}
            \/ pc[r] \in {"open", "queries"} /\ IsServerDb(cand[r])
  /\ pc[r] \in {"open", "queries", "sequences", "upgrade", "close"} =>
       cand[r] \in RestoredNames(r)

ConnectionOf(r) ==
  /\ ~IsServerDb(cand[r]) /\ cand[r] \notin reported[r]
  /\ pc[r] \in {"sequences", "upgrade", "close"} /\ cand[r] \in DOMAIN cluster
  => cluster[cand[r]].server = serverDb[r]

LinkInv(r) ==
  job[r].sql /\ pc[r] \notin {"refused", "aborted"} =>
    /\ ServerDbOf(r) /\ ConnectionOf(r)
    /\ \A n \in Instances(r) : restored[r][n] \notin reported[r] =>
         (restored[r][n] = cand[r] /\ pc[r] \in Half) \/ LeadsHome(r, n)

\* Frames for these definitions.
LEMMA LinkFrame ==
  ASSUME NEW r \in Run, restored'[r] = restored[r], job' = job
  PROVE  /\ RestoredServers(r)' = RestoredServers(r)
         /\ syncDb'[r] = syncDb[r] => Servers(r)' = Servers(r)
         /\ syncDb[r] = NoDb => Servers(r) \subseteq Servers(r)'
         /\ Instances(r)' = Instances(r)
         /\ \A n : ~HasLight(r) \/ syncDb'[r] = syncDb[r] =>
              (Before(r, n)' <=> Before(r, n))
         /\ \A n : Servers(r) \subseteq Servers(r)' /\ LeadsHome(r, n)
                   /\ (~HasLight(r) \/ syncDb'[r] = syncDb[r])
                   /\ cluster'[restored[r][n]].server = cluster[restored[r][n]].server
                     => LeadsHome(r, n)'
  <1>1. RestoredServers(r)' = RestoredServers(r)
    BY DEF RestoredServers, RestoredNames
  <1>2. /\ syncDb'[r] = syncDb[r] => Servers(r)' = Servers(r)
        /\ syncDb[r] = NoDb => Servers(r) \subseteq Servers(r)'
    BY <1>1 DEF Servers
  <1>3. Instances(r)' = Instances(r)
    BY DEF Instances
  <1>4. ASSUME NEW n, ~HasLight(r) \/ syncDb'[r] = syncDb[r]
        PROVE  Before(r, n)' <=> Before(r, n)
    BY <1>4 DEF Before, HasLight
  <1>5. ASSUME NEW n, Servers(r) \subseteq Servers(r)', LeadsHome(r, n),
               ~HasLight(r) \/ syncDb'[r] = syncDb[r],
               cluster'[restored[r][n]].server = cluster[restored[r][n]].server
        PROVE  LeadsHome(r, n)'
    <2>1. Before(r, n) => Before(r, n)' BY <1>4, <1>5
    <2>2. cluster'[restored'[r][n]].server = cluster[restored[r][n]].server BY <1>5
    <2>3. CASE cluster[restored[r][n]].server \in Servers(r)
      <3>1. cluster'[restored'[r][n]].server \in Servers(r)' BY <1>5, <2>2, <2>3
      <3> QED BY <3>1 DEF LeadsHome
    <2>4. CASE Before(r, n) /\ cluster[restored[r][n]].server = <<DefaultServer>>
      <3>1. Before(r, n)' /\ cluster'[restored'[r][n]].server = <<DefaultServer>>
        BY <2>1, <2>2, <2>4
      <3> QED BY <3>1 DEF LeadsHome
    <2>5. \/ cluster[restored[r][n]].server \in Servers(r)
          \/ Before(r, n) /\ cluster[restored[r][n]].server = <<DefaultServer>>
      BY <1>5 DEF LeadsHome
    <2> QED BY <2>3, <2>4, <2>5
  <1>6. \A n : ~HasLight(r) \/ syncDb'[r] = syncDb[r] => (Before(r, n)' <=> Before(r, n))
    BY <1>4
  <1>7. \A n : Servers(r) \subseteq Servers(r)' /\ LeadsHome(r, n)
               /\ (~HasLight(r) \/ syncDb'[r] = syncDb[r])
               /\ cluster'[restored[r][n]].server = cluster[restored[r][n]].server
                 => LeadsHome(r, n)'
    BY <1>5
  <1> QED BY <1>1, <1>2, <1>3, <1>6, <1>7

LEMMA LinkAppend ==
  ASSUME TypeOK, NEW r \in Run, NEW c \in Name, restored'[r] = Append(restored[r], c),
         syncDb' = syncDb, job' = job
  PROVE  /\ RestoredNames(r)' = RestoredNames(r) \cup {c}
         /\ RestoredServers(r)' = RestoredServers(r) \cup (IF IsServerDb(c) THEN {c} ELSE {})
         /\ Servers(r) \subseteq Servers(r)'
         /\ \A n \in Instances(r)' : restored'[r][n] # c =>
              /\ n \in Instances(r) /\ restored'[r][n] = restored[r][n]
              /\ Before(r, n) => Before(r, n)'
  <1>1. restored[r] \in Seq(Name)
    BY DEF TypeOK, RunTypeOK
  <1>2. RestoredNames(r)' = RestoredNames(r) \cup {c}
    BY NamesStep
  <1>3. RestoredServers(r)' = RestoredServers(r) \cup (IF IsServerDb(c) THEN {c} ELSE {})
    BY <1>2 DEF RestoredServers
  <1>4. Servers(r) \subseteq Servers(r)'
    BY <1>2 DEF Servers, RestoredServers
  <1>5. ASSUME NEW n \in Instances(r)', restored'[r][n] # c
        PROVE  /\ n \in Instances(r) /\ restored'[r][n] = restored[r][n]
               /\ Before(r, n) => Before(r, n)'
    <2>1. n \in 1..Len(restored'[r]) /\ ~IsServerDb(restored'[r][n])
      BY <1>5 DEF Instances
    <2>2. n \in 1..Len(restored[r]) /\ \A m \in 1..n : restored'[r][m] = restored[r][m]
      BY <1>1, <1>5, <2>1
    <2>3. Before(r, n) => Before(r, n)'
      BY <2>2 DEF Before, HasLight
    <2>4. n \in 1..n BY <2>2
    <2> QED BY <2>1, <2>2, <2>3, <2>4 DEF Instances
  <1> QED BY <1>2, <1>3, <1>4, <1>5

-----------------------------------------------------------------------------
\* No sync server comes after an instance.
ServersFirst(queue) ==
  \A a, b \in 1..Len(queue) : a < b /\ IsSyncDump(queue[b]) => IsSyncDump(queue[a])

Candidates == {"probe", "taken", "dropdb", "createdb", "pg_restore",
               "open", "queries", "sequences", "upgrade", "close"}

\* A server is restored from the dump of a server, and before any instance if
\* the queue has the servers first.
OrderInv(r) ==
  /\ pc[r] = "start" => restored[r] = <<>>
  /\ pc[r] \in Candidates =>
       (IsServerDb(cand[r]) <=> IsSyncDump(Queue(r)[k[r]]))
  /\ LightPhase(r) => Instances(r) = {}
  /\ ServersFirst(Queue(r)) =>
       /\ (InLoop(r) \/ pc[r] = "light_done") /\ IsSyncDump(Queue(r)[k[r]]) =>
            Instances(r) = {}
       /\ \A n \in Instances(r), m \in 1..Len(restored[r]) : n < m => m \in Instances(r)

LEMMA QueueOrdered ==
  ASSUME NEW r \in Run, job \in [Run -> Job]
  PROVE  /\ HasLight(r) => IsSyncDump(Queue(r)[1])
         /\ ServersFirst(GetDbs(job[r].transport, job[r].found)) => ServersFirst(Queue(r))
  <1> DEFINE j == job[r]
             light == IF HasLight(r) THEN <<LightFile>> ELSE <<>>
             main == IF j.syncOnly THEN <<>> ELSE GetDbs(j.transport, j.found)
  <1>1. j \in Job
    OBVIOUS
  <1>2. /\ main \in Seq(File)
        /\ ServersFirst(GetDbs(j.transport, j.found)) => ServersFirst(main)
    BY <1>1, OrderAssumption DEF ServersFirst
  <1>3. Queue(r) = light \o main
    BY DEF Queue
  <1>4. LightFile \in File /\ IsSyncDump(LightFile)
    BY FilesAssumption DEF IsSyncDump, IsServerDb
  <1> HIDE DEF main
  <1>5. CASE HasLight(r)
    <2>1. /\ Len(Queue(r)) = Len(main) + 1 /\ Queue(r)[1] = LightFile /\ Len(main) \in Nat
          /\ \A a \in 2..Len(Queue(r)) : Queue(r)[a] = main[a - 1]
      BY <1>2, <1>3, <1>4, <1>5
    <2>2. ASSUME ServersFirst(main),
                 NEW a \in 1..Len(Queue(r)), NEW b \in 1..Len(Queue(r)), a < b,
                 IsSyncDump(Queue(r)[b])
          PROVE  IsSyncDump(Queue(r)[a])
      <3>1. CASE a = 1 BY <1>4, <2>1, <3>1
      <3>2. CASE a # 1
        <4>1. a - 1 \in 1..Len(main) /\ b - 1 \in 1..Len(main) /\ a - 1 < b - 1
          BY <2>1, <2>2, <3>2
        <4>2. Queue(r)[a] = main[a - 1] /\ Queue(r)[b] = main[b - 1]
          BY <2>1, <2>2, <3>2
        <4> QED BY <2>2, <4>1, <4>2 DEF ServersFirst
      <3> QED BY <3>1, <3>2
    <2>3. ServersFirst(main) => ServersFirst(Queue(r)) BY <2>2 DEF ServersFirst
    <2> QED BY <1>2, <1>4, <2>1, <2>3
  <1>6. CASE ~HasLight(r)
    <2>1. Queue(r) = main BY <1>2, <1>3, <1>6
    <2> QED BY <1>2, <1>6, <2>1
  <1> QED BY <1>5, <1>6

\* The names a run tries for a dump keep the stem of the dump's own name.
LEMMA CandidateStep ==
  ASSUME TypeOK, PositionOK, NEW r \in Run, RunStep(r), MaxInterrupts = 0,
         pc'[r] \in Candidates
  PROVE  /\ InLoop(r) /\ k'[r] = k[r]
         /\ \/ pc[r] \in Candidates /\ cand'[r] = cand[r]
            \/ IsServerDb(cand'[r]) <=> IsSyncDump(Queue(r)[k[r]])
  <1>1. pc \in [Run -> PcType] /\ cand \in [Run -> Name] /\ k \in [Run -> Nat \ {0}]
    BY DEF TypeOK, RunTypeOK
  <1> DEFINE Named == \/ pc[r] \in Candidates /\ cand'[r] = cand[r]
                      \/ cand'[r] = Target(r)
                      \/ cand'[r] = Suffixed(Target(r), suffix[r])
  <1>2. InLoop(r) /\ k'[r] = k[r] /\ Named
    <2> HIDE DEF Named
    <2>1. CASE FetchDump(r)
      BY <1>1, <2>1 DEF FetchDump, Goto, InLoop, Named
    <2>2. CASE DropFails(r) \/ KeepExisting(r)
      BY <1>1, <2>2 DEF DropFails, KeepExisting, NextName, Goto, InLoop, Named
    <2>3. CASE ProbeConnects(r) \/ ProbeFails(r) \/ CloseForDrop(r) \/ DropSucceeds(r)
      BY <1>1, <2>3
      DEF ProbeConnects, ProbeFails, CloseForDrop, DropSucceeds, Goto, InLoop,
          Candidates, loopVars, Named
    <2>4. CASE Create(r) \/ PgRestore(r) \/ Open(r)
      BY <1>1, <2>4 DEF Create, PgRestore, Open, Goto, InLoop, Candidates, loopVars, Named
    <2>5. CASE RunQueries(r) \/ MoveSequences(r)
      BY <1>1, <2>5 DEF RunQueries, MoveSequences, Goto, InLoop, Candidates, loopVars, Named
    <2>6. CASE UpgradeWaits(r) \/ UpgradeReturns(r)
      BY <1>1, <2>6 DEF UpgradeWaits, UpgradeReturns, Goto, InLoop, Candidates, loopVars, Named
    <2>7. CASE Decline(r) \/ FetchRaises(r) \/ Abort(r) \/ LightMissing(r) \/ Start(r)
      BY <1>1, <2>7 DEF Decline, FetchRaises, Abort, LightMissing, Start, Goto, Candidates
    <2>8. CASE FetchEmpty(r) \/ Close(r)
      BY <1>1, <2>8 DEF FetchEmpty, Close, NextDump, Goto, Candidates
    <2>9. CASE LightDone(r) \/ SyncSkips(r) \/ SyncInstance(r)
      BY <1>1, <2>9 DEF LightDone, SyncSkips, SyncInstance, NextInstance, Goto, Candidates
    <2>10. ~Interrupted(r) /\ ~Killed(r)
      BY BoundsAssumption DEF TypeOK, RunTypeOK, Interrupted, Killed
    <2> QED
      BY <2>1, <2>2, <2>3, <2>4, <2>5, <2>6, <2>7, <2>8, <2>9, <2>10 DEF RunStep
  <1>3. Target(r) \in Name /\ \A i : Suffixed(Target(r), i)[1] = Target(r)[1]
    <2>1. Target(r) \in Name
      BY <1>2, TargetType DEF TypeOK, RunTypeOK, PositionOK, PositionOf
    <2> QED BY <2>1 DEF Name, Suffixed
  <1>4. IsServerDb(Target(r)) <=> IsSyncDump(Queue(r)[k[r]])
    BY DEF Target, IsSyncDump
  <1> QED BY <1>2, <1>3, <1>4 DEF IsServerDb

LEMMA OrderStep ==
  ASSUME TypeOK, PositionOK, PositionOK', NEW r \in Run, RunStep(r), MaxInterrupts = 0,
         job' = job, OrderInv(r)
  PROVE  OrderInv(r)'
  <1>0. /\ pc \in [Run -> PcType] /\ restored \in [Run -> Seq(Name)] /\ cand \in [Run -> Name]
        /\ k \in [Run -> Nat \ {0}] /\ job \in [Run -> Job]
    BY DEF TypeOK, RunTypeOK
  <1>q. Queue(r)' = Queue(r) /\ HasLight(r)' = HasLight(r)
    BY QueueConstant
  <1>o. /\ HasLight(r) => IsSyncDump(Queue(r)[1])
        /\ Queue(r) \in Seq(File)
    BY <1>0, QueueOrdered, QueueFacts
  <1> DEFINE Sync(n) == IsSyncDump(Queue(r)[n])
             Looping == InLoop(r) \/ pc[r] = "light_done"
             First == ServersFirst(Queue(r))
  <1>1. ASSUME pc'[r] \in Candidates
        PROVE  IsServerDb(cand'[r]) <=> Sync(k'[r])
    BY <1>1, CandidateStep DEF OrderInv
  <1>2. /\ pc[r] = "start" => restored[r] = <<>>
        /\ LightPhase(r) => Instances(r) = {}
        /\ First /\ Looping /\ Sync(k[r]) => Instances(r) = {}
        /\ First => \A n \in Instances(r), m \in 1..Len(restored[r]) :
                      n < m => m \in Instances(r)
    BY DEF OrderInv
  <1> SUFFICES /\ pc'[r] # "start"
               /\ LightPhase(r)' => Instances(r)' = {}
               /\ First /\ Looping' /\ Sync(k'[r]) => Instances(r)' = {}
               /\ First => \A n \in Instances(r)', m \in 1..Len(restored'[r]) :
                             n < m => m \in Instances(r)'
    BY <1>1, <1>q DEF OrderInv
  <1>f. First => \A a, b \in 1..Len(Queue(r)) : a < b /\ Sync(b) => Sync(a)
    BY DEF ServersFirst
  <1> HIDE DEF Sync, First
  \* a step that appends nothing and stays with the dump or goes on
  <1>3. ASSUME restored' = restored, pc'[r] # "start", pc[r] # "start",
               LightPhase(r)' => LightPhase(r),
               Looping' => /\ Looping
                           /\ k'[r] = k[r] \/ (k'[r] = k[r] + 1 /\ InLoop(r) /\ InLoop(r)')
        PROVE  /\ pc'[r] # "start"
               /\ LightPhase(r)' => Instances(r)' = {}
               /\ First /\ Looping' /\ Sync(k'[r]) => Instances(r)' = {}
               /\ First => \A n \in Instances(r)', m \in 1..Len(restored'[r]) :
                             n < m => m \in Instances(r)'
    <2>1. Instances(r)' = Instances(r)
      BY <1>3 DEF Instances
    <2>2. ASSUME First, Looping', Sync(k'[r]) PROVE Instances(r) = {}
      <3>1. CASE k'[r] = k[r] BY <1>2, <1>3, <2>2, <3>1
      <3>2. CASE k'[r] = k[r] + 1 /\ InLoop(r) /\ InLoop(r)'
        <4>1. k[r] \in 1..Len(Queue(r)) /\ k'[r] \in 1..Len(Queue(r))
          BY <1>q, <3>2 DEF PositionOK, PositionOf
        <4>2. k[r] < k'[r] BY <3>2, <4>1
        <4>3. Sync(k[r]) BY <1>f, <2>2, <4>1, <4>2
        <4> QED BY <1>2, <2>2, <3>2, <4>3
      <3> QED BY <1>3, <2>2, <3>1, <3>2
    <2>3. LightPhase(r)' => Instances(r) = {} BY <1>2, <1>3
    <2> QED BY <1>2, <1>3, <2>1, <2>2, <2>3
  <1>4. CASE Leaves(r)
    <2>1. CASE pc[r] = "start"
      <3>1. Instances(r)' = {} /\ restored'[r] = <<>>
        BY <1>2, <1>4, <2>1 DEF Leaves, Instances
      <3> QED BY <1>0, <1>4, <2>1, <3>1 DEF Leaves
    <2>2. CASE pc[r] # "start"
      <3>1. restored' = restored /\ pc'[r] # "start"
        BY <1>0, <1>4, <2>2 DEF Leaves
      <3>2. Looping' => Looping /\ (k'[r] = k[r] \/ (k'[r] = k[r] + 1 /\ InLoop(r) /\ InLoop(r)'))
        BY <1>0, <1>4, <2>2 DEF Leaves, InLoop
      <3>3. LightPhase(r)' => LightPhase(r)
        BY <1>0, <1>4, <1>q, <2>2, <3>1 DEF Leaves, InLoop, LightPhase, InLight
      <3> QED BY <1>3, <2>2, <3>1, <3>2, <3>3
    <2> QED BY <2>1, <2>2
  <1>5. CASE Start(r)
    <2>1. pc[r] = "start" /\ pc'[r] = "fetch" /\ restored' = restored
      BY <1>0, <1>5 DEF Start, Goto, doneVars
    <2>2. restored'[r] = <<>> /\ Instances(r)' = {} BY <1>2, <2>1 DEF Instances
    <2> QED BY <2>1, <2>2
  <1>6. CASE LightDone(r)
    <2>1. /\ pc[r] = "light_done" /\ pc'[r] \in {"fetch", "done"}
          /\ \/ restored' = restored /\ pc'[r] = "done"
             \/ restored'[r] = <<>>
      BY <1>0, <1>6 DEF LightDone, Goto
    <2>2. CASE restored' = restored /\ pc'[r] = "done"
      BY <1>3, <2>1, <2>2 DEF InLoop, LightPhase
    <2>3. CASE restored'[r] = <<>>
      <3>1. Instances(r)' = {} BY <2>3 DEF Instances
      <3> QED BY <2>1, <2>3, <3>1
    <2> QED BY <2>1, <2>2, <2>3
  <1>7. CASE SyncSkips(r) \/ SyncInstance(r)
    <2>1. pc[r] = "sync" /\ pc'[r] \in {"sync", "done"} /\ restored' = restored
      BY <1>0, <1>7 DEF SyncSkips, SyncInstance, NextInstance, Goto, doneVars
    <2> QED BY <1>3, <2>1 DEF InLoop, LightPhase
  <1>8. CASE DropSucceeds(r) \/ Create(r)
    <2>1. /\ pc[r] \in {"dropdb", "createdb"} /\ pc'[r] \in {"createdb", "pg_restore"}
          /\ restored' = restored /\ k' = k
      BY <1>0, <1>8 DEF DropSucceeds, Create, Goto, doneVars
    <2> QED BY <1>3, <1>q, <2>1 DEF InLoop, LightPhase
  <1>9. CASE RunQueries(r) \/ MoveSequences(r)
    <2>1. /\ pc[r] \in {"queries", "sequences"} /\ pc'[r] \in {"sequences", "upgrade", "close"}
          /\ restored' = restored /\ k' = k
      BY <1>0, <1>9 DEF RunQueries, MoveSequences, Goto, doneVars
    <2> QED BY <1>3, <1>q, <2>1 DEF InLoop, LightPhase
  <1>10. CASE PgRestore(r)
    <2> DEFINE c == cand[r]
               s == restored[r]
    <2>1. /\ restored'[r] = Append(s, c) /\ k' = k
          /\ pc[r] = "pg_restore" /\ pc'[r] = "open"
      BY <1>0, <1>10 DEF PgRestore, Goto
    <2>2. IsServerDb(c) <=> Sync(k[r])
      BY <2>1 DEF OrderInv, Candidates, Sync
    <2>3. s \in Seq(Name) /\ c \in Name BY <1>0
    <2>4. Looping /\ (First /\ Sync(k[r]) => Instances(r) = {})
      BY <1>2, <2>1 DEF InLoop
    <2>l. LightPhase(r)' => LightPhase(r) /\ k[r] = 1 /\ Sync(k[r])
      BY <1>o, <1>q, <2>1 DEF LightPhase, InLoop, Sync
    <2> HIDE DEF c, s
    <2>5. /\ Len(restored'[r]) = Len(s) + 1 /\ Len(s) \in Nat
          /\ restored'[r][Len(s) + 1] = c
          /\ \A n \in 1..Len(s) : restored'[r][n] = s[n]
      BY <2>1, <2>3
    <2>6. Instances(r)' = Instances(r) \cup (IF IsServerDb(c) THEN {} ELSE {Len(s) + 1})
      <3>1. Instances(r) = {n \in 1..Len(s) : ~IsServerDb(s[n])} BY DEF Instances, s
      <3>2. Instances(r)' = {n \in 1..(Len(s) + 1) : ~IsServerDb(restored'[r][n])}
        BY <2>5 DEF Instances
      <3>3. ASSUME NEW n \in 1..(Len(s) + 1)
            PROVE  n \in Instances(r)' <=> n \in Instances(r) \/ (~IsServerDb(c) /\ n = Len(s) + 1)
        <4>1. CASE n = Len(s) + 1
          <5>1. n \notin 1..Len(s) BY <2>5, <4>1
          <5> QED BY <2>5, <3>1, <3>2, <4>1, <5>1
        <4>2. CASE n # Len(s) + 1
          <5>1. n \in 1..Len(s) BY <2>5, <3>3, <4>2
          <5> QED BY <2>5, <3>1, <3>2, <3>3, <4>2, <5>1
        <4> QED BY <4>1, <4>2
      <3>4. /\ Instances(r) \subseteq 1..(Len(s) + 1) /\ Len(s) + 1 \in 1..(Len(s) + 1)
            /\ Instances(r)' \subseteq 1..(Len(s) + 1)
        BY <2>5, <3>1, <3>2
      <3> QED BY <3>3, <3>4
    <2>7. First /\ Sync(k'[r]) => Instances(r)' = {}
      BY <2>1, <2>2, <2>4, <2>6
    <2>m. LightPhase(r)' => Instances(r)' = {}
      BY <1>2, <2>2, <2>6, <2>l
    <2>8. ASSUME First, NEW n \in Instances(r)', NEW m \in 1..Len(restored'[r]), n < m
          PROVE  m \in Instances(r)'
      <3>1. CASE IsServerDb(c) BY <2>1, <2>2, <2>7, <2>8, <3>1
      <3>2. CASE ~IsServerDb(c)
        <4>1. CASE m = Len(s) + 1 BY <2>6, <3>2, <4>1
        <4>2. CASE m # Len(s) + 1
          <5>1. m \in 1..Len(s) BY <2>5, <2>8, <4>2
          <5>2. n \in Instances(r) BY <2>5, <2>6, <2>8, <5>1
          <5> QED BY <1>2, <2>6, <2>8, <5>1, <5>2 DEF s
        <4> QED BY <4>1, <4>2
      <3> QED BY <3>1, <3>2
    <2> QED BY <2>1, <2>7, <2>8, <2>m
  <1> QED
    BY <1>4, <1>5, <1>6, <1>7, <1>8, <1>9, <1>10, RunSteps

LEMMA LinkStep ==
  ASSUME TypeOK, PositionOK, FreshInv, FreshInv', MaxInterrupts = 0,
         NEW r \in Run, job' = job, PrepInv(r), OrderInv(r), LinkInv(r), RunStep(r)
  PROVE  LinkInv(r)'
  <1> SUFFICES ASSUME job[r].sql, pc'[r] \notin {"refused", "aborted"}
               PROVE  /\ ServerDbOf(r)' /\ ConnectionOf(r)'
                      /\ \A n \in Instances(r)' : restored'[r][n] \notin reported'[r] =>
                           \/ restored'[r][n] = cand'[r] /\ pc'[r] \in Half
                           \/ LeadsHome(r, n)'
    BY DEF LinkInv
  <1> DEFINE c == cand[r]
             Held(n) == \/ restored'[r][n] = cand'[r] /\ pc'[r] \in Half
                        \/ LeadsHome(r, n)'
             Silent(n) == restored'[r][n] \notin reported'[r]
  <1>0. /\ pc \in [Run -> PcType] /\ restored \in [Run -> Seq(Name)] /\ cand \in [Run -> Name]
        /\ serverDb \in [Run -> Name] /\ syncDb \in [Run -> Name \cup {NoDb}]
        /\ k \in [Run -> Nat \ {0}] /\ c \in Name /\ reported \in [Run -> SUBSET Name]
        /\ r # App /\ HasQueries(r) /\ NoDb \notin Name
    BY ClusterAssumption, NamesAssumption DEF TypeOK, RunTypeOK, HasQueries
  <1>1. pc[r] \notin {"refused", "aborted"} =>
          /\ ServerDbOf(r) /\ ConnectionOf(r)
          /\ \A n \in Instances(r) : restored[r][n] \notin reported[r] =>
               (restored[r][n] = c /\ pc[r] \in Half) \/ LeadsHome(r, n)
    BY DEF LinkInv
  <1>2. pc[r] \notin {"refused", "aborted"} =>
          \A n \in Instances(r) :
            (restored[r][n] = c /\ pc[r] \in Half) \/ restored[r][n] \in DOMAIN cluster
    <2> SUFFICES ASSUME pc[r] \notin {"refused", "aborted"}, NEW n \in Instances(r)
                 PROVE  (restored[r][n] = c /\ pc[r] \in Half) \/ restored[r][n] \in DOMAIN cluster
      OBVIOUS
    <2>1. restored[r][n] \in RestoredNames(r)
      BY DEF Instances, RestoredNames
    <2> QED BY <1>0, <2>1 DEF PrepInv, Prepared
  <1>h. HasLight(r)' = HasLight(r) /\ (HasLight(r)' <=> HasLight(r))
    BY DEF HasLight
  <1>g. reported[r] \subseteq reported'[r]
    BY ReportedGrows
  \* a step that appends nothing, learns of no server, and writes into the candidate only
  <1>k. ASSUME restored' = restored, syncDb' = syncDb, cand' = cand, pc[r] \in Half \cup {"dropdb"},
               pc[r] \notin {"refused", "aborted"},
               \A name \in DOMAIN cluster \ {c} :
                 name \in DOMAIN cluster' /\ cluster'[name] = cluster[name],
               NEW n \in Instances(r)', Silent(n), restored[r][n] # c
        PROVE  LeadsHome(r, n)'
    <2>1. n \in Instances(r) /\ restored[r][n] \notin reported[r]
      BY <1>k, <1>g, LinkFrame
    <2>2. LeadsHome(r, n) BY <1>1, <1>k, <2>1
    <2>3. cluster'[restored[r][n]].server = cluster[restored[r][n]].server
      BY <1>2, <1>k, <2>1
    <2>4. Servers(r)' = Servers(r) BY <1>k, LinkFrame
    <2> QED BY <1>k, <2>2, <2>3, <2>4, LinkFrame
  <1>3. CASE Leaves(r)
    <2>1. /\ UNCHANGED <<cluster, restored, reported, syncDb, serverDb>>
          /\ pc[r] \notin {"refused", "aborted", "start"}
      BY <1>0, <1>3 DEF Leaves
    <2>p. LightPhase(r)' <=> LightPhase(r)
      <3>1. CASE LightPhase(r)'
        BY <1>0, <1>h, <1>3, <2>1, <3>1 DEF Leaves, LightPhase, InLoop, InLight
      <3>2. CASE LightPhase(r)
        BY <1>0, <1>h, <1>3, <2>1, <3>2 DEF Leaves, LightPhase, InLoop, InLight
      <3> QED BY <3>1, <3>2
    <2>2. ServerDbOf(r)'
      <3>2. RestoredServers(r)' = RestoredServers(r) /\ RestoredNames(r)' = RestoredNames(r)
        BY <2>1, LinkFrame, NamesStep
      <3>3. InLoop(r)' => InLoop(r)
        BY <1>0, <1>3, <2>1 DEF Leaves, InLoop
      <3>4. pc'[r] \in {"open", "queries", "sequences", "upgrade", "close"} =>
              /\ pc[r] \in {"open", "upgrade"} /\ cand'[r] = cand[r]
              /\ pc[r] = "open" => pc'[r] = "queries"
        BY <1>0, <1>3 DEF Leaves
      <3>5. pc'[r] # "start" BY <1>0, <1>3 DEF Leaves
      <3>6. pc[r] \in {"open", "queries"} => pc'[r] = "queries" /\ cand'[r] = cand[r]
        BY <1>0, <1>3, <2>1 DEF Leaves
      <3> QED BY <1>h, <1>1, <2>1, <2>p, <3>2, <3>3, <3>4, <3>5, <3>6 DEF ServerDbOf
    <2>3. ConnectionOf(r)'
      BY <1>0, <1>1, <1>3, <2>1 DEF Leaves, ConnectionOf
    <2>4. ASSUME NEW n \in Instances(r)', Silent(n) PROVE Held(n)
      <3>1. /\ n \in Instances(r) /\ restored[r][n] \notin reported[r]
            /\ LeadsHome(r, n) => LeadsHome(r, n)'
        BY <2>1, <2>4, LinkFrame
      <3>3. (restored[r][n] = c /\ pc[r] \in Half) \/ LeadsHome(r, n)
        BY <1>1, <2>1, <3>1
      <3>4. CASE restored[r][n] = c /\ pc[r] \in Half
        BY <1>0, <1>3, <2>1, <3>4 DEF Leaves, Half
      <3> QED BY <3>1, <3>3, <3>4
    <2> QED BY <2>2, <2>3, <2>4
  <1>4. CASE Start(r)
    <2>1. /\ pc[r] = "start" /\ pc'[r] = "fetch" /\ restored' = restored /\ k' = k /\ k[r] = 1
          /\ syncDb'[r] = IF HasLight(r) THEN NoDb ELSE job[r].syncDb
          /\ serverDb'[r] = IF syncDb'[r] = NoDb THEN <<DefaultServer>> ELSE syncDb'[r]
      BY <1>0, <1>4 DEF Start, Goto, doneVars, PositionOK, PositionOf
    <2>2. restored'[r] = <<>> BY <1>1, <2>1 DEF ServerDbOf
    <2>3. Instances(r)' = {} /\ RestoredServers(r)' = {}
      BY <2>2 DEF Instances, RestoredServers, RestoredNames
    <2>4. HasLight(r) => LightPhase(r)'
      BY <1>h, <2>1 DEF LightPhase, InLoop
    <2>5. ServerDbOf(r)' /\ ConnectionOf(r)'
      BY <1>h, <2>1, <2>3, <2>4 DEF ServerDbOf, ConnectionOf, LightPhase
    <2> QED BY <2>3, <2>5
  <1>5. CASE LightDone(r)
    <2>1. /\ pc[r] = "light_done" /\ restored[r] # <<>> /\ cluster' = cluster
          /\ syncDb'[r] = restored[r][1]
          /\ \/ pc'[r] = "done" /\ restored' = restored
             \/ /\ pc'[r] = "fetch" /\ restored'[r] = <<>>
                /\ serverDb'[r] = syncDb'[r] /\ k'[r] = 2
      BY <1>0, <1>5 DEF LightDone, Goto, clusterVars
    <2>l. HasLight(r) BY <2>1 DEF PositionOK, PositionOf
    <2>n. syncDb'[r] # NoDb
      <3>1. restored[r][1] \in Name BY <1>0, <2>1
      <3> QED BY <1>0, <2>1, <3>1
    <2>2. CASE pc'[r] = "done" /\ restored' = restored
      <3>1. ServerDbOf(r)' /\ ConnectionOf(r)'
        BY <1>h, <2>2, <2>l, <2>n DEF ServerDbOf, ConnectionOf, InLoop, LightPhase
      <3>3. Instances(r)' = {}
        BY <2>1, <2>2, <2>l, LinkFrame DEF OrderInv, LightPhase
      <3> QED BY <3>1, <3>3
    <2>3. CASE /\ pc'[r] = "fetch" /\ restored'[r] = <<>>
               /\ serverDb'[r] = syncDb'[r] /\ k'[r] = 2
      <3>1. Instances(r)' = {} /\ RestoredServers(r)' = {}
        BY <2>3 DEF Instances, RestoredServers, RestoredNames
      <3>2. ServerDbOf(r)' /\ ConnectionOf(r)'
        BY <1>h, <2>3, <2>l, <2>n, <3>1 DEF ServerDbOf, ConnectionOf, LightPhase
      <3> QED BY <3>1, <3>2
    <2> QED BY <2>1, <2>2, <2>3
  <1>6. CASE SyncInstance(r)
    <2>1. /\ restored' = restored /\ syncDb' = syncDb /\ pc[r] = "sync"
          /\ pc'[r] \in {"sync", "done"} /\ reported' = reported
      BY <1>0, <1>6 DEF SyncInstance, NextInstance, Goto, doneVars, sqlVars
    <2>p. ~LightPhase(r) /\ ~LightPhase(r)'
      BY <2>1 DEF LightPhase, InLoop
    <2>2. ServerDbOf(r)' /\ ConnectionOf(r)'
      BY <1>1, <1>h, <2>1, <2>p, LinkFrame DEF ServerDbOf, ConnectionOf, InLoop
    <2>3. ASSUME NEW n \in Instances(r)', Silent(n) PROVE Held(n)
      <3>1. n \in Instances(r) /\ restored[r][n] \notin reported[r]
        BY <2>1, <2>3, LinkFrame
      <3>2. restored[r][n] \in DOMAIN cluster BY <1>2, <2>1, <3>1 DEF Half
      <3>3. cluster'[restored[r][n]].server = cluster[restored[r][n]].server
        BY <1>6, <3>2, SyncWrites
      <3>4. LeadsHome(r, n) BY <1>1, <2>1, <3>1 DEF Half
      <3>5. Servers(r)' = Servers(r) BY <2>1, LinkFrame
      <3> QED BY <2>1, <3>3, <3>4, <3>5, LinkFrame
    <2> QED BY <2>2, <2>3
  <1>7. CASE SyncSkips(r)
    <2>1. /\ restored' = restored /\ cluster' = cluster /\ pc[r] = "sync"
          /\ pc'[r] \in {"sync", "done"} /\ reported' = reported
          /\ \/ syncDb'[r] = syncDb[r]
             \/ /\ syncDb[r] = NoDb /\ syncDb'[r] = restored[r][k[r]]
                /\ restored[r] # <<>> /\ IsServerDb(restored[r][k[r]])
      BY <1>0, <1>7 DEF SyncSkips, NextInstance, Goto, doneVars, clusterVars
    <2>p. ~LightPhase(r) /\ ~LightPhase(r)'
      BY <2>1 DEF LightPhase, InLoop
    <2>l. \/ syncDb'[r] = syncDb[r]
          \/ ~HasLight(r) /\ syncDb[r] = NoDb /\ syncDb'[r] \in RestoredServers(r)
      <3>1. HasLight(r) => syncDb[r] # NoDb BY <1>1, <2>1, <2>p DEF ServerDbOf
      <3>2. restored[r] # <<>> => k[r] \in 1..Len(restored[r])
        BY <2>1 DEF PositionOK, PositionOf
      <3> QED BY <2>1, <3>1, <3>2 DEF RestoredServers, RestoredNames
    <2>s. RestoredServers(r) \subseteq Name
      BY <1>0 DEF RestoredServers, RestoredNames
    <2>2. ServerDbOf(r)' /\ ConnectionOf(r)'
      <3>1. RestoredServers(r)' = RestoredServers(r) BY <2>1, LinkFrame
      <3>2. ~HasLight(r) => \/ syncDb'[r] = job[r].syncDb
                            \/ job[r].syncDb = NoDb /\ syncDb'[r] \in RestoredServers(r)'
        BY <1>0, <1>1, <2>1, <2>l, <2>s, <3>1 DEF ServerDbOf
      <3>3. HasLight(r) => syncDb'[r] # NoDb
        BY <1>1, <2>1, <2>l, <2>p DEF ServerDbOf
      <3> QED BY <1>h, <2>1, <2>p, <3>2, <3>3 DEF ServerDbOf, ConnectionOf, InLoop
    <2>3. ASSUME NEW n \in Instances(r)', Silent(n) PROVE Held(n)
      <3>1. n \in Instances(r) /\ restored[r][n] \notin reported[r]
        BY <2>1, <2>3, LinkFrame
      <3>4. LeadsHome(r, n) BY <1>1, <2>1, <3>1 DEF Half
      <3>5. Servers(r) \subseteq Servers(r)' BY <2>1, LinkFrame
      <3> QED BY <2>1, <2>l, <3>4, <3>5, LinkFrame
    <2> QED BY <2>2, <2>3
  <1>8. CASE DropSucceeds(r) \/ Create(r)
    <2>1. /\ restored' = restored /\ cand' = cand /\ UNCHANGED <<syncDb, serverDb>>
          /\ pc[r] \in {"dropdb", "createdb"} /\ pc'[r] \in {"createdb", "pg_restore"}
          /\ k' = k
      BY <1>0, <1>8 DEF DropSucceeds, Create, Goto, doneVars, loopVars, sqlVars
    <2>p. LightPhase(r)' <=> LightPhase(r)
      BY <1>h, <2>1 DEF LightPhase, InLoop
    <2>2. ServerDbOf(r)'
      BY <1>1, <1>h, <2>1, <2>p, LinkFrame DEF ServerDbOf, InLoop
    <2>3. ConnectionOf(r)' BY <2>1 DEF ConnectionOf
    <2>4. \A name \in DOMAIN cluster \ {c} :
            name \in DOMAIN cluster' /\ cluster'[name] = cluster[name]
      <3>1. CASE DropSucceeds(r) BY <3>1, DropWrites
      <3>2. CASE Create(r)
        <4>1. c \notin DOMAIN cluster
          BY <1>0, <3>2 DEF Create, FreshInv
        <4> QED BY <3>2, <4>1, CreateWrites
      <3> QED BY <1>8, <3>1, <3>2
    <2>5. ASSUME NEW n \in Instances(r)', Silent(n) PROVE Held(n)
      <3>2. CASE restored[r][n] = c BY <2>1, <3>2 DEF Half
      <3>3. CASE restored[r][n] # c BY <1>k, <2>1, <2>4, <2>5, <3>3 DEF Half
      <3> QED BY <3>2, <3>3
    <2> QED BY <2>2, <2>3, <2>5
  <1>9. CASE PgRestore(r)
    <2>1. /\ restored'[r] = Append(restored[r], c) /\ cand' = cand
          /\ UNCHANGED <<syncDb, serverDb>>
          /\ pc[r] = "pg_restore" /\ pc'[r] = "open" /\ k' = k
      BY <1>0, <1>9 DEF PgRestore, Goto, loopVars, sqlVars
    <2>2. \A name \in DOMAIN cluster \ {c} : cluster'[name] = cluster[name]
      BY <1>9, RestoreWrites
    <2>3. /\ RestoredNames(r)' = RestoredNames(r) \cup {c}
          /\ RestoredServers(r)' = RestoredServers(r) \cup (IF IsServerDb(c) THEN {c} ELSE {})
          /\ Servers(r) \subseteq Servers(r)'
          /\ \A n \in Instances(r)' : restored'[r][n] # c =>
               /\ n \in Instances(r) /\ restored'[r][n] = restored[r][n]
               /\ Before(r, n) => Before(r, n)'
      BY <1>0, <2>1, LinkAppend
    <2>p. LightPhase(r)' <=> LightPhase(r)
      BY <1>h, <2>1 DEF LightPhase, InLoop
    <2>4. ServerDbOf(r)'
      BY <1>1, <1>h, <2>1, <2>3, <2>p DEF ServerDbOf, InLoop
    <2>5. ConnectionOf(r)' BY <2>1 DEF ConnectionOf
    <2>6. ASSUME NEW n \in Instances(r)', Silent(n) PROVE Held(n)
      <3>1. CASE restored'[r][n] = c BY <2>1, <3>1 DEF Half
      <3>2. CASE restored'[r][n] # c
        <4>1. /\ n \in Instances(r) /\ restored'[r][n] = restored[r][n]
              /\ Before(r, n) => Before(r, n)'
          BY <2>3, <2>6, <3>2
        <4>2. LeadsHome(r, n) BY <1>1, <1>g, <2>1, <2>6, <3>2, <4>1
        <4>3. restored[r][n] \in DOMAIN cluster \ {c} BY <1>2, <2>1, <3>2, <4>1
        <4>4. cluster'[restored'[r][n]].server = cluster[restored[r][n]].server
          BY <2>2, <4>1, <4>3
        <4>5. CASE cluster[restored[r][n]].server \in Servers(r)
          <5>1. cluster'[restored'[r][n]].server \in Servers(r)' BY <2>3, <4>4, <4>5
          <5> QED BY <5>1 DEF LeadsHome
        <4>6. CASE Before(r, n) /\ cluster[restored[r][n]].server = <<DefaultServer>>
          <5>1. Before(r, n)' /\ cluster'[restored'[r][n]].server = <<DefaultServer>>
            BY <4>1, <4>4, <4>6
          <5> QED BY <5>1 DEF LeadsHome
        <4>7. \/ cluster[restored[r][n]].server \in Servers(r)
              \/ Before(r, n) /\ cluster[restored[r][n]].server = <<DefaultServer>>
          BY <4>2 DEF LeadsHome
        <4> QED BY <4>5, <4>6, <4>7
      <3> QED BY <3>1, <3>2
    <2> QED BY <2>4, <2>5, <2>6
  <1>10. CASE RunQueries(r)
    <2>1. /\ restored' = restored /\ cand' = cand /\ syncDb' = syncDb
          /\ pc[r] = "queries" /\ pc'[r] = "sequences" /\ k' = k
      BY <1>0, <1>10 DEF RunQueries, Goto, loopVars, doneVars, sqlVars
    <2>2. /\ DOMAIN cluster' = DOMAIN cluster
          /\ \A name \in DOMAIN cluster \ {c} : cluster'[name] = cluster[name]
          /\ c \in DOMAIN cluster
          /\ serverDb'[r] = IF IsServerDb(c) /\ syncDb[r] = NoDb THEN c ELSE serverDb[r]
          /\ \/ cluster' = cluster /\ (Reports(r) \/ ~SetsConnection(r))
             \/ cluster'[c].server = IF cluster[c].server = NoDb THEN NoDb ELSE serverDb'[r]
      BY <1>10, QueriesWrite
    <2>3. RestoredServers(r)' = RestoredServers(r) /\ RestoredNames(r)' = RestoredNames(r)
      BY <2>1, LinkFrame, NamesStep
    <2>p. LightPhase(r)' <=> LightPhase(r)
      BY <1>h, <2>1 DEF LightPhase, InLoop
    <2>4. ServerDbOf(r)'
      <3>1. IsServerDb(c) => c \in RestoredServers(r)
        BY <1>1, <2>1 DEF ServerDbOf, RestoredServers
      <3> QED BY <1>1, <1>h, <2>1, <2>2, <2>3, <2>p, <3>1 DEF ServerDbOf, InLoop
    <2>5. ConnectionOf(r)'
      <3> SUFFICES ASSUME ~IsServerDb(c), c \notin reported'[r]
                   PROVE  cluster'[c].server = serverDb'[r]
        BY <2>1 DEF ConnectionOf
      <3>1. c \notin reported[r] /\ ~Reports(r)
        BY <1>0, <1>g DEF Reports
      <3>2. cluster[c].server = Production
        BY <1>0, <2>1, <2>2, <3>1 DEF PrepInv, StageOf
      <3>3. Production # NoDb BY ClusterAssumption
      <3> QED BY <2>2, <3>1, <3>2, <3>3 DEF SetsConnection
    <2>6. ASSUME NEW n \in Instances(r)', Silent(n) PROVE Held(n)
      <3>2. CASE restored[r][n] = c BY <2>1, <3>2 DEF Half
      <3>3. CASE restored[r][n] # c BY <1>k, <2>1, <2>2, <2>6, <3>3 DEF Half
      <3> QED BY <3>2, <3>3
    <2> QED BY <2>4, <2>5, <2>6
  <1>11. CASE MoveSequences(r)
    <2>1. /\ restored' = restored /\ cand' = cand /\ UNCHANGED <<syncDb, serverDb>>
          /\ pc[r] = "sequences" /\ pc'[r] \in {"upgrade", "close"} /\ k' = k
          /\ reported' = reported
      BY <1>0, <1>11 DEF MoveSequences, Goto, loopVars, doneVars, sqlVars
    <2>2. /\ DOMAIN cluster' = DOMAIN cluster
          /\ \A name \in DOMAIN cluster \ {c} : cluster'[name] = cluster[name]
          /\ c \in DOMAIN cluster /\ HasTables(cluster[c])
          /\ cluster'[c].server = cluster[c].server
      BY <1>11, SequencesWrite
    <2>p. LightPhase(r)' <=> LightPhase(r)
      BY <1>h, <2>1 DEF LightPhase, InLoop
    <2>3. ServerDbOf(r)'
      BY <1>1, <1>h, <2>1, <2>p, LinkFrame, NamesStep DEF ServerDbOf, InLoop
    <2>4. ~IsServerDb(c) /\ c \notin reported[r] => cluster'[c].server = serverDb[r]
      BY <1>1, <2>1, <2>2 DEF ConnectionOf
    <2>5. ConnectionOf(r)' BY <2>1, <2>4 DEF ConnectionOf
    <2>6. ASSUME NEW n \in Instances(r)', Silent(n) PROVE Held(n)
      <3>1. /\ n \in Instances(r) /\ (Before(r, n)' <=> Before(r, n))
            /\ Servers(r)' = Servers(r)
        BY <2>1, <2>6, LinkFrame
      <3>2. CASE restored[r][n] = c
        <4>1. cluster'[c].server = serverDb[r]
          BY <2>1, <2>4, <2>6, <3>1, <3>2 DEF Instances
        <4>2. serverDb[r] \in Servers(r) \/ (Before(r, n) /\ serverDb[r] = <<DefaultServer>>)
          <5>1. CASE syncDb[r] # NoDb
            BY <1>1, <2>1, <5>1 DEF ServerDbOf, InLoop, Servers
          <5>2. CASE syncDb[r] = NoDb /\ serverDb[r] \in RestoredServers(r)
            BY <1>0, <5>2 DEF Servers
          <5>3. CASE syncDb[r] = NoDb /\ serverDb[r] = <<DefaultServer>> /\ RestoredServers(r) = {}
            <6>1. ~HasLight(r) => job[r].syncDb = NoDb
              BY <1>1, <2>1, <5>3 DEF ServerDbOf
            <6>2. ASSUME NEW m \in 1..n PROVE ~IsServerDb(restored[r][m])
              <7>1. m \in 1..Len(restored[r]) BY <1>0, <3>1 DEF Instances
              <7> QED BY <5>3, <7>1 DEF RestoredServers, RestoredNames
            <6> QED BY <5>3, <6>1, <6>2 DEF Before
          <5> QED BY <1>1, <2>1, <5>1, <5>2, <5>3 DEF ServerDbOf, InLoop
        <4>3. CASE serverDb[r] \in Servers(r)
          <5>1. cluster'[restored'[r][n]].server \in Servers(r)' BY <2>1, <3>1, <3>2, <4>1, <4>3
          <5> QED BY <5>1 DEF LeadsHome
        <4>4. CASE Before(r, n) /\ serverDb[r] = <<DefaultServer>>
          <5>1. Before(r, n)' /\ cluster'[restored'[r][n]].server = <<DefaultServer>>
            BY <2>1, <3>1, <3>2, <4>1, <4>4
          <5> QED BY <5>1 DEF LeadsHome
        <4> QED BY <4>2, <4>3, <4>4
      <3>3. CASE restored[r][n] # c BY <1>k, <2>1, <2>2, <2>6, <3>3 DEF Half
      <3> QED BY <3>2, <3>3
    <2> QED BY <2>3, <2>5, <2>6
  <1> QED
    BY <1>3, <1>4, <1>5, <1>6, <1>7, <1>8, <1>9, <1>10, <1>11, RunSteps

OneServerInv(r) == QuietInv(r) /\ OrderInv(r) /\ LinkInv(r)

LEMMA OneServerInvariant ==
  ASSUME CopiedName = {}, MaxInterrupts = 0, NEW r \in Run, Run = {r}
  PROVE  /\ Init => OneServerInv(r)
         /\ IndInv /\ IndInv' /\ FreshInv /\ FreshInv' /\ OneServerInv(r) /\ [Next]_vars
              => OneServerInv(r)'
  <1>1. Init => OneServerInv(r)
    <2> SUFFICES ASSUME Init PROVE OneServerInv(r)
      OBVIOUS
    <2>1. pc[r] = "start" /\ restored[r] = <<>> /\ syncDb[r] = NoDb
      BY DEF Init
    <2>2. Instances(r) = {}
      BY <2>1 DEF Instances
    <2>3. QuietInv(r) BY QuietInvariant
    <2> QED
      BY <2>1, <2>2, <2>3
      DEF OneServerInv, OrderInv, LinkInv, ServerDbOf, ConnectionOf, Candidates, InLoop, LightPhase
  <1>2. ASSUME IndInv, IndInv', FreshInv, FreshInv', OneServerInv(r), [Next]_vars
        PROVE  OneServerInv(r)'
    <2>1. QuietInv(r)'
      BY <1>2, QuietInvariant DEF OneServerInv
    <2>2. CASE Environment \/ UNCHANGED vars
      <3>1. UNCHANGED <<cluster, job, pc, k, cand, restored, reported, serverDb, syncDb>>
        BY <1>2, <2>2, NoRunStep DEF FreshInv
      <3>2. OrderInv(r)'
        BY <1>2, <3>1
        DEF OneServerInv, OrderInv, Queue, HasLight, InLoop, Instances, LightPhase
      <3>h. (HasLight(r)' <=> HasLight(r)) /\ (LightPhase(r)' <=> LightPhase(r))
        BY <3>1 DEF HasLight, LightPhase, InLoop
      <3>n. RestoredServers(r)' = RestoredServers(r) /\ RestoredNames(r)' = RestoredNames(r)
        BY <3>1 DEF RestoredServers, RestoredNames
      <3>i. Instances(r)' = Instances(r) /\ Servers(r)' = Servers(r)
        BY <3>1, <3>n DEF Instances, Servers
      <3>3. ServerDbOf(r) => ServerDbOf(r)'
        BY <3>1, <3>h, <3>n DEF ServerDbOf, InLoop
      <3>4. ConnectionOf(r) => ConnectionOf(r)'
        BY <3>1 DEF ConnectionOf
      <3>5. ASSUME NEW n PROVE LeadsHome(r, n) => LeadsHome(r, n)'
        <4>1. Before(r, n) => Before(r, n)'
          BY <3>1, <3>h DEF Before
        <4> QED BY <3>1, <3>i, <4>1 DEF LeadsHome
      <3>6. LinkInv(r)'
        BY <1>2, <3>1, <3>i, <3>3, <3>4, <3>5 DEF OneServerInv, LinkInv
      <3> QED BY <2>1, <3>2, <3>6 DEF OneServerInv
    <2>3. CASE RunStep(r)
      <3>1. job' = job BY <1>2, JobConstant
      <3>2. OrderInv(r)'
        BY <1>2, <2>3, <3>1, OrderStep DEF IndInv, OneServerInv
      <3>3. LinkInv(r)'
        BY <1>2, <2>3, <3>1, LinkStep DEF IndInv, OneServerInv, QuietInv
      <3> QED BY <2>1, <3>2, <3>3 DEF OneServerInv
    <2> QED BY <1>2, <2>2, <2>3 DEF Next
  <1> QED BY <1>1, <1>2

\* One run that nobody interrupts leaves every instance it restored without an
\* error on a sync server it knows, if it knows one, or on SYNC_SERVER if the
\* instance came before the server.  That happens with the two transports that
\* may list it there: Web and RB put the servers first (restore_dump.py3:186-189).
THEOREM ServerIsShared ==
  ASSUME CopiedName = {}, MaxInterrupts = 0, NEW r \in Run, Run = {r},
         \A j \in Job : j.transport \in {"web", "rb"} =>
                          ServersFirst(GetDbs(j.transport, j.found))
  PROVE  Spec => []InstancesShareServer
  <1>1. OneServerInv(r) /\ TypeOK => InstancesShareServer
    <2> SUFFICES ASSUME OneServerInv(r), TypeOK, pc[r] = "done", job[r].sql,
                        KnownServers(r) # {NoDb},
                        NEW n \in 1..Len(restored[r]), ~IsServerDb(restored[r][n]),
                        restored[r][n] \notin reported[r]
                 PROVE  \/ cluster[restored[r][n]].server \in KnownServers(r)
                        \/ /\ job[r].transport \in {"directory", "postgres"}
                           /\ BeforeServer(r, n)
                           /\ cluster[restored[r][n]].server = <<DefaultServer>>
      BY DEF InstancesShareServer
    <2>1. n \in Instances(r) BY DEF Instances
    <2>2. KnownServers(r) = RestoredServers(r) \cup {syncDb[r]}
      BY DEF KnownServers, RestoredServers, RestoredNames
    <2>3. LeadsHome(r, n)
      BY <2>1 DEF OneServerInv, LinkInv, Half
    <2>4. CASE cluster[restored[r][n]].server \in Servers(r)
      BY <2>2, <2>4 DEF Servers
    <2>5. CASE Before(r, n) /\ cluster[restored[r][n]].server = <<DefaultServer>>
      <3>1. ~HasLight(r)
        <4>1. ~LightPhase(r) BY DEF LightPhase, InLoop
        <4> QED BY <2>5, <4>1 DEF Before, OneServerInv, LinkInv, ServerDbOf
      <3>2. BeforeServer(r, n)
        BY <2>5, <3>1 DEF Before, BeforeServer
      <3>3. RestoredServers(r) # {}
        BY <2>2, <2>5, <3>1 DEF Before, OneServerInv, LinkInv, ServerDbOf
      <3>4. PICK m \in 1..Len(restored[r]) : IsServerDb(restored[r][m])
        BY <3>3 DEF RestoredServers, RestoredNames
      <3>5. m \notin Instances(r) /\ n < m
        <4>1. m \notin 1..n BY <2>5, <3>4 DEF Before
        <4>2. m \in Nat /\ n \in Nat /\ m >= 1 BY DEF TypeOK, RunTypeOK
        <4> QED BY <3>4, <4>1, <4>2 DEF Instances
      <3>6. ~ServersFirst(Queue(r))
        BY <2>1, <3>4, <3>5 DEF OneServerInv, OrderInv
      <3>7. job[r] \in Job /\ ~ServersFirst(GetDbs(job[r].transport, job[r].found))
        BY <3>6, QueueOrdered DEF TypeOK, RunTypeOK
      <3>8. job[r].transport \in {"directory", "postgres"}
        BY <3>7, JobAssumption
      <3> QED BY <2>5, <3>2, <3>8
    <2> QED BY <2>3, <2>4, <2>5 DEF LeadsHome
  <1> QED
    BY InitIndInv, IndInvStep, FreshInvariant, OneServerInvariant, <1>1, PTL
    DEF Spec, IndInv
=============================================================================
