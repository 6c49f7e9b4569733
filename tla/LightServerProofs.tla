-------------------------- MODULE LightServerProofs --------------------------
(***************************************************************************)
(* Proofs about WalDump and LightServer, under no assumption on failures.  *)
(* The script that makes dumps: its types, and the order of the exports it *)
(* copies.  The light server: its types, what its exports hold, and that   *)
(* the four offered together are of one dump, however many restorers work  *)
(* on the one database and whatever fails.                                 *)
(***************************************************************************)
EXTENDS LightServer, TLAPS

-----------------------------------------------------------------------------
(* dump_server.py and dump_db.bash.                                        *)

\* Each of the four files is the export of some part.
LEMMA PartsFacts ==
  /\ Parts \in [1..4 -> Part]
  /\ \A p \in Part : \E i \in 1..4 : Parts[i] = p
BY DEF Parts, Part

\* The contents a file can get.
LEMMA ContentFacts ==
  ASSUME NEW lsn \in 0..MaxWal
  PROVE  /\ Whole(lsn) \in Content /\ Absent \in Content /\ CutShort \in Content
         /\ Whole(lsn).lsn = lsn /\ Whole(lsn).is = "whole"
         /\ Absent.is # "whole" /\ CutShort.is # "whole"
BY WalAssumption DEF Whole, Absent, CutShort, Content

LEMMA TypeStep == TypeOK /\ [Next]_vars => TypeOK'
<1> SUFFICES ASSUME TypeOK, [Next]_vars PROVE TypeOK'
  OBVIOUS
<1> USE WalAssumption
<1>a. Absent \in Content /\ CutShort \in Content /\ Whole(replayed) \in Content
  BY ContentFacts DEF TypeOK
<1>b. Parts[part] \in Part
  BY PartsFacts DEF TypeOK
<1>1. CASE Archive
  BY <1>1 DEF Archive, TypeOK, scriptVars
<1>2. CASE Replay
  BY <1>2 DEF Replay, TypeOK, scriptVars
<1>3. CASE RsyncStart
  BY <1>3 DEF RsyncStart, TypeOK, Stage
<1>4. CASE RsyncMoves
  BY <1>4 DEF RsyncMoves, TypeOK, scriptVars
<1>5. CASE RsyncDone \/ RsyncFails \/ PollEnds \/ Raises \/ StopFails \/ Launch
  BY <1>5 DEF RsyncDone, RsyncFails, PollEnds, Raises, StopFails, Launch,
              TypeOK, Stage, walVars
<1>6. CASE StandbyStarts \/ StartFails \/ StandbyStops
  BY <1>6 DEF StandbyStarts, StartFails, StandbyStops, TypeOK, Stage
<1>7. CASE PollAgain
  BY <1>7 DEF PollAgain, TypeOK, walVars
<1>8. CASE DeleteOld
  <2>1. dump' \in [Part -> Content]
    BY <1>8, <1>a DEF DeleteOld, TypeOK
  <2> QED
    BY <1>8, <2>1 DEF DeleteOld, TypeOK, Stage, walVars
<1>9. CASE Export
  <2>1. dump' \in [Part -> Content]
    BY <1>9, <1>a, <1>b DEF Export, TypeOK
  <2> QED
    BY <1>9, <2>1 DEF Export, NextPart, TypeOK, Stage, walVars
<1>10. CASE CopyBegins \/ CopyEnds \/ CopyFails
  <2>1. remote' \in [Part -> Content]
    BY <1>10, <1>a, <1>b DEF CopyBegins, CopyEnds, CopyFails, TypeOK
  <2> QED
    BY <1>10, <2>1 DEF CopyBegins, CopyEnds, CopyFails, NextPart, TypeOK, Stage, walVars
<1>11. CASE UNCHANGED vars
  BY <1>11 DEF TypeOK, vars, walVars, scriptVars
<1> QED
  BY <1>1, <1>2, <1>3, <1>4, <1>5, <1>6, <1>7, <1>8, <1>9, <1>10, <1>11 DEF Next, Script

\* Every variable keeps its type: the standby is never ahead of the WAL files
\* brought over, nor rsync of production.
THEOREM TypeCorrect == Spec => []TypeOK
<1>1. Init => TypeOK
  BY WalAssumption, ContentFacts DEF Init, TypeOK, Stage, Content, Absent, Part
<1> QED
  BY <1>1, TypeStep, PTL DEF Spec

-----------------------------------------------------------------------------
(* The exports of one run.                                                 *)

\* The stages after the poll.
Polled == {"delete", "export", "copy", "copying", "launch"}

\* The exports made so far by the run, in their order.
Exported(i) ==
  \/ stage \in {"copy", "copying", "launch"}
  \/ stage = "export" /\ i < part

DumpInv ==
  /\ TypeOK
  /\ stage \in Polled => previous <= replayed
  /\ \A i \in 1..4 :
       Exported(i) /\ dump[Parts[i]].is = "whole" =>
         /\ previous <= dump[Parts[i]].lsn /\ dump[Parts[i]].lsn <= replayed
         /\ \A j \in 1..i : dump[Parts[j]].is = "whole" =>
              dump[Parts[j]].lsn <= dump[Parts[i]].lsn

LEMMA PartsDistinct == \A i, j \in 1..4 : Parts[i] = Parts[j] => i = j
BY DEF Parts

LEMMA DumpInvInit == Init => DumpInv
BY WalAssumption, ContentFacts
   DEF Init, DumpInv, TypeOK, Stage, Content, Absent, Part, Polled, Exported

LEMMA DumpInvStep == DumpInv /\ [Next]_vars => DumpInv'
<1> SUFFICES ASSUME DumpInv, [Next]_vars PROVE DumpInv'
  OBVIOUS
<1>t. TypeOK /\ TypeOK'
  BY TypeStep DEF DumpInv
<1>l. \A p \in Part : dump[p].lsn \in 0..MaxWal
  BY <1>t DEF TypeOK, Content
<1>n. {previous, replayed, replayed'} \subseteq Int
  BY <1>t, WalAssumption DEF TypeOK, NoPosition
<1>1. CASE /\ UNCHANGED <<stage, part, previous, dump>> /\ replayed' \in {replayed, replayed + 1}
  <2>1. \A i \in 1..4 : Parts[i] \in Part
    BY PartsFacts
  <2>2. replayed <= replayed' /\ MaxWal \in Nat
    BY <1>1, <1>n, WalAssumption
  <2>3. stage \in Polled => previous <= replayed'
    BY <2>2, <1>n DEF DumpInv
  <2>4. ASSUME NEW i \in 1..4, Exported(i)', dump'[Parts[i]].is = "whole"
        PROVE  /\ previous' <= dump'[Parts[i]].lsn /\ dump'[Parts[i]].lsn <= replayed'
               /\ \A j \in 1..i : dump'[Parts[j]].is = "whole" =>
                    dump'[Parts[j]].lsn <= dump'[Parts[i]].lsn
    <3>1. Exported(i) /\ dump[Parts[i]].is = "whole" /\ dump[Parts[i]].lsn \in Int
      BY <1>1, <2>4, <2>1, <1>l, <2>2 DEF Exported
    <3> QED BY <3>1, <2>2, <1>1, <1>n DEF DumpInv
  <2> QED BY <1>1, <2>3, <2>4, <1>t DEF DumpInv
<1>2. CASE Archive \/ Replay \/ RsyncMoves
  BY <1>1, <1>2 DEF Archive, Replay, RsyncMoves, scriptVars
<1>3. CASE UNCHANGED vars
  BY <1>1, <1>3 DEF vars, walVars, scriptVars
<1>4. CASE RsyncStart \/ RsyncDone \/ RsyncFails \/ StandbyStarts \/ StartFails
           \/ PollAgain \/ Raises \/ StandbyStops \/ StopFails
  <2>1. stage' \notin Polled
    BY <1>4 DEF RsyncStart, RsyncDone, RsyncFails, StandbyStarts, StartFails,
                PollAgain, Raises, StandbyStops, StopFails, Polled
  <2> QED BY <2>1, <1>t DEF DumpInv, Exported, Polled
<1>5. CASE PollEnds
  BY <1>5, <1>t, <1>n DEF PollEnds, DumpInv, Exported, walVars
<1>6. CASE DeleteOld
  <2>1. stage = "delete" /\ stage' = "export" /\ part' = 1 /\ UNCHANGED <<previous, replayed>>
    BY <1>6 DEF DeleteOld, walVars
  <2> QED BY <2>1, <1>t DEF DumpInv, Exported, Polled
<1>7. CASE Export
  <2>1. PICK file \in {Whole(replayed), CutShort} :
          dump' = [dump EXCEPT ![Parts[part]] = file]
    BY <1>7 DEF Export
  <2>2. /\ stage = "export" /\ stage' \in {"export", "copy"}
        /\ UNCHANGED <<previous, replayed>> /\ previous <= replayed /\ part \in 1..4
    BY <1>7, <1>t DEF Export, NextPart, walVars, DumpInv, Polled, TypeOK
  <2>3. file.is = "whole" => file.lsn = replayed
    BY <2>1, <1>t, ContentFacts DEF TypeOK
  <2>4. \A i \in 1..4 : dump'[Parts[i]] = IF i = part THEN file ELSE dump[Parts[i]]
    BY <2>1, <2>2, <1>t, PartsFacts, PartsDistinct DEF TypeOK
  <2>5. \A i \in 1..4 : Exported(i)' => i <= part
    BY <1>7, <2>2 DEF Export, NextPart, Exported
  <2>6. \A i \in 1..4 : i < part => Exported(i)
    BY <2>2 DEF Exported
  <2>7. ASSUME NEW i \in 1..4, i <= part, dump'[Parts[i]].is = "whole"
        PROVE  /\ previous <= dump'[Parts[i]].lsn /\ dump'[Parts[i]].lsn <= replayed
               /\ \A j \in 1..i : dump'[Parts[j]].is = "whole" =>
                    dump'[Parts[j]].lsn <= dump'[Parts[i]].lsn
    <3>1. CASE i < part
      <4>1. \A j \in 1..i : j \in 1..4 /\ dump'[Parts[j]] = dump[Parts[j]]
        BY <3>1, <2>4, <2>2
      <4>2. dump'[Parts[i]] = dump[Parts[i]] /\ Exported(i)
        BY <3>1, <2>4, <2>2, <2>6
      <4> QED BY <4>1, <4>2, <2>7 DEF DumpInv
    <3>2. CASE i = part
      <4>1. dump'[Parts[i]].lsn = replayed
        BY <3>2, <2>3, <2>4, <2>7
      <4>2. ASSUME NEW j \in 1..i, dump'[Parts[j]].is = "whole"
            PROVE  dump'[Parts[j]].lsn <= replayed
        <5>1. CASE j = i
          BY <5>1, <4>1, <1>n
        <5>2. CASE j < i
          <6>1. j \in 1..4 /\ dump'[Parts[j]] = dump[Parts[j]] /\ Exported(j)
            BY <5>2, <3>2, <2>4, <2>2, <2>6
          <6> QED BY <6>1, <4>2 DEF DumpInv
        <5> QED BY <5>1, <5>2
      <4> QED BY <4>1, <4>2, <2>2, <1>n
    <3> QED BY <3>1, <3>2, <2>7, <2>2
  <2> QED BY <2>2, <2>5, <2>7, <1>t DEF DumpInv
<1>8. CASE CopyBegins \/ CopyEnds \/ CopyFails \/ Launch
  <2>1. /\ stage \in {"copy", "copying", "launch"}
        /\ stage' \in {"copy", "copying", "launch", "stop"}
        /\ UNCHANGED <<previous, replayed, dump>>
    BY <1>8 DEF CopyBegins, CopyEnds, CopyFails, Launch, NextPart, walVars
  <2> QED
    BY <2>1, <1>t DEF DumpInv, Exported, Polled
<1> QED
  BY <1>2, <1>3, <1>4, <1>5, <1>6, <1>7, <1>8 DEF Next, Script

\* What a run copies it has exported itself, in the order of the parts, from
\* the position it printed last on; whatever has failed before or fails now.
THEOREM ExportsAreInOrder == Spec => []ExportsInOrder
<1>1. DumpInv => ExportsInOrder
  <2> SUFFICES ASSUME DumpInv, stage \in {"copy", "copying", "launch"},
                      NEW i \in 1..4, NEW j \in 1..4, i <= j,
                      dump[Parts[i]].is = "whole", dump[Parts[j]].is = "whole"
               PROVE  /\ previous <= dump[Parts[i]].lsn
                      /\ dump[Parts[i]].lsn <= dump[Parts[j]].lsn
                      /\ dump[Parts[j]].lsn <= replayed
    BY DEF ExportsInOrder
  <2>1. Exported(i) /\ Exported(j) /\ i \in 1..j
    BY DEF Exported
  <2> QED BY <2>1 DEF DumpInv
<1> QED
  BY <1>1, DumpInvInit, DumpInvStep, PTL DEF Spec

-----------------------------------------------------------------------------
(* restore_last_sync2.sh, beside the script that starts it.                *)

\* To the script, a step of the light server is one of its own or none.
LEMMA LightIsDump == LightNext => [Next]_vars
BY DEF LightNext, StartDump, DumpStep, LaunchRestore, LaunchFails, Restore, Next, Script

\* What can be offered under a name.
LEMMA FileFacts ==
  /\ NoDatabase \in Database /\ NoFiles \in [Part -> Content]
  /\ NoExport \in ExportFile /\ OtherFile \in ExportFile
  /\ OtherFile.is = "other" /\ NoExport.is = "absent"
  /\ \E p \in Part : NoFiles[p].is # "whole"
  /\ \A p \in Part : NoDatabase.part[p] = Absent
  /\ NoDatabase.level = 0
BY WalAssumption
   DEF ExportFile, Database, NoDatabase, NoFiles, NoExport, OtherFile, Content, Absent, Part

\* The export of a restorer that nothing has disturbed.
WholeExport(d, files) == [is |-> "whole", of |-> d, from |-> files]

LEMMA WholeExportFacts ==
  ASSUME NEW d \in Database, NEW files \in [Part -> Content]
  PROVE  /\ WholeExport(d, files) \in ExportFile
         /\ WholeExport(d, files).is = "whole"
         /\ WholeExport(d, files).of = d /\ WholeExport(d, files).from = files
BY DEF WholeExport, ExportFile

\* A database of which one part is replaced.
Replaced(d, p, c) == [d EXCEPT !.part = [d.part EXCEPT ![p] = c]]

LEMMA ReplacedFacts ==
  ASSUME NEW d \in Database, NEW p \in Part, NEW c \in Content
  PROVE  /\ Replaced(d, p, c) \in Database
         /\ Replaced(d, p, c).exists = d.exists /\ Replaced(d, p, c).level = d.level
         /\ \A q \in Part : Replaced(d, p, c).part[q] = IF q = p THEN c ELSE d.part[q]
<1>1. [d.part EXCEPT ![p] = c] \in [Part -> Content]
  BY DEF Database
<1>2. d \in [exists : BOOLEAN, part : [Part -> Content], level : 0..3]
  BY DEF Database
<1> QED BY <1>1, <1>2 DEF Database, Replaced

\* A database that is at another level, or that is created.
AtLevel(d, l) == [d EXCEPT !.level = l]
Created(d) == [d EXCEPT !.exists = TRUE]

LEMMA FieldTypes ==
  ASSUME NEW d \in Database
  PROVE  d.level \in 0..3 /\ d.exists \in BOOLEAN /\ d.part \in [Part -> Content]
BY DEF Database

LEMMA DatabaseFacts ==
  ASSUME NEW d \in Database, NEW l \in 0..3
  PROVE  /\ Created(d) \in Database /\ Created(d).exists
         /\ Created(d).part = d.part /\ Created(d).level = d.level
         /\ AtLevel(d, l) \in Database /\ AtLevel(d, l).exists = d.exists
         /\ AtLevel(d, l).part = d.part /\ AtLevel(d, l).level = l
<1>1. d \in [exists : BOOLEAN, part : [Part -> Content], level : 0..3]
  BY DEF Database
<1> QED BY <1>1 DEF Database, Created, AtLevel

\* sync.data and sync.schema: the part is there when the database is and did
\* not have it, nothing else changes.
LEMMA LoadTablesDoes ==
  ASSUME LightTypeOK, NEW r \in Restorer, NEW p \in Part, NEW next, LoadTables(r, p, next)
  PROVE  /\ db' \in Database /\ db'.exists = db.exists /\ db'.level = db.level
         /\ \A q \in Part : db'.part[q] =
              IF q = p /\ db.exists /\ db.part[p].is = "absent" THEN remote[p] ELSE db.part[q]
<1>1. [db EXCEPT !.part[p] = remote[p]] = Replaced(db, p, remote[p])
  BY DEF Replaced
<1>2. db' = IF db.exists /\ db.part[p].is = "absent"
            THEN Replaced(db, p, remote[p]) ELSE db
  BY <1>1, Zenon DEF LoadTables
<1>3. db \in Database /\ remote[p] \in Content
  BY DEF LightTypeOK, TypeOK
<1> HIDE DEF Replaced
<1> QED BY <1>2, <1>3, ReplacedFacts

\* sync_server_message and sync_server_update: the part is there when the
\* tables are, and the update makes it a server that nothing is removed from.
LEMMA LoadRowsDoes ==
  ASSUME LightTypeOK, NEW r \in Restorer, NEW p \in Part, NEW next, LoadRows(r, p, next)
  PROVE  /\ db' \in Database /\ db'.exists = db.exists
         /\ db.exists /\ db.part["schema"].is = "whole" =>
              /\ db'.level = IF p = "update" THEN 0 ELSE db.level
              /\ \A q \in Part : db'.part[q] = IF q = p THEN remote[p] ELSE db.part[q]
<1> DEFINE new == Replaced(db, p, remote[p])
           l == IF p = "update" THEN 0 ELSE db.level
<1>1. db \in Database /\ remote[p] \in Content
  BY DEF LightTypeOK, TypeOK
<1>2. [db EXCEPT !.part[p] = remote[p], !.level = IF p = "update" THEN 0 ELSE @]
        = AtLevel(new, l)
  BY DEF Replaced, AtLevel
<1>3. \/ db' = AtLevel(new, l)
      \/ db' = db /\ (~db.exists \/ db.part["schema"].is # "whole")
  BY <1>2, Zenon DEF LoadRows
<1>4. l \in 0..3
  BY <1>1, FieldTypes
<1> HIDE DEF l
<1>5. /\ new \in Database /\ new.exists = db.exists
      /\ \A q \in Part : new.part[q] = IF q = p THEN remote[p] ELSE db.part[q]
  BY <1>1, ReplacedFacts
<1> HIDE DEF new
<1> HIDE DEF AtLevel, Created
<1>6. CASE db' = AtLevel(new, l)
  BY <1>4, <1>5, <1>6, DatabaseFacts DEF l
<1>7. CASE db' = db /\ (~db.exists \/ db.part["schema"].is # "whole")
  BY <1>1, <1>7
<1> QED BY <1>3, <1>6, <1>7

\* Whoever disturbs whom, a history is of files the host has had.
LEMMA SourceType ==
  ASSUME LightTypeOK,
         \/ \E r \in Restorer : DisturbsOthers(r) \/ TakesFiles(r)
         \/ DisturbsAll
  PROVE  source' \in [Restorer -> [Part -> Content]]
BY FileFacts DEF LightTypeOK, TypeOK, DisturbsOthers, TakesFiles, DisturbsAll

LEMMA LightTypeStep == LightTypeOK /\ [LightNext]_allVars => LightTypeOK'
<1> SUFFICES ASSUME LightTypeOK, [LightNext]_allVars PROVE LightTypeOK'
  OBVIOUS
<1> USE DumpsAssumption
<1>1. TypeOK'
  <2>1. [Next]_vars
    BY LightIsDump DEF allVars
  <2> QED BY <2>1, TypeStep DEF LightTypeOK
<1>2. CASE UNCHANGED <<at, kind, db, exports, server>> /\ dumps' \in 0..MaxDumps
           /\ source' \in [Restorer -> [Part -> Content]]
  BY <1>1, <1>2 DEF LightTypeOK
<1>3. CASE StartDump \/ LaunchFails \/ UNCHANGED allVars
  BY <1>2, <1>3 DEF StartDump, LaunchFails, allVars, lightVars, LightTypeOK
<1>4. CASE DumpStep
  <2>1. source' \in [Restorer -> [Part -> Content]]
    BY <1>4, FileFacts DEF DumpStep, LightTypeOK
  <2> QED BY <1>2, <1>4, <2>1 DEF DumpStep, LightTypeOK
<1>5. CASE LaunchRestore
  <2>1. PICK r \in Restorer : Begin(r)
    BY <1>5 DEF LaunchRestore
  <2>2. source' \in [Restorer -> [Part -> Content]]
    BY <2>1, SourceType DEF Begin
  <2>3. /\ at' = [at EXCEPT ![r] = "drop"] /\ server' \in {"running", "stopped"}
        /\ UNCHANGED <<kind, db, exports, dumps>>
    BY <1>5, <2>1 DEF LaunchRestore, Begin, Goto, LightTypeOK
  <2> QED BY <1>1, <2>2, <2>3 DEF LightTypeOK, Places
<1>6. ASSUME NEW r \in Restorer, RestoreStep(r), UNCHANGED dumps PROVE LightTypeOK'
  <2>s. source' \in [Restorer -> [Part -> Content]]
    <3>1. DisturbsOthers(r) \/ TakesFiles(r) \/ DisturbsAll
      BY <1>6 DEF RestoreStep, Drop, DropFails, Create, LoadData, LoadSchema, LoadTables,
         LoadMessage, LoadUpdate, LoadRows, ExportBegins, ExportEnds, Reduce, CommandFails, Finish
    <3> QED BY <3>1, SourceType
  <2>1. CASE Drop(r) \/ DropFails(r)
    BY <1>1, <1>6, <2>s, <2>1, FileFacts DEF Drop, DropFails, Goto, LightTypeOK, Places
  <2>2. CASE Create(r)
    <3>1. db' = Created(db)
      BY <2>2, Zenon DEF Create, Created
    <3>2. db' \in Database
      BY <3>1, DatabaseFacts DEF LightTypeOK
    <3>3. at' = [at EXCEPT ![r] = "data"] /\ UNCHANGED <<kind, exports, server>>
      BY <2>2 DEF Create, Goto
    <3> QED BY <1>1, <1>6, <2>s, <3>2, <3>3 DEF LightTypeOK, Places, Part
  <2>3. CASE LoadData(r) \/ LoadSchema(r)
    <3>1. /\ db' \in Database /\ UNCHANGED <<kind, exports, server>>
          /\ at' = [at EXCEPT ![r] = "schema"] \/ at' = [at EXCEPT ![r] = "message"]
      <4>1. "data" \in Part /\ "schema" \in Part
        BY DEF Part
      <4> QED BY <2>3, <4>1, LoadTablesDoes, Zenon
              DEF LoadData, LoadSchema, LoadTables, Goto
    <3> QED BY <1>1, <1>6, <2>s, <3>1 DEF LightTypeOK, Places, Part
  <2>4. CASE LoadMessage(r) \/ LoadUpdate(r)
    <3>1. /\ db' \in Database /\ UNCHANGED <<kind, exports, server>>
          /\ at' = [at EXCEPT ![r] = "update"] \/ at' = [at EXCEPT ![r] = "export"]
      <4>1. "message" \in Part /\ "update" \in Part
        BY DEF Part
      <4> QED BY <2>4, <4>1, LoadRowsDoes, Zenon
              DEF LoadMessage, LoadUpdate, LoadRows, Goto
    <3> QED BY <1>1, <1>6, <2>s, <3>1 DEF LightTypeOK, Places, Part
  <2>5. CASE ExportBegins(r)
    BY <1>1, <1>6, <2>s, <2>5, FileFacts DEF ExportBegins, Goto, LightTypeOK, Places
  <2>6. CASE ExportEnds(r)
    <3>1. WholeExport(db, source[r]) \in ExportFile
      BY WholeExportFacts DEF LightTypeOK
    <3>2. PICK file \in ExportFile : exports' = [exports EXCEPT ![kind[r]] = file]
      BY <2>6, <3>1, FileFacts DEF ExportEnds, WholeExport
    <3>3. at' = [at EXCEPT ![r] = "reduce"] /\ UNCHANGED <<kind, db, server>>
      BY <2>6 DEF ExportEnds, Goto
    <3> QED BY <1>1, <1>6, <2>s, <3>2, <3>3 DEF LightTypeOK, Places
  <2>7. CASE Reduce(r)
    <3>1. kind[r] + 1 \in Kinds /\ Reduced(kind[r] + 1) \in 0..3
      <4>1. kind[r] \in 1..3
        BY <2>7 DEF Reduce, LightTypeOK, Kinds
      <4>2. db.level \in 0..3
        BY FieldTypes DEF LightTypeOK
      <4> QED BY <4>1, <4>2 DEF Reduced, Level, Kinds
    <3>2. db' = AtLevel(db, Reduced(kind[r] + 1)) \/ db' = db
      BY <2>7, Zenon DEF Reduce, AtLevel
    <3>3. db' \in Database
      BY <3>1, <3>2, DatabaseFacts DEF LightTypeOK
    <3>4. /\ at' = [at EXCEPT ![r] = "export"] /\ kind' = [kind EXCEPT ![r] = @ + 1]
          /\ UNCHANGED <<exports, server>>
      BY <2>7 DEF Reduce, Goto
    <3> QED BY <1>1, <1>6, <2>s, <3>1, <3>3, <3>4 DEF LightTypeOK, Places
  <2>8. CASE CommandFails(r)
    <3>1. UNCHANGED <<db, exports, server>>
      BY <2>8 DEF CommandFails
    <3>2. at' \in [Restorer -> Places]
      <4>1. \A place \in DOMAIN After : After[place] \in Places
        BY DEF After, Places, Part
      <4> QED BY <2>8, <4>1 DEF CommandFails, Goto, LightTypeOK, Places
    <3>3. kind' \in [Restorer -> Kinds]
      BY <2>8 DEF CommandFails, LightTypeOK, Kinds
    <3> QED BY <1>1, <1>6, <2>s, <3>1, <3>2, <3>3 DEF LightTypeOK
  <2>9. CASE Finish(r)
    BY <1>1, <1>6, <2>s, <2>9 DEF Finish, Goto, LightTypeOK, Places, Kinds
  <2> QED BY <1>6, <2>1, <2>2, <2>3, <2>4, <2>5, <2>6, <2>7, <2>8, <2>9 DEF RestoreStep
<1> QED BY <1>3, <1>4, <1>5, <1>6 DEF LightNext, Restore

LEMMA LightTypeInit == LightInit => LightTypeOK
BY WalAssumption, DumpsAssumption, ContentFacts, FileFacts
   DEF LightInit, LightTypeOK, Init, TypeOK, Stage, Content, Absent, Part, Places, Kinds

\* Every variable of both hosts keeps its type.
THEOREM LightTypeCorrect == LightSpec => []LightTypeOK
BY LightTypeInit, LightTypeStep, PTL DEF LightSpec

-----------------------------------------------------------------------------
(* The exports: what a restorer has done as long as nothing disturbs it.   *)

\* The files loaded when a restorer is about to load the part named.
Before(place) ==
  CASE place = "data"    -> {}
    [] place = "schema"  -> {"data"}
    [] place = "message" -> {"data", "schema"}
    [] place = "update"  -> {"data", "schema", "message"}
    [] OTHER             -> Part

Loaded(P, files) ==
  /\ db.exists
  /\ \A p \in Part : db.part[p] = IF p \in P THEN files[p] ELSE Absent

\* The first n exports are made, of these files.
Made(n, files) ==
  \A k \in Kinds : k <= n => exports[k].is = "whole" /\ exports[k].of.part = files

\* It is at its first export until it has come to the exports.
AtFirst(r) == at[r] \notin {"export", "exporting", "reduce"} => kind[r] = 1

\* What a restorer has done, by the place it is at, since it dropped the
\* database, when nothing has disturbed it.
Progress(r) ==
  Undisturbed(r) =>
    /\ at[r] \notin {"idle", "drop"}
    /\ remote = source[r]
    /\ at[r] = "create" => db = NoDatabase
    /\ at[r] # "create" => Loaded(Before(at[r]), source[r]) /\ db.level = Level(kind[r])
    /\ at[r] \in {"export", "exporting"} => Made(kind[r] - 1, source[r])
    /\ at[r] = "reduce" => Made(kind[r], source[r])

\* A restorer that will still write the last export.
Pending(r) == at[r] # "idle" /\ ~(at[r] \in {"exporting", "reduce"} /\ kind[r] = 4)

Matching ==
  \A k \in Kinds : exports[k].is = "whole" /\ exports[k].of.part = exports[4].from

LightInv ==
  /\ LightTypeOK
  /\ \A r \in Restorer : AtFirst(r) /\ Progress(r)
  /\ ExportsAsLabelled
  /\ exports[4].is = "whole" => Matching \/ \E r \in Restorer : Pending(r)

\* Others have disturbed a restorer for good.
LEMMA Disturbed ==
  ASSUME NEW r \in Restorer, source'[r] = NoFiles
  PROVE  ~Undisturbed(r)' /\ Progress(r)'
BY FileFacts DEF Undisturbed, AllWhole, Progress

LEMMA OthersDisturbed ==
  ASSUME NEW r \in Restorer, DisturbsOthers(r) \/ TakesFiles(r), NEW q \in Restorer \ {r}
  PROVE  Progress(q)'
<1>1. source'[q] = NoFiles
  BY DEF DisturbsOthers, TakesFiles
<1> QED BY <1>1, Disturbed

LEMMA AllDisturbed ==
  ASSUME DisturbsAll, NEW q \in Restorer
  PROVE  Progress(q)'
<1>1. source'[q] = NoFiles
  BY DEF DisturbsAll
<1> QED BY <1>1, Disturbed

\* Where all is loaded, the database is what was copied.
LEMMA LoadedIsSource ==
  ASSUME LightInv, NEW r \in Restorer, Undisturbed(r), at[r] \in {"export", "exporting", "reduce"}
  PROVE  /\ db.exists /\ db.part = source[r] /\ db.level = Level(kind[r])
         /\ \A p \in Part : db.part[p].is = "whole"
<1>1. Loaded(Part, source[r]) /\ db.level = Level(kind[r])
  BY DEF LightInv, Progress, Before
<1>2. db.part \in [Part -> Content] /\ source[r] \in [Part -> Content]
  BY FieldTypes DEF LightInv, LightTypeOK
<1>3. db.part = source[r]
  BY <1>1, <1>2 DEF Loaded
<1> QED BY <1>1, <1>3 DEF Loaded, Undisturbed, AllWhole

\* Drop, Create, Load...: the database is made again from the files copied.
LEMMA LoadProgress ==
  ASSUME LightInv, UNCHANGED vars, NEW r \in Restorer,
         \/ Drop(r) \/ Create(r)
         \/ LoadData(r) \/ LoadSchema(r) \/ LoadMessage(r) \/ LoadUpdate(r)
  PROVE  Progress(r)'
<1> SUFFICES ASSUME Undisturbed(r)' PROVE Progress(r)'
  BY DEF Progress
<1>c. LightTypeOK /\ AtFirst(r) /\ Progress(r)
  BY DEF LightInv
<1>d. /\ "data" \in Part /\ "schema" \in Part /\ "message" \in Part /\ "update" \in Part
      /\ Level(1) = 0 /\ 0 \in 0..3
  BY DEF Part, Level
<1>1. CASE Drop(r)
  <2>1. at'[r] = "create" /\ db' = NoDatabase
    BY <1>1, <1>c DEF Drop, LightTypeOK
  <2>2. source'[r] = remote
    <3>1. source'[r] = IF server = "stopped" /\ AllWhole(remote) THEN remote ELSE NoFiles
      BY <1>1 DEF Drop, TakesFiles
    <3> QED BY <3>1, Disturbed
  <2> QED BY <2>1, <2>2 DEF Progress, vars
<1>2. CASE ~Drop(r)
  <2>a. source'[r] = source[r] /\ remote' = remote /\ Undisturbed(r)
    <3>1. source'[r] = source[r]
      BY <1>2 DEF Create, LoadData, LoadSchema, LoadTables, LoadMessage, LoadUpdate,
                  LoadRows, DisturbsOthers
    <3> QED BY <3>1 DEF Undisturbed, AllWhole, vars
  <2>b. remote = source[r] /\ \A p \in Part : source[r][p].is = "whole"
    BY <2>a, <1>c DEF Progress, Undisturbed, AllWhole
  <2>1. CASE Create(r)
    <3>1. at' = [at EXCEPT ![r] = "data"] /\ UNCHANGED kind /\ at[r] = "create"
      BY <2>1 DEF Create, Goto
    <3>2. db' = Created(db)
      BY <2>1, Zenon DEF Create, Created
    <3>3. db'.exists /\ db'.part = NoDatabase.part /\ db'.level = NoDatabase.level
      <4>1. db = NoDatabase
        BY <1>c, <2>a, <3>1 DEF Progress
      <4> QED BY <3>2, <4>1, <1>c, <1>d, DatabaseFacts DEF LightTypeOK
    <3>4. db'.level = 0 /\ \A p \in Part : db'.part[p] = Absent
      BY <3>3, FileFacts
    <3>5. at'[r] = "data" /\ kind'[r] = 1
      BY <1>c, <3>1 DEF AtFirst, LightTypeOK
    <3> QED BY <1>d, <2>a, <2>b, <3>3, <3>4, <3>5 DEF Progress, Loaded, Before
  <2>2. CASE LoadData(r)
    <3>1. at' = [at EXCEPT ![r] = "schema"] /\ UNCHANGED kind /\ at[r] = "data"
      BY <2>2 DEF LoadData, LoadTables, Goto
    <3>2. kind[r] = 1 /\ db.exists /\ db.level = 0 /\ \A p \in Part : db.part[p] = Absent
      BY <1>c, <1>d, <2>a, <3>1 DEF Progress, AtFirst, Loaded, Before
    <3>3. /\ db'.exists = db.exists /\ db'.level = db.level
          /\ \A q \in Part : db'.part[q] =
               IF q = "data" /\ db.exists /\ db.part["data"].is = "absent"
               THEN remote["data"] ELSE db.part[q]
      BY <2>2, <1>c, <1>d, LoadTablesDoes DEF LoadData
    <3>4. \A q \in Part : db'.part[q] = IF q \in {"data"} THEN source[r][q] ELSE Absent
      BY <1>d, <2>b, <3>2, <3>3 DEF Absent
    <3>5. at'[r] = "schema" /\ kind'[r] = 1
      BY <1>c, <3>1, <3>2 DEF LightTypeOK
    <3> QED BY <1>d, <2>a, <2>b, <3>2, <3>3, <3>4, <3>5 DEF Progress, Loaded, Before
  <2>3. CASE LoadSchema(r)
    <3>1. at' = [at EXCEPT ![r] = "message"] /\ UNCHANGED kind /\ at[r] = "schema"
      BY <2>3 DEF LoadSchema, LoadTables, Goto
    <3>2. /\ kind[r] = 1 /\ db.exists /\ db.level = 0
          /\ \A p \in Part : db.part[p] = IF p \in {"data"} THEN source[r][p] ELSE Absent
      BY <1>c, <1>d, <2>a, <3>1 DEF Progress, AtFirst, Loaded, Before
    <3>3. /\ db'.exists = db.exists /\ db'.level = db.level
          /\ \A q \in Part : db'.part[q] =
               IF q = "schema" /\ db.exists /\ db.part["schema"].is = "absent"
               THEN remote["schema"] ELSE db.part[q]
      BY <2>3, <1>c, <1>d, LoadTablesDoes DEF LoadSchema
    <3>4. \A q \in Part : db'.part[q] = IF q \in {"data", "schema"} THEN source[r][q] ELSE Absent
      BY <1>d, <2>b, <3>2, <3>3 DEF Absent
    <3>5. at'[r] = "message" /\ kind'[r] = 1
      BY <1>c, <3>1, <3>2 DEF LightTypeOK
    <3> QED BY <1>d, <2>a, <2>b, <3>2, <3>3, <3>4, <3>5 DEF Progress, Loaded, Before
  <2>4. CASE LoadMessage(r)
    <3>1. at' = [at EXCEPT ![r] = "update"] /\ UNCHANGED kind /\ at[r] = "message"
      BY <2>4 DEF LoadMessage, LoadRows, Goto
    <3>2. /\ kind[r] = 1 /\ db.exists /\ db.level = 0
          /\ \A p \in Part : db.part[p] = IF p \in {"data", "schema"} THEN source[r][p] ELSE Absent
      BY <1>c, <1>d, <2>a, <3>1 DEF Progress, AtFirst, Loaded, Before
    <3>3. /\ db'.exists = db.exists /\ db'.level = db.level
          /\ \A q \in Part : db'.part[q] = IF q = "message" THEN remote["message"] ELSE db.part[q]
      BY <2>4, <1>c, <1>d, <2>b, <3>2, LoadRowsDoes DEF LoadMessage
    <3>4. \A q \in Part : db'.part[q] =
            IF q \in {"data", "schema", "message"} THEN source[r][q] ELSE Absent
      BY <1>d, <2>b, <3>2, <3>3
    <3>5. at'[r] = "update" /\ kind'[r] = 1
      BY <1>c, <3>1, <3>2 DEF LightTypeOK
    <3> QED BY <1>d, <2>a, <2>b, <3>2, <3>3, <3>4, <3>5 DEF Progress, Loaded, Before
  <2>5. CASE LoadUpdate(r)
    <3>1. at' = [at EXCEPT ![r] = "export"] /\ UNCHANGED kind /\ at[r] = "update"
      BY <2>5 DEF LoadUpdate, LoadRows, Goto
    <3>2. /\ kind[r] = 1 /\ db.exists
          /\ \A p \in Part : db.part[p] =
               IF p \in {"data", "schema", "message"} THEN source[r][p] ELSE Absent
      BY <1>c, <1>d, <2>a, <3>1 DEF Progress, AtFirst, Loaded, Before
    <3>3. /\ db'.exists = db.exists /\ db'.level = 0
          /\ \A q \in Part : db'.part[q] = IF q = "update" THEN remote["update"] ELSE db.part[q]
      BY <2>5, <1>c, <1>d, <2>b, <3>2, LoadRowsDoes DEF LoadUpdate
    <3>4. \A q \in Part : db'.part[q] = source[r][q]
      BY <2>b, <3>2, <3>3 DEF Part
    <3>5. at'[r] = "export" /\ kind'[r] = 1
      BY <1>c, <3>1, <3>2 DEF LightTypeOK
    <3>6. Made(0, source[r])'
      BY DEF Made, Kinds
    <3> QED BY <1>d, <2>a, <2>b, <3>2, <3>3, <3>4, <3>5, <3>6 DEF Progress, Loaded, Before
  <2> QED BY <1>2, <2>1, <2>2, <2>3, <2>4, <2>5
<1> QED BY <1>1, <1>2

\* The four exports and the three reductions between them.
LEMMA ExportProgress ==
  ASSUME LightInv, UNCHANGED vars, NEW r \in Restorer,
         ExportBegins(r) \/ ExportEnds(r) \/ Reduce(r)
  PROVE  Progress(r)'
<1> SUFFICES ASSUME Undisturbed(r)' PROVE Progress(r)'
  BY DEF Progress
<1>a. at[r] \in {"export", "exporting", "reduce"}
  BY DEF ExportBegins, ExportEnds, Reduce
<1>b. source'[r] = source[r] /\ remote' = remote /\ Undisturbed(r)
  <2>1. source'[r] = source[r]
    BY DEF ExportBegins, ExportEnds, Reduce, DisturbsOthers
  <2> QED BY <2>1 DEF Undisturbed, AllWhole, vars
<1>c. LightTypeOK /\ Progress(r) /\ remote = source[r]
  BY <1>b DEF LightInv, Progress
<1>d. /\ db.exists /\ db.part = source[r] /\ db.level = Level(kind[r])
      /\ \A p \in Part : db.part[p].is = "whole"
  BY <1>a, <1>b, LoadedIsSource
<1>e. /\ kind[r] \in Kinds /\ at \in [Restorer -> Places] /\ exports \in [Kinds -> ExportFile]
      /\ db \in Database /\ source[r] \in [Part -> Content]
  BY <1>c DEF LightTypeOK
<1>1. CASE ExportBegins(r)
  <2>1. /\ at'[r] = "exporting" /\ UNCHANGED <<kind, db>> /\ at[r] = "export"
        /\ exports' = [exports EXCEPT ![kind[r]] = OtherFile]
    BY <1>1, <1>e DEF ExportBegins, Goto
  <2>2. Made(kind[r] - 1, source[r])
    BY <2>1, <1>b, <1>c DEF Progress
  <2>3. Made(kind[r] - 1, source[r])'
    BY <2>1, <2>2, <1>b, <1>e DEF Made, Kinds
  <2>4. Loaded(Part, source[r])'
    BY <1>b, <1>d, <2>1 DEF Loaded
  <2> QED BY <1>b, <1>c, <1>d, <2>1, <2>3, <2>4 DEF Progress, Before
<1>2. CASE ExportEnds(r)
  <2>1. at'[r] = "reduce" /\ UNCHANGED <<kind, db>> /\ at[r] = "exporting"
    BY <1>2, <1>e DEF ExportEnds, Goto
  <2>2. exports' = [exports EXCEPT ![kind[r]] = WholeExport(db, source[r])]
    BY <1>2, <1>b, <1>d DEF ExportEnds, WholeExport
  <2>3. Made(kind[r] - 1, source[r])
    BY <2>1, <1>b, <1>c DEF Progress
  <2>4. Made(kind[r], source[r])'
    BY <2>1, <2>2, <2>3, <1>b, <1>d, <1>e, WholeExportFacts DEF Made, Kinds
  <2>5. Loaded(Part, source[r])'
    BY <1>b, <1>d, <2>1 DEF Loaded
  <2> QED BY <1>b, <1>c, <1>d, <2>1, <2>4, <2>5 DEF Progress, Before
<1>3. CASE Reduce(r)
  <2>1. /\ at'[r] = "export" /\ UNCHANGED exports /\ at[r] = "reduce"
        /\ kind'[r] = kind[r] + 1 /\ kind[r] < 4
    BY <1>3, <1>c, <1>e DEF Reduce, Goto, LightTypeOK
  <2>m. Made(kind[r], source[r])
    BY <2>1, <1>b, <1>c DEF Progress
  <2>2. db' = AtLevel(db, kind[r])
    <3>1. db.part["update"].is # "absent"
      BY <1>d DEF Part
    <3>2. Reduced(kind[r] + 1) = kind[r]
      BY <1>d, <1>e DEF Reduced, Level, Kinds
    <3> QED BY <1>3, <1>d, <3>1, <3>2, Zenon DEF Reduce, AtLevel
  <2>3. db'.exists /\ db'.part = source[r] /\ db'.level = kind[r]
    <3>1. kind[r] \in 0..3
      BY <1>e, <2>1 DEF Kinds
    <3> QED BY <1>d, <1>e, <2>2, <3>1, DatabaseFacts
  <2>5. Made(kind[r] - 1, source[r])'
    BY <2>1, <2>m, <1>b, <1>e DEF Made, Kinds
  <2>6. Loaded(Part, source[r])'
    BY <1>b, <2>3 DEF Loaded
  <2>7. db'.level = Level(kind'[r])
    BY <2>1, <2>3, <1>e DEF Level, Kinds
  <2> QED BY <1>b, <1>c, <2>1, <2>5, <2>6, <2>7 DEF Progress, Before
<1> QED BY <1>1, <1>2, <1>3

\* A restorer's own step, whichever it is.
LEMMA OwnProgress ==
  ASSUME LightInv, UNCHANGED vars, NEW r \in Restorer, RestoreStep(r)
  PROVE  \A q \in Restorer : Progress(q)'
<1>1. CASE DropFails(r) \/ CommandFails(r) \/ Finish(r)
  BY <1>1, AllDisturbed DEF DropFails, CommandFails, Finish
<1>2. CASE Drop(r) \/ Create(r) \/ LoadData(r) \/ LoadSchema(r) \/ LoadMessage(r) \/ LoadUpdate(r)
  <2>1. DisturbsOthers(r) \/ TakesFiles(r)
    BY <1>2 DEF Drop, Create, LoadData, LoadSchema, LoadTables, LoadMessage, LoadUpdate, LoadRows
  <2> QED BY <1>2, <2>1, LoadProgress, OthersDisturbed
<1>3. CASE ExportBegins(r) \/ ExportEnds(r) \/ Reduce(r)
  <2>1. DisturbsOthers(r)
    BY <1>3 DEF ExportBegins, ExportEnds, Reduce
  <2> QED BY <1>3, <2>1, ExportProgress, OthersDisturbed
<1> QED BY <1>1, <1>2, <1>3 DEF RestoreStep

LEMMA AtFirstStep ==
  ASSUME LightInv, NEW r \in Restorer, RestoreStep(r) \/ Begin(r)
  PROVE  \A q \in Restorer : AtFirst(q)'
<1> SUFFICES ASSUME NEW q \in Restorer PROVE AtFirst(q)'
  OBVIOUS
<1>1. LightTypeOK /\ AtFirst(q) /\ AtFirst(r)
  BY DEF LightInv
<1>2. CASE Drop(r)
  BY <1>1, <1>2 DEF Drop, AtFirst, LightTypeOK
<1>3. CASE CommandFails(r)
  BY <1>1, <1>3 DEF CommandFails, Goto, After, AtFirst, LightTypeOK
<1>4. CASE DropFails(r) \/ Create(r) \/ LoadData(r) \/ LoadSchema(r) \/ LoadMessage(r)
           \/ LoadUpdate(r) \/ Begin(r)
  <2>1. /\ UNCHANGED kind /\ at[r] \notin {"export", "exporting", "reduce"}
        /\ \E place : at' = [at EXCEPT ![r] = place]
    BY <1>4, Zenon DEF DropFails, Create, LoadData, LoadSchema, LoadTables, LoadMessage,
                       LoadUpdate, LoadRows, Begin, Goto
  <2> QED BY <1>1, <2>1 DEF AtFirst, LightTypeOK
<1>5. CASE ExportBegins(r) \/ ExportEnds(r)
  BY <1>1, <1>5 DEF ExportBegins, ExportEnds, Goto, AtFirst, LightTypeOK
<1>6. CASE Reduce(r)
  <2>1. at' = [at EXCEPT ![r] = "export"] /\ kind' = [kind EXCEPT ![r] = @ + 1]
    BY <1>6 DEF Reduce, Goto
  <2> QED BY <1>1, <2>1 DEF AtFirst, LightTypeOK
<1>7. CASE Finish(r)
  BY <1>1, <1>7 DEF Finish, Goto, AtFirst, LightTypeOK
<1> QED BY <1>2, <1>3, <1>4, <1>5, <1>6, <1>7 DEF RestoreStep

\* What ExportEnds writes.
LEMMA ExportEndsDoes ==
  ASSUME LightInv, NEW r \in Restorer, ExportEnds(r)
  PROVE  /\ at[r] = "exporting" /\ kind[r] \in Kinds
         /\ \E file \in {OtherFile, WholeExport(db, source[r])} :
              /\ exports' = [exports EXCEPT ![kind[r]] = file]
              /\ file.is = "whole" => Undisturbed(r) /\ file = WholeExport(db, source[r])
BY FileFacts DEF ExportEnds, WholeExport, LightInv, LightTypeOK

\* Only ExportBegins and ExportEnds write ~/exports.
LEMMA ExportsKept ==
  ASSUME NEW r \in Restorer, RestoreStep(r) \/ Begin(r), ~ExportBegins(r), ~ExportEnds(r)
  PROVE  exports' = exports
BY DEF RestoreStep, Begin, Drop, DropFails, Create, LoadData, LoadSchema, LoadTables,
       LoadMessage, LoadUpdate, LoadRows, Reduce, CommandFails, Finish

LEMMA LabelStep ==
  ASSUME LightInv, NEW r \in Restorer, RestoreStep(r) \/ Begin(r)
  PROVE  ExportsAsLabelled'
<1>1. /\ ExportsAsLabelled /\ exports \in [Kinds -> ExportFile] /\ kind[r] \in Kinds
      /\ db \in Database /\ source[r] \in [Part -> Content]
  BY DEF LightInv, LightTypeOK
<1>2. CASE exports' = exports
  BY <1>1, <1>2 DEF ExportsAsLabelled
<1>3. CASE ExportBegins(r)
  <2>1. exports' = [exports EXCEPT ![kind[r]] = OtherFile]
    BY <1>3 DEF ExportBegins
  <2> QED BY <1>1, <2>1, FileFacts DEF ExportsAsLabelled
<1>4. CASE ExportEnds(r)
  <2>1. PICK file \in {OtherFile, WholeExport(db, source[r])} :
          /\ exports' = [exports EXCEPT ![kind[r]] = file]
          /\ file.is = "whole" => Undisturbed(r) /\ file = WholeExport(db, source[r])
    BY <1>4, ExportEndsDoes
  <2>2. file.is = "whole" => file.of.level = Level(kind[r]) /\ AllWhole(file.of.part)
    <3>1. at[r] = "exporting"
      BY <1>4, ExportEndsDoes
    <3> QED BY <1>1, <2>1, <3>1, LoadedIsSource, WholeExportFacts DEF AllWhole
  <2> QED BY <1>1, <2>1, <2>2 DEF ExportsAsLabelled, AllWhole
<1> QED BY <1>2, <1>3, <1>4, ExportsKept

\* A restorer that will write the last export goes on to do so.
LEMMA PendingStep ==
  ASSUME LightInv, NEW r \in Restorer, RestoreStep(r) \/ Begin(r),
         ~ExportBegins(r), NEW q \in Restorer, Pending(q)
  PROVE  Pending(q)'
<1>1. LightTypeOK /\ AtFirst(q) /\ AtFirst(r) /\ kind[r] \in Kinds
  BY DEF LightInv, LightTypeOK
<1>2. CASE Drop(r)
  BY <1>1, <1>2 DEF Drop, Pending, LightTypeOK
<1>3. CASE CommandFails(r)
  BY <1>1, <1>3 DEF CommandFails, Goto, After, Pending, LightTypeOK
<1>4. CASE DropFails(r) \/ Create(r) \/ LoadData(r) \/ LoadSchema(r) \/ LoadMessage(r)
           \/ LoadUpdate(r) \/ Begin(r)
  <2>1. /\ UNCHANGED kind
        /\ \E place \in {"create", "data", "schema", "message", "update", "export", "drop"} :
             at' = [at EXCEPT ![r] = place]
    BY <1>4, Zenon DEF DropFails, Create, LoadData, LoadSchema, LoadTables, LoadMessage,
                       LoadUpdate, LoadRows, Begin, Goto
  <2> QED BY <1>1, <2>1 DEF Pending, LightTypeOK
<1>5. CASE ExportEnds(r)
  BY <1>1, <1>5 DEF ExportEnds, Goto, Pending, LightTypeOK
<1>6. CASE Reduce(r)
  <2>1. at' = [at EXCEPT ![r] = "export"] /\ kind' = [kind EXCEPT ![r] = @ + 1]
    BY <1>6 DEF Reduce, Goto
  <2> QED BY <1>1, <2>1 DEF Pending, LightTypeOK
<1>7. CASE Finish(r)
  BY <1>1, <1>7 DEF Finish, Goto, Pending, LightTypeOK
<1> QED BY <1>2, <1>3, <1>4, <1>5, <1>6, <1>7 DEF RestoreStep

LEMMA MatchingStep ==
  ASSUME LightInv, NEW r \in Restorer, RestoreStep(r) \/ Begin(r), exports'[4].is = "whole"
  PROVE  Matching' \/ \E q \in Restorer : Pending(q)'
<1>1. /\ LightTypeOK /\ exports \in [Kinds -> ExportFile] /\ kind[r] \in Kinds /\ 4 \in Kinds
      /\ db \in Database /\ source[r] \in [Part -> Content]
      /\ exports[4].is = "whole" => Matching \/ \E q \in Restorer : Pending(q)
  BY DEF LightInv, LightTypeOK, Kinds
<1>2. CASE exports' = exports /\ ~ExportBegins(r)
  <2>1. CASE Matching
    BY <1>2, <2>1 DEF Matching
  <2>2. CASE \E q \in Restorer : Pending(q)
    BY <1>2, <2>2, PendingStep
  <2> QED BY <1>1, <1>2, <2>1, <2>2
<1>3. CASE ExportBegins(r)
  <2>1. /\ exports' = [exports EXCEPT ![kind[r]] = OtherFile] /\ kind' = kind
        /\ at' = [at EXCEPT ![r] = "exporting"]
    BY <1>3 DEF ExportBegins, Goto
  <2>2. kind[r] # 4
    BY <1>1, <2>1, FileFacts
  <2>3. Pending(r)'
    BY <1>1, <2>1, <2>2 DEF Pending, LightTypeOK
  <2> QED BY <2>3
<1>4. CASE ExportEnds(r)
  <2>1. PICK file \in {OtherFile, WholeExport(db, source[r])} :
          /\ exports' = [exports EXCEPT ![kind[r]] = file]
          /\ file.is = "whole" => Undisturbed(r) /\ file = WholeExport(db, source[r])
    BY <1>4, ExportEndsDoes
  <2>2. at[r] = "exporting" /\ kind' = kind /\ at' = [at EXCEPT ![r] = "reduce"]
    BY <1>4 DEF ExportEnds, Goto
  <2>3. CASE kind[r] # 4
    <3>1. Pending(r)'
      BY <1>1, <2>2, <2>3 DEF Pending, LightTypeOK
    <3> QED BY <3>1
  <2>4. CASE kind[r] = 4
    <3>1. exports'[4] = file /\ Undisturbed(r) /\ file = WholeExport(db, source[r])
      BY <1>1, <2>1, <2>4
    <3>2. Made(3, source[r])
      BY <2>2, <2>4, <3>1 DEF LightInv, Progress
    <3>3. db.part = source[r]
      BY <2>2, <3>1, LoadedIsSource
    <3>4. \A k \in Kinds : exports'[k].is = "whole" /\ exports'[k].of.part = source[r]
      BY <1>1, <2>1, <2>4, <3>1, <3>2, <3>3, WholeExportFacts DEF Made, Kinds
    <3>5. exports'[4].from = source[r]
      BY <1>1, <3>1, WholeExportFacts
    <3> QED BY <3>4, <3>5 DEF Matching
  <2> QED BY <2>3, <2>4
<1> QED BY <1>2, <1>3, <1>4, ExportsKept

LEMMA LightInvInit == LightInit => LightInv
<1> SUFFICES ASSUME LightInit PROVE LightInv
  OBVIOUS
<1>1. \A r \in Restorer : ~Undisturbed(r) /\ kind[r] = 1
  BY FileFacts DEF LightInit, Undisturbed, AllWhole
<1>2. \A k \in Kinds : exports[k].is = "absent"
  BY FileFacts DEF LightInit
<1>3. ExportsAsLabelled /\ exports[4].is = "absent"
  BY <1>2 DEF ExportsAsLabelled, Kinds
<1> QED BY <1>1, <1>3, LightTypeInit DEF LightInv, AtFirst, Progress

LEMMA LightInvStep == LightInv /\ [LightNext]_allVars => LightInv'
<1> SUFFICES ASSUME LightInv, [LightNext]_allVars PROVE LightInv'
  OBVIOUS
<1>1. LightTypeOK'
  BY LightTypeStep DEF LightInv
<1>2. ASSUME UNCHANGED <<at, kind, db, exports>>,
             \A r \in Restorer : source'[r] = NoFiles \/ (source'[r] = source[r] /\ remote' = remote)
      PROVE  LightInv'
  <2>1. ASSUME NEW r \in Restorer PROVE Progress(r)'
    <3>1. CASE source'[r] = NoFiles
      BY <3>1, Disturbed
    <3>2. CASE source'[r] = source[r] /\ remote' = remote
      BY <1>2, <3>2 DEF LightInv, Progress, Undisturbed, AllWhole, Loaded, Made
    <3> QED BY <1>2, <3>1, <3>2
  <2> QED BY <1>1, <1>2, <2>1 DEF LightInv, AtFirst, ExportsAsLabelled, AllWhole, Matching, Pending
<1>3. CASE StartDump \/ LaunchFails \/ UNCHANGED allVars
  <2>1. remote' = remote /\ UNCHANGED lightVars
    BY <1>3 DEF StartDump, RsyncStart, LaunchFails, Launch, allVars, vars
  <2> QED BY <2>1, <1>2 DEF lightVars
<1>4. CASE DumpStep
  BY <1>2, <1>4 DEF DumpStep
<1>5. CASE LaunchRestore
  <2>1. PICK r \in Restorer : Begin(r)
    BY <1>5 DEF LaunchRestore
  <2>2. \A q \in Restorer : Progress(q)'
    BY <2>1, AllDisturbed DEF Begin
  <2> QED BY <1>1, <2>1, <2>2, AtFirstStep, LabelStep, MatchingStep DEF LightInv
<1>6. CASE Restore
  <2>1. PICK r \in Restorer : RestoreStep(r) /\ UNCHANGED <<vars, dumps>>
    BY <1>6 DEF Restore
  <2>2. \A q \in Restorer : Progress(q)'
    BY <2>1, OwnProgress
  <2> QED BY <1>1, <2>1, <2>2, AtFirstStep, LabelStep, MatchingStep DEF LightInv
<1> QED BY <1>3, <1>4, <1>5, <1>6 DEF LightNext

\* Each of the four files, when a restorer that nothing disturbed has made it,
\* holds what its name says of a completely loaded server: whatever failed and
\* whatever others had left in the database it dropped.
THEOREM ExportsHoldTheirLabel == LightSpec => []ExportsAsLabelled
<1>1. LightInv => ExportsAsLabelled
  BY DEF LightInv
<1> QED BY <1>1, LightInvInit, LightInvStep, PTL DEF LightSpec

\* When no restorer is at work, and the last file is of one that nothing
\* disturbed, the four are of the dump that restorer found on its host:
\* overlapping restorers never leave a mix that looks complete.
THEOREM ExportsAreOfOneDump == LightSpec => []ExportsMatch
<1>1. LightInv => ExportsMatch
  BY DEF LightInv, ExportsMatch, Matching, Quiet, Pending
<1> QED BY <1>1, LightInvInit, LightInvStep, PTL DEF LightSpec
=============================================================================
