-------------------------- MODULE ServerToolsProofs --------------------------
(***************************************************************************)
(* Proofs about ServerTools: duplicate_rb.py for any number of operational *)
(* centres, with the commands of an administrator in between.  For every   *)
(* value of the constants: a target server is started only when none of    *)
(* its databases sends its data to production (StartedNeutrally) and none  *)
(* is ahead of its synchronisation server (ServerIsNewest).                *)
(***************************************************************************)
EXTENDS ServerTools, TLAPS

\* A database, its version without the bound of the model checker.
Database == [version : Nat, of : Server]

Catalog == UNION {[names -> Database] : names \in SUBSET Base}

HeldTyped == held \in [Server -> Catalog]

DumpFile == [name : Base, db : Database, good : BOOLEAN]

Command == [name : {"dump", "drop", "restore"}, on : OC, http : BOOLEAN]

\* the part of the type invariant about duplicate_rb.py
DuplicateTyped ==
  /\ up \subseteq Server
  /\ version \in Nat
  /\ HeldTyped
  /\ pc \in [OC -> At]
  /\ extra \in [OC -> SUBSET Base]
  /\ missing \in [OC -> SUBSET Base]
  /\ conf \in [OC -> SUBSET Base]

\* and about the administrator's commands
ToolsTyped ==
  /\ files \in SUBSET DumpFile
  /\ tool \in Command \cup {NoTool}

\* a database that a stopped target has and that does not send its data to the
\* target itself is still to be configured
Neutral(oc) ==
  /\ pc[oc] \in {"configure", "start_src", "start_target"} /\ oc \notin up =>
       \A b \in DOMAIN held[oc] : b \in conf[oc] \/ held[oc][b].of = oc
  /\ pc[oc] \in {"start_src", "start_target"} => conf[oc] = {}

\* nothing is of a state that production has not had yet
Past(oc) == \A b \in DOMAIN held[oc] : held[oc][b].version <= version

\* a stopped target loses its synchronisation server, and then has one that is
\* as recent as all it holds, or none
Synced(oc) ==
  oc \notin up =>
    /\ pc[oc] = "create_sync" => Sync \notin DOMAIN held[oc]
    /\ pc[oc] \in {"list_conf", "configure", "start_src", "start_target"} /\ Sync \in DOMAIN held[oc] =>
         \A b \in DOMAIN held[oc] : held[oc][b].version <= held[oc][Sync].version

RunInv(oc) == Neutral(oc) /\ Past(oc) /\ Synced(oc)

\* nor is what an administrator has dumped
FilesPast == \A f \in files : f.db.version <= version

DuplicateInv == DuplicateTyped /\ \A oc \in OC : RunInv(oc)

ToolsInv == DuplicateInv /\ ToolsTyped /\ FilesPast
-----------------------------------------------------------------------------
(* One server's databases                                                  *)

\* The databases of a server, as a function on names.
LEMMA CatalogParts ==
  ASSUME HeldTyped, NEW s \in Server
  PROVE  /\ held[s] = [x \in DOMAIN held[s] |-> held[s][x]]
         /\ DOMAIN held[s] \subseteq Base
         /\ \A b \in DOMAIN held[s] : held[s][b] \in Database
<1>1. held[s] \in Catalog
  BY DEF HeldTyped
<1>2. PICK names \in SUBSET Base : held[s] \in [names -> Database]
  BY <1>1 DEF Catalog
<1> QED
  BY <1>2

LEMMA CatalogMade ==
  ASSUME NEW names \in SUBSET Base, NEW h \in [names -> Database]
  PROVE  h \in Catalog
BY DEF Catalog

\* A database is added or replaced.
LEMMA WithOne ==
  ASSUME HeldTyped, NEW s \in Server, NEW b \in Base, NEW db \in Database,
         held' = With(s, b, db)
  PROVE  /\ HeldTyped'
         /\ \A o \in Server \ {s} : held'[o] = held[o]
         /\ DOMAIN held'[s] = DOMAIN held[s] \cup {b}
         /\ held'[s][b] = db
         /\ \A x \in DOMAIN held[s] \ {b} : held'[s][x] = held[s][x]
<1> DEFINE h == [x \in DOMAIN held[s] \cup {b} |-> IF x = b THEN db ELSE held[s][x]]
<1>1. held' = [held EXCEPT ![s] = h]
  BY DEF With
<1>2. h \in [DOMAIN held[s] \cup {b} -> Database] /\ DOMAIN held[s] \cup {b} \subseteq Base
  BY CatalogParts
<1>3. /\ h \in Catalog /\ DOMAIN h = DOMAIN held[s] \cup {b} /\ h[b] = db
      /\ \A x \in DOMAIN held[s] \ {b} : h[x] = held[s][x]
  BY <1>2, CatalogMade
<1> HIDE DEF h
<1> QED
  BY <1>1, <1>3 DEF HeldTyped

LEMMA WithoutOne ==
  ASSUME HeldTyped, NEW s \in Server, NEW b, held' = Without(s, b)
  PROVE  /\ HeldTyped'
         /\ \A o \in Server \ {s} : held'[o] = held[o]
         /\ DOMAIN held'[s] = DOMAIN held[s] \ {b}
         /\ \A x \in DOMAIN held'[s] : held'[s][x] = held[s][x]
<1> DEFINE h == [x \in DOMAIN held[s] \ {b} |-> held[s][x]]
<1>1. held' = [held EXCEPT ![s] = h]
  BY DEF Without
<1>2. h \in [DOMAIN held[s] \ {b} -> Database] /\ DOMAIN held[s] \ {b} \subseteq Base
  BY CatalogParts
<1>3. /\ h \in Catalog /\ DOMAIN h = DOMAIN held[s] \ {b}
      /\ \A x \in DOMAIN h : h[x] = held[s][x]
  BY <1>2, CatalogMade
<1> HIDE DEF h
<1> QED
  BY <1>1, <1>3 DEF HeldTyped

-----------------------------------------------------------------------------
(* What a step does to the databases of one server                         *)

\* the database was there, with the same data
Kept(oc, b) ==
  /\ b \in DOMAIN held[oc]
  /\ held'[oc][b].version = held[oc][b].version

\* the run has just copied it from production
Copied(oc, b) == held'[oc][b].version = version

\* a dump of the administrator was restored
Restored(oc, b) == oc \in up /\ held'[oc][b].version <= version

\* A step of one run leaves the other runs and their servers alone.
Aside(oc) ==
  \A o \in OC \ {oc} :
    /\ pc'[o] = pc[o] /\ conf'[o] = conf[o]
    /\ held'[o] = held[o] /\ (o \in up' <=> o \in up)

\* What a step of a run for oc does to what the invariant is about.
Effect(oc) ==
  /\ DuplicateTyped'
  /\ Aside(oc)
  /\ version' = version
  /\ \A b \in DOMAIN held'[oc] : Kept(oc, b) \/ Copied(oc, b)

LEMMA ProdApart == \A oc \in OC : oc # Prod /\ oc \in Server
BY DuplicateAssumption DEF Server

\* CREATE DATABASE, whether or not it succeeds.
LEMMA CopyEffect ==
  ASSUME DuplicateTyped, NEW oc \in OC, NEW b \in Base, CopyOrPrint(oc, b)
  PROVE  /\ HeldTyped'
         /\ \A o \in OC \ {oc} : held'[o] = held[o]
         /\ \A x \in DOMAIN held'[oc] : Kept(oc, x) \/ Copied(oc, x)
<1> DEFINE db == [version |-> version, of |-> Prod]
<1>0. oc \in Server /\ Cut[b] \in Base /\ db \in Database /\ HeldTyped
  BY ProdApart, DuplicateAssumption DEF DuplicateTyped, Database, Server
<1>1. CASE held' = Copy(oc, b)
  <2>1. held' = With(oc, Cut[b], db)
    BY <1>1 DEF Copy
  <2>2. db.version = version
    OBVIOUS
  <2> HIDE DEF db
  <2>3. /\ HeldTyped'
        /\ \A o \in Server \ {oc} : held'[o] = held[o]
        /\ DOMAIN held'[oc] = DOMAIN held[oc] \cup {Cut[b]}
        /\ held'[oc][Cut[b]] = db
        /\ \A x \in DOMAIN held[oc] \ {Cut[b]} : held'[oc][x] = held[oc][x]
    BY <1>0, <2>1, WithOne
  <2> QED
    BY <2>2, <2>3, ProdApart DEF Kept, Copied
<1>2. CASE held' = held
  BY <1>0, <1>2 DEF HeldTyped, Kept
<1> QED
  BY <1>1, <1>2 DEF CopyOrPrint

LEMMA Unchanged ==
  ASSUME DuplicateTyped, NEW oc \in OC, held' = held
  PROVE  HeldTyped' /\ (\A o \in OC \ {oc} : held'[o] = held[o])
         /\ \A b \in DOMAIN held'[oc] : Kept(oc, b)
BY DEF DuplicateTyped, HeldTyped, Kept

LEMMA StopTargetEffect ==
  ASSUME DuplicateTyped, NEW oc \in OC, StopTarget(oc)
  PROVE  Effect(oc)
<1>1. /\ pc[oc] = "stop_target" /\ pc' = [pc EXCEPT ![oc] = "list"]
      /\ up' = up \ {oc} \/ up' = up
      /\ version' = version /\ held' = held /\ extra' = extra
      /\ missing' = missing /\ conf' = conf
  BY DEF StopTarget, Stop, Goto
<1>2. DuplicateTyped'
  BY <1>1, Unchanged DEF DuplicateTyped, At
<1>3. Aside(oc)
  BY <1>1 DEF Aside, DuplicateTyped
<1> QED
  BY <1>1, <1>2, <1>3, Unchanged DEF Effect, DuplicateTyped, At

\* Of the steps that leave the services alone, what is known of pc and conf
\* decides.
LEMMA PlainEffect ==
  ASSUME DuplicateTyped, NEW oc \in OC,
         NEW to \in At, pc' = [pc EXCEPT ![oc] = to],
         NEW c \in SUBSET Base, conf' = [conf EXCEPT ![oc] = c],
         HeldTyped', \A o \in OC \ {oc} : held'[o] = held[o],
         \A b \in DOMAIN held'[oc] : Kept(oc, b) \/ Copied(oc, b),
         extra' \in [OC -> SUBSET Base], missing' \in [OC -> SUBSET Base],
         up' = up \/ up' = up \cup {oc}
           \/ up' = up \cup {Prod},
         version' = version
  PROVE  Effect(oc)
<1>1. DuplicateTyped'
  <2>1. up' \subseteq Server
    BY DEF DuplicateTyped, Server
  <2>2. pc' \in [OC -> At] /\ conf' \in [OC -> SUBSET Base]
    BY DEF DuplicateTyped
  <2> QED
    BY <2>1, <2>2 DEF DuplicateTyped
<1>2. Aside(oc)
  BY ProdApart DEF Aside, DuplicateTyped
<1> QED
  BY <1>1, <1>2 DEF Effect

LEMMA ListEffect ==
  ASSUME DuplicateTyped, NEW oc \in OC, ListDatabases(oc)
  PROVE  Effect(oc)
<1>1. Sources(oc) \subseteq Base
  BY DuplicateAssumption DEF Sources
<1>2. DOMAIN held[oc] \subseteq Base
  BY CatalogParts, ProdApart DEF DuplicateTyped
<1>3. PICK f \in SUBSET Sources(oc) : missing' = [missing EXCEPT ![oc] = Sources(oc) \ f]
  BY DEF ListDatabases
<1>4. missing' \in [OC -> SUBSET Base]
  BY <1>1, <1>3 DEF DuplicateTyped
<1>5. PICK e \in SUBSET DOMAIN held[oc] : extra' = [extra EXCEPT ![oc] = e]
  BY DEF ListDatabases
<1>6. extra' \in [OC -> SUBSET Base]
  BY <1>2, <1>5 DEF DuplicateTyped
<1>7. /\ pc' = [pc EXCEPT ![oc] = "drop"] /\ conf' = conf /\ held' = held /\ up' = up
      /\ version' = version
  BY DEF ListDatabases, Goto
<1>8. conf' = [conf EXCEPT ![oc] = conf[oc]] /\ conf[oc] \in SUBSET Base
  BY <1>7 DEF DuplicateTyped
<1> QED
  BY <1>4, <1>6, <1>7, <1>8, Unchanged, PlainEffect DEF At

LEMMA DropEffect ==
  ASSUME DuplicateTyped, NEW oc \in OC, Drop(oc)
  PROVE  Effect(oc)
<1>0. oc \in Server /\ HeldTyped
  BY ProdApart DEF DuplicateTyped
<1>1. /\ conf' = conf /\ up' = up /\ missing' = missing
      /\ version' = version
  BY DEF Drop
<1>2. conf' = [conf EXCEPT ![oc] = conf[oc]] /\ conf[oc] \in SUBSET Base
  BY <1>1 DEF DuplicateTyped
<1>3. PICK to \in {"drop", "create", "failed"} : pc' = [pc EXCEPT ![oc] = to]
  <2>1. CASE UNCHANGED pc /\ pc[oc] = "drop"
    BY <2>1 DEF DuplicateTyped
  <2> QED
    BY <2>1 DEF Drop, Goto, Raise
<1>4. extra' \in [OC -> SUBSET Base]
  BY DEF Drop, DuplicateTyped
<1>5. CASE held' = held
  BY <1>1, <1>2, <1>3, <1>4, <1>5, Unchanged, PlainEffect DEF At, DuplicateTyped
<1>6. CASE \E b \in extra[oc] : held' = Without(oc, b)
  <2>1. PICK b : held' = Without(oc, b)
    BY <1>6
  <2>2. /\ HeldTyped' /\ \A o \in OC \ {oc} : held'[o] = held[o]
        /\ \A x \in DOMAIN held'[oc] : Kept(oc, x)
    BY <1>0, <2>1, WithoutOne, ProdApart DEF Kept
  <2> QED
    BY <1>1, <1>2, <1>3, <1>4, <2>2, PlainEffect DEF At, DuplicateTyped
<1> QED
  BY <1>5, <1>6 DEF Drop

LEMMA CreateEffect ==
  ASSUME DuplicateTyped, NEW oc \in OC, Create(oc)
  PROVE  Effect(oc)
<1>1. /\ conf' = conf /\ up' = up /\ extra' = extra
      /\ version' = version
  BY DEF Create
<1>2. conf' = [conf EXCEPT ![oc] = conf[oc]] /\ conf[oc] \in SUBSET Base
  BY <1>1 DEF DuplicateTyped
<1>3. CASE Goto(oc, "create", "drop_sync") /\ held' = held /\ missing' = missing
  BY <1>1, <1>2, <1>3, Unchanged, PlainEffect DEF At, Goto, DuplicateTyped
<1>4. CASE \E b \in missing[oc] :
             /\ pc[oc] = "create" /\ CopyOrPrint(oc, b) /\ UNCHANGED pc
             /\ missing' = [missing EXCEPT ![oc] = @ \ {b}]
  <2>1. PICK b \in missing[oc] :
          /\ pc[oc] = "create" /\ CopyOrPrint(oc, b) /\ UNCHANGED pc
          /\ missing' = [missing EXCEPT ![oc] = @ \ {b}]
    BY <1>4
  <2>2. b \in Base /\ missing' \in [OC -> SUBSET Base]
    BY <2>1 DEF DuplicateTyped
  <2>3. pc' = [pc EXCEPT ![oc] = "create"] /\ pc'[oc] = "create"
    BY <2>1 DEF DuplicateTyped
  <2>4. /\ HeldTyped' /\ \A o \in OC \ {oc} : held'[o] = held[o]
        /\ \A x \in DOMAIN held'[oc] : Kept(oc, x) \/ Copied(oc, x)
    BY <2>1, <2>2, <2>3, CopyEffect
  <2> QED
    BY <1>1, <1>2, <2>2, <2>3, <2>4, PlainEffect DEF At, DuplicateTyped
<1> QED
  BY <1>3, <1>4 DEF Create

LEMMA SyncEffect ==
  ASSUME DuplicateTyped, NEW oc \in OC, DropSync(oc) \/ CreateSync(oc)
  PROVE  Effect(oc)
<1>0. oc \in Server /\ HeldTyped /\ Sync \in Base
  BY ProdApart, DuplicateAssumption DEF DuplicateTyped
<1>1. /\ conf' = conf /\ up' = up /\ extra' = extra /\ missing' = missing
      /\ version' = version
  BY DEF DropSync, CreateSync
<1>2. conf' = [conf EXCEPT ![oc] = conf[oc]] /\ conf[oc] \in SUBSET Base
  BY <1>1 DEF DuplicateTyped
<1>3. CASE DropSync(oc)
  <2>1. PICK to \in {"create_sync", "failed"} : pc' = [pc EXCEPT ![oc] = to]
    BY <1>3 DEF DropSync, Goto, Raise
  <2>2. held' = held \/ held' = Without(oc, Sync)
    BY <1>3 DEF DropSync
  <2>3. /\ HeldTyped' /\ \A o \in OC \ {oc} : held'[o] = held[o]
        /\ \A x \in DOMAIN held'[oc] : Kept(oc, x)
    <3>1. CASE held' = held
      BY <3>1, Unchanged
    <3>2. CASE held' = Without(oc, Sync)
      BY <1>0, <3>2, WithoutOne, ProdApart DEF Kept
    <3> QED
      BY <2>2, <3>1, <3>2
  <2> QED
    BY <1>1, <1>2, <2>1, <2>3, PlainEffect DEF At, DuplicateTyped
<1>4. CASE CreateSync(oc)
  <2>1. pc[oc] = "create_sync" /\ pc' = [pc EXCEPT ![oc] = "list_conf"] /\ CopyOrPrint(oc, Sync)
    BY <1>4 DEF CreateSync, Goto
  <2>2. pc'[oc] = "list_conf"
    BY <2>1 DEF DuplicateTyped
  <2>3. /\ HeldTyped' /\ \A o \in OC \ {oc} : held'[o] = held[o]
        /\ \A x \in DOMAIN held'[oc] : Kept(oc, x) \/ Copied(oc, x)
    BY <1>0, <2>1, <2>2, CopyEffect
  <2> QED
    BY <1>1, <1>2, <2>1, <2>3, PlainEffect DEF At, DuplicateTyped
<1> QED
  BY <1>3, <1>4

LEMMA StartEffect ==
  ASSUME DuplicateTyped, NEW oc \in OC, StartSrc(oc) \/ StartTarget(oc) \/ ListConf(oc)
  PROVE  Effect(oc)
<1>0. DOMAIN held[oc] \subseteq Base
  BY CatalogParts, ProdApart DEF DuplicateTyped
<1>1. /\ held' = held /\ extra' = extra /\ missing' = missing
      /\ version' = version
  BY DEF StartSrc, StartTarget, Start, ListConf
<1>2. PICK c \in SUBSET Base : conf' = [conf EXCEPT ![oc] = c]
  <2>1. CASE conf' = conf
    BY <2>1 DEF DuplicateTyped
  <2> QED
    BY <1>0, <2>1 DEF StartSrc, StartTarget, Start, ListConf
<1>3. CASE StartSrc(oc)
  BY <1>1, <1>2, <1>3, Unchanged, PlainEffect DEF At, DuplicateTyped, StartSrc, Start, Goto
<1>4. CASE StartTarget(oc)
  BY <1>1, <1>2, <1>4, Unchanged, PlainEffect DEF At, DuplicateTyped, StartTarget, Start, Goto
<1>5. CASE ListConf(oc)
  BY <1>1, <1>2, <1>5, Unchanged, PlainEffect DEF At, DuplicateTyped, ListConf, Goto
<1> QED
  BY <1>3, <1>4, <1>5

LEMMA ConfigureEffect ==
  ASSUME DuplicateTyped, NEW oc \in OC, Configure(oc)
  PROVE  Effect(oc)
<1>0. oc \in Server /\ HeldTyped /\ conf[oc] \in SUBSET Base
  BY ProdApart DEF DuplicateTyped
<1>1. /\ extra' = extra /\ missing' = missing /\ up' = up
      /\ version' = version
  BY DEF Configure
<1>2. CASE /\ held' = held /\ conf' = conf
           /\ \E to \in {"failed", "start_src"} : pc' = [pc EXCEPT ![oc] = to]
  <2>1. conf' = [conf EXCEPT ![oc] = conf[oc]]
    BY <1>2 DEF DuplicateTyped
  <2>2. PICK to \in {"failed", "start_src"} : pc' = [pc EXCEPT ![oc] = to]
    BY <1>2
  <2> QED
    BY <1>0, <1>1, <1>2, <2>1, <2>2, Unchanged, PlainEffect DEF At, DuplicateTyped
<1>3. CASE \E b \in conf[oc] \cap DOMAIN held[oc] :
             /\ pc[oc] = "configure"
             /\ held' = With(oc, b, [held[oc][b] EXCEPT !.of = oc])
             /\ conf' = [conf EXCEPT ![oc] = @ \ {b}]
             /\ UNCHANGED pc
  <2>1. PICK b \in conf[oc] \cap DOMAIN held[oc] :
             /\ pc[oc] = "configure"
             /\ held' = With(oc, b, [held[oc][b] EXCEPT !.of = oc])
             /\ conf' = [conf EXCEPT ![oc] = @ \ {b}]
             /\ UNCHANGED pc
    BY <1>3
  <2> DEFINE db == [held[oc][b] EXCEPT !.of = oc]
  <2>2. b \in Base /\ db \in Database /\ db.version = held[oc][b].version
    BY <1>0, CatalogParts DEF Database
  <2>3. held' = With(oc, b, db)
    BY <2>1
  <2> HIDE DEF db
  <2>4. /\ HeldTyped'
        /\ \A o \in Server \ {oc} : held'[o] = held[o]
        /\ DOMAIN held'[oc] = DOMAIN held[oc] \cup {b}
        /\ held'[oc][b] = db
        /\ \A x \in DOMAIN held[oc] \ {b} : held'[oc][x] = held[oc][x]
    BY <1>0, <2>2, <2>3, WithOne
  <2>5. /\ \A o \in OC \ {oc} : held'[o] = held[o]
        /\ \A x \in DOMAIN held'[oc] : Kept(oc, x)
    BY <2>2, <2>4, ProdApart DEF Kept
  <2>6. pc' = [pc EXCEPT ![oc] = "configure"]
    BY <2>1 DEF DuplicateTyped
  <2>7. PICK c \in SUBSET Base : conf' = [conf EXCEPT ![oc] = c]
    BY <1>0, <2>1
  <2>8. HeldTyped' /\ "configure" \in At
    BY <2>4 DEF At
  <2>9. extra' \in [OC -> SUBSET Base] /\ missing' \in [OC -> SUBSET Base]
    BY <1>1 DEF DuplicateTyped
  <2> QED
    BY <1>1, <2>5, <2>6, <2>7, <2>8, <2>9, PlainEffect
<1> QED
  BY <1>2, <1>3 DEF Configure, Goto, Raise

LEMMA StepEffect ==
  ASSUME DuplicateTyped, NEW oc \in OC, Step(oc)
  PROVE  Effect(oc)
BY StopTargetEffect, ListEffect, DropEffect, CreateEffect, SyncEffect,
   ConfigureEffect, StartEffect DEF Step

-----------------------------------------------------------------------------
(* The invariant of the runs                                               *)

\* A step of one run keeps what is known of another.
LEMMA OthersKept ==
  ASSUME DuplicateInv, NEW oc \in OC, Effect(oc), NEW o \in OC \ {oc}
  PROVE  RunInv(o)'
<1>1. RunInv(o)
  BY DEF DuplicateInv
<1>2. /\ pc'[o] = pc[o] /\ conf'[o] = conf[o] /\ version' = version
      /\ held'[o] = held[o] /\ (o \in up' <=> o \in up)
  BY DEF Effect, Aside
<1>3. Neutral(o)'
  BY <1>1, <1>2 DEF RunInv, Neutral
<1>4. Past(o)' /\ Synced(o)'
  BY <1>1, <1>2 DEF RunInv, Past, Synced
<1> QED
  BY <1>3, <1>4 DEF RunInv

\* What a target server finds when it is started: this depends on what each
\* step does to conf and to where the databases send their data.
LEMMA NeutralKept ==
  ASSUME DuplicateInv, NEW oc \in OC, Step(oc), Effect(oc)
  PROVE  Neutral(oc)'
<1>0. Neutral(oc) /\ oc \in Server /\ HeldTyped /\ pc[oc] \in At /\ oc # Prod
  BY ProdApart DEF DuplicateInv, DuplicateTyped, RunInv
<1> USE DEF DuplicateInv, DuplicateTyped
<1>1. CASE StopTarget(oc)
  BY <1>1 DEF StopTarget, Goto, Neutral
<1>2. CASE ListDatabases(oc)
  BY <1>2 DEF ListDatabases, Goto, Neutral
<1>3. CASE Drop(oc)
  <2>1. pc'[oc] \in {"drop", "create", "failed"}
    BY <1>3 DEF Drop, Goto, Raise
  <2> QED
    BY <2>1 DEF Neutral
<1>4. CASE Create(oc)
  <2>1. pc'[oc] \in {"create", "drop_sync"}
    BY <1>4 DEF Create, Goto
  <2> QED
    BY <2>1 DEF Neutral
<1>5. CASE DropSync(oc) \/ CreateSync(oc)
  <2>1. pc'[oc] \in {"create_sync", "failed", "list_conf"}
    BY <1>5 DEF DropSync, CreateSync, Goto, Raise
  <2> QED
    BY <2>1 DEF Neutral
<1>6. CASE ListConf(oc)
  BY <1>6 DEF ListConf, Goto, Neutral
<1>7. CASE StartSrc(oc)
  BY <1>0, <1>7 DEF StartSrc, Start, Goto, Neutral
<1>8. CASE StartTarget(oc)
  BY <1>8 DEF StartTarget, Start, Goto, Neutral
<1>9. CASE Configure(oc)
  <2>1. CASE held' = held /\ conf' = conf /\ up' = up
    <3>1. pc'[oc] \in {"failed", "start_src"} /\ (pc'[oc] = "start_src" => pc[oc] = "configure" /\ conf[oc] = {})
      BY <1>9, <2>1 DEF Configure, Goto, Raise
    <3> QED
      BY <1>0, <2>1, <3>1 DEF Neutral
  <2>2. CASE \E b \in conf[oc] \cap DOMAIN held[oc] :
             /\ pc[oc] = "configure"
             /\ held' = With(oc, b, [held[oc][b] EXCEPT !.of = oc])
             /\ conf' = [conf EXCEPT ![oc] = @ \ {b}]
             /\ UNCHANGED <<pc, up>>
    <3>1. PICK b \in conf[oc] \cap DOMAIN held[oc] :
             /\ pc[oc] = "configure"
             /\ held' = With(oc, b, [held[oc][b] EXCEPT !.of = oc])
             /\ conf' = [conf EXCEPT ![oc] = @ \ {b}]
             /\ UNCHANGED <<pc, up>>
      BY <2>2
    <3> DEFINE db == [held[oc][b] EXCEPT !.of = oc]
    <3>2. b \in Base /\ db \in Database /\ db.of = oc
      BY <1>0, CatalogParts DEF Database
    <3>3. held' = With(oc, b, db)
      BY <3>1
    <3> HIDE DEF db
    <3>4. /\ DOMAIN held'[oc] = DOMAIN held[oc] \cup {b}
          /\ held'[oc][b] = db
          /\ \A x \in DOMAIN held[oc] \ {b} : held'[oc][x] = held[oc][x]
      BY <1>0, <3>2, <3>3, WithOne
    <3>5. conf'[oc] = conf[oc] \ {b} /\ pc'[oc] = "configure" /\ up' = up
      BY <3>1
    <3> QED
      BY <1>0, <3>1, <3>2, <3>4, <3>5 DEF Neutral
  <2> QED
    BY <1>9, <2>1, <2>2 DEF Configure
<1> QED
  BY <1>1, <1>2, <1>3, <1>4, <1>5, <1>6, <1>7, <1>8, <1>9 DEF Step

\* A run has nothing of a state to come.
LEMMA PastKept ==
  ASSUME DuplicateInv, NEW oc \in OC, Effect(oc)
  PROVE  Past(oc)'
<1>1. Past(oc) /\ version \in Nat
  BY DEF DuplicateInv, DuplicateTyped, RunInv
<1> QED
  BY <1>1 DEF Past, Effect, Kept, Copied

\* The synchronisation server is dropped, and copied when all else has been.
LEMMA SyncedKept ==
  ASSUME DuplicateInv, NEW oc \in OC, Step(oc), Effect(oc)
  PROVE  Synced(oc)'
<1>0. /\ Synced(oc) /\ Past(oc) /\ oc \in Server /\ HeldTyped /\ pc[oc] \in At /\ oc # Prod
      /\ Sync \in Base /\ Cut[Sync] = Sync /\ version \in Nat
  BY ProdApart, DuplicateAssumption DEF DuplicateInv, DuplicateTyped, RunInv
<1> USE DEF DuplicateInv, DuplicateTyped
<1>1. CASE StopTarget(oc)
  BY <1>1 DEF StopTarget, Goto, Synced
<1>2. CASE ListDatabases(oc)
  BY <1>2 DEF ListDatabases, Goto, Synced
<1>3. CASE Drop(oc)
  <2>1. pc'[oc] \in {"drop", "create", "failed"}
    BY <1>3 DEF Drop, Goto, Raise
  <2> QED
    BY <2>1 DEF Synced
<1>4. CASE Create(oc)
  <2>1. pc'[oc] \in {"create", "drop_sync"}
    BY <1>4 DEF Create, Goto
  <2> QED
    BY <2>1 DEF Synced
<1>5. CASE DropSync(oc)
  <2>1. CASE held' = Without(oc, Sync) /\ pc'[oc] = "create_sync"
    <3>1. Sync \notin DOMAIN held'[oc]
      BY <1>0, <2>1, WithoutOne
    <3> QED
      BY <2>1, <3>1 DEF Synced
  <2>2. CASE pc'[oc] = "failed"
    BY <2>2 DEF Synced
  <2> QED
    BY <1>5, <2>1, <2>2 DEF DropSync, Goto, Raise
<1>6. CASE CreateSync(oc)
  <2>1. pc[oc] = "create_sync" /\ pc'[oc] = "list_conf" /\ up' = up /\ CopyOrPrint(oc, Sync)
    BY <1>6 DEF CreateSync, Goto
  <2> SUFFICES ASSUME oc \notin up, Sync \in DOMAIN held'[oc]
               PROVE  \A b \in DOMAIN held'[oc] : held'[oc][b].version <= held'[oc][Sync].version
    BY <2>1 DEF Synced
  <2>2. Sync \notin DOMAIN held[oc]
    BY <1>0, <2>1 DEF Synced
  <2> DEFINE db == [version |-> version, of |-> Prod]
  <2>3. held' = With(oc, Sync, db)
    BY <1>0, <2>1, <2>2 DEF CopyOrPrint, Copy
  <2>4. db \in Database /\ db.version = version
    BY <1>0 DEF Database, Server
  <2> HIDE DEF db
  <2>5. held'[oc][Sync] = db
    BY <1>0, <2>3, <2>4, WithOne
  <2> QED
    BY <1>0, <2>4, <2>5 DEF Past, Effect, Kept, Copied
<1>7. CASE ListConf(oc)
  BY <1>0, <1>7 DEF ListConf, Goto, Synced
<1>8. CASE StartSrc(oc)
  BY <1>0, <1>8 DEF StartSrc, Start, Goto, Synced
<1>9. CASE StartTarget(oc)
  BY <1>9 DEF StartTarget, Start, Goto, Synced
<1>10. CASE Configure(oc)
  <2>1. up' = up /\ pc[oc] = "configure" /\ pc'[oc] \in {"configure", "failed", "start_src"}
    BY <1>10 DEF Configure, Goto, Raise
  <2>2. CASE held' = held
    BY <1>0, <2>1, <2>2 DEF Synced
  <2>3. CASE \E b \in conf[oc] \cap DOMAIN held[oc] :
               held' = With(oc, b, [held[oc][b] EXCEPT !.of = oc])
    <3>1. PICK b \in DOMAIN held[oc] : held' = With(oc, b, [held[oc][b] EXCEPT !.of = oc])
      BY <2>3
    <3> DEFINE db == [held[oc][b] EXCEPT !.of = oc]
    <3>2. b \in Base /\ db \in Database /\ db.version = held[oc][b].version
      BY <1>0, CatalogParts DEF Database
    <3>3. held' = With(oc, b, db)
      BY <3>1
    <3> HIDE DEF db
    <3>4. /\ DOMAIN held'[oc] = DOMAIN held[oc] \cup {b}
          /\ held'[oc][b] = db
          /\ \A x \in DOMAIN held[oc] \ {b} : held'[oc][x] = held[oc][x]
      BY <1>0, <3>2, <3>3, WithOne
    <3>5. /\ DOMAIN held'[oc] = DOMAIN held[oc]
          /\ \A x \in DOMAIN held[oc] : held'[oc][x].version = held[oc][x].version
      BY <3>2, <3>4
    <3> QED
      BY <1>0, <2>1, <3>5 DEF Synced
  <2> QED
    BY <1>10, <2>2, <2>3 DEF Configure
<1> QED
  BY <1>1, <1>2, <1>3, <1>4, <1>5, <1>6, <1>7, <1>8, <1>9, <1>10 DEF Step

LEMMA StopSrcKeeps ==
  ASSUME DuplicateInv, NEW oc \in OC, StopSrc(oc)
  PROVE  DuplicateInv'
<1>1. /\ pc' = [pc EXCEPT ![oc] = "stop_target"]
      /\ up' = up \ {Prod} \/ up' = up
      /\ UNCHANGED <<version, held, extra, missing, conf>>
  BY DEF StopSrc, Stop
<1>2. DuplicateTyped /\ \A o \in OC : RunInv(o)
  BY DEF DuplicateInv
<1>3. DuplicateTyped'
  <2>1. HeldTyped'
    BY <1>1, <1>2 DEF DuplicateTyped, HeldTyped
  <2> QED
    BY <1>1, <1>2, <2>1 DEF DuplicateTyped, At
<1>4. RunInv(oc)'
  <2>1. pc'[oc] = "stop_target"
    BY <1>1, <1>2 DEF DuplicateTyped
  <2>2. Neutral(oc)' /\ Synced(oc)'
    BY <2>1 DEF Neutral, Synced
  <2>3. Past(oc)'
    BY <1>1, <1>2 DEF RunInv, Past
  <2> QED
    BY <2>2, <2>3 DEF RunInv
<1>5. ASSUME NEW o \in OC \ {oc}
      PROVE  RunInv(o)'
  <2>1. /\ pc'[o] = pc[o] /\ held' = held /\ conf' = conf
        /\ version' = version /\ (o \in up' <=> o \in up)
    BY <1>1, <1>2, ProdApart DEF DuplicateTyped
  <2> QED
    BY <1>2, <2>1 DEF RunInv, Neutral, Past, Synced
<1> QED
  BY <1>3, <1>4, <1>5 DEF DuplicateInv

LEMMA WorkKeeps ==
  ASSUME DuplicateInv, Work
  PROVE  DuplicateInv'
<1>1. /\ Prod \in up /\ version' = version + 1
      /\ UNCHANGED <<up, held, pc, extra, missing, conf>>
  BY DEF Work
<1>2. DuplicateTyped'
  <2>1. version' \in Nat
    BY <1>1 DEF DuplicateInv, DuplicateTyped
  <2> QED
    BY <1>1, <2>1 DEF DuplicateInv, DuplicateTyped, HeldTyped
<1>3. ASSUME NEW oc \in OC
      PROVE  RunInv(oc)'
  <2>1. RunInv(oc)
    BY DEF DuplicateInv
  <2>2. Neutral(oc)' /\ Synced(oc)'
    BY <1>1, <2>1 DEF RunInv, Neutral, Synced
  <2>3. version \in Nat /\ \A b \in DOMAIN held[oc] : held[oc][b].version \in Nat
    BY CatalogParts, ProdApart DEF DuplicateInv, DuplicateTyped, Database
  <2>4. Past(oc)'
    BY <1>1, <2>1, <2>3 DEF RunInv, Past
  <2> QED
    BY <2>2, <2>4 DEF RunInv
<1> QED
  BY <1>2, <1>3 DEF DuplicateInv

LEMMA StepKeeps ==
  ASSUME DuplicateInv, NEW oc \in OC, Step(oc)
  PROVE  DuplicateInv'
<1>1. Effect(oc)
  BY StepEffect DEF DuplicateInv
<1>2. RunInv(oc)'
  BY <1>1, NeutralKept, PastKept, SyncedKept DEF RunInv
<1>3. \A o \in OC \ {oc} : RunInv(o)'
  BY <1>1, OthersKept
<1> QED
  BY <1>1, <1>2, <1>3 DEF DuplicateInv, Effect

\* The administrator drops or restores a database.
LEMMA HeldKeeps ==
  ASSUME DuplicateInv, NEW s \in OC,
         UNCHANGED <<up, version, pc, extra, missing, conf>>,
         HeldTyped', \A o \in OC \ {s} : held'[o] = held[o],
         \A b \in DOMAIN held'[s] :
           \/ b \in DOMAIN held[s] /\ held'[s][b] = held[s][b]
           \/ Restored(s, b)
  PROVE  DuplicateInv'
<1>1. DuplicateTyped'
  BY DEF DuplicateInv, DuplicateTyped
<1>2. ASSUME NEW oc \in OC
      PROVE  RunInv(oc)'
  <2>1. RunInv(oc)
    BY DEF DuplicateInv
  <2>2. \A b \in DOMAIN held'[oc] :
           \/ b \in DOMAIN held[oc] /\ held'[oc][b] = held[oc][b]
           \/ oc \in up /\ held'[oc][b].version <= version
    BY DEF Restored
  <2>3. Neutral(oc)'
    BY <2>1, <2>2 DEF RunInv, Neutral
  <2>4. Past(oc)'
    BY <2>1, <2>2 DEF RunInv, Past
  <2>5. Synced(oc)'
    BY <2>1, <2>2 DEF RunInv, Synced
  <2> QED
    BY <2>3, <2>4, <2>5 DEF RunInv
<1> QED
  BY <1>1, <1>2 DEF DuplicateInv

-----------------------------------------------------------------------------
(* The administrator's commands                                            *)

\* A command found by its name is a whole command.
LEMMA CommandParts ==
  ASSUME ToolsTyped, tool # NoTool
  PROVE  tool.name \in {"dump", "drop", "restore"} /\ tool.on \in OC
BY DEF ToolsTyped, Command, NoTool

LEMMA ListKeeps ==
  ASSUME ToolsTyped, FilesPast, NEW name \in {"dump", "drop", "restore"}, NEW s \in OC,
         NEW http \in BOOLEAN, NEW list, List(name, s, http, list)
  PROVE  ToolsTyped' /\ FilesPast' /\ UNCHANGED vars
<1> DEFINE command == [name |-> name, on |-> s, http |-> http]
<1>1. tool' = command /\ files' = files /\ UNCHANGED vars
  BY DEF List
<1>2. command \in Command
  BY DEF Command
<1> HIDE DEF command
<1> QED
  BY <1>1, <1>2 DEF ToolsTyped, FilesPast, vars

LEMMA CommandsListed ==
  ASSUME ToolsTyped, FilesPast, DumpAll \/ DropAll \/ RestoreAll
  PROVE  ToolsTyped' /\ FilesPast' /\ UNCHANGED vars
<1>1. \A s \in Host : s \in OC
  BY ToolsAssumption
<1>2. PICK name \in {"dump", "drop", "restore"}, s \in Host, http \in BOOLEAN :
        \E list : List(name, s, http, list)
  <2>1. CASE DumpAll
    <3>1. PICK s \in Host, mode \in Mode, exclude \in Excludes :
            List("dump", s, mode = "http", DOMAIN held[s] \ exclude)
      BY <2>1 DEF DumpAll
    <3>2. PICK http \in BOOLEAN : http <=> mode = "http"
      OBVIOUS
    <3>3. List("dump", s, http, DOMAIN held[s] \ exclude)
      BY <3>1, <3>2
    <3> QED
      BY <3>3
  <2>2. CASE DropAll
    BY <2>2 DEF DropAll
  <2>3. CASE RestoreAll
    BY <2>3 DEF RestoreAll
  <2> QED
    BY <2>1, <2>2, <2>3
<1>3. PICK list : List(name, s, http, list)
  BY <1>2
<1> QED
  BY <1>1, <1>3, ListKeeps

LEMMA DumpOneKeeps ==
  ASSUME DuplicateInv, ToolsTyped, FilesPast, NEW b \in Base, DumpOne(b)
  PROVE  ToolsTyped' /\ FilesPast' /\ UNCHANGED vars
<1>1. tool # NoTool /\ tool' = tool /\ UNCHANGED vars /\ version' = version
  BY DEF DumpOne, Doing, vars
<1>2. PICK db \in Database, good \in BOOLEAN : Saved(b, db, good) /\ db.version <= version
  <2>1. CASE b \in DOMAIN held[tool.on] /\ Saved(b, held[tool.on][b], TRUE)
    <3>1. held[tool.on][b] \in Database /\ held[tool.on][b].version <= version
      BY <1>1, <2>1, CommandParts, CatalogParts, ProdApart
         DEF DuplicateInv, DuplicateTyped, RunInv, Past
    <3> QED
      BY <2>1, <3>1
  <2>2. CASE Saved(b, [version |-> 0, of |-> tool.on], FALSE)
    <3> DEFINE empty == [version |-> 0, of |-> tool.on]
    <3>1. empty \in Database /\ empty.version = 0 /\ version \in Nat /\ 0 <= version
      BY <1>1, CommandParts, ProdApart DEF Database, DuplicateInv, DuplicateTyped
    <3>2. Saved(b, empty, FALSE)
      BY <2>2
    <3> HIDE DEF empty
    <3> QED
      BY <3>1, <3>2
  <2> QED
    BY <2>1, <2>2 DEF DumpOne
<1> DEFINE f == [name |-> b, db |-> db, good |-> good]
<1>3. f \in DumpFile /\ f.db = db
  BY DEF DumpFile
<1>4. files' = files \cup {f}
  BY <1>2 DEF Saved
<1> HIDE DEF f
<1>5. ToolsTyped'
  BY <1>1, <1>3, <1>4 DEF ToolsTyped
<1>6. FilesPast'
  BY <1>1, <1>2, <1>3, <1>4 DEF FilesPast
<1> QED
  BY <1>1, <1>5, <1>6

LEMMA DropOneKeeps ==
  ASSUME DuplicateInv, ToolsTyped, FilesPast, NEW b \in Base, DropOne(b)
  PROVE  DuplicateInv' /\ ToolsTyped' /\ FilesPast'
<1>1. /\ tool # NoTool /\ tool.name = "drop"
      /\ UNCHANGED <<up, version, pc, extra, missing, conf, tool, files>>
      /\ held' = held \/ held' = Without(tool.on, b)
  BY DEF DropOne, Doing
<1>2. PICK s \in OC : s = tool.on /\ s \in Server /\ HeldTyped
  BY <1>1, CommandParts, ProdApart DEF DuplicateInv, DuplicateTyped
<1>3. ToolsTyped' /\ FilesPast'
  BY <1>1 DEF ToolsTyped, FilesPast
<1> SUFFICES DuplicateInv'
  BY <1>3
<1>4. CASE held' = held
  <2>1. HeldTyped' /\ \A o \in OC : held'[o] = held[o]
    BY <1>2, <1>4 DEF HeldTyped
  <2> QED
    BY <1>1, <1>2, <1>4, <2>1, HeldKeeps
<1>5. CASE held' = Without(s, b)
  <2>1. /\ HeldTyped' /\ \A o \in OC \ {s} : held'[o] = held[o]
        /\ \A x \in DOMAIN held'[s] :
             x \in DOMAIN held[s] /\ held'[s][x] = held[s][x]
    BY <1>2, <1>5, WithoutOne, ProdApart
  <2> QED
    BY <1>1, <1>2, <2>1, HeldKeeps
<1> QED
  BY <1>1, <1>2, <1>4, <1>5

LEMMA RestoreOneKeeps ==
  ASSUME DuplicateInv, ToolsTyped, FilesPast, NEW f \in files, RestoreOne(f)
  PROVE  DuplicateInv' /\ ToolsTyped' /\ FilesPast'
<1>1. /\ tool # NoTool /\ tool.name = "restore"
      /\ UNCHANGED <<up, version, pc, extra, missing, conf, tool, files>>
      /\ \/ held' = held
         \/ tool.on \in up /\ held' = With(tool.on, f.name, f.db)
  BY DEF RestoreOne, Doing
<1>2. PICK s \in OC : s = tool.on /\ s \in Server /\ HeldTyped
  BY <1>1, CommandParts, ProdApart DEF DuplicateInv, DuplicateTyped
<1>3. ToolsTyped' /\ FilesPast'
  BY <1>1 DEF ToolsTyped, FilesPast
<1> SUFFICES DuplicateInv'
  BY <1>3
<1>4. CASE held' = held
  <2>1. HeldTyped' /\ \A o \in OC : held'[o] = held[o]
    BY <1>2, <1>4 DEF HeldTyped
  <2> QED
    BY <1>1, <1>2, <1>4, <2>1, HeldKeeps
<1>5. CASE s \in up /\ held' = With(s, f.name, f.db)
  <2> DEFINE db == f.db
  <2>1. f.name \in Base /\ db \in Database /\ db.version <= version
    BY DEF ToolsTyped, DumpFile, FilesPast
  <2>2. held' = With(s, f.name, db)
    BY <1>5
  <2> HIDE DEF db
  <2>3. /\ HeldTyped'
        /\ \A o \in Server \ {s} : held'[o] = held[o]
        /\ DOMAIN held'[s] = DOMAIN held[s] \cup {f.name}
        /\ held'[s][f.name] = db
        /\ \A x \in DOMAIN held[s] \ {f.name} : held'[s][x] = held[s][x]
    BY <1>2, <2>1, <2>2, WithOne
  <2>4. /\ \A o \in OC \ {s} : held'[o] = held[o]
        /\ \A x \in DOMAIN held'[s] :
             \/ x \in DOMAIN held[s] /\ held'[s][x] = held[s][x]
             \/ Restored(s, x)
    BY <1>5, <2>1, <2>3, ProdApart DEF Restored
  <2> QED
    BY <1>1, <1>2, <2>3, <2>4, HeldKeeps
<1> QED
  BY <1>1, <1>2, <1>4, <1>5

-----------------------------------------------------------------------------
LEMMA InvInit == ToolsInit => ToolsInv
<1> SUFFICES ASSUME ToolsInit PROVE ToolsInv
  OBVIOUS
<1>1. Db \subseteq Database /\ File \subseteq DumpFile
  BY DuplicateAssumption DEF Db, Database, File, DumpFile
<1>2. HeldTyped
  <2>1. Databases \subseteq Catalog
    BY <1>1 DEF Databases, Catalog
  <2> QED
    BY <2>1, DuplicateAssumption DEF HeldTyped, ToolsInit, Init
<1>3. DuplicateTyped
  BY <1>2 DEF DuplicateTyped, ToolsInit, Init, At
<1>4. ASSUME NEW oc \in OC
      PROVE  RunInv(oc)
  <2>1. pc[oc] = "idle"
    BY DEF ToolsInit, Init
  <2>2. version = 0 /\ \A b \in DOMAIN held[oc] : held[oc][b].version = 0
    BY DuplicateAssumption, ProdApart DEF ToolsInit, Init
  <2> QED
    BY <2>1, <2>2 DEF RunInv, Neutral, Past, Synced
<1>5. ToolsTyped /\ FilesPast
  <2>1. files \in SUBSET DumpFile
    BY <1>1, ToolsAssumption DEF ToolsInit
  <2>2. \A f \in files : f.db.version <= version
    BY ToolsAssumption DEF ToolsInit, Init
  <2> QED
    BY <2>1, <2>2 DEF ToolsInit, ToolsTyped, FilesPast
<1> QED
  BY <1>3, <1>4, <1>5 DEF DuplicateInv, ToolsInv

LEMMA DuplicateStutters ==
  ASSUME DuplicateInv, UNCHANGED vars
  PROVE  DuplicateInv'
<1>1. UNCHANGED <<up, version, held, pc, extra, missing, conf>>
  BY DEF vars
<1>2. DuplicateTyped'
  BY <1>1 DEF DuplicateInv, DuplicateTyped, HeldTyped
<1>3. \A oc \in OC : RunInv(oc)'
  BY <1>1 DEF DuplicateInv, RunInv, Neutral, Past, Synced
<1> QED
  BY <1>2, <1>3 DEF DuplicateInv

LEMMA InvStutters ==
  ASSUME ToolsInv, UNCHANGED allVars
  PROVE  ToolsInv'
<1>1. UNCHANGED <<vars, version, tool, todo, files, tools>>
  BY DEF allVars, toolVars, vars
<1>2. ToolsTyped' /\ FilesPast'
  BY <1>1 DEF ToolsInv, ToolsTyped, FilesPast
<1> QED
  BY <1>1, <1>2, DuplicateStutters DEF ToolsInv

LEMMA InvStep ==
  ASSUME ToolsInv, ToolsNext
  PROVE  ToolsInv'
<1>0. DuplicateInv /\ ToolsTyped /\ FilesPast
  BY DEF ToolsInv
<1>1. CASE Next /\ UNCHANGED toolVars
  <2>1. DuplicateInv'
    BY <1>0, <1>1, WorkKeeps, StopSrcKeeps, StepKeeps DEF Next
  <2>2. version \in Nat /\ version' \in Nat /\ version <= version'
    <3>1. CASE Work
      BY <1>0, <3>1 DEF Work, DuplicateInv, DuplicateTyped
    <3>2. CASE \E oc \in OC : StopSrc(oc)
      BY <1>0, <3>2 DEF StopSrc, DuplicateInv, DuplicateTyped
    <3>3. CASE \E oc \in OC : Step(oc)
      BY <1>0, <3>3, StepEffect DEF Effect, DuplicateInv, DuplicateTyped
    <3> QED
      BY <1>1, <3>1, <3>2, <3>3 DEF Next
  <2>3. files' = files /\ tool' = tool
    BY <1>1 DEF toolVars
  <2>4. \A f \in files : f.db.version \in Nat
    BY <1>0 DEF ToolsTyped, DumpFile, Database
  <2>5. ToolsTyped' /\ FilesPast'
    BY <1>0, <2>2, <2>3, <2>4 DEF ToolsTyped, FilesPast
  <2> QED
    BY <2>1, <2>5 DEF ToolsInv
<1>2. CASE DumpAll \/ DropAll \/ RestoreAll
  BY <1>0, <1>2, CommandsListed, DuplicateStutters DEF ToolsInv
<1>3. CASE Die \/ End
  <2>1. tool' = NoTool /\ UNCHANGED <<vars, version, files>>
    BY <1>3 DEF Die, End, vars
  <2>2. ToolsTyped' /\ FilesPast'
    BY <1>0, <2>1 DEF ToolsTyped, FilesPast
  <2> QED
    BY <1>0, <2>1, <2>2, DuplicateStutters DEF ToolsInv
<1>4. CASE \E b \in Base : DumpOne(b) \/ DropOne(b)
  BY <1>0, <1>4, DumpOneKeeps, DropOneKeeps, DuplicateStutters DEF ToolsInv
<1>5. CASE \E f \in files : RestoreOne(f)
  BY <1>0, <1>5, RestoreOneKeeps DEF ToolsInv
<1> QED
  BY <1>1, <1>2, <1>3, <1>4, <1>5 DEF ToolsNext, Admin

\* Whatever the runs, their faults and the administrator do.
THEOREM ToolsInvariant == ToolsSpec => []ToolsInv
<1>1. ToolsInv /\ [ToolsNext]_allVars => ToolsInv'
  BY InvStep, InvStutters
<1> QED
  BY <1>1, InvInit, PTL DEF ToolsSpec

\* duplicate_rb.py starts the service of a target only when each database on it
\* sends its data to the target itself.
THEOREM StartedNeutrally == ToolsSpec => StartedNeutral
<1>1. ToolsInv /\ [ToolsNext]_allVars =>
        \A oc \in OC : pc[oc] = "start_target" /\ oc \notin up /\ pc'[oc] = "done" =>
          \A b \in DOMAIN held[oc] : held[oc][b].of = oc
  BY DEF ToolsInv, DuplicateInv, RunInv, Neutral
<1> QED
  BY <1>1, ToolsInvariant, PTL DEF ToolsSpec, StartedNeutral

\* Nor does it start one with an instance that is ahead of its server.
THEOREM ServerIsNewest == ToolsSpec => NoneAhead
<1>1. ToolsInv /\ [ToolsNext]_allVars =>
        \A oc \in OC :
          /\ pc[oc] = "start_target" /\ oc \notin up /\ pc'[oc] = "done"
          /\ Sync \in DOMAIN held[oc]
          => \A b \in DOMAIN held[oc] : held[oc][b].version <= held[oc][Sync].version
  BY DEF ToolsInv, DuplicateInv, RunInv, Synced
<1> QED
  BY <1>1, ToolsInvariant, PTL DEF ToolsSpec, NoneAhead
=============================================================================
