---------------------------- MODULE DuplicateRb -----------------------------
(***************************************************************************)
(* maintenance/db/duplicate_rb.py: the production databases of one         *)
(* operational centre (OC) are copied to the server its users train on.    *)
(* Each run stops two services, copies from templates, cuts the copies off *)
(* from production, and starts the services again.  Runs for different     *)
(* OCs may overlap: they share the production service.                     *)
(*                                                                         *)
(*   up       the services that run                                        *)
(*   version  how often the production data has changed                    *)
(*   held     the databases of each server: name -> what it holds          *)
(*   pc       place of the run for an OC in the script                     *)
(*   extra, missing, conf   target_dbs, to_create_nw and the databases     *)
(*            still to configure                                           *)
(***************************************************************************)
EXTENDS Integers, FiniteSets, FiniteSetsExt

CONSTANTS
  OC,          \* operational centres, each with a target server
  Prod,        \* the production server
  Base,        \* names of databases without the prefix of their server
  Sync,        \* SYNC_SERVER_LOCAL
  SrcOf,       \* the production databases like_src selects for an OC
  Cut,         \* what strip() leaves of a name
  Held0,       \* the databases of each server at the start
  MaxVersion, MaxRuns, MaxFaults   \* bounds

VARIABLES up, version, held, pc, extra, missing, conf, runs, faults

Server == OC \cup {Prod}

\* version: of the production data copied; of: the server whose
\* synchronisation server it sends its data to, set by the configuration.
Db == [version : 0..MaxVersion, of : Server]
Databases == UNION {[names -> Db] : names \in SUBSET Base}

\* the configuration of a run for oc (the dictionary `config`)
ASSUME DuplicateAssumption ==
  /\ Prod \notin OC
  /\ Sync \in Base
  /\ SrcOf \in [OC -> SUBSET (Base \ {Sync})]
  /\ Cut \in [Base -> Base]
  /\ \A b \in Base : Cut[b] = Sync <=> b = Sync
  /\ Held0 \in [Server -> Databases]
  /\ \A s \in Server : \A b \in DOMAIN Held0[s] :
       Held0[s][b] = [version |-> 0, of |-> s]
  /\ {MaxVersion, MaxRuns, MaxFaults} \subseteq Nat

vars == <<up, version, held, pc, extra, missing, conf, runs, faults>>

At == {"idle", "stop_target", "list", "drop", "create",
       "drop_sync", "create_sync", "list_conf", "configure", "start_src",
       "start_target", "done", "failed"}

TypeOK ==
  /\ up \subseteq Server
  /\ version \in 0..MaxVersion
  /\ held \in [Server -> Databases]
  /\ pc \in [OC -> At]
  /\ extra \in [OC -> SUBSET Base]
  /\ missing \in [OC -> SUBSET Base] /\ conf \in [OC -> SUBSET Base]
  /\ runs \in [OC -> 0..MaxRuns]
  /\ faults \in 0..MaxFaults

Init ==
  /\ up = Server
  /\ version = 0
  /\ held = Held0
  /\ pc = [oc \in OC |-> "idle"]
  /\ extra = [oc \in OC |-> {}]
  /\ missing = [oc \in OC |-> {}] /\ conf = [oc \in OC |-> {}]
  /\ runs = [oc \in OC |-> 0]
  /\ faults = 0

-----------------------------------------------------------------------------
Goto(oc, from, to) == pc[oc] = from /\ pc' = [pc EXCEPT ![oc] = to]

Running(oc) == pc[oc] \notin {"idle", "done", "failed"}

Fault == faults < MaxFaults /\ faults' = faults + 1

With(s, b, db) == [held EXCEPT ![s] = [x \in DOMAIN @ \cup {b} |-> IF x = b THEN db ELSE @[x]]]

Without(s, b) == [held EXCEPT ![s] = [x \in DOMAIN @ \ {b} |-> @[x]]]

\* An exception that nothing catches: services are left as they are.
Raise(oc, from) == Goto(oc, from, "failed") /\ Fault

\* `call` returns the status of the init script, which is not looked at.
Stop(s, oc) ==
  \/ up' = up \ {s} /\ UNCHANGED faults
  \/ up' = up /\ Fault /\ s \in up

StopSrc(oc) ==
  /\ ~Running(oc) /\ MapThenSumSet(LAMBDA o : runs[o], OC) < MaxRuns
  /\ pc' = [pc EXCEPT ![oc] = "stop_target"]
  /\ Stop(Prod, oc)
  /\ runs' = [runs EXCEPT ![oc] = @ + 1]
  /\ UNCHANGED <<version, held, extra, missing, conf>>

StopTarget(oc) ==
  /\ Goto(oc, "stop_target", "list")
  /\ Stop(oc, oc)
  /\ UNCHANGED <<version, held, extra, missing, conf, runs>>

\* the production databases like_src selects, SYNC_SERVER set apart
Sources(oc) == SrcOf[oc] \cap DOMAIN held[Prod]

\* Both catalogs are listed.  The first of two names that are cut to the same
\* one takes it out of target_dbs, so that the other is taken for absent.
ListDatabases(oc) ==
  LET src == Sources(oc)
      kept == DOMAIN held[oc] \ {Sync}
      firsts == {f \in SUBSET src :
                   /\ \A b, c \in f : Cut[b] = Cut[c] => b = c
                   /\ {Cut[b] : b \in f} = {Cut[b] : b \in src} \cap kept}
  IN /\ Goto(oc, "list", "drop")
     /\ \E f \in firsts : missing' = [missing EXCEPT ![oc] = src \ f]
     /\ extra' = [extra EXCEPT ![oc] = kept \ {Cut[b] : b \in src}]
     /\ UNCHANGED <<up, version, held, conf, runs, faults>>

Drop(oc) ==
  /\ \/ \E b \in extra[oc] :
          /\ pc[oc] = "drop"
          /\ held' = Without(oc, b)
          /\ extra' = [extra EXCEPT ![oc] = @ \ {b}]
          /\ UNCHANGED <<pc, faults>>
     \/ extra[oc] # {} /\ Raise(oc, "drop") /\ UNCHANGED <<held, extra>>
     \/ extra[oc] = {} /\ Goto(oc, "drop", "create") /\ UNCHANGED <<held, extra, faults>>
  /\ UNCHANGED <<up, version, missing, conf, runs>>

\* CREATE DATABASE ... TEMPLATE: the name must be free and nobody may be
\* connected to the template, as a production server that runs may be.
CanCopy(oc, b) == b \in DOMAIN held[Prod] /\ Cut[b] \notin DOMAIN held[oc]

Copy(oc, b) == With(oc, Cut[b], [version |-> version, of |-> Prod])

CopyOrPrint(oc, b) ==
  \/ CanCopy(oc, b) /\ held' = Copy(oc, b) /\ UNCHANGED faults
  \/ (CanCopy(oc, b) => Prod \in up) /\ UNCHANGED <<held, faults>>
  \/ CanCopy(oc, b) /\ Fault /\ UNCHANGED held

Create(oc) ==
  /\ \/ \E b \in missing[oc] :
          /\ pc[oc] = "create"
          /\ CopyOrPrint(oc, b)
          /\ missing' = [missing EXCEPT ![oc] = @ \ {b}]
          /\ UNCHANGED pc
     \/ /\ missing[oc] = {} /\ Goto(oc, "create", "drop_sync")
        /\ UNCHANGED <<held, missing, faults>>
  /\ UNCHANGED <<up, version, extra, conf, runs>>

\* mutant: the synchronisation server is kept when it is there, as the instances are
DropSync_Kept(oc) ==
  /\ Goto(oc, "drop_sync", "create_sync")
  /\ UNCHANGED <<up, version, held, extra, missing, conf, runs, faults>>

DropSync(oc) ==
  /\ \/ Goto(oc, "drop_sync", "create_sync") /\ held' = Without(oc, Sync) /\ UNCHANGED faults
     \/ Sync \in DOMAIN held[oc] /\ Raise(oc, "drop_sync") /\ UNCHANGED held
  /\ UNCHANGED <<up, version, extra, missing, conf, runs>>

CreateSync(oc) ==
  /\ Goto(oc, "create_sync", "list_conf")
  /\ CopyOrPrint(oc, Sync)
  /\ UNCHANGED <<up, version, extra, missing, conf, runs>>

\* every database of the target is configured, those that were kept included
ListConf(oc) ==
  /\ Goto(oc, "list_conf", "configure")
  /\ conf' = [conf EXCEPT ![oc] = DOMAIN held[oc]]
  /\ UNCHANGED <<up, version, held, extra, missing, runs, faults>>

\* mutant: an exception is caught, as it is around the copies
Configure_Swallow(oc) ==
  /\ \/ \E b \in conf[oc] \cap DOMAIN held[oc] :
          /\ pc[oc] = "configure"
          /\ \/ held' = With(oc, b, [held[oc][b] EXCEPT !.of = oc]) /\ UNCHANGED faults
             \/ Fault /\ UNCHANGED held
          /\ conf' = [conf EXCEPT ![oc] = @ \ {b}]
          /\ UNCHANGED pc
     \/ conf[oc] = {} /\ Goto(oc, "configure", "start_src") /\ UNCHANGED <<held, conf, faults>>
  /\ UNCHANGED <<up, version, extra, missing, runs>>

\* one transaction per database: connection, passwords and owners
Configure(oc) ==
  /\ \/ \E b \in conf[oc] \cap DOMAIN held[oc] :
          /\ pc[oc] = "configure"
          /\ held' = With(oc, b, [held[oc][b] EXCEPT !.of = oc])
          /\ conf' = [conf EXCEPT ![oc] = @ \ {b}]
          /\ UNCHANGED <<pc, faults>>
     \/ conf[oc] # {} /\ Raise(oc, "configure") /\ UNCHANGED <<held, conf>>
     \/ /\ ~conf[oc] \subseteq DOMAIN held[oc]    \* connect fails
        /\ Goto(oc, "configure", "failed") /\ UNCHANGED <<held, conf, faults>>
     \/ conf[oc] = {} /\ Goto(oc, "configure", "start_src") /\ UNCHANGED <<held, conf, faults>>
  /\ UNCHANGED <<up, version, extra, missing, runs>>

\* As for the stop, the status is not looked at.
Start(s, oc, from, to) ==
  /\ Goto(oc, from, to)
  /\ \/ up' = up \cup {s} /\ UNCHANGED faults
     \/ up' = up /\ Fault /\ s \notin up
  /\ UNCHANGED <<version, held, extra, missing, conf, runs>>

StartSrc(oc) == Start(Prod, oc, "start_src", "start_target")

StartTarget(oc) == Start(oc, oc, "start_target", "done")

\* users work in production and synchronise it, while its server runs
Work ==
  /\ Prod \in up /\ version < MaxVersion
  /\ version' = version + 1
  /\ UNCHANGED <<up, held, pc, extra, missing, conf, runs, faults>>

Step(oc) ==
  \/ StopTarget(oc) \/ ListDatabases(oc) \/ Drop(oc) \/ Create(oc)
  \/ DropSync(oc) \/ CreateSync(oc) \/ ListConf(oc) \/ Configure(oc)
  \/ StartSrc(oc) \/ StartTarget(oc)

Next == Work \/ \E oc \in OC : StopSrc(oc) \/ Step(oc)

Spec == Init /\ [][Next]_vars
=============================================================================
