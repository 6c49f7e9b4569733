------------------------------ MODULE Cluster -------------------------------
(***************************************************************************)
(* The PostgreSQL cluster the tools work on, as they use it through        *)
(* psycopg2, createdb, dropdb and pg_restore.  PostgreSQL is not part of   *)
(* the repository: this is the behaviour the calling code relies on.       *)
(*                                                                         *)
(*   cluster   the databases that exist, each with who created it and what *)
(*             has been done to it                                         *)
(*   sessions  open connections <<client, name>>; a database with one      *)
(*             cannot be dropped                                           *)
(*   refused   names on which new connections are refused: copy_db.py      *)
(*             revokes CONNECT from public while it copies a database      *)
(***************************************************************************)
EXTENDS Transports, FiniteSets

CONSTANTS
  Run,         \* processes running restore_dump.py3
  App,         \* a UniField server or a user connected to some database
  Copier,      \* copy_db.py
  Production,  \* the production sync server an instance's dump points at
  PreExisting, \* the databases present before any run starts
  AppName,     \* the names App may connect to
  CopiedName,  \* the names copy_db.py may copy
  CopyName,    \* [CopiedName -> Name] '%s_%s' % (target_user, dbname[5:])
  LocalServer  \* sync_db: the sync server copy_db.py connects copies to

VARIABLES cluster, sessions, refused

clusterVars == <<cluster, sessions, refused>>

ASSUME ClusterAssumption ==
  /\ App \notin Run /\ Copier \notin Run \cup {App}
  /\ Production \notin Name \cup {NoDb}
  /\ PreExisting \cup AppName \cup CopiedName \subseteq Name
  /\ CopyName \in [CopiedName -> Name] /\ LocalServer \in Name

Client == Run \cup {App, Copier}

\* owner:  the run whose createdb made it, or App for anybody else's;
\* loads:  the dumps pg_restore has loaded into it, as <<run, position>>;
\* extent: how much of the tables and rows of the ERP it holds;
\* server: the sync server its connection row leads to, NoDb without a row;
\* bumped: its sequences have been moved past the values of the dump;
\* linked: 'connect' has been called on it through its sync client.
Database ==
  [owner : Run \cup {App}, loads : SUBSET (Run \X Nat), extent : {"none", "part", "whole"},
   server : Name \cup {NoDb, Production}, bumped : BOOLEAN, linked : BOOLEAN]

EmptyDb(client) ==
  [owner |-> client, loads |-> {}, extent |-> "none", server |-> NoDb,
   bumped |-> FALSE, linked |-> FALSE]

\* a database of App: it is in service, connected to a sync server of its own
InService ==
  [owner |-> App, loads |-> {}, extent |-> "whole", server |-> <<DefaultServer>>,
   bumped |-> FALSE, linked |-> FALSE]

Exists(name) == name \in DOMAIN cluster

HasTables(db) == db.extent # "none"

\* UPDATE of the connection row, if there is one
Redirected(db, server) ==
  [db EXCEPT !.server = IF @ = NoDb THEN NoDb ELSE server]

\* the owner of a database keeps its own right to connect to it
Connectable(client, name) ==
  /\ Exists(name)
  /\ name \in refused => cluster[name].owner = client

InUse(name) == \E client \in Client : <<client, name>> \in sessions

SessionsOf(client) == {s \in sessions : s[1] = client}

ClusterTypeOK ==
  /\ DOMAIN cluster \subseteq Name
  /\ \A name \in DOMAIN cluster : cluster[name] \in Database
  /\ sessions \subseteq Client \X DOMAIN cluster
  /\ refused \subseteq DOMAIN cluster

ClusterInit ==
  /\ cluster = [name \in PreExisting |-> InService]
  /\ sessions = {}
  /\ refused = {}

-----------------------------------------------------------------------------
(* createdb and dropdb.  createdb also fails while another client is       *)
(* connected to template1, as copy_db.py is for as long as it runs.        *)

CreateDb(client, name) ==
  /\ ~Exists(name)
  /\ cluster' = [n \in DOMAIN cluster \cup {name} |->
                   IF n = name THEN EmptyDb(client) ELSE cluster[n]]

DropDb(name) ==
  /\ Exists(name)
  /\ ~InUse(name)
  /\ cluster' = [n \in DOMAIN cluster \ {name} |-> cluster[n]]
  /\ refused' = refused \ {name}

-----------------------------------------------------------------------------
(* Everybody else on the same cluster.                                     *)

AppOpen(name) ==
  /\ name \in AppName
  /\ Connectable(App, name)
  /\ <<App, name>> \notin sessions
  /\ sessions' = sessions \cup {<<App, name>>}
  /\ UNCHANGED <<cluster, refused>>

AppClose(name) ==
  /\ <<App, name>> \in sessions
  /\ sessions' = sessions \ {<<App, name>>}
  /\ UNCHANGED <<cluster, refused>>

\* REVOKE CONNECT
Refuse(name) ==
  /\ name \in CopiedName
  /\ Exists(name)
  /\ refused' = refused \cup {name}
  /\ UNCHANGED <<cluster, sessions>>

\* pg_terminate_backend on every session
Terminate(name) ==
  /\ name \in CopiedName
  /\ sessions' = {s \in sessions : s[2] # name}
  /\ UNCHANGED <<cluster, refused>>

\* GRANT CONNECT, in the finally clause
Accept(name) ==
  /\ name \in refused
  /\ refused' = refused \ {name}
  /\ UNCHANGED <<cluster, sessions>>

\* CREATE DATABASE ... TEMPLATE: nobody may be connected to the template
CopyDatabase(name) ==
  /\ name \in CopiedName
  /\ Exists(name) /\ ~InUse(name) /\ ~Exists(CopyName[name])
  /\ cluster' = [n \in DOMAIN cluster \cup {CopyName[name]} |->
                   IF n = CopyName[name]
                   THEN [cluster[name] EXCEPT !.owner = App, !.linked = FALSE]
                   ELSE cluster[n]]
  /\ UNCHANGED <<sessions, refused>>

\* the connection in which a copy is configured, instead of any former one
CopierOpen(name) ==
  /\ name \in CopiedName
  /\ Exists(CopyName[name])
  /\ sessions' = (sessions \ SessionsOf(Copier)) \cup {<<Copier, CopyName[name]>>}
  /\ UNCHANGED <<cluster, refused>>

CopierClose ==
  /\ sessions' = sessions \ SessionsOf(Copier)
  /\ UNCHANGED <<cluster, refused>>

\* the UPDATE of the connection row of a copy
Readdress(name) ==
  /\ name \in CopiedName
  /\ Exists(CopyName[name])
  /\ cluster' = [cluster EXCEPT ![CopyName[name]] = Redirected(@, LocalServer)]
  /\ UNCHANGED <<sessions, refused>>
=============================================================================
