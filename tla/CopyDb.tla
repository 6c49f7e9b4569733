------------------------------- MODULE CopyDb -------------------------------
(***************************************************************************)
(* maintenance/db/copy_db.py beside the runs of restore_dump.py3: it       *)
(* copies the databases its patterns match for the user of a runbot, whose *)
(* server is up and opens a copy as soon as it owns it.                    *)
(*                                                                         *)
(* One run of the script.  The copies are databases of the same cluster,   *)
(* called <user>_<name>, as restore_dump.py3 calls what it restores: a     *)
(* run may probe, drop or load into a copy.  The list of databases is      *)
(* ordered by name in the script; here they come in any order, once each,  *)
(* also those that two patterns match.                                     *)
(***************************************************************************)
EXTENDS RestoreDump

VARIABLES
  at,      \* where the script stands
  port,    \* is sync_port known (copy_db.py:117)?
  todo,    \* dbnames not copied yet
  cur,     \* dbname
  outcome, \* how the try block ended: "copied", "failed", "interrupted"
  updated, \* did the UPDATE of the connection row of the copy find the row?
  handed   \* the databases that belong to the target user

copyVars == <<at, port, todo, cur, outcome, updated, handed>>
allVars == <<vars, copyVars>>

\* "cut" is a script that ended where the GRANT was due, without it
CopyTypeOK ==
  /\ at \in {"list", "ask", "next", "revoke", "kill", "create", "grant",
             "connect", "owner", "address", "commit", "ended", "cut"}
  /\ port \in BOOLEAN
  /\ todo \subseteq CopiedName /\ cur \in Name
  /\ at \in {"revoke", "kill", "create", "grant", "connect", "owner",
             "address", "commit"} => cur \in CopiedName
  /\ outcome \in {"copied", "failed", "interrupted"}
  /\ updated \in BOOLEAN
  /\ handed \subseteq Name

\* A former run of the script may have left copies.
CopyInit ==
  /\ Init
  /\ at = "list" /\ port \in BOOLEAN
  /\ todo = {} /\ cur = <<DefaultServer>> /\ outcome = "failed" /\ updated = FALSE
  /\ handed \in SUBSET PreExisting

Runs == UNCHANGED <<job, pc, k, loopVars, sqlVars, doneVars, waits, interrupts>>

Copy == CopyName[cur]
-----------------------------------------------------------------------------

\* the names the patterns match; none: "No db found"
List ==
  /\ at = "list"
  /\ todo' = CopiedName \cap DOMAIN cluster
  /\ at' = IF todo' = {} THEN "ended" ELSE "ask"
  /\ UNCHANGED <<clusterVars, port, cur, outcome, updated, handed>>

Ask ==
  /\ at = "ask"
  /\ at' \in {"next", "ended"}
  /\ UNCHANGED <<clusterVars, port, todo, cur, outcome, updated, handed>>

NextCopy ==
  /\ at = "next"
  /\ IF todo = {} THEN at' = "ended" /\ UNCHANGED <<cur, todo>>
     ELSE at' = "revoke" /\ cur' \in todo /\ todo' = todo \ {cur'}
  /\ UNCHANGED <<clusterVars, port, outcome, updated, handed>>

Revoke ==
  /\ at = "revoke"
  /\ Refuse(cur)
  /\ at' = "kill"
  /\ UNCHANGED <<port, todo, cur, outcome, updated, handed>>

\* mutant of KillConnections: datname is not compared
KillConnections_Everywhere ==
  /\ at = "kill"
  /\ sessions' = {}
  /\ at' = "create"
  /\ UNCHANGED <<cluster, refused, port, todo, cur, outcome, updated, handed>>

KillConnections ==
  /\ at = "kill"
  /\ Terminate(cur)
  /\ at' = "create"
  /\ UNCHANGED <<port, todo, cur, outcome, updated, handed>>

\* create database ... template: nobody may be connected to the template (the
\* owner of a database keeps its right to connect and may have come back), and
\* the name of the copy must be free
CreateCopy ==
  /\ at = "create"
  /\ CopyDatabase(cur)
  /\ outcome' = "copied" /\ at' = "grant"
  /\ handed' = handed \ {Copy}
  /\ UNCHANGED <<port, todo, cur, updated>>

\* mutant of TryFails: without the finally clause
TryFails_NoFinally ==
  /\ at \in {"revoke", "kill", "create"}
  /\ outcome' = "failed" /\ at' = "next"
  /\ UNCHANGED <<clusterVars, port, todo, cur, updated, handed>>

\* An error anywhere in the try block (the database was dropped meanwhile, it is
\* in use, the copy exists), or Ctrl-C, which only finally sees.
TryFails ==
  /\ at \in {"revoke", "kill", "create"}
  /\ outcome' \in {"failed", "interrupted"} /\ at' = "grant"
  /\ UNCHANGED <<clusterVars, port, todo, cur, updated, handed>>

\* finally
Grant ==
  /\ at = "grant" /\ Exists(cur)
  /\ refused' = refused \ {cur}
  /\ at' = CASE outcome = "copied" -> "connect"
             [] outcome = "failed" -> "next"
             [] outcome = "interrupted" -> "ended"
  /\ UNCHANGED <<cluster, sessions, port, todo, cur, outcome, updated, handed>>

\* The GRANT raises in its turn: the database was dropped, the connection is
\* lost (which may be what made the try block fail), Ctrl-C is pressed again.
\* Nothing catches that, and the script ends.
GrantFails ==
  /\ at = "grant"
  /\ at' = "cut"
  /\ UNCHANGED <<clusterVars, port, todo, cur, outcome, updated, handed>>

\* a kill, for which there is no finally
KilledInTry ==
  /\ at \in {"revoke", "kill", "create", "grant"}
  /\ at' = "cut"
  /\ UNCHANGED <<clusterVars, port, todo, cur, outcome, updated, handed>>

\* db1 = psycopg2.connect(new_dbname), outside any try; the former db1 goes
ConnectCopy ==
  /\ at = "connect"
  /\ CopierOpen(cur)
  /\ at' = "owner"
  /\ UNCHANGED <<port, todo, cur, outcome, updated, handed>>

\* mutant of AlterOwner: the new owner is committed by itself
AlterOwner_Committed ==
  /\ at = "owner" /\ Exists(Copy)
  /\ handed' = handed \cup {Copy}
  /\ at' = "address"
  /\ UNCHANGED <<clusterVars, port, todo, cur, outcome, updated>>

\* The database and everything in it get the target user for owner, in the
\* transaction: nobody sees it yet, but every table is locked until its end.
AlterOwner ==
  /\ at = "owner" /\ Exists(Copy)
  /\ at' = "address"
  /\ UNCHANGED <<clusterVars, port, todo, cur, outcome, updated, handed>>

\* UPDATE of the connection row, which needs its table, and of the passwords
AddressCopy ==
  /\ at = "address" /\ Exists(Copy)
  /\ port => HasTables(cluster[Copy])
  /\ updated' = port
  /\ at' = "commit"
  /\ UNCHANGED <<clusterVars, port, todo, cur, outcome, handed>>

CommitCopy ==
  /\ at = "commit" /\ Exists(Copy)
  /\ IF updated THEN Readdress(cur) ELSE UNCHANGED clusterVars
  /\ handed' = handed \cup {Copy}
  /\ at' = "next"
  /\ UNCHANGED <<port, todo, cur, outcome, updated>>

\* An error or Ctrl-C before the commit: nothing of it stays, and the script
\* ends without the other copies.
ConfigureFails ==
  /\ at \in {"connect", "owner", "address", "commit"}
  /\ CopierClose
  /\ at' = "ended"
  /\ UNCHANGED <<port, todo, cur, outcome, updated, handed>>

CopyStep ==
  /\ \/ List \/ Ask \/ NextCopy \/ Revoke \/ KillConnections \/ CreateCopy
     \/ TryFails \/ Grant \/ GrantFails \/ KilledInTry
     \/ ConnectCopy \/ AlterOwner \/ AddressCopy \/ CommitCopy \/ ConfigureFails
  /\ Runs

AppStep ==
  /\ \E name \in DOMAIN cluster : AppOpen(name) \/ AppClose(name)
  /\ Runs

\* What a run writes into the copy waits for the locks of the transaction.
LocksHold ==
  at \in {"address", "commit"} /\ Exists(Copy) /\ HasTables(cluster[Copy]) =>
    Copy \in DOMAIN cluster' /\ cluster'[Copy] = cluster[Copy]

RunBesideCopy ==
  /\ \E r \in Run : RunStep(r)
  /\ LocksHold
  /\ handed' = handed \cap DOMAIN cluster'
  /\ UNCHANGED <<at, port, todo, cur, outcome, updated>>

CopyNext ==
  \/ CopyStep
  \/ AppStep /\ UNCHANGED copyVars
  \/ RunBesideCopy

CopySpec == CopyInit /\ [][CopyNext]_allVars
-----------------------------------------------------------------------------
\* Whatever fails, is dropped by a restore or is interrupted in between, the
\* script leaves a database behind to which nobody may connect only when it
\* was killed or its GRANT failed (finally, copy_db.py:93), and then only the
\* one it was at: it never goes on to another copy, or ends by itself, with a
\* REVOKE standing.
AccessGivenBack ==
  refused # {} => at \in {"kill", "create", "grant", "cut"} /\ refused = {cur}

\* The server of the target user is up while the copies are made and while
\* runs drop and load databases of the same names.  No copy becomes its
\* database while it still leads to the production sync server, when the port
\* of a local one is known (copy_db.py:117): the new owner and the new
\* connection are committed together (copy_db.py:129).
CopyHandedOverNeutral ==
  [][port => \A name \in handed' \ handed : cluster'[name].server # Production]_allVars

\* Seen from the runs of restore_dump.py3, copy_db.py is the environment that
\* RestoreDump allows for.
RestoreSpec == Spec
=============================================================================
