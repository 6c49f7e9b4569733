---------------------------- MODULE ServerTools -----------------------------
(***************************************************************************)
(* maintenance/db/dump_all.py, drop_all.py and restore_all.py: one         *)
(* administrator at a time uses them on the databases of a running server, *)
(* through its XML-RPC or web service, beside the duplication of           *)
(* DuplicateRb, which stops and starts the same services.                  *)
(*                                                                         *)
(*   tool     the command being executed, "none" between two               *)
(*   todo     the names it listed and has not reached                      *)
(*   files    the directory dump_all writes to and restore_all reads       *)
(***************************************************************************)
EXTENDS DuplicateRb

CONSTANTS
  Files0,   \* dumps found in the directory at the start
  Host,     \* the servers the administrator works on
  Excludes, \* arguments of --exclude
  Mode,     \* how dumps are fetched: "xmlrpc", "http"
  MaxTools  \* bound on the commands of the administrator

\* good: neither empty nor the error page of the web server
File == [name : Base, db : Db, good : BOOLEAN]

ASSUME ToolsAssumption ==
  /\ MaxTools \in Nat /\ Host \subseteq OC
  /\ Files0 \subseteq SUBSET File
  /\ \A dumps \in Files0 : \A f \in dumps : f.db.version = 0
  /\ Mode \subseteq {"xmlrpc", "http"} /\ Excludes \subseteq SUBSET Base

VARIABLES tool, todo, files, tools

toolVars == <<tool, todo, files, tools>>
allVars == <<vars, toolVars>>

Tool == [name : {"dump", "drop", "restore"}, on : Server, http : BOOLEAN]

NoTool == [name |-> "none"]

ToolsTypeOK ==
  /\ TypeOK
  /\ tool \in Tool \cup {NoTool}
  /\ todo \subseteq Base \cup files
  /\ files \subseteq File
  /\ tools \in 0..MaxTools

ToolsInit ==
  /\ Init
  /\ tool = NoTool /\ todo = {} /\ files \in Files0
  /\ tools = 0

-----------------------------------------------------------------------------
\* The server lists its databases, the administrator confirms the list.
List(name, s, http, list) ==
  /\ tool = NoTool /\ tools < MaxTools
  /\ s \in up
  /\ tools' = tools + 1
  /\ tool' = [name |-> name, on |-> s, http |-> http]
  /\ todo' = list
  /\ UNCHANGED <<vars, files>>

\* an existing directory must be empty unless --overwrite is given
DumpAll ==
  \E s \in Host, mode \in Mode, over \in BOOLEAN, exclude \in Excludes :
    /\ files = {} \/ over
    /\ List("dump", s, mode = "http", DOMAIN held[s] \ exclude)

DropAll == \E s \in Host :
  List("drop", s, FALSE, DOMAIN held[s])

\* every dump of the directory, in the order of os.listdir
RestoreAll == \E s \in Host :
  /\ files # {}
  /\ List("restore", s, FALSE, files)

Doing(name, b) == tool # NoTool /\ tool.name = name /\ b \in todo

Reached(b) == todo' = todo \ {b}

\* An exception ends dump_all; the files written stay.
Die ==
  /\ tool # NoTool /\ tool.name = "dump" /\ todo # {}
  /\ tool.on \notin up \/ ~todo \subseteq DOMAIN held[tool.on]
  /\ tool' = NoTool /\ todo' = {}
  /\ UNCHANGED <<vars, files, tools>>

Saved(b, db, good) == files' = files \cup {[name |-> b, db |-> db, good |-> good]}

\* The status of an HTTP answer is not looked at: a page that says that the dump
\* failed is written to the file.  An empty dump is only warned about.
DumpOne(b) ==
  /\ Doing("dump", b)
  /\ tool.on \in up
  /\ \/ b \in DOMAIN held[tool.on] /\ Saved(b, held[tool.on][b], TRUE)
     \/ /\ tool.http \/ b \in DOMAIN held[tool.on]
        /\ Saved(b, [version |-> 0, of |-> tool.on], FALSE)
  /\ Reached(b)
  /\ UNCHANGED <<vars, tool, tools>>

\* a failure is printed, the loop goes on
DropOne(b) ==
  /\ Doing("drop", b)
  /\ \/ /\ tool.on \in up /\ b \in DOMAIN held[tool.on]
        /\ held' = Without(tool.on, b)
     \/ UNCHANGED held
  /\ Reached(b)
  /\ UNCHANGED <<up, version, pc, extra, missing, conf, runs, faults,
                 tool, files, tools>>

\* The server refuses a name that exists: of two dumps of one database the
\* first of the directory is restored.  Nothing is done to what it points at.
RestoreOne(f) ==
  /\ Doing("restore", f)
  /\ \/ /\ tool.on \in up /\ f.name \notin DOMAIN held[tool.on] /\ f.good
        /\ held' = With(tool.on, f.name, f.db)
     \/ UNCHANGED held
  /\ Reached(f)
  /\ UNCHANGED <<up, version, pc, extra, missing, conf, runs, faults,
                 tool, files, tools>>

End ==
  /\ tool # NoTool /\ todo = {}
  /\ tool' = NoTool
  /\ UNCHANGED <<vars, todo, files, tools>>

Admin ==
  \/ DumpAll \/ DropAll \/ RestoreAll \/ Die \/ End
  \/ \E b \in Base : DumpOne(b) \/ DropOne(b)
  \/ \E f \in files : RestoreOne(f)

ToolsNext == (Next /\ UNCHANGED toolVars) \/ Admin

ToolsSpec == ToolsInit /\ [][ToolsNext]_allVars

-----------------------------------------------------------------------------
\* The script starts a target server that it has stopped only when no database
\* on it sends its data to production any more: those just copied, those kept
\* from an earlier run that failed halfway (duplicate_rb.py:109-132), and dumps of
\* production restored meanwhile.
StartedNeutral ==
  [][\A oc \in OC : pc[oc] = "start_target" /\ oc \notin up /\ pc'[oc] = "done" =>
       \A b \in DOMAIN held[oc] : held[oc][b].of = oc]_allVars

\* On a target server that the script has stopped and starts again, no instance
\* is ahead of the synchronisation server: the server is copied anew and last
\* (duplicate_rb.py:100-106).  The instances may be of several states, those kept
\* from earlier runs, and those copied while production did not stop or another
\* run has started it; the server is never older than any of them.
NoneAhead ==
  [][\A oc \in OC :
       /\ pc[oc] = "start_target" /\ oc \notin up /\ pc'[oc] = "done"
       /\ Sync \in DOMAIN held[oc]
       => \A b \in DOMAIN held[oc] : held[oc][b].version <= held[oc][Sync].version]_allVars
=============================================================================
