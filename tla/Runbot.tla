------------------------------- MODULE Runbot -------------------------------
(***************************************************************************)
(* The runbots of one host: Sync_Init/init_sync.sh builds one, RBTools/    *)
(* deleteRB.sh removes it, start_jira_tests.sh and start_branch_tests.sh   *)
(* remove and build again.  Each process of Proc is one call of one of     *)
(* these scripts, and stops where the shell does: with errexit in the      *)
(* automatic mode, never in the interactive one.                           *)
(*                                                                         *)
(* The branches of a ticket, the ports (five per user id) and the contents *)
(* of the configuration files are abstracted.                              *)
(***************************************************************************)
EXTENDS Integers, FiniteSets

CONSTANTS
  Name,       \* the names runbots may have, in lower case as init_sync.sh writes them
  Protected,  \* those deleteRB.sh refuses
  Proc,       \* the calls of the scripts
  Job,        \* what a call may be asked to do
  MaxAtOnce,  \* bound: calls that run at the same time
  MaxFaults   \* bound: commands that fail although nothing is in their way

VARIABLES
  rb,      \* what the host holds of each runbot
  ticket,  \* the runbots whose URL is in the RB field of their Jira ticket
  job,     \* what each process does
  pc,      \* where it stands
  mail,    \* the mail it has sent
  hit,     \* has a command of it failed by a fault?
  met,     \* has it overlapped with a call that may not overlap?
  faults   \* number of faults so far

vars == <<rb, ticket, job, pc, mail, hit, met, faults>>

\* jira: -j takes the branches from the ticket, -r sets its RB field
\* lower: the name or the ticket is given in lower case
Jobs == [kind : {"init", "delete", "restart"}, name : Name, lower : BOOLEAN,
         auto : BOOLEAN, jira : {"no", "branches", "field"}, ssl : BOOLEAN,
         type : {"mkdb", "devtests", "testfield", "none"}]

ASSUME RunbotAssumption ==
  /\ Protected \subseteq Name
  /\ Job \subseteq Jobs
  /\ \A j \in Job : j.kind = "init" \/ j.auto
  /\ MaxAtOnce \in Nat /\ MaxFaults \in Nat

\* dirs: etc, log and exports; server, web, env: the clones; conf: the files of
\* config_file; info: RB_info.txt
Files == {"dirs", "server", "web", "env", "conf", "info"}

\* user: the account, with its home; units: the systemd services are installed;
\* running: systemd keeps them started; site: the virtual host apache loads
Parts == [user : BOOLEAN, home : SUBSET Files, role : BOOLEAN, dbs : BOOLEAN,
          units : BOOLEAN, running : BOOLEAN, site : {"none", "http", "ssl"},
          cert : BOOLEAN]

Nothing == [user |-> FALSE, home |-> {}, role |-> FALSE, dbs |-> FALSE,
            units |-> FALSE, running |-> FALSE, site |-> "none", cert |-> FALSE]

InitStages == {"ticket", "check", "useradd", "clone", "role", "config", "start",
               "cert", "site", "info", "build", "building", "setrb"}
DeleteStages == {"stop", "unsite", "dropdb", "ununit", "userdel"}
Ended == {"ok", "failed", "refused", "deleted"}

TypeOK ==
  /\ rb \in [Name -> Parts]
  /\ ticket \subseteq Name
  /\ job \in [Proc -> Job]
  /\ pc \in [Proc -> {"waiting", "trap", "end"}
                     \cup InitStages \cup DeleteStages \cup Ended]
  /\ mail \in [Proc -> {"none", "OK", "FAILED"}]
  /\ hit \in [Proc -> BOOLEAN] /\ met \in [Proc -> BOOLEAN]
  /\ faults \in 0..MaxFaults

Init ==
  /\ rb = [n \in Name |-> Nothing]
  /\ ticket = {}
  /\ job \in [Proc -> Job]
  /\ pc = [p \in Proc |-> "waiting"]
  /\ mail = [p \in Proc |-> "none"]
  /\ hit = [p \in Proc |-> FALSE] /\ met = hit
  /\ faults = 0

My(p) == rb[job[p].name]
Others(p) == {q \in Proc \ {p} : job[q].name = job[p].name}
Active(p) == pc[p] \notin Ended \cup {"waiting"}
Goto(p, stage) == pc' = [pc EXCEPT ![p] = stage]

Fault(p) ==
  /\ faults < MaxFaults
  /\ faults' = faults + 1
  /\ hit' = [hit EXCEPT ![p] = TRUE]

\* the server answers: systemd runs it, and it finds what it needs
Serving(m) == m.running /\ m.role /\ {"server", "conf"} \subseteq m.home

\* apache refuses to reload while a site names a certificate that is not there
Broken(m) == m.site = "ssl" /\ ~m.cert
SitesLoad == \A n \in Name : ~Broken(rb[n])

\* Mutant: the automatic mode without set -o errexit.
Stops_Never(p) == FALSE

\* errexit is set in the automatic mode; deleteRB.sh never sets it
Stops(p) == job[p].auto /\ pc[p] \in InitStages

\* The command of stage "here": it works and leaves the runbot as "done", or it
\* fails, because it cannot work or by a fault, and leaves one of "partly".
Try(p, here, next, works, done, partly) ==
  /\ pc[p] = here
  /\ \/ /\ works
        /\ rb' = [rb EXCEPT ![job[p].name] = done]
        /\ Goto(p, next)
        /\ UNCHANGED <<hit, faults>>
     \/ /\ IF works THEN Fault(p) ELSE UNCHANGED <<hit, faults>>
        /\ \E m \in partly : rb' = [rb EXCEPT ![job[p].name] = m]
        /\ Goto(p, IF Stops(p) THEN "trap" ELSE next)
  /\ UNCHANGED <<ticket, job, mail, met>>
-----------------------------------------------------------------------------
(* init_sync.sh *)

FirstStage(j) == IF j.jira # "no" THEN "ticket"
                 ELSE IF j.auto THEN "check" ELSE "useradd"

\* init_sync.sh lowers the name (line 230), deleteRB.sh is given the ticket as it
\* is written: of US-1234 it finds no service, user, database or file, and the
\* name is not one that it refuses.
Removes(j) == j.kind # "init" /\ j.lower /\ j.name \notin Protected

\* Calls that assume nobody else is at the runbot.  Automatic builds do not:
\* useradd lets only one of them go on, and the other meets nothing of it, unless
\* a call they both met has removed the user.
Exclusive(p) == Removes(job[p]) \/ ~job[p].auto

\* Where nothing is to be removed, the commands of deleteRB.sh change nothing.
Begin(p) ==
  LET meets == {q \in Others(p) :
                  Active(q) /\ (Exclusive(p) \/ Exclusive(q) \/ met[q])}
  IN /\ pc[p] = "waiting" /\ Cardinality({q \in Proc : Active(q)}) < MaxAtOnce
     /\ Goto(p, IF Removes(job[p]) THEN "stop"
                ELSE IF job[p].kind = "delete" THEN "refused"
                ELSE FirstStage(job[p]))
     /\ met' = [q \in Proc |-> met[q] \/ q \in meets \/ (q = p /\ meets # {})]
     /\ UNCHANGED <<rb, ticket, job, mail, hit, faults>>

\* No trap is set yet: an error of Jira ends the script without a mail.
GetBranch(p) ==
  /\ pc[p] = "ticket"
  /\ \/ Goto(p, "check") /\ UNCHANGED <<hit, faults>>
     \/ Goto(p, "refused") /\ Fault(p)
  /\ UNCHANGED <<rb, ticket, job, mail, met>>

Check(p) ==
  /\ pc[p] = "check"
  /\ Goto(p, IF My(p).user THEN "refused" ELSE "useradd")
  /\ UNCHANGED <<rb, ticket, job, mail, hit, met, faults>>

\* Mutant: a useradd that fails is ignored.
UserAdd_Ignored(p) ==
  Try(p, "useradd", "clone", TRUE, [My(p) EXCEPT !.user = TRUE], {My(p)})

UserAdd(p) ==
  Try(p, "useradd", "clone", ~My(p).user, [My(p) EXCEPT !.user = TRUE], {My(p)})

\* The status of the here document is that of its last command, mkdir: a clone
\* that fails goes unnoticed.  The web client is a clone of its own from bazaar,
\* part of the server's from git.
Clone(p) ==
  LET m == My(p)
      clones == {"server", "web", "env"} \ m.home
      mkdir == m.user /\ "dirs" \notin m.home
  IN /\ pc[p] = "clone"
     /\ \E got \in SUBSET clones :
          /\ IF m.user /\ got # clones THEN Fault(p) ELSE UNCHANGED <<hit, faults>>
          /\ rb' = [rb EXCEPT ![job[p].name].home =
                      IF m.user THEN m.home \cup got \cup {"dirs"} ELSE {}]
     /\ Goto(p, IF Stops(p) /\ ~mkdir THEN "trap" ELSE "role")
     /\ UNCHANGED <<ticket, job, mail, met>>

\* A role that owns databases cannot be dropped, and so not created again.
Role(p) ==
  LET m == My(p)
  IN Try(p, "role", "config", ~m.dbs, [m EXCEPT !.role = TRUE],
         {m} \cup (IF m.dbs THEN {} ELSE {[m EXCEPT !.role = FALSE]}))

\* The units first, then the files of the home, then the virtual host.
Config(p) ==
  LET m == My(p)
      works == m.user /\ {"dirs", "env"} \subseteq m.home
      units == [m EXCEPT !.units = TRUE]
      files == [units EXCEPT !.home = @ \cup {"conf"}]
      done == [files EXCEPT !.site = "http"]
  IN Try(p, "config", "start", works, done,
         IF works THEN {units, files, done}
         ELSE {IF Stops(p) THEN units ELSE [units EXCEPT !.site = "http"]})

\* Type=simple: systemd does not wait for the server to answer.
Start(p) ==
  Try(p, "start", "cert", My(p).units, [My(p) EXCEPT !.running = TRUE], {My(p)})

\* Mutant: certbot in the background, its status ignored.
Cert_Ignored(p) ==
  /\ pc[p] = "cert" /\ Goto(p, IF job[p].ssl THEN "site" ELSE "info")
  /\ \/ /\ rb' = [rb EXCEPT ![job[p].name].cert = @ \/ job[p].ssl]
        /\ UNCHANGED <<hit, faults>>
     \/ Fault(p) /\ UNCHANGED rb
  /\ UNCHANGED <<ticket, job, mail, met>>

Cert(p) ==
  LET m == My(p)
      done == [m EXCEPT !.cert = @ \/ job[p].ssl]
  IN Try(p, "cert", IF job[p].ssl THEN "site" ELSE "info", SitesLoad, done,
         IF Stops(p) THEN {m} ELSE {m, done})

\* The file is written over the one a2ensite has linked, if it still is.
Site(p) ==
  LET m == My(p)
      done == [m EXCEPT !.site = IF @ = "none" THEN @ ELSE "ssl"]
      loads == \A n \in Name : ~Broken([rb EXCEPT ![job[p].name] = done][n])
  IN Try(p, "site", "info", loads, done, {done})

Info(p) ==
  Try(p, "info", "build", My(p).user, [My(p) EXCEPT !.home = @ \cup {"info"}], {My(p)})

Build(p) ==
  /\ pc[p] = "build"
  /\ Goto(p, IF job[p].type = "none" THEN "setrb" ELSE "building")
  /\ UNCHANGED <<rb, ticket, job, mail, hit, met, faults>>

\* mkdb.py stops at the first error.
MkDb(p) ==
  LET m == My(p)
      dbs == [m EXCEPT !.dbs = TRUE]
  IN /\ job[p].type = "mkdb"
     /\ Try(p, "building", "setrb", Serving(m), dbs,
            IF Serving(m) THEN {m, dbs} ELSE {m})

\* build_and_test.sh goes on when mkdb.py fails, and ends with a mail.
DevTests(p) ==
  LET m == My(p)
  IN /\ job[p].type = "devtests"
     /\ \/ Try(p, "building", "setrb", "conf" \in m.home,
               [m EXCEPT !.dbs = @ \/ Serving(m)], {m})
        \/ /\ "conf" \in m.home /\ Fault(p)
           /\ pc[p] = "building" /\ Goto(p, "setrb")
           /\ UNCHANGED <<rb, ticket, job, mail, met>>

\* runtests.sh stops the services with /etc/init.d/, where init_sync.sh has
\* ceased to install anything.
TestField(p) ==
  /\ job[p].type = "testfield"
  /\ Try(p, "building", "setrb", FALSE, My(p), {My(p)})

SetRb(p) ==
  /\ pc[p] = "setrb"
  /\ \/ /\ Goto(p, "end")
        /\ ticket' = IF job[p].jira = "field" THEN ticket \cup {job[p].name} ELSE ticket
        /\ UNCHANGED <<hit, faults>>
     \/ /\ job[p].jira = "field" /\ Fault(p)
        /\ Goto(p, "trap")
        /\ UNCHANGED ticket
  /\ UNCHANGED <<rb, job, mail, met>>

\* end_of_script runs with errexit on: without RB_info.txt its first cat fails
\* and no mail leaves.
Mailed(p, status) ==
  IF job[p].auto /\ "info" \in My(p).home /\ (status = "FAILED" \/ job[p].type # "devtests")
  THEN status ELSE "none"

Finish(p) ==
  /\ \/ /\ pc[p] = "end" /\ Goto(p, "ok")
        /\ mail' = [mail EXCEPT ![p] = Mailed(p, "OK")]
     \/ /\ pc[p] = "trap" /\ Goto(p, "failed")
        /\ mail' = [mail EXCEPT ![p] = Mailed(p, "FAILED")]
  /\ UNCHANGED <<rb, ticket, job, hit, met, faults>>
-----------------------------------------------------------------------------
(* deleteRB.sh: whatever fails, the next command is run. *)

\* killall ends the shells that other calls run as the user.
Killed(p) == {q \in Others(p) : pc[q] \in {"clone", "building"} /\ Stops(q)}

Stop(p) ==
  /\ pc[p] = "stop"
  /\ pc' = [q \in Proc |-> IF q = p THEN "unsite"
                           ELSE IF q \in Killed(p) THEN "trap" ELSE pc[q]]
  /\ \/ /\ rb' = [rb EXCEPT ![job[p].name].running = FALSE]
        /\ UNCHANGED <<hit, faults>>
     \/ Fault(p) /\ UNCHANGED rb
  /\ UNCHANGED <<ticket, job, mail, met>>

UnSite(p) ==
  Try(p, "unsite", "dropdb", TRUE, [My(p) EXCEPT !.site = "none"], {My(p)})

\* Mutant: the databases of the second cluster are forgotten.
DropDb_OneCluster(p) == Try(p, "dropdb", "ununit", TRUE, My(p), {My(p)})

DropDb(p) ==
  Try(p, "dropdb", "ununit", ~Serving(My(p)), [My(p) EXCEPT !.dbs = FALSE], {My(p)})

\* Mutant: the certificates are left to expire.
UnUnit_CertsKept(p) ==
  Try(p, "ununit", "userdel", TRUE, [My(p) EXCEPT !.units = FALSE], {My(p)})

UnUnit(p) ==
  LET done == [My(p) EXCEPT !.units = FALSE, !.cert = FALSE]
  IN Try(p, "ununit", "userdel", TRUE, done, {[done EXCEPT !.units = My(p).units]})

\* userdel refuses while a process of the user runs.
UserDel(p) ==
  LET m == My(p)
      busy == Serving(m) \/ \E q \in Others(p) : pc[q] = "building"
  IN Try(p, "userdel",
         IF job[p].kind = "delete" THEN "deleted" ELSE FirstStage(job[p]),
         m.user /\ ~busy, [m EXCEPT !.user = FALSE, !.home = {}], {m})
-----------------------------------------------------------------------------
InitSync(p) ==
  \/ GetBranch(p) \/ Check(p) \/ UserAdd(p) \/ Clone(p) \/ Role(p) \/ Config(p)
  \/ Start(p) \/ Cert(p) \/ Site(p) \/ Info(p) \/ Build(p) \/ MkDb(p)
  \/ DevTests(p) \/ TestField(p) \/ SetRb(p) \/ Finish(p)

DeleteRB(p) == Stop(p) \/ UnSite(p) \/ DropDb(p) \/ UnUnit(p) \/ UserDel(p)

Next == \E p \in Proc : Begin(p) \/ InitSync(p) \/ DeleteRB(p)

Spec == Init /\ [][Next]_vars
-----------------------------------------------------------------------------
Whole(m, ssl) ==
  /\ m.user /\ m.home = Files /\ m.role /\ m.dbs /\ m.units /\ m.running
  /\ m.site = (IF ssl THEN "ssl" ELSE "http")

\* An automatic mkdb build that ends well, or that writes the URL on the ticket
\* (init_sync.sh:635), has built a whole runbot that is running, unless another
\* call worked on it meanwhile.  Of the clones that may fail without notice
\* (482-489) the build itself misses the server and the environment; only the
\* web client behind that URL may be missing, when its clone has failed.
ReadyMeansWhole ==
  [][\A p \in Proc :
       (/\ pc[p] = "setrb" /\ pc'[p] = "end"
        /\ job[p].auto /\ job[p].type = "mkdb" /\ ~met[p])
       => \/ Whole(My(p), job[p].ssl)
          \/ hit[p] /\ Whole([My(p) EXCEPT !.home = @ \cup {"web"}], job[p].ssl)]_vars

\* Two automatic builds of one name never go on side by side: start_jira_tests.sh
\* and cron may start both, both may find no /home (init_sync.sh:239), and
\* useradd lets one pass.
OneBuilder ==
  \A p \in Proc : \A q \in Others(p) :
    ~met[p] /\ ~met[q] =>
      ~(/\ pc[p] \in InitStages \ {"ticket", "check", "useradd"}
        /\ pc[q] \in InitStages \ {"ticket", "check", "useradd"})

\* start_jira_tests.sh removes and builds again: whatever earlier calls left,
\* having failed anywhere or run into each other, a restart whose commands work
\* and that nobody meets does not fail, when deleteRB.sh removes the runbot that
\* init_sync.sh is to build, and but for a site of another runbot that keeps
\* apache from reloading.  Where the two scripts take different names, of a
\* ticket with capitals, it stops at a runbot that is there.
RestartSucceeds ==
  [][\A p \in Proc :
       (/\ job[p].kind = "restart" /\ job[p].type # "testfield"
        /\ pc[p] # "trap" /\ pc'[p] \in {"trap", "refused"}
        /\ ~met'[p] /\ ~hit'[p])
       => \/ ~Removes(job[p])
          \/ \E n \in Name \ {job[p].name} : Broken(rb[n])]_vars

\* A deleteRB.sh whose commands work leaves nothing but the role of PostgreSQL,
\* whatever the calls before it left.
DeletedIsGone ==
  [][\A p \in Proc :
       (pc[p] = "userdel" /\ pc[p] # pc'[p] /\ ~met[p] /\ ~hit'[p])
       => rb'[job[p].name] = [Nothing EXCEPT !.role = My(p).role]]_vars

\* A site whose certificate is missing stops apache from reloading, for all
\* runbots.  Automatic builds never leave one, even when certbot fails: it takes
\* an interactive build or a deletion that failed, or calls that overlapped.
SitesStayLoadable ==
  (\E n \in Name : Broken(rb[n])) =>
    \E p \in Proc : met[p] \/ (hit[p] /\ Exclusive(p))

\* What send_mail (init_sync.sh:16) is for; refuted before RB_info.txt exists.
FailureIsMailed == \A p \in Proc : pc[p] = "failed" => mail[p] = "FAILED"
=============================================================================
