---------------------------- MODULE RunbotProofs ----------------------------
(***************************************************************************)
(* useradd is the lock of automatic builds: for any number of calls, names *)
(* and commands that fail, two automatic builds of one name are never both *)
(* past it, although init_sync.sh looks at /home before (line 239).  The   *)
(* invariant says that the account of an automatic build that is past it   *)
(* stays, since whoever removes it has met the build.                      *)
(*                                                                         *)
(* From the lock follows what a call finds of its own work later on: what  *)
(* it has made or removed so far, stage by stage, is still so unless it    *)
(* has met somebody.  That gives the properties of what calls leave.       *)
(***************************************************************************)
EXTENDS Runbot, TLAPS

Stage == {"waiting", "trap", "end"} \cup InitStages \cup DeleteStages \cup Ended

Building == InitStages \ {"ticket", "check", "useradd"}

Typed ==
  /\ rb \in [Name -> Parts] /\ job \in [Proc -> Jobs]
  /\ pc \in [Proc -> Stage] /\ met \in [Proc -> BOOLEAN]

\* what only deleteRB.sh and the restarts do
DeletesWhenAsked == \A p \in Proc : pc[p] \in DeleteStages => Removes(job[p])

\* calls of one name, one of which assumes to be alone, know of each other
OverlapsMet ==
  \A p \in Proc : \A q \in Others(p) :
    Active(p) /\ Active(q) /\ (Exclusive(p) \/ Exclusive(q)) => met[p] /\ met[q]

AccountKept ==
  \A p \in Proc :
    pc[p] \in Building /\ ~met[p] /\ ~Exclusive(p) => rb[job[p].name].user

\* what Try does, whether the command works or not
Moved(p, stage, m) ==
  /\ rb' = [rb EXCEPT ![job[p].name] = m]
  /\ Goto(p, stage)
  /\ UNCHANGED <<job, met>>

BuilderInv == Typed /\ DeletesWhenAsked /\ OverlapsMet /\ AccountKept /\ OneBuilder

LEMMA BuilderInit == Init => BuilderInv
<1> SUFFICES ASSUME Init PROVE BuilderInv OBVIOUS
<1>1. Typed
  BY RunbotAssumption DEF Init, Typed, Nothing, Parts, Stage
<1>2. \A p \in Proc : pc[p] = "waiting" BY DEF Init
<1> QED
  BY <1>1, <1>2 DEF BuilderInv, DeletesWhenAsked, OverlapsMet, Active, AccountKept, OneBuilder,
                Building, DeleteStages, InitStages

-----------------------------------------------------------------------------
LEMMA MyParts ==
  ASSUME Typed, NEW p \in Proc
  PROVE  My(p) \in Parts
BY DEF Typed, My, Jobs

LEMMA FirstIsStage ==
  ASSUME NEW j
  PROVE  FirstStage(j) \in {"ticket", "check", "useradd"}
BY DEF FirstStage

-----------------------------------------------------------------------------
(* Steps after which no call is active, builds or deletes that did not     *)
(* before.                                                                 *)

LEMMA QuietKeeps ==
  ASSUME BuilderInv, job' = job, met' = met,
         \A q \in Proc : \/ pc'[q] = pc[q]
                         \/ /\ Active(q)
                            /\ pc'[q] \in Building => pc[q] \in Building
                            /\ pc'[q] \in DeleteStages => pc[q] \in DeleteStages
  PROVE  /\ DeletesWhenAsked' /\ OverlapsMet' /\ OneBuilder'
         /\ (\A q \in Proc : rb[job[q].name].user => rb'[job[q].name].user) => AccountKept'
<1>1. \A q \in Proc : Active(q)' => Active(q)
  BY DEF Active
<1>2. \A q \in Proc : pc'[q] \in Building => pc[q] \in Building
  OBVIOUS
<1>3. \A q \in Proc : Others(q)' = Others(q) /\ Exclusive(q)' = Exclusive(q)
  BY DEF Others, Exclusive
<1>4. DeletesWhenAsked'
  BY DEF BuilderInv, DeletesWhenAsked
<1>5. OverlapsMet'
  BY <1>1, <1>3 DEF BuilderInv, OverlapsMet, Others
<1>6. (\A q \in Proc : rb[job[q].name].user => rb'[job[q].name].user) => AccountKept'
  BY <1>2, <1>3 DEF BuilderInv, AccountKept
<1>7. OneBuilder'
  BY <1>2, <1>3 DEF BuilderInv, OneBuilder, Building, Others
<1> QED BY <1>4, <1>5, <1>6, <1>7

LEMMA MovedKeeps ==
  ASSUME BuilderInv, NEW p \in Proc, NEW s \in Stage, NEW m \in Parts,
         Moved(p, s, m), Active(p),
         s \in Building => pc[p] \in Building,
         s \in DeleteStages => pc[p] \in DeleteStages,
         My(p).user => m.user
  PROVE  BuilderInv'
<1>1. Typed'
  BY DEF BuilderInv, Typed, Moved, Goto
<1>2. \A q \in Proc : rb[job[q].name].user => rb'[job[q].name].user
  BY DEF BuilderInv, Typed, My, Jobs, Moved
<1>3. \A q \in Proc : \/ pc'[q] = pc[q]
                      \/ /\ Active(q)
                         /\ pc'[q] \in Building => pc[q] \in Building
                         /\ pc'[q] \in DeleteStages => pc[q] \in DeleteStages
  BY DEF BuilderInv, Typed, Moved, Goto
<1> QED BY <1>1, <1>2, <1>3, QuietKeeps DEF BuilderInv, Moved

\* The commands whose two stages are both of a build, or both of a deletion, and
\* that leave the account.
Within(p, s) == \/ pc[p] \in Building /\ s \in Building \cup {"trap"}
                \/ pc[p] \in DeleteStages /\ s \in DeleteStages \cup {"trap"}

LEMMA QuietTries ==
  ASSUME BuilderInv, NEW p \in Proc,
         \/ Role(p) \/ Config(p) \/ Start(p) \/ Cert(p) \/ Site(p) \/ Info(p) \/ MkDb(p)
         \/ TestField(p) \/ UnSite(p) \/ DropDb(p) \/ UnUnit(p)
  PROVE  BuilderInv'
<1>1. \E x \in Parts, s \in Stage : Moved(p, s, x) /\ x.user = My(p).user /\ Within(p, s)
  <2> DEFINE m == My(p)
  <2> USE DEF Stage, Within, Building, InitStages, DeleteStages
  <2>1. /\ m \in Parts /\ m.user \in BOOLEAN /\ m.home \subseteq Files
        /\ m.cert \in BOOLEAN /\ m.units \in BOOLEAN /\ job[p].ssl \in BOOLEAN
    BY MyParts DEF BuilderInv, Parts, Typed, Jobs
  <2> HIDE DEF m
  <2>2. CASE Role(p)
    <3> DEFINE a == [m EXCEPT !.role = TRUE]
               b == [m EXCEPT !.role = FALSE]
    <3>1. {a, b} \subseteq Parts /\ \A x \in {a, b} : x.user = m.user
      BY <2>1 DEF Parts, Files
    <3>2. PICK x \in {m, a, b}, s \in {"config", "trap"} :
            Moved(p, s, x) /\ pc[p] = "role"
      BY <2>2 DEF Role, Try, Moved, m
    <3> QED BY <3>1, <3>2, <2>1 DEF m
  <2>3. CASE Config(p)
    <3> DEFINE a == [m EXCEPT !.units = TRUE]
               b == [a EXCEPT !.home = @ \cup {"conf"}]
               c == [b EXCEPT !.site = "http"]
               d == [a EXCEPT !.site = "http"]
    <3>1. {a, b, c, d} \subseteq Parts /\ \A x \in {a, b, c, d} : x.user = m.user
      <4>1. a \in Parts /\ a.user = m.user /\ a.home \subseteq Files
        BY <2>1 DEF Parts
      <4> HIDE DEF a
      <4>2. b \in Parts /\ b.user = m.user
        BY <4>1 DEF Parts, Files
      <4> HIDE DEF b
      <4>3. c \in Parts /\ c.user = m.user /\ d \in Parts /\ d.user = m.user
        BY <4>1, <4>2 DEF Parts
      <4> HIDE DEF c, d
      <4> QED BY <4>1, <4>2, <4>3
    <3>2. PICK x \in {m, a, b, c, d}, s \in {"start", "trap"} :
            Moved(p, s, x) /\ pc[p] = "config"
      BY <2>3 DEF Config, Try, Moved, m
    <3> QED BY <3>1, <3>2, <2>1 DEF m
  <2>4. CASE Start(p)
    <3> DEFINE a == [m EXCEPT !.running = TRUE]
    <3>1. {a} \subseteq Parts /\ \A x \in {a} : x.user = m.user
      BY <2>1 DEF Parts, Files
    <3>2. PICK x \in {m, a}, s \in {"cert", "trap"} :
            Moved(p, s, x) /\ pc[p] = "start"
      BY <2>4 DEF Start, Try, Moved, m
    <3> QED BY <3>1, <3>2, <2>1 DEF m
  <2>5. CASE Cert(p)
    <3> DEFINE a == [m EXCEPT !.cert = @ \/ job[p].ssl]
    <3>1. {a} \subseteq Parts /\ \A x \in {a} : x.user = m.user
      BY <2>1 DEF Parts, Files
    <3>2. PICK x \in {m, a}, s \in {"site", "info", "trap"} :
            Moved(p, s, x) /\ pc[p] = "cert"
      BY <2>5 DEF Cert, Try, Moved, m
    <3> QED BY <3>1, <3>2, <2>1 DEF m
  <2>6. CASE Site(p)
    <3> DEFINE a == [m EXCEPT !.site = IF @ = "none" THEN @ ELSE "ssl"]
    <3>1. {a} \subseteq Parts /\ \A x \in {a} : x.user = m.user
      BY <2>1 DEF Parts, Files
    <3>2. PICK x \in {m, a}, s \in {"info", "trap"} :
            Moved(p, s, x) /\ pc[p] = "site"
      BY <2>6 DEF Site, Try, Moved, m
    <3> QED BY <3>1, <3>2, <2>1 DEF m
  <2>7. CASE Info(p)
    <3> DEFINE a == [m EXCEPT !.home = @ \cup {"info"}]
    <3>1. {a} \subseteq Parts /\ \A x \in {a} : x.user = m.user
      BY <2>1 DEF Parts, Files
    <3>2. PICK x \in {m, a}, s \in {"build", "trap"} :
            Moved(p, s, x) /\ pc[p] = "info"
      BY <2>7 DEF Info, Try, Moved, m
    <3> QED BY <3>1, <3>2, <2>1 DEF m
  <2>8. CASE MkDb(p)
    <3> DEFINE a == [m EXCEPT !.dbs = TRUE]
    <3>1. {a} \subseteq Parts /\ \A x \in {a} : x.user = m.user
      BY <2>1 DEF Parts, Files
    <3>2. PICK x \in {m, a}, s \in {"setrb", "trap"} :
            Moved(p, s, x) /\ pc[p] = "building"
      BY <2>8 DEF MkDb, Try, Moved, m
    <3> QED BY <3>1, <3>2, <2>1 DEF m
  <2>9. CASE TestField(p)
    <3>1. PICK s \in {"setrb", "trap"} : Moved(p, s, m) /\ pc[p] = "building"
      BY <2>9 DEF TestField, Try, Moved, m
    <3> QED BY <3>1, <2>1 DEF m
  <2>10. CASE UnSite(p)
    <3> DEFINE a == [m EXCEPT !.site = "none"]
    <3>1. {a} \subseteq Parts /\ \A x \in {a} : x.user = m.user
      BY <2>1 DEF Parts, Files
    <3>2. PICK x \in {m, a}, s \in {"dropdb", "trap"} :
            Moved(p, s, x) /\ pc[p] = "unsite"
      BY <2>10 DEF UnSite, Try, Moved, m
    <3> QED BY <3>1, <3>2, <2>1 DEF m
  <2>11. CASE DropDb(p)
    <3> DEFINE a == [m EXCEPT !.dbs = FALSE]
    <3>1. {a} \subseteq Parts /\ \A x \in {a} : x.user = m.user
      BY <2>1 DEF Parts, Files
    <3>2. PICK x \in {m, a}, s \in {"ununit", "trap"} :
            Moved(p, s, x) /\ pc[p] = "dropdb"
      BY <2>11 DEF DropDb, Try, Moved, m
    <3> QED BY <3>1, <3>2, <2>1 DEF m
  <2>12. CASE UnUnit(p)
    <3> DEFINE a == [m EXCEPT !.units = FALSE, !.cert = FALSE]
               b == [a EXCEPT !.units = m.units]
    <3>1. {a, b} \subseteq Parts /\ \A x \in {a, b} : x.user = m.user
      BY <2>1 DEF Parts, Files
    <3>2. PICK x \in {m, a, b}, s \in {"userdel", "trap"} :
            Moved(p, s, x) /\ pc[p] = "ununit"
      BY <2>12 DEF UnUnit, Try, Moved, m
    <3> QED BY <3>1, <3>2, <2>1 DEF m
  <2> QED BY <2>2, <2>3, <2>4, <2>5, <2>6, <2>7, <2>8, <2>9, <2>10, <2>11, <2>12
<1>2. ASSUME NEW s \in Stage, Within(p, s)
      PROVE  /\ Active(p)
             /\ s \in Building => pc[p] \in Building
             /\ s \in DeleteStages => pc[p] \in DeleteStages
  BY <1>2 DEF Within, Active, Building, InitStages, DeleteStages, Ended
<1> QED BY <1>1, <1>2, MovedKeeps

LEMMA QuietSteps ==
  ASSUME BuilderInv, NEW p \in Proc,
         \/ GetBranch(p) \/ Check(p) \/ Clone(p) \/ Build(p) \/ DevTests(p) \/ SetRb(p)
         \/ Finish(p) \/ Stop(p)
  PROVE  BuilderInv'
<1> DEFINE From(q) == \/ pc'[q] = pc[q]
                      \/ /\ Active(q)
                         /\ pc'[q] \in Building => pc[q] \in Building
                         /\ pc'[q] \in DeleteStages => pc[q] \in DeleteStages
<1> SUFFICES /\ Typed' /\ job' = job /\ met' = met /\ \A q \in Proc : From(q)
             /\ \A q \in Proc : rb[job[q].name].user => rb'[job[q].name].user
  BY QuietKeeps DEF BuilderInv
<1> USE DEF BuilderInv, Typed, Goto
<1>1. CASE GetBranch(p) \/ Check(p) \/ Build(p) \/ SetRb(p) \/ Finish(p)
  <2>1. rb' = rb /\ job' = job /\ met' = met
    BY <1>1 DEF GetBranch, Check, Build, SetRb, Finish
  <2>2. PICK s \in Stage : pc' = [pc EXCEPT ![p] = s] /\ s \notin DeleteStages
                           /\ Active(p) /\ (s \in Building => pc[p] \in Building)
    BY <1>1 DEF GetBranch, Check, Build, SetRb, Finish, Active, Ended, Stage, InitStages,
                DeleteStages, Building
  <2> QED BY <2>1, <2>2
<1>2. CASE Clone(p)
  <2>1. job' = job /\ met' = met /\ pc[p] = "clone"
    BY <1>2 DEF Clone
  <2> DEFINE m == My(p)
  <2>2. PICK h \in SUBSET Files : rb' = [rb EXCEPT ![job[p].name] = [m EXCEPT !.home = h]]
    BY <1>2, MyParts DEF Clone, Files, Parts, My
  <2>3. PICK s \in {"role", "trap"} : pc' = [pc EXCEPT ![p] = s]
    BY <1>2 DEF Clone
  <2>4. rb' \in [Name -> Parts] /\ \A q \in Proc : rb'[job[q].name].user = rb[job[q].name].user
    <3> HIDE DEF m
    <3>1. m \in Parts /\ m = rb[job[p].name]
      BY MyParts DEF m, My
    <3>2. [m EXCEPT !.home = h] \in Parts /\ [m EXCEPT !.home = h].user = m.user
      BY <3>1 DEF Parts
    <3> QED BY <2>2, <3>1, <3>2 DEF Jobs
  <2> QED BY <2>1, <2>3, <2>4 DEF Stage, Building, InitStages, DeleteStages, Active, Ended
<1>3. CASE DevTests(p)
  <2>1. CASE Fault(p) /\ pc[p] = "building" /\ Goto(p, "setrb") /\ UNCHANGED <<rb, ticket, job, mail, met>>
    BY <2>1 DEF Stage, Building, InitStages, DeleteStages, Active, Ended
  <2> DEFINE m == My(p)
             a == [m EXCEPT !.dbs = @ \/ Serving(m)]
  <2>2. m \in Parts /\ Serving(m) \in BOOLEAN
    BY MyParts DEF Serving, Parts
  <2>3. CASE Try(p, "building", "setrb", "conf" \in m.home, a, {m})
    <3> HIDE DEF m
    <3>1. a \in Parts /\ a.user = m.user
      BY <2>2 DEF Parts
    <3>2. PICK x \in {m, a}, s \in {"setrb", "trap"} : Moved(p, s, x) /\ pc[p] = "building"
      BY <2>3 DEF Try, Moved
    <3>3. x \in Parts /\ x.user = My(p).user
      BY <3>1, <3>2, <2>2 DEF m
    <3>4. /\ s \in Stage /\ Active(p) /\ pc[p] \in Building /\ s \notin DeleteStages
      BY <3>2 DEF Stage, Building, InitStages, DeleteStages, Active, Ended
    <3>5. rb' = [rb EXCEPT ![job[p].name] = x] /\ pc' = [pc EXCEPT ![p] = s] /\ job' = job /\ met' = met
      BY <3>2 DEF Moved
    <3> QED BY <3>3, <3>4, <3>5 DEF My, Jobs
  <2> QED BY <1>3, <2>1, <2>3 DEF DevTests
<1>4. CASE Stop(p)
  <2>1. job' = job /\ met' = met /\ pc[p] = "stop"
        /\ pc' = [q \in Proc |-> IF q = p THEN "unsite"
                                 ELSE IF q \in Killed(p) THEN "trap" ELSE pc[q]]
    BY <1>4 DEF Stop
  <2> DEFINE m == My(p)
  <2>2. rb' = rb \/ rb' = [rb EXCEPT ![job[p].name] = [m EXCEPT !.running = FALSE]]
    BY <1>4 DEF Stop, My
  <2>3. rb' \in [Name -> Parts] /\ \A q \in Proc : rb'[job[q].name].user = rb[job[q].name].user
    <3> HIDE DEF m
    <3>1. m \in Parts /\ m = rb[job[p].name]
      BY MyParts DEF m, My
    <3>2. [m EXCEPT !.running = FALSE] \in Parts /\ [m EXCEPT !.running = FALSE].user = m.user
      BY <3>1 DEF Parts
    <3> QED BY <2>2, <3>1, <3>2 DEF Jobs
  <2>4. \A q \in Killed(p) : Active(q)
    BY DEF Killed, Active, Ended
  <2> QED BY <2>1, <2>3, <2>4 DEF Stage, Building, InitStages, DeleteStages, Active, Ended
<1> QED BY <1>1, <1>2, <1>3, <1>4
-----------------------------------------------------------------------------
(* The calls that begin, useradd and userdel.                              *)

\* The one that passes found no account, so that no automatic build it has not
\* met holds one; an interactive call passes anyway, but has met the others.
LEMMA UserAddKeeps ==
  ASSUME BuilderInv, NEW p \in Proc, UserAdd(p)
  PROVE  BuilderInv'
<1> DEFINE m == My(p)
           made == [m EXCEPT !.user = TRUE]
<1> USE DEF BuilderInv, Typed
<1>1. m \in Parts /\ made \in Parts /\ made.user
  <2>1. m \in Parts
    BY MyParts
  <2> HIDE DEF m
  <2> QED BY <2>1 DEF Parts
<1>2. PICK x \in {m, made}, s \in {"clone", "trap"} :
        /\ Moved(p, s, x) /\ pc[p] = "useradd"
        /\ \/ ~m.user /\ x = made
           \/ s = "clone" => ~Stops(p)
  BY DEF UserAdd, Try, Moved
<1> HIDE DEF made
<1>3. Active(p) /\ pc[p] \notin Building /\ s \in Stage /\ s \notin DeleteStages
      /\ "trap" \notin Building
  BY <1>2 DEF Active, Ended, Building, InitStages, DeleteStages, Stage
<1>4. x \in Parts /\ (m.user => x.user)
  BY <1>1, <1>2
<1>5. CASE s = "trap"
  BY <1>2, <1>3, <1>4, <1>5, MovedKeeps
<1>6. CASE s = "clone"
  <2>1. /\ job' = job /\ met' = met /\ pc' = [pc EXCEPT ![p] = "clone"]
        /\ rb' = [rb EXCEPT ![job[p].name] = x]
    BY <1>2, <1>6 DEF Moved, Goto
  <2>2. Typed'
    BY <2>1, <1>3, <1>4, <1>6
  <2>3. \A q \in Proc : rb[job[q].name].user => rb'[job[q].name].user
    BY <2>1, <1>4 DEF My, Jobs
  <2>4. \A q \in Proc : /\ Active(q)' => Active(q)
                        /\ Others(q)' = Others(q) /\ Exclusive(q)' = Exclusive(q)
                        /\ q # p => pc'[q] = pc[q]
    BY <2>1, <1>3 DEF Active, Others, Exclusive
  <2>5. Exclusive(p) \/ (~m.user /\ x.user)
    BY <1>1, <1>2, <1>6 DEF Stops, Exclusive, InitStages
  <2>6. DeletesWhenAsked'
    BY <2>1, <2>4, <1>3, <1>6 DEF DeletesWhenAsked
  <2>7. OverlapsMet'
    BY <2>1, <2>4 DEF OverlapsMet, Others
  <2>8. AccountKept'
    <3>1. ~Exclusive(p) => rb'[job[p].name].user
      BY <2>1, <2>5 DEF My, Jobs
    <3> QED BY <3>1, <2>1, <2>3, <2>4 DEF AccountKept
  <2>9. OneBuilder'
    <3>1. ASSUME NEW q \in Others(p), ~met[p], ~met[q]
          PROVE  pc[q] \notin Building
      <4>1. q \in Proc /\ job[q].name = job[p].name
        BY DEF Others
      <4>2. CASE pc[q] \in Building
        <5>1. Active(q)
          BY <4>2 DEF Active, Ended, Building, InitStages
        <5>2. ~Exclusive(p) /\ ~Exclusive(q)
          BY <3>1, <4>1, <5>1, <1>3 DEF OverlapsMet
        <5> QED BY <5>2, <2>5, <4>1, <4>2, <3>1 DEF AccountKept, My
      <4> QED BY <4>2
    <3>2. ASSUME NEW a \in Proc, NEW b \in Others(a), ~met[a], ~met[b]
          PROVE  ~(pc'[a] \in Building /\ pc'[b] \in Building)
      <4>1. b \in Proc /\ a # b /\ a \in Others(b)
        BY DEF Others
      <4>2. CASE a = p
        BY <4>1, <4>2, <3>1, <3>2, <2>4
      <4>3. CASE b = p
        BY <4>1, <4>3, <3>1, <3>2, <2>4
      <4>4. CASE a # p /\ b # p
        BY <4>1, <4>4, <3>2, <2>4 DEF OneBuilder, Building
      <4> QED BY <4>2, <4>3, <4>4
    <3> QED BY <3>2, <2>1, <2>4 DEF OneBuilder, Building
  <2> QED BY <2>2, <2>6, <2>7, <2>8, <2>9
<1> QED BY <1>2, <1>5, <1>6

\* Who removes the account assumes to be alone, and so has met whoever builds.
LEMMA UserDelKeeps ==
  ASSUME BuilderInv, NEW p \in Proc, UserDel(p)
  PROVE  BuilderInv'
<1> DEFINE m == My(p)
           gone == [m EXCEPT !.user = FALSE, !.home = {}]
<1> USE DEF BuilderInv, Typed
<1>1. m \in Parts /\ gone \in Parts
  <2>1. m \in Parts
    BY MyParts
  <2> HIDE DEF m
  <2> QED BY <2>1 DEF Parts
<1>2. PICK x \in {m, gone}, s \in {"trap", "deleted", FirstStage(job[p])} :
        Moved(p, s, x) /\ pc[p] = "userdel"
  BY DEF UserDel, Try, Moved
<1> HIDE DEF m, gone
<1>3. /\ s \in Stage /\ s \notin DeleteStages \cup Building
      /\ Active(p) /\ pc[p] \in DeleteStages
  BY <1>2, FirstIsStage DEF Active, Ended, Building, InitStages, DeleteStages, Stage
<1>4. /\ job' = job /\ met' = met /\ pc' = [pc EXCEPT ![p] = s]
      /\ rb' = [rb EXCEPT ![job[p].name] = x] /\ x \in Parts
  BY <1>1, <1>2 DEF Moved, Goto
<1>5. Typed'
  BY <1>3, <1>4
<1>6. Exclusive(p)
  BY <1>3 DEF DeletesWhenAsked, Exclusive
<1>7. DeletesWhenAsked' /\ OverlapsMet' /\ OneBuilder'
  BY <1>3, <1>4, QuietKeeps
<1>8. AccountKept'
  <2>1. ASSUME NEW q \in Proc, pc'[q] \in Building, ~met[q], ~Exclusive(q)
        PROVE  rb'[job[q].name].user
    <3>1. q # p /\ pc[q] \in Building
      BY <2>1, <1>3, <1>4
    <3>2. Active(q)
      BY <3>1 DEF Active, Ended, Building, InitStages
    <3>3. job[q].name # job[p].name
      BY <3>1, <3>2, <1>3, <1>6, <2>1 DEF OverlapsMet, Others
    <3> QED BY <3>1, <3>3, <1>4, <2>1 DEF AccountKept, Jobs
  <2> QED BY <2>1, <1>4 DEF AccountKept, Exclusive
<1> QED BY <1>5, <1>7, <1>8

LEMMA BeginKeeps ==
  ASSUME BuilderInv, NEW p \in Proc, Begin(p)
  PROVE  BuilderInv'
<1> USE DEF BuilderInv, Typed
<1>1. PICK s \in {"refused", "stop", FirstStage(job[p])} :
        /\ pc[p] = "waiting" /\ pc' = [pc EXCEPT ![p] = s]
        /\ s = "stop" => Removes(job[p])
  BY FirstIsStage DEF Begin, Goto
<1>2. s \in Stage /\ s \notin Building /\ (s \in DeleteStages => s = "stop")
  BY FirstIsStage DEF Stage, Building, DeleteStages, InitStages, Ended
<1>3. rb' = rb /\ job' = job
  BY DEF Begin
<1>4. /\ met' \in [Proc -> BOOLEAN]
      /\ \A q \in Proc : met[q] => met'[q]
      /\ \A q \in Others(p) :
           Active(q) /\ (Exclusive(p) \/ Exclusive(q)) => met'[p] /\ met'[q]
  BY DEF Begin, Others
<1>5. \A q \in Proc : /\ q # p => pc'[q] = pc[q] /\ (Active(q)' => Active(q))
                      /\ Others(q)' = Others(q) /\ Exclusive(q)' = Exclusive(q)
                      /\ pc'[q] \in Building => q # p
  BY <1>1, <1>2, <1>3 DEF Active, Others, Exclusive
<1>6. Typed'
  BY <1>1, <1>2, <1>3, <1>4
<1>7. DeletesWhenAsked'
  BY <1>1, <1>2, <1>3 DEF DeletesWhenAsked
<1>8. OverlapsMet'
  <2>1. ASSUME NEW a \in Proc, NEW b \in Others(a), Active(a)', Active(b)',
               Exclusive(a) \/ Exclusive(b)
        PROVE  met'[a] /\ met'[b]
    <3>1. b \in Proc /\ a # b /\ a \in Others(b)
      BY DEF Others
    <3>2. CASE a = p
      BY <3>1, <3>2, <2>1, <1>4, <1>5
    <3>3. CASE b = p
      BY <3>1, <3>3, <2>1, <1>4, <1>5
    <3>4. CASE a # p /\ b # p
      BY <3>1, <3>4, <2>1, <1>4, <1>5 DEF OverlapsMet
    <3> QED BY <3>2, <3>3, <3>4
  <2> QED BY <2>1, <1>5 DEF OverlapsMet, Others
<1>9. AccountKept'
  BY <1>3, <1>4, <1>5 DEF AccountKept
<1>10. OneBuilder'
  BY <1>4, <1>5 DEF OneBuilder, Building, Others
<1> QED BY <1>6, <1>7, <1>8, <1>9, <1>10

-----------------------------------------------------------------------------
LEMMA BuilderStep == BuilderInv /\ [Next]_vars => BuilderInv'
<1>1. ASSUME BuilderInv, Next PROVE BuilderInv'
  <2>1. PICK p \in Proc : Begin(p) \/ InitSync(p) \/ DeleteRB(p)
    BY <1>1 DEF Next
  <2> QED BY <1>1, <2>1, BeginKeeps, UserAddKeeps, UserDelKeeps, QuietSteps, QuietTries
          DEF InitSync, DeleteRB
<1>2. ASSUME BuilderInv, UNCHANGED vars PROVE BuilderInv'
  BY <1>2 DEF vars, BuilderInv, Typed, DeletesWhenAsked, OverlapsMet, AccountKept, OneBuilder,
              Active, Others, Exclusive
<1> QED BY <1>1, <1>2

\* However many automatic builds of a name cron and start_jira_tests.sh start, and
\* whatever deletions, restarts and interactive builds run beside them, two that
\* have met none of these never both go on past useradd.
THEOREM UseraddIsALock == Spec => []OneBuilder
<1>1. BuilderInv => OneBuilder
  BY DEF BuilderInv
<1> QED BY BuilderInit, BuilderStep, <1>1, PTL DEF Spec

-----------------------------------------------------------------------------
(* What a call has made or removed so far.                                 *)

\* Who is at the same runbot at the same time has met somebody or has not, with
\* the others.
MetTogether ==
  /\ \A p \in Proc : pc[p] = "waiting" => ~met[p]
  /\ \A p \in Proc : \A q \in Others(p) : Active(p) /\ Active(q) /\ met[p] => met[q]

\* A home is that of an account.
HomeOfUser == \A n \in Name : rb[n].user \/ rb[n].home = {}

\* What deleteRB.sh has removed so far, nothing having failed.
Removing(p) ==
  ~met[p] /\ ~hit[p] =>
    /\ pc[p] \in {"unsite", "dropdb", "ununit", "userdel"} => ~My(p).running
    /\ pc[p] \in {"dropdb", "ununit", "userdel"} => My(p).site = "none"
    /\ pc[p] \in {"ununit", "userdel"} => ~My(p).dbs
    /\ pc[p] = "userdel" => ~My(p).units /\ ~My(p).cert

\* What an automatic build has made so far, whatever has failed.
Served == {"cert", "site", "info", "build", "building", "setrb"}
Made(p) ==
  job[p].auto /\ ~met[p] =>
    /\ pc[p] \in Building => My(p).user
    /\ pc[p] \in Building \ {"clone"} => "dirs" \in My(p).home
    /\ pc[p] \in Building \ {"clone", "role"} => My(p).role
    /\ pc[p] \in {"start"} \cup Served =>
         /\ My(p).units /\ {"conf", "env"} \subseteq My(p).home
         /\ My(p).site = IF job[p].ssl /\ pc[p] \in {"info", "build", "building", "setrb"}
                         THEN "ssl" ELSE "http"
    /\ pc[p] \in Served => My(p).running
    /\ pc[p] \in {"build", "building", "setrb"} => "info" \in My(p).home
    /\ pc[p] = "setrb" /\ job[p].type = "mkdb" => My(p).dbs /\ "server" \in My(p).home
    /\ pc[p] \in Building \ {"clone"} /\ ~hit[p] => "web" \in My(p).home

\* What a restart starts from, nothing having failed.
Restarting(p) ==
  job[p].kind = "restart" /\ Removes(job[p]) /\ ~met[p] /\ ~hit[p] =>
    /\ pc[p] \in {"ticket", "check", "useradd"} => ~My(p).user
    /\ pc[p] \in {"ticket", "check", "useradd", "clone"} => My(p).home = {}
    /\ pc[p] \in {"ticket", "check", "useradd", "clone", "role"} => ~My(p).dbs
    /\ pc[p] \in Building \ {"clone"} => {"env", "server"} \subseteq My(p).home
    /\ pc[p] = "site" => My(p).cert
    /\ pc[p] # "refused"

\* Nobody has met anybody, and interactive commands and deletions worked.
Calm == \A p \in Proc : ~met[p] /\ ~(hit[p] /\ Exclusive(p))

Certified(p) ==
  /\ pc[p] = "site" => job[p].ssl /\ (Calm => My(p).cert)
  /\ Calm /\ pc[p] \in {"dropdb", "ununit"} => My(p).site = "none"

StepInv(p) == Removing(p) /\ Made(p) /\ Restarting(p) /\ Certified(p)

RunbotInv ==
  /\ BuilderInv
  /\ \A p \in Proc : job[p].kind = "init" \/ job[p].auto
  /\ hit \in [Proc -> BOOLEAN]
  /\ MetTogether
  /\ HomeOfUser
  /\ \A p \in Proc : StepInv(p)
  /\ SitesStayLoadable

-----------------------------------------------------------------------------
(* A step changes the runbot at hand, and stops no call but by killall.    *)

Step(p) == Begin(p) \/ InitSync(p) \/ DeleteRB(p)

Frame(p) ==
  /\ job' = job /\ \A q \in Proc : (met[q] => met'[q]) /\ (hit[q] => hit'[q])
  /\ \A n \in Name \ {job[p].name} : rb'[n] = rb[n]
  /\ pc'[p] # "waiting" /\ (Active(p) \/ UNCHANGED rb)
  /\ \A q \in Proc \ {p} :
       /\ hit'[q] = hit[q]
       /\ pc'[q] = pc[q] \/ (pc'[q] = "trap" /\ pc[p] = "stop" /\ q \in Killed(p))

LEMMA StepFrame ==
  ASSUME BuilderInv, hit \in [Proc -> BOOLEAN], NEW p \in Proc, Step(p)
  PROVE  Frame(p) /\ hit' \in [Proc -> BOOLEAN]
<1> USE DEF BuilderInv, Typed, Frame, Goto, Active, Ended
<1>1. CASE Begin(p)
  BY <1>1, FirstIsStage DEF Begin
<1>2. CASE Stop(p)
  BY <1>2 DEF Stop, Fault
<1>3. CASE GetBranch(p) \/ Check(p) \/ Clone(p) \/ Build(p) \/ SetRb(p) \/ Finish(p)
  BY <1>3 DEF GetBranch, Check, Clone, Build, SetRb, Finish, Fault
<1>4. CASE UserAdd(p)
  BY <1>4 DEF UserAdd, Try, Fault
<1>5. CASE Role(p)
  BY <1>5 DEF Role, Try, Fault
<1>6. CASE Config(p)
  BY <1>6 DEF Config, Try, Fault
<1>7. CASE Start(p)
  BY <1>7 DEF Start, Try, Fault
<1>8. CASE Cert(p)
  BY <1>8 DEF Cert, Try, Fault
<1>9. CASE Site(p)
  BY <1>9 DEF Site, Try, Fault
<1>10. CASE Info(p)
  BY <1>10 DEF Info, Try, Fault
<1>11. CASE MkDb(p)
  BY <1>11 DEF MkDb, Try, Fault
<1>12. CASE DevTests(p)
  BY <1>12 DEF DevTests, Try, Fault
<1>13. CASE TestField(p)
  BY <1>13 DEF TestField, Try, Fault
<1>14. CASE UnSite(p)
  BY <1>14 DEF UnSite, Try, Fault
<1>15. CASE DropDb(p)
  BY <1>15 DEF DropDb, Try, Fault
<1>16. CASE UnUnit(p)
  BY <1>16 DEF UnUnit, Try, Fault
<1>17. CASE UserDel(p)
  BY <1>17, FirstIsStage DEF UserDel, Try, Fault
<1> QED BY <1>1, <1>2, <1>3, <1>4, <1>5, <1>6, <1>7, <1>8, <1>9, <1>10, <1>11, <1>12, <1>13, <1>14, <1>15, <1>16, <1>17 DEF Step, InitSync, DeleteRB

LEMMA MetStep ==
  ASSUME BuilderInv, BuilderInv', MetTogether, hit \in [Proc -> BOOLEAN],
         NEW p \in Proc, Step(p)
  PROVE  MetTogether'
<1> USE DEF BuilderInv, Typed, MetTogether, Others
<1>1. CASE Begin(p)
  <2>1. PICK s : pc[p] = "waiting" /\ pc' = [pc EXCEPT ![p] = s] /\ s # "waiting"
    BY <1>1, FirstIsStage DEF Begin, Goto
  <2> DEFINE meets == {q \in Others(p) :
                         Active(q) /\ (Exclusive(p) \/ Exclusive(q) \/ met[q])}
  <2>2. /\ job' = job
        /\ met' = [q \in Proc |-> met[q] \/ q \in meets \/ (q = p /\ meets # {})]
    BY <1>1 DEF Begin
  <2>3. ~met[p]
    BY <2>1
  <2>4. \A q \in Proc \ {p} : pc'[q] = pc[q] /\ (Active(q)' <=> Active(q))
    BY <2>1 DEF Active
  <2>5. ASSUME NEW q \in Proc, pc'[q] = "waiting" PROVE ~met'[q]
    <3>1. q # p /\ pc[q] = "waiting"
      BY <2>1, <2>4, <2>5
    <3>2. ~Active(q)
      BY <3>1 DEF Active
    <3> QED BY <2>2, <3>1, <3>2
  <2>6. ASSUME NEW a \in Proc, NEW b \in Others(a), Active(a)', Active(b)', met'[a]
        PROVE  met'[b]
    <3>1. CASE a # p /\ b # p
      <4>1. Active(a) /\ Active(b) /\ a \in Others(b)
        BY <2>4, <2>6, <3>1
      <4>2. CASE met[b]
        BY <2>2, <4>2
      <4>3. CASE ~met[b]
        <5>1. ~met[a]
          BY <4>1, <4>3
        <5>2. ~Exclusive(a) /\ ~Exclusive(b)
          BY <4>1, <4>3, <5>1 DEF OverlapsMet
        <5>3. a \in meets
          BY <2>2, <2>6, <3>1, <5>1
        <5>4. Exclusive(p) /\ b \in meets
          BY <3>1, <4>1, <5>1, <5>2, <5>3
        <5> QED BY <2>2, <5>4
      <4> QED BY <4>2, <4>3
    <3>2. CASE a = p
      <4>1. PICK c \in meets : TRUE
        BY <2>2, <2>3, <2>6, <3>2
      <4>2. b # p /\ Active(b) /\ b \in Others(p)
        BY <2>4, <2>6, <3>2
      <4>3. Exclusive(p) \/ Exclusive(c) \/ met[c]
        BY <4>1
      <4>4. CASE b = c \/ Exclusive(p)
        BY <2>2, <4>1, <4>2, <4>4
      <4>5. CASE b # c /\ ~Exclusive(p)
        <5>1. b \in Others(c)
          BY <4>1, <4>2, <4>5
        <5>2. met[b]
          BY <4>1, <4>2, <4>3, <4>5, <5>1 DEF OverlapsMet
        <5> QED BY <2>2, <5>2
      <4> QED BY <4>4, <4>5
    <3>3. CASE b = p
      <4>1. a # p /\ Active(a) /\ a \in Others(p)
        BY <2>4, <2>6, <3>3
      <4>2. met[a] \/ a \in meets
        BY <2>2, <2>6, <4>1
      <4>3. a \in meets
        BY <4>1, <4>2
      <4> QED BY <2>2, <3>3, <4>3
    <3> QED BY <3>1, <3>2, <3>3
  <2> QED BY <2>2, <2>5, <2>6
<1>2. CASE ~Begin(p)
  <2>1. met' = met /\ pc[p] # "waiting"
    <3>1. CASE InitSync(p)
      BY <3>1, <1>2 DEF InitSync, GetBranch, Check, UserAdd, Clone, Role, Config, Start, Cert,
        Site, Info, Build, MkDb, DevTests, TestField, SetRb, Finish, Try
    <3>2. CASE DeleteRB(p)
      BY <3>2, <1>2 DEF DeleteRB, Stop, UnSite, DropDb, UnUnit, UserDel, Try
    <3> QED BY <1>2, <3>1, <3>2 DEF Step
  <2>2. Frame(p)
    BY StepFrame
  <2>3. \A q \in Proc : Active(q)' => Active(q)
    <3>1. ASSUME NEW q \in Proc, Active(q)' PROVE Active(q)
      <4>1. CASE q # p
        BY <2>2, <3>1, <4>1 DEF Frame, Active, Killed, InitStages, Ended
      <4>2. CASE q = p
        <5>1. CASE Active(p)
          BY <4>2, <5>1
        <5>2. CASE ~Active(p)
          <6>1. pc[p] \in Ended
            BY <5>2, <2>1 DEF Active
          <6> QED BY <6>1, <1>2 DEF Ended, Step, InitSync, DeleteRB, GetBranch, Check, UserAdd,
            Clone, Role, Config, Start, Cert, Site, Info, Build, MkDb, DevTests, TestField,
            SetRb, Finish, Stop, UnSite, DropDb, UnUnit, UserDel, Try
        <5> QED BY <5>1, <5>2
      <4> QED BY <4>1, <4>2
    <3> QED BY <3>1
  <2>4. \A q \in Proc : pc'[q] = "waiting" => pc[q] = "waiting"
    BY <2>2 DEF Frame
  <2> QED BY <2>1, <2>2, <2>3, <2>4 DEF Frame
<1> QED BY <1>1, <1>2

\* What a call that has met nobody is at does not change under it: who builds
\* beside it is not past useradd, and useradd fails.
LEMMA Bystander ==
  ASSUME BuilderInv, MetTogether, hit \in [Proc -> BOOLEAN],
         NEW p \in Proc, Step(p), NEW q \in Proc \ {p}, ~met'[q]
  PROVE  /\ pc'[q] = pc[q] /\ ~met[q]
         /\ pc[q] \in Building \/ (Active(q) /\ Exclusive(q)) => My(q)' = My(q)
<1> USE DEF BuilderInv, Typed
<1>1. Frame(p) /\ ~met[q] /\ job' = job
  BY StepFrame DEF Frame
<1>2. ASSUME Active(q), Active(p), q \in Others(p)
      PROVE  ~met[p] /\ ~Exclusive(p) /\ ~Exclusive(q)
  BY <1>1, <1>2 DEF OverlapsMet, MetTogether, Others
<1>3. pc'[q] = pc[q]
  <2>1. ASSUME pc[p] = "stop", q \in Killed(p) PROVE FALSE
    <3>1. Active(p) /\ Active(q) /\ q \in Others(p)
      BY <2>1 DEF Killed, Active, Ended
    <3>2. Exclusive(p)
      BY <2>1 DEF DeletesWhenAsked, DeleteStages, Exclusive
    <3> QED BY <1>2, <3>1, <3>2
  <2> QED BY <1>1, <2>1 DEF Frame
<1>4. ASSUME pc[q] \in Building \/ (Active(q) /\ Exclusive(q)), Active(p), q \in Others(p)
      PROVE  rb'[job[q].name] = rb[job[q].name]
  <2>1. Active(q)
    BY <1>4 DEF Building, Active, InitStages, Ended
  <2>2. ~met[p] /\ ~Exclusive(p) /\ ~Exclusive(q) /\ pc[q] \in Building /\ p \in Others(q)
    BY <1>2, <1>4, <2>1 DEF Others
  <2>3. pc[p] \notin Building /\ pc[p] \notin DeleteStages /\ pc[p] # "waiting"
    BY <1>1, <1>4, <2>2 DEF OneBuilder, Building, DeletesWhenAsked, Exclusive, Active
  <2>4. CASE UserAdd(p)
    <3>1. My(p).user /\ job[p].name = job[q].name
      BY <1>1, <2>2 DEF AccountKept, My, Others
    <3>2. rb' = [rb EXCEPT ![job[p].name] = My(p)]
      BY <2>4, <3>1 DEF UserAdd, Try
    <3> QED BY <3>1, <3>2 DEF My
  <2>5. CASE ~UserAdd(p)
    <3>1. rb' = rb
      BY <2>3, <2>5 DEF Step, Begin, InitSync, DeleteRB, GetBranch, Check,
        Clone, Role, Config, Start, Cert, Site, Info, Build, MkDb, DevTests, TestField,
        SetRb, Finish, Stop, UnSite, DropDb, UnUnit, UserDel, Try,
        Building, InitStages, DeleteStages
    <3> QED BY <3>1
  <2> QED BY <2>4, <2>5
<1>5. pc[q] \in Building \/ (Active(q) /\ Exclusive(q)) => rb'[job[q].name] = rb[job[q].name]
  BY <1>1, <1>4 DEF Frame, Others, Jobs
<1> QED BY <1>1, <1>3, <1>5 DEF My

-----------------------------------------------------------------------------
(* What a call makes of the runbot at hand: one lemma per command.         *)

Own(p) ==
  /\ StepInv(p)'
  /\ My(p)'.user \/ My(p)'.home = {}
  /\ Calm' => ~Broken(My(p)')

LEMMA Facts ==
  ASSUME RunbotInv, NEW p \in Proc, Step(p)
  PROVE  /\ My(p) \in Parts /\ (My(p).user \/ My(p).home = {})
         /\ job' = job /\ My(p)' = rb'[job[p].name]
         /\ (met[p] => met'[p]) /\ (hit[p] => hit'[p])
         /\ StepInv(p) /\ job[p] \in Jobs /\ (job[p].kind = "init" \/ job[p].auto)
         /\ pc \in [Proc -> Stage] /\ hit \in [Proc -> BOOLEAN] /\ rb \in [Name -> Parts]
         /\ Calm' => Calm /\ SitesLoad /\ ~Broken(My(p))
<1>1. Frame(p) /\ Typed
  BY StepFrame DEF RunbotInv, BuilderInv
<1>2. My(p) \in Parts /\ (My(p).user \/ My(p).home = {}) /\ My(p)' = rb'[job[p].name]
  BY <1>1, MyParts DEF RunbotInv, HomeOfUser, My, Typed, Jobs, Frame
<1>3. Calm' => Calm
  BY <1>1 DEF Calm, Frame, Exclusive
<1>4. Calm => SitesLoad /\ ~Broken(My(p))
  BY <1>1 DEF RunbotInv, Calm, SitesStayLoadable, SitesLoad, My, Typed, Jobs
<1> QED BY <1>1, <1>2, <1>3, <1>4 DEF RunbotInv, Frame, Typed

\* A command whose stage is at an end: the runbot is x, the next stage s.
Done(p, here, x, s) ==
  /\ pc[p] = here /\ pc' = [pc EXCEPT ![p] = s]
  /\ rb' = [rb EXCEPT ![job[p].name] = x]

LEMMA Landed ==
  ASSUME RunbotInv, NEW p \in Proc, Step(p), NEW here, NEW x, NEW s, Done(p, here, x, s)
  PROVE  pc[p] = here /\ pc'[p] = s /\ My(p)' = x
BY Facts DEF Done, Jobs


LEMMA OwnUserAdd ==
  ASSUME RunbotInv, NEW p \in Proc, UserAdd(p)
  PROVE  Own(p)
<1> DEFINE m == My(p)
           a == [m EXCEPT !.user = TRUE]
<1>1. Step(p)
  BY DEF Step, InitSync
<1>2. /\ m \in Parts /\ (m.user \/ m.home = {}) /\ job' = job /\ job[p] \in Jobs
      /\ job[p].kind = "init" \/ job[p].auto
      /\ (met[p] => met'[p]) /\ (hit[p] => hit'[p]) /\ StepInv(p)
      /\ Calm' => Calm /\ SitesLoad /\ ~Broken(m)
  BY <1>1, Facts
<1>3. PICK x \in {m, a}, s \in {"clone", "trap"} :
        /\ Done(p, "useradd", x, s)
        /\ \/ x = a /\ s = "clone" /\ ~m.user
           \/ (s = "trap" \/ ~job[p].auto) /\ x = m /\ (~m.user => hit' = [hit EXCEPT ![p] = TRUE])
  BY DEF UserAdd, Try, Goto, Fault, Stops, InitStages, DeleteStages, Done
<1> HIDE DEF m
<1>4. /\ x.home = m.home /\ x.role = m.role /\ x.dbs = m.dbs /\ x.units = m.units
      /\ x.running = m.running /\ x.site = m.site /\ x.cert = m.cert
      /\ (x = a => x.user)
  BY <1>2, <1>3 DEF Parts, Files
<1> HIDE DEF a
<1>5. pc[p] = "useradd" /\ pc'[p] = s /\ My(p)' = x
      /\ (hit' = [hit EXCEPT ![p] = TRUE] => hit'[p])
  BY <1>1, <1>3, Facts, Landed
<1>6. StepInv(p)'
  BY <1>2, <1>3, <1>4, <1>5
     DEF StepInv, Removing, Made, Restarting, Certified, m, Building, InitStages, Served
<1> QED BY <1>2, <1>3, <1>4, <1>5, <1>6 DEF Own, Broken, m, StepInv, Certified

LEMMA OwnRole ==
  ASSUME RunbotInv, NEW p \in Proc, Role(p)
  PROVE  Own(p)
<1> DEFINE m == My(p)
           a == [m EXCEPT !.role = TRUE]
           b == [m EXCEPT !.role = FALSE]
<1>1. Step(p)
  BY DEF Step, InitSync
<1>2. /\ m \in Parts /\ (m.user \/ m.home = {}) /\ job' = job /\ job[p] \in Jobs
      /\ job[p].kind = "init" \/ job[p].auto
      /\ (met[p] => met'[p]) /\ (hit[p] => hit'[p]) /\ StepInv(p)
      /\ Calm' => Calm /\ SitesLoad /\ ~Broken(m)
  BY <1>1, Facts
<1>3. PICK x \in {m, a, b}, s \in {"config", "trap"} :
        /\ Done(p, "role", x, s)
        /\ \/ x = a /\ s = "config"
           \/ (s = "trap" \/ ~job[p].auto) /\ (~m.dbs => hit' = [hit EXCEPT ![p] = TRUE])
  BY DEF Role, Try, Goto, Fault, Stops, InitStages, DeleteStages, Done
<1> HIDE DEF m
<1>4. /\ x.user = m.user /\ x.home = m.home /\ x.dbs = m.dbs /\ x.units = m.units
      /\ x.running = m.running /\ x.site = m.site /\ x.cert = m.cert
      /\ (x = a => x.role)
  BY <1>2, <1>3 DEF Parts, Files
<1> HIDE DEF a, b
<1>5. pc[p] = "role" /\ pc'[p] = s /\ My(p)' = x
      /\ (hit' = [hit EXCEPT ![p] = TRUE] => hit'[p])
  BY <1>1, <1>3, Facts, Landed
<1>6. StepInv(p)'
  BY <1>2, <1>3, <1>4, <1>5
     DEF StepInv, Removing, Made, Restarting, Certified, m, Building, InitStages, Served
<1> QED BY <1>2, <1>3, <1>4, <1>5, <1>6 DEF Own, Broken, m, StepInv, Certified

LEMMA OwnConfig ==
  ASSUME RunbotInv, NEW p \in Proc, Config(p)
  PROVE  Own(p)
<1> DEFINE m == My(p)
           a == [m EXCEPT !.units = TRUE]
           b == [a EXCEPT !.home = @ \cup {"conf"}]
           c == [b EXCEPT !.site = "http"]
           d == [a EXCEPT !.site = "http"]
<1>1. Step(p)
  BY DEF Step, InitSync
<1>2. /\ m \in Parts /\ (m.user \/ m.home = {}) /\ job' = job /\ job[p] \in Jobs
      /\ job[p].kind = "init" \/ job[p].auto
      /\ (met[p] => met'[p]) /\ (hit[p] => hit'[p]) /\ StepInv(p)
      /\ Calm' => Calm /\ SitesLoad /\ ~Broken(m)
  BY <1>1, Facts
<1>3. PICK x \in {a, b, c, d}, s \in {"start", "trap"} :
        /\ Done(p, "config", x, s)
        /\ \/ /\ m.user /\ {"dirs", "env"} \subseteq m.home
              /\ \/ x = c /\ s = "start"
                 \/ hit' = [hit EXCEPT ![p] = TRUE] /\ x \in {a, b, c} /\ (s = "trap" \/ ~job[p].auto)
           \/ ~m.user /\ x \in {a, d} /\ (s = "trap" \/ ~job[p].auto)
           \/ /\ ~({"dirs", "env"} \subseteq m.home)
              /\ x \in {a, d} /\ (s = "trap" \/ ~job[p].auto)
  <2> DEFINE works == m.user /\ {"dirs", "env"} \subseteq m.home
             Ends(x, s) == /\ pc[p] = "config" /\ pc' = [pc EXCEPT ![p] = s]
                           /\ rb' = [rb EXCEPT ![job[p].name] = x]
  <2>1. CASE works
    <3>1. PICK x \in {a, b, c}, s \in {"start", "trap"} :
            /\ Ends(x, s)
            /\ \/ x = c /\ s = "start"
               \/ hit' = [hit EXCEPT ![p] = TRUE] /\ (s = "trap" \/ ~job[p].auto)
      BY <2>1 DEF Config, Try, Goto, Fault, Stops, InitStages
    <3> HIDE DEF a, b, c, d, m
    <3> QED BY <2>1, <3>1 DEF Done
  <2>2. CASE ~works
    <3>1. PICK x \in {a, d}, s \in {"start", "trap"} :
            Ends(x, s) /\ (s = "trap" \/ ~job[p].auto)
      BY <2>2 DEF Config, Try, Goto, Fault, Stops, InitStages
    <3> HIDE DEF a, b, c, d, m
    <3> QED BY <2>2, <3>1 DEF Done
  <2> QED BY <2>1, <2>2
<1> HIDE DEF m
<1>4. /\ x.user = m.user /\ x.role = m.role /\ x.dbs = m.dbs /\ x.running = m.running
      /\ x.cert = m.cert /\ x.units
      /\ x.home = m.home \/ (x.home = m.home \cup {"conf"} /\ m.user)
      /\ x.site \in {m.site, "http"}
      /\ x = c => x.home = m.home \cup {"conf"} /\ x.site = "http"
  BY <1>2, <1>3 DEF Parts, Files
<1> HIDE DEF a, b, c, d
<1>5. pc[p] = "config" /\ pc'[p] = s /\ My(p)' = x
      /\ (hit' = [hit EXCEPT ![p] = TRUE] => hit'[p])
  BY <1>1, <1>3, Facts, Landed
<1>6. StepInv(p)'
  BY <1>2, <1>3, <1>4, <1>5
     DEF StepInv, Removing, Made, Restarting, Certified, m, Building, InitStages, Served
<1> QED BY <1>2, <1>3, <1>4, <1>5, <1>6 DEF Own, Broken, m, StepInv, Certified

LEMMA OwnStart ==
  ASSUME RunbotInv, NEW p \in Proc, Start(p)
  PROVE  Own(p)
<1> DEFINE m == My(p)
           a == [m EXCEPT !.running = TRUE]
<1>1. Step(p)
  BY DEF Step, InitSync
<1>2. /\ m \in Parts /\ (m.user \/ m.home = {}) /\ job' = job /\ job[p] \in Jobs
      /\ job[p].kind = "init" \/ job[p].auto
      /\ (met[p] => met'[p]) /\ (hit[p] => hit'[p]) /\ StepInv(p)
      /\ Calm' => Calm /\ SitesLoad /\ ~Broken(m)
  BY <1>1, Facts
<1>3. PICK x \in {m, a}, s \in {"cert", "trap"} :
        /\ Done(p, "start", x, s)
        /\ \/ x = a /\ s = "cert"
           \/ (s = "trap" \/ ~job[p].auto) /\ (m.units => hit' = [hit EXCEPT ![p] = TRUE])
  BY DEF Start, Try, Goto, Fault, Stops, InitStages, DeleteStages, Done
<1> HIDE DEF m
<1>4. /\ x.user = m.user /\ x.home = m.home /\ x.role = m.role /\ x.dbs = m.dbs
      /\ x.units = m.units /\ x.site = m.site /\ x.cert = m.cert /\ (x = a => x.running)
  BY <1>2, <1>3 DEF Parts, Files
<1> HIDE DEF a
<1>5. pc[p] = "start" /\ pc'[p] = s /\ My(p)' = x
      /\ (hit' = [hit EXCEPT ![p] = TRUE] => hit'[p])
  BY <1>1, <1>3, Facts, Landed
<1>6. StepInv(p)'
  BY <1>2, <1>3, <1>4, <1>5
     DEF StepInv, Removing, Made, Restarting, Certified, m, Building, InitStages, Served
<1> QED BY <1>2, <1>3, <1>4, <1>5, <1>6 DEF Own, Broken, m, StepInv, Certified

LEMMA OwnCert ==
  ASSUME RunbotInv, NEW p \in Proc, Cert(p)
  PROVE  Own(p)
<1> DEFINE m == My(p)
           a == [m EXCEPT !.cert = @ \/ job[p].ssl]
<1>1. Step(p)
  BY DEF Step, InitSync
<1>2. /\ m \in Parts /\ (m.user \/ m.home = {}) /\ job' = job /\ job[p] \in Jobs
      /\ job[p].kind = "init" \/ job[p].auto
      /\ (met[p] => met'[p]) /\ (hit[p] => hit'[p]) /\ StepInv(p)
      /\ Calm' => Calm /\ SitesLoad /\ ~Broken(m)
  BY <1>1, Facts
<1>3. PICK x \in {m, a}, s \in {"site", "info", "trap"} :
        /\ Done(p, "cert", x, s)
        /\ s = "site" => job[p].ssl
        /\ s = "info" => ~job[p].ssl
        /\ \/ x = a /\ s # "trap"
           \/ (s = "trap" \/ ~job[p].auto) /\ (SitesLoad => hit' = [hit EXCEPT ![p] = TRUE])
  BY DEF Cert, Try, Goto, Fault, Stops, InitStages, DeleteStages, Done
<1> HIDE DEF m
<1>4. /\ x.user = m.user /\ x.home = m.home /\ x.role = m.role /\ x.dbs = m.dbs
      /\ x.units = m.units /\ x.running = m.running /\ x.site = m.site
      /\ (m.cert => x.cert) /\ (x = a /\ job[p].ssl => x.cert)
  BY <1>2, <1>3 DEF Parts, Files
<1> HIDE DEF a
<1>5. pc[p] = "cert" /\ pc'[p] = s /\ My(p)' = x
      /\ (hit' = [hit EXCEPT ![p] = TRUE] => hit'[p])
  BY <1>1, <1>3, Facts, Landed
<1>c. Calm' => s = "trap" \/ x = a
  BY <1>2, <1>3, <1>5 DEF Calm, Exclusive
<1>6. StepInv(p)'
  BY <1>2, <1>3, <1>4, <1>5, <1>c
     DEF StepInv, Removing, Made, Restarting, Certified, m, Building, InitStages, Served
<1> QED BY <1>2, <1>3, <1>4, <1>5, <1>6, <1>c DEF Own, Broken, m, StepInv, Certified

LEMMA OwnSite ==
  ASSUME RunbotInv, NEW p \in Proc, Site(p)
  PROVE  Own(p)
<1> DEFINE m == My(p)
           a == [m EXCEPT !.site = IF @ = "none" THEN @ ELSE "ssl"]
<1>1. Step(p)
  BY DEF Step, InitSync
<1>2. /\ m \in Parts /\ (m.user \/ m.home = {}) /\ job' = job /\ job[p] \in Jobs
      /\ job[p].kind = "init" \/ job[p].auto
      /\ (met[p] => met'[p]) /\ (hit[p] => hit'[p]) /\ StepInv(p)
      /\ Calm' => Calm /\ SitesLoad /\ ~Broken(m)
  BY <1>1, Facts
<1>3. PICK x \in {a}, s \in {"info", "trap"} :
        /\ Done(p, "site", x, s)
        /\ TRUE
  BY DEF Site, Try, Goto, Fault, Stops, InitStages, DeleteStages, Done
<1> HIDE DEF m
<1>4. /\ x.user = m.user /\ x.home = m.home /\ x.role = m.role /\ x.dbs = m.dbs
      /\ x.units = m.units /\ x.running = m.running /\ x.cert = m.cert
      /\ x.site = IF m.site = "none" THEN m.site ELSE "ssl"
  BY <1>2, <1>3 DEF Parts, Files
<1> HIDE DEF a
<1>5. pc[p] = "site" /\ pc'[p] = s /\ My(p)' = x
      /\ (hit' = [hit EXCEPT ![p] = TRUE] => hit'[p])
  BY <1>1, <1>3, Facts, Landed
<1>6. StepInv(p)'
  BY <1>2, <1>3, <1>4, <1>5
     DEF StepInv, Removing, Made, Restarting, Certified, m, Building, InitStages, Served
<1> QED BY <1>2, <1>3, <1>4, <1>5, <1>6 DEF Own, Broken, m, StepInv, Certified

LEMMA OwnInfo ==
  ASSUME RunbotInv, NEW p \in Proc, Info(p)
  PROVE  Own(p)
<1> DEFINE m == My(p)
           a == [m EXCEPT !.home = @ \cup {"info"}]
<1>1. Step(p)
  BY DEF Step, InitSync
<1>2. /\ m \in Parts /\ (m.user \/ m.home = {}) /\ job' = job /\ job[p] \in Jobs
      /\ job[p].kind = "init" \/ job[p].auto
      /\ (met[p] => met'[p]) /\ (hit[p] => hit'[p]) /\ StepInv(p)
      /\ Calm' => Calm /\ SitesLoad /\ ~Broken(m)
  BY <1>1, Facts
<1>3. PICK x \in {m, a}, s \in {"build", "trap"} :
        /\ Done(p, "info", x, s)
        /\ \/ x = a /\ s = "build" /\ m.user
           \/ x = m /\ (s = "trap" \/ ~job[p].auto)
  BY DEF Info, Try, Goto, Fault, Stops, InitStages, DeleteStages, Done
<1> HIDE DEF m
<1>4. /\ x.user = m.user /\ x.role = m.role /\ x.dbs = m.dbs /\ x.units = m.units
      /\ x.running = m.running /\ x.site = m.site /\ x.cert = m.cert
      /\ m.home \subseteq x.home /\ (x = a => "info" \in x.home)
  BY <1>2, <1>3 DEF Parts, Files
<1> HIDE DEF a
<1>5. pc[p] = "info" /\ pc'[p] = s /\ My(p)' = x
      /\ (hit' = [hit EXCEPT ![p] = TRUE] => hit'[p])
  BY <1>1, <1>3, Facts, Landed
<1>6. StepInv(p)'
  BY <1>2, <1>3, <1>4, <1>5
     DEF StepInv, Removing, Made, Restarting, Certified, m, Building, InitStages, Served
<1> QED BY <1>2, <1>3, <1>4, <1>5, <1>6 DEF Own, Broken, m, StepInv, Certified

LEMMA OwnMkDb ==
  ASSUME RunbotInv, NEW p \in Proc, MkDb(p)
  PROVE  Own(p)
<1> DEFINE m == My(p)
           a == [m EXCEPT !.dbs = TRUE]
<1>1. Step(p)
  BY DEF Step, InitSync
<1>2. /\ m \in Parts /\ (m.user \/ m.home = {}) /\ job' = job /\ job[p] \in Jobs
      /\ job[p].kind = "init" \/ job[p].auto
      /\ (met[p] => met'[p]) /\ (hit[p] => hit'[p]) /\ StepInv(p)
      /\ Calm' => Calm /\ SitesLoad /\ ~Broken(m)
  BY <1>1, Facts
<1>3. PICK x \in {m, a}, s \in {"setrb", "trap"} :
        /\ Done(p, "building", x, s)
        /\ (x = a /\ Serving(m)) \/ s = "trap" \/ ~job[p].auto
  BY DEF MkDb, Try, Goto, Fault, Stops, InitStages, DeleteStages, Done
<1> HIDE DEF m
<1>4. /\ x.user = m.user /\ x.home = m.home /\ x.role = m.role /\ x.units = m.units
      /\ x.running = m.running /\ x.site = m.site /\ x.cert = m.cert /\ (x = a => x.dbs)
  BY <1>2, <1>3 DEF Parts, Files
<1> HIDE DEF a
<1>5. pc[p] = "building" /\ pc'[p] = s /\ My(p)' = x
      /\ (hit' = [hit EXCEPT ![p] = TRUE] => hit'[p])
  BY <1>1, <1>3, Facts, Landed
<1>6. StepInv(p)'
  BY <1>2, <1>3, <1>4, <1>5
     DEF StepInv, Removing, Made, Restarting, Certified, m, Building, InitStages, Served, Serving
<1> QED BY <1>2, <1>3, <1>4, <1>5, <1>6 DEF Own, Broken, m, StepInv, Certified

LEMMA OwnDevTests ==
  ASSUME RunbotInv, NEW p \in Proc, DevTests(p)
  PROVE  Own(p)
<1> DEFINE m == My(p)
           a == [m EXCEPT !.dbs = @ \/ Serving(m)]
<1>1. Step(p)
  BY DEF Step, InitSync
<1>2. /\ m \in Parts /\ (m.user \/ m.home = {}) /\ job' = job /\ job[p] \in Jobs
      /\ job[p].kind = "init" \/ job[p].auto
      /\ (met[p] => met'[p]) /\ (hit[p] => hit'[p]) /\ StepInv(p)
      /\ Calm' => Calm /\ SitesLoad /\ ~Broken(m)
  BY <1>1, Facts
<1>3. PICK x \in {m, a}, s \in {"setrb", "trap"} :
        /\ Done(p, "building", x, s)
        /\ job[p].type = "devtests"
  <2>1. CASE Fault(p) /\ pc[p] = "building" /\ Goto(p, "setrb") /\ rb' = rb
    <3>1. Done(p, "building", m, "setrb")
      BY <1>1, <2>1, Facts DEF Done, Goto, My, Jobs
    <3> QED BY <3>1 DEF DevTests
  <2>2. CASE Try(p, "building", "setrb", "conf" \in m.home, a, {m})
    BY <2>2 DEF DevTests, Try, Goto, Stops, InitStages, Done
  <2> QED BY <2>1, <2>2 DEF DevTests
<1> HIDE DEF m
<1>4. /\ x.user = m.user /\ x.home = m.home /\ x.role = m.role /\ x.units = m.units
      /\ x.running = m.running /\ x.site = m.site /\ x.cert = m.cert
  BY <1>2, <1>3 DEF Parts, Files
<1> HIDE DEF a
<1>5. pc[p] = "building" /\ pc'[p] = s /\ My(p)' = x
      /\ (hit' = [hit EXCEPT ![p] = TRUE] => hit'[p])
  BY <1>1, <1>3, Facts, Landed
<1>6. StepInv(p)'
  BY <1>2, <1>3, <1>4, <1>5
     DEF StepInv, Removing, Made, Restarting, Certified, m, Building, InitStages, Served
<1> QED BY <1>2, <1>3, <1>4, <1>5, <1>6 DEF Own, Broken, m, StepInv, Certified

LEMMA OwnTestField ==
  ASSUME RunbotInv, NEW p \in Proc, TestField(p)
  PROVE  Own(p)
<1> DEFINE m == My(p)
<1>1. Step(p)
  BY DEF Step, InitSync
<1>2. /\ m \in Parts /\ (m.user \/ m.home = {}) /\ job' = job /\ job[p] \in Jobs
      /\ job[p].kind = "init" \/ job[p].auto
      /\ (met[p] => met'[p]) /\ (hit[p] => hit'[p]) /\ StepInv(p)
      /\ Calm' => Calm /\ SitesLoad /\ ~Broken(m)
  BY <1>1, Facts
<1>3. PICK x \in {m}, s \in {"setrb", "trap"} :
        /\ Done(p, "building", x, s)
        /\ job[p].type = "testfield"
  BY DEF TestField, Try, Goto, Fault, Stops, InitStages, DeleteStages, Done
<1> HIDE DEF m
<1>4. /\ x.user = m.user /\ x.home = m.home /\ x.role = m.role /\ x.dbs = m.dbs
      /\ x.units = m.units /\ x.running = m.running /\ x.site = m.site
      /\ x.cert = m.cert
  BY <1>2, <1>3 DEF Parts, Files
<1>5. pc[p] = "building" /\ pc'[p] = s /\ My(p)' = x
      /\ (hit' = [hit EXCEPT ![p] = TRUE] => hit'[p])
  BY <1>1, <1>3, Facts, Landed
<1>6. StepInv(p)'
  BY <1>2, <1>3, <1>4, <1>5
     DEF StepInv, Removing, Made, Restarting, Certified, m, Building, InitStages, Served
<1> QED BY <1>2, <1>3, <1>4, <1>5, <1>6 DEF Own, Broken, m, StepInv, Certified

LEMMA OwnUnSite ==
  ASSUME RunbotInv, NEW p \in Proc, UnSite(p)
  PROVE  Own(p)
<1> DEFINE m == My(p)
           a == [m EXCEPT !.site = "none"]
<1>1. Step(p)
  BY DEF Step, DeleteRB
<1>2. /\ m \in Parts /\ (m.user \/ m.home = {}) /\ job' = job /\ job[p] \in Jobs
      /\ job[p].kind = "init" \/ job[p].auto
      /\ (met[p] => met'[p]) /\ (hit[p] => hit'[p]) /\ StepInv(p)
      /\ Calm' => Calm /\ SitesLoad /\ ~Broken(m)
  BY <1>1, Facts
<1>3. PICK x \in {m, a}, s \in {"dropdb"} :
        /\ Done(p, "unsite", x, s)
        /\ x = a \/ hit' = [hit EXCEPT ![p] = TRUE]
  BY DEF UnSite, Try, Goto, Fault, Stops, InitStages, DeleteStages, Done
<1> HIDE DEF m
<1>4. /\ x.user = m.user /\ x.home = m.home /\ x.role = m.role /\ x.dbs = m.dbs
      /\ x.units = m.units /\ x.running = m.running /\ x.cert = m.cert
      /\ (x = m \/ x.site = "none")
  BY <1>2, <1>3 DEF Parts, Files
<1> HIDE DEF a
<1>5. pc[p] = "unsite" /\ pc'[p] = s /\ My(p)' = x
      /\ (hit' = [hit EXCEPT ![p] = TRUE] => hit'[p])
  BY <1>1, <1>3, Facts, Landed
<1>c. Calm' => x = a
  BY <1>2, <1>3, <1>5 DEF Calm, Exclusive, RunbotInv, BuilderInv, DeletesWhenAsked, DeleteStages
<1>d. x = a => x.site = "none"
  BY <1>2 DEF a, Parts
<1>6. StepInv(p)'
  BY <1>2, <1>3, <1>4, <1>5, <1>c, <1>d
     DEF StepInv, Removing, Made, Restarting, Certified, m, Building, InitStages, Served
<1> QED BY <1>2, <1>3, <1>4, <1>5, <1>6, <1>c, <1>d DEF Own, Broken, m, StepInv, Certified

LEMMA OwnDropDb ==
  ASSUME RunbotInv, NEW p \in Proc, DropDb(p)
  PROVE  Own(p)
<1> DEFINE m == My(p)
           a == [m EXCEPT !.dbs = FALSE]
<1>1. Step(p)
  BY DEF Step, DeleteRB
<1>2. /\ m \in Parts /\ (m.user \/ m.home = {}) /\ job' = job /\ job[p] \in Jobs
      /\ job[p].kind = "init" \/ job[p].auto
      /\ (met[p] => met'[p]) /\ (hit[p] => hit'[p]) /\ StepInv(p)
      /\ Calm' => Calm /\ SitesLoad /\ ~Broken(m)
  BY <1>1, Facts
<1>3. PICK x \in {m, a}, s \in {"ununit"} :
        /\ Done(p, "dropdb", x, s)
        /\ x = a \/ (~Serving(m) => hit' = [hit EXCEPT ![p] = TRUE])
  BY DEF DropDb, Try, Goto, Fault, Stops, InitStages, DeleteStages, Done
<1> HIDE DEF m
<1>4. /\ x.user = m.user /\ x.home = m.home /\ x.role = m.role /\ x.units = m.units
      /\ x.running = m.running /\ x.site = m.site /\ x.cert = m.cert
      /\ (x = a => ~x.dbs)
  BY <1>2, <1>3 DEF Parts, Files
<1> HIDE DEF a
<1>5. pc[p] = "dropdb" /\ pc'[p] = s /\ My(p)' = x
      /\ (hit' = [hit EXCEPT ![p] = TRUE] => hit'[p])
  BY <1>1, <1>3, Facts, Landed
<1>6. StepInv(p)'
  BY <1>2, <1>3, <1>4, <1>5
     DEF StepInv, Removing, Made, Restarting, Certified, m, Building, InitStages, Served, Serving
<1> QED BY <1>2, <1>3, <1>4, <1>5, <1>6 DEF Own, Broken, m, StepInv, Certified

LEMMA OwnUnUnit ==
  ASSUME RunbotInv, NEW p \in Proc, UnUnit(p)
  PROVE  Own(p)
<1> DEFINE m == My(p)
           a == [m EXCEPT !.units = FALSE, !.cert = FALSE]
           b == [a EXCEPT !.units = m.units]
<1>1. Step(p)
  BY DEF Step, DeleteRB
<1>2. /\ m \in Parts /\ (m.user \/ m.home = {}) /\ job' = job /\ job[p] \in Jobs
      /\ job[p].kind = "init" \/ job[p].auto
      /\ (met[p] => met'[p]) /\ (hit[p] => hit'[p]) /\ StepInv(p)
      /\ Calm' => Calm /\ SitesLoad /\ ~Broken(m)
  BY <1>1, Facts
<1>3. PICK x \in {a, b}, s \in {"userdel"} :
        /\ Done(p, "ununit", x, s)
        /\ x = a \/ hit' = [hit EXCEPT ![p] = TRUE]
  BY DEF UnUnit, Try, Goto, Fault, Stops, InitStages, DeleteStages, Done
<1> HIDE DEF m
<1>4. /\ x.user = m.user /\ x.home = m.home /\ x.role = m.role /\ x.dbs = m.dbs
      /\ x.running = m.running /\ x.site = m.site /\ ~x.cert /\ (x = a => ~x.units)
  BY <1>2, <1>3 DEF Parts, Files
<1> HIDE DEF a, b
<1>5. pc[p] = "ununit" /\ pc'[p] = s /\ My(p)' = x
      /\ (hit' = [hit EXCEPT ![p] = TRUE] => hit'[p])
  BY <1>1, <1>3, Facts, Landed
<1>6. StepInv(p)'
  BY <1>2, <1>3, <1>4, <1>5
     DEF StepInv, Removing, Made, Restarting, Certified, m, Building, InitStages, Served
<1> QED BY <1>2, <1>3, <1>4, <1>5, <1>6 DEF Own, Broken, m, StepInv, Certified

LEMMA OwnUserDel ==
  ASSUME RunbotInv, NEW p \in Proc, UserDel(p)
  PROVE  Own(p)
<1> DEFINE m == My(p)
           a == [m EXCEPT !.user = FALSE, !.home = {}]
<1>1. Step(p)
  BY DEF Step, DeleteRB
<1>2. /\ m \in Parts /\ (m.user \/ m.home = {}) /\ job' = job /\ job[p] \in Jobs
      /\ job[p].kind = "init" \/ job[p].auto
      /\ (met[p] => met'[p]) /\ (hit[p] => hit'[p]) /\ StepInv(p)
      /\ Calm' => Calm /\ SitesLoad /\ ~Broken(m)
  BY <1>1, Facts
<1>3. PICK x \in {m, a}, s \in {"deleted", FirstStage(job[p])} :
        /\ Done(p, "userdel", x, s)
        /\ \/ x = a
           \/ /\ x = m
              /\ \/ hit' = [hit EXCEPT ![p] = TRUE]
                 \/ ~m.user \/ Serving(m) \/ \E q \in Others(p) : pc[q] = "building"
  BY DEF UserDel, Try, Goto, Fault, Stops, InitStages, DeleteStages, Done
<1> HIDE DEF m
<1>4. /\ x.role = m.role /\ x.dbs = m.dbs /\ x.units = m.units /\ x.running = m.running
      /\ x.site = m.site /\ x.cert = m.cert /\ (x = a => ~x.user /\ x.home = {})
      /\ x.home \subseteq m.home /\ x.user \in {m.user, FALSE}
  BY <1>2, <1>3 DEF Parts, Files
<1> HIDE DEF a
<1>5. pc[p] = "userdel" /\ pc'[p] = s /\ My(p)' = x
      /\ (hit' = [hit EXCEPT ![p] = TRUE] => hit'[p])
  BY <1>1, <1>3, Facts, Landed
<1>c. ASSUME ~met[p] PROVE \A q \in Others(p) : pc[q] # "building"
  BY <1>5, <1>c DEF RunbotInv, BuilderInv, OverlapsMet, DeletesWhenAsked, DeleteStages,
                    Exclusive, Active, Ended
<1>d. s \in {"deleted", "ticket", "check", "useradd"}
  BY <1>3, FirstIsStage
<1>6. StepInv(p)'
  BY <1>2, <1>3, <1>4, <1>5, <1>c, <1>d
     DEF StepInv, Removing, Made, Restarting, Certified, m, Building, InitStages, Served, Serving
<1> QED BY <1>2, <1>3, <1>4, <1>5, <1>6, <1>c, <1>d DEF Own, Broken, m, StepInv, Certified

LEMMA OwnClone ==
  ASSUME RunbotInv, NEW p \in Proc, Clone(p)
  PROVE  Own(p)
<1> DEFINE m == My(p)
           clones == {"server", "web", "env"} \ m.home
<1>1. Step(p)
  BY DEF Step, InitSync
<1>2. /\ m \in Parts /\ (m.user \/ m.home = {}) /\ job' = job /\ job[p] \in Jobs
      /\ (job[p].kind = "init" \/ job[p].auto)
      /\ (met[p] => met'[p]) /\ (hit[p] => hit'[p]) /\ StepInv(p)
      /\ Calm' => Calm /\ SitesLoad /\ ~Broken(m)
  BY <1>1, Facts
<1>3. PICK got \in SUBSET clones, s \in {"role", "trap"} :
        /\ pc[p] = "clone" /\ pc' = [pc EXCEPT ![p] = s]
        /\ m.user /\ got # clones => hit' = [hit EXCEPT ![p] = TRUE]
        /\ rb' = [rb EXCEPT ![job[p].name].home =
                    IF m.user THEN m.home \cup got \cup {"dirs"} ELSE {}]
        /\ s = "role" /\ job[p].auto => m.user
        /\ s = "trap" => ~m.user \/ "dirs" \in m.home
  BY DEF Clone, Goto, Fault, Stops, InitStages
<1> DEFINE h == IF m.user THEN m.home \cup got \cup {"dirs"} ELSE {}
           x == [m EXCEPT !.home = h]
<1>4. My(p)' = x
  <2>1. rb' = [rb EXCEPT ![job[p].name] = x]
    BY <1>3 DEF My
  <2> HIDE DEF x
  <2> QED BY <1>1, <2>1, Facts DEF Jobs
<1>5. pc'[p] = s /\ (hit' = [hit EXCEPT ![p] = TRUE] => hit'[p])
  BY <1>1, <1>3, Facts
<1>6. h \subseteq Files /\ (m.user => "dirs" \in h)
      /\ (m.user /\ got = clones => {"env", "server", "web"} \subseteq h)
  BY <1>2 DEF Parts, Files
<1> HIDE DEF m, h, clones
<1>7. /\ x.user = m.user /\ x.home = h /\ x.role = m.role /\ x.dbs = m.dbs
      /\ x.units = m.units /\ x.running = m.running /\ x.site = m.site /\ x.cert = m.cert
  BY <1>2, <1>6 DEF Parts
<1> HIDE DEF x
<1>8. m.user \/ h = {}
  BY DEF h
<1>9. StepInv(p)'
  BY <1>2, <1>3, <1>4, <1>5, <1>6, <1>7
     DEF StepInv, Removing, Made, Restarting, Certified, m, Building, InitStages, Served
<1> QED BY <1>2, <1>4, <1>7, <1>8, <1>9 DEF Own, Broken, m

\* The steps that leave the runbot as it is.
LEMMA OwnPlain ==
  ASSUME RunbotInv, NEW p \in Proc,
         Begin(p) \/ GetBranch(p) \/ Check(p) \/ Build(p) \/ SetRb(p) \/ Finish(p)
  PROVE  Own(p)
<1> DEFINE m == My(p)
<1>1. Step(p)
  BY DEF Step, InitSync
<1>2. /\ m \in Parts /\ (m.user \/ m.home = {}) /\ job' = job /\ job[p] \in Jobs
      /\ (job[p].kind = "init" \/ job[p].auto)
      /\ (met[p] => met'[p]) /\ (hit[p] => hit'[p]) /\ StepInv(p)
      /\ Calm' => Calm /\ SitesLoad /\ ~Broken(m)
  BY <1>1, Facts
<1>3. rb' = rb /\ My(p)' = m
  BY <1>2 DEF Begin, GetBranch, Check, Build, SetRb, Finish, My
<1>4. PICK s \in {"refused", "stop", "ticket", "check", "useradd", "setrb", "building", "end",
                  "trap", "ok", "failed"} :
        /\ pc' = [pc EXCEPT ![p] = s]
        /\ s \in {"setrb", "building"} => pc[p] = "build"
        /\ s = "setrb" => job[p].type = "none"
        /\ pc[p] = "waiting" /\ s # "stop" => ~Removes(job[p])
        /\ pc[p] # "waiting" /\ s \in {"check", "useradd"} => pc[p] \in {"ticket", "check"}
        /\ s = "ticket" => pc[p] = "waiting"
        /\ pc[p] = "check" /\ s # "useradd" => m.user
        /\ pc[p] # "waiting" /\ s = "refused" =>
             hit' = [hit EXCEPT ![p] = TRUE] \/ pc[p] = "check"
        /\ pc[p] # "waiting" => s # "stop"
  <2>1. CASE Begin(p)
    BY <2>1, FirstIsStage DEF Begin, Goto
  <2>2. CASE GetBranch(p)
    BY <2>2 DEF GetBranch, Goto, Fault
  <2>3. CASE Check(p)
    BY <2>3 DEF Check, Goto
  <2>4. CASE Build(p) \/ SetRb(p) \/ Finish(p)
    BY <2>4 DEF Build, SetRb, Finish, Goto
  <2> QED BY <2>1, <2>2, <2>3, <2>4
<1>5. pc'[p] = s /\ (hit' = [hit EXCEPT ![p] = TRUE] => hit'[p])
  BY <1>1, <1>4, Facts
<1> HIDE DEF m
<1>6. Removing(p)' /\ Made(p)'
  BY <1>2, <1>3, <1>4, <1>5 DEF StepInv, Removing, Made, m, Building, InitStages, Served
<1>7. Restarting(p)'
  BY <1>2, <1>3, <1>4, <1>5 DEF StepInv, Restarting, m, Building, InitStages
<1>8. Certified(p)'
  BY <1>2, <1>3, <1>4, <1>5 DEF StepInv, Certified, m
<1> QED BY <1>2, <1>3, <1>6, <1>7, <1>8 DEF Own, StepInv, m

LEMMA OwnStop ==
  ASSUME RunbotInv, NEW p \in Proc, Stop(p)
  PROVE  Own(p)
<1> DEFINE m == My(p)
           a == [m EXCEPT !.running = FALSE]
<1>1. Step(p)
  BY DEF Step, DeleteRB
<1>2. /\ m \in Parts /\ (m.user \/ m.home = {}) /\ job' = job /\ job[p] \in Jobs
      /\ (job[p].kind = "init" \/ job[p].auto)
      /\ (met[p] => met'[p]) /\ (hit[p] => hit'[p]) /\ StepInv(p)
      /\ Calm' => Calm /\ SitesLoad /\ ~Broken(m)
  BY <1>1, Facts
<1>3. PICK x \in {m, a} :
        /\ rb' = [rb EXCEPT ![job[p].name] = x]
        /\ x = a \/ hit' = [hit EXCEPT ![p] = TRUE]
  <2>1. CASE rb' = rb /\ Fault(p)
    <3>1. rb' = [rb EXCEPT ![job[p].name] = m]
      BY <1>1, <2>1, Facts DEF My, Jobs
    <3> QED BY <2>1, <3>1 DEF Fault
  <2>2. CASE rb' = [rb EXCEPT ![job[p].name].running = FALSE]
    BY <2>2 DEF My
  <2> QED BY <2>1, <2>2 DEF Stop
<1> HIDE DEF m
<1>4. /\ x.user = m.user /\ x.home = m.home /\ x.role = m.role /\ x.dbs = m.dbs
      /\ x.units = m.units /\ x.site = m.site /\ x.cert = m.cert /\ (x = a => ~x.running)
  BY <1>2, <1>3 DEF Parts
<1> HIDE DEF a
<1>5. pc'[p] = "unsite" /\ My(p)' = x /\ (hit' = [hit EXCEPT ![p] = TRUE] => hit'[p])
  BY <1>1, <1>3, Facts DEF Stop, Jobs
<1>6. StepInv(p)'
  BY <1>2, <1>3, <1>4, <1>5
     DEF StepInv, Removing, Made, Restarting, Certified, m, Building, InitStages, Served
<1> QED BY <1>2, <1>4, <1>5, <1>6 DEF Own, Broken, m

-----------------------------------------------------------------------------

LEMMA RunbotInvInit == Init => RunbotInv
<1> SUFFICES ASSUME Init PROVE RunbotInv
  OBVIOUS
<1>1. rb = [n \in Name |-> Nothing] /\ job \in [Proc -> Job] /\ pc = [p \in Proc |-> "waiting"]
      /\ hit = [p \in Proc |-> FALSE] /\ met = [p \in Proc |-> FALSE]
  BY DEF Init
<1>2. MetTogether /\ HomeOfUser /\ SitesStayLoadable
  BY <1>1 DEF MetTogether, HomeOfUser, SitesStayLoadable, Active, Broken, Nothing
<1>3. \A p \in Proc : StepInv(p)
  BY <1>1 DEF StepInv, Removing, Made, Restarting, Certified, Building, InitStages, Served
<1>4. \A p \in Proc : job[p].kind = "init" \/ job[p].auto
  BY <1>1, RunbotAssumption
<1> QED BY <1>1, <1>2, <1>3, <1>4, BuilderInit DEF RunbotInv

LEMMA OwnStep ==
  ASSUME RunbotInv, NEW p \in Proc, Step(p)
  PROVE  Own(p)
BY OwnUserAdd, OwnRole, OwnConfig, OwnStart, OwnCert, OwnSite, OwnInfo, OwnMkDb, OwnDevTests,
   OwnTestField, OwnUnSite, OwnDropDb, OwnUnUnit, OwnUserDel, OwnClone, OwnPlain, OwnStop
   DEF Step, InitSync, DeleteRB

\* The others find their runbot as it was, unless they have met the call.
LEMMA OtherStep ==
  ASSUME RunbotInv, NEW p \in Proc, Step(p), NEW q \in Proc \ {p}
  PROVE  StepInv(q)'
<1>1. Frame(p)
  BY StepFrame DEF RunbotInv
<1>2. job' = job /\ (met[q] => met'[q]) /\ hit'[q] = hit[q]
      /\ (pc'[q] = pc[q] \/ pc'[q] = "trap") /\ (Calm' => Calm /\ ~met'[q])
  BY <1>1, Facts DEF Frame, Calm
<1>3. StepInv(q) /\ job[q] \in Jobs /\ (job[q].kind = "init" \/ job[q].auto)
      /\ (pc[q] \in DeleteStages => Removes(job[q]))
  BY DEF RunbotInv, BuilderInv, Typed, DeletesWhenAsked
<1>4. ASSUME met'[q] PROVE StepInv(q)'
  BY <1>2, <1>3, <1>4 DEF StepInv, Removing, Made, Restarting, Certified
<1>5. ASSUME ~met'[q] PROVE StepInv(q)'
  <2>1. pc'[q] = pc[q] /\ ~met[q]
    BY <1>5, Bystander DEF RunbotInv
  <2>2. pc[q] \in Building \/ (Active(q) /\ Exclusive(q)) => My(q)' = My(q)
    BY <1>5, Bystander DEF RunbotInv
  <2>3. pc[q] \in DeleteStages => My(q)' = My(q)
    BY <1>3, <2>2 DEF Exclusive, Active, DeleteStages, Ended
  <2>4. pc[q] \in {"ticket", "check", "useradd"} /\ Removes(job[q]) => My(q)' = My(q)
    BY <2>2 DEF Exclusive, Active, Ended
  <2>5. Removing(q)'
    BY <1>2, <1>3, <2>1, <2>3 DEF StepInv, Removing, DeleteStages
  <2>6. Made(q)'
    BY <1>2, <1>3, <2>1, <2>2 DEF StepInv, Made, Building, InitStages, Served
  <2>7. Restarting(q)'
    BY <1>2, <1>3, <2>1, <2>2, <2>4 DEF StepInv, Restarting, Building, InitStages
  <2>8. Certified(q)'
    BY <1>2, <1>3, <2>1, <2>2, <2>3 DEF StepInv, Certified, Building, InitStages, DeleteStages
  <2> QED BY <2>5, <2>6, <2>7, <2>8 DEF StepInv
<1> QED BY <1>4, <1>5

LEMMA RunbotInvStep == RunbotInv /\ [Next]_vars => RunbotInv'
<1> SUFFICES ASSUME RunbotInv, [Next]_vars PROVE RunbotInv'
  OBVIOUS
<1>1. BuilderInv'
  BY BuilderStep DEF RunbotInv
<1>2. ASSUME NEW p \in Proc, Step(p) PROVE RunbotInv'
  <2>1. Frame(p) /\ hit' \in [Proc -> BOOLEAN] /\ Own(p)
    BY <1>2, StepFrame, OwnStep DEF RunbotInv
  <2>2. MetTogether'
    BY <1>1, <1>2, MetStep DEF RunbotInv
  <2>3. \A n \in Name : n = job[p].name \/ rb'[n] = rb[n]
    BY <2>1 DEF Frame
  <2>4. My(p)' = rb'[job[p].name] /\ job' = job
    BY <1>2, Facts
  <2>5. HomeOfUser'
    BY <2>1, <2>3, <2>4 DEF RunbotInv, HomeOfUser, Own
  <2>6. \A q \in Proc : StepInv(q)'
    BY <1>2, <2>1, OtherStep DEF Own
  <2>7. SitesStayLoadable'
    <3>1. Calm' => SitesLoad
      BY <1>2, Facts
    <3>2. Calm' => \A n \in Name : ~Broken(rb'[n])
      BY <2>1, <2>3, <2>4, <3>1 DEF Own, SitesLoad
    <3> QED BY <3>2 DEF SitesStayLoadable, Calm
  <2> QED BY <1>1, <2>1, <2>2, <2>4, <2>5, <2>6, <2>7 DEF RunbotInv
<1>3. CASE UNCHANGED vars
  <2>1. UNCHANGED <<rb, job, pc, hit, met>>
    BY <1>3 DEF vars
  <2>2. MetTogether' /\ HomeOfUser' /\ SitesStayLoadable'
    BY <2>1 DEF RunbotInv, MetTogether, HomeOfUser, SitesStayLoadable, Active, Others, Exclusive
  <2>3. \A q \in Proc : StepInv(q)'
    BY <2>1 DEF RunbotInv, StepInv, Removing, Made, Restarting, Certified, My, Calm, Exclusive
  <2> QED BY <1>1, <2>1, <2>2, <2>3 DEF RunbotInv
<1> QED BY <1>2, <1>3 DEF Next, Step

\* Only an interactive build, a deletion that failed or calls that overlapped leave
\* a site that keeps apache from reloading: automatic builds never do, even when
\* certbot fails, for any number of runbots, calls and failures.
THEOREM SitesLoadable == Spec => []SitesStayLoadable
<1>1. RunbotInv => SitesStayLoadable
  BY DEF RunbotInv
<1> QED BY <1>1, RunbotInvInit, RunbotInvStep, PTL DEF Spec

LEMMA WholeWhenReady ==
  ASSUME RunbotInv, NEW p \in Proc, pc[p] = "setrb", job[p].auto, job[p].type = "mkdb", ~met[p]
  PROVE  \/ Whole(My(p), job[p].ssl)
         \/ hit[p] /\ Whole([My(p) EXCEPT !.home = @ \cup {"web"}], job[p].ssl)
<1>1. My(p) \in Parts
  BY MyParts DEF RunbotInv, BuilderInv
<1>2. Made(p)
  BY DEF RunbotInv, StepInv
<1>3. /\ My(p).user /\ My(p).role /\ My(p).units /\ My(p).running /\ My(p).dbs
      /\ {"dirs", "conf", "env", "info", "server"} \subseteq My(p).home
      /\ My(p).site = (IF job[p].ssl THEN "ssl" ELSE "http")
      /\ ~hit[p] => "web" \in My(p).home
  BY <1>2 DEF Made, Building, InitStages, Served
<1>4. My(p).home \subseteq Files
  BY <1>1 DEF Parts
<1>5. CASE ~hit[p]
  BY <1>3, <1>4, <1>5 DEF Whole, Files
<1>6. CASE hit[p]
  <2> DEFINE w == [My(p) EXCEPT !.home = @ \cup {"web"}]
  <2>1. /\ w.user = My(p).user /\ w.role = My(p).role /\ w.units = My(p).units
        /\ w.running = My(p).running /\ w.dbs = My(p).dbs /\ w.site = My(p).site
        /\ w.home = My(p).home \cup {"web"}
    BY <1>1 DEF Parts
  <2> HIDE DEF w
  <2>2. Whole(w, job[p].ssl)
    BY <1>3, <1>4, <2>1 DEF Whole, Files
  <2> QED BY <1>6, <2>2 DEF w
<1> QED BY <1>5, <1>6

\* The runbot that is announced is whole and runs, whatever failed unnoticed
\* before, but for a web client whose clone failed.
THEOREM AnnouncedIsWhole == Spec => ReadyMeansWhole
<1>1. RunbotInv /\ [Next]_vars =>
        [\A p \in Proc :
           (/\ pc[p] = "setrb" /\ pc'[p] = "end"
            /\ job[p].auto /\ job[p].type = "mkdb" /\ ~met[p])
           => \/ Whole(My(p), job[p].ssl)
              \/ hit[p] /\ Whole([My(p) EXCEPT !.home = @ \cup {"web"}], job[p].ssl)]_vars
  BY WholeWhenReady
<1> QED BY <1>1, RunbotInvInit, RunbotInvStep, PTL DEF Spec, ReadyMeansWhole

LEMMA SameParts ==
  ASSUME NEW a \in Parts, NEW b \in Parts,
         a.user = b.user, a.home = b.home, a.role = b.role, a.dbs = b.dbs, a.units = b.units,
         a.running = b.running, a.site = b.site, a.cert = b.cert
  PROVE  a = b
BY DEF Parts

LEMMA GoneWhenDeleted ==
  ASSUME RunbotInv, [Next]_vars, NEW p \in Proc,
         pc[p] = "userdel", pc[p] # pc'[p], ~met[p], ~hit'[p]
  PROVE  rb'[job[p].name] = [Nothing EXCEPT !.role = My(p).role]
<1> DEFINE m == My(p)
           gone == [m EXCEPT !.user = FALSE, !.home = {}]
<1>1. UserDel(p)
  <2>1. PICK q \in Proc : Step(q)
    BY DEF Next, Step, vars
  <2>2. q = p
    BY <2>1, StepFrame DEF RunbotInv, Frame, Killed
  <2> QED BY <2>1, <2>2 DEF Step, Begin, InitSync, DeleteRB, GetBranch, Check, UserAdd,
        Clone, Role, Config, Start, Cert, Site, Info, Build, MkDb, DevTests, TestField,
        SetRb, Finish, Stop, UnSite, DropDb, UnUnit, UserDel, Try
<1>2. Step(p)
  BY <1>1 DEF Step, DeleteRB
<1>3. /\ m \in Parts /\ (m.user \/ m.home = {}) /\ ~hit[p]
      /\ ~m.running /\ m.site = "none" /\ ~m.dbs /\ ~m.units /\ ~m.cert
  BY <1>2, Facts DEF StepInv, Removing
<1>4. \A q \in Others(p) : pc[q] # "building"
  BY DEF RunbotInv, BuilderInv, OverlapsMet, DeletesWhenAsked, DeleteStages,
         Exclusive, Active, Ended
<1>5. ~Serving(m)
  BY <1>3 DEF Serving
<1>6. \/ rb' = [rb EXCEPT ![job[p].name] = gone]
      \/ rb' = [rb EXCEPT ![job[p].name] = m] /\ ~m.user
  <2>1. ~Fault(p)
    BY <1>2, Facts DEF Fault
  <2> QED BY <1>1, <1>4, <1>5, <2>1 DEF UserDel, Try
<1>7. rb'[job[p].name] = gone \/ (rb'[job[p].name] = m /\ ~m.user)
  <2> HIDE DEF gone, m
  <2> QED BY <1>2, <1>6, Facts DEF Jobs
<1> HIDE DEF m
<1>8. gone = [Nothing EXCEPT !.role = m.role] /\ (~m.user => m = [Nothing EXCEPT !.role = m.role])
  <2> DEFINE left == [Nothing EXCEPT !.role = m.role]
  <2>1. /\ left \in Parts /\ left.user = FALSE /\ left.home = {} /\ left.role = m.role
        /\ left.dbs = FALSE /\ left.units = FALSE /\ left.running = FALSE
        /\ left.site = "none" /\ left.cert = FALSE
    <3>1. Nothing \in Parts /\ m.role \in BOOLEAN
      BY <1>3 DEF Parts, Nothing
    <3>2. /\ left \in Parts /\ left.role = m.role
          /\ left.user = Nothing.user /\ left.home = Nothing.home /\ left.dbs = Nothing.dbs
          /\ left.units = Nothing.units /\ left.running = Nothing.running
          /\ left.site = Nothing.site /\ left.cert = Nothing.cert
      BY <3>1 DEF Parts
    <3> HIDE DEF left
    <3> QED BY <3>2 DEF Nothing
  <2>2. /\ gone \in Parts /\ gone.user = FALSE /\ gone.home = {} /\ gone.role = m.role
        /\ gone.dbs = m.dbs /\ gone.units = m.units /\ gone.running = m.running
        /\ gone.site = m.site /\ gone.cert = m.cert
    BY <1>3 DEF Parts
  <2>3. /\ m.running = FALSE /\ m.dbs = FALSE /\ m.units = FALSE /\ m.cert = FALSE
        /\ ~m.user => m.user = FALSE
    BY <1>3 DEF Parts
  <2> HIDE DEF left, gone
  <2>4. gone = left
    BY <1>3, <2>1, <2>2, <2>3, SameParts
  <2>5. ~m.user => m = left
    BY <1>3, <2>1, <2>3, SameParts
  <2> QED BY <2>4, <2>5 DEF left
<1> QED BY <1>7, <1>8 DEF m

\* A deletion whose commands work removes all of the runbot but its role, whatever
\* is there and whatever the other calls do, unless one of them met it.
THEOREM DeletionIsComplete == Spec => DeletedIsGone
<1>1. RunbotInv /\ [Next]_vars =>
        [\A p \in Proc :
           (pc[p] = "userdel" /\ pc[p] # pc'[p] /\ ~met[p] /\ ~hit'[p])
           => rb'[job[p].name] = [Nothing EXCEPT !.role = My(p).role]]_vars
  BY GoneWhenDeleted
<1> QED BY <1>1, RunbotInvInit, RunbotInvStep, PTL DEF Spec, DeletedIsGone

\* The restart that stops: none of its commands can, one after the other.
LEMMA RestartGoesOn ==
  ASSUME RunbotInv, NEW p \in Proc, Step(p), job[p].kind = "restart",
         job[p].type # "testfield", pc[p] # "trap", pc'[p] \in {"trap", "refused"},
         ~met'[p], ~hit'[p], Removes(job[p]),
         \A n \in Name \ {job[p].name} : ~Broken(rb[n])
  PROVE  FALSE
<1> DEFINE m == My(p)
<1>1. /\ m \in Parts /\ job' = job /\ job[p] \in Jobs /\ job[p].auto
      /\ ~met[p] /\ ~hit[p] /\ pc \in [Proc -> Stage] /\ hit \in [Proc -> BOOLEAN]
      /\ rb \in [Name -> Parts] /\ Made(p) /\ Restarting(p)
  BY Facts DEF StepInv
<1>2. ~Fault(p)
  BY <1>1 DEF Fault
<1>3. /\ pc[p] \in {"check", "useradd"} => ~m.user
      /\ pc[p] \in {"clone", "info"} => m.user
      /\ pc[p] \in {"clone"} => m.home = {}
      /\ pc[p] \in {"useradd", "clone", "role"} => ~m.dbs
      /\ pc[p] = "config" => m.user /\ {"dirs", "env"} \subseteq m.home
      /\ pc[p] = "start" => m.units
      /\ pc[p] \in {"cert", "site"} => m.site = "http"
      /\ pc[p] = "site" => m.cert
      /\ pc[p] = "building" => Serving(m) /\ "conf" \in m.home
      /\ pc[p] # "refused"
  BY <1>1 DEF Made, Restarting, Building, InitStages, Served, Serving
<1>4. pc[p] \notin DeleteStages
  <2>1. CASE pc[p] = "stop"
    BY <2>1, <1>1 DEF Step, InitSync, DeleteRB, Begin, GetBranch, Check, UserAdd,
        Clone, Role, Config, Start, Cert, Site, Info, Build, MkDb, DevTests, TestField,
        SetRb, Finish, Stop, UnSite, DropDb, UnUnit, UserDel, Try
  <2>2. CASE pc[p] \in DeleteStages \ {"stop"}
    <3>1. UnSite(p) \/ DropDb(p) \/ UnUnit(p) \/ UserDel(p)
      BY <2>2 DEF Step, InitSync, DeleteRB, Begin, GetBranch, Check, UserAdd,
        Clone, Role, Config, Start, Cert, Site, Info, Build, MkDb, DevTests, TestField,
        SetRb, Finish, Stop, Try, DeleteStages
    <3>2. CASE UnSite(p)
      BY <3>2, <1>1 DEF UnSite, Try, Goto, Stops, InitStages
    <3>3. CASE DropDb(p)
      BY <3>3, <1>1 DEF DropDb, Try, Goto, Stops, InitStages
    <3>4. CASE UnUnit(p)
      BY <3>4, <1>1 DEF UnUnit, Try, Goto, Stops, InitStages
    <3>5. CASE UserDel(p)
      BY <3>5, <1>1, FirstIsStage DEF UserDel, Try, Goto, Stops, InitStages
    <3> QED BY <3>1, <3>2, <3>3, <3>4, <3>5
  <2> QED BY <2>1, <2>2
<1> USE DEF Goto
<1>5. ~Begin(p)
  BY <1>1, FirstIsStage DEF Begin
<1>6. ~GetBranch(p) /\ ~Check(p) /\ ~Build(p) /\ ~SetRb(p) /\ ~Finish(p)
  BY <1>1, <1>2, <1>3 DEF GetBranch, Check, Build, SetRb, Finish
<1>7. ~UserAdd(p) /\ ~Start(p) /\ ~Info(p)
  BY <1>1, <1>2, <1>3 DEF UserAdd, Start, Info, Try
<1>8. ~Clone(p)
  BY <1>1, <1>2, <1>3 DEF Clone
<1>9. ~Role(p)
  BY <1>1, <1>2, <1>3 DEF Role, Try
<1>10. ~Config(p)
  BY <1>1, <1>2, <1>3 DEF Config, Try
<1>11. ~Cert(p)
  <2>1. pc[p] = "cert" => SitesLoad
    BY <1>3 DEF SitesLoad, Broken, My
  <2> QED BY <2>1, <1>1, <1>2 DEF Cert, Try
<1>12. ~Site(p)
  <2> DEFINE done == [m EXCEPT !.site = IF @ = "none" THEN @ ELSE "ssl"]
             loads == \A n \in Name : ~Broken([rb EXCEPT ![job[p].name] = done][n])
  <2>1. pc[p] = "site" => loads
    <3>1. pc[p] = "site" => done.cert
      BY <1>1, <1>3 DEF Parts
    <3> HIDE DEF done
    <3>2. ASSUME pc[p] = "site", NEW n \in Name
          PROVE  ~Broken([rb EXCEPT ![job[p].name] = done][n])
      <4>1. CASE n = job[p].name
        <5>1. [rb EXCEPT ![job[p].name] = done][n] = done
          BY <1>1, <4>1
        <5> QED BY <3>1, <3>2, <5>1 DEF Broken
      <4>2. CASE n # job[p].name
        <5>1. [rb EXCEPT ![job[p].name] = done][n] = rb[n]
          BY <1>1, <4>2
        <5> QED BY <4>2, <5>1
      <4> QED BY <4>1, <4>2
    <3> QED BY <3>2
  <2>2. Site(p) => pc[p] = "site" /\ (loads => pc' = [pc EXCEPT ![p] = "info"] \/ Fault(p))
    BY DEF Site, Try
  <2> HIDE DEF loads
  <2> QED BY <2>1, <2>2, <1>1, <1>2
<1>13. ~MkDb(p)
  BY <1>1, <1>2, <1>3 DEF MkDb, Try
<1>14. ~DevTests(p)
  BY <1>1, <1>2, <1>3 DEF DevTests, Try
<1>15. ~TestField(p)
  BY DEF TestField
<1> QED BY <1>4, <1>5, <1>6, <1>7, <1>8, <1>9, <1>10, <1>11, <1>12, <1>13, <1>14, <1>15
        DEF Step, InitSync, DeleteRB, Stop, UnSite, DropDb, UnUnit, UserDel, Try, DeleteStages

\* Whatever is there, a restart whose commands work and that meets nobody gets to
\* its end when deleteRB.sh is given the name that init_sync.sh builds, but for a
\* site of another runbot that keeps apache from reloading.
THEOREM RestartsEnd == Spec => RestartSucceeds
<1>1. ASSUME RunbotInv, [Next]_vars, NEW p \in Proc, job[p].kind = "restart",
             job[p].type # "testfield", pc[p] # "trap", pc'[p] \in {"trap", "refused"},
             ~met'[p], ~hit'[p], Removes(job[p]),
             \A n \in Name \ {job[p].name} : ~Broken(rb[n])
      PROVE  FALSE
  <2>1. ASSUME NEW q \in Proc, Step(q) PROVE FALSE
    <3>1. CASE q = p
      BY <1>1, <2>1, <3>1, RestartGoesOn
    <3>2. CASE q # p
      <4>1. pc'[p] = pc[p] /\ ~met[p] /\ ~hit[p]
        BY <1>1, <2>1, <3>2, Bystander, StepFrame DEF RunbotInv, Frame
      <4> QED BY <1>1, <4>1 DEF RunbotInv, StepInv, Restarting
    <3> QED BY <3>1, <3>2
  <2>2. CASE UNCHANGED vars
    BY <1>1, <2>2 DEF vars, RunbotInv, StepInv, Restarting
  <2> QED BY <1>1, <2>1, <2>2 DEF Next, Step
<1>2. RunbotInv /\ [Next]_vars =>
        [\A p \in Proc :
           (/\ job[p].kind = "restart" /\ job[p].type # "testfield"
            /\ pc[p] # "trap" /\ pc'[p] \in {"trap", "refused"}
            /\ ~met'[p] /\ ~hit'[p])
           => \/ ~Removes(job[p])
              \/ \E n \in Name \ {job[p].name} : Broken(rb[n])]_vars
  BY <1>1
<1> QED BY <1>2, RunbotInvInit, RunbotInvStep, PTL DEF Spec, RestartSucceeds
=============================================================================
