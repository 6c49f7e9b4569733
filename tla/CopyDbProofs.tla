---------------------------- MODULE CopyDbProofs ----------------------------
(***************************************************************************)
(* copy_db.py beside any number of runs of restore_dump.py3, on any        *)
(* cluster: the pair implements RestoreDump, whose environment stands for  *)
(* it, so the theorems of RestoreDumpProofs hold of the pair as well.      *)
(***************************************************************************)
EXTENDS CopyDb, RestoreDumpProofs

-----------------------------------------------------------------------------
(* Refinement.                                                             *)

\* A step of copy_db.py is one of the environment, or the runs do not see it.
LEMMA CopyStepIsEnvironment ==
  ASSUME TypeOK, CopyStep
  PROVE  Environment \/ UNCHANGED vars
  <1> USE DEF Runs
  <1>r. Runs
    BY DEF CopyStep
  <1>1. CASE List \/ Ask \/ NextCopy \/ TryFails \/ GrantFails \/ KilledInTry
             \/ AlterOwner \/ AddressCopy
    BY <1>1, <1>r DEF List, Ask, NextCopy, TryFails, GrantFails, KilledInTry,
                      AlterOwner, AddressCopy, vars, clusterVars
  <1>2. CASE Revoke
    BY <1>2, <1>r DEF Revoke, Refuse, Exists, Environment
  <1>3. CASE KillConnections
    <2>1. CASE Exists(cur)
      BY <1>3, <1>r, <2>1 DEF KillConnections, Exists, Environment
    <2>2. CASE ~Exists(cur)
      <3>1. \A s \in sessions : s[2] # cur
        BY <2>2 DEF TypeOK, ClusterTypeOK, Exists
      <3>2. sessions' = sessions
        BY <1>3, <3>1 DEF KillConnections, Terminate
      <3> QED
        BY <1>3, <1>r, <3>2 DEF KillConnections, Terminate, vars, clusterVars
    <2> QED
      BY <2>1, <2>2
  <1>4. CASE Grant
    <2>1. CASE cur \in refused
      BY <1>4, <1>r, <2>1 DEF Grant, Accept, Exists, Environment
    <2>2. CASE cur \notin refused
      <3>1. refused' = refused
        BY <1>4, <2>2 DEF Grant
      <3> QED
        BY <1>4, <1>r, <3>1 DEF Grant, vars, clusterVars
    <2> QED
      BY <2>1, <2>2
  \* the copy is a database of the cluster the runs work on
  <1>5. CASE CreateCopy
    BY <1>5, <1>r DEF CreateCopy, CopyDatabase, Environment
  <1>6. CASE ConnectCopy
    BY <1>6, <1>r DEF ConnectCopy, CopierOpen, Environment
  <1>7. CASE CommitCopy
    <2>1. CASE updated
      BY <1>7, <1>r, <2>1 DEF CommitCopy, Readdress, Environment
    <2>2. CASE ~updated
      BY <1>7, <1>r, <2>2 DEF CommitCopy, vars, clusterVars
    <2> QED
      BY <2>1, <2>2
  <1>8. CASE ConfigureFails
    BY <1>8, <1>r DEF ConfigureFails, Environment
  <1> QED
    BY <1>1, <1>2, <1>3, <1>4, <1>5, <1>6, <1>7, <1>8 DEF CopyStep

LEMMA CopyNextIsNext ==
  ASSUME TypeOK, [CopyNext]_allVars
  PROVE  [Next]_vars
  <1>1. CASE CopyStep
    BY <1>1, CopyStepIsEnvironment DEF Next
  <1>2. CASE AppStep
    BY <1>2 DEF AppStep, Runs, Environment, Next
  <1>3. CASE RunBesideCopy
    BY <1>3 DEF RunBesideCopy, Next
  <1>4. CASE UNCHANGED allVars
    BY <1>4 DEF allVars
  <1> QED
    BY <1>1, <1>2, <1>3, <1>4 DEF CopyNext

\* copy_db.py is what RestoreDump allows of its environment.  The types that the
\* step lemma needs are those RestoreDumpProofs has shown to be inductive.
THEOREM CopyImplementsRestore == CopySpec => RestoreSpec
  <1>1. CopyInit => Init
    BY DEF CopyInit
  <1>2. IndInv /\ [CopyNext]_allVars => [Next]_vars
    BY CopyNextIsNext DEF IndInv
  <1> QED
    BY <1>1, <1>2, InitIndInv, IndInvStep, PTL DEF CopySpec, RestoreSpec, Spec

\* So only the target of a --drop run ever disappears, with copy_db.py at work.
THEOREM OnlyTargetIsDroppedBesideCopy == CopySpec => OnlyTargetDropped
  BY CopyImplementsRestore, OnlyTargetIsDropped, PTL DEF RestoreSpec

-----------------------------------------------------------------------------
(* The invariants of copy_db.py.                                           *)

\* The types of copy_db.py hold whatever runs beside it, and the UPDATE that is
\* about to be committed is the one that the port called for.
CopyInd == IndInv /\ CopyTypeOK /\ (at = "commit" => (updated <=> port))

LEMMA InitCopyInd == CopyInit => CopyInd
  <1> SUFFICES ASSUME CopyInit PROVE CopyInd
    OBVIOUS
  <1>1. IndInv
    BY InitIndInv DEF CopyInit
  <1>2. PreExisting \subseteq Name /\ <<DefaultServer>> \in Name
    BY ClusterAssumption, DefaultName
  <1>3. CopyTypeOK /\ at = "list"
    BY <1>2 DEF CopyInit, CopyTypeOK
  <1> QED
    BY <1>1, <1>3 DEF CopyInd

LEMMA CopyIndStep == CopyInd /\ [CopyNext]_allVars => CopyInd'
  <1> SUFFICES ASSUME CopyInd, [CopyNext]_allVars PROVE CopyInd'
    OBVIOUS
  <1>1. IndInv'
    BY CopyNextIsNext, IndInvStep DEF CopyInd, IndInv
  <1>t. TypeOK /\ CopyTypeOK /\ (at = "commit" => (updated <=> port))
    BY DEF CopyInd, IndInv
  <1> DEFINE Updated == at = "commit" => (updated <=> port)
  <1>2. CopyTypeOK' /\ Updated'
    <2> USE <1>t DEF CopyTypeOK
    <2>1. CASE UNCHANGED copyVars
      BY <2>1 DEF copyVars
    <2>2. CASE CopyStep
      <3>1. CASE List
        BY <3>1 DEF List
      <3>2. CASE Ask
        BY <3>2 DEF Ask
      <3>3. CASE NextCopy
        <4>1. todo' \subseteq CopiedName /\ cur' \in Name
                /\ (at' = "revoke" => cur' \in CopiedName)
          BY <3>3, ClusterAssumption DEF NextCopy
        <4>2. at' \in {"ended", "revoke"}
          BY <3>3 DEF NextCopy
        <4> QED
          BY <3>3, <4>1, <4>2 DEF NextCopy
      <3>4. CASE Revoke \/ KillConnections
        BY <3>4 DEF Revoke, KillConnections
      <3>5. CASE CreateCopy
        BY <3>5 DEF CreateCopy
      <3>6. CASE TryFails
        BY <3>6 DEF TryFails
      <3>7. CASE Grant
        <4>1. at' \in {"connect", "next", "ended"}
          BY <3>7 DEF Grant
        <4> QED
          BY <3>7, <4>1 DEF Grant
      <3>8. CASE GrantFails \/ KilledInTry \/ ConfigureFails
        BY <3>8 DEF GrantFails, KilledInTry, ConfigureFails
      <3>9. CASE ConnectCopy \/ AlterOwner
        BY <3>9 DEF ConnectCopy, AlterOwner
      <3>10. CASE AddressCopy
        BY <3>10 DEF AddressCopy
      <3>11. CASE CommitCopy
        <4>1. Copy \in Name
          BY <3>11, ClusterAssumption DEF CommitCopy, Copy
        <4> QED
          BY <3>11, <4>1 DEF CommitCopy
      <3> QED
        BY <2>2, <3>1, <3>2, <3>3, <3>4, <3>5, <3>6, <3>7, <3>8, <3>9, <3>10, <3>11
        DEF CopyStep
    <2>3. CASE RunBesideCopy
      BY <2>3 DEF RunBesideCopy
    <2> QED
      BY <2>1, <2>2, <2>3 DEF CopyNext, allVars, copyVars
  <1> QED
    BY <1>1, <1>2 DEF CopyInd

\* The state of copy_db.py is always well formed: what it copies is one of the
\* databases its patterns matched, wherever it stands.
THEOREM CopyTypeCorrect == CopySpec => []CopyTypeOK
  <1>1. CopyInd => CopyTypeOK
    BY DEF CopyInd
  <1> QED
    BY InitCopyInd, CopyIndStep, <1>1, PTL DEF CopySpec

\* No run of restore_dump.py3 refuses a connection.
LEMMA RunsRefuseNothing ==
  ASSUME NEW r \in Run, RunStep(r)
  PROVE  refused' \subseteq refused
  BY DEF RunStep, Decline, Start, FetchDump, FetchEmpty, FetchRaises,
     ProbeConnects, ProbeFails, Interrupted, CloseForDrop, DropSucceeds, DropDb,
     DropFails, KeepExisting, Create, CreateDb, PgRestore, Open, RunQueries,
     MoveSequences, UpgradeWaits, UpgradeReturns, Close, Abort, Killed,
     LightDone, LightMissing, SyncSkips, SyncInstance, clusterVars

LEMMA AccessStep == CopyInd /\ AccessGivenBack /\ [CopyNext]_allVars => AccessGivenBack'
  <1> SUFFICES ASSUME CopyInd, AccessGivenBack, [CopyNext]_allVars
               PROVE  AccessGivenBack'
    OBVIOUS
  <1> USE DEF AccessGivenBack
  <1>1. CASE RunBesideCopy
    <2>1. refused' \subseteq refused /\ at' = at /\ cur' = cur
      BY <1>1, RunsRefuseNothing DEF RunBesideCopy
    <2> QED
      BY <2>1
  <1>2. CASE AppStep /\ UNCHANGED copyVars
    BY <1>2 DEF AppStep, AppOpen, AppClose, copyVars
  <1>3. CASE UNCHANGED allVars
    BY <1>3 DEF allVars, vars, clusterVars, copyVars
  <1>4. CASE CopyStep
    <2>1. CASE List \/ Ask \/ NextCopy \/ ConnectCopy \/ AlterOwner \/ AddressCopy
               \/ CommitCopy \/ ConfigureFails
      <3>1. refused = {} /\ refused' = refused
        BY <2>1 DEF List, Ask, NextCopy, ConnectCopy, CopierOpen, AlterOwner, AddressCopy,
                    CommitCopy, Readdress, ConfigureFails, CopierClose, clusterVars
      <3> QED
        BY <3>1
    <2>2. CASE Revoke
      BY <2>2 DEF Revoke, Refuse
    <2>3. CASE KillConnections \/ CreateCopy \/ TryFails
      BY <2>3 DEF KillConnections, Terminate, CreateCopy, CopyDatabase, TryFails, clusterVars
    <2>4. CASE Grant
      BY <2>4 DEF Grant
    <2>5. CASE GrantFails \/ KilledInTry
      BY <2>5 DEF GrantFails, KilledInTry, clusterVars
    <2> QED
      BY <1>4, <2>1, <2>2, <2>3, <2>4, <2>5 DEF CopyStep
  <1> QED
    BY <1>1, <1>2, <1>3, <1>4 DEF CopyNext

\* A script that goes on to another copy, or ends by itself, leaves no REVOKE
\* behind, for any cluster, any runs that drop and create beside it, and any
\* error or Ctrl-C; one that is killed or whose GRANT fails leaves one, on the
\* database it was at.
THEOREM AccessIsGivenBack == CopySpec => []AccessGivenBack
  <1>1. CopyInit => AccessGivenBack
    BY DEF CopyInit, Init, ClusterInit, AccessGivenBack
  <1> QED
    BY <1>1, InitCopyInd, CopyIndStep, AccessStep, PTL DEF CopySpec

LEMMA NeutralStep ==
  ASSUME CopyInd, [CopyNext]_allVars, port, NEW name \in handed' \ handed
  PROVE  cluster'[name].server # Production
  <1>1. CopyStep /\ CommitCopy
    BY DEF CopyNext, CopyStep, List, Ask, NextCopy, Revoke, KillConnections, CreateCopy,
       TryFails, Grant, GrantFails, KilledInTry, ConnectCopy, AlterOwner, AddressCopy,
       ConfigureFails, RunBesideCopy, copyVars, allVars
  <1>2. name = Copy /\ Copy \in DOMAIN cluster /\ updated
    BY <1>1 DEF CommitCopy, Exists, CopyInd
  <1>3. cluster[name] \in Database
    BY <1>2 DEF CopyInd, IndInv, TypeOK, ClusterTypeOK
  <1>4. cluster'[name] = Redirected(cluster[name], LocalServer)
    BY <1>1, <1>2 DEF CommitCopy, Readdress, Copy
  <1>5. cluster'[name].server \in {NoDb, LocalServer}
    BY <1>3, <1>4 DEF Redirected, Database
  <1> QED
    BY <1>5, ClusterAssumption

\* When a port for a local sync server was found, no database becomes the target
\* user's while it leads to the production server, whatever runs, drops or loads
\* databases of the same names beside the script.
THEOREM CopiesAreNeutral == CopySpec => CopyHandedOverNeutral
  <1> DEFINE Neutral == port => \A name \in handed' \ handed : cluster'[name].server # Production
  <1>1. CopyInd /\ [CopyNext]_allVars => Neutral
    BY NeutralStep
  <1>2. CopyInd /\ [CopyNext]_allVars => [Neutral]_allVars
    BY <1>1
  <1> QED
    BY <1>2, InitCopyInd, CopyIndStep, PTL DEF CopySpec, CopyHandedOverNeutral
=============================================================================
