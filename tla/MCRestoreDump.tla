--------------------------- MODULE MCRestoreDump ----------------------------
(***************************************************************************)
(* Instances of RestoreDump for TLC: one sync server SYNC, one instance    *)
(* HQ; the dumps of the instance are called HQ (twice, from two files) and *)
(* HQ_1, the name a second restore of HQ falls back to.                    *)
(***************************************************************************)
EXTENDS RestoreDump

CONSTANTS SYNC, DEFAULT, HQ, PROD, fSync, fHq, fHq1, fHqBis, fLight

MCNewDbName ==
  (fSync :> <<SYNC>>) @@ (fLight :> <<SYNC, 1>>)
    @@ (fHq :> <<HQ>>) @@ (fHqBis :> <<HQ>>) @@ (fHq1 :> <<HQ, 1>>)

\* HQ... sorts before SYNC...
MCAlpha ==
  (fHq :> 1) @@ (fHqBis :> 2) @@ (fHq1 :> 3) @@ (fSync :> 4) @@ (fLight :> 5)

Plain ==
  [drop |-> FALSE, sql |-> TRUE, upgrade |-> FALSE, light |-> FALSE,
   syncOnly |-> FALSE, syncDb |-> NoDb, port |-> TRUE, syncRun |-> FALSE,
   outDir |-> FALSE, transport |-> "web", found |-> <<fHq, fSync>>]

NoDatabase  == {}
HqExists    == {<<HQ>>}
HqTwice     == {<<HQ>>, <<HQ, 1>>}
OnlyHq      == {<<HQ>>}

\* One run, every kind of job.
QuietJobs ==
  { [Plain EXCEPT !.drop = d, !.transport = t, !.found = f] :
      d \in BOOLEAN, t \in {"web", "rb"},
      f \in {<<fHq, fSync>>, <<fHq, fHqBis, fSync>>, <<fHq, fSync, fHq1>>, <<fHq>>} }
  \cup { [Plain EXCEPT !.transport = "postgres", !.found = f] :
            f \in {<<fSync, fHq>>, <<fHq, fSync, fHq1>>} }
  \cup { [Plain EXCEPT !.transport = "directory"],
         [Plain EXCEPT !.light = TRUE, !.found = <<fHq>>, !.syncRun = TRUE],
         [Plain EXCEPT !.light = TRUE, !.transport = "directory",
                       !.found = <<fHqBis, fHq>>, !.upgrade = TRUE],
         [Plain EXCEPT !.syncOnly = TRUE, !.found = <<>>],
         [Plain EXCEPT !.syncDb = <<SYNC>>, !.found = <<fHq, fHq1>>],
         [Plain EXCEPT !.port = FALSE, !.upgrade = TRUE],
         [Plain EXCEPT !.port = FALSE, !.syncRun = TRUE],
         [Plain EXCEPT !.found = <<>>],
         [Plain EXCEPT !.sql = FALSE, !.outDir = TRUE, !.upgrade = TRUE],
         [Plain EXCEPT !.sql = FALSE, !.upgrade = FALSE] }

\* Two runs compete for the same names.
RaceJobs ==
  { [Plain EXCEPT !.drop = d, !.found = <<fHq1>>] : d \in BOOLEAN }
    \cup { [Plain EXCEPT !.drop = TRUE, !.found = <<fHq>>],
           [Plain EXCEPT !.found = <<fHq, fHq1>>, !.port = FALSE] }

\* The cluster is hostile: databases are copied and Ctrl-C is pressed.
HostileJobs ==
  { [Plain EXCEPT !.drop = d, !.found = f] :
      d \in BOOLEAN, f \in {<<fHq, fHqBis>>, <<fHq1, fHq>>} }
    \cup { [Plain EXCEPT !.drop = TRUE, !.upgrade = TRUE, !.found = <<fSync>>] }

\* copy_db.py copies prod_HQ to <user>_HQ, the name dumps of HQ are restored
\* under, and <user>_HQ, which its pattern matches too, to a third one
MCCopyName == (<<PROD>> :> <<HQ>>) @@ (<<HQ>> :> <<HQ, 2>>)
NoCopyName == <<>>
SyncName   == <<SYNC>>
OnDefault  == <<DEFAULT>>
ProdExists == {<<PROD>>}
ProdAndHq  == {<<PROD>>, <<HQ>>}
=============================================================================
