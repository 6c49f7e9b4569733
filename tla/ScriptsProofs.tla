---------------------------- MODULE ScriptsProofs ----------------------------
(***************************************************************************)
(* Proofs about the scripts that share no state with one another: the      *)
(* cleaning of the finance data, the scripts about Jira tickets,           *)
(* make_patch.py, blk_xmlrpc-dump.py and the fix of deliveries.            *)
(***************************************************************************)
EXTENDS XmlDump, MakePatch, DeliveryFix, CleanFinance, Tickets,
        FiniteSetTheorems, NaturalsInduction, WellFoundedInduction, TLAPS

-----------------------------------------------------------------------------
(* Whatever tables, rows and foreign keys a database has, clean_finance.py *)
(* deletes its accounting whole or not at all.  The invariant follows the  *)
(* transaction: the tables that had their turn are empty, what is lost is  *)
(* of the list unless a cascade leads out of it, and until the commit the  *)
(* database to go back to has all its rows.                                *)

\* no row of S is referred to, by a key with CASCADE, from outside X
Closed(X) == \A l \in refs : l.key.rule = "CASCADE" /\ l.to \in X => l.of \in X

IsCascade(S, X) ==
  /\ S \subseteq X /\ Closed(X)
  /\ \A Y \in SUBSET X : S \subseteq Y /\ Closed(Y) => Y = X

\* references lead from row to row, by a key of their tables
RefsOK ==
  \A l \in refs : /\ l.of \in rows /\ l.to \in rows
                  /\ l.key \in keys /\ TableOf[l.of] = l.key.from

NoEscape == \A k \in keys : k.rule = "CASCADE" => k.from \in Emptied

LostIsListed == NoEscape => \A r \in Row \ rows : TableOf[r] \in Emptied

NoneLeft == \A r \in rows : TableOf[r] \notin Emptied

Cleaned ==
  /\ NoneLeft /\ LostIsListed
  /\ \A r \in names : TableOf[r] \notin Emptied
  /\ \A l \in refs : l.of \in rows /\ l.to \in rows

\* the turns that are over
TurnsOver ==
  /\ cleaning = "delete" =>
       /\ nth \in 1..Len(ToDel)
       /\ \A n \in 1..(nth - 1) : \A r \in rows : TableOf[r] # ToDel[n]
  /\ cleaning = "index" => nth = 1
  /\ cleaning \in {"names", "commit"} => NoneLeft
  /\ cleaning = "commit" => \A r \in names : TableOf[r] \notin Emptied

GoesBack ==
  /\ cleaning \in {"index", "delete", "names", "commit"} => stored.rows = Row
  /\ cleaning \in {"drop", "exit"} =>
       /\ Cleaned
       /\ stored.rows = rows /\ stored.refs = refs /\ stored.names = names
  /\ cleaning \in {"end", "failed"} => rows = Row \/ Cleaned

Place == {"index", "delete", "names", "commit", "drop", "exit", "end", "failed"}

InTransaction == cleaning \in {"index", "delete", "names", "commit"} => RefsOK /\ LostIsListed

FinanceInv ==
  cleaning \in Place /\ rows \subseteq Row /\ InTransaction /\ TurnsOver /\ GoesBack

LEMMA CleanedIsClean ==
  ASSUME rows \subseteq Row, FinanceInv
  PROVE  CleanedOrUntouched
<1> SUFFICES ASSUME cleaning \in {"end", "failed"}, rows # Row PROVE CleanedOrUntouched
  BY DEF CleanedOrUntouched
<1>1. Cleaned BY DEF FinanceInv, GoesBack
<1> QED BY <1>1 DEF CleanedOrUntouched, Cleaned, NoneLeft, LostIsListed, NoEscape

\* The rows that go with those of S exist and are the least set of their kind:
\* those in every closed set that holds S.
LEMMA CascadeExists ==
  ASSUME RefsOK, NEW S \in SUBSET rows
  PROVE  Cascade(S) \in SUBSET rows /\ IsCascade(S, Cascade(S))
<1> DEFINE Least == {r \in rows : \A X \in SUBSET rows : S \subseteq X /\ Closed(X) => r \in X}
<1>1. S \subseteq Least OBVIOUS
<1>2. Closed(Least)
  <2> SUFFICES ASSUME NEW l \in refs, l.key.rule = "CASCADE", l.to \in Least
               PROVE  l.of \in Least
    BY DEF Closed
  <2>1. l.of \in rows BY DEF RefsOK
  <2>2. ASSUME NEW X \in SUBSET rows, S \subseteq X, Closed(X) PROVE l.of \in X
    BY <2>2 DEF Closed
  <2> QED BY <2>1, <2>2
<1>3. ASSUME NEW Y \in SUBSET Least, S \subseteq Y, Closed(Y) PROVE Y = Least
  BY <1>3
<1>4. IsCascade(S, Least) BY <1>1, <1>2, <1>3 DEF IsCascade
<1>5. Cascade(S) = CHOOSE X \in SUBSET rows : IsCascade(S, X)
  BY DEF Cascade, IsCascade, Closed
<1> HIDE DEF Least
<1>6. Least \in SUBSET rows BY DEF Least
<1> QED BY <1>4, <1>5, <1>6

\* No cascade key leaves the list: only rows of the list go.
LEMMA CascadeStays ==
  ASSUME RefsOK, NoEscape, NEW S \in SUBSET rows, \A r \in S : TableOf[r] \in Emptied
  PROVE  \A r \in Cascade(S) : TableOf[r] \in Emptied
<1> DEFINE Inside == {r \in Cascade(S) : TableOf[r] \in Emptied}
<1>1. IsCascade(S, Cascade(S)) BY CascadeExists
<1>2. S \subseteq Inside BY <1>1 DEF IsCascade
<1>3. Closed(Inside)
  <2> SUFFICES ASSUME NEW l \in refs, l.key.rule = "CASCADE", l.to \in Inside
               PROVE  l.of \in Inside
    BY DEF Closed
  <2>1. l.of \in Cascade(S) BY <1>1 DEF IsCascade, Closed
  <2>2. TableOf[l.of] \in Emptied BY DEF RefsOK, NoEscape
  <2> QED BY <2>1, <2>2
<1>4. Inside = Cascade(S) BY <1>1, <1>2, <1>3 DEF IsCascade
<1> QED BY <1>4

LEMMA StartIsInv ==
  ASSUME NEW ks \in SUBSET Key, NEW links \in SUBSET Referring(ks), NEW ids \in SUBSET Row,
         CleanStart(ks, Row, links, ids)
  PROVE  FinanceInv
<1>1. RefsOK BY DEF CleanStart, Referring, RefsOK
<1>2. LostIsListed BY DEF CleanStart, LostIsListed
<1> QED BY <1>1, <1>2
        DEF CleanStart, FinanceInv, InTransaction, TurnsOver, GoesBack, Place

\* An index changes nothing of the rows.
LEMMA IndexKeeps ==
  ASSUME FinanceInv, CreateIndexes
  PROVE  FinanceInv'
<1> USE FinanceAssumption DEF FinanceInv, CreateIndexes
<1>1. cleaning' = "delete" /\ nth' = 1 /\ nth' \in 1..Len(ToDel)
  BY DEF TurnsOver
<1>2. InTransaction' BY DEF InTransaction, RefsOK, LostIsListed, NoEscape
<1>3. TurnsOver' BY <1>1 DEF TurnsOver
<1>4. GoesBack' BY DEF GoesBack
<1> QED BY <1>1, <1>2, <1>3, <1>4 DEF Place

\* A transaction that is rolled back before the commit has all rows again,
\* after it what was committed.
LEMMA RollBackKeeps ==
  ASSUME FinanceInv, cleaning \notin {"end", "failed"},
         RollBack, cleaning' \in {"end", "failed"}, UNCHANGED keys
  PROVE  FinanceInv'
<1> USE DEF FinanceInv, GoesBack
<1>1. rows' = Row \/ Cleaned'
  <2>1. CASE cleaning \in {"drop", "exit"}
    <3>1. Cleaned /\ rows' = rows /\ refs' = refs /\ names' = names BY <2>1 DEF RollBack
    <3> QED BY <3>1 DEF Cleaned, NoneLeft, LostIsListed, NoEscape
  <2>2. CASE cleaning \notin {"drop", "exit"} BY <2>2 DEF RollBack, Place
  <2> QED BY <2>1, <2>2
<1>2. rows' \subseteq Row
  BY DEF RollBack, Place
<1> QED BY <1>1, <1>2 DEF InTransaction, TurnsOver, Place

\* A table that had its turn is empty, and with the last one so are all.
LEMMA DeleteKeeps ==
  ASSUME FinanceInv, DeleteTable
  PROVE  FinanceInv'
<1> DEFINE S == {r \in rows : TableOf[r] = ToDel[nth]}
           gone == Cascade(S)
<1> USE FinanceAssumption
<1>1. /\ cleaning = "delete" /\ nth \in 1..Len(ToDel)
      /\ RefsOK /\ LostIsListed /\ rows \subseteq Row /\ stored.rows = Row
      /\ keys' = keys /\ stored' = stored
  BY DEF FinanceInv, DeleteTable, TurnsOver, InTransaction, GoesBack
<1>2. CASE Refused(gone)
  <2>1. RollBack /\ cleaning' = "failed" BY <1>2 DEF DeleteTable
  <2> QED BY <1>1, <2>1, RollBackKeeps
<1>3. CASE ~Refused(gone)
  <2>1. /\ rows' = rows \ gone
        /\ refs' = {l \in refs : l.of \notin gone /\ l.to \notin gone}
        /\ nth' = nth + 1
        /\ cleaning' = IF nth = Len(ToDel) THEN "names" ELSE "delete"
    BY <1>3 DEF DeleteTable
  <2>2. gone \in SUBSET rows /\ S \subseteq gone
    BY <1>1, CascadeExists DEF IsCascade
  <2> HIDE DEF gone
  <2>3. RefsOK' BY <1>1, <2>1 DEF RefsOK
  <2>4. LostIsListed'
    <3> SUFFICES ASSUME NoEscape PROVE \A r \in gone : TableOf[r] \in Emptied
      BY <1>1, <2>1 DEF LostIsListed, NoEscape
    <3>1. ToDel[nth] \in Emptied BY <1>1 DEF Emptied
    <3> QED BY <1>1, <3>1, CascadeStays DEF gone
  <2>5. \A n \in 1..nth : \A r \in rows' : TableOf[r] # ToDel[n]
    <3> SUFFICES ASSUME NEW n \in 1..nth, NEW r \in rows' PROVE TableOf[r] # ToDel[n]
      OBVIOUS
    <3>1. CASE n = nth BY <2>1, <2>2, <3>1
    <3>2. CASE n # nth
      <4>1. n \in 1..(nth - 1) BY <1>1, <3>2
      <4> QED BY <1>1, <2>1, <4>1 DEF FinanceInv, TurnsOver
    <3> QED BY <3>1, <3>2
  <2>6. TurnsOver'
    <3>1. CASE nth = Len(ToDel)
      <4>1. NoneLeft' BY <1>1, <2>5, <3>1 DEF NoneLeft, Emptied
      <4> QED BY <2>1, <3>1, <4>1 DEF TurnsOver
    <3>2. CASE nth # Len(ToDel)
      <4>1. nth' \in 1..Len(ToDel) /\ nth' - 1 = nth BY <1>1, <2>1, <3>2
      <4> QED BY <2>1, <2>5, <3>2, <4>1 DEF TurnsOver
    <3> QED BY <3>1, <3>2
  <2>7. GoesBack' BY <1>1, <2>1 DEF GoesBack
  <2> QED BY <1>1, <2>1, <2>3, <2>4, <2>6, <2>7 DEF FinanceInv, InTransaction, Place
<1> QED BY <1>2, <1>3

LEMMA NamesKeep ==
  ASSUME FinanceInv, DeleteNames
  PROVE  FinanceInv'
<1> USE DEF FinanceInv, DeleteNames
<1>1. InTransaction' BY DEF InTransaction, RefsOK, LostIsListed, NoEscape
<1>2. TurnsOver' BY DEF TurnsOver, NoneLeft
<1>3. GoesBack' BY DEF GoesBack
<1> QED BY <1>1, <1>2, <1>3 DEF Place

LEMMA CommitKeeps ==
  ASSUME FinanceInv, Commit
  PROVE  FinanceInv'
<1> USE DEF FinanceInv, Commit
<1>1. Cleaned BY DEF Cleaned, InTransaction, TurnsOver, RefsOK
<1>2. Cleaned' BY <1>1 DEF Cleaned, NoneLeft, LostIsListed, NoEscape
<1>3. GoesBack' BY <1>2 DEF GoesBack, database
<1> QED BY <1>3 DEF InTransaction, TurnsOver, Place

LEMMA DropKeeps ==
  ASSUME FinanceInv, DropIndexes
  PROVE  FinanceInv'
<1> USE DEF FinanceInv, DropIndexes
<1>1. Cleaned BY DEF GoesBack
<1>2. Cleaned' BY <1>1 DEF Cleaned, NoneLeft, LostIsListed, NoEscape
<1>3. GoesBack' BY <1>2 DEF GoesBack
<1> QED BY <1>3 DEF InTransaction, TurnsOver, Place

LEMMA FinanceStepKeeps ==
  ASSUME FinanceInv, [CleanNext]_financeVars
  PROVE  FinanceInv'
<1>1. CASE CreateIndexes BY <1>1, IndexKeeps
<1>2. CASE DeleteTable BY <1>2, DeleteKeeps
<1>3. CASE DeleteNames BY <1>3, NamesKeep
<1>4. CASE Commit BY <1>4, CommitKeeps
<1>5. CASE DropIndexes BY <1>5, DropKeeps
<1>6. CASE Exit BY <1>6, RollBackKeeps DEF Exit
<1>7. CASE CleanFails BY <1>7, RollBackKeeps DEF CleanFails
<1>8. CASE UNCHANGED financeVars
  BY <1>8 DEF financeVars, FinanceInv, InTransaction, RefsOK, TurnsOver, GoesBack, Cleaned,
              NoneLeft, LostIsListed, NoEscape
<1> QED BY <1>1, <1>2, <1>3, <1>4, <1>5, <1>6, <1>7, <1>8 DEF CleanNext

\* However the script ends (a key without a rule, a lost connection, Ctrl-C,
\* the exit that forgets the indexes), the accounting is all there or all
\* gone (clean_finance.py:94-120).
THEOREM AllOrNothing == CleanSpec => []CleanedOrUntouched
<1>1. ASSUME \E ks \in SUBSET Key : \E links \in SUBSET Referring(ks), ids \in SUBSET Row :
               CleanStart(ks, Row, links, ids)
      PROVE  FinanceInv
  BY <1>1, StartIsInv
<1>2. FinanceInv /\ [CleanNext]_financeVars => FinanceInv' BY FinanceStepKeeps
<1>3. FinanceInv => CleanedOrUntouched BY CleanedIsClean DEF FinanceInv
<1> QED BY <1>1, <1>2, <1>3, PTL DEF CleanSpec

-----------------------------------------------------------------------------
(***************************************************************************)
(* However many tickets name a branch, whatever versions they have, however *)
(* often create_merge_proposal.py dies and is started again and whoever    *)
(* edits tickets meanwhile, no branch is proposed for merging twice.       *)
(***************************************************************************)
AtMostOne == \A b \in Branch : proposed[b] = <<>> \/ \E v : proposed[b] = <<v>>

\* Between the look at its proposals and its own, nobody proposes the branch:
\* create_merge_proposal.py is the only one that does.
NoneYet ==
  pc["merge"] = "write" => proposed[cur["merge"].item[1]] = <<>>

Shapes ==
  /\ DOMAIN pc = Process /\ DOMAIN cur = Process /\ DOMAIN proposed = Branch

MergeInv == Shapes /\ AtMostOne /\ NoneYet

LEMMA MergeInit == TicketsInit => MergeInv
BY DEF TicketsInit, MergeInv, Shapes, AtMostOne, NoneYet, Process, Script

\* The steps of the others leave proposals and the script alone.
LEMMA OthersKeep ==
  ASSUME MergeInv, Shapes', proposed' = proposed,
         pc'["merge"] = pc["merge"], cur'["merge"] = cur["merge"]
  PROVE  MergeInv'
BY DEF MergeInv, AtMostOne, NoneYet

LEMMA BranchesAreOthers ==
  ASSUME MergeInv, NEW p \in {"lp", "git"}, Branches(p)
  PROVE  MergeInv'
<1> USE DEF Goto, Read, Forget
<1>1. CASE Collect(p) BY <1>1, OthersKeep DEF Collect, MergeInv, Shapes
<1>2. CASE ReadIssue(p)
  <2>1. proposed' = proposed BY <1>2 DEF ReadIssue
  <2>2. pc' = pc \/ \E to \in {"write", "done"} : pc' = [pc EXCEPT ![p] = to]
    BY <1>2 DEF ReadIssue
  <2>3. cur' = cur \/ \E note : cur' = [cur EXCEPT ![p] = note]
    BY <1>2 DEF ReadIssue
  <2>4. pc'["merge"] = pc["merge"] /\ DOMAIN pc' = Process
    <3>1. CASE pc' = pc BY <3>1 DEF MergeInv, Shapes
    <3>2. CASE \E to \in {"write", "done"} : pc' = [pc EXCEPT ![p] = to]
      BY <3>2 DEF MergeInv, Shapes
    <3> QED BY <2>2, <3>1, <3>2
  <2>5. cur'["merge"] = cur["merge"] /\ DOMAIN cur' = Process
    <3>1. CASE cur' = cur BY <3>1 DEF MergeInv, Shapes
    <3>2. CASE \E note : cur' = [cur EXCEPT ![p] = note] BY <3>2 DEF MergeInv, Shapes
    <3> QED BY <2>3, <3>1, <3>2
  <2>6. Shapes' BY <2>1, <2>4, <2>5 DEF MergeInv, Shapes
  <2> QED BY <2>1, <2>4, <2>5, <2>6, OthersKeep
<1>3. CASE WriteIssue(p)
  <2>1. /\ proposed' = proposed
        /\ \E to \in {"read", "died"} : pc' = [pc EXCEPT ![p] = to]
        /\ cur' = [cur EXCEPT ![p] = Nothing]
    BY <1>3 DEF WriteIssue
  <2> QED BY <2>1, OthersKeep DEF MergeInv, Shapes
<1> QED BY <1>1, <1>2, <1>3 DEF Branches

LEMMA BuildersAreOthers ==
  ASSUME MergeInv, NEW b \in Builder, GetBranch(b) \/ ReadRb(b) \/ WriteRb(b)
  PROVE  MergeInv'
<1> USE DEF Goto, Read, Forget
<1>1. b # "merge" BY TicketsAssumption DEF Script
<1>2. CASE GetBranch(b) BY <1>1, <1>2, OthersKeep DEF GetBranch, MergeInv, Shapes
<1>3. CASE ReadRb(b) BY <1>1, <1>3, OthersKeep DEF ReadRb, MergeInv, Shapes
<1>4. CASE WriteRb(b) BY <1>1, <1>4, OthersKeep DEF WriteRb, MergeInv, Shapes
<1> QED BY <1>2, <1>3, <1>4

LEMMA LookKeeps ==
  ASSUME MergeInv, LandingTargets
  PROVE  MergeInv'
<1> USE DEF Goto
<1>1. proposed' = proposed BY DEF LandingTargets
<1>2. CASE pc'["merge"] # "write"
  BY <1>1, <1>2 DEF LandingTargets, MergeInv, Shapes, AtMostOne, NoneYet
<1>3. CASE pc'["merge"] = "write"
  <2>1. PICK item \in pending["merge"] :
          /\ ~HasProposal(item)
          /\ pc' = [pc EXCEPT !["merge"] = "write"]
          /\ cur' = [cur EXCEPT !["merge"] = [on |-> None, item |-> item]]
    <3>1. pc["merge"] = "read" \/ pc' = [pc EXCEPT !["merge"] = "died"]
      BY DEF LandingTargets
    <3> QED BY <1>3, <3>1 DEF LandingTargets, MergeInv, Shapes, Process, Script
  <2>2. cur'["merge"].item = item BY <2>1 DEF MergeInv, Shapes, Process, Script
  <2>3. proposed[item[1]] = <<>> BY <2>1 DEF HasProposal
  <2> QED BY <1>1, <2>1, <2>2, <2>3 DEF MergeInv, Shapes, AtMostOne, NoneYet
<1> QED BY <1>2, <1>3

LEMMA ProposeKeeps ==
  ASSUME MergeInv, Propose
  PROVE  MergeInv'
<1> DEFINE item == cur["merge"].item
<1>1. /\ proposed[item[1]] = <<>> /\ pc' = [pc EXCEPT !["merge"] = "read"]
      /\ cur' = [cur EXCEPT !["merge"] = Nothing]
      /\ proposed' \in {proposed, [proposed EXCEPT ![item[1]] = Append(@, item[2])]}
  BY DEF Propose, Goto, Forget, MergeInv, NoneYet
<1>2. Shapes' /\ NoneYet'
  BY <1>1 DEF MergeInv, Shapes, NoneYet, Process, Script
<1>3. Append(<<>>, item[2]) = <<item[2]>>
  <2>1. <<>> \in Seq({item[2]}) OBVIOUS
  <2> QED BY <2>1
<1>4. AtMostOne'
  <2> SUFFICES ASSUME NEW b \in Branch
               PROVE  proposed'[b] = <<>> \/ \E v : proposed'[b] = <<v>>
    BY DEF AtMostOne
  <2>1. CASE proposed'[b] = proposed[b] BY <2>1 DEF MergeInv, AtMostOne
  <2>2. CASE proposed'[b] # proposed[b]
    <3>1. b = item[1] /\ proposed'[b] = Append(proposed[b], item[2])
      BY <1>1, <2>2 DEF MergeInv, Shapes
    <3> QED BY <1>1, <1>3, <3>1
  <2> QED BY <2>1, <2>2
<1> QED BY <1>2, <1>4 DEF MergeInv

LEMMA TicketsStepKeeps ==
  ASSUME MergeInv, [TicketsNext]_ticketsVars
  PROVE  MergeInv'
<1>1. CASE Edit BY <1>1, OthersKeep DEF Edit, MergeInv, Shapes
<1>2. CASE CollectMerges
  BY <1>2 DEF CollectMerges, MergeInv, Shapes, AtMostOne, NoneYet, Process, Script
<1>3. CASE LandingTargets BY <1>3, LookKeeps
<1>4. CASE Propose BY <1>4, ProposeKeeps
<1>5. CASE \E p \in {"lp", "git"} : Branches(p) BY <1>5, BranchesAreOthers
<1>6. CASE \E b \in Builder : GetBranch(b) \/ ReadRb(b) \/ WriteRb(b) BY <1>6, BuildersAreOthers
<1>7. CASE UNCHANGED ticketsVars BY <1>7, OthersKeep DEF ticketsVars, MergeInv, Shapes
<1> QED BY <1>1, <1>2, <1>3, <1>4, <1>5, <1>6, <1>7 DEF TicketsNext, Merge

LEMMA AtMostOneIsOne == MergeInv => OneProposal
<1> SUFFICES ASSUME MergeInv, NEW b \in Branch PROVE Len(proposed[b]) <= 1
  BY DEF OneProposal
<1>1. CASE proposed[b] = <<>> BY <1>1
<1>2. CASE \E v : proposed[b] = <<v>> BY <1>2
<1> QED BY <1>1, <1>2 DEF MergeInv, AtMostOne

\* No branch is proposed for merging twice (create_merge_proposal.py:54-81).
THEOREM NeverTwice == TicketsSpec => []OneProposal
<1>1. TicketsInit => MergeInv BY MergeInit
<1>2. MergeInv /\ [TicketsNext]_ticketsVars => MergeInv' BY TicketsStepKeeps
<1>3. MergeInv => OneProposal BY AtMostOneIsOne
<1> QED BY <1>1, <1>2, <1>3, PTL DEF TicketsSpec

-----------------------------------------------------------------------------
(***************************************************************************)
(* What a script writes is decided from the ticket as it read it.  As long *)
(* as nobody has written the ticket since, that is the ticket as it is.    *)
(***************************************************************************)
Fields == Component \cup {"dev", "assignee", "status", "rb"}

\* p holds a ticket it has read
Holds(p) ==
  /\ cur[p] # Nothing
  /\ cur[p].on \in Ticket
  /\ p \notin stale => cur[p].was = ticket[cur[p].on]
  /\ p \in Builder => cur[p].on = BuildOf[p]
  /\ p \in {"lp", "git"} => cur[p].item \subseteq Branch

SeenInv ==
  /\ DOMAIN ticket = Ticket /\ \A t \in Ticket : DOMAIN ticket[t] = Fields
  /\ DOMAIN pc = Process /\ DOMAIN cur = Process /\ DOMAIN pending = Script
  /\ \A p \in {"lp", "git"} : pending[p] \subseteq (SUBSET Branch) \ {{}}
  /\ edits \in Nat
  /\ \A p \in Process \ {"merge"} : pc[p] = "write" => Holds(p)

LEMMA SeenInit == TicketsInit => SeenInv
BY TicketsAssumption DEF TicketsInit, SeenInv, Fields, Component, TicketRecord, Process, Script

\* The steps of merge leave what the others hold alone.
LEMMA MergeSees ==
  ASSUME SeenInv, Merge
  PROVE  SeenInv'
<1> USE DEF SeenInv, Holds, Goto, Forget, Process, Script
<1>1. CASE CollectMerges
  BY <1>1 DEF CollectMerges
<1>2. CASE LandingTargets
  <2>1. /\ ticket' = ticket /\ stale' = stale /\ edits' = edits
        /\ DOMAIN pc' = Process /\ DOMAIN cur' = Process /\ DOMAIN pending' = Script
        /\ \A p \in Process \ {"merge"} : pc'[p] = pc[p] /\ cur'[p] = cur[p]
        /\ \A p \in {"lp", "git"} : pending'[p] = pending[p]
    BY <1>2 DEF LandingTargets
  <2> QED BY <2>1
<1>3. CASE Propose
  BY <1>3 DEF Propose
<1> QED BY <1>1, <1>2, <1>3 DEF Merge

\* A write makes what others hold of the ticket stale, unless it changes nothing.
LEMMA WriteLeaves ==
  ASSUME SeenInv, NEW p, NEW t \in Ticket, NEW new, WriteTicket(p, t, new),
         DOMAIN new = Fields, NEW q \in Process \ {"merge", p}, pc[q] = "write",
         cur'[q] = cur[q]
  PROVE  Holds(q)'
<1>1. Holds(q)
  BY DEF SeenInv
<1>2. CASE q \in stale'
  BY <1>1, <1>2 DEF Holds
<1>3. CASE q \notin stale'
  <2>1. q \notin stale /\ (new = ticket[t] \/ cur[q].on # t)
    BY <1>1, <1>3 DEF WriteTicket, Holds
  <2>2. ticket'[cur[q].on] = ticket[cur[q].on]
    BY <2>1 DEF WriteTicket, SeenInv
  <2> QED BY <1>1, <2>1, <2>2 DEF Holds
<1> QED BY <1>2, <1>3

LEMMA WriteKeepsFields ==
  ASSUME SeenInv, NEW p, NEW t \in Ticket, NEW new, WriteTicket(p, t, new), DOMAIN new = Fields
  PROVE  DOMAIN ticket' = Ticket /\ \A u \in Ticket : DOMAIN ticket'[u] = Fields
BY DEF WriteTicket, SeenInv

LEMMA EditSees ==
  ASSUME SeenInv, Edit
  PROVE  SeenInv' /\ edits' # edits
<1>1. PICK t \in Ticket :
        \/ \E c \in Component, b \in Branch \cup {None} : WriteTicket(None, t, [ticket[t] EXCEPT ![c] = b])
        \/ \E d \in Dev \cup {None} : WriteTicket(None, t, [ticket[t] EXCEPT !.assignee = d])
        \/ \E s \in Status : WriteTicket(None, t, [ticket[t] EXCEPT !.status = s])
  BY DEF Edit
<1>2. PICK new : WriteTicket(None, t, new) /\ DOMAIN new = Fields
  <2>1. \A f, x : DOMAIN [ticket[t] EXCEPT ![f] = x] = Fields
    BY DEF SeenInv
  <2>2. \A x : /\ DOMAIN [ticket[t] EXCEPT !.assignee = x] = Fields
               /\ DOMAIN [ticket[t] EXCEPT !.status = x] = Fields
    BY Zenon DEF SeenInv
  <2> QED BY <1>1, <2>1, <2>2, Zenon
<1>3. edits' = edits + 1 /\ UNCHANGED <<pc, pending, cur>>
  BY DEF Edit
<1>4. None \notin Process
  BY TicketsAssumption
<1>5. \A q \in Process \ {"merge"} : pc[q] = "write" => Holds(q)'
  BY <1>2, <1>3, <1>4, WriteLeaves
<1>6. DOMAIN ticket' = Ticket /\ \A u \in Ticket : DOMAIN ticket'[u] = Fields
  BY <1>2, WriteKeepsFields
<1> QED BY <1>3, <1>5, <1>6 DEF SeenInv

LEMMA CollectedBranches ==
  ASSUME NEW p \in {"lp", "git"}, NEW recent \in SUBSET Branch
  PROVE  Collected(p, recent) \subseteq (SUBSET Branch) \ {{}}
<1>1. CASE p = "git"
  BY <1>1 DEF Collected
<1>2. CASE p # "git"
  <2> DEFINE mine == {b \in recent : Info[b].comp # "git"}
  <2>1. Collected(p, recent) =
          {{b \in mine : Info[b].ticket = t} : t \in {Info[b].ticket : b \in mine}}
    BY <1>2 DEF Collected
  <2>2. ASSUME NEW c \in mine
        PROVE  {b \in mine : Info[b].ticket = Info[c].ticket} \in (SUBSET Branch) \ {{}}
    OBVIOUS
  <2> QED BY <2>1, <2>2
<1> QED BY <1>1, <1>2

\* What a process has just read is not stale.
LEMMA ReadSees ==
  ASSUME SeenInv, NEW p \in Process \ {"merge"}, NEW t \in Ticket, NEW item, Read(p, t, item),
         ticket' = ticket, edits' = edits, pc' = [pc EXCEPT ![p] = "write"],
         p \in Builder => t = BuildOf[p],
         p \in {"lp", "git"} => item \subseteq Branch,
         DOMAIN pending' = Script,
         \A q \in {"lp", "git"} : pending'[q] \subseteq (SUBSET Branch) \ {{}}
  PROVE  SeenInv'
<1>1. ASSUME NEW q \in Process \ {"merge"}, pc'[q] = "write"
      PROVE  Holds(q)'
  <2>1. CASE q = p
    <3> DEFINE note == [on |-> t, was |-> ticket[t], item |-> item]
    <3>1. cur'[p] = note /\ p \notin stale'
      BY DEF Read, SeenInv
    <3>2. note # Nothing
      <4>1. note.on = t /\ "on" \in DOMAIN note /\ "on" \notin DOMAIN Nothing
        BY DEF Nothing
      <4> QED BY <4>1
    <3> QED BY <2>1, <3>1, <3>2 DEF Holds
  <2>2. CASE q # p
    BY <1>1, <2>2 DEF SeenInv, Holds, Read
  <2> QED BY <2>1, <2>2
<1> QED BY <1>1 DEF SeenInv, Read

LEMMA BranchesSee ==
  ASSUME SeenInv, NEW p \in {"lp", "git"}, Collect(p) \/ ReadIssue(p)
  PROVE  SeenInv' /\ ticket' = ticket
<1>1. CASE Collect(p)
  <2>0. PICK recent \in Windows : pending' = [pending EXCEPT ![p] = Collected(p, recent)]
    BY <1>1 DEF Collect
  <2>1. \A q \in {"lp", "git"} : pending'[q] \subseteq (SUBSET Branch) \ {{}}
    <3>1. recent \in SUBSET Branch BY <2>0, TicketsAssumption
    <3> QED BY <2>0, <3>1, CollectedBranches DEF SeenInv, Script
  <2> QED BY <1>1, <2>1 DEF Collect, SeenInv, Holds
<1>2. ASSUME NEW item \in pending[p],
             pending' = [pending EXCEPT ![p] = @ \ {item}],
             IF TicketOf(item) \in Deleted
             THEN pc[p] = "read" /\ UNCHANGED <<pc, cur, stale>>
             ELSE Goto(p, "read", "write") /\ Read(p, TicketOf(item), item),
             UNCHANGED <<ticket, proposed, edits>>
      PROVE  SeenInv'
  <2>1. item \subseteq Branch /\ item # {}
    BY DEF SeenInv
  <2>2. TicketOf(item) \in Ticket
    BY <2>1, TicketsAssumption DEF TicketOf
  <2>3. DOMAIN pending' = Script /\ \A q \in {"lp", "git"} : pending'[q] \subseteq (SUBSET Branch) \ {{}}
    BY <1>2 DEF SeenInv, Script
  <2>4. CASE TicketOf(item) \in Deleted
    BY <1>2, <2>3, <2>4 DEF SeenInv, Holds
  <2>5. CASE TicketOf(item) \notin Deleted
    <3>1. p \in Process \ {"merge"} /\ p \notin Builder
      BY TicketsAssumption DEF Process, Script
    <3> QED BY <1>2, <2>1, <2>2, <2>3, <2>5, <3>1, ReadSees DEF Goto
  <2> QED BY <2>4, <2>5
<1>3. CASE pending[p] = {} /\ Goto(p, "read", "done") /\ UNCHANGED <<ticket, pending, cur, stale, proposed, edits>>
  BY <1>3 DEF SeenInv, Holds, Goto
<1>4. ReadIssue(p) => ticket' = ticket
  BY DEF ReadIssue
<1> QED BY <1>1, <1>2, <1>3, <1>4 DEF ReadIssue, Collect

\* What WriteIssue puts on a ticket: fields that were empty when it was read,
\* no server branch beside a grouped one.
LEMMA WrittenWasEmpty ==
  ASSUME NEW p, NEW item, NEW was, item \subseteq Branch
  PROVE  /\ DOMAIN ToWrite(p, item, was) \subseteq Component \cup {"dev"}
         /\ \A f \in DOMAIN ToWrite(p, item, was) : was[f] = None
         /\ "server" \in DOMAIN ToWrite(p, item, was) => was.git = None
<1> DEFINE mine == {b \in item : Info[b].dev = was.assignee}
           Free(c) == IF c = "server" THEN was.git = None /\ was.server = None ELSE was[c] = None
           fields == {c \in {Info[b].comp : b \in mine} : Free(c)}
           values == [c \in fields |-> CHOOSE b \in mine : Info[b].comp = c]
           all == IF fields = {} \/ was.dev # None THEN values
                  ELSE [f \in fields \cup {"dev"} |-> IF f = "dev" THEN was.assignee ELSE values[f]]
<1>1. ToWrite(p, item, was) = all
  BY DEF ToWrite
<1>2. fields \subseteq Component
  BY TicketsAssumption
<1>3. \A f \in fields : was[f] = None
  OBVIOUS
<1>4. "server" \in fields => was.git = None
  OBVIOUS
<1>5. "dev" \notin Component /\ "server" # "dev"
  BY DEF Component
<1>6. CASE fields = {} \/ was.dev # None
  <2>1. DOMAIN all = fields BY <1>6
  <2> HIDE DEF all, fields
  <2> QED BY <1>1, <1>2, <1>3, <1>4, <2>1
<1>7. CASE ~(fields = {} \/ was.dev # None)
  <2>1. DOMAIN all = fields \cup {"dev"} BY <1>7
  <2>2. was.dev = None BY <1>7
  <2> HIDE DEF all, fields
  <2> QED BY <1>1, <1>2, <1>3, <1>4, <1>5, <2>1, <2>2
<1> QED BY <1>6, <1>7

\* a write that respects what is on the ticket
Respects(old, new) ==
  /\ \A f \in Component \cup {"dev"} : old[f] = None \/ new[f] = old[f]
  /\ old.git # None => new.server = old.server
  /\ old.rb \subseteq new.rb

LEMMA OverRespects ==
  ASSUME NEW old, DOMAIN old = Fields, NEW fields, DOMAIN fields \subseteq Component \cup {"dev"},
         \A f \in DOMAIN fields : old[f] = None,
         "server" \in DOMAIN fields => old.git = None, NEW s
  PROVE  /\ Respects(old, [Over(fields, old) EXCEPT !.status = s])
         /\ DOMAIN [Over(fields, old) EXCEPT !.status = s] = Fields
<1> DEFINE over == Over(fields, old)
           new == [over EXCEPT !.status = s]
<1>1. /\ DOMAIN over = Fields
      /\ \A f \in Fields : over[f] = IF f \in DOMAIN fields THEN fields[f] ELSE old[f]
  BY DEF Over
<1> HIDE DEF over
<1>2. DOMAIN new = Fields /\ \A f \in Fields \ {"status"} : new[f] = over[f]
  BY <1>1
<1> HIDE DEF new
<1>3. Respects(old, new)
  BY <1>1, <1>2 DEF Respects, Fields, Component
<1> QED BY <1>2, <1>3 DEF new, over

\* A process that writes what it decided gives up what it holds.
LEMMA WriterSees ==
  ASSUME SeenInv, NEW p \in Process \ {"merge"}, NEW t \in Ticket, NEW new,
         WriteTicket(p, t, new), DOMAIN new = Fields, Forget(p),
         NEW to \in {"read", "done", "died"}, pc' = [pc EXCEPT ![p] = to],
         UNCHANGED <<pending, edits>>
  PROVE  SeenInv'
<1>1. ASSUME NEW q \in Process \ {"merge"}, pc'[q] = "write"
      PROVE  Holds(q)'
  <2>1. q # p /\ pc[q] = "write" /\ cur'[q] = cur[q]
    BY <1>1 DEF SeenInv, Forget
  <2> QED BY <2>1, WriteLeaves
<1> QED BY <1>1, WriteKeepsFields DEF SeenInv, Forget

StandsOf(t) ==
  \/ edits' # edits
  \/ \E p \in stale : cur[p] # Nothing /\ cur[p].on = t /\ pc'[p] # pc[p]
  \/ Respects(ticket[t], ticket'[t])

LEMMA SameStands ==
  ASSUME SeenInv, ticket' = ticket, NEW t \in Ticket
  PROVE  StandsOf(t)
BY DEF StandsOf, Respects, SeenInv

LEMMA WriteIssueSees ==
  ASSUME SeenInv, NEW p \in {"lp", "git"}, WriteIssue(p)
  PROVE  SeenInv' /\ \A t \in Ticket : StandsOf(t)
<1> DEFINE on == cur[p].on
           was == cur[p].was
           fields == ToWrite(p, cur[p].item, was)
           s == IF was.status = "Open" THEN "In Progress" ELSE Over(fields, ticket[on]).status
           new == [Over(fields, ticket[on]) EXCEPT !.status = s]
<1>1. p \in Process \ {"merge"} /\ pc[p] = "write" /\ Forget(p) /\ UNCHANGED <<pending, edits>>
  BY DEF WriteIssue, Process, Script
<1>2. Holds(p)
  BY <1>1 DEF SeenInv
<1>3. CASE UNCHANGED <<ticket, stale>> /\ \E to \in {"read", "died"} : pc' = [pc EXCEPT ![p] = to]
  <2>1. \A q \in Process \ {"merge"} : pc'[q] = "write" => pc[q] = "write" /\ cur'[q] = cur[q]
    BY <1>1, <1>3 DEF SeenInv, Forget
  <2> QED BY <1>1, <1>3, <2>1, SameStands DEF SeenInv, Holds, Forget
<1>4. CASE WriteTicket(p, on, new) /\ \E to \in {"read", "died"} : pc' = [pc EXCEPT ![p] = to]
  <2> HIDE DEF s
  <2>1. /\ DOMAIN fields \subseteq Component \cup {"dev"}
        /\ \A f \in DOMAIN fields : was[f] = None
        /\ "server" \in DOMAIN fields => was.git = None
    <3>1. cur[p].item \subseteq Branch BY <1>2 DEF Holds
    <3> QED BY <3>1, WrittenWasEmpty
  <2>2. on \in Ticket /\ DOMAIN ticket[on] = Fields
    BY <1>2 DEF Holds, SeenInv
  <2> HIDE DEF fields
  <2>3. DOMAIN new = Fields
    <3>1. DOMAIN Over(fields, ticket[on]) = Fields BY <2>2 DEF Over
    <3> QED BY <3>1
  <2>4. SeenInv'
    <3> HIDE DEF new, on
    <3> QED BY <1>1, <1>4, <2>2, <2>3, WriterSees
  <2>5. ASSUME NEW t \in Ticket PROVE StandsOf(t)
    <3>1. CASE t # on
      <4>1. ticket'[t] = ticket[t] BY <1>4, <2>2, <2>5, <3>1 DEF WriteTicket, SeenInv
      <4> QED BY <4>1 DEF StandsOf, Respects
    <3>2. CASE t = on /\ p \in stale
      <4>1. pc'[p] # pc[p] BY <1>1, <1>4 DEF SeenInv
      <4> QED BY <1>2, <3>2, <4>1 DEF StandsOf, Holds
    <3>3. CASE t = on /\ p \notin stale
      <4>1. was = ticket[on] BY <1>2, <3>3 DEF Holds
      <4>2. Respects(ticket[on], new)
        <5>1. /\ \A f \in DOMAIN fields : ticket[on][f] = None
              /\ "server" \in DOMAIN fields => ticket[on].git = None
          BY <2>1, <4>1
        <5> HIDE DEF on, was
        <5> QED BY <2>1, <2>2, <5>1, OverRespects
      <4>3. ticket'[on] = new BY <1>4, <2>2 DEF WriteTicket, SeenInv
      <4> QED BY <3>3, <4>2, <4>3 DEF StandsOf
    <3> QED BY <3>1, <3>2, <3>3
  <2> QED BY <2>4, <2>5
<1> QED BY <1>3, <1>4 DEF WriteIssue, Goto

LEMMA BuildersSee ==
  ASSUME SeenInv, NEW b \in Builder, GetBranch(b) \/ ReadRb(b) \/ WriteRb(b)
  PROVE  SeenInv' /\ \A t \in Ticket : StandsOf(t)
<1>1. b \in Process \ {"merge"} /\ b \notin {"lp", "git"} /\ BuildOf[b] \in Ticket
  BY TicketsAssumption DEF Process, Script
<1>2. CASE GetBranch(b)
  <2>1. \E to \in {"died", "rb"} : pc' = [pc EXCEPT ![b] = to]
    BY <1>2 DEF GetBranch, Goto
  <2>2. UNCHANGED <<ticket, pending, cur, stale, edits>>
    BY <1>2 DEF GetBranch
  <2> QED BY <1>1, <2>1, <2>2, SameStands DEF SeenInv, Holds
<1>3. CASE ReadRb(b)
  <2>1. SeenInv'
    BY <1>1, <1>3, ReadSees DEF ReadRb, Goto, SeenInv
  <2> QED BY <1>3, <2>1, SameStands DEF ReadRb
<1>4. CASE WriteRb(b)
  <2> DEFINE t == BuildOf[b]
             new == [ticket[t] EXCEPT !.rb = cur[b].was.rb \cup {b}]
  <2>1. /\ pc[b] = "write" /\ pc' = [pc EXCEPT ![b] = "done"]
        /\ WriteTicket(b, t, new) /\ Forget(b) /\ UNCHANGED <<pending, edits>>
    BY <1>4 DEF WriteRb, Goto
  <2>2. DOMAIN new = Fields /\ new.rb = cur[b].was.rb \cup {b}
        /\ \A f \in Fields \ {"rb"} : new[f] = ticket[t][f]
    BY <1>1 DEF SeenInv, Fields
  <2>3. SeenInv'
    <3> HIDE DEF new
    <3> QED BY <1>1, <2>1, <2>2, WriterSees
  <2>4. Holds(b) /\ cur[b].on = t
    BY <1>1, <2>1 DEF SeenInv, Holds
  <2>5. ASSUME NEW u \in Ticket PROVE StandsOf(u)
    <3>1. CASE u # t
      <4>1. ticket'[u] = ticket[u] BY <1>1, <2>1, <2>5, <3>1 DEF WriteTicket, SeenInv
      <4> QED BY <4>1 DEF StandsOf, Respects
    <3>2. CASE u = t /\ b \in stale
      <4>1. pc'[b] # pc[b] BY <1>1, <2>1 DEF SeenInv
      <4> QED BY <2>4, <3>2, <4>1 DEF StandsOf, Holds
    <3>3. CASE u = t /\ b \notin stale
      <4>1. cur[b].was = ticket[t] BY <2>4, <3>3 DEF Holds
      <4>2. ticket[t].rb \subseteq new.rb BY <2>2, <4>1
      <4> HIDE DEF new
      <4>3. Respects(ticket[t], new)
        BY <2>2, <4>2 DEF Respects, Fields, Component
      <4>4. ticket'[t] = new BY <1>1, <2>1 DEF WriteTicket, SeenInv
      <4> QED BY <3>3, <4>3, <4>4 DEF StandsOf
    <3> QED BY <3>1, <3>2, <3>3
  <2> QED BY <2>3, <2>5
<1> QED BY <1>2, <1>3, <1>4

LEMMA TicketsStepSees ==
  ASSUME SeenInv, TicketsNext
  PROVE  SeenInv' /\ \A t \in Ticket : StandsOf(t)
<1>1. CASE Edit BY <1>1, EditSees DEF StandsOf
<1>2. CASE Merge
  <2>1. ticket' = ticket BY <1>2 DEF Merge, CollectMerges, LandingTargets, Propose
  <2> QED BY <1>2, <2>1, MergeSees, SameStands
<1>3. CASE \E p \in {"lp", "git"} : Collect(p) \/ ReadIssue(p) BY <1>3, BranchesSee, SameStands
<1>4. CASE \E p \in {"lp", "git"} : WriteIssue(p) BY <1>4, WriteIssueSees
<1>5. CASE \E b \in Builder : GetBranch(b) \/ ReadRb(b) \/ WriteRb(b) BY <1>5, BuildersSee
<1> QED BY <1>1, <1>2, <1>3, <1>4, <1>5 DEF TicketsNext, Branches

\* Whatever the tickets, branches and people, no script replaces a branch or a
\* developer it saw, gives a server branch to a ticket it saw with a grouped
\* one, or loses a runbot it saw (set_jira_branches.py:53-91, set_rb.py:27-44).
THEOREM WritesStand == TicketsSpec => SeenFieldsStand
<1>1. SeenInv /\ [TicketsNext]_ticketsVars => SeenInv'
  <2>1. CASE UNCHANGED ticketsVars BY <2>1 DEF ticketsVars, SeenInv, Holds
  <2> QED BY <2>1, TicketsStepSees
<1>2. SeenInv /\ [TicketsNext]_ticketsVars =>
        [\A t \in Ticket :
           \/ edits' # edits
           \/ \E p \in stale : cur[p] # Nothing /\ cur[p].on = t /\ pc'[p] # pc[p]
           \/ /\ \A f \in Component \cup {"dev"} :
                   ticket[t][f] = None \/ ticket'[t][f] = ticket[t][f]
              /\ ticket[t].git # None => ticket'[t].server = ticket[t].server
              /\ ticket[t].rb \subseteq ticket'[t].rb]_ticketsVars
  BY TicketsStepSees DEF StandsOf, Respects
<1> QED BY <1>1, <1>2, SeenInit, PTL DEF TicketsSpec, SeenFieldsStand

-----------------------------------------------------------------------------
(***************************************************************************)
(* What make_patch.py has put in the lists is given by the files it has    *)
(* looked at.  When no two paths have one name, `seen` is about paths, and *)
(* a name is written or deleted for one file only.                         *)
(***************************************************************************)
OldFiles == DOMAIN oldTree \ Log
NewFiles == DOMAIN newTree \ Log

Names(paths) == {Dest[p] : p \in paths}

OldDone == IF walk = "old" THEN OldFiles \ left ELSE OldFiles
NewDone == IF walk = "old" THEN {} ELSE IF walk = "new" THEN NewFiles \ left ELSE NewFiles

\* changed, or not in the old tree
Zipped ==
  {p \in OldDone \cap DOMAIN newTree : newTree[p] # oldTree[p]} \cup (NewDone \ DOMAIN oldTree)

ListsRight ==
  /\ seen = Names(OldDone) \ Kept
  /\ deleted = Names(OldDone \ (DOMAIN newTree \cup newDirs)) \ Kept
  /\ folders = Names(OldDone \cap newDirs) \ Kept
  /\ DOMAIN zip = (Names(Zipped) \ Kept) \cup (IF walk = "done" THEN {Release} ELSE {})
  /\ \A p \in Zipped : Dest[p] \notin Kept => zip[Dest[p]] = newTree[p]

PatchInv ==
  /\ walk \in {"old", "new", "end", "done", "failed"}
  /\ newDirs \cap DOMAIN newTree = {}
  /\ walk = "old" => left \subseteq OldFiles
  /\ walk = "new" => left \subseteq NewFiles
  /\ walk \in {"end", "done"} => ReleasePath \in NewFiles
  /\ walk = "done" => zip[Release] = newTree[ReleasePath]
  /\ OneName => ListsRight

LEMMA PatchStartRight ==
  ASSUME NEW o \in Tree, NEW n \in Tree, NEW dirs \in SUBSET Path, PatchStart(o, n, dirs)
  PROVE  PatchInv
<1>1. OldDone = {} /\ NewDone = {} /\ Zipped = {}
  BY DEF PatchStart, OldDone, NewDone, Zipped, OldFiles
<1>2. /\ DOMAIN zip = {} /\ seen = {} /\ deleted = {} /\ folders = {}
      /\ walk = "old" /\ left = OldFiles /\ newDirs \cap DOMAIN newTree = {}
  BY DEF PatchStart, OldFiles
<1> QED BY <1>1, <1>2 DEF PatchInv, ListsRight, Names

\* One more file is written under its name.
LEMMA WriteFacts ==
  ASSUME NEW d, NEW c, Write(d, c)
  PROVE  /\ DOMAIN zip' = DOMAIN zip \cup {d}
         /\ zip'[d] = c
         /\ \A x \in DOMAIN zip \ {d} : zip'[x] = zip[x]
BY DEF Write

LEMMA WalkOldRight ==
  ASSUME PatchInv, WalkOld
  PROVE  PatchInv'
<1>1. PICK p \in left :
        /\ left' = left \ {p}
        /\ IF Dest[p] \in Kept THEN UNCHANGED <<seen, deleted, zip, folders>>
           ELSE /\ seen' = seen \cup {Dest[p]}
                /\ deleted' = IF p \in DOMAIN newTree \cup newDirs THEN deleted
                              ELSE deleted \cup {Dest[p]}
                /\ folders' = IF p \in newDirs THEN folders \cup {Dest[p]} ELSE folders
                /\ IF p \in DOMAIN newTree /\ newTree[p] # oldTree[p]
                   THEN Write(Dest[p], newTree[p]) ELSE UNCHANGED zip
  BY DEF WalkOld
<1>2. /\ walk = "old" /\ walk' = "old" /\ newDirs' = newDirs
      /\ oldTree' = oldTree /\ newTree' = newTree
  BY DEF WalkOld, trees
<1>3. p \in OldFiles /\ left \subseteq OldFiles /\ OneName' = OneName
  BY <1>1, <1>2 DEF PatchInv, OneName
<1>4. OldDone' = OldDone \cup {p} /\ p \notin OldDone /\ OldDone \subseteq OldFiles
  BY <1>1, <1>2, <1>3 DEF OldDone, OldFiles
<1>5. /\ Zipped' = IF p \in DOMAIN newTree /\ newTree[p] # oldTree[p] THEN Zipped \cup {p} ELSE Zipped
      /\ Zipped \subseteq OldDone
  BY <1>2, <1>4 DEF Zipped, NewDone
<1>6. ASSUME OneName
      PROVE  ListsRight'
  <2>0. ListsRight /\ OneName' BY <1>3, <1>6 DEF PatchInv
  <2>1. \A q \in OldDone : Dest[q] # Dest[p]
    BY <1>3, <1>4, <1>6 DEF OneName, OldFiles
  <2>2. seen' = Names(OldDone') \ Kept
    BY <1>1, <1>4, <2>0 DEF ListsRight, Names
  <2>3. /\ deleted' = Names(OldDone' \ (DOMAIN newTree' \cup newDirs')) \ Kept
        /\ folders' = Names(OldDone' \cap newDirs') \ Kept
    BY <1>1, <1>2, <1>4, <2>0 DEF ListsRight, Names
  <2>4. DOMAIN zip' = Names(Zipped') \ Kept
    <3>1. DOMAIN zip = Names(Zipped) \ Kept
      BY <1>2, <2>0 DEF ListsRight
    <3>2. CASE p \in Zipped' /\ Dest[p] \notin Kept
      <4>1. DOMAIN zip' = DOMAIN zip \cup {Dest[p]}
        BY <1>1, <1>4, <1>5, <3>2, WriteFacts
      <4>2. Zipped' = Zipped \cup {p}
        BY <1>5, <3>2
      <4> QED BY <3>1, <3>2, <4>1, <4>2 DEF Names
    <3>3. CASE p \notin Zipped' \/ Dest[p] \in Kept
      <4>1. zip' = zip
        BY <1>1, <1>4, <1>5, <3>3
      <4>2. Zipped' = Zipped \/ (Zipped' = Zipped \cup {p} /\ Dest[p] \in Kept)
        BY <1>5, <3>3
      <4> QED BY <3>1, <4>1, <4>2 DEF Names
    <3> QED BY <3>2, <3>3
  <2>5. ASSUME NEW q \in Zipped', Dest[q] \notin Kept
        PROVE  zip'[Dest[q]] = newTree'[q]
    <3>1. CASE q \in Zipped
      <4>1. Dest[q] # Dest[p] /\ Dest[q] \in DOMAIN zip /\ zip[Dest[q]] = newTree[q]
        BY <1>2, <1>5, <2>0, <2>1, <2>5, <3>1 DEF ListsRight, Names
      <4> QED BY <1>1, <1>2, <4>1, WriteFacts
    <3>2. CASE q \notin Zipped
      <4>1. q = p /\ p \in DOMAIN newTree /\ newTree[p] # oldTree[p]
        BY <1>5, <2>5, <3>2
      <4> QED BY <1>1, <1>2, <2>5, <4>1, WriteFacts
    <3> QED BY <3>1, <3>2
  <2> QED BY <1>2, <2>2, <2>3, <2>4, <2>5 DEF ListsRight
<1> QED BY <1>1, <1>2, <1>3, <1>6 DEF PatchInv, OldFiles

LEMMA WalkNewRight ==
  ASSUME PatchInv, WalkNew
  PROVE  PatchInv'
<1>1. PICK p \in left :
        /\ left' = left \ {p}
        /\ IF Dest[p] \in Kept \cup seen THEN UNCHANGED zip ELSE Write(Dest[p], newTree[p])
  BY DEF WalkNew
<1>2. /\ walk = "new" /\ walk' = "new" /\ oldTree' = oldTree /\ newTree' = newTree
      /\ newDirs' = newDirs /\ seen' = seen /\ deleted' = deleted /\ folders' = folders
  BY DEF WalkNew, trees
<1>3. p \in NewFiles /\ left \subseteq NewFiles /\ OneName' = OneName
  BY <1>1, <1>2 DEF PatchInv, OneName
<1>4. /\ NewDone' = NewDone \cup {p} /\ p \notin NewDone /\ NewDone \subseteq NewFiles
      /\ OldDone' = OldDone /\ OldDone = OldFiles
  BY <1>1, <1>2, <1>3 DEF NewDone, NewFiles, OldDone, OldFiles
<1>5. /\ Zipped' = IF p \notin DOMAIN oldTree THEN Zipped \cup {p} ELSE Zipped
      /\ Zipped \subseteq NewFiles
  BY <1>2, <1>4 DEF Zipped, OldFiles, NewFiles
<1>6. ASSUME OneName
      PROVE  ListsRight'
  <2>0. ListsRight /\ OneName' BY <1>3, <1>6 DEF PatchInv
  <2>1. Dest[p] \notin Kept => (Dest[p] \in seen <=> p \in DOMAIN oldTree)
    BY <1>3, <1>4, <1>6, <2>0 DEF ListsRight, Names, OneName, OldFiles, NewFiles
  <2>2. \A q \in Zipped : Dest[q] = Dest[p] => q = p
    BY <1>3, <1>5, <1>6 DEF OneName, NewFiles
  <2>3. DOMAIN zip' = Names(Zipped') \ Kept
    <3>1. DOMAIN zip = Names(Zipped) \ Kept
      BY <1>2, <2>0 DEF ListsRight
    <3>2. CASE p \notin DOMAIN oldTree /\ Dest[p] \notin Kept
      <4>1. DOMAIN zip' = DOMAIN zip \cup {Dest[p]}
        BY <1>1, <2>1, <3>2, WriteFacts
      <4>2. Zipped' = Zipped \cup {p}
        BY <1>5, <3>2
      <4> QED BY <3>1, <3>2, <4>1, <4>2 DEF Names
    <3>3. CASE p \in DOMAIN oldTree \/ Dest[p] \in Kept
      <4>1. zip' = zip
        BY <1>1, <2>1, <3>3
      <4>2. Zipped' = Zipped \/ (Zipped' = Zipped \cup {p} /\ Dest[p] \in Kept)
        BY <1>5, <3>3
      <4> QED BY <3>1, <4>1, <4>2 DEF Names
    <3> QED BY <3>2, <3>3
  <2>4. ASSUME NEW q \in Zipped', Dest[q] \notin Kept
        PROVE  zip'[Dest[q]] = newTree'[q]
    <3>1. CASE q = p
      <4>1. CASE Dest[p] \in seen
        BY <1>1, <1>2, <1>5, <2>0, <2>1, <2>4, <3>1, <4>1 DEF ListsRight
      <4>2. CASE Dest[p] \notin seen
        BY <1>1, <1>2, <2>4, <3>1, <4>2, WriteFacts
      <4> QED BY <4>1, <4>2
    <3>2. CASE q # p
      <4>1. q \in Zipped /\ Dest[q] # Dest[p] BY <1>5, <2>2, <2>4, <3>2
      <4>2. Dest[q] \in DOMAIN zip /\ zip[Dest[q]] = newTree[q]
        BY <1>2, <2>0, <2>4, <4>1 DEF ListsRight, Names
      <4> QED BY <1>1, <1>2, <4>1, <4>2, WriteFacts
    <3> QED BY <3>1, <3>2
  <2> QED BY <1>2, <1>4, <2>0, <2>3, <2>4 DEF ListsRight
<1> QED BY <1>1, <1>2, <1>3, <1>6 DEF PatchInv, NewFiles

\* Between the walks nothing is listed.
LEMMA WalkedRight ==
  ASSUME PatchInv, WalkedOld \/ WalkedNew
  PROVE  PatchInv'
<1>1. /\ oldTree' = oldTree /\ newTree' = newTree /\ newDirs' = newDirs
      /\ seen' = seen /\ deleted' = deleted /\ zip' = zip /\ folders' = folders
  BY DEF WalkedOld, WalkedNew, trees
<1>2. walk \in {"old", "new"} /\ walk' \in {"new", "end", "failed"}
  BY DEF WalkedOld, WalkedNew
<1>3. OldDone' = OldDone /\ NewDone' = NewDone
  BY <1>1, <1>2 DEF WalkedOld, WalkedNew, OldDone, NewDone, OldFiles, NewFiles
<1>4. Zipped' = Zipped /\ OneName' = OneName
  BY <1>1, <1>3 DEF Zipped, OneName
<1>5. ListsRight => ListsRight'
  BY <1>1, <1>2, <1>3, <1>4 DEF ListsRight
<1>6. /\ walk' = "new" => left' \subseteq NewFiles'
      /\ walk' \in {"end", "done"} => ReleasePath \in NewFiles'
  BY <1>1, <1>2, PatchAssumption DEF WalkedOld, WalkedNew, NewFiles
<1> QED BY <1>1, <1>2, <1>4, <1>5, <1>6 DEF PatchInv

LEMMA AddReleaseRight ==
  ASSUME PatchInv, AddRelease
  PROVE  PatchInv'
<1>1. /\ oldTree' = oldTree /\ newTree' = newTree /\ newDirs' = newDirs
      /\ seen' = seen /\ deleted' = deleted /\ folders' = folders
      /\ walk = "end" /\ walk' = "done" /\ Write(Release, newTree[ReleasePath])
  BY DEF AddRelease, trees
<1>2. OldDone' = OldDone /\ NewDone' = NewDone /\ NewFiles' = NewFiles
  BY <1>1 DEF OldDone, NewDone, OldFiles, NewFiles
<1>3. Zipped' = Zipped /\ OneName' = OneName
  BY <1>1, <1>2 DEF Zipped, OneName
<1>4. ListsRight => ListsRight'
  BY <1>1, <1>2, <1>3, WriteFacts, PatchAssumption DEF ListsRight, Names
<1> QED BY <1>1, <1>2, <1>3, <1>4, WriteFacts DEF PatchInv

\* By its lists, an installed old tree becomes the new one.
LEMMA ListsUpgrade == PatchInv => PatchUpgrades
<1> SUFFICES ASSUME PatchInv, walk = "done", OneName PROVE PatchUpgrades
  BY DEF PatchUpgrades
<1>1. /\ ListsRight /\ OldDone = OldFiles /\ NewDone = NewFiles
      /\ ReleasePath \in NewFiles /\ newDirs \cap DOMAIN newTree = {}
  BY DEF PatchInv, OldDone, NewDone
<1> DEFINE got == Patched(Installed(oldTree))
           want == Installed(newTree)
<1>2. \A p, q \in OldFiles \cup NewFiles : Dest[p] = Dest[q] => p = q
  BY DEF OneName, OldFiles, NewFiles
<1>3. Zipped = {p \in NewFiles : p \notin DOMAIN oldTree \/ newTree[p] # oldTree[p]}
  BY <1>1 DEF Zipped, OldFiles, NewFiles
<1>4. deleted \cap (DOMAIN zip \cup folders) = {}
  <2>1. deleted \cap DOMAIN zip = {}
    BY <1>1, <1>2, <1>3, PatchAssumption DEF ListsRight, Names, OldFiles, NewFiles
  <2>2. deleted \cap folders = {}
    BY <1>1, <1>2 DEF ListsRight, Names
  <2> QED BY <2>1, <2>2
<1>5. ASSUME NEW p \in OldFiles PROVE Installed(oldTree)[Dest[p]] = oldTree[p]
  BY <1>2 DEF Installed, OldFiles
<1>6. ASSUME NEW p \in NewFiles PROVE want[Dest[p]] = newTree[p]
  BY <1>2 DEF Installed, NewFiles
<1>7. /\ DOMAIN want = Names(NewFiles) /\ DOMAIN Installed(oldTree) = Names(OldFiles)
      /\ DOMAIN got = (Names(OldFiles) \ deleted) \cup DOMAIN zip
      /\ \A d \in DOMAIN got : got[d] = IF d \in DOMAIN zip THEN zip[d] ELSE Installed(oldTree)[d]
  BY DEF Installed, Patched, Names, NewFiles, OldFiles
<1> HIDE DEF got, want
<1>8. ASSUME NEW d \in DOMAIN got \ Kept
      PROVE  d \in DOMAIN want \cup folders
  <2>1. CASE d \in DOMAIN zip
    BY <1>1, <1>3, <1>7, <1>8, <2>1, PatchAssumption DEF ListsRight, Names
  <2>2. CASE d \notin DOMAIN zip
    <3>1. PICK p \in OldFiles : d = Dest[p]
      BY <1>7, <2>2 DEF Names
    <3>2. p \in NewFiles \/ d \in folders
      BY <1>1, <1>7, <1>8, <2>2, <3>1 DEF ListsRight, Names, OldFiles, NewFiles
    <3> QED BY <1>7, <3>1, <3>2 DEF Names
  <2> QED BY <2>1, <2>2
<1>9. ASSUME NEW d \in DOMAIN want \ Kept
      PROVE  d \in DOMAIN got /\ got[d] = want[d]
  <2>1. PICK p \in NewFiles : d = Dest[p]
    BY <1>7 DEF Names
  <2>2. want[d] = newTree[p]
    BY <1>6, <2>1
  <2>3. CASE p \in Zipped
    BY <1>1, <1>7, <1>9, <2>1, <2>2, <2>3 DEF ListsRight, Names
  <2>4. CASE p \notin Zipped
    <3>1. p \in OldFiles /\ newTree[p] = oldTree[p]
      BY <1>3, <2>4 DEF OldFiles, NewFiles
    <3>2. d \notin deleted
      BY <1>1, <1>2, <2>1, <3>1 DEF ListsRight, Names, NewFiles
    <3>3. d \notin DOMAIN zip
      BY <1>1, <1>2, <1>3, <1>9, <2>1, <2>4, PatchAssumption DEF ListsRight, Names
    <3> QED BY <1>5, <1>7, <2>1, <2>2, <3>1, <3>2, <3>3 DEF Names
  <2> QED BY <2>3, <2>4
<1>10. got[Release] = want[Release]
  <2>1. Release \in DOMAIN zip /\ zip[Release] = newTree[ReleasePath]
    BY <1>1 DEF ListsRight, PatchInv
  <2> QED BY <1>1, <1>6, <1>7, <2>1, PatchAssumption
<1>11. folders = {Dest[p] : p \in (DOMAIN oldTree \ Log) \cap newDirs} \ Kept
  BY <1>1 DEF ListsRight, Names, OldFiles
<1>12. folders \subseteq DOMAIN got \ Kept
  BY <1>1, <1>4, <1>7 DEF ListsRight, Names
<1>13. DOMAIN got \ Kept = (DOMAIN want \ Kept) \cup folders
  BY <1>8, <1>9, <1>12
<1> QED BY <1>4, <1>9, <1>10, <1>11, <1>13 DEF PatchUpgrades, got, want

\* For any two trees without two paths of one name, an installation of the old
\* one that gets the patch is one of the new one, plus each file that became a
\* directory, which stays (make_patch.py).
THEOREM PatchesUpgrade == PatchSpec => []PatchUpgrades
<1>1. (\E o, n \in Tree, dirs \in SUBSET Path : PatchStart(o, n, dirs)) => PatchInv
  BY PatchStartRight
<1>2. PatchInv /\ [PatchNext]_patchVars => PatchInv'
  <2>1. CASE UNCHANGED patchVars
    BY <2>1 DEF patchVars, PatchInv, ListsRight, OneName, OldDone, NewDone, Zipped,
       OldFiles, NewFiles, Names
  <2> QED BY <2>1, WalkOldRight, WalkNewRight, WalkedRight, AddReleaseRight DEF PatchNext
<1> QED BY <1>1, <1>2, ListsUpgrade, PTL DEF PatchSpec

-----------------------------------------------------------------------------
(***************************************************************************)
(* The recursion of blk_xmlrpc-dump.py, seen as the stack of its calls.    *)
(***************************************************************************)
DumpCall == [ids : SUBSET Record, rec : Record \cup {NoRecord}, refs : SUBSET Record, top : BOOLEAN]

ExportTypes ==
  /\ base \in Base
  /\ calls \in Seq(DumpCall)
  /\ known \subseteq Record
  /\ elements \in Seq(Record)
  /\ saved \in Nat
  /\ place \in {"dump", "save", "saved", "lost", "failed"}

\* a call that another call makes
Pushed(ids) == Call(ids, FALSE)

LEMMA LinksAreRecords ==
  ASSUME base \in Base, NEW r \in Record
  PROVE  Links(r) \subseteq Record /\ Children(r) \subseteq Record
BY DEF Base, Links, Children

LEMMA CurrentCall ==
  ASSUME ExportTypes, calls # <<>>
  PROVE  /\ Len(calls) \in Nat \ {0} /\ Len(calls) \in DOMAIN calls
         /\ current = calls[Len(calls)] /\ current \in DumpCall
         /\ current.ids \subseteq Record /\ current.refs \subseteq Record
         /\ current.rec \in Record \cup {NoRecord} /\ current.top \in BOOLEAN
<1>1. /\ Len(calls) \in Nat \ {0} /\ Len(calls) \in DOMAIN calls
      /\ current = calls[Len(calls)] /\ current \in DumpCall
  BY DEF ExportTypes, current
<1> QED BY <1>1 DEF DumpCall

\* the call on top of the stack goes on as another
Top(call) ==
  /\ Len(calls') = Len(calls)
  /\ calls'[Len(calls)] = call
  /\ \A k \in 1..(Len(calls) - 1) : calls'[k] = calls[k]

LEMMA BecomesFacts ==
  ASSUME ExportTypes, calls # <<>>, NEW call \in DumpCall
  PROVE  /\ Becomes(call) \in Seq(DumpCall)
         /\ Len(Becomes(call)) = Len(calls)
         /\ Becomes(call)[Len(calls)] = call
         /\ \A k \in 1..(Len(calls) - 1) : Becomes(call)[k] = calls[k]
BY CurrentCall DEF ExportTypes, Becomes

LEMMA ChangedCalls ==
  ASSUME NEW c \in DumpCall, NEW S \in SUBSET Record, NEW r \in Record \cup {NoRecord},
         NEW T \in SUBSET Record
  PROVE  /\ [c EXCEPT !.ids = S] = [ids |-> S, rec |-> c.rec, refs |-> c.refs, top |-> c.top]
         /\ [c EXCEPT !.refs = T] = [ids |-> c.ids, rec |-> c.rec, refs |-> T, top |-> c.top]
         /\ [c EXCEPT !.rec = r] = [ids |-> c.ids, rec |-> r, refs |-> c.refs, top |-> c.top]
BY DEF DumpCall

\* The steps of dump(): what becomes of the call on top, and what it knows.
LEMMA NextRecordStep ==
  ASSUME ExportTypes, NextRecord
  PROVE  /\ calls # <<>> /\ current.rec = NoRecord /\ place = "dump"
         /\ UNCHANGED <<base, elements, domains, searches, saved, place>>
         /\ \E r \in current.ids, call \in DumpCall :
              /\ calls' = Becomes(call) /\ call.ids = current.ids \ {r} /\ call.top = current.top
              /\ \/ /\ r \in base.named /\ current.top
                    /\ call.rec = NoRecord /\ call.refs = current.refs /\ known' = known
                 \/ call.rec = r /\ call.refs = Links(r) /\ known' = known \cup {r}
<1>1. /\ calls # <<>> /\ current.rec = NoRecord /\ place = "dump"
      /\ UNCHANGED <<base, elements, domains, searches, saved, place>>
  BY DEF NextRecord, dumping
<1>2. PICK r \in current.ids :
        IF r \in base.named /\ current.top
        THEN calls' = Becomes([current EXCEPT !.ids = @ \ {r}]) /\ UNCHANGED <<known, req>>
        ELSE /\ calls' = Becomes([ids |-> current.ids \ {r}, rec |-> r, refs |-> Links(r),
                                  top |-> current.top])
             /\ known' = known \cup {r} /\ req' = req \cup {r}
  BY DEF NextRecord
<1>3. /\ current \in DumpCall /\ current.ids \ {r} \in SUBSET Record /\ r \in Record
      /\ Links(r) \in SUBSET Record /\ NoRecord \in Record \cup {NoRecord}
      /\ current.rec \in Record \cup {NoRecord} /\ current.refs \in SUBSET Record
      /\ current.top \in BOOLEAN
  BY <1>1, <1>2, CurrentCall, LinksAreRecords DEF ExportTypes
<1> DEFINE skip == [ids |-> current.ids \ {r}, rec |-> current.rec, refs |-> current.refs, top |-> current.top]
           take == [ids |-> current.ids \ {r}, rec |-> r, refs |-> Links(r), top |-> current.top]
<1>4. [current EXCEPT !.ids = @ \ {r}] = skip
  <2>1. \A c \in DumpCall :
          [c EXCEPT !.ids = @ \ {r}] = [ids |-> c.ids \ {r}, rec |-> c.rec, refs |-> c.refs, top |-> c.top]
    BY DEF DumpCall
  <2> QED BY <1>3, <2>1, Zenon
<1>6. skip \in DumpCall /\ take \in DumpCall
  BY <1>3 DEF DumpCall
<1>7. CASE r \in base.named /\ current.top
  <2>1. calls' = Becomes(skip) /\ known' = known
    BY <1>2, <1>4, <1>7
  <2> QED BY <1>1, <1>6, <1>7, <2>1
<1>8. CASE ~(r \in base.named /\ current.top)
  <2>1. calls' = Becomes(take) /\ known' = known \cup {r}
    BY <1>2, <1>8
  <2> QED BY <1>1, <1>6, <2>1
<1> QED BY <1>7, <1>8

LEMMA NextRefStep ==
  ASSUME ExportTypes, NextRef
  PROVE  /\ calls # <<>> /\ current.rec \in Record /\ place = "dump"
         /\ UNCHANGED <<base, elements, searches, saved>>
         /\ \E f \in current.refs, call \in DumpCall :
              /\ call.ids = current.ids /\ call.rec = current.rec
              /\ call.refs = current.refs \ {f} /\ call.top = current.top
              /\ known' = known \/ (known' = known \cup {f} /\ f \in base.named)
              /\ \/ /\ calls' = Becomes(call) /\ place' = place
                    /\ f \in known' \cup base.searched
                 \/ /\ calls' = Append(Becomes(call), Pushed({f})) /\ place' = place
                    /\ Len(Becomes(call)) < MaxDepth /\ f \notin known
                 \/ calls' = Becomes(call) /\ place' = "lost" /\ ~(Len(Becomes(call)) < MaxDepth)
              /\ \/ domains' = domains
                 \/ domains' = [x \in DOMAIN domains \cup {f} |-> IF x = f THEN base.finds[f] ELSE domains[x]]
<1>1. /\ calls # <<>> /\ current.rec # NoRecord /\ place = "dump"
      /\ UNCHANGED <<base, elements, searches, saved>>
  BY DEF NextRef, dumping
<1> DEFINE goesOn(f) == Becomes([current EXCEPT !.refs = @ \ {f}])
           enter(f) == f \notin known /\ f \in base.named /\ f \notin req
           search(f) == f \notin known /\ ~enter(f) /\ f \in base.searched
<1>2. PICK f \in current.refs :
        /\ known' = IF enter(f) THEN known \cup {f} ELSE known
        /\ domains' = IF search(f) /\ f \notin DOMAIN domains
                      THEN [x \in DOMAIN domains \cup {f} |->
                              IF x = f THEN base.finds[f] ELSE domains[x]]
                      ELSE domains
        /\ IF f \in known \/ enter(f) \/ search(f)
           THEN calls' = goesOn(f) /\ UNCHANGED place
           ELSE CallDump({f}, goesOn(f))
  BY DEF NextRef
<1>3. /\ current \in DumpCall /\ current.refs \ {f} \in SUBSET Record
      /\ current.ids \in SUBSET Record /\ current.rec \in Record \cup {NoRecord}
      /\ current.top \in BOOLEAN
  BY <1>1, CurrentCall
<1> DEFINE call == [ids |-> current.ids, rec |-> current.rec, refs |-> current.refs \ {f}, top |-> current.top]
<1>4. goesOn(f) = Becomes(call)
  <2>1. [current EXCEPT !.refs = @ \ {f}] = call
    BY <1>3, ChangedCalls
  <2> QED BY <2>1
<1>5. call \in DumpCall
  BY <1>3 DEF DumpCall
<1>6. /\ call.ids = current.ids /\ call.rec = current.rec
      /\ call.refs = current.refs \ {f} /\ call.top = current.top
  OBVIOUS
<1> HIDE DEF call
<1>7. /\ known' = known \/ (known' = known \cup {f} /\ f \in base.named)
      /\ \/ domains' = domains
         \/ domains' = [x \in DOMAIN domains \cup {f} |-> IF x = f THEN base.finds[f] ELSE domains[x]]
  BY <1>2
<1>8. CASE f \in known \/ enter(f) \/ search(f)
  <2>1. calls' = Becomes(call) /\ place' = place /\ f \in known' \cup base.searched
    BY <1>2, <1>4, <1>8
  <2> QED BY <1>1, <1>3, <1>5, <1>6, <1>7, <2>1
<1>9. CASE ~(f \in known \/ enter(f) \/ search(f))
  <2>1. CallDump({f}, Becomes(call)) /\ f \notin known
    BY <1>2, <1>4, <1>9
  <2>2. \/ /\ calls' = Append(Becomes(call), Pushed({f})) /\ place' = place
           /\ Len(Becomes(call)) < MaxDepth /\ f \notin known
        \/ calls' = Becomes(call) /\ place' = "lost" /\ ~(Len(Becomes(call)) < MaxDepth)
    BY <2>1 DEF CallDump, Pushed
  <2> QED BY <1>1, <1>3, <1>5, <1>6, <1>7, <2>2
<1> QED BY <1>8, <1>9

LEMMA EmitStep ==
  ASSUME ExportTypes, Emit
  PROVE  /\ calls # <<>> /\ current.rec \in Record /\ current.refs = {} /\ place = "dump"
         /\ UNCHANGED <<base, known, domains, searches, saved>>
         /\ \/ elements' = Append(elements, current.rec)
            \/ elements' = elements /\ current.rec \in Written
         /\ \E call \in DumpCall :
              /\ call.ids = current.ids /\ call.rec = NoRecord
              /\ call.refs = {} /\ call.top = current.top
              /\ \/ /\ calls' = Append(Becomes(call), Pushed(Children(current.rec)))
                    /\ place' = place /\ Len(Becomes(call)) < MaxDepth
                 \/ calls' = Becomes(call) /\ place' = "lost" /\ ~(Len(Becomes(call)) < MaxDepth)
<1>1. /\ calls # <<>> /\ current.rec # NoRecord /\ current.refs = {} /\ place = "dump"
      /\ UNCHANGED <<base, known, domains, searches, saved>>
      /\ \/ elements' = Append(elements, current.rec)
         \/ elements' = elements /\ current.rec \in Written
      /\ CallDump(Children(current.rec), Becomes([current EXCEPT !.rec = NoRecord]))
  BY DEF Emit, dumping
<1>2. /\ current \in DumpCall /\ NoRecord \in Record \cup {NoRecord}
      /\ current.ids \in SUBSET Record /\ current.rec \in Record \cup {NoRecord}
      /\ current.top \in BOOLEAN
  BY <1>1, CurrentCall
<1> DEFINE call == [ids |-> current.ids, rec |-> NoRecord, refs |-> current.refs, top |-> current.top]
<1>3. [current EXCEPT !.rec = NoRecord] = call
  BY <1>2, ChangedCalls
<1>4. call \in DumpCall
  BY <1>1, <1>2 DEF DumpCall
<1>5. call.ids = current.ids /\ call.rec = NoRecord /\ call.refs = {} /\ call.top = current.top
  BY <1>1
<1>6. \/ /\ calls' = Append(Becomes(call), Pushed(Children(current.rec)))
         /\ place' = place /\ Len(Becomes(call)) < MaxDepth
      \/ calls' = Becomes(call) /\ place' = "lost" /\ ~(Len(Becomes(call)) < MaxDepth)
  BY <1>1, <1>3 DEF CallDump, Pushed
<1> HIDE DEF call
<1> QED BY <1>1, <1>2, <1>4, <1>5, <1>6

LEMMA ReturnStep ==
  ASSUME ExportTypes, Return
  PROVE  /\ calls # <<>> /\ current.rec = NoRecord /\ current.ids = {} /\ place = "dump"
         /\ UNCHANGED <<base, known, elements, domains, searches, saved>>
         /\ calls' = SubSeq(calls, 1, Len(calls) - 1)
         /\ place' = IF Len(calls) = 1 THEN "save" ELSE "dump"
BY DEF Return, dumping

\* A stack with another call on top.
LEMMA PushFacts ==
  ASSUME NEW stack \in Seq(DumpCall), NEW ids \in SUBSET Record
  PROVE  /\ Append(stack, Pushed(ids)) \in Seq(DumpCall)
         /\ Len(Append(stack, Pushed(ids))) = Len(stack) + 1
         /\ Append(stack, Pushed(ids))[Len(stack) + 1] = Pushed(ids)
         /\ \A k \in 1..Len(stack) : Append(stack, Pushed(ids))[k] = stack[k]
         /\ Pushed(ids).ids = ids /\ Pushed(ids).rec = NoRecord
         /\ Pushed(ids).refs = {} /\ ~Pushed(ids).top
<1>1. Pushed(ids) \in DumpCall
  BY DEF Pushed, Call, DumpCall
<1>2. /\ Pushed(ids).ids = ids /\ Pushed(ids).rec = NoRecord
      /\ Pushed(ids).refs = {} /\ ~Pushed(ids).top
  BY DEF Pushed, Call
<1> QED BY <1>1, <1>2

LEMMA ExportTypesInit ==
  ASSUME NEW b \in Base, ExportStart(b)
  PROVE  ExportTypes
<1>1. Call(b.asked, TRUE) \in DumpCall
  BY DEF Call, DumpCall, Base
<1> DEFINE call == Call(b.asked, TRUE)
<1>2. call \in DumpCall /\ calls = <<call>> /\ elements = <<>>
  BY <1>1, Zenon DEF ExportStart
<1> HIDE DEF call
<1>3. calls \in Seq(DumpCall) /\ elements \in Seq(Record)
  BY <1>2
<1> QED BY <1>3 DEF ExportStart, ExportTypes

LEMMA ExportTypesStep ==
  ASSUME ExportTypes, [ExportNext]_exportVars
  PROVE  ExportTypes'
<1>1. CASE NextRecord
  <2>1. PICK r \in current.ids, call \in DumpCall :
          /\ calls' = Becomes(call) /\ calls # <<>>
          /\ known' = known \/ known' = known \cup {r}
    BY <1>1, NextRecordStep
  <2>2. r \in Record BY <2>1, CurrentCall
  <2> QED BY <1>1, <2>1, <2>2, NextRecordStep, BecomesFacts DEF ExportTypes
<1>2. CASE NextRef
  <2>1. PICK f \in current.refs, call \in DumpCall :
          /\ calls # <<>>
          /\ known' = known \/ known' = known \cup {f}
          /\ calls' = Becomes(call) \/ calls' = Append(Becomes(call), Pushed({f}))
          /\ place' \in {place, "lost"}
    BY <1>2, NextRefStep
  <2>2. f \in Record BY <2>1, CurrentCall
  <2>3. Becomes(call) \in Seq(DumpCall) BY <2>1, BecomesFacts
  <2>4. calls' \in Seq(DumpCall)
    <3> HIDE DEF Becomes
    <3> QED BY <2>1, <2>2, <2>3, PushFacts
  <2> QED BY <1>2, <2>1, <2>2, <2>4, NextRefStep DEF ExportTypes
<1>3. CASE Emit
  <2>1. PICK call \in DumpCall :
          /\ calls # <<>> /\ current.rec \in Record
          /\ calls' = Becomes(call) \/ calls' = Append(Becomes(call), Pushed(Children(current.rec)))
          /\ place' \in {place, "lost"}
    BY <1>3, EmitStep
  <2>2. Children(current.rec) \in SUBSET Record BY <2>1, LinksAreRecords DEF ExportTypes
  <2>3. Becomes(call) \in Seq(DumpCall) BY <2>1, BecomesFacts
  <2>4. calls' \in Seq(DumpCall)
    <3> HIDE DEF Becomes
    <3> QED BY <2>1, <2>2, <2>3, PushFacts
  <2>5. elements' \in Seq(Record)
    <3>1. elements' = elements \/ elements' = Append(elements, current.rec)
      BY <1>3, EmitStep
    <3> QED BY <2>1, <3>1 DEF ExportTypes
  <2> QED BY <1>3, <2>1, <2>4, <2>5, EmitStep DEF ExportTypes
<1>4. CASE Return
  BY <1>4, ReturnStep, CurrentCall DEF ExportTypes
<1>5. CASE SaveRecord
  BY <1>5 DEF SaveRecord, ExportTypes
<1>6. CASE WriteFile \/ ExportFails \/ UNCHANGED exportVars
  BY <1>6 DEF WriteFile, ExportFails, exportVars, ExportTypes
<1> QED BY <1>1, <1>2, <1>3, <1>4, <1>5, <1>6 DEF ExportNext

\* What is dumped with c drags what it refers to, and what refers to it, along.
LEMMA LinksDumped ==
  ASSUME base \in Base, NEW c \in Record, NEW x \in Links(c) \ {c}
  PROVE  DumpedWith(c, x)
BY DEF DumpedWith

LEMMA Dragged ==
  ASSUME base \in Base, NEW c \in Record, NEW x, DumpedWith(c, x),
         NEW z \in (Links(x) \cup Children(x)) \ {c}
  PROVE  DumpedWith(c, z)
BY DEF DumpedWith

LEMMA SameDatabase ==
  ASSUME base' = base
  PROVE  /\ \A r : Links(r)' = Links(r) /\ Children(r)' = Children(r)
         /\ \A c, x : DumpedWith(c, x)' <=> DumpedWith(c, x)
<1>1. \A r : Links(r)' = Links(r) /\ Children(r)' = Children(r)
  BY DEF Links, Children
<1>2. ASSUME NEW c, NEW x PROVE DumpedWith(c, x)' <=> DumpedWith(c, x)
  BY <1>1 DEF DumpedWith
<1> QED BY <1>1, <1>2

With(c, x) == x = c \/ DumpedWith(c, x)

\* A record that is known is written, named by the target, or being dumped.
KnownWhere ==
  \A f \in known :
    f \in Written \cup base.named \/ \E j \in 1..Len(calls) : calls[j].rec = f

LooksLeft ==
  \A j \in 1..Len(calls) :
    calls[j].rec # NoRecord => calls[j].refs \subseteq Links(calls[j].rec)

\* What a record refers to and is not to look at any more is known or searched
\* for, or about to be dumped by the call above.
LooksDone ==
  \A j \in 1..Len(calls) : calls[j].rec # NoRecord =>
    \A f \in Links(calls[j].rec) \ calls[j].refs :
      f \in known \cup base.searched \/ (j < Len(calls) /\ f \in calls[j + 1].ids)

\* While a record waits for what it refers to, all calls above are of records
\* dumped with that.
AboveWaiting ==
  \A i \in 1..Len(calls), j \in 1..Len(calls) :
    i < j /\ calls[i].rec # NoRecord /\ calls[i].rec \notin Written =>
      /\ \A x \in calls[j].ids : With(calls[i].rec, x)
      /\ calls[j].rec # NoRecord => With(calls[i].rec, calls[j].rec)

StackInv ==
  /\ KnownWhere /\ LooksLeft /\ LooksDone /\ AboveWaiting
  /\ \A j \in 2..Len(calls) : ~calls[j].top

Placed(i) ==
  \A f \in Links(elements[i]) :
    \/ \E j \in 1..(i - 1) : elements[j] = f
    \/ f \in base.named \cup base.searched

AllPlaced == \A i \in 1..Len(elements) : Placed(i)

DumpInv ==
  /\ ExportTypes
  /\ place = "dump" => StackInv
  /\ Acyclic /\ Untangled => AllPlaced

LEMMA DumpInvInit ==
  ASSUME NEW b \in Base, ExportStart(b)
  PROVE  DumpInv
<1>1. ExportTypes BY ExportTypesInit
<1> DEFINE call == Call(b.asked, TRUE)
<1>2. calls = <<call>> /\ call.rec = NoRecord /\ elements = <<>> /\ known = {}
  BY DEF ExportStart, Call
<1> HIDE DEF call
<1>3. Len(calls) = 1 /\ calls[1].rec = NoRecord /\ Len(elements) = 0
  BY <1>2
<1>4. StackInv
  BY <1>2, <1>3 DEF StackInv, KnownWhere, LooksLeft, LooksDone, AboveWaiting
<1>5. AllPlaced
  BY <1>3 DEF AllPlaced
<1> QED BY <1>1, <1>4, <1>5 DEF DumpInv

LEMMA NextRecordKeeps ==
  ASSUME ExportTypes, StackInv, NextRecord
  PROVE  StackInv'
<1>1. /\ calls # <<>> /\ current.rec = NoRecord
      /\ UNCHANGED <<base, elements>>
  BY NextRecordStep
<1>2. PICK r \in current.ids, call \in DumpCall :
        /\ calls' = Becomes(call) /\ call.ids = current.ids \ {r} /\ call.top = current.top
        /\ \/ /\ r \in base.named /\ current.top
              /\ call.rec = NoRecord /\ call.refs = current.refs /\ known' = known
           \/ call.rec = r /\ call.refs = Links(r) /\ known' = known \cup {r}
  BY NextRecordStep
<1> DEFINE n == Len(calls)
<1>3. /\ n \in Nat \ {0} /\ current = calls[n] /\ r \in Record
  BY <1>1, <1>2, CurrentCall
<1>4. /\ Len(calls') = n /\ calls'[n] = call
      /\ \A k \in 1..(n - 1) : calls'[k] = calls[k]
  BY <1>1, <1>2, BecomesFacts
<1> HIDE DEF n
<1>5. KnownWhere'
  <2>1. Written' = Written /\ base' = base BY <1>1 DEF Written
  <2>2. ASSUME NEW f \in known', f \notin Written \cup base.named
        PROVE  \E j \in 1..n : calls'[j].rec = f
    <3>1. CASE f \in known
      <4>1. PICK j \in 1..n : calls[j].rec = f
        BY <2>2, <3>1 DEF StackInv, KnownWhere, n
      <4>2. j # n
        BY <1>1, <1>3, <3>1, <4>1, ExportAssumption DEF ExportTypes
      <4> QED BY <1>3, <1>4, <4>1, <4>2
    <3>2. CASE f \notin known
      <4>1. f = r /\ call.rec = r BY <1>2, <2>2, <3>2
      <4> QED BY <1>3, <1>4, <4>1
    <3> QED BY <3>1, <3>2
  <2> QED BY <1>4, <2>1, <2>2 DEF KnownWhere
<1>6. LooksDone'
  <2> SUFFICES ASSUME NEW j \in 1..n, calls'[j].rec # NoRecord,
                      NEW f \in Links(calls'[j].rec) \ calls'[j].refs
               PROVE  f \in known' \cup base.searched \/ (j < n /\ f \in calls'[j + 1].ids)
    BY <1>1, <1>4, SameDatabase DEF LooksDone
  <2>1. CASE j = n
    BY <1>2, <1>4, <2>1
  <2>2. CASE j # n
    <3>1. calls'[j] = calls[j] /\ j < n BY <1>3, <1>4, <2>2
    <3>2. f \in known \cup base.searched \/ f \in calls[j + 1].ids
      BY <3>1 DEF StackInv, LooksDone, n
    <3>3. CASE j + 1 # n
      BY <1>2, <1>3, <1>4, <3>1, <3>2, <3>3
    <3>4. CASE j + 1 = n
      <4>1. ~current.top BY <1>3, <3>4 DEF StackInv, n
      <4> QED BY <1>2, <1>3, <1>4, <3>1, <3>2, <3>4, <4>1
    <3> QED BY <3>3, <3>4
  <2> QED BY <2>1, <2>2
<1>7. AboveWaiting'
  <2>1. Written' = Written /\ base' = base BY <1>1 DEF Written
  <2> SUFFICES ASSUME NEW i \in 1..n, NEW j \in 1..n, i < j,
                      calls'[i].rec # NoRecord, calls'[i].rec \notin Written
               PROVE  /\ \A x \in calls'[j].ids : With(calls'[i].rec, x)
                      /\ calls'[j].rec # NoRecord => With(calls'[i].rec, calls'[j].rec)
    BY <1>4, <2>1, SameDatabase DEF AboveWaiting, With
  <2>2. calls'[i] = calls[i] BY <1>3, <1>4
  <2>3. /\ \A x \in calls[j].ids : With(calls[i].rec, x)
        /\ calls[j].rec # NoRecord => With(calls[i].rec, calls[j].rec)
    BY <2>2 DEF StackInv, AboveWaiting, n
  <2>4. CASE j # n
    BY <1>3, <1>4, <2>2, <2>3, <2>4
  <2>5. CASE j = n
    BY <1>2, <1>3, <1>4, <2>2, <2>3, <2>5
  <2> QED BY <2>4, <2>5
<1>8. \A j \in 2..Len(calls') : ~calls'[j].top
  BY <1>2, <1>3, <1>4 DEF StackInv, n
<1>9. LooksLeft'
  <2>1. \A j \in 1..Len(calls') :
          calls'[j].rec # NoRecord => calls'[j].refs \subseteq Links(calls'[j].rec)
    BY <1>2, <1>3, <1>4 DEF StackInv, LooksLeft, n
  <2> QED BY <1>1, <2>1, SameDatabase DEF LooksLeft
<1> QED BY <1>5, <1>6, <1>7, <1>8, <1>9 DEF StackInv

\* A call that goes on with the same record and fewer of the records it refers to,
\* and perhaps one above it.
LEMMA NextRefKeeps ==
  ASSUME ExportTypes, StackInv, NextRef, place' = "dump"
  PROVE  StackInv'
<1>1. /\ calls # <<>> /\ current.rec \in Record /\ place = "dump"
      /\ UNCHANGED <<base, elements>>
  BY NextRefStep
<1>2. PICK f \in current.refs, call \in DumpCall :
        /\ call.ids = current.ids /\ call.rec = current.rec
        /\ call.refs = current.refs \ {f} /\ call.top = current.top
        /\ known' = known \/ (known' = known \cup {f} /\ f \in base.named)
        /\ \/ calls' = Becomes(call) /\ f \in known' \cup base.searched
           \/ calls' = Append(Becomes(call), Pushed({f}))
  BY NextRefStep
<1> DEFINE n == Len(calls)
           c == current.rec
<1>3. /\ n \in Nat \ {0} /\ current = calls[n] /\ f \in Record
  BY <1>1, <1>2, CurrentCall
<1>4. /\ Becomes(call) \in Seq(DumpCall) /\ Len(Becomes(call)) = n /\ Becomes(call)[n] = call
      /\ \A k \in 1..(n - 1) : Becomes(call)[k] = calls[k]
  BY <1>1, <1>2, BecomesFacts
<1>5. /\ Len(calls') \in {n, n + 1} /\ calls'[n] = call
      /\ \A k \in 1..(n - 1) : calls'[k] = calls[k]
      /\ Len(calls') = n => f \in known' \cup base.searched
      /\ Len(calls') = n + 1 => /\ calls'[n + 1].ids = {f}
                                /\ calls'[n + 1].rec = NoRecord /\ ~calls'[n + 1].top
  <2>1. CASE calls' = Becomes(call) /\ f \in known' \cup base.searched
    BY <1>3, <1>4, <2>1
  <2>2. CASE calls' = Append(Becomes(call), Pushed({f}))
    <3> DEFINE stack == Append(Becomes(call), Pushed({f}))
    <3>1. /\ Len(stack) = n + 1
          /\ \A k \in 1..n : stack[k] = Becomes(call)[k]
          /\ stack[n + 1].ids = {f} /\ stack[n + 1].rec = NoRecord /\ ~stack[n + 1].top
      <4>1. {f} \in SUBSET Record BY <1>3
      <4> HIDE DEF Becomes
      <4> QED BY <1>4, <4>1, PushFacts
    <3>2. calls' = stack BY <2>2
    <3> HIDE DEF stack
    <3> QED BY <1>3, <1>4, <3>1, <3>2
  <2> QED BY <1>2, <2>1, <2>2
<1> HIDE DEF n
<1>6. Written' = Written /\ base' = base BY <1>1 DEF Written
<1>7. KnownWhere'
  <2>1. ASSUME NEW g \in known', g \notin Written \cup base.named
        PROVE  \E j \in 1..Len(calls') : calls'[j].rec = g
    <3>1. PICK j \in 1..n : calls[j].rec = g
      BY <1>2, <2>1 DEF StackInv, KnownWhere, n
    <3>2. calls'[j].rec = g BY <1>2, <1>3, <1>5, <3>1
    <3> QED BY <1>3, <1>5, <3>2
  <2> QED BY <1>6, <2>1 DEF KnownWhere
<1>8. LooksDone'
  <2> SUFFICES ASSUME NEW j \in 1..Len(calls'), calls'[j].rec # NoRecord,
                      NEW g \in Links(calls'[j].rec) \ calls'[j].refs
               PROVE  g \in known' \cup base.searched \/ (j < Len(calls') /\ g \in calls'[j + 1].ids)
    BY <1>6, SameDatabase DEF LooksDone
  <2>0. j \in 1..n BY <1>3, <1>5
  <2>1. CASE g \in Links(calls[j].rec) \ calls[j].refs
    <3>1. g \in known \cup base.searched \/ (j < n /\ g \in calls[j + 1].ids)
      BY <1>2, <1>3, <1>5, <2>0, <2>1 DEF StackInv, LooksDone, n
    <3>2. j < n => calls'[j + 1].ids = calls[j + 1].ids
      <4>1. ASSUME NEW k \in 1..n PROVE calls'[k].ids = calls[k].ids
        <5>1. k # n => calls'[k] = calls[k] BY <1>3, <1>5
        <5>2. calls'[n].ids = calls[n].ids BY <1>2, <1>3, <1>5
        <5> QED BY <5>1, <5>2
      <4> QED BY <1>3, <2>0, <4>1
    <3> QED BY <1>2, <1>3, <1>5, <3>1, <3>2
  <2>2. CASE g \notin Links(calls[j].rec) \ calls[j].refs
    <3>1. j = n /\ g = f BY <1>2, <1>3, <1>5, <2>0, <2>2
    <3> QED BY <1>3, <1>5, <3>1
  <2> QED BY <2>1, <2>2
<1>9. AboveWaiting'
  <2> SUFFICES ASSUME NEW i \in 1..Len(calls'), NEW j \in 1..Len(calls'), i < j,
                      calls'[i].rec # NoRecord, calls'[i].rec \notin Written
               PROVE  /\ \A x \in calls'[j].ids : With(calls'[i].rec, x)
                      /\ calls'[j].rec # NoRecord => With(calls'[i].rec, calls'[j].rec)
    BY <1>6, SameDatabase DEF AboveWaiting, With
  <2>1. i \in 1..n /\ calls'[i].rec = calls[i].rec BY <1>2, <1>3, <1>5
  <2>2. CASE j <= n
    <3>1. calls'[j].rec = calls[j].rec /\ calls'[j].ids = calls[j].ids
      BY <1>2, <1>3, <1>5, <2>2
    <3> QED BY <2>1, <2>2, <3>1 DEF StackInv, AboveWaiting, n
  <2>3. CASE j = n + 1
    <3>1. calls'[j].ids = {f} /\ calls'[j].rec = NoRecord BY <1>3, <1>5, <2>3
    <3>2. With(calls[i].rec, c)
      <4>1. CASE i = n BY <1>3, <4>1 DEF With
      <4>2. CASE i # n
        BY <1>1, <1>3, <2>1, <2>3, <4>2, ExportAssumption DEF StackInv, AboveWaiting, n
      <4> QED BY <4>1, <4>2
    <3>3. f \in Links(c) /\ calls[i].rec \in Record
      <4>1. f \in Links(c) BY <1>1, <1>2, <1>3, ExportAssumption DEF StackInv, LooksLeft, n
      <4>2. calls[i] \in DumpCall /\ calls[i].rec # NoRecord BY <2>1 DEF ExportTypes, n
      <4> QED BY <4>1, <4>2 DEF DumpCall
    <3>4. With(calls[i].rec, f)
      BY <3>2, <3>3, LinksDumped, Dragged DEF With, ExportTypes
    <3> QED BY <2>1, <3>1, <3>4
  <2> QED BY <1>3, <1>5, <2>2, <2>3
<1>10. \A j \in 2..Len(calls') : ~calls'[j].top
  BY <1>2, <1>3, <1>5 DEF StackInv, n
<1>11. LooksLeft'
  <2>1. \A j \in 1..Len(calls') :
          calls'[j].rec # NoRecord => calls'[j].refs \subseteq Links(calls'[j].rec)
    BY <1>2, <1>3, <1>5 DEF StackInv, LooksLeft, n
  <2> QED BY <1>6, <2>1, SameDatabase DEF LooksLeft
<1> QED BY <1>7, <1>8, <1>9, <1>10, <1>11 DEF StackInv

LEMMA BeginningFacts ==
  ASSUME NEW S, NEW s \in Seq(S), NEW m \in Nat, m <= Len(s)
  PROVE  Len(SubSeq(s, 1, m)) = m /\ \A k \in 1..m : SubSeq(s, 1, m)[k] = s[k]
<1>1. Len(SubSeq(s, 1, m)) = m
  OBVIOUS
<1>2. ASSUME NEW k \in 1..m PROVE SubSeq(s, 1, m)[k] = s[k]
  OBVIOUS
<1> QED BY <1>1, <1>2

LEMMA WrittenGrows ==
  ASSUME ExportTypes, NEW r \in Record,
         elements' = Append(elements, r) \/ (elements' = elements /\ r \in Written)
  PROVE  Written' = Written \cup {r}
<1>1. CASE elements' = Append(elements, r)
  <2>1. elements \in Seq(Record) BY DEF ExportTypes
  <2>2. /\ DOMAIN elements = 1..Len(elements) /\ Len(elements) \in Nat
        /\ DOMAIN elements' = 1..(Len(elements) + 1)
        /\ \A i \in 1..Len(elements) : elements'[i] = elements[i]
        /\ elements'[Len(elements) + 1] = r
    BY <1>1, <2>1
  <2>3. ASSUME NEW x \in Written' PROVE x \in Written \cup {r}
    <3>1. PICK i \in DOMAIN elements' : x = elements'[i] BY <2>3 DEF Written
    <3>2. i \in 1..Len(elements) \/ i = Len(elements) + 1 BY <2>2, <3>1
    <3> QED BY <2>2, <3>1, <3>2 DEF Written
  <2>4. ASSUME NEW x \in Written \cup {r} PROVE x \in Written'
    <3>1. CASE x = r
      <4>1. Len(elements) + 1 \in DOMAIN elements' BY <2>2
      <4> QED BY <2>2, <3>1, <4>1 DEF Written
    <3>2. CASE x \in Written
      <4>1. PICK i \in DOMAIN elements : x = elements[i] BY <3>2 DEF Written
      <4>2. i \in DOMAIN elements' /\ x = elements'[i] BY <2>2, <4>1
      <4> QED BY <4>2 DEF Written
    <3> QED BY <2>4, <3>1, <3>2
  <2> QED BY <2>3, <2>4
<1>2. CASE elements' = elements /\ r \in Written
  BY <1>2 DEF Written
<1> QED BY <1>1, <1>2

LEMMA EmitKeeps ==
  ASSUME ExportTypes, StackInv, Emit, place' = "dump"
  PROVE  StackInv'
<1>1. /\ calls # <<>> /\ current.rec \in Record /\ base' = base /\ known' = known
      /\ elements' = Append(elements, current.rec) \/ (elements' = elements /\ current.rec \in Written)
  BY EmitStep
<1>2. PICK call \in DumpCall :
        /\ call.ids = current.ids /\ call.rec = NoRecord
        /\ call.refs = {} /\ call.top = current.top
        /\ calls' = Append(Becomes(call), Pushed(Children(current.rec)))
  BY EmitStep
<1> DEFINE n == Len(calls)
           r == current.rec
<1>3. /\ n \in Nat \ {0} /\ current = calls[n] /\ Children(r) \in SUBSET Record
  BY <1>1, CurrentCall, LinksAreRecords DEF ExportTypes
<1>4. /\ Becomes(call) \in Seq(DumpCall) /\ Len(Becomes(call)) = n /\ Becomes(call)[n] = call
      /\ \A k \in 1..(n - 1) : Becomes(call)[k] = calls[k]
  BY <1>1, <1>2, BecomesFacts
<1>5. /\ Len(calls') = n + 1 /\ calls'[n] = call
      /\ \A k \in 1..(n - 1) : calls'[k] = calls[k]
      /\ calls'[n + 1].ids = Children(r) /\ calls'[n + 1].rec = NoRecord /\ ~calls'[n + 1].top
  <2> DEFINE stack == Append(Becomes(call), Pushed(Children(r)))
  <2>1. /\ Len(stack) = n + 1
        /\ \A k \in 1..n : stack[k] = Becomes(call)[k]
        /\ stack[n + 1].ids = Children(r) /\ stack[n + 1].rec = NoRecord /\ ~stack[n + 1].top
    <3> HIDE DEF Becomes
    <3> QED BY <1>3, <1>4, PushFacts
  <2>2. calls' = stack BY <1>2
  <2> HIDE DEF stack
  <2> QED BY <1>3, <1>4, <2>1, <2>2
<1> HIDE DEF n
<1>6. Written' = Written \cup {r} BY <1>1, WrittenGrows
<1>7. \A k \in 1..n : calls'[k].ids = calls[k].ids /\ calls'[k].top = calls[k].top
  BY <1>2, <1>3, <1>5
<1>8. ASSUME NEW k \in 1..(n + 1), calls'[k].rec # NoRecord
      PROVE  k \in 1..(n - 1) /\ calls'[k] = calls[k]
  BY <1>2, <1>3, <1>5, <1>8
<1>9. KnownWhere'
  <2>1. ASSUME NEW g \in known, g \notin Written' \cup base.named
        PROVE  \E j \in 1..(n + 1) : calls'[j].rec = g
    <3>1. PICK j \in 1..n : calls[j].rec = g
      BY <1>6, <2>1 DEF StackInv, KnownWhere, n
    <3>2. j # n BY <1>3, <1>6, <2>1, <3>1
    <3> QED BY <1>3, <1>5, <3>1, <3>2
  <2> QED BY <1>1, <1>5, <2>1 DEF KnownWhere
<1>10. LooksLeft'
  <2>1. \A j \in 1..(n + 1) :
          calls'[j].rec # NoRecord => calls'[j].refs \subseteq Links(calls'[j].rec)
    BY <1>3, <1>8 DEF StackInv, LooksLeft, n
  <2> QED BY <1>1, <1>5, <2>1, SameDatabase DEF LooksLeft
<1>11. LooksDone'
  <2> SUFFICES ASSUME NEW j \in 1..(n + 1), calls'[j].rec # NoRecord,
                      NEW g \in Links(calls'[j].rec) \ calls'[j].refs
               PROVE  g \in known \cup base.searched \/ (j < n + 1 /\ g \in calls'[j + 1].ids)
    BY <1>1, <1>5, SameDatabase DEF LooksDone
  <2>1. j \in 1..(n - 1) /\ calls'[j] = calls[j] BY <1>8
  <2>2. g \in known \cup base.searched \/ g \in calls[j + 1].ids
    BY <1>3, <2>1 DEF StackInv, LooksDone, n
  <2>3. calls'[j + 1].ids = calls[j + 1].ids BY <1>3, <1>7, <2>1
  <2> QED BY <1>3, <2>1, <2>2, <2>3
<1>12. AboveWaiting'
  <2> SUFFICES ASSUME NEW i \in 1..(n + 1), NEW j \in 1..(n + 1), i < j,
                      calls'[i].rec # NoRecord, calls'[i].rec \notin Written'
               PROVE  /\ \A x \in calls'[j].ids : With(calls'[i].rec, x)
                      /\ calls'[j].rec # NoRecord => With(calls'[i].rec, calls'[j].rec)
    BY <1>1, <1>5, SameDatabase DEF AboveWaiting, With
  <2>1. i \in 1..(n - 1) /\ calls'[i] = calls[i] BY <1>8
  <2>2. calls[i].rec # NoRecord /\ calls[i].rec \notin Written /\ calls[i].rec # r
    BY <1>6, <2>1
  <2>3. CASE j \in 1..n
    <3>1. /\ \A x \in calls[j].ids : With(calls[i].rec, x)
          /\ calls[j].rec # NoRecord => With(calls[i].rec, calls[j].rec)
      BY <1>3, <2>1, <2>2, <2>3 DEF StackInv, AboveWaiting, n
    <3>2. calls'[j].rec # NoRecord => calls'[j].rec = calls[j].rec
      BY <1>8
    <3> QED BY <1>7, <2>1, <2>3, <3>1, <3>2
  <2>4. CASE j = n + 1
    <3>1. With(calls[i].rec, r)
      BY <1>1, <1>3, <2>1, <2>2, ExportAssumption DEF StackInv, AboveWaiting, n
    <3>2. calls[i].rec \in Record
      <4>1. calls[i] \in DumpCall BY <1>3, <2>1 DEF ExportTypes, n
      <4> QED BY <2>2, <4>1 DEF DumpCall
    <3>3. \A x \in Children(r) : With(calls[i].rec, x)
      BY <2>2, <3>1, <3>2, Dragged DEF With, ExportTypes
    <3> QED BY <1>5, <2>1, <2>4, <3>3
  <2> QED BY <1>3, <2>3, <2>4
<1>13. \A j \in 2..(n + 1) : ~calls'[j].top
  BY <1>3, <1>5, <1>7 DEF StackInv, n
<1> QED BY <1>5, <1>9, <1>10, <1>11, <1>12, <1>13 DEF StackInv

LEMMA ReturnKeeps ==
  ASSUME ExportTypes, StackInv, Return, place' = "dump"
  PROVE  StackInv'
<1>1. /\ calls # <<>> /\ current.rec = NoRecord /\ current.ids = {}
      /\ UNCHANGED <<base, known, elements>>
      /\ calls' = SubSeq(calls, 1, Len(calls) - 1)
  BY ReturnStep
<1> DEFINE n == Len(calls)
<1>2. n \in Nat \ {0} /\ current = calls[n] BY <1>1, CurrentCall
<1>3. Len(calls') = n - 1 /\ \A k \in 1..(n - 1) : calls'[k] = calls[k]
  <2>1. calls \in Seq(DumpCall) /\ n - 1 \in Nat /\ n - 1 <= Len(calls)
    BY <1>2 DEF ExportTypes
  <2>2. calls' = SubSeq(calls, 1, n - 1) BY <1>1
  <2> HIDE DEF n
  <2> QED BY <2>1, <2>2, BeginningFacts
<1> HIDE DEF n
<1>4. Written' = Written /\ base' = base BY <1>1 DEF Written
<1>5. KnownWhere'
  <2>1. ASSUME NEW g \in known, g \notin Written \cup base.named
        PROVE  \E j \in 1..(n - 1) : calls'[j].rec = g
    <3>1. PICK j \in 1..n : calls[j].rec = g
      BY <2>1 DEF StackInv, KnownWhere, n
    <3>2. j # n BY <1>1, <1>2, <2>1, <3>1, ExportAssumption DEF ExportTypes
    <3> QED BY <1>2, <1>3, <3>1, <3>2
  <2> QED BY <1>1, <1>3, <1>4, <2>1 DEF KnownWhere
<1>6. LooksLeft'
  <2>1. \A j \in 1..(n - 1) :
          calls'[j].rec # NoRecord => calls'[j].refs \subseteq Links(calls'[j].rec)
    BY <1>2, <1>3 DEF StackInv, LooksLeft, n
  <2> QED BY <1>3, <1>4, <2>1, SameDatabase DEF LooksLeft
<1>7. LooksDone'
  <2> SUFFICES ASSUME NEW j \in 1..(n - 1), calls'[j].rec # NoRecord,
                      NEW g \in Links(calls'[j].rec) \ calls'[j].refs
               PROVE  g \in known \cup base.searched \/ (j < n - 1 /\ g \in calls'[j + 1].ids)
    BY <1>1, <1>3, SameDatabase DEF LooksDone
  <2>1. g \in known \cup base.searched \/ g \in calls[j + 1].ids
    BY <1>2, <1>3 DEF StackInv, LooksDone, n
  <2> QED BY <1>1, <1>2, <1>3, <2>1
<1>8. AboveWaiting'
  <2> SUFFICES ASSUME NEW i \in 1..(n - 1), NEW j \in 1..(n - 1), i < j,
                      calls'[i].rec # NoRecord, calls'[i].rec \notin Written
               PROVE  /\ \A x \in calls'[j].ids : With(calls'[i].rec, x)
                      /\ calls'[j].rec # NoRecord => With(calls'[i].rec, calls'[j].rec)
    BY <1>3, <1>4, SameDatabase DEF AboveWaiting, With
  <2> QED BY <1>2, <1>3 DEF StackInv, AboveWaiting, n
<1>9. \A j \in 2..(n - 1) : ~calls'[j].top
  BY <1>2, <1>3 DEF StackInv, n
<1> QED BY <1>3, <1>5, <1>6, <1>7, <1>8, <1>9 DEF StackInv

\* What is added refers to what is there: a record still to be written would be
\* one that this one is dumped with, and that it refers to.
LEMMA EmitPlaces ==
  ASSUME ExportTypes, StackInv, Emit, Acyclic, Untangled, AllPlaced
  PROVE  AllPlaced'
<1>1. /\ calls # <<>> /\ current.rec \in Record /\ current.refs = {} /\ base' = base
      /\ elements' = Append(elements, current.rec) \/ elements' = elements
  BY EmitStep
<1> DEFINE n == Len(calls)
           r == current.rec
           m == Len(elements)
<1>2. n \in Nat \ {0} /\ current = calls[n] BY <1>1, CurrentCall
<1>3. ASSUME NEW f \in Links(r)
      PROVE  f \in Written \cup base.named \cup base.searched
  <2>1. f \in known \cup base.searched
    <3>1. calls[n].rec # NoRecord BY <1>1, <1>2, ExportAssumption
    <3> QED BY <1>1, <1>2, <3>1 DEF StackInv, LooksDone
  <2>2. f # r
    <3>1. {r} \in (SUBSET Record) \ {{}} BY <1>1
    <3>2. PICK s \in {r} : Links(s) \cap {r} = {} BY <3>1 DEF Acyclic
    <3> QED BY <3>2
  <2>3. CASE f \in known /\ f \notin Written \cup base.named
    <3>1. PICK j \in 1..n : calls[j].rec = f BY <2>3 DEF StackInv, KnownWhere
    <3>2. f \in Record BY <2>3 DEF ExportTypes
    <3>3. j < n BY <1>2, <2>2, <3>1
    <3>4. calls[j].rec # NoRecord /\ calls[n].rec # NoRecord
      BY <1>1, <1>2, <3>1, <3>2, ExportAssumption
    <3>5. With(f, r) BY <1>2, <2>3, <3>1, <3>3, <3>4 DEF StackInv, AboveWaiting
    <3> QED BY <1>1, <2>2, <3>2, <3>5 DEF With, Untangled
  <2> QED BY <2>1, <2>3
<1>4. elements \in Seq(Record) /\ m \in Nat BY DEF ExportTypes
<1>5. CASE elements' = elements
  BY <1>1, <1>5, SameDatabase DEF AllPlaced, Placed
<1>6. CASE elements' = Append(elements, r)
  <2>1. /\ Len(elements') = m + 1 /\ elements'[m + 1] = r
        /\ \A k \in 1..m : elements'[k] = elements[k]
    BY <1>1, <1>4, <1>6
  <2>2. ASSUME NEW i \in 1..(m + 1), NEW f \in Links(elements'[i])
        PROVE  \/ \E j \in 1..(i - 1) : elements'[j] = f
               \/ f \in base.named \cup base.searched
    <3>1. CASE i \in 1..m
      BY <1>4, <2>1, <2>2, <3>1 DEF AllPlaced, Placed
    <3>2. CASE i = m + 1
      <4>1. f \in Written \cup base.named \cup base.searched BY <1>3, <2>1, <2>2, <3>2
      <4>2. CASE f \in Written
        <5>1. PICK j \in 1..m : f = elements[j] BY <1>4, <4>2 DEF Written
        <5> QED BY <1>4, <2>1, <3>2, <5>1
      <4> QED BY <4>1, <4>2
    <3> QED BY <1>4, <3>1, <3>2
  <2> QED BY <1>1, <2>1, <2>2, SameDatabase DEF AllPlaced, Placed
<1> QED BY <1>1, <1>5, <1>6

LEMMA DumpInvStep ==
  ASSUME DumpInv, [ExportNext]_exportVars
  PROVE  DumpInv'
<1>1. ExportTypes /\ ExportTypes' BY ExportTypesStep DEF DumpInv
<1>2. base' = base
  BY DEF ExportNext, NextRecord, NextRef, Emit, Return, SaveRecord, WriteFile, ExportFails,
         dumping, exportVars
<1>3. (Acyclic' <=> Acyclic) /\ (Untangled' <=> Untangled)
  <2>1. Acyclic' <=> Acyclic BY <1>2, SameDatabase DEF Acyclic
  <2>2. Untangled' <=> Untangled BY <1>2, SameDatabase DEF Untangled
  <2> QED BY <2>1, <2>2
<1>4. ASSUME elements' = elements, AllPlaced PROVE AllPlaced'
  BY <1>2, <1>4, SameDatabase DEF AllPlaced, Placed
<1>5. CASE NextRecord
  <2>1. place = "dump" /\ elements' = elements BY <1>1, <1>5, NextRecordStep
  <2>2. StackInv' BY <1>1, <1>5, <2>1, NextRecordKeeps DEF DumpInv
  <2> QED BY <1>1, <1>3, <1>4, <2>1, <2>2 DEF DumpInv
<1>6. CASE NextRef
  <2>1. place = "dump" /\ elements' = elements BY <1>1, <1>6, NextRefStep
  <2>2. place' = "dump" => StackInv' BY <1>1, <1>6, <2>1, NextRefKeeps DEF DumpInv
  <2> QED BY <1>1, <1>3, <1>4, <2>1, <2>2 DEF DumpInv
<1>7. CASE Emit
  <2>1. place = "dump" BY <1>1, <1>7, EmitStep
  <2>2. place' = "dump" => StackInv' BY <1>1, <1>7, <2>1, EmitKeeps DEF DumpInv
  <2>3. Acyclic /\ Untangled => AllPlaced' BY <1>1, <1>7, <2>1, EmitPlaces DEF DumpInv
  <2> QED BY <1>1, <1>3, <2>2, <2>3 DEF DumpInv
<1>8. CASE Return
  <2>1. place = "dump" /\ elements' = elements BY <1>1, <1>8, ReturnStep
  <2>2. place' = "dump" => StackInv' BY <1>1, <1>8, <2>1, ReturnKeeps DEF DumpInv
  <2> QED BY <1>1, <1>3, <1>4, <2>1, <2>2 DEF DumpInv
<1>9. CASE SaveRecord \/ WriteFile \/ ExportFails
  <2>1. place' # "dump" /\ elements' = elements
    BY <1>9 DEF SaveRecord, WriteFile, ExportFails
  <2> QED BY <1>1, <1>3, <1>4, <2>1 DEF DumpInv
<1>10. CASE UNCHANGED exportVars
  <2>1. /\ UNCHANGED <<place, calls, known, elements, base>> BY <1>10 DEF exportVars
  <2>2. StackInv => StackInv'
    <3>1. Written' = Written BY <2>1 DEF Written
    <3>2. KnownWhere => KnownWhere' BY <2>1, <3>1 DEF KnownWhere
    <3>3. LooksLeft => LooksLeft' BY <2>1, SameDatabase DEF LooksLeft
    <3>4. LooksDone => LooksDone' BY <2>1, SameDatabase DEF LooksDone
    <3>5. AboveWaiting => AboveWaiting'
      BY <2>1, <3>1, SameDatabase DEF AboveWaiting, With
    <3> QED BY <2>1, <3>2, <3>3, <3>4, <3>5 DEF StackInv
  <2> QED BY <1>1, <1>3, <1>4, <2>1, <2>2 DEF DumpInv
<1> QED BY <1>5, <1>6, <1>7, <1>8, <1>9, <1>10 DEF ExportNext

(***************************************************************************)
(* The file defines a record before it refers to it: dump() leaves a       *)
(* record to be written only for what it refers to, and comes back to it   *)
(* from there only by a reference that the hypothesis excludes.            *)
(***************************************************************************)
THEOREM DefinesFirst == ExportSpec => []DefinedFirst
<1>1. (\E b \in Base : ExportStart(b)) => DumpInv BY DumpInvInit
<1>2. DumpInv /\ [ExportNext]_exportVars => DumpInv' BY DumpInvStep
<1>3. DumpInv => DefinedFirst
  <2> SUFFICES ASSUME DumpInv, Acyclic, Untangled, NEW i \in DOMAIN elements,
                      NEW f \in Links(elements[i])
               PROVE  \/ \E j \in 1..(i - 1) : elements[j] = f
                      \/ f \in base.named \cup base.searched
    BY DEF DefinedFirst
  <2>1. i \in 1..Len(elements) BY DEF DumpInv, ExportTypes
  <2> QED BY <2>1 DEF DumpInv, AllPlaced, Placed
<1> QED BY <1>1, <1>2, <1>3, PTL DEF ExportSpec

-----------------------------------------------------------------------------
\* What search_ids holds for a record finds all that its values would find.
SearchInv ==
  /\ ExportTypes
  /\ DOMAIN domains \subseteq Record
  /\ \A f \in DOMAIN domains : base.finds[f] \subseteq domains[f]
  /\ SearchesMissNone

\* one or more domains joined together
LEMMA FoundAll ==
  ASSUME SearchInv
  PROVE  /\ \A f : base.finds[f] \subseteq Found(f)
         /\ \A F, first : \A f \in F : base.finds[f] \subseteq Joined(F, first)
<1>1. \A f : base.finds[f] \subseteq Found(f)
  BY DEF SearchInv, Found
<1> QED BY <1>1 DEF Joined

\* what SaveRecord does to the domains and the searches
SavedFields(fids, required, one, first) ==
  /\ domains' = [f \in DOMAIN domains \cup fids |->
                    IF f = first THEN Joined(fids, first) ELSE Found(f)]
  /\ \E manyFirst \in BOOLEAN : searches' = searches
       \cup {[want |-> {f}, found |-> IF manyFirst THEN domains'[f] ELSE Found(f)] : f \in one}
       \cup {[want |-> w, found |-> Joined(fids, first)] :
               w \in required \cup (IF fids = {} THEN {} ELSE {fids})}

LEMMA SavedSearches ==
  ASSUME SearchInv, base' = base,
         NEW fids, NEW required, NEW one, NEW first,
         fids \subseteq Record, required \subseteq {{}}, one \subseteq DOMAIN domains,
         first \in fids \/ (fids = {} /\ first = NoRecord),
         SavedFields(fids, required, one, first)
  PROVE  /\ DOMAIN domains' \subseteq Record
         /\ \A f \in DOMAIN domains' : base'.finds[f] \subseteq domains'[f]
         /\ SearchesMissNone'
<1>1. /\ first \in fids \/ fids = {}
      /\ required \subseteq {{}} /\ one \subseteq DOMAIN domains
  OBVIOUS
<1>2. PICK manyFirst \in BOOLEAN :
      /\ domains' = [f \in DOMAIN domains \cup fids |->
                        IF f = first THEN Joined(fids, first) ELSE Found(f)]
      /\ searches' = searches
           \cup {[want |-> {f}, found |-> IF manyFirst THEN domains'[f] ELSE Found(f)] : f \in one}
           \cup {[want |-> w, found |-> Joined(fids, first)] :
                   w \in required \cup (IF fids = {} THEN {} ELSE {fids})}
  BY DEF SavedFields
<1>3. /\ \A f : base.finds[f] \subseteq Found(f)
      /\ \A f \in fids : base.finds[f] \subseteq Joined(fids, first)
  BY FoundAll
<1>4. ASSUME NEW f \in DOMAIN domains' PROVE base.finds[f] \subseteq domains'[f]
  <2>1. CASE f \in fids /\ f = first BY <1>2, <1>3, <2>1
  <2>2. CASE f # first BY <1>2, <1>3, <1>4, <2>2
  <2>3. CASE f = first /\ f \notin fids
    <3>1. fids = {} /\ first = NoRecord /\ f \in DOMAIN domains BY <1>2, <1>4, <2>3
    <3> QED BY <2>3, <3>1, ExportAssumption DEF SearchInv
  <2> QED BY <2>1, <2>2, <2>3
<1>5. ASSUME NEW s \in searches', NEW f \in s.want
      PROVE  base.finds[f] \subseteq s.found
  <2>1. CASE s \in searches
    BY <1>5, <2>1 DEF SearchInv, SearchesMissNone
  <2>2. CASE s \in {[want |-> {g}, found |-> IF manyFirst THEN domains'[g] ELSE Found(g)] : g \in one}
    <3>1. PICK g \in one : s = [want |-> {g}, found |-> IF manyFirst THEN domains'[g] ELSE Found(g)]
      BY <2>2
    <3>2. f = g /\ g \in DOMAIN domains'
      BY <1>2, <1>5, <3>1
    <3> QED BY <1>3, <1>4, <3>1, <3>2
  <2>3. CASE s \in {[want |-> w, found |-> Joined(fids, first)] :
                      w \in required \cup (IF fids = {} THEN {} ELSE {fids})}
    <3>1. s.found = Joined(fids, first) /\ (s.want = {} \/ s.want = fids)
      BY <1>1, <2>3
    <3> QED BY <1>3, <1>5, <3>1
  <2> QED BY <1>2, <1>5, <2>1, <2>2, <2>3
<1>6. base' = base OBVIOUS
<1>7. DOMAIN domains' \subseteq Record
  BY <1>2 DEF SearchInv
<1> QED BY <1>4, <1>5, <1>6, <1>7 DEF SearchesMissNone

LEMMA SaveSearches ==
  ASSUME SearchInv, SaveRecord
  PROVE  SearchInv'
<1>1. ExportTypes' /\ base' = base
  BY ExportTypesStep DEF SearchInv, ExportNext, SaveRecord
<1> DEFINE r == elements[saved + 1]
           fids == SearchedMany(r)
           required == IF r \in base.empty THEN {{}} ELSE {}
           one == SearchedOne(r)
<1>2. PICK first \in IF fids = {} THEN {NoRecord} ELSE fids :
        SavedFields(fids, required, one, first)
  BY DEF SaveRecord, SavedFields
<1>3. required \in SUBSET {{}} /\ one \in SUBSET DOMAIN domains
  BY DEF SearchedOne
<1>4. fids \in SUBSET Record
  <2>1. base \in Base /\ r \in Record
    BY DEF SaveRecord, SearchInv, ExportTypes
  <2> QED BY <2>1 DEF SearchedMany, Base
<1> HIDE DEF r, fids, required, one
<1>5. PICK F, R, O, head :
        /\ F \subseteq Record /\ R \subseteq {{}} /\ O \subseteq DOMAIN domains
        /\ head \in F \/ (F = {} /\ head = NoRecord)
        /\ SavedFields(F, R, O, head)
  BY <1>2, <1>3, <1>4
<1>6. base' = base
  BY <1>1
<1>7. /\ DOMAIN domains' \subseteq Record
      /\ \A f \in DOMAIN domains' : base'.finds[f] \subseteq domains'[f]
      /\ SearchesMissNone'
  BY <1>5, <1>6, SavedSearches
<1> QED BY <1>1, <1>7 DEF SearchInv

LEMMA SearchInvStep ==
  ASSUME SearchInv, [ExportNext]_exportVars
  PROVE  SearchInv'
<1>1. ExportTypes /\ ExportTypes' BY ExportTypesStep DEF SearchInv
<1>2. base' = base
  BY DEF ExportNext, NextRecord, NextRef, Emit, Return, SaveRecord, WriteFile, ExportFails,
         dumping, exportVars
<1>3. CASE SaveRecord BY <1>3, SaveSearches
<1>4. CASE NextRef
  <2>1. PICK f \in current.refs :
          /\ searches' = searches
          /\ \/ domains' = domains
             \/ domains' = [x \in DOMAIN domains \cup {f} |->
                              IF x = f THEN base.finds[f] ELSE domains[x]]
    BY <1>1, <1>4, NextRefStep
  <2>2. ASSUME NEW x \in DOMAIN domains' PROVE base.finds[x] \subseteq domains'[x]
    BY <2>1, <2>2 DEF SearchInv
  <2>3. f \in Record
    <3>1. calls # <<>> BY <1>4 DEF NextRef, dumping
    <3> QED BY <1>1, <2>1, <3>1, CurrentCall
  <2>4. DOMAIN domains' \subseteq Record
    BY <2>1, <2>3 DEF SearchInv
  <2> QED BY <1>1, <1>2, <2>1, <2>2, <2>4 DEF SearchInv, SearchesMissNone
<1>5. CASE NextRecord \/ Emit \/ Return \/ WriteFile \/ ExportFails \/ UNCHANGED exportVars
  <2>1. domains' = domains /\ searches' = searches
    BY <1>5 DEF NextRecord, Emit, Return, WriteFile, ExportFails, dumping, exportVars
  <2> QED BY <1>1, <1>2, <2>1 DEF SearchInv, SearchesMissNone
<1> QED BY <1>3, <1>4, <1>5 DEF ExportNext

(***************************************************************************)
(* A search in the file finds all that the values of the records it is for *)
(* would find, although the domain of a many2many field is written into    *)
(* search_ids itself while other fields read it: whatever records share,   *)
(* domains only grow (save_to_xml).                                        *)
(***************************************************************************)
THEOREM SearchesFind == ExportSpec => []SearchesMissNone
<1>1. ASSUME NEW b \in Base, ExportStart(b) PROVE SearchInv
  <2>1. ExportTypes BY <1>1, ExportTypesInit
  <2>2. domains = [f \in {} |-> {}] /\ searches = {} BY <1>1 DEF ExportStart
  <2> QED BY <2>1, <2>2 DEF SearchInv, SearchesMissNone
<1>2. (\E b \in Base : ExportStart(b)) => SearchInv BY <1>1
<1>3. SearchInv /\ [ExportNext]_exportVars => SearchInv' BY SearchInvStep
<1>4. SearchInv => SearchesMissNone BY DEF SearchInv
<1> QED BY <1>2, <1>3, <1>4, PTL DEF ExportSpec

-----------------------------------------------------------------------------
(***************************************************************************)
(* How deep dump() nests.  A call below the top of the stack works on a    *)
(* record: it waits for one that the record refers to (calls[i].rec), or   *)
(* has added it and goes through its one2many fields, and then the call    *)
(* above is of records that refer to it.                                   *)
(***************************************************************************)
Waiting == {i \in 1..(Len(calls) - 1) : calls[i].rec # NoRecord}

WorksOn(w) ==
  \A i \in 1..(Len(calls) - 1) :
    /\ w[i] \in Record
    /\ calls[i].rec # NoRecord => w[i] = calls[i].rec
    /\ calls[i].rec = NoRecord =>
         /\ calls[i + 1].ids \subseteq Children(w[i])
         /\ calls[i + 1].rec # NoRecord => calls[i + 1].rec \in Children(w[i])
         /\ i + 1 < Len(calls) => w[i + 1] \in Children(w[i])

Trail == [Nat -> Record \cup {NoRecord}]

\* Each record that is waited for is known, but for the one about to be dumped.
WaitsCounted ==
  \/ Cardinality(Waiting) <= Cardinality(known)
  \/ /\ Cardinality(Waiting) <= Cardinality(known) + 1
     /\ current.rec = NoRecord /\ ~current.top
     /\ \E f \in Record \ known : current.ids = {f}

LEMMA WaitingFinite ==
  ASSUME ExportTypes, IsFiniteSet(Record)
  PROVE  /\ IsFiniteSet(Waiting) /\ Cardinality(Waiting) \in Nat
         /\ IsFiniteSet(known) /\ Cardinality(known) \in Nat
         /\ Cardinality(known) <= Cardinality(Record) /\ Cardinality(Record) \in Nat
         /\ \A f \in Record \ known : Cardinality(known \cup {f}) = Cardinality(known) + 1
                                        /\ Cardinality(known) + 1 <= Cardinality(Record)
         /\ \A f \in known : known \cup {f} = known
<1>1. Len(calls) - 1 \in Int /\ 1 \in Int BY DEF ExportTypes
<1>2. IsFiniteSet(1..(Len(calls) - 1)) BY <1>1, FS_Interval
<1>3. IsFiniteSet(Waiting)
  <2>1. Waiting \in SUBSET (1..(Len(calls) - 1)) BY DEF Waiting
  <2> QED BY <1>2, <2>1, FS_Subset
<1>4. IsFiniteSet(known) /\ Cardinality(known) <= Cardinality(Record)
  <2>1. known \in SUBSET Record BY DEF ExportTypes
  <2> QED BY <2>1, FS_Subset
<1>5. ASSUME NEW f \in Record \ known
      PROVE  /\ Cardinality(known \cup {f}) = Cardinality(known) + 1
             /\ Cardinality(known) + 1 <= Cardinality(Record)
  <2>1. Cardinality(known \cup {f}) = Cardinality(known) + 1
    BY <1>4, <1>5, FS_AddElement
  <2>2. known \cup {f} \in SUBSET Record BY <1>5 DEF ExportTypes
  <2> QED BY <2>1, <2>2, FS_Subset
<1> QED BY <1>3, <1>4, <1>5, FS_CardinalityType

LEMMA WaitsBounded ==
  ASSUME ExportTypes, IsFiniteSet(Record), WaitsCounted
  PROVE  Cardinality(Waiting) <= Cardinality(Record)
<1>1. /\ Cardinality(Waiting) \in Nat /\ Cardinality(known) \in Nat
      /\ Cardinality(known) <= Cardinality(Record) /\ Cardinality(Record) \in Nat
      /\ \A f \in Record \ known : Cardinality(known) + 1 <= Cardinality(Record)
  BY WaitingFinite
<1>2. CASE Cardinality(Waiting) <= Cardinality(known)
  BY <1>1, <1>2
<1>3. ASSUME NEW f \in Record \ known, Cardinality(Waiting) <= Cardinality(known) + 1
      PROVE  Cardinality(Waiting) <= Cardinality(Record)
  BY <1>1, <1>3
<1> QED BY <1>2, <1>3 DEF WaitsCounted

\* Between two calls on one record another reference is waited for, as long as
\* references do not turn in circles; so the stack cannot be higher than this.
LEMMA StackBounded ==
  ASSUME ExportTypes, IsFiniteSet(Record), Acyclic, calls # <<>>, current.rec \in Record,
         NEW w \in Trail, WorksOn(w), WaitsCounted
  PROVE  Len(calls) <= Cardinality(Record) * (Cardinality(Record) + 1)
<1> DEFINE N == Cardinality(Record)
           L == Len(calls)
           v == [i \in 1..L |-> IF i = L THEN current.rec ELSE w[i]]
           Below(i) == {j \in Waiting : j < i}
<1>1. L \in Nat \ {0} /\ L \in 1..L /\ current = calls[L]
  BY CurrentCall
<1>2. N \in Nat /\ IsFiniteSet(Waiting) /\ Cardinality(Waiting) <= N
  BY WaitingFinite, WaitsBounded
<1>3. \A i \in 1..L : v[i] \in Record
  BY <1>1 DEF WorksOn
<1>4. ASSUME NEW i \in 1..(L - 1), calls[i].rec = NoRecord
      PROVE  v[i] \in Links(v[i + 1])
  <2>1. /\ v[i] = w[i] /\ i + 1 \in 1..L BY <1>1, <1>4
  <2>2. v[i + 1] \in Children(w[i])
    <3>1. CASE i + 1 = L
      <4>1. v[i + 1] = calls[i + 1].rec /\ calls[i + 1].rec \in Record BY <1>1, <3>1
      <4>2. calls[i + 1].rec # NoRecord BY <4>1, ExportAssumption
      <4> QED BY <1>4, <4>1, <4>2 DEF WorksOn
    <3>2. CASE i + 1 # L
      <4>1. v[i + 1] = w[i + 1] /\ i + 1 < L BY <1>1, <2>1, <3>2
      <4> QED BY <1>4, <4>1 DEF WorksOn
    <3> QED BY <3>1, <3>2
  <2> QED BY <2>1, <2>2 DEF Children, Links
<1>5. \A i \in 1..L : /\ IsFiniteSet(Below(i)) /\ Cardinality(Below(i)) \in 0..N
  <2> SUFFICES ASSUME NEW i \in 1..L
               PROVE  IsFiniteSet(Below(i)) /\ Cardinality(Below(i)) \in 0..N
    OBVIOUS
  <2>1. Below(i) \in SUBSET Waiting OBVIOUS
  <2>2. IsFiniteSet(Below(i)) /\ Cardinality(Below(i)) <= Cardinality(Waiting)
    BY <1>2, <2>1, FS_Subset
  <2>3. Cardinality(Below(i)) \in Nat /\ Cardinality(Waiting) \in Nat
    BY <1>2, <2>2, FS_CardinalityType
  <2> HIDE DEF N
  <2> QED BY <1>2, <2>2, <2>3
<1>6. ASSUME NEW i \in 1..L, NEW j \in 1..L, i < j, v[i] = v[j],
             Cardinality(Below(i)) = Cardinality(Below(j))
      PROVE  FALSE
  <2>1. Below(i) \in SUBSET Below(j) BY <1>6 DEF Waiting
  <2>2. Below(i) = Below(j)
    BY <1>5, <1>6, <2>1, FS_Subset
  <2>3. ASSUME NEW m \in i..(j - 1) PROVE m \in 1..(L - 1) /\ calls[m].rec = NoRecord
    <3>1. m \in 1..(L - 1) BY <1>1, <1>6
    <3>2. m \notin Below(i) /\ m < j BY <1>6
    <3> QED BY <2>2, <3>1, <3>2 DEF Waiting
  <2> DEFINE S == {v[m] : m \in (i + 1)..j}
  <2>4. S \in (SUBSET Record) \ {{}}
    <3>1. j \in (i + 1)..j BY <1>6
    <3>2. S \subseteq Record
      <4>1. \A m \in (i + 1)..j : m \in 1..L BY <1>1, <1>6
      <4> HIDE DEF v
      <4> QED BY <1>3, <4>1
    <3> QED BY <3>1, <3>2
  <2>5. PICK x \in S : Links(x) \cap S = {}
    BY <2>4 DEF Acyclic
  <2>6. PICK m \in (i + 1)..j : x = v[m] OBVIOUS
  <2>7. v[m - 1] \in Links(v[m])
    <3>1. m - 1 \in i..(j - 1) /\ (m - 1) + 1 = m BY <1>6, <2>6
    <3> HIDE DEF v
    <3> QED BY <1>4, <2>3, <3>1
  <2>8. v[m - 1] \in S
    <3>1. CASE m - 1 = i
      <4>1. j \in (i + 1)..j BY <1>6
      <4> QED BY <1>6, <3>1, <4>1
    <3>2. CASE m - 1 # i
      <4>1. m - 1 \in (i + 1)..j BY <1>6, <2>6, <3>2
      <4> QED BY <4>1
    <3> QED BY <3>1, <3>2
  <2> HIDE DEF S, v
  <2> QED BY <2>5, <2>6, <2>7, <2>8
<1> DEFINE place_(i) == <<v[i], Cardinality(Below(i))>>
           g == [i \in 1..L |-> place_(i)]
<1>7. g \in Injection(1..L, Record \X (0..N))
  <2>1. g \in [1..L -> Record \X (0..N)]
    <3> HIDE DEF v, N, Below
    <3> QED BY <1>3, <1>5
  <2>2. ASSUME NEW i \in 1..L, NEW j \in 1..L, g[i] = g[j] PROVE i = j
    <3>1. v[i] = v[j] /\ Cardinality(Below(i)) = Cardinality(Below(j))
      <4> HIDE DEF v, Below
      <4> QED BY <2>2
    <3>2. ~(i < j) BY <1>6, <3>1
    <3>3. ~(j < i) BY <1>6, <3>1
    <3> QED BY <1>1, <3>2, <3>3
  <2> HIDE DEF g
  <2> QED BY <2>1, <2>2 DEF Injection, IsInjective
<1>8. IsFiniteSet(0..N) /\ Cardinality(0..N) = N + 1
  <2>1. 0 \in Int /\ N \in Int /\ ~(0 > N) BY <1>2
  <2> QED BY <1>2, <2>1, FS_Interval
<1>9. IsFiniteSet(Record \X (0..N)) /\ Cardinality(Record \X (0..N)) = N * (N + 1)
  BY <1>8, FS_Product
<1>10. Cardinality(1..L) = L
  <2>1. 1 \in Int /\ L \in Int /\ ~(1 > L) BY <1>1
  <2> QED BY <1>1, <2>1, FS_Interval
<1> HIDE DEF g, N, L
<1> QED BY <1>7, <1>9, <1>10, FS_Injection DEF N, L

\* The call on top goes on as another with the same work below it.
LEMMA TopGoesOn ==
  ASSUME ExportTypes, ExportTypes', IsFiniteSet(Record), calls # <<>>, base' = base,
         NEW call \in DumpCall, calls' = Becomes(call), NEW w \in Trail, WorksOn(w),
         call.ids \subseteq current.ids,
         call.rec \in {NoRecord, current.rec} \cup current.ids
  PROVE  WorksOn(w)' /\ Waiting' = Waiting /\ current' = call
<1> DEFINE L == Len(calls)
<1>1. L \in Nat \ {0} /\ current = calls[L] /\ current \in DumpCall
  BY CurrentCall
<1>2. /\ Len(calls') = L /\ calls'[L] = call
      /\ \A k \in 1..(L - 1) : calls'[k] = calls[k]
  BY BecomesFacts
<1>3. \A r : Children(r)' = Children(r)
  BY SameDatabase
<1>4. ASSUME NEW i \in 1..(L - 1), calls[i].rec = NoRecord
      PROVE  /\ calls'[i + 1].ids \subseteq Children(w[i])
             /\ calls'[i + 1].rec # NoRecord => calls'[i + 1].rec \in Children(w[i])
  <2>1. /\ calls[i + 1].ids \subseteq Children(w[i])
        /\ calls[i + 1].rec # NoRecord => calls[i + 1].rec \in Children(w[i])
    BY <1>4 DEF WorksOn
  <2>2. CASE i + 1 = L BY <1>1, <1>2, <2>1, <2>2
  <2>3. CASE i + 1 # L
    <3>1. i + 1 \in 1..(L - 1) BY <1>1, <2>3
    <3> QED BY <1>2, <2>1, <3>1
  <2> QED BY <2>2, <2>3
<1>5. WorksOn(w)'
  BY <1>2, <1>3, <1>4 DEF WorksOn
<1>6. Waiting' = Waiting
  BY <1>2 DEF Waiting
<1>7. current' = call
  BY <1>2 DEF current
<1> QED BY <1>5, <1>6, <1>7

\* A call is made: the caller, which worked on a record, is below now.
LEMMA AnotherCall ==
  ASSUME ExportTypes, ExportTypes', IsFiniteSet(Record), calls # <<>>, base' = base,
         NEW call \in DumpCall, NEW ids \in SUBSET Record,
         calls' = Append(Becomes(call), Pushed(ids)), NEW w \in Trail, WorksOn(w),
         current.rec \in Record, call.ids = current.ids,
         \/ call.rec = current.rec
         \/ call.rec = NoRecord /\ ids = Children(current.rec)
  PROVE  /\ \E v \in Trail : WorksOn(v)'
         /\ Waiting' = Waiting \cup (IF call.rec = NoRecord THEN {} ELSE {Len(calls)})
         /\ Len(calls) \notin Waiting
         /\ current'.ids = ids /\ current'.rec = NoRecord /\ ~current'.top
<1> DEFINE L == Len(calls)
<1>1. L \in Nat \ {0} /\ current = calls[L] /\ current \in DumpCall
  BY CurrentCall
<1>2. /\ Len(calls') = L + 1 /\ calls'[L] = call /\ calls'[L + 1] = Pushed(ids)
      /\ \A k \in 1..(L - 1) : calls'[k] = calls[k]
      /\ Pushed(ids).ids = ids /\ Pushed(ids).rec = NoRecord /\ ~Pushed(ids).top
  <2>1. /\ Becomes(call) \in Seq(DumpCall) /\ Len(Becomes(call)) = L /\ Becomes(call)[L] = call
        /\ \A k \in 1..(L - 1) : Becomes(call)[k] = calls[k]
    BY BecomesFacts
  <2> DEFINE stack == Becomes(call)
  <2> HIDE DEF stack
  <2>2. /\ Len(calls') = L + 1 /\ calls'[L + 1] = Pushed(ids)
        /\ \A k \in 1..L : calls'[k] = stack[k]
        /\ Pushed(ids).ids = ids /\ Pushed(ids).rec = NoRecord /\ ~Pushed(ids).top
    BY <2>1, PushFacts DEF stack
  <2>3. \A k \in 1..(L - 1) : k \in 1..L BY <1>1
  <2>4. L \in 1..L BY <1>1
  <2> QED BY <2>1, <2>2, <2>3, <2>4 DEF stack
<1>3. \A r : Children(r)' = Children(r)
  BY SameDatabase
<1>4. PICK r \in Record : r = current.rec
  OBVIOUS
<1>5. PICK v \in Trail : v = [w EXCEPT ![L] = r]
  BY <1>1, <1>4 DEF Trail
<1>6. v[L] = r /\ \A i \in 1..(L - 1) : v[i] = w[i]
  BY <1>1, <1>5 DEF Trail
<1>7. r # NoRecord BY ExportAssumption
<1>8. ASSUME NEW i \in 1..L
      PROVE  /\ v[i] \in Record
             /\ calls'[i].rec # NoRecord => v[i] = calls'[i].rec
             /\ calls'[i].rec = NoRecord =>
                  /\ calls'[i + 1].ids \subseteq Children(v[i])
                  /\ calls'[i + 1].rec # NoRecord => calls'[i + 1].rec \in Children(v[i])
                  /\ i + 1 < L + 1 => v[i + 1] \in Children(v[i])
  <2>1. CASE i = L
    <3>1. calls'[i] = call /\ v[i] = r BY <1>2, <1>6, <2>1
    <3>2. CASE call.rec = current.rec
      BY <1>4, <1>7, <3>1, <3>2
    <3>3. CASE call.rec = NoRecord /\ ids = Children(current.rec)
      <4>1. calls'[i + 1] = Pushed(ids) BY <1>2, <2>1
      <4>2. ~(i + 1 < L + 1) BY <1>1, <2>1
      <4>3. calls'[i + 1].ids \subseteq Children(v[i]) /\ calls'[i + 1].rec = NoRecord
        BY <1>2, <1>4, <3>1, <3>3, <4>1
      <4> QED BY <3>1, <3>3, <4>2, <4>3
    <3> QED BY <3>2, <3>3
  <2>2. CASE i # L
    <3>1. i \in 1..(L - 1) /\ i + 1 \in 1..L BY <1>1, <2>2
    <3>2. calls'[i] = calls[i] /\ v[i] = w[i] BY <1>2, <1>6, <3>1
    <3>3. /\ w[i] \in Record
          /\ calls[i].rec # NoRecord => w[i] = calls[i].rec
      BY <3>1 DEF WorksOn
    <3>4. ASSUME calls[i].rec = NoRecord
          PROVE  /\ calls'[i + 1].ids \subseteq Children(v[i])
                 /\ calls'[i + 1].rec # NoRecord => calls'[i + 1].rec \in Children(v[i])
                 /\ v[i + 1] \in Children(v[i])
      <4>1. /\ calls[i + 1].ids \subseteq Children(w[i])
            /\ calls[i + 1].rec # NoRecord => calls[i + 1].rec \in Children(w[i])
            /\ i + 1 < L => w[i + 1] \in Children(w[i])
        BY <3>1, <3>4 DEF WorksOn
      <4>2. CASE i + 1 = L
        BY <1>1, <1>2, <1>4, <1>6, <1>7, <3>2, <4>1, <4>2
      <4>3. CASE i + 1 # L
        <5>1. i + 1 \in 1..(L - 1) /\ i + 1 < L BY <1>1, <3>1, <4>3
        <5> QED BY <1>2, <1>6, <3>2, <4>1, <5>1
      <4> QED BY <4>2, <4>3
    <3> QED BY <3>2, <3>3, <3>4
  <2> QED BY <2>1, <2>2
<1>9. WorksOn(v)'
  <2>1. Len(calls') - 1 = L BY <1>1, <1>2
  <2> QED BY <1>2, <1>3, <1>8, <2>1 DEF WorksOn
<1>10. /\ Waiting' = Waiting \cup (IF call.rec = NoRecord THEN {} ELSE {L})
       /\ L \notin Waiting
  <2>1. Len(calls') - 1 = L BY <1>1, <1>2
  <2>2. L \notin Waiting BY <1>1 DEF Waiting
  <2>3. ASSUME NEW i \in 1..L
        PROVE  i \in Waiting' <=> i \in Waiting \/ (i = L /\ call.rec # NoRecord)
    <3>1. CASE i = L BY <1>2, <2>1, <2>2, <3>1 DEF Waiting
    <3>2. CASE i # L
      <4>1. i \in 1..(L - 1) BY <1>1, <3>2
      <4> QED BY <1>2, <2>1, <3>2, <4>1 DEF Waiting
    <3> QED BY <3>1, <3>2
  <2>4. Waiting' \subseteq 1..L /\ Waiting \subseteq 1..L /\ L \in 1..L
    BY <1>1, <2>1 DEF Waiting
  <2> QED BY <2>2, <2>3, <2>4
<1>11. current' = Pushed(ids)
  BY <1>2 DEF current
<1> QED BY <1>2, <1>9, <1>10, <1>11

\* The top call ends: what is below it stays explained.
LEMMA CallReturns ==
  ASSUME ExportTypes, ExportTypes', IsFiniteSet(Record), calls # <<>>, base' = base,
         calls' = SubSeq(calls, 1, Len(calls) - 1), NEW w \in Trail, WorksOn(w)
  PROVE  WorksOn(w)' /\ Waiting' \subseteq Waiting
<1> DEFINE L == Len(calls)
<1>1. L \in Nat \ {0}
  BY CurrentCall
<1>2. Len(calls') = L - 1 /\ \A k \in 1..(L - 1) : calls'[k] = calls[k]
  <2>1. calls \in Seq(DumpCall) /\ L - 1 \in Nat /\ L - 1 <= Len(calls)
    BY <1>1 DEF ExportTypes
  <2>2. calls' = SubSeq(calls, 1, L - 1) OBVIOUS
  <2> HIDE DEF L
  <2> QED BY <2>1, <2>2, BeginningFacts
<1>3. \A r : Children(r)' = Children(r)
  BY SameDatabase
<1>4. \A i \in 1..(L - 2) : i \in 1..(L - 1) /\ i + 1 \in 1..(L - 1) /\ i + 1 < L
  BY <1>1
<1>5. Len(calls') - 1 = L - 2 BY <1>1, <1>2
<1>6. Waiting' \subseteq Waiting
  BY <1>2, <1>4, <1>5 DEF Waiting
<1>7. ASSUME NEW i \in 1..(L - 2)
      PROVE  /\ w[i] \in Record
             /\ calls'[i].rec # NoRecord => w[i] = calls'[i].rec
             /\ calls'[i].rec = NoRecord =>
                  /\ calls'[i + 1].ids \subseteq Children(w[i])
                  /\ calls'[i + 1].rec # NoRecord => calls'[i + 1].rec \in Children(w[i])
                  /\ w[i + 1] \in Children(w[i])
  <2>1. /\ i \in 1..(L - 1) /\ i + 1 < L /\ calls'[i] = calls[i] /\ calls'[i + 1] = calls[i + 1]
    BY <1>2, <1>4
  <2> QED BY <2>1 DEF WorksOn
<1>8. WorksOn(w)'
  BY <1>3, <1>5, <1>7 DEF WorksOn
<1> QED BY <1>6, <1>8

\* While calls are made, what waits is counted and the stack is explained.
DepthInv ==
  /\ ExportTypes
  /\ Acyclic => place # "lost"
  /\ place = "dump" => WaitsCounted /\ \E w \in Trail : WorksOn(w)

LEMMA DepthInit ==
  ASSUME IsFiniteSet(Record), NEW b \in Base, ExportStart(b)
  PROVE  DepthInv
<1>1. ExportTypes BY ExportTypesInit
<1>2. Len(calls) = 1 /\ known = {} /\ place = "dump" BY DEF ExportStart
<1>3. Waiting = {} /\ \A w \in Trail : WorksOn(w)
  BY <1>2 DEF Waiting, WorksOn
<1>4. [i \in Nat |-> NoRecord] \in Trail BY DEF Trail
<1>5. WaitsCounted BY <1>2, <1>3, FS_EmptySet DEF WaitsCounted
<1> QED BY <1>1, <1>2, <1>3, <1>4, <1>5 DEF DepthInv

LEMMA DepthStep ==
  ASSUME IsFiniteSet(Record), MaxDepth > Cardinality(Record) * (Cardinality(Record) + 1),
         DepthInv, [ExportNext]_exportVars
  PROVE  DepthInv'
<1>1. ExportTypes /\ ExportTypes' BY ExportTypesStep DEF DepthInv
<1>2. Acyclic => place # "lost" BY DEF DepthInv
<1>a. base' = base => Acyclic' = Acyclic BY DEF Acyclic, Links
<1>b. ASSUME calls # <<>>, current.rec \in Record, place = "dump", Acyclic
      PROVE  Len(calls) < MaxDepth
  <2>1. PICK w \in Trail : WorksOn(w) BY <1>b DEF DepthInv
  <2>2. Len(calls) <= Cardinality(Record) * (Cardinality(Record) + 1)
    BY <1>1, <1>b, <2>1, StackBounded DEF DepthInv
  <2>3. Cardinality(Record) \in Nat BY FS_CardinalityType
  <2>4. Cardinality(Record) * (Cardinality(Record) + 1) \in Nat BY <2>3
  <2> DEFINE bound == Cardinality(Record) * (Cardinality(Record) + 1)
  <2> HIDE DEF bound
  <2>5. bound \in Nat /\ Len(calls) <= bound /\ MaxDepth > bound BY <2>2, <2>4 DEF bound
  <2> QED BY <1>1, <2>5, ExportAssumption DEF ExportTypes
<1>c. /\ Cardinality(Waiting) \in Nat /\ IsFiniteSet(Waiting) /\ Cardinality(known) \in Nat
      /\ \A f \in Record \ known : Cardinality(known \cup {f}) = Cardinality(known) + 1
      /\ \A f \in known : known \cup {f} = known
  BY <1>1, WaitingFinite
<1>d. place = "dump" => WaitsCounted /\ \E w \in Trail : WorksOn(w) BY DEF DepthInv
<1>3. CASE NextRecord
  <2>1. /\ calls # <<>> /\ current.rec = NoRecord /\ place = "dump" /\ place' = place /\ base' = base
    BY <1>1, <1>3, NextRecordStep
  <2>2. PICK r \in current.ids, call \in DumpCall :
          /\ calls' = Becomes(call) /\ call.ids = current.ids \ {r} /\ call.top = current.top
          /\ \/ r \in base.named /\ current.top /\ call.rec = NoRecord /\ known' = known
             \/ call.rec = r /\ known' = known \cup {r}
    BY <1>1, <1>3, NextRecordStep
  <2>3. PICK w \in Trail : WorksOn(w) BY <1>d, <2>1
  <2>4. WorksOn(w)' /\ Waiting' = Waiting /\ current' = call
    BY <1>1, <2>1, <2>2, <2>3, TopGoesOn
  <2>5. r \in Record BY <1>1, <2>1, CurrentCall
  <2>6. Cardinality(Waiting) <= Cardinality(known')
    <3>1. CASE Cardinality(Waiting) <= Cardinality(known)
      <4>1. CASE known' = known BY <3>1, <4>1
      <4>2. CASE known' = known \cup {r} /\ r \in known
        <5>1. known' = known BY <1>c, <4>2
        <5> QED BY <3>1, <5>1
      <4>3. CASE known' = known \cup {r} /\ r \notin known
        <5>1. Cardinality(known') = Cardinality(known) + 1 BY <1>c, <2>5, <4>3
        <5> QED BY <1>c, <3>1, <5>1
      <4> QED BY <2>2, <4>1, <4>2, <4>3
    <3>2. CASE /\ Cardinality(Waiting) <= Cardinality(known) + 1 /\ ~current.top
               /\ \E f \in Record \ known : current.ids = {f}
      BY <1>c, <2>2, <3>2
    <3> QED BY <1>d, <2>1, <3>1, <3>2 DEF WaitsCounted
  <2>7. WaitsCounted' BY <2>4, <2>6 DEF WaitsCounted
  <2> QED BY <1>1, <1>2, <1>a, <2>1, <2>4, <2>7 DEF DepthInv
<1>4. CASE NextRef
  <2>1. /\ calls # <<>> /\ current.rec \in Record /\ place = "dump" /\ base' = base
    BY <1>1, <1>4, NextRefStep
  <2>2. PICK f \in current.refs, call \in DumpCall :
          /\ call.ids = current.ids /\ call.rec = current.rec
          /\ known' = known \/ known' = known \cup {f}
          /\ \/ calls' = Becomes(call) /\ place' = place
             \/ calls' = Append(Becomes(call), Pushed({f})) /\ place' = place /\ f \notin known
             \/ place' = "lost" /\ ~(Len(Becomes(call)) < MaxDepth)
    BY <1>1, <1>4, NextRefStep
  <2>3. PICK w \in Trail : WorksOn(w) BY <1>d, <2>1
  <2>4. f \in Record /\ current.rec # NoRecord BY <1>1, <2>1, CurrentCall, ExportAssumption
  <2>5. Cardinality(Waiting) <= Cardinality(known) BY <1>d, <2>1, <2>4 DEF WaitsCounted
  <2>6. CASE calls' = Becomes(call) /\ place' = place
    <3>1. WorksOn(w)' /\ Waiting' = Waiting
      BY <1>1, <2>1, <2>2, <2>3, <2>6, TopGoesOn
    <3>2. Cardinality(Waiting) <= Cardinality(known')
      <4>1. CASE known' = known BY <2>5, <4>1
      <4>2. CASE known' = known \cup {f} /\ f \in known
        <5>1. known' = known BY <1>c, <4>2
        <5> QED BY <2>5, <5>1
      <4>3. CASE known' = known \cup {f} /\ f \notin known
        <5>1. Cardinality(known') = Cardinality(known) + 1 BY <1>c, <2>4, <4>3
        <5> QED BY <1>c, <2>5, <5>1
      <4> QED BY <2>2, <4>1, <4>2, <4>3
    <3>3. WaitsCounted' BY <3>1, <3>2 DEF WaitsCounted
    <3> QED BY <1>1, <1>2, <1>a, <2>1, <2>6, <3>1, <3>3 DEF DepthInv
  <2>7. CASE calls' = Append(Becomes(call), Pushed({f})) /\ place' = place /\ f \notin known
    <3>1. {f} \in SUBSET Record BY <2>4
    <3>2. /\ \E v \in Trail : WorksOn(v)'
          /\ Waiting' = Waiting \cup {Len(calls)} /\ Len(calls) \notin Waiting
          /\ current'.ids = {f} /\ current'.rec = NoRecord /\ ~current'.top
      BY <1>1, <2>1, <2>2, <2>3, <2>4, <2>7, <3>1, AnotherCall
    <3>3. Cardinality(Waiting') = Cardinality(Waiting) + 1
      BY <1>c, <3>2, FS_AddElement
    <3>4. WaitsCounted'
      <4>1. CASE known' = known
        BY <1>c, <2>4, <2>5, <2>7, <3>2, <3>3, <4>1 DEF WaitsCounted
      <4>2. CASE known' = known \cup {f}
        BY <1>c, <2>4, <2>5, <2>7, <3>3, <4>2 DEF WaitsCounted
      <4> QED BY <2>2, <4>1, <4>2
    <3> QED BY <1>1, <1>2, <1>a, <2>1, <2>7, <3>2, <3>4 DEF DepthInv
  <2>8. CASE place' = "lost" /\ ~(Len(Becomes(call)) < MaxDepth)
    <3>1. Len(Becomes(call)) = Len(calls) BY <1>1, <2>1, BecomesFacts
    <3>2. ~Acyclic BY <1>b, <2>1, <2>8, <3>1
    <3> QED BY <1>1, <1>a, <2>1, <2>8, <3>2 DEF DepthInv
  <2> QED BY <2>2, <2>6, <2>7, <2>8
<1>5. CASE Emit
  <2>1. /\ calls # <<>> /\ current.rec \in Record /\ place = "dump" /\ base' = base /\ known' = known
    BY <1>1, <1>5, EmitStep
  <2>2. PICK call \in DumpCall :
          /\ call.ids = current.ids /\ call.rec = NoRecord
          /\ \/ calls' = Append(Becomes(call), Pushed(Children(current.rec))) /\ place' = place
             \/ place' = "lost" /\ ~(Len(Becomes(call)) < MaxDepth)
    BY <1>1, <1>5, EmitStep
  <2>3. PICK w \in Trail : WorksOn(w) BY <1>d, <2>1
  <2>4. current.rec # NoRecord BY <2>1, ExportAssumption
  <2>5. Cardinality(Waiting) <= Cardinality(known) BY <1>d, <2>1, <2>4 DEF WaitsCounted
  <2>6. CASE calls' = Append(Becomes(call), Pushed(Children(current.rec))) /\ place' = place
    <3>1. Children(current.rec) \in SUBSET Record BY <1>1, <2>1, LinksAreRecords DEF ExportTypes
    <3>2. (\E v \in Trail : WorksOn(v)') /\ Waiting' = Waiting
      BY <1>1, <2>1, <2>2, <2>3, <2>6, <3>1, AnotherCall
    <3>3. WaitsCounted' BY <2>1, <2>5, <3>2 DEF WaitsCounted
    <3> QED BY <1>1, <1>2, <1>a, <2>1, <2>6, <3>2, <3>3 DEF DepthInv
  <2>7. CASE place' = "lost" /\ ~(Len(Becomes(call)) < MaxDepth)
    <3>1. Len(Becomes(call)) = Len(calls) BY <1>1, <2>1, BecomesFacts
    <3>2. ~Acyclic BY <1>b, <2>1, <2>7, <3>1
    <3> QED BY <1>1, <1>a, <2>1, <2>7, <3>2 DEF DepthInv
  <2> QED BY <2>2, <2>6, <2>7
<1>6. CASE Return
  <2>1. /\ calls # <<>> /\ current.ids = {} /\ place = "dump" /\ base' = base /\ known' = known
        /\ calls' = SubSeq(calls, 1, Len(calls) - 1) /\ place' \in {"save", "dump"}
    BY <1>1, <1>6, ReturnStep
  <2>2. PICK w \in Trail : WorksOn(w) BY <1>d, <2>1
  <2>3. WorksOn(w)' /\ Waiting' \subseteq Waiting BY <1>1, <2>1, <2>2, CallReturns
  <2>4. Cardinality(Waiting) <= Cardinality(known) BY <1>d, <2>1 DEF WaitsCounted
  <2>5. Cardinality(Waiting') <= Cardinality(Waiting) /\ Cardinality(Waiting') \in Nat
    <3>1. Waiting' \in SUBSET Waiting BY <2>3
    <3> QED BY <1>c, <3>1, FS_Subset, FS_CardinalityType
  <2>6. WaitsCounted' BY <1>c, <2>1, <2>4, <2>5 DEF WaitsCounted
  <2> QED BY <1>1, <1>a, <2>1, <2>3, <2>6 DEF DepthInv
<1>7. CASE SaveRecord \/ WriteFile \/ ExportFails
  BY <1>1, <1>2, <1>a, <1>7 DEF SaveRecord, WriteFile, ExportFails, DepthInv
<1>8. CASE UNCHANGED exportVars
  <2>1. WaitsCounted' = WaitsCounted /\ \A w : WorksOn(w)' = WorksOn(w)
    BY <1>8, SameDatabase DEF exportVars, WaitsCounted, Waiting, current, WorksOn
  <2>2. base' = base /\ place' = place BY <1>8 DEF exportVars
  <2> QED BY <1>1, <1>2, <1>a, <1>d, <2>1, <2>2 DEF DepthInv
<1> QED BY <1>3, <1>4, <1>5, <1>6, <1>7, <1>8 DEF ExportNext

\* The recursion of dump() ends: when references do not turn in circles, calls
\* nest no deeper than n(n + 1) for n records, although one2many fields come
\* back to records whose call is still in progress (lines 274-333).  A limit
\* above that is never met; the default limit of Python, 1000, is above it for
\* up to 31 records.
THEOREM RecursionBounded ==
  ASSUME IsFiniteSet(Record), MaxDepth > Cardinality(Record) * (Cardinality(Record) + 1)
  PROVE  ExportSpec => []RecursionEnds
<1>1. (\E b \in Base : ExportStart(b)) => DepthInv BY DepthInit
<1>2. DepthInv /\ [ExportNext]_exportVars => DepthInv' BY DepthStep
<1>3. DepthInv => RecursionEnds BY DEF DepthInv, RecursionEnds
<1> QED BY <1>1, <1>2, <1>3, PTL DEF ExportSpec

-----------------------------------------------------------------------------
(***************************************************************************)
(* Proofs about DeliveryFix for any lines and moves.  First, sums over a   *)
(* finite set of moves: MapThenSumSet takes the elements one by one, in an *)
(* order of its own; what it returns does not depend on it.                *)
(***************************************************************************)
Total(F, S) == MapThenSumSet(LAMBDA m : F[m].qty, S)

OneOf(s) == CHOOSE x \in s : TRUE

\* g sums the quantities in F of any part of S as MapThenSumSet does.
Sums(g, F, S) ==
  g = [s \in SUBSET S |-> IF s = {} THEN 0 ELSE F[OneOf(s)].qty + g[s \ {OneOf(s)}]]

LEMMA LeastOf ==
  ASSUME NEW T \in SUBSET Nat, T # {}
  PROVE  \E m \in T : \A n \in T : m <= n
<1> DEFINE R == OpToRel(<, Nat)
<1>1. IsWellFoundedOn(R, Nat)
  BY NatLessThanWellFounded, Zenon
<1>2. \A x, y \in Nat : x < y => <<x, y>> \in R
  BY Zenon DEF OpToRel
<1> HIDE DEF R
<1>3. PICK m \in T : \A y \in T : ~ (<<y, m>> \in R)
  BY <1>1, WFMin
<1>4. \A y \in T : ~(y < m) BY <1>2, <1>3
<1>5. m \in Nat /\ \A y \in T : y \in Nat OBVIOUS
<1>6. \A y \in Nat : ~(y < m) => m <= y BY <1>5
<1> QED BY <1>4, <1>5, <1>6

\* A smallest set of those for which something fails.
LEMMA SmallestOf ==
  ASSUME NEW S, IsFiniteSet(S), NEW B \in SUBSET (SUBSET S), B # {}
  PROVE  \E s \in B : \A t \in B : ~(t \subseteq s /\ t # s)
<1> DEFINE sizes == {Cardinality(s) : s \in B}
<1>1. \A s \in B : IsFiniteSet(s) /\ Cardinality(s) \in Nat
  BY FS_Subset, FS_CardinalityType
<1>2. sizes \in SUBSET Nat /\ sizes # {} BY <1>1
<1>3. PICK n \in sizes : \A k \in sizes : n <= k BY <1>2, LeastOf
<1>4. PICK s \in B : n = Cardinality(s) BY <1>3
<1>5. ASSUME NEW t \in B, t \subseteq s, t # s PROVE FALSE
  <2>1. Cardinality(t) < Cardinality(s)
    <3>1. t \in SUBSET s BY <1>5
    <3>2. Cardinality(t) <= Cardinality(s) /\ Cardinality(t) # Cardinality(s)
      BY <1>1, <1>5, <3>1, FS_Subset
    <3> QED BY <1>1, <3>2
  <2>2. Cardinality(t) \in sizes BY <1>5
  <2> QED BY <1>1, <1>3, <1>4, <2>1, <2>2
<1> QED BY <1>5

LEMMA OneOfIn == ASSUME NEW s, s # {} PROVE OneOf(s) \in s
  BY DEF OneOf

LEMMA SumsOfParts ==
  ASSUME NEW F, NEW S, NEW g, Sums(g, F, S)
  PROVE  /\ {} \in SUBSET S => g[{}] = 0
         /\ \A s \in SUBSET S : s # {} => g[s] = F[OneOf(s)].qty + g[s \ {OneOf(s)}]
<1>1. \A s \in SUBSET S :
        g[s] = IF s = {} THEN 0 ELSE F[OneOf(s)].qty + g[s \ {OneOf(s)}]
  BY DEF Sums
<1> QED BY <1>1

\* The sums of two functions that agree are the same.
LEMMA SameSums ==
  ASSUME NEW F, NEW S, NEW g, Sums(g, F, S), NEW E, NEW U \in SUBSET S, IsFiniteSet(U),
         NEW h, Sums(h, E, U), \A m \in U : E[m].qty = F[m].qty
  PROVE  g[U] = h[U]
<1> DEFINE B == {s \in SUBSET U : g[s] # h[s]}
<1>1. SUFFICES ASSUME B # {} PROVE FALSE OBVIOUS
<1>2. PICK s \in B : \A t \in B : ~(t \subseteq s /\ t # s)
  <2>1. B \in SUBSET (SUBSET U) OBVIOUS
  <2> HIDE DEF B
  <2> QED BY <1>1, <2>1, SmallestOf
<1>3. s \in SUBSET U /\ s \in SUBSET S /\ g[s] # h[s] BY <1>2
<1>4. s # {} BY <1>3, SumsOfParts
<1>5. OneOf(s) \in s BY <1>4, OneOfIn
<1> DEFINE t == s \ {OneOf(s)}
<1>6. g[t] = h[t] BY <1>2, <1>3, <1>5
<1>7. g[s] = F[OneOf(s)].qty + g[t] /\ h[s] = E[OneOf(s)].qty + h[t]
  BY <1>3, <1>4, SumsOfParts
<1>8. E[OneOf(s)].qty = F[OneOf(s)].qty BY <1>3, <1>5
<1> HIDE DEF t
<1> QED BY <1>3, <1>6, <1>7, <1>8

\* Whichever element is taken first, the sum is the same.
LEMMA SumsAdd ==
  ASSUME NEW F, NEW S, IsFiniteSet(S), \A m \in S : F[m].qty \in Nat, NEW g, Sums(g, F, S)
  PROVE  \A s \in SUBSET S : g[s] \in Nat /\ \A m \in s : g[s] = F[m].qty + g[s \ {m}]
<1> DEFINE Fine(s) == g[s] \in Nat /\ \A m \in s : g[s] = F[m].qty + g[s \ {m}]
           B == {s \in SUBSET S : ~Fine(s)}
<1>1. SUFFICES ASSUME B # {} PROVE FALSE OBVIOUS
<1>2. PICK s \in B : \A t \in B : ~(t \subseteq s /\ t # s)
  <2>1. B \in SUBSET (SUBSET S) OBVIOUS
  <2> HIDE DEF B
  <2> QED BY <1>1, <2>1, SmallestOf
<1>3. s \in SUBSET S /\ ~Fine(s) BY <1>2
<1>4. \A t \in SUBSET s : t # s => Fine(t) BY <1>2, <1>3
<1>5. s # {}
  <2>1. CASE s = {}
    <3>1. g[s] = 0 BY <1>3, <2>1, SumsOfParts
    <3> QED BY <1>3, <2>1, <3>1
  <2> QED BY <2>1
<1> DEFINE x == OneOf(s)
<1>6. x \in s BY <1>5, OneOfIn
<1>7. g[s] = F[x].qty + g[s \ {x}]
  <2>1. s \in SUBSET S BY <1>3
  <2> HIDE DEF Fine, B
  <2> QED BY <1>5, <2>1, SumsOfParts
<1>8. g[s \ {x}] \in Nat /\ F[x].qty \in Nat BY <1>3, <1>4, <1>6
<1> HIDE DEF x
<1>9. ASSUME NEW m \in s PROVE g[s] = F[m].qty + g[s \ {m}]
  <2>1. CASE m = x BY <1>7, <2>1
  <2>2. CASE m # x
    <3>1. /\ s \ {x} \in SUBSET s /\ s \ {x} # s /\ m \in s \ {x}
          /\ s \ {m} \in SUBSET s /\ s \ {m} # s /\ x \in s \ {m}
          /\ (s \ {x}) \ {m} \in SUBSET s /\ (s \ {x}) \ {m} # s
          /\ (s \ {x}) \ {m} = (s \ {m}) \ {x}
      BY <1>6, <1>9, <2>2
    <3> DEFINE a == s \ {x}
               b == s \ {m}
               c == (s \ {x}) \ {m}
    <3>2. g[a] = F[m].qty + g[c] BY <1>4, <3>1
    <3>3. g[b] = F[x].qty + g[c] BY <1>4, <3>1
    <3>4. g[c] \in Nat /\ F[m].qty \in Nat BY <1>3, <1>4, <1>9, <3>1
    <3>5. g[s] = F[x].qty + g[a] BY <1>7
    <3> HIDE DEF a, b, c
    <3>6. g[s] = F[m].qty + g[b] BY <1>8, <3>2, <3>3, <3>4, <3>5
    <3> QED BY <3>6 DEF b
  <2> QED BY <2>1, <2>2
<1>10. g[s] \in Nat BY <1>7, <1>8
<1> QED BY <1>3, <1>9, <1>10

\* Such a function exists.
LEMMA SumsExist ==
  ASSUME NEW F, NEW S, IsFiniteSet(S), \A m \in S : F[m].qty \in Nat
  PROVE  \E g : Sums(g, F, S)
<1> DEFINE Small(n) == {s \in SUBSET S : Cardinality(s) <= n}
           after_(g, s) == IF s = {} THEN 0 ELSE F[OneOf(s)].qty + g[s \ {OneOf(s)}]
           SumsTo(g, n) == g = [s \in Small(n) |-> after_(g, s)]
           B == {n \in Nat : \A g : ~SumsTo(g, n)}
<1>1. \A s \in SUBSET S : IsFiniteSet(s) /\ Cardinality(s) \in Nat
  BY FS_Subset, FS_CardinalityType
<1>2. ASSUME NEW n \in Nat, NEW s \in Small(n + 1), s # {} PROVE s \ {OneOf(s)} \in Small(n)
  <2>1. OneOf(s) \in s BY <1>2, OneOfIn
  <2>2. Cardinality(s \ {OneOf(s)}) = Cardinality(s) - 1
    BY <1>1, <2>1, FS_RemoveElement
  <2>3. Cardinality(s) \in Nat /\ Cardinality(s) <= n + 1 BY <1>1
  <2>4. Cardinality(s) - 1 <= n BY <2>3
  <2> QED BY <2>2, <2>4
<1>3. B = {}
  <2> SUFFICES ASSUME B # {} PROVE FALSE OBVIOUS
  <2>1. PICK n \in B : \A k \in B : n <= k
    <3>1. B \in SUBSET Nat OBVIOUS
    <3> HIDE DEF B
    <3> QED BY <3>1, LeastOf
  <2>2. CASE n = 0
    <3>1. \A s \in Small(0) : s = {}
      <4>1. ASSUME NEW s \in Small(0) PROVE s = {}
        <5>1. Cardinality(s) = 0 BY <1>1
        <5> QED BY <1>1, <5>1, FS_EmptySet
      <4> QED BY <4>1
    <3> DEFINE g == [s \in Small(0) |-> 0]
    <3>2. SumsTo(g, 0)
      <4> HIDE DEF Small
      <4> QED BY <3>1
    <3> QED BY <2>1, <2>2, <3>2
  <2>3. CASE n # 0
    <3>1. n - 1 \in Nat /\ (n - 1) + 1 = n /\ ~(n <= n - 1) BY <2>1, <2>3
    <3>2. PICK g : SumsTo(g, n - 1)
      <4>1. n - 1 \notin B BY <2>1, <3>1
      <4> HIDE DEF SumsTo
      <4> QED BY <3>1, <4>1
    <3> DEFINE h == [s \in Small(n) |-> after_(g, s)]
    <3>3. ASSUME NEW s \in Small(n - 1) PROVE s \in Small(n) /\ h[s] = g[s]
      <4>1. s \in Small(n) BY <1>1, <2>1, <3>1
      <4>2. g[s] = after_(g, s) BY <3>2
      <4> HIDE DEF after_
      <4> QED BY <4>1, <4>2
    <3>4. ASSUME NEW s \in Small(n) PROVE after_(g, s) = after_(h, s)
      <4>1. CASE s = {} BY <4>1
      <4>2. CASE s # {}
        <5>1. s \ {OneOf(s)} \in Small(n - 1) BY <1>2, <3>1, <4>2
        <5>2. h[s \ {OneOf(s)}] = g[s \ {OneOf(s)}] BY <3>3, <5>1
        <5> HIDE DEF h
        <5> QED BY <5>2
      <4> QED BY <4>1, <4>2
    <3>5. SumsTo(h, n)
      <4>1. h = [s \in Small(n) |-> after_(h, s)]
        <5> HIDE DEF after_, Small
        <5> QED BY <3>4
      <4> QED BY <4>1
    <3> HIDE DEF h, SumsTo
    <3> QED BY <2>1, <3>5
  <2> QED BY <2>2, <2>3
<1>4. Cardinality(S) \in Nat BY <1>1
<1>5. PICK g : SumsTo(g, Cardinality(S)) BY <1>3, <1>4
<1>6. Small(Cardinality(S)) = SUBSET S BY FS_Subset
<1> QED BY <1>5, <1>6 DEF Sums

\* What Total sums with.
LEMMA TotalSums ==
  ASSUME NEW F, NEW S, IsFiniteSet(S), \A m \in S : F[m].qty \in Nat
  PROVE  \E g : Sums(g, F, S) /\ Total(F, S) = g[S]
<1> DEFINE g == CHOOSE g : Sums(g, F, S)
<1>1. Sums(g, F, S) BY SumsExist
<1>2. Total(F, S) = g[S]
  BY DEF Total, MapThenSumSet, MapThenFoldSet, Sums, OneOf
<1> QED BY <1>1, <1>2

\* The facts that are used of sums.
LEMMA TotalFacts ==
  ASSUME NEW F, NEW S, IsFiniteSet(S), \A m \in S : F[m].qty \in Nat
  PROVE  /\ Total(F, S) \in Nat
         /\ Total(F, {}) = 0
         /\ \A m \in S : Total(F, S) = F[m].qty + Total(F, S \ {m})
         /\ \A E : (\A m \in S : E[m].qty = F[m].qty) => Total(E, S) = Total(F, S)
<1>1. PICK g : Sums(g, F, S) /\ Total(F, S) = g[S] BY TotalSums
<1>2. Total(F, S) \in Nat /\ \A m \in S : Total(F, S) = F[m].qty + g[S \ {m}]
  <2>1. \A s \in SUBSET S : g[s] \in Nat /\ \A m \in s : g[s] = F[m].qty + g[s \ {m}]
    BY <1>1, SumsAdd
  <2>2. S \in SUBSET S OBVIOUS
  <2> QED BY <1>1, <2>1, <2>2
<1>3. ASSUME NEW m \in S PROVE Total(F, S \ {m}) = g[S \ {m}]
  <2>1. S \ {m} \in SUBSET S /\ IsFiniteSet(S \ {m}) BY FS_Subset
  <2>2. PICK h : Sums(h, F, S \ {m}) /\ Total(F, S \ {m}) = h[S \ {m}] BY <2>1, TotalSums
  <2> QED BY <1>1, <2>1, <2>2, SameSums
<1>4. Total(F, {}) = 0
  <2>1. IsFiniteSet({}) BY FS_EmptySet
  <2>2. PICK h : Sums(h, F, {}) /\ Total(F, {}) = h[{}] BY <2>1, TotalSums
  <2> QED BY <2>2, SumsOfParts
<1>5. ASSUME NEW E, \A m \in S : E[m].qty = F[m].qty PROVE Total(E, S) = Total(F, S)
  <2>1. \A m \in S : E[m].qty \in Nat BY <1>5
  <2>2. PICK h : Sums(h, E, S) /\ Total(E, S) = h[S] BY <2>1, TotalSums
  <2> QED BY <1>1, <1>5, <2>2, SameSums
<1> QED BY <1>2, <1>3, <1>4, <1>5

LEMMA LowestIn == ASSUME NEW S \in SUBSET Nat, S # {} PROVE Min(S) \in S
<1>1. \E x \in S : \A y \in S : x <= y BY LeastOf
<1> QED BY <1>1 DEF Min

LEMMA HighestIn ==
  ASSUME NEW S, IsFiniteSet(S), S # {} PROVE S \subseteq Nat => Max(S) \in S
<1> DEFINE B == {T \in SUBSET S : T # {} /\ ~\E x \in T : \A y \in T : x >= y}
<1>1. B # {} => \E s \in B : \A t \in B : ~(t \subseteq s /\ t # s)
  <2>1. B \in SUBSET (SUBSET S) OBVIOUS
  <2> HIDE DEF B
  <2> QED BY <2>1, SmallestOf
<1>2. SUFFICES ASSUME S \subseteq Nat, B # {} PROVE FALSE
  <2>1. ASSUME B = {} PROVE Max(S) \in S
    <3>1. \E x \in S : \A y \in S : x >= y BY <2>1
    <3> QED BY <3>1 DEF Max
  <2> QED BY <1>2, <2>1
<1> QED
  <2>1. PICK s \in B : \A t \in B : ~(t \subseteq s /\ t # s) BY <1>1, <1>2
  <2>2. PICK x \in s : TRUE BY <2>1
  <2>3. x \in Nat /\ \A y \in s : y \in Nat BY <1>2, <2>1, <2>2
  <2>4. CASE s \ {x} = {}
    <3>1. \A y \in s : x >= y BY <2>2, <2>3, <2>4
    <3> QED BY <2>1, <2>2, <3>1
  <2>5. CASE s \ {x} # {}
    <3>1. s \ {x} \in SUBSET S /\ s \ {x} \subseteq s /\ s \ {x} # s BY <2>1, <2>2
    <3>2. s \ {x} \notin B BY <2>1, <3>1
    <3>3. PICK z \in s \ {x} : \A y \in s \ {x} : z >= y BY <2>5, <3>1, <3>2
    <3>4. CASE x >= z
      <4>1. \A y \in s : x >= y BY <2>3, <3>3, <3>4
      <4> QED BY <2>1, <2>2, <4>1
    <3>5. CASE ~(x >= z)
      <4>1. \A y \in s : z >= y BY <2>3, <3>3, <3>5
      <4> QED BY <2>1, <3>3, <4>1
    <3> QED BY <3>4, <3>5
  <2> QED BY <2>4, <2>5

-----------------------------------------------------------------------------
FixData == [line : Nat, product : Product, qty : Nat \ {0},
            state : {"waiting", "confirmed", "assigned", "done", "cancel"}]

\* The moves that F links to a line, and the done ones among them.
Linked(F, l) == {m \in DOMAIN F : F[m].line = l}

DoneLinked(F, l) == {m \in Linked(F, l) : F[m].state = "done"}

\* A move that was linked to no line is linked to one.
LEMMA OneMoreLinked ==
  ASSUME NEW M, IsFiniteSet(M), NEW F \in [M -> FixData], NEW E \in [M -> FixData],
         NEW m \in M, F[m].line = Unlinked, E[m].line # Unlinked,
         \A x \in M \ {m} : E[x].line = F[x].line /\ E[x].qty = F[x].qty
  PROVE  \A k : k # Unlinked =>
           /\ Total(F, Linked(F, k)) \in Nat
           /\ Total(E, Linked(E, k)) = IF k = E[m].line
                                       THEN E[m].qty + Total(F, Linked(F, k))
                                       ELSE Total(F, Linked(F, k))
<1> SUFFICES ASSUME NEW k, k # Unlinked
             PROVE  /\ Total(F, Linked(F, k)) \in Nat
                    /\ Total(E, Linked(E, k)) = IF k = E[m].line
                                                THEN E[m].qty + Total(F, Linked(F, k))
                                                ELSE Total(F, Linked(F, k))
  OBVIOUS
<1> DEFINE S == Linked(F, k)
<1>1. S \in SUBSET M /\ Linked(E, k) \in SUBSET M /\ m \notin S BY DEF Linked
<1>2. IsFiniteSet(S) /\ IsFiniteSet(Linked(E, k)) BY <1>1, FS_Subset
<1>3. \A x \in M : F[x].qty \in Nat /\ E[x].qty \in Nat BY DEF FixData
<1>4. \A x \in S : x # m /\ E[x].qty = F[x].qty BY <1>1
<1>5. Total(F, S) \in Nat /\ Total(E, S) = Total(F, S)
  <2> HIDE DEF S
  <2> QED BY <1>1, <1>2, <1>3, <1>4, TotalFacts
<1>6. CASE k = E[m].line
  <2>1. Linked(E, k) = S \cup {m} BY <1>6 DEF Linked
  <2>2. m \in Linked(E, k) /\ Linked(E, k) \ {m} = S BY <1>1, <2>1
  <2>3. Total(E, Linked(E, k)) = E[m].qty + Total(E, Linked(E, k) \ {m})
    <3> DEFINE U == Linked(E, k)
    <3>1. m \in U /\ U \in SUBSET M /\ IsFiniteSet(U) BY <1>1, <1>2, <2>2
    <3> HIDE DEF U
    <3>2. \A x \in U : E[x].qty \in Nat BY <1>3, <3>1
    <3>3. Total(E, U) = E[m].qty + Total(E, U \ {m}) BY <3>1, <3>2, TotalFacts
    <3> QED BY <3>3 DEF U
  <2> QED BY <1>5, <1>6, <2>2, <2>3
<1>7. CASE k # E[m].line
  <2>1. Linked(E, k) = S BY <1>7 DEF Linked
  <2> QED BY <1>5, <1>7, <2>1
<1> QED BY <1>6, <1>7

\* What is done stays linked as it was.
LEMMA SameDone ==
  ASSUME NEW M, IsFiniteSet(M), NEW F \in [M -> FixData], NEW E \in [M -> FixData],
         \A x \in M : /\ E[x].state = "done" <=> F[x].state = "done"
                      /\ F[x].state = "done" => E[x].line = F[x].line /\ E[x].qty = F[x].qty
  PROVE  \A k : Total(E, DoneLinked(E, k)) = Total(F, DoneLinked(F, k))
<1> SUFFICES ASSUME NEW k
             PROVE  Total(E, DoneLinked(E, k)) = Total(F, DoneLinked(F, k))
  OBVIOUS
<1> DEFINE S == DoneLinked(F, k)
<1>1. DoneLinked(E, k) = S /\ S \in SUBSET M /\ \A x \in S : E[x].qty = F[x].qty
  BY DEF DoneLinked, Linked
<1>2. IsFiniteSet(S) BY <1>1, FS_Subset
<1>3. \A x \in S : F[x].qty \in Nat BY <1>1 DEF FixData
<1> HIDE DEF S
<1>4. Total(E, S) = Total(F, S) BY <1>1, <1>2, <1>3, TotalFacts
<1> QED BY <1>1, <1>4 DEF S

\* Sums stay when only states change.
LEMMA SameLinked ==
  ASSUME NEW M, IsFiniteSet(M), NEW F \in [M -> FixData], NEW E \in [M -> FixData],
         \A x \in M : E[x].line = F[x].line /\ E[x].qty = F[x].qty
  PROVE  \A k : Total(E, Linked(E, k)) = Total(F, Linked(F, k))
<1> SUFFICES ASSUME NEW k
             PROVE  Total(E, Linked(E, k)) = Total(F, Linked(F, k))
  OBVIOUS
<1> DEFINE S == Linked(F, k)
<1>1. Linked(E, k) = S /\ S \in SUBSET M /\ \A x \in S : E[x].qty = F[x].qty
  BY DEF Linked
<1>2. IsFiniteSet(S) BY <1>1, FS_Subset
<1>3. \A x \in S : F[x].qty \in Nat BY <1>1 DEF FixData
<1> HIDE DEF S
<1>4. Total(E, S) = Total(F, S) BY <1>1, <1>2, <1>3, TotalFacts
<1> QED BY <1>1, <1>4 DEF S

-----------------------------------------------------------------------------
(***************************************************************************)
(* What check_po_in.py knows in each of its loops: what a line lacks and   *)
(* the moves linked to it are what was ordered.                            *)
(***************************************************************************)
OpenMoves == {m \in DOMAIN moves : moves[m].state # "done"}

FixTypes ==
  /\ DOMAIN lines \subseteq Line /\ lines \in [DOMAIN lines -> LineData]
  /\ DOMAIN moves \subseteq Move /\ moves \in [DOMAIN moves -> MoveData]
  /\ remaining \in [DOMAIN lines -> Nat]
  /\ lineState \in [DOMAIN lines -> {"confirmed", "done"}]
  /\ fixed \in [DOMAIN moves -> FixData]
  /\ spare \subseteq OpenMoves

LinksInv ==
  \A m \in DOMAIN moves :
    /\ fixed[m].line # Unlinked =>
         fixed[m].line \in DOMAIN lines /\ fixed[m].product = lines[fixed[m].line].product
    /\ fixed[m].state = "done" <=> moves[m].state = "done"
    /\ phase # "end" => fixed[m].state # "cancel"

\* Until the spare moves are filled a move is for what the database has.
AsRead(m) == fixed[m].product = moves[m].product /\ fixed[m].qty = moves[m].qty

Given(l) == Total(fixed, Linked(fixed, l))

DoneShown ==
  \A l \in DOMAIN lines :
    lineState[l] = "done" <=> Total(fixed, DoneLinked(fixed, l)) = lines[l].qty

AtDone ==
  phase = "done" =>
    /\ todo \subseteq DOMAIN moves \ OpenMoves /\ spare = {}
    /\ \A m \in DOMAIN moves :
         AsRead(m) /\ (fixed[m].line = Unlinked <=> m \in todo \cup OpenMoves)
    /\ \A l \in DOMAIN lines : Given(l) + remaining[l] = lines[l].qty

AtOpen ==
  phase = "open" =>
    /\ todo \subseteq OpenMoves /\ todo \cap spare = {}
    /\ \A m \in DOMAIN moves :
         AsRead(m) /\ (fixed[m].line = Unlinked <=> m \in todo \cup spare)
    /\ \A l \in DOMAIN lines :
         Given(l) + remaining[l] = lines[l].qty /\ (l \in ListConfirmed \/ remaining[l] = 0)
    /\ DoneShown

AtFill ==
  phase = "fill" =>
    /\ todo \subseteq DOMAIN lines
    /\ \A m \in DOMAIN moves : fixed[m].line = Unlinked <=> m \in spare
    /\ \A l \in todo : Given(l) + remaining[l] = lines[l].qty /\ remaining[l] # 0
    /\ \A l \in DOMAIN lines \ todo : Given(l) = lines[l].qty
    /\ DoneShown

AtEnd ==
  phase = "end" =>
    /\ \A m \in DOMAIN moves : fixed[m].line = Unlinked <=> fixed[m].state = "cancel"
    /\ \A l \in DOMAIN lines : Given(l) = lines[l].qty
    /\ DoneShown

FixInv == phase # "raised" => FixTypes /\ LinksInv /\ AtDone /\ AtOpen /\ AtFill /\ AtEnd

LEMMA MovesAre == Moves(FALSE) = OpenMoves /\ Moves(TRUE) = DOMAIN moves \ OpenMoves
  BY DEF Moves, OpenMoves

LEMMA FiniteMoves ==
  ASSUME FixTypes PROVE IsFiniteSet(DOMAIN moves) /\ DOMAIN moves \in SUBSET Nat
<1>1. DOMAIN moves \in SUBSET Move BY DEF FixTypes
<1> QED BY <1>1, FixAssumption, FS_Subset

LEMMA GivenInNat ==
  ASSUME FixTypes PROVE \A l : Given(l) \in Nat
<1> SUFFICES ASSUME NEW l PROVE Given(l) \in Nat OBVIOUS
<1> DEFINE S == Linked(fixed, l)
<1>1. S \in SUBSET DOMAIN moves BY DEF Linked, FixTypes
<1>2. IsFiniteSet(S) BY <1>1, FiniteMoves, FS_Subset
<1>3. \A x \in S : fixed[x].qty \in Nat BY <1>1 DEF FixTypes, FixData
<1> HIDE DEF S
<1>4. Total(fixed, S) \in Nat BY <1>2, <1>3, TotalFacts
<1> QED BY <1>4 DEF Given, S

LEMMA FixInvInit ==
  ASSUME NEW L \in SUBSET Line, NEW M \in SUBSET Move, NEW ls \in [L -> LineData],
         NEW ms \in [M -> MoveData], NEW got, NEW outgoing, FixStart(ls, ms, got, outgoing)
  PROVE  FixInv
<1>1. /\ lines = ls /\ moves = ms /\ phase = "done" /\ spare = {}
      /\ DOMAIN lines = L /\ DOMAIN moves = M
  BY DEF FixStart
<1>2. todo = DOMAIN moves \ OpenMoves BY <1>1 DEF FixStart, OpenMoves
<1>3. \A l \in L : ls[l].qty \in Nat /\ ls[l].state \in {"confirmed", "done"}
  BY DEF LineData
<1>4. remaining = [l \in L |-> ls[l].qty] /\ lineState = [l \in L |-> ls[l].state]
  BY <1>1 DEF FixStart
<1>5. /\ fixed = [m \in M |-> [line |-> Unlinked, product |-> ms[m].product,
                              qty |-> ms[m].qty, state |-> ms[m].state]]
  BY <1>1 DEF FixStart
<1>6. \A m \in M : /\ ms[m].product \in Product /\ ms[m].qty \in Nat \ {0}
                   /\ ms[m].state \in {"waiting", "confirmed", "assigned", "done"}
  BY DEF MoveData
<1>7. fixed \in [M -> FixData] BY <1>5, <1>6 DEF FixData, Unlinked
<1>8. FixTypes
  BY <1>1, <1>3, <1>4, <1>7 DEF FixTypes
<1>9. \A m \in M : /\ fixed[m].line = Unlinked /\ fixed[m].product = moves[m].product
                   /\ fixed[m].qty = moves[m].qty /\ fixed[m].state = moves[m].state
  BY <1>1, <1>5
<1>10. LinksInv
  BY <1>1, <1>6, <1>9 DEF LinksInv
<1>11. \A l \in L : Given(l) = 0
  <2> SUFFICES ASSUME NEW l \in L PROVE Given(l) = 0 OBVIOUS
  <2>1. l # Unlinked BY FixAssumption DEF Unlinked
  <2>2. Linked(fixed, l) = {} BY <1>1, <1>8, <1>9, <2>1 DEF Linked, FixTypes
  <2>3. IsFiniteSet({}) BY FS_EmptySet
  <2>4. Total(fixed, {}) = 0
    <3>1. \A m \in {} : fixed[m].qty \in Nat OBVIOUS
    <3> QED BY <2>3, <3>1, TotalFacts
  <2> QED BY <2>2, <2>4 DEF Given
<1>12. AtDone
  <2>1. \A l \in L : Given(l) + remaining[l] = lines[l].qty BY <1>1, <1>3, <1>4, <1>11
  <2> QED BY <1>1, <1>2, <1>9, <2>1 DEF AtDone, AsRead, OpenMoves
<1> QED BY <1>1, <1>8, <1>10, <1>12 DEF FixInv, AtOpen, AtFill, AtEnd

\* A move that is linked to no line is given to one that has enough left.
LEMMA AllotKeeps ==
  ASSUME FixTypes, NEW m \in DOMAIN moves, NEW l \in DOMAIN lines,
         fixed[m].line = Unlinked, fixed[m].qty = moves[m].qty,
         remaining[l] >= moves[m].qty,
         remaining' = [remaining EXCEPT ![l] = @ - moves[m].qty],
         lines' = lines, moves' = moves, fixed' \in [DOMAIN moves -> FixData],
         fixed'[m].line = l, fixed'[m].qty = fixed[m].qty,
         \A x \in DOMAIN moves \ {m} : fixed'[x] = fixed[x]
  PROVE  /\ remaining' \in [DOMAIN lines -> Nat]
         /\ \A k \in DOMAIN lines :
              /\ Given(k) + remaining[k] = lines[k].qty => Given(k)' + remaining'[k] = lines[k].qty
              /\ remaining[k] = 0 => k # l /\ remaining'[k] = 0
<1>1. moves[m].qty \in Nat \ {0} /\ remaining \in [DOMAIN lines -> Nat]
  BY DEF FixTypes, MoveData
<1>2. remaining' \in [DOMAIN lines -> Nat]
  <2>1. remaining[l] - moves[m].qty \in Nat BY <1>1
  <2> QED BY <1>1, <2>1
<1>3. l # Unlinked BY FixAssumption DEF FixTypes, Unlinked
<1>4. IsFiniteSet(DOMAIN moves) /\ fixed \in [DOMAIN moves -> FixData]
  BY FiniteMoves DEF FixTypes
<1>5. \A k \in DOMAIN lines :
        /\ Total(fixed, Linked(fixed, k)) \in Nat
        /\ Total(fixed', Linked(fixed', k)) = IF k = l
                                              THEN moves[m].qty + Total(fixed, Linked(fixed, k))
                                              ELSE Total(fixed, Linked(fixed, k))
  <2>1. fixed'[m].line # Unlinked BY <1>3
  <2>2. \A x \in DOMAIN moves \ {m} : fixed'[x].line = fixed[x].line /\ fixed'[x].qty = fixed[x].qty
    OBVIOUS
  <2>3. \A k : k # Unlinked =>
           /\ Total(fixed, Linked(fixed, k)) \in Nat
           /\ Total(fixed', Linked(fixed', k)) = IF k = fixed'[m].line
                                       THEN fixed'[m].qty + Total(fixed, Linked(fixed, k))
                                       ELSE Total(fixed, Linked(fixed, k))
    BY <1>4, <2>1, <2>2, OneMoreLinked
  <2>4. \A k \in DOMAIN lines : k # Unlinked BY FixAssumption DEF FixTypes, Unlinked
  <2> QED BY <2>3, <2>4
<1>6. ASSUME NEW k \in DOMAIN lines
      PROVE  /\ Given(k) + remaining[k] = lines[k].qty => Given(k)' + remaining'[k] = lines[k].qty
             /\ remaining[k] = 0 => k # l /\ remaining'[k] = 0
  <2>1. Given(k) \in Nat /\ Given(k)' = IF k = l THEN moves[m].qty + Given(k) ELSE Given(k)
    BY <1>5 DEF Given
  <2>2. remaining'[k] = IF k = l THEN remaining[k] - moves[m].qty ELSE remaining[k]
    BY <1>1
  <2>3. remaining[k] \in Nat BY <1>1
  <2>4. CASE k = l BY <1>1, <2>1, <2>2, <2>3, <2>4
  <2>5. CASE k # l BY <2>1, <2>2, <2>5
  <2> QED BY <2>4, <2>5
<1> QED BY <1>2, <1>6

LEMMA ShareDoneKeeps ==
  ASSUME FixInv, ShareDone PROVE FixInv'
<1> DEFINE m == Min(todo)
           done == OfProduct(moves[m].product, "done")
           list == IF done # {} THEN done ELSE OfProduct(moves[m].product, "confirmed")
           l == Min(Fits(m, list))
<1>1. SUFFICES ASSUME phase' # "raised" PROVE FixInv'
  BY DEF FixInv
<1>2. /\ phase = "done" /\ phase' = "done" /\ todo # {} /\ Fits(m, list) # {} /\ Allot(m, l)
      /\ todo' = todo \ {m} /\ lines' = lines /\ moves' = moves
      /\ lineState' = lineState /\ spare' = spare
  BY <1>1 DEF ShareDone, data
<1>3. FixTypes /\ LinksInv /\ AtDone BY <1>2 DEF FixInv
<1>4. m \in todo /\ m \in DOMAIN moves /\ m \notin OpenMoves
  <2>1. todo \in SUBSET Nat /\ todo \subseteq DOMAIN moves \ OpenMoves
    BY <1>2, <1>3, FiniteMoves DEF AtDone
  <2> QED BY <1>2, <2>1, LowestIn
<1> HIDE DEF m
<1>5. l \in Fits(m, list) /\ l \in DOMAIN lines
  <2>1. Fits(m, list) \in SUBSET DOMAIN lines BY DEF Fits, OfProduct
  <2>2. DOMAIN lines \in SUBSET Nat BY <1>3, FixAssumption DEF FixTypes
  <2> HIDE DEF list
  <2> QED BY <1>2, <2>1, <2>2, LowestIn
<1> HIDE DEF l, list
<1>6. lines[l].product = moves[m].product /\ remaining[l] >= moves[m].qty
  BY <1>5 DEF Fits
<1>7. /\ remaining' = [remaining EXCEPT ![l] = @ - moves[m].qty]
      /\ fixed' = [fixed EXCEPT ![m].line = l]
  BY <1>2 DEF Allot
<1>8. fixed \in [DOMAIN moves -> FixData] BY <1>3 DEF FixTypes
<1>9. l \in Nat /\ l # Unlinked BY <1>3, <1>5, FixAssumption DEF FixTypes, Unlinked
<1>10. /\ fixed' \in [DOMAIN moves -> FixData]
       /\ fixed'[m].line = l /\ fixed'[m].qty = fixed[m].qty
       /\ fixed'[m].product = fixed[m].product /\ fixed'[m].state = fixed[m].state
       /\ \A x \in DOMAIN moves \ {m} : fixed'[x] = fixed[x]
  <2>1. fixed' = [fixed EXCEPT ![m] = [fixed[m] EXCEPT !.line = l]] BY <1>4, <1>7, <1>8
  <2>2. [fixed[m] EXCEPT !.line = l] \in FixData BY <1>4, <1>8, <1>9 DEF FixData
  <2>3. fixed[m] \in FixData BY <1>4, <1>8
  <2> QED BY <1>4, <1>8, <2>1, <2>2, <2>3 DEF FixData
<1>11. fixed[m].line = Unlinked /\ AsRead(m)
  BY <1>2, <1>3, <1>4 DEF AtDone
<1>12. /\ remaining' \in [DOMAIN lines -> Nat]
       /\ \A k \in DOMAIN lines :
            Given(k) + remaining[k] = lines[k].qty => Given(k)' + remaining'[k] = lines[k].qty
  BY <1>2, <1>3, <1>4, <1>5, <1>6, <1>7, <1>10, <1>11, AllotKeeps DEF AsRead
<1>13. OpenMoves' = OpenMoves BY <1>2 DEF OpenMoves
<1>14. FixTypes' BY <1>2, <1>3, <1>10, <1>12, <1>13 DEF FixTypes
<1>15. LinksInv' BY <1>2, <1>3, <1>5, <1>6, <1>10, <1>11 DEF LinksInv, AsRead
<1>16. AtDone'
  <2>1. \A x \in DOMAIN moves :
          AsRead(x)' /\ (fixed'[x].line = Unlinked <=> x \in todo' \cup OpenMoves)
    BY <1>2, <1>3, <1>4, <1>9, <1>10 DEF AtDone, AsRead
  <2>2. \A k \in DOMAIN lines : Given(k)' + remaining'[k] = lines[k].qty
    BY <1>2, <1>3, <1>12 DEF AtDone
  <2>3. todo' \subseteq DOMAIN moves \ OpenMoves /\ spare' = {} BY <1>2, <1>3 DEF AtDone
  <2> QED BY <1>2, <1>13, <2>1, <2>2, <2>3 DEF AtDone
<1> QED BY <1>2, <1>14, <1>15, <1>16 DEF FixInv, AtOpen, AtFill, AtEnd

\* When all done moves are linked, what a line still lacks shows its state.
LEMMA ReopenKeeps ==
  ASSUME FixInv, Reopen PROVE FixInv'
<1>1. /\ phase = "done" /\ phase' = "open" /\ todo = {} /\ todo' = OpenMoves
      /\ lineState' = [l \in DOMAIN lines |-> NewState(l)]
      /\ lines' = lines /\ moves' = moves
      /\ remaining' = remaining /\ fixed' = fixed /\ spare' = spare
  BY MovesAre DEF Reopen, data
<1>2. FixTypes /\ LinksInv /\ AtDone BY <1>1 DEF FixInv
<1>3. \A l \in DOMAIN lines : lines[l].state \in {"confirmed", "done"} /\ lines[l].qty \in Nat
  BY <1>2 DEF FixTypes, LineData
<1>4. ASSUME NEW l \in DOMAIN lines
      PROVE  /\ lineState'[l] \in {"confirmed", "done"}
             /\ lineState'[l] = "done" <=> remaining[l] = 0
             /\ l \in ListConfirmed' \/ remaining[l] = 0
  <2>1. lineState'[l] = NewState(l) BY <1>1
  <2>2. lineState'[l] \in {"confirmed", "done"} /\ (lineState'[l] = "done" <=> remaining[l] = 0)
    BY <1>3, <2>1 DEF NewState
  <2>3. l \in ListConfirmed' \/ remaining[l] = 0
    BY <1>1, <2>2 DEF ListConfirmed
  <2> QED BY <2>2, <2>3
<1>5. OpenMoves' = OpenMoves BY <1>1 DEF OpenMoves
<1>6. FixTypes'
  <2>1. lineState' \in [DOMAIN lines -> {"confirmed", "done"}] BY <1>1, <1>4
  <2> QED BY <1>1, <1>2, <1>5, <2>1 DEF FixTypes
<1>7. LinksInv' BY <1>1, <1>2 DEF LinksInv
<1>8. \A l \in DOMAIN lines : Linked(fixed, l) = DoneLinked(fixed, l)
  <2>1. ASSUME NEW l \in DOMAIN lines, NEW m \in Linked(fixed, l) PROVE fixed[m].state = "done"
    <3>1. m \in DOMAIN moves /\ fixed[m].line = l BY <1>2, <2>1 DEF Linked, FixTypes
    <3>2. l # Unlinked BY <1>2, FixAssumption DEF FixTypes, Unlinked
    <3>3. m \notin OpenMoves BY <1>1, <1>2, <3>1, <3>2 DEF AtDone
    <3> QED BY <1>2, <3>1, <3>3 DEF LinksInv, OpenMoves
  <2> QED BY <2>1 DEF DoneLinked
<1>9. \A l \in DOMAIN lines :
        Given(l) \in Nat /\ remaining[l] \in Nat /\ Given(l) + remaining[l] = lines[l].qty
  BY <1>1, <1>2, GivenInNat DEF FixTypes, AtDone
<1>10. DoneShown'
  <2>1. ASSUME NEW l \in DOMAIN lines
        PROVE  lineState'[l] = "done" <=> Total(fixed, DoneLinked(fixed, l)) = lines[l].qty
    <3>1. Total(fixed, DoneLinked(fixed, l)) = Given(l) BY <1>8 DEF Given
    <3>2. Given(l) = lines[l].qty <=> remaining[l] = 0 BY <1>3, <1>9
    <3> QED BY <1>4, <3>1, <3>2
  <2> QED BY <1>1, <2>1 DEF DoneShown
<1>11. AtOpen'
  <2>1. \A l \in DOMAIN lines :
          Given(l)' + remaining'[l] = lines[l].qty /\ (l \in ListConfirmed' \/ remaining'[l] = 0)
    BY <1>1, <1>4, <1>9 DEF Given
  <2>2. \A m \in DOMAIN moves :
          AsRead(m)' /\ (fixed'[m].line = Unlinked <=> m \in todo' \cup spare')
    BY <1>1, <1>2 DEF AtDone, AsRead
  <2>3. todo' \subseteq OpenMoves /\ todo' \cap spare' = {} BY <1>1, <1>2 DEF AtDone
  <2> QED BY <1>1, <1>5, <1>10, <2>1, <2>2, <2>3 DEF AtOpen
<1> QED BY <1>1, <1>6, <1>7, <1>11 DEF FixInv, AtDone, AtFill, AtEnd

LEMMA ComparedOpen ==
  ASSUME NEW p, NEW qty PROVE Compare(p, qty) \in {"confirmed", "assigned"}
  BY DEF Compare

LEMMA ShareOpenKeeps ==
  ASSUME FixInv, ShareOpen PROVE FixInv'
<1> DEFINE m == Min(todo)
           p == moves[m].product
           list == {k \in ListConfirmed : lines[k].product = p}
           l == FirstListed(Fits(m, list))
           compared == out /\ moves[m].state \in {"assigned", "confirmed"}
           state == IF compared THEN Compare(p, moves[m].qty) ELSE fixed[m].state
<1>1. SUFFICES ASSUME phase' # "raised" PROVE FixInv'
  BY DEF FixInv
<1>2. /\ phase = "open" /\ phase' = "open" /\ todo # {} /\ todo' = todo \ {m}
      /\ lines' = lines /\ moves' = moves /\ lineState' = lineState
      /\ IF Fits(m, list) = {}
         THEN spare' = spare \cup {m} /\ remaining' = remaining
         ELSE /\ remaining' = [remaining EXCEPT ![l] = @ - moves[m].qty]
              /\ spare' = spare
      /\ fixed' = [fixed EXCEPT
           ![m].line = IF Fits(m, list) = {} THEN @ ELSE l,
           ![m].state = IF compared THEN Compare(p, moves[m].qty) ELSE @]
  BY <1>1 DEF ShareOpen, data
<1>3. FixTypes /\ LinksInv /\ AtOpen BY <1>2 DEF FixInv
<1>4. m \in todo /\ m \in DOMAIN moves /\ m \in OpenMoves /\ m \notin spare
  <2>1. todo \in SUBSET Nat /\ todo \subseteq OpenMoves /\ OpenMoves \subseteq DOMAIN moves
    BY <1>2, <1>3, FiniteMoves DEF AtOpen, OpenMoves
  <2>2. m \in todo BY <1>2, <2>1, LowestIn
  <2> QED BY <1>2, <1>3, <2>1, <2>2 DEF AtOpen
<1> HIDE DEF m
<1>5. fixed[m].line = Unlinked /\ AsRead(m) BY <1>2, <1>3, <1>4 DEF AtOpen
<1>6. /\ fixed \in [DOMAIN moves -> FixData] /\ fixed[m] \in FixData
      /\ fixed[m].state \notin {"done", "cancel"}
  BY <1>2, <1>3, <1>4 DEF FixTypes, LinksInv, OpenMoves
<1>7. state \in {"waiting", "confirmed", "assigned"}
  <2>1. Compare(p, moves[m].qty) \in {"confirmed", "assigned"} BY ComparedOpen
  <2>2. fixed[m].state \in {"waiting", "confirmed", "assigned"} BY <1>6 DEF FixData
  <2> HIDE DEF p, compared
  <2> QED BY <2>1, <2>2
<1>8. OpenMoves' = OpenMoves /\ ListConfirmed' = ListConfirmed
  BY <1>2 DEF OpenMoves, ListConfirmed
<1> HIDE DEF state
<1>9. CASE Fits(m, list) = {}
  <2>1. fixed' = [fixed EXCEPT ![m] = [fixed[m] EXCEPT !.state = state]]
    <3> HIDE DEF compared, p
    <3>1. fixed[m] = [line |-> fixed[m].line, product |-> fixed[m].product,
                      qty |-> fixed[m].qty, state |-> fixed[m].state]
      BY <1>6 DEF FixData
    <3> QED BY <1>2, <1>4, <1>6, <1>9, <3>1 DEF state
  <2>2. [fixed[m] EXCEPT !.state = state] \in FixData BY <1>6, <1>7 DEF FixData
  <2>3. /\ fixed' \in [DOMAIN moves -> FixData]
        /\ fixed'[m].line = Unlinked /\ fixed'[m].qty = fixed[m].qty
        /\ fixed'[m].product = fixed[m].product /\ fixed'[m].state = state
        /\ \A x \in DOMAIN moves \ {m} : fixed'[x] = fixed[x]
    BY <1>4, <1>5, <1>6, <2>1, <2>2 DEF FixData
  <2>4. spare' = spare \cup {m} /\ remaining' = remaining BY <1>2, <1>9
  <2>5. \A k : Given(k)' = Given(k)
    <3>1. IsFiniteSet(DOMAIN moves) BY <1>3, FiniteMoves
    <3>2. \A x \in DOMAIN moves : fixed'[x].line = fixed[x].line /\ fixed'[x].qty = fixed[x].qty
      BY <1>5, <2>3
    <3>3. \A k : Total(fixed', Linked(fixed', k)) = Total(fixed, Linked(fixed, k))
      BY <1>6, <2>3, <3>1, <3>2, SameLinked
    <3> QED BY <3>3 DEF Given
  <2>6. FixTypes' BY <1>2, <1>3, <1>4, <1>8, <2>3, <2>4 DEF FixTypes
  <2>7. LinksInv'
    BY <1>2, <1>3, <1>4, <1>6, <1>7, <2>3 DEF LinksInv
  <2>8. \A x \in DOMAIN moves :
          AsRead(x)' /\ (fixed'[x].line = Unlinked <=> x \in todo' \cup spare')
    BY <1>2, <1>3, <1>4, <1>5, <2>3, <2>4 DEF AtOpen, AsRead
  <2>9. \A k \in DOMAIN lines :
          Given(k)' + remaining'[k] = lines[k].qty /\ (k \in ListConfirmed \/ remaining'[k] = 0)
    BY <1>2, <1>3, <2>4, <2>5 DEF AtOpen
  <2>10. todo' \subseteq OpenMoves /\ todo' \cap spare' = {} BY <1>2, <1>3, <2>4 DEF AtOpen
  <2>11. DoneShown'
    <3>1. IsFiniteSet(DOMAIN moves) BY <1>3, FiniteMoves
    <3>2. \A x \in DOMAIN moves :
             /\ fixed'[x].state = "done" <=> fixed[x].state = "done"
             /\ fixed[x].state = "done" => fixed'[x].line = fixed[x].line /\ fixed'[x].qty = fixed[x].qty
      BY <1>6, <1>7, <2>3
    <3>3. \A k : Total(fixed', DoneLinked(fixed', k)) = Total(fixed, DoneLinked(fixed, k))
      BY <1>6, <2>3, <3>1, <3>2, SameDone
    <3> QED BY <1>2, <1>3, <3>3 DEF AtOpen, DoneShown
  <2>12. AtOpen' BY <1>2, <1>8, <2>8, <2>9, <2>10, <2>11 DEF AtOpen
  <2> QED BY <1>2, <2>6, <2>7, <2>12 DEF FixInv, AtDone, AtFill, AtEnd
<1>10. CASE Fits(m, list) # {}
  <2>1. l \in Fits(m, list) /\ l \in ListConfirmed /\ l \in DOMAIN lines
    <3>1. Fits(m, list) \in SUBSET ListConfirmed /\ ListConfirmed \in SUBSET DOMAIN lines
      BY DEF Fits, ListConfirmed
    <3>2. DOMAIN lines \in SUBSET Nat BY <1>3, FixAssumption DEF FixTypes
    <3> DEFINE S == Fits(m, list)
               before == {k \in S : lines[k].state = "confirmed"}
    <3>3. S \in SUBSET Nat /\ S # {} /\ before \in SUBSET Nat BY <1>10, <3>1, <3>2
    <3>4. CASE before # {}
      <4>1. l = Min(before) BY <3>4 DEF FirstListed
      <4>2. Min(before) \in before
        <5> HIDE DEF before
        <5> QED BY <3>3, <3>4, LowestIn
      <4> QED BY <3>1, <4>1, <4>2
    <3>5. CASE before = {}
      <4>1. l = Min(S) BY <3>5 DEF FirstListed
      <4>2. Min(S) \in S
        <5> HIDE DEF S
        <5> QED BY <3>3, LowestIn
      <4> QED BY <3>1, <4>1, <4>2
    <3> QED BY <3>4, <3>5
  <2>2. lines[l].product = moves[m].product /\ remaining[l] >= moves[m].qty
    BY <2>1 DEF Fits
  <2> HIDE DEF l
  <2>3. l \in Nat /\ l # Unlinked BY <1>3, <2>1, FixAssumption DEF FixTypes, Unlinked
  <2>4. fixed' = [fixed EXCEPT ![m] = [fixed[m] EXCEPT !.line = l, !.state = state]]
    <3> HIDE DEF compared, p, list
    <3>1. fixed[m] = [line |-> fixed[m].line, product |-> fixed[m].product,
                      qty |-> fixed[m].qty, state |-> fixed[m].state]
      BY <1>6 DEF FixData
    <3> QED BY <1>2, <1>4, <1>6, <1>10, <3>1 DEF state
  <2>5. [fixed[m] EXCEPT !.line = l, !.state = state] \in FixData
    BY <1>6, <1>7, <2>3 DEF FixData
  <2>6. /\ fixed' \in [DOMAIN moves -> FixData]
        /\ fixed'[m].line = l /\ fixed'[m].qty = fixed[m].qty
        /\ fixed'[m].product = fixed[m].product /\ fixed'[m].state = state
        /\ \A x \in DOMAIN moves \ {m} : fixed'[x] = fixed[x]
    BY <1>4, <1>5, <1>6, <2>4, <2>5 DEF FixData
  <2>7. spare' = spare /\ remaining' = [remaining EXCEPT ![l] = @ - moves[m].qty]
    BY <1>2, <1>10
  <2>8. /\ remaining' \in [DOMAIN lines -> Nat]
        /\ \A k \in DOMAIN lines :
             /\ Given(k) + remaining[k] = lines[k].qty => Given(k)' + remaining'[k] = lines[k].qty
             /\ remaining[k] = 0 => k # l /\ remaining'[k] = 0
    BY <1>2, <1>3, <1>4, <1>5, <2>1, <2>2, <2>6, <2>7, AllotKeeps DEF AsRead
  <2>9. FixTypes' BY <1>2, <1>3, <1>8, <2>6, <2>7, <2>8 DEF FixTypes
  <2>10. LinksInv'
    BY <1>2, <1>3, <1>4, <1>5, <1>6, <1>7, <2>1, <2>2, <2>6 DEF LinksInv, AsRead
  <2>11. \A x \in DOMAIN moves :
          AsRead(x)' /\ (fixed'[x].line = Unlinked <=> x \in todo' \cup spare')
    BY <1>2, <1>3, <1>4, <1>5, <2>3, <2>6, <2>7 DEF AtOpen, AsRead
  <2>12. \A k \in DOMAIN lines :
          Given(k)' + remaining'[k] = lines[k].qty /\ (k \in ListConfirmed \/ remaining'[k] = 0)
    BY <1>2, <1>3, <2>8 DEF AtOpen
  <2>13. todo' \subseteq OpenMoves /\ todo' \cap spare' = {} BY <1>2, <1>3, <2>7 DEF AtOpen
  <2>14. DoneShown'
    <3>1. IsFiniteSet(DOMAIN moves) BY <1>3, FiniteMoves
    <3>2. \A x \in DOMAIN moves :
             /\ fixed'[x].state = "done" <=> fixed[x].state = "done"
             /\ fixed[x].state = "done" => fixed'[x].line = fixed[x].line /\ fixed'[x].qty = fixed[x].qty
      BY <1>6, <1>7, <2>6
    <3>3. \A k : Total(fixed', DoneLinked(fixed', k)) = Total(fixed, DoneLinked(fixed, k))
      BY <1>6, <2>6, <3>1, <3>2, SameDone
    <3> QED BY <1>2, <1>3, <3>3 DEF AtOpen, DoneShown
  <2>15. AtOpen' BY <1>2, <1>8, <2>11, <2>12, <2>13, <2>14 DEF AtOpen
  <2> QED BY <1>2, <2>9, <2>10, <2>15 DEF FixInv, AtDone, AtFill, AtEnd
<1> QED BY <1>9, <1>10

LEMMA OpenSharedKeeps ==
  ASSUME FixInv, OpenShared PROVE FixInv'
<1>1. /\ phase = "open" /\ phase' = "fill" /\ todo = {}
      /\ todo' = {l \in ListConfirmed : remaining[l] # 0}
      /\ lines' = lines /\ moves' = moves /\ lineState' = lineState
      /\ remaining' = remaining /\ fixed' = fixed /\ spare' = spare
  BY DEF OpenShared, data
<1>2. FixTypes /\ LinksInv /\ AtOpen BY <1>1 DEF FixInv
<1>3. OpenMoves' = OpenMoves /\ \A l : Given(l)' = Given(l) BY <1>1 DEF OpenMoves, Given
<1>4. FixTypes' BY <1>1, <1>2, <1>3 DEF FixTypes
<1>5. LinksInv' BY <1>1, <1>2 DEF LinksInv
<1>6. todo' \subseteq DOMAIN lines BY <1>1 DEF ListConfirmed
<1>7. \A l \in DOMAIN lines \ todo' : Given(l) = lines[l].qty
  <2>1. ASSUME NEW l \in DOMAIN lines \ todo' PROVE Given(l) = lines[l].qty
    <3>1. remaining[l] = 0 BY <1>1, <1>2, <2>1 DEF AtOpen
    <3>2. Given(l) \in Nat /\ Given(l) + remaining[l] = lines[l].qty
      BY <1>1, <1>2, <2>1, GivenInNat DEF AtOpen
    <3> QED BY <3>1, <3>2
  <2> QED BY <2>1
<1>8. DoneShown' BY <1>1, <1>2 DEF AtOpen, DoneShown
<1>9. AtFill'
  <2>1. \A m \in DOMAIN moves : fixed[m].line = Unlinked <=> m \in spare
    BY <1>1, <1>2 DEF AtOpen
  <2>2. \A l \in todo' : Given(l) + remaining[l] = lines[l].qty /\ remaining[l] # 0
    BY <1>1, <1>2, <1>6 DEF AtOpen
  <2> QED BY <1>1, <1>3, <1>6, <1>7, <1>8, <2>1, <2>2 DEF AtFill
<1> QED BY <1>1, <1>4, <1>5, <1>9 DEF FixInv, AtDone, AtOpen, AtEnd

LEMMA FillKeeps ==
  ASSUME FixInv, Fill PROVE FixInv'
<1> DEFINE m == Max(spare)
           compared == out /\ moves[Max(Moves(FALSE))].state \in {"assigned", "confirmed"}
<1>1. SUFFICES ASSUME phase' # "raised" PROVE FixInv'
  BY DEF FixInv
<1>2. /\ phase = "fill" /\ phase' = "fill" /\ spare # {}
      /\ lines' = lines /\ moves' = moves /\ lineState' = lineState /\ remaining' = remaining
      /\ spare' = spare \ {m}
  BY <1>1 DEF Fill, data
<1>3. PICK l \in todo :
        /\ todo' = todo \ {l}
        /\ fixed' = [fixed EXCEPT ![m] =
             [line |-> l, product |-> lines[l].product, qty |-> remaining[l],
              state |-> IF compared THEN Restated(m, Compare(lines[l].product, remaining[l]))
                        ELSE @.state]]
  BY <1>1 DEF Fill
<1>4. FixTypes /\ LinksInv /\ AtFill BY <1>2 DEF FixInv
<1>5. m \in spare /\ m \in DOMAIN moves /\ m \in OpenMoves
  <2>1. spare \subseteq OpenMoves /\ OpenMoves \subseteq DOMAIN moves
    BY <1>4 DEF FixTypes, OpenMoves
  <2>2. spare \subseteq Nat /\ IsFiniteSet(spare)
    <3>1. spare \in SUBSET DOMAIN moves BY <2>1
    <3> QED BY <1>4, <3>1, FiniteMoves, FS_Subset
  <2>3. Max(spare) \in spare BY <1>2, <2>2, HighestIn
  <2> QED BY <2>1, <2>3
<1> HIDE DEF m
<1>6. /\ l \in DOMAIN lines /\ l \in Nat /\ l # Unlinked
      /\ remaining[l] \in Nat \ {0} /\ lines[l].product \in Product
  BY <1>2, <1>3, <1>4, FixAssumption DEF AtFill, FixTypes, LineData, Unlinked
<1>7. /\ fixed \in [DOMAIN moves -> FixData] /\ fixed[m] \in FixData
      /\ fixed[m].state \notin {"done", "cancel"} /\ fixed[m].line = Unlinked
  BY <1>2, <1>4, <1>5 DEF FixTypes, LinksInv, OpenMoves, AtFill
<1> DEFINE state == IF compared THEN Restated(m, Compare(lines[l].product, remaining[l]))
                    ELSE fixed[m].state
           new == [line |-> l, product |-> lines[l].product, qty |-> remaining[l], state |-> state]
<1>8. state \in {"waiting", "confirmed", "assigned"}
  <2>1. Compare(lines[l].product, remaining[l]) \in {"confirmed", "assigned"} BY ComparedOpen
  <2>2. fixed[m].state \in {"waiting", "confirmed", "assigned"} BY <1>7 DEF FixData
  <2>3. Restated(m, Compare(lines[l].product, remaining[l])) \in {"waiting", "confirmed", "assigned"}
    BY <2>1, <2>2 DEF Restated
  <2> HIDE DEF compared
  <2> QED BY <2>2, <2>3
<1>9. fixed' = [fixed EXCEPT ![m] = new]
  <2> HIDE DEF compared
  <2> QED BY <1>3, <1>5, <1>7
<1> HIDE DEF state
<1>10. new \in FixData BY <1>6, <1>8 DEF FixData
<1>11. /\ new.line = l /\ new.product = lines[l].product /\ new.qty = remaining[l]
       /\ new.state = state
  OBVIOUS
<1> HIDE DEF new
<1>12. /\ fixed' \in [DOMAIN moves -> FixData] /\ fixed'[m] = new
       /\ \A x \in DOMAIN moves \ {m} : fixed'[x] = fixed[x]
  BY <1>5, <1>7, <1>9, <1>10
<1>13. IsFiniteSet(DOMAIN moves) /\ OpenMoves' = OpenMoves
  BY <1>2, <1>4, FiniteMoves DEF OpenMoves
<1>14. \A k \in DOMAIN lines :
         /\ Given(k) \in Nat
         /\ Given(k)' = IF k = l THEN remaining[l] + Given(k) ELSE Given(k)
  <2>1. \A x \in DOMAIN moves \ {m} : fixed'[x].line = fixed[x].line /\ fixed'[x].qty = fixed[x].qty
    BY <1>12
  <2>2. fixed'[m].line # Unlinked /\ fixed'[m].line = l /\ fixed'[m].qty = remaining[l]
    BY <1>6, <1>11, <1>12
  <2>3. \A k : k # Unlinked =>
           /\ Total(fixed, Linked(fixed, k)) \in Nat
           /\ Total(fixed', Linked(fixed', k)) = IF k = fixed'[m].line
                                       THEN fixed'[m].qty + Total(fixed, Linked(fixed, k))
                                       ELSE Total(fixed, Linked(fixed, k))
    BY <1>5, <1>7, <1>12, <1>13, <2>1, <2>2, OneMoreLinked
  <2>4. \A k \in DOMAIN lines : k # Unlinked BY <1>4, FixAssumption DEF FixTypes, Unlinked
  <2> QED BY <2>2, <2>3, <2>4 DEF Given
<1>15. FixTypes' BY <1>2, <1>4, <1>12, <1>13 DEF FixTypes
<1>16. LinksInv'
  <2>1. ASSUME NEW x \in DOMAIN moves
        PROVE  /\ fixed'[x].line # Unlinked => /\ fixed'[x].line \in DOMAIN lines
                                               /\ fixed'[x].product = lines[fixed'[x].line].product
               /\ fixed'[x].state = "done" <=> moves[x].state = "done"
               /\ fixed'[x].state # "cancel"
    <3>1. CASE x = m
      <4>1. moves[x].state # "done" BY <1>5, <3>1 DEF OpenMoves
      <4> QED BY <1>6, <1>8, <1>11, <1>12, <3>1, <4>1
    <3>2. CASE x # m
      BY <1>2, <1>4, <1>12, <3>2 DEF LinksInv
    <3> QED BY <3>1, <3>2
  <2> QED BY <1>2, <2>1 DEF LinksInv
<1>17. DoneShown'
  <2>1. \A x \in DOMAIN moves :
           /\ fixed'[x].state = "done" <=> fixed[x].state = "done"
           /\ fixed[x].state = "done" => fixed'[x].line = fixed[x].line /\ fixed'[x].qty = fixed[x].qty
    BY <1>7, <1>8, <1>11, <1>12
  <2>2. \A k : Total(fixed', DoneLinked(fixed', k)) = Total(fixed, DoneLinked(fixed, k))
    BY <1>7, <1>12, <1>13, <2>1, SameDone
  <2> QED BY <1>2, <1>4, <2>2 DEF AtFill, DoneShown
<1>18. AtFill'
  <2>1. \A x \in DOMAIN moves : fixed'[x].line = Unlinked <=> x \in spare'
    BY <1>2, <1>4, <1>6, <1>11, <1>12 DEF AtFill
  <2>2. \A k \in todo' : Given(k)' + remaining[k] = lines[k].qty /\ remaining[k] # 0
    BY <1>2, <1>3, <1>4, <1>14 DEF AtFill
  <2>3. ASSUME NEW k \in DOMAIN lines \ todo' PROVE Given(k)' = lines[k].qty
    <3>1. CASE k = l
      <4>1. Given(k) + remaining[k] = lines[k].qty BY <1>2, <1>3, <1>4, <3>1 DEF AtFill
      <4> QED BY <1>6, <1>14, <3>1, <4>1
    <3>2. CASE k # l
      BY <1>2, <1>3, <1>4, <1>14, <2>3, <3>2 DEF AtFill
    <3> QED BY <3>1, <3>2
  <2>4. todo' \subseteq DOMAIN lines BY <1>2, <1>3, <1>4 DEF AtFill
  <2> QED BY <1>2, <1>17, <2>1, <2>2, <2>3, <2>4 DEF AtFill
<1> QED BY <1>2, <1>15, <1>16, <1>18 DEF FixInv, AtDone, AtOpen, AtEnd

LEMMA CancelSpareKeeps ==
  ASSUME FixInv, CancelSpare PROVE FixInv'
<1>1. /\ phase = "fill" /\ phase' = "end" /\ todo = {}
      /\ fixed' = [m \in DOMAIN fixed |-> IF m \in spare THEN [fixed[m] EXCEPT !.state = "cancel"]
                                          ELSE fixed[m]]
      /\ lines' = lines /\ moves' = moves /\ lineState' = lineState
      /\ remaining' = remaining /\ spare' = spare
  BY DEF CancelSpare, data
<1>2. FixTypes /\ LinksInv /\ AtFill BY <1>1 DEF FixInv
<1>3. OpenMoves' = OpenMoves /\ IsFiniteSet(DOMAIN moves) /\ fixed \in [DOMAIN moves -> FixData]
  BY <1>1, <1>2, FiniteMoves DEF OpenMoves, FixTypes
<1>4. ASSUME NEW m \in DOMAIN moves
      PROVE  /\ fixed'[m] \in FixData /\ fixed'[m].line = fixed[m].line
             /\ fixed'[m].qty = fixed[m].qty /\ fixed'[m].product = fixed[m].product
             /\ fixed'[m].state = IF m \in spare THEN "cancel" ELSE fixed[m].state
  <2>1. fixed[m] \in FixData BY <1>3
  <2>2. [fixed[m] EXCEPT !.state = "cancel"] \in FixData BY <2>1 DEF FixData
  <2>3. /\ [fixed[m] EXCEPT !.state = "cancel"].line = fixed[m].line
        /\ [fixed[m] EXCEPT !.state = "cancel"].qty = fixed[m].qty
        /\ [fixed[m] EXCEPT !.state = "cancel"].product = fixed[m].product
        /\ [fixed[m] EXCEPT !.state = "cancel"].state = "cancel"
    BY <2>1 DEF FixData
  <2>4. fixed'[m] = IF m \in spare THEN [fixed[m] EXCEPT !.state = "cancel"] ELSE fixed[m]
    BY <1>1, <1>3
  <2> QED BY <2>1, <2>2, <2>3, <2>4
<1>5. fixed' \in [DOMAIN moves -> FixData] BY <1>1, <1>3, <1>4
<1>6. FixTypes' BY <1>1, <1>2, <1>3, <1>5 DEF FixTypes
<1>7. \A m \in spare : m \in DOMAIN moves /\ moves[m].state # "done" /\ fixed[m].state # "done"
  BY <1>2 DEF FixTypes, LinksInv, OpenMoves
<1>8. LinksInv'
  <2>1. ASSUME NEW m \in DOMAIN moves
        PROVE  /\ fixed'[m].line # Unlinked => /\ fixed'[m].line \in DOMAIN lines
                                               /\ fixed'[m].product = lines[fixed'[m].line].product
               /\ fixed'[m].state = "done" <=> moves[m].state = "done"
    <3>1. /\ fixed[m].line # Unlinked => /\ fixed[m].line \in DOMAIN lines
                                         /\ fixed[m].product = lines[fixed[m].line].product
          /\ fixed[m].state = "done" <=> moves[m].state = "done"
      BY <1>2 DEF LinksInv
    <3>2. CASE m \in spare BY <1>4, <1>7, <3>1, <3>2
    <3>3. CASE m \notin spare BY <1>4, <3>1, <3>3
    <3> QED BY <3>2, <3>3
  <2> QED BY <1>1, <2>1 DEF LinksInv
<1>9. \A l : Given(l)' = Given(l)
  <2>1. \A m \in DOMAIN moves : fixed'[m].line = fixed[m].line /\ fixed'[m].qty = fixed[m].qty
    BY <1>4
  <2>2. \A l : Total(fixed', Linked(fixed', l)) = Total(fixed, Linked(fixed, l))
    BY <1>3, <1>5, <2>1, SameLinked
  <2> QED BY <2>2 DEF Given
<1>10. DoneShown'
  <2>1. \A x \in DOMAIN moves :
           /\ fixed'[x].state = "done" <=> fixed[x].state = "done"
           /\ fixed[x].state = "done" => fixed'[x].line = fixed[x].line /\ fixed'[x].qty = fixed[x].qty
    BY <1>4, <1>7
  <2>2. \A k : Total(fixed', DoneLinked(fixed', k)) = Total(fixed, DoneLinked(fixed, k))
    BY <1>3, <1>5, <2>1, SameDone
  <2> QED BY <1>1, <1>2, <2>2 DEF AtFill, DoneShown
<1>11. AtEnd'
  <2>1. \A m \in DOMAIN moves : fixed'[m].line = Unlinked <=> fixed'[m].state = "cancel"
    <3>1. ASSUME NEW m \in DOMAIN moves
          PROVE  fixed'[m].line = Unlinked <=> fixed'[m].state = "cancel"
      <4>1. (fixed[m].line = Unlinked <=> m \in spare) /\ fixed[m].state # "cancel"
        BY <1>1, <1>2 DEF AtFill, LinksInv
      <4> QED BY <1>4, <4>1
    <3> QED BY <3>1
  <2>2. \A l \in DOMAIN lines : Given(l)' = lines[l].qty BY <1>1, <1>2, <1>9 DEF AtFill
  <2> QED BY <1>1, <1>10, <2>1, <2>2 DEF AtEnd
<1> QED BY <1>1, <1>6, <1>8, <1>11 DEF FixInv, AtDone, AtOpen, AtFill

LEMMA FixInvStep ==
  ASSUME FixInv, [FixNext]_fixVars PROVE FixInv'
<1>1. CASE UNCHANGED fixVars
  <2>1. OpenMoves' = OpenMoves /\ ListConfirmed' = ListConfirmed /\ DoneShown' = DoneShown
    BY <1>1 DEF fixVars, OpenMoves, ListConfirmed, DoneShown
  <2>2. (\A l : Given(l)' = Given(l)) /\ \A m : AsRead(m)' = AsRead(m)
    BY <1>1 DEF fixVars, Given, AsRead
  <2>3. FixTypes' = FixTypes /\ LinksInv' = LinksInv
    BY <1>1, <2>1 DEF fixVars, FixTypes, LinksInv
  <2>4. AtDone' = AtDone /\ AtOpen' = AtOpen
    BY <1>1, <2>1, <2>2 DEF fixVars, AtDone, AtOpen
  <2>5. AtFill' = AtFill /\ AtEnd' = AtEnd
    BY <1>1, <2>1, <2>2 DEF fixVars, AtFill, AtEnd
  <2>6. phase' = phase BY <1>1 DEF fixVars
  <2> QED BY <2>3, <2>4, <2>5, <2>6 DEF FixInv
<1> QED
  BY <1>1, ShareDoneKeeps, ReopenKeeps, ShareOpenKeeps, OpenSharedKeeps, FillKeeps,
     CancelSpareKeeps DEF FixNext

\* What a pass that ends has linked to each line is what was ordered, of its
\* product, and the lines shown as done are those delivered in full.
LEMMA FixInvSuffices ==
  ASSUME FixInv PROVE LinesCovered
<1>1. SUFFICES ASSUME phase = "end" PROVE LinesCovered
  BY DEF LinesCovered
<1>2. FixTypes /\ LinksInv /\ AtEnd BY <1>1 DEF FixInv
<1>3. fixed \in [DOMAIN moves -> FixData] BY <1>2 DEF FixTypes
<1>4. \A S : Quantity(S) = Total(fixed, S)
  BY DEF Quantity, Total
<1>5. ASSUME NEW l \in DOMAIN lines
      PROVE  /\ Quantity(LinkedTo(l)) = lines[l].qty
             /\ \A m \in LinkedTo(l) : fixed[m].product = lines[l].product /\ fixed[m].qty > 0
             /\ lineState[l] = "done" <=>
                  Quantity({m \in LinkedTo(l) : fixed[m].state = "done"}) = lines[l].qty
  <2>1. l # Unlinked BY <1>2, FixAssumption DEF FixTypes, Unlinked
  <2>2. LinkedTo(l) = Linked(fixed, l)
    BY <1>1, <1>2, <1>3, <2>1 DEF LinkedTo, Linked, AtEnd
  <2>3. {m \in LinkedTo(l) : fixed[m].state = "done"} = DoneLinked(fixed, l)
    BY <2>2 DEF DoneLinked
  <2>4. ASSUME NEW m \in LinkedTo(l)
        PROVE  fixed[m].product = lines[l].product /\ fixed[m].qty > 0
    <3>1. m \in DOMAIN moves /\ fixed[m].line = l BY <1>3, <2>4 DEF LinkedTo
    <3>2. fixed[m].qty \in Nat \ {0} BY <1>3, <3>1 DEF FixData
    <3> QED BY <1>2, <2>1, <3>1, <3>2 DEF LinksInv
  <2> QED BY <1>1, <1>2, <1>4, <2>2, <2>3, <2>4 DEF AtEnd, Given, DoneShown
<1>6. \A m \in DOMAIN fixed : fixed[m].line = Unlinked => fixed[m].state = "cancel"
  BY <1>1, <1>2, <1>3 DEF AtEnd
<1> QED BY <1>5, <1>6 DEF LinesCovered

\* After the SQL that a pass of check_po_in.py prints, the moves of each line add
\* up to what was ordered, whatever lines and moves it began with (lines 23-167).
THEOREM CoversLines == FixSpec => []LinesCovered
<1>1. FixInit => FixInv
  BY FixInvInit DEF FixInit
<1>2. FixInv /\ [FixNext]_fixVars => FixInv' BY FixInvStep
<1>3. FixInv => LinesCovered BY FixInvSuffices
<1> QED BY <1>1, <1>2, <1>3, PTL DEF FixSpec
=============================================================================
