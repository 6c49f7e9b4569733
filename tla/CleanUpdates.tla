---------------------------- MODULE CleanUpdates ----------------------------
(***************************************************************************)
(* Perf/clean_server_updates.py: the compaction of the synchronisation     *)
(* server's table of updates, one transaction, while instances may go on   *)
(* pushing and pulling.                                                    *)
(*                                                                         *)
(* An update is [seq, rec, del]: its sequence number, the record (source,  *)
(* sdref, model) it writes and whether it deletes it.  The server that     *)
(* numbers pushed updates and serves them in order to each entity from its *)
(* last_sequence on is not part of the repository.                         *)
(***************************************************************************)
EXTENDS Integers, FiniteSets, FiniteSetsExt

CONSTANTS
  SingleRec,   \* HQ records of the six models whose xmlids nobody refers to
  Keep2Rec,    \* HQ records of the four models other updates refer to
  OtherRec,    \* every other record
  MasterRec,   \* the records whose rule has master_data set
  InactiveRec, \* the records whose rule is not active any more
  Entity,      \* the instances
  MaxSeq       \* bound: number of updates ever pushed

Record == SingleRec \cup Keep2Rec \cup OtherRec

ASSUME RecordAssumption ==
  /\ SingleRec \cap Keep2Rec = {}
  /\ OtherRec \cap (SingleRec \cup Keep2Rec) = {}
  /\ MasterRec \subseteq Record
  /\ InactiveRec \subseteq Record

ASSUME EntityAssumption == IsFiniteSet(Entity) /\ MaxSeq \in Nat

VARIABLES
  log,      \* sync_server_update
  pushed,   \* number of updates ever pushed: the last sequence given
  state,    \* sync_server_entity.state
  last,     \* sync_server_entity.last_sequence
  aged,     \* updates up to this sequence are older than 18 months
  stage,    \* the script: the statement it executes next
  minSeq,   \* min_seq
  groups,   \* rows fetched and not yet looped over
  gone      \* sequences deleted by the transaction

dataVars == <<log, pushed, state, last, aged>>
scriptVars == <<stage, minSeq, groups, gone>>
vars == <<dataVars, scriptVars>>

Update == [seq : 1..MaxSeq, rec : Record, del : BOOLEAN]

Stage == {"idle", "inactive", "select_deletes", "deletes", "select_keep2",
          "keep2", "select_single", "single", "old", "commit"}

TypeOK ==
  /\ log \subseteq Update
  /\ pushed \in 0..MaxSeq
  /\ state \in [Entity -> {"unknown", "validated", "invalidated"}]
  /\ last \in [Entity -> 0..MaxSeq]
  /\ aged \in 0..MaxSeq
  /\ stage \in Stage
  /\ minSeq \in -1..MaxSeq
  /\ groups \subseteq [rec : Record, first : 1..MaxSeq, last : 1..MaxSeq]
  /\ gone \subseteq 1..MaxSeq

Init ==
  /\ log = {} /\ pushed = 0 /\ aged = 0
  /\ state \in [Entity -> {"unknown", "validated"}]
  /\ last = [e \in Entity |-> 0]
  /\ stage = "idle" /\ minSeq = 0 /\ groups = {} /\ gone = {}

-----------------------------------------------------------------------------
(* The synchronisation server and its instances.                           *)

Push(rec, del) ==
  /\ pushed < MaxSeq
  /\ pushed' = pushed + 1
  /\ log' = log \cup {[seq |-> pushed + 1, rec |-> rec, del |-> del]}
  /\ UNCHANGED <<state, last, aged, scriptVars>>

\* an instance pulls everything after its last_sequence
Pull(e) ==
  /\ state[e] = "validated"
  /\ last[e] < pushed
  /\ last' = [last EXCEPT ![e] = pushed]
  /\ UNCHANGED <<log, pushed, state, aged, scriptVars>>

\* a new instance starts from the first update
Register(e) ==
  /\ state[e] = "unknown"
  /\ state' = [state EXCEPT ![e] = "validated"]
  /\ UNCHANGED <<log, pushed, last, aged, scriptVars>>

Invalidate(e) ==
  /\ state[e] = "validated"
  /\ state' = [state EXCEPT ![e] = "invalidated"]
  /\ UNCHANGED <<log, pushed, last, aged, scriptVars>>

Age ==
  /\ aged < pushed
  /\ aged' = aged + 1
  /\ UNCHANGED <<log, pushed, state, last, scriptVars>>

-----------------------------------------------------------------------------
(* The script.  Its transaction is read committed: each statement sees the *)
(* updates pushed so far, less those the transaction has deleted.          *)

Seen == {u \in log : u.seq \notin gone}
Seqs(updates) == {u.seq : u \in updates}

\* updates of a record that every active entity is past, by del flag
Old(rec, del) == {u \in Seen : u.rec = rec /\ u.del = del /\ u.seq < minSeq}

Active == {e \in Entity : state[e] # "invalidated"}

\* "select min(last_sequence)"; without any entity min() is NULL: TypeError
ReadMinSeq ==
  /\ stage = "idle"
  /\ Active # {}
  /\ minSeq' = Min({last[e] : e \in Active}) - 1
  /\ stage' = "inactive"
  /\ UNCHANGED <<dataVars, groups, gone>>

\* "updates linked to inactive rules are dead"
DropInactive ==
  /\ stage = "inactive"
  /\ gone' = gone \cup Seqs({u \in Seen : u.rec \in InactiveRec})
  /\ stage' = "select_deletes"
  /\ UNCHANGED <<dataVars, minSeq, groups>>

Grouped(recs, del, atLeast) ==
  {[rec |-> r, first |-> Min(Seqs(Old(r, del))), last |-> Max(Seqs(Old(r, del)))] :
     r \in {r \in recs : Cardinality(Old(r, del)) >= atLeast}}

Select(here, next, recs, del, atLeast) ==
  /\ stage = here
  /\ groups' = Grouped(recs, del, atLeast)
  /\ stage' = next
  /\ UNCHANGED <<dataVars, minSeq, gone>>

\* mutant of SelectSingle: having(count(*) > 2)
SelectSingle_MoreThanTwo == Select("select_single", "single", SingleRec, FALSE, 3)

SelectDeletes == Select("select_deletes", "deletes", SingleRec, TRUE, 1)
SelectKeep2   == Select("select_keep2", "keep2", Keep2Rec, FALSE, 3)
SelectSingle  == Select("select_single", "single", SingleRec, FALSE, 2)

\* mutant of BeforeDelete: "sequence <= max"
BeforeDelete_Inclusive(g) == {u \in Seen : u.rec = g.rec /\ u.seq <= g.last}

\* the rows each loop deletes for one group g
BeforeDelete(g) == {u \in Seen : u.rec = g.rec /\ u.seq < g.last}
Intermediate(g) == {u \in Seen : /\ u.rec = g.rec /\ ~u.del
                                 /\ u.seq \notin {g.first, g.last}}
NotLast(g)      == {u \in Seen : u.rec = g.rec /\ u.seq # g.last}

Delete(g, updates) ==
  /\ groups' = groups \ {g}
  /\ gone' = gone \cup Seqs(updates)
  /\ UNCHANGED <<dataVars, stage, minSeq>>

CompactDeletes == stage = "deletes" /\ \E g \in groups : Delete(g, BeforeDelete(g))
CompactKeep2   == stage = "keep2"   /\ \E g \in groups : Delete(g, Intermediate(g))
CompactSingle  == stage = "single"  /\ \E g \in groups : Delete(g, NotLast(g))

EndLoop ==
  /\ groups = {}
  /\ \/ stage = "deletes" /\ stage' = "select_keep2"
     \/ stage = "keep2"   /\ stage' = "select_single"
     \/ stage = "single"  /\ stage' = "old"
  /\ UNCHANGED <<dataVars, minSeq, groups, gone>>

\* "delete not-masters updates older than 18 months"
DropOld ==
  /\ stage = "old"
  /\ gone' = gone \cup Seqs({u \in Seen : u.rec \notin MasterRec /\ u.seq <= aged})
  /\ stage' = "commit"
  /\ UNCHANGED <<dataVars, minSeq, groups>>

Commit ==
  /\ stage = "commit"
  /\ log' = Seen
  /\ gone' = {}
  /\ stage' = "idle"
  /\ UNCHANGED <<pushed, state, last, aged, minSeq, groups>>

\* the script dies (an error, Ctrl-C): its transaction is rolled back
Crash ==
  /\ stage # "idle"
  /\ groups' = {} /\ gone' = {}
  /\ stage' = "idle"
  /\ UNCHANGED <<dataVars, minSeq>>

Script ==
  \/ ReadMinSeq \/ DropInactive
  \/ SelectDeletes \/ SelectKeep2 \/ SelectSingle
  \/ CompactDeletes \/ CompactKeep2 \/ CompactSingle \/ EndLoop
  \/ DropOld \/ Commit \/ Crash

Server ==
  \/ \E rec \in Record, del \in BOOLEAN : Push(rec, del)
  \/ \E e \in Entity : Pull(e) \/ Register(e) \/ Invalidate(e)
  \/ Age

Next == Script \/ Server

Spec == Init /\ [][Next]_vars

-----------------------------------------------------------------------------
(* Properties.                                                             *)

Of(rec) == {u \in log : u.rec = rec}

Newest(rec) == CHOOSE u \in Of(rec) : \A v \in Of(rec) : v.seq <= u.seq

\* the rules that do not let go of a record for another reason
Kept == MasterRec \ InactiveRec

\* every update of the record has been pulled, with the margin of min_seq
Settled(rec) == Of(rec) # {} /\ \A u \in Of(rec) : u.seq < minSeq

\* A record that no entity has anything left to pull for keeps its newest
\* update, the deletion included: a new instance that pulls the compacted
\* table from the start ends up with the same records as the others.
SettledNewestKept ==
  [][\A rec \in Kept : Settled(rec) /\ log' \subseteq log =>
       Newest(rec) \in log']_log

\* When the script commits, a settled record is down to its last creation and its
\* last deletion (single), or its first and last updates and its deletions.
CompactedEnough ==
  [][Commit =>
       \A rec \in SingleRec \cup Keep2Rec :
         Settled(rec) =>
           LET writes == {u \in Of(rec) : ~u.del /\ u \in log'}
           IN  Cardinality(writes) <= IF rec \in SingleRec THEN 1 ELSE 2]_vars

ToPull(u) == \E e \in Entity : state[e] = "validated" /\ last[e] < u.seq

\* "multiple updates for the same record: keep 1st ... and last": the newest
\* update of a record other updates refer to stays while an instance has it to
\* pull.  The loop deletes all but two sequences below min_seq, so also the
\* writes pushed since.
LastKept ==
  [][\A rec \in Keep2Rec \cap Kept :
       Of(rec) # {} /\ ToPull(Newest(rec)) => Newest(rec) \in log']_log

\* "keep the delete update: for records created by data.xml and update not
\* yet pulled by instances": a deletion that is the newest update of its
\* record stays while an instance has it to pull.  The last loop deletes all
\* but one sequence below min_seq, deletions above min_seq included.
UnpulledDeleteKept ==
  [][\A rec \in Kept :
       Of(rec) # {} /\ Newest(rec).del /\ ToPull(Newest(rec)) => Newest(rec) \in log']_log
=============================================================================
