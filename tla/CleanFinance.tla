---------------------------- MODULE CleanFinance -----------------------------
(***************************************************************************)
(* maintenance/finance/clean_finance.py: the accounting of a database is   *)
(* deleted, table after table, in one transaction.  The columns that refer *)
(* to those tables get an index first, to make the checks of PostgreSQL    *)
(* fast.  What else disappears is decided by the rules of foreign keys.    *)
(***************************************************************************)
EXTENDS Naturals, Sequences

CONSTANTS
  Table, Row, TableOf,  \* rows, and the table of each
  ToDel                 \* to_del, in the order of the script

ASSUME FinanceAssumption ==
  ToDel \in Seq(Table) /\ ToDel # <<>> /\ TableOf \in [Row -> Table]

VARIABLES
  keys,      \* foreign keys: [from, to, rule, indexed]
  rows,      \* the rows there are, as the script sees them
  refs,      \* [of, key, to]: a row refers to a row through a key
  names,     \* the rows that have an id in ir_model_data
  indexes,   \* the keys whose column has an index
  created,   \* new_indexes
  stored,    \* the database when the transaction began
  nth,       \* the table of to_del whose turn it is
  cleaning   \* "index", "delete", "names", "commit", "drop", "exit", "end"
             \* or "failed"

financeVars == <<keys, rows, refs, names, indexes, created, stored, nth, cleaning>>

Key == [from : Table, to : Table, rule : {"CASCADE", "SET NULL", "NO ACTION"}, indexed : BOOLEAN]

Emptied == {ToDel[n] : n \in DOMAIN ToDel}

database == [rows |-> rows, refs |-> refs, names |-> names, indexes |-> indexes]

CleanStart(ks, rs, links, ids) ==
  /\ keys = ks /\ rows = rs /\ refs = links /\ names = ids
  /\ indexes = {k \in ks : k.indexed}
  /\ created = {}
  /\ stored = [rows |-> rs, refs |-> links, names |-> ids, indexes |-> {k \in ks : k.indexed}]
  /\ nth = 1
  /\ cleaning = "index"

-----------------------------------------------------------------------------
\* get_referenced, index_exists
CreateIndexes ==
  /\ cleaning = "index" /\ cleaning' = "delete"
  /\ created' = {k \in keys : k.to \in Emptied} \ indexes
  /\ indexes' = indexes \cup created'
  /\ UNCHANGED <<keys, rows, refs, names, stored, nth>>

\* the rows that go with those of S: the least set that holds the rows that
\* refer to one of its rows by a key with CASCADE
Cascade(S) ==
  LET Closed(X) == \A l \in refs : l.key.rule = "CASCADE" /\ l.to \in X => l.of \in X
  IN CHOOSE X \in SUBSET rows :
       /\ S \subseteq X /\ Closed(X)
       /\ \A Y \in SUBSET X : S \subseteq Y /\ Closed(Y) => Y = X

\* rows that are left refer to rows that are gone, by a key without a rule
Refused(gone) ==
  \E l \in refs : l.key.rule = "NO ACTION" /\ l.to \in gone /\ l.of \notin gone

RollBack ==
  /\ rows' = stored.rows /\ refs' = stored.refs
  /\ names' = stored.names /\ indexes' = stored.indexes

\* mutant: a commit after each table
DeleteTable_Commits ==
  /\ cleaning = "delete"
  /\ LET gone == Cascade({r \in rows : TableOf[r] = ToDel[nth]})
     IN IF Refused(gone)
        THEN RollBack /\ cleaning' = "failed" /\ UNCHANGED <<nth, stored>>
        ELSE /\ rows' = rows \ gone
             /\ refs' = {l \in refs : l.of \notin gone /\ l.to \notin gone}
             /\ nth' = nth + 1
             /\ cleaning' = IF nth = Len(ToDel) THEN "names" ELSE "delete"
             /\ UNCHANGED <<names, indexes>>
             /\ stored' = [stored EXCEPT !.rows = rows', !.refs = refs']
  /\ UNCHANGED <<keys, created>>

\* delete from a table: the statement fails as a whole, and the script with it
DeleteTable ==
  /\ cleaning = "delete"
  /\ LET gone == Cascade({r \in rows : TableOf[r] = ToDel[nth]})
     IN IF Refused(gone)
        THEN RollBack /\ cleaning' = "failed" /\ UNCHANGED nth
        ELSE /\ rows' = rows \ gone
             /\ refs' = {l \in refs : l.of \notin gone /\ l.to \notin gone}
             /\ nth' = nth + 1
             /\ cleaning' = IF nth = Len(ToDel) THEN "names" ELSE "delete"
             /\ UNCHANGED <<names, indexes>>
  /\ UNCHANGED <<keys, created, stored>>

\* the ids of the tables of the list; what the audit trail holds on them
DeleteNames ==
  /\ cleaning = "names" /\ cleaning' = "commit"
  /\ names' = {r \in names : TableOf[r] \notin Emptied}
  /\ UNCHANGED <<keys, rows, refs, indexes, created, stored, nth>>

Commit ==
  /\ cleaning = "commit" /\ cleaning' = "drop"
  /\ stored' = database
  /\ UNCHANGED <<keys, rows, refs, names, indexes, created, nth>>

\* The indexes are dropped in a new transaction, which the exit of the script
\* rolls back.
DropIndexes ==
  /\ cleaning = "drop" /\ cleaning' = "exit"
  /\ indexes' = indexes \ created
  /\ UNCHANGED <<keys, rows, refs, names, created, stored, nth>>

Exit ==
  /\ cleaning = "exit" /\ cleaning' = "end"
  /\ RollBack
  /\ UNCHANGED <<keys, created, stored, nth>>

\* an error of the database, or Ctrl-C: the transaction is rolled back
CleanFails ==
  /\ cleaning \notin {"end", "failed"} /\ cleaning' = "failed"
  /\ RollBack
  /\ UNCHANGED <<keys, created, stored, nth>>

CleanNext ==
  \/ CreateIndexes \/ DeleteTable \/ DeleteNames \/ Commit
  \/ DropIndexes \/ Exit \/ CleanFails

\* what rows may refer to one another by keys
Referring(ks) ==
  {l \in [of : Row, key : ks, to : Row] : TableOf[l.of] = l.key.from /\ TableOf[l.to] = l.key.to}

\* of a database with any foreign keys
CleanSpec ==
  /\ \E ks \in SUBSET Key : \E links \in SUBSET Referring(ks), ids \in SUBSET Row :
       CleanStart(ks, Row, links, ids)
  /\ [][CleanNext]_financeVars

-----------------------------------------------------------------------------
\* However it ends, and whatever foreign keys the tables have, the database is
\* as it was (all rows were there) or is cleaned: nothing is left of the tables
\* of the list, no reference leads to a row that is gone, and another table has
\* only lost rows if a cascade leads out of the list.
CleanedOrUntouched ==
  cleaning \in {"end", "failed"} =>
    \/ rows = Row
    \/ /\ \A r \in rows \cup names : TableOf[r] \notin Emptied
       /\ \A l \in refs : {l.of, l.to} \subseteq rows
       /\ \/ \A r \in Row \ rows : TableOf[r] \in Emptied
          \/ \E k \in keys : k.rule = "CASCADE" /\ k.from \notin Emptied
=============================================================================
