------------------------------ MODULE MCScripts ------------------------------
(***************************************************************************)
(* Scripts that share no state with those of the other modules, each from  *)
(* every start of a small instance: in each behaviour one of them runs, or *)
(* those about Jira tickets together; the others have nothing to do.       *)
(***************************************************************************)
EXTENDS XmlDump, MakePatch, DeliveryFix, CleanFinance, Tickets

CONSTANTS r1, r2, r3, t1, t2, t3, d1, d2, w1, s1, g1, s2, g3, uf19, u1, u2,
          xl, xm, xo, xp

VARIABLE script

-----------------------------------------------------------------------------
\* blk_xmlrpc-dump.py: three records, r1 with a many2many field, with three
\* references in all; r1 and r2 are asked for.
Edges(b) == {<<r, s>> \in Record \X Record : s \in b.one[r]}

\* Each record is found by its values, or r3 is not, as one is empty, and r2 is
\* found with another that has the same.
Finds(searched) ==
  {[r \in Record |-> {r}]} \cup
  (IF searched = {} THEN {}
   ELSE {[r \in Record |-> CASE r = r1 -> {r1} [] r = r2 -> {r2, r3} [] r = r3 -> {}]})

Bases ==
  {b \in UNION {[one : [Record -> SUBSET Record],
                 many : {[r \in Record |-> IF r = r1 THEN m ELSE {}] : m \in SUBSET {r2, r3}},
                 open : SUBSET {r2, r3}, named : SUBSET {r3}, ours : SUBSET {r3},
                 searched : {s}, finds : Finds(s),
                 empty : IF s = {r2, r3} THEN {{}, {r1}} ELSE {{}},
                 asked : {{r1, r2}}] : s \in {{}, {r3}, {r2, r3}}} :
     /\ b.ours \subseteq b.named
     /\ b.searched = {} \/ b.many[r1] \subseteq b.searched \/ b.many[r1] \cap b.searched = {}
     /\ Cardinality(Edges(b)) + Cardinality(b.many[r1]) <= 3}

NoRefs == [r \in Record |-> {}]

EmptyBase == [one |-> NoRefs, many |-> NoRefs, open |-> {}, named |-> {}, ours |-> {},
              searched |-> {}, finds |-> NoRefs, empty |-> {}, asked |-> {}]

\* make_patch.py: two paths of one name, one renamed by dirmap(), one that is
\* kept out, release.py and a log; the third may become a directory.
MCPath == {"Server/a", "a", "Web/b", "Server/setup.py", "Server/release.py", "ServerLog/c"}

MCDest == [p \in MCPath |->
  CASE p \in {"Server/a", "a"}    -> "a"
    [] p = "Web/b"                -> "web/b"
    [] p = "Server/setup.py"      -> "setup.py"
    [] p = "Server/release.py"    -> "release.py"
    [] p = "ServerLog/c"          -> "ServerLog/c"]

Trees ==
  {t \in Tree : \A p \in DOMAIN t : t[p] = "x" \/ p \in {"Server/a", "a"}}

NoFile == [p \in {} |-> "x"]

\* check_po_in.py: two lines, up to three moves, done ones first, quantities 1
\* and 2; for the outgoing pass, up to two equal incoming moves.
Lines == {ls \in [1..2 -> [product : Product, qty : {1, 2}, state : {"confirmed", "done"}]] :
            ls[1].product = "a"}

MoveLists ==
  {ms \in UNION {[1..n -> [product : Product, qty : {1, 2},
                          state : {"waiting", "assigned", "done"}]] : n \in 0..3} :
     \A m \in DOMAIN ms : m > 1 /\ ms[m].state = "done" => ms[m - 1].state = "done"}

Received == {{[of |-> n, product |-> "a", qty |-> 1] : n \in 1..k} : k \in 0..2}

NoLine == [l \in {} |-> 0]

\* clean_finance.py: a row of two tables of the list, two rows of another, and
\* three foreign keys, one pair of them in a circle
MCTable == {"line", "move", "other"}

MCTableOf == [r \in Row |-> CASE r = xl -> "line" [] r = xm -> "move" [] OTHER -> "other"]

MCToDel == <<"line", "move", "line">>

KeySets ==
  {ks \in SUBSET {k \in Key : k.from # k.to /\ k.to # "line" /\ k.indexed = (k.from = "line")} :
     \A k, l \in ks : k # l => <<k.from, k.to>> # <<l.from, l.to>>}

\* the scripts of Tickets: two of them at work at the same time, or the two
\* builds that start_jira_tests.sh starts for t1 and one more
MCInfo ==
  LET Of(t, d, c) == [ticket |-> t, dev |-> d, comp |-> c]
  IN [b \in Branch |->
        CASE b = w1 -> Of(t1, d1, "web")
          [] b = s1 -> Of(t1, d1, "server")
          [] b = g1 -> Of(t1, d1, "git")
          [] b = s2 -> Of(t2, d2, "server")
          [] OTHER -> Of(t3, d1, "git")]

\* all branches are recent, or the oldest of t1 no longer is
MCWindows == {Branch, Branch \ {w1}}

MCVersions == [t \in Ticket |-> IF t = t1 THEN <<uf19, Trunk>> ELSE <<>>]

MCBuildOf == [b \in Builder |-> t1]

\* t2 is the ticket of another developer and shares a branch with t1
MCTicket0 ==
  LET Fresh(s, d) == [web |-> None, server |-> None, git |-> None, dev |-> None,
                      assignee |-> d, status |-> s, rb |-> {}]
  IN [t \in Ticket |->
        IF t = t2 THEN [Fresh("In Progress", d1) EXCEPT !.server = s1, !.dev = d1]
        ELSE Fresh("Open", d1)]

MCCrews == {{}, {"lp", "git"}, {"lp", "merge"}, {"git", "merge"}, {u1, u2, "lp"}}

-----------------------------------------------------------------------------
ExportIdle == ExportStart(EmptyBase)
PatchIdle == PatchStart(NoFile, NoFile, {})
FixIdle == FixStart(NoLine, NoLine, {}, FALSE)
FinanceIdle == CleanStart({}, Row, {}, {})
TicketsIdle == TicketsInit /\ pc = [p \in Process |-> "absent"]

ScriptsInit ==
  \/ /\ script = "blk_xmlrpc-dump" /\ \E b \in Bases : ExportStart(b)
     /\ PatchIdle /\ FixIdle /\ FinanceIdle /\ TicketsIdle
  \/ /\ script = "make_patch" /\ \E o, n \in Trees, d \in SUBSET {"Web/b"} : PatchStart(o, n, d)
     /\ ExportIdle /\ FixIdle /\ FinanceIdle /\ TicketsIdle
  \/ /\ script = "check_po_in"
     /\ \/ \E ls \in Lines, ms \in MoveLists : FixStart(ls, ms, {}, FALSE)
        \/ \E ls \in Lines, ms \in MoveLists, got \in Received : FixStart(ls, ms, got, TRUE)
     /\ ExportIdle /\ PatchIdle /\ FinanceIdle /\ TicketsIdle
  \/ /\ script = "clean_finance"
     /\ \E ks \in KeySets, ids \in {{}, {xl, xo}} :
          \E links \in SUBSET Referring(ks) : CleanStart(ks, Row, links, ids)
     /\ ExportIdle /\ PatchIdle /\ FixIdle /\ TicketsIdle
  \/ /\ script = "tickets" /\ TicketsInit
     /\ ExportIdle /\ PatchIdle /\ FixIdle /\ FinanceIdle

ScriptsNext ==
  /\ UNCHANGED script
  /\ \/ /\ script = "blk_xmlrpc-dump" /\ ExportNext
        /\ UNCHANGED <<patchVars, fixVars, financeVars, ticketsVars>>
     \/ /\ script = "make_patch" /\ PatchNext
        /\ UNCHANGED <<exportVars, fixVars, financeVars, ticketsVars>>
     \/ /\ script = "check_po_in" /\ FixNext
        /\ UNCHANGED <<exportVars, patchVars, financeVars, ticketsVars>>
     \/ /\ script = "clean_finance" /\ CleanNext
        /\ UNCHANGED <<exportVars, patchVars, fixVars, ticketsVars>>
     \/ /\ script = "tickets" /\ TicketsNext
        /\ UNCHANGED <<exportVars, patchVars, fixVars, financeVars>>

scriptsVars == <<exportVars, patchVars, fixVars, financeVars, ticketsVars, script>>

ScriptsSpec == ScriptsInit /\ [][ScriptsNext]_scriptsVars
=============================================================================
