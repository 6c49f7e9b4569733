------------------------------ MODULE Tickets -------------------------------
(***************************************************************************)
(* The scripts that keep Jira tickets, branches and runbots in step:       *)
(* JiraReport/set_jira_branches.py ("lp") and set_git_branches.py ("git")  *)
(* write the branches of the developers on their tickets,                  *)
(* create_merge_proposal.py ("merge") proposes them for merging, and       *)
(* init_sync.sh reads the branches of a ticket (get_branch.py), builds a   *)
(* runbot and adds its URL (set_rb.py): start_jira_tests.sh starts two at  *)
(* once for one ticket.  Developers edit tickets at any time.              *)
(*                                                                         *)
(*   ticket   the fields of each ticket                                    *)
(*   pc       place of each script                                         *)
(*   pending  what the loop of "lp", "git" or "merge" has still to do      *)
(*   cur      what it is about, and the ticket as it was read              *)
(*   stale    the processes whose ticket was changed since they read it    *)
(*   proposed the landing targets of each branch, in the order of creation *)
(***************************************************************************)
EXTENDS Integers, FiniteSets, Sequences

CONSTANTS
  Ticket, Deleted,   \* tickets, and those Jira does not know
  Dev,               \* developers of dev_map
  Branch,            \* active branches named after a ticket
  Windows,           \* sets of those that may have changed in the last five days
  Info,              \* [ticket, dev, comp] of a branch; comp git: not on Launchpad
  Versions,          \* the fixVersions of a ticket, in Jira's order
  Known,             \* versions with a branch of their own to merge into
  Trunk, None,
  Builder, BuildOf,  \* runs of init_sync.sh and the ticket of each
  Ticket0,           \* the tickets at the start
  Crews,             \* the sets of processes that work at the same time
  MaxEdits           \* bound on edits by people

VARIABLES ticket, pc, pending, cur, stale, proposed, edits

ticketsVars == <<ticket, pc, pending, cur, stale, proposed, edits>>

Script == {"lp", "git", "merge"}
Process == Script \cup Builder
Component == {"web", "server", "git"}
Status == {"Open", "In Progress", "Closed"}

\* customfields 10061, 10062, 10065, 10020 and 10050
TicketRecord ==
  [web : Branch \cup {None}, server : Branch \cup {None}, git : Branch \cup {None},
   dev : Dev \cup {None}, assignee : Dev \cup {None}, status : Status, rb : SUBSET Builder]

Nothing == [none |-> TRUE]

ASSUME TicketsAssumption ==
  /\ Deleted \subseteq Ticket
  /\ None \notin Branch \cup Dev \cup Process
  /\ Windows \subseteq SUBSET Branch
  /\ Info \in [Branch -> [ticket : Ticket, dev : Dev, comp : Component]]
  /\ Versions \in [Ticket -> Seq(Known \cup {Trunk})] /\ Trunk \notin Known
  /\ Builder \cap Script = {}
  /\ BuildOf \in [Builder -> Ticket \ Deleted]
  /\ Ticket0 \in [Ticket -> TicketRecord]
  /\ Crews \subseteq SUBSET Process
  /\ MaxEdits \in Nat

TicketsTypeOK ==
  /\ ticket \in [Ticket -> TicketRecord]
  /\ pc \in [Process -> {"absent", "start", "read", "write", "rb", "done", "died"}]
  /\ stale \subseteq Process
  /\ proposed \in [Branch -> Seq(Known \cup {Trunk})]
  /\ edits \in 0..MaxEdits

TicketsInit ==
  /\ ticket = Ticket0
  /\ \E crew \in Crews : pc = [p \in Process |-> IF p \in crew THEN "start" ELSE "absent"]
  /\ pending = [p \in Script |-> {}]
  /\ cur = [p \in Process |-> Nothing]
  /\ stale = {}
  /\ proposed = [b \in Branch |-> <<>>]
  /\ edits = 0

-----------------------------------------------------------------------------
Goto(p, from, to) == pc[p] = from /\ pc' = [pc EXCEPT ![p] = to]

\* p writes new on ticket t; whoever has read it has read something old
WriteTicket(p, t, new) ==
  /\ ticket' = [ticket EXCEPT ![t] = new]
  /\ stale' = (stale \ {p}) \cup
       IF new = ticket[t] THEN {} ELSE {q \in Process \ {p} : cur[q] # Nothing /\ cur[q].on = t}

\* fields that a record overrides
Over(fields, record) == [f \in DOMAIN record |-> IF f \in DOMAIN fields THEN fields[f] ELSE record[f]]

\* A developer edits a ticket: a branch, the assignee, the status.
Edit ==
  /\ edits < MaxEdits /\ edits' = edits + 1
  /\ \E t \in Ticket \ Deleted :
       \/ \E c \in Component, b \in Branch \cup {None} : WriteTicket(None, t, [ticket[t] EXCEPT ![c] = b])
       \/ \E d \in Dev \cup {None} : WriteTicket(None, t, [ticket[t] EXCEPT !.assignee = d])
       \/ \E s \in Status : WriteTicket(None, t, [ticket[t] EXCEPT !.status = s])
  /\ UNCHANGED <<pc, pending, cur, proposed>>

Read(p, t, item) ==
  /\ cur' = [cur EXCEPT ![p] = [on |-> t, was |-> ticket[t], item |-> item]]
  /\ stale' = stale \ {p}

Forget(p) == cur' = [cur EXCEPT ![p] = Nothing]

-----------------------------------------------------------------------------
(* set_jira_branches.py, set_git_branches.py: started by cron again and    *)
(* again                                                                   *)

\* to_set, of the branches that changed within the interval: by ticket and
\* developer for Launchpad (the last branch of a component wins), a list of all
\* of them for git
Collected(p, recent) ==
  IF p = "git" THEN {{b} : b \in {x \in recent : Info[x].comp = "git"}}
  ELSE LET mine == {b \in recent : Info[b].comp # "git"}
       IN {{b \in mine : Info[b].ticket = t} : t \in {Info[b].ticket : b \in mine}}

\* Which branches have changed lately is for each start to find out.
Collect(p) ==
  /\ p \in {"lp", "git"} /\ pc[p] \in {"start", "done", "died"}
  /\ pc' = [pc EXCEPT ![p] = "read"]
  /\ \E recent \in Windows : pending' = [pending EXCEPT ![p] = Collected(p, recent)]
  /\ UNCHANGED <<ticket, cur, stale, proposed, edits>>

TicketOf(item) == Info[CHOOSE b \in item : TRUE].ticket

\* "Issue not found": the loop goes on
ReadIssue(p) ==
  /\ p \in {"lp", "git"}
  /\ \/ \E item \in pending[p] :
          /\ pending' = [pending EXCEPT ![p] = @ \ {item}]
          /\ IF TicketOf(item) \in Deleted
             THEN pc[p] = "read" /\ UNCHANGED <<pc, cur, stale>>
             ELSE Goto(p, "read", "write") /\ Read(p, TicketOf(item), item)
     \/ pending[p] = {} /\ Goto(p, "read", "done") /\ UNCHANGED <<pending, cur, stale>>
  /\ UNCHANGED <<ticket, proposed, edits>>

\* mutant: a grouped branch does not keep the server branch out
ToWrite_NoGroup(p, item, was) ==
  LET mine == {b \in item : Info[b].dev = was.assignee}
      fields == {c \in {Info[b].comp : b \in mine} : was[c] = None}
  IN [c \in fields |-> CHOOSE b \in mine : Info[b].comp = c]

\* the fields to write, from the ticket as it was read and the branches of
\* its assignee
ToWrite(p, item, was) ==
  LET mine == {b \in item : Info[b].dev = was.assignee}
      Free(c) == IF c = "server" THEN was.git = None /\ was.server = None ELSE was[c] = None
      fields == {c \in {Info[b].comp : b \in mine} : Free(c)}
      values == [c \in fields |-> CHOOSE b \in mine : Info[b].comp = c]
  IN IF fields = {} \/ was.dev # None THEN values
     ELSE [f \in fields \cup {"dev"} |-> IF f = "dev" THEN was.assignee ELSE values[f]]

Mismatch(item, was) == ~\E b \in item : Info[b].dev = was.assignee

\* set_git_branches.py dies on a mismatch: its message calls keys() on a string.
DiesOnMismatch(p) == p = "git"

\* A ticket that was open is moved to In Progress with the fields, which Jira
\* refuses when somebody has moved it meanwhile.  It may also refuse a write for
\* reasons of its own, once or at every start, or fail to answer when it has
\* written: no `try` is around the writes, and the script ends there.
WriteIssue(p) ==
  /\ p \in {"lp", "git"} /\ pc[p] = "write"
  /\ LET t == cur[p].on
         was == cur[p].was
         fields == ToWrite(p, cur[p].item, was)
         open == was.status \in {"Open", "In Progress"}
         mismatch == Mismatch(cur[p].item, was)
         refused == was.status = "Open" /\ ticket[t].status # "Open"
     IN \/ /\ ~open \/ (mismatch /\ ~DiesOnMismatch(p)) \/ (~mismatch /\ DOMAIN fields = {})
           /\ Goto(p, "write", "read")
           /\ UNCHANGED <<ticket, stale>>
        \/ /\ open /\ IF mismatch THEN DiesOnMismatch(p) ELSE DOMAIN fields # {}
           /\ Goto(p, "write", "died")
           /\ UNCHANGED <<ticket, stale>>
        \/ /\ open /\ ~mismatch /\ DOMAIN fields # {} /\ ~refused
           /\ \E to \in {"read", "died"} : Goto(p, "write", to)
           /\ WriteTicket(p, t, [Over(fields, ticket[t]) EXCEPT
                                   !.status = IF was.status = "Open" THEN "In Progress" ELSE @])
  /\ Forget(p)
  /\ UNCHANGED <<pending, proposed, edits>>

-----------------------------------------------------------------------------
(* create_merge_proposal.py                                                *)

\* the last of the fixVersions that has a branch
TargetOf(t) ==
  LET own == SelectSeq(Versions[t], LAMBDA v : v \in Known)
  IN IF own = <<>> THEN Trunk ELSE own[Len(own)]

CollectMerges ==
  /\ pc["merge"] \in {"start", "done", "died"}
  /\ pc' = [pc EXCEPT !["merge"] = "read"]
  /\ pending' = [pending EXCEPT !["merge"] =
       {<<ticket[x[1]][x[2]], TargetOf(x[1])>> : x \in
          {y \in (Ticket \ Deleted) \X Component :
             ticket[y[1]].status = "In Progress" /\ ticket[y[1]][y[2]] # None}}]
  /\ UNCHANGED <<ticket, cur, stale, proposed, edits>>

\* mutant: only a proposal to the same target counts
HasProposal_ToTarget(item) ==
  \E n \in DOMAIN proposed[item[1]] : proposed[item[1]][n] = item[2]

\* any landing target counts, whatever this one is
HasProposal(item) == proposed[item[1]] # <<>>

\* getByUrl gives None for a branch that is not on Launchpad, whose landing
\* targets cannot be read: the exception is raised again.
LandingTargets ==
  /\ \/ \E item \in pending["merge"] :
          /\ pending' = [pending EXCEPT !["merge"] = @ \ {item}]
          /\ CASE Info[item[1]].comp = "git" -> Goto("merge", "read", "died") /\ UNCHANGED cur
               [] Info[item[1]].comp # "git" /\ HasProposal(item) ->
                    pc["merge"] = "read" /\ UNCHANGED <<pc, cur>>
               [] OTHER -> /\ Goto("merge", "read", "write")
                           /\ cur' = [cur EXCEPT !["merge"] = [on |-> None, item |-> item]]
     \/ pending["merge"] = {} /\ Goto("merge", "read", "done") /\ UNCHANGED <<pending, cur>>
  /\ UNCHANGED <<ticket, stale, proposed, edits>>

\* createMergeProposal, whose failure is printed
Propose ==
  /\ Goto("merge", "write", "read")
  /\ LET item == cur["merge"].item
     IN proposed' \in {proposed, [proposed EXCEPT ![item[1]] = Append(@, item[2])]}
  /\ Forget("merge")
  /\ UNCHANGED <<ticket, pending, stale, edits>>

-----------------------------------------------------------------------------
(* init_sync.sh on a ticket                                                *)

\* get_branch.py stops the build when the ticket has no developer
GetBranch(b) ==
  /\ Goto(b, "start", IF ticket[BuildOf[b]].dev = None THEN "died" ELSE "rb")
  /\ UNCHANGED <<ticket, pending, cur, stale, proposed, edits>>

\* set_rb.py reads the field, then writes what it read and its own URL
ReadRb(b) ==
  /\ Goto(b, "rb", "write")
  /\ Read(b, BuildOf[b], b)
  /\ UNCHANGED <<ticket, pending, proposed, edits>>

WriteRb(b) ==
  /\ Goto(b, "write", "done")
  /\ WriteTicket(b, BuildOf[b], [ticket[BuildOf[b]] EXCEPT !.rb = cur[b].was.rb \cup {b}])
  /\ Forget(b)
  /\ UNCHANGED <<pending, proposed, edits>>

-----------------------------------------------------------------------------
Merge == CollectMerges \/ LandingTargets \/ Propose
Branches(p) == Collect(p) \/ ReadIssue(p) \/ WriteIssue(p)

TicketsNext ==
  \/ Edit \/ Merge
  \/ \E p \in {"lp", "git"} : Branches(p)
  \/ \E b \in Builder : GetBranch(b) \/ ReadRb(b) \/ WriteRb(b)

TicketsSpec == TicketsInit /\ [][TicketsNext]_ticketsVars

-----------------------------------------------------------------------------
(* Properties                                                              *)

\* No script replaces a branch or a developer it has seen on the ticket, nor
\* gives a server branch to a ticket that has a grouped one, nor loses the
\* URL of a runbot: only what was put there after it read the ticket.
SeenFieldsStand ==
  [][\A t \in Ticket :
       \/ edits' # edits
       \/ \E p \in stale : cur[p] # Nothing /\ cur[p].on = t /\ pc'[p] # pc[p]
       \/ /\ \A f \in Component \cup {"dev"} :
               ticket[t][f] = None \/ ticket'[t][f] = ticket[t][f]
          /\ ticket[t].git # None => ticket'[t].server = ticket[t].server
          /\ ticket[t].rb \subseteq ticket'[t].rb]_ticketsVars

\* No branch is proposed twice by the script, to whatever targets, though it
\* is on several tickets, or the version of its ticket changes, and though
\* the script dies and is started again.
OneProposal == \A b \in Branch : Len(proposed[b]) <= 1
=============================================================================
