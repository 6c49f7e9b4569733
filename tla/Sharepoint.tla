----------------------------- MODULE Sharepoint -----------------------------
(***************************************************************************)
(* Sharepoint/sharepoint.py on top of Sharepoint/webdav.py: backups are    *)
(* pushed to a folder, fetched, moved to an archive and deleted by         *)
(* pattern, by programs that run at the same time.  The library office365  *)
(* and the server are external: a request works or raises an exception.    *)
(*                                                                         *)
(*   remote  the folder: name -> [by, body], body the chunks stored, which *)
(*           a session stores in the order of the file                     *)
(*   archive the folder backups are moved to                               *)
(*   pc      place of each program                                         *)
(*   pos     how many chunks of its file a push has read                   *)
(*   sent    the chunks of the upload session that is open                 *)
(*   retries, connected   the variables of push()                          *)
(*   begun   the position the last upload session of a push began at       *)
(*   local   what a get has written to its file                            *)
(*   shown   the files delete_pattern has listed and not reached           *)
(***************************************************************************)
EXTENDS Integers, FiniteSets

CONSTANTS
  Push, Get, Clean, Mover,  \* programs: push, get, delete with a pattern, move
  File,                     \* names of remote files
  NameOf,                   \* the file a push, get or move is about
  Matching,                 \* the names the pattern of delete matches
  SizeOf,                   \* chunks of the file of each push, and of the old ones
  Buffer,                   \* how many fit in one request
  MaxRetries,               \* max_retries
  Old                       \* who pushed what is there at the start

VARIABLES remote, archive, pc, pos, sent, retries, connected, begun, local, shown

vars == <<remote, archive, pc, pos, sent, retries, connected, begun, local, shown>>

Program == Push \cup Get \cup Clean \cup Mover

Whole(by) == 1..SizeOf[by]

Stored == UNION {[by : {by}, body : SUBSET Whole(by)] : by \in Push \cup {Old}}

ASSUME SharepointAssumption ==
  /\ SizeOf \in [Push \cup {Old} -> Nat \ {0}]
  /\ Buffer \in Nat \ {0} /\ MaxRetries \in Nat
  /\ NameOf \in [Push \cup Get \cup Mover -> File]
  /\ Matching \subseteq File
  /\ Old \notin Push
  /\ Push \cap (Get \cup Mover \cup Clean) = {}  \* one kind each

TypeOK ==
  /\ DOMAIN remote \subseteq File /\ \A f \in DOMAIN remote : remote[f] \in Stored
  /\ DOMAIN archive \subseteq File /\ \A f \in DOMAIN archive : archive[f] \in Stored
  /\ pc \in [Program -> {"login", "session", "chunk", "read", "list", "confirm", "delete",
                         "move", "done", "failed"}]
  /\ pos \in [Push -> Nat] /\ begun \in [Push -> Nat]
  /\ \A p \in Push : begun[p] <= pos[p] /\ pos[p] <= SizeOf[p]
  /\ sent \in [Push -> SUBSET (Nat \ {0})]
  /\ retries \in [Push -> 0..(MaxRetries + 1)]
  /\ connected \in [Push -> BOOLEAN]
  /\ local \in [Get -> SUBSET (Nat \ {0})]
  /\ shown \in [Clean -> SUBSET File]

Init ==
  /\ \E there \in SUBSET File : remote = [f \in there |-> [by |-> Old, body |-> Whole(Old)]]
  /\ archive = [f \in {} |-> [by |-> Old, body |-> Whole(Old)]]
  /\ pc = [p \in Program |-> IF p \in Clean THEN "list" ELSE "login"]
  /\ pos = [p \in Push |-> 0] /\ begun = [p \in Push |-> 0]
  /\ sent = [p \in Push |-> {}]
  /\ retries = [p \in Push |-> 0]
  /\ connected = [p \in Push |-> FALSE]
  /\ local = [g \in Get |-> {}]
  /\ shown = [c \in Clean |-> {}]

-----------------------------------------------------------------------------
Goto(p, from, to) == pc[p] = from /\ pc' = [pc EXCEPT ![p] = to]

Put(folder, f, stored) == [x \in DOMAIN folder \cup {f} |-> IF x = f THEN stored ELSE folder[x]]

Gone(folder, f) == [x \in DOMAIN folder \ {f} |-> folder[x]]

others == <<archive, local, shown>>

(* push: the file is opened once, before the loop                          *)

\* The loop again, with the connection there was; the exception is raised
\* once `retries` has passed max_retries.
Retry(p) ==
  IF retries[p] > MaxRetries
  THEN pc' = [pc EXCEPT ![p] = "failed"] /\ UNCHANGED retries
  ELSE /\ pc' = [pc EXCEPT ![p] = IF connected'[p] THEN "session" ELSE "login"]
       /\ retries' = [retries EXCEPT ![p] = @ + 1]

\* Client(): the certificate is read and the site asked for its address
Login(p) ==
  /\ p \in Push /\ pc[p] = "login"
  /\ \/ /\ connected' = [connected EXCEPT ![p] = TRUE]
        /\ pc' = [pc EXCEPT ![p] = "session"] /\ UNCHANGED retries
     \/ UNCHANGED connected /\ Retry(p)
     \/ pc' = [pc EXCEPT ![p] = "failed"] /\ UNCHANGED <<connected, retries>>
  /\ UNCHANGED <<remote, pos, sent, begun, others>>

Body(p, chunks) == [by |-> p, body |-> chunks]

\* mutant: the session goes on with the chunks it had
Session_Resume(p) ==
  /\ pc[p] = "session"
  /\ begun' = [begun EXCEPT ![p] = pos[p]]
  /\ UNCHANGED sent
  /\ IF SizeOf[p] <= Buffer
     THEN /\ pos' = [pos EXCEPT ![p] = SizeOf[p]]
          /\ \/ /\ remote' = Put(remote, NameOf[p], Body(p, (pos[p] + 1)..SizeOf[p]))
                /\ pc' = [pc EXCEPT ![p] = "done"] /\ UNCHANGED <<retries, connected>>
             \/ UNCHANGED <<remote, connected>> /\ Retry(p)
     ELSE /\ \/ /\ remote' = Put(remote, NameOf[p], Body(p, {}))
                /\ pc' = [pc EXCEPT ![p] = "chunk"] /\ UNCHANGED <<retries, connected>>
             \/ UNCHANGED <<remote, connected>> /\ Retry(p)
          /\ UNCHANGED pos
  /\ UNCHANGED others

\* create_upload_session: a file that fits in the buffer is read to its end
\* and sent in one request, for another an empty file is added first.
Session(p) ==
  /\ pc[p] = "session"
  /\ begun' = [begun EXCEPT ![p] = pos[p]]
  /\ sent' = [sent EXCEPT ![p] = {}]
  /\ IF SizeOf[p] <= Buffer
     THEN /\ pos' = [pos EXCEPT ![p] = SizeOf[p]]
          /\ \/ /\ remote' = Put(remote, NameOf[p], Body(p, (pos[p] + 1)..SizeOf[p]))
                /\ pc' = [pc EXCEPT ![p] = "done"] /\ UNCHANGED <<retries, connected>>
             \/ UNCHANGED <<remote, connected>> /\ Retry(p)
     ELSE /\ \/ /\ remote' = Put(remote, NameOf[p], Body(p, {}))
                /\ pc' = [pc EXCEPT ![p] = "chunk"] /\ UNCHANGED <<retries, connected>>
             \/ UNCHANGED <<remote, connected>> /\ Retry(p)
          /\ UNCHANGED pos
  /\ UNCHANGED others

\* mutant: a chunk that fails is left out
Chunk_Skip(p) ==
  /\ pc[p] = "chunk"
  /\ LET to == IF pos[p] + Buffer < SizeOf[p] THEN pos[p] + Buffer ELSE SizeOf[p]
         now == sent[p] \cup (pos[p] + 1)..to
     IN /\ pos' = [pos EXCEPT ![p] = to]
        /\ \/ /\ sent' = [sent EXCEPT ![p] = now]
              /\ IF to < SizeOf[p] THEN UNCHANGED <<remote, pc>>
                 ELSE /\ NameOf[p] \in DOMAIN remote
                      /\ remote' = Put(remote, NameOf[p], Body(p, now))
                      /\ pc' = [pc EXCEPT ![p] = "done"]
              /\ UNCHANGED <<retries, connected>>
           \/ to < SizeOf[p] /\ UNCHANGED <<sent, remote, connected, pc, retries>>
  /\ UNCHANGED <<begun, others>>

\* A request fails after its chunk was read from the file: the next session
\* goes on from there.  The last chunk ends the session and stores them all.
Chunk(p) ==
  /\ pc[p] = "chunk"
  /\ LET to == IF pos[p] + Buffer < SizeOf[p] THEN pos[p] + Buffer ELSE SizeOf[p]
         now == sent[p] \cup (pos[p] + 1)..to
     IN /\ pos' = [pos EXCEPT ![p] = to]
        /\ \/ /\ sent' = [sent EXCEPT ![p] = now]
              /\ IF to < SizeOf[p] THEN UNCHANGED <<remote, pc>>
                 ELSE /\ NameOf[p] \in DOMAIN remote
                      /\ remote' = Put(remote, NameOf[p], Body(p, now))
                      /\ pc' = [pc EXCEPT ![p] = "done"]
              /\ UNCHANGED <<retries, connected>>
           \/ UNCHANGED <<sent, remote, connected>> /\ Retry(p)
  /\ UNCHANGED <<begun, others>>

-----------------------------------------------------------------------------
unpushed == <<pos, sent, retries, connected, begun>>

\* get: the local file is emptied, then written as the answer comes in; what
\* has come when the connection breaks stays
Fetch(g) ==
  /\ g \in Get /\ pc[g] \in {"login", "read"}
  /\ \/ pc[g] = "login" /\ pc' = [pc EXCEPT ![g] = "read"] /\ UNCHANGED local
     \/ /\ pc[g] = "read" /\ NameOf[g] \in DOMAIN remote
        /\ local' = [local EXCEPT ![g] = remote[NameOf[g]].body]
        /\ pc' = [pc EXCEPT ![g] = "done"]
     \/ /\ pc[g] = "read" /\ NameOf[g] \in DOMAIN remote
        /\ \E n \in {0} \cup remote[NameOf[g]].body :
             local' = [local EXCEPT ![g] = {i \in remote[NameOf[g]].body : i <= n}]
        /\ pc' = [pc EXCEPT ![g] = "failed"]
     \/ pc' = [pc EXCEPT ![g] = "failed"] /\ UNCHANGED local
  /\ UNCHANGED <<remote, archive, shown, unpushed>>

\* move replaces a file of that name in the archive
Move(m) ==
  /\ m \in Mover /\ pc[m] = "login"
  /\ \/ /\ NameOf[m] \in DOMAIN remote
        /\ archive' = Put(archive, NameOf[m], remote[NameOf[m]])
        /\ remote' = Gone(remote, NameOf[m])
        /\ pc' = [pc EXCEPT ![m] = "done"]
     \/ pc' = [pc EXCEPT ![m] = "failed"] /\ UNCHANGED <<remote, archive>>
  /\ UNCHANGED <<local, shown, unpushed>>

\* delete with a pattern: what matches is listed, and confirmed
ListPattern(c) ==
  /\ \/ /\ Goto(c, "list", "confirm")
        /\ shown' = [shown EXCEPT ![c] = DOMAIN remote \cap Matching]
     \/ Goto(c, "list", "failed") /\ UNCHANGED shown
  /\ UNCHANGED <<remote, archive, local, unpushed>>

\* delete without one: the file of that name, there or not
DeleteNamed(c) ==
  /\ Goto(c, "list", "delete")
  /\ \E f \in File : shown' = [shown EXCEPT ![c] = {f}]
  /\ UNCHANGED <<remote, archive, local, unpushed>>

Confirm(c) ==
  /\ pc[c] = "confirm"
  /\ \E answer \in {"delete", "done"} : pc' = [pc EXCEPT ![c] = answer]
  /\ UNCHANGED <<remote, archive, local, shown, unpushed>>

\* one request each; an exception ends the loop
Delete(c) ==
  /\ \/ /\ pc[c] = "delete"
        /\ \E f \in shown[c] \cap DOMAIN remote :
             /\ remote' = Gone(remote, f)
             /\ shown' = [shown EXCEPT ![c] = @ \ {f}]
        /\ UNCHANGED pc
     \/ shown[c] # {} /\ Goto(c, "delete", "failed") /\ UNCHANGED <<remote, shown>>
     \/ shown[c] = {} /\ Goto(c, "delete", "done") /\ UNCHANGED <<remote, shown>>
  /\ UNCHANGED <<archive, local, unpushed>>

Pushing(p) == Login(p) \/ Session(p) \/ Chunk(p)

Next ==
  \/ \E p \in Push : Pushing(p)
  \/ \E g \in Get : Fetch(g)
  \/ \E m \in Mover : Move(m)
  \/ \E c \in Clean : ListPattern(c) \/ DeleteNamed(c) \/ Confirm(c) \/ Delete(c)

Spec == Init /\ [][Next]_vars

-----------------------------------------------------------------------------
(* Properties                                                              *)

\* What a push that ended normally has stored is the end of its file from
\* the place its last session began at: no chunk in the middle is lost by the
\* retries, though those read before may be.
StoredFromBegun ==
  \A f \in DOMAIN remote :
    LET p == remote[f].by
    IN p \in Push /\ pc[p] = "done" => remote[f].body = (begun[p] + 1)..SizeOf[p]

\* The folder as others see it: however pushes of one name, retries, moves and
\* deletions interleave, a file is empty or the end of one pushed file, never
\* a mixture, and changes in one step.
Folder == INSTANCE BackupFolder WITH folder <- remote, Writers <- Push \cup {Old}

ImplementsFolder == Folder!Spec
=============================================================================
