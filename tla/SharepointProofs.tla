-------------------------- MODULE SharepointProofs --------------------------
(***************************************************************************)
(* For any number of programs, any sizes and any number of retries, the    *)
(* folder sharepoint.py writes to is a BackupFolder, and what a push that  *)
(* ended has stored is the end of its file.  The inductive invariant says  *)
(* what the upload session of a push holds: the chunks read since it began.*)
(***************************************************************************)
EXTENDS Sharepoint, TLAPS

Content == Folder!Content

PositionsOK ==
  /\ pc \in [Program -> {"login", "session", "chunk", "read", "list", "confirm", "delete",
                         "move", "done", "failed"}]
  /\ pos \in [Push -> Nat] /\ begun \in [Push -> Nat] /\ DOMAIN sent = Push
  /\ \A p \in Push : begun[p] <= pos[p] /\ pos[p] <= SizeOf[p]

SessionHolds == \A p \in Push : pc[p] = "chunk" => sent[p] = (begun[p] + 1)..pos[p]

FolderOK ==
  /\ DOMAIN remote \subseteq File
  /\ \A f \in DOMAIN remote : remote[f] \in Content

OwnFile == \A f \in DOMAIN remote : remote[f].by \in Push => f = NameOf[remote[f].by]

IInv == PositionsOK /\ SessionHolds /\ FolderOK /\ OwnFile /\ StoredFromBegun

\* An end of the file of a push, under its name, is a content of the folder.
LEMMA TailIsContent ==
  ASSUME NEW w \in Push \cup {Old}, NEW n \in 1..(SizeOf[w] + 1)
  PROVE  [by |-> w, body |-> n..SizeOf[w]] \in Content
<1> n..SizeOf[w] \in {i..SizeOf[w] : i \in 1..(SizeOf[w] + 1)} OBVIOUS
<1> QED BY DEF Content, Folder!Content

LEMMA InitEstablishes == Init => IInv
<1> SUFFICES ASSUME Init PROVE IInv OBVIOUS
<1> USE SharepointAssumption
<1> PICK there \in SUBSET File : remote = [f \in there |-> [by |-> Old, body |-> Whole(Old)]]
  BY DEF Init
<1>1. PositionsOK
  <2>1. pc \in [Program -> {"list", "login"}] BY DEF Init, Program
  <2> QED BY <2>1 DEF Init, PositionsOK, Program
<1>2. SessionHolds BY DEF Init, SessionHolds, Program
<1>3. Whole(Old) = 1..SizeOf[Old] /\ 1 \in 1..(SizeOf[Old] + 1) BY DEF Whole
<1>4. FolderOK BY <1>3, TailIsContent DEF FolderOK
<1>5. OwnFile /\ StoredFromBegun BY DEF OwnFile, StoredFromBegun
<1> QED BY <1>1, <1>2, <1>4, <1>5 DEF IInv

\* A step of a push that leaves the folder alone, or puts its file there as an
\* end of what it has, keeps the invariant, and is a step of the folder.
LEMMA Uploading ==
  ASSUME IInv, NEW p \in Push, pc[p] # "done", PositionsOK', SessionHolds',
         \A q \in Push \ {p} : pc'[q] = pc[q] /\ begun'[q] = begun[q],
         \/ remote' = remote /\ pc'[p] # "done"
         \/ \E n \in 1..(SizeOf[p] + 1) :
              /\ remote' = Put(remote, NameOf[p], [by |-> p, body |-> n..SizeOf[p]])
              /\ pc'[p] = "done" => n = begun'[p] + 1
  PROVE  IInv' /\ [Folder!Next]_remote
<1> USE SharepointAssumption
<1>1. CASE remote' = remote /\ pc'[p] # "done"
  <2>1. FolderOK' /\ OwnFile' BY <1>1 DEF IInv, FolderOK, OwnFile, Content, Folder!Content
  <2>2. StoredFromBegun'
    BY <1>1 DEF IInv, StoredFromBegun
  <2> QED BY <1>1, <2>1, <2>2 DEF IInv
<1>2. ASSUME NEW n \in 1..(SizeOf[p] + 1),
             remote' = Put(remote, NameOf[p], [by |-> p, body |-> n..SizeOf[p]]),
             pc'[p] = "done" => n = begun'[p] + 1
      PROVE  IInv' /\ [Folder!Next]_remote
  <2> DEFINE new == [by |-> p, body |-> n..SizeOf[p]]
  <2>1. new \in Content BY TailIsContent
  <2>2. NameOf[p] \in File OBVIOUS
  <2>3. DOMAIN remote' = DOMAIN remote \cup {NameOf[p]} BY <1>2 DEF Put
  <2>4. \A x \in DOMAIN remote' : remote'[x] = IF x = NameOf[p] THEN new ELSE remote[x]
    BY <1>2, <2>3 DEF Put
  <2> HIDE DEF new
  <2>5. FolderOK' BY <2>1, <2>2, <2>3, <2>4 DEF IInv, FolderOK, Content, Folder!Content
  <2>6. new.by = p /\ new.body = n..SizeOf[p] BY DEF new
  <2>7. OwnFile' BY <2>3, <2>4, <2>6 DEF IInv, OwnFile
  <2>8. StoredFromBegun'
    <3> SUFFICES ASSUME NEW x \in DOMAIN remote', remote'[x].by \in Push,
                        pc'[remote'[x].by] = "done"
                 PROVE  remote'[x].body = (begun'[remote'[x].by] + 1)..SizeOf[remote'[x].by]
      BY DEF StoredFromBegun
    <3>1. CASE x = NameOf[p] BY <3>1, <1>2, <2>4, <2>6
    <3>2. CASE x # NameOf[p]
      <4>1. x \in DOMAIN remote /\ remote'[x] = remote[x] BY <3>2, <2>3, <2>4
      <4>2. remote[x].by # p BY <4>1, <3>2 DEF IInv, OwnFile
      <4> QED BY <4>1, <4>2 DEF IInv, StoredFromBegun
    <3> QED BY <3>1, <3>2
  <2>9. Folder!Store(NameOf[p], new) BY <1>2 DEF Folder!Store, Put, new
  <2> QED BY <2>1, <2>2, <2>5, <2>7, <2>8, <2>9 DEF IInv, Folder!Next, Content
<1> QED BY <1>1, <1>2

LEMMA LoginStep ==
  ASSUME IInv, NEW p \in Push, Login(p)
  PROVE  IInv' /\ [Folder!Next]_remote
<1> p \in Program BY DEF Program
<1>1. pc'[p] \in {"session", "login", "failed"} /\ pc' = [pc EXCEPT ![p] = pc'[p]]
  BY DEF Login, Retry, IInv, PositionsOK
<1>2. PositionsOK' BY <1>1 DEF Login, IInv, PositionsOK
<1>3. SessionHolds' BY <1>1 DEF Login, IInv, PositionsOK, SessionHolds, Program
<1>4. \A q \in Push \ {p} : pc'[q] = pc[q] /\ begun'[q] = begun[q]
  BY <1>1 DEF Login, IInv, PositionsOK, Program
<1>5. pc[p] # "done" /\ remote' = remote /\ pc'[p] # "done" BY <1>1 DEF Login
<1> QED BY <1>2, <1>3, <1>4, <1>5, Uploading

LEMMA SessionStep ==
  ASSUME IInv, NEW p \in Push, Session(p)
  PROVE  IInv' /\ [Folder!Next]_remote
<1> USE SharepointAssumption
<1> p \in Program BY DEF Program
<1>1. /\ pc'[p] \in {"session", "login", "failed", "chunk", "done"}
      /\ pc' = [pc EXCEPT ![p] = pc'[p]]
  BY DEF Session, Retry, IInv, PositionsOK
<1>2. /\ begun' = [begun EXCEPT ![p] = pos[p]] /\ sent' = [sent EXCEPT ![p] = {}]
      /\ pos'[p] \in {pos[p], SizeOf[p]} /\ pos' = [pos EXCEPT ![p] = pos'[p]]
      /\ pc'[p] = "chunk" => pos'[p] = pos[p]
  BY DEF Session, Retry, IInv, PositionsOK
<1>3. PositionsOK' BY <1>1, <1>2 DEF IInv, PositionsOK
<1>4. SessionHolds'
  BY <1>1, <1>2 DEF IInv, PositionsOK, SessionHolds, Program
<1>5. \A q \in Push \ {p} : pc'[q] = pc[q] /\ begun'[q] = begun[q]
  BY <1>1, <1>2 DEF IInv, PositionsOK, Program
<1>6. pc[p] = "session" BY DEF Session
<1>7. \/ remote' = remote /\ pc'[p] # "done"
      \/ \E n \in 1..(SizeOf[p] + 1) :
           /\ remote' = Put(remote, NameOf[p], [by |-> p, body |-> n..SizeOf[p]])
           /\ pc'[p] = "done" => n = begun'[p] + 1
  <2>1. CASE SizeOf[p] <= Buffer
    <3>1. pos[p] + 1 \in 1..(SizeOf[p] + 1) /\ begun'[p] = pos[p]
      BY <1>2 DEF IInv, PositionsOK
    <3>2. \/ remote' = remote /\ pc'[p] # "done"
          \/ remote' = Put(remote, NameOf[p], Body(p, (pos[p] + 1)..SizeOf[p]))
      BY <2>1 DEF Session, Retry, IInv, PositionsOK
    <3> QED BY <3>1, <3>2 DEF Body
  <2>2. CASE ~(SizeOf[p] <= Buffer)
    <3>1. SizeOf[p] + 1 \in 1..(SizeOf[p] + 1) /\ (SizeOf[p] + 1)..SizeOf[p] = {}
      OBVIOUS
    <3>2. /\ pc'[p] # "done"
          /\ \/ remote' = remote
             \/ remote' = Put(remote, NameOf[p], Body(p, {}))
      BY <2>2 DEF Session, Retry, IInv, PositionsOK
    <3> QED BY <3>1, <3>2 DEF Body
  <2> QED BY <2>1, <2>2
<1> QED BY <1>3, <1>4, <1>5, <1>6, <1>7, Uploading

LEMMA ChunkStep ==
  ASSUME IInv, NEW p \in Push, Chunk(p)
  PROVE  IInv' /\ [Folder!Next]_remote
<1> USE SharepointAssumption
<1> p \in Program BY DEF Program
<1> DEFINE to == IF pos[p] + Buffer < SizeOf[p] THEN pos[p] + Buffer ELSE SizeOf[p]
           now == sent[p] \cup (pos[p] + 1)..to
<1>1. to \in pos[p]..SizeOf[p] /\ begun[p] \in 0..pos[p] /\ pos[p] \in Nat
  BY DEF IInv, PositionsOK
<1>2. now = (begun[p] + 1)..to
  <2>1. sent[p] = (begun[p] + 1)..pos[p] BY DEF Chunk, IInv, SessionHolds
  <2> HIDE DEF to
  <2> QED BY <1>1, <2>1
<1>3. pc[p] = "chunk" /\ begun' = begun /\ pos' = [pos EXCEPT ![p] = to]
  BY DEF Chunk
<1>4. \/ /\ sent' = [sent EXCEPT ![p] = now]
         /\ \/ to < SizeOf[p] /\ remote' = remote /\ pc' = pc
            \/ /\ to = SizeOf[p] /\ pc' = [pc EXCEPT ![p] = "done"]
               /\ remote' = Put(remote, NameOf[p], Body(p, now))
      \/ /\ sent' = sent /\ remote' = remote
         /\ \E place \in {"session", "login", "failed"} : pc' = [pc EXCEPT ![p] = place]
  <2>1. \/ /\ sent' = [sent EXCEPT ![p] = now]
           /\ IF to < SizeOf[p] THEN remote' = remote /\ pc' = pc
              ELSE /\ remote' = Put(remote, NameOf[p], Body(p, now))
                   /\ pc' = [pc EXCEPT ![p] = "done"]
        \/ sent' = sent /\ remote' = remote /\ Retry(p)
    BY DEF Chunk
  <2> HIDE DEF to, now
  <2> QED BY <1>1, <2>1 DEF Retry
<1> HIDE DEF to, now
<1>5. PositionsOK'
  BY <1>1, <1>3, <1>4 DEF IInv, PositionsOK
<1>6. SessionHolds'
  BY <1>1, <1>2, <1>3, <1>4 DEF IInv, PositionsOK, SessionHolds, Program
<1>7. \A q \in Push \ {p} : pc'[q] = pc[q] /\ begun'[q] = begun[q]
  BY <1>3, <1>4 DEF IInv, PositionsOK, Program
<1>8. \/ remote' = remote /\ pc'[p] # "done"
      \/ \E n \in 1..(SizeOf[p] + 1) :
           /\ remote' = Put(remote, NameOf[p], [by |-> p, body |-> n..SizeOf[p]])
           /\ pc'[p] = "done" => n = begun'[p] + 1
  <2>1. begun[p] + 1 \in 1..(SizeOf[p] + 1) BY <1>1
  <2>2. CASE /\ remote' = remote
             /\ \/ pc' = pc
                \/ \E place \in {"session", "login", "failed"} : pc' = [pc EXCEPT ![p] = place]
    BY <1>3, <2>2 DEF IInv, PositionsOK
  <2>3. CASE to = SizeOf[p] /\ remote' = Put(remote, NameOf[p], Body(p, now))
    BY <1>2, <1>3, <2>1, <2>3 DEF Body
  <2> QED BY <1>4, <2>2, <2>3
<1> QED BY <1>3, <1>5, <1>6, <1>7, <1>8, Uploading

\* What is not a push leaves pushes alone, and at most takes files away.
LEMMA Taking ==
  ASSUME IInv, UNCHANGED unpushed, PositionsOK', \A p \in Push : pc'[p] = pc[p],
         \/ remote' = remote
         \/ \E f \in DOMAIN remote : remote' = Gone(remote, f)
  PROVE  IInv' /\ [Folder!Next]_remote
<1>1. /\ DOMAIN remote' \subseteq DOMAIN remote
      /\ \A f \in DOMAIN remote' : remote'[f] = remote[f]
  BY DEF Gone
<1>2. begun' = begun /\ sent' = sent /\ pos' = pos BY DEF unpushed
<1>3. SessionHolds' BY <1>2 DEF IInv, SessionHolds
<1>4. FolderOK' BY <1>1 DEF IInv, FolderOK, Content, Folder!Content
<1>5. OwnFile' BY <1>1 DEF IInv, OwnFile
<1>6. StoredFromBegun' BY <1>1, <1>2 DEF IInv, StoredFromBegun
<1>7. [Folder!Next]_remote
  <2>1. ASSUME NEW f \in DOMAIN remote, remote' = Gone(remote, f) PROVE Folder!Next
    <3>1. f \in File BY DEF IInv, FolderOK
    <3>2. Folder!Remove(f) BY <2>1 DEF Folder!Remove, Gone
    <3> QED BY <3>1, <3>2 DEF Folder!Next
  <2> QED BY <2>1
<1> QED BY <1>3, <1>4, <1>5, <1>6, <1>7 DEF IInv

LEMMA OtherSteps ==
  ASSUME IInv,
         \/ \E g \in Get : Fetch(g)
         \/ \E m \in Mover : Move(m)
         \/ \E c \in Clean : ListPattern(c) \/ DeleteNamed(c) \/ Confirm(c) \/ Delete(c)
  PROVE  IInv' /\ [Folder!Next]_remote
<1> USE SharepointAssumption
<1>1. ASSUME NEW g \in Get, Fetch(g) PROVE IInv' /\ [Folder!Next]_remote
  <2>1. /\ UNCHANGED unpushed /\ remote' = remote
        /\ \E place \in {"read", "done", "failed"} : pc' = [pc EXCEPT ![g] = place]
    BY <1>1 DEF Fetch
  <2>2. PositionsOK' /\ \A p \in Push : pc'[p] = pc[p]
    BY <2>1 DEF IInv, PositionsOK, unpushed, Program
  <2> QED BY <2>1, <2>2, Taking
<1>2. ASSUME NEW m \in Mover, Move(m) PROVE IInv' /\ [Folder!Next]_remote
  <2>1. /\ UNCHANGED unpushed
        /\ remote' = remote \/ \E f \in DOMAIN remote : remote' = Gone(remote, f)
        /\ \E place \in {"done", "failed"} : pc' = [pc EXCEPT ![m] = place]
    BY <1>2 DEF Move
  <2>2. PositionsOK' /\ \A p \in Push : pc'[p] = pc[p]
    BY <2>1 DEF IInv, PositionsOK, unpushed, Program
  <2> QED BY <2>1, <2>2, Taking
<1>3. ASSUME NEW c \in Clean, ListPattern(c) \/ DeleteNamed(c) \/ Confirm(c) \/ Delete(c)
      PROVE  IInv' /\ [Folder!Next]_remote
  <2>1. /\ UNCHANGED unpushed
        /\ remote' = remote \/ \E f \in DOMAIN remote : remote' = Gone(remote, f)
        /\ \/ pc' = pc
           \/ \E place \in {"confirm", "delete", "done", "failed"} :
                pc' = [pc EXCEPT ![c] = place]
    BY <1>3 DEF ListPattern, DeleteNamed, Confirm, Delete, Goto
  <2>2. PositionsOK' /\ \A p \in Push : pc'[p] = pc[p]
    BY <2>1 DEF IInv, PositionsOK, unpushed, Program
  <2> QED BY <2>1, <2>2, Taking
<1> QED BY <1>1, <1>2, <1>3

LEMMA StepKeeps ==
  ASSUME IInv, [Next]_vars
  PROVE  IInv' /\ [Folder!Next]_remote
<1>1. CASE UNCHANGED vars
  <2>1. UNCHANGED unpushed /\ pc' = pc /\ remote' = remote BY <1>1 DEF vars, unpushed
  <2>2. PositionsOK' BY <2>1 DEF IInv, PositionsOK, unpushed
  <2> QED BY <2>1, <2>2, Taking
<1>2. CASE \E p \in Push : Pushing(p)
  BY <1>2, LoginStep, SessionStep, ChunkStep DEF Pushing
<1>3. CASE \/ \E g \in Get : Fetch(g)
           \/ \E m \in Mover : Move(m)
           \/ \E c \in Clean : ListPattern(c) \/ DeleteNamed(c) \/ Confirm(c) \/ Delete(c)
  BY <1>3, OtherSteps
<1> QED BY <1>1, <1>2, <1>3 DEF Next

\* What a push that ended has stored is the end of its file from where its
\* last upload session began, whoever else uses the folder: no retry leaves a
\* hole (sharepoint.py, push).
THEOREM StoredIsATail == Spec => []StoredFromBegun
<1>1. Init => IInv BY InitEstablishes
<1>2. IInv /\ [Next]_vars => IInv' BY StepKeeps
<1>3. IInv => StoredFromBegun BY DEF IInv
<1> QED BY <1>1, <1>2, <1>3, PTL DEF Spec

\* The folder the programs of sharepoint.py share is a BackupFolder.
THEOREM FolderImplemented == Spec => ImplementsFolder
<1>1. Init => IInv BY InitEstablishes
<1>2. IInv /\ [Next]_vars => IInv' /\ [Folder!Next]_remote BY StepKeeps
<1>3. Init => Folder!Init
  <2> SUFFICES ASSUME Init PROVE Folder!Init OBVIOUS
  <2> PICK there \in SUBSET File : remote = [f \in there |-> [by |-> Old, body |-> Whole(Old)]]
    BY DEF Init
  <2> QED BY DEF Folder!Init, Whole
<1> QED BY <1>1, <1>2, <1>3, PTL DEF Spec, ImplementsFolder, Folder!Spec
=============================================================================
