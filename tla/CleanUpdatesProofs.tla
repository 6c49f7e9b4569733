------------------------- MODULE CleanUpdatesProofs --------------------------
(***************************************************************************)
(* Proofs about CleanUpdates: while instances push and pull and whatever   *)
(* the script does or is killed at, a committed compaction keeps the       *)
(* newest update of each settled record (NewestStays) and leaves no more   *)
(* than the writes it means to keep (Compacts).                            *)
(***************************************************************************)
EXTENDS CleanUpdates, FiniteSetTheorems, WellFoundedInduction, TLAPS

\* Sequence numbers are given once, and none above minSeq is given below pushed.
LogInv ==
  /\ IsFiniteSet(log)
  /\ \A u \in log : u.seq <= pushed
  /\ \A u, v \in log : u.seq = v.seq => u = v
  /\ last \in [Entity -> 0..pushed]
  /\ minSeq <= pushed

IsNewest(u, rec) == u \in Of(rec) /\ \A v \in Of(rec) : v.seq <= u.seq

\* the stages with a loop, and the records each is about
Looping == {"deletes", "keep2", "single"}

GroupInv ==
  /\ stage = "idle" => gone = {}
  /\ groups # {} => stage \in Looping
  /\ \A g \in groups :
       /\ g.rec \in (IF stage = "keep2" THEN Keep2Rec ELSE SingleRec)
       /\ \E u \in Of(g.rec) : u.seq = g.last
       /\ stage # "deletes" =>
            \A u \in Old(g.rec, FALSE) : u.seq <= g.last
       /\ stage = "single" /\ g.rec \in Kept /\ Settled(g.rec) =>
            \A u \in Of(g.rec) : IsNewest(u, g.rec) => ~u.del

\* a newest update that deletes its record is what is left of the record once
\* the first loop has gone over it
OnlyDeletion(rec) ==
  \A u \in Of(rec) : IsNewest(u, rec) /\ u.del =>
    \/ stage \in {"idle", "inactive", "select_deletes", "old", "commit"}
    \/ stage = "deletes" /\ \E g \in groups : g.rec = rec /\ g.last = u.seq
    \/ \A v \in Seen : v.rec = rec => v = u

NewestInv ==
  \A rec \in Kept : Settled(rec) =>
    /\ \A u \in Of(rec) : IsNewest(u, rec) => u.seq \notin gone
    /\ rec \in SingleRec => OnlyDeletion(rec)

\* what the loops leave of a record
OneWrite(rec) == \A u, v \in Old(rec, FALSE) : u = v

TwoWrites(rec) == \E a, b \in Int : \A u \in Old(rec, FALSE) : u.seq \in {a, b}

CompactInv ==
  /\ stage = "keep2" =>
       \A rec \in Keep2Rec : (\E g \in groups : g.rec = rec) \/ TwoWrites(rec)
  /\ stage \in {"select_single", "single", "old", "commit"} =>
       \A rec \in Keep2Rec : TwoWrites(rec)
  /\ stage = "single" =>
       \A rec \in SingleRec : (\E g \in groups : g.rec = rec) \/ OneWrite(rec)
  /\ stage \in {"old", "commit"} =>
       \A rec \in SingleRec : OneWrite(rec)

CleanInv == TypeOK /\ LogInv /\ GroupInv /\ NewestInv /\ CompactInv
-----------------------------------------------------------------------------
(* Sets of sequence numbers                                                *)

\* A non-empty set of natural numbers has a least element.
LEMMA LeastNumber ==
  ASSUME NEW T \in SUBSET Nat, T # {}
  PROVE  \E m \in T : \A n \in T : m <= n
<1> DEFINE R == OpToRel(<, Nat)
<1>1. IsWellFoundedOn(R, Nat)
  BY NatLessThanWellFounded, Zenon
<1>2. \A x, y \in Nat : x < y => <<x, y>> \in R
  BY Zenon DEF OpToRel
<1> HIDE DEF R
<1>3. PICK m \in T : \A y \in T : ~ (<<y, m>> \in R)
  BY <1>1, WFMin
<1>4. \A y \in T : ~(y < m)
  BY <1>2, <1>3
<1>5. m \in Nat /\ \A y \in T : y \in Nat
  OBVIOUS
<1>6. \A y \in Nat : ~(y < m) => m <= y
  BY <1>5
<1> QED
  BY <1>4, <1>5, <1>6

\* One that is bounded has a greatest.
LEMMA GreatestNumber ==
  ASSUME NEW n \in Nat, NEW T \in SUBSET (0..n), T # {}
  PROVE  \E m \in T : \A x \in T : x <= m
<1> DEFINE B == {b \in Nat : \A x \in T : x <= b}
<1>1. n \in B
  OBVIOUS
<1>2. PICK m \in B : \A b \in B : m <= b
  BY <1>1, LeastNumber
<1>3. m \in Nat /\ \A x \in T : x \in Nat /\ x <= m
  BY <1>2
<1>4. m \in T
  <2> SUFFICES ASSUME m \notin T PROVE FALSE
    OBVIOUS
  <2>1. \A x \in T : x < m
    BY <1>3
  <2>2. PICK x \in T : x \in Nat /\ x < m
    BY <1>3, <2>1
  <2>3. m - 1 \in Nat
    BY <1>3, <2>2
  <2>4. \A y \in T : y <= m - 1
    BY <1>3, <2>1
  <2> QED
    BY <1>2, <1>3, <2>3, <2>4
<1> QED
  BY <1>3, <1>4

LEMMA MinOf ==
  ASSUME NEW T \in SUBSET Nat, T # {}
  PROVE  Min(T) \in T /\ \A x \in T : Min(T) <= x
BY LeastNumber DEF Min

LEMMA MaxOf ==
  ASSUME NEW n \in Nat, NEW T \in SUBSET (0..n), T # {}
  PROVE  Max(T) \in T /\ \A x \in T : x <= Max(T)
BY GreatestNumber DEF Max

\* A set of fewer than two, or three, elements.
LEMMA FewerThanTwo ==
  ASSUME NEW S, IsFiniteSet(S), Cardinality(S) < 2
  PROVE  \A x, y \in S : x = y
<1> SUFFICES ASSUME NEW x \in S, NEW y \in S, x # y
             PROVE  FALSE
  OBVIOUS
<1> DEFINE R == S \ {x}
<1>1. IsFiniteSet(R) /\ Cardinality(R) = Cardinality(S) - 1 /\ Cardinality(S) \in Nat
  BY FS_RemoveElement, FS_CardinalityType
<1>2. y \in R
  OBVIOUS
<1> HIDE DEF R
<1>3. Cardinality(R) = 0
  BY <1>1, FS_CardinalityType
<1> QED
  BY <1>1, <1>2, <1>3, FS_EmptySet

LEMMA FewerThanThree ==
  ASSUME NEW S, IsFiniteSet(S), Cardinality(S) < 3, S # {}
  PROVE  \E x, y \in S : S = {x, y}
<1>1. PICK x \in S : TRUE
  OBVIOUS
<1>2. IsFiniteSet(S \ {x}) /\ Cardinality(S \ {x}) = Cardinality(S) - 1 /\ Cardinality(S) \in Nat
  BY FS_RemoveElement, FS_CardinalityType
<1>3. \A y, z \in S \ {x} : y = z
  <2>1. Cardinality(S \ {x}) < 2
    BY <1>2
  <2> QED
    BY <1>2, <2>1, FewerThanTwo
<1>4. CASE S \ {x} = {}
  BY <1>4
<1>5. CASE S \ {x} # {}
  <2>1. PICK y \in S \ {x} : TRUE
    BY <1>5
  <2>2. S = {x, y}
    BY <1>3, <2>1
  <2> QED
    BY <2>1, <2>2
<1> QED
  BY <1>4, <1>5

\* The other way: a set with at most one, or two, values.
LEMMA AtMostOneElement ==
  ASSUME NEW S, IsFiniteSet(S), \A x, y \in S : x = y
  PROVE  Cardinality(S) <= 1
<1>1. CASE S = {}
  BY <1>1, FS_EmptySet
<1>2. CASE S # {}
  <2>1. PICK x \in S : TRUE
    BY <1>2
  <2>2. S = {x}
    BY <2>1
  <2> QED
    BY <2>2, FS_Singleton
<1> QED
  BY <1>1, <1>2

LEMMA AtMostTwoElements ==
  ASSUME NEW S, IsFiniteSet(S), \A x, y, z \in S : x = y \/ y = z \/ x = z
  PROVE  Cardinality(S) <= 2
<1>1. CASE S = {}
  BY <1>1, FS_EmptySet
<1>2. CASE S # {}
  <2>1. PICK x \in S : TRUE
    BY <1>2
  <2>2. IsFiniteSet(S \ {x}) /\ Cardinality(S \ {x}) = Cardinality(S) - 1 /\ Cardinality(S) \in Nat
    BY FS_RemoveElement, FS_CardinalityType
  <2>3. Cardinality(S \ {x}) <= 1
    BY <2>2, AtMostOneElement
  <2> QED
    BY <2>2, <2>3
<1> QED
  BY <1>1, <1>2

-----------------------------------------------------------------------------
(* Lemmas about the table                                                  *)

\* A row that a statement does not delete keeps its number.
LEMMA NotDeleted ==
  ASSUME LogInv, NEW D \in SUBSET log, NEW u \in log \ D
  PROVE  u.seq \notin Seqs(D)
BY DEF LogInv, Seqs

\* Rows below the newest pushed are numbered, so a set of them has a last one.
LEMMA OldNumbers ==
  ASSUME TypeOK, NEW rec, NEW del, Old(rec, del) # {}
  PROVE  LET T == Seqs(Old(rec, del))
         IN  /\ Min(T) \in T /\ Max(T) \in T
             /\ \A u \in Old(rec, del) : u.seq <= Max(T)
<1> DEFINE T == Seqs(Old(rec, del))
<1>1. MaxSeq \in Nat
  BY EntityAssumption
<1>2. T \in SUBSET (0..MaxSeq) /\ T \in SUBSET Nat /\ T # {}
  BY <1>1 DEF TypeOK, Update, Old, Seen, Seqs
<1>3. \A u \in Old(rec, del) : u.seq \in T
  BY DEF Seqs
<1> HIDE DEF T
<1>4. Min(T) \in T
  BY <1>2, MinOf
<1>5. Max(T) \in T /\ \A x \in T : x <= Max(T)
  BY <1>1, <1>2, MaxOf
<1> QED
  BY <1>3, <1>4, <1>5 DEF T

\* A record with updates has a newest one, and Newest is it.
LEMMA NewestExists ==
  ASSUME TypeOK, NEW rec, Of(rec) # {}
  PROVE  IsNewest(Newest(rec), rec)
<1> DEFINE T == {u.seq : u \in Of(rec)}
<1>1. MaxSeq \in Nat
  BY EntityAssumption
<1>2. T \in SUBSET (0..MaxSeq) /\ T # {}
  BY <1>1 DEF TypeOK, Update, Of
<1>3. PICK m \in T : \A x \in T : x <= m
  BY <1>1, <1>2, GreatestNumber
<1>4. PICK u \in Of(rec) : u.seq = m
  BY <1>3
<1>5. \A v \in Of(rec) : v.seq <= u.seq
  BY <1>3, <1>4
<1> QED
  BY <1>4, <1>5 DEF Newest, IsNewest

\* The same update cannot be the newest with two numbers.
LEMMA NewestSeq ==
  ASSUME TypeOK, NEW rec, NEW u \in Of(rec), IsNewest(u, rec),
         NEW v \in Of(rec), u.seq <= v.seq
  PROVE  u.seq = v.seq
BY DEF IsNewest, TypeOK, Update, Of

\* The transaction deletes rows: what was few stays few.
LEMMA Narrowed ==
  ASSUME log' = log, minSeq' = minSeq, gone \subseteq gone'
  PROVE  /\ Seen' \subseteq Seen
         /\ \A rec : Of(rec)' = Of(rec)
         /\ \A rec : Settled(rec)' <=> Settled(rec)
         /\ \A rec, u : IsNewest(u, rec)' <=> IsNewest(u, rec)
         /\ \A rec, del : Old(rec, del)' \subseteq Old(rec, del)
         /\ \A rec : OneWrite(rec) => OneWrite(rec)'
         /\ \A rec : TwoWrites(rec) => TwoWrites(rec)'
<1>1. Seen' \subseteq Seen
  BY DEF Seen
<1>2. \A rec : Of(rec)' = Of(rec)
  BY DEF Of
<1>3. \A rec : Settled(rec)' <=> Settled(rec)
  BY DEF Settled, Of
<1>4. \A rec, u : IsNewest(u, rec)' <=> IsNewest(u, rec)
  BY DEF IsNewest, Of
<1>5. \A rec, del : Old(rec, del)' \subseteq Old(rec, del)
  BY <1>1 DEF Old
<1>6. \A rec : OneWrite(rec) => OneWrite(rec)'
  BY <1>5 DEF OneWrite
<1>7. \A rec : TwoWrites(rec) => TwoWrites(rec)'
  BY <1>5 DEF TwoWrites
<1> QED
  BY <1>1, <1>2, <1>3, <1>4, <1>5, <1>6, <1>7

\* Pushed updates are above minSeq.
LEMMA Pushed ==
  ASSUME CleanInv, NEW r \in Record, NEW d \in BOOLEAN, Push(r, d)
  PROVE  /\ minSeq' = minSeq /\ stage' = stage /\ groups' = groups /\ gone' = gone
         /\ \A rec : rec # r => Of(rec)' = Of(rec)
         /\ ~Settled(r)'
         /\ \A rec : rec # r => (Settled(rec)' <=> Settled(rec))
         /\ \A rec, u : rec # r => (IsNewest(u, rec)' <=> IsNewest(u, rec))
         /\ \A rec, del : Old(rec, del)' = Old(rec, del)
         /\ \A rec : Of(rec) \subseteq Of(rec)'
         /\ \A v \in Seen' : v \in Seen \/ v.rec = r
<1> DEFINE new == [seq |-> pushed + 1, rec |-> r, del |-> d]
<1>1. /\ log' = log \cup {new} /\ pushed' = pushed + 1
      /\ UNCHANGED <<minSeq, stage, groups, gone>>
  BY DEF Push, scriptVars
<1>2. new.seq = pushed + 1 /\ new.rec = r /\ new.del = d
  OBVIOUS
<1> HIDE DEF new
<1>3. ~(new.seq < minSeq)
  <2>1. pushed \in Nat /\ minSeq \in Int /\ minSeq <= pushed
    BY EntityAssumption DEF CleanInv, TypeOK, LogInv
  <2> QED
    BY <1>2, <2>1
<1>4. \A rec : rec # r => Of(rec)' = Of(rec)
  BY <1>1, <1>2 DEF Of
<1>5. ~Settled(r)'
  BY <1>1, <1>2, <1>3 DEF Settled, Of
<1>6. \A rec : rec # r => (Settled(rec)' <=> Settled(rec))
  BY <1>1, <1>4 DEF Settled
<1>7. \A rec, u : rec # r => (IsNewest(u, rec)' <=> IsNewest(u, rec))
  BY <1>4 DEF IsNewest
<1>8. \A rec, del : Old(rec, del)' = Old(rec, del)
  BY <1>1, <1>3 DEF Old, Seen
<1>9. /\ \A rec : Of(rec) \subseteq Of(rec)'
      /\ \A v \in Seen' : v \in Seen \/ v.rec = r
  BY <1>1, <1>2 DEF Of, Seen
<1> QED
  BY <1>1, <1>4, <1>5, <1>6, <1>7, <1>8, <1>9

-----------------------------------------------------------------------------
(* Types and the numbering of the table                                    *)

LEMMA PushTypes ==
  ASSUME CleanInv, NEW r \in Record, NEW d \in BOOLEAN, Push(r, d)
  PROVE  TypeOK' /\ LogInv'
<1> DEFINE new == [seq |-> pushed + 1, rec |-> r, del |-> d]
<1>1. /\ pushed < MaxSeq /\ log' = log \cup {new} /\ pushed' = pushed + 1
      /\ UNCHANGED <<state, last, aged, stage, minSeq, groups, gone>>
  BY DEF Push, scriptVars
<1>2. pushed \in Nat /\ pushed <= MaxSeq /\ MaxSeq \in Nat /\ minSeq \in Int
  BY EntityAssumption DEF CleanInv, TypeOK
<1>3. new \in Update /\ new.seq = pushed + 1
  BY <1>1, <1>2 DEF Update
<1> HIDE DEF new
<1>4. TypeOK'
  <2>1. log' \subseteq Update /\ pushed' \in 0..MaxSeq
    BY <1>1, <1>2, <1>3 DEF CleanInv, TypeOK
  <2> QED
    BY <1>1, <2>1 DEF CleanInv, TypeOK
<1>5. LogInv'
  <2>1. \A u \in log : u.seq \in Int /\ u.seq <= pushed
    BY DEF CleanInv, TypeOK, Update, LogInv
  <2>2. IsFiniteSet(log')
    BY <1>1, FS_AddElement DEF CleanInv, LogInv
  <2>3. \A u \in log' : u.seq <= pushed'
    BY <1>1, <1>2, <1>3, <2>1
  <2>4. \A u, v \in log' : u.seq = v.seq => u = v
    BY <1>1, <1>2, <1>3, <2>1 DEF CleanInv, LogInv
  <2>5. last' \in [Entity -> 0..pushed'] /\ minSeq' <= pushed'
    BY <1>1, <1>2 DEF CleanInv, LogInv
  <2> QED
    BY <2>2, <2>3, <2>4, <2>5 DEF LogInv
<1> QED
  BY <1>4, <1>5

LEMMA ServerTypes ==
  ASSUME CleanInv, NEW e \in Entity, Pull(e) \/ Register(e) \/ Invalidate(e) \/ Age
  PROVE  /\ TypeOK' /\ LogInv'
         /\ UNCHANGED <<log, pushed, stage, minSeq, groups, gone>>
<1>1. UNCHANGED <<log, pushed, stage, minSeq, groups, gone>>
  BY DEF Pull, Register, Invalidate, Age, scriptVars
<1>2. pushed \in Nat /\ pushed <= MaxSeq /\ MaxSeq \in Nat
  BY EntityAssumption DEF CleanInv, TypeOK
<1>3. last' \in [Entity -> 0..pushed']
  <2>1. CASE last' = last
    BY <1>1, <2>1 DEF CleanInv, LogInv
  <2>2. CASE last' = [last EXCEPT ![e] = pushed]
    BY <1>1, <1>2, <2>2 DEF CleanInv, LogInv
  <2> QED
    BY <2>1, <2>2 DEF Pull, Register, Invalidate, Age
<1>4. state' \in [Entity -> {"unknown", "validated", "invalidated"}]
  BY DEF CleanInv, TypeOK, Pull, Register, Invalidate, Age
<1>5. aged' \in 0..MaxSeq
  BY <1>2 DEF CleanInv, TypeOK, Pull, Register, Invalidate, Age
<1>6. last' \in [Entity -> 0..MaxSeq]
  BY <1>1, <1>2, <1>3
<1>7. TypeOK'
  BY <1>1, <1>4, <1>5, <1>6 DEF CleanInv, TypeOK
<1>8. LogInv'
  BY <1>1, <1>3 DEF CleanInv, LogInv
<1> QED
  BY <1>1, <1>7, <1>8

LEMMA ReadTypes ==
  ASSUME CleanInv, ReadMinSeq
  PROVE  TypeOK' /\ LogInv'
<1> DEFINE T == {last[e] : e \in Active}
<1>1. /\ Active # {} /\ minSeq' = Min(T) - 1 /\ stage' = "inactive"
      /\ UNCHANGED <<log, pushed, state, last, aged, groups, gone>>
  BY DEF ReadMinSeq, dataVars
<1>2. pushed \in Nat /\ pushed <= MaxSeq /\ MaxSeq \in Nat
  BY EntityAssumption DEF CleanInv, TypeOK
<1>3. T \in SUBSET Nat /\ T # {} /\ \A x \in T : x <= pushed
  BY <1>1, <1>2 DEF Active, CleanInv, LogInv
<1> HIDE DEF T
<1>4. PICK m \in T : m = Min(T)
  BY <1>3, MinOf
<1>5. m \in Nat /\ m <= pushed /\ minSeq' = m - 1
  BY <1>1, <1>3, <1>4
<1>6. minSeq' \in -1..MaxSeq /\ minSeq' <= pushed
  BY <1>2, <1>5
<1> QED
  BY <1>1, <1>6 DEF CleanInv, TypeOK, LogInv, Stage

\* A statement of the script: it changes where the script is, what it has
\* fetched and what its transaction has deleted.
LEMMA StatementTypes ==
  ASSUME CleanInv, UNCHANGED <<dataVars, minSeq>>, stage' \in Stage,
         groups' \subseteq [rec : Record, first : 1..MaxSeq, last : 1..MaxSeq],
         gone' \subseteq 1..MaxSeq
  PROVE  TypeOK' /\ LogInv'
<1>1. UNCHANGED <<log, pushed, state, last, aged, minSeq>>
  BY DEF dataVars
<1>2. TypeOK'
  BY <1>1 DEF CleanInv, TypeOK
<1>3. LogInv'
  BY <1>1 DEF CleanInv, LogInv
<1> QED
  BY <1>2, <1>3

LEMMA SelectTypes ==
  ASSUME CleanInv, NEW here, NEW next \in Stage, NEW recs \in SUBSET Record,
         NEW del \in BOOLEAN, NEW atLeast \in {1, 2, 3},
         Select(here, next, recs, del, atLeast)
  PROVE  /\ TypeOK' /\ LogInv'
         /\ \A g \in groups' :
              /\ g.rec \in recs /\ g.last \in Seqs(Old(g.rec, del))
              /\ \A u \in Old(g.rec, del) : u.seq <= g.last
         /\ \A rec \in recs : Cardinality(Old(rec, del)) >= atLeast =>
              \E g \in groups' : g.rec = rec
<1>1. /\ UNCHANGED <<dataVars, minSeq, gone>> /\ stage' = next
      /\ groups' = Grouped(recs, del, atLeast)
  BY DEF Select
<1>2. \A rec : IsFiniteSet(Old(rec, del)) /\ Cardinality({}) = 0
  <2>1. \A rec : Old(rec, del) \in SUBSET log
    BY DEF Old, Seen
  <2> QED
    BY <2>1, FS_Subset, FS_EmptySet DEF CleanInv, LogInv
<1>3. \A rec \in recs : Cardinality(Old(rec, del)) >= atLeast => Old(rec, del) # {}
  BY <1>2
<1>4. ASSUME NEW rec \in recs, Cardinality(Old(rec, del)) >= atLeast
      PROVE  LET T == Seqs(Old(rec, del))
             IN  /\ Min(T) \in T /\ Max(T) \in T
                 /\ \A u \in Old(rec, del) : u.seq <= Max(T)
                 /\ T \subseteq 1..MaxSeq
  <2>1. Seqs(Old(rec, del)) \subseteq 1..MaxSeq
    BY DEF CleanInv, TypeOK, Update, Old, Seen, Seqs
  <2> QED
    BY <1>3, <1>4, <2>1, OldNumbers DEF CleanInv
<1>5. ASSUME NEW g \in groups'
      PROVE  /\ g.rec \in recs /\ g.last \in Seqs(Old(g.rec, del))
             /\ \A u \in Old(g.rec, del) : u.seq <= g.last
             /\ g \in [rec : Record, first : 1..MaxSeq, last : 1..MaxSeq]
  <2>1. PICK rec \in recs :
          /\ Cardinality(Old(rec, del)) >= atLeast
          /\ g = [rec |-> rec, first |-> Min(Seqs(Old(rec, del))), last |-> Max(Seqs(Old(rec, del)))]
    BY <1>1 DEF Grouped
  <2>2. /\ g.rec = rec /\ g.first = Min(Seqs(Old(rec, del))) /\ g.last = Max(Seqs(Old(rec, del)))
    BY <2>1
  <2> QED
    BY <1>4, <2>1, <2>2
<1>6. ASSUME NEW rec \in recs, Cardinality(Old(rec, del)) >= atLeast
      PROVE  \E g \in groups' : g.rec = rec
  <2> DEFINE g == [rec |-> rec, first |-> Min(Seqs(Old(rec, del))), last |-> Max(Seqs(Old(rec, del)))]
  <2>1. g \in groups'
    BY <1>1, <1>6, Zenon DEF Grouped
  <2>2. g.rec = rec
    OBVIOUS
  <2> HIDE DEF g
  <2> QED
    BY <2>1, <2>2
<1>7. gone' \subseteq 1..MaxSeq
  BY <1>1 DEF CleanInv, TypeOK
<1> QED
  BY <1>1, <1>5, <1>6, <1>7, StatementTypes

LEMMA DeleteTypes ==
  ASSUME CleanInv, NEW D \in SUBSET Seen, gone' = gone \cup Seqs(D),
         UNCHANGED <<dataVars, minSeq>>, stage' \in Stage, groups' \subseteq groups
  PROVE  TypeOK' /\ LogInv'
<1>1. Seqs(D) \subseteq 1..MaxSeq
  BY DEF CleanInv, TypeOK, Update, Seen, Seqs
<1>2. gone' \subseteq 1..MaxSeq /\ groups' \subseteq [rec : Record, first : 1..MaxSeq, last : 1..MaxSeq]
  BY <1>1 DEF CleanInv, TypeOK
<1> QED
  BY <1>2, StatementTypes

-----------------------------------------------------------------------------
(* The steps of the server                                                 *)

LEMMA PushKeeps ==
  ASSUME CleanInv, NEW r \in Record, NEW d \in BOOLEAN, Push(r, d)
  PROVE  CleanInv'
<1>1. /\ minSeq' = minSeq /\ stage' = stage /\ groups' = groups /\ gone' = gone
      /\ \A rec : rec # r => Of(rec)' = Of(rec)
      /\ ~Settled(r)'
      /\ \A rec : rec # r => (Settled(rec)' <=> Settled(rec))
      /\ \A rec, u : rec # r => (IsNewest(u, rec)' <=> IsNewest(u, rec))
      /\ \A rec, del : Old(rec, del)' = Old(rec, del)
      /\ \A rec : Of(rec) \subseteq Of(rec)'
      /\ \A v \in Seen' : v \in Seen \/ v.rec = r
  BY Pushed
<1>2. TypeOK' /\ LogInv'
  BY PushTypes
<1>3. GroupInv'
  <2> SUFFICES ASSUME NEW g \in groups'
               PROVE  /\ g.rec \in (IF stage' = "keep2" THEN Keep2Rec ELSE SingleRec)
                      /\ \E u \in Of(g.rec)' : u.seq = g.last
                      /\ stage' # "deletes" => \A u \in Old(g.rec, FALSE)' : u.seq <= g.last
                      /\ stage' = "single" /\ g.rec \in Kept /\ Settled(g.rec)' =>
                           \A u \in Of(g.rec)' : IsNewest(u, g.rec)' => ~u.del
    BY <1>1 DEF CleanInv, GroupInv
  <2>1. /\ g.rec \in (IF stage = "keep2" THEN Keep2Rec ELSE SingleRec)
        /\ \E u \in Of(g.rec) : u.seq = g.last
        /\ stage # "deletes" => \A u \in Old(g.rec, FALSE) : u.seq <= g.last
        /\ stage = "single" /\ g.rec \in Kept /\ Settled(g.rec) =>
             \A u \in Of(g.rec) : IsNewest(u, g.rec) => ~u.del
    BY <1>1 DEF CleanInv, GroupInv
  <2>2. \E u \in Of(g.rec)' : u.seq = g.last
    BY <1>1, <2>1
  <2>3. stage' # "deletes" => \A u \in Old(g.rec, FALSE)' : u.seq <= g.last
    BY <1>1, <2>1
  <2>4. stage' = "single" /\ g.rec \in Kept /\ Settled(g.rec)' =>
           \A u \in Of(g.rec)' : IsNewest(u, g.rec)' => ~u.del
    BY <1>1, <2>1
  <2> QED
    BY <1>1, <2>1, <2>2, <2>3, <2>4
<1>4. NewestInv'
  <2> SUFFICES ASSUME NEW rec \in Kept, Settled(rec)'
               PROVE  /\ \A u \in Of(rec)' : IsNewest(u, rec)' => u.seq \notin gone'
                      /\ rec \in SingleRec => OnlyDeletion(rec)'
    BY DEF NewestInv
  <2>1. rec # r /\ Settled(rec) /\ Of(rec)' = Of(rec)
    BY <1>1
  <2>2. /\ \A u \in Of(rec) : IsNewest(u, rec) => u.seq \notin gone
        /\ rec \in SingleRec => OnlyDeletion(rec)
    BY <2>1 DEF CleanInv, NewestInv
  <2>3. \A u \in Of(rec)' : IsNewest(u, rec)' => u.seq \notin gone'
    BY <1>1, <2>1, <2>2
  <2>4. OnlyDeletion(rec) => OnlyDeletion(rec)'
    BY <1>1, <2>1 DEF OnlyDeletion
  <2> QED
    BY <2>2, <2>3, <2>4
<1>5. CompactInv'
  <2>1. \A rec : (OneWrite(rec)' <=> OneWrite(rec)) /\ (TwoWrites(rec)' <=> TwoWrites(rec))
    BY <1>1 DEF OneWrite, TwoWrites
  <2> QED
    BY <1>1, <2>1 DEF CleanInv, CompactInv
<1> QED
  BY <1>2, <1>3, <1>4, <1>5 DEF CleanInv

\* Where nothing of the table and the script changes, the invariant stays.
LEMMA ViewKept ==
  ASSUME GroupInv, NewestInv, CompactInv, UNCHANGED <<log, stage, minSeq, groups, gone>>
  PROVE  GroupInv' /\ NewestInv' /\ CompactInv'
<1>1. GroupInv'
  BY DEF GroupInv, Of, Old, Seen, Settled, IsNewest
<1>2. NewestInv'
  BY DEF NewestInv, OnlyDeletion, Of, Seen, Settled, IsNewest
<1>3. CompactInv'
  BY DEF CompactInv, OneWrite, TwoWrites, Old, Seen
<1> QED
  BY <1>1, <1>2, <1>3

LEMMA ReadKeeps ==
  ASSUME CleanInv, ReadMinSeq
  PROVE  CleanInv'
<1>1. TypeOK' /\ LogInv'
  BY ReadTypes
<1>2. groups' = {} /\ gone' = {} /\ stage' = "inactive"
  BY DEF CleanInv, GroupInv, ReadMinSeq, Looping
<1>3. GroupInv'
  BY <1>2 DEF GroupInv
<1>4. NewestInv'
  BY <1>2 DEF NewestInv, OnlyDeletion
<1>5. CompactInv'
  BY <1>2 DEF CompactInv
<1> QED
  BY <1>1, <1>3, <1>4, <1>5 DEF CleanInv

-----------------------------------------------------------------------------
(* The statements that select rows                                         *)

LEMMA SelectDeletesKeeps ==
  ASSUME CleanInv, SelectDeletes
  PROVE  CleanInv'
<1>1. /\ UNCHANGED <<log, minSeq, gone>> /\ stage = "select_deletes" /\ stage' = "deletes"
  BY DEF SelectDeletes, Select, dataVars
<1>2. /\ TypeOK' /\ LogInv'
      /\ \A g \in groups' :
           /\ g.rec \in SingleRec /\ g.last \in Seqs(Old(g.rec, TRUE))
           /\ \A u \in Old(g.rec, TRUE) : u.seq <= g.last
      /\ \A rec \in SingleRec : Cardinality(Old(rec, TRUE)) >= 1 =>
           \E g \in groups' : g.rec = rec
  BY SelectTypes DEF SelectDeletes, Stage, Record
<1>3. /\ \A rec : Of(rec)' = Of(rec)
      /\ \A rec : Settled(rec)' <=> Settled(rec)
      /\ \A rec, u : IsNewest(u, rec)' <=> IsNewest(u, rec)
  BY <1>1, Narrowed
<1>4. \A g \in groups' : \E u \in Of(g.rec) : u.seq = g.last
  BY <1>2 DEF Seqs, Old, Seen, Of
<1>5. GroupInv'
  BY <1>1, <1>2, <1>3, <1>4 DEF GroupInv, Looping
<1>6. ASSUME NEW rec \in Kept, Settled(rec), rec \in SingleRec,
             NEW u \in Of(rec), IsNewest(u, rec), u.del
      PROVE  \E g \in groups' : g.rec = rec /\ g.last = u.seq
  <2>1. u.seq \notin gone /\ u.seq < minSeq /\ u.del = TRUE
    BY <1>6 DEF CleanInv, NewestInv, Settled, TypeOK, Update, Of
  <2>2. u \in Old(rec, TRUE)
    BY <2>1 DEF Of, Old, Seen
  <2>3. IsFiniteSet(Old(rec, TRUE))
    <3>1. Old(rec, TRUE) \in SUBSET log
      BY DEF Old, Seen
    <3> QED
      BY <3>1, FS_Subset DEF CleanInv, LogInv
  <2>4. Cardinality(Old(rec, TRUE)) >= 1
    <3> DEFINE n == Cardinality(Old(rec, TRUE))
    <3>1. n \in Nat /\ n # 0
      BY <2>2, <2>3, FS_CardinalityType, FS_EmptySet
    <3> HIDE DEF n
    <3>2. n >= 1
      BY <3>1
    <3> QED
      BY <3>2 DEF n
  <2>5. PICK g \in groups' : g.rec = rec
    BY <1>2, <1>6, <2>4
  <2>6. PICK v \in Of(rec) : v.seq = g.last
    BY <1>4, <2>5
  <2>7. u.seq <= v.seq
    BY <1>2, <2>2, <2>5, <2>6
  <2>8. u.seq = v.seq
    BY <1>6, <2>6, <2>7, NewestSeq DEF CleanInv
  <2> QED
    BY <2>5, <2>6, <2>8
<1>7. NewestInv'
  BY <1>1, <1>3, <1>6 DEF CleanInv, NewestInv, OnlyDeletion
<1>8. CompactInv'
  BY <1>1 DEF CompactInv
<1> QED
  BY <1>2, <1>5, <1>7, <1>8 DEF CleanInv

\* The two that select what was written.
LEMMA SelectWrites ==
  ASSUME CleanInv, UNCHANGED <<log, minSeq, gone>>, stage' \in {"keep2", "single"},
         stage \in {"select_keep2", "select_single"},
         \A g \in groups' :
            /\ g.rec \in (IF stage' = "keep2" THEN Keep2Rec ELSE SingleRec)
            /\ g.last \in Seqs(Old(g.rec, FALSE))
            /\ \A u \in Old(g.rec, FALSE) : u.seq <= g.last
  PROVE  GroupInv' /\ NewestInv'
<1>1. /\ Seen' = Seen /\ \A rec : Of(rec)' = Of(rec)
      /\ \A rec : Settled(rec)' <=> Settled(rec)
      /\ \A rec, u : IsNewest(u, rec)' <=> IsNewest(u, rec)
      /\ \A rec, del : Old(rec, del)' = Old(rec, del)
  BY Narrowed DEF Seen, Old
<1>2. \A g \in groups' : \E u \in Of(g.rec) : u.seq = g.last /\ u \in Seen /\ u.del = FALSE
  BY DEF Seqs, Old, Seen, Of
<1>3. NewestInv'
  BY <1>1 DEF CleanInv, NewestInv, OnlyDeletion
<1>4. ASSUME NEW g \in groups', stage' = "single", g.rec \in Kept, Settled(g.rec),
             NEW u \in Of(g.rec), IsNewest(u, g.rec), u.del
      PROVE  FALSE
  <2>1. PICK v \in Of(g.rec) : v \in Seen /\ v.del = FALSE
    BY <1>2
  <2>2. OnlyDeletion(g.rec)
    BY <1>4 DEF CleanInv, NewestInv
  <2>3. v = u
    BY <1>4, <2>1, <2>2 DEF OnlyDeletion, Of
  <2> QED
    BY <1>4, <2>1, <2>3
<1>5. GroupInv'
  BY <1>1, <1>2, <1>4 DEF GroupInv, Looping
<1> QED
  BY <1>3, <1>5

LEMMA SelectKeep2Keeps ==
  ASSUME CleanInv, SelectKeep2
  PROVE  CleanInv'
<1>1. /\ UNCHANGED <<log, minSeq, gone>> /\ stage = "select_keep2" /\ stage' = "keep2"
  BY DEF SelectKeep2, Select, dataVars
<1>2. /\ TypeOK' /\ LogInv'
      /\ \A g \in groups' :
           /\ g.rec \in Keep2Rec /\ g.last \in Seqs(Old(g.rec, FALSE))
           /\ \A u \in Old(g.rec, FALSE) : u.seq <= g.last
      /\ \A rec \in Keep2Rec : Cardinality(Old(rec, FALSE)) >= 3 =>
           \E g \in groups' : g.rec = rec
  BY SelectTypes DEF SelectKeep2, Stage, Record
<1>3. GroupInv' /\ NewestInv'
  BY <1>1, <1>2, SelectWrites
<1>4. ASSUME NEW rec \in Keep2Rec, ~\E g \in groups' : g.rec = rec
      PROVE  TwoWrites(rec)
  <2>1. IsFiniteSet(Old(rec, FALSE)) /\ \A u \in Old(rec, FALSE) : u.seq \in Int
    <3>1. Old(rec, FALSE) \in SUBSET log
      BY DEF Old, Seen
    <3>2. \A u \in log : u.seq \in Int
      BY DEF CleanInv, TypeOK, Update
    <3>3. IsFiniteSet(log)
      BY DEF CleanInv, LogInv
    <3> QED
      BY <3>1, <3>2, <3>3, FS_Subset
  <2> DEFINE n == Cardinality(Old(rec, FALSE))
  <2>2. n \in Nat /\ ~(n >= 3)
    BY <1>2, <1>4, <2>1, FS_CardinalityType
  <2>3. n < 3
    <3> HIDE DEF n
    <3> QED
      BY <2>2
  <2>4. CASE Old(rec, FALSE) = {}
    BY <2>4, 0 \in Int, Zenon DEF TwoWrites
  <2>5. CASE Old(rec, FALSE) # {}
    <3>1. PICK x, y \in Old(rec, FALSE) : Old(rec, FALSE) = {x, y}
      BY <2>1, <2>3, <2>5, FewerThanThree
    <3>2. x.seq \in Int /\ y.seq \in Int /\ \A u \in Old(rec, FALSE) : u.seq \in {x.seq, y.seq}
      BY <2>1, <3>1
    <3> QED
      BY <3>2 DEF TwoWrites
  <2> QED
    BY <2>4, <2>5
<1>5. CompactInv'
  <2>1. \A rec : TwoWrites(rec) => TwoWrites(rec)'
    BY <1>1, Narrowed
  <2> QED
    BY <1>1, <1>4, <2>1 DEF CompactInv
<1> QED
  BY <1>2, <1>3, <1>5 DEF CleanInv

LEMMA SelectSingleKeeps ==
  ASSUME CleanInv, SelectSingle
  PROVE  CleanInv'
<1>1. /\ UNCHANGED <<log, minSeq, gone>> /\ stage = "select_single" /\ stage' = "single"
  BY DEF SelectSingle, Select, dataVars
<1>2. /\ TypeOK' /\ LogInv'
      /\ \A g \in groups' :
           /\ g.rec \in SingleRec /\ g.last \in Seqs(Old(g.rec, FALSE))
           /\ \A u \in Old(g.rec, FALSE) : u.seq <= g.last
      /\ \A rec \in SingleRec : Cardinality(Old(rec, FALSE)) >= 2 =>
           \E g \in groups' : g.rec = rec
  BY SelectTypes DEF SelectSingle, Stage, Record
<1>3. GroupInv' /\ NewestInv'
  BY <1>1, <1>2, SelectWrites
<1>4. ASSUME NEW rec \in SingleRec, ~\E g \in groups' : g.rec = rec
      PROVE  OneWrite(rec)
  <2>1. IsFiniteSet(Old(rec, FALSE))
    <3>1. Old(rec, FALSE) \in SUBSET log
      BY DEF Old, Seen
    <3> QED
      BY <3>1, FS_Subset DEF CleanInv, LogInv
  <2> DEFINE n == Cardinality(Old(rec, FALSE))
  <2>2. n \in Nat /\ ~(n >= 2)
    BY <1>2, <1>4, <2>1, FS_CardinalityType
  <2>3. n < 2
    <3> HIDE DEF n
    <3> QED
      BY <2>2
  <2> QED
    BY <2>1, <2>3, FewerThanTwo DEF OneWrite
<1>5. CompactInv'
  <2>1. \A rec : (TwoWrites(rec) => TwoWrites(rec)') /\ (OneWrite(rec) => OneWrite(rec)')
    BY <1>1, Narrowed
  <2> QED
    BY <1>1, <1>4, <2>1 DEF CleanInv, CompactInv
<1> QED
  BY <1>2, <1>3, <1>5 DEF CleanInv

-----------------------------------------------------------------------------
(* The statements that delete                                              *)

\* Rows are deleted, none of them the newest of a settled record that stays.
LEMMA DeletionKeeps ==
  ASSUME CleanInv, NEW D \in SUBSET Seen, gone' = gone \cup Seqs(D),
         UNCHANGED <<log, minSeq>>,
         \A rec \in Kept : Settled(rec) =>
           \A u \in Of(rec) : IsNewest(u, rec) => u \notin D,
         \A rec \in Kept : rec \in SingleRec /\ Settled(rec) /\ OnlyDeletion(rec)
           => OnlyDeletion(rec)'
  PROVE  NewestInv'
<1>1. /\ \A rec : Of(rec)' = Of(rec)
      /\ \A rec : Settled(rec)' <=> Settled(rec)
      /\ \A rec, u : IsNewest(u, rec)' <=> IsNewest(u, rec)
  BY Narrowed
<1>2. D \subseteq log
  BY DEF Seen
<1>3. ASSUME NEW rec \in Kept, Settled(rec), NEW u \in Of(rec), IsNewest(u, rec)
      PROVE  u.seq \notin gone'
  <2>1. u.seq \notin gone
    BY <1>3 DEF CleanInv, NewestInv
  <2>2. u.seq \notin Seqs(D)
    BY <1>2, <1>3, NotDeleted DEF CleanInv, Of
  <2> QED
    BY <2>1, <2>2
<1>4. \A rec \in Kept : Settled(rec) /\ rec \in SingleRec => OnlyDeletion(rec)'
  BY DEF CleanInv, NewestInv
<1> QED
  BY <1>1, <1>3, <1>4 DEF NewestInv

\* Statements without a loop.
LEMMA DropKeeps ==
  ASSUME CleanInv, DropInactive \/ DropOld
  PROVE  CleanInv'
<1>1. /\ stage \in {"inactive", "old"} /\ stage' \in {"select_deletes", "commit"}
      /\ stage' = "commit" => stage = "old"
      /\ groups' = groups /\ groups = {}
      /\ UNCHANGED <<dataVars, minSeq>> /\ UNCHANGED log
  BY DEF DropInactive, DropOld, dataVars, CleanInv, GroupInv, Looping
<1>2. PICK D \in SUBSET Seen : /\ gone' = gone \cup Seqs(D)
                               /\ \A u \in D : u.rec \notin Kept
  <2>1. CASE DropInactive
    <3> DEFINE D == {u \in Seen : u.rec \in InactiveRec}
    <3>1. D \in SUBSET Seen /\ gone' = gone \cup Seqs(D) /\ \A u \in D : u.rec \notin Kept
      BY <2>1 DEF DropInactive, Kept
    <3> QED
      BY <3>1
  <2>2. CASE DropOld
    <3> DEFINE D == {u \in Seen : u.rec \notin MasterRec /\ u.seq <= aged}
    <3>1. D \in SUBSET Seen /\ gone' = gone \cup Seqs(D) /\ \A u \in D : u.rec \notin Kept
      BY <2>2 DEF DropOld, Kept
    <3> QED
      BY <3>1
  <2> QED
    BY <2>1, <2>2
<1>3. TypeOK' /\ LogInv'
  BY <1>1, <1>2, DeleteTypes DEF Stage
<1>4. GroupInv'
  BY <1>1 DEF GroupInv
<1>5. NewestInv'
  <2>1. \A rec \in Kept : Settled(rec) =>
           \A u \in Of(rec) : IsNewest(u, rec) => u \notin D
    BY <1>2 DEF Of
  <2>2. \A rec : OnlyDeletion(rec)'
    BY <1>1 DEF OnlyDeletion
  <2> QED
    BY <1>1, <1>2, <2>1, <2>2, DeletionKeeps
<1>6. CompactInv'
  <2>1. \A rec : (TwoWrites(rec) => TwoWrites(rec)') /\ (OneWrite(rec) => OneWrite(rec)')
    BY <1>1, <1>2, Narrowed
  <2> QED
    BY <1>1, <2>1 DEF CleanInv, CompactInv
<1> QED
  BY <1>3, <1>4, <1>5, <1>6 DEF CleanInv

\* What a loop does with a group, as the three have it in common.
LEMMA LoopStep ==
  ASSUME CleanInv, NEW g \in groups, NEW D \in SUBSET Seen, Delete(g, D)
  PROVE  /\ TypeOK' /\ LogInv' /\ GroupInv'
         /\ UNCHANGED <<log, minSeq, stage>>
         /\ groups' = groups \ {g} /\ gone' = gone \cup Seqs(D)
         /\ \A rec : Of(rec)' = Of(rec)
         /\ \A rec : Settled(rec)' <=> Settled(rec)
         /\ \A rec, u : IsNewest(u, rec)' <=> IsNewest(u, rec)
         /\ \A rec, del : Old(rec, del)' \subseteq Old(rec, del)
         /\ Seen' \subseteq Seen
         /\ \A u \in Seen' : u \notin D
         /\ \A rec : (TwoWrites(rec) => TwoWrites(rec)') /\ (OneWrite(rec) => OneWrite(rec)')
<1>1. /\ UNCHANGED <<dataVars, stage, minSeq>> /\ UNCHANGED log
      /\ groups' = groups \ {g} /\ gone' = gone \cup Seqs(D)
  BY DEF Delete, dataVars
<1>2. TypeOK' /\ LogInv'
  BY <1>1, DeleteTypes DEF CleanInv, TypeOK
<1>3. /\ Seen' \subseteq Seen
      /\ \A rec : Of(rec)' = Of(rec)
      /\ \A rec : Settled(rec)' <=> Settled(rec)
      /\ \A rec, u : IsNewest(u, rec)' <=> IsNewest(u, rec)
      /\ \A rec, del : Old(rec, del)' \subseteq Old(rec, del)
      /\ \A rec : (TwoWrites(rec) => TwoWrites(rec)') /\ (OneWrite(rec) => OneWrite(rec)')
  BY <1>1, Narrowed
<1>4. \A u \in Seen' : u \notin D
  BY <1>1 DEF Seen, Seqs
<1>5. GroupInv'
  <2>1. GroupInv /\ stage # "idle"
    BY DEF CleanInv, GroupInv, Looping
  <2>2. groups' \subseteq groups /\ stage' = stage
    BY <1>1
  <2> QED
    BY <1>3, <2>1, <2>2 DEF GroupInv
<1> QED
  BY <1>1, <1>2, <1>3, <1>4, <1>5

LEMMA CompactDeletesKeeps ==
  ASSUME CleanInv, CompactDeletes
  PROVE  CleanInv'
<1>1. PICK g \in groups : Delete(g, BeforeDelete(g)) /\ stage = "deletes"
  BY DEF CompactDeletes
<1> DEFINE D == BeforeDelete(g)
<1>2. /\ D \in SUBSET Seen
      /\ \A u \in D : u.rec = g.rec /\ u.seq < g.last
      /\ \A u \in Seen \ D : u.rec = g.rec => ~(u.seq < g.last)
  BY DEF BeforeDelete
<1>3. Delete(g, D)
  BY <1>1
<1> HIDE DEF D
<1>4. /\ TypeOK' /\ LogInv' /\ GroupInv'
      /\ UNCHANGED <<log, minSeq, stage>>
      /\ groups' = groups \ {g} /\ gone' = gone \cup Seqs(D)
      /\ \A rec : Of(rec)' = Of(rec)
      /\ \A rec, u : IsNewest(u, rec)' <=> IsNewest(u, rec)
      /\ Seen' \subseteq Seen
      /\ \A u \in Seen' : u \notin D
  BY <1>2, <1>3, LoopStep
<1>5. PICK w \in Of(g.rec) : w.seq = g.last
  BY DEF CleanInv, GroupInv
<1>6. \A u \in log : u.seq \in Int
  BY DEF CleanInv, TypeOK, Update
<1>7. \A rec \in Kept : Settled(rec) =>
           \A u \in Of(rec) : IsNewest(u, rec) => u \notin D
  <2> SUFFICES ASSUME NEW rec \in Kept, NEW u \in Of(rec), IsNewest(u, rec), u \in D
               PROVE  FALSE
    OBVIOUS
  <2>1. rec = g.rec /\ u.seq < g.last /\ u.seq \in Int /\ w.seq \in Int
    BY <1>2, <1>5, <1>6 DEF Of
  <2>2. w.seq <= u.seq
    BY <1>5, <2>1 DEF IsNewest
  <2> QED
    BY <1>5, <2>1, <2>2
<1>8. ASSUME NEW rec \in Kept, OnlyDeletion(rec)
      PROVE  OnlyDeletion(rec)'
  <2> SUFFICES ASSUME NEW u \in Of(rec), IsNewest(u, rec), u.del
               PROVE  \/ \E h \in groups' : h.rec = rec /\ h.last = u.seq
                      \/ \A v \in Seen' : v.rec = rec => v = u
    BY <1>1, <1>4 DEF OnlyDeletion
  <2>1. CASE \A v \in Seen : v.rec = rec => v = u
    BY <1>4, <2>1
  <2>2. CASE \E h \in groups : h.rec = rec /\ h.last = u.seq
    <3>1. PICK h \in groups : h.rec = rec /\ h.last = u.seq
      BY <2>2
    <3>2. CASE h # g
      BY <1>4, <3>1, <3>2
    <3>3. CASE h = g
      <4> SUFFICES ASSUME NEW v \in Seen', v.rec = rec
                   PROVE  v = u
        OBVIOUS
      <4>1. v \in Seen \ D /\ v \in log /\ u \in log /\ v \in Of(rec)
        BY <1>4 DEF Seen, Of
      <4>2. ~(v.seq < u.seq) /\ v.seq <= u.seq /\ v.seq \in Int /\ u.seq \in Int
        BY <1>2, <1>6, <3>1, <3>3, <4>1 DEF IsNewest
      <4> QED
        BY <4>1, <4>2 DEF CleanInv, LogInv
    <3> QED
      BY <3>2, <3>3
  <2> QED
    BY <1>1, <1>8, <2>1, <2>2 DEF OnlyDeletion
<1>9. NewestInv'
  BY <1>2, <1>4, <1>7, <1>8, DeletionKeeps
<1>10. CompactInv'
  BY <1>1, <1>4 DEF CompactInv
<1> QED
  BY <1>4, <1>9, <1>10 DEF CleanInv

\* The loops over what was written: the newest write below minSeq is the last
\* of its group, and the newest update of a settled record is such a write.
LEMMA WritesLoopKeepsNewest ==
  ASSUME CleanInv, NEW g \in groups, NEW D \in SUBSET Seen,
         gone' = gone \cup Seqs(D), UNCHANGED <<log, minSeq, stage>>, stage \in {"keep2", "single"},
         \A u \in D : u.rec = g.rec /\ u.seq # g.last,
         stage = "keep2" => \A u \in D : ~u.del
  PROVE  NewestInv'
<1>1. PICK w \in Of(g.rec) : w.seq = g.last
  BY DEF CleanInv, GroupInv
<1>2. \A u \in log : u.seq \in Int /\ u.del \in BOOLEAN
  BY DEF CleanInv, TypeOK, Update
<1>3. \A rec \in Kept : Settled(rec) =>
           \A u \in Of(rec) : IsNewest(u, rec) => u \notin D
  <2> SUFFICES ASSUME NEW rec \in Kept, Settled(rec), NEW u \in Of(rec), IsNewest(u, rec), u \in D
               PROVE  FALSE
    OBVIOUS
  <2>1. rec = g.rec /\ u.seq # g.last /\ u.seq \in Int /\ w.seq \in Int /\ u \in Seen
    BY <1>1, <1>2 DEF Of
  <2>2. ~u.del
    BY <2>1 DEF CleanInv, GroupInv
  <2>3. u.del = FALSE /\ u.seq < minSeq
    BY <1>2, <2>2 DEF Settled, Of
  <2>4. u \in Old(g.rec, FALSE)
    BY <2>1, <2>3 DEF Old, Of
  <2>5. u.seq <= g.last
    BY <2>4 DEF CleanInv, GroupInv
  <2>6. w.seq <= u.seq
    BY <1>1, <2>1 DEF IsNewest
  <2> QED
    BY <1>1, <2>1, <2>5, <2>6
<1>4. ASSUME NEW rec \in Kept, OnlyDeletion(rec)
      PROVE  OnlyDeletion(rec)'
  <2>1. /\ Of(rec)' = Of(rec) /\ (\A u : IsNewest(u, rec)' <=> IsNewest(u, rec))
        /\ Seen' \subseteq Seen
    BY Narrowed
  <2> QED
    BY <1>4, <2>1 DEF OnlyDeletion
<1> QED
  BY <1>3, <1>4, DeletionKeeps

LEMMA CompactKeep2Keeps ==
  ASSUME CleanInv, CompactKeep2
  PROVE  CleanInv'
<1>1. PICK g \in groups : Delete(g, Intermediate(g)) /\ stage = "keep2"
  BY DEF CompactKeep2
<1> DEFINE D == Intermediate(g)
<1>2. /\ D \in SUBSET Seen
      /\ \A u \in D : u.rec = g.rec /\ u.seq # g.last /\ ~u.del
      /\ \A u \in Seen \ D : u.rec = g.rec /\ ~u.del => u.seq \in {g.first, g.last}
  BY DEF Intermediate
<1>3. Delete(g, D)
  BY <1>1
<1> HIDE DEF D
<1>4. /\ TypeOK' /\ LogInv' /\ GroupInv'
      /\ UNCHANGED <<log, minSeq, stage>>
      /\ groups' = groups \ {g} /\ gone' = gone \cup Seqs(D)
      /\ Seen' \subseteq Seen
      /\ \A u \in Seen' : u \notin D
      /\ \A rec : TwoWrites(rec) => TwoWrites(rec)'
  BY <1>2, <1>3, LoopStep
<1>5. NewestInv'
  BY <1>1, <1>2, <1>4, WritesLoopKeepsNewest
<1>6. TwoWrites(g.rec)'
  <2>1. g.first \in Int /\ g.last \in Int
    BY DEF CleanInv, TypeOK
  <2>2. \A u \in Old(g.rec, FALSE)' : u.seq \in {g.first, g.last}
    BY <1>2, <1>4 DEF Old
  <2> QED
    BY <2>1, <2>2 DEF TwoWrites
<1>7. CompactInv'
  <2>1. ASSUME NEW rec \in Keep2Rec
        PROVE  (\E h \in groups' : h.rec = rec) \/ TwoWrites(rec)'
    <3>1. CASE TwoWrites(rec)
      BY <1>4, <3>1
    <3>2. CASE \E h \in groups : h.rec = rec
      <4>1. PICK h \in groups : h.rec = rec
        BY <3>2
      <4>2. CASE h = g
        BY <1>6, <4>1, <4>2
      <4>3. CASE h # g
        BY <1>4, <4>1, <4>3
      <4> QED
        BY <4>2, <4>3
    <3> QED
      BY <1>1, <3>1, <3>2 DEF CleanInv, CompactInv
  <2> QED
    BY <1>1, <1>4, <2>1 DEF CompactInv
<1> QED
  BY <1>4, <1>5, <1>7 DEF CleanInv

LEMMA CompactSingleKeeps ==
  ASSUME CleanInv, CompactSingle
  PROVE  CleanInv'
<1>1. PICK g \in groups : Delete(g, NotLast(g)) /\ stage = "single"
  BY DEF CompactSingle
<1> DEFINE D == NotLast(g)
<1>2. /\ D \in SUBSET Seen
      /\ \A u \in D : u.rec = g.rec /\ u.seq # g.last
      /\ \A u \in Seen \ D : u.rec = g.rec => u.seq = g.last
  BY DEF NotLast
<1>3. Delete(g, D)
  BY <1>1
<1> HIDE DEF D
<1>4. /\ TypeOK' /\ LogInv' /\ GroupInv'
      /\ UNCHANGED <<log, minSeq, stage>>
      /\ groups' = groups \ {g} /\ gone' = gone \cup Seqs(D)
      /\ Seen' \subseteq Seen
      /\ \A u \in Seen' : u \notin D
      /\ \A rec : (TwoWrites(rec) => TwoWrites(rec)') /\ (OneWrite(rec) => OneWrite(rec)')
  BY <1>2, <1>3, LoopStep
<1>5. NewestInv'
  BY <1>1, <1>2, <1>4, WritesLoopKeepsNewest
<1>6. OneWrite(g.rec)'
  <2>1. \A u \in Old(g.rec, FALSE)' : u \in log' /\ u.seq = g.last
    BY <1>2, <1>4 DEF Old, Seen
  <2> QED
    BY <1>4, <2>1 DEF OneWrite, LogInv
<1>7. CompactInv'
  <2>1. ASSUME NEW rec \in SingleRec
        PROVE  (\E h \in groups' : h.rec = rec) \/ OneWrite(rec)'
    <3>1. CASE OneWrite(rec)
      BY <1>4, <3>1
    <3>2. CASE \E h \in groups : h.rec = rec
      <4>1. PICK h \in groups : h.rec = rec
        BY <3>2
      <4>2. CASE h = g
        BY <1>6, <4>1, <4>2
      <4>3. CASE h # g
        BY <1>4, <4>1, <4>3
      <4> QED
        BY <4>2, <4>3
    <3> QED
      BY <1>1, <3>1, <3>2 DEF CleanInv, CompactInv
  <2>2. \A rec \in Keep2Rec : TwoWrites(rec)'
    BY <1>1, <1>4 DEF CleanInv, CompactInv
  <2> QED
    BY <1>1, <1>4, <2>1, <2>2 DEF CompactInv
<1> QED
  BY <1>4, <1>5, <1>7 DEF CleanInv

LEMMA EndLoopKeeps ==
  ASSUME CleanInv, EndLoop
  PROVE  CleanInv'
<1>1. /\ groups = {} /\ groups' = {} /\ UNCHANGED <<dataVars, log, minSeq, gone>>
      /\ \/ stage = "deletes" /\ stage' = "select_keep2"
         \/ stage = "keep2"   /\ stage' = "select_single"
         \/ stage = "single"  /\ stage' = "old"
  BY DEF EndLoop, dataVars
<1>2. TypeOK' /\ LogInv'
  BY <1>1, StatementTypes DEF CleanInv, TypeOK, Stage
<1>3. GroupInv'
  BY <1>1 DEF GroupInv
<1>4. /\ Seen' \subseteq Seen
      /\ \A rec : Of(rec)' = Of(rec)
      /\ \A rec : Settled(rec)' <=> Settled(rec)
      /\ \A rec, u : IsNewest(u, rec)' <=> IsNewest(u, rec)
      /\ \A rec : (TwoWrites(rec) => TwoWrites(rec)') /\ (OneWrite(rec) => OneWrite(rec)')
  BY <1>1, Narrowed
<1>5. \A rec : OnlyDeletion(rec) => OnlyDeletion(rec)'
  BY <1>1, <1>4 DEF OnlyDeletion
<1>6. NewestInv'
  BY <1>1, <1>4, <1>5 DEF CleanInv, NewestInv
<1>7. CompactInv'
  BY <1>1, <1>4 DEF CleanInv, CompactInv
<1> QED
  BY <1>2, <1>3, <1>6, <1>7 DEF CleanInv

-----------------------------------------------------------------------------
(* The end of the transaction                                              *)

LEMMA CommitKeeps ==
  ASSUME CleanInv, Commit
  PROVE  CleanInv'
<1>1. /\ stage = "commit" /\ log' = Seen /\ gone' = {} /\ stage' = "idle"
      /\ UNCHANGED <<pushed, state, last, aged, minSeq, groups>>
      /\ groups = {} /\ Seen \in SUBSET log
  BY DEF Commit, CleanInv, GroupInv, Looping, Seen
<1>2. TypeOK'
  BY <1>1 DEF CleanInv, TypeOK, Stage
<1>3. LogInv'
  <2>1. IsFiniteSet(log')
    BY <1>1, FS_Subset DEF CleanInv, LogInv
  <2> QED
    BY <1>1, <2>1 DEF CleanInv, LogInv
<1>4. GroupInv' /\ NewestInv' /\ CompactInv'
  BY <1>1 DEF GroupInv, NewestInv, OnlyDeletion, CompactInv
<1> QED
  BY <1>2, <1>3, <1>4 DEF CleanInv

LEMMA CrashKeeps ==
  ASSUME CleanInv, Crash
  PROVE  CleanInv'
<1>1. /\ groups' = {} /\ gone' = {} /\ stage' = "idle" /\ UNCHANGED <<dataVars, minSeq>>
  BY DEF Crash
<1>2. TypeOK' /\ LogInv'
  BY <1>1, StatementTypes DEF Stage
<1>3. GroupInv' /\ NewestInv' /\ CompactInv'
  BY <1>1 DEF GroupInv, NewestInv, OnlyDeletion, CompactInv
<1> QED
  BY <1>2, <1>3 DEF CleanInv

-----------------------------------------------------------------------------
LEMMA CleanInit == Init => CleanInv
<1> SUFFICES ASSUME Init PROVE CleanInv
  OBVIOUS
<1>1. MaxSeq \in Nat
  BY EntityAssumption
<1>2. TypeOK
  BY <1>1 DEF Init, TypeOK, Stage
<1>3. LogInv
  BY FS_EmptySet DEF Init, LogInv
<1>4. GroupInv /\ NewestInv /\ CompactInv
  BY DEF Init, GroupInv, NewestInv, OnlyDeletion, CompactInv
<1> QED
  BY <1>2, <1>3, <1>4 DEF CleanInv

LEMMA CleanStep ==
  ASSUME CleanInv, [Next]_vars
  PROVE  CleanInv'
<1>1. CASE Script
  BY <1>1, ReadKeeps, DropKeeps, SelectDeletesKeeps, SelectKeep2Keeps, SelectSingleKeeps,
     CompactDeletesKeeps, CompactKeep2Keeps, CompactSingleKeeps, EndLoopKeeps,
     CommitKeeps, CrashKeeps DEF Script
<1>2. CASE \E rec \in Record, del \in BOOLEAN : Push(rec, del)
  BY <1>2, PushKeeps
<1>3. CASE \E e \in Entity : Pull(e) \/ Register(e) \/ Invalidate(e)
  BY <1>3, ServerTypes, ViewKept DEF CleanInv
<1>4. CASE Age
  <2>1. TypeOK' /\ LogInv' /\ UNCHANGED <<log, stage, minSeq, groups, gone>>
    <3>1. pushed \in Nat /\ pushed <= MaxSeq /\ MaxSeq \in Nat
      BY EntityAssumption DEF CleanInv, TypeOK
    <3>2. /\ UNCHANGED <<log, pushed, state, last, stage, minSeq, groups, gone>>
          /\ aged' \in 0..MaxSeq
      BY <1>4, <3>1 DEF Age, scriptVars, CleanInv, TypeOK
    <3> QED
      BY <3>2 DEF CleanInv, TypeOK, LogInv
  <2> QED
    BY <2>1, ViewKept DEF CleanInv
<1>5. CASE UNCHANGED vars
  <2>1. TypeOK' /\ LogInv' /\ UNCHANGED <<log, stage, minSeq, groups, gone>>
    BY <1>5 DEF vars, dataVars, scriptVars, CleanInv, TypeOK, LogInv
  <2> QED
    BY <2>1, ViewKept DEF CleanInv
<1> QED
  BY <1>1, <1>2, <1>3, <1>4, <1>5 DEF Next, Server

\* Whatever the instances and the script do, and wherever the script is killed.
THEOREM CompactionInvariant == Spec => []CleanInv
BY CleanInit, CleanStep, PTL DEF Spec

\* A compaction that is committed keeps the newest update of each settled
\* record that no rule lets go of.
THEOREM NewestStays == Spec => SettledNewestKept
<1>1. CleanInv /\ [Next]_vars =>
        [\A rec \in Kept : Settled(rec) /\ log' \subseteq log => Newest(rec) \in log']_log
  <2> SUFFICES ASSUME CleanInv, [Next]_vars, log' # log, log' \subseteq log,
                      NEW rec \in Kept, Settled(rec)
               PROVE  Newest(rec) \in log'
    OBVIOUS
  <2>1. CASE Commit
    <3>1. IsNewest(Newest(rec), rec) /\ Newest(rec) \in Of(rec)
      BY NewestExists DEF Settled, CleanInv, IsNewest
    <3>2. Newest(rec).seq \notin gone
      BY <3>1 DEF CleanInv, NewestInv
    <3> QED
      BY <2>1, <3>1, <3>2 DEF Commit, Seen, Of
  <2>2. CASE \E r \in Record, del \in BOOLEAN : Push(r, del)
    <3>1. PICK r \in Record, del \in BOOLEAN : Push(r, del)
      BY <2>2
    <3>2. [seq |-> pushed + 1, rec |-> r, del |-> del] \in log
      BY <3>1 DEF Push
    <3>3. pushed + 1 <= pushed /\ pushed \in Nat
      BY <3>2 DEF CleanInv, LogInv, TypeOK
    <3> QED
      BY <3>3
  <2>3. CASE [Next]_vars /\ ~Commit /\ ~\E r \in Record, del \in BOOLEAN : Push(r, del)
    BY <2>3 DEF vars, dataVars, Next, Server, Script, Pull, Register, Invalidate, Age,
       ReadMinSeq, DropInactive, SelectDeletes, SelectKeep2, SelectSingle, Select,
       CompactDeletes, CompactKeep2, CompactSingle, Delete, EndLoop, DropOld, Crash
  <2> QED
    BY <2>1, <2>2, <2>3
<1> QED
  BY <1>1, CompactionInvariant, PTL DEF Spec, SettledNewestKept

\* And it leaves no more writes of a settled record than it means to keep.
THEOREM Compacts == Spec => CompactedEnough
<1> DEFINE Enough ==
      Commit =>
       \A rec \in SingleRec \cup Keep2Rec :
         Settled(rec) =>
           LET writes == {u \in Of(rec) : ~u.del /\ u \in log'}
           IN  Cardinality(writes) <= IF rec \in SingleRec THEN 1 ELSE 2
<1>1. CleanInv => Enough
  <2> SUFFICES ASSUME CleanInv, Commit, NEW rec \in SingleRec \cup Keep2Rec, Settled(rec)
               PROVE  Cardinality({u \in Of(rec) : ~u.del /\ u \in log'})
                        <= IF rec \in SingleRec THEN 1 ELSE 2
    OBVIOUS
  <2> DEFINE writes == {u \in Of(rec) : ~u.del /\ u \in log'}
  <2>1. writes \in SUBSET log /\ writes \subseteq Old(rec, FALSE)
    BY DEF Commit, Of, Old, Seen, Settled, CleanInv, TypeOK, Update
  <2>2. IsFiniteSet(writes)
    BY <2>1, FS_Subset DEF CleanInv, LogInv
  <2>3. rec \in SingleRec => OneWrite(rec)
    BY DEF CleanInv, CompactInv, Commit
  <2>4. rec \in Keep2Rec => TwoWrites(rec)
    BY DEF CleanInv, CompactInv, Commit
  <2>5. CASE rec \in SingleRec
    <3>1. \A x, y \in writes : x = y
      BY <2>1, <2>3, <2>5 DEF OneWrite
    <3> HIDE DEF writes
    <3>2. Cardinality(writes) <= 1
      BY <2>2, <3>1, AtMostOneElement
    <3> QED
      BY <2>5, <3>2 DEF writes
  <2>6. CASE rec \notin SingleRec
    <3>1. PICK a, b \in Int : \A u \in writes : u.seq \in {a, b}
      BY <2>1, <2>4, <2>6 DEF TwoWrites
    <3>2. \A x, y, z \in writes : x = y \/ y = z \/ x = z
      BY <2>1, <3>1 DEF CleanInv, LogInv
    <3> HIDE DEF writes
    <3>3. Cardinality(writes) <= 2
      BY <2>2, <3>2, AtMostTwoElements
    <3> QED
      BY <2>6, <3>3 DEF writes
  <2> QED
    BY <2>5, <2>6
<1>2. CleanInv /\ [Next]_vars => [Enough]_vars
  BY <1>1
<1> QED
  BY <1>2, CompactionInvariant, PTL DEF Spec, CompactedEnough
=============================================================================
