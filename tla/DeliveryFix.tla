----------------------------- MODULE DeliveryFix -----------------------------
(***************************************************************************)
(* maintenance/df/check_po_in.py: the moves of an order no longer add up   *)
(* to its lines.  The script shares the moves out between the lines again  *)
(* and prints the SQL that sets each move and line right.  One pass is     *)
(* modelled: that of the incoming moves of a purchase, or that of the      *)
(* outgoing moves of the internal request, which looks at what came in.    *)
(* A pass goes through lines and moves in the order of their numbers.      *)
(***************************************************************************)
EXTENDS Integers, FiniteSets, FiniteSetsExt

CONSTANTS
  Product,
  Line, Move       \* sets of numbers

\* ids, and 0 is none
ASSUME FixAssumption ==
  /\ IsFiniteSet(Line) /\ Line \subseteq Nat \ {0}
  /\ IsFiniteSet(Move) /\ Move \subseteq Nat

VARIABLES
  lines,           \* [Line -> [product, qty, state]], as the database has them
  moves,           \* [Move -> [product, qty, state]], cancelled ones left out
  received,        \* the done incoming moves that are not used up: [of, product, qty]
  out,             \* is this the pass of outgoing moves?
  phase,           \* "done", "reopen", "open", "fill", "cancel", "end" or "raised"
  todo,            \* the moves, or lines, the loop has not reached
  remaining,       \* line['remaining']
  lineState,       \* the states of the lines once the SQL is run
  fixed,           \* the moves once it is run, with their line
  spare            \* to_del

fixVars == <<lines, moves, received, out, phase, todo, remaining, lineState, fixed, spare>>

LineData == [product : Product, qty : Nat \ {0}, state : {"confirmed", "done"}]
MoveData == [product : Product, qty : Nat \ {0},
             state : {"waiting", "confirmed", "assigned", "done"}]

Unlinked == 0

Moves(done) == {m \in DOMAIN moves : (moves[m].state = "done") = done}

FixStart(ls, ms, got, outgoing) ==
  /\ lines = ls /\ moves = ms /\ received = got /\ out = outgoing
  /\ phase = "done" /\ todo = {m \in DOMAIN ms : ms[m].state = "done"}
  /\ remaining = [l \in DOMAIN ls |-> ls[l].qty]
  /\ lineState = [l \in DOMAIN ls |-> ls[l].state]
  /\ fixed = [m \in DOMAIN ms |-> [line |-> Unlinked, product |-> ms[m].product,
                                   qty |-> ms[m].qty, state |-> ms[m].state]]
  /\ spare = {}

data == <<lines, moves, out>>

\* mutant: the line need not have enough left
Fits_Any(m, S) == {l \in S : lines[l].product = moves[m].product /\ remaining[l] > 0}

\* the lines of a list that have enough left for a move
Fits(m, S) ==
  {l \in S : lines[l].product = moves[m].product /\ remaining[l] >= moves[m].qty}

Allot(m, l) ==
  /\ remaining' = [remaining EXCEPT ![l] = @ - moves[m].qty]
  /\ fixed' = [fixed EXCEPT ![m].line = l]

OfProduct(p, state) == {l \in DOMAIN lines : lines[l].product = p /\ lines[l].state = state}

\* Done moves first: lines that are done if the product has some, otherwise
\* those confirmed.  The pass is given up when no line has enough left.
ShareDone ==
  /\ phase = "done" /\ todo # {}
  /\ LET m == Min(todo)
         done == OfProduct(moves[m].product, "done")
         list == IF done # {} THEN done ELSE OfProduct(moves[m].product, "confirmed")
     IN IF Fits(m, list) = {}
        THEN phase' = "raised" /\ UNCHANGED <<todo, remaining, fixed>>
        ELSE /\ Allot(m, Min(Fits(m, list)))
             /\ todo' = todo \ {m} /\ UNCHANGED phase
  /\ UNCHANGED <<data, received, lineState, spare>>

NewState(l) == IF lines[l].state = "done" /\ remaining[l] # 0 THEN "confirmed"
               ELSE IF lines[l].state = "confirmed" /\ remaining[l] = 0 THEN "done"
               ELSE lines[l].state

\* Lines that are not delivered in full are confirmed again, the others done.
Reopen ==
  /\ phase = "done" /\ todo = {}
  /\ lineState' = [l \in DOMAIN lines |-> NewState(l)]
  /\ phase' = "open" /\ todo' = Moves(FALSE)
  /\ UNCHANGED <<data, received, remaining, fixed, spare>>

\* order_info['confirmed']: the lines that were, then those opened again
ListConfirmed == {l \in DOMAIN lines : lines[l].state = "confirmed" \/ lineState[l] = "confirmed"}

FirstListed(S) ==
  LET before == {l \in S : lines[l].state = "confirmed"}
  IN IF before # {} THEN Min(before) ELSE Min(S)

\* The state of an outgoing move of some product and quantity: assigned when
\* the same came in, which is used up.
Same(p, qty) == {x \in received : x.product = p /\ x.qty = qty}

Compare(p, qty) == IF Same(p, qty) # {} THEN "assigned" ELSE "confirmed"

UsedUp(p, qty) ==
  IF Same(p, qty) = {} THEN received ELSE received \ {CHOOSE x \in Same(p, qty) : TRUE}

\* Open moves: one that fits nowhere is spared.
ShareOpen ==
  /\ phase = "open" /\ todo # {}
  /\ LET m == Min(todo)
         p == moves[m].product
         list == {l \in ListConfirmed : lines[l].product = p}
         compared == out /\ moves[m].state \in {"assigned", "confirmed"}
     IN IF list = {} THEN phase' = "raised" /\ UNCHANGED <<todo, remaining, fixed, received, spare>>
        ELSE /\ todo' = todo \ {m} /\ UNCHANGED phase
             /\ IF Fits(m, list) = {}
                THEN spare' = spare \cup {m} /\ UNCHANGED remaining
                ELSE /\ remaining' = [remaining EXCEPT ![FirstListed(Fits(m, list))] = @ - moves[m].qty]
                     /\ UNCHANGED spare
             /\ fixed' = [fixed EXCEPT
                  ![m].line = IF Fits(m, list) = {} THEN @ ELSE FirstListed(Fits(m, list)),
                  ![m].state = IF compared THEN Compare(p, moves[m].qty) ELSE @]
             /\ received' = IF compared THEN UsedUp(p, moves[m].qty) ELSE received
  /\ UNCHANGED <<data, lineState>>

OpenShared ==
  /\ phase = "open" /\ todo = {}
  /\ phase' = "fill" /\ todo' = {l \in ListConfirmed : remaining[l] # 0}
  /\ UNCHANGED <<data, received, remaining, lineState, fixed, spare>>

\* The SQL that sets a state has `where state=` with the state that was read: it
\* is not printed when that is the new one, and changes nothing when the SQL of
\* the loop before has set another.
Restated(m, new) ==
  IF new # moves[m].state /\ fixed[m].state = moves[m].state THEN new ELSE fixed[m].state

\* What a line lacks is asked of the last spare move, whatever its product;
\* without one the pass ends with an exception.  Its state is compared when
\* that of the last open move of the loop before allows it.
Fill ==
  /\ phase = "fill"
  /\ \E l \in todo :
       IF spare = {} THEN phase' = "raised" /\ UNCHANGED <<todo, fixed, received, spare>>
       ELSE LET m == Max(spare)
                p == lines[l].product
                compared == out /\ moves[Max(Moves(FALSE))].state \in {"assigned", "confirmed"}
            IN /\ todo' = todo \ {l} /\ spare' = spare \ {m} /\ UNCHANGED phase
               /\ fixed' = [fixed EXCEPT ![m] =
                    [line |-> l, product |-> p, qty |-> remaining[l],
                     state |-> IF compared THEN Restated(m, Compare(p, remaining[l])) ELSE @.state]]
               /\ received' = IF compared THEN UsedUp(p, remaining[l]) ELSE received
  /\ UNCHANGED <<data, remaining, lineState>>

\* The moves that are left are cancelled.
CancelSpare ==
  /\ phase = "fill" /\ todo = {}
  /\ phase' = "end"
  /\ fixed' = [m \in DOMAIN fixed |-> IF m \in spare THEN [fixed[m] EXCEPT !.state = "cancel"]
                                      ELSE fixed[m]]
  /\ UNCHANGED <<data, received, todo, remaining, lineState, spare>>

FixNext == ShareDone \/ Reopen \/ ShareOpen \/ OpenShared \/ Fill \/ CancelSpare

\* either pass, over any lines and moves
FixInit ==
  \E L \in SUBSET Line, M \in SUBSET Move : \E ls \in [L -> LineData], ms \in [M -> MoveData] :
    \E got \in SUBSET [of : Nat, product : Product, qty : Nat], outgoing \in BOOLEAN :
      FixStart(ls, ms, got, outgoing)

FixSpec == FixInit /\ [][FixNext]_fixVars

-----------------------------------------------------------------------------
LinkedTo(l) == {m \in DOMAIN fixed : fixed[m].line = l /\ fixed[m].state # "cancel"}

Quantity(S) == MapThenSumSet(LAMBDA m : fixed[m].qty, S)

\* Once the SQL of a pass that ends has been run, the moves of each line are of
\* its product, none is negative, they add up to its quantity, and every other
\* move is cancelled; a line is done exactly when its done moves are all it
\* ordered.
LinesCovered ==
  phase = "end" =>
    /\ \A l \in DOMAIN lines :
         /\ Quantity(LinkedTo(l)) = lines[l].qty
         /\ \A m \in LinkedTo(l) : fixed[m].product = lines[l].product /\ fixed[m].qty > 0
         /\ lineState[l] = "done" <=>
              Quantity({m \in LinkedTo(l) : fixed[m].state = "done"}) = lines[l].qty
    /\ \A m \in DOMAIN fixed : fixed[m].line = Unlinked => fixed[m].state = "cancel"
=============================================================================
