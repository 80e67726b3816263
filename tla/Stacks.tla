------------------------------- MODULE Stacks -------------------------------
(***************************************************************************)
(* Piles of goods: internal/world/item.go.                                 *)
(*                                                                         *)
(* A pile list is a Go slice, changed in place.  Whoever holds the slice   *)
(* header from before a TakeStack goes on reading the same array at the    *)
(* old length; Leftover is what it reads.                                  *)
(***************************************************************************)
EXTENDS Naturals, Sequences, Functions

Pile(I) == [id : I, n : Nat]

\* Piles AddStack merges into, and piles TakeStack can serve n units from.
Merging(bag, id)   == {k \in DOMAIN bag : bag[k].id = id}
Serving(bag, id, n) == {k \in Merging(bag, id) : bag[k].n >= n}

First(S) == CHOOSE k \in S : \A j \in S : k <= j

\* Slip: every unit gets a pile of its own.
AddStackApart(bag, id, n) == IF n = 0 THEN bag ELSE Append(bag, [id |-> id, n |-> n])

AddStack(bag, id, n) ==
  IF n = 0 THEN bag
  ELSE IF Merging(bag, id) = {} THEN Append(bag, [id |-> id, n |-> n])
  ELSE [bag EXCEPT ![First(Merging(bag, id))].n = @ + n]

CanTake(bag, id, n) == n > 0 /\ Serving(bag, id, n) # {}

\* The array behind bag once n units of pile k were taken; its last slot, when
\* pile k is used up, is beyond the new slice but still in the old one.
Array(bag, k, n) ==
  IF bag[k].n > n \/ k = Len(bag) THEN [bag EXCEPT ![k].n = @ - n]
  ELSE [j \in DOMAIN bag |-> IF j < k \/ j = Len(bag) THEN bag[j] ELSE bag[j + 1]]

Leftover(bag, id, n) == Array(bag, First(Serving(bag, id, n)), n)

TakeStack(bag, id, n) ==
  LET k == First(Serving(bag, id, n)) IN
    SubSeq(Leftover(bag, id, n), 1, IF bag[k].n = n THEN Len(bag) - 1 ELSE Len(bag))

\* What qtyOfBag (engine/livelihood.go) reads: the first pile of that item.
QtyOf(bag, id) == IF Merging(bag, id) = {} THEN 0 ELSE bag[First(Merging(bag, id))].n

\* What a list comes to when a unit of item i counts for c[i].
Weigh(c, bag) == SumFunction([k \in DOMAIN bag |-> c[bag[k].id] * bag[k].n])

\* "Qty is >= 1 when stored", and one pile per item.
Tidy(bag) ==
  /\ \A k \in DOMAIN bag : bag[k].n > 0
  /\ \A j, k \in DOMAIN bag : bag[j].id = bag[k].id => j = k
=============================================================================
