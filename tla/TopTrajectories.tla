--------------------------- MODULE TopTrajectories ---------------------------
(***************************************************************************)
(* What a bounded trajectory frontier promises to the rest of the agent:   *)
(* of everything offered to it, the MaxSize best are retained.             *)
(*                                                                         *)
(* The promise lasts while it is exact: a trajectory that is still         *)
(* retained and is offered again under a lower rank cannot bring back what *)
(* it had displaced, and from then on only containment is promised.        *)
(***************************************************************************)
EXTENDS TrajectoryRanking

VARIABLES
  offers,     \* the latest entry of every trajectory offered so far
  retained,   \* what the frontier holds
  exact       \* no retained trajectory was ever demoted

vars == <<offers, retained, exact>>

Init == offers = {} /\ retained = {} /\ exact = TRUE

Offered == \E e \in offers' : offers' = {o \in offers : o.id # e.id} \cup {e}

OfferAndKeepTheBest ==
  /\ exact /\ exact'
  /\ Offered
  /\ retained' = BestOf(offers', MaxSize)

OfferAfterDemotion ==
  /\ ~exact'
  /\ Offered
  /\ retained' \subseteq offers'
  /\ Cardinality(retained') =< MaxSize

Next == OfferAndKeepTheBest \/ OfferAfterDemotion

Spec == Init /\ [][Next]_vars
=============================================================================
