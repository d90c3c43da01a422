-------------------------- MODULE TrajectoryFrontier --------------------------
(***************************************************************************)
(* memory/frontier.py, class TrajectoryFrontier: the bounded frontier of   *)
(* complete trajectories that frontier analysis, the achieved values of    *)
(* the state archive and the prefixes of new branches are read from.       *)
(*                                                                         *)
(* The code keeps two containers in step: the ranked list _entries and the *)
(* table _trajectories of the trajectories themselves, which is pruned     *)
(* only by the call that truncates the list.                               *)
(***************************************************************************)
EXTENDS TrajectoryRanking

CONSTANT MaxInsertions   \* model bound on insertion_order, not in the code

ASSUME MaxInsertionsIsNat == MaxInsertions \in Nat

VARIABLES
  entries,            \* _entries, a set: the order is that of Outranks
  trajectories,       \* _trajectories: id |-> value of the stored trajectory
  insertionCounter,   \* _insertion_counter
  (*************************** history variables ***************************)
  dropped,            \* latest entry of every trajectory clipped by a trim
  demoted             \* a retained trajectory was re-inserted under a lower rank

vars == <<entries, trajectories, insertionCounter, dropped, demoted>>

TypeOK ==
  /\ entries \subseteq Entry
  /\ IsFiniteSet(entries)
  /\ dropped \subseteq Entry
  /\ IsFiniteSet(dropped)
  /\ DOMAIN trajectories \subseteq Ids
  /\ \A id \in DOMAIN trajectories : trajectories[id] \in Values
  /\ insertionCounter \in Nat
  /\ demoted \in BOOLEAN

Init ==
  /\ entries = {}
  /\ trajectories = [id \in {} |-> 0]
  /\ insertionCounter = 0
  /\ dropped = {}
  /\ demoted = FALSE

-----------------------------------------------------------------------------
(* insert and _resort_and_trim.  A definition whose name says how it departs
   from the code is a mutant: some property must fail once it is put in place. *)

ClipOneTooMany(S) == IF Cardinality(S) =< MaxSize + 1 THEN S ELSE BestOf(S, MaxSize)
ClipTheOldest(S) ==
  {e \in S : Cardinality({f \in S : f.order > e.order}) < MaxSize}

Clip(S) == IF Cardinality(S) =< MaxSize THEN S ELSE BestOf(S, MaxSize)

PruneNothing(table, before, after) == table

\* The table is rebuilt from the retained ids only when the list was truncated.
Prune(table, before, after) ==
  IF Cardinality(before) =< MaxSize THEN table
  ELSE [id \in DOMAIN table \cap IdsOf(after) |-> table[id]]

\* The rest of insert once the new entry is built: e replaces `old`.
Store(e, old) ==
  LET sorted == (entries \ old) \cup {e}
      table == [id \in DOMAIN trajectories \cup {e.id} |->
                  IF id = e.id THEN e.value ELSE trajectories[id]]
  IN  /\ entries' = Clip(sorted)
      /\ trajectories' = Prune(table, sorted, entries')
      /\ dropped' = {d \in dropped : d.id # e.id} \cup (sorted \ entries')

InsertNewCountingDown(id, value, bonus) ==
  /\ insertionCounter > -MaxInsertions
  /\ id \notin IdsOf(entries)
  /\ Store([id |-> id, value |-> value, bonus |-> bonus, order |-> insertionCounter], {})
  /\ insertionCounter' = insertionCounter - 1
  /\ UNCHANGED demoted

\* insert of a trajectory the frontier does not hold (never seen, or evicted).
InsertNew(id, value, bonus) ==
  /\ insertionCounter < MaxInsertions
  /\ id \notin IdsOf(entries)
  /\ Store([id |-> id, value |-> value, bonus |-> bonus, order |-> insertionCounter], {})
  /\ insertionCounter' = insertionCounter + 1
  /\ UNCHANGED demoted

\* insert of a trajectory that is still retained: it keeps its insertion order.
Reinsert(old, value, bonus) ==
  LET e == [old EXCEPT !.value = value, !.bonus = bonus]
  IN  /\ Store(e, {old})
      /\ demoted' = (demoted \/ Outranks(old, e))
      /\ UNCHANGED insertionCounter

Next ==
  \E value \in Values, bonus \in Bonuses :
    \/ \E id \in Ids : InsertNew(id, value, bonus)
    \/ \E old \in entries : Reinsert(old, value, bonus)

Spec == Init /\ [][Next]_vars

-----------------------------------------------------------------------------
\* top_k_trajectories / trajectories_for_analysis: what an analysis of the k
\* best retained trajectories reads.
TopK(k) == {e \in BestOf(entries, k) : e.id \in DOMAIN trajectories}

\* The list and the table of trajectories agree: one entry per stored
\* trajectory, no trajectory survives the eviction of its entry, and the stored
\* trajectory is the one the entry was scored on.  get_trajectory and
\* top_k_trajectories read the table under ids taken from the list.
TableMatchesEntries ==
  /\ DistinctIds(entries)
  /\ DOMAIN trajectories = IdsOf(entries)
  /\ \A e \in entries : trajectories[e.id] = e.value

\* The frontier never grows past max_size, and nothing is dropped for good
\* while a slot is free.
FullWhenDropping ==
  /\ Cardinality(entries) =< MaxSize
  /\ dropped # {} => Cardinality(entries) = MaxSize

\* As long as no retained trajectory was re-inserted under a lower rank, every
\* retained trajectory outranks every trajectory that was ever clipped: insert
\* after insert, the greedy trim is the global top-k.
RetainsTheBest ==
  ~demoted => \A e \in entries, d \in dropped : Outranks(e, d)

\* The frontier implements the top-k promise of TopTrajectories.
Promise == INSTANCE TopTrajectories
             WITH offers <- entries \cup dropped, retained <- entries, exact <- ~demoted
KeepsPromise == Promise!Spec
=============================================================================
