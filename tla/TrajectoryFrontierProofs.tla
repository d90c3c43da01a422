----------------------- MODULE TrajectoryFrontierProofs -----------------------
(***************************************************************************)
(* Proofs that the trajectory frontier keeps exactly the best trajectories *)
(* it was offered, for every max_size, set of scores and sequence of       *)
(* insertions.                                                             *)
(***************************************************************************)
EXTENDS TrajectoryFrontier, FiniteSetTheorems, TLAPS

Betters(S, e) == {f \in S : Outranks(f, e)}

-----------------------------------------------------------------------------
(* The ranking. *)

\* Retention scores are comparable.
LEMMA RetentionScoreIsInt ==
  ASSUME NEW x \in Entry
  PROVE  RetentionScore(x) \in Int /\ x.order \in Nat
<1>0. x.value \in Values /\ x.bonus \in Bonuses /\ x.order \in Nat
  BY DEF Entry
<1>1. x.value \in Int /\ x.bonus \in Int /\ x.order \in Nat
  <2>1. \A v \in Values, b \in Bonuses : v \in Int /\ b \in Int
    BY ScoresAreIntegers
  <2>2. QED BY <1>0, <2>1
<1>2. CASE EnableTiebreak
  BY <1>1, <1>2 DEF RetentionScore
<1>3. CASE ~ EnableTiebreak
  BY <1>1, <1>3 DEF RetentionScore
<1>4. QED BY <1>2, <1>3

\* The sort key is a strict order, total on entries of distinct insertion order.
LEMMA OutranksIsAnOrder ==
  ASSUME NEW e \in Entry, NEW f \in Entry, NEW g \in Entry
  PROVE  /\ ~ Outranks(e, e)
         /\ Outranks(e, f) /\ Outranks(f, g) => Outranks(e, g)
         /\ Outranks(e, f) => ~ Outranks(f, e)
         /\ e.order # f.order => Outranks(e, f) \/ Outranks(f, e)
<1>1. \A x \in Entry : RetentionScore(x) \in Int /\ x.order \in Nat
  BY RetentionScoreIsInt
<1>2. PICK s \in [Entry -> Int] : \A x \in Entry : s[x] = RetentionScore(x)
  <2>1. [x \in Entry |-> RetentionScore(x)] \in [Entry -> Int]
    BY <1>1
  <2>2. QED BY <2>1
<1>3. \A x, y \in Entry : Outranks(x, y) <=> s[x] > s[y] \/ (s[x] = s[y] /\ x.order < y.order)
  BY <1>2 DEF Outranks
<1>4. QED
  BY <1>1, <1>2, <1>3

\* The number of entries ahead of an entry is below the size of the list, and
\* an entry that is outranked has strictly more entries ahead of it.
LEMMA BettersOf ==
  ASSUME NEW S \in SUBSET Entry, IsFiniteSet(S), NEW e \in S
  PROVE  /\ IsFiniteSet(Betters(S, e))
         /\ Cardinality(Betters(S, e)) \in Nat
         /\ Cardinality(Betters(S, e)) < Cardinality(S)
         /\ \A f \in S : Outranks(e, f) =>
               Cardinality(Betters(S, e)) < Cardinality(Betters(S, f))
<1>1. Betters(S, e) \subseteq S \ {e}
  BY OutranksIsAnOrder DEF Betters
<1>2. IsFiniteSet(S \ {e}) /\ Cardinality(S \ {e}) = Cardinality(S) - 1 /\ Cardinality(S) \in Nat
  BY FS_RemoveElement, FS_CardinalityType
<1>3. /\ IsFiniteSet(Betters(S, e))
      /\ Cardinality(Betters(S, e)) \in Nat
      /\ Cardinality(Betters(S, e)) =< Cardinality(S \ {e})
  BY <1>1, <1>2, FS_Subset, FS_CardinalityType
<1>4. ASSUME NEW f \in S, Outranks(e, f)
      PROVE  Cardinality(Betters(S, e)) < Cardinality(Betters(S, f))
  <2>1. Betters(S, e) \subseteq Betters(S, f) \ {e}
    BY <1>1, <1>4, OutranksIsAnOrder DEF Betters
  <2>2. e \in Betters(S, f) /\ IsFiniteSet(Betters(S, f))
    BY <1>4, FS_Subset DEF Betters
  <2>3. /\ IsFiniteSet(Betters(S, f) \ {e})
        /\ Cardinality(Betters(S, f) \ {e}) = Cardinality(Betters(S, f)) - 1
        /\ Cardinality(Betters(S, f)) \in Nat
    BY <2>2, FS_RemoveElement, FS_CardinalityType
  <2>4. Cardinality(Betters(S, e)) =< Cardinality(Betters(S, f) \ {e})
    BY <2>1, <2>3, FS_Subset
  <2>5. QED BY <1>3, <2>3, <2>4
<1>5. QED BY <1>2, <1>3, <1>4

\* What a sort and a slice return: k entries, each of which outranks each entry
\* left out.  The positions of a list of n entries are 0..n-1, each taken once.
LEMMA BestOfIsTheTop ==
  ASSUME NEW S \in SUBSET Entry, IsFiniteSet(S), DistinctOrders(S),
         NEW k \in Nat, k =< Cardinality(S)
  PROVE  /\ BestOf(S, k) \subseteq S
         /\ IsFiniteSet(BestOf(S, k))
         /\ Cardinality(BestOf(S, k)) = k
         /\ \A e \in BestOf(S, k), d \in S \ BestOf(S, k) : Outranks(e, d)
<1> DEFINE n == Cardinality(S)
           pos == [e \in S |-> Cardinality(Betters(S, e))]
           best == BestOf(S, k)
<1>1. best = {e \in S : pos[e] < k}
  BY DEF BestOf, Betters
<1>2. n \in Nat
  BY FS_CardinalityType
<1>3. pos \in [S -> 0..(n-1)]
  BY <1>2, BettersOf
<1>4. \A e, f \in S : Outranks(e, f) => pos[e] < pos[f]
  BY BettersOf
<1>5. \A e, f \in S : e = f \/ Outranks(e, f) \/ Outranks(f, e)
  BY OutranksIsAnOrder DEF DistinctOrders
<1>6. \A e, f \in S : pos[e] = pos[f] => e = f
  <2> SUFFICES ASSUME NEW e \in S, NEW f \in S, pos[e] = pos[f]
               PROVE  e = f
    OBVIOUS
  <2>1. pos[e] \in Int /\ pos[f] \in Int
    BY <1>3
  <2>2. QED BY <2>1, <1>4, <1>5
<1>7. pos \in Surjection(S, 0..(n-1))
  <2>1. pos \in Injection(S, 0..(n-1))
    BY <1>3, <1>6 DEF Injection, IsInjective
  <2>2. IsFiniteSet(0..(n-1)) /\ Cardinality(0..(n-1)) = n
    <3> HIDE DEF n
    <3>1. 0 \in Int /\ n - 1 \in Int /\ (0 > n - 1 <=> n = 0)
      BY <1>2
    <3>2. IsFiniteSet(0..(n-1)) /\ Cardinality(0..(n-1)) = IF 0 > n - 1 THEN 0 ELSE (n - 1) - 0 + 1
      BY <3>1, FS_Interval
    <3>3. QED BY <1>2, <3>1, <3>2
  <2>3. QED BY <2>1, <2>2, FS_Injection
<1>8. \A i \in 0..(k-1) : \E e \in best : pos[e] = i
  <2> SUFFICES ASSUME NEW i \in 0..(k-1)
               PROVE  \E e \in best : pos[e] = i
    OBVIOUS
  <2>1. i \in 0..(n-1)
    BY <1>2
  <2>2. PICK e \in S : pos[e] = i
    BY <1>7, <2>1 DEF Surjection
  <2>3. QED BY <1>1, <2>2
<1>9. IsFiniteSet(best) /\ best \subseteq S
  BY <1>1, FS_Subset
<1>10. Cardinality(best) = k
  <2> DEFINE top == [e \in best |-> pos[e]]
  <2>1. top \in [best -> 0..(k-1)]
    BY <1>1, <1>2, <1>3
  <2>2. top \in Bijection(best, 0..(k-1))
    BY <1>6, <1>8, <1>9, <2>1 DEF Bijection, Injection, Surjection, IsInjective
  <2>3. ExistsBijection(best, 0..(k-1))
    BY <2>2 DEF ExistsBijection
  <2>4. Cardinality(0..(k-1)) = Cardinality(best)
    BY <1>9, <2>3, FS_Bijection
  <2>5. QED BY <2>4, FS_Interval
<1>11. ASSUME NEW e \in best, NEW d \in S \ best
       PROVE  Outranks(e, d)
  <2>1. pos[e] \in Int /\ pos[d] \in Int /\ pos[e] < k /\ ~ (pos[d] < k)
    BY <1>1, <1>3
  <2>2. QED BY <1>4, <1>5, <1>1, <2>1
<1>12. QED BY <1>9, <1>10, <1>11

\* A set of k entries above everything else, or of fewer when there is nothing
\* else, is what sorting and slicing all of them would give.
LEMMA TopIsBestOf ==
  ASSUME NEW R \in SUBSET Entry, IsFiniteSet(R), NEW D \in SUBSET Entry, IsFiniteSet(D),
         NEW k \in Nat, Cardinality(R) =< k, D # {} => Cardinality(R) = k,
         \A e \in R, d \in D : Outranks(e, d)
  PROVE  BestOf(R \cup D, k) = R
<1> DEFINE U == R \cup D
<1>1. IsFiniteSet(U) /\ Cardinality(R) \in Nat
  BY FS_Union, FS_CardinalityType
<1>2. ASSUME NEW e \in R PROVE Cardinality(Betters(U, e)) < k
  <2>1. Betters(U, e) = Betters(R, e)
    BY OutranksIsAnOrder DEF Betters
  <2>2. QED BY <1>1, <2>1, BettersOf
<1>3. ASSUME NEW d \in D PROVE ~ (Cardinality(Betters(U, d)) < k)
  <2>1. R \subseteq Betters(U, d)
    BY DEF Betters
  <2>2. IsFiniteSet(Betters(U, d))
    BY <1>1, FS_Subset DEF Betters
  <2>3. Cardinality(R) =< Cardinality(Betters(U, d)) /\ Cardinality(Betters(U, d)) \in Nat
    BY <2>1, <2>2, FS_Subset, FS_CardinalityType
  <2>4. QED BY <2>3
<1>4. BestOf(U, k) = {e \in U : Cardinality(Betters(U, e)) < k}
  BY DEF BestOf, Betters
<1>5. R \cap D = {}
  BY OutranksIsAnOrder
<1>6. QED BY <1>2, <1>3, <1>4, <1>5

-----------------------------------------------------------------------------
(* The state machine. *)

\* The inductive invariant: insertion orders are handed out once, and the
\* retained set, whose entries the ranking separates, is full before anything
\* is dropped.  Without the orders a trim could leave a tie undecided.
OrdersAreFresh ==
  /\ \A e \in entries : e.order < insertionCounter
  /\ DistinctOrders(entries)

IInv == TypeOK /\ OrdersAreFresh /\ TableMatchesEntries /\ FullWhenDropping /\ RetainsTheBest

\* What every insert hands to Store.
Storable(e, old) ==
  /\ e \in Entry
  /\ old \subseteq entries
  /\ \A x \in entries : x.id = e.id <=> x \in old
  /\ \A x \in entries \ old : x.order # e.order
  /\ \A x \in old : x.order = e.order

\* After Store: the retained set is the old one with the new entry, less the
\* last of them when there was no room.
LEMMA StoreClips ==
  ASSUME IInv, NEW e, NEW old, Storable(e, old), Store(e, old)
  PROVE  LET sorted == (entries \ old) \cup {e}
         IN  /\ sorted \subseteq Entry
             /\ IsFiniteSet(sorted)
             /\ DistinctOrders(sorted)
             /\ DistinctIds(sorted)
             /\ entries' \subseteq sorted
             /\ IsFiniteSet(entries')
             /\ Cardinality(entries') =< MaxSize
             /\ sorted # entries' => Cardinality(entries') = MaxSize
             /\ \A x \in entries', d \in sorted \ entries' : Outranks(x, d)
<1> DEFINE sorted == (entries \ old) \cup {e}
<1>1. sorted \subseteq Entry /\ DistinctOrders(sorted) /\ DistinctIds(sorted)
  BY DEF IInv, TypeOK, OrdersAreFresh, TableMatchesEntries, Storable, DistinctOrders, DistinctIds
<1>2. IsFiniteSet(sorted) /\ Cardinality(sorted) \in Nat
  <2>1. IsFiniteSet(entries \ old)
    BY FS_Subset DEF IInv, TypeOK
  <2>2. QED BY <2>1, FS_AddElement, FS_CardinalityType
<1>3. entries' = Clip(sorted)
  BY DEF Store
<1>4. MaxSize \in Nat
  BY MaxSizeIsPositive
<1>5. CASE Cardinality(sorted) =< MaxSize
  <2>1. entries' = sorted
    BY <1>3, <1>5 DEF Clip
  <2>2. QED BY <1>1, <1>2, <1>5, <2>1
<1>6. CASE ~ (Cardinality(sorted) =< MaxSize)
  <2>1. entries' = BestOf(sorted, MaxSize)
    BY <1>3, <1>6 DEF Clip
  <2>2. MaxSize =< Cardinality(sorted)
    BY <1>2, <1>4, <1>6
  <2>3. /\ entries' \subseteq sorted
        /\ IsFiniteSet(entries')
        /\ Cardinality(entries') = MaxSize
        /\ \A x \in entries', d \in sorted \ entries' : Outranks(x, d)
    BY <1>1, <1>2, <1>4, <2>1, <2>2, BestOfIsTheTop
  <2>4. QED BY <1>1, <1>2, <1>4, <2>3
<1>7. QED BY <1>5, <1>6

\* InsertNew and Reinsert call Store as it expects to be called.
LEMMA InsertNewIsStorable ==
  ASSUME IInv, NEW id \in Ids, NEW value \in Values, NEW bonus \in Bonuses,
         id \notin IdsOf(entries)
  PROVE  Storable([id |-> id, value |-> value, bonus |-> bonus, order |-> insertionCounter], {})
<1>1. \A x \in entries : x.order < insertionCounter /\ x.order \in Nat
  BY DEF IInv, TypeOK, OrdersAreFresh, Entry
<1>2. insertionCounter \in Nat
  BY DEF IInv, TypeOK
<1>3. QED BY <1>1, <1>2 DEF Storable, Entry, IdsOf

\* Reinsert replaces the entry it was given, under the order that entry had.
LEMMA ReinsertIsStorable ==
  ASSUME IInv, NEW old \in entries, NEW value \in Values, NEW bonus \in Bonuses
  PROVE  LET e == [old EXCEPT !.value = value, !.bonus = bonus]
         IN  Storable(e, {old}) /\ e.order = old.order
<1> DEFINE e == [old EXCEPT !.value = value, !.bonus = bonus]
<1>1. old \in Entry
  BY DEF IInv, TypeOK
<1>2. e \in Entry /\ e.order = old.order /\ e.id = old.id
  BY <1>1 DEF Entry
<1>3. QED
  BY <1>2 DEF Storable, IInv, OrdersAreFresh, TableMatchesEntries, DistinctIds, DistinctOrders

\* What every Store preserves, whichever insert calls it.
LEMMA StoreKeepsTypes ==
  ASSUME IInv, NEW e, NEW old, Storable(e, old), Store(e, old)
  PROVE  /\ entries' \subseteq Entry /\ IsFiniteSet(entries')
         /\ dropped' \subseteq Entry /\ IsFiniteSet(dropped')
         /\ DOMAIN trajectories' \subseteq Ids
         /\ \A id \in DOMAIN trajectories' : trajectories'[id] \in Values
         /\ TableMatchesEntries'
         /\ DistinctOrders(entries')
<1> DEFINE sorted == (entries \ old) \cup {e}
           table == [id \in DOMAIN trajectories \cup {e.id} |->
                       IF id = e.id THEN e.value ELSE trajectories[id]]
<1>1. /\ sorted \subseteq Entry /\ IsFiniteSet(sorted)
      /\ DistinctOrders(sorted) /\ DistinctIds(sorted)
      /\ entries' \subseteq sorted /\ IsFiniteSet(entries')
      /\ sorted # entries' => Cardinality(entries') = MaxSize
  BY StoreClips
<1>2. /\ trajectories' = Prune(table, sorted, entries')
      /\ dropped' = {d \in dropped : d.id # e.id} \cup (sorted \ entries')
      /\ entries' = Clip(sorted)
  BY DEF Store
<1>3. entries' \subseteq Entry /\ dropped' \subseteq Entry
  BY <1>1, <1>2 DEF IInv, TypeOK
<1>4. IsFiniteSet(dropped')
  <2>1. IsFiniteSet({d \in dropped : d.id # e.id})
    BY FS_Subset DEF IInv, TypeOK
  <2>2. IsFiniteSet(sorted \ entries')
    BY <1>1, FS_Subset
  <2>3. QED BY <1>2, <2>1, <2>2, FS_Union
<1>5. DOMAIN table = IdsOf(sorted)
  BY DEF IInv, TableMatchesEntries, IdsOf, Storable
<1>6. \A x \in sorted : table[x.id] = x.value
  <2> SUFFICES ASSUME NEW x \in sorted PROVE table[x.id] = x.value
    OBVIOUS
  <2>1. CASE x = e
    BY <2>1
  <2>2. CASE x # e
    <3>1. x \in entries /\ x.id # e.id
      BY <2>2 DEF Storable
    <3>2. x.id \in DOMAIN trajectories /\ trajectories[x.id] = x.value
      BY <3>1 DEF IInv, TableMatchesEntries, IdsOf
    <3>3. QED BY <3>1, <3>2
  <2>3. QED BY <2>1, <2>2
<1>7. /\ DOMAIN trajectories' = IdsOf(entries')
      /\ \A x \in entries' : trajectories'[x.id] = x.value
  <2> HIDE DEF sorted, table
  <2>1. CASE Cardinality(sorted) =< MaxSize
    <3>1. entries' = sorted /\ trajectories' = table
      BY <1>2, <2>1 DEF Clip, Prune
    <3>2. QED BY <1>5, <1>6, <3>1
  <2>2. CASE ~ (Cardinality(sorted) =< MaxSize)
    <3>1. trajectories' = [id \in DOMAIN table \cap IdsOf(entries') |-> table[id]]
      BY <1>2, <2>2 DEF Prune
    <3>2. IdsOf(entries') \subseteq DOMAIN table
      BY <1>1, <1>5 DEF IdsOf
    <3>3. QED BY <1>1, <1>6, <3>1, <3>2 DEF IdsOf
  <2>3. QED BY <2>1, <2>2
<1>8. DOMAIN trajectories' \subseteq Ids /\ \A id \in DOMAIN trajectories' : trajectories'[id] \in Values
  BY <1>3, <1>7 DEF IdsOf, Entry
<1>9. TableMatchesEntries' /\ DistinctOrders(entries')
  BY <1>1, <1>7 DEF TableMatchesEntries, DistinctIds, DistinctOrders
<1>10. QED BY <1>1, <1>3, <1>4, <1>8, <1>9

\* Nothing is dropped while a slot is free.
LEMMA StoreKeepsFull ==
  ASSUME IInv, NEW e, NEW old, Storable(e, old), Store(e, old),
         old = {} \/ \E o \in entries : old = {o}
  PROVE  FullWhenDropping'
<1> DEFINE sorted == (entries \ old) \cup {e}
<1>1. /\ IsFiniteSet(entries') /\ entries' \subseteq sorted
      /\ Cardinality(entries') =< MaxSize
      /\ sorted # entries' => Cardinality(entries') = MaxSize
  BY StoreClips
<1>2. dropped' = {d \in dropped : d.id # e.id} \cup (sorted \ entries')
  BY DEF Store
<1>3. ASSUME sorted = entries', dropped # {} PROVE Cardinality(entries') = MaxSize
  <2>1. Cardinality(entries) = MaxSize /\ IsFiniteSet(entries) /\ MaxSize \in Nat
    BY <1>3, MaxSizeIsPositive DEF IInv, FullWhenDropping, TypeOK
  <2>2. CASE old = {}
    <3>1. Cardinality(entries) =< Cardinality(entries')
      BY <1>1, <1>3, <2>2, FS_Subset
    <3>2. QED BY <1>1, <2>1, <3>1, FS_CardinalityType
  <2>3. CASE \E o \in entries : old = {o}
    <3>1. PICK o \in entries : old = {o}
      BY <2>3
    <3>2. e \notin entries \ {o}
      BY <3>1 DEF Storable
    <3>3. IsFiniteSet(entries \ {o}) /\ Cardinality(entries \ {o}) = MaxSize - 1
      BY <2>1, FS_RemoveElement
    <3>4. Cardinality(entries') = (MaxSize - 1) + 1
      BY <1>3, <3>1, <3>2, <3>3, FS_AddElement
    <3>5. QED BY <2>1, <3>4
  <2>4. QED BY <2>2, <2>3
<1>4. QED BY <1>1, <1>2, <1>3 DEF FullWhenDropping

\* A trim never drops a trajectory that outranks one it keeps, now or later.
\* The new entry can only push out an entry of the full frontier that itself
\* outranks all that was dropped before.
LEMMA StoreKeepsBest ==
  ASSUME IInv, NEW e, NEW old, Storable(e, old), Store(e, old), RetainsTheBest,
         ~ demoted,
         old = {} \/ \E o \in entries : old = {o} /\ ~ Outranks(o, e)
  PROVE  \A x \in entries', d \in dropped' : Outranks(x, d)
<1> DEFINE sorted == (entries \ old) \cup {e}
<1> SUFFICES ASSUME NEW x \in entries', NEW d \in dropped'
             PROVE  Outranks(x, d)
  OBVIOUS
<1>1. /\ sorted \subseteq Entry /\ IsFiniteSet(sorted) /\ entries' \subseteq sorted
      /\ sorted # entries' => Cardinality(entries') = MaxSize
      /\ Cardinality(entries') =< MaxSize
      /\ \A y \in entries', c \in sorted \ entries' : Outranks(y, c)
  BY StoreClips
<1>2. dropped' = {c \in dropped : c.id # e.id} \cup (sorted \ entries')
  BY DEF Store
<1>3. \A y \in entries, c \in dropped : Outranks(y, c)
  BY DEF RetainsTheBest
<1>4. dropped \subseteq Entry /\ entries \subseteq Entry /\ e \in Entry
  BY DEF IInv, TypeOK, Storable
<1>5. CASE d \in sorted \ entries'
  BY <1>1, <1>5
<1>6. CASE d \in dropped /\ x # e
  BY <1>1, <1>3, <1>6
<1>7. CASE d \in dropped /\ x = e /\ sorted # entries'
  <2>1. PICK c \in sorted : c \notin entries'
    BY <1>1, <1>7
  <2>2. Outranks(e, c) /\ c # e
    BY <1>1, <1>7, <2>1
  <2>3. Outranks(c, d)
    BY <1>3, <1>7, <2>1, <2>2
  <2>4. QED BY <1>4, <1>7, <2>1, <2>2, <2>3, <1>1, OutranksIsAnOrder
<1>8. CASE d \in dropped /\ x = e /\ sorted = entries'
  <2>1. Cardinality(entries) = MaxSize /\ IsFiniteSet(entries) /\ MaxSize \in Nat
    BY <1>8, MaxSizeIsPositive DEF IInv, FullWhenDropping, TypeOK
  <2>2. CASE old = {}
    <3>1. e \notin entries
      BY <2>2 DEF Storable
    <3>2. Cardinality(entries') = MaxSize + 1
      BY <1>8, <2>1, <2>2, <3>1, FS_AddElement
    <3>3. QED BY <1>1, <2>1, <3>2
  <2>3. CASE \E o \in entries : old = {o} /\ ~ Outranks(o, e)
    <3>1. PICK o \in entries : old = {o} /\ ~ Outranks(o, e)
      BY <2>3
    <3>2. Outranks(o, d) /\ o.order = e.order
      BY <1>3, <1>8, <3>1 DEF Storable
    <3>3. RetentionScore(e) \in Int /\ RetentionScore(o) \in Int /\ RetentionScore(d) \in Int
      BY <1>4, <1>8, <3>1, RetentionScoreIsInt
    <3>4. RetentionScore(e) >= RetentionScore(o)
      BY <3>1, <3>3 DEF Outranks
    <3>5. QED BY <1>8, <3>2, <3>3, <3>4 DEF Outranks
  <2>4. QED BY <2>2, <2>3
<1>9. QED BY <1>2, <1>5, <1>6, <1>7, <1>8

-----------------------------------------------------------------------------
(* The theorems. *)

\* A new frontier is empty, and IInv holds of it.
LEMMA InitEstablishesIInv == Init => IInv
<1> SUFFICES ASSUME Init PROVE IInv
  OBVIOUS
<1>1. IsFiniteSet({}) /\ Cardinality({}) = 0
  BY FS_EmptySet
<1>2. TypeOK
  BY <1>1 DEF Init, TypeOK
<1>3. OrdersAreFresh /\ TableMatchesEntries /\ RetainsTheBest
  BY DEF Init, OrdersAreFresh, TableMatchesEntries, RetainsTheBest, DistinctIds, DistinctOrders, IdsOf
<1>4. FullWhenDropping
  BY <1>1, MaxSizeIsPositive DEF Init, FullWhenDropping
<1>5. QED BY <1>2, <1>3, <1>4 DEF IInv

\* The insert of a trajectory that is not retained preserves IInv.
LEMMA InsertNewKeepsIInv ==
  ASSUME IInv, NEW id \in Ids, NEW value \in Values, NEW bonus \in Bonuses,
         InsertNew(id, value, bonus)
  PROVE  IInv'
<1> DEFINE e == [id |-> id, value |-> value, bonus |-> bonus, order |-> insertionCounter]
<1>1. /\ Storable(e, {}) /\ Store(e, {})
      /\ insertionCounter' = insertionCounter + 1 /\ demoted' = demoted
  BY InsertNewIsStorable DEF InsertNew
<1> HIDE DEF e
<1>2. TypeOK' /\ TableMatchesEntries' /\ DistinctOrders(entries')
  BY <1>1, StoreKeepsTypes DEF IInv, TypeOK
<1>3. \A x \in entries' : x.order < insertionCounter'
  <2>1. entries' \subseteq entries \cup {e}
    BY <1>1, StoreClips
  <2>2. e.order = insertionCounter
    BY DEF e
  <2>3. \A x \in entries \cup {e} : x.order \in Nat /\ x.order =< insertionCounter
    BY <1>1, <2>2 DEF IInv, TypeOK, OrdersAreFresh, Storable, Entry
  <2>4. QED BY <1>1, <2>1, <2>3 DEF IInv, TypeOK
<1>4. FullWhenDropping'
  BY <1>1, StoreKeepsFull
<1>5. RetainsTheBest'
  BY <1>1, StoreKeepsBest DEF IInv, RetainsTheBest
<1>6. QED BY <1>2, <1>3, <1>4, <1>5 DEF IInv, OrdersAreFresh

\* The insert of a trajectory that is not retained keeps the table of the others, and
\* for whatever it drops a trajectory that ranks as high stays.
LEMMA InsertNewKeepsTheTop ==
  ASSUME IInv, NEW id \in Ids, NEW value \in Values, NEW bonus \in Bonuses,
         InsertNew(id, value, bonus)
  PROVE  /\ id \notin DOMAIN trajectories
         /\ DOMAIN trajectories' \subseteq DOMAIN trajectories \cup {id}
         /\ \A other \in DOMAIN trajectories' :
              trajectories'[other] = IF other = id THEN value ELSE trajectories[other]
         /\ \A x \in entries' : x \in entries \/ (x.id = id /\ x.value = value)
         /\ \E x \in entries' : EnableTiebreak \/ x.value >= value
         /\ \A y \in entries : \E x \in entries' : EnableTiebreak \/ x.value >= y.value
<1> DEFINE e == [id |-> id, value |-> value, bonus |-> bonus, order |-> insertionCounter]
           sorted == entries \cup {e}
<1>1. Storable(e, {}) /\ Store(e, {}) /\ id \notin IdsOf(entries)
  BY InsertNewIsStorable DEF InsertNew
<1>2. e.id = id /\ e.value = value
  OBVIOUS
<1> HIDE DEF e
<1>3. /\ sorted \subseteq Entry /\ IsFiniteSet(sorted) /\ entries' \subseteq sorted
      /\ sorted # entries' => Cardinality(entries') = MaxSize
      /\ \A x \in entries', d \in sorted \ entries' : Outranks(x, d)
  <2>1. (entries \ {}) \cup {e} = sorted
    OBVIOUS
  <2> QED
    BY <1>1, <2>1, StoreClips
<1>4. TableMatchesEntries /\ TableMatchesEntries'
  BY <1>1, StoreKeepsTypes DEF IInv
<1>5. id \notin DOMAIN trajectories
  BY <1>1, <1>4 DEF TableMatchesEntries
<1>6. \A x \in entries' : x \in entries \/ (x.id = id /\ x.value = value)
  BY <1>2, <1>3
<1>7. ASSUME NEW y \in sorted
      PROVE  \E x \in entries' : x = y \/ EnableTiebreak \/ x.value >= y.value
  <2>1. CASE y \in entries'
    BY <2>1
  <2>2. CASE y \notin entries'
    <3>1. Cardinality(entries') = MaxSize /\ MaxSize # 0
      BY <1>3, <2>2, MaxSizeIsPositive
    <3>2. PICK x \in entries' : TRUE
      BY <3>1, FS_EmptySet
    <3>3. Outranks(x, y) /\ x \in Entry /\ y \in Entry
      BY <1>3, <2>2, <3>2
    <3>4. x.value \in Int /\ y.value \in Int
      BY <3>3, ScoresAreIntegers DEF Entry
    <3>5. EnableTiebreak \/ x.value >= y.value
      BY <3>3, <3>4 DEF Outranks, RetentionScore
    <3> QED
      BY <3>5
  <2> QED
    BY <2>1, <2>2
<1>8. ASSUME NEW other \in DOMAIN trajectories'
      PROVE  /\ other \in DOMAIN trajectories \cup {id}
             /\ trajectories'[other] = IF other = id THEN value ELSE trajectories[other]
  <2>1. PICK x \in entries' : x.id = other /\ trajectories'[other] = x.value
    BY <1>4 DEF TableMatchesEntries, IdsOf
  <2>2. CASE x.id = id
    <3>1. x \notin entries
      BY <1>1, <2>2 DEF IdsOf
    <3> QED
      BY <1>6, <2>1, <2>2, <3>1
  <2>3. CASE x.id # id
    <3>1. x \in entries
      BY <1>6, <2>3
    <3>2. x.id \in DOMAIN trajectories /\ trajectories[x.id] = x.value
      BY <1>4, <3>1 DEF TableMatchesEntries, IdsOf
    <3> QED
      BY <2>1, <2>3, <3>2
  <2> QED
    BY <2>2, <2>3
<1>9. e \in sorted /\ \A y \in entries : y \in sorted
  OBVIOUS
<1> HIDE DEF sorted
<1>10. \E x \in entries' : EnableTiebreak \/ x.value >= value
  <2>1. PICK x \in entries' : x = e \/ EnableTiebreak \/ x.value >= value
    BY <1>2, <1>7, <1>9
  <2>2. value \in Int
    BY ScoresAreIntegers
  <2> QED
    BY <1>2, <2>1, <2>2
<1>11. ASSUME NEW y \in entries PROVE \E x \in entries' : EnableTiebreak \/ x.value >= y.value
  <2>1. PICK x \in entries' : x = y \/ EnableTiebreak \/ x.value >= y.value
    BY <1>7, <1>9
  <2>2. y.value \in Int
    BY ScoresAreIntegers DEF IInv, TypeOK, Entry
  <2>3. CASE x = y
    BY <2>2, <2>3
  <2> QED
    BY <2>1, <2>3
<1> QED
  BY <1>5, <1>6, <1>8, <1>10, <1>11

\* The insert of a trajectory that is still retained preserves IInv.
LEMMA ReinsertKeepsIInv ==
  ASSUME IInv, NEW old \in entries, NEW value \in Values, NEW bonus \in Bonuses,
         Reinsert(old, value, bonus)
  PROVE  IInv'
<1> DEFINE e == [old EXCEPT !.value = value, !.bonus = bonus]
<1>1. /\ Storable(e, {old}) /\ e.order = old.order
      /\ Store(e, {old})
      /\ demoted' = (demoted \/ Outranks(old, e))
      /\ insertionCounter' = insertionCounter
  BY ReinsertIsStorable DEF Reinsert
<1> HIDE DEF e
<1>2. TypeOK' /\ TableMatchesEntries' /\ DistinctOrders(entries')
  <2>1. demoted' \in BOOLEAN
    BY <1>1, Zenon DEF IInv, TypeOK
  <2>2. QED BY <1>1, <2>1, StoreKeepsTypes DEF IInv, TypeOK
<1>3. \A x \in entries' : x.order < insertionCounter'
  BY <1>1, StoreClips DEF IInv, OrdersAreFresh
<1>4. FullWhenDropping'
  BY <1>1, StoreKeepsFull
<1>5. RetainsTheBest'
  BY <1>1, StoreKeepsBest DEF IInv, RetainsTheBest
<1>6. QED BY <1>2, <1>3, <1>4, <1>5 DEF IInv, OrdersAreFresh

\* IInv is inductive.
LEMMA NextKeepsIInv == IInv /\ [Next]_vars => IInv'
<1> SUFFICES ASSUME IInv, [Next]_vars PROVE IInv'
  OBVIOUS
<1>1. CASE Next
  BY <1>1, InsertNewKeepsIInv, ReinsertKeepsIInv DEF Next
<1>2. CASE UNCHANGED vars
  BY <1>2 DEF vars, IInv, TypeOK, OrdersAreFresh, TableMatchesEntries, FullWhenDropping,
              RetainsTheBest, DistinctIds, DistinctOrders
<1>3. QED BY <1>1, <1>2

\* Every reachable frontier satisfies the inductive invariant.
THEOREM IInvHolds == Spec => []IInv
<1>1. QED BY InitEstablishesIInv, NextKeepsIInv, PTL DEF Spec

\* The containers only ever hold what their declarations say.
THEOREM TypeCorrect == Spec => []TypeOK
<1>1. IInv => TypeOK
  BY DEF IInv
<1>2. QED BY <1>1, IInvHolds, PTL

\* _entries and _trajectories agree after every insert.
THEOREM TableAgrees == Spec => []TableMatchesEntries
<1>1. IInv => TableMatchesEntries
  BY DEF IInv
<1>2. QED BY <1>1, IInvHolds, PTL

\* The frontier is bounded by max_size and drops only from a full frontier.
THEOREM BoundedAndFull == Spec => []FullWhenDropping
<1>1. IInv => FullWhenDropping
  BY DEF IInv
<1>2. QED BY <1>1, IInvHolds, PTL

\* The greedy trim of each insert keeps the best trajectories ever offered.
THEOREM GreedyTrimIsTopK == Spec => []RetainsTheBest
<1>1. IInv => RetainsTheBest
  BY DEF IInv
<1>2. QED BY <1>1, IInvHolds, PTL

-----------------------------------------------------------------------------
(* Refinement of TopTrajectories. *)

\* A Store offers one entry, under the mapping offers <- entries and dropped.
LEMMA StoreOffers ==
  ASSUME IInv, NEW e, NEW old, Storable(e, old), Store(e, old)
  PROVE  \E o \in (entries \cup dropped)' :
            (entries \cup dropped)' = {x \in entries \cup dropped : x.id # o.id} \cup {o}
<1>1. entries' \subseteq (entries \ old) \cup {e}
  BY StoreClips
<1>2. (entries \cup dropped)' = ((entries \ old) \cup {e}) \cup {d \in dropped : d.id # e.id}
  BY <1>1 DEF Store
<1>3. entries \ old = {x \in entries : x.id # e.id}
  BY DEF Storable
<1>4. QED BY <1>2, <1>3

\* The instance reads the ranking as this module does.
LEMMA PromiseBestOf ==
  ASSUME NEW S, NEW k
  PROVE  /\ Promise!BestOf(S, k) = BestOf(S, k)
         /\ Promise!Cardinality(S) = Cardinality(S)
<1>1. \A T : Promise!Cardinality(T) = Cardinality(T)
  BY DEF Promise!Cardinality, Cardinality
<1>2. \A e, f : Promise!Outranks(f, e) <=> Outranks(f, e)
  BY DEF Promise!Outranks, Outranks, Promise!RetentionScore, RetentionScore
<1>3. \A e : {f \in S : Promise!Outranks(f, e)} = {f \in S : Outranks(f, e)}
  BY <1>2
<1>4. QED
  BY <1>1, <1>3 DEF Promise!BestOf, BestOf

\* Every insert is an offer of the abstract frontier: an exact one until a retained
\* trajectory was demoted, and a mere containment from then on.
LEMMA NextRefinesPromise == IInv /\ IInv' /\ [Next]_vars => [Promise!Next]_(Promise!vars)
<1> SUFFICES ASSUME IInv, IInv', [Next]_vars PROVE [Promise!Next]_(Promise!vars)
  OBVIOUS
<1>1. CASE UNCHANGED vars
  BY <1>1 DEF vars, Promise!vars
<1>2. CASE Next
  <2>1. PICK e, old : Storable(e, old) /\ Store(e, old)
    BY <1>2, InsertNewIsStorable, ReinsertIsStorable DEF Next, InsertNew, Reinsert
  <2>2. Promise!Offered
    BY <2>1, StoreOffers DEF Promise!Offered
  <2>3. demoted => demoted'
    BY <1>2 DEF Next, InsertNew, Reinsert
  <2>4. CASE demoted'
    <3>1. entries' \subseteq (entries \cup dropped)' /\ Cardinality(entries') =< MaxSize
      BY DEF IInv, FullWhenDropping
    <3>2. QED BY <2>2, <2>4, <3>1, PromiseBestOf DEF Promise!Next, Promise!OfferAfterDemotion
  <2>5. CASE ~ demoted'
    <3>1. MaxSize \in Nat
      BY MaxSizeIsPositive
    <3>2. /\ entries' \in SUBSET Entry /\ IsFiniteSet(entries')
          /\ dropped' \in SUBSET Entry /\ IsFiniteSet(dropped')
          /\ Cardinality(entries') =< MaxSize
          /\ dropped' # {} => Cardinality(entries') = MaxSize
          /\ \A x \in entries', d \in dropped' : Outranks(x, d)
      BY <2>5 DEF IInv, TypeOK, FullWhenDropping, RetainsTheBest
    <3>3. BestOf(entries' \cup dropped', MaxSize) = entries'
      BY <3>1, <3>2, TopIsBestOf
    <3>4. QED BY <2>2, <2>3, <2>5, <3>3, PromiseBestOf DEF Promise!Next, Promise!OfferAndKeepTheBest
  <2>6. QED BY <2>4, <2>5
<1>3. QED BY <1>1, <1>2

\* The frontier of the code implements the top-k promise, for every max_size.
THEOREM FrontierKeepsPromise == Spec => KeepsPromise
<1>1. Init => Promise!Init
  BY DEF Init, Promise!Init
<1>2. QED
  BY <1>1, IInvHolds, NextRefinesPromise, PTL DEF Spec, Promise!Spec, KeepsPromise
=============================================================================
