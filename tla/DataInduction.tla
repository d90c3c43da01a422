---------------------------- MODULE DataInduction ----------------------------
(***************************************************************************)
(* Induction over data, stated with sets.                                  *)
(*                                                                         *)
(* The induction theorems of the library take the predicate as an operator *)
(* parameter.  Here it is the set of the values that satisfy it, so that a *)
(* proof can cite them for any predicate: natural numbers, sequences, the  *)
(* values that a fold runs through.  The sequence of those values is the   *)
(* trace of the fold: a function f on 0..n, f[0] the base, and f[i] what   *)
(* the i-th element makes of f[i - 1].                                     *)
(***************************************************************************)
EXTENDS Integers, Sequences, FiniteSetsExt, FiniteSetTheorems, SequenceTheorems, TLAPS

Less == {p \in Nat \X Nat : p[1] < p[2]}

\* The order of the natural numbers has no infinite descent.
LEMMA LessIsWellFounded == IsWellFoundedOn(Less, Nat)
<1>1. Less = OpToRel(<, Nat)
  BY DEF Less, OpToRel
<1> QED
  BY <1>1, NatLessThanWellFounded

\* A set that holds 0 and the successor of each of its numbers holds them all.
LEMMA NatInduct ==
  ASSUME NEW S, 0 \in S, \A n \in Nat : n \in S => n + 1 \in S
  PROVE  Nat \subseteq S
<1> SUFFICES ASSUME Nat \ S # {} PROVE FALSE
  OBVIOUS
<1>1. PICK x \in Nat \ S : \A y \in Nat \ S : ~(<<y, x>> \in Less)
  <2>1. Nat \ S \subseteq Nat
    OBVIOUS
  <2> QED
    BY <2>1, LessIsWellFounded, WFMin
<1>2. x \in Nat /\ x # 0 /\ x - 1 \in Nat /\ x - 1 < x /\ (x - 1) + 1 = x
  BY <1>1
<1>3. <<x - 1, x>> \in Less
  BY <1>2 DEF Less
<1>4. x - 1 \in S
  BY <1>1, <1>2, <1>3
<1> QED
  BY <1>1, <1>2, <1>4

\* The same, over the numbers up to a bound.
LEMMA IntervalInduct ==
  ASSUME NEW n \in Nat, NEW S, 0 \in S, \A i \in 1..n : i - 1 \in S => i \in S
  PROVE  0..n \subseteq S
<1> DEFINE Q == {k \in Nat : k =< n => k \in S}
<1>1. 0 \in Q
  OBVIOUS
<1>2. ASSUME NEW k \in Nat, k \in Q PROVE k + 1 \in Q
  <2> SUFFICES ASSUME k + 1 =< n PROVE k + 1 \in S
    OBVIOUS
  <2>1. k \in S
    BY <1>2
  <2>2. k + 1 \in 1..n /\ (k + 1) - 1 = k
    OBVIOUS
  <2> QED
    BY <2>1, <2>2
<1>3. Nat \subseteq Q
  <2> HIDE DEF Q
  <2> QED
    BY <1>1, <1>2, NatInduct
<1> QED
  BY <1>3

\* A set of sequences that holds the empty one and every extension of each of its
\* elements by one value holds them all.
LEMMA SeqInduct ==
  ASSUME NEW E, NEW S, << >> \in S,
         \A s \in Seq(E) : s \in S => \A e \in E : Append(s, e) \in S
  PROVE  Seq(E) \subseteq S
<1> DEFINE Q == {k \in Nat : \A s \in Seq(E) : Len(s) = k => s \in S}
<1>1. 0 \in Q
  <2> SUFFICES ASSUME NEW s \in Seq(E), Len(s) = 0 PROVE s \in S
    OBVIOUS
  <2>1. s = << >>
    BY EmptySeq
  <2> QED
    BY <2>1
<1>2. ASSUME NEW k \in Nat, k \in Q PROVE k + 1 \in Q
  <2> SUFFICES ASSUME NEW s \in Seq(E), Len(s) = k + 1 PROVE s \in S
    OBVIOUS
  <2> DEFINE front == SubSeq(s, 1, k)
  <2>1. /\ front \in Seq(E) /\ Len(front) = k
        /\ \A i \in 1..k : front[i] = s[i]
        /\ s[k + 1] \in E
    OBVIOUS
  <2>2. s = Append(front, s[k + 1])
    <3>1. Append(front, s[k + 1]) \in Seq(E) /\ Len(Append(front, s[k + 1])) = Len(s)
      BY <2>1
    <3>2. \A i \in 1..Len(s) : Append(front, s[k + 1])[i] = s[i]
      BY <2>1
    <3> QED
      BY <3>1, <3>2, SeqEqual
  <2>3. front \in S
    BY <2>1, <1>2
  <2> QED
    BY <2>1, <2>2, <2>3
<1>3. Nat \subseteq Q
  <2> HIDE DEF Q
  <2> QED
    BY <1>1, <1>2, NatInduct
<1> QED
  BY <1>3, LenProperties

-----------------------------------------------------------------------------
(* Traces. *)

\* A function on an interval is a sequence.
LEMMA FunctionIsSeq ==
  ASSUME NEW S, NEW n \in Nat, NEW s \in [1..n -> S]
  PROVE  s \in Seq(S) /\ Len(s) = n
BY SeqDef

\* What holds of the base and is preserved by every element holds of the trace.
LEMMA TraceInvariant ==
  ASSUME NEW n \in Nat, NEW f, NEW T, f[0] \in T,
         \A i \in 1..n : f[i - 1] \in T => f[i] \in T
  PROVE  \A i \in 0..n : f[i] \in T
<1> DEFINE S == {i \in 0..n : f[i] \in T}
<1>1. 0 \in S
  OBVIOUS
<1>2. \A i \in 1..n : i - 1 \in S => i \in S
  OBVIOUS
<1>3. 0..n \subseteq S
  <2> HIDE DEF S
  <2> QED
    BY <1>1, <1>2, IntervalInduct
<1> QED
  BY <1>3

\* Two traces with the same base and the same steps are the same.
LEMMA TracesAgree ==
  ASSUME NEW n \in Nat, NEW f, NEW g, f[0] = g[0],
         \A i \in 1..n : f[i - 1] = g[i - 1] => f[i] = g[i]
  PROVE  \A i \in 0..n : f[i] = g[i]
<1> DEFINE S == {i \in 0..n : f[i] = g[i]}
<1>1. 0 \in S
  OBVIOUS
<1>2. \A i \in 1..n : i - 1 \in S => i \in S
  OBVIOUS
<1>3. 0..n \subseteq S
  <2> HIDE DEF S
  <2> QED
    BY <1>1, <1>2, IntervalInduct
<1> QED
  BY <1>3

-----------------------------------------------------------------------------
(* Folds from the left, which the library defines by recursion over the     *)
(* sets of indices, the greatest index last.                                *)

\* The greatest element of a nonempty set of indices.
LEMMA MaxOfIndices ==
  ASSUME NEW n \in Nat, NEW S \in SUBSET (1..n), S # {}
  PROVE  Max(S) \in S /\ \A i \in S : i =< Max(S)
<1> DEFINE Q == {k \in Nat : \A R \in SUBSET (1..k) :
                   R # {} => \E x \in R : \A y \in R : x >= y}
<1>1. 0 \in Q
  <2>1. 1..0 = {}
    OBVIOUS
  <2> QED
    BY <2>1
<1>2. ASSUME NEW k \in Nat, k \in Q PROVE k + 1 \in Q
  <2> SUFFICES ASSUME NEW R \in SUBSET (1..(k + 1)), R # {}
               PROVE  \E x \in R : \A y \in R : x >= y
    OBVIOUS
  <2>1. CASE k + 1 \in R
    BY <2>1
  <2>2. CASE k + 1 \notin R
    <3>1. R \in SUBSET (1..k)
      BY <2>2
    <3> QED
      BY <3>1, <1>2
  <2> QED
    BY <2>1, <2>2
<1>3. Nat \subseteq Q
  <2> HIDE DEF Q
  <2> QED
    BY <1>1, <1>2, NatInduct
<1>4. \E x \in S : \A y \in S : x >= y
  BY <1>3
<1>5. Max(S) \in S /\ \A y \in S : Max(S) >= y
  BY <1>4 DEF Max
<1> QED
  BY <1>5

\* The greatest index of an initial segment, and what is left without it.
LEMMA MaxOfInterval ==
  ASSUME NEW n \in Nat, n # 0
  PROVE  Max(1..n) = n /\ (1..n) \ {n} = 1..(n - 1)
<1>1. 1..n \in SUBSET (1..n) /\ n \in 1..n
  OBVIOUS
<1>2. Max(1..n) \in 1..n /\ \A i \in 1..n : i =< Max(1..n)
  BY <1>1, MaxOfIndices
<1> QED
  BY <1>1, <1>2

\* The steps of a fold over n elements that keep its value in T, the functions that
\* solve its recursion, and its trace.
Steps(n, T) == [1..n -> [T -> T]]

Solves(g, n, T, b, step) ==
  /\ g \in [SUBSET (1..n) -> T]
  /\ \A S \in SUBSET (1..n) :
       g[S] = IF S = {} THEN b ELSE step[Max(S)][g[S \ {Max(S)}]]

SolvesWithin(g, n, T, b, step) ==
  /\ g[{}] = b
  /\ \A S \in SUBSET (1..n) :
       S # {} /\ g[S \ {Max(S)}] \in T => g[S] = step[Max(S)][g[S \ {Max(S)}]]

IsTrace(f, n, T, b, step) ==
  /\ f \in [0..n -> T] /\ f[0] = b
  /\ \A i \in 1..n : f[i] = step[i][f[i - 1]]

\* A recursion over the sets of indices has a solution whose values are in T, when
\* the base is in T and every step maps T into T.
LEMMA FoldExists ==
  ASSUME NEW T, NEW n \in Nat, NEW b \in T, NEW step, step \in Steps(n, T)
  PROVE  \E g : Solves(g, n, T, b, step)
<1> DEFINE Q == {k \in 0..n : \E g : Solves(g, k, T, b, step)}
<1> USE DEF Steps
<1>1. 0 \in Q
  <2> DEFINE g == [S \in SUBSET (1..0) |-> b]
  <2>1. SUBSET (1..0) = {{}}
    OBVIOUS
  <2>2. Solves(g, 0, T, b, step)
    BY <2>1 DEF Solves
  <2>3. 0 \in 0..n
    OBVIOUS
  <2> QED
    BY <2>2, <2>3
<1>2. ASSUME NEW k \in 1..n, k - 1 \in Q PROVE k \in Q
  <2>1. PICK g : Solves(g, k - 1, T, b, step)
    BY <1>2
  <2> DEFINE h == [S \in SUBSET (1..k) |->
                     IF k \in S THEN step[k][g[S \ {k}]] ELSE g[S]]
  <2>2. \A S \in SUBSET (1..k) : S \ {k} \in SUBSET (1..(k - 1))
    OBVIOUS
  <2>3. \A S \in SUBSET (1..k) : k \notin S => S \in SUBSET (1..(k - 1))
    OBVIOUS
  <2>4. h \in [SUBSET (1..k) -> T]
    BY <2>1, <2>2, <2>3 DEF Solves
  <2>5. ASSUME NEW S \in SUBSET (1..k)
        PROVE  h[S] = IF S = {} THEN b ELSE step[Max(S)][h[S \ {Max(S)}]]
    <3>1. CASE S = {}
      BY <3>1, <2>1 DEF Solves
    <3>2. CASE S # {} /\ k \in S
      <4>1. Max(S) = k
        <5>1. k \in Nat
          OBVIOUS
        <5>2. Max(S) \in S /\ \A i \in S : i =< Max(S)
          <6> HIDE DEF h
          <6> QED
            BY <3>2, <5>1, MaxOfIndices
        <5>3. Max(S) \in 1..k /\ k =< Max(S)
          BY <5>2, <3>2
        <5> QED
          BY <5>1, <5>3
      <4>2. h[S \ {k}] = g[S \ {k}]
        BY <2>2
      <4> QED
        BY <4>1, <4>2, <3>2
    <3>3. CASE S # {} /\ k \notin S
      <4>1. S \in SUBSET (1..(k - 1)) /\ k - 1 \in Nat
        BY <2>3, <3>3
      <4>2. Max(S) \in S
        BY <4>1, <3>3, MaxOfIndices
      <4>3. h[S] = g[S] /\ h[S \ {Max(S)}] = g[S \ {Max(S)}]
        BY <3>3
      <4>4. g[S] = step[Max(S)][g[S \ {Max(S)}]]
        BY <2>1, <4>1, <3>3 DEF Solves
      <4> QED
        BY <4>3, <4>4, <3>3
    <3> QED
      BY <3>1, <3>2, <3>3
  <2>6. Solves(h, k, T, b, step)
    BY <2>4, <2>5 DEF Solves
  <2>7. k \in 0..n
    OBVIOUS
  <2> HIDE DEF h
  <2> QED
    BY <2>6, <2>7
<1>3. 0..n \subseteq Q
  <2> HIDE DEF Q
  <2> QED
    BY <1>1, <1>2, IntervalInduct
<1>4. n \in Q
  <2> HIDE DEF Q
  <2> QED
    BY <1>3
<1> QED
  BY <1>4

\* Whoever solves the recursion runs through a trace of the steps.
LEMMA FoldTrace ==
  ASSUME NEW T, NEW n \in Nat, NEW b \in T, NEW step, step \in Steps(n, T), NEW iter,
         SolvesWithin(iter, n, T, b, step)
  PROVE  \E f : IsTrace(f, n, T, b, step) /\ f[n] = iter[1..n]
<1> DEFINE f == [i \in 0..n |-> iter[1..i]]
<1> USE DEF Steps, SolvesWithin
<1>1. f[0] = b
  <2>1. 1..0 = {} /\ 0 \in 0..n
    OBVIOUS
  <2> QED
    BY <2>1
<1>2. ASSUME NEW i \in 1..n, f[i - 1] \in T PROVE f[i] = step[i][f[i - 1]]
  <2>1. Max(1..i) = i /\ (1..i) \ {i} = 1..(i - 1)
    BY MaxOfInterval
  <2>2. 1..i \in SUBSET (1..n) /\ i \in 1..i /\ i \in 0..n /\ i - 1 \in 0..n
    OBVIOUS
  <2>3. f[i - 1] = iter[1..(i - 1)] /\ f[i] = iter[1..i]
    BY <2>2
  <2> DEFINE S == 1..i
  <2>4. S \in SUBSET (1..n) /\ S # {} /\ iter[S \ {Max(S)}] \in T
    BY <1>2, <2>1, <2>2, <2>3
  <2>5. iter[S] = step[Max(S)][iter[S \ {Max(S)}]]
    <3> HIDE DEF S
    <3> QED
      BY <2>4
  <2> QED
    BY <2>1, <2>3, <2>5
<1>3. \A i \in 0..n : f[i] \in T
  <2>1. \A i \in 1..n : f[i - 1] \in T => f[i] \in T
    <3> HIDE DEF f
    <3> QED
      BY <1>2
  <2> HIDE DEF f
  <2> QED
    BY <1>1, <2>1, TraceInvariant
<1>4. \A i \in 1..n : f[i] = step[i][f[i - 1]]
  <2>1. \A i \in 1..n : i - 1 \in 0..n
    OBVIOUS
  <2> HIDE DEF f
  <2> QED
    BY <2>1, <1>2, <1>3
<1>5. f \in [0..n -> T] /\ f[n] = iter[1..n]
  BY <1>3
<1>6. IsTrace(f, n, T, b, step)
  <2> HIDE DEF f
  <2> QED
    BY <1>1, <1>4, <1>5 DEF IsTrace
<1> QED
  BY <1>5, <1>6

-----------------------------------------------------------------------------
(* Maxima. *)

\* A set of integers that is bounded above has a maximum.
LEMMA BoundedMax ==
  ASSUME NEW S \in SUBSET Int, S # {}, NEW bound \in Int, \A x \in S : x =< bound
  PROVE  Max(S) \in S /\ Max(S) \in Int /\ \A x \in S : x =< Max(S)
<1> DEFINE below == {k \in Nat : bound - k \in S}
<1>1. \A x \in S : bound - x \in below
  <2> SUFFICES ASSUME NEW x \in S PROVE bound - x \in below
    OBVIOUS
  <2>1. x \in Int /\ bound - x \in Nat /\ bound - (bound - x) = x
    OBVIOUS
  <2> QED
    BY <2>1
<1>2. PICK k \in below : \A j \in below : ~(<<j, k>> \in Less)
  <2>1. below \subseteq Nat /\ below # {}
    BY <1>1
  <2> HIDE DEF below
  <2> QED
    BY <2>1, LessIsWellFounded, WFMin
<1>3. bound - k \in S /\ k \in Nat
  BY <1>2
<1>4. \A x \in S : bound - k >= x
  <2> SUFFICES ASSUME NEW x \in S PROVE bound - k >= x
    OBVIOUS
  <2>1. x \in Int /\ bound - x \in Nat /\ bound - x \in below
    BY <1>1
  <2>2. ~(bound - x < k)
    BY <1>2, <1>3, <2>1 DEF Less
  <2> QED
    BY <1>3, <2>1, <2>2
<1>5. Max(S) \in S /\ \A x \in S : Max(S) >= x
  BY <1>3, <1>4 DEF Max
<1> QED
  BY <1>5

\* A set of natural numbers has a minimum.
LEMMA LeastNumber ==
  ASSUME NEW S \in SUBSET Nat, S # {}
  PROVE  Min(S) \in S /\ \A x \in S : Min(S) =< x
<1>1. PICK k \in S : \A j \in S : ~(<<j, k>> \in Less)
  BY LessIsWellFounded, WFMin
<1>2. ASSUME NEW x \in S PROVE k =< x
  <2>1. x \in Nat /\ k \in Nat /\ <<x, k>> \notin Less
    BY <1>1
  <2>2. ~(x < k)
    BY <2>1 DEF Less
  <2> QED
    BY <2>1, <2>2
<1> QED
  BY <1>1, <1>2 DEF Min

\* The minimum of two integers.
LEMMA MinOfTwo ==
  ASSUME NEW x \in Int, NEW y \in Int
  PROVE  Min({x, y}) = IF x =< y THEN x ELSE y
<1> DEFINE m == IF x =< y THEN x ELSE y
<1>1. m \in {x, y} /\ \A z \in {x, y} : m =< z
  OBVIOUS
<1>2. \A j \in {x, y} : (\A z \in {x, y} : j =< z) => j = m
  OBVIOUS
<1> HIDE DEF m
<1>3. Min({x, y}) = m
  BY <1>1, <1>2 DEF Min
<1> QED
  BY <1>3 DEF m

\* The maximum of two integers.
LEMMA MaxOfTwo ==
  ASSUME NEW x \in Int, NEW y \in Int
  PROVE  Max({x, y}) = IF x >= y THEN x ELSE y
<1> DEFINE m == IF x >= y THEN x ELSE y
<1>1. m \in {x, y} /\ \A z \in {x, y} : m >= z
  OBVIOUS
<1>2. \A j \in {x, y} : (\A z \in {x, y} : j >= z) => j = m
  OBVIOUS
<1> HIDE DEF m
<1>3. Max({x, y}) = m
  BY <1>1, <1>2 DEF Max
<1> QED
  BY <1>3 DEF m

\* A finite set of integers is bounded above.
LEMMA FiniteIsBounded ==
  ASSUME NEW S \in SUBSET Int, IsFiniteSet(S)
  PROVE  \E bound \in Int : \A x \in S : x =< bound
<1> DEFINE Q == {k \in Nat : \A R \in SUBSET Int :
                   IsFiniteSet(R) /\ Cardinality(R) = k => \E bound \in Int : \A x \in R : x =< bound}
<1>1. 0 \in Q
  <2> SUFFICES ASSUME NEW R \in SUBSET Int, IsFiniteSet(R), Cardinality(R) = 0
               PROVE  \E bound \in Int : \A x \in R : x =< bound
    OBVIOUS
  <2>1. R = {} /\ 0 \in Int
    BY FS_EmptySet
  <2> QED
    BY <2>1
<1>2. ASSUME NEW k \in Nat, k \in Q PROVE k + 1 \in Q
  <2> SUFFICES ASSUME NEW R \in SUBSET Int, IsFiniteSet(R), Cardinality(R) = k + 1
               PROVE  \E bound \in Int : \A x \in R : x =< bound
    OBVIOUS
  <2>1. PICK y : y \in R
    <3>1. k + 1 # 0
      OBVIOUS
    <3> QED
      BY <3>1, FS_EmptySet
  <2>2. IsFiniteSet(R \ {y}) /\ Cardinality(R \ {y}) = k
    <3>1. Cardinality(R \ {y}) = Cardinality(R) - 1 /\ IsFiniteSet(R \ {y})
      BY <2>1, FS_RemoveElement
    <3> QED
      BY <3>1
  <2>3. PICK bound \in Int : \A x \in R \ {y} : x =< bound
    BY <1>2, <2>2
  <2> DEFINE larger == IF y =< bound THEN bound ELSE y
  <2>4. larger \in Int /\ y =< larger /\ bound =< larger
    BY <2>1
  <2> HIDE DEF larger
  <2>5. \A x \in R : x =< larger
    <3> SUFFICES ASSUME NEW x \in R PROVE x =< larger
      OBVIOUS
    <3>1. CASE x = y
      BY <2>4, <3>1
    <3>2. CASE x # y
      <4>1. x \in Int /\ x =< bound
        BY <2>3, <3>2
      <4> QED
        BY <2>4, <4>1
    <3> QED
      BY <3>1, <3>2
  <2> QED
    BY <2>4, <2>5
<1>3. Nat \subseteq Q
  <2> HIDE DEF Q
  <2> QED
    BY <1>1, <1>2, NatInduct
<1>4. Cardinality(S) \in Nat
  BY FS_CardinalityType
<1> QED
  BY <1>3, <1>4

\* A finite set of integers has a maximum.
LEMMA FiniteMax ==
  ASSUME NEW S \in SUBSET Int, IsFiniteSet(S), S # {}
  PROVE  Max(S) \in S /\ Max(S) \in Int /\ \A x \in S : x =< Max(S)
<1>1. PICK bound \in Int : \A x \in S : x =< bound
  BY FiniteIsBounded
<1> QED
  BY <1>1, BoundedMax

\* The values of a function on a finite set are finitely many.
LEMMA FiniteImage ==
  ASSUME NEW S, IsFiniteSet(S), NEW f, DOMAIN f = S, f = [x \in S |-> f[x]]
  PROVE  IsFiniteSet({f[x] : x \in S})
<1> DEFINE T == {f[x] : x \in S}
<1>1. f \in Surjection(S, T)
  BY DEF Surjection
<1> QED
  BY <1>1, FS_Surjection

-----------------------------------------------------------------------------
(* Sums over finite sets, which the library defines by a recursion that     *)
(* takes the elements out one by one, in an order of its own choice.        *)

AnyOf(R) == CHOOSE x \in R : TRUE

\* The function g holds, for each subset of D, the sum of f over it.
Adds(g, f, D) ==
  /\ g \in [SUBSET D -> Nat]
  /\ \A R \in SUBSET D : g[R] = IF R = {} THEN 0 ELSE g[R \ {AnyOf(R)}] + f[AnyOf(R)]

\* A set without one of its elements.
LEMMA OneElementLess ==
  ASSUME NEW R, IsFiniteSet(R), NEW x \in R
  PROVE  /\ IsFiniteSet(R \ {x})
         /\ Cardinality(R) \in Nat \ {0} /\ Cardinality(R \ {x}) = Cardinality(R) - 1
<1>1. Cardinality(R \ {x}) = Cardinality(R) - 1 /\ IsFiniteSet(R \ {x})
  BY FS_RemoveElement
<1>2. Cardinality(R) \in Nat /\ Cardinality(R) # 0
  BY FS_CardinalityType, FS_EmptySet
<1> QED
  BY <1>1, <1>2

\* The sums of numbers exist.
LEMMA SumsExist ==
  ASSUME NEW D, IsFiniteSet(D), NEW f \in [D -> Nat]
  PROVE  \E g : Adds(g, f, D)
<1> DEFINE Small(k) == {R \in SUBSET D : Cardinality(R) =< k}
           AddsUpTo(g, k) ==
             /\ g \in [SUBSET D -> Nat]
             /\ \A R \in Small(k) : g[R] = IF R = {} THEN 0 ELSE g[R \ {AnyOf(R)}] + f[AnyOf(R)]
           Q == {k \in Nat : \E g : AddsUpTo(g, k)}
<1>1. ASSUME NEW R \in SUBSET D, R # {}
      PROVE  /\ AnyOf(R) \in R /\ AnyOf(R) \in D /\ f[AnyOf(R)] \in Nat
             /\ R \ {AnyOf(R)} \in SUBSET D
             /\ Cardinality(R) \in Nat \ {0} /\ Cardinality(R \ {AnyOf(R)}) = Cardinality(R) - 1
  <2>1. AnyOf(R) \in R
    BY <1>1 DEF AnyOf
  <2>2. IsFiniteSet(R)
    BY FS_Subset
  <2> QED
    BY <2>1, <2>2, OneElementLess
<1>2. Cardinality({}) = 0 /\ \A R \in SUBSET D : Cardinality(R) \in Nat
  BY FS_EmptySet, FS_CardinalityType, FS_Subset
<1>3. 0 \in Q
  <2> DEFINE g == [R \in SUBSET D |-> 0]
  <2>1. ASSUME NEW R \in Small(0) PROVE R = {}
    <3>1. R \in SUBSET D /\ ~(Cardinality(R) \in Nat \ {0})
      OBVIOUS
    <3> HIDE DEF Small
    <3> QED
      BY <1>1, <3>1
  <2>2. AddsUpTo(g, 0)
    BY <2>1
  <2> QED
    BY <2>2
<1>4. ASSUME NEW k \in Nat, k \in Q PROVE k + 1 \in Q
  <2>1. PICK g : AddsUpTo(g, k)
    BY <1>4
  <2> DEFINE h == [R \in SUBSET D |->
                     IF Cardinality(R) = k + 1 THEN g[R \ {AnyOf(R)}] + f[AnyOf(R)] ELSE g[R]]
  <2>2. ASSUME NEW R \in SUBSET D
        PROVE  h[R] \in Nat
    <3>1. CASE Cardinality(R) = k + 1
      <4>1. R # {}
        BY <1>2, <3>1
      <4> QED
        BY <1>1, <2>1, <3>1, <4>1
    <3>2. CASE Cardinality(R) # k + 1
      BY <2>1, <3>2
    <3> QED
      BY <3>1, <3>2
  <2>3. h \in [SUBSET D -> Nat]
    BY <2>2
  <2>4. ASSUME NEW R \in Small(k + 1)
        PROVE  h[R] = IF R = {} THEN 0 ELSE h[R \ {AnyOf(R)}] + f[AnyOf(R)]
    <3>1. CASE R = {}
      <4>1. Cardinality(R) # k + 1 /\ R \in Small(k)
        BY <1>2, <3>1
      <4> QED
        BY <2>1, <3>1, <4>1
    <3>2. CASE R # {}
      <4> DEFINE S == R \ {AnyOf(R)}
      <4>1. S \in SUBSET D /\ Cardinality(S) # k + 1
        BY <1>1, <3>2
      <4>2. h[S] = g[S]
        BY <4>1
      <4>3. CASE Cardinality(R) = k + 1
        BY <3>2, <4>2, <4>3
      <4>4. CASE Cardinality(R) # k + 1
        <5>1. R \in Small(k)
          BY <1>2, <4>4
        <5>2. g[R] = g[S] + f[AnyOf(R)]
          BY <2>1, <3>2, <5>1
        <5>3. h[R] = g[R]
          BY <4>4
        <5> QED
          BY <3>2, <4>2, <5>2, <5>3
      <4> QED
        BY <4>3, <4>4
    <3> QED
      BY <3>1, <3>2
  <2>5. AddsUpTo(h, k + 1)
    <3> HIDE DEF h
    <3> QED
      BY <2>3, <2>4
  <2> HIDE DEF h, AddsUpTo
  <2> QED
    BY <2>5
<1>5. Nat \subseteq Q
  <2> HIDE DEF Q
  <2> QED
    BY <1>3, <1>4, NatInduct
<1>6. Cardinality(D) \in Nat
  BY FS_CardinalityType
<1>7. PICK g : AddsUpTo(g, Cardinality(D))
  BY <1>5, <1>6
<1>8. \A R \in SUBSET D : R \in Small(Cardinality(D))
  BY FS_Subset
<1> QED
  BY <1>7, <1>8 DEF Adds

TakesOut(g, f, R, x) == g[R] = g[R \ {x}] + f[x]

\* The order does not matter: any element can be taken out first.
LEMMA AddsInAnyOrder ==
  ASSUME NEW D, IsFiniteSet(D), NEW f \in [D -> Nat], NEW g, Adds(g, f, D),
         NEW R, R \subseteq D, NEW x, x \in R
  PROVE  TakesOut(g, f, R, x)
<1> DEFINE Q == {k \in Nat : \A S \in SUBSET D : Cardinality(S) = k =>
                   \A y \in S : g[S] = g[S \ {y}] + f[y]}
<1>1. \A S \in SUBSET D : IsFiniteSet(S)
  BY FS_Subset
<1>2. 0 \in Q
  BY <1>1, FS_EmptySet
<1>3. ASSUME NEW k \in Nat, k \in Q PROVE k + 1 \in Q
  <2> SUFFICES ASSUME NEW S \in SUBSET D, Cardinality(S) = k + 1, NEW y \in S
               PROVE  g[S] = g[S \ {y}] + f[y]
    OBVIOUS
  <2> DEFINE z == AnyOf(S)
  <2>1. z \in S /\ g[S] = g[S \ {z}] + f[z]
    BY DEF Adds, AnyOf
  <2> HIDE DEF z
  <2>2. CASE z = y
    BY <2>1, <2>2
  <2>3. CASE z # y
    <3>1. /\ Cardinality(S \ {z}) = k /\ Cardinality(S \ {y}) = k
      BY <1>1, <2>1, OneElementLess
    <3>2. S \ {z} \in SUBSET D /\ S \ {y} \in SUBSET D /\ y \in S \ {z} /\ z \in S \ {y}
      BY <2>1, <2>3
    <3>3. g[S \ {z}] = g[(S \ {z}) \ {y}] + f[y] /\ g[S \ {y}] = g[(S \ {y}) \ {z}] + f[z]
      BY <1>3, <3>1, <3>2
    <3>4. (S \ {z}) \ {y} = (S \ {y}) \ {z}
      OBVIOUS
    <3> DEFINE rest == g[(S \ {y}) \ {z}]
    <3>5. rest \in Nat /\ f[y] \in Nat /\ f[z] \in Nat
      BY <2>1 DEF Adds
    <3>6. g[S] = (rest + f[y]) + f[z] /\ g[S \ {y}] = rest + f[z]
      BY <2>1, <3>3, <3>4
    <3> HIDE DEF rest
    <3> QED
      BY <3>5, <3>6
  <2> QED
    BY <2>2, <2>3
<1>4. Nat \subseteq Q
  <2> HIDE DEF Q
  <2> QED
    BY <1>2, <1>3, NatInduct
<1>5. Cardinality(R) \in Nat
  BY <1>1, FS_CardinalityType
<1> QED
  BY <1>4, <1>5 DEF TakesOut

\* Sums of the same numbers are the same.
LEMMA SumsAgree ==
  ASSUME NEW D, NEW f \in [D -> Nat], NEW g, Adds(g, f, D),
         NEW E, NEW h \in [E -> Nat], NEW j, Adds(j, h, E),
         NEW R, IsFiniteSet(R), R \subseteq D, R \subseteq E, \A x \in R : f[x] = h[x]
  PROVE  g[R] = j[R]
<1> DEFINE Q == {k \in Nat : \A S \in SUBSET R : Cardinality(S) = k => g[S] = j[S]}
<1>1. \A S \in SUBSET R : IsFiniteSet(S)
  BY FS_Subset
<1>2. 0 \in Q
  <2> SUFFICES ASSUME NEW S \in SUBSET R, Cardinality(S) = 0 PROVE g[S] = j[S]
    OBVIOUS
  <2>1. S = {}
    BY <1>1, FS_EmptySet
  <2> QED
    BY <2>1 DEF Adds
<1>3. ASSUME NEW k \in Nat, k \in Q PROVE k + 1 \in Q
  <2> SUFFICES ASSUME NEW S \in SUBSET R, Cardinality(S) = k + 1 PROVE g[S] = j[S]
    OBVIOUS
  <2> DEFINE z == AnyOf(S)
  <2>1. S # {}
    <3>1. Cardinality(S) # 0
      OBVIOUS
    <3> QED
      BY <3>1, FS_EmptySet
  <2>2. z \in S
    BY <2>1 DEF AnyOf
  <2>3. g[S] = g[S \ {z}] + f[z] /\ j[S] = j[S \ {z}] + h[z]
    BY <2>1 DEF Adds
  <2> HIDE DEF z
  <2>4. Cardinality(S \ {z}) = k /\ S \ {z} \in SUBSET R
    BY <1>1, <2>2, OneElementLess
  <2>5. g[S \ {z}] = j[S \ {z}]
    BY <1>3, <2>4
  <2> QED
    BY <2>2, <2>3, <2>5
<1>4. Nat \subseteq Q
  <2> HIDE DEF Q
  <2> QED
    BY <1>2, <1>3, NatInduct
<1>5. Cardinality(R) \in Nat
  BY FS_CardinalityType
<1> QED
  BY <1>4, <1>5

\* Sums of numbers are numbers.
LEMMA SumsAreNumbers ==
  ASSUME NEW D, IsFiniteSet(D), NEW f \in [D -> Nat], NEW g,
         \A R \in SUBSET D : g[R] = IF R = {} THEN 0 ELSE g[R \ {AnyOf(R)}] + f[AnyOf(R)]
  PROVE  \A R \in SUBSET D : g[R] \in Nat
<1> DEFINE Q == {k \in Nat : \A R \in SUBSET D : Cardinality(R) = k => g[R] \in Nat}
<1>1. \A R \in SUBSET D : IsFiniteSet(R)
  BY FS_Subset
<1>2. 0 \in Q
  <2> SUFFICES ASSUME NEW R \in SUBSET D, Cardinality(R) = 0 PROVE g[R] \in Nat
    OBVIOUS
  <2>1. R = {}
    BY <1>1, FS_EmptySet
  <2> QED
    BY <2>1
<1>3. ASSUME NEW k \in Nat, k \in Q PROVE k + 1 \in Q
  <2> SUFFICES ASSUME NEW R \in SUBSET D, Cardinality(R) = k + 1 PROVE g[R] \in Nat
    OBVIOUS
  <2>1. R # {}
    <3>1. Cardinality(R) # 0
      OBVIOUS
    <3> QED
      BY <3>1, FS_EmptySet
  <2>2. AnyOf(R) \in R
    BY <2>1 DEF AnyOf
  <2>3. Cardinality(R \ {AnyOf(R)}) = k /\ R \ {AnyOf(R)} \in SUBSET D
    BY <1>1, <2>2, OneElementLess
  <2>4. g[R \ {AnyOf(R)}] \in Nat /\ f[AnyOf(R)] \in Nat
    BY <1>3, <2>2, <2>3
  <2> QED
    BY <2>1, <2>4
<1>4. Nat \subseteq Q
  <2> HIDE DEF Q
  <2> QED
    BY <1>2, <1>3, NatInduct
<1> QED
  BY <1>1, <1>4, FS_CardinalityType

\* One more unit at one place adds one to the sum.
AddsOne(j, g, D, x) == j[D \cup {x}] = g[D] + 1

LEMMA OneMoreUnit ==
  ASSUME NEW D, IsFiniteSet(D), NEW f \in [D -> Nat], NEW g, Adds(g, f, D), NEW x,
         NEW h \in [D \cup {x} -> Nat],
         \A y \in D \cup {x} : h[y] = (IF y \in D THEN f[y] ELSE 0) + (IF y = x THEN 1 ELSE 0),
         NEW j, Adds(j, h, D \cup {x})
  PROVE  AddsOne(j, g, D, x)
<1> DEFINE E == D \cup {x}
           rest == D \ {x}
<1>1. IsFiniteSet(E) /\ IsFiniteSet(rest) /\ E \subseteq E /\ x \in E /\ E \ {x} = rest
  BY FS_AddElement, FS_Subset
<1>2. h \in [E -> Nat]
  OBVIOUS
<1>3. rest \subseteq D /\ rest \subseteq E /\ \A y \in rest : f[y] = h[y]
  OBVIOUS
<1>4. h[x] = (IF x \in D THEN f[x] ELSE 0) + 1
  OBVIOUS
<1> HIDE DEF E, rest
<1>5. Adds(j, h, E)
  BY DEF E
<1>6. g[rest] = j[rest]
  BY <1>1, <1>2, <1>3, <1>5, SumsAgree
<1>7. j[E] = j[rest] + h[x]
  <2>1. TakesOut(j, h, E, x)
    BY <1>1, <1>2, <1>5, AddsInAnyOrder
  <2> QED
    BY <1>1, <2>1 DEF TakesOut
<1>8. g[rest] \in Nat
  BY <1>3 DEF Adds
<1>9. g[D] = g[rest] + (IF x \in D THEN f[x] ELSE 0)
  <2>1. CASE x \in D
    <3>1. D \subseteq D
      OBVIOUS
    <3>2. TakesOut(g, f, D, x)
      BY <2>1, <3>1, AddsInAnyOrder
    <3> QED
      BY <2>1, <3>2 DEF rest, TakesOut
  <2>2. CASE x \notin D
    <3>1. rest = D
      BY <2>2 DEF rest
    <3> QED
      BY <1>8, <2>2, <3>1
  <2> QED
    BY <2>1, <2>2
<1> DEFINE n == IF x \in D THEN f[x] ELSE 0
<1>10. n \in Nat /\ h[x] = n + 1 /\ g[D] = g[rest] + n
  BY <1>4, <1>9
<1> HIDE DEF n
<1>11. j[E] = g[D] + 1
  BY <1>6, <1>7, <1>8, <1>10
<1> QED
  BY <1>11 DEF E, AddsOne

\* What a fold that adds up the numbers of h computes on the way.
SumUpTo(g, n, h) ==
  g = [S \in SUBSET (1..n) |-> IF S = {} THEN 0 ELSE g[S \ {Max(S)}] + h[Max(S)]]

\* Such a fold has a value.
LEMMA FoldedSumExists ==
  ASSUME NEW n \in Nat, NEW h \in [1..n -> Int]
  PROVE  \E g : SumUpTo(g, n, h)
<1> DEFINE step == [i \in 1..n |-> [x \in Int |-> x + h[i]]]
<1>1. step \in Steps(n, Int) /\ 0 \in Int
  BY DEF Steps
<1>2. PICK g : Solves(g, n, Int, 0, step)
  <2> HIDE DEF step
  <2> QED
    BY <1>1, FoldExists
<1>3. ASSUME NEW S \in SUBSET (1..n), S # {}
      PROVE  step[Max(S)][g[S \ {Max(S)}]] = g[S \ {Max(S)}] + h[Max(S)]
  <2>1. Max(S) \in 1..n
    BY <1>3, MaxOfIndices
  <2>2. g[S \ {Max(S)}] \in Int
    <3> HIDE DEF step
    <3> QED
      BY <1>2 DEF Solves
  <2> QED
    BY <2>1, <2>2
<1> HIDE DEF step
<1>4. SumUpTo(g, n, h)
  BY <1>2, <1>3 DEF Solves, SumUpTo
<1> QED
  BY <1>4

\* Whatever it computes is an integer.
LEMMA FoldedSumIsInt ==
  ASSUME NEW n \in Nat, NEW h \in [1..n -> Int], NEW g, SumUpTo(g, n, h)
  PROVE  g[1..n] \in Int
<1> DEFINE S == {i \in 0..n : g[1..i] \in Int}
<1>1. 0 \in S
  <2>1. 1..0 = {} /\ 0 \in 0..n
    OBVIOUS
  <2> QED
    BY <2>1 DEF SumUpTo
<1>2. ASSUME NEW i \in 1..n, i - 1 \in S PROVE i \in S
  <2>1. Max(1..i) = i /\ (1..i) \ {i} = 1..(i - 1)
    BY MaxOfInterval
  <2>2. 1..i \in SUBSET (1..n) /\ i \in 1..i /\ i \in 0..n
    OBVIOUS
  <2>3. g[1..i] = g[1..(i - 1)] + h[i]
    BY <2>1, <2>2 DEF SumUpTo
  <2> QED
    BY <1>2, <2>2, <2>3
<1>3. 0..n \subseteq S
  <2> HIDE DEF S
  <2> QED
    BY <1>1, <1>2, IntervalInduct
<1> QED
  BY <1>3

=============================================================================
