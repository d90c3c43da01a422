--------------------------- MODULE LocalWorldModel ----------------------------
(***************************************************************************)
(* policy/mar_reflector.py and types.py: what the branches of one visit    *)
(* teach about their root, and how the lesson is merged into the model of  *)
(* the root.  A model is a record                                          *)
(*   hints        accumulated_advantage_hints, by their signature          *)
(*                [prefer, avoid, points]: sets, sets, bags of actions     *)
(*   priors, antipriors   [actions -> support_count]                       *)
(*   objects              the objects of inferred_affordances              *)
(*   subgoals             discovered_subgoals, by the action to reach      *)
(*   profile      metadata.depth_progression                               *)
(* A lesson is the same without counts: the hint, and what goes with it.   *)
(* Confidences, rationales and texts are left out: they change no support. *)
(***************************************************************************)
EXTENDS BranchRanking, SequencesExt, FiniteSets

CONSTANTS
  NameOrder,     \* [actions -> Nat]: their alphabetical order
  LessonLimit    \* the lists of a lesson are cut to so many items: 4

NoLesson == [hint |-> << >>, subgoals |-> {}, objects |-> {}]

BagOf(s) == [x \in ToSet(s) |-> Cardinality({i \in DOMAIN s : s[i] = x})]

EmptyModel(profile) ==
  [hints |-> {}, priors |-> [a \in {} |-> 0], antipriors |-> [a \in {} |-> 0],
   objects |-> {}, subgoals |-> {}, profile |-> profile]

-----------------------------------------------------------------------------
(* Inference.  A branch carries the events of its steps:                   *)
(* [action, targets, paid, low].                                           *)

\* mar_reflector._branch_sort_key
LessonKey(b) == << b.progress, b.reward, b.gain, b.affordances >>

\* The first of the branches with the greatest key (the sort is stable).
BestForLesson(branches) ==
  CHOOSE i \in DOMAIN branches :
    /\ \A j \in DOMAIN branches : ~Precedes(LessonKey(branches[j]), LessonKey(branches[i]))
    /\ \A j \in 1..(i - 1) : Precedes(LessonKey(branches[i]), LessonKey(branches[j]))

ActionsOf(events) == [i \in DOMAIN events |-> events[i].action]

\* _heuristic_advantage_points
AdvantagePoints(b) ==
  LET paid == SelectSeq(b.events, LAMBDA e : e.paid)
  IN  SubSeq(paid, 1, Min({LessonLimit, Len(paid)}))

\* _dedupe_preserve_order, cut to the first that differ.
FirstDistinct(s) ==
  {s[j] : j \in {i \in DOMAIN s : Cardinality(ToSet(SubSeq(s, 1, i))) <= LessonLimit}}

\* _low_value_actions, those of the branches in `weaker` that came to nothing, the
\* most frequent first and then by name, cut to the first.
TimesLow(branches, weaker, a) ==
  Cardinality({p \in UNION {{i} \X DOMAIN branches[i].events : i \in weaker} :
                 LET e == branches[p[1]].events[p[2]] IN e.low /\ e.action = a})

LowValueActions(branches, weaker) ==
  LET all == {e.action : e \in {x \in UNION {ToSet(branches[i].events) : i \in weaker} : x.low}}
      Times(a) == TimesLow(branches, weaker, a)
      Before(a, b) == Times(a) > Times(b) \/ (Times(a) = Times(b) /\ NameOrder[a] < NameOrder[b])
  IN  {a \in all : Cardinality({b \in all : Before(b, a)}) < LessonLimit}

\* _heuristic_subgoals
SubgoalsOf(points) == ToSet(ActionsOf(SubSeq(points, 1, Min({3, Len(points)}))))

\* _heuristic_affordances
ObjectsOf(points) == UNION {p.targets : p \in ToSet(points)}

\* The action at a position, if there is one.
ActionAt(b, i) == IF i = 0 THEN << >> ELSE << b.actions[i] >>

\* _heuristic_inference, for the branches that played something.
HeuristicLesson(branches) ==
  LET best == branches[BestForLesson(branches)]
      points == AdvantagePoints(best)
      weaker == IF Len(branches) = 1 THEN {1} ELSE DOMAIN branches \ {BestForLesson(branches)}
  IN  [hint |-> << [prefer |-> FirstDistinct(ActionsOf(points) \o ActionAt(best, best.firstGain)
                                             \o ActionAt(best, best.durable)),
                    avoid |-> LowValueActions(branches, weaker),
                    points |-> BagOf(ActionsOf(points))] >>,
       subgoals |-> SubgoalsOf(points), objects |-> ObjectsOf(points)]

\* infer_advantage_hint: the lessons of one visit.  The model is asked when there is
\* something to compare; what fails, or names nothing, is replaced by the heuristic.
Lessons(branches, answers) ==
  LET played == SelectSeq(branches, LAMBDA b : b.actions # << >>)
  IN  IF played = << >> THEN {NoLesson}
      ELSE {HeuristicLesson(played)} \cup (IF Len(played) < 2 THEN {} ELSE answers)

-----------------------------------------------------------------------------
(* update_local_world_model *)

\* _merge_action_biases
Supported(counts, actions) ==
  [a \in DOMAIN counts \cup actions |->
     (IF a \in DOMAIN counts THEN counts[a] ELSE 0) + (IF a \in actions THEN 1 ELSE 0)]

\* _contains_equivalent_hint: an equivalent hint is not stored twice.
WithHint(model, hint) == [model EXCEPT !.hints = @ \cup ToSet(hint)]

\* _merge_subgoals, _merge_affordances
WithDiscoveries(model, lesson) ==
  [model EXCEPT !.subgoals = @ \cup lesson.subgoals, !.objects = @ \cup lesson.objects]

\* The actions of an equivalent hint are supported once more all the same.
Learned(model, lesson) ==
  LET prefer == UNION {h.prefer : h \in ToSet(lesson.hint)}
      avoid == UNION {h.avoid : h \in ToSet(lesson.hint)}
  IN  [WithDiscoveries(WithHint(model, lesson.hint), lesson)
         EXCEPT !.priors = Supported(@, prefer), !.antipriors = Supported(@, avoid)]
=============================================================================
