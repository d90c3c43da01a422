------------------------------- MODULE MapMemory -------------------------------
(***************************************************************************)
(* types.py: what an episode remembers of the ground it covered.           *)
(*                                                                         *)
(* ActionClusterHistory is a record                                        *)
(*   visits  cluster_visit_counts      texts  the observations seen        *)
(*   stalls  object_family_no_progress_counts                              *)
(* EpisodeMapMemory is a record                                            *)
(*   nodes   [clusters -> visits, durable, exits, explored]                *)
(*   opps    [<<kind, cluster, token>> -> base, noProgress, durable,       *)
(*            resolved], the opportunities of the regions                  *)
(* Priorities and scores are in hundredths.                                *)
(***************************************************************************)
EXTENDS StateFrontier

CONSTANTS
  StructuralTokens,  \* doors, windows, stairs...
  House,             \* the structural token that any opening action touches
  Followups,         \* actions of a follow-up verb: examine, open, read, take...
  Takes,             \* take and get
  Openings,          \* open, enter, look in, examine
  Enterings,         \* enter, climb, go in
  BulkActions, DiscardActions,
  MinOpportunityPriority,      \* policy.min_strategic_opportunity_priority
  VisitExhaustionThreshold,    \* policy.region_visit_exhaustion_threshold
  FamilyStallThreshold         \* policy.object_family_no_progress_threshold

ASSUME MapMemoryAssumption ==
  /\ Followups \cup Takes \cup Openings \cup Enterings \cup BulkActions \cup DiscardActions
       \subseteq Actions
  /\ {MinOpportunityPriority, VisitExhaustionThreshold, FamilyStallThreshold} \subseteq Nat

-----------------------------------------------------------------------------
(* ActionClusterHistory *)

EmptyClusterHistory == [visits |-> NoCounts, texts |-> {}, stalls |-> NoCounts]

\* record_state_cluster
RecordStateCluster(history, w) ==
  [history EXCEPT !.visits = Bump(@, Cluster[w]), !.texts = @ \cup {<<Cluster[w], Observation[w]>>}]

\* A durable gain of an attempt: any change of the score, or an item that was
\* neither swept up nor juggled.
AttemptPaid(a, v, w) ==
  \/ Score[v] # Score[w]
  \/ InventoryGained(v, w) /\ a \notin BulkActions \cup DiscardActions

CountEveryAttempt(history, a, v, w) ==
  [history EXCEPT !.stalls =
     [t \in DOMAIN @ \cup Targets[a] |-> Count(@, t) + (IF t \in Targets[a] THEN 1 ELSE 0)]]

\* record_attempt: the no-progress counts of the objects the action touches.
RecordAttempt(history, a, v, w) ==
  [history EXCEPT !.stalls =
     IF AttemptPaid(a, v, w) THEN [t \in DOMAIN @ \ Targets[a] |-> @[t]]
     ELSE [t \in DOMAIN @ \cup Targets[a] |-> Count(@, t) + (IF t \in Targets[a] THEN 1 ELSE 0)]]

\* exhausted_families
ExhaustedFamilies(history) ==
  {t \in DOMAIN history.stalls : FamilyStallThreshold > 0 /\ history.stalls[t] >= FamilyStallThreshold}

-----------------------------------------------------------------------------
(* EpisodeMapMemory: recording. *)

EmptyMap == [nodes |-> [c \in {} |-> 0], opps |-> [o \in {} |-> 0]]
NewNode == [visits |-> 0, durable |-> 0, exits |-> {}, explored |-> {}]
NodeOf(map, c) == IF c \in DOMAIN map.nodes THEN map.nodes[c] ELSE NewNode
WithNode(map, c, node) ==
  [d \in DOMAIN map.nodes \cup {c} |-> IF d = c THEN node ELSE map.nodes[d]]

ObjectOf(a) == CHOOSE t \in Targets[a] : TRUE

\* The opportunities a view shows.
SeenOpportunities(w) ==
  LET c == Cluster[w]
      followups == {a \in (Valid[w] \cap Followups) \ Movement :
                      Targets[a] # {} /\ ~(a \in Takes /\ ObjectOf(a) \in Items[w])}
  IN  {<<"structural", c, t>> : t \in Nouns[w] \cap StructuralTokens}
      \cup {<<"exit", c, a>> : a \in Valid[w] \cap Movement}
      \cup {<<"object", c, ObjectOf(a)>> : a \in followups}

BasePriority(o, w) ==
  CASE o[1] = "structural" -> 200
    [] o[1] = "exit" -> 100
    [] OTHER -> IF o[3] \in Items[w] THEN 90 ELSE 135

\* _upsert_opportunity: what is resolved stays resolved.
UpsertOpportunity(opps, o, base) ==
  IF o \in DOMAIN opps THEN [opps[o] EXCEPT !.base = Max({@, base})]
  ELSE [base |-> base, noProgress |-> 0, durable |-> 0, resolved |-> FALSE]

\* record_state and _infer_opportunities
RecordState(map, w) ==
  LET c == Cluster[w]
      node == [NodeOf(map, c) EXCEPT !.visits = @ + 1, !.exits = @ \cup (Valid[w] \cap Movement)]
      seen == SeenOpportunities(w)
  IN  [nodes |-> WithNode(map, c, node),
       opps |-> [o \in DOMAIN map.opps \cup seen |->
                   IF o \in seen THEN UpsertOpportunity(map.opps, o, BasePriority(o, w))
                   ELSE map.opps[o]]]

\* _opportunity_matches_action
MatchesAction(o, a) ==
  CASE o[1] = "exit" -> a = o[3]
    [] o[1] = "object" -> o[3] \in Targets[a]
    [] OTHER -> o[3] \in Targets[a] \/ (o[3] = House /\ a \in Openings)

\* _opportunity_is_resolved, after a step with durable progress.
ResolvedBy(o, a, v, w) ==
  CASE o[1] = "exit" -> Cluster[w] # Cluster[v]
    [] o[1] = "structural" -> Cluster[w] # Cluster[v] \/ a \in Enterings
    [] OTHER -> ScoreGain(v, w) > 0 \/ InventoryGained(v, w) \/ AffordanceGain(v, w) > 0

ExitTriedIsTraversed(map, a, v, w) == <<"exit", Cluster[v], a>> \in DOMAIN map.opps
\* The last step of record_transition: a movement that changed the region.
ExitTraversed(map, a, v, w) ==
  /\ a \in Movement /\ Cluster[w] # Cluster[v]
  /\ <<"exit", Cluster[v], a>> \in DOMAIN map.opps

\* record_transition
RecordTransition(map, a, v, w) ==
  LET c == Cluster[v]
      paid == ScoreGain(v, w) > 0 \/ InventoryGained(v, w)
      node == [NodeOf(map, c) EXCEPT !.durable = @ + (IF paid THEN 1 ELSE 0),
                                     !.explored = @ \cup ({a} \cap Movement)]
      touched == {o \in DOMAIN map.opps : o[2] = c /\ ~map.opps[o].resolved /\ MatchesAction(o, a)}
      GivenUp(o) ==
        /\ ~paid /\ o[1] = "object"
        /\ \/ map.opps[o].noProgress + 1 >= 3
           \/ node.durable > 0 /\ map.opps[o].noProgress + 1 >= 1
      traversed == IF ExitTraversed(map, a, v, w) THEN {<<"exit", c, a>>} ELSE {}
      Updated(o) ==
        IF o \in touched
        THEN [map.opps[o] EXCEPT !.durable = @ + (IF paid THEN 1 ELSE 0),
                                 !.noProgress = @ + (IF paid THEN 0 ELSE 1),
                                 !.resolved = GivenUp(o) \/ (paid /\ ResolvedBy(o, a, v, w))]
        ELSE map.opps[o]
  IN  [nodes |-> WithNode(map, c, node),
       opps |-> [o \in DOMAIN map.opps |->
                   IF o \in traversed THEN [Updated(o) EXCEPT !.resolved = TRUE] ELSE Updated(o)]]

-----------------------------------------------------------------------------
(* EpisodeMapMemory: guidance. *)

\* current_priority
PriorityOf(opp) ==
  IF opp.resolved THEN 0 ELSE Max({0, opp.base + 40 * opp.durable - 75 * opp.noProgress})

\* opportunities_for_cluster
ActiveOpportunities(map, c) ==
  {o \in DOMAIN map.opps : o[2] = c /\ ~map.opps[o].resolved}
WorthwhileOpportunities(map, c) ==
  {o \in ActiveOpportunities(map, c) : PriorityOf(map.opps[o]) >= MinOpportunityPriority}
OfKind(opps, kind) == {o \in opps : o[1] = kind}

\* cluster_strategic_score.  The penalty of exhausted objects is an argument of
\* max of its own: it is not subtracted.
StrategicScore(map, c) ==
  IF c \notin DOMAIN map.nodes THEN 0
  ELSE LET node == map.nodes[c]
           active == ActiveOpportunities(map, c)
           structural == Cardinality(OfKind(active, "structural"))
           harvested == node.durable > 0
           stalled == {o \in OfKind(active, "object") : map.opps[o].noProgress > 0}
       IN  Max({0,
             190 * structural
             + (IF harvested /\ structural = 0 THEN 10 ELSE 90) * Cardinality(OfKind(active, "object"))
             + (IF harvested THEN 105 ELSE 60) * Cardinality(OfKind(active, "exit"))
             + 15 * node.durable
             - Max({node.visits - 1, 0}) * (IF harvested THEN 90 ELSE 45)
             - 25 * MapThenSumSet(LAMBDA o : map.opps[o].noProgress, active),
             -(Cardinality(stalled) * (IF harvested THEN 45 ELSE 15))})

\* _unexplored_exit_actions
UnexploredExits(map, c) == NodeOf(map, c).exits \ NodeOf(map, c).explored

\* The region of the frontier that scores best, the first of them on a tie.
BestFrontierCluster(map, entries) ==
  LET scores == [i \in DOMAIN entries |-> StrategicScore(map, entries[i].cluster)]
      best == {i \in DOMAIN scores : \A j \in DOMAIN scores : scores[j] <= scores[i]}
  IN  IF entries = << >> THEN "none" ELSE entries[Min(best)].cluster

Guidance(mode, preferred, routes) == [mode |-> mode, preferred |-> preferred, routes |-> routes]

\* recommend_guidance.  The actions tried under EXPLOIT are a matter of the
\* action generator and are left out; EXPLORE lists the exits to try.
RecommendGuidance(map, w, entries) ==
  LET c == Cluster[w]
      node == NodeOf(map, c)
      here == WorthwhileOpportunities(map, c)
      structural == OfKind(here, "structural")
      objects == OfKind(here, "object")
      score == StrategicScore(map, c)
      harvested == node.durable > 0
      fresh == node.visits <= VisitExhaustionThreshold
      exhausted == /\ harvested /\ structural = {}
                   /\ (\A o \in objects : map.opps[o].noProgress > 0) \/ ~fresh
      exits == UnexploredExits(map, c)
      far == BestFrontierCluster(map, entries)
      elsewhere == far \notin {"none", c}
      farScore == StrategicScore(map, far)
      farStructural == OfKind(WorthwhileOpportunities(map, far), "structural") # {}
  IN  IF structural # {} /\ score > 0 /\ fresh THEN Guidance("exploit", c, {})
      ELSE IF elsewhere /\ (farStructural \/ exhausted \/ farScore >= Max({score + 25, 80}))
      THEN Guidance("exploit", far, {})
      ELSE IF objects # {} /\ ~exhausted /\ ~harvested /\ score > 80 /\ fresh
      THEN Guidance("exploit", c, {})
      ELSE IF exits # {} THEN Guidance("explore", c, exits)
      ELSE IF elsewhere /\ farScore > 75 THEN Guidance("exploit", far, {})
      ELSE Guidance("explore", c, {})
=============================================================================
