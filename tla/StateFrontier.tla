----------------------------- MODULE StateFrontier -----------------------------
(***************************************************************************)
(* memory/frontier.py, class FrontierQueue: the bounded list of states the *)
(* legacy loop may go back to.                                             *)
(*                                                                         *)
(* A queue is a record                                                     *)
(*   entries   _entries, best first                                        *)
(*   stale     [states, families, clusters -> counts]: the three tables of *)
(*             no-progress revisits                                        *)
(* and each method is an operator from the queue to its next value.  An    *)
(* entry carries what ranks it, in hundredths: merit sums the terms that   *)
(* do not change while the entry is retained, priority is the score stored *)
(* at the last refresh.                                                    *)
(***************************************************************************)
EXTENDS StepFeatures

CONSTANTS
  FrontierMaxSize,          \* policy.frontier_max_size
  SnapshotRetentionLimit,   \* policy.snapshot_retention_limit
  NoveltyWeight, FamilyRepeatPenalty, TrivialPenalty, OscillatingPenalty,
  TogglePenalty, FamilySaturation, ClusterSaturation, StateSaturation,
  HashOrder,                \* [Worlds -> Nat]: the order of the state hashes
  SummaryWords,             \* [Worlds -> sets of words]: what the summary of a state says
                            \* of its inventory, first actions and observation
  SimilarityThreshold       \* a percentage

ASSUME StateFrontierAssumption ==
  /\ FrontierMaxSize \in Nat \ {0} /\ SnapshotRetentionLimit \in Nat
  /\ {NoveltyWeight, FamilyRepeatPenalty, TrivialPenalty, OscillatingPenalty, TogglePenalty,
      FamilySaturation, ClusterSaturation, StateSaturation} \subseteq Nat
  /\ \A w \in Worlds : IsFiniteSet(SummaryWords[w])
  /\ SimilarityThreshold \in 0..100

NoCounts == [k \in {} |-> 0]
EmptyQueue ==
  [entries |-> << >>, stale |-> [states |-> NoCounts, families |-> NoCounts, clusters |-> NoCounts]]

Count(table, key) == IF key \in DOMAIN table THEN table[key] ELSE 0
Bump(table, key) ==
  [k \in DOMAIN table \cup {key} |-> Count(table, k) + (IF k = key THEN 1 ELSE 0)]
Drop(table, key) == [k \in DOMAIN table \ {key} |-> table[k]]

-----------------------------------------------------------------------------
(* Dedupe keys. *)

\* summarize_state_candidate: the words of a state, and a word for each figure.
Figures == {"depth", "score", "gain"}
SummaryOf(w, depth, gain) ==
  [words |-> SummaryWords[w], depth |-> depth, score |-> Score[w], gain |-> gain]

\* _text_similarity: the words in common among all the words of two summaries.
SameFigures(s, t) == {f \in Figures : s[f] = t[f]}
WordsInCommon(s, t) == Cardinality(s.words \cap t.words) + Cardinality(SameFigures(s, t))
AllWords(s, t) ==
  Cardinality(s.words \cup t.words) + (2 * Cardinality(Figures) - Cardinality(SameFigures(s, t)))
Similar(s, t) == 100 * WordsInCommon(s, t) >= SimilarityThreshold * AllWords(s, t)

-----------------------------------------------------------------------------
(* Ranking. *)

\* The entries of a list of the others that are of the same family or cluster.
SameFamily(others, e) == {i \in DOMAIN others : others[i].family = e.family}
SameCluster(others, e) == {i \in DOMAIN others : others[i].cluster = e.cluster}

\* _similar_family_state_seen, or the change that led here was trivial.
LooksTrivial(others, e) ==
  e.trivial \/ \E i \in SameFamily(others, e) : Similar(others[i].text, e.text)

\* The novelty of an entry includes the scales that do not change; this is what
\* is left of it after the scales 0.2, 0.35 and 0.2, the decay of 0.75 per
\* relative in the family, and one part per entry of the cluster.
EffectiveNovelty(others, e) ==
  LET toggled == IF e.toggle THEN e.novelty \div 5 ELSE e.novelty
      plain == IF LooksTrivial(others, e) THEN (toggled * 35) \div 100 ELSE toggled
      steady == IF e.oscillating THEN plain \div 5 ELSE plain
      relatives == Cardinality(SameFamily(others, e))
  IN  ((steady * 100) \div (100 + 75 * relatives)) \div (1 + Cardinality(SameCluster(others, e)))

ReversiblePenaltyOf(others, e) ==
  (IF e.toggle THEN TogglePenalty ELSE 0)
  + (IF LooksTrivial(others, e) THEN TrivialPenalty ELSE 0)
  + (IF e.oscillating THEN OscillatingPenalty ELSE 0)
  + FamilyRepeatPenalty * Cardinality(SameFamily(others, e))

RevisitSaturation(stale, e) ==
  StateSaturation * Count(stale.states, e.id)
  + FamilySaturation * Count(stale.families, e.family)
  + ClusterSaturation * Count(stale.clusters, e.cluster)

\* _apply_dynamic_penalties and score_entry
Rescored(others, stale, e) ==
  [e EXCEPT !.priority =
     e.merit + (NoveltyWeight * EffectiveNovelty(others, e)) \div 100
     - ReversiblePenaltyOf(others, e) - RevisitSaturation(stale, e)]

\* The entry at i, scored among the other entries of the queue.
RescoredAt(queue, i) == Rescored(RemoveAt(queue.entries, i), queue.stale, queue.entries[i])

\* _entry_sort_key within one episode: the state id decides ties of depth.
Better(e, x) ==
  \/ e.priority > x.priority
  \/ e.priority = x.priority /\ e.depth < x.depth
  \/ e.priority = x.priority /\ e.depth = x.depth /\ HashOrder[e.hash] < HashOrder[x.hash]

-----------------------------------------------------------------------------
(* The operations. *)

\* _prune_native_snapshots
PruneSnapshots(entries) ==
  [i \in DOMAIN entries |->
     LET before == {j \in 1..(i - 1) : entries[j].node.native # NoNative}
     IN  IF Cardinality(before) < SnapshotRetentionLimit THEN entries[i]
         ELSE [entries[i] EXCEPT !.node.native = NoNative]]

ClippedOneShort(entries) == SubSeq(entries, 1, Min({Len(entries), FrontierMaxSize - 1}))

Clipped(entries) == SubSeq(entries, 1, Min({Len(entries), FrontierMaxSize}))

\* One more entry in a sorted list, behind those it is no better than: the sort
\* is stable.
Placed(sorted, e) ==
  InsertAt(sorted, 1 + Cardinality({i \in DOMAIN sorted : ~Better(e, sorted[i])}), e)

Sorted(entries) == FoldLeft(Placed, << >>, entries)

\* _resort_and_trim.  Every entry is scored among all of them, those the trim
\* is about to drop included.
Resorted(queue) ==
  LET scored == [i \in DOMAIN queue.entries |-> RescoredAt(queue, i)]
  IN  [queue EXCEPT !.entries = PruneSnapshots(Clipped(Sorted(scored)))]

DuplicatesById(e, x) == e.id = x.id

\* _are_duplicates
Duplicates(e, x) == e.hash = x.hash \/ e.id = x.id \/ Similar(e.text, x.text)

\* The first duplicate is replaced by a better entry; later ones are not looked at.
ReplaceIfBetter(entries, i, e) ==
  IF Better(e, entries[i]) THEN [entries EXCEPT ![i] = e] ELSE entries

\* add
Add(queue, entry) ==
  LET e == Rescored(queue.entries, queue.stale, entry)
      matches == {i \in DOMAIN queue.entries : Duplicates(queue.entries[i], e)}
      first == Min(matches)
      rescored == [queue.entries EXCEPT ![first] = RescoredAt(queue, first)]
  IN  Resorted([queue EXCEPT !.entries =
        IF matches = {} THEN Append(queue.entries, e)
        ELSE ReplaceIfBetter(rescored, first, e)])

\* note_revisit_outcome
NoteRevisit(queue, e, madeProgress) ==
  LET Note(table, key) == IF madeProgress THEN Drop(table, key) ELSE Bump(table, key)
  IN  Resorted([queue EXCEPT
        !.stale = [states |-> Note(@.states, e.id), families |-> Note(@.families, e.family),
                   clusters |-> Note(@.clusters, e.cluster)]])

\* top_k and peek_best
TopEntries(queue, k) == ToSet(SubSeq(queue.entries, 1, Min({k, Len(queue.entries)})))
=============================================================================
