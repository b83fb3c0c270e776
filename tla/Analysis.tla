------------------------------ MODULE Analysis ------------------------------
(***************************************************************************)
(* The analysis engine: how recorded decisions become an aggregate         *)
(* (aggregate.ts), when an aggregate becomes a candidate (gates.ts), and   *)
(* which tool calls are a repeated failed action                           *)
(* (repeated-failed-action.ts).  Pure functions of sequences of records.   *)
(* A ratio is <<count, total>> and is compared without division.           *)
(***************************************************************************)
EXTENDS Integers, FiniteSets, Sequences, FiniteSetsExt, SequencesExt, TLC

CONSTANTS none,     \* a value that is null: a model value
          config    \* an AnalyzerConfig: two counts and three ratios

ASSUME ConfigAssumption ==
    /\ config.minSampleCount \in Nat
    /\ config.minDistinctContexts \in Nat
    /\ \A f \in {"dominanceThreshold", "successThreshold", "coverageThreshold"} :
         config[f][1] \in Nat /\ config[f][2] \in Nat \ {0}

-----------------------------------------------------------------------------
(* Aggregation. *)

groupKeyOf(record) == record.key

\* serializeGroupKey joins the four names with a space: here a name is its words, so two
\* keys may serialize alike.
serializeGroupKey(key) == FlattenSeq(key)

isEligible(record) == ~record.runIsStale /\ record.contextKey # none

Eligible(records) == SelectSeq(records, isEligible)

\* countExclusions: a stale run first, so no record is excluded twice.
countExclusions(records) ==
    [staleRun |-> Len(SelectSeq(records, LAMBDA r : r.runIsStale)),
     missingContextKey |->
         Len(SelectSeq(records, LAMBDA r : ~r.runIsStale /\ r.contextKey = none))]

Chosen(records, option) == SelectSeq(records, LAMBDA r : r.selectedOption = option)

\* Mutant: ties keep the order the options were first seen in.
distributionAsSeen(eligible) ==
    LET options == [i \in DOMAIN eligible |-> eligible[i].selectedOption]
        firsts == SelectSeq([i \in DOMAIN options |-> i],
                            LAMBDA i : \A j \in 1..(i - 1) : options[j] # options[i])
        seen == [i \in DOMAIN firsts |-> options[firsts[i]]]
        Before(p, q) == Len(Chosen(eligible, p)) > Len(Chosen(eligible, q))
    IN [i \in DOMAIN seen |->
          [option |-> SortSeq(seen, Before)[i],
           count |-> Len(Chosen(eligible, SortSeq(seen, Before)[i]))]]

\* distribution: by descending count, ties by option.
distribution(eligible) ==
    LET CountOf(option) == Len(Chosen(eligible, option))
        Before(p, q) == CountOf(p) > CountOf(q) \/ (CountOf(p) = CountOf(q) /\ p < q)
        options == SetToSortSeq({r.selectedOption : r \in ToSet(eligible)}, Before)
    IN [i \in DOMAIN options |-> [option |-> options[i], count |-> CountOf(options[i])]]

minoritySelections(eligible, dominant) ==
    IF dominant = none THEN <<>> ELSE SelectSeq(eligible, LAMBDA r : r.selectedOption # dominant)

\* extractCounterexamples: where the dominant option failed or another succeeded.
extractCounterexamples(eligible, dominant) ==
    {r \in ToSet(eligible) : /\ dominant # none
                             /\ \/ r.selectedOption = dominant /\ r.outcome = "FAILURE"
                                \/ r.selectedOption # dominant /\ r.outcome = "SUCCESS"}

concentration(minority) ==
    [k \in {r.contextKey : r \in ToSet(minority)} |->
       <<Len(SelectSeq(minority, LAMBDA r : r.contextKey = k)), Len(minority)>>]

aggregateGroup(key, records) ==
    LET eligible == Eligible(records)
        options == distribution(eligible)
        dominant == IF options = <<>> THEN none ELSE options[1].option
        attested == SelectSeq(eligible, LAMBDA r : r.outcome # "UNKNOWN")
        dominantAttested == Chosen(attested, dominant)
        successes == SelectSeq(dominantAttested, LAMBDA r : r.outcome = "SUCCESS")
    IN [key |-> key,
        sampleCount |-> Len(eligible),
        distinctContextKeyCount |-> Cardinality({r.contextKey : r \in ToSet(eligible)}),
        optionDistribution |-> options,
        dominantOption |-> dominant,
        dominance |-> IF options = <<>> THEN <<0, 1>> ELSE <<options[1].count, Len(eligible)>>,
        outcomeCoverage |-> IF eligible = <<>> THEN <<0, 1>> ELSE <<Len(attested), Len(eligible)>>,
        successRate |-> IF dominantAttested = <<>> THEN none
                        ELSE <<Len(successes), Len(dominantAttested)>>,
        counterexamples |-> extractCounterexamples(eligible, dominant),
        minorityConcentration |-> concentration(minoritySelections(eligible, dominant)),
        excluded |-> countExclusions(records)]

\* The records whose keys serialize to s.
BucketOf(s, records) == SelectSeq(records, LAMBDA r : serializeGroupKey(groupKeyOf(r)) = s)

\* aggregateAll: one aggregate for each serialized key, under the key of its first record.
aggregateAll(records) ==
    [s \in {serializeGroupKey(groupKeyOf(r)) : r \in ToSet(records)} |->
       aggregateGroup(groupKeyOf(Head(BucketOf(s, records))), BucketOf(s, records))]

\* Two keys of the records that serialize alike.
KeysCollide(records) ==
    \E r, q \in ToSet(records) :
      groupKeyOf(r) # groupKeyOf(q) /\ serializeGroupKey(groupKeyOf(r)) = serializeGroupKey(groupKeyOf(q))

\* Aggregates with the same figures, and the same keys.
SameFigures(a, b) ==
    DOMAIN a = DOMAIN b /\ \A s \in DOMAIN a : \A f \in DOMAIN a[s] \ {"key"} : a[s][f] = b[s][f]

SameKeys(a, b) == \A s \in DOMAIN a : a[s].key = b[s].key

(***************************************************************************)
(* The figures of the aggregates do not depend on the order the records    *)
(* came in, ties included (distribution breaks them on the option), and    *)
(* neither do their keys as long as no two keys serialize alike; then an   *)
(* aggregate is of the records of its own key.  Every record is either     *)
(* sampled or counted under exactly one exclusion.                         *)
(***************************************************************************)
AggregatesAreOrderFree(records) ==
    LET all == aggregateAll(records)
        OrderFree(turned) == SameFigures(aggregateAll(turned), all)
                             /\ (KeysCollide(records) \/ SameKeys(aggregateAll(turned), all))
    IN /\ \A i \in DOMAIN records :
            OrderFree(SubSeq(records, i, Len(records)) \o SubSeq(records, 1, i - 1))
       /\ OrderFree(Reverse(records))
       /\ KeysCollide(records) \/
            \A s \in DOMAIN all : \A r \in ToSet(records) :
              r \in ToSet(BucketOf(s, records)) <=> groupKeyOf(r) = all[s].key
       /\ Len(records) = FoldFunction(LAMBDA a, n : n + a.sampleCount + a.excluded.staleRun
                                                    + a.excluded.missingContextKey,
                                      0, all)

(***************************************************************************)
(* The counterexamples are the eligible decisions whose attested outcome   *)
(* contradicts the dominant option, and nothing unattested is among them:  *)
(* following it failed, or not following it succeeded.  With those set     *)
(* aside, the option's attested record is all successes and the others'    *)
(* all failures.                                                           *)
(***************************************************************************)
CounterexamplesContradict(records) ==
    LET a == aggregateGroup(none, records)
        rest == SelectSeq(Eligible(records), LAMBDA r : r \notin a.counterexamples)
    IN /\ a.counterexamples \subseteq ToSet(Eligible(records))
       /\ \A r \in a.counterexamples : r.outcome # "UNKNOWN"
       /\ \A r \in ToSet(rest) :
            r.outcome # "UNKNOWN" =>
              (r.outcome = "SUCCESS" <=> r.selectedOption = a.dominantOption)

-----------------------------------------------------------------------------
(* Gates. *)

AtLeast(ratio, threshold) == ratio[1] * threshold[2] >= threshold[1] * ratio[2]

Passes(holds) == IF holds THEN "PASS" ELSE "FAIL"

GATE_IDS == <<"G1_sample_count", "G2_context_diversity", "G3_dominance",
              "G4_outcome_success", "G5_outcome_coverage">>

gateStatus(a, gate) ==
    CASE gate = "G1_sample_count" -> Passes(a.sampleCount >= config.minSampleCount)
      [] gate = "G2_context_diversity" ->
           Passes(a.distinctContextKeyCount >= config.minDistinctContexts)
      [] gate = "G3_dominance" -> Passes(AtLeast(a.dominance, config.dominanceThreshold))
      [] gate = "G4_outcome_success" ->
           IF a.successRate = none THEN "NOT_APPLICABLE"
           ELSE Passes(AtLeast(a.successRate, config.successThreshold))
      [] gate = "G5_outcome_coverage" -> Passes(AtLeast(a.outcomeCoverage, config.coverageThreshold))

evaluateGates(a) ==
    LET failed == SelectSeq(GATE_IDS, LAMBDA g : gateStatus(a, g) = "FAIL")
    IN [gates |-> [i \in DOMAIN GATE_IDS |-> gateStatus(a, GATE_IDS[i])],
        failedGates |-> failed,
        verdict |-> IF failed = <<>> THEN "CANDIDATE" ELSE "SUPPRESSED"]

(***************************************************************************)
(* GateEvaluation's contract (gate-contract.ts): the verdict is CANDIDATE  *)
(* exactly when every gate passed, and a gate that is not applicable has   *)
(* not passed.  evaluateGates asks only that none failed, so this rests on *)
(* the thresholds: while dominance and coverage together exceed one, as    *)
(* the defaults do, a dominant option nobody attested leaves too little    *)
(* coverage for G5.                                                        *)
(***************************************************************************)
CandidateMeansEveryGatePassed(records) ==
    LET e == evaluateGates(aggregateGroup(none, records))
    IN e.verdict = "CANDIDATE" <=> \A i \in DOMAIN e.gates : e.gates[i] = "PASS"

-----------------------------------------------------------------------------
(* Repeated failed actions. *)

MIN_CONSECUTIVE_FAILURES == 3

isFailedAttempt(call) == call.outcome = "FAILED" \/ call.errorType # none

streakKey(call) == call.key

\* streaksIn: the maximal runs of failed attempts, each flushed when it ends.
streaksIn(ordered) ==
    LET Flush(w) == [found |-> IF Len(w.streak) >= MIN_CONSECUTIVE_FAILURES
                               THEN Append(w.found, w.streak) ELSE w.found,
                     streak |-> <<>>]
        Attempt(w, call) == IF isFailedAttempt(call)
                            THEN [w EXCEPT !.streak = Append(@, call.id)] ELSE Flush(w)
    IN Flush(FoldLeft(Attempt, [found |-> <<>>, streak |-> <<>>], ordered)).found

\* The sort is stable: calls of one instant keep the order they were given in.
Precedes(calls, i, j) ==
    \/ calls[i].occurredAt < calls[j].occurredAt
    \/ calls[i].occurredAt = calls[j].occurredAt /\ i < j

\* One bucket for each key; calls of other keys do not interrupt it.
detectRepeatedFailedActions(calls) ==
    LET Places(k) == SetToSortSeq({i \in DOMAIN calls : streakKey(calls[i]) = k},
                                  LAMBDA i, j : Precedes(calls, i, j))
        Bucket(places) == [n \in DOMAIN places |-> calls[places[n]]]
    IN UNION {ToSet(streaksIn(Bucket(Places(k)))) : k \in {streakKey(c) : c \in ToSet(calls)}}

(***************************************************************************)
(* A failed call is reported exactly when, among the calls of its run,     *)
(* tool and input, it lies in three or more consecutive failures, in       *)
(* whatever order the calls were given, of which only the order of calls   *)
(* of one instant counts; and each one is reported once.                   *)
(***************************************************************************)
StreaksAreMaximal(calls) ==
    LET Failed(i) == calls[i].outcome = "FAILED" \/ calls[i].errorType # none
        Between(d, e) == {i \in DOMAIN calls : /\ calls[i].key = calls[d].key
                                              /\ ~Precedes(calls, i, d) /\ ~Precedes(calls, e, i)}
        Streaky(i) == \E d, e \in DOMAIN calls :
                        /\ i \in Between(d, e)
                        /\ Cardinality(Between(d, e)) >= 3
                        /\ \A x \in Between(d, e) : Failed(x)
        emissions == detectRepeatedFailedActions(calls)
        Reporting(i) == {s \in emissions : calls[i].id \in ToSet(s)}
    IN \A i \in DOMAIN calls : Cardinality(Reporting(i)) = IF Streaky(i) THEN 1 ELSE 0
=============================================================================
