------------------------------ MODULE RunPages ------------------------------
(***************************************************************************)
(* What the run page of the dashboard computes from one response: the step *)
(* tree (step-tree.ts), the execution timeline (timeline.ts) and the       *)
(* ingestion health (run-telemetry.ts) with the cards that render them.    *)
(* Pure functions of a RunDetailView; steps arrive in server order.        *)
(***************************************************************************)
EXTENDS Integers, FiniteSets, Sequences, FiniteSetsExt, SequencesExt, TLC

CONSTANTS null,       \* a field the response carries as null: a model value
          undefined   \* a field an older API does not send: a model value

Count(s, P(_)) == Len(SelectSeq(s, P))

-----------------------------------------------------------------------------
(* The step tree. A rendered tree is its nodes in page order, each with the *)
(* node it is drawn under.                                                  *)

Ids(steps) == {s.id : s \in ToSet(steps)}

Node(step, placement, under) == [id |-> step.id, placement |-> placement, under |-> under]

\* Mutant: the children are not checked against what is already placed, and the
\* walk stops one level down instead of going round for ever.
RECURSIVE descendOnce(_, _, _, _, _)
descendOnce(steps, step, placement, under, walked) ==
    LET here == [placed |-> walked.placed \cup {step.id},
                 nodes |-> Append(walked.nodes, Node(step, placement, under))]
        children == SelectSeq(steps, LAMBDA c : c.parent = step.id)
    IN FoldLeft(LAMBDA w, c : [w EXCEPT !.nodes = Append(@, Node(c, "nested", step.id))],
                here, children)

\* descend: the step, then the subtree of each child not placed yet.
RECURSIVE descend(_, _, _, _, _)
descend(steps, step, placement, under, walked) ==
    LET here == [placed |-> walked.placed \cup {step.id},
                 nodes |-> Append(walked.nodes, Node(step, placement, under))]
        children == SelectSeq(steps, LAMBDA c : c.parent = step.id /\ c.id \notin here.placed)
    IN FoldLeft(LAMBDA w, c : descend(steps, c, "nested", step.id, w), here, children)

\* The steps that start a tree of their own, and why.
topLevel(steps) ==
    SelectSeq(steps, LAMBDA s : s.parent = null \/ s.parent \notin Ids(steps))

placementOf(step) == IF step.parent = null THEN "root" ELSE "orphaned"

\* buildStepTree: the top-level trees, then whatever a parent cycle keeps out of them.
buildStepTree(steps) ==
    LET rooted == FoldLeft(LAMBDA w, s : descend(steps, s, placementOf(s), null, w),
                           [placed |-> {}, nodes |-> <<>>], topLevel(steps))
        all == FoldLeft(LAMBDA w, s : IF s.id \in w.placed THEN w
                                      ELSE descend(steps, s, "cycle", null, w),
                        rooted, steps)
    IN all.nodes

countPlacement(nodes, placement) == Count(nodes, LAMBDA n : n.placement = placement)

\* StepsCard: the header's anomalies and the alarm that steps are missing.
StepsCard(steps) ==
    LET nodes == buildStepTree(steps)
    IN [nodes |-> nodes,
        orphaned |-> countPlacement(nodes, "orphaned"),
        cycle |-> countPlacement(nodes, "cycle"),
        missing |-> Len(steps) - Len(nodes)]

\* The step with this id, and the ids its chain of parents reaches.
StepOf(steps, id) == CHOOSE s \in ToSet(steps) : s.id = id

Ancestors(steps, id) ==
    LET Up(S) == S \cup {StepOf(steps, i).parent : i \in S \cap Ids(steps)}
    IN FoldLeft(LAMBDA S, i : Up(S), {id}, [i \in 1..Len(steps) |-> i])

(***************************************************************************)
(* Every step of the response is drawn exactly once, under the parent it   *)
(* names unless it is at top level; a step is marked orphaned, or is a     *)
(* root, exactly when its own parent is missing or null; and a step drawn  *)
(* as a cycle is one whose chain of parents never leaves the response,     *)
(* with at least one such mark whenever there is such a chain.             *)
(***************************************************************************)
TreeIsTheRun(steps) ==
    LET card == StepsCard(steps)
        Looped(id) == Ancestors(steps, id) \subseteq Ids(steps)
    IN /\ card.missing = 0
       /\ \A id \in Ids(steps) : Count(card.nodes, LAMBDA n : n.id = id) = 1
       /\ \A n \in ToSet(card.nodes) :
            LET parent == StepOf(steps, n.id).parent
            IN /\ n.placement = "root" <=> parent = null
               /\ n.placement = "orphaned" <=> parent \notin Ids(steps) \cup {null}
               /\ n.placement = "nested" <=> n.under # null
               /\ n.under # null => n.under = parent
               /\ n.placement = "cycle" => Looped(n.id)
       /\ card.cycle > 0 <=> \E id \in Ids(steps) : Looped(id)

-----------------------------------------------------------------------------
(* The timeline: client clocks only. *)

anchorOf(step) == IF step.startedAt # null THEN step.startedAt ELSE step.completedAt

byClientClockThenId(s, t) ==
    IF anchorOf(s) # anchorOf(t) THEN anchorOf(s) < anchorOf(t) ELSE s.id < t.id

instantsOf(run) ==
    UNION {{x.startedAt, x.completedAt} : x \in {run} \cup ToSet(run.steps)} \ {null}

\* computeWindow: every client instant of the run and its steps.
computeWindow(run) ==
    IF instantsOf(run) = {} THEN null
    ELSE [start |-> Min(instantsOf(run)), end |-> Max(instantsOf(run))]

shapeOf(step) ==
    IF step.startedAt = null THEN "end-only"
    ELSE IF step.completedAt = null THEN "open"
    ELSE IF step.completedAt < step.startedAt THEN "reversed" ELSE "closed"

boundedEnd(step, window) ==
    CASE shapeOf(step) = "closed" -> step.completedAt
      [] shapeOf(step) = "open" -> IF window = null THEN null ELSE window.end
      [] OTHER -> anchorOf(step)

closedDuration(startedAt, completedAt) ==
    IF startedAt = null \/ completedAt = null THEN null
    ELSE IF completedAt < startedAt THEN null ELSE completedAt - startedAt

\* place: offset and width in units of the window's span; none on an empty axis.
place(step, window) ==
    LET scaled == window # null /\ window.end > window.start /\ boundedEnd(step, window) # null
    IN [id |-> step.id, shape |-> shapeOf(step),
        duration |-> IF shapeOf(step) = "closed"
                     THEN closedDuration(step.startedAt, step.completedAt) ELSE null,
        offset |-> IF scaled THEN anchorOf(step) - window.start ELSE null,
        width |-> IF scaled THEN boundedEnd(step, window) - anchorOf(step) ELSE null]

buildRunTimeline(run) ==
    LET window == computeWindow(run)
        placeable == SelectSeq(run.steps, LAMBDA s : anchorOf(s) # null)
        ordered == SortSeq(placeable, byClientClockThenId)
    IN [window |-> window,
        entries |-> [i \in DOMAIN ordered |-> place(ordered[i], window)],
        unplaced |-> SelectSeq(run.steps, LAMBDA s : anchorOf(s) = null),
        runDuration |-> closedDuration(run.startedAt, run.completedAt)]

\* The Timeline header: what it counts and the alarm that steps are missing.
TimelineCard(run) ==
    LET timeline == buildRunTimeline(run)
    IN [timeline |-> timeline,
        endOnly |-> Count(timeline.entries, LAMBDA e : e.shape = "end-only"),
        reversed |-> Count(timeline.entries, LAMBDA e : e.shape = "reversed"),
        missing |-> Len(run.steps) - Len(timeline.entries) - Len(timeline.unplaced)]

(***************************************************************************)
(* The axis does not depend on the order steps arrived in; every step is   *)
(* on it or listed as unplaced; every bar lies inside the window; a step   *)
(* has a duration exactly when its two instants are in order, and the      *)
(* run's own duration never exceeds the window.                            *)
(***************************************************************************)
TimelineIsTheExecution(run) ==
    LET card == TimelineCard(run)
        window == card.timeline.window
        StepWith(id) == StepOf(run.steps, id)
    IN /\ card.missing = 0
       /\ buildRunTimeline([run EXCEPT !.steps = Reverse(@)]).entries = card.timeline.entries
       /\ \A e \in ToSet(card.timeline.entries) :
            /\ e.offset # null =>
                 e.offset >= 0 /\ e.width >= 0 /\ e.offset + e.width <= window.end - window.start
            /\ e.offset = null <=> Cardinality(instantsOf(run)) = 1
            /\ e.duration # null <=>
                 LET s == StepWith(e.id)
                 IN /\ s.startedAt # null /\ s.completedAt # null
                    /\ s.startedAt <= s.completedAt
       /\ card.timeline.runDuration # null =>
            card.timeline.runDuration <= window.end - window.start

-----------------------------------------------------------------------------
(* Ingestion health. *)

collect(rows) == IF rows = undefined THEN [presence |-> "absent", rows |-> <<>>]
                 ELSE [presence |-> IF rows = <<>> THEN "none" ELSE "some", rows |-> rows]

\* readToolCallClock.
clockAnomaly(call) == call.completedAt < call.startedAt \/ call.durationMs < 0

TotalOf(s, f(_)) == FoldLeft(LAMBDA n, x : n + f(x), 0, s)

\* The bytes a call's truncated payloads had, where they were measured.
truncatedBytes(call) ==
    (IF call.inputTruncated /\ call.inputBytes # null THEN call.inputBytes ELSE 0)
  + (IF call.outputTruncated /\ call.outputBytes # null THEN call.outputBytes ELSE 0)

bytesUnknown(call) == \/ call.inputTruncated /\ call.inputBytes = null
                      \/ call.outputTruncated /\ call.outputBytes = null

\* assessIngestionHealth with tallyToolCallTruncation.
assessIngestionHealth(run) ==
    LET tools == collect(run.toolCalls)
        models == collect(run.modelCalls)
        Tool(n) == IF tools.presence = "absent" THEN null ELSE n
        Model(n) == IF models.presence = "absent" THEN null ELSE n
    IN [presence |-> [toolCalls |-> tools.presence, modelCalls |-> models.presence],
        toolInputsTruncated |-> Tool(Count(tools.rows, LAMBDA c : c.inputTruncated)),
        toolOutputsTruncated |-> Tool(Count(tools.rows, LAMBDA c : c.outputTruncated)),
        truncatedOriginalBytes |->
            IF \E c \in ToSet(tools.rows) : bytesUnknown(c) THEN null
            ELSE Tool(TotalOf(tools.rows, truncatedBytes)),
        toolCallsWithClockAnomaly |-> Tool(Count(tools.rows, clockAnomaly)),
        modelCallsMissingInputTokens |-> Model(Count(models.rows, LAMBDA c : c.inputTokens = null)),
        modelCallsMissingOutputTokens |-> Model(Count(models.rows, LAMBDA c : c.outputTokens = null))]

\* IngestionHealthCard: a count that is not known reads "not reported", never 0.
NotReported == <<>>

formatCount(n) == IF n = null THEN NotReported ELSE <<n>>

HealthRows(run, dropped) ==
    LET h == assessIngestionHealth(run)
    IN [toolInputs |-> formatCount(h.toolInputsTruncated),
        toolOutputs |-> formatCount(h.toolOutputsTruncated),
        bytes |-> formatCount(h.truncatedOriginalBytes),
        clock |-> formatCount(h.toolCallsWithClockAnomaly),
        noInput |-> formatCount(h.modelCallsMissingInputTokens),
        noOutput |-> formatCount(h.modelCallsMissingOutputTokens),
        dropped |-> formatCount(dropped)]

\* A payload under a tool call: its label says whether it was cut and what it had been.
Payload(truncated, bytes) == [truncated |-> truncated, bytes |-> formatCount(bytes)]

\* describeMissingTokens: which of the two counts a model call lacks.
describeMissingTokens(c) == {t \in {"inputTokens", "outputTokens"} : c[t] = null}

\* ModelCallsCard: a row per call, marked with what the provider did not report.
ModelCallsCard(run) ==
    LET rows == collect(run.modelCalls).rows
    IN [i \in DOMAIN rows |-> [marks |-> describeMissingTokens(rows[i]),
                               input |-> formatCount(rows[i].inputTokens),
                               output |-> formatCount(rows[i].outputTokens)]]

\* DecisionsCard: a row per decision, with the marks it carries.
DecisionsCard(run) ==
    LET Marks(d) == (IF d.contextKey = null THEN {"excluded"} ELSE {})
               \cup (IF d.decisionType = null THEN {"attestation-only"} ELSE {})
        rows == collect(run.decisions).rows
    IN [i \in DOMAIN rows |-> [marks |-> Marks(rows[i]), outcome |-> rows[i].outcome]]

\* ToolCallsCard: a row per call, with the marks it carries.
ToolCallsCard(run) ==
    LET Marks(c) == (IF c.success THEN {"succeeded"} ELSE {"failed"})
               \cup (IF c.completedAt < c.startedAt THEN {"reversed"} ELSE {})
               \cup (IF c.durationMs < 0 THEN {"negative"} ELSE {})
        rows == collect(run.toolCalls).rows
    IN [i \in DOMAIN rows |-> [marks |-> Marks(rows[i]),
                               input |-> Payload(rows[i].inputTruncated, rows[i].inputBytes),
                               output |-> Payload(rows[i].outputTruncated, rows[i].outputBytes)]]

(***************************************************************************)
(* The health card and the call rows tell the same story: a figure is "not *)
(* reported" exactly when the response did not carry the calls, or a       *)
(* payload was cut without having been measured; otherwise it is what the  *)
(* marks and labels of the rows below it add up to.                        *)
(***************************************************************************)
HealthAgreesWithRows(run) ==
    LET Missing(t) == IF run.modelCalls = undefined THEN NotReported
                      ELSE <<Count(ModelCallsCard(run), LAMBDA r : t \in r.marks)>>
        rows == ToolCallsCard(run)
        health == HealthRows(run, null)
        Cut(side) == Count(rows, LAMBDA r : r[side].truncated)
        cutPayloads == {<<i, side>> \in (DOMAIN rows) \X {"input", "output"} : rows[i][side].truncated}
        Bytes(p) == rows[p[1]][p[2]].bytes
        unmeasured == \E p \in cutPayloads : Bytes(p) = NotReported
    IN /\ health.noInput = Missing("inputTokens")
       /\ health.noOutput = Missing("outputTokens")
       /\ IF run.toolCalls = undefined
          THEN \A f \in {"toolInputs", "toolOutputs", "clock", "bytes"} : health[f] = NotReported
          ELSE
            /\ health.toolInputs = <<Cut("input")>>
            /\ health.toolOutputs = <<Cut("output")>>
            /\ health.clock = <<Count(rows, LAMBDA r : r.marks \cap {"reversed", "negative"} # {})>>
            /\ health.bytes = IF unmeasured THEN NotReported
                              ELSE <<MapThenSumSet(LAMBDA p : Bytes(p)[1], cutPayloads)>>
=============================================================================
