---------------------------- MODULE MCDerivations ----------------------------
(***************************************************************************)
(* The pure derivations, each checked on every input of a bounded set      *)
(* against a definition of what it should compute.                         *)
(***************************************************************************)
EXTENDS RunPages, Analysis

\* Two waves, so that a chain of three nodes reaches the cap.
O == INSTANCE Oracle WITH WaveCap <- 3

L == INSTANCE LaneRules WITH absent <- null

\* Scaled: a walk three deep and two wide, marks of eight bytes, a cap of 24.
P == INSTANCE PayloadSafety
       WITH MAX_DEPTH <- 3, MAX_ITEMS <- 2, MIN_FIELD_BYTES <- 24, KeyBytes <- 5, SecretKeys <- {"apiKey"},
            Weight <- [u \in {"c", "q", "H", "L", "B", "redacted", "circular", "depth", "more", "odd", "suffix"} |->
                         CASE u = "c" -> 1 [] u = "q" -> 2 [] u \in {"H", "L", "B"} -> 6 [] OTHER -> 8]

\* Thresholds a group of three decisions can meet; as the defaults, dominance and coverage
\* together exceed one.
MCConfig == [minSampleCount |-> 2, minDistinctContexts |-> 1, dominanceThreshold |-> <<2, 3>>,
             successThreshold |-> <<1, 2>>, coverageThreshold |-> <<1, 2>>]

\* Number.MAX_SAFE_INTEGER is beyond TLC's integers: a number above every default.
MCMaxSafe == 1000000

W == INSTANCE WireContract WITH absent <- undefined, MAX_SAFE_INTEGER <- MCMaxSafe

X == INSTANCE Exchange WITH absent <- undefined, MAX_SAFE_INTEGER <- MCMaxSafe

K == INSTANCE Worker WITH absent <- undefined

VARIABLE subject    \* the input being examined

Subject(kind, input) == [kind |-> kind, input |-> input]

Pick(kind, inputs) == subject = Subject("nothing", kind) /\ \E x \in inputs : subject' = Subject(kind, x)

UpTo(n, S) == UNION {[1..k -> S] : k \in 0..n}

Instants == {null, 0, 1, 2}

\* Four steps: each may be a root, name a step that never arrived, itself, or another.
StepLists == {[i \in 1..4 |-> [id |-> i, parent |-> parents[i]]] :
              parents \in [1..4 -> {null, 1, 2, 3, 4, 9}]}

\* A run and two steps, with every combination of client instants.
TimedRuns ==
    {[startedAt |-> t[1], completedAt |-> t[2],
      steps |-> <<[id |-> 1, startedAt |-> t[3], completedAt |-> t[4]],
                  [id |-> 2, startedAt |-> t[5], completedAt |-> t[6]]>>] :
     t \in [1..6 -> Instants]}

ToolCallViews ==
    [inputTruncated : BOOLEAN, outputTruncated : BOOLEAN, inputBytes : {null, 5},
     outputBytes : {null, 7}, startedAt : {1}, completedAt : {0, 1}, durationMs : {0, -1},
     success : {TRUE}]

ModelCallViews == [inputTokens : {null, 3}, outputTokens : {null, 4}]

HealthInputs ==
    [toolCalls : {undefined} \cup UpTo(2, ToolCallViews), modelCalls : {undefined, <<>>}]
  \cup [toolCalls : {undefined, <<>>}, modelCalls : UpTo(2, ModelCallViews)]

Decisions ==
    [key : {<<<<1>>, <<2>>>>}, runIsStale : {FALSE}, contextKey : {none, 1, 2},
     selectedOption : {1, 2}, outcome : {"SUCCESS", "FAILURE", "UNKNOWN"}]
  \cup
    [key : {<<<<1>>, <<2>>>>, <<<<1>>, <<3>>>>}, runIsStale : {TRUE}, contextKey : {none, 1},
     selectedOption : {1}, outcome : {"SUCCESS"}]
  \cup  \* two keys that serialize alike
    [key : {<<<<1, 2>>, <<3>>>>, <<<<1>>, <<2, 3>>>>}, runIsStale : {FALSE}, contextKey : {1},
     selectedOption : {1, 2}, outcome : {"SUCCESS"}]

\* Calls of two keys at distinct instants, or two at a time at one instant, given in an
\* order that is not theirs.
CallLists ==
    {LET At(i) == [id |-> i, key |-> kinds[i][1], outcome |-> kinds[i][2][1],
                   errorType |-> kinds[i][2][2], occurredAt |-> IF tied THEN (i + 1) \div 2 ELSE i]
     IN <<At(4), At(2), At(5), At(1), At(3)>> : tied \in BOOLEAN,
     kinds \in [1..5 -> {1, 2} \X {<<"FAILED", none>>, <<"SUCCESS", none>>, <<"SUCCESS", 1>>}]}

\* Three deliverables, each needing any of the others (the first one also an id the
\* graph lacks), not begun or delivered (the first one also begun); a decision may be
\* open on one.
Name(i) == <<"a", "b", "c">>[i]

Graphs ==
    {LET Deliverable(i) ==
           [id |-> i, phase |-> IF i = 3 THEN phase ELSE 1, lane |-> IF i = 1 THEN "api" ELSE "sdk",
            needs |-> needs[i],
            probes |-> {[kind |-> "path", path |-> <<Name(i)>>],
                        [kind |-> "grep", dir |-> <<Name(i)>>, file |-> <<>>, pattern |-> "p"]},
            note |-> IF i = 2 THEN {[kind |-> "note"]} ELSE {}, risk |-> "low", validate |-> <<"test">>,
            allowed |-> {[dir |-> <<Name(i)>>, rest |-> "**"]}, forbidden |-> {}]
     IN [nodes |-> {Deliverable(i) : i \in 1..3}, sections |-> (1 :> <<1, 7>> @@ 2 :> <<>>),
         alwaysForbidden |-> {[dir |-> <<".git">>, rest |-> "**"]},
         decisions |-> {[id |-> 100, answered |-> FALSE, blocks |-> open]}] :
     needs \in [1..3 -> SUBSET {1, 2, 3, 9}], phase \in {1, 2}, open \in {{}, {2}}}

FewNeeds(g) == \A n \in g.nodes : (9 \in n.needs => n.id = 1) /\ (n.id \in n.needs => n.id = 2)

Disks == {[files |-> {<<Name(i), "f">> : i \in {j \in 1..3 : s[j] # "TODO"}},
           text |-> {<<<<Name(i), "f">>, "p">> : i \in {j \in 1..3 : s[j] = "DONE"}},
           scripts |-> {}, passing |-> {}] :
          s \in {t \in [1..3 -> {"TODO", "PARTIAL", "DONE"}] : "PARTIAL" \notin {t[2], t[3]}}}

Plans == UpTo(4, {[level |-> 0, id |-> 0]} \cup [level : 1..3, id : 1..2])

Lifecycles ==
    LET caps == {<<>>, <<"review">>, <<"validate", "review">>}
    IN [perPacket : caps, perWave : caps, perPhase : caps, conditional : {<<"architecture">>}]

Cadences == {[units |-> {[task_id |-> 1, changeClass |-> "contract", open |-> {1}],
                         [task_id |-> 2, changeClass |-> "feature", open |-> {}]},
              classes |-> [contract |-> x, feature |-> y]] : x \in Lifecycles, y \in Lifecycles}

Agents == [review |-> "reviewer", validate |-> "validator"]

Patterns == [dir : {<<"a">>, <<"a", "b">>, <<"c">>}, rest : {"literal", "*", "**"}]
            \cup {[dir |-> <<>>, rest |-> "**"]}

Paths == UNION {[1..k -> {"a", "b", "c"}] : k \in 1..3}

Work(id, needs, allowed) ==
    [id |-> id, needs |-> needs, risk |-> "low", probes |-> {"c"}, validate |-> <<"test">>,
     allowed |-> allowed, forbidden |-> {}]

WorkGraph == [decisions |-> {[id |-> 100, answered |-> TRUE, blocks |-> {1}]}, alwaysForbidden |-> {},
              sections |-> <<<<1>>, <<1>>>>]

Batches ==
    {LET byId == [id \in 1..3 |-> [state |-> IF id = 3 THEN state ELSE "TODO"]]
     IN [byId |-> byId,
         units |-> <<L!unitFrom(Work(1, needs, {x}), byId, {1, 2}, WorkGraph),
                     L!unitFrom(Work(2, {}, y), byId, {1, 2}, WorkGraph)>>,
         policy |-> [minUnits |-> 1, maxConcurrency |-> 3, serialiseIfTouches |-> {},
                     sharedWriteSurfaces |-> shared],
         repo |-> [isGitRepo |-> TRUE, operationInProgress |-> FALSE, conflicted |-> {},
                   dirty |-> dirty]] :
     state \in {"PARTIAL", "DONE"}, needs \in SUBSET {2, 3, 9}, x \in Patterns,
     y \in {{p} : p \in Patterns} \cup {{}}, shared \in {{}, {[dir |-> <<"a", "b">>, rest |-> "literal"]}},
     dirty \in {{}, {<<"c", "c">>}}}

\* Four units named out of order, needing any of the others.
Orders == {[i \in 1..4 |-> [task_id |-> <<3, 1, 4, 2>>[i], needs |-> needs[i], allowed |-> {}]] :
           needs \in [1..4 -> SUBSET (1..3)]}

OneUnit == [task_id |-> 1, criteria |-> {"c"}, forbidden |-> {[dir |-> <<"a", "s">>, rest |-> "**"]},
            allowed |-> {[dir |-> <<"a">>, rest |-> "**"]}]

HandoffFiles == {<<"a", "x">>, <<"a", "s", "y">>, <<"b">>, <<".artifacts", "log">>}

HandoffInputs ==
    {[commits |-> <<files>>,
      h |-> [status |-> status, task_id |-> 1, commit |-> commit, changed |-> changed,
             verified |-> buckets[1], unverified |-> buckets[2], commands |-> <<"test">>,
             results |-> results, failures |-> failures, risks |-> {}, artifacts |-> {1},
             evidence |-> evidence, tests |-> tests]] :
     files \in {{f, <<"a", "x">>} : f \in HandoffFiles}, status \in {"DONE", "BLOCKED"},
     commit \in {0, 1}, changed \in {null, {<<"a", "x">>}},
     buckets \in {<<{"c"}, {}>>, <<{}, {"c"}>>, <<{}, {}>>, <<{"c"}, {"c"}>>},
     results \in {<<>>} \cup {<<[command |-> "test", exitCode |-> code, passed |-> passed]>> :
                              code \in {0, 1}, passed \in BOOLEAN},
     failures \in {{}, {"test"}},
     evidence \in {<<>>} \cup {<<[requirement |-> "c", result |-> result, source |-> source,
                                 events |-> source = "log", artifact |-> TRUE]>> :
                               result \in {"PASS", "UNKNOWN"}, source \in {"test", "log"}}
                \cup {<<[requirement |-> "c", result |-> "PASS", source |-> "trace",
                        events |-> TRUE, artifact |-> FALSE]>>},
     tests \in {null} \cup {[discovered |-> n, passed |-> 1, failed |-> f, skipped |-> 0] :
                            n \in {0, 1, 2}, f \in {0, 1}}}

Surfaces == [dir : {<<"a">>, <<"a", "b">>, <<"a", "c">>}, rest : {"literal", "**"}]

ProbeNodes ==
    LET Targets == UNION {[1..k -> {"a", "b", "c"}] : k \in 1..2} \cup {<<".artifacts", "b">>}
        Probed == UNION {{[kind |-> "path", path |-> t], [kind |-> "manual", evidence |-> t],
                          [kind |-> "grep", dir |-> <<t[1]>>, file |-> Tail(t), pattern |-> "p"]} :
                         t \in Targets}
    IN [probes : {{p} : p \in Probed}, allowed : {{p} : p \in Surfaces} \cup {{}},
        forbidden : {{p} : p \in Surfaces} \cup {{}}]

\* Two objects: the root record and one it may hold, twice or in a circle.
Plain(units) == [k |-> "text", units |-> units]

Refs == {[k |-> "ref", to |-> i, copy |-> FALSE] : i \in 1..2}

RawValues == Refs \cup {[k |-> "undef"], Plain(<<"B", "c">>), Plain(<<"c", "q", "c", "c", "c">>),
                       Plain(<<"H", "L", "H", "L", "c">>)}

Payloads ==
    LET Inner == {<<x, y, z>> : x \in RawValues, y \in Refs \cup {Plain(<<"q">>)}, z \in {[k |-> "odd"]}}
                   \cup {<<x, y>> : x \in RawValues, y \in RawValues}
        Second == {[kind |-> "list", items |-> s] : s \in Inner}
                    \cup {[kind |-> "record", items |-> [i \in DOMAIN s |-> <<<<"k", "apiKey", "j">>[i], s[i]>>]] :
                         s \in Inner}
                    \cup {[kind |-> "toJSON", items |-> <<v>>] : v \in (RawValues \ {Plain(<<"B", "c">>)}) \cup {Plain(<<"B", "q">>)}}
                    \cup {[kind |-> "error", items |-> <<Plain(<<"c">>), Plain(<<"B", "q">>)>>],
                          [kind |-> "getter", items |-> <<>>]}
    IN {[heap |-> <<[kind |-> "record", items |-> <<<<"a", x>>, <<"b", y>>>>], o>>, hook |-> hook] :
        x \in RawValues, y \in Refs \cup {Plain(<<"c">>)}, o \in Second,
        hook \in {"none", "throws", "scalar", "copy"}}

\* Four objects in a chain, each holding the next and one more: deeper than the walk.
Chains ==
    LET Held(i, second) == <<IF i = 4 THEN Plain(<<"c">>) ELSE [k |-> "ref", to |-> i + 1, copy |-> FALSE],
                             [k |-> "ref", to |-> second, copy |-> FALSE]>>
    IN {[heap |-> [i \in 1..4 |-> IF i \in records
                                  THEN [kind |-> "record", items |-> <<<<"a", Held(i, seconds[i])[1]>>,
                                                                       <<"b", Held(i, seconds[i])[2]>>>>]
                                  ELSE [kind |-> "list", items |-> Held(i, seconds[i])]],
         hook |-> "none"] :
        records \in SUBSET (1..4), seconds \in [1..4 -> {1, 2, 4}]}

Classes == {null, undefined, "ok", "edge", "empty", "long", "nul", "year0", "huge", "deep", "wrong",
            "true", "false"}

\* An event of each type with every field as it should be, and one or two of its fields
\* replaced by any other value.
Good(schema) == [f \in DOMAIN schema |-> IF "ok" \in schema[f] THEN "ok" ELSE "false"]

Replaced(fields) ==
    {[fields EXCEPT ![f] = x, ![g] = y] : f \in DOMAIN fields, g \in DOMAIN fields, x \in Classes, y \in Classes}

Envelope == Good(W!TelemetryEventEnvelopeSchema)

GoodPayload(type) == Good(W!TELEMETRY_PAYLOAD_SCHEMAS[type])

WireEvents ==
    UNION {[fields : {Envelope}, payload : Replaced(GoodPayload(type)), type : {type}, schemaVersion : {2},
            object : {TRUE}, given : {"object"}, large : {FALSE}] : type \in W!TELEMETRY_EVENT_TYPES}
  \cup
    UNION {[fields : Replaced(Envelope), payload : {GoodPayload(type)}, type : {type, "wrong"},
            schemaVersion : {1, 2, 3}, object : {TRUE}, given : {"object", "absent", "wrong"},
            large : BOOLEAN] : type \in {"run.started", "tool_call.recorded"}}

Decided(type) ==
    {e \in [fields : {Envelope, [Envelope EXCEPT !.runId = "edge", !.occurredAt = "edge"]},
            payload : Replaced(GoodPayload(type)), type : {type}, schemaVersion : {2},
            object : {TRUE}, given : {"object"}, large : {FALSE}] : W!classifyEvent(e).ok}

Ungiven == [given |-> FALSE, whole |-> TRUE, value |-> 0]

OptionValues(name) ==
    LET bounds == W!Options[name]
    IN {Ungiven} \cup [given : {TRUE}, whole : BOOLEAN,
             value : {bounds[2] - 1, bounds[2], bounds[1] \div 2, bounds[3], bounds[3] + 1}]

\* Two options given, the others left to their defaults.
Configs ==
    LET With(a, b) == {[n \in DOMAIN W!Options |-> CASE n = a -> x [] n = b -> y [] OTHER -> Ungiven] :
                       x \in OptionValues(a), y \in OptionValues(b)}
    IN [options : With("maxBatchSize", "maxQueueSize") \cup With("initialBackoffMs", "maxBackoffMs")
                    \cup With("maxRetries", "maxFieldBytes") \cup With("flushIntervalMs", "requestTimeoutMs")
                    \cup With("shutdownTimeoutMs", "maxQueueSize"),
        transport : BOOLEAN, endpoint : {"none", "relative", "ftp", "http"}]

Failures ==
    {undefined} \cup [name : {"Error", "PrismaClientInitializationError"}, code : {undefined}, sqlState : {undefined}]
  \cup [name : {"PrismaClientKnownRequestError"}, code : {undefined, "P2002", "P2010", "P2028", "P10xx"},
        sqlState : {undefined, "57014", "42703"}]

Attempts ==
    LET batches == [events : {0, 1, 500, 501}, dropped : {undefined, 0, 2147483647, -1},
                    deliveryId : {undefined, "ok", "long"}, serializable : BOOLEAN, size : {"fits", "large"}]
    IN [batch : batches, link : {"up", "lost"}, busy : {undefined}, failure : Failures, readable : {TRUE, FALSE}]
         \cup [batch : batches, link : {"refused"}, busy : {undefined}, failure : {undefined}, readable : {TRUE}]
         \cup [batch : batches, link : {"busy"}, busy : {408, 425, 429, 502}, failure : {undefined}, readable : {TRUE}]

Launches ==
    [argv : [maxRepairs : {undefined, 0, 1, 2, 3}, whole : BOOLEAN, charter : {undefined, "0007"},
             charterExists : BOOLEAN],
     mode : {undefined, "", "auto", "dontAsk", "plan", "Bypasspermissions", "bypassPermissions"},
     spec : [sessionId : {"s1"}, resumeSessionId : {undefined, "s0"}, unsafe : BOOLEAN,
             claudeBin : {undefined, "absolute"}],
     override : {undefined, "absolute", "relative"}, platform : {"win32", "linux"}]

Happenings ==
    [what : {"stdout"}, line : {[kind |-> "text"], [kind |-> "partial"], [kind |-> "result", subtype |-> undefined],
                                [kind |-> "result", subtype |-> "success"],
                                [kind |-> "result", subtype |-> "error_max_turns"]}]
  \cup [what : {"report"}, report : {"notJson", "invalid", "DONE", "ROTATE"}]
  \cup [what : {"close"}, code : {0, 1, undefined}]
  \cup [what : {"timer", "error"}]

Kinds == {"steps", "run", "health", "decisions", "calls", "graph", "plan", "cadence", "batch",
          "order", "handoff", "probe", "payload", "event", "decision", "config",
          "attempt", "launch", "worker"}

Init == subject \in {Subject("nothing", kind) : kind \in Kinds}

Next == \/ Pick("steps", StepLists)
        \/ Pick("run", TimedRuns)
        \/ Pick("health", HealthInputs)
        \/ Pick("decisions", UpTo(3, Decisions))
        \/ Pick("calls", CallLists)
        \/ Pick("graph", {g \in Graphs : FewNeeds(g)} \X Disks)
        \/ Pick("plan", Plans)
        \/ Pick("cadence", Cadences)
        \/ Pick("batch", Batches)
        \/ Pick("order", Orders)
        \/ Pick("handoff", HandoffInputs)
        \/ Pick("probe", ProbeNodes)
        \/ Pick("payload", Payloads \cup Chains)
        \/ Pick("event", WireEvents)
        \/ Pick("decision", Decided("decision.recorded") \X Decided("decision.outcome_attested"))
        \/ Pick("config", Configs)
        \/ Pick("attempt", Attempts)
        \/ Pick("launch", Launches)
        \/ Pick("worker", UpTo(4, Happenings) \X BOOLEAN)

Spec == Init /\ [][Next]_subject

-----------------------------------------------------------------------------

\* buildStepTree draws every step once, where its parents put it.
StepTree == subject.kind = "steps" => TreeIsTheRun(subject.input)

\* buildRunTimeline orders by client clock alone and draws inside its window.
Timeline == subject.kind = "run" => TimelineIsTheExecution(subject.input)

\* assessIngestionHealth counts what the tool call rows show, and reports no more.
Health == subject.kind = "health" => HealthAgreesWithRows(subject.input)

\* aggregateAll is a function of the set of records, and loses none.
Aggregation == subject.kind = "decisions" => AggregatesAreOrderFree(subject.input)

\* extractCounterexamples finds the decisions that contradict the dominant option.
Counterexamples == subject.kind = "decisions" => CounterexamplesContradict(subject.input)

\* The decisions card marks "excluded from aggregation" the decisions of a live run
\* that isEligible leaves out, and no other.
ExclusionMarks ==
    subject.kind = "decisions" =>
      LET shown == SelectSeq(subject.input, LAMBDA d : ~d.runIsStale)
          views == [i \in DOMAIN shown |-> [contextKey |-> shown[i].contextKey, decisionType |-> 1,
                                            outcome |-> shown[i].outcome]]
          card == DecisionsCard([decisions |-> views])
      IN \A i \in DOMAIN card : "excluded" \in card[i].marks <=> ~isEligible(shown[i])

\* evaluateGates follows the contract of GateEvaluation.
Verdicts == subject.kind = "decisions" => CandidateMeansEveryGatePassed(subject.input)

\* detectRepeatedFailedActions reports exactly the maximal streaks.
RepeatedFailures == subject.kind = "calls" => StreaksAreMaximal(subject.input)

\* resolveGraph layers the waves of a phase.
Waves == subject.kind = "graph" => O!WavesAreLayers(subject.input[1], subject.input[2])

\* unblock traces every blocked deliverable to something that can be acted on.
Roots == subject.kind = "graph" => O!BlockedHasRoots(subject.input[1], subject.input[2])

\* sliceSection cuts the plan at the section's edges.
Slices == subject.kind = "plan" => \A id \in 1..2 : O!SliceIsTheSection(subject.input, id)

\* A class that asks for a review gets it at the gate its cadence names.
Reviews == subject.kind = "cadence" =>
             O!ReviewRunsWhereItIsDue(subject.input.units, subject.input.classes, Agents)

\* evaluate lets only a safe batch run in parallel.
Parallel == subject.kind = "batch" =>
              L!ParallelIsSafe(subject.input.units, subject.input.policy, subject.input.repo,
                               subject.input.byId, Paths)

\* dependencyOrder and dependents agree with what the units need.
Order == subject.kind = "order" => L!OrderIsRunnable(subject.input)

\* validateHandoff accepts DONE only with the evidence for it.
Evidence == subject.kind = "handoff" =>
              L!DoneIsEvidenced(subject.input.h, OneUnit, subject.input.commits)

\* lintProbes passes only probes of what their node owns.
Probes == subject.kind = "probe" =>
            L!ProbesReadTheirOwn(subject.input, Paths \cup {<<".artifacts", "b">>})

Root == [k |-> "ref", to |-> 1, copy |-> FALSE]

\* A field is capped, marked and measured.
Caps == subject.kind = "payload" =>
          \A maxBytes \in {24, 33} : P!FieldsFit(subject.input.heap, Root, subject.input.hook, maxBytes)

\* Redaction reaches every nested value.
Redaction == subject.kind = "payload" => P!SecretsStayHidden(subject.input.heap, Root, subject.input.hook, 33)

\* The fingerprint does not depend on the order of keys.
Fingerprints == subject.kind = "payload" => P!FingerprintIsOrderFree(subject.input.heap, Root, subject.input.hook)

\* The walk is bounded and tells cycles from sharing.
Walks == subject.kind = "payload" => P!WalkEnds(subject.input.heap, Root, subject.input.hook)

\* parseTelemetryEvent reports the earliest fault.
Faults == subject.kind = "event" => W!EarliestFaultIsReported(subject.input)

\* The database takes everything classifyEvent lets through.
Columns == subject.kind = "event" => W!StoresWhatItAccepts(subject.input)

\* The client's gate and the server's parser agree.
Gates == subject.kind = "event" =>
           \A serializable \in BOOLEAN : W!ClientGateIsTheServers(subject.input, serializable)

\* Recording and attesting a decision commute.
DecisionRows ==
    subject.kind = "decision" =>
      W!DecisionRowConverges(W!classifyEvent(subject.input[1]), W!classifyEvent(subject.input[2]))

\* A configuration that resolves can be run.
ConfigResolves == subject.kind = "config" => W!ResolvedConfigRuns(subject.input)

\* The transport's outcome says what happened to the batch.
Exchanges == subject.kind = "attempt" => X!OutcomeIsWhatHappened(subject.input)

\* A run is started within the bounds someone authorised.
Authority == subject.kind = "launch" =>
               K!RunsAsAuthorised(subject.input.argv, subject.input.mode, subject.input.spec,
                                  subject.input.override, subject.input.platform)

\* A worker's outcome is earned.
Outcomes == subject.kind = "worker" => K!OutcomeIsEarned(subject.input[1], subject.input[2])

PlanOf == <<[level |-> 1, id |-> 1], [level |-> 0, id |-> 0], [level |-> 1, id |-> 2]>>

\* The packet and the gate's unit are the same work.
Packets ==
    subject.kind = "graph" =>
      LET graph == subject.input[1]
          byId == O!resolveGraph(graph, subject.input[2])
      IN \A n \in graph.nodes :
           O!PacketAgreesWithUnit(graph, byId, PlanOf, n.id, L!unitFrom(n, byId, {n.id}, graph))

(* By part of the system. *)

\* The run page shows the run: every step once, the timeline, the health and the marks that
\* the rows justify (step-tree.ts, timeline.ts, run-telemetry.ts and the cards).
PagesShowTheRun == StepTree /\ Timeline /\ Health /\ ExclusionMarks

\* The analysis does not depend on the order of records, contradicts only with evidence, and
\* calls a candidate what passed every gate (analysis-engine).
AnalysisIsSound == Aggregation /\ Counterexamples /\ Verdicts /\ RepeatedFailures

\* The oracle, the lanes and the worker runner agree on what may be worked on, by whom, at
\* once or in order, and what counts as done (oracle.ts, lanes.ts, autopilot/worker.ts).
DeliveryRulesHold ==
    /\ Waves /\ Roots /\ Slices /\ Reviews /\ Packets
    /\ Parallel /\ Order /\ Evidence /\ Probes
    /\ Authority /\ Outcomes

\* A payload is safe when it leaves the client, and the server stores what it accepts
\* (payload-safety.ts, shared/schema, wire-sanitize.ts, the tables, transport.ts).
WireIsSound ==
    /\ Caps /\ Redaction /\ Fingerprints /\ Walks
    /\ Faults /\ Columns /\ Gates /\ DecisionRows /\ ConfigResolves /\ Exchanges
=============================================================================
