---------------------------- MODULE WireContract ----------------------------
(***************************************************************************)
(* The wire contract (shared/schema), the server's screens in front of     *)
(* the database (api/src/telemetry/wire-sanitize.ts), the rows events      *)
(* become, and the client's gate (telemetry-sdk/src/events.ts) and         *)
(* configuration (config.ts).                                              *)
(*                                                                         *)
(* A field's value is the class of values it belongs to: "ok", and         *)
(*   empty, long    a string of no characters, or over its maximum;        *)
(*   nul            NUL or half a surrogate pair somewhere in it;          *)
(*   year0          a timestamp in a UTC year below 1;                     *)
(*   huge           an integer above the largest int4;                     *)
(*   deep           nested deeper than MAX_STRUCTURAL_DEPTH;               *)
(*   edge           the last value within every one of those bounds;       *)
(*   wrong          none of what the schema describes;                     *)
(* or null, or absent when the key is missing.                             *)
(***************************************************************************)
EXTENDS Integers, FiniteSets, TLC

CONSTANTS null, absent,
          MAX_SAFE_INTEGER      \* Number.MAX_SAFE_INTEGER

\* Objects spread into one: the fields of f, and those of g that f does not have.
f ++ g == [x \in DOMAIN f \cup DOMAIN g |-> IF x \in DOMAIN f THEN f[x] ELSE g[x]]

\* event-type.ts and schema-version.ts: every type and the version it arrived with.
MIN_SCHEMA_VERSION ==
    [t \in {"run.started", "run.completed", "step.started", "step.completed"} |-> 1] ++
    [t \in {"decision.recorded", "decision.outcome_attested", "model_call.recorded",
            "tool_call.recorded", "error.recorded"} |-> 2]

TELEMETRY_EVENT_TYPES == DOMAIN MIN_SCHEMA_VERSION

TELEMETRY_SCHEMA_VERSIONS == {1, 2}

TELEMETRY_SCHEMA_VERSION == 2

eventTypeAvailableAt(type, version) == version >= MIN_SCHEMA_VERSION[type]

-----------------------------------------------------------------------------

\* What the schema of each kind of field accepts.
Accepts(kind) ==
    CASE kind \in {"id", "name", "options"} -> {"ok", "edge", "nul"}
      [] kind = "timestamp" -> {"ok", "edge", "year0"}
      [] kind = "int" -> {"ok", "edge", "huge"}
      [] kind = "flag" -> {"true", "false"}
      [] kind = "enum" -> {"ok", "edge"}
      [] kind = "string" -> {"ok", "edge", "empty", "long", "nul"}
      [] kind = "metadata" -> {"ok", "edge", "nul", "deep"}
      [] kind = "unknown" -> {"ok", "edge", "empty", "long", "nul", "deep", "wrong"}

Required(kinds) == [f \in DOMAIN kinds |-> Accepts(kinds[f])]

Nullable(kinds) == [f \in DOMAIN kinds |-> Accepts(kinds[f]) \cup {null}]

Nullish(kinds) == [f \in DOMAIN kinds |-> Accepts(kinds[f]) \cup {null, absent}]

TelemetryEventEnvelopeSchema ==
    Required([eventId |-> "id", entityId |-> "id", runId |-> "id", occurredAt |-> "timestamp"])

RunStartedPayloadSchema ==
    Required([workflowName |-> "name", workflowVersion |-> "name"]) ++ Nullish([metadata |-> "metadata"])

StepStartedPayloadSchema ==
    Required([name |-> "name", agentName |-> "name", type |-> "name"])
      ++ Nullable([parentStepId |-> "id"]) ++ Nullish([metadata |-> "metadata"])

RunCompletedPayloadSchema == Required([status |-> "enum"]) ++ Nullish([metadata |-> "metadata"])

StepCompletedPayloadSchema == Required([status |-> "enum"]) ++ Nullish([metadata |-> "metadata"])

DecisionRecordedPayloadSchema ==
    Required([stepId |-> "id", decisionType |-> "name", availableOptions |-> "options",
              selectedOption |-> "name"])
      ++ Nullish([contextKey |-> "name", contextKeyVersion |-> "name", rawContext |-> "metadata"])

DecisionOutcomeAttestedPayloadSchema ==
    Required([outcome |-> "enum"]) ++ Nullish([observedAt |-> "timestamp"])

ModelCallRecordedPayloadSchema ==
    Required([stepId |-> "id", provider |-> "name", model |-> "name", latencyMs |-> "int", status |-> "name"])
      ++ Nullish([inputTokens |-> "int", outputTokens |-> "int", metadata |-> "metadata"])

ToolCallRecordedPayloadObjectSchema ==
    Required([stepId |-> "id", toolName |-> "name", inputTruncated |-> "flag", outputTruncated |-> "flag",
              startedAt |-> "timestamp", completedAt |-> "timestamp", durationMs |-> "int", success |-> "flag"])
      ++ Nullish([input |-> "unknown", output |-> "unknown", inputBytes |-> "int", outputBytes |-> "int",
                  error |-> "string"])

ErrorRecordedPayloadSchema ==
    Required([stepId |-> "id", type |-> "name", message |-> "string"]) ++ Nullish([metadata |-> "metadata"])

\* registry.ts
TELEMETRY_PAYLOAD_SCHEMAS ==
    [type \in TELEMETRY_EVENT_TYPES |->
       CASE type = "run.started" -> RunStartedPayloadSchema
         [] type = "run.completed" -> RunCompletedPayloadSchema
         [] type = "step.started" -> StepStartedPayloadSchema
         [] type = "step.completed" -> StepCompletedPayloadSchema
         [] type = "decision.recorded" -> DecisionRecordedPayloadSchema
         [] type = "decision.outcome_attested" -> DecisionOutcomeAttestedPayloadSchema
         [] type = "model_call.recorded" -> ModelCallRecordedPayloadSchema
         [] type = "tool_call.recorded" -> ToolCallRecordedPayloadObjectSchema
         [] type = "error.recorded" -> ErrorRecordedPayloadSchema]

Issues(schema, value) == {f \in DOMAIN schema : value[f] \notin schema[f]}

\* ToolCallRecordedPayloadSchema's superRefine: truncation keeps the measurement.
Measured(payload) ==
    /\ payload.inputTruncated = "true" => payload.inputBytes \notin {null, absent}
    /\ payload.outputTruncated = "true" => payload.outputBytes \notin {null, absent}

PayloadIssues(type, payload) ==
    \/ Issues(TELEMETRY_PAYLOAD_SCHEMAS[type], payload) # {}
    \/ type = "tool_call.recorded" /\ ~Measured(payload)

(***************************************************************************)
(* parse.ts.  An input: whether it is a JSON object, its envelope fields,  *)
(* version and type (or "wrong"), what it gives as payload ("object",      *)
(* "absent", "wrong") and that object's fields, and whether it exceeds     *)
(* maxEventPayloadBytes.                                                   *)
(***************************************************************************)
readEventId(input) == IF input.fields.eventId \in Accepts("id") THEN input.fields.eventId ELSE "unreadable"

envelopeIssues(input) ==
    Issues(TelemetryEventEnvelopeSchema, input.fields)
      \cup {k \in {"schemaVersion"} : input.schemaVersion \notin TELEMETRY_SCHEMA_VERSIONS}
      \cup {k \in {"type"} : input.type \notin TELEMETRY_EVENT_TYPES}
      \cup {k \in {"payload"} : input.given = "absent"}

classifyEnvelopeFailure(issues) ==
    IF "schemaVersion" \in issues THEN "UNSUPPORTED_SCHEMA_VERSION"
    ELSE IF "type" \in issues THEN "UNKNOWN_EVENT_TYPE"
    ELSE IF issues \cap {"eventId", "entityId", "runId", "occurredAt"} # {} THEN "MISSING_REQUIRED_FIELD"
    ELSE "INVALID_PAYLOAD"

reject(eventId, code) == [ok |-> FALSE, eventId |-> eventId, code |-> code]

\* buildEvent: the payload is stripped to the keys of its schema.
buildEvent(input) ==
    IF input.given # "object" \/ PayloadIssues(input.type, input.payload)
    THEN reject(readEventId(input), "INVALID_PAYLOAD")
    ELSE [ok |-> TRUE, type |-> input.type, fields |-> input.fields,
          payload |-> [f \in DOMAIN TELEMETRY_PAYLOAD_SCHEMAS[input.type] |-> input.payload[f]]]

parseTelemetryEvent(input) ==
    LET issues == envelopeIssues(input)
    IN CASE ~input.object -> reject("unreadable", "MISSING_REQUIRED_FIELD")
         [] input.object /\ issues # {} -> reject(readEventId(input), classifyEnvelopeFailure(issues))
         [] OTHER ->
              IF eventTypeAvailableAt(input.type, input.schemaVersion)
              THEN buildEvent(input) ELSE reject(readEventId(input), "UNKNOWN_EVENT_TYPE")

-----------------------------------------------------------------------------
(***************************************************************************)
(* wire-sanitize.ts                                                        *)
(***************************************************************************)
Values(event) == {event.fields[f] : f \in DOMAIN event.fields} \cup {event.payload[f] : f \in DOMAIN event.payload}

exceedsMaxStructuralDepth(event) == \E f \in DOMAIN event.payload : event.payload[f] = "deep"

containsUnsafeUnicode(event) == "nul" \in Values(event)

isPostgresUnrepresentableTimestamp(value) == value = "year0"

exceedsPostgresInt4(value) == value = "huge"

PERSISTED_PAYLOAD_TIMESTAMP_FIELDS(type) ==
    CASE type = "decision.outcome_attested" -> {"observedAt"}
      [] type = "tool_call.recorded" -> {"startedAt", "completedAt"}
      [] OTHER -> {}

PERSISTED_PAYLOAD_INT4_FIELDS(type) ==
    CASE type = "model_call.recorded" -> {"latencyMs", "inputTokens", "outputTokens"}
      [] type = "tool_call.recorded" -> {"inputBytes", "outputBytes", "durationMs"}
      [] OTHER -> {}

unrepresentablePayloadReason(event) ==
    \/ \E f \in PERSISTED_PAYLOAD_TIMESTAMP_FIELDS(event.type) :
         isPostgresUnrepresentableTimestamp(event.payload[f])
    \/ \E f \in PERSISTED_PAYLOAD_INT4_FIELDS(event.type) : exceedsPostgresInt4(event.payload[f])

\* classifyEvent of telemetry.service.ts: what a batch entry is answered, or where it goes.
classifyEvent(input) ==
    LET event == parseTelemetryEvent(input)
    IN CASE input.large -> reject(readEventId(input), "EVENT_TOO_LARGE")
         [] ~input.large /\ ~event.ok -> event
         [] OTHER ->
              IF \/ exceedsMaxStructuralDepth(event)
                 \/ containsUnsafeUnicode(event)
                 \/ isPostgresUnrepresentableTimestamp(event.fields.occurredAt)
                 \/ unrepresentablePayloadReason(event)
              THEN reject(event.fields.eventId, "INVALID_PAYLOAD")
              ELSE event

-----------------------------------------------------------------------------
(***************************************************************************)
(* The rows: event-mapping.ts and the record and repository files.         *)
(***************************************************************************)
entityKindOf(type) ==
    CASE type \in {"run.started", "run.completed"} -> "run"
      [] type \in {"step.started", "step.completed"} -> "step"
      [] type \in {"decision.recorded", "decision.outcome_attested"} -> "decision"
      [] type = "model_call.recorded" -> "model_call"
      [] type = "tool_call.recorded" -> "tool_call"
      [] type = "error.recorded" -> "error"

\* `value ?? null`, and toJsonInput.
orNull(value) == IF value = absent THEN null ELSE value

Ids(event) == [id |-> event.fields.entityId, runId |-> event.fields.runId]

\* Each payload field under its own name.
Named(event) == Ids(event) ++ [f \in DOMAIN event.payload |-> orNull(event.payload[f])]

toToolCallWrite(event) == Named(event)

toModelCallWrite(event) == Named(event)

toErrorRecordWrite(event) == Named(event)

toDecisionRecordWrite(event) == Named(event)

toDecisionAttestation(event) ==
    [outcome |-> event.payload.outcome, outcomeAttestedBy |-> "CALLER",
     outcomeObservedAt |-> IF orNull(event.payload.observedAt) = null THEN event.fields.occurredAt
                           ELSE event.payload.observedAt]

\* toMergeEvent: the payload without its status, and the columns its kind fills in the row.
toMergeEvent(event) ==
    LET started == event.type \in {"run.started", "step.started"}
        columns == IF started THEN [startedAt |-> event.fields.occurredAt, startEventId |-> event.fields.eventId]
                   ELSE [completedAt |-> event.fields.occurredAt, completionEventId |-> event.fields.eventId,
                         status |-> event.payload.status]
    IN Ids(event) ++ columns
         ++ [f \in DOMAIN event.payload \ {"status"} |-> orNull(event.payload[f])]

\* schema.prisma: what each column holds.
Column(type) ==
    CASE type = "varchar" -> {"ok", "edge", "empty"}
      [] type = "text" -> {"ok", "edge", "empty", "long"}
      [] type \in {"timestamptz", "int4"} -> {"ok", "edge"}
      [] type = "boolean" -> {"true", "false"}
      [] type = "enum" -> {"ok", "edge", "CALLER", "UNKNOWN"}
      [] type = "jsonb" -> {"ok", "edge", "empty", "long", "wrong"}

NotNull(types) == [f \in DOMAIN types |-> Column(types[f])]

MaybeNull(types) == [f \in DOMAIN types |-> Column(types[f]) \cup {null}]

Keys == NotNull([id |-> "varchar", runId |-> "varchar"])

Merged == MaybeNull([startedAt |-> "timestamptz", completedAt |-> "timestamptz", startEventId |-> "varchar",
                     completionEventId |-> "varchar", metadata |-> "jsonb"]) ++ NotNull([status |-> "enum"])

RunTable == Keys ++ Merged ++ MaybeNull([workflowName |-> "varchar", workflowVersion |-> "varchar"])

StepTable ==
    Keys ++ Merged ++ MaybeNull([parentStepId |-> "varchar", name |-> "varchar", agentName |-> "varchar",
                                 type |-> "varchar"])

DecisionTable ==
    Keys ++ MaybeNull([stepId |-> "varchar", decisionType |-> "varchar", contextKey |-> "varchar",
                       contextKeyVersion |-> "varchar", rawContext |-> "jsonb", availableOptions |-> "jsonb",
                       selectedOption |-> "varchar", outcomeObservedAt |-> "timestamptz"])
         ++ NotNull([outcome |-> "enum", outcomeAttestedBy |-> "enum"])

ModelCallTable ==
    Keys ++ NotNull([stepId |-> "varchar", provider |-> "varchar", model |-> "varchar", latencyMs |-> "int4",
                     status |-> "varchar"])
         ++ MaybeNull([inputTokens |-> "int4", outputTokens |-> "int4", metadata |-> "jsonb"])

ToolCallTable ==
    Keys ++ NotNull([stepId |-> "varchar", toolName |-> "varchar", inputTruncated |-> "boolean",
                     outputTruncated |-> "boolean", startedAt |-> "timestamptz", completedAt |-> "timestamptz",
                     durationMs |-> "int4", success |-> "boolean"])
         ++ MaybeNull([input |-> "jsonb", output |-> "jsonb", inputBytes |-> "int4", outputBytes |-> "int4",
                       error |-> "text"])

ErrorTable ==
    Keys ++ NotNull([stepId |-> "varchar", type |-> "varchar", message |-> "text"])
         ++ MaybeNull([metadata |-> "jsonb"])

Table == [run |-> RunTable, step |-> StepTable, decision |-> DecisionTable, model_call |-> ModelCallTable,
          tool_call |-> ToolCallTable, error |-> ErrorTable]

NoRow == [c \in {} |-> null]

\* A new Decision's columns before an event sets them: the model's defaults.
DecisionDefaults ==
    [c \in DOMAIN DecisionTable |-> IF c \in {"outcome", "outcomeAttestedBy"} THEN "UNKNOWN" ELSE null]

\* DecisionsRepository.attestOutcome: runId is written only when the row is created.
attestOutcome(row, event) == toDecisionAttestation(event) ++ row ++ Ids(event) ++ DecisionDefaults

\* DecisionsRepository.record: the attestation's columns are left alone.
recordDecision(row, event) == toDecisionRecordWrite(event) ++ row ++ DecisionDefaults

\* The upsert of each kind of event into the row its entity has so far.
write(row, event) ==
    CASE entityKindOf(event.type) \in {"run", "step"} -> toMergeEvent(event) ++ row
      [] event.type = "decision.outcome_attested" -> attestOutcome(row, event)
      [] event.type = "decision.recorded" -> recordDecision(row, event)
      [] event.type = "tool_call.recorded" -> toToolCallWrite(event)
      [] event.type = "model_call.recorded" -> toModelCallWrite(event)
      [] event.type = "error.recorded" -> toErrorRecordWrite(event)

-----------------------------------------------------------------------------
(***************************************************************************)
(* The client: events.ts and config.ts                                     *)
(***************************************************************************)

\* buildEnvelope: a record method's event.
buildEnvelope(call) ==
    [object |-> TRUE, fields |-> call.fields, schemaVersion |-> TELEMETRY_SCHEMA_VERSION, type |-> call.type,
     given |-> "object", payload |-> call.payload, large |-> call.large]

checkEnvelope(envelope, serializable) ==
    CASE envelopeIssues(envelope) # {} -> "event_invalid"
      [] envelopeIssues(envelope) = {} /\ PayloadIssues(envelope.type, envelope.payload) -> "event_invalid"
      [] OTHER -> IF ~serializable THEN "event_invalid" ELSE IF envelope.large THEN "event_too_large" ELSE "ok"

INGEST_LIMITS == [maxEventsPerBatch |-> 500, maxEventPayloadBytes |-> 65536]

\* Each numeric option: its default and the bounds positiveInt, nonNegativeInt or boundedInt
\* holds it to.
Options ==
    [flushIntervalMs |-> <<1000, 1, MAX_SAFE_INTEGER>>,
     requestTimeoutMs |-> <<5000, 1, MAX_SAFE_INTEGER>>,
     shutdownTimeoutMs |-> <<5000, 1, MAX_SAFE_INTEGER>>,
     maxBatchSize |-> <<100, 1, INGEST_LIMITS.maxEventsPerBatch>>,
     maxQueueSize |-> <<10000, 1, MAX_SAFE_INTEGER>>,
     initialBackoffMs |-> <<200, 1, MAX_SAFE_INTEGER>>,
     maxBackoffMs |-> <<5000, 1, MAX_SAFE_INTEGER>>,
     maxRetries |-> <<3, 0, 100>>,
     maxFieldBytes |-> <<32768, 256, INGEST_LIMITS.maxEventPayloadBytes>>]

\* An option not given takes its default; `whole` is Number.isInteger.
resolveInt(name, option) == IF option.given THEN option ELSE [whole |-> TRUE, value |-> Options[name][1]]

inBounds(name, option) ==
    LET r == resolveInt(name, option)
    IN r.whole /\ r.value >= Options[name][2] /\ r.value <= Options[name][3]

resolveTransport(config) ==
    IF config.transport THEN "supplied"
    ELSE IF config.endpoint \in {"http", "https"} THEN "http" ELSE "throws"

resolveConfig(config) ==
    LET value(name) == resolveInt(name, config.options[name]).value
    IN IF /\ \A name \in DOMAIN Options : inBounds(name, config.options[name])
          /\ value("maxQueueSize") >= value("maxBatchSize")
          /\ value("maxBackoffMs") >= value("initialBackoffMs")
          /\ resolveTransport(config) # "throws"
       THEN [ok |-> TRUE, options |-> [name \in DOMAIN Options |-> value(name)]]
       ELSE [ok |-> FALSE]

\* IngestRequestSchema, for a request of so many events.
IngestRequestSchema(events) == events >= 1 /\ events <= INGEST_LIMITS.maxEventsPerBatch

-----------------------------------------------------------------------------

(***************************************************************************)
(* An event wrong in several ways is refused for one of them, and those    *)
(* that come before it in the order of section 12 (version, type, required *)
(* fields, payload) are right.  The one exception to that order is a type  *)
(* its version does not have yet: parseTelemetryEvent looks for it last,   *)
(* so any other fault of the envelope is reported in its place.  A         *)
(* readable eventId is always in the answer.                               *)
(***************************************************************************)
Bullet == [UNSUPPORTED_SCHEMA_VERSION |-> 1, UNKNOWN_EVENT_TYPE |-> 2,
           MISSING_REQUIRED_FIELD |-> 3, INVALID_PAYLOAD |-> 4]

NotYet(input) ==
    /\ envelopeIssues(input) \cap {"schemaVersion", "type"} = {}
    /\ ~eventTypeAvailableAt(input.type, input.schemaVersion)

Wrong(input, bullet) ==
    LET issues == envelopeIssues(input)
    IN \/ bullet = 1 /\ "schemaVersion" \in issues
       \/ bullet = 2 /\ ("type" \in issues \/ NotYet(input))
       \/ bullet = 3 /\ issues \cap {"eventId", "entityId", "runId", "occurredAt"} # {}
       \/ bullet = 4 /\ (input.given # "object" \/ PayloadIssues(input.type, input.payload))

EarliestFaultIsReported(input) ==
    LET answer == parseTelemetryEvent(input)
    IN ~answer.ok /\ input.object =>
         /\ answer.eventId = readEventId(input)
         /\ Wrong(input, Bullet[answer.code])
         /\ \A b \in 1 .. Bullet[answer.code] - 1 :
              Wrong(input, b) => b = 2 /\ NotYet(input) /\ envelopeIssues(input) # {}

\* What classifyEvent lets through, every column it is written to can hold: no event of a
\* batch makes the database refuse the group or the write it is part of.
StoresWhatItAccepts(input) ==
    LET event == classifyEvent(input)
        table == Table[entityKindOf(event.type)]
        row == write(NoRow, event)
    IN event.ok => \A c \in DOMAIN row : c \in DOMAIN table /\ row[c] \in table[c]

\* A recording and an attestation of one decision leave the same row in either order and
\* however often they are repeated: the recording's run and fields, the attestation's
\* outcome, and an instant for it.
DecisionRowConverges(recording, attestation) ==
    LET a == write(write(NoRow, recording), attestation)
        b == write(write(NoRow, attestation), recording)
    IN /\ a = b
       /\ write(write(a, recording), attestation) = a
       /\ a.runId = recording.fields.runId
       /\ a.outcome = attestation.payload.outcome
       /\ a.outcomeObservedAt # null

\* checkEnvelope lets through what the server's parser accepts and nothing else: what a
\* batch entry is refused for after it are only the screens of wire-sanitize.ts.
ClientGateIsTheServers(call, serializable) ==
    LET envelope == buildEnvelope(call)
        passed == checkEnvelope(envelope, serializable) = "ok"
        answer == classifyEvent(envelope)
    IN /\ passed <=> serializable /\ ~envelope.large /\ parseTelemetryEvent(envelope).ok
       /\ passed /\ ~answer.ok =>
            {"deep", "nul", "year0", "huge"} \cap Values(parseTelemetryEvent(envelope)) # {}

Timers == {"flushIntervalMs", "requestTimeoutMs", "shutdownTimeoutMs", "initialBackoffMs"}

\* A configuration resolveConfig accepts can be run: a batch of the most events it allows has
\* no more than the server takes (its bytes are another matter) and the queue can hold them,
\* backing off never starts above its ceiling, and no timer is set for no time at all.
ResolvedConfigRuns(config) ==
    LET c == resolveConfig(config)
    IN c.ok => /\ \A n \in {1, c.options.maxBatchSize} : IngestRequestSchema(n) /\ n <= c.options.maxQueueSize
               /\ c.options.initialBackoffMs <= c.options.maxBackoffMs
               /\ \A name \in Timers : c.options[name] > 0
               /\ \A name \in DOMAIN Options :
                    config.options[name].given => c.options[name] = config.options[name].value
=============================================================================
