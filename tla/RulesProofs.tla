----------------------------- MODULE RulesProofs ----------------------------
(***************************************************************************)
(* Proofs about the pure rules at the edges of the system, for every       *)
(* input: the wire contract and the rows events become (WireContract), one *)
(* attempt to deliver a batch (Exchange), and the worker process of the    *)
(* autopilot (Worker).  TLC checks the same statements on bounded inputs   *)
(* (MCDerivations), with one or two fields of an event replaced; here all  *)
(* fields vary at once, and a worker's trace has any length.               *)
(***************************************************************************)
EXTENDS Exchange, Sequences, WellFoundedInduction, TLAPS

\* A value not given is absent in both.
K == INSTANCE Worker

\* The classes of values a field can have.
Classes == {"ok", "edge", "empty", "long", "nul", "year0", "huge", "deep", "wrong", "true", "false"}

\* null and a missing key are no string, number or flag.
Apart == null \notin Classes /\ absent \notin Classes

\* The nine types of events.
LEMMA Types ==
    TELEMETRY_EVENT_TYPES = {"run.started", "run.completed", "step.started", "step.completed", "decision.recorded",
                             "decision.outcome_attested", "model_call.recorded", "tool_call.recorded",
                             "error.recorded"}
  BY DEF TELEMETRY_EVENT_TYPES, MIN_SCHEMA_VERSION, ++

\* Each type and the schema of its payload.
LEMMA Schemas ==
    /\ TELEMETRY_PAYLOAD_SCHEMAS["run.started"] = RunStartedPayloadSchema
    /\ TELEMETRY_PAYLOAD_SCHEMAS["run.completed"] = RunCompletedPayloadSchema
    /\ TELEMETRY_PAYLOAD_SCHEMAS["step.started"] = StepStartedPayloadSchema
    /\ TELEMETRY_PAYLOAD_SCHEMAS["step.completed"] = StepCompletedPayloadSchema
    /\ TELEMETRY_PAYLOAD_SCHEMAS["decision.recorded"] = DecisionRecordedPayloadSchema
    /\ TELEMETRY_PAYLOAD_SCHEMAS["decision.outcome_attested"] = DecisionOutcomeAttestedPayloadSchema
    /\ TELEMETRY_PAYLOAD_SCHEMAS["model_call.recorded"] = ModelCallRecordedPayloadSchema
    /\ TELEMETRY_PAYLOAD_SCHEMAS["tool_call.recorded"] = ToolCallRecordedPayloadObjectSchema
    /\ TELEMETRY_PAYLOAD_SCHEMAS["error.recorded"] = ErrorRecordedPayloadSchema
  BY Types DEF TELEMETRY_PAYLOAD_SCHEMAS

\* Each type and the table its entity is a row of.
LEMMA TableOf ==
    /\ \A t \in {"run.started", "run.completed"} : Table[entityKindOf(t)] = RunTable
    /\ \A t \in {"step.started", "step.completed"} : Table[entityKindOf(t)] = StepTable
    /\ \A t \in {"decision.recorded", "decision.outcome_attested"} : Table[entityKindOf(t)] = DecisionTable
    /\ Table[entityKindOf("model_call.recorded")] = ModelCallTable
    /\ Table[entityKindOf("tool_call.recorded")] = ToolCallTable
    /\ Table[entityKindOf("error.recorded")] = ErrorTable
  BY DEF Table, entityKindOf

\* A payload its schema and the screens of wire-sanitize.ts let through.
Screened(type, p) ==
    LET S == TELEMETRY_PAYLOAD_SCHEMAS[type]
    IN /\ \A f \in DOMAIN S : p[f] \in S[f] /\ p[f] \notin {"deep", "nul"}
       /\ \A f \in PERSISTED_PAYLOAD_TIMESTAMP_FIELDS(type) : p[f] # "year0"
       /\ \A f \in PERSISTED_PAYLOAD_INT4_FIELDS(type) : p[f] # "huge"

\* The column f of the entity's table can hold the payload's field f.
Fits(type, p, f) ==
    LET T == Table[entityKindOf(type)]
    IN f \in DOMAIN T /\ orNull(p[f]) \in T[f]

\* What each kind of field accepts.
LEMMA AcceptsIs ==
    /\ \A k \in {"id", "name", "options"} : Accepts(k) = {"ok", "edge", "nul"}
    /\ Accepts("timestamp") = {"ok", "edge", "year0"}
    /\ Accepts("int") = {"ok", "edge", "huge"}
    /\ Accepts("flag") = {"true", "false"}
    /\ Accepts("enum") = {"ok", "edge"}
    /\ Accepts("string") = {"ok", "edge", "empty", "long", "nul"}
    /\ Accepts("metadata") = {"ok", "edge", "nul", "deep"}
    /\ Accepts("unknown") = {"ok", "edge", "empty", "long", "nul", "deep", "wrong"}
  BY DEF Accepts

\* What each type of column holds.
LEMMA ColumnIs ==
    /\ Column("varchar") = {"ok", "edge", "empty"}
    /\ Column("text") = {"ok", "edge", "empty", "long"}
    /\ \A type \in {"timestamptz", "int4"} : Column(type) = {"ok", "edge"}
    /\ Column("boolean") = {"true", "false"}
    /\ Column("enum") = {"ok", "edge", "CALLER", "UNKNOWN"}
    /\ Column("jsonb") = {"ok", "edge", "empty", "long", "wrong"}
  BY DEF Column

\* The fields of RunStartedPayloadSchema and what they accept.
LEMMA RunStartedSchemaFields ==
    LET S == RunStartedPayloadSchema
    IN /\ DOMAIN S = {"workflowName", "workflowVersion", "metadata"}
       /\ \A f \in {"workflowName", "workflowVersion"} : S[f] = Accepts("name")
       /\ S["metadata"] = Accepts("metadata") \cup {null, absent}
  BY DEF RunStartedPayloadSchema, Required, Nullable, Nullish, ++

\* The fields of RunCompletedPayloadSchema and what they accept.
LEMMA RunCompletedSchemaFields ==
    LET S == RunCompletedPayloadSchema
    IN /\ DOMAIN S = {"status", "metadata"}
       /\ S["status"] = Accepts("enum")
       /\ S["metadata"] = Accepts("metadata") \cup {null, absent}
  BY DEF RunCompletedPayloadSchema, Required, Nullable, Nullish, ++

\* The fields of StepCompletedPayloadSchema and what they accept.
LEMMA StepCompletedSchemaFields ==
    LET S == StepCompletedPayloadSchema
    IN /\ DOMAIN S = {"status", "metadata"}
       /\ S["status"] = Accepts("enum")
       /\ S["metadata"] = Accepts("metadata") \cup {null, absent}
  BY DEF StepCompletedPayloadSchema, Required, Nullable, Nullish, ++

\* The fields of StepStartedPayloadSchema and what they accept.
LEMMA StepStartedSchemaFields ==
    LET S == StepStartedPayloadSchema
    IN /\ DOMAIN S = {"name", "agentName", "type", "parentStepId", "metadata"}
       /\ \A f \in {"name", "agentName", "type"} : S[f] = Accepts("name")
       /\ S["parentStepId"] = Accepts("id") \cup {null}
       /\ S["metadata"] = Accepts("metadata") \cup {null, absent}
  BY DEF StepStartedPayloadSchema, Required, Nullable, Nullish, ++

\* The fields of DecisionRecordedPayloadSchema and what they accept.
LEMMA DecisionRecordedSchemaFields ==
    LET S == DecisionRecordedPayloadSchema
    IN /\ DOMAIN S = {"stepId", "decisionType", "selectedOption", "availableOptions", "contextKey",
                         "contextKeyVersion", "rawContext"}
       /\ S["stepId"] = Accepts("id")
       /\ \A f \in {"decisionType", "selectedOption"} : S[f] = Accepts("name")
       /\ S["availableOptions"] = Accepts("options")
       /\ \A f \in {"contextKey", "contextKeyVersion"} : S[f] = Accepts("name") \cup {null, absent}
       /\ S["rawContext"] = Accepts("metadata") \cup {null, absent}
  BY DEF DecisionRecordedPayloadSchema, Required, Nullable, Nullish, ++

\* The fields of DecisionOutcomeAttestedPayloadSchema and what they accept.
LEMMA DecisionOutcomeAttestedSchemaFields ==
    LET S == DecisionOutcomeAttestedPayloadSchema
    IN /\ DOMAIN S = {"outcome", "observedAt"}
       /\ S["outcome"] = Accepts("enum")
       /\ S["observedAt"] = Accepts("timestamp") \cup {null, absent}
  BY DEF DecisionOutcomeAttestedPayloadSchema, Required, Nullable, Nullish, ++

\* The fields of ModelCallRecordedPayloadSchema and what they accept.
LEMMA ModelCallRecordedSchemaFields ==
    LET S == ModelCallRecordedPayloadSchema
    IN /\ DOMAIN S = {"stepId", "provider", "model", "status", "latencyMs", "inputTokens", "outputTokens",
                         "metadata"}
       /\ S["stepId"] = Accepts("id")
       /\ \A f \in {"provider", "model", "status"} : S[f] = Accepts("name")
       /\ S["latencyMs"] = Accepts("int")
       /\ \A f \in {"inputTokens", "outputTokens"} : S[f] = Accepts("int") \cup {null, absent}
       /\ S["metadata"] = Accepts("metadata") \cup {null, absent}
  BY DEF ModelCallRecordedPayloadSchema, Required, Nullable, Nullish, ++

\* The fields of ToolCallRecordedPayloadSchema and what they accept.
LEMMA ToolCallRecordedSchemaFields ==
    LET S == ToolCallRecordedPayloadObjectSchema
    IN /\ DOMAIN S = {"stepId", "toolName", "inputTruncated", "outputTruncated", "success", "startedAt",
                         "completedAt", "durationMs", "input", "output", "inputBytes", "outputBytes",
                         "error"}
       /\ S["stepId"] = Accepts("id")
       /\ S["toolName"] = Accepts("name")
       /\ \A f \in {"inputTruncated", "outputTruncated", "success"} : S[f] = Accepts("flag")
       /\ \A f \in {"startedAt", "completedAt"} : S[f] = Accepts("timestamp")
       /\ S["durationMs"] = Accepts("int")
       /\ \A f \in {"input", "output"} : S[f] = Accepts("unknown") \cup {null, absent}
       /\ \A f \in {"inputBytes", "outputBytes"} : S[f] = Accepts("int") \cup {null, absent}
       /\ S["error"] = Accepts("string") \cup {null, absent}
  BY DEF ToolCallRecordedPayloadObjectSchema, Required, Nullable, Nullish, ++

\* The fields of ErrorRecordedPayloadSchema and what they accept.
LEMMA ErrorRecordedSchemaFields ==
    LET S == ErrorRecordedPayloadSchema
    IN /\ DOMAIN S = {"stepId", "type", "message", "metadata"}
       /\ S["stepId"] = Accepts("id")
       /\ S["type"] = Accepts("name")
       /\ S["message"] = Accepts("string")
       /\ S["metadata"] = Accepts("metadata") \cup {null, absent}
  BY DEF ErrorRecordedPayloadSchema, Required, Nullable, Nullish, ++

\* The columns of a row of merged telemetry and what they hold.
LEMMA MergedColumns ==
    LET T == Keys ++ Merged
    IN /\ DOMAIN T = {"id", "runId", "startedAt", "completedAt", "startEventId", "completionEventId",
                      "metadata", "status"}
       /\ \A f \in {"id", "runId"} : T[f] = Column("varchar")
       /\ \A f \in {"startedAt", "completedAt"} : T[f] = Column("timestamptz") \cup {null}
       /\ \A f \in {"startEventId", "completionEventId"} : T[f] = Column("varchar") \cup {null}
       /\ T["metadata"] = Column("jsonb") \cup {null}
       /\ T["status"] = Column("enum")
  BY DEF Keys, Merged, NotNull, MaybeNull, ++

\* The columns of RunTable and what they hold.
LEMMA RunTableColumns ==
    LET T == RunTable
    IN /\ DOMAIN T = {"id", "runId", "startedAt", "completedAt", "startEventId", "completionEventId",
                         "metadata", "status", "workflowName", "workflowVersion"}
       /\ \A f \in {"id", "runId"} : T[f] = Column("varchar")
       /\ \A f \in {"startedAt", "completedAt"} : T[f] = Column("timestamptz") \cup {null}
       /\ \A f \in {"startEventId", "completionEventId"} : T[f] = Column("varchar") \cup {null}
       /\ T["metadata"] = Column("jsonb") \cup {null}
       /\ T["status"] = Column("enum")
       /\ \A f \in {"workflowName", "workflowVersion"} : T[f] = Column("varchar") \cup {null}
<1> DEFINE base == Keys ++ Merged
           own == MaybeNull([workflowName |-> "varchar", workflowVersion |-> "varchar"])
<1>1. RunTable = base ++ own
  BY DEF RunTable
<1>2. DOMAIN own = {"workflowName", "workflowVersion"} /\ \A f \in DOMAIN own : own[f] = Column("varchar") \cup {null}
  BY DEF MaybeNull
<1>3. /\ DOMAIN base = {"id", "runId", "startedAt", "completedAt", "startEventId", "completionEventId",
                       "metadata", "status"}
      /\ \A f \in {"id", "runId"} : base[f] = Column("varchar")
      /\ \A f \in {"startedAt", "completedAt"} : base[f] = Column("timestamptz") \cup {null}
      /\ \A f \in {"startEventId", "completionEventId"} : base[f] = Column("varchar") \cup {null}
      /\ base["metadata"] = Column("jsonb") \cup {null}
      /\ base["status"] = Column("enum")
  BY MergedColumns
<1> HIDE DEF base, own
<1>4. /\ DOMAIN RunTable = DOMAIN base \cup DOMAIN own
      /\ \A f \in DOMAIN base : RunTable[f] = base[f]
      /\ \A f \in DOMAIN own \ DOMAIN base : RunTable[f] = own[f]
  BY <1>1 DEF ++
<1>5. \A f \in {"workflowName", "workflowVersion"} : f \in DOMAIN own \ DOMAIN base
  BY <1>2, <1>3
<1> QED BY <1>2, <1>3, <1>4, <1>5

\* The columns of StepTable and what they hold.
LEMMA StepTableColumns ==
    LET T == StepTable
    IN /\ DOMAIN T = {"id", "runId", "startedAt", "completedAt", "startEventId", "completionEventId",
                         "metadata", "status", "parentStepId", "name", "agentName", "type"}
       /\ \A f \in {"id", "runId"} : T[f] = Column("varchar")
       /\ \A f \in {"startedAt", "completedAt"} : T[f] = Column("timestamptz") \cup {null}
       /\ \A f \in {"startEventId", "completionEventId"} : T[f] = Column("varchar") \cup {null}
       /\ T["metadata"] = Column("jsonb") \cup {null}
       /\ T["status"] = Column("enum")
       /\ \A f \in {"parentStepId", "name", "agentName", "type"} : T[f] = Column("varchar") \cup {null}
<1> DEFINE base == Keys ++ Merged
           own == MaybeNull([parentStepId |-> "varchar", name |-> "varchar", agentName |-> "varchar", type |-> "varchar"])
<1>1. StepTable = base ++ own
  BY DEF StepTable
<1>2. DOMAIN own = {"parentStepId", "name", "agentName", "type"} /\ \A f \in DOMAIN own : own[f] = Column("varchar") \cup {null}
  BY DEF MaybeNull
<1>3. /\ DOMAIN base = {"id", "runId", "startedAt", "completedAt", "startEventId", "completionEventId",
                       "metadata", "status"}
      /\ \A f \in {"id", "runId"} : base[f] = Column("varchar")
      /\ \A f \in {"startedAt", "completedAt"} : base[f] = Column("timestamptz") \cup {null}
      /\ \A f \in {"startEventId", "completionEventId"} : base[f] = Column("varchar") \cup {null}
      /\ base["metadata"] = Column("jsonb") \cup {null}
      /\ base["status"] = Column("enum")
  BY MergedColumns
<1> HIDE DEF base, own
<1>4. /\ DOMAIN StepTable = DOMAIN base \cup DOMAIN own
      /\ \A f \in DOMAIN base : StepTable[f] = base[f]
      /\ \A f \in DOMAIN own \ DOMAIN base : StepTable[f] = own[f]
  BY <1>1 DEF ++
<1>5. \A f \in {"parentStepId", "name", "agentName", "type"} : f \in DOMAIN own \ DOMAIN base
  BY <1>2, <1>3
<1> QED BY <1>2, <1>3, <1>4, <1>5

\* The columns of DecisionTable and what they hold.
LEMMA DecisionTableColumns ==
    LET T == DecisionTable
    IN /\ DOMAIN T = {"id", "runId", "stepId", "decisionType", "contextKey", "contextKeyVersion",
                         "selectedOption", "rawContext", "availableOptions", "outcomeObservedAt",
                         "outcome", "outcomeAttestedBy"}
       /\ \A f \in {"id", "runId"} : T[f] = Column("varchar")
       /\ \A f \in {"stepId", "decisionType", "contextKey", "contextKeyVersion", "selectedOption"} :
            T[f] = Column("varchar") \cup {null}
       /\ \A f \in {"rawContext", "availableOptions"} : T[f] = Column("jsonb") \cup {null}
       /\ T["outcomeObservedAt"] = Column("timestamptz") \cup {null}
       /\ \A f \in {"outcome", "outcomeAttestedBy"} : T[f] = Column("enum")
  BY DEF DecisionTable, Keys, NotNull, MaybeNull, ++

\* The columns of ModelCallTable and what they hold.
LEMMA ModelCallTableColumns ==
    LET T == ModelCallTable
    IN /\ DOMAIN T = {"id", "runId", "stepId", "provider", "model", "status", "latencyMs", "inputTokens",
                         "outputTokens", "metadata"}
       /\ \A f \in {"id", "runId", "stepId", "provider", "model", "status"} : T[f] = Column("varchar")
       /\ T["latencyMs"] = Column("int4")
       /\ \A f \in {"inputTokens", "outputTokens"} : T[f] = Column("int4") \cup {null}
       /\ T["metadata"] = Column("jsonb") \cup {null}
  BY DEF ModelCallTable, Keys, NotNull, MaybeNull, ++

\* The columns of ToolCallTable and what they hold.
LEMMA ToolCallTableColumns ==
    LET T == ToolCallTable
    IN /\ DOMAIN T = {"id", "runId", "stepId", "toolName", "inputTruncated", "outputTruncated", "success",
                         "startedAt", "completedAt", "durationMs", "input", "output", "inputBytes",
                         "outputBytes", "error"}
       /\ \A f \in {"id", "runId", "stepId", "toolName"} : T[f] = Column("varchar")
       /\ \A f \in {"inputTruncated", "outputTruncated", "success"} : T[f] = Column("boolean")
       /\ \A f \in {"startedAt", "completedAt"} : T[f] = Column("timestamptz")
       /\ T["durationMs"] = Column("int4")
       /\ \A f \in {"input", "output"} : T[f] = Column("jsonb") \cup {null}
       /\ \A f \in {"inputBytes", "outputBytes"} : T[f] = Column("int4") \cup {null}
       /\ T["error"] = Column("text") \cup {null}
  BY DEF ToolCallTable, Keys, NotNull, MaybeNull, ++

\* The columns of ErrorTable and what they hold.
LEMMA ErrorTableColumns ==
    LET T == ErrorTable
    IN /\ DOMAIN T = {"id", "runId", "stepId", "type", "message", "metadata"}
       /\ \A f \in {"id", "runId", "stepId", "type"} : T[f] = Column("varchar")
       /\ T["message"] = Column("text")
       /\ T["metadata"] = Column("jsonb") \cup {null}
  BY DEF ErrorTable, Keys, NotNull, MaybeNull, ++

\* The fields of a screened RunStarted payload fit.
LEMMA RunStartedFits ==
    ASSUME Apart, NEW p, Screened("run.started", p), NEW f \in DOMAIN RunStartedPayloadSchema
    PROVE  Fits("run.started", p, f)
  BY Schemas, TableOf, AcceptsIs, ColumnIs, RunStartedSchemaFields, RunTableColumns
     DEF Apart, Classes, Screened, Fits, orNull

\* The fields of a screened RunCompleted payload fit.
LEMMA RunCompletedFits ==
    ASSUME Apart, NEW p, Screened("run.completed", p), NEW f \in DOMAIN RunCompletedPayloadSchema
    PROVE  Fits("run.completed", p, f)
  BY Schemas, TableOf, AcceptsIs, ColumnIs, RunCompletedSchemaFields, RunTableColumns
     DEF Apart, Classes, Screened, Fits, orNull

\* The fields of a screened StepStarted payload fit.
LEMMA StepStartedFits ==
    ASSUME Apart, NEW p, Screened("step.started", p), NEW f \in DOMAIN StepStartedPayloadSchema
    PROVE  Fits("step.started", p, f)
  BY Schemas, TableOf, AcceptsIs, ColumnIs, StepStartedSchemaFields, StepTableColumns
     DEF Apart, Classes, Screened, Fits, orNull

\* The fields of a screened StepCompleted payload fit.
LEMMA StepCompletedFits ==
    ASSUME Apart, NEW p, Screened("step.completed", p), NEW f \in DOMAIN StepCompletedPayloadSchema
    PROVE  Fits("step.completed", p, f)
  BY Schemas, TableOf, AcceptsIs, ColumnIs, StepCompletedSchemaFields, StepTableColumns
     DEF Apart, Classes, Screened, Fits, orNull

\* The fields of a screened DecisionRecorded payload fit.
LEMMA DecisionRecordedFits ==
    ASSUME Apart, NEW p, Screened("decision.recorded", p), NEW f \in DOMAIN DecisionRecordedPayloadSchema
    PROVE  Fits("decision.recorded", p, f)
  BY Schemas, TableOf, AcceptsIs, ColumnIs, DecisionRecordedSchemaFields, DecisionTableColumns
     DEF Apart, Classes, Screened, Fits, orNull

\* The fields of a screened ModelCallRecorded payload fit.
LEMMA ModelCallRecordedFits ==
    ASSUME Apart, NEW p, Screened("model_call.recorded", p), NEW f \in DOMAIN ModelCallRecordedPayloadSchema
    PROVE  Fits("model_call.recorded", p, f)
  BY Schemas, TableOf, AcceptsIs, ColumnIs, ModelCallRecordedSchemaFields, ModelCallTableColumns
     DEF Apart, Classes, Screened, Fits, orNull, PERSISTED_PAYLOAD_TIMESTAMP_FIELDS,
     PERSISTED_PAYLOAD_INT4_FIELDS

\* The fields of a screened ToolCallRecorded payload fit.
LEMMA ToolCallRecordedFits ==
    ASSUME Apart, NEW p, Screened("tool_call.recorded", p), NEW f \in DOMAIN ToolCallRecordedPayloadObjectSchema
    PROVE  Fits("tool_call.recorded", p, f)
  BY Schemas, TableOf, AcceptsIs, ColumnIs, ToolCallRecordedSchemaFields, ToolCallTableColumns
     DEF Apart, Classes, Screened, Fits, orNull, PERSISTED_PAYLOAD_TIMESTAMP_FIELDS,
     PERSISTED_PAYLOAD_INT4_FIELDS

\* The fields of a screened ErrorRecorded payload fit.
LEMMA ErrorRecordedFits ==
    ASSUME Apart, NEW p, Screened("error.recorded", p), NEW f \in DOMAIN ErrorRecordedPayloadSchema
    PROVE  Fits("error.recorded", p, f)
  BY Schemas, TableOf, AcceptsIs, ColumnIs, ErrorRecordedSchemaFields, ErrorTableColumns
     DEF Apart, Classes, Screened, Fits, orNull

\* An input as the parser reads it: a field of the envelope that is missing is absent.
WellFormed(input) == DOMAIN TelemetryEventEnvelopeSchema \subseteq DOMAIN input.fields

\* The envelope's fields and what they accept.
LEMMA EnvelopeFields ==
    LET S == TelemetryEventEnvelopeSchema
    IN /\ DOMAIN S = {"eventId", "entityId", "runId", "occurredAt"}
       /\ \A f \in {"eventId", "entityId", "runId"} : S[f] = Accepts("id")
       /\ S["occurredAt"] = Accepts("timestamp")
  BY DEF TelemetryEventEnvelopeSchema, Required

\* What parseTelemetryEvent accepts, and the event it makes of it.
LEMMA Parsed ==
    ASSUME NEW input, parseTelemetryEvent(input).ok
    PROVE  LET e == parseTelemetryEvent(input)
               S == TELEMETRY_PAYLOAD_SCHEMAS[input.type]
           IN /\ e = [ok |-> TRUE, type |-> input.type, fields |-> input.fields,
                      payload |-> [f \in DOMAIN S |-> input.payload[f]]]
              /\ input.object /\ input.given = "object"
              /\ envelopeIssues(input) = {}
              /\ ~PayloadIssues(input.type, input.payload)
              /\ eventTypeAvailableAt(input.type, input.schemaVersion)
  BY DEF parseTelemetryEvent, buildEvent, reject

\* An envelope without issues has a known type and version, and fields of the right kind.
LEMMA NoIssues ==
    ASSUME NEW input, envelopeIssues(input) = {}
    PROVE  /\ input.type \in TELEMETRY_EVENT_TYPES
           /\ input.schemaVersion \in TELEMETRY_SCHEMA_VERSIONS
           /\ input.given # "absent"
           /\ \A f \in DOMAIN TelemetryEventEnvelopeSchema : input.fields[f] \in TelemetryEventEnvelopeSchema[f]
  BY DEF envelopeIssues, Issues

\* What classifyEvent lets through can be stored.
LEMMA Accepted ==
    ASSUME NEW input, WellFormed(input), classifyEvent(input).ok
    PROVE  LET e == classifyEvent(input)
           IN /\ e = parseTelemetryEvent(input)
              /\ ~input.large
              /\ e.type \in TELEMETRY_EVENT_TYPES
              /\ \A f \in {"eventId", "entityId", "runId", "occurredAt"} : e.fields[f] \in {"ok", "edge"}
              /\ DOMAIN e.payload = DOMAIN TELEMETRY_PAYLOAD_SCHEMAS[e.type]
              /\ Screened(e.type, e.payload)
  <1> DEFINE e == parseTelemetryEvent(input)
             S == TELEMETRY_PAYLOAD_SCHEMAS[input.type]
  <1>1. /\ classifyEvent(input) = e /\ e.ok /\ ~input.large
        /\ ~exceedsMaxStructuralDepth(e) /\ ~containsUnsafeUnicode(e)
        /\ ~isPostgresUnrepresentableTimestamp(e.fields.occurredAt)
        /\ ~unrepresentablePayloadReason(e)
    BY DEF classifyEvent, reject
  <1>2. /\ e = [ok |-> TRUE, type |-> input.type, fields |-> input.fields,
                payload |-> [f \in DOMAIN S |-> input.payload[f]]]
        /\ envelopeIssues(input) = {} /\ ~PayloadIssues(input.type, input.payload)
    BY <1>1, Parsed
  <1> HIDE DEF e, S
  <1>3. /\ e.type = input.type /\ e.fields = input.fields
        /\ DOMAIN e.payload = DOMAIN S
        /\ \A f \in DOMAIN S : e.payload[f] = input.payload[f]
    BY <1>2
  <1>4. e.type \in TELEMETRY_EVENT_TYPES
    BY <1>2, <1>3, NoIssues
  <1>5. \A f \in {"eventId", "entityId", "runId", "occurredAt"} : e.fields[f] \in {"ok", "edge"}
    <2>1. \A f \in {"eventId", "entityId", "runId", "occurredAt"} : f \in DOMAIN e.fields /\ e.fields[f] # "nul"
      BY <1>1, <1>3, EnvelopeFields DEF WellFormed, containsUnsafeUnicode, Values
    <2>2. e.fields["occurredAt"] # "year0"
      BY <1>1 DEF isPostgresUnrepresentableTimestamp
    <2>3. QED
      BY <2>1, <2>2, <1>2, <1>3, NoIssues, EnvelopeFields, AcceptsIs
  <1>6. Screened(e.type, e.payload)
    <2>1. \A f \in DOMAIN S : e.payload[f] \in S[f]
      BY <1>2, <1>3 DEF PayloadIssues, Issues, S
    <2>2. \A f \in DOMAIN S : e.payload[f] \notin {"deep", "nul"}
      BY <1>1, <1>3 DEF exceedsMaxStructuralDepth, containsUnsafeUnicode, Values
    <2>3. /\ \A f \in PERSISTED_PAYLOAD_TIMESTAMP_FIELDS(e.type) : e.payload[f] # "year0"
          /\ \A f \in PERSISTED_PAYLOAD_INT4_FIELDS(e.type) : e.payload[f] # "huge"
      BY <1>1 DEF unrepresentablePayloadReason, isPostgresUnrepresentableTimestamp, exceedsPostgresInt4
    <2>4. QED
      BY <2>1, <2>2, <2>3, <1>3 DEF Screened, S
  <1>7. QED
    BY <1>1, <1>3, <1>4, <1>5, <1>6 DEF e, S

\* An event as the repositories get it.
Storable(e) ==
    /\ e.type \in TELEMETRY_EVENT_TYPES
    /\ \A f \in {"eventId", "entityId", "runId", "occurredAt"} : e.fields[f] \in {"ok", "edge"}
    /\ DOMAIN e.payload = DOMAIN TELEMETRY_PAYLOAD_SCHEMAS[e.type]
    /\ Screened(e.type, e.payload)

\* A table can hold a row: it has every column of it, and each can hold its value.
Held(row, T) == \A c \in DOMAIN row : c \in DOMAIN T /\ row[c] \in T[c]

\* Objects a table can hold, spread into one, it can hold.
LEMMA SpreadHeld ==
    ASSUME NEW f, NEW g, NEW T, Held(f, T), Held(g, T)
    PROVE  Held(f ++ g, T)
  BY DEF Held, ++

\* Every table can hold an event's ids.
LEMMA IdsHeld ==
    ASSUME NEW e, Storable(e), NEW T, {"id", "runId"} \subseteq DOMAIN T,
           T["id"] = Column("varchar"), T["runId"] = Column("varchar")
    PROVE  Held(Ids(e), T)
  BY ColumnIs DEF Held, Ids, Storable

\* Every table has the key columns.
LEMMA KeyColumns ==
    ASSUME NEW type \in TELEMETRY_EVENT_TYPES
    PROVE  LET T == Table[entityKindOf(type)]
           IN {"id", "runId"} \subseteq DOMAIN T /\ T["id"] = Column("varchar") /\ T["runId"] = Column("varchar")
  BY Types, TableOf, RunTableColumns, StepTableColumns, DecisionTableColumns, ModelCallTableColumns,
     ToolCallTableColumns, ErrorTableColumns

\* Every field of a storable payload fits its column.
LEMMA PayloadFits ==
    ASSUME Apart, NEW e, Storable(e), e.type # "decision.outcome_attested", NEW f \in DOMAIN e.payload
    PROVE  Fits(e.type, e.payload, f)
  <1>1. f \in DOMAIN TELEMETRY_PAYLOAD_SCHEMAS[e.type] /\ Screened(e.type, e.payload)
    BY DEF Storable
  <1>2. e.type \in TELEMETRY_EVENT_TYPES
    BY DEF Storable
  <1>3. QED
    BY <1>1, <1>2, Types, Schemas, RunStartedFits, RunCompletedFits, StepStartedFits, StepCompletedFits,
       DecisionRecordedFits, ModelCallRecordedFits, ToolCallRecordedFits, ErrorRecordedFits

\* A row with each field under its own name is held.
LEMMA NamedHeld ==
    ASSUME Apart, NEW e, Storable(e), e.type # "decision.outcome_attested"
    PROVE  Held(Named(e), Table[entityKindOf(e.type)])
  <1> DEFINE T == Table[entityKindOf(e.type)]
             values == [f \in DOMAIN e.payload |-> orNull(e.payload[f])]
  <1>1. Held(Ids(e), T)
    BY IdsHeld, KeyColumns DEF Storable
  <1>2. Held(values, T)
    BY PayloadFits DEF Held, Fits
  <1> HIDE DEF T, values
  <1>3. Held(Ids(e) ++ values, T)
    BY <1>1, <1>2, SpreadHeld
  <1>4. QED
    BY <1>3 DEF Named, values, T

\* A row that does not exist yet is held.
LEMMA NoRowHeld == ASSUME NEW T PROVE Held(NoRow, T)
  BY DEF Held, NoRow

\* The columns a start event fills are held.
LEMMA StartedHeld ==
    ASSUME Apart, NEW e, Storable(e), e.type \in {"run.started", "step.started"}
    PROVE  Held(toMergeEvent(e), Table[entityKindOf(e.type)])
  <1> DEFINE T == Table[entityKindOf(e.type)]
             columns == [startedAt |-> e.fields.occurredAt, startEventId |-> e.fields.eventId]
             values == [f \in DOMAIN e.payload \ {"status"} |-> orNull(e.payload[f])]
  <1>1. Held(Ids(e), T)
    BY IdsHeld, KeyColumns DEF Storable
  <1>2. Held(values, T)
    BY PayloadFits DEF Held, Fits
  <1>3. Held(columns, T)
    <2>1. /\ {"startedAt", "startEventId"} \subseteq DOMAIN T
          /\ {"ok", "edge"} \subseteq T["startedAt"] /\ {"ok", "edge"} \subseteq T["startEventId"]
      BY TableOf, RunTableColumns, StepTableColumns, ColumnIs
    <2> HIDE DEF T
    <2>2. e.fields["occurredAt"] \in {"ok", "edge"} /\ e.fields["eventId"] \in {"ok", "edge"}
      BY DEF Storable
    <2>3. QED
      BY <2>1, <2>2 DEF Held
  <1> HIDE DEF T, values, columns
  <1>4. Held(Ids(e) ++ columns ++ values, T)
    BY <1>1, <1>2, <1>3, SpreadHeld
  <1>5. QED
    BY <1>4 DEF toMergeEvent, values, T, columns

\* The columns a completion event fills are held.
LEMMA CompletedHeld ==
    ASSUME Apart, NEW e, Storable(e), e.type \in {"run.completed", "step.completed"}
    PROVE  Held(toMergeEvent(e), Table[entityKindOf(e.type)])
  <1> DEFINE T == Table[entityKindOf(e.type)]
             columns == [completedAt |-> e.fields.occurredAt, completionEventId |-> e.fields.eventId,
                         status |-> e.payload.status]
             values == [f \in DOMAIN e.payload \ {"status"} |-> orNull(e.payload[f])]
  <1>1. Held(Ids(e), T)
    BY IdsHeld, KeyColumns DEF Storable
  <1>2. Held(values, T)
    BY PayloadFits DEF Held, Fits
  <1>3. Held(columns, T)
    <2>1. /\ {"completedAt", "completionEventId", "status"} \subseteq DOMAIN T
          /\ {"ok", "edge"} \subseteq T["completedAt"] /\ {"ok", "edge"} \subseteq T["completionEventId"]
          /\ {"ok", "edge"} \subseteq T["status"]
      BY TableOf, RunTableColumns, StepTableColumns, ColumnIs
    <2> HIDE DEF T
    <2>2. e.fields["occurredAt"] \in {"ok", "edge"} /\ e.fields["eventId"] \in {"ok", "edge"}
      BY DEF Storable
    <2>3. e.payload["status"] \in {"ok", "edge"}
      BY Schemas, RunCompletedSchemaFields, StepCompletedSchemaFields, AcceptsIs DEF Storable, Screened
    <2>4. QED
      BY <2>1, <2>2, <2>3 DEF Held
  <1> HIDE DEF T, values, columns
  <1>4. Held(Ids(e) ++ columns ++ values, T)
    BY <1>1, <1>2, <1>3, SpreadHeld
  <1>5. QED
    BY <1>4 DEF toMergeEvent, values, T, columns

\* The columns an attestation fills are held, with or without an instant of its own.
LEMMA AttestationHeld ==
    ASSUME NEW e, Storable(e), e.type = "decision.outcome_attested"
    PROVE  Held(toDecisionAttestation(e), DecisionTable)
  <1>1. /\ e.payload["outcome"] \in {"ok", "edge"}
        /\ e.payload["observedAt"] \in {"ok", "edge", null, absent}
        /\ e.fields["occurredAt"] \in {"ok", "edge"}
    BY Schemas, DecisionOutcomeAttestedSchemaFields, AcceptsIs
       DEF Storable, Screened, PERSISTED_PAYLOAD_TIMESTAMP_FIELDS
  <1>2. /\ {"outcome", "outcomeAttestedBy", "outcomeObservedAt"} \subseteq DOMAIN DecisionTable
        /\ {"ok", "edge"} \subseteq DecisionTable["outcome"]
        /\ "CALLER" \in DecisionTable["outcomeAttestedBy"]
        /\ {"ok", "edge", null} \subseteq DecisionTable["outcomeObservedAt"]
    BY DecisionTableColumns, ColumnIs
  <1>3. QED
    BY <1>1, <1>2 DEF toDecisionAttestation, Held, orNull

\* The defaults of a Decision complete a row that has its keys.
LEMMA DefaultsHeld ==
    ASSUME NEW f, Held(f, DecisionTable), {"id", "runId"} \subseteq DOMAIN f
    PROVE  Held(f ++ DecisionDefaults, DecisionTable)
  <1>1. /\ DOMAIN DecisionDefaults = DOMAIN DecisionTable
        /\ \A c \in DOMAIN DecisionTable \ {"id", "runId"} : DecisionDefaults[c] \in DecisionTable[c]
    BY DecisionTableColumns, ColumnIs DEF DecisionDefaults
  <1>2. QED
    BY <1>1 DEF Held, ++

\* An object spread over another has the fields of both.
LEMMA SpreadKeeps ==
    ASSUME NEW f, NEW g
    PROVE  DOMAIN (f ++ g) = DOMAIN f \cup DOMAIN g
  BY DEF ++

\* The row of a decision has its keys whichever event comes first.
LEMMA KeysKept ==
    ASSUME NEW e, NEW row, NEW left
    PROVE  /\ DOMAIN Ids(e) = {"id", "runId"}
           /\ {"id", "runId"} \subseteq DOMAIN (left ++ row ++ Ids(e))
           /\ {"id", "runId"} \subseteq DOMAIN (Named(e) ++ row)
  <1>1. DOMAIN Ids(e) = {"id", "runId"}
    BY DEF Ids
  <1>2. DOMAIN (left ++ row ++ Ids(e)) = DOMAIN (left ++ row) \cup DOMAIN Ids(e)
    BY SpreadKeeps
  <1>3. DOMAIN Named(e) = DOMAIN Ids(e) \cup DOMAIN [f \in DOMAIN e.payload |-> orNull(e.payload[f])]
    BY SpreadKeeps DEF Named
  <1>4. DOMAIN (Named(e) ++ row) = DOMAIN Named(e) \cup DOMAIN row
    BY SpreadKeeps
  <1>5. QED
    BY <1>1, <1>2, <1>3, <1>4

\* Whatever of the screened events is written, in any order and any number: a row that its
\* table can hold stays one (event-mapping.ts and the repositories against schema.prisma).
THEOREM WritesKeepRows ==
    ASSUME Apart, NEW e, Storable(e), NEW row, Held(row, Table[entityKindOf(e.type)])
    PROVE  Held(write(row, e), Table[entityKindOf(e.type)])
  <1> DEFINE T == Table[entityKindOf(e.type)]
  <1>1. e.type \in TELEMETRY_EVENT_TYPES
    BY DEF Storable
  <1>2. CASE e.type \in {"run.started", "step.started", "run.completed", "step.completed"}
    <2>1. Held(toMergeEvent(e), T)
      BY <1>2, StartedHeld, CompletedHeld
    <2>2. write(row, e) = toMergeEvent(e) ++ row
      BY <1>2 DEF write, entityKindOf
    <2>3. QED
      BY <2>1, <2>2, SpreadHeld
  <1>3. CASE e.type = "decision.outcome_attested"
    <2>1. T = DecisionTable
      BY <1>3, TableOf
    <2>2. write(row, e) = toDecisionAttestation(e) ++ row ++ Ids(e) ++ DecisionDefaults
      BY <1>3 DEF write, entityKindOf, attestOutcome
    <2>3. Held(Ids(e), T)
      BY <1>1, IdsHeld, KeyColumns
    <2> HIDE DEF T
    <2>4. Held(toDecisionAttestation(e) ++ row ++ Ids(e), T)
      BY <1>3, <2>1, <2>3, AttestationHeld, SpreadHeld DEF T
    <2>5. {"id", "runId"} \subseteq DOMAIN (toDecisionAttestation(e) ++ row ++ Ids(e))
      BY KeysKept
    <2>6. QED
      BY <2>1, <2>2, <2>4, <2>5, DefaultsHeld DEF T
  <1>4. CASE e.type = "decision.recorded"
    <2>1. T = DecisionTable
      BY <1>4, TableOf
    <2>2. write(row, e) = Named(e) ++ row ++ DecisionDefaults
      BY <1>4 DEF write, entityKindOf, recordDecision, toDecisionRecordWrite
    <2>3. Held(Named(e), T)
      BY <1>4, NamedHeld
    <2> HIDE DEF T
    <2>4. Held(Named(e) ++ row, T)
      BY <2>3, SpreadHeld DEF T
    <2>5. {"id", "runId"} \subseteq DOMAIN (Named(e) ++ row)
      BY KeysKept
    <2>6. QED
      BY <2>1, <2>2, <2>4, <2>5, DefaultsHeld DEF T
  <1>5. CASE e.type \in {"tool_call.recorded", "model_call.recorded", "error.recorded"}
    <2>1. write(row, e) = Named(e)
      BY <1>5 DEF write, entityKindOf, toToolCallWrite, toModelCallWrite, toErrorRecordWrite
    <2>2. QED
      BY <1>5, <2>1, NamedHeld
  <1>6. QED
    BY <1>1, <1>2, <1>3, <1>4, <1>5, Types

\* The database refuses nothing that classifyEvent lets through: every column that an event
\* of any type is written to exists and can hold its value, whatever the other fields are
\* (wire-sanitize.ts against schema.prisma).
THEOREM AcceptedIsStored ==
    ASSUME Apart, NEW input, WellFormed(input)
    PROVE  StoresWhatItAccepts(input)
  <1> DEFINE e == classifyEvent(input)
  <1>1. ASSUME e.ok PROVE Held(write(NoRow, e), Table[entityKindOf(e.type)])
    <2>1. Storable(e)
      BY <1>1, Accepted DEF Storable
    <2> HIDE DEF e
    <2>2. QED
      BY <2>1, NoRowHeld, WritesKeepRows
  <1>2. QED
    BY <1>1 DEF StoresWhatItAccepts, Held

-----------------------------------------------------------------------------
(* parse.ts and events.ts *)

\* An event wrong in any number of ways is refused for one of them, with everything before
\* it in the order of the contract right, unless it is a type that its version does not
\* have yet: then any other fault of the envelope is reported first (parseTelemetryEvent).
THEOREM FaultOrder ==
    ASSUME NEW input
    PROVE  EarliestFaultIsReported(input)
  <1> DEFINE answer == parseTelemetryEvent(input)
             issues == envelopeIssues(input)
             required == {"eventId", "entityId", "runId", "occurredAt"}
  <1> SUFFICES ASSUME ~answer.ok, input.object
               PROVE  /\ answer.eventId = readEventId(input)
                      /\ Wrong(input, Bullet[answer.code])
                      /\ \A b \in 1 .. Bullet[answer.code] - 1 :
                           Wrong(input, b) => b = 2 /\ NotYet(input) /\ issues # {}
    BY DEF EarliestFaultIsReported
  <1>1. issues \subseteq {"eventId", "entityId", "runId", "occurredAt", "schemaVersion", "type", "payload"}
    BY EnvelopeFields DEF envelopeIssues, Issues
  <1>2. /\ Bullet["UNSUPPORTED_SCHEMA_VERSION"] = 1 /\ Bullet["UNKNOWN_EVENT_TYPE"] = 2
        /\ Bullet["MISSING_REQUIRED_FIELD"] = 3 /\ Bullet["INVALID_PAYLOAD"] = 4
    BY DEF Bullet
  <1>3. /\ Wrong(input, 1) <=> "schemaVersion" \in issues
        /\ Wrong(input, 2) <=> "type" \in issues \/ NotYet(input)
        /\ Wrong(input, 3) <=> issues \cap required # {}
        /\ Wrong(input, 4) <=> input.given # "object" \/ PayloadIssues(input.type, input.payload)
    BY DEF Wrong
  <1>4. "payload" \in issues => input.given # "object"
    BY EnvelopeFields DEF envelopeIssues, Issues
  <1>5. NotYet(input) => "type" \notin issues  BY DEF NotYet
  <1>6. 1 .. 1 - 1 = {} /\ 1 .. 2 - 1 = {1} /\ 1 .. 3 - 1 = {1, 2} /\ 1 .. 4 - 1 = {1, 2, 3}
    OBVIOUS
  <1>7. CASE issues # {}
    <2>1. answer = reject(readEventId(input), classifyEnvelopeFailure(issues))
      BY <1>7 DEF parseTelemetryEvent
    <2> HIDE DEF answer, issues
    <2>2. answer.eventId = readEventId(input) /\ answer.code = classifyEnvelopeFailure(issues)
      BY <2>1 DEF reject
    <2>3. CASE "schemaVersion" \in issues
      <3>1. answer.code = "UNSUPPORTED_SCHEMA_VERSION"  BY <2>2, <2>3 DEF classifyEnvelopeFailure
      <3> QED  BY <1>2, <1>3, <1>6, <2>2, <2>3, <3>1
    <2>4. CASE "schemaVersion" \notin issues /\ "type" \in issues
      <3>1. answer.code = "UNKNOWN_EVENT_TYPE"  BY <2>2, <2>4 DEF classifyEnvelopeFailure
      <3> QED  BY <1>2, <1>3, <1>6, <2>2, <2>4, <3>1
    <2>5. CASE "schemaVersion" \notin issues /\ "type" \notin issues /\ issues \cap required # {}
      <3>1. answer.code = "MISSING_REQUIRED_FIELD"  BY <2>2, <2>5 DEF classifyEnvelopeFailure
      <3> QED  BY <1>2, <1>3, <1>6, <1>7, <2>2, <2>5, <3>1
    <2>6. CASE "schemaVersion" \notin issues /\ "type" \notin issues /\ issues \cap required = {}
      <3>1. answer.code = "INVALID_PAYLOAD"  BY <2>2, <2>6 DEF classifyEnvelopeFailure
      <3>2. "payload" \in issues  BY <1>1, <1>7, <2>6
      <3> QED  BY <1>2, <1>3, <1>4, <1>6, <1>7, <2>2, <2>6, <3>1, <3>2
    <2>7. QED
      BY <2>3, <2>4, <2>5, <2>6
  <1>8. CASE issues = {}
    <2>1. \/ NotYet(input) /\ answer = reject(readEventId(input), "UNKNOWN_EVENT_TYPE")
          \/ ~NotYet(input) /\ answer = buildEvent(input)
      BY <1>8 DEF parseTelemetryEvent, NotYet
    <2>2. answer = buildEvent(input) =>
            /\ answer = reject(readEventId(input), "INVALID_PAYLOAD")
            /\ input.given # "object" \/ PayloadIssues(input.type, input.payload)
      BY DEF buildEvent
    <2> HIDE DEF answer, issues
    <2>3. CASE NotYet(input) /\ answer = reject(readEventId(input), "UNKNOWN_EVENT_TYPE")
      <3>1. answer.eventId = readEventId(input) /\ answer.code = "UNKNOWN_EVENT_TYPE"
        BY <2>3 DEF reject
      <3> QED  BY <1>2, <1>3, <1>6, <1>8, <2>3, <3>1
    <2>4. CASE ~NotYet(input) /\ answer = buildEvent(input)
      <3>1. answer.eventId = readEventId(input) /\ answer.code = "INVALID_PAYLOAD"
        BY <2>2, <2>4 DEF reject
      <3> QED  BY <1>2, <1>3, <1>6, <1>8, <2>2, <2>4, <3>1
    <2> QED  BY <2>1, <2>3, <2>4
  <1>9. QED
    BY <1>7, <1>8

\* The screens look only at fields the payload's schema has.
LEMMA ScreenedFields ==
    ASSUME NEW type \in TELEMETRY_EVENT_TYPES
    PROVE  PERSISTED_PAYLOAD_TIMESTAMP_FIELDS(type) \cup PERSISTED_PAYLOAD_INT4_FIELDS(type)
             \subseteq DOMAIN TELEMETRY_PAYLOAD_SCHEMAS[type]
  <1>1. CASE type = "decision.outcome_attested"
    BY <1>1, Schemas, DecisionOutcomeAttestedSchemaFields
       DEF PERSISTED_PAYLOAD_TIMESTAMP_FIELDS, PERSISTED_PAYLOAD_INT4_FIELDS
  <1>2. CASE type = "tool_call.recorded"
    BY <1>2, Schemas, ToolCallRecordedSchemaFields
       DEF PERSISTED_PAYLOAD_TIMESTAMP_FIELDS, PERSISTED_PAYLOAD_INT4_FIELDS
  <1>3. CASE type = "model_call.recorded"
    BY <1>3, Schemas, ModelCallRecordedSchemaFields
       DEF PERSISTED_PAYLOAD_TIMESTAMP_FIELDS, PERSISTED_PAYLOAD_INT4_FIELDS
  <1>4. CASE type \notin {"decision.outcome_attested", "tool_call.recorded", "model_call.recorded"}
    BY <1>4 DEF PERSISTED_PAYLOAD_TIMESTAMP_FIELDS, PERSISTED_PAYLOAD_INT4_FIELDS
  <1>5. QED
    BY <1>1, <1>2, <1>3, <1>4

\* Every type is available at the version the client sends.
LEMMA AvailableNow ==
    ASSUME NEW type \in TELEMETRY_EVENT_TYPES
    PROVE  eventTypeAvailableAt(type, TELEMETRY_SCHEMA_VERSION)
  <1>1. MIN_SCHEMA_VERSION[type] \in {1, 2}
    BY Types DEF MIN_SCHEMA_VERSION, ++
  <1>2. QED
    BY <1>1 DEF eventTypeAvailableAt, TELEMETRY_SCHEMA_VERSION

\* The client's gate (checkEnvelope) and the server's parser accept the same events, and the
\* server refuses what passed the gate only for one of the values its screens name.
THEOREM OneGate ==
    ASSUME NEW call, WellFormed(call), call.large \in BOOLEAN, NEW serializable \in BOOLEAN
    PROVE  ClientGateIsTheServers(call, serializable)
  <1> DEFINE envelope == buildEnvelope(call)
             e == parseTelemetryEvent(envelope)
             passed == checkEnvelope(envelope, serializable) = "ok"
             answer == classifyEvent(envelope)
  <1>1. /\ envelope.object /\ envelope.given = "object" /\ envelope.large = call.large
        /\ envelope.schemaVersion = TELEMETRY_SCHEMA_VERSION
        /\ envelope.fields = call.fields
    BY DEF buildEnvelope
  <1> HIDE DEF envelope
  <1>2. passed <=> /\ envelopeIssues(envelope) = {} /\ ~PayloadIssues(envelope.type, envelope.payload)
                   /\ serializable /\ ~envelope.large
    BY DEF checkEnvelope
  <1>3. e.ok <=> envelopeIssues(envelope) = {} /\ ~PayloadIssues(envelope.type, envelope.payload)
    <2>1. ASSUME envelopeIssues(envelope) = {}, ~PayloadIssues(envelope.type, envelope.payload) PROVE e.ok
      <3>1. eventTypeAvailableAt(envelope.type, envelope.schemaVersion)
        BY <1>1, <2>1, NoIssues, AvailableNow
      <3>2. e = buildEvent(envelope)
        BY <1>1, <2>1, <3>1 DEF parseTelemetryEvent
      <3>3. QED
        BY <1>1, <2>1, <3>2 DEF buildEvent
    <2>2. QED
      BY <2>1, Parsed
  <1>4. passed <=> serializable /\ ~envelope.large /\ e.ok
    BY <1>2, <1>3
  <1>5. ASSUME passed, ~answer.ok
        PROVE  {"deep", "nul", "year0", "huge"} \cap Values(e) # {}
    <2>1. e.ok /\ ~envelope.large
      BY <1>4, <1>5
    <2>2. /\ e.type \in TELEMETRY_EVENT_TYPES /\ e.fields = call.fields
          /\ DOMAIN e.payload = DOMAIN TELEMETRY_PAYLOAD_SCHEMAS[e.type]
      <3>1. /\ e = [ok |-> TRUE, type |-> envelope.type, fields |-> envelope.fields,
                    payload |-> [f \in DOMAIN TELEMETRY_PAYLOAD_SCHEMAS[envelope.type] |-> envelope.payload[f]]]
            /\ envelopeIssues(envelope) = {}
        BY <2>1, Parsed
      <3>2. envelope.type \in TELEMETRY_EVENT_TYPES
        BY <3>1, NoIssues
      <3> HIDE DEF e
      <3>3. QED
        BY <1>1, <3>1, <3>2
    <2>3. \/ exceedsMaxStructuralDepth(e) \/ containsUnsafeUnicode(e)
          \/ isPostgresUnrepresentableTimestamp(e.fields.occurredAt) \/ unrepresentablePayloadReason(e)
      BY <1>5, <2>1 DEF classifyEvent
    <2> HIDE DEF e
    <2>4. CASE exceedsMaxStructuralDepth(e)
      BY <2>4 DEF exceedsMaxStructuralDepth, Values
    <2>5. CASE containsUnsafeUnicode(e)
      BY <2>5 DEF containsUnsafeUnicode
    <2>6. CASE isPostgresUnrepresentableTimestamp(e.fields.occurredAt)
      <3>1. "occurredAt" \in DOMAIN e.fields
        BY <2>2, EnvelopeFields DEF WellFormed
      <3>2. e.fields["occurredAt"] \in Values(e)
        BY <3>1 DEF Values
      <3>3. QED
        BY <2>6, <3>2 DEF isPostgresUnrepresentableTimestamp
    <2>7. CASE unrepresentablePayloadReason(e)
      <3>1. PICK f \in PERSISTED_PAYLOAD_TIMESTAMP_FIELDS(e.type) \cup PERSISTED_PAYLOAD_INT4_FIELDS(e.type) :
              e.payload[f] \in {"year0", "huge"}
        BY <2>7 DEF unrepresentablePayloadReason, isPostgresUnrepresentableTimestamp, exceedsPostgresInt4
      <3>2. e.payload[f] \in Values(e)
        BY <2>2, <3>1, ScreenedFields DEF Values
      <3>3. QED
        BY <3>1, <3>2
    <2>8. QED
      BY <2>3, <2>4, <2>5, <2>6, <2>7
  <1>6. QED
    BY <1>4, <1>5 DEF ClientGateIsTheServers, envelope

-----------------------------------------------------------------------------
(* The two events of a decision. *)

\* A recording and an attestation fill different columns, all of them the table's.
LEMMA DecisionParts ==
    ASSUME NEW r, Storable(r), r.type = "decision.recorded", NEW at
    PROVE  /\ DOMAIN NoRow = {}
           /\ DOMAIN Ids(at) = {"id", "runId"}
           /\ DOMAIN DecisionDefaults = DOMAIN DecisionTable
           /\ DOMAIN toDecisionAttestation(at) = {"outcome", "outcomeAttestedBy", "outcomeObservedAt"}
           /\ {"outcome", "outcomeAttestedBy", "outcomeObservedAt"} \subseteq DOMAIN DecisionTable
           /\ {"id", "runId"} \subseteq DOMAIN Named(r)
           /\ DOMAIN Named(r) \subseteq DOMAIN DecisionTable
           /\ DOMAIN Named(r) \cap DOMAIN toDecisionAttestation(at) = {}
           /\ Named(r)["runId"] = r.fields.runId
  <1>1. DOMAIN NoRow = {}
    BY DEF NoRow
  <1>2. \A e : DOMAIN Ids(e) = {"id", "runId"} /\ Ids(e)["runId"] = e.fields.runId
    BY DEF Ids
  <1>3. DOMAIN DecisionDefaults = DOMAIN DecisionTable
    BY DEF DecisionDefaults
  <1>4. DOMAIN toDecisionAttestation(at) = {"outcome", "outcomeAttestedBy", "outcomeObservedAt"}
    BY DEF toDecisionAttestation
  <1> DEFINE values == [f \in DOMAIN r.payload |-> orNull(r.payload[f])]
  <1>5. DOMAIN values = {"stepId", "decisionType", "selectedOption", "availableOptions", "contextKey",
                         "contextKeyVersion", "rawContext"}
    BY Schemas, DecisionRecordedSchemaFields DEF Storable
  <1>6. Named(r) = Ids(r) ++ values
    BY DEF Named
  <1> HIDE DEF values
  <1>7. DOMAIN Named(r) = {"id", "runId"} \cup DOMAIN values
    BY <1>2, <1>6, SpreadKeeps
  <1>8. Named(r)["runId"] = r.fields.runId
    BY <1>2, <1>6 DEF ++
  <1>9. QED
    BY <1>1, <1>2, <1>3, <1>4, <1>5, <1>7, <1>8, DecisionTableColumns

\* The row a decision has once both its events are in.
Both(t, m, d) ==
    [c \in DOMAIN d |-> IF c \in DOMAIN t THEN t[c] ELSE IF c \in DOMAIN m THEN m[c] ELSE d[c]]

\* In either order, and after any repetition, the spreads give the one row.
LEMMA SpreadOrders ==
    ASSUME NEW t, NEW m, NEW i, NEW d, NEW n, DOMAIN n = {},
           DOMAIN t \subseteq DOMAIN d, DOMAIN m \subseteq DOMAIN d, DOMAIN i \subseteq DOMAIN m,
           DOMAIN m \cap DOMAIN t = {}
    PROVE  /\ t ++ (m ++ n ++ d) ++ i ++ d = Both(t, m, d)
           /\ m ++ (t ++ n ++ i ++ d) ++ d = Both(t, m, d)
           /\ t ++ (m ++ Both(t, m, d) ++ d) ++ i ++ d = Both(t, m, d)
  <1>1. m ++ n ++ d = [c \in DOMAIN d |-> IF c \in DOMAIN m THEN m[c] ELSE d[c]]
    BY DEF ++
  <1>2. t ++ n ++ i ++ d =
          [c \in DOMAIN d |-> IF c \in DOMAIN t THEN t[c] ELSE IF c \in DOMAIN i THEN i[c] ELSE d[c]]
    BY DEF ++
  <1>3. m ++ Both(t, m, d) ++ d = Both(t, m, d)
    BY DEF ++, Both
  <1>4. t ++ (m ++ n ++ d) ++ i ++ d = Both(t, m, d)
    BY <1>1 DEF ++, Both
  <1>5. m ++ (t ++ n ++ i ++ d) ++ d = Both(t, m, d)
    BY <1>2 DEF ++, Both
  <1>6. t ++ Both(t, m, d) ++ i ++ d = Both(t, m, d)
    BY DEF ++, Both
  <1>7. QED
    BY <1>3, <1>4, <1>5, <1>6

\* The row of a decision does not depend on the order of its two events.
LEMMA StorableConverge ==
    ASSUME Apart,
           NEW recording, Storable(recording), recording.type = "decision.recorded",
           NEW attestation, Storable(attestation), attestation.type = "decision.outcome_attested"
    PROVE  DecisionRowConverges(recording, attestation)
  <1> DEFINE t == toDecisionAttestation(attestation)
             m == Named(recording)
             i == Ids(attestation)
             d == DecisionDefaults
  <1>1. \A row : write(row, recording) = m ++ row ++ d
    BY DEF write, entityKindOf, recordDecision, toDecisionRecordWrite
  <1>2. \A row : write(row, attestation) = t ++ row ++ i ++ d
    BY DEF write, entityKindOf, attestOutcome
  <1>3. /\ DOMAIN NoRow = {} /\ DOMAIN i = {"id", "runId"} /\ DOMAIN d = DOMAIN DecisionTable
        /\ DOMAIN t = {"outcome", "outcomeAttestedBy", "outcomeObservedAt"} /\ DOMAIN t \subseteq DOMAIN d
        /\ {"id", "runId"} \subseteq DOMAIN m /\ DOMAIN m \subseteq DOMAIN d /\ DOMAIN m \cap DOMAIN t = {}
        /\ m["runId"] = recording.fields.runId
    BY DecisionParts
  <1>4. t["outcome"] = attestation.payload.outcome
    BY DEF toDecisionAttestation
  <1>5. t["outcomeObservedAt"] # null
    <2>1. attestation.fields["occurredAt"] \in {"ok", "edge"}
      BY DEF Storable
    <2>2. QED
      BY <2>1 DEF toDecisionAttestation, orNull, Apart, Classes
  <1> HIDE DEF t, m, i, d
  <1> DEFINE a == write(write(NoRow, recording), attestation)
             b == write(write(NoRow, attestation), recording)
  <1>6. a = Both(t, m, d) /\ b = Both(t, m, d)
    BY <1>1, <1>2, <1>3, SpreadOrders
  <1>7. write(write(a, recording), attestation) = a
    BY <1>1, <1>2, <1>3, <1>6, SpreadOrders
  <1> HIDE DEF a, b
  <1>8. a["runId"] = recording.fields.runId /\ a["outcome"] = t["outcome"]
        /\ a["outcomeObservedAt"] = t["outcomeObservedAt"]
    BY <1>3, <1>6 DEF Both
  <1>9. QED
    BY <1>4, <1>5, <1>6, <1>7, <1>8 DEF DecisionRowConverges, a, b

\* A recording and an attestation that classifyEvent accepted leave one row, in either order
\* and after both are repeated (DecisionsRepository.record and attestOutcome).
THEOREM DecisionConverges ==
    ASSUME Apart,
           NEW x, WellFormed(x), classifyEvent(x).ok, classifyEvent(x).type = "decision.recorded",
           NEW y, WellFormed(y), classifyEvent(y).ok, classifyEvent(y).type = "decision.outcome_attested"
    PROVE  DecisionRowConverges(classifyEvent(x), classifyEvent(y))
  <1>1. Storable(classifyEvent(x)) /\ Storable(classifyEvent(y))
    BY Accepted DEF Storable
  <1>2. QED
    BY <1>1, StorableConverge

-----------------------------------------------------------------------------
(* config.ts *)

\* Any configuration resolveConfig accepts, whatever integers it was given and whatever
\* MAX_SAFE_INTEGER is, can be run: the events of a batch fit a request and the queue by
\* their number, the backoff starts below its ceiling, every timer is set for some time,
\* and every option given is the one used.
THEOREM ConfigRuns ==
    ASSUME NEW config,
           \A name \in DOMAIN Options :
             config.options[name].given \in BOOLEAN /\ config.options[name].value \in Int
    PROVE  ResolvedConfigRuns(config)
  <1> DEFINE value(name) == resolveInt(name, config.options[name]).value
             c == resolveConfig(config)
  <1> SUFFICES ASSUME c.ok
               PROVE  /\ \A n \in {1, c.options.maxBatchSize} :
                           IngestRequestSchema(n) /\ n <= c.options.maxQueueSize
                      /\ c.options.initialBackoffMs <= c.options.maxBackoffMs
                      /\ \A name \in Timers : c.options[name] > 0
                      /\ \A name \in DOMAIN Options :
                           config.options[name].given => c.options[name] = config.options[name].value
    BY DEF ResolvedConfigRuns
  <1>1. /\ \A name \in DOMAIN Options : inBounds(name, config.options[name])
        /\ value("maxQueueSize") >= value("maxBatchSize")
        /\ value("maxBackoffMs") >= value("initialBackoffMs")
        /\ c = [ok |-> TRUE, options |-> [name \in DOMAIN Options |-> value(name)]]
    BY DEF resolveConfig
  <1>2. /\ DOMAIN Options = {"flushIntervalMs", "requestTimeoutMs", "shutdownTimeoutMs", "maxBatchSize",
                             "maxQueueSize", "initialBackoffMs", "maxBackoffMs", "maxRetries",
                             "maxFieldBytes"}
        /\ Timers \subseteq DOMAIN Options /\ \A name \in Timers : Options[name][2] = 1
        /\ Options["maxBatchSize"][2] = 1 /\ Options["maxBatchSize"][3] = 500
        /\ \A name \in DOMAIN Options : Options[name][1] \in Int
    BY DEF Options, Timers, INGEST_LIMITS
  <1>3. \A name \in DOMAIN Options :
          /\ value(name) \in Int
          /\ config.options[name].given => value(name) = config.options[name].value
    BY <1>2 DEF resolveInt
  <1>4. value("maxBatchSize") >= 1 /\ value("maxBatchSize") <= 500
    BY <1>1, <1>2 DEF inBounds
  <1>10. \A name \in Timers : value(name) >= 1
    BY <1>1, <1>2 DEF inBounds
  <1> HIDE DEF value, c
  <1>5. c.options = [name \in DOMAIN Options |-> value(name)]
    BY <1>1
  <1>6. \A name \in DOMAIN Options : c.options[name] = value(name)
    BY <1>5
  <1>7. /\ c.options["maxBatchSize"] \in Int /\ c.options["maxQueueSize"] \in Int
        /\ c.options["maxBatchSize"] >= 1 /\ c.options["maxBatchSize"] <= 500
        /\ c.options["maxQueueSize"] >= c.options["maxBatchSize"]
        /\ c.options["initialBackoffMs"] <= c.options["maxBackoffMs"]
    BY <1>1, <1>2, <1>3, <1>4, <1>6
  <1>8. \A n \in {1, c.options["maxBatchSize"]} : IngestRequestSchema(n) /\ n <= c.options["maxQueueSize"]
    BY <1>7 DEF IngestRequestSchema, INGEST_LIMITS
  <1>11. \A name \in Timers : c.options[name] > 0
    BY <1>2, <1>3, <1>6, <1>10
  <1>9. QED
    BY <1>3, <1>6, <1>7, <1>8, <1>11

-----------------------------------------------------------------------------
(* transport.ts against the service *)

\* An attempt; what answers in front of the server answers "later".
IsAttempt(attempt) ==
    /\ DOMAIN attempt = {"batch", "link", "busy", "failure", "readable"}
    /\ attempt = [f \in DOMAIN attempt |-> attempt[f]]
    /\ attempt.link \in {"up", "refused", "lost", "busy"}
    /\ attempt.link = "busy" => attempt.busy \in Nat /\ isRetryableStatus(attempt.busy)
    /\ attempt.batch.serializable \in BOOLEAN

\* A request is refused for its own sake whatever the database does, and accepted only if it does nothing wrong.
LEMMA Statuses ==
    ASSUME NEW body, NEW size, NEW failure
    PROVE  /\ ingestStatus(body, size, absent) \in {200, 400}
           /\ ingestStatus(body, size, failure) = 400 <=> ingestStatus(body, size, absent) = 400
           /\ ingestStatus(body, size, failure) = 200 <=>
                failure = absent /\ ingestStatus(body, size, absent) = 200
           /\ ingestStatus(body, size, failure) \in {200, 400, 500, 503}
  BY DEF ingestStatus, bodyParserErrorHandler, classifyPersistenceFailure

\* The transport gives up only what no attempt could deliver and calls delivered only what
\* was stored, for every batch, link, answer and failure (createHttpTransport's send).
THEOREM OutcomesAreTrue ==
    ASSUME NEW attempt, IsAttempt(attempt)
    PROVE  OutcomeIsWhatHappened(attempt)
  <1> DEFINE body == bodyOf(attempt.batch)
             status == ingestStatus(body, attempt.batch.size, attempt.failure)
             sound == ingestStatus(body, attempt.batch.size, absent)
             healthy == Healthy(attempt)
  <1>1. /\ healthy.batch = attempt.batch /\ healthy.link = "up" /\ healthy.failure = absent
    BY DEF Healthy, IsAttempt
  <1>2. /\ sound \in {200, 400} /\ status \in {200, 400, 500, 503}
        /\ status = 400 <=> sound = 400
        /\ status = 200 <=> attempt.failure = absent /\ sound = 200
    BY Statuses
  <1>3. /\ ~isRetryableStatus(400) /\ isRetryableStatus(500) /\ isRetryableStatus(503)
        /\ ~isRetryableStatus(200)
    BY DEF isRetryableStatus
  <1>4. CASE ~attempt.batch.serializable
    <2>1. send(attempt).outcome = "permanent" /\ send(healthy).outcome = "permanent"
      BY <1>1, <1>4 DEF send
    <2>2. Committed(attempt) = "nothing"
      BY <1>4 DEF Committed
    <2>3. QED
      BY <2>1, <2>2 DEF OutcomeIsWhatHappened
  <1>5. CASE attempt.batch.serializable /\ attempt.link \in {"refused", "lost"}
    <2>1. send(attempt).outcome = "retryable"
      BY <1>5 DEF send
    <2>2. attempt.link = "refused" => Committed(attempt) = "nothing"
      BY DEF Committed
    <2>3. QED
      BY <1>5, <2>1, <2>2 DEF OutcomeIsWhatHappened
  <1>6. CASE attempt.batch.serializable /\ attempt.link = "busy"
    <2>1. isRetryableStatus(attempt.busy) /\ attempt.busy # 200
      BY <1>3, <1>6 DEF IsAttempt
    <2>2. send(attempt).outcome = "retryable"
      BY <1>6, <2>1 DEF send
    <2>3. Committed(attempt) = "nothing"
      BY <1>6 DEF Committed
    <2>4. QED
      BY <2>2, <2>3 DEF OutcomeIsWhatHappened
  <1>7. CASE attempt.batch.serializable /\ attempt.link = "up"
    <2>1. /\ send(attempt).outcome = IF status = 200 THEN "delivered"
                                     ELSE IF isRetryableStatus(status) THEN "retryable" ELSE "permanent"
          /\ send(healthy).outcome = IF sound = 200 THEN "delivered"
                                     ELSE IF isRetryableStatus(sound) THEN "retryable" ELSE "permanent"
      BY <1>1, <1>7 DEF send
    <2>2. Committed(attempt) = IF sound # 200 THEN "nothing"
                               ELSE IF attempt.failure = absent THEN "everything" ELSE "some"
      BY <1>7 DEF Committed
    <2> HIDE DEF status, sound, healthy
    <2>3. QED
      BY <1>2, <1>3, <2>1, <2>2 DEF OutcomeIsWhatHappened, healthy
  <1>8. QED
    BY <1>4, <1>5, <1>6, <1>7 DEF IsAttempt

-----------------------------------------------------------------------------
(***************************************************************************)
(* worker.ts.  The callbacks are a loop over what happens; the proof is by *)
(* the least number of things after which the child would not be what the  *)
(* trace says.                                                             *)
(***************************************************************************)

\* Every nonempty set of numbers has a least one.
LEMMA LeastExists ==
    ASSUME NEW S \in SUBSET Nat, S # {}
    PROVE  \E i \in S : \A j \in S : i <= j
  <1> DEFINE NatOrder == {p \in Nat \X Nat : p[1] < p[2]}
  <1>1. IsWellFoundedOn(NatOrder, Nat)
    BY NatLessThanWellFounded, SMT DEF OpToRel, NatOrder
  <1>2. PICK i \in S : \A j \in S : ~ (<<j, i>> \in NatOrder)
    BY <1>1, WFMin, Zenon
  <1>3. ASSUME NEW j \in S PROVE i <= j
    <2>1. i \in Nat /\ j \in Nat
      OBVIOUS
    <2>2. ~ (<<j, i>> \in NatOrder)
      BY <1>2
    <2>3. QED
      BY <2>1, <2>2 DEF NatOrder
  <1>4. QED
    BY <1>3

\* The child after each thing that happens is the one before it, changed by it.
LEMMA ChildrenDef ==
    ASSUME NEW trace, Len(trace) \in Nat
    PROVE  K!Children(trace) =
             [n \in 0..Len(trace) |->
                IF n = 0 THEN K!Started ELSE K!happens(K!Children(trace)[n - 1], trace[n])]
  <1> DEFINE F(g, k) == IF k = 0 THEN K!Started ELSE K!happens(g[k - 1], trace[k])
             Runs(g, n) == g = [k \in 0..n |-> F(g, k)]
             bad == {n \in Nat : ~ \E g : Runs(g, n)}
  <1>1. bad = {}
    <2>1. SUFFICES ASSUME bad # {} PROVE FALSE
      OBVIOUS
    <2>2. PICK n \in bad : \A m \in bad : n <= m
      <3>1. bad \in SUBSET Nat
        OBVIOUS
      <3> HIDE DEF bad
      <3>2. QED
        BY <2>1, <3>1, LeastExists
    <2>3. n # 0
      <3>1. SUFFICES ASSUME n = 0 PROVE FALSE
        OBVIOUS
      <3> DEFINE z == [k \in 0..0 |-> K!Started]
      <3>2. z = [k \in 0..0 |-> F(z, k)]
        <4>1. \A k \in 0..0 : k = 0
          OBVIOUS
        <4>2. QED
          BY <4>1
      <3>3. Runs(z, n)
        BY <3>1, <3>2
      <3>4. QED
        BY <3>3
    <2>4. n \in Nat /\ n - 1 \in Nat /\ ~ (n <= n - 1)
      BY <2>3
    <2>5. PICK g : Runs(g, n - 1)
      <3>1. n - 1 \notin bad
        BY <2>2, <2>4
      <3>2. QED
        BY <2>4, <3>1
    <2> DEFINE h == [k \in 0..n |-> F(g, k)]
    <2>6. ASSUME NEW k \in 0..n PROVE F(g, k) = F(h, k)
      <3>1. CASE k = 0
        BY <3>1
      <3>2. CASE k # 0
        <4>1. k - 1 \in 0..n /\ k - 1 \in 0..(n - 1)
          BY <2>4, <3>2
        <4>2. g[k - 1] = F(g, k - 1)
          <5>1. g = [j \in 0..(n - 1) |-> F(g, j)]
            BY <2>5
          <5> HIDE DEF F, h
          <5>2. QED
            BY <4>1, <5>1
        <4>3. h[k - 1] = F(g, k - 1)
          <5> HIDE DEF F
          <5>1. QED
            BY <4>1
        <4>4. QED
          BY <3>2, <4>2, <4>3
      <3>3. QED
        BY <3>1, <3>2
    <2>7. h = [k \in 0..n |-> F(h, k)]
      <3> HIDE DEF F
      <3>1. QED
        BY <2>6
    <2>8. Runs(h, n)
      BY <2>7
    <2>9. QED
      BY <2>8
  <1>2. \E g : Runs(g, Len(trace))
    BY <1>1
  <1>3. K!Children(trace) = CHOOSE g : Runs(g, Len(trace))
    BY DEF K!Children
  <1>4. Runs(K!Children(trace), Len(trace))
    <2> HIDE DEF Runs
    <2>1. QED
      BY <1>2, <1>3
  <1>5. QED
    BY <1>4

\* What can happen around a child: "none" is what is on disk before any envelope.
IsTrace(trace) ==
    /\ Len(trace) \in Nat /\ DOMAIN trace = 1..Len(trace)
    /\ \A i \in DOMAIN trace : /\ trace[i].what \in {"stdout", "report", "timer", "error", "close"}
                               /\ trace[i].what = "report" => trace[i].report # "none"

\* The child closes, or fails to start.
Ends(trace, i) == trace[i].what \in {"close", "error"}

\* The child has not ended when the i-th thing happens, nor ends with it.
Alive(trace, i) == \A e \in 1..i : ~Ends(trace, e)

\* An envelope written in time.
Reported(trace, i) == trace[i].what = "report" /\ Alive(trace, i)

\* A complete result line printed in time.
Resulted(trace, i) == trace[i].what = "stdout" /\ trace[i].line.kind = "result" /\ Alive(trace, i)

\* The lines that are printed.
Lines(trace) == {trace[i].line : i \in DOMAIN trace}

\* A result without a subtype is read as "result".
Subtype(line) == IF line.subtype = absent THEN "result" ELSE line.subtype

\* Where the result lines are.
Results(stdout) == {k \in DOMAIN stdout : stdout[k].kind = "result"}

\* The child after n things is what the n say.
Follows(trace, n, c) ==
    /\ c = [stdout |-> c.stdout, onDisk |-> c.onDisk, timedOut |-> c.timedOut, ended |-> c.ended, code |-> c.code]
    /\ c.ended \in BOOLEAN /\ c.timedOut \in BOOLEAN
    /\ c.stdout \in Seq(Lines(trace))
    /\ c.ended <=> \E e \in 1..n : Ends(trace, e)
    /\ c.timedOut <=> \E i \in 1..n : trace[i].what = "timer" /\ Alive(trace, i)
    /\ \/ c.onDisk = "none" /\ \A i \in 1..n : ~Reported(trace, i)
       \/ \E i \in 1..n : /\ Reported(trace, i) /\ c.onDisk = trace[i].report
                          /\ \A j \in 1..n : Reported(trace, j) => j <= i
    /\ \/ Results(c.stdout) = {} /\ \A i \in 1..n : ~Resulted(trace, i)
       \/ \E i \in 1..n, k \in Results(c.stdout) :
            /\ Resulted(trace, i) /\ c.stdout[k] = trace[i].line
            /\ \A j \in 1..n : Resulted(trace, j) => j <= i
            /\ \A j \in Results(c.stdout) : j <= k

\* Nothing has happened to a child just started.
LEMMA StartFollows == ASSUME NEW trace PROVE Follows(trace, 0, K!Started)
  <1>1. 1..0 = {}
    OBVIOUS
  <1>2. K!Started.stdout = <<>> /\ Results(<<>>) = {}
    BY DEF K!Started, Results
  <1>3. QED
    BY <1>1, <1>2 DEF Follows, K!Started

\* One more line of output adds itself to the result lines or leaves them alone.
LEMMA ResultAppended ==
    ASSUME NEW L, NEW s \in Seq(L), NEW line \in L
    PROVE  /\ Append(s, line) \in Seq(L)
           /\ Append(s, line)[Len(s) + 1] = line
           /\ \A k \in DOMAIN s : k \in DOMAIN Append(s, line) /\ Append(s, line)[k] = s[k] /\ k <= Len(s) + 1
           /\ Results(Append(s, line)) =
                IF line.kind = "result" THEN Results(s) \cup {Len(s) + 1} ELSE Results(s)
  <1>1. /\ Append(s, line) \in Seq(L) /\ Append(s, line)[Len(s) + 1] = line
        /\ DOMAIN s = 1..Len(s) /\ DOMAIN Append(s, line) = 1..(Len(s) + 1) /\ Len(s) \in Nat
        /\ \A k \in DOMAIN s : Append(s, line)[k] = s[k]
    OBVIOUS
  <1>2. DOMAIN Append(s, line) = DOMAIN s \cup {Len(s) + 1} /\ \A k \in DOMAIN s : k <= Len(s) + 1
    BY <1>1
  <1> DEFINE t == Append(s, line)
  <1> HIDE DEF t
  <1>3. QED
    BY <1>1, <1>2 DEF Results, t

\* Each callback keeps the child what the trace says it is.
LEMMA StepFollows ==
    ASSUME NEW trace, IsTrace(trace), NEW n \in 1..Len(trace), NEW c, Follows(trace, n - 1, c)
    PROVE  Follows(trace, n, K!happens(c, trace[n]))
  <1> DEFINE e == trace[n]
             d == K!happens(c, trace[n])
  <1>1. /\ n \in Nat /\ n - 1 \in Nat /\ n \in 1..n /\ n \in DOMAIN trace
        /\ 1..n = (1..(n - 1)) \cup {n}
        /\ \A i \in 1..(n - 1) : i <= n /\ i # n
    BY DEF IsTrace
  <1>2. e.what \in {"stdout", "report", "timer", "error", "close"}
    BY <1>1 DEF IsTrace
  <1>3. Alive(trace, n) <=> ~c.ended /\ ~Ends(trace, n)
    BY <1>1 DEF Alive, Follows
  <1>4. CASE c.ended
    <2>1. d = c
      BY <1>4, <1>2 DEF K!happens
    <2>2. ~Alive(trace, n) /\ ~Reported(trace, n) /\ ~Resulted(trace, n)
      BY <1>3, <1>4 DEF Reported, Resulted
    <2> HIDE DEF d
    <2>3. QED
      BY <1>1, <1>4, <2>1, <2>2 DEF Follows, d
  <1>5. CASE ~c.ended /\ e.what \in {"close", "error"}
    <2>1. /\ d.ended = TRUE /\ d.stdout = c.stdout /\ d.onDisk = c.onDisk /\ d.timedOut = c.timedOut
          /\ d = [stdout |-> d.stdout, onDisk |-> d.onDisk, timedOut |-> d.timedOut, ended |-> d.ended,
                  code |-> d.code]
      BY <1>5 DEF K!happens, Follows
    <2>2. ~Alive(trace, n) /\ ~Reported(trace, n) /\ ~Resulted(trace, n) /\ Ends(trace, n)
      BY <1>3, <1>5 DEF Reported, Resulted, Ends
    <2> HIDE DEF d
    <2>3. QED
      BY <1>1, <2>1, <2>2 DEF Follows, d
  <1>6. CASE ~c.ended /\ e.what = "timer"
    <2>1. /\ d.ended = c.ended /\ d.stdout = c.stdout /\ d.onDisk = c.onDisk /\ d.timedOut = TRUE
          /\ d = [stdout |-> d.stdout, onDisk |-> d.onDisk, timedOut |-> d.timedOut, ended |-> d.ended,
                  code |-> d.code]
      BY <1>6 DEF K!happens, Follows
    <2>2. Alive(trace, n) /\ ~Reported(trace, n) /\ ~Resulted(trace, n) /\ ~Ends(trace, n)
      BY <1>3, <1>6 DEF Reported, Resulted, Ends
    <2> HIDE DEF d
    <2>3. QED
      BY <1>1, <1>6, <2>1, <2>2 DEF Follows, d
  <1>7. CASE ~c.ended /\ e.what = "report"
    <2>1. /\ d.ended = c.ended /\ d.stdout = c.stdout /\ d.onDisk = e.report /\ d.timedOut = c.timedOut
          /\ d = [stdout |-> d.stdout, onDisk |-> d.onDisk, timedOut |-> d.timedOut, ended |-> d.ended,
                  code |-> d.code]
      BY <1>7 DEF K!happens, Follows
    <2>2. Reported(trace, n) /\ ~Resulted(trace, n) /\ ~Ends(trace, n) /\ e.what # "timer"
      BY <1>3, <1>7 DEF Reported, Resulted, Ends
    <2>3. \A j \in 1..n : j <= n
      BY <1>1
    <2> HIDE DEF d
    <2>4. QED
      BY <1>1, <2>1, <2>2, <2>3 DEF Follows, d
  <1>8. CASE ~c.ended /\ e.what = "stdout"
    <2>1. /\ d.ended = c.ended /\ d.stdout = Append(c.stdout, e.line) /\ d.onDisk = c.onDisk
          /\ d.timedOut = c.timedOut
          /\ d = [stdout |-> d.stdout, onDisk |-> d.onDisk, timedOut |-> d.timedOut, ended |-> d.ended,
                  code |-> d.code]
      BY <1>8 DEF K!happens, Follows
    <2>2. /\ ~Reported(trace, n) /\ ~Ends(trace, n) /\ e.what # "timer"
          /\ Resulted(trace, n) <=> e.line.kind = "result"
      BY <1>3, <1>8 DEF Reported, Resulted, Ends
    <2>3. c.stdout \in Seq(Lines(trace)) /\ e.line \in Lines(trace)
      BY <1>1 DEF Follows, Lines
    <2> DEFINE last == Len(c.stdout) + 1
    <2>4. /\ d.stdout \in Seq(Lines(trace)) /\ d.stdout[last] = e.line
          /\ \A k \in DOMAIN c.stdout : d.stdout[k] = c.stdout[k] /\ k <= last
          /\ Results(d.stdout) = IF e.line.kind = "result" THEN Results(c.stdout) \cup {last}
                                 ELSE Results(c.stdout)
      <3> DEFINE s == c.stdout
                 line == e.line
      <3>1. s \in Seq(Lines(trace)) /\ line \in Lines(trace)
        BY <2>3
      <3>2. d.stdout = Append(s, line)
        BY <2>1
      <3> HIDE DEF s, line, d
      <3>3. /\ Append(s, line) \in Seq(Lines(trace)) /\ Append(s, line)[Len(s) + 1] = line
            /\ \A k \in DOMAIN s : Append(s, line)[k] = s[k] /\ k <= Len(s) + 1
            /\ Results(Append(s, line)) =
                 IF line.kind = "result" THEN Results(s) \cup {Len(s) + 1} ELSE Results(s)
        BY <3>1, ResultAppended
      <3>4. QED
        BY <3>2, <3>3 DEF s, line
    <2>5. last \in Nat /\ Results(c.stdout) \subseteq DOMAIN c.stdout /\ last <= last
      BY <2>3 DEF Results
    <2> HIDE DEF d, last
    <2>6. \/ Results(d.stdout) = {} /\ \A i \in 1..n : ~Resulted(trace, i)
          \/ \E i \in 1..n, k \in Results(d.stdout) :
               /\ Resulted(trace, i) /\ d.stdout[k] = trace[i].line
               /\ \A j \in 1..n : Resulted(trace, j) => j <= i
               /\ \A j \in Results(d.stdout) : j <= k
      <3>1. CASE e.line.kind = "result"
        <4>1. Resulted(trace, n) /\ last \in Results(d.stdout) /\ d.stdout[last] = trace[n].line
          BY <3>1, <2>2, <2>4
        <4>2. \A j \in 1..n : j <= n
          BY <1>1
        <4>3. \A j \in Results(d.stdout) : j <= last
          BY <3>1, <2>4, <2>5
        <4>4. QED
          BY <4>1, <4>2, <4>3, <1>1
      <3>2. CASE e.line.kind # "result"
        <4>1. ~Resulted(trace, n) /\ Results(d.stdout) = Results(c.stdout)
              /\ \A k \in Results(c.stdout) : d.stdout[k] = c.stdout[k]
          BY <3>2, <2>2, <2>4, <2>5
        <4>2. \/ Results(c.stdout) = {} /\ \A i \in 1..(n - 1) : ~Resulted(trace, i)
              \/ \E i \in 1..(n - 1), k \in Results(c.stdout) :
                   /\ Resulted(trace, i) /\ c.stdout[k] = trace[i].line
                   /\ \A j \in 1..(n - 1) : Resulted(trace, j) => j <= i
                   /\ \A j \in Results(c.stdout) : j <= k
          BY DEF Follows
        <4>3. QED
          BY <1>1, <4>1, <4>2
      <3>3. QED
        BY <3>1, <3>2
    <2>7. /\ d.ended <=> \E i \in 1..n : Ends(trace, i)
          /\ d.timedOut <=> \E i \in 1..n : trace[i].what = "timer" /\ Alive(trace, i)
          /\ d.ended \in BOOLEAN /\ d.timedOut \in BOOLEAN
      BY <1>1, <2>1, <2>2 DEF Follows
    <2>8. \/ d.onDisk = "none" /\ \A i \in 1..n : ~Reported(trace, i)
          \/ \E i \in 1..n : /\ Reported(trace, i) /\ d.onDisk = trace[i].report
                             /\ \A j \in 1..n : Reported(trace, j) => j <= i
      BY <1>1, <2>1, <2>2 DEF Follows
    <2>9. QED
      BY <2>1, <2>4, <2>6, <2>7, <2>8 DEF Follows, d
  <1>9. QED
    BY <1>2, <1>4, <1>5, <1>6, <1>7, <1>8 DEF Follows

\* So is the child after the whole trace.
LEMMA ChildFollows ==
    ASSUME NEW trace, IsTrace(trace)
    PROVE  Follows(trace, Len(trace), K!ChildAfter(trace))
  <1> DEFINE after == K!Children(trace)
             bad == {n \in 0..Len(trace) : ~Follows(trace, n, after[n])}
  <1>1. Len(trace) \in Nat
    BY DEF IsTrace
  <1>2. after = [n \in 0..Len(trace) |-> IF n = 0 THEN K!Started ELSE K!happens(after[n - 1], trace[n])]
    BY <1>1, ChildrenDef
  <1> HIDE DEF after
  <1>3. bad = {}
    <2>1. SUFFICES ASSUME bad # {} PROVE FALSE
      OBVIOUS
    <2>2. bad \in SUBSET Nat
      BY <1>1
    <2>3. PICK n \in bad : \A m \in bad : n <= m
      <3> HIDE DEF bad
      <3>1. QED
        BY <2>1, <2>2, LeastExists
    <2>4. n # 0
      <3>1. after[0] = K!Started
        BY <1>1, <1>2
      <3>2. QED
        BY <3>1, StartFollows
    <2>5. n \in 1..Len(trace) /\ n - 1 \in 0..Len(trace) /\ ~(n <= n - 1)
      BY <1>1, <2>4
    <2>6. Follows(trace, n - 1, after[n - 1])
      BY <2>3, <2>5
    <2>7. after[n] = K!happens(after[n - 1], trace[n])
      BY <1>2, <2>4, <2>5
    <2>8. Follows(trace, n, after[n])
      BY <2>5, <2>6, <2>7, StepFollows
    <2>9. QED
      BY <2>8
  <1>4. QED
    BY <1>1, <1>3 DEF K!ChildAfter, after

\* However many lines, envelopes and signals come, in any order: a worker's outcome is the last
\* valid envelope written before its process ended, and FAILED without one (runWorker).
THEOREM OutcomesAreEarned ==
    ASSUME NEW trace, IsTrace(trace), NEW schemaExists \in BOOLEAN, absent \notin K!ROTATION_SUBTYPES
    PROVE  K!OutcomeIsEarned(trace, schemaExists)
  <1> DEFINE c == K!ChildAfter(trace)
             result == K!runWorker(trace, schemaExists)
             ends == {i \in DOMAIN trace : trace[i].what \in {"close", "error"}}
             InTime(i) == \A e \in ends : i < e
             reports == {i \in DOMAIN trace : trace[i].what = "report" /\ InTime(i)}
             Last(S) == CHOOSE i \in S : \A j \in S : j <= i
             Valid(i) == schemaExists /\ trace[i].report \notin {"notJson", "invalid"}
             N == Len(trace)
  <1>1. Follows(trace, N, c)
    BY ChildFollows
  <1>2. N \in Nat /\ DOMAIN trace = 1..N
    BY DEF IsTrace
  <1> HIDE DEF c, N
  <1>3. ASSUME NEW i \in DOMAIN trace PROVE InTime(i) <=> Alive(trace, i)
    <2>1. \A e \in ends : ~(i < e) <=> e \in 1..i
      BY <1>2
    <2>2. \A e \in 1..i : e \in DOMAIN trace
      BY <1>2
    <2>3. \A e \in DOMAIN trace : e \in ends <=> Ends(trace, e)
      BY DEF Ends
    <2> HIDE DEF ends
    <2>4. ends \subseteq DOMAIN trace
      BY DEF ends
    <2>5. QED
      BY <2>1, <2>2, <2>3, <2>4 DEF Alive
  <1>4. \A i \in DOMAIN trace : i \in reports <=> Reported(trace, i)
    BY <1>3 DEF Reported
  <1>5. /\ result.resolved = c.ended /\ result.timedOut = c.timedOut
        /\ result.resultSubtype = K!parseResultSubtype(c.stdout)
        /\ result.outcome = IF c.onDisk \in {"none", "notJson", "invalid"} \/ ~schemaExists
                            THEN "FAILED" ELSE c.onDisk
    BY DEF K!runWorker, K!readReport, K!Refused, c
  <1>6. result.resolved <=> ends # {}
    BY <1>1, <1>2, <1>5 DEF Follows, Ends
  <1>7. result.timedOut <=> \E i \in DOMAIN trace : trace[i].what = "timer" /\ InTime(i)
    <2> HIDE DEF InTime, result
    <2>1. QED
      BY <1>1, <1>2, <1>3, <1>5 DEF Follows
  <1>8. /\ result.outcome # "FAILED" =>
             reports # {} /\ Valid(Last(reports)) /\ trace[Last(reports)].report = result.outcome
        /\ reports # {} /\ Valid(Last(reports)) => result.outcome = trace[Last(reports)].report
    <2> HIDE DEF result
    <2>1. CASE c.onDisk = "none" /\ \A i \in 1..N : ~Reported(trace, i)
      <3>1. reports = {} /\ result.outcome = "FAILED"
        BY <2>1, <1>2, <1>4, <1>5
      <3> HIDE DEF reports
      <3>2. QED
        BY <3>1
    <2>2. CASE \E i \in 1..N : /\ Reported(trace, i) /\ c.onDisk = trace[i].report
                               /\ \A j \in 1..N : Reported(trace, j) => j <= i
      <3>1. PICK i \in 1..N : /\ Reported(trace, i) /\ c.onDisk = trace[i].report
                              /\ \A j \in 1..N : Reported(trace, j) => j <= i
        BY <2>2
      <3>2. i \in reports /\ \A j \in reports : j <= i /\ j \in Nat
        BY <1>2, <1>4, <3>1
      <3> HIDE DEF reports
      <3>3. i \in Nat /\ \A k \in reports : (\A j \in reports : j <= k) => k = i
        BY <3>2
      <3>4. Last(reports) = i
        BY <3>2, <3>3
      <3>5. trace[i].report # "none"
        BY <1>2, <3>1 DEF Reported, IsTrace
      <3> HIDE DEF Last
      <3>6. QED
        BY <3>1, <3>2, <3>4, <3>5, <1>5
    <2>3. QED
      BY <1>1, <2>1, <2>2 DEF Follows
  <1>9. K!isRotationSubtype(result.resultSubtype) =>
          \E i \in DOMAIN trace : /\ trace[i].what = "stdout" /\ trace[i].line.kind = "result"
                                  /\ trace[i].line.subtype = result.resultSubtype
                                  /\ \A j \in DOMAIN trace :
                                       j > i /\ InTime(j) /\ trace[j].what = "stdout" =>
                                         trace[j].line.kind # "result"
    <2> SUFFICES ASSUME K!isRotationSubtype(result.resultSubtype)
                 PROVE  \E i \in DOMAIN trace : /\ trace[i].what = "stdout" /\ trace[i].line.kind = "result"
                                  /\ trace[i].line.subtype = result.resultSubtype
                                  /\ \A j \in DOMAIN trace :
                                       j > i /\ InTime(j) /\ trace[j].what = "stdout" =>
                                         trace[j].line.kind # "result"
      OBVIOUS
    <2> HIDE DEF result, InTime
    <2>1. K!parseResultSubtype(c.stdout) \in K!ROTATION_SUBTYPES
      BY <1>5 DEF K!isRotationSubtype
    <2>2. Results(c.stdout) # {}
      BY <2>1 DEF K!parseResultSubtype, Results
    <2>3. PICK i \in 1..N, k \in Results(c.stdout) :
               /\ Resulted(trace, i) /\ c.stdout[k] = trace[i].line
               /\ \A j \in 1..N : Resulted(trace, j) => j <= i
               /\ \A j \in Results(c.stdout) : j <= k
      BY <1>1, <2>2 DEF Follows
    <2>4. (CHOOSE q \in Results(c.stdout) : \A j \in Results(c.stdout) : j <= q) = k
      <3>1. Results(c.stdout) \subseteq Nat
        BY <1>1 DEF Follows, Results
      <3>2. \A q \in Results(c.stdout) : (\A j \in Results(c.stdout) : j <= q) => q = k
        BY <2>3, <3>1
      <3>3. QED
        BY <2>3, <3>2
    <2>5. result.resultSubtype = Subtype(trace[i].line)
      BY <1>5, <2>2, <2>3, <2>4 DEF K!parseResultSubtype, Results, Subtype
    <2>6. trace[i].line.subtype = result.resultSubtype
      BY <2>1, <2>5, <1>5 DEF Subtype, K!ROTATION_SUBTYPES
    <2>7. ASSUME NEW j \in DOMAIN trace, j > i, InTime(j), trace[j].what = "stdout"
          PROVE  trace[j].line.kind # "result"
      <3>1. ~Resulted(trace, j)
        BY <1>2, <2>3, <2>7
      <3>2. QED
        BY <1>3, <2>7, <3>1 DEF Resulted
    <2>8. QED
      BY <1>2, <2>3, <2>6, <2>7 DEF Resulted
  <1>10. QED
    BY <1>6, <1>7, <1>8, <1>9 DEF K!OutcomeIsEarned

\* A repair bound is at least one, and above the standing one only with a charter that exists.
LEMMA RepairBound ==
    ASSUME NEW bound, bound = absent \/ bound \in Int, NEW whole \in BOOLEAN, NEW charter,
           NEW exists \in BOOLEAN, K!resolveRepairPolicy(bound, whole, charter, exists).ok
    PROVE  LET policy == K!resolveRepairPolicy(bound, whole, charter, exists)
           IN /\ policy.bound >= 1
              /\ policy.bound > K!STANDING_REPAIR_BOUND => charter # absent /\ exists
  <1> DEFINE policy == K!resolveRepairPolicy(bound, whole, charter, exists)
  <1>1. K!Refused.ok = FALSE /\ K!standingPolicy.bound = 2 /\ K!STANDING_REPAIR_BOUND = 2
    BY DEF K!Refused, K!standingPolicy, K!STANDING_REPAIR_BOUND
  <1>2. CASE policy = K!standingPolicy
    BY <1>1, <1>2
  <1>3. CASE policy # K!standingPolicy
    <2>1. bound # absent
      BY <1>1, <1>3 DEF K!resolveRepairPolicy
    <2>2. bound \in Int
      BY <2>1
    <2>3. whole /\ ~(bound < 1) /\ ~(bound > K!STANDING_REPAIR_BOUND /\ (charter = absent \/ ~exists))
      BY <1>1, <1>3, <2>1, <2>2 DEF K!resolveRepairPolicy
    <2>4. policy.bound = bound
      BY <1>1, <1>3, <2>1, <2>2, <2>3 DEF K!resolveRepairPolicy
    <2> HIDE DEF policy
    <2>5. policy.bound >= 1
      BY <2>2, <2>3, <2>4
    <2>6. policy.bound > K!STANDING_REPAIR_BOUND => charter # absent /\ exists
      BY <2>3, <2>4, Zenon
    <2>7. QED
      BY <2>5, <2>6 DEF policy
  <1>4. QED
    BY <1>2, <1>3

\* A value that is not given is none of those that are.
NotGiven == absent \notin K!SUPERVISED_PERMISSION_MODES \cup {K!NoMode, "floor", "claude", "bypassPermissions"}

\* No arguments and no environment start a run wider than someone authorised: permissions,
\* deny floor, repair bound and shell (optionsFrom, resolveLaunch, spawned).
THEOREM NoWiderThanAuthorised ==
    ASSUME NotGiven, NEW argv, argv.maxRepairs = absent \/ argv.maxRepairs \in Int,
           argv.whole \in BOOLEAN, argv.charterExists \in BOOLEAN,
           NEW mode, NEW spec, NEW override, NEW platform
    PROVE  K!RunsAsAuthorised(argv, mode, spec, override, platform)
  <1> DEFINE options == K!optionsFrom(argv, mode)
             repair == K!resolveRepairPolicy(argv.maxRepairs, argv.whole, argv.charter, argv.charterExists)
             permission == K!resolvePermissionPosture(mode)
             launch == K!resolveLaunch(spec, override, K!claudeOptionsFor(options.permission))
  <1> SUFFICES ASSUME options.ok
               PROVE  /\ launch.mode = "bypassPermissions" => mode = "bypassPermissions"
                      /\ launch.mode \in K!SUPERVISED_PERMISSION_MODES \cup {absent}
                      /\ launch.command = "claude" => (launch.settings = "floor" <=> mode # "bypassPermissions")
                      /\ options.repair.bound > K!STANDING_REPAIR_BOUND =>
                           argv.charter # absent /\ argv.charterExists
                      /\ options.repair.bound >= 1
                      /\ launch.unsafe => K!spawned(launch, platform) # "shell"
    BY DEF K!RunsAsAuthorised
  <1>1. /\ options.repair = repair /\ options.permission = permission /\ repair.ok /\ permission.ok
    BY DEF K!optionsFrom, K!Refused
  <1>2. /\ permission.mode \in K!SUPERVISED_PERMISSION_MODES
        /\ permission.mode = "bypassPermissions" <=> mode = "bypassPermissions"
        /\ permission.bypassed <=> mode = "bypassPermissions"
        /\ permission.bypassed \in BOOLEAN
    <2>1. CASE mode \in {absent, K!NoMode}
      <3>1. K!NoMode \notin K!SUPERVISED_PERMISSION_MODES /\ K!NoMode # "bypassPermissions"
        BY Zenon DEF K!NoMode, K!SUPERVISED_PERMISSION_MODES
      <3>2. permission = [ok |-> TRUE, mode |-> K!DEFAULT_PERMISSION_MODE, bypassed |-> FALSE]
        BY <2>1, <3>1 DEF K!resolvePermissionPosture, NotGiven
      <3>3. QED
        BY <2>1, <3>1, <3>2 DEF NotGiven, K!DEFAULT_PERMISSION_MODE, K!SUPERVISED_PERMISSION_MODES
    <2>2. CASE mode \notin {absent, K!NoMode}
      <3>1. mode \in K!SUPERVISED_PERMISSION_MODES
        BY <1>1, <2>2 DEF K!resolvePermissionPosture, K!Refused
      <3> DEFINE bypassed == mode = "bypassPermissions"
      <3>2. permission = [ok |-> TRUE, mode |-> mode, bypassed |-> bypassed]
        BY <2>2, <3>1, Zenon DEF K!resolvePermissionPosture
      <3>3. bypassed \in BOOLEAN
        OBVIOUS
      <3> HIDE DEF bypassed, permission
      <3>4. permission.mode = mode /\ permission.bypassed = bypassed
        BY <3>2
      <3>5. QED
        BY <3>1, <3>3, <3>4 DEF bypassed
    <2>3. QED
      BY <2>1, <2>2
  <1>3. /\ repair.bound >= 1
        /\ repair.bound > K!STANDING_REPAIR_BOUND => argv.charter # absent /\ argv.charterExists
    BY <1>1, RepairBound
  <1>4. launch.unsafe => K!spawned(launch, platform) # "shell"
    BY DEF K!spawned
  <1> HIDE DEF options, repair, permission
  <1>5. CASE override = absent
    <2>1. /\ launch.mode = permission.mode
          /\ launch.settings = IF permission.bypassed THEN absent ELSE "floor"
      BY <1>1, <1>5 DEF K!resolveLaunch, K!claudeLaunch, K!claudeOptionsFor
    <2> HIDE DEF launch
    <2>2. QED
      BY <1>1, <1>2, <1>3, <1>4, <2>1 DEF NotGiven
  <1>6. CASE override # absent
    <2>1. launch.mode = absent /\ launch.command = "override"
      BY <1>6 DEF K!resolveLaunch
    <2> HIDE DEF launch
    <2>2. QED
      BY <1>1, <1>3, <1>4, <2>1 DEF NotGiven
  <1>7. QED
    BY <1>5, <1>6
=============================================================================
