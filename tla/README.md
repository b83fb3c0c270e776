# LenGentic in TLA+

LenGentic records what agent workflows do. A host program uses the telemetry SDK, the SDK sends
batches of events to an API, the API merges them into a Postgres database, and an analysis engine
and a dashboard read them. The repository also holds the *autopilot*, a supervisor that drives its
own development: it derives the next action from the repository, launches workers in lanes and runs
gates.

The parts with state, concurrency and failure are modelled as state machines: the SDK's client and
handles, the ingest path and the read side of the API, client and server together for the drop
count, the lanes, the node leases and the supervisor. The pure parts (merge rules, payload safety,
wire contract, analysis, the dashboard's derivations, oracle, lane rules, worker outcome) are
operators checked against reference definitions. Paths below are relative to `src/`.

## 1. The system's components

| Component | State | Operations | Hard behaviour | What makes it correct |
|---|---|---|---|---|
| SDK client, `platform/telemetry-sdk/src/client.ts`, `bounded-queue.ts` | queue, counters, pump promise, timers, delivery id | `record`, `flush`, `shutdown`, pump continuations, timers, transport answers | calls between two continuations; timeouts racing answers; shutdown racing flush | no event unaccounted for; flush and shutdown keep their promises; the pump ends |
| SDK handles, `handles.ts` | handle closed or not, ids issued | start, complete, record, attest | host code that runs while a payload is built and calls the handles again, or throws | parents announced first, one completion an entity, no call lost silently |
| Payload safety, `payload-safety.ts` | none (pure) | sanitise, redact, cap, fingerprint | cycles, shared objects, hooks that answer or throw | the cap holds, no secret survives, the walk ends |
| Transport, `transport.ts` | none | send | the answer is lost or unreadable, the server is busy or fails half way | a batch is given up only when no attempt could deliver it |
| Wire contract, `shared/schema`, `wire-sanitize.ts`, `events.ts`, `config.ts` | none (pure) | parse, reject, screen | boundaries, versions, which fault is named | what is accepted fits its column |
| Ingest service, `platform/api/src/telemetry/` | Run, Step, Decision, call tables, event ledger, drop ledger | `ingest` | batches out of order, repeated, concurrent; failures between transactions | the row is a function of the set of events; an answer means stored |
| Merge rules, `merge-rules.ts` | none (pure) | `mergeEvent` | ties, a completion before its start | order independence |
| Runs read side, `platform/api/src/runs/`, and the pages that fetch from it | none; a page keeps its offset and its last answer | list, detail, summary | a read is several queries and rows are written between them; a page is turned while runs arrive | paging misses nothing that was there; a page is one run's; STALE means silent |
| Analysis engine, `platform/analysis-engine/src/` | none (pure) | aggregate, gates, repeated failures | boundaries, order of records | a verdict is what the records justify, in any order |
| Dashboard derivations, `platform/dashboard/src/` | none (pure) | step tree, timeline, health, cards | cycles and orphans in the tree, missing instants | every step shown once; a mark only where a row justifies it |
| Oracle, `scripts/oracle.ts` | none: reads the tree | status, ready, waves, blocked, packet, slice | cyclic and dangling needs | a packet is ready when what it needs is done |
| Lanes, `scripts/lanes.ts` | branches, handoff files, ledger | decide, check, handoff, integrate, merge | agents that go on while the gate reads | what is merged was owned and handed over, in order |
| Leases, `scripts/autopilot/lease.ts` | one file a node | acquire, release, renew, reap | several processes, crashes between file accesses | one owner; a dead holder's node is reclaimed |
| Worker runner, `scripts/autopilot/worker.ts`, `repair-policy.ts` | one child process | launch, observe, decide the outcome | exit, close, timeout, signal in any order | no authority that was not granted; success only on evidence |
| Supervisor, `scripts/autopilot/supervise.ts`, `state.ts`, `progression.ts`, `scripts/flow.ts` | `state.json`, stop flag, gate records, checkpoint, the tree | derive, dispatch, gate, repair, escalate, resume, stop | crashes between two saves; parallel workers; stale leases | no gate is skipped; repairs are bounded; delivery goes on |
| API shell, migrations, page layout, checks, knowledge-base scripts, playground, spikes | files | one-shot | none to speak of | not modelled, see section 8 |

How they interact: the host calls the handles and the client; a handle builds an event, runs it
through payload safety and the client's gate, and records it; the client sends batches through a
transport and learns only *delivered*, *retryable* or *permanent*; the service serialises what
concerns one Run or Step with an advisory lock and nothing else. A retry is a new request with the
same events and the same `deliveryId`. Readers share the database with the writers and take no lock.
The oracle derives what is ready, `lanes` decides what may be built at once and what may be merged,
`flow` derives the next action from both, and the supervisor carries it out. It talks to its workers
through files and exit codes, and to a second supervisor only through lease files and the revision
of `state.json`.

## 2. Modules

| Module | Models | Notes |
|---|---|---|
| `MergeRules` | `merge-rules.ts`, and the row conversions of `telemetry.repository.ts` | constants and operators only; `IsMergeOf(row, S)` is the reference definition: what a row must be when exactly the events `S` were merged |
| `TelemetryIngest` | `TelemetryService.ingest` and `TelemetryRepository` | several requests; a step is what runs between two awaits |
| `TelemetryClient` | `client.ts`, `bounded-queue.ts` | a step is one call, timer, transport answer or promise continuation |
| `DropReporting` | `TelemetryClient` composed with a network and with `incrementDroppedCount` | requests outlive their timeout |
| `EntityLog` | the abstract specification of what one process says to the server | an entity is opened first and once, closed at most once, never moved to another run |
| `Handles` | `handles.ts` over an abstract `record()` | a call begins, host code may run inside it, it ends; refines `EntityLog` |
| `PayloadSafety` | `payload-safety.ts` | pure |
| `WireContract` | `shared/schema`, `wire-sanitize.ts`, `events.ts`, `config.ts`, the entity writers | pure; a value is its class |
| `Exchange` | `transport.ts` against the API's parser, pipe, exception filter and failure classification | pure; one attempt end to end |
| `RunsRead` | `platform/api/src/runs/`, the run list and run page that fetch | a step is one query, one answer or one commit of the writer |
| `RunPages` | `step-tree.ts`, `timeline.ts`, `run-telemetry.ts`, the cards | pure |
| `Analysis` | `aggregate.ts`, `gates.ts`, `repeated-failed-action.ts` | pure; a ratio is a pair of naturals |
| `Oracle` | `scripts/oracle.ts` | pure; a path is the sequence of its names |
| `LaneRules`, `Lanes` | `scripts/lanes.ts` | the rules as operators, the commands as actions |
| `Lease` | `lease.ts` | a step is one file-system access of one process |
| `Worker` | `worker.ts`, `repair-policy.ts`, the options of `autopilot.ts` | operators; the outcome is a fold over what happened to the process |
| `Flow` | `flow.ts`, and the readiness of `oracle.ts` | operators over the repository's state; `transition` is `flow next` |
| `Supervisor` | `supervise.ts`, `state.ts`, `progression.ts` | extends `Flow`; a step is one write of `state.json`, one worker event or one wait |
| `MC...` | instances for TLC | `MCDerivations` is the instance of all the pure modules |
| `TelemetryIngestProofs`, `TelemetryClientProofs`, `HandlesProofs`, `RunsReadProofs`, `LanesProofs`, `RulesProofs`, `LeaseProofs`, `SupervisorProofs` | theorems | section 6; the first two also cover `MergeRules` and `DropReporting` |

**`MergeRules`.** An event has an id, an instant (`at`), a type, a terminal status, a name (standing
for all of the start's own fields) and metadata. `eventId` order and `occurredAt` order are orders
of naturals. `null` and `absent` are different values, because `toJsonInput` turns the second into
the first and the row has one metadata column for the metadata of the start and of the completion.
`ToRow`/`ToState` are `saveRunWith`/`runRowToState` and their Step counterparts.

**`TelemetryIngest`.** `Arrive` is the classification loop; validation is abstracted to its result
(`defect`: none, found before parsing, found after). `BeginGroup` takes the advisory lock and loads
row and ledger, `FoldEvent` is one round of the fold, `CommitGroup` the transaction's effects.
`CommitUnacknowledged`, `PersistenceFailure` and `Crash` end a request at any point.
`PersistEntityWrite` is one upsert; a Decision row has the columns of its recording and of its
outcome, each owned by one event type. `FoldDropped` is one `incrementDroppedCount`, with the
`DropDelivery` ledger and the saturation at `MaxInt4`. `credited` is a history variable.

**`TelemetryClient`.** `queue` holds events numbered in the order of their recording. `pump` says
where `deliverBatch` is suspended, `flush[f]` where the call of `flush()` by the host or by
`shutdown()` is, `shut` where `performShutdown` is. `PumpEnds` is the `finally` that clears
`pumping`, a microtask after the loop ended: the state `"ending"` lies between the two. `mark[f]`
is a history variable: the last event recorded when `flush[f]` was called. A second `flush()` of
the host while one is running, and a second `shutdown()` (it returns the same promise), are left
out. Server counters and diagnostics are left out.

**`DropReporting`.** Extends `TelemetryClient` with the requests on the wire. Drops are numbered,
so a report covers an interval of them; the server sees an amount and an id only.

**`Lease`.** One node, several supervisor processes. A file has an identity (`ino`), so a process
that created a file and lost its name still writes to the old file. An expiry date is the number of
the write that set it; `expired` is the set of dates that have passed; a call uses the time at which
it began (`now`).

**`Flow`.** A packet is TODO, PARTIAL or DONE by its probes. `Owing` is the set of segments the
selection loop would stop at, `current` the first of them, `transition` the action derived. Modes,
agents, steps and reasons are text for the worker. `flow record` is `MayRecord` and `GateRecord`.

**`Supervisor`.** `pc` is where the loop is. A handler's result is booked in several writes of
`state.json` with no await between them; `saves` is the list of those still to be made, so that the
process can die between any two (`Crash`). Workers change `built` and `handoffs` as they please
(`WorkerBuilds`, `Regress`) and report what they please (`WorkerEnds`). A worker of any role may undo a
packet; `Breaks` bounds which role undoes which, and the theorems hold for every value of it. A gate is `GateCommand`, the
gate worker, then `GateRecorded`, `GateWorkerRed` or `GateRefused`; a gate that is not recorded is
held: `Hold`, its writes, `RepairGate`. A batch is one packet or as many as may run at once, closed
under dependencies: which of the two `lanes.ts` decides is left open. `blame` is a history variable:
whether only gates went wrong so far, or workers too, or a crash or regression.
Three reductions: a stop request and the expiry of a lease are taken at the head of the loop, the
only place that looks at them; a node's status is left out, as it decides only the wording of the
next brief; there is no iteration limit, `RunsEndBeforeTheLimit` shows when it is not reached.

**`Handles` and `EntityLog`.** `stack` holds the calls that have begun: `createRun`, `createStep`,
`complete` and the others are the part before the payload is built (the check of `completed`, the
id), `Ends` the part after it, and between the
two the host may make further calls, because the redaction hook, a `toJSON` or a getter is host code. It may also throw (`Throws`, where
`Inputs` has "throwing"): the getter of a `toJSON` or of `metadata` and an invalid `Date` throw out of
the call, whose event is then neither sent nor counted; `thrown` is the history of those.
`record()` accepts an event, drops it and counts it, or is closed. The refinement maps `wire`, the
events that were accepted, to `log`; `HandlesKeepTheLog` says that each step of the handles is a step
of the log or leaves it alone. A decision of an earlier process, whose id the host kept, may be
attested and so is never opened in the log.

**`RunsRead`.** The writer is `TelemetryIngest` seen from outside: a batch reads the clock once,
commits later, and a run group writes back what it loaded (`LoadRun`, `StoreRunEvent`), so
`lastEventAt` can fall. Readers are three independent parts: the list with its offset, a run with
its five collections, and the summary. A query returns any
listing its `ORDER BY` allows.

**`Lanes`.** An agent edits any file, commits, writes and rewrites its handoff as it pleases;
`integrate` reads one handoff at a time in dependency order, then merges. `LaneRules` has the
decision: ownership, overlap, dirty trees, shared surfaces, the concurrency granted. The loops of
`dependencyOrder` and `dependents` are recursive functions of the number of rounds done, which is
what the proofs follow; `Upstream`, the reference they are compared with, is the least set that is
closed under needs.

**The pure modules.** `MCDerivations` has one variable, `subject`. An initial state is a kind of input,
a step picks an input of that kind, and each invariant says what the operators compute on it: a step
tree places every step once and under its parent when it can; the figures of an aggregate are the same for
every order of the records, and so is its key when no two keys are written alike; a capped value is below its cap; an accepted event fits its row. Comparing
with a reference definition, not with the code's own steps, is the point (`f ++ g` is the spread of
two objects, defined in `WireContract` because the prover has no definition of `@@`): the references are
quantified statements, the operators are the code's walks and folds. Sizes are scaled where the
code's own are out of reach (a walk of depth 3 and width 2 for 32 and 1000, a cap of 24 units): the
limits are constants of `PayloadSafety`, and a heap of four objects exceeds each of them. So are
`MAX_SAFE_INTEGER` of `WireContract` (a million in the instance; the theorems take any) and `WaveCap` of
`Oracle` (20 in the code; 3 in the instance, where a chain of three packets reaches it).

## 3. Runs

| Run | Expected | Question |
|---|---|---|
| `IngestMerge` | pass | Three requests over every overlap of one run's events: is the row the merge of the ledger, and is each event accepted once? |
| `IngestService` | pass | Two requests with runs, steps, decisions, calls, rejections and drop reports: does an answer mean stored, is a report credited once and only after the batch is stored, is nothing blanked or reopened, is a replay no sign of life, does every request end? |
| `Client` | pass | Are events conserved, the drop report sound, flush and a lone shutdown true to their word; does the pump end when timers fire, and shutdown when only its deadline does? |
| `ClientQueue` | violation | Does a queued event always leave the queue? |
| `DropReports` | pass | Is every drop counted at most once for a run? |
| `Handles` | pass | With a host that completes twice, goes on after shutdown, calls the handles from its own callbacks and throws from them: is every parent announced first or its loss counted, is a completed handle one with exactly one completion (sent, counted, being built or thrown away), do the handles implement `EntityLog`? |
| `Reading` | pass | While batches are stored: does paging miss a run that was there, are a run's page and summary those of one run's rows, was a STALE run silent for the threshold? |
| `Derivations` | pass | Do the pure parts compute what their reference definitions say? |
| `Lanes` | pass | With one commit a lane: is what is merged owned and handed over, do lanes never clash, does upstream come first, do lanes run together only when granted? |
| `LaneCommits` | violation | With two commits a lane: is what is merged owned? |
| `Leases` | pass | Is the create a lock, does expiry alone cost nobody the node, is the lease of a dead process reclaimed? |
| `Supervision` | pass | Through crashes, restarts, red gates and any worker: are a gate's repairs bounded, does a held gate recover, does an escalation freeze everything, is no owed gate passed over and no phase recorded before the waves of all its packets, does every run end by itself? |

Some properties are conjunctions of named parts. `HandlesAreSound`: types, `ParentsPrecede`,
`CallsAreAccounted`. `ReadsAreConsistent`: types, `RunPageIsTheRun`, `SummaryCountsEveryCall`.
`IntegrationIsSafe`: types, `MergesDoNotConflict`, `MergedInDependencyOrder`, `ConcurrencyIsGranted`,
`LedgerKeepsFirst`. `LeaseIsALock`: types, `CreateIsTheLock`. `RepairsAreBounded`: types,
`GateRepairsBounded`. `ReportsAreSound`: types, `DropsCountedOnce`. Of `Derivations`:

* `PagesShowTheRun`: `StepTree`, `Timeline`, `Health`, `ExclusionMarks`;
* `AnalysisIsSound`: `Aggregation`, `Counterexamples`, `Verdicts`, `RepeatedFailures`;
* `DeliveryRulesHold`: `Waves`, `Roots`, `Slices`, `Reviews`, `Packets` of the oracle, `Parallel`,
  `Order`, `Evidence`, `Probes` of the lanes, `Authority`, `Outcomes` of the worker;
* `WireIsSound`: `Caps`, `Redaction`, `Fingerprints`, `Walks` of the payload, `Faults`, `Columns`,
  `Gates`, `DecisionRows`, `ConfigResolves` of the contract, `Exchanges` of the transport.

**Bounds.** `IngestMerge`: 6 events of one run (three starts with a tie, three completions with a
tie, one FAILED), 7 submissions, 3 requests: enough for a retry to race two other batches.
`IngestService`: 2 requests, each with any of 10 submissions; every pairwise interaction of the
service is between two requests. `MaxInt4 = 3` is exceeded by two reports of 2 for one run. `MaxClock` bounds the
server clock at two or three readings, all that "older" and "newer" need. `Client`: `MaxCalls = 4`
calls of `record`, a queue of 2, batches of 2 and one retry: overflow, a full batch, a second
attempt and a queue that refills behind a batch all happen. `DropReports`: queue and batch of 1,
one retry and 3 calls: a batch is given up while its request is still on the wire and the next
batch reports the same drops. `Handles`: 4 entities, 5 calls, calls nested two deep: a run, a step
below it, a step below that and a decision, each completed twice or from inside another's payload.
`Reading`: three runs and pages of 2, so that a run arrives, ages or ties on the boundary of a page;
two instants. The constraint `OnePart` keeps three parts of the state space: the list is walked while
up to two requests at a time create runs (`Walking`), the list is read while one run and its step
report (`Reporting`), and one run is opened while its rows are written (`Detailing`). Readers change
nothing the writer or another reader sees, so a property of one needs no more than its own part. `Derivations`: lists of 4 steps with
every parent relation (a missing parent and the step itself among them), three decisions, five calls
of two keys, graphs of 3 nodes with every relation of needs, 4 units in every relation, patterns over
paths of up to three names. `Lanes`: two lanes, three batches (independent, dependent, overlapping),
files each lane owns, may not touch or shares. `Leases`: two processes and 3 leases. `Supervision`: two segments, three packets,
one of which builds on another; three repositories to begin with (half built; built, with a decision
open; broken, with a recovery in flight); two sessions, so that every durable state is resumed once;
`Bound = 1`, `MaxRotations = 1` and `NoProgressLimit = 2` are the smallest values with which each
limit is both kept and exceeded; two red outcomes exceed the repair bound by one. One regression:
the gate's worker or the repair worker undoes a packet of the first segment, or a packet's own worker
undoes the packet.

## 4. Fairness

`TelemetryIngest`: weak fairness of each request's own successful steps (an event loop runs what is
ready, a lock is handed on when it is free); a failure or crash is never obliged, so no request ends
because a failure was due. `TelemetryClient`: weak fairness of promise continuations; of timers
only where a property says so (`PumpTerminates` assumes it, `ShutdownCompletes` needs the deadline
alone); none of the transport or the host. `Lease`: a living process takes its next step, time
passes, workers end. `Supervisor`, `RunsRead`, `Handles`, `Lanes`: no fairness. That runs of the
supervisor end is stated as a bound on iterations; readers, hosts and agents may stop at any time.

## 5. What the models found

Two disagreements between the code and what the repository says of it are runs:

1. **A full batch can stay queued** (`ClientQueue`): `record()` in the microtask between the end of
   the pump's loop and its `finally` cancels the timer and joins a pump that has ended.
   `client.ts:352`: "flush on interval or on buffer size, whichever comes first".
2. **A merge takes more than the gate looked at** (`LaneCommits`): `validateHandoff` asks for the
   files of the one commit the handoff names, the merge takes the whole branch. `lanes.ts:643`:
   "changed files inside allowed_paths". With one commit a lane the property holds (`Lanes`).

Seven more are kept as definitions; each is violated by the model with the constants given:

3. **`lastEventAt` can regress** (`LastEventAtMonotonic`, `TelemetryIngest`). A run group loads the row,
   a step group of the same run (another lock) commits a later `lastEventAt`, and `saveRunWith` writes
   back its own. `merge-rules.ts:77`: "Monotonic — never regresses, even if an older event is processed
   later". `IngestService.cfg` with three requests, `LivenessSubmissions`, `MaxClock = 3`, `Spec`. On
   the read side it makes a run STALE that is not: `StaleMeansSilent` excepts exactly that case.
4. **`shutdown()` can return before the last batch is delivered** (`ShutdownDrains`,
   `TelemetryClient`), when an earlier `flush()` of the host has just taken it. `client.ts:88`: "drains
   the queue, then stops". `Spec`, `MaxQueueSize = 2`, `MaxBatchSize = 1`, `MaxRetries = 0`,
   `MaxCalls = 2`.
5. **Two owners of a node** (`AtMostOneOwner`, `Lease`): judging a dead lease and removing it are two
   accesses, and the removal is by name. `lease.ts:4`: "a node has at most one live owner". The same
   can come of a file read between its creation and its writing, which `acquireLease` takes for
   expired and dead although `readLease` says such a file "is a held lease"; the definition leaves
   that case out. `Spec`, three processes, `MaxWrites = 3`.
6. **A failed worker can stop every gate** (`FailedWorkerIsOrdinary`, `Supervisor`). A worker that
   finished its node and then failed leaves an unresolved failure that only a later DONE of the node
   would resolve; the node is DONE by its probes and is not dispatched again, so each gate is held
   until its repairs are spent. `docs/AUTOPILOT_SUPERVISOR.md:174`: "Nothing on that list reaches a
   human except the last two. ... a crashed worker, ... are all ordinary work." `Supervision.cfg` with
   `NoProgressLimit = 3`, `MaxSessions = 1`, `MaxReds = 1`, `MaxRegressions = 0`.
7. **A phase can be left without a gate** (`PhaseAdvancesOnlyGreen`, `Supervisor`). `closedByHistory`
   takes a segment without records for one delivered before there were any; a segment the supervisor
   has just delivered has none either, and one probe of a later segment that already holds is enough
   to pass over it. `docs/AUTOPILOT_SUPERVISOR.md:132`: "A **phase** advances only when all five
   mandatory sources are GREEN". `Supervision.cfg` with `FlatNeeds`, `UndeliveredRepositories`,
   `NoProgressLimit = 3`, `MaxSessions = 1`, `MaxReds = 0`, `MaxRegressions = 0`.
   `DebtIsNeverSkipped` shows that a segment with any record is safe from this.
8. **A held gate of a segment that history closes stops every later gate** (`HeldGateRecovers`,
   `Supervisor`). The first segment's wave gate is red; its other packet awaits a decision, which is
   answered; the packet is delivered, a later segment has begun, and `closedByHistory` passes over the
   segment before its gate is green. Its failure is never resolved, and "other segments' gate
   failures, still block" (`state.ts:298`). `docs/AUTOPILOT_SUPERVISOR.md:174`: only BLOCKED and "the
   run is stuck" reach a human. `Supervision.cfg` with `FlatNeeds`, `OvertakenRepositories`,
   `MaxRegressions = 0`. `OrderlyStart` of `HeldGatesRecover` (section 6) excludes exactly such a start.
   The other hypothesis of that theorem is needed as well: with `--max-repairs` not below the
   no-progress limit (`Bound = 1`, `NoProgressLimit = 1`) a gate that comes back red is given up as
   "no progress", and that failure too is never resolved and blocks the gate after a resume.
9. **The SDK can throw into host code** (`NeverThrows`, `Handles`). `callToJson` reads the member
   `toJSON` outside its `try` (`payload-safety.ts:434`), `metadataOf` reads `input.metadata` unguarded
   (`handles.ts:212`), and `toISOString` of an invalid `Date` throws (`handles.ts:279`, `397`).
   `telemetry-sdk/README.md:73`: "The SDK never throws into host code"; `payload-safety.ts:392`: "§15
   requires surviving a throwing getter". A completion is marked before its payload is built
   (`handles.ts:228`), so one that threw is never sent, not even by a second `complete`, and no counter
   shows it. `FirstCompletionDecides` counts it as the handle's one completion. `Handles.cfg`.

Observations made while translating, which the models contain and no property forbids:

* `gates.ts:99`: a verdict CANDIDATE with a gate NOT_APPLICABLE is excluded only while the dominance
  and coverage thresholds together exceed one, as the defaults do.
* `aggregate.ts:48` joins the names of a group key with a space, so groups whose names contain spaces can
  share a bucket. Its aggregate mixes them, and its key is that of whichever record came first.
* `repeated-failed-action.ts:77`: calls at one `occurredAt` stay in the order they were given in.
* `parse.ts:87` says faults are reported in the order listed; a type the version does not have yet is
  looked at after the required fields, a missing payload among them.
* The SDK sends NUL, lone surrogates, integers above int4 and years below 1, all of which the server
  rejects; and 100 events of 64 KB, more than the 5 MB the server reads (`config.ts:86`).
* A redactor that answers an object with a new object ends the redaction below it, and what a `toJSON`
  answers is not offered to it; nor are the name and message of an `Error` (`payload-safety.ts:336`, against
  "a redacted key never enters the buffer", `handles.ts:152`); records with more keys than the walk visits get a fingerprint that
  depends on the order of insertion.
* Metadata that a redactor made a scalar is carried in a record after the cap was verified
  (`payload-safety.ts:173`), so it can exceed `maxFieldBytes` by that record, against "this is the
  guarantee" (`473`).
* A completion that is dropped marks its handle completed, so
  it is never sent (`handles.ts:228`). Of two attestations the one that arrives last wins.
* `lanes.ts`: a batch of only cyclic units is reported as PHASE_COMPLETE (`1297`); `diff-tree` of a
  merge commit lists no files (`867`); the ledger is read and then appended to (`1123`); a suite that
  skipped every test counts as evidence; sibling directories do not overlap, although the comment at
  `199` says that they are reported.
* `worker.ts:346`: the path of the program, which `AUTOPILOT_CLAUDE_BIN` can name, is put on the shell's
  command line without the check its arguments get.
* `worker.ts:424` waits for `close`, hence for the pipes of a worker's descendants;
  `--worker-timeout-min` above 35791 overflows `setTimeout` (`autopilot.ts:121`), and so do delays of the
  SDK's configuration above 2^31 - 1.

## 6. What is proved

All theorems hold for every value of the constants under the assumptions named in the modules (two
of `SupervisorProofs`, two about `Lanes` and those about pure operators have hypotheses of their own,
given below):
bounds are naturals, positive where the code's are; sets of runs, nodes, processes and rows are
finite; `null` is none of the values it stands beside; `GraphAssumption` (each node has a segment,
no segment is listed twice in `Order`); `ChildrenAssumption` (the rows of a table have a primary
key); `EventsAssumption` and `SubmissionsAssumption` (what `TelemetryIngest` may be sent);
`BatchAssumption` (a batch is a sequence of at least one unit with paths for surfaces),
`BoundsAssumption` and `AbsentAssumption` (no decision and no handoff is the value that stands for
there being none) of `Lanes`. TLC evaluates all of them on the instances.

A safety property is proved from an inductive invariant that implies it, which TLC checked on the
run's instance before it was proved; the step lemma has one case per action.

* `TelemetryIngestProofs`. First the merge rules. `MergeAdds`: if a state is the merge of `S`, merging
  `e` gives the merge of `S \cup {e}`. The work is in the metadata: the completion that wins need not
  be the one whose metadata is kept, which is what `MetaOriginIsLast` of the reference definition
  says. `MergeDetermined`: the reference definition leaves no freedom. Together they are the order
  independence of the merge rules. Then the service: `TypeCorrect`. `OrderIndependence`: `RowIsMergeOfLedger` is invariant.
  It is not inductive: the strengthening `MergeInv` says that while a request holds the lock of `k`
  its merge state is the merge of what the ledger holds for `k` and what it has folded so far, that
  nobody else can commit to `k` meanwhile, and that `seen` is the ledger's part of the group.
  `TerminalIsForever` follows from it and from the ledger's growth.
  The answers need more, `AnswerInv`: what a request has dealt with has its verdict and is stored
  (`VerdictsGiven`); an open transaction has accepted each id once and none the ledger holds, and
  while it has accepted nothing its run has not moved behind the state it loaded (`FoldedOnce`);
  no two requests have committed the same event as new (`TakenOnce`); a credited report has its
  delivery id in the ledger of deliveries (`CreditedAreDone`). From it follow `AcceptedAtMostOnce`,
  `AnswerMeansStored`, `DropsCredited` and the action property `ReplayKeepsLiveness`; `ColumnsStay`
  needs the types only.
* `TelemetryClientProofs`. One inductive invariant `IInv` (types, conservation, the order of the
  numbers in queue and batch, the soundness of the snapshot, what each state of a `flush()` knows
  about the queue) gives `TypeCorrect`, `Conservation` (the queue's bound included), `DropReportSound`,
  `FlushCovers` (of the queue: an earlier event may still be in the batch in flight), `LoneShutdown` and the action property `GivingUpIsFinal`.
  With the server: `NoDropCountedTwice`. `DropInv` adds to the client's `IInv` the argument of
  the comments on `acknowledgedDrops` and `pendingDeliveryId`: a report under the pending id starts
  at the baseline and is no larger than the last one, any other lies below the baseline (`WireInv`),
  so reports under different ids are about different drops (`Apart`); what is counted lies below
  the baseline, or within the pending report once that was folded (`CountedInv`), and a report the
  server would still fold is about drops it has not counted (`FreshInv`). The steps of the client
  are sorted into four kinds by what they do to the report (open, resend, acknowledge, none), so the
  composition is proved without going through the client's actions again.
* `HandlesProofs`. `TreeIsWhole`, `OneCompletion`. What makes the invariant inductive is the calls
  that have begun: one that opens an entity opens an id that no accepted event, no handle and no
  other call knows of (`Building`), and everything said of an entity agrees with its handle
  (`AllAgree`, `OpenedInItsRun`). A handle is completed exactly when one completion of it was accepted,
  dropped, thrown away or is being built (section 5, 9). `HandlesImplementTheLog` is the refinement of `EntityLog`: an
  accepted event is a step of the log, every other step of the handles leaves it alone.
* `LanesProofs`, rules. `OrderIsTopological`: `dependencyOrder` names every unit of a batch of any
  length once, each after what it needs of the batch unless needs run in a circle. A loop that was
  cut off too early, or that stopped while a unit was still free, would be a least round at which the
  order misses something; a round that frees no unit leaves a set of units each of which needs another
  of them, and such a set is circular (`StuckIsCircular`). With circular needs the code puts the rest
  of the batch out as it stands, so the condition cannot be dropped. `EveryOrderIsRunnable` adds that
  a lane entry halts exactly the units that need the failed one, directly or not: the rounds of
  `dependents` stay inside the least set and end with it. `EveryParallelIsSafe`,
  `EveryDoneIsEvidenced` and `EveryProbeReadsItsOwn` are `ParallelIsSafe`, `DoneIsEvidenced` (a passing
  check with an artifact behind the events it names, for every criterion) and `ProbesReadTheirOwn` for
  every batch, handoff and node with paths of any length. The last excludes
  surfaces of the form `dir/*`: a probe of `dir` itself passes the lint under one, though it is not a
  file inside. `graph.json` has none.
* `LanesProofs`, commands. The invariant `LaneInv`: the lanes at work are within what `evaluate` granted
  (`DecisionInv`); the gate has passed a prefix of the order, behind each lane passed there is a
  commit, and it exits 0 only at the end (`GateInv`); the surfaces of the lanes it passed are apart
  (`SurfacesApart`); the commit it looked at is owned (`GatedAreOwned`); main is the order as far as
  the integrator came (`MainInv`). The two links between gate and main are the point: neither what is
  merged nor that it was owned can be seen from the merging step, which reads the branch and not the
  handoff. `OnlyOwnedIsMerged` and `IntegrationSafe` assume `MaxCommits <= 1`, without which they are
  false (finding 2), and the second that no batch has circular needs. `GateIsComplete` and
  `LanesRunAsGranted` (types, concurrency, ledger) assume neither.
* `RulesProofs`, contract. TLC replaces one or two fields of a sound event at a time; here all fields
  vary at once. `AcceptedIsStored`: the database refuses nothing that `classifyEvent` accepts. The
  argument goes from the schema and the screens (`Screened`) to the column of each field (`Fits`), and
  from there through the writer of each table: `WritesKeepRows` says that a write of such an event to
  any row the table can hold leaves one, which covers any sequence of writes. `DecisionConverges`:
  recording and attestation give one row in either order, repeated or not. `FaultOrder`: of several
  faults the first in the contract's order is reported, except that a type its version does not have is
  reported only where the fields required of every event are there. `OneGate`: the client's gate and the
  server's parser agree. `ConfigRuns`: whatever integers a configuration holds and whatever
  `MAX_SAFE_INTEGER` is, one that `resolveConfig` accepts has a batch the queue can hold and the server
  takes by its count (its bytes may still be too many, section 5), and timers that wait.
  Hypotheses: `null` and a missing key are not values (`Apart`), an envelope has the fields of one
  (`WellFormed`). `FaultOrder` was false of the model as it had been: two guards of a `CASE` in
  `classifyEnvelopeFailure` overlapped, which leaves open which of the two is taken. The code takes the
  first, and so does the model now.
* `RulesProofs`, delivery. `OutcomesAreTrue`: over every batch, link, status and failure, the transport
  gives up only what no attempt could deliver and calls delivered only what was stored. `IsAttempt`
  restricts what answers in front of the server to statuses that say "later" (section 8).
  `OutcomesAreEarned`: for a trace of any length around a worker process, the outcome is that of the
  last valid report written before the process ended. The proof finds the first event at which what
  `runWorker` remembers would differ from what the trace says, and there is none.
  `NoWiderThanAuthorised`: no arguments, mode, override or platform widen permissions, repairs or
  shell beyond what someone authorised.
* `LeaseProofs`. `CreateLocks`, `ExpiryCostsNothing`. `OneHolder` extends ownership back to the
  moment of the `wx` create (a process that has created the file and not yet written its lease
  holds it too); `StaleMeansDeath` says that a process about to remove a lease it could read has
  seen its holder dead, so expiry alone removes nothing.
* `SupervisorProofs`. `RepairsBounded`: the bound on repair workers is not inductive, because the
  attempt is charged in one write of `state.json` and the escalation in a later one, and the process
  may die between them. `Sound(saves)` says that a list of pending writes charges once at most and
  that a charge beyond the bound is followed by an escalation; `RepairsInv` that each start of the
  supervisor can overrun a bucket once at most; `WorkersInv` that no worker is sent without its
  charge. `EscalationIsFinal` follows from where the loop can be when an escalation is set
  (`Placed`); `NoDebtSkipped` is about `transition`.
  `WavesBeforePhase` follows a phase gate from its derivation to its record: it was asked for when every
  packet of the segment was covered by a wave, and meanwhile records are only added (`PhaseInv`).
  `HeldGatesRecover` is proved from `HeldInv`, which says that as long as nothing but gates went wrong,
  and those no more often than the bound allows (`Calm`), every charge and every repeated derivation
  was a red gate (`RedCharges`, `RedRepeats`), and every unresolved failure is the gate failure of a
  segment whose gate is the next to pass and stays so (`Standing`, `GateFailures`), which is why it
  blocks no other. Its hypotheses are `Bound < NoProgressLimit` (the defaults are 2 and 6) and
  `OrderlyStart`: where a later segment has begun, no unfinished packet of an earlier one awaits a
  decision. Both are necessary (section 5, 8); the run's constants and three repositories satisfy them.
  `RunsEnd` bounds a run by `LongestRun`, `NoProgressLimit` times a number linear in the packets and
  segments of the delivery. Every change of the repository achieves a goal that was not achieved (a
  packet begun, finished, handed over or covered, a segment gated or reached, the recovery ended), or
  is a regression, which undoes one and is counted twice (`Progress`; `WorkGains`, `RegressGains`).
  For that the invariant knows that what is being done was asked for (`Asked`): a gate runs for packets
  no record covers, a reconciliation while there is something to recover. Between two changes the
  same action is derived, and given up after `NoProgressLimit` repetitions; `Paid` says that every
  iteration is a counted repetition or paid for by progress. The hypothesis, `LongestRun <
  MaxIterations`, says that the iteration limit is above that number. The number is not the least: on
  the run's instance it is 41, and TLC finds that a run has fewer than 24 iterations. With the default
  limits, 200 and 6, it covers deliveries with `2 * packets + segments <= 15` and no regression;
  of larger ones the theorem says that a limit of `LongestRun + 1` would not be reached.
* `RunsReadProofs`. `PagingIsComplete`: the runs of a walk that no page has shown lie at or behind
  the page asked for, and behind the page answered (`WalkInv`); the list is newest first and runs
  are never deleted, so a new run only moves them further back, which is a count of the runs before
  them (`Position`). `StaleIsSilent` needs that `lastEventAt` is the time of an event, also in
  what a run group has loaded and not saved (`LivenessInv`). `ReadsConsistent` needs, for each
  collection answered so far, that it lists all rows there were when the page was opened and only
  rows there are (`RequestInv`, `PageInv`).

## 7. What is only model-checked

* Liveness (`EveryRequestEnds`, `PumpTerminates`, `ShutdownCompletes`, `AbandonedNodeIsReclaimed`):
  fairness and `ENABLED` are out of the prover's reach.
* The four invariants of `Derivations` as they stand, because each ranges over operators the prover
  cannot follow. Of `DeliveryRulesHold` the rules of lanes and worker, and of `WireIsSound` those of the
  contract and the transport, are theorems (section 6). What remains is `RunPages` (all of
  `PagesShowTheRun`), `PayloadSafety` and `Oracle`, whose walks are recursive operators: what they
  compute takes an induction over trees and heaps. And `Analysis` (`AnalysisIsSound`), whose operators
  are filters, sorts and folds of sequences (`SelectSeq`, `SortSeq`, `FoldSeq`), which the provers
  cannot expand.
* That the findings 3 to 9 are violated.

## 8. What is not modelled

* The API's framework shell apart from the statuses in `Exchange`, migrations (SQL run
  once) and the layout and formatting of pages: no protocol, and nothing to interleave with.
* Statuses from in front of the server that are neither "later" nor 5xx (401, 404): the client gives
  such a batch up, and whether that is right depends on the deployment.
* The wording of a worker's brief (`bootstrap.ts`), of reports and of the journal.
* Repository checks and knowledge-base scripts: one-shot text processing. Playground and spikes:
  demonstrations.
* The revision check of `state.json` against a second supervisor (`StaleStateError`), and workers that
  outlive their supervisor (`lease.ts:170`): `Supervisor` has one process at a time.
* The death of the process between `flow record phase` and `resolveFailures` (`supervise.ts:765`)
  happens in the model, but no document says what should follow.

## 9. Plan

1. Done: the ingest path, the client, their composition, the leases, the supervisor, first theorems.
2. Done: the handles and the log they implement, the read side over a concurrent writer, the lanes,
   and the pure parts against reference definitions.
3. Done: every safety property of the ingest path, the client, their composition, the handles, the
   leases, the supervisor and the read side as a theorem.
4. Done: the lanes and their rules, and the pure rules at the edges (contract, transport, worker), as
   theorems.
5. Next: the revision check of `state.json` against a second supervisor, and workers that outlive theirs.
