------------------------------ MODULE RunsRead ------------------------------
(***************************************************************************)
(* The read side of the API (RunsController, RunsService, RunsRepository)  *)
(* and the two dashboard pages that fetch from it, while the ingest side   *)
(* keeps writing.                                                          *)
(*                                                                         *)
(* A read request is not a transaction: the run is one query, and the five *)
(* collections of its detail are five more that complete in any order, so  *)
(* rows are written between them.  Steps of the model are the queries.     *)
(* ORDER BY fixes what the database returns only up to ties: a query may   *)
(* return any listing its order allows.                                    *)
(*                                                                         *)
(* The writer is TelemetryIngest seen from outside: an ingest request      *)
(* reads the clock once and commits later, rows are never deleted, a run   *)
(* keeps the receivedAt it was created with.  lastEventAt may fall: a run  *)
(* group writes the later of its own reading and the one it loaded.        *)
(***************************************************************************)
EXTENDS Integers, FiniteSets, Sequences, FiniteSetsExt, SequencesExt

CONSTANTS
    Runs,              \* run ids, ordered like their strings
    Children,          \* Step, Decision, ModelCall, ToolCall and Error rows to come
    Limit,             \* the page size
    staleThresholdMs,
    MaxClock,          \* bound on the server clock
    MaxDropped,        \* bound on the drop count of a run
    null               \* no value: a model value

Kinds == {"steps", "decisions", "modelCalls", "toolCalls", "errors"}

ASSUME RunsAssumption == Runs \subseteq Nat /\ IsFiniteSet(Runs)

ASSUME NullAssumption == null \notin Nat

\* Rows of finitely many requests, each table with its primary key.
ASSUME ChildrenAssumption ==
    /\ IsFiniteSet(Children)
    /\ Children \subseteq [kind : Kinds, run : Runs, id : Nat, at : Nat,
                           metadata : {null, "object", "malformed"},
                           inputTokens : Nat \cup {null}, success : BOOLEAN]
    /\ \A c, d \in Children : c.kind = d.kind /\ c.id = d.id => c = d

ASSUME BoundsAssumption ==
    Limit \in Nat \ {0} /\ staleThresholdMs \in Nat /\ MaxClock \in Nat /\ MaxDropped \in Nat

VARIABLES
    clock,      \* the server clock
    runs,       \* the Run table: a function from the ids stored so far
    children,   \* the rows of the other five tables
    ingest,     \* the clock readings of ingest requests not committed yet, by run
    loaded,     \* the run groups between load and save: receivedAt and merged lastEventAt
    events,     \* history: the receivedAt of every event committed, by run
    request,    \* the request the reader waits for
    page,       \* what the reader's screen shows
    walk        \* history of a walk through the list

vars == <<clock, runs, children, ingest, loaded, events, request, page, walk>>

Status == {"RUNNING", "COMPLETED", "FAILED"}

\* A column of the Run table that readers tell apart.
RunRecord == [status : Status, receivedAt : 0..MaxClock, lastEventAt : 0..MaxClock,
              dropped : 0..MaxDropped \cup {null}]

Stored == DOMAIN runs

\* f with k mapped to v.
Put(f, k, v) == [j \in DOMAIN f \cup {k} |-> IF j = k THEN v ELSE f[j]]

Idle == [kind |-> "none"]

Blank == [kind |-> "blank"]

Init == /\ clock = 0
        /\ runs = <<>>
        /\ children = {}
        /\ ingest = [r \in Runs |-> null]
        /\ loaded = [r \in Runs |-> null]
        /\ events = [r \in Runs |-> {}]
        /\ request = Idle
        /\ page = Blank
        /\ walk = [start |-> {}, shown |-> {}]

-----------------------------------------------------------------------------
(* The writers. *)

Tick == /\ clock < MaxClock
        /\ clock' = clock + 1
        /\ UNCHANGED <<runs, children, ingest, loaded, events, request, page, walk>>

\* TelemetryService.ingest reads the clock once, before any of its transactions.
ReceiveBatch(r) == /\ ingest[r] = null
                   /\ ingest' = [ingest EXCEPT ![r] = clock]
                   /\ UNCHANGED <<clock, runs, children, loaded, events, request, page, walk>>

\* The transaction of a run event locks and loads the run; the fold keeps the later
\* lastEventAt.
LoadRun(r) ==
    /\ ingest[r] # null
    /\ loaded[r] = null
    /\ loaded' = [loaded EXCEPT ![r] =
                    [receivedAt |-> ingest[r],
                     lastEventAt |-> IF r \in Stored THEN Max({runs[r].lastEventAt, ingest[r]})
                                     ELSE ingest[r]]]
    /\ ingest' = [ingest EXCEPT ![r] = null]
    /\ UNCHANGED <<clock, runs, children, events, request, page, walk>>

\* saveRunWith creates the row or updates its columns.  A terminal status stays
\* (MergeRules).
saveRun(r, status) ==
    IF r \in Stored
    THEN [runs EXCEPT ![r].status = IF @ = "RUNNING" THEN status ELSE @,
                      ![r].lastEventAt = loaded[r].lastEventAt]
    ELSE Put(runs, r, [status |-> status, receivedAt |-> loaded[r].lastEventAt,
                       lastEventAt |-> loaded[r].lastEventAt, dropped |-> null])

StoreRunEvent(r) ==
    /\ loaded[r] # null
    /\ \E status \in {"RUNNING", "COMPLETED"} : runs' = saveRun(r, status)
    /\ events' = [events EXCEPT ![r] = @ \cup {loaded[r].receivedAt}]
    /\ loaded' = [loaded EXCEPT ![r] = null]
    /\ UNCHANGED <<clock, children, ingest, request, page, walk>>

\* A step or call commits.  Step events also touch the run's liveness, and never
\* create the run (touchRunLiveness); the other entities leave it alone.
StoreChild(c) ==
    /\ ingest[c.run] # null
    /\ c \notin children
    /\ children' = children \cup {c}
    /\ IF c.kind = "steps" /\ c.run \in Stored
       THEN /\ runs' = [runs EXCEPT ![c.run].lastEventAt = Max({@, ingest[c.run]})]
            /\ events' = [events EXCEPT ![c.run] = @ \cup {ingest[c.run]}]
       ELSE UNCHANGED <<runs, events>>
    /\ ingest' = [ingest EXCEPT ![c.run] = null]
    /\ UNCHANGED <<clock, loaded, request, page, walk>>

\* recordDroppedSinceLastBatch on a run that exists.
CreditDrops(r) ==
    /\ r \in Stored
    /\ LET old == IF runs[r].dropped = null THEN 0 ELSE runs[r].dropped
       IN /\ old < MaxDropped
          /\ \E n \in 0..(MaxDropped - old) :
               runs' = [runs EXCEPT ![r].dropped = old + n]
    /\ UNCHANGED <<clock, children, ingest, loaded, events, request, page, walk>>

-----------------------------------------------------------------------------
(* RunsRepository. *)

\* Mutant: RUN_LIST_ORDER without its tie-break.
UntiedRunListOrder(r, s) == runs[r].receivedAt > runs[s].receivedAt

\* RUN_LIST_ORDER: newest first, ties broken on the id.
RunListOrder(r, s) == \/ runs[r].receivedAt > runs[s].receivedAt
                      \/ (runs[r].receivedAt = runs[s].receivedAt /\ r > s)

\* STEP_LIST_ORDER, CREATED_AT_ORDER and TOOL_CALL_LIST_ORDER: oldest first, by
\* the instant each table has, ties broken on the id.
ChildOrder(c, d) == c.at < d.at \/ (c.at = d.at /\ c.id < d.id)

\* The listings of S that an ORDER BY allows.
Listings(S, before(_, _)) ==
    {s \in SetToSeqs(S) : \A i, j \in DOMAIN s : i < j => ~before(s[j], s[i])}

\* findMany with take and skip.
Page(s, take, skip) == SubSeq(s, skip + 1, Min({skip + take, Len(s)}))

listRuns(take, skip) == {Page(s, take, skip) : s \in Listings(Stored, RunListOrder)}

\* toMetadata and toOptionList: a column that does not parse reads as absent.
toMetadata(value) == IF value = "malformed" THEN null ELSE value

\* toStepRecord, toDecisionRecord, toModelCallRecord, toToolCallRecord, toErrorRecord.
toRecord(c) == [c EXCEPT !.metadata = toMetadata(@)]

\* listSteps, listDecisions, listModelCalls, listToolCalls and listErrors.
OfRun(r, kind) == {c \in children : c.run = r /\ c.kind = kind}

listChildren(r, kind) ==
    {[i \in DOMAIN s |-> toRecord(s[i])] : s \in Listings(OfRun(r, kind), ChildOrder)}

-----------------------------------------------------------------------------
(* RunsService. *)

\* Mutant: A run that completed goes stale too.
StaleWhateverStatus(record, now) ==
    IF now - record.lastEventAt > staleThresholdMs THEN "STALE" ELSE record.status

deriveRunViewStatus(record, now) ==
    IF record.status # "RUNNING" THEN record.status
    ELSE IF now - record.lastEventAt > staleThresholdMs THEN "STALE" ELSE "RUNNING"

toRunSummaryView(r, now) == [id |-> r, status |-> deriveRunViewStatus(runs[r], now)]

\* toStepView, toDecisionView, toModelCallView, toToolCallView, toErrorView: the
\* columns the page can tell apart.
toView(record) == [column \in {"kind", "run", "id", "at", "metadata"} |-> record[column]]

\* list: one row more than the page decides hasMore.
listView(offset, now, records) ==
    [kind |-> "list", offset |-> offset, now |-> now,
     runs |-> [i \in 1..Min({Limit, Len(records)}) |-> toRunSummaryView(records[i], now)],
     hasMore |-> Len(records) > Limit]

listAnswers(offset, now) == {listView(offset, now, records) :
                             records \in listRuns(Limit + 1, offset)}

\* Mutant: A page of one table only: the query forgets its kind's rows that have no tokens.
CountedCallsOnly(modelCalls, toolCalls, dropped) ==
    LET counted == {c \in modelCalls : c.inputTokens # null}
    IN [modelCallCount |-> Cardinality(counted),
        inputTokens |-> MapThenSumSet(LAMBDA c : c.inputTokens, counted),
        modelCallsMissingInputTokens |-> Cardinality(modelCalls \ counted),
        toolCallCount |-> Cardinality(toolCalls),
        failedToolCallCount |-> Cardinality({c \in toolCalls : ~c.success}),
        droppedTelemetryEventCount |-> dropped]

\* The sums of GET /runs/:id/summary; a missing token count is counted, not added.
aggregateRunSummary(modelCalls, toolCalls, dropped) ==
    LET counted == {c \in modelCalls : c.inputTokens # null}
    IN [modelCallCount |-> Cardinality(modelCalls),
        inputTokens |-> MapThenSumSet(LAMBDA c : c.inputTokens, counted),
        modelCallsMissingInputTokens |-> Cardinality(modelCalls \ counted),
        toolCallCount |-> Cardinality(toolCalls),
        failedToolCallCount |-> Cardinality({c \in toolCalls : ~c.success}),
        droppedTelemetryEventCount |-> dropped]

-----------------------------------------------------------------------------
(* The runs page: fetchRunList, one request at a time. *)

Waiting(kind) == request.kind = kind

\* The reader navigates, and RunsService.list reads the clock before it queries.
AskPage(offset) == /\ request' = [kind |-> "list", offset |-> offset, now |-> clock]
                   /\ page' = Blank

\* parseRunsListQuery: the address names a page, and falls back to the first.  A
\* walk through the whole list begins at the first.
parseRunsListQuery(offset) == IF offset \in Nat THEN offset ELSE 0

OpenList == /\ Waiting("none")
            /\ \E offset \in {0, 1, null} :
                 /\ AskPage(parseRunsListQuery(offset))
                 /\ walk' = [start |-> IF offset = 1 THEN {} ELSE Stored, shown |-> {}]
            /\ UNCHANGED <<clock, runs, children, ingest, loaded, events>>

AnswerPage ==
    /\ Waiting("list")
    /\ page' \in listAnswers(request.offset, request.now)
    /\ walk' = [walk EXCEPT !.shown = @ \cup {v.id : v \in ToSet(page'.runs)}]
    /\ request' = Idle
    /\ UNCHANGED <<clock, runs, children, ingest, loaded, events>>

\* Pager.
olderOffset(list) == list.offset + Limit

newerOffset(list) == Max({0, list.offset - Limit})

OnList == Waiting("none") /\ page.kind = "list"

Older == /\ OnList
         /\ page.hasMore
         /\ AskPage(olderOffset(page))
         /\ UNCHANGED <<clock, runs, children, ingest, loaded, events, walk>>

Newer == /\ OnList
         /\ page.offset > 0
         /\ AskPage(newerOffset(page))
         /\ UNCHANGED <<clock, runs, children, ingest, loaded, events, walk>>

-----------------------------------------------------------------------------
(* The run page: fetchRunDetail, then fetchRunDroppedTelemetryEventCount. *)

\* findById: the clock is read first.
OpenRun(r) ==
    /\ Waiting("none")
    /\ request' = [kind |-> "find", run |-> r, now |-> clock,
                   before |-> {c \in children : c.run = r}]
    /\ page' = Blank
    /\ UNCHANGED <<clock, runs, children, ingest, loaded, events, walk>>

\* A missing run is the controller's 404 and the dashboard's not-found page.
FindRun ==
    /\ Waiting("find")
    /\ IF request.run \in Stored
       THEN /\ request' = [kind |-> "collect", run |-> request.run,
                           before |-> request.before,
                           view |-> toRunSummaryView(request.run, request.now),
                           answered |-> <<>>]
            /\ UNCHANGED page
       ELSE /\ request' = Idle
            /\ page' = [kind |-> "not-found"]
    /\ UNCHANGED <<clock, runs, children, ingest, loaded, events, walk>>

\* One of the five parallel queries answers; Promise.all waits for the rest.
ListChildren(kind) ==
    /\ Waiting("collect")
    /\ kind \notin DOMAIN request.answered
    /\ \E s \in listChildren(request.run, kind) :
         request' = [request EXCEPT
                       !.answered = Put(@, kind, [i \in DOMAIN s |-> toView(s[i])])]
    /\ UNCHANGED <<clock, runs, children, ingest, loaded, events, page, walk>>

\* The detail is complete; the page asks for the summary next.
AnswerDetail ==
    /\ Waiting("collect")
    /\ DOMAIN request.answered = Kinds
    /\ request' = [kind |-> "summary", run |-> request.run, before |-> request.before,
                   view |-> request.view, answered |-> request.answered]
    /\ UNCHANGED <<clock, runs, children, ingest, loaded, events, page, walk>>

\* page.tsx, without and with the summary.
runPage(dropped) == [kind |-> "run", view |-> request.view, before |-> request.before,
                     collections |-> request.answered, dropped |-> dropped]

summarisedPage(summary) ==
    [kind |-> "run", view |-> request.view, before |-> request.before,
     collections |-> request.answered, dropped |-> summary.droppedTelemetryEventCount,
     summary |-> summary]

\* summaryFor: the row, then two metric queries, joined by Promise.all.
FindSummaryRun ==
    /\ Waiting("summary")
    /\ request' = [kind |-> "metrics", run |-> request.run, before |-> request.before,
                   view |-> request.view, answered |-> request.answered,
                   dropped |-> runs[request.run].dropped, metrics |-> <<>>]
    /\ UNCHANGED <<clock, runs, children, ingest, loaded, events, page, walk>>

ListMetrics(kind) ==
    /\ Waiting("metrics")
    /\ kind \in {"modelCalls", "toolCalls"} \ DOMAIN request.metrics
    /\ request' = [request EXCEPT !.metrics = Put(@, kind, OfRun(request.run, kind))]
    /\ UNCHANGED <<clock, runs, children, ingest, loaded, events, page, walk>>

AnswerSummary ==
    /\ Waiting("metrics")
    /\ DOMAIN request.metrics = {"modelCalls", "toolCalls"}
    /\ LET summary == aggregateRunSummary(request.metrics["modelCalls"],
                                          request.metrics["toolCalls"], request.dropped)
       IN page' = summarisedPage(summary)
    /\ request' = Idle
    /\ UNCHANGED <<clock, runs, children, ingest, loaded, events, walk>>

\* requestJson: a query fails, the API is unreachable or five seconds pass.  A lost
\* summary is a run page that reports no drop count; everything else is a
\* FetchFailureCard.
RequestFails ==
    /\ ~Waiting("none")
    /\ page' = IF request.kind \in {"summary", "metrics"} THEN runPage(null)
               ELSE [kind |-> "failure"]
    /\ request' = Idle
    /\ UNCHANGED <<clock, runs, children, ingest, loaded, events, walk>>

-----------------------------------------------------------------------------

Write == \/ Tick
         \/ \E r \in Runs : ReceiveBatch(r) \/ LoadRun(r) \/ StoreRunEvent(r) \/ CreditDrops(r)
         \/ \E c \in Children : StoreChild(c)

ReadList == OpenList \/ AnswerPage \/ Older \/ Newer

ReadRun == \/ \E r \in Runs : OpenRun(r)
           \/ \E kind \in Kinds : ListChildren(kind) \/ ListMetrics(kind)
           \/ FindRun \/ AnswerDetail \/ FindSummaryRun \/ AnswerSummary

Next == Write \/ ReadList \/ ReadRun \/ RequestFails

Spec == Init /\ [][Next]_vars

-----------------------------------------------------------------------------
(* Properties. *)

TypeOK ==
    /\ clock \in 0..MaxClock
    /\ Stored \subseteq Runs /\ \A r \in Stored : runs[r] \in RunRecord
    /\ children \subseteq Children
    /\ ingest \in [Runs -> 0..MaxClock \cup {null}]
    /\ loaded \in [Runs -> [receivedAt : 0..MaxClock, lastEventAt : 0..MaxClock] \cup {null}]
    /\ events \in [Runs -> SUBSET (0..MaxClock)]
    /\ request.kind \in {"none", "list", "find", "collect", "summary", "metrics"}
    /\ page.kind \in {"blank", "list", "run", "not-found", "failure"}
    /\ request.kind = "list" => request.offset \in Nat

(***************************************************************************)
(* A reader who opens the runs page and follows Older until hasMore is     *)
(* false (turning back with Newer as often as they like) has been shown    *)
(* every run stored when they began, however many runs were created        *)
(* between their pages: offset paging over RUN_LIST_ORDER repeats rows but *)
(* skips none.                                                             *)
(***************************************************************************)
PagingMissesNothing == OnList /\ ~page.hasMore => walk.start \subseteq walk.shown

\* A run group has saved an older lastEventAt over one that a step group committed meanwhile.
PutBack(r) == \E t \in events[r] : t > runs[r].lastEventAt

(***************************************************************************)
(* On every page answered, STALE means that no event of the run committed  *)
(* so far was received within the threshold before the request's one clock *)
(* reading (unless lastEventAt was put back), RUNNING that one was, and a  *)
(* run that ended is never either.                                         *)
(***************************************************************************)
StaleMeansSilent ==
    [][page' # page /\ page'.kind = "list" =>
         \A v \in ToSet(page'.runs) :
           LET recent == \E t \in events[v.id] : t + staleThresholdMs >= page'.now
           IN /\ v.status = "STALE" => ~recent \/ PutBack(v.id)
              /\ v.status = "RUNNING" => recent
              /\ v.status \in {"STALE", "RUNNING"} <=> runs[v.id].status = "RUNNING"]_vars

(***************************************************************************)
(* The run page shows every row that was stored when it was opened, in one *)
(* order whatever the database does, and nothing that is not stored (a     *)
(* column that cannot be read costs the column, not the row); the drop     *)
(* count it shows is never more than the run's, and is absent rather than  *)
(* zero when no batch reported one.                                        *)
(***************************************************************************)
RunPageIsTheRun ==
    page.kind = "run" =>
      LET shown == UNION {ToSet(page.collections[k]) : k \in Kinds}
          Names(S) == {<<c.kind, c.id>> : c \in S}
      IN /\ Names(page.before) \subseteq Names(shown)
         /\ Names(shown) \subseteq Names({c \in children : c.run = page.view.id})
         /\ \A k \in Kinds : \A i, j \in DOMAIN page.collections[k] :
              LET c == page.collections[k][i]
                  d == page.collections[k][j]
              IN i < j => c.at <= d.at /\ (c.at = d.at => c.id < d.id)
         /\ page.dropped # null => /\ runs[page.view.id].dropped # null
                                   /\ page.dropped <= runs[page.view.id].dropped

(***************************************************************************)
(* The summary counts every model and tool call stored when the page was   *)
(* opened and none that is not stored: a call without a token count is     *)
(* still a call (aggregateRunSummary), so the calls that carried tokens    *)
(* and those that did not make up the total.                               *)
(***************************************************************************)
SummaryCountsEveryCall ==
    page.kind = "run" /\ "summary" \in DOMAIN page =>
      LET sum == page.summary
          Count(S, kind, P(_)) == Cardinality({c \in S : c.run = page.view.id /\ c.kind = kind /\ P(c)})
          Within(n, kind, P(_)) == n \in Count(page.before, kind, P)..Count(children, kind, P)
      IN /\ Within(sum.modelCallCount, "modelCalls", LAMBDA c : TRUE)
         /\ Within(sum.modelCallsMissingInputTokens, "modelCalls", LAMBDA c : c.inputTokens = null)
         /\ Within(sum.modelCallCount - sum.modelCallsMissingInputTokens, "modelCalls",
                   LAMBDA c : c.inputTokens # null)
         /\ Within(sum.failedToolCallCount, "toolCalls", LAMBDA c : ~c.success)

(***************************************************************************)
(* What a reader sees of one run is that run: its page and its summary,    *)
(* each put together from several queries between which rows are written.  *)
(***************************************************************************)
ReadsAreConsistent == TypeOK /\ RunPageIsTheRun /\ SummaryCountsEveryCall
=============================================================================
