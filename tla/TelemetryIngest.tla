-------------------------- MODULE TelemetryIngest ---------------------------
(***************************************************************************)
(* The ingest endpoint of the API (TelemetryService.ingest) with the       *)
(* database transactions it runs (TelemetryRepository), for several        *)
(* requests in flight at once.                                             *)
(*                                                                         *)
(* A request classifies its batch, then handles one group of Run/Step      *)
(* events after another, each group in a transaction of its own under the  *)
(* advisory lock of the entity, then upserts the other entities one by     *)
(* one, then adds the reported drop count to every run the batch names,    *)
(* and answers.  A step of the model is what runs between two awaits of    *)
(* the service.  A transaction takes effect at its commit (READ COMMITTED: *)
(* the row locks it takes order it after every transaction it waited for); *)
(* what it loaded, it loaded when it got the advisory lock.                *)
(*                                                                         *)
(* Every step can fail: the database rejects or loses the transaction, the *)
(* commit lands and its acknowledgement is lost, or the process dies.  A   *)
(* client that retries is another request with the same submission.        *)
(***************************************************************************)
EXTENDS Integers, FiniteSets, Sequences, MergeRules

CONSTANTS
    Requests,     \* the requests that ever reach the server
    Runs, Steps,  \* entities that are merged
    Entities,     \* Decision, ModelCall, ToolCall and Error ids: upserted
    Events,       \* the events clients ever emit
    Submissions,  \* the request bodies: events in batch order and a drop report
    MaxClock,     \* bound on the server clock
    MaxInt4       \* the ceiling of Run.droppedTelemetryEventCount (2^31 - 1)

Mergeable == Runs \cup Steps

NoRequest == "no request"

NoDelivery == "no delivery id"

NotReported == -1       \* droppedSinceLastBatch is undefined

Types == {"start", "completion", "decision.recorded",
          "decision.outcome_attested", "call.recorded"}

\* An event's entry in the answer; "NONE" until it is decided.
Verdicts == {"NONE", "REJECTED", "ACCEPTED", "DUPLICATE"}

(***************************************************************************)
(* An eventId names one event, and an entity belongs to one run: SDK ids   *)
(* are UUIDs and a step handle is made by its run's handle.  A defect      *)
(* "unparsed" is found before the event is parsed, "unstorable" after.     *)
(***************************************************************************)
ASSUME EventsAssumption ==
    /\ IsFiniteSet(Events)
    /\ \A e \in Events :
         /\ e.id \in Nat \ {0}
         /\ e.at \in Nat
         /\ e.run \in Runs
         /\ e.type \in Types
         /\ e.entity \in Mergeable \cup Entities
         /\ e.type \in {"start", "completion"} <=> e.entity \in Mergeable
         /\ e.entity \in Runs => e.run = e.entity
         /\ e.status \in TerminalStatuses
         /\ e.name \in Names
         /\ e.meta \in Metas \cup {null, absent}
         /\ e.defect \in {"none", "unparsed", "unstorable"}
    /\ \A e, f \in Events : e.id = f.id => e = f
    /\ \A e, f \in Events : e.entity = f.entity => e.run = f.run

ASSUME SubmissionsAssumption ==
    \A b \in Submissions : /\ b.events \in Seq(Events)
                           /\ b.dropped \in Nat \cup {NotReported}
                           /\ b.deliveryId \in STRING

ASSUME RequestsAssumption == NoRequest \notin Requests

ASSUME EntitiesAssumption == Mergeable \cap Entities = {} /\ Runs \cap Steps = {}

ASSUME BoundsAssumption == MaxClock \in Nat \ {0} /\ MaxInt4 \in Nat

VARIABLES
    clock,        \* the server clock, in ms
    rows,         \* Run and Step tables
    ledger,       \* IngestedEvent: the ids of the events merged so far
    lock,         \* advisory transaction locks, by entity
    entityRows,   \* Decision and *Call tables
    dropped,      \* Run.droppedTelemetryEventCount
    deliveries,   \* DropDelivery: the (run, deliveryId) pairs already counted
    pc,           \* where each request is
    body,         \* its submission
    receivedAt,   \* its one reading of the clock
    todo,         \* batch indices of Run/Step events whose group has not committed
    writes,       \* batch indices of the other events not yet upserted
    credit,       \* the runs it still has to credit the drop count to
    results,      \* its answer, by batch index
    items,        \* open transaction: indices of the group not yet folded
    state,        \* open transaction: the merge state being folded
    seen,         \* open transaction: event ids not to be merged again
    fresh,        \* open transaction: event ids it accepted
    credited      \* history: <<request, run>> pairs whose drop count was added

database == <<rows, ledger, lock, entityRows, dropped, deliveries, credited>>

transaction == <<items, state, seen, fresh>>

request == <<body, receivedAt, todo, writes, credit, results>>

vars == <<clock, database, pc, request, transaction>>

-----------------------------------------------------------------------------

Least(S) == CHOOSE i \in S : \A j \in S : i <= j

Batch(p) == body[p].events

\* classifyEvent: what is wrong with an event decides whether it is rejected,
\* its type whether it is folded or upserted.
classifyEvent(e) == IF e.defect # "none" THEN "rejected"
                    ELSE IF e.entity \in Mergeable THEN "merge"
                    ELSE "write"

Indices(b, outcome) == {i \in DOMAIN b : classifyEvent(b[i]) = outcome}

\* An event that was parsed names its run, rejected or not.
ReferencedRunIds(b) == {b[i].run : i \in {j \in DOMAIN b : b[j].defect # "unparsed"}}

\* The group of request p that is being handled: groups are handled in the
\* order of their first event in the batch.
GroupKey(p) == Batch(p)[Least(todo[p])].entity

GroupItems(p) == {i \in todo[p] : Batch(p)[i].entity = GroupKey(p)}

GroupRun(p) == Batch(p)[Least(todo[p])].run

\* Faulty variant: only the first event of a group is looked up.
FirstIdOnly(p, I) == {Batch(p)[Least(I)].id}

Ids(p, I) == {Batch(p)[i].id : i \in I}

EmptyEntityRow == [recorded |-> 0, outcome |-> 0]

-----------------------------------------------------------------------------

Init ==
    /\ clock = 1
    /\ rows = [k \in Mergeable |-> NoRow]
    /\ ledger = {}
    /\ lock = [k \in Mergeable |-> NoRequest]
    /\ entityRows = [k \in Entities |-> EmptyEntityRow]
    /\ dropped = [r \in Runs |-> 0]
    /\ deliveries = {}
    /\ credited = {}
    /\ pc = [p \in Requests |-> "idle"]
    /\ body \in [Requests -> Submissions]
    /\ receivedAt = [p \in Requests |-> 0]
    /\ todo = [p \in Requests |-> {}]
    /\ writes = [p \in Requests |-> {}]
    /\ credit = [p \in Requests |-> {}]
    /\ results = [p \in Requests |-> [i \in DOMAIN body[p].events |-> "NONE"]]
    /\ items = [p \in Requests |-> {}]
    /\ state = [p \in Requests |-> ToState(NoRow)]
    /\ seen = [p \in Requests |-> {}]
    /\ fresh = [p \in Requests |-> {}]

Tick == /\ clock < MaxClock
        /\ clock' = clock + 1
        /\ UNCHANGED <<database, pc, request, transaction>>

\* The classification loop and the reading of the clock: no await between them.
Arrive(p) ==
    LET b == Batch(p)
    IN /\ pc[p] = "idle"
       /\ pc' = [pc EXCEPT ![p] = "working"]
       /\ receivedAt' = [receivedAt EXCEPT ![p] = clock]
       /\ todo' = [todo EXCEPT ![p] = Indices(b, "merge")]
       /\ writes' = [writes EXCEPT ![p] = Indices(b, "write")]
       /\ credit' = [credit EXCEPT ![p] = IF body[p].dropped = NotReported THEN {}
                                          ELSE ReferencedRunIds(b)]
       /\ results' = [results EXCEPT ![p] = [i \in DOMAIN b |->
                         IF classifyEvent(b[i]) = "rejected" THEN "REJECTED" ELSE "NONE"]]
       /\ UNCHANGED <<clock, database, body, transaction>>

\* withEntityLock up to the fold: take the lock, load the row and the ledger.
BeginGroup(p) ==
    LET k == GroupKey(p)
    IN /\ pc[p] = "working"
       /\ todo[p] # {}
       /\ lock[k] = NoRequest
       /\ lock' = [lock EXCEPT ![k] = p]
       /\ pc' = [pc EXCEPT ![p] = "folding"]
       /\ items' = [items EXCEPT ![p] = GroupItems(p)]
       /\ state' = [state EXCEPT ![p] = ToState(rows[k])]
       /\ seen' = [seen EXCEPT ![p] = ledger \cap Ids(p, GroupItems(p))]
       /\ fresh' = [fresh EXCEPT ![p] = {}]
       /\ UNCHANGED <<clock, rows, ledger, entityRows, dropped, deliveries, credited, request>>

\* One round of the fold.  The result it notes reaches the client only if the
\* request answers.
FoldEvent(p) ==
    LET i == Least(items[p])
        e == Batch(p)[i]
        duplicate == e.id \in seen[p]
    IN /\ pc[p] = "folding"
       /\ items[p] # {}
       /\ items' = [items EXCEPT ![p] = @ \ {i}]
       /\ results' = [results EXCEPT ![p][i] = IF duplicate THEN "DUPLICATE" ELSE "ACCEPTED"]
       /\ IF duplicate
          THEN UNCHANGED <<seen, fresh, state>>
          ELSE /\ seen' = [seen EXCEPT ![p] = @ \cup {e.id}]
               /\ fresh' = [fresh EXCEPT ![p] = @ \cup {e.id}]
               /\ state' = [state EXCEPT ![p] = mergeEvent(@, e, receivedAt[p])]
       /\ UNCHANGED <<clock, database, pc, body, receivedAt, todo, writes, credit>>

\* touchRunLiveness: an existing run row, and only forward.
touchRunLiveness(rs, r, at) ==
    IF rs[r].status # "ABSENT" /\ rs[r].lastEventAt < at
    THEN [rs EXCEPT ![r].lastEventAt = at] ELSE rs

\* The transaction's locals go out of scope when it ends.
EndTransaction(p) ==
    /\ items' = [items EXCEPT ![p] = {}]
    /\ state' = [state EXCEPT ![p] = ToState(NoRow)]
    /\ seen' = [seen EXCEPT ![p] = {}]
    /\ fresh' = [fresh EXCEPT ![p] = {}]

\* Faulty variant: a replayed step event counts as a sign of life.
TouchesOnReplay(p) == GroupKey(p) \in Steps

\* withEntityLock touches the run only for a step's event that is new.
TouchesRun(p) == fresh[p] # {} /\ GroupKey(p) \in Steps

\* What the commit of p's transaction writes: the row (also when every event was
\* a duplicate), the run's liveness if a step's event was accepted, the ledger.
SaveGroup(p) ==
    LET k == GroupKey(p)
        saved == IF state[p].status = "ABSENT" THEN rows
                 ELSE [rows EXCEPT ![k] = ToRow(state[p], k \in Runs)]
    IN /\ rows' = IF TouchesRun(p)
                  THEN touchRunLiveness(saved, GroupRun(p), receivedAt[p])
                  ELSE saved
       /\ ledger' = ledger \cup fresh[p]
       /\ lock' = [lock EXCEPT ![k] = NoRequest]

CommitGroup(p) ==
    /\ pc[p] = "folding"
    /\ items[p] = {}
    /\ SaveGroup(p)
    /\ pc' = [pc EXCEPT ![p] = "working"]
    /\ todo' = [todo EXCEPT ![p] = @ \ GroupItems(p)]
    /\ EndTransaction(p)
    /\ UNCHANGED <<clock, entityRows, dropped, deliveries, credited,
                   body, receivedAt, writes, credit, results>>

\* The commit lands and the connection is lost: the request fails all the same.
CommitUnacknowledged(p) ==
    /\ pc[p] = "folding"
    /\ items[p] = {}
    /\ SaveGroup(p)
    /\ pc' = [pc EXCEPT ![p] = "failed"]
    /\ EndTransaction(p)
    /\ UNCHANGED <<clock, entityRows, dropped, deliveries, credited, request>>

\* Faulty variant: a session lock, which a transaction's end does not release.
LocksLeak(p) == UNCHANGED lock

\* Postgres releases a transaction's advisory locks when it ends, however it ends.
ReleaseLocks(p) == lock' = [k \in Mergeable |-> IF lock[k] = p THEN NoRequest ELSE lock[k]]

\* A group or an upsert fails: a 5xx for the whole request.  What earlier groups
\* and upserts committed stays.
PersistenceFailure(p) ==
    /\ pc[p] = "folding" \/ (pc[p] = "working" /\ todo[p] \cup writes[p] # {})
    /\ ReleaseLocks(p)
    /\ pc' = [pc EXCEPT ![p] = "failed"]
    /\ EndTransaction(p)
    /\ UNCHANGED <<clock, rows, ledger, entityRows, dropped, deliveries, credited, request>>

\* The process serving p dies, at any moment.
Crash(p) ==
    /\ pc[p] \in {"working", "folding"}
    /\ ReleaseLocks(p)
    /\ pc' = [pc EXCEPT ![p] = "crashed"]
    /\ EndTransaction(p)
    /\ UNCHANGED <<clock, rows, ledger, entityRows, dropped, deliveries, credited, request>>

\* Faulty variant: an upsert writes the whole row.
WholeRowWritten(er, e) ==
    IF e.type = "decision.outcome_attested" THEN [EmptyEntityRow EXCEPT !.outcome = e.id]
                                            ELSE [EmptyEntityRow EXCEPT !.recorded = e.id]

\* The columns an event owns in its row: an attestation the outcome columns, any
\* other event all the others.
writeEntityEvent(er, e) ==
    IF e.type = "decision.outcome_attested" THEN [er EXCEPT !.outcome = e.id]
                                            ELSE [er EXCEPT !.recorded = e.id]

\* persistEntityWrites, one upsert.
PersistEntityWrite(p) ==
    LET i == Least(writes[p])
        e == Batch(p)[i]
    IN /\ pc[p] = "working"
       /\ todo[p] = {}
       /\ writes[p] # {}
       /\ entityRows' = [entityRows EXCEPT ![e.entity] = writeEntityEvent(@, e)]
       /\ writes' = [writes EXCEPT ![p] = @ \ {i}]
       /\ results' = [results EXCEPT ![p][i] = "ACCEPTED"]
       /\ UNCHANGED <<clock, rows, ledger, lock, dropped, deliveries, credited, pc,
                      body, receivedAt, todo, credit, transaction>>

\* incrementDroppedCountRaw: saturating, and no run row is made for it.
incrementDroppedCountRaw(r, amount) ==
    IF rows[r].status = "ABSENT" THEN dropped
    ELSE [dropped EXCEPT ![r] = IF @ + amount < MaxInt4 THEN @ + amount ELSE MaxInt4]

\* Faulty variant: no replay guard.
CountsEveryDelivery(p, r) ==
    /\ dropped' = incrementDroppedCountRaw(r, body[p].dropped)
    /\ credited' = credited \cup {<<p, r>>}
    /\ UNCHANGED deliveries

\* incrementDroppedCount: the delivery row and the addition are one transaction.
incrementDroppedCount(p, r) ==
    LET amount == body[p].dropped
        d == body[p].deliveryId
    IN IF d # NoDelivery /\ amount # 0 /\ <<r, d>> \in deliveries
       THEN UNCHANGED <<dropped, deliveries, credited>>
       ELSE /\ dropped' = incrementDroppedCountRaw(r, amount)
            /\ deliveries' = IF d = NoDelivery \/ amount = 0 THEN deliveries
                             ELSE deliveries \cup {<<r, d>>}
            /\ credited' = IF rows[r].status = "ABSENT" THEN credited
                           ELSE credited \cup {<<p, r>>}

\* The fold of the drop report, one run of the batch; the runs are independent
\* of one another, so their order is left open.
FoldDropped(p) ==
    /\ pc[p] = "working"
    /\ todo[p] \cup writes[p] = {}
    /\ \E r \in credit[p] :
         /\ credit' = [credit EXCEPT ![p] = @ \ {r}]
         /\ incrementDroppedCount(p, r)
    /\ UNCHANGED <<clock, rows, ledger, lock, entityRows, pc,
                   body, receivedAt, todo, writes, results, transaction>>

\* A failure of that fold is logged and contained to the run.
FoldDroppedFails(p) ==
    /\ pc[p] = "working"
    /\ todo[p] \cup writes[p] = {}
    /\ \E r \in credit[p] : credit' = [credit EXCEPT ![p] = @ \ {r}]
    /\ UNCHANGED <<clock, database, pc, body, receivedAt, todo, writes, results, transaction>>

\* Faulty variant: the answer does not wait for the upserts.
RespondEarly(p) ==
    /\ pc[p] = "working"
    /\ todo[p] = {}
    /\ pc' = [pc EXCEPT ![p] = "answered"]
    /\ UNCHANGED <<clock, database, request, transaction>>

Respond(p) ==
    /\ pc[p] = "working"
    /\ todo[p] \cup writes[p] = {}
    /\ credit[p] = {}
    /\ pc' = [pc EXCEPT ![p] = "answered"]
    /\ UNCHANGED <<clock, database, request, transaction>>

-----------------------------------------------------------------------------

\* What the server does for a request once it has started, and what goes wrong.
Handle(p) == \/ BeginGroup(p) \/ FoldEvent(p) \/ CommitGroup(p)
             \/ PersistEntityWrite(p) \/ FoldDropped(p) \/ Respond(p)

Fail(p) == \/ CommitUnacknowledged(p) \/ PersistenceFailure(p)
           \/ FoldDroppedFails(p) \/ Crash(p)

Next == Tick \/ \E p \in Requests : Arrive(p) \/ Handle(p) \/ Fail(p)

Spec == Init /\ [][Next]_vars

\* The event loop runs every continuation that is ready, and the database gives a
\* free lock to a transaction that waits for it.  Nothing obliges a client to
\* submit, the clock to tick in the model's bound, or anything to fail: a request
\* never ends because a failure is due.
Fairness == \A p \in Requests : WF_vars(Handle(p))

FairSpec == Spec /\ Fairness

-----------------------------------------------------------------------------

TypeOK ==
    /\ clock \in Nat \ {0}
    /\ rows \in [Mergeable -> Rows]
    /\ ledger \subseteq Nat
    /\ lock \in [Mergeable -> Requests \cup {NoRequest}]
    /\ entityRows \in [Entities -> [recorded : Nat, outcome : Nat]]
    /\ dropped \in [Runs -> 0 .. MaxInt4]
    /\ deliveries \subseteq Runs \X STRING
    /\ credited \subseteq Requests \X Runs
    /\ pc \in [Requests -> {"idle", "working", "folding", "answered", "failed", "crashed"}]
    /\ body \in [Requests -> Submissions]
    /\ receivedAt \in [Requests -> Nat]
    /\ todo \in [Requests -> SUBSET Nat]
    /\ writes \in [Requests -> SUBSET Nat]
    /\ credit \in [Requests -> SUBSET Runs]
    /\ results \in [Requests -> Seq(Verdicts)]
    /\ \A p \in Requests : DOMAIN results[p] = DOMAIN Batch(p)
    /\ items \in [Requests -> SUBSET Nat]
    /\ state \in [Requests -> States]
    /\ seen \in [Requests -> SUBSET Nat]
    /\ fresh \in [Requests -> SUBSET Nat]
    /\ \A p \in Requests : todo[p] \cup writes[p] \cup items[p] \subseteq DOMAIN Batch(p)

\* The events of entity k that the ledger holds.
Merged(k) == {e \in Events : e.entity = k /\ e.id \in ledger}

(***************************************************************************)
(* Every Run and Step row is the merge of exactly the events the ledger    *)
(* holds for it, a function of their set: not of the order in which they   *)
(* arrived, of how they were split over requests, of retries, of crashes   *)
(* between transactions, nor of the reloads through a row that has one     *)
(* metadata column for two (mergeEvent, withEntityLock, saveRunWith).      *)
(***************************************************************************)
RowIsMergeOfLedger == \A k \in Mergeable : IsMergeOf(rows[k], Merged(k))

(***************************************************************************)
(* No event is answered ACCEPTED twice: not in one batch, and not in two   *)
(* batches that race for the same entity (the fold's `seen`, the lock).    *)
(***************************************************************************)
AcceptedOnce ==
    \A p, q \in Requests : pc[p] = "answered" /\ pc[q] = "answered" =>
        \A i \in DOMAIN Batch(p), j \in DOMAIN Batch(q) :
            /\ Batch(p)[i].entity \in Mergeable
            /\ Batch(p)[i].id = Batch(q)[j].id
            /\ results[p][i] = "ACCEPTED"
            /\ results[q][j] = "ACCEPTED"
            => p = q /\ i = j

(***************************************************************************)
(* A 200 answer has a verdict for every event of the batch, and whatever   *)
(* it does not reject is stored: in the ledger, or, for an upserted event, *)
(* in its columns.                                                         *)
(***************************************************************************)
AnsweredMeansStored ==
    \A p \in Requests : pc[p] = "answered" =>
        \A i \in DOMAIN Batch(p) :
            LET e == Batch(p)[i]
            IN \/ results[p][i] = "REJECTED" /\ e.defect # "none"
               \/ results[p][i] \in {"ACCEPTED", "DUPLICATE"} /\ e.id \in ledger
               \/ /\ results[p][i] = "ACCEPTED"
                  /\ e.entity \in Entities
                  /\ IF e.type = "decision.outcome_attested"
                     THEN entityRows[e.entity].outcome # 0
                     ELSE entityRows[e.entity].recorded # 0

(***************************************************************************)
(* A drop report is credited to a run at most once per deliveryId, however *)
(* often its batch is retried, and only by a request whose events have all *)
(* been stored (incrementDroppedCount, and its place after every write).   *)
(***************************************************************************)
DropsCreditedOnceAfterStoring ==
    /\ \A c, d \in credited :
         /\ c[2] = d[2]
         /\ body[c[1]].dropped # 0
         /\ body[d[1]].dropped # 0
         /\ body[c[1]].deliveryId = body[d[1]].deliveryId
         /\ body[c[1]].deliveryId # NoDelivery
         => c = d
    /\ \A c \in credited : \A i \in DOMAIN Batch(c[1]) :
         LET e == Batch(c[1])[i]
         IN e.defect = "none" /\ e.entity \in Mergeable => e.id \in ledger

(***************************************************************************)
(* A row that is terminal stays terminal, and one that FAILED stays so: no *)
(* late or replayed event reopens it (resolveTerminalStatus, and the start *)
(* branch of mergeEvent, which leaves the status alone).                   *)
(***************************************************************************)
NeverReopened ==
    [][\A k \in Mergeable :
         /\ rows[k].status \in TerminalStatuses => rows'[k].status \in TerminalStatuses
         /\ rows[k].status = "FAILED" => rows'[k].status = "FAILED"
         /\ rows[k].status # "ABSENT" => rows'[k].status # "ABSENT"]_vars

(***************************************************************************)
(* Only a newly merged event moves a run's liveness forward: replaying a   *)
(* batch does not keep a dead run looking alive (withEntityLock's gate on  *)
(* newlyIngestedEventIds).                                                 *)
(***************************************************************************)
ReplayIsNotLiveness ==
    [][\A r \in Runs : rows'[r].lastEventAt > rows[r].lastEventAt => ledger' # ledger]_vars

(***************************************************************************)
(* An upsert of a decision never blanks the columns another event owns: a  *)
(* recording leaves the outcome, an attestation the recording, in whatever *)
(* order they arrive (DecisionsRepository.record, attestOutcome).          *)
(***************************************************************************)
ColumnsNeverBlanked ==
    [][\A k \in Entities :
         /\ entityRows[k].recorded # 0 => entityRows'[k].recorded # 0
         /\ entityRows[k].outcome # 0 => entityRows'[k].outcome # 0]_vars

(***************************************************************************)
(* Every request that arrives is answered, failed, or dies with its        *)
(* process: requests never wait for one another for ever, whatever         *)
(* entities their groups share and however transactions end.               *)
(***************************************************************************)
EveryRequestEnds ==
    \A p \in Requests : pc[p] = "working" ~> pc[p] \in {"answered", "failed", "crashed"}

(***************************************************************************)
(* What merge-rules.ts and touchRunLiveness say of lastEventAt: it only    *)
(* ever moves forward.                                                     *)
(***************************************************************************)
LastEventAtMonotonic ==
    [][\A r \in Runs : rows'[r].lastEventAt >= rows[r].lastEventAt]_vars
=============================================================================
