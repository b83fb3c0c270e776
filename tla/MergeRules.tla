----------------------------- MODULE MergeRules -----------------------------
(***************************************************************************)
(* The pure reducer that folds telemetry events into the state of one Run  *)
(* or Step (platform/api/src/telemetry/merge-rules.ts), and the lossy      *)
(* mapping between that state and the database row that persists it        *)
(* (telemetry.repository.ts, runRowToState / stepRowToState on the way in, *)
(* saveRunWith / saveStepWith on the way out).                             *)
(*                                                                         *)
(* Event ids and instants are naturals: the code only ever compares them   *)
(* (ids as strings, instants through Date.parse), so any strict order      *)
(* stands for theirs.  0 is the null of every nullable column.             *)
(*                                                                         *)
(* Run and Step completions carry a single completion field, `metadata`,   *)
(* so `completionFields` and `completionFieldOrigins` are one value and    *)
(* one (instant, id) pair: metaId = 0 is "no completion wrote the key".    *)
(***************************************************************************)
EXTENDS Naturals

CONSTANTS
    Names,      \* start-event names (workflowName, step name, parent, ...)
    Metas       \* metadata values a payload can carry

\* null: the database null.  absent: the payload has no `metadata` key at all,
\* which a completion tells apart from an explicit null and a start does not.
null == "null"

absent == "absent"

ASSUME ValuesAssumption == null \notin Names \cup Metas /\ absent \notin Names \cup Metas

Statuses == {"ABSENT", "RUNNING", "COMPLETED", "FAILED"}

TerminalStatuses == {"COMPLETED", "FAILED"}

\* A merge state, or (status = "ABSENT") the `undefined` of an entity never seen.
States == [status : Statuses,
           startedAt : Nat, startEventId : Nat, name : Names \cup {null},
           startMeta : Metas \cup {null, absent},
           completedAt : Nat, completionEventId : Nat,
           completionMeta : Metas \cup {null, absent}, metaAt : Nat, metaId : Nat,
           lastEventAt : Nat]

\* A persisted row; status = "ABSENT" is "no such row".  One metadata column.
Rows == [status : Statuses,
         startedAt : Nat, startEventId : Nat, name : Names \cup {null},
         completedAt : Nat, completionEventId : Nat,
         metadata : Metas \cup {null}, metaAt : Nat, metaId : Nat,
         lastEventAt : Nat]

NoRow == [status |-> "ABSENT", startedAt |-> 0, startEventId |-> 0, name |-> null,
          completedAt |-> 0, completionEventId |-> 0,
          metadata |-> null, metaAt |-> 0, metaId |-> 0, lastEventAt |-> 0]

-----------------------------------------------------------------------------

resolveTerminalStatus(existing, incoming) ==
    IF existing \in TerminalStatuses /\ "FAILED" \in {existing, incoming}
    THEN "FAILED" ELSE incoming

\* The total order on completions: the later instant, then the greater id.
Outranks(at, id, at2, id2) == at > at2 \/ (at = at2 /\ id > id2)

\* The total order on starts: the earlier instant, then the lesser id.
Precedes(at, id, at2, id2) == at < at2 \/ (at = at2 /\ id < id2)

shouldReplaceCompletion(s, e) ==
    s.completionEventId = 0 \/ Outranks(e.at, e.id, s.completedAt, s.completionEventId)

\* Faulty variant: the start that arrives first keeps the row.
FirstSeenStartWins(s, e) == s.startEventId = 0

shouldReplaceStart(s, e) ==
    s.startEventId = 0 \/ Precedes(e.at, e.id, s.startedAt, s.startEventId)

\* Faulty variant: a start always begins from a running entity.
BaseIsRunning(s) == "RUNNING"

\* emptyState: the base of an unseen entity is RUNNING and has nothing else.
BaseStatus(s) == IF s.status = "ABSENT" THEN "RUNNING" ELSE s.status

\* The start branch: the earliest start owns every start field, wholesale; the
\* status is carried forward untouched.
MergeStart(s, e, receivedAt) ==
    LET wins == shouldReplaceStart(s, e)
    IN [s EXCEPT !.status = BaseStatus(s),
                 !.startedAt = IF wins THEN e.at ELSE @,
                 !.startEventId = IF wins THEN e.id ELSE @,
                 !.name = IF wins THEN e.name ELSE @,
                 !.startMeta = IF wins THEN e.meta ELSE @,
                 !.lastEventAt = IF receivedAt > @ THEN receivedAt ELSE @]

\* The completion branch: status, the winner's instant and id, and the metadata
\* key are resolved independently of one another.
MergeCompletion(s, e, receivedAt) ==
    LET wins == shouldReplaceCompletion(s, e)
        owns == e.meta # absent
                /\ (s.metaId = 0 \/ Outranks(e.at, e.id, s.metaAt, s.metaId))
    IN [s EXCEPT !.status = resolveTerminalStatus(BaseStatus(s), e.status),
                 !.completedAt = IF wins THEN e.at ELSE @,
                 !.completionEventId = IF wins THEN e.id ELSE @,
                 !.completionMeta = IF owns THEN e.meta ELSE @,
                 !.metaAt = IF owns THEN e.at ELSE @,
                 !.metaId = IF owns THEN e.id ELSE @,
                 !.lastEventAt = IF receivedAt > @ THEN receivedAt ELSE @]

mergeEvent(s, e, receivedAt) ==
    IF e.type = "start" THEN MergeStart(s, e, receivedAt)
                        ELSE MergeCompletion(s, e, receivedAt)

-----------------------------------------------------------------------------

\* Faulty variant: `undefined` reaches the column.
UndefinedIsKept(m) == m

\* toJsonInput: `undefined` is stored as null.
toJsonInput(m) == IF m = absent THEN null ELSE m

\* The columns a save writes.  The one metadata column is the completion's as
\* soon as a completion wrote the key.  Step has no lastEventAt column.
ToRow(s, isRun) ==
    [status |-> s.status,
     startedAt |-> s.startedAt, startEventId |-> s.startEventId, name |-> s.name,
     completedAt |-> s.completedAt, completionEventId |-> s.completionEventId,
     metadata |-> toJsonInput(IF s.metaId # 0 THEN s.completionMeta ELSE s.startMeta),
     metaAt |-> s.metaAt, metaId |-> s.metaId,
     lastEventAt |-> IF isRun THEN s.lastEventAt ELSE 0]

\* The state a load rebuilds: the start's metadata is lost once the column is
\* the completion's.
ToState(r) ==
    [status |-> r.status,
     startedAt |-> r.startedAt, startEventId |-> r.startEventId, name |-> r.name,
     startMeta |-> IF r.startEventId = 0 \/ r.metaId # 0 THEN absent ELSE r.metadata,
     completedAt |-> r.completedAt, completionEventId |-> r.completionEventId,
     completionMeta |-> IF r.metaId # 0 THEN r.metadata ELSE absent,
     metaAt |-> r.metaAt, metaId |-> r.metaId,
     lastEventAt |-> r.lastEventAt]

-----------------------------------------------------------------------------
(***************************************************************************)
(* The reference: what a row must be, as a relation to the SET of events   *)
(* merged into it, with no order of arrival anywhere (ADR 0007).           *)
(***************************************************************************)

First(e, S) == e \in S /\ \A f \in S : f = e \/ Precedes(e.at, e.id, f.at, f.id)

Last(e, S) == e \in S /\ \A f \in S : f = e \/ Outranks(e.at, e.id, f.at, f.id)

Starts(S) == {e \in S : e.type = "start"}

Completions(S) == {e \in S : e.type = "completion"}

MetaWriters(S) == {e \in Completions(S) : e.meta # absent}

StatusOf(S) == IF S = {} THEN "ABSENT"
               ELSE IF Completions(S) = {} THEN "RUNNING"
               ELSE IF \E e \in Completions(S) : e.status = "FAILED" THEN "FAILED"
               ELSE "COMPLETED"

StartIsFirst(r, S) ==
    /\ Starts(S) = {} => r.startEventId = 0 /\ r.startedAt = 0 /\ r.name = null
    /\ Starts(S) # {} => \E e \in Starts(S) : /\ First(e, Starts(S))
                                              /\ r.startEventId = e.id
                                              /\ r.startedAt = e.at
                                              /\ r.name = e.name

CompletionIsLast(r, S) ==
    /\ Completions(S) = {} => r.completionEventId = 0 /\ r.completedAt = 0
    /\ Completions(S) # {} => \E e \in Completions(S) : /\ Last(e, Completions(S))
                                                        /\ r.completionEventId = e.id
                                                        /\ r.completedAt = e.at

MetaOriginIsLast(r, S) ==
    /\ MetaWriters(S) = {} => r.metaId = 0 /\ r.metaAt = 0
    /\ MetaWriters(S) # {} => \E e \in MetaWriters(S) : /\ Last(e, MetaWriters(S))
                                                        /\ r.metaId = e.id
                                                        /\ r.metaAt = e.at

\* The stored value: the last completion that carries the key, else the first
\* start's, else null.
MetadataOf(r, S) ==
    /\ \A e \in MetaWriters(S) : e.id = r.metaId => r.metadata = toJsonInput(e.meta)
    /\ MetaWriters(S) = {} =>
         \A e \in Starts(S) : e.id = r.startEventId => r.metadata = toJsonInput(e.meta)
    /\ MetaWriters(S) \cup Starts(S) = {} => r.metadata = null

IsMergeOf(r, S) == /\ r.status = StatusOf(S)
                   /\ StartIsFirst(r, S)
                   /\ CompletionIsLast(r, S)
                   /\ MetaOriginIsLast(r, S)
                   /\ MetadataOf(r, S)
=============================================================================
