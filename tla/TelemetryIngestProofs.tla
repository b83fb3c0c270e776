----------------------- MODULE TelemetryIngestProofs ------------------------
(***************************************************************************)
(* Proofs about TelemetryIngest, for any set of requests, events, batches, *)
(* entities and any bound.  First the merge reducer: folding one more      *)
(* event into a state that is the merge of S gives the merge of S and that *)
(* event, whatever S and whatever the event.  Order independence follows:  *)
(* the state depends on the set only.                                      *)
(***************************************************************************)
EXTENDS TelemetryIngest, TLAPS, WellFoundedInduction

\* The events the lemmas are about.
IsEvent(e) == /\ e.id \in Nat \ {0}
              /\ e.at \in Nat
              /\ e.type \in {"start", "completion"}
              /\ e.status \in TerminalStatuses
              /\ e.name \in Names
              /\ e.meta \in Metas \cup {null, absent}

\* Distinct events of S have distinct ids.
IdsDistinct(S) == \A e, f \in S : e.id = f.id => e = f

NatOrder == {ss \in Nat \X Nat : ss[1] < ss[2]}

\* A nonempty set of naturals has a least element: the loops over batch indices
\* (for ... of group.items, for ... of entityWrites) always have a next index.
LEMMA LeastExists ==
    ASSUME NEW S \in SUBSET Nat, S # {}
    PROVE  \E i \in S : \A j \in S : i <= j
<1>1. IsWellFoundedOn(NatOrder, Nat)
  BY NatLessThanWellFounded, SMT DEF OpToRel, NatOrder
<1>2. \E i \in S : \A j \in S : ~ (<<j, i>> \in NatOrder)
  BY <1>1, WFMin, Zenon
<1>3. PICK i \in S : \A j \in S : ~ (<<j, i>> \in NatOrder)
  BY <1>2, Zenon
<1>4. ASSUME NEW j \in S PROVE i <= j
  <2>1. i \in Nat /\ j \in Nat
    OBVIOUS
  <2>2. ~ (<<j, i>> \in NatOrder)
    BY <1>3
  <2>3. ~ (j < i)
    BY <2>1, <2>2 DEF NatOrder
  <2> QED BY <2>1, <2>3
<1> QED BY <1>4

-----------------------------------------------------------------------------

\* The row of a state that was folded from a row's state is a row again, and
\* mergeEvent (both branches) keeps the shape of the state.
LEMMA MergeType ==
    ASSUME NEW s \in States, NEW e, IsEvent(e), NEW t \in Nat
    PROVE  mergeEvent(s, e, t) \in States
<1>1. BaseStatus(s) \in Statuses /\ resolveTerminalStatus(BaseStatus(s), e.status) \in Statuses
  BY DEF States, IsEvent, BaseStatus, resolveTerminalStatus, Statuses, TerminalStatuses
<1>2. CASE e.type = "start"
  <2>1. MergeStart(s, e, t) \in States
    <3>1. CASE shouldReplaceStart(s, e)
      BY <1>1, <3>1 DEF States, IsEvent, MergeStart
    <3>2. CASE ~ shouldReplaceStart(s, e)
      BY <1>1, <3>2 DEF States, IsEvent, MergeStart
    <3> QED BY <3>1, <3>2
  <2> QED BY <1>2, <2>1 DEF mergeEvent
<1>3. CASE e.type # "start"
  <2>1. MergeCompletion(s, e, t) \in States
    BY <1>1, ZenonT(40) DEF States, IsEvent, MergeCompletion
  <2> QED BY <1>3, <2>1 DEF mergeEvent
<1> QED BY <1>2, <1>3

\* saveRunWith and saveStepWith write a well-typed row.
LEMMA ToRowType ==
    ASSUME NEW s \in States, NEW isRun
    PROVE  ToRow(s, isRun) \in Rows
BY DEF States, Rows, ToRow, toJsonInput

\* runRowToState and stepRowToState rebuild a well-typed state.
LEMMA ToStateType ==
    ASSUME NEW r \in Rows
    PROVE  ToState(r) \in States
BY DEF States, Rows, ToState

\* Loading a row and saving it again keeps it a merge of the same events: the
\* start metadata that the load loses is never needed again.
LEMMA ReloadKeepsMerge ==
    ASSUME NEW r \in Rows, NEW S, \A e \in S : IsEvent(e), IsMergeOf(r, S), NEW isRun
    PROVE  IsMergeOf(ToRow(ToState(r), isRun), S)
<1> DEFINE q == ToRow(ToState(r), isRun)
<1>1. /\ q.status = r.status
      /\ q.startEventId = r.startEventId
      /\ q.startedAt = r.startedAt
      /\ q.name = r.name
      /\ q.completionEventId = r.completionEventId
      /\ q.completedAt = r.completedAt
      /\ q.metaId = r.metaId
      /\ q.metaAt = r.metaAt
  BY DEF ToRow, ToState
<1>2. r.startEventId = 0 /\ r.metaId = 0 => r.metadata = null
  <2> SUFFICES ASSUME r.startEventId = 0, r.metaId = 0 PROVE r.metadata = null
    OBVIOUS
  <2>1. Starts(S) = {}
    BY DEF IsMergeOf, StartIsFirst, Starts, IsEvent
  <2>2. MetaWriters(S) = {}
    BY DEF IsMergeOf, MetaOriginIsLast, MetaWriters, Completions, IsEvent
  <2> QED BY <2>1, <2>2 DEF IsMergeOf, MetadataOf
<1>3. q.metadata = r.metadata
  BY <1>2, ValuesAssumption DEF ToRow, ToState, toJsonInput, Rows, null, absent
<1>4. StartIsFirst(q, S) /\ CompletionIsLast(q, S) /\ MetaOriginIsLast(q, S)
  BY <1>1 DEF IsMergeOf, StartIsFirst, CompletionIsLast, MetaOriginIsLast
<1>5. MetadataOf(q, S)
  BY <1>1, <1>3 DEF IsMergeOf, MetadataOf
<1> HIDE DEF q
<1>6. IsMergeOf(q, S)
  BY <1>1, <1>4, <1>5 DEF IsMergeOf
<1> QED BY <1>6 DEF q

-----------------------------------------------------------------------------

\* Folding a start into the merge of S gives the merge of S and the start: it is
\* compared with the first start so far, and nothing else of it is kept.
LEMMA MergeStartAdds ==
    ASSUME NEW s \in States, NEW S, \A f \in S : IsEvent(f),
           NEW e, IsEvent(e), e.type = "start", e \notin S, IdsDistinct(S \cup {e}),
           NEW isRun, NEW t \in Nat,
           IsMergeOf(ToRow(s, isRun), S)
    PROVE  IsMergeOf(ToRow(MergeStart(s, e, t), isRun), S \cup {e})
<1> DEFINE r == ToRow(s, isRun)
           m == MergeStart(s, e, t)
           q == ToRow(m, isRun)
           T == S \cup {e}
<1>1. /\ Starts(T) = Starts(S) \cup {e}
      /\ Completions(T) = Completions(S)
      /\ MetaWriters(T) = MetaWriters(S)
  BY DEF Starts, Completions, MetaWriters
<1>2. /\ q.status = BaseStatus(s)
      /\ q.completionEventId = r.completionEventId
      /\ q.completedAt = r.completedAt
      /\ q.metaId = r.metaId
      /\ q.metaAt = r.metaAt
      /\ r.status = s.status
      /\ r.startEventId = s.startEventId
      /\ r.startedAt = s.startedAt
  BY DEF ToRow, MergeStart, States
<1>3. ASSUME shouldReplaceStart(s, e)
      PROVE  StartIsFirst(q, T) /\ MetadataOf(q, T)
  <2>1. /\ q.startEventId = e.id
        /\ q.startedAt = e.at
        /\ q.name = e.name
        /\ r.metaId = 0 => q.metadata = toJsonInput(e.meta)
        /\ r.metaId # 0 => q.metadata = r.metadata
    BY <1>3 DEF ToRow, MergeStart, States
  <2>2. First(e, Starts(T))
    <3> SUFFICES ASSUME NEW f \in Starts(S), f # e PROVE Precedes(e.at, e.id, f.at, f.id)
      BY <1>1 DEF First
    <3>1. PICK g \in Starts(S) : /\ First(g, Starts(S))
                                 /\ r.startEventId = g.id
                                 /\ r.startedAt = g.at
      BY DEF IsMergeOf, StartIsFirst
    <3>2. IsEvent(f) /\ IsEvent(g)
      BY DEF Starts
    <3>3. Precedes(e.at, e.id, g.at, g.id)
      BY <1>2, <1>3, <3>1, <3>2 DEF shouldReplaceStart, IsEvent
    <3> QED BY <3>1, <3>2, <3>3 DEF First, Precedes, IsEvent
  <2>3. StartIsFirst(q, T)
    BY <1>1, <2>1, <2>2 DEF StartIsFirst
  <2>4. MetadataOf(q, T)
    <3>1. MetaWriters(S) = {} => r.metaId = 0
      BY DEF IsMergeOf, MetaOriginIsLast
    <3>2. MetaWriters(S) # {} => r.metaId # 0
      BY DEF IsMergeOf, MetaOriginIsLast, MetaWriters, Completions, IsEvent
    <3>3. \A f \in Starts(T) : f.id = e.id => f = e
      BY DEF IdsDistinct, Starts
    <3> QED BY <1>1, <1>2, <2>1, <3>1, <3>2, <3>3 DEF IsMergeOf, MetadataOf
  <2> QED BY <2>3, <2>4
<1>4. ASSUME ~ shouldReplaceStart(s, e)
      PROVE  StartIsFirst(q, T) /\ MetadataOf(q, T)
  <2>1. /\ q.startEventId = r.startEventId
        /\ q.startedAt = r.startedAt
        /\ q.name = r.name
        /\ q.metadata = r.metadata
    BY <1>4 DEF ToRow, MergeStart, States
  <2>2. PICK g \in Starts(S) : /\ First(g, Starts(S))
                               /\ r.startEventId = g.id
                               /\ r.startedAt = g.at
                               /\ r.name = g.name
    BY <1>2, <1>4 DEF IsMergeOf, StartIsFirst, shouldReplaceStart
  <2>3. IsEvent(g) /\ g # e /\ g.id # e.id
    BY DEF Starts, IdsDistinct
  <2>4. Precedes(g.at, g.id, e.at, e.id)
    BY <1>2, <1>4, <2>2, <2>3 DEF shouldReplaceStart, Precedes, IsEvent
  <2>5. First(g, Starts(T))
    BY <1>1, <2>2, <2>4 DEF First
  <2>6. StartIsFirst(q, T)
    BY <1>1, <2>1, <2>2, <2>5 DEF StartIsFirst
  <2>7. MetadataOf(q, T)
    BY <1>1, <1>2, <2>1, <2>2, <2>3 DEF IsMergeOf, MetadataOf
  <2> QED BY <2>6, <2>7
<1>5. StartIsFirst(q, T) /\ MetadataOf(q, T)
  BY <1>3, <1>4
<1>6. CompletionIsLast(q, T) /\ MetaOriginIsLast(q, T)
  BY <1>1, <1>2 DEF IsMergeOf, CompletionIsLast, MetaOriginIsLast
<1>7. q.status = StatusOf(T)
  BY <1>1, <1>2 DEF IsMergeOf, StatusOf, BaseStatus, Completions
<1> HIDE DEF q, T
<1>8. IsMergeOf(q, T)
  BY <1>5, <1>6, <1>7 DEF IsMergeOf
<1> QED BY <1>8 DEF q, T, m

\* Folding a completion into the merge of S gives the merge of S and the
\* completion: status, winner and metadata key are each resolved against the
\* total order, never against the order of arrival.
LEMMA MergeCompletionAdds ==
    ASSUME NEW s \in States, NEW S, \A f \in S : IsEvent(f),
           NEW e, IsEvent(e), e.type = "completion", e \notin S, IdsDistinct(S \cup {e}),
           NEW isRun, NEW t \in Nat,
           IsMergeOf(ToRow(s, isRun), S)
    PROVE  IsMergeOf(ToRow(MergeCompletion(s, e, t), isRun), S \cup {e})
<1> DEFINE r == ToRow(s, isRun)
           m == MergeCompletion(s, e, t)
           q == ToRow(m, isRun)
           T == S \cup {e}
           owns == e.meta # absent
                   /\ (s.metaId = 0 \/ Outranks(e.at, e.id, s.metaAt, s.metaId))
<1>1. /\ Starts(T) = Starts(S)
      /\ Completions(T) = Completions(S) \cup {e}
      /\ e.meta = absent => MetaWriters(T) = MetaWriters(S)
      /\ e.meta # absent => MetaWriters(T) = MetaWriters(S) \cup {e}
  BY DEF Starts, Completions, MetaWriters
<1>2. /\ q.status = resolveTerminalStatus(BaseStatus(s), e.status)
      /\ q.startEventId = r.startEventId
      /\ q.startedAt = r.startedAt
      /\ q.name = r.name
      /\ r.status = s.status
      /\ r.completionEventId = s.completionEventId
      /\ r.completedAt = s.completedAt
      /\ r.metaId = s.metaId
      /\ r.metaAt = s.metaAt
  BY DEF ToRow, MergeCompletion, States
<1>3. StartIsFirst(q, T)
  BY <1>1, <1>2 DEF IsMergeOf, StartIsFirst
<1>4. CompletionIsLast(q, T)
  <2>1. CASE shouldReplaceCompletion(s, e)
    <3>1. q.completionEventId = e.id /\ q.completedAt = e.at
      BY <2>1 DEF ToRow, MergeCompletion, States
    <3>2. ASSUME NEW f \in Completions(S), f # e PROVE Outranks(e.at, e.id, f.at, f.id)
      <4>1. PICK g \in Completions(S) : /\ Last(g, Completions(S))
                                        /\ r.completionEventId = g.id
                                        /\ r.completedAt = g.at
        BY DEF IsMergeOf, CompletionIsLast
      <4>2. IsEvent(f) /\ IsEvent(g)
        BY DEF Completions
      <4>3. Outranks(e.at, e.id, g.at, g.id)
        BY <1>2, <2>1, <4>1, <4>2 DEF shouldReplaceCompletion, IsEvent
      <4> QED BY <4>1, <4>2, <4>3 DEF Last, Outranks, IsEvent
    <3>3. Last(e, Completions(T))
      BY <1>1, <3>2 DEF Last
    <3> QED BY <1>1, <3>1, <3>3 DEF CompletionIsLast
  <2>2. CASE ~ shouldReplaceCompletion(s, e)
    <3>1. q.completionEventId = r.completionEventId /\ q.completedAt = r.completedAt
      BY <2>2 DEF ToRow, MergeCompletion, States
    <3>2. PICK g \in Completions(S) : /\ Last(g, Completions(S))
                                      /\ r.completionEventId = g.id
                                      /\ r.completedAt = g.at
      BY <1>2, <2>2 DEF IsMergeOf, CompletionIsLast, shouldReplaceCompletion
    <3>3. IsEvent(g) /\ g # e /\ g.id # e.id
      BY DEF Completions, IdsDistinct
    <3>4. Outranks(g.at, g.id, e.at, e.id)
      BY <1>2, <2>2, <3>2, <3>3 DEF shouldReplaceCompletion, Outranks, IsEvent
    <3>5. Last(g, Completions(T))
      BY <1>1, <3>2, <3>4 DEF Last
    <3> QED BY <1>1, <3>1, <3>2, <3>5 DEF CompletionIsLast
  <2> QED BY <2>1, <2>2
<1>5. MetaOriginIsLast(q, T) /\ MetadataOf(q, T)
  <2>0. MetaWriters(S) # {} <=> r.metaId # 0
    BY DEF IsMergeOf, MetaOriginIsLast, MetaWriters, Completions, IsEvent
  <2>1. CASE owns
    <3>1. q.metaId = e.id /\ q.metaAt = e.at /\ q.metadata = toJsonInput(e.meta)
      BY <2>1 DEF ToRow, MergeCompletion, States, IsEvent
    <3>2. ASSUME NEW f \in MetaWriters(S), f # e PROVE Outranks(e.at, e.id, f.at, f.id)
      <4>1. PICK g \in MetaWriters(S) : /\ Last(g, MetaWriters(S))
                                        /\ r.metaId = g.id
                                        /\ r.metaAt = g.at
        BY DEF IsMergeOf, MetaOriginIsLast
      <4>2. IsEvent(f) /\ IsEvent(g)
        BY DEF MetaWriters, Completions
      <4>3. Outranks(e.at, e.id, g.at, g.id)
        BY <1>2, <2>1, <4>1, <4>2 DEF IsEvent
      <4> QED BY <4>1, <4>2, <4>3 DEF Last, Outranks, IsEvent
    <3>3. Last(e, MetaWriters(T))
      BY <1>1, <2>1, <3>2 DEF Last
    <3>4. MetaOriginIsLast(q, T)
      BY <1>1, <2>1, <3>1, <3>3 DEF MetaOriginIsLast
    <3>5. \A f \in MetaWriters(T) : f.id = e.id => f = e
      BY DEF IdsDistinct, MetaWriters, Completions
    <3>6. MetadataOf(q, T)
      BY <1>1, <2>1, <3>1, <3>5 DEF MetadataOf
    <3> QED BY <3>4, <3>6
  <2>2. CASE ~ owns
    <3>1. q.metaId = r.metaId /\ q.metaAt = r.metaAt /\ q.metadata = r.metadata
      BY <2>2 DEF ToRow, MergeCompletion, States
    <3>2. CASE e.meta = absent
      BY <1>1, <1>2, <3>1, <3>2 DEF IsMergeOf, MetaOriginIsLast, MetadataOf
    <3>3. CASE e.meta # absent
      <4>1. PICK g \in MetaWriters(S) : /\ Last(g, MetaWriters(S))
                                        /\ r.metaId = g.id
                                        /\ r.metaAt = g.at
        BY <1>2, <2>2, <2>0, <3>3 DEF IsMergeOf, MetaOriginIsLast
      <4>2. IsEvent(g) /\ g # e /\ g.id # e.id
        BY DEF MetaWriters, Completions, IdsDistinct
      <4>3. Outranks(g.at, g.id, e.at, e.id)
        BY <1>2, <2>2, <3>3, <4>1, <4>2 DEF Outranks, IsEvent
      <4>4. Last(g, MetaWriters(T))
        BY <1>1, <3>3, <4>1, <4>3 DEF Last
      <4>5. MetaOriginIsLast(q, T)
        BY <1>1, <3>1, <3>3, <4>1, <4>4 DEF MetaOriginIsLast
      <4>6. MetadataOf(q, T)
        BY <1>1, <3>1, <3>3, <4>1, <4>2 DEF IsMergeOf, MetadataOf
      <4> QED BY <4>5, <4>6
    <3> QED BY <3>2, <3>3
  <2> QED BY <2>1, <2>2
<1>6. q.status = StatusOf(T)
  <2>1. T # {} /\ Completions(T) # {}
    BY <1>1
  <2>2. StatusOf(T) = IF \E f \in Completions(T) : f.status = "FAILED" THEN "FAILED"
                      ELSE "COMPLETED"
    BY <2>1 DEF StatusOf
  <2>3. s.status = StatusOf(S)
    BY <1>2 DEF IsMergeOf
  <2>4. e.status \in {"COMPLETED", "FAILED"}
    BY DEF IsEvent, TerminalStatuses
  <2>5. CASE Completions(S) = {}
    BY <1>1, <1>2, <2>2, <2>3, <2>4, <2>5
       DEF StatusOf, BaseStatus, resolveTerminalStatus, TerminalStatuses
  <2>6. CASE Completions(S) # {}
    <3>1. S # {}
      BY <2>6 DEF Completions
    <3> QED BY <1>1, <1>2, <2>2, <2>3, <2>4, <2>6, <3>1
            DEF StatusOf, BaseStatus, resolveTerminalStatus, TerminalStatuses
  <2> QED BY <2>5, <2>6
<1> HIDE DEF q, T
<1>7. IsMergeOf(q, T)
  BY <1>3, <1>4, <1>5, <1>6 DEF IsMergeOf
<1> QED BY <1>7 DEF q, T, m

\* mergeEvent: the merge of S and one more event, for every S and every event.
THEOREM MergeAdds ==
    ASSUME NEW s \in States, NEW S, \A f \in S : IsEvent(f),
           NEW e, IsEvent(e), e \notin S, IdsDistinct(S \cup {e}),
           NEW isRun, NEW t \in Nat,
           IsMergeOf(ToRow(s, isRun), S)
    PROVE  IsMergeOf(ToRow(mergeEvent(s, e, t), isRun), S \cup {e})
<1>1. CASE e.type = "start"
  <2>1. mergeEvent(s, e, t) = MergeStart(s, e, t)
    BY <1>1 DEF mergeEvent
  <2> QED BY <1>1, <2>1, MergeStartAdds
<1>2. CASE e.type = "completion"
  <2>1. mergeEvent(s, e, t) = MergeCompletion(s, e, t)
    BY <1>2 DEF mergeEvent
  <2> QED BY <1>2, <2>1, MergeCompletionAdds
<1> QED BY <1>1, <1>2 DEF IsEvent

\* Two rows that are merges of the same events hold the same values in every
\* merged column: the fold is a function of the set of events (ADR 0007).
THEOREM MergeDetermined ==
    ASSUME NEW S, \A f \in S : IsEvent(f), IdsDistinct(S),
           NEW r \in Rows, NEW q \in Rows, IsMergeOf(r, S), IsMergeOf(q, S)
    PROVE  [r EXCEPT !.lastEventAt = 0] = [q EXCEPT !.lastEventAt = 0]
<1>1. r.status = q.status
  BY DEF IsMergeOf
<1>2. \A e, f \in Starts(S) : First(e, Starts(S)) /\ First(f, Starts(S)) => e = f
  BY DEF First, Precedes, Starts, IsEvent
<1>3. \A e, f \in Completions(S) : Last(e, Completions(S)) /\ Last(f, Completions(S)) => e = f
  BY DEF Last, Outranks, Completions, IsEvent
<1>4. \A e, f \in MetaWriters(S) : Last(e, MetaWriters(S)) /\ Last(f, MetaWriters(S)) => e = f
  BY DEF Last, Outranks, MetaWriters, Completions, IsEvent
<1>5. /\ r.startEventId = q.startEventId
      /\ r.startedAt = q.startedAt
      /\ r.name = q.name
  BY <1>2 DEF IsMergeOf, StartIsFirst
<1>6. /\ r.completionEventId = q.completionEventId
      /\ r.completedAt = q.completedAt
  BY <1>3 DEF IsMergeOf, CompletionIsLast
<1>7. r.metaId = q.metaId /\ r.metaAt = q.metaAt
  BY <1>4 DEF IsMergeOf, MetaOriginIsLast
<1>8. r.metadata = q.metadata
  <2>1. CASE MetaWriters(S) # {}
    <3>1. PICK e \in MetaWriters(S) : r.metaId = e.id
      BY <2>1 DEF IsMergeOf, MetaOriginIsLast
    <3> QED BY <1>7, <3>1 DEF IsMergeOf, MetadataOf
  <2>2. CASE MetaWriters(S) = {} /\ Starts(S) # {}
    <3>1. PICK e \in Starts(S) : r.startEventId = e.id
      BY <2>2 DEF IsMergeOf, StartIsFirst
    <3> QED BY <1>5, <2>2, <3>1 DEF IsMergeOf, MetadataOf
  <2>3. CASE MetaWriters(S) = {} /\ Starts(S) = {}
    BY <2>3 DEF IsMergeOf, MetadataOf
  <2> QED BY <2>1, <2>2, <2>3
<1> QED BY <1>1, <1>5, <1>6, <1>7, <1>8 DEF Rows

-----------------------------------------------------------------------------
(* The service. *)

\* The least index of a nonempty set of batch indices is one of them.
LEMMA LeastIsMember ==
    ASSUME NEW S \in SUBSET Nat, S # {}
    PROVE  Least(S) \in S
<1>1. \E i \in S : \A j \in S : i <= j
  BY LeastExists
<1> QED BY <1>1 DEF Least

\* Batches are made of events, at natural indices.
LEMMA BatchOfEvents ==
    ASSUME NEW b \in Submissions, NEW i \in DOMAIN b.events
    PROVE  b.events[i] \in Events /\ i \in Nat
BY SubmissionsAssumption

\* What an event that is not rejected and names a Run or Step is.
LEMMA MergeableEvent ==
    ASSUME NEW e \in Events, classifyEvent(e) = "merge"
    PROVE  IsEvent(e) /\ e.entity \in Mergeable
BY EventsAssumption DEF classifyEvent, IsEvent

-----------------------------------------------------------------------------

(***************************************************************************)
(* What a request still has to merge are events of its batch the service   *)
(* classified as mergeable, and an open transaction has a group.           *)
(***************************************************************************)
TodoInv == \A p \in Requests :
    /\ todo[p] \subseteq Indices(Batch(p), "merge")
    /\ items[p] \subseteq todo[p]
    /\ pc[p] = "folding" => todo[p] # {}
    /\ pc[p] # "folding" => items[p] = {}
    /\ credit[p] # {} => body[p].dropped \in Nat

ShapeInv == TypeOK /\ TodoInv

\* A group of a request with work left: its key is an entity, its first event
\* one of the batch.
LEMMA GroupFacts ==
    ASSUME ShapeInv, NEW p \in Requests, todo[p] # {}
    PROVE  /\ Least(todo[p]) \in todo[p]
           /\ GroupKey(p) \in Mergeable
           /\ GroupRun(p) \in Runs
           /\ GroupItems(p) \subseteq todo[p]
           /\ Least(todo[p]) \in GroupItems(p)
           /\ \A i \in todo[p] : /\ Batch(p)[i] \in Events
                                 /\ IsEvent(Batch(p)[i])
                                 /\ i \in Nat
<1>1. todo[p] \in SUBSET Nat /\ body[p] \in Submissions
  BY DEF ShapeInv, TypeOK
<1>2. Least(todo[p]) \in todo[p]
  BY <1>1, LeastIsMember
<1>3. \A i \in todo[p] : i \in DOMAIN Batch(p) /\ classifyEvent(Batch(p)[i]) = "merge"
  BY DEF ShapeInv, TodoInv, Indices
<1>4. \A i \in todo[p] : Batch(p)[i] \in Events /\ i \in Nat
  BY <1>1, <1>3, BatchOfEvents DEF Batch
<1>5. \A i \in todo[p] : IsEvent(Batch(p)[i]) /\ Batch(p)[i].entity \in Mergeable
  BY <1>3, <1>4, MergeableEvent
<1>6. Batch(p)[Least(todo[p])].run \in Runs
  BY <1>2, <1>4, EventsAssumption
<1> QED BY <1>2, <1>4, <1>5, <1>6 DEF GroupKey, GroupRun, GroupItems

\* An entity with no row, and the state a load makes of it, are well typed.
LEMMA NoRowType == NoRow \in Rows /\ ToState(NoRow) \in States
<1>1. NoRow \in Rows
  BY DEF NoRow, Rows, Statuses
<1> QED BY <1>1, ToStateType

\* The initial state has the shape.
LEMMA ShapeInit == Init => ShapeInv
<1> SUFFICES ASSUME Init PROVE ShapeInv
  OBVIOUS
<1>1. TypeOK
  <2>1. \A p \in Requests : [i \in DOMAIN body[p].events |-> "NONE"] \in Seq(Verdicts)
    BY SubmissionsAssumption DEF Init, Verdicts
  <2> QED BY <2>1, NoRowType, BoundsAssumption
          DEF Init, TypeOK, EmptyEntityRow, Batch, Verdicts
<1>2. TodoInv
  BY DEF Init, TodoInv
<1> QED BY <1>1, <1>2 DEF ShapeInv

\* What SaveGroup writes is well typed.
LEMMA SaveGroupType ==
    ASSUME ShapeInv, NEW p \in Requests, todo[p] # {}, SaveGroup(p)
    PROVE  /\ rows' \in [Mergeable -> Rows]
           /\ ledger' \subseteq Nat
           /\ lock' \in [Mergeable -> Requests \cup {NoRequest}]
<1> DEFINE k == GroupKey(p)
           saved == IF state[p].status = "ABSENT" THEN rows
                    ELSE [rows EXCEPT ![k] = ToRow(state[p], k \in Runs)]
<1>1. k \in Mergeable /\ GroupRun(p) \in Runs
  BY GroupFacts
<1>2. saved \in [Mergeable -> Rows]
  <2>1. ToRow(state[p], k \in Runs) \in Rows
    BY ToRowType DEF ShapeInv, TypeOK
  <2> QED BY <2>1 DEF ShapeInv, TypeOK
<1>3. touchRunLiveness(saved, GroupRun(p), receivedAt[p]) \in [Mergeable -> Rows]
  <2>1. receivedAt[p] \in Nat /\ GroupRun(p) \in Mergeable
    BY <1>1 DEF ShapeInv, TypeOK, Mergeable
  <2> HIDE DEF saved
  <2>2. [saved[GroupRun(p)] EXCEPT !.lastEventAt = receivedAt[p]] \in Rows
    BY <1>2, <2>1 DEF Rows
  <2> QED BY <1>2, <2>1, <2>2 DEF touchRunLiveness
<1>4. rows' \in [Mergeable -> Rows]
  BY <1>2, <1>3 DEF SaveGroup
<1>5. ledger' \subseteq Nat
  BY DEF SaveGroup, ShapeInv, TypeOK
<1>6. lock' \in [Mergeable -> Requests \cup {NoRequest}]
  BY DEF SaveGroup, ShapeInv, TypeOK
<1> QED BY <1>4, <1>5, <1>6

\* The transaction's locals are well typed after it has ended (withEntityLock).
LEMMA EndTransactionType ==
    ASSUME ShapeInv, NEW p \in Requests, EndTransaction(p)
    PROVE  /\ items' \in [Requests -> SUBSET Nat]
           /\ state' \in [Requests -> States]
           /\ seen' \in [Requests -> SUBSET Nat]
           /\ fresh' \in [Requests -> SUBSET Nat]
           /\ items' = [items EXCEPT ![p] = {}]
BY NoRowType DEF EndTransaction, ShapeInv, TypeOK

\* Every step keeps the shape.
LEMMA ShapeNext == ShapeInv /\ [Next]_vars => ShapeInv'
<1> SUFFICES ASSUME ShapeInv, [Next]_vars PROVE ShapeInv'
  OBVIOUS
<1>0. TypeOK /\ TodoInv
  BY DEF ShapeInv
<1>1. CASE UNCHANGED vars
  BY <1>0, <1>1 DEF ShapeInv, TypeOK, TodoInv, vars, database, request, transaction, Batch
<1>2. CASE Tick
  BY <1>0, <1>2 DEF Tick, ShapeInv, TypeOK, TodoInv, database, request, transaction, Batch
<1>3. ASSUME NEW p \in Requests, Arrive(p) PROVE ShapeInv'
  <2> DEFINE b == Batch(p)
             res == [i \in DOMAIN b |-> IF classifyEvent(b[i]) = "rejected" THEN "REJECTED" ELSE "NONE"]
  <2>1. b \in Seq(Events)
    BY <1>0, SubmissionsAssumption DEF TypeOK, Batch
  <2>2. res \in Seq(Verdicts) /\ DOMAIN res = DOMAIN b
    BY <2>1 DEF Verdicts
  <2>3. /\ Indices(b, "merge") \subseteq DOMAIN b
        /\ Indices(b, "write") \subseteq DOMAIN b
        /\ DOMAIN b \subseteq Nat
    BY <2>1 DEF Indices
  <2>4. ReferencedRunIds(b) \subseteq Runs
    BY <2>1, EventsAssumption DEF ReferencedRunIds
  <2>5. body' = body /\ \A q \in Requests : Batch(q)' = Batch(q)
    BY <1>3 DEF Arrive, Batch
  <2> HIDE DEF b, res
  <2>6. /\ results' = [results EXCEPT ![p] = res]
        /\ todo' = [todo EXCEPT ![p] = Indices(b, "merge")]
        /\ writes' = [writes EXCEPT ![p] = Indices(b, "write")]
        /\ items' = items
    BY <1>3 DEF Arrive, transaction, b, res
  <2>7. credit' \in [Requests -> SUBSET Runs]
    BY <1>0, <1>3, <2>4 DEF Arrive, TypeOK, b
  <2>8. TypeOK'
    <3>1. /\ results' \in [Requests -> Seq(Verdicts)]
          /\ \A q \in Requests : DOMAIN results'[q] = DOMAIN Batch(q)
      BY <1>0, <2>2, <2>6 DEF TypeOK, b
    <3>2. /\ todo' \in [Requests -> SUBSET Nat]
          /\ writes' \in [Requests -> SUBSET Nat]
          /\ \A q \in Requests : todo'[q] \cup writes'[q] \cup items'[q] \subseteq DOMAIN Batch(q)
      BY <1>0, <2>3, <2>6 DEF TypeOK, b
    <3>3. receivedAt' \in [Requests -> Nat]
      BY <1>0, <1>3 DEF Arrive, TypeOK
    <3> QED BY <1>0, <1>3, <2>5, <2>7, <3>1, <3>2, <3>3
            DEF TypeOK, Arrive, database, transaction
  <2>9. TodoInv'
    <3>1. \A q \in Requests : credit'[q] # {} => body[q].dropped \in Nat
      BY <1>0, <1>3, SubmissionsAssumption DEF TodoInv, Arrive, TypeOK
    <3> QED BY <1>0, <1>3, <2>5, <2>6, <3>1 DEF TodoInv, Arrive, TypeOK, b
  <2> QED BY <2>8, <2>9 DEF ShapeInv
<1>4. ASSUME NEW p \in Requests, BeginGroup(p) PROVE ShapeInv'
  <2>1. GroupKey(p) \in Mergeable /\ GroupItems(p) \subseteq todo[p] /\ todo[p] # {}
    BY <1>4, GroupFacts DEF BeginGroup
  <2>2. ToState(rows[GroupKey(p)]) \in States
    BY <1>0, <2>1, ToStateType DEF TypeOK
  <2>3. body' = body /\ \A q \in Requests : Batch(q)' = Batch(q)
    BY <1>4 DEF BeginGroup, request, Batch
  <2>4. TypeOK'
    BY <1>0, <1>4, <2>1, <2>2, <2>3 DEF TypeOK, BeginGroup, request
  <2>5. TodoInv'
    BY <1>0, <1>4, <2>1, <2>3 DEF TodoInv, BeginGroup, request, TypeOK
  <2> QED BY <2>4, <2>5 DEF ShapeInv
<1>5. ASSUME NEW p \in Requests, FoldEvent(p) PROVE ShapeInv'
  <2> DEFINE i == Least(items[p])
             e == Batch(p)[i]
  <2>1. i \in items[p] /\ i \in todo[p] /\ todo[p] # {}
    BY <1>0, <1>5, LeastIsMember DEF FoldEvent, TypeOK, TodoInv
  <2>2. IsEvent(e) /\ e.id \in Nat
    BY <2>1, GroupFacts DEF IsEvent
  <2>3. mergeEvent(state[p], e, receivedAt[p]) \in States
    BY <1>0, <2>2, MergeType DEF TypeOK
  <2>4. body' = body /\ \A q \in Requests : Batch(q)' = Batch(q)
    BY <1>5 DEF FoldEvent, Batch
  <2>5. i \in DOMAIN results[p]
    BY <1>0, <2>1 DEF TypeOK
  <2> HIDE DEF i, e
  <2>6. /\ items' = [items EXCEPT ![p] = @ \ {i}]
        /\ \E v \in Verdicts : results' = [results EXCEPT ![p] = [@ EXCEPT ![i] = v]]
        /\ \/ UNCHANGED <<seen, fresh, state>>
           \/ /\ seen' = [seen EXCEPT ![p] = @ \cup {e.id}]
              /\ fresh' = [fresh EXCEPT ![p] = @ \cup {e.id}]
              /\ state' = [state EXCEPT ![p] = mergeEvent(@, e, receivedAt[p])]
        /\ UNCHANGED <<clock, database, pc, body, receivedAt, todo, writes, credit>>
    BY <1>5 DEF FoldEvent, i, e, Verdicts
  <2>7. results' \in [Requests -> Seq(Verdicts)] /\ \A q \in Requests : DOMAIN results'[q] = DOMAIN results[q]
    <3>1. PICK v \in Verdicts : results' = [results EXCEPT ![p] = [@ EXCEPT ![i] = v]]
      BY <2>6
    <3>2. results[p] \in Seq(Verdicts)
      BY <1>0 DEF TypeOK
    <3>3. [results[p] EXCEPT ![i] = v] \in Seq(Verdicts) /\ DOMAIN [results[p] EXCEPT ![i] = v] = DOMAIN results[p]
      BY <2>5, <3>2
    <3> QED BY <1>0, <3>1, <3>3 DEF TypeOK
  <2>8. /\ seen' \in [Requests -> SUBSET Nat]
        /\ fresh' \in [Requests -> SUBSET Nat]
        /\ state' \in [Requests -> States]
    <3>1. CASE UNCHANGED <<seen, fresh, state>>
      BY <1>0, <3>1 DEF TypeOK
    <3>2. CASE /\ seen' = [seen EXCEPT ![p] = @ \cup {e.id}]
               /\ fresh' = [fresh EXCEPT ![p] = @ \cup {e.id}]
               /\ state' = [state EXCEPT ![p] = mergeEvent(@, e, receivedAt[p])]
      BY <1>0, <2>2, <2>3, <3>2 DEF TypeOK
    <3> QED BY <2>6, <3>1, <3>2
  <2>9. TypeOK'
    BY <1>0, <2>4, <2>6, <2>7, <2>8 DEF TypeOK, database
  <2>10. TodoInv'
    BY <1>0, <2>4, <2>6 DEF TodoInv, TypeOK
  <2> QED BY <2>9, <2>10 DEF ShapeInv
<1>6. ASSUME NEW p \in Requests, CommitGroup(p) PROVE ShapeInv'
  <2>1. todo[p] # {}
    BY <1>0, <1>6 DEF CommitGroup, TodoInv
  <2>2. body' = body /\ \A q \in Requests : Batch(q)' = Batch(q)
    BY <1>6 DEF CommitGroup, Batch
  <2>3. TypeOK'
    BY <1>0, <1>6, <2>1, <2>2, SaveGroupType, EndTransactionType DEF CommitGroup, TypeOK
  <2>4. TodoInv'
    BY <1>0, <1>6, <2>2, EndTransactionType DEF CommitGroup, TodoInv, TypeOK
  <2> QED BY <2>3, <2>4 DEF ShapeInv
<1>7. ASSUME NEW p \in Requests, CommitUnacknowledged(p) PROVE ShapeInv'
  <2>1. todo[p] # {}
    BY <1>0, <1>7 DEF CommitUnacknowledged, TodoInv
  <2>2. body' = body /\ \A q \in Requests : Batch(q)' = Batch(q)
    BY <1>7 DEF CommitUnacknowledged, request, Batch
  <2>3. TypeOK'
    <3>1. pc' \in [Requests -> {"idle", "working", "folding", "answered", "failed", "crashed"}]
      BY <1>0, <1>7 DEF CommitUnacknowledged, TypeOK
    <3>2. /\ items' = [items EXCEPT ![p] = {}] /\ items' \in [Requests -> SUBSET Nat]
          /\ state' \in [Requests -> States]
          /\ seen' \in [Requests -> SUBSET Nat] /\ fresh' \in [Requests -> SUBSET Nat]
      BY <1>7, EndTransactionType DEF CommitUnacknowledged
    <3>3. /\ rows' \in [Mergeable -> Rows] /\ ledger' \subseteq Nat
          /\ lock' \in [Mergeable -> Requests \cup {NoRequest}]
      BY <1>7, <2>1, SaveGroupType DEF CommitUnacknowledged
    <3>4. \A q \in Requests : items'[q] \subseteq items[q]
      BY <1>0, <3>2 DEF TypeOK
    <3>5. UNCHANGED <<clock, entityRows, dropped, deliveries, credited,
                      body, receivedAt, todo, writes, credit, results>>
      BY <1>7 DEF CommitUnacknowledged, request
    <3> QED BY <1>0, <2>2, <3>1, <3>2, <3>3, <3>4, <3>5 DEF TypeOK
  <2>4. TodoInv'
    BY <1>0, <1>7, <2>2, EndTransactionType DEF CommitUnacknowledged, request, TodoInv, TypeOK
  <2> QED BY <2>3, <2>4 DEF ShapeInv
<1>8. ASSUME NEW p \in Requests, PersistenceFailure(p) \/ Crash(p) PROVE ShapeInv'
  <2>1. /\ \E v \in {"failed", "crashed"} : pc' = [pc EXCEPT ![p] = v]
        /\ ReleaseLocks(p)
        /\ EndTransaction(p)
        /\ UNCHANGED <<clock, rows, ledger, entityRows, dropped, deliveries, credited, request>>
    BY <1>8 DEF PersistenceFailure, Crash
  <2>2. body' = body /\ \A q \in Requests : Batch(q)' = Batch(q)
    BY <2>1 DEF request, Batch
  <2>3. lock' \in [Mergeable -> Requests \cup {NoRequest}]
    BY <1>0, <2>1 DEF ReleaseLocks, TypeOK
  <2>4. TypeOK'
    <3>1. pc' \in [Requests -> {"idle", "working", "folding", "answered", "failed", "crashed"}]
      BY <1>0, <2>1 DEF TypeOK
    <3>2. /\ items' = [items EXCEPT ![p] = {}] /\ items' \in [Requests -> SUBSET Nat]
          /\ state' \in [Requests -> States]
          /\ seen' \in [Requests -> SUBSET Nat] /\ fresh' \in [Requests -> SUBSET Nat]
      BY <2>1, EndTransactionType
    <3>3. \A q \in Requests : items'[q] \subseteq items[q]
      BY <1>0, <3>2 DEF TypeOK
    <3>4. UNCHANGED <<clock, rows, ledger, entityRows, dropped, deliveries, credited,
                      body, receivedAt, todo, writes, credit, results>>
      BY <2>1 DEF request
    <3> QED BY <1>0, <2>2, <2>3, <3>1, <3>2, <3>3, <3>4 DEF TypeOK
  <2>5. TodoInv'
    BY <1>0, <2>1, <2>2, EndTransactionType DEF request, TodoInv, TypeOK
  <2> QED BY <2>4, <2>5 DEF ShapeInv
<1>9. ASSUME NEW p \in Requests, PersistEntityWrite(p) PROVE ShapeInv'
  <2> DEFINE i == Least(writes[p])
             e == Batch(p)[i]
  <2>1. i \in writes[p] /\ i \in DOMAIN Batch(p)
    BY <1>0, <1>9, LeastIsMember DEF PersistEntityWrite, TypeOK
  <2>2. e \in Events /\ e.id \in Nat
    BY <1>0, <2>1, BatchOfEvents, EventsAssumption DEF TypeOK, Batch
  <2>3. body' = body /\ \A q \in Requests : Batch(q)' = Batch(q)
    BY <1>9 DEF PersistEntityWrite, Batch
  <2>4. i \in DOMAIN results[p] /\ results[p] \in Seq(Verdicts)
    BY <1>0, <2>1 DEF TypeOK
  <2> HIDE DEF i, e
  <2>5. /\ entityRows' = [entityRows EXCEPT ![e.entity] = writeEntityEvent(@, e)]
        /\ writes' = [writes EXCEPT ![p] = @ \ {i}]
        /\ results' = [results EXCEPT ![p] = [@ EXCEPT ![i] = "ACCEPTED"]]
    BY <1>9 DEF PersistEntityWrite, i, e
  <2>6. [results[p] EXCEPT ![i] = "ACCEPTED"] \in Seq(Verdicts)
        /\ DOMAIN [results[p] EXCEPT ![i] = "ACCEPTED"] = DOMAIN results[p]
    BY <2>4 DEF Verdicts
  <2>7. /\ results' \in [Requests -> Seq(Verdicts)]
        /\ \A q \in Requests : DOMAIN results'[q] = DOMAIN results[q]
    BY <1>0, <2>5, <2>6 DEF TypeOK
  <2>8. entityRows' \in [Entities -> [recorded : Nat, outcome : Nat]]
    <3>1. CASE e.entity \in Entities
      <4>1. entityRows[e.entity] \in [recorded : Nat, outcome : Nat]
        BY <1>0, <3>1 DEF TypeOK
      <4>2. writeEntityEvent(entityRows[e.entity], e) \in [recorded : Nat, outcome : Nat]
        BY <2>2, <4>1 DEF writeEntityEvent
      <4> QED BY <1>0, <2>5, <4>2 DEF TypeOK
    <3>2. CASE e.entity \notin Entities
      BY <1>0, <2>5, <3>2 DEF TypeOK
    <3> QED BY <3>1, <3>2
  <2>9. TypeOK'
    BY <1>0, <1>9, <2>3, <2>5, <2>7, <2>8 DEF TypeOK, PersistEntityWrite, transaction
  <2>10. TodoInv'
    BY <1>0, <1>9, <2>3 DEF PersistEntityWrite, transaction, TodoInv
  <2> QED BY <2>9, <2>10 DEF ShapeInv
<1>10. ASSUME NEW p \in Requests, FoldDropped(p) PROVE ShapeInv'
  <2>1. PICK r \in credit[p] : /\ credit' = [credit EXCEPT ![p] = @ \ {r}]
                               /\ incrementDroppedCount(p, r)
    BY <1>10 DEF FoldDropped
  <2>2. r \in Runs /\ body[p] \in Submissions
    BY <1>0 DEF TypeOK
  <2>3. /\ dropped' \in [Runs -> 0 .. MaxInt4]
        /\ deliveries' \subseteq Runs \X STRING
        /\ credited' \subseteq Requests \X Runs
    <3> DEFINE d == body[p].deliveryId
               amount == body[p].dropped
    <3>1. d \in STRING /\ amount \in Nat
      BY <1>0, <2>2, SubmissionsAssumption DEF TodoInv
    <3>2. incrementDroppedCountRaw(r, amount) \in [Runs -> 0 .. MaxInt4]
      BY <1>0, <2>2, <3>1, BoundsAssumption DEF incrementDroppedCountRaw, TypeOK
    <3>3. CASE UNCHANGED <<dropped, deliveries, credited>>
      BY <1>0, <3>3 DEF TypeOK
    <3>4. CASE ~ UNCHANGED <<dropped, deliveries, credited>>
      <4>1. /\ dropped' = incrementDroppedCountRaw(r, amount)
            /\ deliveries' = deliveries \/ deliveries' = deliveries \cup {<<r, d>>}
            /\ credited' = credited \/ credited' = credited \cup {<<p, r>>}
        BY <2>1, <3>4 DEF incrementDroppedCount
      <4> QED BY <1>0, <2>2, <3>1, <3>2, <4>1 DEF TypeOK
    <3> QED BY <3>3, <3>4
  <2>4. body' = body /\ \A q \in Requests : Batch(q)' = Batch(q)
    BY <1>10 DEF FoldDropped, Batch
  <2>5. TypeOK'
    BY <1>0, <1>10, <2>1, <2>3, <2>4 DEF FoldDropped, TypeOK, transaction
  <2>6. TodoInv'
    BY <1>0, <1>10, <2>1, <2>4 DEF FoldDropped, TodoInv, transaction, TypeOK
  <2> QED BY <2>5, <2>6 DEF ShapeInv
<1>11. ASSUME NEW p \in Requests, FoldDroppedFails(p) PROVE ShapeInv'
  <2>1. body' = body /\ \A q \in Requests : Batch(q)' = Batch(q)
    BY <1>11 DEF FoldDroppedFails, Batch
  <2>2. TypeOK'
    BY <1>0, <1>11, <2>1 DEF FoldDroppedFails, TypeOK, database, transaction
  <2>3. TodoInv'
    BY <1>0, <1>11, <2>1 DEF FoldDroppedFails, TodoInv, transaction
  <2> QED BY <2>2, <2>3 DEF ShapeInv
<1>12. ASSUME NEW p \in Requests, Respond(p) PROVE ShapeInv'
  <2>1. body' = body /\ \A q \in Requests : Batch(q)' = Batch(q)
    BY <1>12 DEF Respond, request, Batch
  <2>2. TypeOK'
    BY <1>0, <1>12, <2>1 DEF Respond, TypeOK, database, request, transaction
  <2>3. TodoInv'
    BY <1>0, <1>12, <2>1 DEF Respond, TodoInv, request, transaction, TypeOK
  <2> QED BY <2>2, <2>3 DEF ShapeInv
<1> QED
  BY <1>1, <1>2, <1>3, <1>4, <1>5, <1>6, <1>7, <1>8, <1>9, <1>10, <1>11, <1>12
     DEF Next, Handle, Fail

\* Type correctness of the ingest model.
THEOREM TypeCorrect == Spec => []TypeOK
<1>1. Init => ShapeInv
  BY ShapeInit
<1>2. ShapeInv /\ [Next]_vars => ShapeInv'
  BY ShapeNext
<1>3. ShapeInv => TypeOK
  BY DEF ShapeInv
<1> QED BY <1>1, <1>2, <1>3, PTL DEF Spec

-----------------------------------------------------------------------------
(***************************************************************************)
(* The inductive invariant behind RowIsMergeOfLedger.  An open transaction *)
(* holds the lock of its entity, so nobody else changes that entity's      *)
(* merged columns or its events in the ledger; what it has folded is the   *)
(* merge of those events and the ones it accepted; and what it takes for   *)
(* seen is exactly that.                                                   *)
(***************************************************************************)
Accepted(p) == {e \in Events : e.entity = GroupKey(p) /\ e.id \in fresh[p]}

TransactionOK(p) ==
    /\ lock[GroupKey(p)] = p
    /\ fresh[p] \subseteq Ids(p, GroupItems(p))
    /\ items[p] \subseteq GroupItems(p)
    /\ seen[p] = (ledger \cap Ids(p, GroupItems(p))) \cup fresh[p]
    /\ IsMergeOf(ToRow(state[p], GroupKey(p) \in Runs), Merged(GroupKey(p)) \cup Accepted(p))

TransactionInv == \A p \in Requests : pc[p] = "folding" => TransactionOK(p)

MergeInv == ShapeInv /\ RowIsMergeOfLedger /\ TransactionInv

\* Whether a row is the merge of a set of events does not depend on lastEventAt.
LEMMA MergeIgnoresLiveness ==
    ASSUME NEW r \in Rows, NEW n, NEW S, IsMergeOf(r, S)
    PROVE  IsMergeOf([r EXCEPT !.lastEventAt = n], S)
<1> DEFINE q == [r EXCEPT !.lastEventAt = n]
<1>1. /\ q.status = r.status
      /\ q.startEventId = r.startEventId
      /\ q.startedAt = r.startedAt
      /\ q.name = r.name
      /\ q.completionEventId = r.completionEventId
      /\ q.completedAt = r.completedAt
      /\ q.metaId = r.metaId
      /\ q.metaAt = r.metaAt
      /\ q.metadata = r.metadata
  BY DEF Rows
<1> HIDE DEF q
<1>2. IsMergeOf(q, S)
  BY <1>1 DEF IsMergeOf, StartIsFirst, CompletionIsLast, MetaOriginIsLast, MetadataOf
<1> QED BY <1>2 DEF q

\* A row that does not exist is the merge of no event.
LEMMA NoRowIsMergeOfNothing == IsMergeOf(NoRow, {})
BY DEF IsMergeOf, NoRow, StatusOf, StartIsFirst, CompletionIsLast, MetaOriginIsLast,
       MetadataOf, Starts, Completions, MetaWriters

\* An event stored for, or accepted by, another entity's group is no event of k.
LEMMA EventsOfEntity ==
    ASSUME ShapeInv, NEW p \in Requests, todo[p] # {}, NEW e \in Events,
           e.id \in Ids(p, GroupItems(p))
    PROVE  e.entity = GroupKey(p) /\ IsEvent(e)
<1>1. PICK i \in GroupItems(p) : e.id = Batch(p)[i].id
  BY DEF Ids
<1>2. i \in todo[p] /\ Batch(p)[i].entity = GroupKey(p)
  BY DEF GroupItems
<1>3. Batch(p)[i] \in Events /\ IsEvent(Batch(p)[i])
  BY <1>2, GroupFacts
<1>4. e = Batch(p)[i]
  BY <1>1, <1>3, EventsAssumption
<1> QED BY <1>2, <1>3, <1>4

\* The ledger's events of an entity are events the reducer is defined on.
LEMMA MergedAreEvents ==
    ASSUME NEW k \in Mergeable, NEW e \in Events, e.entity = k
    PROVE  IsEvent(e)
BY EventsAssumption DEF IsEvent

\* Empty tables and an empty ledger agree, and no transaction is open.
LEMMA MergeInit == Init => MergeInv
<1> SUFFICES ASSUME Init PROVE MergeInv
  OBVIOUS
<1>1. ShapeInv
  BY ShapeInit
<1>2. \A k \in Mergeable : Merged(k) = {} /\ rows[k] = NoRow
  BY DEF Init, Merged
<1>3. RowIsMergeOfLedger
  BY <1>2, NoRowIsMergeOfNothing DEF RowIsMergeOfLedger
<1>4. TransactionInv
  BY DEF Init, TransactionInv
<1> QED BY <1>1, <1>3, <1>4 DEF MergeInv

\* A step of p that leaves the database and the other requests' locals alone
\* leaves every other request's transaction as it was.
LEMMA OthersUntouched ==
    ASSUME NEW p, NEW q \in Requests, TransactionOK(q),
           todo'[q] = todo[q], Batch(q)' = Batch(q), items'[q] = items[q],
           state'[q] = state[q], seen'[q] = seen[q], fresh'[q] = fresh[q],
           lock'[GroupKey(q)] = lock[GroupKey(q)],
           ledger' \cap Ids(q, GroupItems(q)) = ledger \cap Ids(q, GroupItems(q)),
           Merged(GroupKey(q))' = Merged(GroupKey(q))
    PROVE  TransactionOK(q)'
<1>1. /\ GroupKey(q)' = GroupKey(q)
      /\ GroupItems(q)' = GroupItems(q)
  BY DEF GroupKey, GroupItems
<1>2. Ids(q, GroupItems(q))' = Ids(q, GroupItems(q))
  BY <1>1 DEF Ids
<1>3. Accepted(q)' = Accepted(q) /\ Merged(GroupKey(q))' = Merged(GroupKey(q))
  BY <1>1 DEF Accepted
<1> QED BY <1>1, <1>2, <1>3 DEF TransactionOK

\* A step that leaves the merged rows, the ledger and every open transaction
\* alone (it may end one, or release its locks) keeps the invariant.
LEMMA QuietStep ==
    ASSUME MergeInv, ShapeInv', rows' = rows, ledger' = ledger,
           \A q \in Requests : pc'[q] = "folding" =>
              /\ pc[q] = "folding"
              /\ todo'[q] = todo[q] /\ body'[q] = body[q] /\ items'[q] = items[q]
              /\ state'[q] = state[q] /\ seen'[q] = seen[q] /\ fresh'[q] = fresh[q]
              /\ \A k \in Mergeable : lock[k] = q => lock'[k] = q
    PROVE  MergeInv'
<1>1. \A k : Merged(k)' = Merged(k)
  BY DEF Merged
<1>2. RowIsMergeOfLedger'
  BY <1>1 DEF MergeInv, RowIsMergeOfLedger
<1>3. ASSUME NEW q \in Requests, pc'[q] = "folding" PROVE TransactionOK(q)'
  <2>1. TransactionOK(q)
    BY <1>3 DEF MergeInv, TransactionInv
  <2>2. GroupKey(q) \in Mergeable
    BY <1>3, GroupFacts DEF MergeInv, ShapeInv, TodoInv
  <2>3. Batch(q)' = Batch(q)
    BY <1>3 DEF Batch
  <2>4. lock'[GroupKey(q)] = lock[GroupKey(q)]
    BY <1>3, <2>1, <2>2 DEF TransactionOK
  <2>5. GroupKey(q)' = GroupKey(q)
    BY <1>3, <2>3 DEF GroupKey
  <2>6. Merged(GroupKey(q))' = Merged(GroupKey(q))
    BY <1>1, <2>5 DEF Merged
  <2> QED BY <1>3, <2>1, <2>3, <2>4, <2>6, OthersUntouched
<1> QED BY <1>2, <1>3 DEF MergeInv, TransactionInv

\* The transaction of p starts from the row it loads under the lock.
LEMMA BeginGroupKeeps ==
    ASSUME MergeInv, ShapeInv', NEW p \in Requests, BeginGroup(p)
    PROVE  MergeInv'
<1> DEFINE k == GroupKey(p)
<1>0. ShapeInv /\ TypeOK /\ todo[p] # {}
  BY DEF MergeInv, ShapeInv, BeginGroup
<1>1. k \in Mergeable /\ GroupItems(p) \subseteq todo[p]
  BY <1>0, GroupFacts
<1>2. UNCHANGED <<rows, ledger, body, todo>> /\ \A q \in Requests : Batch(q)' = Batch(q)
  BY DEF BeginGroup, request, Batch
<1>3. \A j : Merged(j)' = Merged(j)
  BY <1>2 DEF Merged
<1>4. RowIsMergeOfLedger'
  BY <1>2, <1>3 DEF MergeInv, RowIsMergeOfLedger
<1>5. \A q \in Requests : /\ GroupKey(q)' = GroupKey(q)
                          /\ GroupItems(q)' = GroupItems(q)
                          /\ Ids(q, GroupItems(q))' = Ids(q, GroupItems(q))
  BY <1>2 DEF GroupKey, GroupItems, Ids
<1>6. TransactionOK(p)'
  <2>1. /\ lock' = [lock EXCEPT ![k] = p]
        /\ items'[p] = GroupItems(p)
        /\ state'[p] = ToState(rows[k])
        /\ seen'[p] = ledger \cap Ids(p, GroupItems(p))
        /\ fresh'[p] = {}
    BY <1>0 DEF BeginGroup, TypeOK
  <2>2. lock'[k] = p
    BY <1>0, <1>1, <2>1 DEF TypeOK
  <2>3. Accepted(p)' = {}
    BY <2>1 DEF Accepted
  <2>4. rows[k] \in Rows /\ IsMergeOf(rows[k], Merged(k)) /\ \A e \in Merged(k) : IsEvent(e)
    BY <1>0, <1>1, MergedAreEvents DEF MergeInv, RowIsMergeOfLedger, TypeOK, Merged
  <2>5. IsMergeOf(ToRow(ToState(rows[k]), k \in Runs), Merged(k))
    BY <2>4, ReloadKeepsMerge
  <2>6. Merged(GroupKey(p))' = Merged(k)
    BY <1>2, <1>5 DEF Merged
  <2> HIDE DEF k
  <2>7. Merged(GroupKey(p))' \cup Accepted(p)' = Merged(k) /\ GroupKey(p)' = k
    BY <1>5, <2>3, <2>6 DEF k
  <2>8. IsMergeOf(ToRow(state'[p], GroupKey(p)' \in Runs), Merged(GroupKey(p))' \cup Accepted(p)')
    BY <2>1, <2>5, <2>7
  <2> QED BY <1>2, <1>5, <2>1, <2>2, <2>7, <2>8 DEF TransactionOK
<1>7. ASSUME NEW q \in Requests, q # p, pc'[q] = "folding" PROVE TransactionOK(q)'
  <2>1. pc[q] = "folding"
    BY <1>0, <1>7 DEF BeginGroup, TypeOK
  <2>2. TransactionOK(q) /\ GroupKey(q) # k
    BY <2>1, RequestsAssumption DEF MergeInv, TransactionInv, TransactionOK, BeginGroup
  <2>3. /\ items'[q] = items[q] /\ state'[q] = state[q]
        /\ seen'[q] = seen[q] /\ fresh'[q] = fresh[q]
        /\ lock'[GroupKey(q)] = lock[GroupKey(q)]
    BY <1>0, <1>7, <2>2 DEF BeginGroup, TypeOK
  <2>4. Merged(GroupKey(q))' = Merged(GroupKey(q))
    BY <1>2, <1>5 DEF Merged
  <2> QED BY <1>2, <2>2, <2>3, <2>4, OthersUntouched
<1> QED BY <1>4, <1>6, <1>7 DEF MergeInv, TransactionInv

\* One round of the fold keeps the transaction's state the merge of the ledger's
\* events and those it accepted: the lemma MergeAdds, or nothing for a duplicate.
LEMMA FoldEventKeeps ==
    ASSUME MergeInv, ShapeInv', NEW p \in Requests, FoldEvent(p)
    PROVE  MergeInv'
<1> DEFINE k == GroupKey(p)
           i == Least(items[p])
           e == Batch(p)[i]
<1>0. ShapeInv /\ TypeOK /\ TodoInv /\ todo[p] # {} /\ TransactionOK(p)
  BY DEF MergeInv, ShapeInv, TodoInv, TransactionInv, FoldEvent
<1>1. i \in items[p] /\ i \in GroupItems(p) /\ i \in todo[p] /\ e.entity = k
  BY <1>0, LeastIsMember DEF FoldEvent, TypeOK, TransactionOK, GroupItems
<1>2. e \in Events /\ IsEvent(e) /\ k \in Mergeable
  BY <1>0, <1>1, GroupFacts
<1>3. /\ UNCHANGED <<rows, ledger, lock, pc, body, todo>>
      /\ \A q \in Requests : Batch(q)' = Batch(q)
  BY DEF FoldEvent, database, Batch
<1>4. \A j : Merged(j)' = Merged(j)
  BY <1>3 DEF Merged
<1>5. RowIsMergeOfLedger'
  BY <1>3, <1>4 DEF MergeInv, RowIsMergeOfLedger
<1>6. \A q \in Requests : /\ GroupKey(q)' = GroupKey(q)
                          /\ GroupItems(q)' = GroupItems(q)
                          /\ Ids(q, GroupItems(q))' = Ids(q, GroupItems(q))
                          /\ Merged(GroupKey(q))' = Merged(GroupKey(q))
  BY <1>3 DEF GroupKey, GroupItems, Ids, Merged
<1>7. e.id \in Ids(p, GroupItems(p))
  BY <1>1 DEF Ids
<1>8. items'[p] \subseteq GroupItems(p)
  BY <1>0 DEF FoldEvent, TransactionOK, TypeOK
<1>9. TransactionOK(p)'
  <2>1. CASE e.id \in seen[p]
    <3>1. seen'[p] = seen[p] /\ fresh'[p] = fresh[p] /\ state'[p] = state[p]
      BY <2>1 DEF FoldEvent
    <3>2. Accepted(p)' = Accepted(p)
      BY <1>6, <3>1 DEF Accepted
    <3> QED BY <1>0, <1>3, <1>6, <1>8, <3>1, <3>2 DEF TransactionOK
  <2>2. CASE e.id \notin seen[p]
    <3>1. /\ seen'[p] = seen[p] \cup {e.id}
          /\ fresh'[p] = fresh[p] \cup {e.id}
          /\ state'[p] = mergeEvent(state[p], e, receivedAt[p])
      BY <1>0, <2>2 DEF FoldEvent, TypeOK
    <3> DEFINE S == Merged(k) \cup Accepted(p)
    <3>2. e \notin S
      BY <1>0, <1>7, <2>2 DEF TransactionOK, Merged, Accepted
    <3>3. (Merged(GroupKey(p)) \cup Accepted(p))' = S \cup {e}
      <4>1. Accepted(p)' = Accepted(p) \cup {e}
        BY <1>1, <1>2, <1>6, <3>1, EventsAssumption DEF Accepted
      <4> QED BY <1>6, <4>1
    <3>4. \A f \in S \cup {e} : f \in Events /\ IsEvent(f)
      BY <1>2, MergedAreEvents DEF Merged, Accepted
    <3>5. IdsDistinct(S \cup {e})
      BY <3>4, EventsAssumption DEF IdsDistinct
    <3>6. state[p] \in States /\ receivedAt[p] \in Nat
      BY <1>0 DEF TypeOK
    <3>7. IsMergeOf(ToRow(state[p], k \in Runs), S)
      BY <1>0 DEF TransactionOK
    <3> HIDE DEF S, e, k
    <3>8. IsMergeOf(ToRow(mergeEvent(state[p], e, receivedAt[p]), k \in Runs), S \cup {e})
      BY <1>2, <3>2, <3>4, <3>5, <3>6, <3>7, MergeAdds
    <3>9. GroupKey(p)' = k
      BY <1>6 DEF k
    <3>10. IsMergeOf(ToRow(state[p], GroupKey(p) \in Runs), Merged(GroupKey(p)) \cup Accepted(p))'
      BY <3>1, <3>3, <3>8, <3>9
    <3>11. /\ lock'[GroupKey(p)'] = p
           /\ fresh'[p] \subseteq Ids(p, GroupItems(p))'
           /\ seen'[p] = (ledger' \cap Ids(p, GroupItems(p))') \cup fresh'[p]
      BY <1>0, <1>3, <1>6, <1>7, <3>1 DEF TransactionOK
    <3> QED BY <1>6, <1>8, <3>10, <3>11 DEF TransactionOK
  <2> QED BY <2>1, <2>2
<1>10. ASSUME NEW q \in Requests, q # p, pc'[q] = "folding" PROVE TransactionOK(q)'
  <2>1. TransactionOK(q)
    BY <1>3, <1>10 DEF MergeInv, TransactionInv
  <2>2. /\ items'[q] = items[q] /\ state'[q] = state[q]
        /\ seen'[q] = seen[q] /\ fresh'[q] = fresh[q]
    BY <1>0, <1>10 DEF FoldEvent, TypeOK
  <2> QED BY <1>3, <1>6, <2>1, <2>2, OthersUntouched
<1> QED BY <1>5, <1>9, <1>10 DEF MergeInv, TransactionInv

\* The commit of p's transaction: the row it saves is the merge of what the
\* ledger then holds, a touched run row keeps its merged columns, and no other
\* entity's events change.
LEMMA SaveGroupKeeps ==
    ASSUME MergeInv, ShapeInv', NEW p \in Requests, pc[p] = "folding", SaveGroup(p),
           \A q \in Requests : q # p /\ pc'[q] = "folding" =>
              /\ pc[q] = "folding"
              /\ todo'[q] = todo[q] /\ body'[q] = body[q] /\ items'[q] = items[q]
              /\ state'[q] = state[q] /\ seen'[q] = seen[q] /\ fresh'[q] = fresh[q],
           pc'[p] # "folding"
    PROVE  MergeInv'
<1> DEFINE k == GroupKey(p)
           saved == IF state[p].status = "ABSENT" THEN rows
                    ELSE [rows EXCEPT ![k] = ToRow(state[p], k \in Runs)]
<1>0. ShapeInv /\ TypeOK /\ todo[p] # {} /\ TransactionOK(p)
  BY DEF MergeInv, ShapeInv, TodoInv, TransactionInv
<1>1. k \in Mergeable /\ GroupRun(p) \in Mergeable
  BY <1>0, GroupFacts DEF Mergeable
<1>2. ledger' = ledger \cup fresh[p]
  BY DEF SaveGroup
<1>3. \A e \in Events : e.id \in fresh[p] => e.entity = k
  BY <1>0, EventsOfEntity DEF TransactionOK
<1>4. \A j : j # k => {e \in Events : e.entity = j /\ e.id \in ledger'} = Merged(j)
  BY <1>2, <1>3 DEF Merged
<1>5. {e \in Events : e.entity = k /\ e.id \in ledger'} = Merged(k) \cup Accepted(p)
  BY <1>2 DEF Merged, Accepted
<1>6. ASSUME NEW j \in Mergeable
      PROVE  saved[j] \in Rows /\ IsMergeOf(saved[j], {e \in Events : e.entity = j /\ e.id \in ledger'})
  <2>1. CASE j # k
    <3>1. saved[j] = rows[j]
      BY <1>0, <2>1 DEF TypeOK
    <3>2. rows[j] \in Rows /\ IsMergeOf(rows[j], Merged(j))
      BY <1>0 DEF TypeOK, MergeInv, RowIsMergeOfLedger
    <3> QED BY <1>4, <2>1, <3>1, <3>2
  <2>2. CASE j = k /\ state[p].status # "ABSENT"
    <3>1. saved[j] = ToRow(state[p], k \in Runs)
      BY <1>0, <1>1, <2>2 DEF TypeOK
    <3>2. ToRow(state[p], k \in Runs) \in Rows
      BY <1>0, ToRowType DEF TypeOK
    <3>3. IsMergeOf(ToRow(state[p], k \in Runs), Merged(k) \cup Accepted(p))
      BY <1>0 DEF TransactionOK
    <3> QED BY <1>5, <2>2, <3>1, <3>2, <3>3
  <2>3. CASE j = k /\ state[p].status = "ABSENT"
    <3>1. StatusOf(Merged(k) \cup Accepted(p)) = "ABSENT"
      BY <1>0, <2>3 DEF TransactionOK, IsMergeOf, ToRow
    <3>2. Merged(k) \cup Accepted(p) = {}
      BY <3>1 DEF StatusOf
    <3>3. rows[k] \in Rows /\ IsMergeOf(rows[k], Merged(k))
      BY <1>0, <1>1 DEF TypeOK, MergeInv, RowIsMergeOfLedger
    <3>4. Merged(k) = Merged(k) \cup Accepted(p)
      BY <3>2
    <3> QED BY <1>5, <2>3, <3>3, <3>4
  <2> QED BY <2>1, <2>2, <2>3
<1>7. RowIsMergeOfLedger'
  <2> SUFFICES ASSUME NEW j \in Mergeable
               PROVE  IsMergeOf(rows'[j], {e \in Events : e.entity = j /\ e.id \in ledger'})
    BY DEF RowIsMergeOfLedger, Merged
  <2>1. rows' = saved \/ rows' = touchRunLiveness(saved, GroupRun(p), receivedAt[p])
    BY DEF SaveGroup
  <2>2. saved \in [Mergeable -> Rows]
    <3>1. ToRow(state[p], k \in Runs) \in Rows
      BY <1>0, ToRowType DEF TypeOK
    <3> QED BY <1>0, <3>1 DEF TypeOK
  <2> HIDE DEF saved
  <2>3. rows'[j] = saved[j] \/ rows'[j] = [saved[j] EXCEPT !.lastEventAt = receivedAt[p]]
    BY <1>1, <2>1, <2>2 DEF touchRunLiveness
  <2> DEFINE T == {e \in Events : e.entity = j /\ e.id \in ledger'}
  <2>4. saved[j] \in Rows /\ IsMergeOf(saved[j], T)
    BY <1>6
  <2> HIDE DEF T
  <2>5. IsMergeOf([saved[j] EXCEPT !.lastEventAt = receivedAt[p]], T)
    BY <2>4, MergeIgnoresLiveness
  <2>6. IsMergeOf(rows'[j], T)
    BY <2>3, <2>4, <2>5
  <2> QED BY <2>6 DEF T
<1>8. ASSUME NEW q \in Requests, pc'[q] = "folding" PROVE TransactionOK(q)'
  <2>1. q # p /\ TransactionOK(q)
    BY <1>8 DEF MergeInv, TransactionInv
  <2>2. GroupKey(q) # k
    BY <1>0, <2>1 DEF TransactionOK
  <2>3. Batch(q)' = Batch(q) /\ GroupKey(q)' = GroupKey(q)
    BY <1>8, <2>1 DEF Batch, GroupKey
  <2>4. Merged(GroupKey(q))' = Merged(GroupKey(q))
    BY <1>4, <2>2, <2>3 DEF Merged
  <2>5. lock'[GroupKey(q)] = lock[GroupKey(q)]
    BY <1>0, <2>2 DEF SaveGroup, TypeOK, EndTransaction
  <2>6. ledger' \cap Ids(q, GroupItems(q)) = ledger \cap Ids(q, GroupItems(q))
    <3> SUFFICES ASSUME NEW n \in fresh[p], n \in Ids(q, GroupItems(q)) PROVE FALSE
      BY <1>2
    <3>1. todo[q] # {} /\ pc[q] = "folding"
      BY <1>0, <1>8, <2>1 DEF ShapeInv, TodoInv
    <3>2. PICK i \in GroupItems(q) : n = Batch(q)[i].id
      BY DEF Ids
    <3>3. Batch(q)[i] \in Events /\ Batch(q)[i].entity = GroupKey(q)
      BY <1>0, <3>1, GroupFacts DEF GroupItems
    <3> QED BY <1>3, <2>2, <3>2, <3>3
  <2> QED BY <1>8, <2>1, <2>3, <2>4, <2>5, <2>6, OthersUntouched
<1> QED BY <1>7, <1>8 DEF MergeInv, TransactionInv

\* Every step keeps the invariant.
LEMMA MergeNext == MergeInv /\ [Next]_vars => MergeInv'
<1> SUFFICES ASSUME MergeInv, [Next]_vars PROVE MergeInv'
  OBVIOUS
<1>0. ShapeInv /\ TypeOK /\ ShapeInv'
  BY ShapeNext DEF MergeInv, ShapeInv
<1>1. CASE UNCHANGED vars
  BY <1>0, <1>1, QuietStep DEF vars, database, request, transaction
<1>2. CASE Tick
  BY <1>0, <1>2, QuietStep DEF Tick, database, request, transaction
<1>3. ASSUME NEW p \in Requests, Arrive(p) PROVE MergeInv'
  <2>1. rows' = rows /\ ledger' = ledger /\ lock' = lock
    BY <1>3 DEF Arrive, database
  <2>2. ASSUME NEW q \in Requests, pc'[q] = "folding"
        PROVE  /\ pc[q] = "folding"
               /\ todo'[q] = todo[q] /\ body'[q] = body[q] /\ items'[q] = items[q]
               /\ state'[q] = state[q] /\ seen'[q] = seen[q] /\ fresh'[q] = fresh[q]
    BY <1>0, <1>3, <2>2 DEF Arrive, transaction, TypeOK
  <2> QED BY <1>0, <2>1, <2>2, QuietStep
<1>4. ASSUME NEW p \in Requests, BeginGroup(p) PROVE MergeInv'
  BY <1>0, <1>4, BeginGroupKeeps
<1>5. ASSUME NEW p \in Requests, FoldEvent(p) PROVE MergeInv'
  BY <1>0, <1>5, FoldEventKeeps
<1>6. ASSUME NEW p \in Requests, CommitGroup(p) PROVE MergeInv'
  <2>1. /\ pc[p] = "folding" /\ SaveGroup(p) /\ pc'[p] # "folding"
        /\ \A q \in Requests : q # p /\ pc'[q] = "folding" =>
              /\ pc[q] = "folding"
              /\ todo'[q] = todo[q] /\ body'[q] = body[q] /\ items'[q] = items[q]
              /\ state'[q] = state[q] /\ seen'[q] = seen[q] /\ fresh'[q] = fresh[q]
    BY <1>0, <1>6 DEF CommitGroup, EndTransaction, TypeOK
  <2> QED BY <1>0, <2>1, SaveGroupKeeps
<1>7. ASSUME NEW p \in Requests, CommitUnacknowledged(p) PROVE MergeInv'
  <2>1. /\ pc[p] = "folding" /\ SaveGroup(p) /\ pc'[p] # "folding"
        /\ \A q \in Requests : q # p /\ pc'[q] = "folding" =>
              /\ pc[q] = "folding"
              /\ todo'[q] = todo[q] /\ body'[q] = body[q] /\ items'[q] = items[q]
              /\ state'[q] = state[q] /\ seen'[q] = seen[q] /\ fresh'[q] = fresh[q]
    BY <1>0, <1>7 DEF CommitUnacknowledged, EndTransaction, request, TypeOK
  <2> QED BY <1>0, <2>1, SaveGroupKeeps
<1>8. ASSUME NEW p \in Requests, PersistenceFailure(p) \/ Crash(p) PROVE MergeInv'
  <2>1. /\ \E v \in {"failed", "crashed"} : pc' = [pc EXCEPT ![p] = v]
        /\ ReleaseLocks(p)
        /\ EndTransaction(p)
        /\ UNCHANGED <<rows, ledger, request>>
    BY <1>8 DEF PersistenceFailure, Crash
  <2>2. ASSUME NEW q \in Requests, pc'[q] = "folding"
        PROVE  /\ pc[q] = "folding"
               /\ todo'[q] = todo[q] /\ body'[q] = body[q] /\ items'[q] = items[q]
               /\ state'[q] = state[q] /\ seen'[q] = seen[q] /\ fresh'[q] = fresh[q]
               /\ \A k \in Mergeable : lock[k] = q => lock'[k] = q
    BY <1>0, <2>1, <2>2 DEF EndTransaction, ReleaseLocks, request, TypeOK
  <2> QED BY <1>0, <2>1, <2>2, QuietStep
<1>9. ASSUME NEW p \in Requests,
             PersistEntityWrite(p) \/ FoldDropped(p) \/ FoldDroppedFails(p)
      PROVE  MergeInv'
  <2>1. UNCHANGED <<rows, ledger, lock, pc, body, todo, transaction>>
    BY <1>9 DEF PersistEntityWrite, FoldDropped, FoldDroppedFails, database
  <2> QED BY <1>0, <2>1, QuietStep DEF transaction
<1>10. ASSUME NEW p \in Requests, Respond(p) PROVE MergeInv'
  <2>1. UNCHANGED <<rows, ledger, lock, request, transaction>>
    BY <1>10 DEF Respond, database
  <2>2. \A q \in Requests : pc'[q] = "folding" => pc[q] = "folding"
    BY <1>0, <1>10 DEF Respond, TypeOK
  <2> QED BY <1>0, <2>1, <2>2, QuietStep DEF transaction, request
<1> QED
  BY <1>1, <1>2, <1>3, <1>4, <1>5, <1>6, <1>7, <1>8, <1>9, <1>10 DEF Next, Handle, Fail

(***************************************************************************)
(* Order independence of ingest: whatever the requests, their interleaving,*)
(* retries, failures and crashes, a persisted Run or Step row is the merge *)
(* of the set of events the ledger holds for it.                           *)
(***************************************************************************)
THEOREM OrderIndependence == Spec => []RowIsMergeOfLedger
<1>1. Init => MergeInv
  BY MergeInit
<1>2. MergeInv /\ [Next]_vars => MergeInv'
  BY MergeNext
<1>3. MergeInv => RowIsMergeOfLedger
  BY DEF MergeInv
<1> QED BY <1>1, <1>2, <1>3, PTL DEF Spec

-----------------------------------------------------------------------------

\* The ledger only grows: no step forgets that an event was ingested.
LEMMA LedgerGrows == [Next]_vars => ledger \subseteq ledger'
<1> SUFFICES ASSUME [Next]_vars PROVE ledger \subseteq ledger'
  OBVIOUS
<1>1. ASSUME NEW p \in Requests, CommitGroup(p) \/ CommitUnacknowledged(p)
      PROVE  ledger \subseteq ledger'
  BY <1>1 DEF CommitGroup, CommitUnacknowledged, SaveGroup
<1>2. ASSUME NEW p \in Requests,
             \/ Arrive(p) \/ BeginGroup(p) \/ FoldEvent(p) \/ PersistenceFailure(p)
             \/ PersistEntityWrite(p) \/ FoldDropped(p) \/ FoldDroppedFails(p)
             \/ Respond(p) \/ Crash(p)
      PROVE  ledger' = ledger
  BY <1>2 DEF Arrive, BeginGroup, FoldEvent, PersistenceFailure, PersistEntityWrite,
              FoldDropped, FoldDroppedFails, Respond, Crash, database
<1>3. Tick \/ UNCHANGED vars => ledger' = ledger
  BY DEF Tick, vars, database
<1> QED BY <1>1, <1>2, <1>3 DEF Next, Handle, Fail

(***************************************************************************)
(* No step reopens a Run or Step: its status is that of a set of events    *)
(* that only grows, and FAILED and terminality are preserved by growth.    *)
(***************************************************************************)
THEOREM TerminalIsForever == Spec => NeverReopened
<1> DEFINE Kept == \A k \in Mergeable :
         /\ rows[k].status \in TerminalStatuses => rows'[k].status \in TerminalStatuses
         /\ rows[k].status = "FAILED" => rows'[k].status = "FAILED"
         /\ rows[k].status # "ABSENT" => rows'[k].status # "ABSENT"
<1>1. Init => MergeInv
  BY MergeInit
<1>2. MergeInv /\ [Next]_vars => MergeInv'
  BY MergeNext
<1>3. MergeInv /\ MergeInv' /\ [Next]_vars => [Kept]_vars
  <2> SUFFICES ASSUME MergeInv, MergeInv', [Next]_vars, NEW k \in Mergeable
               PROVE  /\ rows[k].status \in TerminalStatuses => rows'[k].status \in TerminalStatuses
                      /\ rows[k].status = "FAILED" => rows'[k].status = "FAILED"
                      /\ rows[k].status # "ABSENT" => rows'[k].status # "ABSENT"
    OBVIOUS
  <2> DEFINE S == Merged(k)
             T == {e \in Events : e.entity = k /\ e.id \in ledger'}
  <2>1. S \subseteq T
    BY LedgerGrows DEF Merged
  <2>2. rows[k].status = StatusOf(S) /\ rows'[k].status = StatusOf(T)
    BY DEF MergeInv, RowIsMergeOfLedger, IsMergeOf, Merged
  <2>3. Completions(S) \subseteq Completions(T)
    BY <2>1 DEF Completions
  <2> HIDE DEF S, T
  <2> QED BY <2>1, <2>2, <2>3 DEF StatusOf, TerminalStatuses
<1>4. NeverReopened <=> [][Kept]_vars
  BY DEF NeverReopened
<1> QED BY <1>1, <1>2, <1>3, <1>4, PTL DEF Spec

-----------------------------------------------------------------------------
(***************************************************************************)
(* The inductive invariant behind the answers.  What a request has dealt   *)
(* with has its verdict and is stored.  An open transaction accepted each  *)
(* id once and none that the ledger holds, and while it accepted nothing   *)
(* the run it loaded has not moved back behind its state.                  *)
(***************************************************************************)
Answers(p) ==
    \A i \in DOMAIN Batch(p) :
        LET e == Batch(p)[i]
        IN /\ i \in writes[p] => classifyEvent(e) = "write"
           /\ classifyEvent(e) = "rejected" => results[p][i] = "REJECTED"
           /\ classifyEvent(e) = "merge" /\ i \notin todo[p] =>
                results[p][i] \in {"ACCEPTED", "DUPLICATE"} /\ e.id \in ledger
           /\ classifyEvent(e) = "write" /\ i \notin writes[p] =>
                /\ results[p][i] = "ACCEPTED"
                /\ IF e.type = "decision.outcome_attested"
                   THEN entityRows[e.entity].outcome # 0
                   ELSE entityRows[e.entity].recorded # 0

\* The events of its open group that p has folded.
Folded(p) == GroupItems(p) \ items[p]

FoldsOnce(p) ==
    /\ fresh[p] \cap ledger = {}
    /\ \A i \in Folded(p) : /\ results[p][i] \in {"ACCEPTED", "DUPLICATE"}
                            /\ Batch(p)[i].id \in seen[p]
                            /\ results[p][i] = "ACCEPTED" => Batch(p)[i].id \in fresh[p]
    /\ \A i, j \in Folded(p) :
         /\ results[p][i] = "ACCEPTED" /\ results[p][j] = "ACCEPTED"
         /\ Batch(p)[i].id = Batch(p)[j].id
         => i = j
    /\ fresh[p] = {} /\ GroupKey(p) \in Runs =>
         state[p].lastEventAt <= rows[GroupKey(p)].lastEventAt

\* The events of Runs and Steps that p has committed as new.
Taken(p) == {i \in Indices(Batch(p), "merge") : i \notin todo[p] /\ results[p][i] = "ACCEPTED"}

VerdictsGiven == \A p \in Requests : pc[p] # "idle" => Answers(p)

FoldedOnce == \A p \in Requests : pc[p] = "folding" => FoldsOnce(p)

TakenOnce ==
    \A p, q \in Requests : pc[p] # "idle" /\ pc[q] # "idle" =>
        \A i \in Taken(p), j \in Taken(q) :
            Batch(p)[i].id = Batch(q)[j].id => p = q /\ i = j

DoneWhenAnswered == \A p \in Requests : pc[p] = "answered" => todo[p] \cup writes[p] = {}

CreditedAreDone ==
    \A c \in credited :
        /\ pc[c[1]] # "idle" /\ todo[c[1]] = {}
        /\ body[c[1]].dropped # 0 /\ body[c[1]].deliveryId # NoDelivery =>
             <<c[2], body[c[1]].deliveryId>> \in deliveries

CreditedOnce ==
    \A c, d \in credited :
        /\ c[2] = d[2]
        /\ body[c[1]].dropped # 0
        /\ body[d[1]].dropped # 0
        /\ body[c[1]].deliveryId = body[d[1]].deliveryId
        /\ body[c[1]].deliveryId # NoDelivery
        => c = d

AnswerInv ==
    /\ MergeInv
    /\ VerdictsGiven /\ FoldedOnce /\ TakenOnce /\ DoneWhenAnswered
    /\ CreditedAreDone /\ CreditedOnce

\* The columns an upsert filled stay filled.
ColumnsKept ==
    \A k \in Entities :
        /\ entityRows[k].recorded # 0 => entityRows'[k].recorded # 0
        /\ entityRows[k].outcome # 0 => entityRows'[k].outcome # 0

\* An upsert writes the columns its event owns and leaves the others.
LEMMA UpsertKeeps ==
    ASSUME ShapeInv, NEW p \in Requests, PersistEntityWrite(p)
    PROVE  /\ ColumnsKept
           /\ Least(writes[p]) \in writes[p]
           /\ LET e == Batch(p)[Least(writes[p])]
              IN e.entity \in Entities =>
                   IF e.type = "decision.outcome_attested" THEN entityRows'[e.entity].outcome # 0
                                                          ELSE entityRows'[e.entity].recorded # 0
<1> DEFINE i == Least(writes[p])
           e == Batch(p)[i]
<1>0. TypeOK
  BY DEF ShapeInv
<1>1. i \in writes[p] /\ i \in DOMAIN Batch(p)
  BY <1>0, LeastIsMember DEF PersistEntityWrite, TypeOK
<1>2. e \in Events /\ e.id \in Nat \ {0}
  BY <1>0, <1>1, BatchOfEvents, EventsAssumption DEF TypeOK, Batch
<1>3. entityRows' = [entityRows EXCEPT ![e.entity] = writeEntityEvent(@, e)]
  BY DEF PersistEntityWrite
<1> HIDE DEF i, e
<1>4. entityRows \in [Entities -> [recorded : Nat, outcome : Nat]]
  BY <1>0 DEF TypeOK
<1>5. \A k \in Entities : k # e.entity => entityRows'[k] = entityRows[k]
  BY <1>3, <1>4
<1>6. ASSUME e.entity \in Entities
      PROVE  /\ entityRows[e.entity].recorded # 0 => entityRows'[e.entity].recorded # 0
             /\ entityRows[e.entity].outcome # 0 => entityRows'[e.entity].outcome # 0
             /\ IF e.type = "decision.outcome_attested" THEN entityRows'[e.entity].outcome # 0
                                                        ELSE entityRows'[e.entity].recorded # 0
  <2>1. /\ entityRows[e.entity] \in [recorded : Nat, outcome : Nat]
        /\ entityRows'[e.entity] = writeEntityEvent(entityRows[e.entity], e)
    BY <1>3, <1>4, <1>6
  <2> QED BY <1>2, <2>1 DEF writeEntityEvent
<1>7. ColumnsKept
  BY <1>5, <1>6 DEF ColumnsKept
<1> QED BY <1>1, <1>6, <1>7 DEF i, e

\* No other step writes a column of these tables.
LEMMA ColumnsStep == ShapeInv /\ [Next]_vars => ColumnsKept
<1> SUFFICES ASSUME ShapeInv, [Next]_vars PROVE ColumnsKept
  OBVIOUS
<1>1. ASSUME NEW p \in Requests, PersistEntityWrite(p) PROVE ColumnsKept
  BY <1>1, UpsertKeeps
<1>2. ASSUME NEW p \in Requests,
             \/ Arrive(p) \/ BeginGroup(p) \/ FoldEvent(p) \/ PersistenceFailure(p)
             \/ CommitGroup(p) \/ CommitUnacknowledged(p) \/ FoldDropped(p) \/ FoldDroppedFails(p)
             \/ Respond(p) \/ Crash(p)
      PROVE  entityRows' = entityRows
  BY <1>2 DEF Arrive, BeginGroup, FoldEvent, PersistenceFailure, CommitGroup, CommitUnacknowledged,
              FoldDropped, FoldDroppedFails, Respond, Crash, database
<1>3. Tick \/ UNCHANGED vars => entityRows' = entityRows
  BY DEF Tick, vars, database
<1>4. entityRows' = entityRows => ColumnsKept
  BY DEF ColumnsKept
<1> QED BY <1>1, <1>2, <1>3, <1>4 DEF Next, Handle, Fail

(***************************************************************************)
(* A decision's recording never blanks its outcome, nor an attestation the *)
(* recording, in whatever order and from whatever requests they arrive.    *)
(***************************************************************************)
THEOREM ColumnsStay == Spec => ColumnsNeverBlanked
<1>1. Init => ShapeInv
  BY ShapeInit
<1>2. ShapeInv /\ [Next]_vars => ShapeInv'
  BY ShapeNext
<1>3. ShapeInv /\ [Next]_vars => [ColumnsKept]_vars
  BY ColumnsStep
<1>4. ColumnsNeverBlanked <=> [][ColumnsKept]_vars
  BY DEF ColumnsNeverBlanked, ColumnsKept
<1> QED BY <1>1, <1>2, <1>3, <1>4, PTL DEF Spec

\* The initial state: no request has arrived.
LEMMA AnswerInit == Init => AnswerInv
<1> SUFFICES ASSUME Init PROVE AnswerInv
  OBVIOUS
<1>1. MergeInv
  BY MergeInit
<1>2. VerdictsGiven /\ FoldedOnce /\ TakenOnce /\ DoneWhenAnswered
  BY DEF Init, VerdictsGiven, FoldedOnce, TakenOnce, DoneWhenAnswered
<1>3. CreditedAreDone /\ CreditedOnce
  BY DEF Init, CreditedAreDone, CreditedOnce
<1> QED BY <1>1, <1>2, <1>3 DEF AnswerInv

-----------------------------------------------------------------------------
(* What a step of one request leaves alone. *)

\* The verdicts of a request stand while its work list does: the ledger and the
\* columns only fill up.
LEMMA AnswersStand ==
    ASSUME ShapeInv, NEW q \in Requests, Answers(q), ledger \subseteq ledger', ColumnsKept,
           body'[q] = body[q], todo'[q] = todo[q], writes'[q] = writes[q],
           \A i \in DOMAIN Batch(q) : i \notin todo[q] => results'[q][i] = results[q][i]
    PROVE  Answers(q)'
<1>1. Batch(q)' = Batch(q)
  BY DEF Batch
<1> SUFFICES ASSUME NEW i \in DOMAIN Batch(q)
             PROVE  LET e == Batch(q)[i]
                    IN /\ i \in writes[q] => classifyEvent(e) = "write"
                       /\ classifyEvent(e) = "rejected" => results'[q][i] = "REJECTED"
                       /\ classifyEvent(e) = "merge" /\ i \notin todo[q] =>
                            results'[q][i] \in {"ACCEPTED", "DUPLICATE"} /\ e.id \in ledger'
                       /\ classifyEvent(e) = "write" /\ i \notin writes[q] =>
                            /\ results'[q][i] = "ACCEPTED"
                            /\ IF e.type = "decision.outcome_attested"
                               THEN entityRows'[e.entity].outcome # 0
                               ELSE entityRows'[e.entity].recorded # 0
  BY <1>1 DEF Answers
<1> DEFINE e == Batch(q)[i]
<1>2. e \in Events
  BY BatchOfEvents DEF ShapeInv, TypeOK, Batch
<1>3. classifyEvent(e) # "merge" => i \notin todo[q]
  BY DEF ShapeInv, TodoInv, Indices
<1>4. classifyEvent(e) = "write" => e.entity \in Entities
  BY <1>2, EventsAssumption DEF classifyEvent
<1>5. /\ i \in writes[q] => classifyEvent(e) = "write"
      /\ classifyEvent(e) = "rejected" => results[q][i] = "REJECTED"
      /\ classifyEvent(e) = "merge" /\ i \notin todo[q] =>
           results[q][i] \in {"ACCEPTED", "DUPLICATE"} /\ e.id \in ledger
      /\ classifyEvent(e) = "write" /\ i \notin writes[q] =>
           /\ results[q][i] = "ACCEPTED"
           /\ IF e.type = "decision.outcome_attested"
              THEN entityRows[e.entity].outcome # 0
              ELSE entityRows[e.entity].recorded # 0
  BY DEF Answers
<1> HIDE DEF e
<1>6. i \notin todo[q] => results'[q][i] = results[q][i]
  OBVIOUS
<1>7. classifyEvent(e) \in {"rejected", "merge", "write"}
  BY DEF classifyEvent
<1>8. classifyEvent(e) = "rejected" => results'[q][i] = "REJECTED"
  BY <1>3, <1>5, <1>6
<1>9. classifyEvent(e) = "merge" /\ i \notin todo[q] =>
        results'[q][i] \in {"ACCEPTED", "DUPLICATE"} /\ e.id \in ledger'
  BY <1>5, <1>6
<1>10. classifyEvent(e) = "write" /\ i \notin writes[q] =>
         /\ results'[q][i] = "ACCEPTED"
         /\ IF e.type = "decision.outcome_attested"
            THEN entityRows'[e.entity].outcome # 0
            ELSE entityRows'[e.entity].recorded # 0
  BY <1>3, <1>4, <1>5, <1>6 DEF ColumnsKept
<1> QED BY <1>5, <1>8, <1>9, <1>10 DEF e

\* An open transaction that a step does not touch, and whose entity it does not
\* commit, stands.
LEMMA FoldsStand ==
    ASSUME NEW q \in Requests, FoldsOnce(q),
           body'[q] = body[q], todo'[q] = todo[q], items'[q] = items[q], results'[q] = results[q],
           seen'[q] = seen[q], fresh'[q] = fresh[q], state'[q] = state[q],
           fresh[q] \cap ledger' = {},
           GroupKey(q) \in Runs => /\ rows[GroupKey(q)].lastEventAt \in Nat
                                   /\ rows'[GroupKey(q)].lastEventAt \in Nat
                                   /\ state[q].lastEventAt \in Nat
                                   /\ rows[GroupKey(q)].lastEventAt <= rows'[GroupKey(q)].lastEventAt
    PROVE  FoldsOnce(q)'
<1>1. Batch(q)' = Batch(q)
  BY DEF Batch
<1>2. GroupKey(q)' = GroupKey(q) /\ Folded(q)' = Folded(q)
  BY <1>1 DEF GroupKey, GroupItems, Folded
<1>3. fresh[q] = {} /\ GroupKey(q) \in Runs =>
        state[q].lastEventAt <= rows'[GroupKey(q)].lastEventAt
  BY DEF FoldsOnce
<1> QED BY <1>1, <1>2, <1>3 DEF FoldsOnce

\* No event is taken twice after a step in which each request keeps what it took.
LEMMA TakenStand ==
    ASSUME TakenOnce,
           \A q \in Requests : pc'[q] # "idle" =>
              \/ Taken(q)' = {}
              \/ pc[q] # "idle" /\ Taken(q)' = Taken(q) /\ Batch(q)' = Batch(q)
    PROVE  TakenOnce'
BY DEF TakenOnce

\* What was credited stays accounted for while deliveries are only added and no
\* request gets new events to merge.
LEMMA CreditsStand ==
    ASSUME TypeOK, CreditedAreDone, CreditedOnce,
           credited' = credited, deliveries' = deliveries, body' = body,
           \A q \in Requests : pc[q] # "idle" =>
              pc'[q] # "idle" /\ (todo[q] = {} => todo'[q] = {})
    PROVE  CreditedAreDone' /\ CreditedOnce'
<1>1. \A c \in credited : c[1] \in Requests
  BY DEF TypeOK
<1>2. CreditedAreDone'
  BY <1>1 DEF CreditedAreDone
<1> QED BY <1>2 DEF CreditedOnce

\* A step that leaves the tables and every work list and verdict alone keeps what
\* was answered; it may end a transaction.
LEMMA QuietAnswers ==
    ASSUME AnswerInv, body' = body, todo' = todo, writes' = writes, results' = results,
           ledger' = ledger, rows' = rows, entityRows' = entityRows,
           \A q \in Requests : pc'[q] = "folding" =>
              /\ pc[q] = "folding"
              /\ items'[q] = items[q] /\ state'[q] = state[q]
              /\ seen'[q] = seen[q] /\ fresh'[q] = fresh[q],
           \A q \in Requests : pc'[q] # "idle" => pc[q] # "idle",
           \A q \in Requests : pc'[q] = "answered" =>
              pc[q] = "answered" \/ todo[q] \cup writes[q] = {}
    PROVE  VerdictsGiven' /\ FoldedOnce' /\ TakenOnce' /\ DoneWhenAnswered'
<1>0. ShapeInv /\ TypeOK /\ ColumnsKept
  BY DEF AnswerInv, MergeInv, ShapeInv, ColumnsKept
<1>1. VerdictsGiven'
  BY <1>0, AnswersStand DEF AnswerInv, VerdictsGiven
<1>2. ASSUME NEW q \in Requests, pc'[q] = "folding" PROVE FoldsOnce(q)'
  <2>1. FoldsOnce(q) /\ fresh[q] \cap ledger' = {}
    BY <1>2 DEF AnswerInv, FoldedOnce, FoldsOnce
  <2>2. GroupKey(q) \in Runs => rows[GroupKey(q)].lastEventAt \in Nat /\ state[q].lastEventAt \in Nat
    BY <1>0 DEF TypeOK, Mergeable, Rows, States
  <2> QED BY <1>2, <2>1, <2>2, FoldsStand
<1>3. \A q \in Requests : Batch(q)' = Batch(q) /\ Taken(q)' = Taken(q)
  BY DEF Batch, Taken, Indices
<1>4. TakenOnce'
  BY <1>3, TakenStand DEF AnswerInv
<1>5. DoneWhenAnswered'
  BY DEF AnswerInv, DoneWhenAnswered
<1> QED BY <1>1, <1>2, <1>4, <1>5 DEF FoldedOnce

\* Arriving: everything is still to do but the rejections, which are given.
LEMMA ArriveAnswers ==
    ASSUME AnswerInv, MergeInv', NEW p \in Requests, Arrive(p)
    PROVE  AnswerInv'
<1> DEFINE b == Batch(p)
<1>0. ShapeInv /\ TypeOK
  BY DEF AnswerInv, MergeInv, ShapeInv
<1>1. /\ body' = body /\ ledger' = ledger /\ rows' = rows /\ entityRows' = entityRows
      /\ credited' = credited /\ deliveries' = deliveries
      /\ items' = items /\ state' = state /\ seen' = seen /\ fresh' = fresh
      /\ pc[p] = "idle"
  BY DEF Arrive, database, transaction
<1>2. ASSUME NEW q \in Requests, q # p
      PROVE  /\ pc'[q] = pc[q] /\ todo'[q] = todo[q] /\ writes'[q] = writes[q]
             /\ results'[q] = results[q]
  BY <1>0, <1>2 DEF Arrive, TypeOK
<1>3. /\ pc'[p] = "working"
      /\ todo'[p] = Indices(b, "merge") /\ writes'[p] = Indices(b, "write")
      /\ results'[p] = [i \in DOMAIN b |-> IF classifyEvent(b[i]) = "rejected" THEN "REJECTED" ELSE "NONE"]
  BY <1>0 DEF Arrive, TypeOK
<1>4. \A q \in Requests : Batch(q)' = Batch(q)
  BY <1>1 DEF Batch
<1>5. VerdictsGiven'
  <2>1. Answers(p)'
    BY <1>3, <1>4 DEF Answers, Indices
  <2>2. ColumnsKept
    BY <1>1 DEF ColumnsKept
  <2>3. ASSUME NEW q \in Requests, q # p, pc'[q] # "idle" PROVE Answers(q)'
    BY <1>0, <1>1, <1>2, <2>2, <2>3, AnswersStand DEF AnswerInv, VerdictsGiven
  <2> QED BY <2>1, <2>3 DEF VerdictsGiven
<1>6. FoldedOnce'
  <2> SUFFICES ASSUME NEW q \in Requests, pc'[q] = "folding" PROVE FoldsOnce(q)'
    BY DEF FoldedOnce
  <2>1. q # p /\ pc[q] = "folding"
    BY <1>2, <1>3
  <2>2. FoldsOnce(q) /\ fresh[q] \cap ledger' = {}
    BY <1>1, <2>1 DEF AnswerInv, FoldedOnce, FoldsOnce
  <2>3. GroupKey(q) \in Runs => rows[GroupKey(q)].lastEventAt \in Nat /\ state[q].lastEventAt \in Nat
    BY <1>0 DEF TypeOK, Mergeable, Rows, States
  <2> QED BY <1>1, <1>2, <2>1, <2>2, <2>3, FoldsStand
<1>7. TakenOnce'
  <2>1. Taken(p)' = {}
    BY <1>3, <1>4 DEF Taken
  <2>2. \A q \in Requests : q # p => Taken(q)' = Taken(q)
    BY <1>2, <1>4 DEF Taken, Indices
  <2> QED BY <1>2, <1>4, <2>1, <2>2, TakenStand DEF AnswerInv
<1>8. DoneWhenAnswered'
  BY <1>2, <1>3 DEF AnswerInv, DoneWhenAnswered
<1>9. CreditedAreDone' /\ CreditedOnce'
  BY <1>0, <1>1, <1>2, CreditsStand DEF AnswerInv
<1> QED BY <1>5, <1>6, <1>7, <1>8, <1>9 DEF AnswerInv

\* A transaction begins: nothing is folded, and the state is the row it loaded.
LEMMA BeginGroupAnswers ==
    ASSUME AnswerInv, MergeInv', NEW p \in Requests, BeginGroup(p)
    PROVE  AnswerInv'
<1>0. ShapeInv /\ TypeOK /\ todo[p] # {}
  BY DEF AnswerInv, MergeInv, ShapeInv, BeginGroup
<1>1. /\ body' = body /\ ledger' = ledger /\ rows' = rows /\ entityRows' = entityRows
      /\ credited' = credited /\ deliveries' = deliveries
      /\ todo' = todo /\ writes' = writes /\ results' = results
      /\ pc[p] = "working"
  BY DEF BeginGroup, request
<1>2. ASSUME NEW q \in Requests, q # p
      PROVE  /\ pc'[q] = pc[q] /\ items'[q] = items[q] /\ state'[q] = state[q]
             /\ seen'[q] = seen[q] /\ fresh'[q] = fresh[q]
  BY <1>0, <1>2 DEF BeginGroup, TypeOK
<1>3. /\ pc'[p] = "folding" /\ items'[p] = GroupItems(p) /\ fresh'[p] = {}
      /\ state'[p] = ToState(rows[GroupKey(p)])
  BY <1>0 DEF BeginGroup, TypeOK
<1>4. \A q \in Requests : /\ Batch(q)' = Batch(q) /\ Taken(q)' = Taken(q)
                          /\ GroupKey(q)' = GroupKey(q) /\ GroupItems(q)' = GroupItems(q)
  BY <1>1 DEF Batch, Taken, Indices, GroupKey, GroupItems
<1>5. VerdictsGiven'
  <2>1. ColumnsKept
    BY <1>1 DEF ColumnsKept
  <2>2. ASSUME NEW q \in Requests, pc'[q] # "idle" PROVE Answers(q)'
    BY <1>0, <1>1, <1>2, <2>1, <2>2, AnswersStand DEF AnswerInv, VerdictsGiven
  <2> QED BY <2>2 DEF VerdictsGiven
<1>6. FoldsOnce(p)'
  <2>1. Folded(p)' = {}
    BY <1>3, <1>4 DEF Folded
  <2>2. GroupKey(p) \in Runs => state'[p].lastEventAt <= rows'[GroupKey(p)].lastEventAt
    BY <1>0, <1>1, <1>3 DEF ToState, TypeOK, Mergeable, Rows
  <2> QED BY <1>3, <1>4, <2>1, <2>2 DEF FoldsOnce
<1>7. ASSUME NEW q \in Requests, q # p, pc'[q] = "folding" PROVE FoldsOnce(q)'
  <2>1. pc[q] = "folding"
    BY <1>2, <1>7
  <2>2. FoldsOnce(q) /\ fresh[q] \cap ledger' = {}
    BY <1>1, <2>1 DEF AnswerInv, FoldedOnce, FoldsOnce
  <2>3. GroupKey(q) \in Runs => rows[GroupKey(q)].lastEventAt \in Nat /\ state[q].lastEventAt \in Nat
    BY <1>0 DEF TypeOK, Mergeable, Rows, States
  <2> QED BY <1>1, <1>2, <1>7, <2>1, <2>2, <2>3, FoldsStand
<1>8. TakenOnce'
  BY <1>1, <1>2, <1>4, TakenStand DEF AnswerInv
<1>9. DoneWhenAnswered'
  BY <1>1, <1>2, <1>3 DEF AnswerInv, DoneWhenAnswered
<1>10. CreditedAreDone' /\ CreditedOnce'
  BY <1>0, <1>1, <1>2, <1>3, CreditsStand DEF AnswerInv
<1> QED BY <1>5, <1>6, <1>7, <1>8, <1>9, <1>10 DEF AnswerInv, FoldedOnce

\* One round of the fold: an id that was not seen is accepted and becomes seen, so
\* it is accepted once, and what the ledger holds was seen when the row was loaded.
LEMMA FoldEventAnswers ==
    ASSUME AnswerInv, MergeInv', NEW p \in Requests, FoldEvent(p)
    PROVE  AnswerInv'
<1> DEFINE i == Least(items[p])
           e == Batch(p)[i]
<1>0. /\ ShapeInv /\ TypeOK /\ TodoInv /\ todo[p] # {} /\ pc[p] = "folding"
      /\ TransactionOK(p) /\ FoldsOnce(p)
  BY DEF AnswerInv, MergeInv, ShapeInv, TodoInv, TransactionInv, FoldedOnce, FoldEvent
<1>1. i \in items[p] /\ i \in GroupItems(p) /\ i \in todo[p] /\ i \in DOMAIN results[p]
  BY <1>0, LeastIsMember DEF FoldEvent, TypeOK, TransactionOK, GroupItems
<1>2. /\ body' = body /\ ledger' = ledger /\ rows' = rows /\ entityRows' = entityRows
      /\ credited' = credited /\ deliveries' = deliveries /\ pc' = pc
      /\ todo' = todo /\ writes' = writes
  BY DEF FoldEvent, database
<1>3. ASSUME NEW q \in Requests, q # p
      PROVE  /\ items'[q] = items[q] /\ state'[q] = state[q] /\ results'[q] = results[q]
             /\ seen'[q] = seen[q] /\ fresh'[q] = fresh[q]
  BY <1>0, <1>3 DEF FoldEvent, TypeOK
<1>4. /\ items'[p] = items[p] \ {i}
      /\ \A j \in DOMAIN Batch(p) : j # i => results'[p][j] = results[p][j]
      /\ e.id \in seen[p] => /\ results'[p][i] = "DUPLICATE"
                             /\ seen'[p] = seen[p] /\ fresh'[p] = fresh[p] /\ state'[p] = state[p]
      /\ e.id \notin seen[p] => /\ results'[p][i] = "ACCEPTED"
                                /\ seen'[p] = seen[p] \cup {e.id} /\ fresh'[p] = fresh[p] \cup {e.id}
  <2>1. /\ results \in [Requests -> Seq(Verdicts)] /\ items \in [Requests -> SUBSET Nat]
        /\ seen \in [Requests -> SUBSET Nat] /\ fresh \in [Requests -> SUBSET Nat]
        /\ DOMAIN results[p] = DOMAIN Batch(p)
    BY <1>0 DEF TypeOK
  <2>2. results'[p] = [results[p] EXCEPT ![i] = IF e.id \in seen[p] THEN "DUPLICATE" ELSE "ACCEPTED"]
    BY <2>1 DEF FoldEvent
  <2> QED BY <1>1, <2>1, <2>2 DEF FoldEvent
<1>5. \A q \in Requests : /\ Batch(q)' = Batch(q)
                          /\ GroupKey(q)' = GroupKey(q) /\ GroupItems(q)' = GroupItems(q)
  BY <1>2 DEF Batch, GroupKey, GroupItems
<1>6. VerdictsGiven'
  <2>1. ColumnsKept
    BY <1>2 DEF ColumnsKept
  <2>2. ASSUME NEW q \in Requests, pc'[q] # "idle" PROVE Answers(q)'
    <3>1. \A j \in DOMAIN Batch(q) : j \notin todo[q] => results'[q][j] = results[q][j]
      BY <1>1, <1>3, <1>4
    <3> QED BY <1>0, <1>2, <2>1, <2>2, <3>1, AnswersStand DEF AnswerInv, VerdictsGiven
  <2> QED BY <2>2 DEF VerdictsGiven
<1> HIDE DEF i, e
<1>7. FoldsOnce(p)'
  <2>1. Folded(p)' = Folded(p) \cup {i} /\ i \notin Folded(p)
    BY <1>1, <1>4, <1>5 DEF Folded
  <2>2. \A j \in Folded(p) : results'[p][j] = results[p][j] /\ j \in DOMAIN Batch(p)
    BY <1>0, <1>4, <2>1 DEF Folded, GroupItems, TypeOK
  <2>3. e.id \in Ids(p, GroupItems(p)) /\ e = Batch(p)[i]
    BY <1>1 DEF Ids, e
  <2>4. e.id \notin seen[p] => e.id \notin ledger
    BY <1>0, <2>3 DEF TransactionOK
  <2>5. fresh'[p] \cap ledger = {}
    BY <1>0, <1>4, <2>4 DEF FoldsOnce
  <2>6. \A j \in Folded(p)' : /\ results'[p][j] \in {"ACCEPTED", "DUPLICATE"}
                              /\ Batch(p)[j].id \in seen'[p]
                              /\ results'[p][j] = "ACCEPTED" => Batch(p)[j].id \in fresh'[p]
    BY <1>0, <1>4, <2>1, <2>2, <2>3 DEF FoldsOnce
  <2>7. ASSUME NEW j \in Folded(p), results'[p][i] = "ACCEPTED", Batch(p)[j].id = Batch(p)[i].id
        PROVE  FALSE
    BY <1>0, <1>4, <2>3, <2>7 DEF FoldsOnce
  <2>8. ASSUME NEW j \in Folded(p)', NEW k \in Folded(p)',
               results'[p][j] = "ACCEPTED", results'[p][k] = "ACCEPTED",
               Batch(p)[j].id = Batch(p)[k].id
        PROVE  j = k
    BY <1>0, <2>1, <2>2, <2>7, <2>8 DEF FoldsOnce
  <2>9. fresh'[p] = {} /\ GroupKey(p) \in Runs =>
          state'[p].lastEventAt <= rows'[GroupKey(p)].lastEventAt
    BY <1>0, <1>2, <1>4 DEF FoldsOnce
  <2> QED BY <1>2, <1>5, <2>5, <2>6, <2>8, <2>9 DEF FoldsOnce
<1>8. ASSUME NEW q \in Requests, q # p, pc'[q] = "folding" PROVE FoldsOnce(q)'
  <2>1. FoldsOnce(q) /\ fresh[q] \cap ledger' = {}
    BY <1>2, <1>8 DEF AnswerInv, FoldedOnce, FoldsOnce
  <2>2. GroupKey(q) \in Runs => rows[GroupKey(q)].lastEventAt \in Nat /\ state[q].lastEventAt \in Nat
    BY <1>0 DEF TypeOK, Mergeable, Rows, States
  <2> QED BY <1>2, <1>3, <1>8, <2>1, <2>2, FoldsStand
<1>9. TakenOnce'
  <2>1. \A q \in Requests : Taken(q)' = Taken(q)
    BY <1>1, <1>2, <1>3, <1>4, <1>5 DEF Taken, Indices
  <2> QED BY <1>2, <1>5, <2>1, TakenStand DEF AnswerInv
<1>10. DoneWhenAnswered'
  BY <1>2 DEF AnswerInv, DoneWhenAnswered
<1>11. CreditedAreDone' /\ CreditedOnce'
  BY <1>0, <1>2, CreditsStand DEF AnswerInv
<1> QED BY <1>6, <1>7, <1>8, <1>9, <1>10, <1>11 DEF AnswerInv, FoldedOnce

\* A commit of p does not touch the transactions that are open on other entities:
\* the ids it adds to the ledger are of its own entity, and it moves a run's
\* liveness forward only.
LEMMA CommitLeavesOthers ==
    ASSUME AnswerInv, NEW p \in Requests, pc[p] = "folding", SaveGroup(p),
           NEW q \in Requests, q # p, pc[q] = "folding"
    PROVE  /\ fresh[q] \cap ledger' = {}
           /\ GroupKey(q) \in Runs => /\ rows[GroupKey(q)].lastEventAt \in Nat
                                      /\ rows'[GroupKey(q)].lastEventAt \in Nat
                                      /\ state[q].lastEventAt \in Nat
                                      /\ rows[GroupKey(q)].lastEventAt <= rows'[GroupKey(q)].lastEventAt
<1> DEFINE k == GroupKey(p)
           g == GroupKey(q)
           saved == IF state[p].status = "ABSENT" THEN rows
                    ELSE [rows EXCEPT ![k] = ToRow(state[p], k \in Runs)]
<1>0. /\ ShapeInv /\ TypeOK /\ todo[p] # {} /\ todo[q] # {}
      /\ TransactionOK(p) /\ TransactionOK(q) /\ FoldsOnce(q)
  BY DEF AnswerInv, MergeInv, ShapeInv, TodoInv, TransactionInv, FoldedOnce
<1>1. k # g /\ k \in Mergeable /\ g \in Mergeable /\ GroupRun(p) \in Mergeable
  BY <1>0, GroupFacts DEF TransactionOK, Mergeable
<1>2. fresh[q] \cap ledger' = {}
  <2> SUFFICES ASSUME NEW n \in fresh[q], n \in fresh[p] PROVE FALSE
    BY <1>0 DEF SaveGroup, FoldsOnce
  <2>1. n \in Ids(p, GroupItems(p)) /\ n \in Ids(q, GroupItems(q))
    BY <1>0 DEF TransactionOK
  <2>2. PICK j \in GroupItems(q) : n = Batch(q)[j].id
    BY <2>1 DEF Ids
  <2>3. Batch(q)[j] \in Events /\ Batch(q)[j].entity = g
    BY <1>0, GroupFacts DEF GroupItems
  <2>4. Batch(q)[j].entity = k
    BY <1>0, <2>1, <2>2, <2>3, EventsOfEntity
  <2> QED BY <1>1, <2>3, <2>4
<1>3. saved \in [Mergeable -> Rows] /\ saved[g] = rows[g]
  <2>1. ToRow(state[p], k \in Runs) \in Rows
    BY <1>0, ToRowType DEF TypeOK
  <2> QED BY <1>0, <1>1, <2>1 DEF TypeOK
<1>4. rows' = saved \/ rows' = touchRunLiveness(saved, GroupRun(p), receivedAt[p])
  BY DEF SaveGroup
<1>5. receivedAt[p] \in Nat /\ rows[g].lastEventAt \in Nat /\ state[q].lastEventAt \in Nat
  BY <1>0, <1>1 DEF TypeOK, Rows, States
<1> HIDE DEF saved, g
<1>6. \/ rows'[g] = saved[g]
      \/ saved[g].lastEventAt < receivedAt[p] /\ rows'[g] = [saved[g] EXCEPT !.lastEventAt = receivedAt[p]]
  BY <1>1, <1>3, <1>4 DEF touchRunLiveness
<1>7. [rows[g] EXCEPT !.lastEventAt = receivedAt[p]].lastEventAt = receivedAt[p]
  <2>1. rows[g] \in Rows
    BY <1>0, <1>1 DEF TypeOK
  <2> QED BY <2>1 DEF Rows
<1>8. rows'[g].lastEventAt \in Nat /\ rows[g].lastEventAt <= rows'[g].lastEventAt
  <2>1. saved[g] = rows[g]
    BY <1>3
  <2>2. CASE rows'[g] = saved[g]
    BY <1>5, <2>1, <2>2
  <2>3. CASE /\ saved[g].lastEventAt < receivedAt[p]
             /\ rows'[g] = [saved[g] EXCEPT !.lastEventAt = receivedAt[p]]
    <3>1. rows[g].lastEventAt < receivedAt[p] /\ rows'[g].lastEventAt = receivedAt[p]
      BY <1>7, <2>1, <2>3
    <3> QED BY <1>5, <3>1
  <2> QED BY <1>6, <2>2, <2>3
<1> QED BY <1>2, <1>5, <1>8 DEF g

\* A commit whose acknowledgement is lost: the ledger has the group, the request
\* fails with its work list as it was, and gives no verdict.
LEMMA UnacknowledgedAnswers ==
    ASSUME AnswerInv, MergeInv', NEW p \in Requests, CommitUnacknowledged(p)
    PROVE  AnswerInv'
<1>0. ShapeInv /\ TypeOK
  BY DEF AnswerInv, MergeInv, ShapeInv
<1>1. /\ body' = body /\ todo' = todo /\ writes' = writes /\ results' = results
      /\ entityRows' = entityRows /\ credited' = credited /\ deliveries' = deliveries
      /\ pc[p] = "folding" /\ SaveGroup(p) /\ ledger \subseteq ledger'
  BY DEF CommitUnacknowledged, request, SaveGroup
<1>2. ASSUME NEW q \in Requests, q # p
      PROVE  /\ pc'[q] = pc[q] /\ items'[q] = items[q] /\ state'[q] = state[q]
             /\ seen'[q] = seen[q] /\ fresh'[q] = fresh[q]
  BY <1>0, <1>2 DEF CommitUnacknowledged, EndTransaction, TypeOK
<1>3. pc'[p] = "failed"
  BY <1>0 DEF CommitUnacknowledged, TypeOK
<1>4. \A q \in Requests : Batch(q)' = Batch(q) /\ Taken(q)' = Taken(q)
  BY <1>1 DEF Batch, Taken, Indices
<1>5. VerdictsGiven'
  <2>1. ColumnsKept
    BY <1>1 DEF ColumnsKept
  <2>2. ASSUME NEW q \in Requests, pc'[q] # "idle" PROVE Answers(q)'
    BY <1>0, <1>1, <1>2, <2>1, <2>2, AnswersStand DEF AnswerInv, VerdictsGiven
  <2> QED BY <2>2 DEF VerdictsGiven
<1>6. FoldedOnce'
  <2> SUFFICES ASSUME NEW q \in Requests, pc'[q] = "folding" PROVE FoldsOnce(q)'
    BY DEF FoldedOnce
  <2>1. q # p /\ pc[q] = "folding"
    BY <1>2, <1>3
  <2>2. FoldsOnce(q)
    BY <2>1 DEF AnswerInv, FoldedOnce
  <2> QED BY <1>1, <1>2, <2>1, <2>2, CommitLeavesOthers, FoldsStand
<1>7. TakenOnce'
  BY <1>1, <1>2, <1>4, TakenStand DEF AnswerInv
<1>8. DoneWhenAnswered'
  BY <1>1, <1>2, <1>3 DEF AnswerInv, DoneWhenAnswered
<1>9. CreditedAreDone' /\ CreditedOnce'
  BY <1>0, <1>1, <1>2, <1>3, CreditsStand DEF AnswerInv
<1> QED BY <1>5, <1>6, <1>7, <1>8, <1>9 DEF AnswerInv

\* A commit: the verdicts of the group stand, its events are in the ledger, and what
\* it takes as new nobody has taken before.
LEMMA CommitAnswers ==
    ASSUME AnswerInv, MergeInv', NEW p \in Requests, CommitGroup(p)
    PROVE  AnswerInv'
<1> DEFINE G == GroupItems(p)
<1>0. /\ ShapeInv /\ TypeOK /\ TodoInv /\ pc[p] = "folding" /\ items[p] = {} /\ todo[p] # {}
      /\ TransactionOK(p) /\ FoldsOnce(p)
  BY DEF AnswerInv, MergeInv, ShapeInv, TodoInv, TransactionInv, FoldedOnce, CommitGroup
<1>1. /\ body' = body /\ writes' = writes /\ results' = results
      /\ entityRows' = entityRows /\ credited' = credited /\ deliveries' = deliveries
      /\ SaveGroup(p) /\ ledger' = ledger \cup fresh[p]
  BY DEF CommitGroup, SaveGroup
<1>2. ASSUME NEW q \in Requests, q # p
      PROVE  /\ pc'[q] = pc[q] /\ todo'[q] = todo[q] /\ items'[q] = items[q] /\ state'[q] = state[q]
             /\ seen'[q] = seen[q] /\ fresh'[q] = fresh[q]
  BY <1>0, <1>2 DEF CommitGroup, EndTransaction, TypeOK
<1>3. pc'[p] = "working" /\ todo'[p] = todo[p] \ G
  BY <1>0 DEF CommitGroup, TypeOK
<1>4. \A q \in Requests : Batch(q)' = Batch(q)
  BY <1>1 DEF Batch
<1>5. G = Folded(p) /\ G \subseteq todo[p]
  BY <1>0 DEF Folded, GroupItems
<1>6. \A i \in G : /\ results[p][i] \in {"ACCEPTED", "DUPLICATE"}
                   /\ Batch(p)[i].id \in ledger'
                   /\ results[p][i] = "ACCEPTED" => Batch(p)[i].id \in fresh[p]
  BY <1>0, <1>1, <1>5 DEF FoldsOnce, TransactionOK
<1> HIDE DEF G
<1>7. VerdictsGiven'
  <2>1. ColumnsKept
    BY <1>1 DEF ColumnsKept
  <2>2. ASSUME NEW q \in Requests, q # p, pc'[q] # "idle" PROVE Answers(q)'
    BY <1>0, <1>1, <1>2, <2>1, <2>2, AnswersStand DEF AnswerInv, VerdictsGiven
  <2>3. Answers(p)
    BY <1>0 DEF AnswerInv, VerdictsGiven
  <2>4. \A i \in G : classifyEvent(Batch(p)[i]) = "merge"
    BY <1>0, <1>5 DEF TodoInv, Indices
  <2>5. Answers(p)'
    BY <1>1, <1>3, <1>4, <1>6, <2>3, <2>4 DEF Answers
  <2> QED BY <2>2, <2>5 DEF VerdictsGiven
<1>8. FoldedOnce'
  <2> SUFFICES ASSUME NEW q \in Requests, pc'[q] = "folding" PROVE FoldsOnce(q)'
    BY DEF FoldedOnce
  <2>1. q # p /\ pc[q] = "folding"
    BY <1>2, <1>3
  <2>2. FoldsOnce(q)
    BY <2>1 DEF AnswerInv, FoldedOnce
  <2> QED BY <1>0, <1>1, <1>2, <2>1, <2>2, CommitLeavesOthers, FoldsStand
<1>9. TakenOnce'
  <2>1. Taken(p)' \subseteq Taken(p) \cup {i \in G : results[p][i] = "ACCEPTED"}
    BY <1>1, <1>3, <1>4 DEF Taken, Indices
  <2>2. \A q \in Requests : q # p => Taken(q)' = Taken(q)
    BY <1>1, <1>2, <1>4 DEF Taken, Indices
  <2>3. ASSUME NEW q \in Requests, pc[q] # "idle", NEW j \in Taken(q) PROVE Batch(q)[j].id \in ledger
    BY <2>3 DEF AnswerInv, VerdictsGiven, Answers, Taken, Indices
  <2>4. ASSUME NEW i \in G, results[p][i] = "ACCEPTED" PROVE Batch(p)[i].id \notin ledger
    BY <1>0, <1>6, <2>4 DEF FoldsOnce
  <2>5. ASSUME NEW i \in G, NEW j \in G, results[p][i] = "ACCEPTED", results[p][j] = "ACCEPTED",
               Batch(p)[i].id = Batch(p)[j].id
        PROVE  i = j
    BY <1>0, <1>5, <2>5 DEF FoldsOnce
  <2> DEFINE New(q) == IF q = p THEN {i \in G : results[p][i] = "ACCEPTED"} ELSE {}
  <2>6. \A q \in Requests : pc'[q] # "idle" => pc[q] # "idle" /\ Taken(q)' \subseteq Taken(q) \cup New(q)
    BY <1>0, <1>2, <2>1, <2>2
  <2> SUFFICES ASSUME NEW q \in Requests, NEW r \in Requests, pc[q] # "idle", pc[r] # "idle",
                      NEW i \in Taken(q) \cup New(q), NEW j \in Taken(r) \cup New(r),
                      Batch(q)[i].id = Batch(r)[j].id
               PROVE  q = r /\ i = j
    BY <1>4, <2>6 DEF TakenOnce
  <2>7. CASE i \in Taken(q) /\ j \in Taken(r)
    BY <2>7 DEF AnswerInv, TakenOnce
  <2>8. CASE i \in Taken(q) /\ j \in New(r)
    BY <2>3, <2>4, <2>8
  <2>9. CASE i \in New(q) /\ j \in Taken(r)
    BY <2>3, <2>4, <2>9
  <2>10. CASE i \in New(q) /\ j \in New(r)
    BY <2>5, <2>10
  <2> QED BY <2>7, <2>8, <2>9, <2>10
<1>10. DoneWhenAnswered'
  BY <1>1, <1>2, <1>3 DEF AnswerInv, DoneWhenAnswered
<1>11. CreditedAreDone' /\ CreditedOnce'
  BY <1>0, <1>1, <1>2, <1>3, CreditsStand DEF AnswerInv
<1> QED BY <1>7, <1>8, <1>9, <1>10, <1>11 DEF AnswerInv

\* An upsert: its event is accepted and the columns it owns are filled.
LEMMA UpsertAnswers ==
    ASSUME AnswerInv, MergeInv', NEW p \in Requests, PersistEntityWrite(p)
    PROVE  AnswerInv'
<1> DEFINE i == Least(writes[p])
           e == Batch(p)[i]
<1>0. ShapeInv /\ TypeOK
  BY DEF AnswerInv, MergeInv, ShapeInv
<1>1. /\ body' = body /\ ledger' = ledger /\ rows' = rows /\ todo' = todo /\ pc' = pc
      /\ credited' = credited /\ deliveries' = deliveries
      /\ items' = items /\ state' = state /\ seen' = seen /\ fresh' = fresh
      /\ pc[p] = "working" /\ todo[p] = {}
  BY DEF PersistEntityWrite, transaction
<1>2. ASSUME NEW q \in Requests, q # p
      PROVE  writes'[q] = writes[q] /\ results'[q] = results[q]
  BY <1>0, <1>2 DEF PersistEntityWrite, TypeOK
<1>3. /\ i \in writes[p] /\ i \in DOMAIN Batch(p) /\ ColumnsKept
      /\ e.entity \in Entities =>
           IF e.type = "decision.outcome_attested" THEN entityRows'[e.entity].outcome # 0
                                                  ELSE entityRows'[e.entity].recorded # 0
  BY <1>0, UpsertKeeps DEF TypeOK
<1>4. /\ writes'[p] = writes[p] \ {i}
      /\ results'[p][i] = "ACCEPTED"
      /\ \A j \in DOMAIN Batch(p) : j # i => results'[p][j] = results[p][j]
  <2>1. /\ results \in [Requests -> Seq(Verdicts)] /\ writes \in [Requests -> SUBSET Nat]
        /\ DOMAIN results[p] = DOMAIN Batch(p)
    BY <1>0 DEF TypeOK
  <2>2. results'[p] = [results[p] EXCEPT ![i] = "ACCEPTED"]
    BY <2>1 DEF PersistEntityWrite
  <2> QED BY <1>3, <2>1, <2>2 DEF PersistEntityWrite
<1>5. Answers(p) /\ classifyEvent(e) = "write" /\ e.entity \in Entities
  <2>1. Answers(p)
    BY <1>1 DEF AnswerInv, VerdictsGiven
  <2>2. e \in Events
    BY <1>0, <1>3, BatchOfEvents DEF TypeOK, Batch
  <2> QED BY <1>3, <2>1, <2>2, EventsAssumption DEF Answers, classifyEvent
<1>6. \A q \in Requests : /\ Batch(q)' = Batch(q)
                          /\ GroupKey(q)' = GroupKey(q) /\ GroupItems(q)' = GroupItems(q)
  BY <1>1 DEF Batch, GroupKey, GroupItems
<1>7. VerdictsGiven'
  <2>1. ASSUME NEW q \in Requests, q # p, pc'[q] # "idle" PROVE Answers(q)'
    BY <1>0, <1>1, <1>2, <1>3, <2>1, AnswersStand DEF AnswerInv, VerdictsGiven
  <2>2. Answers(p)'
    <3> SUFFICES ASSUME NEW j \in DOMAIN Batch(p)
                 PROVE  LET f == Batch(p)[j]
                        IN /\ j \in writes'[p] => classifyEvent(f) = "write"
                           /\ classifyEvent(f) = "rejected" => results'[p][j] = "REJECTED"
                           /\ classifyEvent(f) = "merge" =>
                                results'[p][j] \in {"ACCEPTED", "DUPLICATE"} /\ f.id \in ledger
                           /\ classifyEvent(f) = "write" /\ j \notin writes'[p] =>
                                /\ results'[p][j] = "ACCEPTED"
                                /\ IF f.type = "decision.outcome_attested"
                                   THEN entityRows'[f.entity].outcome # 0
                                   ELSE entityRows'[f.entity].recorded # 0
      BY <1>1, <1>6 DEF Answers
    <3>1. CASE j = i
      BY <1>3, <1>4, <1>5, <3>1
    <3>2. CASE j # i
      <4> DEFINE f == Batch(p)[j]
      <4>1. f \in Events
        BY <1>0, BatchOfEvents DEF TypeOK, Batch
      <4>2. classifyEvent(f) = "write" => f.entity \in Entities
        BY <4>1, EventsAssumption DEF classifyEvent
      <4>3. /\ j \in writes[p] => classifyEvent(f) = "write"
            /\ classifyEvent(f) = "rejected" => results[p][j] = "REJECTED"
            /\ classifyEvent(f) = "merge" =>
                 results[p][j] \in {"ACCEPTED", "DUPLICATE"} /\ f.id \in ledger
            /\ classifyEvent(f) = "write" /\ j \notin writes[p] =>
                 /\ results[p][j] = "ACCEPTED"
                 /\ IF f.type = "decision.outcome_attested"
                    THEN entityRows[f.entity].outcome # 0
                    ELSE entityRows[f.entity].recorded # 0
        BY <1>1, <1>5 DEF Answers
      <4> HIDE DEF f
      <4>4. results'[p][j] = results[p][j] /\ (j \in writes'[p] <=> j \in writes[p])
        BY <1>4, <3>2
      <4>5. classifyEvent(f) = "write" /\ j \notin writes[p] =>
              IF f.type = "decision.outcome_attested"
              THEN entityRows'[f.entity].outcome # 0
              ELSE entityRows'[f.entity].recorded # 0
        BY <1>3, <4>2, <4>3 DEF ColumnsKept
      <4> QED BY <4>3, <4>4, <4>5 DEF f
    <3> QED BY <3>1, <3>2
  <2> QED BY <2>1, <2>2 DEF VerdictsGiven
<1>8. FoldedOnce'
  <2> SUFFICES ASSUME NEW q \in Requests, pc'[q] = "folding" PROVE FoldsOnce(q)'
    BY DEF FoldedOnce
  <2>1. q # p /\ pc[q] = "folding"
    BY <1>1
  <2>2. FoldsOnce(q) /\ fresh[q] \cap ledger' = {}
    BY <1>1, <2>1 DEF AnswerInv, FoldedOnce, FoldsOnce
  <2>3. GroupKey(q) \in Runs => rows[GroupKey(q)].lastEventAt \in Nat /\ state[q].lastEventAt \in Nat
    BY <1>0 DEF TypeOK, Mergeable, Rows, States
  <2> QED BY <1>1, <1>2, <2>1, <2>2, <2>3, FoldsStand
<1>9. TakenOnce'
  <2>1. \A j \in Indices(Batch(p), "merge") : results'[p][j] = results[p][j]
    BY <1>4, <1>5 DEF Indices
  <2>2. \A q \in Requests : Taken(q)' = Taken(q)
    BY <1>1, <1>2, <1>6, <2>1 DEF Taken
  <2> QED BY <1>1, <1>6, <2>2, TakenStand DEF AnswerInv
<1>10. DoneWhenAnswered'
  BY <1>1, <1>2 DEF AnswerInv, DoneWhenAnswered
<1>11. CreditedAreDone' /\ CreditedOnce'
  BY <1>0, <1>1, CreditsStand DEF AnswerInv
<1> QED BY <1>7, <1>8, <1>9, <1>10, <1>11 DEF AnswerInv

\* A drop report is added to a run: by a request that has stored its events, and
\* for a delivery id that the run has not been credited with.
LEMMA CreditAnswers ==
    ASSUME AnswerInv, MergeInv', NEW p \in Requests, FoldDropped(p)
    PROVE  AnswerInv'
<1>0. ShapeInv /\ TypeOK
  BY DEF AnswerInv, MergeInv, ShapeInv
<1>1. /\ body' = body /\ ledger' = ledger /\ rows' = rows /\ entityRows' = entityRows
      /\ todo' = todo /\ writes' = writes /\ results' = results /\ pc' = pc
      /\ items' = items /\ state' = state /\ seen' = seen /\ fresh' = fresh
      /\ pc[p] = "working" /\ todo[p] = {}
  BY DEF FoldDropped, transaction
<1>2. VerdictsGiven' /\ FoldedOnce' /\ TakenOnce' /\ DoneWhenAnswered'
  BY <1>1, QuietAnswers
<1>3. PICK r \in Runs : incrementDroppedCount(p, r)
  BY <1>0 DEF FoldDropped, TypeOK
<1> DEFINE d == body[p].deliveryId
<1>4. CASE credited' = credited /\ deliveries' = deliveries
  BY <1>0, <1>1, <1>2, <1>4, CreditsStand DEF AnswerInv
<1>5. CASE ~(credited' = credited /\ deliveries' = deliveries)
  <2>1. /\ ~(d # NoDelivery /\ body[p].dropped # 0 /\ <<r, d>> \in deliveries)
        /\ deliveries' = IF d = NoDelivery \/ body[p].dropped = 0 THEN deliveries
                         ELSE deliveries \cup {<<r, d>>}
        /\ credited' \subseteq credited \cup {<<p, r>>}
    BY <1>3, <1>5 DEF incrementDroppedCount
  <2>2. \A c \in credited : c[1] \in Requests
    BY <1>0 DEF TypeOK
  <2>3. CreditedAreDone'
    <3> SUFFICES ASSUME NEW c \in credited'
                 PROVE  /\ pc[c[1]] # "idle" /\ todo[c[1]] = {}
                        /\ body[c[1]].dropped # 0 /\ body[c[1]].deliveryId # NoDelivery =>
                             <<c[2], body[c[1]].deliveryId>> \in deliveries'
      BY <1>1 DEF CreditedAreDone
    <3>1. CASE c \in credited
      BY <2>1, <3>1 DEF AnswerInv, CreditedAreDone
    <3>2. CASE c = <<p, r>>
      BY <1>1, <2>1, <3>2
    <3> QED BY <2>1, <3>1, <3>2
  <2>4. CreditedOnce'
    <3>1. ASSUME NEW c \in credited, c[2] = r, body[c[1]].dropped # 0,
                 body[c[1]].deliveryId = d, d # NoDelivery, body[p].dropped # 0
          PROVE  FALSE
      BY <2>1, <3>1 DEF AnswerInv, CreditedAreDone
    <3>2. <<p, r>>[1] = p /\ <<p, r>>[2] = r
      OBVIOUS
    <3> SUFFICES ASSUME NEW c \in credited \cup {<<p, r>>}, NEW f \in credited \cup {<<p, r>>},
                        c[2] = f[2], body[c[1]].dropped # 0, body[f[1]].dropped # 0,
                        body[c[1]].deliveryId = body[f[1]].deliveryId,
                        body[c[1]].deliveryId # NoDelivery
                 PROVE  c = f
      BY <1>1, <2>1 DEF CreditedOnce
    <3>3. CASE c \in credited /\ f \in credited
      BY <3>3 DEF AnswerInv, CreditedOnce
    <3>4. CASE c \in credited /\ f = <<p, r>>
      BY <3>1, <3>2, <3>4
    <3>5. CASE c = <<p, r>> /\ f \in credited
      BY <3>1, <3>2, <3>5
    <3> QED BY <3>3, <3>4, <3>5
  <2> QED BY <1>2, <2>3, <2>4 DEF AnswerInv
<1> QED BY <1>4, <1>5

\* Every step keeps the invariant.
LEMMA AnswerNext == AnswerInv /\ [Next]_vars => AnswerInv'
<1> SUFFICES ASSUME AnswerInv, [Next]_vars PROVE AnswerInv'
  OBVIOUS
<1>0. MergeInv' /\ TypeOK
  BY MergeNext DEF AnswerInv, MergeInv, ShapeInv
<1>1. CASE UNCHANGED vars \/ Tick
  <2>1. UNCHANGED <<database, pc, request, transaction>>
    BY <1>1 DEF vars, Tick
  <2>2. VerdictsGiven' /\ FoldedOnce' /\ TakenOnce' /\ DoneWhenAnswered'
    BY <2>1, QuietAnswers DEF database, request, transaction
  <2>3. CreditedAreDone' /\ CreditedOnce'
    BY <1>0, <2>1, CreditsStand DEF AnswerInv, database, request
  <2> QED BY <1>0, <2>2, <2>3 DEF AnswerInv
<1>2. ASSUME NEW p \in Requests, Arrive(p) PROVE AnswerInv'
  BY <1>0, <1>2, ArriveAnswers
<1>3. ASSUME NEW p \in Requests, BeginGroup(p) PROVE AnswerInv'
  BY <1>0, <1>3, BeginGroupAnswers
<1>4. ASSUME NEW p \in Requests, FoldEvent(p) PROVE AnswerInv'
  BY <1>0, <1>4, FoldEventAnswers
<1>5. ASSUME NEW p \in Requests, CommitGroup(p) PROVE AnswerInv'
  BY <1>0, <1>5, CommitAnswers
<1>6. ASSUME NEW p \in Requests, CommitUnacknowledged(p) PROVE AnswerInv'
  BY <1>0, <1>6, UnacknowledgedAnswers
<1>7. ASSUME NEW p \in Requests, PersistEntityWrite(p) PROVE AnswerInv'
  BY <1>0, <1>7, UpsertAnswers
<1>8. ASSUME NEW p \in Requests, FoldDropped(p) PROVE AnswerInv'
  BY <1>0, <1>8, CreditAnswers
<1>9. ASSUME NEW p \in Requests, PersistenceFailure(p) \/ Crash(p) PROVE AnswerInv'
  <2>1. /\ \E v \in {"failed", "crashed"} : pc' = [pc EXCEPT ![p] = v]
        /\ pc[p] # "idle"
        /\ EndTransaction(p)
        /\ UNCHANGED <<rows, ledger, entityRows, deliveries, credited, request>>
    BY <1>9 DEF PersistenceFailure, Crash
  <2>2. \A q \in Requests : pc'[q] = "folding" =>
          /\ pc[q] = "folding"
          /\ items'[q] = items[q] /\ state'[q] = state[q]
          /\ seen'[q] = seen[q] /\ fresh'[q] = fresh[q]
    BY <1>0, <2>1 DEF EndTransaction, TypeOK
  <2>3. \A q \in Requests : /\ pc'[q] # "idle" <=> pc[q] # "idle"
                            /\ pc'[q] = "answered" => pc[q] = "answered"
    BY <1>0, <2>1 DEF TypeOK
  <2>4. VerdictsGiven' /\ FoldedOnce' /\ TakenOnce' /\ DoneWhenAnswered'
    BY <2>1, <2>2, <2>3, QuietAnswers DEF request
  <2>5. CreditedAreDone' /\ CreditedOnce'
    BY <1>0, <2>1, <2>3, CreditsStand DEF AnswerInv, request
  <2> QED BY <1>0, <2>4, <2>5 DEF AnswerInv
<1>10. ASSUME NEW p \in Requests, FoldDroppedFails(p) PROVE AnswerInv'
  <2>1. UNCHANGED <<database, pc, body, todo, writes, results, transaction>>
    BY <1>10 DEF FoldDroppedFails
  <2>2. VerdictsGiven' /\ FoldedOnce' /\ TakenOnce' /\ DoneWhenAnswered'
    BY <2>1, QuietAnswers DEF database, transaction
  <2>3. CreditedAreDone' /\ CreditedOnce'
    BY <1>0, <2>1, CreditsStand DEF AnswerInv, database
  <2> QED BY <1>0, <2>2, <2>3 DEF AnswerInv
<1>11. ASSUME NEW p \in Requests, Respond(p) PROVE AnswerInv'
  <2>1. /\ UNCHANGED <<database, request, transaction>>
        /\ pc[p] = "working" /\ todo[p] \cup writes[p] = {}
        /\ pc' = [pc EXCEPT ![p] = "answered"]
    BY <1>11 DEF Respond
  <2>2. \A q \in Requests : /\ pc'[q] = "folding" => pc[q] = "folding"
                            /\ pc'[q] # "idle" <=> pc[q] # "idle"
                            /\ pc'[q] = "answered" => pc[q] = "answered" \/ todo[q] \cup writes[q] = {}
    BY <1>0, <2>1 DEF TypeOK
  <2>3. VerdictsGiven' /\ FoldedOnce' /\ TakenOnce' /\ DoneWhenAnswered'
    BY <2>1, <2>2, QuietAnswers DEF database, request, transaction
  <2>4. CreditedAreDone' /\ CreditedOnce'
    BY <1>0, <2>1, <2>2, CreditsStand DEF AnswerInv, database, request
  <2> QED BY <1>0, <2>3, <2>4 DEF AnswerInv
<1> QED
  BY <1>1, <1>2, <1>3, <1>4, <1>5, <1>6, <1>7, <1>8, <1>9, <1>10, <1>11 DEF Next, Handle, Fail

\* The inductive invariant of the answers holds in every behaviour.
LEMMA AnswersInvariant == Spec => []AnswerInv
<1>1. Init => AnswerInv
  BY AnswerInit
<1>2. AnswerInv /\ [Next]_vars => AnswerInv'
  BY AnswerNext
<1> QED BY <1>1, <1>2, PTL DEF Spec

(***************************************************************************)
(* No event of a Run or Step is answered ACCEPTED twice, by any requests,  *)
(* however they race, fail and are retried.                                *)
(***************************************************************************)
THEOREM AcceptedAtMostOnce == Spec => []AcceptedOnce
<1>1. AnswerInv => AcceptedOnce
  <2> SUFFICES ASSUME AnswerInv, NEW p \in Requests, NEW q \in Requests,
                      pc[p] = "answered", pc[q] = "answered",
                      NEW i \in DOMAIN Batch(p), NEW j \in DOMAIN Batch(q),
                      Batch(p)[i].entity \in Mergeable, Batch(p)[i].id = Batch(q)[j].id,
                      results[p][i] = "ACCEPTED", results[q][j] = "ACCEPTED"
               PROVE  p = q /\ i = j
    BY DEF AcceptedOnce
  <2>1. TypeOK /\ Answers(p) /\ Answers(q) /\ todo[p] = {} /\ todo[q] = {}
    BY DEF AnswerInv, MergeInv, ShapeInv, VerdictsGiven, DoneWhenAnswered
  <2>2. Batch(p)[i] \in Events /\ Batch(q)[j] \in Events
    BY <2>1, BatchOfEvents DEF TypeOK, Batch
  <2>3. Batch(q)[j] = Batch(p)[i]
    BY <2>2, EventsAssumption
  <2>4. classifyEvent(Batch(p)[i]) # "rejected"
    BY <2>1 DEF Answers
  <2>5. classifyEvent(Batch(p)[i]) = "merge" /\ classifyEvent(Batch(q)[j]) = "merge"
    BY <2>3, <2>4 DEF classifyEvent
  <2>6. i \in Taken(p) /\ j \in Taken(q)
    BY <2>1, <2>5 DEF Taken, Indices
  <2> QED BY <2>6 DEF AnswerInv, TakenOnce
<1> QED BY <1>1, AnswersInvariant, PTL

(***************************************************************************)
(* A 200 answer means what it says: every event of the batch is rejected   *)
(* for a defect of its own, or is in the ledger or in its columns.         *)
(***************************************************************************)
THEOREM AnswerMeansStored == Spec => []AnsweredMeansStored
<1>1. AnswerInv => AnsweredMeansStored
  <2> SUFFICES ASSUME AnswerInv, NEW p \in Requests, pc[p] = "answered", NEW i \in DOMAIN Batch(p)
               PROVE  LET e == Batch(p)[i]
                      IN \/ results[p][i] = "REJECTED" /\ e.defect # "none"
                         \/ results[p][i] \in {"ACCEPTED", "DUPLICATE"} /\ e.id \in ledger
                         \/ /\ results[p][i] = "ACCEPTED"
                            /\ e.entity \in Entities
                            /\ IF e.type = "decision.outcome_attested"
                               THEN entityRows[e.entity].outcome # 0
                               ELSE entityRows[e.entity].recorded # 0
    BY DEF AnsweredMeansStored
  <2> DEFINE e == Batch(p)[i]
  <2>1. TypeOK /\ Answers(p) /\ todo[p] = {} /\ writes[p] = {}
    BY DEF AnswerInv, MergeInv, ShapeInv, VerdictsGiven, DoneWhenAnswered
  <2>2. e \in Events
    BY <2>1, BatchOfEvents DEF TypeOK, Batch
  <2>3. CASE classifyEvent(e) = "rejected"
    BY <2>1, <2>3 DEF Answers, classifyEvent
  <2>4. CASE classifyEvent(e) = "merge"
    BY <2>1, <2>4 DEF Answers
  <2>5. CASE classifyEvent(e) = "write"
    <3>1. e.entity \in Entities
      BY <2>2, <2>5, EventsAssumption DEF classifyEvent
    <3> QED BY <2>1, <2>5, <3>1 DEF Answers
  <2> QED BY <2>3, <2>4, <2>5 DEF classifyEvent
<1> QED BY <1>1, AnswersInvariant, PTL

(***************************************************************************)
(* A drop report reaches a run once per delivery id, over every retry of   *)
(* its batch, and never before the events it came with.                    *)
(***************************************************************************)
THEOREM DropsCredited == Spec => []DropsCreditedOnceAfterStoring
<1>1. AnswerInv => DropsCreditedOnceAfterStoring
  <2> SUFFICES ASSUME AnswerInv PROVE DropsCreditedOnceAfterStoring
    OBVIOUS
  <2>1. ASSUME NEW c \in credited, NEW i \in DOMAIN Batch(c[1]),
               Batch(c[1])[i].defect = "none", Batch(c[1])[i].entity \in Mergeable
        PROVE  Batch(c[1])[i].id \in ledger
    <3>1. c[1] \in Requests
      BY DEF AnswerInv, MergeInv, ShapeInv, TypeOK
    <3>2. pc[c[1]] # "idle" /\ todo[c[1]] = {}
      BY DEF AnswerInv, CreditedAreDone
    <3>3. Answers(c[1])
      BY <3>1, <3>2 DEF AnswerInv, VerdictsGiven
    <3>4. classifyEvent(Batch(c[1])[i]) = "merge"
      BY <2>1 DEF classifyEvent
    <3> QED BY <3>2, <3>3, <3>4 DEF Answers
  <2> QED BY <2>1 DEF AnswerInv, CreditedOnce, DropsCreditedOnceAfterStoring
<1> QED BY <1>1, AnswersInvariant, PTL

\* A run's lastEventAt moves forward only in a commit that adds to the ledger.
LiveOnNew == \A r \in Runs : rows'[r].lastEventAt > rows[r].lastEventAt => ledger' # ledger

\* A commit that adds nothing to the ledger moves no run's liveness forward.
LEMMA CommitLiveness ==
    ASSUME AnswerInv, NEW p \in Requests, pc[p] = "folding", SaveGroup(p)
    PROVE  LiveOnNew
<1> DEFINE k == GroupKey(p)
           saved == IF state[p].status = "ABSENT" THEN rows
                    ELSE [rows EXCEPT ![k] = ToRow(state[p], k \in Runs)]
<1>0. ShapeInv /\ TypeOK /\ todo[p] # {} /\ FoldsOnce(p)
  BY DEF AnswerInv, MergeInv, ShapeInv, TodoInv, FoldedOnce
<1>1. k \in Mergeable
  BY <1>0, GroupFacts
<1>2. ledger' = ledger \cup fresh[p]
  BY DEF SaveGroup
<1>3. CASE fresh[p] # {}
  <2>1. ledger' # ledger
    BY <1>0, <1>2, <1>3 DEF FoldsOnce
  <2> QED BY <2>1 DEF LiveOnNew
<1>4. CASE fresh[p] = {}
  <2>1. rows' = saved
    BY <1>4 DEF SaveGroup, TouchesRun
  <2>2. ASSUME NEW r \in Runs PROVE ~(rows'[r].lastEventAt > rows[r].lastEventAt)
    <3>1. r \in Mergeable /\ rows[r].lastEventAt \in Nat /\ state[p].lastEventAt \in Nat
      BY <1>0 DEF TypeOK, Mergeable, Rows, States
    <3>2. CASE rows'[r] = rows[r]
      BY <3>1, <3>2
    <3>3. CASE r = k /\ rows'[r] = ToRow(state[p], k \in Runs)
      <4>1. rows'[r].lastEventAt = state[p].lastEventAt
        BY <3>3 DEF ToRow
      <4>2. state[p].lastEventAt <= rows[r].lastEventAt
        BY <1>0, <1>4, <3>3 DEF FoldsOnce
      <4> QED BY <3>1, <4>1, <4>2
    <3>4. rows'[r] = rows[r] \/ (r = k /\ rows'[r] = ToRow(state[p], k \in Runs))
      BY <1>0, <1>1, <2>1, <3>1 DEF TypeOK
    <3> QED BY <3>2, <3>3, <3>4
  <2> QED BY <2>2 DEF LiveOnNew
<1> QED BY <1>3, <1>4

(***************************************************************************)
(* Replaying a batch, or failing after its commit and replaying it, does   *)
(* not make a dead run look alive.                                         *)
(***************************************************************************)
THEOREM ReplayKeepsLiveness == Spec => ReplayIsNotLiveness
<1>1. AnswerInv /\ [Next]_vars => [LiveOnNew]_vars
  <2> SUFFICES ASSUME AnswerInv, [Next]_vars PROVE LiveOnNew
    OBVIOUS
  <2>1. ASSUME NEW p \in Requests, CommitGroup(p) \/ CommitUnacknowledged(p)
        PROVE  LiveOnNew
    BY <2>1, CommitLiveness DEF CommitGroup, CommitUnacknowledged
  <2>2. ASSUME NEW p \in Requests,
               \/ Arrive(p) \/ BeginGroup(p) \/ FoldEvent(p) \/ PersistenceFailure(p)
               \/ PersistEntityWrite(p) \/ FoldDropped(p) \/ FoldDroppedFails(p)
               \/ Respond(p) \/ Crash(p)
        PROVE  rows' = rows
    BY <2>2 DEF Arrive, BeginGroup, FoldEvent, PersistenceFailure, PersistEntityWrite,
                FoldDropped, FoldDroppedFails, Respond, Crash, database
  <2>3. Tick \/ UNCHANGED vars => rows' = rows
    BY DEF Tick, vars, database
  <2>4. ASSUME rows' = rows PROVE LiveOnNew
    <3>1. \A r \in Runs : rows[r].lastEventAt \in Nat
      BY DEF AnswerInv, MergeInv, ShapeInv, TypeOK, Mergeable, Rows
    <3> QED BY <2>4, <3>1 DEF LiveOnNew
  <2> QED BY <2>1, <2>2, <2>3, <2>4 DEF Next, Handle, Fail
<1>2. ReplayIsNotLiveness <=> [][LiveOnNew]_vars
  BY DEF ReplayIsNotLiveness, LiveOnNew
<1> QED BY <1>1, <1>2, AnswersInvariant, PTL DEF Spec
=============================================================================
