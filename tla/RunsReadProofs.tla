--------------------------- MODULE RunsReadProofs ---------------------------
(***************************************************************************)
(* Proofs about the read side (RunsRead.tla), for every set of runs, every *)
(* page size and every history of writes between the queries of a request: *)
(* a walk through the list misses no run, STALE means silence, and a run's *)
(* page and summary are those of the run.                                  *)
(***************************************************************************)
EXTENDS RunsRead, FiniteSetTheorems, SequenceTheorems, TLAPS

-----------------------------------------------------------------------------
(* The inductive invariant *)

Typed ==
    /\ clock \in 0..MaxClock
    /\ Stored \subseteq Runs /\ runs \in [Stored -> RunRecord]
    /\ children \subseteq Children
    /\ ingest \in [Runs -> 0..MaxClock \cup {null}]
    /\ loaded \in [Runs -> [receivedAt : 0..MaxClock, lastEventAt : 0..MaxClock] \cup {null}]
    /\ events \in [Runs -> SUBSET (0..MaxClock)]
    /\ request.kind \in {"none", "list", "find", "collect", "summary", "metrics"}
    /\ page.kind \in {"blank", "list", "run", "not-found", "failure"}

\* How many runs the list shows before r.
Position(r) == Cardinality({s \in Stored : RunListOrder(s, r)})

\* The runs of a walk that no page has shown lie at or behind the page asked for, and
\* behind the page answered, which says that there is more.
WalkInv ==
    /\ walk \in [start : SUBSET Stored, shown : SUBSET Runs]
    /\ Waiting("list") =>
         /\ request = [kind |-> "list", offset |-> request.offset, now |-> request.now]
         /\ request.offset \in Nat /\ request.now \in 0..MaxClock
         /\ \A r \in walk.start \ walk.shown : Position(r) >= request.offset
    /\ page.kind = "list" =>
         /\ page.offset \in Nat
         /\ \A r \in walk.start \ walk.shown : page.hasMore /\ Position(r) >= page.offset + Limit

\* What lastEventAt says was received: also what a run group is about to save.
LivenessInv ==
    /\ \A r \in Stored : runs[r].lastEventAt \in events[r]
    /\ \A r \in Runs : loaded[r] # null => loaded[r].lastEventAt \in events[r] \cup {loaded[r].receivedAt}

RowsOf(r) == {c \in children : c.run = r}

\* A listing of the rows of one kind: all there were, none there are not, in order.
Listing(s, kind, before, rows) ==
    /\ \A c \in before : c.kind = kind => \E i \in DOMAIN s : s[i].kind = kind /\ s[i].id = c.id
    /\ \A i \in DOMAIN s : \E c \in rows : s[i].kind = kind /\ s[i].id = c.id
    /\ \A i, j \in DOMAIN s : i < j => s[i].at <= s[j].at /\ (s[i].at = s[j].at => s[i].id < s[j].id)

\* A drop count read earlier.
Credited(dropped, now) == dropped # null => now # null /\ dropped <= now

\* The calls counted: all there were, none there are not.
Counted(S, kind, before, rows) == {c \in before : c.kind = kind} \subseteq S /\ S \subseteq rows

Detailed(req) ==
    /\ req.run \in Stored
    /\ req.view.id = req.run
    /\ req.before \subseteq RowsOf(req.run)
    /\ DOMAIN req.answered \subseteq Kinds
    /\ \A k \in DOMAIN req.answered : Listing(req.answered[k], k, req.before, OfRun(req.run, k))

\* What each kind of request carries.
RequestInv ==
    /\ Waiting("find") =>
         /\ request = [kind |-> "find", run |-> request.run, now |-> request.now,
                       before |-> request.before]
         /\ request.run \in Runs /\ request.before \subseteq RowsOf(request.run)
    /\ Waiting("collect") =>
         /\ request = [kind |-> "collect", run |-> request.run, before |-> request.before,
                       view |-> request.view, answered |-> request.answered]
         /\ Detailed(request)
    /\ Waiting("summary") =>
         /\ request = [kind |-> "summary", run |-> request.run, before |-> request.before,
                       view |-> request.view, answered |-> request.answered]
         /\ Detailed(request) /\ DOMAIN request.answered = Kinds
    /\ Waiting("metrics") =>
         /\ request = [kind |-> "metrics", run |-> request.run, before |-> request.before,
                       view |-> request.view, answered |-> request.answered,
                       dropped |-> request.dropped, metrics |-> request.metrics]
         /\ Detailed(request) /\ DOMAIN request.answered = Kinds
         /\ request.dropped \in 0..MaxDropped \cup {null}
         /\ Credited(request.dropped, runs[request.run].dropped)
         /\ DOMAIN request.metrics \subseteq {"modelCalls", "toolCalls"}
         /\ \A k \in DOMAIN request.metrics :
              Counted(request.metrics[k], k, request.before, OfRun(request.run, k))

\* The run page, and the sets of calls its summary was counted from.
PageInv ==
    page.kind = "run" =>
      /\ page.view.id \in Stored
      /\ page.before \subseteq RowsOf(page.view.id)
      /\ \A k \in Kinds : Listing(page.collections[k], k, page.before, OfRun(page.view.id, k))
      /\ page.dropped \in 0..MaxDropped \cup {null} /\ Credited(page.dropped, runs[page.view.id].dropped)
      /\ "summary" \in DOMAIN page =>
           \E mc, tc \in SUBSET Children :
                       /\ Counted(mc, "modelCalls", page.before, OfRun(page.view.id, "modelCalls"))
                       /\ Counted(tc, "toolCalls", page.before, OfRun(page.view.id, "toolCalls"))
                       /\ page.summary = aggregateRunSummary(mc, tc, page.summary.droppedTelemetryEventCount)

IInv == Typed /\ WalkInv /\ LivenessInv /\ RequestInv /\ PageInv

-----------------------------------------------------------------------------
(* Lists *)

\* Min and Max of two numbers.
LEMMA Extremes ==
    ASSUME NEW a \in Int, NEW b \in Int
    PROVE  /\ Min({a, b}) \in {a, b} /\ Min({a, b}) <= a /\ Min({a, b}) <= b
           /\ Max({a, b}) \in {a, b} /\ Max({a, b}) >= a /\ Max({a, b}) >= b
<1>1. \E x \in {a, b} : \A y \in {a, b} : x <= y  OBVIOUS
<1>2. \E x \in {a, b} : \A y \in {a, b} : x >= y  OBVIOUS
<1>3. Min({a, b}) \in {a, b} /\ \A y \in {a, b} : Min({a, b}) <= y  BY <1>1 DEF Min
<1>4. Max({a, b}) \in {a, b} /\ \A y \in {a, b} : Max({a, b}) >= y  BY <1>2 DEF Max
<1> QED  BY <1>3, <1>4

\* A listing of a finite set names each member once.
LEMMA EachOnce ==
    ASSUME NEW S, IsFiniteSet(S), NEW s \in SetToSeqs(S)
    PROVE  /\ Cardinality(S) \in Nat /\ Len(s) = Cardinality(S) /\ s \in Seq(S)
           /\ \A i, j \in 1..Len(s) : i # j => s[i] # s[j]
           /\ \A x \in S : \E i \in 1..Len(s) : s[i] = x
<1> DEFINE n == Cardinality(S)
<1>1. n \in Nat  BY FS_CardinalityType
<1>2. s \in [1..n -> S] /\ \A i, j \in 1..n : i # j => s[i] # s[j]  BY DEF SetToSeqs
<1>3. s \in Seq(S) /\ Len(s) = n
  <2> HIDE DEF n
  <2> QED  BY <1>1, <1>2
<1>4. s \in Surjection(1..n, S)
  <2>1. s \in Injection(1..n, S)  BY <1>2 DEF Injection, IsInjective
  <2>2. IsFiniteSet(1..n) /\ Cardinality(1..n) = n
    <3>1. 0 \in Int /\ 1 \in Int /\ n \in Int  BY <1>1
    <3>2. IsFiniteSet(1..n) /\ Cardinality(1..n) = IF 1 > n THEN 0 ELSE n - 1 + 1
      BY <3>1, FS_Interval
    <3> HIDE DEF n
    <3> QED  BY <1>1, <3>2
  <2> QED  BY <2>1, <2>2, FS_Injection
<1>5. \A x \in S : \E i \in 1..n : s[i] = x  BY <1>4 DEF Surjection
<1> QED  BY <1>1, <1>2, <1>3, <1>5

\* The list order leaves no ties.
LEMMA ListOrderTotal ==
    ASSUME Typed, NEW r \in Stored, NEW t \in Stored
    PROVE  ~RunListOrder(r, r) /\ (r # t => RunListOrder(r, t) \/ RunListOrder(t, r))
<1>1. r \in Int /\ t \in Int
  <2>1. r \in Runs /\ t \in Runs  BY DEF Typed
  <2> QED  BY <2>1, RunsAssumption
<1>2. runs[r] \in RunRecord /\ runs[t] \in RunRecord  BY DEF Typed
<1>3. runs[r].receivedAt \in Int /\ runs[t].receivedAt \in Int  BY <1>2,
                                                                     BoundsAssumption DEF RunRecord
<1> QED  BY <1>1, <1>3 DEF RunListOrder

\* The place of a run in the list is its position.
LEMMA PlaceIsPosition ==
    ASSUME Typed, NEW s \in Listings(Stored, RunListOrder)
    PROVE  /\ Len(s) \in Nat /\ s \in Seq(Stored) /\ IsFiniteSet(Stored)
           /\ \A r \in Stored : \E k \in 1..Len(s) : s[k] = r /\ Position(r) = k - 1
<1>1. IsFiniteSet(Stored)  BY RunsAssumption, FS_Subset DEF Typed
<1>2. s \in SetToSeqs(Stored) /\ \A i, j \in DOMAIN s : i < j => ~RunListOrder(s[j], s[i])
  BY DEF Listings
<1>3. /\ Len(s) \in Nat /\ s \in Seq(Stored)
      /\ \A i, j \in 1..Len(s) : i # j => s[i] # s[j]
      /\ \A x \in Stored : \E i \in 1..Len(s) : s[i] = x
  BY <1>1, <1>2, EachOnce
<1>4. \A i \in 1..Len(s) : s[i] \in Stored  BY <1>3
<1>5. \A i, j \in 1..Len(s) : i < j => ~RunListOrder(s[j], s[i])
  <2>1. DOMAIN s = 1..Len(s)  BY <1>3
  <2> QED  BY <1>2, <2>1
<1>6. ASSUME NEW r \in Stored PROVE \E k \in 1..Len(s) : s[k] = r /\ Position(r) = k - 1
  <2>1. PICK k \in 1..Len(s) : s[k] = r  BY <1>3
  <2> DEFINE B == {x \in Stored : RunListOrder(x, r)}
             f == [i \in 1..(k - 1) |-> s[i]]
  <2>2. \A i \in 1..Len(s) : RunListOrder(s[i], s[k]) <=> i < k
    <3>1. ASSUME NEW i \in 1..Len(s), i < k PROVE RunListOrder(s[i], s[k])
      <4>1. ~RunListOrder(s[k], s[i])  BY <1>5, <3>1
      <4>2. s[i] # s[k]  BY <1>3, <3>1
      <4> QED  BY <1>4, <4>1, <4>2, ListOrderTotal
    <3>2. ASSUME NEW i \in 1..Len(s), k < i PROVE ~RunListOrder(s[i], s[k])
      BY <1>5, <3>2
    <3>3. ~RunListOrder(s[k], s[k])  BY <1>4, ListOrderTotal
    <3>4. \A i \in 1..Len(s) : i < k \/ i = k \/ k < i  BY <1>3
    <3> QED  BY <3>1, <3>2, <3>3, <3>4
  <2>3. f \in Bijection(1..(k - 1), B)
    <3>1. \A i \in 1..(k - 1) : i \in 1..Len(s) /\ i < k  BY <1>3
    <3>2. f \in [1..(k - 1) -> B]  BY <1>4, <2>1, <2>2, <3>1
    <3>3. \A i, j \in 1..(k - 1) : f[i] = f[j] => i = j  BY <1>3, <3>1
    <3>4. \A x \in B : \E i \in 1..(k - 1) : f[i] = x
      <4>1. SUFFICES ASSUME NEW x \in B PROVE \E i \in 1..(k - 1) : f[i] = x  OBVIOUS
      <4>2. PICK i \in 1..Len(s) : s[i] = x  BY <1>3
      <4>3. i < k  BY <2>1, <2>2, <4>2
      <4>4. i \in 1..(k - 1)  BY <1>3, <4>3
      <4> QED  BY <4>2, <4>4
    <3> HIDE DEF f, B
    <3> QED  BY <3>2, <3>3, <3>4 DEF Bijection, Injection, IsInjective, Surjection
  <2>4. IsFiniteSet(1..(k - 1)) /\ Cardinality(1..(k - 1)) = k - 1
    <3>1. 1 \in Int /\ k - 1 \in Int /\ k >= 1  BY <1>3
    <3>2. IsFiniteSet(1..(k - 1)) /\ Cardinality(1..(k - 1)) = IF 1 > k - 1 THEN 0 ELSE (k - 1) - 1 + 1
      BY <3>1, FS_Interval
    <3>3. CASE 1 > k - 1  BY <3>1, <3>2, <3>3
    <3>4. CASE ~(1 > k - 1)  BY <3>1, <3>2, <3>4
    <3> QED  BY <3>3, <3>4
  <2>5. Cardinality(B) = k - 1
    <3> HIDE DEF f, B
    <3>1. ExistsBijection(1..(k - 1), B)  BY <2>3 DEF ExistsBijection
    <3> QED  BY <2>4, <3>1, FS_Bijection
  <2> QED  BY <2>1, <2>5 DEF Position
<1> QED  BY <1>1, <1>3, <1>6

\* Runs are added and their columns change; none is removed and none changes its place.
RunsGrow ==
    /\ Stored \subseteq Stored' /\ children \subseteq children'
    /\ \A r \in Stored : /\ runs'[r].receivedAt = runs[r].receivedAt
                         /\ runs[r].dropped # null =>
                              runs'[r].dropped # null /\ runs[r].dropped <= runs'[r].dropped

\* The position of a run only grows.
LEMMA PositionsGrow ==
    ASSUME Typed, Typed', RunsGrow, NEW r \in Stored
    PROVE  Position(r) \in Nat /\ Position(r)' \in Nat /\ Position(r)' >= Position(r)
<1> DEFINE A == {s \in Stored : RunListOrder(s, r)}
           B == {s \in Stored' : RunListOrder(s, r)'}
<1>1. IsFiniteSet(Stored')  BY RunsAssumption, FS_Subset DEF Typed
<1>2. IsFiniteSet(B)
  <2>1. B \in SUBSET Stored'  OBVIOUS
  <2> HIDE DEF B
  <2> QED  BY <1>1, <2>1, FS_Subset
<1>3. A \subseteq B  BY DEF RunsGrow, RunListOrder
<1>4. Position(r) = Cardinality(A) /\ Position(r)' = Cardinality(B)  BY DEF Position
<1> HIDE DEF A, B
<1>5. Cardinality(A) <= Cardinality(B) /\ IsFiniteSet(A)  BY <1>2, <1>3, FS_Subset
<1>6. Cardinality(A) \in Nat /\ Cardinality(B) \in Nat  BY <1>2, <1>5, FS_CardinalityType
<1> QED  BY <1>4, <1>5, <1>6

-----------------------------------------------------------------------------
(* What a write leaves true for the reader *)

\* What is true of the rows of a run stays true of more rows.
LEMMA Grown ==
    ASSUME NEW rows, NEW more, rows \subseteq more
    PROVE  /\ \A s, kind, before : Listing(s, kind, before, rows) => Listing(s, kind, before, more)
           /\ \A S, kind, before : Counted(S, kind, before, rows) => Counted(S, kind, before, more)
BY DEF Listing, Counted

\* Rows are never deleted.
LEMMA RowsGrow ==
    ASSUME children \subseteq children'
    PROVE  \A r : RowsOf(r) \subseteq RowsOf(r)' /\ \A k : OfRun(r, k) \subseteq OfRun(r, k)'
BY DEF RowsOf, OfRun

\* Drop counts are numbers, so the order on them is transitive.
LEMMA CreditGrows ==
    ASSUME Typed, Typed', RunsGrow, NEW r \in Stored, NEW dropped \in 0..MaxDropped \cup {null},
           Credited(dropped, runs[r].dropped)
    PROVE  Credited(dropped, runs'[r].dropped)
<1>1. runs[r].dropped \in 0..MaxDropped \cup {null} /\ runs'[r].dropped \in 0..MaxDropped \cup {null}
  <2>1. runs[r] \in RunRecord /\ runs'[r] \in RunRecord  BY DEF Typed, RunsGrow
  <2> QED  BY <2>1 DEF RunRecord
<1>2. CASE dropped # null
  <2>1. runs[r].dropped # null /\ dropped <= runs[r].dropped  BY <1>2 DEF Credited
  <2>2. runs'[r].dropped # null /\ runs[r].dropped <= runs'[r].dropped  BY <2>1 DEF RunsGrow
  <2>3. /\ dropped \in 0..MaxDropped /\ runs[r].dropped \in 0..MaxDropped
        /\ runs'[r].dropped \in 0..MaxDropped
    BY <1>1, <1>2, <2>1, <2>2
  <2>4. dropped <= runs'[r].dropped  BY <2>1, <2>2, <2>3, BoundsAssumption
  <2> QED  BY <2>2, <2>4 DEF Credited
<1> QED  BY <1>2 DEF Credited

\* A write cannot move a run of the walk that was not shown in front of the reader.
LEMMA GrowthKeepsWalk ==
    ASSUME Typed, Typed', WalkInv, RunsGrow, UNCHANGED <<request, page, walk>>
    PROVE  WalkInv'
<1>1. /\ walk' = walk /\ request' = request /\ page' = page
      /\ walk \in [start : SUBSET Stored, shown : SUBSET Runs]
  BY DEF WalkInv
<1>2. walk' \in [start : SUBSET Stored', shown : SUBSET Runs]  BY <1>1 DEF RunsGrow
<1>3. \A r \in walk.start \ walk.shown :
        Position(r) \in Nat /\ Position(r)' \in Nat /\ Position(r)' >= Position(r)
  BY <1>1, PositionsGrow
<1>4. Waiting("list")' =>
        /\ request' = [kind |-> "list", offset |-> request'.offset, now |-> request'.now]
        /\ request'.offset \in Nat /\ request'.now \in 0..MaxClock
        /\ \A r \in walk'.start \ walk'.shown : Position(r)' >= request'.offset
  <2>1. SUFFICES ASSUME Waiting("list") PROVE
        /\ request = [kind |-> "list", offset |-> request.offset, now |-> request.now]
        /\ request.offset \in Nat /\ request.now \in 0..MaxClock
        /\ \A r \in walk.start \ walk.shown : Position(r)' >= request.offset
    BY <1>1 DEF Waiting
  <2>2. /\ request = [kind |-> "list", offset |-> request.offset, now |-> request.now]
        /\ request.offset \in Nat /\ request.now \in 0..MaxClock
        /\ \A r \in walk.start \ walk.shown : Position(r) >= request.offset
    BY <2>1 DEF WalkInv
  <2> QED  BY <1>3, <2>2
<1>5. page'.kind = "list" =>
        /\ page'.offset \in Nat
        /\ \A r \in walk'.start \ walk'.shown : page'.hasMore /\ Position(r)' >= page'.offset + Limit
  <2>1. SUFFICES ASSUME page.kind = "list" PROVE
        /\ page.offset \in Nat
        /\ \A r \in walk.start \ walk.shown : page.hasMore /\ Position(r)' >= page.offset + Limit
    BY <1>1
  <2>2. /\ page.offset \in Nat
        /\ \A r \in walk.start \ walk.shown : page.hasMore /\ Position(r) >= page.offset + Limit
    BY <2>1 DEF WalkInv
  <2>3. page.offset + Limit \in Nat  BY <2>2, BoundsAssumption
  <2> QED  BY <1>3, <2>2, <2>3
<1> QED  BY <1>2, <1>4, <1>5 DEF WalkInv

\* A write leaves what a request has read so far true of the run.
LEMMA GrowthKeepsRequest ==
    ASSUME Typed, Typed', RequestInv, RunsGrow, UNCHANGED request
    PROVE  RequestInv'
<1>1. Waiting("find")' => Waiting("find") /\ request.before \subseteq RowsOf(request.run)'
  BY RowsGrow DEF Waiting, RequestInv, RunsGrow
<1>2. Detailed(request) => Detailed(request)'
  <2>1. SUFFICES ASSUME Detailed(request) PROVE Detailed(request)'  OBVIOUS
  <2>2. \A k \in DOMAIN request.answered :
          Listing(request.answered[k], k, request.before, OfRun(request.run, k)')
    BY <2>1, RowsGrow, Grown DEF RunsGrow, Detailed
  <2>3. request.run \in Stored' /\ request.before \subseteq RowsOf(request.run)'
    BY <2>1, RowsGrow DEF RunsGrow, Detailed
  <2> QED  BY <2>1, <2>2, <2>3 DEF Detailed, OfRun, RowsOf
<1>3. ASSUME Waiting("metrics")
      PROVE  /\ Credited(request.dropped, runs'[request.run].dropped)
             /\ \A k \in DOMAIN request.metrics :
                  Counted(request.metrics[k], k, request.before, OfRun(request.run, k)')
  <2>1. /\ Detailed(request) /\ request.dropped \in 0..MaxDropped \cup {null}
        /\ Credited(request.dropped, runs[request.run].dropped)
        /\ \A k \in DOMAIN request.metrics :
             Counted(request.metrics[k], k, request.before, OfRun(request.run, k))
    BY <1>3 DEF RequestInv
  <2>2. Credited(request.dropped, runs'[request.run].dropped)
    BY <2>1, CreditGrows DEF Detailed
  <2>3. \A k \in DOMAIN request.metrics :
          Counted(request.metrics[k], k, request.before, OfRun(request.run, k)')
    BY <2>1, RowsGrow, Grown DEF RunsGrow
  <2> QED  BY <2>2, <2>3
<1> QED  BY <1>1, <1>2, <1>3 DEF RequestInv, Waiting, OfRun, RowsOf

\* A write leaves what a page shows true of the run.
LEMMA GrowthKeepsPage ==
    ASSUME Typed, Typed', PageInv, RunsGrow, UNCHANGED page
    PROVE  PageInv'
<1> SUFFICES ASSUME page.kind = "run" PROVE PageInv'  BY DEF PageInv
<1> DEFINE r == page.view.id
<1>1. /\ r \in Stored /\ page.before \subseteq RowsOf(r)
      /\ \A k \in Kinds : Listing(page.collections[k], k, page.before, OfRun(r, k))
      /\ page.dropped \in 0..MaxDropped \cup {null} /\ Credited(page.dropped, runs[r].dropped)
  BY DEF PageInv
<1>2. \A k : OfRun(r, k) \subseteq OfRun(r, k)'  BY DEF OfRun, RunsGrow
<1>3. /\ r \in Stored' /\ page.before \subseteq RowsOf(r)'
      /\ \A k \in Kinds : Listing(page.collections[k], k, page.before, OfRun(r, k)')
      /\ Credited(page.dropped, runs'[r].dropped)
  <2>1. r \in Stored' /\ page.before \subseteq RowsOf(r)'  BY <1>1, RowsGrow DEF RunsGrow
  <2>2. \A k \in Kinds : Listing(page.collections[k], k, page.before, OfRun(r, k)')
    BY <1>1, <1>2, Grown
  <2>3. Credited(page.dropped, runs'[r].dropped)  BY <1>1, CreditGrows
  <2> QED  BY <2>1, <2>2, <2>3
<1>4. ASSUME "summary" \in DOMAIN page
      PROVE  \E mc, tc \in SUBSET Children :
               /\ Counted(mc, "modelCalls", page.before, OfRun(r, "modelCalls")')
               /\ Counted(tc, "toolCalls", page.before, OfRun(r, "toolCalls")')
               /\ page.summary = aggregateRunSummary(mc, tc, page.summary.droppedTelemetryEventCount)
  <2>1. PICK mc, tc \in SUBSET Children :
               /\ Counted(mc, "modelCalls", page.before, OfRun(r, "modelCalls"))
               /\ Counted(tc, "toolCalls", page.before, OfRun(r, "toolCalls"))
               /\ page.summary = aggregateRunSummary(mc, tc, page.summary.droppedTelemetryEventCount)
    BY <1>4 DEF PageInv
  <2>2. /\ Counted(mc, "modelCalls", page.before, OfRun(r, "modelCalls")')
        /\ Counted(tc, "toolCalls", page.before, OfRun(r, "toolCalls")')
    BY <2>1, <1>2, Grown
  <2> QED  BY <2>1, <2>2
<1> QED  BY <1>1, <1>3, <1>4 DEF PageInv, OfRun, RowsOf

\* A write by the ingest side keeps the invariant if it keeps the tables' part of it.
LEMMA GrowthKeeps ==
    ASSUME IInv, Typed', LivenessInv', RunsGrow, UNCHANGED <<request, page, walk>>
    PROVE  IInv'
BY GrowthKeepsWalk, GrowthKeepsRequest, GrowthKeepsPage DEF IInv

-----------------------------------------------------------------------------
(* The writers *)

\* Drop counts are numbers.
LEMMA Ordered == Typed => \A r \in Stored : runs[r].dropped # null => runs[r].dropped <= runs[r].dropped
<1>1. Typed => \A r \in Stored : runs[r].dropped \in 0..MaxDropped \cup {null}
  BY DEF Typed, RunRecord
<1> QED  BY <1>1, BoundsAssumption

\* Tables that stay as they are.
LEMMA StayingGrows == ASSUME Typed, UNCHANGED <<runs, children>> PROVE RunsGrow
BY Ordered DEF RunsGrow, Stored

\* One run's columns change, its receivedAt does not and its drop count does not fall.
LEMMA UpdateGrows ==
    ASSUME Typed, NEW r \in Stored, NEW x \in RunRecord, runs' = [runs EXCEPT ![r] = x],
           children \subseteq children', x.receivedAt = runs[r].receivedAt,
           runs[r].dropped # null => x.dropped # null /\ runs[r].dropped <= x.dropped
    PROVE  RunsGrow /\ Stored' = Stored /\ runs' \in [Stored -> RunRecord] /\ runs'[r] = x
<1>1. runs \in [Stored -> RunRecord]  BY DEF Typed
<1>2. runs' \in [Stored -> RunRecord] /\ runs'[r] = x  BY <1>1
<1>3. Stored' = Stored  BY <1>2 DEF Stored
<1>4. \A q \in Stored : q # r => runs'[q] = runs[q]  BY <1>1
<1> QED  BY <1>2, <1>3, <1>4, Ordered DEF RunsGrow

\* The clock, and a request that reads it.
LEMMA ReceiveKeeps == ASSUME IInv, Tick \/ \E r \in Runs : ReceiveBatch(r) PROVE IInv'
<1>1. UNCHANGED <<runs, children, loaded, events, request, page, walk>>
  BY DEF Tick, ReceiveBatch
<1>2. clock' \in 0..MaxClock /\ ingest' \in [Runs -> 0..MaxClock \cup {null}]
  BY BoundsAssumption DEF Tick, ReceiveBatch, IInv, Typed
<1>3. Typed'  BY <1>1, <1>2 DEF IInv, Typed, Stored
<1>4. LivenessInv'  BY <1>1 DEF IInv, LivenessInv, Stored
<1>5. RunsGrow  BY <1>1, StayingGrows DEF IInv
<1> QED  BY <1>1, <1>3, <1>4, <1>5, GrowthKeeps

\* A run group loads the run.
LEMMA LoadKeeps == ASSUME IInv, NEW r \in Runs, LoadRun(r) PROVE IInv'
<1>1. /\ ingest[r] # null /\ UNCHANGED <<clock, runs, children, events, request, page, walk>>
      /\ ingest' = [ingest EXCEPT ![r] = null]
      /\ loaded' = [loaded EXCEPT ![r] =
                      [receivedAt |-> ingest[r],
                       lastEventAt |-> IF r \in Stored THEN Max({runs[r].lastEventAt, ingest[r]})
                                       ELSE ingest[r]]]
  BY DEF LoadRun
<1> DEFINE l == [receivedAt |-> ingest[r],
                 lastEventAt |-> IF r \in Stored THEN Max({runs[r].lastEventAt, ingest[r]})
                                 ELSE ingest[r]]
<1>2. ingest[r] \in 0..MaxClock  BY <1>1 DEF IInv, Typed
<1>3. r \in Stored => /\ runs[r].lastEventAt \in 0..MaxClock /\ runs[r].lastEventAt \in events[r]
                      /\ Max({runs[r].lastEventAt, ingest[r]}) \in {runs[r].lastEventAt, ingest[r]}
  <2>1. SUFFICES ASSUME r \in Stored
                 PROVE  /\ runs[r].lastEventAt \in 0..MaxClock /\ runs[r].lastEventAt \in events[r]
                        /\ Max({runs[r].lastEventAt, ingest[r]}) \in {runs[r].lastEventAt, ingest[r]}
    OBVIOUS
  <2>2. runs[r] \in RunRecord /\ runs[r].lastEventAt \in events[r]
    BY <2>1 DEF IInv, Typed, LivenessInv
  <2>3. runs[r].lastEventAt \in 0..MaxClock  BY <2>2 DEF RunRecord
  <2>4. runs[r].lastEventAt \in Int /\ ingest[r] \in Int  BY <1>2, <2>3, BoundsAssumption
  <2> QED  BY <2>2, <2>3, <2>4, Extremes
<1>4. /\ l.receivedAt = ingest[r] /\ l.lastEventAt \in 0..MaxClock
      /\ l.lastEventAt \in events[r] \cup {ingest[r]}
      /\ l \in [receivedAt : 0..MaxClock, lastEventAt : 0..MaxClock]
  BY <1>2, <1>3
<1>5. loaded' = [loaded EXCEPT ![r] = l]  BY <1>1
<1> HIDE DEF l
<1>6. Typed'
  <2>1. loaded' \in [Runs -> [receivedAt : 0..MaxClock, lastEventAt : 0..MaxClock] \cup {null}]
    BY <1>4, <1>5 DEF IInv, Typed
  <2>2. ingest' \in [Runs -> 0..MaxClock \cup {null}]  BY <1>1 DEF IInv, Typed
  <2> QED  BY <1>1, <2>1, <2>2 DEF IInv, Typed, Stored
<1>7. LivenessInv'
  <2>1. \A q \in Runs : loaded'[q] # null =>
          loaded'[q].lastEventAt \in events[q] \cup {loaded'[q].receivedAt}
    <3>1. loaded'[r] = l  BY <1>5 DEF IInv, Typed
    <3>2. \A q \in Runs \ {r} : loaded'[q] = loaded[q]  BY <1>5 DEF IInv, Typed
    <3> QED  BY <1>4, <3>1, <3>2 DEF IInv, LivenessInv
  <2> QED  BY <1>1, <2>1 DEF IInv, LivenessInv, Stored
<1>8. RunsGrow  BY <1>1, StayingGrows DEF IInv
<1> QED  BY <1>1, <1>6, <1>7, <1>8, GrowthKeeps

\* A run group saves the run: it is created, or its columns are updated.
LEMMA StoreKeeps == ASSUME IInv, NEW r \in Runs, StoreRunEvent(r) PROVE IInv'
<1>1. /\ loaded[r] # null /\ UNCHANGED <<clock, children, ingest, request, page, walk>>
      /\ events' = [events EXCEPT ![r] = @ \cup {loaded[r].receivedAt}]
      /\ loaded' = [loaded EXCEPT ![r] = null]
  BY DEF StoreRunEvent
<1>2. PICK status \in {"RUNNING", "COMPLETED"} : runs' = saveRun(r, status)
  BY DEF StoreRunEvent
<1>3. /\ loaded[r].receivedAt \in 0..MaxClock /\ loaded[r].lastEventAt \in 0..MaxClock
      /\ loaded[r].lastEventAt \in events[r] \cup {loaded[r].receivedAt}
  BY <1>1 DEF IInv, Typed, LivenessInv
<1>4. /\ loaded' \in [Runs -> [receivedAt : 0..MaxClock, lastEventAt : 0..MaxClock] \cup {null}]
      /\ events' \in [Runs -> SUBSET (0..MaxClock)]
      /\ events'[r] = events[r] \cup {loaded[r].receivedAt}
      /\ \A q \in Runs : events[q] \subseteq events'[q]
      /\ \A q \in Runs : loaded'[q] # null => loaded'[q] = loaded[q]
  BY <1>1, <1>3 DEF IInv, Typed
<1>5. /\ RunsGrow /\ Stored' \subseteq Runs /\ runs' \in [Stored' -> RunRecord]
      /\ \A q \in Stored' : runs'[q].lastEventAt \in events'[q]
  <2>1. CASE r \in Stored
    <3> DEFINE x == [runs[r] EXCEPT !.status = IF runs[r].status = "RUNNING" THEN status ELSE runs[r].status,
                                    !.lastEventAt = loaded[r].lastEventAt]
    <3>1. runs[r] \in RunRecord /\ runs \in [Stored -> RunRecord]  BY <2>1 DEF IInv, Typed
    <3>2. runs' = [runs EXCEPT ![r] = x]  BY <1>2, <2>1, <3>1 DEF saveRun
    <3>3. /\ x \in RunRecord /\ x.receivedAt = runs[r].receivedAt /\ x.dropped = runs[r].dropped
          /\ x.lastEventAt = loaded[r].lastEventAt
      BY <1>2, <1>3, <3>1 DEF RunRecord, Status
    <3> HIDE DEF x
    <3>4. RunsGrow /\ Stored' = Stored /\ runs' \in [Stored -> RunRecord] /\ runs'[r] = x
      BY <1>1, <2>1, <3>2, <3>3, Ordered, UpdateGrows DEF IInv
    <3>5. \A q \in Stored : runs'[q].lastEventAt \in events'[q]
      <4>1. \A q \in Stored \ {r} : runs'[q] = runs[q] /\ runs[q].lastEventAt \in events[q] /\ q \in Runs
        BY <3>1, <3>2 DEF IInv, Typed, LivenessInv
      <4>2. runs'[r].lastEventAt \in events'[r]  BY <1>3, <1>4, <3>3, <3>4
      <4> QED  BY <1>4, <4>1, <4>2
    <3> QED  BY <3>4, <3>5 DEF IInv, Typed
  <2>2. CASE r \notin Stored
    <3> DEFINE x == [status |-> status, receivedAt |-> loaded[r].lastEventAt,
                     lastEventAt |-> loaded[r].lastEventAt, dropped |-> null]
    <3>1. x \in RunRecord /\ x.lastEventAt = loaded[r].lastEventAt  BY <1>2,
                                                                         <1>3 DEF RunRecord,
                                                                         Status
    <3>2. runs' = Put(runs, r, x)  BY <1>2, <2>2 DEF saveRun
    <3> HIDE DEF x
    <3>3. /\ Stored' = Stored \cup {r} /\ runs'[r] = x /\ \A q \in Stored : runs'[q] = runs[q]
          /\ runs' = [q \in Stored' |-> runs'[q]]
      BY <2>2, <3>2 DEF Stored, Put
    <3>4. runs' \in [Stored' -> RunRecord]  BY <3>1, <3>3 DEF IInv, Typed
    <3>5. RunsGrow  BY <1>1, <3>3, Ordered DEF RunsGrow, IInv
    <3>6. \A q \in Stored' : runs'[q].lastEventAt \in events'[q]
      <4>1. \A q \in Stored : runs'[q] = runs[q] /\ runs[q].lastEventAt \in events[q] /\ q \in Runs
        BY <3>3 DEF IInv, Typed, LivenessInv
      <4>2. runs'[r].lastEventAt \in events'[r]  BY <1>3, <1>4, <3>1, <3>3
      <4> QED  BY <1>4, <3>3, <4>1, <4>2
    <3> QED  BY <3>3, <3>4, <3>5, <3>6 DEF IInv, Typed
  <2> QED  BY <2>1, <2>2
<1>6. Typed'  BY <1>1, <1>4, <1>5 DEF IInv, Typed
<1>7. LivenessInv'  BY <1>4, <1>5 DEF IInv, LivenessInv
<1> QED  BY <1>1, <1>5, <1>6, <1>7, GrowthKeeps

\* A step or call is stored; a step event touches the run's liveness.
LEMMA StoreChildKeeps == ASSUME IInv, NEW c \in Children, StoreChild(c) PROVE IInv'
<1> DEFINE r == c.run
<1>1. /\ ingest[r] # null /\ UNCHANGED <<clock, loaded, request, page, walk>>
      /\ children' = children \cup {c} /\ ingest' = [ingest EXCEPT ![r] = null]
  BY DEF StoreChild
<1>2. r \in Runs  BY ChildrenAssumption
<1>3. ingest[r] \in 0..MaxClock  BY <1>1, <1>2 DEF IInv, Typed
<1>4. ingest' \in [Runs -> 0..MaxClock \cup {null}] /\ children' \subseteq Children
      /\ children \subseteq children'
  BY <1>1, <1>2 DEF IInv, Typed
<1>5. /\ RunsGrow /\ Stored' = Stored /\ runs' \in [Stored -> RunRecord]
      /\ events' \in [Runs -> SUBSET (0..MaxClock)] /\ \A q \in Runs : events[q] \subseteq events'[q]
      /\ \A q \in Stored : runs'[q].lastEventAt \in events'[q]
  <2>1. CASE c.kind = "steps" /\ r \in Stored
    <3> DEFINE last == Max({runs[r].lastEventAt, ingest[r]})
               x == [runs[r] EXCEPT !.lastEventAt = last]
    <3>1. runs[r] \in RunRecord /\ runs \in [Stored -> RunRecord] /\ runs[r].lastEventAt \in events[r]
      BY <2>1 DEF IInv, Typed, LivenessInv
    <3>2. /\ runs' = [runs EXCEPT ![r] = x]
          /\ events' = [events EXCEPT ![r] = @ \cup {ingest[r]}]
      BY <2>1, <3>1 DEF StoreChild
    <3>3. last \in {runs[r].lastEventAt, ingest[r]} /\ last \in 0..MaxClock
      <4>1. runs[r].lastEventAt \in 0..MaxClock  BY <3>1 DEF RunRecord
      <4>2. runs[r].lastEventAt \in Int /\ ingest[r] \in Int  BY <1>3, <4>1, BoundsAssumption
      <4>3. last \in {runs[r].lastEventAt, ingest[r]}  BY <4>2, Extremes
      <4> QED  BY <1>3, <4>1, <4>3
    <3> HIDE DEF last
    <3>4. /\ x \in RunRecord /\ x.receivedAt = runs[r].receivedAt /\ x.dropped = runs[r].dropped
          /\ x.lastEventAt = last
      BY <3>1, <3>3 DEF RunRecord
    <3> HIDE DEF x
    <3>5. RunsGrow /\ Stored' = Stored /\ runs' \in [Stored -> RunRecord] /\ runs'[r] = x
      BY <1>4, <2>1, <3>2, <3>4, Ordered, UpdateGrows DEF IInv
    <3>6. /\ events' \in [Runs -> SUBSET (0..MaxClock)] /\ \A q \in Runs : events[q] \subseteq events'[q]
          /\ events'[r] = events[r] \cup {ingest[r]}
      BY <1>2, <1>3, <3>2 DEF IInv, Typed
    <3>7. \A q \in Stored : runs'[q].lastEventAt \in events'[q]
      <4>1. \A q \in Stored \ {r} : runs'[q] = runs[q] /\ runs[q].lastEventAt \in events[q] /\ q \in Runs
        BY <3>1, <3>2 DEF IInv, Typed, LivenessInv
      <4>2. runs'[r].lastEventAt \in events'[r]  BY <3>1, <3>3, <3>4, <3>5, <3>6
      <4> QED  BY <3>6, <4>1, <4>2
    <3> QED  BY <3>5, <3>6, <3>7
  <2>2. CASE ~(c.kind = "steps" /\ r \in Stored)
    <3>1. runs' = runs /\ events' = events  BY <2>2 DEF StoreChild
    <3> QED  BY <1>4, <3>1, Ordered DEF RunsGrow, IInv, Typed, LivenessInv, Stored
  <2> QED  BY <2>1, <2>2
<1>6. Typed'  BY <1>1, <1>4, <1>5 DEF IInv, Typed
<1>7. LivenessInv'  BY <1>1, <1>5 DEF IInv, LivenessInv
<1> QED  BY <1>1, <1>5, <1>6, <1>7, GrowthKeeps

\* Drops are credited to a run.
LEMMA CreditKeeps == ASSUME IInv, NEW r \in Runs, CreditDrops(r) PROVE IInv'
<1> DEFINE old == IF runs[r].dropped = null THEN 0 ELSE runs[r].dropped
<1>1. r \in Stored /\ UNCHANGED <<clock, children, ingest, loaded, events, request, page, walk>>
  BY DEF CreditDrops
<1>2. PICK n \in 0..(MaxDropped - old) : runs' = [runs EXCEPT ![r].dropped = old + n]
  BY DEF CreditDrops
<1>3. runs[r] \in RunRecord /\ runs \in [Stored -> RunRecord]  BY <1>1 DEF IInv, Typed
<1>4. old \in 0..MaxDropped /\ (runs[r].dropped # null => old = runs[r].dropped)
  BY <1>3, BoundsAssumption DEF RunRecord
<1> HIDE DEF old
<1>5. old + n \in 0..MaxDropped /\ old <= old + n /\ old + n # null
  BY <1>2, <1>4, BoundsAssumption, NullAssumption
<1> DEFINE x == [runs[r] EXCEPT !.dropped = old + n]
<1>6. /\ x \in RunRecord /\ x.receivedAt = runs[r].receivedAt /\ x.dropped = old + n
      /\ x.lastEventAt = runs[r].lastEventAt
  BY <1>3, <1>5 DEF RunRecord
<1>7. runs' = [runs EXCEPT ![r] = x]  BY <1>2, <1>3
<1> HIDE DEF x
<1>8. RunsGrow /\ Stored' = Stored /\ runs' \in [Stored -> RunRecord] /\ runs'[r] = x
  BY <1>1, <1>4, <1>5, <1>6, <1>7, UpdateGrows DEF IInv
<1>9. Typed'  BY <1>1, <1>8 DEF IInv, Typed
<1>10. LivenessInv'
  <2>1. \A q \in Stored \ {r} : runs'[q] = runs[q]  BY <1>3, <1>7
  <2> QED  BY <1>1, <1>6, <1>8, <2>1 DEF IInv, LivenessInv
<1> QED  BY <1>1, <1>8, <1>9, <1>10, GrowthKeeps

-----------------------------------------------------------------------------
(* The reader of the list *)

data == <<clock, runs, children, ingest, loaded, events>>

\* A reader's step changes no table.
LEMMA DataStays ==
    ASSUME UNCHANGED data
    PROVE  /\ Stored' = Stored /\ runs' = runs
           /\ \A r : Position(r)' = Position(r) /\ RowsOf(r)' = RowsOf(r)
           /\ \A r, k : OfRun(r, k)' = OfRun(r, k)
           /\ Typed /\ request'.kind \in {"none", "list", "find", "collect", "summary", "metrics"}
              /\ page'.kind \in {"blank", "list", "run", "not-found", "failure"} => Typed'
           /\ LivenessInv => LivenessInv'
<1>1. Stored' = Stored /\ \A r : RowsOf(r)' = RowsOf(r)  BY DEF data, Stored, RowsOf
<1>2. \A r, k : OfRun(r, k)' = OfRun(r, k)  BY DEF data, OfRun
<1>3. \A r : Position(r)' = Position(r)  BY <1>1 DEF data, Position, RunListOrder
<1> QED  BY <1>1, <1>2, <1>3 DEF data, Typed, LivenessInv

\* Positions are numbers.
LEMMA Positions == Typed => \A r : Position(r) \in Nat
<1> SUFFICES ASSUME Typed, NEW r PROVE Position(r) \in Nat  OBVIOUS
<1> DEFINE A == {s \in Stored : RunListOrder(s, r)}
<1>1. A \subseteq Runs  BY DEF Typed
<1> HIDE DEF A
<1>2. IsFiniteSet(A)  BY <1>1, RunsAssumption, FS_Subset
<1>3. Cardinality(A) \in Nat  BY <1>2, FS_CardinalityType
<1> QED  BY <1>3 DEF Position, A

\* A page is asked for at or before every run of the walk that has not been shown.
LEMMA AskKeeps ==
    ASSUME IInv, UNCHANGED data, NEW offset \in Nat, AskPage(offset),
           walk' \in [start : SUBSET Stored, shown : SUBSET Runs],
           \A r \in walk'.start \ walk'.shown : Position(r) >= offset
    PROVE  IInv'
<1>1. request' = [kind |-> "list", offset |-> offset, now |-> clock] /\ page' = [kind |-> "blank"]
  BY DEF AskPage, Blank
<1>2. Typed' /\ LivenessInv'  BY <1>1, DataStays DEF IInv
<1>3. clock \in 0..MaxClock  BY DEF IInv, Typed
<1>4. request'.kind = "list" /\ request'.offset = offset /\ request'.now = clock /\ page'.kind = "blank"
  BY <1>1
<1>5. WalkInv'
  <2>1. \A r \in walk'.start \ walk'.shown : Position(r)' >= offset  BY DataStays
  <2> QED  BY <1>1, <1>3, <1>4, <2>1, DataStays DEF WalkInv, Waiting
<1>6. RequestInv' /\ PageInv'  BY <1>4 DEF RequestInv, PageInv, Waiting
<1> QED  BY <1>2, <1>5, <1>6 DEF IInv

\* A walk begins, and the reader turns a page.
LEMMA TurnKeeps == ASSUME IInv, OpenList \/ Older \/ Newer PROVE IInv'
<1>1. UNCHANGED data  BY DEF OpenList, Older, Newer, data
<1>2. CASE OpenList
  <2>1. PICK offset \in {0, 1, null} :
          /\ AskPage(parseRunsListQuery(offset))
          /\ walk' = [start |-> IF offset = 1 THEN {} ELSE Stored, shown |-> {}]
    BY <1>2 DEF OpenList
  <2>2. parseRunsListQuery(offset) \in Nat /\ (offset # 1 => parseRunsListQuery(offset) = 0)
    BY NullAssumption DEF parseRunsListQuery
  <2>3. \A r \in walk'.start \ walk'.shown : Position(r) >= parseRunsListQuery(offset)
    <3>1. CASE offset = 1  BY <2>1, <3>1
    <3>2. CASE offset # 1
      <4>1. \A r : Position(r) \in Nat  BY Positions DEF IInv
      <4> QED  BY <2>2, <3>2, <4>1
    <3> QED  BY <3>1, <3>2
  <2>4. walk' \in [start : SUBSET Stored, shown : SUBSET Runs]  BY <2>1
  <2> QED  BY <1>1, <2>1, <2>2, <2>3, <2>4, AskKeeps
<1>3. CASE Older \/ Newer
  <2>1. page.kind = "list" /\ walk' = walk  BY <1>3 DEF Older, Newer, OnList
  <2>2. /\ page.offset \in Nat /\ walk \in [start : SUBSET Stored, shown : SUBSET Runs]
        /\ \A r \in walk.start \ walk.shown : Position(r) >= page.offset + Limit
    BY <2>1 DEF IInv, WalkInv
  <2>3. \A r : Position(r) \in Nat  BY Positions DEF IInv
  <2>4. Limit \in Nat /\ 0 \in Int /\ page.offset - Limit \in Int  BY <2>2, BoundsAssumption
  <2>5. CASE Older
    <3>1. AskPage(page.offset + Limit)  BY <2>5 DEF Older, olderOffset
    <3>2. page.offset + Limit \in Nat  BY <2>2, <2>4
    <3> QED  BY <1>1, <2>1, <2>2, <3>1, <3>2, AskKeeps
  <2>6. CASE Newer
    <3> DEFINE o == newerOffset(page)
    <3>1. AskPage(o)  BY <2>6 DEF Newer
    <3>2. o \in {0, page.offset - Limit} /\ o >= 0  BY <2>4, Extremes DEF newerOffset
    <3> HIDE DEF o
    <3>3. o \in Nat /\ o <= page.offset  BY <2>2, <2>4, <3>2
    <3>4. \A r \in walk.start \ walk.shown : Position(r) >= o  BY <2>2, <2>3, <2>4, <3>3
    <3> QED  BY <1>1, <2>1, <2>2, <3>1, <3>3, <3>4, AskKeeps
  <2> QED  BY <1>3, <2>5, <2>6
<1> QED  BY <1>2, <1>3

\* What one query of the list returns: the runs at places offset + 1 and on, one more
\* than a page where there is one.
LEMMA OnePage ==
    ASSUME NEW S, NEW s \in Seq(S), NEW offset \in Nat
    PROVE  LET R == Page(s, Limit + 1, offset)
           IN /\ Len(R) \in Nat /\ R \in Seq(S)
              /\ \A i \in 1..Len(R) : offset + i \in 1..Len(s) /\ R[i] = s[offset + i]
              /\ \A k \in 1..Len(s) : offset < k /\ k <= offset + Limit + 1 => k - offset \in 1..Len(R)
<1> DEFINE n == Min({offset + (Limit + 1), Len(s)})
           m == offset + 1
           R == SubSeq(s, m, n)
<1>1. Limit \in Nat /\ Len(s) \in Nat /\ offset + (Limit + 1) \in Int /\ Len(s) \in Int
  BY BoundsAssumption
<1>2. /\ n \in {offset + (Limit + 1), Len(s)} /\ n <= offset + (Limit + 1) /\ n <= Len(s)
  BY <1>1, Extremes
<1>3. Page(s, Limit + 1, offset) = R  BY DEF Page
<1> HIDE DEF n
<1>4. n \in Nat /\ m \in Int /\ m >= 1  BY <1>1, <1>2
<1> HIDE DEF m
<1>5. \A i \in m..n : s[i] \in S  BY <1>1, <1>2, <1>4
<1>6. /\ R \in Seq(S) /\ Len(R) = IF m <= n THEN n - m + 1 ELSE 0
      /\ \A i \in 1..(n - m + 1) : R[i] = s[m + i - 1]
  BY <1>4, <1>5, SubSeqProperties
<1> HIDE DEF R
<1>7. Len(R) \in Nat /\ \A i : i \in 1..Len(R) <=> i \in 1..(n - m + 1)
  <2>1. CASE m <= n  BY <1>4, <1>6, <2>1
  <2>2. CASE ~(m <= n)  BY <1>4, <1>6, <2>2
  <2> QED  BY <2>1, <2>2
<1>8. ASSUME NEW i \in 1..Len(R) PROVE offset + i \in 1..Len(s) /\ R[i] = s[offset + i]
  <2>1. i \in 1..(n - m + 1)  BY <1>7, <1>8
  <2>2. R[i] = s[m + i - 1] /\ m + i - 1 = offset + i  BY <1>6, <2>1 DEF m
  <2>3. offset + i <= n /\ offset + i >= 1  BY <1>4, <2>1 DEF m
  <2> QED  BY <1>1, <1>2, <1>4, <2>1, <2>2, <2>3
<1>9. ASSUME NEW k \in 1..Len(s), offset < k, k <= offset + Limit + 1 PROVE k - offset \in 1..Len(R)
  <2>1. k <= n  BY <1>1, <1>2, <1>9
  <2>2. k - offset \in 1..(n - m + 1)  BY <1>1, <1>4, <1>9, <2>1 DEF m
  <2> QED  BY <1>7, <2>2
<1> QED  BY <1>3, <1>6, <1>7, <1>8, <1>9

\* A page answered shows every run between its offset and its end.
LEMMA AnswerPageKeeps == ASSUME IInv, AnswerPage PROVE IInv'
<1>1. /\ Waiting("list") /\ page' \in listAnswers(request.offset, request.now) /\ request' = Idle
      /\ walk' = [walk EXCEPT !.shown = @ \cup {v.id : v \in ToSet(page'.runs)}]
      /\ UNCHANGED data
  BY DEF AnswerPage, data
<1> DEFINE o == request.offset
           now == request.now
<1>2. /\ o \in Nat /\ \A r \in walk.start \ walk.shown : Position(r) >= o
      /\ walk \in [start : SUBSET Stored, shown : SUBSET Runs]
  BY <1>1 DEF IInv, WalkInv
<1>3. PICK s \in Listings(Stored, RunListOrder) : page' = listView(o, now, Page(s, Limit + 1, o))
  BY <1>1 DEF listAnswers, listRuns
<1>4. /\ Len(s) \in Nat /\ s \in Seq(Stored)
      /\ \A r \in Stored : \E k \in 1..Len(s) : s[k] = r /\ Position(r) = k - 1
  BY <1>3, PlaceIsPosition DEF IInv
<1> DEFINE R == Page(s, Limit + 1, o)
           m == Min({Limit, Len(R)})
<1>5. /\ Len(R) \in Nat /\ R \in Seq(Stored)
      /\ \A i \in 1..Len(R) : o + i \in 1..Len(s) /\ R[i] = s[o + i]
      /\ \A k \in 1..Len(s) : o < k /\ k <= o + Limit + 1 => k - o \in 1..Len(R)
  BY <1>2, <1>4, OnePage
<1> DEFINE views == [i \in 1..m |-> toRunSummaryView(R[i], now)]
<1>6. /\ page' = [kind |-> "list", offset |-> o, now |-> now, runs |-> views,
                  hasMore |-> Len(R) > Limit]
  BY <1>3 DEF listView
<1> HIDE DEF R, o, now
<1>7. m \in {Limit, Len(R)} /\ m <= Limit /\ m <= Len(R) /\ m \in Nat /\ Limit \in Nat
  <2>1. Limit \in Int /\ Limit \in Nat /\ Len(R) \in Int  BY <1>5, BoundsAssumption
  <2> QED  BY <1>5, <2>1, Extremes
<1> HIDE DEF m
<1>8. \A i \in 1..m : i \in 1..Len(R) /\ R[i] \in Stored /\ views[i].id = R[i]
  BY <1>5, <1>7 DEF toRunSummaryView
<1>9. {v.id : v \in ToSet(views)} = {R[i] : i \in 1..m}
  <2>1. ToSet(views) = {views[i] : i \in 1..m}  BY DEF ToSet
  <2> HIDE DEF views
  <2> QED  BY <1>8, <2>1
<1> HIDE DEF views
<1>10. /\ page'.kind = "list" /\ page'.offset = o /\ page'.runs = views
       /\ page'.hasMore = (Len(R) > Limit)
  BY <1>6
<1>11. walk' = [start |-> walk.start, shown |-> walk.shown \cup {R[i] : i \in 1..m}]
  BY <1>1, <1>2, <1>9, <1>10
<1>12. ASSUME NEW r \in walk'.start \ walk'.shown
       PROVE  Len(R) > Limit /\ Position(r) >= o + Limit
  <2>1. r \in walk.start \ walk.shown /\ r \in Stored /\ r \notin {R[i] : i \in 1..m}
    BY <1>2, <1>11
  <2>2. PICK k \in 1..Len(s) : s[k] = r /\ Position(r) = k - 1  BY <1>4, <2>1
  <2>3. o < k  BY <1>2, <1>4, <2>1, <2>2
  <2>4. o + Limit < k
    <3>1. SUFFICES ASSUME k <= o + Limit PROVE FALSE  BY <1>2, <1>4, <1>7
    <3>2. k - o \in 1..Len(R)  BY <1>2, <1>4, <1>5, <1>7, <2>3, <3>1
    <3>3. k - o <= Limit  BY <1>2, <1>4, <1>7, <3>1
    <3>4. k - o \in 1..m  BY <1>5, <1>7, <3>2, <3>3
    <3>5. R[k - o] = s[o + (k - o)] /\ o + (k - o) = k  BY <1>2, <1>4, <1>5, <3>2
    <3> QED  BY <2>1, <2>2, <3>4, <3>5
  <2>5. Len(R) > Limit
    <3> DEFINE e == o + Limit + 1
    <3>1. e \in 1..Len(s) /\ o < e /\ e <= o + Limit + 1 /\ e - o = Limit + 1
      BY <1>2, <1>4, <1>7, <2>4
    <3>2. e - o \in 1..Len(R)  BY <1>5, <3>1
    <3> QED  BY <1>5, <1>7, <3>1, <3>2
  <2> QED  BY <1>2, <1>4, <1>7, <2>2, <2>4, <2>5
<1>13. WalkInv'
  <2>1. request'.kind = "none"  BY <1>1 DEF Idle
  <2>2. {R[i] : i \in 1..m} \subseteq Runs  BY <1>8 DEF IInv, Typed
  <2>3. walk' \in [start : SUBSET Stored', shown : SUBSET Runs]  BY <1>1, <1>2, <1>11, <2>2, DataStays
  <2>4. \A r : Position(r)' = Position(r)  BY <1>1, DataStays
  <2>5. page'.offset \in Nat /\
        \A r \in walk'.start \ walk'.shown : page'.hasMore /\ Position(r)' >= page'.offset + Limit
    BY <1>2, <1>10, <1>12, <2>4
  <2> QED  BY <2>1, <2>3, <2>5 DEF WalkInv, Waiting
<1>14. Typed' /\ LivenessInv'  BY <1>1, <1>10, DataStays DEF IInv, Idle
<1>15. RequestInv' /\ PageInv'  BY <1>1, <1>10 DEF RequestInv, PageInv, Waiting, Idle
<1> QED  BY <1>13, <1>14, <1>15 DEF IInv

-----------------------------------------------------------------------------
(* The reader of one run *)

Row == [kind : Kinds, run : Runs, id : Nat, at : Nat, metadata : {null, "object", "malformed"},
        inputTokens : Nat \cup {null}, success : BOOLEAN]

\* Metadata apart, a view shows the row's columns.
LEMMA ViewOf ==
    ASSUME NEW c \in Row
    PROVE  LET v == toView(toRecord(c))
           IN v.kind = c.kind /\ v.id = c.id /\ v.at = c.at
<1> DEFINE d == toRecord(c)
           v == toView(d)
<1>1. d.kind = c.kind /\ d.id = c.id /\ d.at = c.at  BY DEF toRecord, Row
<1> HIDE DEF d
<1>2. v.kind = d.kind /\ v.id = d.id /\ v.at = d.at  BY DEF toView
<1> QED  BY <1>1, <1>2 DEF d

\* One of the five collections as it is answered.
LEMMA CollectionIsListing ==
    ASSUME Typed, NEW r, NEW k, NEW before, before \subseteq RowsOf(r), NEW s \in listChildren(r, k)
    PROVE  Listing([i \in DOMAIN s |-> toView(s[i])], k, before, OfRun(r, k))
<1> DEFINE S == OfRun(r, k)
           v == [i \in DOMAIN s |-> toView(s[i])]
<1>1. S \subseteq Row /\ S \subseteq Children /\ IsFiniteSet(S)
  <2>1. S \subseteq Children  BY DEF OfRun, Typed
  <2>2. Children \subseteq Row /\ IsFiniteSet(Children)  BY ChildrenAssumption DEF Row
  <2> HIDE DEF S
  <2> QED  BY <2>1, <2>2, FS_Subset
<1>2. PICK t \in Listings(S, ChildOrder) : s = [i \in DOMAIN t |-> toRecord(t[i])]
  BY DEF listChildren
<1>3. t \in SetToSeqs(S) /\ \A i, j \in DOMAIN t : i < j => ~ChildOrder(t[j], t[i])
  BY <1>2 DEF Listings
<1>4. /\ Len(t) \in Nat /\ t \in Seq(S) /\ DOMAIN t = 1..Len(t)
      /\ \A i, j \in 1..Len(t) : i # j => t[i] # t[j]
      /\ \A x \in S : \E i \in 1..Len(t) : t[i] = x
  BY <1>1, <1>3, EachOnce
<1>5. DOMAIN v = 1..Len(t) /\ \A i \in 1..Len(t) : v[i] = toView(toRecord(t[i]))
  BY <1>2, <1>4
<1> HIDE DEF v
<1>6. \A i \in 1..Len(t) : /\ t[i] \in S /\ t[i] \in Row /\ t[i] \in Children
                           /\ v[i].kind = t[i].kind /\ v[i].id = t[i].id /\ v[i].at = t[i].at
  <2>1. \A i \in 1..Len(t) : t[i] \in S  BY <1>4
  <2> HIDE DEF S
  <2>2. \A i \in 1..Len(t) : t[i] \in Row /\ t[i] \in Children  BY <1>1, <2>1
  <2> QED  BY <1>5, <2>1, <2>2, ViewOf
<1>7. \A c \in S : c.kind = k  BY DEF OfRun
<1>8. \A c \in before : c.kind = k => \E i \in DOMAIN v : v[i].kind = k /\ v[i].id = c.id
  <2>1. SUFFICES ASSUME NEW c \in before, c.kind = k
                 PROVE  \E i \in DOMAIN v : v[i].kind = k /\ v[i].id = c.id
    OBVIOUS
  <2>2. c \in S  BY <2>1 DEF RowsOf, OfRun
  <2>3. PICK i \in 1..Len(t) : t[i] = c  BY <1>4, <2>2
  <2> QED  BY <1>5, <1>6, <2>1, <2>3
<1>9. \A i \in DOMAIN v : \E c \in S : v[i].kind = k /\ v[i].id = c.id
  BY <1>5, <1>6, <1>7
<1>10. ASSUME NEW i \in DOMAIN v, NEW j \in DOMAIN v, i < j
       PROVE  v[i].at <= v[j].at /\ (v[i].at = v[j].at => v[i].id < v[j].id)
  <2>1. i \in 1..Len(t) /\ j \in 1..Len(t) /\ i # j  BY <1>4, <1>5, <1>10
  <2>2. ~ChildOrder(t[j], t[i])  BY <1>3, <1>4, <1>10, <2>1
  <2>3. t[i] # t[j] /\ t[i] \in Children /\ t[j] \in Children /\ t[i].kind = t[j].kind
    BY <1>4, <1>6, <1>7, <2>1
  <2>4. t[i].id # t[j].id  BY <2>3, ChildrenAssumption
  <2>5. t[i].id \in Nat /\ t[j].id \in Nat /\ t[i].at \in Nat /\ t[j].at \in Nat
    BY <1>6, <2>1 DEF Row
  <2>6. t[i].at <= t[j].at /\ (t[i].at = t[j].at => t[i].id < t[j].id)
    <3>1. ~(t[j].at < t[i].at \/ (t[j].at = t[i].at /\ t[j].id < t[i].id))  BY <2>2 DEF ChildOrder
    <3> QED  BY <2>4, <2>5, <3>1
  <2> QED  BY <1>6, <2>1, <2>6
<1> QED  BY <1>8, <1>9, <1>10 DEF Listing, v

\* A step that only the reader of a run takes.
LEMMA StepKeeps ==
    ASSUME IInv, UNCHANGED data, walk' = walk,
           request'.kind \in {"none", "find", "collect", "summary", "metrics"},
           \/ page' = page
           \/ page'.kind \in {"blank", "run", "not-found", "failure"},
           RequestInv', PageInv'
    PROVE  IInv'
<1>1. page'.kind \in {"blank", "list", "run", "not-found", "failure"}  BY DEF IInv, Typed
<1>2. Typed' /\ LivenessInv'  BY <1>1, DataStays DEF IInv
<1>3. WalkInv'
  <2>1. walk' \in [start : SUBSET Stored', shown : SUBSET Runs]  BY DataStays DEF IInv,
                                                                      WalkInv
  <2>2. ~Waiting("list")'  BY DEF Waiting
  <2>3. CASE page'.kind = "list"
    <3>1. page' = page  BY <2>3
    <3>2. \A r : Position(r)' = Position(r)  BY DataStays
    <3> QED  BY <2>1, <2>2, <2>3, <3>1, <3>2 DEF IInv, WalkInv
  <2>4. CASE page'.kind # "list"  BY <2>1, <2>2, <2>4 DEF WalkInv
  <2> QED  BY <2>3, <2>4
<1> QED  BY <1>2, <1>3 DEF IInv

\* The page shown stays.
LEMMA PageStays == ASSUME PageInv, UNCHANGED data, page' = page PROVE PageInv'
<1>1. Stored' = Stored /\ runs' = runs /\ children' = children  BY DEF data, Stored
<1> QED  BY <1>1 DEF PageInv, RowsOf, OfRun

\* What the detail has read is handed on.
LEMMA DetailStays ==
    ASSUME UNCHANGED data, Detailed(request), request'.run = request.run,
           request'.before = request.before, request'.view = request.view,
           request'.answered = request.answered
    PROVE  Detailed(request)'
BY DEF Detailed, RowsOf, OfRun, Stored, data

\* The run page is opened, and its run is looked up.
LEMMA FindKeeps == ASSUME IInv, (\E r \in Runs : OpenRun(r)) \/ FindRun PROVE IInv'
<1>1. UNCHANGED data /\ walk' = walk  BY DEF OpenRun, FindRun, data
<1>2. ASSUME NEW r \in Runs, OpenRun(r) PROVE IInv'
  <2>1. /\ request' = [kind |-> "find", run |-> r, now |-> clock, before |-> RowsOf(r)]
        /\ page' = [kind |-> "blank"]
    BY <1>2 DEF OpenRun, Blank, RowsOf
  <2>2. /\ request'.kind = "find" /\ request'.run = r /\ request'.now = clock
        /\ request'.before = RowsOf(r) /\ page'.kind = "blank"
    BY <2>1
  <2>3. (request.before \subseteq RowsOf(request.run))'
    BY <1>1, <2>2 DEF RowsOf, data
  <2>4. RequestInv'  BY <2>1, <2>2, <2>3 DEF RequestInv, Waiting, RowsOf
  <2>5. PageInv'  BY <2>2 DEF PageInv
  <2> QED  BY <1>1, <2>2, <2>4, <2>5, StepKeeps
<1>3. CASE FindRun
  <2>1. /\ request = [kind |-> "find", run |-> request.run, now |-> request.now,
                      before |-> request.before]
        /\ request.run \in Runs /\ request.before \subseteq RowsOf(request.run)
    BY <1>3 DEF FindRun, IInv, RequestInv
  <2>2. CASE request.run \in Stored
    <3>1. /\ request' = [kind |-> "collect", run |-> request.run, before |-> request.before,
                         view |-> toRunSummaryView(request.run, request.now), answered |-> <<>>]
          /\ page' = page
      BY <1>3, <2>2 DEF FindRun
    <3>2. /\ request'.kind = "collect" /\ request'.run = request.run
          /\ request'.before = request.before /\ request'.view.id = request.run
          /\ DOMAIN request'.answered = {}
          /\ request' = [kind |-> "collect", run |-> request'.run, before |-> request'.before,
                         view |-> request'.view, answered |-> request'.answered]
      BY <3>1 DEF toRunSummaryView
    <3>3. Detailed(request)'
      BY <1>1, <2>1, <2>2, <3>2 DEF Detailed, RowsOf, Stored, data
    <3>4. RequestInv'  BY <3>2, <3>3 DEF RequestInv, Waiting
    <3> QED  BY <1>1, <3>1, <3>2, <3>4, PageStays, StepKeeps DEF IInv
  <2>3. CASE request.run \notin Stored
    <3>1. request'.kind = "none" /\ page'.kind = "not-found"  BY <1>3, <2>3 DEF FindRun, Idle
    <3>2. RequestInv' /\ PageInv'  BY <3>1 DEF RequestInv, PageInv, Waiting
    <3> QED  BY <1>1, <3>1, <3>2, StepKeeps
  <2> QED  BY <2>2, <2>3
<1> QED  BY <1>2, <1>3

\* A collection is answered.
LEMMA CollectKeeps == ASSUME IInv, NEW kind \in Kinds, ListChildren(kind) PROVE IInv'
<1>1. /\ UNCHANGED data /\ walk' = walk /\ page' = page /\ Waiting("collect")
      /\ kind \notin DOMAIN request.answered
  BY DEF ListChildren, data
<1>2. PICK s \in listChildren(request.run, kind) :
        request' = [request EXCEPT !.answered = Put(@, kind, [i \in DOMAIN s |-> toView(s[i])])]
  BY DEF ListChildren
<1> DEFINE v == [i \in DOMAIN s |-> toView(s[i])]
           a == Put(request.answered, kind, v)
<1>3. /\ request = [kind |-> "collect", run |-> request.run, before |-> request.before,
                    view |-> request.view, answered |-> request.answered]
      /\ Detailed(request)
  BY <1>1 DEF IInv, RequestInv
<1>4. /\ request.run \in Stored /\ request.view.id = request.run
      /\ request.before \subseteq RowsOf(request.run)
      /\ DOMAIN request.answered \subseteq Kinds
      /\ \A k \in DOMAIN request.answered :
           Listing(request.answered[k], k, request.before, OfRun(request.run, k))
  BY <1>3 DEF Detailed
<1>5. Listing(v, kind, request.before, OfRun(request.run, kind))
  BY <1>2, <1>4, CollectionIsListing DEF IInv
<1> HIDE DEF v
<1>6. /\ DOMAIN a \subseteq Kinds
      /\ \A k \in DOMAIN a : Listing(a[k], k, request.before, OfRun(request.run, k))
  BY <1>4, <1>5 DEF Put
<1>7. request' = [kind |-> "collect", run |-> request.run, before |-> request.before,
                  view |-> request.view, answered |-> a]
  BY <1>2, <1>3 DEF v
<1> HIDE DEF a
<1>8. /\ request'.kind = "collect" /\ request'.run = request.run
      /\ request'.before = request.before /\ request'.view = request.view
      /\ request'.answered = a
      /\ request' = [kind |-> "collect", run |-> request'.run, before |-> request'.before,
                     view |-> request'.view, answered |-> request'.answered]
  BY <1>7
<1>9. Detailed(request)'
  BY <1>1, <1>4, <1>6, <1>8 DEF Detailed, RowsOf, OfRun, Stored, data
<1>10. RequestInv'  BY <1>8, <1>9 DEF RequestInv, Waiting
<1> QED  BY <1>1, <1>8, <1>10, PageStays, StepKeeps DEF IInv

\* The detail is complete, and the summary's row is read.
LEMMA SummaryKeeps == ASSUME IInv, AnswerDetail \/ FindSummaryRun PROVE IInv'
<1>1. UNCHANGED data /\ walk' = walk /\ page' = page  BY DEF AnswerDetail, FindSummaryRun,
                                                           data
<1>2. CASE AnswerDetail
  <2>1. Detailed(request) /\ DOMAIN request.answered = Kinds
    BY <1>2 DEF AnswerDetail, IInv, RequestInv
  <2>2. request' = [kind |-> "summary", run |-> request.run, before |-> request.before,
                    view |-> request.view, answered |-> request.answered]
    BY <1>2 DEF AnswerDetail
  <2>3. /\ request'.kind = "summary" /\ request'.run = request.run
        /\ request'.before = request.before /\ request'.view = request.view
        /\ request'.answered = request.answered
        /\ request' = [kind |-> "summary", run |-> request'.run, before |-> request'.before,
                       view |-> request'.view, answered |-> request'.answered]
    BY <2>2
  <2>4. Detailed(request)'  BY <1>1, <2>1, <2>3, DetailStays
  <2>5. RequestInv'  BY <2>1, <2>3, <2>4 DEF RequestInv, Waiting
  <2> QED  BY <1>1, <2>3, <2>5, PageStays, StepKeeps DEF IInv
<1>3. CASE FindSummaryRun
  <2>1. Detailed(request) /\ DOMAIN request.answered = Kinds
    BY <1>3 DEF FindSummaryRun, IInv, RequestInv
  <2>2. request' = [kind |-> "metrics", run |-> request.run, before |-> request.before,
                    view |-> request.view, answered |-> request.answered,
                    dropped |-> runs[request.run].dropped, metrics |-> <<>>]
    BY <1>3 DEF FindSummaryRun
  <2>3. /\ request'.kind = "metrics" /\ request'.run = request.run
        /\ request'.before = request.before /\ request'.view = request.view
        /\ request'.answered = request.answered /\ request'.dropped = runs[request.run].dropped
        /\ DOMAIN request'.metrics = {}
        /\ request' = [kind |-> "metrics", run |-> request'.run, before |-> request'.before,
                       view |-> request'.view, answered |-> request'.answered,
                       dropped |-> request'.dropped, metrics |-> request'.metrics]
    BY <2>2
  <2>4. Detailed(request)'  BY <1>1, <2>1, <2>3, DetailStays
  <2>5. /\ request'.dropped \in 0..MaxDropped \cup {null}
        /\ Credited(request'.dropped, runs[request.run].dropped)
    <3>1. request.run \in Stored /\ runs[request.run] \in RunRecord
      BY <2>1 DEF Detailed, IInv, Typed
    <3> QED  BY <2>3, <3>1, Ordered DEF RunRecord, Credited, IInv
  <2>6. RequestInv'  BY <1>1, <2>1, <2>3, <2>4, <2>5 DEF RequestInv, Waiting, data
  <2> QED  BY <1>1, <2>3, <2>6, PageStays, StepKeeps DEF IInv
<1> QED  BY <1>2, <1>3

\* One of the summary's two queries answers.
LEMMA MetricsKeeps == ASSUME IInv, NEW kind \in Kinds, ListMetrics(kind) PROVE IInv'
<1> DEFINE a == Put(request.metrics, kind, OfRun(request.run, kind))
<1>1. /\ UNCHANGED data /\ walk' = walk /\ page' = page /\ Waiting("metrics")
      /\ kind \in {"modelCalls", "toolCalls"} \ DOMAIN request.metrics
      /\ request' = [request EXCEPT !.metrics = a]
  BY DEF ListMetrics, data
<1>2. /\ request = [kind |-> "metrics", run |-> request.run, before |-> request.before,
                    view |-> request.view, answered |-> request.answered,
                    dropped |-> request.dropped, metrics |-> request.metrics]
      /\ Detailed(request) /\ DOMAIN request.answered = Kinds
      /\ request.dropped \in 0..MaxDropped \cup {null}
      /\ Credited(request.dropped, runs[request.run].dropped)
      /\ DOMAIN request.metrics \subseteq {"modelCalls", "toolCalls"}
      /\ \A k \in DOMAIN request.metrics :
           Counted(request.metrics[k], k, request.before, OfRun(request.run, k))
  BY <1>1 DEF IInv, RequestInv
<1>3. Counted(OfRun(request.run, kind), kind, request.before, OfRun(request.run, kind))
  BY <1>2 DEF Counted, Detailed, RowsOf, OfRun
<1>4. /\ DOMAIN a \subseteq {"modelCalls", "toolCalls"}
      /\ \A k \in DOMAIN a : Counted(a[k], k, request.before, OfRun(request.run, k))
  BY <1>1, <1>2, <1>3 DEF Put
<1> HIDE DEF a
<1>5. request' = [kind |-> "metrics", run |-> request.run, before |-> request.before,
                  view |-> request.view, answered |-> request.answered,
                  dropped |-> request.dropped, metrics |-> a]
  BY <1>1, <1>2
<1>6. /\ request'.kind = "metrics" /\ request'.run = request.run
      /\ request'.before = request.before /\ request'.view = request.view
      /\ request'.answered = request.answered /\ request'.dropped = request.dropped
      /\ request'.metrics = a
      /\ request' = [kind |-> "metrics", run |-> request'.run, before |-> request'.before,
                     view |-> request'.view, answered |-> request'.answered,
                     dropped |-> request'.dropped, metrics |-> request'.metrics]
  BY <1>5
<1>7. Detailed(request)'  BY <1>1, <1>2, <1>6, DetailStays
<1>8. RequestInv'
  BY <1>1, <1>2, <1>4, <1>6, <1>7 DEF RequestInv, Waiting, OfRun, data
<1> QED  BY <1>1, <1>6, <1>8, PageStays, StepKeeps DEF IInv

\* The page is put together, with its summary or, when that failed, without.
LEMMA RunPageKeeps ==
    ASSUME IInv, UNCHANGED data, Detailed(request), DOMAIN request.answered = Kinds,
           NEW dropped \in 0..MaxDropped \cup {null}, Credited(dropped, runs[request.run].dropped),
           page'.kind = "run", page'.view = request.view, page'.before = request.before,
           page'.collections = request.answered, page'.dropped = dropped,
           \/ "summary" \notin DOMAIN page'
           \/ \E mc, tc \in SUBSET Children :
                /\ Counted(mc, "modelCalls", request.before, OfRun(request.run, "modelCalls"))
                /\ Counted(tc, "toolCalls", request.before, OfRun(request.run, "toolCalls"))
                /\ page'.summary = aggregateRunSummary(mc, tc, page'.summary.droppedTelemetryEventCount)
    PROVE  PageInv'
<1>1. /\ request.run \in Stored /\ page'.view.id = request.run
      /\ request.before \subseteq RowsOf(request.run)
      /\ \A k \in Kinds : Listing(request.answered[k], k, request.before, OfRun(request.run, k))
  BY DEF Detailed
<1>2. Stored' = Stored /\ runs' = runs /\ children' = children  BY DEF data, Stored
<1> QED  BY <1>1, <1>2 DEF PageInv, RowsOf, OfRun

\* The summary is answered.
LEMMA AnswerSummaryKeeps == ASSUME IInv, AnswerSummary PROVE IInv'
<1> DEFINE mc == request.metrics["modelCalls"]
           tc == request.metrics["toolCalls"]
           sum == aggregateRunSummary(mc, tc, request.dropped)
<1>1. /\ UNCHANGED data /\ walk' = walk /\ Waiting("metrics") /\ request' = Idle
      /\ DOMAIN request.metrics = {"modelCalls", "toolCalls"}
      /\ page' = summarisedPage(sum)
  BY DEF AnswerSummary, data
<1>2. /\ Detailed(request) /\ DOMAIN request.answered = Kinds
      /\ request.dropped \in 0..MaxDropped \cup {null}
      /\ Credited(request.dropped, runs[request.run].dropped)
      /\ Counted(mc, "modelCalls", request.before, OfRun(request.run, "modelCalls"))
      /\ Counted(tc, "toolCalls", request.before, OfRun(request.run, "toolCalls"))
  BY <1>1 DEF IInv, RequestInv
<1>3. mc \in SUBSET Children /\ tc \in SUBSET Children
  BY <1>2 DEF Counted, OfRun, IInv, Typed
<1>4. sum.droppedTelemetryEventCount = request.dropped  BY DEF aggregateRunSummary
<1> HIDE DEF sum
<1>5. /\ page'.kind = "run" /\ page'.view = request.view /\ page'.before = request.before
      /\ page'.collections = request.answered /\ page'.dropped = request.dropped
      /\ page'.summary = sum
  BY <1>1, <1>4 DEF summarisedPage
<1>6. page'.summary = aggregateRunSummary(mc, tc, page'.summary.droppedTelemetryEventCount)
  BY <1>4, <1>5 DEF sum
<1>7. PageInv'  BY <1>1, <1>2, <1>3, <1>5, <1>6, RunPageKeeps
<1>8. RequestInv'  BY <1>1 DEF RequestInv, Waiting, Idle
<1> QED  BY <1>1, <1>5, <1>7, <1>8, StepKeeps DEF Idle

\* A request that fails leaves a page without a drop count, or a failure card.
LEMMA FailsKeeps == ASSUME IInv, RequestFails PROVE IInv'
<1>1. /\ UNCHANGED data /\ walk' = walk /\ request' = Idle
      /\ page' = IF request.kind \in {"summary", "metrics"} THEN runPage(null)
                 ELSE [kind |-> "failure"]
  BY DEF RequestFails, data
<1>2. RequestInv'  BY <1>1 DEF RequestInv, Waiting, Idle
<1>3. CASE request.kind \in {"summary", "metrics"}
  <2>1. Detailed(request) /\ DOMAIN request.answered = Kinds
    BY <1>3 DEF IInv, RequestInv, Waiting
  <2>2. page' = [kind |-> "run", view |-> request.view, before |-> request.before,
                 collections |-> request.answered, dropped |-> null]
    BY <1>1, <1>3 DEF runPage
  <2>3. /\ page'.kind = "run" /\ page'.view = request.view /\ page'.before = request.before
        /\ page'.collections = request.answered /\ page'.dropped = null
        /\ "summary" \notin DOMAIN page'
    BY <2>2
  <2>4. Credited(null, runs[request.run].dropped)  BY DEF Credited
  <2>5. PageInv'  BY <1>1, <2>1, <2>3, <2>4, RunPageKeeps
  <2> QED  BY <1>1, <1>2, <2>3, <2>5, StepKeeps DEF Idle
<1>4. CASE request.kind \notin {"summary", "metrics"}
  <2>1. page'.kind = "failure"  BY <1>1, <1>4
  <2>2. PageInv'  BY <2>1 DEF PageInv
  <2> QED  BY <1>1, <1>2, <2>1, <2>2, StepKeeps DEF Idle
<1> QED  BY <1>3, <1>4

-----------------------------------------------------------------------------
(* The theorems *)

\* The read side starts in the inductive invariant, ...
LEMMA Initially == Init => IInv
<1> SUFFICES ASSUME Init PROVE IInv  OBVIOUS
<1>1. Stored = {} /\ request.kind = "none" /\ page.kind = "blank"  BY DEF Init, Stored, Idle,
                                                                        Blank
<1>2. Typed
  <2>1. runs \in [Stored -> RunRecord]  BY <1>1 DEF Init, Stored
  <2> QED  BY <1>1, <2>1, BoundsAssumption DEF Init, Typed
<1>3. WalkInv  BY <1>1 DEF Init, WalkInv, Waiting
<1>4. LivenessInv  BY <1>1 DEF Init, LivenessInv
<1>5. RequestInv /\ PageInv  BY <1>1 DEF RequestInv, PageInv, Waiting
<1> QED  BY <1>2, <1>3, <1>4, <1>5 DEF IInv

\* ... and every step, of a writer or of the reader, keeps it.
LEMMA Inductive == ASSUME IInv, [Next]_vars PROVE IInv'
<1>1. CASE Write
  BY <1>1, ReceiveKeeps, LoadKeeps, StoreKeeps, StoreChildKeeps, CreditKeeps DEF Write
<1>2. CASE ReadList
  BY <1>2, TurnKeeps, AnswerPageKeeps DEF ReadList
<1>3. CASE ReadRun
  BY <1>3, FindKeeps, CollectKeeps, SummaryKeeps, MetricsKeeps, AnswerSummaryKeeps DEF ReadRun
<1>4. CASE RequestFails  BY <1>4, FailsKeeps
<1>5. CASE UNCHANGED vars
  <2>1. UNCHANGED <<runs, children, request, page, walk>>  BY <1>5 DEF vars
  <2>2. Typed' /\ LivenessInv'  BY <1>5 DEF vars, IInv, Typed, LivenessInv, Stored
  <2>3. RunsGrow  BY <2>1, StayingGrows DEF IInv
  <2> QED  BY <2>1, <2>2, <2>3, GrowthKeeps
<1> QED  BY <1>1, <1>2, <1>3, <1>4, <1>5 DEF Next

\* So it always holds.
LEMMA Invariance == Spec => []IInv
<1>1. IInv /\ [Next]_vars => IInv'  BY Inductive
<1> QED  BY Initially, <1>1, PTL DEF Spec

\* Offset paging over RUN_LIST_ORDER misses no run that was stored when the walk began,
\* whatever is created, updated or retried between its pages.
THEOREM PagingIsComplete == Spec => []PagingMissesNothing
<1>1. IInv => PagingMissesNothing
  BY DEF IInv, WalkInv, PagingMissesNothing, OnList
<1> QED  BY Invariance, <1>1, PTL

\* What the rows of an answered page are.
LEMMA RowsOfPage ==
    ASSUME IInv, AnswerPage
    PROVE  /\ page'.now = request.now /\ request.now \in 0..MaxClock
           /\ \A v \in ToSet(page'.runs) : \E r \in Stored : v = toRunSummaryView(r, request.now)
<1> DEFINE o == request.offset
           now == request.now
<1>1. /\ Waiting("list") /\ page' \in listAnswers(o, now)
  BY DEF AnswerPage
<1>2. o \in Nat /\ now \in 0..MaxClock  BY <1>1 DEF IInv, WalkInv
<1>3. PICK s \in Listings(Stored, RunListOrder) : page' = listView(o, now, Page(s, Limit + 1, o))
  BY <1>1 DEF listAnswers, listRuns
<1>4. s \in Seq(Stored)  BY <1>3, PlaceIsPosition DEF IInv
<1> DEFINE R == Page(s, Limit + 1, o)
           m == Min({Limit, Len(R)})
           views == [i \in 1..m |-> toRunSummaryView(R[i], now)]
<1>5. Len(R) \in Nat /\ R \in Seq(Stored)  BY <1>2, <1>4, OnePage
<1>6. page'.now = now /\ page'.runs = views  BY <1>3 DEF listView
<1> HIDE DEF R
<1>7. m \in Nat /\ m <= Len(R)
  <2>1. Limit \in Int /\ Limit \in Nat /\ Len(R) \in Int  BY <1>5, BoundsAssumption
  <2> QED  BY <1>5, <2>1, Extremes
<1> HIDE DEF m
<1>8. \A i \in 1..m : R[i] \in Stored  BY <1>5, <1>7
<1>9. ToSet(views) = {views[i] : i \in 1..m}  BY DEF ToSet
<1>10. \A v \in ToSet(views) : \E r \in Stored : v = toRunSummaryView(r, now)
  BY <1>8, <1>9
<1> QED  BY <1>2, <1>6, <1>10

\* STALE on the list means that nothing the server received of the run is recent, RUNNING that
\* something is, and a run that ended is neither.
THEOREM StaleIsSilent == Spec => StaleMeansSilent
<1>1. ASSUME IInv, [Next]_vars, page' # page, page'.kind = "list", NEW v \in ToSet(page'.runs)
      PROVE  LET recent == \E t \in events[v.id] : t + staleThresholdMs >= page'.now
             IN /\ v.status = "STALE" => ~recent \/ PutBack(v.id)
                /\ v.status = "RUNNING" => recent
                /\ v.status \in {"STALE", "RUNNING"} <=> runs[v.id].status = "RUNNING"
  <2>1. AnswerPage
    <3>1. CASE Write \/ UNCHANGED vars
      <4>1. page' = page
        BY <3>1 DEF Write, Tick, ReceiveBatch, LoadRun, StoreRunEvent, StoreChild,
             CreditDrops, vars
      <4> QED  BY <1>1, <4>1
    <3>2. CASE OpenList \/ Older \/ Newer
      <4>1. page' = [kind |-> "blank"]  BY <3>2 DEF OpenList, Older, Newer, AskPage, Blank
      <4> QED  BY <1>1, <4>1
    <3>3. CASE ReadRun
      <4>1. CASE \E r \in Runs : OpenRun(r)  BY <1>1, <4>1 DEF OpenRun, Blank
      <4>2. CASE \E kind \in Kinds : ListChildren(kind) \/ ListMetrics(kind)
        <5>1. page' = page  BY <4>2 DEF ListChildren, ListMetrics
        <5> QED  BY <1>1, <5>1
      <4>3. CASE FindRun  BY <1>1, <4>3 DEF FindRun
      <4>4. CASE AnswerDetail \/ FindSummaryRun
        <5>1. page' = page  BY <4>4 DEF AnswerDetail, FindSummaryRun
        <5> QED  BY <1>1, <5>1
      <4>5. CASE AnswerSummary  BY <1>1, <4>5 DEF AnswerSummary, summarisedPage
      <4> QED  BY <3>3, <4>1, <4>2, <4>3, <4>4, <4>5 DEF ReadRun
    <3>4. CASE RequestFails  BY <1>1, <3>4 DEF RequestFails, runPage
    <3> QED  BY <1>1, <3>1, <3>2, <3>3, <3>4 DEF Next, ReadList
  <2>2. PICK r \in Stored : v = toRunSummaryView(r, request.now)  BY <1>1, <2>1, RowsOfPage
  <2> DEFINE now == request.now
             last == runs[r].lastEventAt
  <2>3. page'.now = now /\ now \in Int
    <3>1. page'.now = now /\ now \in 0..MaxClock  BY <1>1, <2>1, RowsOfPage
    <3> QED  BY <3>1, BoundsAssumption
  <2>4. /\ r \in Runs /\ last \in events[r] /\ last \in 0..MaxClock
        /\ runs[r].status \in {"RUNNING", "COMPLETED", "FAILED"}
        /\ \A t \in events[r] : t \in 0..MaxClock
    <3>1. r \in Runs /\ runs[r] \in RunRecord /\ last \in events[r]
      BY <1>1 DEF IInv, Typed, LivenessInv
    <3>2. last \in 0..MaxClock /\ runs[r].status \in Status  BY <3>1 DEF RunRecord
    <3>3. \A t \in events[r] : t \in 0..MaxClock  BY <1>1, <3>1 DEF IInv, Typed
    <3> QED  BY <3>1, <3>2, <3>3 DEF Status
  <2>5. v.id = r /\ v.status = deriveRunViewStatus(runs[r], now)  BY <2>2 DEF toRunSummaryView
  <2>6. last \in Int /\ staleThresholdMs \in Int /\ \A t \in events[r] : t \in Int
    BY <2>4, BoundsAssumption
  <2>7. v.status = "STALE" => runs[r].status = "RUNNING" /\ now - last > staleThresholdMs
    BY <2>4, <2>5 DEF deriveRunViewStatus
  <2>8. v.status = "RUNNING" => runs[r].status = "RUNNING" /\ ~(now - last > staleThresholdMs)
    BY <2>4, <2>5 DEF deriveRunViewStatus
  <2>9. v.status \in {"STALE", "RUNNING"} <=> runs[r].status = "RUNNING"
    BY <2>4, <2>5 DEF deriveRunViewStatus
  <2> HIDE DEF now, last
  <2>10. ASSUME v.status = "STALE", NEW t \in events[r], t + staleThresholdMs >= now PROVE t > last
    <3>1. now - last > staleThresholdMs /\ t \in Int  BY <2>6, <2>7, <2>10
    <3> QED  BY <2>3, <2>6, <2>10, <3>1
  <2>11. v.status = "RUNNING" => last + staleThresholdMs >= now
    BY <2>3, <2>6, <2>8
  <2> QED  BY <2>3, <2>4, <2>5, <2>9, <2>10, <2>11 DEF PutBack, last
<1>2. IInv /\ [Next]_vars =>
        (page' # page /\ page'.kind = "list" =>
         \A v \in ToSet(page'.runs) :
           LET recent == \E t \in events[v.id] : t + staleThresholdMs >= page'.now
           IN /\ v.status = "STALE" => ~recent \/ PutBack(v.id)
              /\ v.status = "RUNNING" => recent
              /\ v.status \in {"STALE", "RUNNING"} <=> runs[v.id].status = "RUNNING")
  BY <1>1
<1> QED  BY Invariance, <1>2, PTL DEF Spec, StaleMeansSilent

-----------------------------------------------------------------------------

\* The run page shows the run.
LEMMA PageIsTheRun == IInv => RunPageIsTheRun
<1> SUFFICES ASSUME IInv, page.kind = "run" PROVE RunPageIsTheRun  BY DEF RunPageIsTheRun
<1> DEFINE r == page.view.id
           shown == UNION {ToSet(page.collections[k]) : k \in Kinds}
           Names(S) == {<<c.kind, c.id>> : c \in S}
<1>1. /\ r \in Stored /\ page.before \subseteq RowsOf(r)
      /\ \A k \in Kinds : Listing(page.collections[k], k, page.before, OfRun(r, k))
      /\ Credited(page.dropped, runs[r].dropped)
  BY DEF IInv, PageInv
<1>2. \A k \in Kinds : \A i \in DOMAIN page.collections[k] : page.collections[k][i] \in shown
  BY DEF ToSet
<1>3. \A e \in shown : \E k \in Kinds : \E i \in DOMAIN page.collections[k] : e = page.collections[k][i]
  BY DEF ToSet
<1> HIDE DEF shown
<1>4. \A c \in page.before : c.kind \in Kinds
  <2>1. \A c \in page.before : c \in Children  BY <1>1 DEF RowsOf, IInv, Typed
  <2> QED  BY <2>1, ChildrenAssumption
<1>5. Names(page.before) \subseteq Names(shown)
  <2>1. ASSUME NEW c \in page.before PROVE \E e \in shown : e.kind = c.kind /\ e.id = c.id
    <3> DEFINE s == page.collections[c.kind]
    <3>1. \E i \in DOMAIN s : s[i].kind = c.kind /\ s[i].id = c.id
      BY <1>1, <1>4, <2>1 DEF Listing
    <3> QED  BY <1>2, <1>4, <2>1, <3>1
  <2> QED  BY <2>1
<1>6. Names(shown) \subseteq Names({c \in children : c.run = r})
  <2>1. ASSUME NEW e \in shown
        PROVE  \E c \in {c \in children : c.run = r} : e.kind = c.kind /\ e.id = c.id
    <3>1. PICK k \in Kinds : \E i \in DOMAIN page.collections[k] : e = page.collections[k][i]
      BY <1>3, <2>1
    <3>2. \E c \in OfRun(r, k) : e.kind = k /\ e.id = c.id  BY <1>1, <3>1 DEF Listing
    <3> QED  BY <3>2 DEF OfRun
  <2> QED  BY <2>1
<1>7. \A k \in Kinds : \A i, j \in DOMAIN page.collections[k] :
        LET c == page.collections[k][i]
            d == page.collections[k][j]
        IN i < j => c.at <= d.at /\ (c.at = d.at => c.id < d.id)
  BY <1>1 DEF Listing
<1>8. page.dropped # null => runs[r].dropped # null /\ page.dropped <= runs[r].dropped
  BY <1>1 DEF Credited
<1> QED  BY <1>5, <1>6, <1>7, <1>8 DEF RunPageIsTheRun, shown

\* The count of a set lies between those of a set it includes and one that includes it.
LEMMA Between ==
    ASSUME NEW A, NEW M, NEW B, A \subseteq M, M \subseteq B, IsFiniteSet(B)
    PROVE  IsFiniteSet(M) /\ Cardinality(M) \in Nat /\ Cardinality(M) \in Cardinality(A)..Cardinality(B)
<1>1. IsFiniteSet(M) /\ Cardinality(M) <= Cardinality(B)  BY FS_Subset
<1>2. IsFiniteSet(A) /\ Cardinality(A) <= Cardinality(M)  BY <1>1, FS_Subset
<1>3. Cardinality(A) \in Nat /\ Cardinality(M) \in Nat /\ Cardinality(B) \in Nat
  BY <1>1, <1>2, FS_CardinalityType
<1> QED  BY <1>1, <1>2, <1>3

\* The summary counts the run's calls.
LEMMA SummaryCounts == IInv => SummaryCountsEveryCall
<1> SUFFICES ASSUME IInv, page.kind = "run", "summary" \in DOMAIN page PROVE SummaryCountsEveryCall
  BY DEF SummaryCountsEveryCall
<1> DEFINE r == page.view.id
           sum == page.summary
           Calls(S, kind) == {c \in S : c.run = r /\ c.kind = kind /\ TRUE}
           Missing(S, kind) == {c \in S : c.run = r /\ c.kind = kind /\ c.inputTokens = null}
           Counting(S, kind) == {c \in S : c.run = r /\ c.kind = kind /\ c.inputTokens # null}
           Failed(S, kind) == {c \in S : c.run = r /\ c.kind = kind /\ ~c.success}
<1>1. PICK mc, tc \in SUBSET Children :
        /\ Counted(mc, "modelCalls", page.before, OfRun(r, "modelCalls"))
        /\ Counted(tc, "toolCalls", page.before, OfRun(r, "toolCalls"))
        /\ sum = aggregateRunSummary(mc, tc, sum.droppedTelemetryEventCount)
  BY DEF IInv, PageInv
<1> DEFINE counted == {c \in mc : c.inputTokens # null}
           failed == {c \in tc : ~c.success}
<1>2. /\ sum.modelCallCount = Cardinality(mc)
      /\ sum.modelCallsMissingInputTokens = Cardinality(mc \ counted)
      /\ sum.failedToolCallCount = Cardinality(failed)
  BY <1>1 DEF aggregateRunSummary
<1>3. IsFiniteSet(children)
  BY ChildrenAssumption, FS_Subset DEF IInv, Typed
<1>4. Calls(page.before, "modelCalls") \subseteq mc /\ mc \subseteq Calls(children, "modelCalls")
  BY <1>1 DEF Counted, OfRun
<1>5. /\ Missing(page.before, "modelCalls") \subseteq mc \ counted
      /\ mc \ counted \subseteq Missing(children, "modelCalls")
  BY <1>1 DEF Counted, OfRun
<1>6. /\ Counting(page.before, "modelCalls") \subseteq counted
      /\ counted \subseteq Counting(children, "modelCalls")
  BY <1>1 DEF Counted, OfRun
<1>7. Failed(page.before, "toolCalls") \subseteq failed /\ failed \subseteq Failed(children, "toolCalls")
  BY <1>1 DEF Counted, OfRun
<1>8. /\ IsFiniteSet(Calls(children, "modelCalls")) /\ IsFiniteSet(Missing(children, "modelCalls"))
      /\ IsFiniteSet(Counting(children, "modelCalls")) /\ IsFiniteSet(Failed(children, "toolCalls"))
  <2>1. /\ Calls(children, "modelCalls") \in SUBSET children
        /\ Missing(children, "modelCalls") \in SUBSET children
        /\ Counting(children, "modelCalls") \in SUBSET children
        /\ Failed(children, "toolCalls") \in SUBSET children
    OBVIOUS
  <2> HIDE DEF Calls, Missing, Counting, Failed
  <2> QED  BY <1>3, <2>1, FS_Subset
<1>9. counted \subseteq mc  OBVIOUS
<1> HIDE DEF Calls, Missing, Counting, Failed, counted, failed
<1>10. IsFiniteSet(mc) /\ sum.modelCallCount \in
         Cardinality(Calls(page.before, "modelCalls"))..Cardinality(Calls(children, "modelCalls"))
  BY <1>2, <1>4, <1>8, Between, ZenonT(40)
<1>11. sum.modelCallsMissingInputTokens \in
         Cardinality(Missing(page.before, "modelCalls"))..Cardinality(Missing(children, "modelCalls"))
  <2> DEFINE missing == mc \ counted
  <2>1. /\ Missing(page.before, "modelCalls") \subseteq missing
        /\ missing \subseteq Missing(children, "modelCalls")
        /\ sum.modelCallsMissingInputTokens = Cardinality(missing)
    BY <1>2, <1>5
  <2> HIDE DEF missing
  <2> QED  BY <1>8, <2>1, Between
<1>12. sum.modelCallCount - sum.modelCallsMissingInputTokens = Cardinality(counted)
  <2>1. mc \cap counted = counted  BY <1>9
  <2>2. Cardinality(mc \ counted) = Cardinality(mc) - Cardinality(counted)
    BY <1>10, <2>1, FS_Difference
  <2>3. IsFiniteSet(counted)  BY <1>9, <1>10, FS_Subset
  <2>4. Cardinality(mc) \in Nat /\ Cardinality(counted) \in Nat
    BY <1>10, <2>3, FS_CardinalityType
  <2> QED  BY <1>2, <2>2, <2>4
<1>13. sum.modelCallCount - sum.modelCallsMissingInputTokens \in
         Cardinality(Counting(page.before, "modelCalls"))..Cardinality(Counting(children, "modelCalls"))
  BY <1>6, <1>8, <1>12, Between
<1>14. sum.failedToolCallCount \in
         Cardinality(Failed(page.before, "toolCalls"))..Cardinality(Failed(children, "toolCalls"))
  BY <1>2, <1>7, <1>8, Between
<1> QED
  BY <1>10, <1>11, <1>13, <1>14
     DEF SummaryCountsEveryCall, Calls, Missing, Counting, Failed

\* The run page and its summary, put together from queries between which rows are written, show
\* every row there was when the page was opened and none that is not stored.
THEOREM ReadsConsistent == Spec => []ReadsAreConsistent
<1>1. IInv => TypeOK
  BY DEF IInv, Typed, WalkInv, Waiting, TypeOK
<1>2. IInv => ReadsAreConsistent
  BY <1>1, PageIsTheRun, SummaryCounts DEF ReadsAreConsistent
<1> QED  BY Invariance, <1>2, PTL
=============================================================================
