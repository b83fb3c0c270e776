--------------------------- MODULE DropReporting ----------------------------
(***************************************************************************)
(* The drop count on its way from the SDK to the run it is shown for: the  *)
(* client of TelemetryClient, requests that may be lost, late or answered  *)
(* in vain, and the part of the ingest service that folds a report into    *)
(* Run.droppedTelemetryEventCount (telemetry.service.ts and                *)
(* incrementDroppedCount of telemetry.repository.ts).                      *)
(*                                                                         *)
(* A timed-out request is not withdrawn: the server may still be at work   *)
(* on it while the client retries, gives up on the batch or delivers the   *)
(* next one.  Drops are numbered in the order the client counts them, so   *)
(* a report of `amount` above the baseline `base` is about the drops       *)
(* base + 1 .. base + amount; the server sees only the amount and the id.  *)
(* What the two ends do with the events of a batch is the subject of       *)
(* TelemetryClient and TelemetryIngest.                                    *)
(***************************************************************************)
EXTENDS TelemetryClient, FiniteSets

CONSTANT Runs       \* the runs whose events the client sends

ASSUME RunsAssumption == IsFiniteSet(Runs)

VARIABLES
    names,          \* the runs that the events of the batch name
    sent,           \* how many requests were sent
    wire,           \* requests with runs the server has not folded the report into
    deliveries,     \* DropDelivery
    stored,         \* Run.droppedTelemetryEventCount
    counted         \* history: which drops that count is made of

server == <<deliveries, stored, counted>>

network == <<names, sent, wire>>

allVars == <<vars, network, server>>

DropInit ==
    /\ Init
    /\ names = {}
    /\ sent = 0
    /\ wire = {}
    /\ deliveries = {}
    /\ stored = [r \in Runs |-> 0]
    /\ counted = [r \in Runs |-> {}]

-----------------------------------------------------------------------------

\* The runs that the events of the batch in this step's attempt may name: a retry
\* sends the same events.
BatchRuns == IF pump = "retry" THEN {names} ELSE SUBSET Runs

\* attemptDelivery: every attempt of a batch carries the batch's report and its
\* delivery id.
Attempt ==
    /\ names' \in BatchRuns
    /\ sent' = sent + 1
    /\ wire' = IF names' = {} THEN wire
               ELSE wire \cup {[n |-> sent + 1, id |-> pendingId', base |-> acknowledged,
                                amount |-> snapshot', runs |-> names']}

\* A step of the client.  `delivered` is the answer of a server that is done with
\* the request.
ClientStep ==
    /\ Next
    /\ pump = "sending" /\ pump' = "settled" /\ outcome' = "delivered"
         => \A m \in wire : m.n # sent
    /\ IF pump # "sending" /\ pump' = "sending" THEN Attempt ELSE UNCHANGED network
    /\ UNCHANGED server

-----------------------------------------------------------------------------

\* The server is done with run r of request m.
Done(m, r) == wire' = (wire \ {m}) \cup (IF m.runs = {r} THEN {}
                                         ELSE {[m EXCEPT !.runs = @ \ {r}]})

\* incrementDroppedCountRaw, for a run that has a row.
incrementDroppedCountRaw(m, r) ==
    /\ stored' = [stored EXCEPT ![r] = @ + m.amount]
    /\ counted' = [counted EXCEPT ![r] = @ \cup (m.base + 1 .. m.base + m.amount)]

\* incrementDroppedCount: one transaction.  A delivery id seen before adds nothing,
\* neither does a run that has no row yet, although its delivery is recorded.
incrementDroppedCount(m, r) ==
    /\ deliveries' = IF m.amount = 0 THEN deliveries ELSE deliveries \cup {<<r, m.id>>}
    /\ \/ /\ m.amount # 0 /\ <<r, m.id>> \in deliveries
          /\ UNCHANGED <<stored, counted>>
       \/ /\ m.amount = 0 \/ <<r, m.id>> \notin deliveries
          /\ incrementDroppedCountRaw(m, r) \/ UNCHANGED <<stored, counted>>

\* ingest's fold of the drop report.
FoldDropped == \E m \in wire : \E r \in m.runs :
    /\ incrementDroppedCount(m, r)
    /\ Done(m, r)
    /\ UNCHANGED <<vars, names, sent>>

\* Its failure is contained; the other runs are still folded.
FoldDroppedFails == \E m \in wire : \E r \in m.runs :
    /\ Done(m, r)
    /\ UNCHANGED <<vars, names, sent, server>>

DropNext == ClientStep \/ FoldDropped \/ FoldDroppedFails

DropSpec == DropInit /\ [][DropNext]_allVars

-----------------------------------------------------------------------------

WireTypeOK ==
    /\ names \subseteq Runs
    /\ sent \in Nat
    /\ \A m \in wire : /\ m.n \in 1 .. sent /\ m.id \in Nat /\ m.base \in Nat
                       /\ m.amount \in Nat /\ m.runs \subseteq Runs
    /\ deliveries \subseteq Runs \X Nat
    /\ stored \in [Runs -> Nat]
    /\ \A r \in Runs : counted[r] \subseteq Nat

(***************************************************************************)
(* No drop is counted twice in a run, and only drops that happened are:    *)
(* "two consecutive successful batches cannot count the same drop twice"   *)
(* and "never wrong-high" (acknowledgedDrops, pendingDeliveryId).  It must *)
(* hold whatever requests are lost, answered late, or folded after the     *)
(* client has given up on their batch and delivered the next one.          *)
(***************************************************************************)
DropsCountedOnce ==
    \A r \in Runs : /\ counted[r] \subseteq 1 .. totalDropped
                    /\ stored[r] = Cardinality(counted[r])

(***************************************************************************)
(* Whatever the network does, every report on the wire is one the client   *)
(* may make and no drop is counted twice for a run.                        *)
(***************************************************************************)
ReportsAreSound == WireTypeOK /\ DropsCountedOnce
=============================================================================
