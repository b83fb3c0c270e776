------------------------- MODULE MCTelemetryIngest --------------------------
(***************************************************************************)
(* Small instances of TelemetryIngest for TLC.                             *)
(***************************************************************************)
EXTENDS TelemetryIngest, TLC

Event(id, run, entity, type, at, status, name, meta, defect) ==
    [id |-> id, run |-> run, entity |-> entity, type |-> type, at |-> at,
     status |-> status, name |-> name, meta |-> meta, defect |-> defect]

\* Two starts that tie on their instant and one that precedes them ...
start1 == Event(1, "r1", "r1", "start", 5, "COMPLETED", "n1", "m1", "none")
start2 == Event(2, "r1", "r1", "start", 5, "COMPLETED", "n2", absent, "none")
start3 == Event(3, "r1", "r1", "start", 4, "COMPLETED", "n2", null, "none")

\* ... three completions: the earliest fails, the last two tie, and the one that
\* wins the tie has no metadata.
done4 == Event(4, "r1", "r1", "completion", 8, "COMPLETED", "n1", "m2", "none")
done5 == Event(5, "r1", "r1", "completion", 8, "COMPLETED", "n1", absent, "none")
fail6 == Event(6, "r1", "r1", "completion", 7, "FAILED", "n1", "m1", "none")

step7 == Event(7, "r1", "s1", "start", 6, "COMPLETED", "n1", "m1", "none")
step8 == Event(8, "r1", "s1", "completion", 6, "FAILED", "n1", null, "none")

record9 == Event(9, "r1", "d1", "decision.recorded", 6, "COMPLETED", "n1", absent, "none")
attest10 == Event(10, "r1", "d1", "decision.outcome_attested", 6, "COMPLETED", "n1", absent, "none")
call11 == Event(11, "r2", "c1", "call.recorded", 6, "COMPLETED", "n1", absent, "none")

start12 == Event(12, "r2", "r2", "start", 4, "COMPLETED", "n1", "m1", "none")
garbled13 == Event(13, "r2", "r2", "start", 4, "COMPLETED", "n1", "m1", "unparsed")
tooDeep14 == Event(14, "r2", "r2", "start", 4, "COMPLETED", "n1", "m1", "unstorable")

MCEvents == {start1, start2, start3, done4, done5, fail6, step7, step8, record9,
             attest10, call11, start12, garbled13, tooDeep14}

Submit(events, n, deliveryId) == [events |-> events, dropped |-> n, deliveryId |-> deliveryId]

Plain(events) == Submit(events, NotReported, NoDelivery)

\* Every way the events of one run reach the server: alone, split, repeated
\* within a batch and between batches, completion before start.
MergeSubmissions ==
    {Plain(<<start1, done4>>), Plain(<<done5, start2>>), Plain(<<fail6>>),
     Plain(<<start3>>), Plain(<<start2, start2>>), Plain(<<done4, fail6>>), Plain(<<done5>>)}

\* A run and its step in one batch, in both orders, and each alone.
LivenessSubmissions ==
    {Plain(<<start1, step7>>), Plain(<<step8, done4>>), Plain(<<step7, done4, step8>>),
     Plain(<<start1>>)}

\* Upserts, rejections and drop reports, with and without a delivery id.
ReportSubmissions ==
    {Submit(<<start1, record9>>, 1, "k1"),
     Submit(<<attest10, record9, step7>>, 2, "k1"),
     Submit(<<start12, attest10>>, 2, "k2"),
     Submit(<<tooDeep14, garbled13, call11>>, 2, "k2"),
     Submit(<<start1, call11>>, 1, NoDelivery),
     Submit(<<start1>>, 0, "k1")}

ServiceSubmissions == LivenessSubmissions \cup ReportSubmissions

RequestSymmetry == Permutations(Requests)
=============================================================================
