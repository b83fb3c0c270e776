-------------------------- MODULE TelemetryClient ---------------------------
(***************************************************************************)
(* The delivery engine of the telemetry SDK (telemetry-sdk/src/client.ts   *)
(* with bounded-queue.ts): record() buffers events in a bounded queue, one *)
(* pump at a time takes batches from it and delivers each with a finite    *)
(* number of attempts, flush() waits for the pump, shutdown() drains under *)
(* a deadline and then gives up.                                           *)
(*                                                                         *)
(* JavaScript runs one callback at a time: an action of the model is a     *)
(* callback or the part of an async function between two awaits.  The host *)
(* calls record, flush and shutdown from callbacks of its own, which run   *)
(* between any two of the client's: also between the end of a pump and the *)
(* `finally` that clears `pumping`.  Timers, too, may fire between any two *)
(* actions, which is more than an event loop allows.                       *)
(*                                                                         *)
(* Events are numbered in the order record() accepts them.                 *)
(***************************************************************************)
EXTENDS Naturals, Sequences

CONSTANTS
    MaxQueueSize,   \* config.maxQueueSize
    MaxBatchSize,   \* config.maxBatchSize
    MaxRetries,     \* config.maxRetries
    MaxCalls        \* bound: how often the host calls record()

ASSUME ConfigAssumption ==      \* resolveConfig
    /\ MaxBatchSize \in Nat \ {0}
    /\ MaxQueueSize \in Nat
    /\ MaxBatchSize <= MaxQueueSize
    /\ MaxRetries \in Nat
    /\ MaxCalls \in Nat

VARIABLES
    queue,          \* BoundedQueue.items
    recorded,       \* counters.recorded
    delivered,      \* counters.delivered
    dropped,        \* the five drop counters, queue.dropped included
    acknowledged,   \* acknowledgedDrops
    pump,           \* where the pump is; "none" is `pumping === null`
    batch,          \* the batch being delivered
    attempt,        \* its attempts so far
    outcome,        \* how the last attempt settled
    snapshot,       \* the drop report the batch carries
    pendingId,      \* pendingDeliveryId; 0 is null
    minted,         \* how many delivery ids were generated
    flushTimer,     \* the flush timer is armed
    closed, abandoned,
    shut,           \* where performShutdown is
    flush,          \* where each call of flush() is
    mark,           \* history: what was recorded when that call was made
    calls           \* bound: calls of record() so far

delivery == <<pump, batch, attempt, snapshot, pendingId, minted>>

counters == <<recorded, delivered, dropped, acknowledged>>

vars == <<queue, counters, delivery, outcome, flushTimer, closed, abandoned,
          shut, flush, mark, calls>>

\* flush() is called by the host and by performShutdown.
Flushers == {"host", "shutdown"}

PumpStates == {"none", "sending", "settled", "backoff", "retry", "between", "ending"}

FlushStates == {"none", "pass1", "woken1", "pass2", "woken2", "done"}

NoDrops == [overflow |-> 0, invalid |-> 0, tooLarge |-> 0,
            afterShutdown |-> 0, undeliverable |-> 0]

totalDropped == dropped.overflow + dropped.invalid + dropped.tooLarge
                + dropped.afterShutdown + dropped.undeliverable

Smaller(a, b) == IF a < b THEN a ELSE b

Init ==
    /\ queue = <<>>
    /\ recorded = 0 /\ delivered = 0 /\ dropped = NoDrops /\ acknowledged = 0
    /\ pump = "none" /\ batch = <<>> /\ attempt = 0 /\ outcome = "none"
    /\ snapshot = 0 /\ pendingId = 0 /\ minted = 0
    /\ flushTimer = FALSE /\ closed = FALSE /\ abandoned = FALSE
    /\ shut = "no"
    /\ flush = [f \in Flushers |-> "none"]
    /\ mark = [f \in Flushers |-> 0]
    /\ calls = 0

-----------------------------------------------------------------------------

\* Faulty variant: the length is compared before the append.
OverflowLate(q) == IF Len(q) > MaxQueueSize THEN Len(q) - MaxQueueSize ELSE 0

\* BoundedQueue.push: append, then drop the oldest while over capacity.
Overflow(q) == IF Len(q) + 1 > MaxQueueSize THEN Len(q) + 1 - MaxQueueSize ELSE 0

Push(q, e) == SubSeq(Append(q, e), Overflow(q) + 1, Len(q) + 1)

\* BoundedQueue.take, and what it leaves.
Take(q) == SubSeq(q, 1, Smaller(MaxBatchSize, Len(q)))

Rest(q) == SubSeq(q, Smaller(MaxBatchSize, Len(q)) + 1, Len(q))

\* Faulty variants: everything ever dropped is reported again; the report of the
\* batch before is subtracted a second time.
ReportsTheTotal(total) == total

SubtractsTwice(total) == total - (acknowledged + snapshot)

pendingDropReport(total) == total - acknowledged

\* Faulty variant: every batch has an id of its own.
MintsPerBatch == TRUE

\* An id is generated when none is pending.
MintsId == pendingId = 0

\* deliverBatch up to its first await: the drop report is read once, the delivery
\* id is the pending one if there is one, and the first attempt goes out.
BeginBatch(q) ==
    /\ pump' = "sending"
    /\ batch' = Take(q)
    /\ queue' = Rest(q)
    /\ attempt' = 1
    /\ snapshot' = pendingDropReport(totalDropped')
    /\ pendingId' = IF MintsId THEN minted + 1 ELSE pendingId
    /\ minted' = IF MintsId THEN minted + 1 ELSE minted

\* The loop of pump(): the next batch, or the end of the pump.
PumpLoop(q) ==
    IF q # <<>> /\ ~abandoned
    THEN BeginBatch(q)
    ELSE /\ pump' = "ending"
         /\ batch' = <<>>
         /\ queue' = q
         /\ UNCHANGED <<attempt, snapshot, pendingId, minted>>

\* requestPump: single flight.  A pump that has ended and whose `finally` has
\* not run is still `pumping`.
requestPump(q) ==
    IF pump = "none" THEN PumpLoop(q)
    ELSE queue' = q /\ UNCHANGED delivery

-----------------------------------------------------------------------------
(* record() *)

\* enqueue: an event that passes its checks.  scheduleWork is part of it.
RecordAccepted ==
    LET q == Push(queue, recorded + 1)
    IN /\ calls < MaxCalls
       /\ ~closed
       /\ calls' = calls + 1
       /\ recorded' = recorded + 1
       /\ dropped' = [dropped EXCEPT !.overflow = @ + Overflow(queue)]
       /\ IF Len(q) >= MaxBatchSize
          THEN flushTimer' = FALSE /\ requestPump(q)
          ELSE flushTimer' = TRUE /\ queue' = q /\ UNCHANGED delivery
       /\ UNCHANGED <<delivered, acknowledged, outcome, closed, abandoned, shut, flush, mark>>

\* enqueue: a check fails or something throws, or the client is closed.
RecordDropped ==
    /\ calls < MaxCalls
    /\ calls' = calls + 1
    /\ \E reason \in IF closed THEN {"afterShutdown"} ELSE {"invalid", "tooLarge"} :
         dropped' = [dropped EXCEPT ![reason] = @ + 1]
    /\ UNCHANGED <<queue, recorded, delivered, acknowledged, delivery, outcome, flushTimer,
                   closed, abandoned, shut, flush, mark>>

FlushTimerFires ==
    /\ flushTimer
    /\ flushTimer' = FALSE
    /\ UNCHANGED <<counters, outcome, closed, abandoned, shut, flush, mark, calls>>
    /\ requestPump(queue)

-----------------------------------------------------------------------------
(* deliverBatch *)

\* raceTimeout: the transport answers; after a timeout its answer is ignored.
TransportSettles(result) ==
    /\ pump = "sending"
    /\ pump' = "settled"
    /\ outcome' = result
    /\ UNCHANGED <<queue, counters, batch, attempt, snapshot, pendingId, minted, flushTimer,
                   closed, abandoned, shut, flush, mark, calls>>

\* Faulty variant: an attempt has no timeout.
NeverTimesOut == FALSE /\ TransportSettles("retryable")

RequestTimeout == TransportSettles("retryable")

\* The continuation after an attempt that was delivered.
BatchDelivered ==
    /\ pump = "settled"
    /\ outcome = "delivered"
    /\ acknowledged' = acknowledged + snapshot
    /\ delivered' = delivered + Len(batch)
    /\ pendingId' = 0
    /\ pump' = "between"
    /\ batch' = <<>>
    /\ UNCHANGED <<queue, recorded, dropped, attempt, outcome, snapshot, minted, flushTimer,
                   closed, abandoned, shut, flush, mark, calls>>

GivesUp == outcome = "permanent" \/ attempt = MaxRetries + 1 \/ abandoned

\* The end of deliverBatch for a batch that is lost: counted, and its delivery id
\* kept for the batch that reports the same drops next.
DropBatch ==
    /\ dropped' = [dropped EXCEPT !.undeliverable = @ + Len(batch)]
    /\ pump' = "between"
    /\ batch' = <<>>
    /\ UNCHANGED <<queue, recorded, delivered, acknowledged, attempt, outcome, snapshot,
                   pendingId, minted, flushTimer, closed, abandoned, shut, flush, mark, calls>>

\* The continuation after an attempt that failed.
BatchLost ==
    /\ pump = "settled"
    /\ outcome # "delivered"
    /\ GivesUp
    /\ DropBatch

BackOff ==
    /\ pump = "settled"
    /\ outcome # "delivered"
    /\ ~GivesUp
    /\ pump' = "backoff"
    /\ UNCHANGED <<queue, counters, batch, attempt, outcome, snapshot, pendingId, minted,
                   flushTimer, closed, abandoned, shut, flush, mark, calls>>

BackoffElapses ==
    /\ pump = "backoff"
    /\ pump' = "retry"
    /\ UNCHANGED <<queue, counters, batch, attempt, outcome, snapshot, pendingId, minted,
                   flushTimer, closed, abandoned, shut, flush, mark, calls>>

\* Faulty variant: the loop does not ask whether shutdown gave up.
AttemptsLeft == attempt < MaxRetries + 1

\* The condition of the retry loop, after a backoff that elapsed or was cut short.
MayAttempt == attempt < MaxRetries + 1 /\ ~abandoned

Retry ==
    /\ pump = "retry"
    /\ MayAttempt
    /\ pump' = "sending"
    /\ attempt' = attempt + 1
    /\ UNCHANGED <<queue, counters, batch, outcome, snapshot, pendingId, minted,
                   flushTimer, closed, abandoned, shut, flush, mark, calls>>

RetryRefused ==
    /\ pump = "retry"
    /\ ~MayAttempt
    /\ DropBatch

NextBatch ==
    /\ pump = "between"
    /\ UNCHANGED dropped
    /\ PumpLoop(queue)
    /\ UNCHANGED <<recorded, delivered, acknowledged, outcome, flushTimer,
                   closed, abandoned, shut, flush, mark, calls>>

\* requestPump's `finally`; whoever awaits the pump is woken.
PumpEnds ==
    /\ pump = "ending"
    /\ pump' = "none"
    /\ flush' = [f \in Flushers |-> CASE flush[f] = "pass1" -> "woken1"
                                      [] flush[f] = "pass2" -> "woken2"
                                      [] OTHER -> flush[f]]
    /\ UNCHANGED <<queue, counters, batch, attempt, outcome, snapshot, pendingId, minted,
                   flushTimer, closed, abandoned, shut, mark, calls>>

-----------------------------------------------------------------------------
(* flush() and shutdown() *)

\* flush() up to its first await.
CallFlush(f) ==
    /\ flush' = [flush EXCEPT ![f] = "pass1"]
    /\ mark' = [mark EXCEPT ![f] = recorded]
    /\ requestPump(queue)

HostFlush ==
    /\ flush["host"] \in {"none", "done"}
    /\ UNCHANGED <<counters, outcome, flushTimer, closed, abandoned, shut, calls>>
    /\ CallFlush("host")

\* Faulty variant: one pass is enough.
OnePassIsEnough == TRUE

\* The condition of the second pass, negated.
NothingLeft == queue = <<>> \/ abandoned

\* The second pass, for what was recorded while the first was in flight.
FlushAgain(f) ==
    /\ flush[f] = "woken1"
    /\ ~NothingLeft
    /\ flush' = [flush EXCEPT ![f] = "pass2"]
    /\ UNCHANGED <<counters, outcome, flushTimer, closed, abandoned, shut, mark, calls>>
    /\ requestPump(queue)

FlushReturns(f) ==
    /\ flush[f] = "woken2" \/ (flush[f] = "woken1" /\ NothingLeft)
    /\ flush' = [flush EXCEPT ![f] = "done"]
    /\ UNCHANGED <<queue, counters, delivery, outcome, flushTimer, closed, abandoned,
                   shut, mark, calls>>

\* Faulty variant: the flush timer stays armed.
ShutdownKeepsTimer ==
    /\ shut = "no"
    /\ shut' = "draining"
    /\ closed' = TRUE
    /\ UNCHANGED <<counters, outcome, abandoned, calls, flushTimer>>
    /\ CallFlush("shutdown")

\* performShutdown up to its await; a second call joins the first.
CallShutdown ==
    /\ shut = "no"
    /\ shut' = "draining"
    /\ closed' = TRUE
    /\ flushTimer' = FALSE
    /\ UNCHANGED <<counters, outcome, abandoned, calls>>
    /\ CallFlush("shutdown")

\* The race against the deadline: the drain won ...
Drained ==
    /\ shut = "draining"
    /\ flush["shutdown"] = "done"
    /\ shut' = "done"
    /\ UNCHANGED <<queue, counters, delivery, outcome, flushTimer, closed, abandoned,
                   flush, mark, calls>>

\* ... or the deadline did, which the continuation notices later.
DeadlineFires ==
    /\ shut = "draining"
    /\ flush["shutdown"] # "done"
    /\ shut' = "expired"
    /\ UNCHANGED <<queue, counters, delivery, outcome, flushTimer, closed, abandoned,
                   flush, mark, calls>>

\* Faulty variant: a wait is sat out.
WaitsAreKept(wait) == wait

\* abandonWaits: an attempt settles, a backoff is over.
abandonWaits(wait) == CASE wait = "sending" -> "settled"
                        [] wait = "backoff" -> "retry"
                        [] OTHER -> wait

\* Giving up aborts the attempt in flight and cuts every wait short.
GiveUp ==
    /\ shut = "expired"
    /\ shut' = "done"
    /\ abandoned' = TRUE
    /\ pump' = abandonWaits(pump)
    /\ outcome' = IF pump = "sending" THEN "retryable" ELSE outcome
    /\ UNCHANGED <<queue, counters, batch, attempt, snapshot, pendingId, minted, flushTimer,
                   closed, flush, mark, calls>>

-----------------------------------------------------------------------------

Settles == \E result \in {"delivered", "retryable", "permanent"} : TransportSettles(result)

Host == RecordAccepted \/ RecordDropped \/ HostFlush \/ CallShutdown

\* Continuations: microtasks, which run as soon as the stack is empty.
Continuation ==
    \/ BatchDelivered \/ BatchLost \/ BackOff \/ Retry \/ RetryRefused
    \/ NextBatch \/ PumpEnds
    \/ \E f \in Flushers : FlushAgain(f) \/ FlushReturns(f)
    \/ Drained \/ GiveUp

Timer == FlushTimerFires \/ RequestTimeout \/ BackoffElapses \/ DeadlineFires

Next == Host \/ Settles \/ Continuation \/ Timer

Spec == Init /\ [][Next]_vars

\* Each continuation runs once it is ready, each timer fires once its delay has
\* passed; the transport may never settle, the host need not call anything.
TimersFair == /\ WF_vars(FlushTimerFires) /\ WF_vars(RequestTimeout)
              /\ WF_vars(BackoffElapses) /\ WF_vars(DeadlineFires)

ContinuationsFair == /\ WF_vars(BatchDelivered \/ BatchLost \/ BackOff \/ Retry
                                \/ RetryRefused \/ NextBatch \/ PumpEnds)
                     /\ \A f \in Flushers : WF_vars(FlushAgain(f) \/ FlushReturns(f))
                     /\ WF_vars(Drained) /\ WF_vars(GiveUp)

FairSpec == Spec /\ ContinuationsFair /\ TimersFair

\* shutdownTimeoutMs may be shorter than any other delay: only the deadline is
\* obliged to fire.
ShutdownSpec == Spec /\ ContinuationsFair /\ WF_vars(DeadlineFires)

-----------------------------------------------------------------------------

TypeOK ==
    /\ queue \in Seq(Nat)
    /\ recorded \in Nat /\ delivered \in Nat /\ acknowledged \in Nat
    /\ dropped \in [overflow : Nat, invalid : Nat, tooLarge : Nat,
                    afterShutdown : Nat, undeliverable : Nat]
    /\ pump \in PumpStates
    /\ batch \in Seq(Nat)
    /\ attempt \in 0 .. MaxRetries + 1
    /\ outcome \in {"none", "delivered", "retryable", "permanent"}
    /\ snapshot \in Nat /\ pendingId \in Nat /\ minted \in Nat
    /\ flushTimer \in BOOLEAN /\ closed \in BOOLEAN /\ abandoned \in BOOLEAN
    /\ shut \in {"no", "draining", "expired", "done"}
    /\ flush \in [Flushers -> FlushStates]
    /\ mark \in [Flushers -> Nat]
    /\ calls \in 0 .. MaxCalls

(***************************************************************************)
(* Every event record() accepted is in exactly one place: queued, in the   *)
(* batch, delivered, or counted as dropped by overflow or as               *)
(* undeliverable; and the queue never exceeds its bound (stats()).         *)
(***************************************************************************)
EventsConserved ==
    /\ recorded = Len(queue) + Len(batch) + delivered
                  + dropped.overflow + dropped.undeliverable
    /\ Len(queue) <= MaxQueueSize

(***************************************************************************)
(* What the next batch reports as dropped is never negative, and neither   *)
(* is it for a batch in flight: no drop is acknowledged that did not       *)
(* happen (pendingDropReport).                                             *)
(***************************************************************************)
ReportNeverNegative ==
    /\ acknowledged <= totalDropped
    /\ batch # <<>> => acknowledged + snapshot <= totalDropped

(***************************************************************************)
(* When a call of flush() returns, every event recorded before the call    *)
(* has left the queue, unless shutdown gave up.  The second pass is what   *)
(* makes it hold for a call that joins a pump which has already ended.     *)
(***************************************************************************)
FlushCoversEarlierEvents ==
    \A f \in Flushers : flush[f] = "done" /\ ~abandoned =>
        \A i \in DOMAIN queue : queue[i] > mark[f]

(***************************************************************************)
(* When the host never calls flush() itself, a shutdown() that returns     *)
(* before its deadline leaves nothing queued and nothing in flight: record *)
(* is closed and the flush timer cancelled before its flush() starts, so   *)
(* no other pump can take a batch between its two passes.                  *)
(***************************************************************************)
LoneShutdownDrains ==
    shut = "done" /\ ~abandoned /\ flush["host"] = "none"
        => queue = <<>> /\ batch = <<>> /\ pump = "none"

(***************************************************************************)
(* What TelemetryClient says of shutdown(): "drains the queue, then        *)
(* stops".  When it returns before its deadline nothing is left to do.     *)
(***************************************************************************)
ShutdownDrains == shut = "done" /\ ~abandoned => queue = <<>> /\ batch = <<>>

(***************************************************************************)
(* Once shutdown has given up, no request is started: waking the pending   *)
(* backoff ends the batch (the guard of deliverBatch's loop).              *)
(***************************************************************************)
NoAttemptAfterGivingUp ==
    [][abandoned /\ pump # "sending" => pump' # "sending"]_vars

(***************************************************************************)
(* A pump ends, whatever the transport does, if timers fire: attempts time *)
(* out and their number is finite (raceTimeout, maxRetries).               *)
(***************************************************************************)
PumpTerminates == TimersFair => (pump # "none" ~> pump = "none")

(***************************************************************************)
(* Shutdown completes, and once it has given up no delivery is left        *)
(* running, whatever the transport does and however long the other timers  *)
(* are (performShutdown's deadline, abandonWaits).                         *)
(***************************************************************************)
ShutdownCompletes == /\ shut # "no" ~> shut = "done"
                     /\ abandoned ~> pump = "none"

(***************************************************************************)
(* What scheduleWork says: "flush on interval or on buffer size, whichever *)
(* comes first".  A queued event does not stay queued for ever.            *)
(***************************************************************************)
QueueIsFlushed == queue # <<>> ~> queue = <<>> \/ abandoned
=============================================================================
