----------------------- MODULE TelemetryClientProofs ------------------------
(***************************************************************************)
(* Proofs about TelemetryClient, for every configuration resolveConfig     *)
(* accepts, and about DropReporting, its drops as the server counts them.  *)
(*                                                                         *)
(* The inductive invariant of the client adds to the properties proved     *)
(* that the queue is always the most recent part of what was recorded,     *)
(* that the batch is empty exactly when no delivery is under way, and what *)
(* each stage of flush() and of shutdown() has established.                *)
(***************************************************************************)
EXTENDS DropReporting, SequenceTheorems, FiniteSetTheorems, TLAPS

Active == {"sending", "settled", "backoff", "retry"}

\* The events of q are the last ones of the r that were recorded.
Suffix(q, r) == \A i \in 1 .. Len(q) : q[i] = r - Len(q) + i

\* The events of a batch are in a delivery, and only there.
BatchInv == (pump \in Active) <=> (batch # <<>>)

QueueInv == Suffix(queue, recorded)

\* What flush f was called for has left the queue.
Covered(f) == mark[f] + Len(queue) <= recorded

FlushInv ==
    \A f \in Flushers :
        /\ mark[f] <= recorded
        /\ ~abandoned /\ flush[f] \in {"woken2", "done"} => Covered(f)
        /\ ~abandoned /\ pump = "ending" /\ flush[f] \in {"woken1", "pass2"} => Covered(f)

\* Without a flush() of the host, the pump is the one that shutdown awaits.
LoneInv ==
    /\ shut # "no" => closed /\ ~flushTimer
    /\ shut = "no" => flush["shutdown"] = "none"
    /\ shut = "done" /\ ~abandoned => flush["shutdown"] = "done"
    /\ shut # "no" /\ ~abandoned /\ flush["host"] = "none" =>
        /\ flush["shutdown"] \in {"woken1", "woken2", "done"} => pump = "none"
        /\ flush["shutdown"] \in {"woken2", "done"} => queue = <<>>
        /\ flush["shutdown"] = "pass2" /\ pump = "ending" => queue = <<>>

CountInv == EventsConserved /\ ReportNeverNegative

IInv == TypeOK /\ CountInv /\ BatchInv /\ QueueInv /\ FlushInv /\ LoneInv

-----------------------------------------------------------------------------
(* BoundedQueue *)

(***************************************************************************)
(* Shifting k events out of a queue leaves the newer ones in their order.  *)
(***************************************************************************)
LEMMA ShiftKeepsNewest ==
    ASSUME NEW q \in Seq(Nat), NEW r \in Nat, Suffix(q, r), NEW k \in 0 .. Len(q)
    PROVE  /\ SubSeq(q, k + 1, Len(q)) \in Seq(Nat)
           /\ Len(SubSeq(q, k + 1, Len(q))) = Len(q) - k
           /\ Suffix(SubSeq(q, k + 1, Len(q)), r)
<1> DEFINE t == SubSeq(q, k + 1, Len(q))
<1>1. Len(q) \in Nat /\ \A i \in 1 .. Len(q) : q[i] \in Nat
  OBVIOUS
<1>2. k + 1 \in Int /\ Len(q) \in Int /\ \A i \in k + 1 .. Len(q) : q[i] \in Nat
  BY <1>1
<1>3. /\ t \in Seq(Nat)
      /\ Len(t) = IF k + 1 <= Len(q) THEN Len(q) - (k + 1) + 1 ELSE 0
      /\ \A i \in 1 .. Len(q) - (k + 1) + 1 : t[i] = q[k + 1 + i - 1]
  BY <1>2, SubSeqProperties
<1> HIDE DEF t
<1>4. Len(t) = Len(q) - k /\ \A i \in 1 .. Len(t) : t[i] = q[k + i]
  BY <1>3, <1>1
<1>5. Suffix(t, r)
  BY <1>4, <1>1 DEF Suffix
<1> QED
  BY <1>3, <1>4, <1>5 DEF t

(***************************************************************************)
(* BoundedQueue.push keeps the newest events, never exceeds the capacity,  *)
(* and reports as dropped exactly what it removed.                         *)
(***************************************************************************)
LEMMA PushKeepsNewest ==
    ASSUME NEW q \in Seq(Nat), NEW r \in Nat, Len(q) <= MaxQueueSize, Suffix(q, r)
    PROVE  /\ Push(q, r + 1) \in Seq(Nat)
           /\ Overflow(q) \in Nat
           /\ Len(Push(q, r + 1)) + Overflow(q) = Len(q) + 1
           /\ Len(Push(q, r + 1)) <= MaxQueueSize
           /\ Suffix(Push(q, r + 1), r + 1)
<1> DEFINE a == Append(q, r + 1)
<1>1. /\ a \in Seq(Nat) /\ Len(a) = Len(q) + 1
      /\ \A i \in 1 .. Len(q) : a[i] = q[i]
      /\ a[Len(q) + 1] = r + 1
  BY AppendProperties
<1>2. Len(q) \in Nat /\ MaxQueueSize \in Nat /\ MaxQueueSize >= 1
  BY ConfigAssumption
<1>3. /\ Overflow(q) \in 0 .. Len(q) + 1
      /\ Len(q) + 1 - Overflow(q) <= MaxQueueSize
  BY <1>2 DEF Overflow
<1>4. Push(q, r + 1) = SubSeq(a, Overflow(q) + 1, Len(a))
  BY <1>1 DEF Push
<1> HIDE DEF a
<1>5. Suffix(a, r + 1)
  BY <1>1, <1>2 DEF Suffix
<1>6. Overflow(q) \in 0 .. Len(a)
  BY <1>1, <1>3
<1>7. /\ Push(q, r + 1) \in Seq(Nat)
      /\ Len(Push(q, r + 1)) = Len(a) - Overflow(q)
      /\ Suffix(Push(q, r + 1), r + 1)
  <2>1. r + 1 \in Nat
    OBVIOUS
  <2> QED
    BY <2>1, <1>1, <1>4, <1>5, <1>6, ShiftKeepsNewest
<1> QED
  BY <1>1, <1>2, <1>3, <1>7

(***************************************************************************)
(* BoundedQueue.take splits the queue: a batch that is not empty, and the  *)
(* newer events in their order.                                            *)
(***************************************************************************)
LEMMA TakeSplits ==
    ASSUME NEW q \in Seq(Nat), NEW r \in Nat, Suffix(q, r), q # <<>>
    PROVE  /\ Take(q) \in Seq(Nat) /\ Take(q) # <<>>
           /\ Rest(q) \in Seq(Nat)
           /\ Len(Take(q)) + Len(Rest(q)) = Len(q)
           /\ Suffix(Rest(q), r)
<1> DEFINE m == Smaller(MaxBatchSize, Len(q))
           t == SubSeq(q, 1, m)
<1>1. Len(q) \in Nat /\ Len(q) >= 1 /\ \A i \in 1 .. Len(q) : q[i] \in Nat
  BY EmptySeq
<1>2. m \in 1 .. Len(q)
  BY <1>1, ConfigAssumption DEF Smaller
<1>3. Take(q) = t /\ Rest(q) = SubSeq(q, m + 1, Len(q))
  BY DEF Take, Rest
<1> HIDE DEF m
<1>4. 1 \in Int /\ m \in Int /\ \A i \in 1 .. m : q[i] \in Nat
  BY <1>1, <1>2
<1>5. t \in Seq(Nat) /\ Len(t) = IF 1 <= m THEN m - 1 + 1 ELSE 0
  BY <1>4, SubSeqProperties
<1> HIDE DEF t
<1>6. Len(t) = m /\ t # <<>>
  BY <1>5, <1>2
<1>7. m \in 0 .. Len(q)
  BY <1>2, <1>1
<1>8. /\ Rest(q) \in Seq(Nat)
      /\ Len(Rest(q)) = Len(q) - m
      /\ Suffix(Rest(q), r)
  BY <1>3, <1>7, ShiftKeepsNewest
<1> QED
  BY <1>1, <1>2, <1>3, <1>5, <1>6, <1>8

-----------------------------------------------------------------------------
(* The pump *)

\* What a step that offers the queue q to the pump leaves behind.
Pumped(q) ==
    /\ queue' \in Seq(Nat) /\ batch' \in Seq(Nat)
    /\ Len(queue') + Len(batch') = Len(q) + Len(batch)
    /\ Len(queue') <= Len(q)
    /\ Suffix(queue', recorded')
    /\ pump' \in PumpStates /\ attempt' \in 0 .. MaxRetries + 1
    /\ snapshot' \in Nat /\ pendingId' \in Nat /\ minted' \in Nat
    /\ BatchInv'
    /\ batch' # <<>> => acknowledged + snapshot' <= totalDropped'
    /\ pump' = "ending" /\ pump # "ending" => queue' = <<>> \/ abandoned
    /\ pump = "ending" => pump' = "ending"

(***************************************************************************)
(* The pump's loop takes a batch off the queue or ends, and it ends with   *)
(* events queued only when shutdown gave up.                               *)
(***************************************************************************)
LEMMA PumpLoopStep ==
    ASSUME IInv, NEW q \in Seq(Nat), recorded' \in Nat, Suffix(q, recorded'),
           totalDropped' \in Nat, totalDropped <= totalDropped', totalDropped \in Nat,
           pump \in {"none", "between"}, PumpLoop(q)
    PROVE  Pumped(q)
<1>1. batch = <<>> /\ acknowledged \in Nat /\ acknowledged <= totalDropped'
  BY DEF IInv, TypeOK, BatchInv, Active, CountInv, ReportNeverNegative
<1>2. /\ attempt \in 0 .. MaxRetries + 1 /\ snapshot \in Nat
      /\ pendingId \in Nat /\ minted \in Nat /\ Len(q) \in Nat
  BY DEF IInv, TypeOK
<1>3. CASE q # <<>> /\ ~abandoned
  <2>1. BeginBatch(q)
    BY <1>3 DEF PumpLoop
  <2>2. /\ Take(q) \in Seq(Nat) /\ Take(q) # <<>>
        /\ Rest(q) \in Seq(Nat)
        /\ Len(Take(q)) + Len(Rest(q)) = Len(q)
        /\ Suffix(Rest(q), recorded')
    BY <1>3, TakeSplits
  <2>3. queue' = Rest(q) /\ batch' = Take(q) /\ pump' = "sending"
    BY <2>1 DEF BeginBatch
  <2>4. /\ attempt' \in 0 .. MaxRetries + 1 /\ snapshot' \in Nat
        /\ pendingId' \in Nat /\ minted' \in Nat
        /\ acknowledged + snapshot' <= totalDropped'
    <3>1. attempt' = 1 /\ snapshot' = totalDropped' - acknowledged
      BY <2>1 DEF BeginBatch, pendingDropReport
    <3>2. pendingId' \in {pendingId, minted + 1} /\ minted' \in {minted, minted + 1}
      BY <2>1 DEF BeginBatch
    <3>3. attempt' \in 0 .. MaxRetries + 1
      BY <3>1, ConfigAssumption
    <3>4. snapshot' \in Nat /\ acknowledged + snapshot' <= totalDropped'
      <4>1. PICK t \in Nat : t = totalDropped'
        OBVIOUS
      <4>2. acknowledged \in Nat /\ acknowledged <= t /\ snapshot' = t - acknowledged
        BY <3>1, <1>1, <4>1
      <4>3. snapshot' \in Nat /\ acknowledged + snapshot' <= t
        BY <4>2
      <4> QED
        BY <4>1, <4>3
    <3>5. pendingId' \in Nat /\ minted' \in Nat
      BY <3>2, <1>2
    <3> QED
      BY <3>3, <3>4, <3>5
  <2>5. Len(queue') + Len(batch') = Len(q) + Len(batch) /\ Len(queue') <= Len(q)
    BY <2>2, <2>3, <1>1, <1>2
  <2> QED
    BY <2>2, <2>3, <2>4, <2>5 DEF Pumped, BatchInv, Active, PumpStates
<1>4. CASE ~(q # <<>> /\ ~abandoned)
  <2>1. /\ pump' = "ending" /\ batch' = <<>> /\ queue' = q
        /\ UNCHANGED <<attempt, snapshot, pendingId, minted>>
    BY <1>4 DEF PumpLoop
  <2>2. batch' \in Seq(Nat)
    BY <2>1
  <2> QED
    BY <2>1, <2>2, <1>1, <1>2, <1>4 DEF Pumped, BatchInv, Active, PumpStates
<1> QED
  BY <1>3, <1>4

(***************************************************************************)
(* requestPump starts a pump on the queue or leaves it to the one there    *)
(* is, also when that one has already ended; and so does a step that only  *)
(* queues.                                                                 *)
(***************************************************************************)
LEMMA RequestPumpStep ==
    ASSUME IInv, NEW q \in Seq(Nat), recorded' \in Nat, Suffix(q, recorded'),
           totalDropped' \in Nat, totalDropped <= totalDropped', totalDropped \in Nat,
           requestPump(q) \/ (queue' = q /\ UNCHANGED delivery)
    PROVE  Pumped(q)
<1>1. CASE pump = "none" /\ requestPump(q)
  BY <1>1, PumpLoopStep DEF requestPump
<1>2. CASE queue' = q /\ UNCHANGED delivery
  <2>1. queue' = q /\ UNCHANGED <<pump, batch, attempt, snapshot, pendingId, minted>>
    BY <1>2 DEF delivery
  <2>2. /\ attempt \in 0 .. MaxRetries + 1 /\ snapshot \in Nat /\ acknowledged \in Nat
        /\ pendingId \in Nat /\ minted \in Nat /\ Len(q) \in Nat
        /\ pump \in PumpStates /\ batch \in Seq(Nat)
    BY DEF IInv, TypeOK
  <2>3. batch # <<>> => acknowledged + snapshot <= totalDropped
    BY DEF IInv, CountInv, ReportNeverNegative
  <2>4. batch' # <<>> => acknowledged + snapshot' <= totalDropped'
    BY <2>1, <2>2, <2>3
  <2>5. BatchInv'
    BY <2>1 DEF IInv, BatchInv
  <2>6. Len(queue') + Len(batch') = Len(q) + Len(batch) /\ Len(queue') <= Len(q)
    BY <2>1, <2>2
  <2> QED
    BY <2>1, <2>2, <2>4, <2>5, <2>6 DEF Pumped
<1> QED
  BY <1>1, <1>2 DEF requestPump

-----------------------------------------------------------------------------
(* Every step preserves the invariant *)

Drops == [overflow : Nat, invalid : Nat, tooLarge : Nat, afterShutdown : Nat,
          undeliverable : Nat]

(***************************************************************************)
(* Adding to one of the five drop counters adds to their sum.              *)
(***************************************************************************)
LEMMA DropAdds ==
    ASSUME dropped \in Drops, NEW n \in Nat,
           NEW c \in {"overflow", "invalid", "tooLarge", "afterShutdown", "undeliverable"},
           dropped' = [dropped EXCEPT ![c] = @ + n]
    PROVE  /\ dropped' \in Drops
           /\ totalDropped \in Nat /\ totalDropped' \in Nat
           /\ totalDropped' = totalDropped + n
           /\ \A d \in {"overflow", "undeliverable"} :
                  dropped'[d] = dropped[d] + IF d = c THEN n ELSE 0
BY DEF Drops, totalDropped

(***************************************************************************)
(* The sum of the drop counters is a natural number.                       *)
(***************************************************************************)
LEMMA TotalDroppedNat == ASSUME dropped \in Drops PROVE totalDropped \in Nat
BY DEF Drops, totalDropped

(***************************************************************************)
(* record(): an accepted event is in the queue or displaced another, which *)
(* is counted.                                                             *)
(***************************************************************************)
LEMMA RecordAcceptedStep == ASSUME IInv, RecordAccepted PROVE IInv'
<1> DEFINE q == Push(queue, recorded + 1)
<1>1. /\ queue \in Seq(Nat) /\ recorded \in Nat /\ Len(queue) \in Nat
      /\ Len(queue) <= MaxQueueSize /\ Suffix(queue, recorded)
      /\ dropped \in Drops /\ shut = "no" /\ flush["shutdown"] = "none"
  BY DEF IInv, TypeOK, CountInv, EventsConserved, QueueInv, RecordAccepted, LoneInv, Drops
<1>2. /\ q \in Seq(Nat)
      /\ Overflow(queue) \in Nat
      /\ Len(q) + Overflow(queue) = Len(queue) + 1
      /\ Len(q) <= MaxQueueSize
      /\ Suffix(q, recorded + 1)
  BY <1>1, PushKeepsNewest
<1>3. /\ recorded' = recorded + 1 /\ calls' = calls + 1 /\ calls < MaxCalls
      /\ dropped' = [dropped EXCEPT !["overflow"] = @ + Overflow(queue)]
      /\ flushTimer' \in BOOLEAN
      /\ UNCHANGED <<delivered, acknowledged, outcome, closed, abandoned, shut, flush, mark>>
  BY DEF RecordAccepted
<1>4. /\ dropped' \in Drops /\ totalDropped \in Nat /\ totalDropped' \in Nat
      /\ totalDropped' = totalDropped + Overflow(queue)
      /\ dropped'.overflow = dropped.overflow + Overflow(queue)
      /\ dropped'.undeliverable = dropped.undeliverable
  <2>1. dropped'["overflow"] = dropped["overflow"] + Overflow(queue)
    BY <1>1, <1>2, <1>3 DEF Drops
  <2>2. dropped'["undeliverable"] = dropped["undeliverable"]
    BY <1>1, <1>2, <1>3 DEF Drops
  <2> QED
    BY <1>1, <1>2, <1>3, <2>1, <2>2, DropAdds
<1> HIDE DEF q
<1>5. Pumped(q)
  <2>1. recorded' \in Nat /\ Suffix(q, recorded') /\ totalDropped <= totalDropped'
    <3>1. totalDropped <= totalDropped'
      <4>1. PICK t \in Nat : t = totalDropped
        BY <1>4
      <4> QED
        BY <4>1, <1>2, <1>4
    <3> QED
      BY <3>1, <1>1, <1>2, <1>3
  <2>2. requestPump(q) \/ (queue' = q /\ UNCHANGED delivery)
    BY DEF RecordAccepted, q
  <2> QED
    BY <2>1, <2>2, <1>2, <1>4, RequestPumpStep
<1>6. TypeOK'
  <2>1. calls' \in 0 .. MaxCalls
    BY <1>3, ConfigAssumption DEF IInv, TypeOK
  <2>2. /\ queue' \in Seq(Nat) /\ batch' \in Seq(Nat) /\ pump' \in PumpStates
        /\ attempt' \in 0 .. MaxRetries + 1
        /\ snapshot' \in Nat /\ pendingId' \in Nat /\ minted' \in Nat
    BY <1>5 DEF Pumped
  <2>3. recorded' \in Nat /\ dropped' \in Drops
    BY <1>1, <1>3, <1>4
  <2> QED
    BY <1>3, <2>1, <2>2, <2>3 DEF IInv, TypeOK, Drops
<1>7. CountInv'
  <2>1. PICK t \in Nat, u \in Nat : t = totalDropped /\ u = totalDropped'
    BY <1>4
  <2>2. acknowledged' \in Nat /\ acknowledged' <= totalDropped'
    <3>1. acknowledged \in Nat /\ acknowledged <= t
      BY <2>1 DEF IInv, TypeOK, CountInv, ReportNeverNegative
    <3>2. u = t + Overflow(queue)
      BY <2>1, <1>4
    <3>3. acknowledged <= u
      BY <3>1, <3>2, <1>2, <2>1
    <3> QED
      BY <3>1, <3>3, <2>1, <1>3
  <2>3. batch' # <<>> => acknowledged' + snapshot' <= totalDropped'
    BY <1>3, <1>5 DEF Pumped
  <2>4. /\ recorded' = Len(q) + Len(batch) + delivered' + dropped'.overflow + dropped'.undeliverable
        /\ Len(batch) \in Nat /\ delivered' \in Nat
        /\ dropped'.overflow \in Nat /\ dropped'.undeliverable \in Nat
    <3>1. /\ dropped.overflow \in Nat /\ dropped.undeliverable \in Nat
          /\ delivered \in Nat /\ Len(batch) \in Nat
      BY <1>1 DEF IInv, TypeOK, Drops
    <3>2. recorded = Len(queue) + Len(batch) + delivered + dropped.overflow + dropped.undeliverable
      BY DEF IInv, CountInv, EventsConserved
    <3>3. /\ Len(q) \in Nat /\ Overflow(queue) \in Nat
          /\ Len(q) + Overflow(queue) = Len(queue) + 1
      BY <1>2
    <3>4. /\ dropped'.overflow = dropped.overflow + Overflow(queue)
          /\ dropped'.undeliverable = dropped.undeliverable
          /\ recorded' = recorded + 1 /\ delivered' = delivered
      BY <1>3, <1>4
    <3>5. Len(queue) \in Nat
      BY <1>1
    <3>6. dropped'.overflow \in Nat /\ dropped'.undeliverable \in Nat /\ delivered' \in Nat
      BY <3>1, <3>3, <3>4
    <3>7. recorded + 1 = Len(q) + Len(batch) + delivered
                          + (dropped.overflow + Overflow(queue)) + dropped.undeliverable
      <4>1. PICK rest \in Nat :
                rest = Len(batch) + delivered + dropped.overflow + dropped.undeliverable
        BY <3>1
      <4>2. recorded = Len(queue) + rest
        BY <3>1, <3>2, <3>5, <4>1
      <4>3. recorded + 1 = Len(q) + Overflow(queue) + rest
        BY <3>3, <3>5, <4>2
      <4>4. PICK b \in Nat : b = Len(batch) + delivered
        BY <3>1
      <4>5. rest = b + dropped.overflow + dropped.undeliverable
        BY <4>1, <4>4
      <4>6. PICK n \in Nat : n = Len(q) + b
        BY <3>3
      <4>7. recorded + 1 = n + (dropped.overflow + Overflow(queue)) + dropped.undeliverable
        <5>1. PICK o \in Nat, w \in Nat, v \in Nat, l \in Nat :
                  /\ o = dropped.overflow /\ w = dropped.undeliverable
                  /\ v = Overflow(queue) /\ l = Len(q)
          BY <3>1, <3>3
        <5>2. recorded + 1 = l + v + (b + o + w) /\ n = l + b
          BY <4>3, <4>5, <4>6, <5>1
        <5>3. l + v + (b + o + w) = n + (o + v) + w
          BY ONLY <5>2, n = l + b, n \in Nat, l \in Nat, v \in Nat, b \in Nat, o \in Nat, w \in Nat
        <5> QED
          BY <5>1, <5>2, <5>3
      <4>8. n = Len(q) + Len(batch) + delivered
        BY <3>1, <3>3, <4>4, <4>6
      <4> QED
        BY <4>7, <4>8
    <3> QED
      BY <3>1, <3>4, <3>6, <3>7
  <2>5. /\ Len(queue') \in Nat /\ Len(batch') \in Nat
        /\ Len(queue') + Len(batch') = Len(q) + Len(batch) /\ Len(queue') <= Len(q)
    BY <1>5 DEF Pumped
  <2>6. EventsConserved'
    BY <2>4, <2>5, <1>2, ConfigAssumption DEF EventsConserved
  <2> QED
    BY <2>2, <2>3, <2>6 DEF CountInv, ReportNeverNegative
<1>8. BatchInv' /\ QueueInv'
  BY <1>5 DEF Pumped, QueueInv
<1>9. FlushInv'
  <2> SUFFICES ASSUME NEW f \in Flushers
               PROVE  /\ mark[f] <= recorded'
                      /\ ~abandoned /\ flush[f] \in {"woken2", "done"} => mark[f] + Len(queue') <= recorded'
                      /\ ~abandoned /\ pump' = "ending" /\ flush[f] \in {"woken1", "pass2"}
                            => mark[f] + Len(queue') <= recorded'
    BY <1>3 DEF FlushInv, Covered
  <2>1. mark[f] \in Nat /\ mark[f] <= recorded
    BY DEF IInv, TypeOK, FlushInv
  <2>2. Len(queue') \in Nat /\ Len(queue') <= Len(queue) + 1
    <3>1. Len(queue') \in Nat /\ Len(queue') <= Len(q)
      BY <1>5 DEF Pumped
    <3>2. Len(q) \in Nat /\ Len(q) + Overflow(queue) = Len(queue) + 1
      BY <1>2
    <3> QED
      BY <3>1, <3>2, <1>1, <1>2
  <2>3. CASE Covered(f)
    BY <2>1, <2>2, <2>3, <1>1, <1>3 DEF Covered
  <2>4. CASE ~Covered(f)
    <3>1. ~abandoned => flush[f] \notin {"woken2", "done"}
      BY <2>4 DEF IInv, FlushInv
    <3>2. ~abandoned /\ flush[f] \in {"woken1", "pass2"} => pump # "ending"
      BY <2>4 DEF IInv, FlushInv
    <3>3. ~abandoned /\ pump' = "ending" /\ pump # "ending" => Len(queue') = 0
      BY <1>5 DEF Pumped
    <3> QED
      BY <3>1, <3>2, <3>3, <2>1, <1>1, <1>3
  <2> QED
    BY <2>3, <2>4
<1>10. LoneInv'
  BY <1>1, <1>3 DEF LoneInv, IInv
<1> QED
  BY <1>6, <1>7, <1>8, <1>9, <1>10 DEF IInv

(***************************************************************************)
(* A step that only runs the pump on the queue there is keeps every count: *)
(* what leaves the queue is in the batch.                                  *)
(***************************************************************************)
LEMMA QuietPump ==
    ASSUME IInv, UNCHANGED counters,
           requestPump(queue) \/ (pump = "between" /\ PumpLoop(queue))
    PROVE  /\ Pumped(queue) /\ CountInv' /\ BatchInv' /\ QueueInv'
           /\ Len(queue') \in Nat /\ Len(queue') <= Len(queue) /\ Len(queue) \in Nat
<1>1. /\ queue \in Seq(Nat) /\ Len(queue) \in Nat /\ recorded \in Nat /\ dropped \in Drops
      /\ Len(batch) \in Nat /\ delivered \in Nat
      /\ dropped.overflow \in Nat /\ dropped.undeliverable \in Nat
      /\ Suffix(queue, recorded)
  BY DEF IInv, TypeOK, QueueInv, Drops
<1>2. /\ UNCHANGED <<recorded, delivered, acknowledged>> /\ dropped' = dropped
      /\ totalDropped' = totalDropped
  BY DEF counters, totalDropped
<1>3. totalDropped \in Nat
  BY <1>1, TotalDroppedNat
<1>4. Pumped(queue)
  <2>1. totalDropped' \in Nat /\ recorded' \in Nat /\ Suffix(queue, recorded')
    BY <1>1, <1>2, <1>3
  <2>2. totalDropped <= totalDropped'
    BY <1>2, <1>3
  <2> QED
    BY <1>1, <1>3, <2>1, <2>2, PumpLoopStep, RequestPumpStep
<1>5. /\ Len(queue') \in Nat /\ Len(batch') \in Nat /\ Len(queue') <= Len(queue)
      /\ Len(queue') + Len(batch') = Len(queue) + Len(batch)
  BY <1>4 DEF Pumped
<1>6. EventsConserved'
  <2>1. PICK rest \in Nat : rest = delivered + dropped.overflow + dropped.undeliverable
    BY <1>1
  <2>2. recorded = Len(queue) + Len(batch) + rest
    <3>1. recorded = Len(queue) + Len(batch) + delivered + dropped.overflow
                     + dropped.undeliverable
      BY DEF IInv, CountInv, EventsConserved
    <3> QED
      BY <1>1, <2>1, <3>1, SMTT(30)
  <2>3. recorded = Len(queue') + Len(batch') + rest
    BY <1>1, <1>5, <2>2
  <2>4. recorded = Len(queue') + Len(batch') + delivered + dropped.overflow
                   + dropped.undeliverable
    <3>1. PICK n \in Nat : n = Len(queue') + Len(batch')
      BY <1>5
    <3>2. delivered \in Nat /\ dropped.overflow \in Nat /\ dropped.undeliverable \in Nat
      BY <1>1
    <3>3. recorded = n + delivered + dropped.overflow + dropped.undeliverable
      BY <2>1, <2>3, <3>1, <3>2, SMTT(30)
    <3> QED
      BY <3>1, <3>3
  <2>5. Len(queue') <= MaxQueueSize
    BY <1>1, <1>5, ConfigAssumption DEF IInv, CountInv, EventsConserved
  <2> QED
    BY <1>2, <2>4, <2>5 DEF EventsConserved
<1>7. ReportNeverNegative'
  <2>1. acknowledged' <= totalDropped'
    BY <1>2 DEF IInv, CountInv, ReportNeverNegative
  <2>2. batch' # <<>> => acknowledged' + snapshot' <= totalDropped'
    BY <1>2, <1>4 DEF Pumped
  <2> QED
    BY <2>1, <2>2 DEF ReportNeverNegative
<1> QED
  BY <1>1, <1>4, <1>5, <1>6, <1>7 DEF CountInv, Pumped, QueueInv

(***************************************************************************)
(* The same, for the type of the state: the rest of the state is typed and *)
(* the delivery is what the pump left.                                     *)
(***************************************************************************)
LEMMA QuietPumpType ==
    ASSUME IInv, UNCHANGED <<counters, outcome, calls>>, Pumped(queue),
           flushTimer' \in BOOLEAN, closed' \in BOOLEAN, abandoned' \in BOOLEAN,
           shut' \in {"no", "draining", "expired", "done"},
           flush' \in [Flushers -> FlushStates], mark' \in [Flushers -> Nat]
    PROVE  TypeOK'
<1>1. /\ queue' \in Seq(Nat) /\ batch' \in Seq(Nat) /\ pump' \in PumpStates
      /\ attempt' \in 0 .. MaxRetries + 1
      /\ snapshot' \in Nat /\ pendingId' \in Nat /\ minted' \in Nat
  BY DEF Pumped
<1> QED
  BY <1>1 DEF IInv, TypeOK, counters

(***************************************************************************)
(* Running the pump does not put an event back: what each flush() has      *)
(* covered stays covered, and a pump that ends has emptied the queue.      *)
(***************************************************************************)
LEMMA FlushKept ==
    ASSUME IInv, UNCHANGED <<counters, abandoned, flush, mark>>, Pumped(queue)
    PROVE  FlushInv'
<1> SUFFICES ASSUME NEW f \in Flushers
             PROVE  /\ mark[f] <= recorded
                    /\ ~abandoned /\ flush[f] \in {"woken2", "done"}
                          => mark[f] + Len(queue') <= recorded
                    /\ ~abandoned /\ pump' = "ending" /\ flush[f] \in {"woken1", "pass2"}
                          => mark[f] + Len(queue') <= recorded
  BY DEF FlushInv, Covered, counters
<1>1. /\ mark[f] \in Nat /\ mark[f] <= recorded /\ recorded \in Nat /\ Len(queue) \in Nat
  BY DEF IInv, TypeOK, FlushInv
<1>2. Len(queue') \in Nat /\ Len(queue') <= Len(queue)
  BY DEF Pumped
<1>3. ~abandoned /\ pump' = "ending" /\ pump # "ending" => Len(queue') = 0
  BY DEF Pumped
<1>4. ~abandoned /\ flush[f] \in {"woken2", "done"} => mark[f] + Len(queue) <= recorded
  BY DEF IInv, FlushInv, Covered
<1>5. ~abandoned /\ pump = "ending" /\ flush[f] \in {"woken1", "pass2"}
        => mark[f] + Len(queue) <= recorded
  BY DEF IInv, FlushInv, Covered
<1> QED
  BY <1>1, <1>2, <1>3, <1>4, <1>5

(***************************************************************************)
(* The flush timer's callback runs the pump.                               *)
(***************************************************************************)
LEMMA FlushTimerStep == ASSUME IInv, FlushTimerFires PROVE IInv'
<1>1. /\ UNCHANGED <<counters, outcome, closed, abandoned, shut, flush, mark, calls>>
      /\ flushTimer /\ flushTimer' = FALSE
      /\ requestPump(queue)
  BY DEF FlushTimerFires
<1>2. /\ Pumped(queue) /\ CountInv' /\ BatchInv' /\ QueueInv'
      /\ Len(queue') \in Nat /\ Len(queue') <= Len(queue) /\ Len(queue) \in Nat
  BY <1>1, QuietPump
<1>3. TypeOK'
  <2>1. /\ flushTimer' \in BOOLEAN /\ closed' \in BOOLEAN /\ abandoned' \in BOOLEAN
        /\ shut' \in {"no", "draining", "expired", "done"}
        /\ flush' \in [Flushers -> FlushStates] /\ mark' \in [Flushers -> Nat]
        /\ UNCHANGED <<counters, outcome, calls>>
    BY <1>1 DEF IInv, TypeOK
  <2> QED
    BY <1>2, <2>1, QuietPumpType
<1>4. FlushInv'
  BY <1>1, <1>2, FlushKept
<1>5. LoneInv'
  BY <1>1 DEF IInv, LoneInv
<1> QED
  BY <1>2, <1>3, <1>4, <1>5 DEF IInv

(***************************************************************************)
(* The pump's loop goes on: the queue is empty when it ends, unless it was *)
(* told to stop.                                                           *)
(***************************************************************************)
LEMMA NextBatchStep == ASSUME IInv, NextBatch PROVE IInv'
<1>1. /\ UNCHANGED <<counters, outcome, flushTimer, closed, abandoned, shut, flush, mark, calls>>
      /\ pump = "between" /\ PumpLoop(queue)
  BY DEF NextBatch, counters
<1>2. /\ Pumped(queue) /\ CountInv' /\ BatchInv' /\ QueueInv'
      /\ Len(queue') \in Nat /\ Len(queue') <= Len(queue) /\ Len(queue) \in Nat
  BY <1>1, QuietPump
<1>3. TypeOK'
  <2>1. /\ flushTimer' \in BOOLEAN /\ closed' \in BOOLEAN /\ abandoned' \in BOOLEAN
        /\ shut' \in {"no", "draining", "expired", "done"}
        /\ flush' \in [Flushers -> FlushStates] /\ mark' \in [Flushers -> Nat]
        /\ UNCHANGED <<counters, outcome, calls>>
    BY <1>1 DEF IInv, TypeOK
  <2> QED
    BY <1>2, <2>1, QuietPumpType
<1>4. FlushInv'
  BY <1>1, <1>2, FlushKept
<1>5. LoneInv'
  <2>1. ~abandoned /\ pump' = "ending" => queue' = <<>>
    BY <1>1, <1>2 DEF Pumped
  <2> QED
    BY <1>1, <2>1 DEF IInv, LoneInv
<1> QED
  BY <1>2, <1>3, <1>4, <1>5 DEF IInv

(***************************************************************************)
(* flush() called by the host: it starts a pump or joins the one there is. *)
(***************************************************************************)
LEMMA HostFlushStep == ASSUME IInv, HostFlush PROVE IInv'
<1>1. /\ UNCHANGED <<counters, outcome, flushTimer, closed, abandoned, shut, calls>>
      /\ flush' = [flush EXCEPT !["host"] = "pass1"]
      /\ mark' = [mark EXCEPT !["host"] = recorded]
      /\ requestPump(queue)
  BY DEF HostFlush, CallFlush
<1>2. /\ Pumped(queue) /\ CountInv' /\ BatchInv' /\ QueueInv'
      /\ Len(queue') \in Nat /\ Len(queue') <= Len(queue) /\ Len(queue) \in Nat
  BY <1>1, QuietPump
<1>3. TypeOK'
  <2>1. /\ flushTimer' \in BOOLEAN /\ closed' \in BOOLEAN /\ abandoned' \in BOOLEAN
        /\ shut' \in {"no", "draining", "expired", "done"}
        /\ flush' \in [Flushers -> FlushStates] /\ mark' \in [Flushers -> Nat]
        /\ UNCHANGED <<counters, outcome, calls>>
    BY <1>1 DEF IInv, TypeOK, FlushStates
  <2> QED
    BY <1>2, <2>1, QuietPumpType
<1>4. FlushInv'
  <2> SUFFICES ASSUME NEW g \in Flushers
               PROVE  /\ mark'[g] <= recorded
                      /\ ~abandoned /\ flush'[g] \in {"woken2", "done"}
                            => mark'[g] + Len(queue') <= recorded
                      /\ ~abandoned /\ pump' = "ending" /\ flush'[g] \in {"woken1", "pass2"}
                            => mark'[g] + Len(queue') <= recorded
    BY <1>1 DEF FlushInv, Covered, counters
  <2>1. /\ mark[g] \in Nat /\ mark[g] <= recorded /\ recorded \in Nat
        /\ mark \in [Flushers -> Nat] /\ flush \in [Flushers -> FlushStates]
    BY DEF IInv, TypeOK, FlushInv
  <2>2. ~abandoned /\ pump' = "ending" /\ pump # "ending" => Len(queue') = 0
    BY <1>2 DEF Pumped
  <2>3. ~abandoned /\ flush[g] \in {"woken2", "done"} => mark[g] + Len(queue) <= recorded
    BY DEF IInv, FlushInv, Covered
  <2>4. ~abandoned /\ pump = "ending" /\ flush[g] \in {"woken1", "pass2"}
          => mark[g] + Len(queue) <= recorded
    BY DEF IInv, FlushInv, Covered
  <2>5. CASE g = "host"
    BY <1>1, <1>2, <2>1, <2>2, <2>3, <2>4, <2>5
  <2>6. CASE g # "host"
    <3>1. mark'[g] = mark[g] /\ flush'[g] = flush[g]
      BY <1>1, <2>1, <2>6
    <3> QED
      BY <1>2, <2>1, <2>2, <2>3, <2>4, <3>1
  <2> QED
    BY <2>5, <2>6
<1>5. LoneInv'
  <2>1. flush'["host"] = "pass1" /\ flush'["shutdown"] = flush["shutdown"]
    BY <1>1 DEF IInv, TypeOK, Flushers
  <2> QED
    BY <1>1, <2>1 DEF IInv, LoneInv
<1> QED
  BY <1>2, <1>3, <1>4, <1>5 DEF IInv

(***************************************************************************)
(* shutdown() up to its await: the client is closed, its flush timer is    *)
(* cancelled, and its own flush() has started.                             *)
(***************************************************************************)
LEMMA CallShutdownStep == ASSUME IInv, CallShutdown PROVE IInv'
<1>1. /\ UNCHANGED <<counters, outcome, abandoned, calls>>
      /\ shut' = "draining" /\ closed' = TRUE /\ flushTimer' = FALSE
      /\ flush' = [flush EXCEPT !["shutdown"] = "pass1"]
      /\ mark' = [mark EXCEPT !["shutdown"] = recorded]
      /\ requestPump(queue)
  BY DEF CallShutdown, CallFlush
<1>2. /\ Pumped(queue) /\ CountInv' /\ BatchInv' /\ QueueInv'
      /\ Len(queue') \in Nat /\ Len(queue') <= Len(queue) /\ Len(queue) \in Nat
  BY <1>1, QuietPump
<1>3. TypeOK'
  <2>1. /\ flushTimer' \in BOOLEAN /\ closed' \in BOOLEAN /\ abandoned' \in BOOLEAN
        /\ shut' \in {"no", "draining", "expired", "done"}
        /\ flush' \in [Flushers -> FlushStates] /\ mark' \in [Flushers -> Nat]
        /\ UNCHANGED <<counters, outcome, calls>>
    BY <1>1 DEF IInv, TypeOK, FlushStates
  <2> QED
    BY <1>2, <2>1, QuietPumpType
<1>4. FlushInv'
  <2> SUFFICES ASSUME NEW g \in Flushers
               PROVE  /\ mark'[g] <= recorded
                      /\ ~abandoned /\ flush'[g] \in {"woken2", "done"}
                            => mark'[g] + Len(queue') <= recorded
                      /\ ~abandoned /\ pump' = "ending" /\ flush'[g] \in {"woken1", "pass2"}
                            => mark'[g] + Len(queue') <= recorded
    BY <1>1 DEF FlushInv, Covered, counters
  <2>1. /\ mark[g] \in Nat /\ mark[g] <= recorded /\ recorded \in Nat
        /\ mark \in [Flushers -> Nat] /\ flush \in [Flushers -> FlushStates]
    BY DEF IInv, TypeOK, FlushInv
  <2>2. ~abandoned /\ pump' = "ending" /\ pump # "ending" => Len(queue') = 0
    BY <1>2 DEF Pumped
  <2>3. ~abandoned /\ flush[g] \in {"woken2", "done"} => mark[g] + Len(queue) <= recorded
    BY DEF IInv, FlushInv, Covered
  <2>4. ~abandoned /\ pump = "ending" /\ flush[g] \in {"woken1", "pass2"}
          => mark[g] + Len(queue) <= recorded
    BY DEF IInv, FlushInv, Covered
  <2>5. CASE g = "shutdown"
    BY <1>1, <1>2, <2>1, <2>2, <2>3, <2>4, <2>5
  <2>6. CASE g # "shutdown"
    <3>1. mark'[g] = mark[g] /\ flush'[g] = flush[g]
      BY <1>1, <2>1, <2>6
    <3> QED
      BY <1>2, <2>1, <2>2, <2>3, <2>4, <3>1
  <2> QED
    BY <2>5, <2>6
<1>5. LoneInv'
  <2>1. flush'["shutdown"] = "pass1"
    BY <1>1 DEF IInv, TypeOK, Flushers
  <2> QED
    BY <1>1, <2>1 DEF LoneInv
<1> QED
  BY <1>2, <1>3, <1>4, <1>5 DEF IInv

(***************************************************************************)
(* The second pass of flush(): it starts a pump, and then that pump ends   *)
(* with an empty queue, or joins one that is not over or has emptied it.   *)
(***************************************************************************)
LEMMA FlushAgainStep == ASSUME IInv, NEW f \in Flushers, FlushAgain(f) PROVE IInv'
<1>1. /\ UNCHANGED <<counters, outcome, flushTimer, closed, abandoned, shut, mark, calls>>
      /\ flush[f] = "woken1"
      /\ flush' = [flush EXCEPT ![f] = "pass2"]
      /\ requestPump(queue)
  BY DEF FlushAgain
<1>2. /\ Pumped(queue) /\ CountInv' /\ BatchInv' /\ QueueInv'
      /\ Len(queue') \in Nat /\ Len(queue') <= Len(queue) /\ Len(queue) \in Nat
  BY <1>1, QuietPump
<1>3. TypeOK'
  <2>1. /\ flushTimer' \in BOOLEAN /\ closed' \in BOOLEAN /\ abandoned' \in BOOLEAN
        /\ shut' \in {"no", "draining", "expired", "done"}
        /\ flush' \in [Flushers -> FlushStates] /\ mark' \in [Flushers -> Nat]
        /\ UNCHANGED <<counters, outcome, calls>>
    BY <1>1 DEF IInv, TypeOK, FlushStates
  <2> QED
    BY <1>2, <2>1, QuietPumpType
<1>4. FlushInv'
  <2> SUFFICES ASSUME NEW g \in Flushers
               PROVE  /\ mark'[g] <= recorded
                      /\ ~abandoned /\ flush'[g] \in {"woken2", "done"}
                            => mark'[g] + Len(queue') <= recorded
                      /\ ~abandoned /\ pump' = "ending" /\ flush'[g] \in {"woken1", "pass2"}
                            => mark'[g] + Len(queue') <= recorded
    BY <1>1 DEF FlushInv, Covered, counters
  <2>1. /\ mark[g] \in Nat /\ mark[g] <= recorded /\ recorded \in Nat
        /\ mark \in [Flushers -> Nat] /\ flush \in [Flushers -> FlushStates]
    BY DEF IInv, TypeOK, FlushInv
  <2>2. ~abandoned /\ pump' = "ending" /\ pump # "ending" => Len(queue') = 0
    BY <1>2 DEF Pumped
  <2>3. ~abandoned /\ flush[g] \in {"woken2", "done"} => mark[g] + Len(queue) <= recorded
    BY DEF IInv, FlushInv, Covered
  <2>4. ~abandoned /\ pump = "ending" /\ flush[g] \in {"woken1", "pass2"}
          => mark[g] + Len(queue) <= recorded
    BY DEF IInv, FlushInv, Covered
  <2>5. CASE g = f
    BY <1>1, <1>2, <2>1, <2>2, <2>3, <2>4, <2>5
  <2>6. CASE g # f
    <3>1. mark'[g] = mark[g] /\ flush'[g] = flush[g]
      BY <1>1, <2>1, <2>6
    <3> QED
      BY <1>2, <2>1, <2>2, <2>3, <2>4, <3>1
  <2> QED
    BY <2>5, <2>6
<1>5. LoneInv'
  <2>1. ~abandoned /\ pump' = "ending" /\ pump # "ending" => queue' = <<>>
    BY <1>2 DEF Pumped
  <2>2. f = "host" \/ f = "shutdown"
    BY DEF Flushers
  <2>3. CASE f = "host"
    <3>1. flush'["host"] = "pass2" /\ flush'["shutdown"] = flush["shutdown"]
      BY <1>1, <2>3 DEF IInv, TypeOK, Flushers
    <3> QED
      BY <1>1, <3>1 DEF IInv, LoneInv
  <2>4. CASE f = "shutdown"
    <3>1. flush'["shutdown"] = "pass2" /\ flush'["host"] = flush["host"]
      BY <1>1, <2>4 DEF IInv, TypeOK, Flushers
    <3> QED
      BY <1>1, <2>1, <2>4, <3>1 DEF IInv, LoneInv
  <2> QED
    BY <2>2, <2>3, <2>4
<1> QED
  BY <1>2, <1>3, <1>4, <1>5 DEF IInv

(***************************************************************************)
(* A call of record() that drops its event adds to a counter and does      *)
(* nothing else.                                                           *)
(***************************************************************************)
LEMMA RecordDroppedStep == ASSUME IInv, RecordDropped PROVE IInv'
<1>1. PICK reason \in {"afterShutdown", "invalid", "tooLarge"} :
          dropped' = [dropped EXCEPT ![reason] = @ + 1]
  BY DEF RecordDropped
<1>2. /\ calls' = calls + 1 /\ calls < MaxCalls
      /\ UNCHANGED <<queue, recorded, delivered, acknowledged, pump, batch, attempt, snapshot,
                     pendingId, minted, outcome, flushTimer, closed, abandoned, shut, flush, mark>>
  BY DEF RecordDropped, delivery
<1>3. dropped \in Drops
  BY DEF IInv, TypeOK, Drops
<1>4. /\ dropped' \in Drops /\ totalDropped \in Nat /\ totalDropped' = totalDropped + 1
      /\ dropped'["overflow"] = dropped["overflow"]
      /\ dropped'["undeliverable"] = dropped["undeliverable"]
  <2>1. /\ dropped'["overflow"] = dropped["overflow"]
        /\ dropped'["undeliverable"] = dropped["undeliverable"]
    BY <1>1, <1>3 DEF Drops
  <2>2. /\ 1 \in Nat
        /\ reason \in {"overflow", "invalid", "tooLarge", "afterShutdown", "undeliverable"}
    OBVIOUS
  <2> QED
    BY <1>1, <1>3, <2>1, <2>2, DropAdds
<1>5. TypeOK'
  <2>1. calls' \in 0 .. MaxCalls
    BY <1>2, ConfigAssumption DEF IInv, TypeOK
  <2> QED
    BY <1>2, <1>4, <2>1 DEF IInv, TypeOK, Drops
<1>6. CountInv'
  <2>1. EventsConserved'
    BY <1>2, <1>4 DEF IInv, CountInv, EventsConserved
  <2>2. PICK t \in Nat : t = totalDropped
    BY <1>4
  <2>3. totalDropped' = t + 1
    BY <1>4, <2>2
  <2>4. /\ acknowledged \in Nat /\ snapshot \in Nat /\ acknowledged <= t
        /\ batch # <<>> => acknowledged + snapshot <= t
    BY <2>2 DEF IInv, TypeOK, CountInv, ReportNeverNegative
  <2>5. acknowledged <= t + 1 /\ (batch # <<>> => acknowledged + snapshot <= t + 1)
    BY <2>4
  <2> QED
    BY <1>2, <2>1, <2>3, <2>5 DEF CountInv, ReportNeverNegative
<1>7. BatchInv' /\ QueueInv' /\ FlushInv' /\ LoneInv'
  BY <1>2 DEF IInv, BatchInv, QueueInv, FlushInv, LoneInv, Covered, Suffix
<1> QED
  BY <1>5, <1>6, <1>7 DEF IInv

(***************************************************************************)
(* The steps of deliverBatch that only move between its awaits: an attempt *)
(* settles, a backoff begins, ends or is followed by another attempt, and  *)
(* giving up, which cuts such a wait short.                                *)
(***************************************************************************)
LEMMA DeliveryStep ==
    ASSUME IInv,
           UNCHANGED <<queue, counters, batch, snapshot, pendingId, minted, flushTimer,
                       closed, flush, mark, calls>>,
           outcome' \in {"none", "delivered", "retryable", "permanent"},
           attempt' \in 0 .. MaxRetries + 1,
           \/ pump' = pump
           \/ pump \in Active /\ pump' \in Active,
           \/ UNCHANGED <<shut, abandoned>>
           \/ shut = "draining" /\ shut' = "expired" /\ UNCHANGED abandoned
           \/ shut = "draining" /\ flush["shutdown"] = "done" /\ shut' = "done" /\ UNCHANGED abandoned
           \/ shut = "expired" /\ shut' = "done" /\ abandoned' = TRUE
    PROVE  IInv'
<1>1. UNCHANGED <<recorded, delivered, dropped, acknowledged>> /\ totalDropped' = totalDropped
  BY DEF counters, totalDropped
<1>2. (pump' \in Active) = (pump \in Active) /\ (pump' = "ending" => pump = "ending")
  BY DEF Active
<1>3. TypeOK'
  BY <1>1 DEF IInv, TypeOK, Active, PumpStates
<1>4. CountInv'
  BY <1>1 DEF IInv, CountInv, EventsConserved, ReportNeverNegative
<1>5. BatchInv' /\ QueueInv'
  BY <1>1, <1>2 DEF IInv, BatchInv, QueueInv, Suffix
<1>6. FlushInv'
  BY <1>1, <1>2 DEF IInv, FlushInv, Covered, TypeOK
<1>7. LoneInv'
  BY DEF IInv, LoneInv, TypeOK, Active
<1> QED
  BY <1>3, <1>4, <1>5, <1>6, <1>7 DEF IInv

(***************************************************************************)
(* A delivered batch leaves the client and its drop report is              *)
(* acknowledged: no more than was dropped, because it was read when the    *)
(* delivery began and the counters only grow.                              *)
(***************************************************************************)
LEMMA BatchDeliveredStep == ASSUME IInv, BatchDelivered PROVE IInv'
<1>1. /\ pump = "settled" /\ pump' = "between" /\ batch' = <<>> /\ pendingId' = 0
      /\ acknowledged' = acknowledged + snapshot /\ delivered' = delivered + Len(batch)
      /\ UNCHANGED <<queue, recorded, dropped, attempt, outcome, snapshot, minted, flushTimer,
                     closed, abandoned, shut, flush, mark, calls>>
  BY DEF BatchDelivered
<1>2. /\ batch # <<>> /\ Len(batch) \in Nat /\ Len(queue) \in Nat /\ delivered \in Nat
      /\ dropped.overflow \in Nat /\ dropped.undeliverable \in Nat
      /\ acknowledged \in Nat /\ snapshot \in Nat /\ recorded \in Nat
  BY <1>1 DEF IInv, TypeOK, BatchInv, Active
<1>3. totalDropped' = totalDropped /\ batch' \in Seq(Nat) /\ Len(batch') = 0
  BY <1>1 DEF totalDropped
<1>4. TypeOK'
  BY <1>1, <1>2, <1>3 DEF IInv, TypeOK, PumpStates
<1>5. CountInv'
  <2>1. acknowledged' <= totalDropped'
    BY <1>1, <1>2, <1>3 DEF IInv, CountInv, ReportNeverNegative
  <2>2. recorded = Len(queue) + 0 + (delivered + Len(batch)) + dropped.overflow
                   + dropped.undeliverable
    <3>1. recorded = Len(queue) + Len(batch) + delivered + dropped.overflow
                     + dropped.undeliverable
      BY DEF IInv, CountInv, EventsConserved
    <3> QED
      BY <1>2, <3>1
  <2>3. EventsConserved'
    BY <1>1, <1>3, <2>2 DEF IInv, CountInv, EventsConserved
  <2> QED
    BY <1>1, <2>1, <2>3 DEF CountInv, ReportNeverNegative
<1>6. BatchInv' /\ QueueInv' /\ FlushInv' /\ LoneInv'
  BY <1>1 DEF IInv, BatchInv, QueueInv, FlushInv, LoneInv, Covered, Suffix, Active
<1> QED
  BY <1>4, <1>5, <1>6 DEF IInv

(***************************************************************************)
(* A lost batch leaves the client and every event of it is counted.        *)
(***************************************************************************)
LEMMA DropBatchStep == ASSUME IInv, pump \in {"settled", "retry"}, DropBatch PROVE IInv'
<1>1. /\ pump' = "between" /\ batch' = <<>>
      /\ dropped' = [dropped EXCEPT !["undeliverable"] = @ + Len(batch)]
      /\ UNCHANGED <<queue, recorded, delivered, acknowledged, attempt, outcome, snapshot,
                     pendingId, minted, flushTimer, closed, abandoned, shut, flush, mark, calls>>
  BY DEF DropBatch
<1>2. /\ dropped \in Drops /\ Len(batch) \in Nat /\ Len(queue) \in Nat /\ delivered \in Nat
      /\ dropped.overflow \in Nat /\ dropped.undeliverable \in Nat
      /\ acknowledged \in Nat /\ recorded \in Nat
  BY DEF IInv, TypeOK, Drops
<1>3. /\ dropped'["overflow"] = dropped["overflow"]
      /\ dropped'["undeliverable"] = dropped["undeliverable"] + Len(batch)
  BY <1>1, <1>2 DEF Drops
<1>4. dropped' \in Drops /\ totalDropped \in Nat /\ totalDropped' = totalDropped + Len(batch)
  BY <1>1, <1>2, DropAdds
<1>5. batch' \in Seq(Nat) /\ Len(batch') = 0
  BY <1>1
<1>6. TypeOK'
  BY <1>1, <1>4, <1>5 DEF IInv, TypeOK, Drops, PumpStates
<1>7. CountInv'
  <2>1. PICK t \in Nat : t = totalDropped
    BY <1>4
  <2>2. acknowledged <= t + Len(batch)
    BY <1>2, <2>1 DEF IInv, CountInv, ReportNeverNegative
  <2>3. acknowledged' <= totalDropped'
    BY <1>1, <1>4, <2>1, <2>2
  <2>4. recorded = Len(queue) + 0 + delivered + dropped.overflow
                   + (dropped.undeliverable + Len(batch))
    <3>1. recorded = Len(queue) + Len(batch) + delivered + dropped.overflow
                     + dropped.undeliverable
      BY DEF IInv, CountInv, EventsConserved
    <3> QED
      BY <1>2, <3>1
  <2>5. EventsConserved'
    BY <1>1, <1>3, <1>5, <2>4 DEF IInv, CountInv, EventsConserved
  <2> QED
    BY <1>1, <2>3, <2>5 DEF CountInv, ReportNeverNegative
<1>8. BatchInv' /\ QueueInv' /\ FlushInv' /\ LoneInv'
  BY <1>1 DEF IInv, BatchInv, QueueInv, FlushInv, LoneInv, Covered, Suffix, Active
<1> QED
  BY <1>6, <1>7, <1>8 DEF IInv

(***************************************************************************)
(* requestPump's `finally` wakes the calls of flush() that await the pump. *)
(***************************************************************************)
LEMMA PumpEndsStep == ASSUME IInv, PumpEnds PROVE IInv'
<1>1. /\ pump = "ending" /\ pump' = "none"
      /\ flush' = [f \in Flushers |-> CASE flush[f] = "pass1" -> "woken1"
                                        [] flush[f] = "pass2" -> "woken2"
                                        [] OTHER -> flush[f]]
      /\ UNCHANGED <<queue, counters, batch, attempt, outcome, snapshot, pendingId, minted,
                     flushTimer, closed, abandoned, shut, mark, calls>>
  BY DEF PumpEnds
<1>2. UNCHANGED <<recorded, delivered, dropped, acknowledged>> /\ totalDropped' = totalDropped
  BY <1>1 DEF counters, totalDropped
<1>3. \A f \in Flushers :
          /\ flush'[f] \in FlushStates
          /\ flush[f] = "pass1" => flush'[f] = "woken1"
          /\ flush[f] = "pass2" => flush'[f] = "woken2"
          /\ flush[f] \notin {"pass1", "pass2"} => flush'[f] = flush[f]
  BY <1>1 DEF IInv, TypeOK, FlushStates
<1>4. TypeOK'
  <2>1. flush' \in [Flushers -> FlushStates]
    BY <1>1, <1>3
  <2> QED
    BY <1>1, <1>2, <2>1 DEF IInv, TypeOK, PumpStates
<1>5. CountInv'
  BY <1>1, <1>2 DEF IInv, CountInv, EventsConserved, ReportNeverNegative
<1>6. BatchInv' /\ QueueInv'
  BY <1>1, <1>2 DEF IInv, BatchInv, QueueInv, Suffix, Active
<1>7. FlushInv'
  <2> SUFFICES ASSUME NEW f \in Flushers, ~abandoned, flush'[f] \in {"woken2", "done"}
               PROVE  Covered(f)
    BY <1>1, <1>2 DEF IInv, FlushInv, Covered
  <2>1. flush[f] \in {"pass2", "woken2", "done"}
    BY <1>3 DEF IInv, TypeOK, FlushStates
  <2> QED
    BY <1>1, <2>1 DEF IInv, FlushInv
<1>8. LoneInv'
  <2>1. "host" \in Flushers /\ "shutdown" \in Flushers
    BY DEF Flushers
  <2> QED
    BY <1>1, <1>3, <2>1 DEF IInv, LoneInv, TypeOK
<1> QED
  BY <1>4, <1>5, <1>6, <1>7, <1>8 DEF IInv

(***************************************************************************)
(* flush() returns after its second pass, or after the first with nothing  *)
(* queued.                                                                 *)
(***************************************************************************)
LEMMA FlushReturnsStep == ASSUME IInv, NEW f \in Flushers, FlushReturns(f) PROVE IInv'
<1>1. /\ flush[f] = "woken2" \/ (flush[f] = "woken1" /\ (queue = <<>> \/ abandoned))
      /\ flush' = [flush EXCEPT ![f] = "done"]
      /\ UNCHANGED <<queue, counters, pump, batch, attempt, snapshot, pendingId, minted, outcome,
                     flushTimer, closed, abandoned, shut, mark, calls>>
  BY DEF FlushReturns, NothingLeft, delivery
<1>2. UNCHANGED <<recorded, delivered, dropped, acknowledged>> /\ totalDropped' = totalDropped
  BY <1>1 DEF counters, totalDropped
<1>3. TypeOK'
  BY <1>1, <1>2 DEF IInv, TypeOK, FlushStates
<1>4. CountInv'
  BY <1>1, <1>2 DEF IInv, CountInv, EventsConserved, ReportNeverNegative
<1>5. BatchInv' /\ QueueInv'
  BY <1>1, <1>2 DEF IInv, BatchInv, QueueInv, Suffix
<1>6. FlushInv'
  <2>1. ~abandoned => Covered(f)
    <3>1. CASE flush[f] = "woken2"
      BY <3>1 DEF IInv, FlushInv
    <3>2. CASE queue = <<>>
      <4>1. Len(queue) = 0 /\ mark[f] \in Nat /\ mark[f] <= recorded
        BY <3>2 DEF IInv, FlushInv, TypeOK
      <4> QED
        BY <4>1 DEF Covered
    <3> QED
      BY <1>1, <3>1, <3>2
  <2> SUFFICES ASSUME NEW g \in Flushers
               PROVE  /\ mark[g] <= recorded
                      /\ ~abandoned /\ flush'[g] \in {"woken2", "done"} => Covered(g)
                      /\ ~abandoned /\ pump = "ending" /\ flush'[g] \in {"woken1", "pass2"}
                            => Covered(g)
    BY <1>1, <1>2 DEF FlushInv, Covered
  <2>2. flush \in [Flushers -> FlushStates]
    BY DEF IInv, TypeOK
  <2> QED
    BY <1>1, <2>1, <2>2 DEF IInv, FlushInv
<1>7. LoneInv'
  <2>1. flush \in [Flushers -> FlushStates] /\ (f = "host" \/ f = "shutdown")
    BY DEF IInv, TypeOK, Flushers
  <2>2. CASE f = "host"
    <3>1. flush'["host"] = "done" /\ flush'["shutdown"] = flush["shutdown"]
      BY <1>1, <2>1, <2>2 DEF Flushers
    <3> QED
      BY <1>1, <3>1 DEF IInv, LoneInv
  <2>3. CASE f = "shutdown"
    <3>1. flush'["shutdown"] = "done" /\ flush'["host"] = flush["host"]
      BY <1>1, <2>1, <2>3 DEF Flushers
    <3> QED
      BY <1>1, <2>3, <3>1 DEF IInv, LoneInv
  <2> QED
    BY <2>1, <2>2, <2>3
<1> QED
  BY <1>3, <1>4, <1>5, <1>6, <1>7 DEF IInv

-----------------------------------------------------------------------------
(* The theorems *)

(***************************************************************************)
(* Every step of the client preserves the invariant.                       *)
(***************************************************************************)
LEMMA Inductive == ASSUME IInv, [Next]_vars PROVE IInv'
<1>1. CASE RecordAccepted
  BY <1>1, RecordAcceptedStep
<1>2. CASE RecordDropped
  BY <1>2, RecordDroppedStep
<1>3. CASE HostFlush
  BY <1>3, HostFlushStep
<1>4. CASE CallShutdown
  BY <1>4, CallShutdownStep
<1>5. CASE Settles \/ RequestTimeout
  <2>1. PICK result \in {"delivered", "retryable", "permanent"} : TransportSettles(result)
    BY <1>5 DEF Settles, RequestTimeout
  <2>2. attempt' \in 0 .. MaxRetries + 1
    BY <2>1 DEF TransportSettles, IInv, TypeOK
  <2> QED
    BY <2>1, <2>2, DeliveryStep DEF TransportSettles, Active
<1>6. CASE BatchDelivered
  BY <1>6, BatchDeliveredStep
<1>7. CASE BatchLost \/ RetryRefused
  BY <1>7, DropBatchStep DEF BatchLost, RetryRefused
<1>8. CASE BackOff \/ BackoffElapses
  <2>1. attempt' \in 0 .. MaxRetries + 1 /\ outcome' \in {"none", "delivered", "retryable", "permanent"}
    BY <1>8 DEF BackOff, BackoffElapses, IInv, TypeOK
  <2> QED
    BY <1>8, <2>1, DeliveryStep DEF BackOff, BackoffElapses, Active
<1>9. CASE Retry
  <2>1. attempt' \in 0 .. MaxRetries + 1 /\ outcome' \in {"none", "delivered", "retryable", "permanent"}
    BY <1>9, ConfigAssumption DEF Retry, MayAttempt, IInv, TypeOK
  <2> QED
    BY <1>9, <2>1, DeliveryStep DEF Retry, Active
<1>10. CASE NextBatch
  BY <1>10, NextBatchStep
<1>11. CASE PumpEnds
  BY <1>11, PumpEndsStep
<1>12. ASSUME NEW f \in Flushers, FlushAgain(f) \/ FlushReturns(f) PROVE IInv'
  BY <1>12, FlushAgainStep, FlushReturnsStep
<1>13. CASE Drained \/ DeadlineFires
  <2>1. attempt' \in 0 .. MaxRetries + 1 /\ outcome' \in {"none", "delivered", "retryable", "permanent"}
    BY <1>13 DEF Drained, DeadlineFires, delivery, IInv, TypeOK
  <2> QED
    BY <1>13, <2>1, DeliveryStep DEF Drained, DeadlineFires, delivery
<1>14. CASE GiveUp
  <2>1. attempt' \in 0 .. MaxRetries + 1 /\ outcome' \in {"none", "delivered", "retryable", "permanent"}
    BY <1>14 DEF GiveUp, IInv, TypeOK
  <2>2. pump' = pump \/ (pump \in Active /\ pump' \in Active)
    BY <1>14 DEF GiveUp, abandonWaits, Active
  <2> QED
    BY <1>14, <2>1, <2>2, DeliveryStep DEF GiveUp
<1>15. CASE FlushTimerFires
  BY <1>15, FlushTimerStep
<1>16. CASE UNCHANGED vars
  <2>1. attempt' \in 0 .. MaxRetries + 1 /\ outcome' \in {"none", "delivered", "retryable", "permanent"}
    BY <1>16 DEF vars, delivery, IInv, TypeOK
  <2> QED
    BY <1>16, <2>1, DeliveryStep DEF vars, delivery
<1> QED
  BY <1>1, <1>2, <1>3, <1>4, <1>5, <1>6, <1>7, <1>8, <1>9, <1>10, <1>11, <1>12, <1>13,
     <1>14, <1>15, <1>16 DEF Next, Host, Continuation, Timer

(***************************************************************************)
(* The invariant holds of a client that has just been created.             *)
(***************************************************************************)
LEMMA Initially == Init => IInv
<1> SUFFICES ASSUME Init PROVE IInv
  OBVIOUS
<1>1. /\ queue = <<>> /\ batch = <<>> /\ Len(queue) = 0 /\ Len(batch) = 0
      /\ queue \in Seq(Nat) /\ batch \in Seq(Nat)
  BY DEF Init
<1>2. dropped \in Drops /\ dropped.overflow = 0 /\ dropped.undeliverable = 0 /\ totalDropped = 0
  BY DEF Init, NoDrops, Drops, totalDropped
<1>3. TypeOK
  <2>1. attempt \in 0 .. MaxRetries + 1 /\ calls \in 0 .. MaxCalls
    BY ConfigAssumption DEF Init
  <2>2. flush \in [Flushers -> FlushStates] /\ mark \in [Flushers -> Nat]
    BY DEF Init, FlushStates
  <2>3. dropped \in [overflow : Nat, invalid : Nat, tooLarge : Nat,
                     afterShutdown : Nat, undeliverable : Nat]
    BY <1>2 DEF Drops
  <2>4. recorded \in Nat /\ delivered \in Nat /\ acknowledged \in Nat /\ snapshot \in Nat
        /\ pendingId \in Nat /\ minted \in Nat
    BY DEF Init
  <2>5. pump \in PumpStates /\ outcome \in {"none", "delivered", "retryable", "permanent"}
        /\ shut \in {"no", "draining", "expired", "done"}
    BY DEF Init, PumpStates
  <2>6. flushTimer \in BOOLEAN /\ closed \in BOOLEAN /\ abandoned \in BOOLEAN
    BY DEF Init
  <2> QED
    BY <1>1, <2>1, <2>2, <2>3, <2>4, <2>5, <2>6 DEF TypeOK
<1>4. CountInv
  BY <1>1, <1>2, ConfigAssumption DEF Init, CountInv, EventsConserved, ReportNeverNegative
<1>5. BatchInv /\ QueueInv /\ FlushInv /\ LoneInv
  BY <1>1 DEF Init, BatchInv, QueueInv, FlushInv, LoneInv, Suffix, Active, Covered, Flushers
<1> QED
  BY <1>3, <1>4, <1>5 DEF IInv

(***************************************************************************)
(* The invariant holds in every state of the client.                       *)
(***************************************************************************)
LEMMA Invariance == Spec => []IInv
BY Initially, Inductive, PTL DEF Spec

(***************************************************************************)
(* The client's state keeps its types; the number of attempts stays within *)
(* maxRetries + 1.                                                         *)
(***************************************************************************)
THEOREM TypeCorrect == Spec => []TypeOK
<1>1. IInv => TypeOK
  BY DEF IInv
<1> QED
  BY <1>1, Invariance, PTL

(***************************************************************************)
(* No event is lost without being counted and none is counted twice:       *)
(* queue, batch, delivered and the drop counters add up to what record()   *)
(* accepted, for every queue size, batch size and number of retries.       *)
(***************************************************************************)
THEOREM Conservation == Spec => []EventsConserved
<1>1. IInv => EventsConserved
  BY DEF IInv, CountInv
<1> QED
  BY <1>1, Invariance, PTL

(***************************************************************************)
(* The drop report is never negative (pendingDropReport's comment), and a  *)
(* delivery acknowledges no drop that did not happen.                      *)
(***************************************************************************)
THEOREM DropReportSound == Spec => []ReportNeverNegative
<1>1. IInv => ReportNeverNegative
  BY DEF IInv, CountInv
<1> QED
  BY <1>1, Invariance, PTL

(***************************************************************************)
(* When flush() returns, what was recorded before it was called has left   *)
(* the queue, although a call may join a pump that has already ended.      *)
(***************************************************************************)
THEOREM FlushCovers == Spec => []FlushCoversEarlierEvents
<1>1. IInv => FlushCoversEarlierEvents
  <2> SUFFICES ASSUME IInv, NEW f \in Flushers, flush[f] = "done", ~abandoned,
                      NEW i \in DOMAIN queue
               PROVE  queue[i] > mark[f]
    BY DEF FlushCoversEarlierEvents
  <2>1. Covered(f) /\ Suffix(queue, recorded)
    BY DEF IInv, FlushInv, QueueInv
  <2>2. /\ queue \in Seq(Nat) /\ Len(queue) \in Nat /\ recorded \in Nat /\ mark[f] \in Nat
        /\ i \in 1 .. Len(queue)
    BY DEF IInv, TypeOK
  <2>3. queue[i] = recorded - Len(queue) + i
    BY <2>1, <2>2 DEF Suffix
  <2> QED
    BY <2>1, <2>2, <2>3 DEF Covered
<1> QED
  BY <1>1, Invariance, PTL

(***************************************************************************)
(* When the host makes no flush() of its own, a shutdown() that returns    *)
(* before its deadline has drained the client.                             *)
(***************************************************************************)
THEOREM LoneShutdown == Spec => []LoneShutdownDrains
<1>1. IInv => LoneShutdownDrains
  BY DEF IInv, LoneInv, BatchInv, Active, LoneShutdownDrains
<1> QED
  BY <1>1, Invariance, PTL

(***************************************************************************)
(* Once shutdown() has given up, no request is started.                    *)
(***************************************************************************)
THEOREM GivingUpIsFinal == Spec => NoAttemptAfterGivingUp
<1>1. ASSUME [Next]_vars, abandoned, pump # "sending" PROVE pump' # "sending"
  <2>1. ASSUME NEW q, PumpLoop(q) PROVE pump' # "sending"
    BY <1>1, <2>1 DEF PumpLoop
  <2>2. ASSUME NEW q, requestPump(q) PROVE pump' # "sending"
    BY <1>1, <2>1, <2>2 DEF requestPump, delivery
  <2>3. CASE RecordAccepted
    BY <1>1, <2>2, <2>3 DEF RecordAccepted, delivery
  <2>4. CASE FlushTimerFires \/ HostFlush \/ CallShutdown \/ \E f \in Flushers : FlushAgain(f)
    BY <2>2, <2>4 DEF FlushTimerFires, HostFlush, CallShutdown, FlushAgain, CallFlush
  <2>5. CASE NextBatch
    BY <2>1, <2>5 DEF NextBatch
  <2>6. CASE \/ RecordDropped \/ Settles \/ RequestTimeout \/ BatchDelivered \/ BatchLost
             \/ BackOff \/ Retry \/ RetryRefused \/ BackoffElapses \/ PumpEnds
             \/ \E f \in Flushers : FlushReturns(f)
    BY <1>1, <2>6 DEF RecordDropped, Settles, RequestTimeout, TransportSettles, BatchDelivered,
       BatchLost, BackOff, Retry, MayAttempt, RetryRefused, BackoffElapses, DropBatch, PumpEnds,
       FlushReturns, delivery
  <2>7. CASE Drained \/ DeadlineFires \/ GiveUp \/ UNCHANGED vars
    BY <1>1, <2>7 DEF Drained, DeadlineFires, GiveUp, abandonWaits, vars, delivery
  <2> QED
    BY <1>1, <2>3, <2>4, <2>5, <2>6, <2>7 DEF Next, Host, Continuation, Timer
<1>2. [Next]_vars => [abandoned /\ pump # "sending" => pump' # "sending"]_vars
  BY <1>1
<1> QED
  BY <1>2, PTL DEF Spec, NoAttemptAfterGivingUp
-----------------------------------------------------------------------------
(***************************************************************************)
(* DropReporting, for every configuration and every finite set of runs:    *)
(* whatever requests are lost, late or folded after the client gave up on  *)
(* them, no drop is counted twice for a run.                               *)
(*                                                                         *)
(* The argument: a delivery id stands for one baseline, and the reports    *)
(* made under it only grow, so the acknowledgement of the last one covers  *)
(* them all; reports under different ids are about different drops; and    *)
(* the server folds one report for each run and id.                        *)
(***************************************************************************)

\* The drops a report is about.
Span(m) == m.base + 1 .. m.base + m.amount

Messages == [n : Nat, id : Nat, base : Nat, amount : Nat, runs : SUBSET Runs]

DropTypes ==
    /\ WireTypeOK
    /\ wire \subseteq Messages
    /\ counted \in [Runs -> SUBSET Nat]

\* A batch on its way has a delivery id, the last one generated, which is kept until
\* the drops reported under it are acknowledged.
PendingInv ==
    /\ pump \in Active => pendingId # 0
    /\ pendingId # 0 => pendingId = minted /\ acknowledged + snapshot <= totalDropped

\* A report under the pending id starts at the baseline and is no larger than the
\* last one; any other is about drops that were acknowledged.
WireInv ==
    \A m \in wire :
      /\ m.id \in 1 .. minted
      /\ m.id = pendingId => m.base = acknowledged /\ m.amount <= snapshot
      /\ m.id # pendingId => m.base + m.amount <= acknowledged

\* Reports under different ids are about different drops.
Apart == \A m1, m2 \in wire : m1.id < m2.id => m1.base + m1.amount <= m2.base

DeliveriesInv == \A r \in Runs, i \in Nat : <<r, i>> \in deliveries => i \in 1 .. minted

\* What is counted was acknowledged, or is about to be, under the id pending.
CountedInv ==
    \A r \in Runs :
      /\ pendingId = 0 \/ <<r, pendingId>> \notin deliveries => counted[r] \subseteq 1 .. acknowledged
      /\ pendingId # 0 => counted[r] \subseteq 1 .. acknowledged + snapshot

\* A report that the server would still fold is about drops it has not counted.
FreshInv ==
    \A m \in wire : \A r \in m.runs :
      <<r, m.id>> \notin deliveries => counted[r] \cap Span(m) = {}

StoredInv == \A r \in Runs : stored[r] = Cardinality(counted[r])

DropInv ==
    /\ IInv /\ DropTypes /\ PendingInv /\ WireInv /\ Apart
    /\ DeliveriesInv /\ CountedInv /\ FreshInv /\ StoredInv

-----------------------------------------------------------------------------
(* What a step of the client does to the report *)

\* deliverBatch begins: the report is read, the id is the pending one or a new one.
Opens ==
    /\ pump # "sending" /\ pump' = "sending"
    /\ snapshot' = totalDropped' - acknowledged
    /\ acknowledged' = acknowledged
    /\ \/ pendingId = 0 /\ pendingId' = minted + 1 /\ minted' = minted + 1
       \/ pendingId # 0 /\ pendingId' = pendingId /\ minted' = minted

\* The same report is sent again.
Resends ==
    /\ pump = "retry" /\ pump' = "sending"
    /\ UNCHANGED <<acknowledged, snapshot, pendingId, minted>>

\* The report is acknowledged.
Acks ==
    /\ pump = "settled" /\ pump' = "between"
    /\ acknowledged' = acknowledged + snapshot
    /\ pendingId' = 0
    /\ UNCHANGED <<snapshot, minted>>

\* Nothing happens to the report.
Keeps ==
    /\ ~(pump # "sending" /\ pump' = "sending")
    /\ pump' \in Active => pump \in Active
    /\ UNCHANGED <<acknowledged, snapshot, pendingId, minted>>

\* Offering the queue to the pump begins a batch, or leaves the report alone.
LEMMA OfferStep ==
    ASSUME NEW q, UNCHANGED acknowledged,
           \/ pump \in {"none", "between"} /\ PumpLoop(q)
           \/ requestPump(q)
           \/ UNCHANGED delivery
    PROVE  Opens \/ Keeps
<1>1. ASSUME pump \in {"none", "between"}, PumpLoop(q) PROVE Opens \/ Keeps
  <2>1. CASE q # <<>> /\ ~abandoned
    BY <1>1, <2>1 DEF PumpLoop, BeginBatch, MintsId, pendingDropReport, Opens
  <2>2. CASE ~(q # <<>> /\ ~abandoned)
    BY <1>1, <2>2 DEF PumpLoop, Keeps, Active
  <2> QED  BY <2>1, <2>2
<1>2. ASSUME UNCHANGED delivery PROVE Keeps
  BY <1>2 DEF delivery, Keeps
<1> QED  BY <1>1, <1>2 DEF requestPump

\* The number of drops only grows.
LEMMA DropsGrow ==
    ASSUME IInv, Next
    PROVE  totalDropped \in Nat /\ totalDropped' \in Nat /\ totalDropped <= totalDropped'
<1>1. dropped \in Drops /\ totalDropped \in Nat
  BY TotalDroppedNat DEF IInv, TypeOK, Drops
<1>2. ASSUME dropped' = dropped
      PROVE  totalDropped' \in Nat /\ totalDropped <= totalDropped'
  <2>1. totalDropped' = totalDropped  BY <1>2 DEF totalDropped
  <2> QED  BY <1>1, <2>1
<1>3. ASSUME NEW n \in Nat,
             NEW c \in {"overflow", "invalid", "tooLarge", "afterShutdown", "undeliverable"},
             dropped' = [dropped EXCEPT ![c] = @ + n]
      PROVE  totalDropped' \in Nat /\ totalDropped <= totalDropped'
  <2>1. totalDropped' \in Nat /\ totalDropped' = totalDropped + n
    BY <1>1, <1>3, DropAdds
  <2>2. PICK t \in Nat : t = totalDropped  BY <1>1
  <2> QED  BY <2>1, <2>2
<1>4. CASE RecordAccepted
  <2>1. Overflow(queue) \in Nat
    BY ConfigAssumption DEF IInv, TypeOK, Overflow
  <2>2. dropped' = [dropped EXCEPT !["overflow"] = @ + Overflow(queue)]
    BY <1>4 DEF RecordAccepted
  <2> QED  BY <1>1, <1>3, <2>1, <2>2
<1>5. CASE RecordDropped
  <2>1. PICK c \in {"afterShutdown", "invalid", "tooLarge"} :
            dropped' = [dropped EXCEPT ![c] = @ + 1]
    BY <1>5 DEF RecordDropped
  <2> QED  BY <1>1, <1>3, <2>1
<1>6. CASE DropBatch
  <2>1. Len(batch) \in Nat  BY DEF IInv, TypeOK
  <2>2. dropped' = [dropped EXCEPT !["undeliverable"] = @ + Len(batch)]
    BY <1>6 DEF DropBatch
  <2> QED  BY <1>1, <1>3, <2>1, <2>2
<1>7. RecordAccepted \/ RecordDropped \/ DropBatch \/ dropped' = dropped
  BY DEF Next, Host, Settles, Continuation, Timer, HostFlush, CallShutdown, TransportSettles,
         BatchDelivered, BatchLost, BackOff, Retry, RetryRefused, NextBatch, PumpEnds,
         FlushAgain, FlushReturns, Drained, GiveUp, FlushTimerFires, RequestTimeout,
         BackoffElapses, DeadlineFires, counters
<1> QED  BY <1>1, <1>2, <1>4, <1>5, <1>6, <1>7

\* Every step of the client begins a batch, repeats an attempt, acknowledges a report
\* or leaves the report alone.
LEMMA ReportStep == ASSUME IInv, Next PROVE Opens \/ Resends \/ Acks \/ Keeps
<1>1. CASE RecordAccepted
  BY <1>1, OfferStep DEF RecordAccepted
<1>2. CASE HostFlush \/ CallShutdown
  BY <1>2, OfferStep DEF HostFlush, CallShutdown, CallFlush, counters
<1>3. CASE FlushTimerFires
  BY <1>3, OfferStep DEF FlushTimerFires, counters
<1>4. ASSUME NEW f \in Flushers, FlushAgain(f) PROVE Opens \/ Keeps
  BY <1>4, OfferStep DEF FlushAgain, counters
<1>5. CASE NextBatch
  BY <1>5, OfferStep DEF NextBatch
<1>6. CASE \/ RecordDropped \/ Drained \/ DeadlineFires
           \/ \E f \in Flushers : FlushReturns(f)
  BY <1>6 DEF RecordDropped, Drained, DeadlineFires, FlushReturns, delivery, counters, Keeps
<1>7. CASE Settles \/ RequestTimeout
  BY <1>7 DEF Settles, RequestTimeout, TransportSettles, counters, Keeps, Active
<1>8. CASE BatchDelivered
  BY <1>8 DEF BatchDelivered, Acks
<1>9. CASE BatchLost \/ RetryRefused
  BY <1>9 DEF BatchLost, RetryRefused, DropBatch, Keeps, Active
<1>10. CASE BackOff \/ BackoffElapses \/ PumpEnds
  BY <1>10 DEF BackOff, BackoffElapses, PumpEnds, counters, Keeps, Active
<1>11. CASE Retry
  BY <1>11 DEF Retry, counters, Resends
<1>12. CASE GiveUp
  BY <1>12 DEF GiveUp, abandonWaits, counters, Keeps, Active
<1> QED
  BY <1>1, <1>2, <1>3, <1>4, <1>5, <1>6, <1>7, <1>8, <1>9, <1>10, <1>11, <1>12
     DEF Next, Host, Continuation, Timer

-----------------------------------------------------------------------------
(* Steps of the client preserve the invariant *)

\* The numbers of the client are natural numbers, before and after a step.
LEMMA ClientNumbers ==
    IInv => /\ acknowledged \in Nat /\ snapshot \in Nat /\ pendingId \in Nat /\ minted \in Nat
            /\ totalDropped \in Nat /\ acknowledged <= totalDropped
<1> SUFFICES ASSUME IInv
             PROVE  /\ acknowledged \in Nat /\ snapshot \in Nat /\ pendingId \in Nat /\ minted \in Nat
                    /\ totalDropped \in Nat /\ acknowledged <= totalDropped
  OBVIOUS
<1>1. acknowledged \in Nat /\ snapshot \in Nat /\ pendingId \in Nat /\ minted \in Nat
  BY DEF IInv, TypeOK
<1>2. totalDropped \in Nat  BY TotalDroppedNat DEF IInv, TypeOK, Drops
<1>3. acknowledged <= totalDropped  BY DEF IInv, CountInv, ReportNeverNegative
<1> QED  BY <1>1, <1>2, <1>3

\* A step that leaves the report alone leaves every relation to it alone.
LEMMA KeepsStep ==
    ASSUME DropInv, IInv', Keeps, totalDropped' \in Nat, totalDropped <= totalDropped',
           UNCHANGED network, UNCHANGED server
    PROVE  DropInv'
<1>1. PendingInv'
  <2>1. PICK t \in Nat : t = totalDropped  BY ClientNumbers DEF DropInv
  <2>2. PICK u \in Nat : u = totalDropped'  OBVIOUS
  <2>3. acknowledged \in Nat /\ snapshot \in Nat /\ t <= u
        /\ (pendingId # 0 => pendingId = minted /\ acknowledged + snapshot <= t)
    BY <2>1, <2>2, ClientNumbers DEF DropInv, PendingInv
  <2>4. pendingId # 0 => acknowledged + snapshot <= u  BY <2>3
  <2> QED  BY <2>2, <2>3, <2>4 DEF DropInv, PendingInv, Keeps
<1>2. DropTypes' /\ WireInv' /\ Apart' /\ DeliveriesInv' /\ CountedInv' /\ FreshInv' /\ StoredInv'
  BY DEF DropInv, Keeps, network, server, DropTypes, WireTypeOK, WireInv, Apart,
       DeliveriesInv,
         CountedInv, FreshInv, Span, StoredInv
<1> QED  BY <1>1, <1>2 DEF DropInv

\* An acknowledgement covers every report made under its id.
LEMMA AcksStep ==
    ASSUME DropInv, IInv', Acks, UNCHANGED network, UNCHANGED server
    PROVE  DropInv'
<1>1. /\ acknowledged \in Nat /\ snapshot \in Nat /\ pendingId \in Nat /\ minted \in Nat
      /\ pendingId # 0
  BY ClientNumbers DEF DropInv, PendingInv, Acks, Active
<1>2. /\ acknowledged' = acknowledged + snapshot /\ pendingId' = 0 /\ minted' = minted
      /\ UNCHANGED <<names, sent, wire, deliveries, stored, counted>>
  BY DEF Acks, network, server
<1>3. PendingInv'  BY <1>2 DEF PendingInv, Acks, Active
<1>4. WireInv'
  <2>1. ASSUME NEW m \in wire
        PROVE  m.id \in 1 .. minted /\ m.base + m.amount <= acknowledged + snapshot
    <3>1. m.base \in Nat /\ m.amount \in Nat  BY DEF DropInv, DropTypes, WireTypeOK
    <3> QED  BY <1>1, <3>1 DEF DropInv, WireInv
  <2>2. \A m \in wire : m.id # 0  BY <1>1, <2>1
  <2> QED  BY <1>2, <2>1, <2>2 DEF WireInv
<1>5. DropTypes' /\ Apart' /\ DeliveriesInv' /\ FreshInv' /\ StoredInv'
  BY <1>2 DEF DropInv, DropTypes, WireTypeOK, Apart, DeliveriesInv, FreshInv, Span, StoredInv
<1>6. CountedInv'
  BY <1>1, <1>2 DEF DropInv, CountedInv
<1> QED  BY <1>3, <1>4, <1>5, <1>6 DEF DropInv

\* What holds of the report when an attempt goes out.
Reported ==
    /\ acknowledged' = acknowledged
    /\ pendingId' # 0 /\ pendingId' = minted' /\ minted <= minted'
    /\ pendingId = 0 => pendingId' = minted + 1
    /\ pendingId # 0 => pendingId' = pendingId /\ snapshot <= snapshot'
    /\ acknowledged + snapshot' <= totalDropped'

\* The first attempt of a batch, and every other: a pending report only grows.
LEMMA AttemptReports ==
    ASSUME DropInv, Opens \/ Resends, totalDropped' \in Nat, totalDropped <= totalDropped'
    PROVE  Reported
<1>1. PICK t \in Nat : t = totalDropped  BY ClientNumbers DEF DropInv
<1>2. PICK u \in Nat : u = totalDropped'  OBVIOUS
<1>3. /\ acknowledged \in Nat /\ snapshot \in Nat /\ pendingId \in Nat /\ minted \in Nat
      /\ acknowledged <= t /\ t <= u
      /\ pendingId # 0 => pendingId = minted /\ acknowledged + snapshot <= t
      /\ pump \in Active => pendingId # 0
  BY <1>1, <1>2, ClientNumbers DEF DropInv, PendingInv
<1>4. CASE Opens
  <2>1. snapshot' = u - acknowledged  BY <1>2, <1>4 DEF Opens
  <2>2. acknowledged + snapshot' <= u /\ (pendingId # 0 => snapshot <= snapshot')
    BY <1>3, <2>1
  <2>3. /\ pendingId' # 0 /\ pendingId' = minted' /\ minted <= minted'
        /\ pendingId = 0 => pendingId' = minted + 1
        /\ pendingId # 0 => pendingId' = pendingId
    BY <1>3, <1>4 DEF Opens
  <2> QED  BY <1>2, <1>4, <2>2, <2>3 DEF Opens, Reported
<1>5. CASE Resends
  <2>1. pendingId # 0  BY <1>3, <1>5 DEF Resends, Active
  <2>2. acknowledged + snapshot <= u  BY <1>3, <2>1
  <2> QED  BY <1>2, <1>3, <1>5, <2>1, <2>2 DEF Resends, Reported
<1> QED  BY <1>4, <1>5

\* A request that goes out is about drops above the baseline, under the last id.
LEMMA AttemptStep ==
    ASSUME DropInv, IInv', Reported, pump' = "sending", Attempt, UNCHANGED server
    PROVE  DropInv'
<1> DEFINE msg == [n |-> sent + 1, id |-> pendingId', base |-> acknowledged,
                   amount |-> snapshot', runs |-> names']
<1>1. /\ acknowledged \in Nat /\ snapshot \in Nat /\ pendingId \in Nat /\ minted \in Nat
      /\ snapshot' \in Nat /\ pendingId' \in Nat /\ minted' \in Nat
  <2>1. snapshot' \in Nat /\ pendingId' \in Nat /\ minted' \in Nat
    BY DEF IInv, TypeOK
  <2> QED  BY <2>1, ClientNumbers DEF DropInv
<1>2. /\ acknowledged' = acknowledged
      /\ pendingId' # 0 /\ pendingId' = minted' /\ minted <= minted'
      /\ pendingId = 0 => pendingId' = minted + 1
      /\ pendingId # 0 => pendingId' = pendingId /\ snapshot <= snapshot' /\ pendingId = minted
      /\ UNCHANGED <<deliveries, stored, counted>>
  BY DEF Reported, server, DropInv, PendingInv
<1>3. names' \subseteq Runs /\ sent \in Nat /\ sent' = sent + 1
  BY DEF Attempt, BatchRuns, DropInv, DropTypes, WireTypeOK
<1>4. wire' \subseteq wire \cup {msg}  BY DEF Attempt
<1>5. /\ msg \in Messages /\ msg.n = sent + 1 /\ msg.id = pendingId' /\ msg.base = acknowledged
      /\ msg.amount = snapshot' /\ msg.runs = names'
  BY <1>1, <1>3 DEF Messages
<1> HIDE DEF msg
<1>6. ASSUME NEW m \in wire
      PROVE  /\ m \in Messages /\ m.n \in 1 .. sent /\ m.id \in 1 .. minted
             /\ m.id = pendingId => m.base = acknowledged /\ m.amount <= snapshot
             /\ m.id # pendingId => m.base + m.amount <= acknowledged
             /\ m.id \in Nat /\ m.base \in Nat /\ m.amount \in Nat /\ m.runs \subseteq Runs
  BY DEF DropInv, DropTypes, WireTypeOK, WireInv
<1>7. DropTypes'
  <2>1. wire' \subseteq Messages
    BY <1>4, <1>5, <1>6
  <2>2. ASSUME NEW m \in wire'
        PROVE  /\ m.n \in 1 .. sent + 1 /\ m.id \in Nat /\ m.base \in Nat
               /\ m.amount \in Nat /\ m.runs \subseteq Runs
    <3>1. CASE m \in wire  BY <1>3, <1>6, <3>1
    <3>2. CASE m = msg  BY <1>1, <1>3, <1>5, <3>2
    <3> QED  BY <1>4, <3>1, <3>2
  <2> QED  BY <1>2, <1>3, <2>1, <2>2 DEF DropInv, DropTypes, WireTypeOK
<1>8. PendingInv'
  BY <1>2 DEF Reported, PendingInv
<1>9. WireInv'
  <2>1. ASSUME NEW m \in wire'
        PROVE  /\ m.id \in 1 .. minted'
               /\ m.id = pendingId' => m.base = acknowledged /\ m.amount <= snapshot'
               /\ m.id # pendingId' => m.base + m.amount <= acknowledged
    <3>1. CASE m \in wire  BY <1>1, <1>2, <1>6, <3>1
    <3>2. CASE m = msg  BY <1>1, <1>2, <1>5, <3>2
    <3> QED  BY <1>4, <3>1, <3>2
  <2> QED  BY <1>2, <2>1 DEF WireInv
<1>10. Apart'
  <2>1. ASSUME NEW m1 \in wire', NEW m2 \in wire', m1.id < m2.id
        PROVE  m1.base + m1.amount <= m2.base
    <3>1. CASE m1 \in wire /\ m2 \in wire  BY <2>1, <3>1 DEF DropInv, Apart
    <3>2. CASE m1 \in wire /\ m2 = msg
      <4>1. m1.id # pendingId  BY <1>1, <1>2, <1>5, <1>6, <2>1, <3>2
      <4> QED  BY <1>5, <1>6, <3>2, <4>1
    <3>3. CASE m1 = msg
      <4>1. m2.id <= minted'  BY <1>1, <1>2, <1>4, <1>5, <1>6
      <4>2. FALSE  BY <1>1, <1>2, <1>4, <1>5, <1>6, <2>1, <3>3, <4>1
      <4> QED  BY <4>2
    <3> QED  BY <1>4, <3>1, <3>2, <3>3
  <2> QED  BY <2>1 DEF Apart
<1>11. DeliveriesInv'
  BY <1>1, <1>2 DEF DropInv, DeliveriesInv
<1>12. ASSUME NEW r \in Runs
       PROVE  /\ <<r, pendingId'>> \notin deliveries => counted[r] \subseteq 1 .. acknowledged
              /\ counted[r] \subseteq 1 .. acknowledged + snapshot'
  <2>1. CASE pendingId = 0
    <3>1. counted[r] \subseteq 1 .. acknowledged  BY <2>1 DEF DropInv, CountedInv
    <3> QED  BY <1>1, <3>1
  <2>2. CASE pendingId # 0
    <3>1. /\ <<r, pendingId>> \notin deliveries => counted[r] \subseteq 1 .. acknowledged
          /\ counted[r] \subseteq 1 .. acknowledged + snapshot
      BY <2>2 DEF DropInv, CountedInv
    <3> QED  BY <1>1, <1>2, <2>2, <3>1
  <2> QED  BY <2>1, <2>2
<1>13. CountedInv'
  BY <1>2, <1>12 DEF CountedInv
<1>14. FreshInv'
  <2>1. ASSUME NEW m \in wire', NEW r \in m.runs, <<r, m.id>> \notin deliveries
        PROVE  counted[r] \cap Span(m) = {}
    <3>1. CASE m \in wire  BY <2>1, <3>1 DEF DropInv, FreshInv
    <3>2. CASE m = msg
      <4>1. r \in Runs  BY <1>3, <1>5, <2>1, <3>2
      <4>2. counted[r] \subseteq 1 .. acknowledged  BY <1>5, <1>12, <2>1, <3>2, <4>1
      <4>3. Span(m) = acknowledged + 1 .. acknowledged + snapshot'  BY <1>5, <3>2 DEF Span
      <4> QED  BY <1>1, <4>2, <4>3
    <3> QED  BY <1>4, <3>1, <3>2
  <2> QED  BY <1>2, <2>1 DEF FreshInv, Span
<1>15. StoredInv'
  BY <1>2 DEF DropInv, StoredInv
<1> QED  BY <1>7, <1>8, <1>9, <1>10, <1>11, <1>13, <1>14, <1>15 DEF DropInv

\* Every step of the client preserves the invariant.
LEMMA ClientStepKeeps == ASSUME DropInv, ClientStep PROVE DropInv'
<1>1. IInv /\ Next /\ IInv'
  <2>1. IInv /\ Next  BY DEF DropInv, ClientStep
  <2> QED  BY <2>1, Inductive
<1>2. totalDropped' \in Nat /\ totalDropped <= totalDropped'
  BY <1>1, DropsGrow
<1>3. Opens \/ Resends \/ Acks \/ Keeps  BY <1>1, ReportStep
<1>4. UNCHANGED server  BY DEF ClientStep
<1>5. CASE Opens \/ Resends
  <2>1. pump # "sending" /\ pump' = "sending"  BY <1>5 DEF Opens, Resends
  <2>2. Attempt  BY <2>1 DEF ClientStep
  <2> QED  BY <1>1, <1>2, <1>4, <1>5, <2>1, <2>2, AttemptReports, AttemptStep
<1>6. CASE Acks
  <2>1. UNCHANGED network  BY <1>6 DEF ClientStep, Acks
  <2> QED  BY <1>1, <1>4, <1>6, <2>1, AcksStep
<1>7. CASE Keeps
  <2>1. UNCHANGED network  BY <1>7 DEF ClientStep, Keeps
  <2> QED  BY <1>1, <1>2, <1>4, <1>7, <2>1, KeepsStep
<1> QED  BY <1>3, <1>5, <1>6, <1>7

-----------------------------------------------------------------------------
(* Steps of the server preserve the invariant *)

\* The same report, to fewer runs.
Same(w, m) == /\ w.n = m.n /\ w.id = m.id /\ w.base = m.base /\ w.amount = m.amount
              /\ w.runs \subseteq m.runs

\* Being done with a run takes it off its request and changes nothing else.
LEMMA DoneThins ==
    ASSUME DropTypes, NEW m \in wire, NEW r \in m.runs, Done(m, r)
    PROVE  wire' \subseteq Messages /\ \A w \in wire' : \E v \in wire : Same(w, v)
<1>1. m \in Messages  BY DEF DropTypes
<1>2. [m EXCEPT !.runs = @ \ {r}] \in Messages /\ Same([m EXCEPT !.runs = @ \ {r}], m)
  BY <1>1 DEF Messages, Same
<1>3. wire' \subseteq wire \cup {[m EXCEPT !.runs = @ \ {r}]}  BY DEF Done
<1>4. \A v \in wire : Same(v, v)  BY DEF Same
<1> QED  BY <1>2, <1>3, <1>4 DEF DropTypes

\* A step of the server: the requests only shrink, the client does not move.
LEMMA ServerKeeps ==
    ASSUME DropInv, NEW m \in wire, NEW r \in m.runs, Done(m, r),
           UNCHANGED <<vars, names, sent>>
    PROVE  /\ IInv' /\ PendingInv' /\ WireInv' /\ Apart'
           /\ acknowledged' = acknowledged /\ snapshot' = snapshot
           /\ pendingId' = pendingId /\ minted' = minted
<1>1. wire' \subseteq Messages /\ \A w \in wire' : \E v \in wire : Same(w, v)
  BY DoneThins DEF DropInv
<1>2. acknowledged' = acknowledged /\ snapshot' = snapshot /\ pendingId' = pendingId
      /\ minted' = minted /\ pump' = pump /\ dropped' = dropped
  BY DEF vars, counters, delivery
<1>3. IInv'
  <2>1. IInv /\ [Next]_vars  BY DEF DropInv
  <2> QED  BY <2>1, Inductive
<1>4. PendingInv'
  <2>1. totalDropped' = totalDropped  BY <1>2 DEF totalDropped
  <2> QED  BY <1>2, <2>1 DEF DropInv, PendingInv
<1>5. WireInv'
  BY <1>1, <1>2 DEF DropInv, WireInv, Same
<1>6. Apart'
  <2>1. ASSUME NEW w1 \in wire', NEW w2 \in wire', w1.id < w2.id
        PROVE  w1.base + w1.amount <= w2.base
    <3>1. PICK v1 \in wire : Same(w1, v1)  BY <1>1
    <3>2. PICK v2 \in wire : Same(w2, v2)  BY <1>1
    <3> QED  BY <2>1, <3>1, <3>2 DEF DropInv, Apart, Same
  <2> QED  BY <2>1 DEF Apart
<1> QED  BY <1>2, <1>3, <1>4, <1>5, <1>6

\* The types after a step of the server.
LEMMA ServerTypes ==
    ASSUME DropInv, NEW m \in wire, NEW r \in m.runs, Done(m, r),
           UNCHANGED <<names, sent>>, deliveries' \subseteq Runs \X Nat,
           stored' \in [Runs -> Nat], counted' \in [Runs -> SUBSET Nat]
    PROVE  DropTypes'
<1>1. wire' \subseteq Messages /\ \A w \in wire' : \E v \in wire : Same(w, v)
  BY DoneThins DEF DropInv
<1>2. ASSUME NEW w \in wire'
      PROVE  /\ w.n \in 1 .. sent /\ w.id \in Nat /\ w.base \in Nat
             /\ w.amount \in Nat /\ w.runs \subseteq Runs
  <2>1. PICK v \in wire : Same(w, v)  BY <1>1
  <2> QED  BY <2>1 DEF Same, DropInv, DropTypes, WireTypeOK
<1> QED  BY <1>1, <1>2 DEF DropInv, DropTypes, WireTypeOK

\* A fold that counts nothing, or fails, may record the delivery.
LEMMA NothingCounted ==
    ASSUME DropInv, NEW m \in wire, NEW r \in m.runs, Done(m, r),
           UNCHANGED <<vars, names, sent>>,
           deliveries' = deliveries \/ deliveries' = deliveries \cup {<<r, m.id>>},
           UNCHANGED <<stored, counted>>
    PROVE  DropInv'
<1>1. /\ IInv' /\ PendingInv' /\ WireInv' /\ Apart'
      /\ acknowledged' = acknowledged /\ snapshot' = snapshot
      /\ pendingId' = pendingId /\ minted' = minted
  BY ServerKeeps
<1>2. r \in Runs /\ m.id \in Nat /\ m.id \in 1 .. minted
  BY DEF DropInv, DropTypes, WireTypeOK, WireInv
<1>3. DropTypes'
  <2>1. deliveries' \subseteq Runs \X Nat
    BY <1>2 DEF DropInv, DropTypes, WireTypeOK
  <2>2. stored' \in [Runs -> Nat] /\ counted' \in [Runs -> SUBSET Nat]
    BY DEF DropInv, DropTypes, WireTypeOK
  <2> QED  BY <2>1, <2>2, ServerTypes
<1>4. DeliveriesInv'
  BY <1>1, <1>2 DEF DropInv, DeliveriesInv
<1>5. CountedInv'
  BY <1>1 DEF DropInv, CountedInv
<1>6. FreshInv'
  <2>1. ASSUME NEW w \in wire', NEW q \in w.runs, <<q, w.id>> \notin deliveries'
        PROVE  counted[q] \cap Span(w) = {}
    <3>1. PICK v \in wire : Same(w, v)  BY DoneThins DEF DropInv
    <3>2. q \in v.runs /\ <<q, v.id>> \notin deliveries /\ Span(w) = Span(v)
      BY <2>1, <3>1 DEF Same, Span
    <3> QED  BY <3>2 DEF DropInv, FreshInv
  <2> QED  BY <2>1 DEF FreshInv, Span
<1>7. StoredInv'
  BY DEF DropInv, StoredInv
<1> QED  BY <1>1, <1>3, <1>4, <1>5, <1>6, <1>7 DEF DropInv

\* As many drops are added to the number of a run as to the set it counts.
LEMMA CountAdds ==
    ASSUME NEW C, NEW k \in Nat, C \subseteq 1 .. k, NEW b \in Nat, NEW a \in Nat,
           C \cap (b + 1 .. b + a) = {}
    PROVE  Cardinality(C \cup (b + 1 .. b + a)) = Cardinality(C) + a
<1>1. IsFiniteSet(1 .. k)  BY FS_Interval
<1>2. IsFiniteSet(C) /\ Cardinality(C) \in Nat  BY <1>1, FS_Subset, FS_CardinalityType
<1>3. IsFiniteSet(b + 1 .. b + a) /\ Cardinality(b + 1 .. b + a) = a
  <2>1. /\ IsFiniteSet(b + 1 .. b + a)
        /\ Cardinality(b + 1 .. b + a) = IF b + 1 > b + a THEN 0 ELSE (b + a) - (b + 1) + 1
    <3>1. b + 1 \in Int /\ b + a \in Int  OBVIOUS
    <3> QED  BY <3>1, FS_Interval
  <2> QED  BY <2>1
<1>4. Cardinality(C \cap (b + 1 .. b + a)) = 0  BY FS_EmptySet
<1>5. Cardinality(C \cup (b + 1 .. b + a))
        = Cardinality(C) + Cardinality(b + 1 .. b + a) - Cardinality(C \cap (b + 1 .. b + a))
  BY <1>2, <1>3, FS_Union
<1> QED  BY <1>2, <1>3, <1>4, <1>5

\* A report folded for the first time under its id counts drops not counted before.
LEMMA ReportCounted ==
    ASSUME DropInv, NEW m \in wire, NEW r \in m.runs, Done(m, r),
           UNCHANGED <<vars, names, sent>>, <<r, m.id>> \notin deliveries,
           deliveries' = deliveries \cup {<<r, m.id>>},
           incrementDroppedCountRaw(m, r)
    PROVE  DropInv'
<1>1. /\ IInv' /\ PendingInv' /\ WireInv' /\ Apart'
      /\ acknowledged' = acknowledged /\ snapshot' = snapshot
      /\ pendingId' = pendingId /\ minted' = minted
  BY ServerKeeps
<1>2. /\ r \in Runs /\ m.id \in Nat /\ m.id \in 1 .. minted /\ m.base \in Nat /\ m.amount \in Nat
      /\ m.id = pendingId => m.base = acknowledged /\ m.amount <= snapshot
      /\ m.id # pendingId => m.base + m.amount <= acknowledged
      /\ stored \in [Runs -> Nat] /\ counted \in [Runs -> SUBSET Nat]
  BY DEF DropInv, DropTypes, WireTypeOK, WireInv
<1>3. /\ acknowledged \in Nat /\ snapshot \in Nat /\ pendingId \in Nat /\ minted \in Nat
  BY ClientNumbers DEF DropInv
<1>4. /\ stored' = [stored EXCEPT ![r] = @ + m.amount]
      /\ counted' = [counted EXCEPT ![r] = @ \cup Span(m)]
  BY DEF incrementDroppedCountRaw, Span
<1>5. counted[r] \cap Span(m) = {}  BY DEF DropInv, FreshInv
<1>6. Span(m) \subseteq Nat  BY <1>2 DEF Span
<1>7. /\ counted'[r] = counted[r] \cup Span(m) /\ stored'[r] = stored[r] + m.amount
      /\ \A q \in Runs : q # r => counted'[q] = counted[q] /\ stored'[q] = stored[q]
  BY <1>2, <1>4
<1>8. DropTypes'
  <2>1. deliveries' \subseteq Runs \X Nat
    BY <1>2 DEF DropInv, DropTypes, WireTypeOK
  <2>2. stored' \in [Runs -> Nat]  BY <1>2, <1>4
  <2>3. counted' \in [Runs -> SUBSET Nat]  BY <1>2, <1>4, <1>6
  <2> QED  BY <2>1, <2>2, <2>3, ServerTypes
<1>9. DeliveriesInv'
  BY <1>1, <1>2 DEF DropInv, DeliveriesInv
<1>10. CountedInv'
  <2>1. ASSUME NEW q \in Runs
        PROVE  /\ pendingId = 0 \/ <<q, pendingId>> \notin deliveries' => counted'[q] \subseteq 1 .. acknowledged
               /\ pendingId # 0 => counted'[q] \subseteq 1 .. acknowledged + snapshot
    <3>1. /\ pendingId = 0 \/ <<q, pendingId>> \notin deliveries => counted[q] \subseteq 1 .. acknowledged
          /\ pendingId # 0 => counted[q] \subseteq 1 .. acknowledged + snapshot
      BY DEF DropInv, CountedInv
    <3>2. CASE q # r  BY <1>7, <3>1, <3>2
    <3>3. CASE q = r /\ m.id = pendingId
      <4>1. Span(m) \subseteq 1 .. acknowledged + snapshot  BY <1>2, <1>3, <3>3 DEF Span
      <4>2. pendingId # 0 /\ <<q, pendingId>> \in deliveries'  BY <1>2, <3>3
      <4> QED  BY <1>7, <3>1, <3>3, <4>1, <4>2
    <3>4. CASE q = r /\ m.id # pendingId
      <4>1. Span(m) \subseteq 1 .. acknowledged /\ Span(m) \subseteq 1 .. acknowledged + snapshot
        BY <1>2, <1>3, <3>4 DEF Span
      <4> QED  BY <1>7, <3>1, <3>4, <4>1
    <3> QED  BY <3>2, <3>3, <3>4
  <2> QED  BY <1>1, <2>1 DEF CountedInv
<1>11. FreshInv'
  <2>1. ASSUME NEW w \in wire', NEW q \in w.runs, <<q, w.id>> \notin deliveries'
        PROVE  counted'[q] \cap Span(w) = {}
    <3>1. PICK v \in wire : Same(w, v)  BY DoneThins DEF DropInv
    <3>2. q \in v.runs /\ <<q, v.id>> \notin deliveries /\ Span(w) = Span(v) /\ q \in Runs
      BY <2>1, <3>1 DEF Same, Span, DropInv, DropTypes, WireTypeOK
    <3>3. counted[q] \cap Span(w) = {}  BY <3>2 DEF DropInv, FreshInv
    <3>4. CASE q # r  BY <1>7, <3>2, <3>3, <3>4
    <3>5. CASE q = r
      <4>1. v.id # m.id  BY <2>1, <3>1, <3>5 DEF Same
      <4>2. v.id \in Nat /\ v.base \in Nat /\ v.amount \in Nat
        BY DEF DropInv, DropTypes, WireTypeOK
      <4>3. v.base + v.amount <= m.base \/ m.base + m.amount <= v.base
        BY <1>2, <4>1, <4>2 DEF DropInv, Apart
      <4>4. Span(m) \cap Span(v) = {}  BY <1>2, <4>2, <4>3 DEF Span
      <4> QED  BY <1>7, <3>2, <3>3, <3>5, <4>4
    <3> QED  BY <3>4, <3>5
  <2> QED  BY <2>1 DEF FreshInv, Span
<1>12. StoredInv'
  <2>1. PICK k \in Nat : counted[r] \subseteq 1 .. k
    <3>1. \/ counted[r] \subseteq 1 .. acknowledged
          \/ counted[r] \subseteq 1 .. acknowledged + snapshot
      BY <1>2 DEF DropInv, CountedInv
    <3>2. acknowledged + snapshot \in Nat  BY <1>3
    <3> QED  BY <1>3, <3>1, <3>2
  <2>2. Cardinality(counted[r] \cup Span(m)) = Cardinality(counted[r]) + m.amount
    BY <1>2, <1>5, <2>1, CountAdds DEF Span
  <2> QED  BY <1>2, <1>7, <2>2 DEF DropInv, StoredInv
<1> QED  BY <1>1, <1>8, <1>9, <1>10, <1>11, <1>12 DEF DropInv

\* Every fold preserves the invariant.
LEMMA FoldKeeps == ASSUME DropInv, FoldDropped \/ FoldDroppedFails PROVE DropInv'
<1>1. CASE FoldDroppedFails
  BY <1>1, NothingCounted DEF FoldDroppedFails, server
<1>2. CASE FoldDropped
  <2>0. PICK m \in wire : \E r \in m.runs :
           incrementDroppedCount(m, r) /\ Done(m, r) /\ UNCHANGED <<vars, names, sent>>
    BY <1>2 DEF FoldDropped
  <2>1. PICK r \in m.runs :
           incrementDroppedCount(m, r) /\ Done(m, r) /\ UNCHANGED <<vars, names, sent>>
    BY <2>0
  <2>2. CASE UNCHANGED <<stored, counted>>
    BY <2>1, <2>2, NothingCounted DEF incrementDroppedCount
  <2>3. CASE m.amount # 0 /\ <<r, m.id>> \notin deliveries /\ incrementDroppedCountRaw(m, r)
    BY <2>1, <2>3, ReportCounted DEF incrementDroppedCount
  <2>4. CASE m.amount = 0 /\ incrementDroppedCountRaw(m, r)
    <3>1. m.base \in Nat /\ r \in Runs /\ stored \in [Runs -> Nat] /\ counted \in [Runs -> SUBSET Nat]
      BY DEF DropInv, DropTypes, WireTypeOK
    <3>2. m.base + 1 .. m.base + m.amount = {}  BY <2>4, <3>1
    <3>3. UNCHANGED <<stored, counted>>  BY <2>4, <3>1, <3>2 DEF incrementDroppedCountRaw
    <3> QED  BY <2>1, <3>3, NothingCounted DEF incrementDroppedCount
  <2> QED  BY <2>1, <2>2, <2>3, <2>4 DEF incrementDroppedCount
<1> QED  BY <1>1, <1>2

-----------------------------------------------------------------------------
(* The theorem *)

\* The client and the server start, and stay, in the inductive invariant.
LEMMA DropInductive == DropSpec => []DropInv
<1>1. DropInit => DropInv
  <2> SUFFICES ASSUME DropInit PROVE DropInv  OBVIOUS
  <2>1. IInv  BY Initially DEF DropInit
  <2>2. PendingInv  BY DEF DropInit, Init, PendingInv, Active
  <2>3. DropTypes  BY DEF DropInit, DropTypes, WireTypeOK
  <2>4. WireInv /\ Apart /\ DeliveriesInv /\ CountedInv /\ FreshInv
    BY DEF DropInit, WireInv, Apart, DeliveriesInv, CountedInv, FreshInv
  <2>5. StoredInv  BY FS_EmptySet DEF DropInit, StoredInv
  <2> QED  BY <2>1, <2>2, <2>3, <2>4, <2>5 DEF DropInv
<1>2. DropInv /\ [DropNext]_allVars => DropInv'
  <2> SUFFICES ASSUME DropInv, [DropNext]_allVars PROVE DropInv'  OBVIOUS
  <2>1. CASE ClientStep  BY <2>1, ClientStepKeeps
  <2>2. CASE FoldDropped \/ FoldDroppedFails  BY <2>2, FoldKeeps
  <2>3. CASE UNCHANGED allVars
    <3>1. IInv'
      <4>1. IInv /\ [Next]_vars  BY <2>3 DEF DropInv, allVars
      <4> QED  BY <4>1, Inductive
    <3>2. Keeps /\ UNCHANGED network /\ UNCHANGED server /\ totalDropped' = totalDropped
      BY <2>3 DEF allVars, vars, counters, delivery, Keeps, totalDropped
    <3>3. totalDropped' \in Nat /\ totalDropped <= totalDropped'
      <4>1. PICK t \in Nat : t = totalDropped  BY ClientNumbers DEF DropInv
      <4> QED  BY <3>2, <4>1
    <3> QED  BY <3>1, <3>2, <3>3, KeepsStep
  <2> QED  BY <2>1, <2>2, <2>3 DEF DropNext
<1> QED  BY <1>1, <1>2, PTL DEF DropSpec

\* Whatever the network does to the requests, the count shown for a run is the number
\* of different drops folded into it, all of which happened ("never wrong-high").
THEOREM NoDropCountedTwice == DropSpec => []ReportsAreSound
<1>1. DropInv => ReportsAreSound
  <2> SUFFICES ASSUME DropInv PROVE ReportsAreSound  OBVIOUS
  <2>1. ASSUME NEW r \in Runs PROVE counted[r] \subseteq 1 .. totalDropped
    <3>1. PICK t \in Nat : t = totalDropped  BY ClientNumbers DEF DropInv
    <3>2. /\ acknowledged \in Nat /\ snapshot \in Nat /\ acknowledged <= t
          /\ pendingId # 0 => acknowledged + snapshot <= t
      BY <3>1, ClientNumbers DEF DropInv, PendingInv
    <3>3. \/ counted[r] \subseteq 1 .. acknowledged
          \/ pendingId # 0 /\ counted[r] \subseteq 1 .. acknowledged + snapshot
      BY DEF DropInv, CountedInv
    <3>4. counted[r] \subseteq 1 .. t  BY <3>2, <3>3
    <3> QED  BY <3>1, <3>4
  <2> QED  BY <2>1 DEF DropInv, DropTypes, StoredInv, ReportsAreSound, DropsCountedOnce
<1> QED  BY <1>1, DropInductive, PTL
=============================================================================
