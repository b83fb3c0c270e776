-------------------------- MODULE SupervisorProofs --------------------------
(***************************************************************************)
(* Proofs about the supervised delivery loop (Supervisor.tla over          *)
(* Flow.tla), for every delivery graph and every setting of the bounds:    *)
(* repairs stay within their bound across crashes and restarts, an         *)
(* unresolved escalation freezes the delivery, a phase is recorded only    *)
(* over recorded waves, no segment with gate records is left in debt, a    *)
(* gate that is held recovers, and a run ends by itself.                   *)
(***************************************************************************)
EXTENDS Supervisor, SequenceTheorems, FiniteSetTheorems, WellFoundedInduction, TLAPS

ActionNames == {"none", "ERROR", "REPAIR", "COMPLETE", "ADVANCE_PHASE", "INTEGRATE", "DISPATCH",
                "WAVE_GATE", "BLOCKED", "PHASE_GATE"}

Locations == Ended \cup {"top", "acting", "escalating", "integrate", "reconcile", "dispatching",
                         "applying", "gating", "holding", "repair", "recorded"}

FailureSet == [kind : {"gate", "worker", "no-progress"},
               segment : Segments \cup {NoSegment}, node : Nodes \cup {NoNode}]

Causes == {"repairs", "no-progress", "decision"}

\* What the writes of state.json name.
Writes == {<<"bumpRepair", k>> : k \in (Segments \cup {NoSegment}) \X {"node", "wave", "phase"} \X SUBSET Nodes}
          \cup {<<"resetLaunches", n>> : n \in Nodes}
          \cup {<<"recordFailure", f>> : f \in FailureSet}
          \cup {<<"resolveNode", n>> : n \in Nodes}
          \cup {<<"resolveGate", s>> : s \in Segments}
          \cup {<<"escalate", c>> : c \in Causes}

\* The action is one transition can answer; all but the repository-wide ones are of
\* a segment.
ActionOK ==
    /\ action \in [action : ActionNames, segment : Segments \cup {NoSegment}, packets : SUBSET Nodes]
    /\ action.action \notin {"none", "ERROR", "REPAIR", "COMPLETE"} => action.segment \in Segments

Typed ==
    /\ FlowTypeOK
    /\ launches \in [Nodes -> 0 .. MaxRotations]
    /\ failures \subseteq FailureSet
    /\ escalation \in {"none"} \cup Causes
    /\ stop \in BOOLEAN
    /\ pc \in Locations
    /\ ActionOK
    /\ repeats \in 0 .. NoProgressLimit
    /\ running \subseteq Nodes
    /\ DOMAIN results \subseteq Nodes /\ \A n \in DOMAIN results : results[n] \in Outcomes
    /\ saves \in Seq(Writes)
    /\ sessions \in 0 .. MaxSessions

\* What goes on at each place of the loop.
Placed ==
    /\ pc \notin Ended => sessions >= 1
    /\ running # {} => pc = "dispatching"
    /\ saves # <<>> => pc \in {"escalating", "applying", "recorded", "holding"}
    /\ escalation # "none" => pc \in Ended \cup {"top"}
    /\ repeats = NoProgressLimit => pc = "escalating"
    /\ pc = "gating" => action.action \in {"WAVE_GATE", "PHASE_GATE"}

\* Writes that include an escalation, and ones that charge an attempt.
Escalating(s) == \E i \in 1 .. Len(s) : s[i][1] = "escalate"

Charging(s) == \E i \in 1 .. Len(s) : s[i][1] = "bumpRepair"

\* An escalation is the last write, at most one write charges an attempt, and one
\* that exceeds the bound is followed by an escalation.
Sound(s) ==
    /\ \A i \in 1 .. Len(s) : s[i][1] = "escalate" => i = Len(s)
    /\ \A i, j \in 1 .. Len(s) : s[i][1] = "bumpRepair" /\ s[j][1] = "bumpRepair" => i = j
    /\ \A i \in 1 .. Len(s) :
         s[i][1] = "bumpRepair" => Count(repairs, s[i][2]) + 1 <= Bound \/ Escalating(s)

Counters ==
    /\ \A k \in DOMAIN repairs : repairs[k] \in Nat \ {0}
    /\ \A k \in DOMAIN repairWorkers : repairWorkers[k] \in Nat \ {0}

\* Each start of the supervisor exceeds the bound of a bucket once at most: while it
\* runs, one more attempt can be charged before it escalates.
RepairsInv ==
    /\ \A k : Count(repairs, k) <= Bound + sessions
    /\ pc \notin Ended /\ (Escalating(saves) => Charging(saves)) =>
         \A k : Count(repairs, k) + 1 <= Bound + sessions

\* A repair worker was charged for, and none is sent beyond the bound; while a gate is
\* held its attempt is still to be charged, or has been and no worker sent for it.
WorkersInv ==
    /\ \A k : Count(repairWorkers, k) <= Count(repairs, k) /\ Count(repairWorkers, k) <= Bound
    /\ pc = "holding" =>
         \/ \E i \in 1 .. Len(saves) : saves[i] = <<"bumpRepair", GateBucket>>
         \/ /\ ~Charging(saves)
            /\ Count(repairWorkers, GateBucket) + 1 <= Count(repairs, GateBucket)
            /\ Count(repairs, GateBucket) <= Bound \/ Escalating(saves)

Ledger == Sound(saves) /\ Counters /\ RepairsInv /\ WorkersInv

IInv == Typed /\ Placed /\ Ledger

-----------------------------------------------------------------------------
(* The transition function *)

\* The segment transition stops at is the first that owes anything.
LEMMA CurrentOwes ==
    ASSUME Owing # {}
    PROVE  current \in Owing /\ \A j \in Owing : current <= j
<1>1. DOMAIN Order \subseteq Nat  BY GraphAssumption
<1>2. Owing \subseteq Nat  BY <1>1 DEF Owing
<1> DEFINE R == {ss \in Nat \X Nat : ss[1] < ss[2]}
<1>3. IsWellFoundedOn(R, Nat)  BY NatLessThanWellFounded, Zenon DEF OpToRel
<1> HIDE DEF R
<1>4. PICK i \in Owing : \A j \in Owing : ~(<<j, i>> \in R)  BY <1>2, <1>3, WFMin
<1>5. \A j \in Owing : i <= j
  <2>1. \A x, y \in Nat : x < y => <<x, y>> \in R  BY DEF R
  <2>2. i \in Nat  BY <1>2
  <2>3. ASSUME NEW j \in Owing, ~(i <= j) PROVE FALSE
    <3>1. j \in Nat /\ j < i  BY <1>2, <2>2, <2>3
    <3> QED  BY <1>4, <2>1, <2>2, <3>1
  <2> QED  BY <2>3
<1> QED  BY <1>4, <1>5 DEF current

\* What transition answers: an action on the segment that owes, or on none.
LEMMA TransitionOK ==
    /\ transition \in [action : ActionNames, segment : Segments \cup {NoSegment}, packets : SUBSET Nodes]
    /\ transition.action # "none"
    /\ \/ transition.action \in {"ERROR", "REPAIR"} /\ transition.segment = NoSegment
       \/ transition.action = "COMPLETE" /\ transition.segment = NoSegment /\ Owing = {}
       \/ /\ transition.action \notin {"ERROR", "REPAIR", "COMPLETE"}
          /\ Owing # {} /\ transition.segment = Order[current] /\ transition.segment \in Segments
<1>1. CASE broken \/ checkpoint.recovering \/ Owing = {}
  BY <1>1 DEF transition, Action, ActionNames
<1>2. CASE ~broken /\ ~checkpoint.recovering /\ Owing # {}
  <2>1. current \in DOMAIN Order  BY <1>2, CurrentOwes DEF Owing
  <2>2. Order[current] \in Segments  BY <2>1 DEF Segments
  <2>3. /\ integratable(current) \subseteq Nodes /\ Dispatchable(current) \subseteq Nodes
        /\ Uncovered(current) \subseteq Nodes
    BY DEF integratable, Dispatchable, Uncovered, Outstanding, Seg
  <2>4. \E name \in {"ADVANCE_PHASE", "INTEGRATE", "DISPATCH", "WAVE_GATE", "BLOCKED", "PHASE_GATE"},
            packets \in SUBSET Nodes : transition = Action(name, Order[current], packets)
    BY <1>2, <2>3 DEF transition
  <2> QED  BY <1>2, <2>2, <2>4 DEF Action, ActionNames
<1> QED  BY <1>1, <1>2

\* A segment in the record regime that owes nothing is done, gated and covered.
LEMMA NoDebt ==
    ASSUME NEW i \in DOMAIN Order, i \notin Owing, inRegime(i)
    PROVE  Outstanding(i) = {} /\ phaseGated(Order[i]) /\ Uncovered(i) = {}
BY DEF Owing, owesGate, closedByHistory

-----------------------------------------------------------------------------
(* What a single step shows *)

\* The selection loop of transition goes past a segment that has gate records only when
\* it owes neither work nor a gate, whatever workers, gates and crashes left behind.
THEOREM NoDebtSkipped == Spec => DebtIsNeverSkipped
<1>1. ASSUME [Next]_vars, pc = "top", pc' = "acting", action'.action \notin {"ERROR", "REPAIR"},
             NEW i \in DOMAIN Order, inRegime(i),
             \A j \in DOMAIN Order : Order[j] = action'.segment => i < j
      PROVE  Outstanding(i) = {} /\ phaseGated(Order[i]) /\ Uncovered(i) = {}
  <2>1. Derive
    BY <1>1 DEF Next, Loop, Environment, Save, StopObserved, EscalationPending, Complete,
         AskHuman,
       AdvancePhase, LaunchWorker, Integrated, Reconciled, Dispatch, WorkerEnding, WorkerEnds,
       BatchSettled, ApplyResult, Continue, GateCommand, GateWorkerRed, GateRecorded, GateRefused,
       RepairGate, RepairEnds, Start, RequestStop, Crash, LeaseExpires, Decide, WorkerBuilds,
       Regress, Acting, Ends, Ended, Hold, vars, process
  <2>2. action' = transition  BY <2>1 DEF Derive
  <2>3. i \notin Owing
    <3>1. CASE Owing = {}  BY <3>1
    <3>2. CASE Owing # {}
      <4>1. /\ current \in Owing /\ current \in DOMAIN Order /\ \A j \in Owing : current <= j
        BY <3>2, CurrentOwes DEF Owing
      <4>2. transition.action \notin {"ERROR", "REPAIR", "COMPLETE"}  BY <1>1, <2>2, <3>2, TransitionOK
      <4>3. i < current  BY <1>1, <2>2, <4>1, <4>2, TransitionOK
      <4>4. i \in Nat /\ current \in Nat  BY <4>1, GraphAssumption
      <4> QED  BY <4>1, <4>3, <4>4
    <3> QED  BY <3>1, <3>2
  <2> QED  BY <1>1, <2>3, NoDebt
<1>2. [Next]_vars =>
        [pc = "top" /\ pc' = "acting" /\ action'.action \notin {"ERROR", "REPAIR"} =>
           \A i \in DOMAIN Order :
              /\ inRegime(i)
              /\ \A j \in DOMAIN Order : Order[j] = action'.segment => i < j
              => Outstanding(i) = {} /\ phaseGated(Order[i]) /\ Uncovered(i) = {}]_vars
  BY <1>1
<1> QED  BY <1>2, PTL DEF Spec, DebtIsNeverSkipped

-----------------------------------------------------------------------------
(* Counters and writes *)

\* A counter after one more attempt.
LEMMA BumpAdds ==
    ASSUME NEW c, NEW k, \A j \in DOMAIN c : c[j] \in Nat \ {0}
    PROVE  /\ \A j \in DOMAIN Bump(c, k) : Bump(c, k)[j] \in Nat \ {0}
           /\ Count(Bump(c, k), k) = Count(c, k) + 1
           /\ \A j : j # k => Count(Bump(c, k), j) = Count(c, j)
           /\ \A j : Count(c, j) \in Nat
<1>1. \A j : Count(c, j) \in Nat  BY DEF Count
<1>2. DOMAIN Bump(c, k) = DOMAIN c \cup {k}  BY DEF Bump
<1>3. Bump(c, k)[k] = Count(c, k) + 1  BY DEF Bump
<1>4. \A j \in DOMAIN c : j # k => Bump(c, k)[j] = c[j]  BY DEF Bump
<1>5. \A j \in DOMAIN Bump(c, k) : Bump(c, k)[j] \in Nat \ {0}  BY <1>1, <1>2, <1>3, <1>4
<1>6. Count(Bump(c, k), k) = Count(c, k) + 1  BY <1>2, <1>3 DEF Count
<1>7. ASSUME NEW j, j # k PROVE Count(Bump(c, k), j) = Count(c, j)
  BY <1>2, <1>4, <1>7 DEF Count
<1> QED  BY <1>1, <1>5, <1>6, <1>7

\* Buckets are what repairKey makes, of a node and of a gate.
LEMMA BucketWrites ==
    /\ \A n \in Nodes : <<"bumpRepair", NodeBucket(n)>> \in Writes
    /\ ActionOK => <<"bumpRepair", GateBucket>> \in Writes
<1>1. ASSUME NEW n \in Nodes PROVE <<"bumpRepair", NodeBucket(n)>> \in Writes
  <2>1. NodeBucket(n) \in (Segments \cup {NoSegment}) \X {"node", "wave", "phase"} \X SUBSET Nodes
    BY GraphAssumption DEF NodeBucket
  <2> QED  BY <2>1 DEF Writes
<1>2. ASSUME ActionOK PROVE <<"bumpRepair", GateBucket>> \in Writes
  <2>1. action.segment \in Segments \cup {NoSegment} /\ action.packets \in SUBSET Nodes
    BY <1>2 DEF ActionOK
  <2>2. GateBucket \in (Segments \cup {NoSegment}) \X {"node", "wave", "phase"} \X SUBSET Nodes
    BY <2>1 DEF GateBucket
  <2> QED  BY <2>2 DEF Writes
<1> QED  BY <1>1, <1>2

\* Two writes, and two writes with an escalation after them.
LEMMA Appended ==
    ASSUME NEW W, NEW w \in W, NEW x \in W, NEW e \in W
    PROVE  /\ <<w, x>> \o <<e>> = <<w, x, e>>
           /\ <<w, x>> \o <<>> = <<w, x>>
           /\ <<w, x, e>> \in Seq(W) /\ <<w, x>> \in Seq(W)
<1>1. <<w, x>> \o <<e>> = <<w, x, e>>
  <2> DEFINE s == <<w, x>>  t == <<e>>  u == <<w, x, e>>
  <2>1. s \in Seq(W) /\ Len(s) = 2 /\ s[1] = w /\ s[2] = x  OBVIOUS
  <2>2. t \in Seq(W) /\ Len(t) = 1 /\ t[1] = e  OBVIOUS
  <2>3. u \in Seq(W) /\ Len(u) = 3 /\ u[1] = w /\ u[2] = x /\ u[3] = e  OBVIOUS
  <2> HIDE DEF s, t, u
  <2>4. /\ s \o t \in Seq(W) /\ Len(s \o t) = 3
        /\ \A i \in 1 .. 3 : (s \o t)[i] = IF i <= 2 THEN s[i] ELSE t[i - 2]
    <3>1. /\ s \o t \in Seq(W) /\ Len(s \o t) = Len(s) + Len(t)
          /\ \A i \in 1 .. Len(s) + Len(t) :
               (s \o t)[i] = IF i <= Len(s) THEN s[i] ELSE t[i - Len(s)]
      BY <2>1, <2>2, ConcatProperties
    <3>2. Len(s) = 2 /\ Len(t) = 1 /\ Len(s) + Len(t) = 3  BY <2>1, <2>2
    <3> QED  BY <3>1, <3>2
  <2>5. (s \o t)[1] = w /\ (s \o t)[2] = x /\ (s \o t)[3] = e  BY <2>1, <2>2, <2>4
  <2>6. \A i \in 1 .. 3 : (s \o t)[i] = u[i]
    <3>1. \A i \in 1 .. 3 : i = 1 \/ i = 2 \/ i = 3  OBVIOUS
    <3> QED  BY <2>3, <2>5, <3>1
  <2>7. s \o t = u  BY <2>3, <2>4, <2>6, SeqEqual
  <2> QED  BY <2>7 DEF s, t, u
<1>2. <<w, x>> \o <<>> = <<w, x>>  BY ConcatEmptySeq
<1> QED  BY <1>1, <1>2

\* The writes of a handler that charges an attempt, with what Exhausted adds.
LEMMA ChargingPlan ==
    ASSUME NEW k, NEW w, NEW x, \/ w = <<"bumpRepair", k>> /\ x[1] \notin {"bumpRepair", "escalate"}
                                \/ x = <<"bumpRepair", k>> /\ w[1] \notin {"bumpRepair", "escalate"},
           w \in Writes, x \in Writes, Count(repairs, k) \in Nat
    PROVE  LET s == <<w, x>> \o Exhausted(k)
           IN /\ s \in Seq(Writes) /\ Sound(s)
              /\ \E i \in 1 .. Len(s) : s[i] = <<"bumpRepair", k>>
<1> DEFINE s == <<w, x>> \o Exhausted(k)
<1>1. CASE Count(repairs, k) + 1 > Bound
  <2> DEFINE e == <<"escalate", "repairs">>
  <2>1. Exhausted(k) = <<e>>  BY <1>1 DEF Exhausted
  <2>2. e \in Writes  BY DEF Writes, Causes
  <2> HIDE DEF e
  <2>3. s = <<w, x, e>> /\ <<w, x, e>> \in Seq(Writes)  BY <2>1, <2>2, Appended
  <2> HIDE DEF s
  <2>4. s \in Seq(Writes) /\ Len(s) = 3 /\ s[1] = w /\ s[2] = x /\ s[3] = e  BY <2>3
  <2>5. Escalating(s)  BY <2>4 DEF Escalating, e
  <2>6. Sound(s)
    <3>1. \A i \in 1 .. Len(s) : i = 1 \/ i = 2 \/ i = 3  BY <2>4
    <3>2. e[1] = "escalate"  BY DEF e
    <3> QED  BY <2>4, <2>5, <3>1, <3>2 DEF Sound
  <2>7. \E i \in 1 .. Len(s) : s[i] = <<"bumpRepair", k>>  BY <2>4
  <2> QED  BY <2>4, <2>6, <2>7 DEF s
<1>2. CASE ~(Count(repairs, k) + 1 > Bound)
  <2>1. Exhausted(k) = <<>>  BY <1>2 DEF Exhausted
  <2>2. s = <<w, x>> /\ <<w, x>> \in Seq(Writes)  BY <2>1, Appended
  <2> HIDE DEF s
  <2>3. s \in Seq(Writes) /\ Len(s) = 2 /\ s[1] = w /\ s[2] = x  BY <2>2
  <2>4. Sound(s)
    <3>1. \A i \in 1 .. Len(s) : i = 1 \/ i = 2  BY <2>3
    <3>2. Count(repairs, k) + 1 <= Bound  BY <1>2, OptionsAssumption
    <3> QED  BY <2>3, <3>1, <3>2 DEF Sound
  <2>5. \E i \in 1 .. Len(s) : s[i] = <<"bumpRepair", k>>  BY <2>3
  <2> QED  BY <2>3, <2>4, <2>5 DEF s
<1> QED  BY <1>1, <1>2

\* The writes of a handler that charges nothing.
LEMMA PlainPlan ==
    /\ \A w \in Writes : w[1] # "bumpRepair" => <<w>> \in Seq(Writes) /\ Sound(<<w>>)
    /\ \A w, x \in Writes : w[1] \notin {"bumpRepair", "escalate"} /\ x[1] # "bumpRepair"
                              => <<w, x>> \in Seq(Writes) /\ Sound(<<w, x>>)
    /\ <<>> \in Seq(Writes) /\ Sound(<<>>)
<1>1. ASSUME NEW w \in Writes, w[1] # "bumpRepair" PROVE <<w>> \in Seq(Writes) /\ Sound(<<w>>)
  <2> DEFINE s == <<w>>
  <2>1. s \in Seq(Writes) /\ Len(s) = 1 /\ s[1] = w  OBVIOUS
  <2> HIDE DEF s
  <2>2. \A i \in 1 .. Len(s) : i = 1  BY <2>1
  <2>3. Sound(s)  BY <1>1, <2>1, <2>2 DEF Sound
  <2> QED  BY <2>1, <2>3 DEF s
<1>2. ASSUME NEW w \in Writes, NEW x \in Writes, w[1] \notin {"bumpRepair", "escalate"}, x[1] # "bumpRepair"
      PROVE  <<w, x>> \in Seq(Writes) /\ Sound(<<w, x>>)
  <2> DEFINE s == <<w, x>>
  <2>1. s \in Seq(Writes) /\ Len(s) = 2 /\ s[1] = w /\ s[2] = x  OBVIOUS
  <2> HIDE DEF s
  <2>2. \A i \in 1 .. Len(s) : i = 1 \/ i = 2  BY <2>1
  <2>3. Sound(s)  BY <1>2, <2>1, <2>2 DEF Sound
  <2> QED  BY <2>1, <2>3 DEF s
<1>3. <<>> \in Seq(Writes) /\ Sound(<<>>)  BY DEF Sound
<1> QED  BY <1>1, <1>2, <1>3

-----------------------------------------------------------------------------
(* The ledger of attempts *)

\* The numbers in the ledger.
LEMMA Numbers ==
    Counters => \A k : Count(repairs, k) \in Nat /\ Count(repairWorkers, k) \in Nat
BY DEF Counters, Count

\* A step that neither plans nor makes a write.
LEMMA QuietStep ==
    ASSUME Ledger, UNCHANGED <<saves, repairs, repairWorkers, sessions>>,
           pc' \notin Ended => pc \notin Ended,
           pc' = "holding" => pc = "holding" /\ action' = action
    PROVE  Ledger'
<1>1. Sound(saves)' /\ Counters' /\ RepairsInv'
  BY DEF Ledger, Sound, Escalating, Charging, Counters, RepairsInv, Count
<1>2. WorkersInv'
  <2>1. \A k : Count(repairWorkers, k)' = Count(repairWorkers, k) /\ Count(repairs, k)' = Count(repairs, k)
    BY DEF Count
  <2>2. CASE pc' = "holding"
    <3>1. GateBucket' = GateBucket  BY <2>2 DEF GateBucket
    <3> QED  BY <2>2, <3>1 DEF Ledger, WorkersInv, Count, Charging, Escalating
  <2>3. CASE pc' # "holding"
    BY <2>3 DEF Ledger, WorkersInv, Count
  <2> QED  BY <2>2, <2>3
<1> QED  BY <1>1, <1>2 DEF Ledger

\* A run that ends drops the writes it had still to make.
LEMMA EndStep ==
    ASSUME Ledger, saves' = <<>>, UNCHANGED <<repairs, repairWorkers, sessions>>, pc' \in Ended
    PROVE  Ledger'
<1>1. pc' # "holding"  BY DEF Ended
<1>2. Sound(saves)' /\ Counters'  BY DEF Ledger, Sound, Counters
<1>3. RepairsInv' /\ WorkersInv'  BY <1>1 DEF Ledger, RepairsInv, WorkersInv, Count
<1> QED  BY <1>2, <1>3 DEF Ledger

\* A handler plans its writes.
LEMMA PlanStep ==
    ASSUME Ledger, pc \notin Ended, saves = <<>>, Sound(saves'),
           UNCHANGED <<repairs, repairWorkers, sessions>>,
           pc' = "holding" => /\ action' = action
                              /\ \E i \in 1 .. Len(saves') : saves'[i] = <<"bumpRepair", GateBucket>>
    PROVE  Ledger'
<1>1. Sound(saves)' /\ Counters'  BY DEF Ledger, Sound, Counters, Escalating, Count
<1>2. ~Escalating(saves)  BY DEF Escalating
<1>3. RepairsInv'  BY <1>2 DEF Ledger, RepairsInv, Count
<1>4. WorkersInv'
  <2>1. CASE pc' = "holding"
    <3>1. GateBucket' = GateBucket  BY <2>1 DEF GateBucket
    <3> QED  BY <2>1, <3>1 DEF Ledger, WorkersInv, Count
  <2>2. CASE pc' # "holding"
    BY <2>2 DEF Ledger, WorkersInv, Count
  <2> QED  BY <2>1, <2>2
<1> QED  BY <1>1, <1>3, <1>4 DEF Ledger

\* The supervisor is started: it may exceed a bound once more.
LEMMA StartStep ==
    ASSUME Ledger, sessions \in Nat, sessions' = sessions + 1, pc' = "top",
           UNCHANGED <<repairs, repairWorkers, saves>>
    PROVE  Ledger'
<1>1. Sound(saves)' /\ Counters' /\ WorkersInv'
  BY DEF Ledger, Sound, Counters, Escalating, Count, WorkersInv
<1>2. RepairsInv'
  <2>1. \A k : Count(repairs, k)' = Count(repairs, k)  BY DEF Count
  <2>2. \A k : Count(repairs, k) \in Nat /\ Count(repairs, k) <= Bound + sessions
    BY Numbers DEF Ledger, RepairsInv
  <2>3. Bound \in Nat  BY OptionsAssumption
  <2>4. \A k : Count(repairs, k) + 1 <= Bound + (sessions + 1) /\ Count(repairs, k) <= Bound + (sessions + 1)
    BY <2>2, <2>3
  <2> QED  BY <2>1, <2>4 DEF RepairsInv
<1> QED  BY <1>1, <1>2 DEF Ledger

\* A repair worker is sent for an attempt that was charged.
LEMMA RepairStep ==
    ASSUME Ledger, pc = "holding", saves = <<>>, pc' = "repair",
           repairWorkers' = Bump(repairWorkers, GateBucket),
           UNCHANGED <<saves, repairs, sessions>>
    PROVE  Ledger'
<1>1. ~Escalating(saves) /\ ~Charging(saves)
      /\ ~\E i \in 1 .. Len(saves) : saves[i] = <<"bumpRepair", GateBucket>>
  BY DEF Escalating, Charging
<1>2. /\ Count(repairWorkers, GateBucket) + 1 <= Count(repairs, GateBucket)
      /\ Count(repairs, GateBucket) <= Bound
  BY <1>1 DEF Ledger, WorkersInv
<1>3. Bound \in Nat /\ \A k : Count(repairs, k) \in Nat /\ Count(repairWorkers, k) \in Nat
  BY OptionsAssumption, Numbers DEF Ledger
<1>4. /\ Counters'
      /\ Count(repairWorkers', GateBucket) = Count(repairWorkers, GateBucket) + 1
      /\ \A j : j # GateBucket => Count(repairWorkers', j) = Count(repairWorkers, j)
  BY BumpAdds DEF Ledger, Counters
<1>5. \A k : Count(repairWorkers', k) <= Count(repairs, k) /\ Count(repairWorkers', k) <= Bound
  <2>1. \A k : Count(repairWorkers, k) <= Count(repairs, k) /\ Count(repairWorkers, k) <= Bound
    BY DEF Ledger, WorkersInv
  <2>2. Count(repairWorkers', GateBucket) <= Count(repairs, GateBucket) /\ Count(repairWorkers', GateBucket) <= Bound
    BY <1>2, <1>3, <1>4
  <2> QED  BY <1>4, <2>1, <2>2
<1>6. WorkersInv'
  BY <1>5 DEF WorkersInv, Count
<1>7. Sound(saves)' /\ RepairsInv'
  BY DEF Ledger, Sound, Escalating, Charging, RepairsInv, Count, Ended
<1> QED  BY <1>4, <1>6, <1>7 DEF Ledger

\* A write is made that is not an escalation.
LEMMA WriteStep ==
    ASSUME Ledger, saves \in Seq(Writes), saves # <<>>, pc \notin Ended,
           sessions \in Nat, sessions >= 1, Head(saves)[1] # "escalate", saves' = Tail(saves),
           repairs' = IF Head(saves)[1] = "bumpRepair" THEN Bump(repairs, Head(saves)[2]) ELSE repairs,
           UNCHANGED <<pc, action, repairWorkers, sessions>>
    PROVE  Ledger'
<1> DEFINE n == Len(saves)  t == Tail(saves)  k == Head(saves)[2]
<1>1. /\ n \in Nat /\ n >= 1 /\ Head(saves) = saves[1]
      /\ Len(t) = n - 1 /\ \A i \in 1 .. n - 1 : t[i] = saves[i + 1]
  BY HeadTailProperties, LenProperties, EmptySeq
<1>2. Sound(saves)  BY DEF Ledger
<1>3. Bound \in Nat /\ \A j : Count(repairs, j) \in Nat /\ Count(repairWorkers, j) \in Nat
  BY OptionsAssumption, Numbers DEF Ledger
<1> HIDE DEF n, t
<1>4. saves' = t /\ Len(saves) = n  BY DEF t, n
<1>5. Escalating(t) <=> Escalating(saves)
  <2>1. ASSUME Escalating(t) PROVE Escalating(saves)
    <3>1. PICK i \in 1 .. n - 1 : t[i][1] = "escalate"  BY <1>1, <2>1 DEF Escalating
    <3>2. i + 1 \in 1 .. n /\ saves[i + 1][1] = "escalate"  BY <1>1, <3>1
    <3> QED  BY <1>4, <3>2 DEF Escalating
  <2>2. ASSUME Escalating(saves) PROVE Escalating(t)
    <3>1. PICK i \in 1 .. n : saves[i][1] = "escalate"  BY <1>4, <2>2 DEF Escalating
    <3>2. i # 1  BY <1>1, <3>1
    <3>3. i - 1 \in 1 .. n - 1 /\ t[i - 1] = saves[i]  BY <1>1, <3>1, <3>2
    <3> QED  BY <1>1, <3>1, <3>3 DEF Escalating
  <2> QED  BY <2>1, <2>2
<1>6. \A i \in 1 .. Len(t) : i + 1 \in 1 .. n /\ t[i] = saves[i + 1]  BY <1>1
<1>7. /\ \A i \in 1 .. Len(t) : t[i][1] = "escalate" => i = Len(t)
      /\ \A i, j \in 1 .. Len(t) : t[i][1] = "bumpRepair" /\ t[j][1] = "bumpRepair" => i = j
  <2>1. ASSUME NEW i \in 1 .. Len(t), t[i][1] = "escalate" PROVE i = Len(t)
    <3>1. i + 1 = n  BY <1>2, <1>4, <1>6, <2>1 DEF Sound
    <3> QED  BY <1>1, <3>1
  <2>2. ASSUME NEW i \in 1 .. Len(t), NEW j \in 1 .. Len(t),
               t[i][1] = "bumpRepair", t[j][1] = "bumpRepair"
        PROVE  i = j
    <3>1. i + 1 = j + 1  BY <1>2, <1>4, <1>6, <2>2 DEF Sound
    <3> QED  BY <1>1, <3>1
  <2> QED  BY <2>1, <2>2
<1>8. CASE Head(saves)[1] = "bumpRepair"
  <2>1. saves[1][1] = "bumpRepair" /\ 1 \in 1 .. n /\ saves[1][2] = k  BY <1>1, <1>8
  <2>2. Charging(saves)  BY <1>4, <2>1 DEF Charging
  <2>3. ~Charging(t)
    <3>1. ASSUME NEW i \in 1 .. Len(t), t[i][1] = "bumpRepair" PROVE FALSE
      <4>1. i + 1 = 1  BY <1>2, <1>4, <1>6, <2>1, <3>1 DEF Sound
      <4> QED  BY <1>1, <4>1
    <3> QED  BY <3>1 DEF Charging
  <2>4. /\ Counters'
        /\ Count(repairs', k) = Count(repairs, k) + 1
        /\ \A j : j # k => Count(repairs', j) = Count(repairs, j)
    BY <1>8, BumpAdds DEF Ledger, Counters
  <2>5. Sound(saves)'
    BY <1>4, <1>7, <2>3 DEF Sound, Charging
  <2>6. Count(repairs, k) + 1 <= Bound \/ Escalating(saves)
    BY <1>2, <1>4, <2>1 DEF Sound
  <2>7. RepairsInv'
    <3>1. \A j : Count(repairs, j) + 1 <= Bound + sessions  BY <2>2 DEF Ledger, RepairsInv
    <3>2. \A j : Count(repairs', j) <= Bound + sessions
      <4>1. Count(repairs', k) <= Bound + sessions  BY <2>4, <3>1
      <4>2. \A j : j # k => Count(repairs', j) <= Bound + sessions  BY <1>3, <2>4, <3>1
      <4> QED  BY <4>1, <4>2
    <3>3. ASSUME ~Escalating(t) PROVE \A j : Count(repairs', j) + 1 <= Bound + sessions
      <4>1. Count(repairs', k) + 1 <= Bound + sessions  BY <1>3, <1>5, <2>4, <2>6, <3>3
      <4>2. \A j : j # k => Count(repairs', j) + 1 <= Bound + sessions  BY <2>4, <3>1
      <4> QED  BY <4>1, <4>2
    <3>4. \A j : Count(repairs, j)' = Count(repairs', j)  BY DEF Count
    <3> QED  BY <1>4, <2>3, <3>2, <3>3, <3>4 DEF RepairsInv, Charging, Escalating
  <2>8. WorkersInv'
    <3>1. \A j : Count(repairWorkers, j) <= Count(repairs, j) /\ Count(repairWorkers, j) <= Bound
      BY DEF Ledger, WorkersInv
    <3>2. \A j : Count(repairWorkers, j) <= Count(repairs', j) /\ Count(repairWorkers, j) <= Bound
      <4>1. Count(repairWorkers, k) <= Count(repairs', k)  BY <1>3, <2>4, <3>1
      <4>2. \A j : j # k => Count(repairWorkers, j) <= Count(repairs', j)  BY <2>4, <3>1
      <4> QED  BY <3>1, <4>1, <4>2
    <3>3. ASSUME pc = "holding"
          PROVE  /\ Count(repairWorkers, GateBucket) + 1 <= Count(repairs', GateBucket)
                 /\ Count(repairs', GateBucket) <= Bound \/ Escalating(t)
      <4>1. PICK i \in 1 .. n : saves[i] = <<"bumpRepair", GateBucket>>
        BY <1>4, <2>2, <3>3 DEF Ledger, WorkersInv
      <4>2. i = 1  BY <1>2, <1>4, <2>1, <4>1 DEF Sound
      <4>3. k = GateBucket  BY <2>1, <4>1, <4>2
      <4> QED  BY <1>3, <1>5, <2>4, <2>6, <3>1, <4>3
    <3>4. /\ GateBucket' = GateBucket
          /\ \A j : Count(repairs, j)' = Count(repairs', j) /\ Count(repairWorkers, j)' = Count(repairWorkers, j)
      BY DEF GateBucket, Count
    <3>5. ~Charging(saves)' /\ (Escalating(saves)' <=> Escalating(t))
      BY <1>4, <2>3 DEF Charging, Escalating
    <3> QED  BY <3>2, <3>3, <3>4, <3>5 DEF WorkersInv
  <2> QED  BY <2>4, <2>5, <2>7, <2>8 DEF Ledger
<1>9. CASE Head(saves)[1] # "bumpRepair"
  <2>1. repairs' = repairs /\ \A j : Count(repairs, j)' = Count(repairs, j) /\ Count(repairWorkers, j)' = Count(repairWorkers, j)
    BY <1>9 DEF Count
  <2>2. Charging(t) <=> Charging(saves)
    <3>1. ASSUME Charging(t) PROVE Charging(saves)
      BY <1>4, <1>6, <3>1 DEF Charging
    <3>2. ASSUME Charging(saves) PROVE Charging(t)
      <4>1. PICK i \in 1 .. n : saves[i][1] = "bumpRepair"  BY <1>4, <3>2 DEF Charging
      <4>2. i # 1  BY <1>1, <1>9, <4>1
      <4>3. i - 1 \in 1 .. Len(t) /\ t[i - 1] = saves[i]  BY <1>1, <4>1, <4>2
      <4> QED  BY <4>1, <4>3 DEF Charging
    <3> QED  BY <3>1, <3>2
  <2>3. \A i \in 1 .. Len(t) : t[i][1] = "bumpRepair" => Count(repairs, t[i][2]) + 1 <= Bound \/ Escalating(t)
    BY <1>2, <1>4, <1>5, <1>6 DEF Sound
  <2>4. /\ Escalating(saves)' <=> Escalating(saves)
        /\ Charging(saves)' <=> Charging(saves)
    BY <1>4, <1>5, <2>2 DEF Escalating, Charging
  <2>5. Sound(saves)'
    BY <1>4, <1>7, <2>1, <2>3 DEF Sound, Escalating, Count
  <2>6. Counters'  BY <2>1 DEF Ledger, Counters
  <2>7. RepairsInv'  BY <2>1, <2>4 DEF Ledger, RepairsInv
  <2>8. WorkersInv'
    <3>1. GateBucket' = GateBucket  BY DEF GateBucket
    <3>2. ASSUME NEW i \in 1 .. n, saves[i] = <<"bumpRepair", GateBucket>>
          PROVE  \E j \in 1 .. Len(t) : t[j] = <<"bumpRepair", GateBucket>>
      <4>1. i # 1  BY <1>1, <1>9, <3>2
      <4>2. i - 1 \in 1 .. Len(t) /\ t[i - 1] = saves[i]  BY <1>1, <4>1
      <4> QED  BY <3>2, <4>2
    <3> QED  BY <1>4, <2>1, <2>4, <3>1, <3>2 DEF Ledger, WorkersInv
  <2> QED  BY <2>5, <2>6, <2>7, <2>8 DEF Ledger
<1> QED  BY <1>8, <1>9

-----------------------------------------------------------------------------
(* Every step preserves the invariant *)

\* The end of a run, whatever it was doing.
LEMMA EndKeeps ==
    ASSUME IInv, NEW result \in Ended, Ends(result), pc \notin Ended, FlowTypeOK',
           UNCHANGED <<launches, repairs, failures, stop, repairWorkers, sessions>>,
           escalation' \in {"none"} \cup Causes
    PROVE  IInv'
<1>1. /\ pc' = result /\ action' = NoAction /\ repeats' = 0
      /\ running' = {} /\ results' = <<>> /\ saves' = <<>>
  BY DEF Ends
<1>2. ActionOK'
  BY <1>1 DEF ActionOK, NoAction, Action, ActionNames
<1>3. DOMAIN results' = {} /\ saves' \in Seq(Writes)  BY <1>1
<1>4. Typed'
  BY <1>1, <1>2, <1>3, OptionsAssumption DEF IInv, Typed, Locations, Ended
<1>5. Placed'
  BY <1>1, OptionsAssumption DEF Placed, Ended
<1>6. Ledger'  BY <1>1, EndStep DEF IInv
<1> QED  BY <1>4, <1>5, <1>6 DEF IInv

\* One write of state.json.
LEMMA SaveKeeps == ASSUME IInv, Save PROVE IInv'
<1> DEFINE w == Head(saves)
<1>1. /\ saves \in Seq(Writes) /\ saves # <<>> /\ w \in Writes /\ Tail(saves) \in Seq(Writes)
      /\ pc \in {"escalating", "applying", "recorded", "holding"}
      /\ pc \notin Ended
  BY HeadTailProperties DEF IInv, Typed, Placed, Save, Ended
<1>2. /\ w[1] = "recordFailure" => w[2] \in FailureSet
      /\ w[1] = "escalate" => w[2] \in Causes
  BY <1>1 DEF Writes
<1>3. /\ repairs' = IF w[1] = "bumpRepair" THEN Bump(repairs, w[2]) ELSE repairs
      /\ launches' = IF w[1] = "resetLaunches" THEN [launches EXCEPT ![w[2]] = 0] ELSE launches
      /\ failures' = CASE w[1] = "recordFailure" -> failures \cup {w[2]}
                       [] w[1] = "resolveNode" -> {f \in failures : f.node # w[2]}
                       [] w[1] = "resolveGate" -> {f \in failures : f.kind # "gate" \/ f.segment # w[2]}
                       [] OTHER -> failures
      /\ UNCHANGED <<repository, stop, repairWorkers, sessions>>
  BY DEF Save, history
<1> HIDE DEF w
<1>4. FlowTypeOK'
  BY <1>3 DEF IInv, Typed, FlowTypeOK, repository
<1>5. CASE w[1] = "escalate"
  <2>1. escalation' = w[2] /\ Ends("ESCALATED")  BY <1>5 DEF Save, w
  <2>2. UNCHANGED <<launches, repairs, failures, stop, repairWorkers, sessions>>
    BY <1>3, <1>5
  <2> QED  BY <1>1, <1>2, <1>4, <1>5, <2>1, <2>2, EndKeeps DEF Ended
<1>6. CASE w[1] # "escalate"
  <2>1. saves' = Tail(saves) /\ UNCHANGED <<escalation, pc, action, repeats, iteration, running, results>>
    BY <1>6 DEF Save, w
  <2>2. failures' \subseteq FailureSet
    BY <1>2, <1>3 DEF IInv, Typed
  <2>3. launches' \in [Nodes -> 0 .. MaxRotations]
    <3>1. launches \in [Nodes -> 0 .. MaxRotations] /\ 0 \in 0 .. MaxRotations
      BY OptionsAssumption DEF IInv, Typed
    <3> QED  BY <1>3, <3>1
  <2>4. ActionOK'  BY <2>1 DEF IInv, Typed, ActionOK
  <2>5. Typed'
    BY <1>1, <1>3, <1>4, <2>1, <2>2, <2>3, <2>4 DEF IInv, Typed
  <2>6. Placed'
    BY <1>1, <1>3, <2>1 DEF IInv, Placed
  <2>7. sessions \in Nat /\ sessions >= 1  BY <1>1 DEF IInv, Typed, Placed
  <2>8. Ledger'
    BY <1>1, <1>3, <1>6, <2>1, <2>7, WriteStep DEF IInv, w
  <2> QED  BY <2>5, <2>6, <2>8 DEF IInv
<1> QED  BY <1>5, <1>6

\* The loop stops: a stop request, an escalation that is pending, a complete delivery.
LEMMA StopKeeps ==
    ASSUME IInv, StopObserved \/ EscalationPending \/ Complete PROVE IInv'
<1>1. PICK result \in Ended : Ends(result)
  BY DEF StopObserved, EscalationPending, Complete, Ended
<1>2. /\ pc \notin Ended
      /\ UNCHANGED <<repository, launches, repairs, failures, escalation, stop, repairWorkers, sessions>>
  BY DEF StopObserved, EscalationPending, Complete, Acting, Ended, durable, history
<1>3. FlowTypeOK' /\ escalation' \in {"none"} \cup Causes
  BY <1>2 DEF IInv, Typed, FlowTypeOK, repository
<1> QED  BY <1>1, <1>2, <1>3, EndKeeps

\* The process dies.
LEMMA CrashKeeps == ASSUME IInv, Crash PROVE IInv'
<1>1. /\ Ends("crashed") /\ pc \notin Ended
      /\ UNCHANGED <<repository, launches, repairs, failures, escalation, stop, repairWorkers, sessions>>
  BY DEF Crash
<1>2. FlowTypeOK' /\ escalation' \in {"none"} \cup Causes
  BY <1>1 DEF IInv, Typed, FlowTypeOK, repository
<1> QED  BY <1>1, <1>2, EndKeeps DEF Ended

\* Steps that change none of what the invariant is about but the place in the loop, the
\* repository, the running workers and their results.
LEMMA QuietKeeps ==
    ASSUME IInv, FlowTypeOK', pc' \in Locations,
           UNCHANGED <<failures, escalation, action, repeats, saves, sessions, repairs, repairWorkers>>,
           stop' \in BOOLEAN, launches' \in [Nodes -> 0 .. MaxRotations],
           running' \subseteq Nodes, running' # {} => pc' = "dispatching",
           DOMAIN results' \subseteq Nodes, \A n \in DOMAIN results' : results'[n] \in Outcomes,
           \/ pc' = pc
           \/ /\ pc \notin Ended /\ pc' \notin Ended /\ pc' # "holding" /\ pc # "escalating"
              /\ saves = <<>>
              /\ escalation = "none" \/ pc' = "top"
              /\ pc' = "gating" => action.action \in {"WAVE_GATE", "PHASE_GATE"}
    PROVE  IInv'
<1>1. ActionOK'  BY DEF IInv, Typed, ActionOK
<1>2. Typed'  BY <1>1 DEF IInv, Typed
<1>3. Placed'  BY DEF IInv, Placed
<1>4. Ledger'  BY QuietStep DEF IInv
<1> QED  BY <1>2, <1>3, <1>4 DEF IInv

\* A handler plans its writes.
LEMMA PlanKeeps ==
    ASSUME IInv, FlowTypeOK', pc \notin Ended, saves = <<>>, escalation = "none",
           pc' \in {"escalating", "applying", "recorded", "holding"},
           UNCHANGED <<launches, failures, escalation, stop, sessions, repairs, repairWorkers, running>>,
           ActionOK', repeats' \in 0 .. NoProgressLimit, repeats' = NoProgressLimit => pc' = "escalating",
           running = {},
           DOMAIN results' \subseteq DOMAIN results, \A n \in DOMAIN results' : results'[n] = results[n],
           saves' \in Seq(Writes), Sound(saves'),
           pc' = "holding" => /\ action' = action
                              /\ \E i \in 1 .. Len(saves') : saves'[i] = <<"bumpRepair", GateBucket>>
    PROVE  IInv'
<1>1. Typed'  BY DEF IInv, Typed, Locations
<1>2. Placed'  BY DEF IInv, Placed, Ended
<1>3. Ledger'  BY PlanStep DEF IInv
<1> QED  BY <1>1, <1>2, <1>3 DEF IInv

\* What the invariant says of a place where no write is pending.
LEMMA AtWork ==
    ASSUME IInv, pc \notin Ended \cup {"top", "escalating", "applying", "recorded", "holding"}
    PROVE  saves = <<>> /\ escalation = "none" /\ repeats # NoProgressLimit
BY DEF IInv, Placed

\* The next action is derived, or found to keep coming back.
LEMMA DeriveKeeps == ASSUME IInv, Derive PROVE IInv'
<1> DEFINE a == transition
<1>1. /\ pc = "top" /\ escalation = "none" /\ action' = a /\ repeats' = Repeats(a)
      /\ UNCHANGED <<repository, durable, running, results, history>>
  BY DEF Derive, Pending
<1>2. saves = <<>> /\ running = {} /\ repeats \in 0 .. NoProgressLimit /\ repeats # NoProgressLimit
  BY <1>1 DEF IInv, Typed, Placed, Ended
<1>3. /\ a \in [action : ActionNames, segment : Segments \cup {NoSegment}, packets : SUBSET Nodes]
      /\ a.action \notin {"none", "ERROR", "REPAIR", "COMPLETE"} => a.segment \in Segments
  BY TransitionOK
<1> HIDE DEF a
<1>4. ActionOK'  BY <1>1, <1>3 DEF ActionOK
<1>5. FlowTypeOK'  BY <1>1 DEF IInv, Typed, FlowTypeOK, repository
<1>6. NoProgressLimit \in Nat \ {0}  BY OptionsAssumption
<1>7. Repeats(a) \in 0 .. NoProgressLimit  BY <1>2, <1>6 DEF Repeats
<1>8. CASE Repeats(a) >= NoProgressLimit
  <2> DEFINE f == Failure("no-progress", signatureOf(a).segment, NoNode)
  <2>1. pc' = "escalating" /\ saves' = << <<"recordFailure", f>>, <<"escalate", "no-progress">> >>
    BY <1>8 DEF Derive, a
  <2>2. signatureOf(a).segment \in Segments \cup {NoSegment}
    BY <1>3 DEF signatureOf
  <2>3. f \in FailureSet  BY <2>2 DEF Failure, FailureSet
  <2> HIDE DEF f
  <2>4. <<"recordFailure", f>> \in Writes /\ <<"escalate", "no-progress">> \in Writes
    BY <2>3 DEF Writes, Causes
  <2>5. saves' \in Seq(Writes) /\ Sound(saves')
    BY <2>1, <2>4, PlainPlan
  <2> QED  BY <1>1, <1>2, <1>4, <1>5, <1>7, <2>1, <2>5, PlanKeeps DEF durable, history, Ended
<1>9. CASE ~(Repeats(a) >= NoProgressLimit)
  <2>1. pc' = "acting" /\ saves' = saves  BY <1>9 DEF Derive, a
  <2>2. Typed'
    BY <1>1, <1>4, <1>5, <1>7, <2>1 DEF IInv, Typed, Locations, durable, history
  <2>3. Placed'
    BY <1>1, <1>2, <1>6, <1>7, <1>9, <2>1 DEF IInv, Placed, Ended, durable, history
  <2>4. Ledger'
    BY <1>1, <2>1, QuietStep DEF IInv, Ended, durable, history
  <2> QED  BY <2>2, <2>3, <2>4 DEF IInv
<1> QED  BY <1>8, <1>9

\* A decision is left to a human.
LEMMA AskHumanKeeps == ASSUME IInv, AskHuman PROVE IInv'
<1>1. /\ pc = "acting" /\ pc' = "escalating" /\ saves' = << <<"escalate", "decision">> >>
      /\ UNCHANGED <<repository, durable, action, repeats, iteration, running, results, history>>
  BY DEF AskHuman, Acting
<1>2. saves = <<>> /\ escalation = "none" /\ running = {}
  BY <1>1, AtWork DEF IInv, Placed, Ended
<1>3. <<"escalate", "decision">> \in Writes /\ <<"escalate", "decision">>[1] # "bumpRepair"
  BY DEF Writes, Causes
<1>4. saves' \in Seq(Writes) /\ Sound(saves')  BY <1>1, <1>3, PlainPlan
<1>5. FlowTypeOK' /\ ActionOK' /\ repeats' \in 0 .. NoProgressLimit
  BY <1>1 DEF IInv, Typed, FlowTypeOK, ActionOK, repository
<1> QED  BY <1>1, <1>2, <1>4, <1>5, PlanKeeps DEF durable, history, Ended

\* The end of a worker that has no node.
LEMMA WorkerReportsKeeps ==
    ASSUME IInv, pc \in {"integrate", "reconcile", "repair"}, WorkerReports, FlowTypeOK',
           UNCHANGED <<repairWorkers, sessions>>
    PROVE  IInv'
<1>1. UNCHANGED <<launches, repairs, failures, escalation, stop, action, repeats, running, results>>
  BY DEF WorkerReports, durable
<1>2. saves = <<>> /\ escalation = "none" /\ running = {} /\ repeats # NoProgressLimit
  BY AtWork DEF IInv, Placed, Ended
<1>3. CASE pc' = "top" /\ saves' = saves
  BY <1>1, <1>2, <1>3, QuietKeeps DEF IInv, Typed, Locations, Ended
<1>4. CASE pc' = "escalating" /\ saves' = << <<"escalate", "decision">> >>
  <2>1. <<"escalate", "decision">> \in Writes /\ <<"escalate", "decision">>[1] # "bumpRepair"
    BY DEF Writes, Causes
  <2>2. saves' \in Seq(Writes) /\ Sound(saves')  BY <1>4, <2>1, PlainPlan
  <2>3. ActionOK' /\ repeats' \in 0 .. NoProgressLimit  BY <1>1 DEF IInv, Typed, ActionOK
  <2> QED  BY <1>1, <1>2, <1>4, <2>2, <2>3, PlanKeeps DEF Ended
<1> QED  BY <1>3, <1>4 DEF WorkerReports

\* The workers of INTEGRATE, REPAIR and a held gate.
LEMMA WorkersKeep == ASSUME IInv, Integrated \/ Reconciled \/ RepairEnds PROVE IInv'
<1>1. CASE Integrated
  <2>1. FlowTypeOK'
    BY <1>1 DEF Integrated, IInv, Typed, FlowTypeOK, NodeStates
  <2> QED  BY <1>1, <2>1, WorkerReportsKeeps DEF Integrated
<1>2. CASE Reconciled
  <2>1. FlowTypeOK'
    BY <1>2 DEF Reconciled, IInv, Typed, FlowTypeOK
  <2> QED  BY <1>2, <2>1, WorkerReportsKeeps DEF Reconciled
<1>3. CASE RepairEnds
  <2>1. FlowTypeOK'
    BY <1>3 DEF RepairEnds, IInv, Typed, FlowTypeOK, repository
  <2> QED  BY <1>3, <2>1, WorkerReportsKeeps DEF RepairEnds, history
<1> QED  BY <1>1, <1>2, <1>3

\* The phase advances, a worker is launched, a batch settles, a handler is through.
LEMMA MovesKeep ==
    ASSUME IInv, AdvancePhase \/ LaunchWorker \/ Dispatch \/ BatchSettled \/ Continue PROVE IInv'
<1>1. CASE AdvancePhase
  <2>1. pc = "acting" /\ action.action = "ADVANCE_PHASE" /\ pc' = "top"
    BY <1>1 DEF AdvancePhase, Acting
  <2>2. FlowTypeOK'
    BY <1>1, <2>1 DEF AdvancePhase, IInv, Typed, FlowTypeOK, ActionOK
  <2> QED  BY <1>1, <2>1, <2>2, AtWork, QuietKeeps
           DEF AdvancePhase, IInv, Typed, Placed, Locations, Ended, durable, history
<1>2. CASE LaunchWorker
  <2>1. pc = "acting" /\ pc' \in {"top", "integrate", "reconcile"}
    BY <1>2 DEF LaunchWorker, Acting, Work
  <2>2. FlowTypeOK'
    BY <1>2 DEF LaunchWorker, IInv, Typed, FlowTypeOK, repository
  <2> QED  BY <1>2, <2>1, <2>2, AtWork, QuietKeeps
           DEF LaunchWorker, IInv, Typed, Placed, Locations, Ended, durable, history
<1>3. CASE Dispatch
  <2>1. pc = "acting" /\ pc' = "dispatching"  BY <1>3 DEF Dispatch, Acting
  <2>2. FlowTypeOK'
    BY <1>3 DEF Dispatch, IInv, Typed, FlowTypeOK, repository
  <2>3. running' \subseteq Nodes
    BY <1>3 DEF Dispatch, Batches, IInv, Typed, ActionOK
  <2> QED  BY <1>3, <2>1, <2>2, <2>3, AtWork, QuietKeeps
           DEF Dispatch, IInv, Typed, Placed, Locations, Ended, durable, history
<1>4. CASE BatchSettled
  <2>1. FlowTypeOK'
    BY <1>4 DEF BatchSettled, IInv, Typed, FlowTypeOK, repository
  <2> QED  BY <1>4, <2>1, AtWork, QuietKeeps
           DEF BatchSettled, IInv, Typed, Placed, Locations, Ended, durable, history
<1>5. CASE Continue
  <2>1. FlowTypeOK'
    BY <1>5 DEF Continue, IInv, Typed, FlowTypeOK, repository
  <2> QED  BY <1>5, <2>1, QuietKeeps
           DEF Continue, IInv, Typed, Placed, Locations, Ended, durable, history
<1> QED  BY <1>1, <1>2, <1>3, <1>4, <1>5

\* A worker of the batch ends.
LEMMA WorkerEndsKeeps ==
    ASSUME IInv, NEW n \in Nodes, NEW outcome \in Outcomes, WorkerEnds(n, outcome) PROVE IInv'
<1>1. pc = "dispatching" /\ pc' = pc
  BY DEF WorkerEnds, IInv, Placed
<1>2. FlowTypeOK'
  BY DEF WorkerEnds, IInv, Typed, FlowTypeOK, repository
<1>3. launches' \in [Nodes -> 0 .. MaxRotations]
  <2>1. launches \in [Nodes -> 0 .. MaxRotations] /\ MaxRotations \in Nat
    BY OptionsAssumption DEF IInv, Typed
  <2>2. Smaller(launches[n] + 1, MaxRotations) \in 0 .. MaxRotations
    BY <2>1 DEF Smaller
  <2> QED  BY <2>1, <2>2 DEF WorkerEnds
<1>4. /\ DOMAIN results' \subseteq Nodes
      /\ \A m \in DOMAIN results' : results'[m] \in Outcomes
  BY DEF WorkerEnds, IInv, Typed
<1>5. running' \subseteq Nodes  BY DEF WorkerEnds, IInv, Typed
<1> QED  BY <1>1, <1>2, <1>3, <1>4, <1>5, QuietKeeps DEF WorkerEnds, IInv, Typed

\* A result is booked.
LEMMA ApplyResultKeeps == ASSUME IInv, NEW n \in Nodes, ApplyResult(n) PROVE IInv'
<1>1. /\ pc = "applying" /\ pc' = pc /\ saves = <<>> /\ n \in DOMAIN results
      /\ saves' = WritesFor(n, results[n])
      /\ results' = [m \in DOMAIN results \ {n} |-> results[m]]
      /\ UNCHANGED <<repository, durable, action, repeats, running, history>>
  BY DEF ApplyResult
<1>2. escalation = "none" /\ running = {} /\ repeats # NoProgressLimit /\ results[n] \in Outcomes
  BY <1>1 DEF IInv, Typed, Placed, Ended
<1>3. FlowTypeOK' /\ ActionOK' /\ repeats' \in 0 .. NoProgressLimit
  BY <1>1 DEF IInv, Typed, FlowTypeOK, ActionOK, repository
<1>4. saves' \in Seq(Writes) /\ Sound(saves')
  <2>1. Count(repairs, NodeBucket(n)) \in Nat  BY Numbers DEF IInv, Ledger
  <2>2. <<"bumpRepair", NodeBucket(n)>> \in Writes  BY BucketWrites
  <2>3. /\ <<"resetLaunches", n>> \in Writes /\ <<"resolveNode", n>> \in Writes
        /\ <<"escalate", "decision">> \in Writes
    BY DEF Writes, Causes
  <2>4. CASE results[n] = "DONE"
    <3>1. saves' = << <<"resolveNode", n>> >>  BY <1>1, <2>4 DEF WritesFor
    <3> QED  BY <2>3, <3>1, PlainPlan
  <2>5. CASE results[n] = "ROTATE" /\ launches[n] < MaxRotations
    <3>1. ~(launches[n] >= MaxRotations)
      BY <2>5, OptionsAssumption DEF IInv, Typed
    <3>2. WritesFor(n, results[n]) = <<>>  BY <2>5, <3>1 DEF WritesFor
    <3>3. saves' = <<>>  BY <1>1, <3>2
    <3> QED  BY <3>3, PlainPlan
  <2>6. CASE results[n] = "ROTATE" /\ ~(launches[n] < MaxRotations)
    <3>1. launches[n] >= MaxRotations
      BY <2>6, OptionsAssumption DEF IInv, Typed
    <3>2. saves' = << <<"bumpRepair", NodeBucket(n)>>, <<"resetLaunches", n>> >> \o Exhausted(NodeBucket(n))
      BY <1>1, <2>6, <3>1 DEF WritesFor
    <3>3. <<"resetLaunches", n>>[1] \notin {"bumpRepair", "escalate"}  OBVIOUS
    <3> QED  BY <2>1, <2>2, <2>3, <3>2, <3>3, ChargingPlan
  <2>7. CASE results[n] = "FAILED"
    <3> DEFINE f == Failure("worker", action.segment, n)
    <3>1. saves' = << <<"bumpRepair", NodeBucket(n)>>, <<"recordFailure", f>> >> \o Exhausted(NodeBucket(n))
      BY <1>1, <2>7 DEF WritesFor
    <3>2. f \in FailureSet
      BY DEF Failure, FailureSet, IInv, Typed, ActionOK
    <3> HIDE DEF f
    <3>3. <<"recordFailure", f>> \in Writes /\ <<"recordFailure", f>>[1] \notin {"bumpRepair", "escalate"}
      BY <3>2 DEF Writes
    <3> QED  BY <2>1, <2>2, <3>1, <3>3, ChargingPlan
  <2>8. CASE results[n] = "BLOCKED"
    <3>1. saves' = << <<"escalate", "decision">> >>  BY <1>1, <2>8 DEF WritesFor
    <3> QED  BY <2>3, <3>1, PlainPlan
  <2> QED  BY <1>2, <2>4, <2>5, <2>6, <2>7, <2>8 DEF Outcomes
<1>5. DOMAIN results' \subseteq DOMAIN results /\ \A m \in DOMAIN results' : results'[m] = results[m]
  BY <1>1
<1> QED  BY <1>1, <1>2, <1>3, <1>4, <1>5, PlanKeeps DEF durable, history, Ended

\* A gate that was not recorded.
LEMMA HoldKeeps ==
    ASSUME IInv, pc \in {"acting", "gating"}, Hold,
           UNCHANGED <<repository, durable, action, repeats, running, results, repairWorkers, sessions>>
    PROVE  IInv'
<1> DEFINE f == Failure("gate", action.segment, NoNode)
<1>1. pc' = "holding" /\ saves' = << <<"recordFailure", f>>, <<"bumpRepair", GateBucket>> >> \o Exhausted(GateBucket)
  BY DEF Hold
<1>2. saves = <<>> /\ escalation = "none" /\ running = {} /\ repeats # NoProgressLimit
  BY AtWork DEF IInv, Placed, Ended
<1>3. FlowTypeOK' /\ ActionOK' /\ repeats' \in 0 .. NoProgressLimit
  BY DEF IInv, Typed, FlowTypeOK, ActionOK, repository
<1>4. f \in FailureSet
  BY DEF Failure, FailureSet, IInv, Typed, ActionOK
<1> HIDE DEF f
<1>5. <<"recordFailure", f>> \in Writes /\ <<"recordFailure", f>>[1] \notin {"bumpRepair", "escalate"}
  BY <1>4 DEF Writes
<1>6. <<"bumpRepair", GateBucket>> \in Writes /\ Count(repairs, GateBucket) \in Nat
  BY BucketWrites, Numbers DEF IInv, Typed, Ledger
<1>7. /\ saves' \in Seq(Writes) /\ Sound(saves')
      /\ \E i \in 1 .. Len(saves') : saves'[i] = <<"bumpRepair", GateBucket>>
  <2> DEFINE w == <<"recordFailure", f>>
             b == <<"bumpRepair", GateBucket>>
  <2>1. w \in Writes /\ w[1] \notin {"bumpRepair", "escalate"} /\ b \in Writes  BY <1>5, <1>6
  <2>2. saves' = <<w, b>> \o Exhausted(GateBucket)  BY <1>1
  <2>3. b = <<"bumpRepair", GateBucket>>  OBVIOUS
  <2> DEFINE p == <<w, b>> \o Exhausted(GateBucket)
  <2> HIDE DEF w, b
  <2>4. /\ p \in Seq(Writes) /\ Sound(p)
        /\ \E i \in 1 .. Len(p) : p[i] = <<"bumpRepair", GateBucket>>
    <3> DEFINE k == GateBucket
    <3>1. /\ \/ w = <<"bumpRepair", k>> /\ b[1] \notin {"bumpRepair", "escalate"}
             \/ b = <<"bumpRepair", k>> /\ w[1] \notin {"bumpRepair", "escalate"}
          /\ w \in Writes /\ b \in Writes /\ Count(repairs, k) \in Nat
      BY <1>6, <2>1, <2>3, Zenon
    <3> HIDE DEF k
    <3>2. /\ <<w, b>> \o Exhausted(k) \in Seq(Writes) /\ Sound(<<w, b>> \o Exhausted(k))
          /\ \E i \in 1 .. Len(<<w, b>> \o Exhausted(k)) :
               (<<w, b>> \o Exhausted(k))[i] = <<"bumpRepair", k>>
      BY <3>1, ChargingPlan
    <3> QED  BY <3>2, Zenon DEF k
  <2>5. saves' = p  BY <2>2
  <2> HIDE DEF p
  <2> QED  BY <2>4, <2>5
<1> QED  BY <1>1, <1>2, <1>3, <1>7, PlanKeeps DEF durable, Ended

\* The gates.
LEMMA GatesKeep ==
    ASSUME IInv, GateCommand \/ GateWorkerRed \/ GateRecorded \/ GateRefused PROVE IInv'
<1>1. CASE GateCommand
  <2>1. pc = "acting" /\ action.action \in {"WAVE_GATE", "PHASE_GATE"}
    BY <1>1 DEF GateCommand, Acting
  <2>2. CASE Hold
    BY <1>1, <2>1, <2>2, HoldKeeps DEF GateCommand
  <2>3. CASE pc' = "gating" /\ saves' = saves
    <3>1. FlowTypeOK'
      BY <1>1 DEF GateCommand, IInv, Typed, FlowTypeOK, repository
    <3> QED  BY <1>1, <2>1, <2>3, <3>1, AtWork, QuietKeeps
             DEF GateCommand, IInv, Typed, Placed, Locations, Ended, durable
  <2> QED  BY <1>1, <2>2, <2>3 DEF GateCommand
<1>2. CASE GateWorkerRed
  BY <1>2, HoldKeeps DEF GateWorkerRed
<1>3. CASE GateRefused
  BY <1>3, HoldKeeps DEF GateRefused, history
<1>4. CASE GateRecorded
  <2>1. /\ pc = "gating" /\ pc' = "recorded" /\ saves' = << <<"resolveGate", action.segment>> >>
        /\ records' = records \cup {GateRecord(GateKind, action.segment, action.packets)}
        /\ UNCHANGED <<built, undecided, broken, handoffs, checkpoint, durable,
                       action, repeats, running, results, history>>
    BY <1>4 DEF GateRecorded
  <2>2. saves = <<>> /\ escalation = "none" /\ running = {} /\ repeats # NoProgressLimit
    BY <2>1, AtWork DEF IInv, Placed, Ended
  <2>3. action.segment \in Segments /\ action.packets \subseteq Nodes
    BY <2>1 DEF IInv, Typed, Placed, ActionOK
  <2>4. GateRecord(GateKind, action.segment, action.packets)
          \in [gate : {"wave", "phase"}, segment : Segments, packets : SUBSET Nodes]
    BY <2>3 DEF GateRecord, GateKind
  <2>5. FlowTypeOK'
    BY <2>1, <2>4 DEF IInv, Typed, FlowTypeOK
  <2>6. <<"resolveGate", action.segment>> \in Writes
    BY <2>3 DEF Writes
  <2>7. saves' \in Seq(Writes) /\ Sound(saves')
    BY <2>1, <2>6, PlainPlan
  <2>8. ActionOK' /\ repeats' \in 0 .. NoProgressLimit
    BY <2>1 DEF IInv, Typed, ActionOK
  <2> QED  BY <2>1, <2>2, <2>5, <2>7, <2>8, PlanKeeps DEF durable, history, Ended
<1> QED  BY <1>1, <1>2, <1>3, <1>4

\* A repair worker is sent, or its lease is another's.
LEMMA RepairGateKeeps == ASSUME IInv, RepairGate PROVE IInv'
<1>1. /\ pc = "holding" /\ saves = <<>> /\ pc' \in {"top", "repair"}
      /\ UNCHANGED <<repository, durable, action, repeats, running, results, saves, sessions>>
  BY DEF RepairGate, HoldBooked
<1>2. escalation = "none" /\ running = {} /\ repeats # NoProgressLimit
  BY <1>1 DEF IInv, Placed, Ended
<1>3. FlowTypeOK' /\ ActionOK'
  BY <1>1 DEF IInv, Typed, FlowTypeOK, ActionOK, repository
<1>4. Typed'
  BY <1>1, <1>3 DEF IInv, Typed, Locations, durable
<1>5. Placed'
  BY <1>1, <1>2 DEF IInv, Placed, Ended, durable
<1>6. Ledger'
  <2>1. CASE pc' = "top" /\ repairWorkers' = repairWorkers
    BY <1>1, <2>1, QuietStep DEF IInv, Ended, durable
  <2>2. CASE pc' = "repair" /\ repairWorkers' = Bump(repairWorkers, GateBucket)
    BY <1>1, <2>2, RepairStep DEF IInv, durable
  <2> QED  BY <2>1, <2>2 DEF RepairGate
<1> QED  BY <1>4, <1>5, <1>6 DEF IInv

\* The supervisor is started, or resumed.
LEMMA StartKeeps == ASSUME IInv, Start PROVE IInv'
<1>1. /\ pc \in Ended /\ pc' = "top" /\ sessions < MaxSessions /\ sessions' = sessions + 1
      /\ stop' = FALSE /\ escalation' \in {escalation, "none"}
      /\ UNCHANGED <<repository, launches, repairs, failures, action, repeats, running, results,
                     saves, repairWorkers>>
  BY DEF Start
<1>2. sessions \in 0 .. MaxSessions /\ MaxSessions \in Nat  BY OptionsAssumption DEF IInv,
                                                                 Typed
<1>3. FlowTypeOK' /\ ActionOK'
  BY <1>1 DEF IInv, Typed, FlowTypeOK, ActionOK, repository
<1>4. Typed'
  <2>1. sessions' \in 0 .. MaxSessions  BY <1>1, <1>2
  <2>2. escalation' \in {"none"} \cup Causes  BY <1>1 DEF IInv, Typed
  <2>3. pc' \in Locations /\ stop' \in BOOLEAN  BY <1>1 DEF Locations
  <2> QED  BY <1>1, <1>3, <2>1, <2>2, <2>3 DEF IInv, Typed
<1>5. Placed'
  BY <1>1, <1>2 DEF IInv, Placed, Ended
<1>6. Ledger'
  BY <1>1, <1>2, StartStep DEF IInv
<1> QED  BY <1>4, <1>5, <1>6 DEF IInv

\* Workers, people and time.
LEMMA EnvironmentKeeps ==
    ASSUME IInv,
           \/ RequestStop \/ LeaseExpires \/ Decide
           \/ \E n \in Nodes : WorkerBuilds(n) \/ Regress(n)
           \/ UNCHANGED vars
    PROVE  IInv'
<1>1. /\ pc' = pc
      /\ UNCHANGED <<failures, escalation, action, repeats, saves, sessions, repairs, repairWorkers,
                     running, results, launches>>
  BY DEF RequestStop, LeaseExpires, Decide, WorkerBuilds, Regress, vars, durable, process,
       history
<1>2. stop' \in BOOLEAN
  BY DEF RequestStop, LeaseExpires, Decide, WorkerBuilds, Regress, vars, durable, IInv, Typed
<1>3. FlowTypeOK'
  <2>1. CASE RequestStop \/ LeaseExpires \/ UNCHANGED vars
    BY <2>1 DEF RequestStop, LeaseExpires, vars, repository, IInv, Typed, FlowTypeOK
  <2>2. CASE Decide
    BY <2>2 DEF Decide, IInv, Typed, FlowTypeOK
  <2>3. ASSUME NEW n \in Nodes, WorkerBuilds(n) \/ Regress(n) PROVE FlowTypeOK'
    BY <2>3 DEF WorkerBuilds, Regress, IInv, Typed, FlowTypeOK, NodeStates
  <2> QED  BY <2>1, <2>2, <2>3
<1> QED  BY <1>1, <1>2, <1>3, QuietKeeps DEF IInv, Typed, Placed

\* The supervisor starts, and stays, in the inductive invariant.
LEMMA Initially == Init => IInv
<1> SUFFICES ASSUME Init PROVE IInv  OBVIOUS
<1>1. FlowTypeOK
  BY OptionsAssumption DEF Init, FlowTypeOK
<1>2. ActionOK
  BY DEF Init, ActionOK, NoAction, Action, ActionNames
<1>3. saves \in Seq(Writes) /\ saves = <<>> /\ DOMAIN results = {}
  BY DEF Init
<1>4. Typed
  <2>1. launches \in [Nodes -> 0 .. MaxRotations]  BY OptionsAssumption DEF Init
  <2>2. repeats \in 0 .. NoProgressLimit /\ sessions \in 0 .. MaxSessions
    BY OptionsAssumption DEF Init
  <2>3. pc \in Locations /\ stop \in BOOLEAN  BY DEF Init, Locations, Ended
  <2>4. failures \subseteq FailureSet /\ escalation \in {"none"} \cup Causes /\ running \subseteq Nodes
    BY DEF Init
  <2> QED  BY <1>1, <1>2, <1>3, <2>1, <2>2, <2>3, <2>4 DEF Typed
<1>5. Placed
  BY <1>3, OptionsAssumption DEF Init, Placed, Ended
<1>6. /\ repairs = <<>> /\ repairWorkers = <<>> /\ sessions = 0 /\ pc = "idle"
      /\ DOMAIN repairs = {} /\ DOMAIN repairWorkers = {}
  BY DEF Init
<1>7. Sound(saves)  BY <1>3, PlainPlan
<1>8. Counters /\ RepairsInv /\ WorkersInv
  BY <1>6, OptionsAssumption DEF Counters, RepairsInv, WorkersInv, Count, Ended
<1> QED  BY <1>4, <1>5, <1>7, <1>8 DEF IInv, Ledger

\* Every step preserves the invariant.
LEMMA Inductive == ASSUME IInv, [Next]_vars PROVE IInv'
<1>1. CASE Loop
  BY <1>1, SaveKeeps, StopKeeps, DeriveKeeps, AskHumanKeeps, MovesKeep, WorkersKeep, WorkerEndsKeeps,
     ApplyResultKeeps, GatesKeep, RepairGateKeeps DEF Loop, WorkerEnding
<1>2. CASE Environment
  BY <1>2, StartKeeps, CrashKeeps, EnvironmentKeeps DEF Environment
<1>3. CASE UNCHANGED vars
  BY <1>3, EnvironmentKeeps
<1> QED  BY <1>1, <1>2, <1>3 DEF Next

\* The invariant holds in every state.
LEMMA Invariance == Spec => []IInv
BY Initially, Inductive, PTL DEF Spec

-----------------------------------------------------------------------------
(* The theorems that need the invariant *)

\* At most Bound repair workers are sent to a gate over all the starts, crashes and
\* resumes of the supervisor: each was charged for, durably, before it started.
THEOREM RepairsBounded == Spec => []RepairsAreBounded
<1>1. IInv => RepairsAreBounded
  <2> SUFFICES ASSUME IInv PROVE RepairsAreBounded  OBVIOUS
  <2>1. \A k \in DOMAIN repairs : repairs[k] \in 1 .. Bound + MaxSessions
    <3>1. ASSUME NEW k \in DOMAIN repairs PROVE repairs[k] \in 1 .. Bound + MaxSessions
      <4>1. repairs[k] \in Nat \ {0} /\ Count(repairs, k) = repairs[k]
        BY DEF IInv, Ledger, Counters, Count
      <4>2. Count(repairs, k) <= Bound + sessions  BY DEF IInv, Ledger, RepairsInv
      <4>3. sessions \in 0 .. MaxSessions /\ Bound \in Nat /\ MaxSessions \in Nat
        BY OptionsAssumption DEF IInv, Typed
      <4> QED  BY <4>1, <4>2, <4>3
    <3> QED  BY <3>1
  <2>2. TypeOK
    BY <2>1 DEF IInv, Typed, TypeOK, FailureSet, Causes
  <2>3. GateRepairsBounded
    BY DEF GateRepairsBounded, IInv, Ledger, WorkersInv, Count
  <2> QED  BY <2>2, <2>3 DEF RepairsAreBounded
<1> QED  BY <1>1, Invariance, PTL

\* While an escalation is unresolved nothing of the delivery moves, in the process that
\* raised it and in every one started after it.
THEOREM EscalationIsFinal == Spec => EscalationFreezes
<1>1. ASSUME IInv, [Next]_vars, escalation # "none"
      PROVE  /\ running' = {} /\ pc' \in Ended \cup {"top"}
             /\ UNCHANGED <<handoffs, records, checkpoint, launches, repairs, failures>>
  <2>1. pc \in Ended \cup {"top"} /\ running = {} /\ saves = <<>>
    BY <1>1 DEF IInv, Placed, Ended
  <2>2. \/ StopObserved \/ EscalationPending
        \/ Start \/ RequestStop \/ Crash \/ LeaseExpires \/ Decide \/ UNCHANGED vars
    <3>1. \A n \in Nodes : ~Regress(n)  BY <2>1, OptionsAssumption DEF Regress, Ended
    <3> QED
      BY <1>1, <2>1, <3>1 DEF Next, Loop, Environment, Save, Derive, Pending, Complete, AskHuman,
         AdvancePhase, LaunchWorker, Integrated, Reconciled, Dispatch, WorkerEnding, WorkerEnds,
         BatchSettled, ApplyResult, Continue, GateCommand, GateWorkerRed, GateRecorded, GateRefused,
         RepairGate, RepairEnds, WorkerBuilds, Acting, Ended
  <2> QED
    BY <2>1, <2>2 DEF StopObserved, EscalationPending, Start, RequestStop, Crash,
         LeaseExpires,
       Decide, Ends, Ended, vars, repository, durable, process
<1>2. IInv /\ [Next]_vars =>
        [escalation # "none" =>
           /\ running' = {} /\ pc' \in Ended \cup {"top"}
           /\ UNCHANGED <<handoffs, records, checkpoint, launches, repairs, failures>>]_vars
  BY <1>1
<1> QED  BY <1>2, Invariance, PTL DEF Spec, EscalationFreezes

-----------------------------------------------------------------------------
(* A held gate recovers                                                    *)
(*                                                                         *)
(* As long as only gates went wrong, and no more often than the bound      *)
(* allows, every attempt charged was a red gate, no action came back for   *)
(* another reason, and the gate that is held stays the next one to pass.   *)

Calm == blame = "gates" /\ reds <= Bound

\* At the start, no packet awaits a decision in a segment that a later one has overtaken.
OrderlyStart ==
    \A r \in Repositories : \A i, j \in DOMAIN Order, n, m \in Nodes :
        /\ i < j /\ SegmentOf[n] = Order[i] /\ SegmentOf[m] = Order[j]
        /\ n \in r.undecided /\ r.built[n] # "DONE"
        => r.built[m] = "TODO"

NoneOvertaken ==
    \A i \in DOMAIN Order : laterWorkStarted(i) => undecided \cap Outstanding(i) = {}

\* No segment before i owes anything.
First(i) == \A j \in DOMAIN Order : j < i => j \notin Owing

\* The gate of i is owed, and is still when nothing is left to build: history cannot
\* close the segment.
Owes(i) == First(i) /\ i \in Owing /\ owesGate(i)

Unclosable(i) == inRegime(i) \/ ~laterWorkStarted(i)

\* Nothing of i can be built or integrated.
Stuck(i) == Dispatchable(i) = {} /\ integratable(i) = {}

AtWorkPlaces == {"integrate", "dispatching"}

\* The segments whose gate is the next to pass, and stays it until it is recorded.
Standing ==
    {Order[i] : i \in {j \in DOMAIN Order :
        Owes(j) /\ (Unclosable(j) \/ (pc \notin AtWorkPlaces /\ Stuck(j)))}}

Delivered(n) == built[n] = "DONE" \/ n \in handoffs

\* What is being done is what transition asked for, in the first segment that owes.
Busy ==
    /\ pc \in {"acting", "gating"} => action = transition
    /\ pc \in Ended => action = NoAction
    /\ pc = "reconcile" => action.action = "REPAIR"
    /\ pc = "integrate" => action.action = "INTEGRATE"
    /\ pc \in {"dispatching", "applying"} => action.action = "DISPATCH"
    /\ pc \in AtWorkPlaces =>
         \E i \in DOMAIN Order : First(i) /\ Order[i] = action.segment /\ action.packets \subseteq Seg(i)
    /\ pc = "dispatching" =>
         running \cup DOMAIN results \subseteq action.packets /\ running \cup DOMAIN results # {}
    /\ pc \notin {"dispatching", "applying"} => DOMAIN results = {}
    /\ \A n \in DOMAIN results : results[n] = "DONE" /\ Delivered(n)

\* Why transition will not answer with this action again.
Answered ==
    \/ action = NoAction
    \/ action.action = "DISPATCH" /\ \E n \in action.packets : Delivered(n)
    \/ action.action = "INTEGRATE" /\ \E n \in action.packets : built[n] = "DONE"
    \/ action.action = "REPAIR" /\ ~checkpoint.recovering
    \/ action.action = "ADVANCE_PHASE" /\ \A i \in Owing : First(i) => ~Lags(i)
    \/ action.action = "WAVE_GATE" /\ \E n \in action.packets : n \in waveCoveredIn(action.segment)
    \/ action.action = "PHASE_GATE" /\ phaseGated(action.segment)

\* An action comes back only because its gate was red.
RedRepeats ==
    /\ repeats <= reds
    /\ pc \in {"holding", "repair"} => repeats + 1 <= reds
    /\ pc \in {"top", "applying", "recorded"} => Answered \/ repeats + 1 <= reds

\* Every attempt charged, or about to be, was a red gate.
RedCharges ==
    \A k : /\ Count(repairs, k) <= reds
           /\ \A i \in 1 .. Len(saves) :
                saves[i] = <<"bumpRepair", k>> => Count(repairs, k) + 1 <= reds

\* The writes to come book the hold of a gate that stands, and ask for no repair beyond
\* the bound.
GateWrites ==
    /\ \A i \in 1 .. Len(saves) :
         /\ saves[i][1] = "escalate" => saves[i][2] = "decision"
         /\ saves[i][1] = "recordFailure" => saves[i][2].kind = "gate" /\ saves[i][2].segment \in Standing
    /\ pc = "recorded" /\ saves # <<>> => saves = << <<"resolveGate", action.segment>> >>
    /\ escalation # "repairs"

\* Every unresolved failure is the hold of a gate that stands, or is being resolved.
GateFailures ==
    \A f \in failures :
        /\ f.kind = "gate"
        /\ f.segment \in Standing \/ (pc = "recorded" /\ saves # <<>> /\ f.segment = action.segment)

CalmParts ==
    /\ leases = {} /\ NoneOvertaken /\ Busy
    /\ RedRepeats /\ RedCharges /\ GateWrites /\ GateFailures

HeldInv == reds \in Nat /\ (Calm => CalmParts)

\* The positions of segments are numbers, and different ones are of different segments.
LEMMA Positions ==
    /\ DOMAIN Order \subseteq Nat
    /\ \A i, j \in DOMAIN Order : Order[i] = Order[j] => i = j
    /\ \A i, j \in DOMAIN Order : i # j => Seg(i) \cap Seg(j) = {}
BY GraphAssumption DEF Seg

\* What transition answers, by its name.
LEMMA TransitionShape ==
    /\ transition.action = "REPAIR" => checkpoint.recovering
    /\ transition.action = "ADVANCE_PHASE" => Lags(current)
    /\ transition.action = "INTEGRATE" =>
         transition.packets = integratable(current) /\ integratable(current) # {}
    /\ transition.action = "DISPATCH" =>
         /\ transition.packets = Dispatchable(current) /\ Dispatchable(current) # {}
         /\ integratable(current) = {}
    /\ transition.action = "WAVE_GATE" =>
         /\ transition.packets = Uncovered(current) /\ Uncovered(current) # {}
         /\ Stuck(current)
    /\ transition.action = "PHASE_GATE" =>
         Outstanding(current) = {} /\ Uncovered(current) = {} /\ Stuck(current)
<1>1. CASE broken \/ checkpoint.recovering \/ Owing = {} \/ Lags(current)
  BY <1>1 DEF transition, Action
<1>2. CASE ~(broken \/ checkpoint.recovering \/ Owing = {} \/ Lags(current))
  <2>1. CASE integratable(current) # {}
    BY <1>2, <2>1 DEF transition, Action
  <2>2. CASE integratable(current) = {} /\ Dispatchable(current) # {}
    BY <1>2, <2>2 DEF transition, Action
  <2>3. CASE Stuck(current)
    BY <1>2, <2>3 DEF transition, Action, Stuck
  <2> QED  BY <2>1, <2>2, <2>3 DEF Stuck
<1> QED  BY <1>1, <1>2

\* The segment of an action is the first that owes; there is no other.
LEMMA CurrentFirst ==
    /\ Owing # {} => current \in DOMAIN Order /\ current \in Owing /\ First(current)
    /\ \A i \in Owing : First(i) => i = current
<1>1. Owing \subseteq DOMAIN Order /\ DOMAIN Order \subseteq Nat  BY Positions DEF Owing
<1>2. ASSUME Owing # {} PROVE current \in Owing /\ First(current)
  <2>1. current \in Owing /\ \A j \in Owing : current <= j  BY <1>2, CurrentOwes
  <2>2. ASSUME NEW j \in DOMAIN Order, j < current, j \in Owing PROVE FALSE
    <3>1. current <= j /\ j \in Nat /\ current \in Nat  BY <1>1, <2>1, <2>2
    <3> QED  BY <2>2, <3>1
  <2> QED  BY <2>1, <2>2 DEF First
<1>3. ASSUME NEW i \in Owing, First(i) PROVE i = current
  <2>1. current \in Owing /\ \A j \in Owing : current <= j  BY CurrentOwes
  <2>2. current <= i /\ i \in Nat /\ current \in Nat /\ current \in DOMAIN Order  BY <1>1, <2>1
  <2>3. ~(current < i)  BY <1>3, <2>1, <2>2 DEF First
  <2> QED  BY <2>2, <2>3
<1> QED  BY <1>1, <1>2, <1>3

\* An action that was answered is not derived again.
LEMMA NotAgain ==
    ASSUME Answered, ActionOK
    PROVE  signatureOf(transition) # signatureOf(action)
<1> SUFFICES ASSUME signatureOf(transition) = signatureOf(action) PROVE FALSE  OBVIOUS
<1> DEFINE t == transition
<1>1. /\ t \in [action : ActionNames, segment : Segments \cup {NoSegment}, packets : SUBSET Nodes]
      /\ action \in [action : ActionNames, segment : Segments \cup {NoSegment}, packets : SUBSET Nodes]
  BY TransitionOK DEF ActionOK
<1>2. t.action = action.action /\ t.packets = action.packets
  BY <1>1 DEF signatureOf
<1>3. t.action # "ADVANCE_PHASE" => t.segment = action.segment
  BY <1>1, <1>2 DEF signatureOf
<1>4. action # NoAction
  BY <1>2, TransitionOK DEF NoAction, Action
<1>5. t.action \in {"DISPATCH", "INTEGRATE", "ADVANCE_PHASE", "WAVE_GATE", "PHASE_GATE"} =>
        Owing # {} /\ t.segment = Order[current]
  BY TransitionOK
<1>6. CASE action.action = "DISPATCH" /\ \E n \in action.packets : Delivered(n)
  <2>1. PICK n \in Dispatchable(current) : Delivered(n)  BY <1>2, <1>6, TransitionShape
  <2>2. integratable(current) = {}  BY <1>2, <1>6, TransitionShape
  <2> QED  BY <2>1, <2>2 DEF Delivered, Dispatchable, Outstanding, integratable
<1>7. CASE action.action = "INTEGRATE" /\ \E n \in action.packets : built[n] = "DONE"
  <2>1. PICK n \in integratable(current) : built[n] = "DONE"  BY <1>2, <1>7, TransitionShape
  <2> QED  BY <2>1 DEF Outstanding, integratable
<1>8. CASE action.action = "REPAIR" /\ ~checkpoint.recovering
  BY <1>2, <1>8, TransitionShape
<1>9. CASE action.action = "ADVANCE_PHASE" /\ \A i \in Owing : First(i) => ~Lags(i)
  BY <1>2, <1>5, <1>9, TransitionShape, CurrentFirst
<1>10. CASE action.action = "WAVE_GATE" /\ \E n \in action.packets : n \in waveCoveredIn(action.segment)
  <2>1. action.packets = Uncovered(current) /\ action.segment = Order[current]
    BY <1>2, <1>3, <1>5, <1>10, TransitionShape
  <2> QED  BY <1>10, <2>1 DEF Uncovered
<1>11. CASE action.action = "PHASE_GATE" /\ phaseGated(action.segment)
  <2>1. /\ Outstanding(current) = {} /\ Uncovered(current) = {} /\ action.segment = Order[current]
        /\ current \in Owing
    BY <1>2, <1>3, <1>5, <1>11, TransitionShape, CurrentFirst
  <2> QED  BY <1>11, <2>1 DEF Owing, owesGate
<1> QED  BY <1>4, <1>6, <1>7, <1>8, <1>9, <1>10, <1>11 DEF Answered

\* What depends on the probes and the records alone.
LEMMA SameProbes ==
    ASSUME UNCHANGED <<built, records>>
    PROVE  /\ Owing' = Owing
           /\ \A i : /\ First(i)' <=> First(i)
                     /\ Owes(i)' <=> Owes(i)
                     /\ Unclosable(i)' <=> Unclosable(i)
                     /\ laterWorkStarted(i)' <=> laterWorkStarted(i)
                     /\ Outstanding(i)' = Outstanding(i)
                     /\ Uncovered(i)' = Uncovered(i)
<1>1. \A i : Outstanding(i)' = Outstanding(i) /\ (laterWorkStarted(i)' <=> laterWorkStarted(i))
  BY DEF Outstanding, laterWorkStarted, Seg
<1>2. \A s : waveCoveredIn(s)' = waveCoveredIn(s) /\ (phaseGated(s)' <=> phaseGated(s))
  BY DEF waveCoveredIn, phaseGated
<1>3. \A i : inRegime(i)' <=> inRegime(i)
  BY DEF inRegime
<1>4. \A i : Uncovered(i)' = Uncovered(i)
  BY <1>1, <1>2 DEF Uncovered, Seg
<1>5. \A i : (owesGate(i)' <=> owesGate(i)) /\ (closedByHistory(i)' <=> closedByHistory(i))
  BY <1>1, <1>2, <1>3, <1>4 DEF owesGate, closedByHistory
<1>6. Owing' = Owing
  BY <1>1, <1>5 DEF Owing
<1>7. \A i : First(i)' <=> First(i)
  BY <1>6 DEF First
<1>8. \A i : Owes(i)' <=> Owes(i)
  BY <1>5, <1>6, <1>7 DEF Owes
<1>9. \A i : Unclosable(i)' <=> Unclosable(i)
  BY <1>1, <1>3 DEF Unclosable
<1> QED  BY <1>1, <1>4, <1>6, <1>7, <1>8, <1>9

\* What depends on the work done and the decisions made alone.
LEMMA SameWork ==
    ASSUME UNCHANGED <<built, undecided, handoffs, records>>
    PROVE  /\ \A i : /\ Dispatchable(i)' = Dispatchable(i)
                     /\ integratable(i)' = integratable(i)
                     /\ Stuck(i)' <=> Stuck(i)
           /\ NoneOvertaken' <=> NoneOvertaken
<1>1. /\ \A i : Outstanding(i)' = Outstanding(i) /\ Uncovered(i)' = Uncovered(i)
                /\ (laterWorkStarted(i)' <=> laterWorkStarted(i))
  BY SameProbes
<1>2. \A n : Ready(n)' <=> Ready(n)
  BY DEF Ready
<1>3. \A i : Dispatchable(i)' = Dispatchable(i)
  <2> SUFFICES ASSUME NEW i PROVE Dispatchable(i)' = Dispatchable(i)  OBVIOUS
  <2>1. \A n : dependsOn(n, Uncovered(i))' <=> dependsOn(n, Uncovered(i))
    BY <1>1 DEF dependsOn, Upstream
  <2> QED  BY <1>1, <1>2, <2>1 DEF Dispatchable
<1>4. \A i : integratable(i)' = integratable(i)
  BY <1>1 DEF integratable
<1>5. NoneOvertaken' <=> NoneOvertaken
  BY <1>1 DEF NoneOvertaken
<1>6. \A i : Stuck(i)' <=> Stuck(i)
  BY <1>3, <1>4 DEF Stuck
<1> QED  BY <1>3, <1>4, <1>5, <1>6

\* The same repository asks for the same action.
LEMMA SameTransition == ASSUME UNCHANGED repository PROVE transition' = transition
<1>1. UNCHANGED <<built, undecided, broken, handoffs, records, checkpoint>>  BY DEF repository
<1>2. /\ Owing' = Owing
      /\ \A i : Outstanding(i)' = Outstanding(i) /\ Uncovered(i)' = Uncovered(i)
  BY <1>1, SameProbes
<1>3. \A i : Dispatchable(i)' = Dispatchable(i) /\ integratable(i)' = integratable(i)
  BY <1>1, SameWork
<1>4. \A i : Lags(i)' <=> Lags(i)
  BY <1>1 DEF Lags
<1>5. current' = current
  BY <1>2 DEF current
<1>6. /\ integratable(current)' = integratable(current) /\ Dispatchable(current)' = Dispatchable(current)
      /\ Uncovered(current)' = Uncovered(current) /\ Outstanding(current)' = Outstanding(current)
      /\ (Lags(current)' <=> Lags(current))
  <2>1. PICK c : c = current  OBVIOUS
  <2>2. current' = c  BY <1>5, <2>1
  <2>3. /\ integratable(c)' = integratable(c) /\ Dispatchable(c)' = Dispatchable(c)
        /\ Uncovered(c)' = Uncovered(c) /\ Outstanding(c)' = Outstanding(c)
        /\ (Lags(c)' <=> Lags(c))
    BY <1>2, <1>3, <1>4
  <2> QED  BY <2>1, <2>2, <2>3
<1> QED  BY <1>1, <1>2, <1>5, <1>6 DEF transition, Action

\* The same work answers the same action.
LEMMA SameAnswer ==
    ASSUME UNCHANGED <<built, handoffs, records, checkpoint, action>>
    PROVE  Answered' <=> Answered
<1>1. Owing' = Owing /\ \A i : First(i)' <=> First(i)  BY SameProbes
<1>2. \A n : Delivered(n)' <=> Delivered(n)  BY DEF Delivered
<1>3. \A i : Lags(i)' <=> Lags(i)  BY DEF Lags
<1>4. \A s : waveCoveredIn(s)' = waveCoveredIn(s) /\ (phaseGated(s)' <=> phaseGated(s))
  BY DEF waveCoveredIn, phaseGated
<1>5. (\A i \in Owing : First(i) => ~Lags(i))' <=> \A i \in Owing : First(i) => ~Lags(i)
  BY <1>1, <1>3
<1>6. /\ waveCoveredIn(action.segment)' = waveCoveredIn(action.segment)
      /\ (phaseGated(action.segment)' <=> phaseGated(action.segment))
  BY <1>4 DEF waveCoveredIn, phaseGated
<1>7. (\E n \in action.packets : n \in waveCoveredIn(action.segment))' <=> \E n \in action.packets : n \in waveCoveredIn(action.segment)
  BY <1>6
<1>8. (\E n \in action.packets : Delivered(n))' <=> \E n \in action.packets : Delivered(n)
  BY <1>2
<1> QED  BY <1>5, <1>6, <1>7, <1>8 DEF Answered

\* A gate stands as long as nobody works on its segment, or history cannot close it.
LEMMA StandsStill ==
    ASSUME UNCHANGED <<built, undecided, handoffs, records>>,
           pc' \in AtWorkPlaces => pc \in AtWorkPlaces \/ \A i \in Owing : First(i) => ~Stuck(i)
    PROVE  Standing \subseteq Standing'
<1>1. /\ \A i : (Owes(i)' <=> Owes(i)) /\ (Unclosable(i)' <=> Unclosable(i))
      /\ \A i : Stuck(i)' <=> Stuck(i)
  BY SameProbes, SameWork
<1> SUFFICES ASSUME NEW s \in Standing PROVE s \in Standing'  OBVIOUS
<1>2. PICK i \in DOMAIN Order : Order[i] = s /\ Owes(i) /\ (Unclosable(i) \/ (pc \notin AtWorkPlaces /\ Stuck(i)))
  BY DEF Standing
<1>3. Owes(i)' /\ (Unclosable(i)' \/ (pc' \notin AtWorkPlaces /\ Stuck(i)'))
  BY <1>1, <1>2 DEF Owes
<1> QED  BY <1>2, <1>3 DEF Standing

\* Work on the first segment that owes opens no segment before it and closes no gate
\* that stands.
LEMMA WorkInFront ==
    ASSUME FlowTypeOK, NEW i \in DOMAIN Order, First(i), NoneOvertaken,
           UNCHANGED <<undecided, records>>,
           \A n \in Nodes \ Seg(i) : built'[n] = built[n],
           \A n \in Nodes : \/ built'[n] = built[n] \/ built'[n] = "DONE"
                            \/ built[n] = "TODO" /\ built'[n] = "PARTIAL"
    PROVE  /\ First(i)' /\ NoneOvertaken'
           /\ \A k \in DOMAIN Order : Owes(k) /\ Unclosable(k) => Owes(k)' /\ Unclosable(k)'
<1>1. /\ DOMAIN Order \subseteq Nat /\ i \in Nat
      /\ \A j, k \in DOMAIN Order : j # k => Seg(j) \cap Seg(k) = {}
      /\ \A j : Seg(j) \subseteq Nodes
  BY Positions DEF Seg
<1>2. \A j \in DOMAIN Order : j # i => Outstanding(j)' = Outstanding(j)
  BY <1>1 DEF Outstanding, Seg
<1>3. \A j \in DOMAIN Order : Outstanding(j)' \subseteq Outstanding(j)
  BY <1>1 DEF Outstanding, Seg
<1>4. \A j \in DOMAIN Order : /\ laterWorkStarted(j) => laterWorkStarted(j)'
                              /\ j >= i => (laterWorkStarted(j)' <=> laterWorkStarted(j))
  <2>1. \A n \in Nodes : built[n] # "TODO" => built'[n] # "TODO"  OBVIOUS
  <2>2. ASSUME NEW j \in DOMAIN Order, laterWorkStarted(j) PROVE laterWorkStarted(j)'
    BY <1>1, <2>1, <2>2 DEF laterWorkStarted, Seg
  <2>3. ASSUME NEW j \in DOMAIN Order, j >= i, laterWorkStarted(j)' PROVE laterWorkStarted(j)
    <3>1. PICK k \in DOMAIN Order : k > j /\ \E n \in Seg(k) : built'[n] # "TODO"
      BY <2>3 DEF laterWorkStarted, Seg
    <3>2. PICK n \in Seg(k) : built'[n] # "TODO"  BY <3>1
    <3>3. k # i  BY <1>1, <2>3, <3>1
    <3>4. n \in Nodes \ Seg(i)  BY <1>1, <3>3
    <3> QED  BY <3>1, <3>2, <3>4 DEF laterWorkStarted
  <2> QED  BY <2>2, <2>3
<1>5. \A j : /\ waveCoveredIn(Order[j])' = waveCoveredIn(Order[j])
             /\ (phaseGated(Order[j])' <=> phaseGated(Order[j]))
             /\ (inRegime(j)' <=> inRegime(j))
  BY DEF waveCoveredIn, phaseGated, inRegime
<1>6. \A j \in DOMAIN Order : Uncovered(j) \subseteq Uncovered(j)'
  BY <1>3, <1>5 DEF Uncovered, Seg
<1>7. \A j \in DOMAIN Order : j # i => Uncovered(j)' = Uncovered(j)
  BY <1>2, <1>5 DEF Uncovered, Seg
<1>8. \A j \in DOMAIN Order : owesGate(j) => owesGate(j)'
  BY <1>5, <1>6 DEF owesGate
<1>9. \A j \in DOMAIN Order : j < i /\ j \notin Owing => j \notin Owing'
  <2> SUFFICES ASSUME NEW j \in DOMAIN Order, j < i, j \notin Owing PROVE j \notin Owing'  OBVIOUS
  <2>1. j # i  BY <1>1
  <2>2. Outstanding(j)' = Outstanding(j) /\ (owesGate(j)' <=> owesGate(j))
    BY <1>2, <1>5, <1>7, <2>1 DEF owesGate
  <2>3. closedByHistory(j) => closedByHistory(j)'  BY <1>4, <1>5 DEF closedByHistory
  <2> QED  BY <2>2, <2>3 DEF Owing
<1>10. First(i)'
  BY <1>9 DEF First
<1>11. NoneOvertaken'
  <2> SUFFICES ASSUME NEW j \in DOMAIN Order, laterWorkStarted(j)'
               PROVE  undecided \cap Outstanding(j)' = {}
    BY DEF NoneOvertaken
  <2>1. CASE j >= i
    BY <1>3, <1>4, <2>1 DEF NoneOvertaken
  <2>2. CASE ~(j >= i)
    <3>1. j < i /\ j # i  BY <1>1, <2>2
    <3>2. Outstanding(j) = {}  BY <3>1 DEF First, Owing
    <3> QED  BY <1>2, <3>1, <3>2
  <2> QED  BY <2>1, <2>2
<1>12. ASSUME NEW k \in DOMAIN Order, Owes(k), Unclosable(k) PROVE Owes(k)' /\ Unclosable(k)'
  <2>1. ~(k < i)  BY <1>12 DEF Owes, First
  <2>2. k >= i  BY <1>1, <2>1
  <2>3. Unclosable(k)'  BY <1>4, <1>5, <1>12, <2>2 DEF Unclosable
  <2>4. owesGate(k)'  BY <1>8, <1>12 DEF Owes
  <2>5. k \in Owing'  BY <2>3, <2>4 DEF Owing, closedByHistory, Unclosable
  <2>6. First(k)'
    <3> SUFFICES ASSUME NEW j \in DOMAIN Order, j < k PROVE j \notin Owing'  BY DEF First
    <3>1. j \notin Owing  BY <1>12 DEF Owes, First
    <3>2. CASE j < i  BY <1>9, <3>1, <3>2
    <3>3. CASE j = i
      <4>1. Outstanding(i) = {}  BY <3>1, <3>3 DEF Owing
      <4>2. \A n \in Seg(i) : built[n] = "DONE"  BY <4>1 DEF Outstanding
      <4>3. \A n \in Nodes : built'[n] = built[n]
        BY <4>2
      <4>4. Outstanding(i)' = Outstanding(i)  BY <1>1, <4>3 DEF Outstanding, Seg
      <4>5. Uncovered(i)' = Uncovered(i)  BY <1>5, <4>4 DEF Uncovered, Seg
      <4>6. owesGate(i)' <=> owesGate(i)  BY <1>5, <4>5 DEF owesGate
      <4>7. closedByHistory(i)' <=> closedByHistory(i)
        <5>1. i >= i  BY <1>1
        <5> QED  BY <1>4, <1>5, <5>1 DEF closedByHistory
      <4> QED  BY <3>1, <3>3, <4>4, <4>6, <4>7 DEF Owing
    <3>4. CASE j > i
      <4>1. j # i /\ j >= i  BY <1>1, <3>4
      <4>2. Outstanding(j)' = Outstanding(j) /\ (owesGate(j)' <=> owesGate(j))
        BY <1>2, <1>5, <1>7, <4>1 DEF owesGate
      <4>3. closedByHistory(j)' <=> closedByHistory(j)  BY <1>4, <1>5, <4>1 DEF closedByHistory
      <4> QED  BY <3>1, <4>2, <4>3 DEF Owing
    <3> QED  BY <1>1, <3>2, <3>3, <3>4
  <2> QED  BY <2>3, <2>4, <2>5, <2>6 DEF Owes
<1> QED  BY <1>10, <1>11, <1>12

\* A step counts no red gate away and clears nobody of blame.
LEMMA CalmBefore ==
    ASSUME reds \in Nat, [Next]_vars
    PROVE  reds' \in Nat /\ reds <= reds' /\ (blame' = "gates" => blame = "gates")
<1>1. CASE reds' = reds /\ blame' = blame  BY <1>1
<1>2. CASE Integrated \/ Reconciled
  BY <1>2 DEF Integrated, Reconciled, Worse
<1>3. ASSUME NEW n \in Nodes, NEW o \in Outcomes, WorkerEnds(n, o)
      PROVE  reds' \in Nat /\ reds <= reds' /\ (blame' = "gates" => blame = "gates")
  BY <1>3 DEF WorkerEnds, Red, Worse
<1>4. CASE GateCommand \/ GateWorkerRed
  BY <1>4 DEF GateCommand, GateWorkerRed, Red
<1>5. CASE Crash \/ \E n \in Nodes : Regress(n)
  <2>1. CASE Crash  BY <2>1 DEF Crash
  <2>2. ASSUME NEW n \in Nodes, Regress(n) PROVE reds' = reds /\ blame' = "others"
    BY <2>2 DEF Regress
  <2> QED  BY <1>5, <2>1, <2>2
<1>6. CASE UNCHANGED vars
  BY <1>1, <1>6 DEF vars, history
<1>7. CASE Loop
  BY <1>1, <1>2, <1>3, <1>4, <1>7 DEF Loop, Save, StopObserved, EscalationPending, Derive, Complete,
     AskHuman, AdvancePhase, LaunchWorker, Dispatch, WorkerEnding, BatchSettled, ApplyResult,
     Continue, GateRecorded, GateRefused, RepairGate, RepairEnds, history
<1>8. CASE Environment
  BY <1>1, <1>5, <1>8 DEF Environment, Start, RequestStop, LeaseExpires, Decide, WorkerBuilds, history
<1> QED  BY <1>6, <1>7, <1>8 DEF Next

\* Steps that charge nothing and book or resolve no failure: what they plan to write must
\* be sound.
LEMMA BooksKept ==
    ASSUME CalmParts, reds \in Nat, reds' \in Nat, reds <= reds', Counters,
           UNCHANGED <<failures, repairs>>, escalation' # "repairs",
           Standing \subseteq Standing',
           pc = "recorded" => saves = <<>>, pc' = "recorded" => saves' = <<>>,
           \/ saves' = saves \/ saves' = <<>>
           \/ \A i \in 1 .. Len(saves') :
                /\ saves'[i][1] = "escalate" => saves'[i][2] = "decision"
                /\ saves'[i][1] = "recordFailure" =>
                     saves'[i][2].kind = "gate" /\ saves'[i][2].segment \in Standing'
                /\ \A k : saves'[i] = <<"bumpRepair", k>> => Count(repairs, k) + 1 <= reds'
    PROVE  RedCharges' /\ GateWrites' /\ GateFailures'
<1>1. \A k : Count(repairs, k)' = Count(repairs, k) /\ Count(repairs, k) \in Nat
  BY DEF Counters, Count
<1>2. /\ \A i \in 1 .. Len(saves) :
           /\ saves[i][1] = "escalate" => saves[i][2] = "decision"
           /\ saves[i][1] = "recordFailure" => saves[i][2].kind = "gate" /\ saves[i][2].segment \in Standing
      /\ escalation # "repairs"
      /\ \A k : /\ Count(repairs, k) <= reds
                /\ \A i \in 1 .. Len(saves) :
                     saves[i] = <<"bumpRepair", k>> => Count(repairs, k) + 1 <= reds
      /\ \A f \in failures : f.kind = "gate" /\ f.segment \in Standing
  BY DEF CalmParts, GateWrites, GateFailures, RedCharges
<1> DEFINE Sane(s) ==
      \A i \in 1 .. Len(s) :
                /\ s[i][1] = "escalate" => s[i][2] = "decision"
                /\ s[i][1] = "recordFailure" => s[i][2].kind = "gate" /\ s[i][2].segment \in Standing'
                /\ \A k : s[i] = <<"bumpRepair", k>> => Count(repairs, k) + 1 <= reds'
<1>3. Sane(saves')
  <2>1. CASE saves' = saves
    <3>1. ASSUME NEW i \in 1 .. Len(saves), saves[i][1] = "recordFailure"
          PROVE  saves[i][2].kind = "gate" /\ saves[i][2].segment \in Standing'
      BY <1>2, <3>1
    <3>2. \A k : \A i \in 1 .. Len(saves) : saves[i] = <<"bumpRepair", k>> => Count(repairs, k) + 1 <= reds'
      BY <1>1, <1>2
    <3> QED  BY <1>2, <2>1, <3>1, <3>2
  <2>2. CASE saves' = <<>>  BY <2>2
  <2> QED  BY <2>1, <2>2
<1>4. RedCharges'
  <2>1. \A k : Count(repairs, k)' <= reds'  BY <1>1, <1>2
  <2> QED  BY <1>1, <1>3, <2>1 DEF RedCharges
<1>5. GateFailures'
  BY <1>2 DEF GateFailures
<1>6. GateWrites'
  BY <1>3 DEF GateWrites
<1> QED  BY <1>4, <1>5, <1>6

\* A step after which still nothing but gates went wrong, within the bound.
Calming == IInv /\ CalmParts /\ reds \in Nat /\ reds' \in Nat /\ reds <= reds' /\ Calm'

\* The end of a run forgets what was to be repeated and written.
LEMMA EndHeld ==
    ASSUME Calming, NEW result \in Ended, Ends(result), pc # "recorded",
           UNCHANGED <<repository, failures, repairs, leases>>, escalation' # "repairs"
    PROVE  CalmParts'
<1>1. /\ pc' = result /\ action' = NoAction /\ repeats' = 0
      /\ running' = {} /\ results' = <<>> /\ saves' = <<>>
  BY DEF Ends
<1>2. pc' \notin AtWorkPlaces /\ pc' # "recorded"  BY <1>1 DEF Ended, AtWorkPlaces
<1>3. Standing \subseteq Standing' /\ (NoneOvertaken' <=> NoneOvertaken)
  BY <1>2, StandsStill, SameWork DEF repository
<1>4. RedCharges' /\ GateWrites' /\ GateFailures'
  BY <1>1, <1>2, <1>3, BooksKept DEF Calming, IInv, Ledger
<1>5. Busy'
  <2>1. DOMAIN results' = {}  BY <1>1
  <2> QED  BY <1>1, <1>2, <2>1 DEF Busy, Ended, AtWorkPlaces
<1>6. RedRepeats'
  BY <1>1, <1>2 DEF RedRepeats, Ended, Calming
<1> QED  BY <1>3, <1>4, <1>5, <1>6 DEF Calming, CalmParts

LEMMA StopHeld ==
    ASSUME Calming, StopObserved \/ EscalationPending \/ Complete PROVE CalmParts'
<1>1. PICK result \in Ended : Ends(result)
  BY DEF StopObserved, EscalationPending, Complete, Ended
<1>2. pc # "recorded" /\ UNCHANGED <<repository, failures, repairs, leases, escalation>>
  BY DEF StopObserved, EscalationPending, Complete, Acting, durable
<1>3. escalation' # "repairs"  BY <1>2 DEF Calming, CalmParts, GateWrites
<1> QED  BY <1>1, <1>2, <1>3, EndHeld

\* Steps that change nothing but the place in the loop, and plan no write but an
\* escalation to decide something.
LEMMA MoveHeld ==
    ASSUME Calming,
           UNCHANGED <<repository, failures, repairs, leases, action, repeats, results>>,
           escalation' # "repairs", pc = "recorded" => saves = <<>>, pc' \notin {"recorded", "acting"} \cup Ended,
           pc' \in AtWorkPlaces => pc \in AtWorkPlaces \/ \A i \in Owing : First(i) => ~Stuck(i),
           saves' \in {saves, <<>>, << <<"escalate", "decision">> >>},
           pc' = "reconcile" => action.action = "REPAIR",
           pc' = "integrate" => action.action = "INTEGRATE",
           pc' \in {"dispatching", "applying"} => action.action = "DISPATCH",
           pc' = "gating" => pc = "acting",
           pc' \in AtWorkPlaces =>
             \E i \in DOMAIN Order : First(i) /\ Order[i] = action.segment /\ action.packets \subseteq Seg(i),
           pc' = "dispatching" =>
             running' \cup DOMAIN results \subseteq action.packets /\ running' \cup DOMAIN results # {},
           pc' \notin {"dispatching", "applying"} => DOMAIN results = {},
           pc' \in {"holding", "repair"} => repeats + 1 <= reds,
           pc' \in {"top", "applying"} => Answered \/ repeats + 1 <= reds
    PROVE  CalmParts'
<1>1. Standing \subseteq Standing' /\ (NoneOvertaken' <=> NoneOvertaken)
  BY StandsStill, SameWork DEF repository
<1>2. RedCharges' /\ GateWrites' /\ GateFailures'
  <2>1. ASSUME saves' = << <<"escalate", "decision">> >>, NEW i \in 1 .. Len(saves')
        PROVE  /\ saves'[i][1] = "escalate" => saves'[i][2] = "decision"
               /\ saves'[i][1] = "recordFailure" =>
                    saves'[i][2].kind = "gate" /\ saves'[i][2].segment \in Standing'
               /\ \A k : saves'[i] = <<"bumpRepair", k>> => Count(repairs, k) + 1 <= reds'
    <3>1. saves'[i] = <<"escalate", "decision">>  BY <2>1
    <3> QED  BY <3>1
  <2> QED  BY <1>1, <2>1, BooksKept DEF Calming, IInv, Ledger
<1>3. Busy'
  <2>1. transition' = transition  BY SameTransition
  <2>2. /\ \A i : First(i)' <=> First(i)
        /\ \A n : Delivered(n)' <=> Delivered(n)
        /\ \A i : Seg(i)' = Seg(i)
    BY SameProbes DEF repository, Delivered, Seg
  <2>3. pc' \in AtWorkPlaces =>
          \E i \in DOMAIN Order : First(i)' /\ Order[i] = action'.segment /\ action'.packets \subseteq Seg(i)
    BY <2>2
  <2>4. \A n \in DOMAIN results' : results'[n] = "DONE" /\ Delivered(n)'
    BY <2>2 DEF Calming, CalmParts, Busy
  <2>5. pc' = "gating" => action' = transition'
    BY <2>1 DEF Calming, CalmParts, Busy
  <2> QED  BY <2>3, <2>4, <2>5 DEF Busy
<1>4. RedRepeats'
  <2>1. Answered' <=> Answered  BY SameAnswer DEF repository
  <2>2. repeats \in Nat /\ repeats <= reds
    BY OptionsAssumption DEF Calming, IInv, Typed, CalmParts, RedRepeats
  <2> QED  BY <2>1, <2>2 DEF Calming, RedRepeats
<1> QED  BY <1>1, <1>2, <1>3, <1>4 DEF Calming, CalmParts

\* The action being done is the one transition answers, on the segment that owes.
LEMMA AtCurrent ==
    ASSUME Busy, pc \in {"acting", "gating"}, action.action \in {"INTEGRATE", "DISPATCH", "WAVE_GATE", "PHASE_GATE"}
    PROVE  /\ action = transition /\ Owing # {}
           /\ current \in DOMAIN Order /\ current \in Owing /\ First(current)
           /\ Order[current] = action.segment
           /\ action.action \in {"INTEGRATE", "DISPATCH"} =>
                /\ action.packets # {} /\ action.packets \subseteq Seg(current)
                /\ \A i \in Owing : First(i) => ~Stuck(i)
<1>1. action = transition  BY DEF Busy
<1>2. Owing # {} /\ Order[current] = action.segment
  BY <1>1, TransitionOK
<1>3. current \in DOMAIN Order /\ current \in Owing /\ First(current) /\ \A i \in Owing : First(i) => i = current
  BY <1>2, CurrentFirst
<1>4. CASE action.action = "INTEGRATE"
  <2>1. action.packets = integratable(current) /\ integratable(current) # {}
    BY <1>1, <1>4, TransitionShape
  <2> QED  BY <1>1, <1>2, <1>3, <2>1 DEF Stuck, integratable, Outstanding
<1>5. CASE action.action = "DISPATCH"
  <2>1. action.packets = Dispatchable(current) /\ Dispatchable(current) # {}
    BY <1>1, <1>5, TransitionShape
  <2> QED  BY <1>1, <1>2, <1>3, <2>1 DEF Stuck, Dispatchable, Outstanding
<1> QED  BY <1>1, <1>2, <1>3, <1>4, <1>5

\* What is pending where the loop is at work.
LEMMA NothingPlanned ==
    ASSUME Calming
    PROVE  /\ pc \notin {"escalating", "applying", "recorded", "holding"} => saves = <<>>
           /\ pc # "dispatching" => running = {}
           /\ escalation # "repairs" /\ leases = {} /\ Busy /\ NoneOvertaken
           /\ repeats \in Nat /\ repeats <= reds
BY OptionsAssumption DEF Calming, IInv, Typed, Placed, CalmParts, GateWrites, RedRepeats

LEMMA LoopMovesHeld ==
    ASSUME Calming, AskHuman \/ LaunchWorker \/ BatchSettled \/ Continue \/ RepairGate \/ RepairEnds
    PROVE  CalmParts'
<1>0. DOMAIN results = {} \/ pc \in {"dispatching", "applying"}
  BY NothingPlanned DEF Busy
<1>1. CASE AskHuman
  <2>1. /\ pc = "acting" /\ pc' = "escalating" /\ saves' = << <<"escalate", "decision">> >>
        /\ UNCHANGED <<repository, durable, action, repeats, results>>
    BY <1>1 DEF AskHuman, Acting
  <2> QED  BY <1>0, <2>1, NothingPlanned, MoveHeld DEF durable, Ended, AtWorkPlaces
<1>2. CASE LaunchWorker
  <2>1. /\ pc = "acting" /\ UNCHANGED <<repository, durable, action, repeats, results, saves>>
        /\ \/ action.action = "INTEGRATE" /\ pc' = "integrate"
           \/ action.action = "REPAIR" /\ pc' = "reconcile"
    BY <1>2, NothingPlanned DEF LaunchWorker, Acting, Work
  <2>2. CASE action.action = "INTEGRATE" /\ pc' = "integrate"
    <3>1. /\ current \in DOMAIN Order /\ First(current) /\ Order[current] = action.segment
          /\ action.packets \subseteq Seg(current) /\ \A i \in Owing : First(i) => ~Stuck(i)
      BY <2>1, <2>2, NothingPlanned, AtCurrent
    <3> QED  BY <1>0, <2>1, <2>2, <3>1, NothingPlanned, MoveHeld DEF durable, Ended, AtWorkPlaces
  <2>3. CASE action.action = "REPAIR" /\ pc' = "reconcile"
    BY <1>0, <2>1, <2>3, NothingPlanned, MoveHeld DEF durable, Ended, AtWorkPlaces
  <2> QED  BY <2>1, <2>2, <2>3
<1>3. CASE BatchSettled
  <2>1. /\ pc = "dispatching" /\ pc' = "applying" /\ running = {}
        /\ UNCHANGED <<repository, durable, action, repeats, running, results, saves>>
    BY <1>3 DEF BatchSettled
  <2>2. action.action = "DISPATCH" /\ \E n \in action.packets : Delivered(n)
    BY <2>1, NothingPlanned DEF Busy
  <2>3. Answered  BY <2>2 DEF Answered
  <2> QED  BY <2>1, <2>2, <2>3, NothingPlanned, MoveHeld DEF durable, Ended, AtWorkPlaces
<1>4. CASE Continue
  <2>1. /\ pc \in {"applying", "recorded"} /\ pc' = "top" /\ saves = <<>> /\ DOMAIN results = {}
        /\ UNCHANGED <<repository, durable, action, repeats, running, results, saves>>
    BY <1>4 DEF Continue
  <2>2. Answered \/ repeats + 1 <= reds  BY <2>1 DEF Calming, CalmParts, RedRepeats
  <2> QED  BY <2>1, <2>2, NothingPlanned, MoveHeld DEF durable, Ended, AtWorkPlaces
<1>5. CASE RepairGate \/ RepairEnds
  <2>1. /\ pc \in {"holding", "repair"} /\ pc' \in {"top", "repair", "escalating"}
        /\ UNCHANGED <<repository, durable, action, repeats, results>>
        /\ saves' \in {saves, << <<"escalate", "decision">> >>}
    BY <1>5 DEF RepairGate, RepairEnds, WorkerReports
  <2>2. repeats + 1 <= reds  BY <2>1 DEF Calming, CalmParts, RedRepeats
  <2> QED  BY <1>0, <2>1, <2>2, NothingPlanned, MoveHeld DEF durable, Ended, AtWorkPlaces
<1> QED  BY <1>1, <1>2, <1>3, <1>4, <1>5

LEMMA DispatchHeld == ASSUME Calming, Dispatch PROVE CalmParts'
<1>1. /\ pc = "acting" /\ action.action = "DISPATCH" /\ pc' = "dispatching"
      /\ UNCHANGED <<repository, durable, action, repeats, results, saves>>
  BY DEF Dispatch, Acting
<1>2. DOMAIN results = {}  BY <1>1, NothingPlanned DEF Busy
<1>3. PICK B \in Batches(action.packets) : running' = {n \in B : NodeKey(n) \notin leases}
  BY DEF Dispatch
<1>4. running' = B  BY <1>3, NothingPlanned
<1>5. /\ current \in DOMAIN Order /\ First(current) /\ Order[current] = action.segment
      /\ action.packets # {} /\ action.packets \subseteq Seg(current)
      /\ \A i \in Owing : First(i) => ~Stuck(i)
  BY <1>1, NothingPlanned, AtCurrent
<1>6. B \subseteq action.packets /\ B # {}
  <2>1. B \subseteq action.packets /\ Cardinality(B) \in {1, Smaller(Concurrency, Cardinality(action.packets))}
    BY <1>3 DEF Batches
  <2>2. IsFiniteSet(action.packets)
    BY <1>5, GraphAssumption, FS_Subset DEF Seg
  <2>3. Cardinality(action.packets) \in Nat /\ Cardinality(action.packets) # 0 /\ Cardinality({}) = 0
    BY <1>5, <2>2, FS_CardinalityType, FS_EmptySet
  <2>4. Smaller(Concurrency, Cardinality(action.packets)) # 0
    BY <2>3, OptionsAssumption DEF Smaller
  <2> QED  BY <2>1, <2>3, <2>4
<1> QED  BY <1>1, <1>2, <1>4, <1>5, <1>6, NothingPlanned, MoveHeld DEF durable, Ended, AtWorkPlaces

\* An action that was answered is not derived again, and one that was not was red: the
\* limit on repetitions is out of reach.
LEMMA DeriveHeld == ASSUME Calming, Derive, Bound < NoProgressLimit PROVE CalmParts'
<1>1. /\ pc = "top" /\ action' = transition /\ repeats' = Repeats(transition)
      /\ UNCHANGED <<repository, durable, running, results, history>>
  BY DEF Derive
<1>2. saves = <<>> /\ DOMAIN results = {} /\ ActionOK
  BY <1>1, NothingPlanned DEF Busy, Calming, IInv, Typed
<1>3. repeats' \in Nat /\ repeats' <= reds
  <2>1. CASE signatureOf(transition) = signatureOf(action)
    <3>1. ~Answered  BY <1>2, <2>1, NotAgain
    <3>2. repeats + 1 <= reds  BY <1>1, <3>1 DEF Calming, CalmParts, RedRepeats
    <3>3. repeats' = repeats + 1  BY <1>1, <2>1 DEF Repeats
    <3> QED  BY <3>2, <3>3, NothingPlanned
  <2>2. CASE signatureOf(transition) # signatureOf(action)
    <3>1. repeats' = 0  BY <1>1, <2>2 DEF Repeats
    <3> QED  BY <3>1 DEF Calming
  <2> QED  BY <2>1, <2>2
<1>4. ~(Repeats(transition) >= NoProgressLimit)
  <2>1. repeats' <= Bound /\ repeats' < NoProgressLimit
    <3>1. reds <= Bound  BY OptionsAssumption DEF Calming, Calm
    <3> QED  BY <1>3, <3>1, OptionsAssumption DEF Calming
  <2> QED  BY <1>1, <1>3, <2>1, OptionsAssumption
<1>5. pc' = "acting" /\ saves' = saves
  BY <1>4 DEF Derive
<1>6. Standing \subseteq Standing' /\ (NoneOvertaken' <=> NoneOvertaken)
  BY <1>1, <1>5, StandsStill, SameWork DEF repository, AtWorkPlaces
<1>7. RedCharges' /\ GateWrites' /\ GateFailures'
  BY <1>1, <1>2, <1>5, <1>6, NothingPlanned, BooksKept DEF Calming, IInv, Ledger, durable
<1>8. Busy'
  <2>1. action' = transition'  BY <1>1, SameTransition
  <2>2. DOMAIN results' = {}  BY <1>1, <1>2
  <2> QED  BY <1>5, <2>1, <2>2 DEF Busy, Ended, AtWorkPlaces
<1>9. RedRepeats'
  BY <1>1, <1>3, <1>5 DEF RedRepeats, history
<1> QED  BY <1>1, <1>6, <1>7, <1>8, <1>9, NothingPlanned DEF CalmParts, durable

\* The checkpoint follows the segment derived, so the next action is another.
LEMMA AdvanceHeld == ASSUME Calming, AdvancePhase PROVE CalmParts'
<1>1. /\ pc = "acting" /\ action.action = "ADVANCE_PHASE" /\ pc' = "top"
      /\ checkpoint' = [segment |-> action.segment, recovering |-> FALSE]
      /\ UNCHANGED <<built, undecided, broken, handoffs, records, durable,
                     action, repeats, iteration, running, results, saves, history>>
  BY DEF AdvancePhase, Acting
<1>2. saves = <<>> /\ DOMAIN results = {} /\ action = transition
  BY <1>1, NothingPlanned DEF Busy
<1>3. Standing \subseteq Standing' /\ (NoneOvertaken' <=> NoneOvertaken)
  BY <1>1, StandsStill, SameWork DEF AtWorkPlaces
<1>4. RedCharges' /\ GateWrites' /\ GateFailures'
  BY <1>1, <1>2, <1>3, NothingPlanned, BooksKept DEF Calming, IInv, Ledger, durable
<1>5. Busy'
  BY <1>1, <1>2 DEF Busy, Ended, AtWorkPlaces
<1>6. Answered'
  <2>1. Owing # {} /\ action.segment = Order[current]
    BY <1>1, <1>2, TransitionOK
  <2>2. current \in DOMAIN Order /\ \A i \in Owing : First(i) => i = current
    BY <2>1, CurrentFirst
  <2>3. Owing' = Owing /\ \A i : First(i)' <=> First(i)  BY <1>1, SameProbes
  <2>4. ~Lags(current)'
    <3>1. PICK c \in DOMAIN Order : c = current  BY <2>2
    <3>2. ASSUME NEW j \in DOMAIN Order, j < c, checkpoint'.segment = Order[j] PROVE FALSE
      <4>1. Order[j] = Order[c]  BY <1>1, <2>1, <3>1, <3>2
      <4>2. j = c /\ c \in Nat  BY <4>1, Positions
      <4> QED  BY <3>2, <4>2
    <3>3. current' = current  BY <2>3 DEF current
    <3> QED  BY <3>1, <3>2, <3>3 DEF Lags
  <2>5. \A i \in Owing' : First(i)' => ~Lags(i)'
    <3>1. current' = current  BY <2>3 DEF current
    <3> QED  BY <2>2, <2>3, <2>4, <3>1 DEF Lags
  <2> QED  BY <1>1, <2>5 DEF Answered
<1>7. RedRepeats'
  BY <1>1, <1>6, NothingPlanned DEF RedRepeats, history
<1> QED  BY <1>1, <1>3, <1>4, <1>5, <1>7, NothingPlanned DEF CalmParts, durable

\* An integration that is not to blame lands something, in the segment it was asked for.
LEMMA IntegratedHeld == ASSUME Calming, Integrated PROVE CalmParts'
<1>1. /\ pc = "integrate" /\ WorkerReports
      /\ UNCHANGED <<undecided, broken, handoffs, records, checkpoint, reds>>
  BY DEF Integrated
<1>2. /\ pc' \in {"top", "escalating"} /\ saves' \in {saves, << <<"escalate", "decision">> >>}
      /\ UNCHANGED <<durable, action, repeats, iteration, running, results>>
  BY <1>1 DEF WorkerReports
<1>3. saves = <<>> /\ DOMAIN results = {} /\ action.action = "INTEGRATE"
  BY <1>1, NothingPlanned DEF Busy
<1>4. PICK merged \in SUBSET action.packets :
        /\ built' = [n \in Nodes |-> IF n \in merged THEN "DONE" ELSE built[n]]
        /\ merged # {}
  BY DEF Integrated, Worse, Calming, Calm
<1>5. PICK i \in DOMAIN Order : First(i) /\ Order[i] = action.segment /\ action.packets \subseteq Seg(i)
  BY <1>1, NothingPlanned DEF Busy, AtWorkPlaces
<1>6. /\ \A n \in Nodes \ Seg(i) : built'[n] = built[n]
      /\ \A n \in Nodes : built'[n] = built[n] \/ built'[n] = "DONE"
  BY <1>4, <1>5
<1>7. /\ NoneOvertaken'
      /\ \A k \in DOMAIN Order : Owes(k) /\ Unclosable(k) => Owes(k)' /\ Unclosable(k)'
  BY <1>1, <1>5, <1>6, NothingPlanned, WorkInFront DEF Calming, IInv, Typed
<1>8. Standing \subseteq Standing'
  BY <1>1, <1>7 DEF Standing, AtWorkPlaces
<1>9. RedCharges' /\ GateWrites' /\ GateFailures'
  <2>1. ASSUME saves' = << <<"escalate", "decision">> >>, NEW j \in 1 .. Len(saves')
        PROVE  /\ saves'[j][1] = "escalate" => saves'[j][2] = "decision"
               /\ saves'[j][1] = "recordFailure" =>
                    saves'[j][2].kind = "gate" /\ saves'[j][2].segment \in Standing'
               /\ \A k : saves'[j] = <<"bumpRepair", k>> => Count(repairs, k) + 1 <= reds'
    <3>1. saves'[j] = <<"escalate", "decision">>  BY <2>1
    <3> QED  BY <3>1
  <2> QED  BY <1>1, <1>2, <1>3, <1>8, <2>1, NothingPlanned, BooksKept DEF Calming, IInv, Ledger, durable
<1>10. Busy'
  <2>1. DOMAIN results' = {}  BY <1>2, <1>3
  <2> QED  BY <1>2, <2>1 DEF Busy, Ended, AtWorkPlaces
<1>11. Answered'
  <2>1. PICK n \in merged : TRUE  BY <1>4
  <2>2. n \in action'.packets /\ n \in Nodes  BY <1>2, <1>5, <2>1 DEF Seg
  <2>3. built'[n] = "DONE"  BY <1>4, <2>1, <2>2
  <2> QED  BY <1>2, <1>3, <2>2, <2>3 DEF Answered
<1>12. RedRepeats'
  BY <1>1, <1>2, <1>11, NothingPlanned DEF RedRepeats
<1> QED  BY <1>2, <1>7, <1>9, <1>10, <1>12, NothingPlanned DEF CalmParts, durable

\* A reconciliation that is not to blame ends the recovery.
LEMMA ReconciledHeld == ASSUME Calming, Reconciled PROVE CalmParts'
<1>1. /\ pc = "reconcile" /\ WorkerReports
      /\ UNCHANGED <<built, undecided, broken, handoffs, records, reds>>
  BY DEF Reconciled
<1>2. /\ pc' \in {"top", "escalating"} /\ saves' \in {saves, << <<"escalate", "decision">> >>}
      /\ UNCHANGED <<durable, action, repeats, iteration, running, results>>
  BY <1>1 DEF WorkerReports
<1>3. saves = <<>> /\ DOMAIN results = {} /\ action.action = "REPAIR"
  BY <1>1, NothingPlanned DEF Busy
<1>4. ~checkpoint'.recovering
  <2>1. checkpoint' = [checkpoint EXCEPT !.recovering = FALSE]
    BY DEF Reconciled, Worse, Calming, Calm
  <2> QED  BY <2>1 DEF Calming, IInv, Typed, FlowTypeOK
<1>5. Standing \subseteq Standing' /\ (NoneOvertaken' <=> NoneOvertaken)
  BY <1>1, <1>2, StandsStill, SameWork DEF AtWorkPlaces
<1>6. RedCharges' /\ GateWrites' /\ GateFailures'
  <2>1. ASSUME saves' = << <<"escalate", "decision">> >>, NEW j \in 1 .. Len(saves')
        PROVE  /\ saves'[j][1] = "escalate" => saves'[j][2] = "decision"
               /\ saves'[j][1] = "recordFailure" =>
                    saves'[j][2].kind = "gate" /\ saves'[j][2].segment \in Standing'
               /\ \A k : saves'[j] = <<"bumpRepair", k>> => Count(repairs, k) + 1 <= reds'
    <3>1. saves'[j] = <<"escalate", "decision">>  BY <2>1
    <3> QED  BY <3>1
  <2> QED  BY <1>1, <1>2, <1>3, <1>5, <2>1, NothingPlanned, BooksKept DEF Calming, IInv, Ledger, durable
<1>7. Busy'
  <2>1. DOMAIN results' = {}  BY <1>2, <1>3
  <2> QED  BY <1>2, <2>1 DEF Busy, Ended, AtWorkPlaces
<1>8. Answered'
  BY <1>2, <1>3, <1>4 DEF Answered
<1>9. RedRepeats'
  BY <1>1, <1>2, <1>8, NothingPlanned DEF RedRepeats
<1> QED  BY <1>2, <1>5, <1>6, <1>7, <1>9, NothingPlanned DEF CalmParts, durable

\* The place of the loop and the action stay, and so does what transition says of them.
LEMMA BusyStays ==
    ASSUME Busy, UNCHANGED <<repository, pc, action>>,
           \A n \in DOMAIN results' : results'[n] = "DONE" /\ Delivered(n),
           pc = "dispatching" =>
             running' \cup DOMAIN results' \subseteq action.packets /\ running' \cup DOMAIN results' # {},
           pc \notin {"dispatching", "applying"} => DOMAIN results' = {}
    PROVE  Busy'
<1>1. transition' = transition  BY SameTransition
<1>2. /\ \A i : First(i)' <=> First(i)
      /\ \A n : Delivered(n)' <=> Delivered(n)
      /\ \A i : Seg(i)' = Seg(i)
  BY SameProbes DEF repository, Delivered, Seg
<1>3. pc' \in AtWorkPlaces =>
        \E i \in DOMAIN Order : First(i)' /\ Order[i] = action'.segment /\ action'.packets \subseteq Seg(i)
  BY <1>2 DEF Busy
<1>4. \A n \in DOMAIN results' : results'[n] = "DONE" /\ Delivered(n)'
  BY <1>2
<1>5. pc' \in {"acting", "gating"} => action' = transition'
  BY <1>1 DEF Busy
<1> QED  BY <1>3, <1>4, <1>5 DEF Busy

\* A worker that is not to blame delivered its packet.
LEMMA WorkerEndsHeld ==
    ASSUME Calming, NEW n \in Nodes, NEW outcome \in Outcomes, WorkerEnds(n, outcome)
    PROVE  CalmParts'
<1>1. /\ n \in running /\ running' = running \ {n}
      /\ results' = [m \in DOMAIN results \cup {n} |-> IF m = n THEN outcome ELSE results[m]]
      /\ UNCHANGED <<repository, repairs, failures, escalation, leases, pc, action, repeats, saves>>
  BY DEF WorkerEnds
<1>2. pc = "dispatching" /\ saves = <<>>
  BY <1>1, NothingPlanned
<1>3. outcome = "DONE" /\ Delivered(n)
  <2>1. blame' = IF outcome = "DONE" /\ (built[n] = "DONE" \/ n \in handoffs) THEN blame ELSE Worse(blame)
    BY DEF WorkerEnds
  <2> QED  BY <2>1 DEF Worse, Delivered, Calming, Calm
<1>4. Standing \subseteq Standing' /\ (NoneOvertaken' <=> NoneOvertaken)
  BY <1>1, StandsStill, SameWork DEF repository
<1>5. RedCharges' /\ GateWrites' /\ GateFailures'
  BY <1>1, <1>2, <1>4, NothingPlanned, BooksKept DEF Calming, IInv, Ledger
<1>6. Busy'
  <2>1. DOMAIN results' = DOMAIN results \cup {n}  BY <1>1
  <2>2. \A m \in DOMAIN results' : results'[m] = "DONE" /\ Delivered(m)
    BY <1>1, <1>3, NothingPlanned DEF Busy
  <2>3. running' \cup DOMAIN results' = running \cup DOMAIN results  BY <1>1, <2>1
  <2>4. running \cup DOMAIN results \subseteq action.packets /\ running \cup DOMAIN results # {}
    BY <1>2, NothingPlanned DEF Busy
  <2> QED  BY <1>1, <1>2, <2>2, <2>3, <2>4, NothingPlanned, BusyStays
<1>7. RedRepeats'
  BY <1>1, <1>2, NothingPlanned DEF RedRepeats, Calming
<1> QED  BY <1>1, <1>4, <1>5, <1>6, <1>7, NothingPlanned DEF CalmParts

\* What is booked of a packet that was delivered resolves failures only.
LEMMA ApplyResultHeld ==
    ASSUME Calming, NEW n \in Nodes, ApplyResult(n) PROVE CalmParts'
<1>1. /\ pc = "applying" /\ n \in DOMAIN results /\ saves' = WritesFor(n, results[n])
      /\ results' = [m \in DOMAIN results \ {n} |-> results[m]]
      /\ UNCHANGED <<repository, durable, pc, action, repeats, running, history>>
  BY DEF ApplyResult
<1>2. results[n] = "DONE"  BY <1>1, NothingPlanned DEF Busy
<1>3. saves' = << <<"resolveNode", n>> >>
  BY <1>1, <1>2 DEF WritesFor
<1>4. Standing \subseteq Standing' /\ (NoneOvertaken' <=> NoneOvertaken)
  BY <1>1, StandsStill, SameWork DEF repository
<1>5. RedCharges' /\ GateWrites' /\ GateFailures'
  <2>1. ASSUME NEW j \in 1 .. Len(saves') PROVE saves'[j] = <<"resolveNode", n>>
    BY <1>3, <2>1
  <2>2. ASSUME NEW j \in 1 .. Len(saves')
        PROVE  /\ saves'[j][1] = "escalate" => saves'[j][2] = "decision"
               /\ saves'[j][1] = "recordFailure" =>
                    saves'[j][2].kind = "gate" /\ saves'[j][2].segment \in Standing'
               /\ \A k : saves'[j] = <<"bumpRepair", k>> => Count(repairs, k) + 1 <= reds'
    <3>1. saves'[j] = <<"resolveNode", n>>  BY <2>1, <2>2
    <3> QED  BY <3>1
  <2> QED  BY <1>1, <1>4, <2>2, NothingPlanned, BooksKept DEF Calming, IInv, Ledger, durable
<1>6. Busy'
  <2>1. DOMAIN results' \subseteq DOMAIN results /\ \A m \in DOMAIN results' : results'[m] = results[m]
    BY <1>1
  <2>2. \A m \in DOMAIN results' : results'[m] = "DONE" /\ Delivered(m)
    BY <2>1, NothingPlanned DEF Busy
  <2> QED  BY <1>1, <2>2, NothingPlanned, BusyStays
<1>7. RedRepeats'
  <2>1. Answered' <=> Answered  BY <1>1, SameAnswer DEF repository
  <2>2. Answered \/ repeats + 1 <= reds  BY <1>1 DEF Calming, CalmParts, RedRepeats
  <2> QED  BY <1>1, <2>1, <2>2, NothingPlanned DEF RedRepeats, history
<1> QED  BY <1>1, <1>4, <1>5, <1>6, <1>7, NothingPlanned DEF CalmParts, durable

\* The gate that runs is the one owed, and nothing can be built before it.
LEMMA GateStands ==
    ASSUME Busy, pc \in {"acting", "gating"}, action.action \in {"WAVE_GATE", "PHASE_GATE"}
    PROVE  /\ current \in DOMAIN Order /\ Order[current] = action.segment
           /\ Owes(current) /\ Stuck(current)
           /\ action.action = "WAVE_GATE" =>
                action.packets = Uncovered(current) /\ Uncovered(current) # {}
<1>1. /\ action = transition /\ current \in DOMAIN Order /\ current \in Owing /\ First(current)
      /\ Order[current] = action.segment
  BY AtCurrent
<1>2. CASE action.action = "WAVE_GATE"
  <2>1. action.packets = Uncovered(current) /\ Uncovered(current) # {} /\ Stuck(current)
    BY <1>1, <1>2, TransitionShape
  <2> QED  BY <1>1, <2>1 DEF Owes, owesGate
<1>3. CASE action.action = "PHASE_GATE"
  <2>1. Outstanding(current) = {} /\ Stuck(current)  BY <1>1, <1>3, TransitionShape
  <2>2. owesGate(current)  BY <1>1, <2>1 DEF Owing
  <2> QED  BY <1>1, <1>3, <2>1, <2>2 DEF Owes
<1> QED  BY <1>2, <1>3

\* A gate that was red is held within the bound, and stands.
LEMMA HoldHeld ==
    ASSUME Calming, pc \in {"acting", "gating"}, action.action \in {"WAVE_GATE", "PHASE_GATE"},
           Hold, Red, UNCHANGED <<repository, durable, action, repeats, running, results>>
    PROVE  CalmParts'
<1> DEFINE f == Failure("gate", action.segment, NoNode)
           w == <<"recordFailure", f>>
           b == <<"bumpRepair", GateBucket>>
<1>1. pc' = "holding" /\ saves' = <<w, b>> \o Exhausted(GateBucket) /\ reds' = reds + 1
  BY DEF Hold, Red
<1>2. Count(repairs, GateBucket) \in Nat /\ Count(repairs, GateBucket) + 1 <= reds'
  <2>1. Count(repairs, GateBucket) \in Nat /\ Count(repairs, GateBucket) <= reds
    BY Numbers DEF Calming, CalmParts, RedCharges, IInv, Ledger
  <2> QED  BY <1>1, <2>1 DEF Calming
<1>3. Exhausted(GateBucket) = <<>>
  <2>1. reds' <= Bound  BY OptionsAssumption DEF Calming, Calm
  <2>2. ~(Count(repairs, GateBucket) + 1 > Bound)
    BY <1>2, <2>1, OptionsAssumption DEF Calming
  <2> QED  BY <2>2 DEF Exhausted
<1>4. saves' = <<w, b>>
  <2>1. saves' = <<w, b>> \o <<>>  BY <1>1, <1>3
  <2> QED  BY <2>1, ConcatEmptySeq
<1>5. /\ current \in DOMAIN Order /\ Order[current] = action.segment
      /\ Owes(current) /\ Stuck(current)
  BY NothingPlanned, GateStands
<1>6. Standing \subseteq Standing' /\ (NoneOvertaken' <=> NoneOvertaken)
  BY <1>1, StandsStill, SameWork DEF repository, AtWorkPlaces
<1>7. action.segment \in Standing'
  <2>1. PICK i \in DOMAIN Order : Order[i] = action.segment /\ Owes(i) /\ Stuck(i)
    BY <1>5
  <2>2. Owes(i)' /\ Stuck(i)' /\ pc' \notin AtWorkPlaces
    BY <1>1, <2>1, SameProbes, SameWork DEF repository, AtWorkPlaces
  <2> QED  BY <2>1, <2>2 DEF Standing
<1>8. /\ f.kind = "gate" /\ f.segment = action.segment
  BY DEF Failure
<1>9. RedCharges' /\ GateWrites' /\ GateFailures'
  <2>1. ASSUME NEW j \in 1 .. Len(saves') PROVE saves'[j] = w \/ saves'[j] = b
    <3>1. Len(saves') = 2 /\ saves'[1] = w /\ saves'[2] = b  BY <1>4
    <3>2. j = 1 \/ j = 2  BY <2>1, <3>1
    <3> QED  BY <3>1, <3>2
  <2>2. ASSUME NEW j \in 1 .. Len(saves')
        PROVE  /\ saves'[j][1] = "escalate" => saves'[j][2] = "decision"
               /\ saves'[j][1] = "recordFailure" =>
                    saves'[j][2].kind = "gate" /\ saves'[j][2].segment \in Standing'
               /\ \A k : saves'[j] = <<"bumpRepair", k>> => Count(repairs, k) + 1 <= reds'
    <3>1. CASE saves'[j] = w
      <4>1. saves'[j][1] = "recordFailure" /\ saves'[j][2] = f  BY <3>1
      <4>2. \A k : saves'[j] # <<"bumpRepair", k>>  BY <3>1
      <4> HIDE DEF f
      <4> QED  BY <1>7, <1>8, <4>1, <4>2
    <3>2. CASE saves'[j] = b
      <4>1. saves'[j][1] = "bumpRepair" /\ \A k : saves'[j] = <<"bumpRepair", k>> => k = GateBucket
        BY <3>2
      <4> QED  BY <1>2, <4>1
    <3> QED  BY <2>1, <2>2, <3>1, <3>2
  <2> QED
    BY <1>1, <1>6, <2>2, NothingPlanned, BooksKept DEF Calming, IInv, Ledger, durable
<1>10. Busy'
  <2>1. DOMAIN results' = {}  BY NothingPlanned DEF Busy
  <2> QED  BY <1>1, <2>1 DEF Busy, Ended, AtWorkPlaces
<1>11. RedRepeats'
  BY <1>1, NothingPlanned DEF RedRepeats, Calming
<1> QED  BY <1>6, <1>9, <1>10, <1>11, NothingPlanned DEF CalmParts, durable

\* Every failure is a hold of the gate that runs, and its packets are still done: a gate
\* worker that is satisfied is not overruled.
LEMMA NothingBlocks == ASSUME Calming, pc = "gating" PROVE Judged
<1>1. action.action \in {"WAVE_GATE", "PHASE_GATE"}
  BY DEF Calming, IInv, Placed
<1>2. /\ current \in DOMAIN Order /\ Order[current] = action.segment
      /\ action.action = "WAVE_GATE" => action.packets = Uncovered(current)
  BY <1>1, NothingPlanned, GateStands
<1>3. ASSUME NEW f \in failures PROVE f.kind = "gate" /\ f.segment = action.segment
  <2>1. f.kind = "gate" /\ f.segment \in Standing
    BY DEF Calming, CalmParts, GateFailures
  <2>2. PICK i \in DOMAIN Order : Order[i] = f.segment /\ Owes(i)
    BY <2>1 DEF Standing
  <2>3. i = current  BY <2>2, CurrentFirst DEF Owes
  <2> QED  BY <1>2, <2>1, <2>2, <2>3
<1>4. failuresBlockingGate(action.segment) = {}
  BY <1>3 DEF failuresBlockingGate
<1>5. MayRecord(GateKind, action.packets)
  <2>1. CASE action.action = "PHASE_GATE"
    BY <2>1 DEF MayRecord, GateKind
  <2>2. CASE action.action = "WAVE_GATE"
    <3>1. \A n \in action.packets : built[n] = "DONE"
      BY <1>2, <2>2 DEF Uncovered, Outstanding
    <3> QED  BY <3>1 DEF MayRecord, unrecordablePackets
  <2> QED  BY <1>1, <2>1, <2>2
<1> QED  BY <1>4, <1>5 DEF Judged

\* A gate that is recorded is not asked for again.
LEMMA GateRecordedHeld == ASSUME Calming, GateRecorded PROVE CalmParts'
<1>1. /\ pc = "gating" /\ pc' = "recorded"
      /\ records' = records \cup {GateRecord(GateKind, action.segment, action.packets)}
      /\ saves' = << <<"resolveGate", action.segment>> >>
      /\ UNCHANGED <<built, undecided, broken, handoffs, checkpoint, durable,
                     action, repeats, iteration, running, results, history>>
  BY DEF GateRecorded
<1>2. action.action \in {"WAVE_GATE", "PHASE_GATE"}
  BY <1>1 DEF Calming, IInv, Placed
<1>3. /\ current \in DOMAIN Order /\ Order[current] = action.segment
      /\ action.action = "WAVE_GATE" => action.packets = Uncovered(current) /\ Uncovered(current) # {}
  BY <1>1, <1>2, NothingPlanned, GateStands
<1>4. NoneOvertaken'
  BY <1>1, NothingPlanned DEF NoneOvertaken, laterWorkStarted, Outstanding, Seg
<1>5. \A j \in 1 .. Len(saves') : saves'[j] = <<"resolveGate", action.segment>>
  BY <1>1
<1>6. RedCharges'
  <2>1. \A k : Count(repairs, k) <= reds  BY DEF Calming, CalmParts, RedCharges
  <2>2. \A k : \A j \in 1 .. Len(saves') : saves'[j] # <<"bumpRepair", k>>
    <3>1. \A k : <<"resolveGate", action.segment>> # <<"bumpRepair", k>>  OBVIOUS
    <3> QED  BY <1>5, <3>1
  <2>3. repairs' = repairs /\ reds' = reds  BY <1>1 DEF durable, history
  <2> QED  BY <2>1, <2>2, <2>3 DEF RedCharges
<1>7. GateWrites'
  <2>1. \A j \in 1 .. Len(saves') : saves'[j][1] = "resolveGate"
    <3>1. <<"resolveGate", action.segment>>[1] = "resolveGate"  OBVIOUS
    <3> QED  BY <1>5, <3>1
  <2>2. action' = action /\ escalation' = escalation  BY <1>1 DEF durable
  <2> QED  BY <1>1, <2>1, <2>2, NothingPlanned DEF GateWrites
<1>8. GateFailures'
  <2>1. Judged  BY <1>1, NothingBlocks
  <2>2. \A f \in failures : f.kind = "gate" /\ f.segment = action.segment
    BY <2>1 DEF Judged, failuresBlockingGate
  <2>3. saves' # <<>>  BY <1>1
  <2> QED  BY <1>1, <2>2, <2>3 DEF GateFailures, durable
<1>9. Busy'
  <2>1. DOMAIN results' = {}  BY <1>1, NothingPlanned DEF Busy
  <2> QED  BY <1>1, <2>1 DEF Busy, Ended, AtWorkPlaces
<1>10. Answered'
  <2> DEFINE r == GateRecord(GateKind, action.segment, action.packets)
  <2>1. r \in records' /\ action' = action  BY <1>1
  <2>2. r.gate = GateKind /\ r.segment = action.segment /\ r.packets = action.packets
    BY DEF GateRecord
  <2> HIDE DEF r
  <2>3. CASE action.action = "WAVE_GATE"
    <3>1. PICK n \in action.packets : TRUE  BY <1>3, <2>3
    <3>2. r.gate = "wave"  BY <2>2, <2>3 DEF GateKind
    <3>3. n \in waveCoveredIn(action.segment)'  BY <2>1, <2>2, <3>1, <3>2 DEF waveCoveredIn
    <3> QED  BY <2>1, <2>3, <3>1, <3>3 DEF Answered
  <2>4. CASE action.action = "PHASE_GATE"
    <3>1. r.gate = "phase"  BY <2>2, <2>4 DEF GateKind
    <3>2. phaseGated(action.segment)'  BY <2>1, <2>2, <3>1 DEF phaseGated
    <3> QED  BY <2>1, <2>4, <3>2 DEF Answered
  <2> QED  BY <1>2, <2>3, <2>4
<1>11. RedRepeats'
  BY <1>1, <1>10, NothingPlanned DEF RedRepeats, history
<1> QED  BY <1>1, <1>4, <1>6, <1>7, <1>8, <1>9, <1>11, NothingPlanned DEF CalmParts, durable

LEMMA GatesHeld ==
    ASSUME Calming, GateCommand \/ GateWorkerRed \/ GateRecorded \/ GateRefused
    PROVE  CalmParts'
<1>1. CASE GateCommand
  <2>1. /\ pc = "acting" /\ action.action \in {"WAVE_GATE", "PHASE_GATE"}
        /\ UNCHANGED <<repository, durable, action, repeats, running, results>>
        /\ (pc' = "gating" /\ saves' = saves) \/ (Hold /\ Red)
    BY <1>1 DEF GateCommand, Acting
  <2>2. CASE Hold /\ Red
    BY <2>1, <2>2, HoldHeld
  <2>3. CASE pc' = "gating" /\ saves' = saves
    <3>1. DOMAIN results = {}  BY <2>1, NothingPlanned DEF Busy
    <3> QED  BY <2>1, <2>3, <3>1, NothingPlanned, MoveHeld DEF durable, Ended, AtWorkPlaces
  <2> QED  BY <2>1, <2>2, <2>3
<1>2. CASE GateWorkerRed
  <2>1. action.action \in {"WAVE_GATE", "PHASE_GATE"}
    BY <1>2 DEF GateWorkerRed, Calming, IInv, Placed
  <2> QED  BY <1>2, <2>1, HoldHeld DEF GateWorkerRed
<1>3. CASE GateRecorded  BY <1>3, GateRecordedHeld
<1>4. CASE GateRefused  BY <1>4, NothingBlocks DEF GateRefused
<1> QED  BY <1>1, <1>2, <1>3, <1>4

\* A write books what was planned.
LEMMA SaveHeld == ASSUME Calming, Save PROVE CalmParts'
<1> DEFINE w == Head(saves)
<1>1. /\ saves # <<>> /\ saves \in Seq(Writes) /\ Len(saves) >= 1 /\ Len(saves) \in Nat
      /\ w = saves[1] /\ w \in Writes
  <2>1. saves \in Seq(Writes) /\ saves # <<>>  BY DEF Save, Calming, IInv, Typed
  <2>2. Len(saves) \in Nat /\ Len(saves) # 0  BY <2>1
  <2> QED  BY <2>1, <2>2
<1>2. /\ 1 \in 1 .. Len(saves)
      /\ w[1] = "escalate" => w[2] = "decision"
      /\ w[1] = "recordFailure" => w[2].kind = "gate" /\ w[2].segment \in Standing
      /\ pc = "recorded" => saves = << <<"resolveGate", action.segment>> >>
  BY <1>1 DEF Calming, CalmParts, GateWrites
<1>3. pc = "recorded" => w[1] = "resolveGate" /\ w[2] = action.segment /\ Len(saves) = 1
  <2> SUFFICES ASSUME pc = "recorded"
               PROVE  w[1] = "resolveGate" /\ w[2] = action.segment /\ Len(saves) = 1
    OBVIOUS
  <2>1. saves = << <<"resolveGate", action.segment>> >>  BY <1>2
  <2>2. w = <<"resolveGate", action.segment>> /\ Len(saves) = 1  BY <1>1, <2>1
  <2> QED  BY <2>2
<1>4. CASE w[1] = "escalate"
  <2>1. /\ pc # "recorded" /\ Ends("ESCALATED") /\ escalation' # "repairs"
        /\ UNCHANGED <<repository, failures, repairs, leases>>
    BY <1>2, <1>3, <1>4 DEF Save
  <2> QED  BY <2>1, EndHeld DEF Ended
<1>5. CASE w[1] # "escalate"
  <2>1. /\ saves' = Tail(saves)
        /\ UNCHANGED <<repository, leases, history, escalation, pc, action, repeats, running, results>>
        /\ repairs' = IF w[1] = "bumpRepair" THEN Bump(repairs, w[2]) ELSE repairs
        /\ failures' = CASE w[1] = "recordFailure" -> failures \cup {w[2]}
                         [] w[1] = "resolveNode" -> {f \in failures : f.node # w[2]}
                         [] w[1] = "resolveGate" -> {f \in failures : f.kind # "gate" \/ f.segment # w[2]}
                         [] OTHER -> failures
    BY <1>5 DEF Save
  <2>2. /\ Len(saves') = Len(saves) - 1
        /\ \A j \in 1 .. Len(saves') : j + 1 \in 1 .. Len(saves) /\ saves'[j] = saves[j + 1]
    BY <1>1, <2>1
  <2> HIDE DEF w
  <2>3. Standing \subseteq Standing' /\ (NoneOvertaken' <=> NoneOvertaken)
    BY <2>1, StandsStill, SameWork DEF repository
  <2>4. reds' = reds  BY <2>1 DEF history
  <2>5. RedCharges'
    <3>1. \A k : /\ Count(repairs, k) <= reds
                 /\ \A j \in 1 .. Len(saves) : saves[j] = <<"bumpRepair", k>> => Count(repairs, k) + 1 <= reds
      BY DEF Calming, CalmParts, RedCharges
    <3>2. CASE w[1] # "bumpRepair"
      <4>1. repairs' = repairs  BY <2>1, <3>2
      <4>2. \A k : Count(repairs, k)' = Count(repairs, k)  BY <4>1 DEF Count
      <4>3. ASSUME NEW k, NEW j \in 1 .. Len(saves'), saves'[j] = <<"bumpRepair", k>>
            PROVE  Count(repairs, k) + 1 <= reds
        BY <2>2, <3>1, <4>3
      <4> QED  BY <2>4, <3>1, <4>2, <4>3 DEF RedCharges
    <3>3. CASE w[1] = "bumpRepair"
      <4>1. PICK k : w = <<"bumpRepair", k>>  BY <1>1, <3>3 DEF Writes
      <4>2. repairs' = Bump(repairs, k)  BY <2>1, <3>3, <4>1
      <4>3. Count(repairs, k) + 1 <= reds  BY <1>1, <1>2, <3>1, <4>1
      <4>4. /\ Count(repairs', k) = Count(repairs, k) + 1
            /\ \A j : j # k => Count(repairs', j) = Count(repairs, j)
        BY <4>2, BumpAdds DEF Calming, IInv, Ledger, Counters
      <4>5. \A j : Count(repairs', j) <= reds  BY <3>1, <4>3, <4>4
      <4>6. ASSUME NEW l, NEW j \in 1 .. Len(saves'), saves'[j] = <<"bumpRepair", l>> PROVE FALSE
        <5>1. j + 1 \in 1 .. Len(saves) /\ saves[j + 1][1] = "bumpRepair" /\ saves[1][1] = "bumpRepair"
          BY <1>1, <2>2, <3>3, <4>6
        <5>2. j + 1 = 1  BY <1>1, <5>1 DEF Calming, IInv, Ledger, Sound
        <5> QED  BY <4>6, <5>2
      <4>7. \A j : Count(repairs, j)' = Count(repairs', j)  BY DEF Count
      <4> QED  BY <2>4, <4>5, <4>6, <4>7 DEF RedCharges
    <3> QED  BY <3>2, <3>3
  <2>6. GateWrites'
    <3>1. pc' = "recorded" => saves' = <<>>
      <4> SUFFICES ASSUME pc = "recorded" PROVE saves' = <<>>  BY <2>1
      <4>1. Len(saves') = 0 /\ saves' \in Seq(Writes)  BY <1>1, <1>3, <2>1, <2>2
      <4> QED  BY <4>1, EmptySeq
    <3>2. ASSUME NEW j \in 1 .. Len(saves')
          PROVE  /\ saves'[j][1] = "escalate" => saves'[j][2] = "decision"
                 /\ saves'[j][1] = "recordFailure" =>
                      saves'[j][2].kind = "gate" /\ saves'[j][2].segment \in Standing'
      <4>1. j + 1 \in 1 .. Len(saves) /\ saves'[j] = saves[j + 1]  BY <2>2
      <4> QED  BY <2>3, <4>1 DEF Calming, CalmParts, GateWrites
    <3> QED  BY <2>1, <3>1, <3>2, NothingPlanned DEF GateWrites
  <2>7. GateFailures'
    <3>1. /\ \A f \in failures : f.kind = "gate"
          /\ pc # "recorded" => \A f \in failures : f.segment \in Standing'
          /\ \A f \in failures : f.segment \in Standing' \/ f.segment = action.segment
      BY <2>3 DEF Calming, CalmParts, GateFailures
    <3>2. CASE w[1] = "resolveGate"
      <4>1. failures' = {f \in failures : f.kind # "gate" \/ f.segment # w[2]}  BY <2>1, <3>2
      <4>2. \A f \in failures' : f \in failures /\ f.segment # w[2]  BY <3>1, <4>1
      <4>3. \A f \in failures' : f.segment \in Standing'  BY <1>3, <3>1, <4>2
      <4> QED  BY <3>1, <4>2, <4>3 DEF GateFailures
    <3>3. CASE w[1] = "recordFailure"
      <4>1. failures' = failures \cup {w[2]} /\ pc # "recorded"  BY <1>3, <2>1, <3>3
      <4> QED  BY <1>2, <2>3, <3>1, <3>3, <4>1 DEF GateFailures
    <3>4. CASE w[1] \notin {"resolveGate", "recordFailure"}
      <4>1. failures' \subseteq failures /\ pc # "recorded"  BY <1>3, <2>1, <3>4
      <4> QED  BY <3>1, <4>1 DEF GateFailures
    <3> QED  BY <3>2, <3>3, <3>4
  <2>8. Busy'
    BY <2>1, NothingPlanned, BusyStays DEF Busy
  <2>9. RedRepeats'
    <3>1. Answered' <=> Answered  BY <2>1, SameAnswer DEF repository
    <3> QED  BY <2>1, <2>4, <3>1 DEF Calming, CalmParts, RedRepeats
  <2> QED  BY <2>1, <2>3, <2>5, <2>6, <2>7, <2>8, <2>9, NothingPlanned DEF CalmParts
<1> QED  BY <1>4, <1>5

\* Packets are built in the segment their worker was sent for.
LEMMA WorkerBuildsHeld == ASSUME Calming, NEW n \in Nodes, WorkerBuilds(n) PROVE CalmParts'
<1>1. /\ n \in running /\ built[n] # "DONE"
      /\ \/ built' = [built EXCEPT ![n] = "DONE"] /\ UNCHANGED handoffs
         \/ built[n] = "TODO" /\ built' = [built EXCEPT ![n] = "PARTIAL"] /\ UNCHANGED handoffs
         \/ handoffs' = handoffs \cup {n} /\ UNCHANGED built
      /\ UNCHANGED <<undecided, broken, records, checkpoint, durable, history>>
      /\ UNCHANGED <<pc, action, repeats, running, results, saves>>
  BY DEF WorkerBuilds, process
<1>2. pc = "dispatching" /\ saves = <<>>  BY <1>1, NothingPlanned
<1>3. PICK i \in DOMAIN Order : First(i) /\ Order[i] = action.segment /\ action.packets \subseteq Seg(i)
  BY <1>2, NothingPlanned DEF Busy, AtWorkPlaces
<1>4. n \in Seg(i)
  BY <1>1, <1>2, <1>3, NothingPlanned DEF Busy
<1>5. FlowTypeOK /\ built \in [Nodes -> NodeStates]
  BY DEF Calming, IInv, Typed, FlowTypeOK
<1>6. /\ \A m \in Nodes \ Seg(i) : built'[m] = built[m]
      /\ \A m \in Nodes : \/ built'[m] = built[m] \/ built'[m] = "DONE"
                          \/ built[m] = "TODO" /\ built'[m] = "PARTIAL"
  BY <1>1, <1>4, <1>5
<1>7. /\ First(i)' /\ NoneOvertaken'
      /\ \A k \in DOMAIN Order : Owes(k) /\ Unclosable(k) => Owes(k)' /\ Unclosable(k)'
  BY <1>1, <1>3, <1>5, <1>6, NothingPlanned, WorkInFront
<1>8. Standing \subseteq Standing'
  BY <1>2, <1>7 DEF Standing, AtWorkPlaces
<1>9. RedCharges' /\ GateWrites' /\ GateFailures'
  BY <1>1, <1>2, <1>8, NothingPlanned, BooksKept DEF Calming, IInv, Ledger, durable
<1>10. Busy'
  <2>1. \A m \in Nodes : Delivered(m) => Delivered(m)'
    BY <1>1, <1>5 DEF Delivered
  <2>2. \A m \in DOMAIN results : m \in Nodes /\ results[m] = "DONE" /\ Delivered(m)
    BY NothingPlanned DEF Calming, IInv, Typed, Busy
  <2>3. \A m \in DOMAIN results' : results'[m] = "DONE" /\ Delivered(m)'
    BY <1>1, <2>1, <2>2
  <2>4. \E k \in DOMAIN Order : First(k)' /\ Order[k] = action'.segment /\ action'.packets \subseteq Seg(k)'
    <3>1. Seg(i)' = Seg(i)  BY DEF Seg
    <3> QED  BY <1>1, <1>3, <1>7, <3>1
  <2> QED  BY <1>1, <1>2, <2>3, <2>4, NothingPlanned DEF Busy, Ended
<1>11. RedRepeats'
  BY <1>1, <1>2, NothingPlanned DEF RedRepeats, history
<1> QED  BY <1>1, <1>7, <1>9, <1>10, <1>11, NothingPlanned DEF CalmParts, durable

\* A decision opens no packet in a segment that history could close.
LEMMA DecideHeld == ASSUME Calming, Decide PROVE CalmParts'
<1>1. /\ pc = "ESCALATED" /\ undecided' = {}
      /\ UNCHANGED <<built, handoffs, records, checkpoint, durable, history>>
      /\ UNCHANGED <<pc, action, repeats, running, results, saves>>
  BY DEF Decide, process
<1>2. saves = <<>> /\ DOMAIN results = {}
  BY <1>1, NothingPlanned DEF Busy
<1>3. NoneOvertaken'
  BY <1>1 DEF NoneOvertaken
<1>4. /\ \A i : /\ Owes(i)' <=> Owes(i)
                /\ Unclosable(i)' <=> Unclosable(i)
                /\ Outstanding(i)' = Outstanding(i)
                /\ Uncovered(i)' = Uncovered(i)
  BY <1>1, SameProbes
<1>5. Standing \subseteq Standing'
  <2> SUFFICES ASSUME NEW s \in Standing PROVE s \in Standing'  OBVIOUS
  <2>1. PICK i \in DOMAIN Order :
          Order[i] = s /\ Owes(i) /\ (Unclosable(i) \/ (pc \notin AtWorkPlaces /\ Stuck(i)))
    BY DEF Standing
  <2>2. CASE Unclosable(i)
    BY <1>4, <2>1, <2>2 DEF Standing
  <2>3. CASE ~Unclosable(i)
    <3>1. undecided \cap Outstanding(i) = {}
      BY <2>3, NothingPlanned DEF Unclosable, NoneOvertaken
    <3>2. \A n \in Outstanding(i) : Ready(n)' => Ready(n)
      BY <1>1, <3>1 DEF Ready
    <3>3. \A n : dependsOn(n, Uncovered(i))' <=> dependsOn(n, Uncovered(i))
      BY <1>4 DEF dependsOn, Upstream
    <3>4. Dispatchable(i)' \subseteq Dispatchable(i)
      BY <1>4, <3>2, <3>3 DEF Dispatchable
    <3>5. integratable(i)' = integratable(i)
      BY <1>1, <1>4 DEF integratable
    <3>6. Stuck(i)'
      BY <2>1, <2>3, <3>4, <3>5 DEF Stuck
    <3> QED  BY <1>1, <1>4, <2>1, <3>6 DEF Standing, AtWorkPlaces
  <2> QED  BY <2>2, <2>3
<1>6. RedCharges' /\ GateWrites' /\ GateFailures'
  BY <1>1, <1>2, <1>5, NothingPlanned, BooksKept DEF Calming, IInv, Ledger, durable
<1>7. Busy'
  <2>1. DOMAIN results' = {} /\ action' = NoAction  BY <1>1, <1>2, NothingPlanned DEF Busy, Ended
  <2> QED  BY <1>1, <2>1 DEF Busy, Ended, AtWorkPlaces
<1>8. RedRepeats'
  BY <1>1, NothingPlanned DEF RedRepeats, history
<1> QED  BY <1>1, <1>3, <1>6, <1>7, <1>8, NothingPlanned DEF CalmParts, durable

LEMMA EnvironmentHeld == ASSUME Calming, Environment PROVE CalmParts'
<1>1. CASE Start
  <2>1. /\ pc \in Ended /\ pc' = "top" /\ escalation' \in {escalation, "none"}
        /\ UNCHANGED <<repository, failures, repairs, leases, action, repeats, running, results, saves>>
    BY <1>1 DEF Start
  <2>2. Answered /\ DOMAIN results = {}
    BY <2>1, NothingPlanned DEF Answered, Busy, Ended
  <2>3. pc # "recorded"  BY <2>1 DEF Ended
  <2> QED  BY <2>1, <2>2, <2>3, NothingPlanned, MoveHeld DEF Ended, AtWorkPlaces
<1>2. CASE RequestStop
  <2>1. /\ pc = "top" /\ pc' = "top"
        /\ UNCHANGED <<repository, failures, repairs, leases, escalation, action, repeats, running,
                       results, saves>>
    BY <1>2 DEF RequestStop, process
  <2>2. (Answered \/ repeats + 1 <= reds) /\ DOMAIN results = {}
    BY <2>1, NothingPlanned DEF Calming, CalmParts, RedRepeats, Busy
  <2> QED  BY <2>1, <2>2, NothingPlanned, MoveHeld DEF Ended, AtWorkPlaces
<1>3. CASE LeaseExpires
  BY <1>3, NothingPlanned DEF LeaseExpires
<1>4. CASE Crash \/ \E n \in Nodes : Regress(n)
  BY <1>4 DEF Crash, Regress, Calming, Calm
<1>5. CASE Decide  BY <1>5, DecideHeld
<1>6. ASSUME NEW n \in Nodes, WorkerBuilds(n) PROVE CalmParts'
  BY <1>6, WorkerBuildsHeld
<1> QED  BY <1>1, <1>2, <1>3, <1>4, <1>5, <1>6 DEF Environment

LEMMA LoopHeld == ASSUME Calming, Loop, Bound < NoProgressLimit PROVE CalmParts'
<1>1. ASSUME WorkerEnding PROVE CalmParts'
  BY <1>1, WorkerEndsHeld DEF WorkerEnding
<1>2. ASSUME NEW n \in Nodes, ApplyResult(n) PROVE CalmParts'
  BY <1>2, ApplyResultHeld
<1> QED
  BY <1>1, <1>2, SaveHeld, StopHeld, DeriveHeld, LoopMovesHeld, AdvanceHeld, IntegratedHeld,
     ReconciledHeld, DispatchHeld, GatesHeld DEF Loop

LEMMA StutterHeld == ASSUME Calming, UNCHANGED vars PROVE CalmParts'
<1>1. /\ UNCHANGED <<repository, durable, history>>
      /\ UNCHANGED <<pc, action, repeats, running, results, saves>>
  BY DEF vars, process
<1>2. Standing \subseteq Standing' /\ (NoneOvertaken' <=> NoneOvertaken)
  BY <1>1, StandsStill, SameWork DEF repository
<1>3. RedCharges'
  BY <1>1 DEF Calming, CalmParts, RedCharges, Count, durable, history
<1>4. GateWrites'
  BY <1>1, <1>2 DEF Calming, CalmParts, GateWrites, durable
<1>5. GateFailures'
  BY <1>1, <1>2 DEF Calming, CalmParts, GateFailures, durable
<1>6. Busy'
  BY <1>1, NothingPlanned, BusyStays DEF Busy
<1>7. Answered' <=> Answered  BY <1>1, SameAnswer DEF repository
<1>8. RedRepeats'
  BY <1>1, <1>7 DEF Calming, CalmParts, RedRepeats, history
<1> QED  BY <1>1, <1>2, <1>3, <1>4, <1>5, <1>6, <1>8, NothingPlanned DEF CalmParts, durable

LEMMA HeldInitially == ASSUME OrderlyStart, Init PROVE HeldInv
<1>1. PICK r \in Repositories : built = r.built /\ undecided = r.undecided
  BY DEF Init
<1>2. NoneOvertaken
  <2> SUFFICES ASSUME NEW i \in DOMAIN Order, laterWorkStarted(i),
                      NEW n \in undecided \cap Outstanding(i)
               PROVE  FALSE
    BY DEF NoneOvertaken
  <2>1. PICK j \in DOMAIN Order : j > i /\ \E m \in Seg(j) : built[m] # "TODO"
    BY DEF laterWorkStarted
  <2>2. PICK m \in Seg(j) : built[m] # "TODO"  BY <2>1
  <2>3. i < j  BY <2>1, Positions
  <2>4. /\ n \in Nodes /\ SegmentOf[n] = Order[i] /\ built[n] # "DONE" /\ n \in undecided
        /\ m \in Nodes /\ SegmentOf[m] = Order[j]
    BY <2>2 DEF Outstanding, Seg
  <2>5. r.built[m] = "TODO"  BY <1>1, <2>3, <2>4 DEF OrderlyStart
  <2> QED  BY <1>1, <2>2, <2>5
<1>3. /\ leases = {} /\ failures = {} /\ repairs = <<>> /\ saves = <<>> /\ results = <<>>
      /\ escalation = "none" /\ pc = "idle" /\ action = NoAction /\ repeats = 0 /\ reds = 0
  BY DEF Init
<1>4. DOMAIN results = {} /\ 1 .. Len(saves) = {}
  BY <1>3
<1>5. Busy
  BY <1>3, <1>4 DEF Busy, Ended, AtWorkPlaces
<1>6. RedRepeats
  BY <1>3 DEF RedRepeats
<1>7. RedCharges
  <2>1. \A k : Count(repairs, k) = 0
    <3>1. DOMAIN repairs = {}  BY <1>3
    <3> QED  BY <3>1 DEF Count
  <2> QED  BY <1>3, <1>4, <2>1 DEF RedCharges
<1>8. GateWrites /\ GateFailures
  BY <1>3, <1>4 DEF GateWrites, GateFailures
<1> QED  BY <1>2, <1>3, <1>5, <1>6, <1>7, <1>8 DEF HeldInv, CalmParts

LEMMA HeldInductive ==
    ASSUME IInv, HeldInv, [Next]_vars, Bound < NoProgressLimit PROVE HeldInv'
<1>1. reds \in Nat /\ reds' \in Nat /\ reds <= reds' /\ (blame' = "gates" => blame = "gates")
  BY CalmBefore DEF HeldInv
<1>2. ASSUME Calm' PROVE CalmParts'
  <2>1. reds' <= Bound /\ blame' = "gates"  BY <1>2, OptionsAssumption DEF Calm
  <2>2. reds <= Bound  BY <1>1, <2>1, OptionsAssumption
  <2>3. Calm  BY <1>1, <2>1, <2>2 DEF Calm
  <2>4. Calming  BY <1>1, <1>2, <2>3 DEF Calming, HeldInv
  <2> QED  BY <2>4, LoopHeld, EnvironmentHeld, StutterHeld DEF Next
<1> QED  BY <1>1, <1>2 DEF HeldInv

(***************************************************************************)
(* Gates that are red no more often than the repair bound allows, with     *)
(* nothing else going wrong, never reach a human over repairs (handleGate, *)
(* failuresBlockingGate, gateScope): a hold blocks no gate but its own,    *)
(* which stays the next to pass, and every attempt charged was a red gate. *)
(* That takes a repair bound below the no-progress limit, or a gate that   *)
(* comes back red is given up first and its failure never resolved, and a  *)
(* delivery in which no packet of an overtaken segment awaits a decision,  *)
(* or history closes that segment with its gate's failure unresolved.      *)
(***************************************************************************)
THEOREM HeldGatesRecover ==
    ASSUME Bound < NoProgressLimit, OrderlyStart
    PROVE  Spec => []HeldGateRecovers
<1>1. Init => HeldInv  BY HeldInitially
<1>2. IInv /\ HeldInv /\ [Next]_vars => HeldInv'  BY HeldInductive
<1>3. HeldInv => HeldGateRecovers
  <2> SUFFICES ASSUME HeldInv, escalation = "repairs", blame = "gates" PROVE reds > Bound
    BY DEF HeldGateRecovers
  <2>1. ~Calm  BY DEF HeldInv, CalmParts, GateWrites
  <2> QED  BY <2>1, OptionsAssumption DEF Calm, HeldInv
<1> QED  BY <1>1, <1>2, <1>3, Invariance, PTL DEF Spec

-----------------------------------------------------------------------------
(* Every run ends                                                          *)
(*                                                                         *)
(* The repository only ever gets further: each change of it adds to what   *)
(* was achieved.  While it does not change the same action is derived, and *)
(* that is given up after NoProgressLimit repetitions.                     *)

Begun == {n \in Nodes : built[n] # "TODO"}

Finished == {n \in Nodes : built[n] = "DONE"}

Covered == {n \in Nodes : n \in waveCoveredIn(SegmentOf[n])}

Gated == {j \in DOMAIN Order : phaseGated(Order[j])}

\* The segments up to the one the checkpoint names.
Reached == {j \in DOMAIN Order : \E i \in DOMAIN Order : j <= i /\ checkpoint.segment = Order[i]}

NodeGoals == {"begun", "finished", "handed over", "covered"}

SegmentGoals == {"gated", "reached"}

Achievable == (NodeGoals \X Nodes) \cup (SegmentGoals \X DOMAIN Order) \cup {<<"recovered", 0>>}

Achieved ==
    {p \in Achievable :
        \/ p[1] = "begun" /\ p[2] \in Begun
        \/ p[1] = "finished" /\ p[2] \in Finished
        \/ p[1] = "handed over" /\ p[2] \in handoffs
        \/ p[1] = "covered" /\ p[2] \in Covered
        \/ p[1] = "gated" /\ p[2] \in Gated
        \/ p[1] = "reached" /\ p[2] \in Reached
        \/ p[1] = "recovered" /\ ~checkpoint.recovering}

\* A packet that a worker breaks was finished, and will have to be again.
Progress == Cardinality(Achieved) + 2 * regressions

\* What is done is what was asked for: it has not been done before.
Asked ==
    /\ pc = "acting" => action = transition
    /\ pc = "gating" /\ action.action = "WAVE_GATE" =>
         /\ action.packets # {}
         /\ \A n \in action.packets : SegmentOf[n] = action.segment /\ n \notin waveCoveredIn(action.segment)
    /\ pc = "gating" /\ action.action = "PHASE_GATE" => ~phaseGated(action.segment)
    /\ pc = "reconcile" => checkpoint.recovering
    /\ pc \in Ended => iteration = 0

\* Every iteration repeats one that is counted in repeats, or followed some progress.
Paid ==
    \/ iteration = 0
    \/ action = transition /\ iteration <= NoProgressLimit * Progress + repeats + 1
    \/ iteration + NoProgressLimit <= NoProgressLimit * Progress + repeats + 1

EndInv == iteration \in Nat /\ regressions \in 0 .. MaxRegressions /\ Asked /\ Paid

\* The iterations of a run at most.
LongestRun ==
    NoProgressLimit * (4 * Cardinality(Nodes) + 2 * Len(Order) + 2 * MaxRegressions + 2) + 1

LEMMA OneMore ==
    ASSUME NEW S, NEW x, NEW n \in Nat, IsFiniteSet(S), Cardinality(S) = n, x \notin S
    PROVE  IsFiniteSet(S \cup {x}) /\ Cardinality(S \cup {x}) = n + 1
BY FS_AddElement

LEMMA GoalCount ==
    /\ IsFiniteSet(NodeGoals) /\ Cardinality(NodeGoals) = 4
    /\ IsFiniteSet(SegmentGoals) /\ Cardinality(SegmentGoals) = 2
<1> DEFINE A == {"begun"}
           B == A \cup {"finished"}
           C == B \cup {"handed over"}
           D == C \cup {"covered"}
           E == {"gated"}
           F == E \cup {"reached"}
<1>1. IsFiniteSet(A) /\ Cardinality(A) = 1 /\ IsFiniteSet(E) /\ Cardinality(E) = 1  BY FS_Singleton
<1>2. "finished" \notin A /\ "handed over" \notin B /\ "covered" \notin C /\ "reached" \notin E  OBVIOUS
<1>3. D = NodeGoals /\ F = SegmentGoals  BY DEF NodeGoals, SegmentGoals
<1> HIDE DEF A, E
<1>4. IsFiniteSet(B) /\ Cardinality(B) = 1 + 1  BY <1>1, <1>2, OneMore
<1>5. IsFiniteSet(F) /\ Cardinality(F) = 1 + 1  BY <1>1, <1>2, OneMore
<1> HIDE DEF B, F
<1>6. IsFiniteSet(C) /\ Cardinality(C) = 2 + 1
  <2>1. Cardinality(B) = 2  BY <1>4
  <2> QED  BY <1>2, <1>4, <2>1, OneMore
<1> HIDE DEF C
<1>7. IsFiniteSet(D) /\ Cardinality(D) = 3 + 1
  <2>1. Cardinality(C) = 3  BY <1>6
  <2> QED  BY <1>2, <1>6, <2>1, OneMore
<1> HIDE DEF D
<1>8. IsFiniteSet(D) /\ Cardinality(D) = 4 /\ IsFiniteSet(F) /\ Cardinality(F) = 2  BY <1>5, <1>7
<1> QED  BY <1>3, <1>8, Zenon

LEMMA ProductSize ==
    ASSUME NEW S, NEW T, NEW m \in Nat, NEW n \in Nat, IsFiniteSet(S), IsFiniteSet(T),
           Cardinality(S) = m, Cardinality(T) = n
    PROVE  IsFiniteSet(S \X T) /\ Cardinality(S \X T) = m * n
BY FS_Product

\* There is only so much to achieve.
LEMMA AchievableIsFinite ==
    /\ IsFiniteSet(Achievable)
    /\ Cardinality(Achievable) \in Nat
    /\ Cardinality(Nodes) \in Nat /\ Len(Order) \in Nat
    /\ Cardinality(Achievable) <= 4 * Cardinality(Nodes) + 2 * Len(Order) + 1
<1> DEFINE P == NodeGoals \X Nodes
           Q == SegmentGoals \X DOMAIN Order
           R == {<<"recovered", 0>>}
<1>1. IsFiniteSet(Nodes) /\ Cardinality(Nodes) \in Nat
  BY GraphAssumption, FS_CardinalityType
<1>2. Len(Order) \in Nat /\ IsFiniteSet(DOMAIN Order) /\ Cardinality(DOMAIN Order) = Len(Order)
  <2>1. Len(Order) \in Nat /\ DOMAIN Order = 1 .. Len(Order)  BY GraphAssumption
  <2>2. IsFiniteSet(1 .. Len(Order)) /\ Cardinality(1 .. Len(Order)) = IF 1 > Len(Order) THEN 0 ELSE Len(Order) - 1 + 1
    BY <2>1, FS_Interval
  <2> QED  BY <2>1, <2>2
<1>3. IsFiniteSet(P) /\ Cardinality(P) = 4 * Cardinality(Nodes)
  BY <1>1, GoalCount, ProductSize
<1>4. IsFiniteSet(Q) /\ Cardinality(Q) = 2 * Len(Order)
  <2> DEFINE positions == DOMAIN Order
  <2>1. IsFiniteSet(positions) /\ Cardinality(positions) = Len(Order) /\ Q = SegmentGoals \X positions
    BY <1>2
  <2>2. PICK n \in Nat : n = Len(Order)  BY <1>2
  <2> HIDE DEF positions, Q
  <2>3. IsFiniteSet(positions) /\ Cardinality(positions) = n  BY <2>1, <2>2
  <2>4. IsFiniteSet(SegmentGoals \X positions) /\ Cardinality(SegmentGoals \X positions) = 2 * n
    BY <2>3, GoalCount, ProductSize
  <2> QED  BY <2>1, <2>2, <2>4
<1>5. IsFiniteSet(R) /\ Cardinality(R) = 1  BY FS_Singleton
<1>6. Achievable = (P \cup Q) \cup R  BY DEF Achievable
<1> HIDE DEF P, Q, R
<1>7. /\ IsFiniteSet(P \cup Q) /\ Cardinality(P \cup Q) \in Nat
      /\ Cardinality(P \cup Q) <= Cardinality(P) + Cardinality(Q)
  <2>1. IsFiniteSet(P \cup Q) /\ Cardinality(P \cup Q) = Cardinality(P) + Cardinality(Q) - Cardinality(P \cap Q)
    BY <1>3, <1>4, FS_Union
  <2>2. Cardinality(P \cap Q) \in Nat /\ Cardinality(P) \in Nat /\ Cardinality(Q) \in Nat /\ Cardinality(P \cup Q) \in Nat
    BY <1>3, <1>4, <2>1, FS_Intersection, FS_CardinalityType
  <2> QED  BY <2>1, <2>2
<1>8. /\ IsFiniteSet((P \cup Q) \cup R) /\ Cardinality((P \cup Q) \cup R) \in Nat
      /\ Cardinality((P \cup Q) \cup R) <= Cardinality(P \cup Q) + Cardinality(R)
  <2>1. /\ IsFiniteSet((P \cup Q) \cup R)
        /\ Cardinality((P \cup Q) \cup R) = Cardinality(P \cup Q) + Cardinality(R) - Cardinality((P \cup Q) \cap R)
    BY <1>5, <1>7, FS_Union
  <2>2. Cardinality((P \cup Q) \cap R) \in Nat /\ Cardinality((P \cup Q) \cup R) \in Nat
    BY <1>7, <2>1, FS_Intersection, FS_CardinalityType
  <2> QED  BY <1>5, <1>7, <2>1, <2>2
<1> QED  BY <1>1, <1>2, <1>3, <1>4, <1>5, <1>6, <1>7, <1>8

\* A goal is for a packet or a segment.
LEMMA GoalShape ==
    /\ \A n \in Nodes : /\ <<"begun", n>> \in Achievable /\ <<"finished", n>> \in Achievable
                        /\ <<"handed over", n>> \in Achievable /\ <<"covered", n>> \in Achievable
    /\ \A j \in DOMAIN Order : <<"gated", j>> \in Achievable /\ <<"reached", j>> \in Achievable
    /\ <<"recovered", 0>> \in Achievable
<1>1. ASSUME NEW n \in Nodes, NEW t \in NodeGoals PROVE <<t, n>> \in Achievable
  BY DEF Achievable
<1>2. ASSUME NEW j \in DOMAIN Order, NEW t \in SegmentGoals PROVE <<t, j>> \in Achievable
  BY DEF Achievable
<1>3. <<"recovered", 0>> \in Achievable  BY DEF Achievable
<1> QED  BY <1>1, <1>2, <1>3 DEF NodeGoals, SegmentGoals

\* What was achieved is a number.
LEMMA AchievedIsFinite ==
    ASSUME regressions \in 0 .. MaxRegressions
    PROVE  /\ IsFiniteSet(Achieved) /\ Cardinality(Achieved) \in Nat /\ Progress \in Nat
           /\ Progress <= 4 * Cardinality(Nodes) + 2 * Len(Order) + 2 * MaxRegressions + 1
<1>1. Achieved \subseteq Achievable  BY DEF Achieved
<1>2. IsFiniteSet(Achieved) /\ Cardinality(Achieved) <= Cardinality(Achievable)
  BY <1>1, AchievableIsFinite, FS_Subset
<1>3. Cardinality(Achieved) \in Nat  BY <1>2, FS_CardinalityType
<1> QED  BY <1>1, <1>2, <1>3, AchievableIsFinite, OptionsAssumption DEF Progress

\* What was achieved stays, and something is new.
LEMMA Gained ==
    ASSUME FlowTypeOK, FlowTypeOK', regressions \in 0 .. MaxRegressions, regressions' = regressions,
           Begun \subseteq Begun', Finished \subseteq Finished', handoffs \subseteq handoffs',
           Covered \subseteq Covered', Gated \subseteq Gated', Reached \subseteq Reached',
           checkpoint'.recovering => checkpoint.recovering,
           \/ Begun' # Begun \/ Finished' # Finished \/ handoffs' # handoffs \/ Covered' # Covered
           \/ Gated' # Gated \/ Reached' # Reached \/ (checkpoint.recovering /\ ~checkpoint'.recovering)
    PROVE  Progress' >= Progress + 1
<1>1. Achieved' \subseteq Achievable  BY DEF Achieved
<1>2. /\ IsFiniteSet(Achieved) /\ Cardinality(Achieved) \in Nat /\ IsFiniteSet(Achieved')
      /\ Cardinality(Achieved') \in Nat
  <2>1. IsFiniteSet(Achieved')  BY <1>1, AchievableIsFinite, FS_Subset
  <2> QED  BY <2>1, AchievedIsFinite, FS_CardinalityType
<1>3. /\ Begun' \in SUBSET Nodes /\ Finished' \in SUBSET Nodes /\ Covered' \in SUBSET Nodes
      /\ handoffs' \in SUBSET Nodes /\ Gated' \in SUBSET DOMAIN Order /\ Reached' \in SUBSET DOMAIN Order
  BY DEF Begun, Finished, Covered, Gated, Reached, FlowTypeOK
<1>4. checkpoint.recovering \in BOOLEAN /\ checkpoint'.recovering \in BOOLEAN  BY DEF FlowTypeOK
<1>5. Achieved \subseteq Achieved'  BY <1>4 DEF Achieved
<1>6. Achieved' # Achieved
  <2>1. CASE Begun' # Begun
    <3>1. PICK n \in Nodes : n \in Begun' /\ n \notin Begun  BY <1>3, <2>1
    <3>2. <<"begun", n>> \in Achievable  BY GoalShape
    <3>3. <<"begun", n>> \in Achieved' /\ <<"begun", n>> \notin Achieved  BY <3>1, <3>2 DEF Achieved
    <3> QED  BY <3>3
  <2>2. CASE Finished' # Finished
    <3>1. PICK n \in Nodes : n \in Finished' /\ n \notin Finished  BY <1>3, <2>2
    <3>2. <<"finished", n>> \in Achievable  BY GoalShape
    <3>3. <<"finished", n>> \in Achieved' /\ <<"finished", n>> \notin Achieved  BY <3>1, <3>2 DEF Achieved
    <3> QED  BY <3>3
  <2>3. CASE handoffs' # handoffs
    <3>1. PICK n \in Nodes : n \in handoffs' /\ n \notin handoffs  BY <1>3, <2>3
    <3>2. <<"handed over", n>> \in Achievable  BY GoalShape
    <3>3. <<"handed over", n>> \in Achieved' /\ <<"handed over", n>> \notin Achieved  BY <3>1, <3>2 DEF Achieved
    <3> QED  BY <3>3
  <2>4. CASE Covered' # Covered
    <3>1. PICK n \in Nodes : n \in Covered' /\ n \notin Covered  BY <1>3, <2>4
    <3>2. <<"covered", n>> \in Achievable  BY GoalShape
    <3>3. <<"covered", n>> \in Achieved' /\ <<"covered", n>> \notin Achieved  BY <3>1, <3>2 DEF Achieved
    <3> QED  BY <3>3
  <2>5. CASE Gated' # Gated
    <3>1. PICK j \in DOMAIN Order : j \in Gated' /\ j \notin Gated  BY <1>3, <2>5
    <3>2. <<"gated", j>> \in Achievable  BY GoalShape
    <3>3. <<"gated", j>> \in Achieved' /\ <<"gated", j>> \notin Achieved  BY <3>1, <3>2 DEF Achieved
    <3> QED  BY <3>3
  <2>6. CASE Reached' # Reached
    <3>1. PICK j \in DOMAIN Order : j \in Reached' /\ j \notin Reached  BY <1>3, <2>6
    <3>2. <<"reached", j>> \in Achievable  BY GoalShape
    <3>3. <<"reached", j>> \in Achieved' /\ <<"reached", j>> \notin Achieved  BY <3>1, <3>2 DEF Achieved
    <3> QED  BY <3>3
  <2>7. CASE checkpoint.recovering /\ ~checkpoint'.recovering
    <3>1. <<"recovered", 0>> \in Achieved' /\ <<"recovered", 0>> \notin Achieved
      BY <2>7, GoalShape DEF Achieved
    <3> QED  BY <3>1
  <2> QED  BY <2>1, <2>2, <2>3, <2>4, <2>5, <2>6, <2>7
<1>7. /\ Cardinality(Achieved) <= Cardinality(Achieved')
      /\ Cardinality(Achieved') = Cardinality(Achieved) => Achieved' = Achieved
  BY <1>2, <1>5, FS_Subset
<1>8. Cardinality(Achieved') >= Cardinality(Achieved) + 1  BY <1>2, <1>6, <1>7
<1> QED  BY <1>2, <1>8, OptionsAssumption DEF Progress

\* Progress pays for the repetitions of one action.
LEMMA Payment ==
    ASSUME NEW l \in Nat, NEW p \in Nat, NEW q \in Nat, q >= p + 1
    PROVE  l * q >= l * p + l /\ l * p \in Nat /\ l * q \in Nat
<1>1. PICK d \in Nat : q = p + 1 + d
  <2>1. q - p - 1 \in Nat /\ q = p + 1 + (q - p - 1)  OBVIOUS
  <2> QED  BY <2>1
<1>2. l * q = l * p + l + l * d  BY <1>1
<1>3. l * d \in Nat /\ l * p \in Nat  OBVIOUS
<1> QED  BY <1>2, <1>3

\* What a step adds to the repository was asked for and had not been achieved.
LEMMA WorkGains ==
    ASSUME IInv, IInv', EndInv,
           Integrated \/ Reconciled \/ AdvancePhase \/ GateRecorded \/ \E n \in Nodes : WorkerBuilds(n)
    PROVE  UNCHANGED repository \/ Progress' >= Progress + 1
<1>1. FlowTypeOK /\ FlowTypeOK' /\ regressions \in 0 .. MaxRegressions /\ Asked
  BY DEF IInv, Typed, EndInv
<1>2. built \in [Nodes -> NodeStates] /\ built' \in [Nodes -> NodeStates]
  BY <1>1 DEF FlowTypeOK
<1>3. CASE Integrated
  <2>1. UNCHANGED <<undecided, broken, handoffs, records, checkpoint, regressions>>
    BY <1>3 DEF Integrated
  <2>2. PICK merged \in SUBSET action.packets :
          built' = [n \in Nodes |-> IF n \in merged THEN "DONE" ELSE built[n]]
    BY <1>3 DEF Integrated
  <2>3. Covered' = Covered /\ Gated' = Gated /\ Reached' = Reached
    BY <2>1 DEF Covered, Gated, Reached, waveCoveredIn, phaseGated
  <2>4. Begun \subseteq Begun' /\ Finished \subseteq Finished'
    BY <1>2, <2>2 DEF Begun, Finished
  <2>5. CASE built' = built  BY <2>1, <2>5 DEF repository
  <2>6. CASE built' # built
    <3>1. PICK n \in Nodes : built'[n] # built[n]  BY <1>2, <2>6
    <3>2. n \in Finished' /\ n \notin Finished  BY <2>2, <3>1 DEF Finished
    <3> QED  BY <1>1, <2>1, <2>3, <2>4, <3>2, Gained
  <2> QED  BY <2>5, <2>6
<1>4. CASE Reconciled
  <2>1. pc = "reconcile" /\ UNCHANGED <<built, undecided, broken, handoffs, records, regressions>>
    BY <1>4 DEF Reconciled
  <2>2. PICK r \in BOOLEAN : checkpoint' = [checkpoint EXCEPT !.recovering = r]
    BY <1>4 DEF Reconciled
  <2>3. checkpoint \in [segment : Segments \cup {NoSegment}, recovering : BOOLEAN] /\ checkpoint.recovering
    BY <1>1, <2>1 DEF FlowTypeOK, Asked
  <2>4. checkpoint'.segment = checkpoint.segment /\ (checkpoint'.recovering <=> r)
    BY <2>2, <2>3
  <2>5. CASE r
    <3>1. checkpoint' = checkpoint  BY <2>2, <2>3, <2>5
    <3> QED  BY <2>1, <3>1 DEF repository
  <2>6. CASE ~r
    <3>1. Begun' = Begun /\ Finished' = Finished /\ Covered' = Covered /\ Gated' = Gated /\ Reached' = Reached
      BY <2>1, <2>4 DEF Begun, Finished, Covered, Gated, Reached, waveCoveredIn, phaseGated
    <3> QED  BY <1>1, <2>1, <2>3, <2>4, <2>6, <3>1, Gained
  <2> QED  BY <2>5, <2>6
<1>5. CASE AdvancePhase
  <2>1. /\ action = transition /\ action.action = "ADVANCE_PHASE"
        /\ checkpoint' = [segment |-> action.segment, recovering |-> FALSE]
        /\ UNCHANGED <<built, undecided, broken, handoffs, records, regressions>>
    BY <1>1, <1>5 DEF AdvancePhase, Acting, Asked, history
  <2>2. Owing # {} /\ action.segment = Order[current] /\ Lags(current)
    BY <2>1, TransitionOK, TransitionShape
  <2>3. PICK c \in DOMAIN Order : c = current  BY <2>2, CurrentFirst
  <2>4. PICK j \in DOMAIN Order : j < c /\ checkpoint.segment = Order[j]
    BY <2>2, <2>3 DEF Lags
  <2>5. checkpoint'.segment = Order[c] /\ ~checkpoint'.recovering  BY <2>1, <2>2, <2>3
  <2>6. /\ DOMAIN Order \subseteq Nat
        /\ \A k \in DOMAIN Order : Order[k] = Order[j] => k = j
    BY Positions
  <2>7. Begun' = Begun /\ Finished' = Finished /\ Covered' = Covered /\ Gated' = Gated
    BY <2>1 DEF Begun, Finished, Covered, Gated, waveCoveredIn, phaseGated
  <2>8. \A k \in Reached : k <= j  BY <2>4, <2>6 DEF Reached
  <2>9. \A k \in DOMAIN Order : k <= c => k \in Reached'  BY <2>5 DEF Reached
  <2>10. Reached \subseteq Reached'
    <3> SUFFICES ASSUME NEW k \in Reached PROVE k \in Reached'  OBVIOUS
    <3>1. k \in DOMAIN Order /\ k \in Nat /\ c \in Nat /\ j \in Nat  BY <2>6 DEF Reached
    <3>2. k <= c  BY <2>4, <2>8, <3>1
    <3> QED  BY <2>9, <3>1, <3>2
  <2>11. c \in Reached' /\ c \notin Reached
    <3>1. c \in Nat /\ j \in Nat /\ c <= c /\ ~(c <= j)  BY <2>4, <2>6
    <3> QED  BY <2>8, <2>9, <3>1
  <2> QED  BY <1>1, <2>1, <2>5, <2>7, <2>10, <2>11, Gained
<1>6. CASE GateRecorded
  <2> DEFINE r == GateRecord(GateKind, action.segment, action.packets)
  <2>1. /\ pc = "gating" /\ records' = records \cup {r}
        /\ UNCHANGED <<built, undecided, broken, handoffs, checkpoint, regressions>>
    BY <1>6 DEF GateRecorded, history
  <2>2. r.gate = GateKind /\ r.segment = action.segment /\ r.packets = action.packets
    BY DEF GateRecord
  <2> HIDE DEF r
  <2>3. action.action \in {"WAVE_GATE", "PHASE_GATE"} /\ action.packets \subseteq Nodes /\ action.segment \in Segments
    BY <2>1 DEF IInv, Placed, Typed, ActionOK
  <2>4. Begun' = Begun /\ Finished' = Finished /\ Reached' = Reached
    BY <2>1 DEF Begun, Finished, Reached
  <2>5. Covered \subseteq Covered' /\ Gated \subseteq Gated'
    BY <2>1 DEF Covered, Gated, waveCoveredIn, phaseGated
  <2>6. Covered' # Covered \/ Gated' # Gated
    <3>1. r \in records'  BY <2>1
    <3>2. CASE action.action = "WAVE_GATE"
      <4>1. PICK n \in action.packets : SegmentOf[n] = action.segment /\ n \notin waveCoveredIn(action.segment)
        BY <1>1, <2>1, <3>2 DEF Asked
      <4>2. r.gate = "wave"  BY <2>2, <3>2 DEF GateKind
      <4>3. n \in Covered'  BY <2>2, <2>3, <3>1, <4>1, <4>2 DEF Covered, waveCoveredIn
      <4>4. n \notin Covered  BY <4>1 DEF Covered
      <4> QED  BY <4>3, <4>4
    <3>3. CASE action.action = "PHASE_GATE"
      <4>1. ~phaseGated(action.segment)  BY <1>1, <2>1, <3>3 DEF Asked
      <4>2. PICK j \in DOMAIN Order : Order[j] = action.segment  BY <2>3 DEF Segments
      <4>3. r.gate = "phase"  BY <2>2, <3>3 DEF GateKind
      <4>4. j \in Gated' /\ j \notin Gated
        BY <2>2, <3>1, <4>1, <4>2, <4>3 DEF Gated, phaseGated
      <4> QED  BY <4>4
    <3> QED  BY <2>3, <3>2, <3>3
  <2>7. Progress' >= Progress + 1  BY <1>1, <2>1, <2>4, <2>5, <2>6, Gained
  <2> QED  BY <2>7
<1>7. ASSUME NEW n \in Nodes, WorkerBuilds(n) PROVE Progress' >= Progress + 1
  <2>1. /\ built[n] # "DONE"
        /\ \/ built' = [built EXCEPT ![n] = "DONE"] /\ UNCHANGED handoffs
           \/ built[n] = "TODO" /\ built' = [built EXCEPT ![n] = "PARTIAL"] /\ UNCHANGED handoffs
           \/ n \notin handoffs /\ handoffs' = handoffs \cup {n} /\ UNCHANGED built
        /\ UNCHANGED <<undecided, broken, records, checkpoint, regressions>>
    BY <1>7 DEF WorkerBuilds, history
  <2>2. Covered' = Covered /\ Gated' = Gated /\ Reached' = Reached
    BY <2>1 DEF Covered, Gated, Reached, waveCoveredIn, phaseGated
  <2>3. Begun \subseteq Begun' /\ Finished \subseteq Finished' /\ handoffs \subseteq handoffs'
    BY <1>2, <2>1 DEF Begun, Finished
  <2>4. Begun' # Begun \/ Finished' # Finished \/ handoffs' # handoffs
    <3>1. CASE built' = [built EXCEPT ![n] = "DONE"]
      <4>1. n \in Finished' /\ n \notin Finished  BY <1>2, <2>1, <3>1 DEF Finished
      <4> QED  BY <4>1
    <3>2. CASE built[n] = "TODO" /\ built' = [built EXCEPT ![n] = "PARTIAL"]
      <4>1. n \in Begun' /\ n \notin Begun  BY <1>2, <3>2 DEF Begun
      <4> QED  BY <4>1
    <3>3. CASE n \notin handoffs /\ handoffs' = handoffs \cup {n}  BY <3>3
    <3> QED  BY <2>1, <3>1, <3>2, <3>3
  <2> QED  BY <1>1, <2>1, <2>2, <2>3, <2>4, Gained
<1> QED  BY <1>3, <1>4, <1>5, <1>6, <1>7

\* What a worker breaks counts twice among the regressions.
LEMMA RegressGains ==
    ASSUME IInv, EndInv, NEW n \in Nodes, Regress(n) PROVE Progress' >= Progress + 1
<1>1. /\ built[n] = "DONE" /\ built' = [built EXCEPT ![n] = "PARTIAL"] /\ regressions' = regressions + 1
      /\ UNCHANGED <<handoffs, records, checkpoint>>
  BY DEF Regress
<1>2. FlowTypeOK /\ regressions \in 0 .. MaxRegressions /\ built \in [Nodes -> NodeStates]
  BY DEF IInv, Typed, FlowTypeOK, EndInv
<1>3. /\ Covered' = Covered /\ Gated' = Gated /\ Reached' = Reached
      /\ Begun' = Begun /\ Finished' = Finished \ {n}
  BY <1>1, <1>2 DEF Begun, Finished, Covered, Gated, Reached, waveCoveredIn, phaseGated
<1>4. n \in Finished  BY <1>1 DEF Finished
<1> DEFINE p == <<"finished", n>>
<1>5. Achieved' = Achieved \ {p} /\ p \in Achieved
  <2>1. p \in Achieved  BY <1>4, GoalShape DEF Achieved
  <2>3. \A q \in Achievable : q[1] = "finished" /\ q[2] = n <=> q = p
    <3> SUFFICES ASSUME NEW q \in Achievable PROVE q[1] = "finished" /\ q[2] = n <=> q = p
      OBVIOUS
    <3>1. PICK t, x : q = <<t, x>>  BY DEF Achievable
    <3> QED  BY <3>1
  <2> HIDE DEF p
  <2>4. \A q \in Achievable : q \in Achieved' <=> q \in Achieved /\ q # p
    BY <1>1, <1>3, <2>3 DEF Achieved
  <2>5. Achieved \subseteq Achievable /\ Achieved' \subseteq Achievable  BY DEF Achieved
  <2> QED  BY <2>1, <2>4, <2>5
<1>6. IsFiniteSet(Achieved) /\ Cardinality(Achieved) \in Nat
  BY <1>2, AchievedIsFinite
<1>7. Cardinality(Achieved') = Cardinality(Achieved) - 1
  <2> HIDE DEF p
  <2> QED  BY <1>5, <1>6, FS_RemoveElement
<1> QED  BY <1>1, <1>2, <1>6, <1>7, OptionsAssumption DEF Progress

\* A step of the loop that changes nothing but the repository, and that for the better.
LEMMA PaidStays ==
    ASSUME EndInv, IInv', UNCHANGED <<action, repeats, iteration>>, repeats \in Nat,
           regressions' \in 0 .. MaxRegressions,
           (UNCHANGED <<repository, regressions>>) \/ Progress' >= Progress + 1
    PROVE  Paid'
<1> DEFINE l == NoProgressLimit
<1>1. l \in Nat /\ iteration \in Nat /\ iteration' = iteration /\ repeats' = repeats  BY OptionsAssumption DEF EndInv
<1>2. Progress \in Nat /\ Progress' \in Nat
  <2>1. Progress \in Nat  BY AchievedIsFinite DEF EndInv
  <2>2. IsFiniteSet(Achieved')
    <3>1. Achieved' \subseteq Achievable  BY DEF Achieved
    <3> QED  BY <3>1, AchievableIsFinite, FS_Subset
  <2>3. Cardinality(Achieved') \in Nat  BY <2>2, FS_CardinalityType
  <2> QED  BY <2>1, <2>3, OptionsAssumption DEF Progress
<1> DEFINE p == Progress
           q == Progress'
<1>3. CASE UNCHANGED <<repository, regressions>>
  <2>1. transition' = transition  BY <1>3, SameTransition
  <2>2. Progress' = Progress
    <3>1. Achieved' = Achieved
      BY <1>3 DEF Achieved, Begun, Finished, Covered, Gated, Reached, waveCoveredIn, phaseGated, repository
    <3> QED  BY <1>3, <3>1 DEF Progress
  <2> QED  BY <2>1, <2>2 DEF EndInv, Paid
<1>4. CASE q >= p + 1
  <2> HIDE DEF p, q, l
  <2>1. p \in Nat /\ q \in Nat  BY <1>2 DEF p, q
  <2>2. l * q >= l * p + l /\ l * p \in Nat /\ l * q \in Nat  BY <1>1, <1>4, <2>1, Payment
  <2>3. \/ iteration = 0
        \/ iteration <= l * p + repeats + 1
        \/ iteration + l <= l * p + repeats + 1
    BY DEF EndInv, Paid, p, l
  <2>4. iteration = 0 \/ iteration + l <= l * q + repeats + 1
    BY <1>1, <2>2, <2>3
  <2> QED  BY <1>1, <2>4 DEF Paid, q, l
<1> QED  BY <1>3, <1>4 DEF p, q

\* Repetitions are counted from zero.
LEMMA RepeatsCounted ==
    ASSUME IInv PROVE repeats \in Nat /\ repeats <= NoProgressLimit
BY OptionsAssumption DEF IInv, Typed

\* The supervisor stops, and its memory is gone.
LEMMA EndEnds ==
    ASSUME EndInv, pc' \in Ended, iteration' = 0, regressions' = regressions PROVE EndInv'
<1>1. pc' \notin {"acting", "gating", "reconcile"}  BY DEF Ended
<1>2. Asked'  BY <1>1 DEF Asked
<1> QED  BY <1>2 DEF EndInv, Paid

\* A step to a place where nothing has been asked for.
LEMMA QuietEnds ==
    ASSUME EndInv, IInv, IInv', UNCHANGED <<action, repeats, iteration, regressions>>,
           pc' \notin Ended \cup {"acting", "gating", "reconcile"},
           UNCHANGED repository \/ Progress' >= Progress + 1
    PROVE  EndInv'
<1>1. Asked'  BY DEF Asked
<1>2. Paid'  BY RepeatsCounted, PaidStays DEF EndInv
<1> QED  BY <1>1, <1>2 DEF EndInv

\* Deriving an action repeats the last one, or follows some progress.
LEMMA DeriveEnds == ASSUME EndInv, IInv, IInv', Derive PROVE EndInv'
<1> DEFINE l == NoProgressLimit
           x == l * Progress
<1>1. /\ pc = "top" /\ action' = transition /\ repeats' = Repeats(transition)
      /\ iteration' = iteration + 1 /\ pc' \in {"acting", "escalating"}
      /\ UNCHANGED <<repository, regressions>>
  BY DEF Derive, history
<1>2. transition' = transition  BY <1>1, SameTransition
<1>3. Asked'  BY <1>1, <1>2 DEF Asked, Ended
<1>4. Progress' = Progress
  <2>1. Achieved' = Achieved
    BY <1>1 DEF Achieved, Begun, Finished, Covered, Gated, Reached, waveCoveredIn, phaseGated, repository
  <2> QED  BY <1>1, <2>1 DEF Progress
<1>5. l \in Nat \ {0} /\ Progress \in Nat /\ iteration \in Nat
  BY OptionsAssumption, AchievedIsFinite DEF EndInv
<1>6. x \in Nat
  <2>1. \A a, b \in Nat : a * b \in Nat  OBVIOUS
  <2> QED  BY <1>5, <2>1
<1>7. repeats \in Nat /\ repeats <= l /\ repeats # l
  BY <1>1, RepeatsCounted DEF IInv, Placed
<1>8. repeats' \in Nat  BY <1>1, <1>7 DEF Repeats
<1>9. action = transition => repeats' = repeats + 1  BY <1>1 DEF Repeats
<1>10. \/ iteration = 0
       \/ action = transition /\ iteration <= x + repeats + 1
       \/ iteration + l <= x + repeats + 1
  BY DEF EndInv, Paid
<1> HIDE DEF x, l
<1>11. iteration' <= x + repeats' + 1
  BY <1>1, <1>5, <1>6, <1>7, <1>8, <1>9, <1>10
<1>12. Paid'  BY <1>1, <1>2, <1>4, <1>11 DEF Paid, x, l
<1> QED  BY <1>1, <1>3, <1>5, <1>12 DEF EndInv

\* What is asked for has not been done.
LEMMA AskedFor ==
    ASSUME action = transition
    PROVE  /\ action.action = "REPAIR" => checkpoint.recovering
           /\ action.action = "WAVE_GATE" =>
                /\ action.packets # {}
                /\ \A n \in action.packets :
                     SegmentOf[n] = action.segment /\ n \notin waveCoveredIn(action.segment)
           /\ action.action = "PHASE_GATE" => ~phaseGated(action.segment)
<1>1. action.action = "REPAIR" => checkpoint.recovering  BY TransitionShape
<1>2. ASSUME action.action = "WAVE_GATE"
      PROVE  /\ action.packets # {}
             /\ \A n \in action.packets :
                  SegmentOf[n] = action.segment /\ n \notin waveCoveredIn(action.segment)
  <2>1. action.packets = Uncovered(current) /\ Uncovered(current) # {}  BY <1>2, TransitionShape
  <2>2. action.segment = Order[current]  BY <1>2, TransitionOK
  <2>3. PICK c : c = current  OBVIOUS
  <2>4. \A n \in Uncovered(c) : SegmentOf[n] = Order[c] /\ n \notin waveCoveredIn(Order[c])
    BY DEF Uncovered, Seg
  <2> QED  BY <2>1, <2>2, <2>3, <2>4
<1>3. ASSUME action.action = "PHASE_GATE" PROVE ~phaseGated(action.segment)
  <2>1. Outstanding(current) = {} /\ Uncovered(current) = {}  BY <1>3, TransitionShape
  <2>2. action.segment = Order[current] /\ Owing # {}  BY <1>3, TransitionOK
  <2>3. current \in Owing  BY <2>2, CurrentFirst
  <2>4. owesGate(current)  BY <2>1, <2>3 DEF Owing
  <2> QED  BY <2>1, <2>2, <2>4 DEF owesGate
<1> QED  BY <1>1, <1>2, <1>3

LEMMA AskEnds == ASSUME EndInv, IInv, IInv', LaunchWorker \/ GateCommand PROVE EndInv'
<1>1. /\ pc = "acting" /\ UNCHANGED <<repository, action, repeats, iteration, regressions>>
      /\ \/ pc' \in {"top", "integrate", "holding"}
         \/ pc' = "reconcile" /\ action.action = "REPAIR"
         \/ pc' = "gating" /\ action.action \in {"WAVE_GATE", "PHASE_GATE"}
  BY DEF LaunchWorker, GateCommand, Hold, Acting, Work, history
<1>2. action = transition  BY <1>1 DEF EndInv, Asked
<1>3. CASE pc' \in {"top", "integrate", "holding"}
  BY <1>1, <1>3, QuietEnds DEF Ended
<1>4. CASE pc' \in {"reconcile", "gating"}
  <2>1. UNCHANGED <<records, checkpoint>>  BY <1>1 DEF repository
  <2>2. Asked'
    BY <1>1, <1>2, <1>4, <2>1, AskedFor DEF Asked, Ended, waveCoveredIn, phaseGated
  <2>3. Paid'  BY <1>1, RepeatsCounted, PaidStays DEF EndInv
  <2> QED  BY <1>1, <2>2, <2>3 DEF EndInv
<1> QED  BY <1>1, <1>3, <1>4

\* The steps that leave the repository alone, without an action derived or asked for.
LEMMA StillEnds ==
    ASSUME EndInv, IInv, IInv',
           \/ Save \/ StopObserved \/ EscalationPending \/ Complete \/ Crash
           \/ AskHuman \/ Dispatch \/ WorkerEnding \/ BatchSettled \/ Continue
           \/ (\E n \in Nodes : ApplyResult(n))
           \/ GateWorkerRed \/ GateRefused \/ RepairGate \/ RepairEnds
           \/ RequestStop \/ LeaseExpires
    PROVE  EndInv'
<1>1. CASE Save
  <2>1. pc \in {"escalating", "applying", "recorded", "holding"} /\ UNCHANGED <<repository, regressions>>
    BY <1>1 DEF Save, IInv, Placed, history
  <2>2. CASE Head(saves)[1] = "escalate"
    BY <1>1, <2>1, <2>2, EndEnds DEF Save, Ends, Ended
  <2>3. CASE Head(saves)[1] # "escalate"
    <3>1. UNCHANGED <<pc, action, repeats, iteration>>  BY <1>1, <2>3 DEF Save
    <3> QED  BY <2>1, <3>1, QuietEnds DEF Ended
  <2> QED  BY <2>2, <2>3
<1>2. CASE StopObserved \/ EscalationPending \/ Complete \/ Crash
  BY <1>2, EndEnds DEF StopObserved, EscalationPending, Complete, Crash, Ends, Ended, history
<1>3. CASE AskHuman \/ Dispatch \/ BatchSettled \/ Continue \/ GateWorkerRed \/ GateRefused
           \/ RepairGate \/ RepairEnds
  <2>1. /\ UNCHANGED <<repository, action, repeats, iteration, regressions>>
        /\ pc' \in {"escalating", "dispatching", "applying", "top", "holding", "repair"}
    BY <1>3 DEF AskHuman, Dispatch, BatchSettled, Continue, GateWorkerRed, GateRefused, RepairGate,
         RepairEnds, WorkerReports, Hold, history
  <2> QED  BY <2>1, QuietEnds DEF Ended
<1>4. CASE WorkerEnding \/ (\E n \in Nodes : ApplyResult(n)) \/ RequestStop \/ LeaseExpires
  <2>1. /\ UNCHANGED <<repository, pc, action, repeats, iteration, regressions>>
        /\ pc \in {"dispatching", "applying", "top"}
    <3>1. CASE WorkerEnding
      <4>1. UNCHANGED <<repository, pc, action, repeats, iteration, regressions>> /\ running # {}
        BY <3>1 DEF WorkerEnding, WorkerEnds
      <4> QED  BY <4>1 DEF IInv, Placed
    <3>2. CASE (\E n \in Nodes : ApplyResult(n)) \/ RequestStop \/ LeaseExpires
      BY <3>2 DEF ApplyResult, RequestStop, LeaseExpires, process, history
    <3> QED  BY <1>4, <3>1, <3>2
  <2> QED  BY <2>1, QuietEnds DEF Ended
<1> QED  BY <1>1, <1>2, <1>3, <1>4

\* The steps that change the repository: each gets further.
LEMMA ChangeEnds ==
    ASSUME EndInv, IInv, IInv',
           \/ Integrated \/ Reconciled \/ AdvancePhase \/ GateRecorded
           \/ \E n \in Nodes : WorkerBuilds(n) \/ Regress(n)
    PROVE  EndInv'
<1>1. CASE Integrated \/ Reconciled \/ AdvancePhase \/ GateRecorded \/ \E n \in Nodes : WorkerBuilds(n)
  <2>1. UNCHANGED repository \/ Progress' >= Progress + 1  BY <1>1, WorkGains
  <2>2. UNCHANGED <<action, repeats, iteration, regressions>>
    BY <1>1 DEF Integrated, Reconciled, AdvancePhase, GateRecorded, WorkerBuilds, WorkerReports, process, history
  <2>3. pc' \in {"top", "escalating", "recorded", "dispatching"}
    <3>1. CASE Integrated \/ Reconciled \/ AdvancePhase \/ GateRecorded
      BY <3>1 DEF Integrated, Reconciled, AdvancePhase, GateRecorded, WorkerReports
    <3>2. CASE \E n \in Nodes : WorkerBuilds(n)
      <4>1. running # {} /\ pc' = pc  BY <3>2 DEF WorkerBuilds, process
      <4> QED  BY <4>1 DEF IInv, Placed
    <3> QED  BY <1>1, <3>1, <3>2
  <2> QED  BY <2>1, <2>2, <2>3, QuietEnds DEF Ended
<1>2. ASSUME NEW n \in Nodes, Regress(n) PROVE EndInv'
  <2>1. /\ pc \in {"integrate", "reconcile", "dispatching", "gating", "repair"}
        /\ UNCHANGED <<pc, action, repeats, iteration, records, checkpoint>>
        /\ regressions < MaxRegressions /\ regressions' = regressions + 1
    BY <1>2, OptionsAssumption DEF Regress, process
  <2>2. regressions' \in 0 .. MaxRegressions  BY <2>1, OptionsAssumption DEF EndInv
  <2>3. Progress' >= Progress + 1  BY <1>2, RegressGains
  <2>4. Paid'  BY <2>1, <2>2, <2>3, RepeatsCounted, PaidStays
  <2>5. Asked'  BY <2>1 DEF EndInv, Asked, Ended, waveCoveredIn, phaseGated
  <2> QED  BY <2>1, <2>2, <2>4, <2>5 DEF EndInv
<1> QED  BY <1>1, <1>2

\* The steps of a supervisor that does not run, and those that are none.
LEMMA IdleEnds ==
    ASSUME EndInv, IInv, IInv', Start \/ Decide \/ UNCHANGED vars PROVE EndInv'
<1>1. CASE Start \/ Decide
  <2>1. pc \in Ended /\ pc' \in Ended \cup {"top"} /\ UNCHANGED <<iteration, regressions>>
    BY <1>1 DEF Start, Decide, Ended, process, history
  <2>2. iteration = 0  BY <2>1 DEF EndInv, Asked
  <2>3. Asked'  BY <2>1, <2>2 DEF Asked, Ended
  <2> QED  BY <2>1, <2>2, <2>3 DEF EndInv, Paid
<1>2. CASE UNCHANGED vars
  <2>1. UNCHANGED <<repository, pc, action, repeats, iteration, regressions>>
    BY <1>2 DEF vars, process, history
  <2>2. Asked'
    <3>1. transition' = transition /\ UNCHANGED <<records, checkpoint>>  BY <2>1, SameTransition DEF repository
    <3> QED  BY <2>1, <3>1 DEF EndInv, Asked, waveCoveredIn, phaseGated
  <2>3. Paid'  BY <2>1, RepeatsCounted, PaidStays DEF EndInv
  <2> QED  BY <2>1, <2>2, <2>3 DEF EndInv
<1> QED  BY <1>1, <1>2

LEMMA EndInitially == Init => EndInv
BY OptionsAssumption DEF Init, EndInv, Asked, Paid, Ended

LEMMA EndInductive == ASSUME EndInv, IInv, IInv', [Next]_vars PROVE EndInv'
<1>1. CASE Loop
  BY <1>1, StillEnds, ChangeEnds, DeriveEnds, AskEnds DEF Loop
<1>2. CASE Environment
  BY <1>2, StillEnds, ChangeEnds, IdleEnds DEF Environment
<1>3. CASE UNCHANGED vars  BY <1>3, IdleEnds
<1> QED  BY <1>1, <1>2, <1>3 DEF Next

(***************************************************************************)
(* A run of the supervisor ends by itself (the loop of supervise, its      *)
(* maxRotations, repair bound and noProgressLimit): whatever the workers   *)
(* do and report, it derives at most LongestRun actions, a number that     *)
(* depends on the size of the delivery, on the no-progress limit and on    *)
(* how often a worker breaks what was done.  An iteration limit            *)
(* above it never ends a run.                                              *)
(***************************************************************************)
THEOREM RunsEnd ==
    ASSUME LongestRun < MaxIterations
    PROVE  Spec => []RunsEndBeforeTheLimit
<1>1. IInv /\ EndInv => RunsEndBeforeTheLimit
  <2> SUFFICES ASSUME IInv, EndInv PROVE iteration < MaxIterations
    BY DEF RunsEndBeforeTheLimit
  <2> DEFINE l == NoProgressLimit
             p == Progress
             m == 4 * Cardinality(Nodes) + 2 * Len(Order) + 2 * MaxRegressions + 1
  <2>1. /\ l \in Nat \ {0} /\ iteration \in Nat /\ repeats \in Nat /\ repeats <= l
        /\ MaxIterations \in Nat
    BY OptionsAssumption, RepeatsCounted DEF EndInv
  <2>2. p \in Nat /\ p <= m /\ m \in Nat
    <3>1. MaxRegressions \in Nat /\ Cardinality(Nodes) \in Nat /\ Len(Order) \in Nat
      BY OptionsAssumption, AchievableIsFinite
    <3>2. m \in Nat  BY <3>1
    <3> QED  BY <3>2, AchievedIsFinite DEF EndInv
  <2>3. LongestRun = l * (m + 1) + 1
    <3>1. MaxRegressions \in Nat /\ Cardinality(Nodes) \in Nat /\ Len(Order) \in Nat
      BY OptionsAssumption, AchievableIsFinite
    <3>2. m + 1 = 4 * Cardinality(Nodes) + 2 * Len(Order) + 2 * MaxRegressions + 2  BY <3>1
    <3> HIDE DEF m
    <3> QED  BY <3>2 DEF LongestRun
  <2>4. \/ iteration = 0
        \/ iteration <= l * p + repeats + 1
        \/ iteration + l <= l * p + repeats + 1
    BY DEF EndInv, Paid
  <2> HIDE DEF l, p, m
  <2>5. l * (m + 1) >= l * p + l /\ l * p \in Nat /\ l * (m + 1) \in Nat
    <3>1. m + 1 \in Nat /\ m + 1 >= p + 1 /\ l \in Nat  BY <2>1, <2>2
    <3> QED  BY <2>2, <3>1, Payment
  <2>6. iteration <= l * (m + 1) + 1  BY <2>1, <2>4, <2>5
  <2> QED  BY <2>1, <2>3, <2>5, <2>6
<1>2. IInv /\ EndInv /\ [Next]_vars => EndInv'  BY Inductive, EndInductive
<1> QED  BY <1>1, <1>2, EndInitially, Invariance, PTL DEF Spec

-----------------------------------------------------------------------------
(* Phases and waves *)

\* What a phase gate was asked for: a segment whose packets are all covered.
PhaseAsked ==
    pc = "gating" /\ action.action = "PHASE_GATE" =>
      \A i \in DOMAIN Order : Order[i] = action.segment => Seg(i) \subseteq waveCoveredIn(Order[i])

PhaseInv == PhaseRecordsRestOnWaves /\ PhaseAsked

\* transition asks for a phase gate when every packet is done, and every packet that
\* is done is covered.
LEMMA PhaseIsAskedLast ==
    ASSUME transition.action = "PHASE_GATE", NEW i \in DOMAIN Order, Order[i] = transition.segment
    PROVE  Seg(i) \subseteq waveCoveredIn(Order[i])
<1>1. Outstanding(current) = {} /\ Uncovered(current) = {}  BY TransitionShape
<1>2. Owing # {} /\ transition.segment = Order[current]  BY TransitionOK
<1>3. current \in DOMAIN Order  BY <1>2, CurrentFirst
<1>4. i = current  BY <1>2, <1>3, GraphAssumption
<1>5. PICK c : c = current  OBVIOUS
<1>6. Outstanding(c) = {} /\ Uncovered(c) = {} => Seg(c) \subseteq waveCoveredIn(Order[c])
  BY DEF Uncovered
<1> QED  BY <1>1, <1>4, <1>5, <1>6

\* Records are only ever added: what is covered stays so.
LEMMA CoverageGrows ==
    ASSUME records \subseteq records', NEW s PROVE waveCoveredIn(s) \subseteq waveCoveredIn(s)'
BY DEF waveCoveredIn

\* Of all steps, one asks for a gate and one records it.
LEMMA PhaseStep ==
    ASSUME [Next]_vars
    PROVE  \/ GateCommand /\ UNCHANGED <<records, action>>
           \/ GateRecorded /\ UNCHANGED action
           \/ UNCHANGED records /\ (pc' = "gating" => pc = "gating" /\ UNCHANGED action)
<1>1. ASSUME Save \/ Derive \/ StopObserved \/ EscalationPending \/ Complete \/ AskHuman \/ AdvancePhase
      PROVE  UNCHANGED records /\ (pc' = "gating" => pc = "gating" /\ UNCHANGED action)
  BY <1>1 DEF Save, Derive, StopObserved, EscalationPending, Complete, AskHuman, AdvancePhase,
     Ends, repository
<1>2. ASSUME LaunchWorker \/ Integrated \/ Reconciled \/ Dispatch \/ WorkerEnding \/ BatchSettled
             \/ (\E n \in Nodes : ApplyResult(n)) \/ Continue
      PROVE  UNCHANGED records /\ (pc' = "gating" => pc = "gating" /\ UNCHANGED action)
  <2>1. CASE LaunchWorker  BY <2>1 DEF LaunchWorker, Work, repository
  <2>2. CASE Integrated \/ Reconciled  BY <2>2 DEF Integrated, Reconciled, WorkerReports
  <2>3. CASE Dispatch \/ BatchSettled \/ Continue  BY <2>3 DEF Dispatch, BatchSettled, Continue, repository
  <2>4. CASE WorkerEnding \/ \E n \in Nodes : ApplyResult(n)
    BY <2>4 DEF WorkerEnding, WorkerEnds, ApplyResult, repository
  <2> QED  BY <1>2, <2>1, <2>2, <2>3, <2>4
<1>3. ASSUME GateWorkerRed \/ GateRefused \/ RepairGate \/ RepairEnds
      PROVE  UNCHANGED records /\ (pc' = "gating" => pc = "gating" /\ UNCHANGED action)
  BY <1>3 DEF GateWorkerRed, GateRefused, RepairGate, RepairEnds, WorkerReports, Hold, repository
<1>4. ASSUME Environment \/ UNCHANGED vars
      PROVE  UNCHANGED records /\ (pc' = "gating" => pc = "gating" /\ UNCHANGED action)
  <2>1. CASE Start \/ RequestStop \/ Crash \/ LeaseExpires \/ Decide \/ UNCHANGED vars
    BY <2>1 DEF Start, RequestStop, Crash, LeaseExpires, Decide, Ends, vars, repository, process
  <2>2. ASSUME NEW n \in Nodes, WorkerBuilds(n) \/ Regress(n) PROVE UNCHANGED <<records, pc, action>>
    BY <2>2 DEF WorkerBuilds, Regress, process
  <2> QED  BY <1>4, <2>1, <2>2 DEF Environment
<1>5. GateCommand => UNCHANGED <<records, action>>  BY DEF GateCommand, repository
<1>6. GateRecorded => UNCHANGED action  BY DEF GateRecorded
<1> QED  BY <1>1, <1>2, <1>3, <1>4, <1>5, <1>6 DEF Next, Loop

LEMMA PhaseInductive == ASSUME PhaseInv, EndInv, [Next]_vars PROVE PhaseInv'
<1>1. CASE GateCommand /\ UNCHANGED <<records, action>>
  <2>1. pc = "acting" /\ action = transition  BY <1>1 DEF GateCommand, Acting, EndInv, Asked
  <2>2. PhaseAsked'
    BY <1>1, <2>1, PhaseIsAskedLast DEF PhaseAsked, Seg, waveCoveredIn
  <2>3. PhaseRecordsRestOnWaves'
    BY <1>1 DEF PhaseInv, PhaseRecordsRestOnWaves, phaseGated, waveCoveredIn, Seg
  <2> QED  BY <2>2, <2>3 DEF PhaseInv
<1>2. CASE GateRecorded /\ UNCHANGED action
  <2>1. /\ pc = "gating" /\ pc' = "recorded"
        /\ records' = records \cup {GateRecord(GateKind, action.segment, action.packets)}
    BY <1>2 DEF GateRecorded
  <2>2. PhaseAsked'  BY <2>1 DEF PhaseAsked
  <2>3. ASSUME NEW i \in DOMAIN Order, phaseGated(Order[i])'
        PROVE  Seg(i) \subseteq waveCoveredIn(Order[i])
    <3>1. phaseGated(Order[i]) \/ (GateKind = "phase" /\ action.segment = Order[i])
      <4>1. PICK r \in records' : r.gate = "phase" /\ r.segment = Order[i]  BY <2>3 DEF phaseGated
      <4>2. CASE r \in records  BY <4>1, <4>2 DEF phaseGated
      <4>3. CASE r = GateRecord(GateKind, action.segment, action.packets)
        BY <4>1, <4>3 DEF GateRecord
      <4> QED  BY <2>1, <4>2, <4>3
    <3>2. CASE phaseGated(Order[i])  BY <3>2 DEF PhaseInv, PhaseRecordsRestOnWaves
    <3>3. CASE GateKind = "phase" /\ action.segment = Order[i]
      <4>1. action.action = "PHASE_GATE"  BY <3>3 DEF GateKind
      <4> QED  BY <2>1, <3>3, <4>1 DEF PhaseInv, PhaseAsked
    <3> QED  BY <3>1, <3>2, <3>3
  <2>4. \A i \in DOMAIN Order : waveCoveredIn(Order[i]) \subseteq waveCoveredIn(Order[i])'
    BY <2>1, CoverageGrows
  <2>5. PhaseRecordsRestOnWaves'
    <3> SUFFICES ASSUME NEW i \in DOMAIN Order, phaseGated(Order[i])'
                 PROVE  Seg(i) \subseteq waveCoveredIn(Order[i])'
      BY DEF PhaseRecordsRestOnWaves, Seg
    <3> QED  BY <2>3, <2>4
  <2> QED  BY <2>2, <2>5 DEF PhaseInv
<1>3. CASE UNCHANGED records /\ (pc' = "gating" => pc = "gating" /\ UNCHANGED action)
  BY <1>3 DEF PhaseInv, PhaseRecordsRestOnWaves, PhaseAsked, phaseGated, waveCoveredIn, Seg
<1> QED  BY <1>1, <1>2, <1>3, PhaseStep

\* A phase record rests on the wave records of every packet of its segment (transition,
\* `flow record`), for every delivery graph, whatever workers break after a wave was
\* recorded: the phase gate was asked for with all of them covered, and coverage stays.
THEOREM WavesBeforePhase == Spec => []PhaseRecordsRestOnWaves
<1>1. Init => PhaseInv
  BY DEF Init, PhaseInv, PhaseRecordsRestOnWaves, PhaseAsked, phaseGated
<1>2. IInv /\ EndInv /\ [Next]_vars => EndInv'  BY Inductive, EndInductive
<1>3. PhaseInv /\ EndInv /\ [Next]_vars => PhaseInv'  BY PhaseInductive
<1>4. PhaseInv => PhaseRecordsRestOnWaves  BY DEF PhaseInv
<1> QED  BY <1>1, <1>2, <1>3, <1>4, EndInitially, Invariance, PTL DEF Spec
=============================================================================
