---------------------------- MODULE Supervisor ------------------------------
(***************************************************************************)
(* The supervised delivery loop (scripts/autopilot/supervise.ts over       *)
(* state.ts and progression.ts): derive the next action from the           *)
(* repository, launch a worker or run a gate for it, book the result,      *)
(* derive again, until the delivery is complete, a human is needed or a    *)
(* stop is requested.                                                      *)
(*                                                                         *)
(* A handler books its result in several writes of state.json with no      *)
(* await between them; the process can die between any two.  `saves` holds *)
(* the writes a handler has still to make.  A worker is a process that     *)
(* changes the repository as it pleases and reports an outcome of its      *)
(* choice: the supervisor believes neither.                                *)
(*                                                                         *)
(* Two supervisors at once are not supported (state.ts), so none are       *)
(* modelled.  A node's status decides only the wording of its next brief   *)
(* and is left out.  So is the iteration limit: runs are to end before it. *)
(***************************************************************************)
EXTENDS Flow

CONSTANTS
    Repositories,     \* what the repository may be when the supervisor is first used
    Bound,            \* repair.bound
    MaxRotations,     \* options.maxRotations
    Concurrency,      \* options.concurrency
    NoProgressLimit,  \* options.noProgressLimit
    MaxIterations,    \* options.maxIterations
    MaxSessions,      \* bound: how often the supervisor is started
    MaxReds,          \* bound: how many gates and workers fail
    MaxRegressions,   \* bound: how often a worker breaks a packet
    Breaks            \* bound: <<pc, n>> when a worker running at pc may break packet n

ASSUME OptionsAssumption ==
    /\ Repositories \subseteq
         [built : [Nodes -> NodeStates], undecided : SUBSET Nodes, broken : BOOLEAN,
          checkpoint : [segment : Segments \cup {NoSegment}, recovering : BOOLEAN]]
    /\ Bound \in Nat
    /\ MaxRotations \in Nat \ {0}
    /\ Concurrency \in Nat \ {0}
    /\ NoProgressLimit \in Nat \ {0}
    /\ MaxIterations \in Nat
    /\ MaxSessions \in Nat
    /\ MaxReds \in Nat
    /\ MaxRegressions \in Nat
    /\ Breaks \subseteq {"integrate", "reconcile", "dispatching", "gating", "repair"} \X Nodes

VARIABLES
    \* .autopilot/
    launches,     \* nodes[n].launches
    repairs,      \* repairAttempts, by bucket
    failures,     \* the unresolved blockingFailures
    escalation,   \* the cause of the unresolved escalation
    stop,         \* the stop file
    leases,       \* lease files a dead supervisor left behind
    \* the process
    pc,           \* where the loop is
    action,       \* the action derived last
    repeats,      \* how often in a row its signature was derived before
    iteration,    \* the loop counter
    running,      \* the nodes whose worker runs
    results,      \* what the batch's workers reported
    saves,        \* writes of state.json still to be made
    \* history and bounds
    repairWorkers,  \* repair workers launched, by gate bucket
    reds,           \* gates that were red and workers that did not report DONE
    blame,          \* the worst thing that went wrong
    sessions, regressions

durable == <<launches, repairs, failures, escalation, stop, leases>>

process == <<pc, action, repeats, iteration, running, results, saves>>

history == <<repairWorkers, reds, blame, sessions, regressions>>

vars == <<repository, durable, process, history>>

Ended == {"idle", "COMPLETE", "ESCALATED", "STOPPED", "crashed"}

NoAction == Action("none", NoSegment, {})

NoNode == "no node"

Failure(kind, segment, node) == [kind |-> kind, segment |-> segment, node |-> node]

Smaller(a, b) == IF a < b THEN a ELSE b

\* A counter by bucket, absent while zero.
Count(counter, k) == IF k \in DOMAIN counter THEN counter[k] ELSE 0

Bump(counter, k) == [j \in DOMAIN counter \cup {k} |->
                        IF j = k THEN Count(counter, k) + 1 ELSE counter[j]]

\* repairKey and gateScope: a node's bucket, a wave's, a phase's.
NodeBucket(n) == <<SegmentOf[n], "node", {n}>>

GateBucket == IF action.action = "PHASE_GATE" THEN <<action.segment, "phase", {}>>
              ELSE <<action.segment, "wave", action.packets>>

\* Lease keys: a node's, and those of work on a segment.
NodeKey(n) == <<SegmentOf[n], n>>

Key(name) == <<action.segment, name>>

Init ==
    /\ \E r \in Repositories :
         /\ built = r.built /\ undecided = r.undecided /\ broken = r.broken
         /\ checkpoint = r.checkpoint
    /\ handoffs = {}
    /\ records = {}
    /\ launches = [n \in Nodes |-> 0]
    /\ repairs = <<>>
    /\ failures = {}
    /\ escalation = "none"
    /\ stop = FALSE
    /\ leases = {}
    /\ pc = "idle" /\ action = NoAction /\ repeats = 0 /\ iteration = 0
    /\ running = {} /\ results = <<>> /\ saves = <<>>
    /\ repairWorkers = <<>> /\ reds = 0 /\ blame = "gates"
    /\ sessions = 0 /\ regressions = 0

\* A worker is to blame, if not a crash or a regression.
Worse(b) == IF b = "others" THEN b ELSE "workers"

\* supervise() returns, or its process dies: its memory is gone.
Ends(result) ==
    /\ pc' = result /\ action' = NoAction /\ repeats' = 0 /\ iteration' = 0
    /\ running' = {} /\ results' = <<>> /\ saves' = <<>>

-----------------------------------------------------------------------------
(* state.json *)

\* One write: the head of `saves`.  After an escalation the handler returns and
\* the run ends; results not looked at yet are lost.
Save ==
    LET w == Head(saves)
    IN /\ saves # <<>>
       /\ repairs' = IF w[1] = "bumpRepair" THEN Bump(repairs, w[2]) ELSE repairs
       /\ launches' = IF w[1] = "resetLaunches" THEN [launches EXCEPT ![w[2]] = 0] ELSE launches
       /\ failures' = CASE w[1] = "recordFailure" -> failures \cup {w[2]}
                        [] w[1] = "resolveNode" -> {f \in failures : f.node # w[2]}
                        [] w[1] = "resolveGate" -> {f \in failures : f.kind # "gate" \/ f.segment # w[2]}
                        [] OTHER -> failures
       /\ IF w[1] = "escalate"
          THEN escalation' = w[2] /\ Ends("ESCALATED")
          ELSE /\ saves' = Tail(saves)
               /\ UNCHANGED <<escalation, pc, action, repeats, iteration, running, results>>
       /\ UNCHANGED <<repository, stop, leases, history>>

\* Charging one more attempt to a bucket exceeds the bound.
Exhausted(bucket) == IF Count(repairs, bucket) + 1 > Bound
                     THEN <<<<"escalate", "repairs">>>> ELSE <<>>

\* Faulty variant: a gate's own holds count against it.
EveryFailure(segment) == failures

\* The failures that bear on a gate: all but its segment's own holds.
failuresBlockingGate(segment) == {f \in failures : f.kind # "gate" \/ f.segment # segment}

-----------------------------------------------------------------------------
(* The loop *)

\* `pnpm autopilot`, and `pnpm autopilot resume --note`, which resolves the
\* pending escalation first.
Start ==
    /\ pc \in Ended
    /\ sessions < MaxSessions
    /\ sessions' = sessions + 1
    /\ pc' = "top"
    /\ stop' = FALSE
    /\ escalation' \in {escalation, "none"}
    /\ UNCHANGED <<repository, launches, repairs, failures, leases,
                   action, repeats, iteration, running, results, saves,
                   repairWorkers, reds, blame, regressions>>

StopObserved ==
    /\ pc = "top"
    /\ stop
    /\ Ends("STOPPED")
    /\ UNCHANGED <<repository, durable, history>>

\* Faulty variant: only the process that raised an escalation knows of it.
NothingPending == FALSE

Pending == escalation # "none"

EscalationPending ==
    /\ pc = "top"
    /\ ~stop
    /\ Pending
    /\ Ends("ESCALATED")
    /\ UNCHANGED <<repository, durable, history>>

\* signatureOf: ADVANCE_PHASE has no segment, only a `to`.
signatureOf(a) == IF a.action = "ADVANCE_PHASE" THEN [a EXCEPT !.segment = NoSegment] ELSE a

\* Faulty variant: nothing counts as a repetition.
NeverRepeats(a) == 0

Repeats(a) == IF signatureOf(a) = signatureOf(action) THEN repeats + 1 ELSE 0

\* Derive the next action, and give up on one that keeps coming back.
Derive ==
    LET a == transition
    IN /\ pc = "top"
       /\ ~stop
       /\ ~Pending
       /\ action' = a
       /\ repeats' = Repeats(a)
       /\ iteration' = iteration + 1
       /\ IF Repeats(a) >= NoProgressLimit
          THEN /\ pc' = "escalating"
               /\ saves' = << <<"recordFailure", Failure("no-progress", signatureOf(a).segment, NoNode)>>,
                              <<"escalate", "no-progress">> >>
          ELSE pc' = "acting" /\ UNCHANGED saves
       /\ UNCHANGED <<repository, durable, running, results, history>>

Acting(name) == pc = "acting" /\ action.action = name

Complete ==
    /\ Acting("COMPLETE")
    /\ Ends("COMPLETE")
    /\ UNCHANGED <<repository, durable, history>>

\* ERROR and BLOCKED need a human.
AskHuman ==
    /\ Acting("ERROR") \/ Acting("BLOCKED")
    /\ pc' = "escalating"
    /\ saves' = << <<"escalate", "decision">> >>
    /\ UNCHANGED <<repository, durable, action, repeats, iteration, running, results, history>>

\* updateCheckpointSegment: the segment, and no recovery in flight.
AdvancePhase ==
    /\ Acting("ADVANCE_PHASE")
    /\ pc' = "top"
    /\ checkpoint' = [segment |-> action.segment, recovering |-> FALSE]
    /\ UNCHANGED <<built, undecided, broken, handoffs, records, durable,
                   action, repeats, iteration, running, results, saves, history>>

-----------------------------------------------------------------------------
(* Workers of the INTEGRATE and REPAIR actions *)

Work == [INTEGRATE |-> "integrate", REPAIR |-> "reconcile"]

LaunchWorker ==
    /\ \E a \in DOMAIN Work :
         /\ Acting(a)
         /\ pc' = IF Key(Work[a]) \in leases THEN "top" ELSE Work[a]
    /\ UNCHANGED <<repository, durable, action, repeats, iteration, running, results, saves, history>>

\* What a worker without a node reports matters only if it is BLOCKED.
WorkerReports ==
    /\ \/ pc' = "top" /\ UNCHANGED saves
       \/ pc' = "escalating" /\ saves' = << <<"escalate", "decision">> >>
    /\ UNCHANGED <<durable, action, repeats, iteration, running, results>>

\* An integration lands some of the lanes, or none.
Integrated ==
    /\ pc = "integrate"
    /\ \E merged \in SUBSET action.packets :
         /\ built' = [n \in Nodes |-> IF n \in merged THEN "DONE" ELSE built[n]]
         /\ blame' = IF merged = {} THEN Worse(blame) ELSE blame
    /\ WorkerReports
    /\ UNCHANGED <<undecided, broken, handoffs, records, checkpoint,
                   repairWorkers, reds, sessions, regressions>>

\* A reconciliation ends the recovery, or does not.
Reconciled ==
    /\ pc = "reconcile"
    /\ \E r \in BOOLEAN : /\ checkpoint' = [checkpoint EXCEPT !.recovering = r]
                          /\ blame' = IF r THEN Worse(blame) ELSE blame
    /\ WorkerReports
    /\ UNCHANGED <<built, undecided, broken, handoffs, records,
                   repairWorkers, reds, sessions, regressions>>

-----------------------------------------------------------------------------
(* handleDispatch *)

\* The first packets in dependency order: one, or as many as may run at once.
Batches(packets) ==
    {B \in SUBSET packets :
        /\ Cardinality(B) \in {1, Smaller(Concurrency, Cardinality(packets))}
        /\ \A n \in B : Needs[n] \cap packets \subseteq B}

\* A node leased to someone else is skipped.
Dispatch ==
    /\ Acting("DISPATCH")
    /\ \E batch \in Batches(action.packets) : running' = {n \in batch : NodeKey(n) \notin leases}
    /\ pc' = "dispatching"
    /\ UNCHANGED <<repository, durable, action, repeats, iteration, results, saves, history>>

\* A worker makes progress on its node: on this tree or in a lane of its own.
WorkerBuilds(n) ==
    /\ n \in running
    /\ built[n] # "DONE"
    /\ \/ built' = [built EXCEPT ![n] = "DONE"] /\ UNCHANGED handoffs
       \/ built[n] = "TODO" /\ built' = [built EXCEPT ![n] = "PARTIAL"] /\ UNCHANGED handoffs
       \/ n \notin handoffs /\ handoffs' = handoffs \cup {n} /\ UNCHANGED built
    /\ UNCHANGED <<undecided, broken, records, checkpoint, durable, process, history>>

Red == reds < MaxReds /\ reds' = reds + 1

\* dispatchWorker after its await.  launches is only compared with MaxRotations.
WorkerEnds(n, outcome) ==
    /\ n \in running
    /\ running' = running \ {n}
    /\ results' = [m \in DOMAIN results \cup {n} |-> IF m = n THEN outcome ELSE results[m]]
    /\ launches' = [launches EXCEPT ![n] = Smaller(@ + 1, MaxRotations)]
    /\ IF outcome = "DONE" THEN UNCHANGED reds ELSE Red
    /\ blame' = IF outcome = "DONE" /\ (built[n] = "DONE" \/ n \in handoffs)
                THEN blame ELSE Worse(blame)
    /\ UNCHANGED <<repository, repairs, failures, escalation, stop, leases,
                   pc, action, repeats, iteration, saves, repairWorkers, sessions, regressions>>

BatchSettled ==
    /\ pc = "dispatching"
    /\ running = {}
    /\ pc' = "applying"
    /\ UNCHANGED <<repository, durable, action, repeats, iteration, running, results, saves, history>>

\* The writes one result calls for.
WritesFor(n, outcome) ==
    CASE outcome = "DONE" -> << <<"resolveNode", n>> >>
      [] outcome = "ROTATE" /\ launches[n] < MaxRotations -> <<>>
      [] outcome = "ROTATE" /\ launches[n] >= MaxRotations ->
            << <<"bumpRepair", NodeBucket(n)>>, <<"resetLaunches", n>> >>
            \o Exhausted(NodeBucket(n))
      [] outcome = "FAILED" ->
            << <<"bumpRepair", NodeBucket(n)>>,
               <<"recordFailure", Failure("worker", action.segment, n)>> >>
            \o Exhausted(NodeBucket(n))
      [] outcome = "BLOCKED" -> << <<"escalate", "decision">> >>

\* Results are booked one after another, once all workers have ended.
ApplyResult(n) ==
    /\ pc = "applying"
    /\ saves = <<>>
    /\ n \in DOMAIN results
    /\ saves' = WritesFor(n, results[n])
    /\ results' = [m \in DOMAIN results \ {n} |-> results[m]]
    /\ UNCHANGED <<repository, durable, pc, action, repeats, iteration, running, history>>

Continue ==
    /\ pc \in {"applying", "recorded"}
    /\ saves = <<>>
    /\ results = <<>>
    /\ pc' = "top"
    /\ UNCHANGED <<repository, durable, action, repeats, iteration, running, results, saves, history>>

-----------------------------------------------------------------------------
(* runGate and handleGate *)

GateKind == IF action.action = "PHASE_GATE" THEN "phase" ELSE "wave"

\* A gate that was not recorded: the hold is booked and charged ...
Hold ==
    /\ pc' = "holding"
    /\ saves' = << <<"recordFailure", Failure("gate", action.segment, NoNode)>>,
                   <<"bumpRepair", GateBucket>> >> \o Exhausted(GateBucket)

\* The gate command is red, and no gate worker runs, or it is green.
GateCommand ==
    /\ Acting("WAVE_GATE") \/ Acting("PHASE_GATE")
    /\ \/ pc' = "gating" /\ UNCHANGED <<saves, reds>>
       \/ Hold /\ Red
    /\ UNCHANGED <<repository, durable, action, repeats, iteration, running, results,
                   repairWorkers, blame, sessions, regressions>>

\* The gate worker's report or its artifacts are not green.
GateWorkerRed ==
    /\ pc = "gating"
    /\ Hold
    /\ Red
    /\ UNCHANGED <<repository, durable, action, repeats, iteration, running, results,
                   repairWorkers, blame, sessions, regressions>>

Judged == failuresBlockingGate(action.segment) = {} /\ MayRecord(GateKind, action.packets)

\* Every source is green, and the record is written.
GateRecorded ==
    /\ pc = "gating"
    /\ Judged
    /\ records' = records \cup {GateRecord(GateKind, action.segment, action.packets)}
    /\ pc' = "recorded"
    /\ saves' = << <<"resolveGate", action.segment>> >>
    /\ UNCHANGED <<built, undecided, broken, handoffs, checkpoint, durable,
                   action, repeats, iteration, running, results, history>>

\* The worker is satisfied, but a failure bears on the gate, or the record is
\* refused.
GateRefused ==
    /\ pc = "gating"
    /\ ~Judged
    /\ Hold
    /\ UNCHANGED <<repository, durable, action, repeats, iteration, running, results, history>>

\* Faulty variant: the repair worker starts before its attempt is charged.
RepairsFirst == saves # <<>> /\ Head(saves)[1] # "escalate"

\* ... every write of the hold has been made.
HoldBooked == saves = <<>>

\* ... and, within the bound, a repair worker is sent before the gate runs again.
RepairGate ==
    /\ pc = "holding"
    /\ HoldBooked
    /\ IF Key("gate") \in leases
       THEN pc' = "top" /\ UNCHANGED repairWorkers
       ELSE pc' = "repair" /\ repairWorkers' = Bump(repairWorkers, GateBucket)
    /\ UNCHANGED <<repository, durable, action, repeats, iteration, running, results, saves,
                   reds, blame, sessions, regressions>>

RepairEnds ==
    /\ pc = "repair"
    /\ WorkerReports
    /\ UNCHANGED <<repository, history>>

-----------------------------------------------------------------------------
(* The environment *)

\* `pnpm autopilot stop`.  The file is looked at only at the head of the loop, so a
\* request made earlier is like one made there.
RequestStop ==
    /\ pc = "top"
    /\ ~stop
    /\ stop' = TRUE
    /\ UNCHANGED <<repository, launches, repairs, failures, escalation, leases, process, history>>

\* The leases the process holds when it dies.
Held == {NodeKey(n) : n \in running} \cup
        (IF pc = "repair" THEN {Key("gate")}
         ELSE IF pc \in {"integrate", "reconcile"} THEN {Key(pc)} ELSE {})

\* The process dies; its leases stay until they expire.
Crash ==
    /\ pc \notin Ended
    /\ Ends("crashed")
    /\ leases' = leases \cup Held
    /\ blame' = "others"
    /\ UNCHANGED <<repository, launches, repairs, failures, escalation, stop,
                   repairWorkers, reds, sessions, regressions>>

\* An abandoned lease is reaped, or stolen, once it has expired.  An iteration
\* looks at leases once, so one that expires during it is like one that did before.
LeaseExpires ==
    /\ pc = "top"
    /\ \E k \in leases : leases' = leases \ {k}
    /\ UNCHANGED <<repository, launches, repairs, failures, escalation, stop, process, history>>

\* A worker breaks a probe of a packet, its own or another.
Regress(n) ==
    /\ <<pc, n>> \in Breaks
    /\ pc = "dispatching" => running # {}
    /\ regressions < MaxRegressions
    /\ built[n] = "DONE"
    /\ built' = [built EXCEPT ![n] = "PARTIAL"]
    /\ regressions' = regressions + 1
    /\ blame' = "others"
    /\ UNCHANGED <<undecided, broken, handoffs, records, checkpoint, durable, process,
                   repairWorkers, reds, sessions>>

\* While the run waits, a human answers the decisions and mends the graph.
Decide ==
    /\ pc = "ESCALATED"
    /\ undecided # {} \/ broken
    /\ undecided' = {}
    /\ broken' = FALSE
    /\ UNCHANGED <<built, handoffs, records, checkpoint, durable, process, history>>

-----------------------------------------------------------------------------

Outcomes == {"DONE", "ROTATE", "FAILED", "BLOCKED"}

WorkerEnding == \E n \in Nodes, outcome \in Outcomes : WorkerEnds(n, outcome)

\* What the process does of itself, its workers' ends included.
Loop ==
    \/ Save \/ StopObserved \/ EscalationPending \/ Derive
    \/ Complete \/ AskHuman \/ AdvancePhase
    \/ LaunchWorker \/ Integrated \/ Reconciled
    \/ Dispatch \/ WorkerEnding \/ BatchSettled
    \/ \E n \in Nodes : ApplyResult(n)
    \/ Continue
    \/ GateCommand \/ GateWorkerRed \/ GateRecorded \/ GateRefused \/ RepairGate \/ RepairEnds

Environment ==
    \/ Start \/ RequestStop \/ Crash \/ LeaseExpires \/ Decide
    \/ \E n \in Nodes : WorkerBuilds(n) \/ Regress(n)

Next == Loop \/ Environment

Spec == Init /\ [][Next]_vars

-----------------------------------------------------------------------------

TypeOK ==
    /\ FlowTypeOK
    /\ launches \in [Nodes -> 0 .. MaxRotations]
    /\ \A k \in DOMAIN repairs : repairs[k] \in 1 .. Bound + MaxSessions
    /\ failures \subseteq [kind : {"gate", "worker", "no-progress"},
                           segment : Segments \cup {NoSegment}, node : Nodes \cup {NoNode}]
    /\ escalation \in {"none", "repairs", "no-progress", "decision"}
    /\ stop \in BOOLEAN
    /\ repeats \in 0 .. NoProgressLimit
    /\ running \subseteq Nodes
    /\ DOMAIN results \subseteq Nodes

(***************************************************************************)
(* At most Bound repair workers are ever sent to one gate, across crashes, *)
(* restarts and resumes: an attempt is charged, durably, before its worker *)
(* starts (handleGate, bumpRepair).                                        *)
(***************************************************************************)
GateRepairsBounded == \A k \in DOMAIN repairWorkers : repairWorkers[k] <= Bound

(***************************************************************************)
(* Gates that are red no more often than the bound allows, with nothing    *)
(* else going wrong, never reach a human: a held gate can still pass, and  *)
(* no gate is charged for another (failuresBlockingGate, gateScope).       *)
(* SupervisorProofs names what this asks of the options and the delivery.  *)
(***************************************************************************)
HeldGateRecovers ==
    escalation = "repairs" /\ blame = "gates" => reds > Bound

(***************************************************************************)
(* What the supervisor's documentation says of workers as well: "Nothing   *)
(* on that list reaches a human except the last two [BLOCKED, and the same *)
(* action N times]. ... a crashed worker ... all ordinary work."           *)
(***************************************************************************)
FailedWorkerIsOrdinary ==
    escalation = "repairs" /\ blame # "others" => reds > Bound

(***************************************************************************)
(* What the supervisor's documentation says of progression: "A phase       *)
(* advances only when all five mandatory sources are GREEN".  A phase that *)
(* was not delivered before the supervisor was first used is left behind   *)
(* only with its phase gate recorded.                                      *)
(***************************************************************************)
PhaseAdvancesOnlyGreen ==
    [][Acting("ADVANCE_PHASE") /\ pc' = "top" =>
         \A i, j \in DOMAIN Order :
            i < j /\ Order[j] = action.segment => phaseGated(Order[i])]_vars

(***************************************************************************)
(* While an escalation is unresolved nothing moves: no worker runs, no     *)
(* gate is recorded, no attempt charged and no failure booked or resolved, *)
(* also in a process started later (the check at the head of the loop, the *)
(* place of escalate in every handler).                                    *)
(***************************************************************************)
EscalationFreezes ==
    [][escalation # "none" =>
         /\ running' = {} /\ pc' \in Ended \cup {"top"}
         /\ UNCHANGED <<handoffs, records, checkpoint, launches, repairs, failures>>]_vars

(***************************************************************************)
(* A phase is recorded only over waves that were: every packet of its      *)
(* segment is in a wave record, whatever workers break before, while or    *)
(* after the phase is gated, and over crashes and repairs.  `flow record   *)
(* phase` probes nothing: this rests on the order in which transition asks *)
(* for gates, several iterations earlier, and on the records it reads.     *)
(***************************************************************************)
PhaseRecordsRestOnWaves ==
    \A i \in DOMAIN Order : phaseGated(Order[i]) => Seg(i) \subseteq waveCoveredIn(Order[i])

(***************************************************************************)
(* No action is derived for a segment, and no delivery called complete,    *)
(* while an earlier segment that has gate records has work or gates        *)
(* outstanding: later work does not close a segment inside the record      *)
(* regime (the selection loop of transition).                              *)
(***************************************************************************)
DebtIsNeverSkipped ==
    [][pc = "top" /\ pc' = "acting" /\ action'.action \notin {"ERROR", "REPAIR"} =>
         \A i \in DOMAIN Order :
            /\ inRegime(i)
            /\ \A j \in DOMAIN Order : Order[j] = action'.segment => i < j
            => Outstanding(i) = {} /\ phaseGated(Order[i]) /\ Uncovered(i) = {}]_vars

(***************************************************************************)
(* Every run ends before an iteration limit could end it, whatever workers *)
(* report: rotations, repairs and derivations that lead nowhere are all    *)
(* bounded (maxRotations, the repair bound, noProgressLimit).              *)
(***************************************************************************)
RunsEndBeforeTheLimit == iteration < MaxIterations

(***************************************************************************)
(* What is on disk keeps its form through every crash between two writes,  *)
(* and within it the repairs of a gate stay within their bound.            *)
(***************************************************************************)
RepairsAreBounded == TypeOK /\ GateRepairsBounded
=============================================================================
