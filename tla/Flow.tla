------------------------------- MODULE Flow ---------------------------------
(***************************************************************************)
(* `pnpm flow next` (scripts/flow.ts): what should happen next, derived    *)
(* from the repository alone: the oracle's probes, the segments of the     *)
(* delivery graph, lane handoffs, gate records and the checkpoint.         *)
(*                                                                         *)
(* Optional nodes own no packets (transition drops them), so they are left *)
(* out.  Agents, steps and reasons of an action are text for its reader.   *)
(***************************************************************************)
EXTENDS Naturals, Sequences, FiniteSets

CONSTANTS
    Nodes,      \* the packets of the delivery graph
    Order,      \* graph.executionOrder: the segments, in order
    SegmentOf,  \* the segment that owns each node
    Needs       \* the nodes each node depends on

NodeStates == {"TODO", "PARTIAL", "DONE"}

NoSegment == "no segment"

Segments == {Order[i] : i \in DOMAIN Order}

ASSUME GraphAssumption ==
    /\ IsFiniteSet(Nodes)
    /\ Order \in Seq(Segments)
    /\ \A i, j \in DOMAIN Order : Order[i] = Order[j] => i = j
    /\ NoSegment \notin Segments
    /\ SegmentOf \in [Nodes -> Segments]
    /\ Needs \in [Nodes -> SUBSET Nodes]

VARIABLES
    built,       \* the oracle: each node's state by its probes
    undecided,   \* nodes an unanswered decision blocks
    broken,      \* segmentsOf finds an error in the graph
    handoffs,    \* nodes with a validated DONE lane handoff
    records,     \* .artifacts/gates
    checkpoint   \* the frontmatter of .claude/autopilot.local.md

repository == <<built, undecided, broken, handoffs, records, checkpoint>>

-----------------------------------------------------------------------------

Seg(i) == {n \in Nodes : SegmentOf[n] = Order[i]}

laterWorkStarted(i) ==
    \E j \in DOMAIN Order : j > i /\ \E n \in Seg(j) : built[n] # "TODO"

waveCoveredIn(s) ==
    UNION {r.packets : r \in {q \in records : q.gate = "wave" /\ q.segment = s}}

phaseGated(s) == \E r \in records : r.gate = "phase" /\ r.segment = s

Outstanding(i) == {n \in Seg(i) : built[n] # "DONE"}

\* Faulty variant: a segment's first wave record covers all of it.
CoveredOnce(i) == IF waveCoveredIn(Order[i]) = {} THEN Seg(i) \ Outstanding(i) ELSE {}

Uncovered(i) == (Seg(i) \ Outstanding(i)) \ waveCoveredIn(Order[i])

owesGate(i) == ~phaseGated(Order[i]) \/ Uncovered(i) # {}

inRegime(i) == \E r \in records : r.segment = Order[i]

\* Faulty variant: later work closes a segment whether or not it has records.
ClosedByLaterWork(i) == laterWorkStarted(i)

\* A segment delivered before there were records.
closedByHistory(i) == ~inRegime(i) /\ laterWorkStarted(i)

\* The segments the selection loop would stop at.
Owing == {i \in DOMAIN Order :
            Outstanding(i) # {} \/ (owesGate(i) /\ ~closedByHistory(i))}

current == CHOOSE i \in Owing : \A j \in Owing : i <= j

\* The checkpoint names an earlier segment than the derived one.
Lags(i) == \E j \in DOMAIN Order : j < i /\ checkpoint.segment = Order[j]

-----------------------------------------------------------------------------

\* resolveGraph: readiness.  PARTIAL work is in progress whatever it needs.
Ready(n) ==
    \/ built[n] = "PARTIAL"
    \/ built[n] = "TODO" /\ n \notin undecided /\ \A d \in Needs[n] : built[d] = "DONE"

\* What a node needs, directly or not: the least set closed under Needs.
Upstream == [n \in Nodes |->
    {m \in Nodes : \A S \in SUBSET Nodes :
        Needs[n] \subseteq S /\ (\A d \in S : Needs[d] \subseteq S) => m \in S}]

dependsOn(n, targets) == Upstream[n] \cap targets # {}

Dispatchable(i) == {n \in Outstanding(i) : Ready(n) /\ ~dependsOn(n, Uncovered(i))}

integratable(i) == Outstanding(i) \cap handoffs

Action(name, segment, packets) == [action |-> name, segment |-> segment, packets |-> packets]

\* The transition function.
transition ==
    LET i == current
        s == Order[i]
    IN IF broken THEN Action("ERROR", NoSegment, {})
       ELSE IF checkpoint.recovering THEN Action("REPAIR", NoSegment, {})
       ELSE IF Owing = {} THEN Action("COMPLETE", NoSegment, {})
       ELSE IF Lags(i) THEN Action("ADVANCE_PHASE", s, {})
       ELSE IF integratable(i) # {} THEN Action("INTEGRATE", s, integratable(i))
       ELSE IF Dispatchable(i) # {} THEN Action("DISPATCH", s, Dispatchable(i))
       ELSE IF Uncovered(i) # {} THEN Action("WAVE_GATE", s, Uncovered(i))
       ELSE IF Outstanding(i) # {} THEN Action("BLOCKED", s, {})
       ELSE Action("PHASE_GATE", s, {})

\* What `pnpm flow record wave` refuses to record.
unrecordablePackets(packets) == {n \in packets : built[n] # "DONE"}

\* `pnpm flow record`.  A wave is probed again, a phase is not.
MayRecord(gate, packets) == gate = "wave" => unrecordablePackets(packets) = {}

GateRecord(gate, segment, packets) == [gate |-> gate, segment |-> segment, packets |-> packets]

FlowTypeOK ==
    /\ built \in [Nodes -> NodeStates]
    /\ undecided \subseteq Nodes
    /\ broken \in BOOLEAN
    /\ handoffs \subseteq Nodes
    /\ records \subseteq [gate : {"wave", "phase"}, segment : Segments, packets : SUBSET Nodes]
    /\ checkpoint \in [segment : Segments \cup {NoSegment}, recovering : BOOLEAN]
=============================================================================
