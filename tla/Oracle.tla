------------------------------- MODULE Oracle -------------------------------
(***************************************************************************)
(* The delivery oracle (scripts/oracle.ts): what the probes of the graph   *)
(* say of the working tree, which deliverables are ready, the waves they   *)
(* can be built in, what blocks the rest, and the agents a packet names.   *)
(*                                                                         *)
(* A path is the sequence of its names.  A disk is [files, text, scripts,  *)
(* passing]: the files there are, the <<file, pattern>> pairs that match,  *)
(* the package scripts, the commands that exit 0.  A graph is [nodes,      *)
(* decisions, sections, classes, capabilities, agents]; a node's needs and *)
(* probes are sets.  Ids are numbers, ordered like their strings.          *)
(***************************************************************************)
EXTENDS Integers, FiniteSets, Sequences, FiniteSetsExt, SequencesExt

CONSTANT WaveCap  \* the layering loop stops before this wave: 20

-----------------------------------------------------------------------------
(* Probes. *)

SKIP_DIRS == {"node_modules", "dist", "generated"}

Under(path, dir) == IsPrefix(dir, path)

existsSync(path, disk) == \E f \in disk.files : Under(f, path)

\* walk: a file named itself is read wherever it is; below a directory the skipped
\* directories are not entered.
walk(target, disk) ==
    {f \in disk.files : /\ Under(f, target)
                        /\ \A i \in (Len(target) + 1)..Len(f) : f[i] \notin SKIP_DIRS}

grepTarget(p) == p.dir \o p.file

runProbe(p, disk) ==
    CASE p.kind = "path"   -> existsSync(p.path, disk)
      [] p.kind = "absent" -> ~existsSync(p.path, disk)
      [] p.kind = "script" -> p.name \in disk.scripts
      [] p.kind = "grep"   -> \E f \in walk(grepTarget(p), disk) : <<f, p.pattern>> \in disk.text
      [] p.kind = "cmd"    -> p.run \in disk.passing
      [] p.kind = "manual" -> existsSync(p.evidence, disk)

-----------------------------------------------------------------------------
(* resolveGraph. *)

NodeOf(graph, id) == CHOOSE n \in graph.nodes : n.id = id

NodeIds(graph) == {n.id : n \in graph.nodes}

stateOf(n, disk) ==
    LET hits == {p \in n.probes : runProbe(p, disk)}
    IN IF hits = n.probes THEN "DONE" ELSE IF hits # {} THEN "PARTIAL" ELSE "TODO"

\* The unanswered decisions that name the node.
openDecisions(graph, id) == {d.id : d \in {e \in graph.decisions : ~e.answered /\ id \in e.blocks}}

\* depthOf: the longest chain of needs; a chain that comes back ends there.
RECURSIVE depthOf(_, _, _)
depthOf(graph, id, seen) ==
    IF id \notin NodeIds(graph) \ seen \/ NodeOf(graph, id).needs = {} THEN 0
    ELSE 1 + Max({depthOf(graph, d, seen \cup {id}) : d \in NodeOf(graph, id).needs})

\* The waves of a phase: each holds the unfinished nodes whose unfinished needs inside
\* the phase are all placed.  What a cycle keeps out has no wave.
RECURSIVE layers(_, _, _, _, _)
layers(graph, state, phase, placed, wave) ==
    LET remaining == {n \in graph.nodes : /\ n.phase = phase
                                          /\ state[n.id] # "DONE"
                                          /\ n.id \notin DOMAIN placed}
        Settled(d) == \/ d \notin NodeIds(graph)
                      \/ state[d] = "DONE"
                      \/ d \in DOMAIN placed
                      \/ NodeOf(graph, d).phase # phase
        batch == {n.id : n \in {m \in remaining : \A d \in m.needs : Settled(d)}}
        next == [id \in DOMAIN placed \cup batch |-> IF id \in batch THEN wave ELSE placed[id]]
    IN IF batch = {} \/ wave >= WaveCap THEN placed
       ELSE layers(graph, state, phase, next, wave + 1)

readinessOf(state, blockedBy) ==
    CASE state = "DONE" -> "DONE"
      [] state = "PARTIAL" -> "IN-PROGRESS"
      [] state = "TODO" -> IF blockedBy = {} THEN "READY" ELSE "BLOCKED"

resolveGraph(graph, disk) ==
    LET state == [id \in NodeIds(graph) |-> stateOf(NodeOf(graph, id), disk)]
        missingDeps(n) == {d \in n.needs : d \notin NodeIds(graph) \/ state[d] # "DONE"}
        blockedBy(n) == missingDeps(n) \cup openDecisions(graph, n.id)
        waveOf(n) == LET placed == layers(graph, state, n.phase, <<>>, 1)
                     IN IF n.id \in DOMAIN placed THEN placed[n.id] ELSE 0
        resolved(n) == [id |-> n.id, phase |-> n.phase, lane |-> n.lane, needs |-> n.needs,
                        state |-> state[n.id], blockedBy |-> blockedBy(n),
                        readiness |-> readinessOf(state[n.id], blockedBy(n)),
                        depth |-> depthOf(graph, n.id, {}), wave |-> waveOf(n)]
    IN [id \in NodeIds(graph) |-> resolved(NodeOf(graph, id))]

phases(byId) == {byId[id].phase : id \in DOMAIN byId}

Outstanding(byId, phase) == {id \in DOMAIN byId : byId[id].phase = phase /\ byId[id].state # "DONE"}

\* waves prints the batches; nextWave (lanes.ts) takes the first of them.
waveBatch(byId, phase, w) == {id \in Outstanding(byId, phase) : byId[id].wave = w}

maxParallel(byId, phase) ==
    Max({0} \cup {Cardinality(waveBatch(byId, phase, byId[id].wave)) :
                  id \in {i \in Outstanding(byId, phase) : byId[i].wave > 0}})

\* collisions: two nodes of one wave and one lane.
collisions(byId, phase) ==
    {s \in SUBSET Outstanding(byId, phase) :
       /\ Cardinality(s) > 1
       /\ \E i \in s : /\ byId[i].wave > 0
                       /\ s = {j \in waveBatch(byId, phase, byId[i].wave) : byId[j].lane = byId[i].lane}}

\* nextWave (lanes.ts): the first wave of a phase that has one.
nextWave(byId, phase) ==
    LET layered == {byId[id].wave : id \in Outstanding(byId, phase)} \ {0}
    IN IF layered = {} THEN {} ELSE waveBatch(byId, phase, Min(layered))

\* waveOutcome (lanes.ts): the exit code is the verdict.
waveOutcome(byId, phase) ==
    CASE phase \notin phases(byId)                                  -> "error"
      [] phase \in phases(byId) /\ nextWave(byId, phase) = {}       -> "complete"
      [] phase \in phases(byId) /\ nextWave(byId, phase) # {}       -> "wave"

\* ready: by phase, then depth.
ready(byId) ==
    LET rows == {id \in DOMAIN byId : byId[id].readiness \in {"READY", "IN-PROGRESS"}}
    IN SetToSortSeq(rows, LAMBDA i, j : \/ byId[i].phase < byId[j].phase
                                        \/ /\ byId[i].phase = byId[j].phase
                                           /\ \/ byId[i].depth < byId[j].depth
                                              \/ byId[i].depth = byId[j].depth /\ i < j)

-----------------------------------------------------------------------------
(* Leverage. *)

\* rootCauses: down blockedBy through the BLOCKED nodes, to what can be acted on.
RECURSIVE rootCauses(_, _, _)
rootCauses(byId, ids, seen) ==
    LET new == ids \ seen
        roots == {id \in new : id \notin DOMAIN byId \/ byId[id].readiness \in {"READY", "IN-PROGRESS"}}
        below == UNION {byId[id].blockedBy : id \in new \ roots}
    IN IF new = {} THEN {} ELSE roots \cup rootCauses(byId, below, seen \cup new)

Blocked(byId) == {id \in DOMAIN byId : byId[id].readiness = "BLOCKED"}

\* unblock: what each root gates.
leverage(byId) ==
    LET causes == [id \in Blocked(byId) |-> rootCauses(byId, {id}, {})]
    IN [r \in UNION Range(causes) |-> {id \in Blocked(byId) : r \in causes[id]}]

-----------------------------------------------------------------------------
(* Packets: the slice of the plan and the agents of the change class. *)

\* sliceSection: from the heading to the next one as high; text lines have level 0.
sliceSection(plan, id) ==
    LET starts == {i \in DOMAIN plan : plan[i].level > 0 /\ plan[i].id = id}
        start == Min(starts)
        ends == {i \in (start + 1)..Len(plan) : plan[i].level \in 1..plan[start].level}
    IN IF starts = {} THEN <<>> ELSE SubSeq(plan, start, Min(ends \cup {Len(plan) + 1}) - 1)

\* lifecycleOf and reviewLifecycle.
reviewLifecycle(rule) ==
    CASE "review" \in ToSet(rule.perPacket) -> "per-node"
      [] "review" \notin ToSet(rule.perPacket) /\ "review" \in ToSet(rule.perWave) -> "wave"
      [] "review" \notin ToSet(rule.perPacket) \cup ToSet(rule.perWave)
           /\ "review" \in ToSet(rule.perPhase) -> "phase"
      [] OTHER -> "none"

\* A contract that an open decision gates starts with its architect.
perPacketCaps(changeClass, rule, open) ==
    IF /\ changeClass = "contract" /\ open # {}
       /\ "architecture" \in ToSet(rule.conditional) \ ToSet(rule.perPacket)
    THEN <<"architecture">> \o rule.perPacket
    ELSE rule.perPacket

\* resolveRoles: the first candidate that has an agent file, each agent once.
resolveRoles(caps, agents) ==
    LET AgentFor(cap) == IF cap \in DOMAIN agents THEN agents[cap] ELSE cap
    IN FoldLeft(LAMBDA out, cap : IF Contains(out, AgentFor(cap)) THEN out
                                  ELSE Append(out, AgentFor(cap)), <<>>, caps)

\* reviewCadenceFor (lanes.ts): where each unit is reviewed, and who runs at the two
\* gates, once over the combined diff.
reviewCadenceFor(units, classes, agents) ==
    LET rules == {classes[u.changeClass] : u \in units}
        Bucket(b) == {u.task_id : u \in {v \in units : reviewLifecycle(classes[v.changeClass]) = b}}
        Gate(caps) == ToSet(resolveRoles(SetToSeq(caps), agents))
    IN [bucket |-> [b \in {"per-node", "wave", "phase", "none"} |-> Bucket(b)],
        wave_gate_agents |-> Gate(UNION {ToSet(r.perWave) : r \in rules}),
        phase_gate_agents |-> Gate(UNION {ToSet(r.perPhase) : r \in rules})]

\* ownershipBlock: where the builder may write and where it never may.
ownershipBlock(n, graph) ==
    [allowed |-> n.allowed, forbidden |-> n.forbidden \cup graph.alwaysForbidden]

\* verificationBlock: the note is one more criterion; a class without a lifecycle throws.
verificationBlock(n) == [commands |-> n.validate, criteria |-> n.probes \cup n.note]

\* packet: what the builder is told.  A section the plan lacks is left out.
packet(graph, byId, plan, id) ==
    LET n == NodeOf(graph, id)
        wanted == IF id \in DOMAIN graph.sections THEN graph.sections[id] ELSE <<>>
    IN [depends |-> [d \in n.needs |-> IF d \in DOMAIN byId THEN byId[d].state ELSE "UNKNOWN"],
        stop |-> openDecisions(graph, id),
        slices |-> {sliceSection(plan, s) : s \in ToSet(wanted)} \ {<<>>},
        own |-> ownershipBlock(n, graph),
        verify |-> verificationBlock(n)]

-----------------------------------------------------------------------------
(* Properties. *)

\* Every chain of needs from the node ends.
RECURSIVE Needs(_, _)
Needs(graph, ids) ==
    LET more == ids \cup UNION {NodeOf(graph, id).needs : id \in ids \cap NodeIds(graph)}
    IN IF more = ids THEN ids ELSE Needs(graph, more)

InCycle(graph, id) == id \in Needs(graph, NodeOf(graph, id).needs)

Acyclic(graph) == \A id \in NodeIds(graph) : ~InCycle(graph, id)

(***************************************************************************)
(* resolveGraph layers a phase: an unfinished need inside the phase is in  *)
(* an earlier wave (so the nodes of a wave never need one another), a      *)
(* later wave is never needlessly late, only a cycle of unfinished needs   *)
(* or a chain of them as long as the cap leaves a node without a wave, and *)
(* in an acyclic graph a phase is PHASE_COMPLETE exactly when nothing of   *)
(* it is left and every node is deeper than its needs, so `ready` lists a  *)
(* phase's needs first.                                                    *)
(***************************************************************************)
WavesAreLayers(graph, disk) ==
    LET byId == resolveGraph(graph, disk)
        listed == ready(byId)
        Pending(n) == {d \in n.needs \cap NodeIds(graph) :
                         byId[d].phase = n.phase /\ byId[d].state # "DONE"}
    IN /\ \A n \in graph.nodes :
            byId[n.id].wave > 0 =>
              /\ byId[n.id].state # "DONE"
              /\ \A d \in Pending(n) : byId[d].wave \in 1..(byId[n.id].wave - 1)
              /\ byId[n.id].wave = 1 + Max({0} \cup {byId[d].wave : d \in Pending(n)})
       /\ Acyclic(graph) =>
            /\ \A n \in graph.nodes : byId[n.id].wave = 0 =>
                 \/ byId[n.id].state = "DONE"
                 \/ \E d \in Pending(n) : byId[d].wave \in {0, WaveCap - 1}
            /\ \A p \in phases(byId) : waveOutcome(byId, p) = "complete" <=> Outstanding(byId, p) = {}
            /\ \A n \in graph.nodes : \A d \in n.needs \cap NodeIds(graph) :
                 byId[d].depth < byId[n.id].depth
       /\ \A p \in phases(byId) : \A s \in collisions(byId, p) : Cardinality(s) <= maxParallel(byId, p)
       /\ \A i, j \in DOMAIN listed : i < j => byId[listed[i]].phase <= byId[listed[j]].phase

(***************************************************************************)
(* unblock explains every blocked deliverable of an acyclic graph: it      *)
(* traces to at least one cause, every cause is something that can be      *)
(* acted on (a decision, an id the graph lacks, a node ready or begun),    *)
(* and once the causes are gone (their decisions answered and their nodes  *)
(* delivered) one of the deliverables they gate is blocked no longer.      *)
(***************************************************************************)
BlockedHasRoots(graph, disk) ==
    LET byId == resolveGraph(graph, disk)
        gates == leverage(byId)
        roots == DOMAIN gates
    IN /\ \A r \in roots \cap NodeIds(graph) : byId[r].readiness \in {"READY", "IN-PROGRESS"}
       /\ Acyclic(graph) => \A id \in Blocked(byId) : \E r \in roots : id \in gates[r]
       /\ Acyclic(graph) /\ Blocked(byId) # {} =>
            \E id \in Blocked(byId) : byId[id].blockedBy \subseteq roots

(***************************************************************************)
(* A unit whose class asks for a review is in exactly one bucket of the    *)
(* cadence and is reviewed there: by the chain its packet dispatches, or   *)
(* by an agent of the wave's or the phase's gate.                          *)
(***************************************************************************)
ReviewRunsWhereItIsDue(units, classes, agents) ==
    LET cadence == reviewCadenceFor(units, classes, agents)
        reviewer == ToSet(resolveRoles(<<"review">>, agents))
        Chain(u) == ToSet(resolveRoles(perPacketCaps(u.changeClass, classes[u.changeClass], u.open), agents))
    IN \A u \in units :
         LET rule == classes[u.changeClass]
             asked == "review" \in ToSet(rule.perPacket \o rule.perWave \o rule.perPhase)
         IN /\ Cardinality({b \in DOMAIN cadence.bucket : u.task_id \in cadence.bucket[b]}) = 1
            /\ asked <=> u.task_id \notin cadence.bucket["none"]
            /\ u.task_id \in cadence.bucket["per-node"] => reviewer \subseteq Chain(u)
            /\ u.task_id \in cadence.bucket["wave"] => reviewer \subseteq cadence.wave_gate_agents
            /\ u.task_id \in cadence.bucket["phase"] => reviewer \subseteq cadence.phase_gate_agents

(***************************************************************************)
(* The packet's slice of the plan is its section whole: it begins with the *)
(* heading asked for, keeps its subsections, and stops before the next     *)
(* section.                                                                *)
(***************************************************************************)
SliceIsTheSection(plan, id) ==
    LET s == sliceSection(plan, id)
        Headings(t) == {i \in DOMAIN t : t[i].level > 0}
    IN /\ s = <<>> <=> ~\E i \in Headings(plan) : plan[i].id = id
       /\ s # <<>> =>
            /\ s[1].id = id
            /\ \A i \in Headings(s) \ {1} : s[i].level > s[1].level
            /\ \E i \in DOMAIN plan :
                 /\ SubSeq(plan, i, i + Len(s) - 1) = s
                 /\ i + Len(s) \in DOMAIN plan => plan[i + Len(s)].level \in 1..s[1].level

(***************************************************************************)
(* The packet a builder works from and the unit the lane gate judges are   *)
(* derived apart (oracle.ts and lanes.ts) and agree: the same surface, the *)
(* same commands, every criterion of the gate among the packet's, and the  *)
(* units that the gate finds free to run (R4, R5, R6) are those told of no *)
(* decision to stop at and of no dependency that is not there.             *)
(***************************************************************************)
PacketAgreesWithUnit(graph, byId, plan, id, unit) ==
    LET p == packet(graph, byId, plan, id)
        free == unit.unknown_deps \cup unit.in_batch_deps \cup unit.unresolved_deps
                  \cup unit.open_decisions = {}
    IN /\ p.own.allowed = unit.allowed /\ p.own.forbidden = unit.forbidden
       /\ p.verify.commands = unit.commands
       /\ unit.criteria \subseteq p.verify.criteria
       /\ id \notin DOMAIN p.depends =>
            (free <=> p.stop = {} /\ \A d \in DOMAIN p.depends : p.depends[d] = "DONE")
       /\ p.slices # {} => unit.has_packet_source
=============================================================================
