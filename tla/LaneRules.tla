----------------------------- MODULE LaneRules -----------------------------
(***************************************************************************)
(* The rules of parallel work (scripts/lanes.ts): who owns which path,     *)
(* when a batch of units may be built at once, in which order the lanes    *)
(* integrate, what a lane's handoff must show, and what a probe may read.  *)
(*                                                                         *)
(* A path is the sequence of its names.  A pattern is [dir, rest]: a path  *)
(* and what may follow it, "literal" (nothing), "*" (one name) or "**"     *)
(* (at least one).  The patterns of graph.json are literals and "**".      *)
(***************************************************************************)
EXTENDS Integers, FiniteSets, Sequences, FiniteSetsExt, SequencesExt

CONSTANT absent    \* a field the handoff does not have: a model value

-----------------------------------------------------------------------------
(* Paths. *)

matchPath(path, pattern) ==
    /\ IsPrefix(pattern.dir, path)
    /\ CASE pattern.rest = "literal" -> path = pattern.dir
         [] pattern.rest = "*"       -> Len(path) = Len(pattern.dir) + 1
         [] pattern.rest = "**"      -> Len(path) > Len(pattern.dir)

anyMatch(path, patterns) == \E pattern \in patterns : matchPath(path, pattern)

literalPrefix(pattern) == pattern.dir

\* Mutant: only a directory inside the other is an overlap, never the reverse.
containsFirst(a, b) == IsPrefix(literalPrefix(a), literalPrefix(b))

patternsOverlap(a, b) == \/ IsPrefix(literalPrefix(a), literalPrefix(b))
                         \/ IsPrefix(literalPrefix(b), literalPrefix(a))

Artifacts == [dir |-> <<".artifacts">>, rest |-> "**"]

\* checkOwnership: reports and telemetry are always a lane's own; forbidden wins.
violates(file, allowed, forbidden) ==
    /\ ~matchPath(file, Artifacts)
    /\ anyMatch(file, forbidden) \/ ~anyMatch(file, allowed)

checkOwnership(changed, allowed, forbidden) == {f \in changed : violates(f, allowed, forbidden)}

-----------------------------------------------------------------------------
(* A batch: units in the order they were named. *)

UnitIds(units) == {units[i].task_id : i \in DOMAIN units}

UnitOf(units, id) == units[Min({i \in DOMAIN units : units[i].task_id = id})]

pathOverlaps(units) ==
    {ij \in (DOMAIN units) \X (DOMAIN units) :
       /\ ij[1] < ij[2]
       /\ \E a \in units[ij[1]].allowed, b \in units[ij[2]].allowed : patternsOverlap(a, b)}

exactCollisions(units) ==
    {ij \in (DOMAIN units) \X (DOMAIN units) :
       ij[1] < ij[2] /\ units[ij[1]].allowed \cap units[ij[2]].allowed # {}}

Claims(unit, surfaces) == \E p \in unit.allowed, s \in surfaces : patternsOverlap(p, s)

\* The fifteen requirements of evaluate.
requirements(units, policy, repo) ==
    LET Every(P(_)) == \A i \in DOMAIN units : P(units[i])
        enough == Len(units) >= Max({2, policy.minUnits})
        judged == Every(LAMBDA u : u.criteria # {} /\ u.commands # <<>>)
        declared == Every(LAMBDA u : u.allowed # {})
        disjoint == pathOverlaps(units) = {}
        unshared == Every(LAMBDA u : ~Claims(u, policy.sharedWriteSurfaces))
    IN [R1 |-> enough,
        R2 |-> Every(LAMBDA u : u.criteria # {}),
        R3 |-> Every(LAMBDA u : u.commands # <<>>),
        R4 |-> Every(LAMBDA u : u.unknown_deps = {}),
        R5 |-> Every(LAMBDA u : u.in_batch_deps = {}),
        R6 |-> Every(LAMBDA u : u.open_decisions = {} /\ u.unresolved_deps = {}),
        R7 |-> declared /\ disjoint,
        R8 |-> exactCollisions(units) = {},
        R9 |-> unshared,
        R10 |-> Every(LAMBDA u : u.commands # <<>> /\ u.allowed # {}),
        R11 |-> unshared /\ disjoint /\ declared,
        R12 |-> enough /\ judged,
        R13 |-> /\ repo.isGitRepo /\ ~repo.operationInProgress /\ repo.conflicted = {}
                /\ Every(LAMBDA u : \A f \in repo.dirty : ~anyMatch(f, u.allowed)),
        R14 |-> Every(LAMBDA u : u.has_packet_source),
        R15 |-> Every(LAMBDA u : u.risk # "high" /\ ~Claims(u, policy.serialiseIfTouches))]

\* The ids in ascending order: each stands behind those below it.
sorted(ids) ==
    [k \in 1..Cardinality(ids) |-> CHOOSE id \in ids : Cardinality({j \in ids : j < id}) = k - 1]

\* What a unit needs of its own batch.
InBatch(units, id) == UnitOf(units, id).needs \cap UnitIds(units)

\* One round of dependencyOrder: the units that wait for none that is pending; a cycle
\* is emitted as it is.
nextRound(units, out) ==
    LET pending == UnitIds(units) \ ToSet(out)
        free == {id \in pending : InBatch(units, id) \subseteq ToSet(out)}
    IN out \o sorted(IF free = {} THEN pending ELSE free)

\* The order after each round.
rounds(units) ==
    LET out[k \in 0..Len(units)] == IF k = 0 THEN <<>> ELSE nextRound(units, out[k - 1])
    IN out

dependencyOrder(units) == rounds(units)[Len(units)]

\* dependents: the lanes that stop when this one fails, and those that stop with them.
halting(units, id) ==
    LET out[k \in 0..Len(units)] ==
          IF k = 0 THEN {}
          ELSE out[k - 1] \cup {u \in UnitIds(units) \ {id} :
                                  UnitOf(units, u).needs \cap (out[k - 1] \cup {id}) # {}}
    IN out

dependents(units, id) == halting(units, id)[Len(units)]

sharedContracts(units) ==
    {d \in UNION {units[i].needs : i \in DOMAIN units} \ UnitIds(units) :
       Cardinality({i \in DOMAIN units : d \in units[i].needs}) >= 2}

laneEntry(units, u) ==
    LET halts == dependents(units, u.task_id)
    IN [task_id |-> u.task_id, halts_if_failed |-> halts,
        independent_of |-> UnitIds(units) \ (halts \cup {u.task_id})]

evaluate(units, policy, repo) ==
    LET req == requirements(units, policy, repo)
        eligible == \A r \in DOMAIN req : req[r]
    IN [eligible |-> eligible,
        mode |-> IF eligible THEN "parallel" ELSE "sequential",
        blockers |-> {r \in DOMAIN req : ~req[r]},
        dependency_order |-> dependencyOrder(units),
        shared_contracts |-> sharedContracts(units),
        lanes |-> [i \in DOMAIN units |-> laneEntry(units, units[i])],
        max_concurrency |-> IF eligible THEN Min({policy.maxConcurrency, Len(units)}) ELSE 1]

\* unitFrom: the four ways a need can stand to a batch; byId gives the states, the
\* graph the decisions, the sections and what no lane may write.
unitFrom(n, byId, batch, graph) ==
    [task_id |-> n.id, needs |-> n.needs, risk |-> n.risk, criteria |-> n.probes,
     commands |-> n.validate, allowed |-> n.allowed,
     forbidden |-> n.forbidden \cup graph.alwaysForbidden,
     unknown_deps |-> n.needs \ DOMAIN byId,
     in_batch_deps |-> n.needs \cap batch,
     unresolved_deps |-> {d \in (n.needs \cap DOMAIN byId) \ batch : byId[d].state # "DONE"},
     open_decisions |-> {d.id : d \in {e \in graph.decisions : ~e.answered /\ n.id \in e.blocks}},
     has_packet_source |-> n.id \in DOMAIN graph.sections /\ graph.sections[n.id] # <<>>]

-----------------------------------------------------------------------------
(* Handoffs. *)

\* The JSON schema (external) makes a DONE lane name a commit and leave nothing unverified.
schemaErrors(h) ==
    IF h.status = "DONE" /\ (h.unverified # {} \/ h.verified = {} \/ h.evidence = <<>>) THEN {"schema"} ELSE {}

isTest(command) == command = "test"

Failed(h) == {i \in DOMAIN h.results : ~h.results[i].passed}

Flaky(h) == {i \in DOMAIN h.results :
               \E j \in DOMAIN h.results : /\ h.results[i].command = h.results[j].command
                                           /\ h.results[i].passed # h.results[j].passed}

\* checkEvidence, the names of the rules that fail.
checkEvidence(h, criteria) ==
    LET done == h.status = "DONE"
        Rule(name, broken) == IF broken THEN {name} ELSE {}
        Classified(i) == h.results[i].command \in h.failures
        EvidenceOf(c) == {e \in ToSet(h.evidence) : e.requirement = c}
        tests == h.tests
    IN Rule("criteria", \E c \in criteria : c \in h.verified <=> c \in h.unverified)
  \cup Rule("results", Len(h.results) # Len(h.commands))
  \cup Rule("commands", \E i \in DOMAIN h.results \cap DOMAIN h.commands :
                          h.results[i].command # h.commands[i])
  \cup Rule("exit code", \E i \in DOMAIN h.results :
                          h.results[i].passed # (h.results[i].exitCode = 0))
  \cup Rule("unclassified", \E i \in Failed(h) : ~Classified(i))
  \cup Rule("failed", done /\ Failed(h) # {})
  \cup Rule("flaky", Flaky(h) # {} /\ (done \/ \E i \in Flaky(h) :
                          ~Classified(i) /\ h.results[i].command \notin h.risks))
  \cup Rule("not PASS", done /\ \E e \in ToSet(h.evidence) : e.result # "PASS")
  \cup Rule("unevidenced", done /\ \E c \in h.verified : EvidenceOf(c) = {})
  \cup Rule("counts", tests # absent /\ tests.discovered # tests.passed + tests.failed + tests.skipped)
  \cup Rule("no tests", done /\ tests # absent /\ tests.discovered < 1)
  \cup Rule("tests failed", done /\ tests # absent /\ tests.failed > 0)
  \cup Rule("uncounted", done /\ tests = absent /\ \E i \in DOMAIN h.commands : isTest(h.commands[i]))
  \cup Rule("no output", h.failures # {} /\ h.artifacts = {})
  \cup Rule("log alone", \E e \in ToSet(h.evidence) : e.source = "log" /\ e.result = "PASS")
  \cup Rule("no artifact", \E e \in ToSet(h.evidence) : e.events /\ ~e.artifact)

\* checkChangedFiles: the claim and the commit, both ways.
checkChangedFiles(claimed, actual) ==
    (IF actual \ claimed # {} THEN {"omitted"} ELSE {}) \cup (IF claimed \ actual # {} THEN {"extra"} ELSE {})

\* Mutant: the self-report stands for the commit.
trustsTheReport(h, unit, commits) ==
    schemaErrors(h)
  \cup (IF h.status = "DONE" /\ h.commit \notin DOMAIN commits THEN {"commit"} ELSE {})
  \cup (IF h.changed # absent /\ checkOwnership(h.changed, unit.allowed, unit.forbidden) # {}
        THEN {"ownership"} ELSE {})
  \cup checkEvidence(h, unit.criteria)

\* validateHandoff with checkCommit: commits gives the files of every commit there is.
validateHandoff(h, unit, commits) ==
    LET resolves == h.status = "DONE" /\ h.commit \in DOMAIN commits
        claimed == IF h.changed = absent THEN {} ELSE h.changed
        files == IF resolves THEN commits[h.commit] ELSE claimed
    IN schemaErrors(h)
  \cup (IF h.status = "DONE" /\ ~resolves THEN {"commit"} ELSE {})
  \cup (IF resolves /\ h.changed # absent THEN checkChangedFiles(h.changed, commits[h.commit]) ELSE {})
  \cup (IF h.task_id # unit.task_id THEN {"task_id"} ELSE {})
  \cup (IF checkOwnership(files, unit.allowed, unit.forbidden) # {} THEN {"ownership"} ELSE {})
  \cup checkEvidence(h, unit.criteria)

-----------------------------------------------------------------------------
(* Probe hygiene. *)

\* What stands behind a trailing slash.
NoName == ""

\* A directory is inside dir/** too: the trailing-slash form of the target.
insideSurface(target, patterns) ==
    anyMatch(target, patterns) \/ anyMatch(Append(target, NoName), patterns)

forbiddenOverlap(target, patterns) ==
    \E p \in patterns : \/ insideSurface(target, {p})
                        \/ p.dir # <<>> /\ IsPrefix(target, p.dir)

\* lintProbes for one target of a node that declares its surface.
lintTarget(target, allowed, forbidden) ==
    insideSurface(target, allowed) /\ ~forbiddenOverlap(target, forbidden)

\* probeTargets: the paths a probe reads.
probeTargets(p) ==
    CASE p.kind \in {"path", "absent"} -> {p.path}
      [] p.kind = "grep"               -> {p.dir \o p.file}
      [] p.kind = "manual"             -> {p.evidence}
      [] OTHER                         -> {}

\* lintProbes for a node: the probes it refuses.
lintProbes(n) ==
    {p \in n.probes : \E t \in probeTargets(p) :
       IF p.kind = "manual" THEN ~insideSurface(t, {Artifacts})
       ELSE n.allowed # {} /\ ~lintTarget(t, n.allowed, n.forbidden)}

-----------------------------------------------------------------------------
(* Properties. *)

(***************************************************************************)
(* A batch that evaluate lets run in parallel is safe to fan out: no file  *)
(* can be inside the surface of two of its lanes, none that a lane may     *)
(* write is a shared write surface, a frozen contract or uncommitted, and  *)
(* everything a lane needs is delivered.                                   *)
(***************************************************************************)
ParallelIsSafe(units, policy, repo, byId, files) ==
    LET d == evaluate(units, policy, repo)
    IN d.eligible =>
         /\ \A i, j \in DOMAIN units : i # j =>
              \A f \in files : ~(anyMatch(f, units[i].allowed) /\ anyMatch(f, units[j].allowed))
         /\ \A i \in DOMAIN units : \A f \in files : anyMatch(f, units[i].allowed) =>
              /\ ~anyMatch(f, policy.sharedWriteSurfaces \cup policy.serialiseIfTouches)
              /\ f \notin repo.dirty
         /\ \A i \in DOMAIN units : \A n \in units[i].needs : n \in DOMAIN byId /\ byId[n].state = "DONE"
         /\ d.max_concurrency \in 1..Len(units)

\* Everything in the batch that the units named need, directly or not: the least set
\* that holds them and what its members need.
Upstream(units, ids) ==
    LET closed == {S \in SUBSET UnitIds(units) :
                     ids \subseteq S /\ \A id \in S : InBatch(units, id) \subseteq S}
    IN {id \in UnitIds(units) : \A S \in closed : id \in S}

\* Needs run in a circle.
circular(units) == \E id \in UnitIds(units) : id \in Upstream(units, InBatch(units, id))

(***************************************************************************)
(* The integration order names every unit once; unless needs run in a      *)
(* circle, what a unit needs comes before it, and the lanes that stop with *)
(* a failed one are exactly those its failure leaves without a need, so    *)
(* the lanes that keep going can be integrated without it.                 *)
(***************************************************************************)
OrderIsRunnable(units) ==
    LET order == dependencyOrder(units)
        At(id) == CHOOSE i \in DOMAIN order : order[i] = id
        entries == {laneEntry(units, UnitOf(units, id)) : id \in UnitIds(units)}
    IN /\ ToSet(order) = UnitIds(units) /\ IsInjective(order)
       /\ circular(units) \/ \A id \in UnitIds(units) : \A n \in InBatch(units, id) : At(n) < At(id)
       /\ \A e \in entries : \A id \in UnitIds(units) \ {e.task_id} :
            id \in e.halts_if_failed <=> e.task_id \in Upstream(units, InBatch(units, id))
       /\ \A e \in entries : e.independent_of \cup e.halts_if_failed = UnitIds(units) \ {e.task_id}

(***************************************************************************)
(* A handoff that validates as DONE shows the work: every criterion of the *)
(* packet is verified by evidence that passed, is more than a log and      *)
(* cites no event without the artifact that holds it, no command of it     *)
(* failed in any run, a test suite found tests and failed none, and the    *)
(* commit it names touched only files the lane owns, whatever the handoff  *)
(* claims it changed.                                                      *)
(***************************************************************************)
DoneIsEvidenced(h, unit, commits) ==
    h.status = "DONE" /\ validateHandoff(h, unit, commits) = {} =>
      /\ \A c \in unit.criteria : \E e \in ToSet(h.evidence) :
           /\ e.requirement = c /\ e.result = "PASS" /\ e.source # "log"
           /\ e.events => e.artifact
      /\ \A i \in DOMAIN h.commands : h.results[i].command = h.commands[i] /\ h.results[i].exitCode = 0
      /\ \A i \in DOMAIN h.commands : isTest(h.commands[i]) => h.tests.passed + h.tests.skipped > 0
      /\ \A f \in commits[h.commit] :
           anyMatch(f, unit.allowed \cup {Artifacts}) /\ (anyMatch(f, unit.forbidden) => matchPath(f, Artifacts))

(***************************************************************************)
(* A probe that the lint lets through reads only files its own node may    *)
(* write, so no other lane's work can turn the node DONE.  The lint takes  *)
(* the dir of a surface dir/** for a directory and a literal for a file;   *)
(* a node without a surface is not checked.                                *)
(***************************************************************************)
ProbesReadTheirOwn(n, files) ==
    n.allowed # {} =>
      \A p \in n.probes \ lintProbes(n) : \A t \in probeTargets(p), f \in files :
        /\ IsPrefix(t, f)
        /\ \A q \in n.allowed \cup {Artifacts} :
             IF q.rest = "**" THEN f # q.dir ELSE ~IsStrictPrefix(q.dir, f)
        => checkOwnership({f}, n.allowed, n.forbidden) = {}
=============================================================================
