------------------------------- MODULE Lanes -------------------------------
(***************************************************************************)
(* A batch of units from `lanes decide` to the merge: agents work in       *)
(* worktrees of their own, at the concurrency the decision allows, commit, *)
(* hand off and rewrite their handoffs, while `lanes integrate` reads one  *)
(* handoff after another in dependency order.  An agent may edit any file  *)
(* and claim anything of a commit of its branch; the gates are the         *)
(* code's.                                                                 *)
(***************************************************************************)
EXTENDS LaneRules, TLC

CONSTANTS
    Batches,       \* the batches a decision may be asked for
    policy,        \* lanePolicy of the graph
    repo,          \* repoState at the decision
    Files,         \* the files an agent may touch
    Handoffs,      \* what an agent may write besides its commit and changed_files
    MaxCommits     \* bound on the commits of a lane

\* A batch has units (the commands refuse an empty list), its ids can be compared and its
\* paths are sequences of names.
ASSUME BatchAssumption ==
    \A b \in Batches :
      /\ b # <<>> /\ b \in Seq(ToSet(b))
      /\ \A i \in DOMAIN b : /\ b[i].task_id \in Nat
                             /\ \A p \in b[i].allowed : p.dir \in Seq(STRING)

ASSUME BoundsAssumption ==
    MaxCommits \in Nat /\ policy.maxConcurrency \in Nat /\ Files \subseteq Seq(STRING)

\* The handoff file of a lane: what its agent says of the work, and of the commit.
Report(h, id, commit, changed) == h @@ [task_id |-> id, commit |-> commit, changed |-> changed]

Reports(b) == {Report(h, id, commit, changed) : h \in Handoffs, id \in UnitIds(b),
                                                commit \in 0..MaxCommits, changed \in {absent, {}}}

\* A decision or a handoff that was written is not absent, and a handoff says how it ended.
ASSUME AbsentAssumption ==
    \A b \in Batches : /\ evaluate(b, policy, repo) # absent
                       /\ absent \notin Reports(b)
                       /\ \A r \in Reports(b) : r.status \in STRING

VARIABLES
    units,        \* the batch
    decision,     \* what evaluate answered, or absent
    started,      \* the lanes dispatched
    dirty,        \* uncommitted files, by lane
    branch,       \* the commits of lane/<id>, each the set of files it touches
    handoff,      \* the handoff file of each lane, or absent
    gate,         \* the integrate process: idle, its position in the order, or its exit
    main,         \* the lanes merged, in order
    ledger        \* the lines of lanes.jsonl: <<task or absent, event, verdict>>

vars == <<units, decision, started, dirty, branch, handoff, gate, main, ledger>>

IdsOf(b) == UnitIds(b)

Idle == [at |-> 0, integrated |-> <<>>, exit |-> "none"]

Init == /\ units \in Batches
        /\ decision = absent
        /\ started = {}
        /\ dirty = [id \in IdsOf(units) |-> {}]
        /\ branch = [id \in IdsOf(units) |-> <<>>]
        /\ handoff = [id \in IdsOf(units) |-> absent]
        /\ gate = Idle
        /\ main = <<>>
        /\ ledger = {}

\* recordTelemetry: one line per batch, task and event; a second one is dropped.
recordTelemetry(task, event, verdict) ==
    ledger' = IF \E line \in ledger : line[1] = task /\ line[2] = event
              THEN ledger
              ELSE ledger \cup {<<task, event, verdict>>}

\* lanes decide.
Decide == /\ decision = absent
          /\ decision' = evaluate(units, policy, repo)
          /\ recordTelemetry(absent, "decide", decision'.eligible)
          /\ UNCHANGED <<units, started, dirty, branch, handoff, gate, main>>

Working == {id \in started : handoff[id] = absent}

\* advice: a parallel batch is dispatched at its concurrency, a sequential one in order.
Dispatch(id) ==
    /\ decision # absent
    /\ id \notin started
    /\ Cardinality(Working) < decision.max_concurrency
    /\ ~decision.eligible =>
         LET order == decision.dependency_order
         IN \E i \in DOMAIN order : order[i] = id /\ \A j \in 1..(i - 1) : order[j] \in started
    /\ started' = started \cup {id}
    /\ UNCHANGED <<units, decision, dirty, branch, handoff, gate, main, ledger>>

\* The agent in the worktree.
Edit(id, file) == /\ id \in started
                  /\ Len(branch[id]) < MaxCommits
                  /\ dirty' = [dirty EXCEPT ![id] = @ \cup {file}]
                  /\ UNCHANGED <<units, decision, started, branch, handoff, gate, main, ledger>>

\* lanes check: the uncommitted files against the surface.
Check(id) ==
    /\ dirty[id] # {}
    /\ LET u == UnitOf(units, id)
       IN recordTelemetry(id, "lane-gate", checkOwnership(dirty[id], u.allowed, u.forbidden) = {})
    /\ UNCHANGED <<units, decision, started, dirty, branch, handoff, gate, main>>

Commit(id) == /\ dirty[id] # {}
              /\ Len(branch[id]) < MaxCommits
              /\ branch' = [branch EXCEPT ![id] = Append(@, dirty[id])]
              /\ dirty' = [dirty EXCEPT ![id] = {}]
              /\ UNCHANGED <<units, decision, started, handoff, gate, main, ledger>>

\* The commits git can resolve for a lane.
CommitsOf(id) == [i \in DOMAIN branch[id] |-> branch[id][i]]

\* The agent writes its handoff, or writes it again: its newest commit (0 when there
\* is none) and a changed_files that is absent or says nothing.
HandOff(id) ==
    /\ id \in started
    /\ \E h \in Handoffs, changed \in {absent, {}} :
         handoff' = [handoff EXCEPT ![id] = Report(h, id, Len(branch[id]), changed)]
    /\ UNCHANGED <<units, decision, started, dirty, branch, gate, main, ledger>>

-----------------------------------------------------------------------------
(* lanes integrate. *)

Order == dependencyOrder(units)

IntegrateStart == /\ decision # absent
                  /\ gate.exit # "ok"
                  /\ gate.at = 0
                  /\ gate' = [at |-> 1, integrated |-> <<>>, exit |-> "none"]
                  /\ UNCHANGED <<units, decision, started, dirty, branch, handoff, main, ledger>>

Clashes(unit, integrated) ==
    \E prev \in ToSet(integrated) :
      \E a \in UnitOf(units, prev).allowed, b \in unit.allowed : patternsOverlap(a, b)

\* Mutant: any handoff that validates is integrated, DONE or not.
anyValid(id, integrated) ==
    /\ handoff[id] # absent
    /\ validateHandoff(handoff[id], UnitOf(units, id), CommitsOf(id)) = {}
    /\ ~Clashes(UnitOf(units, id), integrated)

Passes(id, integrated) ==
    /\ handoff[id] # absent
    /\ validateHandoff(handoff[id], UnitOf(units, id), CommitsOf(id)) = {}
    /\ handoff[id].status = "DONE"
    /\ ~Clashes(UnitOf(units, id), integrated)

Finish(blocked, integrated) ==
    /\ gate' = [at |-> 0, integrated |-> integrated, exit |-> IF blocked THEN "blocked" ELSE "ok"]
    /\ recordTelemetry(absent, "integration-gate", ~blocked)

\* One turn of the loop; it stops at the first lane that does not pass.
IntegrateNext ==
    /\ gate.at \in DOMAIN Order
    /\ LET id == Order[gate.at]
       IN IF ~Passes(id, gate.integrated)
          THEN Finish(TRUE, gate.integrated)
          ELSE IF gate.at = Len(Order)
          THEN Finish(FALSE, Append(gate.integrated, id))
          ELSE /\ gate' = [gate EXCEPT !.at = @ + 1, !.integrated = Append(@, id)]
               /\ UNCHANGED ledger
    /\ UNCHANGED <<units, decision, started, dirty, branch, handoff, main>>

\* Mutant: the plan lists the lanes as they were named.
planAsNamed == [i \in DOMAIN units |-> units[i].task_id]

\* integrationPlan: the INTEGRATE steps, in order.
integrationPlan == Order

\* The integrator runs the plan once the gate exits 0: git merge --no-ff lane/<id>.
Merge == /\ gate.exit = "ok"
         /\ Len(main) < Len(integrationPlan)
         /\ LET id == integrationPlan[Len(main) + 1]
            IN main' = Append(main, [id |-> id, files |-> UNION ToSet(branch[id]),
                                     status |-> handoff[id].status])
         /\ UNCHANGED <<units, decision, started, dirty, branch, handoff, gate, ledger>>

Next == \/ Decide \/ IntegrateStart \/ IntegrateNext \/ Merge
        \/ \E id \in IdsOf(units) : Dispatch(id) \/ Check(id) \/ Commit(id) \/ HandOff(id)
        \/ \E id \in IdsOf(units), f \in Files : Edit(id, f)

Spec == Init /\ [][Next]_vars

-----------------------------------------------------------------------------
(* Properties. *)

TypeOK ==
    /\ units \in Batches
    /\ started \subseteq IdsOf(units)
    /\ dirty \in [IdsOf(units) -> SUBSET Files]
    /\ \A id \in IdsOf(units) : Len(branch[id]) <= MaxCommits
    /\ gate.at \in 0..Len(Order) /\ gate.exit \in {"none", "ok", "blocked"}
    /\ Len(main) <= Len(units)

(***************************************************************************)
(* Whatever the agents edited and claimed, a merged lane brings only files *)
(* inside its own surface: the integration gate compares the commit, not   *)
(* the report.                                                             *)
(***************************************************************************)
MergedFilesAreOwned ==
    \A i \in DOMAIN main :
      LET u == UnitOf(units, main[i].id)
      IN checkOwnership(main[i].files, u.allowed, u.forbidden) = {}

(***************************************************************************)
(* No file outside .artifacts is changed by two merged lanes, in a batch   *)
(* that ran in parallel or one after the other, so no merge of the plan    *)
(* can conflict.                                                           *)
(***************************************************************************)
MergesDoNotConflict ==
    \A i, j \in DOMAIN main :
      i < j => \A f \in main[i].files \cap main[j].files : matchPath(f, Artifacts)

(***************************************************************************)
(* A lane is merged after every lane of the batch it needs, and only when  *)
(* every lane of the batch was DONE when the gate read its handoff.        *)
(***************************************************************************)
MergedInDependencyOrder ==
    \A i \in DOMAIN main :
      \A n \in UnitOf(units, main[i].id).needs \cap IdsOf(units) :
        \E j \in 1..(i - 1) : main[j].id = n

(***************************************************************************)
(* The gate lets a batch through only with a commit of every lane behind   *)
(* it: no lane is integrated whose agent said it was blocked, or that was  *)
(* never dispatched.                                                       *)
(***************************************************************************)
GateWantsEveryLane ==
    [][gate'.exit = "ok" /\ gate.exit # "ok" =>
         \A id \in IdsOf(units) : id \in started /\ branch[id] # <<>>]_vars

(***************************************************************************)
(* Two lanes of a batch are at work at the same time only when evaluate    *)
(* called it parallel, and then no more than its max_concurrency.          *)
(***************************************************************************)
ConcurrencyIsGranted ==
    Cardinality(Working) > 1 =>
      /\ requirements(units, policy, repo).R5 /\ requirements(units, policy, repo).R7
      /\ Cardinality(Working) <= policy.maxConcurrency

(***************************************************************************)
(* The ledger holds one line for a batch, task and event, and a line that  *)
(* is there stays: of several runs of a gate it keeps the first verdict.   *)
(***************************************************************************)
LedgerKeepsFirst ==
    \A l, m \in ledger : l[1] = m[1] /\ l[2] = m[2] => l = m

(***************************************************************************)
(* Whatever the agents do, what reaches main is orderly: no two merged     *)
(* lanes can conflict, each comes after what it needs, lanes ran together  *)
(* only as evaluate allowed, and the ledger of the gates is never revised. *)
(***************************************************************************)
IntegrationIsSafe ==
    TypeOK /\ MergesDoNotConflict /\ MergedInDependencyOrder /\ ConcurrencyIsGranted /\ LedgerKeepsFirst
=============================================================================
