------------------------------ MODULE Handles ------------------------------
(***************************************************************************)
(* The run, step and decision handles of the SDK (handles.ts), over a      *)
(* client whose record() accepts an event, drops it and counts the drop,   *)
(* or is closed.                                                           *)
(*                                                                         *)
(* Building a payload calls host code (the redaction hook, toJSON, a       *)
(* getter), and host code may use the handles: a call begins, other calls  *)
(* may be made inside it, and it ends by recording its event, or an        *)
(* exception of host code ends it.  The stack holds the calls that have    *)
(* begun.                                                                  *)
(***************************************************************************)
EXTENDS Naturals, Sequences, FiniteSets, SequencesExt

CONSTANTS
    MaxIds,     \* bound: entities the process makes
    MaxCalls,   \* bound: calls of the host
    MaxNesting, \* bound: calls inside calls
    Inputs,     \* of "sound" and "throwing": what reading the host's values does
    null

ASSUME HandlesAssumption == MaxIds \in Nat /\ MaxCalls \in Nat /\ MaxNesting \in Nat \ {0}

VARIABLES
    issued,     \* entity ids handed out so far: 1..issued
    handles,    \* handles[id]: the handle the host holds, or null
    stack,      \* calls that have begun, the outermost first
    wire,       \* events the queue accepted, in order
    lost,       \* events that were dropped, each counted in stats()
    closed,     \* shutdown() was called
    ignored,    \* diagnostics completion_ignored
    thrown,     \* events of the calls that threw into host code
    calls       \* calls the host has made

vars == <<issued, handles, stack, wire, lost, closed, ignored, thrown, calls>>

Ids == 1..MaxIds

\* A decision of an earlier process, whose id and run the host has kept.
Kept == 0

Types == {"run.started", "step.started", "run.completed", "step.completed", "tool_call.recorded",
          "model_call.recorded", "error.recorded", "decision.recorded", "decision.outcome_attested"}

Status == {"COMPLETED", "FAILED"}

\* step: the stepId or the parentStepId of the payload.
Event == [type : Types, entity : Ids \cup {Kept}, run : Ids \cup {Kept}, step : Ids \cup {null},
          status : Status \cup {null}]

Handle == [kind : {"run", "step", "decision"}, run : Ids, completed : BOOLEAN]

ASSUME NullAssumption == null \notin Ids /\ null \notin Handle

TypeOK ==
    /\ issued \in 0..MaxIds
    /\ handles \in [Ids -> Handle \cup {null}]
    /\ stack \in Seq(Event) /\ wire \in Seq(Event) /\ lost \in Seq(Event) /\ thrown \in Seq(Event)
    /\ closed \in BOOLEAN
    /\ ignored \in 0..MaxCalls /\ calls \in 0..MaxCalls

Init ==
    /\ issued = 0
    /\ handles = [id \in Ids |-> null]
    /\ stack = <<>> /\ wire = <<>> /\ lost = <<>> /\ thrown = <<>>
    /\ closed = FALSE
    /\ ignored = 0 /\ calls = 0

-----------------------------------------------------------------------------

Made(type, entity, run, step, status) ==
    [type |-> type, entity |-> entity, run |-> run, step |-> step, status |-> status]

\* The host makes a call: at the top level, or inside the payload of another.
Calls == calls < MaxCalls /\ calls' = calls + 1

\* The call has its id and builds its payload.
Begins(event) == Len(stack) < MaxNesting /\ stack' = Append(stack, event)

Held(kind) == {id \in Ids : handles[id] # null /\ handles[id].kind = kind}

\* record: what the queue takes (checkEnvelope may refuse anything), or a counted drop.
record(event) ==
    \/ ~closed /\ wire' = Append(wire, event) /\ UNCHANGED lost
    \/ lost' = Append(lost, event) /\ UNCHANGED wire

\* Mutant: a generator that gives the last id again.
givenAgain == IF issued = 0 THEN 1 ELSE issued

nextId == issued + 1

createRun ==
    /\ Calls /\ nextId \in Ids /\ issued' = nextId
    /\ Begins(Made("run.started", nextId, nextId, null, null))
    /\ UNCHANGED <<handles, wire, lost, closed, ignored, thrown>>

\* Mutant: the parent of a top-level step is its run.
underTheRun ==
    /\ Calls /\ nextId \in Ids /\ issued' = nextId
    /\ \E h \in Held("run") \cup Held("step") :
         Begins(Made("step.started", nextId, handles[h].run, h, null))
    /\ UNCHANGED <<handles, wire, lost, closed, ignored, thrown>>

\* startStep of a run (no parent) or of a step.
createStep ==
    /\ Calls /\ nextId \in Ids /\ issued' = nextId
    /\ \E h \in Held("run") \cup Held("step") :
         Begins(Made("step.started", nextId, handles[h].run,
                     IF handles[h].kind = "step" THEN h ELSE null, null))
    /\ UNCHANGED <<handles, wire, lost, closed, ignored, thrown>>

\* recordToolCall, recordModelCall, recordError and recordDecision of a step.
recordOf(types) ==
    /\ Calls /\ nextId \in Ids /\ issued' = nextId
    /\ \E h \in Held("step"), type \in types : Begins(Made(type, nextId, handles[h].run, h, null))
    /\ UNCHANGED <<handles, wire, lost, closed, ignored, thrown>>

recordToolCall == recordOf({"tool_call.recorded"})

recordModelCall == recordOf({"model_call.recorded"})

recordError == recordOf({"error.recorded"})

recordDecision == recordOf({"decision.recorded"})

Completion(h) == IF handles[h].kind = "run" THEN "run.completed" ELSE "step.completed"

\* Mutant: the flag is set once the event is recorded.
setAfterwards(h) ==
    /\ Calls
    /\ IF handles[h].completed
       THEN ignored' = ignored + 1 /\ UNCHANGED <<handles, stack>>
       ELSE /\ \E status \in Status :
                 Begins(Made(Completion(h), h, handles[h].run, null, status))
            /\ UNCHANGED <<handles, ignored>>
    /\ UNCHANGED <<issued, wire, lost, closed, thrown>>

\* createCompleter: the flag is set before the payload is built, and stays set if that throws.
complete(h) ==
    /\ Calls
    /\ IF handles[h].completed
       THEN ignored' = ignored + 1 /\ UNCHANGED <<handles, stack>>
       ELSE /\ handles' = [handles EXCEPT ![h].completed = TRUE]
            /\ \E status \in Status :
                 Begins(Made(Completion(h), h, handles[h].run, null, status))
            /\ UNCHANGED ignored
    /\ UNCHANGED <<issued, wire, lost, closed, thrown>>

\* The attestation of a decision in its run.
Attested(d) ==
    Made("decision.outcome_attested", d, IF d = Kept THEN Kept ELSE handles[d].run, null, null)

\* recordAttestation: by the handle, or by id for a decision of an earlier process.  Its
\* payload passes no sanitizer; an invalid observedAt makes toISOString throw.
recordAttestation ==
    /\ Calls
    /\ \E d \in Held("decision") \cup {Kept}, observedAt \in Inputs :
         \/ observedAt = "sound" /\ record(Attested(d)) /\ UNCHANGED thrown
         \/ observedAt = "throwing" /\ thrown' = Append(thrown, Attested(d)) /\ UNCHANGED <<wire, lost>>
    /\ UNCHANGED <<issued, handles, stack, closed, ignored>>

Innermost == Last(stack)

\* The handle a call returns; a tool call, a model call and an error return only an id.
HandleOf(event) ==
    CASE event.type = "run.started"       -> [kind |-> "run", run |-> event.run, completed |-> FALSE]
      [] event.type = "step.started"      -> [kind |-> "step", run |-> event.run, completed |-> FALSE]
      [] event.type = "decision.recorded" -> [kind |-> "decision", run |-> event.run, completed |-> FALSE]
      [] OTHER                            -> handles[event.entity]

\* The innermost call records its event and returns its handle, whether the event was taken or not.
Ends ==
    /\ stack # <<>>
    /\ record(Innermost)
    /\ handles' = [handles EXCEPT ![Innermost.entity] = HandleOf(Innermost)]
    /\ stack' = Front(stack)
    /\ UNCHANGED <<issued, closed, ignored, thrown, calls>>

\* Host code throws out of the innermost call before record(): a getter on its input, the
\* toJSON property or an array element read outside every guard, an invalid Date of a tool
\* call.  The call returns no handle and sends nothing, counted nowhere.
Throws ==
    /\ stack # <<>> /\ "throwing" \in Inputs
    /\ thrown' = Append(thrown, Innermost)
    /\ stack' = Front(stack)
    /\ UNCHANGED <<issued, handles, wire, lost, closed, ignored, calls>>

\* shutdown() closes the client at once; it may be called inside another call.
shutdown ==
    /\ ~closed
    /\ closed' = TRUE
    /\ UNCHANGED <<issued, handles, stack, wire, lost, ignored, thrown, calls>>

Next ==
    \/ createRun \/ createStep \/ recordToolCall \/ recordModelCall \/ recordError \/ recordDecision
    \/ \E h \in Held("run") \cup Held("step") : complete(h)
    \/ recordAttestation \/ Ends \/ Throws \/ shutdown

Spec == Init /\ [][Next]_vars

-----------------------------------------------------------------------------
(* Properties. *)

What(type) ==
    CASE type \in {"run.completed", "step.completed"} -> "closes"
      [] type = "decision.outcome_attested"           -> "attests"
      [] OTHER                                        -> "opens"

\* What the server is told, event by event.
Told(event) == [entity |-> event.entity, run |-> event.run, what |-> What(event.type)]

Log == [i \in DOMAIN wire |-> Told(wire[i])]

(***************************************************************************)
(* The events the queue accepted are a log of entities: the start of an    *)
(* entity precedes everything said of it, nothing starts or completes      *)
(* twice, and no entity changes its run, whatever host code does while a   *)
(* payload is built and whichever events are lost.                         *)
(***************************************************************************)
EntityLog == INSTANCE EntityLog
    WITH Entities <- Ids \cup {Kept}, Runs <- Ids \cup {Kept}, log <- Log

HandlesKeepTheLog == EntityLog!Spec

Began(id, events) ==
    \E i \in DOMAIN events : events[i].entity = id /\ events[i].type = "step.started"

(***************************************************************************)
(* The tree of a run is whole or its loss is counted: the step an event    *)
(* names is a step of the same run, and its start was accepted before the  *)
(* event or is among the counted drops.                                    *)
(***************************************************************************)
ParentsPrecede ==
    \A i \in DOMAIN wire :
      wire[i].step # null =>
        /\ handles[wire[i].step].kind = "step" /\ handles[wire[i].step].run = wire[i].run
        /\ Began(wire[i].step, SubSeq(wire, 1, i - 1)) \/ Began(wire[i].step, lost)

(***************************************************************************)
(* No call disappears: each one became an event in the queue, a counted    *)
(* drop, a noted second completion or an exception, and nothing else did.  *)
(***************************************************************************)
CallsAreAccounted == calls = Len(wire) + Len(lost) + ignored + Len(thrown) + Len(stack)

Completions(h, events) == Cardinality({i \in DOMAIN events : events[i].entity = h /\ What(events[i].type) = "closes"})

(***************************************************************************)
(* The first complete() of a handle decides: exactly one completion of it  *)
(* is accepted, counted as dropped, still being built or ended by an       *)
(* exception of host code, and a handle that was not completed has none.   *)
(* So a completion that threw is never sent by a later call either.        *)
(***************************************************************************)
FirstCompletionDecides ==
    \A h \in Held("run") \cup Held("step") :
      Completions(h, wire) + Completions(h, lost) + Completions(h, stack) + Completions(h, thrown)
        = IF handles[h].completed THEN 1 ELSE 0

(***************************************************************************)
(* What the SDK's README promises ("The SDK never throws into host code")  *)
(* and the code does not keep: see the README of this project.  No run     *)
(* checks it.                                                              *)
(***************************************************************************)
NeverThrows == thrown = <<>>

(***************************************************************************)
(* The events of a process are a whole tree or their loss is counted: no   *)
(* call disappears, and none names a step that was never announced.        *)
(***************************************************************************)
HandlesAreSound == TypeOK /\ ParentsPrecede /\ CallsAreAccounted
=============================================================================
