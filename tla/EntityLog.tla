----------------------------- MODULE EntityLog -----------------------------
(***************************************************************************)
(* What the handles of the SDK promise the server about one process: a log *)
(* in which an entity is opened before anything else is said of it and     *)
(* only once, closed at most once, and never moved to another run.  An     *)
(* event may be missing (the client lost it), never repeated or reordered. *)
(***************************************************************************)
EXTENDS Naturals, Sequences

CONSTANTS
    Entities,   \* ids of runs, steps, calls, errors and decisions
    Runs        \* ids of runs

VARIABLE log    \* sequence of [entity, run, what]

Saying == {"opens", "closes", "attests"}

Entry == [entity : Entities, run : Runs, what : Saying]

Of(e) == {i \in DOMAIN log : log[i].entity = e}

\* Nothing was said of the entity yet.
New(e) == Of(e) = {}

Closed(e) == \E i \in Of(e) : log[i].what = "closes"

SameRun(e, r) == \A i \in Of(e) : log[i].run = r

Opens(e, r) == New(e) /\ log' = Append(log, [entity |-> e, run |-> r, what |-> "opens"])

Closes(e, r) ==
    /\ ~Closed(e)
    /\ SameRun(e, r)
    /\ log' = Append(log, [entity |-> e, run |-> r, what |-> "closes"])

\* An outcome may be attested again: the last one counts.
Attests(e, r) == SameRun(e, r) /\ log' = Append(log, [entity |-> e, run |-> r, what |-> "attests"])

Init == log = <<>>

Next == \E e \in Entities, r \in Runs : Opens(e, r) \/ Closes(e, r) \/ Attests(e, r)

Spec == Init /\ [][Next]_log
=============================================================================
