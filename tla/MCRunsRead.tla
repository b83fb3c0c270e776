----------------------------- MODULE MCRunsRead -----------------------------
EXTENDS RunsRead

Child(kind, id, at, tokens, success) ==
    [kind |-> kind, run |-> 1, id |-> id, at |-> at,
     metadata |-> IF id = 1 THEN "malformed" ELSE null, inputTokens |-> tokens, success |-> success]

\* Two steps of one batch (one instant), a call without a token count, a failed
\* tool call.
MCChildren == {Child("steps", 1, 0, null, TRUE), Child("steps", 2, 0, null, TRUE),
               Child("modelCalls", 1, 0, null, TRUE), Child("toolCalls", 1, 0, null, FALSE)}

(***************************************************************************)
(* Three parts of the state space: the list is walked while runs are       *)
(* created by two requests at a time, in either order; the list is read    *)
(* while run 1 and its step report; the page of run 1 is read while its    *)
(* rows are written.                                                       *)
(***************************************************************************)
Busy(r) == ingest[r] # null \/ loaded[r] # null

OnlyRun1 == Stored \subseteq {1} /\ \A r \in Runs \ {1} : ~Busy(r)

ReadsList == /\ \A r \in Stored : runs[r].dropped = null
             /\ request.kind \in {"none", "list"}
             /\ page.kind \in {"blank", "list", "failure"}

Walking == /\ ReadsList
           /\ children = {}
           /\ Cardinality({r \in Runs : Busy(r)}) <= 2
           /\ \A r \in Runs : loaded[r] # null => r \notin Stored

Reporting == ReadsList /\ OnlyRun1 /\ children \subseteq {Child("steps", 1, 0, null, TRUE)}

Detailing == OnlyRun1 /\ clock = 0 /\ request.kind # "list" /\ page.kind # "list"

OnePart == Walking \/ Reporting \/ Detailing
=============================================================================
