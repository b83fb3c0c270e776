---------------------------- MODULE MCSupervisor ----------------------------
(***************************************************************************)
(* A small instance of Supervisor for TLC: a segment whose second packet   *)
(* builds on its first, and a segment after it.                            *)
(***************************************************************************)
EXTENDS Supervisor, TLC

MCNodes == {"a1", "a2", "b1"}

MCOrder == <<"A", "B">>

MCSegmentOf == ("a1" :> "A") @@ ("a2" :> "A") @@ ("b1" :> "B")

MCNeeds == ("a1" :> {}) @@ ("a2" :> {"a1"}) @@ ("b1" :> {})

Repository(a1, a2, b1, open, bad, segment, recovering) ==
    [built |-> ("a1" :> a1) @@ ("a2" :> a2) @@ ("b1" :> b1), undecided |-> open, broken |-> bad,
     checkpoint |-> [segment |-> segment, recovering |-> recovering]]

\* The first segment is half built, and work on the second has started; the first
\* segment is built, so history closes it, and a decision is open; the graph is
\* broken, and a recovery is in flight.
MCRepositories ==
    {Repository("DONE", "TODO", "PARTIAL", {}, FALSE, "A", FALSE),
     Repository("DONE", "DONE", "TODO", {"b1"}, FALSE, "A", FALSE),
     Repository("DONE", "DONE", "DONE", {}, TRUE, NoSegment, TRUE)}

\* A gate's worker and a repair worker, of either segment, break a packet of the first;
\* a packet's own worker breaks what it has just built.
MCBreaks == {<<"gating", "a2">>, <<"repair", "a2">>, <<"dispatching", "b1">>}

\* Nothing is delivered, and a probe of the second segment's packet holds already.
UndeliveredRepositories == {Repository("TODO", "TODO", "PARTIAL", {}, FALSE, "A", FALSE)}

\* A packet of the first segment awaits a decision, and work on the second has started.
OvertakenRepositories == {Repository("DONE", "TODO", "PARTIAL", {"a2"}, FALSE, "A", FALSE)}

\* The packets of a segment are independent of one another.
FlatNeeds == ("a1" :> {}) @@ ("a2" :> {}) @@ ("b1" :> {})
=============================================================================
