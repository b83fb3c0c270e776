------------------------------ MODULE MCLanes ------------------------------
(***************************************************************************)
(* Two lanes: side by side, one needing the other, and on one surface.     *)
(***************************************************************************)
EXTENDS Lanes

Dir(d) == [dir |-> d, rest |-> "**"]

Unit(id, needs, allowed) ==
    [task_id |-> id, needs |-> needs, risk |-> "low", criteria |-> {"c"}, commands |-> <<"test">>,
     allowed |-> allowed, forbidden |-> {Dir(<<"a", "secret">>)}, unknown_deps |-> {},
     in_batch_deps |-> needs, unresolved_deps |-> {}, open_decisions |-> {},
     has_packet_source |-> TRUE]

MCBatches == {<<Unit(2, {}, {Dir(<<"a">>)}), Unit(1, {}, {Dir(<<"b">>)})>>,
              <<Unit(1, {2}, {Dir(<<"a">>)}), Unit(2, {}, {Dir(<<"b">>)})>>,
              <<Unit(1, {}, {Dir(<<"a">>)}), Unit(2, {}, {Dir(<<"a", "x">>)})>>}

MCOneLane == {<<Unit(1, {}, {Dir(<<"a">>)})>>}

MCPolicy == [minUnits |-> 2, maxConcurrency |-> 2, sharedWriteSurfaces |-> {},
             serialiseIfTouches |-> {}]

MCRepo == [isGitRepo |-> TRUE, operationInProgress |-> FALSE, conflicted |-> {}, dirty |-> {}]

MCFiles == {<<"a", "x", "f">>, <<"a", "secret", "k">>, <<"b", "g">>}

Base == [risks |-> {}, artifacts |-> {}, failures |-> {}]

\* A lane that is done and shows it, and one that is blocked.
MCHandoffs ==
    {Base @@ [status |-> "DONE", verified |-> {"c"}, unverified |-> {},
              commands |-> <<"test">>, results |-> <<[command |-> "test", exitCode |-> 0, passed |-> TRUE]>>,
              tests |-> [discovered |-> 1, passed |-> 1, failed |-> 0, skipped |-> 0],
              evidence |-> <<[requirement |-> "c", result |-> "PASS", source |-> "test",
                             events |-> FALSE, artifact |-> FALSE]>>],
     Base @@ [status |-> "BLOCKED", verified |-> {}, unverified |-> {"c"}, results |-> <<>>,
              commands |-> <<>>, tests |-> absent, evidence |-> <<>>]}
=============================================================================
