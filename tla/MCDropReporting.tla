-------------------------- MODULE MCDropReporting ---------------------------
(***************************************************************************)
(* Instance of DropReporting.  A batch names the one run or none; folding  *)
(* one run never reads another's row.                                      *)
(***************************************************************************)
EXTENDS DropReporting

\* All of the state but `mark`, the history that only TelemetryClient's own
\* properties look at.
WithoutMark == <<queue, counters, delivery, outcome, flushTimer, closed, abandoned,
                 shut, flush, calls, network, server>>
=============================================================================
