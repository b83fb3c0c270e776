------------------------------- MODULE Worker -------------------------------
(***************************************************************************)
(* One worker of the autopilot (scripts/autopilot/worker.ts), the bounds a *)
(* run is started under (optionsFrom in scripts/autopilot.ts and           *)
(* repair-policy.ts), and what a finished process is taken for.            *)
(*                                                                         *)
(* A value that is not given is absent.  Text is a model of what is read   *)
(* from it: a permission mode is itself, an argument is its text and       *)
(* whether a shell would reinterpret it.                                   *)
(***************************************************************************)
EXTENDS Integers, Sequences, FiniteSets, TLC

CONSTANT absent

\* repair-policy.ts and worker.ts
STANDING_REPAIR_BOUND == 2

DEFAULT_PERMISSION_MODE == "auto"

SUPERVISED_PERMISSION_MODES == {"auto", "acceptEdits", "dontAsk", "bypassPermissions"}

Refused == [ok |-> FALSE]

NoMode == ""

\* From AUTOPILOT_PERMISSION_MODE.
resolvePermissionPosture(raw) ==
    CASE raw \in {absent, NoMode} -> [ok |-> TRUE, mode |-> DEFAULT_PERMISSION_MODE, bypassed |-> FALSE]
      [] raw \in SUPERVISED_PERMISSION_MODES -> [ok |-> TRUE, mode |-> raw, bypassed |-> raw = "bypassPermissions"]
      [] OTHER -> Refused

standingPolicy == [ok |-> TRUE, bound |-> STANDING_REPAIR_BOUND, charter |-> absent, overridden |-> FALSE]

\* From --max-repairs (a whole number or not) and --charter (a file that exists or not).
resolveRepairPolicy(bound, whole, charter, exists) ==
    CASE bound = absent -> IF charter = absent THEN standingPolicy ELSE Refused
      [] bound # absent /\ (~whole \/ bound < 1) -> Refused
      [] bound # absent /\ whole /\ bound = STANDING_REPAIR_BOUND -> standingPolicy
      [] bound # absent /\ whole /\ bound > STANDING_REPAIR_BOUND /\ (charter = absent \/ ~exists) -> Refused
      [] OTHER -> [ok |-> TRUE, bound |-> bound, charter |-> charter, overridden |-> TRUE]

\* optionsFrom: both bounds, or no run.
optionsFrom(argv, mode) ==
    LET repair == resolveRepairPolicy(argv.maxRepairs, argv.whole, argv.charter, argv.charterExists)
        permission == resolvePermissionPosture(mode)
    IN IF repair.ok /\ permission.ok THEN [ok |-> TRUE, repair |-> repair, permission |-> permission]
       ELSE Refused

claudeOptionsFor(permission) ==
    [permissionMode |-> permission.mode, permissionsFile |-> IF permission.bypassed THEN absent ELSE "floor"]

\* The arguments that decide what a session may do and which session it is.  The
\* executable may be the one AUTOPILOT_CLAUDE_BIN names.
claudeLaunch(spec, opts) ==
    [command |-> "claude", absolute |-> spec.claudeBin = "absolute",
     session |-> IF spec.resumeSessionId # absent THEN "forked" ELSE spec.sessionId,
     mode |-> opts.permissionMode, settings |-> opts.permissionsFile, unsafe |-> spec.unsafe]

\* AUTOPILOT_WORKER_CMD replaces the launcher.
resolveLaunch(spec, override, opts) ==
    IF override = absent THEN claudeLaunch(spec, opts)
    ELSE [command |-> "override", absolute |-> override = "absolute", session |-> absent, mode |-> absent,
          settings |-> absent, unsafe |-> spec.unsafe]

\* Only Windows needs the shell, for a command it has to look up.  shellCommandLine throws
\* rather than quote an argument; the command itself it takes as it is.
spawned(launch, platform) ==
    IF platform # "win32" \/ launch.absolute THEN "direct"
    ELSE IF launch.unsafe THEN "throws" ELSE "shell"

-----------------------------------------------------------------------------
(***************************************************************************)
(* runWorker.  What happens around the child, as its callbacks see it: a   *)
(* line of output; the outcome envelope written (by the child, or by a     *)
(* process it leaves behind); the timer, whose SIGKILL may find the child  *)
(* already gone; and one of 'close' and 'error', which ends it.            *)
(***************************************************************************)
ROTATION_SUBTYPES == {"error_max_turns", "error_max_tokens", "error_max_budget", "error_context_limit"}

isRotationSubtype(subtype) == subtype \in ROTATION_SUBTYPES

\* The last complete `result` line: lines that are no JSON object, and the half line a
\* killed process leaves, are passed over.
parseResultSubtype(stdout) ==
    LET results == {i \in DOMAIN stdout : stdout[i].kind = "result"}
    IN IF results = {} THEN absent
       ELSE LET line == stdout[CHOOSE i \in results : \A j \in results : j <= i]
            IN IF line.subtype = absent THEN "result" ELSE line.subtype

\* The envelope on disk: "none", "notJson", "invalid" or an outcome.
readReport(onDisk, schemaExists) ==
    IF onDisk \in {"none", "notJson", "invalid"} \/ ~schemaExists THEN Refused
    ELSE [ok |-> TRUE, outcome |-> onDisk]

Started == [stdout |-> <<>>, onDisk |-> "none", timedOut |-> FALSE, ended |-> FALSE, code |-> absent]

happens(child, e) ==
    CASE child.ended -> child
      [] ~child.ended /\ e.what = "stdout" -> [child EXCEPT !.stdout = Append(@, e.line)]
      [] ~child.ended /\ e.what = "report" -> [child EXCEPT !.onDisk = e.report]
      [] ~child.ended /\ e.what = "timer" -> [child EXCEPT !.timedOut = TRUE]
      [] ~child.ended /\ e.what = "error" -> [child EXCEPT !.ended = TRUE]
      [] ~child.ended /\ e.what = "close" -> [child EXCEPT !.ended = TRUE, !.code = e.code]

\* The child after each of the things that happen.
Children(trace) ==
    LET after[n \in 0..Len(trace)] == IF n = 0 THEN Started ELSE happens(after[n - 1], trace[n])
    IN after

ChildAfter(trace) == Children(trace)[Len(trace)]

runWorker(trace, schemaExists) ==
    LET child == ChildAfter(trace)
        verdict == readReport(child.onDisk, schemaExists)
    IN [resolved |-> child.ended, outcome |-> IF verdict.ok THEN verdict.outcome ELSE "FAILED",
        timedOut |-> child.timedOut, exitCode |-> child.code, resultSubtype |-> parseResultSubtype(child.stdout)]

-----------------------------------------------------------------------------

\* The bounds of a run are never wider than someone said: permissions are bypassed only on
\* the exact word, every other real session carries the deny floor, more repairs than the
\* standing bound need a record that exists, and no argument reaches a shell that would
\* reinterpret it.
RunsAsAuthorised(argv, mode, spec, override, platform) ==
    LET options == optionsFrom(argv, mode)
        launch == resolveLaunch(spec, override, claudeOptionsFor(options.permission))
    IN options.ok =>
         /\ launch.mode = "bypassPermissions" => mode = "bypassPermissions"
         /\ launch.mode \in SUPERVISED_PERMISSION_MODES \cup {absent}
         /\ launch.command = "claude" => (launch.settings = "floor" <=> mode # "bypassPermissions")
         /\ options.repair.bound > STANDING_REPAIR_BOUND => argv.charter # absent /\ argv.charterExists
         /\ options.repair.bound >= 1
         /\ launch.unsafe => spawned(launch, platform) # "shell"

\* An outcome is what the last envelope written before the process ended says, however it
\* ended, and is FAILED without a valid one: neither a clean exit nor what was printed can
\* raise it, and a timeout or an envelope that comes too late changes nothing on disk.
OutcomeIsEarned(trace, schemaExists) ==
    LET result == runWorker(trace, schemaExists)
        ends == {i \in DOMAIN trace : trace[i].what \in {"close", "error"}}
        InTime(i) == \A e \in ends : i < e
        reports == {i \in DOMAIN trace : trace[i].what = "report" /\ InTime(i)}
        Last(S) == CHOOSE i \in S : \A j \in S : j <= i
        Valid(i) == schemaExists /\ trace[i].report \notin {"notJson", "invalid"}
    IN /\ result.resolved <=> ends # {}
       /\ result.outcome # "FAILED" =>
            reports # {} /\ Valid(Last(reports)) /\ trace[Last(reports)].report = result.outcome
       /\ reports # {} /\ Valid(Last(reports)) => result.outcome = trace[Last(reports)].report
       /\ result.timedOut <=> \E i \in DOMAIN trace : trace[i].what = "timer" /\ InTime(i)
       /\ isRotationSubtype(result.resultSubtype) =>
            \E i \in DOMAIN trace : /\ trace[i].what = "stdout" /\ trace[i].line.kind = "result"
                                    /\ trace[i].line.subtype = result.resultSubtype
                                    /\ \A j \in DOMAIN trace :
                                         j > i /\ InTime(j) /\ trace[j].what = "stdout" =>
                                           trace[j].line.kind # "result"
=============================================================================
