------------------------------- MODULE Lease --------------------------------
(***************************************************************************)
(* Node ownership in the autopilot (scripts/autopilot/lease.ts, used by    *)
(* withLease and the main loop of supervise.ts): one lease file per node,  *)
(* created with `wx`, taken over when it has expired and its holder is     *)
(* gone.  The model is of one node and several supervisor processes; an    *)
(* action is one access to the file system, because that is where another  *)
(* process can come in between.  A process may die at any point.           *)
(*                                                                         *)
(* A file has an identity of its own (`ino`): a process that writes        *)
(* through a descriptor writes to the file it opened, whatever the path    *)
(* names by then.  Time is abstracted to the set of expiry dates that have *)
(* passed, and a date to the number of the write that set it.              *)
(***************************************************************************)
EXTENDS Naturals, FiniteSets

CONSTANTS
    Procs,          \* the supervisor processes
    MaxWrites       \* bound: how many leases are written

ASSUME ProcsAssumption == IsFiniteSet(Procs) /\ Procs # {}

ASSUME WritesAssumption == MaxWrites \in Nat

NoFile == [ino |-> 0]

\* The content of a file that was created or truncated and not written yet.
Blank == [by |-> 0]

\* Faulty variant: an unreadable lease never expires.
UnreadableForGood == [by |-> 0, worker |-> 0, expiresAt |-> MaxWrites + 1]

\* readLease's answer for a file it cannot parse: no process, expired long ago.
Unreadable == [by |-> 0, worker |-> 0, expiresAt |-> 0]

NoLease == [by |-> 0, worker |-> 0]

VARIABLES
    file,           \* what the path names
    writes,         \* how many leases were made: numbers their worker ids and dates
    expired,        \* the expiry dates that have passed
    alive,          \* the processes that are running
    pc,             \* where each process is
    call,           \* the operation whose readLease it is in
    worker,         \* the workerId of its lease
    date,           \* the expiry date of its lease
    fd,             \* the file it has open
    held,           \* what it read
    now,            \* the expiry dates passed when its call began
    takenOver       \* history: the kinds of lease that were removed by another process

vars == <<file, writes, expired, alive, pc, call, worker, date, fd, held, now, takenOver>>

Locations == {"reap", "reapJudge", "reapRemove", "create", "exists", "parse", "judge",
              "remove", "createAgain", "write", "owning", "renew", "unlink"}

Init ==
    /\ file = NoFile
    /\ writes = 0
    /\ expired = {0}
    /\ alive = Procs
    /\ pc = [p \in Procs |-> "reap"]
    /\ call = [p \in Procs |-> "none"]
    /\ worker = [p \in Procs |-> 0]
    /\ fd = [p \in Procs |-> 0]
    /\ held = [p \in Procs |-> NoLease]
    /\ date = [p \in Procs |-> 0]
    /\ now = [p \in Procs |-> {}]
    /\ takenOver = {}

At(p, l) == p \in alive /\ pc[p] = l

Goto(p, l) == pc' = [pc EXCEPT ![p] = l]

\* What p read and when goes out of scope.
Forget(p) == held' = [held EXCEPT ![p] = NoLease] /\ now' = [now EXCEPT ![p] = {}]

\* What the content of a file parses to.
Parsed(f) == IF f = NoFile \/ f.lease = Blank THEN Unreadable ELSE f.lease

\* Faulty variant: expiry is all that is asked for.
NobodyIsAlive(l) == FALSE

\* isProcessAlive, of the pid in a lease.
isProcessAlive(l) == l.by \in alive

-----------------------------------------------------------------------------
(* reapExpired, with which every round of the supervisor's loop begins *)

\* listLeases: a file that cannot be parsed is left out.
ReapList(p) ==
    /\ At(p, "reap")
    /\ IF Parsed(file) = Unreadable
       THEN Goto(p, "create") /\ UNCHANGED <<held, now>>
       ELSE /\ held' = [held EXCEPT ![p] = Parsed(file)]
            /\ now' = [now EXCEPT ![p] = expired]
            /\ Goto(p, "reapJudge")
    /\ UNCHANGED <<file, writes, expired, alive, call, worker, date, fd, takenOver>>

ReapJudge(p) ==
    /\ At(p, "reapJudge")
    /\ Forget(p)
    /\ Goto(p, IF held[p].expiresAt \in now[p] /\ ~isProcessAlive(held[p])
               THEN "reapRemove" ELSE "create")
    /\ UNCHANGED <<file, writes, expired, alive, call, worker, date, fd, takenOver>>

ReapRemove(p) ==
    /\ At(p, "reapRemove")
    /\ file' = NoFile
    /\ takenOver' = takenOver \cup {"stale"}
    /\ Goto(p, "create")
    /\ UNCHANGED <<writes, expired, alive, call, worker, date, fd, held, now>>

-----------------------------------------------------------------------------
(* acquireLease *)

\* Faulty variant: the file is opened with `w`.
NotExclusive == FALSE

\* The exclusive create fails.
EEXIST == file # NoFile

\* openSync(path, 'wx') by p: it fails with EEXIST, or it makes the file.
Create(p, otherwise) ==
    IF EEXIST
    THEN Goto(p, otherwise) /\ UNCHANGED <<file, writes, worker, date, fd>>
    ELSE /\ writes < MaxWrites
         /\ writes' = writes + 1
         /\ file' = [ino |-> writes + 1, lease |-> Blank]
         /\ fd' = [fd EXCEPT ![p] = writes + 1]
         /\ worker' = [worker EXCEPT ![p] = writes + 1]
         /\ date' = [date EXCEPT ![p] = writes + 1]
         /\ Goto(p, "write")

\* The first try.
AcquireCreate(p) ==
    /\ At(p, "create")
    /\ Create(p, "exists")
    /\ call' = [call EXCEPT ![p] = "acquire"]
    /\ now' = [now EXCEPT ![p] = IF file = NoFile THEN {} ELSE expired]
    /\ UNCHANGED <<expired, alive, held, takenOver>>

\* writeFileSync(fd): acquireLease returns with the lease.
AcquireWrite(p) ==
    /\ At(p, "write")
    /\ file' = IF file.ino # fd[p] THEN file
               ELSE [file EXCEPT !.lease = [by |-> p, worker |-> worker[p], expiresAt |-> date[p]]]
    /\ Goto(p, "owning")
    /\ UNCHANGED <<writes, expired, alive, call, worker, date, fd, held, now, takenOver>>

\* readLease: existsSync, then readFileSync, whose failure is an unreadable lease.
\* Without a file acquireLease tries once more, the others return.
ReadExists(p) ==
    /\ At(p, "exists")
    /\ IF file # NoFile
       THEN Goto(p, "parse") /\ UNCHANGED <<held, now>>
       ELSE /\ Goto(p, CASE call[p] = "acquire" -> "createAgain"
                         [] call[p] = "renew" -> "owning"
                         [] call[p] = "release" -> "reap")
            /\ Forget(p)
    /\ UNCHANGED <<file, writes, expired, alive, call, worker, date, fd, takenOver>>

ReadParse(p) ==
    /\ At(p, "parse")
    /\ held' = [held EXCEPT ![p] = Parsed(file)]
    /\ Goto(p, "judge")
    /\ UNCHANGED <<file, writes, expired, alive, call, worker, date, fd, now, takenOver>>

\* A lease that has not expired, or whose holder is running, is respected.
AcquireJudge(p) ==
    /\ At(p, "judge")
    /\ call[p] = "acquire"
    /\ IF held[p].expiresAt \in now[p] /\ ~isProcessAlive(held[p])
       THEN Goto(p, "remove") /\ UNCHANGED <<held, now>>
       ELSE Goto(p, "reap") /\ Forget(p)
    /\ UNCHANGED <<file, writes, expired, alive, call, worker, date, fd, takenOver>>

AcquireRemove(p) ==
    /\ At(p, "remove")
    /\ file' = NoFile
    /\ takenOver' = takenOver \cup {IF held[p] = Unreadable THEN "unreadable" ELSE "stale"}
    /\ Forget(p)
    /\ Goto(p, "createAgain")
    /\ UNCHANGED <<writes, expired, alive, call, worker, date, fd>>

\* The second try: another process may have been first.
AcquireAgain(p) ==
    /\ At(p, "createAgain")
    /\ Create(p, "reap")
    /\ UNCHANGED <<expired, alive, call, held, now, takenOver>>

-----------------------------------------------------------------------------
(* releaseLease and renewLease *)

\* The worker has ended.
Release(p) ==
    /\ At(p, "owning")
    /\ call' = [call EXCEPT ![p] = "release"]
    /\ Goto(p, "exists")
    /\ UNCHANGED <<file, writes, expired, alive, worker, date, fd, held, now, takenOver>>

ReleaseJudge(p) ==
    /\ At(p, "judge")
    /\ call[p] = "release"
    /\ Goto(p, IF held[p].worker = worker[p] THEN "unlink" ELSE "reap")
    /\ Forget(p)
    /\ UNCHANGED <<file, writes, expired, alive, call, worker, date, fd, takenOver>>

ReleaseUnlink(p) ==
    /\ At(p, "unlink")
    /\ file' = NoFile
    /\ Goto(p, "reap")
    /\ UNCHANGED <<writes, expired, alive, call, worker, date, fd, held, now, takenOver>>

Renew(p) ==
    /\ At(p, "owning")
    /\ writes < MaxWrites
    /\ writes' = writes + 1
    /\ date' = [date EXCEPT ![p] = writes + 1]
    /\ call' = [call EXCEPT ![p] = "renew"]
    /\ Goto(p, "exists")
    /\ UNCHANGED <<file, expired, alive, worker, fd, held, now, takenOver>>

\* writeFileSync(path) opens the path with `w`: an empty file, made if need be.
RenewJudge(p) ==
    /\ At(p, "judge")
    /\ call[p] = "renew"
    /\ IF held[p].worker # worker[p]
       THEN Goto(p, "owning") /\ UNCHANGED <<file, fd>>
       ELSE /\ file' = [ino |-> IF file = NoFile THEN date[p] ELSE file.ino, lease |-> Blank]
            /\ fd' = [fd EXCEPT ![p] = file'.ino]
            /\ Goto(p, "renew")
    /\ Forget(p)
    /\ UNCHANGED <<writes, expired, alive, call, worker, date, takenOver>>

RenewWrite(p) ==
    /\ At(p, "renew")
    /\ file' = IF file.ino # fd[p] THEN file
               ELSE [file EXCEPT !.lease = [by |-> p, worker |-> worker[p], expiresAt |-> date[p]]]
    /\ Goto(p, "owning")
    /\ UNCHANGED <<writes, expired, alive, call, worker, date, fd, held, now, takenOver>>

-----------------------------------------------------------------------------

\* The lease on the node passes its expiry date.
Expire ==
    /\ file # NoFile /\ file.lease # Blank
    /\ file.lease.expiresAt \notin expired
    /\ expired' = expired \cup {file.lease.expiresAt}
    /\ UNCHANGED <<file, writes, alive, pc, call, worker, date, fd, held, now, takenOver>>

\* A process dies; one supervisor is left, or started, to go on.
Die(p) ==
    /\ p \in alive
    /\ alive # {p}
    /\ alive' = alive \ {p}
    /\ UNCHANGED <<file, writes, expired, pc, call, worker, date, fd, held, now, takenOver>>

Step(p) ==
    \/ ReapList(p) \/ ReapJudge(p) \/ ReapRemove(p)
    \/ AcquireCreate(p) \/ AcquireWrite(p) \/ ReadExists(p) \/ ReadParse(p)
    \/ AcquireJudge(p) \/ AcquireRemove(p) \/ AcquireAgain(p)
    \/ ReleaseJudge(p) \/ ReleaseUnlink(p) \/ RenewJudge(p) \/ RenewWrite(p)

Next == Expire \/ \E p \in Procs : Step(p) \/ Release(p) \/ Renew(p) \/ Die(p)

Spec == Init /\ [][Next]_vars

\* Time passes, a process that runs takes its next step, and workers end.
FairSpec == /\ Spec
            /\ WF_vars(Expire)
            /\ \A p \in Procs : WF_vars(Step(p)) /\ WF_vars(Release(p))

-----------------------------------------------------------------------------

\* The processes that acquireLease has given the node and that have not begun to
\* release it: their workers run.
Owners == {p \in alive : \/ pc[p] = "owning"
                         \/ call[p] = "renew" /\ pc[p] \in {"exists", "parse", "judge", "renew"}}

\* The path names file i, and no living process has made or opened it.
Abandoned(i) == file.ino = i /\ \A p \in alive : fd[p] # i

Leases == [by : Procs, worker : Nat, expiresAt : Nat]

TypeOK ==
    /\ file = NoFile \/ (file.ino \in 1 .. MaxWrites /\ file.lease \in Leases \cup {Blank})
    /\ writes \in 0 .. MaxWrites
    /\ expired \subseteq Nat
    /\ alive \subseteq Procs
    /\ pc \in [Procs -> Locations]
    /\ call \in [Procs -> {"none", "acquire", "release", "renew"}]
    /\ worker \in [Procs -> Nat] /\ date \in [Procs -> Nat] /\ fd \in [Procs -> Nat]
    /\ held \in [Procs -> Leases \cup {Unreadable, NoLease}]
    /\ \A p \in Procs : now[p] \subseteq Nat
    /\ takenOver \subseteq {"stale", "unreadable"}

(***************************************************************************)
(* As long as no lease was taken over, the `wx` create is a lock: one      *)
(* process at most owns the node, and its lease file is in place, also     *)
(* while others try, release or renew ("two processes reaching this line   *)
(* at the same instant cannot both succeed").                              *)
(***************************************************************************)
CreateIsTheLock ==
    takenOver = {} => /\ Cardinality(Owners) <= 1
                      /\ \A p \in Owners : file.ino = fd[p]

(***************************************************************************)
(* Expiry alone costs nobody the node: as long as no process has died and  *)
(* no file was caught before its lease was written, there is one owner at  *)
(* most, whenever leases expire ("a slow worker is not an abandoned        *)
(* node").                                                                 *)
(***************************************************************************)
SlowWorkerKeepsNode ==
    alive = Procs /\ "unreadable" \notin takenOver => Cardinality(Owners) <= 1

(***************************************************************************)
(* The lease of a process that died does not block the node for ever,      *)
(* wherever the process was when it died (reapExpired, and acquireLease    *)
(* for a file whose lease was never written).                              *)
(***************************************************************************)
AbandonedNodeIsReclaimed == \A i \in 1 .. MaxWrites : Abandoned(i) ~> ~Abandoned(i)

(***************************************************************************)
(* What lease.ts says: "a node has at most one live owner".  The takeover  *)
(* of a file that was created and not yet written is left out.             *)
(***************************************************************************)
AtMostOneOwner == "unreadable" \notin takenOver => Cardinality(Owners) <= 1

(***************************************************************************)
(* Every state of the file and the processes is one the code can name, and *)
(* in each of them the create is a lock.                                   *)
(***************************************************************************)
LeaseIsALock == TypeOK /\ CreateIsTheLock
=============================================================================
