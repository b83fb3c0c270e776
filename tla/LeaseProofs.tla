---------------------------- MODULE LeaseProofs -----------------------------
(***************************************************************************)
(* Proofs about the node leases (Lease.tla), for every finite set of       *)
(* supervisor processes and every bound on the writes: the `wx` create is  *)
(* a lock as long as no lease was taken over, and a lease that merely      *)
(* expired costs nobody the node.                                          *)
(***************************************************************************)
EXTENDS Lease, FiniteSetTheorems, TLAPS

\* p has made the lease file and has not given it up: from the create that
\* succeeded to the unlink, or to the release that found another's lease.
Holding(p) ==
    \/ pc[p] \in {"write", "owning", "renew", "unlink"}
    \/ call[p] \in {"release", "renew"} /\ pc[p] \in {"exists", "parse", "judge"}

\* The file is absent, or it is a file with a content.
FileTyped ==
    /\ file \in {NoFile} \cup [ino : 1 .. MaxWrites, lease : Leases \cup {Blank}]
    /\ now \in [Procs -> SUBSET Nat]

\* A process in readLease is in the readLease of some operation.
ReadsForACall == \A p \in Procs :
    pc[p] \in {"exists", "parse", "judge"} => call[p] \in {"acquire", "release", "renew"}

\* What a process holds it has opened, and dated.
HoldersOpened == \A p \in Procs :
    /\ date[p] <= writes
    /\ Holding(p) => fd[p] # 0 /\ date[p] # 0

\* Without a takeover the path names the file of the one process that holds it.
OneHolder ==
    takenOver = {} =>
      /\ \A p \in Procs : Holding(p) => file # NoFile /\ file.ino = fd[p]
      /\ \A p, q \in Procs : Holding(p) /\ Holding(q) => p = q

\* Some process has died.
Death == alive # Procs

\* A process that is about to remove a lease it could read has seen its holder dead.
StaleMeansDeath ==
    /\ "stale" \in takenOver => Death
    /\ \A p \in Procs :
         /\ pc[p] = "reapJudge" => held[p] \in Leases
         /\ pc[p] = "reapRemove" => Death
         /\ pc[p] = "judge" => held[p] \in Leases \cup {Unreadable}
         /\ pc[p] = "remove" => held[p] = Unreadable \/ Death

Structure == TypeOK /\ FileTyped /\ ReadsForACall /\ HoldersOpened

IInv == Structure /\ OneHolder /\ StaleMeansDeath

-----------------------------------------------------------------------------
(* Lemmas *)

\* The kinds of lease: only one of them has a process for its holder.
LEMMA LeaseForms ==
    /\ \A l \in Leases : l # Blank /\ l # NoLease /\ l.by \in Procs
    /\ Unreadable # NoLease
    /\ \A f \in [ino : 1 .. MaxWrites, lease : Leases \cup {Blank}] : f # NoFile /\ f.ino # 0
    /\ NoFile.ino = 0
<1>1. ASSUME NEW l \in Leases PROVE l # Blank /\ l # NoLease /\ l.by \in Procs
  <2>1. DOMAIN l = {"by", "worker", "expiresAt"} /\ l.by \in Procs  BY DEF Leases
  <2>2. DOMAIN Blank = {"by"} /\ DOMAIN NoLease = {"by", "worker"}  BY DEF Blank, NoLease
  <2> QED  BY <2>1, <2>2
<1>2. Unreadable # NoLease
  <2>1. DOMAIN Unreadable = {"by", "worker", "expiresAt"}  BY DEF Unreadable
  <2>2. DOMAIN NoLease = {"by", "worker"}  BY DEF NoLease
  <2> QED  BY <2>1, <2>2
<1>3. \A f \in [ino : 1 .. MaxWrites, lease : Leases \cup {Blank}] : f # NoFile /\ f.ino # 0
  BY WritesAssumption DEF NoFile
<1>4. NoFile.ino = 0  BY DEF NoFile
<1> QED  BY <1>1, <1>2, <1>3, <1>4

\* What readLease makes of a file is a lease or the unreadable one.
LEMMA ParsedIsALease == FileTyped => Parsed(file) \in Leases \cup {Unreadable}
<1> SUFFICES ASSUME FileTyped PROVE Parsed(file) \in Leases \cup {Unreadable}  OBVIOUS
<1>1. CASE file = NoFile  BY <1>1 DEF Parsed
<1>2. CASE file # NoFile
  <2>1. file.lease \in Leases \cup {Blank}  BY <1>2 DEF FileTyped
  <2> QED  BY <1>2, <2>1 DEF Parsed
<1> QED  BY <1>1, <1>2

\* A process writes its lease through a descriptor.
LEMMA LeaseWritten ==
    ASSUME Structure, NEW p \in Procs,
           file' = IF file.ino # fd[p] THEN file
                   ELSE [file EXCEPT !.lease = [by |-> p, worker |-> worker[p], expiresAt |-> date[p]]]
    PROVE  /\ file' \in {NoFile} \cup [ino : 1 .. MaxWrites, lease : Leases \cup {Blank}]
           /\ file # NoFile <=> file' # NoFile
           /\ file'.ino = file.ino
<1> DEFINE l == [by |-> p, worker |-> worker[p], expiresAt |-> date[p]]
<1>1. l \in Leases  BY DEF Structure, TypeOK, Leases
<1>2. CASE file = NoFile
  <2>1. [NoFile EXCEPT !.lease = l] = NoFile  BY DEF NoFile
  <2>2. file' = NoFile  BY <1>2, <2>1
  <2> QED  BY <1>2, <2>2
<1>3. CASE file # NoFile
  <2>1. file \in [ino : 1 .. MaxWrites, lease : Leases \cup {Blank}]
    BY <1>3 DEF Structure, FileTyped
  <2>2. [file EXCEPT !.lease = l] \in [ino : 1 .. MaxWrites, lease : Leases \cup {Blank}]
        /\ [file EXCEPT !.lease = l].ino = file.ino
    BY <1>1, <2>1
  <2> HIDE DEF l
  <2>3. file' = file \/ file' = [file EXCEPT !.lease = l]  BY DEF l
  <2> QED  BY <1>3, <2>1, <2>2, <2>3, LeaseForms
<1> QED  BY <1>2, <1>3

\* Every step keeps the structure: types, descriptors and dates.
LEMMA StructureKept == Structure /\ [Next]_vars => Structure'
<1> SUFFICES ASSUME Structure, [Next]_vars PROVE Structure'  OBVIOUS
<1> USE WritesAssumption, LeaseForms
<1>1. CASE UNCHANGED vars  BY <1>1 DEF vars, Structure, TypeOK, FileTyped, ReadsForACall,
                                HoldersOpened, Holding, Locations
<1>2. CASE Expire
  BY <1>2 DEF Expire, Leases, Structure, TypeOK, FileTyped, ReadsForACall, HoldersOpened,
       Holding, Locations
<1>3. ASSUME NEW p \in Procs, ReapList(p) PROVE Structure'
  <2>1. Parsed(file) \in Leases \cup {Unreadable}  BY ParsedIsALease DEF Structure
  <2>2. CASE Parsed(file) = Unreadable
    BY <1>3, <2>2 DEF ReapList, Goto, At, Structure, TypeOK, FileTyped, ReadsForACall,
         HoldersOpened, Holding, Locations
  <2>3. CASE Parsed(file) # Unreadable
    <3> DEFINE l == Parsed(file)
    <3>1. /\ pc' = [pc EXCEPT ![p] = "reapJudge"] /\ held' = [held EXCEPT ![p] = l]
          /\ now' = [now EXCEPT ![p] = expired]
          /\ UNCHANGED <<file, writes, worker, date, fd, expired, alive, call, takenOver>>
      BY <1>3, <2>3 DEF ReapList, Goto
    <3>2. l \in Leases  BY <2>1, <2>3
    <3> HIDE DEF l
    <3> QED  BY <3>1, <3>2 DEF Structure, TypeOK, FileTyped, ReadsForACall, HoldersOpened,
                  Holding, Locations
  <2> QED  BY <2>2, <2>3
<1>4. ASSUME NEW p \in Procs, ReapJudge(p) PROVE Structure'
  BY <1>4 DEF ReapJudge, Goto, Forget, isProcessAlive, At, Structure, TypeOK, FileTyped,
       ReadsForACall, HoldersOpened, Holding, Locations
<1>5. ASSUME NEW p \in Procs, ReapRemove(p) PROVE Structure'
  BY <1>5 DEF ReapRemove, Goto, At, Structure, TypeOK, FileTyped, ReadsForACall,
       HoldersOpened, Holding, Locations
<1>6. ASSUME NEW p \in Procs, AcquireCreate(p) PROVE Structure'
  <2>1. CASE file = NoFile
    BY <1>6, <2>1 DEF AcquireCreate, Goto, Create, EEXIST, At, Structure, TypeOK, FileTyped,
         ReadsForACall, HoldersOpened, Holding, Locations
  <2>2. CASE file # NoFile
    <3>1. /\ pc' = [pc EXCEPT ![p] = "exists"] /\ call' = [call EXCEPT ![p] = "acquire"]
          /\ now' = [now EXCEPT ![p] = expired]
          /\ UNCHANGED <<file, writes, worker, date, fd, expired, alive, held, takenOver>>
      BY <1>6, <2>2 DEF AcquireCreate, Goto, Create, EEXIST
    <3> QED  BY <3>1 DEF Structure, TypeOK, FileTyped, ReadsForACall, HoldersOpened, Holding,
                  Locations
  <2> QED  BY <2>1, <2>2
<1>7. ASSUME NEW p \in Procs, AcquireWrite(p) PROVE Structure'
  BY <1>7, LeaseWritten DEF AcquireWrite, Goto, At, Structure, TypeOK, FileTyped,
       ReadsForACall, HoldersOpened, Holding, Locations
<1>8. ASSUME NEW p \in Procs, ReadExists(p) PROVE Structure'
  BY <1>8 DEF ReadExists, Goto, Forget, At, Structure, TypeOK, FileTyped, ReadsForACall,
       HoldersOpened, Holding, Locations
<1>9. ASSUME NEW p \in Procs, ReadParse(p) PROVE Structure'
  <2>1. Parsed(file) \in Leases \cup {Unreadable}  BY ParsedIsALease DEF Structure
  <2> QED  BY <1>9, <2>1 DEF ReadParse, Goto, At, Structure, TypeOK, FileTyped,
                ReadsForACall, HoldersOpened, Holding, Locations
<1>10. ASSUME NEW p \in Procs, AcquireJudge(p) PROVE Structure'
  BY <1>10 DEF AcquireJudge, Goto, Forget, isProcessAlive, At, Structure, TypeOK, FileTyped,
       ReadsForACall, HoldersOpened, Holding, Locations
<1>11. ASSUME NEW p \in Procs, AcquireRemove(p) PROVE Structure'
  BY <1>11 DEF AcquireRemove, Goto, Forget, At, Structure, TypeOK, FileTyped, ReadsForACall,
       HoldersOpened, Holding, Locations
<1>12. ASSUME NEW p \in Procs, AcquireAgain(p) PROVE Structure'
  BY <1>12 DEF AcquireAgain, Goto, Create, EEXIST, At, Structure, TypeOK, FileTyped,
       ReadsForACall, HoldersOpened, Holding, Locations
<1>13. ASSUME NEW p \in Procs, ReleaseJudge(p) PROVE Structure'
  BY <1>13 DEF ReleaseJudge, Goto, Forget, At, Structure, TypeOK, FileTyped, ReadsForACall,
       HoldersOpened, Holding, Locations
<1>14. ASSUME NEW p \in Procs, ReleaseUnlink(p) PROVE Structure'
  BY <1>14 DEF ReleaseUnlink, Goto, At, Structure, TypeOK, FileTyped, ReadsForACall,
       HoldersOpened, Holding, Locations
<1>15. ASSUME NEW p \in Procs, RenewJudge(p) PROVE Structure'
  BY <1>15 DEF RenewJudge, Goto, Forget, At, Structure, TypeOK, FileTyped, ReadsForACall,
       HoldersOpened, Holding, Locations
<1>16. ASSUME NEW p \in Procs, RenewWrite(p) PROVE Structure'
  BY <1>16, LeaseWritten DEF RenewWrite, Goto, At, Structure, TypeOK, FileTyped,
       ReadsForACall, HoldersOpened, Holding, Locations
<1>17. ASSUME NEW p \in Procs, Release(p) PROVE Structure'
  BY <1>17 DEF Release, Goto, At, Structure, TypeOK, FileTyped, ReadsForACall, HoldersOpened,
       Holding, Locations
<1>18. ASSUME NEW p \in Procs, Renew(p) PROVE Structure'
  BY <1>18 DEF Renew, Goto, At, Structure, TypeOK, FileTyped, ReadsForACall, HoldersOpened,
       Holding, Locations
<1>19. ASSUME NEW p \in Procs, Die(p) PROVE Structure'
  BY <1>19 DEF Die, Structure, TypeOK, FileTyped, ReadsForACall, HoldersOpened, Holding,
       Locations
<1> QED  BY <1>1, <1>2, <1>3, <1>4, <1>5, <1>6, <1>7, <1>8, <1>9, <1>10, <1>11, <1>12, <1>13,
              <1>14, <1>15, <1>16, <1>17, <1>18, <1>19 DEF Next, Step

\* Every step keeps the lock: without a takeover there is one holder, of the file in place.
LEMMA OneHolderKept == Structure /\ OneHolder /\ [Next]_vars => OneHolder'
<1> SUFFICES ASSUME Structure, OneHolder, [Next]_vars PROVE OneHolder'  OBVIOUS
<1> USE WritesAssumption, LeaseForms
<1>0. Structure'  BY StructureKept
<1>1. CASE UNCHANGED vars  BY <1>1 DEF vars, OneHolder, Holding
<1>2. CASE Expire
  BY <1>2 DEF Expire, OneHolder, Holding
<1>3. ASSUME NEW p \in Procs, ReapList(p) PROVE OneHolder'
  BY <1>0, <1>3 DEF ReapList, Goto, At, OneHolder, Structure, TypeOK, FileTyped,
       ReadsForACall, HoldersOpened, Holding, Locations
<1>4. ASSUME NEW p \in Procs, ReapJudge(p) PROVE OneHolder'
  BY <1>0, <1>4 DEF ReapJudge, Goto, Forget, isProcessAlive, At, OneHolder, Structure,
       TypeOK, FileTyped, ReadsForACall, HoldersOpened, Holding, Locations
<1>5. ASSUME NEW p \in Procs, ReapRemove(p) PROVE OneHolder'
  BY <1>0, <1>5 DEF ReapRemove, Goto, At, OneHolder, Structure, TypeOK, FileTyped,
       ReadsForACall, HoldersOpened, Holding, Locations
<1>6. ASSUME NEW p \in Procs, AcquireCreate(p) PROVE OneHolder'
  BY <1>0, <1>6 DEF AcquireCreate, Goto, Create, EEXIST, At, OneHolder, Structure, TypeOK,
       FileTyped, ReadsForACall, HoldersOpened, Holding, Locations
<1>7. ASSUME NEW p \in Procs, AcquireWrite(p) PROVE OneHolder'
  BY <1>0, <1>7, LeaseWritten DEF AcquireWrite, Goto, At, OneHolder, Structure, TypeOK,
       FileTyped, ReadsForACall, HoldersOpened, Holding, Locations
<1>8. ASSUME NEW p \in Procs, ReadExists(p) PROVE OneHolder'
  BY <1>0, <1>8 DEF ReadExists, Goto, Forget, At, OneHolder, Structure, TypeOK, FileTyped,
       ReadsForACall, HoldersOpened, Holding, Locations
<1>9. ASSUME NEW p \in Procs, ReadParse(p) PROVE OneHolder'
  BY <1>0, <1>9 DEF ReadParse, Goto, At, OneHolder, Structure, TypeOK, FileTyped,
       ReadsForACall, HoldersOpened, Holding, Locations
<1>10. ASSUME NEW p \in Procs, AcquireJudge(p) PROVE OneHolder'
  BY <1>0, <1>10 DEF AcquireJudge, Goto, Forget, isProcessAlive, At, OneHolder, Structure,
       TypeOK, FileTyped, ReadsForACall, HoldersOpened, Holding, Locations
<1>11. ASSUME NEW p \in Procs, AcquireRemove(p) PROVE OneHolder'
  BY <1>0, <1>11 DEF AcquireRemove, Goto, Forget, At, OneHolder, Structure, TypeOK,
       FileTyped, ReadsForACall, HoldersOpened, Holding, Locations
<1>12. ASSUME NEW p \in Procs, AcquireAgain(p) PROVE OneHolder'
  BY <1>0, <1>12 DEF AcquireAgain, Goto, Create, EEXIST, At, OneHolder, Structure, TypeOK,
       FileTyped, ReadsForACall, HoldersOpened, Holding, Locations
<1>13. ASSUME NEW p \in Procs, ReleaseJudge(p) PROVE OneHolder'
  BY <1>0, <1>13 DEF ReleaseJudge, Goto, Forget, At, OneHolder, Structure, TypeOK, FileTyped,
       ReadsForACall, HoldersOpened, Holding, Locations
<1>14. ASSUME NEW p \in Procs, ReleaseUnlink(p) PROVE OneHolder'
  BY <1>0, <1>14 DEF ReleaseUnlink, Goto, At, OneHolder, Structure, TypeOK, FileTyped,
       ReadsForACall, HoldersOpened, Holding, Locations
<1>15. ASSUME NEW p \in Procs, RenewJudge(p) PROVE OneHolder'
  BY <1>0, <1>15 DEF RenewJudge, Goto, Forget, At, OneHolder, Structure, TypeOK, FileTyped,
       ReadsForACall, HoldersOpened, Holding, Locations
<1>16. ASSUME NEW p \in Procs, RenewWrite(p) PROVE OneHolder'
  BY <1>0, <1>16, LeaseWritten DEF RenewWrite, Goto, At, OneHolder, Structure, TypeOK,
       FileTyped, ReadsForACall, HoldersOpened, Holding, Locations
<1>17. ASSUME NEW p \in Procs, Release(p) PROVE OneHolder'
  BY <1>0, <1>17 DEF Release, Goto, At, OneHolder, Structure, TypeOK, FileTyped,
       ReadsForACall, HoldersOpened, Holding, Locations
<1>18. ASSUME NEW p \in Procs, Renew(p) PROVE OneHolder'
  BY <1>0, <1>18 DEF Renew, Goto, At, OneHolder, Structure, TypeOK, FileTyped, ReadsForACall,
       HoldersOpened, Holding, Locations
<1>19. ASSUME NEW p \in Procs, Die(p) PROVE OneHolder'
  BY <1>0, <1>19 DEF Die, OneHolder, Structure, TypeOK, FileTyped, ReadsForACall,
       HoldersOpened, Holding, Locations
<1> QED  BY <1>1, <1>2, <1>3, <1>4, <1>5, <1>6, <1>7, <1>8, <1>9, <1>10, <1>11, <1>12, <1>13,
              <1>14, <1>15, <1>16, <1>17, <1>18, <1>19 DEF Next, Step

\* Every step keeps it true that only a death makes a readable lease stale.
LEMMA StaleMeansDeathKept == Structure /\ StaleMeansDeath /\ [Next]_vars => StaleMeansDeath'
<1> SUFFICES ASSUME Structure, StaleMeansDeath, [Next]_vars PROVE StaleMeansDeath'  OBVIOUS
<1> USE LeaseForms
<1>1. CASE UNCHANGED vars  BY <1>1 DEF vars, StaleMeansDeath, Death
<1>2. CASE Expire
  BY <1>2 DEF Expire, StaleMeansDeath, Death
<1>3. ASSUME NEW p \in Procs, ReapList(p) PROVE StaleMeansDeath'
  <2>1. Parsed(file) \in Leases \cup {Unreadable}  BY ParsedIsALease DEF Structure
  <2> QED  BY <1>3, <2>1 DEF ReapList, Goto, At, StaleMeansDeath, Death, Structure, TypeOK
<1>4. ASSUME NEW p \in Procs, ReapJudge(p) PROVE StaleMeansDeath'
  BY <1>4 DEF ReapJudge, Goto, Forget, isProcessAlive, At, StaleMeansDeath, Death, Structure,
       TypeOK
<1>5. ASSUME NEW p \in Procs, ReapRemove(p) PROVE StaleMeansDeath'
  BY <1>5 DEF ReapRemove, Goto, At, StaleMeansDeath, Death, Structure, TypeOK
<1>6. ASSUME NEW p \in Procs, AcquireCreate(p) PROVE StaleMeansDeath'
  BY <1>6 DEF AcquireCreate, Goto, Create, EEXIST, At, StaleMeansDeath, Death, Structure,
       TypeOK
<1>7. ASSUME NEW p \in Procs, AcquireWrite(p) PROVE StaleMeansDeath'
  BY <1>7 DEF AcquireWrite, Goto, At, StaleMeansDeath, Death, Structure, TypeOK
<1>8. ASSUME NEW p \in Procs, ReadExists(p) PROVE StaleMeansDeath'
  <2>1. \A q \in Procs : pc'[q] # pc[q] =>
            q = p /\ pc'[q] \notin {"reapJudge", "reapRemove", "judge", "remove"}
    BY <1>8 DEF ReadExists, Goto, At, Structure, TypeOK, ReadsForACall
  <2>2. \A q \in Procs : q # p => held'[q] = held[q]
    BY <1>8 DEF ReadExists, Forget, Structure, TypeOK
  <2>3. pc'[p] # pc[p]
    BY <1>8 DEF ReadExists, Goto, At, Structure, TypeOK, ReadsForACall
  <2> QED  BY <1>8, <2>1, <2>2, <2>3 DEF ReadExists, StaleMeansDeath, Death
<1>9. ASSUME NEW p \in Procs, ReadParse(p) PROVE StaleMeansDeath'
  <2>1. Parsed(file) \in Leases \cup {Unreadable}  BY ParsedIsALease DEF Structure
  <2> QED  BY <1>9, <2>1 DEF ReadParse, Goto, At, StaleMeansDeath, Death, Structure, TypeOK
<1>10. ASSUME NEW p \in Procs, AcquireJudge(p) PROVE StaleMeansDeath'
  BY <1>10 DEF AcquireJudge, Goto, Forget, isProcessAlive, At, StaleMeansDeath, Death,
       Structure, TypeOK
<1>11. ASSUME NEW p \in Procs, AcquireRemove(p) PROVE StaleMeansDeath'
  BY <1>11 DEF AcquireRemove, Goto, Forget, At, StaleMeansDeath, Death, Structure, TypeOK
<1>12. ASSUME NEW p \in Procs, AcquireAgain(p) PROVE StaleMeansDeath'
  BY <1>12 DEF AcquireAgain, Goto, Create, EEXIST, At, StaleMeansDeath, Death, Structure,
       TypeOK
<1>13. ASSUME NEW p \in Procs, ReleaseJudge(p) PROVE StaleMeansDeath'
  BY <1>13 DEF ReleaseJudge, Goto, Forget, At, StaleMeansDeath, Death, Structure, TypeOK
<1>14. ASSUME NEW p \in Procs, ReleaseUnlink(p) PROVE StaleMeansDeath'
  BY <1>14 DEF ReleaseUnlink, Goto, At, StaleMeansDeath, Death, Structure, TypeOK
<1>15. ASSUME NEW p \in Procs, RenewJudge(p) PROVE StaleMeansDeath'
  BY <1>15 DEF RenewJudge, Goto, Forget, At, StaleMeansDeath, Death, Structure, TypeOK
<1>16. ASSUME NEW p \in Procs, RenewWrite(p) PROVE StaleMeansDeath'
  BY <1>16 DEF RenewWrite, Goto, At, StaleMeansDeath, Death, Structure, TypeOK
<1>17. ASSUME NEW p \in Procs, Release(p) PROVE StaleMeansDeath'
  BY <1>17 DEF Release, Goto, At, StaleMeansDeath, Death, Structure, TypeOK
<1>18. ASSUME NEW p \in Procs, Renew(p) PROVE StaleMeansDeath'
  BY <1>18 DEF Renew, Goto, At, StaleMeansDeath, Death, Structure, TypeOK
<1>19. ASSUME NEW p \in Procs, Die(p) PROVE StaleMeansDeath'
  BY <1>19 DEF Die, StaleMeansDeath, Death, Structure, TypeOK
<1> QED  BY <1>1, <1>2, <1>3, <1>4, <1>5, <1>6, <1>7, <1>8, <1>9, <1>10, <1>11, <1>12, <1>13,
              <1>14, <1>15, <1>16, <1>17, <1>18, <1>19 DEF Next, Step

-----------------------------------------------------------------------------
(* The theorems *)

\* The leases start, and stay, in the inductive invariant.
LEMMA Inductive == Spec => []IInv
<1>1. Init => IInv
  <2> SUFFICES ASSUME Init PROVE IInv  OBVIOUS
  <2>1. Structure
    BY WritesAssumption DEF Init, Structure, TypeOK, FileTyped, ReadsForACall, HoldersOpened,
         Holding, Locations
  <2>2. OneHolder  BY DEF Init, OneHolder, Holding
  <2>3. StaleMeansDeath  BY DEF Init, StaleMeansDeath
  <2> QED  BY <2>1, <2>2, <2>3 DEF IInv
<1>2. IInv /\ [Next]_vars => IInv'
  BY StructureKept, OneHolderKept, StaleMeansDeathKept DEF IInv
<1> QED  BY <1>1, <1>2, PTL DEF Spec

\* An owner is a process that holds the file; a set of holders has one member at most.
LEMMA OwnersHold ==
    Structure => /\ Owners \subseteq {p \in Procs : Holding(p)}
                 /\ (\A p, q \in Procs : Holding(p) /\ Holding(q) => p = q)
                      => Cardinality(Owners) <= 1
<1> SUFFICES ASSUME Structure
             PROVE  /\ Owners \subseteq {p \in Procs : Holding(p)}
                    /\ (\A p, q \in Procs : Holding(p) /\ Holding(q) => p = q)
                         => Cardinality(Owners) <= 1
  OBVIOUS
<1>1. Owners \subseteq {p \in Procs : Holding(p)}
  BY DEF Owners, Holding, Structure, TypeOK
<1>2. ASSUME \A p, q \in Procs : Holding(p) /\ Holding(q) => p = q
      PROVE  Cardinality(Owners) <= 1
  <2>1. CASE Owners = {}  BY <2>1, FS_EmptySet
  <2>2. CASE Owners # {}
    <3>1. PICK p \in Owners : TRUE  BY <2>2
    <3>2. Owners = {p}  BY <1>1, <1>2, <3>1
    <3>3. Cardinality({p}) = 1  BY FS_Singleton
    <3> QED  BY <3>2, <3>3
  <2> QED  BY <2>1, <2>2
<1> QED  BY <1>1, <1>2

\* Without a takeover the `wx` create of acquireLease is a lock, for any number of
\* supervisors: one owner at most, whose lease file is the one in place.
THEOREM CreateLocks == Spec => []LeaseIsALock
<1>1. IInv => LeaseIsALock
  <2> SUFFICES ASSUME IInv PROVE LeaseIsALock  OBVIOUS
  <2>1. ASSUME takenOver = {}
        PROVE  Cardinality(Owners) <= 1 /\ \A p \in Owners : file.ino = fd[p]
    BY <2>1, OwnersHold DEF IInv, OneHolder
  <2> QED  BY <2>1 DEF IInv, Structure, LeaseIsALock, CreateIsTheLock
<1> QED  BY <1>1, Inductive, PTL

\* While every supervisor lives, no lease that could be read is taken over, however
\* long it has been expired: acquireLease and reapExpired ask for the holder's death.
THEOREM ExpiryCostsNothing == Spec => []SlowWorkerKeepsNode
<1>1. IInv => SlowWorkerKeepsNode
  <2> SUFFICES ASSUME IInv, alive = Procs, "unreadable" \notin takenOver
               PROVE  Cardinality(Owners) <= 1
    BY DEF SlowWorkerKeepsNode
  <2>1. takenOver = {}
    BY DEF IInv, StaleMeansDeath, Death, Structure, TypeOK
  <2> QED  BY <2>1, OwnersHold DEF IInv, OneHolder
<1> QED  BY <1>1, Inductive, PTL
=============================================================================
