---------------------------- MODULE HandlesProofs ----------------------------
(***************************************************************************)
(* Proofs about Handles, for any number of entities, of calls and of calls *)
(* inside calls.                                                           *)
(***************************************************************************)
EXTENDS Handles, SequenceTheorems, FiniteSetTheorems, TLAPS

Completable == Held("run") \cup Held("step")

\* What an event says agrees with the handle of its entity and of its step.
Agrees(v) ==
    /\ v.entity <= issued
    /\ v.step # null =>
         v.step \in Held("step") /\ handles[v.step].run = v.run
    /\ What(v.type) = "closes" =>
         v.entity \in Completable /\ handles[v.entity].run = v.run
    /\ What(v.type) = "attests" =>
         \/ v.entity = Kept /\ v.run = Kept
         \/ v.entity \in Held("decision") /\ handles[v.entity].run = v.run

AllAgree(events) == \A i \in DOMAIN events : Agrees(events[i])

\* The run of an entity that has a handle is the one it was opened in.
OpenedInItsRun ==
    \A i \in DOMAIN wire :
        What(wire[i].type) = "opens" =>
            /\ wire[i].entity \in Ids
            /\ handles[wire[i].entity] # null => handles[wire[i].entity].run = wire[i].run

\* A call that has begun opens an entity nobody knows of yet, or closes one.
Building ==
    \A k \in DOMAIN stack :
        /\ stack[k].entity \in Ids
        /\ What(stack[k].type) # "attests"
        /\ What(stack[k].type) = "opens" => 
             /\ handles[stack[k].entity] = null
             /\ stack[k].run \in Ids
             /\ \A i \in DOMAIN wire : wire[i].entity # stack[k].entity
             /\ \A j \in DOMAIN stack : j # k => stack[j].entity # stack[k].entity

\* The start of every step the host has a handle of was recorded.
StepsBegan == \A h \in Held("step") : Began(h, wire) \/ Began(h, lost)

Issued == \A id \in Ids : handles[id] # null => id <= issued

IInv ==
    /\ TypeOK
    /\ AllAgree(wire) /\ AllAgree(lost) /\ AllAgree(stack) /\ AllAgree(thrown)
    /\ OpenedInItsRun /\ Building /\ StepsBegan /\ Issued
    /\ ParentsPrecede
    /\ CallsAreAccounted
    /\ FirstCompletionDecides

-----------------------------------------------------------------------------
(* Sequences of events. *)

(***************************************************************************)
(* The innermost call is the last of the stack; without it the others keep *)
(* their places.                                                           *)
(***************************************************************************)
LEMMA FrontAndLast ==
    ASSUME NEW s \in Seq(Event), s # <<>>
    PROVE  /\ Len(s) \in Nat /\ Len(s) >= 1
           /\ Last(s) \in Event /\ Last(s) = s[Len(s)]
           /\ Front(s) \in Seq(Event)
           /\ Len(Front(s)) = Len(s) - 1
           /\ \A i \in 1 .. Len(s) - 1 : Front(s)[i] = s[i]
           /\ s = Append(Front(s), Last(s))
<1>1. Len(s) \in Nat /\ Len(s) >= 1 /\ \A i \in 1 .. Len(s) : s[i] \in Event
  BY EmptySeq, LenProperties
<1>2. Last(s) \in Event /\ Last(s) = s[Len(s)]
  BY <1>1 DEF Last
<1>3. /\ Front(s) \in Seq(Event)
      /\ Len(Front(s)) = Len(s) - 1
      /\ \A i \in 1 .. Len(s) - 1 : Front(s)[i] = s[i]
  <2>1. 1 \in Int /\ Len(s) - 1 \in Int /\ \A i \in 1 .. Len(s) - 1 : s[i] \in Event
    BY <1>1
  <2>2. /\ SubSeq(s, 1, Len(s) - 1) \in Seq(Event)
        /\ Len(SubSeq(s, 1, Len(s) - 1)) = IF 1 <= Len(s) - 1 THEN Len(s) - 1 - 1 + 1 ELSE 0
        /\ \A i \in 1 .. Len(s) - 1 - 1 + 1 : SubSeq(s, 1, Len(s) - 1)[i] = s[1 + i - 1]
    BY <2>1, SubSeqProperties
  <2>3. Front(s) = SubSeq(s, 1, Len(s) - 1)
    BY DEF Front
  <2>4. Len(Front(s)) = Len(s) - 1
    <3>1. CASE Len(s) = 1
      BY <1>1, <2>2, <2>3, <3>1
    <3>2. CASE Len(s) >= 2
      <4>1. 1 <= Len(s) - 1 /\ Len(s) - 1 - 1 + 1 = Len(s) - 1
        BY <1>1, <3>2
      <4> QED
        BY <2>2, <2>3, <4>1
    <3>3. \A n \in Nat : n >= 1 => n = 1 \/ n >= 2
      OBVIOUS
    <3> QED
      BY <1>1, <3>1, <3>2, <3>3
  <2>5. ASSUME NEW i \in 1 .. Len(s) - 1 PROVE Front(s)[i] = s[i]
    <3>1. i \in 1 .. Len(s) - 1 - 1 + 1 /\ 1 + i - 1 = i
      BY <1>1
    <3> QED
      BY <2>2, <2>3, <3>1
  <2> QED
    BY <2>2, <2>3, <2>4, <2>5
<1>4. s = Append(Front(s), Last(s))
  <2> DEFINE t == Append(Front(s), Last(s))
  <2>1. /\ t \in Seq(Event) /\ Len(t) = Len(Front(s)) + 1
        /\ \A i \in 1 .. Len(Front(s)) : t[i] = Front(s)[i]
        /\ t[Len(Front(s)) + 1] = Last(s)
    BY <1>2, <1>3, AppendProperties
  <2> HIDE DEF t
  <2>2. Len(s) = Len(t) /\ \A i \in 1 .. Len(s) : s[i] = t[i]
    BY <1>1, <1>2, <1>3, <2>1
  <2>3. s = t
    BY <2>1, <2>2, SeqEqual
  <2> QED
    BY <2>3 DEF t
<1> QED
  BY <1>1, <1>2, <1>3, <1>4

(***************************************************************************)
(* What Append does to a log of events.                                    *)
(***************************************************************************)
LEMMA AppendEvent ==
    ASSUME NEW s \in Seq(Event), NEW v \in Event
    PROVE  /\ Append(s, v) \in Seq(Event)
           /\ Len(s) \in Nat
           /\ Len(Append(s, v)) = Len(s) + 1
           /\ DOMAIN s = 1 .. Len(s)
           /\ DOMAIN Append(s, v) = 1 .. Len(s) + 1
           /\ \A i \in 1 .. Len(s) : Append(s, v)[i] = s[i]
           /\ Append(s, v)[Len(s) + 1] = v
<1>1. Append(s, v) \in Seq(Event)
  BY AppendProperties
<1> QED
  BY <1>1, AppendProperties, LenProperties

Closing(h, v) == v.entity = h /\ What(v.type) = "closes"

(***************************************************************************)
(* A completion is counted where it is recorded, once.                     *)
(***************************************************************************)
LEMMA CompletionsAdd ==
    ASSUME NEW s \in Seq(Event), NEW v \in Event, NEW h
    PROVE  /\ Completions(h, s) \in Nat
           /\ Completions(h, Append(s, v))
                = Completions(h, s) + (IF Closing(h, v) THEN 1 ELSE 0)
<1> DEFINE C == {i \in DOMAIN s : Closing(h, s[i])}
           D == {i \in DOMAIN Append(s, v) : Closing(h, Append(s, v)[i])}
           n == Len(s) + 1
<1>1. Completions(h, s) = Cardinality(C) /\ Completions(h, Append(s, v)) = Cardinality(D)
  BY DEF Completions, Closing
<1>2. IsFiniteSet(C) /\ Cardinality(C) \in Nat
  <2>1. IsFiniteSet(1 .. Len(s)) /\ DOMAIN s = 1 .. Len(s)
    BY LenProperties, FS_Interval, SMT
  <2>2. IsFiniteSet(C)
    BY <2>1, FS_Subset, C \subseteq DOMAIN s
  <2> QED
    BY <2>2, FS_CardinalityType
<1>3. n \notin C /\ D = IF Closing(h, v) THEN C \cup {n} ELSE C
  BY AppendEvent
<1> HIDE DEF C, D, n
<1>4. Cardinality(C \cup {n}) = Cardinality(C) + 1
  BY <1>2, <1>3, FS_AddElement
<1> QED
  BY <1>1, <1>2, <1>3, <1>4

(***************************************************************************)
(* No completion is counted exactly when there is none.                    *)
(***************************************************************************)
LEMMA NoCompletions ==
    ASSUME NEW s \in Seq(Event), NEW h
    PROVE  Completions(h, s) = 0 <=> \A i \in DOMAIN s : ~Closing(h, s[i])
<1> DEFINE C == {i \in DOMAIN s : Closing(h, s[i])}
<1>1. Completions(h, s) = Cardinality(C)
  BY DEF Completions, Closing
<1>2. IsFiniteSet(1 .. Len(s)) /\ DOMAIN s = 1 .. Len(s)
  BY LenProperties, FS_Interval, SMT
<1>3. IsFiniteSet(C)
  BY <1>2, FS_Subset, C \subseteq DOMAIN s
<1>4. Cardinality(C) = 0 <=> C = {}
  BY <1>3, FS_EmptySet
<1> QED
  BY <1>1, <1>4

(***************************************************************************)
(* The start of a step among the first events of a log, place by place.    *)
(***************************************************************************)
LEMMA BeganBefore ==
    ASSUME NEW s \in Seq(Event), NEW i \in 1 .. Len(s), NEW id
    PROVE  Began(id, SubSeq(s, 1, i - 1))
             <=> \E j \in 1 .. i - 1 : s[j].entity = id /\ s[j].type = "step.started"
<1> DEFINE t == SubSeq(s, 1, i - 1)
<1>1. Len(s) \in Nat /\ i \in Nat /\ i >= 1 /\ \A j \in 1 .. Len(s) : s[j] \in Event
  BY LenProperties
<1>2. 1 \in Int /\ i - 1 \in Int /\ \A j \in 1 .. i - 1 : s[j] \in Event
  BY <1>1
<1>3. /\ t \in Seq(Event)
      /\ Len(t) = IF 1 <= i - 1 THEN i - 1 - 1 + 1 ELSE 0
      /\ \A j \in 1 .. i - 1 - 1 + 1 : t[j] = s[1 + j - 1]
  BY <1>2, SubSeqProperties
<1> HIDE DEF t
<1>4. DOMAIN t = 1 .. Len(t)
  BY <1>3, LenProperties
<1>5. DOMAIN t = 1 .. i - 1
  BY <1>1, <1>3, <1>4
<1>6. ASSUME NEW j \in 1 .. i - 1 PROVE t[j] = s[j]
  <2>1. j \in 1 .. i - 1 - 1 + 1 /\ 1 + j - 1 = j
    BY <1>1
  <2> QED
    BY <1>3, <2>1
<1>7. Began(id, t) <=> \E j \in 1 .. i - 1 : s[j].entity = id /\ s[j].type = "step.started"
  BY <1>5, <1>6 DEF Began
<1> QED
  BY <1>7 DEF t

-----------------------------------------------------------------------------
(* What the steps have in common. *)

\* The host keeps its handles, and a handle keeps its kind and its run.
HandlesStay ==
    /\ issued <= issued'
    /\ \A id \in Ids :
         handles[id] # null =>
           /\ handles'[id] # null
           /\ handles'[id].kind = handles[id].kind
           /\ handles'[id].run = handles[id].run

(***************************************************************************)
(* An event that agrees with the handles goes on agreeing with them.       *)
(***************************************************************************)
LEMMA AgreesStays ==
    ASSUME TypeOK, TypeOK', HandlesStay, NEW v \in Event, Agrees(v)
    PROVE  Agrees(v)'
<1>1. v.entity \in Nat /\ v.step \in Ids \cup {null} /\ issued \in Nat /\ issued' \in Nat
  BY HandlesAssumption DEF Event, Ids, Kept, TypeOK
<1>2. v.entity <= issued'
  BY <1>1 DEF HandlesStay, Agrees
<1>3. \A kind : \A id \in Held(kind) : id \in Held(kind)' /\ handles'[id].run = handles[id].run
  BY DEF Held, HandlesStay
<1>4. \A id \in Completable : id \in Completable' /\ handles'[id].run = handles[id].run
  BY <1>3 DEF Completable
<1> QED
  BY <1>1, <1>2, <1>3, <1>4 DEF Agrees

(***************************************************************************)
(* record() adds the event to the queue's log or to the counted drops, and *)
(* changes nothing that was there.                                         *)
(***************************************************************************)
LEMMA Recording ==
    ASSUME TypeOK, NEW v \in Event, record(v)
    PROVE  /\ wire' \in Seq(Event) /\ lost' \in Seq(Event)
           /\ Len(wire') + Len(lost') = Len(wire) + Len(lost) + 1
           /\ \A i \in DOMAIN wire : i \in DOMAIN wire' /\ wire'[i] = wire[i]
           /\ \A i \in DOMAIN wire' : i \in DOMAIN wire \/ (i = Len(wire) + 1 /\ wire'[i] = v)
           /\ \A i \in DOMAIN lost : i \in DOMAIN lost' /\ lost'[i] = lost[i]
           /\ \A i \in DOMAIN lost' : i \in DOMAIN lost \/ lost'[i] = v
           /\ \/ \E i \in DOMAIN wire' : wire'[i] = v
              \/ \E i \in DOMAIN lost' : lost'[i] = v
           /\ \A h : Completions(h, wire') + Completions(h, lost')
                      = Completions(h, wire) + Completions(h, lost) + (IF Closing(h, v) THEN 1 ELSE 0)
<1>1. wire \in Seq(Event) /\ lost \in Seq(Event) /\ Len(wire) \in Nat /\ Len(lost) \in Nat
  BY LenProperties DEF TypeOK
<1>2. CASE wire' = Append(wire, v) /\ lost' = lost
  <2>1. /\ wire' \in Seq(Event) /\ Len(wire') = Len(wire) + 1
        /\ DOMAIN wire = 1 .. Len(wire) /\ DOMAIN wire' = 1 .. Len(wire) + 1
        /\ \A i \in 1 .. Len(wire) : wire'[i] = wire[i]
        /\ wire'[Len(wire) + 1] = v
    BY <1>1, <1>2, AppendEvent
  <2>2. \A h : /\ Completions(h, wire) \in Nat /\ Completions(h, lost) \in Nat
               /\ Completions(h, wire') = Completions(h, wire) + (IF Closing(h, v) THEN 1 ELSE 0)
    BY <1>1, <1>2, CompletionsAdd
  <2>3. \A h : Completions(h, wire') + Completions(h, lost')
                  = Completions(h, wire) + Completions(h, lost) + (IF Closing(h, v) THEN 1 ELSE 0)
    BY <1>2, <2>2
  <2>4. /\ \A i \in DOMAIN wire : i \in DOMAIN wire' /\ wire'[i] = wire[i]
        /\ \A i \in DOMAIN wire' : i \in DOMAIN wire \/ (i = Len(wire) + 1 /\ wire'[i] = v)
    <3>1. /\ \A i \in 1 .. Len(wire) : i \in 1 .. Len(wire) + 1
          /\ \A i \in 1 .. Len(wire) + 1 : i \in 1 .. Len(wire) \/ i = Len(wire) + 1
      BY <1>1
    <3>2. \A i \in DOMAIN wire : i \in DOMAIN wire' /\ wire'[i] = wire[i]
      BY <2>1, <3>1
    <3>3. ASSUME NEW i \in DOMAIN wire'
          PROVE  i \in DOMAIN wire \/ (i = Len(wire) + 1 /\ wire'[i] = v)
      <4>1. i \in DOMAIN wire \/ i = Len(wire) + 1
        BY <2>1, <3>1
      <4>2. i = Len(wire) + 1 => wire'[i] = v
        BY <2>1
      <4> QED
        BY <4>1, <4>2
    <3> QED
      BY <3>2, <3>3, Zenon
  <2>6. \E i \in DOMAIN wire' : wire'[i] = v
    <3>1. Len(wire) + 1 \in DOMAIN wire'
      BY <1>1, <2>1
    <3> QED
      BY <2>1, <3>1
  <2>5. Len(wire') + Len(lost') = Len(wire) + Len(lost) + 1
    BY <1>1, <1>2, <2>1
  <2>7. \A i \in DOMAIN lost : i \in DOMAIN lost' /\ lost'[i] = lost[i]
    BY <1>2
  <2>8. \A i \in DOMAIN lost' : i \in DOMAIN lost
    BY <1>2
  <2> QED
    BY <1>1, <1>2, <2>1, <2>3, <2>4, <2>5, <2>6, <2>7, <2>8, Zenon
<1>3. CASE lost' = Append(lost, v) /\ wire' = wire
  <2>1. /\ lost' \in Seq(Event) /\ Len(lost') = Len(lost) + 1
        /\ DOMAIN lost = 1 .. Len(lost) /\ DOMAIN lost' = 1 .. Len(lost) + 1
        /\ \A i \in 1 .. Len(lost) : lost'[i] = lost[i]
        /\ lost'[Len(lost) + 1] = v
    BY <1>1, <1>3, AppendEvent
  <2>2. \A h : /\ Completions(h, wire) \in Nat /\ Completions(h, lost) \in Nat
               /\ Completions(h, lost') = Completions(h, lost) + (IF Closing(h, v) THEN 1 ELSE 0)
    BY <1>1, <1>3, CompletionsAdd
  <2>3. \A h : Completions(h, wire') + Completions(h, lost')
                  = Completions(h, wire) + Completions(h, lost) + (IF Closing(h, v) THEN 1 ELSE 0)
    BY <1>3, <2>2
  <2>4. /\ \A i \in DOMAIN lost : i \in DOMAIN lost' /\ lost'[i] = lost[i]
        /\ \A i \in DOMAIN lost' : i \in DOMAIN lost \/ lost'[i] = v
    <3>1. /\ \A i \in 1 .. Len(lost) : i \in 1 .. Len(lost) + 1
          /\ \A i \in 1 .. Len(lost) + 1 : i \in 1 .. Len(lost) \/ i = Len(lost) + 1
      BY <1>1
    <3> QED
      BY <2>1, <3>1, Zenon
  <2>6. \E i \in DOMAIN lost' : lost'[i] = v
    <3>1. Len(lost) + 1 \in DOMAIN lost'
      BY <1>1, <2>1
    <3> QED
      BY <2>1, <3>1
  <2>5. Len(wire') + Len(lost') = Len(wire) + Len(lost) + 1
    BY <1>1, <1>3, <2>1
  <2>7. \A i \in DOMAIN wire : i \in DOMAIN wire' /\ wire'[i] = wire[i]
    BY <1>3
  <2>8. \A i \in DOMAIN wire' : i \in DOMAIN wire
    BY <1>3
  <2> QED
    <3>1. wire' \in Seq(Event)
      BY <1>1, <1>3
    <3> QED
      BY <2>1, <2>3, <2>4, <2>5, <2>6, <2>7, <2>8, <3>1
<1> QED
  BY <1>2, <1>3 DEF record

(***************************************************************************)
(* A start that was recorded stays recorded, and record() of a start       *)
(* records it, accepted or dropped.                                        *)
(***************************************************************************)
LEMMA BeganStays ==
    ASSUME TypeOK, NEW v \in Event, record(v)
    PROVE  /\ \A id : Began(id, wire) => Began(id, wire')
           /\ \A id : Began(id, lost) => Began(id, lost')
           /\ v.type = "step.started" => Began(v.entity, wire') \/ Began(v.entity, lost')
<1>1. /\ \A i \in DOMAIN wire : i \in DOMAIN wire' /\ wire'[i] = wire[i]
      /\ \A i \in DOMAIN lost : i \in DOMAIN lost' /\ lost'[i] = lost[i]
      /\ (\E i \in DOMAIN wire' : wire'[i] = v) \/ (\E i \in DOMAIN lost' : lost'[i] = v)
  BY Recording
<1> QED
  BY <1>1 DEF Began

(***************************************************************************)
(* Recording an event keeps the tree whole: the step it names has a        *)
(* handle, so the start of that step was recorded before.                  *)
(***************************************************************************)
LEMMA ParentsStay ==
    ASSUME IInv, TypeOK', HandlesStay, NEW v \in Event, Agrees(v), record(v)
    PROVE  ParentsPrecede'
<1>1. /\ TypeOK /\ wire \in Seq(Event) /\ lost \in Seq(Event) /\ wire' \in Seq(Event)
      /\ AllAgree(wire) /\ StepsBegan /\ ParentsPrecede
  BY DEF IInv, TypeOK
<1>2. /\ Len(wire) \in Nat /\ DOMAIN wire = 1 .. Len(wire)
      /\ Len(wire') \in Nat /\ DOMAIN wire' = 1 .. Len(wire')
  BY <1>1, LenProperties
<1>3. /\ \A i \in DOMAIN wire : i \in DOMAIN wire' /\ wire'[i] = wire[i]
      /\ \A i \in DOMAIN wire' : i \in DOMAIN wire \/ (i = Len(wire) + 1 /\ wire'[i] = v)
  BY <1>1, Recording
<1>4. \A id : Began(id, lost) => Began(id, lost')
  BY <1>1, BeganStays
<1> SUFFICES ASSUME NEW i \in DOMAIN wire', wire'[i].step # null
             PROVE  /\ handles'[wire'[i].step].kind = "step"
                    /\ handles'[wire'[i].step].run = wire'[i].run
                    /\ Began(wire'[i].step, SubSeq(wire', 1, i - 1)) \/ Began(wire'[i].step, lost')
  BY DEF ParentsPrecede
<1> DEFINE h == wire'[i].step
<1>5. Agrees(wire'[i])
  BY <1>1, <1>3 DEF AllAgree
<1>6. h \in Held("step") /\ handles[h].run = wire'[i].run
  BY <1>5 DEF Agrees
<1>7. handles'[h].kind = "step" /\ handles'[h].run = wire'[i].run
  BY <1>6 DEF Held, HandlesStay
<1>8. CASE i \in DOMAIN wire
  <2>1. Began(h, SubSeq(wire, 1, i - 1)) \/ Began(h, lost)
    BY <1>1, <1>3, <1>8 DEF ParentsPrecede
  <2>2. CASE Began(h, SubSeq(wire, 1, i - 1))
    <3>1. PICK j \in 1 .. i - 1 : wire[j].entity = h /\ wire[j].type = "step.started"
      BY <1>1, <1>2, <1>8, <2>2, BeganBefore
    <3>2. j \in DOMAIN wire
      BY <1>2, <1>8
    <3>3. wire'[j] = wire[j]
      BY <1>3, <3>2
    <3>4. Began(h, SubSeq(wire', 1, i - 1))
      BY <1>1, <1>2, <3>1, <3>3, BeganBefore
    <3> QED
      BY <1>7, <3>4
  <2> QED
    BY <1>4, <1>7, <2>1, <2>2
<1>9. CASE i = Len(wire) + 1 /\ wire'[i] = v
  <2>1. Began(h, wire) \/ Began(h, lost)
    BY <1>1, <1>6 DEF StepsBegan
  <2>2. CASE Began(h, wire)
    <3>1. PICK j \in DOMAIN wire : wire[j].entity = h /\ wire[j].type = "step.started"
      BY <2>2 DEF Began
    <3>2. j \in 1 .. i - 1 /\ wire'[j] = wire[j]
      BY <1>2, <1>3, <1>9
    <3>3. Began(h, SubSeq(wire', 1, i - 1))
      BY <1>1, <1>2, <3>1, <3>2, BeganBefore
    <3> QED
      BY <1>7, <3>3
  <2> QED
    BY <1>4, <1>7, <2>1, <2>2
<1> QED
  BY <1>3, <1>8, <1>9

-----------------------------------------------------------------------------
(* The invariant, action by action. *)

\* Before the first call nothing is held and nothing is recorded.
LEMMA InitKeeps ==
    ASSUME Init
    PROVE  IInv
<1>1. TypeOK
  <2>1. 0 \in 0 .. MaxIds /\ 0 \in 0 .. MaxCalls
    BY HandlesAssumption
  <2>2. <<>> \in Seq(Event)
    BY EmptySeq
  <2>3. handles \in [Ids -> Handle \cup {null}]
    BY DEF Init
  <2> QED
    BY <2>1, <2>2, <2>3 DEF Init, TypeOK
<1>2. /\ DOMAIN wire = {} /\ DOMAIN lost = {} /\ DOMAIN stack = {} /\ DOMAIN thrown = {}
      /\ \A k : Held(k) = {}
  BY DEF Init, Held
<1>3. AllAgree(wire) /\ AllAgree(lost) /\ AllAgree(stack) /\ AllAgree(thrown) /\ OpenedInItsRun
      /\ Building /\ StepsBegan /\ ParentsPrecede /\ FirstCompletionDecides
  BY <1>2 DEF AllAgree, OpenedInItsRun, Building, StepsBegan, ParentsPrecede, FirstCompletionDecides
<1>4. Issued
  BY DEF Init, Issued
<1>5. CallsAreAccounted
  BY DEF Init, CallsAreAccounted
<1> QED
  BY <1>1, <1>3, <1>4, <1>5 DEF IInv

\* A call that makes a new entity begins.
Starts(v) ==
    /\ Calls /\ nextId \in Ids /\ issued' = nextId
    /\ v.entity = nextId /\ v.run \in Ids /\ What(v.type) = "opens"
    /\ v.step # null => v.step \in Held("step") /\ handles[v.step].run = v.run
    /\ Begins(v)
    /\ UNCHANGED <<handles, wire, lost, closed, ignored, thrown>>

(***************************************************************************)
(* The six calls that make an entity begin alike.                          *)
(***************************************************************************)
LEMMA OpeningCalls ==
    ASSUME TypeOK,
           createRun \/ createStep \/ recordToolCall \/ recordModelCall \/ recordError \/ recordDecision
    PROVE  \E v \in Event : Starts(v)
<1>1. CASE createRun
  <2> DEFINE v == Made("run.started", nextId, nextId, null, null)
  <2>1. v \in Event /\ Starts(v)
    BY <1>1 DEF createRun, Starts, Made, Event, Types, What, Calls, Begins
  <2> QED
    BY <2>1
<1>2. CASE createStep
  <2>1. PICK h \in Completable :
          Begins(Made("step.started", nextId, handles[h].run, IF handles[h].kind = "step" THEN h ELSE null, null))
    BY <1>2 DEF createStep, Completable
  <2> DEFINE v == Made("step.started", nextId, handles[h].run, IF handles[h].kind = "step" THEN h ELSE null, null)
  <2>2. h \in Ids /\ handles[h] \in Handle
    BY DEF Completable, Held, TypeOK
  <2>3. v \in Event
    BY <1>2, <2>2 DEF createStep, Made, Event, Types, Handle
  <2>4. v.step # null => v.step \in Held("step") /\ handles[v.step].run = v.run
    BY <2>2, NullAssumption DEF Made, Held
  <2>5. Starts(v)
    BY <1>2, <2>1, <2>2, <2>4 DEF createStep, Starts, Made, What, Handle
  <2> QED
    BY <2>3, <2>5
<1>3. ASSUME NEW types \in SUBSET {"tool_call.recorded", "model_call.recorded", "error.recorded", "decision.recorded"},
             recordOf(types)
      PROVE  \E v \in Event : Starts(v)
  <2>1. PICK h \in Held("step"), type \in types : Begins(Made(type, nextId, handles[h].run, h, null))
    BY <1>3 DEF recordOf
  <2> DEFINE v == Made(type, nextId, handles[h].run, h, null)
  <2>2. h \in Ids /\ handles[h] \in Handle
    BY DEF Held, TypeOK
  <2>3. v \in Event
    BY <1>3, <2>2 DEF recordOf, Made, Event, Types, Handle
  <2>4. What(type) = "opens"
    BY DEF What
  <2>5. Starts(v)
    BY <1>3, <2>1, <2>2, <2>4 DEF recordOf, Starts, Made, Handle
  <2> QED
    BY <2>3, <2>5
<1> QED
  BY <1>1, <1>2, <1>3 DEF recordToolCall, recordModelCall, recordError, recordDecision

\* A call that makes an entity begins: its id is above every id in use, so no handle,
\* event or call of the stack is about it.
LEMMA StartsKeeps ==
    ASSUME IInv, NEW v \in Event, Starts(v)
    PROVE  IInv'
<1> DEFINE n == Len(stack) + 1
<1>1. /\ TypeOK /\ AllAgree(wire) /\ AllAgree(lost) /\ AllAgree(stack) /\ AllAgree(thrown)
      /\ OpenedInItsRun /\ Building
      /\ StepsBegan /\ Issued /\ ParentsPrecede /\ CallsAreAccounted /\ FirstCompletionDecides
  BY DEF IInv
<1>2. /\ wire \in Seq(Event) /\ lost \in Seq(Event) /\ stack \in Seq(Event) /\ thrown \in Seq(Event)
      /\ issued \in Nat /\ issued + 1 \in Ids /\ issued' = issued + 1 /\ issued' \in 0 .. MaxIds
      /\ v.entity = issued + 1 /\ v.run \in Ids /\ What(v.type) = "opens"
      /\ v.step # null => v.step \in Held("step") /\ handles[v.step].run = v.run
      /\ calls \in Nat /\ calls' = calls + 1 /\ calls' \in 0 .. MaxCalls
      /\ stack' = Append(stack, v)
      /\ handles' = handles /\ wire' = wire /\ lost' = lost /\ closed' = closed
      /\ ignored' = ignored /\ thrown' = thrown
  BY <1>1, HandlesAssumption DEF TypeOK, Starts, Calls, Begins, nextId, Ids
<1>3. /\ stack' \in Seq(Event) /\ Len(stack) \in Nat /\ Len(stack') = n
      /\ DOMAIN stack = 1 .. Len(stack) /\ DOMAIN stack' = 1 .. n
      /\ \A k \in 1 .. Len(stack) : stack'[k] = stack[k]
      /\ stack'[n] = v
  BY <1>2, AppendEvent
<1>4. \A k \in DOMAIN stack' : (k \in DOMAIN stack /\ stack'[k] = stack[k]) \/ (k = n /\ stack'[k] = v)
  BY <1>3
<1> HIDE DEF n
<1>5. TypeOK'
  BY <1>1, <1>2, <1>3 DEF TypeOK
<1>6. HandlesStay
  BY <1>2 DEF HandlesStay
<1>7. \A w \in Event : Agrees(w) => Agrees(w)'
  BY <1>1, <1>5, <1>6, AgreesStays
<1>8. AllAgree(wire)' /\ AllAgree(lost)' /\ AllAgree(thrown)'
  BY <1>1, <1>2, <1>7, LenProperties DEF AllAgree
<1>9. AllAgree(stack)'
  <2>1. Agrees(v)'
    <3>1. \A kind : Held(kind)' = Held(kind)
      BY <1>2 DEF Held
    <3>2. v.entity <= issued'
      BY <1>2
    <3> QED
      BY <1>2, <3>1, <3>2 DEF Agrees
  <2>2. \A k \in DOMAIN stack : Agrees(stack[k])'
    BY <1>1, <1>2, <1>7, LenProperties DEF AllAgree
  <2> QED
    BY <1>4, <2>1, <2>2 DEF AllAgree
<1>10. OpenedInItsRun' /\ StepsBegan' /\ ParentsPrecede'
  BY <1>1, <1>2 DEF OpenedInItsRun, StepsBegan, ParentsPrecede, Held
<1>11. Issued'
  <2>1. issued \in Nat /\ issued' = issued + 1 /\ handles' = handles /\ \A id \in Ids : id \in Nat
    BY <1>2 DEF Ids
  <2> QED
    BY <1>1, <2>1 DEF Issued
<1>12. Building'
  <2>1. \A i \in DOMAIN wire : wire[i].entity # v.entity
    <3>1. \A i \in DOMAIN wire : wire[i].entity <= issued
      BY <1>1 DEF AllAgree, Agrees
    <3> QED
      BY <1>2, <3>1
  <2>2. \A k \in DOMAIN stack : stack[k].entity # v.entity
    <3>1. \A k \in DOMAIN stack : stack[k].entity <= issued
      BY <1>1 DEF AllAgree, Agrees
    <3> QED
      BY <1>2, <3>1
  <2>3. handles[v.entity] = null
    BY <1>1, <1>2 DEF Issued
  <2> SUFFICES ASSUME NEW k \in DOMAIN stack'
               PROVE  /\ stack'[k].entity \in Ids
                      /\ What(stack'[k].type) # "attests"
                      /\ What(stack'[k].type) = "opens" =>
                           /\ handles'[stack'[k].entity] = null
                           /\ stack'[k].run \in Ids
                           /\ \A i \in DOMAIN wire' : wire'[i].entity # stack'[k].entity
                           /\ \A j \in DOMAIN stack' : j # k => stack'[j].entity # stack'[k].entity
    BY DEF Building
  <2>4. CASE k \in DOMAIN stack /\ stack'[k] = stack[k]
    BY <1>1, <1>2, <1>4, <2>2, <2>4 DEF Building
  <2>5. CASE k = n /\ stack'[k] = v
    BY <1>2, <1>4, <2>1, <2>2, <2>3, <2>5
  <2> QED
    BY <1>4, <2>4, <2>5
<1>13. CallsAreAccounted'
  BY <1>1, <1>2, <1>3, LenProperties DEF CallsAreAccounted, TypeOK, n
<1>14. FirstCompletionDecides'
  <2>1. \A h : Completions(h, stack') = Completions(h, stack)
    <3>1. \A h : ~Closing(h, v)
      BY <1>2 DEF Closing
    <3>2. \A h : Completions(h, stack) \in Nat /\ Completions(h, stack') = Completions(h, stack) + 0
      BY <1>2, <3>1, CompletionsAdd
    <3> QED
      BY <3>2
  <2> QED
    BY <1>1, <1>2, <2>1 DEF FirstCompletionDecides, Held
<1> QED
  BY <1>5, <1>8, <1>9, <1>10, <1>11, <1>12, <1>13, <1>14 DEF IInv

(***************************************************************************)
(* Every count of calls is within the number of calls.                     *)
(***************************************************************************)
LEMMA CountsAreCalls ==
    ASSUME TypeOK, CallsAreAccounted
    PROVE  /\ Len(wire) \in Nat /\ Len(lost) \in Nat /\ Len(stack) \in Nat
           /\ calls \in Nat /\ ignored \in Nat /\ Len(thrown) \in Nat
           /\ ignored <= calls
<1>1. /\ Len(wire) \in Nat /\ Len(lost) \in Nat /\ Len(stack) \in Nat
      /\ calls \in Nat /\ ignored \in Nat /\ Len(thrown) \in Nat
  BY LenProperties DEF TypeOK
<1> QED
  BY <1>1 DEF CallsAreAccounted

\* complete(): a second one is noted; the first sets the flag and begins, so the one
\* completion of the handle is on the stack.
LEMMA CompleteKeeps ==
    ASSUME IInv, NEW h \in Completable, complete(h)
    PROVE  IInv'
<1>1. /\ TypeOK /\ AllAgree(wire) /\ AllAgree(lost) /\ AllAgree(stack) /\ AllAgree(thrown)
      /\ OpenedInItsRun /\ Building
      /\ StepsBegan /\ Issued /\ ParentsPrecede /\ CallsAreAccounted /\ FirstCompletionDecides
  BY DEF IInv
<1>2. /\ h \in Ids /\ handles[h] \in Handle /\ handles[h] # null
      /\ wire \in Seq(Event) /\ lost \in Seq(Event) /\ stack \in Seq(Event) /\ thrown \in Seq(Event)
      /\ calls \in Nat /\ calls' = calls + 1 /\ calls' \in 0 .. MaxCalls
      /\ ignored \in Nat /\ Len(thrown) \in Nat /\ ignored <= calls
      /\ Len(wire) \in Nat /\ Len(lost) \in Nat /\ Len(stack) \in Nat
      /\ issued' = issued /\ wire' = wire /\ lost' = lost /\ closed' = closed /\ thrown' = thrown
  <2>1. h \in Ids /\ handles[h] \in Handle /\ handles[h] # null
    BY <1>1 DEF Completable, Held, TypeOK
  <2>2. calls' = calls + 1 /\ calls' \in 0 .. MaxCalls
    BY <1>1, HandlesAssumption DEF complete, Calls, TypeOK
  <2> QED
    BY <1>1, <2>1, <2>2, CountsAreCalls DEF complete, TypeOK
<1>3. CASE handles[h].completed
  <2>1. ignored' = ignored + 1 /\ handles' = handles /\ stack' = stack
    BY <1>3 DEF complete
  <2>2. TypeOK'
    BY <1>1, <1>2, <2>1, HandlesAssumption DEF TypeOK
  <2>3. AllAgree(wire)' /\ AllAgree(lost)' /\ AllAgree(stack)' /\ AllAgree(thrown)'
    BY <1>1, <1>2, <2>1 DEF AllAgree, Agrees, Held, Completable
  <2>4. OpenedInItsRun' /\ Building' /\ StepsBegan' /\ Issued' /\ ParentsPrecede' /\ FirstCompletionDecides'
    BY <1>1, <1>2, <2>1 DEF OpenedInItsRun, Building, StepsBegan, Issued, ParentsPrecede, FirstCompletionDecides, Held
  <2>5. CallsAreAccounted'
    BY <1>1, <1>2, <2>1 DEF CallsAreAccounted
  <2> QED
    BY <2>2, <2>3, <2>4, <2>5 DEF IInv
<1>4. CASE ~handles[h].completed
  <2> DEFINE n == Len(stack) + 1
  <2>1. PICK status \in Status : Begins(Made(Completion(h), h, handles[h].run, null, status))
    BY <1>4 DEF complete
  <2> DEFINE c == Made(Completion(h), h, handles[h].run, null, status)
  <2>0. /\ c \in Event /\ c.entity = h /\ c.run = handles[h].run /\ c.step = null
        /\ What(c.type) = "closes" /\ stack' = Append(stack, c)
    BY <1>2, <2>1 DEF Made, Completion, Event, Types, Handle, What, Begins
  <2>2. PICK v \in Event :
          /\ v.entity = h /\ v.run = handles[h].run /\ v.step = null
          /\ What(v.type) = "closes" /\ stack' = Append(stack, v)
    BY <2>0
  <2>3. handles' = [handles EXCEPT ![h].completed = TRUE] /\ ignored' = ignored
    BY <1>4 DEF complete
  <2>4. /\ stack' \in Seq(Event) /\ Len(stack') = n
        /\ DOMAIN stack = 1 .. Len(stack) /\ DOMAIN stack' = 1 .. n
        /\ \A k \in 1 .. Len(stack) : stack'[k] = stack[k]
        /\ stack'[n] = v
    BY <1>2, <2>2, AppendEvent
  <2>5. \A k \in DOMAIN stack' : (k \in DOMAIN stack /\ stack'[k] = stack[k]) \/ (k = n /\ stack'[k] = v)
    BY <1>2, <2>4
  <2> HIDE DEF n
  <2>6. handles' \in [Ids -> Handle \cup {null}]
    BY <1>1, <1>2, <2>3 DEF TypeOK, Handle
  <2>7. TypeOK'
    BY <1>1, <1>2, <2>3, <2>4, <2>6 DEF TypeOK
  <2>8. /\ \A id \in Ids : handles'[id] = null <=> handles[id] = null
        /\ \A id \in Ids : handles[id] # null =>
             /\ handles'[id].kind = handles[id].kind
             /\ handles'[id].run = handles[id].run
        /\ handles'[h].completed = TRUE
        /\ \A id \in Ids : id # h => handles'[id] = handles[id]
    <3>1. /\ handles'[h] = [handles[h] EXCEPT !.completed = TRUE]
          /\ \A id \in Ids : id # h => handles'[id] = handles[id]
      BY <1>1, <1>2, <2>3 DEF TypeOK
    <3>2. /\ handles'[h] \in Handle /\ handles'[h].kind = handles[h].kind
          /\ handles'[h].run = handles[h].run /\ handles'[h].completed = TRUE
      BY <1>2, <3>1 DEF Handle
    <3>3. handles'[h] # null
      BY <3>2, NullAssumption
    <3> QED
      BY <1>2, <3>1, <3>2, <3>3
  <2>9. HandlesStay /\ \A kind : Held(kind)' = Held(kind)
    BY <1>1, <1>2, <2>8 DEF HandlesStay, Held, TypeOK
  <2>10. \A w \in Event : Agrees(w) => Agrees(w)'
    BY <1>1, <2>7, <2>9, AgreesStays
  <2>11. AllAgree(wire)' /\ AllAgree(lost)' /\ AllAgree(thrown)'
    BY <1>1, <1>2, <2>10, LenProperties DEF AllAgree
  <2>12. AllAgree(stack)'
    <3>1. h <= issued /\ v.entity <= issued'
      BY <1>1, <1>2, <2>2 DEF Issued
    <3>2. Agrees(v)'
      BY <1>2, <2>2, <2>8, <2>9, <3>1 DEF Agrees, Completable
    <3>3. ASSUME NEW k \in DOMAIN stack, stack'[k] = stack[k] PROVE Agrees(stack[k])'
      <4>1. stack[k] \in Event /\ Agrees(stack[k])
        BY <1>1, <1>2, LenProperties DEF AllAgree
      <4> QED
        BY <2>10, <3>3, <4>1
    <3> QED
      BY <2>5, <3>2, <3>3 DEF AllAgree
  <2>13. OpenedInItsRun'
    BY <1>1, <1>2, <2>8, SMTT(30) DEF OpenedInItsRun
  <2>14. Building'
    <3> SUFFICES ASSUME NEW k \in DOMAIN stack'
                 PROVE  /\ stack'[k].entity \in Ids
                        /\ What(stack'[k].type) # "attests"
                        /\ What(stack'[k].type) = "opens" =>
                             /\ handles'[stack'[k].entity] = null
                             /\ stack'[k].run \in Ids
                             /\ \A i \in DOMAIN wire' : wire'[i].entity # stack'[k].entity
                             /\ \A j \in DOMAIN stack' : j # k => stack'[j].entity # stack'[k].entity
      BY DEF Building
    <3>1. CASE k \in DOMAIN stack /\ stack'[k] = stack[k]
      <4>1. What(stack[k].type) = "opens" => stack[k].entity # h
        BY <1>1, <1>2, <3>1 DEF Building
      <4>2. /\ stack[k].entity \in Ids /\ What(stack[k].type) # "attests"
            /\ What(stack[k].type) = "opens" =>
                 /\ handles[stack[k].entity] = null
                 /\ stack[k].run \in Ids
                 /\ \A i \in DOMAIN wire : wire[i].entity # stack[k].entity
                 /\ \A j \in DOMAIN stack : j # k => stack[j].entity # stack[k].entity
        BY <1>1, <3>1 DEF Building
      <4> QED
        BY <1>2, <2>2, <2>5, <2>8, <3>1, <4>1, <4>2
    <3>2. CASE k = n /\ stack'[k] = v
      BY <1>2, <2>2, <3>2
    <3> QED
      BY <2>5, <3>1, <3>2
  <2>15. StepsBegan' /\ Issued'
    BY <1>1, <1>2, <2>8, <2>9 DEF StepsBegan, Issued
  <2>16. ParentsPrecede'
    <3>1. \A i \in DOMAIN wire : wire[i].step # null => wire[i].step \in Ids /\ handles[wire[i].step] # null
      BY <1>1 DEF AllAgree, Agrees, Held
    <3> QED
      BY <1>1, <1>2, <2>8, <3>1 DEF ParentsPrecede
  <2>17. CallsAreAccounted'
    BY <1>1, <1>2, <2>3, <2>4 DEF CallsAreAccounted, n
  <2>18. FirstCompletionDecides'
    <3> SUFFICES ASSUME NEW g \in Held("run") \cup Held("step")
                 PROVE  Completions(g, wire') + Completions(g, lost') + Completions(g, stack')
                          + Completions(g, thrown') = IF handles'[g].completed THEN 1 ELSE 0
      BY <2>9 DEF FirstCompletionDecides
    <3>1. Completions(g, wire) + Completions(g, lost) + Completions(g, stack) + Completions(g, thrown)
            = IF handles[g].completed THEN 1 ELSE 0
      BY <1>1 DEF FirstCompletionDecides
    <3>2. /\ Completions(g, wire) \in Nat /\ Completions(g, lost) \in Nat /\ Completions(g, stack) \in Nat
          /\ Completions(g, thrown) \in Nat
          /\ Completions(g, stack') = Completions(g, stack) + (IF Closing(g, v) THEN 1 ELSE 0)
      BY <1>2, <2>2, CompletionsAdd
    <3>3. g \in Ids /\ handles[g] # null
      BY DEF Held
    <3>4. (g = h => handles'[g].completed = TRUE) /\ (g # h => handles'[g] = handles[g])
      BY <2>8, <3>3
    <3>5. Closing(g, v) <=> g = h
      BY <2>2 DEF Closing
    <3>8. wire' = wire /\ lost' = lost /\ thrown' = thrown
      BY <1>2
    <3>6. CASE g = h
      <4>1. Completions(g, wire) + Completions(g, lost) + Completions(g, stack) + Completions(g, thrown) = 0
        BY <1>4, <3>1, <3>6
      <4>2. Completions(g, stack') = Completions(g, stack) + 1
        BY <3>2, <3>5, <3>6
      <4> QED
        BY <3>2, <3>4, <3>6, <3>8, <4>1, <4>2
    <3>7. CASE g # h
      <4>1. Completions(g, stack') = Completions(g, stack)
        BY <3>2, <3>5, <3>7
      <4> QED
        BY <3>1, <3>4, <3>7, <3>8, <4>1
    <3> QED
      BY <3>6, <3>7
  <2> QED
    BY <2>7, <2>11, <2>12, <2>13, <2>14, <2>15, <2>16, <2>17, <2>18 DEF IInv
<1> QED
  BY <1>3, <1>4

(***************************************************************************)
(* Recording an event that agrees with the handles keeps every recorded    *)
(* event agreeing with them.                                               *)
(***************************************************************************)
LEMMA RecordedAgree ==
    ASSUME IInv, TypeOK', HandlesStay, NEW v \in Event, Agrees(v), record(v)
    PROVE  AllAgree(wire)' /\ AllAgree(lost)'
<1>1. /\ TypeOK /\ AllAgree(wire) /\ AllAgree(lost) /\ wire \in Seq(Event) /\ lost \in Seq(Event)
  BY DEF IInv, TypeOK
<1>2. \A w \in Event : Agrees(w) => Agrees(w)'
  BY <1>1, AgreesStays
<1>3. ASSUME NEW i \in DOMAIN wire' PROVE Agrees(wire[i])'
  <2>1. wire'[i] \in Event /\ Agrees(wire'[i])
    BY <1>1, Recording, LenProperties DEF AllAgree
  <2> QED
    BY <1>2, <2>1
<1>4. ASSUME NEW i \in DOMAIN lost' PROVE Agrees(lost[i])'
  <2>1. lost'[i] \in Event /\ Agrees(lost'[i])
    BY <1>1, Recording, LenProperties DEF AllAgree
  <2> QED
    BY <1>2, <2>1
<1> QED
  BY <1>3, <1>4 DEF AllAgree

\* An attestation of a decision that has a handle or was kept from an earlier process.
OfADecision(v) ==
    /\ What(v.type) = "attests" /\ v.step = null
    /\ \/ v.entity = Kept /\ v.run = Kept
       \/ v.entity \in Held("decision") /\ handles[v.entity].run = v.run

\* Such an attestation agrees with the handles, and completes nothing.
LEMMA AttestedAgrees ==
    ASSUME TypeOK, Issued, NEW d \in Held("decision") \cup {Kept}
    PROVE  Attested(d) \in Event /\ OfADecision(Attested(d)) /\ Agrees(Attested(d))
<1> DEFINE v == Attested(d)
<1>1. v \in Event /\ OfADecision(v)
  BY DEF Attested, OfADecision, Made, Event, Types, What, Held, Handle, TypeOK
<1> HIDE DEF v
<1>2. v.entity \in Held("decision") => v.entity \in Ids /\ handles[v.entity] # null
  BY DEF Held
<1>3. v.entity <= issued
  BY <1>1, <1>2 DEF OfADecision, Issued, Kept, TypeOK
<1>4. Agrees(v)
  BY <1>1, <1>3 DEF Agrees, OfADecision
<1> QED
  BY <1>1, <1>4 DEF v

\* recordAttestation: it throws on an invalid date, or records an event about a decision.
LEMMA AttestationKeeps ==
    ASSUME IInv, recordAttestation
    PROVE  IInv'
<1>1. /\ TypeOK /\ AllAgree(wire) /\ AllAgree(lost) /\ AllAgree(stack) /\ AllAgree(thrown)
      /\ OpenedInItsRun /\ Building
      /\ StepsBegan /\ Issued /\ ParentsPrecede /\ CallsAreAccounted /\ FirstCompletionDecides
  BY DEF IInv
<1>2. /\ calls \in Nat /\ calls' = calls + 1 /\ calls' \in 0 .. MaxCalls
      /\ ignored \in Nat /\ ignored <= calls /\ thrown \in Seq(Event) /\ Len(thrown) \in Nat
      /\ Len(wire) \in Nat /\ Len(lost) \in Nat /\ Len(stack) \in Nat
      /\ issued' = issued /\ handles' = handles /\ stack' = stack /\ closed' = closed /\ ignored' = ignored
  <2>1. calls' = calls + 1 /\ calls' \in 0 .. MaxCalls
    BY <1>1, HandlesAssumption DEF recordAttestation, Calls, TypeOK
  <2> QED
    BY <1>1, <2>1, CountsAreCalls DEF recordAttestation, TypeOK
<1>4. ASSUME NEW v \in Event, OfADecision(v), Agrees(v),
             thrown' = Append(thrown, v), wire' = wire, lost' = lost
      PROVE  IInv'
  <2>1. /\ thrown' \in Seq(Event) /\ Len(thrown') = Len(thrown) + 1
        /\ \A i \in DOMAIN thrown' : (i \in DOMAIN thrown /\ thrown'[i] = thrown[i]) \/ thrown'[i] = v
    BY <1>2, <1>4, AppendEvent
  <2>2. TypeOK'
    BY <1>1, <1>2, <1>4, <2>1 DEF TypeOK
  <2>3. AllAgree(wire)' /\ AllAgree(lost)' /\ AllAgree(stack)'
    BY <1>1, <1>2, <1>4 DEF AllAgree, Agrees, Held, Completable
  <2>4. AllAgree(thrown)'
    <3>1. \A w : Agrees(w) <=> Agrees(w)'
      BY <1>2 DEF Agrees, Held, Completable
    <3> QED
      BY <1>1, <1>4, <2>1, <3>1 DEF AllAgree
  <2>5. OpenedInItsRun' /\ Building' /\ StepsBegan' /\ Issued' /\ ParentsPrecede'
    BY <1>1, <1>2, <1>4 DEF OpenedInItsRun, Building, StepsBegan, Issued, ParentsPrecede, Held
  <2>6. CallsAreAccounted'
    BY <1>1, <1>2, <1>4, <2>1 DEF CallsAreAccounted
  <2>7. FirstCompletionDecides'
    <3>1. \A h : ~Closing(h, v)
      BY <1>4 DEF Closing, OfADecision
    <3>2. \A h : Completions(h, thrown) \in Nat /\ Completions(h, thrown') = Completions(h, thrown) + 0
      BY <1>2, <1>4, <3>1, CompletionsAdd
    <3>3. \A h : Completions(h, thrown') = Completions(h, thrown)
      BY <3>2
    <3> QED
      BY <1>1, <1>2, <1>4, <3>3 DEF FirstCompletionDecides, Held
  <2> QED
    BY <2>2, <2>3, <2>4, <2>5, <2>6, <2>7 DEF IInv
<1>5. ASSUME NEW v \in Event, OfADecision(v), Agrees(v), record(v), thrown' = thrown
      PROVE  IInv'
  <2>1. /\ wire' \in Seq(Event) /\ lost' \in Seq(Event)
        /\ Len(wire') + Len(lost') = Len(wire) + Len(lost) + 1
        /\ \A i \in DOMAIN wire : i \in DOMAIN wire' /\ wire'[i] = wire[i]
        /\ \A i \in DOMAIN wire' : i \in DOMAIN wire \/ (i = Len(wire) + 1 /\ wire'[i] = v)
        /\ \A h : Completions(h, wire') + Completions(h, lost')
                      = Completions(h, wire) + Completions(h, lost) + (IF Closing(h, v) THEN 1 ELSE 0)
    BY <1>1, <1>5, Recording
  <2>2. TypeOK'
    BY <1>1, <1>2, <1>5, <2>1 DEF TypeOK
  <2>3. HandlesStay /\ \A kind : Held(kind)' = Held(kind)
    BY <1>1, <1>2 DEF HandlesStay, Held, TypeOK
  <2>6. AllAgree(wire)' /\ AllAgree(lost)' /\ ParentsPrecede'
    BY <1>5, <2>2, <2>3, RecordedAgree, ParentsStay
  <2>7. AllAgree(stack)' /\ AllAgree(thrown)' /\ Issued'
    BY <1>1, <1>2, <1>5 DEF AllAgree, Agrees, Held, Completable, Issued
  <2>8. OpenedInItsRun'
    BY <1>1, <1>2, <1>5, <2>1 DEF OpenedInItsRun, OfADecision
  <2>9. Building'
    <3>1. \A k \in DOMAIN stack : What(stack[k].type) = "opens" => v.entity # stack[k].entity
      <4>1. \A k \in DOMAIN stack : stack[k].entity \in Ids
               /\ (What(stack[k].type) = "opens" => handles[stack[k].entity] = null)
        BY <1>1 DEF Building
      <4>2. Kept \notin Ids
        BY HandlesAssumption DEF Kept, Ids
      <4>3. v.entity \in Held("decision") => handles[v.entity] # null
        BY DEF Held
      <4> QED
        BY <1>5, <4>1, <4>2, <4>3 DEF OfADecision
    <3>2. \A k \in DOMAIN stack : What(stack[k].type) = "opens" =>
            \A i \in DOMAIN wire' : wire'[i].entity # stack[k].entity
      BY <1>1, <2>1, <3>1 DEF Building
    <3> QED
      BY <1>1, <1>2, <3>2 DEF Building
  <2>10. StepsBegan'
    BY <1>1, <1>5, <2>3, BeganStays DEF StepsBegan
  <2>11. CallsAreAccounted'
    <3>1. Len(wire') \in Nat /\ Len(lost') \in Nat
      BY <2>1, LenProperties
    <3>2. Len(wire') + Len(lost') = Len(wire) + Len(lost) + 1
      BY <2>1
    <3>3. calls = Len(wire) + Len(lost) + ignored + Len(thrown) + Len(stack)
      BY <1>1 DEF CallsAreAccounted
    <3>4. calls' = Len(wire') + Len(lost') + ignored' + Len(thrown') + Len(stack')
      BY <1>2, <1>5, <3>1, <3>2, <3>3
    <3> QED
      BY <3>4 DEF CallsAreAccounted
  <2>12. FirstCompletionDecides'
    <3>1. \A h : ~Closing(h, v)
      BY <1>5 DEF Closing, OfADecision
    <3>2. \A h : Completions(h, wire) \in Nat /\ Completions(h, lost) \in Nat
      BY <1>1, <1>5, CompletionsAdd DEF TypeOK
    <3>3. \A h : Completions(h, wire') + Completions(h, lost') = Completions(h, wire) + Completions(h, lost)
      BY <2>1, <3>1, <3>2
    <3> QED
      BY <1>1, <1>2, <1>5, <2>3, <3>3 DEF FirstCompletionDecides
  <2> QED
    BY <2>2, <2>6, <2>7, <2>8, <2>9, <2>10, <2>11, <2>12 DEF IInv
<1> QED
  <2>1. PICK d \in Held("decision") \cup {Kept} :
          \/ record(Attested(d)) /\ thrown' = thrown
          \/ thrown' = Append(thrown, Attested(d)) /\ wire' = wire /\ lost' = lost
    BY DEF recordAttestation
  <2>2. Attested(d) \in Event /\ OfADecision(Attested(d)) /\ Agrees(Attested(d))
    BY <1>1, AttestedAgrees
  <2> QED
    BY <1>4, <1>5, <2>1, <2>2

(***************************************************************************)
(* The stack without its innermost call.                                   *)
(***************************************************************************)
LEMMA Returning ==
    ASSUME TypeOK, stack # <<>>, stack' = Front(stack)
    PROVE  /\ Innermost \in Event /\ stack' \in Seq(Event)
           /\ Len(stack) \in Nat /\ Len(stack') \in Nat /\ Len(stack) = Len(stack') + 1
           /\ Len(stack) \in DOMAIN stack /\ stack[Len(stack)] = Innermost
           /\ \A k \in DOMAIN stack' : k \in DOMAIN stack /\ k # Len(stack) /\ stack'[k] = stack[k]
           /\ \A h : Completions(h, stack) = Completions(h, stack') + (IF Closing(h, Innermost) THEN 1 ELSE 0)
           /\ \A h : Completions(h, stack') \in Nat
<1>1. stack \in Seq(Event) /\ DOMAIN stack = 1 .. Len(stack)
  BY LenProperties DEF TypeOK
<1>2. /\ Len(stack) \in Nat /\ Len(stack) >= 1
      /\ Innermost \in Event /\ Innermost = stack[Len(stack)]
      /\ stack' \in Seq(Event)
      /\ Len(stack') = Len(stack) - 1
      /\ \A i \in 1 .. Len(stack) - 1 : stack'[i] = stack[i]
      /\ stack = Append(stack', Innermost)
  BY <1>1, FrontAndLast DEF Innermost
<1>3. DOMAIN stack' = 1 .. Len(stack')
  BY <1>2, LenProperties
<1>4. \A k \in 1 .. Len(stack) - 1 : k \in 1 .. Len(stack) /\ k # Len(stack)
  BY <1>2
<1>5. \A k \in DOMAIN stack' : k \in DOMAIN stack /\ k # Len(stack) /\ stack'[k] = stack[k]
  BY <1>1, <1>2, <1>3, <1>4
<1>6. \A h : /\ Completions(h, stack') \in Nat
             /\ Completions(h, Append(stack', Innermost))
                  = Completions(h, stack') + (IF Closing(h, Innermost) THEN 1 ELSE 0)
  BY <1>2, CompletionsAdd
<1>7. \A h : Completions(h, stack) = Completions(h, stack') + (IF Closing(h, Innermost) THEN 1 ELSE 0)
  BY <1>2, <1>6, Zenon
<1>8. Len(stack) \in DOMAIN stack /\ Len(stack') \in Nat /\ Len(stack) = Len(stack') + 1
  BY <1>1, <1>2
<1> QED
  BY <1>2, <1>5, <1>6, <1>7, <1>8

\* A call that host code throws out of leaves the stack and records nothing: its completion,
\* if it was one, is among the calls that threw, and the handle stays completed.
LEMMA ThrowsKeeps ==
    ASSUME IInv, Throws
    PROVE  IInv'
<1>1. /\ TypeOK /\ AllAgree(wire) /\ AllAgree(lost) /\ AllAgree(stack) /\ AllAgree(thrown)
      /\ OpenedInItsRun /\ Building
      /\ StepsBegan /\ Issued /\ ParentsPrecede /\ CallsAreAccounted /\ FirstCompletionDecides
  BY DEF IInv
<1>2. /\ calls \in Nat /\ thrown \in Seq(Event) /\ Len(thrown) \in Nat /\ thrown' = Append(thrown, Innermost)
      /\ ignored \in Nat /\ Len(wire) \in Nat /\ Len(lost) \in Nat /\ calls' = calls
      /\ issued' = issued /\ handles' = handles /\ closed' = closed /\ ignored' = ignored
      /\ wire' = wire /\ lost' = lost
  BY <1>1, CountsAreCalls DEF Throws, TypeOK
<1>3. /\ stack' \in Seq(Event)
      /\ Len(stack) \in Nat /\ Len(stack') \in Nat /\ Len(stack) = Len(stack') + 1
      /\ \A k \in DOMAIN stack' : k \in DOMAIN stack /\ stack'[k] = stack[k]
      /\ Len(stack) \in DOMAIN stack /\ stack[Len(stack)] = Innermost /\ Innermost \in Event
      /\ \A h : Completions(h, stack) = Completions(h, stack') + (IF Closing(h, Innermost) THEN 1 ELSE 0)
      /\ \A h : Completions(h, stack') \in Nat
  BY <1>1, Returning DEF Throws
<1>4. /\ thrown' \in Seq(Event) /\ Len(thrown') = Len(thrown) + 1
      /\ \A i \in DOMAIN thrown' :
           (i \in DOMAIN thrown /\ thrown'[i] = thrown[i]) \/ thrown'[i] = Innermost
      /\ \A h : Completions(h, thrown') = Completions(h, thrown) + (IF Closing(h, Innermost) THEN 1 ELSE 0)
  BY <1>2, <1>3, AppendEvent, CompletionsAdd
<1>5. TypeOK'
  BY <1>1, <1>2, <1>3, <1>4 DEF TypeOK
<1>6. AllAgree(wire)' /\ AllAgree(lost)' /\ AllAgree(stack)' /\ AllAgree(thrown)'
  <2>1. \A w : Agrees(w) <=> Agrees(w)'
    BY <1>2 DEF Agrees, Held, Completable
  <2>2. Agrees(Innermost)
    BY <1>1, <1>3 DEF AllAgree
  <2>3. AllAgree(thrown)'
    BY <1>1, <1>4, <2>1, <2>2 DEF AllAgree
  <2> QED
    BY <1>1, <1>2, <1>3, <2>1, <2>3 DEF AllAgree
<1>7. OpenedInItsRun' /\ StepsBegan' /\ Issued' /\ ParentsPrecede'
  BY <1>1, <1>2 DEF OpenedInItsRun, StepsBegan, Issued, ParentsPrecede, Held
<1>8. Building'
  BY <1>1, <1>2, <1>3 DEF Building
<1>9. CallsAreAccounted'
  BY <1>1, <1>2, <1>3, <1>4 DEF CallsAreAccounted
<1>10. FirstCompletionDecides'
  <2>1. \A h : /\ Completions(h, wire) \in Nat /\ Completions(h, lost) \in Nat
               /\ Completions(h, thrown) \in Nat
    BY <1>1, <1>2, <1>3, CompletionsAdd DEF TypeOK
  <2>2. \A h : Completions(h, wire') + Completions(h, lost') + Completions(h, stack') + Completions(h, thrown')
                = Completions(h, wire) + Completions(h, lost) + Completions(h, stack) + Completions(h, thrown)
    <3> TAKE h
    <3>1. Completions(h, wire') = Completions(h, wire) /\ Completions(h, lost') = Completions(h, lost)
      BY <1>2
    <3>2. /\ Completions(h, stack') \in Nat
          /\ Completions(h, stack) = Completions(h, stack') + (IF Closing(h, Innermost) THEN 1 ELSE 0)
      BY <1>3
    <3>3. Completions(h, thrown') = Completions(h, thrown) + (IF Closing(h, Innermost) THEN 1 ELSE 0)
      BY <1>4
    <3> QED
      BY <2>1, <3>1, <3>2, <3>3
  <2>3. \A kind : Held(kind)' = Held(kind)
    BY <1>2 DEF Held
  <2> QED
    BY <1>1, <1>2, <2>2, <2>3 DEF FirstCompletionDecides
<1> QED
  BY <1>5, <1>6, <1>7, <1>8, <1>9, <1>10 DEF IInv

\* shutdown() only closes the client.
LEMMA IdleKeeps ==
    ASSUME IInv, shutdown \/ UNCHANGED vars
    PROVE  IInv'
<1>1. /\ issued' = issued /\ handles' = handles /\ stack' = stack /\ wire' = wire /\ lost' = lost
      /\ ignored' = ignored /\ thrown' = thrown /\ calls' = calls
      /\ closed' = TRUE \/ closed' = closed
  BY DEF shutdown, vars
<1>2. TypeOK'
  BY <1>1 DEF IInv, TypeOK
<1>3. AllAgree(wire)' /\ AllAgree(lost)' /\ AllAgree(stack)' /\ AllAgree(thrown)'
  BY <1>1 DEF IInv, AllAgree, Agrees, Held, Completable
<1>4. OpenedInItsRun' /\ Building' /\ StepsBegan' /\ Issued'
  BY <1>1 DEF IInv, OpenedInItsRun, Building, StepsBegan, Issued, Held
<1>5. ParentsPrecede' /\ CallsAreAccounted' /\ FirstCompletionDecides'
  BY <1>1 DEF IInv, ParentsPrecede, CallsAreAccounted, FirstCompletionDecides, Held
<1> QED
  BY <1>2, <1>3, <1>4, <1>5 DEF IInv

(***************************************************************************)
(* The handle a call returns: a call that opens an entity makes its first  *)
(* handle, of the event's run and not completed, or none; a completion     *)
(* leaves the handles alone.                                               *)
(***************************************************************************)
LEMMA HandleReturned ==
    ASSUME TypeOK, NEW v \in Event, v.entity \in Ids, What(v.type) # "attests",
           What(v.type) = "opens" => handles[v.entity] = null /\ v.run \in Ids,
           handles' = [handles EXCEPT ![v.entity] = HandleOf(v)]
    PROVE  /\ handles' \in [Ids -> Handle \cup {null}]
           /\ \A id \in Ids : id # v.entity => handles'[id] = handles[id]
           /\ What(v.type) = "closes" => handles' = handles
           /\ What(v.type) = "opens" /\ handles'[v.entity] # null =>
                /\ handles'[v.entity].run = v.run
                /\ handles'[v.entity].completed = FALSE
                /\ handles'[v.entity].kind = "step" => v.type = "step.started"
<1>1. handles \in [Ids -> Handle \cup {null}] /\ v.type \in Types
  BY DEF TypeOK, Event
<1>2. CASE v.type \in {"run.started", "step.started", "decision.recorded"}
  <2>1. What(v.type) = "opens"
    BY <1>2 DEF What
  <2>2. PICK kind \in {"run", "step", "decision"} :
          /\ HandleOf(v) = [kind |-> kind, run |-> v.run, completed |-> FALSE]
          /\ kind = "step" => v.type = "step.started"
    BY <1>2 DEF HandleOf
  <2>3. HandleOf(v) \in Handle
    BY <2>1, <2>2 DEF Handle
  <2> QED
    BY <1>1, <2>1, <2>2, <2>3
<1>3. CASE v.type \notin {"run.started", "step.started", "decision.recorded"}
  <2>1. HandleOf(v) = handles[v.entity]
    BY <1>3 DEF HandleOf
  <2>2. handles' = handles
    BY <1>1, <2>1
  <2> QED
    BY <1>1, <2>2
<1> QED
  BY <1>2, <1>3

\* The innermost call records its event and returns its handle.
LEMMA EndsKeeps ==
    ASSUME IInv, Ends
    PROVE  IInv'
<1>1. /\ TypeOK /\ AllAgree(wire) /\ AllAgree(lost) /\ AllAgree(stack) /\ AllAgree(thrown)
      /\ OpenedInItsRun /\ Building
      /\ StepsBegan /\ Issued /\ ParentsPrecede /\ CallsAreAccounted /\ FirstCompletionDecides
      /\ wire \in Seq(Event) /\ lost \in Seq(Event) /\ stack \in Seq(Event) /\ thrown \in Seq(Event)
  BY DEF IInv, TypeOK
<1>2. /\ issued' = issued /\ closed' = closed /\ ignored' = ignored /\ thrown' = thrown /\ calls' = calls
      /\ stack # <<>> /\ stack' = Front(stack)
  BY DEF Ends
<1> DEFINE n == Len(stack)
<1>3. PICK v \in Event : v = Innermost
  BY <1>1, <1>2, Returning
<1>4. /\ stack' \in Seq(Event) /\ n \in Nat /\ Len(stack') \in Nat /\ n = Len(stack') + 1
      /\ n \in DOMAIN stack /\ stack[n] = v
      /\ \A k \in DOMAIN stack' : k \in DOMAIN stack /\ k # n /\ stack'[k] = stack[k]
      /\ \A h : Completions(h, stack) = Completions(h, stack') + (IF Closing(h, v) THEN 1 ELSE 0)
      /\ \A h : Completions(h, stack') \in Nat
  BY <1>1, <1>2, <1>3, Returning
<1> HIDE DEF n
<1>5. record(v) /\ handles' = [handles EXCEPT ![v.entity] = HandleOf(v)]
  BY <1>3 DEF Ends
<1>6. /\ v.entity \in Ids /\ What(v.type) \in {"opens", "closes"}
      /\ What(v.type) = "opens" =>
           /\ handles[v.entity] = null
           /\ v.run \in Ids
           /\ \A i \in DOMAIN wire : wire[i].entity # v.entity
      /\ Agrees(v)
  BY <1>1, <1>4 DEF Building, AllAgree, What
<1>7. /\ handles' \in [Ids -> Handle \cup {null}]
      /\ \A id \in Ids : id # v.entity => handles'[id] = handles[id]
      /\ What(v.type) = "closes" => handles' = handles
      /\ What(v.type) = "opens" /\ handles'[v.entity] # null =>
           /\ handles'[v.entity].run = v.run
           /\ handles'[v.entity].completed = FALSE
           /\ handles'[v.entity].kind = "step" => v.type = "step.started"
  BY <1>1, <1>5, <1>6, HandleReturned
<1>8. /\ wire' \in Seq(Event) /\ lost' \in Seq(Event)
      /\ Len(wire') + Len(lost') = Len(wire) + Len(lost) + 1
      /\ \A i \in DOMAIN wire : i \in DOMAIN wire' /\ wire'[i] = wire[i]
      /\ \A i \in DOMAIN wire' : i \in DOMAIN wire \/ (i = Len(wire) + 1 /\ wire'[i] = v)
      /\ \A h : Completions(h, wire') + Completions(h, lost')
                    = Completions(h, wire) + Completions(h, lost) + (IF Closing(h, v) THEN 1 ELSE 0)
  BY <1>1, <1>5, Recording
<1>9. TypeOK'
  BY <1>1, <1>2, <1>4, <1>7, <1>8 DEF TypeOK
<1>10. \A id \in Ids : handles[id] # null => handles'[id] = handles[id]
  BY <1>6, <1>7
<1>11. HandlesStay
  <2>1. issued <= issued'
    BY <1>1, <1>2 DEF TypeOK
  <2> QED
    BY <1>10, <2>1 DEF HandlesStay
<1>12. AllAgree(wire)' /\ AllAgree(lost)' /\ ParentsPrecede'
  BY <1>5, <1>6, <1>9, <1>11, RecordedAgree, ParentsStay
<1>13. AllAgree(stack)' /\ AllAgree(thrown)'
  <2>0. \A w \in Event : Agrees(w) => Agrees(w)'
    BY <1>1, <1>9, <1>11, AgreesStays
  <2>3. AllAgree(thrown)'
    BY <1>1, <1>2, <2>0, LenProperties DEF AllAgree
  <2> SUFFICES ASSUME NEW k \in DOMAIN stack'
               PROVE  Agrees(stack[k])'
    BY <2>3 DEF AllAgree
  <2>1. stack'[k] \in Event /\ Agrees(stack'[k])
    BY <1>1, <1>4, LenProperties DEF AllAgree
  <2> QED
    BY <2>0, <2>1
<1>14. OpenedInItsRun'
  <2> SUFFICES ASSUME NEW i \in DOMAIN wire', What(wire'[i].type) = "opens"
               PROVE  /\ wire'[i].entity \in Ids
                      /\ handles'[wire'[i].entity] # null => handles'[wire'[i].entity].run = wire'[i].run
    BY DEF OpenedInItsRun
  <2>1. CASE i \in DOMAIN wire
    <3>1. /\ wire[i].entity \in Ids
          /\ handles[wire[i].entity] # null => handles[wire[i].entity].run = wire[i].run
      BY <1>1, <1>8, <2>1 DEF OpenedInItsRun
    <3>2. handles'[wire[i].entity] = handles[wire[i].entity]
      BY <1>6, <1>7, <2>1, <3>1
    <3> QED
      BY <1>8, <2>1, <3>1, <3>2
  <2>2. CASE wire'[i] = v
    BY <1>6, <1>7, <2>2
  <2> QED
    BY <1>8, <2>1, <2>2
<1>15. Building'
  <2> SUFFICES ASSUME NEW k \in DOMAIN stack'
               PROVE  /\ stack'[k].entity \in Ids
                      /\ What(stack'[k].type) # "attests"
                      /\ What(stack'[k].type) = "opens" =>
                           /\ handles'[stack'[k].entity] = null
                           /\ stack'[k].run \in Ids
                           /\ \A i \in DOMAIN wire' : wire'[i].entity # stack'[k].entity
                           /\ \A j \in DOMAIN stack' : j # k => stack'[j].entity # stack'[k].entity
    BY DEF Building
  <2>1. /\ stack[k].entity \in Ids
        /\ What(stack[k].type) # "attests"
        /\ What(stack[k].type) = "opens" =>
             /\ handles[stack[k].entity] = null
             /\ stack[k].run \in Ids
             /\ \A i \in DOMAIN wire : wire[i].entity # stack[k].entity
             /\ \A j \in DOMAIN stack : j # k => stack[j].entity # stack[k].entity
    BY <1>1, <1>4 DEF Building
  <2>2. What(stack[k].type) = "opens" => v.entity # stack[k].entity
    BY <1>4, <2>1
  <2> QED
    BY <1>4, <1>7, <1>8, <2>1, <2>2
<1>16. StepsBegan'
  <2> SUFFICES ASSUME NEW h \in Ids, handles'[h] # null, handles'[h].kind = "step"
               PROVE  Began(h, wire') \/ Began(h, lost')
    BY DEF StepsBegan, Held
  <2>1. CASE handles[h] # null
    BY <1>1, <1>5, <1>10, <2>1, BeganStays DEF StepsBegan, Held
  <2>2. CASE handles[h] = null
    <3>1. h = v.entity /\ v.type = "step.started"
      BY <1>6, <1>7, <2>2
    <3> QED
      BY <1>1, <1>5, <3>1, BeganStays
  <2> QED
    BY <2>1, <2>2
<1>17. Issued'
  <2>1. v.entity <= issued
    BY <1>6 DEF Agrees
  <2> QED
    BY <1>1, <1>2, <1>7, <2>1 DEF Issued
<1>18. CallsAreAccounted'
  <2>1. Len(wire') \in Nat /\ Len(lost') \in Nat
    BY <1>8, LenProperties
  <2>2. Len(wire') + Len(lost') = Len(wire) + Len(lost) + 1
    BY <1>8
  <2>3. calls = Len(wire) + Len(lost) + ignored + Len(thrown) + n
    BY <1>1 DEF CallsAreAccounted, n
  <2>4. calls' = Len(wire') + Len(lost') + ignored' + Len(thrown') + Len(stack')
    <3>1. /\ Len(wire) \in Nat /\ Len(lost) \in Nat /\ calls \in Nat /\ ignored \in Nat /\ Len(thrown) \in Nat
          /\ n \in Nat /\ Len(stack') \in Nat /\ n = Len(stack') + 1
      BY <1>1, <1>4, CountsAreCalls
    <3> QED
      BY <1>2, <2>1, <2>2, <2>3, <3>1
  <2> QED
    BY <2>4 DEF CallsAreAccounted
<1>19. FirstCompletionDecides'
  <2> SUFFICES ASSUME NEW h \in Ids, handles'[h] # null, handles'[h].kind \in {"run", "step"}
               PROVE  Completions(h, wire') + Completions(h, lost') + Completions(h, stack')
                        + Completions(h, thrown') = IF handles'[h].completed THEN 1 ELSE 0
    BY DEF FirstCompletionDecides, Held
  <2>1. /\ Completions(h, wire) \in Nat /\ Completions(h, lost) \in Nat /\ Completions(h, stack) \in Nat
        /\ Completions(h, wire') \in Nat /\ Completions(h, lost') \in Nat /\ Completions(h, stack') \in Nat
        /\ Completions(h, thrown) \in Nat
    BY <1>1, <1>4, <1>8, CompletionsAdd
  <2>2. Completions(h, wire') + Completions(h, lost') + Completions(h, stack') + Completions(h, thrown')
          = Completions(h, wire) + Completions(h, lost) + Completions(h, stack) + Completions(h, thrown)
    <3>1. Completions(h, wire') + Completions(h, lost')
            = Completions(h, wire) + Completions(h, lost) + (IF Closing(h, v) THEN 1 ELSE 0)
      BY <1>8
    <3>2. Completions(h, stack) = Completions(h, stack') + (IF Closing(h, v) THEN 1 ELSE 0)
      BY <1>4
    <3> QED
      BY <1>2, <2>1, <3>1, <3>2
  <2>3. CASE handles[h] # null
    <3>1. handles'[h] = handles[h] /\ h \in Held("run") \cup Held("step")
      BY <1>10, <2>3 DEF Held
    <3> QED
      BY <1>1, <2>2, <3>1 DEF FirstCompletionDecides
  <2>4. CASE handles[h] = null
    <3>1. handles'[h].completed = FALSE
      BY <1>6, <1>7, <2>4
    <3>2. h \notin Completable
      BY <2>4 DEF Completable, Held
    <3>3. \A w : Agrees(w) => ~Closing(h, w)
      BY <3>2 DEF Agrees, Closing
    <3>4. /\ Completions(h, wire) = 0 /\ Completions(h, lost) = 0
          /\ Completions(h, stack) = 0 /\ Completions(h, thrown) = 0
      BY <1>1, <3>3, NoCompletions DEF AllAgree
    <3> QED
      BY <2>2, <3>1, <3>4
  <2> QED
    BY <2>3, <2>4
<1> QED
  BY <1>9, <1>12, <1>13, <1>14, <1>15, <1>16, <1>17, <1>18, <1>19 DEF IInv

-----------------------------------------------------------------------------
(* The theorems. *)

\* Every step keeps the invariant.
LEMMA NextKeeps ==
    ASSUME IInv, [Next]_vars
    PROVE  IInv'
<1>1. TypeOK
  BY DEF IInv
<1>2. CASE createRun \/ createStep \/ recordToolCall \/ recordModelCall \/ recordError \/ recordDecision
  BY <1>1, <1>2, OpeningCalls, StartsKeeps
<1>3. CASE \E h \in Held("run") \cup Held("step") : complete(h)
  BY <1>3, CompleteKeeps DEF Completable
<1>4. CASE recordAttestation
  BY <1>4, AttestationKeeps
<1>5. CASE Ends
  BY <1>5, EndsKeeps
<1>6. CASE Throws
  BY <1>6, ThrowsKeeps
<1>7. CASE shutdown \/ UNCHANGED vars
  BY <1>7, IdleKeeps
<1> QED
  BY <1>2, <1>3, <1>4, <1>5, <1>6, <1>7 DEF Next

\* The inductive invariant holds in every behaviour.
LEMMA Invariant == Spec => []IInv
<1>1. Init => IInv
  BY InitKeeps
<1>2. IInv /\ [Next]_vars => IInv'
  BY NextKeeps
<1> QED
  BY <1>1, <1>2, PTL DEF Spec

(***************************************************************************)
(* Whatever host code does while a payload is built (complete a handle,    *)
(* start a step, shut the client down) and whichever events record() drops,*)
(* every event in the queue names a step of its own run whose start was    *)
(* accepted before it or counted as dropped, and every call is an event, a *)
(* counted drop, a noted second completion or an exception.                *)
(***************************************************************************)
THEOREM TreeIsWhole == Spec => []HandlesAreSound
<1>1. IInv => HandlesAreSound
  BY DEF IInv, HandlesAreSound
<1> QED
  BY <1>1, Invariant, PTL

(***************************************************************************)
(* createCompleter: the first complete() of a handle decides, also when it *)
(* is called again inside its own payload and when its payload throws: one *)
(* completion is accepted, dropped and counted, being built, or ended by   *)
(* the exception, and no later call sends another.                         *)
(***************************************************************************)
THEOREM OneCompletion == Spec => []FirstCompletionDecides
<1>1. IInv => FirstCompletionDecides
  BY DEF IInv
<1> QED
  BY <1>1, Invariant, PTL

(***************************************************************************)
(* What is told to the server when the queue accepts an event.             *)
(***************************************************************************)
LEMMA LogAppends ==
    ASSUME TypeOK, NEW v \in Event, wire' = Append(wire, v)
    PROVE  Log' = Append(Log, Told(v))
<1>1. /\ wire \in Seq(Event) /\ Len(wire) \in Nat /\ DOMAIN wire = 1 .. Len(wire)
      /\ DOMAIN wire' = 1 .. Len(wire) + 1
      /\ \A i \in 1 .. Len(wire) : wire'[i] = wire[i]
      /\ wire'[Len(wire) + 1] = v
  BY AppendEvent DEF TypeOK
<1> DEFINE T == {Told(w) : w \in Event}
<1>2. Log \in Seq(T) /\ Len(Log) = Len(wire)
  <2>1. \A i \in 1 .. Len(wire) : Told(wire[i]) \in T
    BY <1>1, LenProperties
  <2>2. Log = [i \in 1 .. Len(wire) |-> Told(wire[i])]
    BY <1>1 DEF Log
  <2> HIDE DEF T
  <2>3. Log \in Seq(T)
    BY <1>1, <2>1, <2>2, IsASeq
  <2> QED
    BY <1>1, <2>2, <2>3, LenProperties
<1>3. Told(v) \in T
  OBVIOUS
<1> HIDE DEF T
<1> DEFINE L == Append(Log, Told(v))
<1>4. /\ L \in Seq(T) /\ Len(L) = Len(wire) + 1
      /\ \A i \in 1 .. Len(wire) : L[i] = Log[i]
      /\ L[Len(wire) + 1] = Told(v)
  BY <1>2, <1>3, AppendProperties
<1>5. L = [i \in 1 .. Len(wire) + 1 |-> L[i]]
  BY <1>4, LenProperties
<1> HIDE DEF L
<1>6. \A i \in 1 .. Len(wire) + 1 : L[i] = Told(wire'[i])
  BY <1>1, <1>4 DEF Log
<1>7. Log' = [i \in 1 .. Len(wire) + 1 |-> Told(wire'[i])]
  BY <1>1 DEF Log
<1> QED
  BY <1>5, <1>6, <1>7 DEF L

(***************************************************************************)
(* An event that record() accepts is a step of the abstract log.           *)
(***************************************************************************)
LEMMA AcceptingIsAStep ==
    ASSUME IInv, NEW v \in Event, Agrees(v), wire' = Append(wire, v),
           What(v.type) = "opens" => \A i \in DOMAIN wire : wire[i].entity # v.entity,
           What(v.type) = "closes" => Completions(v.entity, wire) = 0
    PROVE  EntityLog!Next
<1>1. TypeOK /\ wire \in Seq(Event) /\ AllAgree(wire) /\ OpenedInItsRun
  BY DEF IInv, TypeOK
<1>2. Log' = Append(Log, [entity |-> v.entity, run |-> v.run, what |-> What(v.type)])
  BY <1>1, LogAppends DEF Told
<1>3. v.entity \in Ids \cup {Kept} /\ v.run \in Ids \cup {Kept}
  BY DEF Event
<1>4. /\ DOMAIN Log = DOMAIN wire
      /\ \A i \in DOMAIN wire : /\ Log[i].entity = wire[i].entity
                                /\ Log[i].run = wire[i].run
                                /\ Log[i].what = What(wire[i].type)
  BY DEF Log, Told
<1>5. \A w \in Event : What(w.type) \in {"opens", "closes", "attests"}
  BY DEF What
<1>6. CASE What(v.type) = "opens"
  <2>1. EntityLog!New(v.entity)
    BY <1>4, <1>6 DEF EntityLog!New, EntityLog!Of
  <2>2. EntityLog!Opens(v.entity, v.run)
    BY <1>2, <1>6, <2>1 DEF EntityLog!Opens
  <2> QED
    BY <1>3, <2>2 DEF EntityLog!Next
<1>7. ASSUME \/ What(v.type) = "closes"
             \/ What(v.type) = "attests"
      PROVE  EntityLog!SameRun(v.entity, v.run)
  <2> SUFFICES ASSUME NEW i \in DOMAIN wire, wire[i].entity = v.entity
               PROVE  wire[i].run = v.run
    BY <1>4 DEF EntityLog!SameRun, EntityLog!Of
  <2>1. Agrees(wire[i]) /\ wire[i] \in Event
    BY <1>1, LenProperties DEF AllAgree
  <2>2. Kept \notin Ids
    BY HandlesAssumption DEF Kept, Ids
  <2>3. CASE v.entity = Kept
    <3>1. v.entity \notin Completable /\ v.entity \notin Held("decision")
      BY <2>2, <2>3 DEF Completable, Held
    <3>2. v.run = Kept
      BY <1>7, <3>1 DEF Agrees
    <3>3. What(wire[i].type) # "opens" /\ What(wire[i].type) # "closes"
      BY <1>1, <2>1, <2>2, <2>3, <3>1 DEF Agrees, OpenedInItsRun
    <3>4. wire[i].run = Kept
      BY <1>5, <2>1, <3>1, <3>3 DEF Agrees
    <3> QED
      BY <3>2, <3>4
  <2>4. CASE v.entity # Kept
    <3>1. v.entity \in Ids /\ handles[v.entity] # null /\ handles[v.entity].run = v.run
      BY <1>7, <2>4 DEF Agrees, Completable, Held
    <3>2. handles[wire[i].entity].run = wire[i].run
      BY <1>1, <1>5, <2>1, <2>4, <3>1 DEF Agrees, OpenedInItsRun
    <3> QED
      BY <3>1, <3>2
  <2> QED
    BY <2>3, <2>4
<1>8. CASE What(v.type) = "closes"
  <2>1. \A i \in DOMAIN wire : ~(wire[i].entity = v.entity /\ What(wire[i].type) = "closes")
    BY <1>1, <1>8, NoCompletions DEF Closing
  <2>2. ~EntityLog!Closed(v.entity)
    BY <1>4, <2>1 DEF EntityLog!Closed, EntityLog!Of
  <2>3. EntityLog!Closes(v.entity, v.run)
    BY <1>2, <1>7, <1>8, <2>2 DEF EntityLog!Closes
  <2> QED
    BY <1>3, <2>3 DEF EntityLog!Next
<1>9. CASE What(v.type) = "attests"
  <2>1. EntityLog!Attests(v.entity, v.run)
    BY <1>2, <1>7, <1>9 DEF EntityLog!Attests
  <2> QED
    BY <1>3, <2>1 DEF EntityLog!Next
<1> QED
  BY <1>5, <1>6, <1>8, <1>9

\* A call that ends tells the server something the log allows, or nothing.
LEMMA EndsIsAStep ==
    ASSUME IInv, Ends
    PROVE  EntityLog!Next \/ Log' = Log
<1>1. /\ TypeOK /\ AllAgree(stack) /\ Building /\ FirstCompletionDecides
      /\ wire \in Seq(Event) /\ lost \in Seq(Event) /\ stack \in Seq(Event) /\ thrown \in Seq(Event)
  BY DEF IInv, TypeOK
<1> DEFINE v == Innermost
<1>2. /\ v \in Event /\ stack[Len(stack)] = v /\ Len(stack) \in DOMAIN stack
      /\ \A h : Completions(h, stack) = Completions(h, stack') + (IF Closing(h, v) THEN 1 ELSE 0)
      /\ \A h : Completions(h, stack') \in Nat
  BY <1>1, Returning DEF Ends
<1>3. record(v)
  BY DEF Ends
<1> HIDE DEF v
<1>4. CASE wire' = wire
  BY <1>4 DEF Log
<1>5. CASE wire' = Append(wire, v)
  <2>1. Agrees(v)
    BY <1>1, <1>2 DEF AllAgree
  <2>2. What(v.type) = "opens" => \A i \in DOMAIN wire : wire[i].entity # v.entity
    BY <1>1, <1>2 DEF Building
  <2>3. ASSUME What(v.type) = "closes" PROVE Completions(v.entity, wire) = 0
    <3>1. v.entity \in Held("run") \cup Held("step")
      BY <2>1, <2>3 DEF Agrees, Completable
    <3>2. Closing(v.entity, v)
      BY <2>3 DEF Closing
    <3>3. /\ Completions(v.entity, wire) \in Nat /\ Completions(v.entity, lost) \in Nat
          /\ Completions(v.entity, stack') \in Nat /\ Completions(v.entity, thrown) \in Nat
          /\ Completions(v.entity, stack) = Completions(v.entity, stack') + 1
      BY <1>1, <1>2, <3>2, CompletionsAdd
    <3>4. Completions(v.entity, wire) + Completions(v.entity, lost) + Completions(v.entity, stack)
            + Completions(v.entity, thrown) = IF handles[v.entity].completed THEN 1 ELSE 0
      BY <1>1, <3>1 DEF FirstCompletionDecides
    <3> QED
      BY <3>3, <3>4
  <2> QED
    BY <1>2, <1>5, <2>1, <2>2, <2>3, AcceptingIsAStep
<1> QED
  BY <1>3, <1>4, <1>5 DEF record

\* So does an attestation, which is recorded in one step.
LEMMA AttestationIsAStep ==
    ASSUME IInv, recordAttestation
    PROVE  EntityLog!Next \/ Log' = Log
<1>1. TypeOK /\ Issued
  BY DEF IInv
<1>2. PICK d \in Held("decision") \cup {Kept} : wire' = wire \/ wire' = Append(wire, Attested(d))
  BY DEF recordAttestation, record
<1>3. Attested(d) \in Event /\ OfADecision(Attested(d)) /\ Agrees(Attested(d))
  BY <1>1, AttestedAgrees
<1>4. wire' = Append(wire, Attested(d)) => EntityLog!Next
  BY <1>3, AcceptingIsAStep DEF OfADecision
<1> QED
  BY <1>2, <1>4 DEF Log

(***************************************************************************)
(* The handles implement the log of entities: each step of theirs accepts  *)
(* no event, or one that the abstract log allows next.  An entity is       *)
(* opened before anything else is said of it, closed once, and stays in    *)
(* its run.                                                                *)
(***************************************************************************)
THEOREM HandlesImplementTheLog == Spec => HandlesKeepTheLog
<1>1. Init => EntityLog!Init
  BY DEF Init, EntityLog!Init, Log
<1>2. IInv /\ [Next]_vars => [EntityLog!Next]_Log
  <2> SUFFICES ASSUME IInv, [Next]_vars
               PROVE  EntityLog!Next \/ Log' = Log
    OBVIOUS
  <2>1. CASE wire' = wire
    BY <2>1 DEF Log
  <2>2. CASE Ends
    BY <2>2, EndsIsAStep
  <2>3. CASE recordAttestation
    BY <2>3, AttestationIsAStep
  <2> QED
    BY <2>1, <2>2, <2>3 DEF Next, vars, createRun, createStep, recordToolCall, recordModelCall,
       recordError, recordDecision, recordOf, complete, Throws, shutdown
<1> QED
  BY <1>1, <1>2, Invariant, PTL DEF Spec, HandlesKeepTheLog, EntityLog!Spec

=============================================================================
