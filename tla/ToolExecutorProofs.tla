------------------------ MODULE ToolExecutorProofs ------------------------
(***************************************************************************)
(* Proofs about the two models of calls of tools: ToolSchedule, for any    *)
(* number of calls and slots, and ToolCache, for any number of callers,    *)
(* sizes of the store, times to live and retries.                          *)
(***************************************************************************)
EXTENDS ToolSchedule, ToolCache, FiniteSetTheorems, SequenceTheorems, TLAPS

Phases == {"pending", "running", "answered", "raised"}

TypeInv ==
    /\ deps \in [Calls -> SUBSET Indices]
    /\ pc \in {"choose", "batch", "done", "raised"}
    /\ executed \in SUBSET Calls
    /\ batch \in SUBSET Calls
    /\ phase \in [Calls -> Phases]

(* A round holds calls that are ready, and at the end none is, unless a      *)
(* reference of some call could not be replaced.                             *)
RoundInv ==
    /\ pc \in {"batch", "raised"} => \A i \in batch : Ready(i)
    /\ pc = "done" => \A i \in Calls : ~Ready(i)
    /\ pc = "raised" => Breaks

(* The answers and the references of each call.                              *)
DataInv ==
    /\ outcome \in [Calls -> Results \cup {None}]
    /\ results \in [Calls -> Results \cup {None}]
    /\ filled = [i \in Calls |-> filled[i]]

CallInv(i) ==
    /\ phase[i] # "raised"
    /\ phase[i] \in {"pending", "running"} => outcome[i] = None
    /\ i \in executed => phase[i] = "answered" /\ results[i] = outcome[i]
    /\ i \notin executed =>
         /\ phase[i] # "pending" => pc \in {"batch", "raised"} /\ i \in batch
         /\ filled[i] = [d \in Replaced(i) \cap executed |-> results[d]]

OrderInv == TypeInv /\ RoundInv /\ DataInv /\ \A i \in Calls : CallInv(i)

-----------------------------------------------------------------------------
(* Rounds *)

LEMMA InitRounds == Init => TypeInv /\ RoundInv
  BY DEF Init, TypeInv, RoundInv, Phases

LEMMA StepTypes == ASSUME TypeInv, [Next]_vars PROVE TypeInv'
<1>1. CASE Choose
  BY <1>1 DEF TypeInv, Choose
<1>2. CASE Collect
  <2>1. executed' \in SUBSET Calls
    BY <1>2 DEF TypeInv, Collect, Taken
  <2>2. phase' \in [Calls -> Phases]
    BY <1>2 DEF TypeInv, Collect, Phases
  <2> QED BY <1>2, <2>1, <2>2 DEF TypeInv, Collect
<1>3. CASE \E i \in Calls : Start(i)
  BY <1>3 DEF TypeInv, Start, Phases
<1>4. CASE \E i \in Calls : Finish(i)
  BY <1>4 DEF TypeInv, Finish, Phases
<1>5. CASE CollectRaises \/ Finished \/ UNCHANGED vars
  BY <1>5 DEF TypeInv, CollectRaises, Finished, vars
<1> QED BY <1>1, <1>2, <1>3, <1>4, <1>5 DEF Next

LEMMA StepRounds == ASSUME TypeInv, RoundInv, [Next]_vars PROVE RoundInv'
<1>1. CASE Choose
  BY <1>1 DEF RoundInv, Choose, Ready
<1>2. CASE Collect
  BY <1>2 DEF RoundInv, Collect
<1>3. CASE \E i \in Calls : Start(i) \/ Finish(i)
  BY <1>3 DEF RoundInv, Start, Finish, Ready
<1>4. CASE CollectRaises
  <2>1. UNCHANGED <<deps, executed, batch, phase, outcome>> /\ pc = "batch" /\ pc' = "raised" /\ Breaks
    BY <1>4 DEF CollectRaises, RoundEnds
  <2>2. Breaks' = Breaks
    BY <2>1 DEF Breaks, Taken, ResultOf, Paired, Replaced, Rank
  <2> QED BY <2>1, <2>2 DEF RoundInv, Ready
<1>5. CASE Finished \/ UNCHANGED vars
  <2>1. UNCHANGED vars
    BY <1>5 DEF Finished
  <2>2. Breaks' = Breaks
    BY <2>1 DEF vars, Breaks, Taken, ResultOf, Paired, Replaced
  <2> QED BY <2>1, <2>2 DEF RoundInv, vars, Ready
<1> QED BY <1>1, <1>2, <1>3, <1>4, <1>5 DEF Next

\* What has run is in every closed set.
OnlyRunnable == executed \subseteq Runnable

LEMMA StepOnlyRunnable ==
  ASSUME TypeInv, RoundInv, OnlyRunnable, [Next]_vars PROVE OnlyRunnable'
<1>1. deps' = deps
  BY DEF Next, Choose, Start, Finish, Collect, CollectRaises, Finished, vars
<1>2. executed' \subseteq executed \cup {i \in batch : Ready(i)}
  BY DEF Next, Choose, Start, Finish, Collect, CollectRaises, Finished, vars, RoundInv,
         RoundEnds, Taken
<1>3. \A i \in batch : Ready(i) => i \in Runnable
  BY DEF TypeInv, Ready, OnlyRunnable, Runnable, Closed
<1>4. Runnable' = Runnable
  BY <1>1 DEF Runnable, Closed
<1> QED BY <1>2, <1>3, <1>4 DEF OnlyRunnable

\* At the end everything that can run has run, and nothing else.
LEMMA AtTheEnd ==
  ASSUME TypeInv, RoundInv, OnlyRunnable, pc = "done" PROVE executed = Runnable
<1>1. Closed(executed)
  BY DEF RoundInv, Ready, Closed
<1>2. Runnable \subseteq executed
  BY <1>1 DEF TypeInv, Runnable
<1> QED BY <1>2 DEF OnlyRunnable

\* Whatever the references and whichever calls have no name: when the rounds
\* end, just the calls that can run have run, a break on a circular reference
\* leaves none out, and when they raise instead, some call that has not run
\* refers to a result of the round whose JSON does not go between quotation
\* marks (execute_tools_with_dependencies, _substitute_tool_result).
THEOREM EndsComplete == Spec => []EndsRight
<1>1. Init => TypeInv /\ RoundInv /\ OnlyRunnable
  BY InitRounds DEF Init, OnlyRunnable
<1>2. TypeInv /\ RoundInv /\ OnlyRunnable /\ [Next]_vars => (TypeInv /\ RoundInv /\ OnlyRunnable)'
  BY StepTypes, StepRounds, StepOnlyRunnable
<1>3. TypeInv /\ RoundInv /\ OnlyRunnable => EndsRight
  BY AtTheEnd DEF EndsRight, RoundInv
<1> QED BY <1>1, <1>2, <1>3, PTL DEF Spec

-----------------------------------------------------------------------------
(* Results, when every call has a name *)

\* Ranks tell the calls of a round apart.
LEMMA RankBelow ==
  ASSUME NEW S \in SUBSET Calls, NEW i \in S, NEW k \in S, i < k
  PROVE  Rank(i, S) < Rank(k, S)
<1> DEFINE Before(x) == {j \in S : j < x}
<1>1. IsFiniteSet(Calls)
  BY FS_Interval, ScheduleAssumption DEF Calls
<1>2. IsFiniteSet(S)
  BY <1>1, FS_Subset
<1>3. Before(k) \in SUBSET S /\ Before(i) \in SUBSET Before(k)
  <2>1. \A j \in S : j < i => j < k
    BY ScheduleAssumption DEF Calls
  <2> QED BY <2>1
<1>4. IsFiniteSet(Before(k)) /\ IsFiniteSet(Before(i))
  BY <1>2, <1>3, FS_Subset
<1>5. i \in Before(k) /\ i \notin Before(i)
  BY ScheduleAssumption DEF Calls
<1>6. /\ Cardinality(Before(i)) <= Cardinality(Before(k))
      /\ Cardinality(Before(i)) # Cardinality(Before(k))
  BY <1>3, <1>4, <1>5, FS_Subset
<1>7. Cardinality(Before(i)) \in Nat /\ Cardinality(Before(k)) \in Nat
  BY <1>4, FS_CardinalityType
<1> HIDE DEF Before
<1>8. Cardinality(Before(i)) < Cardinality(Before(k))
  BY <1>6, <1>7
<1> QED BY <1>8 DEF Rank, Before

LEMMA RankInjective ==
  ASSUME NEW S \in SUBSET Calls, NEW i \in S, NEW k \in S, Rank(i, S) = Rank(k, S)
  PROVE  i = k
<1>1. i < k \/ k < i \/ i = k
  BY ScheduleAssumption DEF Calls
<1>2. \A x, y \in S : x < y => Rank(x, S) # Rank(y, S)
  <2> SUFFICES ASSUME NEW x \in S, NEW y \in S, x < y PROVE Rank(x, S) # Rank(y, S)
    OBVIOUS
  <2>1. IsFiniteSet({j \in S : j < x}) /\ IsFiniteSet({j \in S : j < y})
    <3>1. IsFiniteSet(Calls)
      BY FS_Interval, ScheduleAssumption DEF Calls
    <3>2. {j \in S : j < x} \in SUBSET Calls /\ {j \in S : j < y} \in SUBSET Calls
      OBVIOUS
    <3> QED BY <3>1, <3>2, FS_Subset
  <2>2. Rank(x, S) \in Nat /\ Rank(y, S) \in Nat
    BY <2>1, FS_CardinalityType DEF Rank
  <2> QED BY <2>2, RankBelow
<1> QED BY <1>1, <1>2

\* The result that lands in a call's place is its own.
LEMMA PairedIsOwn ==
  ASSUME batch \in SUBSET Calls, \A j \in batch : phase[j] = "answered", NEW i \in batch
  PROVE  Paired(i) = {outcome[i]}
<1>1. {j \in batch : phase[j] = "answered"} = batch
  OBVIOUS
<1>2. {k \in batch : Rank(k, batch) = Rank(i, batch)} = {i}
  BY RankInjective
<1> QED BY <1>1, <1>2 DEF Paired

\* A round of named calls puts every answer in its place.
LEMMA Collected ==
  ASSUME OrderInv, Collect
  PROVE  /\ executed' = executed \cup batch
         /\ \A i \in batch : phase[i] = "answered"
         /\ results' = [i \in Calls |-> IF i \in batch THEN outcome[i] ELSE results[i]]
         /\ filled' = [j \in Calls |->
              IF j \in executed' THEN filled[j]
              ELSE [d \in DOMAIN filled[j] \cup (Replaced(j) \cap batch) |->
                      IF d \in batch /\ d \notin DOMAIN filled[j] THEN outcome[d] ELSE filled[j][d]]]
         /\ phase' = [i \in Calls |-> IF i \in executed' THEN phase[i] ELSE "pending"]
         /\ pc' = "choose" /\ UNCHANGED <<deps, batch, outcome>>
<1>1. batch \in SUBSET Calls /\ \A i \in batch : phase[i] = "answered"
  BY DEF OrderInv, TypeInv, CallInv, Collect, RoundEnds
<1>2. \A i \in batch : Paired(i) = {outcome[i]}
  BY <1>1, PairedIsOwn
<1>3. \A i \in batch : ResultOf(i) = outcome[i]
  BY <1>2 DEF ResultOf
<1>4. Taken = batch
  BY <1>2 DEF Taken
<1>5. /\ executed' = executed \cup Taken
      /\ results' = [i \in Calls |-> IF i \in Taken THEN ResultOf(i) ELSE results[i]]
      /\ filled' = [j \in Calls |->
           IF j \in executed' THEN filled[j]
           ELSE [d \in DOMAIN filled[j] \cup (Replaced(j) \cap Taken) |->
                   IF d \in Taken /\ d \notin DOMAIN filled[j] THEN ResultOf(d) ELSE filled[j][d]]]
  BY Zenon DEF Collect
<1>6. /\ phase' = [i \in Calls |-> IF i \in executed' THEN phase[i] ELSE "pending"]
      /\ pc' = "choose" /\ UNCHANGED <<deps, batch, outcome>>
  BY Zenon DEF Collect
<1> QED BY <1>1, <1>3, <1>4, <1>5, <1>6

LEMMA InitOrder == ASSUME Init PROVE OrderInv
<1>1. filled = [i \in Calls |-> filled[i]]
  BY DEF Init
<1>2. outcome \in [Calls -> Results \cup {None}] /\ results \in [Calls -> Results \cup {None}]
  BY DEF Init
<1>3. ASSUME NEW i \in Calls PROVE CallInv(i)
  <2>1. filled[i] = [d \in Replaced(i) \cap executed |-> results[d]]
    BY DEF Init
  <2> QED BY <2>1 DEF Init, CallInv
<1> QED BY <1>1, <1>2, <1>3, InitRounds DEF OrderInv, DataInv

LEMMA CollectKeepsData == ASSUME OrderInv, Collect PROVE DataInv' /\ \A i \in Calls : CallInv(i)'
<1> USE Collected
<1>1. outcome' \in [Calls -> Results \cup {None}]
  BY DEF OrderInv, DataInv
<1>2. results' \in [Calls -> Results \cup {None}]
  <2>1. \A i \in Calls : (IF i \in batch THEN outcome[i] ELSE results[i]) \in Results \cup {None}
    BY DEF OrderInv, DataInv
  <2> QED BY <2>1
<1>3. filled' = [i \in Calls |-> filled'[i]]
  OBVIOUS
<1>4. ASSUME NEW i \in Calls PROVE CallInv(i)'
  <2>1. CallInv(i) /\ batch \in SUBSET Calls /\ Replaced(i)' = Replaced(i)
    BY DEF OrderInv, TypeInv, Replaced
  <2>2. CASE i \in executed'
    BY <2>1, <2>2 DEF CallInv
  <2>3. CASE i \notin executed'
    <3>1. filled[i] = [d \in Replaced(i) \cap executed |-> results[d]]
      BY <2>1, <2>3 DEF CallInv
    <3>2. \A d \in batch : d \notin executed
      BY DEF OrderInv, RoundInv, Collect, RoundEnds, Ready
    <3>3. filled'[i] = [d \in Replaced(i) \cap executed' |-> results'[d]]
      <4>1. filled'[i] = [d \in (Replaced(i) \cap executed) \cup (Replaced(i) \cap batch) |->
                             IF d \in batch /\ d \notin Replaced(i) \cap executed
                               THEN outcome[d] ELSE results[d]]
        <5>1. filled'[i] = [d \in DOMAIN filled[i] \cup (Replaced(i) \cap batch) |->
                 IF d \in batch /\ d \notin DOMAIN filled[i] THEN outcome[d] ELSE filled[i][d]]
          BY <2>3
        <5>2. DOMAIN filled[i] = Replaced(i) \cap executed
          BY <3>1
        <5>3. \A d \in DOMAIN filled[i] : filled[i][d] = results[d]
          BY <3>1
        <5>4. \A d \in (Replaced(i) \cap executed) \cup (Replaced(i) \cap batch) :
                (IF d \in batch /\ d \notin DOMAIN filled[i] THEN outcome[d] ELSE filled[i][d])
                  = IF d \in batch /\ d \notin Replaced(i) \cap executed THEN outcome[d] ELSE results[d]
          BY <5>2, <5>3
        <5> QED BY <5>1, <5>2, <5>4
      <4>2. (Replaced(i) \cap executed) \cup (Replaced(i) \cap batch) = Replaced(i) \cap executed'
        OBVIOUS
      <4>3. \A d \in Replaced(i) \cap executed' :
              (IF d \in batch /\ d \notin Replaced(i) \cap executed THEN outcome[d] ELSE results[d])
                = results'[d]
        BY <2>1, <3>2 DEF OrderInv, TypeInv
      <4> QED BY <4>1, <4>2, <4>3
    <3>4. phase'[i] = "pending" /\ outcome'[i] = None
      <4>1. phase[i] = "pending"
        BY <2>1, <2>3 DEF CallInv, OrderInv, TypeInv, Phases
      <4> QED BY <2>1, <2>3, <4>1 DEF CallInv
    <3> QED BY <2>1, <2>3, <3>3, <3>4 DEF CallInv
  <2> QED BY <2>2, <2>3
<1> QED BY <1>1, <1>2, <1>3, <1>4 DEF DataInv

LEMMA StepKeepsOrder == ASSUME Nameless = {}, OrderInv, [Next]_vars PROVE OrderInv'
<1>1. TypeInv' /\ RoundInv'
  BY StepTypes, StepRounds DEF OrderInv
<1>2. CASE Collect
  BY <1>1, <1>2, CollectKeepsData DEF OrderInv
<1>3. CASE Choose
  BY <1>1, <1>3 DEF OrderInv, TypeInv, DataInv, CallInv, Choose, Replaced
<1>4. ASSUME NEW i \in Calls, Start(i) PROVE DataInv' /\ \A j \in Calls : CallInv(j)'
  <2>1. /\ phase' = [phase EXCEPT ![i] = "running"]
        /\ UNCHANGED <<deps, pc, executed, batch, outcome, results, filled>>
        /\ pc = "batch" /\ i \in batch /\ phase[i] = "pending"
    BY <1>4 DEF Start
  <2>2. DataInv'
    BY <2>1 DEF OrderInv, DataInv
  <2>3. i \notin executed
    BY <2>1 DEF OrderInv, CallInv
  <2>4. ASSUME NEW j \in Calls PROVE CallInv(j)'
    BY <2>1, <2>3 DEF OrderInv, TypeInv, CallInv, Replaced
  <2> QED BY <2>2, <2>4
<1>5. ASSUME NEW i \in Calls, Finish(i) PROVE DataInv' /\ \A j \in Calls : CallInv(j)'
  <2>1. PICK quoted \in BOOLEAN : outcome' = [outcome EXCEPT ![i] = [of |-> i, quoted |-> quoted]]
    BY <1>5 DEF Finish
  <2>2. [of |-> i, quoted |-> quoted] \in Results
    BY DEF Results
  <2> HIDE DEF Results
  <2>3. i \notin executed
    BY <1>5 DEF OrderInv, CallInv, Finish
  <2>4. UNCHANGED <<deps, pc, executed, batch, results, filled>>
        /\ phase' = [phase EXCEPT ![i] = "answered"] /\ phase[i] = "running"
    BY <1>5 DEF Finish
  <2>5. DataInv'
    BY <2>1, <2>2, <2>4 DEF OrderInv, DataInv
  <2>6. ASSUME NEW j \in Calls PROVE CallInv(j)'
    <3>1. j # i => phase'[j] = phase[j] /\ outcome'[j] = outcome[j]
      BY <2>1, <2>4 DEF OrderInv, TypeInv, DataInv
    <3>2. phase'[i] = "answered"
      BY <2>4 DEF OrderInv, TypeInv
    <3>3. Replaced(j)' = Replaced(j)
      BY <2>4 DEF Replaced
    <3>4. CASE j = i
      BY <2>3, <2>4, <3>2, <3>3, <3>4 DEF OrderInv, CallInv
    <3>5. CASE j # i
      BY <2>4, <3>1, <3>3, <3>5 DEF OrderInv, CallInv
    <3> QED BY <3>4, <3>5
  <2> QED BY <2>5, <2>6
<1>6. CASE CollectRaises \/ Finished \/ UNCHANGED vars
  <2>1. UNCHANGED <<deps, executed, batch, phase, outcome, results, filled>>
        /\ (pc' = pc \/ (pc' = "raised" /\ pc = "batch"))
    BY <1>6 DEF CollectRaises, RoundEnds, Finished, vars
  <2>2. DataInv'
    BY <2>1 DEF OrderInv, DataInv
  <2>3. ASSUME NEW j \in Calls PROVE CallInv(j)'
    BY <2>1 DEF OrderInv, CallInv, Replaced
  <2> QED BY <1>1, <2>2, <2>3 DEF OrderInv
<1> QED BY <1>1, <1>2, <1>3, <1>4, <1>5, <1>6 DEF Next, OrderInv

-----------------------------------------------------------------------------
(* The refinement *)

LEMMA InitRefines == ASSUME Init PROVE Order!OrderInit
  BY DEF Init, Order!OrderInit, Status, Begun, Order!Unanswered, Order!NotStarted, None

LEMMA StartRefines ==
  ASSUME Nameless = {}, OrderInv, NEW i \in Calls, Start(i) PROVE Order!Begin(i)
<1>1. i \notin executed /\ deps[i] \subseteq executed /\ executed \subseteq Calls
  BY DEF OrderInv, RoundInv, TypeInv, Ready, Start
<1>2. phase' = [phase EXCEPT ![i] = "running"] /\ phase \in [Calls -> Phases]
  BY DEF Start, OrderInv, TypeInv
<1>3. filled[i] = [d \in Replaced(i) |-> IF d \in executed THEN results[d] ELSE outcome[d]]
  <2>1. filled[i] = [d \in Replaced(i) \cap executed |-> results[d]]
    BY <1>1 DEF OrderInv, CallInv
  <2>2. Replaced(i) \cap executed = Replaced(i)
    BY <1>1 DEF Replaced
  <2> QED BY <1>1, <2>1, <2>2
<1>4. phase[i] = "pending" /\ UNCHANGED <<deps, executed, outcome, results, filled>>
  BY DEF Start
<1> DEFINE st == [j \in Calls |-> Status(j)]
           an == [j \in Calls |-> IF j \in executed THEN results[j] ELSE outcome[j]]
           gi == [j \in Calls |-> IF Begun(j) THEN filled[j] ELSE None]
<1>5. st[i] = "pending" /\ \A d \in deps[i] : d \in Calls /\ st[d] = "answered"
  BY <1>1, <1>4 DEF Status
<1>6. st' = [st EXCEPT ![i] = "running"]
  BY <1>1, <1>2, <1>4 DEF Status
<1>7. gi' = [gi EXCEPT ![i] = [d \in Replaced(i) |-> an[d]]]
  <2>1. filled[i] = [d \in Replaced(i) |-> an[d]]
    BY <1>1, <1>3 DEF Replaced
  <2>2. \A j \in Calls : Begun(j)' <=> Begun(j) \/ j = i
    BY <1>2, <1>4 DEF Begun
  <2>3. gi' = [j \in Calls |-> IF Begun(j) \/ j = i THEN filled[j] ELSE None]
    BY <1>4, <2>2
  <2> HIDE DEF an
  <2> QED BY <2>1, <2>3
<1>8. UNCHANGED <<deps, an>>
  BY <1>4
<1> QED BY <1>5, <1>6, <1>7, <1>8 DEF Order!Begin, Replaced

LEMMA FinishRefines ==
  ASSUME OrderInv, NEW i \in Calls, Finish(i) PROVE \E a \in Results : Order!Answer(i, a)
<1>1. PICK quoted \in BOOLEAN : outcome' = [outcome EXCEPT ![i] = [of |-> i, quoted |-> quoted]]
  BY DEF Finish
<1> DEFINE a == [of |-> i, quoted |-> quoted]
<1>2. a \in Results
  BY DEF Results
<1> HIDE DEF a
<1>3. phase' = [phase EXCEPT ![i] = "answered"] /\ phase \in [Calls -> Phases]
  BY DEF Finish, OrderInv, TypeInv
<1>4. i \notin executed /\ phase[i] = "running" /\ outcome \in [Calls -> Results \cup {None}]
  BY DEF Finish, OrderInv, CallInv, DataInv
<1>5. UNCHANGED <<deps, executed, results, filled>> /\ outcome' = [outcome EXCEPT ![i] = a]
  BY <1>1 DEF Finish, a
<1> DEFINE st == [j \in Calls |-> Status(j)]
           an == [j \in Calls |-> IF j \in executed THEN results[j] ELSE outcome[j]]
           gi == [j \in Calls |-> IF Begun(j) THEN filled[j] ELSE None]
<1>6. st[i] = "running" /\ st' = [st EXCEPT ![i] = "answered"]
  BY <1>3, <1>4, <1>5 DEF Status
<1>7. an' = [an EXCEPT ![i] = a]
  BY <1>4, <1>5
<1>8. \A j \in Calls : Begun(j)' <=> Begun(j)
  BY <1>3, <1>4, <1>5 DEF Begun
<1>9. gi' = gi
  BY <1>5, <1>8
<1> QED BY <1>2, <1>5, <1>6, <1>7, <1>9 DEF Order!Answer

\* The mapped variables.
MappedStatus == [j \in Calls |-> Status(j)]
MappedAnswer == [j \in Calls |-> IF j \in executed THEN results[j] ELSE outcome[j]]
MappedGiven == [j \in Calls |-> IF Begun(j) THEN filled[j] ELSE None]

LEMMA CollectStutters == ASSUME OrderInv, Collect PROVE UNCHANGED Order!vars
<1> USE Collected
<1>1. batch \in SUBSET Calls /\ executed \in SUBSET Calls /\ phase \in [Calls -> Phases]
  BY DEF OrderInv, TypeInv
<1>2. \A j \in Calls : j \notin executed' => phase[j] = "pending"
  BY DEF OrderInv, CallInv
<1>3. \A j \in Calls : Status(j)' = Status(j)
  BY <1>1, <1>2 DEF Status
<1>4. \A j \in batch : j \notin executed
  BY DEF OrderInv, RoundInv, Collect, RoundEnds, Ready
<1>5. MappedAnswer' = MappedAnswer
  BY <1>1, <1>4 DEF MappedAnswer
<1>6. \A j \in Calls : Begun(j)' <=> j \in executed'
  BY <1>1, <1>2 DEF Begun
<1>7. \A j \in Calls : Begun(j) <=> j \in executed'
  BY <1>1, <1>2 DEF Begun
<1>8. \A j \in Calls : j \in executed' => filled'[j] = filled[j]
  OBVIOUS
<1>9. MappedGiven' = MappedGiven
  BY <1>6, <1>7, <1>8 DEF MappedGiven
<1>10. MappedStatus' = MappedStatus
  BY <1>3 DEF MappedStatus
<1> QED BY <1>5, <1>9, <1>10 DEF MappedStatus, MappedAnswer, MappedGiven, Order!vars

LEMMA StepRefines ==
  ASSUME Nameless = {}, OrderInv, [Next]_vars
  PROVE  [Order!OrderNext]_(Order!vars)
<1>1. CASE Collect
  BY <1>1, CollectStutters
<1>2. CASE \E i \in Calls : Start(i) \/ Finish(i)
  BY <1>2, StartRefines, FinishRefines DEF Order!OrderNext
<1>3. CASE Choose \/ CollectRaises \/ Finished \/ UNCHANGED vars
  BY <1>3 DEF Choose, CollectRaises, Finished, vars, Order!vars, Status, Begun
<1> QED BY <1>1, <1>2, <1>3 DEF Next

\* When every call has a name, the rounds implement CallOrder: a call runs
\* once, after the calls it refers to and with the answers of those whose
\* references are replaced, an answer stays what it was, and nothing starts
\* after a substitution has raised (execute_tools_with_dependencies).
THEOREM RoundsKeepOrder == ASSUME Nameless = {} PROVE Spec => ImplementsOrder
<1>1. Init => OrderInv /\ Order!OrderInit
  BY InitOrder, InitRefines
<1>2. OrderInv /\ [Next]_vars => OrderInv'
  BY StepKeepsOrder
<1>3. OrderInv /\ [Next]_vars => [Order!OrderNext]_(Order!vars)
  BY StepRefines
<1> QED BY <1>1, <1>2, <1>3, PTL DEF Spec, ImplementsOrder, Order!OrderSpec

-----------------------------------------------------------------------------
(* The cache of the executor: stores *)

Entries == [key : Keys, value : Values]

\* No key has two entries.
Proper(s) ==
    /\ s \in Seq(Entries)
    /\ \A i, j \in DOMAIN s : s[i].key = s[j].key => i = j

LEMMA RemovedIsProper ==
  ASSUME NEW s, Proper(s), NEW k \in DOMAIN s
  PROVE  LET r == RemoveAt(s, k)
         IN  /\ Proper(r) /\ Len(r) = Len(s) - 1
             /\ \A i \in DOMAIN r : \E j \in DOMAIN s : j # k /\ r[i] = s[j]
<1> DEFINE a == SubSeq(s, 1, k - 1)
           b == SubSeq(s, k + 1, Len(s))
           r == RemoveAt(s, k)
           m(i) == IF i < k THEN i ELSE i + 1
<1>1. s \in Seq(Entries) /\ Len(s) \in Nat /\ DOMAIN s = 1..Len(s) /\ k \in 1..Len(s)
      /\ \A i \in 1..Len(s) : s[i] \in Entries
  BY DEF Proper
<1>2. a \in Seq(Entries) /\ Len(a) = k - 1 /\ \A i \in 1..(k - 1) : a[i] = s[i]
  <2>1. \A i \in 1..(k - 1) : s[i] \in Entries
    BY <1>1
  <2>2. 1 \in Int /\ k - 1 \in Int
    BY <1>1
  <2>3. /\ a \in Seq(Entries) /\ Len(a) = IF 1 <= k - 1 THEN k - 1 - 1 + 1 ELSE 0
        /\ \A i \in 1..(k - 1 - 1 + 1) : a[i] = s[1 + i - 1]
    BY <2>1, <2>2, SubSeqProperties
  <2> HIDE DEF a
  <2> QED BY <1>1, <2>3
<1>3. b \in Seq(Entries) /\ Len(b) = Len(s) - k /\ \A i \in 1..(Len(s) - k) : b[i] = s[k + i]
  <2>1. \A i \in (k + 1)..Len(s) : s[i] \in Entries
    BY <1>1
  <2>2. k + 1 \in Int /\ Len(s) \in Int
    BY <1>1
  <2>3. /\ b \in Seq(Entries) /\ Len(b) = IF k + 1 <= Len(s) THEN Len(s) - (k + 1) + 1 ELSE 0
        /\ \A i \in 1..(Len(s) - (k + 1) + 1) : b[i] = s[k + 1 + i - 1]
    BY <2>1, <2>2, SubSeqProperties
  <2> HIDE DEF b
  <2>4. Len(b) = Len(s) - k
    BY <1>1, <2>3
  <2>5. ASSUME NEW i \in 1..(Len(s) - k) PROVE b[i] = s[k + i]
    <3>1. i \in 1..(Len(s) - (k + 1) + 1) /\ k + 1 + i - 1 = k + i
      BY <1>1
    <3> QED BY <2>3, <3>1
  <2> QED BY <2>3, <2>4, <2>5
<1>4. r = a \o b
  BY DEF RemoveAt
<1> HIDE DEF a, b, r, m
<1>5. /\ r \in Seq(Entries) /\ Len(r) = Len(a) + Len(b)
      /\ \A i \in 1..(Len(a) + Len(b)) : r[i] = IF i <= Len(a) THEN a[i] ELSE b[i - Len(a)]
  BY <1>2, <1>3, <1>4, ConcatProperties
<1>6. DOMAIN r = 1..(Len(s) - 1) /\ Len(r) = Len(s) - 1
  BY <1>1, <1>2, <1>3, <1>5
<1>7. ASSUME NEW i \in 1..(Len(s) - 1)
      PROVE  m(i) \in 1..Len(s) /\ m(i) # k /\ r[i] = s[m(i)]
  <2>1. CASE i < k
    BY <1>1, <1>2, <1>3, <1>5, <2>1 DEF m
  <2>2. CASE ~(i < k)
    <3>1. r[i] = b[i - (k - 1)] /\ i - (k - 1) \in 1..(Len(s) - k)
      BY <1>1, <1>2, <1>3, <1>5, <2>2
    <3>2. r[i] = s[k + (i - (k - 1))]
      BY <1>3, <3>1
    <3> QED BY <1>1, <2>2, <3>2 DEF m
  <2> QED BY <2>1, <2>2
<1>8. \A i, j \in 1..(Len(s) - 1) : m(i) = m(j) => i = j
  BY <1>1 DEF m
<1>9. Proper(r)
  <2>1. ASSUME NEW i \in DOMAIN r, NEW j \in DOMAIN r, r[i].key = r[j].key PROVE i = j
    <3>1. m(i) \in DOMAIN s /\ m(j) \in DOMAIN s /\ s[m(i)].key = s[m(j)].key
      BY <1>1, <1>6, <1>7, <2>1
    <3>2. m(i) = m(j)
      BY <3>1 DEF Proper
    <3> QED BY <1>6, <1>8, <3>2
  <2> QED BY <1>5, <2>1 DEF Proper
<1>10. \A i \in DOMAIN r : \E j \in DOMAIN s : j # k /\ r[i] = s[j]
  BY <1>1, <1>6, <1>7
<1> QED BY <1>6, <1>9, <1>10 DEF r

LEMMA TailIsProper ==
  ASSUME NEW s, Proper(s), s # <<>>
  PROVE  /\ Proper(Tail(s)) /\ Len(Tail(s)) = Len(s) - 1
         /\ \A i \in DOMAIN Tail(s) : \E j \in DOMAIN s : Tail(s)[i] = s[j]
<1>1. /\ s \in Seq(Entries) /\ Len(s) \in Nat /\ DOMAIN s = 1..Len(s)
  BY DEF Proper
<1>2. /\ Tail(s) \in Seq(Entries) /\ Len(Tail(s)) = Len(s) - 1
      /\ \A i \in 1..Len(Tail(s)) : Tail(s)[i] = s[i + 1]
  BY <1>1
<1>3. DOMAIN Tail(s) = 1..(Len(s) - 1)
  BY <1>1, <1>2
<1>4. \A i \in DOMAIN Tail(s) : i + 1 \in DOMAIN s /\ Tail(s)[i] = s[i + 1]
  BY <1>1, <1>2, <1>3
<1>5. \A i, j \in DOMAIN Tail(s) : Tail(s)[i].key = Tail(s)[j].key => i = j
  BY <1>3, <1>4 DEF Proper
<1> QED BY <1>2, <1>4, <1>5 DEF Proper

LEMMA AppendIsProper ==
  ASSUME NEW s, Proper(s), NEW e \in Entries, \A i \in DOMAIN s : s[i].key # e.key
  PROVE  /\ Proper(Append(s, e)) /\ Len(Append(s, e)) = Len(s) + 1
         /\ \A i \in DOMAIN Append(s, e) : Append(s, e)[i] = e \/ \E j \in DOMAIN s : Append(s, e)[i] = s[j]
<1> DEFINE a == Append(s, e)
<1>1. s \in Seq(Entries) /\ Len(s) \in Nat /\ DOMAIN s = 1..Len(s)
  BY DEF Proper
<1>2. /\ a \in Seq(Entries) /\ Len(a) = Len(s) + 1
      /\ \A i \in 1..Len(s) : a[i] = s[i]
      /\ a[Len(s) + 1] = e
  BY <1>1
<1> HIDE DEF a
<1>3. DOMAIN a = 1..(Len(s) + 1)
  BY <1>1, <1>2
<1>4. \A i \in DOMAIN a : (i \in DOMAIN s /\ a[i] = s[i]) \/ (i = Len(s) + 1 /\ a[i] = e)
  BY <1>1, <1>2, <1>3
<1>5. \A i, j \in DOMAIN a : a[i].key = a[j].key => i = j
  BY <1>4 DEF Proper
<1>6. Proper(a)
  BY <1>2, <1>5 DEF Proper
<1>7. \A i \in DOMAIN a : a[i] = e \/ \E j \in DOMAIN s : a[i] = s[j]
  BY <1>4
<1> QED BY <1>2, <1>6, <1>7 DEF a

\* The rest of a store, without the key.
LEMMA WithoutIs ==
  ASSUME Proper(store), NEW key
  PROVE  /\ Proper(Without(key)) /\ Len(Without(key)) <= Len(store)
         /\ Has(key) => Len(Without(key)) = Len(store) - 1
         /\ \A i \in DOMAIN Without(key) : \E j \in DOMAIN store :
              Without(key)[i] = store[j] /\ store[j].key # key
<1>1. Len(store) \in Nat
  BY DEF Proper
<1>2. CASE Has(key)
  <2>1. Place(key) \in DOMAIN store /\ store[Place(key)].key = key
    BY <1>2 DEF Has, Place
  <2> DEFINE k == Place(key)
             r == RemoveAt(store, k)
  <2>2. /\ Proper(r) /\ Len(r) = Len(store) - 1
        /\ \A i \in DOMAIN r : \E j \in DOMAIN store : j # k /\ r[i] = store[j]
    BY <2>1, RemovedIsProper
  <2>3. Without(key) = r
    BY <1>2 DEF Without
  <2> HIDE DEF r, k
  <2>4. k \in DOMAIN store /\ store[k].key = key
    BY <2>1 DEF k
  <2>5. \A i \in DOMAIN r : \E j \in DOMAIN store : r[i] = store[j] /\ store[j].key # key
    BY <2>2, <2>4 DEF Proper
  <2> QED BY <1>1, <2>2, <2>3, <2>5
<1>3. CASE ~Has(key)
  BY <1>1, <1>3 DEF Without, Has
<1> QED BY <1>2, <1>3

-----------------------------------------------------------------------------
(* The inductive invariant of the cache *)

\* An entry of the decorator's is no failure, was searched under the routing of
\* its key or a later one, and its deadline is its own.
Sound(e) ==
    e.key \in Configs =>
        /\ e.value.ok /\ (e.key = "new" => e.value.from = "new")
        /\ e.key \in DOMAIN deadline /\ deadline[e.key] = e.value.at + e.value.ttl

StoreInv == Proper(store) /\ Len(store) <= Size /\ \A i \in DOMAIN store : Sound(store[i])

DeadlineInv == DOMAIN deadline \subseteq Keys /\ \A k \in DOMAIN deadline : deadline[k] \in Nat

Steps == {"idle", "outer", "key", "inner", "search", "store", "fill"}
CallTypes == [pc : Steps, via : {"direct", "run", "run_async"}, fp : Configs, value : Values,
              tries : 0..Retries, waited : BOOLEAN]

\* The fingerprint of a call is of a routing that was configured, and what it
\* has found is fit for the key that it has.
CallOK(c) ==
    /\ c \in CallTypes
    /\ c.fp = "new" => config = "new"
    /\ c.pc = "store" => c.value.ok /\ (c.fp = "new" => c.value.from = "new")

CallsInv == call = [t \in Threads |-> call[t]] /\ \A t \in Threads : CallOK(call[t])

FlawsInv ==
    /\ flaws \in [{"executor", "decorator"} -> SUBSET {"stale", "failure", "outdated"}]
    /\ flaws["decorator"] = {}

CacheInv ==
    /\ now \in 0..MaxTime /\ config \in Configs
    /\ StoreInv /\ DeadlineInv /\ CallsInv /\ FlawsInv

-----------------------------------------------------------------------------
(* Its operations *)

LEMMA ValueIs ==
  ASSUME NEW v \in Values
  PROVE  v.ttl \in Nat
<1>1. v.ttl \in Ttls \/ v.ttl = 0
  BY Zenon DEF Values
<1>2. \A n \in Ttls : n \in Nat
  BY CacheAssumption
<1>3. \A n : n \in Ttls \/ n = 0 => n \in Nat
  BY <1>2
<1> QED BY <1>1, <1>3, Zenon

LEMMA EntryIs ==
  ASSUME StoreInv, NEW key, Has(key)
  PROVE  /\ Entry(key) \in Entries /\ Entry(key).key = key /\ Sound(Entry(key))
         /\ Entry(key).value \in Values
<1>1. Place(key) \in DOMAIN store /\ store[Place(key)].key = key
  BY DEF Has, Place
<1>2. store[Place(key)] \in Entries
  BY <1>1 DEF StoreInv, Proper
<1>3. Entry(key) \in Entries /\ Entry(key).key = key /\ Sound(Entry(key))
  BY <1>1, <1>2 DEF StoreInv, Entry
<1> QED BY <1>3 DEF Entries

LEMMA HitKeeps ==
  ASSUME StoreInv, DeadlineInv, NEW key, Hit(key)
  PROVE  StoreInv' /\ DeadlineInv' /\ Entry(key).value \in Values
<1>1. Has(key) /\ store' = Append(Without(key), Entry(key)) /\ deadline' = deadline
  BY DEF Hit, Found
<1>2. /\ Entry(key) \in Entries /\ Entry(key).key = key /\ Sound(Entry(key))
      /\ Entry(key).value \in Values
  BY <1>1, EntryIs
<1>3. /\ Proper(Without(key)) /\ Len(Without(key)) = Len(store) - 1
      /\ \A i \in DOMAIN Without(key) : \E j \in DOMAIN store :
           Without(key)[i] = store[j] /\ store[j].key # key
  BY <1>1, WithoutIs DEF StoreInv
<1>4. \A i \in DOMAIN Without(key) : Without(key)[i].key # Entry(key).key
  BY <1>2, <1>3
<1>5. /\ Proper(store') /\ Len(store') = Len(Without(key)) + 1
      /\ \A i \in DOMAIN store' : store'[i] = Entry(key) \/ \E j \in DOMAIN Without(key) : store'[i] = Without(key)[j]
  BY <1>1, <1>2, <1>3, <1>4, AppendIsProper
<1>6. \A i \in DOMAIN store' : store'[i] = Entry(key) \/ \E j \in DOMAIN store : store'[i] = store[j]
  BY <1>3, <1>5
<1>7. \A i \in DOMAIN store' : Sound(store'[i])
  BY <1>2, <1>6 DEF StoreInv
<1>8. Len(store') <= Size
  BY <1>3, <1>5, CacheAssumption DEF StoreInv, Proper
<1>9. \A i \in DOMAIN store' : Sound(store[i])'
  BY <1>1, <1>7 DEF Sound
<1> QED BY <1>1, <1>2, <1>5, <1>8, <1>9 DEF StoreInv, DeadlineInv, Proper

LEMMA MissKeeps ==
  ASSUME StoreInv, DeadlineInv, NEW key, Miss(key)
  PROVE  StoreInv' /\ DeadlineInv'
<1>1. /\ store' = Without(key)
      /\ deadline' = IF Has(key) THEN [k \in DOMAIN deadline \ {key} |-> deadline[k]] ELSE deadline
  BY DEF Miss
<1>2. /\ Proper(store') /\ Len(store') <= Len(store)
      /\ \A i \in DOMAIN store' : \E j \in DOMAIN store : store'[i] = store[j] /\ store[j].key # key
  BY <1>1, WithoutIs DEF StoreInv
<1>3. /\ DOMAIN deadline' \subseteq DOMAIN deadline
      /\ \A k \in DOMAIN deadline : k # key => k \in DOMAIN deadline' /\ deadline'[k] = deadline[k]
      /\ \A k \in DOMAIN deadline' : deadline'[k] = deadline[k]
  BY <1>1
<1>4. ASSUME NEW i \in DOMAIN store' PROVE Sound(store[i])'
  <2>1. PICK e : e = store'[i]
    OBVIOUS
  <2>2. Sound(e) /\ e.key # key
    BY <1>2, <2>1 DEF StoreInv
  <2>3. e.key \in Configs =>
          /\ e.value.ok /\ (e.key = "new" => e.value.from = "new")
          /\ e.key \in DOMAIN deadline' /\ deadline'[e.key] = e.value.at + e.value.ttl
    BY <1>3, <2>2 DEF Sound
  <2> QED BY <2>1, <2>3 DEF Sound
<1>5. Len(store') <= Size
  BY <1>2, CacheAssumption DEF StoreInv, Proper
<1>6. DeadlineInv'
  BY <1>3 DEF DeadlineInv
<1> QED BY <1>2, <1>4, <1>5, <1>6 DEF StoreInv, Proper

LEMMA AddKeeps ==
  ASSUME now \in Nat, StoreInv, DeadlineInv, NEW key \in Keys, NEW value \in Values, NEW ttl \in Nat,
         Add(key, value, ttl),
         key \in Configs => /\ value.ok /\ (key = "new" => value.from = "new")
                            /\ now + ttl = value.at + value.ttl
  PROVE  StoreInv' /\ DeadlineInv'
<1> DEFINE w == Without(key)
           rest == IF Len(w) = Size THEN Tail(w) ELSE w
           e == [key |-> key, value |-> value]
<1>1. /\ store' = Append(rest, e)
      /\ deadline' = [k \in DOMAIN deadline \cup {key} |-> IF k = key THEN now + ttl ELSE deadline[k]]
  BY DEF Add
<1>2. e \in Entries /\ e.key = key /\ e.value = value
  BY DEF Entries
<1>3. /\ Proper(w) /\ Len(w) <= Len(store)
      /\ \A i \in DOMAIN w : \E j \in DOMAIN store : w[i] = store[j] /\ store[j].key # key
  BY WithoutIs DEF StoreInv
<1> HIDE DEF w, e
<1>4. /\ Proper(rest) /\ Len(rest) < Size
      /\ \A i \in DOMAIN rest : \E j \in DOMAIN w : rest[i] = w[j]
  <2>1. Size \in Nat \ {0} /\ Len(w) \in Nat /\ Len(store) \in Nat /\ Len(w) <= Size
    BY <1>3, CacheAssumption DEF StoreInv, Proper
  <2>2. CASE Len(w) = Size
    <3>1. w # <<>>
      BY <2>1, <2>2
    <3> QED BY <1>3, <2>1, <2>2, <3>1, TailIsProper
  <2>3. CASE Len(w) # Size
    BY <1>3, <2>1, <2>3
  <2> QED BY <2>2, <2>3
<1> HIDE DEF rest
<1>5. \A i \in DOMAIN rest : rest[i].key # e.key
  BY <1>2, <1>3, <1>4
<1>6. /\ Proper(store') /\ Len(store') = Len(rest) + 1
      /\ \A i \in DOMAIN store' : store'[i] = e \/ \E j \in DOMAIN rest : store'[i] = rest[j]
  BY <1>1, <1>2, <1>4, <1>5, AppendIsProper
<1>7. \A i \in DOMAIN store' :
        store'[i] = e \/ \E j \in DOMAIN store : store'[i] = store[j] /\ store[j].key # key
  BY <1>3, <1>4, <1>6
<1>8. Len(store') <= Size
  BY <1>4, <1>6, CacheAssumption DEF Proper
<1>9. /\ DOMAIN deadline' = DOMAIN deadline \cup {key} /\ deadline'[key] = now + ttl
      /\ \A k \in DOMAIN deadline : k # key => deadline'[k] = deadline[k]
  BY <1>1
<1>10. ASSUME NEW i \in DOMAIN store' PROVE Sound(store[i])'
  <2>1. PICK f : f = store'[i]
    OBVIOUS
  <2>2. CASE f = e
    <3>1. f.key = key /\ f.value = value
      BY <1>2, <2>2
    <3>2. f.key \in Configs =>
            /\ f.value.ok /\ (f.key = "new" => f.value.from = "new")
            /\ f.key \in DOMAIN deadline' /\ deadline'[f.key] = f.value.at + f.value.ttl
      BY <1>9, <3>1
    <3> QED BY <2>1, <3>2 DEF Sound
  <2>3. CASE Sound(f) /\ f.key # key
    <3>1. f.key \in Configs =>
            /\ f.value.ok /\ (f.key = "new" => f.value.from = "new")
            /\ f.key \in DOMAIN deadline' /\ deadline'[f.key] = f.value.at + f.value.ttl
      BY <1>9, <2>3 DEF Sound
    <3> QED BY <2>1, <3>1 DEF Sound
  <2> QED BY <1>7, <2>1, <2>2, <2>3 DEF StoreInv
<1>11. DeadlineInv'
  <2>1. now + ttl \in Nat
    OBVIOUS
  <2> QED BY <1>9, <2>1 DEF DeadlineInv
<1> QED BY <1>6, <1>8, <1>10, <1>11 DEF StoreInv, Proper

LEMMA StoreRests ==
  ASSUME StoreInv, DeadlineInv, store' = store, deadline' = deadline
  PROVE  StoreInv' /\ DeadlineInv'
BY DEF StoreInv, DeadlineInv, Proper, Sound

-----------------------------------------------------------------------------
(* Its calls *)

LEMMA NoValueIs == NoValue \in Values /\ NoValue.ok = FALSE
BY CacheAssumption DEF NoValue, Values, Configs

LEMMA IdleIs ==
  /\ Idle \in CallTypes /\ Idle.pc = "idle" /\ Idle.fp = "old"
BY NoValueIs, CacheAssumption DEF Idle, CallTypes, Steps, Configs

\* A call at rest, about to begin, or about to be kept by the executor.
LEMMA FreshIs ==
  ASSUME NEW pc1 \in {"key", "outer", "fill"}, NEW via \in {"direct", "run", "run_async"}, NEW v \in Values
  PROVE  /\ CallOK(Idle)
         /\ CallOK([Idle EXCEPT !.pc = pc1, !.via = via, !.waited = TRUE])
         /\ CallOK([Idle EXCEPT !.pc = pc1, !.via = via, !.value = v, !.waited = TRUE])
<1>1. CallOK(Idle)
  BY IdleIs DEF CallOK
<1>2. CallOK([Idle EXCEPT !.pc = pc1, !.via = via, !.waited = TRUE])
  BY IdleIs DEF CallOK, CallTypes, Steps
<1>3. CallOK([Idle EXCEPT !.pc = pc1, !.via = via, !.value = v, !.waited = TRUE])
  BY IdleIs DEF CallOK, CallTypes, Steps
<1> QED BY <1>1, <1>2, <1>3

\* What the steps of a call change of it.
LEMMA MovedIs ==
  ASSUME NEW c, CallOK(c), config \in Configs
  PROVE  /\ \A p \in Steps \ {"store"} : CallOK([c EXCEPT !.pc = p])
         /\ CallOK([c EXCEPT !.pc = "inner", !.fp = config])
         /\ c.tries + 1 < Retries => CallOK([c EXCEPT !.pc = "key", !.tries = @ + 1])
         /\ CallOK([c EXCEPT !.waited = FALSE])
<1>1. ASSUME NEW p \in Steps \ {"store"} PROVE CallOK([c EXCEPT !.pc = p])
  BY <1>1 DEF CallOK, CallTypes
<1>2. CallOK([c EXCEPT !.pc = "inner", !.fp = config])
  BY DEF CallOK, CallTypes, Steps
<1>3. ASSUME c.tries + 1 < Retries PROVE CallOK([c EXCEPT !.pc = "key", !.tries = @ + 1])
  <2>1. PICK n : n = c.tries + 1
    OBVIOUS
  <2>2. n \in 0..Retries
    BY <1>3, <2>1, CacheAssumption DEF CallOK, CallTypes
  <2>3. CallOK([c EXCEPT !.pc = "key", !.tries = n])
    BY <2>2 DEF CallOK, CallTypes, Steps
  <2> QED BY <2>1, <2>3
<1>4. CallOK([c EXCEPT !.waited = FALSE])
  BY DEF CallOK, CallTypes
<1> QED BY <1>1, <1>2, <1>3, <1>4

\* What a search finds.
LEMMA FoundIs ==
  ASSUME NEW c, CallOK(c), config \in Configs, NEW ttl \in Ttls
  PROVE  CallOK([c EXCEPT !.pc = "store", !.value = [from |-> config, ok |-> TRUE, ttl |-> ttl, at |-> 0]])
<1> DEFINE v == [from |-> config, ok |-> TRUE, ttl |-> ttl, at |-> 0]
<1>1. v \in Values /\ v.ok /\ v.from = config
  BY CacheAssumption DEF Values
<1> HIDE DEF v
<1>2. CallOK([c EXCEPT !.pc = "store", !.value = v])
  BY <1>1 DEF CallOK, CallTypes, Steps
<1> QED BY <1>2 DEF v

LEMMA OneCall ==
  ASSUME CallsInv, NEW t \in Threads, NEW c, CallOK(c), config' = config,
         call' = [call EXCEPT ![t] = c]
  PROVE  CallsInv'
<1>1. \A u \in Threads : call'[u] = IF u = t THEN c ELSE call[u]
  BY Zenon DEF CallsInv
<1>2. call' = [u \in Threads |-> call'[u]]
  BY Zenon DEF CallsInv
<1>3. \A u \in Threads : CallOK(call'[u])
  BY <1>1 DEF CallsInv
<1>4. \A u \in Threads : CallOK(call[u])'
  BY <1>3 DEF CallOK
<1> QED BY <1>2, <1>4 DEF CallsInv

LEMMA HandKeeps ==
  ASSUME CallsInv, NEW t \in Threads, NEW v \in Values, Hand(t, v), config' = config
  PROVE  CallsInv'
<1>1. CallOK(call[t])
  BY DEF CallsInv
<1>2. CASE call' = [call EXCEPT ![t] = [Idle EXCEPT !.pc = "fill", !.via = call[t].via, !.value = v, !.waited = TRUE]]
  <2>1. call[t].via \in {"direct", "run", "run_async"}
    BY <1>1 DEF CallOK, CallTypes
  <2> DEFINE c == [Idle EXCEPT !.pc = "fill", !.via = call[t].via, !.value = v, !.waited = TRUE]
  <2>2. CallOK(c)
    BY <2>1, FreshIs
  <2> HIDE DEF c
  <2>3. call' = [call EXCEPT ![t] = c]
    BY <1>2 DEF c
  <2> QED BY <2>2, <2>3, OneCall
<1>3. CASE Drop(t)
  <2>1. CallOK(Idle)
    BY NoValueIs, FreshIs
  <2> QED BY <1>3, <2>1, OneCall DEF Drop
<1> QED BY <1>2, <1>3 DEF Hand

LEMMA GotoKeeps ==
  ASSUME CallsInv, config \in Configs, NEW t \in Threads, NEW p \in Steps \ {"store"}, Goto(t, p), config' = config
  PROVE  CallsInv'
<1> DEFINE c == [call[t] EXCEPT !.pc = p]
<1>1. CallOK(c)
  BY MovedIs DEF CallsInv
<1>2. call' = [call EXCEPT ![t] = c]
  BY DEF Goto
<1> HIDE DEF c
<1> QED BY <1>1, <1>2, OneCall

LEMMA DropKeeps ==
  ASSUME CallsInv, NEW t \in Threads, Drop(t), config' = config
  PROVE  CallsInv'
<1>1. CallOK(Idle)
  BY NoValueIs, FreshIs
<1> QED BY <1>1, OneCall DEF Drop

LEMMA CallsRest ==
  ASSUME CallsInv, call' = call, config' \in {config, "new"}
  PROVE  CallsInv'
BY DEF CallsInv, CallOK

-----------------------------------------------------------------------------
(* What the caches hand out *)

LEMMA FlawsRest == ASSUME FlawsInv, flaws' = flaws PROVE FlawsInv'
BY DEF FlawsInv

LEMMA ExecutorHands ==
  ASSUME FlawsInv, NEW v, NEW fp, Handed("executor", v, fp)
  PROVE  FlawsInv'
<1> DEFINE bad == {f \in {"stale"} : v.ok /\ now - v.at > v.ttl}
                    \cup {f \in {"failure"} : ~v.ok}
                    \cup {f \in {"outdated"} : fp = "new" /\ v.from = "old"}
<1>1. flaws' = [flaws EXCEPT !["executor"] = @ \cup bad]
  BY Zenon DEF Handed
<1>2. bad \subseteq {"stale", "failure", "outdated"}
  OBVIOUS
<1> HIDE DEF bad
<1> QED BY <1>1, <1>2 DEF FlawsInv

LEMMA DecoratorHands ==
  ASSUME FlawsInv, NEW v, NEW fp, Handed("decorator", v, fp),
         v.ok, ~(now - v.at > v.ttl), ~(fp = "new" /\ v.from = "old")
  PROVE  FlawsInv'
<1> DEFINE bad == {f \in {"stale"} : v.ok /\ now - v.at > v.ttl}
                    \cup {f \in {"failure"} : ~v.ok}
                    \cup {f \in {"outdated"} : fp = "new" /\ v.from = "old"}
<1>1. flaws' = [flaws EXCEPT !["decorator"] = @ \cup bad]
  BY Zenon DEF Handed
<1>2. bad = {}
  OBVIOUS
<1> HIDE DEF bad
<1> QED BY <1>1, <1>2 DEF FlawsInv

\* The time to live of what the decorator finds is the one of its search.
LEMMA FoundIsFit ==
  ASSUME now \in 0..MaxTime, StoreInv, NEW key \in Configs, Found(key)
  PROVE  LET v == Entry(key).value
         IN  v.ok /\ ~(now - v.at > v.ttl) /\ ~(key = "new" /\ v.from = "old")
<1>1. PICK e : e = Entry(key)
  OBVIOUS
<1>2. Has(key) /\ ~(key \in DOMAIN deadline /\ now > deadline[key])
  BY DEF Found
<1>3. e.key = key /\ Sound(e) /\ e.value \in Values
  BY <1>1, <1>2, EntryIs
<1>4. PICK v : v = e.value
  OBVIOUS
<1>5. /\ v.ok /\ (key = "new" => v.from = "new")
      /\ key \in DOMAIN deadline /\ deadline[key] = v.at + v.ttl
  BY <1>3, <1>4 DEF Sound
<1>6. v.ttl \in Nat /\ v.at \in Nat
  <2>1. v \in Values
    BY <1>3, <1>4
  <2>2. v.at \in 0..MaxTime
    BY <2>1, Zenon DEF Values
  <2> QED BY <2>1, <2>2, ValueIs, CacheAssumption
<1>7. ~(now > v.at + v.ttl)
  BY <1>2, <1>5
<1>8. ~(now - v.at > v.ttl)
  <2>1. now \in Nat
    BY CacheAssumption
  <2> QED BY <1>6, <1>7, <2>1
<1>9. ~(key = "new" /\ v.from = "old")
  BY <1>5
<1> QED BY <1>1, <1>4, <1>5, <1>8, <1>9

-----------------------------------------------------------------------------
(* One step of the caches *)

LEMMA BeginKeeps == ASSUME CacheInv, NEW t \in Threads, Begin(t) PROVE CacheInv'
<1>1. /\ now' = now /\ config' = config /\ store' = store /\ deadline' = deadline /\ flaws' = flaws
  BY DEF Begin
<1>2. PICK via \in {"direct", "run", "run_async"} :
        call' = [call EXCEPT ![t] = [Idle EXCEPT !.pc = IF via = "direct" THEN "key" ELSE "outer",
                                                 !.via = via, !.waited = TRUE]]
  BY DEF Begin
<1>3. PICK p \in {"key", "outer", "fill"} : p = IF via = "direct" THEN "key" ELSE "outer"
  OBVIOUS
<1> DEFINE c == [Idle EXCEPT !.pc = p, !.via = via, !.waited = TRUE]
<1>4. CallOK(c)
  BY NoValueIs, FreshIs
<1>5. call' = [call EXCEPT ![t] = c]
  BY <1>2, <1>3
<1> HIDE DEF c
<1>6. CallsInv'
  BY <1>1, <1>4, <1>5, OneCall DEF CacheInv
<1> QED BY <1>1, <1>6, StoreRests, FlawsRest DEF CacheInv

LEMMA OuterLookKeeps == ASSUME CacheInv, NEW t \in Threads, OuterLook(t) PROVE CacheInv'
<1>1. now' = now /\ config' = config /\ StoreInv /\ DeadlineInv /\ CallsInv /\ FlawsInv /\ config \in Configs
  BY DEF OuterLook, CacheInv
<1>2. CASE Hit(Outer) /\ Handed("executor", Entry(Outer).value, config) /\ Drop(t)
  <2>1. StoreInv' /\ DeadlineInv'
    BY <1>1, <1>2, HitKeeps
  <2>2. CallsInv' /\ FlawsInv'
    BY <1>1, <1>2, DropKeeps, ExecutorHands
  <2> QED BY <1>1, <2>1, <2>2 DEF CacheInv
<1>3. CASE Miss(Outer) /\ Goto(t, "key") /\ UNCHANGED flaws
  <2>1. StoreInv' /\ DeadlineInv'
    BY <1>1, <1>3, MissKeeps
  <2>2. CallsInv' /\ FlawsInv'
    BY <1>1, <1>3, GotoKeeps, FlawsRest DEF Steps
  <2> QED BY <1>1, <2>1, <2>2 DEF CacheInv
<1> QED BY <1>2, <1>3 DEF OuterLook

LEMMA MakeKeyKeeps == ASSUME CacheInv, NEW t \in Threads, MakeKey(t) PROVE CacheInv'
<1>1. /\ now' = now /\ config' = config /\ store' = store /\ deadline' = deadline /\ flaws' = flaws
  BY DEF MakeKey
<1> DEFINE c == [call[t] EXCEPT !.pc = "inner", !.fp = config]
<1>2. CallOK(c)
  BY MovedIs DEF CacheInv, CallsInv
<1>3. call' = [call EXCEPT ![t] = c]
  BY DEF MakeKey
<1> HIDE DEF c
<1>4. CallsInv'
  BY <1>1, <1>2, <1>3, OneCall DEF CacheInv
<1> QED BY <1>1, <1>4, StoreRests, FlawsRest DEF CacheInv

LEMMA InnerLookKeeps == ASSUME CacheInv, NEW t \in Threads, InnerLook(t) PROVE CacheInv'
<1>1. now' = now /\ config' = config /\ StoreInv /\ DeadlineInv /\ CallsInv /\ FlawsInv /\ config \in Configs
  BY DEF InnerLook, CacheInv
<1>2. PICK key : key = call[t].fp
  OBVIOUS
<1>3. key \in Configs
  BY <1>1, <1>2 DEF CallsInv, CallOK, CallTypes
<1>4. CASE Hit(key) /\ Handed("decorator", Entry(key).value, key) /\ Hand(t, Entry(key).value)
  <2>1. StoreInv' /\ DeadlineInv' /\ Entry(key).value \in Values
    BY <1>1, <1>4, HitKeeps
  <2>2. Found(key)
    BY <1>4 DEF Hit
  <2>3. PICK v : v = Entry(key).value
    OBVIOUS
  <2>4. v.ok /\ ~(now - v.at > v.ttl) /\ ~(key = "new" /\ v.from = "old")
    BY <1>1, <1>3, <2>2, <2>3, FoundIsFit DEF CacheInv
  <2>5. FlawsInv'
    BY <1>1, <1>4, <2>3, <2>4, DecoratorHands
  <2>6. CallsInv'
    BY <1>1, <1>4, <2>1, HandKeeps
  <2> QED BY <1>1, <2>1, <2>5, <2>6 DEF CacheInv
<1>5. CASE Miss(key) /\ Goto(t, "search") /\ UNCHANGED flaws
  <2>1. StoreInv' /\ DeadlineInv'
    BY <1>1, <1>5, MissKeeps
  <2>2. CallsInv' /\ FlawsInv'
    BY <1>1, <1>5, GotoKeeps, FlawsRest DEF Steps
  <2> QED BY <1>1, <2>1, <2>2 DEF CacheInv
<1> QED BY <1>2, <1>4, <1>5 DEF InnerLook

LEMMA SearchKeeps == ASSUME CacheInv, NEW t \in Threads, Search(t) PROVE CacheInv'
<1>1. /\ now' = now /\ config' = config /\ store' = store /\ deadline' = deadline /\ flaws' = flaws
      /\ config \in Configs /\ CallsInv
  BY DEF Search, CacheInv
<1>2. CASE \E ttl \in Ttls :
            call' = [call EXCEPT ![t].pc = "store",
                                 ![t].value = [from |-> config, ok |-> TRUE, ttl |-> ttl, at |-> 0]]
  <2>1. PICK ttl \in Ttls :
            call' = [call EXCEPT ![t].pc = "store",
                                 ![t].value = [from |-> config, ok |-> TRUE, ttl |-> ttl, at |-> 0]]
    BY <1>2
  <2> DEFINE c == [call[t] EXCEPT !.pc = "store", !.value = [from |-> config, ok |-> TRUE, ttl |-> ttl, at |-> 0]]
  <2>2. CallOK(c)
    BY <1>1, FoundIs DEF CallsInv
  <2>3. call' = [call EXCEPT ![t] = c]
    BY <1>1, <2>1 DEF CallsInv
  <2> HIDE DEF c
  <2>4. CallsInv'
    BY <1>1, <2>2, <2>3, OneCall
  <2> QED BY <1>1, <2>4, StoreRests, FlawsRest DEF CacheInv
<1>3. CASE Hand(t, [NoValue EXCEPT !.from = config])
  <2>1. [NoValue EXCEPT !.from = config] \in Values
    BY <1>1, NoValueIs DEF Values
  <2>2. CallsInv'
    BY <1>1, <1>3, <2>1, HandKeeps
  <2> QED BY <1>1, <2>2, StoreRests, FlawsRest DEF CacheInv
<1> QED BY <1>2, <1>3 DEF Search

LEMMA RaisesKeeps == ASSUME CacheInv, NEW t \in Threads, Raises(t) PROVE CacheInv'
<1>1. /\ now' = now /\ config' = config /\ store' = store /\ deadline' = deadline /\ flaws' = flaws
      /\ config \in Configs /\ CallsInv
  BY DEF Raises, CacheInv
<1>2. CASE call[t].tries + 1 < Retries /\ call' = [call EXCEPT ![t].pc = "key", ![t].tries = @ + 1]
  <2> DEFINE c == [call[t] EXCEPT !.pc = "key", !.tries = @ + 1]
  <2>1. CallOK(c)
    BY <1>1, <1>2, MovedIs DEF CallsInv
  <2>2. call' = [call EXCEPT ![t] = c]
    BY <1>1, <1>2 DEF CallsInv
  <2> HIDE DEF c
  <2>3. CallsInv'
    BY <1>1, <2>1, <2>2, OneCall
  <2> QED BY <1>1, <2>3, StoreRests, FlawsRest DEF CacheInv
<1>3. CASE Drop(t)
  <2>1. CallsInv'
    BY <1>1, <1>3, DropKeeps
  <2> QED BY <1>1, <2>1, StoreRests, FlawsRest DEF CacheInv
<1> QED BY <1>2, <1>3 DEF Raises

LEMMA StoreKeeps == ASSUME CacheInv, NEW t \in Threads, Store(t) PROVE CacheInv'
<1>1. /\ now' = now /\ config' = config /\ flaws' = flaws /\ now \in 0..MaxTime /\ now \in Nat
      /\ StoreInv /\ DeadlineInv /\ CallsInv /\ CallOK(call[t]) /\ call[t].pc = "store"
  BY CacheAssumption DEF Store, CacheInv, CallsInv
<1>2. PICK v : v = [call[t].value EXCEPT !.at = now]
  OBVIOUS
<1>3. Add(call[t].fp, v, v.ttl) /\ Hand(t, v)
  BY <1>2 DEF Store
<1>4. call[t].value \in Values /\ call[t].fp \in Configs
  BY <1>1 DEF CallOK, CallTypes
<1>5. v \in Values /\ v.at = now /\ v.ok = call[t].value.ok /\ v.from = call[t].value.from
  BY <1>1, <1>2, <1>4 DEF Values
<1>6. v.ok /\ (call[t].fp = "new" => v.from = "new")
  BY <1>1, <1>5 DEF CallOK
<1>7. v.ttl \in Nat
  BY <1>5, ValueIs
<1>8. StoreInv' /\ DeadlineInv'
  BY <1>1, <1>3, <1>4, <1>5, <1>6, <1>7, AddKeeps DEF Keys
<1>9. CallsInv'
  BY <1>1, <1>3, <1>5, HandKeeps
<1> QED BY <1>1, <1>8, <1>9, FlawsRest DEF CacheInv

LEMMA OuterStoreKeeps == ASSUME CacheInv, NEW t \in Threads, OuterStore(t) PROVE CacheInv'
<1>1. /\ now' = now /\ config' = config /\ flaws' = flaws /\ now \in Nat
      /\ StoreInv /\ DeadlineInv /\ CallsInv /\ CallOK(call[t])
      /\ Add(Outer, call[t].value, DefaultTtl) /\ Drop(t)
  BY CacheAssumption DEF OuterStore, CacheInv, CallsInv
<1>2. call[t].value \in Values
  BY <1>1 DEF CallOK, CallTypes
<1>3. Outer \in Keys /\ Outer \notin Configs /\ DefaultTtl \in Nat
  BY CacheAssumption DEF Outer, Keys, Configs
<1>4. StoreInv' /\ DeadlineInv'
  BY <1>1, <1>2, <1>3, AddKeeps
<1>5. CallsInv'
  BY <1>1, DropKeeps
<1> QED BY <1>1, <1>4, <1>5, FlawsRest DEF CacheInv

LEMMA TimesOutKeeps == ASSUME CacheInv, NEW t \in Threads, TimesOut(t) PROVE CacheInv'
<1>1. /\ now' = now /\ config' = config /\ store' = store /\ deadline' = deadline /\ flaws' = flaws
      /\ config \in Configs /\ CallsInv
  BY DEF TimesOut, CacheInv
<1>2. CASE call' = [call EXCEPT ![t].waited = FALSE]
  <2> DEFINE c == [call[t] EXCEPT !.waited = FALSE]
  <2>1. CallOK(c)
    BY <1>1, MovedIs DEF CallsInv
  <2>2. call' = [call EXCEPT ![t] = c]
    BY <1>2
  <2> HIDE DEF c
  <2>3. CallsInv'
    BY <1>1, <2>1, <2>2, OneCall
  <2> QED BY <1>1, <2>3, StoreRests, FlawsRest DEF CacheInv
<1>3. CASE Drop(t)
  <2>1. CallsInv'
    BY <1>1, <1>3, DropKeeps
  <2> QED BY <1>1, <2>1, StoreRests, FlawsRest DEF CacheInv
<1> QED BY <1>2, <1>3 DEF TimesOut

LEMMA ClearKeeps == ASSUME CacheInv, Clear PROVE CacheInv'
<1>1. /\ now' = now /\ config' = config /\ call' = call /\ flaws' = flaws
      /\ store' = <<>> /\ deadline' = <<>>
  BY DEF Clear
<1>2. StoreInv' /\ DeadlineInv'
  BY <1>1, CacheAssumption DEF StoreInv, DeadlineInv, Proper
<1> QED BY <1>1, <1>2, CallsRest, FlawsRest DEF CacheInv

LEMMA RollOutKeeps == ASSUME CacheInv, RollOut PROVE CacheInv'
<1>1. /\ now' = now /\ config' = "new" /\ store' = store /\ deadline' = deadline
      /\ call' = call /\ flaws' = flaws
  BY DEF RollOut
<1>2. CallsInv' /\ config' \in Configs
  BY <1>1, CallsRest DEF CacheInv, Configs
<1> QED BY <1>1, <1>2, StoreRests, FlawsRest DEF CacheInv

LEMMA TickKeeps == ASSUME CacheInv, Tick PROVE CacheInv'
<1>1. /\ now < MaxTime /\ now' = now + 1 /\ config' = config /\ store' = store /\ deadline' = deadline
      /\ call' = call /\ flaws' = flaws
  BY DEF Tick
<1>2. now' \in 0..MaxTime
  BY <1>1, CacheAssumption DEF CacheInv
<1> QED BY <1>1, <1>2, StoreRests, CallsRest, FlawsRest DEF CacheInv

LEMMA CacheInitOK == CacheInit => CacheInv
<1> SUFFICES ASSUME CacheInit PROVE CacheInv
  OBVIOUS
<1>1. StoreInv /\ DeadlineInv
  BY CacheAssumption DEF CacheInit, StoreInv, DeadlineInv, Proper
<1>2. CallsInv
  <2>1. CallOK(Idle)
    BY NoValueIs, FreshIs
  <2> QED BY <2>1 DEF CacheInit, CallsInv
<1>3. FlawsInv
  BY DEF CacheInit, FlawsInv
<1>4. now \in 0..MaxTime /\ config \in Configs
  BY CacheAssumption DEF CacheInit, Configs
<1> QED BY <1>1, <1>2, <1>3, <1>4 DEF CacheInv

LEMMA CacheInductive == CacheInv /\ [CacheNext]_cacheVars => CacheInv'
<1> SUFFICES ASSUME CacheInv, [CacheNext]_cacheVars PROVE CacheInv'
  OBVIOUS
<1>1. CASE \E t \in Threads :
        \/ Begin(t) \/ OuterLook(t) \/ MakeKey(t) \/ InnerLook(t) \/ Search(t) \/ Raises(t)
        \/ Store(t) \/ OuterStore(t) \/ TimesOut(t)
  BY <1>1, BeginKeeps, OuterLookKeeps, MakeKeyKeeps, InnerLookKeeps, SearchKeeps, RaisesKeeps,
     StoreKeeps, OuterStoreKeeps, TimesOutKeeps
<1>2. CASE Clear \/ RollOut \/ Tick
  BY <1>2, ClearKeeps, RollOutKeeps, TickKeeps
<1>3. CASE UNCHANGED cacheVars
  BY <1>3, StoreRests, CallsRest, FlawsRest DEF cacheVars, CacheInv
<1> QED BY <1>1, <1>2, <1>3 DEF CacheNext

\* The caches of the executor are well-formed: no key has two entries, there are
\* never more than cache_size, and what calls and entries carry is of its type.
THEOREM CacheTyped == CacheSpec => []TypeOK
<1>1. CacheInv => TypeOK
  <2> SUFFICES ASSUME CacheInv PROVE TypeOK
    OBVIOUS
  <2>1. store \in Seq([key : Keys, value : Values]) /\ Len(store) <= Size
    BY DEF CacheInv, StoreInv, Proper, Entries
  <2>2. call \in [Threads -> CallTypes]
    <3>1. \A t \in Threads : call[t] \in CallTypes
      BY DEF CacheInv, CallsInv, CallOK
    <3> QED BY <3>1, Zenon DEF CacheInv, CallsInv
  <2> QED BY <2>1, <2>2 DEF TypeOK, CacheInv, DeadlineInv, FlawsInv, CallTypes, Steps
<1> QED BY <1>1, CacheInitOK, CacheInductive, PTL DEF CacheSpec

\* The cache of the decorator around _cached_search_web hands out no failure,
\* nothing older than the strategy of its search allows, and to whoever asks after
\* a roll-out nothing that was searched before it: whatever the executor's own
\* cache keeps in the same store, with any number of threads, sizes and times to
\* live (ToolExecutor, SearchTool.search_web).
THEOREM CacheKeeps == CacheSpec => []DecoratorKeeps
<1>1. CacheInv => DecoratorKeeps
  BY DEF CacheInv, FlawsInv, DecoratorKeeps, FreshKept, FailuresKeptOut, RollOutKept
<1> QED BY <1>1, CacheInitOK, CacheInductive, PTL DEF CacheSpec
===========================================================================
