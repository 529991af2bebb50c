------------------------ MODULE ContextEngineProofs ------------------------
(***************************************************************************)
(* The properties of ContextEngine for all callers, limits and numbers of  *)
(* messages, calls and outages.                                            *)
(***************************************************************************)
EXTENDS ContextEngine, TLAPS, FiniteSetTheorems

USE DEF Messages, Summary, Entries, Statuses, At, lists, counts

-----------------------------------------------------------------------------
(* Sequences *)

(* The last n elements are those of the sequence, shifted. *)
LEMMA LastNShift ==
    ASSUME NEW S, NEW s \in Seq(S), NEW n \in Nat
    PROVE  /\ LastN(s, n) \in Seq(S)
           /\ Len(LastN(s, n)) <= n
           /\ \E d \in Nat : /\ Len(LastN(s, n)) + d = Len(s)
                             /\ \A i \in 1..Len(LastN(s, n)) : LastN(s, n)[i] = s[i + d]
<1>1. CASE Len(s) <= n
  <2>1. LastN(s, n) = s
    BY <1>1 DEF LastN
  <2>2. Len(s) + 0 = Len(s) /\ \A i \in 1..Len(s) : s[i] = s[i + 0]
    OBVIOUS
  <2> QED
    BY <1>1, <2>1, <2>2
<1>2. CASE ~(Len(s) <= n)
  <2> DEFINE d == Len(s) - n
  <2>1. d \in Nat /\ d + 1 \in 1..(Len(s) + 1) /\ LastN(s, n) = SubSeq(s, d + 1, Len(s))
    BY <1>2 DEF LastN
  <2>2. Len(LastN(s, n)) = n /\ LastN(s, n) \in Seq(S)
    BY <2>1
  <2>3. \A i \in 1..n : LastN(s, n)[i] = s[i + d]
    BY <2>1
  <2>4. Len(LastN(s, n)) + d = Len(s)
    BY <2>2
  <2> HIDE DEF d
  <2>5. \A i \in 1..Len(LastN(s, n)) : LastN(s, n)[i] = s[i + d]
    BY <2>2, <2>3
  <2> QED
    BY <2>1, <2>2, <2>4, <2>5
<1> QED
  BY <1>1, <1>2

(* A sequence of numbers up to n without repetition has at most n of them.   *)
LEMMA InjectiveBounded ==
    ASSUME NEW n \in Nat, NEW s \in Seq(1..n),
           \A i, j \in 1..Len(s) : i # j => s[i] # s[j]
    PROVE  Len(s) <= n
<1> SUFFICES ASSUME n < Len(s) PROVE FALSE
  OBVIOUS
<1>1. ASSUME NEW k \in Nat
      PROVE  IsFiniteSet(1..k) /\ Cardinality(1..k) = k
  <2>1. 1 \in Int /\ k \in Int
    OBVIOUS
  <2>2. /\ IsFiniteSet(1..k)
        /\ Cardinality(1..k) = IF 1 > k THEN 0 ELSE k - 1 + 1
    BY ONLY <2>1, FS_Interval, Zenon
  <2> QED
    BY <2>2
<1>2. s \in [1..Len(s) -> 1..n] /\ Len(s) \in Nat
  OBVIOUS
<1>3. /\ IsFiniteSet(1..n) /\ IsFiniteSet(1..Len(s))
      /\ Cardinality(1..n) < Cardinality(1..Len(s))
  BY <1>1, <1>2
<1>4. \E i, j \in 1..Len(s) : i # j /\ s[i] = s[j]
  BY <1>2, <1>3, FS_PigeonHole
<1> QED
  BY <1>4

-----------------------------------------------------------------------------
(* How a step moves its caller *)

CallType == [at : Positions, of : 0..MaxMessages, copy : Seq(Entries), filled : Nat, seen : Statuses]
CallsTyped == /\ call \in [Callers -> CallType]
              /\ \A c \in Callers : call[c].at \in Adding => call[c].of # 0
Others(c) == \A d \in Callers \ {c} : call'[d] = call[d]

(* Goto moves the caller and nothing else. *)
LEMMA GotoMoves ==
    ASSUME CallsTyped, NEW c \in Callers, NEW where \in Positions, Goto(c, where),
           where \in Adding => call[c].of # 0
    PROVE  /\ CallsTyped' /\ Others(c) /\ done' = done
           /\ call'[c].at = where /\ call'[c].of = call[c].of
<1>1. call'[c] = [call[c] EXCEPT !.at = where]
  BY DEF Goto, CallsTyped
<1>2. call[c] \in CallType
  BY DEF CallsTyped
<1>3. call'[c] \in CallType /\ call'[c].at = where /\ call'[c].of = call[c].of
  BY <1>1, <1>2 DEF CallType
<1>4. Others(c) /\ done' = done /\ call' \in [Callers -> CallType]
  BY <1>3 DEF Goto, CallsTyped, Others
<1> QED
  BY <1>3, <1>4 DEF CallsTyped, Others

(* Return makes the caller idle; what it added is done. *)
LEMMA ReturnMoves ==
    ASSUME CallsTyped, NEW c \in Callers, Return(c)
    PROVE  /\ CallsTyped' /\ Others(c) /\ call'[c].at = "idle" /\ call'[c].of = 0
           /\ call[c].of = 0 => done' = done
           /\ call[c].of # 0 => done' = done \cup {call[c].of}
<1>1. call'[c] = Idle /\ Others(c)
  BY DEF Return, CallsTyped, Others
<1>2. Idle \in CallType
  BY EngineAssumption DEF Idle, CallOf, CallType, Positions
<1>3. call' \in [Callers -> CallType]
  BY <1>2 DEF Return, CallsTyped
<1>4. \A d \in Callers : call'[d].at \in Adding => call'[d].of # 0
  BY <1>1 DEF CallsTyped, Others, Idle, CallOf, Adding
<1> QED
  BY <1>1, <1>3, <1>4 DEF CallsTyped, Return, Idle, CallOf

(* Store moves the caller to its write. *)
LEMMA StoreMoves ==
    ASSUME CallsTyped, NEW c \in Callers, NEW status \in Statuses, Store(c, status)
    PROVE  /\ CallsTyped' /\ Others(c) /\ done' = done
           /\ call'[c].at = "write" /\ call'[c].of = call[c].of /\ call'[c].seen = status
<1>1. call'[c] = [call[c] EXCEPT !.at = "write", !.seen = status]
  BY DEF Store, CallsTyped
<1>2. call[c] \in CallType
  BY DEF CallsTyped
<1>3. call'[c] \in CallType /\ call'[c].at = "write" /\ call'[c].of = call[c].of /\ call'[c].seen = status
  BY <1>1, <1>2 DEF CallType, Positions
<1>4. Others(c) /\ done' = done /\ call' \in [Callers -> CallType]
  BY <1>3 DEF Store, CallsTyped, Others
<1> QED
  BY <1>3, <1>4 DEF CallsTyped, Others, Adding

(* Carry moves a compression on with what it holds. *)
LEMMA CarryMoves ==
    ASSUME CallsTyped, NEW c \in Callers, NEW where \in {"model", "delete"},
           NEW messages \in Seq(Entries), Carry(c, where, messages)
    PROVE  /\ CallsTyped' /\ Others(c) /\ done' = done
           /\ call'[c].at = where /\ call'[c].of = call[c].of
           /\ memory' = memory /\ intact' = intact
<1>1. call'[c] = [call[c] EXCEPT !.at = where, !.copy = messages]
  BY DEF Carry, CallsTyped
<1>2. call[c] \in CallType
  BY DEF CallsTyped
<1>3. call'[c] \in CallType /\ call'[c].at = where /\ call'[c].of = call[c].of
  BY <1>1, <1>2 DEF CallType, Positions
<1>4. Others(c) /\ done' = done /\ call' \in [Callers -> CallType]
  BY <1>3 DEF Carry, CallsTyped, Others
<1> QED
  BY <1>3, <1>4 DEF CallsTyped, Others, Adding, Carry

-----------------------------------------------------------------------------
(* What a step does to the calls and to the types *)

Recording == {"look", "write", "renew"}

(* Only a message under way is carried, by one caller, and it is not done.   *)
Carried == \A c \in Callers : call[c].of # 0 =>
    /\ call[c].of \in 1..sent /\ call[c].of \notin done
    /\ call[c].at \in Adding \cup Recording
    /\ \A d \in Callers \ {c} : call[d].of # call[c].of

(* The ways of a caller that keeps or drops its message.                     *)
Advances(c) ==
    /\ call'[c].of = call[c].of /\ done' = done
    /\ call[c].of # 0 =>
        \/ call[c].at = "push" /\ call'[c].at = "trim" /\ Push(c)
        \/ call[c].at = "trim" /\ call'[c].at = "expire" /\ Trim(c)
        \/ call[c].at = "expire" /\ call'[c].at = "log"
        \/ call[c].at \in {"push", "trim", "expire"} /\ call'[c].at = "log" /\ StoreInMemory(c)
        \/ call[c].at = "log" /\ call'[c].at = "look" /\ Log(c)
        \/ call[c].at \in Recording /\ call'[c].at \in Recording
    /\ call[c].at # "trim" => call'[c].at # "trim" \/ Push(c)
    /\ call'[c].at = "refill" => call[c].at = "refill" \/ Delete(c)
Finishes(c) ==
    /\ call'[c].at = "idle" /\ call'[c].of = 0
    /\ call[c].of = 0 => done' = done
    /\ call[c].of # 0 =>
        /\ done' = done \cup {call[c].of}
        /\ (call[c].at = "log" /\ Log(c)) \/ call[c].at \in Recording
Moves(c) ==
    /\ Others(c)
    /\ BeginAdd(c) \/ (sent' = sent /\ before' = before /\ (Advances(c) \/ Finishes(c)))
    /\ Log(c) \/ (call[c].at # "log" /\ UNCHANGED <<logged, unlogged>>)

(* The stores and the counters, without the calls.                           *)
DataTyped ==
    /\ usesRedis \in BOOLEAN /\ intact \in BOOLEAN
    /\ redis \in Seq(Entries) /\ memory \in Seq(Entries)
    /\ record \in [{"redis", "memory"} -> Statuses]
    /\ logged \in [Messages -> Nat]
    /\ sent \in 0..MaxMessages /\ calls \in 0..MaxCalls /\ outages \in 0..MaxOutages
    /\ done \subseteq 1..sent /\ unlogged \subseteq 1..sent
    /\ before \in [Messages -> SUBSET Messages]

LEMMA TypeParts == TypeOK <=> DataTyped /\ CallsTyped
BY DEF TypeOK, DataTyped, CallsTyped, CallType

LEMMA TypePartsPrimed == TypeOK' <=> DataTyped' /\ CallsTyped'
BY DEF TypeOK, DataTyped, CallsTyped, CallType

(* The page a compression reads, and what it keeps of it, are sequences of   *)
(* entries.                                                                  *)
LEMMA PagesTyped ==
    ASSUME DataTyped
    PROVE  RedisPage \in Seq(Entries) /\ MemoryPage \in Seq(Entries)
<1>1. \A s \in Seq(Entries) : Reversed(s) \in Seq(Entries)
  BY DEF Reversed
<1> QED
  BY <1>1, LastNShift, EngineAssumption DEF DataTyped, RedisPage, MemoryPage

(* A compression that replaces the history, or carries what it holds on.     *)
LEMMA ReplaceMoves ==
    ASSUME CallsTyped, NEW c \in Callers, NEW kept \in Seq(Entries), Replace(c, kept),
           memory \in Seq(Entries), intact \in BOOLEAN, call[c].of = 0
    PROVE  /\ CallsTyped' /\ Others(c) /\ done' = done
           /\ call'[c].at \notin {"trim", "refill"} /\ call'[c].of = 0
           /\ memory' \in Seq(Entries) /\ intact' \in BOOLEAN
<1>1. CASE usesRedis
  BY <1>1, CarryMoves DEF Replace
<1>2. CASE ~usesRedis
  BY <1>2, ReturnMoves DEF Replace
<1> QED
  BY <1>1, <1>2

LEMMA FinishedSent ==
    ASSUME DataTyped, NEW c \in Callers, call[c].of # 0 => call[c].of \in 1..sent,
           Advances(c) \/ Finishes(c)
    PROVE  done' \subseteq 1..sent
<1>1. CASE done' = done
  BY <1>1 DEF DataTyped
<1>2. CASE call[c].of # 0 /\ done' = done \cup {call[c].of}
  BY <1>2 DEF DataTyped
<1> QED
  BY <1>1, <1>2 DEF Advances, Finishes

LEMMA StepMoves ==
    ASSUME DataTyped, CallsTyped, Carried, NEW c \in Callers, Step(c)
    PROVE  DataTyped' /\ CallsTyped' /\ Moves(c)
<1> USE EngineAssumption DEF Positions, Adding, Recording, Moves
<1>0. /\ call[c].of # 0 => call[c].at \in Adding \cup Recording
      /\ call[c].at \in Adding => call[c].of # 0
      /\ call[c].of \in 0..MaxMessages /\ call[c].of \in Entries
      /\ call[c].of # 0 => call[c].of \in 1..sent /\ call[c].of \in Messages
      /\ call[c].seen \in Statuses /\ call[c].copy \in Seq(Entries) /\ call[c].filled \in Nat
  BY DEF Carried, CallsTyped, CallType, DataTyped
<1>20. <<>> \in Seq(Entries)
  OBVIOUS
<1>1. CASE BeginAdd(c)
  <2>1. DataTyped'
    BY <1>1 DEF BeginAdd, DataTyped
  <2> DEFINE new == CallOf("push", sent + 1)
  <2>5. sent + 1 \in 1..MaxMessages
    BY <1>1 DEF BeginAdd, DataTyped
  <2>2. new \in CallType /\ new.at = "push" /\ new.of = sent + 1 /\ new.of # 0
    BY <1>20, <2>5 DEF CallType, CallOf
  <2> HIDE DEF new
  <2>7. call' = [call EXCEPT ![c] = new]
    BY <1>1 DEF BeginAdd, new
  <2>3. CallsTyped' /\ Others(c)
    BY <2>2, <2>7 DEF CallsTyped, Others
  <2>4. UNCHANGED <<logged, unlogged>> /\ call[c].at # "log"
    BY <1>1 DEF BeginAdd
  <2> QED
    BY <1>1, <2>1, <2>3, <2>4
<1>2. CASE Push(c)
  <2>1. Goto(c, "trim") /\ call[c].at = "push" /\ sent' = sent /\ before' = before /\ UNCHANGED <<logged, unlogged>>
    BY <1>2 DEF Push
  <2>2. CallsTyped' /\ Others(c) /\ Advances(c)
    BY <1>0, <1>2, <2>1, GotoMoves DEF Advances
  <2>3. done' = done /\ <<call[c].of>> \o redis \in Seq(Entries)
    BY <1>0, <2>2 DEF Advances, DataTyped
  <2>4. DataTyped'
    BY <1>2, <2>3 DEF Push, DataTyped, Answers
  <2> QED
    BY <2>1, <2>2, <2>4
<1>3. CASE Trim(c)
  <2>1. Goto(c, "expire") /\ call[c].at = "trim" /\ sent' = sent /\ before' = before /\ UNCHANGED <<logged, unlogged>>
    BY <1>3 DEF Trim
  <2>2. CallsTyped' /\ Others(c) /\ Advances(c)
    BY <1>0, <1>3, <2>1, GotoMoves DEF Advances
  <2>3. done' = done /\ LastN(redis, Limit) \in Seq(Entries)
    BY <2>2, LastNShift DEF Advances, DataTyped
  <2>4. DataTyped'
    BY <1>3, <2>3 DEF Trim, DataTyped, Answers
  <2> QED
    BY <2>1, <2>2, <2>4
<1>4. CASE Expire(c)
  <2>1. Goto(c, "log") /\ call[c].at = "expire" /\ sent' = sent /\ before' = before /\ UNCHANGED <<logged, unlogged>>
    BY <1>4 DEF Expire
  <2>2. CallsTyped' /\ Others(c) /\ Advances(c)
    BY <1>0, <2>1, GotoMoves DEF Advances
  <2>4. DataTyped'
    BY <1>4, <2>2 DEF Expire, DataTyped, Answers, Advances
  <2> QED
    BY <2>1, <2>2, <2>4
<1>5. CASE StoreInMemory(c)
  <2>1. Goto(c, "log") /\ call[c].at \in {"push", "trim", "expire"} /\ sent' = sent /\ before' = before /\ UNCHANGED <<logged, unlogged>>
    BY <1>5 DEF StoreInMemory
  <2>2. CallsTyped' /\ Others(c) /\ Advances(c)
    BY <1>0, <1>5, <2>1, GotoMoves DEF Advances
  <2>3. done' = done /\ Append(memory, call[c].of) \in Seq(Entries)
    BY <1>0, <2>2 DEF Advances, DataTyped
  <2>4. LastN(Append(memory, call[c].of), Limit) \in Seq(Entries)
    BY <2>3, LastNShift
  <2>5. DataTyped'
    <3>1. usesRedis' = usesRedis /\ outages' \in 0..MaxOutages
      BY <1>5, EngineAssumption DEF StoreInMemory, DataTyped, Answers, Fails, Local
    <3>2. UNCHANGED <<redis, intact, record, logged, sent, calls, before, unlogged, done>>
      BY <1>5, <2>3 DEF StoreInMemory, counts
    <3>3. memory' \in Seq(Entries)
      BY <1>5, <2>4, Zenon DEF StoreInMemory
    <3> QED
      BY <3>1, <3>2, <3>3 DEF DataTyped
  <2> QED
    BY <2>1, <2>2, <2>5
<1>6. CASE Log(c)
  <2>1. call[c].at = "log" /\ sent' = sent /\ before' = before /\ (Goto(c, "look") \/ Return(c))
    BY <1>6 DEF Log, AfterLog
  <2>2. CallsTyped' /\ Others(c) /\ (Advances(c) \/ Finishes(c))
    <3>1. CASE Goto(c, "look")
      BY <1>0, <1>6, <2>1, <3>1, GotoMoves DEF Advances
    <3>2. CASE Return(c)
      BY <1>0, <1>6, <2>1, <3>2, ReturnMoves DEF Finishes
    <3> QED
      BY <2>1, <3>1, <3>2
  <2>3. done' \subseteq 1..sent
    BY <1>0, <2>2, FinishedSent
  <2>4. DataTyped'
    <3>1. usesRedis' = usesRedis /\ UNCHANGED <<redis, memory, intact, calls, record, outages>>
      BY <1>6 DEF Log, Log
    <3>2. call[c].of \in 1..sent
      BY <1>0, <2>1
    <3>3. unlogged' \subseteq 1..sent
      BY <1>6, <3>2 DEF Log, DataTyped
    <3>4. logged' \in [Messages -> Nat]
      <4>1. PICK m \in Messages : logged' = logged \/ logged' = [logged EXCEPT ![m] = @ + 1]
        BY <1>0, <1>6, <2>1 DEF Log
      <4>2. logged \in [Messages -> Nat]
        BY DEF DataTyped
      <4> QED
        BY ONLY <4>1, <4>2
    <3> QED
      BY <2>1, <2>3, <3>1, <3>3, <3>4 DEF DataTyped
  <2> QED
    BY <1>6, <2>1, <2>2, <2>4
<1>7. CASE BeginCreate(c)
  <2>1. /\ call[c].at = "idle" /\ sent' = sent /\ before' = before /\ UNCHANGED <<logged, unlogged>>
        /\ (Store(c, "active") \/ (call' = call /\ done' = done))
    BY <1>0, <1>7 DEF BeginCreate, Begins
  <2>2. CallsTyped' /\ Others(c) /\ (Advances(c) \/ Finishes(c))
    BY <1>0, <2>1, GotoMoves, ReturnMoves, StoreMoves DEF Advances, Finishes, Others, CallsTyped
  <2>3. done' \subseteq 1..sent
    BY <1>0, <2>2, FinishedSent
  <2>4. DataTyped'
    <3>1. record' \in [{"redis", "memory"} -> Statuses]
      BY <1>0, <1>7 DEF BeginCreate, DataTyped
    <3>2. usesRedis' = usesRedis /\ UNCHANGED <<redis, memory, intact, outages>>
      BY <1>7 DEF BeginCreate, Begins, Fails, Local
    <3>0. calls' \in 0..MaxCalls
      BY <1>7 DEF BeginCreate, Begins, DataTyped
    <3> QED
      BY <2>1, <2>3, <3>0, <3>1, <3>2 DEF DataTyped
  <2> QED
    BY <2>1, <2>2, <2>4
<1>8. CASE BeginEnd(c)
  <2>1. /\ call[c].at = "idle" /\ sent' = sent /\ before' = before /\ UNCHANGED <<logged, unlogged>>
        /\ (Goto(c, "look") \/ (call' = call /\ done' = done))
    BY <1>0, <1>8 DEF BeginEnd, Begins
  <2>2. CallsTyped' /\ Others(c) /\ (Advances(c) \/ Finishes(c))
    BY <1>0, <2>1, GotoMoves, ReturnMoves, StoreMoves DEF Advances, Finishes, Others, CallsTyped
  <2>3. done' \subseteq 1..sent
    BY <1>0, <2>2, FinishedSent
  <2>4. DataTyped'
    BY <1>0, <1>8, <2>1, <2>3 DEF BeginEnd, Begins, DataTyped
  <2> QED
    BY <2>1, <2>2, <2>4
<1>9. CASE Look(c)
  <2>1. /\ call[c].at = "look" /\ sent' = sent /\ before' = before /\ UNCHANGED <<logged, unlogged>>
        /\ (Return(c) \/ \E status \in Statuses : Store(c, status))
    BY <1>0, <1>9 DEF Look, Found, NextStatus, DataTyped
  <2>2. CallsTyped' /\ Others(c) /\ (Advances(c) \/ Finishes(c))
    BY <1>0, <2>1, GotoMoves, ReturnMoves, StoreMoves DEF Advances, Finishes, Others, CallsTyped
  <2>3. done' \subseteq 1..sent
    BY <1>0, <2>2, FinishedSent
  <2>4. DataTyped'
    BY <1>0, <1>9, <2>1, <2>3 DEF Look, Answers, Fails, DataTyped
  <2> QED
    BY <2>1, <2>2, <2>4
<1>10. CASE Write(c)
  <2>1. /\ call[c].at = "write" /\ sent' = sent /\ before' = before /\ UNCHANGED <<logged, unlogged>>
        /\ (Goto(c, "renew") \/ Return(c))
    BY <1>0, <1>10 DEF Write
  <2>2. CallsTyped' /\ Others(c) /\ (Advances(c) \/ Finishes(c))
    BY <1>0, <2>1, GotoMoves, ReturnMoves, StoreMoves DEF Advances, Finishes, Others, CallsTyped
  <2>3. done' \subseteq 1..sent
    BY <1>0, <2>2, FinishedSent
  <2>4. DataTyped'
    <3>1. record' \in [{"redis", "memory"} -> Statuses]
      BY <1>0, <1>10 DEF Write, DataTyped
    <3>2. outages' \in 0..MaxOutages
      BY <1>10 DEF Write, DataTyped, Answers, Fails
    <3>3. usesRedis' = usesRedis /\ UNCHANGED <<redis, memory, intact, calls>>
      BY <1>10 DEF Write, Answers, Fails
    <3> QED
      BY <2>1, <2>3, <3>1, <3>2, <3>3 DEF DataTyped
  <2> QED
    BY <2>1, <2>2, <2>4
<1>11. CASE Renew(c)
  <2>1. /\ call[c].at = "renew" /\ sent' = sent /\ before' = before /\ UNCHANGED <<logged, unlogged>>
        /\ Return(c)
    BY <1>0, <1>11 DEF Renew
  <2>2. CallsTyped' /\ Others(c) /\ (Advances(c) \/ Finishes(c))
    BY <1>0, <2>1, GotoMoves, ReturnMoves, StoreMoves DEF Advances, Finishes, Others, CallsTyped
  <2>3. done' \subseteq 1..sent
    BY <1>0, <2>2, FinishedSent
  <2>4. DataTyped'
    <3>1. record' \in [{"redis", "memory"} -> Statuses]
      BY <1>0, <1>11 DEF Renew, DataTyped
    <3>2. outages' \in 0..MaxOutages
      BY <1>11 DEF Renew, DataTyped, Answers, Fails
    <3>3. usesRedis' = usesRedis /\ UNCHANGED <<redis, memory, intact, calls>>
      BY <1>11 DEF Renew, Answers, Fails
    <3> QED
      BY <2>1, <2>3, <3>1, <3>2, <3>3 DEF DataTyped
  <2> QED
    BY <2>1, <2>2, <2>4
<1>12. CASE BeginCleanup(c)
  <2>1. /\ call[c].at = "idle" /\ sent' = sent /\ before' = before /\ UNCHANGED <<logged, unlogged>>
        /\ (Goto(c, "purge") \/ (call' = call /\ done' = done))
    BY <1>0, <1>12 DEF BeginCleanup, Begins
  <2>2. CallsTyped' /\ Others(c) /\ (Advances(c) \/ Finishes(c))
    BY <1>0, <2>1, GotoMoves, ReturnMoves, StoreMoves DEF Advances, Finishes, Others, CallsTyped
  <2>3. done' \subseteq 1..sent
    BY <1>0, <2>2, FinishedSent
  <2>4. DataTyped'
    <3>1. record' \in [{"redis", "memory"} -> Statuses]
      BY <1>0, <1>12 DEF BeginCleanup, DataTyped
    <3>2. redis' \in Seq(Entries) /\ memory' \in Seq(Entries) /\ intact' \in BOOLEAN
      BY <1>12, <1>20 DEF BeginCleanup, DataTyped
    <3>3. usesRedis' = usesRedis /\ UNCHANGED <<outages>>
      BY <1>12 DEF BeginCleanup, Begins, Answers, Local
    <3>0. calls' \in 0..MaxCalls
      BY <1>12 DEF BeginCleanup, Begins, DataTyped
    <3> QED
      BY <2>1, <2>3, <3>0, <3>1, <3>2, <3>3 DEF DataTyped
  <2> QED
    BY <2>1, <2>2, <2>4
<1>13. CASE Purge(c)
  <2>1. /\ call[c].at = "purge" /\ sent' = sent /\ before' = before /\ UNCHANGED <<logged, unlogged>>
        /\ (Goto(c, "wipe") \/ Return(c))
    BY <1>0, <1>13 DEF Purge
  <2>2. CallsTyped' /\ Others(c) /\ (Advances(c) \/ Finishes(c))
    BY <1>0, <2>1, GotoMoves, ReturnMoves, StoreMoves DEF Advances, Finishes, Others, CallsTyped
  <2>3. done' \subseteq 1..sent
    BY <1>0, <2>2, FinishedSent
  <2>4. DataTyped'
    <3>1. record' \in [{"redis", "memory"} -> Statuses]
      BY <1>0, <1>13 DEF Purge, DataTyped
    <3>2. outages' \in 0..MaxOutages
      BY <1>13 DEF Purge, DataTyped, Answers, Fails
    <3>3. usesRedis' = usesRedis /\ UNCHANGED <<redis, memory, intact, calls>>
      BY <1>13 DEF Purge, Answers, Fails
    <3> QED
      BY <2>1, <2>3, <3>1, <3>2, <3>3 DEF DataTyped
  <2> QED
    BY <2>1, <2>2, <2>4
<1>14. CASE Wipe(c)
  <2>1. /\ call[c].at = "wipe" /\ sent' = sent /\ before' = before /\ UNCHANGED <<logged, unlogged>>
        /\ Return(c)
    BY <1>0, <1>14 DEF Wipe
  <2>2. CallsTyped' /\ Others(c) /\ (Advances(c) \/ Finishes(c))
    BY <1>0, <2>1, GotoMoves, ReturnMoves, StoreMoves DEF Advances, Finishes, Others, CallsTyped
  <2>3. done' \subseteq 1..sent
    BY <1>0, <2>2, FinishedSent
  <2>4. DataTyped'
    <3>1. outages' \in 0..MaxOutages
      BY <1>14, <1>20 DEF Wipe, DataTyped, Answers, Fails
    <3>2. redis' \in Seq(Entries) /\ memory' \in Seq(Entries) /\ intact' \in BOOLEAN
      BY <1>14, <1>20 DEF Wipe, DataTyped
    <3>3. usesRedis' = usesRedis /\ UNCHANGED <<record, calls>>
      BY <1>14 DEF Wipe, Answers, Fails
    <3> QED
      BY <2>1, <2>3, <3>1, <3>2, <3>3 DEF DataTyped
  <2> QED
    BY <2>1, <2>2, <2>4
<1>15. CASE BeginCompress(c)
  <2>1. /\ call[c].at = "idle" /\ sent' = sent /\ before' = before /\ UNCHANGED <<logged, unlogged>>
        /\ Goto(c, "read")
    BY <1>0, <1>15 DEF BeginCompress, Begins
  <2>2. CallsTyped' /\ Others(c) /\ (Advances(c) \/ Finishes(c))
    BY <1>0, <2>1, GotoMoves, ReturnMoves, StoreMoves DEF Advances, Finishes, Others, CallsTyped
  <2>3. done' \subseteq 1..sent
    BY <1>0, <2>2, FinishedSent
  <2>4. DataTyped'
    BY <1>0, <1>15, <2>1, <2>3 DEF BeginCompress, Begins, DataTyped
  <2> QED
    BY <2>1, <2>2, <2>4
<1>16. CASE Read(c)
  <2> DEFINE Compressed == /\ CallsTyped' /\ Others(c) /\ done' = done
                           /\ call'[c].at \notin {"trim", "refill"} /\ call'[c].of = 0
                           /\ memory' \in Seq(Entries) /\ intact' \in BOOLEAN
  <2>1. call[c].at = "read" /\ call[c].of = 0 /\ sent' = sent /\ before' = before /\ UNCHANGED <<logged, unlogged>> /\ redis' = redis /\ record' = record
    BY <1>0, <1>16 DEF Read
  <2>2. ASSUME NEW page \in Seq(Entries), Compress(c, page)
        PROVE  Compressed
    <3>1. memory \in Seq(Entries) /\ intact \in BOOLEAN /\ LastN(page, Keep) \in Seq(Entries)
      BY LastNShift DEF DataTyped
    <3>2. CASE Return(c) /\ UNCHANGED <<memory, intact>>
      BY <2>1, <3>1, <3>2, ReturnMoves
    <3>3. CASE Replace(c, LastN(page, Keep))
      BY <2>1, <3>1, <3>3, ReplaceMoves
    <3>4. CASE Carry(c, "model", page)
      BY <2>1, <3>1, <3>4, CarryMoves
    <3> QED
      BY <2>2, <3>2, <3>3, <3>4 DEF Compress
  <2>3. Compressed
    BY <1>16, <2>2, PagesTyped DEF Read
  <2>4. DataTyped'
    BY <1>16, <2>1, <2>3 DEF Read, DataTyped, Answers, Fails, Local
  <2> QED
    BY <2>1, <2>3, <2>4 DEF Advances
<1>17. CASE Model(c)
  <2>1. call[c].at = "model" /\ call[c].of = 0 /\ sent' = sent /\ before' = before /\ UNCHANGED <<logged, unlogged>> /\ redis' = redis /\ record' = record
    BY <1>0, <1>17 DEF Model
  <2>2. LastN(call[c].copy, Keep) \in Seq(Entries)
    BY <1>0, LastNShift
  <2>3. <<Summary>> \o LastN(call[c].copy, Keep) \in Seq(Entries)
    BY <2>2
  <2>4. memory \in Seq(Entries) /\ intact \in BOOLEAN
    BY DEF DataTyped
  <2>5. /\ CallsTyped' /\ Others(c) /\ done' = done /\ call'[c].at \notin {"trim", "refill"} /\ call'[c].of = 0
        /\ memory' \in Seq(Entries) /\ intact' \in BOOLEAN
    <3>1. CASE Replace(c, <<Summary>> \o LastN(call[c].copy, Keep))
      BY <2>1, <2>3, <2>4, <3>1, ReplaceMoves
    <3>2. CASE Replace(c, LastN(call[c].copy, Keep))
      BY <2>1, <2>2, <2>4, <3>2, ReplaceMoves
    <3>3. CASE Return(c) /\ UNCHANGED <<memory, intact>>
      BY <2>1, <2>4, <3>3, ReturnMoves
    <3> QED
      BY <1>17, <3>1, <3>2, <3>3 DEF Model
  <2>6. DataTyped'
    BY <1>17, <2>1, <2>5 DEF Model, DataTyped
  <2> QED
    BY <2>1, <2>5, <2>6 DEF Advances
<1>18. CASE Delete(c)
  <2>1. /\ call[c].at = "delete" /\ call[c].of = 0 /\ sent' = sent /\ before' = before /\ UNCHANGED <<logged, unlogged>>
        /\ Goto(c, "refill") \/ Return(c)
    BY <1>0, <1>20, <1>18 DEF Delete, KeepInMemory
  <2>2. CallsTyped' /\ Others(c) /\ done' = done /\ call'[c].at # "trim" /\ call'[c].of = 0
    BY <2>1, GotoMoves, ReturnMoves
  <2>3. DataTyped'
    <3>1. outages' \in 0..MaxOutages
      BY <1>18 DEF Delete, DataTyped, KeepInMemory, Answers, Fails
    <3>2. redis' \in Seq(Entries) /\ memory' \in Seq(Entries) /\ intact' \in BOOLEAN
      BY <1>0, <1>20, <1>18 DEF Delete, KeepInMemory, DataTyped
    <3>3. usesRedis' = usesRedis /\ UNCHANGED <<record, calls>>
      BY <1>18 DEF Delete, KeepInMemory, Answers, Fails
    <3> QED
      BY <2>1, <2>2, <3>1, <3>2, <3>3 DEF DataTyped
  <2> QED
    BY <1>18, <2>1, <2>2, <2>3 DEF Advances
<1>19. CASE Refill(c)
  <2> DEFINE Fill == call' = [call EXCEPT ![c].filled = @ + 1] /\ done' = done
  <2>1. /\ call[c].at = "refill" /\ call[c].of = 0 /\ sent' = sent /\ before' = before /\ UNCHANGED <<logged, unlogged>>
        /\ Fill \/ Return(c)
    BY <1>0, <1>19 DEF Refill, KeepInMemory
  <2>2. ASSUME Fill
        PROVE  CallsTyped' /\ Others(c) /\ call'[c].at # "trim" /\ call'[c].of = 0
    <3>1. call'[c] = [call[c] EXCEPT !.filled = @ + 1] /\ Others(c)
      BY <2>2 DEF CallsTyped, Others
    <3>3. call[c] \in CallType
      BY DEF CallsTyped
    <3>2. call'[c] \in CallType /\ call'[c].at = "refill" /\ call'[c].of = 0
      BY <2>1, <3>1, <3>3 DEF CallType
    <3> QED
      BY <2>2, <3>1, <3>2 DEF CallsTyped, Others
  <2>3. CallsTyped' /\ Others(c) /\ done' = done /\ call'[c].at # "trim" /\ call'[c].of = 0
    BY <2>1, <2>2, ReturnMoves
  <2>4. call[c].filled < Len(call[c].copy) => call[c].copy[call[c].filled + 1] \in Entries
    BY <1>0
  <2>5. DataTyped'
    <3>1. outages' \in 0..MaxOutages
      BY <1>19 DEF Refill, DataTyped, KeepInMemory, Answers, Fails
    <3>2. memory' \in Seq(Entries) /\ intact' \in BOOLEAN
      BY <1>0, <1>19 DEF Refill, KeepInMemory, DataTyped
    <3>4. redis' \in Seq(Entries)
      <4>1. redis' = redis \/ \E e \in Entries : redis' = Append(redis, e)
        BY <1>19, <2>4 DEF Refill, KeepInMemory
      <4>2. redis \in Seq(Entries)
        BY DEF DataTyped
      <4> QED
        BY ONLY <4>1, <4>2
    <3>3. usesRedis' = usesRedis /\ UNCHANGED <<record, calls>>
      BY <1>19 DEF Refill, KeepInMemory, Answers, Fails
    <3> QED
      BY <2>1, <2>3, <3>1, <3>2, <3>3, <3>4 DEF DataTyped
  <2> QED
    BY <2>1, <2>3, <2>5 DEF Advances
<1> QED
  BY <1>1, <1>2, <1>3, <1>4, <1>5, <1>6, <1>7, <1>8, <1>9, <1>10, <1>11, <1>12, <1>13,
     <1>14, <1>15, <1>16, <1>17, <1>18, <1>19 DEF Step

-----------------------------------------------------------------------------
(* The inductive invariant *)

(* An add under way is not logged until its append, and counted right after. *)
LogRight ==
    /\ LoggedOnce
    /\ \A m \in Messages : m > sent => logged[m] = 0
    /\ \A c \in Callers : call[c].of # 0 =>
        IF call[c].at \in Adding
        THEN logged[call[c].of] = 0 /\ call[c].of \notin unlogged
        ELSE logged[call[c].of] = IF call[c].of \in unlogged THEN 0 ELSE 1

Past == \A m \in Messages : before[m] \subseteq done

(* Redis runs from the newest message, memory from the oldest; neither       *)
(* repeats one, nor holds one that has yet to reach it.                      *)
Ordered == intact =>
    /\ redis \in Seq(1..sent) /\ memory \in Seq(1..sent)
    /\ \A i, j \in 1..Len(redis) : i < j => redis[i] \notin before[redis[j]] /\ redis[i] # redis[j]
    /\ \A i, j \in 1..Len(memory) : i < j => memory[j] \notin before[memory[i]] /\ memory[i] # memory[j]
    /\ \A c \in Callers :
        /\ call[c].at = "push" => \A i \in 1..Len(redis) : redis[i] # call[c].of
        /\ call[c].at \in {"push", "trim", "expire"} => \A i \in 1..Len(memory) : memory[i] # call[c].of

(* A history that is being refilled has been deleted.                        *)
Rewriting == \A c \in Callers : call[c].at = "refill" => ~intact

(* What has left its first await is in one of the stores.                    *)
Stored == (intact /\ sent <= Limit) =>
    /\ done \subseteq Elements(redis) \cup Elements(memory)
    /\ \A c \in Callers : (call[c].of # 0 /\ call[c].at # "push") =>
        call[c].of \in Elements(redis) \cup Elements(memory)

IInv == TypeOK /\ Carried /\ LogRight /\ Past /\ Rewriting /\ Ordered /\ Stored /\ HistoryBounded /\ NoShadow

LEMMA CarriedInductive ==
    ASSUME DataTyped, CallsTyped, Carried, NEW c \in Callers, Step(c)
    PROVE  Carried'
<1> USE DEF Adding, Recording
<1>1. DataTyped' /\ CallsTyped' /\ Moves(c)
  BY StepMoves
<1>2. Others(c)
  BY <1>1 DEF Moves
<1>3. CASE BeginAdd(c)
  <2>1. call[c].of = 0 /\ call'[c].of = sent + 1 /\ call'[c].at = "push" /\ sent' = sent + 1 /\ done' = done
    BY <1>3 DEF BeginAdd, Carried, CallsTyped, CallOf
  <2>2. sent \in Nat /\ \A d \in Callers : call[d].of # sent + 1
    BY DEF Carried, DataTyped
  <2>3. sent + 1 \notin done
    BY <2>2 DEF DataTyped
  <2> QED
    BY <1>2, <2>1, <2>2, <2>3 DEF Carried, Others
<1>4. CASE sent' = sent /\ Advances(c)
  BY <1>2, <1>4 DEF Carried, Others, Advances
<1>5. CASE sent' = sent /\ Finishes(c)
  BY <1>2, <1>5 DEF Carried, Others, Finishes
<1> QED
  BY <1>1, <1>3, <1>4, <1>5 DEF Moves

LEMMA LogInductive ==
    ASSUME DataTyped, CallsTyped, Carried, LogRight, NEW c \in Callers, Step(c)
    PROVE  LogRight'
<1> USE DEF Adding, Recording
<1>1. DataTyped' /\ CallsTyped' /\ Moves(c)
  BY StepMoves
<1>2. Others(c)
  BY <1>1 DEF Moves
<1>3. /\ \A d \in Callers : call[d].of # 0 => call[d].of \in Messages /\ call[d].of \in 1..sent
      /\ \A m \in done \cup unlogged : m \in Messages /\ m \in 1..sent
      /\ sent \in Nat
  <2>1. sent \in 0..MaxMessages /\ 1..sent \subseteq Messages
    BY EngineAssumption DEF DataTyped
  <2>2. done \subseteq 1..sent /\ unlogged \subseteq 1..sent
    BY DEF DataTyped
  <2>3. \A d \in Callers : call[d].of # 0 => call[d].of \in 1..sent
    BY DEF Carried
  <2>4. sent \in Nat
    BY <2>1
  <2> QED
    BY <2>1, <2>2, <2>3, <2>4, Zenon
<1>4. CASE BeginAdd(c)
  <2>1. call'[c].of = sent + 1 /\ call'[c].at = "push" /\ sent' = sent + 1 /\ sent + 1 \in Messages
        /\ UNCHANGED <<done, logged, unlogged>>
    <3>1. call' = [call EXCEPT ![c] = CallOf("push", sent + 1)] /\ sent < MaxMessages
          /\ sent' = sent + 1 /\ UNCHANGED <<done, logged, unlogged>>
      BY <1>4 DEF BeginAdd
    <3>2. call'[c] = CallOf("push", sent + 1)
      BY <3>1 DEF CallsTyped
    <3> QED
      BY <1>3, <3>1, <3>2, EngineAssumption DEF CallOf
  <2>2. logged[sent + 1] = 0 /\ sent + 1 \notin unlogged
    BY <1>3, <2>1 DEF LogRight
  <2> QED
    BY <1>2, <1>3, <2>1, <2>2 DEF LogRight, LoggedOnce, Others
<1>5. CASE Log(c)
  <2>1. PICK m \in Messages : m = call[c].of
    BY <1>3, <1>5 DEF Log, CallsTyped
  <2>2. /\ call[c].at = "log" /\ sent' = sent /\ call'[c].at \in {"look", "idle"} /\ m \in 1..sent
        /\ \/ call'[c].of = m /\ done' = done
           \/ call'[c].of = 0 /\ done' = done \cup {m}
    BY <1>1, <1>3, <1>5, <2>1 DEF Log, Moves, Advances, Finishes, CallsTyped, BeginAdd
  <2>3. logged[m] = 0 /\ m \notin unlogged /\ m \notin done /\ \A d \in Callers \ {c} : call[d].of # m
    BY <2>1, <2>2, <1>3, <1>5 DEF LogRight, Carried, Log, CallsTyped
  <2>4. \/ logged' = [logged EXCEPT ![m] = @ + 1] /\ unlogged' = unlogged
        \/ unlogged' = unlogged \cup {m} /\ logged' = logged
    BY <1>5, <2>1 DEF Log
  <2>5. logged'[m] = (IF m \in unlogged' THEN 0 ELSE 1)
        /\ \A k \in Messages \ {m} : logged'[k] = logged[k] /\ (k \in unlogged' <=> k \in unlogged)
    <3>1. logged \in [Messages -> Nat]
      BY DEF DataTyped
    <3>2. CASE logged' = [logged EXCEPT ![m] = @ + 1] /\ unlogged' = unlogged
      BY <2>3, <3>1, <3>2
    <3>3. CASE unlogged' = unlogged \cup {m} /\ logged' = logged
      BY <2>3, <3>3
    <3> QED
      BY <2>4, <3>2, <3>3
  <2>6. LoggedOnce'
    BY <1>3, <2>2, <2>5 DEF LogRight, LoggedOnce
  <2>7. \A k \in Messages : k > sent' => logged'[k] = 0
    BY <1>3, <2>2, <2>5 DEF LogRight
  <2> QED
    BY <1>2, <1>3, <2>1, <2>2, <2>3, <2>5, <2>6, <2>7 DEF LogRight, Others
<1>6. CASE sent' = sent /\ UNCHANGED <<logged, unlogged>> /\ call[c].at # "log" /\ Advances(c)
  BY <1>2, <1>3, <1>6 DEF LogRight, LoggedOnce, Others, Advances, Carried
<1>7. CASE sent' = sent /\ UNCHANGED <<logged, unlogged>> /\ call[c].at # "log" /\ Finishes(c)
  BY <1>2, <1>3, <1>7 DEF LogRight, LoggedOnce, Others, Finishes, Carried
<1> QED
  BY <1>1, <1>4, <1>5, <1>6, <1>7 DEF Moves

LEMMA PastInductive ==
    ASSUME DataTyped, CallsTyped, Carried, Past, NEW c \in Callers, Step(c)
    PROVE  Past' /\ done \subseteq done'
<1>1. Moves(c)
  BY StepMoves
<1>2. CASE BeginAdd(c)
  BY <1>2 DEF BeginAdd, Past, DataTyped
<1>3. CASE before' = before /\ (Advances(c) \/ Finishes(c))
  <2>1. done \subseteq done'
    BY <1>3 DEF Advances, Finishes
  <2> QED
    BY <1>3, <2>1 DEF Past
<1> QED
  BY <1>1, <1>2, <1>3 DEF Moves

(* While the history is intact only an add touches the lists.                *)
LEMMA ListsMove ==
    ASSUME Rewriting, NEW c \in Callers, Step(c), intact', intact \in BOOLEAN
    PROVE  /\ intact
           /\ (redis' = redis /\ memory' = memory) \/ Push(c) \/ Trim(c) \/ StoreInMemory(c)
<1>1. CASE BeginAdd(c) \/ Expire(c) \/ Log(c)
  BY <1>1 DEF BeginAdd, Expire, Log
<1>2. CASE Push(c) \/ Trim(c) \/ StoreInMemory(c)
  BY <1>2 DEF Push, Trim, StoreInMemory
<1>3. CASE BeginCreate(c) \/ BeginEnd(c) \/ BeginCompress(c)
  BY <1>3 DEF BeginCreate, BeginEnd, BeginCompress
<1>4. CASE Look(c) \/ Write(c) \/ Renew(c)
  BY <1>4 DEF Look, Write, Renew
<1>5. CASE BeginCleanup(c) \/ Purge(c) \/ Wipe(c)
  BY <1>5 DEF BeginCleanup, Purge, Wipe
<1>6. CASE Read(c)
  <2>1. ASSUME NEW page, Compress(c, page)
        PROVE  memory' = memory /\ intact' = intact
    BY <2>1 DEF Compress, Replace, Carry
  <2> QED
    BY <1>6, <2>1 DEF Read
<1>7. CASE Model(c)
  <2>1. ASSUME NEW kept, Replace(c, kept)
        PROVE  memory' = memory /\ intact' = intact
    BY <2>1 DEF Replace, Carry
  <2> QED
    BY <1>7, <2>1 DEF Model
<1>8. CASE Delete(c) \/ Refill(c)
  BY <1>8 DEF Delete, Refill, KeepInMemory, Rewriting
<1> QED
  BY <1>1, <1>2, <1>3, <1>4, <1>5, <1>6, <1>7, <1>8 DEF Step

LEMMA RewritingInductive ==
    ASSUME DataTyped, CallsTyped, Carried, Rewriting, NEW c \in Callers, Step(c)
    PROVE  Rewriting'
<1>1. Moves(c) /\ Others(c)
  BY StepMoves DEF Moves
<1>2. intact' => intact
  BY ListsMove DEF DataTyped
<1>3. call'[c].at = "refill" => ~intact'
  <2>1. CASE BeginAdd(c)
    BY <2>1 DEF BeginAdd, CallsTyped, CallOf
  <2>2. CASE Delete(c)
    <3>1. call'[c].at = "refill" => ~Return(c)
      BY ReturnMoves
    <3> QED
      BY <2>2, <3>1 DEF Delete, KeepInMemory
  <2>3. CASE call[c].at = "refill"
    BY <1>2, <2>3 DEF Rewriting, DataTyped
  <2> QED
    BY <1>1, <2>1, <2>2, <2>3 DEF Moves, Advances, Finishes
<1> QED
  BY <1>1, <1>2, <1>3 DEF Rewriting, Others

LEMMA ElementIn ==
    ASSUME NEW S, NEW s \in Seq(S)
    PROVE  Len(s) \in Nat /\ \A i \in 1..Len(s) : s[i] \in S
OBVIOUS

LEMMA Prepended ==
    ASSUME NEW S, NEW s \in Seq(S), NEW m \in S
    PROVE  /\ <<m>> \o s \in Seq(S) /\ Len(<<m>> \o s) = Len(s) + 1 /\ (<<m>> \o s)[1] = m
           /\ \A i \in 2..(Len(s) + 1) : i - 1 \in 1..Len(s) /\ (<<m>> \o s)[i] = s[i - 1]
OBVIOUS

LEMMA Appended ==
    ASSUME NEW S, NEW s \in Seq(S), NEW m \in S
    PROVE  /\ Append(s, m) \in Seq(S) /\ Len(Append(s, m)) = Len(s) + 1
           /\ Append(s, m)[Len(s) + 1] = m
           /\ \A i \in 1..Len(s) : Append(s, m)[i] = s[i]
OBVIOUS

(* The orders of the two lists, for any sequence. *)
NewestFirst(list) == \A i, j \in 1..Len(list) : i < j => list[i] \notin before[list[j]] /\ list[i] # list[j]
OldestFirst(list) == \A i, j \in 1..Len(list) : i < j => list[j] \notin before[list[i]] /\ list[i] # list[j]
Misses(list, m) == \A i \in 1..Len(list) : list[i] # m

LEMMA OrderedParts == Ordered <=> (intact =>
    /\ redis \in Seq(1..sent) /\ memory \in Seq(1..sent)
    /\ NewestFirst(redis) /\ OldestFirst(memory)
    /\ \A c \in Callers :
        /\ call[c].at = "push" => Misses(redis, call[c].of)
        /\ call[c].at \in {"push", "trim", "expire"} => Misses(memory, call[c].of))
BY DEF Ordered, NewestFirst, OldestFirst, Misses

(* The end of a list inherits its order and what it misses.                  *)
LEMMA LastNOrder ==
    ASSUME NEW n \in Nat, NEW S, NEW s \in Seq(S)
    PROVE  /\ NewestFirst(s) => NewestFirst(LastN(s, n))
           /\ OldestFirst(s) => OldestFirst(LastN(s, n))
           /\ \A m : Misses(s, m) => Misses(LastN(s, n), m)
<1> DEFINE t == LastN(s, n)
<1>1. PICK d \in Nat : Len(t) + d = Len(s) /\ \A i \in 1..Len(t) : t[i] = s[i + d]
  BY LastNShift
<1>2. Len(t) \in Nat /\ Len(s) \in Nat
  BY LastNShift
<1> HIDE DEF t
<1>3. \A i \in 1..Len(t) : i + d \in 1..Len(s)
  BY <1>1, <1>2
<1>4. \A i, j \in 1..Len(t) : i < j => i + d < j + d
  BY <1>2
<1> QED
  BY <1>1, <1>3, <1>4 DEF NewestFirst, OldestFirst, Misses, t

(* A new message goes before, or after, a list of messages begun no later.   *)
LEMMA PushOrder ==
    ASSUME NEW s \in Seq(1..sent), NEW m \in 1..sent, NewestFirst(s), Misses(s, m),
           \A k \in 1..sent : m \notin before[k]
    PROVE  NewestFirst(<<m>> \o s) /\ \A k : Misses(s, k) /\ k # m => Misses(<<m>> \o s, k)
<1> DEFINE t == <<m>> \o s
<1>1. /\ t \in Seq(1..sent) /\ Len(t) = Len(s) + 1 /\ t[1] = m /\ Len(s) \in Nat
      /\ \A i \in 2..(Len(s) + 1) : i - 1 \in 1..Len(s) /\ t[i] = s[i - 1]
  BY Prepended
<1> HIDE DEF t
<1>2. ASSUME NEW i \in 1..Len(t), NEW j \in 1..Len(t), i < j
      PROVE  t[i] \notin before[t[j]] /\ t[i] # t[j]
  <2>1. j \in 2..(Len(s) + 1) /\ t[j] = s[j - 1] /\ j - 1 \in 1..Len(s) /\ s[j - 1] \in 1..sent
    <3>1. j \in 2..(Len(s) + 1)
      BY <1>1, <1>2
    <3>2. t[j] = s[j - 1] /\ j - 1 \in 1..Len(s)
      BY <1>1, <3>1
    <3>3. s[j - 1] \in 1..sent
      BY <3>2, ElementIn
    <3> QED
      BY <3>1, <3>2, <3>3
  <2>2. CASE i = 1
    BY <1>1, <2>1, <2>2 DEF Misses
  <2>3. CASE i \in 2..(Len(s) + 1)
    BY <1>1, <1>2, <2>1, <2>3 DEF NewestFirst
  <2> QED
    BY <1>1, <2>2, <2>3
<1>3. ASSUME NEW k, Misses(s, k), k # m, NEW i \in 1..Len(t)
      PROVE  t[i] # k
  <2>1. CASE i = 1
    BY <1>1, <1>3, <2>1
  <2>2. CASE i \in 2..(Len(s) + 1)
    BY <1>1, <1>3, <2>2 DEF Misses
  <2> QED
    BY <1>1, <2>1, <2>2
<1> QED
  BY <1>2, <1>3 DEF NewestFirst, Misses, t

LEMMA AppendOrder ==
    ASSUME NEW s \in Seq(1..sent), NEW m \in 1..sent, OldestFirst(s), Misses(s, m),
           \A k \in 1..sent : m \notin before[k]
    PROVE  OldestFirst(Append(s, m)) /\ \A k : Misses(s, k) /\ k # m => Misses(Append(s, m), k)
<1> DEFINE t == Append(s, m)
<1>1. /\ t \in Seq(1..sent) /\ Len(t) = Len(s) + 1 /\ t[Len(s) + 1] = m /\ Len(s) \in Nat
      /\ \A i \in 1..Len(s) : t[i] = s[i]
  BY Appended
<1>4. \A i \in 1..Len(s) : s[i] \in 1..sent
  BY ElementIn
<1> HIDE DEF t
<1>2. ASSUME NEW i \in 1..Len(t), NEW j \in 1..Len(t), i < j
      PROVE  t[j] \notin before[t[i]] /\ t[i] # t[j]
  <2>1. i \in 1..Len(s) /\ t[i] = s[i] /\ s[i] \in 1..sent
    BY <1>1, <1>2, <1>4
  <2>2. CASE j = Len(s) + 1
    BY <1>1, <2>1, <2>2 DEF Misses
  <2>3. CASE j \in 1..Len(s)
    BY <1>1, <1>2, <2>1, <2>3 DEF OldestFirst
  <2> QED
    BY <1>1, <2>2, <2>3
<1>3. ASSUME NEW k, Misses(s, k), k # m, NEW i \in 1..Len(t)
      PROVE  t[i] # k
  BY <1>1, <1>3 DEF Misses
<1> QED
  BY <1>2, <1>3 DEF OldestFirst, Misses, t

LEMMA SeqWider ==
    ASSUME NEW n \in Nat, NEW s \in Seq(1..n)
    PROVE  s \in Seq(1..(n + 1)) /\ Misses(s, n + 1)
<1>1. \A i \in 1..Len(s) : s[i] \in 1..n
  BY ElementIn
<1>2. 1..n \subseteq 1..(n + 1)
  OBVIOUS
<1> QED
  BY <1>1, <1>2 DEF Misses

LEMMA OrderedInductive ==
    ASSUME DataTyped, CallsTyped, Carried, Past, Rewriting, Ordered, NEW c \in Callers, Step(c)
    PROVE  Ordered'
<1> USE DEF Adding, Recording
<1> SUFFICES ASSUME intact'
             PROVE  /\ redis' \in Seq(1..sent') /\ memory' \in Seq(1..sent')
                    /\ NewestFirst(redis)' /\ OldestFirst(memory)'
                    /\ \A d \in Callers :
                        /\ call'[d].at = "push" => Misses(redis', call'[d].of)
                        /\ call'[d].at \in {"push", "trim", "expire"} => Misses(memory', call'[d].of)
  BY DEF Ordered, NewestFirst, OldestFirst, Misses
<1>1. CallsTyped' /\ Moves(c) /\ Others(c)
  BY StepMoves DEF Moves
<1>2. intact /\ ((redis' = redis /\ memory' = memory) \/ Push(c) \/ Trim(c) \/ StoreInMemory(c))
  BY ListsMove DEF DataTyped
<1>3. /\ redis \in Seq(1..sent) /\ memory \in Seq(1..sent)
      /\ NewestFirst(redis) /\ OldestFirst(memory)
      /\ \A d \in Callers :
            /\ call[d].at = "push" => Misses(redis, call[d].of)
            /\ call[d].at \in {"push", "trim", "expire"} => Misses(memory, call[d].of)
  BY <1>2, OrderedParts
<1>4. sent \in Nat /\ (call[c].at \in Adding => call[c].of \in 1..sent /\ call[c].of # 0)
  BY DEF DataTyped, CallsTyped, Carried
<1>5. CASE BeginAdd(c)
  <2>1. /\ call'[c].of = sent + 1 /\ call'[c].at = "push" /\ sent' = sent + 1 /\ sent + 1 \in Messages
        /\ before' = [before EXCEPT ![sent + 1] = done] /\ redis' = redis /\ memory' = memory
    BY <1>4, <1>5, EngineAssumption DEF BeginAdd, CallsTyped, CallOf
  <2>2. redis \in Seq(1..(sent + 1)) /\ memory \in Seq(1..(sent + 1)) /\ Misses(redis, sent + 1) /\ Misses(memory, sent + 1)
    BY <1>3, <1>4, SeqWider
  <2>3. \A k \in Messages : k # sent + 1 => before'[k] = before[k]
    BY <2>1 DEF DataTyped
  <2>4. /\ \A i \in 1..Len(redis) : redis[i] \in Messages /\ redis[i] # sent + 1
        /\ \A i \in 1..Len(memory) : memory[i] \in Messages /\ memory[i] # sent + 1
    <3>1. \A k \in 1..sent : k \in Messages /\ k # sent + 1
      BY <1>4, <2>1, EngineAssumption
    <3> QED
      BY <1>3, <3>1, ElementIn
  <2>5. NewestFirst(redis)' /\ OldestFirst(memory)'
    BY <1>3, <2>1, <2>3, <2>4 DEF NewestFirst, OldestFirst
  <2> QED
    BY <1>1, <1>3, <2>1, <2>2, <2>5 DEF Others
<1>6. CASE sent' = sent /\ before' = before /\ (Advances(c) \/ Finishes(c))
  <2>1. /\ call'[c].at # "push"
        /\ call'[c].at \in {"trim", "expire"} => call[c].at \in {"push", "trim"} /\ call'[c].of = call[c].of
        /\ call'[c].at = "trim" => Push(c)
    BY <1>1, <1>6 DEF Advances, Finishes, CallsTyped, Carried
  <2>2. CASE redis' = redis /\ memory' = memory
    BY <1>1, <1>3, <1>6, <2>1, <2>2 DEF Others, NewestFirst, OldestFirst
  <2>3. CASE Push(c)
    <3> DEFINE m == call[c].of
    <3>1. redis' = <<m>> \o redis /\ memory' = memory /\ m \in 1..sent /\ Misses(redis, m) /\ Misses(memory, m)
      BY <1>3, <1>4, <2>3 DEF Push
    <3>2. \A k \in 1..sent : m \notin before[k]
      BY <1>4, <2>3, EngineAssumption DEF Past, Carried, DataTyped, Push
    <3>3. NewestFirst(redis') /\ \A k : Misses(redis, k) /\ k # m => Misses(redis', k)
      BY <1>3, <3>1, <3>2, PushOrder
    <3>4. redis' \in Seq(1..sent)
      BY <1>3, <3>1, Prepended
    <3>5. \A d \in Callers \ {c} : call[d].at \in Adding => call[d].of # m
      BY <1>4, <2>3 DEF Carried, Push, CallsTyped
    <3>6. NewestFirst(redis)' /\ OldestFirst(memory)'
      BY <1>3, <1>6, <3>1, <3>3 DEF NewestFirst, OldestFirst
    <3> QED
      BY <1>1, <1>3, <1>6, <2>1, <3>1, <3>3, <3>4, <3>5, <3>6 DEF Others
  <2>4. CASE Trim(c)
    <3>1. redis' = LastN(redis, Limit) /\ memory' = memory
      BY <2>4 DEF Trim
    <3>2. redis' \in Seq(1..sent) /\ NewestFirst(redis') /\ \A k : Misses(redis, k) => Misses(redis', k)
      BY <1>3, <3>1, LastNShift, LastNOrder, EngineAssumption
    <3>3. NewestFirst(redis)' /\ OldestFirst(memory)'
      BY <1>3, <1>6, <3>1, <3>2 DEF NewestFirst, OldestFirst
    <3> QED
      BY <1>1, <1>3, <1>6, <2>1, <3>1, <3>2, <3>3 DEF Others
  <2>5. CASE StoreInMemory(c)
    <3> DEFINE m == call[c].of
    <3>1. /\ memory' = LastN(Append(memory, m), Limit) /\ redis' = redis
          /\ m \in 1..sent /\ Misses(memory, m) /\ Goto(c, "log") /\ call[c].at \in Adding
      BY <1>3, <1>4, <2>5 DEF StoreInMemory
    <3>2. \A k \in 1..sent : m \notin before[k]
      BY <1>4, <3>1, EngineAssumption DEF Past, Carried, DataTyped
    <3>3. OldestFirst(Append(memory, m)) /\ Append(memory, m) \in Seq(1..sent)
          /\ \A k : Misses(memory, k) /\ k # m => Misses(Append(memory, m), k)
      BY <1>3, <3>1, <3>2, AppendOrder, Appended
    <3>4. memory' \in Seq(1..sent) /\ OldestFirst(memory') /\ \A k : Misses(memory, k) /\ k # m => Misses(memory', k)
      BY <3>1, <3>3, LastNShift, LastNOrder, EngineAssumption
    <3>5. \A d \in Callers \ {c} : call[d].at \in Adding => call[d].of # m
      BY <1>4, <3>1 DEF Carried, CallsTyped
    <3>6. NewestFirst(redis)' /\ OldestFirst(memory)'
      BY <1>3, <1>6, <3>1, <3>4 DEF NewestFirst, OldestFirst
    <3>7. call'[c].at = "log"
      BY <1>4, <3>1, GotoMoves DEF Positions
    <3> QED
      BY <1>1, <1>3, <1>6, <3>1, <3>4, <3>5, <3>6, <3>7 DEF Others
  <2> QED
    BY <1>2, <2>2, <2>3, <2>4, <2>5
<1> QED
  BY <1>1, <1>5, <1>6 DEF Moves

-----------------------------------------------------------------------------
(* What the lists hold, and how long they are *)

LEMMA PrependedElements ==
    ASSUME NEW S, NEW s \in Seq(S), NEW m \in S
    PROVE  Elements(<<m>> \o s) = Elements(s) \cup {m}
<1> DEFINE t == <<m>> \o s
<1>1. Len(t) = Len(s) + 1 /\ t[1] = m /\ Len(s) \in Nat
      /\ \A i \in 2..(Len(s) + 1) : i - 1 \in 1..Len(s) /\ t[i] = s[i - 1]
  BY Prepended
<1> HIDE DEF t
<1>2. ASSUME NEW x \in Elements(t)
      PROVE  x \in Elements(s) \cup {m}
  <2>1. PICK i \in 1..(Len(s) + 1) : x = t[i]
    BY <1>1 DEF Elements
  <2>2. i = 1 \/ i \in 2..(Len(s) + 1)
    BY <1>1
  <2> QED
    BY <1>1, <2>1, <2>2 DEF Elements
<1>3. ASSUME NEW k \in 1..Len(s)
      PROVE  s[k] \in Elements(t)
  <2>1. k + 1 \in 2..(Len(s) + 1) /\ (k + 1) - 1 = k /\ k + 1 \in 1..Len(t)
    BY <1>1
  <2>2. t[k + 1] = s[k]
    BY <1>1, <2>1
  <2> QED
    BY <2>1, <2>2 DEF Elements
<1>4. m \in Elements(t)
  BY <1>1 DEF Elements
<1>5. Elements(t) = Elements(s) \cup {m}
  BY <1>2, <1>3, <1>4 DEF Elements
<1> QED
  BY <1>5 DEF t

LEMMA AppendedElements ==
    ASSUME NEW S, NEW s \in Seq(S), NEW m \in S
    PROVE  Elements(Append(s, m)) = Elements(s) \cup {m}
<1> DEFINE t == Append(s, m)
<1>1. Len(t) = Len(s) + 1 /\ t[Len(s) + 1] = m /\ Len(s) \in Nat /\ \A i \in 1..Len(s) : t[i] = s[i]
  BY Appended
<1> HIDE DEF t
<1>2. Elements(t) = Elements(s) \cup {m}
  BY <1>1 DEF Elements
<1> QED
  BY <1>2 DEF t

(* An intact list holds no more messages than were sent.                     *)
LEMMA ListsBounded ==
    ASSUME Ordered, intact, sent \in Nat
    PROVE  Len(redis) <= sent /\ Len(memory) <= sent
<1>1. ASSUME NEW s \in Seq(1..sent), NewestFirst(s) \/ OldestFirst(s)
      PROVE  Len(s) <= sent
  <2>1. \A i, j \in 1..Len(s) : i # j => i < j \/ j < i
    BY ElementIn
  <2>2. \A i, j \in 1..Len(s) : i # j => s[i] # s[j]
    BY <1>1, <2>1 DEF NewestFirst, OldestFirst
  <2> QED
    BY <2>2, InjectiveBounded
<1> QED
  BY <1>1, OrderedParts

LEMMA StoredInductive ==
    ASSUME DataTyped, CallsTyped, Carried, Past, Rewriting, Ordered, Stored, NEW c \in Callers, Step(c)
    PROVE  Stored'
<1> USE DEF Adding, Recording
<1> SUFFICES ASSUME intact', sent' <= Limit
             PROVE  /\ done' \subseteq Elements(redis') \cup Elements(memory')
                    /\ \A d \in Callers : (call'[d].of # 0 /\ call'[d].at # "push") =>
                        call'[d].of \in Elements(redis') \cup Elements(memory')
  BY DEF Stored, Elements
<1>1. DataTyped' /\ CallsTyped' /\ Moves(c) /\ Others(c) /\ Ordered'
  BY StepMoves, OrderedInductive DEF Moves
<1>2. intact /\ ((redis' = redis /\ memory' = memory) \/ Push(c) \/ Trim(c) \/ StoreInMemory(c))
  BY ListsMove DEF DataTyped
<1>3. sent \in Nat /\ sent <= Limit /\ sent <= sent' /\ sent' \in Nat
  <2>1. sent' = sent \/ sent' = sent + 1
    BY <1>1 DEF Moves, BeginAdd
  <2> QED
    BY <2>1, EngineAssumption DEF DataTyped
<1>4. redis \in Seq(1..sent) /\ memory \in Seq(1..sent) /\ Len(redis) <= Limit /\ Len(memory) <= Limit
  BY <1>2, <1>3, OrderedParts, ListsBounded, ElementIn, EngineAssumption
<1>5. call[c].at \in Adding => call[c].of \in 1..sent /\ call[c].of # 0
  BY DEF CallsTyped, Carried
<1>6. /\ Elements(redis) \subseteq Elements(redis') /\ Elements(memory) \subseteq Elements(memory')
      /\ Push(c) \/ StoreInMemory(c) => call[c].of \in Elements(redis') \cup Elements(memory')
  <2>1. CASE redis' = redis /\ memory' = memory /\ ~Push(c) /\ ~StoreInMemory(c)
    BY <2>1
  <2>2. CASE Push(c)
    <3>1. redis' = <<call[c].of>> \o redis /\ memory' = memory /\ call[c].at = "push"
      BY <2>2 DEF Push
    <3>2. Elements(<<call[c].of>> \o redis) = Elements(redis) \cup {call[c].of}
      <4> DEFINE m == call[c].of
      <4>1. m \in 1..sent
        BY <1>5, <3>1
      <4> HIDE DEF m
      <4>2. Elements(<<m>> \o redis) = Elements(redis) \cup {m}
        BY <1>3, <1>4, <4>1, PrependedElements
      <4> QED
        BY <4>2 DEF m
    <3> QED
      BY <3>1, <3>2
  <2>3. CASE Trim(c)
    <3>1. redis' = redis /\ memory' = memory /\ call[c].at = "trim"
      BY <1>4, <2>3 DEF Trim, LastN
    <3>2. Goto(c, "expire") /\ ~Push(c)
      BY <2>3, <3>1 DEF Trim, Push
    <3>3. ~Goto(c, "log")
      BY <3>1, <3>2, <1>5, GotoMoves DEF Positions
    <3> QED
      BY <3>1, <3>2, <3>3 DEF StoreInMemory
  <2>4. CASE StoreInMemory(c)
    <3> DEFINE t == Append(memory, call[c].of)
    <3>1. memory' = LastN(t, Limit) /\ redis' = redis /\ call[c].at \in Adding
      BY <2>4 DEF StoreInMemory
    <3>2. t \in Seq(1..sent) /\ Elements(t) = Elements(memory) \cup {call[c].of}
      <4>1. call[c].of \in 1..sent
        BY <1>5, <3>1
      <4> HIDE DEF t
      <4>2. t \in Seq(1..sent)
        BY <1>4, <4>1, Appended DEF t
      <4>3. Elements(t) = Elements(memory) \cup {call[c].of}
        BY <1>3, <1>4, <4>1, AppendedElements DEF t
      <4> QED
        BY <4>2, <4>3
    <3>3. Len(t) <= Limit
      <4>1. OldestFirst(t)
        <5>1. /\ OldestFirst(memory) /\ Misses(memory, call[c].of) /\ call[c].of \in 1..sent
          BY <1>2, <1>5, <2>4, <3>1, OrderedParts DEF StoreInMemory
        <5>2. \A k \in 1..sent : call[c].of \notin before[k]
          BY <1>5, <3>1, EngineAssumption DEF Past, Carried, DataTyped
        <5> QED
          BY <1>4, <5>1, <5>2, AppendOrder
      <4>2. \A i, j \in 1..Len(t) : i # j => i < j \/ j < i
        BY <3>2, ElementIn
      <4>3. \A i, j \in 1..Len(t) : i # j => t[i] # t[j]
        BY <4>1, <4>2 DEF OldestFirst
      <4>4. Len(t) <= sent
        BY <1>3, <3>2, <4>3, InjectiveBounded
      <4>5. Len(t) \in Nat
        BY <3>2, ElementIn
      <4> HIDE DEF t
      <4> QED
        BY <1>3, <4>4, <4>5, EngineAssumption
    <3>4. memory' = t
      BY <3>1, <3>3 DEF LastN
    <3> QED
      BY <3>1, <3>2, <3>4
  <2> QED
    BY <1>2, <2>1, <2>2, <2>3, <2>4
<1>7. /\ done \subseteq Elements(redis) \cup Elements(memory)
      /\ \A d \in Callers : (call[d].of # 0 /\ call[d].at # "push") =>
            call[d].of \in Elements(redis) \cup Elements(memory)
  BY <1>2, <1>3 DEF Stored
<1>8. CASE BeginAdd(c)
  <2>1. call'[c].at = "push" /\ done' = done
    BY <1>8 DEF BeginAdd, CallsTyped, CallOf
  <2> QED
    BY <1>1, <1>6, <1>7, <2>1 DEF Others
<1>9. CASE Advances(c)
  BY <1>1, <1>6, <1>7, <1>9 DEF Others, Advances
<1>10. CASE Finishes(c)
  BY <1>1, <1>6, <1>7, <1>10 DEF Others, Finishes
<1> QED
  BY <1>1, <1>8, <1>9, <1>10 DEF Moves

Trimming == {c \in Callers : call[c].at = "trim"}

LEMMA BoundedInductive ==
    ASSUME DataTyped, CallsTyped, Carried, Past, Rewriting, Ordered, HistoryBounded, NEW c \in Callers, Step(c)
    PROVE  HistoryBounded'
<1> USE DEF Adding, Recording
<1> SUFFICES ASSUME intact'
             PROVE  Len(redis') <= Limit + outages' + Cardinality(Trimming')
  BY DEF HistoryBounded, Trimming
<1>1. DataTyped' /\ CallsTyped' /\ Moves(c) /\ Others(c)
  BY StepMoves DEF Moves
<1>2. intact /\ ((redis' = redis /\ memory' = memory) \/ Push(c) \/ Trim(c) \/ StoreInMemory(c))
  BY ListsMove DEF DataTyped
<1>3. /\ Len(redis) <= Limit + outages + Cardinality(Trimming)
      /\ IsFiniteSet(Trimming) /\ Cardinality(Trimming) \in Nat
      /\ IsFiniteSet(Trimming') /\ Cardinality(Trimming') \in Nat
  <2>1. Trimming \subseteq Callers /\ Trimming' \subseteq Callers /\ IsFiniteSet(Callers)
    BY EngineAssumption DEF Trimming
  <2> QED
    BY <1>2, <2>1, FS_Subset, FS_CardinalityType DEF HistoryBounded, Trimming
<1>4. outages \in Nat /\ outages' \in Nat /\ Limit \in Nat /\ Len(redis) \in Nat
  BY <1>1, EngineAssumption, ElementIn DEF DataTyped
<1>5. outages <= outages'
  <2>1. UNCHANGED outages \/ outages' = outages + 1
    BY DEF Step, BeginAdd, Push, Trim, Expire, StoreInMemory, Log, BeginCreate, BeginEnd, Look, Write, Renew,
       BeginCleanup, Purge, Wipe, BeginCompress, Read, Model, Delete, Refill, KeepInMemory, Answers, Fails, Local
  <2> QED
    BY <1>4, <2>1
<1>6. CASE Push(c)
  <2>1. call[c].at = "push" /\ redis' = <<call[c].of>> \o redis /\ Goto(c, "trim") /\ call[c].of \in Entries
    BY <1>6, EngineAssumption DEF Push, CallsTyped, CallType
  <2>2. call'[c].at = "trim"
    BY <2>1, GotoMoves DEF Positions, CallsTyped
  <2>3. c \notin Trimming /\ Trimming' = Trimming \cup {c}
    BY <1>1, <2>1, <2>2 DEF Trimming, Others
  <2>4. Cardinality(Trimming') = Cardinality(Trimming) + 1
    BY <1>3, <2>3, FS_AddElement
  <2>5. Len(redis') = Len(redis) + 1
    BY <2>1, Prepended DEF DataTyped
  <2> QED
    BY <1>3, <1>4, <1>5, <2>4, <2>5
<1>7. CASE Trim(c)
  <2>1. Len(redis') <= Limit /\ Len(redis') \in Nat
    BY <1>4, <1>7, LastNShift, ElementIn DEF Trim, DataTyped
  <2> QED
    BY <1>3, <1>4, <2>1
<1>8. CASE StoreInMemory(c) /\ call[c].at = "trim"
  <2>1. redis' = redis /\ outages' = outages + 1 /\ Goto(c, "log")
    BY <1>8 DEF StoreInMemory, Fails
  <2>2. call'[c].at = "log"
    BY <1>8, <2>1, GotoMoves DEF Positions, CallsTyped
  <2>3. c \in Trimming /\ Trimming' = Trimming \ {c}
    BY <1>1, <1>8, <2>2 DEF Trimming, Others
  <2>4. Cardinality(Trimming') = Cardinality(Trimming) - 1
    BY <1>3, <2>3, FS_RemoveElement
  <2> QED
    BY <1>3, <1>4, <2>1, <2>4
<1>9. CASE redis' = redis /\ ~Push(c) /\ ~Trim(c) /\ ~(StoreInMemory(c) /\ call[c].at = "trim")
  <2>1. call[c].at = "trim" <=> call'[c].at = "trim"
    <3>1. CASE BeginAdd(c)
      BY <3>1 DEF BeginAdd, CallsTyped, CallOf
    <3>2. CASE Advances(c)
      BY <1>9, <3>2 DEF Advances, CallsTyped
    <3>3. CASE Finishes(c)
      BY <3>3 DEF Finishes, CallsTyped
    <3> QED
      BY <1>1, <3>1, <3>2, <3>3 DEF Moves
  <2>2. Trimming' = Trimming
    BY <1>1, <2>1 DEF Trimming, Others
  <2> QED
    BY <1>3, <1>4, <1>5, <1>9, <2>2
<1>10. StoreInMemory(c) => redis' = redis
  BY DEF StoreInMemory
<1> QED
  BY <1>2, <1>6, <1>7, <1>8, <1>9, <1>10

LEMMA ShadowInductive ==
    ASSUME DataTyped, CallsTyped, NoShadow, NEW c \in Callers, Step(c)
    PROVE  NoShadow'
<1> SUFFICES ASSUME usesRedis', outages' = 0
             PROVE  memory' = <<>> /\ record'.memory = "none"
  BY DEF NoShadow
<1>1. usesRedis' = usesRedis /\ (outages' = outages \/ outages' = outages + 1) /\ outages \in Nat
  <2>1. outages \in Nat
    BY EngineAssumption DEF DataTyped
  <2> QED
    BY <2>1 DEF Step, BeginAdd, Push, Trim, Expire, StoreInMemory, Log, BeginCreate, BeginEnd, Look, Write, Renew,
       BeginCleanup, Purge, Wipe, BeginCompress, Read, Model, Delete, Refill, KeepInMemory, Answers, Fails, Local
<1>2. usesRedis /\ ~Local /\ ~Fails /\ memory = <<>> /\ record.memory = "none"
  <2>1. outages = 0 /\ ~Fails
    <3>1. outages = 0 /\ outages' # outages + 1
      BY <1>1
    <3> QED
      BY <3>1, Zenon DEF Fails
  <2>2. usesRedis
    BY <1>1, Zenon
  <2> QED
    BY <2>1, <2>2, Zenon DEF NoShadow, Local
<1>3. record \in [{"redis", "memory"} -> Statuses]
  BY DEF DataTyped
<1>4. CASE BeginAdd(c) \/ Push(c) \/ Trim(c) \/ Expire(c) \/ StoreInMemory(c) \/ Log(c)
  BY <1>2, <1>4 DEF BeginAdd, Push, Trim, Expire, StoreInMemory, Log
<1>5. CASE BeginCreate(c) \/ BeginEnd(c) \/ BeginCompress(c) \/ BeginCleanup(c)
  BY <1>2, <1>5 DEF BeginCreate, BeginEnd, BeginCompress, BeginCleanup
<1>6. CASE Look(c) \/ Write(c) \/ Renew(c)
  BY <1>2, <1>3, <1>6 DEF Look, Write, Renew
<1>7. CASE Purge(c) \/ Wipe(c)
  BY <1>2, <1>3, <1>7 DEF Purge, Wipe
<1>8. CASE Read(c)
  <2>1. ASSUME NEW page, Compress(c, page)
        PROVE  memory' = memory
    BY <1>2, <2>1 DEF Compress, Replace, Carry
  <2> QED
    BY <1>2, <1>8, <2>1 DEF Read
<1>9. CASE Model(c)
  <2>1. ASSUME NEW kept, Replace(c, kept)
        PROVE  memory' = memory
    BY <1>2, <2>1 DEF Replace, Carry
  <2> QED
    BY <1>2, <1>9, <2>1 DEF Model
<1>10. CASE Delete(c) \/ Refill(c)
  BY <1>2, <1>10 DEF Delete, Refill, KeepInMemory
<1> QED
  BY <1>4, <1>5, <1>6, <1>7, <1>8, <1>9, <1>10 DEF Step

-----------------------------------------------------------------------------
(* Theorems *)

(* The engine starts with empty stores, no record and nobody calling. *)
LEMMA Initially == Init => IInv
<1> SUFFICES ASSUME Init
             PROVE  IInv
  OBVIOUS
<1> USE EngineAssumption
<1>1. \A c \in Callers : call[c].at = "idle" /\ call[c].of = 0
  BY DEF Init, Idle, CallOf
<1>2. CallsTyped
  BY DEF Init, Idle, CallOf, CallsTyped, CallType, Positions, Adding
<1>3. DataTyped
  BY DEF Init, DataTyped
<1>4. Carried /\ LogRight /\ Past /\ Rewriting
  BY <1>1 DEF Init, Carried, LogRight, LoggedOnce, Past, Rewriting
<1>5. Ordered /\ Stored
  BY <1>1 DEF Init, Ordered, Stored
<1>6. HistoryBounded
  <2>1. {c \in Callers : call[c].at = "trim"} = {}
    BY <1>1
  <2>2. Cardinality({c \in Callers : call[c].at = "trim"}) = 0
    BY <2>1, FS_EmptySet
  <2>3. Len(redis) = 0 /\ outages = 0 /\ Limit \in Nat
    BY DEF Init
  <2> QED
    BY <2>2, <2>3 DEF HistoryBounded
<1>7. NoShadow
  BY DEF Init, NoShadow
<1> QED
  BY <1>2, <1>3, <1>4, <1>5, <1>6, <1>7, TypeParts DEF IInv

LEMMA InvariantInductive == IInv /\ [Next]_vars => IInv'
<1> SUFFICES ASSUME IInv, [Next]_vars
             PROVE  IInv'
  OBVIOUS
<1>1. DataTyped /\ CallsTyped
  BY TypeParts DEF IInv
<1>2. CASE Next
  <2> PICK c \in Callers : Step(c)
    BY <1>2 DEF Next
  <2>1. TypeOK'
    BY <1>1, StepMoves, TypePartsPrimed DEF IInv
  <2>2. Carried' /\ LogRight' /\ Past' /\ Rewriting'
    BY <1>1, CarriedInductive, LogInductive, PastInductive, RewritingInductive DEF IInv
  <2>3. Ordered' /\ Stored'
    BY <1>1, OrderedInductive, StoredInductive DEF IInv
  <2>4. HistoryBounded' /\ NoShadow'
    BY <1>1, BoundedInductive, ShadowInductive DEF IInv
  <2> QED
    BY <2>1, <2>2, <2>3, <2>4 DEF IInv
<1>3. CASE UNCHANGED vars
  <2> USE <1>3 DEF vars
  <2>1. TypeOK'
    BY DEF IInv, TypeOK
  <2>2. Carried' /\ Past' /\ Rewriting'
    BY DEF IInv, Carried, Past, Rewriting
  <2>3. LogRight'
    BY DEF IInv, LogRight, LoggedOnce
  <2>4. Ordered'
    BY DEF IInv, Ordered
  <2>5. Stored'
    BY DEF IInv, Stored, Elements
  <2>6. HistoryBounded' /\ NoShadow'
    BY DEF IInv, HistoryBounded, NoShadow
  <2> QED
    BY <2>1, <2>2, <2>3, <2>4, <2>5, <2>6 DEF IInv
<1> QED
  BY <1>2, <1>3

(* Every reachable state of the engine satisfies the inductive invariant:    *)
(* what each add has done so far, in the log and in the lists, fits where it *)
(* stands.                                                                   *)
THEOREM Invariance == Spec => []IInv
BY Initially, InvariantInductive, PTL DEF Spec

(* The stores, the record and the calls have their types. *)
THEOREM TypeCorrect == Spec => []TypeOK
<1>1. IInv => TypeOK
  BY DEF IInv
<1> QED
  BY <1>1, Invariance, PTL

(* A returned add is in the permanent log once, unless the backend refused.  *)
THEOREM AppendedOnce == Spec => []LoggedOnce
<1>1. IInv => LoggedOnce
  BY DEF IInv, LogRight
<1> QED
  BY <1>1, Invariance, PTL

(* get_conversation_history shows messages in the order of their adds, in    *)
(* either store, until a history is replaced.                                *)
THEOREM ShownInOrder == Spec => []InOrder
<1>1. IInv => InOrder
  <2> SUFFICES ASSUME IInv, intact, NEW list \in {Reversed(redis), memory},
                      NEW i \in 1..Len(list), NEW j \in 1..Len(list), i < j
               PROVE  list[j] \notin before[list[i]]
    BY DEF InOrder
  <2>1. redis \in Seq(1..sent) /\ NewestFirst(redis) /\ OldestFirst(memory)
    BY OrderedParts DEF IInv
  <2>2. CASE list = memory
    BY <2>1, <2>2 DEF OldestFirst
  <2>3. CASE list = Reversed(redis)
    <3>1. Len(redis) \in Nat /\ Len(list) = Len(redis)
      BY <2>1, <2>3, ElementIn DEF Reversed
    <3>2. /\ list[i] = redis[Len(redis) + 1 - i] /\ list[j] = redis[Len(redis) + 1 - j]
          /\ Len(redis) + 1 - i \in 1..Len(redis) /\ Len(redis) + 1 - j \in 1..Len(redis)
          /\ Len(redis) + 1 - j < Len(redis) + 1 - i
      BY <2>3, <3>1 DEF Reversed
    <3> QED
      BY <2>1, <3>2 DEF NewestFirst
  <2> QED
    BY <2>2, <2>3
<1> QED
  BY <1>1, Invariance, PTL

(* No returned add is lost while the history is intact and within its limit. *)
THEOREM KeptSomewhere == Spec => []NothingLost
<1>1. IInv => NothingLost
  BY DEF IInv, Stored, NothingLost
<1> QED
  BY <1>1, Invariance, PTL

(* The list in Redis is bounded by the limit, the adds between push and trim *)
(* and the outages.                                                          *)
THEOREM ListBounded == Spec => []HistoryBounded
<1>1. IInv => HistoryBounded
  BY DEF IInv
<1> QED
  BY <1>1, Invariance, PTL

(* The fallback is empty as long as Redis answers.                           *)
THEOREM NothingInMemory == Spec => []NoShadow
<1>1. IInv => NoShadow
  BY DEF IInv
<1> QED
  BY <1>1, Invariance, PTL
=============================================================================
