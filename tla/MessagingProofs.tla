-------------------------- MODULE MessagingProofs --------------------------
(***************************************************************************)
(* Proofs about the two models of infrastructure/messaging.                *)
(*                                                                         *)
(* Confirmation, for any calls and clients and with either version of      *)
(* wait_for: callbacks are registered while they are wanted, and a call    *)
(* returns the answer accepted for it, but for the one case in which the   *)
(* wait_for of Python 3.12 loses it.                                       *)
(*                                                                         *)
(* DslRun, for any programs: what a run reports is what has happened       *)
(* outside of its loops, and exceptions stay in the ifs around them.       *)
(***************************************************************************)
EXTENDS DslRun, Confirmation, SequenceTheorems, TLAPS

-----------------------------------------------------------------------------
(* Confirmations *)


(* What was accepted of a call is what its future has.                       *)
Recorded ==
    \A c \in Calls :
        /\ future[c] \in Answers => accepted[c] = future[c] /\ c \notin registry
        /\ future[c] \notin Answers => accepted[c] = "none"

(* Until its deadline nobody cancels a future, and its callback is there     *)
(* until an answer is; that of 3.11 keeps it so until the call runs on.      *)
Wanted ==
    \A c \in Calls :
        /\ pc[c] = "begin" => future[c] = "pending"
        /\ pc[c] \in {"sending", "waiting"} \/ (pc[c] = "expired" /\ waitFor = "3.11")
             => future[c] # "cancelled" /\ (future[c] = "pending" => c \in registry)
        /\ pc[c] \in {"begin", "done"} => c \notin registry

(* An answer in the future of a call that runs on after its deadline was     *)
(* there when the timer fired, if wait_for cancels the future then; and only *)
(* a call that has met its deadline was beaten to its answer.                *)
Beaten ==
    \A c \in Calls :
        /\ pc[c] = "expired" /\ waitFor = "3.12" => (c \in beaten <=> future[c] \in Answers)
        /\ pc[c] = "expired" => future[c] # "pending" \/ waitFor = "3.11"
        /\ pc[c] \in {"begin", "sending", "waiting"} => c \notin beaten

IInv == TypeOK /\ Recorded /\ Wanted /\ Beaten /\ AnswerKept

LEMMA InitInv == Init => IInv
<1> SUFFICES ASSUME Init PROVE IInv
    OBVIOUS
<1> USE DEF Init
<1>1. TypeOK BY DEF TypeOK, Futures
<1>2. Recorded BY DEF Recorded, Answers
<1>3. Wanted BY DEF Wanted
<1>4. AnswerKept BY DEF AnswerKept
<1>5. Beaten BY DEF Beaten
<1>6. QED BY <1>1, <1>2, <1>3, <1>4, <1>5 DEF IInv

-----------------------------------------------------------------------------
(* Each action keeps the invariant.                                          *)

(* A call that begins has a future that nobody has touched.                  *)
LEMMA NotifyInv == ASSUME IInv, NEW c \in Calls, Notify(c) PROVE IInv'
<1> USE DEF IInv, Notify, serverVars
<1>1. TypeOK' BY DEF TypeOK
<1>2. Recorded' BY DEF TypeOK, Recorded, Wanted, Answers
<1>3. Wanted' BY DEF TypeOK, Wanted
<1>4. AnswerKept' BY DEF TypeOK, AnswerKept
<1>5. Beaten' BY DEF TypeOK, Beaten, Answers, Futures
<1>6. QED BY <1>1, <1>2, <1>3, <1>4, <1>5

(* A broadcast that goes on changes nothing that the calls wait for.         *)
LEMMA SendEndsInv == ASSUME IInv, NEW c \in Calls, NEW u \in Clients, SendEnds(c, u) PROVE IInv'
<1> USE DEF IInv, SendEnds, serverVars
<1>1. TypeOK' BY DEF TypeOK
<1>2. QED BY <1>1 DEF Recorded, Wanted, Beaten, AnswerKept

LEMMA WaitInv == ASSUME IInv, NEW c \in Calls, Wait(c) PROVE IInv'
<1> USE DEF IInv, Wait, serverVars
<1>1. TypeOK' BY DEF TypeOK
<1>2. Recorded' BY DEF Recorded
<1>3. Wanted' BY DEF TypeOK, Wanted
<1>4. AnswerKept' BY DEF TypeOK, AnswerKept
<1>5. Beaten' BY DEF TypeOK, Beaten, Answers, Futures
<1>6. QED BY <1>1, <1>2, <1>3, <1>4, <1>5

(* The answer a call takes is the one recorded.                              *)
LEMMA AnsweredInv == ASSUME IInv, NEW c \in Calls, Answered(c) PROVE IInv'
<1> USE DEF IInv, Answered, Return, serverVars
<1>1. TypeOK' BY DEF TypeOK, Answers
<1>2. Recorded' BY DEF Recorded
<1>3. Wanted' BY DEF TypeOK, Wanted, Recorded
<1>4. AnswerKept' BY DEF TypeOK, AnswerKept, Beaten, Recorded, Answers
<1>5. Beaten' BY DEF TypeOK, Beaten, Answers, Futures
<1>6. QED BY <1>1, <1>2, <1>3, <1>4, <1>5

LEMMA DeadlineInv == ASSUME IInv, NEW c \in Calls, Deadline(c) PROVE IInv'
<1> USE DEF IInv, Deadline, serverVars
<1>1. TypeOK' BY DEF TypeOK, Futures
<1>2. Recorded' BY DEF TypeOK, Recorded, Answers
<1>3. Wanted' BY DEF TypeOK, Wanted
<1>4. AnswerKept' BY DEF TypeOK, AnswerKept, Beaten
<1>5. Beaten' BY DEF TypeOK, Beaten, Answers, Futures
<1>6. QED BY <1>1, <1>2, <1>3, <1>4, <1>5

(* A call that runs on after its deadline takes an answer that came in       *)
(* between; otherwise it leaves neither callback nor pending future behind.  *)
LEMMA ExpireInv == ASSUME IInv, NEW c \in Calls, Expire(c) PROVE IInv'
<1> USE DEF IInv, Expire, Return, serverVars
<1>1. TypeOK' BY DEF TypeOK, Futures, Answers
<1>2. Recorded' BY DEF TypeOK, Recorded, Answers
<1>3. Wanted' BY DEF TypeOK, Wanted, Recorded
<1>4. AnswerKept' BY DEF TypeOK, AnswerKept, Beaten, Recorded, Answers
<1>5. Beaten' BY DEF TypeOK, Beaten, Answers, Futures
<1>6. QED BY <1>1, <1>2, <1>3, <1>4, <1>5

LEMMA GiveUpInv == ASSUME IInv, NEW c \in Calls, GiveUp(c) PROVE IInv'
<1> USE DEF IInv, GiveUp, Return, serverVars
<1>1. TypeOK' BY DEF TypeOK, Futures, Answers
<1>2. Recorded' BY DEF TypeOK, Recorded, Answers
<1>3. Wanted' BY DEF TypeOK, Wanted, Recorded
<1>4. AnswerKept' BY DEF TypeOK, AnswerKept, Beaten, Recorded, Answers
<1>5. Beaten' BY DEF TypeOK, Beaten, Answers, Futures
<1>6. QED BY <1>1, <1>2, <1>3, <1>4, <1>5

(* Only a call whose callback is registered is answered, so none that has    *)
(* returned.                                                                 *)
LEMMA ConfirmInv ==
    ASSUME IInv, NEW u \in Clients, NEW c \in Calls, NEW answer \in Answers, Confirm(u, c, answer)
    PROVE  IInv'
<1> USE DEF IInv, Confirm, serverVars
<1>1. TypeOK' BY DEF TypeOK, Futures, Answers
<1>2. Recorded' BY DEF TypeOK, Recorded, Answers
<1>3. Wanted' BY DEF TypeOK, Wanted, Answers
<1>4. AnswerKept' BY DEF TypeOK, AnswerKept, Wanted
<1>5. Beaten' BY DEF TypeOK, Beaten, Answers, Futures
<1>6. QED BY <1>1, <1>2, <1>3, <1>4, <1>5

(* Connections and the server are apart from the calls.                      *)
LEMMA SurroundingsInv ==
    ASSUME IInv,
           \/ \E u \in Clients : Connect(u) \/ Disconnect(u)
           \/ Start \/ StartEnds \/ Stop \/ StopEnds
    PROVE  IInv'
<1> USE DEF IInv, Connect, Disconnect, Start, StartEnds, Stop, StopEnds, serverVars, callVars
<1>1. TypeOK' BY DEF TypeOK
<1>2. UNCHANGED <<registry, future, pc, ret, accepted>> OBVIOUS
<1>3. QED BY <1>1, <1>2 DEF Recorded, Wanted, Beaten, AnswerKept

LEMMA StepInv == IInv /\ [Next]_vars => IInv'
<1> SUFFICES ASSUME IInv, [Next]_vars PROVE IInv'
    OBVIOUS
<1>1. CASE UNCHANGED vars
    BY <1>1 DEF vars, IInv, TypeOK, Recorded, Wanted, Beaten, AnswerKept
<1>2. CASE \E c \in Calls : Notify(c) \/ Progress(c) \/ GiveUp(c)
    BY <1>2, NotifyInv, SendEndsInv, WaitInv, AnsweredInv, DeadlineInv, ExpireInv, GiveUpInv DEF Progress
<1>3. CASE \E u \in Clients, c \in Calls, answer \in Answers : Confirm(u, c, answer)
    BY <1>3, ConfirmInv
<1>4. CASE \/ \E u \in Clients : Connect(u) \/ Disconnect(u)
           \/ Start \/ StartEnds \/ Stop \/ StopEnds
    BY <1>4, SurroundingsInv
<1>5. QED BY <1>1, <1>2, <1>3, <1>4 DEF Next

-----------------------------------------------------------------------------

(* The invariant holds of every behaviour of the manager.                    *)
THEOREM Invariance == Spec => []IInv
BY InitInv, StepInv, PTL DEF Spec

(* The variables keep to their types.                                        *)
THEOREM TypeCorrect == Spec => []TypeOK
<1>1. IInv => TypeOK BY DEF IInv
<1>2. QED BY <1>1, Invariance, PTL

(* notify_user's callbacks are registered while they are wanted, and a call  *)
(* that has returned has left none behind, with either version of wait_for.  *)
THEOREM CallbacksRegistered == Spec => []Registered
<1>1. IInv => Registered BY DEF IInv, Recorded, Wanted, Registered, TypeOK, Futures
<1>2. QED BY <1>1, Invariance, PTL

(* notify_user returns the first answer that was accepted, and the default   *)
(* only if there was none, or if the wait_for of Python 3.12 had its timer   *)
(* fire before the call took the answer.                                     *)
THEOREM AnswersKept == Spec => []AnswerKept
<1>1. IInv => AnswerKept BY DEF IInv
<1>2. QED BY <1>1, Invariance, PTL

-----------------------------------------------------------------------------
(* Programs over Celery: stacks of steps *)

Frame == [step : DOMAIN program, rest : Seq(DOMAIN program), told : Seq(BOOLEAN),
          round : Nat, hurt : BOOLEAN]
StepResults == [completed : BOOLEAN, holds : {"nothing", "list", "yes", "no"}]

Kind(f) == program[f.step].kind

\* No loop, and an if, among these steps.
Clear(s) == \A j \in DOMAIN s : Kind(s[j]) # "loop"
HasIf(s) == \E j \in DOMAIN s : Kind(s[j]) = "if"

\* A step that is in no loop has been told of a failure.
Saw(s) == \E i \in DOMAIN s : (\A j \in 1..i : Kind(s[j]) # "loop") /\ ~All(s[i].told)

LEMMA GrownStack ==
  ASSUME NEW s \in Seq(Frame), NEW f \in Frame
  PROVE  LET t == Append(s, f)
         IN  /\ t \in Seq(Frame) /\ t # <<>> /\ t[Len(t)] = f
             /\ Clear(t) <=> Clear(s) /\ Kind(f) # "loop"
             /\ Saw(t) <=> Saw(s) \/ (Clear(t) /\ ~All(f.told))
             /\ HasIf(t) <=> HasIf(s) \/ Kind(f) = "if"
<1> DEFINE t == Append(s, f)
           n == Len(s)
<1>1. /\ n \in Nat /\ DOMAIN s = 1..n
      /\ t \in Seq(Frame) /\ Len(t) = n + 1 /\ DOMAIN t = 1..(n + 1)
      /\ t[n + 1] = f /\ \A i \in 1..n : t[i] = s[i]
  OBVIOUS
<1> HIDE DEF t, n
<1>2. /\ n + 1 \in DOMAIN t /\ t # <<>> /\ t[Len(t)] = f
      /\ \A i \in DOMAIN t : i \in DOMAIN s \/ i = n + 1
      /\ \A i \in DOMAIN s : i \in DOMAIN t /\ t[i] = s[i] /\ 1..i \subseteq DOMAIN s
      /\ 1..(n + 1) = DOMAIN t
  BY <1>1
<1>3. Clear(t) <=> Clear(s) /\ Kind(f) # "loop"
  BY <1>1, <1>2 DEF Clear
<1>4. HasIf(t) <=> HasIf(s) \/ Kind(f) = "if"
  BY <1>1, <1>2 DEF HasIf
<1>5. ASSUME NEW i \in DOMAIN s
      PROVE  (\A j \in 1..i : Kind(t[j]) # "loop") <=> (\A j \in 1..i : Kind(s[j]) # "loop")
  BY <1>2
<1>6. Saw(t) <=> Saw(s) \/ (Clear(t) /\ ~All(f.told))
  <2>1. ASSUME Saw(t) PROVE Saw(s) \/ (Clear(t) /\ ~All(f.told))
    <3>1. PICK i \in DOMAIN t : (\A j \in 1..i : Kind(t[j]) # "loop") /\ ~All(t[i].told)
      BY <2>1 DEF Saw
    <3>2. CASE i \in DOMAIN s
      BY <1>2, <1>5, <3>1, <3>2 DEF Saw
    <3>3. CASE i = n + 1
      BY <1>1, <1>2, <3>1, <3>3 DEF Clear
    <3> QED BY <1>2, <3>2, <3>3
  <2>2. ASSUME Saw(s) PROVE Saw(t)
    BY <1>2, <1>5, <2>2 DEF Saw
  <2>3. ASSUME Clear(t), ~All(f.told) PROVE Saw(t)
    BY <1>1, <1>2, <2>3 DEF Saw, Clear
  <2> QED BY <2>1, <2>2, <2>3
<1> QED BY <1>1, <1>2, <1>3, <1>4, <1>6 DEF t

LEMMA StackIs ==
  ASSUME stack \in Seq(Frame), stack # <<>>
  PROVE  Below \in Seq(Frame) /\ Top \in Frame /\ stack = Append(Below, Top)
<1> DEFINE n == Len(stack)
<1>1. n \in Nat \ {0} /\ DOMAIN stack = 1..n /\ \A i \in 1..n : stack[i] \in Frame
  OBVIOUS
<1>2. n \in 1..n /\ Top = stack[n]
  BY <1>1 DEF Top
<1>3. /\ Below \in Seq(Frame) /\ Len(Below) = n - 1
      /\ \A i \in 1..(n - 1) : Below[i] = stack[i]
  <2>1. \A i \in 1..(n - 1) : stack[i] \in Frame
    BY <1>1
  <2>2. 1 \in Int /\ n - 1 \in Int
    BY <1>1
  <2> HIDE DEF n
  <2>3. /\ SubSeq(stack, 1, n - 1) \in Seq(Frame)
        /\ Len(SubSeq(stack, 1, n - 1)) = IF 1 <= n - 1 THEN n - 1 - 1 + 1 ELSE 0
        /\ \A i \in 1..(n - 1 - 1 + 1) : SubSeq(stack, 1, n - 1)[i] = stack[1 + i - 1]
    BY <2>1, <2>2, SubSeqProperties
  <2>4. Below = SubSeq(stack, 1, n - 1)
    BY DEF Below, n
  <2>5. ASSUME NEW i \in 1..(n - 1) PROVE Below[i] = stack[i]
    <3>1. i \in 1..(n - 1 - 1 + 1) /\ 1 + i - 1 = i
      BY <1>1
    <3> QED BY <2>3, <2>4, <3>1
  <2>6. Len(Below) = n - 1
    BY <1>1, <2>3, <2>4
  <2> QED BY <2>3, <2>4, <2>5, <2>6
<1>4. Top \in Frame
  BY <1>1, <1>2
<1> DEFINE t == Append(Below, Top)
<1>5. t \in Seq(Frame) /\ Len(t) = n /\ t[n] = stack[n] /\ \A i \in 1..(n - 1) : t[i] = stack[i]
  <2>1. PICK b, f, m : b = Below /\ f = Top /\ m = n - 1
    OBVIOUS
  <2>2. b \in Seq(Frame) /\ f \in Frame /\ Len(b) = m
    BY <1>3, <1>4, <2>1, Zenon
  <2>5. m \in Nat /\ m + 1 = n
    BY <1>1, <2>1
  <2>3. /\ Append(b, f) \in Seq(Frame) /\ Len(Append(b, f)) = m + 1 /\ Append(b, f)[m + 1] = f
        /\ \A i \in 1..m : Append(b, f)[i] = b[i]
    BY <2>2
  <2>4. t = Append(b, f)
    BY <2>1
  <2> HIDE DEF t, n
  <2> QED BY <1>2, <1>3, <2>1, <2>2, <2>3, <2>4, <2>5
<1> HIDE DEF t, n
<1>6. \A i \in 1..n : t[i] = stack[i]
  BY <1>1, <1>5
<1>7. stack = t
  <2>1. Len(stack) = n
    BY DEF n
  <2> QED BY <1>5, <1>6, <2>1, SeqEqual
<1> QED BY <1>3, <1>4, <1>7 DEF t

\* The top of the stack changes, and stays the same step.
LEMMA TopChanged ==
  ASSUME stack \in Seq(Frame), stack # <<>>, NEW f \in Frame, f.step = Top.step, stack' = Append(Below, f)
  PROVE  /\ stack' \in Seq(Frame) /\ stack' # <<>> /\ Kind(stack'[Len(stack')]) = Kind(stack[Len(stack)])
         /\ Clear(stack') <=> Clear(stack)
         /\ Saw(stack') <=> Saw(Below) \/ (Clear(stack) /\ ~All(f.told))
         /\ Saw(stack) <=> Saw(Below) \/ (Clear(stack) /\ ~All(Top.told))
         /\ HasIf(stack') <=> HasIf(stack)
<1>1. Below \in Seq(Frame) /\ Top \in Frame /\ stack = Append(Below, Top) /\ Top = stack[Len(stack)]
  BY StackIs DEF Top
<1>2. Kind(f) = Kind(Top)
  BY DEF Kind
<1> QED BY <1>1, <1>2, GrownStack

LEMMA TopGone ==
  ASSUME stack \in Seq(Frame), stack # <<>>
  PROVE  /\ Below \in Seq(Frame)
         /\ Clear(stack) <=> Clear(Below) /\ Owner.kind # "loop"
         /\ Saw(stack) <=> Saw(Below) \/ (Clear(stack) /\ ~All(Top.told))
         /\ HasIf(stack) <=> HasIf(Below) \/ Owner.kind = "if"
<1>1. Below \in Seq(Frame) /\ Top \in Frame /\ stack = Append(Below, Top)
  BY StackIs
<1>2. Kind(Top) = Owner.kind
  BY DEF Kind, Owner
<1> QED BY <1>1, <1>2, GrownStack

LEMMA FailIs ==
  ASSUME NEW s \in Seq(Frame), Fail(s)
  PROVE  /\ stack' \in Seq(Frame)
         /\ Clear(stack') <=> Clear(s)
         /\ Saw(stack') <=> Saw(s)
         /\ failed \subseteq {"plain", "inLoop"} => failed' \subseteq {"plain", "inLoop"}
         /\ "plain" \in failed' <=> "plain" \in failed \/ Clear(s)
<1> DEFINE t == [i \in DOMAIN s |-> [s[i] EXCEPT !.hurt = TRUE]]
<1>1. Len(s) \in Nat /\ DOMAIN s = 1..Len(s) /\ \A i \in DOMAIN s : s[i] \in Frame
  OBVIOUS
<1>2. ASSUME NEW i \in DOMAIN s
      PROVE  [s[i] EXCEPT !.hurt = TRUE] \in Frame
  BY <1>1 DEF Frame
<1>3. ASSUME NEW i \in DOMAIN s
      PROVE  t[i] \in Frame /\ t[i].step = s[i].step /\ t[i].told = s[i].told
  <2>1. s[i] \in Frame
    BY <1>1
  <2>2. t[i] = [s[i] EXCEPT !.hurt = TRUE]
    OBVIOUS
  <2> HIDE DEF t
  <2> QED BY <1>2, <2>1, <2>2 DEF Frame
<1>4. DOMAIN t = DOMAIN s /\ t = [i \in DOMAIN s |-> t[i]] /\ stack' = t
  BY DEF Fail
<1> HIDE DEF t
<1>5. t \in Seq(Frame)
  BY <1>1, <1>3, <1>4
<1>6. \A i \in DOMAIN s : Kind(t[i]) = Kind(s[i])
  BY <1>3 DEF Kind
<1>7. Clear(t) <=> Clear(s)
  BY <1>4, <1>6 DEF Clear
<1>8. Saw(t) <=> Saw(s)
  <2>1. \A i \in DOMAIN s : 1..i \subseteq DOMAIN s
    BY <1>1
  <2> QED BY <1>3, <1>4, <1>6, <2>1 DEF Saw
<1>9. "loop" \in {program[s[i].step].kind : i \in DOMAIN s} <=> ~Clear(s)
  BY DEF Clear, Kind
<1>10. failed' = failed \cup {IF Clear(s) THEN "plain" ELSE "inLoop"}
  BY <1>9 DEF Fail
<1> QED BY <1>4, <1>5, <1>7, <1>8, <1>10

LEMMA EmptyStack ==
  /\ <<>> \in Seq(Frame) /\ Clear(<<>>) /\ ~Saw(<<>>) /\ ~HasIf(<<>>)
<1>1. <<>> \in Seq(Frame) /\ DOMAIN <<>> = {}
  OBVIOUS
<1> QED BY <1>1 DEF Clear, Saw, HasIf

-----------------------------------------------------------------------------
(* The inductive invariant of a run *)

DslPhases == {"call", "await", "next", "test", "return", "raise", "returned", "raised"}

\* What the interpreter goes through fits its stack, and while an exception that
\* was raised under an if is on its way up, one is still around it.
Shape(s, ph, v, fs, cs) ==
    /\ s \in Seq(Frame) /\ ph \in DslPhases /\ v \in StepResults
    /\ fs \subseteq {"plain", "inLoop"} /\ cs \subseteq Kinds
    /\ ph \in {"next", "test"} => s # <<>>
    /\ ph = "test" => Kind(s[Len(s)]) = "loop"
    /\ ph \in {"returned", "raised"} => s = <<>>
    /\ ph = "raise" /\ "if" \in cs => HasIf(s)
    /\ ph = "raised" => "if" \notin cs

\* The failure outside of loops is known to a step that is under way, or is what
\* is being handed back; only an exception on its way up can have lost it, since
\* what it leaves is told that it failed, or is the run.
Known(s, ph, v) == Saw(s) \/ (ph \in {"return", "returned"} /\ ~v.completed /\ Clear(s))

Told(s, ph, v, fs) ==
    /\ Known(s, ph, v) => "plain" \in fs
    /\ "plain" \in fs /\ ~(ph \in {"raise", "raised"} /\ Clear(s)) => Known(s, ph, v)

\* The callback reports failures as dicts or exceptions.
Honest == "failedObject" \notin Outcomes

DslInv ==
    /\ program \in Programs /\ given \in [DOMAIN program -> BOOLEAN] /\ at \in DOMAIN program
    /\ results \in Seq(StepResults) /\ overdue \in 0..MaxOverdue
    /\ Shape(stack, phase, value, failed, covers)
    /\ Honest => Told(stack, phase, value, failed)

LEMMA Lift ==
  ASSUME DslInv, program' = program, given' = given, at' \in DOMAIN program,
         results' \in Seq(StepResults), overdue' \in 0..MaxOverdue,
         Shape(stack', phase', value', failed', covers'),
         Honest => Told(stack', phase', value', failed')
  PROVE  DslInv'
<1>1. Shape(stack, phase, value, failed, covers)'
  BY DEF Shape, Frame, Kind, HasIf
<1>2. Honest => Told(stack, phase, value, failed)'
  BY DEF Told, Known, Saw, Clear, Kind
<1> QED BY <1>1, <1>2 DEF DslInv, Honest, StepResults

LEMMA ProgramIs ==
  ASSUME DslInv, NEW n \in DOMAIN program
  PROVE  program[n].kind \in Kinds /\ program[n].steps \in Seq(DOMAIN program) /\ program[n].other \in Seq(DOMAIN program)
BY ProgramAssumption DEF DslInv

-----------------------------------------------------------------------------
(* What a frame becomes *)

LEMMA FrameIs ==
  ASSUME NEW f \in Frame, NEW rest \in Seq(DOMAIN program), NEW told \in Seq(BOOLEAN)
  PROVE  /\ [f EXCEPT !.rest = rest] \in Frame
         /\ [f EXCEPT !.told = told, !.rest = rest] \in Frame
         /\ [f EXCEPT !.round = @ + 1, !.told = told] \in Frame
<1>1. [f EXCEPT !.rest = rest] \in Frame
  BY DEF Frame
<1>2. [f EXCEPT !.told = told, !.rest = rest] \in Frame
  BY DEF Frame
<1>3. [f EXCEPT !.round = @ + 1, !.told = told] \in Frame
  <2>1. PICK n \in Nat : n = f.round + 1
    BY DEF Frame
  <2>2. [f EXCEPT !.round = n, !.told = told] \in Frame
    BY DEF Frame
  <2> QED BY <2>1, <2>2
<1> QED BY <1>1, <1>2, <1>3

LEMMA EmptyTold == <<>> \in Seq(BOOLEAN)
OBVIOUS

LEMMA ToldOne ==
  ASSUME NEW told \in Seq(BOOLEAN), NEW b \in BOOLEAN
  PROVE  Append(told, b) \in Seq(BOOLEAN) /\ (All(Append(told, b)) <=> All(told) /\ b)
<1>1. /\ Append(told, b) \in Seq(BOOLEAN) /\ Len(told) \in Nat
      /\ DOMAIN told = 1..Len(told) /\ DOMAIN Append(told, b) = 1..(Len(told) + 1)
      /\ Append(told, b)[Len(told) + 1] = b
      /\ \A i \in 1..Len(told) : Append(told, b)[i] = told[i]
  OBVIOUS
<1>2. \A i \in 1..(Len(told) + 1) : i \in 1..Len(told) \/ i = Len(told) + 1
  BY <1>1
<1>3. Len(told) + 1 \in 1..(Len(told) + 1) /\ 1..Len(told) \subseteq 1..(Len(told) + 1)
  BY <1>1
<1> QED BY <1>1, <1>2, <1>3 DEF All

LEMMA FreshFrame ==
  ASSUME NEW n \in DOMAIN program, NEW rest \in Seq(DOMAIN program)
  PROVE  LET f == [step |-> n, rest |-> rest, told |-> <<>>, round |-> 0, hurt |-> FALSE]
         IN  f \in Frame /\ f.step = n /\ All(f.told)
<1>1. <<>> \in Seq(BOOLEAN) /\ All(<<>>)
  BY DEF All
<1> QED BY <1>1 DEF Frame

LEMMA ResultIs ==
  /\ \A completed \in BOOLEAN, holds \in {"nothing", "list", "yes", "no"} :
       Result(completed, holds) \in StepResults /\ Result(completed, holds).completed = completed
  /\ \A completed \in BOOLEAN : \A n :
       Listed(completed, n) \in StepResults /\ Listed(completed, n).completed = completed
BY DEF Result, Listed, StepResults

-----------------------------------------------------------------------------
(* Steps that several branches of the interpreter take *)

LEMMA LeafKeeps ==
  ASSUME DslInv, phase \in {"call", "await"}, overdue' \in 0..MaxOverdue,
         NEW r \in StepResults, NEW fails \in BOOLEAN, Honest => (r.completed <=> ~fails), Leaf(r, fails)
  PROVE  DslInv'
<1>1. /\ program' = program /\ given' = given /\ at' = at /\ results' = results /\ covers' = covers
      /\ value' = r /\ phase' = "return"
  BY DEF Leaf, Goto
<1>2. /\ at \in DOMAIN program /\ results \in Seq(StepResults)
      /\ Shape(stack, phase, value, failed, covers) /\ (Honest => Told(stack, phase, value, failed))
  BY DEF DslInv
<1>3. /\ stack \in Seq(Frame) /\ failed \subseteq {"plain", "inLoop"} /\ covers \subseteq Kinds
      /\ Honest => (Saw(stack) <=> "plain" \in failed)
  BY <1>2 DEF Shape, Told, Known
<1>4. CASE fails /\ Fail(stack)
  <2>1. /\ stack' \in Seq(Frame) /\ (Clear(stack') <=> Clear(stack)) /\ (Saw(stack') <=> Saw(stack))
        /\ failed' \subseteq {"plain", "inLoop"}
        /\ "plain" \in failed' <=> "plain" \in failed \/ Clear(stack)
    BY <1>3, <1>4, FailIs
  <2>2. Shape(stack', phase', value', failed', covers')
    BY <1>1, <1>3, <2>1 DEF Shape, DslPhases
  <2>3. Honest => Told(stack', phase', value', failed')
    BY <1>1, <1>3, <1>4, <2>1 DEF Told, Known
  <2> QED BY <1>1, <1>2, <2>2, <2>3, Lift
<1>5. CASE ~fails /\ stack' = stack /\ failed' = failed
  <2>1. Shape(stack', phase', value', failed', covers')
    BY <1>1, <1>3, <1>5 DEF Shape, DslPhases
  <2>2. Honest => Told(stack', phase', value', failed')
    BY <1>1, <1>3, <1>5 DEF Told, Known
  <2> QED BY <1>1, <1>2, <2>1, <2>2, Lift
<1> QED BY <1>4, <1>5 DEF Leaf

LEMMA RaiseKeeps ==
  ASSUME DslInv, phase \in {"call", "test"}, overdue' = overdue, Raise
  PROVE  DslInv'
<1>1. /\ program' = program /\ given' = given /\ at' = at /\ results' = results /\ stack' = stack
      /\ value' = value /\ failed' = failed /\ phase' = "raise"
      /\ covers' = {program[stack[i].step].kind : i \in DOMAIN stack}
  BY DEF Raise, Goto
<1>2. /\ at \in DOMAIN program /\ results \in Seq(StepResults) /\ overdue \in 0..MaxOverdue
      /\ Shape(stack, phase, value, failed, covers) /\ (Honest => Told(stack, phase, value, failed))
  BY DEF DslInv
<1>3. stack \in Seq(Frame) /\ value \in StepResults /\ failed \subseteq {"plain", "inLoop"}
  BY <1>2 DEF Shape
<1>4. covers' \subseteq Kinds
  <2>1. ASSUME NEW i \in DOMAIN stack PROVE program[stack[i].step].kind \in Kinds
    <3>1. PICK f : f = stack[i]
      OBVIOUS
    <3>2. f \in Frame
      BY <1>3, <3>1
    <3>3. stack[i].step \in DOMAIN program
      BY <3>1, <3>2 DEF Frame
    <3> QED BY <3>3, ProgramIs
  <2> QED BY <1>1, <2>1
<1>5. "if" \in covers' => HasIf(stack)
  BY <1>1 DEF HasIf, Kind
<1>6. Shape(stack', phase', value', failed', covers')
  BY <1>1, <1>3, <1>4, <1>5 DEF Shape, DslPhases
<1>7. Honest => Told(stack', phase', value', failed')
  BY <1>1, <1>2 DEF Told, Known
<1> QED BY <1>1, <1>2, <1>6, <1>7, Lift

LEMMA PushKeeps ==
  ASSUME DslInv, phase = "call", overdue' = overdue, NEW rest \in Seq(DOMAIN program), Push(rest),
         NEW next \in {"next", "test"}, next = "test" => Step.kind = "loop",
         Goto(next), UNCHANGED <<at, value, results, failed, covers>>
  PROVE  DslInv'
<1>1. /\ program' = program /\ given' = given /\ at' = at /\ results' = results /\ value' = value
      /\ failed' = failed /\ covers' = covers /\ phase' = next
  BY DEF Goto
<1>2. /\ at \in DOMAIN program /\ results \in Seq(StepResults) /\ overdue \in 0..MaxOverdue
      /\ Shape(stack, phase, value, failed, covers) /\ (Honest => Told(stack, phase, value, failed))
  BY DEF DslInv
<1>3. /\ stack \in Seq(Frame) /\ value \in StepResults /\ failed \subseteq {"plain", "inLoop"}
      /\ covers \subseteq Kinds
      /\ Honest => (Saw(stack) <=> "plain" \in failed)
  BY <1>2 DEF Shape, Told, Known
<1> DEFINE f == [step |-> at, rest |-> rest, told |-> <<>>, round |-> 0, hurt |-> FALSE]
<1>4. f \in Frame /\ f.step = at /\ All(f.told)
  BY <1>2, FreshFrame
<1>5. stack' = Append(stack, f)
  BY DEF Push
<1> HIDE DEF f
<1>6. /\ stack' \in Seq(Frame) /\ stack' # <<>> /\ stack'[Len(stack')] = f
      /\ Saw(stack') <=> Saw(stack)
  BY <1>3, <1>4, <1>5, GrownStack
<1>7. next = "test" => Kind(stack'[Len(stack')]) = "loop"
  BY <1>4, <1>6 DEF Kind, Step
<1>8. Shape(stack', phase', value', failed', covers')
  BY <1>1, <1>3, <1>6, <1>7 DEF Shape, DslPhases
<1>9. Honest => Told(stack', phase', value', failed')
  BY <1>1, <1>3, <1>6 DEF Told, Known
<1> QED BY <1>1, <1>2, <1>8, <1>9, Lift

\* The top of the stack goes on with its body.
LEMMA BodyKeeps ==
  ASSUME DslInv, phase \in {"next", "test"}, overdue' = overdue, at' \in DOMAIN program,
         NEW f \in Frame, f.step = Top.step, stack' = Append(Below, f),
         f.told = Top.told \/ (Owner.kind = "loop" /\ f.told = <<>>),
         NEW next \in {"call", "next", "test"}, next = "test" => Owner.kind = "loop",
         Goto(next), UNCHANGED <<value, results, failed, covers>>
  PROVE  DslInv'
<1>1. /\ program' = program /\ given' = given /\ results' = results /\ value' = value
      /\ failed' = failed /\ covers' = covers /\ phase' = next
  BY DEF Goto
<1>2. /\ results \in Seq(StepResults) /\ overdue \in 0..MaxOverdue
      /\ Shape(stack, phase, value, failed, covers) /\ (Honest => Told(stack, phase, value, failed))
  BY DEF DslInv
<1>3. /\ stack \in Seq(Frame) /\ stack # <<>> /\ value \in StepResults
      /\ failed \subseteq {"plain", "inLoop"} /\ covers \subseteq Kinds
      /\ Honest => (Saw(stack) <=> "plain" \in failed)
  BY <1>2 DEF Shape, Told, Known
<1>4. /\ stack' \in Seq(Frame) /\ stack' # <<>> /\ Kind(stack'[Len(stack')]) = Kind(stack[Len(stack)])
      /\ Saw(stack') <=> Saw(Below) \/ (Clear(stack) /\ ~All(f.told))
      /\ Saw(stack) <=> Saw(Below) \/ (Clear(stack) /\ ~All(Top.told))
  BY <1>3, TopChanged
<1>5. Kind(stack[Len(stack)]) = Owner.kind
  BY DEF Kind, Owner, Top
<1>6. Owner.kind = "loop" => ~Clear(stack)
  BY <1>3, TopGone
<1>7. Saw(stack') <=> Saw(stack)
  BY <1>4, <1>6
<1>8. Shape(stack', phase', value', failed', covers')
  BY <1>1, <1>3, <1>4, <1>5 DEF Shape, DslPhases
<1>9. Honest => Told(stack', phase', value', failed')
  BY <1>1, <1>3, <1>7 DEF Told, Known
<1> QED BY <1>1, <1>2, <1>8, <1>9, Lift

\* The top of the stack hands its result back.
LEMMA BlockKeeps ==
  ASSUME DslInv, phase \in {"next", "test"}, overdue' = overdue, NEW completed \in BOOLEAN, NEW n,
         completed <=> (Owner.kind = "loop" \/ All(Top.told)),
         value' = Listed(completed, n), stack' = Below, Goto("return"),
         UNCHANGED <<at, results, failed, covers>>
  PROVE  DslInv'
<1>1. /\ program' = program /\ given' = given /\ at' = at /\ results' = results
      /\ failed' = failed /\ covers' = covers /\ phase' = "return"
  BY DEF Goto
<1>2. /\ at \in DOMAIN program /\ results \in Seq(StepResults) /\ overdue \in 0..MaxOverdue
      /\ Shape(stack, phase, value, failed, covers) /\ (Honest => Told(stack, phase, value, failed))
  BY DEF DslInv
<1>3. /\ stack \in Seq(Frame) /\ stack # <<>> /\ failed \subseteq {"plain", "inLoop"} /\ covers \subseteq Kinds
      /\ Honest => (Saw(stack) <=> "plain" \in failed)
  BY <1>2 DEF Shape, Told, Known
<1>4. value' \in StepResults /\ value'.completed = completed
  BY ResultIs
<1>5. /\ Below \in Seq(Frame)
      /\ Clear(stack) <=> Clear(Below) /\ Owner.kind # "loop"
      /\ Saw(stack) <=> Saw(Below) \/ (Clear(stack) /\ ~All(Top.told))
  BY <1>3, TopGone
<1>6. Known(stack', phase', value') <=> Saw(stack)
  BY <1>1, <1>4, <1>5 DEF Known
<1>7. Shape(stack', phase', value', failed', covers')
  BY <1>1, <1>3, <1>4, <1>5 DEF Shape, DslPhases
<1>8. Honest => Told(stack', phase', value', failed')
  BY <1>1, <1>3, <1>6 DEF Told
<1> QED BY <1>1, <1>2, <1>7, <1>8, Lift

-----------------------------------------------------------------------------
(* One step of the interpreter *)

LEMMA TaskKeeps == ASSUME DslInv, CallTask \/ TaskAnswers \/ TaskTimesOut PROVE DslInv'
<1>1. at \in DOMAIN program /\ results \in Seq(StepResults) /\ overdue \in 0..MaxOverdue
  BY DEF DslInv
<1>2. CASE CallTask
  <2>1. /\ program' = program /\ given' = given /\ at' = at /\ results' = results /\ overdue' = overdue
        /\ stack' = stack /\ value' = value /\ failed' = failed /\ covers' = covers
        /\ phase = "call" /\ phase' = "await"
    BY <1>2 DEF CallTask, Goto
  <2>2. Shape(stack', phase', value', failed', covers')
    BY <2>1 DEF DslInv, Shape, DslPhases
  <2>3. Honest => Told(stack', phase', value', failed')
    BY <2>1 DEF DslInv, Told, Known
  <2> QED BY <1>1, <2>1, <2>2, <2>3, Lift
<1>3. CASE TaskAnswers
  <2>1. overdue' \in 0..MaxOverdue /\ phase \in {"call", "await"}
    BY <1>1, <1>3 DEF TaskAnswers
  <2>2. CASE Leaf(Result(FALSE, "nothing"), TRUE)
    BY <2>1, <2>2, ResultIs, LeafKeeps
  <2>3. CASE \E holds \in {"yes", "no", "nothing"} : Leaf(Result(TRUE, holds), FALSE)
    BY <2>1, <2>3, ResultIs, LeafKeeps
  <2>4. CASE "failedObject" \in Outcomes /\ Leaf(Result(TRUE, "list"), TRUE)
    BY <2>1, <2>4, ResultIs, LeafKeeps DEF Honest
  <2> QED BY <1>3, <2>2, <2>3, <2>4 DEF TaskAnswers
<1>4. CASE TaskTimesOut
  <2>1. overdue' \in 0..MaxOverdue /\ phase \in {"call", "await"}
    BY <1>1, <1>4, ProgramAssumption DEF TaskTimesOut
  <2> QED BY <1>4, <2>1, ResultIs, LeafKeeps DEF TaskTimesOut
<1> QED BY <1>2, <1>3, <1>4

LEMMA OverdueKeeps == ASSUME DslInv, OverdueEnds PROVE DslInv'
<1>1. /\ program' = program /\ given' = given /\ at' = at /\ results' = results
      /\ stack' = stack /\ value' = value /\ failed' = failed /\ covers' = covers /\ phase' = phase
      /\ overdue' = overdue - 1 /\ overdue > 0
  BY DEF OverdueEnds
<1>2. overdue' \in 0..MaxOverdue /\ at \in DOMAIN program /\ results \in Seq(StepResults)
  BY <1>1, ProgramAssumption DEF DslInv
<1> QED BY <1>1, <1>2, Lift DEF DslInv

LEMMA ParallelKeeps == ASSUME DslInv, CallParallel \/ CallUnknown PROVE DslInv'
<1>1. overdue' = overdue /\ overdue' \in 0..MaxOverdue /\ phase = "call"
  BY DEF CallParallel, CallUnknown, DslInv
<1>2. CASE \E ok \in BOOLEAN : Leaf(Result(ok, "list"), ~ok)
  <2>1. PICK ok \in BOOLEAN : Leaf(Result(ok, "list"), ~ok)
    BY <1>2
  <2>2. PICK fails \in BOOLEAN : fails = ~ok
    OBVIOUS
  <2>3. Result(ok, "list") \in StepResults /\ Result(ok, "list").completed = ok
    BY ResultIs
  <2>4. Leaf(Result(ok, "list"), fails)
    BY <2>1, <2>2
  <2> QED BY <1>1, <2>2, <2>3, <2>4, LeafKeeps
<1>3. CASE Raise
  BY <1>1, <1>3, RaiseKeeps
<1>4. CASE Leaf(Result(FALSE, "nothing"), TRUE)
  BY <1>1, <1>4, ResultIs, LeafKeeps
<1> QED BY <1>2, <1>3, <1>4 DEF CallParallel, CallUnknown

LEMMA CallKeeps == ASSUME DslInv, CallSequence \/ CallIf \/ CallLoop PROVE DslInv'
<1>1. overdue' = overdue /\ overdue' \in 0..MaxOverdue /\ phase = "call"
  BY DEF CallSequence, CallIf, CallLoop, DslInv
<1>2. Step.steps \in Seq(DOMAIN program) /\ Step.other \in Seq(DOMAIN program) /\ <<>> \in Seq(DOMAIN program)
  BY ProgramIs DEF DslInv, Step
<1>3. CASE CallSequence
  <2>1. Push(Step.steps) /\ Goto("next") /\ UNCHANGED <<at, value, results, failed, covers>>
    BY <1>3 DEF CallSequence
  <2> QED BY <1>1, <1>2, <2>1, PushKeeps
<1>4. CASE CallIf
  <2>1. \/ Leaf(Result(FALSE, "nothing"), TRUE)
        \/ Leaf(Result(TRUE, "nothing"), FALSE)
        \/ \E branch \in {Step.steps, Step.other} :
             Push(branch) /\ Goto("next") /\ UNCHANGED <<at, value, results, failed, covers>>
    BY <1>4 DEF CallIf
  <2>2. CASE Leaf(Result(FALSE, "nothing"), TRUE)
    BY <1>1, <2>2, ResultIs, LeafKeeps
  <2>3. CASE Leaf(Result(TRUE, "nothing"), FALSE)
    BY <1>1, <2>3, ResultIs, LeafKeeps
  <2>4. CASE \E branch \in {Step.steps, Step.other} :
             Push(branch) /\ Goto("next") /\ UNCHANGED <<at, value, results, failed, covers>>
    <3>1. PICK branch \in Seq(DOMAIN program) :
             Push(branch) /\ Goto("next") /\ UNCHANGED <<at, value, results, failed, covers>>
      BY <1>2, <2>4
    <3> QED BY <1>1, <3>1, PushKeeps
  <2> QED BY <2>1, <2>2, <2>3, <2>4
<1>5. CASE CallLoop
  <2>1. /\ Push(<<>>) /\ Goto("test") /\ UNCHANGED <<at, value, results, failed, covers>>
        /\ Step.kind = "loop"
    BY <1>5 DEF CallLoop
  <2> QED BY <1>1, <1>2, <2>1, PushKeeps
<1> QED BY <1>3, <1>4, <1>5

LEMMA BodyIs ==
  ASSUME DslInv, phase \in {"next", "test"}
  PROVE  /\ stack \in Seq(Frame) /\ stack # <<>> /\ Top \in Frame /\ Owner = program[Top.step]
         /\ phase = "test" => Owner.kind = "loop"
         /\ Top.step \in DOMAIN program /\ Top.rest \in Seq(DOMAIN program) /\ Top.told \in Seq(BOOLEAN)
         /\ Owner.steps \in Seq(DOMAIN program)
         /\ at \in DOMAIN program /\ overdue \in 0..MaxOverdue
<1>1. stack \in Seq(Frame) /\ stack # <<>> /\ (phase = "test" => Kind(stack[Len(stack)]) = "loop")
  BY DEF DslInv, Shape
<1>2. Top \in Frame
  BY <1>1, StackIs
<1>3. Top.step \in DOMAIN program /\ Top.rest \in Seq(DOMAIN program) /\ Top.told \in Seq(BOOLEAN)
  BY <1>2 DEF Frame
<1>4. Owner.steps \in Seq(DOMAIN program)
  BY <1>3, ProgramIs DEF Owner
<1> QED BY <1>1, <1>2, <1>3, <1>4 DEF DslInv, Owner, Kind, Top

LEMMA NextStepKeeps == ASSUME DslInv, NextStep PROVE DslInv'
<1>1. /\ phase = "next" /\ Top.rest # <<>> /\ at' = Head(Top.rest) /\ overdue' = overdue
      /\ stack' = Append(Below, [Top EXCEPT !.rest = Tail(@)])
      /\ Goto("call") /\ UNCHANGED <<value, results, failed, covers>>
  BY DEF NextStep
<1>2. Top \in Frame /\ Top.rest \in Seq(DOMAIN program) /\ overdue \in 0..MaxOverdue
  BY <1>1, BodyIs
<1>3. PICK r : r = Top.rest
  OBVIOUS
<1>4. Head(r) \in DOMAIN program /\ Tail(r) \in Seq(DOMAIN program)
  <2>1. PICK S : S = DOMAIN program
    OBVIOUS
  <2>2. r \in Seq(S) /\ r # <<>>
    BY <1>1, <1>2, <1>3, <2>1
  <2>3. Head(r) \in S /\ Tail(r) \in Seq(S)
    BY <2>2
  <2> QED BY <2>1, <2>3
<1> DEFINE f == [Top EXCEPT !.rest = Tail(r)]
<1>5. f \in Frame
  BY <1>2, <1>4, FrameIs, EmptyTold
<1>6. f.step = Top.step /\ f.told = Top.told
  BY <1>2 DEF Frame
<1>7. stack' = Append(Below, f)
  BY <1>1, <1>3
<1> HIDE DEF f
<1> QED BY <1>1, <1>2, <1>3, <1>4, <1>5, <1>6, <1>7, BodyKeeps

LEMMA EndBlockKeeps == ASSUME DslInv, EndBlock PROVE DslInv'
<1>1. /\ phase = "next" /\ Owner.kind \in {"sequence", "if"}
      /\ value' = Listed(All(Top.told), Len(Top.told)) /\ stack' = Below
      /\ Goto("return") /\ overdue' = overdue /\ UNCHANGED <<at, results, failed, covers>>
  BY DEF EndBlock
<1>2. PICK completed \in BOOLEAN : completed = All(Top.told)
  BY DEF All
<1>3. Owner.kind # "loop"
  BY <1>1
<1> QED BY <1>1, <1>2, <1>3, BlockKeeps

LEMMA EndLoopKeeps ==
  ASSUME DslInv, phase \in {"next", "test"}, Owner.kind = "loop", NEW n, EndLoop(n)
  PROVE  DslInv'
<1>1. /\ value' = Listed(TRUE, n) /\ stack' = Below /\ Goto("return") /\ overdue' = overdue
      /\ UNCHANGED <<at, results, failed, covers>>
  BY DEF EndLoop
<1> QED BY <1>1, BlockKeeps

LEMMA EndRoundKeeps == ASSUME DslInv, EndRound PROVE DslInv'
<1>1. phase = "next" /\ Owner.kind = "loop"
  BY DEF EndRound
<1>2. CASE EndLoop(Top.round + 1)
  BY <1>1, <1>2, EndLoopKeeps
<1>3. CASE /\ stack' = Append(Below, [Top EXCEPT !.round = @ + 1, !.told = <<>>])
           /\ Goto("test") /\ UNCHANGED <<at, value, results, overdue, failed, covers>>
  <2>1. Top \in Frame /\ at \in DOMAIN program /\ Top.rest \in Seq(DOMAIN program)
    BY <1>1, BodyIs
  <2> DEFINE f == [Top EXCEPT !.round = @ + 1, !.told = <<>>]
  <2>2. f \in Frame
    BY <2>1, FrameIs, EmptyTold
  <2>3. f.step = Top.step /\ f.told = <<>>
    BY <2>1 DEF Frame
  <2>4. stack' = Append(Below, f)
    BY <1>3
  <2> HIDE DEF f
  <2> QED BY <1>1, <1>3, <2>1, <2>2, <2>3, <2>4, BodyKeeps
<1> QED BY <1>2, <1>3 DEF EndRound

LEMMA LoopTestKeeps == ASSUME DslInv, LoopTest PROVE DslInv'
<1>1. phase = "test" /\ Owner.kind = "loop"
  BY BodyIs DEF LoopTest
<1>2. CASE EndLoop(Top.round)
  BY <1>1, <1>2, EndLoopKeeps
<1>3. CASE /\ stack' = Append(Below, [Top EXCEPT !.rest = Owner.steps])
           /\ Goto("next") /\ UNCHANGED <<at, value, results, overdue, failed, covers>>
  <2>1. Top \in Frame /\ at \in DOMAIN program /\ Owner.steps \in Seq(DOMAIN program)
    BY <1>1, BodyIs
  <2> DEFINE f == [Top EXCEPT !.rest = Owner.steps]
  <2>2. f \in Frame
    BY <2>1, FrameIs, EmptyTold
  <2>3. f.step = Top.step /\ f.told = Top.told
    BY <2>1 DEF Frame
  <2>4. stack' = Append(Below, f)
    BY <1>3
  <2> HIDE DEF f
  <2> QED BY <1>1, <1>3, <2>1, <2>2, <2>3, <2>4, BodyKeeps
<1>4. CASE Raise /\ overdue' = overdue
  BY <1>1, <1>4, RaiseKeeps
<1> QED BY <1>2, <1>3, <1>4 DEF LoopTest

LEMMA RecordKeeps == ASSUME DslInv, Record PROVE DslInv'
<1>1. /\ phase = "return" /\ stack # <<>> /\ results' = Append(results, value)
      /\ Goto("next") /\ UNCHANGED <<at, value, overdue, failed, covers>>
      /\ program' = program /\ given' = given /\ phase' = "next"
  BY DEF Record, Goto
<1>2. /\ at \in DOMAIN program /\ results \in Seq(StepResults) /\ overdue \in 0..MaxOverdue
      /\ stack \in Seq(Frame) /\ value \in StepResults /\ failed \subseteq {"plain", "inLoop"}
      /\ covers \subseteq Kinds
      /\ Honest => (Known(stack, phase, value) <=> "plain" \in failed)
  BY <1>1 DEF DslInv, Shape, Told
<1>3. results' \in Seq(StepResults)
  BY <1>1, <1>2
<1>4. PICK stops \in BOOLEAN : stops = (Owner.kind = "sequence" /\ Owner.stop /\ ~value.completed)
  OBVIOUS
<1>5. Top \in Frame
  BY <1>1, <1>2, StackIs
<1>6. Top.rest \in Seq(DOMAIN program) /\ Top.told \in Seq(BOOLEAN) /\ value.completed \in BOOLEAN
  BY <1>2, <1>5 DEF Frame, StepResults
<1>7. PICK rest, told : rest = (IF stops THEN <<>> ELSE Top.rest) /\ told = Append(Top.told, value.completed)
  OBVIOUS
<1>8. rest \in Seq(DOMAIN program)
  <2>1. rest = <<>> \/ rest = Top.rest
    BY <1>7
  <2>2. <<>> \in Seq(DOMAIN program)
    OBVIOUS
  <2> QED BY <1>6, <2>1, <2>2
<1>9. told \in Seq(BOOLEAN) /\ (All(told) <=> All(Top.told) /\ value.completed)
  BY <1>6, <1>7, ToldOne
<1> DEFINE f == [Top EXCEPT !.told = told, !.rest = rest]
<1>10. f \in Frame
  BY <1>5, <1>8, <1>9, FrameIs
<1>11. f.step = Top.step /\ f.told = told
  BY <1>5 DEF Frame
<1>12. stack' = Append(Below, f)
  BY <1>4, <1>7 DEF Record
<1> HIDE DEF f
<1>13. /\ stack' \in Seq(Frame) /\ stack' # <<>>
       /\ Saw(stack') <=> Saw(Below) \/ (Clear(stack) /\ ~All(f.told))
       /\ Saw(stack) <=> Saw(Below) \/ (Clear(stack) /\ ~All(Top.told))
  BY <1>1, <1>2, <1>10, <1>11, <1>12, TopChanged
<1>14. Shape(stack', phase', value', failed', covers')
  BY <1>1, <1>2, <1>13 DEF Shape, DslPhases
<1>15. Known(stack', phase', value') <=> Known(stack, phase, value)
  BY <1>1, <1>9, <1>11, <1>13 DEF Known
<1>16. Honest => Told(stack', phase', value', failed')
  BY <1>1, <1>2, <1>15 DEF Told
<1> QED BY <1>1, <1>2, <1>3, <1>14, <1>16, Lift

LEMMA UnwindKeeps == ASSUME DslInv, Unwind PROVE DslInv'
<1>1. /\ phase = "raise" /\ stack # <<>> /\ program' = program /\ given' = given
      /\ UNCHANGED <<at, results, overdue, covers>>
  BY DEF Unwind, Goto
<1>2. /\ at \in DOMAIN program /\ results \in Seq(StepResults) /\ overdue \in 0..MaxOverdue
      /\ stack \in Seq(Frame) /\ value \in StepResults /\ failed \subseteq {"plain", "inLoop"}
      /\ covers \subseteq Kinds /\ ("if" \in covers => HasIf(stack))
      /\ Honest => (Saw(stack) => "plain" \in failed)
      /\ Honest => ("plain" \in failed /\ ~Clear(stack) => Saw(stack))
  BY <1>1 DEF DslInv, Shape, Told, Known
<1>3. /\ Below \in Seq(Frame)
      /\ Clear(stack) <=> Clear(Below) /\ Owner.kind # "loop"
      /\ Saw(stack) <=> Saw(Below) \/ (Clear(stack) /\ ~All(Top.told))
      /\ HasIf(stack) <=> HasIf(Below) \/ Owner.kind = "if"
  BY <1>1, <1>2, TopGone
<1>4. CASE Owner.kind = "if" /\ value' = Result(FALSE, "nothing") /\ Fail(Below) /\ Goto("return")
  <2>1. value' \in StepResults /\ value'.completed = FALSE /\ phase' = "return"
    BY <1>4, ResultIs DEF Goto
  <2>2. /\ stack' \in Seq(Frame) /\ (Clear(stack') <=> Clear(Below)) /\ (Saw(stack') <=> Saw(Below))
        /\ failed' \subseteq {"plain", "inLoop"}
        /\ "plain" \in failed' <=> "plain" \in failed \/ Clear(Below)
    BY <1>2, <1>3, <1>4, FailIs
  <2>3. Shape(stack', phase', value', failed', covers')
    BY <1>1, <1>2, <2>1, <2>2 DEF Shape, DslPhases
  <2>4. Owner.kind # "loop"
    BY <1>4
  <2>5. Honest => Told(stack', phase', value', failed')
    BY <1>2, <1>3, <2>1, <2>2, <2>4 DEF Told, Known
  <2> QED BY <1>1, <1>2, <2>3, <2>5, Lift
<1>5. CASE Owner.kind # "if" /\ stack' = Below /\ Goto("raise") /\ UNCHANGED <<value, failed>>
  <2>1. phase' = "raise"
    BY <1>5 DEF Goto
  <2>2. Shape(stack', phase', value', failed', covers')
    BY <1>1, <1>2, <1>3, <1>5, <2>1 DEF Shape, DslPhases
  <2>3. Honest => Told(stack', phase', value', failed')
    BY <1>2, <1>3, <1>5, <2>1 DEF Told, Known
  <2> QED BY <1>1, <1>2, <2>2, <2>3, Lift
<1> QED BY <1>4, <1>5 DEF Unwind

LEMMA EndKeeps == ASSUME DslInv, End PROVE DslInv'
<1>1. /\ phase \in {"return", "raise"} /\ stack = <<>> /\ program' = program /\ given' = given
      /\ phase' = (IF phase = "return" THEN "returned" ELSE "raised")
      /\ UNCHANGED <<stack, at, value, results, overdue, failed, covers>>
  BY DEF End, Goto
<1>2. /\ at \in DOMAIN program /\ results \in Seq(StepResults) /\ overdue \in 0..MaxOverdue
      /\ Shape(stack, phase, value, failed, covers) /\ (Honest => Told(stack, phase, value, failed))
  BY DEF DslInv
<1>3. Shape(stack', phase', value', failed', covers')
  BY <1>1, <1>2, EmptyStack DEF Shape, DslPhases
<1>4. Honest => Told(stack', phase', value', failed')
  BY <1>1, <1>2, EmptyStack DEF Told, Known
<1> QED BY <1>1, <1>2, <1>3, <1>4, Lift

LEMMA DslStart == DslInit => DslInv
<1> SUFFICES ASSUME DslInit PROVE DslInv
  OBVIOUS
<1>1. /\ program \in Programs /\ given \in [DOMAIN program -> BOOLEAN] /\ at \in DOMAIN program
      /\ stack = <<>> /\ phase = "call" /\ results = <<>> /\ overdue = 0 /\ failed = {} /\ covers = {}
  BY ProgramAssumption DEF DslInit
<1>2. value \in StepResults
  BY DEF DslInit, StepResults
<1>3. results \in Seq(StepResults) /\ overdue \in 0..MaxOverdue
  BY <1>1, ProgramAssumption
<1>4. Shape(stack, phase, value, failed, covers)
  BY <1>1, <1>2, EmptyStack DEF Shape, DslPhases
<1>5. Told(stack, phase, value, failed)
  BY <1>1, EmptyStack DEF Told, Known
<1> QED BY <1>1, <1>3, <1>4, <1>5 DEF DslInv

LEMMA DslInductive == DslInv /\ [DslNext]_dslVars => DslInv'
<1> SUFFICES ASSUME DslInv, [DslNext]_dslVars PROVE DslInv'
  OBVIOUS
<1>1. CASE Interpret
  BY <1>1, TaskKeeps, ParallelKeeps, CallKeeps, NextStepKeeps, EndBlockKeeps, EndRoundKeeps,
     LoopTestKeeps, RecordKeeps, UnwindKeeps, EndKeeps DEF Interpret
<1>2. CASE OverdueEnds
  BY <1>2, OverdueKeeps
<1>3. CASE UNCHANGED dslVars
  <2>1. /\ program' = program /\ given' = given /\ at' = at /\ results' = results /\ overdue' = overdue
        /\ stack' = stack /\ value' = value /\ failed' = failed /\ covers' = covers /\ phase' = phase
    BY <1>3 DEF dslVars
  <2> QED BY <2>1, Lift DEF DslInv
<1> QED BY <1>1, <1>2, <1>3 DEF DslNext, Finished

\* The interpreter's stack has steps of the program with well-formed reports, its
\* results are those of steps, and no more tasks are overdue than are counted.
THEOREM DslTyped == DslSpec => []DslTypeOK
<1>1. DslInv => DslTypeOK
  BY DEF DslInv, Shape, DslTypeOK, DslPhases, Frame, StepResults
<1> QED BY <1>1, DslStart, DslInductive, PTL DEF DslSpec

\* For every program and whatever its tasks and conditions do: the run reports
\* completed just when nothing has failed outside of loops, at any depth and in
\* either branch, provided that failures are told as dicts or exceptions (with
\* TaskStepResult objects it does not hold; execute_dsl_step and its handlers).
THEOREM DslTells == ASSUME Honest PROVE DslSpec => []TopTellsAll
<1>1. DslInv => TopTellsAll
  <2> SUFFICES ASSUME DslInv, phase = "returned" PROVE value.completed <=> "plain" \notin failed
    BY DEF TopTellsAll
  <2>1. stack = <<>> /\ Told(stack, phase, value, failed) /\ value.completed \in BOOLEAN
    BY DEF DslInv, Shape, StepResults
  <2> QED BY <2>1, EmptyStack DEF Told, Known
<1> QED BY <1>1, DslStart, DslInductive, PTL DEF DslSpec

\* For every program, an exception of a parallel block or of a loop's condition
\* never leaves the run when an if is around it (_handle_if_step).
THEOREM DslContains == DslSpec => []IfsContain
<1>1. DslInv => IfsContain
  BY DEF DslInv, Shape, IfsContain
<1> QED BY <1>1, DslStart, DslInductive, PTL DEF DslSpec
=============================================================================
