------------------------ MODULE NativeThreadsProofs ------------------------
(***************************************************************************)
(* Proofs about NativeThreads, for any number of workers and operations.   *)
(***************************************************************************)
EXTENDS NativeThreadsProperties, SequenceTheorems, TLAPS

\* Popping the innermost scope leaves a stack of threads.
LEMMA PopIsSeq ==
  ASSUME NEW S, NEW s \in Seq(S), s # <<>>
  PROVE  SubSeq(s, 1, Len(s) - 1) \in Seq(S)
<1>1. Len(s) \in Nat /\ Len(s) # 0
  BY EmptySeq
<1>2. \A i \in 1..(Len(s) - 1) : s[i] \in S
  BY <1>1, ElementOfSeq
<1>3. SubSeq(s, 1, Len(s) - 1) \in Seq(S)
  BY <1>1, <1>2, SubSeqProperties
<1>4. QED
  BY <1>3

-----------------------------------------------------------------------------
(* Type correctness *)

LEMMA TypeInit == Init => TypeOK
BY ThreadsAssumption DEF Init, TypeOK, Threads

\* Every step of a thread keeps the types.
LEMMA TypeOfStep ==
  ASSUME TypeOK, NEW t \in Threads, Step(t)
  PROVE  TypeOK'
<1> USE ThreadsAssumption DEF TypeOK, Threads
<1>1. CASE Call(t)
  <2>1. stack' \in Seq(Threads)
    BY <1>1 DEF Call, pushScope
  <2> QED
    BY <1>1, <2>1 DEF Call, pushScope, waitVars, threadVars
<1>2. CASE Return(t)
  <2>1. stack' \in Seq(Threads)
    BY <1>2, PopIsSeq DEF Return, popScope
  <2> QED
    BY <1>2, <2>1, SMTT(60) DEF Return, popScope, waitVars, threadVars
<1>14. CASE MethodThrows(t)
  BY <1>14, SMTT(60) DEF MethodThrows, waitVars, threadVars
<1>3. CASE Yield(t)
  BY <1>3 DEF Yield, unlockInterpreter, threadVars, scopeVars
<1>4. ASSUME NEW w \in Workers, Start(t, w) PROVE TypeOK'
  BY <1>4 DEF Start, waitVars, scopeVars
<1>5. ASSUME NEW w \in Workers, BeginJoin(t, w) PROVE TypeOK'
  BY <1>5 DEF BeginJoin, ReleaseAndJoin, unlockInterpreter, threadVars, scopeVars
<1>6. ASSUME NEW w \in Workers, JoinNext(t, w) PROVE TypeOK'
  BY <1>6 DEF JoinNext, ReleaseAndJoin, unlockInterpreter, threadVars, scopeVars
<1>7. ASSUME NEW w \in Workers, Detach(t, w) PROVE TypeOK'
  BY <1>7 DEF Detach, waitVars, scopeVars
<1>8. CASE BeginJoinAll(t)
  BY <1>8 DEF BeginJoinAll, threadVars, scopeVars
<1>9. CASE JoinAllFails(t)
  BY <1>9 DEF JoinAllFails, threadVars, scopeVars
<1>10. CASE JoinAllEnds(t)
  BY <1>10 DEF JoinAllEnds, threadVars, scopeVars
<1>11. CASE FinishJoin(t)
  BY <1>11 DEF FinishJoin, waitVars, scopeVars
<1>12. CASE FailJoin(t)
  BY <1>12 DEF FailJoin, threadVars, scopeVars
<1>13. CASE Wake(t)
  BY <1>13 DEF Wake, lockInterpreter, scopeVars
<1> QED
  BY <1>1, <1>2, <1>3, <1>4, <1>5, <1>6, <1>7, <1>8, <1>9, <1>10, <1>11,
     <1>12, <1>13, <1>14 DEF Step

\* So does every step of a worker and of the main thread.
LEMMA TypeStep == TypeOK /\ [Next]_vars => TypeOK'
<1> USE ThreadsAssumption DEF Threads
<1> SUFFICES ASSUME TypeOK, [Next]_vars PROVE TypeOK'
  OBVIOUS
<1>1. CASE Step(Main)
  BY <1>1, TypeOfStep
<1>2. CASE MainReturns
  <2>1. stack' \in Seq(Threads)
    BY <1>2, PopIsSeq DEF MainReturns, popScope, TypeOK
  <2> QED
    BY <1>2, <2>1 DEF MainReturns, popScope, threadVars, TypeOK
<1>3. CASE ReapSkips
  BY <1>3 DEF ReapSkips, threadVars, scopeVars, TypeOK
<1>4. CASE Exit
  BY <1>4 DEF Exit, unlockInterpreter, waitVars, threadVars, scopeVars, TypeOK
<1>7. CASE ReapFails
  BY <1>7 DEF ReapFails, threadVars, scopeVars, TypeOK
<1>8. CASE ReapTerminates
  BY <1>8 DEF ReapTerminates, waitVars, threadVars, scopeVars, TypeOK
<1>5. ASSUME NEW w \in Workers, WorkerStep(w) PROVE TypeOK'
  <2>1. CASE Step(w)
    BY <2>1, TypeOfStep
  <2>2. CASE EnterCallback(w)
    <3>1. stack' \in Seq(Threads)
      BY <2>2 DEF EnterCallback, pushScope, TypeOK
    <3> QED
      BY <2>2, <3>1
         DEF EnterCallback, lockInterpreter, pushScope, waitVars, threadVars, TypeOK
  <2>3. CASE FinishCallback(w)
    <3>1. stack' \in Seq(Threads)
      BY <2>3, PopIsSeq DEF FinishCallback, popScope, TypeOK
    <3> QED
      BY <2>3, <3>1
         DEF FinishCallback, unlockInterpreter, popScope, waitVars, threadVars, TypeOK
  <2>4. CASE WriteStatus(w)
    BY <2>4 DEF WriteStatus, waitVars, scopeVars, TypeOK
  <2>5. CASE Retire(w)
    BY <2>5 DEF Retire, waitVars, scopeVars, TypeOK
  <2> QED
    BY <1>5, <2>1, <2>2, <2>3, <2>4, <2>5 DEF WorkerStep
<1>6. CASE UNCHANGED vars
  BY <1>6 DEF vars, waitVars, threadVars, scopeVars, TypeOK
<1> QED
  BY <1>1, <1>2, <1>3, <1>4, <1>5, <1>6, <1>7, <1>8 DEF Next, MainStep

\* The variables keep their types in every execution, whoever starts, joins
\* and detaches whom.
THEOREM TypeCorrect == Spec => []TypeOK
<1> QED
  BY TypeInit, TypeStep, PTL DEF Spec

-----------------------------------------------------------------------------
(* One thread evaluates at a time *)

\* Only the main thread joins.  joinThread is the one place that releases the
\* lock and may leave with an exception before it has it back (FailJoin), and
\* with a single joiner std::thread::join has no reason to throw.
OnlyMainJoins == Joiners \subseteq {Main}

\* The inductive invariant: the lock and the program counters say the same.
LockInv ==
  /\ \A t \in Threads : pc[t] \in {"running", "looping"} => gil = t
  /\ gil # NoThread => pc[gil] \in {"running", "looping"}
  /\ \A w \in Workers : pc[w] \notin {"joining", "looping", "exited", "aborted"}
  /\ pc[Main] \in {"running", "looping", "joining", "waking", "exited"}
  /\ \A w \in Workers : pc[w] = "waking" => purpose[w] = "yield"
  /\ pc[Main] = "joining" => target[Main] # NoThread

LEMMA LockInit == Init => LockInv
BY ThreadsAssumption DEF Init, LockInv, Threads

LEMMA LockOfStep ==
  ASSUME OnlyMainJoins, TypeOK, LockInv, NEW t \in Threads, Step(t)
  PROVE  LockInv'
<1> USE ThreadsAssumption DEF OnlyMainJoins, TypeOK, LockInv, Threads
<1>1. CASE Call(t)
  BY <1>1 DEF Call, waitVars
<1>2. CASE Return(t)
  BY <1>2 DEF Return, waitVars
<1>14. CASE MethodThrows(t)
  BY <1>14 DEF MethodThrows, waitVars
<1>3. CASE Yield(t)
  BY <1>3 DEF Yield, Running, unlockInterpreter
<1>4. ASSUME NEW w \in Workers, Start(t, w) PROVE LockInv'
  BY <1>4 DEF Start, Running, waitVars
<1>5. ASSUME NEW w \in Workers, BeginJoin(t, w) PROVE LockInv'
  BY <1>5 DEF BeginJoin, Running, ReleaseAndJoin, unlockInterpreter
<1>6. ASSUME NEW w \in Workers, JoinNext(t, w) PROVE LockInv'
  BY <1>6 DEF JoinNext, ReleaseAndJoin, unlockInterpreter
<1>7. ASSUME NEW w \in Workers, Detach(t, w) PROVE LockInv'
  BY <1>7 DEF Detach, waitVars
<1>8. CASE BeginJoinAll(t)
  BY <1>8 DEF BeginJoinAll, Running
<1>9. CASE JoinAllFails(t)
  BY <1>9 DEF JoinAllFails
<1>10. CASE JoinAllEnds(t)
  BY <1>10 DEF JoinAllEnds
<1>11. CASE FinishJoin(t)
  BY <1>11 DEF FinishJoin, waitVars
<1>12. CASE FailJoin(t)
  <2>1. t = Main
    BY <1>12 DEF FailJoin, JoinThrows
  <2>2. ~JoinImpossible(t)
    BY <1>12, <2>1 DEF FailJoin, JoinThrows, JoinImpossible
  <2> QED
    BY <1>12, <2>2 DEF FailJoin, JoinThrows
<1>13. CASE Wake(t)
  <2>1. /\ gil = NoThread /\ gil' = t
        /\ t \in Workers => purpose[t] = "yield"
        /\ pc[t] = "waking"
    BY <1>13 DEF Wake, lockInterpreter
  <2>2. CASE purpose[t] \in {"joinAll", "exit", "unwind"}
    <3>1. t = Main /\ pc' = [pc EXCEPT ![t] = "looping"] /\ purpose' = purpose
      BY <1>13, <2>1, <2>2 DEF Wake
    <3> QED
      BY <2>1, <3>1
  <2>3. CASE purpose[t] \notin {"joinAll", "exit", "unwind"}
    <3>1. /\ pc' = [pc EXCEPT ![t] = "running"]
          /\ purpose' = [purpose EXCEPT ![t] = "none"]
          /\ target' = [target EXCEPT ![t] = NoThread]
      BY <1>13, <2>3 DEF Wake
    <3> QED
      BY <2>1, <3>1
  <2> QED
    BY <2>2, <2>3
<1> QED
  BY <1>1, <1>2, <1>3, <1>4, <1>5, <1>6, <1>7, <1>8, <1>9, <1>10, <1>11,
     <1>12, <1>13, <1>14 DEF Step

\* A single joiner never makes the reaper throw.
LEMMA ReaperJoins == TypeOK /\ LockInv => ~JoinThrows(Main)
BY ThreadsAssumption DEF TypeOK, LockInv, JoinThrows, JoinImpossible, Threads

LEMMA LockStep ==
  OnlyMainJoins /\ TypeOK /\ LockInv /\ [Next]_vars => LockInv'
<1> USE ThreadsAssumption DEF Threads
<1> SUFFICES ASSUME OnlyMainJoins, TypeOK, LockInv, [Next]_vars PROVE LockInv'
  OBVIOUS
<1>1. CASE Step(Main)
  BY <1>1, LockOfStep
<1>2. CASE MainReturns
  BY <1>2 DEF MainReturns, Running, TypeOK, LockInv
<1>3. CASE ReapSkips
  BY <1>3 DEF ReapSkips, TypeOK, LockInv
<1>4. CASE Exit
  BY <1>4 DEF Exit, unlockInterpreter, waitVars, TypeOK, LockInv
<1>7. CASE ReapFails \/ ReapTerminates
  BY <1>7, ReaperJoins DEF ReapFails, ReapTerminates
<1>5. ASSUME NEW w \in Workers, WorkerStep(w) PROVE LockInv'
  <2>1. CASE Step(w)
    BY <2>1, LockOfStep
  <2>2. CASE EnterCallback(w)
    BY <2>2 DEF EnterCallback, lockInterpreter, waitVars, TypeOK, LockInv
  <2>3. CASE FinishCallback(w)
    BY <2>3 DEF FinishCallback, Running, unlockInterpreter, waitVars, TypeOK, LockInv
  <2>4. CASE WriteStatus(w)
    BY <2>4 DEF WriteStatus, waitVars, TypeOK, LockInv
  <2>5. CASE Retire(w)
    BY <2>5 DEF Retire, waitVars, TypeOK, LockInv
  <2> QED
    BY <1>5, <2>1, <2>2, <2>3, <2>4, <2>5 DEF WorkerStep
<1>6. CASE UNCHANGED vars
  BY <1>6 DEF vars, waitVars, LockInv
<1> QED
  BY <1>1, <1>2, <1>3, <1>4, <1>5, <1>6, <1>7 DEF Next, MainStep

LEMMA LockInvariant == ASSUME OnlyMainJoins PROVE Spec => []LockInv
<1>1. TypeOK /\ LockInv /\ [Next]_vars => LockInv'
  BY LockStep
<1> QED
  BY <1>1, LockInit, TypeCorrect, PTL DEF Spec

\* Two threads never evaluate at once, whatever they call, yield for, start
\* and finish.
THEOREM OneThreadEvaluates ==
  ASSUME OnlyMainJoins PROVE Spec => []NeverEvaluateAtOnce
<1>1. LockInv => NeverEvaluateAtOnce
  BY DEF LockInv, NeverEvaluateAtOnce, Evaluating
<1> QED
  BY <1>1, LockInvariant, PTL

\* Nobody who is blocked, sleeping or gone keeps the interpreter lock.
THEOREM TheLockIsReleased ==
  ASSUME OnlyMainJoins PROVE Spec => []BlockedReleaseTheLock
<1>1. TypeOK /\ LockInv => BlockedReleaseTheLock
  BY DEF TypeOK, LockInv, BlockedReleaseTheLock, Evaluating
<1> QED
  BY <1>1, LockInvariant, TypeCorrect, PTL

-----------------------------------------------------------------------------
(* The interpreter lock implements Evaluation *)

\* While LockInv holds, who evaluates is a function of the lock.
Holder == IF gil = NoThread THEN {} ELSE {gil}

LEMMA EvaluatingIsHolder == TypeOK /\ LockInv => Evaluating = Holder
BY ThreadsAssumption DEF TypeOK, LockInv, Evaluating, Holder

\* The lock passes through nobody's hands.
LEMMA HandOver ==
  ASSUME TypeOK, [Next]_vars
  PROVE  gil' = gil \/ gil = NoThread \/ gil' = NoThread
<1>1. ASSUME NEW t \in Threads, Step(t)
      PROVE  gil' = gil \/ gil = NoThread \/ gil' = NoThread
  BY <1>1 DEF Step, Call, Return, MethodThrows, Yield, Start, BeginJoin, JoinNext, Detach,
       BeginJoinAll, JoinAllFails, JoinAllEnds, FinishJoin, FailJoin, Wake,
       ReleaseAndJoin, lockInterpreter, unlockInterpreter
<1>2. CASE MainReturns \/ ReapSkips \/ ReapFails \/ ReapTerminates \/ Exit
  BY <1>2 DEF MainReturns, ReapSkips, ReapFails, ReapTerminates, Exit,
       unlockInterpreter
<1>3. ASSUME NEW w \in Workers,
             EnterCallback(w) \/ FinishCallback(w) \/ WriteStatus(w) \/ Retire(w)
      PROVE  gil' = gil \/ gil = NoThread \/ gil' = NoThread
  BY <1>3 DEF EnterCallback, FinishCallback, WriteStatus, Retire,
       lockInterpreter, unlockInterpreter
<1> QED
  BY <1>1, <1>2, <1>3 DEF Next, MainStep, WorkerStep, vars, Threads

\* Every step of the threads is a step of Evaluation or leaves it alone.
LEMMA EvaluationStep ==
  ASSUME TypeOK, TypeOK', LockInv, LockInv', [Next]_vars
  PROVE  [EvaluationSpec!Next]_Evaluating
<1>1. Evaluating = Holder /\ Evaluating' = Holder'
  <2>1. Evaluating' = Holder'
    BY ThreadsAssumption DEF TypeOK, LockInv, Evaluating, Holder
  <2> QED
    BY <2>1, EvaluatingIsHolder
<1>2. CASE gil' = gil
  BY <1>1, <1>2 DEF Holder
<1>3. CASE gil = NoThread /\ gil' # NoThread
  <2>1. gil' \in Threads
    BY <1>3 DEF TypeOK
  <2>2. EvaluationSpec!Enter(gil')
    BY <1>1, <1>3 DEF Holder, EvaluationSpec!Enter
  <2> QED
    BY <2>1, <2>2 DEF EvaluationSpec!Next
<1>4. CASE gil # NoThread /\ gil' = NoThread
  <2>1. gil \in Threads
    BY <1>4 DEF TypeOK
  <2>2. EvaluationSpec!Leave(gil)
    BY <1>1, <1>4 DEF Holder, EvaluationSpec!Leave
  <2> QED
    BY <2>1, <2>2 DEF EvaluationSpec!Next
<1> QED
  BY <1>2, <1>3, <1>4, HandOver

\* The threads of a program implement the abstract specification of evaluation:
\* it starts with the main thread and is handed over with a gap, never shared.
THEOREM Implementation ==
  ASSUME OnlyMainJoins PROVE Spec => Serialized
<1>1. Init => EvaluationSpec!Init
  BY ThreadsAssumption DEF Init, EvaluationSpec!Init, Evaluating, Threads
<1>2. /\ TypeOK /\ TypeOK' /\ LockInv /\ LockInv' /\ [Next]_vars
      => [EvaluationSpec!Next]_Evaluating
  BY EvaluationStep
<1> QED
  BY <1>1, <1>2, TypeCorrect, LockInvariant, PTL
     DEF Spec, Serialized, EvaluationSpec!Spec, EvaluationSpec!Handover

-----------------------------------------------------------------------------
(* Joined threads have ended, live threads can be found *)

\* A worker that is still going to evaluate.
Alive(w) == pc[w] \in {"starting", "running", "joining", "looping", "waking"}

\* What joinThread relies on when it erases a handle: the thread it waited for
\* was joinable until it was done, and nobody detached it meanwhile.
JoinInv ==
  /\ \A w \in Workers : Alive(w) => w \in registry
  /\ \A w \in Workers : pc[w] = "unborn" => w \notin registry \cup detached
  /\ \A w \in Workers \ detached : pc[w] \notin {"unborn", "done"} => w \in joinable
  /\ \A w \in Workers : pc[w] \in {"retiring", "done"} => status[w] = "completed"
  /\ \A w \in Workers : target[w] = NoThread
  /\ \A w \in pending[Main] : pc[w] # "unborn"
  /\ pc[Main] \in {"running", "looping"} => target[Main] = NoThread
  /\ pc[Main] = "joining" =>
       target[Main] \notin detached /\ pc[target[Main]] # "unborn"
  /\ pc[Main] = "waking" /\ target[Main] # NoThread =>
       target[Main] \notin detached /\ pc[target[Main]] = "done"

LEMMA JoinInit == Init => JoinInv
BY ThreadsAssumption DEF Init, JoinInv, Alive, Threads

LEMMA JoinOfStep ==
  ASSUME OnlyMainJoins, TypeOK, LockInv, JoinInv, NEW t \in Threads, Step(t)
  PROVE  JoinInv'
<1> USE ThreadsAssumption DEF TypeOK, JoinInv, Alive, Threads
<1>1. CASE Call(t)
  BY <1>1 DEF Call, waitVars, threadVars
<1>2. CASE Return(t)
  BY <1>2 DEF Return, waitVars, threadVars
<1>14. CASE MethodThrows(t)
  BY <1>14 DEF MethodThrows, waitVars, threadVars
<1>3. CASE Yield(t)
  BY <1>3 DEF Yield, Running, threadVars
<1>4. ASSUME NEW w \in Workers, Start(t, w) PROVE JoinInv'
  BY <1>4 DEF Start, Running, waitVars
<1>5. ASSUME NEW w \in Workers, BeginJoin(t, w) PROVE JoinInv'
  <2>1. t = Main
    BY <1>5 DEF BeginJoin, OnlyMainJoins
  <2> QED
    BY <1>5, <2>1 DEF BeginJoin, Running, ReleaseAndJoin, threadVars
<1>6. ASSUME NEW w \in Workers, JoinNext(t, w) PROVE JoinInv'
  <2>1. t = Main
    BY <1>6 DEF JoinNext, LockInv
  <2> QED
    BY <1>6, <2>1 DEF JoinNext, ReleaseAndJoin, threadVars
<1>7. ASSUME NEW w \in Workers, Detach(t, w) PROVE JoinInv'
  <2>1. t = Main
    BY <1>7 DEF Detach, OnlyMainJoins
  <2> QED
    BY <1>7, <2>1 DEF Detach, Running, waitVars
<1>8. CASE BeginJoinAll(t)
  <2>1. t = Main
    BY <1>8 DEF BeginJoinAll, OnlyMainJoins
  <2> QED
    BY <1>8, <2>1 DEF BeginJoinAll, Running, threadVars
<1>9. CASE JoinAllFails(t)
  BY <1>9 DEF JoinAllFails, LockInv, threadVars
<1>10. CASE JoinAllEnds(t)
  BY <1>10 DEF JoinAllEnds, LockInv, threadVars
<1>11. CASE FinishJoin(t)
  <2>1. t = Main /\ target[t] \in Workers
    BY <1>11 DEF FinishJoin, LockInv
  <2>2. pc[target[t]] = "done"
    BY <1>11, <2>1 DEF FinishJoin
  <2> QED
    BY <1>11, <2>1, <2>2 DEF FinishJoin, waitVars
<1>12. CASE FailJoin(t)
  <2>1. t = Main
    BY <1>12 DEF FailJoin, JoinThrows, LockInv
  <2>2. ~JoinImpossible(t)
    BY <1>12, <2>1 DEF FailJoin, JoinThrows, JoinImpossible, LockInv
  <2> QED
    BY <1>12, <2>2 DEF FailJoin, JoinThrows
<1>13. CASE Wake(t)
  <2>1. /\ pc[t] = "waking"
        /\ pc' = [pc EXCEPT ![t] = pc'[t]]
        /\ pc'[t] \in {"running", "looping"}
        /\ t \in Workers => pc'[t] = "running"
        /\ registry' = registry \ {target[t]}
        /\ target' = [target EXCEPT ![t] = NoThread]
        /\ UNCHANGED <<pending, joinable, detached, status>>
    BY <1>13 DEF Wake, LockInv
  <2>2. \A w \in Workers : Alive(w)' => w \in registry'
    BY <2>1 DEF LockInv
  <2>3. CASE t = Main
    BY <2>1, <2>2, <2>3
  <2>4. CASE t \in Workers
    <3>1. target' = target /\ pc'[Main] = pc[Main]
      BY <2>1, <2>4
    <3>2. \A w \in Workers \ {t} : pc'[w] = pc[w]
      BY <2>1
    <3>3. pc[Main] = "joining" => target[Main] \in Workers
      BY DEF LockInv
    <3> QED
      BY <2>1, <2>2, <2>4, <3>1, <3>2, <3>3, SMTT(60)
  <2> QED
    BY <2>3, <2>4
<1> QED
  BY <1>1, <1>2, <1>3, <1>4, <1>5, <1>6, <1>7, <1>8, <1>9, <1>10, <1>11,
     <1>12, <1>13, <1>14 DEF Step

LEMMA JoinStep ==
  OnlyMainJoins /\ TypeOK /\ LockInv /\ JoinInv /\ [Next]_vars => JoinInv'
<1> USE ThreadsAssumption DEF Threads
<1> SUFFICES ASSUME OnlyMainJoins, TypeOK, LockInv, JoinInv, [Next]_vars
             PROVE  JoinInv'
  OBVIOUS
<1>1. CASE Step(Main)
  BY <1>1, JoinOfStep
<1>2. CASE MainReturns
  BY <1>2 DEF MainReturns, Running, threadVars, TypeOK, JoinInv, Alive
<1>3. CASE ReapSkips
  BY <1>3 DEF ReapSkips, threadVars, TypeOK, JoinInv, Alive
<1>4. CASE Exit
  BY <1>4 DEF Exit, waitVars, threadVars, TypeOK, JoinInv, Alive
<1>7. CASE ReapFails \/ ReapTerminates
  BY <1>7, ReaperJoins DEF ReapFails, ReapTerminates
<1>5. ASSUME NEW w \in Workers, WorkerStep(w) PROVE JoinInv'
  <2> USE DEF waitVars, threadVars, TypeOK, JoinInv, Alive
  <2>1. CASE Step(w)
    BY <2>1, JoinOfStep
  <2>2. CASE EnterCallback(w)
    BY <2>2 DEF EnterCallback
  <2>3. CASE FinishCallback(w)
    BY <2>3 DEF FinishCallback, Running
  <2>4. CASE WriteStatus(w)
    BY <2>4 DEF WriteStatus
  <2>5. CASE Retire(w)
    BY <2>5 DEF Retire
  <2> QED
    BY <1>5, <2>1, <2>2, <2>3, <2>4, <2>5 DEF WorkerStep
<1>6. CASE UNCHANGED vars
  BY <1>6 DEF vars, waitVars, threadVars, JoinInv, Alive
<1> QED
  BY <1>1, <1>2, <1>3, <1>4, <1>5, <1>6, <1>7 DEF Next, MainStep

LEMMA JoinInvariant == ASSUME OnlyMainJoins PROVE Spec => []JoinInv
<1>1. TypeOK /\ LockInv /\ JoinInv /\ [Next]_vars => JoinInv'
  BY JoinStep
<1> QED
  BY <1>1, JoinInit, TypeCorrect, LockInvariant, PTL DEF Spec

\* A thread that may still evaluate can be found in the registry, detached or
\* not, however many threads there are.
THEOREM LiveThreadsCanBeFound ==
  ASSUME OnlyMainJoins PROVE Spec => []LiveThreadsAreRegistered
<1>1. JoinInv => LiveThreadsAreRegistered
  BY DEF JoinInv, LiveThreadsAreRegistered, Alive
<1> QED
  BY <1>1, JoinInvariant, PTL

\* A join gives a handle up only after its thread has ended.
THEOREM JoinWaitsForTheEnd ==
  ASSUME OnlyMainJoins PROVE Spec => JoinedThreadsAreDone
<1>1. ASSUME TypeOK, LockInv, JoinInv, NEW t \in Threads, Wake(t),
             target[t] \in Workers \ detached
      PROVE  pc[target[t]] = "done" /\ status[target[t]] = "completed"
  BY <1>1, ThreadsAssumption DEF TypeOK, JoinInv, Wake, Threads
<1>2. TypeOK /\ LockInv /\ JoinInv /\ [Next]_vars =>
        [\A t \in Threads :
           Wake(t) /\ target[t] \in Workers \ detached =>
             pc[target[t]] = "done" /\ status[target[t]] = "completed"]_vars
  BY <1>1
<1> QED
  BY <1>2, TypeCorrect, LockInvariant, JoinInvariant, PTL
     DEF Spec, JoinedThreadsAreDone

-----------------------------------------------------------------------------
(* The environment outlives the threads *)

\* Only the main thread starts others, so that nothing starts while
\* executeProgram reaps (threads_exit shows what happens otherwise).
OnlyMainStarts == Starters \subseteq {Main}

\* From the snapshot on, a live thread that is not detached is still to be
\* joined, or being joined.
ReapInv ==
  /\ pc[Main] = "running" => purpose[Main] = "none"
  /\ pc[Main] = "exited" => Exiting(Main) /\ pending[Main] = {}
  /\ Exiting(Main) =>
       \A w \in Workers \ detached :
         Alive(w) => \/ w \in pending[Main]
                     \/ pc[Main] = "joining" /\ w = target[Main]

LEMMA ReapInit == Init => ReapInv
BY ThreadsAssumption DEF Init, ReapInv, Exiting, Threads

LEMMA ReapOfStep ==
  ASSUME OnlyMainJoins, OnlyMainStarts, TypeOK, LockInv, JoinInv, ReapInv,
         NEW t \in Threads, Step(t)
  PROVE  ReapInv'
<1> USE ThreadsAssumption DEF TypeOK, LockInv, ReapInv, Exiting, Alive, Threads
<1>1. CASE Call(t)
  BY <1>1 DEF Call, waitVars, threadVars
<1>2. CASE Return(t)
  BY <1>2 DEF Return, waitVars, threadVars
<1>14. CASE MethodThrows(t)
  BY <1>14 DEF MethodThrows, waitVars, threadVars
<1>3. CASE Yield(t)
  BY <1>3 DEF Yield, Running, threadVars
<1>4. ASSUME NEW w \in Workers, Start(t, w) PROVE ReapInv'
  BY <1>4 DEF Start, Running, waitVars, OnlyMainStarts
<1>5. ASSUME NEW w \in Workers, BeginJoin(t, w) PROVE ReapInv'
  <2>1. t = Main
    BY <1>5 DEF BeginJoin, OnlyMainJoins
  <2> QED
    BY <1>5, <2>1 DEF BeginJoin, Running, ReleaseAndJoin, threadVars
<1>6. ASSUME NEW w \in Workers, JoinNext(t, w) PROVE ReapInv'
  <2>1. t = Main
    BY <1>6 DEF JoinNext
  <2> QED
    BY <1>6, <2>1 DEF JoinNext, ReleaseAndJoin, threadVars
<1>7. ASSUME NEW w \in Workers, Detach(t, w) PROVE ReapInv'
  BY <1>7 DEF Detach, Running, waitVars
<1>8. CASE BeginJoinAll(t)
  <2>1. t = Main
    BY <1>8 DEF BeginJoinAll, OnlyMainJoins
  <2> QED
    BY <1>8, <2>1 DEF BeginJoinAll, Running, threadVars
<1>9. CASE JoinAllFails(t)
  <2>1. t = Main
    BY <1>9 DEF JoinAllFails
  <2> QED
    BY <1>9, <2>1 DEF JoinAllFails, threadVars
<1>10. CASE JoinAllEnds(t)
  <2>1. t = Main
    BY <1>10 DEF JoinAllEnds
  <2> QED
    BY <1>10, <2>1 DEF JoinAllEnds, threadVars
<1>11. CASE FinishJoin(t)
  <2>1. t = Main /\ target[t] \in Workers
    BY <1>11 DEF FinishJoin
  <2>2. pc[target[t]] = "done"
    BY <1>11, <2>1 DEF FinishJoin, JoinInv
  <2> QED
    BY <1>11, <2>1, <2>2 DEF FinishJoin, waitVars
<1>12. CASE FailJoin(t)
  <2>1. t = Main
    BY <1>12 DEF FailJoin, JoinThrows
  <2>2. ~JoinImpossible(t)
    BY <1>12, <2>1 DEF FailJoin, JoinThrows, JoinImpossible
  <2> QED
    BY <1>12, <2>2 DEF FailJoin, JoinThrows
<1>13. CASE Wake(t)
  <2>1. CASE t = Main
    <3>1. CASE purpose[Main] \in {"joinAll", "exit", "unwind"}
      BY <1>13, <2>1, <3>1 DEF Wake
    <3>2. CASE purpose[Main] \notin {"joinAll", "exit", "unwind"}
      BY <1>13, <2>1, <3>2 DEF Wake
    <3> QED
      BY <3>1, <3>2
  <2>2. CASE t \in Workers
    <3>1. /\ pc[t] = "waking" /\ pc'[Main] = pc[Main]
          /\ purpose'[Main] = purpose[Main]
          /\ \A w \in Workers : Alive(w)' => Alive(w)
          /\ UNCHANGED <<pending, detached>>
      BY <1>13, <2>2 DEF Wake
    <3>2. target'[Main] = target[Main]
      BY <1>13, <2>2 DEF Wake
    <3> QED
      BY <3>1, <3>2
  <2> QED
    BY <2>1, <2>2
<1> QED
  BY <1>1, <1>2, <1>3, <1>4, <1>5, <1>6, <1>7, <1>8, <1>9, <1>10, <1>11,
     <1>12, <1>13, <1>14 DEF Step

LEMMA ReapStep ==
  /\ OnlyMainJoins /\ OnlyMainStarts
  /\ TypeOK /\ LockInv /\ JoinInv /\ ReapInv
  /\ [Next]_vars
  => ReapInv'
<1> USE ThreadsAssumption DEF Threads
<1> SUFFICES ASSUME OnlyMainJoins, OnlyMainStarts,
                    TypeOK, LockInv, JoinInv, ReapInv, [Next]_vars
             PROVE  ReapInv'
  OBVIOUS
<1>1. CASE Step(Main)
  BY <1>1, ReapOfStep
<1>2. CASE MainReturns
  \* The snapshot holds every live thread that is not detached.
  <2>1. \A w \in Workers \ detached : Alive(w) => w \in registry \ detached
    BY DEF JoinInv
  <2>2. /\ pc'[Main] = "looping"
        /\ pending'[Main] = registry \ detached
        /\ detached' = detached
        /\ \A w \in Workers : pc'[w] = pc[w]
    BY <1>2 DEF MainReturns, threadVars, TypeOK
  <2> QED
    BY <2>1, <2>2 DEF ReapInv, Alive
<1>3. CASE ReapSkips
  BY <1>3 DEF ReapSkips, Exiting, threadVars, TypeOK, ReapInv, Alive
<1>4. CASE Exit
  BY <1>4 DEF Exit, Exiting, waitVars, threadVars, TypeOK, ReapInv, Alive
<1>7. CASE ReapFails \/ ReapTerminates
  BY <1>7, ReaperJoins DEF ReapFails, ReapTerminates
<1>5. ASSUME NEW w \in Workers, WorkerStep(w) PROVE ReapInv'
  <2> USE DEF waitVars, threadVars, TypeOK, ReapInv, Exiting, Alive
  <2>1. CASE Step(w)
    BY <2>1, ReapOfStep
  <2>2. CASE EnterCallback(w)
    BY <2>2 DEF EnterCallback
  <2>3. CASE FinishCallback(w)
    BY <2>3 DEF FinishCallback
  <2>4. CASE WriteStatus(w)
    BY <2>4 DEF WriteStatus
  <2>5. CASE Retire(w)
    BY <2>5 DEF Retire
  <2> QED
    BY <1>5, <2>1, <2>2, <2>3, <2>4, <2>5 DEF WorkerStep
<1>6. CASE UNCHANGED vars
  BY <1>6 DEF vars, waitVars, threadVars, ReapInv, Exiting, Alive
<1> QED
  BY <1>1, <1>2, <1>3, <1>4, <1>5, <1>6, <1>7 DEF Next, MainStep

\* When executeProgram has returned, no thread it can still join is going to
\* evaluate in the environment that is about to go away.
THEOREM ExitIsSafe ==
  ASSUME OnlyMainJoins, OnlyMainStarts PROVE Spec => []EnvironmentOutlivesThreads
<1>1. TypeOK /\ LockInv /\ JoinInv /\ ReapInv /\ [Next]_vars => ReapInv'
  BY ReapStep
<1>2. Spec => []ReapInv
  BY <1>1, ReapInit, TypeCorrect, LockInvariant, JoinInvariant, PTL DEF Spec
<1>3. TypeOK /\ LockInv /\ ReapInv => EnvironmentOutlivesThreads
  <2>1. TypeOK /\ LockInv /\ ReapInv /\ pc[Main] = "exited" =>
          \A w \in Workers \ detached :
            ~Alive(w) /\ pc[w] \notin {"exited", "aborted"}
    BY DEF LockInv, ReapInv, TypeOK
  <2> QED
    BY <2>1 DEF TypeOK, EnvironmentOutlivesThreads, Alive, Threads
<1> QED
  BY <1>2, <1>3, TypeCorrect, LockInvariant, PTL

=============================================================================
