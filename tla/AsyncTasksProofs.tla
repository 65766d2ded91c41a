-------------------------- MODULE AsyncTasksProofs --------------------------
(***************************************************************************)
(* Proofs about AsyncTasks, for any tasks and any program that runs,       *)
(* awaits and gathers them.                                                *)
(***************************************************************************)
EXTENDS AsyncTasksProperties, SequenceTheorems, TLAPS

-----------------------------------------------------------------------------
(* Type correctness *)

LEMMA TypeInit == Init => TypeOK
<1>1. <<>> \in Seq(Tasks)
  BY EmptySeq
<1> QED
  BY <1>1, TasksAssumption DEF Init, TypeOK, Threads, Answers

\* A thread that joins, or wakes up from a join, knows whom.
Targeted ==
  \A t \in Threads :
    pc[t] = "joining" \/ (pc[t] = "waking" /\ purpose[t] # "sleep") =>
      target[t] \in Tasks

LEMMA TargetInit == Init => Targeted
BY TasksAssumption DEF Init, Targeted, Threads

\* Targeted is inductive together with TypeOK.
LEMMA TargetOfStep ==
  ASSUME TypeOK, Targeted, NEW t \in Threads, Step(t)
  PROVE  Targeted'
<1> USE TasksAssumption DEF TypeOK, Targeted, Threads
<1>1. ASSUME NEW k \in Tasks, Run(t, k) PROVE Targeted'
  BY <1>1 DEF Run, waitVars
<1>2. ASSUME NEW k \in Tasks, Await(t, k) PROVE Targeted'
  BY <1>2 DEF Await, ReleaseAndJoin, unlockInterpreter, taskVars
<1>3. ASSUME NEW k \in Tasks, AwaitOther(t, k) PROVE Targeted'
  BY <1>3 DEF AwaitOther, waitVars, taskVars
<1>4. ASSUME NEW g \in Gathers, Gather(t, g[2]) PROVE Targeted'
  BY <1>4 DEF Gather, taskVars
<1>5. CASE Sleep(t)
  BY <1>5 DEF Sleep, unlockInterpreter, taskVars
<1>6. CASE AwaitSelf(t)
  BY <1>6 DEF AwaitSelf, waitVars, taskVars
<1>7. CASE GatherNext(t)
  <2>1. Head(pending[t]) \in Tasks /\ Tail(pending[t]) \in Seq(Tasks)
    BY <1>7, HeadTailProperties DEF GatherNext
  <2> QED
    BY <1>7, <2>1 DEF GatherNext, ReleaseAndJoin, unlockInterpreter, taskVars
<1>8. CASE GatherPasses(t)
  BY <1>8 DEF GatherPasses, taskVars
<1>9. CASE GatherRefused(t)
  BY <1>9 DEF GatherRefused, Resume, taskVars
<1>10. CASE GatherEnds(t)
  BY <1>10 DEF GatherEnds, Resume, taskVars
<1>11. CASE FinishJoin(t)
  BY <1>11 DEF FinishJoin, waitVars
<1>12. CASE FailJoin(t)
  BY <1>12 DEF FailJoin, Resume, taskVars
<1>13. CASE WakeFromSleep(t)
  BY <1>13 DEF WakeFromSleep, lockInterpreter, taskVars
<1>14. CASE WakeFromJoin(t)
  BY <1>14 DEF WakeFromJoin, lockInterpreter, Resume
<1> QED
  BY <1>1, <1>2, <1>3, <1>4, <1>5, <1>6, <1>7, <1>8, <1>9,
     <1>10, <1>11, <1>12, <1>13, <1>14 DEF Step

LEMMA TargetStep == TypeOK /\ Targeted /\ [Next]_vars => Targeted'
<1> USE TasksAssumption DEF TypeOK, Targeted, Threads
<1> SUFFICES ASSUME TypeOK, Targeted, [Next]_vars PROVE Targeted'
  OBVIOUS
<1>1. CASE Step(Main)
  BY <1>1, TargetOfStep
<1>2. CASE MainReturns
  BY <1>2 DEF MainReturns, taskVars
<1>3. CASE WakeFromReap
  BY <1>3 DEF WakeFromReap, lockInterpreter
<1>4. CASE ReapFails
  BY <1>4 DEF ReapFails, taskVars
<1>5. CASE ReapTerminates
  BY <1>5 DEF ReapTerminates, waitVars, taskVars
<1>6. CASE Exit
  BY <1>6 DEF Exit, unlockInterpreter, waitVars, taskVars
<1>7. ASSUME NEW k \in Tasks, ReapNext(k) PROVE Targeted'
  BY <1>7 DEF ReapNext, ReleaseAndJoin, unlockInterpreter, taskVars
<1>8. ASSUME NEW k \in Tasks, TaskStep(k) PROVE Targeted'
  <2>1. CASE Step(k)
    BY <2>1, TargetOfStep
  <2>2. CASE EnterTask(k)
    BY <2>2 DEF EnterTask, lockInterpreter, waitVars, taskVars
  <2>3. CASE FinishTask(k)
    BY <2>3 DEF FinishTask, unlockInterpreter, waitVars
  <2>4. CASE End(k)
    BY <2>4 DEF End, waitVars, taskVars
  <2> QED
    BY <1>8, <2>1, <2>2, <2>3, <2>4 DEF TaskStep
<1>9. CASE UNCHANGED vars
  BY <1>9 DEF vars, waitVars, taskVars
<1> QED
  BY <1>1, <1>2, <1>3, <1>4, <1>5, <1>6, <1>7, <1>8, <1>9 DEF Next, MainStep

\* Every step of a thread keeps the types.
LEMMA TypeOfStep ==
  ASSUME TypeOK, Targeted, NEW t \in Threads, Step(t)
  PROVE  TypeOK'
<1> USE TasksAssumption DEF TypeOK, Threads, Answers
<1>1. ASSUME NEW k \in Tasks, Run(t, k) PROVE TypeOK'
  BY <1>1 DEF Run, waitVars
<1>2. ASSUME NEW k \in Tasks, Await(t, k) PROVE TypeOK'
  BY <1>2 DEF Await, ReleaseAndJoin, unlockInterpreter, taskVars
<1>3. ASSUME NEW k \in Tasks, AwaitOther(t, k) PROVE TypeOK'
  BY <1>3 DEF AwaitOther, waitVars, taskVars
<1>4. ASSUME NEW g \in Gathers, Gather(t, g[2]) PROVE TypeOK'
  <2>1. g[2] \in Seq(Tasks)
    OBVIOUS
  <2> QED
    BY <1>4, <2>1, SMTT(60) DEF Gather, taskVars
<1>5. CASE Sleep(t)
  BY <1>5 DEF Sleep, unlockInterpreter, taskVars
<1>6. CASE AwaitSelf(t)
  BY <1>6, SMTT(60) DEF AwaitSelf, waitVars, taskVars
<1>7. CASE GatherNext(t)
  <2>1. Head(pending[t]) \in Tasks /\ Tail(pending[t]) \in Seq(Tasks)
    BY <1>7, HeadTailProperties DEF GatherNext
  <2> QED
    BY <1>7, <2>1 DEF GatherNext, ReleaseAndJoin, unlockInterpreter, taskVars
<1>8. CASE GatherPasses(t)
  <2>1. Tail(pending[t]) \in Seq(Tasks)
    BY <1>8, HeadTailProperties DEF GatherPasses
  <2> QED
    BY <1>8, <2>1 DEF GatherPasses, taskVars
<1>9. CASE GatherRefused(t)
  BY <1>9, EmptySeq DEF GatherRefused, Resume, taskVars
<1>10. CASE GatherEnds(t)
  BY <1>10, EmptySeq DEF GatherEnds, Resume, taskVars
<1>11. CASE FinishJoin(t)
  BY <1>11 DEF FinishJoin, waitVars
<1>12. CASE FailJoin(t)
  BY <1>12, EmptySeq DEF FailJoin, Resume, taskVars
<1>13. CASE WakeFromSleep(t)
  BY <1>13 DEF WakeFromSleep, lockInterpreter, taskVars
<1>14. CASE WakeFromJoin(t)
  <2>1. outcome[target[t]] \in {"none", "value", "error"}
    BY <1>14 DEF WakeFromJoin, Targeted
  <2>2. gil' \in Threads /\ registry' \in SUBSET Tasks
    BY <1>14 DEF WakeFromJoin, lockInterpreter
  <2>3. CASE pc' = [pc EXCEPT ![t] = "gathering"] /\ UNCHANGED <<purpose, pending, answer>>
    BY <1>14, <2>2, <2>3 DEF WakeFromJoin
  <2>4. CASE Resume(t, outcome[target[t]])
    BY <1>14, <2>1, <2>2, <2>4, EmptySeq DEF WakeFromJoin, Resume
  <2> QED
    BY <1>14, <2>3, <2>4 DEF WakeFromJoin
<1> QED
  BY <1>1, <1>2, <1>3, <1>4, <1>5, <1>6, <1>7, <1>8, <1>9,
     <1>10, <1>11, <1>12, <1>13, <1>14 DEF Step

\* So does every step of a task and of the main thread.
LEMMA TypeStep == TypeOK /\ Targeted /\ [Next]_vars => TypeOK'
<1> USE TasksAssumption DEF TypeOK, Threads, Answers
<1> SUFFICES ASSUME TypeOK, Targeted, [Next]_vars PROVE TypeOK'
  OBVIOUS
<1>1. CASE Step(Main)
  BY <1>1, TypeOfStep
<1>2. CASE MainReturns
  BY <1>2 DEF MainReturns, taskVars
<1>3. CASE WakeFromReap
  BY <1>3 DEF WakeFromReap, lockInterpreter
<1>4. CASE ReapFails
  BY <1>4 DEF ReapFails, taskVars
<1>5. CASE ReapTerminates
  BY <1>5 DEF ReapTerminates, waitVars, taskVars
<1>6. CASE Exit
  BY <1>6 DEF Exit, unlockInterpreter, waitVars, taskVars
<1>7. ASSUME NEW k \in Tasks, ReapNext(k) PROVE TypeOK'
  BY <1>7 DEF ReapNext, ReleaseAndJoin, unlockInterpreter, taskVars
<1>8. ASSUME NEW k \in Tasks, TaskStep(k) PROVE TypeOK'
  <2>1. CASE Step(k)
    BY <2>1, TypeOfStep
  <2>2. CASE EnterTask(k)
    BY <2>2 DEF EnterTask, lockInterpreter, waitVars, taskVars
  <2>3. CASE FinishTask(k)
    BY <2>3 DEF FinishTask, unlockInterpreter, waitVars
  <2>4. CASE End(k)
    BY <2>4 DEF End, waitVars, taskVars
  <2> QED
    BY <1>8, <2>1, <2>2, <2>3, <2>4 DEF TaskStep
<1>9. CASE UNCHANGED vars
  BY <1>9 DEF vars, waitVars, taskVars
<1> QED
  BY <1>1, <1>2, <1>3, <1>4, <1>5, <1>6, <1>7, <1>8, <1>9 DEF Next, MainStep

LEMMA TypeInvariant == Spec => [](TypeOK /\ Targeted)
<1> QED
  BY TypeInit, TargetInit, TypeStep, TargetStep, PTL DEF Spec

\* The variables keep their types, whatever the program runs, awaits and
\* gathers.
THEOREM TypeCorrect == Spec => []TypeOK
<1> QED
  BY TypeInvariant, PTL

-----------------------------------------------------------------------------
(* The interpreter lock *)

LEMMA LockInit == Init => BlockedReleaseTheLock
BY TasksAssumption DEF Init, BlockedReleaseTheLock, Threads

\* Whoever stops evaluating has released the lock, also after a failed join.
LEMMA LockOfStep ==
  ASSUME TypeOK, BlockedReleaseTheLock, NEW t \in Threads, Step(t)
  PROVE  BlockedReleaseTheLock'
<1> USE TasksAssumption DEF TypeOK, BlockedReleaseTheLock, Threads
<1>1. ASSUME NEW k \in Tasks, Run(t, k) PROVE BlockedReleaseTheLock'
  BY <1>1 DEF Run, waitVars
<1>2. ASSUME NEW k \in Tasks, Await(t, k) PROVE BlockedReleaseTheLock'
  BY <1>2 DEF Await, ReleaseAndJoin, unlockInterpreter, taskVars, Running
<1>3. ASSUME NEW k \in Tasks, AwaitOther(t, k) PROVE BlockedReleaseTheLock'
  BY <1>3 DEF AwaitOther, waitVars, taskVars
<1>4. ASSUME NEW g \in Gathers, Gather(t, g[2]) PROVE BlockedReleaseTheLock'
  BY <1>4 DEF Gather, taskVars
<1>5. CASE Sleep(t)
  BY <1>5 DEF Sleep, unlockInterpreter, taskVars, Running
<1>6. CASE AwaitSelf(t)
  BY <1>6 DEF AwaitSelf, waitVars, taskVars
<1>7. CASE GatherNext(t)
  BY <1>7 DEF GatherNext, ReleaseAndJoin, unlockInterpreter, taskVars
<1>8. CASE GatherPasses(t)
  BY <1>8 DEF GatherPasses, taskVars
<1>9. CASE GatherRefused(t)
  BY <1>9 DEF GatherRefused, Resume, taskVars
<1>10. CASE GatherEnds(t)
  BY <1>10 DEF GatherEnds, Resume, taskVars
<1>11. CASE FinishJoin(t)
  BY <1>11 DEF FinishJoin, waitVars
<1>12. CASE FailJoin(t)
  BY <1>12 DEF FailJoin, Resume, taskVars, JoinThrows
<1>13. CASE WakeFromSleep(t)
  BY <1>13 DEF WakeFromSleep, lockInterpreter, taskVars
<1>14. CASE WakeFromJoin(t)
  BY <1>14 DEF WakeFromJoin, lockInterpreter, Resume
<1> QED
  BY <1>1, <1>2, <1>3, <1>4, <1>5, <1>6, <1>7, <1>8, <1>9,
     <1>10, <1>11, <1>12, <1>13, <1>14 DEF Step

LEMMA LockStep == TypeOK /\ BlockedReleaseTheLock /\ [Next]_vars => BlockedReleaseTheLock'
<1> USE TasksAssumption DEF TypeOK, BlockedReleaseTheLock, Threads
<1> SUFFICES ASSUME TypeOK, BlockedReleaseTheLock, [Next]_vars PROVE BlockedReleaseTheLock'
  OBVIOUS
<1>1. CASE Step(Main)
  BY <1>1, LockOfStep
<1>2. CASE MainReturns
  BY <1>2 DEF MainReturns, taskVars, Running
<1>3. CASE WakeFromReap
  BY <1>3 DEF WakeFromReap, lockInterpreter
<1>4. CASE ReapFails
  BY <1>4 DEF ReapFails, taskVars, JoinThrows
<1>5. CASE ReapTerminates
  BY <1>5 DEF ReapTerminates, waitVars, taskVars
<1>6. CASE Exit
  BY <1>6 DEF Exit, unlockInterpreter, waitVars, taskVars
<1>7. ASSUME NEW k \in Tasks, ReapNext(k) PROVE BlockedReleaseTheLock'
  BY <1>7 DEF ReapNext, ReleaseAndJoin, unlockInterpreter, taskVars
<1>8. ASSUME NEW k \in Tasks, TaskStep(k) PROVE BlockedReleaseTheLock'
  <2>1. CASE Step(k)
    BY <2>1, LockOfStep
  <2>2. CASE EnterTask(k)
    BY <2>2 DEF EnterTask, lockInterpreter, waitVars, taskVars
  <2>3. CASE FinishTask(k)
    BY <2>3 DEF FinishTask, unlockInterpreter, waitVars, Running
  <2>4. CASE End(k)
    BY <2>4 DEF End, waitVars, taskVars
  <2> QED
    BY <1>8, <2>1, <2>2, <2>3, <2>4 DEF TaskStep
<1>9. CASE UNCHANGED vars
  BY <1>9 DEF vars, waitVars, taskVars
<1> QED
  BY <1>1, <1>2, <1>3, <1>4, <1>5, <1>6, <1>7, <1>8, <1>9 DEF Next, MainStep

\* No thread that sleeps, joins or has ended keeps the interpreter lock, in any
\* program, joins that throw included.
THEOREM TheLockIsReleased == Spec => []BlockedReleaseTheLock
<1> QED
  BY TypeInvariant, LockInit, LockStep, PTL DEF Spec

-----------------------------------------------------------------------------
(* Handles and outcomes *)

Born(k) == pc[k] # "unborn"

\* Where a task's handle, its std::thread and its outcome are.
JoinedInv ==
  /\ joinable \subseteq registry
  /\ \A k \in registry : Born(k)
  /\ \A t \in Threads : target[t] \in Tasks => Born(target[t])
  /\ \A k \in snapshot : Born(k)
  /\ \A k \in Tasks \ joinable : Born(k) => pc[k] \in {"done", "aborted"}
  /\ \A t \in Threads :
       pc[t] = "waking" /\ purpose[t] # "sleep" => target[t] \notin joinable
  /\ \A k \in Tasks : pc[k] \in {"ending", "done"} => outcome[k] # "none"
  /\ \A t, u \in Threads : pc[t] = "aborted" => pc[u] = "aborted"

LEMMA JoinedInit == Init => JoinedInv
<1> SUFFICES ASSUME Init PROVE JoinedInv
  OBVIOUS
<1>1. \A t \in Threads : pc[t] = IF t = Main THEN "running" ELSE "unborn"
  BY DEF Init
<1>2. \A k \in Tasks : ~Born(k)
  BY <1>1, TasksAssumption DEF Born, Threads
<1>3. \A t \in Threads : target[t] \notin Tasks /\ pc[t] \notin {"waking", "aborted"}
  BY <1>1, TasksAssumption DEF Init, Threads
<1> QED
  BY <1>2, <1>3 DEF Init, JoinedInv, Born

\* A handle is erased only by a thread that has joined it.
LEMMA JoinedOfStep ==
  ASSUME TypeOK, Targeted, JoinedInv, NEW t \in Threads, Step(t)
  PROVE  JoinedInv'
<1> USE TasksAssumption DEF TypeOK, Targeted, JoinedInv, Born, Threads
<1>1. ASSUME NEW k \in Tasks, Run(t, k) PROVE JoinedInv'
  BY <1>1 DEF Run, waitVars
<1>2. ASSUME NEW k \in Tasks, Await(t, k) PROVE JoinedInv'
  BY <1>2 DEF Await, ReleaseAndJoin, unlockInterpreter, taskVars, Running
<1>3. ASSUME NEW k \in Tasks, AwaitOther(t, k) PROVE JoinedInv'
  BY <1>3 DEF AwaitOther, waitVars, taskVars
<1>4. ASSUME NEW g \in Gathers, Gather(t, g[2]) PROVE JoinedInv'
  BY <1>4 DEF Gather, taskVars, Running
<1>5. CASE Sleep(t)
  BY <1>5 DEF Sleep, unlockInterpreter, taskVars, Running
<1>6. CASE AwaitSelf(t)
  BY <1>6 DEF AwaitSelf, waitVars, taskVars
<1>7. CASE GatherNext(t)
  BY <1>7 DEF GatherNext, ReleaseAndJoin, unlockInterpreter, taskVars
<1>8. CASE GatherPasses(t)
  BY <1>8 DEF GatherPasses, taskVars
<1>9. CASE GatherRefused(t)
  BY <1>9 DEF GatherRefused, Resume, taskVars
<1>10. CASE GatherEnds(t)
  BY <1>10 DEF GatherEnds, Resume, taskVars
<1>11. CASE FinishJoin(t)
  BY <1>11 DEF FinishJoin, waitVars
<1>12. CASE FailJoin(t)
  BY <1>12 DEF FailJoin, Resume, taskVars, JoinThrows
<1>13. CASE WakeFromSleep(t)
  BY <1>13 DEF WakeFromSleep, lockInterpreter, taskVars
<1>14. CASE WakeFromJoin(t)
  <2>1. target[t] \in Tasks /\ target[t] \notin joinable /\ target[t] # NoTask
    BY <1>14 DEF WakeFromJoin
  <2>2. \E p \in {"running", "gathering"} : pc' = [pc EXCEPT ![t] = p]
    BY <1>14 DEF WakeFromJoin, Resume
  <2>3. joinable' \subseteq registry'
    BY <1>14, <2>1 DEF WakeFromJoin
  <2>4. \A u \in Threads : u # t => purpose'[u] = purpose[u]
    BY <1>14 DEF WakeFromJoin, Resume
  <2> QED
    BY <1>14, <2>1, <2>2, <2>3, <2>4 DEF WakeFromJoin
<1> QED
  BY <1>1, <1>2, <1>3, <1>4, <1>5, <1>6, <1>7, <1>8, <1>9,
     <1>10, <1>11, <1>12, <1>13, <1>14 DEF Step

LEMMA JoinedStep == TypeOK /\ Targeted /\ JoinedInv /\ [Next]_vars => JoinedInv'
<1> USE TasksAssumption DEF TypeOK, Targeted, JoinedInv, Born, Threads
<1> SUFFICES ASSUME TypeOK, Targeted, JoinedInv, [Next]_vars PROVE JoinedInv'
  OBVIOUS
<1>1. CASE Step(Main)
  BY <1>1, JoinedOfStep
<1>2. CASE MainReturns
  BY <1>2 DEF MainReturns, taskVars, Running
<1>3. CASE WakeFromReap
  BY <1>3 DEF WakeFromReap, lockInterpreter, Exiting
<1>4. CASE ReapFails
  BY <1>4 DEF ReapFails, taskVars, JoinThrows
<1>5. CASE ReapTerminates
  BY <1>5 DEF ReapTerminates, waitVars, taskVars
<1>6. CASE Exit
  BY <1>6 DEF Exit, unlockInterpreter, waitVars, taskVars
<1>7. ASSUME NEW k \in Tasks, ReapNext(k) PROVE JoinedInv'
  BY <1>7 DEF ReapNext, ReleaseAndJoin, unlockInterpreter, taskVars
<1>8. ASSUME NEW k \in Tasks, TaskStep(k) PROVE JoinedInv'
  <2>1. CASE Step(k)
    BY <2>1, JoinedOfStep
  <2>2. CASE EnterTask(k)
    BY <2>2 DEF EnterTask, lockInterpreter, waitVars, taskVars
  <2>3. CASE FinishTask(k)
    BY <2>3 DEF FinishTask, unlockInterpreter, waitVars, Running
  <2>4. CASE End(k)
    BY <2>4 DEF End, waitVars, taskVars
  <2> QED
    BY <1>8, <2>1, <2>2, <2>3, <2>4 DEF TaskStep
<1>9. CASE UNCHANGED vars
  BY <1>9 DEF vars, waitVars, taskVars
<1> QED
  BY <1>1, <1>2, <1>3, <1>4, <1>5, <1>6, <1>7, <1>8, <1>9 DEF Next, MainStep

LEMMA JoinedInvariant == Spec => []JoinedInv
<1> QED
  BY TypeInvariant, JoinedInit, JoinedStep, PTL DEF Spec

\* A task whose handle is gone has ended and its thread was joined: the reaper
\* finds everything that may still evaluate.
THEOREM ErasedTasksWereJoined == Spec => []ErasedTasksAreJoined
<1>1. TypeOK /\ JoinedInv => ErasedTasksAreJoined
  BY DEF TypeOK, JoinedInv, ErasedTasksAreJoined, Born
<1> QED
  BY <1>1, TypeInvariant, JoinedInvariant, PTL

\* An await that returns has waited for the end of the task and has its
\* outcome, whoever else was joining it.
THEOREM AwaitWaitsForTheEnd == Spec => AwaitsAnswerWithOutcomes
<1>1. ASSUME TypeOK, Targeted, JoinedInv, NEW t \in Threads, WakeFromJoin(t)
      PROVE  pc[target[t]] = "done" /\ outcome[target[t]] # "none"
  <2>1. target[t] \in Tasks /\ target[t] \notin joinable
    BY <1>1 DEF WakeFromJoin, Targeted, JoinedInv
  <2>2. pc[target[t]] \in {"done", "aborted"}
    BY <1>1, <2>1 DEF JoinedInv
  <2>3. pc[target[t]] # "aborted"
    BY <1>1, <2>1 DEF JoinedInv, WakeFromJoin, Threads
  <2> QED
    BY <1>1, <2>1, <2>2, <2>3 DEF JoinedInv
<1>2. TypeOK /\ Targeted /\ JoinedInv /\ [Next]_vars =>
        [\A t \in Threads :
           WakeFromJoin(t) => /\ pc[target[t]] = "done"
                              /\ outcome[target[t]] # "none"]_vars
  BY <1>1
<1> QED
  BY <1>2, TypeInvariant, JoinedInvariant, PTL DEF Spec, AwaitsAnswerWithOutcomes

-----------------------------------------------------------------------------
(* Exclusion, for the programs docs/async.md describes *)

\* t may await k, alone or in a gather.
MayAwait(t, k) ==
  \/ <<t, k>> \in Awaits
  \/ \E g \in Gathers : g[1] = t /\ \E i \in 1..Len(g[2]) : g[2][i] = k

\* Every task is awaited by one thread, other than itself.
OneAwaiter ==
  \A t, u \in Threads : \A k \in Tasks \ {t, u} :
    MayAwait(t, k) /\ MayAwait(u, k) => t = u

\* No two tasks await each other.
NoMutualAwait ==
  \A t, u \in Tasks : MayAwait(t, u) /\ MayAwait(u, t) => t = u

\* Who waits for whom, and where the main thread may be in its reaper.
WaitsInv ==
  /\ \A t \in Threads : \A i \in 1..Len(pending[t]) : MayAwait(t, pending[t][i])
  /\ \A t \in Threads :
       pc[t] = "joining" /\ ~Exiting(t) =>
         MayAwait(t, target[t]) /\ target[t] # t
  /\ \A k \in Tasks : ~Exiting(k)
  /\ Exiting(Main) => pc[Main] \notin {"running", "gathering"}
  /\ pc[Main] = "reaping" => Exiting(Main)

LEMMA WaitsInit == Init => WaitsInv
<1> SUFFICES ASSUME Init PROVE WaitsInv
  OBVIOUS
<1>1. \A t \in Threads : pending[t] = <<>> /\ ~Exiting(t)
  BY DEF Init, Exiting
<1>2. \A t \in Threads : pc[t] \notin {"joining", "reaping"}
  BY DEF Init
<1> QED
  BY <1>1, <1>2 DEF WaitsInv, Threads

LEMMA TailIsPart ==
  ASSUME NEW s \in Seq(Tasks), s # <<>>
  PROVE  /\ Head(s) = s[1] /\ 1 \in 1..Len(s)
         /\ \A i \in 1..Len(Tail(s)) : Tail(s)[i] = s[i + 1] /\ i + 1 \in 1..Len(s)
<1>1. Len(s) \in Nat \ {0}
  BY EmptySeq, LenProperties
<1>2. Len(Tail(s)) = Len(s) - 1
  BY HeadTailProperties
<1>3. \A i \in 1..Len(Tail(s)) : Tail(s)[i] = s[i + 1]
  BY <1>1, HeadTailProperties
<1> QED
  BY <1>1, <1>2, <1>3, HeadTailProperties

\* A thread joins only the tasks it awaits or gathers, unless it is the reaper.
LEMMA WaitsOfStep ==
  ASSUME TypeOK, WaitsInv, NEW t \in Threads, Step(t)
  PROVE  WaitsInv'
<1> USE TasksAssumption DEF TypeOK, WaitsInv, Threads, Exiting
<1>1. ASSUME NEW k \in Tasks, Run(t, k) PROVE WaitsInv'
  BY <1>1 DEF Run, waitVars
<1>2. ASSUME NEW k \in Tasks, Await(t, k) PROVE WaitsInv'
  <2>1. MayAwait(t, k) /\ k # t /\ pc[t] = "running"
    BY <1>2 DEF Await, MayAwait, Running
  <2> QED
    BY <1>2, <2>1, SMTT(60) DEF Await, ReleaseAndJoin
<1>3. ASSUME NEW k \in Tasks, AwaitOther(t, k) PROVE WaitsInv'
  BY <1>3 DEF AwaitOther, waitVars, taskVars
<1>4. ASSUME NEW g \in Gathers, Gather(t, g[2]) PROVE WaitsInv'
  <2>1. <<t, g[2]>> \in Gathers
    BY <1>4 DEF Gather
  <2>2. \A i \in 1..Len(g[2]) : MayAwait(t, g[2][i])
    BY <2>1, ZenonT(60) DEF MayAwait
  <2>3. pc[t] = "running"
    BY <1>4 DEF Gather, Running
  <2> QED
    BY <1>4, <2>2, <2>3 DEF Gather, taskVars
<1>5. CASE Sleep(t)
  BY <1>5 DEF Sleep, unlockInterpreter, taskVars, Running
<1>6. CASE AwaitSelf(t)
  BY <1>6 DEF AwaitSelf, waitVars, taskVars
<1>7. CASE GatherNext(t)
  <2>1. /\ Head(pending[t]) = pending[t][1] /\ 1 \in 1..Len(pending[t])
        /\ \A i \in 1..Len(Tail(pending[t])) :
             Tail(pending[t])[i] = pending[t][i + 1] /\ i + 1 \in 1..Len(pending[t])
    BY <1>7, TailIsPart DEF GatherNext
  <2>2. MayAwait(t, Head(pending[t])) /\ Head(pending[t]) # t
    BY <1>7, <2>1 DEF GatherNext
  <2>3. \A i \in 1..Len(Tail(pending[t])) : MayAwait(t, Tail(pending[t])[i])
    BY <2>1
  <2> QED
    BY <1>7, <2>2, <2>3, SMTT(60) DEF GatherNext, ReleaseAndJoin
<1>8. CASE GatherPasses(t)
  <2>1. \A i \in 1..Len(Tail(pending[t])) :
          Tail(pending[t])[i] = pending[t][i + 1] /\ i + 1 \in 1..Len(pending[t])
    BY <1>8, TailIsPart DEF GatherPasses
  <2>2. \A i \in 1..Len(Tail(pending[t])) : MayAwait(t, Tail(pending[t])[i])
    BY <2>1
  <2> QED
    BY <1>8, <2>2 DEF GatherPasses
<1>9. CASE GatherRefused(t)
  BY <1>9 DEF GatherRefused, Resume, taskVars
<1>10. CASE GatherEnds(t)
  BY <1>10 DEF GatherEnds, Resume, taskVars
<1>11. CASE FinishJoin(t)
  BY <1>11 DEF FinishJoin, waitVars
<1>12. CASE FailJoin(t)
  BY <1>12 DEF FailJoin, Resume, taskVars, JoinThrows
<1>13. CASE WakeFromSleep(t)
  BY <1>13 DEF WakeFromSleep, lockInterpreter, taskVars
<1>14. CASE WakeFromJoin(t)
  <2>1. ~Exiting(t) /\ pc[t] = "waking"
    BY <1>14 DEF WakeFromJoin
  <2>2. CASE pc' = [pc EXCEPT ![t] = "gathering"] /\ UNCHANGED <<purpose, pending>>
    BY <1>14, <2>1, <2>2 DEF WakeFromJoin
  <2>3. CASE Resume(t, outcome[target[t]])
    BY <1>14, <2>1, <2>3 DEF WakeFromJoin, Resume
  <2> QED
    BY <1>14, <2>2, <2>3 DEF WakeFromJoin
<1> QED
  BY <1>1, <1>2, <1>3, <1>4, <1>5, <1>6, <1>7, <1>8, <1>9,
     <1>10, <1>11, <1>12, <1>13, <1>14 DEF Step

LEMMA WaitsStep == TypeOK /\ WaitsInv /\ [Next]_vars => WaitsInv'
<1> USE TasksAssumption DEF TypeOK, WaitsInv, Threads, Exiting
<1> SUFFICES ASSUME TypeOK, WaitsInv, [Next]_vars PROVE WaitsInv'
  OBVIOUS
<1>1. CASE Step(Main)
  BY <1>1, WaitsOfStep
<1>2. CASE MainReturns
  BY <1>2 DEF MainReturns, taskVars, Running
<1>3. CASE WakeFromReap
  BY <1>3 DEF WakeFromReap, lockInterpreter, Exiting
<1>4. CASE ReapFails
  BY <1>4 DEF ReapFails, taskVars, JoinThrows
<1>5. CASE ReapTerminates
  BY <1>5 DEF ReapTerminates, waitVars, taskVars
<1>6. CASE Exit
  BY <1>6 DEF Exit, unlockInterpreter, waitVars, taskVars
<1>7. ASSUME NEW k \in Tasks, ReapNext(k) PROVE WaitsInv'
  BY <1>7 DEF ReapNext, ReleaseAndJoin, unlockInterpreter, taskVars
<1>8. ASSUME NEW k \in Tasks, TaskStep(k) PROVE WaitsInv'
  <2>1. CASE Step(k)
    BY <2>1, WaitsOfStep
  <2>2. CASE EnterTask(k)
    BY <2>2 DEF EnterTask, lockInterpreter, waitVars, taskVars
  <2>3. CASE FinishTask(k)
    BY <2>3 DEF FinishTask, unlockInterpreter, waitVars, Running
  <2>4. CASE End(k)
    BY <2>4 DEF End, waitVars, taskVars
  <2> QED
    BY <1>8, <2>1, <2>2, <2>3, <2>4 DEF TaskStep
<1>9. CASE UNCHANGED vars
  BY <1>9 DEF vars, waitVars, taskVars
<1> QED
  BY <1>1, <1>2, <1>3, <1>4, <1>5, <1>6, <1>7, <1>8, <1>9 DEF Next, MainStep

\* Until main comes to its end, whoever evaluates holds the lock.
HoldsInv == ~Exiting(Main) => \A t \in Evaluating : gil = t

LEMMA HoldsInit == Init => HoldsInv
BY TasksAssumption DEF Init, HoldsInv, Evaluating, Threads

\* A join throws only in programs in which two threads await one task or two
\* tasks await each other, or beside the reaper.
LEMMA JoinsSucceed ==
  ASSUME TypeOK, Targeted, WaitsInv, OneAwaiter, NoMutualAwait, ~Exiting(Main),
         NEW t \in Threads
  PROVE  ~JoinThrows(t)
<1> USE TasksAssumption DEF Threads
<1> SUFFICES ASSUME JoinThrows(t) PROVE FALSE
  OBVIOUS
<1>1. \A u \in Threads : ~Exiting(u)
  BY DEF WaitsInv
<1>2. pc[t] = "joining" /\ target[t] \in Tasks /\ MayAwait(t, target[t]) /\ target[t] # t
  BY <1>1 DEF JoinThrows, Targeted, WaitsInv
<1>3. ASSUME NEW u \in Threads \ {t}, pc[u] = "joining", target[u] = target[t]
      PROVE  FALSE
  <2>1. MayAwait(u, target[t]) /\ target[t] # u
    BY <1>1, <1>3 DEF WaitsInv
  <2> QED
    BY <1>2, <1>3, <2>1 DEF OneAwaiter
<1>4. CASE pc[target[t]] = "joining" /\ target[target[t]] = t
  <2>1. t \in Tasks /\ MayAwait(target[t], t)
    BY <1>1, <1>2, <1>4 DEF WaitsInv, Targeted
  <2> QED
    BY <1>2, <2>1 DEF NoMutualAwait
<1> QED
  BY <1>3, <1>4 DEF JoinThrows

LEMMA HoldsOfStep ==
  ASSUME TypeOK, Targeted, WaitsInv, OneAwaiter, NoMutualAwait, HoldsInv, NEW t \in Threads, Step(t)
  PROVE  HoldsInv'
<1> USE TasksAssumption DEF TypeOK, WaitsInv, HoldsInv, Evaluating, Threads
<1>1. ASSUME NEW k \in Tasks, Run(t, k) PROVE HoldsInv'
  BY <1>1 DEF Run, waitVars, Running, Exiting
<1>2. ASSUME NEW k \in Tasks, Await(t, k) PROVE HoldsInv'
  BY <1>2 DEF Await, ReleaseAndJoin, unlockInterpreter, taskVars, Running, Exiting
<1>3. ASSUME NEW k \in Tasks, AwaitOther(t, k) PROVE HoldsInv'
  BY <1>3 DEF AwaitOther, waitVars, taskVars, Running, Exiting
<1>4. ASSUME NEW g \in Gathers, Gather(t, g[2]) PROVE HoldsInv'
  BY <1>4 DEF Gather, taskVars, Running, Exiting
<1>5. CASE Sleep(t)
  BY <1>5 DEF Sleep, unlockInterpreter, taskVars, Running, Exiting
<1>6. CASE AwaitSelf(t)
  BY <1>6 DEF AwaitSelf, waitVars, taskVars, Running, Exiting
<1>7. CASE GatherNext(t)
  BY <1>7 DEF GatherNext, ReleaseAndJoin, unlockInterpreter, taskVars, Exiting
<1>8. CASE GatherPasses(t)
  BY <1>8 DEF GatherPasses, taskVars, Exiting
<1>9. CASE GatherRefused(t)
  BY <1>9 DEF GatherRefused, Resume, taskVars, Exiting
<1>10. CASE GatherEnds(t)
  BY <1>10 DEF GatherEnds, Resume, taskVars, Exiting
<1>11. CASE FinishJoin(t)
  BY <1>11 DEF FinishJoin, waitVars, Exiting
<1>12. CASE FailJoin(t)
  <2>1. ~Exiting(t) /\ JoinThrows(t)
    BY <1>12 DEF FailJoin
  <2>2. Exiting(Main)
    BY <2>1, JoinsSucceed
  <2>3. purpose'[Main] = purpose[Main]
    BY <1>12, <2>1, <2>2 DEF FailJoin, Resume
  <2> QED
    BY <2>2, <2>3 DEF Exiting
<1>13. CASE WakeFromSleep(t)
  BY <1>13 DEF WakeFromSleep, lockInterpreter, taskVars, Exiting
<1>14. CASE WakeFromJoin(t)
  BY <1>14 DEF WakeFromJoin, lockInterpreter, Resume, Exiting
<1> QED
  BY <1>1, <1>2, <1>3, <1>4, <1>5, <1>6, <1>7, <1>8, <1>9,
     <1>10, <1>11, <1>12, <1>13, <1>14 DEF Step

LEMMA HoldsStep == TypeOK /\ Targeted /\ WaitsInv /\ OneAwaiter /\ NoMutualAwait /\ HoldsInv /\ [Next]_vars => HoldsInv'
<1> USE TasksAssumption DEF TypeOK, WaitsInv, HoldsInv, Evaluating, Threads
<1> SUFFICES ASSUME TypeOK, Targeted, WaitsInv, OneAwaiter, NoMutualAwait, HoldsInv, [Next]_vars PROVE HoldsInv'
  OBVIOUS
<1>1. CASE Step(Main)
  BY <1>1, HoldsOfStep
<1>2. CASE MainReturns
  BY <1>2 DEF MainReturns, taskVars, Running, Exiting
<1>3. CASE WakeFromReap
  BY <1>3 DEF WakeFromReap, lockInterpreter, Exiting
<1>4. CASE ReapFails
  BY <1>4 DEF ReapFails, taskVars, Exiting, JoinThrows
<1>5. CASE ReapTerminates
  BY <1>5 DEF ReapTerminates, waitVars, taskVars, Exiting
<1>6. CASE Exit
  BY <1>6 DEF Exit, unlockInterpreter, waitVars, taskVars, Exiting
<1>7. ASSUME NEW k \in Tasks, ReapNext(k) PROVE HoldsInv'
  BY <1>7 DEF ReapNext, ReleaseAndJoin, unlockInterpreter, taskVars, Exiting
<1>8. ASSUME NEW k \in Tasks, TaskStep(k) PROVE HoldsInv'
  <2>1. CASE Step(k)
    BY <2>1, HoldsOfStep
  <2>2. CASE EnterTask(k)
    BY <2>2 DEF EnterTask, lockInterpreter, waitVars, taskVars, Exiting
  <2>3. CASE FinishTask(k)
    BY <2>3 DEF FinishTask, unlockInterpreter, waitVars, Running, Exiting
  <2>4. CASE End(k)
    BY <2>4 DEF End, waitVars, taskVars, Exiting
  <2> QED
    BY <1>8, <2>1, <2>2, <2>3, <2>4 DEF TaskStep
<1>9. CASE UNCHANGED vars
  BY <1>9 DEF vars, waitVars, taskVars, Exiting
<1> QED
  BY <1>1, <1>2, <1>3, <1>4, <1>5, <1>6, <1>7, <1>8, <1>9 DEF Next, MainStep

\* In every program in which each task is awaited by one thread and no two tasks
\* await each other, one thread at a time evaluates until main comes to its end.
THEOREM OneThreadEvaluates ==
  ASSUME OneAwaiter, NoMutualAwait
  PROVE  Spec => []ExclusiveUntilTheEnd
<1>1. OneAwaiter /\ NoMutualAwait
  OBVIOUS
<1>2. Init => HoldsInv
  BY HoldsInit
<1>3. TypeOK /\ Targeted /\ WaitsInv /\ HoldsInv /\ [Next]_vars => HoldsInv'
  BY <1>1, HoldsStep
<1>4. HoldsInv => ExclusiveUntilTheEnd
  BY DEF HoldsInv, ExclusiveUntilTheEnd, NeverEvaluateAtOnce
<1> QED
  BY <1>2, <1>3, <1>4, TypeInvariant, WaitsInit, WaitsStep, PTL DEF Spec

-----------------------------------------------------------------------------
(* AsyncTasks implements Evaluation *)

\* Whoever evaluates holds the lock.
EvaluatorsHold == \A t \in Evaluating : gil = t

\* How a thread may come to evaluate, and how it stops.
LEMMA Handover ==
  ASSUME TypeOK, EvaluatorsHold, NEW t \in Threads,
         \/ Evaluating' = Evaluating
         \/ gil = NoThread /\ Evaluating' = Evaluating \cup {t}
         \/ t \in Evaluating /\ Evaluating' = Evaluating \ {t}
  PROVE  [EvaluationSpec!Next]_Evaluating
<1> USE DEF EvaluatorsHold
<1>1. CASE gil = NoThread /\ Evaluating' = Evaluating \cup {t}
  <2>1. Evaluating = {}
    BY <1>1, TasksAssumption DEF Evaluating
  <2> QED
    BY <1>1, <2>1 DEF EvaluationSpec!Next, EvaluationSpec!Enter
<1>2. CASE t \in Evaluating /\ Evaluating' = Evaluating \ {t}
  <2>1. Evaluating = {t}
    BY <1>2
  <2> QED
    BY <1>2, <2>1 DEF EvaluationSpec!Next, EvaluationSpec!Leave
<1> QED
  BY <1>1, <1>2

\* A step of a thread whose join does not throw.
LEMMA HandoverOfStep ==
  ASSUME TypeOK, EvaluatorsHold, NEW t \in Threads, Step(t), ~JoinThrows(t)
  PROVE  [EvaluationSpec!Next]_Evaluating
<1> USE DEF TypeOK
<1>1. ASSUME NEW k \in Tasks, Run(t, k) PROVE Evaluating' = Evaluating
  BY <1>1 DEF Run, Evaluating, Threads
<1>2. ASSUME NEW k \in Tasks, Await(t, k)
      PROVE  t \in Evaluating /\ Evaluating' = Evaluating \ {t}
  BY <1>2 DEF Await, ReleaseAndJoin, Running, Evaluating
<1>3. ASSUME NEW k \in Tasks, AwaitOther(t, k) PROVE Evaluating' = Evaluating
  BY <1>3 DEF AwaitOther, Evaluating
<1>4. ASSUME NEW g \in Gathers, Gather(t, g[2]) PROVE Evaluating' = Evaluating
  BY <1>4 DEF Gather, Running, Evaluating
<1>5. ASSUME Sleep(t) PROVE t \in Evaluating /\ Evaluating' = Evaluating \ {t}
  BY <1>5 DEF Sleep, Running, Evaluating
<1>6. ASSUME AwaitSelf(t) PROVE Evaluating' = Evaluating
  BY <1>6 DEF AwaitSelf, Evaluating
<1>7. ASSUME GatherNext(t) PROVE t \in Evaluating /\ Evaluating' = Evaluating \ {t}
  BY <1>7 DEF GatherNext, ReleaseAndJoin, Evaluating
<1>8. ASSUME GatherPasses(t) PROVE Evaluating' = Evaluating
  BY <1>8 DEF GatherPasses, Evaluating
<1>9. ASSUME GatherRefused(t) \/ GatherEnds(t) PROVE Evaluating' = Evaluating
  BY <1>9 DEF GatherRefused, GatherEnds, Resume, Evaluating
<1>10. ASSUME FinishJoin(t) PROVE Evaluating' = Evaluating
  BY <1>10 DEF FinishJoin, Evaluating
<1>11. ASSUME FailJoin(t) PROVE FALSE
  BY <1>11 DEF FailJoin
<1>12. ASSUME WakeFromSleep(t)
       PROVE  gil = NoThread /\ Evaluating' = Evaluating \cup {t}
  BY <1>12 DEF WakeFromSleep, lockInterpreter, Evaluating
<1>13. ASSUME WakeFromJoin(t)
       PROVE  gil = NoThread /\ Evaluating' = Evaluating \cup {t}
  BY <1>13 DEF WakeFromJoin, lockInterpreter, Resume, Evaluating
<1> QED
  BY <1>1, <1>2, <1>3, <1>4, <1>5, <1>6, <1>7, <1>8, <1>9, <1>10, <1>11, <1>12,
     <1>13, Handover DEF Step

LEMMA HandoverStep ==
  ASSUME TypeOK, EvaluatorsHold, \A t \in Threads : ~JoinThrows(t), [Next]_vars
  PROVE  [EvaluationSpec!Next]_Evaluating
<1> USE DEF TypeOK
<1>1. CASE Step(Main)
  BY <1>1, HandoverOfStep DEF Threads
<1>2. ASSUME MainReturns PROVE Main \in Evaluating /\ Evaluating' = Evaluating \ {Main}
  BY <1>2 DEF MainReturns, Running, Evaluating, Threads
<1>3. ASSUME WakeFromReap PROVE Evaluating' = Evaluating
  BY <1>3 DEF WakeFromReap, Evaluating, Threads
<1>4. ASSUME ReapFails \/ ReapTerminates PROVE FALSE
  BY <1>4 DEF ReapFails, ReapTerminates, Threads
<1>5. ASSUME Exit PROVE Evaluating' = Evaluating
  BY <1>5 DEF Exit, Evaluating, Threads
<1>6. ASSUME NEW k \in Tasks, ReapNext(k) PROVE Evaluating' = Evaluating
  BY <1>6 DEF ReapNext, ReleaseAndJoin, Evaluating, Threads
<1>7. ASSUME NEW k \in Tasks, TaskStep(k) PROVE [EvaluationSpec!Next]_Evaluating
  <2>0. k \in Threads
    BY DEF Threads
  <2>1. CASE Step(k)
    BY <2>0, <2>1, HandoverOfStep
  <2>2. ASSUME EnterTask(k) PROVE gil = NoThread /\ Evaluating' = Evaluating \cup {k}
    BY <2>0, <2>2 DEF EnterTask, lockInterpreter, Evaluating
  <2>3. ASSUME FinishTask(k) PROVE k \in Evaluating /\ Evaluating' = Evaluating \ {k}
    BY <2>0, <2>3 DEF FinishTask, Running, Evaluating
  <2>4. ASSUME End(k) PROVE Evaluating' = Evaluating
    BY <2>0, <2>4 DEF End, Evaluating
  <2> QED
    BY <1>7, <2>0, <2>1, <2>2, <2>3, <2>4, Handover DEF TaskStep
<1>8. ASSUME UNCHANGED vars PROVE Evaluating' = Evaluating
  BY <1>8 DEF vars, Evaluating
<1>9. Main \in Threads
  BY DEF Threads
<1> QED
  BY <1>1, <1>2, <1>3, <1>4, <1>5, <1>6, <1>7, <1>8, <1>9, Handover DEF Next, MainStep

\* The step that begins the end included.
THEOREM EvaluationIsHandedOver ==
  ASSUME OneAwaiter, NoMutualAwait
  PROVE  Spec => HandedOver
<1>1. OneAwaiter /\ NoMutualAwait
  OBVIOUS
<1>2. Init => HoldsInv
  BY HoldsInit
<1>3. TypeOK /\ Targeted /\ WaitsInv /\ HoldsInv /\ [Next]_vars => HoldsInv'
  BY <1>1, HoldsStep
<1>4. TypeOK /\ Targeted /\ WaitsInv /\ HoldsInv /\ [Next]_vars
      => [~Exiting(Main) => [EvaluationSpec!Next]_Evaluating]_vars
  <2> SUFFICES ASSUME TypeOK, Targeted, WaitsInv, HoldsInv, [Next]_vars, ~Exiting(Main)
               PROVE  [EvaluationSpec!Next]_Evaluating
    OBVIOUS
  <2>1. \A t \in Threads : ~JoinThrows(t)
    BY <1>1, JoinsSucceed
  <2>2. EvaluatorsHold
    BY DEF HoldsInv, EvaluatorsHold
  <2> QED
    BY <2>1, <2>2, HandoverStep
<1> QED
  BY <1>2, <1>3, <1>4, TypeInvariant, WaitsInit, WaitsStep, PTL DEF Spec, HandedOver

\* Tasks await nobody but themselves, which is refused.
OnlyMainAwaits == \A t \in Tasks : \A k \in Tasks \ {t} : ~MayAwait(t, k)

\* The lock and its holder, to the last step of the reaper.
ReapHolds == EvaluatorsHold /\ (pc[Main] = "reaping" => gil = Main)

LEMMA NoJoinThrows ==
  ASSUME TypeOK, Targeted, WaitsInv, OnlyMainAwaits, NEW t \in Threads
  PROVE  ~JoinThrows(t)
<1>1. \A u \in Tasks : pc[u] # "joining"
  BY DEF WaitsInv, Targeted, OnlyMainAwaits, Threads
<1> QED
  BY <1>1, TasksAssumption DEF JoinThrows, Targeted, Threads

LEMMA ReapHoldsOfStep ==
  ASSUME TypeOK, WaitsInv, ReapHolds, NEW t \in Threads, Step(t), ~JoinThrows(t)
  PROVE  ReapHolds'
<1> USE TasksAssumption DEF TypeOK, WaitsInv, ReapHolds, EvaluatorsHold, Evaluating, Threads
<1>1. ASSUME NEW k \in Tasks, Run(t, k) PROVE ReapHolds'
  BY <1>1 DEF Run, Running
<1>2. ASSUME NEW k \in Tasks, Await(t, k) PROVE ReapHolds'
  BY <1>2 DEF Await, ReleaseAndJoin, unlockInterpreter, Running
<1>3. ASSUME NEW k \in Tasks, AwaitOther(t, k) PROVE ReapHolds'
  BY <1>3 DEF AwaitOther
<1>4. ASSUME NEW g \in Gathers, Gather(t, g[2]) PROVE ReapHolds'
  BY <1>4 DEF Gather, Running
<1>5. CASE Sleep(t)
  BY <1>5 DEF Sleep, unlockInterpreter, Running
<1>6. CASE AwaitSelf(t)
  BY <1>6 DEF AwaitSelf
<1>7. CASE GatherNext(t)
  BY <1>7 DEF GatherNext, ReleaseAndJoin, unlockInterpreter
<1>8. CASE GatherPasses(t)
  BY <1>8 DEF GatherPasses
<1>9. CASE GatherRefused(t) \/ GatherEnds(t)
  BY <1>9 DEF GatherRefused, GatherEnds, Resume
<1>10. CASE FinishJoin(t)
  BY <1>10 DEF FinishJoin
<1>11. CASE FailJoin(t)
  BY <1>11 DEF FailJoin
<1>12. CASE WakeFromSleep(t)
  BY <1>12 DEF WakeFromSleep, lockInterpreter
<1>13. CASE WakeFromJoin(t)
  BY <1>13 DEF WakeFromJoin, lockInterpreter, Resume
<1> QED
  BY <1>1, <1>2, <1>3, <1>4, <1>5, <1>6, <1>7, <1>8, <1>9, <1>10, <1>11, <1>12,
     <1>13 DEF Step

LEMMA ReapHoldsStep ==
  ASSUME TypeOK, WaitsInv, ReapHolds, \A t \in Threads : ~JoinThrows(t), [Next]_vars
  PROVE  ReapHolds'
<1> USE TasksAssumption DEF TypeOK, ReapHolds, EvaluatorsHold, Evaluating, Threads
<1>1. CASE Step(Main)
  BY <1>1, ReapHoldsOfStep
<1>2. CASE MainReturns
  BY <1>2 DEF MainReturns, Running
<1>3. CASE WakeFromReap
  BY <1>3 DEF WakeFromReap, lockInterpreter
<1>4. CASE ReapFails \/ ReapTerminates
  BY <1>4 DEF ReapFails, ReapTerminates
<1>5. CASE Exit
  BY <1>5 DEF Exit, unlockInterpreter
<1>6. ASSUME NEW k \in Tasks, ReapNext(k) PROVE ReapHolds'
  BY <1>6 DEF ReapNext, ReleaseAndJoin, unlockInterpreter
<1>7. ASSUME NEW k \in Tasks, TaskStep(k) PROVE ReapHolds'
  <2>1. CASE Step(k)
    BY <2>1, ReapHoldsOfStep
  <2>2. CASE EnterTask(k)
    BY <2>2 DEF EnterTask, lockInterpreter
  <2>3. CASE FinishTask(k)
    BY <2>3 DEF FinishTask, unlockInterpreter, Running
  <2>4. CASE End(k)
    BY <2>4 DEF End
  <2> QED
    BY <1>7, <2>1, <2>2, <2>3, <2>4 DEF TaskStep
<1>8. CASE UNCHANGED vars
  BY <1>8 DEF vars
<1> QED
  BY <1>1, <1>2, <1>3, <1>4, <1>5, <1>6, <1>7, <1>8 DEF Next, MainStep

\* In a program in which only main awaits, AsyncTasks implements Evaluation: its
\* reaper included, one thread after the other evaluates, each with the lock.
THEOREM Implementation ==
  ASSUME OnlyMainAwaits
  PROVE  Spec => Serialized
<1>1. OnlyMainAwaits
  OBVIOUS
<1>2. Init => EvaluationSpec!Init /\ ReapHolds
  BY TasksAssumption DEF Init, EvaluationSpec!Init, ReapHolds, EvaluatorsHold, Evaluating,
     Threads
<1>3. TypeOK /\ Targeted /\ WaitsInv /\ ReapHolds /\ [Next]_vars
      => ReapHolds' /\ [EvaluationSpec!Next]_Evaluating
  <2> SUFFICES ASSUME TypeOK, Targeted, WaitsInv, ReapHolds, [Next]_vars
               PROVE  ReapHolds' /\ [EvaluationSpec!Next]_Evaluating
    OBVIOUS
  <2>1. \A t \in Threads : ~JoinThrows(t)
    BY <1>1, NoJoinThrows
  <2> QED
    BY <2>1, ReapHoldsStep, HandoverStep DEF ReapHolds
<1> QED
  BY <1>2, <1>3, TypeInvariant, WaitsInit, WaitsStep, PTL
     DEF Spec, Serialized, EvaluationSpec!Spec, EvaluationSpec!Handover

=============================================================================
