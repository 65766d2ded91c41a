----------------------------- MODULE AsyncTasks -----------------------------
(***************************************************************************)
(* Async tasks of builtins.cpp: asyncRun puts a function on a thread of    *)
(* its own, await and asyncGather join it and answer with its outcome, and *)
(* the end of executeProgram reaps the tasks nobody awaited.               *)
(*                                                                         *)
(* A task stands for its std::thread, its AsyncTaskEntry and its handle.   *)
(* A program is given by who may run and who may await which task.         *)
(***************************************************************************)
EXTENDS Naturals, Sequences

CONSTANTS
  Main,         \* the thread of executeProgram
  Tasks,        \* the tasks asyncRun may create
  Runs,         \* <<t, k>>: thread t may run task k
  Awaits,       \* <<t, k>>: thread t may await task k
  Gathers,      \* <<t, order>>: thread t may gather these tasks, in this order
  NoTask,
  NoThread,
  MaxOps        \* bound: calls of one thread that start or join nothing

Threads == Tasks \cup {Main}

ASSUME TasksAssumption ==
  /\ Main \notin Tasks
  /\ NoThread \notin Threads
  /\ NoTask \notin Threads
  /\ Runs \subseteq Threads \X Tasks
  /\ Awaits \subseteq Threads \X Tasks
  /\ Gathers \subseteq Threads \X Seq(Tasks)
  /\ MaxOps \in Nat

VARIABLES
  gil,        \* the thread that holds interpreterLock
  pc,         \* where each thread is
  purpose,    \* why a thread gave the lock away
  target,     \* the task a thread joins
  pending,    \* the arguments a gather has not looked at yet
  snapshot,   \* the tasks the reaper has not looked at yet
  registry,   \* the handles in asyncTasks()
  joinable,   \* the tasks whose std::thread is joinable
  outcome,    \* AsyncTaskEntry::result or error, once there is one
  answer,     \* what the last await of a thread came to
  ops         \* the calls MaxOps counts

taskVars == <<registry, joinable, outcome>>
waitVars == <<purpose, target, pending, snapshot>>
vars == <<gil, pc, waitVars, taskVars, answer, ops>>

Init ==
  /\ gil = Main
  /\ pc = [t \in Threads |-> IF t = Main THEN "running" ELSE "unborn"]
  /\ purpose = [t \in Threads |-> "none"]
  /\ target = [t \in Threads |-> NoTask]
  /\ pending = [t \in Threads |-> <<>>]
  /\ snapshot = {}
  /\ registry = {}
  /\ joinable = {}
  /\ outcome = [k \in Tasks |-> "none"]
  /\ answer = [t \in Threads |-> "none"]
  /\ ops = [t \in Threads |-> 0]

-----------------------------------------------------------------------------

\* unlockInterpreter of a thread that does not hold the recursive mutex has no
\* effect.
unlockInterpreter(t) == gil' = IF gil = t THEN NoThread ELSE gil
lockInterpreter(t) == gil = NoThread /\ gil' = t

Running(t) == pc[t] = "running"

\* The main thread is in ThreadReaper::join, after main returned ("exit") or in
\* the destructor of the reaper while an exception leaves ("unwind").
Exiting(t) == purpose[t] \in {"exit", "unwind"}

\* The thread goes on evaluating, with this answer to its await.
Resume(t, a) ==
  /\ pc' = [pc EXCEPT ![t] = "running"]
  /\ purpose' = [purpose EXCEPT ![t] = "none"]
  /\ pending' = [pending EXCEPT ![t] = <<>>]
  /\ answer' = [answer EXCEPT ![t] = a]

\* asyncSleep.
Sleep(t) ==
  /\ Running(t)
  /\ ops[t] < MaxOps
  /\ ops' = [ops EXCEPT ![t] = @ + 1]
  /\ unlockInterpreter(t)
  /\ pc' = [pc EXCEPT ![t] = "waking"]
  /\ purpose' = [purpose EXCEPT ![t] = "sleep"]
  /\ UNCHANGED <<target, pending, snapshot, taskVars, answer>>

-----------------------------------------------------------------------------
(* The life of a task *)

\* asyncRun: the handle is registered before the thread exists.
Run(t, k) ==
  /\ Running(t)
  /\ <<t, k>> \in Runs
  /\ pc[k] = "unborn"
  /\ pc' = [pc EXCEPT ![k] = "starting"]
  /\ registry' = registry \cup {k}
  /\ joinable' = joinable \cup {k}
  /\ UNCHANGED <<gil, waitVars, outcome, answer, ops>>

\* Faulty variant of EnterTask: the task does not wait for the lock.
EnterTaskUnlocked(k) ==
  /\ pc[k] = "starting"
  /\ gil' = k
  /\ pc' = [pc EXCEPT ![k] = "running"]
  /\ UNCHANGED <<waitVars, taskVars, answer, ops>>

\* The thread takes the lock and calls the function.
EnterTask(k) ==
  /\ pc[k] = "starting"
  /\ lockInterpreter(k)
  /\ pc' = [pc EXCEPT ![k] = "running"]
  /\ UNCHANGED <<waitVars, taskVars, answer, ops>>

\* Faulty variant of FinishTask: the lock is kept when the function throws.
FinishTaskLocked(k) ==
  /\ Running(k)
  /\ \E o \in {"value", "error"} :
       /\ outcome' = [outcome EXCEPT ![k] = o]
       /\ IF o = "error" THEN UNCHANGED gil ELSE unlockInterpreter(k)
  /\ pc' = [pc EXCEPT ![k] = "ending"]
  /\ UNCHANGED <<waitVars, registry, joinable, answer, ops>>

\* The function returned or threw; its outcome is stored before the lock is
\* released, and then the thread ends.
FinishTask(k) ==
  /\ Running(k)
  /\ \E o \in {"value", "error"} : outcome' = [outcome EXCEPT ![k] = o]
  /\ unlockInterpreter(k)
  /\ pc' = [pc EXCEPT ![k] = "ending"]
  /\ UNCHANGED <<waitVars, registry, joinable, answer, ops>>

End(k) ==
  /\ pc[k] = "ending"
  /\ pc' = [pc EXCEPT ![k] = "done"]
  /\ UNCHANGED <<gil, waitVars, taskVars, answer, ops>>

-----------------------------------------------------------------------------
(* await *)

\* The part of joinTask before the wait.
ReleaseAndJoin(t, k) ==
  /\ unlockInterpreter(t)
  /\ pc' = [pc EXCEPT ![t] = "joining"]
  /\ target' = [target EXCEPT ![t] = k]

\* await of a task that is registered.
Await(t, k) ==
  /\ Running(t)
  /\ <<t, k>> \in Awaits
  /\ k \in registry
  /\ k # t
  /\ ReleaseAndJoin(t, k)
  /\ purpose' = [purpose EXCEPT ![t] = "await"]
  /\ UNCHANGED <<pending, snapshot, taskVars, answer, ops>>

\* A task that awaits itself is told so (currentTaskHandle).
AwaitSelf(t) ==
  /\ Running(t)
  /\ <<t, t>> \in Awaits
  /\ t \in registry
  /\ ops[t] < MaxOps
  /\ ops' = [ops EXCEPT ![t] = @ + 1]
  /\ answer' = [answer EXCEPT ![t] = "refused"]
  /\ UNCHANGED <<gil, pc, waitVars, taskVars>>

\* An integer that is no handle, or no handle any more, is its own answer.
AwaitOther(t, k) ==
  /\ Running(t)
  /\ <<t, k>> \in Awaits
  /\ k \notin registry
  /\ ops[t] < MaxOps
  /\ ops' = [ops EXCEPT ![t] = @ + 1]
  /\ answer' = [answer EXCEPT ![t] = "handle"]
  /\ UNCHANGED <<gil, pc, waitVars, taskVars>>

-----------------------------------------------------------------------------
(* asyncGather awaits its arguments one after the other *)

Gather(t, order) ==
  /\ Running(t)
  /\ <<t, order>> \in Gathers
  /\ ops[t] < MaxOps
  /\ ops' = [ops EXCEPT ![t] = @ + 1]
  /\ pc' = [pc EXCEPT ![t] = "gathering"]
  /\ purpose' = [purpose EXCEPT ![t] = "gather"]
  /\ pending' = [pending EXCEPT ![t] = order]
  /\ UNCHANGED <<gil, target, snapshot, taskVars, answer>>

GatherNext(t) ==
  LET k == Head(pending[t])
  IN  /\ pc[t] = "gathering"
      /\ pending[t] # <<>>
      /\ k \in registry
      /\ k # t
      /\ ReleaseAndJoin(t, k)
      /\ pending' = [pending EXCEPT ![t] = Tail(@)]
      /\ UNCHANGED <<purpose, snapshot, taskVars, answer, ops>>

GatherPasses(t) ==
  /\ pc[t] = "gathering"
  /\ pending[t] # <<>>
  /\ Head(pending[t]) \notin registry
  /\ pending' = [pending EXCEPT ![t] = Tail(@)]
  /\ UNCHANGED <<gil, pc, purpose, target, snapshot, taskVars, answer, ops>>

GatherRefused(t) ==
  /\ pc[t] = "gathering"
  /\ pending[t] # <<>>
  /\ Head(pending[t]) = t
  /\ t \in registry
  /\ Resume(t, "refused")
  /\ UNCHANGED <<gil, target, snapshot, taskVars, ops>>

GatherEnds(t) ==
  /\ pc[t] = "gathering"
  /\ pending[t] = <<>>
  /\ Resume(t, "value")
  /\ UNCHANGED <<gil, target, snapshot, taskVars, ops>>

-----------------------------------------------------------------------------
(* The wait and its end *)

\* Faulty variant of FinishJoin: any thread that is not running will do.
FinishJoinEarly(t) ==
  /\ pc[t] = "joining"
  /\ pc[target[t]] # "running"
  /\ joinable' = joinable \ {target[t]}
  /\ pc' = [pc EXCEPT ![t] = "waking"]
  /\ UNCHANGED <<gil, waitVars, registry, outcome, answer, ops>>

\* The task's thread has ended, or somebody else has joined it.
FinishJoin(t) ==
  /\ pc[t] = "joining"
  /\ \/ target[t] \notin joinable
     \/ pc[target[t]] = "done"
  /\ joinable' = joinable \ {target[t]}
  /\ pc' = [pc EXCEPT ![t] = "waking"]
  /\ UNCHANGED <<gil, waitVars, registry, outcome, answer, ops>>

\* std::thread::join throws on a thread that another one is joining (EINVAL)
\* and on one that is joining the caller (EDEADLK).
JoinThrows(t) ==
  /\ pc[t] = "joining"
  /\ target[t] \in joinable
  /\ \/ \E u \in Threads \ {t} : pc[u] = "joining" /\ target[u] = target[t]
     \/ pc[target[t]] = "joining" /\ target[target[t]] = t

\* Faulty variant of FailJoin: the handle is given up when the join throws.
FailJoinErases(t) ==
  /\ JoinThrows(t)
  /\ ~Exiting(t)
  /\ Resume(t, "refused")
  /\ target' = [target EXCEPT ![t] = NoTask]
  /\ registry' = registry \ {target[t]}
  /\ UNCHANGED <<gil, snapshot, joinable, outcome, ops>>

\* The exception leaves joinTask past its lockInterpreter.
FailJoin(t) ==
  /\ JoinThrows(t)
  /\ ~Exiting(t)
  /\ Resume(t, "refused")
  /\ target' = [target EXCEPT ![t] = NoTask]
  /\ UNCHANGED <<gil, snapshot, taskVars, ops>>

\* After a sleep the thread just goes on.
WakeFromSleep(t) ==
  /\ pc[t] = "waking"
  /\ purpose[t] = "sleep"
  /\ lockInterpreter(t)
  /\ pc' = [pc EXCEPT ![t] = "running"]
  /\ purpose' = [purpose EXCEPT ![t] = "none"]
  /\ UNCHANGED <<target, pending, snapshot, taskVars, answer, ops>>

\* After a join: take the lock, give the handle up, and answer with the
\* outcome.  An error ends a gather at once.
WakeFromJoin(t) ==
  LET o == outcome[target[t]]
  IN  /\ pc[t] = "waking"
      /\ purpose[t] \in {"await", "gather"}
      /\ lockInterpreter(t)
      /\ registry' = registry \ {target[t]}
      /\ target' = [target EXCEPT ![t] = NoTask]
      /\ IF purpose[t] = "gather" /\ o = "value"
         THEN /\ pc' = [pc EXCEPT ![t] = "gathering"]
              /\ UNCHANGED <<purpose, pending, answer>>
         ELSE Resume(t, o)
      /\ UNCHANGED <<snapshot, joinable, outcome, ops>>

-----------------------------------------------------------------------------
(* The end of the program *)

\* main returned or threw: joinAsyncTasksAtExit takes its snapshot.
MainReturns ==
  /\ Running(Main)
  /\ pc' = [pc EXCEPT ![Main] = "reaping"]
  /\ \E why \in {"exit", "unwind"} : purpose' = [purpose EXCEPT ![Main] = why]
  /\ snapshot' = registry
  /\ UNCHANGED <<gil, target, pending, taskVars, answer, ops>>

ReapNext(k) ==
  /\ pc[Main] = "reaping"
  /\ k \in snapshot
  /\ ReleaseAndJoin(Main, k)
  /\ snapshot' = snapshot \ {k}
  /\ UNCHANGED <<purpose, pending, taskVars, answer, ops>>

WakeFromReap ==
  /\ pc[Main] = "waking"
  /\ Exiting(Main)
  /\ lockInterpreter(Main)
  /\ registry' = registry \ {target[Main]}
  /\ target' = [target EXCEPT ![Main] = NoTask]
  /\ pc' = [pc EXCEPT ![Main] = "reaping"]
  /\ UNCHANGED <<purpose, pending, snapshot, joinable, outcome, answer, ops>>

\* The reaper cannot join.  The exception makes its destructor try again, with
\* a new snapshot and without the lock; thrown out of the destructor, the
\* second one ends the process (std::terminate).
ReapFails ==
  /\ JoinThrows(Main)
  /\ purpose[Main] = "exit"
  /\ pc' = [pc EXCEPT ![Main] = "reaping"]
  /\ purpose' = [purpose EXCEPT ![Main] = "unwind"]
  /\ target' = [target EXCEPT ![Main] = NoTask]
  /\ snapshot' = registry
  /\ UNCHANGED <<gil, pending, taskVars, answer, ops>>

ReapTerminates ==
  /\ JoinThrows(Main)
  /\ purpose[Main] = "unwind"
  /\ pc' = [t \in Threads |-> "aborted"]
  /\ gil' = NoThread
  /\ UNCHANGED <<waitVars, taskVars, answer, ops>>

Exit ==
  /\ pc[Main] = "reaping"
  /\ snapshot = {}
  /\ unlockInterpreter(Main)
  /\ pc' = [pc EXCEPT ![Main] = "exited"]
  /\ UNCHANGED <<waitVars, taskVars, answer, ops>>

-----------------------------------------------------------------------------

Step(t) ==
  \/ Sleep(t)
  \/ \E k \in Tasks : Run(t, k) \/ Await(t, k) \/ AwaitOther(t, k)
  \/ AwaitSelf(t)
  \/ \E g \in Gathers : Gather(t, g[2])
  \/ GatherNext(t) \/ GatherPasses(t) \/ GatherRefused(t) \/ GatherEnds(t)
  \/ FinishJoin(t) \/ FailJoin(t) \/ WakeFromSleep(t) \/ WakeFromJoin(t)

TaskStep(k) == Step(k) \/ EnterTask(k) \/ FinishTask(k) \/ End(k)

MainStep ==
  \/ Step(Main)
  \/ MainReturns \/ WakeFromReap \/ ReapFails \/ ReapTerminates \/ Exit
  \/ \E k \in Tasks : ReapNext(k)

Next == MainStep \/ \E k \in Tasks : TaskStep(k)

Spec == Init /\ [][Next]_vars

\* The operating system runs every thread that can run.
FairSpec ==
  Spec /\ WF_vars(MainStep) /\ \A k \in Tasks : WF_vars(TaskStep(k))

=============================================================================
