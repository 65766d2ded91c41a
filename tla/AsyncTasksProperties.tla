------------------------ MODULE AsyncTasksProperties ------------------------
(***************************************************************************)
(* What docs/async.md and the comments of builtins.cpp say of tasks, as    *)
(* properties of AsyncTasks.                                               *)
(***************************************************************************)
EXTENDS AsyncTasks

Answers == {"none", "value", "error", "handle", "refused"}

TypeOK ==
  /\ gil \in Threads \cup {NoThread}
  /\ pc \in [Threads -> {"unborn", "starting", "running", "joining", "gathering",
                         "waking", "ending", "done", "reaping", "exited",
                         "aborted"}]
  /\ purpose \in [Threads -> {"none", "sleep", "await", "gather", "exit", "unwind"}]
  /\ target \in [Threads -> Tasks \cup {NoTask}]
  /\ pending \in [Threads -> Seq(Tasks)]
  /\ snapshot \in SUBSET Tasks
  /\ registry \in SUBSET Tasks
  /\ joinable \in SUBSET Tasks
  /\ outcome \in [Tasks -> {"none", "value", "error"}]
  /\ answer \in [Threads -> Answers]
  /\ ops \in [Threads -> 0..MaxOps]

\* The threads that run Lynxer code, an asyncGather between two joins included.
Evaluating == {t \in Threads : pc[t] \in {"running", "gathering"}}

\* "Exactly one thread evaluates code at a time" (docs/async.md).
NeverEvaluateAtOnce == \A t, u \in Evaluating : t = u

\* The same for as long as main has not come to its end: no interleaving of
\* asyncRun, await and asyncGather lets two threads evaluate, if every task is
\* awaited by one thread only and none of them awaits in a ring.
ExclusiveUntilTheEnd == ~Exiting(Main) => NeverEvaluateAtOnce

\* Until main ends, evaluation passes from thread to thread the way Evaluation
\* says; in a program in which no join throws, to the last step.
EvaluationSpec == INSTANCE Evaluation WITH evaluating <- Evaluating
HandedOver == [][~Exiting(Main) => [EvaluationSpec!Next]_Evaluating]_vars
Serialized == EvaluationSpec!Spec

\* The interpreter lock is never kept by a thread that sleeps, joins or is gone,
\* not even by one whose join threw.
BlockedReleaseTheLock ==
  gil # NoThread => pc[gil] \in {"running", "gathering", "reaping"}

\* An await that returns has waited for the end of the task's thread and has
\* the outcome of its function, whoever else was joining it (joinTask).
AwaitsAnswerWithOutcomes ==
  [][\A t \in Threads :
       WakeFromJoin(t) => /\ pc[target[t]] = "done"
                          /\ outcome[target[t]] # "none"]_vars

\* A handle leaves asyncTasks() only when its thread has ended and was joined:
\* the reaper finds every task that may still evaluate, and no std::thread is
\* destroyed while it is joinable (joinTask, joinAsyncTasksAtExitInternal, an
\* asyncGather that stops at an error).
ErasedTasksAreJoined ==
  \A k \in Tasks \ registry :
    pc[k] # "unborn" => pc[k] \in {"done", "aborted"} /\ k \notin joinable

\* The program comes to an end, and with it every task it started.
ProgramEnds ==
  <>(/\ pc[Main] \in {"exited", "aborted"}
     /\ \A k \in Tasks : pc[k] \in {"unborn", "done", "aborted"})

=============================================================================
