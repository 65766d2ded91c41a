---------------------- MODULE NativeThreadsProperties ----------------------
(***************************************************************************)
(* What docs/builtins.md and the comments of builtins.cpp and ast.cpp say  *)
(* of native threads, as properties of NativeThreads.                      *)
(***************************************************************************)
EXTENDS NativeThreads

TypeOK ==
  /\ gil \in Threads \cup {NoThread}
  /\ pc \in [Threads -> {"unborn", "starting", "running", "joining", "looping",
                         "waking", "leaving", "retiring", "done", "exited",
                         "aborted"}]
  /\ purpose \in [Threads -> {"none", "yield", "join", "joinAll", "exit", "unwind"}]
  /\ target \in [Threads -> Workers \cup {NoThread}]
  /\ pending \in [Threads -> SUBSET Workers]
  /\ registry \in SUBSET Workers
  /\ joinable \in SUBSET Workers
  /\ detached \in SUBSET Workers
  /\ status \in [Workers -> {"running", "completed"}]
  /\ stack \in Seq(Threads)
  /\ frames \in [Threads -> Nat]
  /\ ops \in [Threads -> 0..MaxOps]

\* The threads between a lockInterpreter and the next unlockInterpreter.
Evaluating == {t \in Threads : pc[t] \in {"running", "looping"}}

\* "Two threads never evaluate at once - that is why no data race is possible"
\* (docs/builtins.md, builtins.cpp): whoever evaluates holds the lock.
NeverEvaluateAtOnce == \A t, u \in Evaluating : t = u

\* The lock is never kept by a thread that is blocked, sleeping or gone.
BlockedReleaseTheLock == gil # NoThread => gil \in Evaluating

\* Evaluation passes from thread to thread the way Evaluation says.
EvaluationSpec ==
  INSTANCE Evaluation WITH evaluating <- Evaluating
Serialized == EvaluationSpec!Spec

\* "Programs that leave a thread running have it joined when the program
\* finishes": once executeProgram has returned and the environment is gone, no
\* thread that was not detached is still going to evaluate in it.
EnvironmentOutlivesThreads ==
  pc[Main] = "exited" =>
    \A w \in Workers \ detached :
      pc[w] \in {"unborn", "leaving", "retiring", "done"}

\* nativeThreadJoin answers with the outcome of the callback, never "running",
\* and the handle it releases belongs to a thread that has ended.
JoinedThreadsAreDone ==
  [][\A t \in Threads :
       Wake(t) /\ target[t] \in Workers \ detached =>
         pc[target[t]] = "done" /\ status[target[t]] = "completed"]_vars

\* A worker nobody has joined stays reachable through its handle for as long as
\* it may evaluate: the reaper of executeProgram finds it.
LiveThreadsAreRegistered ==
  \A w \in Workers :
    pc[w] \in {"starting", "running", "joining", "looping", "waking"} =>
      w \in registry

\* The program ends, and with it every thread it started: nobody waits for ever
\* for the lock, for a worker or for a join loop.
ProgramEnds ==
  <>(pc[Main] = "exited" /\ \A w \in Workers : pc[w] \in {"unborn", "done"})

-----------------------------------------------------------------------------
(* What the code says and does not do *)

\* "A function or method call gets a fresh scope for its parameters and locals.
\* Those do not leak out" (docs/language.md): the scopes on the stack are those
\* of the calls that threads are in.
LocalsDoNotLeak ==
  Len(stack) <= Cardinality(UNION {{t} \X (1 .. frames[t]) : t \in Threads})

\* The same promise between threads, "safe by construction rather than by
\* careful locking" (builtins.cpp): a thread that evaluates declares and reads
\* its variables in the innermost scope, which belongs to a call of its own.
InnermostScopeIsOwn ==
  \A t \in Threads :
    Running(t) /\ frames[t] > 0 => stack # <<>> /\ stack[Len(stack)] = t

=============================================================================
