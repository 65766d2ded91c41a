--------------------------- MODULE NativeThreads ---------------------------
(***************************************************************************)
(* The managed native threads of builtins.cpp, the interpreter lock of     *)
(* ast.cpp they share, and the exit of executeProgram, which reaps the     *)
(* threads a program left running.                                         *)
(*                                                                         *)
(* Every worker evaluates its callback in the Environment of the thread    *)
(* that started it, so all of them push and pop the same scope stack.      *)
(* A worker stands for its std::thread, its NativeThreadEntry and its      *)
(* handle.                                                                 *)
(***************************************************************************)
EXTENDS Integers, Sequences, FiniteSets

CONSTANTS
  Main,         \* the thread of executeProgram
  Workers,      \* the threads nativeThreadStart may create
  Starters,     \* the threads of the program that call nativeThreadStart
  Joiners,      \* the threads that join or detach
  NoThread,
  MaxOps        \* bound: calls and yields of one thread

Threads == Workers \cup {Main}

ASSUME ThreadsAssumption ==
  /\ Main \notin Workers
  /\ NoThread \notin Threads
  /\ Starters \subseteq Threads
  /\ Joiners \subseteq Threads
  /\ MaxOps \in Nat

VARIABLES
  gil,        \* the thread that holds interpreterLock
  pc,         \* where each thread is
  purpose,    \* why a thread gave the lock away
  target,     \* the worker a thread joins
  pending,    \* the rest of the snapshot a join loop walks
  registry,   \* the handles in nativeThreads()
  joinable,   \* the workers whose std::thread is joinable
  detached,   \* NativeThreadEntry::detached
  status,     \* NativeThreadEntry::status (alive is status = "running")
  stack,      \* who pushed each scope above the global one, innermost last
  frames,     \* the calls a thread is in, each of which pushed a scope
  ops         \* calls and yields so far

threadVars == <<registry, joinable, detached, status>>
scopeVars == <<stack, frames>>
waitVars == <<purpose, target, pending>>
vars == <<gil, pc, waitVars, threadVars, scopeVars, ops>>

Init ==
  /\ gil = Main
  /\ pc = [t \in Threads |-> IF t = Main THEN "running" ELSE "unborn"]
  /\ purpose = [t \in Threads |-> "none"]
  /\ target = [t \in Threads |-> NoThread]
  /\ pending = [t \in Threads |-> {}]
  /\ registry = {}
  /\ joinable = {}
  /\ detached = {}
  /\ status = [w \in Workers |-> "running"]
  /\ stack = <<Main>>
  /\ frames = [t \in Threads |-> IF t = Main THEN 1 ELSE 0]
  /\ ops = [t \in Threads |-> 0]

-----------------------------------------------------------------------------
(* The interpreter lock *)

\* lockInterpreter for a thread that does not hold the lock.
lockInterpreter(t) == gil = NoThread /\ gil' = t

\* unlockInterpreter.  A thread that does not own the recursive mutex cannot
\* unlock it: pthread_mutex_unlock answers EPERM and std::recursive_mutex
\* ignores the answer.
unlockInterpreter(t) == gil' = IF gil = t THEN NoThread ELSE gil

\* The main thread is in ThreadReaper::join, after main returned ("exit") or in
\* the destructor of the reaper while an exception leaves ("unwind").
Exiting(t) == purpose[t] \in {"exit", "unwind"}

\* The thread runs Lynxer code, by right or not.
Running(t) == pc[t] = "running"

\* Environment::pushScope and popScope on the one stack all threads share.
pushScope(t) ==
  /\ stack' = Append(stack, t)
  /\ frames' = [frames EXCEPT ![t] = @ + 1]
popScope(t) ==
  /\ stack # <<>>
  /\ stack' = SubSeq(stack, 1, Len(stack) - 1)
  /\ frames' = [frames EXCEPT ![t] = @ - 1]

-----------------------------------------------------------------------------
(* Evaluation *)

\* invokeFunction or runClassMethod of a nested call.
Call(t) ==
  /\ Running(t)
  /\ ops[t] < MaxOps
  /\ ops' = [ops EXCEPT ![t] = @ + 1]
  /\ pushScope(t)
  /\ UNCHANGED <<gil, pc, waitVars, threadVars>>

\* The end of a function call, normal or exceptional, or the normal end of a
\* method.
Return(t) ==
  /\ Running(t)
  /\ frames[t] > 1
  /\ popScope(t)
  /\ UNCHANGED <<gil, pc, waitVars, threadVars, ops>>

\* runClassMethod catches ReturnControl alone: an exception leaves the method
\* without popScope, and no handler further up makes up for it.
MethodThrows(t) ==
  /\ Running(t)
  /\ frames[t] > 1
  /\ frames' = [frames EXCEPT ![t] = @ - 1]
  /\ UNCHANGED <<gil, pc, waitVars, threadVars, stack, ops>>

\* builtinNativeThreadYield: release the lock, sleep, take it again.
Yield(t) ==
  /\ Running(t)
  /\ ops[t] < MaxOps
  /\ ops' = [ops EXCEPT ![t] = @ + 1]
  /\ unlockInterpreter(t)
  /\ pc' = [pc EXCEPT ![t] = "waking"]
  /\ purpose' = [purpose EXCEPT ![t] = "yield"]
  /\ UNCHANGED <<target, pending, threadVars, scopeVars>>

-----------------------------------------------------------------------------
(* The life of a worker *)

\* builtinNativeThreadStart: the starter holds the lock until the handle is in
\* the registry, so the worker cannot be seen before it is.
Start(t, w) ==
  /\ Running(t)
  /\ t \in Starters
  /\ pc[w] = "unborn"
  /\ pc' = [pc EXCEPT ![w] = "starting"]
  /\ registry' = registry \cup {w}
  /\ joinable' = joinable \cup {w}
  /\ UNCHANGED <<gil, waitVars, detached, status, scopeVars, ops>>

\* The worker's lambda takes the lock and calls the function.
EnterCallback(w) ==
  /\ pc[w] = "starting"
  /\ lockInterpreter(w)
  /\ pc' = [pc EXCEPT ![w] = "running"]
  /\ pushScope(w)
  /\ UNCHANGED <<waitVars, threadVars, ops>>

\* Faulty variant of FinishCallback: a callback that throws keeps the lock.
FinishLocked(w) ==
  /\ Running(w)
  /\ frames[w] = 1
  /\ popScope(w)
  /\ pc' = [pc EXCEPT ![w] = "leaving"]
  /\ UNCHANGED <<gil, waitVars, threadVars, ops>>

\* The callback returned or threw; the lock is released before the entry is
\* touched.
FinishCallback(w) ==
  /\ Running(w)
  /\ frames[w] = 1
  /\ popScope(w)
  /\ unlockInterpreter(w)
  /\ pc' = [pc EXCEPT ![w] = "leaving"]
  /\ UNCHANGED <<waitVars, threadVars, ops>>

\* Status and liveness are written under statusMutex.
WriteStatus(w) ==
  /\ pc[w] = "leaving"
  /\ status' = [status EXCEPT ![w] = "completed"]
  /\ pc' = [pc EXCEPT ![w] = "retiring"]
  /\ UNCHANGED <<gil, waitVars, registry, joinable, detached, scopeVars, ops>>

\* A worker that finds itself detached leaves the registry, and the thread ends.
Retire(w) ==
  /\ pc[w] = "retiring"
  /\ registry' = IF w \in detached THEN registry \ {w} ELSE registry
  /\ pc' = [pc EXCEPT ![w] = "done"]
  /\ UNCHANGED <<gil, waitVars, joinable, detached, status, scopeVars, ops>>

-----------------------------------------------------------------------------
(* Joining and detaching *)

\* The part of joinThread before the wait: the lock is released.
ReleaseAndJoin(t, w) ==
  /\ unlockInterpreter(t)
  /\ pc' = [pc EXCEPT ![t] = "joining"]
  /\ target' = [target EXCEPT ![t] = w]

\* builtinNativeThreadJoin.
BeginJoin(t, w) ==
  /\ Running(t)
  /\ t \in Joiners
  /\ w \in registry \ detached
  /\ ReleaseAndJoin(t, w)
  /\ purpose' = [purpose EXCEPT ![t] = "join"]
  /\ UNCHANGED <<pending, threadVars, scopeVars, ops>>

\* builtinNativeThreadJoinAll takes a snapshot of the registry first.
BeginJoinAll(t) ==
  /\ Running(t)
  /\ t \in Joiners
  /\ registry \ detached # {}
  /\ pc' = [pc EXCEPT ![t] = "looping"]
  /\ purpose' = [purpose EXCEPT ![t] = "joinAll"]
  /\ pending' = [pending EXCEPT ![t] = registry \ detached]
  /\ UNCHANGED <<gil, target, threadVars, scopeVars, ops>>

\* The next handle of the snapshot.
JoinNext(t, w) ==
  /\ pc[t] = "looping"
  /\ w \in pending[t] \ detached
  /\ ReleaseAndJoin(t, w)
  /\ pending' = [pending EXCEPT ![t] = @ \ {w}]
  /\ UNCHANGED <<purpose, threadVars, scopeVars, ops>>

\* nativeThreadJoinAll fails on a handle detached since the snapshot.
JoinAllFails(t) ==
  /\ pc[t] = "looping"
  /\ purpose[t] = "joinAll"
  /\ pending[t] \cap detached # {}
  /\ pc' = [pc EXCEPT ![t] = "running"]
  /\ purpose' = [purpose EXCEPT ![t] = "none"]
  /\ pending' = [pending EXCEPT ![t] = {}]
  /\ UNCHANGED <<gil, target, threadVars, scopeVars, ops>>

JoinAllEnds(t) ==
  /\ pc[t] = "looping"
  /\ purpose[t] = "joinAll"
  /\ pending[t] = {}
  /\ pc' = [pc EXCEPT ![t] = "running"]
  /\ purpose' = [purpose EXCEPT ![t] = "none"]
  /\ UNCHANGED <<gil, target, pending, threadVars, scopeVars, ops>>

\* std::thread::join cannot succeed on the calling thread itself, nor on one
\* that is joining the caller (resource_deadlock_would_occur), nor on a thread
\* another one is joining (invalid_argument).
JoinImpossible(t) ==
  \/ target[t] = t
  \/ pc[target[t]] = "joining" /\ target[target[t]] = t
  \/ \E u \in Threads \ {t} : pc[u] = "joining" /\ target[u] = target[t]

\* Faulty variant of FinishJoin: a status of "completed" is taken for the end.
FinishJoinOnStatus(t) ==
  /\ pc[t] = "joining"
  /\ \/ target[t] \notin joinable
     \/ status[target[t]] = "completed"
  /\ joinable' = joinable \ {target[t]}
  /\ pc' = [pc EXCEPT ![t] = "waking"]
  /\ UNCHANGED <<gil, waitVars, registry, detached, status, scopeVars, ops>>
\* The worker's thread has ended, or is no longer joinable.
FinishJoin(t) ==
  /\ pc[t] = "joining"
  /\ \/ target[t] \notin joinable
     \/ pc[target[t]] = "done"
  /\ joinable' = joinable \ {target[t]}
  /\ pc' = [pc EXCEPT ![t] = "waking"]
  /\ UNCHANGED <<gil, waitVars, registry, detached, status, scopeVars, ops>>

JoinThrows(t) ==
  /\ pc[t] = "joining"
  /\ target[t] \in joinable
  /\ JoinImpossible(t)

\* std::system_error leaves joinThread between unlockInterpreter and
\* lockInterpreter: the thread goes on evaluating without the lock.
FailJoin(t) ==
  /\ JoinThrows(t)
  /\ ~Exiting(t)
  /\ pc' = [pc EXCEPT ![t] = "running"]
  /\ purpose' = [purpose EXCEPT ![t] = "none"]
  /\ target' = [target EXCEPT ![t] = NoThread]
  /\ pending' = [pending EXCEPT ![t] = {}]
  /\ UNCHANGED <<gil, threadVars, scopeVars, ops>>

\* Faulty variant of Wake: the lock is not taken again after the wait.
WakeUnlocked(t) ==
  /\ pc[t] = "waking"
  /\ registry' = registry \ {target[t]}
  /\ target' = [target EXCEPT ![t] = NoThread]
  /\ pc' = [pc EXCEPT ![t] =
       IF purpose[t] \in {"joinAll", "exit", "unwind"} THEN "looping" ELSE "running"]
  /\ UNCHANGED <<gil, purpose, pending, joinable, detached, status, scopeVars, ops>>
\* The wait is over: take the lock again; after a join the handle is released.
Wake(t) ==
  /\ pc[t] = "waking"
  /\ lockInterpreter(t)
  /\ registry' = registry \ {target[t]}
  /\ target' = [target EXCEPT ![t] = NoThread]
  /\ IF purpose[t] \in {"joinAll", "exit", "unwind"}
     THEN /\ pc' = [pc EXCEPT ![t] = "looping"]
          /\ UNCHANGED purpose
     ELSE /\ pc' = [pc EXCEPT ![t] = "running"]
          /\ purpose' = [purpose EXCEPT ![t] = "none"]
  /\ UNCHANGED <<pending, joinable, detached, status, scopeVars, ops>>

\* Faulty variant of Detach: gives the handle up at once.
DetachErases(t, w) ==
  /\ Running(t)
  /\ t \in Joiners
  /\ w \in registry \ detached
  /\ detached' = detached \cup {w}
  /\ joinable' = joinable \ {w}
  /\ registry' = registry \ {w}
  /\ UNCHANGED <<gil, pc, waitVars, status, scopeVars, ops>>

\* builtinNativeThreadDetach: the handle stays until the worker retires.
Detach(t, w) ==
  /\ Running(t)
  /\ t \in Joiners
  /\ w \in registry \ detached
  /\ detached' = detached \cup {w}
  /\ joinable' = joinable \ {w}
  /\ UNCHANGED <<gil, pc, waitVars, registry, status, scopeVars, ops>>

-----------------------------------------------------------------------------
(* The end of the program *)

\* Faulty variant of MainReturns: the reaper does not run when main throws.
MainThrows ==
  /\ Running(Main)
  /\ frames[Main] = 1
  /\ popScope(Main)
  /\ pc' = [pc EXCEPT ![Main] = "looping"]
  /\ purpose' = [purpose EXCEPT ![Main] = "exit"]
  /\ UNCHANGED <<gil, target, pending, threadVars, ops>>

\* main returned or threw: ThreadReaper::join takes its snapshot.
MainReturns ==
  /\ Running(Main)
  /\ frames[Main] = 1
  /\ popScope(Main)
  /\ pc' = [pc EXCEPT ![Main] = "looping"]
  /\ \E why \in {"exit", "unwind"} : purpose' = [purpose EXCEPT ![Main] = why]
  /\ pending' = [pending EXCEPT ![Main] = registry \ detached]
  /\ UNCHANGED <<gil, target, threadVars, ops>>

\* joinNativeThreadsAtExitInternal skips what was detached meanwhile.
ReapSkips ==
  /\ pc[Main] = "looping"
  /\ Exiting(Main)
  /\ pending[Main] \cap detached # {}
  /\ pending' = [pending EXCEPT ![Main] = @ \ detached]
  /\ UNCHANGED <<gil, pc, purpose, target, threadVars, scopeVars, ops>>

\* The reaper cannot join.  The exception makes its destructor try again, with
\* a new snapshot and without the lock; thrown out of the destructor, the
\* second one ends the process (std::terminate).
ReapFails ==
  /\ JoinThrows(Main)
  /\ purpose[Main] = "exit"
  /\ pc' = [pc EXCEPT ![Main] = "looping"]
  /\ purpose' = [purpose EXCEPT ![Main] = "unwind"]
  /\ target' = [target EXCEPT ![Main] = NoThread]
  /\ pending' = [pending EXCEPT ![Main] = registry \ detached]
  /\ UNCHANGED <<gil, threadVars, scopeVars, ops>>

ReapTerminates ==
  /\ JoinThrows(Main)
  /\ purpose[Main] = "unwind"
  /\ pc' = [t \in Threads |-> "aborted"]
  /\ gil' = NoThread
  /\ UNCHANGED <<waitVars, threadVars, scopeVars, ops>>

\* The snapshot is reaped; executeProgram returns and the lock is released.
Exit ==
  /\ pc[Main] = "looping"
  /\ Exiting(Main)
  /\ pending[Main] = {}
  /\ unlockInterpreter(Main)
  /\ pc' = [pc EXCEPT ![Main] = "exited"]
  /\ UNCHANGED <<waitVars, threadVars, scopeVars, ops>>

-----------------------------------------------------------------------------

\* What a thread does by itself; choosing the worker it starts or joins is the
\* program's.
Step(t) ==
  \/ Call(t) \/ Return(t) \/ MethodThrows(t) \/ Yield(t)
  \/ \E w \in Workers : Start(t, w) \/ BeginJoin(t, w) \/ JoinNext(t, w) \/ Detach(t, w)
  \/ BeginJoinAll(t) \/ JoinAllFails(t) \/ JoinAllEnds(t)
  \/ FinishJoin(t) \/ FailJoin(t) \/ Wake(t)

WorkerStep(w) ==
  \/ Step(w)
  \/ EnterCallback(w) \/ FinishCallback(w) \/ WriteStatus(w) \/ Retire(w)

MainStep ==
  \/ Step(Main)
  \/ MainReturns \/ ReapSkips \/ ReapFails \/ ReapTerminates \/ Exit

Next == MainStep \/ \E w \in Workers : WorkerStep(w)

Spec == Init /\ [][Next]_vars

\* The operating system runs every thread that can run.
FairSpec ==
  Spec /\ WF_vars(MainStep) /\ \A w \in Workers : WF_vars(WorkerStep(w))

=============================================================================
