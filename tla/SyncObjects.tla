----------------------------- MODULE SyncObjects -----------------------------
(***************************************************************************)
(* The managed mutexes, condition variables and semaphores of builtins.cpp *)
(* under the interpreter lock.  A call that may block releases the         *)
(* interpreter lock first and enters the object's own std::mutex after     *)
(* that; what it does inside is one step, what lies between the two is     *)
(* open to every other thread.                                             *)
(*                                                                         *)
(* A std::condition_variable is the set of threads asleep on it: notify    *)
(* takes one of them out (or all), and a thread may wake without it.       *)
(***************************************************************************)
EXTENDS Naturals, FiniteSets

CONSTANTS
  Threads,
  Mutexes, Conditions, Semaphores,  \* the handles the program may create
  Closers,      \* the threads that close handles
  NoThread, NoHandle,
  MaxCount      \* bound: the count of a semaphore

Handles == Mutexes \cup Conditions \cup Semaphores

ASSUME SyncAssumption ==
  /\ IsFiniteSet(Threads)
  /\ NoThread \notin Threads
  /\ NoHandle \notin Handles
  /\ Mutexes \cap Conditions = {}
  /\ Mutexes \cap Semaphores = {}
  /\ Conditions \cap Semaphores = {}
  /\ Closers \subseteq Threads
  /\ MaxCount \in Nat \ {0}

VARIABLES
  gil,        \* the thread that holds the interpreter lock
  pc,         \* where each thread is
  handle,     \* the mutex or semaphore a thread waits for
  condition,  \* the condition it waits on
  registry,   \* "new", "open" or "closed", for every handle
  owner,      \* locked and owner of a mutex
  count,      \* the count of a semaphore
  waiters,    \* the waiters counter of every object
  asleep      \* the threads asleep on the condition_variable of an object

objectVars == <<owner, count, waiters, asleep>>
vars == <<gil, pc, handle, condition, registry, objectVars>>

Init ==
  /\ gil = NoThread
  /\ pc = [t \in Threads |-> "waking"]
  /\ handle = [t \in Threads |-> NoHandle]
  /\ condition = [t \in Threads |-> NoHandle]
  /\ registry = [h \in Handles |-> "new"]
  /\ owner = [m \in Mutexes |-> NoThread]
  /\ count = [s \in Semaphores |-> 0]
  /\ waiters = [h \in Handles |-> 0]
  /\ asleep = [h \in Handles |-> {}]

-----------------------------------------------------------------------------

Running(t) == pc[t] = "running"

\* The registry lookup of every builtin: an unknown handle is an error.
Known(h) == registry[h] = "open"

\* The part of a blocking call before the wait.
ReleaseTo(t, next) ==
  /\ gil' = NoThread
  /\ pc' = [pc EXCEPT ![t] = next]

Goto(t, next) == pc' = [pc EXCEPT ![t] = next]

\* notify_one and notify_all, as the set of threads still asleep afterwards.
AfterNotifyOne(h) ==
  IF asleep[h] = {} THEN {{}} ELSE {asleep[h] \ {u} : u \in asleep[h]}

\* nativeThreadYield, or any other builtin that lets the others run.
Yield(t) ==
  /\ Running(t)
  /\ ReleaseTo(t, "waking")
  /\ UNCHANGED <<handle, condition, registry, objectVars>>

\* lockInterpreter at the end of a blocking call.
Wake(t) ==
  /\ pc[t] = "waking"
  /\ gil = NoThread
  /\ gil' = t
  /\ Goto(t, "running")
  /\ UNCHANGED <<handle, condition, registry, objectVars>>

\* std::condition_variable::wait may return without a notification.
WakeSpuriously(t, h) ==
  /\ t \in asleep[h]
  /\ asleep' = [asleep EXCEPT ![h] = @ \ {t}]
  /\ UNCHANGED <<gil, pc, handle, condition, registry, owner, count, waiters>>

-----------------------------------------------------------------------------
(* Mutexes *)

MutexCreate(t, m) ==
  /\ Running(t)
  /\ registry[m] = "new"
  /\ registry' = [registry EXCEPT ![m] = "open"]
  /\ UNCHANGED <<gil, pc, handle, condition, objectVars>>

\* builtinNativeMutexLock, up to its unlockInterpreter.
MutexLock(t, m) ==
  /\ Running(t)
  /\ Known(m)
  /\ ReleaseTo(t, "locking")
  /\ handle' = [handle EXCEPT ![t] = m]
  /\ UNCHANGED <<condition, registry, objectVars>>

\* The wait on `available` with its predicate: a free mutex is taken, else the
\* thread sleeps.
TakeOrSleep(t, m, next) ==
  IF owner[m] = NoThread
  THEN /\ owner' = [owner EXCEPT ![m] = t]
       /\ Goto(t, "waking")
       /\ UNCHANGED asleep
  ELSE /\ asleep' = [asleep EXCEPT ![m] = @ \cup {t}]
       /\ Goto(t, next)
       /\ UNCHANGED owner

\* The thread has the object's std::mutex: it counts as a waiter from here.
MutexEnter(t) ==
  LET m == handle[t]
  IN  /\ pc[t] = "locking"
      /\ TakeOrSleep(t, m, "mutexWait")
      /\ waiters' = IF owner[m] = NoThread THEN waiters
                    ELSE [waiters EXCEPT ![m] = @ + 1]
      /\ UNCHANGED <<gil, handle, condition, registry, count>>

\* A thread that was woken looks at the predicate again.
MutexRetry(t) ==
  LET m == handle[t]
  IN  /\ pc[t] = "mutexWait"
      /\ t \notin asleep[m]
      /\ TakeOrSleep(t, m, "mutexWait")
      /\ waiters' = IF owner[m] = NoThread THEN [waiters EXCEPT ![m] = @ - 1]
                    ELSE waiters
      /\ UNCHANGED <<gil, handle, condition, registry, count>>

MutexTryLock(t, m) ==
  /\ Running(t)
  /\ Known(m)
  /\ owner[m] = NoThread
  /\ owner' = [owner EXCEPT ![m] = t]
  /\ UNCHANGED <<gil, pc, handle, condition, registry, count, waiters, asleep>>

MutexUnlock(t, m) ==
  /\ Running(t)
  /\ Known(m)
  /\ owner[m] = t
  /\ owner' = [owner EXCEPT ![m] = NoThread]
  /\ \E still \in AfterNotifyOne(m) : asleep' = [asleep EXCEPT ![m] = still]
  /\ UNCHANGED <<gil, pc, handle, condition, registry, count, waiters>>

MutexClose(t, m) ==
  /\ Running(t)
  /\ t \in Closers
  /\ Known(m)
  /\ owner[m] = NoThread
  /\ waiters[m] = 0
  /\ registry' = [registry EXCEPT ![m] = "closed"]
  /\ UNCHANGED <<gil, pc, handle, condition, objectVars>>

-----------------------------------------------------------------------------
(* Condition variables *)

ConditionCreate(t, c) ==
  /\ Running(t)
  /\ registry[c] = "new"
  /\ registry' = [registry EXCEPT ![c] = "open"]
  /\ UNCHANGED <<gil, pc, handle, condition, objectVars>>

\* builtinNativeConditionWait, up to its unlockInterpreter: the caller holds
\* the mutex (requireConditionMutex).
ConditionWait(t, c, m) ==
  /\ Running(t)
  /\ Known(c) /\ Known(m)
  /\ owner[m] = t
  /\ ReleaseTo(t, "conditionEnter")
  /\ handle' = [handle EXCEPT ![t] = m]
  /\ condition' = [condition EXCEPT ![t] = c]
  /\ UNCHANGED <<registry, objectVars>>

\* Faulty variant of ConditionEnter: nobody hears that the mutex is free.
ConditionEnterQuietly(t) ==
  LET c == condition[t]
  IN  /\ pc[t] = "conditionEnter"
      /\ owner' = [owner EXCEPT ![handle[t]] = NoThread]
      /\ asleep' = [asleep EXCEPT ![c] = @ \cup {t}]
      /\ waiters' = [waiters EXCEPT ![c] = @ + 1]
      /\ Goto(t, "conditionWait")
      /\ UNCHANGED <<gil, handle, condition, registry, count>>

\* Inside the std::mutex: give the managed mutex up, wake a thread that wants
\* it, and fall asleep on the condition.
ConditionEnter(t) ==
  LET m == handle[t]
      c == condition[t]
  IN  /\ pc[t] = "conditionEnter"
      /\ owner' = [owner EXCEPT ![m] = NoThread]
      /\ \E still \in AfterNotifyOne(m) :
           asleep' = [asleep EXCEPT ![m] = still, ![c] = @ \cup {t}]
      /\ waiters' = [waiters EXCEPT ![c] = @ + 1]
      /\ Goto(t, "conditionWait")
      /\ UNCHANGED <<gil, handle, condition, registry, count>>

\* The condition woke the thread: it wants the mutex back, and is not counted
\* among that mutex's waiters.
ConditionWoken(t) ==
  LET c == condition[t]
  IN  /\ pc[t] = "conditionWait"
      /\ t \notin asleep[c]
      /\ waiters' = [waiters EXCEPT ![c] = @ - 1]
      /\ TakeOrSleep(t, handle[t], "conditionRelock")
      /\ UNCHANGED <<gil, handle, condition, registry, count>>

ConditionRelock(t) ==
  /\ pc[t] = "conditionRelock"
  /\ t \notin asleep[handle[t]]
  /\ TakeOrSleep(t, handle[t], "conditionRelock")
  /\ UNCHANGED <<gil, handle, condition, registry, count, waiters>>

\* signalCondition: the caller holds a mutex, not necessarily the waiters'.
ConditionNotify(t, c, m) ==
  /\ Running(t)
  /\ Known(c) /\ Known(m)
  /\ owner[m] = t
  /\ \E still \in AfterNotifyOne(c) : asleep' = [asleep EXCEPT ![c] = still]
  /\ UNCHANGED <<gil, pc, handle, condition, registry, owner, count, waiters>>

ConditionNotifyAll(t, c, m) ==
  /\ Running(t)
  /\ Known(c) /\ Known(m)
  /\ owner[m] = t
  /\ asleep' = [asleep EXCEPT ![c] = {}]
  /\ UNCHANGED <<gil, pc, handle, condition, registry, owner, count, waiters>>

ConditionClose(t, c) ==
  /\ Running(t)
  /\ t \in Closers
  /\ Known(c)
  /\ waiters[c] = 0
  /\ registry' = [registry EXCEPT ![c] = "closed"]
  /\ UNCHANGED <<gil, pc, handle, condition, objectVars>>

-----------------------------------------------------------------------------
(* Semaphores *)

SemaphoreCreate(t, s, initial) ==
  /\ Running(t)
  /\ registry[s] = "new"
  /\ registry' = [registry EXCEPT ![s] = "open"]
  /\ count' = [count EXCEPT ![s] = initial]
  /\ UNCHANGED <<gil, pc, handle, condition, owner, waiters, asleep>>

\* nativeSemaphoreTryWait, and the fast path of nativeSemaphoreWait: a positive
\* count is taken without letting the interpreter go.
SemaphoreTake(t, s) ==
  /\ Running(t)
  /\ Known(s)
  /\ count[s] > 0
  /\ count' = [count EXCEPT ![s] = @ - 1]
  /\ UNCHANGED <<gil, pc, handle, condition, registry, owner, waiters, asleep>>

\* The slow path, up to its unlockInterpreter.
SemaphoreWait(t, s) ==
  /\ Running(t)
  /\ Known(s)
  /\ count[s] = 0
  /\ ReleaseTo(t, "semaphoreEnter")
  /\ handle' = [handle EXCEPT ![t] = s]
  /\ UNCHANGED <<condition, registry, objectVars>>

\* Inside the std::mutex, now or after a wakeup; `counted` says whether the
\* thread already is among the waiters.
SemaphoreTry(t, counted) ==
  LET s == handle[t]
  IN  /\ IF count[s] > 0
         THEN /\ count' = [count EXCEPT ![s] = @ - 1]
              /\ waiters' = [waiters EXCEPT ![s] = IF counted THEN @ - 1 ELSE @]
              /\ Goto(t, "waking")
              /\ UNCHANGED asleep
         ELSE /\ asleep' = [asleep EXCEPT ![s] = @ \cup {t}]
              /\ waiters' = [waiters EXCEPT ![s] = IF counted THEN @ ELSE @ + 1]
              /\ Goto(t, "semaphoreWait")
              /\ UNCHANGED count
      /\ UNCHANGED <<gil, handle, condition, registry, owner>>

SemaphoreEnter(t) == pc[t] = "semaphoreEnter" /\ SemaphoreTry(t, FALSE)

SemaphoreRetry(t) ==
  /\ pc[t] = "semaphoreWait"
  /\ t \notin asleep[handle[t]]
  /\ SemaphoreTry(t, TRUE)

\* Faulty variant of SemaphorePost: notifies only when the count was zero.
SemaphorePostFirstOnly(t, s) ==
  /\ Running(t)
  /\ Known(s)
  /\ count[s] < MaxCount
  /\ count' = [count EXCEPT ![s] = @ + 1]
  /\ \E still \in IF count[s] = 0 THEN AfterNotifyOne(s) ELSE {asleep[s]} :
       asleep' = [asleep EXCEPT ![s] = still]
  /\ UNCHANGED <<gil, pc, handle, condition, registry, owner, waiters>>

SemaphorePost(t, s) ==
  /\ Running(t)
  /\ Known(s)
  /\ count[s] < MaxCount
  /\ count' = [count EXCEPT ![s] = @ + 1]
  /\ \E still \in AfterNotifyOne(s) : asleep' = [asleep EXCEPT ![s] = still]
  /\ UNCHANGED <<gil, pc, handle, condition, registry, owner, waiters>>

SemaphoreClose(t, s) ==
  /\ Running(t)
  /\ t \in Closers
  /\ Known(s)
  /\ waiters[s] = 0
  /\ registry' = [registry EXCEPT ![s] = "closed"]
  /\ UNCHANGED <<gil, pc, handle, condition, objectVars>>

-----------------------------------------------------------------------------

\* The steps of a blocking call that no other thread decides.
Progress(t) ==
  \/ Wake(t)
  \/ MutexEnter(t) \/ MutexRetry(t)
  \/ ConditionEnter(t) \/ ConditionWoken(t) \/ ConditionRelock(t)
  \/ SemaphoreEnter(t) \/ SemaphoreRetry(t)

\* What the program asks for.
Ask(t) ==
  \/ Yield(t)
  \/ \E m \in Mutexes :
       MutexCreate(t, m) \/ MutexLock(t, m) \/ MutexTryLock(t, m)
       \/ MutexUnlock(t, m) \/ MutexClose(t, m)
  \/ \E c \in Conditions : ConditionCreate(t, c) \/ ConditionClose(t, c)
  \/ \E c \in Conditions, m \in Mutexes :
       ConditionWait(t, c, m) \/ ConditionNotify(t, c, m)
       \/ ConditionNotifyAll(t, c, m)
  \/ \E s \in Semaphores :
       SemaphoreTake(t, s) \/ SemaphoreWait(t, s) \/ SemaphorePost(t, s)
       \/ SemaphoreClose(t, s)
  \/ \E s \in Semaphores, n \in 0..MaxCount : SemaphoreCreate(t, s, n)

Step(t) == Progress(t) \/ Ask(t) \/ \E h \in Handles : WakeSpuriously(t, h)

Next == \E t \in Threads : Step(t)

Spec == Init /\ [][Next]_vars

\* A thread inside a blocking call is run by the operating system.
FairSpec == Spec /\ \A t \in Threads : WF_vars(Progress(t))

=============================================================================
