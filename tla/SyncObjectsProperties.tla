------------------------ MODULE SyncObjectsProperties ------------------------
(***************************************************************************)
(* What the waits of SyncObjects promise.                                  *)
(***************************************************************************)
EXTENDS SyncObjects, Integers

TypeOK ==
  /\ gil \in Threads \cup {NoThread}
  /\ pc \in [Threads -> {"running", "waking", "locking", "mutexWait",
                         "conditionEnter", "conditionWait", "conditionRelock",
                         "semaphoreEnter", "semaphoreWait"}]
  /\ handle \in [Threads -> Mutexes \cup Semaphores \cup {NoHandle}]
  /\ condition \in [Threads -> Conditions \cup {NoHandle}]
  /\ registry \in [Handles -> {"new", "open", "closed"}]
  /\ owner \in [Mutexes -> Threads \cup {NoThread}]
  /\ count \in [Semaphores -> 0..MaxCount]
  /\ waiters \in [Handles -> Int]
  /\ asleep \in [Handles -> SUBSET Threads]

\* The threads that evaluate do so one at a time (Evaluation), whatever they
\* wait for in between.
NeverEvaluateAtOnce == \A t \in Threads : Running(t) <=> gil = t

\* They pass evaluation on the way Evaluation says (every thread is on its way to
\* the lock at first, so nobody is its Main).
Evaluating == {t \in Threads : Running(t)}
EvaluationSpec == INSTANCE Evaluation WITH Main <- NoThread, evaluating <- Evaluating
HandedOver == EvaluationSpec!Handover

\* "Non-recursive; only the owning thread may unlock it": a managed mutex never
\* passes from one thread to another without being free in between, and only a
\* step of its owner frees it - an unlock while it evaluates, or the condition
\* wait that gives the mutex up after the interpreter lock.
OnlyTheOwnerReleases ==
  [][\A m \in Mutexes, t \in Threads :
       owner[m] = t /\ owner'[m] # t =>
         /\ owner'[m] = NoThread
         /\ gil = t \/ pc[t] = "conditionEnter"]_vars

\* A thread sleeps only in the call that put it to sleep.
AwakeOn(h) ==
  {t \in Threads : handle[t] = h /\ t \notin asleep[h]
                   /\ pc[t] \in {"mutexWait", "conditionRelock", "semaphoreWait"}}

\* No wakeup of a mutex is lost: while the mutex is free and a thread sleeps
\* on it, another one is awake and about to look (nativeMutexLock and the
\* re-acquisition of nativeConditionWait share `available`, both
\* nativeMutexUnlock and nativeConditionWait notify one thread only, and
\* nativeMutexTryLock or a new nativeMutexLock may overtake it).
NoLostMutexWakeup ==
  \A m \in Mutexes :
    owner[m] = NoThread /\ asleep[m] # {} => AwakeOn(m) # {}

\* No post of a semaphore is lost: there are as many awake threads as there
\* are counts a sleeping thread could take.
NoLostPost ==
  \A s \in Semaphores :
    asleep[s] # {} => Cardinality(AwakeOn(s)) >= count[s]

\* The counters that guard the close builtins say how many threads are inside
\* the waits they count.
WaitersAreCounted ==
  /\ \A m \in Mutexes :
       waiters[m] = Cardinality({t \in Threads : pc[t] = "mutexWait" /\ handle[t] = m})
  /\ \A c \in Conditions :
       waiters[c] = Cardinality({t \in Threads : pc[t] = "conditionWait" /\ condition[t] = c})
  /\ \A s \in Semaphores :
       waiters[s] = Cardinality({t \in Threads : pc[t] = "semaphoreWait" /\ handle[t] = s})

\* A mutex somebody sleeps on does not stay free for ever: a thread that was
\* woken, or one that overtook it, takes it.
FreeMutexIsTaken ==
  \A m \in Mutexes :
    owner[m] = NoThread /\ asleep[m] # {} ~> owner[m] # NoThread

-----------------------------------------------------------------------------
(* What docs/builtins.md says and the code does not do *)

\* The threads that have called a wait of the condition and not been woken.
WaitingOnCondition(c) ==
  {t \in Threads : condition[t] = c /\ pc[t] \in {"conditionEnter", "conditionWait"}}

\* nativeConditionClose "errors while a thread is waiting": nobody waits on a
\* condition that can no longer be notified.
ClosedConditionHasNoWaiter ==
  \A c \in Conditions : registry[c] = "closed" => WaitingOnCondition(c) = {}

=============================================================================
