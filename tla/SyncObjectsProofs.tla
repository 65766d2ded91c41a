------------------------- MODULE SyncObjectsProofs --------------------------
(***************************************************************************)
(* Proofs about SyncObjects, for any number of threads and handles.        *)
(***************************************************************************)
EXTENDS SyncObjectsProperties, FiniteSetTheorems, TLAPS

-----------------------------------------------------------------------------
(* Type correctness *)

\* Where a blocked thread is says what it waits for.
Waiting ==
  \A t \in Threads :
    /\ pc[t] \in {"locking", "mutexWait", "conditionEnter", "conditionWait", "conditionRelock"} =>
         handle[t] \in Mutexes
    /\ pc[t] \in {"semaphoreEnter", "semaphoreWait"} => handle[t] \in Semaphores
    /\ pc[t] \in {"conditionEnter", "conditionWait"} => condition[t] \in Conditions

Types == TypeOK /\ Waiting

LEMMA TypesInit == Init => Types
BY SyncAssumption DEF Init, Types, TypeOK, Waiting, Handles

LEMMA TypesOfStep ==
  ASSUME Types, NEW t \in Threads, Step(t)
  PROVE  Types'
<1> USE SyncAssumption DEF Types, TypeOK, Waiting, Handles, Running, Known
<1>1. CASE Yield(t)
  BY <1>1 DEF Yield, ReleaseTo, objectVars
<1>2. CASE Wake(t)
  BY <1>2 DEF Wake, Goto, objectVars
<1>3. CASE MutexEnter(t)
  BY <1>3 DEF MutexEnter, TakeOrSleep, Goto
<1>4. CASE MutexRetry(t)
  BY <1>4 DEF MutexRetry, TakeOrSleep, Goto
<1>5. CASE ConditionEnter(t)
  BY <1>5 DEF ConditionEnter, AfterNotifyOne, Goto
<1>6. CASE ConditionWoken(t)
  BY <1>6 DEF ConditionWoken, TakeOrSleep, Goto
<1>7. CASE ConditionRelock(t)
  BY <1>7 DEF ConditionRelock, TakeOrSleep, Goto
<1>8. CASE SemaphoreEnter(t)
  BY <1>8 DEF SemaphoreEnter, SemaphoreTry, Goto
<1>9. CASE SemaphoreRetry(t)
  BY <1>9 DEF SemaphoreRetry, SemaphoreTry, Goto
<1>10. ASSUME NEW m \in Mutexes, MutexCreate(t, m) PROVE Types'
  BY <1>10 DEF MutexCreate, objectVars
<1>11. ASSUME NEW m \in Mutexes, MutexLock(t, m) PROVE Types'
  BY <1>11 DEF MutexLock, ReleaseTo, objectVars
<1>12. ASSUME NEW m \in Mutexes, MutexTryLock(t, m) PROVE Types'
  BY <1>12 DEF MutexTryLock
<1>13. ASSUME NEW m \in Mutexes, MutexUnlock(t, m) PROVE Types'
  BY <1>13 DEF MutexUnlock, AfterNotifyOne
<1>14. ASSUME NEW m \in Mutexes, MutexClose(t, m) PROVE Types'
  BY <1>14 DEF MutexClose, objectVars
<1>15. ASSUME NEW c \in Conditions, ConditionCreate(t, c) PROVE Types'
  BY <1>15 DEF ConditionCreate, objectVars
<1>16. ASSUME NEW c \in Conditions, ConditionClose(t, c) PROVE Types'
  BY <1>16 DEF ConditionClose, objectVars
<1>17. ASSUME NEW c \in Conditions, NEW m \in Mutexes, ConditionWait(t, c, m) PROVE Types'
  BY <1>17 DEF ConditionWait, ReleaseTo, objectVars
<1>18. ASSUME NEW c \in Conditions, NEW m \in Mutexes, ConditionNotify(t, c, m) PROVE Types'
  BY <1>18 DEF ConditionNotify, AfterNotifyOne
<1>19. ASSUME NEW c \in Conditions, NEW m \in Mutexes, ConditionNotifyAll(t, c, m) PROVE Types'
  BY <1>19 DEF ConditionNotifyAll
<1>20. ASSUME NEW s \in Semaphores, SemaphoreTake(t, s) PROVE Types'
  BY <1>20 DEF SemaphoreTake
<1>21. ASSUME NEW s \in Semaphores, SemaphoreWait(t, s) PROVE Types'
  BY <1>21 DEF SemaphoreWait, ReleaseTo, objectVars
<1>22. ASSUME NEW s \in Semaphores, SemaphorePost(t, s) PROVE Types'
  BY <1>22 DEF SemaphorePost, AfterNotifyOne
<1>23. ASSUME NEW s \in Semaphores, SemaphoreClose(t, s) PROVE Types'
  BY <1>23 DEF SemaphoreClose, objectVars
<1>24. ASSUME NEW s \in Semaphores, NEW n \in 0..MaxCount, SemaphoreCreate(t, s, n) PROVE Types'
  BY <1>24 DEF SemaphoreCreate
<1>25. ASSUME NEW h \in Handles, WakeSpuriously(t, h) PROVE Types'
  BY <1>25 DEF WakeSpuriously
<1> QED
  BY <1>1, <1>2, <1>3, <1>4, <1>5, <1>6, <1>7, <1>8, <1>9, <1>10,
     <1>11, <1>12, <1>13, <1>14, <1>15, <1>16, <1>17, <1>18, <1>19,
     <1>20, <1>21, <1>22, <1>23, <1>24, <1>25
     DEF Step, Progress, Ask

LEMMA TypesStep == Types /\ [Next]_vars => Types'
<1> SUFFICES ASSUME Types, [Next]_vars PROVE Types'
  OBVIOUS
<1>1. ASSUME NEW t \in Threads, Step(t) PROVE Types'
  BY <1>1, TypesOfStep
<1>2. CASE UNCHANGED vars
  BY <1>2 DEF vars, objectVars, Types, TypeOK, Waiting
<1> QED
  BY <1>1, <1>2 DEF Next

\* The variables keep their types, and a blocked thread waits for an object of
\* the kind its call is about, whatever the program asks for.
THEOREM TypeCorrect == Spec => []TypeOK
<1>1. Spec => []Types
  BY TypesInit, TypesStep, PTL DEF Spec
<1> QED
  BY <1>1, PTL DEF Types

-----------------------------------------------------------------------------
(* Evaluation *)

LEMMA EvaluateOfInit == Init => NeverEvaluateAtOnce
BY SyncAssumption DEF Init, NeverEvaluateAtOnce, Running

LEMMA NeverEvaluateAtOnceOfStep ==
  ASSUME TypeOK, NeverEvaluateAtOnce, NEW t \in Threads, Step(t)
  PROVE  NeverEvaluateAtOnce'
<1> USE SyncAssumption DEF TypeOK, Handles, Running, NeverEvaluateAtOnce
<1>1. CASE Yield(t)
  BY <1>1 DEF Yield, ReleaseTo, objectVars
<1>2. CASE Wake(t)
  BY <1>2 DEF Wake, Goto, objectVars
<1>3. CASE MutexEnter(t)
  BY <1>3 DEF MutexEnter, TakeOrSleep, Goto
<1>4. CASE MutexRetry(t)
  BY <1>4 DEF MutexRetry, TakeOrSleep, Goto
<1>5. CASE ConditionEnter(t)
  BY <1>5 DEF ConditionEnter, AfterNotifyOne, Goto
<1>6. CASE ConditionWoken(t)
  BY <1>6 DEF ConditionWoken, TakeOrSleep, Goto
<1>7. CASE ConditionRelock(t)
  BY <1>7 DEF ConditionRelock, TakeOrSleep, Goto
<1>8. CASE SemaphoreEnter(t)
  BY <1>8 DEF SemaphoreEnter, SemaphoreTry, Goto
<1>9. CASE SemaphoreRetry(t)
  BY <1>9 DEF SemaphoreRetry, SemaphoreTry, Goto
<1>10. ASSUME NEW m \in Mutexes, MutexCreate(t, m) PROVE NeverEvaluateAtOnce'
  BY <1>10 DEF MutexCreate, objectVars
<1>11. ASSUME NEW m \in Mutexes, MutexLock(t, m) PROVE NeverEvaluateAtOnce'
  BY <1>11 DEF MutexLock, ReleaseTo, objectVars
<1>12. ASSUME NEW m \in Mutexes, MutexTryLock(t, m) PROVE NeverEvaluateAtOnce'
  BY <1>12 DEF MutexTryLock
<1>13. ASSUME NEW m \in Mutexes, MutexUnlock(t, m) PROVE NeverEvaluateAtOnce'
  BY <1>13 DEF MutexUnlock, AfterNotifyOne
<1>14. ASSUME NEW m \in Mutexes, MutexClose(t, m) PROVE NeverEvaluateAtOnce'
  BY <1>14 DEF MutexClose, objectVars
<1>15. ASSUME NEW c \in Conditions, ConditionCreate(t, c) PROVE NeverEvaluateAtOnce'
  BY <1>15 DEF ConditionCreate, objectVars
<1>16. ASSUME NEW c \in Conditions, ConditionClose(t, c) PROVE NeverEvaluateAtOnce'
  BY <1>16 DEF ConditionClose, objectVars
<1>17. ASSUME NEW c \in Conditions, NEW m \in Mutexes, ConditionWait(t, c, m) PROVE NeverEvaluateAtOnce'
  BY <1>17 DEF ConditionWait, ReleaseTo, objectVars
<1>18. ASSUME NEW c \in Conditions, NEW m \in Mutexes, ConditionNotify(t, c, m) PROVE NeverEvaluateAtOnce'
  BY <1>18 DEF ConditionNotify, AfterNotifyOne
<1>19. ASSUME NEW c \in Conditions, NEW m \in Mutexes, ConditionNotifyAll(t, c, m) PROVE NeverEvaluateAtOnce'
  BY <1>19 DEF ConditionNotifyAll
<1>20. ASSUME NEW s \in Semaphores, SemaphoreTake(t, s) PROVE NeverEvaluateAtOnce'
  BY <1>20 DEF SemaphoreTake
<1>21. ASSUME NEW s \in Semaphores, SemaphoreWait(t, s) PROVE NeverEvaluateAtOnce'
  BY <1>21 DEF SemaphoreWait, ReleaseTo, objectVars
<1>22. ASSUME NEW s \in Semaphores, SemaphorePost(t, s) PROVE NeverEvaluateAtOnce'
  BY <1>22 DEF SemaphorePost, AfterNotifyOne
<1>23. ASSUME NEW s \in Semaphores, SemaphoreClose(t, s) PROVE NeverEvaluateAtOnce'
  BY <1>23 DEF SemaphoreClose, objectVars
<1>24. ASSUME NEW s \in Semaphores, NEW n \in 0..MaxCount, SemaphoreCreate(t, s, n) PROVE NeverEvaluateAtOnce'
  BY <1>24 DEF SemaphoreCreate
<1>25. ASSUME NEW h \in Handles, WakeSpuriously(t, h) PROVE NeverEvaluateAtOnce'
  BY <1>25 DEF WakeSpuriously
<1> QED
  BY <1>1, <1>2, <1>3, <1>4, <1>5, <1>6, <1>7, <1>8, <1>9, <1>10,
     <1>11, <1>12, <1>13, <1>14, <1>15, <1>16, <1>17, <1>18, <1>19,
     <1>20, <1>21, <1>22, <1>23, <1>24, <1>25
     DEF Step, Progress, Ask

LEMMA NeverEvaluateAtOnceStep == TypeOK /\ NeverEvaluateAtOnce /\ [Next]_vars => NeverEvaluateAtOnce'
<1> SUFFICES ASSUME TypeOK /\ NeverEvaluateAtOnce, [Next]_vars PROVE NeverEvaluateAtOnce'
  OBVIOUS
<1>1. ASSUME NEW t \in Threads, Step(t) PROVE NeverEvaluateAtOnce'
  BY <1>1, NeverEvaluateAtOnceOfStep
<1>2. CASE UNCHANGED vars
  BY <1>2 DEF vars, objectVars, NeverEvaluateAtOnce, Running
<1> QED
  BY <1>1, <1>2 DEF Next

\* At most one thread evaluates, whichever waits the others are in and however
\* they were woken: the interpreter lock and the program counters agree.
THEOREM OneThreadEvaluates == Spec => []NeverEvaluateAtOnce
BY TypeCorrect, EvaluateOfInit, NeverEvaluateAtOnceStep, PTL DEF Spec

\* The lock is taken when it is free and given back, never handed to a thread.
LEMMA LockOfStep ==
  ASSUME NEW t \in Threads, Step(t)
  PROVE  gil' = gil \/ gil = NoThread \/ gil' = NoThread
<1>1. Progress(t) => gil' = gil \/ gil = NoThread
  BY DEF Progress, Wake, MutexEnter, MutexRetry, ConditionEnter, ConditionWoken,
         ConditionRelock, SemaphoreEnter, SemaphoreRetry, SemaphoreTry
<1>2. ASSUME Yield(t) \/ \E m \in Mutexes :
               MutexCreate(t, m) \/ MutexLock(t, m) \/ MutexTryLock(t, m)
               \/ MutexUnlock(t, m) \/ MutexClose(t, m)
      PROVE  gil' = gil \/ gil' = NoThread
  BY <1>2 DEF Yield, MutexCreate, MutexLock, MutexTryLock, MutexUnlock, MutexClose, ReleaseTo
<1>3. ASSUME \/ \E c \in Conditions : ConditionCreate(t, c) \/ ConditionClose(t, c)
             \/ \E c \in Conditions, m \in Mutexes :
                  ConditionWait(t, c, m) \/ ConditionNotify(t, c, m) \/ ConditionNotifyAll(t, c, m)
      PROVE  gil' = gil \/ gil' = NoThread
  BY <1>3 DEF ConditionCreate, ConditionClose, ConditionWait, ConditionNotify,
              ConditionNotifyAll, ReleaseTo
<1>4. ASSUME \/ \E s \in Semaphores : SemaphoreTake(t, s) \/ SemaphoreWait(t, s)
                                       \/ SemaphorePost(t, s) \/ SemaphoreClose(t, s)
             \/ \E s \in Semaphores, n \in 0..MaxCount : SemaphoreCreate(t, s, n)
      PROVE  gil' = gil \/ gil' = NoThread
  BY <1>4 DEF SemaphoreTake, SemaphoreWait, SemaphorePost, SemaphoreClose, SemaphoreCreate,
              ReleaseTo
<1>5. ASSUME NEW h \in Handles, WakeSpuriously(t, h) PROVE gil' = gil
  BY <1>5 DEF WakeSpuriously
<1> QED
  BY <1>1, <1>2, <1>3, <1>4, <1>5 DEF Step, Ask

LEMMA HandoverStep ==
  ASSUME TypeOK, NeverEvaluateAtOnce, NeverEvaluateAtOnce', TypeOK', [Next]_vars
  PROVE  [EvaluationSpec!Next]_Evaluating
<1>1. gil' = gil \/ gil = NoThread \/ gil' = NoThread
  BY LockOfStep DEF Next, vars
<1>2. Evaluating = {gil} \ {NoThread} /\ Evaluating' = {gil'} \ {NoThread}
  BY SyncAssumption DEF TypeOK, NeverEvaluateAtOnce, Evaluating
<1>3. CASE gil = NoThread /\ gil' # NoThread
  <2>1. gil' \in Threads /\ Evaluating = {} /\ Evaluating' = {gil'}
    BY <1>2, <1>3 DEF TypeOK
  <2> QED
    BY <2>1 DEF EvaluationSpec!Next, EvaluationSpec!Enter
<1>4. CASE gil # NoThread /\ gil' = NoThread
  <2>1. gil \in Threads /\ Evaluating = {gil} /\ Evaluating' = {}
    BY <1>2, <1>4 DEF TypeOK
  <2> QED
    BY <2>1 DEF EvaluationSpec!Next, EvaluationSpec!Leave
<1> QED
  BY <1>1, <1>2, <1>3, <1>4

\* Through every wait evaluation is handed over as Evaluation says: no wakeup, no
\* notification and no unlock lets a second thread evaluate.
THEOREM EvaluationIsHandedOver == Spec => HandedOver
BY TypeCorrect, OneThreadEvaluates, HandoverStep, PTL
   DEF Spec, HandedOver, EvaluationSpec!Handover

-----------------------------------------------------------------------------
(* Mutexes *)

\* A thread sleeps on what its call waits for.
Sleepers ==
  \A h \in Handles : \A t \in asleep[h] :
    \/ /\ h \in Mutexes /\ handle[t] = h
       /\ pc[t] \in {"mutexWait", "conditionRelock"}
    \/ h \in Conditions /\ condition[t] = h /\ pc[t] = "conditionWait"
    \/ h \in Semaphores /\ handle[t] = h /\ pc[t] = "semaphoreWait"

LEMMA SleepersInit == Init => Sleepers
BY DEF Init, Sleepers

LEMMA SleepersOfStep ==
  ASSUME Types, Sleepers, NEW t \in Threads, Step(t)
  PROVE  Sleepers'
<1> USE SyncAssumption DEF Types, TypeOK, Waiting, Handles, Running, Known, Sleepers
<1>1. CASE Yield(t)
  BY <1>1 DEF Yield, ReleaseTo, objectVars
<1>2. CASE Wake(t)
  BY <1>2 DEF Wake, Goto, objectVars
<1>3. CASE MutexEnter(t)
  BY <1>3, SMTT(60) DEF MutexEnter, TakeOrSleep, Goto
<1>4. CASE MutexRetry(t)
  BY <1>4 DEF MutexRetry, TakeOrSleep, Goto
<1>5. CASE ConditionEnter(t)
  BY <1>5 DEF ConditionEnter, AfterNotifyOne, Goto
<1>6. CASE ConditionWoken(t)
  BY <1>6 DEF ConditionWoken, TakeOrSleep, Goto
<1>7. CASE ConditionRelock(t)
  BY <1>7 DEF ConditionRelock, TakeOrSleep, Goto
<1>8. CASE SemaphoreEnter(t)
  BY <1>8 DEF SemaphoreEnter, SemaphoreTry, Goto
<1>9. CASE SemaphoreRetry(t)
  BY <1>9 DEF SemaphoreRetry, SemaphoreTry, Goto
<1>10. ASSUME NEW m \in Mutexes, MutexCreate(t, m) PROVE Sleepers'
  BY <1>10 DEF MutexCreate, objectVars
<1>11. ASSUME NEW m \in Mutexes, MutexLock(t, m) PROVE Sleepers'
  BY <1>11 DEF MutexLock, ReleaseTo, objectVars
<1>12. ASSUME NEW m \in Mutexes, MutexTryLock(t, m) PROVE Sleepers'
  BY <1>12 DEF MutexTryLock
<1>13. ASSUME NEW m \in Mutexes, MutexUnlock(t, m) PROVE Sleepers'
  BY <1>13 DEF MutexUnlock, AfterNotifyOne
<1>14. ASSUME NEW m \in Mutexes, MutexClose(t, m) PROVE Sleepers'
  BY <1>14 DEF MutexClose, objectVars
<1>15. ASSUME NEW c \in Conditions, ConditionCreate(t, c) PROVE Sleepers'
  BY <1>15 DEF ConditionCreate, objectVars
<1>16. ASSUME NEW c \in Conditions, ConditionClose(t, c) PROVE Sleepers'
  BY <1>16 DEF ConditionClose, objectVars
<1>17. ASSUME NEW c \in Conditions, NEW m \in Mutexes, ConditionWait(t, c, m) PROVE Sleepers'
  BY <1>17 DEF ConditionWait, ReleaseTo, objectVars
<1>18. ASSUME NEW c \in Conditions, NEW m \in Mutexes, ConditionNotify(t, c, m) PROVE Sleepers'
  BY <1>18 DEF ConditionNotify, AfterNotifyOne
<1>19. ASSUME NEW c \in Conditions, NEW m \in Mutexes, ConditionNotifyAll(t, c, m) PROVE Sleepers'
  BY <1>19 DEF ConditionNotifyAll
<1>20. ASSUME NEW s \in Semaphores, SemaphoreTake(t, s) PROVE Sleepers'
  BY <1>20 DEF SemaphoreTake
<1>21. ASSUME NEW s \in Semaphores, SemaphoreWait(t, s) PROVE Sleepers'
  BY <1>21 DEF SemaphoreWait, ReleaseTo, objectVars
<1>22. ASSUME NEW s \in Semaphores, SemaphorePost(t, s) PROVE Sleepers'
  BY <1>22 DEF SemaphorePost, AfterNotifyOne
<1>23. ASSUME NEW s \in Semaphores, SemaphoreClose(t, s) PROVE Sleepers'
  BY <1>23 DEF SemaphoreClose, objectVars
<1>24. ASSUME NEW s \in Semaphores, NEW n \in 0..MaxCount, SemaphoreCreate(t, s, n) PROVE Sleepers'
  BY <1>24 DEF SemaphoreCreate
<1>25. ASSUME NEW h \in Handles, WakeSpuriously(t, h) PROVE Sleepers'
  BY <1>25 DEF WakeSpuriously
<1> QED
  BY <1>1, <1>2, <1>3, <1>4, <1>5, <1>6, <1>7, <1>8, <1>9, <1>10,
     <1>11, <1>12, <1>13, <1>14, <1>15, <1>16, <1>17, <1>18, <1>19,
     <1>20, <1>21, <1>22, <1>23, <1>24, <1>25
     DEF Step, Progress, Ask

LEMMA SleepersStep == Types /\ Sleepers /\ [Next]_vars => Sleepers'
<1> SUFFICES ASSUME Types /\ Sleepers, [Next]_vars PROVE Sleepers'
  OBVIOUS
<1>1. ASSUME NEW t \in Threads, Step(t) PROVE Sleepers'
  BY <1>1, SleepersOfStep
<1>2. CASE UNCHANGED vars
  BY <1>2 DEF vars, objectVars, Sleepers
<1> QED
  BY <1>1, <1>2 DEF Next

LEMMA MutexInit == Init => NoLostMutexWakeup
BY DEF Init, NoLostMutexWakeup, Handles

LEMMA NoLostMutexWakeupOfStep ==
  ASSUME Types, Sleepers, NoLostMutexWakeup, NEW t \in Threads, Step(t)
  PROVE  NoLostMutexWakeup'
<1> USE SyncAssumption DEF Types, TypeOK, Waiting, Handles, Running, Known, Sleepers, NoLostMutexWakeup, AwakeOn
<1>1. CASE Yield(t)
  BY <1>1 DEF Yield, ReleaseTo, objectVars
<1>2. CASE Wake(t)
  BY <1>2 DEF Wake, Goto, objectVars
<1>3. CASE MutexEnter(t)
  BY <1>3 DEF MutexEnter, TakeOrSleep, Goto
<1>4. CASE MutexRetry(t)
  BY <1>4 DEF MutexRetry, TakeOrSleep, Goto
<1>5. CASE ConditionEnter(t)
  BY <1>5 DEF ConditionEnter, AfterNotifyOne, Goto
<1>6. CASE ConditionWoken(t)
  BY <1>6, SMTT(60) DEF ConditionWoken, TakeOrSleep, Goto
<1>7. CASE ConditionRelock(t)
  BY <1>7 DEF ConditionRelock, TakeOrSleep, Goto
<1>8. CASE SemaphoreEnter(t)
  BY <1>8 DEF SemaphoreEnter, SemaphoreTry, Goto
<1>9. CASE SemaphoreRetry(t)
  BY <1>9 DEF SemaphoreRetry, SemaphoreTry, Goto
<1>10. ASSUME NEW m \in Mutexes, MutexCreate(t, m) PROVE NoLostMutexWakeup'
  BY <1>10 DEF MutexCreate, objectVars
<1>11. ASSUME NEW m \in Mutexes, MutexLock(t, m) PROVE NoLostMutexWakeup'
  BY <1>11 DEF MutexLock, ReleaseTo, objectVars
<1>12. ASSUME NEW m \in Mutexes, MutexTryLock(t, m) PROVE NoLostMutexWakeup'
  BY <1>12 DEF MutexTryLock
<1>13. ASSUME NEW m \in Mutexes, MutexUnlock(t, m) PROVE NoLostMutexWakeup'
  BY <1>13 DEF MutexUnlock, AfterNotifyOne
<1>14. ASSUME NEW m \in Mutexes, MutexClose(t, m) PROVE NoLostMutexWakeup'
  BY <1>14 DEF MutexClose, objectVars
<1>15. ASSUME NEW c \in Conditions, ConditionCreate(t, c) PROVE NoLostMutexWakeup'
  BY <1>15 DEF ConditionCreate, objectVars
<1>16. ASSUME NEW c \in Conditions, ConditionClose(t, c) PROVE NoLostMutexWakeup'
  BY <1>16 DEF ConditionClose, objectVars
<1>17. ASSUME NEW c \in Conditions, NEW m \in Mutexes, ConditionWait(t, c, m) PROVE NoLostMutexWakeup'
  BY <1>17 DEF ConditionWait, ReleaseTo, objectVars
<1>18. ASSUME NEW c \in Conditions, NEW m \in Mutexes, ConditionNotify(t, c, m) PROVE NoLostMutexWakeup'
  BY <1>18 DEF ConditionNotify, AfterNotifyOne
<1>19. ASSUME NEW c \in Conditions, NEW m \in Mutexes, ConditionNotifyAll(t, c, m) PROVE NoLostMutexWakeup'
  BY <1>19 DEF ConditionNotifyAll
<1>20. ASSUME NEW s \in Semaphores, SemaphoreTake(t, s) PROVE NoLostMutexWakeup'
  BY <1>20 DEF SemaphoreTake
<1>21. ASSUME NEW s \in Semaphores, SemaphoreWait(t, s) PROVE NoLostMutexWakeup'
  BY <1>21 DEF SemaphoreWait, ReleaseTo, objectVars
<1>22. ASSUME NEW s \in Semaphores, SemaphorePost(t, s) PROVE NoLostMutexWakeup'
  BY <1>22 DEF SemaphorePost, AfterNotifyOne
<1>23. ASSUME NEW s \in Semaphores, SemaphoreClose(t, s) PROVE NoLostMutexWakeup'
  BY <1>23 DEF SemaphoreClose, objectVars
<1>24. ASSUME NEW s \in Semaphores, NEW n \in 0..MaxCount, SemaphoreCreate(t, s, n) PROVE NoLostMutexWakeup'
  BY <1>24 DEF SemaphoreCreate
<1>25. ASSUME NEW h \in Handles, WakeSpuriously(t, h) PROVE NoLostMutexWakeup'
  BY <1>25 DEF WakeSpuriously
<1> QED
  BY <1>1, <1>2, <1>3, <1>4, <1>5, <1>6, <1>7, <1>8, <1>9, <1>10,
     <1>11, <1>12, <1>13, <1>14, <1>15, <1>16, <1>17, <1>18, <1>19,
     <1>20, <1>21, <1>22, <1>23, <1>24, <1>25
     DEF Step, Progress, Ask

LEMMA NoLostMutexWakeupStep == Types /\ Sleepers /\ NoLostMutexWakeup /\ [Next]_vars => NoLostMutexWakeup'
<1> SUFFICES ASSUME Types /\ Sleepers /\ NoLostMutexWakeup, [Next]_vars PROVE NoLostMutexWakeup'
  OBVIOUS
<1>1. ASSUME NEW t \in Threads, Step(t) PROVE NoLostMutexWakeup'
  BY <1>1, NoLostMutexWakeupOfStep
<1>2. CASE UNCHANGED vars
  BY <1>2 DEF vars, objectVars, NoLostMutexWakeup, AwakeOn
<1> QED
  BY <1>1, <1>2 DEF Next

\* No wakeup of a mutex is lost, for any number of threads, mutexes and
\* conditions: sleepers on a free mutex have an awake thread among them.
THEOREM NoMutexWakeupIsLost == Spec => []NoLostMutexWakeup
<1>1. Spec => []Types
  BY TypesInit, TypesStep, PTL DEF Spec
<1>2. Spec => []Sleepers
  BY <1>1, SleepersInit, SleepersStep, PTL DEF Spec
<1> QED
  BY <1>1, <1>2, MutexInit, NoLostMutexWakeupStep, PTL DEF Spec

\* A thread that gives a mutex up for a condition has it until it does.
EnterersOwn == \A t \in Threads : pc[t] = "conditionEnter" => owner[handle[t]] = t

LEMMA EnterersOwnInit == Init => EnterersOwn
BY DEF Init, EnterersOwn

LEMMA EnterersOwnOfStep ==
  ASSUME Types, EnterersOwn, NEW t \in Threads, Step(t)
  PROVE  EnterersOwn'
<1> USE SyncAssumption DEF Types, TypeOK, Waiting, Handles, Running, Known, EnterersOwn
<1>1. CASE Yield(t)
  BY <1>1 DEF Yield, ReleaseTo, objectVars
<1>2. CASE Wake(t)
  BY <1>2 DEF Wake, Goto, objectVars
<1>3. CASE MutexEnter(t)
  BY <1>3 DEF MutexEnter, TakeOrSleep, Goto
<1>4. CASE MutexRetry(t)
  BY <1>4 DEF MutexRetry, TakeOrSleep, Goto
<1>5. CASE ConditionEnter(t)
  BY <1>5 DEF ConditionEnter, AfterNotifyOne, Goto
<1>6. CASE ConditionWoken(t)
  BY <1>6 DEF ConditionWoken, TakeOrSleep, Goto
<1>7. CASE ConditionRelock(t)
  BY <1>7 DEF ConditionRelock, TakeOrSleep, Goto
<1>8. CASE SemaphoreEnter(t)
  BY <1>8 DEF SemaphoreEnter, SemaphoreTry, Goto
<1>9. CASE SemaphoreRetry(t)
  BY <1>9 DEF SemaphoreRetry, SemaphoreTry, Goto
<1>10. ASSUME NEW m \in Mutexes, MutexCreate(t, m) PROVE EnterersOwn'
  BY <1>10 DEF MutexCreate, objectVars
<1>11. ASSUME NEW m \in Mutexes, MutexLock(t, m) PROVE EnterersOwn'
  BY <1>11 DEF MutexLock, ReleaseTo, objectVars
<1>12. ASSUME NEW m \in Mutexes, MutexTryLock(t, m) PROVE EnterersOwn'
  BY <1>12 DEF MutexTryLock
<1>13. ASSUME NEW m \in Mutexes, MutexUnlock(t, m) PROVE EnterersOwn'
  BY <1>13 DEF MutexUnlock, AfterNotifyOne
<1>14. ASSUME NEW m \in Mutexes, MutexClose(t, m) PROVE EnterersOwn'
  BY <1>14 DEF MutexClose, objectVars
<1>15. ASSUME NEW c \in Conditions, ConditionCreate(t, c) PROVE EnterersOwn'
  BY <1>15 DEF ConditionCreate, objectVars
<1>16. ASSUME NEW c \in Conditions, ConditionClose(t, c) PROVE EnterersOwn'
  BY <1>16 DEF ConditionClose, objectVars
<1>17. ASSUME NEW c \in Conditions, NEW m \in Mutexes, ConditionWait(t, c, m) PROVE EnterersOwn'
  BY <1>17 DEF ConditionWait, ReleaseTo, objectVars
<1>18. ASSUME NEW c \in Conditions, NEW m \in Mutexes, ConditionNotify(t, c, m) PROVE EnterersOwn'
  BY <1>18 DEF ConditionNotify, AfterNotifyOne
<1>19. ASSUME NEW c \in Conditions, NEW m \in Mutexes, ConditionNotifyAll(t, c, m) PROVE EnterersOwn'
  BY <1>19 DEF ConditionNotifyAll
<1>20. ASSUME NEW s \in Semaphores, SemaphoreTake(t, s) PROVE EnterersOwn'
  BY <1>20 DEF SemaphoreTake
<1>21. ASSUME NEW s \in Semaphores, SemaphoreWait(t, s) PROVE EnterersOwn'
  BY <1>21 DEF SemaphoreWait, ReleaseTo, objectVars
<1>22. ASSUME NEW s \in Semaphores, SemaphorePost(t, s) PROVE EnterersOwn'
  BY <1>22 DEF SemaphorePost, AfterNotifyOne
<1>23. ASSUME NEW s \in Semaphores, SemaphoreClose(t, s) PROVE EnterersOwn'
  BY <1>23 DEF SemaphoreClose, objectVars
<1>24. ASSUME NEW s \in Semaphores, NEW n \in 0..MaxCount, SemaphoreCreate(t, s, n) PROVE EnterersOwn'
  BY <1>24 DEF SemaphoreCreate
<1>25. ASSUME NEW h \in Handles, WakeSpuriously(t, h) PROVE EnterersOwn'
  BY <1>25 DEF WakeSpuriously
<1> QED
  BY <1>1, <1>2, <1>3, <1>4, <1>5, <1>6, <1>7, <1>8, <1>9, <1>10,
     <1>11, <1>12, <1>13, <1>14, <1>15, <1>16, <1>17, <1>18, <1>19,
     <1>20, <1>21, <1>22, <1>23, <1>24, <1>25
     DEF Step, Progress, Ask

LEMMA EnterersOwnStep == Types /\ EnterersOwn /\ [Next]_vars => EnterersOwn'
<1> SUFFICES ASSUME Types /\ EnterersOwn, [Next]_vars PROVE EnterersOwn'
  OBVIOUS
<1>1. ASSUME NEW t \in Threads, Step(t) PROVE EnterersOwn'
  BY <1>1, EnterersOwnOfStep
<1>2. CASE UNCHANGED vars
  BY <1>2 DEF vars, objectVars, EnterersOwn
<1> QED
  BY <1>1, <1>2 DEF Next

Releases ==
  \A m \in Mutexes, t \in Threads :
    owner[m] = t /\ owner'[m] # t =>
      /\ owner'[m] = NoThread
      /\ gil = t \/ pc[t] = "conditionEnter"

LEMMA ReleasesOfStep ==
  ASSUME Types, NeverEvaluateAtOnce, EnterersOwn, NEW t \in Threads, Step(t)
  PROVE  Releases
<1> USE SyncAssumption DEF Types, TypeOK, Waiting, Handles, Running, Known, NeverEvaluateAtOnce, EnterersOwn, Releases
<1>1. CASE Yield(t)
  BY <1>1 DEF Yield, ReleaseTo, objectVars
<1>2. CASE Wake(t)
  BY <1>2 DEF Wake, Goto, objectVars
<1>3. CASE MutexEnter(t)
  BY <1>3 DEF MutexEnter, TakeOrSleep, Goto
<1>4. CASE MutexRetry(t)
  BY <1>4 DEF MutexRetry, TakeOrSleep, Goto
<1>5. CASE ConditionEnter(t)
  BY <1>5 DEF ConditionEnter, AfterNotifyOne, Goto
<1>6. CASE ConditionWoken(t)
  BY <1>6 DEF ConditionWoken, TakeOrSleep, Goto
<1>7. CASE ConditionRelock(t)
  BY <1>7 DEF ConditionRelock, TakeOrSleep, Goto
<1>8. CASE SemaphoreEnter(t)
  BY <1>8 DEF SemaphoreEnter, SemaphoreTry, Goto
<1>9. CASE SemaphoreRetry(t)
  BY <1>9 DEF SemaphoreRetry, SemaphoreTry, Goto
<1>10. ASSUME NEW m \in Mutexes, MutexCreate(t, m) PROVE Releases
  BY <1>10 DEF MutexCreate, objectVars
<1>11. ASSUME NEW m \in Mutexes, MutexLock(t, m) PROVE Releases
  BY <1>11 DEF MutexLock, ReleaseTo, objectVars
<1>12. ASSUME NEW m \in Mutexes, MutexTryLock(t, m) PROVE Releases
  BY <1>12 DEF MutexTryLock
<1>13. ASSUME NEW m \in Mutexes, MutexUnlock(t, m) PROVE Releases
  BY <1>13 DEF MutexUnlock, AfterNotifyOne
<1>14. ASSUME NEW m \in Mutexes, MutexClose(t, m) PROVE Releases
  BY <1>14 DEF MutexClose, objectVars
<1>15. ASSUME NEW c \in Conditions, ConditionCreate(t, c) PROVE Releases
  BY <1>15 DEF ConditionCreate, objectVars
<1>16. ASSUME NEW c \in Conditions, ConditionClose(t, c) PROVE Releases
  BY <1>16 DEF ConditionClose, objectVars
<1>17. ASSUME NEW c \in Conditions, NEW m \in Mutexes, ConditionWait(t, c, m) PROVE Releases
  BY <1>17 DEF ConditionWait, ReleaseTo, objectVars
<1>18. ASSUME NEW c \in Conditions, NEW m \in Mutexes, ConditionNotify(t, c, m) PROVE Releases
  BY <1>18 DEF ConditionNotify, AfterNotifyOne
<1>19. ASSUME NEW c \in Conditions, NEW m \in Mutexes, ConditionNotifyAll(t, c, m) PROVE Releases
  BY <1>19 DEF ConditionNotifyAll
<1>20. ASSUME NEW s \in Semaphores, SemaphoreTake(t, s) PROVE Releases
  BY <1>20 DEF SemaphoreTake
<1>21. ASSUME NEW s \in Semaphores, SemaphoreWait(t, s) PROVE Releases
  BY <1>21 DEF SemaphoreWait, ReleaseTo, objectVars
<1>22. ASSUME NEW s \in Semaphores, SemaphorePost(t, s) PROVE Releases
  BY <1>22 DEF SemaphorePost, AfterNotifyOne
<1>23. ASSUME NEW s \in Semaphores, SemaphoreClose(t, s) PROVE Releases
  BY <1>23 DEF SemaphoreClose, objectVars
<1>24. ASSUME NEW s \in Semaphores, NEW n \in 0..MaxCount, SemaphoreCreate(t, s, n) PROVE Releases
  BY <1>24 DEF SemaphoreCreate
<1>25. ASSUME NEW h \in Handles, WakeSpuriously(t, h) PROVE Releases
  BY <1>25 DEF WakeSpuriously
<1> QED
  BY <1>1, <1>2, <1>3, <1>4, <1>5, <1>6, <1>7, <1>8, <1>9, <1>10,
     <1>11, <1>12, <1>13, <1>14, <1>15, <1>16, <1>17, <1>18, <1>19,
     <1>20, <1>21, <1>22, <1>23, <1>24, <1>25
     DEF Step, Progress, Ask

\* No step of any other thread takes a mutex from its owner, in any number of
\* threads, mutexes and conditions.
THEOREM OwnersRelease == Spec => OnlyTheOwnerReleases
<1>1. Types /\ NeverEvaluateAtOnce /\ EnterersOwn /\ [Next]_vars => [Releases]_vars
  BY ReleasesOfStep DEF Next
<1>2. Spec => []Types
  BY TypesInit, TypesStep, PTL DEF Spec
<1>3. Spec => []EnterersOwn
  BY <1>2, EnterersOwnInit, EnterersOwnStep, PTL DEF Spec
<1>4. Spec => [][Releases]_vars
  BY <1>1, <1>2, <1>3, OneThreadEvaluates, PTL DEF Spec
<1> QED
  BY <1>4 DEF OnlyTheOwnerReleases, Releases

-----------------------------------------------------------------------------
(* Semaphores *)

\* Nobody sleeps on a semaphore before it is created.
NewHasNoSleepers ==
  \A t \in Threads : pc[t] \in {"semaphoreEnter", "semaphoreWait"} => registry[handle[t]] # "new"

LEMMA NewHasNoSleepersInit == Init => NewHasNoSleepers
BY DEF Init, NewHasNoSleepers

LEMMA NewHasNoSleepersOfStep ==
  ASSUME Types, NewHasNoSleepers, NEW t \in Threads, Step(t)
  PROVE  NewHasNoSleepers'
<1> USE SyncAssumption DEF Types, TypeOK, Waiting, Handles, Running, Known, NewHasNoSleepers
<1>1. CASE Yield(t)
  BY <1>1 DEF Yield, ReleaseTo, objectVars
<1>2. CASE Wake(t)
  BY <1>2 DEF Wake, Goto, objectVars
<1>3. CASE MutexEnter(t)
  BY <1>3 DEF MutexEnter, TakeOrSleep, Goto
<1>4. CASE MutexRetry(t)
  BY <1>4 DEF MutexRetry, TakeOrSleep, Goto
<1>5. CASE ConditionEnter(t)
  BY <1>5 DEF ConditionEnter, AfterNotifyOne, Goto
<1>6. CASE ConditionWoken(t)
  BY <1>6 DEF ConditionWoken, TakeOrSleep, Goto
<1>7. CASE ConditionRelock(t)
  BY <1>7 DEF ConditionRelock, TakeOrSleep, Goto
<1>8. CASE SemaphoreEnter(t)
  BY <1>8 DEF SemaphoreEnter, SemaphoreTry, Goto
<1>9. CASE SemaphoreRetry(t)
  BY <1>9 DEF SemaphoreRetry, SemaphoreTry, Goto
<1>10. ASSUME NEW m \in Mutexes, MutexCreate(t, m) PROVE NewHasNoSleepers'
  BY <1>10 DEF MutexCreate, objectVars
<1>11. ASSUME NEW m \in Mutexes, MutexLock(t, m) PROVE NewHasNoSleepers'
  BY <1>11 DEF MutexLock, ReleaseTo, objectVars
<1>12. ASSUME NEW m \in Mutexes, MutexTryLock(t, m) PROVE NewHasNoSleepers'
  BY <1>12 DEF MutexTryLock
<1>13. ASSUME NEW m \in Mutexes, MutexUnlock(t, m) PROVE NewHasNoSleepers'
  BY <1>13 DEF MutexUnlock, AfterNotifyOne
<1>14. ASSUME NEW m \in Mutexes, MutexClose(t, m) PROVE NewHasNoSleepers'
  BY <1>14 DEF MutexClose, objectVars
<1>15. ASSUME NEW c \in Conditions, ConditionCreate(t, c) PROVE NewHasNoSleepers'
  BY <1>15 DEF ConditionCreate, objectVars
<1>16. ASSUME NEW c \in Conditions, ConditionClose(t, c) PROVE NewHasNoSleepers'
  BY <1>16 DEF ConditionClose, objectVars
<1>17. ASSUME NEW c \in Conditions, NEW m \in Mutexes, ConditionWait(t, c, m) PROVE NewHasNoSleepers'
  BY <1>17 DEF ConditionWait, ReleaseTo, objectVars
<1>18. ASSUME NEW c \in Conditions, NEW m \in Mutexes, ConditionNotify(t, c, m) PROVE NewHasNoSleepers'
  BY <1>18 DEF ConditionNotify, AfterNotifyOne
<1>19. ASSUME NEW c \in Conditions, NEW m \in Mutexes, ConditionNotifyAll(t, c, m) PROVE NewHasNoSleepers'
  BY <1>19 DEF ConditionNotifyAll
<1>20. ASSUME NEW s \in Semaphores, SemaphoreTake(t, s) PROVE NewHasNoSleepers'
  BY <1>20 DEF SemaphoreTake
<1>21. ASSUME NEW s \in Semaphores, SemaphoreWait(t, s) PROVE NewHasNoSleepers'
  BY <1>21 DEF SemaphoreWait, ReleaseTo, objectVars
<1>22. ASSUME NEW s \in Semaphores, SemaphorePost(t, s) PROVE NewHasNoSleepers'
  BY <1>22 DEF SemaphorePost, AfterNotifyOne
<1>23. ASSUME NEW s \in Semaphores, SemaphoreClose(t, s) PROVE NewHasNoSleepers'
  BY <1>23 DEF SemaphoreClose, objectVars
<1>24. ASSUME NEW s \in Semaphores, NEW n \in 0..MaxCount, SemaphoreCreate(t, s, n) PROVE NewHasNoSleepers'
  BY <1>24 DEF SemaphoreCreate
<1>25. ASSUME NEW h \in Handles, WakeSpuriously(t, h) PROVE NewHasNoSleepers'
  BY <1>25 DEF WakeSpuriously
<1> QED
  BY <1>1, <1>2, <1>3, <1>4, <1>5, <1>6, <1>7, <1>8, <1>9, <1>10,
     <1>11, <1>12, <1>13, <1>14, <1>15, <1>16, <1>17, <1>18, <1>19,
     <1>20, <1>21, <1>22, <1>23, <1>24, <1>25
     DEF Step, Progress, Ask

LEMMA NewHasNoSleepersStep == Types /\ NewHasNoSleepers /\ [Next]_vars => NewHasNoSleepers'
<1> SUFFICES ASSUME Types /\ NewHasNoSleepers, [Next]_vars PROVE NewHasNoSleepers'
  OBVIOUS
<1>1. ASSUME NEW t \in Threads, Step(t) PROVE NewHasNoSleepers'
  BY <1>1, NewHasNoSleepersOfStep
<1>2. CASE UNCHANGED vars
  BY <1>2 DEF vars, objectVars, NewHasNoSleepers
<1> QED
  BY <1>1, <1>2 DEF Next

LEMMA AwakeAreFinite ==
  ASSUME NEW h
  PROVE  /\ IsFiniteSet(AwakeOn(h)) /\ Cardinality(AwakeOn(h)) \in Nat
         /\ IsFiniteSet(AwakeOn(h)') /\ Cardinality(AwakeOn(h)') \in Nat
<1>1. AwakeOn(h) \subseteq Threads /\ AwakeOn(h)' \subseteq Threads
  BY DEF AwakeOn
<1> QED
  BY <1>1, SyncAssumption, FS_Subset, FS_CardinalityType

\* The steps that take nothing from a semaphore its sleepers could take.
PostsAreKept ==
  \A s \in Semaphores :
    \/ asleep'[s] = {}
    \/ count'[s] = 0
    \/ asleep[s] # {} /\ count'[s] <= count[s] /\ AwakeOn(s) \subseteq AwakeOn(s)'

LEMMA KeptPosts ==
  ASSUME Types, Types', NoLostPost, PostsAreKept
  PROVE  NoLostPost'
<1> SUFFICES ASSUME NEW s \in Semaphores, asleep'[s] # {}
             PROVE  Cardinality(AwakeOn(s)') >= count'[s]
  BY DEF NoLostPost
<1>1. CASE count'[s] = 0
  BY <1>1, AwakeAreFinite
<1>2. CASE asleep[s] # {} /\ count'[s] <= count[s] /\ AwakeOn(s) \subseteq AwakeOn(s)'
  <2>1. Cardinality(AwakeOn(s)) <= Cardinality(AwakeOn(s)')
    BY <1>2, AwakeAreFinite, FS_Subset
  <2>2. Cardinality(AwakeOn(s)) >= count[s]
    BY <1>2 DEF NoLostPost
  <2>3. count[s] \in Nat /\ count'[s] \in Nat
    BY SyncAssumption DEF Types, TypeOK
  <2> QED
    BY <1>2, <2>1, <2>2, <2>3, AwakeAreFinite
<1> QED
  BY <1>1, <1>2 DEF PostsAreKept

\* A retry that finds a count takes it, and its thread is one awake less.
LEMMA RetryKeepsPosts ==
  ASSUME Types, Sleepers, NoLostPost, NEW t \in Threads, SemaphoreRetry(t)
  PROVE  NoLostPost'
<1> USE SyncAssumption DEF Types, TypeOK, Waiting, Handles
<1>0. PICK s : s = handle[t]
  OBVIOUS
<1>1. s \in Semaphores /\ pc[t] = "semaphoreWait" /\ t \in AwakeOn(s)
  BY <1>0 DEF SemaphoreRetry, AwakeOn
<1>2. Types'
  BY TypesOfStep DEF Step, Progress
<1>3. CASE count[s] = 0
  <2>1. PostsAreKept
    BY <1>0, <1>1, <1>3
       DEF SemaphoreRetry, SemaphoreTry, Goto, PostsAreKept, AwakeOn
  <2> QED
    BY <1>2, <2>1, KeptPosts
<1>4. CASE count[s] > 0
  <2>1. /\ asleep' = asleep /\ handle' = handle
        /\ pc' = [pc EXCEPT ![t] = "waking"]
        /\ count' = [count EXCEPT ![s] = @ - 1]
    BY <1>0, <1>4 DEF SemaphoreRetry, SemaphoreTry, Goto
  <2>2. AwakeOn(s)' = AwakeOn(s) \ {t}
    BY <1>1, <2>1 DEF AwakeOn
  <2>3. Cardinality(AwakeOn(s)') = Cardinality(AwakeOn(s)) - 1
    <3>1. IsFiniteSet(AwakeOn(s))
      BY AwakeAreFinite
    <3>2. Cardinality(AwakeOn(s) \ {t}) = Cardinality(AwakeOn(s)) - 1
      BY <1>1, <3>1, FS_RemoveElement
    <3> QED
      BY <2>2, <3>2
  <2> SUFFICES ASSUME NEW r \in Semaphores, asleep'[r] # {}
               PROVE  Cardinality(AwakeOn(r)') >= count'[r]
    BY DEF NoLostPost
  <2>4. CASE r = s
    <3>1. Cardinality(AwakeOn(s)) >= count[s]
      BY <1>1, <2>1, <2>4 DEF NoLostPost
    <3>2. count'[s] = count[s] - 1 /\ count[s] \in Nat
      BY <1>1, <2>1
    <3> QED
      BY <2>3, <2>4, <3>1, <3>2, AwakeAreFinite
  <2>5. CASE r # s
    <3>1. AwakeOn(r)' = AwakeOn(r)
      BY <1>1, <2>1, <2>5 DEF AwakeOn
    <3>2. count'[r] = count[r] /\ asleep'[r] = asleep[r]
      BY <2>1, <2>5
    <3> QED
      BY <3>1, <3>2 DEF NoLostPost
  <2> QED
    BY <2>4, <2>5
<1> QED
  BY <1>1, <1>3, <1>4

\* A post adds a count and, where somebody sleeps, an awake thread.
LEMMA PostIsKept ==
  ASSUME Types, Sleepers, NoLostPost, NEW t \in Threads, NEW s \in Semaphores,
         SemaphorePost(t, s)
  PROVE  NoLostPost'
<1> USE SyncAssumption DEF Types, TypeOK, Waiting, Handles
<1> SUFFICES ASSUME NEW r \in Semaphores, asleep'[r] # {}
             PROVE  Cardinality(AwakeOn(r)') >= count'[r]
  BY DEF NoLostPost
<1>1. pc' = pc /\ handle' = handle /\ count' = [count EXCEPT ![s] = @ + 1]
  BY DEF SemaphorePost
<1>2. CASE r # s
  <2>1. asleep'[r] = asleep[r] /\ count'[r] = count[r]
    BY <1>2 DEF SemaphorePost
  <2>2. AwakeOn(r)' = AwakeOn(r)
    BY <1>1, <2>1 DEF AwakeOn
  <2> QED
    BY <2>1, <2>2 DEF NoLostPost
<1>3. CASE r = s
  <2>0. PICK still \in AfterNotifyOne(s) : asleep' = [asleep EXCEPT ![s] = still]
    BY DEF SemaphorePost
  <2>1. PICK u \in asleep[s] : asleep' = [asleep EXCEPT ![s] = asleep[s] \ {u}]
    <3>1. still = asleep'[s]
      BY <2>0
    <3>2. asleep[s] # {}
      BY <1>3, <2>0, <3>1 DEF AfterNotifyOne
    <3> QED
      BY <2>0, <3>2 DEF AfterNotifyOne
  <2>2. u \in Threads /\ handle[u] = s /\ pc[u] = "semaphoreWait"
    BY SyncAssumption DEF Sleepers
  <2>3. AwakeOn(s)' = AwakeOn(s) \cup {u} /\ u \notin AwakeOn(s)
    BY <1>1, <2>1, <2>2 DEF AwakeOn
  <2>4. Cardinality(AwakeOn(s)') = Cardinality(AwakeOn(s)) + 1
    BY <2>3, AwakeAreFinite, FS_AddElement
  <2>5. Cardinality(AwakeOn(s)) >= count[s]
    BY <2>1 DEF NoLostPost
  <2>6. count'[s] = count[s] + 1 /\ count[s] \in Nat
    BY <1>1
  <2> QED
    BY <1>3, <2>4, <2>5, <2>6, AwakeAreFinite
<1> QED
  BY <1>2, <1>3

LEMMA NoLostPostOfStep ==
  ASSUME Types, Sleepers, NewHasNoSleepers, NoLostPost, NEW t \in Threads, Step(t)
  PROVE  NoLostPost'
<1> USE SyncAssumption DEF Types, TypeOK, Waiting, Handles, Running, Known, Sleepers, NewHasNoSleepers
<1>0. Types'
  BY TypesOfStep
<1>1. CASE Yield(t)
  <2>1. PostsAreKept
    BY <1>1 DEF Yield, ReleaseTo, objectVars, PostsAreKept, AwakeOn
  <2> QED
    BY <1>1, <2>1, KeptPosts, <1>0
<1>2. CASE Wake(t)
  <2>1. PostsAreKept
    BY <1>2 DEF Wake, Goto, objectVars, PostsAreKept, AwakeOn
  <2> QED
    BY <1>2, <2>1, KeptPosts, <1>0
<1>3. CASE MutexEnter(t)
  <2>1. PostsAreKept
    BY <1>3 DEF MutexEnter, TakeOrSleep, Goto, PostsAreKept, AwakeOn
  <2> QED
    BY <1>3, <2>1, KeptPosts, <1>0
<1>4. CASE MutexRetry(t)
  <2>1. PostsAreKept
    BY <1>4 DEF MutexRetry, TakeOrSleep, Goto, PostsAreKept, AwakeOn
  <2> QED
    BY <1>4, <2>1, KeptPosts, <1>0
<1>5. CASE ConditionEnter(t)
  <2>1. PostsAreKept
    BY <1>5 DEF ConditionEnter, AfterNotifyOne, Goto, PostsAreKept, AwakeOn
  <2> QED
    BY <1>5, <2>1, KeptPosts, <1>0
<1>6. CASE ConditionWoken(t)
  <2>1. PostsAreKept
    BY <1>6 DEF ConditionWoken, TakeOrSleep, Goto, PostsAreKept, AwakeOn
  <2> QED
    BY <1>6, <2>1, KeptPosts, <1>0
<1>7. CASE ConditionRelock(t)
  <2>1. PostsAreKept
    BY <1>7 DEF ConditionRelock, TakeOrSleep, Goto, PostsAreKept, AwakeOn
  <2> QED
    BY <1>7, <2>1, KeptPosts, <1>0
<1>8. CASE SemaphoreEnter(t)
  <2>1. PostsAreKept
    BY <1>8 DEF SemaphoreEnter, SemaphoreTry, Goto, PostsAreKept, AwakeOn
  <2> QED
    BY <1>8, <2>1, KeptPosts, <1>0
<1>9. CASE SemaphoreRetry(t)
  BY <1>9, RetryKeepsPosts DEF Types
<1>10. ASSUME NEW m \in Mutexes, MutexCreate(t, m) PROVE NoLostPost'
  <2>1. PostsAreKept
    BY <1>10 DEF MutexCreate, objectVars, PostsAreKept, AwakeOn
  <2> QED
    BY <1>10, <2>1, KeptPosts, <1>0
<1>11. ASSUME NEW m \in Mutexes, MutexLock(t, m) PROVE NoLostPost'
  <2>1. PostsAreKept
    BY <1>11 DEF MutexLock, ReleaseTo, objectVars, PostsAreKept, AwakeOn
  <2> QED
    BY <1>11, <2>1, KeptPosts, <1>0
<1>12. ASSUME NEW m \in Mutexes, MutexTryLock(t, m) PROVE NoLostPost'
  <2>1. PostsAreKept
    BY <1>12 DEF MutexTryLock, PostsAreKept, AwakeOn
  <2> QED
    BY <1>12, <2>1, KeptPosts, <1>0
<1>13. ASSUME NEW m \in Mutexes, MutexUnlock(t, m) PROVE NoLostPost'
  <2>1. PostsAreKept
    BY <1>13 DEF MutexUnlock, AfterNotifyOne, PostsAreKept, AwakeOn
  <2> QED
    BY <1>13, <2>1, KeptPosts, <1>0
<1>14. ASSUME NEW m \in Mutexes, MutexClose(t, m) PROVE NoLostPost'
  <2>1. PostsAreKept
    BY <1>14 DEF MutexClose, objectVars, PostsAreKept, AwakeOn
  <2> QED
    BY <1>14, <2>1, KeptPosts, <1>0
<1>15. ASSUME NEW c \in Conditions, ConditionCreate(t, c) PROVE NoLostPost'
  <2>1. PostsAreKept
    BY <1>15 DEF ConditionCreate, objectVars, PostsAreKept, AwakeOn
  <2> QED
    BY <1>15, <2>1, KeptPosts, <1>0
<1>16. ASSUME NEW c \in Conditions, ConditionClose(t, c) PROVE NoLostPost'
  <2>1. PostsAreKept
    BY <1>16 DEF ConditionClose, objectVars, PostsAreKept, AwakeOn
  <2> QED
    BY <1>16, <2>1, KeptPosts, <1>0
<1>17. ASSUME NEW c \in Conditions, NEW m \in Mutexes, ConditionWait(t, c, m) PROVE NoLostPost'
  <2>1. PostsAreKept
    BY <1>17 DEF ConditionWait, ReleaseTo, objectVars, PostsAreKept, AwakeOn
  <2> QED
    BY <1>17, <2>1, KeptPosts, <1>0
<1>18. ASSUME NEW c \in Conditions, NEW m \in Mutexes, ConditionNotify(t, c, m) PROVE NoLostPost'
  <2>1. PostsAreKept
    BY <1>18 DEF ConditionNotify, AfterNotifyOne, PostsAreKept, AwakeOn
  <2> QED
    BY <1>18, <2>1, KeptPosts, <1>0
<1>19. ASSUME NEW c \in Conditions, NEW m \in Mutexes, ConditionNotifyAll(t, c, m) PROVE NoLostPost'
  <2>1. PostsAreKept
    BY <1>19 DEF ConditionNotifyAll, PostsAreKept, AwakeOn
  <2> QED
    BY <1>19, <2>1, KeptPosts, <1>0
<1>20. ASSUME NEW s \in Semaphores, SemaphoreTake(t, s) PROVE NoLostPost'
  <2>1. PostsAreKept
    BY <1>20 DEF SemaphoreTake, PostsAreKept, AwakeOn
  <2> QED
    BY <1>20, <2>1, KeptPosts, <1>0
<1>21. ASSUME NEW s \in Semaphores, SemaphoreWait(t, s) PROVE NoLostPost'
  <2>1. PostsAreKept
    BY <1>21 DEF SemaphoreWait, ReleaseTo, objectVars, PostsAreKept, AwakeOn
  <2> QED
    BY <1>21, <2>1, KeptPosts, <1>0
<1>22. ASSUME NEW s \in Semaphores, SemaphorePost(t, s) PROVE NoLostPost'
  BY <1>22, PostIsKept DEF Types
<1>23. ASSUME NEW s \in Semaphores, SemaphoreClose(t, s) PROVE NoLostPost'
  <2>1. PostsAreKept
    BY <1>23 DEF SemaphoreClose, objectVars, PostsAreKept, AwakeOn
  <2> QED
    BY <1>23, <2>1, KeptPosts, <1>0
<1>24. ASSUME NEW s \in Semaphores, NEW n \in 0..MaxCount, SemaphoreCreate(t, s, n) PROVE NoLostPost'
  <2>1. PostsAreKept
    BY <1>24 DEF SemaphoreCreate, PostsAreKept, AwakeOn
  <2> QED
    BY <1>24, <2>1, KeptPosts, <1>0
<1>25. ASSUME NEW h \in Handles, WakeSpuriously(t, h) PROVE NoLostPost'
  <2>1. PostsAreKept
    BY <1>25 DEF WakeSpuriously, PostsAreKept, AwakeOn
  <2> QED
    BY <1>25, <2>1, KeptPosts, <1>0
<1> QED
  BY <1>1, <1>2, <1>3, <1>4, <1>5, <1>6, <1>7, <1>8, <1>9, <1>10,
     <1>11, <1>12, <1>13, <1>14, <1>15, <1>16, <1>17, <1>18, <1>19,
     <1>20, <1>21, <1>22, <1>23, <1>24, <1>25
     DEF Step, Progress, Ask

LEMMA PostInit == Init => NoLostPost
BY DEF Init, NoLostPost, Handles

LEMMA NoLostPostStep == Types /\ Sleepers /\ NewHasNoSleepers /\ NoLostPost /\ [Next]_vars => NoLostPost'
<1> SUFFICES ASSUME Types /\ Sleepers /\ NewHasNoSleepers /\ NoLostPost, [Next]_vars PROVE NoLostPost'
  OBVIOUS
<1>1. ASSUME NEW t \in Threads, Step(t) PROVE NoLostPost'
  BY <1>1, NoLostPostOfStep
<1>2. CASE UNCHANGED vars
  BY <1>2 DEF vars, objectVars, NoLostPost, AwakeOn
<1> QED
  BY <1>1, <1>2 DEF Next

\* No post is lost, for any number of threads, posts and waits that overtake
\* each other: as long as threads sleep on a semaphore, every count they could
\* take has a thread that is awake and about to look.
THEOREM NoPostIsLost == Spec => []NoLostPost
<1>1. Spec => []Types
  BY TypesInit, TypesStep, PTL DEF Spec
<1>2. Spec => []Sleepers
  BY <1>1, SleepersInit, SleepersStep, PTL DEF Spec
<1>3. Spec => []NewHasNoSleepers
  BY <1>1, NewHasNoSleepersInit, NewHasNoSleepersStep, PTL DEF Spec
<1> QED
  BY <1>1, <1>2, <1>3, PostInit, NoLostPostStep, PTL DEF Spec

-----------------------------------------------------------------------------
(* The counters of waiters *)

\* The threads that the counter of an object stands for.
Inside(h) ==
  {t \in Threads : \/ pc[t] \in {"mutexWait", "semaphoreWait"} /\ handle[t] = h
                   \/ pc[t] = "conditionWait" /\ condition[t] = h}

Counted == \A h \in Handles : waiters[h] = Cardinality(Inside(h))

LEMMA CountedInit == Init => Counted
<1> SUFFICES ASSUME Init, NEW h \in Handles PROVE waiters[h] = Cardinality(Inside(h))
  BY DEF Counted
<1>1. Inside(h) = {}
  BY DEF Init, Inside
<1> QED
  BY <1>1, FS_EmptySet DEF Init

\* A step takes its thread into one wait, out of one, or neither, and counts so.
CountMoves(t) ==
  \A h \in Handles :
    \/ waiters'[h] = waiters[h] /\ Inside(h)' = Inside(h)
    \/ /\ t \notin Inside(h) /\ Inside(h)' = Inside(h) \cup {t}
       /\ waiters'[h] = waiters[h] + 1
    \/ /\ t \in Inside(h) /\ Inside(h)' = Inside(h) \ {t}
       /\ waiters'[h] = waiters[h] - 1

LEMMA MovesOfStep ==
  ASSUME Types, Sleepers, NEW t \in Threads, Step(t)
  PROVE  CountMoves(t)
<1> USE SyncAssumption DEF Types, TypeOK, Waiting, Handles, Running, Known, Sleepers, CountMoves, Inside
<1>1. CASE Yield(t)
  BY <1>1 DEF Yield, ReleaseTo, objectVars
<1>2. CASE Wake(t)
  BY <1>2 DEF Wake, Goto, objectVars
<1>3. CASE MutexEnter(t)
  BY <1>3 DEF MutexEnter, TakeOrSleep, Goto
<1>4. CASE MutexRetry(t)
  BY <1>4 DEF MutexRetry, TakeOrSleep, Goto
<1>5. CASE ConditionEnter(t)
  BY <1>5 DEF ConditionEnter, AfterNotifyOne, Goto
<1>6. CASE ConditionWoken(t)
  BY <1>6 DEF ConditionWoken, TakeOrSleep, Goto
<1>7. CASE ConditionRelock(t)
  BY <1>7 DEF ConditionRelock, TakeOrSleep, Goto
<1>8. CASE SemaphoreEnter(t)
  BY <1>8 DEF SemaphoreEnter, SemaphoreTry, Goto
<1>9. CASE SemaphoreRetry(t)
  BY <1>9 DEF SemaphoreRetry, SemaphoreTry, Goto
<1>10. ASSUME NEW m \in Mutexes, MutexCreate(t, m) PROVE CountMoves(t)
  BY <1>10 DEF MutexCreate, objectVars
<1>11. ASSUME NEW m \in Mutexes, MutexLock(t, m) PROVE CountMoves(t)
  BY <1>11 DEF MutexLock, ReleaseTo, objectVars
<1>12. ASSUME NEW m \in Mutexes, MutexTryLock(t, m) PROVE CountMoves(t)
  BY <1>12 DEF MutexTryLock
<1>13. ASSUME NEW m \in Mutexes, MutexUnlock(t, m) PROVE CountMoves(t)
  BY <1>13 DEF MutexUnlock, AfterNotifyOne
<1>14. ASSUME NEW m \in Mutexes, MutexClose(t, m) PROVE CountMoves(t)
  BY <1>14 DEF MutexClose, objectVars
<1>15. ASSUME NEW c \in Conditions, ConditionCreate(t, c) PROVE CountMoves(t)
  BY <1>15 DEF ConditionCreate, objectVars
<1>16. ASSUME NEW c \in Conditions, ConditionClose(t, c) PROVE CountMoves(t)
  BY <1>16 DEF ConditionClose, objectVars
<1>17. ASSUME NEW c \in Conditions, NEW m \in Mutexes, ConditionWait(t, c, m) PROVE CountMoves(t)
  BY <1>17 DEF ConditionWait, ReleaseTo, objectVars
<1>18. ASSUME NEW c \in Conditions, NEW m \in Mutexes, ConditionNotify(t, c, m) PROVE CountMoves(t)
  BY <1>18 DEF ConditionNotify, AfterNotifyOne
<1>19. ASSUME NEW c \in Conditions, NEW m \in Mutexes, ConditionNotifyAll(t, c, m) PROVE CountMoves(t)
  BY <1>19 DEF ConditionNotifyAll
<1>20. ASSUME NEW s \in Semaphores, SemaphoreTake(t, s) PROVE CountMoves(t)
  BY <1>20 DEF SemaphoreTake
<1>21. ASSUME NEW s \in Semaphores, SemaphoreWait(t, s) PROVE CountMoves(t)
  BY <1>21 DEF SemaphoreWait, ReleaseTo, objectVars
<1>22. ASSUME NEW s \in Semaphores, SemaphorePost(t, s) PROVE CountMoves(t)
  BY <1>22 DEF SemaphorePost, AfterNotifyOne
<1>23. ASSUME NEW s \in Semaphores, SemaphoreClose(t, s) PROVE CountMoves(t)
  BY <1>23 DEF SemaphoreClose, objectVars
<1>24. ASSUME NEW s \in Semaphores, NEW n \in 0..MaxCount, SemaphoreCreate(t, s, n) PROVE CountMoves(t)
  BY <1>24 DEF SemaphoreCreate
<1>25. ASSUME NEW h \in Handles, WakeSpuriously(t, h) PROVE CountMoves(t)
  BY <1>25 DEF WakeSpuriously
<1> QED
  BY <1>1, <1>2, <1>3, <1>4, <1>5, <1>6, <1>7, <1>8, <1>9, <1>10,
     <1>11, <1>12, <1>13, <1>14, <1>15, <1>16, <1>17, <1>18, <1>19,
     <1>20, <1>21, <1>22, <1>23, <1>24, <1>25
     DEF Step, Progress, Ask

LEMMA CountedOfStep ==
  ASSUME Counted, NEW t \in Threads, CountMoves(t)
  PROVE  Counted'
<1> SUFFICES ASSUME NEW h \in Handles PROVE waiters'[h] = Cardinality(Inside(h)')
  BY DEF Counted, Handles
<1>1. waiters[h] = Cardinality(Inside(h))
  BY DEF Counted
<1>2. IsFiniteSet(Inside(h))
  BY SyncAssumption, FS_Subset DEF Inside
<1>3. CASE t \notin Inside(h) /\ Inside(h)' = Inside(h) \cup {t} /\ waiters'[h] = waiters[h] + 1
  <2>1. Cardinality(Inside(h) \cup {t}) = Cardinality(Inside(h)) + 1
    BY <1>2, <1>3, FS_AddElement
  <2> QED
    BY <1>1, <1>3, <2>1
<1>4. CASE t \in Inside(h) /\ Inside(h)' = Inside(h) \ {t} /\ waiters'[h] = waiters[h] - 1
  <2>1. Cardinality(Inside(h) \ {t}) = Cardinality(Inside(h)) - 1
    BY <1>2, <1>4, FS_RemoveElement
  <2> QED
    BY <1>1, <1>4, <2>1
<1>5. CASE waiters'[h] = waiters[h] /\ Inside(h)' = Inside(h)
  BY <1>1, <1>5
<1> QED
  BY <1>3, <1>4, <1>5 DEF CountMoves

LEMMA CountedStep == Types /\ Sleepers /\ Counted /\ [Next]_vars => Counted'
<1> SUFFICES ASSUME Types, Sleepers, Counted, [Next]_vars PROVE Counted'
  OBVIOUS
<1>1. ASSUME NEW t \in Threads, Step(t) PROVE Counted'
  BY <1>1, MovesOfStep, CountedOfStep
<1>2. CASE UNCHANGED vars
  BY <1>2 DEF vars, objectVars, Counted, Inside, Handles
<1> QED
  BY <1>1, <1>2 DEF Next

LEMMA CountersSayWho == Types /\ Counted => WaitersAreCounted
<1> SUFFICES ASSUME Types, Counted PROVE WaitersAreCounted
  OBVIOUS
<1> USE SyncAssumption DEF Types, TypeOK, Waiting, Handles
<1>1. ASSUME NEW m \in Mutexes
      PROVE  Inside(m) = {t \in Threads : pc[t] = "mutexWait" /\ handle[t] = m}
  BY DEF Inside
<1>2. ASSUME NEW c \in Conditions
      PROVE  Inside(c) = {t \in Threads : pc[t] = "conditionWait" /\ condition[t] = c}
  BY DEF Inside
<1>3. ASSUME NEW s \in Semaphores
      PROVE  Inside(s) = {t \in Threads : pc[t] = "semaphoreWait" /\ handle[t] = s}
  BY DEF Inside
<1>4. ASSUME NEW h \in Handles PROVE waiters[h] = Cardinality(Inside(h))
  BY DEF Counted
<1>5. \A m \in Mutexes :
        waiters[m] = Cardinality({t \in Threads : pc[t] = "mutexWait" /\ handle[t] = m})
  <2> TAKE m \in Mutexes
  <2>1. waiters[m] = Cardinality(Inside(m))
    BY <1>4
  <2> QED
    BY ONLY <2>1, <1>1
<1>6. \A c \in Conditions :
        waiters[c] = Cardinality({t \in Threads : pc[t] = "conditionWait" /\ condition[t] = c})
  <2> TAKE c \in Conditions
  <2>1. waiters[c] = Cardinality(Inside(c))
    BY <1>4
  <2> QED
    BY ONLY <2>1, <1>2
<1>7. \A s \in Semaphores :
        waiters[s] = Cardinality({t \in Threads : pc[t] = "semaphoreWait" /\ handle[t] = s})
  <2> TAKE s \in Semaphores
  <2>1. waiters[s] = Cardinality(Inside(s))
    BY <1>4
  <2> QED
    BY ONLY <2>1, <1>3
<1> QED
  BY <1>5, <1>6, <1>7 DEF WaitersAreCounted

\* The counter that a close builtin asks is the number of threads inside the
\* waits of that object, whatever overtakes, wakes or notifies them.
THEOREM CountersAreRight == Spec => []WaitersAreCounted
<1>1. Spec => []Types
  BY TypesInit, TypesStep, PTL DEF Spec
<1>2. Spec => []Sleepers
  BY <1>1, SleepersInit, SleepersStep, PTL DEF Spec
<1>3. Spec => []Counted
  BY <1>1, <1>2, CountedInit, CountedStep, PTL DEF Spec
<1> QED
  BY <1>1, <1>3, CountersSayWho, PTL
=============================================================================
