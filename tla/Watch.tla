------------------------------- MODULE Watch -------------------------------
(***************************************************************************)
(* The native module `watch` (rust/watch): watches on one directory, with  *)
(* the inotify backend (one descriptor per watch, which the kernel fills)  *)
(* or the Windows one (a worker thread per watch, which moves what the     *)
(* kernel has noted into a queue).  Threads of the program add, drain and  *)
(* remove watches under the interpreter lock and wait without it.          *)
(***************************************************************************)
EXTENDS Naturals, Sequences, Functions

CONSTANTS Threads, Paths, Kinds,
          Handles,    \* 1..n: bound on the calls of watchAdd
          MaxEvents,  \* bound on the events of a watch that are not drained
          Nobody

\* What the constants are.
WatchAssumption == /\ Handles \subseteq Nat \ {0}
                          /\ MaxEvents \in Nat /\ Nobody \notin Threads

Event == [path : Paths, kind : Kinds]

\* The worker of a watch: before the check of stop, before and after
\* ReadDirectoryChangesW, over.
Worker == {"none", "check", "read", "wait", "done"}

VARIABLES
    windows,     \* which backend was built
    holder,      \* the interpreter lock
    pc,          \* "code", "adding", "removing", "looked_up", "waiting", "waited"
    on,          \* the handle (for inotify: the descriptor) a thread is busy with
    watches,     \* the registry
    added,       \* the handles given out
    fd,          \* inotify: the descriptor of each watch, 0 when closed
    debounce,    \* whether a watch has a debounce window
    kernel,      \* what the kernel has noted of a watch
    armed,       \* whether the kernel notes the changes of a watch
    overflowed,  \* whether it had to drop some
    worker, ready, stop, signalled, queue,  \* Windows: the worker's
    unseen       \* the last change of each path since add returned and since
                 \* the last drain that answered it

own == <<worker, ready, stop, signalled, queue>>
vars == <<windows, holder, pc, on, watches, added, fd, debounce, kernel, armed,
          overflowed, own, unseen>>

NoChange == [p \in {} |-> Nobody]

TypeOK ==
    /\ windows \in BOOLEAN /\ holder \in Threads \cup {Nobody}
    /\ pc \in [Threads -> {"code", "adding", "removing", "looked_up", "waiting", "waited"}]
    /\ on \in [Threads -> Handles \cup {0}]
    /\ watches \subseteq added /\ added \subseteq Handles
    /\ fd \in [Handles -> Handles \cup {0}]
    /\ debounce \in [Handles -> BOOLEAN]
    /\ \A h \in Handles : kernel[h] \in Seq(Event) /\ queue[h] \in Seq(Event)
    /\ armed \in [Handles -> BOOLEAN] /\ overflowed \in [Handles -> BOOLEAN]
    /\ worker \in [Handles -> Worker]
    /\ ready \in [Handles -> {"unknown", "armed", "failed"}]
    /\ stop \in [Handles -> BOOLEAN] /\ signalled \in [Handles -> BOOLEAN]
    /\ \A h \in Handles : DOMAIN unseen[h] \subseteq Paths

Init ==
    /\ windows \in BOOLEAN
    /\ holder \in Threads
    /\ pc = [t \in Threads |-> IF t = holder THEN "code" ELSE "waited"]
    /\ on = [t \in Threads |-> 0]
    /\ watches = {} /\ added = {}
    /\ fd = [h \in Handles |-> 0]
    /\ debounce = [h \in Handles |-> FALSE]
    /\ kernel = [h \in Handles |-> <<>>] /\ queue = [h \in Handles |-> <<>>]
    /\ armed = [h \in Handles |-> FALSE] /\ overflowed = [h \in Handles |-> FALSE]
    /\ worker = [h \in Handles |-> "none"]
    /\ ready = [h \in Handles |-> "unknown"]
    /\ stop = [h \in Handles |-> FALSE] /\ signalled = [h \in Handles |-> FALSE]
    /\ unseen = [h \in Handles |-> NoChange]

Code(t) == holder = t /\ pc[t] = "code"
Goto(t, label) == pc' = [pc EXCEPT ![t] = label]

\* Without the lock: in watchWait, or in a program that yields.
Yield(t) ==
    /\ Code(t)
    /\ holder' = Nobody
    /\ Goto(t, "waited")
    /\ UNCHANGED <<windows, on, watches, added, fd, debounce, kernel, armed,
                   overflowed, own, unseen>>

Acquire(t) ==
    /\ holder = Nobody /\ pc[t] = "waited"
    /\ holder' = t
    /\ Goto(t, "code")
    /\ UNCHANGED <<windows, on, watches, added, fd, debounce, kernel, armed,
                   overflowed, own, unseen>>

-----------------------------------------------------------------------------
(* The file system and the kernel.                                         *)

Undrained(h) == Len(kernel[h]) + Len(queue[h])

\* Every watch that is armed notes the change, or drops all it has noted.
Change(event) ==
    /\ \E h \in Handles : armed[h] \/ h \in watches
    /\ \A h \in Handles : armed[h] => Undrained(h) < MaxEvents
    /\ \E full \in SUBSET {h \in Handles : armed[h]} :
         /\ kernel' = [h \in Handles |->
               CASE h \in full -> <<>>
                 [] armed[h] /\ h \notin full -> Append(kernel[h], event)
                 [] OTHER -> kernel[h]]
         /\ overflowed' = [h \in Handles |-> overflowed[h] \/ h \in full]
    \* A pending read completes.
    /\ signalled' = [h \in Handles |-> signalled[h] \/ (armed[h] /\ worker[h] = "wait")]
    /\ unseen' = [h \in Handles |->
          IF h \in watches
          THEN [p \in DOMAIN unseen[h] \cup {event.path} |->
                  IF p = event.path THEN event.kind ELSE unseen[h][p]]
          ELSE unseen[h]]
    /\ UNCHANGED <<windows, holder, pc, on, watches, added, fd, debounce, armed,
                   worker, ready, stop, queue>>

-----------------------------------------------------------------------------
(* The worker of the Windows backend.                                      *)

WorkerChecks(h) ==
    /\ worker[h] = "check"
    /\ worker' = [worker EXCEPT ![h] = IF stop[h] THEN "done" ELSE "read"]
    /\ UNCHANGED <<windows, holder, pc, on, watches, added, fd, debounce, kernel,
                   armed, overflowed, ready, stop, signalled, queue, unseen>>

\* ReadDirectoryChangesW resets the event; what the kernel has noted since
\* the last one completes it at once.  The first call tells whoever adds.
WorkerReads(h) ==
    /\ worker[h] = "read"
    /\ \E started \in BOOLEAN :
         /\ worker' = [worker EXCEPT ![h] = IF started THEN "wait" ELSE "done"]
         /\ signalled' = [signalled EXCEPT ![h] = started /\ kernel[h] # <<>>]
         /\ armed' = [armed EXCEPT ![h] = started]
         /\ ready' = [ready EXCEPT ![h] =
               IF @ # "unknown" THEN @ ELSE IF started THEN "armed" ELSE "failed"]
         /\ overflowed' = [overflowed EXCEPT ![h] = @ \/ ~started]
    /\ UNCHANGED <<windows, holder, pc, on, watches, added, fd, debounce, kernel,
                   stop, queue, unseen>>

\* The event is set: events to queue, or a read that was cancelled, was not
\* complete or had too much to tell.
WorkerWakes(h) ==
    /\ worker[h] = "wait" /\ signalled[h]
    /\ queue' = [queue EXCEPT ![h] = @ \o kernel[h]]
    /\ kernel' = [kernel EXCEPT ![h] = <<>>]
    /\ worker' = [worker EXCEPT ![h] = IF kernel[h] = <<>> /\ stop[h] THEN "done" ELSE "check"]
    /\ UNCHANGED <<windows, holder, pc, on, watches, added, fd, debounce, armed,
                   overflowed, ready, stop, signalled, unseen>>

-----------------------------------------------------------------------------
(* add.                                                                    *)

NewHandle(h) == h \notin added /\ \A g \in Handles : g < h => g \in added

\* inotify: the descriptor is the lowest that is free.
add_inotify(t, h) ==
    /\ Code(t) /\ ~windows /\ NewHandle(h)
    /\ fd' = [fd EXCEPT ![h] = CHOOSE d \in Handles :
                 /\ d \notin Range(fd)
                 /\ \A e \in Handles : e < d => e \in Range(fd)]
    /\ armed' = [armed EXCEPT ![h] = TRUE]
    /\ watches' = watches \cup {h} /\ added' = added \cup {h}
    /\ UNCHANGED <<windows, holder, pc, on, debounce, kernel, overflowed, own, unseen>>

\* Windows: the worker starts; h is the handle the call will get.
add_starts(t, h) ==
    /\ Code(t) /\ windows /\ NewHandle(h) /\ worker[h] = "none"
    /\ worker' = [worker EXCEPT ![h] = "check"]
    /\ on' = [on EXCEPT ![t] = h]
    /\ Goto(t, "adding")
    /\ UNCHANGED <<windows, holder, watches, added, fd, debounce, kernel, armed,
                   overflowed, ready, stop, signalled, queue, unseen>>

\* A mistake: add does not wait for the worker's first read.
Answered_too_early(h) == ready[h] \in {"armed", "unknown"}

Answered(h) == ready[h] = "armed"

add_returns(t, h) ==
    /\ pc[t] = "adding" /\ on[t] = h /\ Answered(h)
    /\ watches' = watches \cup {h} /\ added' = added \cup {h}
    /\ on' = [on EXCEPT ![t] = 0]
    /\ Goto(t, "code")
    /\ UNCHANGED <<windows, holder, fd, debounce, kernel, armed, overflowed, own, unseen>>

\* The first read failed: the worker has ended, -1; the next call gets h.
add_fails(t, h) ==
    /\ pc[t] = "adding" /\ on[t] = h /\ ready[h] = "failed" /\ worker[h] = "done"
    /\ on' = [on EXCEPT ![t] = 0]
    /\ Goto(t, "code")
    /\ worker' = [worker EXCEPT ![h] = "none"] /\ ready' = [ready EXCEPT ![h] = "unknown"]
    /\ overflowed' = [overflowed EXCEPT ![h] = FALSE]
    /\ UNCHANGED <<windows, holder, watches, added, fd, debounce, kernel, armed,
                   stop, signalled, queue, unseen>>

-----------------------------------------------------------------------------
(* wait.                                                                   *)

\* The descriptor, or the queue, is looked up; the lock is released.
wait_starts(t, h) ==
    /\ Code(t) /\ h \in watches
    /\ on' = [on EXCEPT ![t] = IF windows THEN h ELSE fd[h]]
    /\ holder' = Nobody
    /\ Goto(t, "looked_up")
    /\ UNCHANGED <<windows, watches, added, fd, debounce, kernel, armed, overflowed,
                   own, unseen>>

wait_blocks(t) ==
    /\ pc[t] = "looked_up"
    /\ Goto(t, "waiting")
    /\ UNCHANGED <<windows, holder, on, watches, added, fd, debounce, kernel, armed,
                   overflowed, own, unseen>>

\* poll looks at the descriptor, whichever watch has it now; a descriptor that
\* is closed answers at once (POLLNVAL), or never if it is closed during the poll.
Readable(t) ==
    IF windows THEN queue[on[t]] # <<>>
    ELSE \/ \E h \in watches : fd[h] = on[t] /\ kernel[h] # <<>>
         \/ pc[t] = "looked_up" /\ on[t] \notin Range(fd)

\* Readable, a notification of remove, or the timeout.
wait_returns(t, timed_out) ==
    /\ pc[t] \in {"looked_up", "waiting"}
    /\ Readable(t) \/ timed_out
    /\ on' = [on EXCEPT ![t] = 0]
    /\ Goto(t, "waited")
    /\ UNCHANGED <<windows, holder, watches, added, fd, debounce, kernel, armed,
                   overflowed, own, unseen>>

-----------------------------------------------------------------------------
(* setDebounce, drain and remove.                                          *)

set_debounce(t, h, on_off) ==
    /\ Code(t) /\ h \in watches
    /\ debounce' = [debounce EXCEPT ![h] = on_off]
    /\ UNCHANGED <<windows, holder, pc, on, watches, added, fd, kernel, armed,
                   overflowed, own, unseen>>

\* One event of `merge`: in the window (a first event of a path is, or is not,
\* according to the drains before; any other is) the kept event of the path
\* takes the kind.
Merge(kept, e) ==
    IF \E i \in DOMAIN kept : kept[i].path = e.path
    THEN [i \in DOMAIN kept |-> IF kept[i].path = e.path THEN e ELSE kept[i]]
    ELSE Append(kept, e)

Merged(events) ==
    LET kept[n \in 0 .. Len(events)] ==
            IF n = 0 THEN <<>> ELSE Merge(kept[n - 1], events[n])
    IN  kept[Len(events)]

\* The last event of a path is of a kind.
Tells(events, path, kind) ==
    \E i \in DOMAIN events :
        /\ events[i].path = path /\ events[i].kind = kind
        /\ \A j \in DOMAIN events : j > i => events[j].path # path

drain(t, h) ==
    LET events == IF windows THEN queue[h] ELSE kernel[h]
        answer == IF debounce[h] THEN Merged(events) ELSE events
        told == {p \in DOMAIN unseen[h] : Tells(answer, p, unseen[h][p])}
    IN  /\ Code(t) /\ h \in watches
        /\ IF windows THEN queue' = [queue EXCEPT ![h] = <<>>] /\ UNCHANGED kernel
                      ELSE kernel' = [kernel EXCEPT ![h] = <<>>] /\ UNCHANGED queue
        /\ unseen' = [unseen EXCEPT ![h] = [p \in DOMAIN @ \ told |-> @[p]]]
        /\ UNCHANGED <<windows, holder, pc, on, watches, added, fd, debounce, armed,
                       overflowed, worker, ready, stop, signalled>>

\* inotify: the descriptor is closed.
remove_inotify(t, h) ==
    /\ Code(t) /\ ~windows /\ h \in watches
    /\ watches' = watches \ {h}
    /\ fd' = [fd EXCEPT ![h] = 0] /\ armed' = [armed EXCEPT ![h] = FALSE]
    /\ kernel' = [kernel EXCEPT ![h] = <<>>]
    /\ unseen' = [unseen EXCEPT ![h] = NoChange]
    /\ UNCHANGED <<windows, holder, pc, on, added, debounce, overflowed, own>>

\* Windows: the worker is told to stop, the waiters are woken, a pending read is
\* cancelled and the event set; the join keeps the interpreter lock.
remove_starts(t, h) ==
    /\ Code(t) /\ windows /\ h \in watches
    /\ watches' = watches \ {h}
    /\ stop' = [stop EXCEPT ![h] = TRUE] /\ signalled' = [signalled EXCEPT ![h] = TRUE]
    /\ unseen' = [unseen EXCEPT ![h] = NoChange]
    /\ pc' = [u \in Threads |->
          CASE u = t -> "removing"
            [] pc[u] = "waiting" /\ on[u] = h -> "waited"
            [] OTHER -> pc[u]]
    /\ on' = [u \in Threads |->
          CASE u = t -> h
            [] pc[u] = "waiting" /\ on[u] = h -> 0
            [] OTHER -> on[u]]
    /\ UNCHANGED <<windows, holder, added, fd, debounce, kernel, armed, overflowed,
                   worker, ready, queue>>

remove_returns(t, h) ==
    /\ pc[t] = "removing" /\ on[t] = h /\ worker[h] = "done"
    /\ armed' = [armed EXCEPT ![h] = FALSE]
    /\ kernel' = [kernel EXCEPT ![h] = <<>>]
    /\ on' = [on EXCEPT ![t] = 0]
    /\ Goto(t, "code")
    /\ UNCHANGED <<windows, holder, watches, added, fd, debounce, overflowed, own, unseen>>

-----------------------------------------------------------------------------
Next ==
    \/ \E path \in Paths, kind \in Kinds : Change([path |-> path, kind |-> kind])
    \/ \E h \in Handles : WorkerChecks(h) \/ WorkerReads(h) \/ WorkerWakes(h)
    \/ \E t \in Threads : \/ Yield(t) \/ Acquire(t) \/ wait_blocks(t)
                          \/ \E timed_out \in BOOLEAN : wait_returns(t, timed_out)
    \/ \E t \in Threads, h \in Handles :
         \/ add_inotify(t, h) \/ add_starts(t, h) \/ add_returns(t, h) \/ add_fails(t, h)
         \/ wait_starts(t, h) \/ drain(t, h)
         \/ \E on_off \in BOOLEAN : set_debounce(t, h, on_off)
         \/ remove_inotify(t, h) \/ remove_starts(t, h) \/ remove_returns(t, h)

Spec == Init /\ [][Next]_vars

-----------------------------------------------------------------------------
\* A change made after watchAdd returned is not missed: until a drain has told
\* it, the last change of every path is on its way, unless the kernel dropped
\* events (windows_backend.rs: "otherwise a change made immediately after
\* `watchAdd` can be missed"; it holds over the worker's races with drains,
\* with the kernel and with other watches, and with the debounce window).
ChangesAreSeen ==
    \A h \in watches : overflowed[h] \/
       \A p \in DOMAIN unseen[h] : Tells(queue[h] \o kernel[h], p, unseen[h][p])
=============================================================================
