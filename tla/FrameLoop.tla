----------------------------- MODULE FrameLoop -----------------------------
(***************************************************************************)
(* The frame loops of the native modules `graphics` and `game`             *)
(* (rust/graphics/src/lib.rs, rust/game/src/lib.rs) on top of the host     *)
(* calls of the interpreter (ast.cpp): `run` calls the program's callbacks *)
(* once per frame, a callback that fails leaves its error in one           *)
(* process-wide variable, deferredNativeError, and callNative throws it.   *)
(*                                                                         *)
(* A callback is Lynxer code: it may yield the interpreter lock, call      *)
(* native functions, `run` again included, and catch errors.  Windowed     *)
(* loops run until they are told to stop; one window at a time.  The state *)
(* of the two modules is thread_local: each thread has one of its own.     *)
(***************************************************************************)
EXTENDS Naturals, Sequences

CONSTANTS Threads,          \* threads that evaluate Lynxer code
          MainThread,       \* the one that is no native thread
          FrameModules,     \* {"graphics", "game"}
          HEADLESS_FRAMES,  \* frames of a headless run
          MaxRuns,          \* [Threads -> Nat]: bound on the runs inside runs
          INTERRUPT,        \* InterruptError
          EXIT,             \* ExitControl
          NoError           \* no error, no thread

Callbacks == {"start", "update", "draw"}

\* game has no start callback.
Registrable(m) == IF m = "game" THEN {"update", "draw"} ELSE Callbacks

\* An interrupt, an exit request, or an error the program throws, named by
\* the thread, the callback it is thrown in and how deep that is.
ProgramErrors == [by : Threads, depth : Nat, in : Callbacks \cup {"program"}]
Errors == ProgramErrors \cup {INTERRUPT, EXIT}

\* A `run` in progress: the callbacks it read when it was called, the one it
\* is at (or "begin", "check", "stop"), and the last error of update or draw.
Run == [module : FrameModules, calls : SUBSET Callbacks, frame : 0..HEADLESS_FRAMES,
        at : Callbacks \cup {"begin", "check", "stop"}, failure : Errors \cup {NoError}]

\* What the constants are.
FrameAssumption ==
    /\ MainThread \in Threads
    /\ FrameModules \subseteq {"graphics", "game"}
    /\ HEADLESS_FRAMES \in Nat \ {0} /\ MaxRuns \in [Threads -> Nat]
    /\ NoError \notin Errors \cup Threads
    /\ {INTERRUPT, EXIT} \cap ProgramErrors = {} /\ INTERRUPT # EXIT

VARIABLES
    holder,           \* the interpreter lock
    pc,               \* "code", "raising", "native", "parked" or "ended"
    runs,             \* the runs of each thread, innermost last
    raised,           \* the error a thread is throwing
    deferred,         \* deferredNativeError
    interrupted,      \* the flag of interrupt.cpp
    exiting,          \* the thread whose exit request is pendingExitCode
    headless,         \* LYNXER_GRAPHICS_HEADLESS, LYNXER_GAME_HEADLESS
    registered,       \* by thread: the callbacks of each module,
    quit_requested,   \* whether its loop has been told to stop,
    callback_active,  \* whether a callback of graphics is running,
    running           \* the modules inside run

module == <<headless, registered, quit_requested, callback_active, running>>
vars == <<holder, pc, runs, raised, deferred, interrupted, exiting, module>>

Depth(t) == Len(runs[t])
Top(t) == runs[t][Depth(t)]
SetTop(t, run) == [runs EXCEPT ![t][Depth(t)] = run]
Pop(t) == SubSeq(runs[t], 1, Depth(t) - 1)

TypeOK ==
    /\ holder \in Threads \cup {NoError}
    /\ pc \in [Threads -> {"code", "raising", "native", "parked", "ended"}]
    /\ runs \in [Threads -> Seq(Run)]
    /\ raised \in [Threads -> Errors \cup {NoError}]
    /\ deferred \in Errors \cup {NoError}
    /\ interrupted \in BOOLEAN /\ exiting \in Threads \cup {NoError}
    /\ headless \in [FrameModules -> BOOLEAN]
    /\ registered \in [Threads -> [FrameModules -> SUBSET Callbacks]]
    /\ quit_requested \in [Threads -> SUBSET FrameModules]
    /\ callback_active \in [Threads -> BOOLEAN]
    /\ running \in [Threads -> SUBSET FrameModules]

Init ==
    /\ holder = MainThread
    /\ pc = [t \in Threads |-> IF t = MainThread THEN "code" ELSE "parked"]
    /\ runs = [t \in Threads |-> <<>>]
    /\ raised = [t \in Threads |-> NoError]
    /\ deferred = NoError
    /\ interrupted = FALSE /\ exiting = NoError
    /\ headless \in [FrameModules -> BOOLEAN]
    /\ registered = [t \in Threads |-> [m \in FrameModules |-> {}]]
    /\ quit_requested = [t \in Threads |-> {}]
    /\ callback_active = [t \in Threads |-> FALSE]
    /\ running = [t \in Threads |-> {}]

-----------------------------------------------------------------------------
(* Lynxer code and the interpreter.                                        *)

Code(t) == holder = t /\ pc[t] = "code"

\* throwIfExitRequested: a native thread ignores the exit request of another.
Exits(t) == exiting # NoError /\ (t = MainThread \/ exiting = t)

\* throwIfInterrupted
Signal(t) == IF interrupted THEN INTERRUPT ELSE IF Exits(t) THEN EXIT ELSE NoError

Raise(t, error) ==
    /\ raised' = [raised EXCEPT ![t] = error]
    /\ pc' = [pc EXCEPT ![t] = IF error = NoError THEN "code" ELSE "raising"]

Yield(t) ==
    /\ Code(t)
    /\ holder' = NoError
    /\ pc' = [pc EXCEPT ![t] = "parked"]
    /\ UNCHANGED <<runs, raised, deferred, interrupted, exiting, module>>

Acquire(t) ==
    /\ holder = NoError /\ pc[t] = "parked"
    /\ holder' = t
    /\ pc' = [pc EXCEPT ![t] = "code"]
    /\ UNCHANGED <<runs, raised, deferred, interrupted, exiting, module>>

\* SIGINT
Interrupt ==
    /\ ~interrupted
    /\ interrupted' = TRUE
    /\ UNCHANGED <<holder, pc, runs, raised, deferred, exiting, module>>

\* An error of the program's own, or the check between two statements.
Throw(t) ==
    /\ Code(t)
    /\ \/ Raise(t, [by |-> t, depth |-> Depth(t),
                    in |-> IF runs[t] = <<>> THEN "program" ELSE Top(t).at])
       \/ Signal(t) # NoError /\ Raise(t, Signal(t))
    /\ UNCHANGED <<holder, runs, deferred, interrupted, exiting, module>>

\* catch clauses take the program's errors, not interrupts and exits.
Catch(t) ==
    /\ holder = t /\ pc[t] = "raising" /\ raised[t] \in ProgramErrors
    /\ Raise(t, NoError)
    /\ UNCHANGED <<holder, runs, deferred, interrupted, exiting, module>>

\* The error reaches the top level of the thread.
Uncaught(t) ==
    /\ holder = t /\ pc[t] = "raising" /\ runs[t] = <<>>
    /\ holder' = NoError
    /\ pc' = [pc EXCEPT ![t] = "ended"]
    /\ raised' = [raised EXCEPT ![t] = NoError]
    /\ UNCHANGED <<runs, deferred, interrupted, exiting, module>>

\* What callNative throws when the native function has returned.
Thrown(t) == IF Exits(t) THEN EXIT ELSE IF deferred # NoError THEN deferred ELSE Signal(t)

\* The end of callNative, for a function that has done what `effect` says.
NativeReturns(t) ==
    /\ Raise(t, Thrown(t))
    /\ deferred' = IF Exits(t) THEN deferred ELSE NoError

\* A native call: nothing happens when callNative throws before it.
NativeCall(t, effect) ==
    /\ Code(t)
    /\ IF Signal(t) # NoError
       THEN Raise(t, Signal(t)) /\ UNCHANGED <<deferred, module>>
       ELSE NativeReturns(t) /\ effect
    /\ UNCHANGED <<holder, runs, interrupted, exiting>>

AnyNativeCall(t) == NativeCall(t, UNCHANGED module)

\* sys.exit: the first request counts.
RequestExit(t) ==
    /\ Code(t) /\ Signal(t) = NoError
    /\ exiting' = IF exiting = NoError THEN t ELSE exiting
    /\ Raise(t, IF exiting = NoError \/ exiting = t THEN EXIT
                ELSE IF deferred # NoError THEN deferred ELSE NoError)
    /\ deferred' = IF exiting = NoError \/ exiting = t THEN deferred ELSE NoError
    /\ UNCHANGED <<holder, runs, interrupted, module>>

-----------------------------------------------------------------------------
(* The functions of the two modules.                                       *)

\* MaxRuns is also the bound on the threads that use the modules.
Uses(t) == MaxRuns[t] > 0

\* init keeps the callbacks.
init(t, m) ==
    /\ Uses(t)
    /\ NativeCall(t, /\ quit_requested' = [quit_requested EXCEPT ![t] = @ \ {m}]
                     /\ UNCHANGED <<headless, registered, callback_active, running>>)

\* stop and requestClose of graphics, close of game.
stop(t, m) ==
    /\ Uses(t)
    /\ NativeCall(t, /\ quit_requested' = [quit_requested EXCEPT ![t] = @ \cup {m}]
                     /\ UNCHANGED <<headless, registered, callback_active, running>>)

set_callback(t, m, callback, named) ==
    /\ Uses(t)
    /\ NativeCall(t, /\ registered' = [registered EXCEPT ![t][m] =
                           IF named THEN @ \cup {callback} ELSE @ \ {callback}]
                     /\ UNCHANGED <<headless, quit_requested, callback_active, running>>)

\* run reads the callbacks once; a new name takes effect at the next run.
run(t, m) ==
    /\ Code(t) /\ Depth(t) < MaxRuns[t]
    /\ headless[m] \/ \A u \in Threads : \A i \in DOMAIN runs[u] : headless[runs[u][i].module]
    /\ IF Signal(t) # NoError
       THEN Raise(t, Signal(t)) /\ UNCHANGED <<runs, running>>
       ELSE /\ runs' = [runs EXCEPT ![t] = Append(@,
                  [module |-> m, calls |-> registered[t][m], frame |-> 0,
                   at |-> "begin", failure |-> NoError])]
            /\ running' = [running EXCEPT ![t] = @ \cup {m}]
            /\ pc' = [pc EXCEPT ![t] = "native"]
            /\ UNCHANGED raised
    /\ UNCHANGED <<holder, deferred, interrupted, exiting, headless, registered,
                   quit_requested, callback_active>>

InRun(t) == holder = t /\ pc[t] = "native"

\* A mistake: the frame goes on when update fails.
AfterAnyResult(at, ok) ==
    CASE at = "begin" -> "start"
      [] at = "start" -> "update"
      [] at = "update" -> "draw"
      [] at = "draw" -> IF ok THEN "check" ELSE "stop"

\* Where the loop goes after a callback: a failed start is ignored, a failed
\* update or draw ends it (run_frame).
After(at, ok) ==
    CASE at = "begin" -> "start"
      [] at = "start" -> "update"
      [] at = "update" -> IF ok THEN "draw" ELSE "stop"
      [] at = "draw" -> IF ok THEN "check" ELSE "stop"

\* A callback that is not registered is passed over.
Skip(t) ==
    /\ InRun(t)
    /\ Top(t).at \in {"begin"} \cup (Callbacks \ Top(t).calls)
    /\ runs' = SetTop(t, [Top(t) EXCEPT !.at = After(@, TRUE)])
    /\ UNCHANGED <<holder, pc, raised, deferred, interrupted, exiting, module>>

invoke_callback(t) ==
    /\ InRun(t)
    /\ Top(t).at \in Top(t).calls
    /\ pc' = [pc EXCEPT ![t] = "code"]
    /\ callback_active' = [callback_active EXCEPT ![t] = @ \/ Top(t).module = "graphics"]
    /\ UNCHANGED <<holder, runs, raised, deferred, interrupted, exiting, headless,
                   registered, quit_requested, running>>

\* The callback is over: graphics clears the flag whatever it was before.
CallbackEnds(t, ok, failure) ==
    /\ runs' = SetTop(t, [Top(t) EXCEPT !.at = After(@, ok), !.failure = failure])
    /\ callback_active' = [callback_active EXCEPT ![t] = @ /\ Top(t).module # "graphics"]
    /\ pc' = [pc EXCEPT ![t] = "native"]
    /\ UNCHANGED <<holder, interrupted, exiting, headless, registered,
                   quit_requested, running>>

CallbackReturns(t) ==
    /\ Code(t) /\ runs[t] # <<>>
    /\ CallbackEnds(t, TRUE, Top(t).failure)
    /\ UNCHANGED <<raised, deferred>>

\* lynxerHostInvokeImpl answers 1 and keeps the error, unless it is an
\* interrupt, for callNative to throw.
CallbackFails(t) ==
    /\ holder = t /\ pc[t] = "raising" /\ runs[t] # <<>>
    /\ CallbackEnds(t, FALSE, IF Top(t).at = "start" THEN Top(t).failure ELSE raised[t])
    /\ deferred' = IF raised[t] = INTERRUPT THEN deferred ELSE raised[t]
    /\ raised' = [raised EXCEPT ![t] = NoError]

\* After a frame in which no callback failed.
EndFrame(t) ==
    /\ InRun(t) /\ Top(t).at = "check"
    /\ LET top == Top(t)
           frames == IF headless[top.module] THEN top.frame + 1 ELSE 0
           ends == interrupted \/ top.module \in quit_requested[t] \/ frames = HEADLESS_FRAMES
       IN  runs' = SetTop(t, [top EXCEPT !.at = IF ends THEN "stop" ELSE "update",
                                         !.frame = frames])
    /\ UNCHANGED <<holder, pc, raised, deferred, interrupted, exiting, module>>

\* run returns to callNative.
run_returns(t) ==
    /\ InRun(t) /\ Top(t).at = "stop"
    /\ running' = [running EXCEPT ![t] = @ \ {Top(t).module}]
    /\ runs' = [runs EXCEPT ![t] = Pop(t)]
    /\ NativeReturns(t)
    /\ UNCHANGED <<holder, interrupted, exiting, headless, registered,
                   quit_requested, callback_active>>

-----------------------------------------------------------------------------
Next ==
    \/ Interrupt
    \/ \E t \in Threads :
         \/ Yield(t) \/ Acquire(t) \/ Throw(t) \/ Catch(t) \/ Uncaught(t)
         \/ AnyNativeCall(t) \/ RequestExit(t)
         \/ \E m \in FrameModules : init(t, m) \/ stop(t, m) \/ run(t, m)
         \/ \E m \in FrameModules : \E c \in Registrable(m), named \in BOOLEAN :
               set_callback(t, m, c, named)
         \/ Skip(t) \/ invoke_callback(t) \/ CallbackReturns(t) \/ CallbackFails(t)
         \/ EndFrame(t) \/ run_returns(t)

Spec == Init /\ [][Next]_vars

-----------------------------------------------------------------------------
\* A run that ends after a failure throws it, or an exit request.
RunThrowsItsError ==
    \A t \in Threads :
       (Depth(t) > 0 /\ runs'[t] = Pop(t) /\ Top(t).failure # NoError) =>
           /\ pc'[t] = "raising"
           /\ raised'[t] \in {Top(t).failure, EXIT} \/ Top(t).failure = INTERRUPT

\* The error that ended a frame is the error its run throws, however deep the
\* run is and whatever other threads and earlier callbacks have left behind;
\* only an exit request takes precedence (docs/stdlib/game.md: "the loop stops
\* and the error is reported at the run() call site").
CallbackErrorsAreThrown == [][RunThrowsItsError]_vars
=============================================================================
