# Lynxer in TLA+

Lynxer is an interpreter in C++ (`src/lynxer/*.cpp`) for a small imperative
language with tracked ownership, native threads and asynchronous tasks. Its
standard library is native modules, most of them in Rust
(`src/lynxer/rust/*`). This directory holds TLA+ models of the parts whose
correctness depends on the order in which things happen, the TLC configurations
that check them, and TLAPS proofs.

Contents: [1 the system](#1-the-system), [2 the modules](#2-the-modules),
[3 the runs](#3-the-runs), [4 the proofs](#4-the-proofs),
[5 what the code does not do](#5-what-the-code-does-not-do),
[6 what is left out](#6-what-is-left-out), [7 the plan](#7-the-plan).

## 1 The system

The interpreter (paths below `src/lynxer/`):

| Component | State | Operations | What is hard | What makes it correct |
| --- | --- | --- | --- | --- |
| Variables, scopes, ownership (`runtime.cpp`, statements of `ast.cpp`) | the scope stack, per variable: type, value, constant, moved or live, `borrowSource`, `borrowMutable`, `borrowers` | declare, assign, `shared`, `varTransfer`, `varBorrow`, `varEndBorrow`, swaps; push and pop of scopes | borrows are recorded by *name* on both sides and resolved when used; long legal sequences; shadowing | a readable name leads to a live value; both sides of a borrow agree; chains end; constants do not move |
| Interpreter lock (`ast.cpp`) | one recursive mutex | lock, unlock around every wait | every blocking builtin gives it up half way | one thread evaluates at a time, nobody blocks with it |
| Native threads (`builtins.cpp`) | registry of handles, per thread: `std::thread`, status, detached | start, join, join all, detach, yield, the worker's lambda | snapshots, handles erased after a wait, joins that throw | live threads can be found; joins wait; the environment outlives the threads |
| Program exit and interrupts (`executeProgram`, `interrupt.cpp`) | the reaper's snapshot, the exit request, the interrupted flag | reap, on return and on unwinding; the checks between statements | threads started meanwhile, exceptions in a destructor, a request that meets an error | nobody evaluates in a dead environment, the program ends, an error is not replaced |
| Synchronization objects (`builtins.cpp`) | per object: owner or count, waiters, sleepers | create, lock, wait, notify, post, close | the gap between releasing the interpreter and entering the object; overtaking; spurious wakeups | no lost wakeup, the counters tell the truth |
| Async tasks (`builtins.cpp`) | registry of handles, per task: `std::thread`, result or error | `asyncRun`, `await`, `asyncGather`, `asyncSleep`, reaping | two joins of one thread, mutual awaits, a gather that stops half way | a handle goes only after a join, an await has an outcome |
| Native ABI and host calls (`ast.cpp`, `native_value.cpp`, `rust/abi`) | loaded modules, the deferred error of a callback | `callNative`, `lynxerHostInvoke`, blocking sections | callbacks that call native functions again, on several threads | the error that stops a callback is thrown by the call it happened in |
| Async polls, imports, memory registry | registrations and wakeup pipes; a table of imported modules; tables of live addresses | one call, one change | stale descriptors, a setup that fails, double frees | see section 6 |
| Numbers, lexer, parser, optimizer, lint, formatter, debugger, shell, LSP, bundles, platform layers | text, trees and files | sequential | little for a model checker | - |

The native modules with a state of their own (paths below `src/lynxer/rust/`):

| Component | State | Operations | What is hard | What makes it correct |
| --- | --- | --- | --- | --- |
| `server` | one mutex-protected `STATE`: routes, configuration, the running server; per thread: the request it handles and its reply | register routes, start, run, stop; plan and answer requests; callbacks into Lynxer code | a request is planned with an index and answered later; stop joins a thread that may wait for the interpreter lock | the index still fits, a listener can always be stopped, a handler sees its own request, stop returns |
| template engine of `server` | scopes, loop variables, macros, the pending error | lex, parse, render | eight levels of precedence, bodies inside bodies; an error left aside until a node is over | a template is read as it was meant; an unknown variable is an error |
| `graphics`, `game` | registries by index, bound target, cameras, the frame loop's flags, widget blocks, input | init, run and its callbacks, drawing, physics, collisions, tile maps, widgets, questions about keys and pointer | indices outlive what they name; callbacks fail, stop, nest; frames nobody asks in | what is drawn exists and is where it belongs; a platform carries; an error stops its loop |
| `watch` | registry of watches; on Windows a worker and a queue for each | add, drain, wait, remove | the worker races with add, drain, wakeup and remove | no change after add is missed |
| `network` | connections by name, per thread | connect, send, receive, close; blocking without the lock | timeouts, and names connected again | messages come from the newest connection, in order, once |
| `tui` | the terminal's modes, displays by slot | menus, prompts; bars and live displays that redraw in place | raw mode belongs to the process, its memory to the thread; stale heights | a prompt restores the mode; a display replaces itself |
| `image`, `sound`, `sqldb` | a table of images; players by handle; connections by handle | drawing and flood fill; play, pause, release; scripts and transactions | stale handles, scripts that fail half way | the region is filled, what sounds can be stopped, transactions belong to a handle |
| `re`, `regex` (`regex_engine`) | none | replace, split, truncate, spans | empty matches, characters of several bytes | nothing of the subject is lost or doubled |
| `ffi` | the calls of a thread, its error and its string | parse a signature, check and store arguments, call, turn the result | narrow types, packed forms, calls inside calls | a callee sees what it was given |
| `raylib`, data formats, encodings | none | generated wrappers, conversions | - | see section 6 |

How they interact. Every thread of a program - main, native threads, async
tasks, the server's threads inside a callback - evaluates in the *same*
`Environment`, so the scope stack of the first component is shared memory for
the others. The interpreter lock is what keeps them apart. A builtin or native
function that waits releases it, waits on something of its own, and takes it
again; everything that another thread can do in between is what these models
explore. Native modules call back into Lynxer code (`graphics`, `game`,
`server`, `ffi`) through `lynxerHostInvoke`, on the thread that called them or,
in `server`, on a thread of their own that takes the lock first. Apart from that
the native modules share nothing with one another: each keeps its state in a
mutex or in `thread_local` registries.

## 2 The modules

| Module | Models |
| --- | --- |
| `Ownership` | the scope stack and every statement or builtin that changes a variable |
| `OwnershipProperties` | its invariants, and two properties that the documentation claims and the code does not have |
| `Evaluation` | abstract: what the interpreter lock promises |
| `NativeThreads` | native threads, the lock, the scope stack they share, the end of the program |
| `NativeThreadsProperties` | its properties, and the refinement of `Evaluation` |
| `AsyncTasks`, `AsyncTasksProperties` | tasks, their awaits and gathers, the lock, the end of the program |
| `SyncObjects`, `SyncObjectsProperties` | mutexes, condition variables, semaphores under the lock |
| `Server`, `ServerProperties` | routes, requests, callbacks, listeners and their end |
| `FrameLoop` | the frame loops of `graphics` and `game`, with the host calls, errors, interrupts and exits under them |
| `GraphicsSurfaces`, `GraphicsUi`, `Input` | what is drawn on what; the widgets; keyboard and mouse |
| `GameWorld`, `GameSprites`, `GamePhysics`, `Tilemap` | the registries of `game`; sprites as they move, collide and are seen; the platformer step; maps |
| `TemplateSyntax`, `TemplateParser`, `TemplateRenderer` | the templates of `server` |
| `Watch`, `Network`, `TuiPrompts`, `TuiDisplays`, `Images`, `Sound`, `Database`, `RegexEngine`, `NativeCalls` | a native module each |
| `NativeModules` | sixteen of these side by side, those that are proved about |
| `*MC` | model values and parameter lists for TLC; `NativeModulesMC` adds the other native modules but `server` |
| `*Proofs` | the theorems |

A definition with a comment "Faulty variant of" or "A mistake" is a plausible
mistake in the code. It is never part of a specification; each property is
confirmed to fail when the variant replaces the definition it belongs to.

### Ownership

`scopes` is `Environment::scopes_`: a sequence of scopes, each a function from
names to `Variable` records (the fields of the C++ struct) or `Undeclared`.
`findVariable`, `canonicalName`, `ownershipError` are the functions of
`runtime.cpp`; since a rejected statement throws before it writes, an action is
the successful path and its guard collects the early returns. The one exception
is a `shared` declaration, whose declaration stays when its borrow is rejected:
`SharedDeclarationFails`. `canonicalName` is written as the end of the least set
closed under `borrowSource` instead of a loop, which makes it usable in proofs; a
lemma of `OwnershipProofs` shows that it is what the loop answers.

Data is abstract: types are `int`, `byte`, `str`, `any`; values are `small` (fits
a byte), `wide` (an integer that does not) and `text`, because the code
tells them apart in two different ways: `convertForType` checks widths, and
`typeMatches` answers for the whole numeric family
before its own range checks.
`any` is in `TypeNames` but not in the instances: under an `any` source the end
of a borrow copies a value of any type into the borrower, which is what `any`
says.

Three specifications share these actions. `Spec` is everything a program may do.
`BodySpec` is one function body which does not redeclare a name that borrows or
is borrowed. `CallsSpec` is such bodies calling one another. The distinction is
in the code's behaviour, not for convenience: a declaration replaces the whole
record of a mutably borrowed name, and its borrower keeps naming it, so outside
`BodySpec` the borrow bookkeeping is not kept (section 5).

### NativeThreads

| State | Code |
| --- | --- |
| `gil` | owner of `interpreterLock()` |
| `pc`, `purpose`, `target`, `pending` | where a thread is, why it gave the lock away, whom it joins, the rest of a snapshot (`JoinAll`, reaper) |
| `registry`, `joinable`, `detached`, `status` | `nativeThreads()` and the fields of `NativeThreadEntry` |
| `stack`, `frames` | who pushed each scope on the shared `scopes_`; how many calls a thread is in |

`Start`, `EnterCallback`, `FinishCallback`, `WriteStatus`, `Retire` follow the
worker's lambda, split where it releases or takes a lock; `BeginJoin`,
`FinishJoin` or `FailJoin`, `Wake` follow `joinThread`; `MainReturns`,
`ReapSkips`, `ReapFails`, `ReapTerminates`, `Exit` follow the reaper of
`executeProgram`, entered after `main` returned (`purpose` is "exit") or from its
destructor while an exception leaves ("unwind"). `Call` and `Return` are calls of
Lynxer code; an exception that leaves a function or a lambda pops its scope like a
return, one that leaves a method does not (`MethodThrows`). Reading (`IsAlive`, `Status`)
changes nothing and has no action. A join of oneself, or of a thread that
another one is joining, makes `std::thread::join` throw `std::system_error`;
glibc
answers `EINVAL` when somebody else is joining the thread and `EDEADLK` when it
is joining the caller.

### AsyncTasks

| State | Code |
| --- | --- |
| `gil` | owner of `interpreterLock()` |
| `pc`, `purpose`, `target`, `pending` | where a thread is, why it gave the lock away, whom it joins, the arguments a gather has not looked at |
| `registry`, `joinable`, `outcome` | `asyncTasks()`; `worker.joinable()`; `result` or `error` of an `AsyncTaskEntry` |
| `snapshot` | what `joinAsyncTasksAtExitInternal` has still to join |
| `answer` | what the last `await` of a thread came to |

A program is given by three constants: who may run, await and gather which task.
`Run` is `asyncRun`; `EnterTask`, `FinishTask`, `End` are the lambda it starts;
`Await` with `FinishJoin` and `WakeFromJoin`, or with `FailJoin`, is `joinTask`;
`AwaitSelf` and `AwaitOther` are its early refusal and the integer that is no
handle. A gather awaits its arguments one after the other (`GatherNext`,
`GatherPasses`, `GatherRefused`, `GatherEnds`) and stops at the first error. The
reaper is the one of `NativeThreads`, over tasks. `asyncRun` registers the handle
before the thread exists, and both happen under the lock, so `Run` is one step.
After a join that threw, a thread evaluates without the lock, and from there on
every access to the shared tables is a data race; the model keeps its steps whole,
so it shows that two threads evaluate and not everything that can come of it.

### SyncObjects

Every call is split at the two places where another thread can intervene:
`unlockInterpreter`, and the entry into the object's own `std::mutex`. What runs
inside that mutex is one step. A `std::condition_variable` is the set `asleep`
of its sleepers; `notify_one` removes any one of them, and `WakeSpuriously`
lets one go for no reason, as the standard allows. A predicate wait is
`TakeOrSleep`, repeated by `MutexRetry`, `ConditionRelock`, `SemaphoreRetry`.
The runs use one mutex per condition: two are undefined behaviour in
`std::condition_variable`.

### Evaluation

One variable, the set of threads that evaluate; it is handed over through the
empty set. `NativeThreads` implements it with
`evaluating <- Evaluating`, the threads whose `pc` says that they are between a
`lockInterpreter` and an `unlockInterpreter`. So do `AsyncTasks`, as long as no join
throws, `SyncObjects`, from a state in which nobody evaluates yet, and `Server`, where
callbacks are on threads of their own and enter through the host call.

### Server

| State | Code |
| --- | --- |
| `holder`, `pc`, `joining` | the interpreter lock; where each interpreter or server thread is; the thread a stop or run waits for |
| `routes`, `wsPaths`, `trees`, `config`, `last`, `server` | the fields of `STATE` |
| `router`, `ending`, `tls` | what a server thread was started with, and whether its shutdown sender has fired |
| `at`, `serving`, `planned` | the listener a request was sent to, the request it works on, the index `dispatch` found |
| `current`, `reply`, `answer` | `CURRENT_REQUEST` and `CALLBACK_RESPONSE` of a thread; the responses |

A step is what one holder of `STATE` does before it lets go: `dispatch` plans a
request, `route_response` answers it or goes on to `run_route_callback`, which
takes the interpreter lock. `server_stop` takes the record away, fires the
sender and joins without the interpreter lock (`Joined`); a callback that stops
its own server joins itself, which aborts the process (`crashed`). When another
thread is in `run`, it has the handle already: `stop` has nothing to join and clears
`STATE.server` at once, while the listener still answers what it has accepted
(`Abandoned`). Clients are `Send`. A body is the request it answers;
headers, cookies, handshakes and files are left out.

### FrameLoop

`runs` is, for each thread, the stack of `run` calls it is inside of, each with
the callback it is at and the error that ended it. `deferred` is
`deferredNativeError` of `ast.cpp`, one variable for the whole process;
`interrupted` and `exiting` are the interrupt flag and the exit request.
`lynxerHostInvokeImpl` stores a callback's error, `callNative` throws what is
stored when the native function is back, and both may be a nested call, another
module or another thread. Windowed loops end when they are told to, headless
ones after `HEADLESS_FRAMES`.

### The other native modules

Each is one specification whose actions bear the names of the module's
functions and whose state is the module's.

| Module | State | Abstracted | External |
| --- | --- | --- | --- |
| `GraphicsSurfaces` | registries of images, textures, targets, fonts, materials, turtles; bound target; framebuffer; cameras and those `pushCameraState` keeps | a picture is the set of colours drawn on it | macroquad's camera |
| `GraphicsUi` | the stack of open blocks, values, results, options | a widget is its kind and id | - |
| `Input` | the pointer at the last question, the turn of the wheel not yet asked for | steps of the pointer and the wheel; buttons without an index are one, `UnknownButton` | the window: keys and events |
| `GameWorld` | sprites, lists, scenes, cameras, labels, sounds, animations by index | attributes that name nothing | - |
| `GameSprites` | places, sizes, angles, scales, velocities, textured or solid, lists, the camera | integers and quarter turns instead of floats | - |
| `GamePhysics` | the player, the walls, the wall stood on and where it was | integers, slopes of one in one | - |
| `Tilemap` | textures, layers with their sprites | an absent attribute is 0 | map files, read |
| `Images` | the table of images | a picture is a function from points to colours; what a filter makes of it is left open | codecs |
| `Sound` | entries with their player and volume | a file that is there or gone | rodio's players, which end on their own |
| `Watch` | the registry, descriptors, workers with their stop flags and queues | paths and kinds; which back end was built is chosen at the start | inotify and `ReadDirectoryChangesW` |
| `Network` | `CONNECTIONS` and `TCP_CONNECTIONS` of each thread | a message is its number | peers |
| `TuiPrompts`, `TuiDisplays` | the modes the module remembers; slots with their heights | a rendering is its height | the terminal |
| `Database` | the registry of handles | a table is how many rows it has | SQLite's transactions and locks |
| `TemplateParser` | the parse of a template | a delimiter or a word is one symbol | - |
| `TemplateRenderer` | bodies being rendered, scopes, loop variables, macros, the pending error | what is printed | - |
| `RegexEngine` | an operation and its result | a subject is its bytes; a pattern is where its matches end | fancy-regex |
| `NativeCalls` | the calls of a thread, innermost last; last error and string | widths scaled down, see section 3 | the callees |

## 3 The runs

| Run | Specification, bounds | Shows |
| --- | --- | --- |
| `ownership_body` | `BodySpec`; 3 names; int, byte, str; 3 values | `ReadsAreLive`, `BorrowersAreRegistered`, `ChainsResolve`: no order of moves, borrows, swaps and assignments in a body breaks the borrowing rules |
| `ownership_calls` | `Spec`; 2 names; stack of 2; parameters that shadow | `ConstantsOwnTheirStorage`: it survives calls, shadowing, redeclaration and rings of borrows |
| `threads` | `FairSpec`; main and 2 workers; only main starts, joins, detaches; 1 call or yield per thread | `EnvironmentOutlivesThreads`, `LiveThreadsAreRegistered`, `Serialized` (refinement of `Evaluation`), `ProgramEnds` |
| `threads_open` | `Spec`; a worker joins and detaches too | `JoinedThreadsAreDone`, on the failing paths as well: joins that throw, the process terminated by the reaper |
| `async` | `FairSpec`; main and 3 tasks, one of them started, awaited and gathered by another; awaits of oneself; 1 sleep, gather or idle await per thread | `ExclusiveUntilTheEnd`, `ErasedTasksAreJoined`, `AwaitsAnswerWithOutcomes`, `ProgramEnds`, on the paths where the reaper meets a task that another one awaits as well |
| `sync` | `FairSpec`; 3 threads; one mutex, condition, semaphore; count up to 2; one thread closes | `NoLostMutexWakeup`, `NoLostPost`, `FreeMutexIsTaken` |
| `server` | `Spec`; 1 interpreter thread, 2 listeners, 2 requests, 2 routes and 1 WebSocket path | `LiveServersCanBeStopped`, `HandlersAnswerTheirRequest` |
| `server_stop` | `FairSpec`; 2 interpreter threads, 2 listeners, 2 routes of one path, 1 request with a callback | `PlannedRoutesMatch`: whoever stops, starts and registers, the index of a planned request stays right, except at a listener that stop has abandoned (section 5); `StopReturns`: a stop that joins returns, whatever the callbacks of its server wait for |
| `native_modules` | the native modules, see below | their properties |
| `ownership_constant`, `threads_exit`, `async_exit` | as small as shows it | section 5 |

`native_modules` checks nineteen specifications in one run. The modules share no
state, so a product of them would only multiply: the variable `focus` is chosen
at the start and says which one a behaviour follows; the variables of the others
stay `None`. The run is the sum of nineteen state graphs, about 965,000 states.
Sixteen of them (frames, surfaces, ui, world, physics, sprites, tilemap, watch, network,
prompts, displays, sound, database, images, input, regex) make up `NativeModules`, whose
`Spec` the theorems are about. The run is of `NativeModulesMC!AllSpec`: a behaviour that
follows one of the sixteen is a behaviour of `NativeModules!Spec`, and the others leave
its variables at `None`.

| `focus` | Instance | Property |
| --- | --- | --- |
| frames | 2 threads, 1 module, runs inside runs on one of them | `CallbackErrorsAreThrown` |
| surfaces | one handle of each kind, one colour, windowed or not | `OnlyBoundTargetsArePainted` |
| ui | windows and groups of 3 commands, a button and a slider, one id | `WidgetsKeepTheirBlock` |
| world | 2 textures, 2 sprites, one of the rest | `IndicesResolve` |
| physics | a wall, a slope and a one-way platform in 2 places each, 3 starts, 2 speeds | `RidersStayOnTheirPlatform` |
| sprites | 2 sprites, turned and scaled, in one list, 2 places, a zoomed camera or none | `SpritesActAsSeen` |
| tilemap | 6 lists of tilesets, every pair of 7 tiles, widths 0 to 2 | `TilesShowTheirPictures` |
| input | a key with 2 names, a button and the unknown one, 2 frames of 2 events, pointer and wheel both ways | `InputIsReportedOnce` |
| images | 2 images of 3 by 2 pixels, 2 colours | `FillsPaintTheRegion` |
| sound | 2 entries, 2 players, 2 volumes, with and without a device | `PlayersFollowTheirHandle` |
| database | 1 path, 2 handles, 7 scripts, 3 rows | `TransactionsBelongToHandles` |
| watch | 2 threads, 1 handle, 2 paths, 2 kinds, 2 pending events, both back ends | `ChangesAreSeen` |
| network | 1 thread, 1 name of each kind, 2 connections, 2 messages | `ReceivedInOrder` |
| prompts | 2 threads, 2 choices, with and without a terminal | `PromptsRestoreTheTerminal` |
| displays | 1 slot of each kind, 2 lines a rendering, 3 lines shown | `DisplaysReplaceThemselves` |
| parser | expressions of two operators, out of 5, unary ones, filters and calls; every kind of body around a node | `TemplatesParseBack` |
| renderer | 9 leaves in and behind each of 7 bodies, a base with a block, an include that includes itself | `UnknownVariablesAreErrors` |
| regex | subjects of 2 characters, one of them of two bytes, every way in which matches may end, 3 replacements | `SubjectIsKept` |
| calls | 17 signatures, 9 values, a call inside a call | `CallsKeepTheirValues` |

Why the bounds are enough. Three names are the least at which a borrower is
itself borrowed while a third variable is moved or swapped; with two names there
are rings but no chains with a branch. A stack of two scopes is what shadowing
and dying borrowers need. Two workers let one be joined while the other runs and
is detached, and give the reaper a snapshot that goes stale; the proofs lift the
number of workers and names. Three tasks are the least at which a task is awaited
by another while main gathers a third; a task that nobody awaits is left to the
reaper in other behaviours of the same program. Three threads are the least at which a notified
thread is overtaken by a second while a third still sleeps, and a count of two
lets posts run ahead of wakeups. `MaxOps` bounds how often a thread calls or
yields; a yield only releases and takes the lock, so one per thread already gives
every handover. Two listeners are the least for a restart while the first one
still answers, two requests for one that replaces another as the process's last.

In the native modules the bounds cover one conflict each: two runs inside one
another and a second thread that takes the lock meanwhile, two sprites that name
one texture, two tilesets that compete for a tile, a connection that replaces
another under its name, a second character wider than a byte. What surfaces,
ui and world are about is a stale index or an unclosed block, which one handle
of a kind already is. The widths of `NativeCalls` are scaled down and keep their
order (int32 < exact doubles < int64 < uint64), so that each narrowing has a value
on either side. The proofs lift the bounds of the sixteen modules of `NativeModules`,
of the server and of everything in the interpreter.

`CHECK_DEADLOCK` is off where the program ends or all
threads may wait for something nobody will release (`src/docs/builtins.md:533`
says that such programs deadlock), and in `native_modules`, where behaviours end at
the bounds. Symmetry is used over names in `ownership_body` and
`ownership_calls`, where all checked formulas are invariants.

Fairness. `NativeThreads!FairSpec` and `AsyncTasks!FairSpec` assume weak fairness
of each thread's steps together: the operating system runs a thread that can run. It
does not assume that a thread gets the lock in preference to others - the lock is free
again and again because every thread has a bounded number of calls, so weak fairness of
a thread's disjunction suffices. `SyncObjects!FairSpec` is weak fairness of `Progress`
alone, the steps inside blocking calls; nothing makes a program call unlock or post, and
nothing prevents spurious wakeups or makes them happen. `Server!FairSpec` assumes more,
since its programs do not end: threads run, Lynxer code yields the lock now and then and
its handlers return, and the lock is given to every thread that keeps asking for it
(strong fairness of `Acquire` and of `run_route_callback`, the two places that take it).
Neither the operating system's mutex nor the interpreter promises the last point in so
many words; without it any thread may starve, in `stop` as anywhere. What the run shows
is that `stop` adds no wait of its own that fairness cannot end: it fails when `stop`
joins with the lock held.

## 4 The proofs

All proofs are checked by TLAPS to the last leaf. They assume what the named
assumptions of the modules say (`NamesAssumption`, `UndeclaredAssumption`,
`ThreadsAssumption`, `TasksAssumption`, `SyncAssumption`, `ServerAssumption`,
`NativeAssumption`), which TLC evaluates in the runs, and what each theorem states
itself. `NativeAssumption` is the conjunction of what the sixteen modules of
`NativeModules` assume (`FrameAssumption`, `NetworkAssumption`, `SoundAssumption`,
`DatabaseAssumption` and so on); in those modules the assumption is an operator,
because they are instantiated. These assumptions say that bounds are numbers,
that sets are of the kind their use needs, that `None` is no number, handle or
record of the program, that the first byte of a character and only that one is not a
continuation (`RegexAssumption`, which is how UTF-8 is), and that the table of key names
(`KEYS` of `input.rs`) gives no name twice and has a name for every key that `game`
knows.

`OwnershipProofs`, for `Spec`: `TypeCorrect`, and `ConstantsOwn`
(`ConstantsOwnTheirStorage`). The second is inductive with `TypeOK`: each action
that sets `borrowSource` or "Moved" guards against constants, and fresh records
are live owners. The lemma `CanonicalNameIsTheLoop` justifies the closed form of
`getCanonicalName`: it is what the code's loop answers, the owner its chain of borrows
ends at, or the name itself when there is none. The loop is a recursive function of the
set of names seen; the proof looks at the least number of names that may still be met
after which it would answer something else (`LoopAnswers`). It needs finitely many
names, as any program has.

The same module, for `BodySpec`: `BorrowersRegistered`, `ReadsLive`,
`ChainsEnd`. None of the three is inductive. `BodyInv` says that there is one
scope and that four things hold in it: `Registered` (a borrower is in the
`borrowers` of its *direct* source, which is declared), `MovedNotLent` (a moved
owner has no borrower), `Valued` (an owner has a value) and `Acyclic` (no
non-empty set of names borrows only from itself). The last gives `ChainsResolve`
for chains of any length without induction over data: a chain that came to no
owner would be such a set. A new borrow keeps it because
its source, the canonical name, is an owner and so in no such set; the end of a
borrow only takes an edge away. `MovedNotLent` is what makes `ReadsAreLive` hold although a
read checks only the name it is given.

`NativeThreadsProofs`, for `Spec`, any set of workers: `LockInv` relates the holder of
the lock to the one thread that evaluates, and is inductive only if joins cannot
throw outside the reaper, which is why `OneThreadEvaluates` and `Implementation`
assume `OnlyMainJoins` (`Joiners` is main alone). `JoinInv` says where
a target, its status and the registry are while a join is on its way;
`LiveThreadsCanBeFound` and `JoinWaitsForTheEnd` (`JoinedThreadsAreDone`) follow.
`ReapInv` says that while main reaps, each live worker that is not detached is still in
`pending` or is the target; with it `ExitIsSafe` holds when only main starts and joins
threads. The violated run `threads_exit` shows that the assumption on starting cannot be
dropped; nor can the one on joining, since a worker that joins itself goes on without
the lock (`async_exit` is the same failure among tasks).

`AsyncTasksProofs`, for `Spec`, any tasks and any program over them:
`TheLockIsReleased` is inductive with the types. `JoinedInv` says how handles,
`std::thread`s and outcomes go together: what is joinable is registered, a task
that is not joinable any more has ended, a thread that wakes up from a join has a
target that is not joinable, and a task that ends has an outcome. From it follow
`ErasedTasksWereJoined` and `AwaitWaitsForTheEnd`, for joins that throw and for
several awaits of one task as well. `OneThreadEvaluates` assumes `OneAwaiter` and
`NoMutualAwait`: `WaitsInv` says that a thread other than the reaper joins only
what the program lets it await, so until main ends no join can throw
(`JoinsSucceed`), and `HoldsInv`, whoever evaluates holds the lock, is inductive.
`EvaluationIsHandedOver` is the step of `Evaluation` under the same assumptions, for the
step that begins the end as well. To the very end (`Implementation`) it takes
`OnlyMainAwaits`: the reaper joins what no task is joining, so none of its joins throws,
and `ReapHolds` says that main has the lock between two of them. `async_exit` shows what
happens otherwise.

`SyncObjectsProofs`, for `Spec`, any threads, mutexes, conditions and semaphores.
`Types` adds to `TypeOK` that a blocked thread's handle is of the kind its call
is about. Exclusion (`OneThreadEvaluates`) is inductive, and with the holder of the lock
it gives `EvaluationIsHandedOver`. `OwnersRelease` is an action property and needs only
the types. `NoMutexWakeupIsLost` is inductive too: an unlock wakes one sleeper, and a
sleeper that is awake either takes the mutex or finds it taken. `NoPostIsLost` compares
cardinalities, the counts that are left with the threads that are awake, through one
post, one wakeup and one take at a time; `CountersAreRight` says what a close asks: the
counter of an object is the number of threads inside its waits.

`ServerProofs`, for `Spec`, any routes, requests, listeners and interpreter
threads. `ListenersCanBeStopped` needs `OneStop`: at most one stop is on its way,
of the server that `STATE` names, and it has that server's shutdown sender.
`RoutesAreFrozen` (`PlannedRoutesMatch`) is about every listener that stop has not
abandoned. Routes change only while no server is recorded, so what has to be shown is
that a listener with a plan is recorded, or abandoned (`RecordedOrAbandoned`). `JoinInv`
relates the two joins to the record: a stop that joins waits for the listener `STATE`
names and clears the record when it has ended; a handle that stop does not find is the one
that run joins, so a stop that clears the record at once abandons the listener, which stays
abandoned until it has ended (`AbandonedStays`). `RequestsAreNotMixed` needs
`SlotsAreOwn`: the request and the reply of a server thread are those of the request it
serves, or empty. `Implementation` is the refinement of `Evaluation`; `LockAgrees`, the
holder of the lock is the thread that evaluates, is inductive, through a stop that gives
the lock up for its join and a run that does so for a thread which may have been taken
from it.

`GameProofs` (the modules of `game` and `graphics`), `RegexProofs` and
`NativeModulesProofs` (the others), for `NativeModules!Spec`: one invariant for each
module, under its `focus`.

- `ErrorsAreThrown`, `LoopInv`: `RunsArePlaced` says where a thread and its innermost run
  are; `FailuresAreCarried` that a run that has failed is the innermost one of the thread
  that evaluates, on its way out, with its error in `deferredNativeError` or, for an
  interrupt, in the flag. That is why no other thread and no nested run can take the
  error first: between the failing callback and `callNative` nobody else gets the lock.
- `MessagesInOrder`, `NetInv`: a connection belongs to at most one slot, a thread, a kind
  and a name (`PeersAreOwned`); what was received under a slot is the first messages of
  its newest connection, as many as were read of it (`MessagesAreWhole`); nothing was read
  of a connection before it was opened (`PeersAreFresh`).
- `WorldIndicesResolve`, `WorldInv`: sprites and animations stay below the number of
  textures and scenes within the lists. An index is looked up before it is stored;
  tables only grow, and `init`, which empties them, empties what names them too.
- `SoundsAreControlled`, `SoundInv`: `Controls`, the sink of an entry is a player made
  for it, with its volume; `Controlled`, a player that has not ended is the sink of the
  live entry it was made for. What plays a handle again, stops or releases it ends the
  player first.
- `TerminalIsRestored`, `PromptsInv`: a prompt has a guard just when its thread was not
  in TUI mode; without one it has left the mode alone. Raw mode is on only under a
  guard or while some thread is in TUI mode.
- `TargetsArePaintedBound`, `SurfacesInv`: the active target, and the target of the
  camera that drawing goes through, have been bound, and so have those of the cameras that
  `pushCameraState` keeps. They change together or in turn, in `set_render_target`, the
  camera functions and the frame loop.
- `DisplaysAreReplacedWhole`, `DisplaysInv`: `Tidy` relates the height that each slot
  remembers to the lines of its display on the terminal, while nothing else was
  printed below them.
- `TransactionsAreTheHandles`, `DatabaseInv`: only a transaction has read or written. It
  says little by itself; the action property follows from it and from `ScriptRuns`,
  what running a script of any length does to a connection.
- `WidgetsStayInTheirBlocks`, `UiInv`: what the stack of open blocks says, flattened, is
  what has been issued since the frame began (`SaidInAll`). A block that ends
  joins the one under it, which is an equation between concatenations, for any depth.
- `ChangesReachTheirWatch`, `WatchInv`: `WatchSeen`, the events queued by the worker and,
  behind them, by the kernel tell every change that no drain has told; `WatchArmed`,
  the kernel watches a directory from the time `watchAdd` returns; `WatchCalls`, who
  waits for a worker holds the lock. `MergedTells` is about the debounce window: merging
  events of one path keeps what the last one says.
- `InputAgrees`, `InputInv`: what was told of the pointer is where it was at the last
  question, what was told and is still to tell of the wheel is its turn in this frame,
  and a switch pressed in this frame is down or was released in it. `ListsNameKeys`
  carries what holds of key codes over to the names in which lists and questions give
  them; it needs that no name is in the table twice (`NamesAreUnique`).
- `FillsPaintRegions`, `ImagesInv`: a slot is a picture or closed. The rest is a theorem
  about `flood_fill` on any picture (`FloodPaintsRegion`). `RegionIs`: the region, written
  as as many rounds of growth as there are points, is the least set that spreads from the
  seed, since a round without growth is the last one and there are no more points than
  rounds. `Floods`: what is painted is in the region, and next to it all is painted or on
  the stack; each turn takes one point off and a painted point puts four on, so after
  four turns for each point and one more the stack is empty.
- `RidersStay`, `PhysicsInv`: a standing player's wall is the one the last step landed on,
  with the place it had then. The rest is about one step from such a state, for a list of
  walls of any length: the carry puts the player where the platform has gone; a wall that
  it does not touch does nothing in any of the four phases; the platform itself catches the
  fall, in the phase of solid walls or in that of one-way platforms. It needs `ShortSteps`:
  the fall of one step from rest is at most the heights of player and wall by halves, and
  `GROUND_SNAP` at most the player's height. Both are how games are set up, and nothing
  in the code enforces them: it looks for overlaps after the move, so a longer fall goes
  through the platform.
- `SpritesAreAsSeen`, `SpritesInv`: a list names a sprite once at most. `collides` and the
  pictures on the screen are compared by what the camera does to a distance: it multiplies
  both sides by a positive number. What an update does to a sprite is a recursive
  function along the list, which moves it where its name is and nowhere else.
- `MapsLookAsTheirFiles`, `TilemapInv`: the lists of a loaded map are right for its file.
  The sorted tilesets are all the usable ones of the file, in ascending order, because an
  ascending enumeration of a finite set exists (`AscendingIs`); so the last one that begins
  at or before a tile is that tile's (`SelectedTileset`). Two numbers differ in row or
  column of the atlas and hence by a tile and its spacing at least, and two positions of a
  layer are ordered as their rows and columns are (`CellsApart`, `TilesStandInRows`), from
  what division with remainder is. It is about files whose tilesets begin with different
  tiles, as Tiled writes them (`TilemapAssumption`): of two that begin with the same one,
  `load_tilemap` never takes the first.
- `SubjectsAreKept`, `RegexInv`: a result is the right one for its call. What each scan
  computes exists because it goes on further right (`RankedRecursion`: a function whose
  value depends on values of lower rank only). That no part of the subject is lost is
  shown from its end backwards (`Downwards`): what replacing a match by itself, or a split
  with the separators, gives from a position on is the subject from there on. Replacing by
  nothing and splitting stop at the same match, so one is the other joined together
  (`ReplacedByNothing`). What `replace_manual` keeps and what it leaves out are as long
  together as the subject up to each match (`Balanced`), for any number of matches.

The library's induction theorems cannot be instantiated by the installed provers.
`Least` takes their place: a non-empty set of numbers has a least element, which
follows from the well-foundedness of `<`. What a recursive function computes is proved
by looking at the least number at which it would be something else (`CommandsExist`,
`ScriptRuns`, `MergedTells`, and `LoopAnswers` of `OwnershipProofs`). `Induction`, over a
set instead of a predicate, and `RecursionExists`, that a function defined by what it does
to its last value exists, follow from it; the images and the input use these.

Proved, and in no run of their own: the types of the modules with proofs
(`TypeCorrect`), `NeverEvaluateAtOnce` and `BlockedReleaseTheLock` of `NativeThreads`,
`BlockedReleaseTheLock` of `AsyncTasks`, `NeverEvaluateAtOnce`, `OnlyTheOwnerReleases`
and `WaitersAreCounted` of `SyncObjects`, and the refinement of `Evaluation` by
`AsyncTasks`, `SyncObjects` and `Server` (`HandedOver`, `Serialized`).

Only model-checked: liveness (`ProgramEnds`, `FreeMutexIsTaken`, `StopReturns`),
because TLAPS does not reason about ENABLED; and the properties of the three
native modules that only `NativeModulesMC` has, `TemplatesParseBack`,
`UnknownVariablesAreErrors` and `CallsKeepTheirValues`. The parser and the renderer of
templates, and the types of nested structures in native calls, are RECURSIVE operators
over trees, which TLAPS cannot take.

## 5 What the code does not do

Each of these is a run that TLC ends with a counterexample.

| Run | What happens | Said otherwise in |
| --- | --- | --- |
| `ownership_constant` | `const int x`, `varBorrowMutate(x, y)`, `y = 2` changes `x` | `docs/language.md:129` |
| `threads_exit` | a thread started by a thread that is being reaped outlives `executeProgram` | `ast.cpp:2444`, `docs/builtins.md:504` |
| `async_exit` | the reaper joins a task that another task awaits; one of the two joins throws past `lockInterpreter`, and its thread goes on without the lock | `docs/async.md:3` |

More statements of the documentation are written down in the modules and refuted by
TLC when given to it as an invariant of the instance named, without a configuration here:

| Property | What happens | Instance | Said otherwise in |
| --- | --- | --- | --- |
| `OwnershipProperties!BeingBorrowedIsTrue` | a parameter or local that borrows an outer variable dies with its scope; `popScope` (`runtime.cpp:28`) leaves its name behind, so the outer one stays "being borrowed", cannot be moved any more, and cannot be written if the borrow was read-only | `ownership_calls`, with `CallsSpec` | `docs/language.md:167` |
| `NativeThreadsProperties!LocalsDoNotLeak` | a method throws: `runClassMethod` (`ast.cpp:843`) catches `ReturnControl` alone, its scope stays, and whoever catches the exception goes on with the method's locals in sight | `threads` without starters and fairness, 2 calls a thread | `docs/language.md:344` |
| `NativeThreadsProperties!InnermostScopeIsOwn` | threads that alternate at yields push and pop one stack, so a local may be declared in, and dropped with, another thread's scope | `threads` without fairness, 2 calls a thread | `docs/language.md:344`, `builtins.cpp:4761` |
| `SyncObjectsProperties!ClosedConditionHasNoWaiter` | a condition is closed under a thread that has called wait and is not yet counted | `sync` | `docs/builtins.md:524` |
| `ServerProperties!AnsweredByTheirRoute` | one thread is in `run` and has the handle, another one stops, clears the routes and registers a new one; the listener still runs and looks the index it had planned up in the new table (`server/src/lib.rs:757`) | `server_stop` | `examples/stdlib_server.lynx:59` |
| `TemplateRenderer!MacroArgumentsAreErrors` | the call of a macro goes on with the next node (`template.rs:889`) and skips the look at the pending error, and `render_with` does not look: an unknown argument of a macro that prints nothing, called in the last node, is no error | a template with such a call at its end | `docs/stdlib/server.md:118` |

`PlannedRoutesMatch` and `UnknownVariablesAreErrors`, which hold, leave just these two
last cases out.

What else was met while modelling. The models follow the code in each case.

- Ownership, threads, tasks: a transfer into a variable that is being borrowed is
  accepted, although `docs/language.md:156` says otherwise; a native thread that
  joins itself goes on without the lock; an integer that equals a live handle is
  awaited; two tasks that await each other get an error where `docs/async.md:35`
  expects a deadlock; a redeclaration of a shared name forgets its borrower;
  ending a borrow in the middle of a chain leaves stale names; `varTransferMutate`
  into a borrower loses the value; a detach after the worker's last look at its
  flag leaks the handle.
- Frame loops: `graphics` ignores a failed `start`, and its error is thrown by the
  next native call (`ast.cpp:139-142`).
- Graphics: the first turtle is handle 0, where the comments say that handles count
  from 1; `turtle_home` is missing from the list of `docs/stdlib/graphics.md:63`.
- Game: an update of a scene moves a sprite that stands in two of its lists twice;
  an animated sprite whose later file is missing leaves the textures loaded before;
  a player that rests exactly on a flat wall counts as overlapping it sideways.
  A solid sprite that is turned is drawn unturned (`sprites.rs:52`), while collisions turn
  its box as `sprites.rs:3-5` says they match what is drawn.
  `game.keyUp` is 0 without a window and 1 for an unknown name; a turn of the wheel
  in a frame in which nobody asks is lost.
- Tile maps: Tiled's diagonal flip is drawn as a quarter turn; a tileset without a
  size is dropped, and its tiles may go to the one before it.
- Templates: `default` takes any pending error, also one that came before its own
  base (the variable `stolen`); an unknown argument of a macro may be lost
  (`passed`, see above); the `else` of a `for` becomes part of the body; an
  unclosed body runs to the end.
- Watch: an overflow drops events; on Windows a remove can meet the worker between
  its look at `stop` and the next read.
- Terminal: `askPassword` leaves the terminal in normal mode in TUI mode too, and
  raw mode, which is the process's, is remembered by thread; a slot that was freed
  is given again, so that a stale handle names a new display.
- Sound: playing a streamed handle whose file is gone stops what it played before.
- Databases: a script that fails half way leaves its handle's transaction open;
  threads that share a handle share its transaction.
- Native calls: a `uint64` value is refused by a `uint64` parameter; packed integers
  are rounded beyond 2^53; a result that cannot be used fails the call after the
  callee has run.

## 6 What is left out

Of the modelled components: types other than the four, generic aliases, records
and lists (values are opaque); initializers with side effects; `setVariableRaw`
and lambda captures; the text of a failed callback; the order of an
`unordered_map` snapshot (any order is possible in the model); a detach in the middle of
another thread's join of the same one (undefined behaviour; in the model it comes before
that join has looked whether the thread is joinable); threads and
tasks in one program, where threads are reaped before tasks. Of the native
modules, what section 2 calls abstracted or external; the kqueue back end of
`watch`; WAL, `:memory:` and the busy timeout of SQLite; escaping by context in
templates; wrapped lines in the terminal; pixels, shapes, fonts and shaders;
particles and path finding in `game`.

Of the system, with the reason:

- Async polls and the memory registry: every call makes one change to a table
  under the lock; what could go wrong is the kernel's behaviour of descriptors, or
  of raw memory, which a model would have to invent.
- Module imports: one thread, one table of names. A failing setup leaves its module
  marked as imported (`ast.cpp:2685`), which is a hazard in `PROJECT.json` that no
  property covers, as is a `finally` block that replaces a pending request
  (`ast.cpp:2047`).
- Numeric types beyond what ownership asks, and the optimizer: functions of their
  arguments over trees; tests and differential runs cover them better.
- Lexer, parser, lint, formatter, debugger, shell, bundles, platform layers,
  language server: sequential work on text and files.
- `raylib`: generated wrappers, one for each function of the library. The data
  formats and encodings: conversions without a state around third-party libraries.

## 7 The plan

Done, in this order: ownership; threads, tasks and synchronization objects under
the interpreter lock; the server; callbacks and deferred errors; the native modules
with a state; the proofs of section 4. What would add most next:

1. `NativeThreads` and `AsyncTasks` composed at exit.
2. Exceptions and `finally` against pending exit requests, and imports that fail.
3. `NativeCalls` among the modules that are proved about: a call keeps its values for any
   signature, with the checks of each type as recursive functions on the depth of a value.
