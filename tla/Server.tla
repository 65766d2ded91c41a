------------------------------- MODULE Server -------------------------------
(***************************************************************************)
(* The HTTP server of the native module `server` (rust/server/src/lib.rs): *)
(* routes and configuration behind one mutex (STATE), a server thread per  *)
(* listener, requests that a listener answers one after the other, and     *)
(* route callbacks that run Lynxer code under the interpreter lock.        *)
(*                                                                         *)
(* A step is what one holder of STATE does before it lets go.  An actor is *)
(* an interpreter thread or a server thread inside a callback; it calls    *)
(* the module's functions while it holds the interpreter lock.             *)
(***************************************************************************)
EXTENDS Naturals, Sequences

CONSTANTS Interps,      \* interpreter threads
          Main,         \* the one that evaluates first
          Servers,      \* identities of server threads, in the order of start
          Requests,     \* the requests clients may send
          PathOf,       \* [Requests -> Paths]
          MethodOf,     \* [Requests -> Methods \cup {"HEAD", "OPTIONS", ...}]
          Paths,
          RouteMenu,    \* the routes a program registers: [methods, path, kind]
          WsMenu,       \* the WebSocket paths it registers
          TreeMenu,     \* the prefixes it serves static files under
          Styles,       \* error pages, headers, folder and logging: one value
          None          \* no thread, no request, no server, no response

Methods == {"GET", "POST", "PUT", "DELETE", "PATCH"}
Kinds == {"text", "template", "file", "redirect", "echo", "callback"}
Actors == Interps \cup Servers

\* struct Server: its thread, and whether the shutdown sender and the join
\* handle are still there.
ServerRecord == [thread : Servers, shutdown : BOOLEAN, joinable : BOOLEAN]
Response == [status : Nat, by : RouteMenu \cup {None}, body : Requests \cup {None}]

ASSUME ServerAssumption ==
    /\ Main \in Interps
    /\ Interps \cap Servers = {}
    /\ None \notin Actors \cup Requests \cup ServerRecord
    /\ PathOf \in [Requests -> Paths]
    /\ DOMAIN MethodOf = Requests
    /\ RouteMenu \subseteq [methods : SUBSET Methods, path : Paths, kind : Kinds]

VARIABLES
    holder,     \* the interpreter lock
    pc,         \* where each actor is
    joining,    \* the server thread that run or stop of an actor waits for
    routes,     \* STATE.routes
    wsPaths,    \* STATE.ws_paths
    trees,      \* prefixes of STATE.config.static_trees
    config,     \* the rest of STATE.config
    last,       \* STATE.config.last_request
    server,     \* STATE.server
    router,     \* the WebSocket paths a server thread was started with
    ending,     \* the server threads whose shutdown sender has fired
    tls,        \* the server threads that serve TLS
    at,         \* the server thread a request was sent to
    serving,    \* the request a server thread is answering
    planned,    \* the index it found in routes
    current,    \* CURRENT_REQUEST of each actor
    reply,      \* CALLBACK_RESPONSE of each server thread
    answer,     \* the responses
    crashed     \* the process has aborted

state == <<routes, wsPaths, trees, config, last>>
clients == <<at, answer>>
dispatching == <<serving, planned, current, reply>>
listeners == <<router, ending, tls>>
vars == <<holder, pc, joining, state, server, listeners, clients, dispatching, crashed>>

Recorded(t) == server # None /\ server.thread = t
Answer(status, by, body) == [status |-> status, by |-> by, body |-> body]

TypeOK ==
    /\ holder \in Actors \cup {None}
    /\ pc \in [Actors -> {"none", "boot", "serve", "plan", "call", "eval",
                          "parked", "took", "run", "stop", "relock", "clear", "ended"}]
    /\ joining \in [Actors -> Servers \cup {None}]
    /\ routes \in Seq(RouteMenu)
    /\ wsPaths \subseteq WsMenu /\ trees \subseteq TreeMenu
    /\ config \in [cors : BOOLEAN, site : BOOLEAN, port : BOOLEAN, style : Styles]
    /\ last \in Requests \cup {None}
    /\ server \in ServerRecord \cup {None}
    /\ router \in [Servers -> SUBSET WsMenu]
    /\ ending \subseteq Servers /\ tls \subseteq Servers
    /\ at \in [Requests -> Servers \cup {None}]
    /\ serving \in [Servers -> Requests \cup {None}]
    /\ planned \in [Servers -> Nat]
    /\ current \in [Actors -> Requests \cup {None}]
    /\ reply \in [Servers -> Requests \cup {None}]
    /\ answer \in [Requests -> Response \cup {None}]
    /\ crashed \in BOOLEAN

Init ==
    /\ holder = Main
    /\ pc = [a \in Actors |-> CASE a = Main -> "eval" [] a \in Servers -> "none"
                                [] OTHER -> "parked"]
    /\ joining = [a \in Actors |-> None]
    /\ routes = <<>> /\ wsPaths = {} /\ trees = {}
    /\ config \in [cors : {FALSE}, site : {FALSE}, port : {FALSE}, style : Styles]
    /\ last = None /\ server = None
    /\ router = [t \in Servers |-> {}]
    /\ ending = {} /\ tls = {}
    /\ at = [r \in Requests |-> None]
    /\ serving = [t \in Servers |-> None]
    /\ planned = [t \in Servers |-> 0]
    /\ current = [a \in Actors |-> None]
    /\ reply = [t \in Servers |-> None]
    /\ answer = [r \in Requests |-> None]
    /\ crashed = FALSE

-----------------------------------------------------------------------------
(* The interpreter lock.                                                   *)

Evaluates(a) == holder = a /\ pc[a] = "eval" /\ ~crashed

\* A sleep or a yield of Lynxer code; the program decides when.
Yield(a) ==
    /\ Evaluates(a)
    /\ holder' = None
    /\ pc' = [pc EXCEPT ![a] = "parked"]
    /\ UNCHANGED <<joining, state, server, listeners, clients, dispatching, crashed>>

\* lynxerHostBlocking takes the lock again after the join, and
\* lynxerHostInvokeThreadsafe takes it before the callback.
Acquire(a) ==
    /\ holder = None /\ ~crashed
    /\ pc[a] \in {"parked", "call", "relock", "clear"}
    /\ holder' = a
    /\ pc' = [pc EXCEPT ![a] = "eval"]
    /\ server' = IF pc[a] = "clear" THEN None ELSE server
    /\ joining' = [joining EXCEPT ![a] = None]
    /\ UNCHANGED <<state, listeners, clients, dispatching, crashed>>

-----------------------------------------------------------------------------
(* Registration and configuration: what the functions answer with an error *)
(* leaves everything as it is and is no step.                              *)

\* request_flag: HEAD is served by GET routes, other methods by none.
Flag(r) == CASE MethodOf[r] = "HEAD" -> {"GET"}
             [] MethodOf[r] \in Methods -> {MethodOf[r]}
             [] OTHER -> {}

has_route(methods, path) ==
    \E i \in DOMAIN routes : routes[i].path = path /\ routes[i].methods \cap methods # {}

Stopped(a) == Evaluates(a) /\ server = None

register(a, route) ==
    /\ Stopped(a)
    /\ ~has_route(route.methods, route.path)
    /\ routes' = Append(routes, route)
    /\ UNCHANGED <<holder, pc, joining, wsPaths, trees, config, last, server,
                   listeners, clients, dispatching, crashed>>

ws_echo(a, path) ==
    /\ Stopped(a)
    /\ path \notin wsPaths
    /\ wsPaths' = wsPaths \cup {path}
    /\ UNCHANGED <<holder, pc, joining, routes, trees, config, last, server,
                   listeners, clients, dispatching, crashed>>

static_files(a, prefix) ==
    /\ Stopped(a)
    /\ trees' = trees \cup {prefix}
    /\ UNCHANGED <<holder, pc, joining, routes, wsPaths, config, last, server,
                   listeners, clients, dispatching, crashed>>

static_site(a) ==
    /\ Stopped(a)
    /\ config' = [config EXCEPT !.site = TRUE]
    /\ UNCHANGED <<holder, pc, joining, routes, wsPaths, trees, last, server,
                   listeners, clients, dispatching, crashed>>

clear_routes(a) ==
    /\ Stopped(a)
    /\ routes' = <<>> /\ wsPaths' = {} /\ trees' = {}
    /\ config' = [config EXCEPT !.site = FALSE]
    /\ UNCHANGED <<holder, pc, joining, last, server, listeners, clients,
                   dispatching, crashed>>

\* cors, corsOrigin, addGlobalHeader, enableRequestLog, setDebug,
\* setTemplateFolder and the error pages: allowed while the server runs.
configure(a, cors, style) ==
    /\ Evaluates(a)
    /\ config.cors => cors
    /\ config' = [config EXCEPT !.cors = cors, !.style = style]
    /\ UNCHANGED <<holder, pc, joining, routes, wsPaths, trees, last, server,
                   listeners, clients, dispatching, crashed>>

\* init(host, port), with a port in range.
server_init(a) ==
    /\ Stopped(a)
    /\ config' = [config EXCEPT !.port = TRUE]
    /\ UNCHANGED <<holder, pc, joining, routes, wsPaths, trees, last, server,
                   listeners, clients, dispatching, crashed>>

-----------------------------------------------------------------------------
(* The life of a server.                                                   *)

\* The identity of the next server thread (any will do, so one is chosen).  A
\* failed bind, a bad certificate or a bad port answers with an error and
\* starts nothing.
Fresh(t) == pc[t] = "none" /\ t = CHOOSE u \in Servers : pc[u] = "none"

StartThread(a, t, mode, next) ==
    /\ server' = [thread |-> t, shutdown |-> TRUE, joinable |-> TRUE]
    /\ pc' = [pc EXCEPT ![t] = "boot", ![a] = next]
    /\ router' = [router EXCEPT ![t] = wsPaths]
    /\ tls' = IF mode = "tls" THEN tls \cup {t} ELSE tls
    /\ UNCHANGED <<holder, joining, state, ending, clients, dispatching, crashed>>

start_server(a, t) == Stopped(a) /\ Fresh(t) /\ StartThread(a, t, "plain", "eval")

\* runHTTPS and runSSLAdhoc: the port of init, and they do not block.
start_server_tls(a, t) ==
    /\ Stopped(a) /\ Fresh(t)
    /\ config.port
    /\ StartThread(a, t, "tls", "eval")

\* run, up to the point where it has started the server thread ...
server_run(a, t) ==
    /\ Stopped(a) /\ Fresh(t)
    /\ config.port
    /\ StartThread(a, t, "plain", "took")

\* ... then it takes the thread's handle and joins it without the lock.
run_takes_thread(a) ==
    /\ holder = a /\ pc[a] = "took" /\ ~crashed
    /\ IF server # None /\ server.joinable
       THEN /\ server' = [server EXCEPT !.joinable = FALSE]
            /\ joining' = [joining EXCEPT ![a] = server.thread]
            /\ pc' = [pc EXCEPT ![a] = "run"]
            /\ holder' = None
       ELSE /\ pc' = [pc EXCEPT ![a] = "eval"]
            /\ UNCHANGED <<holder, joining, server>>
    /\ UNCHANGED <<state, listeners, clients, dispatching, crashed>>

\* A mistake: a second stop is not told that the server is stopping already.
server_stop_twice(a) ==
    /\ Evaluates(a)
    /\ server # None
    /\ ending' = ending \cup {server.thread}
    /\ IF ~server.joinable
       THEN server' = None /\ UNCHANGED <<holder, pc, joining, crashed>>
       ELSE /\ server' = [server EXCEPT !.shutdown = FALSE, !.joinable = FALSE]
            /\ crashed' = (server.thread = a)
            /\ holder' = None
            /\ joining' = [joining EXCEPT ![a] = server.thread]
            /\ pc' = [pc EXCEPT ![a] = "stop"]
    /\ UNCHANGED <<state, router, tls, clients, dispatching>>

\* A mistake: stop joins without releasing the interpreter lock.
server_stop_with_lock(a) ==
    /\ Evaluates(a)
    /\ server # None /\ server.shutdown
    /\ ending' = ending \cup {server.thread}
    /\ IF ~server.joinable
       THEN server' = None /\ UNCHANGED <<pc, joining, crashed>>
       ELSE /\ server' = [server EXCEPT !.shutdown = FALSE, !.joinable = FALSE]
            /\ crashed' = (server.thread = a)
            /\ joining' = [joining EXCEPT ![a] = server.thread]
            /\ pc' = [pc EXCEPT ![a] = "stop"]
    /\ UNCHANGED <<holder, state, router, tls, clients, dispatching>>

\* A mistake: stop clears STATE.server before it joins.
server_stop_clears_first(a) ==
    /\ Evaluates(a)
    /\ server # None /\ server.shutdown
    /\ ending' = ending \cup {server.thread}
    /\ server' = None
    /\ IF ~server.joinable
       THEN UNCHANGED <<holder, pc, joining, crashed>>
       ELSE /\ crashed' = (server.thread = a)
            /\ holder' = None
            /\ joining' = [joining EXCEPT ![a] = server.thread]
            /\ pc' = [pc EXCEPT ![a] = "stop"]
    /\ UNCHANGED <<state, router, tls, clients, dispatching>>

\* stop takes the shutdown sender and, unless run has it, the thread.  A
\* callback of that same thread would join itself: JoinHandle::join panics
\* inside an extern "C" function, which aborts the process.
server_stop(a) ==
    /\ Evaluates(a)
    /\ server # None /\ server.shutdown
    /\ ending' = ending \cup {server.thread}
    /\ IF ~server.joinable
       THEN server' = None /\ UNCHANGED <<holder, pc, joining, crashed>>
       ELSE /\ server' = [server EXCEPT !.shutdown = FALSE, !.joinable = FALSE]
            /\ crashed' = (server.thread = a)
            /\ holder' = None
            /\ joining' = [joining EXCEPT ![a] = server.thread]
            /\ pc' = [pc EXCEPT ![a] = "stop"]
    /\ UNCHANGED <<state, router, tls, clients, dispatching>>

\* The join returns; stop then clears STATE.server, run does not.
Joined(a) ==
    /\ pc[a] \in {"run", "stop"} /\ ~crashed
    /\ pc[joining[a]] = "ended"
    /\ pc' = [pc EXCEPT ![a] = IF pc[a] = "stop" THEN "clear" ELSE "relock"]
    /\ UNCHANGED <<holder, joining, state, server, listeners, clients,
                   dispatching, crashed>>

\* The runtime or the listener cannot be set up: the thread ends at once and
\* nobody clears STATE.server.
Boot(t) ==
    /\ pc[t] = "boot" /\ ~crashed
    /\ \E next \in {"serve", "ended"} : pc' = [pc EXCEPT ![t] = next]
    /\ UNCHANGED <<holder, joining, state, server, listeners, clients,
                   dispatching, crashed>>

Pending(t) == {r \in Requests : at[r] = t /\ answer[r] = None}

\* A graceful shutdown waits for the requests in flight; a TLS listener waits
\* for one second and drops the rest.
ServerEnds(t) ==
    /\ pc[t] = "serve" /\ t \in ending /\ ~crashed
    /\ t \in tls \/ Pending(t) = {}
    /\ pc' = [pc EXCEPT ![t] = "ended"]
    /\ UNCHANGED <<holder, joining, state, server, listeners, clients,
                   dispatching, crashed>>

-----------------------------------------------------------------------------
(* Requests.                                                               *)

\* The listener is bound before the server thread exists.
Send(r, t) ==
    /\ at[r] = None /\ ~crashed
    /\ pc[t] \notin {"none", "ended"} /\ t \notin ending
    /\ at' = [at EXCEPT ![r] = t]
    /\ UNCHANGED <<holder, pc, joining, state, server, listeners, answer,
                   dispatching, crashed>>

Matches(route, r) == route.path = PathOf[r] /\ route.methods \cap Flag(r) # {}

\* The first route with the request's path and method.
FirstMatch(i, r) == Matches(routes[i], r) /\ \A j \in 1..(i - 1) : ~Matches(routes[j], r)

\* dispatch's plan for a request no route matches: the responses it may get.
\* A file that cannot be read is answered 404.
Unrouted(r) ==
    CASE MethodOf[r] = "OPTIONS" -> {IF config.cors THEN 204 ELSE 405}
      [] Flag(r) = {} -> {405}
      [] \E i \in DOMAIN routes : routes[i].path = PathOf[r] -> {405}
      [] PathOf[r] \in trees \/ config.site -> {200, 404}
      [] OTHER -> {404}

Finish(t, r, response) ==
    /\ answer' = [answer EXCEPT ![r] = response]
    /\ serving' = [serving EXCEPT ![t] = None]
    /\ planned' = [planned EXCEPT ![t] = 0]
    /\ pc' = [pc EXCEPT ![t] = "serve"]

\* A server thread answers one request at a time: its runtime is single
\* threaded and nothing awaits after the body has been read.
dispatch(t, r) ==
    /\ pc[t] = "serve" /\ r \in Pending(t) /\ ~crashed
    /\ ~(MethodOf[r] = "GET" /\ PathOf[r] \in router[t])
    /\ last' = IF MethodOf[r] = "OPTIONS" THEN last ELSE r
    /\ \/ \E i \in DOMAIN routes :
             /\ FirstMatch(i, r)
             /\ serving' = [serving EXCEPT ![t] = r]
             /\ planned' = [planned EXCEPT ![t] = i]
             /\ pc' = [pc EXCEPT ![t] = "plan"]
             /\ UNCHANGED answer
       \/ /\ \A i \in DOMAIN routes : ~Matches(routes[i], r)
          /\ \E status \in Unrouted(r) : Finish(t, r, Answer(status, None, None))
    /\ UNCHANGED <<holder, joining, routes, wsPaths, trees, config, server,
                   listeners, at, current, reply, crashed>>

\* The WebSocket paths of build_router answer without dispatch.
ws_handler(t, r) ==
    /\ pc[t] = "serve" /\ r \in Pending(t) /\ ~crashed
    /\ MethodOf[r] = "GET" /\ PathOf[r] \in router[t]
    /\ Finish(t, r, Answer(101, None, None))
    /\ UNCHANGED <<holder, joining, state, server, listeners, at, current, reply, crashed>>

\* The statuses of a route that needs no callback; template and file routes
\* read files and may fail.
Statuses(kind) == CASE kind = "template" -> {200, 500}
                    [] kind = "file" -> {200, 404}
                    [] kind = "redirect" -> {302}
                    [] OTHER -> {200}

\* The route is looked up again, by the index planned.
route_response(t) ==
    /\ pc[t] = "plan" /\ ~crashed
    /\ LET r == serving[t]
       IN  IF planned[t] \notin DOMAIN routes
           THEN /\ Finish(t, r, Answer(404, None, None))
                /\ UNCHANGED <<current, reply>>
           ELSE LET route == routes[planned[t]]
                IN  IF route.kind = "callback"
                    THEN /\ current' = [current EXCEPT ![t] = r]
                         /\ reply' = [reply EXCEPT ![t] = None]
                         /\ pc' = [pc EXCEPT ![t] = "call"]
                         /\ UNCHANGED <<answer, serving, planned>>
                    ELSE /\ \E status \in Statuses(route.kind) :
                               Finish(t, r, Answer(status, route,
                                   IF route.kind = "echo" THEN r ELSE None))
                         /\ UNCHANGED <<current, reply>>
    /\ UNCHANGED <<holder, joining, state, server, listeners, at, crashed>>

\* A mistake: readers inside a callback see the last request of all.
last_request_of_all(a) == last

\* What getPath and the other readers see.
last_request(a) == IF current[a] # None THEN current[a] ELSE last

\* A handler that answers with what it reads of its request.
server_respond(a) ==
    /\ Evaluates(a)
    /\ current[a] # None
    /\ reply' = [reply EXCEPT ![a] = last_request(a)]
    /\ UNCHANGED <<holder, pc, joining, state, server, listeners, clients,
                   serving, planned, current, crashed>>

\* The callback returns or fails: its slots are taken back, then the response
\* is 500 after an error, 204 without a reply.
run_route_callback(t) ==
    /\ t \in Servers /\ Evaluates(t)
    /\ \E failed \in BOOLEAN :
          LET status == IF failed THEN 500 ELSE IF reply[t] = None THEN 204 ELSE 200
          IN  Finish(t, serving[t], Answer(status, None, IF failed THEN None ELSE reply[t]))
    /\ holder' = None
    /\ current' = [current EXCEPT ![t] = None]
    /\ reply' = [reply EXCEPT ![t] = None]
    /\ UNCHANGED <<joining, state, server, listeners, at, crashed>>

-----------------------------------------------------------------------------
Registration(a) ==
    \/ \E route \in RouteMenu : register(a, route)
    \/ \E path \in WsMenu : ws_echo(a, path)
    \/ \E path \in TreeMenu : static_files(a, path)
    \/ static_site(a)
    \/ clear_routes(a)
    \/ \E cors \in BOOLEAN, style \in Styles : configure(a, cors, style)
    \/ server_init(a)

LifeCycle(a) ==
    \/ \E t \in Servers : start_server(a, t)
    \/ \E t \in Servers : start_server_tls(a, t)
    \/ \E t \in Servers : server_run(a, t)
    \/ run_takes_thread(a)
    \/ server_stop(a)
    \/ Joined(a)

Serve(t) ==
    \/ Boot(t)
    \/ ServerEnds(t)
    \/ \E r \in Requests : dispatch(t, r)
    \/ \E r \in Requests : ws_handler(t, r)
    \/ route_response(t)
    \/ run_route_callback(t)

Next ==
    \/ \E a \in Actors : Yield(a) \/ Acquire(a) \/ server_respond(a)
    \/ \E a \in Actors : Registration(a)
    \/ \E a \in Actors : LifeCycle(a)
    \/ \E t \in Servers : Serve(t)
    \/ \E r \in Requests, t \in Servers : Send(r, t)

Spec == Init /\ [][Next]_vars

\* Lynxer code yields the lock now and then, handlers return, the lock is
\* given to every thread that keeps asking for it, and threads run.
Fairness ==
    /\ \A a \in Actors : SF_vars(Acquire(a)) /\ WF_vars(Joined(a)) /\ WF_vars(run_takes_thread(a))
    /\ \A a \in Interps : WF_vars(Yield(a))
    /\ \A t \in Servers : WF_vars(Boot(t)) /\ WF_vars(ServerEnds(t)) /\ WF_vars(route_response(t))
    /\ \A t \in Servers : SF_vars(run_route_callback(t))
    /\ \A t \in Servers : WF_vars(\E r \in Requests : dispatch(t, r) \/ ws_handler(t, r))

FairSpec == Spec /\ Fairness
=============================================================================
