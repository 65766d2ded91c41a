---------------------------- MODULE ServerProofs ----------------------------
(***************************************************************************)
(* What holds of the server for any number of interpreter threads, server  *)
(* threads, routes and requests.                                           *)
(***************************************************************************)
EXTENDS ServerProperties, TLAPS

\* The pieces of Next, one name for each step the proofs go through.
ActorStep(a) ==
    \/ Yield(a) \/ Acquire(a) \/ server_respond(a)
    \/ Registration(a)
    \/ \E t \in Servers : start_server(a, t) \/ start_server_tls(a, t) \/ server_run(a, t)
    \/ run_takes_thread(a) \/ server_stop(a) \/ Joined(a)

ServerStep(t) ==
    \/ Boot(t) \/ ServerEnds(t) \/ route_response(t) \/ run_route_callback(t)
    \/ \E r \in Requests : dispatch(t, r) \/ ws_handler(t, r) \/ Send(r, t)

LEMMA NextCases ==
    Next => \/ \E a \in Actors : ActorStep(a)
            \/ \E t \in Servers : ServerStep(t)
  BY DEF Next, ActorStep, ServerStep, LifeCycle, Serve

(***************************************************************************)
(* Type correctness.                                                       *)
(***************************************************************************)
LEMMA TypeInit == Init => TypeOK
  <1> SUFFICES ASSUME Init PROVE TypeOK
    OBVIOUS
  <1> USE ServerAssumption
  <1>1. Main \in Actors /\ routes \in Seq(RouteMenu)
    BY DEF Init, Actors
  <1>2. pc \in [Actors -> {"none", "boot", "serve", "plan", "call", "eval",
                          "parked", "took", "run", "stop", "relock", "clear", "ended"}]
    BY DEF Init
  <1> QED
    BY <1>1, <1>2 DEF Init, TypeOK

\* TypeOK in two parts: what the program registers, and everything else.
ProgramType ==
    /\ routes \in Seq(RouteMenu)
    /\ wsPaths \subseteq WsMenu /\ trees \subseteq TreeMenu
    /\ config \in [cors : BOOLEAN, site : BOOLEAN, port : BOOLEAN, style : Styles]
    /\ last \in Requests \cup {None}

PcType == pc \in [Actors -> {"none", "boot", "serve", "plan", "call", "eval",
                             "parked", "took", "run", "stop", "relock", "clear", "ended"}]

RunType ==
    /\ holder \in Actors \cup {None}
    /\ joining \in [Actors -> Servers \cup {None}]
    /\ server \in ServerRecord \cup {None}
    /\ crashed \in BOOLEAN

RequestType ==
    /\ router \in [Servers -> SUBSET WsMenu]
    /\ ending \subseteq Servers /\ tls \subseteq Servers
    /\ at \in [Requests -> Servers \cup {None}]
    /\ serving \in [Servers -> Requests \cup {None}]
    /\ planned \in [Servers -> Nat]
    /\ current \in [Actors -> Requests \cup {None}]
    /\ reply \in [Servers -> Requests \cup {None}]
    /\ answer \in [Requests -> Response \cup {None}]

LEMMA TypeParts == TypeOK <=> ProgramType /\ PcType /\ RunType /\ RequestType
  BY DEF TypeOK, ProgramType, PcType, RunType, RequestType

LEMMA TypeRegistration ==
    ASSUME TypeOK, NEW a \in Actors, Registration(a) PROVE TypeOK'
  <1>1. ProgramType /\ PcType /\ RunType /\ RequestType
    BY TypeParts
  <1>2. UNCHANGED <<holder, pc, joining, server, listeners, clients, dispatching, crashed>>
    BY DEF Registration, register, ws_echo, static_files, static_site, clear_routes,
           configure, server_init
  <1>3. PcType' /\ RunType'
    BY <1>1, <1>2 DEF PcType, RunType
  <1>4. RequestType'
    BY <1>1, <1>2 DEF RequestType, listeners, clients, dispatching
  <1>5. routes' \in Seq(RouteMenu) /\ last' \in Requests \cup {None}
    <2>1. routes \in Seq(RouteMenu) /\ last \in Requests \cup {None}
      BY <1>1 DEF ProgramType
    <2>2. \A route \in RouteMenu : Append(routes, route) \in Seq(RouteMenu)
      BY <2>1
    <2>3. <<>> \in Seq(RouteMenu)
      OBVIOUS
    <2>4. \/ routes' = routes \/ routes' = <<>>
          \/ \E route \in RouteMenu : routes' = Append(routes, route)
      BY DEF Registration, register, ws_echo, static_files, static_site,
             clear_routes, configure, server_init
    <2>5. last' = last
      BY DEF Registration, register, ws_echo, static_files, static_site,
             clear_routes, configure, server_init
    <2> QED
      BY <2>1, <2>2, <2>3, <2>4, <2>5
  <1>6. wsPaths' \subseteq WsMenu /\ trees' \subseteq TreeMenu
    BY <1>1 DEF ProgramType, Registration, register, ws_echo, static_files, static_site,
                clear_routes, configure, server_init
  <1>7. config' \in [cors : BOOLEAN, site : BOOLEAN, port : BOOLEAN, style : Styles]
    <2> DEFINE Configs == [cors : BOOLEAN, site : BOOLEAN, port : BOOLEAN, style : Styles]
    <2>1. config \in Configs
      BY <1>1 DEF ProgramType
    <2>2. ASSUME NEW cors \in BOOLEAN, NEW style \in Styles
          PROVE  [config EXCEPT !.cors = cors, !.style = style] \in Configs
      BY <2>1
    <2>3. [config EXCEPT !.site = TRUE] \in Configs /\ [config EXCEPT !.site = FALSE] \in Configs
      BY <2>1
    <2>4. [config EXCEPT !.port = TRUE] \in Configs
      BY <2>1
    <2> HIDE DEF Configs
    <2>5. \/ config' = config
          \/ config' = [config EXCEPT !.site = TRUE] \/ config' = [config EXCEPT !.site = FALSE]
          \/ config' = [config EXCEPT !.port = TRUE]
          \/ \E cors \in BOOLEAN, style \in Styles :
                config' = [config EXCEPT !.cors = cors, !.style = style]
      BY DEF Registration, register, ws_echo, static_files, static_site, clear_routes,
             configure, server_init
    <2>6. config' \in Configs
      BY <2>1, <2>2, <2>3, <2>4, <2>5, ZenonT(60)
    <2> QED
      BY <2>6 DEF Configs
  <1> QED
    BY <1>3, <1>4, <1>5, <1>6, <1>7 DEF TypeOK, PcType, RunType, RequestType

LEMMA TypeActorStep ==
    ASSUME TypeOK, NEW a \in Actors, ActorStep(a) PROVE TypeOK'
  <1>1. ProgramType /\ PcType /\ RunType /\ RequestType
    BY TypeParts
  <1>2. CASE Registration(a)
    BY <1>2, TypeRegistration
  <1>3. ASSUME ~Registration(a)
        PROVE  ProgramType' /\ RequestType'
    <2>1. ProgramType'
      BY <1>1, <1>3 DEF ProgramType, ActorStep, Yield, Acquire, server_respond, start_server,
           start_server_tls, server_run, StartThread, run_takes_thread, server_stop, Joined, state
    <2>2. router' \in [Servers -> SUBSET WsMenu] /\ tls' \subseteq Servers
      BY <1>1, <1>3 DEF RequestType, ProgramType, ActorStep, Yield, Acquire, server_respond,
           start_server, start_server_tls, server_run, StartThread, run_takes_thread,
           server_stop, Joined, listeners
    <2>3. ending' \subseteq Servers
      BY <1>1, <1>3, ServerAssumption
         DEF ServerRecord, RequestType, RunType, ActorStep, Yield, Acquire, server_respond,
           start_server, start_server_tls, server_run, StartThread, run_takes_thread,
           server_stop, Joined, listeners
    <2>4. UNCHANGED <<clients, serving, planned, current>>
      BY <1>3 DEF ActorStep, Yield, Acquire, server_respond,
           start_server, start_server_tls, server_run, StartThread, run_takes_thread,
           server_stop, Joined, dispatching
    <2>5. reply' \in [Servers -> Requests \cup {None}]
      BY <1>1, <1>3 DEF RequestType, ProgramType, ActorStep, Yield, Acquire, server_respond,
           start_server, start_server_tls, server_run, StartThread, run_takes_thread,
           server_stop, Joined, dispatching, last_request
    <2> QED
      BY <1>1, <2>1, <2>2, <2>3, <2>4, <2>5 DEF RequestType, clients
  <1>4. ASSUME ~Registration(a)
        PROVE  PcType' /\ RunType'
    <2>1. PcType'
      BY <1>1, <1>3, <1>4 DEF PcType, ActorStep, Yield, Acquire, server_respond,
           start_server, start_server_tls, server_run, StartThread, run_takes_thread,
           server_stop, Joined
    <2>2. holder' \in Actors \cup {None}
      BY <1>1, <1>4 DEF RunType, ActorStep, Yield, Acquire, server_respond,
           start_server, start_server_tls, server_run, StartThread, run_takes_thread,
           server_stop, Joined
    <2>3. joining' \in [Actors -> Servers \cup {None}]
      BY <1>1, <1>4, ServerAssumption DEF ServerRecord, RunType, ActorStep, Yield, Acquire, server_respond,
           start_server, start_server_tls, server_run, StartThread, run_takes_thread,
           server_stop, Joined
    <2>4. server' \in ServerRecord \cup {None}
      <3>1. server \in ServerRecord \cup {None}
        BY <1>1 DEF RunType
      <3>2. CASE Yield(a) \/ Acquire(a) \/ server_respond(a) \/ Joined(a)
        BY <3>1, <3>2 DEF Yield, Acquire, server_respond, Joined
      <3>3. CASE \E t \in Servers : start_server(a, t) \/ start_server_tls(a, t) \/ server_run(a, t)
        <4>1. PICK t \in Servers : server' = [thread |-> t, shutdown |-> TRUE, joinable |-> TRUE]
          BY <3>3 DEF start_server, start_server_tls, server_run, StartThread
        <4> QED
          BY <4>1 DEF ServerRecord
      <3>4. CASE run_takes_thread(a)
        BY <3>1, <3>4 DEF ServerRecord, run_takes_thread
      <3>5. CASE server_stop(a)
        <4>1. server \in ServerRecord
          BY <3>1, <3>5 DEF server_stop
        <4>2. [server EXCEPT !.shutdown = FALSE, !.joinable = FALSE]
                \in ServerRecord
          BY <4>1 DEF ServerRecord
        <4> QED
          BY <3>5, <4>2 DEF server_stop
      <3> QED
        BY <1>4, <3>2, <3>3, <3>4, <3>5 DEF ActorStep
    <2>5. crashed' \in BOOLEAN
      BY <1>1, <1>4, ServerAssumption DEF RunType, ActorStep, Yield, Acquire, server_respond,
           start_server, start_server_tls, server_run, StartThread, run_takes_thread,
           server_stop, Joined
    <2> QED
      BY <2>1, <2>2, <2>3, <2>4, <2>5 DEF RunType
  <1> QED
    BY <1>2, <1>3, <1>4 DEF TypeOK, ProgramType, PcType, RunType, RequestType

LEMMA TypeServerStep ==
    ASSUME TypeOK, NEW t \in Servers, ServerStep(t) PROVE TypeOK'
  <1> USE ServerAssumption DEF Actors
  <1>1. ProgramType /\ PcType /\ RunType /\ RequestType
    BY TypeParts
  <1>2. ProgramType'
    BY <1>1 DEF ProgramType, ServerStep, Boot, ServerEnds, route_response, run_route_callback,
                dispatch, ws_handler, Send, state
  <1>3. PcType'
    BY <1>1 DEF PcType, ServerStep, Boot, ServerEnds, route_response, run_route_callback,
                dispatch, ws_handler, Send, Finish
  <1>4. RunType'
    BY <1>1 DEF RunType, ServerStep, Boot, ServerEnds, route_response, run_route_callback,
                dispatch, ws_handler, Send
  <1>5. router' \in [Servers -> SUBSET WsMenu] /\ ending' \subseteq Servers /\ tls' \subseteq Servers
    BY <1>1 DEF RequestType, ServerStep, Boot, ServerEnds, route_response, run_route_callback,
                dispatch, ws_handler, Send, listeners
  <1>6. at' \in [Requests -> Servers \cup {None}]
    BY <1>1 DEF RequestType, ServerStep, Boot, ServerEnds, route_response, run_route_callback,
                dispatch, ws_handler, Send, clients
  <1>7. serving' \in [Servers -> Requests \cup {None}]
    BY <1>1 DEF RequestType, ServerStep, Boot, ServerEnds, route_response, run_route_callback,
                dispatch, ws_handler, Send, dispatching, Finish
  <1>8. planned' \in [Servers -> Nat]
    <2>1. planned \in [Servers -> Nat] /\ DOMAIN routes \subseteq Nat
      BY <1>1 DEF RequestType, ProgramType
    <2>2. \/ planned' = planned
          \/ \E i \in DOMAIN routes \cup {0} : planned' = [planned EXCEPT ![t] = i]
      BY DEF ServerStep, Boot, ServerEnds, route_response, run_route_callback,
             dispatch, ws_handler, Send, dispatching, Finish
    <2> QED
      BY <2>1, <2>2
  <1>9. current' \in [Actors -> Requests \cup {None}] /\ reply' \in [Servers -> Requests \cup {None}]
    BY <1>1 DEF RequestType, ServerStep, Boot, ServerEnds, route_response, run_route_callback,
                dispatch, ws_handler, Send, dispatching, Finish
  <1>10. answer' \in [Requests -> Response \cup {None}]
        <2>1. answer \in [Requests -> Response \cup {None}]
      BY <1>1 DEF RequestType
    <2>2. ASSUME NEW status \in Nat, NEW by \in RouteMenu \cup {None},
                 NEW body \in Requests \cup {None}
          PROVE  Answer(status, by, body) \in Response
      BY DEF Answer, Response
    <2>3. \A kind : Statuses(kind) \subseteq Nat
      BY DEF Statuses
    <2>4. \A r : Unrouted(r) \subseteq Nat
      BY DEF Unrouted
    <2>5. \A i \in DOMAIN routes : routes[i] \in RouteMenu
      BY <1>1 DEF ProgramType
    <2>6. ASSUME NEW r, NEW ans \in Response, Finish(t, r, ans)
          PROVE  answer' \in [Requests -> Response \cup {None}]
      BY <2>1, <2>6 DEF Finish
    <2>7. CASE Boot(t) \/ ServerEnds(t) \/ \E r \in Requests : Send(r, t)
      BY <2>1, <2>7 DEF Boot, ServerEnds, Send, clients
    <2>8. CASE route_response(t)
      <3>1. serving[t] \in Requests \cup {None}
        BY <1>1 DEF RequestType
      <3>2. CASE planned[t] \notin DOMAIN routes
        BY <2>2, <2>6, <2>8, <3>2 DEF route_response
      <3>3. CASE planned[t] \in DOMAIN routes /\ routes[planned[t]].kind = "callback"
        BY <2>1, <2>8, <3>3 DEF route_response
      <3>4. CASE planned[t] \in DOMAIN routes /\ routes[planned[t]].kind # "callback"
        <4> DEFINE route == routes[planned[t]]
                   body == IF route.kind = "echo" THEN serving[t] ELSE None
        <4>1. PICK status \in Statuses(route.kind) : Finish(t, serving[t], Answer(status, route, body))
          BY <2>8, <3>4 DEF route_response
        <4>2. route \in RouteMenu /\ body \in Requests \cup {None} /\ status \in Nat
          BY <2>3, <2>5, <3>1, <3>4
        <4>3. Answer(status, route, body) \in Response
          BY <2>2, <4>2
        <4> HIDE DEF route, body
        <4> QED
          BY <2>6, <4>1, <4>3
      <3> QED
        BY <3>2, <3>3, <3>4
    <2>9. CASE run_route_callback(t)
      <3>1. reply[t] \in Requests \cup {None}
        BY <1>1 DEF RequestType
      <3>2. PICK failed \in BOOLEAN :
              LET status == IF failed THEN 500 ELSE IF reply[t] = None THEN 204 ELSE 200
              IN  Finish(t, serving[t], Answer(status, None, IF failed THEN None ELSE reply[t]))
        BY <2>9 DEF run_route_callback
      <3> DEFINE status == IF failed THEN 500 ELSE IF reply[t] = None THEN 204 ELSE 200
                 body == IF failed THEN None ELSE reply[t]
      <3>3. status \in Nat /\ body \in Requests \cup {None}
        BY <3>1
      <3>4. Finish(t, serving[t], Answer(status, None, body))
        BY <3>2
      <3> HIDE DEF status, body
      <3>5. Answer(status, None, body) \in Response
        BY <2>2, <3>3
      <3> QED
        BY <2>6, <3>4, <3>5
    <2>10. CASE \E r \in Requests : dispatch(t, r)
      BY <2>1, <2>2, <2>4, <2>6, <2>10 DEF dispatch
    <2>11. CASE \E r \in Requests : ws_handler(t, r)
      BY <2>2, <2>6, <2>11 DEF ws_handler
    <2> QED
      BY <2>7, <2>8, <2>9, <2>10, <2>11 DEF ServerStep
  <1> QED
    BY <1>2, <1>3, <1>4, <1>5, <1>6, <1>7, <1>8, <1>9, <1>10
       DEF TypeOK, ProgramType, PcType, RunType

\* Every step keeps the types.
LEMMA TypeStep == TypeOK /\ [Next]_vars => TypeOK'
  <1> SUFFICES ASSUME TypeOK, [Next]_vars PROVE TypeOK'
    OBVIOUS
  <1>1. CASE UNCHANGED vars
    BY <1>1 DEF vars, state, clients, dispatching, listeners, TypeOK
  <1>2. CASE Next
    BY <1>2, NextCases, TypeActorStep, TypeServerStep
  <1> QED
    BY <1>1, <1>2

\* The server's state has its types for any program and any clients
\* (rust/server/src/lib.rs, struct State).
THEOREM TypeCorrect == Spec => []TypeOK
  <1> QED
    BY TypeInit, TypeStep, PTL DEF Spec

(***************************************************************************)
(* A live server can be stopped: at most one stop is on its way, it is the *)
(* stop of the server STATE names, and it has that server's sender.        *)
(***************************************************************************)
Stopping(a) == pc[a] \in {"stop", "clear"}

OneStop ==
    /\ \A a \in Actors : Stopping(a) =>
          server # None /\ ~server.shutdown /\ server.thread \in ending
    /\ \A a, b \in Actors : Stopping(a) /\ Stopping(b) => a = b
    /\ \A a \in Interps : ~(pc[a] \in {"boot", "serve", "plan", "call"})

StopInv == OneStop /\ LiveServersCanBeStopped

LEMMA StopInit == Init => StopInv
  BY ServerAssumption DEF Init, StopInv, OneStop, Stopping, LiveServersCanBeStopped, Alive, Actors

LEMMA StopActorStep ==
    ASSUME TypeOK, StopInv, NEW a \in Actors, ActorStep(a) PROVE StopInv'
  <1> USE ServerAssumption DEF StopInv, OneStop, Stopping, LiveServersCanBeStopped, Alive,
          Recorded, Actors
  <1>1. pc \in [Actors -> {"none", "boot", "serve", "plan", "call", "eval",
                          "parked", "took", "run", "stop", "relock", "clear", "ended"}]
    BY DEF TypeOK
  <1>2. server \in ServerRecord \cup {None}
    BY DEF TypeOK
  <1>3. CASE Registration(a)
    BY <1>3 DEF Registration, register, ws_echo, static_files, static_site, clear_routes,
           configure, server_init, listeners
  <1>4. CASE Yield(a)
    BY <1>1, <1>4 DEF Yield, Evaluates, listeners
  <1>5. CASE Acquire(a)
    BY <1>1, <1>2, <1>5 DEF Acquire, listeners
  <1>6. CASE server_respond(a)
    BY <1>6 DEF server_respond, listeners
  <1>7. CASE \E t \in Servers : start_server(a, t) \/ start_server_tls(a, t) \/ server_run(a, t)
    <2>1. PICK t \in Servers :
             /\ pc[t] = "none" /\ pc[a] = "eval" /\ server = None /\ ending' = ending
             /\ server' = [thread |-> t, shutdown |-> TRUE, joinable |-> TRUE]
             /\ pc' = [pc EXCEPT ![t] = "boot", ![a] = "eval"]
                \/ pc' = [pc EXCEPT ![t] = "boot", ![a] = "took"]
      BY <1>7 DEF start_server, start_server_tls, server_run, Stopped, Evaluates, Fresh, StartThread
    <2>2. \A b \in Actors : ~Stopping(b) /\ ~Stopping(b)'
      BY <1>1, <2>1
    <2>3. \A u \in Servers : pc[u] \in {"none", "ended"} \/ u \in ending
      BY <2>1
    <2>4. server'.thread = t /\ server'.shutdown /\ server' # None
      <3>1. server' \in ServerRecord
        BY <2>1 DEF ServerRecord
      <3> QED
        BY <2>1, <3>1
    <2>5. \A u \in Servers \ {t} : pc'[u] \notin {"none", "ended"} => pc[u] \notin {"none", "ended"}
      BY <1>1, <2>1
    <2>6. LiveServersCanBeStopped'
      BY <2>1, <2>3, <2>4, <2>5
    <2>7. \A b \in Interps : pc'[b] \notin {"boot", "serve", "plan", "call"}
      BY <1>1, <2>1
    <2> QED
      BY <2>2, <2>6, <2>7
  <1>8. CASE run_takes_thread(a)
    <2>1. ending' = ending /\ pc[a] = "took"
      BY <1>8 DEF run_takes_thread, listeners
    <2>2. \/ server' = server
          \/ server # None /\ server' = [server EXCEPT !.joinable = FALSE]
      BY <1>8 DEF run_takes_thread
    <2>3. server' # None <=> server # None
      <3>1. server # None => [server EXCEPT !.joinable = FALSE] \in ServerRecord
        BY <1>2 DEF ServerRecord
      <3> QED
        BY <2>2, <3>1
    <2>4. server # None => server'.thread = server.thread /\ server'.shutdown = server.shutdown
      BY <1>2, <2>2 DEF ServerRecord
    <2>5. pc' = [pc EXCEPT ![a] = "run"] \/ pc' = [pc EXCEPT ![a] = "eval"]
      BY <1>8 DEF run_takes_thread
    <2>6. OneStop'
      BY <1>1, <2>1, <2>3, <2>4, <2>5
    <2>7. LiveServersCanBeStopped'
      BY <1>1, <2>1, <2>3, <2>4, <2>5
    <2> QED
      BY <2>6, <2>7
  <1>9. CASE server_stop(a)
    <2>1. /\ pc[a] = "eval" /\ server # None /\ server.shutdown
          /\ ending' = ending \cup {server.thread}
      BY <1>9 DEF server_stop, Evaluates
    <2>2. \A b \in Actors : ~Stopping(b)
      BY <2>1
    <2>3. \A u \in Servers : pc[u] \in {"none", "ended"} \/ u \in ending'
      BY <2>1
    <2>4. CASE ~server.joinable
      <3>1. server' = None /\ pc' = pc
        BY <1>9, <2>4 DEF server_stop
      <3> QED
        BY <2>1, <2>2, <2>3, <3>1
    <2>5. CASE server.joinable
      <3>1. /\ server' = [server EXCEPT !.shutdown = FALSE, !.joinable = FALSE]
            /\ pc' = [pc EXCEPT ![a] = "stop"]
        BY <1>9, <2>5 DEF server_stop
      <3>2. server \in ServerRecord
        BY <1>2, <2>1
      <3>3. server' # None /\ ~server'.shutdown /\ server'.thread = server.thread
        BY <3>1, <3>2 DEF ServerRecord
      <3>4. \A b \in Actors : pc'[b] = IF b = a THEN "stop" ELSE pc[b]
        BY <1>1, <3>1
      <3>5. OneStop'
        BY <2>1, <2>2, <3>3, <3>4
      <3>6. LiveServersCanBeStopped'
        BY <2>1, <2>3, <3>4
      <3> QED
        BY <3>5, <3>6
    <2> QED
      BY <2>4, <2>5
  <1>10. CASE Joined(a)
    BY <1>1, <1>10 DEF Joined, listeners
  <1> QED
    BY <1>3, <1>4, <1>5, <1>6, <1>7, <1>8, <1>9, <1>10 DEF ActorStep

LEMMA StopServerStep ==
    ASSUME TypeOK, StopInv, NEW t \in Servers, ServerStep(t) PROVE StopInv'
  <1> USE ServerAssumption DEF StopInv, OneStop, Stopping, LiveServersCanBeStopped, Alive,
          Recorded, Actors
  <1>1. pc \in [Actors -> {"none", "boot", "serve", "plan", "call", "eval",
                          "parked", "took", "run", "stop", "relock", "clear", "ended"}]
    BY DEF TypeOK
  <1>2. UNCHANGED <<server, ending>>
    BY DEF ServerStep, Boot, ServerEnds, route_response, run_route_callback, dispatch,
           ws_handler, Send, listeners
  <1>3. \/ pc' = pc
        \/ /\ pc[t] \in {"boot", "serve", "plan", "eval"}
           /\ \E next \in {"serve", "plan", "call", "ended"} : pc' = [pc EXCEPT ![t] = next]
    BY DEF ServerStep, Boot, ServerEnds, route_response, run_route_callback, dispatch,
           ws_handler, Send, Finish, Evaluates
  <1> QED
    BY <1>1, <1>2, <1>3

LEMMA StopStep == TypeOK /\ StopInv /\ [Next]_vars => StopInv'
  <1> SUFFICES ASSUME TypeOK, StopInv, [Next]_vars PROVE StopInv'
    OBVIOUS
  <1>1. CASE UNCHANGED vars
    BY <1>1 DEF vars, state, clients, dispatching, listeners, StopInv, OneStop, Stopping,
                LiveServersCanBeStopped, Alive, Recorded
  <1>2. CASE Next
    BY <1>2, NextCases, StopActorStep, StopServerStep
  <1> QED
    BY <1>1, <1>2

\* A server thread that nobody has told to end is the one STATE names, with
\* its shutdown sender, for any number of servers, threads and callbacks
\* (server_run and server_stop, rust/server/src/lib.rs).
THEOREM ListenersCanBeStopped == Spec => []LiveServersCanBeStopped
  <1>1. StopInv => LiveServersCanBeStopped
    BY DEF StopInv
  <1> QED
    BY StopInit, StopStep, TypeCorrect, <1>1, PTL DEF Spec

(***************************************************************************)
(* Planned routes.  A listener whose thread lives is the one STATE names,  *)
(* so that nothing changes STATE.routes, or it is abandoned.               *)
(***************************************************************************)
\* A stop joins the thread STATE names, and clears STATE when it has ended.
StopJoins ==
    \A a \in Actors :
        /\ pc[a] = "stop" => joining[a] = server.thread
        /\ pc[a] = "clear" => pc[server.thread] = "ended"

\* The handle that stop does not find in STATE is the one that run joins.
RunJoins ==
    server # None /\ server.shutdown /\ ~server.joinable /\ Alive(server.thread) =>
        \E a \in Actors : pc[a] = "run" /\ joining[a] = server.thread

RecordedOrAbandoned ==
    \A t \in Servers : Alive(t) => Recorded(t) \/ Abandoned(t)

JoinInv == StopJoins /\ RunJoins /\ RecordedOrAbandoned

LEMMA JoinInit == Init => JoinInv
  BY ServerAssumption
     DEF Init, JoinInv, StopJoins, RunJoins, RecordedOrAbandoned, Alive, Actors

\* A thread that run joins stays abandoned as long as it lives.
LEMMA AbandonedStays ==
    ASSUME TypeOK, [Next]_vars, NEW t \in Servers, Alive(t)', Abandoned(t)
    PROVE  Abandoned(t)'
  <1> USE ServerAssumption DEF Actors, PcType
  <1>1. PcType /\ joining \in [Actors -> Servers \cup {None}]
    BY DEF TypeOK
  <1>2. PICK b \in Actors : pc[b] = "run" /\ joining[b] = t
    BY DEF Abandoned
  <1>3. CASE \E a \in Actors : ActorStep(a)
    <2>1. PICK a \in Actors : ActorStep(a)
      BY <1>3
    <2>2. ending \subseteq ending'
      BY <2>1 DEF ActorStep, Registration, register, ws_echo, static_files, static_site,
           clear_routes, configure, server_init, Yield, Acquire, server_respond, start_server,
           start_server_tls, server_run, StartThread, run_takes_thread, server_stop, Joined,
           listeners
    <2>3. CASE Joined(a)
      BY <1>1, <1>2, <2>2, <2>3 DEF Joined, Alive, Abandoned
    <2>4. CASE ~Joined(a)
      <3>1. pc'[b] = "run" /\ joining'[b] = t
        BY <1>1, <1>2, <2>1, <2>4 DEF ActorStep, Registration, register, ws_echo, static_files,
           static_site, clear_routes, configure, server_init, Stopped, Evaluates, Fresh, Yield,
           Acquire, server_respond, start_server, start_server_tls, server_run, StartThread,
           run_takes_thread, server_stop
      <3> QED
        BY <2>2, <3>1 DEF Abandoned
    <2> QED
      BY <2>3, <2>4
  <1>4. CASE \E u \in Servers : ServerStep(u)
    <2>1. PICK u \in Servers : ServerStep(u)
      BY <1>4
    <2>2. ending' = ending /\ joining' = joining
      BY <2>1 DEF ServerStep, Boot, ServerEnds, route_response, run_route_callback, dispatch,
           ws_handler, Send, listeners
    <2>3. pc'[b] = "run"
      BY <1>1, <1>2, <2>1 DEF ServerStep, Boot, ServerEnds, route_response,
           run_route_callback, dispatch, ws_handler, Send, Finish, Evaluates
    <2> QED
      BY <1>2, <2>2, <2>3 DEF Abandoned
  <1>5. CASE UNCHANGED vars
    BY <1>5 DEF vars, listeners, Abandoned
  <1> QED
    BY <1>3, <1>4, <1>5, NextCases

LEMMA JoinActorStep ==
    ASSUME TypeOK, StopInv, JoinInv, NEW a \in Actors, ActorStep(a),
           \A t \in Servers : Alive(t)' /\ Abandoned(t) => Abandoned(t)'
    PROVE  JoinInv'
  <1> USE ServerAssumption DEF JoinInv, StopJoins, RunJoins, RecordedOrAbandoned, Alive,
          Recorded, Actors, PcType
  <1>1. PcType /\ joining \in [Actors -> Servers \cup {None}]
        /\ server \in ServerRecord \cup {None}
    BY DEF TypeOK
  <1>2. \A b \in Actors : Stopping(b) => server # None /\ ~server.shutdown
    BY DEF StopInv, OneStop
  <1>3. CASE Registration(a) \/ server_respond(a)
    <2>1. UNCHANGED <<pc, joining, server, ending>>
      BY <1>3 DEF Registration, register, ws_echo, static_files, static_site, clear_routes,
           configure, server_init, server_respond, listeners
    <2> QED
      BY <2>1 DEF Abandoned
  <1>4. CASE Yield(a)
    BY <1>1, <1>4 DEF Yield, Evaluates, listeners
  <1>5. CASE Acquire(a)
    <2>1. /\ pc[a] \in {"parked", "call", "relock", "clear"}
          /\ pc' = [pc EXCEPT ![a] = "eval"] /\ joining' = [joining EXCEPT ![a] = None]
          /\ server' = IF pc[a] = "clear" THEN None ELSE server
      BY <1>5 DEF Acquire
    <2>2. CASE pc[a] = "clear"
      <3>1. \A b \in Actors : Stopping(b) => b = a
        BY <2>2 DEF StopInv, OneStop, Stopping
      <3>2. StopJoins' /\ RunJoins'
        BY <1>1, <2>1, <2>2, <3>1 DEF Stopping
      <3>3. RecordedOrAbandoned'
        BY <1>1, <2>1, <2>2
      <3> QED
        BY <3>2, <3>3
    <2>3. CASE pc[a] # "clear"
      BY <1>1, <2>1, <2>3
    <2> QED
      BY <2>2, <2>3
  <1>6. CASE \E t \in Servers : start_server(a, t) \/ start_server_tls(a, t) \/ server_run(a, t)
    <2>1. PICK t \in Servers :
             /\ pc[t] = "none" /\ pc[a] = "eval" /\ server = None /\ joining' = joining
             /\ server' = [thread |-> t, shutdown |-> TRUE, joinable |-> TRUE]
             /\ pc' = [pc EXCEPT ![t] = "boot", ![a] = "eval"]
                \/ pc' = [pc EXCEPT ![t] = "boot", ![a] = "took"]
      BY <1>6 DEF start_server, start_server_tls, server_run, Stopped, Evaluates, Fresh, StartThread
    <2>2. server' # None /\ server'.thread = t /\ server'.joinable
      <3>1. server' \in ServerRecord
        BY <2>1 DEF ServerRecord
      <3> QED
        BY <2>1, <3>1
    <2>3. \A b \in Actors : pc'[b] \notin {"stop", "clear"}
      BY <1>1, <1>2, <2>1 DEF Stopping
    <2>4. RecordedOrAbandoned'
      BY <1>1, <2>1, <2>2
    <2> QED
      BY <2>2, <2>3, <2>4
  <1>7. CASE run_takes_thread(a)
    <2>1. CASE server # None /\ server.joinable
      <3>1. /\ pc[a] = "took" /\ pc' = [pc EXCEPT ![a] = "run"]
            /\ joining' = [joining EXCEPT ![a] = server.thread]
            /\ server' = [server EXCEPT !.joinable = FALSE]
        BY <1>7, <2>1 DEF run_takes_thread
      <3>2. server' # None /\ server'.thread = server.thread
        BY <1>1, <2>1, <3>1 DEF ServerRecord
      <3>3. pc'[a] = "run" /\ joining'[a] = server.thread
        BY <1>1, <3>1
      <3>4. StopJoins'
        BY <1>1, <3>1, <3>2
      <3>5. RecordedOrAbandoned'
        BY <1>1, <2>1, <3>1, <3>2
      <3> QED
        BY <3>2, <3>3, <3>4, <3>5
    <2>2. CASE ~(server # None /\ server.joinable)
      <3>1. /\ pc[a] = "took" /\ pc' = [pc EXCEPT ![a] = "eval"]
            /\ UNCHANGED <<joining, server>>
        BY <1>7, <2>2 DEF run_takes_thread
      <3>2. \A b \in Actors : pc'[b] = IF b = a THEN "eval" ELSE pc[b]
        BY <1>1, <3>1
      <3>3. StopJoins' /\ RunJoins'
        BY <1>1, <1>2, <3>1, <3>2 DEF ServerRecord, Stopping
      <3>4. RecordedOrAbandoned'
        BY <3>1, <3>2
      <3> QED
        BY <3>3, <3>4
    <2> QED
      BY <2>1, <2>2
  <1>8. CASE server_stop(a)
    <2>1. /\ pc[a] = "eval" /\ server # None /\ server.shutdown
          /\ ending' = ending \cup {server.thread}
      BY <1>8 DEF server_stop, Evaluates
    <2>2. \A b \in Actors : pc[b] \notin {"stop", "clear"}
      BY <1>2, <2>1 DEF Stopping
    <2>3. CASE ~server.joinable
      <3>1. server' = None /\ UNCHANGED <<pc, joining>>
        BY <1>8, <2>3 DEF server_stop
      <3>2. ASSUME NEW t \in Servers, Alive(t)' PROVE Abandoned(t)'
        <4>1. CASE Recorded(t)
          BY <2>1, <2>3, <3>1, <3>2, <4>1 DEF Abandoned
        <4>2. CASE ~Recorded(t)
          BY <3>1, <3>2, <4>2
        <4> QED
          BY <4>1, <4>2
      <3> QED
        BY <2>2, <3>1, <3>2
    <2>4. CASE server.joinable
      <3>1. /\ server' = [server EXCEPT !.shutdown = FALSE, !.joinable = FALSE]
            /\ pc' = [pc EXCEPT ![a] = "stop"]
            /\ joining' = [joining EXCEPT ![a] = server.thread]
        BY <1>8, <2>4 DEF server_stop
      <3>2. server' # None /\ ~server'.shutdown /\ server'.thread = server.thread
        BY <1>1, <2>1, <3>1 DEF ServerRecord
      <3>3. StopJoins'
        BY <1>1, <2>2, <3>1, <3>2
      <3>4. RecordedOrAbandoned'
        BY <1>1, <2>1, <3>1, <3>2
      <3> QED
        BY <3>2, <3>3, <3>4
    <2> QED
      BY <2>3, <2>4
  <1>9. CASE Joined(a)
    <2>1. /\ pc[a] \in {"run", "stop"} /\ pc[joining[a]] = "ended"
          /\ pc' = [pc EXCEPT ![a] = IF pc[a] = "stop" THEN "clear" ELSE "relock"]
          /\ UNCHANGED <<joining, server>>
      BY <1>9 DEF Joined
    <2>2. \A t \in Servers : Alive(t)' => Alive(t)
      BY <1>1, <2>1
    <2>3. StopJoins'
      BY <1>1, <2>1
    <2>4. RunJoins'
      BY <1>1, <2>1
    <2>5. RecordedOrAbandoned'
      BY <2>1, <2>2
    <2> QED
      BY <2>3, <2>4, <2>5
  <1> QED
    BY <1>3, <1>4, <1>5, <1>6, <1>7, <1>8, <1>9 DEF ActorStep

LEMMA JoinServerStep ==
    ASSUME TypeOK, JoinInv, StopInv, NEW t \in Servers, ServerStep(t),
           \A u \in Servers : Alive(u)' /\ Abandoned(u) => Abandoned(u)'
    PROVE  JoinInv'
  <1> USE ServerAssumption DEF JoinInv, StopJoins, RunJoins, RecordedOrAbandoned, Alive,
          Recorded, Actors, PcType
  <1>1. PcType /\ server \in ServerRecord \cup {None}
    BY DEF TypeOK
  <1>2. UNCHANGED <<server, joining>>
    BY DEF ServerStep, Boot, ServerEnds, route_response, run_route_callback, dispatch,
           ws_handler, Send
  <1>3. \/ pc' = pc
        \/ /\ pc[t] \in {"boot", "serve", "plan", "eval"}
           /\ \E next \in {"serve", "plan", "call", "ended"} : pc' = [pc EXCEPT ![t] = next]
    BY DEF ServerStep, Boot, ServerEnds, route_response, run_route_callback, dispatch,
           ws_handler, Send, Finish, Evaluates
  <1>4. \A b \in Actors : /\ pc'[b] \in {"stop", "clear"} => pc'[b] = pc[b]
                          /\ pc[b] \in {"run", "ended"} => pc'[b] = pc[b]
    BY <1>1, <1>3
  <1>5. \A u \in Servers : Alive(u)' => Alive(u)
    BY <1>1, <1>3
  <1>6. \A b \in Actors : Stopping(b) => server \in ServerRecord
    BY <1>1 DEF StopInv, OneStop
  <1>7. StopJoins'
    BY <1>2, <1>4, <1>6 DEF ServerRecord, Stopping
  <1>8. RunJoins'
    BY <1>1, <1>2, <1>4, <1>5 DEF ServerRecord
  <1>9. RecordedOrAbandoned'
    BY <1>2, <1>5
  <1> QED
    BY <1>7, <1>8, <1>9

LEMMA JoinStep == TypeOK /\ StopInv /\ JoinInv /\ [Next]_vars => JoinInv'
  <1> SUFFICES ASSUME TypeOK, StopInv, JoinInv, [Next]_vars PROVE JoinInv'
    OBVIOUS
  <1>1. \A t \in Servers : Alive(t)' /\ Abandoned(t) => Abandoned(t)'
    BY AbandonedStays
  <1>2. CASE UNCHANGED vars
    BY <1>2 DEF vars, listeners, JoinInv, StopJoins, RunJoins, RecordedOrAbandoned, Alive,
                Recorded, Abandoned
  <1> QED
    BY <1>1, <1>2, NextCases, JoinActorStep, JoinServerStep

\* A step that plans no request keeps the routes, unless all that live are abandoned.
LEMMA PlannedActorStep ==
    ASSUME TypeOK, JoinInv, PlannedRoutesMatch, NEW a \in Actors, ActorStep(a),
           \A t \in Servers : Alive(t)' /\ Abandoned(t) => Abandoned(t)'
    PROVE  PlannedRoutesMatch'
  <1> USE ServerAssumption DEF PlannedRoutesMatch
  <1>1. PcType
    BY DEF TypeOK, PcType
  <1>2. UNCHANGED <<serving, planned>>
    BY DEF ActorStep, Registration, register, ws_echo, static_files, static_site, clear_routes,
           configure, server_init, Yield, Acquire, server_respond, start_server,
           start_server_tls, server_run, StartThread, run_takes_thread, server_stop, Joined,
           dispatching
  <1>3. \A t \in Servers : pc'[t] = "plan" => pc[t] = "plan" /\ Alive(t)'
    BY <1>1 DEF PcType, Actors, Alive, ActorStep, Registration, register, ws_echo, static_files,
           static_site, clear_routes, configure, server_init, Yield, Acquire, server_respond,
           start_server, start_server_tls, server_run, StartThread, run_takes_thread,
           server_stop, Joined
  <1>4. CASE routes' = routes
    BY <1>2, <1>3, <1>4
  <1>5. CASE routes' # routes
    <2>1. server = None
      BY <1>5 DEF ActorStep, Registration, register, ws_echo, static_files, static_site,
           clear_routes, configure, server_init, Stopped, Yield, Acquire, server_respond,
           start_server, start_server_tls, server_run, StartThread, run_takes_thread,
           server_stop, Joined, state
    <2>2. \A t \in Servers : pc[t] = "plan" => Abandoned(t)
      BY <2>1 DEF JoinInv, RecordedOrAbandoned, Recorded, Alive
    <2> QED
      BY <1>3, <2>2
  <1> QED
    BY <1>4, <1>5

LEMMA PlannedServerStep ==
    ASSUME TypeOK, PlannedRoutesMatch, NEW t \in Servers, ServerStep(t),
           \A u \in Servers : Alive(u)' /\ Abandoned(u) => Abandoned(u)'
    PROVE  PlannedRoutesMatch'
  <1> USE DEF PlannedRoutesMatch
  <1>1. PcType /\ serving \in [Servers -> Requests \cup {None}] /\ planned \in [Servers -> Nat]
    BY DEF TypeOK, PcType
  <1>2. routes' = routes
    BY DEF ServerStep, Boot, ServerEnds, route_response, run_route_callback, dispatch,
           ws_handler, Send, state
  <1>3. \A u \in Servers \ {t} : pc'[u] = pc[u] /\ serving'[u] = serving[u] /\ planned'[u] = planned[u]
    BY <1>1 DEF PcType, Actors, ServerStep, Boot, ServerEnds, route_response, run_route_callback,
           dispatch, ws_handler, Send, Finish, dispatching
  <1>4. \A u \in Servers : pc'[u] = "plan" => Alive(u)'
    BY DEF Alive
  <1>5. \A u \in Servers \ {t} : pc'[u] = "plan" /\ ~Abandoned(u)' =>
            /\ planned'[u] \in DOMAIN routes'
            /\ Matches(routes'[planned'[u]], serving'[u])
    BY <1>2, <1>3, <1>4
  <1>6. CASE pc'[t] # "plan"
    BY <1>5, <1>6
  <1>7. CASE pc'[t] = "plan"
    <2>1. CASE \E r \in Requests : Send(r, t)
      <3>1. UNCHANGED <<pc, serving, planned>>
        BY <2>1 DEF Send, dispatching
      <3> QED
        BY <1>2, <1>4, <3>1
    <2>2. CASE \E r \in Requests : dispatch(t, r)
      <3>1. PICK r \in Requests : dispatch(t, r)
        BY <2>2
      <3>2. PICK i \in DOMAIN routes :
                Matches(routes[i], r) /\ serving' = [serving EXCEPT ![t] = r]
                /\ planned' = [planned EXCEPT ![t] = i]
        BY <1>1, <1>7, <3>1 DEF dispatch, Finish, FirstMatch, PcType, Actors
      <3>3. serving'[t] = r /\ planned'[t] = i
        BY <1>1, <3>2
      <3>4. planned'[t] \in DOMAIN routes' /\ Matches(routes'[planned'[t]], serving'[t])
        BY <1>2, <3>2, <3>3
      <3> QED
        BY <1>5, <3>4
    <2>3. CASE \/ Boot(t) \/ ServerEnds(t) \/ route_response(t) \/ run_route_callback(t)
               \/ \E r \in Requests : ws_handler(t, r)
      BY <1>1, <1>7, <2>3 DEF PcType, Actors, Boot, ServerEnds, route_response,
           run_route_callback, ws_handler, Finish
    <2> QED
      BY <2>1, <2>2, <2>3 DEF ServerStep
  <1> QED
    BY <1>6, <1>7

\* The index planned by dispatch names a route of the request's path and method
\* when the response is made, for any routes, threads, starts and stops, unless
\* the listener is one that `run` waits for and another thread has stopped: stop
\* clears STATE.server only when the thread it names has ended, or leaves the
\* join to run (dispatch, route_response and server_stop, rust/server/src/lib.rs).
THEOREM RoutesAreFrozen == Spec => []PlannedRoutesMatch
  <1>1. Init => PlannedRoutesMatch
    BY ServerAssumption DEF Init, PlannedRoutesMatch, Actors
  <1>2. TypeOK /\ JoinInv /\ PlannedRoutesMatch /\ [Next]_vars => PlannedRoutesMatch'
    <2> SUFFICES ASSUME TypeOK, JoinInv, PlannedRoutesMatch, [Next]_vars PROVE PlannedRoutesMatch'
      OBVIOUS
    <2>1. \A t \in Servers : Alive(t)' /\ Abandoned(t) => Abandoned(t)'
      BY AbandonedStays
    <2>2. CASE UNCHANGED vars
      BY <2>2 DEF vars, state, dispatching, listeners, PlannedRoutesMatch, Abandoned
    <2> QED
      BY <2>1, <2>2, NextCases, PlannedActorStep, PlannedServerStep
  <1> QED
    BY TypeCorrect, StopInit, StopStep, JoinInit, JoinStep, <1>1, <1>2, PTL DEF Spec

(***************************************************************************)
(* Handlers: the request slot and the reply slot of a server thread belong *)
(* to the request it serves.                                               *)
(***************************************************************************)
SlotsAreOwn ==
    /\ \A a \in Interps : current[a] = None
    /\ \A t \in Servers : current[t] \in {None, serving[t]} /\ reply[t] \in {None, serving[t]}
    /\ \A t \in Servers : pc[t] \in {"none", "boot", "serve", "plan"} =>
          current[t] = None /\ reply[t] = None

HandlerInv == SlotsAreOwn /\ HandlersAnswerTheirRequest

LEMMA HandlerActorStep ==
    ASSUME TypeOK, HandlerInv, NEW a \in Actors, ActorStep(a) PROVE HandlerInv'
  <1> USE ServerAssumption
  <1>1. /\ PcType /\ current \in [Actors -> Requests \cup {None}]
        /\ reply \in [Servers -> Requests \cup {None}]
    BY DEF TypeOK, PcType
  <1>2. UNCHANGED <<serving, current, answer>>
    BY DEF ActorStep, Registration, register, ws_echo, static_files, static_site, clear_routes,
           configure, server_init, Yield, Acquire, server_respond, start_server,
           start_server_tls, server_run, StartThread, run_takes_thread, server_stop, Joined,
           dispatching, clients
  <1>3. HandlersAnswerTheirRequest'
    BY <1>2 DEF HandlerInv, HandlersAnswerTheirRequest
  <1>4. CASE server_respond(a)
    <2>1. /\ pc' = pc /\ pc[a] = "eval" /\ current[a] # None
          /\ reply' = [reply EXCEPT ![a] = current[a]]
      BY <1>4 DEF server_respond, Evaluates, last_request
    <2>2. a \in Servers /\ current[a] = serving[a]
      BY <2>1 DEF HandlerInv, SlotsAreOwn, Actors
    <2>3. SlotsAreOwn'
      BY <1>1, <1>2, <2>1, <2>2 DEF HandlerInv, SlotsAreOwn
    <2> QED
      BY <1>3, <2>3 DEF HandlerInv
  <1>5. CASE ~server_respond(a)
    <2>1. reply' = reply
      BY <1>5 DEF ActorStep, Registration, register, ws_echo, static_files, static_site,
           clear_routes, configure, server_init, Yield, Acquire, start_server,
           start_server_tls, server_run, StartThread, run_takes_thread, server_stop, Joined,
           dispatching
    <2>2. \A t \in Servers : pc'[t] \in {"none", "boot", "serve", "plan"} =>
                             pc[t] \in {"none", "boot", "serve", "plan"}
      <3>1. \/ pc' = pc
            \/ \E next \in {"eval", "parked", "run", "stop", "relock", "clear"} :
                  pc' = [pc EXCEPT ![a] = next]
            \/ \E u \in Servers, next \in {"eval", "took"} :
                  pc[u] = "none" /\ pc' = [pc EXCEPT ![u] = "boot", ![a] = next]
        BY <1>5 DEF ActorStep, Registration, register, ws_echo, static_files,
           static_site, clear_routes, configure, server_init, Yield, Acquire, start_server,
           start_server_tls, server_run, StartThread, Fresh, run_takes_thread, server_stop, Joined
      <3> QED
        BY <1>1, <3>1 DEF PcType, Actors
    <2>3. SlotsAreOwn'
      BY <1>2, <2>1, <2>2 DEF HandlerInv, SlotsAreOwn
    <2> QED
      BY <1>3, <2>3 DEF HandlerInv
  <1> QED
    BY <1>4, <1>5

LEMMA HandlerServerStep ==
    ASSUME TypeOK, HandlerInv, NEW t \in Servers, ServerStep(t) PROVE HandlerInv'
  <1> USE ServerAssumption
  <1>1. /\ PcType /\ current \in [Actors -> Requests \cup {None}]
        /\ reply \in [Servers -> Requests \cup {None}]
        /\ serving \in [Servers -> Requests \cup {None}]
        /\ answer \in [Requests -> Response \cup {None}]
    BY DEF TypeOK, PcType
  <1>2. ASSUME NEW r, NEW body \in {None, r}, NEW status, NEW by,
               Finish(t, r, Answer(status, by, body))
        PROVE  HandlersAnswerTheirRequest'
    BY <1>1, <1>2 DEF Finish, Answer, HandlerInv, HandlersAnswerTheirRequest
  <1>3. CASE Boot(t) \/ ServerEnds(t) \/ \E r \in Requests : Send(r, t)
    <2>1. UNCHANGED <<serving, current, reply, answer>>
      BY <1>3 DEF Boot, ServerEnds, Send, dispatching, clients
    <2>2. \A u \in Servers : pc'[u] \in {"none", "boot", "serve", "plan"} =>
                             pc[u] \in {"none", "boot", "serve", "plan"}
      BY <1>1, <1>3 DEF PcType, Actors, Boot, ServerEnds, Send
    <2>3. SlotsAreOwn'
      BY <2>1, <2>2 DEF HandlerInv, SlotsAreOwn
    <2>4. HandlersAnswerTheirRequest'
      BY <2>1 DEF HandlerInv, HandlersAnswerTheirRequest
    <2> QED
      BY <2>3, <2>4 DEF HandlerInv
  <1>4. ASSUME NEW r \in Requests, dispatch(t, r) \/ ws_handler(t, r) PROVE HandlerInv'
    <2>1. /\ pc[t] = "serve"
          /\ UNCHANGED <<current, reply>>
          /\ pc' = [pc EXCEPT ![t] = "serve"] \/ pc' = [pc EXCEPT ![t] = "plan"]
          /\ serving' = [serving EXCEPT ![t] = None] \/ serving' = [serving EXCEPT ![t] = r]
      BY <1>4 DEF dispatch, ws_handler, Finish
    <2>2. SlotsAreOwn'
      BY <1>1, <2>1 DEF HandlerInv, SlotsAreOwn, PcType, Actors
    <2>3. HandlersAnswerTheirRequest'
      <3>1. CASE answer' = answer
        BY <3>1 DEF HandlerInv, HandlersAnswerTheirRequest
      <3>2. CASE \E status : Finish(t, r, Answer(status, None, None))
        BY <1>2, <3>2
      <3> QED
        BY <1>4, <3>1, <3>2 DEF dispatch, ws_handler
    <2> QED
      BY <2>2, <2>3 DEF HandlerInv
  <1>5. CASE route_response(t)
    <2>1. /\ pc[t] = "plan"
          /\ \/ /\ pc' = [pc EXCEPT ![t] = "serve"]
                /\ serving' = [serving EXCEPT ![t] = None]
                /\ UNCHANGED <<current, reply>>
             \/ /\ pc' = [pc EXCEPT ![t] = "call"]
                /\ current' = [current EXCEPT ![t] = serving[t]]
                /\ reply' = [reply EXCEPT ![t] = None]
                /\ UNCHANGED <<serving, answer>>
      BY <1>5 DEF route_response, Finish
    <2>2. SlotsAreOwn'
      BY <1>1, <2>1 DEF HandlerInv, SlotsAreOwn, PcType, Actors
    <2>3. \/ answer' = answer
          \/ \E status, by : \E body \in {None, serving[t]} :
                Finish(t, serving[t], Answer(status, by, body))
      BY <1>5 DEF route_response
    <2>4. HandlersAnswerTheirRequest'
      BY <1>2, <2>3 DEF HandlerInv, HandlersAnswerTheirRequest
    <2> QED
      BY <2>2, <2>4 DEF HandlerInv
  <1>6. CASE run_route_callback(t)
    <2>1. /\ pc' = [pc EXCEPT ![t] = "serve"]
          /\ serving' = [serving EXCEPT ![t] = None]
          /\ current' = [current EXCEPT ![t] = None]
          /\ reply' = [reply EXCEPT ![t] = None]
      BY <1>6 DEF run_route_callback, Finish
    <2>2. SlotsAreOwn'
      BY <1>1, <2>1 DEF HandlerInv, SlotsAreOwn, PcType, Actors
    <2>3. \E status : \E body \in {None, reply[t]} :
             Finish(t, serving[t], Answer(status, None, body))
      BY <1>6 DEF run_route_callback
    <2>4. reply[t] \in {None, serving[t]}
      BY DEF HandlerInv, SlotsAreOwn
    <2>5. HandlersAnswerTheirRequest'
      BY <1>2, <2>3, <2>4
    <2> QED
      BY <2>2, <2>5 DEF HandlerInv
  <1> QED
    BY <1>3, <1>4, <1>5, <1>6 DEF ServerStep

\* A handler that answers with what it reads answers with its own request, for
\* any number of server threads and requests (CURRENT_REQUEST and
\* CALLBACK_RESPONSE in run_route_callback, rust/server/src/lib.rs).
THEOREM RequestsAreNotMixed == Spec => []HandlersAnswerTheirRequest
  <1>1. Init => HandlerInv
    BY ServerAssumption DEF Init, HandlerInv, SlotsAreOwn, HandlersAnswerTheirRequest, Actors
  <1>2. TypeOK /\ HandlerInv /\ [Next]_vars => HandlerInv'
    <2> SUFFICES ASSUME TypeOK, HandlerInv, [Next]_vars PROVE HandlerInv'
      OBVIOUS
    <2>1. CASE UNCHANGED vars
      BY <2>1 DEF vars, dispatching, clients, HandlerInv, SlotsAreOwn, HandlersAnswerTheirRequest
    <2>2. CASE Next
      BY <2>2, NextCases, HandlerActorStep, HandlerServerStep
    <2> QED
      BY <2>1, <2>2
  <1>3. HandlerInv => HandlersAnswerTheirRequest
    BY DEF HandlerInv
  <1> QED
    BY TypeCorrect, <1>1, <1>2, <1>3, PTL DEF Spec

(***************************************************************************)
(* Server implements Evaluation: callbacks come and go through the lock.   *)
(***************************************************************************)
LockAgrees == \A a \in Actors : pc[a] \in {"eval", "took"} <=> holder = a

LEMMA LockInit == Init => LockAgrees /\ EvaluationSpec!Init
  <1> SUFFICES ASSUME Init PROVE LockAgrees /\ EvaluationSpec!Init
    OBVIOUS
  <1>1. Main \in Actors /\ holder = Main
    BY ServerAssumption DEF Init, Actors
  <1>2. \A a \in Actors : pc[a] = IF a = Main THEN "eval" ELSE IF a \in Servers THEN "none"
                                  ELSE "parked"
    BY ServerAssumption DEF Init
  <1> QED
    BY <1>1, <1>2 DEF LockAgrees, EvaluationSpec!Init, Evaluating

LEMMA LockActorStep ==
    ASSUME TypeOK, LockAgrees, NEW a \in Actors, ActorStep(a)
    PROVE  /\ LockAgrees'
           /\ holder' = holder \/ holder = None \/ holder' = None
  <1> USE ServerAssumption DEF TypeOK, LockAgrees, Actors
  <1>1. CASE Registration(a)
    <2>1. UNCHANGED <<holder, pc>>
      BY <1>1 DEF Registration, register, ws_echo, static_files, static_site, clear_routes,
             configure, server_init
    <2> QED
      BY <2>1
  <1>2. CASE Yield(a)
    BY <1>2 DEF Yield, Evaluates
  <1>3. CASE Acquire(a)
    BY <1>3 DEF Acquire
  <1>4. CASE server_respond(a)
    BY <1>4 DEF server_respond
  <1>5. CASE \E t \in Servers : start_server(a, t) \/ start_server_tls(a, t) \/ server_run(a, t)
    <2>1. PICK t \in Servers, next \in {"eval", "took"} :
             /\ pc[t] = "none" /\ pc[a] = "eval" /\ holder' = holder
             /\ pc' = [pc EXCEPT ![t] = "boot", ![a] = next]
      BY <1>5 DEF start_server, start_server_tls, server_run, Stopped, Evaluates, Fresh, StartThread
    <2>2. \A b \in Actors : pc'[b] = IF b = a THEN next ELSE IF b = t THEN "boot" ELSE pc[b]
      BY <2>1
    <2> QED
      BY <2>1, <2>2
  <1>6. CASE run_takes_thread(a)
    <2>1. /\ holder = a /\ pc[a] = "took"
          /\ \/ holder' = None /\ pc' = [pc EXCEPT ![a] = "run"]
             \/ holder' = holder /\ pc' = [pc EXCEPT ![a] = "eval"]
      BY <1>6 DEF run_takes_thread
    <2>2. CASE holder' = None /\ pc' = [pc EXCEPT ![a] = "run"]
      BY <2>1, <2>2
    <2>3. CASE holder' = holder /\ pc' = [pc EXCEPT ![a] = "eval"]
      BY <2>1, <2>3
    <2> QED
      BY <2>1, <2>2, <2>3
  <1>7. CASE server_stop(a)
    <2>1. /\ holder = a /\ pc[a] = "eval"
          /\ \/ holder' = None /\ pc' = [pc EXCEPT ![a] = "stop"]
             \/ UNCHANGED <<holder, pc>>
      BY <1>7 DEF server_stop, Evaluates
    <2> QED
      BY <2>1
  <1>8. CASE Joined(a)
    <2>1. /\ holder' = holder /\ pc[a] \in {"run", "stop"}
          /\ \E next \in {"clear", "relock"} : pc' = [pc EXCEPT ![a] = next]
      BY <1>8 DEF Joined
    <2> QED
      BY <2>1
  <1> QED
    BY <1>1, <1>2, <1>3, <1>4, <1>5, <1>6, <1>7, <1>8 DEF ActorStep

LEMMA LockServerStep ==
    ASSUME TypeOK, LockAgrees, NEW t \in Servers, ServerStep(t)
    PROVE  /\ LockAgrees'
           /\ holder' = holder \/ holder = None \/ holder' = None
  <1> USE ServerAssumption DEF TypeOK, LockAgrees, Actors
  <1>1. \/ pc' = pc /\ holder' = holder
        \/ /\ pc[t] \in {"boot", "serve", "plan"} /\ holder' = holder
           /\ \E next \in {"serve", "plan", "call", "ended"} : pc' = [pc EXCEPT ![t] = next]
        \/ /\ pc[t] = "eval" /\ holder = t /\ holder' = None
           /\ pc' = [pc EXCEPT ![t] = "serve"]
    BY DEF ServerStep, Boot, ServerEnds, route_response, run_route_callback, dispatch,
           ws_handler, Send, Finish, Evaluates
  <1>2. CASE pc' = pc /\ holder' = holder
    BY <1>2
  <1>3. ASSUME NEW next \in {"serve", "plan", "call", "ended"}, holder' = holder,
               pc[t] \in {"boot", "serve", "plan"}, pc' = [pc EXCEPT ![t] = next]
        PROVE  LockAgrees'
    <2>1. \A a \in Actors : pc'[a] = IF a = t THEN next ELSE pc[a]
      BY <1>3
    <2> QED
      BY <1>3, <2>1
  <1>4. ASSUME pc[t] = "eval", holder = t, holder' = None, pc' = [pc EXCEPT ![t] = "serve"]
        PROVE  LockAgrees'
    <2>1. \A a \in Actors : pc'[a] = IF a = t THEN "serve" ELSE pc[a]
      BY <1>4
    <2> QED
      BY <1>4, <2>1
  <1> QED
    BY <1>1, <1>2, <1>3, <1>4

LEMMA LockStep ==
    ASSUME TypeOK, LockAgrees, [Next]_vars
    PROVE  /\ LockAgrees'
           /\ holder' = holder \/ holder = None \/ holder' = None
  <1>1. CASE UNCHANGED vars
    BY <1>1 DEF vars, LockAgrees
  <1> QED
    BY <1>1, NextCases, LockActorStep, LockServerStep

LEMMA EvaluationStep ==
    ASSUME TypeOK, TypeOK', LockAgrees, LockAgrees',
           holder' = holder \/ holder = None \/ holder' = None
    PROVE  [EvaluationSpec!Next]_Evaluating
  <1>1. Evaluating = {holder} \ {None} /\ Evaluating' = {holder'} \ {None}
    BY ServerAssumption DEF TypeOK, LockAgrees, Evaluating
  <1>2. CASE holder = None /\ holder' # None
    <2>1. holder' \in Actors /\ Evaluating = {} /\ Evaluating' = {holder'}
      BY <1>1, <1>2 DEF TypeOK
    <2> QED
      BY <2>1 DEF EvaluationSpec!Next, EvaluationSpec!Enter
  <1>3. CASE holder # None /\ holder' = None
    <2>1. holder \in Actors /\ Evaluating = {holder} /\ Evaluating' = {}
      BY <1>1, <1>3 DEF TypeOK
    <2> QED
      BY <2>1 DEF EvaluationSpec!Next, EvaluationSpec!Leave
  <1> QED
    BY <1>1, <1>2, <1>3

\* Lynxer code runs on one thread at a time, whichever listener's callback or
\* interpreter thread it is, through run, stop and the joins
\* (lynxerHostInvokeThreadsafe and lynxerHostBlocking around server_run and
\* server_stop).
THEOREM Implementation == Spec => Serialized
  <1>1. TypeOK /\ TypeOK' /\ LockAgrees /\ [Next]_vars
           => LockAgrees' /\ [EvaluationSpec!Next]_Evaluating
    BY LockStep, EvaluationStep
  <1> QED
    BY <1>1, LockInit, TypeCorrect, PTL
       DEF Spec, Serialized, EvaluationSpec!Spec, EvaluationSpec!Handover
=============================================================================
