-------------------------- MODULE ServerProperties --------------------------
(***************************************************************************)
(* What the server promises.                                               *)
(***************************************************************************)
EXTENDS Server

Alive(t) == pc[t] \notin {"none", "ended"}

\* A listener that stop has been told to end while `run` had its thread to join:
\* stop has nothing to join, and clears STATE.server while the thread still
\* answers what it has accepted.
Abandoned(t) ==
    /\ t \in ending
    /\ \E a \in Actors : pc[a] = "run" /\ joining[a] = t

\* The index a request was planned with still names a route of its path and method
\* when the response is made, whichever threads start, stop and register
\* meanwhile: stop joins before it lets the routes change, and no restart comes
\* between.  Abandoned listeners are left out (see AnsweredByTheirRoute).
PlannedRoutesMatch ==
    \A t \in Servers :
        pc[t] = "plan" /\ ~Abandoned(t) =>
            /\ planned[t] \in DOMAIN routes
            /\ Matches(routes[planned[t]], serving[t])

\* A request that a route answers is answered by a route of its path and method:
\* the route table is frozen while a server runs.
AnsweredByTheirRoute ==
    \A r \in Requests :
        answer[r] # None /\ answer[r].by # None => Matches(answer[r].by, r)

\* A server thread that nobody has told to end is the one STATE names, with
\* its shutdown sender: no second stop, no late stop and no restart makes a
\* listener that cannot be stopped any more.
LiveServersCanBeStopped ==
    \A t \in Servers :
        Alive(t) /\ t \notin ending => Recorded(t) /\ server.shutdown

\* A handler that answers with what the readers tell it answers with its own
\* request: neither another server thread nor a request that was handled
\* meanwhile shows through, and no reply of an earlier callback is left over.
HandlersAnswerTheirRequest ==
    \A r \in Requests : answer[r] # None => answer[r].body \in {None, r}

\* Interpreter threads and server threads inside a callback evaluate Lynxer code;
\* it passes from one to the next the way Evaluation says.
Evaluating == {a \in Actors : pc[a] \in {"eval", "took"}}
EvaluationSpec == INSTANCE Evaluation WITH Threads <- Actors, evaluating <- Evaluating
Serialized == EvaluationSpec!Spec

\* A stop that joins returns, whatever the callbacks of that server were doing.
StopReturns ==
    \A a \in Actors : pc[a] = "stop" ~> pc[a] = "eval" \/ crashed
=============================================================================
