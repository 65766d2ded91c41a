------------------------------ MODULE ServerMC ------------------------------
(***************************************************************************)
(* Small instances of the server for TLC.                                  *)
(***************************************************************************)
EXTENDS ServerProperties

CONSTANTS main, w, s1, s2, r1, r2

Handler == [methods |-> {"GET", "POST"}, path |-> "/a", kind |-> "callback"]
Page == [methods |-> {"POST"}, path |-> "/b", kind |-> "template"]
Form == [methods |-> {"POST"}, path |-> "/a", kind |-> "text"]
Menu == {Handler, Page}

\* Either takes the place of the other; a GET request finds only the handler.
Rivals == {Handler, Form}

PathsOf == [r \in Requests |-> IF r = r2 THEN "/b" ELSE "/a"]
MethodsOf == [r \in Requests |-> IF r = r2 THEN "POST" ELSE "GET"]
=============================================================================
