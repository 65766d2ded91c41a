------------------------------ MODULE Database ------------------------------
(***************************************************************************)
(* The sqldb module (rust/sqldb/src/lib.rs): an operation names a path,    *)
(* for which a connection is opened and closed again, or a handle, whose   *)
(* connection stays.  Every call by handle runs under the registry's lock; *)
(* several calls on one handle do not, so that the program's threads       *)
(* share its transaction.  SQLite is external, on files and with its       *)
(* rollback journal: what a transaction has read or written it keeps the   *)
(* other connections from writing until it ends.                           *)
(***************************************************************************)
EXTENDS Integers, Sequences, FiniteSets

CONSTANTS
    Paths,
    Scripts,      \* sequences of statements
    MaxHandles,   \* bound: handles ever given out
    MaxRows,      \* bound: rows of a table
    None          \* a closed connection

Statements == {"insert", "begin", "commit", "rollback", "fails", "query"}

\* A connection: whether it is in a transaction, whether that has read, and the
\* rows it has written.
Connected == [path : Paths, open : BOOLEAN, read : BOOLEAN, written : Nat]

\* What the constants are.
DatabaseAssumption ==
    /\ Scripts \subseteq Seq(Statements)
    /\ {MaxHandles, MaxRows} \subseteq Nat
    /\ None \notin Connected

VARIABLES
    stored,        \* how many rows each database holds
    connections,   \* the registry: handles count up from 1
    answer         \* of the last call

vars == <<stored, connections, answer>>

Connection(path) == [path |-> path, open |-> FALSE, read |-> FALSE, written |-> 0]
Handles == 1 .. MaxHandles
Live(h) == h \in DOMAIN connections /\ connections[h] # None
LiveHandles == {h \in DOMAIN connections : Live(h)}

\* The handles but `but` whose transactions have read or written a database.
Reading(path, but) ==
    {h \in LiveHandles \ {but} : connections[h].path = path /\ connections[h].read}
Writing(path, but) ==
    {h \in LiveHandles \ {but} : connections[h].path = path /\ connections[h].written > 0}

TypeOK ==
    /\ stored \in [Paths -> 0 .. MaxRows]
    /\ connections \in Seq(Connected \cup {None})
    /\ answer \in {"none", "ok", "failed", "locked", "unknown"}

Init ==
    /\ stored = [path \in Paths |-> 0]
    /\ connections = <<>> /\ answer = "none"

\* SQLite: a statement on a connection.  A failure changes nothing and leaves the
\* transaction open.
Outcome(c, rows, said) == [connection |-> c, rows |-> rows, answer |-> said]
Blocked(c, but, statement) ==
    \/ statement = "insert" /\ Writing(c.path, but) # {}
    \/ statement = "insert" /\ ~c.open /\ Reading(c.path, but) # {}
    \/ statement = "commit" /\ c.written > 0 /\ Reading(c.path, but) # {}
Execute(c, rows, but, statement) ==
    CASE Blocked(c, but, statement) -> Outcome(c, rows, "locked")
      [] statement = "insert" /\ ~Blocked(c, but, statement) ->
            IF c.open THEN Outcome([c EXCEPT !.written = @ + 1], rows, "ok")
            ELSE Outcome(c, rows + 1, "ok")
      [] statement = "begin" /\ ~c.open -> Outcome([c EXCEPT !.open = TRUE], rows, "ok")
      [] statement = "commit" /\ c.open /\ ~Blocked(c, but, statement) ->
            Outcome(Connection(c.path), rows + c.written, "ok")
      [] statement = "rollback" /\ c.open -> Outcome(Connection(c.path), rows, "ok")
      [] statement = "query" -> Outcome([c EXCEPT !.read = c.open], rows, "ok")
      [] OTHER -> Outcome(c, rows, "failed")

\* A script stops at the first statement that fails; what it did before stays.
op_script(c, rows, but, script) ==
    LET from[k \in 0 .. Len(script)] ==
            IF k = 0 THEN Outcome(c, rows, "ok")
            ELSE LET before == from[k - 1]
                 IN  IF before.answer # "ok" THEN before
                     ELSE Execute(before.connection, before.rows, but, script[k])
    IN  from[Len(script)]

\* A mistake: the connection of a call that failed is not closed.
with_path_leaks(path, script) ==
    LET done == op_script(Connection(path), stored[path], 0, script)
    IN  /\ done.rows <= MaxRows
        /\ stored' = [stored EXCEPT ![path] = done.rows]
        /\ answer' = done.answer
        /\ connections' = IF done.answer = "ok" THEN connections
                          ELSE Append(connections, done.connection)

\* Operations by path.  The connection is dropped, with a transaction it may
\* have left open.
with_path(path, script) ==
    LET done == op_script(Connection(path), stored[path], 0, script)
    IN  /\ done.rows <= MaxRows
        /\ stored' = [stored EXCEPT ![path] = done.rows]
        /\ answer' = done.answer
        /\ UNCHANGED connections

\* Operations by handle.
with_handle(h, script) ==
    IF ~Live(h) THEN answer' = "unknown" /\ UNCHANGED <<stored, connections>>
    ELSE LET path == connections[h].path
             done == op_script(connections[h], stored[path], h, script)
         IN  /\ done.rows + done.connection.written <= MaxRows
             /\ stored' = [stored EXCEPT ![path] = done.rows]
             /\ connections' = [connections EXCEPT ![h] = done.connection]
             /\ answer' = done.answer

open(path) ==
    /\ Len(connections) < MaxHandles
    /\ connections' = Append(connections, Connection(path))
    /\ answer' = "ok"
    /\ UNCHANGED stored

\* What the connection had not committed is rolled back.
close(h) ==
    /\ IF Live(h) THEN connections' = [connections EXCEPT ![h] = None] /\ answer' = "ok"
       ELSE UNCHANGED connections /\ answer' = "unknown"
    /\ UNCHANGED stored

Next ==
    \/ \E path \in Paths : open(path) \/ \E script \in Scripts : with_path(path, script)
    \/ \E h \in Handles : close(h) \/ \E script \in Scripts : with_handle(h, script)

Spec == Init /\ [][Next]_vars

-----------------------------------------------------------------------------
\* A handle stands for the connection that open returned it for and for no later
\* one, and it stays closed once it is closed.  A call by path leaves no
\* transaction behind, however its script ends: a statement is refused as locked
\* only while a handle that the program can still close is in a transaction.
\* Closing a handle stores nothing.
TransactionsBelongToHandles ==
    /\ \A h \in DOMAIN connections :
          IF Live(h)
          THEN connections'[h] # None => connections'[h].path = connections[h].path
          ELSE connections'[h] = None
    /\ Len(connections') > Len(connections) => answer' = "ok" /\ stored' = stored
    /\ answer' = "locked" => \E h \in LiveHandles : connections[h].open
    /\ LiveHandles' # LiveHandles => stored' = stored
=============================================================================
