------------------------------ MODULE Network ------------------------------
(***************************************************************************)
(* The clients of the native module `network` (rust/network/src/lib.rs):   *)
(* HTTP requests, and named WebSocket and TCP connections, which each      *)
(* thread keeps in a registry of its own (thread_local).  Every operation  *)
(* that may block runs without the interpreter lock.                       *)
(*                                                                         *)
(* What a peer sends on a connection is numbered; a message is the number  *)
(* of a WebSocket message, or of a chunk of a TCP stream.                  *)
(***************************************************************************)
EXTENDS Naturals, Sequences, FiniteSets

CONSTANTS Threads, Names,
          Peers,       \* the connections a run may open: a bound
          MaxSent,     \* bound on the messages of a peer
          Closed       \* no connection, no thread, no call

Kinds == {"ws", "tcp"}
Message == [from : Peers, number : 1..MaxSent]
Call == [op : {"http", "connect", "send", "receive", "send_receive", "close"},
         kind : Kinds, name : Names]

\* What the constants are.
NetworkAssumption == Closed \notin Peers \cup Threads \cup Call /\ MaxSent \in Nat

VARIABLES
    holder,      \* the interpreter lock
    pc,          \* "code", "blocking", "returned" or "waiting" (for the lock)
    call,        \* the call a thread is in, or Closed
    registry,    \* CONNECTIONS and TCP_CONNECTIONS of each thread
    connected,   \* ws: the flag of a connection
    opened,      \* the connections that were opened
    ended,       \* those that the peer has closed
    sent, taken, \* messages the peer has sent, messages that were read
    newest,      \* the connection the last connect that succeeded has opened
    received     \* the messages received under a name since then

vars == <<holder, pc, call, registry, connected, opened, ended, sent, taken,
          newest, received>>

Registry == [Threads -> [Kinds -> [Names -> Peers \cup {Closed}]]]

TypeOK ==
    /\ holder \in Threads \cup {Closed}
    /\ pc \in [Threads -> {"code", "blocking", "returned", "waiting"}]
    /\ call \in [Threads -> Call \cup {Closed}]
    /\ registry \in Registry /\ newest \in Registry
    /\ connected \in [Peers -> BOOLEAN]
    /\ opened \subseteq Peers /\ ended \subseteq Peers
    /\ sent \in [Peers -> 0..MaxSent] /\ taken \in [Peers -> 0..MaxSent]
    /\ received \in [Threads -> [Kinds -> [Names -> Seq(Message)]]]

Unopened == [t \in Threads |-> [k \in Kinds |-> [n \in Names |-> Closed]]]

Init ==
    /\ holder \in Threads
    /\ pc = [t \in Threads |-> IF t = holder THEN "code" ELSE "waiting"]
    /\ call = [t \in Threads |-> Closed]
    /\ registry = Unopened /\ newest = Unopened
    /\ connected = [p \in Peers |-> FALSE]
    /\ opened = {} /\ ended = {}
    /\ sent = [p \in Peers |-> 0] /\ taken = [p \in Peers |-> 0]
    /\ received = [t \in Threads |-> [k \in Kinds |-> [n \in Names |-> <<>>]]]

connections == <<registry, connected, opened, ended, sent, taken, newest, received>>

-----------------------------------------------------------------------------
(* while_interpreter_unlocked                                              *)

Yield(t) ==
    /\ holder = t /\ pc[t] = "code"
    /\ holder' = Closed
    /\ pc' = [pc EXCEPT ![t] = "waiting"]
    /\ UNCHANGED <<call, connections>>

Begin(t, c) ==
    /\ holder = t /\ pc[t] = "code"
    /\ holder' = Closed
    /\ pc' = [pc EXCEPT ![t] = "blocking"]
    /\ call' = [call EXCEPT ![t] = c]
    /\ UNCHANGED connections

Acquire(t) ==
    /\ holder = Closed /\ pc[t] \in {"returned", "waiting"}
    /\ holder' = t
    /\ pc' = [pc EXCEPT ![t] = "code"]
    /\ UNCHANGED <<call, connections>>

In(t, op) == pc[t] = "blocking" /\ call[t].op = op
Entry(t) == registry[t][call[t].kind][call[t].name]

\* The operation is over, with an answer, an error text or a panic.
Returned(t) ==
    /\ pc' = [pc EXCEPT ![t] = "returned"]
    /\ call' = [call EXCEPT ![t] = Closed]
    /\ UNCHANGED holder

-----------------------------------------------------------------------------
(* The operations.                                                         *)

\* get, post, put, patch, delete, download, head, resolve, isPortOpen
http(t) == In(t, "http") /\ Returned(t) /\ UNCHANGED connections

\* A mistake: a name that is taken keeps its connection.
connect_keeps(t, p) ==
    /\ In(t, "connect") /\ p \in Peers \ opened
    /\ opened' = opened \cup {p}
    /\ registry' = [registry EXCEPT ![t][call[t].kind][call[t].name] =
                       IF @ = Closed THEN p ELSE @]
    /\ newest' = [newest EXCEPT ![t][call[t].kind][call[t].name] = p]
    /\ connected' = [connected EXCEPT ![p] = TRUE]
    /\ received' = [received EXCEPT ![t][call[t].kind][call[t].name] = <<>>]
    /\ Returned(t)
    /\ UNCHANGED <<ended, sent, taken>>

\* A name that is taken gets the new connection; the old one is dropped.
connect(t, p) ==
    /\ In(t, "connect") /\ p \in Peers \ opened
    /\ opened' = opened \cup {p}
    /\ registry' = [registry EXCEPT ![t][call[t].kind][call[t].name] = p]
    /\ newest' = [newest EXCEPT ![t][call[t].kind][call[t].name] = p]
    /\ connected' = [connected EXCEPT ![p] = TRUE]
    /\ received' = [received EXCEPT ![t][call[t].kind][call[t].name] = <<>>]
    /\ Returned(t)
    /\ UNCHANGED <<ended, sent, taken>>

\* An empty name, a host that does not answer, a name no one has opened.
fail(t) ==
    /\ pc[t] = "blocking"
    /\ \/ call[t].op = "connect"
       \/ call[t].op \in {"send", "receive", "send_receive", "close"} /\ Entry(t) = Closed
       \/ /\ call[t].op \in {"send", "receive", "send_receive"}
          /\ call[t].kind = "ws" /\ Entry(t) # Closed /\ ~connected[Entry(t)]
    /\ Returned(t)
    /\ UNCHANGED connections

Usable(t) == Entry(t) # Closed /\ (call[t].kind = "ws" => connected[Entry(t)])

\* ws_send and tcp_send; an error changes nothing here.
send(t) ==
    /\ In(t, "send") /\ Usable(t)
    /\ Returned(t)
    /\ UNCHANGED connections

\* send_receive goes on to receive when the message was sent.
sent_first(t, ok) ==
    /\ In(t, "send_receive") /\ Usable(t)
    /\ IF ok THEN call' = [call EXCEPT ![t].op = "receive"] /\ UNCHANGED <<holder, pc>>
             ELSE Returned(t)
    /\ UNCHANGED connections

\* One message of a WebSocket, some chunks of a TCP stream.
receive(t, count) ==
    /\ In(t, "receive") /\ Usable(t)
    /\ count \in 1..(sent[Entry(t)] - taken[Entry(t)])
    /\ call[t].kind = "ws" => count = 1
    /\ taken' = [taken EXCEPT ![Entry(t)] = @ + count]
    /\ received' = [received EXCEPT ![t][call[t].kind][call[t].name] =
          @ \o [i \in 1..count |-> [from |-> Entry(t), number |-> taken[Entry(t)] + i]]]
    /\ Returned(t)
    /\ UNCHANGED <<registry, connected, opened, ended, sent, newest>>

\* After 30 seconds, "receive timeout".
receive_times_out(t) ==
    /\ In(t, "receive") /\ Usable(t)
    /\ Returned(t)
    /\ UNCHANGED connections

\* The peer has closed: a WebSocket is no longer connected, a TCP stream goes
\* on answering "".
receive_ends(t) ==
    /\ In(t, "receive") /\ Usable(t) /\ Entry(t) \in ended
    /\ sent[Entry(t)] = taken[Entry(t)]
    /\ connected' = IF call[t].kind = "ws" THEN [connected EXCEPT ![Entry(t)] = FALSE]
                    ELSE connected
    /\ Returned(t)
    /\ UNCHANGED <<registry, opened, ended, sent, taken, newest, received>>

close(t) ==
    /\ In(t, "close") /\ Entry(t) # Closed
    /\ registry' = [registry EXCEPT ![t][call[t].kind][call[t].name] = Closed]
    /\ Returned(t)
    /\ UNCHANGED <<connected, opened, ended, sent, taken, newest, received>>

-----------------------------------------------------------------------------
(* The peers.                                                              *)

PeerSends(p) ==
    /\ p \in opened \ ended /\ sent[p] < MaxSent
    /\ sent' = [sent EXCEPT ![p] = @ + 1]
    /\ UNCHANGED <<holder, pc, call, registry, connected, opened, ended, taken,
                   newest, received>>

PeerCloses(p) ==
    /\ p \in opened \ ended
    /\ ended' = ended \cup {p}
    /\ UNCHANGED <<holder, pc, call, registry, connected, opened, sent, taken,
                   newest, received>>

-----------------------------------------------------------------------------
Next ==
    \/ \E t \in Threads :
         \/ Yield(t) \/ Acquire(t) \/ \E c \in Call : Begin(t, c)
         \/ http(t) \/ fail(t) \/ send(t) \/ receive_times_out(t) \/ receive_ends(t)
         \/ close(t)
         \/ \E p \in Peers : connect(t, p)
         \/ \E ok \in BOOLEAN : sent_first(t, ok)
         \/ \E count \in 1..MaxSent : receive(t, count)
    \/ \E p \in Peers : PeerSends(p) \/ PeerCloses(p)

Spec == Init /\ [][Next]_vars

-----------------------------------------------------------------------------
\* Under a name a thread receives what the connection it opened last has sent,
\* all of it, in order and once, whatever timeouts, other names, threads and
\* connections under the same name came between.
ReceivedInOrder ==
    \A t \in Threads, k \in Kinds, n \in Names :
       LET got == received[t][k][n]
       IN  \A i \in DOMAIN got : got[i] = [from |-> newest[t][k][n], number |-> i]
=============================================================================
