----------------------------- MODULE Evaluation -----------------------------
(***************************************************************************)
(* What the interpreter lock promises: "two threads never evaluate at      *)
(* once" (builtins.cpp, the comment on the managed native threads).        *)
(* Evaluation is handed from one thread to the next through a moment in    *)
(* which nobody evaluates; no thread evaluates because another let it.     *)
(* Every module with threads is checked against this specification.        *)
(***************************************************************************)

CONSTANTS Threads, Main

VARIABLE evaluating     \* the threads that evaluate Lynxer code

Init == evaluating = {Main}

Enter(t) == evaluating = {} /\ evaluating' = {t}
Leave(t) == evaluating = {t} /\ evaluating' = {}

Next == \E t \in Threads : Enter(t) \/ Leave(t)

Handover == [][Next]_evaluating

Spec == Init /\ Handover

=============================================================================
