---------------------------- MODULE AsyncTasksMC ----------------------------
(***************************************************************************)
(* A program for TLC: main runs two tasks, one of which runs and awaits a  *)
(* third; every task is awaited by the thread that runs it, and by itself. *)
(***************************************************************************)
EXTENDS AsyncTasksProperties

CONSTANTS main, a, b, c

NestedRuns == {<<main, a>>, <<main, c>>, <<a, b>>}
NestedAwaits == {<<main, a>>, <<a, b>>, <<a, a>>}
NestedGathers == {<<main, <<a, c>>>>, <<a, <<b, a>>>>}

=============================================================================
