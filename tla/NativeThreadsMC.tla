-------------------------- MODULE NativeThreadsMC --------------------------
(***************************************************************************)
(* Small programs for TLC: which threads start, join and detach others.    *)
(***************************************************************************)
EXTENDS NativeThreadsProperties

CONSTANTS main, w1, w2, w3

=============================================================================
