---------------------------- MODULE OwnershipMC ----------------------------
(***************************************************************************)
(* Small programs for TLC.                                                 *)
(***************************************************************************)
EXTENDS OwnershipProperties, TLC

CONSTANTS x, y, z

Symmetric == Permutations(Names)

NoParameters == {{}}
ShadowingParameters == {{}, {x}, {y}}

=============================================================================
