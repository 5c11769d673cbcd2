---------------------------- MODULE MCPacRouting ----------------------------
(* PacRouting for TLC: the user's scripts are interchangeable. *)
EXTENDS PacRouting, TLC

MCSymmetry == Permutations(UserPacs)
=============================================================================
