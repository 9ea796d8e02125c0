------------------------------ MODULE MCAvatars ------------------------------
(* Values of Avatars' constants. *)
EXTENDS Avatars, TLC

CONSTANTS u1, u2, u3, q1, q2, q3

AvatarSymmetry == Permutations({u1, u2}) \cup Permutations({q1, q2, q3})
=============================================================================
