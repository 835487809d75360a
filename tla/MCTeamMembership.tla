-------------------------- MODULE MCTeamMembership --------------------------
(* Instances of TeamMembership for TLC. *)
EXTENDS TeamMembership, TLC

CONSTANTS u1, u2, u3, t1, t2, c1, c2, q1, q2, q3

Symmetry == Permutations(Users) \cup Permutations(Teams) \cup Permutations(Codes)
            \cup Permutations(Requests)
=============================================================================
