----------------------------- MODULE MCBoundary -----------------------------
(* Instances of Boundary for TLC. *)
EXTENDS Boundary, TLC

MCRunOf == [p \in Proposals |-> CHOOSE r \in Runs : TRUE]

(* Operators, threads, nonces, keys and letters are interchangeable.       *)
Symmetry == Permutations(Operators) \cup Permutations(Workers) \cup Permutations(Nonces)
            \cup Permutations(Keys) \cup Permutations(Letters) \cup Permutations(Proposals)
=============================================================================
