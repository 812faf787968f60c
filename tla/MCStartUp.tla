----------------------------- MODULE MCStartUp -----------------------------
(* Instances of StartUp for TLC: token_nonces lacks a column or its index, *)
(* runs lacks a column or is not there at all; or a primary key is new.    *)
EXTENDS StartUp, TLC

CONSTANTS t1, t2, nonces, runs, key, by_key, goal, row_id

AnOrder == <<nonces, runs>>
TheColumns == (nonces :> {key}) @@ (runs :> {goal, row_id})
TheIndexes == (nonces :> {by_key}) @@ (runs :> {})
TheFiles == {{nonces}, {nonces, key, runs, row_id}, {nonces, key, by_key, runs, goal}}
Hosts == (t1 :> App) @@ (t2 :> Gateway)

Symmetry == Permutations(Acts)
=============================================================================
