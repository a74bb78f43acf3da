----------------------------- MODULE MCDatabase -----------------------------
(* Database for TLC.  Clients, and tables, are interchangeable.            *)
EXTENDS Database, TLC

CONSTANTS p, q, a, b

Symmetry == Permutations({p, q}) \cup Permutations({a, b})
=============================================================================
