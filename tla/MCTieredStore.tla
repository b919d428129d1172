---------------------------- MODULE MCTieredStore ----------------------------
(* Instances of TieredStore for TLC: a local tier over Postgres.             *)
EXTENDS TieredStore, TLC

MCKind == <<"local", "postgres">>
MCLimit == <<1, 0>>
Symmetry == Permutations(Jobs) \cup Permutations(Refs)
=============================================================================
