------------------------- MODULE MCMigrationHistory -------------------------
(***************************************************************************)
(* MigrationHistory for TLC.  Two clients make every race between two      *)
(* commands; versions 1 and 2 make a gap, an order and a prefix.           *)
(***************************************************************************)
EXTENDS MigrationHistory, TLC

\* Clients, and seed contents, are interchangeable.
Symmetry == Permutations(Clients) \cup Permutations(Hashes)
=============================================================================
