---------------------------- MODULE MCIndexCache ----------------------------
(* TLC instance of IndexCache. *)
EXTENDS IndexCache, TLC

CONSTANTS t1, t2, comma, tab

MCTables == {t1, t2}
MCDialects == {comma, tab}

(* Tables are interchangeable; used where no liveness is checked. *)
Symmetry == Permutations(MCTables)
=============================================================================
