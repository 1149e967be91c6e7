------------------------------ MODULE MCHash ------------------------------
(* Tuning structures for TLC: one that grows and shrinks early, one that the *)
(* user has made invalid.                                                    *)
EXTENDS HashTable

Early == [shrink_threshold |-> 90, shrink_factor |-> 500,
          growth_threshold |-> 200, growth_factor |-> 1500, is_n_buckets |-> TRUE]
Entrywise == [Early EXCEPT !.is_n_buckets = FALSE, !.growth_threshold = 250]
Invalid == [Early EXCEPT !.growth_threshold = 60]
MCTunings == {Early, Invalid}
=============================================================================
