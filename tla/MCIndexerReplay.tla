-------------------------- MODULE MCIndexerReplay --------------------------
(* Instances of IndexerReplay for TLC. *)
EXTENDS IndexerReplay, TLC

CONSTANTS p1, p2, s1, s2

\* Every request asks for the whole ledger.
OneRange == {[first |-> 1, rows |-> NumRows]}
\* The whole ledger, and a range without rows.
WholeOrEmpty == {[first |-> 1, rows |-> NumRows], [first |-> 1, rows |-> 0]}

Symmetric == Permutations({p1, p2})
============================================================================
