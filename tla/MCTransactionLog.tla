-------------------------- MODULE MCTransactionLog --------------------------
(* Instances of TransactionLog for TLC. *)
EXTENDS TransactionLog, TLC

\* A restart keeps the configured size or raises it, from 2 over 3 to 4 entries.
GrowingConfig == {<<2, 2>>, <<2, 3>>, <<3, 3>>, <<3, 4>>, <<4, 4>>}

Symmetry == Permutations(Transaction)

=============================================================================
