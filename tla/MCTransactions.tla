---------------------------- MODULE MCTransactions ----------------------------
(* Transactions on small instances, on either kind of backend: one that        *)
(* buffers writes and finds a lost race at the commit, or one that locks rows  *)
(* and finds it at the write, where a save may also be made without a          *)
(* transaction.  Transactions are interchangeable, and so are entities.        *)
EXTENDS Transactions, TLC

MCMaxOutside == [b \in Backends |-> IF b = "locking" THEN 1 ELSE 0]

TxAndEntitySymmetry == Permutations(Tx) \cup Permutations(Entity)
=============================================================================
