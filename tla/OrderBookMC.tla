----------------------------- MODULE OrderBookMC -----------------------------
(* Small instances of OrderBook for TLC. *)
EXTENDS OrderBook, TLC

\* Order ids are only compared for equality.
Symmetry == Permutations(Ids)
=============================================================================
